--------------------------- MODULE SocialAccounts ---------------------------
(***************************************************************************)
(* The social accounts of a user: one name per platform, kept by the       *)
(* server, and the section of the settings that saves and removes them.    *)
(* Saving is three calls (delete the account shown, create the new one,    *)
(* read them all again), removing two; a platform's buttons wait for       *)
(* themselves, but Enter in its field saves whatever is under way.         *)
(***************************************************************************)
EXTENDS Naturals, FiniteSets

CONSTANTS None, Platforms, Names, MaxWorks, MaxTyped, MaxLost

VARIABLES
  stored, nextId,                              \* server: per platform, id and name
  accounts, inputs, saving, removing,          \* page
  works,                                       \* page: the handlers under way
  started, typed, lost,                        \* history: counters,
  savedAs, adrift                              \* what a save said; what overlapped or was lost

pageVars == <<accounts, inputs, saving, removing>>
serverVars == <<stored, nextId>>
vars == <<serverVars, pageVars, works, started, typed, lost, savedAs, adrift>>

Ids == 1..(Cardinality(Platforms) + MaxWorks)
Accounts == [Platforms -> [id : Ids, name : Names] \cup {None}]
Stages == {"delete", "create", "load", "show"}

TypeOK ==
  /\ {stored, accounts} \subseteq Accounts /\ nextId \in 1..(Cardinality(Ids) + 1)
  /\ inputs \in [Platforms -> Names \cup {None}]
  /\ saving \subseteq Platforms /\ removing \subseteq Platforms
  /\ \A w \in works : w.stage \in Stages /\ w.of \in Platforms \cup {None}
  /\ started \in 0..MaxWorks /\ typed \in 0..MaxTyped /\ lost \in 0..MaxLost
  /\ savedAs \in [Platforms -> Names \cup {None}] /\ adrift \in BOOLEAN

\* The section is mounted: its first read is under way.
Nothing == [p \in Platforms |-> None]
Init ==
  /\ stored \in {Nothing} \cup {[Nothing EXCEPT ![p] = [id |-> 1, name |-> n]] :
                                p \in Platforms, n \in Names}
  /\ nextId = 2
  /\ accounts = Nothing /\ inputs = Nothing /\ saving = {} /\ removing = {}
  /\ works = {[n |-> 0, op |-> "load", of |-> None, id |-> None, name |-> None, stage |-> "load",
               got |-> None, alone |-> TRUE]}
  /\ started = 0 /\ typed = 0 /\ lost = 0 /\ savedAs = Nothing /\ adrift = FALSE

-----------------------------------------------------------------------------
\* The section.

setInput(p, n) ==
  /\ typed < MaxTyped /\ n # inputs[p]
  /\ inputs' = [inputs EXCEPT ![p] = n] /\ typed' = typed + 1
  /\ UNCHANGED <<serverVars, accounts, saving, removing, works, started, lost, savedAs, adrift>>

getAccount(p) == accounts[p]
IdOf(p) == IF getAccount(p) = None THEN None ELSE getAccount(p).id
OfPlatform(p) == {w \in works : w.of = p}

\* Two handlers on one platform: neither is alone.
start(p, op, name, stage) ==
  /\ started < MaxWorks /\ started' = started + 1
  /\ works' = {IF w.of = p THEN [w EXCEPT !.alone = FALSE] ELSE w : w \in works} \cup
              {[n |-> started + 1, op |-> op, of |-> p, id |-> IdOf(p), name |-> name,
                stage |-> stage, got |-> None, alone |-> OfPlatform(p) = {}]}
  /\ savedAs' = [savedAs EXCEPT ![p] = None]
  /\ adrift' = (adrift \/ works # {})
  /\ UNCHANGED <<serverVars, accounts, inputs, typed, lost>>

\* By the button, which waits for a save of its platform, or by Enter, which does not.
handleSave(p) ==
  /\ inputs[p] # None
  /\ start(p, "save", inputs[p], IF getAccount(p) = None THEN "create" ELSE "delete")
  /\ saving' = saving \cup {p} /\ UNCHANGED removing

RemoveButton(p) == getAccount(p) # None /\ p \notin removing
handleRemove(p) ==
  /\ RemoveButton(p) /\ start(p, "remove", None, "delete")
  /\ removing' = removing \cup {p} /\ UNCHANGED saving

Step(w, stage) == works' = (works \ {w}) \cup {[w EXCEPT !.stage = stage]}

\* The end of a handler, however it came: its button is free.
Finish(w) ==
  /\ works' = works \ {w}
  /\ saving' = IF w.op = "save" THEN saving \ {w.of} ELSE saving
  /\ removing' = IF w.op = "remove" THEN removing \ {w.of} ELSE removing

-----------------------------------------------------------------------------
\* The calls.

Exists(p, id) == stored[p] # None /\ stored[p].id = id

delete_social_account(w) ==
  /\ w.stage = "delete" /\ Exists(w.of, w.id)
  /\ stored' = [stored EXCEPT ![w.of] = None]
  /\ Step(w, IF w.op = "save" THEN "create" ELSE "load")
  /\ inputs' = IF w.op = "save" THEN inputs ELSE [inputs EXCEPT ![w.of] = None]
  /\ UNCHANGED <<nextId, accounts, saving, removing, started, typed, lost, savedAs, adrift>>

\* An account that is gone already fails the handler before it creates anything, and
\* the page goes on showing it.
NotFound(w) ==
  /\ w.stage = "delete" /\ ~Exists(w.of, w.id) /\ Finish(w)
  /\ adrift' = TRUE
  /\ UNCHANGED <<serverVars, accounts, inputs, started, typed, lost, savedAs>>

Upsert(old, name) == IF old # None THEN [old EXCEPT !.name = name] ELSE [id |-> nextId, name |-> name]
create_or_update(w) ==
  /\ w.stage = "create"
  /\ stored' = [stored EXCEPT ![w.of] = Upsert(@, w.name)]
  /\ nextId' = IF stored[w.of] = None THEN nextId + 1 ELSE nextId
  /\ savedAs' = IF w.alone THEN [savedAs EXCEPT ![w.of] = w.name] ELSE savedAs
  /\ Step(w, "load")
  /\ UNCHANGED <<pageVars, started, typed, lost, adrift>>

\* Refused or lost, with or without effect.
CallFailed(w, acted) ==
  /\ w.stage \in {"delete", "create"} /\ lost < MaxLost
  /\ stored' = IF acted /\ w.stage = "delete" /\ Exists(w.of, w.id)
               THEN [stored EXCEPT ![w.of] = None]
               ELSE IF acted /\ w.stage = "create" THEN [stored EXCEPT ![w.of] = Upsert(@, w.name)]
               ELSE stored
  /\ nextId' = IF acted /\ w.stage = "create" /\ stored[w.of] = None THEN nextId + 1 ELSE nextId
  /\ Finish(w) /\ lost' = lost + 1 /\ adrift' = TRUE
  /\ UNCHANGED <<accounts, inputs, started, typed, savedAs>>

list_social_accounts(w) ==
  /\ w.stage = "load"
  /\ works' = (works \ {w}) \cup {[w EXCEPT !.stage = "show", !.got = stored]}
  /\ UNCHANGED <<serverVars, pageVars, started, typed, lost, savedAs, adrift>>

\* What was read fills every field, whatever was typed in it meanwhile.
Prefill(got) == [p \in Platforms |-> IF got[p] = None THEN None ELSE got[p].name]
Loaded(w) ==
  /\ w.stage = "show"
  /\ accounts' = w.got /\ inputs' = Prefill(w.got) /\ Finish(w)
  /\ UNCHANGED <<serverVars, started, typed, lost, savedAs, adrift>>

\* Silent.
NotLoaded(w) ==
  /\ w.stage = "show" /\ lost < MaxLost
  /\ Finish(w) /\ lost' = lost + 1 /\ adrift' = TRUE
  /\ UNCHANGED <<serverVars, accounts, inputs, started, typed, savedAs>>

-----------------------------------------------------------------------------
Next ==
  \/ (\E p \in Platforms, n \in Names \cup {None} : setInput(p, n))
  \/ (\E p \in Platforms : handleSave(p)) \/ (\E p \in Platforms : handleRemove(p))
  \/ (\E w \in works : delete_social_account(w)) \/ (\E w \in works : NotFound(w))
  \/ (\E w \in works : create_or_update(w)) \/ (\E w \in works, b \in BOOLEAN : CallFailed(w, b))
  \/ (\E w \in works : list_social_accounts(w)) \/ (\E w \in works : Loaded(w))
  \/ (\E w \in works : NotLoaded(w))

Spec == Init /\ [][Next]_vars

-----------------------------------------------------------------------------
\* A name the page said was saved is the one the server has, also when the page did not
\* know of an account there; until a handler on that platform starts again.
SavedIsStored ==
  \A p \in Platforms : savedAs[p] # None => stored[p] # None /\ stored[p].name = savedAs[p]

\* Once every handler has ended the section shows the accounts the server has, unless
\* handlers overlapped or a call failed.
AccountsShown == works = {} /\ ~adrift => accounts = stored

\* Why a save is stored: a handler alone on its platform has no other there, and those
\* that go on once a save was told have no write left.
SaveInv ==
  /\ \A w \in works : w.alone => OfPlatform(w.of) = {w}
  /\ \A p \in Platforms : savedAs[p] # None => \A w \in OfPlatform(p) : w.stage \in {"load", "show"}

\* Unless handlers overlapped or a call failed there is one handler at most, and what it
\* read is what is stored.
ShownInv ==
  ~adrift =>
    /\ \A v, w \in works : v = w
    /\ \A w \in works : w.stage = "show" => w.got = stored
    /\ AccountsShown
=============================================================================
