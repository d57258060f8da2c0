------------------------------ MODULE SharePanel ------------------------------
(***************************************************************************)
(* The panel that shares a listing with colleagues: a list loaded whenever *)
(* the panel opens and after each share, and patched in place by a revoke  *)
(* or a new level.  Sharing twice with one person makes two permissions.   *)
(***************************************************************************)
EXTENDS Naturals, FiniteSets

CONSTANTS None, People, Levels, MaxShares, MaxChanges, MaxOpened, MaxLost

VARIABLES
  granted,                                    \* server: the permissions not revoked
  isOpen, permissions, loading, sharing,      \* the panel
  loads, requests,                            \* requests under way
  shares, changes, opened, lost, adrift       \* history

panelVars == <<isOpen, permissions, loading, sharing>>
historyVars == <<shares, changes, opened, lost, adrift>>
vars == <<granted, panelVars, loads, requests, historyVars>>

Ids == 1..MaxShares
Permissions == [id : Ids, who : People, level : Levels]
Requests == [n : 1..(MaxShares + MaxChanges), op : {"share", "revoke", "update"}, id : Ids,
             who : People \cup {None}, level : Levels \cup {None}]

TypeOK ==
  /\ granted \subseteq Permissions /\ permissions \subseteq Permissions
  /\ {isOpen, loading, sharing, adrift} \subseteq BOOLEAN
  /\ loads \subseteq [n : 1..(MaxOpened + MaxShares), got : SUBSET Permissions]
  /\ requests \subseteq Requests
  /\ shares \in 0..MaxShares /\ changes \in 0..MaxChanges
  /\ opened \in 0..(MaxOpened + MaxShares) /\ lost \in 0..MaxLost

Init ==
  /\ granted = {} /\ isOpen = FALSE /\ permissions = {} /\ loading = FALSE /\ sharing = FALSE
  /\ loads = {} /\ requests = {}
  /\ shares = 0 /\ changes = 0 /\ opened = 0 /\ lost = 0 /\ adrift = FALSE

Busy == loads # {} \/ requests # {}

-----------------------------------------------------------------------------
\* (opened counts the loads: one per opening and one per share.)
loadPermissions ==
  /\ loading' = TRUE
  /\ loads' = loads \cup {[n |-> opened + 1, got |-> granted]} /\ opened' = opened + 1

Open ==
  /\ ~isOpen /\ opened < MaxOpened
  /\ isOpen' = TRUE /\ loadPermissions
  /\ UNCHANGED <<granted, permissions, sharing, requests, shares, changes, lost>>
  /\ adrift' = (adrift \/ Busy)

onClose ==
  /\ isOpen
  /\ isOpen' = FALSE
  /\ UNCHANGED <<granted, permissions, loading, sharing, loads, requests, historyVars>>

\* An answer is shown when it comes, though a later one was shown already.
Loaded(l) ==
  /\ l \in loads
  /\ permissions' = l.got /\ loading' = FALSE /\ loads' = loads \ {l}
  /\ UNCHANGED <<granted, isOpen, sharing, requests, historyVars>>

LoadFailed(l) ==
  /\ l \in loads /\ lost < MaxLost
  /\ loading' = FALSE /\ loads' = loads \ {l}
  /\ UNCHANGED <<granted, isOpen, permissions, sharing, requests, shares, changes, opened>>
  /\ lost' = lost + 1 /\ adrift' = TRUE

-----------------------------------------------------------------------------
Request(op, id, who, level) ==
  /\ requests' = requests \cup
       {[n |-> shares + changes + 1, op |-> op, id |-> id, who |-> who, level |-> level]}
  /\ UNCHANGED <<granted, isOpen, permissions, loading, loads, opened, lost>>
  /\ adrift' = (adrift \/ Busy)

\* The form of the open panel, and its rows, hidden while the list loads.
ShareForm == isOpen /\ ~sharing
PermissionRows == IF isOpen /\ ~loading THEN permissions ELSE {}

handleShare(who, level) ==
  /\ ShareForm /\ shares < MaxShares
  /\ sharing' = TRUE /\ Request("share", shares + 1, who, level)
  /\ shares' = shares + 1 /\ UNCHANGED changes

handleRevoke(p) ==
  /\ p \in PermissionRows /\ changes < MaxChanges
  /\ Request("revoke", p.id, None, None)
  /\ UNCHANGED <<sharing, shares>> /\ changes' = changes + 1

handleUpdatePermission(p, level) ==
  /\ p \in PermissionRows /\ level # p.level /\ changes < MaxChanges
  /\ Request("update", p.id, None, level)
  /\ UNCHANGED <<sharing, shares>> /\ changes' = changes + 1

Patched(ps, r) == CASE r.op = "revoke" -> {p \in ps : p.id # r.id}
                    [] r.op = "update" -> {IF p.id = r.id THEN [p EXCEPT !.level = r.level] ELSE p :
                                             p \in ps}
                    [] r.op = "share"  -> ps \cup {[id |-> r.id, who |-> r.who, level |-> r.level]}

\* The server does it and the panel shows it: a share by loading the list again.
Succeeded(r) ==
  /\ r \in requests
  /\ granted' = Patched(granted, r) /\ requests' = requests \ {r}
  /\ IF r.op = "share"
       THEN /\ sharing' = FALSE /\ loading' = TRUE /\ opened' = opened + 1
            /\ loads' = loads \cup {[n |-> opened', got |-> granted']}
            /\ UNCHANGED permissions
       ELSE permissions' = Patched(permissions, r) /\ UNCHANGED <<sharing, loading, loads, opened>>
  /\ UNCHANGED <<isOpen, shares, changes, lost>>
  /\ adrift' = (adrift \/ (r.op = "share" /\ loads # {}))

\* Refused (nobody of that name, the plan), or lost with or without effect.
Failed(r, acted) ==
  /\ r \in requests /\ (acted => lost < MaxLost)
  /\ granted' = IF acted THEN Patched(granted, r) ELSE granted
  /\ requests' = requests \ {r} /\ sharing' = (sharing /\ r.op # "share")
  /\ UNCHANGED <<isOpen, permissions, loading, loads, shares, changes, opened>>
  /\ lost' = (IF acted THEN lost + 1 ELSE lost) /\ adrift' = (adrift \/ acted)

-----------------------------------------------------------------------------
Next ==
  \/ Open \/ onClose
  \/ (\E l \in loads : Loaded(l)) \/ (\E l \in loads : LoadFailed(l))
  \/ (\E who \in People, level \in Levels : handleShare(who, level))
  \/ (\E p \in permissions : handleRevoke(p))
  \/ (\E p \in permissions, level \in Levels : handleUpdatePermission(p, level))
  \/ (\E r \in requests : Succeeded(r)) \/ (\E r \in requests, b \in BOOLEAN : Failed(r, b))

Spec == Init /\ [][Next]_vars

-----------------------------------------------------------------------------
\* Nobody has an access the panel hides and nobody is shown with one they lost: once
\* all has ended the list shown is the server's, unless requests overlapped (an
\* older list comes last) or one was lost with its effect.
AccessShown == ~Busy /\ ~adrift /\ opened > 0 => permissions = granted

\* For unless requests overlap one is under way at most, and the list on screen, or the
\* one on its way, is the server's.
AccessInv ==
  ~adrift =>
    /\ loads = {} \/ requests = {}
    /\ (\A k, l \in loads : k = l) /\ \A q, r \in requests : q = r
    /\ \A l \in loads : l.got = granted
    /\ loads = {} /\ opened > 0 => permissions = granted
=============================================================================
