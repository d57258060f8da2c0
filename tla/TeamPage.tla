------------------------------- MODULE TeamPage -------------------------------
(***************************************************************************)
(* The team page of an administrator: who is in the team with which role,  *)
(* and the blanket access to the listings each has.  Every change but one  *)
(* loads the whole page again; a change of access revokes the grant the    *)
(* page knows, creates another, and patches its own copy.                  *)
(***************************************************************************)
EXTENDS Naturals, FiniteSets

CONSTANTS None, People, MaxChanges, MaxLost

VARIABLES
  team, access,             \* server: roles of the members, their active grants
  members, blanketGrants, loading, error, inviting, removeTarget, removing,  \* page
  changes, fetches,         \* requests under way
  changed, lost, adrift     \* history

serverVars == <<team, access>>
modalVars == <<inviting, removeTarget, removing>>
historyVars == <<changed, lost, adrift>>
vars == <<serverVars, members, blanketGrants, loading, error, modalVars, changes, fetches,
          historyVars>>

Roles == {"agent", "admin"}
Permissions == {"read", "write"}
\* A grant is known by its permission and the change that created it.
Grants == [n : 0..MaxChanges, permission : Permissions]
Teams == [People -> Roles \cup {None}]
Granted == [People -> Grants \cup {None}]
Changes == [n : 1..MaxChanges, p : People, to : Roles \cup Permissions \cup {None},
            step : {"invite", "role", "remove", "revoke", "create"}, old : Grants \cup {None}]
Fetches == [n : 0..MaxChanges, unread : SUBSET People, read : Granted, team : BOOLEAN]

TypeOK ==
  /\ team \in Teams /\ access \in Granted /\ members \in Teams /\ blanketGrants \in Granted
  /\ {loading, error, inviting, removing, adrift} \subseteq BOOLEAN
  /\ removeTarget \in People \cup {None}
  /\ changes \subseteq Changes /\ fetches \subseteq Fetches
  /\ changed \in 0..MaxChanges /\ lost \in 0..MaxLost

Nothing == [p \in People |-> None]
NewFetch(n) == [n |-> n, unread |-> {}, read |-> Nothing, team |-> FALSE]

Init ==
  /\ team \in {t \in Teams : Cardinality({p \in People : t[p] = "agent"}) = 1
                               /\ \A p \in People : t[p] # "admin"}
  /\ access \in [People -> {None, [n |-> 0, permission |-> "read"]}]
  /\ \A p \in People : team[p] = None => access[p] = None
  /\ members = Nothing /\ blanketGrants = Nothing
  /\ loading = TRUE /\ error = FALSE /\ inviting = FALSE /\ removeTarget = None /\ removing = FALSE
  /\ changes = {} /\ fetches = {NewFetch(0)}
  /\ changed = 0 /\ lost = 0 /\ adrift = FALSE

Busy == changes # {} \/ fetches # {}

-----------------------------------------------------------------------------
\* fetchData: the team, then the grants of every member; the last one ends it.

fetchData(n) == /\ fetches' = fetches \cup {NewFetch(n)}
                /\ loading' = TRUE /\ error' = FALSE

Listed == {p \in People : team[p] # None}
TeamRead(f) ==
  /\ f \in fetches /\ ~f.team
  /\ members' = team
  /\ fetches' = (fetches \ {f}) \cup
       {[f EXCEPT !.team = TRUE, !.unread = Listed]}
  /\ UNCHANGED <<serverVars, blanketGrants, loading, error, modalVars, changes, historyVars>>

\* The list could not be read: an empty team.  Or the profile could not: an error.
TeamUnread(f, profile) ==
  /\ f \in fetches /\ ~f.team /\ lost < MaxLost
  /\ IF profile
       THEN /\ members' = Nothing /\ UNCHANGED <<loading, error>>
            /\ fetches' = (fetches \ {f}) \cup {[f EXCEPT !.team = TRUE]}
       ELSE error' = TRUE /\ loading' = FALSE /\ fetches' = fetches \ {f} /\ UNCHANGED members
  /\ UNCHANGED <<serverVars, blanketGrants, modalVars, changes, changed>>
  /\ lost' = lost + 1 /\ adrift' = TRUE

\* A grant that cannot be read counts as none.
GrantsRead(f, p, ok) ==
  /\ f \in fetches /\ p \in f.unread /\ (ok \/ lost < MaxLost)
  /\ fetches' = (fetches \ {f}) \cup
       {[f EXCEPT !.unread = @ \ {p}, !.read[p] = IF ok THEN access[p] ELSE None]}
  /\ UNCHANGED <<serverVars, members, blanketGrants, loading, error, modalVars, changes, changed>>
  /\ lost' = (IF ok THEN lost ELSE lost + 1) /\ adrift' = (adrift \/ ~ok)

Fetched(f) ==
  /\ f \in fetches /\ f.team /\ f.unread = {}
  /\ blanketGrants' = f.read /\ loading' = FALSE
  /\ fetches' = fetches \ {f}
  /\ UNCHANGED <<serverVars, members, error, modalVars, changes, historyVars>>

-----------------------------------------------------------------------------
\* Changes; while the page loads it shows none of its controls but the open dialog.

Change(p, step, to, old) ==
  /\ changed < MaxChanges
  /\ changes' = changes \cup {[n |-> changed + 1, p |-> p, to |-> to, step |-> step, old |-> old]}
  /\ UNCHANGED <<serverVars, members, blanketGrants, loading, error, fetches, lost>>
  /\ changed' = changed + 1 /\ adrift' = (adrift \/ Busy)

InviteForm(p) == ~loading /\ ~inviting /\ members[p] = None
MemberRow(p) == ~loading /\ members[p] # None
RemoveDialog == removeTarget # None /\ ~removing

handleInvite(p) ==
  /\ InviteForm(p)
  /\ inviting' = TRUE /\ Change(p, "invite", "agent", None)
  /\ UNCHANGED <<removeTarget, removing>>

handleRoleChange(p, r) ==
  /\ MemberRow(p) /\ members[p] # r
  /\ Change(p, "role", r, None) /\ UNCHANGED modalVars

\* What is shown decides: a grant the page knows is revoked first.
handleListingAccessChange(p, to) ==
  /\ MemberRow(p)
  /\ blanketGrants[p] = None => to # None
  /\ blanketGrants[p] # None => to # blanketGrants[p].permission
  /\ Change(p, IF blanketGrants[p] # None THEN "revoke" ELSE "create", to, blanketGrants[p])
  /\ UNCHANGED modalVars

setRemoveTarget(p) ==
  /\ ~removing
  /\ removeTarget' = IF removeTarget # None THEN None ELSE p
  /\ removeTarget = None => MemberRow(p)
  /\ UNCHANGED <<serverVars, members, blanketGrants, loading, error, inviting, removing, changes,
                 fetches, historyVars>>

confirmRemove ==
  /\ RemoveDialog
  /\ removing' = TRUE /\ Change(removeTarget, "remove", None, None)
  /\ UNCHANGED <<inviting, removeTarget>>

\* The server: what it accepts, and what it does.
Accepts(c) == CASE c.step = "invite" -> team[c.p] = None
                [] c.step = "revoke" -> access[c.p] = c.old
                [] c.step = "create" -> team[c.p] # None /\ access[c.p] = None
                [] OTHER             -> team[c.p] # None
Done(c) ==
  /\ team' = IF c.step \in {"invite", "role", "remove"} THEN [team EXCEPT ![c.p] = c.to] ELSE team
  /\ access' = CASE c.step \in {"revoke", "remove"} -> [access EXCEPT ![c.p] = None]
                 [] c.step = "create" -> [access EXCEPT ![c.p] = [n |-> c.n, permission |-> c.to]]
                 [] OTHER -> access

\* The dialogs close on success; both stop spinning either way.
DialogsAfter(c, ok) ==
  /\ inviting' = (inviting /\ c.step # "invite") /\ removing' = (removing /\ c.step # "remove")
  /\ removeTarget' = IF ok /\ c.step = "remove" THEN None ELSE removeTarget

Succeeded(c) ==
  /\ c \in changes /\ Accepts(c) /\ Done(c)
  /\ IF c.step = "revoke" /\ c.to # None
       THEN /\ changes' = (changes \ {c}) \cup {[c EXCEPT !.step = "create"]}
            /\ UNCHANGED <<blanketGrants, fetches, loading, error>>
       ELSE /\ changes' = changes \ {c}
            /\ IF c.step \in {"revoke", "create"}
                 THEN blanketGrants' = [blanketGrants EXCEPT ![c.p] = access'[c.p]]
                        /\ UNCHANGED <<fetches, loading, error>>
                 ELSE fetchData(c.n) /\ UNCHANGED blanketGrants
  /\ DialogsAfter(c, TRUE) /\ UNCHANGED <<members, historyVars>>

\* Refused, or lost with or without effect: only a change of access loads again.
AfterFailure(c) ==
  /\ changes' = changes \ {c}
  /\ IF c.step \in {"revoke", "create"} THEN fetchData(c.n) ELSE UNCHANGED <<fetches, loading, error>>
  /\ DialogsAfter(c, FALSE) /\ UNCHANGED <<members, blanketGrants, changed>>

Refused(c) == c \in changes /\ ~Accepts(c) /\ AfterFailure(c) /\ UNCHANGED <<serverVars, lost, adrift>>

Lost(c) ==
  /\ c \in changes /\ lost < MaxLost
  /\ AfterFailure(c)
  /\ \/ UNCHANGED serverVars
     \/ Accepts(c) /\ Done(c)
  /\ lost' = lost + 1
  /\ adrift' = (adrift \/ (c.step \notin {"revoke", "create"} /\ serverVars' # serverVars))

-----------------------------------------------------------------------------
Next ==
  \/ (\E f \in fetches : TeamRead(f)) \/ (\E f \in fetches, b \in BOOLEAN : TeamUnread(f, b))
  \/ (\E f \in fetches, p \in People, ok \in BOOLEAN : GrantsRead(f, p, ok))
  \/ (\E f \in fetches : Fetched(f))
  \/ (\E p \in People : handleInvite(p)) \/ (\E p \in People, r \in Roles : handleRoleChange(p, r))
  \/ (\E p \in People, to \in Permissions \cup {None} : handleListingAccessChange(p, to))
  \/ (\E p \in People : setRemoveTarget(p)) \/ confirmRemove
  \/ (\E c \in changes : Succeeded(c)) \/ (\E c \in changes : Refused(c))
  \/ (\E c \in changes : Lost(c))

Spec == Init /\ [][Next]_vars

-----------------------------------------------------------------------------
\* When nothing is under way the page shows the roles and the access the server
\* has, though a change of access is two requests of which either may fail; not
\* when changes overlapped, a read failed, or the answer of another change was lost.
TeamShown ==
  ~Busy /\ ~adrift =>
    /\ members = team
    /\ \A p \in People : members[p] # None => blanketGrants[p] = access[p]

\* For then one request is under way at most; a load has read what it has read as it is,
\* and a page that does not load shows all but the access that a change is creating.
TeamInv ==
  ~adrift =>
    /\ changes = {} \/ fetches = {}
    /\ (\A c, d \in changes : c = d) /\ \A f, g \in fetches : f = g
    /\ \A f \in fetches :
         f.team => members = team /\ \A p \in Listed \ f.unread : f.read[p] = access[p]
    /\ fetches = {} =>
         /\ members = team
         /\ \A p \in Listed : (\A c \in changes : c.step = "create" => c.p # p) =>
              blanketGrants[p] = access[p]

\* The page never stays hidden behind its skeleton once its loads have ended.
LoadingIsFetching == loading => fetches # {}
=============================================================================
