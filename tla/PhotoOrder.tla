------------------------------ MODULE PhotoOrder ------------------------------
(***************************************************************************)
(* An expanded row of the review queue: the photos of the package, loaded  *)
(* once, dragged into another order with an optimistic update, and loaded  *)
(* again when the server refuses.  The server swaps two positions per      *)
(* request, in the order in which the requests reach it.  There is one     *)
(* reviewer: no colleague's swap and no re-run of packaging changes the    *)
(* order meanwhile.                                                        *)
(***************************************************************************)
EXTENDS Naturals, FiniteSets, Sequences, Functions

CONSTANTS None, Photos,
          MaxDrags,   \* bound: photos dropped
          MaxOpened   \* bound: times the row is opened

VARIABLES
  stored, reviewable,          \* server: the package's order, and whether it may change
  expandedId, data, dragIdx,   \* page: row open, order shown, photo being dragged
  loads, reorders, reloads,    \* requests: snapshots and swaps under way
  drags, opened, adrift, unloaded, byKey  \* history

serverVars == <<stored, reviewable>>
pageVars == <<expandedId, data, dragIdx>>
requestVars == <<loads, reorders, reloads>>
historyVars == <<drags, opened, adrift, unloaded, byKey>>
vars == <<serverVars, pageVars, requestVars, historyVars>>

Positions == 1..Cardinality(Photos)
Orders == Bijection(Positions, Photos)
Swaps == [from : Positions, to : Positions, sent : BOOLEAN, ok : BOOLEAN]
Swapped(o, i, j) == [o EXCEPT ![i] = o[j], ![j] = o[i]]

TypeOK ==
  /\ stored \in Orders /\ data \in Orders \cup {None}
  /\ {reviewable, expandedId, adrift, unloaded, byKey} \subseteq BOOLEAN
  /\ dragIdx \in Positions \cup {None}
  /\ loads \subseteq Orders /\ reloads \subseteq Orders /\ reorders \subseteq Swaps
  /\ drags \in 0..MaxDrags /\ opened \in 0..MaxOpened

Init ==
  /\ stored = CHOOSE o \in Orders : TRUE
  /\ reviewable = TRUE /\ expandedId = FALSE /\ data = None /\ dragIdx = None
  /\ loads = {} /\ reorders = {} /\ reloads = {}
  /\ drags = 0 /\ opened = 0 /\ adrift = FALSE /\ unloaded = FALSE /\ byKey = FALSE

Busy == loads # {} \/ reorders # {} \/ reloads # {}

\* A click on the row: the photos are loaded unless they are there.
toggleExpand ==
  /\ opened < MaxOpened \/ expandedId
  /\ expandedId' = ~expandedId /\ dragIdx' = None
  /\ loads' = IF ~expandedId /\ data = None THEN loads \cup {stored} ELSE loads
  /\ UNCHANGED <<serverVars, data, reorders, reloads, drags, adrift>>
  /\ opened' = (IF expandedId THEN opened ELSE opened + 1)
  /\ unloaded' = (unloaded /\ expandedId) /\ byKey' = FALSE

\* j, k and the space bar move the expansion and load nothing.
handleKey ==
  /\ opened < MaxOpened \/ expandedId
  /\ expandedId' = ~expandedId /\ dragIdx' = None
  /\ UNCHANGED <<serverVars, data, requestVars, drags, adrift, unloaded>>
  /\ opened' = (IF expandedId THEN opened ELSE opened + 1) /\ byKey' = TRUE

Loaded(o) ==
  /\ o \in loads
  /\ loads' = loads \ {o} /\ data' = o
  /\ UNCHANGED <<serverVars, expandedId, dragIdx, reorders, reloads, historyVars>>

LoadFailed(o) ==
  /\ o \in loads
  /\ loads' = loads \ {o}
  /\ UNCHANGED <<serverVars, pageVars, reorders, reloads, drags, opened, adrift, byKey>>
  /\ unloaded' = TRUE

-----------------------------------------------------------------------------
\* The panel of an open row: a spinner, or the grid of its photos.
Spinning == expandedId /\ data = None
DraggablePhotoGrid == expandedId /\ data # None

handleDragStart(i) ==
  /\ DraggablePhotoGrid /\ dragIdx = None
  /\ dragIdx' = i
  /\ UNCHANGED <<serverVars, expandedId, data, requestVars, historyVars>>

handleDragEnd ==
  /\ dragIdx # None
  /\ dragIdx' = None
  /\ UNCHANGED <<serverVars, expandedId, data, requestVars, historyVars>>

\* A variant: the swap is sent and not shown.
SendsSwap(from, to) ==
  /\ reorders' = reorders \cup {[from |-> from, to |-> to, sent |-> TRUE, ok |-> FALSE]}
  /\ UNCHANGED data

\* A drop on another photo: the swap is shown at once and sent.
handleReorder(from, to) ==
  /\ data' = Swapped(data, from, to)
  /\ reorders' = reorders \cup {[from |-> from, to |-> to, sent |-> TRUE, ok |-> FALSE]}

handleDrop(j) ==
  /\ dragIdx # None /\ drags < MaxDrags
  /\ IF dragIdx # j THEN handleReorder(dragIdx, j) ELSE UNCHANGED <<data, reorders>>
  /\ dragIdx' = None
  /\ UNCHANGED <<serverVars, expandedId, loads, reloads, opened, unloaded, byKey>>
  /\ drags' = drags + 1 /\ adrift' = (adrift \/ Busy)

\* reorder_package: swaps the two positions while the listing is under review.
reorder_package(r) ==
  /\ r \in reorders /\ r.sent
  /\ stored' = IF reviewable THEN Swapped(stored, r.from, r.to) ELSE stored
  /\ reorders' = (reorders \ {r}) \cup {[r EXCEPT !.sent = FALSE, !.ok = reviewable]}
  /\ UNCHANGED <<reviewable, pageVars, loads, reloads, historyVars>>

Reordered(r) ==
  /\ r \in reorders /\ ~r.sent /\ r.ok
  /\ reorders' = reorders \ {r}
  /\ UNCHANGED <<serverVars, pageVars, loads, reloads, historyVars>>

\* Refused, or lost before or after the server acted: the order is loaded again.
ReorderFailed(r) ==
  /\ r \in reorders
  /\ reorders' = reorders \ {r} /\ reloads' = reloads \cup {stored}
  /\ UNCHANGED <<serverVars, pageVars, loads, historyVars>>

Reloaded(o) ==
  /\ o \in reloads
  /\ reloads' = reloads \ {o} /\ data' = o
  /\ UNCHANGED <<serverVars, expandedId, dragIdx, loads, reorders, historyVars>>

\* A second failure is caught by nobody: the order shown stays.
ReloadFailed(o) ==
  /\ o \in reloads
  /\ reloads' = reloads \ {o}
  /\ UNCHANGED <<serverVars, pageVars, loads, reorders, drags, opened, unloaded, byKey>>
  /\ adrift' = TRUE

\* The listing leaves review: approved or rejected, here or elsewhere.
Decided ==
  /\ reviewable
  /\ reviewable' = FALSE
  /\ UNCHANGED <<stored, pageVars, requestVars, historyVars>>

-----------------------------------------------------------------------------
Next ==
  \/ toggleExpand \/ handleKey \/ Decided \/ handleDragEnd
  \/ (\E o \in loads : Loaded(o)) \/ (\E o \in loads : LoadFailed(o))
  \/ (\E i \in Positions : handleDragStart(i)) \/ (\E i \in Positions : handleDrop(i))
  \/ (\E r \in reorders : reorder_package(r)) \/ (\E r \in reorders : Reordered(r))
  \/ (\E r \in reorders : ReorderFailed(r))
  \/ (\E o \in reloads : Reloaded(o)) \/ (\E o \in reloads : ReloadFailed(o))

Spec == Init /\ [][Next]_vars

LoadAnswered == \E o \in loads : Loaded(o) \/ LoadFailed(o)

\* A request for the photos ends one way or the other.
FairSpec == Spec /\ WF_vars(LoadAnswered)

-----------------------------------------------------------------------------
\* Once every request has ended the order shown is the order stored, through drops
\* that were refused or lost on the way; not when a drop overlapped another request
\* (swaps do not commute, an older snapshot comes last) or a reload failed.
OrderShown == ~Busy /\ ~adrift /\ data # None => data = stored

\* A row opened with the mouse ends up showing its photos, or a message that they
\* could not be loaded: no spinner for ever (a row opened with a key may spin).
RowLoads == Spinning ~> (~Spinning \/ unloaded \/ byKey)
=============================================================================
