----------------------------- MODULE Pages_proofs -----------------------------
(***************************************************************************)
(* Theorems about what the pages show: the order of a package's photos,    *)
(* the list of pipeline steps, the help chat, the import of a link and the *)
(* address field.                                                          *)
(*                                                                         *)
(* One component is on screen for ever, so the inductive invariant has one *)
(* part per component, which speaks while that component is on screen; a   *)
(* step of another component leaves it alone.  A component has a lemma for *)
(* its initial states and one for its steps, with a case per action.       *)
(***************************************************************************)
EXTENDS MC_Pages, FiniteSetTheorems, SequenceTheorems, TLAPS

-----------------------------------------------------------------------------
(***************************************************************************)
(* The address field.  The script is on the page exactly while it loads;   *)
(* what a lookup captured is still what the form holds, unless something   *)
(* was typed in the meantime.                                              *)
(***************************************************************************)
AddressInv ==
  screen = "address" =>
    /\ tags = IF script = "loading" THEN 1 ELSE 0
    /\ ~raced => /\ unit = typedUnit /\ price = typedPrice
                 /\ \A d \in details \cup lookups : d.unit = unit /\ d.price = price

\* The field starts without a script, and with nothing typed.
LEMMA AddressInvInit ==
  ASSUME AddressInit
  PROVE  AddressInv
BY DEF AddressInit, AddressInv, Address!Init

\* The loader keeps the script on the page at most once (AddressSearch!OneScript); what
\* the user typed is kept by the answers of the requests (AddressSearch!TypedKept).
LEMMA AddressInvStep ==
  ASSUME AddressInv, AddressOnly(Address!Next)
  PROVE  AddressInv'
<1>. USE DEF AddressInv, Address!loaderVars, Address!fieldVars, Address!formVars,
             Address!lookupVars, Address!typingVars, Address!scriptLoaded
<1>0. screen = "address" /\ screen' = screen /\ Address!Next
  BY DEF AddressOnly
<1>1. ASSUME NEW f \in Fields, Address!Mount(f)
      PROVE  AddressInv'
  BY <1>0, <1>1 DEF Address!Mount, Address!loadGoogleMapsScript
<1>2. ASSUME NEW f \in Fields, Address!Unmount(f)
      PROVE  AddressInv'
  BY <1>0, <1>2 DEF Address!Unmount
<1>3. ASSUME NEW library \in BOOLEAN, Address!onload(library)
      PROVE  AddressInv'
  BY <1>0, <1>3 DEF Address!onload
<1>4. CASE Address!onerror
  BY <1>0, <1>4 DEF Address!onerror
<1>5. ASSUME NEW q \in Address!Queries, Address!setQuery(q)
      PROVE  AddressInv'
  BY <1>0, <1>5 DEF Address!setQuery
<1>6. CASE Address!AskPredictions
  BY <1>0, <1>6 DEF Address!AskPredictions
<1>7. ASSUME NEW q \in asked, NEW ok \in BOOLEAN, Address!Predicted(q, ok)
      PROVE  AddressInv'
  BY <1>0, <1>7 DEF Address!Predicted
<1>8. CASE Address!dismiss
  BY <1>0, <1>8 DEF Address!dismiss
<1>9. CASE Address!selectPlace
  BY <1>0, <1>9 DEF Address!selectPlace
<1>10. ASSUME NEW d \in details, NEW s \in Streets \cup {None}, Address!AddressSelected(d, s)
       PROVE  AddressInv'
  BY <1>0, <1>10 DEF Address!AddressSelected
<1>11. ASSUME NEW l \in lookups, NEW ok \in BOOLEAN, Address!LookedUp(l, ok)
       PROVE  AddressInv'
  BY <1>0, <1>11 DEF Address!LookedUp
<1>12. ASSUME NEW v \in Values, Address!setAddress(v)
       PROVE  AddressInv'
  BY <1>0, <1>12 DEF Address!setAddress, Address!Racing
<1>13. ASSUME NEW v \in Values, Address!setMeta(v)
       PROVE  AddressInv'
  BY <1>0, <1>13 DEF Address!setMeta, Address!Racing
<1>. QED
  BY <1>0, <1>1, <1>2, <1>3, <1>4, <1>5, <1>6, <1>7, <1>8, <1>9, <1>10, <1>11, <1>12, <1>13,
     Zenon DEF Address!Next

-----------------------------------------------------------------------------
(***************************************************************************)
(* The import of a link.                                                   *)
(***************************************************************************)
LinkRecords == [id : Link!Ids, pc : {"request", "poll"},
                job : {"running", "completed", "failed", "abandoned"},
                open : BOOLEAN, ticks : Nat, here : BOOLEAN]

LinkInv ==
  screen = "link" =>
    /\ \A m \in imports : m \in LinkRecords
    /\ importing \in BOOLEAN
    /\ Link!NoFrozenImport

\* No import is under way at first.
LEMMA LinkInvInit ==
  ASSUME LinkInit
  PROVE  LinkInv
BY DEF LinkInit, LinkInv, Link!Init, Link!NoFrozenImport

\* An import that changes keeps the others, and the button if it is no import of this
\* form that closes.
LEMMA LinkPut ==
  ASSUME LinkInv, screen = "link", screen' = screen,
         NEW m \in imports, NEW n \in LinkRecords, Link!Put(m, n),
         \/ importing' = importing /\ (m.here /\ m.open => n.here /\ n.open)
         \/ Link!SetImporting(m, FALSE)
  PROVE  LinkInv'
<1>1. \A x \in imports' : x \in LinkRecords
  BY DEF LinkInv, Link!Put
<1>2. importing' \in BOOLEAN
  BY DEF LinkInv, Link!SetImporting
<1>3. ASSUME importing'
      PROVE  \E x \in imports' : x.here /\ x.open
  <2>1. PICK x \in imports : x.here /\ x.open
    BY <1>3 DEF LinkInv, Link!NoFrozenImport, Link!SetImporting
  <2>2. CASE x # m
    BY <2>1, <2>2 DEF Link!Put
  <2>3. CASE x = m
    <3>1. n.here /\ n.open
      BY <1>3, <2>1, <2>3 DEF Link!SetImporting
    <3>2. n \in imports'
      BY <3>1 DEF Link!Put
    <3>. QED
      BY <3>1, <3>2
  <2>. QED
    BY <2>2, <2>3
<1>. QED
  BY <1>1, <1>2, <1>3 DEF LinkInv, Link!NoFrozenImport

\* The import that holds the button stays on the list, open and of this form, until the
\* step that gives the button back.
LEMMA LinkInvStep ==
  ASSUME LinkInv, LinkOnly(Link!Next)
  PROVE  LinkInv'
<1>0. /\ screen = "link" /\ screen' = screen /\ Link!Next
      /\ \A m \in imports : m \in LinkRecords
  BY DEF LinkInv, LinkOnly
<1>1. CASE Link!handleImportLink
  <2>1. PICK i \in Link!Ids :
          imports' = imports \cup {[id |-> i, pc |-> "request", job |-> "running",
                                    open |-> TRUE, ticks |-> 0, here |-> TRUE]}
    BY <1>1 DEF Link!handleImportLink, Link!Unused
  <2>. DEFINE new == [id |-> i, pc |-> "request", job |-> "running",
                      open |-> TRUE, ticks |-> 0, here |-> TRUE]
  <2>2. new \in LinkRecords /\ new.here /\ new.open
    BY DEF LinkRecords
  <2>3. imports' = imports \cup {new} /\ importing' = TRUE
    BY <1>1, <2>1 DEF Link!handleImportLink
  <2>. HIDE DEF new
  <2>. QED
    BY <1>0, <2>2, <2>3 DEF LinkInv, Link!NoFrozenImport
<1>2. CASE Link!Leave
  <2>1. /\ imports' = {[m EXCEPT !.here = FALSE] : m \in imports}
        /\ importing' = FALSE
    BY <1>2 DEF Link!Leave
  <2>2. \A m \in LinkRecords : [m EXCEPT !.here = FALSE] \in LinkRecords
    BY DEF LinkRecords
  <2>. QED
    BY <1>0, <2>1, <2>2 DEF LinkInv, Link!NoFrozenImport
<1>3. CASE Link!Return
  BY <1>0, <1>3 DEF Link!Return, LinkInv, Link!NoFrozenImport
<1>4. ASSUME NEW m \in imports, Link!Accepted(m)
      PROVE  LinkInv'
  <2>. DEFINE n == [m EXCEPT !.pc = "poll"]
  <2>1. n \in LinkRecords /\ n.here = m.here /\ n.open = m.open
    BY <1>0 DEF LinkRecords
  <2>2. Link!Put(m, n) /\ importing' = importing
    BY <1>4 DEF Link!Accepted
  <2>. QED
    BY <1>0, <2>1, <2>2, LinkPut
<1>5. ASSUME NEW m \in imports, Link!Refused(m)
      PROVE  LinkInv'
  BY <1>0, <1>5 DEF Link!Refused, Link!SetImporting, LinkInv, Link!NoFrozenImport
<1>6. ASSUME NEW m \in imports, Link!Tick(m)
      PROVE  LinkInv'
  <2>. DEFINE n == [m EXCEPT !.ticks = @ + 1]
  <2>1. n \in LinkRecords /\ n.here = m.here /\ n.open = m.open
    BY <1>0 DEF LinkRecords
  <2>2. Link!Put(m, n) /\ importing' = importing
    BY <1>6 DEF Link!Tick
  <2>. QED
    BY <1>0, <2>1, <2>2, LinkPut
<1>7. ASSUME NEW m \in imports, Link!JobEnds(m) \/ Link!JobAbandoned(m)
      PROVE  LinkInv'
  <2>1. PICK end \in {"completed", "failed", "abandoned"} : Link!Put(m, [m EXCEPT !.job = end])
    BY <1>7 DEF Link!JobEnds, Link!JobAbandoned
  <2>. DEFINE n == [m EXCEPT !.job = end]
  <2>2. n \in LinkRecords /\ n.here = m.here /\ n.open = m.open
    BY <1>0 DEF LinkRecords
  <2>3. importing' = importing
    BY <1>7 DEF Link!JobEnds, Link!JobAbandoned
  <2>. QED
    BY <1>0, <2>1, <2>2, <2>3, LinkPut
<1>8. ASSUME NEW m \in imports, Link!PolledRunning(m)
      PROVE  LinkInv'
  <2>. DEFINE n == [m EXCEPT !.ticks = @ - 1]
  <2>1. n \in LinkRecords /\ n.here = m.here /\ n.open = m.open
    BY <1>0, <1>8 DEF LinkRecords, Link!PolledRunning
  <2>2. Link!Put(m, n) /\ importing' = importing
    BY <1>8 DEF Link!PolledRunning
  <2>. QED
    BY <1>0, <2>1, <2>2, LinkPut
<1>9. ASSUME NEW m \in imports, Link!PolledEnd(m) \/ Link!PollFailed(m)
      PROVE  LinkInv'
  <2>. DEFINE n == [m EXCEPT !.ticks = @ - 1, !.open = FALSE]
  <2>1. m.ticks > 0 /\ Link!Put(m, n) /\ Link!SetImporting(m, FALSE)
    BY <1>9 DEF Link!PolledEnd, Link!PollFailed
  <2>2. [m EXCEPT !.ticks = @ - 1] \in LinkRecords
    BY <1>0, <2>1 DEF LinkRecords
  <2>3. n \in LinkRecords
    BY <1>0, <2>2 DEF LinkRecords
  <2>. QED
    BY <1>0, <2>1, <2>3, LinkPut
<1>. QED
  BY <1>0, <1>1, <1>2, <1>3, <1>4, <1>5, <1>6, <1>7, <1>8, <1>9, Zenon
  DEF Link!Next, Link!Answer, Link!StillRunning

-----------------------------------------------------------------------------
(***************************************************************************)
(* The list of steps.  While the stream is up the current run of the       *)
(* effect has at most one read, and an answer to it that is still to be    *)
(* shown saw at least what the list shows.                                 *)
(***************************************************************************)
StepsRecords == [run : Nat, n : Nat, open : BOOLEAN, got : Nat]

\* What the invariant says of a read, of a pair of reads.
ReadOk(r) ==
  /\ r \in StepsRecords /\ r.run <= run
  /\ ~r.open => r.got <= progress
  /\ live /\ r.run = run /\ ~r.open => r.got >= steps

StepsInv ==
  screen = "progress" =>
    /\ {progress, steps, run, asked} \subseteq Nat /\ steps <= progress
    /\ \A r \in reads : ReadOk(r)
    /\ live => \A r, q \in reads : r.run = run /\ q.run = run => r = q

\* The list starts empty, with the first read of its first run under way.
LEMMA StepsInvInit ==
  ASSUME StepsInit
  PROVE  StepsInv
BY DEF StepsInit, StepsInv, ReadOk, StepsRecords, Steps!Init, Steps!NewRead

\* The list moves forward or stays, while the stream is up.
StepsForward == screen = "progress" /\ live => steps' >= steps

\* An answer of a cancelled read is dropped, and one of the current run is no older than
\* the list: a live run reads once.
LEMMA StepsInvStep ==
  ASSUME StepsInv, StepsOnly(Steps!Next)
  PROVE  StepsInv' /\ StepsForward
<1>. DEFINE Goal == StepsInv' /\ StepsForward
<1>. USE DEF Steps!pageVars, Steps!componentVars, Steps!historyVars
<1>0. /\ screen = "progress" /\ screen' = screen /\ Steps!Next
      /\ {progress, steps, run, asked} \subseteq Nat /\ steps <= progress
      /\ \A r \in reads : ReadOk(r)
      /\ live => \A r, q \in reads : r.run = run /\ q.run = run => r = q
  BY DEF StepsInv, StepsOnly
<1>a. \A k, n \in Nat : LET new == Steps!NewRead(k, n) IN
        new \in StepsRecords /\ new.run = k /\ new.open
  BY DEF Steps!NewRead, StepsRecords
<1>1. CASE Steps!StepChanged
  BY <1>0, <1>1 DEF Steps!StepChanged, StepsInv, StepsForward, ReadOk, StepsRecords
<1>2. ASSUME Steps!fetchStatus
      PROVE  Goal
  <2>1. PICK new \in StepsRecords :
          reads' = reads \cup {new} /\ new.run = run + 1 /\ new.open
    BY SMTT(30), <1>0, <1>a, <1>2 DEF Steps!fetchStatus
  <2>2. /\ run' = run + 1 /\ progress' = progress /\ steps' = steps /\ asked' = 1
    BY <1>2 DEF Steps!fetchStatus
  <2>3. \A r \in reads : ReadOk(r)' /\ r.run # run'
    BY <1>0, <2>2 DEF ReadOk, StepsRecords
  <2>4. ReadOk(new)'
    BY <1>0, <2>1, <2>2 DEF ReadOk, StepsRecords
  <2>. QED
    BY <1>0, <2>1, <2>2, <2>3, <2>4 DEF StepsInv, StepsForward, ReadOk
<1>3. CASE Steps!Poll
  <2>1. PICK new \in StepsRecords : reads' = reads \cup {new} /\ new.run = run /\ new.open
    BY <1>0, <1>a, <1>3 DEF Steps!Poll
  <2>2. /\ run' = run /\ ~live /\ ~live' /\ progress' = progress /\ steps' = steps
        /\ asked' = asked + 1
    BY <1>3 DEF Steps!Poll, Steps!Polling
  <2>3. \A r \in reads' : ReadOk(r)'
    BY <1>0, <2>1, <2>2 DEF ReadOk
  <2>. QED
    BY <1>0, <2>2, <2>3 DEF StepsInv, StepsForward
<1>4. ASSUME NEW r \in reads, Steps!Read(r)
      PROVE  Goal
  <2>1. PICK seen \in StepsRecords :
          reads' = (reads \ {r}) \cup {seen} /\ seen.run = r.run /\ seen.got = progress
    <3>1. /\ [r EXCEPT !.open = FALSE, !.got = progress] \in StepsRecords
          /\ [r EXCEPT !.open = FALSE, !.got = progress].run = r.run
          /\ [r EXCEPT !.open = FALSE, !.got = progress].got = progress
      BY <1>0 DEF ReadOk, StepsRecords
    <3>. QED
      BY <1>4, <3>1 DEF Steps!Read
  <2>2. /\ run' = run /\ live' = live /\ progress' = progress /\ steps' = steps
        /\ asked' = asked
    BY <1>4 DEF Steps!Read
  <2>3. \A q \in reads : ReadOk(q)'
    BY <1>0, <2>2 DEF ReadOk
  <2>4. ReadOk(seen)'
    BY <1>0, <2>1, <2>2 DEF ReadOk
  <2>5. live => \A p, q \in reads' : p.run = run /\ q.run = run => p = q
    BY <1>0, <2>1, <2>2
  <2>. QED
    BY <1>0, <2>1, <2>2, <2>3, <2>4, <2>5 DEF StepsInv, StepsForward
<1>5. ASSUME NEW r \in reads, Steps!Answered(r)
      PROVE  Goal
  <2>1. /\ reads' = reads \ {r} /\ run' = run /\ live' = live /\ progress' = progress
        /\ asked' = asked
        /\ steps' = IF r.run = run THEN r.got ELSE steps
        /\ ~r.open
    BY <1>5 DEF Steps!Answered, Steps!Mine
  <2>2. /\ steps' \in Nat /\ steps' <= progress
        /\ live => steps' >= steps
    BY <1>0, <2>1 DEF ReadOk, StepsRecords
  <2>3. \A q \in reads' : ReadOk(q)'
    BY <1>0, <2>1, <2>2 DEF ReadOk, StepsRecords
  <2>. QED
    BY <1>0, <2>1, <2>2, <2>3 DEF StepsInv, StepsForward
<1>6. ASSUME NEW r \in reads, Steps!Unanswered(r)
      PROVE  Goal
  BY <1>0, <1>6 DEF Steps!Unanswered, StepsInv, StepsForward, ReadOk
<1>7. CASE Steps!RefreshKeyBumped \/ Steps!StreamChanged \/ Steps!StateShown
  BY <1>2, <1>7, Zenon DEF Steps!RefreshKeyBumped, Steps!StreamChanged, Steps!StateShown
<1>. QED
  BY <1>0, <1>1, <1>3, <1>4, <1>5, <1>6, <1>7, Zenon DEF Steps!Next

-----------------------------------------------------------------------------
(***************************************************************************)
(* The order of the photos.  Unless a drop overlapped another request or a *)
(* reload failed, at most one swap is under way, with nothing else: it is  *)
(* shown and still to be stored, or stored, or refused and to be loaded    *)
(* again; and whatever was loaded is the order stored.                     *)
(***************************************************************************)
\* A swap permutes: no photo is lost or doubled by it.
LEMMA SwappedIsOrder ==
  ASSUME NEW o \in Order!Orders, NEW i \in Order!Positions, NEW j \in Order!Positions
  PROVE  Order!Swapped(o, i, j) \in Order!Orders
<1>. DEFINE s == Order!Swapped(o, i, j)
<1>0. /\ o \in [Order!Positions -> Photos]
      /\ \A k, l \in Order!Positions : o[k] = o[l] => k = l
      /\ \A p \in Photos : \E k \in Order!Positions : o[k] = p
  BY DEF Order!Orders, Order!Bijection, Order!Injection, Order!Surjection, Order!IsInjective,
         Order!Range
<1>1. s \in [Order!Positions -> Photos]
  BY <1>0 DEF Order!Swapped
<1>2. \A k \in Order!Positions : s[k] = IF k = j THEN o[i] ELSE IF k = i THEN o[j] ELSE o[k]
  BY <1>0 DEF Order!Swapped
<1>. HIDE DEF s
<1>3. \A k, l \in Order!Positions : s[k] = s[l] => k = l
  BY <1>0, <1>2
<1>4. ASSUME NEW p \in Photos
      PROVE  \E k \in Order!Positions : s[k] = p
  <2>1. PICK k \in Order!Positions : o[k] = p
    BY <1>0
  <2>2. CASE k = i
    BY <1>2, <2>1, <2>2
  <2>3. CASE k = j
    BY <1>2, <2>1, <2>3
  <2>4. CASE k # i /\ k # j
    BY <1>2, <2>1, <2>4
  <2>. QED
    BY <2>2, <2>3, <2>4
<1>. QED
  BY <1>1, <1>3, <1>4 DEF s, Order!Orders, Order!Bijection, Order!Injection,
     Order!Surjection, Order!IsInjective

\* The photos can be put in order, and no order is what stands for nothing.
LEMMA OrdersExist ==
  Order!Orders # {} /\ None \notin Order!Orders
<1>1. Order!Cardinality(Photos) = Cardinality(Photos)
  BY DEF Order!Cardinality, Cardinality
<1>2. PICK o : o \in Bijection(1..Cardinality(Photos), Photos)
  BY PagesAssumption, FS_CardinalityType DEF ExistsBijection
<1>3. Order!Orders = Bijection(1..Cardinality(Photos), Photos)
  BY <1>1 DEF Order!Orders, Order!Positions, Order!Bijection, Order!Injection,
     Order!Surjection, Order!IsInjective, Order!Range, Bijection, Injection, Surjection,
     IsInjective, Range
<1>4. Order!Orders \subseteq [1..Cardinality(Photos) -> Photos]
  BY <1>3 DEF Bijection, Injection
<1>. QED
  BY <1>2, <1>3, <1>4, PagesAssumption

OrderInv ==
  screen = "order" =>
    /\ reviewable \in BOOLEAN /\ stored \in Order!Orders /\ data \in Order!Orders \cup {None}
    /\ dragIdx \in Order!Positions \cup {None} /\ (dragIdx # None => data # None)
    /\ \A r \in reorders : r \in Order!Swaps
    /\ loads \subseteq Order!Orders /\ reloads \subseteq Order!Orders
    /\ reorders # {} \/ reloads # {} => data # None
    /\ ~adrift =>
       /\ loads \subseteq {stored} /\ reloads \subseteq {stored}
       /\ reorders # {} => loads = {} /\ reloads = {}
       /\ \A r, q \in reorders : r = q
       /\ \A r \in reorders : /\ r.sent => data = Order!Swapped(stored, r.from, r.to)
                              /\ ~r.sent /\ r.ok => data = stored
       /\ reorders = {} /\ reloads = {} /\ data # None => data = stored

\* The photos start in some order, and none is shown.
LEMMA OrderInvInit ==
  ASSUME OrderInit
  PROVE  OrderInv
<1>1. (CHOOSE o \in Order!Orders : TRUE) \in Order!Orders
  BY OrdersExist
<1>. QED
  BY <1>1 DEF OrderInit, OrderInv, Order!Init

\* The order stored changes by a swap or not at all, and so does the order shown; the
\* invariant follows a swap from the drop to its answer, or to the reload after it.
LEMMA OrderInvStep ==
  ASSUME OrderInv, OrderOnly(Order!Next)
  PROVE  OrderInv'
<1>. USE DEF Order!serverVars, Order!pageVars, Order!requestVars, Order!historyVars
<1>0. screen = "order" /\ screen' = screen /\ Order!Next
  BY DEF OrderOnly
<1>1. CASE Order!toggleExpand
  BY <1>0, <1>1 DEF OrderInv, Order!toggleExpand
<1>2. CASE Order!handleKey \/ Order!handleDragEnd \/ Order!Decided
  BY <1>0, <1>2 DEF OrderInv, Order!handleKey, Order!handleDragEnd, Order!Decided
<1>3. ASSUME NEW o \in loads, Order!Loaded(o) \/ Order!LoadFailed(o)
      PROVE  OrderInv'
  BY <1>0, <1>3, OrdersExist DEF OrderInv, Order!Loaded, Order!LoadFailed
<1>4. ASSUME NEW i \in Order!Positions, Order!handleDragStart(i)
      PROVE  OrderInv'
  BY <1>0, <1>4 DEF OrderInv, Order!handleDragStart, Order!DraggablePhotoGrid
<1>5. ASSUME NEW j \in Order!Positions, Order!handleDrop(j)
      PROVE  OrderInv'
  <2>. DEFINE swap == [from |-> dragIdx, to |-> j, sent |-> TRUE, ok |-> FALSE]
  <2>1. /\ dragIdx # None /\ dragIdx \in Order!Positions /\ data # None
        /\ data \in Order!Orders
    BY <1>0, <1>5 DEF OrderInv, Order!handleDrop
  <2>2. CASE dragIdx = j
    BY <1>0, <1>5, <2>1, <2>2 DEF OrderInv, Order!handleDrop
  <2>3. CASE dragIdx # j
    <3>1. /\ data' = Order!Swapped(data, dragIdx, j) /\ reorders' = reorders \cup {swap}
          /\ dragIdx' = None /\ stored' = stored /\ reviewable' = reviewable
          /\ loads' = loads /\ reloads' = reloads
          /\ adrift' = (adrift \/ Order!Busy)
      BY <1>5, <2>3 DEF Order!handleDrop, Order!handleReorder
    <3>2. data' \in Order!Orders /\ data' # None
      BY <2>1, <3>1, SwappedIsOrder, OrdersExist
    <3>3. /\ swap \in Order!Swaps /\ swap.sent
          /\ swap.from = dragIdx /\ swap.to = j
      BY <2>1 DEF Order!Swaps
    <3>. HIDE DEF swap
    <3>4. CASE adrift \/ Order!Busy
      BY <1>0, <3>1, <3>2, <3>3, <3>4 DEF OrderInv
    <3>5. CASE ~adrift /\ ~Order!Busy
      <4>1. loads = {} /\ reorders = {} /\ reloads = {} /\ data = stored
        BY <1>0, <2>1, <3>5 DEF OrderInv, Order!Busy
      <4>. QED
        BY <1>0, <3>1, <3>2, <3>3, <4>1 DEF OrderInv
    <3>. QED
      BY <3>4, <3>5
  <2>. QED
    BY <2>2, <2>3
<1>6. ASSUME NEW r \in reorders, Order!reorder_package(r)
      PROVE  OrderInv'
  <2>1. PICK ran \in Order!Swaps :
          /\ reorders' = (reorders \ {r}) \cup {ran}
          /\ ~ran.sent /\ (ran.ok <=> reviewable)
    <3>. DEFINE new == [r EXCEPT !.sent = FALSE, !.ok = reviewable]
    <3>1. new \in Order!Swaps /\ ~new.sent /\ new.ok = reviewable
      BY <1>0 DEF OrderInv, Order!Swaps
    <3>2. reorders' = (reorders \ {r}) \cup {new}
      BY <1>6 DEF Order!reorder_package
    <3>. QED
      BY <3>1, <3>2
  <2>2. /\ r \in Order!Swaps /\ r.sent /\ data' = data /\ dragIdx' = dragIdx
        /\ loads' = loads /\ reloads' = reloads /\ adrift' = adrift
        /\ reviewable' = reviewable
        /\ stored' = IF reviewable THEN Order!Swapped(stored, r.from, r.to) ELSE stored
    BY <1>0, <1>6 DEF OrderInv, Order!reorder_package
  <2>3. stored' \in Order!Orders
    BY <1>0, <2>2, SwappedIsOrder DEF OrderInv, Order!Swaps
  <2>4. CASE adrift
    BY <1>0, <2>1, <2>2, <2>3, <2>4 DEF OrderInv
  <2>5. CASE ~adrift
    <3>1. /\ loads = {} /\ reloads = {} /\ reorders = {r}
          /\ data = Order!Swapped(stored, r.from, r.to)
      BY <1>0, <2>2, <2>5 DEF OrderInv
    <3>2. reorders' = {ran} /\ (ran.ok => data' = stored')
      BY <2>1, <2>2, <3>1
    <3>. QED
      BY <1>0, <2>1, <2>2, <2>3, <3>1, <3>2 DEF OrderInv
  <2>. QED
    BY <2>4, <2>5
<1>7. ASSUME NEW r \in reorders, Order!Reordered(r)
      PROVE  OrderInv'
  BY <1>0, <1>7 DEF OrderInv, Order!Reordered
<1>8. ASSUME NEW r \in reorders, Order!ReorderFailed(r)
      PROVE  OrderInv'
  BY <1>0, <1>8 DEF OrderInv, Order!ReorderFailed
<1>9. ASSUME NEW o \in reloads, Order!Reloaded(o)
      PROVE  OrderInv'
  BY <1>0, <1>9, OrdersExist DEF OrderInv, Order!Reloaded
<1>10. ASSUME NEW o \in reloads, Order!ReloadFailed(o)
       PROVE  OrderInv'
  BY <1>0, <1>10 DEF OrderInv, Order!ReloadFailed
<1>. QED
  BY <1>0, <1>1, <1>2, <1>3, <1>4, <1>5, <1>6, <1>7, <1>8, <1>9, <1>10, Zenon
  DEF Order!Next

-----------------------------------------------------------------------------
(***************************************************************************)
(* The help chat.  While an answer is being streamed the last message is   *)
(* the question it answers, or the answer so far, unless the conversation  *)
(* was cleared since.                                                      *)
(***************************************************************************)
ChatTypes ==
  /\ messages \in Seq(Chat!Messages) /\ asked \in Seq(Chat!Questions)
  /\ stream \in [q : Chat!Questions, stage : Chat!Stages] \cup {None}
  /\ assistantText \in Chat!Contents /\ isStreaming \in BOOLEAN

\* The end of the chat belongs to the answer being streamed.
EndIsOfStream ==
  stream # None /\ messages # <<>> =>
    /\ messages[Len(messages)].q = stream.q
    /\ messages[Len(messages)].role = IF stream.stage = "asked" THEN "user" ELSE "assistant"

ChatInv ==
  screen = "chat" =>
    /\ ChatTypes
    /\ ~isStreaming => stream = None
    /\ EndIsOfStream
    /\ Chat!QuestionsKept
    /\ Chat!AnswersFollow

\* What a message is.
LEMMA ChatMessage ==
  ASSUME NEW role \in {"user", "assistant"}, NEW q \in Chat!Questions,
         NEW content \in Chat!Contents
  PROVE  /\ Chat!Message(role, q, content) \in Chat!Messages
         /\ Chat!Message(role, q, content).role = role
         /\ Chat!Message(role, q, content).q = q
BY DEF Chat!Message, Chat!Messages

\* An empty chat holds every question of an empty conversation.
LEMMA NothingAsked ==
  ASSUME messages = <<>>, asked = <<>>
  PROVE  Chat!QuestionsKept /\ Chat!AnswersFollow
<1>1. DOMAIN messages = {} /\ DOMAIN asked = {}
  OBVIOUS
<1>. DEFINE at == [i \in {} |-> i]
<1>2. at \in [DOMAIN asked -> DOMAIN messages]
  BY <1>1
<1>. QED
  BY <1>1, <1>2 DEF Chat!QuestionsKept, Chat!AnswersFollow

\* Messages may change while their roles and questions stay, and the questions as they are.
LEMMA MessagesChanged ==
  ASSUME Chat!QuestionsKept, Chat!AnswersFollow, asked' = asked,
         messages \in Seq(Chat!Messages), messages' \in Seq(Chat!Messages),
         Len(messages') = Len(messages),
         \A k \in 1..Len(messages) :
           /\ messages'[k].role = messages[k].role /\ messages'[k].q = messages[k].q
           /\ messages[k].role = "user" => messages'[k] = messages[k]
  PROVE  Chat!QuestionsKept' /\ Chat!AnswersFollow'
<1>1. DOMAIN messages = 1..Len(messages) /\ DOMAIN messages' = DOMAIN messages
  OBVIOUS
<1>2. PICK at \in [DOMAIN asked -> DOMAIN messages] :
        /\ \A i, j \in DOMAIN asked : i < j => at[i] < at[j]
        /\ \A i \in DOMAIN asked : messages[at[i]] = Chat!Message("user", asked[i], "text")
        /\ \A k \in DOMAIN messages :
             messages[k].role = "user" => \E i \in DOMAIN asked : at[i] = k
  BY DEF Chat!QuestionsKept
<1>3. \A i \in DOMAIN asked : messages'[at[i]] = messages[at[i]]
  <2>1. TAKE i \in DOMAIN asked
  <2>2. at[i] \in 1..Len(messages)
    BY <1>1, <1>2
  <2>3. messages[at[i]] = Chat!Message("user", asked[i], "text")
    BY <1>2
  <2>4. messages[at[i]].role = "user"
    BY <2>3 DEF Chat!Message
  <2>. QED
    BY <2>2, <2>4
<1>4. Chat!QuestionsKept'
  <2>1. \A k \in DOMAIN messages' : messages'[k].role = messages[k].role
    BY <1>1
  <2>2. \E f \in [DOMAIN asked' -> DOMAIN messages'] :
          /\ \A i, j \in DOMAIN asked' : i < j => f[i] < f[j]
          /\ \A i \in DOMAIN asked' : messages'[f[i]] = Chat!Message("user", asked'[i], "text")
          /\ \A k \in DOMAIN messages' :
               messages'[k].role = "user" => \E i \in DOMAIN asked' : f[i] = k
    <3>1. at \in [DOMAIN asked' -> DOMAIN messages']
      BY <1>1, <1>2
    <3>2. \A i, j \in DOMAIN asked' : i < j => at[i] < at[j]
      BY <1>2
    <3>3. \A i \in DOMAIN asked' : messages'[at[i]] = Chat!Message("user", asked'[i], "text")
      BY <1>2, <1>3
    <3>4. \A k \in DOMAIN messages' :
            messages'[k].role = "user" => \E i \in DOMAIN asked' : at[i] = k
      BY <1>1, <1>2, <2>1
    <3>. QED
      BY <3>1, <3>2, <3>3, <3>4
  <2>. QED
    BY <2>2 DEF Chat!QuestionsKept, Chat!Message
<1>5. Chat!AnswersFollow'
  BY <1>1 DEF Chat!AnswersFollow
<1>. QED
  BY <1>4, <1>5

\* An answer goes under the last message, which is its question or nothing.
LEMMA AnswerAdded ==
  ASSUME Chat!QuestionsKept, Chat!AnswersFollow, asked' = asked,
         messages \in Seq(Chat!Messages), NEW m \in Chat!Messages,
         m.role = "assistant", messages' = Append(messages, m),
         messages # <<>> => messages[Len(messages)].q = m.q
  PROVE  Chat!QuestionsKept' /\ Chat!AnswersFollow'
<1>1. /\ DOMAIN messages = 1..Len(messages)
      /\ DOMAIN messages' = DOMAIN messages \cup {Len(messages) + 1}
      /\ \A k \in 1..Len(messages) : messages'[k] = messages[k]
      /\ messages'[Len(messages) + 1] = m
      /\ Len(messages) \in Nat
  OBVIOUS
<1>2. PICK at \in [DOMAIN asked -> DOMAIN messages] :
        /\ \A i, j \in DOMAIN asked : i < j => at[i] < at[j]
        /\ \A i \in DOMAIN asked : messages[at[i]] = Chat!Message("user", asked[i], "text")
        /\ \A k \in DOMAIN messages :
             messages[k].role = "user" => \E i \in DOMAIN asked : at[i] = k
  BY DEF Chat!QuestionsKept
<1>3. at \in [DOMAIN asked -> DOMAIN messages']
  BY <1>1, <1>2
<1>4. Chat!QuestionsKept'
  BY <1>1, <1>2, <1>3 DEF Chat!QuestionsKept, Chat!Message
<1>5. ASSUME NEW k \in DOMAIN messages', messages'[k].role = "assistant", k > 1
      PROVE  messages'[k - 1].q = messages'[k].q
  <2>1. CASE k \in 1..Len(messages)
    <3>1. k - 1 \in 1..Len(messages) /\ messages[k - 1].q = messages[k].q
      BY <1>1, <1>5, <2>1 DEF Chat!AnswersFollow
    <3>. QED
      BY <1>1, <2>1, <3>1
  <2>2. CASE k = Len(messages) + 1
    <3>1. Len(messages) \in 1..Len(messages) /\ messages # <<>>
      BY <1>1, <1>5, <2>2
    <3>. QED
      BY <1>1, <2>2, <3>1
  <2>. QED
    BY <1>1, <2>1, <2>2
<1>. QED
  BY <1>4, <1>5 DEF Chat!AnswersFollow

\* A question is the last of the conversation and of the chat.
LEMMA QuestionAdded ==
  ASSUME Chat!QuestionsKept, Chat!AnswersFollow,
         messages \in Seq(Chat!Messages), asked \in Seq(Chat!Questions),
         NEW q \in Chat!Questions,
         messages' = Append(messages, Chat!Message("user", q, "text")),
         asked' = Append(asked, q)
  PROVE  Chat!QuestionsKept' /\ Chat!AnswersFollow'
<1>. DEFINE m == Chat!Message("user", q, "text")
            n == Len(messages)
            a == Len(asked)
<1>1. m.role = "user" /\ m \in Chat!Messages
  BY ChatMessage DEF Chat!Contents
<1>. HIDE DEF m
<1>2. /\ DOMAIN messages = 1..n /\ DOMAIN messages' = 1..(n + 1) /\ n \in Nat
      /\ \A k \in 1..n : messages'[k] = messages[k]
      /\ messages'[n + 1] = m
  BY <1>1 DEF m
<1>3. /\ DOMAIN asked = 1..a /\ DOMAIN asked' = 1..(a + 1) /\ a \in Nat
      /\ \A i \in 1..a : asked'[i] = asked[i]
      /\ asked'[a + 1] = q
  OBVIOUS
<1>. HIDE DEF n, a
<1>4. PICK at \in [DOMAIN asked -> DOMAIN messages] :
        /\ \A i, j \in DOMAIN asked : i < j => at[i] < at[j]
        /\ \A i \in DOMAIN asked : messages[at[i]] = Chat!Message("user", asked[i], "text")
        /\ \A k \in DOMAIN messages :
             messages[k].role = "user" => \E i \in DOMAIN asked : at[i] = k
  BY DEF Chat!QuestionsKept
<1>. DEFINE to == [i \in 1..(a + 1) |-> IF i = a + 1 THEN n + 1 ELSE at[i]]
<1>5. /\ to \in [1..(a + 1) -> 1..(n + 1)]
      /\ to[a + 1] = n + 1
      /\ \A i \in 1..a : to[i] = at[i] /\ at[i] \in 1..n
  BY <1>2, <1>3, <1>4
<1>. HIDE DEF to
<1>6. \A i, j \in 1..(a + 1) : i < j => to[i] < to[j]
  <2>1. TAKE i, j \in 1..(a + 1)
  <2>2. HAVE i < j
  <2>3. i \in 1..a
    BY <1>3, <2>2
  <2>4. CASE j = a + 1
    BY SMTT(30), <1>2, <1>5, <2>3, <2>4
  <2>5. CASE j \in 1..a
    BY <1>3, <1>4, <1>5, <2>2, <2>3, <2>5
  <2>. QED
    BY <1>3, <2>4, <2>5
<1>7. \A i \in 1..(a + 1) : messages'[to[i]] = Chat!Message("user", asked'[i], "text")
  <2>1. TAKE i \in 1..(a + 1)
  <2>2. CASE i = a + 1
    BY <1>2, <1>3, <1>5, <2>2 DEF m
  <2>3. CASE i \in 1..a
    <3>1. messages[at[i]] = Chat!Message("user", asked[i], "text")
      BY <1>3, <1>4, <2>3
    <3>. QED
      BY <1>2, <1>3, <1>5, <2>3, <3>1
  <2>4. i = a + 1 \/ i \in 1..a
    BY <1>3
  <2>. QED
    BY <2>2, <2>3, <2>4
<1>8. \A k \in 1..(n + 1) : messages'[k].role = "user" => \E i \in 1..(a + 1) : to[i] = k
  <2>1. TAKE k \in 1..(n + 1)
  <2>2. HAVE messages'[k].role = "user"
  <2>3. CASE k = n + 1
    <3>1. a + 1 \in 1..(a + 1) /\ to[a + 1] = k
      BY <1>3, <1>5, <2>3
    <3>. QED
      BY <3>1
  <2>4. CASE k \in 1..n
    <3>1. messages[k].role = "user" /\ k \in DOMAIN messages
      BY <1>2, <2>2, <2>4
    <3>2. PICK i \in 1..a : at[i] = k
      BY <1>3, <1>4, <3>1
    <3>3. i \in 1..(a + 1) /\ to[i] = k
      BY <1>3, <1>5, <3>2
    <3>. QED
      BY <3>3
  <2>5. k = n + 1 \/ k \in 1..n
    BY <1>2
  <2>. QED
    BY <2>3, <2>4, <2>5
<1>9. Chat!QuestionsKept'
  <2>1. \E f \in [DOMAIN asked' -> DOMAIN messages'] :
          /\ \A i, j \in DOMAIN asked' : i < j => f[i] < f[j]
          /\ \A i \in DOMAIN asked' : messages'[f[i]] = Chat!Message("user", asked'[i], "text")
          /\ \A k \in DOMAIN messages' :
               messages'[k].role = "user" => \E i \in DOMAIN asked' : f[i] = k
    <3>1. DOMAIN asked' = 1..(a + 1) /\ DOMAIN messages' = 1..(n + 1)
      BY <1>2, <1>3
    <3>2. to \in [DOMAIN asked' -> DOMAIN messages']
      BY <1>5, <3>1
    <3>3. \A i, j \in DOMAIN asked' : i < j => to[i] < to[j]
      BY <1>6, <3>1
    <3>4. \A i \in DOMAIN asked' : messages'[to[i]] = Chat!Message("user", asked'[i], "text")
      BY <1>7, <3>1
    <3>5. \A k \in DOMAIN messages' :
            messages'[k].role = "user" => \E i \in DOMAIN asked' : to[i] = k
      BY <1>8, <3>1
    <3>. QED
      BY <3>2, <3>3, <3>4, <3>5
  <2>. QED
    BY <2>1 DEF Chat!QuestionsKept, Chat!Message
<1>10. ASSUME NEW k \in DOMAIN messages', messages'[k].role = "assistant", k > 1
       PROVE  messages'[k - 1].q = messages'[k].q
  <2>1. k \in 1..n
    BY <1>1, <1>2, <1>10
  <2>2. k - 1 \in 1..n /\ messages[k - 1].q = messages[k].q
    BY <1>2, <1>10, <2>1 DEF Chat!AnswersFollow
  <2>. QED
    BY <1>2, <2>1, <2>2
<1>. QED
  BY <1>9, <1>10 DEF Chat!AnswersFollow

\* The chat starts empty.
LEMMA ChatInvInit ==
  ASSUME ChatInit
  PROVE  ChatInv
<1>1. messages = <<>> /\ asked = <<>> /\ stream = None /\ assistantText = ""
      /\ isStreaming = FALSE
  BY DEF ChatInit, Chat!Init
<1>2. Chat!QuestionsKept /\ Chat!AnswersFollow
  BY <1>1, NothingAsked
<1>3. messages \in Seq(Chat!Messages) /\ asked \in Seq(Chat!Questions)
  BY <1>1, EmptySeq, Zenon
<1>4. ChatTypes
  BY <1>1, <1>3 DEF ChatTypes, Chat!Contents
<1>. QED
  BY <1>1, <1>2, <1>4 DEF ChatInv, EndIsOfStream

\* The end of the chat, once it is the answer to the question being streamed.
LEMMA AnswerAtEnd ==
  ASSUME messages \in Seq(Chat!Messages), Chat!QuestionsKept, Chat!AnswersFollow,
         asked' = asked, NEW content \in Chat!Contents,
         stream \in [q : Chat!Questions, stage : Chat!Stages],
         messages # <<>> => /\ messages[Len(messages)].q = stream.q
                            /\ messages[Len(messages)].role = "assistant",
         messages' = Chat!Replaced(content)
  PROVE  /\ messages' \in Seq(Chat!Messages)
         /\ Chat!QuestionsKept' /\ Chat!AnswersFollow'
         /\ messages' # <<>> => /\ messages'[Len(messages')].q = stream.q
                                /\ messages'[Len(messages')].role = "assistant"
<1>. DEFINE n == Len(messages)
            m == Chat!Message("assistant", stream.q, content)
<1>1. m \in Chat!Messages /\ m.role = "assistant" /\ m.q = stream.q
  BY ChatMessage
<1>2. CASE messages = <<>>
  <2>1. messages' = messages /\ Len(messages) = 0
    BY <1>2 DEF Chat!Replaced
  <2>. QED
    BY <1>2, <2>1, MessagesChanged
<1>3. CASE messages # <<>>
  <2>1. messages' = [messages EXCEPT ![n] = m]
    BY <1>3 DEF Chat!Replaced
  <2>. HIDE DEF m
  <2>2. /\ n \in 1..n /\ messages' \in Seq(Chat!Messages) /\ Len(messages') = n
        /\ \A k \in 1..n : messages'[k] = IF k = n THEN m ELSE messages[k]
    BY <1>1, <1>3, <2>1
  <2>3. \A k \in 1..n :
          /\ messages'[k].role = messages[k].role /\ messages'[k].q = messages[k].q
          /\ messages[k].role = "user" => messages'[k] = messages[k]
    BY <1>1, <1>3, <2>2
  <2>4. Chat!QuestionsKept' /\ Chat!AnswersFollow'
    BY <2>2, <2>3, MessagesChanged
  <2>. QED
    BY <1>1, <2>2, <2>4
<1>. QED
  BY <1>2, <1>3

\* Pieces of an answer, an error that ends it, a rating and a cleared chat leave every
\* question where it was asked, and every answer under its own.
LEMMA ChatInvStep ==
  ASSUME ChatInv, ChatOnly(Chat!Next)
  PROVE  ChatInv'
<1>. USE DEF Chat!chatVars, Chat!streamVars, Chat!historyVars
<1>0. /\ screen = "chat" /\ screen' = screen /\ Chat!Next
      /\ ChatTypes /\ (~isStreaming => stream = None) /\ EndIsOfStream
      /\ Chat!QuestionsKept /\ Chat!AnswersFollow
  BY DEF ChatOnly, ChatInv
<1>a. /\ messages \in Seq(Chat!Messages) /\ asked \in Seq(Chat!Questions)
      /\ stream # None => stream \in [q : Chat!Questions, stage : Chat!Stages]
  BY <1>0 DEF ChatTypes
\* A step that leaves the messages alone.
<1>b. ASSUME messages' = messages, asked' = asked
      PROVE  Chat!QuestionsKept' /\ Chat!AnswersFollow'
  BY <1>0, <1>b, Zenon DEF Chat!QuestionsKept, Chat!AnswersFollow, Chat!Message
<1>1. CASE Chat!ToggleOpen \/ Chat!SessionEvent
  <2>1. /\ messages' = messages /\ asked' = asked /\ stream' = stream
        /\ isStreaming' = isStreaming /\ assistantText' = assistantText
    BY <1>1 DEF Chat!ToggleOpen, Chat!SessionEvent
  <2>. QED
    BY <1>0, <1>b, <2>1 DEF ChatInv, ChatTypes, EndIsOfStream
<1>2. ASSUME NEW q \in Chat!Questions, Chat!sendMessage(q)
      PROVE  ChatInv'
  <2>. DEFINE m == Chat!Message("user", q, "text")
  <2>1. /\ messages' = Append(messages, m) /\ asked' = Append(asked, q)
        /\ isStreaming' = TRUE /\ assistantText' = "" /\ stream' = [q |-> q, stage |-> "asked"]
    BY <1>2 DEF Chat!sendMessage
  <2>2. m \in Chat!Messages /\ m.role = "user" /\ m.q = q
    BY ChatMessage DEF Chat!Contents
  <2>3. Chat!QuestionsKept' /\ Chat!AnswersFollow'
    BY <1>0, <1>a, <2>1, QuestionAdded
  <2>. HIDE DEF m
  <2>4. /\ messages' \in Seq(Chat!Messages) /\ messages'[Len(messages')] = m
        /\ asked' \in Seq(Chat!Questions)
    <3>1. asked' = Append(asked, q) /\ messages' = Append(messages, m)
      BY <2>1
    <3>2. asked' \in Seq(Chat!Questions)
      BY <1>a, <3>1, AppendProperties
    <3>3. messages' \in Seq(Chat!Messages) /\ messages'[Len(messages')] = m
      BY <1>a, <2>2, <3>1, AppendProperties
    <3>. QED
      BY <3>2, <3>3
  <2>5. ChatTypes'
    BY <2>1, <2>4 DEF ChatTypes, Chat!Stages, Chat!Contents
  <2>6. EndIsOfStream'
    BY <2>1, <2>2, <2>4 DEF EndIsOfStream
  <2>. QED
    BY <2>1, <2>3, <2>5, <2>6 DEF ChatInv
<1>3. ASSUME NEW m \in Chat!Messages, m.role = "assistant", stream # None, m.q = stream.q,
             messages' = Append(messages, m), asked' = asked
      PROVE  /\ messages' \in Seq(Chat!Messages) /\ messages'[Len(messages')] = m
             /\ Chat!QuestionsKept' /\ Chat!AnswersFollow'
  <2>1. messages # <<>> => messages[Len(messages)].q = m.q
    BY <1>0, <1>3 DEF EndIsOfStream
  <2>2. Chat!QuestionsKept' /\ Chat!AnswersFollow'
    BY <1>0, <1>a, <1>3, <2>1, AnswerAdded
  <2>. QED
    BY <1>a, <1>3, <2>2
<1>4. CASE Chat!Refused
  <2>. DEFINE m == Chat!Message("assistant", stream.q, "error")
  <2>1. /\ stream # None /\ messages' = Append(messages, m) /\ asked' = asked
        /\ isStreaming' = FALSE /\ stream' = None /\ assistantText' = assistantText
    BY <1>4 DEF Chat!Refused
  <2>2. m \in Chat!Messages /\ m.role = "assistant" /\ m.q = stream.q
    BY <1>a, <2>1, ChatMessage DEF Chat!Contents
  <2>. HIDE DEF m
  <2>3. messages' \in Seq(Chat!Messages) /\ Chat!QuestionsKept' /\ Chat!AnswersFollow'
    BY <1>3, <2>1, <2>2
  <2>. QED
    BY <1>0, <2>1, <2>3 DEF ChatInv, ChatTypes, EndIsOfStream
<1>5. CASE Chat!Responded
  <2>. DEFINE m == Chat!Message("assistant", stream.q, "")
  <2>1. /\ stream # None /\ messages' = Append(messages, m) /\ asked' = asked
        /\ isStreaming' = isStreaming /\ assistantText' = assistantText
        /\ stream' = [stream EXCEPT !.stage = "open"]
    BY <1>5 DEF Chat!Responded
  <2>2. m \in Chat!Messages /\ m.role = "assistant" /\ m.q = stream.q
    BY <1>a, <2>1, ChatMessage DEF Chat!Contents
  <2>. HIDE DEF m
  <2>3. /\ messages' \in Seq(Chat!Messages) /\ messages'[Len(messages')] = m
        /\ Chat!QuestionsKept' /\ Chat!AnswersFollow'
    BY <1>3, <2>1, <2>2
  <2>4. /\ stream' \in [q : Chat!Questions, stage : Chat!Stages]
        /\ stream'.q = stream.q /\ stream'.stage = "open"
    BY <1>a, <2>1 DEF Chat!Stages
  <2>5. ChatTypes'
    BY <1>0, <2>1, <2>3, <2>4 DEF ChatTypes
  <2>6. EndIsOfStream'
    BY <2>2, <2>3, <2>4 DEF EndIsOfStream
  <2>. QED
    BY <1>0, <2>1, <2>3, <2>5, <2>6 DEF ChatInv
<1>6. ASSUME NEW content \in Chat!Contents, NEW stage \in {"open", "done"},
             Chat!TextEvent(content, stage)
      PROVE  ChatInv'
  <2>1. /\ stream # None /\ stream.stage = "open" /\ messages' = Chat!Replaced(content)
        /\ asked' = asked /\ isStreaming' = isStreaming /\ assistantText' = content
        /\ stream' = [stream EXCEPT !.stage = stage]
    BY <1>6 DEF Chat!TextEvent
  <2>2. /\ messages' \in Seq(Chat!Messages)
        /\ Chat!QuestionsKept' /\ Chat!AnswersFollow'
        /\ messages' # <<>> => /\ messages'[Len(messages')].q = stream.q
                               /\ messages'[Len(messages')].role = "assistant"
    BY <1>0, <1>a, <2>1, AnswerAtEnd DEF EndIsOfStream
  <2>3. /\ stream' \in [q : Chat!Questions, stage : Chat!Stages]
        /\ stream'.q = stream.q /\ stream'.stage = stage
    BY <1>a, <2>1 DEF Chat!Stages
  <2>4. ChatTypes'
    BY <1>0, <2>1, <2>2, <2>3 DEF ChatTypes
  <2>5. EndIsOfStream'
    BY <2>2, <2>3 DEF EndIsOfStream
  <2>. QED
    BY <1>0, <2>1, <2>2, <2>4, <2>5 DEF ChatInv
<1>7. CASE Chat!text \/ Chat!errorEvent \/ Chat!done
  BY <1>0, <1>6, <1>7 DEF Chat!text, Chat!errorEvent, Chat!done, ChatTypes, Chat!Contents
<1>8. CASE Chat!StreamEnded
  <2>1. /\ messages' = messages /\ asked' = asked /\ stream' = None
        /\ isStreaming' = FALSE /\ assistantText' = assistantText
    BY <1>8 DEF Chat!StreamEnded
  <2>. QED
    BY <1>0, <1>b, <2>1 DEF ChatInv, ChatTypes, EndIsOfStream
<1>9. CASE Chat!Broken
  <2>. DEFINE m == Chat!Message("assistant", stream.q, "error")
  <2>1. /\ stream # None /\ asked' = asked
        /\ isStreaming' = FALSE /\ stream' = None /\ assistantText' = assistantText
        /\ \/ /\ messages # <<>> /\ messages[Len(messages)].role = "assistant"
              /\ messages' = Chat!Replaced("error")
           \/ messages' = Append(messages, m)
    BY <1>9 DEF Chat!Broken, Chat!Last
  <2>2. m \in Chat!Messages /\ m.role = "assistant" /\ m.q = stream.q /\ "error" \in Chat!Contents
    BY <1>a, <2>1, ChatMessage DEF Chat!Contents
  <2>. HIDE DEF m
  <2>3. messages' \in Seq(Chat!Messages) /\ Chat!QuestionsKept' /\ Chat!AnswersFollow'
    <3>1. CASE messages' = Append(messages, m)
      BY <1>3, <2>1, <2>2, <3>1
    <3>2. CASE /\ messages # <<>> /\ messages[Len(messages)].role = "assistant"
               /\ messages' = Chat!Replaced("error")
      BY <1>0, <1>a, <2>1, <2>2, <3>2, AnswerAtEnd DEF EndIsOfStream
    <3>. QED
      BY <2>1, <3>1, <3>2
  <2>. QED
    BY <1>0, <2>1, <2>3 DEF ChatInv, ChatTypes, EndIsOfStream
<1>10. CASE Chat!clearChat
  <2>1. /\ messages' = <<>> /\ asked' = <<>> /\ stream' = stream
        /\ isStreaming' = isStreaming /\ assistantText' = assistantText
    BY <1>10 DEF Chat!clearChat
  <2>2. Chat!QuestionsKept' /\ Chat!AnswersFollow'
    <3>1. DOMAIN messages' = {} /\ DOMAIN asked' = {}
      BY <2>1
    <3>. DEFINE at == [i \in {} |-> i]
    <3>2. at \in [DOMAIN asked' -> DOMAIN messages']
      BY <3>1
    <3>. QED
      BY <3>1, <3>2 DEF Chat!QuestionsKept, Chat!AnswersFollow
  <2>3. messages' \in Seq(Chat!Messages) /\ asked' \in Seq(Chat!Questions)
    BY <2>1
  <2>. QED
    BY <1>0, <2>1, <2>2, <2>3 DEF ChatInv, ChatTypes, EndIsOfStream
<1>11. ASSUME NEW i \in 1..(3 * MaxQuestions), NEW rating \in {"up", "down"},
              Chat!sendFeedback(i, rating)
       PROVE  ChatInv'
  <2>1. /\ i \in DOMAIN messages /\ messages[i].role = "assistant"
        /\ messages' = [messages EXCEPT ![i].feedback = rating]
        /\ asked' = asked /\ stream' = stream
        /\ isStreaming' = isStreaming /\ assistantText' = assistantText
    BY <1>11 DEF Chat!sendFeedback, Chat!MessageBubble
  <2>2. PICK m \in Chat!Messages :
          /\ messages' = [messages EXCEPT ![i] = m]
          /\ m.role = messages[i].role /\ m.q = messages[i].q
    <3>. DEFINE rated == [messages[i] EXCEPT !.feedback = rating]
    <3>1. messages[i] \in Chat!Messages
      BY <1>a, <2>1
    <3>2. /\ rated \in Chat!Messages
          /\ rated.role = messages[i].role /\ rated.q = messages[i].q
      BY <3>1 DEF Chat!Messages
    <3>3. messages' = [messages EXCEPT ![i] = rated]
      BY <2>1
    <3>. QED
      BY <3>2, <3>3
  <2>3. /\ messages' \in Seq(Chat!Messages) /\ Len(messages') = Len(messages)
        /\ \A k \in 1..Len(messages) : messages'[k] = IF k = i THEN m ELSE messages[k]
    <3>1. i \in 1..Len(messages)
      BY <1>a, <2>1
    <3>. QED
      BY <1>a, <2>2, <3>1
  <2>4. \A k \in 1..Len(messages) :
          /\ messages'[k].role = messages[k].role /\ messages'[k].q = messages[k].q
          /\ messages[k].role = "user" => messages'[k] = messages[k]
    BY <2>1, <2>2, <2>3
  <2>5. Chat!QuestionsKept' /\ Chat!AnswersFollow'
    BY <1>0, <1>a, <2>1, <2>3, <2>4, MessagesChanged
  <2>6. EndIsOfStream'
    <3>1. messages' # <<>> => messages # <<>> /\ Len(messages) \in 1..Len(messages)
      BY <1>a, <2>3
    <3>. QED
      BY <1>0, <2>1, <2>3, <2>4, <3>1 DEF EndIsOfStream
  <2>. QED
    BY <1>0, <2>1, <2>3, <2>5, <2>6 DEF ChatInv, ChatTypes
<1>. QED
  BY <1>0, <1>1, <1>2, <1>4, <1>5, <1>7, <1>8, <1>9, <1>10, <1>11, Zenon DEF Chat!Next

-----------------------------------------------------------------------------
(***************************************************************************)
(* All pages.                                                              *)
(***************************************************************************)
PagesInv == AddressInv /\ LinkInv /\ StepsInv /\ OrderInv /\ ChatInv

\* Every initial state has the invariant of the component on screen.
LEMMA PagesInvInit ==
  ASSUME Init
  PROVE  PagesInv
<1>1. CASE AddressInit
  BY <1>1, AddressInvInit DEF PagesInv, AddressInit, LinkInv, StepsInv, OrderInv, ChatInv
<1>2. CASE LinkInit
  BY <1>2, LinkInvInit DEF PagesInv, LinkInit, AddressInv, StepsInv, OrderInv, ChatInv
<1>3. CASE StepsInit
  BY <1>3, StepsInvInit DEF PagesInv, StepsInit, AddressInv, LinkInv, OrderInv, ChatInv
<1>4. CASE OrderInit
  BY <1>4, OrderInvInit DEF PagesInv, OrderInit, AddressInv, LinkInv, StepsInv, ChatInv
<1>5. CASE ChatInit
  BY <1>5, ChatInvInit DEF PagesInv, ChatInit, AddressInv, LinkInv, StepsInv, OrderInv
<1>6. CASE ListingInit \/ ReviewInit \/ BellInit
  BY <1>6 DEF PagesInv, ListingInit, ReviewInit, BellInit, AddressInv, LinkInv, StepsInv,
              OrderInv, ChatInv
<1>. QED
  BY <1>1, <1>2, <1>3, <1>4, <1>5, <1>6 DEF Init

\* Every step keeps it, and moves the list of steps forward while the stream is up.
LEMMA PagesInvStep ==
  ASSUME PagesInv, [Next]_vars
  PROVE  /\ PagesInv'
         /\ [screen = "progress" /\ live => steps' >= steps]_vars
<1>. DEFINE Goal == PagesInv' /\ StepsForward
<1>. USE DEF PagesInv, StepsForward
<1>1. CASE AddressOnly(Address!Next)
  BY <1>1, AddressInvStep DEF AddressOnly, LinkInv, StepsInv, OrderInv, ChatInv
<1>2. CASE LinkOnly(Link!Next)
  BY <1>2, LinkInvStep DEF LinkOnly, AddressInv, StepsInv, OrderInv, ChatInv
<1>3. CASE StepsOnly(Steps!Next)
  BY <1>3, StepsInvStep DEF StepsOnly, AddressInv, LinkInv, OrderInv, ChatInv
<1>4. CASE OrderOnly(Order!Next)
  BY <1>4, OrderInvStep DEF OrderOnly, AddressInv, LinkInv, StepsInv, ChatInv
<1>5. CASE ChatOnly(Chat!Next)
  BY <1>5, ChatInvStep DEF ChatOnly, AddressInv, LinkInv, StepsInv, OrderInv
<1>6. CASE ListingOnly(Listing!Next) \/ ReviewOnly(Review!Next) \/ BellOnly(Bell!Next)
  BY <1>6 DEF ListingOnly, ReviewOnly, BellOnly, AddressInv, LinkInv, StepsInv, OrderInv,
              ChatInv
<1>7. CASE UNCHANGED vars
  <2>1. AddressInv'
    BY <1>7 DEF vars, addressVars, AddressInv
  <2>2. LinkInv'
    BY <1>7 DEF vars, linkVars, LinkInv, Link!NoFrozenImport
  <2>3. StepsInv'
    BY <1>7 DEF vars, progressVars, StepsInv, ReadOk
  <2>4. OrderInv'
    BY <1>7 DEF vars, orderVars, OrderInv
  <2>5. ChatInv'
    BY <1>7 DEF vars, chatVars, ChatInv, ChatTypes, EndIsOfStream, Chat!QuestionsKept,
       Chat!AnswersFollow, Chat!Message
  <2>. QED
    BY <1>7, <2>1, <2>2, <2>3, <2>4, <2>5
<1>. QED
  BY <1>1, <1>2, <1>3, <1>4, <1>5, <1>6, <1>7, Zenon DEF Next

\* The invariant of the component on screen holds for ever, for any number of steps,
\* photos, questions, imports, fields and requests under way.
THEOREM PagesInvariant == Spec => []PagesInv
<1>1. Init => PagesInv
  BY PagesInvInit
<1>2. PagesInv /\ [Next]_vars => PagesInv'
  BY PagesInvStep
<1>. QED
  BY <1>1, <1>2, PTL DEF Spec

\* Once every request has ended, the order of the photos shown is the one stored: the
\* optimistic update of a drop is undone when the server refuses it (page.tsx of the
\* review queue, handleReorder).
THEOREM OrderIsShown == Spec => []OrderShown
<1>1. PagesInv => OrderShown
  BY DEF PagesInv, OrderInv, OrderShown, Order!OrderShown, Order!Busy
<1>. QED
  BY <1>1, PagesInvariant, PTL

\* The chat holds every question since it was cleared, and answers stand under their
\* questions, whatever becomes of the stream.
THEOREM ChatKeepsOrder == Spec => []ChatInOrder
<1>1. PagesInv => ChatInOrder
  BY DEF PagesInv, ChatInv, ChatInOrder
<1>. QED
  BY <1>1, PagesInvariant, PTL

\* No Import button is frozen, the script of Google Maps is on the page at most once, and
\* a lookup keeps what was typed.
THEOREM FieldsStayUsable == Spec => []FieldsUsable
<1>1. PagesInv => FieldsUsable
  BY DEF PagesInv, LinkInv, AddressInv, FieldsUsable, Address!OneScript, Address!scriptLoaded,
         Address!TypedKept
<1>. QED
  BY <1>1, PagesInvariant, PTL

\* While the stream is up the list of steps never goes back.
THEOREM ListGoesForward == Spec => StepsGoForward
<1>1. PagesInv /\ [Next]_vars => [screen = "progress" /\ live => steps' >= steps]_vars
  BY PagesInvStep
<1>. QED
  BY <1>1, PagesInvariant, PTL DEF Spec, StepsGoForward

-----------------------------------------------------------------------------
(***************************************************************************)
(* The types.  The types bound what a page has asked for and what it       *)
(* holds; where a type is not inductive, the invariant beside it says what *)
(* is under way.                                                           *)
(***************************************************************************)
\* A list that gets one more member.
LEMMA ListAppended ==
  ASSUME NEW S, NEW x \in S
  PROVE  /\ <<x>> \in [1..1 -> S]
         /\ \A n \in Nat : \A s \in [1..n -> S] : Append(s, x) \in [1..(n + 1) -> S]
<1>1. <<x>> \in Seq(S) /\ Len(<<x>>) = 1
  OBVIOUS
<1>2. \A s \in Seq(S) : s \in [1..Len(s) -> S]
  BY LenProperties
<1>3. ASSUME NEW n \in Nat, NEW s \in [1..n -> S]
      PROVE  Append(s, x) \in [1..(n + 1) -> S]
  <2>1. s \in Seq(S) /\ Len(s) = n
    BY <1>3
  <2>2. Append(s, x) \in Seq(S) /\ Len(Append(s, x)) = n + 1
    BY <2>1, AppendProperties
  <2>. QED
    BY <1>2, <2>2
<1>. QED
  BY <1>1, <1>2, <1>3

\* Before the page gives up there were fewer errors in a row than it allows.
ErrorsCounted == stream # "gaveUp" => errors < MAX_CONSECUTIVE_ERRORS
ListingTypes == Listing!TypeOK /\ ErrorsCounted

\* Of the events the endpoint has not sent there is a last one.
LEMMA LastEvent ==
  ASSUME NEW S \in SUBSET Listing!Stamps, S # {}
  PROVE  Listing!Max(S) \in S
<1>. DEFINE Above == {n..MaxEvents : n \in S}
            R == StrictSubsetOrdering(Nat)
            W == FiniteSubsetsOf(Nat)
<1>0. MaxEvents \in Nat /\ S \subseteq 1..MaxEvents
  BY BoundsAssumption DEF Listing!Stamps
<1>1. \A n \in S : n..MaxEvents \in W
  <2>1. \A n \in S : n \in Nat /\ IsFiniteSet(n..MaxEvents) /\ n..MaxEvents \subseteq Nat
    BY <1>0, FS_Interval
  <2>. QED
    BY <2>1 DEF FiniteSubsetsOf
<1>2. Above \subseteq W /\ Above # {}
  BY <1>1
<1>3. IsWellFoundedOn(R, W)
  BY FS_StrictSubsetOrderingWellFounded
<1>4. \A x, y \in S : x < y => <<y..MaxEvents, x..MaxEvents>> \in R
  BY <1>0 DEF StrictSubsetOrdering
<1>. HIDE DEF R, W
<1>5. PICK B \in Above : \A C \in Above : <<C, B>> \notin R
  <2>. HIDE DEF Above
  <2>. QED
    BY <1>2, <1>3, WFMin
<1>6. PICK x \in S : B = x..MaxEvents
  BY <1>5
<1>7. \A y \in S : ~ (x < y)
  BY <1>4, <1>5, <1>6
<1>8. \A y \in S : x >= y
  BY <1>0, <1>7
<1>. QED
  BY <1>8 DEF Listing!Max

\* The page starts well typed, with one answer under way,
LEMMA ListingTypesInit ==
  ASSUME Listing!Init
  PROVE  ListingTypes
<1>0. /\ {MaxEvents, MaxDrops, MaxSilent} \subseteq Nat
      /\ {MAX_CONSECUTIVE_ERRORS, MaxInFlight} \subseteq Nat \ {0}
  BY BoundsAssumption
<1>1. state \in Listing!States
  BY DEF Listing!Init, Listing!States
<1>2. answers \in [1..1 -> [act : BOOLEAN, state : Listing!States \cup {None}, old : BOOLEAN]]
  <2>1. /\ answers = <<[act |-> FALSE, state |-> state, old |-> FALSE]>>
        /\ [act |-> FALSE, state |-> state, old |-> FALSE]
             \in [act : BOOLEAN, state : Listing!States \cup {None}, old : BOOLEAN]
    BY <1>1 DEF Listing!Init
  <2>. QED
    BY <2>1, ListAppended
<1>3. answers \in Listing!BoundedSeq([act : BOOLEAN, state : Listing!States \cup {None},
                                      old : BOOLEAN], MaxInFlight)
  <2>1. 1 \in 0..MaxInFlight
    BY <1>0
  <2>. DEFINE Answers == [act : BOOLEAN, state : Listing!States \cup {None}, old : BOOLEAN]
  <2>. HIDE DEF Answers
  <2>2. answers \in [1..1 -> Answers]
    BY <1>2 DEF Answers
  <2>3. answers \in Listing!BoundedSeq(Answers, MaxInFlight)
    BY <2>1, <2>2 DEF Listing!BoundedSeq, Listing!SeqOf
  <2>. QED
    BY <2>3 DEF Answers
<1>4. {refetchTimer, actionLoading, unheard, skipped, failed, outdated} \subseteq BOOLEAN
  BY DEF Listing!Init
<1>. QED
  BY <1>0, <1>1, <1>3, <1>4 DEF ListingTypes, ErrorsCounted, Listing!TypeOK, Listing!Init

\* and every handler leaves it so.
LEMMA ListingTypesStep ==
  ASSUME ListingTypes, Listing!Next
  PROVE  ListingTypes'
<1>. USE DEF Listing!serverVars, Listing!streamVars, Listing!pageVars
<1>. DEFINE Answers == [act : BOOLEAN, state : Listing!States \cup {None}, old : BOOLEAN]
            Lists == Listing!BoundedSeq(Answers, MaxInFlight)
            Flags == {refetchTimer, actionLoading, unheard, skipped, failed, outdated}
            Txns == [stamp : Listing!Stamps, to : Listing!States]
<1>0. /\ MaxEvents \in Nat /\ MaxDrops \in Nat /\ MaxSilent \in Nat
      /\ MAX_CONSECUTIVE_ERRORS \in Nat \ {0} /\ MaxInFlight \in Nat \ {0}
  BY BoundsAssumption
<1>t. /\ state \in Listing!States /\ clock \in 0..MaxEvents /\ events \subseteq Listing!Stamps
      /\ open_txns \subseteq Txns
      /\ stream \in {"connecting", "connected", "gaveUp"}
      /\ errors \in 0..MAX_CONSECUTIVE_ERRORS /\ cursor \in 0..MaxEvents
      /\ listing \in Listing!States \cup {None} /\ Flags \subseteq BOOLEAN
      /\ answers \in Lists /\ drops \in 0..MaxDrops /\ silent \in 0..MaxSilent
      /\ ErrorsCounted
  BY DEF ListingTypes, Listing!TypeOK
<1>q. ASSUME state' \in Listing!States, clock' \in 0..MaxEvents,
             events' \subseteq Listing!Stamps, open_txns' \subseteq Txns,
             stream' \in {"connecting", "connected", "gaveUp"},
             errors' \in 0..MAX_CONSECUTIVE_ERRORS, cursor' \in 0..MaxEvents,
             listing' \in Listing!States \cup {None}, Flags' \subseteq BOOLEAN,
             answers' \in Lists, drops' \in 0..MaxDrops, silent' \in 0..MaxSilent,
             ErrorsCounted'
      PROVE  ListingTypes'
  BY <1>q DEF ListingTypes, Listing!TypeOK
<1>l. \A n \in 0..MaxInFlight : \A a \in [1..n -> Answers] : a \in Lists
  BY <1>0 DEF Listing!BoundedSeq, Listing!SeqOf
<1>n. PICK len \in 0..MaxInFlight : answers \in [1..len -> Answers] /\ Len(answers) = len
  BY <1>0, <1>t DEF Listing!BoundedSeq, Listing!SeqOf
<1>a. ASSUME NEW act \in BOOLEAN, NEW s \in Listing!States \cup {None}, Listing!Ask(act, s)
      PROVE  answers' \in Lists
  <2>. DEFINE new == [act |-> act, state |-> s, old |-> FALSE]
  <2>1. new \in Answers /\ len < MaxInFlight /\ answers' = Append(answers, new)
    BY <1>a, <1>n DEF Listing!Ask
  <2>. HIDE DEF new, Answers, Lists
  <2>2. answers' \in [1..(len + 1) -> Answers] /\ len + 1 \in 0..MaxInFlight
    <3>1. len \in Nat /\ len + 1 \in 0..MaxInFlight
      BY <1>0, <2>1
    <3>2. Append(answers, new) \in [1..(len + 1) -> Answers]
      BY <1>n, <2>1, <3>1, ListAppended
    <3>. QED
      BY <2>1, <3>1, <3>2
  <2>. QED
    BY <1>l, <2>2
<1>r. ASSUME NEW i \in DOMAIN answers
      PROVE  /\ Listing!Rest(i) \in Lists /\ answers[i] \in Answers
             /\ answers[i].act \in BOOLEAN /\ answers[i].old \in BOOLEAN
             /\ answers[i].state \in Listing!States \cup {None}
  <2>1. /\ i \in 1..len /\ len - 1 \in 0..MaxInFlight /\ answers[i] \in Answers
        /\ \A j \in 1..(len - 1) : j \in 1..len /\ j + 1 \in 1..len
    BY <1>0, <1>n
  <2>2. \A a \in Answers, b \in BOOLEAN : [a EXCEPT !.old = a.old \/ b] \in Answers
    OBVIOUS
  <2>3. (answers[i].state # None) \in BOOLEAN
    OBVIOUS
  <2>4. \A j \in 1..(len - 1) :
          /\ [answers[j] EXCEPT !.old = @ \/ answers[i].state # None] \in Answers
          /\ answers[j + 1] \in Answers
    <3>. HIDE DEF Answers
    <3>. QED
      BY <1>n, <2>1, <2>2, <2>3
  <2>5. Listing!Rest(i) \in [1..(len - 1) -> Answers]
    <3>. HIDE DEF Answers
    <3>. QED
      BY <1>n, <2>4 DEF Listing!Rest
  <2>6. Listing!Rest(i) \in Lists
    <3>. HIDE DEF Answers, Lists
    <3>. QED
      BY <1>l, <2>1, <2>5
  <2>. QED
    BY <2>1, <2>6
<1>. HIDE DEF Answers, Lists
<1>1. ASSUME NEW to \in Listing!States, Listing!EventStamped(to)
      PROVE  ListingTypes'
  <2>1. /\ clock < MaxEvents /\ clock' = clock + 1
        /\ open_txns' = open_txns \cup {[stamp |-> clock', to |-> to]}
        /\ UNCHANGED <<state, events, stream, errors, cursor, drops, listing, refetchTimer,
                       answers, actionLoading, failed, outdated, silent, unheard, skipped>>
    BY <1>1 DEF Listing!EventStamped
  <2>2. clock' \in 0..MaxEvents /\ clock' \in Listing!Stamps
    BY <1>0, <1>t, <2>1 DEF Listing!Stamps
  <2>3. open_txns' \subseteq Txns
    BY <1>t, <2>1, <2>2
  <2>. QED
    BY <1>q, <1>t, <2>1, <2>2, <2>3 DEF ErrorsCounted
<1>2. ASSUME NEW t \in open_txns, Listing!EventCommitted(t)
      PROVE  ListingTypes'
  <2>1. /\ open_txns' = open_txns \ {t} /\ events' = events \cup {t.stamp}
        /\ state' = IF t.to \in Listing!Leads(state) THEN t.to ELSE state
        /\ unheard' = (unheard /\ state' = state) /\ skipped' = (t.stamp < cursor)
        /\ UNCHANGED <<clock, stream, errors, cursor, drops, listing, refetchTimer, answers,
                       actionLoading, failed, outdated, silent>>
    BY <1>2 DEF Listing!EventCommitted
  <2>2. t.stamp \in Listing!Stamps /\ t.to \in Listing!States
    BY <1>t
  <2>3. {unheard', skipped'} \subseteq BOOLEAN
    <3>1. (t.stamp < cursor) \in BOOLEAN /\ (unheard /\ state' = state) \in BOOLEAN
      OBVIOUS
    <3>. QED
      BY <2>1, <3>1, Zenon
  <2>. QED
    BY <1>q, <1>t, <2>1, <2>2, <2>3 DEF ErrorsCounted
<1>3. ASSUME NEW to \in Listing!States, Listing!Colleague(to)
      PROVE  ListingTypes'
  <2>1. /\ silent < MaxSilent /\ silent' = silent + 1 /\ state' = to /\ unheard' = TRUE
        /\ UNCHANGED <<clock, open_txns, events, stream, errors, cursor, drops, listing,
                       refetchTimer, answers, actionLoading, failed, outdated, skipped>>
    BY <1>3 DEF Listing!Colleague
  <2>2. silent' \in 0..MaxSilent
    BY <1>0, <1>t, <2>1
  <2>. QED
    BY <1>q, <1>t, <2>1, <2>2 DEF ErrorsCounted
<1>4. CASE Listing!onopen \/ Listing!onrefused
  <2>1. /\ \/ errors' = 0
           \/ stream = "connecting" /\ errors' = errors + 1 /\ stream' = "gaveUp"
        /\ stream' \in {"connected", "gaveUp"}
        /\ UNCHANGED <<state, clock, open_txns, events, cursor, drops, listing, refetchTimer,
                       answers, actionLoading, failed, outdated, silent, unheard, skipped>>
    BY <1>4 DEF Listing!onopen, Listing!onrefused
  <2>2. errors' \in 0..MAX_CONSECUTIVE_ERRORS /\ ErrorsCounted'
    BY <1>0, <1>t, <2>1 DEF ErrorsCounted
  <2>. QED
    BY <1>q, <1>t, <2>1, <2>2
<1>5. CASE Listing!onerror
  <2>1. /\ stream # "gaveUp" /\ (errors = 0 => drops < MaxDrops)
        /\ drops' = (IF errors = 0 THEN drops + 1 ELSE drops) /\ errors' = errors + 1
        /\ stream' = IF errors' >= MAX_CONSECUTIVE_ERRORS THEN "gaveUp" ELSE "connecting"
        /\ UNCHANGED <<state, clock, open_txns, events, cursor, listing, refetchTimer,
                       answers, actionLoading, failed, outdated, silent, unheard, skipped>>
    BY <1>5 DEF Listing!onerror
  <2>2. drops' \in 0..MaxDrops
    BY <1>0, <1>t, <2>1
  <2>3. errors' \in 0..MAX_CONSECUTIVE_ERRORS /\ ErrorsCounted'
    BY <1>0, <1>t, <2>1 DEF ErrorsCounted
  <2>. QED
    BY <1>q, <1>t, <2>1, <2>2, <2>3
<1>6. CASE Listing!record
  <2>1. /\ Listing!Unsent # {} /\ cursor' = Listing!Max(Listing!Unsent)
        /\ refetchTimer' = TRUE
        /\ UNCHANGED <<state, clock, open_txns, events, stream, errors, drops, listing,
                       answers, actionLoading, failed, outdated, silent, unheard, skipped>>
    BY <1>6 DEF Listing!record
  <2>2. cursor' \in Listing!Stamps
    BY <1>t, <2>1, LastEvent DEF Listing!Unsent
  <2>3. cursor' \in 0..MaxEvents
    BY <1>0, <2>2 DEF Listing!Stamps
  <2>. QED
    BY <1>q, <1>t, <2>1, <2>3 DEF ErrorsCounted
<1>7. CASE Listing!RefetchFires \/ Listing!Poll \/ Listing!Retry
  <2>1. /\ Listing!Ask(FALSE, state)
        /\ refetchTimer' \in {refetchTimer, FALSE} /\ failed' \in {failed, FALSE}
        /\ UNCHANGED <<state, clock, open_txns, events, stream, errors, cursor, drops, listing,
                       actionLoading, outdated, silent, unheard, skipped>>
    BY <1>7 DEF Listing!RefetchFires, Listing!Poll, Listing!Retry
  <2>2. answers' \in Lists
    BY <1>a, <1>t, <2>1
  <2>. QED
    BY <1>q, <1>t, <2>1, <2>2 DEF ErrorsCounted
<1>8. ASSUME NEW to \in {"in_review", "approved", "uploading"}, Listing!handleAction(to)
      PROVE  ListingTypes'
  <2>1. /\ actionLoading' = TRUE
        /\ \/ Listing!Ask(TRUE, to) /\ state' = to /\ unheard' = FALSE
           \/ Listing!Ask(TRUE, None) /\ UNCHANGED <<state, unheard>>
        /\ UNCHANGED <<clock, open_txns, events, stream, errors, cursor, drops, listing,
                       refetchTimer, failed, outdated, silent, skipped>>
    BY <1>8 DEF Listing!handleAction
  <2>2. to \in Listing!States
    BY DEF Listing!States
  <2>3. answers' \in Lists
    BY <1>a, <2>1, <2>2
  <2>. QED
    BY <1>q, <1>t, <2>1, <2>2, <2>3 DEF ErrorsCounted
<1>9. ASSUME NEW i \in 1..MaxInFlight, Listing!Show(i) \/ Listing!Fail(i)
      PROVE  ListingTypes'
  <2>1. i \in DOMAIN answers /\ answers' = Listing!Rest(i)
    BY <1>9 DEF Listing!Show, Listing!Fail
  <2>2. /\ answers' \in Lists /\ {answers[i].act, answers[i].old} \subseteq BOOLEAN
        /\ answers[i].state \in Listing!States \cup {None}
    BY <1>r, <2>1
  <2>3. /\ listing' \in {listing, answers[i].state}
        /\ UNCHANGED <<state, clock, open_txns, events, stream, errors, cursor, drops,
                       refetchTimer, silent, unheard, skipped>>
    BY <1>9 DEF Listing!Show, Listing!Fail
  <2>4. {actionLoading', failed', outdated'} \subseteq BOOLEAN
    BY <1>9, <1>t, <2>2, Zenon DEF Listing!Show, Listing!Fail
  <2>. QED
    BY <1>q, <1>t, <2>2, <2>3, <2>4 DEF ErrorsCounted
<1>. QED
  BY <1>1, <1>2, <1>3, <1>4, <1>5, <1>6, <1>7, <1>8, <1>9 DEF Listing!Next

-----------------------------------------------------------------------------
\* The list of steps starts well typed,
LEMMA StepsTypesInit ==
  ASSUME Steps!Init
  PROVE  Steps!TypeOK
<1>1. {MaxSteps, MaxRuns, MaxReads} \subseteq Nat \ {0} /\ MaxUnread \in Nat
  BY BoundsAssumption
<1>2. Steps!NewRead(1, 1) \in Steps!Reads
  BY <1>1 DEF Steps!NewRead, Steps!Reads
<1>3. {live, loading} \subseteq BOOLEAN
  BY DEF Steps!Init
<1>. QED
  BY <1>1, <1>2, <1>3 DEF Steps!Init, Steps!TypeOK

\* and stays so: a read that is answered shows changes there were.
LEMMA StepsTypesStep ==
  ASSUME Steps!TypeOK, Steps!Next
  PROVE  Steps!TypeOK'
<1>. USE DEF Steps!pageVars, Steps!componentVars, Steps!historyVars
<1>0. /\ {MaxSteps, MaxRuns, MaxReads} \subseteq Nat \ {0} /\ MaxUnread \in Nat
      /\ progress \in 0..MaxSteps /\ steps \in 0..MaxSteps
      /\ listingState \in ListingStates /\ {live, loading} \subseteq BOOLEAN
      /\ run \in 1..MaxRuns /\ reads \subseteq Steps!Reads
      /\ asked \in 0..MaxReads /\ unread \in 0..MaxUnread
  BY BoundsAssumption DEF Steps!TypeOK
<1>n. \A k \in 1..MaxRuns, n \in 1..MaxReads : Steps!NewRead(k, n) \in Steps!Reads
  BY <1>0 DEF Steps!NewRead, Steps!Reads
<1>1. CASE Steps!StepChanged
  <2>1. progress' \in 0..MaxSteps
    BY <1>0, <1>1 DEF Steps!StepChanged
  <2>. QED
    BY <1>0, <1>1, <2>1 DEF Steps!TypeOK, Steps!StepChanged
<1>2. CASE Steps!RefreshKeyBumped \/ Steps!StreamChanged \/ Steps!StateShown
  <2>1. /\ run < MaxRuns /\ run' = run + 1 /\ asked' = 1
        /\ reads' = reads \cup {Steps!NewRead(run + 1, 1)}
        /\ UNCHANGED <<progress, steps, loading, unread>>
    BY <1>2 DEF Steps!RefreshKeyBumped, Steps!StreamChanged, Steps!StateShown,
       Steps!fetchStatus
  <2>2. /\ listingState' \in ListingStates /\ {live', loading'} \subseteq BOOLEAN
    <3>1. live' \in {live, ~live}
      BY <1>2, Zenon DEF Steps!RefreshKeyBumped, Steps!StreamChanged, Steps!StateShown
    <3>2. {live', loading'} \subseteq BOOLEAN
      BY <1>0, <2>1, <3>1, Zenon
    <3>. QED
      BY <1>0, <1>2, <3>2 DEF Steps!RefreshKeyBumped, Steps!StreamChanged, Steps!StateShown
  <2>3. run' \in 1..MaxRuns /\ 1 \in 1..MaxReads /\ asked' \in 0..MaxReads
    BY <1>0, <2>1
  <2>4. reads' \subseteq Steps!Reads
    BY <1>0, <1>n, <2>1, <2>3
  <2>. QED
    BY <1>0, <2>1, <2>2, <2>3, <2>4 DEF Steps!TypeOK
<1>3. CASE Steps!Poll
  <2>1. asked' \in 0..MaxReads /\ asked + 1 \in 1..MaxReads
    BY <1>0, <1>3 DEF Steps!Poll
  <2>2. reads' \subseteq Steps!Reads
    BY <1>0, <1>n, <1>3, <2>1 DEF Steps!Poll
  <2>. QED
    BY <1>0, <1>3, <2>1, <2>2 DEF Steps!TypeOK, Steps!Poll
<1>4. ASSUME NEW r \in reads, Steps!Read(r)
      PROVE  Steps!TypeOK'
  <2>1. r \in Steps!Reads
    BY <1>0
  <2>2. [r EXCEPT !.open = FALSE, !.got = progress] \in Steps!Reads
    BY <1>0, <2>1 DEF Steps!Reads
  <2>3. reads' \subseteq Steps!Reads
    BY <1>0, <1>4, <2>2 DEF Steps!Read
  <2>. QED
    BY <1>0, <1>4, <2>3 DEF Steps!TypeOK, Steps!Read
<1>5. ASSUME NEW r \in reads, Steps!Answered(r)
      PROVE  Steps!TypeOK'
  <2>1. r.got \in 0..MaxSteps
    BY <1>0 DEF Steps!Reads
  <2>2. {live', loading'} \subseteq BOOLEAN
    BY <1>0, <1>5, Zenon DEF Steps!Answered
  <2>. QED
    BY <1>0, <1>5, <2>1, <2>2 DEF Steps!TypeOK, Steps!Answered
<1>6. ASSUME NEW r \in reads, Steps!Unanswered(r)
      PROVE  Steps!TypeOK'
  <2>1. unread' \in 0..MaxUnread
    BY <1>0, <1>6 DEF Steps!Unanswered
  <2>2. {live', loading'} \subseteq BOOLEAN
    BY <1>0, <1>6, Zenon DEF Steps!Unanswered
  <2>. QED
    BY <1>0, <1>6, <2>1, <2>2 DEF Steps!TypeOK, Steps!Unanswered
<1>. QED
  BY <1>1, <1>2, <1>3, <1>4, <1>5, <1>6 DEF Steps!Next

-----------------------------------------------------------------------------
\* A poll that is answered leaves fewer of them.
LEMMA ReviewRemoveAt ==
  ASSUME NEW S, NEW s \in Review!BoundedSeq(S, MaxPolls), NEW i \in DOMAIN s
  PROVE  Review!RemoveAt(s, i) \in Review!BoundedSeq(S, MaxPolls)
<1>1. PICK n \in 0..MaxPolls : s \in [1..n -> S]
  BY DEF Review!BoundedSeq, Review!SeqOf
<1>2. n \in Nat /\ n <= MaxPolls /\ s \in Seq(S) /\ Len(s) = n /\ i \in 1..n /\ MaxPolls \in Nat
  <2>1. MaxPolls \in Nat
    BY BoundsAssumption
  <2>2. n \in Nat /\ n <= MaxPolls
    BY <2>1
  <2>3. s \in Seq(S) /\ Len(s) = n /\ i \in 1..n
    BY <1>1, <2>2
  <2>. QED
    BY <2>1, <2>2, <2>3
<1>3. /\ SubSeq(s, 1, i - 1) \in Seq(S) /\ Len(SubSeq(s, 1, i - 1)) = i - 1
      /\ SubSeq(s, i + 1, n) \in Seq(S) /\ Len(SubSeq(s, i + 1, n)) = n - i
  BY <1>2, SubSeqProperties
<1>. DEFINE a == SubSeq(s, 1, i - 1)
            b == SubSeq(s, i + 1, n)
<1>4. a \in Seq(S) /\ b \in Seq(S) /\ Len(a) = i - 1 /\ Len(b) = n - i
  BY <1>3
<1>5. Review!RemoveAt(s, i) = a \o b
  BY <1>2 DEF Review!RemoveAt
<1>. HIDE DEF a, b
<1>6. a \o b \in Seq(S) /\ Len(a \o b) = Len(a) + Len(b)
  BY <1>4, ConcatProperties
<1>7. Len(a \o b) \in 0..MaxPolls
  <2>1. (i - 1) + (n - i) = n - 1 /\ n - 1 \in 0..MaxPolls
    BY <1>2
  <2>. QED
    BY <1>4, <1>6, <2>1
<1>8. a \o b \in [1..Len(a \o b) -> S]
  BY <1>6, LenProperties
<1>. QED
  BY <1>5, <1>7, <1>8 DEF Review!BoundedSeq, Review!SeqOf

\* The queue starts well typed,
LEMMA ReviewTypesInit ==
  ASSUME Review!Init
  PROVE  Review!TypeOK
<1>0. MaxPolls \in Nat \ {0} /\ {MaxDecisions, MaxOutside, MaxLost} \subseteq Nat
  BY BoundsAssumption
<1>1. state \in [Listings -> Review!States]
  BY DEF Review!Init, Review!States
<1>2. polls \in [1..1 -> Review!Reads]
  BY ListAppended DEF Review!Init, Review!Reads
<1>3. 1 \in 0..MaxPolls
  BY <1>0
<1>4. polls \in Review!BoundedSeq(Review!Reads, MaxPolls)
  BY <1>2, <1>3 DEF Review!BoundedSeq, Review!SeqOf
<1>. QED
  BY <1>0, <1>1, <1>4 DEF Review!Init, Review!TypeOK, Review!Ids

\* and stays so.
LEMMA ReviewTypesStep ==
  ASSUME Review!TypeOK, Review!Next
  PROVE  Review!TypeOK'
<1>. USE DEF Review!pageVars, Review!boundVars
<1>. DEFINE Lists == Review!BoundedSeq(Review!Reads, MaxPolls)
<1>0. /\ MaxPolls \in Nat \ {0} /\ {MaxDecisions, MaxOutside, MaxLost} \subseteq Nat
      /\ state \in [Listings -> Review!States] /\ listings \subseteq Listings
      /\ {expandedId, rejectingId, actionLoading} \subseteq Review!Ids
      /\ polls \in Lists /\ decisions \subseteq Review!Decisions
      /\ decided \in 0..MaxDecisions /\ outside \in 0..MaxOutside /\ lost \in 0..MaxLost
  BY BoundsAssumption DEF Review!TypeOK
<1>i. None \in Review!Ids /\ Listings \subseteq Review!Ids /\ Review!Ids \subseteq Listings \cup {None}
  BY DEF Review!Ids
<1>q. ASSUME state' \in [Listings -> Review!States], listings' \subseteq Listings,
             {expandedId', rejectingId', actionLoading'} \subseteq Review!Ids,
             polls' \in Lists, decisions' \subseteq Review!Decisions,
             decided' \in 0..MaxDecisions, outside' \in 0..MaxOutside, lost' \in 0..MaxLost
      PROVE  Review!TypeOK'
  BY <1>q DEF Review!TypeOK
<1>n. PICK len \in 0..MaxPolls : polls \in [1..len -> Review!Reads] /\ Len(polls) = len
  BY <1>0 DEF Review!BoundedSeq, Review!SeqOf
<1>l. \A n \in 0..MaxPolls : \A s \in [1..n -> Review!Reads] : s \in Lists
  BY <1>0 DEF Review!BoundedSeq, Review!SeqOf
<1>e. \A s : Review!In(s) \in SUBSET Listings
  BY DEF Review!In
<1>. HIDE DEF Lists
<1>1. CASE Review!fetchQueue
  <2>1. /\ len < MaxPolls /\ polls' = Append(polls, [aw |-> None, ir |-> None])
        /\ UNCHANGED <<state, listings, expandedId, rejectingId, actionLoading, decisions,
                       decided, outside, lost>>
    BY <1>n, <1>1 DEF Review!fetchQueue
  <2>2. [aw |-> None, ir |-> None] \in Review!Reads
    BY DEF Review!Reads
  <2>3. len \in Nat /\ len + 1 \in 0..MaxPolls
    BY <1>0, <2>1
  <2>4. polls' \in [1..(len + 1) -> Review!Reads]
    BY <1>n, <2>1, <2>2, <2>3, ListAppended
  <2>5. polls' \in Lists
    BY <1>l, <2>3, <2>4
  <2>. QED
    BY <1>0, <1>q, <2>1, <2>5
<1>2. ASSUME NEW i \in 1..MaxPolls, Review!getReviewQueue(i)
      PROVE  Review!TypeOK'
  <2>1. /\ i \in DOMAIN polls /\ polls[i] \in Review!Reads
        /\ \/ polls' = [polls EXCEPT ![i].aw = Review!In("awaiting_review")]
           \/ polls' = [polls EXCEPT ![i].ir = Review!In("in_review")]
        /\ UNCHANGED <<state, listings, expandedId, rejectingId, actionLoading, decisions,
                       decided, outside, lost>>
    BY <1>n, <1>2 DEF Review!getReviewQueue
  <2>2. /\ [polls[i] EXCEPT !.aw = Review!In("awaiting_review")] \in Review!Reads
        /\ [polls[i] EXCEPT !.ir = Review!In("in_review")] \in Review!Reads
    BY <1>e, <2>1 DEF Review!Reads
  <2>3. polls' \in [1..len -> Review!Reads]
    BY <1>n, <2>1, <2>2
  <2>4. polls' \in Lists
    BY <1>l, <2>3
  <2>. QED
    BY <1>0, <1>q, <2>1, <2>4
<1>3. ASSUME NEW i \in 1..MaxPolls, Review!QueueShown(i) \/ Review!QueueFailed(i)
      PROVE  Review!TypeOK'
  <2>1. /\ i \in DOMAIN polls /\ polls[i] \in Review!Reads
        /\ polls' = Review!RemoveAt(polls, i)
        /\ listings' = listings \/ Review!QueueShown(i)
        /\ lost' = lost \/ (lost < MaxLost /\ lost' = lost + 1)
        /\ UNCHANGED <<state, expandedId, rejectingId, actionLoading, decisions, decided,
                       outside>>
    BY <1>n, <1>3 DEF Review!QueueShown, Review!QueueFailed
  <2>2. polls' \in Lists
    BY <1>0, <2>1, ReviewRemoveAt DEF Lists
  <2>3. listings' \subseteq Listings
    BY <1>0, <2>1 DEF Review!QueueShown, Review!Reads
  <2>4. lost' \in 0..MaxLost
    BY <1>0, <2>1
  <2>. QED
    BY <1>0, <1>q, <2>1, <2>2, <2>3, <2>4
<1>4. ASSUME NEW l \in Listings, Review!toggleExpand(l)
      PROVE  Review!TypeOK'
  BY <1>0, <1>i, <1>q, <1>4 DEF Review!toggleExpand
<1>5. ASSUME NEW l \in Review!Ids, Review!setRejectingId(l)
      PROVE  Review!TypeOK'
  BY <1>0, <1>q, <1>5 DEF Review!setRejectingId
<1>6. ASSUME NEW l \in Listings, NEW step \in {"start", "reject"}, Review!Decide(l, step)
      PROVE  Review!TypeOK'
  <2>1. decided' \in 0..MaxDecisions /\ decided + 1 \in 1..MaxDecisions
    BY <1>0, <1>6 DEF Review!Decide
  <2>2. [id |-> l, n |-> decided + 1, step |-> step] \in Review!Decisions
    BY <2>1 DEF Review!Decisions
  <2>3. decisions' \subseteq Review!Decisions
    BY <1>0, <1>6, <2>2 DEF Review!Decide
  <2>. QED
    BY <1>0, <1>i, <1>q, <1>6, <2>1, <2>3 DEF Review!Decide
<1>7. CASE \/ \E l \in Listings : Review!handleApprove(l)
           \/ Review!handleKeyApprove
           \/ \E l \in Listings : Review!handleReject(l)
  <2>1. expandedId # None => expandedId \in Listings
    BY <1>0, <1>i
  <2>2. \E l \in Listings, step \in {"start", "reject"} : Review!Decide(l, step)
    BY <1>7, <2>1 DEF Review!handleApprove, Review!handleKeyApprove, Review!handleReject
  <2>. QED
    BY <1>6, <2>2
<1>8. ASSUME NEW d \in decisions, Review!Start(d)
      PROVE  Review!TypeOK'
  <2>1. d \in Review!Decisions /\ d.id \in Listings
    BY <1>0 DEF Review!Decisions
  <2>2. [d EXCEPT !.step = "approve"] \in Review!Decisions
    BY <2>1 DEF Review!Decisions
  <2>3. decisions' \subseteq Review!Decisions
    BY <1>0, <1>8, <2>2 DEF Review!Start
  <2>4. "in_review" \in Review!States
    BY DEF Review!States
  <2>5. state' \in [Listings -> Review!States]
    BY <1>0, <1>8, <2>4 DEF Review!Start
  <2>. QED
    BY <1>0, <1>q, <1>8, <2>3, <2>5 DEF Review!Start
<1>9. ASSUME NEW d \in decisions, Review!Decided(d) \/ Review!Refused(d) \/ Review!Lost(d)
      PROVE  Review!TypeOK'
  <2>1. "approved" \in Review!States /\ "failed" \in Review!States
    BY DEF Review!States
  <2>2. state' \in [Listings -> Review!States]
    BY <1>0, <1>9, <2>1 DEF Review!Decided, Review!Refused, Review!Lost
  <2>3. decisions' \subseteq Review!Decisions /\ actionLoading' = None
    BY <1>0, <1>9 DEF Review!Decided, Review!Refused, Review!Lost, Review!Answered
  <2>4. lost' \in 0..MaxLost
    BY <1>0, <1>9 DEF Review!Decided, Review!Refused, Review!Lost
  <2>5. /\ listings' \in {listings, listings \ {d.id}} /\ rejectingId' \in {rejectingId, None}
        /\ UNCHANGED <<expandedId, polls, decided, outside>>
    BY <1>9 DEF Review!Decided, Review!Refused, Review!Lost
  <2>. QED
    BY <1>0, <1>i, <1>q, <2>2, <2>3, <2>4, <2>5
<1>10. ASSUME NEW l \in Listings, NEW s \in Review!States, Review!Outside(l, s)
       PROVE  Review!TypeOK'
  <2>1. outside' \in 0..MaxOutside
    BY <1>0, <1>10 DEF Review!Outside
  <2>2. state' \in [Listings -> Review!States]
    BY <1>0, <1>10 DEF Review!Outside
  <2>. QED
    BY <1>0, <1>q, <1>10, <2>1, <2>2 DEF Review!Outside
<1>. QED
  BY <1>1, <1>2, <1>3, <1>4, <1>5, <1>7, <1>8, <1>9, <1>10 DEF Review!Next

-----------------------------------------------------------------------------
\* What a photo order is, OrderInv says; the rest is what it counts and remembers.
LEMMA OrderTypesInit ==
  ASSUME OrderInit, OrderInv
  PROVE  Order!TypeOK
<1>1. {MaxDrags, MaxOpened} \subseteq Nat
  BY BoundsAssumption
<1>2. {reviewable, expandedId, adrift, unloaded, byKey} \subseteq BOOLEAN
  BY DEF OrderInit, Order!Init
<1>. QED
  BY <1>1, <1>2 DEF OrderInit, OrderInv, Order!Init, Order!TypeOK

\* A drop counts, and so does every time the row is opened.
LEMMA OrderTypesStep ==
  ASSUME Order!TypeOK, OrderInv, OrderInv', OrderOnly(Order!Next)
  PROVE  Order!TypeOK'
<1>. USE DEF Order!serverVars, Order!pageVars, Order!requestVars, Order!historyVars
<1>0. /\ screen = "order" /\ screen' = screen /\ Order!Next
      /\ MaxDrags \in Nat /\ MaxOpened \in Nat
      /\ {reviewable, expandedId, adrift, unloaded, byKey} \subseteq BOOLEAN
      /\ drags \in 0..MaxDrags /\ opened \in 0..MaxOpened
  BY BoundsAssumption DEF OrderOnly, Order!TypeOK
<1>q. ASSUME {reviewable', expandedId', adrift', unloaded', byKey'} \subseteq BOOLEAN,
             drags' \in 0..MaxDrags, opened' \in 0..MaxOpened
      PROVE  Order!TypeOK'
  <2>1. /\ stored' \in Order!Orders /\ data' \in Order!Orders \cup {None}
        /\ dragIdx' \in Order!Positions \cup {None} /\ reorders' \subseteq Order!Swaps
        /\ loads' \subseteq Order!Orders /\ reloads' \subseteq Order!Orders
    BY <1>0 DEF OrderInv
  <2>. QED
    BY <1>q, <2>1 DEF Order!TypeOK
<1>1. CASE Order!toggleExpand \/ Order!handleKey
  <2>1. opened' \in 0..MaxOpened
    BY <1>0, <1>1 DEF Order!toggleExpand, Order!handleKey
  <2>2. {reviewable', expandedId', adrift', unloaded', byKey'} \subseteq BOOLEAN
    BY <1>0, <1>1, Zenon DEF Order!toggleExpand, Order!handleKey
  <2>. QED
    BY <1>0, <1>1, <1>q, <2>1, <2>2 DEF Order!toggleExpand, Order!handleKey
<1>2. ASSUME NEW j \in Order!Positions, Order!handleDrop(j)
      PROVE  Order!TypeOK'
  <2>1. drags' \in 0..MaxDrags
    BY <1>0, <1>2 DEF Order!handleDrop
  <2>2. {reviewable', expandedId', adrift', unloaded', byKey'} \subseteq BOOLEAN
    BY <1>0, <1>2, Zenon DEF Order!handleDrop
  <2>. QED
    BY <1>0, <1>2, <1>q, <2>1, <2>2 DEF Order!handleDrop
<1>3. CASE \/ Order!Decided \/ Order!handleDragEnd
           \/ \E o \in loads : Order!Loaded(o) \/ Order!LoadFailed(o)
           \/ \E i \in Order!Positions : Order!handleDragStart(i)
           \/ \E r \in reorders : \/ Order!reorder_package(r) \/ Order!Reordered(r)
                                  \/ Order!ReorderFailed(r)
           \/ \E o \in reloads : Order!Reloaded(o) \/ Order!ReloadFailed(o)
  <2>. DEFINE Kept == {reviewable', expandedId', adrift', unloaded', byKey'} \subseteq BOOLEAN
  <2>1. Kept /\ UNCHANGED <<drags, opened>>
    <3>1. CASE Order!Decided \/ Order!handleDragEnd
      <4>1. Kept
        BY <1>0, <3>1, Zenon DEF Order!Decided, Order!handleDragEnd
      <4>. QED
        BY <3>1, <4>1 DEF Order!Decided, Order!handleDragEnd
    <3>2. CASE \E o \in loads : Order!Loaded(o) \/ Order!LoadFailed(o)
      <4>1. Kept
        BY <1>0, <3>2, Zenon DEF Order!Loaded, Order!LoadFailed
      <4>. QED
        BY <3>2, <4>1 DEF Order!Loaded, Order!LoadFailed
    <3>3. CASE \E i \in Order!Positions : Order!handleDragStart(i)
      <4>1. Kept
        BY <1>0, <3>3, Zenon DEF Order!handleDragStart
      <4>. QED
        BY <3>3, <4>1 DEF Order!handleDragStart
    <3>4. CASE \E r \in reorders : \/ Order!reorder_package(r) \/ Order!Reordered(r)
                                   \/ Order!ReorderFailed(r)
      <4>1. Kept
        BY <1>0, <3>4, Zenon DEF Order!reorder_package, Order!Reordered, Order!ReorderFailed
      <4>. QED
        BY <3>4, <4>1 DEF Order!reorder_package, Order!Reordered, Order!ReorderFailed
    <3>5. CASE \E o \in reloads : Order!Reloaded(o) \/ Order!ReloadFailed(o)
      <4>1. Kept
        BY <1>0, <3>5, Zenon DEF Order!Reloaded, Order!ReloadFailed
      <4>. QED
        BY <3>5, <4>1 DEF Order!Reloaded, Order!ReloadFailed
    <3>. QED
      BY <1>3, <3>1, <3>2, <3>3, <3>4, <3>5
  <2>. QED
    BY <1>0, <1>q, <2>1
<1>. QED
  BY <1>0, <1>1, <1>2, <1>3 DEF Order!Next

-----------------------------------------------------------------------------
\* What a poll that is answered got was there.
PollsOfThen == \A s \in Bell!Slots : polls[s] # None => polls[s].got \subseteq 1..created
BellTypes == Bell!TypeOK /\ PollsOfThen

\* The bell starts well typed, with a poll under way,
LEMMA BellTypesInit ==
  ASSUME Bell!Init
  PROVE  BellTypes
<1>0. {MaxCreated, MaxRequests} \subseteq Nat \ {0} /\ MaxLost \in Nat
  BY BoundsAssumption
<1>1. [step |-> "asked", got |-> {}] \in Bell!Polls /\ None \in Bell!Polls /\ None \in Bell!Marks
  BY DEF Bell!Polls, Bell!Marks
<1>2. polls \in [Bell!Slots -> Bell!Polls] /\ marks \in [Bell!Slots -> Bell!Marks]
  BY <1>1 DEF Bell!Init
<1>3. PollsOfThen
  BY DEF Bell!Init, PollsOfThen
<1>4. Bell!TypeOK
  <2>1. /\ created \in 0..1 /\ unread = 1..created /\ shown = {} /\ is_read = {}
        /\ panel \in BOOLEAN /\ lost = 0
    BY DEF Bell!Init
  <2>2. created \in 0..MaxCreated /\ lost \in 0..MaxLost
    BY <1>0, <2>1
  <2>. QED
    BY <1>2, <2>1, <2>2 DEF Bell!TypeOK
<1>. QED
  BY <1>3, <1>4 DEF BellTypes

\* and stays so: only what is shown is patched as read.
LEMMA BellTypesStep ==
  ASSUME BellTypes, Bell!Next
  PROVE  BellTypes'
<1>. USE DEF Bell!bellVars
<1>0. /\ {MaxCreated, MaxRequests} \subseteq Nat \ {0} /\ MaxLost \in Nat
      /\ created \in 0..MaxCreated /\ unread \subseteq 1..created
      /\ shown \subseteq 1..created /\ is_read \subseteq shown /\ panel \in BOOLEAN
      /\ polls \in [Bell!Slots -> Bell!Polls] /\ marks \in [Bell!Slots -> Bell!Marks]
      /\ lost \in 0..MaxLost /\ PollsOfThen
  BY BoundsAssumption DEF BellTypes, Bell!TypeOK
<1>q. ASSUME created' \in 0..MaxCreated, unread' \subseteq 1..created',
             shown' \subseteq 1..created', is_read' \subseteq shown', panel' \in BOOLEAN,
             polls' \in [Bell!Slots -> Bell!Polls], marks' \in [Bell!Slots -> Bell!Marks],
             lost' \in 0..MaxLost, PollsOfThen'
      PROVE  BellTypes'
  BY <1>q DEF BellTypes, Bell!TypeOK
<1>p. \A s \in Bell!Slots : polls[s] # None => polls[s] \in [step : {"asked", "done"},
                                                            got : SUBSET Bell!Ids]
  BY <1>0 DEF Bell!Polls
<1>m. \A s \in Bell!Slots : marks[s] # None =>
        /\ marks[s] \in [step : {"asked", "done"}, id : Bell!Ids \cup {Bell!All}]
        /\ [marks[s] EXCEPT !.step = "done"] \in Bell!Marks
  BY <1>0 DEF Bell!Marks
<1>n. None \in Bell!Polls /\ None \in Bell!Marks
  BY DEF Bell!Polls, Bell!Marks
<1>1. CASE Bell!Notify
  <2>1. /\ created' = created + 1 /\ created < MaxCreated
        /\ unread' = unread \cup {created + 1}
        /\ UNCHANGED <<shown, is_read, panel, polls, marks, lost>>
    BY <1>1 DEF Bell!Notify
  <2>2. created' \in 0..MaxCreated /\ 1..created \subseteq 1..created' /\ created + 1 \in 1..created'
    BY <1>0, <2>1
  <2>3. PollsOfThen'
    BY <1>0, <2>1, <2>2 DEF PollsOfThen
  <2>. QED
    BY <1>0, <1>q, <2>1, <2>2, <2>3
<1>2. CASE Bell!TogglePanel
  <2>1. /\ panel' \in BOOLEAN
        /\ UNCHANGED <<created, unread, shown, is_read, polls, marks, lost>>
    BY <1>0, <1>2 DEF Bell!TogglePanel
  <2>2. PollsOfThen'
    BY <1>0, <2>1 DEF PollsOfThen
  <2>. QED
    BY <1>0, <1>q, <2>1, <2>2
<1>3. ASSUME NEW s \in Bell!Slots, NEW p \in Bell!Polls, p # None => p.got \subseteq 1..created,
             polls' = [polls EXCEPT ![s] = p],
             UNCHANGED <<created, unread, panel, marks>>,
             shown' \subseteq 1..created, is_read' \subseteq shown', lost' \in 0..MaxLost
      PROVE  BellTypes'
  <2>1. polls' \in [Bell!Slots -> Bell!Polls]
    BY <1>0, <1>3
  <2>2. PollsOfThen'
    BY <1>0, <1>3 DEF PollsOfThen
  <2>. QED
    BY <1>0, <1>q, <1>3, <2>1, <2>2
<1>4. ASSUME NEW s \in Bell!Slots, Bell!Poll(s) \/ Bell!list_notifications(s)
      PROVE  BellTypes'
  <2>1. Bell!Newest \subseteq 1..created /\ Bell!Newest \subseteq Bell!Ids
    BY <1>0 DEF Bell!Newest, Bell!Ids
  <2>2. PICK p : /\ p \in {[step |-> "asked", got |-> {}], [step |-> "done", got |-> Bell!Newest]}
                 /\ polls' = [polls EXCEPT ![s] = p]
    BY <1>4 DEF Bell!Poll, Bell!list_notifications
  <2>3. p \in Bell!Polls /\ p.got \subseteq 1..created
    <3>1. [step |-> "asked", got |-> {}] \in Bell!Polls
      BY DEF Bell!Polls
    <3>2. [step |-> "done", got |-> Bell!Newest] \in Bell!Polls
      BY <2>1 DEF Bell!Polls
    <3>3. CASE p = [step |-> "asked", got |-> {}]
      BY <3>1, <3>3
    <3>4. CASE p = [step |-> "done", got |-> Bell!Newest]
      BY <2>1, <3>2, <3>4
    <3>. QED
      BY <2>2, <3>3, <3>4
  <2>4. UNCHANGED <<created, unread, shown, is_read, panel, marks, lost>>
    BY <1>4 DEF Bell!Poll, Bell!list_notifications
  <2>. QED
    BY <1>0, <1>3, <2>2, <2>3, <2>4
<1>5. ASSUME NEW s \in Bell!Slots, Bell!refresh(s)
      PROVE  BellTypes'
  <2>1. shown' \subseteq 1..created
    BY <1>0, <1>5 DEF Bell!refresh, PollsOfThen
  <2>. QED
    BY <1>0, <1>3, <1>5, <1>n, <2>1 DEF Bell!refresh
<1>6. ASSUME NEW s \in Bell!Slots, Bell!PollLost(s)
      PROVE  BellTypes'
  <2>1. lost' \in 0..MaxLost
    BY <1>0, <1>6 DEF Bell!PollLost
  <2>. QED
    BY <1>0, <1>3, <1>6, <1>n, <2>1 DEF Bell!PollLost
<1>7. ASSUME NEW s \in Bell!Slots, NEW m \in Bell!Marks, marks' = [marks EXCEPT ![s] = m],
             UNCHANGED <<created, shown, polls>>, unread' \subseteq 1..created,
             is_read' \subseteq shown, panel' \in BOOLEAN, lost' \in 0..MaxLost
      PROVE  BellTypes'
  <2>1. marks' \in [Bell!Slots -> Bell!Marks]
    BY <1>0, <1>7
  <2>2. PollsOfThen'
    BY <1>0, <1>7 DEF PollsOfThen
  <2>. QED
    BY <1>0, <1>q, <1>7, <2>1, <2>2
<1>8. ASSUME NEW s \in Bell!Slots, NEW id \in Bell!Ids \cup {Bell!All}, Bell!Click(s, id)
      PROVE  BellTypes'
  <2>1. [step |-> "asked", id |-> id] \in Bell!Marks
    BY DEF Bell!Marks
  <2>. QED
    BY <1>0, <1>7, <1>8, <2>1 DEF Bell!Click
<1>9. ASSUME NEW s \in Bell!Slots, Bell!mark_read(s)
      PROVE  BellTypes'
  <2>1. /\ [marks[s] EXCEPT !.step = "done"] \in Bell!Marks
        /\ marks' = [marks EXCEPT ![s] = [marks[s] EXCEPT !.step = "done"]]
        /\ unread' \subseteq unread
        /\ UNCHANGED <<created, shown, is_read, panel, polls, lost>>
    BY <1>0, <1>m, <1>9 DEF Bell!mark_read
  <2>. QED
    BY <1>0, <1>7, <2>1
<1>10. ASSUME NEW s \in Bell!Slots, Bell!markRead(s) \/ Bell!MarkLost(s)
       PROVE  BellTypes'
  <2>1. /\ marks' = [marks EXCEPT ![s] = None] /\ UNCHANGED <<created, shown, polls, unread>>
        /\ is_read' \subseteq shown
    BY <1>0, <1>10 DEF Bell!markRead, Bell!MarkLost, Bell!AfterMark
  <2>2. panel' \in BOOLEAN
    BY <1>0, <1>10, Zenon DEF Bell!markRead, Bell!MarkLost, Bell!AfterMark
  <2>3. lost' \in 0..MaxLost
    BY <1>0, <1>10 DEF Bell!markRead, Bell!MarkLost
  <2>. QED
    BY <1>0, <1>7, <1>n, <2>1, <2>2, <2>3
<1>. QED
  BY <1>1, <1>2, <1>4, <1>5, <1>6, <1>8, <1>9, <1>10 DEF Bell!Next

-----------------------------------------------------------------------------
\* The import of a link starts well typed,
LEMMA LinkTypesInit ==
  ASSUME Link!Init
  PROVE  Link!TypeOK
<1>1. {shown, importing, importError} \subseteq BOOLEAN
  BY DEF Link!Init
<1>. QED
  BY <1>1 DEF Link!Init, Link!TypeOK

\* an import that changes keeps its number,
LEMMA LinkTypesPut ==
  ASSUME Link!TypeOK, NEW m \in imports, NEW n \in Link!Imports, n.id = m.id, Link!Put(m, n)
  PROVE  imports' \subseteq Link!Imports /\ \A x, y \in imports' : x.id = y.id => x = y
BY DEF Link!TypeOK, Link!Put

\* and a new one has a number of its own.
LEMMA LinkTypesStep ==
  ASSUME Link!TypeOK, Link!Next
  PROVE  Link!TypeOK'
<1>0. /\ MaxTicks \in Nat /\ {shown, importing, importError} \subseteq BOOLEAN
      /\ imports \subseteq Link!Imports /\ \A m, n \in imports : m.id = n.id => m = n
  BY BoundsAssumption DEF Link!TypeOK
<1>q. ASSUME {shown', importing', importError'} \subseteq BOOLEAN,
             imports' \subseteq Link!Imports, \A x, y \in imports' : x.id = y.id => x = y
      PROVE  Link!TypeOK'
  BY <1>q DEF Link!TypeOK
<1>e. ASSUME NEW m \in imports
      PROVE  /\ m \in Link!Imports /\ m.ticks \in 0..MaxTicks /\ m.here \in BOOLEAN
             /\ \A p \in {"request", "poll"}, j \in {"running", "completed", "failed", "abandoned"},
                   o \in BOOLEAN, k \in 0..MaxTicks, h \in BOOLEAN :
                  LET n == [id |-> m.id, pc |-> p, job |-> j, open |-> o, ticks |-> k,
                            here |-> h]
                  IN n \in Link!Imports /\ n.id = m.id
             /\ m = [id |-> m.id, pc |-> m.pc, job |-> m.job, open |-> m.open,
                     ticks |-> m.ticks, here |-> m.here]
  BY <1>0 DEF Link!Imports
<1>1. CASE Link!handleImportLink
  <2>1. PICK i \in Link!Unused :
          imports' = imports \cup {[id |-> i, pc |-> "request", job |-> "running",
                                    open |-> TRUE, ticks |-> 0, here |-> TRUE]}
    BY <1>1 DEF Link!handleImportLink
  <2>. DEFINE new == [id |-> i, pc |-> "request", job |-> "running",
                      open |-> TRUE, ticks |-> 0, here |-> TRUE]
  <2>2. new \in Link!Imports /\ new.id = i /\ \A m \in imports : m.id # i
    BY <1>0, <2>1 DEF Link!Imports, Link!Unused
  <2>3. imports' = imports \cup {new}
    BY <2>1
  <2>. HIDE DEF new
  <2>4. imports' \subseteq Link!Imports /\ \A x, y \in imports' : x.id = y.id => x = y
    BY <1>0, <2>2, <2>3
  <2>. QED
    BY <1>0, <1>1, <1>q, <2>4 DEF Link!handleImportLink
<1>2. CASE Link!Leave \/ Link!Return
  <2>. DEFINE gone(m) == [m EXCEPT !.here = FALSE]
  <2>1. /\ {shown', importing', importError'} \subseteq BOOLEAN
        /\ imports' \in {imports, {gone(m) : m \in imports}}
    BY <1>0, <1>2 DEF Link!Leave, Link!Return
  <2>2. \A m \in imports : gone(m) \in Link!Imports /\ gone(m).id = m.id
    BY <1>0 DEF Link!Imports
  <2>3. imports' \subseteq Link!Imports /\ \A x, y \in imports' : x.id = y.id => x = y
    <3>1. CASE imports' = imports
      BY <1>0, <3>1
    <3>2. CASE imports' = {gone(m) : m \in imports}
      <4>. HIDE DEF gone
      <4>1. \A x \in imports' : \E m \in imports : x = gone(m)
        BY <3>2
      <4>. QED
        BY <1>0, <2>2, <4>1
    <3>. QED
      BY <2>1, <3>1, <3>2
  <2>. QED
    BY <1>q, <2>1, <2>3
<1>3. ASSUME NEW m \in imports, NEW n \in Link!Imports, n.id = m.id, Link!Put(m, n),
             importing' \in {importing, FALSE}, importError' \in {importError, TRUE},
             shown' = shown
      PROVE  Link!TypeOK'
  BY <1>0, <1>3, <1>q, LinkTypesPut
<1>4. ASSUME NEW m \in imports, Link!Accepted(m)
      PROVE  Link!TypeOK'
  <2>1. [m EXCEPT !.pc = "poll"] \in Link!Imports /\ [m EXCEPT !.pc = "poll"].id = m.id
    BY <1>0 DEF Link!Imports
  <2>. QED
    BY <1>3, <1>4, <2>1 DEF Link!Accepted
<1>5. ASSUME NEW m \in imports, Link!Refused(m)
      PROVE  Link!TypeOK'
  <2>1. {shown', importing', importError'} \subseteq BOOLEAN
    BY <1>0, <1>5 DEF Link!Refused, Link!SetImporting, Link!SetError
  <2>. QED
    BY <1>0, <1>5, <1>q, <2>1 DEF Link!Refused
<1>6. ASSUME NEW m \in imports, Link!Tick(m)
      PROVE  Link!TypeOK'
  <2>1. m.ticks + 1 \in 0..MaxTicks
    BY <1>0, <1>e, <1>6 DEF Link!Tick
  <2>2. [m EXCEPT !.ticks = @ + 1] \in Link!Imports /\ [m EXCEPT !.ticks = @ + 1].id = m.id
    BY <1>0, <2>1 DEF Link!Imports
  <2>. QED
    BY <1>3, <1>6, <2>2 DEF Link!Tick
<1>7. ASSUME NEW m \in imports, Link!JobEnds(m) \/ Link!JobAbandoned(m)
      PROVE  Link!TypeOK'
  <2>1. \A end \in {"completed", "failed", "abandoned"} :
          [m EXCEPT !.job = end] \in Link!Imports /\ [m EXCEPT !.job = end].id = m.id
    BY <1>0 DEF Link!Imports
  <2>. QED
    BY <1>3, <1>7, <2>1 DEF Link!JobEnds, Link!JobAbandoned
<1>8. ASSUME NEW m \in imports, Link!Answer(m)
      PROVE  Link!TypeOK'
  <2>1. m.ticks > 0 /\ m.ticks - 1 \in 0..MaxTicks
    <3>1. m.ticks > 0
      BY <1>8 DEF Link!Answer, Link!StillRunning, Link!PolledRunning, Link!PolledEnd, Link!PollFailed
    <3>2. m.ticks \in 0..MaxTicks
      BY <1>e
    <3>. QED
      BY <1>0, <3>1, <3>2
  <2>. DEFINE n == [m EXCEPT !.ticks = @ - 1]
              o == [m EXCEPT !.ticks = @ - 1, !.open = FALSE]
  <2>2. n \in Link!Imports /\ n.id = m.id
    BY <1>0, <2>1 DEF Link!Imports
  <2>3. o \in Link!Imports /\ o.id = m.id
    <3>1. o = [n EXCEPT !.open = FALSE]
      BY <1>0 DEF Link!Imports
    <3>2. [n EXCEPT !.open = FALSE] \in Link!Imports /\ [n EXCEPT !.open = FALSE].id = n.id
      BY <2>2 DEF Link!Imports
    <3>. QED
      BY <2>2, <3>1, <3>2
  <2>4. Link!Put(m, n) \/ Link!Put(m, o)
    BY <1>8 DEF Link!Answer, Link!StillRunning, Link!PolledRunning, Link!PolledEnd, Link!PollFailed
  <2>5. /\ importing' \in {importing, FALSE} /\ importError' \in {importError, TRUE}
        /\ shown' = shown
    BY <1>8 DEF Link!Answer, Link!StillRunning, Link!PolledRunning, Link!PolledEnd, Link!PollFailed,
       Link!SetImporting, Link!SetError
  <2>. HIDE DEF n, o
  <2>. QED
    BY <1>3, <2>2, <2>3, <2>4, <2>5
<1>. QED
  BY <1>1, <1>2, <1>4, <1>5, <1>6, <1>7, <1>8 DEF Link!Next

-----------------------------------------------------------------------------
\* The address field starts well typed,
LEMMA AddressTypesInit ==
  ASSUME Address!Init
  PROVE  Address!TypeOK
<1>0. {MaxTyped, MaxSelected} \subseteq Nat
  BY BoundsAssumption
<1>1. Address!Cardinality(Fields) \in Nat
  BY BoundsAssumption, FS_CardinalityType DEF Address!Cardinality, Cardinality
<1>2. {isOpen, lookingUp, raced} \subseteq BOOLEAN
  BY DEF Address!Init
<1>3. places \in [Fields -> {"new", "waiting", "plain", "ready", "gone"}]
  BY DEF Address!Init
<1>. QED
  BY <1>0, <1>1, <1>2, <1>3 DEF Address!Init, Address!TypeOK, Address!Queries

\* and stays so: there is a script on the page only if there is a field that asked for it.
LEMMA AddressTypesStep ==
  ASSUME Address!TypeOK, AddressInv, AddressOnly(Address!Next)
  PROVE  Address!TypeOK'
<1>. USE DEF Address!loaderVars, Address!fieldVars, Address!formVars, Address!lookupVars,
             Address!typingVars
<1>. DEFINE Stages == {"new", "waiting", "plain", "ready", "gone"}
            Scripts == {"none", "loading", "loaded", "bare"}
            Entered == Values \cup {None}
            fields == Address!Cardinality(Fields)
<1>0. /\ screen = "address" /\ Address!Next /\ MaxTyped \in Nat /\ MaxSelected \in Nat
      /\ fields \in Nat /\ tags = IF script = "loading" THEN 1 ELSE 0
  BY BoundsAssumption, FS_CardinalityType DEF AddressOnly, AddressInv, Address!Cardinality,
     Cardinality
<1>t. /\ script \in Scripts /\ tags \in 0..fields /\ loadCallbacks \subseteq Fields
      /\ places \in [Fields -> Stages]
      /\ query \in Address!Queries /\ timer \in Streets \cup {None} /\ asked \subseteq Streets
      /\ predictions \in Streets \cup {None} /\ {isOpen, lookingUp, raced} \subseteq BOOLEAN
      /\ street \in Address!Queries
      /\ {unit, price, typedUnit, typedPrice} \subseteq Entered
      /\ details \subseteq Address!Captured /\ lookups \subseteq Address!Captured
      /\ selected \in 0..MaxSelected /\ typed \in 0..MaxTyped
  BY DEF Address!TypeOK
<1>q. ASSUME script' \in Scripts, tags' \in 0..fields, loadCallbacks' \subseteq Fields,
             places' \in [Fields -> Stages],
             query' \in Address!Queries, timer' \in Streets \cup {None}, asked' \subseteq Streets,
             predictions' \in Streets \cup {None},
             {isOpen', lookingUp', raced'} \subseteq BOOLEAN,
             street' \in Address!Queries,
             {unit', price', typedUnit', typedPrice'} \subseteq Entered,
             details' \subseteq Address!Captured, lookups' \subseteq Address!Captured,
             selected' \in 0..MaxSelected, typed' \in 0..MaxTyped
      PROVE  Address!TypeOK'
  BY <1>q DEF Address!TypeOK
<1>s. /\ Address!Short \in Address!Queries /\ Streets \subseteq Address!Queries
      /\ \A q \in Address!Queries : q # Address!Short => q \in Streets
  BY DEF Address!Queries
<1>b. Address!Blank => /\ query' \in Address!Queries /\ timer' \in Streets \cup {None}
                       /\ asked' \subseteq Streets /\ predictions' \in Streets \cup {None}
                       /\ isOpen' = FALSE
  BY <1>s DEF Address!Blank
<1>c. \A d \in Address!Captured : /\ d.query \in Address!Queries /\ d.unit \in Entered
                                  /\ d.price \in Entered
  BY DEF Address!Captured
<1>1. ASSUME NEW f \in Fields, Address!Mount(f)
      PROVE  Address!TypeOK'
  <2>1. fields >= 1
    <3>1. Cardinality(Fields) # 0 /\ Cardinality(Fields) \in Nat
      BY BoundsAssumption, FS_EmptySet, FS_CardinalityType
    <3>2. Cardinality(Fields) = fields
      BY DEF Address!Cardinality, Cardinality
    <3>. QED
      BY <3>1, <3>2
  <2>2. script' \in Scripts /\ tags' \in 0..fields /\ loadCallbacks' \subseteq Fields
    BY <1>0, <1>1, <1>t, <2>1 DEF Address!Mount, Address!loadGoogleMapsScript
  <2>3. places' \in [Fields -> Stages]
    BY <1>1, <1>t DEF Address!Mount, Address!loadGoogleMapsScript
  <2>. QED
    BY <1>1, <1>b, <1>q, <1>t, <2>2, <2>3 DEF Address!Mount
<1>2. ASSUME NEW f \in Fields, Address!Unmount(f)
      PROVE  Address!TypeOK'
  <2>1. places' \in [Fields -> Stages]
    BY <1>2, <1>t DEF Address!Unmount
  <2>. QED
    BY <1>2, <1>b, <1>q, <1>t, <2>1 DEF Address!Unmount
<1>3. CASE Address!onerror \/ \E library \in BOOLEAN : Address!onload(library)
  <2>1. PICK library \in BOOLEAN : Address!Resolve(library)
    BY <1>3 DEF Address!onerror, Address!onload
  <2>2. places' \in [Fields -> Stages] /\ loadCallbacks' = {}
    BY <1>t, <2>1 DEF Address!Resolve
  <2>3. script' \in Scripts /\ tags > 0 /\ tags' = tags - 1
    BY <1>3 DEF Address!onerror, Address!onload
  <2>4. tags' \in 0..fields
    BY <1>0, <1>t, <2>3
  <2>5. UNCHANGED <<query, timer, asked, predictions, isOpen, street, unit, price, details,
                    lookups, lookingUp, selected, typed, typedUnit, typedPrice, raced>>
    BY <1>3 DEF Address!onerror, Address!onload
  <2>. QED
    BY <1>q, <1>t, <2>2, <2>3, <2>4, <2>5
<1>4. ASSUME NEW q \in Address!Queries, Address!setQuery(q)
      PROVE  Address!TypeOK'
  <2>1. /\ query' = q /\ street' = q /\ timer' \in Streets \cup {None}
        /\ predictions' \in {predictions, None} /\ isOpen' \in {isOpen, FALSE}
    BY <1>4, <1>s DEF Address!setQuery, Address!QueryEffect
  <2>2. {isOpen', lookingUp', raced'} \subseteq BOOLEAN
    BY <1>4, <1>t, <2>1 DEF Address!setQuery
  <2>. QED
    BY <1>4, <1>q, <1>t, <2>1, <2>2 DEF Address!setQuery
<1>5. CASE Address!AskPredictions
  BY <1>5, <1>q, <1>t DEF Address!AskPredictions
<1>6. ASSUME NEW q \in asked, NEW ok \in BOOLEAN, Address!Predicted(q, ok)
      PROVE  Address!TypeOK'
  BY <1>6, <1>q, <1>t DEF Address!Predicted
<1>7. CASE Address!dismiss
  BY <1>7, <1>q, <1>t DEF Address!dismiss
<1>8. CASE Address!selectPlace
  <2>1. selected' \in 0..MaxSelected
    BY <1>0, <1>8, <1>t DEF Address!selectPlace
  <2>2. [query |-> query, unit |-> unit, price |-> price] \in Address!Captured
    BY <1>t DEF Address!Captured
  <2>. QED
    BY <1>8, <1>q, <1>t, <2>1, <2>2 DEF Address!selectPlace
<1>9. ASSUME NEW d \in details, NEW s \in Streets \cup {None}, Address!AddressSelected(d, s)
      PROVE  Address!TypeOK'
  <2>1. d \in Address!Captured /\ d.query \in Address!Queries /\ d.unit \in Entered
    BY <1>c, <1>t
  <2>2. /\ details' = details \ {d} /\ lookups' = lookups \cup {d} /\ lookingUp' = TRUE
        /\ street' \in {s, d.query} /\ (s = None => street' = d.query) /\ unit' = d.unit
        /\ UNCHANGED <<script, tags, loadCallbacks, places, price, selected, typed, typedUnit,
                       typedPrice, raced>>
    BY <1>9 DEF Address!AddressSelected
  <2>3. street' \in Address!Queries
    BY <1>s, <2>1, <2>2
  <2>4. /\ query' \in Address!Queries /\ timer' \in Streets \cup {None} /\ asked' \subseteq Streets
        /\ predictions' \in Streets \cup {None} /\ isOpen' \in {isOpen, FALSE}
    BY <1>9, <1>s, <1>t DEF Address!AddressSelected
  <2>5. {isOpen', lookingUp', raced'} \subseteq BOOLEAN
    BY <1>t, <2>2, <2>4
  <2>. QED
    BY <1>q, <1>t, <2>1, <2>2, <2>3, <2>4, <2>5
<1>10. ASSUME NEW l \in lookups, NEW ok \in BOOLEAN, Address!LookedUp(l, ok)
       PROVE  Address!TypeOK'
  <2>1. price' \in Entered
    BY <1>10, <1>c, <1>t DEF Address!LookedUp
  <2>. QED
    BY <1>10, <1>q, <1>t, <2>1 DEF Address!LookedUp
<1>11. ASSUME NEW v \in Values, Address!setAddress(v) \/ Address!setMeta(v)
       PROVE  Address!TypeOK'
  <2>1. typed' \in 0..MaxTyped
    BY <1>0, <1>11, <1>t DEF Address!setAddress, Address!setMeta
  <2>2. {isOpen', lookingUp', raced'} \subseteq BOOLEAN
    <3>1. raced' = Address!Racing /\ UNCHANGED <<isOpen, lookingUp>>
      BY <1>11 DEF Address!setAddress, Address!setMeta
    <3>2. Address!Racing \in BOOLEAN
      BY DEF Address!Racing
    <3>. QED
      BY <1>t, <3>1, <3>2, Zenon
  <2>3. {unit', price', typedUnit', typedPrice'} \subseteq Entered
    BY <1>11, <1>t DEF Address!setAddress, Address!setMeta
  <2>4. UNCHANGED <<script, tags, loadCallbacks, places, query, timer, asked, predictions,
                    street, details, lookups, selected>>
    BY <1>11 DEF Address!setAddress, Address!setMeta
  <2>. QED
    BY <1>q, <1>t, <2>1, <2>2, <2>3, <2>4
<1>. QED
  BY <1>0, <1>1, <1>2, <1>3, <1>4, <1>5, <1>6, <1>7, <1>8, <1>9, <1>10, <1>11
     DEF Address!Next

-----------------------------------------------------------------------------
\* A question has three messages at most: itself, its answer and the error that broke it
\* off.  Those that may still come to the question being answered count.
StillToCome == IF stream = None THEN 0 ELSE IF stream.stage = "asked" THEN 2 ELSE 1
ThreeToAQuestion == Len(messages) + StillToCome <= 3 * questions
ChatKept == Chat!TypeOK /\ ThreeToAQuestion

\* The chat starts well typed,
LEMMA ChatKeptInit ==
  ASSUME Chat!Init
  PROVE  ChatKept
<1>0. {MaxQuestions, MaxClears, MaxRatings} \subseteq Nat
  BY BoundsAssumption
<1>1. {isOpen, isStreaming} \subseteq BOOLEAN
  BY DEF Chat!Init
<1>2. messages = <<>> /\ asked = <<>> /\ stream = None /\ questions = 0
  BY DEF Chat!Init
<1>3. Chat!TypeOK
  <2>1. messages \in Seq(Chat!Messages) /\ asked \in Seq(Chat!Questions) /\ Len(messages) = 0
    BY <1>2, EmptySeq, Zenon
  <2>2. {sessionId, stored} \subseteq Chat!Sessions \cup {None}
    BY Zenon DEF Chat!Init, Chat!Sessions
  <2>3. assistantText \in Chat!Contents /\ cleared = 0 /\ ratings = 0
    BY Zenon DEF Chat!Init, Chat!Contents
  <2>4. 0 <= 3 * MaxQuestions /\ 0 \in 0..MaxQuestions /\ 0 \in 0..MaxClears /\ 0 \in 0..MaxRatings
    BY <1>0
  <2>. QED
    BY <1>1, <1>2, <2>1, <2>2, <2>3, <2>4, Zenon DEF Chat!TypeOK
<1>4. ThreeToAQuestion
  BY <1>2, EmptySeq DEF ThreeToAQuestion, StillToCome
<1>. QED
  BY <1>3, <1>4 DEF ChatKept

\* and stays so, with what ChatInv says of it.
LEMMA ChatKeptStep ==
  ASSUME ChatKept, ChatInv, ChatInv', ChatOnly(Chat!Next)
  PROVE  ChatKept'
<1>. USE DEF Chat!streamVars, Chat!historyVars
<1>. DEFINE Names == Chat!Sessions \cup {None}
<1>0. /\ screen = "chat" /\ screen' = screen /\ Chat!Next
      /\ MaxQuestions \in Nat /\ MaxClears \in Nat /\ MaxRatings \in Nat
      /\ {isOpen, isStreaming} \subseteq BOOLEAN /\ {sessionId, stored} \subseteq Names
      /\ questions \in 0..MaxQuestions /\ cleared \in 0..MaxClears /\ ratings \in 0..MaxRatings
      /\ ThreeToAQuestion /\ (~isStreaming => stream = None)
  BY BoundsAssumption DEF ChatOnly, ChatKept, Chat!TypeOK, ChatInv
<1>t. /\ messages \in Seq(Chat!Messages) /\ Len(messages) \in Nat
      /\ messages' \in Seq(Chat!Messages) /\ Len(messages') \in Nat
      /\ isStreaming' \in BOOLEAN /\ asked' \in Seq(Chat!Questions)
      /\ stream' \in [q : Chat!Questions, stage : Chat!Stages] \cup {None}
      /\ assistantText' \in Chat!Contents
  <2>1. ChatTypes /\ ChatTypes'
    BY <1>0 DEF ChatInv
  <2>. QED
    BY <2>1, LenProperties DEF ChatTypes
<1>q. ASSUME isOpen' \in BOOLEAN, {sessionId', stored'} \subseteq Names,
             questions' \in 0..MaxQuestions, cleared' \in 0..MaxClears,
             ratings' \in 0..MaxRatings, ThreeToAQuestion'
      PROVE  ChatKept'
  <2>1. StillToCome' \in 0..2
    BY DEF StillToCome
  <2>2. Len(messages)' <= 3 * MaxQuestions
    <3>1. \A len, left, n : /\ len \in Nat /\ left \in 0..2 /\ n \in 0..MaxQuestions
                            /\ len + left <= 3 * n
                            => len <= 3 * MaxQuestions
      BY <1>0
    <3>2. Len(messages') + StillToCome' <= 3 * questions'
      BY <1>q DEF ThreeToAQuestion
    <3>. QED
      BY <1>q, <1>t, <2>1, <3>1, <3>2, Zenon
  <2>. QED
    BY <1>q, <1>t, <2>2 DEF ChatKept, Chat!TypeOK
<1>c. StillToCome \in 0..2
  BY DEF StillToCome
<1>d. ASSUME DOMAIN messages' = DOMAIN messages
      PROVE  Len(messages') = Len(messages)
  <2>1. 1..Len(messages') = 1..Len(messages)
    BY <1>d, <1>t
  <2>. QED
    BY <1>t, <2>1
<1>a. \A m : Len(Append(messages, m)) = Len(messages) + 1
  BY <1>t
<1>r. \A c : DOMAIN Chat!Replaced(c) = DOMAIN messages
  BY DEF Chat!Replaced
<1>1. CASE Chat!ToggleOpen
  <2>1. /\ isOpen' \in BOOLEAN /\ UNCHANGED <<messages, sessionId, stored, stream, questions,
                                              cleared, ratings>>
    BY <1>1 DEF Chat!ToggleOpen
  <2>. QED
    BY <1>0, <1>q, <2>1 DEF ThreeToAQuestion, StillToCome
<1>2. ASSUME NEW q \in Chat!Questions, Chat!sendMessage(q)
      PROVE  ChatKept'
  <2>1. /\ questions' = questions + 1 /\ questions' \in 1..MaxQuestions
        /\ messages' = Append(messages, Chat!Message("user", q, "text"))
        /\ UNCHANGED <<isOpen, sessionId, stored, cleared, ratings>>
    BY <1>2 DEF Chat!sendMessage, Chat!Questions
  <2>2. stream = None
    BY <1>0, <1>2 DEF Chat!sendMessage, Chat!InputForm
  <2>3. Len(messages') = Len(messages) + 1 /\ StillToCome = 0 /\ StillToCome' \in 0..2
    BY <1>a, <2>1, <2>2 DEF StillToCome
  <2>4. ThreeToAQuestion'
    BY <1>0, <1>t, <2>1, <2>3 DEF ThreeToAQuestion
  <2>. QED
    BY <1>0, <1>q, <2>1, <2>4
<1>3. CASE Chat!Refused \/ Chat!Responded
  <2>1. /\ \E m : messages' = Append(messages, m)
        /\ stream # None /\ stream.stage = "asked"
        /\ UNCHANGED <<isOpen, sessionId, stored, questions, cleared, ratings>>
    BY <1>3 DEF Chat!Refused, Chat!Responded
  <2>2. StillToCome = 2 /\ StillToCome' \in 0..1
    <3>1. stream' = None \/ stream' = [stream EXCEPT !.stage = "open"]
      BY <1>3 DEF Chat!Refused, Chat!Responded
    <3>2. stream \in [q : Chat!Questions, stage : Chat!Stages]
      BY <1>0, <2>1 DEF ChatInv, ChatTypes
    <3>3. stream' # None => stream'.stage = "open"
      BY <3>1, <3>2
    <3>. QED
      BY <2>1, <3>3 DEF StillToCome
  <2>3. ThreeToAQuestion'
    BY <1>0, <1>a, <1>t, <2>1, <2>2 DEF ThreeToAQuestion
  <2>. QED
    BY <1>0, <1>q, <2>1, <2>3
<1>4. CASE Chat!SessionEvent
  <2>1. /\ sessionId' = "server" /\ stored' = "server"
        /\ UNCHANGED <<isOpen, messages, stream, questions, cleared, ratings>>
    BY <1>4 DEF Chat!SessionEvent
  <2>. QED
    BY <1>0, <1>q, <2>1 DEF ThreeToAQuestion, StillToCome, Chat!Sessions
<1>5. ASSUME NEW c, NEW stage \in {"open", "done"}, Chat!TextEvent(c, stage)
      PROVE  ChatKept'
  <2>1. /\ DOMAIN messages' = DOMAIN messages
        /\ stream # None /\ stream.stage = "open" /\ stream' = [stream EXCEPT !.stage = stage]
        /\ UNCHANGED <<isOpen, sessionId, stored, questions, cleared, ratings>>
    BY <1>5, <1>r DEF Chat!TextEvent
  <2>2. StillToCome = 1 /\ StillToCome' \in 0..1
    <3>1. stream \in [q : Chat!Questions, stage : Chat!Stages]
      BY <1>0, <2>1 DEF ChatInv, ChatTypes
    <3>2. stream'.stage = stage
      BY <2>1, <3>1
    <3>. QED
      BY <2>1, <3>2 DEF StillToCome
  <2>3. ThreeToAQuestion'
    BY <1>0, <1>d, <1>t, <2>1, <2>2 DEF ThreeToAQuestion
  <2>. QED
    BY <1>0, <1>q, <2>1, <2>3
<1>6. CASE Chat!StreamEnded
  <2>1. stream' = None /\ UNCHANGED <<isOpen, messages, sessionId, stored, questions, cleared,
                                      ratings>>
    BY <1>6 DEF Chat!StreamEnded
  <2>2. StillToCome' = 0
    BY <2>1 DEF StillToCome
  <2>3. ThreeToAQuestion'
    BY <1>0, <1>c, <1>t, <2>1, <2>2 DEF ThreeToAQuestion
  <2>. QED
    BY <1>0, <1>q, <2>1, <2>3
<1>7. CASE Chat!Broken
  <2>1. /\ stream # None /\ stream' = None
        /\ DOMAIN messages' = DOMAIN messages \/ \E m : messages' = Append(messages, m)
        /\ UNCHANGED <<isOpen, sessionId, stored, questions, cleared, ratings>>
    BY <1>7, <1>r DEF Chat!Broken
  <2>2. StillToCome' = 0 /\ StillToCome \in 1..2
    BY <2>1 DEF StillToCome
  <2>3. Len(messages') \in {Len(messages), Len(messages) + 1}
    BY <1>a, <1>d, <2>1
  <2>4. ThreeToAQuestion'
    BY <1>0, <1>t, <2>1, <2>2, <2>3 DEF ThreeToAQuestion
  <2>. QED
    BY <1>0, <1>q, <2>1, <2>4
<1>8. CASE Chat!clearChat
  <2>1. /\ messages' = <<>> /\ cleared < MaxClears /\ cleared' = cleared + 1
        /\ sessionId' = "fresh" /\ stored' = "fresh"
        /\ UNCHANGED <<isOpen, stream, questions, ratings>>
    BY <1>8 DEF Chat!clearChat
  <2>2. Len(messages') = 0 /\ StillToCome' = StillToCome /\ cleared' \in 0..MaxClears
    BY <1>0, <2>1, EmptySeq DEF StillToCome
  <2>3. ThreeToAQuestion'
    BY <1>0, <1>c, <1>t, <2>1, <2>2 DEF ThreeToAQuestion
  <2>. QED
    BY <1>0, <1>q, <2>1, <2>2, <2>3 DEF Chat!Sessions
<1>9. ASSUME NEW i \in 1..(3 * MaxQuestions), NEW r \in {"up", "down"}, Chat!sendFeedback(i, r)
      PROVE  ChatKept'
  <2>1. /\ DOMAIN messages' = DOMAIN messages /\ ratings < MaxRatings /\ ratings' = ratings + 1
        /\ UNCHANGED <<isOpen, sessionId, stored, stream, questions, cleared>>
    BY <1>9 DEF Chat!sendFeedback
  <2>2. Len(messages') = Len(messages) /\ StillToCome' = StillToCome /\ ratings' \in 0..MaxRatings
    BY <1>0, <1>d, <2>1 DEF StillToCome
  <2>3. ThreeToAQuestion'
    BY <1>0, <2>1, <2>2 DEF ThreeToAQuestion
  <2>. QED
    BY <1>0, <1>q, <2>1, <2>2, <2>3
<1>10. CASE Chat!text \/ Chat!errorEvent \/ Chat!done
  BY <1>5, <1>10 DEF Chat!text, Chat!errorEvent, Chat!done
<1>. QED
  BY <1>0, <1>1, <1>2, <1>3, <1>4, <1>6, <1>7, <1>8, <1>9, <1>10 DEF Chat!Next

\* The types of the component on screen, with the counts that bound them.
PagesTypes ==
  /\ screen = "listing" => ListingTypes
  /\ screen = "progress" => Steps!TypeOK
  /\ screen = "review" => Review!TypeOK
  /\ screen = "order" => Order!TypeOK
  /\ screen = "chat" => ChatKept
  /\ screen = "bell" => BellTypes
  /\ screen = "link" => Link!TypeOK
  /\ screen = "address" => Address!TypeOK

\* Every initial state has the types of the component on screen.
LEMMA PagesTypesInit ==
  ASSUME Init, PagesInv
  PROVE  PagesTypes
<1>1. CASE ListingInit
  BY <1>1, ListingTypesInit DEF ListingInit, PagesTypes
<1>2. CASE StepsInit
  BY <1>2, StepsTypesInit DEF StepsInit, PagesTypes
<1>3. CASE ReviewInit
  BY <1>3, ReviewTypesInit DEF ReviewInit, PagesTypes
<1>4. CASE OrderInit
  BY <1>4, OrderTypesInit DEF OrderInit, PagesTypes, PagesInv
<1>5. CASE ChatInit
  BY <1>5, ChatKeptInit DEF ChatInit, PagesTypes
<1>6. CASE BellInit
  BY <1>6, BellTypesInit DEF BellInit, PagesTypes
<1>7. CASE LinkInit
  BY <1>7, LinkTypesInit DEF LinkInit, PagesTypes
<1>8. CASE AddressInit
  BY <1>8, AddressTypesInit DEF AddressInit, PagesTypes
<1>. QED
  BY <1>1, <1>2, <1>3, <1>4, <1>5, <1>6, <1>7, <1>8 DEF Init

\* A step of the page on screen keeps its types; the other pages hold nothing.
LEMMA PagesTypesStep ==
  ASSUME PagesInv, PagesInv', PagesTypes, [Next]_vars
  PROVE  PagesTypes'
<1>1. CASE ListingOnly(Listing!Next)
  BY <1>1, ListingTypesStep DEF ListingOnly, PagesTypes
<1>2. CASE StepsOnly(Steps!Next)
  BY <1>2, StepsTypesStep DEF StepsOnly, PagesTypes
<1>3. CASE ReviewOnly(Review!Next)
  BY <1>3, ReviewTypesStep DEF ReviewOnly, PagesTypes
<1>4. CASE OrderOnly(Order!Next)
  <2>1. screen = "order" /\ screen' = screen
    BY <1>4 DEF OrderOnly
  <2>2. Order!TypeOK'
    BY <1>4, <2>1, OrderTypesStep DEF PagesInv, PagesTypes
  <2>. QED
    BY <2>1, <2>2 DEF PagesTypes
<1>5. CASE ChatOnly(Chat!Next)
  <2>1. screen = "chat" /\ screen' = screen
    BY <1>5 DEF ChatOnly
  <2>2. ChatKept'
    BY <1>5, <2>1, ChatKeptStep DEF PagesInv, PagesTypes
  <2>. QED
    BY <2>1, <2>2 DEF PagesTypes
<1>6. CASE BellOnly(Bell!Next)
  BY <1>6, BellTypesStep DEF BellOnly, PagesTypes
<1>7. CASE LinkOnly(Link!Next)
  BY <1>7, LinkTypesStep DEF LinkOnly, PagesTypes
<1>8. CASE AddressOnly(Address!Next)
  <2>1. screen = "address" /\ screen' = screen
    BY <1>8 DEF AddressOnly
  <2>2. Address!TypeOK'
    BY <1>8, <2>1, AddressTypesStep DEF PagesInv, PagesTypes
  <2>. QED
    BY <2>1, <2>2 DEF PagesTypes
<1>9. CASE UNCHANGED vars
  <2>0. screen' = screen
    BY <1>9 DEF vars
  <2>1. ListingTypes => ListingTypes'
    BY <1>9 DEF vars, listingVars, ListingTypes, Listing!TypeOK, ErrorsCounted
  <2>2. Steps!TypeOK => Steps!TypeOK'
    BY <1>9 DEF vars, progressVars, Steps!TypeOK
  <2>3. Review!TypeOK => Review!TypeOK'
    BY <1>9 DEF vars, reviewVars, Review!TypeOK
  <2>4. Order!TypeOK => Order!TypeOK'
    BY <1>9 DEF vars, orderVars, Order!TypeOK
  <2>5. ChatKept => ChatKept'
    BY <1>9 DEF vars, chatVars, ChatKept, Chat!TypeOK, ThreeToAQuestion, StillToCome
  <2>6. BellTypes => BellTypes'
    BY <1>9 DEF vars, bellVars, BellTypes, Bell!TypeOK, PollsOfThen
  <2>7. Link!TypeOK => Link!TypeOK'
    BY <1>9 DEF vars, linkVars, Link!TypeOK
  <2>8. Address!TypeOK => Address!TypeOK'
    BY <1>9 DEF vars, addressVars, Address!TypeOK
  <2>. QED
    BY <2>0, <2>1, <2>2, <2>3, <2>4, <2>5, <2>6, <2>7, <2>8 DEF PagesTypes
<1>. QED
  BY <1>1, <1>2, <1>3, <1>4, <1>5, <1>6, <1>7, <1>8, <1>9, Zenon DEF Next

\* Whatever the page on screen does, and whatever the server answers or leaves unanswered,
\* its variables keep their types, for any number of photos, fields, questions and requests:
\* the errors of the stream stay within the attempts it makes, a poll returns only
\* notifications that existed when it was sent, and the chat holds at most three messages
\* for each question.
THEOREM PagesWellTyped == Spec => []TypeOK
<1>1. Init /\ PagesInv => PagesTypes
  BY PagesTypesInit
<1>2. PagesInv /\ PagesInv' /\ PagesTypes /\ [Next]_vars => PagesTypes'
  BY PagesTypesStep
<1>3. PagesTypes => TypeOK
  BY DEF PagesTypes, TypeOK, ListingTypes, ChatKept, BellTypes
<1>. QED
  BY <1>1, <1>2, <1>3, PagesInvariant, PTL DEF Spec
=============================================================================
