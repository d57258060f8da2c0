------------------------------ MODULE AuditTab ------------------------------
(***************************************************************************)
(* The administrator's view of the audit log: the first entries of a       *)
(* filter, newest first, and more of them by their offset, while the log   *)
(* grows.  An entry has the time its transaction began, so it may appear   *)
(* below entries that are already there.  The two filters are one, and a   *)
(* read shows what the server has when it ends.                            *)
(***************************************************************************)
EXTENDS Naturals, Sequences, FiniteSets, SequencesExt

CONSTANTS None, Actions, PAGE, MaxEntries, MaxAsked, MaxLost

VARIABLES
  log,                          \* server: newest first
  actionFilter, logs, loading,  \* page
  reads,                        \* requests under way
  asked, lost,                  \* history: counters,
  known, adrift                 \* the entries there when the list was filled; a filter
                                \* changed during a read, or its first read failed

vars == <<log, actionFilter, logs, loading, reads, asked, lost, known, adrift>>

Entries == [n : 1..MaxEntries, action : Actions]
Filters == Actions \cup {None}

TypeOK ==
  /\ log \in Seq(Entries) /\ logs \in Seq(Entries) /\ Len(logs) <= PAGE * MaxAsked
  /\ actionFilter \in Filters /\ {loading, adrift} \subseteq BOOLEAN
  /\ reads \subseteq [n : 1..MaxAsked, op : {"fill", "more"}, of : Filters, offset : Nat]
  /\ asked \in 1..MaxAsked /\ lost \in 0..MaxLost /\ known \subseteq Entries

Init ==
  /\ log = <<>> /\ actionFilter = None /\ logs = <<>> /\ loading = TRUE
  /\ reads = {[n |-> 1, op |-> "fill", of |-> None, offset |-> 0]}
  /\ asked = 1 /\ lost = 0 /\ known = {} /\ adrift = FALSE

-----------------------------------------------------------------------------
\* An administrator's change commits, with the time it began.
audit_log(i, a) ==
  /\ Len(log) < MaxEntries /\ i \in 1..(Len(log) + 1)
  /\ log' = InsertAt(log, i, [n |-> Len(log) + 1, action |-> a])
  /\ UNCHANGED <<actionFilter, logs, loading, reads, asked, lost, known, adrift>>

Matches(e, f) == f = None \/ e.action = f
\* Where the rows of a filter are, and which of them each is.
Rows(f) == {i \in DOMAIN log : Matches(log[i], f)}
Place(i, f) == Cardinality({j \in Rows(f) : j <= i})
Nth(n, f) == CHOOSE i \in Rows(f) : Place(i, f) = n
admin_audit_log(f, offset) ==
  LET left == Cardinality(Rows(f)) - offset
  IN [k \in 1..(IF PAGE < left THEN PAGE ELSE left) |->
        log[Nth(offset + k, f)]]

Ask(op, f, offset) ==
  /\ asked < MaxAsked /\ asked' = asked + 1
  /\ reads' = reads \cup {[n |-> asked + 1, op |-> op, of |-> f, offset |-> offset]}
  /\ loading' = TRUE

\* The list stays as it is until the answer comes.
setActionFilter(f) ==
  /\ f # actionFilter /\ actionFilter' = f
  /\ Ask("fill", f, 0) /\ adrift' = (adrift \/ reads # {})
  /\ UNCHANGED <<log, logs, lost, known>>

Filled(r) ==
  /\ r \in reads /\ r.op = "fill"
  /\ logs' = admin_audit_log(r.of, 0) /\ known' = ToSet(log)
  /\ loading' = FALSE /\ reads' = reads \ {r}
  /\ UNCHANGED <<log, actionFilter, asked, lost, adrift>>

LoadMoreButton == Len(logs) >= PAGE /\ ~loading
loadMore ==
  /\ LoadMoreButton /\ Ask("more", actionFilter, Len(logs))
  /\ UNCHANGED <<log, actionFilter, logs, lost, known, adrift>>

More(r) ==
  /\ r \in reads /\ r.op = "more"
  /\ logs' = logs \o admin_audit_log(r.of, r.offset)
  /\ loading' = FALSE /\ reads' = reads \ {r}
  /\ UNCHANGED <<log, actionFilter, asked, lost, known, adrift>>

\* Only logged; the button is there to try again, a filter is not.
ReadFailed(r) ==
  /\ r \in reads /\ lost < MaxLost /\ lost' = lost + 1
  /\ loading' = FALSE /\ reads' = reads \ {r} /\ adrift' = (adrift \/ r.op = "fill")
  /\ UNCHANGED <<log, actionFilter, logs, asked, known>>

-----------------------------------------------------------------------------
Next ==
  \/ (\E i \in 1..MaxEntries, a \in Actions : audit_log(i, a))
  \/ (\E f \in Filters : setActionFilter(f)) \/ (\E r \in reads : Filled(r)) \/ loadMore
  \/ (\E r \in reads : More(r)) \/ (\E r \in reads : ReadFailed(r))

Spec == Init /\ [][Next]_vars

-----------------------------------------------------------------------------
\* The list is of its filter and has no gap: an entry that was there when the list was
\* filled is in it if it lies between two that are, however the log grew between pages.
\* Unless the filter was changed during a read, or its first read failed.
AuditHasNoGaps ==
  ~adrift /\ (\A r \in reads : r.op = "more") =>
    /\ \A e \in ToSet(logs) : Matches(e, actionFilter)
    /\ \A i, j, k \in DOMAIN log :
         /\ i < j /\ j < k /\ {log[i], log[k]} \subseteq ToSet(logs)
         /\ log[j] \in known /\ Matches(log[j], actionFilter)
         => log[j] \in ToSet(logs)

\* Why: the entries that were there are shown in order, one after the other.  While the
\* filter's first rows are on their way nothing else is; then a request goes on where the
\* list ends, every row of the filter that was there and has its place within the list is
\* in it, and so is every such row above one that is.
LogInv ==
  /\ log \in Seq(Entries) /\ Len(log) <= MaxEntries /\ logs \in Seq(Entries)
  /\ \A i \in DOMAIN log : log[i].n <= Len(log)
  /\ \A i, j \in DOMAIN log : log[i].n = log[j].n => i = j
  /\ ToSet(logs) \cup known \subseteq ToSet(log)
  /\ actionFilter \in Filters
  /\ \A r \in reads : r.of \in Filters /\ r.offset \in Nat /\ r.op \in {"fill", "more"}
  /\ ~adrift =>
       /\ \A r, q \in reads : r = q
       /\ \A r \in reads : loading /\ r.of = actionFilter /\ (r.op = "fill" => r.offset = 0)
       /\ (\A r \in reads : r.op = "more") =>
            /\ \A r \in reads : r.offset = Len(logs)
            /\ \A e \in ToSet(logs) : Matches(e, actionFilter)
            /\ \A i \in Rows(actionFilter) :
                 log[i] \in known /\ Place(i, actionFilter) <= Len(logs)
                   => log[i] \in ToSet(logs)
            /\ \A i \in Rows(actionFilter), k \in DOMAIN log :
                 i < k /\ log[i] \in known /\ log[k] \in ToSet(logs)
                   => log[i] \in ToSet(logs)
=============================================================================
