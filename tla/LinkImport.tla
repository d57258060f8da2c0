----------------------------- MODULE LinkImport -----------------------------
(***************************************************************************)
(* The import from a delivery link, on the same form as PhotoUpload: one   *)
(* request, then a status request every two seconds that does not wait for *)
(* the answer to the last one and is not cancelled when the form goes.     *)
(***************************************************************************)
EXTENDS Naturals, FiniteSets

CONSTANTS MaxImports,  \* bound: imports under way
          MaxTicks     \* bound: status requests of one import in flight

VARIABLES
  shown,       \* the form is on screen
  importing,   \* its Import button is disabled
  importError, \* it shows why the last import failed
  imports      \* the imports started from it or from an earlier instance

vars == <<shown, importing, importError, imports>>

Ids == 1..MaxImports

\* An import: the request, the server's job, the interval (`open`), the
\* status requests in flight, and whether the form that started it is there.  The
\* row of an abandoned job says pending or running for ever.
Imports == [id : Ids, pc : {"request", "poll"},
            job : {"running", "completed", "failed", "abandoned"},
            open : BOOLEAN, ticks : 0..MaxTicks, here : BOOLEAN]

TypeOK ==
  /\ {shown, importing, importError} \subseteq BOOLEAN
  /\ imports \subseteq Imports
  /\ \A m, n \in imports : m.id = n.id => m = n

Init == /\ shown = TRUE /\ importing = FALSE /\ importError = FALSE
        /\ imports = {}

Unused == Ids \ {m.id : m \in imports}
Put(m, n) == imports' = {x \in (imports \ {m}) \cup {n} : x.open \/ x.ticks > 0}
SetImporting(m, v) == importing' = IF m.here THEN v ELSE importing
SetError(m, v) == importError' = IF m.here THEN v ELSE importError

\* The link's field and its button, both disabled during an import.
ImportForm == shown /\ ~importing

handleImportLink ==
  /\ ImportForm /\ Unused # {}
  /\ importing' = TRUE /\ importError' = FALSE
  /\ \E i \in {CHOOSE i \in Unused : TRUE} :
       imports' = imports \cup {[id |-> i, pc |-> "request", job |-> "running",
                                 open |-> TRUE, ticks |-> 0, here |-> TRUE]}
  /\ UNCHANGED shown

Accepted(m) ==
  /\ m \in imports /\ m.pc = "request"
  /\ Put(m, [m EXCEPT !.pc = "poll"])
  /\ UNCHANGED <<shown, importing, importError>>

Refused(m) ==
  /\ m \in imports /\ m.pc = "request"
  /\ imports' = imports \ {m}
  /\ SetImporting(m, FALSE) /\ SetError(m, TRUE)
  /\ UNCHANGED shown

Tick(m) ==
  /\ m \in imports /\ m.pc = "poll" /\ m.open /\ m.ticks < MaxTicks
  /\ Put(m, [m EXCEPT !.ticks = @ + 1])
  /\ UNCHANGED <<shown, importing, importError>>

\* The server's side: the job ends, with photos or without.
JobEnds(m) ==
  /\ m \in imports /\ m.pc = "poll" /\ m.job = "running"
  /\ \E end \in {"completed", "failed"} : Put(m, [m EXCEPT !.job = end])
  /\ UNCHANGED <<shown, importing, importError>>

\* Nobody waits for the task, and nothing takes its row up again: its process dies, it
\* hangs, or an exception is raised outside its try or by the commit that says "failed".
JobAbandoned(m) ==
  /\ m \in imports /\ m.pc = "poll" /\ m.job = "running"
  /\ Put(m, [m EXCEPT !.job = "abandoned"])
  /\ UNCHANGED <<shown, importing, importError>>

PolledRunning(m) ==
  /\ m \in imports /\ m.ticks > 0
  /\ Put(m, [m EXCEPT !.ticks = @ - 1])
  /\ UNCHANGED <<shown, importing, importError>>

\* The answer that ends the import.
PolledEnd(m) ==
  /\ m \in imports /\ m.ticks > 0 /\ m.job \in {"completed", "failed"}
  /\ Put(m, [m EXCEPT !.ticks = @ - 1, !.open = FALSE])
  /\ SetImporting(m, FALSE)
  /\ IF m.job = "failed" THEN SetError(m, TRUE) ELSE UNCHANGED importError
  /\ UNCHANGED shown

PollFailed(m) ==
  /\ m \in imports /\ m.ticks > 0
  /\ Put(m, [m EXCEPT !.ticks = @ - 1, !.open = FALSE])
  /\ SetImporting(m, FALSE) /\ SetError(m, TRUE)
  /\ UNCHANGED shown

\* The form goes and a fresh one comes.
Leave ==
  /\ shown
  /\ shown' = FALSE /\ importing' = FALSE /\ importError' = FALSE
  /\ imports' = {[m EXCEPT !.here = FALSE] : m \in imports}

Return ==
  /\ ~shown
  /\ shown' = TRUE
  /\ UNCHANGED <<importing, importError, imports>>

\* The status in an answer is the job's when the server answers.
StillRunning(m) == m.job \in {"running", "abandoned"} /\ PolledRunning(m)
Answer(m) == PolledEnd(m) \/ PollFailed(m) \/ StillRunning(m)

Next ==
  \/ handleImportLink \/ Leave \/ Return
  \/ \E m \in imports : Accepted(m) \/ Refused(m) \/ Tick(m) \/ Answer(m)
                         \/ JobEnds(m) \/ JobAbandoned(m)

Spec == Init /\ [][Next]_vars

\* The server answers and the interval fires.  The fate of a job is no assumption about
\* the server: one that neither ends nor is known to be dead has been abandoned.
Fairness ==
  \A i \in Ids :
    LET Of(A(_)) == \E m \in imports : m.id = i /\ A(m) IN
      /\ WF_vars(Of(Accepted) \/ Of(Refused))
      /\ WF_vars(Of(Tick)) /\ SF_vars(Of(Answer))
      /\ WF_vars(Of(JobEnds) \/ Of(JobAbandoned))

FairSpec == Spec /\ Fairness

-----------------------------------------------------------------------------
(* A disabled Import button has an import of this form under way: no end,  *)
(* failure or change of page freezes it (asset-upload-form.tsx:218-251).   *)
NoFrozenImport == importing => \E m \in imports : m.here /\ m.open

(* Every interval is cleared in the end, also when the form was left while *)
(* the import ran, unless the server abandoned the import: the page then   *)
(* polls for ever, since the interval knows no limit                       *)
(* (asset-upload-form.tsx:226-246, listings_import.py:98-107,              *)
(* link_import_job.py:34-41, 93-100).                                      *)
Polling(i) == \E m \in imports : m.id = i /\ m.open
Abandoned(i) == \E m \in imports : m.id = i /\ m.job = "abandoned"
PollingStops == \A i \in Ids : Polling(i) ~> ~Polling(i) \/ Abandoned(i)
=============================================================================
