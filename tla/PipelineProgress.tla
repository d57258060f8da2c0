--------------------------- MODULE PipelineProgress ---------------------------
(***************************************************************************)
(* The list of pipeline steps on a listing's page.  Its effect runs again  *)
(* whenever the listing's state, the page's refresh key or the liveness of *)
(* the event stream changes; a run reads the steps at once, and while the  *)
(* stream is down and the state is one of a pipeline at work, polls.       *)
(***************************************************************************)
EXTENDS Naturals, FiniteSets

CONSTANTS ListingStates, MaxSteps, MaxRuns, MaxReads, MaxUnread

VARIABLES
  progress,                 \* server: how many step changes there have been
  listingState, live,       \* what the page passes down
  steps, loading,           \* the component: the changes its list shows
  run, reads,               \* the effect's current run, reads under way of any run
  asked, unread             \* history: reads of this run, reads that failed

pageVars == <<listingState, live>>
componentVars == <<steps, loading>>
historyVars == <<asked, unread>>
vars == <<progress, pageVars, componentVars, run, reads, historyVars>>

POLLING_STATES == {"uploading", "analyzing", "exporting"}

\* A read is open until the server has answered it; got is what it saw.
Reads == [run : 1..MaxRuns, n : 1..MaxReads, open : BOOLEAN, got : 0..MaxSteps]

TypeOK ==
  /\ progress \in 0..MaxSteps /\ steps \in 0..MaxSteps
  /\ listingState \in ListingStates /\ {live, loading} \subseteq BOOLEAN
  /\ run \in 1..MaxRuns /\ reads \subseteq Reads
  /\ asked \in 0..MaxReads /\ unread \in 0..MaxUnread

NewRead(r, n) == [run |-> r, n |-> n, open |-> TRUE, got |-> 0]

Init ==
  /\ progress \in 0..1 /\ listingState \in ListingStates /\ live \in BOOLEAN
  /\ steps = 0 /\ loading = TRUE
  /\ run = 1 /\ reads = {NewRead(1, 1)}
  /\ asked = 1 /\ unread = 0

Mine(r) == r.run = run
Polling == ~live /\ listingState \in POLLING_STATES

-----------------------------------------------------------------------------
\* The pipeline moves on; the stream tells the page, which bumps the refresh key.

StepChanged ==
  /\ progress < MaxSteps
  /\ progress' = progress + 1
  /\ UNCHANGED <<pageVars, componentVars, run, reads, historyVars>>

\* The effect runs again: older reads are cancelled, the interval starts anew.
fetchStatus ==
  /\ run < MaxRuns
  /\ run' = run + 1
  /\ reads' = reads \cup {NewRead(run + 1, 1)} /\ asked' = 1
  /\ UNCHANGED <<progress, componentVars, unread>>

RefreshKeyBumped == fetchStatus /\ UNCHANGED pageVars
StreamChanged == fetchStatus /\ live' = ~live /\ UNCHANGED listingState
StateShown == /\ fetchStatus /\ listingState' \in ListingStates \ {listingState}
              /\ UNCHANGED live

Poll ==
  /\ Polling /\ asked < MaxReads
  /\ asked' = asked + 1 /\ reads' = reads \cup {NewRead(run, asked + 1)}
  /\ UNCHANGED <<progress, pageVars, componentVars, run, unread>>

\* getPipelineStatus at the server.
Read(r) ==
  /\ r \in reads /\ r.open
  /\ reads' = (reads \ {r}) \cup {[r EXCEPT !.open = FALSE, !.got = progress]}
  /\ UNCHANGED <<progress, pageVars, componentVars, run, historyVars>>

\* A variant: the answer of a cancelled read is shown.
AnsweredAny(r) ==
  /\ r \in reads /\ ~r.open
  /\ steps' = r.got /\ loading' = FALSE /\ reads' = reads \ {r}
  /\ UNCHANGED <<progress, pageVars, run, historyVars>>

\* The answer of a cancelled read is dropped; it does not end the loading either.
Answered(r) ==
  /\ r \in reads /\ ~r.open
  /\ steps' = IF Mine(r) THEN r.got ELSE steps
  /\ loading' = (loading /\ ~Mine(r))
  /\ reads' = reads \ {r}
  /\ UNCHANGED <<progress, pageVars, run, historyVars>>

Unanswered(r) ==
  /\ r \in reads /\ unread < MaxUnread
  /\ loading' = (loading /\ ~Mine(r))
  /\ reads' = reads \ {r} /\ unread' = unread + 1
  /\ UNCHANGED <<progress, pageVars, steps, run, asked>>

\* Nothing is drawn while the first read runs, nor for an empty list.
Drawn == ~loading /\ steps > 0

-----------------------------------------------------------------------------
Next ==
  \/ StepChanged \/ RefreshKeyBumped \/ StreamChanged \/ StateShown \/ Poll
  \/ (\E r \in reads : Read(r)) \/ (\E r \in reads : Answered(r))
  \/ (\E r \in reads : Unanswered(r))

\* Requests end.
Fairness == WF_vars(\E r \in reads : Read(r)) /\ WF_vars(\E r \in reads : Answered(r))

FairSpec == Init /\ [][Next]_vars /\ Fairness

-----------------------------------------------------------------------------
\* While the stream is up the list never goes back to an older state: a read that
\* was still under way when a later one started no longer counts.  (Two polls of
\* one run are not ordered: a slow one may show older steps after a newer one.)
StepsGoForward == [][live => steps' >= steps]_vars

\* The component does not stay empty behind a read that was cancelled: whichever
\* run comes last ends the loading.
LoadingEnds == <>~loading
=============================================================================
