----------------------------- MODULE ListingPage -----------------------------
(***************************************************************************)
(* The page of one listing while its pipeline runs: the event stream of    *)
(* useListingEvents, the refetch and the poll that follow it, and the      *)
(* Review, Approve and Retry buttons.                                      *)
(* The server side is what the page can see of it: the listing's state and *)
(* the events the stream endpoint reads.                                   *)
(***************************************************************************)
EXTENDS Naturals, Sequences, SequencesExt, FiniteSets, FiniteSetsExt

CONSTANTS None,
          MAX_CONSECUTIVE_ERRORS,
          MaxEvents,    \* bound: events of the listing
          MaxSilent,    \* bound: changes made by colleagues
          MaxInFlight,  \* bound: answers under way to the page
          MaxDrops      \* bound: series of losses of the stream

VARIABLES
  \* server: state of the listing, stamp of its last event, transactions that
  \* have stamped their event and not committed, stamps of committed events
  state, clock, open_txns, events,
  \* the stream: its status, consecutive errors, the endpoint's cursor
  stream, errors, cursor,
  \* the page: state shown, debounced refetch, answers under way (oldest first)
  listing, refetchTimer, answers, actionLoading,
  \* history: series of losses of the stream, changes the stream does not carry, and what
  \* the last answer was: failed, or overtaken by that of a later request
  \* (skipped: the last event committed behind the endpoint's cursor)
  drops, silent, unheard, skipped, failed, outdated

serverVars == <<state, clock, open_txns, events>>
streamVars == <<stream, errors, cursor, drops>>
pageVars == <<listing, refetchTimer, answers, actionLoading, failed, outdated>>
vars == <<serverVars, streamVars, pageVars, silent, unheard, skipped>>

States == {"uploading", "analyzing", "awaiting_review", "in_review", "approved",
           "exporting", "delivered", "failed", "cancelled"}
Stamps == 1..MaxEvents

TypeOK ==
  /\ state \in States /\ clock \in 0..MaxEvents /\ events \subseteq Stamps
  /\ open_txns \subseteq [stamp : Stamps, to : States]
  /\ stream \in {"connecting", "connected", "gaveUp"}
  /\ errors \in 0..MAX_CONSECUTIVE_ERRORS /\ cursor \in 0..MaxEvents
  /\ listing \in States \cup {None} /\ {refetchTimer, actionLoading} \subseteq BOOLEAN
  /\ answers \in BoundedSeq([act : BOOLEAN, state : States \cup {None}, old : BOOLEAN],
                            MaxInFlight)
  /\ drops \in 0..MaxDrops /\ silent \in 0..MaxSilent
  /\ {unheard, skipped, failed, outdated} \subseteq BOOLEAN

Init ==
  /\ state \in {"uploading", "awaiting_review", "approved"}
  /\ clock = 0 /\ open_txns = {} /\ events = {}
  /\ stream = "connecting" /\ errors = 0 /\ cursor = 0 /\ drops = 0
  /\ listing = None /\ refetchTimer = FALSE /\ actionLoading = FALSE
  /\ answers = <<[act |-> FALSE, state |-> state, old |-> FALSE]>>
  /\ silent = 0 /\ unheard = FALSE /\ skipped = FALSE /\ failed = FALSE /\ outdated = FALSE

-----------------------------------------------------------------------------
\* Server: a step of the pipeline stamps its event, and later commits it with
\* the state it leads to.  Two steps may run at once.

Leads(s) == CASE s = "uploading" -> {"analyzing", "failed"}
              [] s = "analyzing" -> {"analyzing", "awaiting_review", "failed"}
              [] s = "approved"  -> {"approved", "exporting", "failed"}
              [] s = "exporting" -> {"exporting", "delivered", "failed"}
              [] OTHER           -> {}

EventStamped(to) ==
  /\ clock < MaxEvents /\ Cardinality(open_txns) < 2 /\ to \in Leads(state)
  /\ to # state => \A t \in open_txns : t.to = state
  /\ clock' = clock + 1
  /\ open_txns' = open_txns \cup {[stamp |-> clock', to |-> to]}
  /\ UNCHANGED <<state, events, streamVars, pageVars, silent, unheard, skipped>>

EventCommitted(t) ==
  /\ t \in open_txns
  /\ open_txns' = open_txns \ {t} /\ events' = events \cup {t.stamp}
  /\ state' = IF t.to \in Leads(state) THEN t.to ELSE state
  /\ unheard' = (unheard /\ state' = state)
  /\ skipped' = (t.stamp < cursor)
  /\ UNCHANGED <<clock, streamVars, pageVars, silent>>

\* A colleague reviews, approves or cancels: events the endpoint does not forward.
Colleague(to) ==
  /\ silent < MaxSilent
  /\ <<state, to>> \in {<<"awaiting_review", "in_review">>, <<"in_review", "approved">>,
                        <<"analyzing", "cancelled">>}
  /\ silent' = silent + 1 /\ state' = to /\ unheard' = TRUE
  /\ UNCHANGED <<clock, open_txns, events, streamVars, pageVars, skipped>>

-----------------------------------------------------------------------------
onopen ==
  /\ stream = "connecting"
  /\ stream' = "connected" /\ errors' = 0
  /\ UNCHANGED <<serverVars, cursor, drops, pageVars, silent, unheard, skipped>>

\* The stream is lost, or an attempt to reconnect fails too.
onerror ==
  /\ stream # "gaveUp" /\ (errors = 0 => drops < MaxDrops)
  /\ drops' = (IF errors = 0 THEN drops + 1 ELSE drops) /\ errors' = errors + 1
  /\ stream' = IF errors' >= MAX_CONSECUTIVE_ERRORS THEN "gaveUp" ELSE "connecting"
  /\ UNCHANGED <<serverVars, cursor, pageVars, silent, unheard, skipped>>

\* (gaveUp also stands for a refusal, on which the browser does not reconnect.)
onrefused ==
  /\ stream = "connecting"
  /\ stream' = "gaveUp" /\ errors' = errors + 1
  /\ UNCHANGED <<serverVars, cursor, drops, pageVars, silent, unheard, skipped>>

\* One poll of the endpoint sends the committed events beyond its cursor; the
\* page applies them and (re)starts the debounce.
Unsent == {e \in events : e > cursor}
record ==
  /\ stream = "connected" /\ Unsent # {}
  /\ cursor' = Max(Unsent)
  /\ refetchTimer' = TRUE
  /\ UNCHANGED <<serverVars, stream, errors, drops, listing, answers, actionLoading, failed,
                 outdated, silent,
                 unheard, skipped>>

-----------------------------------------------------------------------------
\* Requests of the page.  The server answers in order; answers arrive in any.

Ask(act, s) == /\ Len(answers) < MaxInFlight
               /\ answers' = Append(answers, [act |-> act, state |-> s, old |-> FALSE])

RefetchFires ==
  /\ refetchTimer /\ Ask(FALSE, state)
  /\ refetchTimer' = FALSE
  /\ UNCHANGED <<serverVars, streamVars, listing, actionLoading, failed, outdated,
                 silent, unheard, skipped>>

PROCESSING_STATES == {"uploading", "analyzing", "exporting"}
Polling == stream # "connected" /\ listing \in PROCESSING_STATES

Poll ==
  /\ Polling /\ Ask(FALSE, state)
  /\ UNCHANGED <<serverVars, streamVars, listing, refetchTimer, actionLoading, failed, outdated, silent,
                 unheard, skipped>>

\* The Retry button of a page that could not load.
NotLoaded == listing = None /\ failed
Retry ==
  /\ NotLoaded /\ Ask(FALSE, state)
  /\ failed' = FALSE
  /\ UNCHANGED <<serverVars, streamVars, listing, refetchTimer, actionLoading, outdated, silent,
                 unheard, skipped>>

\* The buttons, each shown in some states; the server checks the real one.
RETRY_STATES == {"failed", "uploading", "analyzing", "approved", "exporting"}
ActionButtons(to) == CASE to = "in_review" -> listing = "awaiting_review"
                       [] to = "approved"  -> listing = "in_review"
                       [] OTHER            -> FALSE
RetryPanel(to) == to = "uploading" /\ listing \in RETRY_STATES
Accepts(to) == CASE to = "in_review" -> {"awaiting_review"}
                 [] to = "approved"  -> {"in_review"}
                 [] to = "uploading" -> States \ {"delivered", "cancelled"}

\* handleStartReview, handleApprove, handleRetryPipeline.  A refusal has no state.
handleAction(to) ==
  /\ ActionButtons(to) \/ RetryPanel(to)
  /\ ~actionLoading
  /\ actionLoading' = TRUE
  /\ IF state \in Accepts(to)
       THEN Ask(TRUE, to) /\ state' = to /\ unheard' = FALSE
       ELSE Ask(TRUE, None) /\ UNCHANGED <<state, unheard>>
  /\ UNCHANGED <<clock, open_txns, events, streamVars, listing, refetchTimer, failed, outdated,
                 silent, skipped>>

\* The answers left: those of older requests are old now, unless i was a refusal.
Rest(i) == [j \in 1..(Len(answers) - 1) |->
              IF j < i THEN [answers[j] EXCEPT !.old = @ \/ answers[i].state # None]
                       ELSE answers[j + 1]]

\* An answer is used whatever was used before it: setListing.
Show(i) ==
  /\ i \in DOMAIN answers /\ answers[i].state # None
  /\ listing' = answers[i].state /\ answers' = Rest(i)
  /\ actionLoading' = (actionLoading /\ ~answers[i].act)
  /\ failed' = FALSE /\ outdated' = answers[i].old
  /\ UNCHANGED <<serverVars, streamVars, refetchTimer, silent, unheard, skipped>>

\* The request failed, or the action was refused: the page stays as it was.
Fail(i) ==
  /\ i \in DOMAIN answers
  /\ answers' = Rest(i)
  /\ actionLoading' = (actionLoading /\ ~answers[i].act)
  /\ failed' = (failed \/ (answers[i].state # None /\ ~answers[i].old))
  /\ UNCHANGED <<serverVars, streamVars, listing, refetchTimer, outdated, silent,
                 unheard, skipped>>

-----------------------------------------------------------------------------
OldestAnswered == Show(1) \/ Fail(1)

Next ==
  \/ (\E to \in States : EventStamped(to)) \/ (\E t \in open_txns : EventCommitted(t))
  \/ (\E to \in States : Colleague(to))
  \/ onopen \/ onerror \/ onrefused \/ record
  \/ RefetchFires \/ Poll \/ Retry
  \/ \E to \in {"in_review", "approved", "uploading"} : handleAction(to)
  \/ (\E i \in 1..MaxInFlight : Show(i)) \/ (\E i \in 1..MaxInFlight : Fail(i))

Spec == Init /\ [][Next]_vars

\* The browser reconnects, the endpoint polls every 2 s, timers fire, requests
\* end, and open transactions commit.  (Strong: MaxInFlight may hold one back.)
Fairness ==
  /\ WF_vars(\E t \in open_txns : EventCommitted(t))
  /\ WF_vars(onopen) /\ WF_vars(record) /\ SF_vars(RefetchFires) /\ SF_vars(Poll)
  /\ WF_vars(OldestAnswered)
FairSpec == Spec /\ Fairness

-----------------------------------------------------------------------------
\* The page ends up showing the listing's state, through bursts of events, losses
\* of the stream and answers in any order.  What it does not survive: a request
\* that fails and, without the poll, an answer overtaken by an older one, a stream
\* that is over, a change the stream does not carry, an event behind the cursor.
CaughtUp == \/ listing = state \/ failed
            \/ ~Polling /\ (outdated \/ stream = "gaveUp" \/ unheard \/ skipped)
PageCatchesUp == []<>CaughtUp
=============================================================================
