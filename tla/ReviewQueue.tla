----------------------------- MODULE ReviewQueue -----------------------------
(***************************************************************************)
(* The review queue of the administrators of a tenant: a poll that reads   *)
(* the two states under review one beside the other, Approve (a start of   *)
(* the review, then the approval), Reject, and the keyboard.               *)
(***************************************************************************)
EXTENDS Naturals, Sequences, SequencesExt, FiniteSets

CONSTANTS None, Listings,
          MaxPolls,     \* bound: polls under way
          MaxDecisions, \* bound: approvals and rejections of this user
          MaxOutside,   \* bound: packages finished, decisions of others
          MaxLost       \* bound: requests that fail

VARIABLES
  state,                                             \* server
  listings, expandedId, rejectingId, actionLoading,  \* page
  polls, decisions,                                  \* requests under way
  decided, outside, lost                             \* bounds

pageVars == <<listings, expandedId, rejectingId, actionLoading>>
boundVars == <<decided, outside, lost>>
vars == <<state, pageVars, polls, decisions, boundVars>>

States == {"analyzing", "awaiting_review", "in_review", "approved", "failed"}
Ids == Listings \cup {None}
Reads == [aw : (SUBSET Listings) \cup {None}, ir : (SUBSET Listings) \cup {None}]
Decisions == [id : Listings, n : 1..MaxDecisions, step : {"start", "approve", "reject"}]

TypeOK ==
  /\ state \in [Listings -> States] /\ listings \subseteq Listings
  /\ {expandedId, rejectingId, actionLoading} \subseteq Ids
  /\ polls \in BoundedSeq(Reads, MaxPolls) /\ decisions \subseteq Decisions
  /\ decided \in 0..MaxDecisions /\ outside \in 0..MaxOutside /\ lost \in 0..MaxLost

Init ==
  /\ state \in [Listings -> {"analyzing", "awaiting_review"}]
  /\ listings = {} /\ expandedId = None /\ rejectingId = None /\ actionLoading = None
  /\ polls = <<[aw |-> None, ir |-> None]>> /\ decisions = {}
  /\ decided = 0 /\ outside = 0 /\ lost = 0

In(s) == {l \in Listings : state[l] = s}
UnderReview == In("awaiting_review") \cup In("in_review")

-----------------------------------------------------------------------------
\* A variant: one poll, when the page is mounted.
FetchOnce == FALSE /\ UNCHANGED vars

\* fetchQueue: two requests, answered in any order, and shown when both are.
fetchQueue ==
  /\ Len(polls) < MaxPolls
  /\ polls' = Append(polls, [aw |-> None, ir |-> None])
  /\ UNCHANGED <<state, pageVars, decisions, boundVars>>

getReviewQueue(i) ==
  /\ i \in DOMAIN polls
  /\ \/ polls[i].aw = None /\ polls' = [polls EXCEPT ![i].aw = In("awaiting_review")]
     \/ polls[i].ir = None /\ polls' = [polls EXCEPT ![i].ir = In("in_review")]
  /\ UNCHANGED <<state, pageVars, decisions, boundVars>>

QueueShown(i) ==
  /\ i \in DOMAIN polls /\ None \notin {polls[i].aw, polls[i].ir}
  /\ listings' = polls[i].aw \cup polls[i].ir
  /\ polls' = RemoveAt(polls, i)
  /\ UNCHANGED <<state, expandedId, rejectingId, actionLoading, decisions, boundVars>>

QueueFailed(i) ==
  /\ i \in DOMAIN polls /\ lost < MaxLost
  /\ polls' = RemoveAt(polls, i)
  /\ UNCHANGED <<state, pageVars, decisions, decided, outside>>
  /\ lost' = lost + 1

-----------------------------------------------------------------------------
toggleExpand(l) ==
  /\ l \in listings
  /\ expandedId' = IF expandedId = l THEN None ELSE l
  /\ UNCHANGED <<state, listings, rejectingId, actionLoading, polls, decisions, boundVars>>

\* The cross of a row, or s: also for a row that has left the queue.
setRejectingId(l) ==
  /\ l = None \/ l \in listings \/ l = expandedId
  /\ rejectingId # l /\ rejectingId' = l
  /\ UNCHANGED <<state, listings, expandedId, actionLoading, polls, decisions, boundVars>>

Decide(l, step) ==
  /\ decided < MaxDecisions
  /\ actionLoading' = l
  /\ decisions' = decisions \cup {[id |-> l, n |-> decided + 1, step |-> step]}
  /\ UNCHANGED <<state, listings, expandedId, rejectingId, polls, outside, lost>>
  /\ decided' = decided + 1

\* A row's tick and its panel's Reject are disabled while the row is at it; the
\* key a is not.
RowButtons(l) == l \in listings /\ actionLoading # l
RejectPanel(l) == l \in listings /\ rejectingId = l /\ actionLoading # l
handleApprove(l) == RowButtons(l) /\ Decide(l, "start")
handleKeyApprove == expandedId # None /\ Decide(expandedId, "start")
handleReject(l) == RejectPanel(l) /\ Decide(l, "reject")

\* startReview: a listing that is not waiting is refused with 409, and approved anyway.
Start(d) ==
  /\ d \in decisions /\ d.step = "start"
  /\ state' = [state EXCEPT ![d.id] = IF @ = "awaiting_review" THEN "in_review" ELSE @]
  /\ decisions' = (decisions \ {d}) \cup {[d EXCEPT !.step = "approve"]}
  /\ UNCHANGED <<pageVars, polls, boundVars>>

Accepts(d) == CASE d.step = "approve" -> state[d.id] = "in_review"
                [] d.step = "reject"  -> d.id \in UnderReview
                [] OTHER              -> FALSE

Answered(d) == /\ d \in decisions /\ decisions' = decisions \ {d}
               /\ actionLoading' = None

\* The listing leaves the queue shown; a rejection also closes whatever panel is open.
Decided(d) ==
  /\ Answered(d) /\ Accepts(d)
  /\ state' = [state EXCEPT ![d.id] = IF d.step = "approve" THEN "approved" ELSE "failed"]
  /\ listings' = listings \ {d.id}
  /\ rejectingId' = IF d.step = "reject" THEN None ELSE rejectingId
  /\ UNCHANGED <<expandedId, polls, boundVars>>

Refused(d) ==
  /\ Answered(d) /\ d.step # "start" /\ ~Accepts(d)
  /\ UNCHANGED <<state, listings, expandedId, rejectingId, polls, boundVars>>

\* The answer is lost: the server has acted or has not; the row stays.
Lost(d) ==
  /\ Answered(d) /\ lost < MaxLost
  /\ \/ UNCHANGED state
     \/ Accepts(d) /\ state' = [state EXCEPT ![d.id] = IF d.step = "approve" THEN "approved"
                                                                             ELSE "failed"]
  /\ UNCHANGED <<listings, expandedId, rejectingId, polls, decided, outside>>
  /\ lost' = lost + 1

\* A package is finished; a colleague starts, approves or rejects.
Outside(l, s) ==
  /\ outside < MaxOutside
  /\ <<state[l], s>> \in {<<"analyzing", "awaiting_review">>, <<"awaiting_review", "in_review">>,
                          <<"in_review", "approved">>, <<"awaiting_review", "failed">>}
  /\ state' = [state EXCEPT ![l] = s]
  /\ UNCHANGED <<pageVars, polls, decisions, decided, lost>>
  /\ outside' = outside + 1

-----------------------------------------------------------------------------
Next ==
  \/ fetchQueue
  \/ (\E i \in 1..MaxPolls : getReviewQueue(i)) \/ (\E i \in 1..MaxPolls : QueueShown(i))
  \/ (\E i \in 1..MaxPolls : QueueFailed(i))
  \/ (\E l \in Listings : toggleExpand(l)) \/ (\E l \in Ids : setRejectingId(l))
  \/ (\E l \in Listings : handleApprove(l)) \/ handleKeyApprove
  \/ (\E l \in Listings : handleReject(l))
  \/ (\E d \in decisions : Start(d)) \/ (\E d \in decisions : Decided(d))
  \/ (\E d \in decisions : Refused(d)) \/ (\E d \in decisions : Lost(d))
  \/ (\E l \in Listings, s \in States : Outside(l, s))

Spec == Init /\ [][Next]_vars

\* The interval fires, and the oldest poll is served and shown.
FairSpec == Spec /\ WF_vars(fetchQueue) /\ WF_vars(getReviewQueue(1)) /\ WF_vars(QueueShown(1))

-----------------------------------------------------------------------------
\* The queue shown comes back to the listings under review, whatever stale poll put
\* a decided listing back, whatever decision was lost or refused, whoever decided.
QueueIsCurrent == listings = UnderReview
QueueCatchesUp == []<>QueueIsCurrent
=============================================================================
