------------------------------- MODULE Dashboard -------------------------------
(***************************************************************************)
(* The dashboard: four reads at once, of which any may fail, then the      *)
(* pipelines of the first listings under way, and the cards of the newest  *)
(* listings.  They delete like those of the list of listings, but the      *)
(* page is not told.  A listing's number is its age: the newest the last.  *)
(* A page opened again starts anew: one opening is modelled.               *)
(***************************************************************************)
EXTENDS Naturals, FiniteSets

CONSTANTS None,
          MaxListings,
          RECENT, READ, SHOWN,   \* 5 cards, 5 pipelines read, 3 of them drawn
          MaxChanged             \* bound: states changed by the pipeline or by others

VARIABLES
  state,                             \* server: a listing's state, None when it is gone
  listings, pipelineData, extras,    \* page: states and bars read; what else it has
  loading,
  pc, listingsRes, others, active, pipeResults,   \* fetchAll and its answers so far
  confirming, deleting, answer,      \* the card whose dialog is open; its deletion
  changed

pageVars == <<listings, pipelineData, extras, loading>>
fetchVars == <<pc, listingsRes, others, active, pipeResults>>
cardVars == <<confirming, deleting, answer>>
vars == <<state, pageVars, fetchVars, cardVars, changed>>

Listings == 1..MaxListings
States == {"uploading", "in_review", "awaiting_review", "delivered"}
Others == {"credits", "usage", "brandKit"}
NoListings == [l \in Listings |-> None]   \* also what a failed read of them shows
Failed == 0                               \* the answer that names no listing

TypeOK ==
  /\ {state, listings} \subseteq [Listings -> States \cup {None}]
  /\ pipelineData \in [Listings -> Listings \cup {None}] /\ extras \subseteq Others
  /\ {loading, deleting} \subseteq BOOLEAN /\ pc \in {"first", "pipelines", "done"}
  /\ listingsRes \in {None} \cup [Listings -> States \cup {None}]
  /\ others \in [Others -> {None, "ok", "failed"}]
  /\ active \subseteq Listings /\ DOMAIN pipeResults = 1..Cardinality(active)
  /\ \A i \in DOMAIN pipeResults : pipeResults[i] \in active \cup {None, Failed}
  /\ confirming \in Listings \cup {None} /\ answer \in {None, "pending", "ok", "error"}
  /\ changed \in 0..MaxChanged

NotAsked == [r \in Others |-> None]

Init ==
  /\ state \in [Listings -> States \cup {None}]
  /\ listings = NoListings /\ pipelineData = NoListings /\ extras = {} /\ loading = TRUE
  /\ pc = "first" /\ listingsRes = None /\ others = NotAsked
  /\ active = {} /\ pipeResults = <<>>
  /\ confirming = None /\ deleting = FALSE /\ answer = None
  /\ changed = 0

\* The first n of a set of listings, newest first, as they are listed and sliced.
Rank(l, S) == Cardinality({k \in S : k >= l})
slice(S, n) == {l \in S : Rank(l, S) <= n}

activeStates == {"uploading", "analyzing", "exporting", "in_review"}
\* The rows of "Pipeline Activity" and the cards; a skeleton while the page loads.
Known == {l \in Listings : listings[l] # None}
activeListings == {l \in Known : listings[l] \in activeStates}
ActivityRows == IF loading THEN {} ELSE slice(activeListings, SHOWN)
recentListings == IF loading THEN {} ELSE slice(Known, RECENT)

-----------------------------------------------------------------------------
\* fetchAll: each of the four reads ends in its turn, well or not.
listingsEnd(ok) ==
  /\ pc = "first" /\ listingsRes = None
  /\ listingsRes' = IF ok THEN state ELSE NoListings
  /\ UNCHANGED <<state, pageVars, pc, others, active, pipeResults, cardVars, changed>>

otherEnds(r, ok) ==
  /\ pc = "first" /\ others[r] = None
  /\ others' = [others EXCEPT ![r] = IF ok THEN "ok" ELSE "failed"]
  /\ UNCHANGED <<state, pageVars, pc, listingsRes, active, pipeResults, cardVars, changed>>

\* All have ended: what came is shown, the pipelines of active listings are asked for.
allSettled ==
  /\ pc = "first" /\ listingsRes # None /\ \A r \in Others : others[r] # None
  /\ extras' = {r \in Others : others[r] = "ok"}
  /\ listings' = listingsRes
  /\ active' = slice({l \in Listings : listings'[l] \in activeStates}, READ)
  /\ pipeResults' = [i \in 1..Cardinality(active') |-> None]
  /\ IF active' = {} THEN pc' = "done" /\ loading' = FALSE
                     ELSE pc' = "pipelines" /\ UNCHANGED loading
  /\ UNCHANGED <<state, pipelineData, listingsRes, others, cardVars, changed>>

\* The i-th request ends: with the pipeline of the i-th active listing, if it is there.
pipelineEnds(l, ok) ==
  /\ pc = "pipelines" /\ l \in active /\ pipeResults[Rank(l, active)] = None
  /\ ok => state[l] # None
  /\ pipeResults' = [pipeResults EXCEPT ![Rank(l, active)] = IF ok THEN l ELSE Failed]
  /\ UNCHANGED <<state, pageVars, pc, listingsRes, others, active, cardVars, changed>>

Row(i) == CHOOSE l \in active : Rank(l, active) = i
Fulfilled == {i \in DOMAIN pipeResults : pipeResults[i] # Failed}

\* A variant: the rejected answers are filtered out before the answers are counted.
BarsOfFulfilled ==
  [l \in Listings |->
     IF \E i \in Fulfilled : Row(Cardinality({j \in Fulfilled : j <= i})) = l
       THEN pipeResults[CHOOSE i \in Fulfilled :
                          Row(Cardinality({j \in Fulfilled : j <= i})) = l]
       ELSE None]

\* The i-th answer, unless it is rejected, is put down for the i-th active listing.
BarsOfAnswers ==
  [l \in Listings |-> IF \E i \in Fulfilled : Row(i) = l THEN pipeResults[Rank(l, active)]
                                                         ELSE None]

pipelinesSettled ==
  /\ pc = "pipelines" /\ \A i \in DOMAIN pipeResults : pipeResults[i] # None
  /\ pipelineData' = BarsOfAnswers
  /\ pc' = "done" /\ loading' = FALSE
  /\ UNCHANGED <<state, listings, extras, listingsRes, others, active, pipeResults, cardVars,
                 changed>>

-----------------------------------------------------------------------------
\* The cards.  The dialog of a deletion covers the page and stays while it runs.
Bin(l) == l \in recentListings /\ confirming = None
DeleteDialog == confirming # None /\ ~deleting

setConfirming(l) ==
  /\ Bin(l) \/ (DeleteDialog /\ l = confirming)
  /\ confirming' = IF confirming = None THEN l ELSE None
  /\ UNCHANGED <<state, pageVars, fetchVars, deleting, answer, changed>>

setDeleting ==
  /\ DeleteDialog
  /\ deleting' = TRUE /\ answer' = "pending"
  /\ UNCHANGED <<state, pageVars, fetchVars, confirming, changed>>

\* What is gone already is an error.
deleteListing ==
  /\ answer = "pending"
  /\ answer' = IF state[confirming] # None THEN "ok" ELSE "error"
  /\ state' = [state EXCEPT ![confirming] = None]
  /\ UNCHANGED <<pageVars, fetchVars, confirming, deleting, changed>>

\* The request is lost, or its answer.
DeletionLost ==
  /\ answer \in {"pending", "ok"}
  /\ answer' = "error"
  /\ UNCHANGED <<state, pageVars, fetchVars, confirming, deleting, changed>>

\* Success calls an onDeleted that the dashboard does not give its cards: the card
\* and its dialog stay as they are.
Deleted ==
  /\ answer = "ok"
  /\ answer' = None
  /\ UNCHANGED <<state, pageVars, fetchVars, confirming, deleting, changed>>

DeletionFailed ==
  /\ answer = "error"
  /\ confirming' = None /\ deleting' = FALSE /\ answer' = None
  /\ UNCHANGED <<state, pageVars, fetchVars, changed>>

-----------------------------------------------------------------------------
\* The pipeline or a colleague moves a listing on, or deletes it.
Change(l, s) ==
  /\ changed < MaxChanged /\ state[l] \notin {None, s}
  /\ state' = [state EXCEPT ![l] = s] /\ changed' = changed + 1
  /\ UNCHANGED <<pageVars, fetchVars, cardVars>>

Next ==
  \/ (\E ok \in BOOLEAN : listingsEnd(ok))
  \/ (\E r \in Others, ok \in BOOLEAN : otherEnds(r, ok)) \/ allSettled
  \/ (\E l \in Listings, ok \in BOOLEAN : pipelineEnds(l, ok)) \/ pipelinesSettled
  \/ (\E l \in Listings : setConfirming(l)) \/ setDeleting
  \/ deleteListing \/ DeletionLost \/ Deleted \/ DeletionFailed
  \/ (\E l \in Listings, s \in States \cup {None} : Change(l, s))

Spec == Init /\ [][Next]_vars

-----------------------------------------------------------------------------
(* The bars of a row are those of its own listing, though requests and     *)
(* answers are matched by their number and some fail; a row lacks its bars *)
(* only when its own request failed, though the rows read and the rows     *)
(* drawn are chosen apart (dashboard/page.tsx:65-90, 101-104, 399-428).    *)
BarsOfOwnListing ==
  \A l \in ActivityRows :
    /\ l \in active
    /\ pipelineData[l] = IF pipeResults[Rank(l, active)] = Failed THEN None ELSE l

(* "Deleting..." ends with its request.  It does not: after a successful  *)
(* deletion nothing closes the dialog, whose two buttons and backdrop are  *)
(* dead and which covers the page (listing-card.tsx:133-147, 187-217,      *)
(* dashboard/page.tsx:310).                                                *)
DialogEnds == deleting => answer # None

\* Why: the pipelines are asked for of the rows shown, and the i-th answer is of the i-th.
BarsInv ==
  /\ ~loading => pc = "done"
  /\ pc # "first" =>
       /\ active = slice({l \in Listings : listings[l] \in activeStates}, READ)
       /\ DOMAIN pipeResults = 1..Cardinality(active)
       /\ \A l \in active : pipeResults[Rank(l, active)] \in {None, Failed, l}
  /\ pc = "done" =>
       \A l \in active :
         pipelineData[l] = IF pipeResults[Rank(l, active)] = Failed THEN None ELSE l
=============================================================================
