----------------------------- MODULE ListingsIndex -----------------------------
(***************************************************************************)
(* The page of all listings: the user's own, each on a card that can       *)
(* delete it, and on a second tab those colleagues share with them, read   *)
(* again whenever that tab is opened.  The shared list is known by how     *)
(* many changes colleagues have made to it.                                *)
(***************************************************************************)
EXTENDS Naturals, FiniteSets

CONSTANTS None, Listings, MaxShared, MaxOpened, MaxLost

VARIABLES
  mine, shared,                            \* server: own listings, changes of the shared list
  listings, loading, error, showBrandBanner,   \* page: first tab
  confirming, deleting,                    \* the card whose dialog is open; its deletion runs
  activeTab, sharedListings, sharedLoading,    \* page: second tab (the changes it shows)
  asking, loads, answer,                   \* requests under way: lists; what a deletion came to
  opened, openedAt, lost, adrift           \* history

serverVars == <<mine, shared>>
cardVars == <<confirming, deleting, answer>>
firstTab == <<listings, loading, error, showBrandBanner, asking>>
secondTab == <<activeTab, sharedListings, sharedLoading, loads>>
historyVars == <<opened, openedAt, lost, adrift>>
vars == <<serverVars, firstTab, cardVars, secondTab, historyVars>>

Loads == [n : 1..MaxOpened, open : BOOLEAN, got : 0..MaxShared]

TypeOK ==
  /\ mine \subseteq Listings /\ shared \in 0..MaxShared
  /\ listings \subseteq Listings
  /\ {loading, error, showBrandBanner, deleting, sharedLoading, asking, adrift} \subseteq BOOLEAN
  /\ confirming \in listings \cup {None} /\ answer \in {None, "pending", "ok", "error"}
  /\ activeTab \in {"my", "shared"} /\ sharedListings \in 0..MaxShared
  /\ loads \subseteq Loads /\ opened \in 0..MaxOpened /\ openedAt \in 0..MaxShared
  /\ lost \in 0..MaxLost

Init ==
  /\ mine \in SUBSET Listings /\ shared = 0
  /\ listings = {} /\ loading = TRUE /\ error = FALSE /\ showBrandBanner = FALSE
  /\ confirming = None /\ deleting = FALSE
  /\ activeTab = "my" /\ sharedListings = 0 /\ sharedLoading = FALSE
  /\ asking = TRUE /\ loads = {} /\ answer = None
  /\ opened = 0 /\ openedAt = 0 /\ lost = 0 /\ adrift = FALSE

\* The cards are drawn on the first tab once its list is there; an open dialog
\* covers the page.
CardShown(l) == activeTab = "my" /\ ~error /\ ~loading /\ l \in listings

-----------------------------------------------------------------------------
\* The list and the brand kit come together; a kit that fails counts as none.
Loaded(kit) ==
  /\ asking
  /\ listings' = mine /\ showBrandBanner' = ~kit
  /\ loading' = FALSE /\ asking' = FALSE
  /\ UNCHANGED <<serverVars, error, cardVars, secondTab, historyVars>>

LoadFailed ==
  /\ asking /\ lost < MaxLost
  /\ error' = TRUE /\ loading' = FALSE /\ asking' = FALSE
  /\ UNCHANGED <<serverVars, listings, showBrandBanner, cardVars, secondTab, opened, openedAt,
                 adrift>>
  /\ lost' = lost + 1

\* "Retry" reloads the page: every request is forgotten.
ErrorPanel == activeTab = "my" /\ error
Retry ==
  /\ ErrorPanel
  /\ error' = FALSE /\ loading' = TRUE /\ asking' = TRUE
  /\ loads' = {} /\ sharedListings' = 0 /\ sharedLoading' = FALSE
  /\ UNCHANGED <<serverVars, listings, showBrandBanner, cardVars, activeTab, opened, lost>>
  /\ openedAt' = 0 /\ adrift' = FALSE

-----------------------------------------------------------------------------
\* The second tab: each opening loads, without cancelling an earlier load.

Tabs == confirming = None
setActiveTab(tab) ==
  /\ Tabs /\ tab # activeTab
  /\ activeTab' = tab
  /\ UNCHANGED <<serverVars, firstTab, cardVars, sharedListings, lost>>
  /\ IF tab = "shared"
       THEN /\ opened < MaxOpened
            /\ sharedLoading' = TRUE
            /\ loads' = loads \cup {[n |-> opened + 1, open |-> TRUE, got |-> 0]}
            /\ opened' = opened + 1 /\ openedAt' = shared /\ adrift' = (loads # {})
       ELSE UNCHANGED <<sharedLoading, loads, opened, openedAt, adrift>>

getSharedWithMe(r) ==
  /\ r \in loads /\ r.open
  /\ loads' = (loads \ {r}) \cup {[r EXCEPT !.open = FALSE, !.got = shared]}
  /\ UNCHANGED <<serverVars, firstTab, cardVars, activeTab, sharedListings, sharedLoading,
                 historyVars>>

setSharedListings(r) ==
  /\ r \in loads /\ ~r.open
  /\ sharedListings' = r.got /\ sharedLoading' = FALSE /\ loads' = loads \ {r}
  /\ UNCHANGED <<serverVars, firstTab, cardVars, activeTab, historyVars>>

\* A load that fails shows an empty list.
SharedFailed(r) ==
  /\ r \in loads /\ lost < MaxLost
  /\ sharedListings' = 0 /\ sharedLoading' = FALSE /\ loads' = loads \ {r}
  /\ UNCHANGED <<serverVars, firstTab, cardVars, activeTab, opened, openedAt>>
  /\ lost' = lost + 1 /\ adrift' = TRUE

Colleague ==
  /\ shared < MaxShared
  /\ shared' = shared + 1
  /\ UNCHANGED <<mine, firstTab, cardVars, secondTab, historyVars>>

-----------------------------------------------------------------------------
\* The cards: the bin opens a dialog, which stays while its deletion runs.

DeleteDialog(l) == CardShown(l) /\ confirming = l /\ ~deleting
Bin(l) == CardShown(l) /\ confirming = None /\ ~deleting

setConfirming(l) ==
  /\ Bin(l) \/ DeleteDialog(l)
  /\ confirming' = IF confirming = None THEN l ELSE None
  /\ UNCHANGED <<serverVars, firstTab, deleting, answer, secondTab, historyVars>>

setDeleting(l) ==
  /\ DeleteDialog(l)
  /\ deleting' = TRUE /\ answer' = "pending"
  /\ UNCHANGED <<serverVars, firstTab, confirming, secondTab, historyVars>>

\* The server deletes what is there; what is gone already is an error.
deleteListing ==
  /\ answer = "pending"
  /\ answer' = IF confirming \in mine THEN "ok" ELSE "error"
  /\ mine' = mine \ {confirming}
  /\ UNCHANGED <<shared, firstTab, confirming, deleting, secondTab, historyVars>>

\* The request is lost, or its answer.
DeletionLost ==
  /\ answer \in {"pending", "ok"} /\ lost < MaxLost
  /\ answer' = "error"
  /\ UNCHANGED <<serverVars, firstTab, confirming, deleting, secondTab, opened, openedAt, adrift>>
  /\ lost' = lost + 1

\* The card goes with its dialog.
onDeleted ==
  /\ answer = "ok"
  /\ listings' = listings \ {confirming}
  /\ confirming' = None /\ deleting' = FALSE /\ answer' = None
  /\ UNCHANGED <<serverVars, loading, error, showBrandBanner, asking, secondTab, historyVars>>

\* An error closes the dialog without a word.
DeletionFailed ==
  /\ answer = "error"
  /\ confirming' = None /\ deleting' = FALSE /\ answer' = None
  /\ UNCHANGED <<serverVars, firstTab, secondTab, historyVars>>

-----------------------------------------------------------------------------
Next ==
  \/ (\E kit \in BOOLEAN : Loaded(kit)) \/ LoadFailed \/ Retry
  \/ (\E tab \in {"my", "shared"} : setActiveTab(tab))
  \/ (\E r \in loads : getSharedWithMe(r)) \/ (\E r \in loads : setSharedListings(r))
  \/ (\E r \in loads : SharedFailed(r)) \/ Colleague
  \/ (\E l \in listings : setConfirming(l)) \/ (\E l \in listings : setDeleting(l))
  \/ deleteListing \/ DeletionLost \/ onDeleted \/ DeletionFailed

Spec == Init /\ [][Next]_vars

-----------------------------------------------------------------------------
\* Opening the second tab shows the list as it is then or later, never one read for
\* an earlier visit; not when an earlier load was still under way, nor when one fails.
SharedIsFresh ==
  opened > 0 /\ loads = {} /\ ~adrift /\ ~error /\ ~loading => sharedListings >= openedAt

\* A card leaves the page when its listing is gone and not before, though the
\* dialog closes in the same way on an error; unless an answer was lost.
CardsAreListings ==
  ~loading /\ answer = None /\ lost = 0 => listings = mine

\* Why: what was read since the tab was opened is not older than the opening,
VisitInv ==
  /\ shared >= openedAt
  /\ ~adrift =>
       /\ \A r \in loads : ~r.open => r.got >= openedAt
       /\ loads = {} => sharedListings >= openedAt

\* and a deletion, of which there is one at most, has come to the card or is told to it.
CardInv ==
  lost = 0 =>
    /\ ~error /\ (asking <=> loading)
    /\ answer # None => deleting /\ ~loading
    /\ ~loading => mine = IF answer = "ok" THEN listings \ {confirming} ELSE listings
=============================================================================
