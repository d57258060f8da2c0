---------------------------- MODULE WizardAddons ----------------------------
(***************************************************************************)
(* What the wizard sells: the staging, add-on and review steps on one      *)
(* listing, and what start_pipeline charges for the selection they send.   *)
(***************************************************************************)
EXTENDS Naturals, FiniteSets, FiniteSetsExt

CONSTANTS Photos, None,
          BaseCosts,   \* what Tenant.per_listing_credit_cost may be
          Balances     \* credit balances the account may start with

VARIABLES step, stagingAssetIds, selectedAddons, useBundle,
          creditBalance,  \* what the plan context shows, None if unknown
          offer,          \* the confirmation in flight: selection and price shown
          balance, perListing, charged, shownTo   \* server, and the two prices

selection == <<stagingAssetIds, selectedAddons, useBundle>>
vars == <<step, selection, creditBalance, offer, balance, perListing, charged, shownTo>>

INDIVIDUAL_ADDONS == [ai_video_tour |-> 20, virtual_staging |-> 15, floorplan_3d |-> 8]
Addons == DOMAIN INDIVIDUAL_ADDONS
BUNDLE_CREDITS == 30
BASE_CREDITS == 15

\* The server's prices: tiers.py and the seeded add-on catalog.
SERVICE_CREDIT_COSTS == [ai_video_tour |-> 20, virtual_staging |-> 15, floorplan_3d |-> 8]
BUNDLE_PRICING == 30

\* fetchPlanData asks for the balance when the status says the tenant pays by credits:
\* /billing/status has no field that says so.
BillingStatusResponse == {"plan", "has_payment_method", "has_subscription"}
fetchPlanData(credits) == IF "billing_model" \in BillingStatusResponse THEN credits ELSE None

TypeOK ==
  /\ step \in 3..5 /\ stagingAssetIds \subseteq Photos /\ selectedAddons \subseteq Addons
  /\ useBundle \in BOOLEAN /\ creditBalance \in Nat \cup {None}
  /\ offer \in {None} \cup [bundle : BOOLEAN, addons : SUBSET Addons, total : Nat]
  /\ balance \in Nat /\ perListing \in BaseCosts
  /\ charged \in Nat \cup {None} /\ shownTo \in Nat \cup {None}

Init ==
  /\ step = 3 /\ stagingAssetIds = {} /\ selectedAddons = {} /\ useBundle = FALSE
  /\ balance \in Balances /\ perListing \in BaseCosts
  /\ creditBalance = fetchPlanData(balance)
  /\ offer = None /\ charged = None /\ shownTo = None

-----------------------------------------------------------------------------
Choosing(s) == step = s /\ offer = None /\ charged = None

Keep == UNCHANGED <<creditBalance, offer, balance, perListing, charged, shownTo>>

\* Step 3.  Staging a photo buys virtual staging; staging none gives it up.
toggleAsset(p) ==
  /\ Choosing(3)
  /\ stagingAssetIds' = IF p \in stagingAssetIds THEN stagingAssetIds \ {p}
                                                 ELSE stagingAssetIds \cup {p}
  /\ selectedAddons' = IF stagingAssetIds' # {} THEN selectedAddons \cup {"virtual_staging"}
                                                ELSE selectedAddons \ {"virtual_staging"}
  /\ UNCHANGED <<step, useBundle>> /\ Keep

handleSkip ==
  /\ Choosing(3)
  /\ stagingAssetIds' = {} /\ selectedAddons' = selectedAddons \ {"virtual_staging"}
  /\ step' = 4
  /\ UNCHANGED useBundle /\ Keep

\* Step 4: the bundle's card, and those of the add-ons, disabled under the bundle.
BundleCard == Choosing(4)
AddonCards == Choosing(4) /\ ~useBundle
toggleBundle ==
  /\ BundleCard
  /\ useBundle' = ~useBundle
  /\ selectedAddons' = IF useBundle THEN {} ELSE Addons
  /\ UNCHANGED <<step, stagingAssetIds>> /\ Keep

\* The third one makes it the bundle.
toggleAddon(id) ==
  /\ AddonCards
  /\ selectedAddons' = IF id \in selectedAddons THEN selectedAddons \ {id}
                                                ELSE selectedAddons \cup {id}
  /\ useBundle' = (selectedAddons' = Addons)
  /\ UNCHANGED <<step, stagingAssetIds>> /\ Keep

goNext == /\ Choosing(3) \/ Choosing(4)
          /\ step' = step + 1
          /\ UNCHANGED selection /\ Keep
goBack == /\ Choosing(4) \/ Choosing(5)
          /\ step' = step - 1
          /\ UNCHANGED selection /\ Keep

-----------------------------------------------------------------------------
\* A variant: the bundle has no price of its own.
SumOfAddons(bundle, addons) == MapThenSumSet(LAMBDA id : INDIVIDUAL_ADDONS[id], addons)

\* The price of the add-ons, on step 4 and again on step 5.
addonCost(bundle, addons) ==
  IF bundle THEN BUNDLE_CREDITS ELSE MapThenSumSet(LAMBDA id : INDIVIDUAL_ADDONS[id], addons)

totalCredits == BASE_CREDITS + addonCost(useBundle, selectedAddons)
canAfford == creditBalance # None => creditBalance >= totalCredits

handleConfirm ==
  /\ Choosing(5) /\ canAfford
  /\ offer' = [bundle |-> useBundle, addons |-> selectedAddons, total |-> totalCredits]
  /\ UNCHANGED <<step, selection, creditBalance, balance, perListing, charged, shownTo>>

\* start_pipeline: the base, then each add-on or the bundle, or nothing at all.
total_cost(o) ==
  perListing + (IF o.bundle THEN BUNDLE_PRICING
                            ELSE MapThenSumSet(LAMBDA id : SERVICE_CREDIT_COSTS[id], o.addons))

\* The plan is refreshed before the answer is shown.
Started ==
  /\ offer # None /\ balance >= total_cost(offer)
  /\ balance' = balance - total_cost(offer) /\ charged' = total_cost(offer)
  /\ shownTo' = offer.total /\ offer' = None
  /\ creditBalance' = fetchPlanData(balance')
  /\ UNCHANGED <<step, selection, perListing>>

Refused ==
  /\ offer # None
  /\ offer' = None
  /\ UNCHANGED <<step, selection, creditBalance, balance, perListing, charged, shownTo>>

\* Another tab or colleague spends; the shown balance goes stale.
Spend ==
  /\ balance > 0 /\ charged = None
  /\ balance' = 0
  /\ UNCHANGED <<step, selection, creditBalance, offer, perListing, charged, shownTo>>

Next ==
  \/ (\E p \in Photos : toggleAsset(p)) \/ handleSkip
  \/ toggleBundle \/ (\E id \in Addons : toggleAddon(id))
  \/ goNext \/ goBack
  \/ handleConfirm \/ Started \/ Refused \/ Spend

Spec == Init /\ [][Next]_vars

-----------------------------------------------------------------------------
(* "base listing is always 15" (step-addons.tsx:78): the credits charged   *)
(* are the total on the Confirm button, whatever path of toggles, skips    *)
(* and returns led to the selection (step-review-confirm.tsx:44-50, 245).  *)
ChargedAsShown == charged # None => charged = shownTo

\* Why: the price that was confirmed is that of the selection that was sent.
OfferInv == offer # None => offer.total = BASE_CREDITS + addonCost(offer.bundle, offer.addons)
=============================================================================
