---------------------------- MODULE CreditLedger ----------------------------
(***************************************************************************)
(* The prepaid credits of one tenant: its account with two pools, the      *)
(* transactions posted to it (services/credits.py), the listings and       *)
(* add-ons they pay for, and the handlers that post them.                  *)
(*                                                                         *)
(* Handlers that hold the listing's row lock from their first check to     *)
(* their commit are one action.  The others check without a lock, then     *)
(* wait for the account's row lock and commit: they are two actions, with  *)
(* the request in between.  A handler that raises rolls back, so an error  *)
(* after the first check only frees the request.                           *)
(***************************************************************************)
EXTENDS Integers, Sequences

CONSTANTS
    Listings, Addons,
    Included,       \* included_credits of each plan
    RolloverCap,    \* rollover_cap of each plan
    ListingCost,    \* per_listing_credit_cost of every plan
    DefaultCost,    \* ... and of a tenant no plan was applied to
    AddonCost, BundleCost,
    TopUps,         \* Stripe events of paid credit bundles
    TopUpSize,
    Adjustments,    \* amounts an administrator may post
    Requests        \* requests in flight

Plans == DOMAIN Included

ASSUME Prices ==
    /\ {ListingCost, DefaultCost, BundleCost, TopUpSize} \subseteq Nat \ {0}
    /\ AddonCost \in [Addons -> Nat \ {0}]
ASSUME PlanTypes ==
    Included \in [Plans -> Nat] /\ RolloverCap \in [Plans -> Nat]
ASSUME AdjustmentTypes == Adjustments \subseteq Int \ {0}

VARIABLES
    tenant,     \* plan, included_credits and per_listing_credit_cost
    books,      \* credit_accounts row and credit_transactions, in commit order
    state,      \* state[l]: listings.state, or "DELETED"
    purchases,  \* purchases[l][a]: addon_purchases.status and .bundle_id
    request     \* request[p]: what p has checked and not yet committed

vars == <<tenant, books, state, purchases, request>>

ListingStates == {"DRAFT", "UPLOADING", "ANALYZING", "AWAITING_REVIEW", "IN_REVIEW",
                  "APPROVED", "EXPORTING", "DELIVERED", "PIPELINE_TIMEOUT", "FAILED",
                  "CANCELLED", "DELETED"}

Idle == [op |-> "none"]
NotBought == [status |-> "none", bundle |-> FALSE]

\* reference_type and reference_id
ListingRef(l) == <<"listing", l>>
AddonRef(l, a) == <<"addon", l, a>>
BundleRef(l) == <<"bundle", l>>
RemovalRef(l, a) == <<"addon", l, a, "refund">>
EventRef(e) == <<"stripe_event", e>>
NoRef == <<>>

-----------------------------------------------------------------------------
(* CreditService.                                                          *)

Balance == books.account.balance
Ledger == books.ledger

Entries(type, ref) == {i \in DOMAIN Ledger : Ledger[i].type = type /\ Ledger[i].ref = ref}

Lesser(m, n) == IF m <= n THEN m ELSE n

Entry(type, ref, amount, after) ==
    [type |-> type, ref |-> ref, amount |-> amount, after |-> after]

Moved(account, amount, granted, purchased) ==
    [account EXCEPT !.balance = @ + amount, !.granted = @ + granted, !.purchased = @ + purchased]

\* The books after a transaction of this amount, and what it moves in each pool.
Posted(b, type, ref, amount, granted, purchased) ==
    [account |-> Moved(b.account, amount, granted, purchased),
     ledger |-> Append(b.ledger, Entry(type, ref, amount, b.account.balance + amount))]

\* Variants: granted credits alone, and granted credits last.
AllGranted(n, account) == n
GrantedLast(n, account) == n - Lesser(n, account.purchased)

\* What a debit of n takes from the granted pool: all it can.
FromGranted(n, account) == Lesser(n, account.granted)

\* deduct_credits, once the balance is known to cover n
Debit(b, type, ref, n) ==
    LET granted == FromGranted(n, b.account)
    IN  Posted(b, type, ref, -n, -granted, granted - n)

\* add_credits: purchases and refunds go to the purchased pool
Credit(b, type, ref, n) ==
    IF type \in {"purchase", "refund"} THEN Posted(b, type, ref, n, 0, n)
                                       ELSE Posted(b, type, ref, n, n, 0)

\* A variant that leaves the balance as it was.
ExpiredQuietly(b, expired) ==
    [Posted(b, "expiry", NoRef, -expired, -expired, 0) EXCEPT !.account.balance = b.account.balance]
\* process_period_renewal: granted credits above the account's cap expire
Expired(b, expired) == Posted(b, "expiry", NoRef, -expired, -expired, 0)

Renewed(b, included) ==
    LET expired == b.account.granted - Lesser(b.account.granted, b.account.cap)
        kept    == IF expired > 0 THEN Expired(b, expired) ELSE b
    IN  Credit(kept, "plan_grant", NoRef, included)

\* The idempotency checks of deduct_credits and add_credits.
Debited(type, ref) == \E i \in Entries(type, ref) : Ledger[i].amount < 0
\* A variant without the check.
NeverCredited(type, ref) == FALSE
Credited(type, ref) == \E i \in Entries(type, ref) : Ledger[i].amount > 0

\* refund_credits: give back what the listing was charged, once
RefundListing(l) ==
    LET charges == Entries("listing_debit", ListingRef(l)) IN
    \/ /\ ~Credited("refund", ListingRef(l))
       /\ \E i \in charges :
            books' = Credit(books, "refund", ListingRef(l), -Ledger[i].amount)
    \/ charges = {} /\ UNCHANGED books

-----------------------------------------------------------------------------
(* Handlers under the listing's row lock.                                  *)

\* A variant without the unique constraint.
AlwaysUnsold(l, a) == TRUE

\* addon_purchases holds one row per listing and add-on, whatever its status.
Unsold(l, a) == purchases[l][a].status = "none"

Sold(l, S, bundle) ==
    [purchases EXCEPT ![l] =
        [a \in Addons |-> IF a \in S THEN [status |-> "active", bundle |-> bundle] ELSE @[a]]]

Removed(l, a) == [purchases EXCEPT ![l][a].status = "refunded"]

\* start_pipeline: the listing, then the add-on it selects (this model: at most
\* one) or the bundle of all of them.  What the tenant cannot pay or bought before
\* undoes the whole request.
StartPipeline(l) ==
    LET paid == Debit(books, "listing_debit", ListingRef(l), tenant.cost) IN
    /\ state[l] = "DRAFT" /\ ~Debited("listing_debit", ListingRef(l))
    /\ Balance >= tenant.cost
    /\ \/ books' = paid /\ UNCHANGED purchases
       \/ \E a \in Addons :
            /\ ~Debited("addon_debit", AddonRef(l, a)) /\ Unsold(l, a)
            /\ paid.account.balance >= AddonCost[a]
            /\ books' = Debit(paid, "addon_debit", AddonRef(l, a), AddonCost[a])
            /\ purchases' = Sold(l, {a}, FALSE)
       \/ /\ ~Debited("addon_debit", BundleRef(l)) /\ \A a \in Addons : Unsold(l, a)
          /\ paid.account.balance >= BundleCost
          /\ books' = Debit(paid, "addon_debit", BundleRef(l), BundleCost)
          /\ purchases' = Sold(l, Addons, TRUE)
    /\ state' = [state EXCEPT ![l] = "UPLOADING"]
    /\ UNCHANGED <<tenant, request>>

\* cancel_listing.  A listing refunded before cannot be cancelled again.
Cancel(l) ==
    /\ state[l] \in {"DRAFT", "UPLOADING", "FAILED", "PIPELINE_TIMEOUT", "ANALYZING",
                     "AWAITING_REVIEW", "IN_REVIEW"}
    /\ RefundListing(l)
    /\ state' = [state EXCEPT ![l] = "CANCELLED"]
    /\ UNCHANGED <<tenant, purchases, request>>

\* delete_listing
Delete(l) ==
    /\ state[l] # "DELETED"
    /\ IF state[l] \in {"DRAFT", "UPLOADING", "ANALYZING", "FAILED"}
       THEN RefundListing(l) ELSE UNCHANGED books
    /\ state' = [state EXCEPT ![l] = "DELETED"]
    /\ purchases' = [purchases EXCEPT ![l] = [a \in Addons |-> NotBought]]
    /\ UNCHANGED <<tenant, request>>

\* The runner, its agents and the reviewers move a listing that was started; an
\* agent in flight does not look at the state it overwrites.
Progress(l) ==
    /\ Debited("listing_debit", ListingRef(l)) /\ state[l] # "DELETED"
    /\ \E st \in ListingStates \ {"DRAFT", "CANCELLED", "DELETED"} :
        state' = [state EXCEPT ![l] = st]
    /\ UNCHANGED <<tenant, books, purchases, request>>

-----------------------------------------------------------------------------
(* Handlers that check first and lock later.                               *)

Begin(p, r) ==
    /\ request[p] = Idle
    /\ request' = [request EXCEPT ![p] = r]
    /\ UNCHANGED <<tenant, books, state, purchases>>

\* The request ends; it commits if it can, else it has raised and rolled back.
End(p, commit, rollback) ==
    /\ request' = [request EXCEPT ![p] = Idle]
    /\ commit \/ (rollback /\ UNCHANGED <<books, purchases>>)
    /\ UNCHANGED <<tenant, state>>

Buyable == {"DRAFT", "UPLOADING", "AWAITING_REVIEW", "IN_REVIEW", "APPROVED",
            "EXPORTING", "DELIVERED"}

\* activate_addon.  The re-run of the add-on's steps raises if it has to move a
\* listing that was deleted meanwhile.
ActivateAddonBegin(p, l, a) ==
    /\ state[l] \in Buyable /\ Unsold(l, a)
    /\ ~Debited("addon_debit", AddonRef(l, a))
    /\ Begin(p, [op |-> "addon", l |-> l, a |-> a])

ActivateAddonEnd(p) ==
    /\ request[p].op = "addon"
    /\ LET l == request[p].l
           a == request[p].a
           possible == Balance >= AddonCost[a] /\ Unsold(l, a)
       IN  End(p, /\ possible
                  /\ books' = Debit(books, "addon_debit", AddonRef(l, a), AddonCost[a])
                  /\ purchases' = Sold(l, {a}, FALSE),
               ~possible \/ state[l] = "DELETED")

\* activate_addon with the bundle: only the add-ons not bought yet get a row
ActivateBundleBegin(p, l) ==
    /\ state[l] \in Buyable /\ \A a \in Addons : ~purchases[l][a].bundle
    /\ ~Debited("addon_debit", BundleRef(l))
    /\ Begin(p, [op |-> "bundle", l |-> l])

ActivateBundleEnd(p) ==
    /\ request[p].op = "bundle"
    /\ LET l == request[p].l IN
       End(p, /\ Balance >= BundleCost
              /\ books' = Debit(books, "addon_debit", BundleRef(l), BundleCost)
              /\ purchases' = Sold(l, {a \in Addons : Unsold(l, a)}, TRUE),
           Balance < BundleCost \/ state[l] = "DELETED")

\* remove_addon: the purchase's own status is not looked at
RemoveAddonBegin(p, l, a) ==
    /\ state[l] \in {"DRAFT", "UPLOADING", "AWAITING_REVIEW"} /\ ~Unsold(l, a)
    /\ ~Credited("refund", RemovalRef(l, a))
    /\ Begin(p, [op |-> "remove", l |-> l, a |-> a])

RemoveAddonEnd(p) ==
    /\ request[p].op = "remove"
    /\ LET l == request[p].l
           a == request[p].a
       IN  End(p, /\ ~Unsold(l, a)
                  /\ books' = Credit(books, "refund", RemovalRef(l, a), AddonCost[a])
                  /\ purchases' = Removed(l, a),
               Unsold(l, a))

\* checkout.session.completed for a credit bundle; Stripe may deliver it again
TopUpBegin(p, e) ==
    /\ ~Credited("purchase", EventRef(e))
    /\ Begin(p, [op |-> "topup", e |-> e])

TopUpEnd(p) ==
    /\ request[p].op = "topup"
    /\ End(p, /\ books' = Credit(books, "purchase", EventRef(request[p].e), TopUpSize)
              /\ UNCHANGED purchases,
           FALSE)

\* adjust_credits: reads the balance without a lock and writes it back, changed
AdjustBegin(p, amount) ==
    /\ Balance + amount >= 0
    /\ Begin(p, [op |-> "adjust", amount |-> amount, read |-> Balance])

AdjustEnd(p) ==
    /\ request[p].op = "adjust"
    /\ LET amount == request[p].amount
           after  == request[p].read + amount
       IN  End(p, /\ books' = [account |-> Moved(books.account, after - Balance, 0, 0),
                               ledger |-> Append(Ledger, Entry("admin_adjustment", NoRef,
                                                               amount, after))]
                  /\ UNCHANGED purchases,
               FALSE)

-----------------------------------------------------------------------------
(* The subscription.                                                       *)

\* invoice.paid, under the account's lock from its first read
InvoicePaid ==
    /\ tenant.included > 0
    /\ books' = Renewed(books, tenant.included)
    /\ UNCHANGED <<tenant, state, purchases, request>>

\* apply_plan_credits on customer.subscription.*: it changes the tenant only
ChangePlan ==
    /\ \E p \in Plans : tenant' = [plan |-> p, included |-> Included[p], cost |-> ListingCost]
    /\ UNCHANGED <<books, state, purchases, request>>

\* register: the account opens with the plan's credits and its cap; the tenant has
\* the plan's name and the defaults of its columns.
Init ==
    /\ tenant \in [plan : Plans, included : {0}, cost : {DefaultCost}]
    /\ books = [account |-> [balance |-> Included[tenant.plan],
                             granted |-> Included[tenant.plan],
                             purchased |-> 0, cap |-> RolloverCap[tenant.plan]],
                ledger |-> <<>>]
    /\ state = [l \in Listings |-> "DRAFT"]
    /\ purchases = [l \in Listings |-> [a \in Addons |-> NotBought]]
    /\ request = [p \in Requests |-> Idle]

ListingStep(l) == StartPipeline(l) \/ Cancel(l) \/ Delete(l) \/ Progress(l)

RequestBegin(p) ==
    \/ \E l \in Listings, a \in Addons : ActivateAddonBegin(p, l, a) \/ RemoveAddonBegin(p, l, a)
    \/ \E l \in Listings : ActivateBundleBegin(p, l)
    \/ \E e \in TopUps : TopUpBegin(p, e)

RequestEnd(p) ==
    ActivateAddonEnd(p) \/ ActivateBundleEnd(p) \/ RemoveAddonEnd(p) \/ TopUpEnd(p)

\* What customers and Stripe do.
CustomerNext ==
    \/ \E l \in Listings : ListingStep(l)
    \/ \E p \in Requests : RequestBegin(p) \/ RequestEnd(p)
    \/ InvoicePaid \/ ChangePlan

\* ... and the administrators.
Next ==
    \/ CustomerNext
    \/ \E p \in Requests : AdjustEnd(p) \/ \E amount \in Adjustments : AdjustBegin(p, amount)

CustomerSpec == Init /\ [][CustomerNext]_vars
Spec == Init /\ [][Next]_vars

-----------------------------------------------------------------------------
(* Properties of CustomerSpec.                                             *)

TenantType == [plan : Plans, included : Nat, cost : Nat \ {0}]
AccountType == [balance : Int, granted : Nat, purchased : Nat, cap : Nat]
Refs == {NoRef} \cup {ListingRef(l) : l \in Listings} \cup {BundleRef(l) : l \in Listings}
         \cup {AddonRef(l, a) : l \in Listings, a \in Addons}
         \cup {RemovalRef(l, a) : l \in Listings, a \in Addons}
         \cup {EventRef(e) : e \in TopUps}
EntryType ==
    [type : {"plan_grant", "expiry", "purchase", "listing_debit", "addon_debit", "refund",
             "admin_adjustment"},
     ref : Refs, amount : Int, after : Int]
PurchaseType == [status : {"none", "active", "refunded"}, bundle : BOOLEAN]
RequestType ==
    {Idle} \cup [op : {"addon", "remove"}, l : Listings, a : Addons]
           \cup [op : {"bundle"}, l : Listings] \cup [op : {"topup"}, e : TopUps]
           \cup [op : {"adjust"}, amount : Adjustments, read : Int]

\* The tenant, its books, listings, purchases and requests have their types, and
\* neither pool is ever overdrawn.
TypeOK ==
    /\ tenant \in TenantType
    /\ books \in [account : AccountType, ledger : Seq(EntryType)]
    /\ state \in [Listings -> ListingStates]
    /\ purchases \in [Listings -> [Addons -> PurchaseType]]
    /\ request \in [Requests -> RequestType]

\* The two pools of the account add up to its balance, which the API shows and
\* every debit is checked against.
PoolsAddUp == Balance = books.account.granted + books.account.purchased

\* The transactions explain the balance: each one starts from the balance the one
\* before it left, and the last one left the balance the account has.
LedgerChains ==
    /\ \A i \in 2..Len(Ledger) : Ledger[i].after = Ledger[i-1].after + Ledger[i].amount
    /\ Ledger # <<>> => Ledger[Len(Ledger)].after = Balance

\* "granted credits are consumed first": purchased credits are only spent, however
\* many debits a commit holds, when no granted ones are left.
GrantedFirst ==
    [][books'.account.purchased < books.account.purchased => books'.account.granted = 0]_vars

-----------------------------------------------------------------------------
(* Properties of Spec.                                                     *)

\* A listing's charge is given back at most once, whichever of cancel and delete
\* gives it, and only after it was taken.
ListingRefundedOnce ==
    \A l \in Listings : \A i, j \in Entries("refund", ListingRef(l)) :
        /\ i = j
        /\ \E k \in Entries("listing_debit", ListingRef(l)) :
            k < i /\ Ledger[k].amount = -Ledger[i].amount

\* As long as the listing exists, none of its add-ons is charged twice by itself,
\* even if two requests for it check at the same time.
AddonChargedOnce ==
    \A l \in Listings, a \in Addons :
        state[l] # "DELETED" =>
            \A i, j \in Entries("addon_debit", AddonRef(l, a)) : i = j

-----------------------------------------------------------------------------
(* What the repository says and the code does not keep (see the README).   *)

\* "Idempotency check", "Idempotency for purchases/grants": a charge, a top-up or a
\* refund that names a reference is posted once, however often and however close
\* together it is asked for ("only granted once").
PostedOnce ==
    \A i, j \in DOMAIN Ledger :
        Ledger[i].ref # NoRef /\ Ledger[i].type = Ledger[j].type /\ Ledger[i].ref = Ledger[j].ref
            => i = j

\* "unused credits carry over to the next month, up to your plan's rollover cap"
RolloverFollowsPlan ==
    [][InvoicePaid =>
         books'.account.granted
            = Lesser(books.account.granted, RolloverCap[tenant.plan]) + tenant.included]_vars
=============================================================================
