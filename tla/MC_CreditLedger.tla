-------------------------- MODULE MC_CreditLedger --------------------------
(* CreditLedger on small prices, with bounds on what may repeat.           *)
EXTENDS CreditLedger, FiniteSets, TLC

CONSTANTS
    MaxLedger,      \* how many transactions may be posted
    Invoices,       \* invoice.paid events
    MaxDeliveries   \* how often Stripe delivers one of them
VARIABLE deliveries \* deliveries[v]: how often v was delivered
mcvars == <<vars, deliveries>>

\* Stripe delivers an event at least once.
Deliver(v) ==
    /\ deliveries[v] < MaxDeliveries
    /\ deliveries' = [deliveries EXCEPT ![v] = @ + 1]
    /\ InvoicePaid

\* The states that stand for their group in the guards of the handlers.
Shown == {"UPLOADING", "AWAITING_REVIEW", "DELIVERED", "FAILED"}

Undelivered ==
    \/ \E l \in Listings : StartPipeline(l) \/ Cancel(l) \/ Delete(l)
                           \/ (Progress(l) /\ state'[l] \in Shown)
    \/ \E p \in Requests : RequestBegin(p) \/ RequestEnd(p)
    \/ ChangePlan

Adjust ==
    \E p \in Requests : AdjustEnd(p) \/ \E amount \in Adjustments : AdjustBegin(p, amount)

MCInit == Init /\ deliveries = [v \in Invoices |-> 0]
MCNext ==
    /\ Len(Ledger) < MaxLedger
    /\ \/ (Undelivered \/ Adjust) /\ UNCHANGED deliveries
       \/ \E v \in Invoices : Deliver(v)
MCSpec == MCInit /\ [][MCNext]_mcvars
MCCustomerSpec == MCInit /\ [][MCNext /\ ~Adjust]_mcvars

\* "event_id = event.id  # Used as reference_id for idempotency": a paid invoice
\* grants its credits once.
InvoiceGrantedOnce ==
    Cardinality(Entries("plan_grant", NoRef))
        <= Cardinality({v \in Invoices : deliveries[v] > 0})

TwoPlans == [p \in {"free", "lite"} |-> IF p = "free" THEN 0 ELSE 3]
TwoCaps == [p \in {"free", "lite"} |-> IF p = "free" THEN 0 ELSE 2]
OnePlan == [p \in {"lite"} |-> 3]
OneCap == [p \in {"lite"} |-> 2]
Interchangeable == Permutations(Requests)
OneAddon == [a \in {"staging"} |-> 2]
=============================================================================
