------------------------- MODULE ReviewedPublishing -------------------------
(***************************************************************************)
(* What the pipeline promises a human reviewer: a listing is approved once *)
(* and for good, and nothing that follows the review is published before.  *)
(* Publishing may be undone and redone (retries, hand-backs, re-runs).     *)
(***************************************************************************)
CONSTANT Publishable    \* what may only be published after the approval
VARIABLES
    approved,   \* the approval was given
    published   \* the part of Publishable that is being or was published

Init == approved = FALSE /\ published = {}

Approve == ~approved /\ approved' = TRUE /\ UNCHANGED published

Publish ==
    /\ approved /\ UNCHANGED approved
    /\ published' \in SUBSET Publishable

Next == Approve \/ Publish

Spec == Init /\ [][Next]_<<approved, published>>
=============================================================================
