------------------------------ MODULE Delivery ------------------------------
(***************************************************************************)
(* When a delivered listing is complete: what is asked of a pipeline, and  *)
(* of the people around it.                                                *)
(***************************************************************************)
EXTENDS PipelineJobs

\* Steps whose row may be satisfied though what they require is not: a gated step
\* is skipped unseen, and the gate is opened by a reviewer, whom packaging's agent
\* lets in before its own row is done.
Passable == GatedSteps \cup {AwaitReview}

\* What is reached from S along `up' edges in as many rounds as there are steps: the
\* walk of transitive_requires.
Reach(up, S) ==
    LET Up[n \in Nat] ==
          IF n = 0 THEN S
          ELSE LET found == Up[n-1]
               IN  found \cup UNION {up[d] : d \in found}
    IN  Up[Cardinality(Steps)]

\* What distribution requires, followed only through steps that have run.
RanRequires == [s \in Steps |-> IF s \in Passable THEN {} ELSE Requires[s]]
SureRequires == Reach(RanRequires, Requires[Distribution])

\* In PIPELINE every step that leads to distribution also leads there by a way
\* without add-ons, switched-off features and the gate.
ASSUME StepsFinite == IsFiniteSet(Steps)
ASSUME DeliveryIsCovered == TransitiveRequires[Distribution] \subseteq SureRequires

\* Nobody retries the listing, and add-ons are bought before its rows exist.
Undisturbed == (Retry \/ \E a \in Addons : ActivateAddon(a)) => NoRows

UndisturbedSpec == Init /\ [][Next /\ Uninterrupted /\ Undisturbed]_vars

Began(s) == status[s] \in {"running", "done", "failed"} \/ \E k \in Slots : run[k].phase # "idle" /\ run[k].step = s
BeganIsReady ==
    \A s \in Steps \ {AwaitReview} : Began(s) => \A d \in Requires[s] : Satisfied(d)
=============================================================================
