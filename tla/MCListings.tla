------------------------------ MODULE MCListings ------------------------------
(* Listings where every assessment has three findings, two of one severity, an *)
(* asset, and two pieces of evidence that were collected at different times.   *)
EXTENDS Listings, TLC

CONSTANTS f1, f2, f3, x1, e1, e2

MCKindOf ==
    [c \in {f1, f2, f3} |-> "findings"] @@ (x1 :> "assets")
        @@ [c \in {e1, e2} |-> "evidence"]

MCLabelOf ==
    [c \in {f1, f2} |-> "high"] @@ (f3 :> "low") @@ (x1 :> "host")
        @@ [c \in {e1, e2} |-> "accounts"]

MCCollected == [c \in {f1, f2, f3, x1, e1} |-> 0] @@ (e2 :> 1)

Symmetry == Permutations(Assessments) \cup Permutations({f1, f2})
===============================================================================
