------------------------------- MODULE MCLoyalty -------------------------------
(* Instances of Loyalty for TLC. *)
EXTENDS Loyalty

CONSTANTS a, b, i1, i2, i3, r1, w1, w2, p1, p2

\* Two invoices of a, and one of b that is worth no point; b referred a.
MCOwner == (i1 :> a) @@ (i2 :> a) @@ (i3 :> b)
MCPoints == (i1 :> 1) @@ (i2 :> 2) @@ (i3 :> 0)
MCReferrer == r1 :> b
MCReferred == r1 :> a
MCBonus == r1 :> 2

================================================================================
