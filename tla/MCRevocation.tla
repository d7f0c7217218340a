---------------------------- MODULE MCRevocation ----------------------------
(***************************************************************************)
(* Instances of Revocation for TLC: ann, bob are people, s1 the sub of     *)
(* ann, p1, p2 products.                                                   *)
(***************************************************************************)
EXTENDS Revocation, TLC

CONSTANTS ann, bob, s1, p1, p2, l1, l2, r1, r2

Ann         == {ann}
Both        == {ann, bob}
OneSub      == {s1}
OneClient   == {p1}
TheOther    == {p2}
TwoClients  == {p1, p2}
OneLogin    == {l1}
TwoLogins   == {l1, l2}
OneRev      == {r1}
TwoRevs     == {r1, r2}
Nobody      == {}

OfAnn       == s1 :> ann

Symmetry == Permutations(TwoLogins) \cup Permutations(TwoRevs)
=============================================================================
