-------------------------------- MODULE MCGm2 --------------------------------
(***************************************************************************)
(* Instances of Gm2 for TLC: addresses a1, a2, a login s1 whose address    *)
(* changed, requests c1, c2, c3 and tokens t1, t2, t3.                     *)
(***************************************************************************)
EXTENDS Gm2, TLC

CONSTANTS a1, a2, s1, c1, c2, c3, t1, t2, t3

TwoEmails   == {a1, a2}
OneSub      == {s1}
ThreeCalls  == {c1, c2, c3}
ThreeTokens == {t1, t2, t3}
BothVouched == s1 :> {a1, a2}

Symmetry == Permutations(Emails) \cup Permutations(Tokens) \cup Permutations(Calls)
=============================================================================
