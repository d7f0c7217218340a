--------------------------- MODULE MCFirebaseUsers ---------------------------
(***************************************************************************)
(* Instances of FirebaseUsers for TLC: a1 is on the whitelist, a2 is not;  *)
(* uids u1 to u4, sign-ins c1, c2, c3.                                     *)
(***************************************************************************)
EXTENDS FirebaseUsers, TLC

CONSTANTS a1, a2, u1, u2, u3, u4, c1, c2, c3

TwoEmails  == {a1, a2}
OneEmail   == {a1}
FourUids   == {u1, u2, u3, u4}
ThreeCalls == {c1, c2, c3}

Symmetry == Permutations(Uids) \cup Permutations(Calls)
=============================================================================
