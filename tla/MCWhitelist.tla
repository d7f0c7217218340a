---------------------------- MODULE MCWhitelist ----------------------------
(***************************************************************************)
(* Instances of Whitelist for TLC.  a, b are eligible addresses, x is not. *)
(***************************************************************************)
EXTENDS Whitelist, TLC

CONSTANTS a, b, x, r1, r2

TwoPeople   == {a, b}
PeopleAndX  == {a, b, x}
TwoRequests == {r1, r2}

Symmetry == Permutations({a, b}) \cup Permutations({r1, r2})
=============================================================================
