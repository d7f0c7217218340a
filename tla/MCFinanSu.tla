------------------------------ MODULE MCFinanSu ------------------------------
(***************************************************************************)
(* Instance of FinanSu for TLC: two requests at once, with tokens for the  *)
(* sessions they issue and for those they are to replace.                  *)
(***************************************************************************)
EXTENDS FinanSu, TLC

CONSTANTS u1, u2, a1, a2, s1, s2, t1, t2, c1, c2

MCUsers  == {u1, u2}
MCEmails == {a1, a2}
MCSubs   == {s1, s2}
MCTokens == {t1, t2}
MCCalls  == {c1, c2}

Symmetry == Permutations(Users) \cup Permutations(Emails) \cup Permutations(Subs)
              \cup Permutations(AccessTokens) \cup Permutations(Calls)
=============================================================================
