---------------------------- MODULE MCBulkScreen ----------------------------
(***************************************************************************)
(* An instance of BulkScreen for TLC.  Day 1 begins in Japan at hour 15:   *)
(* m1, who has an entry year, was created in the hour before, m2 in it.    *)
(***************************************************************************)
EXTENDS BulkScreen, TLC

CONSTANTS m1, m2, q1, q2, r1

Two         == {m1, m2}
Years       == m1 :> {22} @@ m2 :> {}
Hours       == m1 :> 14 @@ m2 :> 15
TwoPreviews == {q1, q2}
OneRun      == {r1}

Fields(from, to, first, last) ==
  [yearFrom |-> from, yearTo |-> to, dayFrom |-> first, dayTo |-> last]
SomeForms == {Blank, Fields({22}, {22}, {}, {}), Fields({}, {21}, {}, {}),
              Fields({}, {}, {1}, {1}), Fields({}, {22}, {}, {0})}

Symmetry == Permutations(Previews)
=============================================================================
