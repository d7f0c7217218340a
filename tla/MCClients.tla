------------------------------ MODULE MCClients ------------------------------
(***************************************************************************)
(* Instances of Clients for TLC: a product p and two concurrent calls.     *)
(***************************************************************************)
EXTENDS Clients, TLC

CONSTANTS p, c1, c2

OneProduct  == {p}
TwoCalls    == {c1, c2}
AnyUrl      == {"", "https://p.example/revocations"}

CallSymmetry == Permutations(Calls)
=============================================================================
