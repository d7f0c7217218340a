------------------------------ MODULE MCMigrate ------------------------------
(***************************************************************************)
(* Instances of Migrate for TLC: the server and one or two commands.       *)
(***************************************************************************)
EXTENDS Migrate

CONSTANTS server, command1, command2

Two   == {server, command1}
Three == {server, command1, command2}
=============================================================================
