------------------------------- MODULE Roster -------------------------------
(***************************************************************************)
(* What the whitelist promises, without requests, statements or answers.   *)
(*                                                                         *)
(* The roster maps every address to its entry.  Anyone with an eligible    *)
(* address may join as a member, and whoever has a shell on the server may *)
(* appoint an administrator (cmd/seed-admin); every other change happens   *)
(* while SOMEBODY ELSE is an active administrator, so no change made       *)
(* through the admin API ever leaves the platform without one.             *)
(* Whitelist.tla, the detailed specification, is shown to implement Spec.  *)
(***************************************************************************)
CONSTANTS Emails,          \* normalised addresses
          EligibleEmails   \* those ending in .nutfes@gmail.com

VARIABLE roster            \* [Emails -> Entries]

Roles == {"member", "admin"}

\* An entry keeps a role and whether it is active (disabled_at IS NULL);
\* an address that has no row is written NoEntry.
NoEntry == [role |-> "none", active |-> FALSE]
Entries == [role : Roles, active : BOOLEAN] \cup {NoEntry}

Listed(e)      == roster[e] # NoEntry
InCharge(e)    == roster[e] = [role |-> "admin", active |-> TRUE]
Administered   == \E e \in Emails : InCharge(e)
Overseen(e)    == \E a \in Emails \ {e} : InCharge(a)

Put(e, entry)  == roster' = [roster EXCEPT ![e] = entry]
-----------------------------------------------------------------------------
Init == roster = [e \in Emails |-> NoEntry]

\* A first login registers the person as an active member.
Join(e) == /\ e \in EligibleEmails
           /\ ~Listed(e)
           /\ Put(e, [role |-> "member", active |-> TRUE])

\* The command line registers an administrator, or promotes an entry
\* without touching whether it is active.
Appoint(e) == /\ e \in EligibleEmails
              /\ Put(e, IF Listed(e) THEN [roster[e] EXCEPT !.role = "admin"]
                                     ELSE [role |-> "admin", active |-> TRUE])

\* An administrator lists somebody ahead of their first login ...
Enrol(e, role) == /\ e \in EligibleEmails
                  /\ ~Listed(e)
                  /\ Overseen(e)
                  /\ Put(e, [role |-> role, active |-> TRUE])

\* ... gives them another role ...
Reassign(e, role) == /\ Listed(e)
                     /\ Overseen(e)
                     /\ Put(e, [roster[e] EXCEPT !.role = role])

\* ... keeps them out, or lets them back in.
Bar(e)     == /\ Listed(e)
              /\ Overseen(e)
              /\ Put(e, [roster[e] EXCEPT !.active = FALSE])

Readmit(e) == /\ Listed(e)
              /\ Overseen(e)
              /\ Put(e, [roster[e] EXCEPT !.active = TRUE])

Next == \E e \in Emails :
          \/ Join(e)
          \/ Appoint(e)
          \/ \E role \in Roles : Enrol(e, role) \/ Reassign(e, role)
          \/ Bar(e)
          \/ Readmit(e)

Spec == Init /\ [][Next]_roster
-----------------------------------------------------------------------------
TypeOK == roster \in [Emails -> Entries]

\* Once somebody can administer the platform, somebody always can: no step
\* takes the last active administrator away (README "last active admin").
AlwaysAdministered == [][Administered => Administered']_roster
=============================================================================
