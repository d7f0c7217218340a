------------------------------- MODULE Migrate -------------------------------
(***************************************************************************)
(* Opening the platform's database (store.Open, migrate): the server and   *)
(* the commands read PRAGMA user_version once and then apply the           *)
(* migrations after it, each in a transaction of its own that also sets    *)
(* user_version.                                                           *)
(*                                                                         *)
(* A transaction of SQLite (external) takes effect as a whole or not at    *)
(* all: that of a process that dies, or finds the file locked by another,  *)
(* has no effect.  Processes run between the transactions of each other.   *)
(***************************************************************************)
EXTENDS Naturals

CONSTANTS Processes,
          Last,         \* len(migrations)
          MaxFailures   \* how often something from outside makes a process give up

ASSUME LastAssumption    == Last \in Nat \ {0}
ASSUME FailureAssumption == MaxFailures \in Nat

VARIABLES applied,   \* the migrations whose effect is in the schema
          version,   \* PRAGMA user_version
          process,   \* the processes: where they are, the next migration
          failures,  \* how often Fail has happened
          lowered      \* history: has user_version ever been set back?
vars == <<applied, version, process, failures, lowered>>

Migrations == 1 .. Last
Process    == [pc : {"closed", "migrating", "open"}, next : 1 .. Last + 1]

\* "CREATE TABLE IF NOT EXISTS": every other migration fails the second time.
Repeatable == {1}

At(p, pc) == process[p].pc = pc
Closed    == [pc |-> "closed", next |-> 1]

\* A new file, one an earlier version of the program left, or one "created before
\* roles existed (user_version 0, table present)".
Init == /\ version \in 0 .. Last
        /\ applied = 1 .. version \/ (version = 0 /\ applied = {1})
        /\ process = [p \in Processes |-> Closed]
        /\ failures = 0
        /\ lowered = FALSE

\* A process starts and reads the version.
Start(p) ==
  /\ At(p, "closed")
  /\ process' = [process EXCEPT ![p] = [pc |-> "migrating", next |-> version + 1]]
  /\ UNCHANGED <<applied, version, failures, lowered>>

\* Variants with a plausible mistake, named "Bad...", stand before the definition
\* they would replace; only the runs that show that a property can fail use them.
BadApplyThenCount(p) ==            \* user_version is set after the commit
  LET i == process[p].next IN
  /\ At(p, "migrating") /\ i \leq Last
  /\ i \notin applied \/ i \in Repeatable
  /\ applied' = applied \cup {i}
  /\ \/ version' = i /\ process' = [process EXCEPT ![p].next = i + 1]
     \/ version' = version /\ process' = [process EXCEPT ![p] = Closed]
  /\ UNCHANGED <<failures, lowered>>

BadApplyOffByOne(p) ==         \* user_version = i + 1, where i counts from one
  LET i == process[p].next IN
  /\ At(p, "migrating") /\ i \leq Last
  /\ i \notin applied \/ i \in Repeatable
  /\ applied' = applied \cup {i}
  /\ version' = i + 1
  /\ process' = [process EXCEPT ![p].next = i + 1]
  /\ UNCHANGED <<failures, lowered>>

\* One migration and its user_version, committed.
Apply(p) ==
  LET i == process[p].next IN
  /\ At(p, "migrating") /\ i \leq Last
  /\ i \notin applied \/ i \in Repeatable
  /\ applied' = applied \cup {i}
  /\ version' = i
  /\ process' = [process EXCEPT ![p].next = i + 1]
  /\ lowered' = (lowered \/ version > i)
  /\ UNCHANGED failures

\* "duplicate column name", "table already exists": Open returns an error.
Refused(p) ==
  LET i == process[p].next IN
  /\ At(p, "migrating") /\ i \in applied /\ i \notin Repeatable
  /\ process' = [process EXCEPT ![p] = Closed]
  /\ UNCHANGED <<applied, version, failures, lowered>>

BadOpenEarly(p) ==             \* the loop ends one migration too soon
  /\ At(p, "migrating") /\ process[p].next \geq Last
  /\ process' = [process EXCEPT ![p].pc = "open"]
  /\ UNCHANGED <<applied, version, failures, lowered>>

\* Nothing is left to apply.
Open(p) ==
  /\ At(p, "migrating") /\ process[p].next > Last
  /\ process' = [process EXCEPT ![p].pc = "open"]
  /\ UNCHANGED <<applied, version, failures, lowered>>

\* SQLITE_BUSY, a full disk or a kill: the open transaction is rolled back.
Fail(p) ==
  /\ At(p, "migrating")
  /\ failures < MaxFailures /\ failures' = failures + 1
  /\ process' = [process EXCEPT ![p] = Closed]
  /\ UNCHANGED <<applied, version, lowered>>

\* A command is done, or the server stops.
Exit(p) ==
  /\ At(p, "open")
  /\ process' = [process EXCEPT ![p] = Closed]
  /\ UNCHANGED <<applied, version, failures, lowered>>

Next == \E p \in Processes : \/ Start(p) \/ Apply(p) \/ Refused(p) \/ Open(p) \/ Fail(p)
                             \/ Exit(p)

\* A process goes on, and whoever could not open the file tries again.
Fairness == \A p \in Processes : WF_vars(Start(p) \/ Apply(p) \/ Refused(p) \/ Open(p))

Spec     == Init /\ [][Next]_vars
FairSpec == Spec /\ Fairness
-----------------------------------------------------------------------------
(***************************************************************************)
(* Properties                                                              *)
(***************************************************************************)
TypeOK == /\ applied \subseteq Migrations
          /\ version \in 0 .. Last
          /\ process \in [Processes -> Process]
          /\ failures \in 0 .. MaxFailures
          /\ lowered \in BOOLEAN

\* Open "brings its schema up to date": whoever has the database open finds every
\* migration applied, whatever other processes do and whoever died on the way.
OpenIsComplete == \A p \in Processes : At(p, "open") => applied = Migrations

\* "user_version records how many have been applied", the first table apart: it
\* never counts one that is not there, and misses one only after a process that
\* read it before another one migrated has set it back.
VersionCounts ==
  /\ 1 .. version \subseteq applied
  /\ ~lowered => applied \subseteq 1 .. version \cup Repeatable

\* "Existing local databases upgrade in place": whoever keeps trying gets in, be
\* it after failures and next to other processes, unless the version was lowered.
UpgradesInPlace == \A p \in Processes : []<>(At(p, "open") \/ lowered)
-----------------------------------------------------------------------------
(***************************************************************************)
(* What the comment says and the code does not do (see README).            *)
(***************************************************************************)
\* "user_version records how many have been applied, so existing local databases
\* upgrade in place": whoever keeps trying gets in.
EverybodyGetsIn == \A p \in Processes : []<>At(p, "open")
=============================================================================
