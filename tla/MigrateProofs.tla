---------------------------- MODULE MigrateProofs ----------------------------
(***************************************************************************)
(* Proofs about Migrate, for any number of processes, migrations and       *)
(* failures.                                                               *)
(***************************************************************************)
EXTENDS Migrate, TLAPS

\* A process that is past some migrations finds them applied, whoever did it.
PastIsApplied ==
  \A p \in Processes : ~At(p, "closed") => 1 .. process[p].next - 1 \subseteq applied
OpenIsPast == \A p \in Processes : At(p, "open") => process[p].next = Last + 1

IInv == TypeOK /\ VersionCounts /\ PastIsApplied /\ OpenIsPast
-----------------------------------------------------------------------------
LEMMA InitIInv == Init => IInv
<1>. SUFFICES ASSUME Init PROVE IInv
  OBVIOUS
<1>0. Last \in Nat \ {0} /\ MaxFailures \in Nat
  BY LastAssumption, FailureAssumption
<1>1. applied \subseteq Migrations /\ version \in 0 .. Last
  BY <1>0 DEF Init, Migrations
<1>2. Closed \in Process /\ process \in [Processes -> Process]
  BY <1>0 DEF Init, Closed, Process
<1>3. TypeOK
  <2>1. failures \in 0 .. MaxFailures
    BY <1>0 DEF Init
  <2>2. lowered \in BOOLEAN
    BY DEF Init
  <2>. QED
    BY <1>1, <1>2, <2>1, <2>2 DEF TypeOK
<1>4. VersionCounts
  BY <1>0 DEF Init, VersionCounts, Repeatable
<1>5. PastIsApplied /\ OpenIsPast
  BY DEF Init, PastIsApplied, OpenIsPast, At, Closed
<1>. QED
  BY <1>3, <1>4, <1>5 DEF IInv

\* A process that moves to where it may be, nothing of the database changing.
LEMMA ProcessStep ==
  ASSUME IInv, NEW p \in Processes, NEW k \in Process, process' = [process EXCEPT ![p] = k],
         k.pc # "closed" => 1 .. k.next - 1 \subseteq applied,
         k.pc = "open" => k.next = Last + 1,
         UNCHANGED <<applied, version, lowered>>, failures' \in 0 .. MaxFailures
  PROVE  IInv'
<1>1. TypeOK'
  BY DEF IInv, TypeOK
<1>2. VersionCounts'
  BY DEF IInv, VersionCounts
<1>3. PastIsApplied' /\ OpenIsPast'
  BY DEF IInv, TypeOK, PastIsApplied, OpenIsPast, At
<1>. QED
  BY <1>1, <1>2, <1>3 DEF IInv

LEMMA Inductive == IInv /\ [Next]_vars => IInv'
<1>. SUFFICES ASSUME IInv, [Next]_vars PROVE IInv'
  OBVIOUS
<1>0. /\ applied \subseteq Migrations /\ version \in 0 .. Last /\ lowered \in BOOLEAN
      /\ process \in [Processes -> Process] /\ failures \in 0 .. MaxFailures
      /\ Last \in Nat \ {0} /\ MaxFailures \in Nat
  BY LastAssumption, FailureAssumption DEF IInv, TypeOK
<1>1. CASE UNCHANGED vars
  BY <1>1 DEF vars, IInv, TypeOK, VersionCounts, PastIsApplied, OpenIsPast, At
<1>2. ASSUME NEW p \in Processes, process' = [process EXCEPT ![p] = Closed],
             UNCHANGED <<applied, version, lowered>>, failures' \in 0 .. MaxFailures
      PROVE  IInv'
  <2>1. Closed \in Process /\ Closed.pc = "closed"
    BY <1>0 DEF Closed, Process
  <2>. QED
    BY <1>2, <2>1, ProcessStep
<1>3. ASSUME NEW p \in Processes, Start(p) PROVE IInv'
  <2>. DEFINE k == [pc |-> "migrating", next |-> version + 1]
  <2>1. k \in Process /\ 1 .. k.next - 1 \subseteq applied
    BY <1>0 DEF Process, IInv, VersionCounts
  <2>. QED
    BY <1>0, <1>3, <2>1, ProcessStep DEF Start
<1>4. ASSUME NEW p \in Processes, Apply(p) PROVE IInv'
  <2>. DEFINE i == process[p].next
  <2>1. i \in 1 .. Last /\ 1 .. i - 1 \subseteq applied
    BY <1>0, <1>4 DEF Apply, At, Process, IInv, PastIsApplied
  <2>2. /\ applied' = applied \cup {i} /\ version' = i
        /\ process' = [process EXCEPT ![p].next = i + 1]
        /\ lowered' = (lowered \/ version > i)
        /\ UNCHANGED failures
    BY <1>4 DEF Apply
  <2>3. 1 .. i \subseteq applied'
    BY <2>1, <2>2
  <2>4. process' \in [Processes -> Process]
    BY <1>0, <2>1, <2>2 DEF Process
  <2>5. TypeOK'
    BY <1>0, <2>1, <2>2, <2>4 DEF TypeOK, Migrations
  <2>6. VersionCounts'
    <3>1. ASSUME ~lowered' PROVE applied' \subseteq 1 .. i \cup Repeatable
      <4>0. ~lowered /\ ~(version > i)
        BY <2>2, <3>1, Zenon
      <4>1. version \leq i /\ applied \subseteq 1 .. version \cup Repeatable
        BY <1>0, <2>1, <4>0 DEF IInv, VersionCounts
      <4>. QED
        BY <1>0, <2>1, <2>2, <4>1
    <3>. QED
      BY <2>2, <2>3, <3>1 DEF VersionCounts
  <2>7. PastIsApplied'
    <3>1. ASSUME NEW q \in Processes, ~At(q, "closed")'
          PROVE  1 .. process'[q].next - 1 \subseteq applied'
      <4>1. CASE q = p
        BY <1>0, <2>1, <2>2, <2>3, <4>1 DEF Process
      <4>2. CASE q # p
        BY <1>0, <2>2, <3>1, <4>2 DEF At, IInv, PastIsApplied
      <4>. QED
        BY <4>1, <4>2
    <3>. QED
      BY <3>1 DEF PastIsApplied
  <2>8. OpenIsPast'
    BY <1>0, <1>4, <2>2 DEF Apply, At, IInv, OpenIsPast, Process
  <2>. QED
    BY <2>5, <2>6, <2>7, <2>8 DEF IInv
<1>5. ASSUME NEW p \in Processes, Refused(p) \/ Exit(p) PROVE IInv'
  BY <1>0, <1>2, <1>5 DEF Refused, Exit
<1>6. ASSUME NEW p \in Processes, Open(p) PROVE IInv'
  <2>. DEFINE k == [process[p] EXCEPT !.pc = "open"]
  <2>1. /\ process[p].next = Last + 1
        /\ 1 .. process[p].next - 1 \subseteq applied
    BY <1>0, <1>6 DEF Open, At, Process, IInv, PastIsApplied
  <2>2. k \in Process /\ k.next = process[p].next
    BY <1>0 DEF Process
  <2>3. process' = [process EXCEPT ![p] = k] /\ UNCHANGED <<applied, version, failures, lowered>>
    BY <1>0, <1>6 DEF Open
  <2>. HIDE DEF k
  <2>. QED
    BY <1>0, <2>1, <2>2, <2>3, ProcessStep
<1>7. ASSUME NEW p \in Processes, Fail(p) PROVE IInv'
  <2>1. failures' \in 0 .. MaxFailures
    BY <1>0, <1>7 DEF Fail
  <2>. QED
    BY <1>2, <1>7, <2>1 DEF Fail
<1>. QED
  BY <1>1, <1>3, <1>4, <1>5, <1>6, <1>7 DEF Next

LEMMA Invariant == Spec => []IInv
BY InitIInv, Inductive, PTL DEF Spec
-----------------------------------------------------------------------------
\* The database and the processes always have their types; in particular
\* user_version never exceeds the number of migrations.
THEOREM TypeCorrect == Spec => []TypeOK
BY Invariant, PTL DEF IInv

\* user_version never counts a migration that is not there, and is exact unless
\* a process that read it long ago has set it back.
THEOREM VersionIsHonest == Spec => []VersionCounts
BY Invariant, PTL DEF IInv

\* Nobody ever works on a database that lacks a migration.
THEOREM OpenedIsUpToDate == Spec => []OpenIsComplete
<1>1. ASSUME IInv, NEW p \in Processes, At(p, "open") PROVE applied = Migrations
  <2>1. process[p].next = Last + 1 /\ 1 .. process[p].next - 1 \subseteq applied
    BY <1>1 DEF IInv, PastIsApplied, OpenIsPast, At
  <2>2. process[p].next - 1 = Last
    BY <2>1, LastAssumption
  <2>. QED
    BY <1>1, <2>1, <2>2 DEF IInv, TypeOK, Migrations
<1>2. IInv => OpenIsComplete
  BY <1>1 DEF OpenIsComplete
<1>. QED
  BY <1>2, Invariant, PTL
=============================================================================
