-------------------------- MODULE HealthRunProofs --------------------------
(***************************************************************************)
(* Theorems about HealthRun, for every list of clusters, every number of   *)
(* operators, every size of the semaphore and every interleaving of the    *)
(* goroutines with an interrupt: the counters and their bound; what a      *)
(* report accounts for; that no entry is made twice and the run keeps the  *)
(* abstract book of Ledger; the elevated operations on the outputs; and    *)
(* the totals of the audit.                                                *)
(***************************************************************************)
EXTENDS HealthRun, SumTheorems

(***************************************************************************)
(* Moving one goroutine from a step to another changes the number of       *)
(* goroutines in a set of steps by what the two steps say.                 *)
(***************************************************************************)

\* The steps between the launch of a goroutine and its end.
AliveSteps == JobSteps \ {"idle", "done"}

\* The set of goroutines whose step is in S (the ones a counter counts).
InSteps(f, S) == {j \in Jobs : f[j] \in S}

\* The list of clusters is finite, so the goroutines at given steps can be
\* counted (main.go: len(clusterIDs)).
LEMMA JobsFinite ==
  ASSUME NEW f, NEW S
  PROVE  /\ IsFiniteSet(InSteps(f, S))
         /\ Cardinality(InSteps(f, S)) \in Nat
<1>1. IsFiniteSet(Jobs)
  BY FS_Interval, SizeAssumption DEF Jobs
<1>2. InSteps(f, S) \in SUBSET Jobs
  BY DEF InSteps
<1>3. IsFiniteSet(InSteps(f, S))
  BY <1>1, <1>2, FS_Subset
<1>4. QED
  BY <1>3, FS_CardinalityType

\* When one goroutine moves, the count of a set of steps goes up by one, down
\* by one or stays (main.go: a send on sem, a receive from it, or neither).
LEMMA CountMove ==
  ASSUME NEW S, NEW f \in [Jobs -> JobSteps], NEW j \in Jobs,
         NEW to \in JobSteps
  PROVE  Cardinality(InSteps([f EXCEPT ![j] = to], S)) =
           Cardinality(InSteps(f, S))
             + (IF to \in S THEN 1 ELSE 0) - (IF f[j] \in S THEN 1 ELSE 0)
<1> DEFINE g == [f EXCEPT ![j] = to]
           A == InSteps(f, S)
           B == InSteps(g, S)
<1>0. IsFiniteSet(A) /\ Cardinality(A) \in Nat
  BY JobsFinite
<1>1. CASE to \in S /\ f[j] \notin S
  <2>1. B = A \union {j} /\ j \notin A
    BY <1>1 DEF InSteps
  <2>2. Cardinality(B) = Cardinality(A) + 1
    BY <1>0, <2>1, FS_AddElement
  <2> QED
    BY <1>0, <1>1, <2>2
<1>2. CASE to \notin S /\ f[j] \in S
  <2>1. B = A \ {j} /\ j \in A
    BY <1>2 DEF InSteps
  <2>2. Cardinality(B) = Cardinality(A) - 1
    BY <1>0, <2>1, FS_RemoveElement
  <2> QED
    BY <1>0, <1>2, <2>2
<1>3. CASE to \in S <=> f[j] \in S
  <2>1. B = A
    BY <1>3 DEF InSteps
  <2> QED
    BY <1>0, <1>3, <2>1
<1>4. QED
  BY <1>1, <1>2, <1>3

\* CountMove for the two sets the counters count.
LEMMA CountersMove ==
  ASSUME TypeOK, NEW j \in Jobs, NEW to \in JobSteps,
         pc' = [pc EXCEPT ![j] = to]
  PROVE  /\ Cardinality(InFlight) \in Nat /\ Cardinality(Counted) \in Nat
         /\ Cardinality(InFlight)' = Cardinality(InFlight)
              + (IF to \in SlotSteps THEN 1 ELSE 0)
              - (IF pc[j] \in SlotSteps THEN 1 ELSE 0)
         /\ Cardinality(Counted)' = Cardinality(Counted)
              + (IF to \notin {"idle", "done"} THEN 1 ELSE 0)
              - (IF pc[j] \notin {"idle", "done"} THEN 1 ELSE 0)
<1>1. pc \in [Jobs -> JobSteps] /\ pc' \in [Jobs -> JobSteps]
  BY DEF TypeOK
<1>2. InFlight = InSteps(pc, SlotSteps) /\ InFlight' = InSteps(pc', SlotSteps)
  BY DEF InFlight, InSteps
<1>3. Counted = InSteps(pc, AliveSteps) /\ Counted' = InSteps(pc', AliveSteps)
  BY <1>1 DEF Counted, InSteps, AliveSteps
<1>4. Cardinality(InSteps(pc', SlotSteps)) =
        Cardinality(InSteps(pc, SlotSteps))
        + (IF to \in SlotSteps THEN 1 ELSE 0)
        - (IF pc[j] \in SlotSteps THEN 1 ELSE 0)
  <2>1. Cardinality(InSteps([pc EXCEPT ![j] = to], SlotSteps)) =
        Cardinality(InSteps(pc, SlotSteps))
        + (IF to \in SlotSteps THEN 1 ELSE 0)
        - (IF pc[j] \in SlotSteps THEN 1 ELSE 0)
    BY <1>1, CountMove
  <2> QED
    BY <2>1
<1>5. Cardinality(InSteps(pc', AliveSteps)) =
        Cardinality(InSteps(pc, AliveSteps))
        + (IF to \in AliveSteps THEN 1 ELSE 0)
        - (IF pc[j] \in AliveSteps THEN 1 ELSE 0)
  <2>1. Cardinality(InSteps([pc EXCEPT ![j] = to], AliveSteps)) =
        Cardinality(InSteps(pc, AliveSteps))
        + (IF to \in AliveSteps THEN 1 ELSE 0)
        - (IF pc[j] \in AliveSteps THEN 1 ELSE 0)
    BY <1>1, CountMove
  <2> QED
    BY <2>1
<1>6. /\ Cardinality(InSteps(pc, SlotSteps)) \in Nat
      /\ Cardinality(InSteps(pc, AliveSteps)) \in Nat
  BY JobsFinite
<1>7. pc[j] \in JobSteps
  BY <1>1
<1>8. /\ to \in AliveSteps <=> to \notin {"idle", "done"}
      /\ pc[j] \in AliveSteps <=> pc[j] \notin {"idle", "done"}
  BY <1>7 DEF AliveSteps
<1>9. QED
  BY <1>2, <1>3, <1>4, <1>5, <1>6, <1>8

-----------------------------------------------------------------------------
(***************************************************************************)
(* The counters of the semaphore and of the wait group, and the types.     *)
(***************************************************************************)

\* The goroutines that hold a slot, those wg counts and those not started yet
\* are the same before and after the step.
SamePlaces ==
  /\ InFlight' = InFlight /\ Counted' = Counted
  /\ \A j \in Jobs : pc'[j] = "idle" <=> pc[j] = "idle"

\* A step that moves no goroutine keeps their places.
LEMMA UnmovedSamePlaces ==
  ASSUME pc' = pc
  PROVE  SamePlaces
BY DEF SamePlaces, InFlight, Counted

\* So does a step of a goroutine that keeps its slot.
LEMMA SlotSamePlaces ==
  ASSUME TypeOK, NEW j \in Jobs, NEW to \in SlotSteps, pc[j] \in SlotSteps,
         pc' = [pc EXCEPT ![j] = to]
  PROVE  SamePlaces
<1>1. pc \in [Jobs -> JobSteps]
  BY DEF TypeOK
<1>2. {"idle", "done"} \intersect SlotSteps = {}
  BY DEF SlotSteps
<1>3. \A i \in Jobs : pc'[i] = IF i = j THEN to ELSE pc[i]
  BY <1>1
<1>4. QED
  BY <1>2, <1>3 DEF SamePlaces, InFlight, Counted

\* A step that keeps the places keeps the invariant, if the loop counts in wg
\* the goroutine it is about to start.
LEMMA PlacesKeepCountInv ==
  ASSUME CountInv, SamePlaces, sem' = sem, TypeOK', next' = next,
         \/ wg' = wg /\ (main = "acquire" <=> main' = "acquire")
         \/ wg' = wg + 1 /\ main # "acquire" /\ main' = "acquire"
  PROVE  CountInv'
<1>1. InFlight' = InFlight /\ Counted' = Counted
  BY DEF SamePlaces
<1>2. Cardinality(Counted) \in Nat
  <2>1. Counted = InSteps(pc, AliveSteps)
    BY DEF CountInv, TypeOK, Counted, InSteps, AliveSteps
  <2> QED
    BY <2>1, JobsFinite
<1>3. Counters'
  BY <1>1, <1>2 DEF CountInv, Counters
<1>4. StartedInOrder'
  BY DEF CountInv, StartedInOrder, SamePlaces
<1>5. QED
  BY <1>3, <1>4 DEF CountInv

\* Launch takes a free slot for the first goroutine that has not been started.
LEMMA LaunchKeepsCountInv ==
  ASSUME CountInv, Launch
  PROVE  CountInv'
<1>1. next \in Jobs /\ pc[next] = "idle"
  BY DEF CountInv, StartedInOrder, TypeOK, Launch, Jobs
<1>2. /\ Cardinality(InFlight) \in Nat /\ Cardinality(Counted) \in Nat
      /\ Cardinality(InFlight)' = Cardinality(InFlight) + 1
      /\ Cardinality(Counted)' = Cardinality(Counted) + 1
  <2>1. "metadata" \in JobSteps /\ "metadata" \in SlotSteps
        /\ "idle" \notin SlotSteps
    BY DEF JobSteps, SlotSteps
  <2>2. PICK j \in Jobs : j = next
    BY <1>1
  <2>3. pc' = [pc EXCEPT ![j] = "metadata"]
    BY <2>2 DEF Launch
  <2>4. TypeOK
    BY DEF CountInv
  <2>5. /\ Cardinality(InFlight) \in Nat /\ Cardinality(Counted) \in Nat
        /\ Cardinality(InFlight)' = Cardinality(InFlight)
             + (IF "metadata" \in SlotSteps THEN 1 ELSE 0)
             - (IF pc[j] \in SlotSteps THEN 1 ELSE 0)
        /\ Cardinality(Counted)' = Cardinality(Counted)
             + (IF "metadata" \notin {"idle", "done"} THEN 1 ELSE 0)
             - (IF pc[j] \notin {"idle", "done"} THEN 1 ELSE 0)
    BY <2>1, <2>3, <2>4, CountersMove
  <2>6. pc[j] = "idle"
    BY <1>1, <2>2
  <2> QED
    BY <2>1, <2>5, <2>6
<1>3. TypeOK'
  <2>1. sem' \in Nat /\ next' \in 1..(NJobs + 1)
    BY <1>1, SizeAssumption DEF CountInv, TypeOK, Launch, Jobs
  <2>2. pc' \in [Jobs -> JobSteps]
    BY DEF CountInv, TypeOK, Launch, JobSteps, SlotSteps
  <2>3. main' = "loop"
    BY DEF Launch
  <2> QED
    BY <2>1, <2>2, <2>3
    DEF CountInv, TypeOK, Launch, MainSteps, ledgerVars, endVars
<1>4. Counters'
  BY <1>2, SizeAssumption DEF CountInv, TypeOK, Counters, Launch
<1>5. StartedInOrder'
  BY <1>1 DEF CountInv, TypeOK, StartedInOrder, Launch, Jobs
<1>6. QED
  BY <1>3, <1>4, <1>5 DEF CountInv

\* ReleaseSlot gives back the one slot its goroutine holds.
LEMMA ReleaseKeepsCountInv ==
  ASSUME CountInv, NEW j \in Jobs, ReleaseSlot(j)
  PROVE  CountInv'
<1>1. /\ pc[j] = "release" /\ pc' = [pc EXCEPT ![j] = "wgDone"]
      /\ pc' \in [Jobs -> JobSteps]
      /\ "release" \in SlotSteps /\ "wgDone" \notin SlotSteps
      /\ "wgDone" \in JobSteps
  BY DEF CountInv, TypeOK, ReleaseSlot, At, GoTo, SlotSteps, JobSteps
<1>2. /\ Cardinality(InFlight)' = Cardinality(InFlight)
           + (IF "wgDone" \in SlotSteps THEN 1 ELSE 0)
           - (IF pc[j] \in SlotSteps THEN 1 ELSE 0)
      /\ Cardinality(Counted)' = Cardinality(Counted)
           + (IF "wgDone" \notin {"idle", "done"} THEN 1 ELSE 0)
           - (IF pc[j] \notin {"idle", "done"} THEN 1 ELSE 0)
      /\ Cardinality(InFlight) \in Nat /\ Cardinality(Counted) \in Nat
  BY <1>1, CountersMove DEF CountInv
<1>3. /\ Cardinality(InFlight)' = Cardinality(InFlight) - 1
      /\ Cardinality(Counted)' = Cardinality(Counted)
  BY <1>1, <1>2
<1>4. Cardinality(InFlight)' \in Nat
  <2>1. InFlight' = InSteps(pc', SlotSteps)
    BY DEF InFlight, InSteps
  <2> QED
    BY <2>1, JobsFinite
<1>5. sem' \in Nat /\ Counters'
  BY <1>2, <1>3, <1>4, SizeAssumption
  DEF CountInv, TypeOK, Counters, ReleaseSlot, mainVars
<1>6. TypeOK'
  BY <1>1, <1>5
  DEF CountInv, TypeOK, ReleaseSlot, mainVars, ledgerVars, endVars
<1>7. StartedInOrder'
  BY <1>1 DEF CountInv, TypeOK, StartedInOrder, ReleaseSlot, mainVars
<1>8. QED
  BY <1>5, <1>6, <1>7 DEF CountInv

\* FinishJob is the one call of Done its goroutine makes.
LEMMA FinishKeepsCountInv ==
  ASSUME CountInv, NEW j \in Jobs, FinishJob(j)
  PROVE  CountInv'
<1>1. /\ pc[j] = "wgDone" /\ pc' = [pc EXCEPT ![j] = "done"]
      /\ pc' \in [Jobs -> JobSteps]
      /\ "done" \notin SlotSteps /\ "wgDone" \notin SlotSteps
      /\ "done" \in JobSteps
  BY DEF CountInv, TypeOK, FinishJob, At, GoTo, SlotSteps, JobSteps
<1>2. /\ Cardinality(InFlight)' = Cardinality(InFlight)
           + (IF "done" \in SlotSteps THEN 1 ELSE 0)
           - (IF pc[j] \in SlotSteps THEN 1 ELSE 0)
      /\ Cardinality(Counted)' = Cardinality(Counted)
           + (IF "done" \notin {"idle", "done"} THEN 1 ELSE 0)
           - (IF pc[j] \notin {"idle", "done"} THEN 1 ELSE 0)
      /\ Cardinality(InFlight) \in Nat /\ Cardinality(Counted) \in Nat
  BY <1>1, CountersMove DEF CountInv
<1>3. /\ Cardinality(InFlight)' = Cardinality(InFlight)
      /\ Cardinality(Counted)' = Cardinality(Counted) - 1
  BY <1>1, <1>2
<1>4. Cardinality(Counted)' \in Nat
  <2>1. Counted' = InSteps(pc', AliveSteps)
    BY <1>1 DEF Counted, InSteps, AliveSteps
  <2> QED
    BY <2>1, JobsFinite
<1>5. wg' \in Nat /\ Counters'
  BY <1>2, <1>3, <1>4, SizeAssumption
  DEF CountInv, TypeOK, Counters, FinishJob, mainVars
<1>6. TypeOK'
  BY <1>1, <1>5
  DEF CountInv, TypeOK, FinishJob, mainVars, ledgerVars, endVars
<1>7. StartedInOrder'
  BY <1>1 DEF CountInv, TypeOK, StartedInOrder, FinishJob, mainVars
<1>8. QED
  BY <1>5, <1>6, <1>7 DEF CountInv

\* Every step keeps the counters, their bound and the types.
LEMMA StepKeepsCountInv ==
  CountInv /\ [Next]_vars => CountInv'
<1> SUFFICES ASSUME CountInv, [Next]_vars
             PROVE  CountInv'
  OBVIOUS
<1> USE DEF At, GoTo
<1>1. CASE Launch
  BY <1>1, LaunchKeepsCountInv
<1>2. CASE StopLaunching
  <2>1. TypeOK'
    BY <1>2, NameAssumption
    DEF CountInv, TypeOK, StopLaunching, MainSteps, mainVars, jobVars,
        ledgerVars, endVars
  <2> QED
    BY <1>2, <2>1, PlacesKeepCountInv, UnmovedSamePlaces
    DEF StopLaunching, mainVars, jobVars, ledgerVars, endVars
<1>3. CASE Admit
  <2>1. TypeOK'
    BY <1>3, NameAssumption
    DEF CountInv, TypeOK, Admit, MainSteps, mainVars, jobVars, ledgerVars,
        endVars
  <2> QED
    BY <1>3, <2>1, PlacesKeepCountInv, UnmovedSamePlaces
    DEF Admit, mainVars, jobVars, ledgerVars, endVars
<1>4. CASE AllJobsDone
  <2>1. TypeOK'
    BY <1>4, NameAssumption
    DEF CountInv, TypeOK, AllJobsDone, MainSteps, mainVars, jobVars,
        ledgerVars, endVars
  <2> QED
    BY <1>4, <2>1, PlacesKeepCountInv, UnmovedSamePlaces
    DEF AllJobsDone, mainVars, jobVars, ledgerVars, endVars
<1>5. CASE OpenHive
  <2>1. TypeOK'
    BY <1>5, NameAssumption
    DEF CountInv, TypeOK, OpenHive, MainSteps, mainVars, jobVars, ledgerVars,
        endVars
  <2> QED
    BY <1>5, <2>1, PlacesKeepCountInv, UnmovedSamePlaces
    DEF OpenHive, mainVars, jobVars, ledgerVars, endVars
<1>6. CASE EndHiveOps
  <2>1. TypeOK'
    BY <1>6, NameAssumption
    DEF CountInv, TypeOK, EndHiveOps, MainSteps, mainVars, jobVars, ledgerVars,
        endVars
  <2> QED
    BY <1>6, <2>1, PlacesKeepCountInv, UnmovedSamePlaces
    DEF EndHiveOps, mainVars, jobVars, ledgerVars, endVars
<1>7. CASE AuditHive
  <2>1. TypeOK'
    BY <1>7, NameAssumption
    DEF CountInv, TypeOK, AuditHive, MainSteps, mainVars, jobVars, ledgerVars,
        endVars, CountAudit, AttachOps, Output, Workers
  <2> QED
    BY <1>7, <2>1, PlacesKeepCountInv, UnmovedSamePlaces
    DEF AuditHive, mainVars, jobVars, ledgerVars, endVars
<1>8. CASE EndHive
  <2>1. TypeOK'
    BY <1>8, NameAssumption
    DEF CountInv, TypeOK, EndHive, MainSteps, mainVars, jobVars, ledgerVars,
        endVars
  <2> QED
    BY <1>8, <2>1, PlacesKeepCountInv, UnmovedSamePlaces
    DEF EndHive, mainVars, jobVars, ledgerVars, endVars
<1>9. CASE WaitAndWrite
  <2>1. TypeOK'
    BY <1>9, NameAssumption
    DEF CountInv, TypeOK, WaitAndWrite, MainSteps, mainVars, jobVars,
        ledgerVars, endVars
  <2> QED
    BY <1>9, <2>1, PlacesKeepCountInv, UnmovedSamePlaces
    DEF WaitAndWrite, mainVars, jobVars, ledgerVars, endVars
<1>10. CASE JobsFinishInWindow
  <2>1. TypeOK'
    BY <1>10, NameAssumption
    DEF CountInv, TypeOK, JobsFinishInWindow, MainSteps, mainVars, jobVars,
        ledgerVars, endVars
  <2> QED
    BY <1>10, <2>1, PlacesKeepCountInv, UnmovedSamePlaces
    DEF JobsFinishInWindow, mainVars, jobVars, ledgerVars, endVars
<1>11. CASE WindowExpires
  <2>1. TypeOK'
    BY <1>11, NameAssumption
    DEF CountInv, TypeOK, WindowExpires, MainSteps, mainVars, jobVars,
        ledgerVars, endVars
  <2> QED
    BY <1>11, <2>1, PlacesKeepCountInv, UnmovedSamePlaces
    DEF WindowExpires, mainVars, jobVars, ledgerVars, endVars
<1>12. CASE WriteReport
  <2>1. TypeOK'
    BY <1>12, NameAssumption
    DEF CountInv, TypeOK, WriteReport, MainSteps, mainVars, jobVars,
        ledgerVars, endVars, Report
  <2> QED
    BY <1>12, <2>1, PlacesKeepCountInv, UnmovedSamePlaces
    DEF WriteReport, mainVars, jobVars, ledgerVars, endVars
<1>13. CASE PrintSummary
  <2>1. TypeOK'
    BY <1>13, NameAssumption
    DEF CountInv, TypeOK, PrintSummary, MainSteps, mainVars, jobVars,
        ledgerVars, endVars
  <2> QED
    BY <1>13, <2>1, PlacesKeepCountInv, UnmovedSamePlaces
    DEF PrintSummary, mainVars, jobVars, ledgerVars, endVars
<1>14. CASE RunHiveOp
  <2>1. TypeOK'
    BY <1>14, NameAssumption
    DEF CountInv, TypeOK, RunHiveOp, MainSteps, mainVars, jobVars, ledgerVars,
        endVars, AddOutput, Output, Workers
  <2> QED
    BY <1>14, <2>1, PlacesKeepCountInv, UnmovedSamePlaces
    DEF RunHiveOp, mainVars, jobVars, ledgerVars, endVars
<1>15. CASE Interrupt
  <2>1. TypeOK'
    BY <1>15, NameAssumption
    DEF CountInv, TypeOK, Interrupt, MainSteps, mainVars, jobVars, ledgerVars,
        endVars
  <2> QED
    BY <1>15, <2>1, PlacesKeepCountInv, UnmovedSamePlaces
    DEF Interrupt, mainVars, jobVars, ledgerVars, endVars
<1>16. ASSUME NEW h \in HiveNames, HiveNotFound(h)
      PROVE  CountInv'
  <2>1. TypeOK'
    BY <1>16
    DEF CountInv, TypeOK, HiveNotFound, MainSteps, mainVars, jobVars,
        ledgerVars, endVars, Visit, AddSkip, Skip, SkipStatus, Workers
  <2> QED
    BY <1>16, <2>1, PlacesKeepCountInv, UnmovedSamePlaces
    DEF HiveNotFound, Visit, mainVars, jobVars, ledgerVars, endVars
<1>17. ASSUME NEW h \in HiveNames, HiveMetadataFails(h)
      PROVE  CountInv'
  <2>1. TypeOK'
    BY <1>17
    DEF CountInv, TypeOK, HiveMetadataFails, MainSteps, mainVars, jobVars,
        ledgerVars, endVars, Visit
  <2> QED
    BY <1>17, <2>1, PlacesKeepCountInv, UnmovedSamePlaces
    DEF HiveMetadataFails, Visit, mainVars, jobVars, ledgerVars, endVars
<1>18. ASSUME NEW h \in HiveNames, HiveConnectFails(h)
      PROVE  CountInv'
  <2>1. TypeOK'
    BY <1>18
    DEF CountInv, TypeOK, HiveConnectFails, MainSteps, mainVars, jobVars,
        ledgerVars, endVars, Visit, HiveMetadata, AddSkip, Skip, SkipStatus,
        Workers
  <2> QED
    BY <1>18, <2>1, PlacesKeepCountInv, UnmovedSamePlaces
    DEF HiveConnectFails, Visit, mainVars, jobVars, ledgerVars, endVars
<1>19. ASSUME NEW h \in HiveNames, HiveConnect(h)
      PROVE  CountInv'
  <2>1. TypeOK'
    BY <1>19
    DEF CountInv, TypeOK, HiveConnect, MainSteps, mainVars, jobVars,
        ledgerVars, endVars, Visit, HiveMetadata, Workers
  <2> QED
    BY <1>19, <2>1, PlacesKeepCountInv, UnmovedSamePlaces
    DEF HiveConnect, Visit, mainVars, jobVars, ledgerVars, endVars
<1>20. ASSUME NEW j \in Jobs, RejectCluster(j)
      PROVE  CountInv'
  <2>1. /\ pc' = [pc EXCEPT ![j] = "release"] /\ pc[j] \in SlotSteps
        /\ "release" \in SlotSteps
    BY <1>20 DEF RejectCluster, SkipJob, SlotSteps
  <2>2. SamePlaces
    BY <2>1, SlotSamePlaces DEF CountInv
  <2>3. TypeOK'
    BY <1>20, <2>1
    DEF CountInv, TypeOK, RejectCluster, JobSteps, SlotSteps, mainVars,
        jobVars, ledgerVars, endVars, SkipJob, AddSkip, Skip, SkipStatus,
        MetaStates, Workers
  <2> QED
    BY <1>20, <2>2, <2>3, PlacesKeepCountInv DEF RejectCluster, mainVars
<1>21. ASSUME NEW j \in Jobs, AcceptCluster(j)
      PROVE  CountInv'
  <2>1. /\ pc' = [pc EXCEPT ![j] = "connect"] /\ pc[j] \in SlotSteps
        /\ "connect" \in SlotSteps
    BY <1>21 DEF AcceptCluster, SlotSteps
  <2>2. SamePlaces
    BY <2>1, SlotSamePlaces DEF CountInv
  <2>3. TypeOK'
    BY <1>21, <2>1
    DEF CountInv, TypeOK, AcceptCluster, JobSteps, SlotSteps, mainVars,
        jobVars, ledgerVars, endVars, MetaStates, Workers
  <2> QED
    BY <1>21, <2>2, <2>3, PlacesKeepCountInv DEF AcceptCluster, mainVars
<1>22. ASSUME NEW j \in Jobs, ConnectFails(j)
      PROVE  CountInv'
  <2>1. /\ pc' = [pc EXCEPT ![j] = "release"] /\ pc[j] \in SlotSteps
        /\ "release" \in SlotSteps
    BY <1>22 DEF ConnectFails, SkipJob, SlotSteps
  <2>2. SamePlaces
    BY <2>1, SlotSamePlaces DEF CountInv
  <2>3. TypeOK'
    BY <1>22, <2>1
    DEF CountInv, TypeOK, ConnectFails, JobSteps, SlotSteps, mainVars, jobVars,
        ledgerVars, endVars, SkipJob, AddSkip, Skip, SkipStatus, Workers
  <2> QED
    BY <1>22, <2>2, <2>3, PlacesKeepCountInv DEF ConnectFails, mainVars
<1>23. ASSUME NEW j \in Jobs, Connect(j)
      PROVE  CountInv'
  <2>1. /\ pc' = [pc EXCEPT ![j] = "launch"] /\ pc[j] \in SlotSteps
        /\ "launch" \in SlotSteps
    BY <1>23 DEF Connect, SlotSteps
  <2>2. SamePlaces
    BY <2>1, SlotSamePlaces DEF CountInv
  <2>3. TypeOK'
    BY <1>23, <2>1
    DEF CountInv, TypeOK, Connect, JobSteps, SlotSteps, mainVars, jobVars,
        ledgerVars, endVars, Workers
  <2> QED
    BY <1>23, <2>2, <2>3, PlacesKeepCountInv DEF Connect, mainVars
<1>24. ASSUME NEW j \in Jobs, EndOps(j)
      PROVE  CountInv'
  <2>1. /\ pc' = [pc EXCEPT ![j] = "wait"] /\ pc[j] \in SlotSteps
        /\ "wait" \in SlotSteps
    BY <1>24 DEF EndOps, SlotSteps
  <2>2. SamePlaces
    BY <2>1, SlotSamePlaces DEF CountInv
  <2>3. TypeOK'
    BY <1>24, <2>1
    DEF CountInv, TypeOK, EndOps, JobSteps, SlotSteps, mainVars, jobVars,
        ledgerVars, endVars
  <2> QED
    BY <1>24, <2>2, <2>3, PlacesKeepCountInv DEF EndOps, mainVars
<1>25. ASSUME NEW j \in Jobs, AttachJobOps(j)
      PROVE  CountInv'
  <2>1. /\ pc' = [pc EXCEPT ![j] = "audit"] /\ pc[j] \in SlotSteps
        /\ "audit" \in SlotSteps
    BY <1>25 DEF AttachJobOps, SlotSteps
  <2>2. SamePlaces
    BY <2>1, SlotSamePlaces DEF CountInv
  <2>3. TypeOK'
    BY <1>25, <2>1
    DEF CountInv, TypeOK, AttachJobOps, JobSteps, SlotSteps, mainVars, jobVars,
        ledgerVars, endVars, AttachOps, Output, Workers
  <2> QED
    BY <1>25, <2>2, <2>3, PlacesKeepCountInv DEF AttachJobOps, mainVars
<1>26. ASSUME NEW j \in Jobs, AuditJob(j)
      PROVE  CountInv'
  <2>1. /\ pc' = [pc EXCEPT ![j] = "disconnect"] /\ pc[j] \in SlotSteps
        /\ "disconnect" \in SlotSteps
    BY <1>26 DEF AuditJob, SlotSteps
  <2>2. SamePlaces
    BY <2>1, SlotSamePlaces DEF CountInv
  <2>3. TypeOK'
    BY <1>26, <2>1
    DEF CountInv, TypeOK, AuditJob, JobSteps, SlotSteps, mainVars, jobVars,
        ledgerVars, endVars, CountAudit, Workers
  <2> QED
    BY <1>26, <2>2, <2>3, PlacesKeepCountInv DEF AuditJob, mainVars
<1>27. ASSUME NEW j \in Jobs, Disconnect(j)
      PROVE  CountInv'
  <2>1. /\ pc' = [pc EXCEPT ![j] = "release"] /\ pc[j] \in SlotSteps
        /\ "release" \in SlotSteps
    BY <1>27 DEF Disconnect, SlotSteps
  <2>2. SamePlaces
    BY <2>1, SlotSamePlaces DEF CountInv
  <2>3. TypeOK'
    BY <1>27, <2>1
    DEF CountInv, TypeOK, Disconnect, JobSteps, SlotSteps, mainVars, jobVars,
        ledgerVars, endVars
  <2> QED
    BY <1>27, <2>2, <2>3, PlacesKeepCountInv DEF Disconnect, mainVars
<1>28. ASSUME NEW j \in Jobs, ReleaseSlot(j)
      PROVE  CountInv'
  BY <1>28, ReleaseKeepsCountInv
<1>29. ASSUME NEW j \in Jobs, FinishJob(j)
      PROVE  CountInv'
  BY <1>29, FinishKeepsCountInv
<1>30. ASSUME NEW j \in Jobs, StartOp(j)
      PROVE  CountInv'
  <2>1. opNext[j] \in 1..NManagedOps
    BY <1>30 DEF StartOp, CountInv, TypeOK, Workers
  <2>2. TypeOK'
    BY <1>30, <2>1
    DEF CountInv, TypeOK, StartOp, Workers, mainVars, jobVars, ledgerVars,
        endVars
  <2> QED
    BY <1>30, <2>2, PlacesKeepCountInv, UnmovedSamePlaces
    DEF StartOp, mainVars, jobVars, ledgerVars, endVars
<1>31. ASSUME NEW j \in Jobs, NEW op \in 1..NManagedOps, RunOp(j, op)
      PROVE  CountInv'
  <2>1. TypeOK'
    BY <1>31
    DEF CountInv, TypeOK, RunOp, AddOutput, Output, Workers, mainVars, jobVars,
        ledgerVars, endVars
  <2> QED
    BY <1>31, <2>1, PlacesKeepCountInv, UnmovedSamePlaces
    DEF RunOp, mainVars, jobVars, ledgerVars, endVars
<1>32. CASE UNCHANGED vars
  BY <1>32
  DEF CountInv, TypeOK, Counters, StartedInOrder, InFlight, Counted, vars,
            mainVars, jobVars, ledgerVars, endVars
<1>33. QED
  BY <1>1, <1>2, <1>3, <1>4, <1>5, <1>6, <1>7, <1>8, <1>9, <1>10, <1>11, <1>12,
     <1>13, <1>14, <1>15, <1>16, <1>17, <1>18, <1>19, <1>20, <1>21, <1>22,
     <1>23, <1>24, <1>25, <1>26, <1>27, <1>28, <1>29, <1>30, <1>31, <1>32
  DEF Next, MainLocal, MainRemote, JobLocal, JobRemote, Exited

\* No goroutine has been started when the launch loop begins (main.go: sem and
\* clusterWg are fresh).
LEMMA InitCountInv == Init => CountInv
<1> SUFFICES ASSUME Init
             PROVE  CountInv
  OBVIOUS
<1>1. TypeOK
  <2>1. next \in 1..(NJobs + 1) /\ sem \in Nat /\ wg \in Nat
    BY SizeAssumption DEF Init
  <2>2. pc \in [Jobs -> JobSteps] /\ opNext \in [Workers -> Nat \ {0}]
    BY DEF Init, JobSteps
  <2>3. meta \in [Workers -> MetaStates] /\ calls \in [Workers -> Nat]
    BY DEF Init, MetaStates
  <2> QED
    BY <2>1, <2>2, <2>3 DEF Init, TypeOK, MainSteps
<1>2. InFlight = {} /\ Counted = {}
  BY DEF Init, InFlight, Counted, SlotSteps
<1>3. Counters
  BY <1>2, FS_EmptySet, SizeAssumption DEF Init, Counters
<1>4. StartedInOrder
  BY SizeAssumption DEF Init, StartedInOrder, Jobs
<1>5. QED
  BY <1>1, <1>3, <1>4 DEF CountInv

\* The counters are exact in every reachable state (main.go: sem, clusterWg).
THEOREM CountInvariant == Spec => []CountInv
BY InitCountInv, StepKeepsCountInv, PTL DEF Spec

\* Types hold in every reachable state; in particular sem and wg are never
\* driven below zero (main.go: one release and one Done for each acquisition).
THEOREM TypeCorrect == Spec => []TypeOK
<1>1. CountInv => TypeOK
  BY DEF CountInv
<1>2. QED
  BY <1>1, CountInvariant, PTL

\* At most --parallel clusters are in flight, for every list of clusters and on
\* every path a goroutine leaves (main.go: sem).
THEOREM ParallelBound == Spec => []AtMostParallel
<1>1. CountInv => AtMostParallel
  BY DEF CountInv, Counters, AtMostParallel
<1>2. QED
  BY <1>1, CountInvariant, PTL

-----------------------------------------------------------------------------
(***************************************************************************)
(* A report that is not partial is complete.                               *)
(***************************************************************************)

\* The step changes nothing that job i's part of the invariant looks at; the
\* elevated operations attached to its outputs may change.
SameForJob(i) ==
  /\ pc'[i] = pc[i] /\ opNext'[i] = opNext[i]
  /\ \A op \in 1..NManagedOps :
       <<i, op>> \in running' <=> <<i, op>> \in running
  /\ \A s \in skipped \union skipped' :
       s.worker = i => (s \in skipped <=> s \in skipped')
  /\ \A o \in outputs : o.worker = i =>
       \E p \in outputs' : p.worker = i /\ p.op = o.op
  /\ \A p \in outputs' : p.worker = i =>
       \E o \in outputs : o.worker = i /\ o.op = p.op
  /\ cancelled => cancelled'

\* Other goroutines and the hive pass cannot change what a job is accounted
\* for.
LEMMA SameAccounted ==
  ASSUME NEW i \in Jobs, SameForJob(i), Accounted(skipped, outputs, i)
  PROVE  Accounted(skipped', outputs', i)
BY DEF SameForJob, Accounted, SkippedOnce, CheckedInFull

\* Nor how far the invariant says it has got.
LEMMA SameJobInv ==
  ASSUME NEW i \in Jobs, SameForJob(i), JobInv(i)
  PROVE  JobInv(i)'
<1>1. Untouched(i) => Untouched(i)'
  BY DEF SameForJob, Untouched
<1>2. Checking(i) => Checking(i)'
  BY DEF SameForJob, Checking, OpInLedger
<1>3. Quiet(i) => Quiet(i)'
  BY DEF SameForJob, Quiet
<1>4. Accounted(skipped, outputs, i) => Accounted(skipped, outputs, i)'
  BY SameAccounted
<1>5. QED
  BY <1>1, <1>2, <1>3, <1>4 DEF SameForJob, JobInv

\* While a goroutine is not done, its steps keep what the main thread relies
\* on.
LEMMA JobKeepsMainInv ==
  ASSUME MainInv, NEW j \in Jobs, pc[j] # "done", main' = main,
         report' = report, interrupted' = interrupted, cancelled' = cancelled
  PROVE  MainInv'
<1>1. ~AllDone /\ ~AllAccounted
  BY DEF AllDone, AllAccounted
<1>2. ReportComplete => ReportComplete'
  BY DEF ReportComplete, Uninterrupted
<1>3. QED
  BY <1>1, <1>2 DEF MainInv

\* Attaching elevated operations leaves worker and operator of every output.
LEMMA AttachKeepsOutputs ==
  ASSUME outputs \subseteq Output, NEW w, AttachOps(w), NEW i
  PROVE  /\ \A o \in outputs : o.worker = i =>
              \E p \in outputs' : p.worker = i /\ p.op = o.op
         /\ \A p \in outputs' : p.worker = i =>
              \E o \in outputs : o.worker = i /\ o.op = p.op
<1> DEFINE Mark(o) == IF IdOf[o.worker] = IdOf[w] /\ o.ops = None
                      THEN [o EXCEPT !.ops = w] ELSE o
<1>1. \A o \in outputs : Mark(o).worker = o.worker /\ Mark(o).op = o.op
  BY DEF Output
<1>2. outputs' = {Mark(o) : o \in outputs}
  BY DEF AttachOps
<1> HIDE DEF Mark
<1>3. QED
  BY <1>1, <1>2

\* The invariant after a step of one cluster goroutine.
LEMMA OneJobMoved ==
  ASSUME CompleteInv, CountInv', MainInv', NEW j \in Jobs, JobInv(j)',
         \A i \in Jobs \ {j} : SameForJob(i)
  PROVE  CompleteInv'
<1>1. ASSUME NEW i \in Jobs PROVE JobInv(i)'
  BY SameJobInv DEF CompleteInv
<1>2. QED
  BY <1>1 DEF CompleteInv

\* The invariant after a step of the main thread.
LEMMA NoJobMoved ==
  ASSUME CompleteInv, CountInv', MainInv', \A i \in Jobs : SameForJob(i)
  PROVE  CompleteInv'
<1>1. ASSUME NEW i \in Jobs PROVE JobInv(i)'
  BY SameJobInv DEF CompleteInv
<1>2. QED
  BY <1>1 DEF CompleteInv

\* Every step of the run keeps the invariant behind a complete report.
LEMMA StepKeepsCompleteInv ==
  CompleteInv /\ [Next]_vars => CompleteInv'
<1> SUFFICES ASSUME CompleteInv, [Next]_vars
             PROVE  CompleteInv'
  OBVIOUS
<1> USE DEF At, GoTo
<1>0. CountInv' /\ TypeOK /\ MainInv /\ \A i \in Jobs : JobInv(i)
  BY StepKeepsCountInv DEF CompleteInv, CountInv
<1>1. CASE StopLaunching
  <2>1. \A i \in Jobs : SameForJob(i)
    BY <1>1
    DEF StopLaunching, SameForJob, mainVars, jobVars, ledgerVars, endVars
  <2>2. MainInv'
    BY <1>1, <1>0
    DEF StopLaunching, MainInv, ReportComplete, Uninterrupted, AllDone,
        AllAccounted, mainVars, jobVars, ledgerVars, endVars
  <2> QED
    BY <1>0, <2>1, <2>2, NoJobMoved
<1>2. CASE Admit
  <2>1. \A i \in Jobs : SameForJob(i)
    BY <1>2
    DEF Admit, SameForJob, mainVars, jobVars, ledgerVars, endVars
  <2>2. MainInv'
    BY <1>2, <1>0
    DEF Admit, MainInv, ReportComplete, Uninterrupted, AllDone,
        AllAccounted, mainVars, jobVars, ledgerVars, endVars
  <2> QED
    BY <1>0, <2>1, <2>2, NoJobMoved
<1>3. CASE OpenHive
  <2>1. \A i \in Jobs : SameForJob(i)
    BY <1>3
    DEF OpenHive, SameForJob, mainVars, jobVars, ledgerVars, endVars
  <2>2. MainInv'
    BY <1>3, <1>0
    DEF OpenHive, MainInv, ReportComplete, Uninterrupted, AllDone,
        AllAccounted, mainVars, jobVars, ledgerVars, endVars
  <2> QED
    BY <1>0, <2>1, <2>2, NoJobMoved
<1>4. CASE EndHiveOps
  <2>1. \A i \in Jobs : SameForJob(i)
    BY <1>4
    DEF EndHiveOps, SameForJob, mainVars, jobVars, ledgerVars, endVars
  <2>2. MainInv'
    BY <1>4, <1>0
    DEF EndHiveOps, MainInv, ReportComplete, Uninterrupted, AllDone,
        AllAccounted, mainVars, jobVars, ledgerVars, endVars
  <2> QED
    BY <1>0, <2>1, <2>2, NoJobMoved
<1>5. CASE EndHive
  <2>1. \A i \in Jobs : SameForJob(i)
    BY <1>5
    DEF EndHive, SameForJob, mainVars, jobVars, ledgerVars, endVars
  <2>2. MainInv'
    BY <1>5, <1>0
    DEF EndHive, MainInv, ReportComplete, Uninterrupted, AllDone,
        AllAccounted, mainVars, jobVars, ledgerVars, endVars
  <2> QED
    BY <1>0, <2>1, <2>2, NoJobMoved
<1>6. CASE JobsFinishInWindow
  <2>1. \A i \in Jobs : SameForJob(i)
    BY <1>6
    DEF JobsFinishInWindow, SameForJob, mainVars, jobVars, ledgerVars,
        endVars
  <2>2. MainInv'
    BY <1>6, <1>0
    DEF JobsFinishInWindow, MainInv, ReportComplete, Uninterrupted,
        AllDone, AllAccounted, mainVars, jobVars, ledgerVars, endVars
  <2> QED
    BY <1>0, <2>1, <2>2, NoJobMoved
<1>7. CASE WindowExpires
  <2>1. \A i \in Jobs : SameForJob(i)
    BY <1>7
    DEF WindowExpires, SameForJob, mainVars, jobVars, ledgerVars, endVars
  <2>2. MainInv'
    BY <1>7, <1>0
    DEF WindowExpires, MainInv, ReportComplete, Uninterrupted, AllDone,
        AllAccounted, mainVars, jobVars, ledgerVars, endVars
  <2> QED
    BY <1>0, <2>1, <2>2, NoJobMoved
<1>8. CASE PrintSummary
  <2>1. \A i \in Jobs : SameForJob(i)
    BY <1>8
    DEF PrintSummary, SameForJob, mainVars, jobVars, ledgerVars, endVars
  <2>2. MainInv'
    BY <1>8, <1>0
    DEF PrintSummary, MainInv, ReportComplete, Uninterrupted, AllDone,
        AllAccounted, mainVars, jobVars, ledgerVars, endVars
  <2> QED
    BY <1>0, <2>1, <2>2, NoJobMoved
<1>9. CASE Interrupt
  <2>1. \A i \in Jobs : SameForJob(i)
    BY <1>9
    DEF Interrupt, SameForJob, mainVars, jobVars, ledgerVars, endVars
  <2>2. MainInv'
    BY <1>9, <1>0
    DEF Interrupt, MainInv, ReportComplete, Uninterrupted, AllDone,
        AllAccounted, mainVars, jobVars, ledgerVars, endVars
  <2> QED
    BY <1>0, <2>1, <2>2, NoJobMoved
<1>10. CASE AllJobsDone
  <2>1. \A i \in Jobs : SameForJob(i)
    BY <1>10 DEF AllJobsDone, SameForJob, jobVars, ledgerVars
  <2>2. Counted = {}
    <3>1. Counted = InSteps(pc, AliveSteps)
      BY <1>0 DEF TypeOK, Counted, InSteps, AliveSteps
    <3>2. IsFiniteSet(Counted) /\ Cardinality(Counted) \in Nat
      BY <3>1, JobsFinite
    <3>3. Cardinality(Counted) = 0
      BY <1>10, <3>2 DEF AllJobsDone, CompleteInv, CountInv, Counters
    <3> QED
      BY <3>2, <3>3, FS_EmptySet
  <2>3. AllDone
    <3> SUFFICES ASSUME NEW i \in Jobs
                 PROVE  pc[i] = "done"
      BY DEF AllDone
    <3>1. pc[i] # "idle"
      BY <1>10, <1>0, SizeAssumption
      DEF AllJobsDone, CompleteInv, CountInv, StartedInOrder, TypeOK, Jobs
    <3> QED
      BY <2>2, <3>1 DEF Counted
  <2>4. MainInv'
    BY <1>10, <1>0, <2>3
    DEF AllJobsDone, MainInv, ReportComplete, Uninterrupted, AllDone,
        AllAccounted, mainVars, jobVars, ledgerVars, endVars
  <2> QED
    BY <1>0, <2>1, <2>4, NoJobMoved
<1>11. CASE WaitAndWrite
  <2>1. \A i \in Jobs : SameForJob(i)
    BY <1>11 DEF WaitAndWrite, SameForJob, jobVars, ledgerVars
  <2>2. ~cancelled => AllAccounted
    BY <1>11, <1>0 DEF WaitAndWrite, MainInv, AllDone, AllAccounted, JobInv
  <2>3. MainInv'
    BY <1>11, <1>0, <2>2
    DEF WaitAndWrite, MainInv, ReportComplete, Uninterrupted, AllDone,
        AllAccounted, mainVars, jobVars, ledgerVars, endVars
  <2> QED
    BY <1>0, <2>1, <2>3, NoJobMoved
<1>12. CASE WriteReport
  <2>1. \A i \in Jobs : SameForJob(i)
    BY <1>12 DEF WriteReport, SameForJob, jobVars, ledgerVars
  <2>2. report' # None => ReportComplete' /\ report'.interrupted = interrupted'
    BY <1>12, <1>0
    DEF WriteReport, MainInv, ReportComplete, Uninterrupted, AllDone,
        AllAccounted, mainVars, jobVars, ledgerVars, endVars
  <2>3. MainInv'
    BY <1>12, <1>0, <2>2
    DEF WriteReport, MainInv, AllDone, AllAccounted, jobVars, ledgerVars
  <2> QED
    BY <1>0, <2>1, <2>3, NoJobMoved
<1>13. ASSUME NEW h \in HiveNames, HiveNotFound(h)
      PROVE  CompleteInv'
  <2>1. \A i \in Jobs : i # h
    BY NameAssumption
  <2>2. \A i \in Jobs : SameForJob(i)
    BY <1>13, <2>1
    DEF HiveNotFound, Visit, AddSkip, SameForJob, mainVars, jobVars,
        ledgerVars, endVars
  <2>3. MainInv'
    BY <1>13, <1>0
    DEF HiveNotFound, Visit, AddSkip, MainInv, ReportComplete,
        Uninterrupted, AllDone, AllAccounted, mainVars, jobVars,
        ledgerVars, endVars
  <2> QED
    BY <1>0, <2>2, <2>3, NoJobMoved
<1>14. ASSUME NEW h \in HiveNames, HiveMetadataFails(h)
      PROVE  CompleteInv'
  <2>1. \A i \in Jobs : i # h
    BY NameAssumption
  <2>2. \A i \in Jobs : SameForJob(i)
    BY <1>14, <2>1
    DEF HiveMetadataFails, Visit, SameForJob, mainVars, jobVars,
        ledgerVars, endVars
  <2>3. MainInv'
    BY <1>14, <1>0
    DEF HiveMetadataFails, Visit, MainInv, ReportComplete, Uninterrupted,
        AllDone, AllAccounted, mainVars, jobVars, ledgerVars, endVars
  <2> QED
    BY <1>0, <2>2, <2>3, NoJobMoved
<1>15. ASSUME NEW h \in HiveNames, HiveConnectFails(h)
      PROVE  CompleteInv'
  <2>1. \A i \in Jobs : i # h
    BY NameAssumption
  <2>2. \A i \in Jobs : SameForJob(i)
    BY <1>15, <2>1
    DEF HiveConnectFails, Visit, AddSkip, SameForJob, mainVars, jobVars,
        ledgerVars, endVars
  <2>3. MainInv'
    BY <1>15, <1>0
    DEF HiveConnectFails, Visit, AddSkip, MainInv, ReportComplete,
        Uninterrupted, AllDone, AllAccounted, mainVars, jobVars,
        ledgerVars, endVars
  <2> QED
    BY <1>0, <2>2, <2>3, NoJobMoved
<1>16. ASSUME NEW h \in HiveNames, HiveConnect(h)
      PROVE  CompleteInv'
  <2>1. \A i \in Jobs : i # h
    BY NameAssumption
  <2>2. \A i \in Jobs : SameForJob(i)
    BY <1>16, <2>1
    DEF HiveConnect, Visit, SameForJob, mainVars, jobVars, ledgerVars,
        endVars
  <2>3. MainInv'
    BY <1>16, <1>0
    DEF HiveConnect, Visit, MainInv, ReportComplete, Uninterrupted,
        AllDone, AllAccounted, mainVars, jobVars, ledgerVars, endVars
  <2> QED
    BY <1>0, <2>2, <2>3, NoJobMoved
<1>17. CASE RunHiveOp
  <2>1. hive \in HiveNames /\ \A i \in Jobs : i # hive
    BY <1>17, <1>0, NameAssumption DEF RunHiveOp, TypeOK
  <2>2. \A i \in Jobs : SameForJob(i)
    BY <1>17, <1>0, <2>1
    DEF RunHiveOp, TypeOK, Workers, AddOutput, SameForJob, mainVars,
        jobVars, ledgerVars, endVars
  <2>3. MainInv'
    BY <1>17, <1>0
    DEF RunHiveOp, MainInv, ReportComplete, Uninterrupted, AllDone,
        AllAccounted, mainVars, jobVars, ledgerVars, endVars
  <2> QED
    BY <1>0, <2>2, <2>3, NoJobMoved
<1>18. CASE AuditHive
  <2>1. PICK h \in HiveNames : h = hive
    BY <1>18, <1>0 DEF AuditHive, TypeOK
  <2>2. AttachOps(h) \/ UNCHANGED outputs
    BY <1>18, <2>1 DEF AuditHive, AttachOps
  <2>3. ASSUME NEW i \in Jobs PROVE SameForJob(i)
    <3>1. /\ \A o \in outputs : o.worker = i =>
               \E p \in outputs' : p.worker = i /\ p.op = o.op
          /\ \A p \in outputs' : p.worker = i =>
               \E o \in outputs : o.worker = i /\ o.op = p.op
      BY <1>0, <2>2, AttachKeepsOutputs DEF TypeOK
    <3> QED
      BY <1>18, <3>1 DEF AuditHive, SameForJob
  <2>4. MainInv'
    BY <1>18, <1>0
    DEF AuditHive, MainInv, ReportComplete, Uninterrupted, AllDone,
        AllAccounted, mainVars, jobVars, ledgerVars, endVars
  <2> QED
    BY <1>0, <2>3, <2>4, NoJobMoved
<1>19. CASE Launch
  <2>1. PICK j \in Jobs : j = next
    BY <1>19, <1>0 DEF Launch, TypeOK, Jobs
  <2>2. pc[j] = "idle" /\ pc' = [pc EXCEPT ![j] = "metadata"]
    BY <1>19, <2>1
    DEF Launch, CompleteInv, CountInv, StartedInOrder, TypeOK
  <2>3. \A i \in Jobs \ {j} : SameForJob(i)
    BY <1>19, <1>0, <2>2 DEF Launch, SameForJob, TypeOK, ledgerVars
  <2>4. JobInv(j)'
    BY <1>19, <1>0, <2>2
    DEF Launch, JobInv, Untouched, Quiet, TypeOK, ledgerVars
  <2>5. MainInv'
    BY <1>19, <1>0
    DEF Launch, MainInv, ReportComplete, Uninterrupted, AllDone,
        AllAccounted, endVars
  <2> QED
    BY <1>0, <2>3, <2>4, <2>5, OneJobMoved
<1>20. ASSUME NEW j \in Jobs, RejectCluster(j)
      PROVE  CompleteInv'
  <2>1. \A i \in Jobs \ {j} : SameForJob(i)
    BY <1>20, <1>0
    DEF RejectCluster, SkipJob, AddSkip, SameForJob, TypeOK, Workers,
        ledgerVars
  <2>2. JobInv(j)'
    <3>1. Untouched(j)
      BY <1>20, <1>0 DEF RejectCluster, JobInv
    <3>2. /\ pc'[j] = "release" /\ UNCHANGED <<outputs, running>>
          /\ \E status \in SkipStatus :
               skipped' = skipped \union {[worker |-> j, status |-> status]}
      BY <1>20, <1>0
      DEF RejectCluster, SkipJob, AddSkip, SkipStatus, TypeOK
    <3>3. SkippedOnce(skipped', outputs', j)
      <4>1. PICK s : s.worker = j /\ skipped' = skipped \union {s}
        BY <3>2
      <4> QED
        BY <3>1, <3>2, <4>1 DEF Untouched, SkippedOnce
    <3>4. Quiet(j)'
      BY <3>1, <3>2 DEF Untouched, Quiet
    <3> QED
      BY <3>2, <3>3, <3>4 DEF JobInv, Accounted
  <2>3. MainInv'
    BY <1>20, <1>0, JobKeepsMainInv DEF RejectCluster, mainVars, endVars
  <2> QED
    BY <1>0, <2>1, <2>2, <2>3, OneJobMoved
<1>21. ASSUME NEW j \in Jobs, AcceptCluster(j)
      PROVE  CompleteInv'
  <2>1. \A i \in Jobs \ {j} : SameForJob(i)
    BY <1>21, <1>0
    DEF AcceptCluster, SameForJob, TypeOK, Workers, ledgerVars
  <2>2. JobInv(j)'
    BY <1>21, <1>0, SizeAssumption
    DEF AcceptCluster, JobInv, Untouched, Quiet, TypeOK, Workers,
        ledgerVars
  <2>3. MainInv'
    BY <1>21, <1>0, JobKeepsMainInv DEF AcceptCluster, mainVars, endVars
  <2> QED
    BY <1>0, <2>1, <2>2, <2>3, OneJobMoved
<1>22. ASSUME NEW j \in Jobs, ConnectFails(j)
      PROVE  CompleteInv'
  <2>1. \A i \in Jobs \ {j} : SameForJob(i)
    BY <1>22, <1>0
    DEF ConnectFails, SkipJob, AddSkip, SameForJob, TypeOK, Workers,
        ledgerVars
  <2>2. JobInv(j)'
    <3>1. Untouched(j)
      BY <1>22, <1>0 DEF ConnectFails, JobInv
    <3>2. /\ pc'[j] = "release" /\ UNCHANGED <<outputs, running>>
          /\ \E status \in SkipStatus :
               skipped' = skipped \union {[worker |-> j, status |-> status]}
      BY <1>22, <1>0
      DEF ConnectFails, SkipJob, AddSkip, SkipStatus, TypeOK
    <3>3. SkippedOnce(skipped', outputs', j)
      <4>1. PICK s : s.worker = j /\ skipped' = skipped \union {s}
        BY <3>2
      <4> QED
        BY <3>1, <3>2, <4>1 DEF Untouched, SkippedOnce
    <3>4. Quiet(j)'
      BY <3>1, <3>2 DEF Untouched, Quiet
    <3> QED
      BY <3>2, <3>3, <3>4 DEF JobInv, Accounted
  <2>3. MainInv'
    BY <1>22, <1>0, JobKeepsMainInv DEF ConnectFails, mainVars, endVars
  <2> QED
    BY <1>0, <2>1, <2>2, <2>3, OneJobMoved
<1>23. ASSUME NEW j \in Jobs, Connect(j)
      PROVE  CompleteInv'
  <2>1. \A i \in Jobs \ {j} : SameForJob(i)
    BY <1>23, <1>0
    DEF Connect, SameForJob, TypeOK, Workers, ledgerVars
  <2>2. JobInv(j)'
    BY <1>23, <1>0, SizeAssumption
    DEF Connect, JobInv, Untouched, Checking, Quiet, OpInLedger, TypeOK,
        Workers, ledgerVars
  <2>3. MainInv'
    BY <1>23, <1>0, JobKeepsMainInv DEF Connect, mainVars, endVars
  <2> QED
    BY <1>0, <2>1, <2>2, <2>3, OneJobMoved
<1>24. ASSUME NEW j \in Jobs, StartOp(j)
      PROVE  CompleteInv'
  <2>1. \A i \in Jobs \ {j} : SameForJob(i)
    BY <1>24, <1>0
    DEF StartOp, SameForJob, TypeOK, Workers, ledgerVars
  <2>2. JobInv(j)'
    BY <1>24, <1>0, SizeAssumption
    DEF StartOp, JobInv, Checking, OpInLedger, Quiet, TypeOK, Workers,
        ledgerVars
  <2>3. MainInv'
    BY <1>24, <1>0, JobKeepsMainInv DEF StartOp, mainVars, endVars
  <2> QED
    BY <1>0, <2>1, <2>2, <2>3, OneJobMoved
<1>25. ASSUME NEW j \in Jobs, EndOps(j)
      PROVE  CompleteInv'
  <2>1. \A i \in Jobs \ {j} : SameForJob(i)
    BY <1>25, <1>0
    DEF EndOps, SameForJob, TypeOK, Workers, ledgerVars
  <2>2. JobInv(j)'
    BY <1>25, <1>0, SizeAssumption
    DEF EndOps, JobInv, Checking, OpInLedger, Quiet, TypeOK, Workers,
        ledgerVars
  <2>3. MainInv'
    BY <1>25, <1>0, JobKeepsMainInv DEF EndOps, mainVars, endVars
  <2> QED
    BY <1>0, <2>1, <2>2, <2>3, OneJobMoved
<1>26. ASSUME NEW j \in Jobs, AuditJob(j)
      PROVE  CompleteInv'
  <2>1. \A i \in Jobs \ {j} : SameForJob(i)
    BY <1>26, <1>0
    DEF AuditJob, SameForJob, TypeOK, Workers, ledgerVars
  <2>2. JobInv(j)'
    BY <1>26, <1>0, SizeAssumption
    DEF AuditJob, JobInv, Checking, OpInLedger, Quiet, TypeOK, Workers,
        ledgerVars
  <2>3. MainInv'
    BY <1>26, <1>0, JobKeepsMainInv DEF AuditJob, mainVars, endVars
  <2> QED
    BY <1>0, <2>1, <2>2, <2>3, OneJobMoved
<1>27. ASSUME NEW j \in Jobs, Disconnect(j)
      PROVE  CompleteInv'
  <2>1. \A i \in Jobs \ {j} : SameForJob(i)
    BY <1>27, <1>0
    DEF Disconnect, SameForJob, TypeOK, Workers, ledgerVars
  <2>2. JobInv(j)'
    <3>1. /\ Checking(j) /\ Quiet(j)
          /\ opNext[j] > NManagedOps \/ cancelled
      BY <1>27, <1>0 DEF Disconnect, JobInv
    <3>2. ~cancelled => CheckedInFull(skipped, outputs, j)
      <4>1. opNext[j] \in Nat
        BY <1>0 DEF TypeOK, Workers
      <4>2. ~cancelled => \A op \in 1..NManagedOps : op < opNext[j]
        BY <3>1, <4>1, SizeAssumption
      <4> QED
        BY <3>1, <4>2 DEF Checking, Quiet, CheckedInFull, OpInLedger
    <3>3. /\ pc'[j] = "release"
          /\ UNCHANGED <<outputs, skipped, running, cancelled>>
      BY <1>27, <1>0 DEF Disconnect, TypeOK, ledgerVars
    <3>4. Quiet(j)'
      BY <3>1, <3>3 DEF Quiet
    <3>5. (Accounted(skipped, outputs, j) \/ cancelled)'
      BY <3>2, <3>3 DEF Accounted
    <3> QED
      BY <3>3, <3>4, <3>5 DEF JobInv
  <2>3. MainInv'
    BY <1>27, <1>0, JobKeepsMainInv DEF Disconnect, mainVars, endVars
  <2> QED
    BY <1>0, <2>1, <2>2, <2>3, OneJobMoved
<1>28. ASSUME NEW j \in Jobs, ReleaseSlot(j)
      PROVE  CompleteInv'
  <2>1. \A i \in Jobs \ {j} : SameForJob(i)
    BY <1>28, <1>0
    DEF ReleaseSlot, SameForJob, TypeOK, Workers, ledgerVars
  <2>2. JobInv(j)'
    BY <1>28, <1>0, SizeAssumption
    DEF ReleaseSlot, JobInv, Accounted, SkippedOnce, CheckedInFull, Quiet,
        TypeOK, Workers, ledgerVars
  <2>3. MainInv'
    BY <1>28, <1>0, JobKeepsMainInv DEF ReleaseSlot, mainVars, endVars
  <2> QED
    BY <1>0, <2>1, <2>2, <2>3, OneJobMoved
<1>29. ASSUME NEW j \in Jobs, FinishJob(j)
      PROVE  CompleteInv'
  <2>1. \A i \in Jobs \ {j} : SameForJob(i)
    BY <1>29, <1>0
    DEF FinishJob, SameForJob, TypeOK, Workers, ledgerVars
  <2>2. JobInv(j)'
    BY <1>29, <1>0, SizeAssumption
    DEF FinishJob, JobInv, Accounted, SkippedOnce, CheckedInFull, Quiet,
        TypeOK, Workers, ledgerVars
  <2>3. MainInv'
    BY <1>29, <1>0, JobKeepsMainInv DEF FinishJob, mainVars, endVars
  <2> QED
    BY <1>0, <2>1, <2>2, <2>3, OneJobMoved
<1>30. ASSUME NEW j \in Jobs, AttachJobOps(j)
      PROVE  CompleteInv'
  <2>1. AttachOps(j) \/ UNCHANGED outputs
    BY <1>30 DEF AttachJobOps, AttachOps
  <2>2. ASSUME NEW i
        PROVE  /\ \A o \in outputs : o.worker = i =>
                    \E p \in outputs' : p.worker = i /\ p.op = o.op
               /\ \A p \in outputs' : p.worker = i =>
                    \E o \in outputs : o.worker = i /\ o.op = p.op
    BY <1>0, <2>1, AttachKeepsOutputs DEF TypeOK
  <2>3. \A i \in Jobs \ {j} : SameForJob(i)
    BY <1>30, <1>0, <2>2 DEF AttachJobOps, SameForJob, TypeOK
  <2>4. JobInv(j)'
    BY <1>30, <1>0, <2>2
    DEF AttachJobOps, JobInv, Checking, OpInLedger, Quiet, TypeOK
  <2>5. MainInv'
    BY <1>30, <1>0, JobKeepsMainInv DEF AttachJobOps, mainVars, endVars
  <2> QED
    BY <1>0, <2>3, <2>4, <2>5, OneJobMoved
<1>31. ASSUME NEW j \in Jobs, NEW op \in 1..NManagedOps, RunOp(j, op)
      PROVE  CompleteInv'
  <2>1. \A i \in Jobs \ {j} : SameForJob(i)
    BY <1>31, <1>0 DEF RunOp, AddOutput, SameForJob
  <2>2. pc[j] \in {"launch", "wait"}
    BY <1>31, <1>0 DEF RunOp, JobInv, Quiet
  <2>3. JobInv(j)'
    <3>1. Checking(j) /\ UNCHANGED <<pc, opNext, skipped, cancelled>>
      BY <1>31, <1>0, <2>2 DEF RunOp, JobInv
    <3>2. /\ outputs' = outputs
               \union {[worker |-> j, op |-> op, ops |-> None]}
          /\ running' = running \ {<<j, op>>}
      BY <1>31 DEF RunOp, AddOutput
    <3>3. PICK o : /\ o.worker = j /\ o.op = op
                   /\ outputs' = outputs \union {o}
      BY <3>2
    <3>4. \A p \in 1..NManagedOps : OpInLedger(j, p) => OpInLedger(j, p)'
      BY <3>3 DEF OpInLedger
    <3>5. \A p \in 1..NManagedOps :
            <<j, p>> \in running => <<j, p>> \in running' \/ OpInLedger(j, p)'
      BY <3>2, <3>3 DEF OpInLedger
    <3>6. \A p \in outputs' : p.worker = j => p.op \in 1..NManagedOps
      BY <3>1, <3>3 DEF Checking
    <3>7. Checking(j)'
      BY <3>1, <3>4, <3>5, <3>6 DEF Checking
    <3> QED
      BY <1>0, <2>2, <3>1, <3>7 DEF JobInv
  <2>4. MainInv'
    BY <1>31, <1>0, <2>2, JobKeepsMainInv DEF RunOp, mainVars, endVars
  <2> QED
    BY <1>0, <2>1, <2>3, <2>4, OneJobMoved
<1>32. CASE UNCHANGED vars
  <2>1. \A i \in Jobs : SameForJob(i)
    BY <1>32 DEF vars, SameForJob, jobVars, ledgerVars
  <2>2. MainInv'
    BY <1>32, <1>0
    DEF vars, MainInv, ReportComplete, Uninterrupted, AllDone,
        AllAccounted, mainVars, jobVars, ledgerVars, endVars
  <2> QED
    BY <1>0, <2>1, <2>2, NoJobMoved
<1>33. QED
  BY <1>1, <1>2, <1>3, <1>4, <1>5, <1>6, <1>7, <1>8, <1>9, <1>10, <1>11,
     <1>12, <1>13, <1>14, <1>15, <1>16, <1>17, <1>18, <1>19, <1>20, <1>21,
     <1>22, <1>23, <1>24, <1>25, <1>26, <1>27, <1>28, <1>29, <1>30, <1>31,
     <1>32
  DEF Next, MainLocal, MainRemote, JobLocal, JobRemote, Exited

\* The launch loop begins with nothing started, skipped or written down.
LEMMA InitCompleteInv == Init => CompleteInv
<1> SUFFICES ASSUME Init
             PROVE  CompleteInv
  OBVIOUS
<1>1. CountInv
  BY InitCountInv
<1>2. \A j \in Jobs : JobInv(j)
  BY DEF Init, JobInv, Untouched, Quiet, Workers
<1>3. MainInv
  BY DEF Init, MainInv
<1> QED
  BY <1>1, <1>2, <1>3 DEF CompleteInv

\* A report that is not marked as partial accounts for each cluster of the list
\* exactly once, for every list, every semaphore and every interleaving of the
\* goroutines with an interrupt (main.go: clusterWg and waitAndWrite).
THEOREM CompleteReport == Spec => []ReportComplete
<1>1. CompleteInv => ReportComplete
  BY DEF CompleteInv, MainInv, ReportComplete, Uninterrupted
<1> QED
  BY <1>1, InitCompleteInv, StepKeepsCompleteInv, PTL DEF Spec

-----------------------------------------------------------------------------
(***************************************************************************)
(* Most steps leave the ledger and what is about to enter it alone.        *)
(***************************************************************************)

\* The step writes nothing down, runs no operator, and moves no goroutine from
\* one stage of its accounting to the next.
Silent ==
  /\ UNCHANGED <<hive, hiveTodo, outputs, skipped, running, opNext, calls,
                 totalCalls, elevated, report>>
  /\ main' = "hiveOps" => main = "hiveOps"
  /\ main' \notin {"hiveOps", "hiveAudit"} =>
       main \notin {"hiveOps", "hiveAudit"}
  /\ \A j \in Jobs :
       /\ pc'[j] \in {"launch", "wait"} <=> pc[j] \in {"launch", "wait"}
       /\ pc'[j] = "audit" <=> pc[j] = "audit"
       /\ pc'[j] \in {"idle", "metadata", "connect"} =>
            pc[j] \in {"idle", "metadata", "connect"}

\* The steps of the main thread outside the hive pass, but for the report, are
\* silent (main.go: the launch loop, waitAndWrite and the audit line).
LEMMA MainIsSilent ==
  ASSUME TypeOK, StartedInOrder,
         \/ StopLaunching \/ Admit \/ Launch \/ AllJobsDone \/ OpenHive
         \/ EndHiveOps \/ EndHive \/ WaitAndWrite \/ JobsFinishInWindow
         \/ WindowExpires \/ PrintSummary \/ Interrupt \/ UNCHANGED vars
  PROVE  Silent
<1>1. CASE Launch
  <2>1. next \in Jobs /\ pc[next] = "idle"
    BY <1>1 DEF StartedInOrder, TypeOK, Launch, Jobs
  <2>2. \A j \in Jobs : pc'[j] = IF j = next THEN "metadata" ELSE pc[j]
    BY <1>1, <2>1 DEF Launch, TypeOK
  <2> QED
    BY <1>1, <2>1, <2>2 DEF Launch, Silent, ledgerVars, endVars
<1>2. CASE StopLaunching \/ Admit \/ AllJobsDone \/ OpenHive
  BY <1>2
  DEF StopLaunching, Admit, AllJobsDone, OpenHive, Silent, mainVars, jobVars,
      ledgerVars, endVars
<1>3. CASE EndHiveOps \/ EndHive \/ WaitAndWrite \/ JobsFinishInWindow
  BY <1>3
  DEF EndHiveOps, EndHive, WaitAndWrite, JobsFinishInWindow, Silent, mainVars,
      jobVars, ledgerVars, endVars
<1>4. CASE WindowExpires \/ PrintSummary \/ Interrupt \/ UNCHANGED vars
  BY <1>4
  DEF WindowExpires, PrintSummary, Interrupt, vars, Silent, mainVars, jobVars,
      ledgerVars, endVars
<1> QED
  BY <1>1, <1>2, <1>3, <1>4

\* So are the steps of a goroutine that run no operator and record nothing
\* (main.go: the metadata is accepted, the loop over managedOps ends, the
\* deferred calls).
LEMMA JobIsSilent ==
  ASSUME TypeOK, NEW j \in Jobs,
         \/ AcceptCluster(j) \/ EndOps(j) \/ Disconnect(j) \/ ReleaseSlot(j)
         \/ FinishJob(j)
  PROVE  Silent
<1>1. PICK from, to :
        /\ pc[j] = from /\ pc' = [pc EXCEPT ![j] = to]
        /\ <<from, to>> \in {<<"metadata", "connect">>, <<"launch", "wait">>,
                             <<"disconnect", "release">>,
                             <<"release", "wgDone">>, <<"wgDone", "done">>}
  BY DEF AcceptCluster, EndOps, Disconnect, ReleaseSlot, FinishJob, At, GoTo
<1>2. UNCHANGED <<main, hive, hiveTodo, outputs, skipped, running, opNext,
                  calls, totalCalls, elevated, report>>
  BY DEF AcceptCluster, EndOps, Disconnect, ReleaseSlot, FinishJob, mainVars,
         ledgerVars, endVars
<1>3. \A i \in Jobs : pc'[i] = IF i = j THEN to ELSE pc[i]
  BY <1>1 DEF TypeOK
<1> QED
  BY <1>1, <1>2, <1>3 DEF Silent

\* What is left: the steps that write into the ledger, count calls, start an
\* operator, or open a cluster's accounting.
LEMMA SilentOrNot ==
  ASSUME TypeOK, StartedInOrder, [Next]_vars
  PROVE  \/ Silent
         \/ \E j \in Jobs :
              \/ RejectCluster(j) \/ ConnectFails(j) \/ Connect(j)
              \/ StartOp(j) \/ AttachJobOps(j) \/ AuditJob(j)
              \/ \E op \in 1..NManagedOps : RunOp(j, op)
         \/ \E h \in HiveNames :
              \/ HiveNotFound(h) \/ HiveMetadataFails(h)
              \/ HiveConnectFails(h) \/ HiveConnect(h)
         \/ RunHiveOp \/ AuditHive \/ WriteReport
<1>1. CASE MainLocal
  BY <1>1, MainIsSilent DEF MainLocal
<1>2. CASE MainRemote
  BY <1>2 DEF MainRemote
<1>3. ASSUME NEW j \in Jobs, JobLocal(j) \/ JobRemote(j)
      PROVE  \/ Silent
             \/ RejectCluster(j) \/ ConnectFails(j) \/ Connect(j)
             \/ StartOp(j) \/ AttachJobOps(j) \/ AuditJob(j)
  BY <1>3, JobIsSilent DEF JobLocal, JobRemote
<1>4. CASE Interrupt \/ Exited \/ UNCHANGED vars
  BY <1>4, MainIsSilent DEF Exited
<1> QED
  BY <1>1, <1>2, <1>3, <1>4 DEF Next

-----------------------------------------------------------------------------
(***************************************************************************)
(* No entry is made twice.                                                 *)
(***************************************************************************)

\* The step adds nothing to the ledger for the worker w, and w runs no
\* operator.
SameForWorker(w) ==
  /\ opNext'[w] = opNext[w] /\ calls'[w] = calls[w]
  /\ \A op \in 1..NManagedOps :
       <<w, op>> \in running' <=> <<w, op>> \in running
  /\ \A s \in skipped' : s.worker = w => s \in skipped
  /\ \A p \in outputs' : p.worker = w =>
       \E o \in outputs : o.worker = w /\ o.op = p.op

\* Such a worker is as untouched as it was.
LEMMA StaysUntouched ==
  ASSUME NEW w, SameForWorker(w), Untouched(w)
  PROVE  Untouched(w)'
BY DEF SameForWorker, Untouched

\* The steps of the goroutines leave the hive pass alone.
LEMMA JobKeepsHiveInv ==
  ASSUME TypeOK, HiveInv,
         \A h \in HiveNames : SameForWorker(h),
         UNCHANGED <<main, hive, hiveTodo>>
  PROVE  HiveInv'
<1>1. \A h \in hiveTodo : Untouched(h)' /\ calls'[h] = 0
  BY StaysUntouched DEF TypeOK, HiveInv, SameForWorker
<1>2. main = "hiveOps" => hive \in HiveNames
  BY DEF TypeOK
<1> QED
  BY <1>1, <1>2 DEF HiveInv, SameForWorker

\* An operator that was started once has still been started once when the step
\* is not one of its job's.
LEMMA StaysStartedOnce ==
  ASSUME NEW j \in Jobs, SameForWorker(j), StartedOnce(j),
         \A o \in outputs : o.worker = j =>
           \E p \in outputs' : p.worker = j /\ p.op = o.op
  PROVE  StartedOnce(j)'
BY DEF SameForWorker, StartedOnce, OpInLedger

\* Attaching elevated operations is no entry.
LEMMA AttachAddsNothing ==
  ASSUME outputs \subseteq Output, NEW w,
         AttachOps(w) \/ UNCHANGED outputs, NEW i
  PROVE  /\ \A o \in outputs : o.worker = i =>
              \E p \in outputs' : p.worker = i /\ p.op = o.op
         /\ \A p \in outputs' : p.worker = i =>
              \E o \in outputs : o.worker = i /\ o.op = p.op
BY AttachKeepsOutputs

\* Every step keeps the entries apart.
LEMMA StepKeepsEntriesInv ==
  CompleteInv /\ EntriesInv /\ [Next]_vars => EntriesInv'
<1> SUFFICES ASSUME CompleteInv, EntriesInv, [Next]_vars
             PROVE  EntriesInv'
  OBVIOUS
<1> USE DEF At, GoTo
<1>0. /\ TypeOK /\ StartedInOrder /\ \A j \in Jobs : JobInv(j)
      /\ HiveInv /\ \A j \in Jobs : StartedOnce(j)
      /\ outputs \subseteq Output /\ None \notin HiveNames
      /\ \A j \in Jobs : j \notin HiveNames
  BY NameAssumption DEF CompleteInv, CountInv, EntriesInv, TypeOK, Workers
<1>1. CASE Silent
  <2>1. HiveInv'
    BY <1>0, <1>1 DEF Silent, HiveInv, Untouched
  <2>2. \A j \in Jobs : StartedOnce(j)'
    BY <1>0, <1>1 DEF Silent, StartedOnce, OpInLedger
  <2> QED
    BY <2>1, <2>2 DEF EntriesInv
<1>2. CASE WriteReport
  <2>1. HiveInv'
    BY <1>0, <1>2 DEF WriteReport, HiveInv, Untouched, jobVars, ledgerVars
  <2>2. \A j \in Jobs : StartedOnce(j)'
    BY <1>0, <1>2
    DEF WriteReport, StartedOnce, OpInLedger, jobVars, ledgerVars
  <2> QED
    BY <2>1, <2>2 DEF EntriesInv
<1>3. ASSUME NEW j \in Jobs, RejectCluster(j) \/ ConnectFails(j)
      PROVE  EntriesInv'
  <2>1. PICK status : AddSkip(j, status)
    BY <1>3 DEF RejectCluster, ConnectFails, SkipJob
  <2>2. UNCHANGED <<main, hive, hiveTodo, outputs, running, opNext, calls>>
    BY <1>3 DEF RejectCluster, ConnectFails, mainVars
  <2>3. \A h \in HiveNames : SameForWorker(h)
    BY <1>0, <2>1, <2>2 DEF AddSkip, SameForWorker
  <2>4. HiveInv'
    BY <1>0, <2>2, <2>3, JobKeepsHiveInv
  <2>5. \A i \in Jobs : StartedOnce(i)'
    BY <1>0, <2>2 DEF StartedOnce, OpInLedger
  <2> QED
    BY <2>4, <2>5 DEF EntriesInv
<1>4. ASSUME NEW j \in Jobs, Connect(j) \/ AuditJob(j)
      PROVE  EntriesInv'
  <2>1. UNCHANGED <<main, hive, hiveTodo, outputs, skipped, running, opNext,
                    calls>>
    BY <1>4 DEF Connect, AuditJob, mainVars, ledgerVars
  <2>2. HiveInv'
    BY <1>0, <2>1 DEF HiveInv, Untouched
  <2>3. \A i \in Jobs : StartedOnce(i)'
    BY <1>0, <2>1 DEF StartedOnce, OpInLedger
  <2> QED
    BY <2>2, <2>3 DEF EntriesInv
<1>5. ASSUME NEW j \in Jobs, StartOp(j)
      PROVE  EntriesInv'
  <2>1. /\ running' = running \union {<<j, opNext[j]>>}
        /\ opNext' = [opNext EXCEPT ![j] = @ + 1]
        /\ UNCHANGED <<main, hive, hiveTodo, outputs, skipped, calls>>
    BY <1>5 DEF StartOp, mainVars, ledgerVars
  <2>2. opNext \in [Workers -> Nat \ {0}] /\ j \in Workers
    BY <1>0 DEF TypeOK, Workers
  <2>3. \A w \in Workers \ {j} : SameForWorker(w)
    BY <2>1, <2>2 DEF SameForWorker
  <2>4. HiveInv'
    BY <1>0, <2>1, <2>3, JobKeepsHiveInv DEF Workers
  <2>5. \A i \in Jobs \ {j} : StartedOnce(i)'
    BY <1>0, <2>1, <2>3, StaysStartedOnce DEF Workers
  <2>6. StartedOnce(j)'
    <3>1. opNext'[j] = opNext[j] + 1 /\ opNext[j] \in Nat
      BY <2>1, <2>2
    <3>2. \A op \in 1..NManagedOps :
            <<j, op>> \in running' => <<j, op>> \in running \/ op = opNext[j]
      BY <2>1
    <3>3. \A op \in 1..NManagedOps : OpInLedger(j, op)' <=> OpInLedger(j, op)
      BY <2>1 DEF OpInLedger
    <3> QED
      BY <1>0, <3>1, <3>2, <3>3 DEF StartedOnce
  <2> QED
    BY <2>4, <2>5, <2>6 DEF EntriesInv
<1>6. ASSUME NEW j \in Jobs, NEW op \in 1..NManagedOps, RunOp(j, op)
      PROVE  EntriesInv'
  <2>1. /\ running' = running \ {<<j, op>>} /\ <<j, op>> \in running
        /\ outputs' = outputs \union
                        {[worker |-> j, op |-> op, ops |-> None]}
        /\ UNCHANGED <<main, hive, hiveTodo, opNext, skipped>>
        /\ \E c : calls' = [calls EXCEPT ![j] = @ + c]
    BY <1>6 DEF RunOp, AddOutput, mainVars
  <2>2. calls \in [Workers -> Nat] /\ j \in Workers
    BY <1>0 DEF TypeOK, Workers
  <2>3. \A w \in Workers \ {j} : SameForWorker(w)
    BY <2>1, <2>2 DEF SameForWorker
  <2>4. HiveInv'
    BY <1>0, <2>1, <2>3, JobKeepsHiveInv DEF Workers
  <2>5. \A i \in Jobs \ {j} : StartedOnce(i)'
    BY <1>0, <2>1, <2>3, StaysStartedOnce DEF Workers
  <2>6. StartedOnce(j)'
    <3> DEFINE new == [worker |-> j, op |-> op, ops |-> None]
    <3>1. /\ outputs' = outputs \union {new}
          /\ new.worker = j /\ new.op = op
      BY <2>1
    <3> HIDE DEF new
    <3>2. \A p \in 1..NManagedOps :
            OpInLedger(j, p)' <=> OpInLedger(j, p) \/ p = op
      BY <3>1 DEF OpInLedger
    <3> QED
      BY <1>0, <2>1, <3>2 DEF StartedOnce
  <2> QED
    BY <2>4, <2>5, <2>6 DEF EntriesInv
<1>7. ASSUME NEW j \in Jobs, AttachJobOps(j)
      PROVE  EntriesInv'
  <2>1. /\ AttachOps(j) \/ UNCHANGED outputs
        /\ UNCHANGED <<main, hive, hiveTodo, opNext, skipped, running, calls>>
    BY <1>7 DEF AttachJobOps, AttachOps, mainVars
  <2>2. ASSUME NEW w
        PROVE  /\ SameForWorker(w)
               /\ \A o \in outputs : o.worker = w =>
                    \E p \in outputs' : p.worker = w /\ p.op = o.op
    BY <1>0, <2>1, AttachAddsNothing DEF SameForWorker
  <2>3. HiveInv'
    BY <1>0, <2>1, <2>2, JobKeepsHiveInv
  <2>4. \A i \in Jobs : StartedOnce(i)'
    BY <1>0, <2>2, StaysStartedOnce
  <2> QED
    BY <2>3, <2>4 DEF EntriesInv
<1>8. ASSUME NEW h \in HiveNames,
             \/ HiveNotFound(h) \/ HiveMetadataFails(h)
             \/ HiveConnectFails(h) \/ HiveConnect(h)
      PROVE  EntriesInv'
  <2>1. /\ main = "hive" /\ h \in hiveTodo /\ hiveTodo' = hiveTodo \ {h}
        /\ UNCHANGED <<opNext, outputs, running, calls>>
        /\ skipped' = skipped \/ \E status : AddSkip(h, status)
        /\ \/ main' = main /\ hive' = hive
           \/ main' = "hiveOps" /\ hive' = h /\ skipped' = skipped
    BY <1>8
    DEF HiveNotFound, HiveMetadataFails, HiveConnectFails, HiveConnect, Visit,
        jobVars, ledgerVars
  <2>2. \A w : w # h => SameForWorker(w)
    BY <2>1 DEF AddSkip, SameForWorker
  <2>3. HiveInv'
    <3>1. \A g \in hiveTodo' : Untouched(g)' /\ calls'[g] = 0
      BY <1>0, <2>1, <2>2, StaysUntouched DEF HiveInv
    <3>2. hive = None /\ Untouched(h)
      BY <1>0, <2>1 DEF HiveInv
    <3>3. hive' \notin hiveTodo'
      BY <1>0, <2>1 DEF HiveInv
    <3> QED
      BY <2>1, <3>1, <3>2, <3>3 DEF HiveInv, Untouched
  <2>4. \A i \in Jobs : StartedOnce(i)'
    BY <1>0, <2>1 DEF StartedOnce, OpInLedger
  <2> QED
    BY <2>3, <2>4 DEF EntriesInv
<1>9. CASE RunHiveOp
  <2>1. PICK h \in HiveNames : h = hive
    BY <1>0, <1>9 DEF RunHiveOp, TypeOK
  <2>2. /\ main = "hiveOps" /\ opNext' = [opNext EXCEPT ![h] = @ + 1]
        /\ outputs' = outputs \union
                        {[worker |-> h, op |-> opNext[h], ops |-> None]}
        /\ \E c : calls' = [calls EXCEPT ![h] = @ + c]
        /\ UNCHANGED <<main, hive, hiveTodo, skipped, running>>
    BY <1>9, <2>1 DEF RunHiveOp, AddOutput, mainVars
  <2>3. /\ opNext \in [Workers -> Nat \ {0}] /\ calls \in [Workers -> Nat]
        /\ h \in Workers
    BY <1>0 DEF TypeOK, Workers
  <2>4. \A w \in Workers \ {h} : SameForWorker(w)
    BY <2>2, <2>3 DEF SameForWorker
  <2>5. HiveInv'
    <3>1. h \notin hiveTodo /\ hiveTodo \subseteq Workers
      BY <1>0, <2>1 DEF HiveInv, TypeOK, Workers
    <3>2. \A g \in hiveTodo : Untouched(g)' /\ calls'[g] = 0
      BY <1>0, <2>2, <2>4, <3>1, StaysUntouched DEF HiveInv, SameForWorker
    <3>3. opNext'[h] = opNext[h] + 1 /\ opNext[h] \in Nat
      BY <2>2, <2>3
    <3>4. \A o \in outputs' : o.worker = h => o.op < opNext'[h]
      <4>1. ASSUME NEW o \in outputs', o.worker = h
            PROVE  o.op < opNext'[h]
        <5>1. CASE o \in outputs
          <6>1. o.op < opNext[h] /\ o.op \in Nat
            BY <1>0, <2>1, <2>2, <4>1, <5>1 DEF HiveInv, Output
          <6> QED
            BY <3>3, <6>1
        <5>2. CASE o.op = opNext[h]
          BY <3>3, <5>2
        <5> QED
          BY <2>2, <5>1, <5>2
      <4> QED
        BY <4>1
    <3> QED
      BY <1>0, <2>1, <2>2, <3>2, <3>4 DEF HiveInv
  <2>6. \A i \in Jobs : StartedOnce(i)'
    <3>1. \A i \in Jobs : i \in Workers \ {h}
      BY <1>0 DEF Workers
    <3>2. outputs \subseteq outputs'
      BY <2>2
    <3> QED
      BY <1>0, <2>4, <3>1, <3>2, StaysStartedOnce
  <2> QED
    BY <2>5, <2>6 DEF EntriesInv
<1>10. CASE AuditHive
  <2>1. /\ AttachOps(hive) \/ UNCHANGED outputs
        /\ main' = "hive" /\ hive' = None
        /\ UNCHANGED <<hiveTodo, opNext, skipped, running, calls>>
    BY <1>10 DEF AuditHive, AttachOps
  <2>2. ASSUME NEW w
        PROVE  /\ SameForWorker(w)
               /\ \A o \in outputs : o.worker = w =>
                    \E p \in outputs' : p.worker = w /\ p.op = o.op
    BY <1>0, <2>1, AttachAddsNothing DEF SameForWorker
  <2>3. HiveInv'
    <3>1. \A h \in hiveTodo : Untouched(h)' /\ calls'[h] = 0
      BY <1>0, <2>1, <2>2, StaysUntouched DEF HiveInv
    <3>2. None \notin hiveTodo
      BY <1>0 DEF TypeOK
    <3> QED
      BY <2>1, <3>1, <3>2 DEF HiveInv
  <2>4. \A i \in Jobs : StartedOnce(i)'
    BY <1>0, <2>2, StaysStartedOnce
  <2> QED
    BY <2>3, <2>4 DEF EntriesInv
<1> QED
  BY <1>0, <1>1, <1>2, <1>3, <1>4, <1>5, <1>6, <1>7, <1>8, <1>9, <1>10,
     SilentOrNot

\* No entry has been made when the launch loop begins.
LEMMA InitEntriesInv == Init => EntriesInv
BY NameAssumption
DEF Init, EntriesInv, HiveInv, Untouched, StartedOnce, OpInLedger, Workers

-----------------------------------------------------------------------------
(***************************************************************************)
(* The run keeps the abstract book of Ledger.                              *)
(***************************************************************************)

\* A step that changes no entry and no report is a stutter of the book.
LEMMA BookStutters ==
  ASSUME report' = report, skipped' = skipped,
         \A w : /\ \A o \in outputs : o.worker = w =>
                     \E p \in outputs' : p.worker = w /\ p.op = o.op
                /\ \A p \in outputs' : p.worker = w =>
                     \E o \in outputs : o.worker = w /\ o.op = p.op
  PROVE  UNCHANGED Book!vars
<1>1. {<<p.worker, p.op>> : p \in outputs'}
        = {<<o.worker, o.op>> : o \in outputs}
  <2>1. ASSUME NEW o \in outputs
        PROVE  <<o.worker, o.op>> \in {<<p.worker, p.op>> : p \in outputs'}
    <3>1. PICK p \in outputs' : p.worker = o.worker /\ p.op = o.op
      OBVIOUS
    <3> QED
      BY <3>1
  <2>2. ASSUME NEW p \in outputs'
        PROVE  <<p.worker, p.op>> \in {<<o.worker, o.op>> : o \in outputs}
    <3>1. PICK o \in outputs : o.worker = p.worker /\ o.op = p.op
      OBVIOUS
    <3> QED
      BY <3>1
  <2> QED
    BY <2>1, <2>2
<1> QED
  BY <1>1 DEF Book!vars

\* The book is open until a report that is not partial is on disk, and then no
\* goroutine is left to write into it.
LEMMA BookOpen ==
  ASSUME CompleteInv,
         main \notin {"summary", "exited"} \/ \E j \in Jobs : pc[j] # "done"
  PROVE  ~Book!Closed
<1>1. MainInv
  BY DEF CompleteInv
<1>2. report = None \/ report.interrupted
  BY <1>1 DEF MainInv, AllAccounted, AllDone
<1> QED
  BY <1>2 DEF Book!Closed

\* A skip is the first entry of its cluster.
LEMMA SkipIsRecorded ==
  ASSUME ~Book!Closed, NEW w, Untouched(w), NEW status, AddSkip(w, status),
         UNCHANGED <<outputs, report>>
  PROVE  Book!RecordSkip(w)
<1>1. {s.worker : s \in skipped'} = {s.worker : s \in skipped} \union {w}
  <2> DEFINE new == [worker |-> w, status |-> status]
  <2>1. new.worker = w /\ skipped' = skipped \union {new}
    BY DEF AddSkip
  <2> HIDE DEF new
  <2> QED
    BY <2>1
<1>2. w \notin {s.worker : s \in skipped}
  BY DEF Untouched
<1>3. \A op : <<w, op>> \notin {<<o.worker, o.op>> : o \in outputs}
  BY DEF Untouched
<1> QED
  BY <1>1, <1>2, <1>3 DEF Book!RecordSkip

\* An output is the first of its operator, and its cluster was not skipped.
LEMMA OutputIsRecorded ==
  ASSUME ~Book!Closed, NEW w, NEW op, AddOutput(w, op),
         UNCHANGED <<skipped, report>>,
         \A s \in skipped : s.worker # w,
         \A o \in outputs : o.worker = w => o.op # op
  PROVE  Book!RecordOutput(w, op)
<1>1. {<<o.worker, o.op>> : o \in outputs'}
        = {<<o.worker, o.op>> : o \in outputs} \union {<<w, op>>}
  <2> DEFINE new == [worker |-> w, op |-> op, ops |-> None]
  <2>1. new.worker = w /\ new.op = op /\ outputs' = outputs \union {new}
    BY DEF AddOutput
  <2> HIDE DEF new
  <2> QED
    BY <2>1
<1>2. w \notin {s.worker : s \in skipped}
  OBVIOUS
<1>3. <<w, op>> \notin {<<o.worker, o.op>> : o \in outputs}
  OBVIOUS
<1> QED
  BY <1>1, <1>2, <1>3 DEF Book!RecordOutput

\* The report publishes the book as it is; one that is not partial finds every
\* cluster settled.
LEMMA ReportIsPublished ==
  ASSUME CompleteInv, WriteReport
  PROVE  (\E p \in BOOLEAN : Book!Publish(p)) \/ UNCHANGED Book!vars
<1>1. report = None /\ (AllAccounted \/ interrupted)
  BY DEF CompleteInv, MainInv, WriteReport
<1>2. UNCHANGED <<outputs, skipped>>
  BY DEF WriteReport, ledgerVars
<1>3. CASE report' = None
  BY <1>1, <1>2, <1>3 DEF Book!vars
<1>4. CASE report' # None
  <2>1. report' = [outputs |-> outputs, skipped |-> skipped,
                   interrupted |-> interrupted,
                   calls |-> totalCalls, clusters |-> elevated]
    BY <1>1, <1>4 DEF WriteReport
  <2>2. /\ report'.outputs = outputs /\ report'.skipped = skipped
        /\ report'.interrupted = interrupted
    BY <2>1
  <2>3. ~interrupted => \A j \in Jobs : Book!Settled(j)
    <3> SUFFICES ASSUME ~interrupted, NEW j \in Jobs
                 PROVE  Book!Settled(j)
      OBVIOUS
    <3>1. Accounted(skipped, outputs, j)
      BY <1>1 DEF AllAccounted
    <3>2. CASE SkippedOnce(skipped, outputs, j)
      BY <3>2 DEF SkippedOnce, Book!Settled
    <3>3. CASE CheckedInFull(skipped, outputs, j)
      BY <3>3 DEF CheckedInFull, Book!Settled
    <3> QED
      BY <3>1, <3>2, <3>3 DEF Accounted
  <2>4. PICK p \in BOOLEAN : p = interrupted
    BY DEF CompleteInv, CountInv, TypeOK
  <2>5. Book!Publish(p)
    BY <1>1, <1>2, <1>4, <2>2, <2>3, <2>4 DEF Book!Publish
  <2> QED
    BY <2>5
<1> QED
  BY <1>3, <1>4

\* Every step of the run is a step of the book or a stutter.
LEMMA StepKeepsBook ==
  CompleteInv /\ EntriesInv /\ [Next]_vars => [Book!Next]_(Book!vars)
<1> SUFFICES ASSUME CompleteInv, EntriesInv, [Next]_vars
             PROVE  [Book!Next]_(Book!vars)
  OBVIOUS
<1> USE DEF At, GoTo
<1>0. /\ TypeOK /\ StartedInOrder /\ \A j \in Jobs : JobInv(j)
      /\ HiveInv /\ \A j \in Jobs : StartedOnce(j)
      /\ outputs \subseteq Output
  BY DEF CompleteInv, CountInv, EntriesInv, TypeOK
<1>1. CASE Silent
  BY <1>1, BookStutters DEF Silent
<1>2. CASE WriteReport
  BY <1>2, ReportIsPublished DEF Book!Next
<1>3. ASSUME NEW j \in Jobs, RejectCluster(j) \/ ConnectFails(j)
      PROVE  Book!Next
  <2>1. /\ pc[j] \in {"metadata", "connect"}
        /\ UNCHANGED <<outputs, report>>
        /\ \E status : AddSkip(j, status)
    BY <1>3 DEF RejectCluster, ConnectFails, SkipJob, endVars
  <2>2. Untouched(j)
    BY <1>0, <2>1 DEF JobInv
  <2>3. Book!RecordSkip(j)
    BY <2>1, <2>2, BookOpen, SkipIsRecorded
  <2> QED
    BY <2>3 DEF Book!Next, Book!Workers
<1>4. ASSUME NEW j \in Jobs, Connect(j) \/ StartOp(j) \/ AuditJob(j)
      PROVE  UNCHANGED Book!vars
  BY <1>4, BookStutters DEF Connect, StartOp, AuditJob, ledgerVars, endVars
<1>5. ASSUME NEW j \in Jobs, AttachJobOps(j)
      PROVE  UNCHANGED Book!vars
  <2>1. /\ AttachOps(j) \/ UNCHANGED outputs
        /\ UNCHANGED <<skipped, report>>
    BY <1>5 DEF AttachJobOps, AttachOps, endVars
  <2> QED
    BY <1>0, <2>1, AttachAddsNothing, BookStutters
<1>6. ASSUME NEW j \in Jobs, NEW op \in 1..NManagedOps, RunOp(j, op)
      PROVE  Book!Next
  <2>1. /\ AddOutput(j, op) /\ <<j, op>> \in running
        /\ UNCHANGED <<skipped, report>>
    BY <1>6 DEF RunOp, endVars
  <2>2. pc[j] \in {"launch", "wait"}
    BY <1>0, <2>1 DEF JobInv, Quiet
  <2>3. \A s \in skipped : s.worker # j
    BY <1>0, <2>2 DEF JobInv, Checking
  <2>4. \A o \in outputs : o.worker = j => o.op # op
    BY <1>0, <2>1 DEF StartedOnce, OpInLedger
  <2>5. Book!RecordOutput(j, op)
    BY <2>1, <2>2, <2>3, <2>4, BookOpen, OutputIsRecorded
  <2> QED
    BY <2>5 DEF Book!Next
<1>7. ASSUME NEW h \in HiveNames, HiveNotFound(h) \/ HiveConnectFails(h)
      PROVE  Book!Next
  <2>1. /\ main = "hive" /\ h \in hiveTodo
        /\ UNCHANGED <<outputs, report>>
        /\ \E status : AddSkip(h, status)
    BY <1>7 DEF HiveNotFound, HiveConnectFails, Visit, endVars
  <2>2. Untouched(h)
    BY <1>0, <2>1 DEF HiveInv
  <2>3. Book!RecordSkip(h)
    BY <2>1, <2>2, BookOpen, SkipIsRecorded
  <2> QED
    BY <2>3 DEF Book!Next, Book!Workers
<1>8. ASSUME NEW h \in HiveNames, HiveMetadataFails(h) \/ HiveConnect(h)
      PROVE  UNCHANGED Book!vars
  BY <1>8, BookStutters
  DEF HiveMetadataFails, HiveConnect, ledgerVars, endVars
<1>9. CASE RunHiveOp
  <2>1. PICK op : op = opNext[hive]
    OBVIOUS
  <2>2. /\ hive \in HiveNames /\ opNext \in [Workers -> Nat \ {0}]
        /\ hive \in Workers
    BY <1>0, <1>9 DEF RunHiveOp, TypeOK, Workers
  <2>3. op \in 1..NHiveOps
    <3>1. op \in Nat \ {0} /\ op <= NHiveOps
      BY <1>9, <2>1, <2>2 DEF RunHiveOp
    <3> QED
      BY <3>1, SizeAssumption
  <2>4. /\ main = "hiveOps" /\ AddOutput(hive, op)
        /\ UNCHANGED <<skipped, report>>
    BY <1>9, <2>1 DEF RunHiveOp, endVars
  <2>5. \A s \in skipped : s.worker # hive
    BY <1>0, <2>4 DEF HiveInv
  <2>6. ASSUME NEW o \in outputs, o.worker = hive
        PROVE  o.op # op
    <3>1. o.op < op /\ o.op \in Nat /\ op \in Nat
      BY <1>0, <2>1, <2>3, <2>4, <2>6 DEF HiveInv, Output
    <3> QED
      BY <3>1
  <2>7. Book!RecordOutput(hive, op)
    BY <2>4, <2>5, <2>6, BookOpen, OutputIsRecorded
  <2> QED
    BY <2>2, <2>3, <2>7 DEF Book!Next
<1>10. CASE AuditHive
  <2>1. /\ AttachOps(hive) \/ UNCHANGED outputs
        /\ UNCHANGED <<skipped, report>>
    BY <1>10 DEF AuditHive, AttachOps, endVars
  <2> QED
    BY <1>0, <2>1, AttachAddsNothing, BookStutters
<1> QED
  BY <1>0, <1>1, <1>2, <1>3, <1>4, <1>5, <1>6, <1>7, <1>8, <1>9, <1>10,
     SilentOrNot

\* The run starts with an empty book and nothing published.
LEMMA InitBook == Init => Book!Init
BY DEF Init, Book!Init

\* Everything the proofs of this module rest on holds in every reachable state.
LEMMA EntriesInvariant == Spec => [](CompleteInv /\ EntriesInv)
<1>1. Init => CompleteInv /\ EntriesInv
  BY InitCompleteInv, InitEntriesInv
<1> QED
  BY <1>1, StepKeepsCompleteInv, StepKeepsEntriesInv, PTL DEF Spec

\* The run implements the abstract book, for every list of clusters, every
\* number of operators and every interleaving with an interrupt: entries are
\* only added, none contradicts another or is made twice, and a publication
\* that is not partial finds every cluster settled and is the last (main.go:
\* what is appended under mu, clusterWg, and writeResults).
THEOREM BookIsKept == Spec => KeepsBook
<1>1. Init => Book!Init
  BY InitBook
<1> QED
  BY <1>1, EntriesInvariant, StepKeepsBook, PTL
  DEF Spec, KeepsBook, Book!Spec

-----------------------------------------------------------------------------
(***************************************************************************)
(* The elevated operations on the outputs.                                 *)
(***************************************************************************)

\* A complete report froze the calls of every cluster.
LEMMA ReportedIsOver ==
  ASSUME CompleteInv, Uninterrupted
  PROVE  /\ main \in {"summary", "exited"}
         /\ \A j \in Jobs : pc[j] = "done"
BY DEF CompleteInv, MainInv, AllAccounted, AllDone, Uninterrupted

\* A step that changes none of the calls and no report keeps what the report
\* says of them.
LEMMA SameReportedOps ==
  ASSUME OpsAttributed, UNCHANGED <<report, calls>>
  PROVE  OpsAttributed'
BY DEF OpsAttributed, Uninterrupted

\* So does any step before there is a complete report.
LEMMA NoReportedOps ==
  ASSUME CompleteInv, report' = report,
         main \notin {"summary", "exited"} \/ \E j \in Jobs : pc[j] # "done"
  PROVE  OpsAttributed'
<1>1. ~Uninterrupted
  BY ReportedIsOver
<1> QED
  BY <1>1 DEF OpsAttributed, Uninterrupted

\* The client of w attaches its operations, w having been the one that was
\* counting: its own outputs get them, and no cluster of another id is touched
\* (main.go: the loop over allOutputs compares cluster ids).
LEMMA AttachOwnOps ==
  ASSUME TypeOK, AttachedInv, NEW w \in Workers,
         IF calls[w] > 0 THEN AttachOps(w) ELSE UNCHANGED outputs,
         ~Attached(w), Attached(w)', calls' = calls,
         \A v \in Workers \ {w} : Attached(v)' <=> Attached(v)
  PROVE  AttachedInv'
<1>1. outputs \subseteq Output /\ calls \in [Workers -> Nat] /\ None # w
  BY NameAssumption DEF TypeOK
<1>2. ASSUME NEW o \in outputs, Alone(o.worker)
      PROVE  /\ o.worker \in Workers
             /\ o.ops = IF Attached(o.worker) /\ calls[o.worker] > 0
                        THEN o.worker ELSE None
  BY <1>1, <1>2 DEF AttachedInv, Output
<1>3. CASE calls[w] > 0
  <2> DEFINE Mark(o) == IF IdOf[o.worker] = IdOf[w] /\ o.ops = None
                        THEN [o EXCEPT !.ops = w] ELSE o
  <2>1. outputs' = {Mark(o) : o \in outputs}
    BY <1>3 DEF AttachOps
  <2>2. ASSUME NEW o \in outputs
        PROVE  /\ Mark(o).worker = o.worker
               /\ Mark(o).ops = IF IdOf[o.worker] = IdOf[w] /\ o.ops = None
                                THEN w ELSE o.ops
    BY <1>1 DEF Output
  <2> HIDE DEF Mark
  <2>3. ASSUME NEW o \in outputs, Alone(o.worker)
        PROVE  Mark(o).ops = IF Attached(o.worker)' /\ calls'[o.worker] > 0
                             THEN o.worker ELSE None
    <3>1. CASE o.worker = w
      BY <1>1, <1>2, <1>3, <2>2, <2>3, <3>1
    <3>2. CASE o.worker # w
      <4>1. o.worker \in Workers /\ IdOf[o.worker] # IdOf[w]
        BY <1>2, <2>3, <3>2 DEF Alone
      <4>2. Attached(o.worker)' <=> Attached(o.worker)
        BY <3>2, <4>1
      <4> QED
        BY <1>2, <2>2, <2>3, <4>1, <4>2
    <3> QED
      BY <3>1, <3>2
  <2> QED
    BY <2>1, <2>2, <2>3 DEF AttachedInv, Alone
<1>4. CASE ~(calls[w] > 0)
  <2>1. outputs' = outputs
    BY <1>4
  <2>2. ASSUME NEW o \in outputs, Alone(o.worker)
        PROVE  o.ops = IF Attached(o.worker)' /\ calls'[o.worker] > 0
                       THEN o.worker ELSE None
    BY <1>2, <1>4, <2>2
  <2> QED
    BY <2>1, <2>2 DEF AttachedInv, Alone
<1> QED
  BY <1>3, <1>4

\* A worker whose client is counting runs an operator: its outputs have no
\* operations yet, the new one included.
LEMMA RunKeepsAttached ==
  ASSUME TypeOK, AttachedInv, NEW w \in Workers, NEW op, AddOutput(w, op),
         NEW c, calls' = [calls EXCEPT ![w] = @ + c],
         ~Attached(w), \A v : Attached(v)' <=> Attached(v)
  PROVE  AttachedInv'
<1>1. calls \in [Workers -> Nat] /\ outputs \subseteq Output
  BY DEF TypeOK
<1> DEFINE new == [worker |-> w, op |-> op, ops |-> None]
<1>2. /\ outputs' = outputs \union {new}
      /\ new.worker = w /\ new.ops = None
  BY DEF AddOutput
<1> HIDE DEF new
<1>3. \A o \in outputs : o.worker # w => calls'[o.worker] = calls[o.worker]
  BY <1>1 DEF Output
<1>4. ASSUME NEW o \in outputs', Alone(o.worker)
      PROVE  o.ops = IF Attached(o.worker)' /\ calls'[o.worker] > 0
                     THEN o.worker ELSE None
  <2>1. CASE o = new
    BY <1>2, <2>1
  <2>2. CASE o \in outputs /\ o.worker = w
    BY <1>4, <2>2 DEF AttachedInv
  <2>3. CASE o \in outputs /\ o.worker # w
    <3>1. calls'[o.worker] = calls[o.worker]
      BY <1>3, <2>3
    <3>2. Attached(o.worker)' <=> Attached(o.worker)
      OBVIOUS
    <3> QED
      BY <1>4, <2>3, <3>1, <3>2 DEF AttachedInv
  <2> QED
    BY <1>2, <2>1, <2>2, <2>3
<1> QED
  BY <1>4 DEF AttachedInv, Alone

\* No output of the worker, no matter that it starts counting.
LEMMA StartKeepsAttached ==
  ASSUME AttachedInv, NEW w, \A o \in outputs : o.worker # w,
         UNCHANGED <<outputs, calls>>,
         \A v : v # w => (Attached(v)' <=> Attached(v))
  PROVE  AttachedInv'
<1>1. ASSUME NEW o \in outputs, Alone(o.worker)
      PROVE  o.ops = IF Attached(o.worker)' /\ calls'[o.worker] > 0
                     THEN o.worker ELSE None
  <2>1. Attached(o.worker)' <=> Attached(o.worker)
    OBVIOUS
  <2> QED
    BY <1>1, <2>1 DEF AttachedInv
<1> QED
  BY <1>1 DEF AttachedInv, Alone

\* Every step keeps the operations on the right outputs.
LEMMA StepKeepsOpsInv ==
  CompleteInv /\ EntriesInv /\ OpsInv /\ [Next]_vars => OpsInv'
<1> SUFFICES ASSUME CompleteInv, EntriesInv, OpsInv, [Next]_vars
             PROVE  OpsInv'
  OBVIOUS
<1> USE DEF At, GoTo
<1>0. /\ TypeOK /\ StartedInOrder /\ \A j \in Jobs : JobInv(j)
      /\ HiveInv /\ AttachedInv /\ OpsAttributed
      /\ pc \in [Jobs -> JobSteps] /\ outputs \subseteq Output
      /\ \A j \in Jobs : j \notin HiveNames
  BY NameAssumption DEF CompleteInv, CountInv, EntriesInv, OpsInv, TypeOK
<1>1. ASSUME UNCHANGED <<outputs, calls, report, hive>>,
             \A j \in Jobs : pc'[j] \in {"launch", "wait"}
                               <=> pc[j] \in {"launch", "wait"}
      PROVE  OpsInv'
  <2>1. ASSUME NEW o \in outputs, Alone(o.worker)
        PROVE  o.ops = IF Attached(o.worker)' /\ calls'[o.worker] > 0
                       THEN o.worker ELSE None
    <3>1. Attached(o.worker)' <=> Attached(o.worker)
      BY <1>1 DEF Attached
    <3> QED
      BY <1>0, <1>1, <2>1, <3>1 DEF AttachedInv
  <2>2. AttachedInv'
    BY <1>1, <2>1 DEF AttachedInv, Alone
  <2> QED
    BY <1>0, <1>1, <2>2, SameReportedOps DEF OpsInv
<1>2. CASE Silent
  BY <1>1, <1>2 DEF Silent
<1>3. ASSUME NEW j \in Jobs,
             RejectCluster(j) \/ ConnectFails(j) \/ AuditJob(j) \/ StartOp(j)
      PROVE  OpsInv'
  BY <1>0, <1>1, <1>3
  DEF RejectCluster, ConnectFails, AuditJob, StartOp, SkipJob, mainVars,
      ledgerVars, endVars
<1>4. ASSUME NEW h \in HiveNames,
             HiveNotFound(h) \/ HiveMetadataFails(h) \/ HiveConnectFails(h)
      PROVE  OpsInv'
  BY <1>1, <1>4
  DEF HiveNotFound, HiveMetadataFails, HiveConnectFails, jobVars, ledgerVars,
      endVars
<1>5. CASE WriteReport
  <2>1. /\ UNCHANGED <<outputs, calls, hive, pc>>
        /\ main = "write"
    BY <1>5 DEF WriteReport, jobVars, ledgerVars
  <2>2. AttachedInv'
    <3>1. ASSUME NEW o \in outputs, Alone(o.worker)
          PROVE  o.ops = IF Attached(o.worker)' /\ calls'[o.worker] > 0
                         THEN o.worker ELSE None
      BY <1>0, <2>1, <3>1 DEF AttachedInv, Attached
    <3> QED
      BY <2>1, <3>1 DEF AttachedInv, Alone
  <2>3. OpsAttributed'
    <3>1. CASE report' = report
      BY <1>0, <2>1, <3>1, SameReportedOps
    <3>2. CASE report' = [outputs |-> outputs, skipped |-> skipped,
                          interrupted |-> interrupted,
                          calls |-> totalCalls, clusters |-> elevated]
      <4>1. report'.outputs = outputs /\ report'.interrupted = interrupted
        BY <3>2
      <4>2. hive = None /\ None \notin Workers
        BY <1>0, <2>1, NameAssumption DEF HiveInv
      <4>3. ~interrupted => \A w \in Workers : Attached(w)
        <5>1. ~interrupted => \A j \in Jobs : pc[j] = "done"
          BY <2>1 DEF CompleteInv, MainInv, AllAccounted, AllDone
        <5> QED
          BY <4>2, <5>1 DEF Attached
      <4>4. ASSUME ~interrupted, NEW o \in outputs, Alone(o.worker)
            PROVE  o.ops = IF calls[o.worker] > 0 THEN o.worker ELSE None
        <5>1. Attached(o.worker)
          BY <1>0, <4>3, <4>4 DEF Output
        <5> QED
          BY <1>0, <4>4, <5>1 DEF AttachedInv
      <4> QED
        BY <2>1, <4>1, <4>4 DEF OpsAttributed, Uninterrupted, Alone
    <3> QED
      BY <1>5, <3>1, <3>2 DEF WriteReport
  <2> QED
    BY <2>2, <2>3 DEF OpsInv
<1>6. ASSUME NEW j \in Jobs, Connect(j)
      PROVE  OpsInv'
  <2>1. /\ pc[j] = "connect" /\ pc' = [pc EXCEPT ![j] = "launch"]
        /\ UNCHANGED <<outputs, calls, report, hive>>
    BY <1>6 DEF Connect, mainVars, ledgerVars, endVars
  <2>2. \A o \in outputs : o.worker # j
    BY <1>0, <2>1 DEF JobInv, Untouched
  <2>3. \A v : v # j => (Attached(v)' <=> Attached(v))
    BY <1>0, <2>1 DEF Attached
  <2>4. AttachedInv'
    BY <1>0, <2>1, <2>2, <2>3, StartKeepsAttached
  <2> QED
    BY <1>0, <2>1, <2>4, SameReportedOps DEF OpsInv
<1>7. ASSUME NEW h \in HiveNames, HiveConnect(h)
      PROVE  OpsInv'
  <2>1. /\ main = "hive" /\ h \in hiveTodo /\ hive' = h
        /\ UNCHANGED <<outputs, calls, report, pc>>
    BY <1>7 DEF HiveConnect, Visit, ledgerVars, endVars
  <2>2. hive = None /\ \A o \in outputs : o.worker # h
    BY <1>0, <2>1 DEF HiveInv, Untouched
  <2>3. \A o \in outputs : o.worker # None
    BY <1>0, NameAssumption DEF Output
  <2>4. AttachedInv'
    <3>1. ASSUME NEW o \in outputs, Alone(o.worker)
          PROVE  o.ops = IF Attached(o.worker)' /\ calls'[o.worker] > 0
                         THEN o.worker ELSE None
      <4>1. Attached(o.worker)' <=> Attached(o.worker)
        BY <2>1, <2>2, <2>3 DEF Attached
      <4> QED
        BY <1>0, <2>1, <3>1, <4>1 DEF AttachedInv
    <3> QED
      BY <2>1, <3>1 DEF AttachedInv, Alone
  <2> QED
    BY <1>0, <2>1, <2>4, SameReportedOps DEF OpsInv
<1>8. ASSUME NEW j \in Jobs, NEW op \in 1..NManagedOps, RunOp(j, op)
      PROVE  OpsInv'
  <2>1. /\ AddOutput(j, op) /\ <<j, op>> \in running
        /\ UNCHANGED <<pc, hive, report>>
    BY <1>8 DEF RunOp, mainVars, endVars
  <2>2. PICK c : calls' = [calls EXCEPT ![j] = @ + c]
    BY <1>8 DEF RunOp
  <2>3. pc[j] \in {"launch", "wait"}
    BY <1>0, <2>1 DEF JobInv, Quiet
  <2>4. ~Attached(j) /\ \A v : Attached(v)' <=> Attached(v)
    BY <2>1, <2>3 DEF Attached
  <2>5. AttachedInv'
    BY <1>0, <2>1, <2>2, <2>4, RunKeepsAttached DEF Workers
  <2>6. OpsAttributed'
    BY <2>1, <2>3, NoReportedOps
  <2> QED
    BY <2>5, <2>6 DEF OpsInv
<1>9. CASE RunHiveOp
  <2>1. /\ AddOutput(hive, opNext[hive]) /\ main = "hiveOps"
        /\ UNCHANGED <<pc, hive, report>>
    BY <1>9 DEF RunHiveOp, mainVars, endVars
  <2>2. PICK c : calls' = [calls EXCEPT ![hive] = @ + c]
    BY <1>9 DEF RunHiveOp
  <2>3. hive \in Workers /\ hive \notin Jobs
    BY <1>0, <2>1 DEF TypeOK, Workers
  <2>4. ~Attached(hive) /\ \A v : Attached(v)' <=> Attached(v)
    BY <2>1, <2>3 DEF Attached
  <2>5. AttachedInv'
    BY <1>0, <2>1, <2>2, <2>3, <2>4, RunKeepsAttached
  <2>6. OpsAttributed'
    BY <2>1, NoReportedOps
  <2> QED
    BY <2>5, <2>6 DEF OpsInv
<1>10. ASSUME NEW j \in Jobs, AttachJobOps(j)
      PROVE  OpsInv'
  <2>1. /\ pc[j] = "wait" /\ pc' = [pc EXCEPT ![j] = "audit"]
        /\ IF calls[j] > 0 THEN AttachOps(j) ELSE UNCHANGED outputs
        /\ UNCHANGED <<calls, report, hive>>
    BY <1>10 DEF AttachJobOps, mainVars, endVars
  <2>2. /\ ~Attached(j) /\ Attached(j)'
        /\ \A v \in Workers \ {j} : Attached(v)' <=> Attached(v)
    BY <1>0, <2>1 DEF Attached
  <2>3. AttachedInv'
    BY <1>0, <2>1, <2>2, AttachOwnOps DEF Workers
  <2> QED
    BY <1>0, <2>1, <2>3, SameReportedOps DEF OpsInv
<1>11. CASE AuditHive
  <2>1. PICK h \in HiveNames : h = hive
    BY <1>0, <1>11 DEF AuditHive, TypeOK
  <2>2. /\ hive' = None
        /\ IF calls[h] > 0 THEN AttachOps(h) ELSE UNCHANGED outputs
        /\ UNCHANGED <<calls, report, pc>>
    BY <1>11, <2>1 DEF AuditHive, endVars
  <2>3. /\ ~Attached(h) /\ Attached(h)'
        /\ \A v \in Workers \ {h} : Attached(v)' <=> Attached(v)
    BY <1>0, <2>1, <2>2, NameAssumption DEF Attached, Workers
  <2>4. AttachedInv'
    BY <1>0, <2>2, <2>3, AttachOwnOps DEF Workers
  <2> QED
    BY <1>0, <2>2, <2>4, SameReportedOps DEF OpsInv
<1> QED
  BY <1>0, <1>2, <1>3, <1>4, <1>5, <1>6, <1>7, <1>8, <1>9, <1>10, <1>11,
     SilentOrNot

\* Each cluster that is processed once carries its own elevated operations on
\* each of its outputs in a complete report, for every list, every number of
\* operators and every order in which the goroutines reach the ledger (main.go:
\* the loops over allOutputs, for a cluster and for a hive cluster).
THEOREM OwnOperations == Spec => []OpsAttributed
<1>1. Init => OpsInv
  BY DEF Init, OpsInv, AttachedInv, OpsAttributed, Uninterrupted
<1>2. OpsInv => OpsAttributed
  BY DEF OpsInv
<1> QED
  BY <1>1, <1>2, EntriesInvariant, StepKeepsOpsInv, PTL DEF Spec

-----------------------------------------------------------------------------
(***************************************************************************)
(* The totals of the audit.                                                *)
(***************************************************************************)

\* The clusters of a run are finitely many, and numbers they have can be added
\* up.
LEMMA WorkersAddUp ==
  ASSUME NEW f, \A w \in Workers : f[w] \in Nat
  PROVE  /\ IsFiniteSet(Workers)
         /\ Sum(f) = SumOf(f, Workers) /\ Sum(f) \in Nat
<1>1. IsFiniteSet(Workers)
  <2>1. IsFiniteSet(Jobs)
    BY FS_Interval, SizeAssumption DEF Jobs
  <2> QED
    BY <2>1, NameAssumption, FS_Union DEF Workers
<1>2. Sum(f) = SumOf(f, Workers)
  BY DEF Sum, SumOf
<1> QED
  BY <1>1, <1>2, SumTake

\* A step that counts no calls and moves no goroutine past the audit keeps the
\* totals.
LEMMA SameTotals ==
  ASSUME AuditInv, UNCHANGED <<totalCalls, elevated, CountedCalls>>,
         \A j \in Jobs : pc'[j] \in {"idle", "metadata", "connect"} =>
           /\ pc[j] \in {"idle", "metadata", "connect"}
           /\ calls'[j] = calls[j]
  PROVE  AuditInv'
BY DEF AuditInv

\* The calls of a worker whose client is still counting are no part of the
\* totals, whatever they are.
LEMMA SameCounted ==
  ASSUME \A w \in Workers : /\ Counting(w)' <=> Counting(w)
                            /\ ~Counting(w) => calls'[w] = calls[w]
  PROVE  CountedCalls' = CountedCalls
BY DEF CountedCalls

\* The audit of a worker adds its calls to the totals, once (main.go:
\* totalElevatedCalls += count).
LEMMA AuditCountsOne ==
  ASSUME TypeOK, TypeOK', AuditInv, NEW w \in Workers, CountAudit(w),
         Counting(w), ~Counting(w)', calls' = calls,
         \A v \in Workers \ {w} : Counting(v)' <=> Counting(v)
  PROVE  /\ totalCalls' = Sum(CountedCalls')
         /\ elevated' = Cardinality({v \in Workers : CountedCalls'[v] > 0})
<1> DEFINE f == CountedCalls
           g == CountedCalls'
           Some(h) == {v \in Workers : h[v] > 0}
<1>1. /\ f[w] = 0 /\ g[w] = calls[w]
      /\ \A v \in Workers \ {w} : g[v] = f[v]
  BY DEF CountedCalls
<1>2. \A v \in Workers : f[v] \in Nat /\ g[v] \in Nat /\ calls[v] \in Nat
  BY DEF TypeOK, CountedCalls
<1>3. /\ IsFiniteSet(Workers)
      /\ Sum(f) = SumOf(f, Workers) /\ Sum(f) \in Nat
      /\ Sum(g) = SumOf(g, Workers) /\ Sum(g) \in Nat
  <2> HIDE DEF f, g
  <2> QED
    BY <1>2, WorkersAddUp
<1>4. totalCalls = Sum(f) /\ elevated = Cardinality(Some(f))
  BY DEF AuditInv
<1> HIDE DEF f, g
<1>5. Sum(g) = Sum(f) + calls[w]
  <2>1. SumOf(g, Workers) + f[w] = SumOf(f, Workers) + g[w]
    BY <1>1, <1>2, <1>3, SumChange
  <2> QED
    BY <1>1, <1>2, <1>3, <2>1
<1>6. Cardinality(Some(g)) = Cardinality(Some(f))
                               + (IF calls[w] > 0 THEN 1 ELSE 0)
  <2>1. Some(f) \in SUBSET Workers /\ w \notin Some(f)
    BY <1>1
  <2>2. IsFiniteSet(Some(f)) /\ Cardinality(Some(f)) \in Nat
    BY <1>3, <2>1, FS_Subset, FS_CardinalityType
  <2>3. Some(g) = IF calls[w] > 0 THEN Some(f) \union {w} ELSE Some(f)
    <3>1. \A v \in Workers : v # w => (v \in Some(g) <=> v \in Some(f))
      BY <1>1
    <3>2. w \in Some(g) <=> calls[w] > 0
      BY <1>1
    <3>3. Some(g) \subseteq Workers
      OBVIOUS
    <3> HIDE DEF Some
    <3> QED
      BY <2>1, <3>1, <3>2, <3>3
  <2> HIDE DEF Some
  <2> QED
    BY <2>1, <2>2, <2>3, FS_AddElement
<1>7. CASE calls[w] > 0
  BY <1>4, <1>5, <1>6, <1>7 DEF CountAudit, g
<1>8. CASE ~(calls[w] > 0)
  <2>1. calls[w] = 0
    BY <1>2, <1>8
  <2>2. Cardinality(Some(f)) \in Nat
    BY <1>3, FS_Subset, FS_CardinalityType
  <2> QED
    BY <1>3, <1>4, <1>5, <1>6, <1>8, <2>1, <2>2 DEF CountAudit, g
<1> QED
  BY <1>7, <1>8

\* What a report says of the totals stays true while no client counts ...
LEMMA ExactStays ==
  ASSUME AuditExact, UNCHANGED <<report, calls>>
  PROVE  AuditExact'
BY DEF AuditExact, Uninterrupted, TotalCalls

\* ... and as much of it as a partial report says, when one counts on.
LEMMA ExactGrows ==
  ASSUME CompleteInv, TypeOK, TypeOK', AuditExact, report' = report,
         \A w \in Workers : calls[w] <= calls'[w],
         main \notin {"summary", "exited"} \/ \E j \in Jobs : pc[j] # "done"
  PROVE  AuditExact'
<1>1. ~Uninterrupted /\ ~Uninterrupted'
  BY ReportedIsOver DEF Uninterrupted
<1>2. \A w \in Workers : calls[w] \in Nat /\ calls'[w] \in Nat
  BY DEF TypeOK
<1>3. /\ TotalCalls \in Nat /\ TotalCalls' \in Nat
      /\ TotalCalls <= TotalCalls'
  <2>1. /\ IsFiniteSet(Workers)
        /\ Sum(calls) = SumOf(calls, Workers) /\ Sum(calls) \in Nat
        /\ Sum(calls') = SumOf(calls', Workers) /\ Sum(calls') \in Nat
    BY <1>2, WorkersAddUp
  <2>2. SumOf(calls, Workers) <= SumOf(calls', Workers)
    BY <1>2, <2>1, SumAtMost
  <2> QED
    BY <2>1, <2>2 DEF TotalCalls
<1>4. report # None => report.calls \in Nat
  BY DEF TypeOK, Report
<1> QED
  BY <1>1, <1>3, <1>4 DEF AuditExact

\* The report has the totals of the moment; if every client has been audited,
\* they are those of the clients.
LEMMA ReportIsExact ==
  ASSUME CompleteInv, EntriesInv, TypeOK, TotalsInv, WriteReport
  PROVE  AuditExact'
<1>1. CASE report' = report
  BY <1>1, ExactStays DEF WriteReport, TotalsInv, jobVars
<1>2. CASE report' = [outputs |-> outputs, skipped |-> skipped,
                      interrupted |-> interrupted,
                      calls |-> totalCalls, clusters |-> elevated]
  <2>1. /\ report'.calls = totalCalls /\ report'.clusters = elevated
        /\ report'.interrupted = interrupted
    BY <1>2
  <2>2. calls' = calls /\ TotalCalls' = TotalCalls
    BY DEF WriteReport, TotalCalls, jobVars
  <2>3. totalCalls = Sum(CountedCalls)
        /\ elevated = Cardinality({w \in Workers : CountedCalls[w] > 0})
    BY DEF TotalsInv, AuditInv
  <2>4. totalCalls <= TotalCalls
    <3>1. \A w \in Workers : /\ calls[w] \in Nat /\ CountedCalls[w] \in Nat
                             /\ CountedCalls[w] <= calls[w]
      BY DEF TypeOK, CountedCalls
    <3>2. /\ IsFiniteSet(Workers)
          /\ Sum(calls) = SumOf(calls, Workers)
          /\ Sum(CountedCalls) = SumOf(CountedCalls, Workers)
      BY <3>1, WorkersAddUp
    <3>3. SumOf(CountedCalls, Workers) <= SumOf(calls, Workers)
      BY <3>1, <3>2, SumAtMost
    <3> QED
      BY <2>3, <3>2, <3>3 DEF TotalCalls
  <2>5. ~interrupted => CountedCalls = calls
    <3>1. hive = None /\ None \notin Workers
      BY NameAssumption DEF EntriesInv, HiveInv, WriteReport
    <3>2. ~interrupted => \A j \in Jobs : pc[j] = "done"
      BY DEF CompleteInv, MainInv, AllAccounted, AllDone, WriteReport
    <3>3. ~interrupted => \A w \in Workers : ~Counting(w)
      BY <3>1, <3>2 DEF Counting
    <3> QED
      BY <3>3 DEF CountedCalls, TypeOK
  <2>6. ~interrupted => /\ totalCalls = TotalCalls
                        /\ elevated = Cardinality({w \in Workers :
                                                     calls[w] > 0})
    BY <2>3, <2>5 DEF TotalCalls
  <2> QED
    BY <2>1, <2>2, <2>4, <2>6 DEF AuditExact, Uninterrupted
<1> QED
  BY <1>1, <1>2 DEF WriteReport

\* Every step keeps the totals.
LEMMA StepKeepsTotalsInv ==
  CompleteInv /\ EntriesInv /\ TotalsInv /\ [Next]_vars => TotalsInv'
<1> SUFFICES ASSUME CompleteInv, EntriesInv, TotalsInv, [Next]_vars
             PROVE  TotalsInv'
  OBVIOUS
<1> USE DEF At, GoTo
<1>0. /\ TypeOK /\ StartedInOrder /\ \A j \in Jobs : JobInv(j)
      /\ HiveInv /\ AuditInv /\ AuditExact
      /\ pc \in [Jobs -> JobSteps] /\ calls \in [Workers -> Nat]
      /\ \A j \in Jobs : j \notin HiveNames
  BY NameAssumption DEF CompleteInv, CountInv, EntriesInv, TotalsInv, TypeOK
<1>t. TypeOK'
  BY StepKeepsCountInv DEF CompleteInv, CountInv
<1>1. ASSUME UNCHANGED <<calls, totalCalls, elevated, report, hive>>,
             \A j \in Jobs :
               /\ pc'[j] \in {"launch", "wait", "audit"}
                    <=> pc[j] \in {"launch", "wait", "audit"}
               /\ pc'[j] \in {"idle", "metadata", "connect"} =>
                    pc[j] \in {"idle", "metadata", "connect"}
      PROVE  TotalsInv'
  <2>1. CountedCalls' = CountedCalls
    <3>1. \A w \in Workers : Counting(w)' <=> Counting(w)
      BY <1>1 DEF Counting
    <3> QED
      BY <1>1, <3>1, SameCounted
  <2> QED
    BY <1>0, <1>1, <2>1, SameTotals, ExactStays DEF TotalsInv
<1>2. CASE Silent
  BY <1>1, <1>2 DEF Silent
<1>3. ASSUME NEW j \in Jobs,
             \/ RejectCluster(j) \/ ConnectFails(j) \/ StartOp(j)
             \/ AttachJobOps(j)
      PROVE  TotalsInv'
  BY <1>0, <1>1, <1>3
  DEF RejectCluster, ConnectFails, StartOp, AttachJobOps, SkipJob, mainVars,
      ledgerVars, endVars
<1>4. ASSUME NEW h \in HiveNames,
             HiveNotFound(h) \/ HiveMetadataFails(h) \/ HiveConnectFails(h)
      PROVE  TotalsInv'
  BY <1>1, <1>4
  DEF HiveNotFound, HiveMetadataFails, HiveConnectFails, jobVars, ledgerVars,
      endVars
<1>5. CASE WriteReport
  <2>1. UNCHANGED <<calls, totalCalls, elevated, hive, pc>>
    BY <1>5 DEF WriteReport, jobVars, ledgerVars
  <2>2. CountedCalls' = CountedCalls
    <3>1. \A w \in Workers : Counting(w)' <=> Counting(w)
      BY <2>1 DEF Counting
    <3> QED
      BY <2>1, <3>1, SameCounted
  <2>3. AuditInv'
    BY <1>0, <2>1, <2>2, SameTotals
  <2> QED
    BY <1>0, <1>5, <2>3, ReportIsExact DEF TotalsInv
<1>6. ASSUME NEW j \in Jobs, Connect(j)
      PROVE  TotalsInv'
  <2>1. /\ pc[j] = "connect" /\ pc' = [pc EXCEPT ![j] = "launch"]
        /\ UNCHANGED <<calls, totalCalls, elevated, report, hive>>
    BY <1>6 DEF Connect, mainVars, ledgerVars, endVars
  <2>2. calls[j] = 0
    BY <1>0, <2>1 DEF AuditInv
  <2>3. CountedCalls' = CountedCalls
    <3>1. \A w \in Workers \ {j} : Counting(w)' <=> Counting(w)
      BY <1>0, <2>1 DEF Counting
    <3> QED
      BY <2>1, <2>2, <3>1 DEF CountedCalls
  <2>4. AuditInv'
    BY <1>0, <2>1, <2>3, SameTotals
  <2> QED
    BY <1>0, <2>1, <2>4, ExactStays DEF TotalsInv
<1>7. ASSUME NEW h \in HiveNames, HiveConnect(h)
      PROVE  TotalsInv'
  <2>1. /\ main = "hive" /\ h \in hiveTodo /\ hive' = h
        /\ UNCHANGED <<calls, totalCalls, elevated, report, pc>>
    BY <1>7 DEF HiveConnect, Visit, ledgerVars, endVars
  <2>2. hive = None /\ calls[h] = 0 /\ None \notin Workers
    BY <1>0, <2>1, NameAssumption DEF HiveInv
  <2>3. CountedCalls' = CountedCalls
    <3>1. \A w \in Workers \ {h} : Counting(w)' <=> Counting(w)
      BY <2>1, <2>2 DEF Counting
    <3> QED
      BY <2>1, <2>2, <3>1 DEF CountedCalls
  <2>4. AuditInv'
    BY <1>0, <2>1, <2>3, SameTotals
  <2> QED
    BY <1>0, <2>1, <2>4, ExactStays DEF TotalsInv
<1>8. ASSUME NEW j \in Jobs, NEW op \in 1..NManagedOps, RunOp(j, op)
      PROVE  TotalsInv'
  <2>1. /\ <<j, op>> \in running
        /\ UNCHANGED <<pc, hive, report, totalCalls, elevated>>
    BY <1>8 DEF RunOp, mainVars, endVars
  <2>2. PICK c \in 0..MaxCalls : calls' = [calls EXCEPT ![j] = @ + c]
    BY <1>8 DEF RunOp
  <2>3. pc[j] \in {"launch", "wait"}
    BY <1>0, <2>1 DEF JobInv, Quiet
  <2>4. /\ j \in Workers
        /\ \A w \in Workers \ {j} : calls'[w] = calls[w]
        /\ \A w \in Workers : calls[w] <= calls'[w]
    <3>1. c \in Nat /\ j \in Workers
      BY <2>2, SizeAssumption DEF Workers
    <3> QED
      BY <1>0, <2>2, <3>1
  <2>5. CountedCalls' = CountedCalls
    <3>1. Counting(j) /\ \A w \in Workers : Counting(w)' <=> Counting(w)
      BY <2>1, <2>3 DEF Counting
    <3> QED
      BY <2>4, <3>1, SameCounted
  <2>6. AuditInv'
    <3>1. \A i \in Jobs : pc'[i] \in {"idle", "metadata", "connect"} =>
            /\ pc[i] \in {"idle", "metadata", "connect"}
            /\ calls'[i] = calls[i]
      BY <2>1, <2>3, <2>4 DEF Workers
    <3> QED
      BY <1>0, <2>1, <2>5, <3>1, SameTotals
  <2>7. AuditExact'
    BY <1>0, <1>t, <2>1, <2>3, <2>4, ExactGrows
  <2> QED
    BY <2>6, <2>7 DEF TotalsInv
<1>9. CASE RunHiveOp
  <2>1. PICK h \in HiveNames : h = hive
    BY <1>0, <1>9 DEF RunHiveOp, TypeOK
  <2>2. /\ main = "hiveOps"
        /\ UNCHANGED <<pc, hive, report, totalCalls, elevated>>
    BY <1>9 DEF RunHiveOp, mainVars, endVars
  <2>3. PICK c \in 0..MaxCalls : calls' = [calls EXCEPT ![h] = @ + c]
    BY <1>9, <2>1 DEF RunHiveOp
  <2>4. /\ h \in Workers /\ h \notin Jobs
        /\ \A w \in Workers \ {h} : calls'[w] = calls[w]
        /\ \A w \in Workers : calls[w] <= calls'[w]
    <3>1. c \in Nat /\ h \in Workers /\ h \notin Jobs
      BY <1>0, <2>3, SizeAssumption DEF Workers
    <3> QED
      BY <1>0, <2>3, <3>1
  <2>5. CountedCalls' = CountedCalls
    <3>1. Counting(h) /\ \A w \in Workers : Counting(w)' <=> Counting(w)
      BY <2>1, <2>2, <2>4 DEF Counting
    <3> QED
      BY <2>4, <3>1, SameCounted
  <2>6. AuditInv'
    <3>1. \A i \in Jobs : calls'[i] = calls[i]
      BY <2>4 DEF Workers
    <3> QED
      BY <1>0, <2>2, <2>5, <3>1, SameTotals
  <2>7. AuditExact'
    BY <1>0, <1>t, <2>2, <2>4, ExactGrows
  <2> QED
    BY <2>6, <2>7 DEF TotalsInv
<1>10. ASSUME NEW j \in Jobs, AuditJob(j)
      PROVE  TotalsInv'
  <2>1. /\ pc[j] = "audit" /\ pc' = [pc EXCEPT ![j] = "disconnect"]
        /\ CountAudit(j)
        /\ UNCHANGED <<calls, report, hive>>
    BY <1>10 DEF AuditJob, mainVars, endVars
  <2>2. /\ Counting(j) /\ ~Counting(j)'
        /\ \A v \in Workers \ {j} : Counting(v)' <=> Counting(v)
    BY <1>0, <2>1 DEF Counting
  <2>3. /\ totalCalls' = Sum(CountedCalls')
        /\ elevated' = Cardinality({v \in Workers : CountedCalls'[v] > 0})
    BY <1>0, <1>t, <2>1, <2>2, AuditCountsOne DEF Workers
  <2>4. AuditInv'
    BY <1>0, <2>1, <2>3 DEF AuditInv
  <2> QED
    BY <1>0, <2>1, <2>4, ExactStays DEF TotalsInv
<1>11. CASE AuditHive
  <2>1. PICK h \in HiveNames : h = hive
    BY <1>0, <1>11 DEF AuditHive, TypeOK
  <2>2. /\ hive' = None /\ CountAudit(h)
        /\ UNCHANGED <<calls, report, pc>>
    BY <1>11, <2>1 DEF AuditHive, CountAudit, endVars
  <2>3. /\ Counting(h) /\ ~Counting(h)'
        /\ \A v \in Workers \ {h} : Counting(v)' <=> Counting(v)
    BY <1>0, <2>1, <2>2, NameAssumption DEF Counting, Workers
  <2>4. /\ totalCalls' = Sum(CountedCalls')
        /\ elevated' = Cardinality({v \in Workers : CountedCalls'[v] > 0})
    BY <1>0, <1>t, <2>2, <2>3, AuditCountsOne DEF Workers
  <2>5. AuditInv'
    BY <1>0, <2>2, <2>4 DEF AuditInv
  <2> QED
    BY <1>0, <2>2, <2>5, ExactStays DEF TotalsInv
<1> QED
  BY <1>0, <1>2, <1>3, <1>4, <1>5, <1>6, <1>7, <1>8, <1>9, <1>10, <1>11,
     SilentOrNot

\* Nothing has been counted when the launch loop begins.
LEMMA InitTotalsInv == Init => TotalsInv
<1> SUFFICES ASSUME Init
             PROVE  TotalsInv
  OBVIOUS
<1>1. \A w \in Workers : CountedCalls[w] = 0
  BY DEF Init, CountedCalls
<1>2. Sum(CountedCalls) = 0
  <2> DEFINE zero == [w \in Workers |-> 0]
  <2>1. CountedCalls = zero
    BY <1>1 DEF CountedCalls
  <2>2. \A w \in Workers : zero[w] = 0
    OBVIOUS
  <2> HIDE DEF zero
  <2>3. IsFiniteSet(Workers) /\ Sum(zero) = SumOf(zero, Workers)
    BY <2>2, WorkersAddUp
  <2>4. SumOf(zero, Workers) = 0
    BY <2>2, <2>3, SumOfZero
  <2> QED
    BY <2>1, <2>3, <2>4
<1>3. {w \in Workers : CountedCalls[w] > 0} = {}
  BY <1>1
<1>4. Cardinality({w \in Workers : CountedCalls[w] > 0}) = 0
  BY <1>3, FS_EmptySet
<1>5. AuditInv
  BY <1>2, <1>4 DEF Init, AuditInv, Workers
<1> QED
  BY <1>5 DEF Init, TotalsInv, AuditExact, Uninterrupted

\* The audit entry of a report never exceeds what the clients counted, and in
\* a complete report it is their exact sum over the clusters, for every list,
\* every number of operators and of calls, and every interleaving (main.go:
\* totalElevatedCalls and clustersWithElevation).
THEOREM ExactTotals == Spec => []AuditExact
<1>1. TotalsInv => AuditExact
  BY DEF TotalsInv
<1> QED
  BY <1>1, InitTotalsInv, EntriesInvariant, StepKeepsTotalsInv, PTL DEF Spec

-----------------------------------------------------------------------------
(***************************************************************************)
(* What is open, and what is left when the process exits.                  *)
(***************************************************************************)

\* The step opens and closes no client, writes no output and no total, and
\* moves no goroutine towards or away from one.
KeepsClients ==
  /\ UNCHANGED <<connected, hive, outputs, totalCalls, report>>
  /\ \A j \in Jobs :
       /\ meta'[j] = meta[j]
       /\ pc'[j] \in WithClient <=> pc[j] \in WithClient
       /\ pc'[j] = "connect" => pc[j] = "connect"
  /\ UNCHANGED summary /\ (main' = "exited" => main = "exited")

\* Such a step keeps all that is said of clients and totals.
LEMMA KeptClients ==
  ASSUME ExitInv, KeepsClients
  PROVE  ExitInv'
<1>1. ClientsInv'
  BY DEF ExitInv, ClientsInv, KeepsClients
<1>2. ReadyInv'
  BY DEF ExitInv, ReadyInv, KeepsClients
<1>3. LastTotals'
  BY DEF ExitInv, LastTotals, KeepsClients, Uninterrupted
<1> QED
  BY <1>1, <1>2, <1>3 DEF ExitInv

\* Steps that add to the totals come before a complete report.
LEMMA TotalsStay ==
  ASSUME CompleteInv, LastTotals, report' = report, main' # "exited",
         main \notin {"summary", "exited"} \/ \E j \in Jobs : pc[j] # "done"
  PROVE  LastTotals'
<1>1. ~Uninterrupted
  BY ReportedIsOver
<1> QED
  BY <1>1 DEF LastTotals, Uninterrupted

\* A goroutine that moves and leaves the totals alone.
LEMMA MoveKeepsTotals ==
  ASSUME LastTotals, UNCHANGED <<main, summary, totalCalls, report>>
  PROVE  LastTotals'
BY DEF LastTotals, Uninterrupted

\* The steps that keep the clients: those of the main thread outside the hive
\* pass, and those of a goroutine that runs an operator or has no client.
LEMMA MainKeepsClients ==
  ASSUME TypeOK, StartedInOrder,
         \/ StopLaunching \/ Admit \/ Launch \/ AllJobsDone \/ OpenHive
         \/ EndHiveOps \/ EndHive \/ WaitAndWrite \/ JobsFinishInWindow
         \/ WindowExpires \/ Interrupt \/ UNCHANGED vars
  PROVE  KeepsClients
<1>1. CASE Launch
  <2>1. next \in Jobs /\ pc[next] = "idle"
    BY <1>1 DEF StartedInOrder, TypeOK, Launch, Jobs
  <2>2. \A j \in Jobs : pc'[j] = IF j = next THEN "metadata" ELSE pc[j]
    BY <1>1, <2>1 DEF Launch, TypeOK
  <2> QED
    BY <1>1, <2>1, <2>2
    DEF Launch, KeepsClients, WithClient, ledgerVars, endVars
<1>2. CASE StopLaunching \/ Admit \/ AllJobsDone \/ OpenHive
  BY <1>2
  DEF StopLaunching, Admit, AllJobsDone, OpenHive, KeepsClients, mainVars,
      jobVars, ledgerVars, endVars
<1>3. CASE EndHiveOps \/ EndHive \/ WaitAndWrite \/ JobsFinishInWindow
  BY <1>3
  DEF EndHiveOps, EndHive, WaitAndWrite, JobsFinishInWindow, KeepsClients,
      mainVars, jobVars, ledgerVars, endVars
<1>4. CASE WindowExpires \/ Interrupt \/ UNCHANGED vars
  BY <1>4
  DEF WindowExpires, Interrupt, vars, KeepsClients, mainVars, jobVars,
      ledgerVars, endVars
<1> QED
  BY <1>1, <1>2, <1>3, <1>4

\* Every step of a job keeps what is open and what was ready.
LEMMA JobKeepsExitInv ==
  ASSUME CompleteInv, ExitInv, NEW j \in Jobs,
         JobLocal(j) \/ JobRemote(j)
         \/ \E op \in 1..NManagedOps : RunOp(j, op)
  PROVE  ExitInv'
<1> USE DEF At, GoTo
<1>0. /\ TypeOK /\ ClientsInv /\ ReadyInv /\ LastTotals /\ JobInv(j)
      /\ pc \in [Jobs -> JobSteps] /\ meta \in [Workers -> MetaStates]
      /\ j \in Workers /\ \A i \in Jobs : i \in Workers
  BY DEF CompleteInv, CountInv, ExitInv, TypeOK, Workers
<1>1. ASSUME StartOp(j) \/ EndOps(j) \/ ReleaseSlot(j) \/ FinishJob(j)
      PROVE  ExitInv'
  <2>1. KeepsClients
    BY <1>0, <1>1
    DEF StartOp, EndOps, ReleaseSlot, FinishJob, KeepsClients, WithClient,
        mainVars, ledgerVars, endVars
  <2> QED
    BY <2>1, KeptClients
<1>2. CASE RejectCluster(j)
  <2>1. /\ pc[j] = "metadata" /\ pc' = [pc EXCEPT ![j] = "release"]
        /\ \A i \in Jobs \ {j} : meta'[i] = meta[i]
        /\ UNCHANGED <<main, hive, connected, outputs, totalCalls, report,
                       summary>>
    BY <1>0, <1>2 DEF RejectCluster, SkipJob, mainVars, endVars
  <2>2. \A o \in outputs : o.worker # j
    BY <1>0, <2>1 DEF JobInv, Untouched
  <2>3. ReadyInv'
    BY <1>0, <2>1, <2>2 DEF ReadyInv, WithClient
  <2>4. ClientsInv'
    BY <1>0, <2>1 DEF ClientsInv, WithClient
  <2> QED
    BY <1>0, <2>1, <2>3, <2>4, MoveKeepsTotals DEF ExitInv
<1>3. CASE AcceptCluster(j)
  <2>1. /\ pc[j] = "metadata" /\ pc' = [pc EXCEPT ![j] = "connect"]
        /\ meta' = [meta EXCEPT ![j] = "ready"]
        /\ UNCHANGED <<main, hive, connected, outputs, totalCalls, report,
                       summary>>
    BY <1>3 DEF AcceptCluster, mainVars, ledgerVars, endVars
  <2>2. ReadyInv'
    BY <1>0, <2>1 DEF ReadyInv, WithClient
  <2>3. ClientsInv'
    BY <1>0, <2>1 DEF ClientsInv, WithClient
  <2> QED
    BY <1>0, <2>1, <2>2, <2>3, MoveKeepsTotals DEF ExitInv
<1>4. CASE ConnectFails(j)
  <2>1. /\ pc[j] = "connect" /\ pc' = [pc EXCEPT ![j] = "release"]
        /\ UNCHANGED <<main, hive, connected, meta, outputs, totalCalls,
                       report, summary>>
    BY <1>4 DEF ConnectFails, SkipJob, mainVars, endVars
  <2>2. ReadyInv'
    BY <1>0, <2>1 DEF ReadyInv, WithClient
  <2>3. ClientsInv'
    BY <1>0, <2>1 DEF ClientsInv, WithClient
  <2> QED
    BY <1>0, <2>1, <2>2, <2>3, MoveKeepsTotals DEF ExitInv
<1>5. CASE Connect(j)
  <2>1. /\ pc[j] = "connect" /\ pc' = [pc EXCEPT ![j] = "launch"]
        /\ connected' = connected \union {j}
        /\ UNCHANGED <<main, hive, meta, outputs, totalCalls, report, summary>>
    BY <1>5 DEF Connect, mainVars, ledgerVars, endVars
  <2>2. ReadyInv'
    BY <1>0, <2>1 DEF ReadyInv, WithClient
  <2>3. ClientsInv'
    BY <1>0, <2>1 DEF ClientsInv, WithClient
  <2> QED
    BY <1>0, <2>1, <2>2, <2>3, MoveKeepsTotals DEF ExitInv
<1>6. CASE AttachJobOps(j)
  <2>1. /\ pc[j] = "wait" /\ pc' = [pc EXCEPT ![j] = "audit"]
        /\ AttachOps(j) \/ UNCHANGED outputs
        /\ UNCHANGED <<main, hive, connected, meta, totalCalls, report,
                       summary>>
    BY <1>6 DEF AttachJobOps, mainVars, endVars
  <2>2. \A p \in outputs' : \E o \in outputs : o.worker = p.worker
    BY <1>0, <2>1, AttachAddsNothing DEF TypeOK
  <2>3. ReadyInv'
    BY <1>0, <2>1, <2>2 DEF ReadyInv, WithClient
  <2>4. ClientsInv'
    BY <1>0, <2>1 DEF ClientsInv, WithClient
  <2> QED
    BY <1>0, <2>1, <2>3, <2>4, MoveKeepsTotals DEF ExitInv
<1>7. CASE AuditJob(j)
  <2>1. /\ pc[j] = "audit" /\ pc' = [pc EXCEPT ![j] = "disconnect"]
        /\ main # "exited"
        /\ UNCHANGED <<main, hive, connected, meta, outputs, report, summary>>
    BY <1>7 DEF AuditJob, mainVars, endVars
  <2>2. ReadyInv'
    BY <1>0, <2>1 DEF ReadyInv, WithClient
  <2>3. ClientsInv'
    BY <1>0, <2>1 DEF ClientsInv, WithClient
  <2>4. LastTotals'
    BY <1>0, <2>1, TotalsStay
  <2> QED
    BY <2>2, <2>3, <2>4 DEF ExitInv
<1>8. CASE Disconnect(j)
  <2>1. /\ pc[j] = "disconnect" /\ pc' = [pc EXCEPT ![j] = "release"]
        /\ connected' = connected \ {j}
        /\ UNCHANGED <<main, hive, meta, outputs, totalCalls, report, summary>>
    BY <1>8 DEF Disconnect, mainVars, ledgerVars, endVars
  <2>2. ReadyInv'
    BY <1>0, <2>1 DEF ReadyInv, WithClient
  <2>3. ClientsInv'
    BY <1>0, <2>1 DEF ClientsInv, WithClient
  <2> QED
    BY <1>0, <2>1, <2>2, <2>3, MoveKeepsTotals DEF ExitInv
<1>9. ASSUME NEW op \in 1..NManagedOps, RunOp(j, op)
      PROVE  ExitInv'
  <2>1. /\ <<j, op>> \in running
        /\ outputs' = outputs
                        \union {[worker |-> j, op |-> op, ops |-> None]}
        /\ UNCHANGED <<main, hive, connected, meta, pc, totalCalls, report,
                       summary>>
    BY <1>9 DEF RunOp, AddOutput, mainVars, endVars
  <2>2. pc[j] \in {"launch", "wait"}
    BY <1>0, <2>1 DEF JobInv, Quiet
  <2>3. meta[j] = "ready"
    BY <1>0, <2>2 DEF ReadyInv, WithClient
  <2>4. ReadyInv'
    BY <1>0, <2>1, <2>3 DEF ReadyInv
  <2>5. ClientsInv'
    BY <1>0, <2>1 DEF ClientsInv
  <2> QED
    BY <1>0, <2>1, <2>4, <2>5, MoveKeepsTotals DEF ExitInv
<1> QED
  BY <1>1, <1>2, <1>3, <1>4, <1>5, <1>6, <1>7, <1>8, <1>9
  DEF JobLocal, JobRemote

\* The hive pass opens one client at a time, and its outputs are no job's.
LEMMA HiveKeepsExitInv ==
  ASSUME CompleteInv, HiveInv, ExitInv,
         \/ \E h \in HiveNames :
              \/ HiveNotFound(h) \/ HiveMetadataFails(h)
              \/ HiveConnectFails(h) \/ HiveConnect(h)
         \/ RunHiveOp \/ AuditHive
  PROVE  ExitInv'
<1>0. /\ TypeOK /\ ClientsInv /\ ReadyInv /\ LastTotals
      /\ pc \in [Jobs -> JobSteps] /\ meta \in [Workers -> MetaStates]
      /\ \A h \in HiveNames : h \in Workers /\ h \notin Jobs
      /\ None \notin Workers /\ \A j \in Jobs : j \in Workers
  BY NameAssumption DEF CompleteInv, CountInv, ExitInv, TypeOK, Workers
<1>1. ASSUME NEW h \in HiveNames,
             HiveNotFound(h) \/ HiveMetadataFails(h) \/ HiveConnectFails(h)
      PROVE  ExitInv'
  <2>1. /\ UNCHANGED <<main, hive, connected, pc, outputs, totalCalls, report,
                       summary>>
        /\ \A j \in Jobs : meta'[j] = meta[j]
    BY <1>0, <1>1
    DEF HiveNotFound, HiveMetadataFails, HiveConnectFails, HiveMetadata,
        jobVars, ledgerVars, endVars
  <2> QED
    BY <2>1, KeptClients DEF KeepsClients
<1>2. ASSUME NEW h \in HiveNames, HiveConnect(h)
      PROVE  ExitInv'
  <2>1. /\ main = "hive" /\ main' = "hiveOps" /\ hive' = h
        /\ connected' = connected \union {h}
        /\ \A j \in Jobs : meta'[j] = meta[j]
        /\ UNCHANGED <<pc, outputs, totalCalls, report, summary>>
    BY <1>0, <1>2
    DEF HiveConnect, HiveMetadata, Visit, ledgerVars, endVars
  <2>2. hive = None
    BY <2>1 DEF HiveInv
  <2>3. ClientsInv'
    BY <1>0, <2>1, <2>2 DEF ClientsInv
  <2>4. ReadyInv'
    BY <1>0, <2>1 DEF ReadyInv
  <2>5. LastTotals'
    BY <1>0, <2>1, TotalsStay
  <2> QED
    BY <2>3, <2>4, <2>5 DEF ExitInv
<1>3. CASE RunHiveOp
  <2>1. /\ main = "hiveOps"
        /\ outputs' = outputs \union
             {[worker |-> hive, op |-> opNext[hive], ops |-> None]}
        /\ UNCHANGED <<main, hive, connected, meta, pc, totalCalls, report,
                       summary>>
    BY <1>3 DEF RunHiveOp, AddOutput, mainVars, endVars
  <2>2. hive \in HiveNames
    BY <1>0, <2>1 DEF TypeOK
  <2>3. ReadyInv'
    BY <1>0, <2>1, <2>2 DEF ReadyInv
  <2>4. ClientsInv'
    BY <1>0, <2>1 DEF ClientsInv
  <2> QED
    BY <1>0, <2>1, <2>3, <2>4, MoveKeepsTotals DEF ExitInv
<1>4. CASE AuditHive
  <2>1. PICK h \in HiveNames : h = hive
    BY <1>0, <1>4 DEF AuditHive, TypeOK
  <2>2. /\ main = "hiveAudit" /\ main' = "hive" /\ hive' = None
        /\ connected' = connected \ {h}
        /\ AttachOps(h) \/ UNCHANGED outputs
        /\ UNCHANGED <<meta, pc, report, summary>>
    BY <1>4, <2>1 DEF AuditHive, endVars
  <2>3. \A p \in outputs' : \E o \in outputs : o.worker = p.worker
    BY <1>0, <2>2, AttachAddsNothing DEF TypeOK
  <2>4. ReadyInv'
    BY <1>0, <2>2, <2>3 DEF ReadyInv
  <2>5. ClientsInv'
    BY <1>0, <2>1, <2>2 DEF ClientsInv
  <2>6. LastTotals'
    BY <1>0, <2>2, TotalsStay
  <2> QED
    BY <2>4, <2>5, <2>6 DEF ExitInv
<1> QED
  BY <1>1, <1>2, <1>3, <1>4

\* Every step keeps the clients, the clusters that were ready and the totals.
LEMMA StepKeepsExitInv ==
  CompleteInv /\ EntriesInv /\ ExitInv /\ [Next]_vars => ExitInv'
<1> SUFFICES ASSUME CompleteInv, EntriesInv, ExitInv, [Next]_vars
             PROVE  ExitInv'
  OBVIOUS
<1>0. /\ TypeOK /\ StartedInOrder /\ HiveInv
      /\ ClientsInv /\ ReadyInv /\ LastTotals
  BY DEF CompleteInv, CountInv, EntriesInv, ExitInv
<1>1. CASE \/ StopLaunching \/ Admit \/ Launch \/ AllJobsDone \/ OpenHive
           \/ EndHiveOps \/ EndHive \/ WaitAndWrite \/ JobsFinishInWindow
           \/ WindowExpires \/ Interrupt \/ UNCHANGED vars
  BY <1>0, <1>1, MainKeepsClients, KeptClients
<1>2. ASSUME NEW j \in Jobs,
             JobLocal(j) \/ JobRemote(j)
             \/ \E op \in 1..NManagedOps : RunOp(j, op)
      PROVE  ExitInv'
  BY <1>2, JobKeepsExitInv
<1>3. CASE MainRemote \/ AuditHive
  BY <1>0, <1>3, HiveKeepsExitInv DEF MainRemote
<1>4. CASE WriteReport
  <2>1. /\ main' = "summary"
        /\ UNCHANGED <<hive, connected, pc, meta, outputs, totalCalls, summary>>
    BY <1>4 DEF WriteReport, jobVars, ledgerVars
  <2>2. report' = report \/ report'.calls = totalCalls
    BY <1>4 DEF WriteReport
  <2>3. LastTotals'
    BY <1>0, <2>1, <2>2 DEF LastTotals, Uninterrupted
  <2>4. ClientsInv' /\ ReadyInv'
    BY <1>0, <2>1 DEF ClientsInv, ReadyInv
  <2> QED
    BY <2>3, <2>4 DEF ExitInv
<1>5. CASE PrintSummary
  <2>1. /\ summary' = totalCalls
        /\ UNCHANGED <<hive, connected, pc, meta, outputs, totalCalls, report>>
    BY <1>5 DEF PrintSummary, jobVars, ledgerVars
  <2>2. LastTotals'
    BY <1>0, <2>1 DEF LastTotals, Uninterrupted
  <2>3. ClientsInv' /\ ReadyInv'
    BY <1>0, <2>1 DEF ClientsInv, ReadyInv
  <2> QED
    BY <2>2, <2>3 DEF ExitInv
<1> QED
  BY <1>1, <1>2, <1>3, <1>4, <1>5 DEF Next, MainLocal, Exited

\* Nothing is open when the launch loop begins.
LEMMA InitExitInv == Init => ExitInv
<1> SUFFICES ASSUME Init
             PROVE  ExitInv
  OBVIOUS
<1>1. ClientsInv
  BY NameAssumption DEF Init, ClientsInv, WithClient
<1>2. ReadyInv
  BY DEF Init, ReadyInv, WithClient
<1>3. LastTotals
  BY DEF Init, LastTotals, Uninterrupted
<1> QED
  BY <1>1, <1>2, <1>3 DEF ExitInv

\* The clients and the totals, in every reachable state.
LEMMA ExitInvariant == Spec => [](CompleteInv /\ EntriesInv /\ ExitInv)
BY InitExitInv, EntriesInvariant, StepKeepsExitInv, PTL DEF Spec

\* Operators run only between the connection of their cluster and the end of
\* it, on clusters that are ready and supported, and leave no output of any
\* other (main.go: the early returns of a cluster's goroutine, and the deferred
\* Disconnect).
THEOREM CheckedWhenReady == Spec => []JobsCheckedWhenReady
<1>1. CompleteInv /\ ExitInv => JobsCheckedWhenReady
  <2> SUFFICES ASSUME CompleteInv, ExitInv
               PROVE  JobsCheckedWhenReady
    OBVIOUS
  <2>0. TypeOK /\ ClientsInv /\ ReadyInv /\ \A j \in Jobs : JobInv(j)
    BY DEF CompleteInv, CountInv, ExitInv
  <2>1. ASSUME NEW r \in running
        PROVE  r[1] \in connected
    <3>1. PICK j \in Jobs, op \in 1..NManagedOps : r = <<j, op>>
      BY <2>0 DEF TypeOK
    <3>2. pc[j] \in WithClient
      BY <2>0, <3>1 DEF JobInv, Quiet, WithClient
    <3> QED
      BY <2>0, <3>1, <3>2 DEF ClientsInv, Workers
  <2>2. \A o \in outputs : o.worker \in Jobs => meta[o.worker] = "ready"
    BY <2>0 DEF ReadyInv
  <2> QED
    BY <2>1, <2>2 DEF JobsCheckedWhenReady
<1> QED
  BY <1>1, ExitInvariant, PTL

\* Without an interrupt the process leaves no client connected, no slot taken,
\* no goroutine behind, and an audit line that agrees with the report (main.go:
\* the deferred calls, the end of main).
THEOREM NothingLeftBehind == Spec => []CleanExit
<1>1. CompleteInv /\ EntriesInv /\ ExitInv => CleanExit
  <2> SUFFICES ASSUME CompleteInv, EntriesInv, ExitInv,
                      main = "exited", ~interrupted
               PROVE  /\ connected = {} /\ sem = 0 /\ wg = 0 /\ running = {}
                      /\ report # None => summary = report.calls
    BY DEF CleanExit
  <2>0. /\ TypeOK /\ Counters /\ ClientsInv /\ LastTotals /\ MainInv
        /\ HiveInv /\ \A j \in Jobs : JobInv(j)
    BY DEF CompleteInv, CountInv, EntriesInv, ExitInv
  <2>1. \A j \in Jobs : pc[j] = "done"
    BY <2>0 DEF MainInv, AllAccounted, AllDone
  <2>2. connected = {}
    <3>1. hive = None /\ None \notin Workers
      BY <2>0, NameAssumption DEF HiveInv
    <3> QED
      BY <2>0, <2>1, <3>1 DEF ClientsInv, WithClient
  <2>3. sem = 0 /\ wg = 0
    <3>1. InFlight = {} /\ Counted = {}
      BY <2>1 DEF InFlight, Counted, SlotSteps
    <3> QED
      BY <2>0, <3>1, FS_EmptySet DEF Counters
  <2>4. running = {}
    BY <2>0, <2>1 DEF TypeOK, JobInv, Quiet
  <2>5. report # None => summary = report.calls
    BY <2>0 DEF LastTotals, MainInv, Uninterrupted
  <2> QED
    BY <2>2, <2>3, <2>4, <2>5
<1> QED
  BY <1>1, ExitInvariant, PTL
=============================================================================
