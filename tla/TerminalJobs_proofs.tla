------------------------ MODULE TerminalJobs_proofs -------------------------
(***************************************************************************)
(* The safety of TerminalJobs for every set of jobs, every limit and every *)
(* set of fenced, related and requesting jobs.                             *)
(*                                                                         *)
(* None of the properties is inductive: that a live process has a row      *)
(* depends on which thread holds the lock, the bound on live processes on  *)
(* the jobs that the running count covers, the quiet recovery on the fence *)
(* and the lock together.  IInv ties the row, the process, the grant and   *)
(* the lock of a job to the phase its thread is in, from which each        *)
(* property follows.                                                       *)
(***************************************************************************)
EXTENDS TerminalJobs, FiniteSetTheorems, TLAPS

(* The rows of job t, in memory and in the document, by phase.             *)
RowInv(t) ==
    /\ phase[t] \in {"new", "unwinding", "refused"} \cup InStart =>
          status[t] = "absent" /\ disk[t] = "absent"
    /\ phase[t] = "launched" => status[t] = "running" /\ disk[t] = "absent"
    /\ phase[t] \in Watched => status[t] = "running" /\ disk[t] = "running"
    /\ phase[t] \in {"settled", "done"} =>
          status[t] \in Final /\ disk[t] = status[t]
    /\ phase[t] = "died" =>
          status[t] \in Final /\ disk[t] \in {"running", status[t]}
    /\ phase[t] = "gone" =>
          /\ disk[t] \in {"absent", "running"} \cup Final
          /\ disk[t] \in Final => status[t] = disk[t]
          /\ Alive => status[t] = disk[t] /\ status[t] # "running"

(* The process of job t, by phase.                                         *)
ProcInv(t) ==
    /\ phase[t] \in InLock \cup {"waiting", "grace"} =>
          proc[t] \in {"live", "exited"}
    /\ phase[t] \in {"reaped", "settled", "done", "died"} => proc[t] = "reaped"
    /\ phase[t] \in {"new"} \cup InStart => proc[t] = "none"
    /\ phase[t] \in {"refused", "gone"} => proc[t] \in {"none", "reaped"}

(* The grant of job t and its entry in _environment_grants, by phase.      *)
GrantInv(t) ==
    /\ phase[t] \in {"granted", "prepared"} => grant[t] = "live"
    /\ phase[t] = "launched" => t \in held
    /\ t \in held =>
          grant[t] = "live" /\ phase[t] \in {"launched", "died"} \cup Watched
    /\ grant[t] = "live" =>
          t \in held
            \/ phase[t] \in {"granted", "prepared", "settled"} \cup InLock

LockInv(t) == lock = t <=> phase[t] \in InLock

(* While a recovery is quiet, no fenced candidate is on its way between    *)
(* Popen and the moment its row is settled.                                *)
FenceInv ==
    recovery = "quiet" =>
        \A t \in (Fenced \cap Related) \ Requester :
            phase[t] \notin InLock \cup Watched

DownInv == mode = "down" =>
    lock = Free /\ \A t \in Terminals : phase[t] \in {"new", "gone"}

(* The jobs that occupy a slot, counted by the limit or not.               *)
Occupied == {t \in Terminals : phase[t] \in InLock \cup Watched}
BoundInv == Cardinality(Occupied) <= MaxJobs

JobInv(t) == RowInv(t) /\ ProcInv(t) /\ GrantInv(t) /\ LockInv(t)

IInv ==
    /\ TypeOK
    /\ \A t \in Terminals : JobInv(t)
    /\ FenceInv /\ DownInv /\ BoundInv
-----------------------------------------------------------------------------
(* Every step keeps the type invariant.                                    *)
LEMMA TypeStep == TypeOK /\ [Next]_vars => TypeOK'
<1> SUFFICES ASSUME TypeOK, [Next]_vars PROVE TypeOK'
  OBVIOUS
<1> USE JobsAssumption, PersistAssumption
    DEF TypeOK, TableTypeOK, Statuses, Active, Final, Jobs, InStart, InLock,
         Watched, Ended, Goto, RevokeGrant, Alive, LockFree, tableVars, termVars,
         jobVars
<1>1. ASSUME NEW t \in Terminals, StartCheck(t) PROVE TypeOK'
  BY <1>1 DEF StartCheck, Unfenced
<1>2. ASSUME NEW t \in Terminals, IssueGrant(t) PROVE TypeOK'
  BY <1>2 DEF IssueGrant
<1>3. ASSUME NEW t \in Terminals, BuildArgv(t) PROVE TypeOK'
  BY <1>3 DEF BuildArgv
<1>4. ASSUME NEW t \in Terminals, Refuse(t) PROVE TypeOK'
  BY <1>4 DEF Refuse
<1>5. ASSUME NEW t \in Terminals, Launch(t) PROVE TypeOK'
  BY <1>5 DEF Launch, Admissible, Unfenced, Running
<1>6. ASSUME NEW t \in Terminals, Record(t) PROVE TypeOK'
  BY <1>6 DEF Record, Persist
<1>7. ASSUME NEW t \in Terminals, Withdraw(t) PROVE TypeOK'
  BY <1>7 DEF Withdraw
<1>8. ASSUME NEW t \in Terminals, Unwind(t) PROVE TypeOK'
  BY <1>8 DEF Unwind
<1>9. ASSUME NEW t \in Terminals, ProcExit(t) PROVE TypeOK'
  BY <1>9 DEF ProcExit
<1>10. ASSUME NEW t \in Terminals, MonitorTimeout(t) PROVE TypeOK'
  BY <1>10 DEF MonitorTimeout
<1>11. ASSUME NEW t \in Terminals, MonitorKill(t) PROVE TypeOK'
  BY <1>11 DEF MonitorKill
<1>12. ASSUME NEW t \in Terminals, MonitorReap(t) PROVE TypeOK'
  BY <1>12 DEF MonitorReap
<1>13. ASSUME NEW t \in Terminals, MonitorSettle(t) PROVE TypeOK'
  BY <1>13 DEF MonitorSettle, SettledProcess, Outcome, Persist
<1>14. ASSUME NEW t \in Terminals, MonitorRevoke(t) PROVE TypeOK'
  BY <1>14 DEF MonitorRevoke
<1>15. ASSUME NEW t \in Terminals, StopCheck(t) PROVE TypeOK'
  BY <1>15 DEF StopCheck
<1>16. ASSUME NEW t \in Terminals, StopSignal(t) PROVE TypeOK'
  BY <1>16 DEF StopSignal
<1>17. ASSUME BeginClaimRecovery PROVE TypeOK'
  BY <1>17 DEF BeginClaimRecovery
<1>18. ASSUME ObserveQuiet PROVE TypeOK'
  BY <1>18 DEF ObserveQuiet, JobCandidates
<1>19. ASSUME EndClaimRecovery PROVE TypeOK'
  BY <1>19 DEF EndClaimRecovery
<1>20. ASSUME CleanupMark PROVE TypeOK'
  BY <1>20 DEF CleanupMark
<1>21. ASSUME CleanupRevoke PROVE TypeOK'
  BY <1>21 DEF CleanupRevoke
<1>22. ASSUME Exit PROVE TypeOK'
  BY <1>22 DEF Exit
<1>23. ASSUME Restart PROVE TypeOK'
  BY <1>23 DEF Restart, LoadMetadata, Reconciled, Persist
<1>24. ASSUME UNCHANGED vars PROVE TypeOK'
  BY <1>24 DEF vars
<1> QED
  BY <1>1, <1>2, <1>3, <1>4, <1>5, <1>6, <1>7, <1>8, <1>9, <1>10, <1>11, <1>12, <1>13, <1>14,
     <1>15, <1>16, <1>17, <1>18, <1>19, <1>20, <1>21, <1>22, <1>23, <1>24
     DEF Next, ServiceNext, Start, Monitor
(* Every step keeps the row, process, grant and lock of every job in line  *)
(* with its phase.                                                         *)
LEMMA JobStep ==
    ASSUME TypeOK, TypeOK', \A t \in Terminals : JobInv(t), DownInv,
           [Next]_vars, NEW u \in Terminals
    PROVE  JobInv(u)'
<1> USE JobsAssumption, FreeAssumption, PersistAssumption
    DEF JobInv, RowInv, ProcInv, GrantInv, LockInv, DownInv,
         TypeOK, TableTypeOK, Statuses, Active, Final, Jobs, InStart, InLock,
         Watched, Ended, Goto, RevokeGrant, Alive, LockFree, tableVars, termVars,
         jobVars
<1>1. ASSUME NEW t \in Terminals, StartCheck(t) PROVE JobInv(u)'
  BY <1>1 DEF StartCheck, Unfenced
<1>2. ASSUME NEW t \in Terminals, IssueGrant(t) PROVE JobInv(u)'
  BY <1>2 DEF IssueGrant
<1>3. ASSUME NEW t \in Terminals, BuildArgv(t) PROVE JobInv(u)'
  BY <1>3 DEF BuildArgv
<1>4. ASSUME NEW t \in Terminals, Refuse(t) PROVE JobInv(u)'
  BY <1>4 DEF Refuse
<1>5. ASSUME NEW t \in Terminals, Launch(t) PROVE JobInv(u)'
  <2>1. RowInv(u)'
    BY <1>5 DEF Launch
  <2>2. ProcInv(u)'
    BY <1>5 DEF Launch
  <2>3. GrantInv(u)'
    BY <1>5 DEF Launch
  <2>4. LockInv(u)'
    BY <1>5 DEF Launch
  <2> QED
    BY <2>1, <2>2, <2>3, <2>4
<1>6. ASSUME NEW t \in Terminals, Record(t) PROVE JobInv(u)'
  <2>1. RowInv(u)'
    BY <1>6 DEF Record, Persist
  <2>2. ProcInv(u)'
    BY <1>6 DEF Record
  <2>3. GrantInv(u)'
    BY <1>6 DEF Record
  <2>4. LockInv(u)'
    BY <1>6 DEF Record
  <2> QED
    BY <2>1, <2>2, <2>3, <2>4
<1>7. ASSUME NEW t \in Terminals, Withdraw(t) PROVE JobInv(u)'
  BY <1>7 DEF Withdraw
<1>8. ASSUME NEW t \in Terminals, Unwind(t) PROVE JobInv(u)'
  BY <1>8 DEF Unwind
<1>9. ASSUME NEW t \in Terminals, ProcExit(t) PROVE JobInv(u)'
  BY <1>9 DEF ProcExit
<1>10. ASSUME NEW t \in Terminals, MonitorTimeout(t) PROVE JobInv(u)'
  BY <1>10 DEF MonitorTimeout
<1>11. ASSUME NEW t \in Terminals, MonitorKill(t) PROVE JobInv(u)'
  BY <1>11 DEF MonitorKill
<1>12. ASSUME NEW t \in Terminals, MonitorReap(t) PROVE JobInv(u)'
  BY <1>12 DEF MonitorReap
<1>13. ASSUME NEW t \in Terminals, MonitorSettle(t) PROVE JobInv(u)'
  BY <1>13 DEF MonitorSettle, SettledProcess, Outcome, Persist
<1>14. ASSUME NEW t \in Terminals, MonitorRevoke(t) PROVE JobInv(u)'
  BY <1>14 DEF MonitorRevoke
<1>15. ASSUME NEW t \in Terminals, StopCheck(t) PROVE JobInv(u)'
  BY <1>15 DEF StopCheck
<1>16. ASSUME NEW t \in Terminals, StopSignal(t) PROVE JobInv(u)'
  BY <1>16 DEF StopSignal
<1>17. ASSUME BeginClaimRecovery PROVE JobInv(u)'
  BY <1>17 DEF BeginClaimRecovery
<1>18. ASSUME ObserveQuiet PROVE JobInv(u)'
  BY <1>18 DEF ObserveQuiet, JobCandidates
<1>19. ASSUME EndClaimRecovery PROVE JobInv(u)'
  BY <1>19 DEF EndClaimRecovery
<1>20. ASSUME CleanupMark PROVE JobInv(u)'
  BY <1>20 DEF CleanupMark
<1>21. ASSUME CleanupRevoke PROVE JobInv(u)'
  BY <1>21 DEF CleanupRevoke
<1>22. ASSUME Exit PROVE JobInv(u)'
  BY <1>22 DEF Exit
<1>23. ASSUME Restart PROVE JobInv(u)'
  BY <1>23 DEF Restart, LoadMetadata, Reconciled, Persist
<1>24. ASSUME UNCHANGED vars PROVE JobInv(u)'
  BY <1>24 DEF vars
<1> QED
  BY <1>1, <1>2, <1>3, <1>4, <1>5, <1>6, <1>7, <1>8, <1>9, <1>10, <1>11, <1>12, <1>13, <1>14,
     <1>15, <1>16, <1>17, <1>18, <1>19, <1>20, <1>21, <1>22, <1>23, <1>24
     DEF Next, ServiceNext, Start, Monitor

(* The fence keeps fenced candidates out of the locked section of start()  *)
(* for as long as a recovery is quiet.                                     *)
LEMMA FenceStep ==
    ASSUME TypeOK, \A t \in Terminals : JobInv(t), FenceInv, [Next]_vars
    PROVE  FenceInv'
<1> USE RecoveryAssumption, FreeAssumption
    DEF FenceInv, Jobs, JobInv, RowInv, LockInv, TypeOK, TableTypeOK, Active,
        InStart, InLock, Watched, Goto, Alive, LockFree, tableVars, termVars,
        jobVars
<1>1. ASSUME NEW t \in Terminals, StartCheck(t) PROVE FenceInv'
  BY <1>1 DEF StartCheck, Unfenced
<1>2. ASSUME NEW t \in Terminals, IssueGrant(t) PROVE FenceInv'
  BY <1>2 DEF IssueGrant
<1>3. ASSUME NEW t \in Terminals, BuildArgv(t) PROVE FenceInv'
  BY <1>3 DEF BuildArgv
<1>4. ASSUME NEW t \in Terminals, Refuse(t) PROVE FenceInv'
  BY <1>4 DEF Refuse
<1>5. ASSUME NEW t \in Terminals, Launch(t) PROVE FenceInv'
  BY <1>5 DEF Launch, Admissible, Unfenced
<1>6. ASSUME NEW t \in Terminals, Record(t) PROVE FenceInv'
  BY <1>6 DEF Record
<1>7. ASSUME NEW t \in Terminals, Withdraw(t) PROVE FenceInv'
  BY <1>7 DEF Withdraw
<1>8. ASSUME NEW t \in Terminals, Unwind(t) PROVE FenceInv'
  BY <1>8 DEF Unwind
<1>9. ASSUME NEW t \in Terminals, ProcExit(t) PROVE FenceInv'
  BY <1>9 DEF ProcExit
<1>10. ASSUME NEW t \in Terminals, MonitorTimeout(t) PROVE FenceInv'
  BY <1>10 DEF MonitorTimeout
<1>11. ASSUME NEW t \in Terminals, MonitorKill(t) PROVE FenceInv'
  BY <1>11 DEF MonitorKill
<1>12. ASSUME NEW t \in Terminals, MonitorReap(t) PROVE FenceInv'
  BY <1>12 DEF MonitorReap
<1>13. ASSUME NEW t \in Terminals, MonitorSettle(t) PROVE FenceInv'
  BY <1>13 DEF MonitorSettle, SettledProcess
<1>14. ASSUME NEW t \in Terminals, MonitorRevoke(t) PROVE FenceInv'
  BY <1>14 DEF MonitorRevoke
<1>15. ASSUME NEW t \in Terminals, StopCheck(t) PROVE FenceInv'
  BY <1>15 DEF StopCheck
<1>16. ASSUME NEW t \in Terminals, StopSignal(t) PROVE FenceInv'
  BY <1>16 DEF StopSignal
<1>17. ASSUME BeginClaimRecovery PROVE FenceInv'
  BY <1>17 DEF BeginClaimRecovery
<1>18. ASSUME ObserveQuiet PROVE FenceInv'
  BY <1>18 DEF ObserveQuiet, JobCandidates
<1>19. ASSUME EndClaimRecovery PROVE FenceInv'
  BY <1>19 DEF EndClaimRecovery
<1>20. ASSUME CleanupMark PROVE FenceInv'
  BY <1>20 DEF CleanupMark
<1>21. ASSUME CleanupRevoke PROVE FenceInv'
  BY <1>21 DEF CleanupRevoke
<1>22. ASSUME Exit PROVE FenceInv'
  BY <1>22 DEF Exit
<1>23. ASSUME Restart PROVE FenceInv'
  BY <1>23 DEF Restart
<1>24. ASSUME UNCHANGED vars PROVE FenceInv'
  BY <1>24 DEF vars
<1> QED
  BY <1>1, <1>2, <1>3, <1>4, <1>5, <1>6, <1>7, <1>8, <1>9, <1>10, <1>11, <1>12, <1>13, <1>14,
     <1>15, <1>16, <1>17, <1>18, <1>19, <1>20, <1>21, <1>22, <1>23, <1>24
     DEF Next, ServiceNext, Start, Monitor

(* When the service process is down, so are all of its threads.            *)
LEMMA DownStep ==
    ASSUME TypeOK, \A t \in Terminals : JobInv(t), DownInv, [Next]_vars
    PROVE  DownInv'
<1> USE DEF DownInv, JobInv, TypeOK, TableTypeOK, InStart, InLock, Watched,
        Ended, Goto, Alive, LockFree, tableVars, termVars, jobVars
<1>1. ASSUME NEW t \in Terminals, StartCheck(t) PROVE DownInv'
  BY <1>1 DEF StartCheck
<1>2. ASSUME NEW t \in Terminals, IssueGrant(t) PROVE DownInv'
  BY <1>2 DEF IssueGrant
<1>3. ASSUME NEW t \in Terminals, BuildArgv(t) PROVE DownInv'
  BY <1>3 DEF BuildArgv
<1>4. ASSUME NEW t \in Terminals, Refuse(t) PROVE DownInv'
  BY <1>4 DEF Refuse
<1>5. ASSUME NEW t \in Terminals, Launch(t) PROVE DownInv'
  BY <1>5 DEF Launch
<1>6. ASSUME NEW t \in Terminals, Record(t) PROVE DownInv'
  BY <1>6 DEF Record
<1>7. ASSUME NEW t \in Terminals, Withdraw(t) PROVE DownInv'
  BY <1>7 DEF Withdraw
<1>8. ASSUME NEW t \in Terminals, Unwind(t) PROVE DownInv'
  BY <1>8 DEF Unwind
<1>9. ASSUME NEW t \in Terminals, ProcExit(t) PROVE DownInv'
  BY <1>9 DEF ProcExit, ProcInv
<1>10. ASSUME NEW t \in Terminals, MonitorTimeout(t) PROVE DownInv'
  BY <1>10 DEF MonitorTimeout
<1>11. ASSUME NEW t \in Terminals, MonitorKill(t) PROVE DownInv'
  BY <1>11 DEF MonitorKill
<1>12. ASSUME NEW t \in Terminals, MonitorReap(t) PROVE DownInv'
  BY <1>12 DEF MonitorReap
<1>13. ASSUME NEW t \in Terminals, MonitorSettle(t) PROVE DownInv'
  BY <1>13 DEF MonitorSettle
<1>14. ASSUME NEW t \in Terminals, MonitorRevoke(t) PROVE DownInv'
  BY <1>14 DEF MonitorRevoke
<1>15. ASSUME NEW t \in Terminals, StopCheck(t) PROVE DownInv'
  BY <1>15 DEF StopCheck
<1>16. ASSUME NEW t \in Terminals, StopSignal(t) PROVE DownInv'
  BY <1>16 DEF StopSignal
<1>17. ASSUME BeginClaimRecovery PROVE DownInv'
  BY <1>17 DEF BeginClaimRecovery
<1>18. ASSUME ObserveQuiet PROVE DownInv'
  BY <1>18 DEF ObserveQuiet
<1>19. ASSUME EndClaimRecovery PROVE DownInv'
  BY <1>19 DEF EndClaimRecovery
<1>20. ASSUME CleanupMark PROVE DownInv'
  BY <1>20 DEF CleanupMark
<1>21. ASSUME CleanupRevoke PROVE DownInv'
  BY <1>21 DEF CleanupRevoke
<1>22. ASSUME Exit PROVE DownInv'
  BY <1>22 DEF Exit
<1>23. ASSUME Restart PROVE DownInv'
  BY <1>23 DEF Restart, LoadMetadata
<1>24. ASSUME UNCHANGED vars PROVE DownInv'
  BY <1>24 DEF vars
<1> QED
  BY <1>1, <1>2, <1>3, <1>4, <1>5, <1>6, <1>7, <1>8, <1>9, <1>10, <1>11, <1>12, <1>13, <1>14,
     <1>15, <1>16, <1>17, <1>18, <1>19, <1>20, <1>21, <1>22, <1>23, <1>24
     DEF Next, ServiceNext, Start, Monitor

(* Only Launch takes a slot.                                               *)
LEMMA NoNewOccupant ==
    ASSUME TypeOK, [Next]_vars, \A t \in Terminals : ~Launch(t)
    PROVE  Occupied' \subseteq Occupied
<1> USE DEF Occupied, TypeOK, InStart, InLock, Watched, Ended, Goto,
        tableVars, termVars, jobVars
<1>1. ASSUME NEW t \in Terminals, StartCheck(t) PROVE Occupied' \subseteq Occupied
  BY <1>1 DEF StartCheck
<1>2. ASSUME NEW t \in Terminals, IssueGrant(t) PROVE Occupied' \subseteq Occupied
  BY <1>2 DEF IssueGrant
<1>3. ASSUME NEW t \in Terminals, BuildArgv(t) PROVE Occupied' \subseteq Occupied
  BY <1>3 DEF BuildArgv
<1>4. ASSUME NEW t \in Terminals, Refuse(t) PROVE Occupied' \subseteq Occupied
  BY <1>4 DEF Refuse
<1>5. ASSUME NEW t \in Terminals, Record(t) PROVE Occupied' \subseteq Occupied
  BY <1>5 DEF Record
<1>6. ASSUME NEW t \in Terminals, Withdraw(t) PROVE Occupied' \subseteq Occupied
  BY <1>6 DEF Withdraw
<1>7. ASSUME NEW t \in Terminals, Unwind(t) PROVE Occupied' \subseteq Occupied
  BY <1>7 DEF Unwind
<1>8. ASSUME NEW t \in Terminals, ProcExit(t) PROVE Occupied' \subseteq Occupied
  BY <1>8 DEF ProcExit
<1>9. ASSUME NEW t \in Terminals, MonitorTimeout(t) PROVE Occupied' \subseteq Occupied
  BY <1>9 DEF MonitorTimeout
<1>10. ASSUME NEW t \in Terminals, MonitorKill(t) PROVE Occupied' \subseteq Occupied
  BY <1>10 DEF MonitorKill
<1>11. ASSUME NEW t \in Terminals, MonitorReap(t) PROVE Occupied' \subseteq Occupied
  BY <1>11 DEF MonitorReap
<1>12. ASSUME NEW t \in Terminals, MonitorSettle(t) PROVE Occupied' \subseteq Occupied
  BY <1>12 DEF MonitorSettle, SettledProcess
<1>13. ASSUME NEW t \in Terminals, MonitorRevoke(t) PROVE Occupied' \subseteq Occupied
  BY <1>13 DEF MonitorRevoke
<1>14. ASSUME NEW t \in Terminals, StopCheck(t) PROVE Occupied' \subseteq Occupied
  BY <1>14 DEF StopCheck
<1>15. ASSUME NEW t \in Terminals, StopSignal(t) PROVE Occupied' \subseteq Occupied
  BY <1>15 DEF StopSignal
<1>16. ASSUME BeginClaimRecovery PROVE Occupied' \subseteq Occupied
  BY <1>16 DEF BeginClaimRecovery
<1>17. ASSUME ObserveQuiet PROVE Occupied' \subseteq Occupied
  BY <1>17 DEF ObserveQuiet
<1>18. ASSUME EndClaimRecovery PROVE Occupied' \subseteq Occupied
  BY <1>18 DEF EndClaimRecovery
<1>19. ASSUME CleanupMark PROVE Occupied' \subseteq Occupied
  BY <1>19 DEF CleanupMark
<1>20. ASSUME CleanupRevoke PROVE Occupied' \subseteq Occupied
  BY <1>20 DEF CleanupRevoke
<1>21. ASSUME Exit PROVE Occupied' \subseteq Occupied
  BY <1>21 DEF Exit
<1>22. ASSUME Restart PROVE Occupied' \subseteq Occupied
  BY <1>22 DEF Restart
<1>23. ASSUME UNCHANGED vars PROVE Occupied' \subseteq Occupied
  BY <1>23 DEF vars
<1> QED
  BY <1>1, <1>2, <1>3, <1>4, <1>5, <1>6, <1>7, <1>8, <1>9, <1>10, <1>11, <1>12, <1>13, <1>14,
     <1>15, <1>16, <1>17, <1>18, <1>19, <1>20, <1>21, <1>22, <1>23
     DEF Next, ServiceNext, Start, Monitor

(* Launch takes one slot, and only when the running jobs, which include    *)
(* every occupant when the lock is free, leave one.                        *)
LEMMA BoundStep ==
    ASSUME TypeOK, \A t \in Terminals : JobInv(t), BoundInv, [Next]_vars
    PROVE  BoundInv'
<1>1. IsFiniteSet(Occupied) /\ Cardinality(Occupied) \in Nat
  BY JobsAssumption, FS_Subset, FS_CardinalityType DEF Occupied
<1>2. CASE \A t \in Terminals : ~Launch(t)
  <2>1. Cardinality(Occupied') <= Cardinality(Occupied)
    BY <1>1, <1>2, NoNewOccupant, FS_Subset
  <2>2. Cardinality(Occupied') \in Nat
    BY <1>1, <1>2, NoNewOccupant, FS_Subset, FS_CardinalityType
  <2> QED
    BY <1>1, <2>1, <2>2, MaxJobsAssumption DEF BoundInv
<1>3. ASSUME NEW t \in Terminals, Launch(t) PROVE BoundInv'
  <2>1. Occupied \subseteq Running
    BY <1>3, FreeAssumption DEF Launch, LockFree, JobInv, RowInv, LockInv, Occupied, Running,
       Jobs, InLock, Watched
  <2>2. IsFiniteSet(Running) /\ Cardinality(Running) \in Nat
    <3>1. IsFiniteSet(Jobs)
      BY JobsAssumption, FS_Union DEF Jobs
    <3> QED
      BY <3>1, FS_Subset, FS_CardinalityType DEF Running
  <2>3. Cardinality(Occupied) <= Cardinality(Running)
    BY <2>1, <2>2, FS_Subset
  <2>4. Cardinality(Running) < MaxJobs
    BY <1>3 DEF Launch, Admissible
  <2>5. t \notin Occupied /\ Occupied' = Occupied \cup {t}
    BY <1>3 DEF Launch, Goto, Occupied, TypeOK, InLock, Watched
  <2>6. Cardinality(Occupied') = Cardinality(Occupied) + 1
    BY <1>1, <2>5, FS_AddElement
  <2> QED
    BY <1>1, <2>2, <2>3, <2>4, <2>6, MaxJobsAssumption DEF BoundInv
<1> QED
  BY <1>2, <1>3

(* IInv is an invariant of the specification.                              *)
THEOREM Invariance == Spec => []IInv
<1>1. Init => IInv
  <2> SUFFICES ASSUME Init PROVE IInv
    OBVIOUS
  <2>1. TypeOK
    BY DEF Init, TableInit, TerminalInit, TypeOK, TableTypeOK, Statuses
  <2>2. ASSUME NEW t \in Terminals PROVE JobInv(t)
    BY FreeAssumption
       DEF Init, TableInit, TerminalInit, JobInv, RowInv, ProcInv, GrantInv,
           LockInv, InStart, InLock, Watched, Jobs
  <2>3. FenceInv /\ DownInv
    BY DEF Init, TableInit, TerminalInit, FenceInv, DownInv
  <2>4. BoundInv
    <3>1. Occupied = {}
      BY DEF Init, TerminalInit, Occupied, InLock, Watched
    <3> QED
      BY <3>1, FS_EmptySet, MaxJobsAssumption DEF BoundInv
  <2> QED
    BY <2>1, <2>2, <2>3, <2>4 DEF IInv
<1>2. IInv /\ [Next]_vars => IInv'
  <2> SUFFICES ASSUME IInv, [Next]_vars PROVE IInv'
    OBVIOUS
  <2>1. TypeOK'
    BY TypeStep DEF IInv
  <2>2. (\A t \in Terminals : JobInv(t))'
    BY <2>1, JobStep DEF IInv
  <2>3. FenceInv' /\ DownInv' /\ BoundInv'
    BY FenceStep, DownStep, BoundStep DEF IInv
  <2> QED
    BY <2>1, <2>2, <2>3 DEF IInv
<1> QED
  BY <1>1, <1>2, PTL DEF Spec

(***************************************************************************)
(* The properties of the runs, for every value of the constants.           *)
(***************************************************************************)

(* Every variable keeps its type.                                          *)
THEOREM ThmTypeOK == Spec => []TypeOK
<1>1. IInv => TypeOK
  BY DEF IInv
<1> QED
  BY <1>1, Invariance, PTL

(* There are never more sandbox processes than max_concurrent_jobs.        *)
THEOREM ThmLiveBound == Spec => []LiveBound
<1>1. IInv => LiveBound
  <2> SUFFICES ASSUME IInv PROVE LiveBound
    OBVIOUS
  <2>1. Live \subseteq Occupied
    BY DEF IInv, JobInv, ProcInv, TypeOK, Live, Occupied, InStart, InLock,
       Watched, Ended
  <2>2. IsFiniteSet(Occupied) /\ Cardinality(Occupied) \in Nat
    BY JobsAssumption, FS_Subset, FS_CardinalityType DEF Occupied
  <2>3. Cardinality(Live) <= Cardinality(Occupied) /\ Cardinality(Live) \in Nat
    BY <2>1, <2>2, FS_Subset, FS_CardinalityType
  <2> QED
    BY <2>2, <2>3, MaxJobsAssumption DEF IInv, BoundInv, LiveBound
<1> QED
  BY <1>1, Invariance, PTL

(* A live process outside start()'s locked section is on record as         *)
(* running, in memory and in the document.                                 *)
THEOREM ThmLiveIsRecorded == Spec => []LiveIsRecorded
<1>1. IInv => LiveIsRecorded
  BY DEF IInv, JobInv, RowInv, ProcInv, LockInv, TypeOK, LiveIsRecorded, Live,
     InStart, InLock, Watched, Ended
<1> QED
  BY <1>1, Invariance, PTL

(* A start() that raised leaves no row, no process and no usable grant.    *)
THEOREM ThmRefusedLeavesNothing == Spec => []RefusedLeavesNothing
<1>1. IInv => RefusedLeavesNothing
  BY DEF IInv, JobInv, RowInv, ProcInv, GrantInv, TypeOK, RefusedLeavesNothing,
     InStart, InLock, Watched
<1> QED
  BY <1>1, Invariance, PTL

(* A grant that still works has someone who will revoke it.                *)
THEOREM ThmGrantHasOwner == Spec => []GrantHasOwner
<1>1. IInv => GrantHasOwner
  BY DEF IInv, JobInv, GrantInv, GrantHasOwner, InStart, InLock
<1> QED
  BY <1>1, Invariance, PTL

(* No fenced candidate is live while a recovery relies on having seen      *)
(* none.                                                                   *)
THEOREM ThmQuietWhileAttested == Spec => []QuietWhileAttested
<1>1. IInv => QuietWhileAttested
  BY RecoveryAssumption
     DEF IInv, JobInv, ProcInv, FenceInv, TypeOK, QuietWhileAttested, InStart,
         InLock, Watched, Ended
<1> QED
  BY <1>1, Invariance, PTL

(* A final status in the document is the truth about the job.              *)
THEOREM ThmDurableFinalIsTrue == Spec => []DurableFinalIsTrue
<1>1. IInv => DurableFinalIsTrue
  BY DEF IInv, JobInv, RowInv, ProcInv, TypeOK, DurableFinalIsTrue, Final,
     InStart, InLock, Watched, Ended
<1> QED
  BY <1>1, Invariance, PTL

(* A final status in the document is never rewritten.                      *)
THEOREM ThmDurableFinalIsStable == Spec => DurableFinalIsStable
<1>1. ASSUME IInv, [Next]_vars, NEW t \in Terminals, disk[t] \in Final
      PROVE  disk'[t] = disk[t]
  <2>1. status[t] = disk[t]
    BY <1>1 DEF IInv, JobInv, RowInv, TypeOK, Final, InStart, InLock, Watched,
       Ended
  <2>2. ASSUME NEW u \in Terminals, Record(u) PROVE disk'[t] = disk[t]
    BY <2>1, <2>2 DEF Record, Persist
  <2>3. ASSUME NEW u \in Terminals, MonitorSettle(u) PROVE disk'[t] = disk[t]
    <3>1. CASE t = u
      BY <1>1, <2>3, <3>1 DEF MonitorSettle, SettledProcess, IInv, JobInv,
         RowInv, Watched, Final
    <3>2. CASE t # u
      BY <2>1, <2>3, <3>2 DEF MonitorSettle, Persist, IInv, TypeOK,
         TableTypeOK, Jobs
    <3> QED
      BY <3>1, <3>2
  <2>4. ASSUME Restart PROVE disk'[t] = disk[t]
    BY <1>1, <2>4 DEF Restart, LoadMetadata, Reconciled, Persist, Active,
       Final, Jobs
  <2>5. ASSUME UNCHANGED disk PROVE disk'[t] = disk[t]
    BY <2>5
  <2>6. \/ \E u \in Terminals : Record(u) \/ MonitorSettle(u)
        \/ Restart
        \/ UNCHANGED disk
    BY <1>1 DEF Next, ServiceNext, Start, Monitor, StartCheck, IssueGrant, BuildArgv,
       Refuse, Launch, Withdraw, Unwind, ProcExit, MonitorTimeout,
       MonitorKill, MonitorReap, MonitorRevoke, StopCheck, StopSignal,
       BeginClaimRecovery, ObserveQuiet, EndClaimRecovery, CleanupMark,
       CleanupRevoke, Exit, vars, tableVars
  <2> QED
    BY <2>2, <2>3, <2>4, <2>5, <2>6
<1>2. IInv /\ [Next]_vars =>
         [\A t \in Terminals : disk[t] \in Final => disk'[t] = disk[t]]_vars
  BY <1>1
<1> QED
  BY <1>2, Invariance, PTL DEF Spec, DurableFinalIsStable

=============================================================================
