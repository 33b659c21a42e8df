------------------------- MODULE ProcessManager_proofs -------------------------
(***************************************************************************)
(* The safety of the upstream jobs (ExternalJobs) alone, and of            *)
(* both kinds of job in the one table of ProcessManager, for every set of  *)
(* jobs of both kinds, every limit and every outcome of _persist.          *)
(*                                                                         *)
(* stop_control takes no lock and writes the row whatever it holds by      *)
(* then, and a restart believes the document, which may lag behind the     *)
(* table: what a status says of the adapter process is therefore not       *)
(* inductive.  JobInv ties the adapter process to the worker's place, the  *)
(* worker to the future, the future to the submission and the callback,    *)
(* and says of the persisted row what it says of the row in memory.        *)
(*                                                                         *)
(* The same call writes the rows of the terminal jobs (T) as well, when    *)
(* none of their threads chose to: TInv, further down, is the part of      *)
(* their invariant that stands it.  SharedInv, the two together, survives  *)
(* because a step of one kind changes no row of the other, and leaves in   *)
(* the document either what it held or what the table says (RowKept).      *)
(***************************************************************************)
EXTENDS ProcessManager, FiniteSetTheorems, TLAPS

Working == {"taken", "entered", "checked", "started"}

(* The worker, the future and its outcome move together.                   *)
FutureInv(e) ==
    /\ worker[e] \in Working <=> future[e] = "running"
    /\ worker[e] = "ended" <=> future[e] = "done"
    /\ outcome[e] # "none" <=> future[e] = "done"
    /\ future[e] = "none" <=> caller[e] \in {"new", "recorded", "gone"}

(* The worker forks the adapter process and watches it until it answers or *)
(* is gone; after its answer it may outlast the worker.                    *)
AdapterInv(e) ==
    /\ caller[e] \in {"new", "recorded"} => adapter[e] = "none"
    /\ future[e] \in {"pending", "cancelled"} => adapter[e] = "none"
    /\ worker[e] \in {"taken", "entered", "checked"} => adapter[e] = "none"
    /\ adapter[e] = "live" => worker[e] = "started" \/ caller[e] = "gone"
    /\ outcome[e] = "stopped" => adapter[e] = "none"
    /\ outcome[e] = "timed_out" => adapter[e] \in {"exited", "lost"}

(* What a row says of the job, in memory or in the document.               *)
Says(e, word) ==
    /\ word = "stopped" =>
          adapter[e] = "none" /\ future[e] \in {"none", "cancelled", "done"}
    /\ word = "timed_out" => adapter[e] \in {"exited", "lost"}
    /\ caller[e] = "new" => word = "absent"

RowInv(e) == Says(e, status[e]) /\ Says(e, disk[e])

(* The callback has run, or holds the lock in order to; only a submitted   *)
(* job is ever stopped.                                                    *)
CallbackInv(e) ==
    /\ stopper[e] # "idle" => caller[e] \notin {"new", "recorded", "gone"}
    /\ e \in finished => caller[e] = "attached" /\ future[e] \in {"cancelled", "done"}
    /\ lock = e /\ worker[e] # "checked" =>
          /\ caller[e] = "attached" /\ future[e] \in {"cancelled", "done"}
          /\ e \notin finished

DownInv == mode = "down" =>
    lock = Free /\ \A e \in Externals : caller[e] \in {"new", "gone"}

JobInv(e) == FutureInv(e) /\ AdapterInv(e) /\ RowInv(e) /\ CallbackInv(e)

IInv == TypeOK /\ DownInv /\ \A e \in Externals : JobInv(e)

-----------------------------------------------------------------------------
(* The service starts with no upstream job.                                *)
LEMMA Initially == Init => IInv
  BY JobsAssumption, FreeAssumption
     DEF Init, TableInit, ExternalInit, IInv, TypeOK, TableTypeOK, Statuses, Active, Final,
         Jobs, Free, DownInv, JobInv, FutureInv, AdapterInv, Says, RowInv, CallbackInv, Working
(* Every step keeps the type invariant.                                    *)
LEMMA TypeStep ==
    ASSUME TypeOK, \A e \in Externals : JobInv(e), [Next]_vars
    PROVE  TypeOK'
<1> USE JobsAssumption, PersistAssumption
    DEF TypeOK, TableTypeOK, Statuses, Active, Final, Jobs, Outcomes, Alive,
        LockFree, tableVars, extVars
<1>1. ASSUME NEW e \in Externals, Submit(e) PROVE TypeOK'
  BY <1>1 DEF Submit, LockFree, Persist
<1>2. ASSUME NEW e \in Externals, Attach(e) PROVE TypeOK'
  BY <1>2 DEF Attach
<1>3. ASSUME NEW e \in Externals, WorkerTake(e) PROVE TypeOK'
  BY <1>3 DEF WorkerTake
<1>4. ASSUME NEW e \in Externals, WorkerEnter(e) PROVE TypeOK'
  BY <1>4 DEF WorkerEnter, Resolve
<1>5. ASSUME NEW e \in Externals, WorkerCheck(e) PROVE TypeOK'
  BY <1>5 DEF WorkerCheck, Fork
<1>6. ASSUME NEW e \in Externals, WorkerStart(e) PROVE TypeOK'
  BY <1>6 DEF WorkerStart, Fork, Resolve, Persist
<1>7. ASSUME NEW e \in Externals, AdapterEnds(e) PROVE TypeOK'
  BY <1>7 DEF AdapterEnds, Present, AdapterGone
<1>7a. ASSUME NEW e \in Externals, AdapterAnswers(e) PROVE TypeOK'
  BY <1>7a DEF AdapterAnswers
<1>8. ASSUME NEW e \in Externals, WorkerTimeout(e) PROVE TypeOK'
  BY <1>8 DEF WorkerTimeout, Resolve, Present, AdapterGone
<1>9. ASSUME NEW e \in Externals, WorkerCancelled(e) PROVE TypeOK'
  BY <1>9 DEF WorkerCancelled, Resolve, Present, AdapterGone
<1>10. ASSUME NEW e \in Externals, WorkerCollect(e) PROVE TypeOK'
  BY <1>10 DEF WorkerCollect, Resolve
<1>11. ASSUME NEW e \in Externals, FinishCheck(e) PROVE TypeOK'
  BY <1>11 DEF FinishCheck, Retire, Persist
<1>12. ASSUME NEW e \in Externals, FinishWrite(e) PROVE TypeOK'
  BY <1>12 DEF FinishWrite, Retire, Persist, JobInv, FutureInv, CallbackInv
<1>13. ASSUME NEW e \in Externals, StopQueued(e) PROVE TypeOK'
  BY <1>13 DEF StopQueued, Persist
<1>14. ASSUME NEW e \in Externals, StopCheck(e) PROVE TypeOK'
  BY <1>14 DEF StopCheck
<1>15. ASSUME NEW e \in Externals, StopSignal(e) PROVE TypeOK'
  BY <1>15 DEF StopSignal, Present, AdapterGone
<1>16. ASSUME NEW e \in Externals, StopDetach(e) PROVE TypeOK'
  BY <1>16 DEF StopDetach, Persist
<1>17. ASSUME NEW e \in Externals, RecordExternal(e) PROVE TypeOK'
  BY <1>17 DEF RecordExternal, Persist
<1>18. ASSUME Exit PROVE TypeOK'
  BY <1>18 DEF Exit
<1>19. ASSUME Restart PROVE TypeOK'
  BY <1>19 DEF Restart, LoadMetadata, Reconciled, Persist
<1>20. ASSUME UNCHANGED vars PROVE TypeOK'
  BY <1>20 DEF vars
<1> QED
  BY <1>1, <1>2, <1>3, <1>4, <1>5, <1>6, <1>7, <1>7a, <1>8, <1>9, <1>10, <1>11,
     <1>12, <1>13, <1>14, <1>15, <1>16, <1>17, <1>18, <1>19, <1>20
     DEF Next, ExternalNext, Worker, Stop

(* When the service process is down, its threads are gone.                 *)
LEMMA DownStep ==
    ASSUME TypeOK, DownInv, \A e \in Externals : JobInv(e), [Next]_vars
    PROVE  DownInv'
<1> USE DEF DownInv, JobInv, FutureInv, Working, TypeOK, TableTypeOK, Alive, LockFree,
        tableVars, extVars
<1>1. ASSUME NEW e \in Externals, Submit(e) PROVE DownInv'
  BY <1>1 DEF Submit, LockFree, Persist
<1>2. ASSUME NEW e \in Externals, Attach(e) PROVE DownInv'
  BY <1>2 DEF Attach
<1>3. ASSUME NEW e \in Externals, WorkerTake(e) PROVE DownInv'
  BY <1>3 DEF WorkerTake
<1>4. ASSUME NEW e \in Externals, WorkerEnter(e) PROVE DownInv'
  BY <1>4 DEF WorkerEnter, Resolve
<1>5. ASSUME NEW e \in Externals, WorkerCheck(e) PROVE DownInv'
  BY <1>5 DEF WorkerCheck, Fork
<1>6. ASSUME NEW e \in Externals, WorkerStart(e) PROVE DownInv'
  BY <1>6 DEF WorkerStart, Fork, Resolve, Persist
<1>7. ASSUME NEW e \in Externals, AdapterEnds(e) PROVE DownInv'
  BY <1>7 DEF AdapterEnds, Present, AdapterGone
<1>7a. ASSUME NEW e \in Externals, AdapterAnswers(e) PROVE DownInv'
  BY <1>7a DEF AdapterAnswers
<1>8. ASSUME NEW e \in Externals, WorkerTimeout(e) PROVE DownInv'
  BY <1>8 DEF WorkerTimeout, Resolve, Present, AdapterGone
<1>9. ASSUME NEW e \in Externals, WorkerCancelled(e) PROVE DownInv'
  BY <1>9 DEF WorkerCancelled, Resolve, Present, AdapterGone
<1>10. ASSUME NEW e \in Externals, WorkerCollect(e) PROVE DownInv'
  BY <1>10 DEF WorkerCollect, Resolve
<1>11. ASSUME NEW e \in Externals, FinishCheck(e) PROVE DownInv'
  BY <1>11 DEF FinishCheck, Retire, Persist
<1>12. ASSUME NEW e \in Externals, FinishWrite(e) PROVE DownInv'
  BY <1>12 DEF FinishWrite, Retire, Persist
<1>13. ASSUME NEW e \in Externals, StopQueued(e) PROVE DownInv'
  BY <1>13 DEF StopQueued, Persist
<1>14. ASSUME NEW e \in Externals, StopCheck(e) PROVE DownInv'
  BY <1>14 DEF StopCheck
<1>15. ASSUME NEW e \in Externals, StopSignal(e) PROVE DownInv'
  BY <1>15 DEF StopSignal, Present, AdapterGone
<1>16. ASSUME NEW e \in Externals, StopDetach(e) PROVE DownInv'
  BY <1>16 DEF StopDetach, Persist
<1>17. ASSUME NEW e \in Externals, RecordExternal(e) PROVE DownInv'
  BY <1>17 DEF RecordExternal, Persist
<1>18. ASSUME Exit PROVE DownInv'
  BY <1>18 DEF Exit
<1>19. ASSUME Restart PROVE DownInv'
  BY <1>19 DEF Restart, LoadMetadata, Reconciled, Persist
<1>20. ASSUME UNCHANGED vars PROVE DownInv'
  BY <1>20 DEF vars
<1> QED
  BY <1>1, <1>2, <1>3, <1>4, <1>5, <1>6, <1>7, <1>7a, <1>8, <1>9, <1>10, <1>11,
     <1>12, <1>13, <1>14, <1>15, <1>16, <1>17, <1>18, <1>19, <1>20
     DEF Next, ExternalNext, Worker, Stop

(* Every step keeps the future, the adapter process, the rows and the      *)
(* callback of every job in line with each other.                          *)
LEMMA JobStep ==
    ASSUME TypeOK, TypeOK', DownInv, \A e \in Externals : JobInv(e),
           [Next]_vars, NEW u \in Externals
    PROVE  JobInv(u)'
<1> USE JobsAssumption, FreeAssumption, PersistAssumption
    DEF JobInv, FutureInv, AdapterInv, RowInv, Says, CallbackInv, DownInv, Working, TypeOK,
        TableTypeOK, Statuses, Active, Final, Jobs, Free, Outcomes, Alive, LockFree, tableVars,
        extVars
<1>1. ASSUME NEW e \in Externals, Submit(e) PROVE JobInv(u)'
  BY <1>1 DEF Submit, LockFree, Persist
<1>2. ASSUME NEW e \in Externals, Attach(e) PROVE JobInv(u)'
  BY <1>2 DEF Attach
<1>3. ASSUME NEW e \in Externals, WorkerTake(e) PROVE JobInv(u)'
  BY <1>3 DEF WorkerTake
<1>4. ASSUME NEW e \in Externals, WorkerEnter(e) PROVE JobInv(u)'
  BY <1>4 DEF WorkerEnter, Resolve
<1>5. ASSUME NEW e \in Externals, WorkerCheck(e) PROVE JobInv(u)'
  BY <1>5 DEF WorkerCheck, Fork
<1>6. ASSUME NEW e \in Externals, WorkerStart(e) PROVE JobInv(u)'
  BY <1>6 DEF WorkerStart, Fork, Resolve, Persist
<1>7. ASSUME NEW e \in Externals, AdapterEnds(e) PROVE JobInv(u)'
  BY <1>7 DEF AdapterEnds, Present, AdapterGone
<1>7a. ASSUME NEW e \in Externals, AdapterAnswers(e) PROVE JobInv(u)'
  BY <1>7a DEF AdapterAnswers
<1>8. ASSUME NEW e \in Externals, WorkerTimeout(e) PROVE JobInv(u)'
  BY <1>8 DEF WorkerTimeout, Resolve, Present, AdapterGone
<1>9. ASSUME NEW e \in Externals, WorkerCancelled(e) PROVE JobInv(u)'
  BY <1>9 DEF WorkerCancelled, Resolve, Present, AdapterGone
<1>10. ASSUME NEW e \in Externals, WorkerCollect(e) PROVE JobInv(u)'
  BY <1>10 DEF WorkerCollect, Resolve
<1>11. ASSUME NEW e \in Externals, FinishCheck(e) PROVE JobInv(u)'
  BY <1>11 DEF FinishCheck, Retire, Persist
<1>12. ASSUME NEW e \in Externals, FinishWrite(e) PROVE JobInv(u)'
  BY <1>12 DEF FinishWrite, Retire, Persist
<1>13. ASSUME NEW e \in Externals, StopQueued(e) PROVE JobInv(u)'
  BY <1>13 DEF StopQueued, Persist
<1>14. ASSUME NEW e \in Externals, StopCheck(e) PROVE JobInv(u)'
  BY <1>14 DEF StopCheck
<1>15. ASSUME NEW e \in Externals, StopSignal(e) PROVE JobInv(u)'
  BY <1>15 DEF StopSignal, Present, AdapterGone
<1>16. ASSUME NEW e \in Externals, StopDetach(e) PROVE JobInv(u)'
  BY <1>16 DEF StopDetach, Persist
<1>17. ASSUME NEW e \in Externals, RecordExternal(e) PROVE JobInv(u)'
  BY <1>17 DEF RecordExternal, Persist
<1>18. ASSUME Exit PROVE JobInv(u)'
  BY <1>18 DEF Exit
<1>19. ASSUME Restart PROVE JobInv(u)'
  BY <1>19 DEF Restart, LoadMetadata, Reconciled, Persist
<1>20. ASSUME UNCHANGED vars PROVE JobInv(u)'
  BY <1>20 DEF vars
<1> QED
  BY <1>1, <1>2, <1>3, <1>4, <1>5, <1>6, <1>7, <1>7a, <1>8, <1>9, <1>10, <1>11,
     <1>12, <1>13, <1>14, <1>15, <1>16, <1>17, <1>18, <1>19, <1>20
     DEF Next, ExternalNext, Worker, Stop

(* The invariant holds in every state of every behaviour.                  *)
THEOREM Invariance == Spec => []IInv
<1>1. IInv /\ [Next]_vars => IInv'
  BY TypeStep, DownStep, JobStep DEF IInv
<1> QED
  BY Initially, <1>1, PTL DEF Spec

(* Wherever the worker, the deadline, stop_control and the callback meet,  *)
(* and whatever _persist does, an adapter process that is still at its     *)
(* operation is supervised by the worker that forked it, unless the        *)
(* service process died under them.                                        *)
THEOREM ThmAdapterSupervised == Spec => [](TypeOK /\ AdapterSupervised)
<1>1. IInv => TypeOK /\ AdapterSupervised
  BY DEF IInv, JobInv, AdapterInv, AdapterSupervised
<1> QED
  BY <1>1, Invariance, PTL

(* What a row says in memory it has the right to say: "stopped" only of an *)
(* operation that never ran, "timed_out" only of a process that was ended. *)
THEOREM ThmStatusTellsOwnership == Spec => []StatusTellsOwnership
<1>1. IInv => StatusTellsOwnership
  BY DEF IInv, JobInv, RowInv, Says, StatusTellsOwnership
<1> QED
  BY <1>1, Invariance, PTL

(* After the callback of a job, only a stop_control call that had read the *)
(* row as active before it, or the next service process, changes the row.  *)
THEOREM ThmSettledOnlyDetached == Spec => SettledOnlyDetached
<1> DEFINE Kept == \A e \in finished : status'[e] # status[e] =>
                      status'[e] = "upstream_detached" /\ stopper[e] = "signalled"
<1>1. IInv /\ [Next]_vars => Kept
  <2> SUFFICES ASSUME IInv, [Next]_vars, NEW f \in finished, status'[f] # status[f]
               PROVE  status'[f] = "upstream_detached" /\ stopper[f] = "signalled"
    OBVIOUS
  <2> USE DEF IInv, JobInv, FutureInv, CallbackInv, DownInv, Working, TypeOK,
          TableTypeOK, Jobs, tableVars, extVars
  <2> DEFINE Goal == status'[f] = "upstream_detached" /\ stopper[f] = "signalled"
  <2>1. ASSUME NEW e \in Externals, Submit(e) PROVE Goal
    BY <2>1 DEF Submit, LockFree, Persist
  <2>2. ASSUME NEW e \in Externals, Attach(e) PROVE Goal
    BY <2>2 DEF Attach
  <2>3. ASSUME NEW e \in Externals, WorkerTake(e) PROVE Goal
    BY <2>3 DEF WorkerTake
  <2>4. ASSUME NEW e \in Externals, WorkerEnter(e) PROVE Goal
    BY <2>4 DEF WorkerEnter, Resolve
  <2>5. ASSUME NEW e \in Externals, WorkerCheck(e) PROVE Goal
    BY <2>5 DEF WorkerCheck, Fork
  <2>6. ASSUME NEW e \in Externals, WorkerStart(e) PROVE Goal
    BY <2>6 DEF WorkerStart, Fork, Resolve, Persist
  <2>7. ASSUME NEW e \in Externals, AdapterEnds(e) PROVE Goal
    BY <2>7 DEF AdapterEnds, Present, AdapterGone
  <2>7a. ASSUME NEW e \in Externals, AdapterAnswers(e) PROVE Goal
    BY <2>7a DEF AdapterAnswers
  <2>8. ASSUME NEW e \in Externals, WorkerTimeout(e) PROVE Goal
    BY <2>8 DEF WorkerTimeout, Resolve, Present, AdapterGone
  <2>9. ASSUME NEW e \in Externals, WorkerCancelled(e) PROVE Goal
    BY <2>9 DEF WorkerCancelled, Resolve, Present, AdapterGone
  <2>10. ASSUME NEW e \in Externals, WorkerCollect(e) PROVE Goal
    BY <2>10 DEF WorkerCollect, Resolve
  <2>11. ASSUME NEW e \in Externals, FinishCheck(e) PROVE Goal
    BY <2>11 DEF FinishCheck, Retire, Persist
  <2>12. ASSUME NEW e \in Externals, FinishWrite(e) PROVE Goal
    BY <2>12 DEF FinishWrite, Retire, Persist
  <2>13. ASSUME NEW e \in Externals, StopQueued(e) PROVE Goal
    BY <2>13 DEF StopQueued, Persist
  <2>14. ASSUME NEW e \in Externals, StopCheck(e) PROVE Goal
    BY <2>14 DEF StopCheck
  <2>15. ASSUME NEW e \in Externals, StopSignal(e) PROVE Goal
    BY <2>15 DEF StopSignal, Present, AdapterGone
  <2>16. ASSUME NEW e \in Externals, StopDetach(e) PROVE Goal
    BY <2>16 DEF StopDetach, Persist
  <2>17. ASSUME NEW e \in Externals, RecordExternal(e) PROVE Goal
    BY <2>17 DEF RecordExternal, Persist
  <2>18. ASSUME Exit PROVE Goal
    BY <2>18 DEF Exit
  <2>19. ASSUME Restart PROVE Goal
    BY <2>19 DEF Restart, LoadMetadata, Reconciled, Persist
  <2>20. ASSUME UNCHANGED vars PROVE Goal
    BY <2>20 DEF vars
  <2> QED
    BY <2>1, <2>2, <2>3, <2>4, <2>5, <2>6, <2>7, <2>7a, <2>8, <2>9, <2>10, <2>11,
       <2>12, <2>13, <2>14, <2>15, <2>16, <2>17, <2>18, <2>19, <2>20
       DEF Next, ExternalNext, Worker, Stop
<1> QED
  BY <1>1, Invariance, PTL DEF Spec, SettledOnlyDetached

-----------------------------------------------------------------------------
(* Both kinds of job at once.  What a terminal job needs for SharedTable   *)
(* is less than what TerminalJobs_proofs keeps of it alone: stop_control   *)
(* writes the rows of terminal jobs too, at a moment that their own        *)
(* threads do not choose, so that a job may be on disk before start() has  *)
(* recorded it, and after it was withdrawn.                                *)
ProcInv(t) == proc[t] \in {"live", "exited"} => phase[t] \in T!InLock \cup {"waiting", "grace"}

GrantInv(t) ==
    /\ phase[t] \in {"granted", "prepared"} => grant[t] = "live"
    /\ phase[t] = "launched" => t \in held
    /\ t \in held =>
          grant[t] = "live" /\ phase[t] \in {"launched", "died"} \cup T!Watched
    /\ grant[t] = "live" =>
          t \in held
            \/ phase[t] \in {"granted", "prepared", "settled"} \cup T!InLock

(* A watched job is on record, whoever wrote the document last.            *)
LiveRowInv(t) ==
    /\ phase[t] = "launched" => status[t] = "running"
    /\ phase[t] \in T!Watched => status[t] = "running" /\ disk[t] = "running"

HolderInv(t) == lock = t <=> phase[t] \in T!InLock

TerminalInv(t) == ProcInv(t) /\ GrantInv(t) /\ LiveRowInv(t) /\ HolderInv(t)

TerminalsDown == mode = "down" =>
    lock = T!Free /\ \A t \in Terminals : phase[t] \in {"new", "gone"}

TInv == T!TypeOK /\ TerminalsDown /\ \A t \in Terminals : TerminalInv(t)

SharedInv == TInv /\ IInv

(* A step of the other kind: it changes no row, but may write it.          *)
RowKept(u) ==
    /\ status'[u] = status[u]
    /\ disk'[u] \in {disk[u], status[u]}
    /\ lock' = u <=> lock = u

(* A terminal job changes no row of an upstream one, but writes it.        *)
LEMMA TerminalFrame ==
    ASSUME T!TypeOK, T!ServiceNext
    PROVE  /\ mode # "down" => mode' # "down"
           /\ \A u \in Externals : RowKept(u)
<1> DEFINE Goal == /\ mode # "down" => mode' # "down"
                   /\ \A u \in Externals : RowKept(u)
<1> USE JobsAssumption, FreeAssumption
    DEF RowKept, T!TypeOK, T!TableTypeOK, T!Jobs, T!Free, Jobs, Free, T!Goto, T!RevokeGrant,
        T!Alive, T!LockFree, T!tableVars, T!termVars, T!jobVars
<1>1. ASSUME NEW t \in Terminals, T!StartCheck(t) PROVE Goal
  BY <1>1 DEF T!StartCheck, T!Unfenced
<1>2. ASSUME NEW t \in Terminals, T!IssueGrant(t) PROVE Goal
  BY <1>2 DEF T!IssueGrant
<1>3. ASSUME NEW t \in Terminals, T!BuildArgv(t) PROVE Goal
  BY <1>3 DEF T!BuildArgv
<1>4. ASSUME NEW t \in Terminals, T!Refuse(t) PROVE Goal
  BY <1>4 DEF T!Refuse
<1>5. ASSUME NEW t \in Terminals, T!Launch(t) PROVE Goal
  BY <1>5 DEF T!Launch
<1>6. ASSUME NEW t \in Terminals, T!Record(t) PROVE Goal
  BY <1>6 DEF T!Record, T!Persist
<1>7. ASSUME NEW t \in Terminals, T!Withdraw(t) PROVE Goal
  BY <1>7 DEF T!Withdraw
<1>8. ASSUME NEW t \in Terminals, T!Unwind(t) PROVE Goal
  BY <1>8 DEF T!Unwind
<1>9. ASSUME NEW t \in Terminals, T!ProcExit(t) PROVE Goal
  BY <1>9 DEF T!ProcExit
<1>10. ASSUME NEW t \in Terminals, T!MonitorTimeout(t) PROVE Goal
  BY <1>10 DEF T!MonitorTimeout
<1>11. ASSUME NEW t \in Terminals, T!MonitorKill(t) PROVE Goal
  BY <1>11 DEF T!MonitorKill
<1>12. ASSUME NEW t \in Terminals, T!MonitorReap(t) PROVE Goal
  BY <1>12 DEF T!MonitorReap
<1>13. ASSUME NEW t \in Terminals, T!MonitorSettle(t) PROVE Goal
  BY <1>13 DEF T!MonitorSettle, T!SettledProcess, T!Outcome, T!Persist
<1>14. ASSUME NEW t \in Terminals, T!MonitorRevoke(t) PROVE Goal
  BY <1>14 DEF T!MonitorRevoke
<1>15. ASSUME NEW t \in Terminals, T!StopCheck(t) PROVE Goal
  BY <1>15 DEF T!StopCheck
<1>16. ASSUME NEW t \in Terminals, T!StopSignal(t) PROVE Goal
  BY <1>16 DEF T!StopSignal
<1>17. ASSUME T!BeginClaimRecovery PROVE Goal
  BY <1>17 DEF T!BeginClaimRecovery
<1>18. ASSUME T!ObserveQuiet PROVE Goal
  BY <1>18 DEF T!ObserveQuiet
<1>19. ASSUME T!EndClaimRecovery PROVE Goal
  BY <1>19 DEF T!EndClaimRecovery
<1>20. ASSUME T!CleanupMark PROVE Goal
  BY <1>20 DEF T!CleanupMark
<1>21. ASSUME T!CleanupRevoke PROVE Goal
  BY <1>21 DEF T!CleanupRevoke
<1> QED
  BY <1>1, <1>2, <1>3, <1>4, <1>5, <1>6, <1>7, <1>8, <1>9, <1>10, <1>11, <1>12, <1>13,
     <1>14, <1>15, <1>16, <1>17, <1>18, <1>19, <1>20, <1>21
     DEF T!ServiceNext, T!Start, T!Monitor

(* An upstream job changes no row of a terminal one, but writes it.        *)
LEMMA ExternalFrame ==
    ASSUME TypeOK, ExternalNext, \A e \in Externals : JobInv(e)
    PROVE  /\ mode' = mode
           /\ \A u \in Terminals : RowKept(u)
<1> DEFINE Goal == /\ mode' = mode
                   /\ \A u \in Terminals : RowKept(u)
<1> USE JobsAssumption, FreeAssumption
    DEF RowKept, TypeOK, TableTypeOK, Jobs, Free, Alive, LockFree, tableVars, extVars
<1>1. ASSUME NEW e \in Externals, Submit(e) PROVE Goal
  BY <1>1 DEF Submit, Persist
<1>2. ASSUME NEW e \in Externals, Attach(e) PROVE Goal
  BY <1>2 DEF Attach
<1>3. ASSUME NEW e \in Externals, WorkerTake(e) PROVE Goal
  BY <1>3 DEF WorkerTake
<1>4. ASSUME NEW e \in Externals, WorkerEnter(e) PROVE Goal
  BY <1>4 DEF WorkerEnter, Resolve
<1>5. ASSUME NEW e \in Externals, WorkerCheck(e) PROVE Goal
  BY <1>5 DEF WorkerCheck, Fork
<1>6. ASSUME NEW e \in Externals, WorkerStart(e) PROVE Goal
  BY <1>6 DEF WorkerStart, Fork, Resolve, Persist
<1>7. ASSUME NEW e \in Externals, AdapterEnds(e) PROVE Goal
  BY <1>7 DEF AdapterEnds, Present, AdapterGone
<1>7a. ASSUME NEW e \in Externals, AdapterAnswers(e) PROVE Goal
  BY <1>7a DEF AdapterAnswers
<1>8. ASSUME NEW e \in Externals, WorkerTimeout(e) PROVE Goal
  BY <1>8 DEF WorkerTimeout, Resolve, Present, AdapterGone
<1>9. ASSUME NEW e \in Externals, WorkerCancelled(e) PROVE Goal
  BY <1>9 DEF WorkerCancelled, Resolve, Present, AdapterGone
<1>10. ASSUME NEW e \in Externals, WorkerCollect(e) PROVE Goal
  BY <1>10 DEF WorkerCollect, Resolve
<1>11. ASSUME NEW e \in Externals, FinishCheck(e) PROVE Goal
  BY <1>11 DEF FinishCheck, Retire, Persist
<1>12. ASSUME NEW e \in Externals, FinishWrite(e) PROVE Goal
  BY <1>12 DEF FinishWrite, Retire, Persist
<1>13. ASSUME NEW e \in Externals, StopQueued(e) PROVE Goal
  BY <1>13 DEF StopQueued, Persist
<1>14. ASSUME NEW e \in Externals, StopCheck(e) PROVE Goal
  BY <1>14 DEF StopCheck
<1>15. ASSUME NEW e \in Externals, StopSignal(e) PROVE Goal
  BY <1>15 DEF StopSignal, Present, AdapterGone
<1>16. ASSUME NEW e \in Externals, StopDetach(e) PROVE Goal
  BY <1>16 DEF StopDetach, Persist
<1>17. ASSUME NEW e \in Externals, RecordExternal(e) PROVE Goal
  BY <1>17 DEF RecordExternal, Persist
<1> QED
  BY <1>1, <1>2, <1>3, <1>4, <1>5, <1>6, <1>7, <1>7a, <1>8, <1>9, <1>10, <1>11, <1>12, <1>13,
     <1>14, <1>15, <1>16, <1>17
     DEF ExternalNext, Worker, Stop

(* Every step of a terminal job keeps its types, ...                       *)
LEMMA TerminalTypeStep == ASSUME T!TypeOK, T!ServiceNext PROVE T!TypeOK'
<1> USE JobsAssumption, PersistAssumption
    DEF T!TypeOK, T!TableTypeOK, T!Statuses, T!Active, T!Final, T!Jobs, T!InStart, T!InLock,
        T!Watched, T!Ended, T!Goto, T!RevokeGrant, T!Alive, T!LockFree, T!tableVars, T!termVars,
        T!jobVars
<1>1. ASSUME NEW t \in Terminals, T!StartCheck(t) PROVE T!TypeOK'
  BY <1>1 DEF T!StartCheck, T!Unfenced
<1>2. ASSUME NEW t \in Terminals, T!IssueGrant(t) PROVE T!TypeOK'
  BY <1>2 DEF T!IssueGrant
<1>3. ASSUME NEW t \in Terminals, T!BuildArgv(t) PROVE T!TypeOK'
  BY <1>3 DEF T!BuildArgv
<1>4. ASSUME NEW t \in Terminals, T!Refuse(t) PROVE T!TypeOK'
  BY <1>4 DEF T!Refuse
<1>5. ASSUME NEW t \in Terminals, T!Launch(t) PROVE T!TypeOK'
  BY <1>5 DEF T!Launch
<1>6. ASSUME NEW t \in Terminals, T!Record(t) PROVE T!TypeOK'
  BY <1>6 DEF T!Record, T!Persist
<1>7. ASSUME NEW t \in Terminals, T!Withdraw(t) PROVE T!TypeOK'
  BY <1>7 DEF T!Withdraw
<1>8. ASSUME NEW t \in Terminals, T!Unwind(t) PROVE T!TypeOK'
  BY <1>8 DEF T!Unwind
<1>9. ASSUME NEW t \in Terminals, T!ProcExit(t) PROVE T!TypeOK'
  BY <1>9 DEF T!ProcExit
<1>10. ASSUME NEW t \in Terminals, T!MonitorTimeout(t) PROVE T!TypeOK'
  BY <1>10 DEF T!MonitorTimeout
<1>11. ASSUME NEW t \in Terminals, T!MonitorKill(t) PROVE T!TypeOK'
  BY <1>11 DEF T!MonitorKill
<1>12. ASSUME NEW t \in Terminals, T!MonitorReap(t) PROVE T!TypeOK'
  BY <1>12 DEF T!MonitorReap
<1>13. ASSUME NEW t \in Terminals, T!MonitorSettle(t) PROVE T!TypeOK'
  BY <1>13 DEF T!MonitorSettle, T!SettledProcess, T!Outcome, T!Persist
<1>14. ASSUME NEW t \in Terminals, T!MonitorRevoke(t) PROVE T!TypeOK'
  BY <1>14 DEF T!MonitorRevoke
<1>15. ASSUME NEW t \in Terminals, T!StopCheck(t) PROVE T!TypeOK'
  BY <1>15 DEF T!StopCheck
<1>16. ASSUME NEW t \in Terminals, T!StopSignal(t) PROVE T!TypeOK'
  BY <1>16 DEF T!StopSignal
<1>17. ASSUME T!BeginClaimRecovery PROVE T!TypeOK'
  BY <1>17 DEF T!BeginClaimRecovery
<1>18. ASSUME T!ObserveQuiet PROVE T!TypeOK'
  BY <1>18 DEF T!ObserveQuiet
<1>19. ASSUME T!EndClaimRecovery PROVE T!TypeOK'
  BY <1>19 DEF T!EndClaimRecovery
<1>20. ASSUME T!CleanupMark PROVE T!TypeOK'
  BY <1>20 DEF T!CleanupMark
<1>21. ASSUME T!CleanupRevoke PROVE T!TypeOK'
  BY <1>21 DEF T!CleanupRevoke
<1> QED
  BY <1>1, <1>2, <1>3, <1>4, <1>5, <1>6, <1>7, <1>8, <1>9, <1>10, <1>11, <1>12, <1>13,
     <1>14, <1>15, <1>16, <1>17, <1>18, <1>19, <1>20, <1>21
     DEF T!ServiceNext, T!Start, T!Monitor

(* ... and its process, grant, row and lock in line with its phase.        *)
LEMMA TerminalJobStep ==
    ASSUME TInv, T!TypeOK', T!ServiceNext, NEW u \in Terminals
    PROVE  TerminalInv(u)'
<1> USE JobsAssumption, FreeAssumption, PersistAssumption
    DEF TInv, TerminalInv, ProcInv, GrantInv, LiveRowInv, HolderInv, TerminalsDown,
        T!TypeOK, T!TableTypeOK, T!Statuses, T!Active, T!Final, T!Jobs, T!Free, Jobs, Free,
        T!InStart, T!InLock, T!Watched, T!Ended, T!Goto, T!RevokeGrant, T!Alive, T!LockFree,
        T!tableVars, T!termVars, T!jobVars
<1>1. ASSUME NEW t \in Terminals, T!StartCheck(t) PROVE TerminalInv(u)'
  BY <1>1 DEF T!StartCheck, T!Unfenced
<1>2. ASSUME NEW t \in Terminals, T!IssueGrant(t) PROVE TerminalInv(u)'
  BY <1>2 DEF T!IssueGrant
<1>3. ASSUME NEW t \in Terminals, T!BuildArgv(t) PROVE TerminalInv(u)'
  BY <1>3 DEF T!BuildArgv
<1>4. ASSUME NEW t \in Terminals, T!Refuse(t) PROVE TerminalInv(u)'
  BY <1>4 DEF T!Refuse
<1>5. ASSUME NEW t \in Terminals, T!Launch(t) PROVE TerminalInv(u)'
  BY <1>5 DEF T!Launch
<1>6. ASSUME NEW t \in Terminals, T!Record(t) PROVE TerminalInv(u)'
  BY <1>6 DEF T!Record, T!Persist
<1>7. ASSUME NEW t \in Terminals, T!Withdraw(t) PROVE TerminalInv(u)'
  BY <1>7 DEF T!Withdraw
<1>8. ASSUME NEW t \in Terminals, T!Unwind(t) PROVE TerminalInv(u)'
  BY <1>8 DEF T!Unwind
<1>9. ASSUME NEW t \in Terminals, T!ProcExit(t) PROVE TerminalInv(u)'
  BY <1>9 DEF T!ProcExit
<1>10. ASSUME NEW t \in Terminals, T!MonitorTimeout(t) PROVE TerminalInv(u)'
  BY <1>10 DEF T!MonitorTimeout
<1>11. ASSUME NEW t \in Terminals, T!MonitorKill(t) PROVE TerminalInv(u)'
  BY <1>11 DEF T!MonitorKill
<1>12. ASSUME NEW t \in Terminals, T!MonitorReap(t) PROVE TerminalInv(u)'
  BY <1>12 DEF T!MonitorReap
<1>13. ASSUME NEW t \in Terminals, T!MonitorSettle(t) PROVE TerminalInv(u)'
  BY <1>13 DEF T!MonitorSettle, T!SettledProcess, T!Outcome, T!Persist
<1>14. ASSUME NEW t \in Terminals, T!MonitorRevoke(t) PROVE TerminalInv(u)'
  BY <1>14 DEF T!MonitorRevoke
<1>15. ASSUME NEW t \in Terminals, T!StopCheck(t) PROVE TerminalInv(u)'
  BY <1>15 DEF T!StopCheck
<1>16. ASSUME NEW t \in Terminals, T!StopSignal(t) PROVE TerminalInv(u)'
  BY <1>16 DEF T!StopSignal
<1>17. ASSUME T!BeginClaimRecovery PROVE TerminalInv(u)'
  BY <1>17 DEF T!BeginClaimRecovery
<1>18. ASSUME T!ObserveQuiet PROVE TerminalInv(u)'
  BY <1>18 DEF T!ObserveQuiet
<1>19. ASSUME T!EndClaimRecovery PROVE TerminalInv(u)'
  BY <1>19 DEF T!EndClaimRecovery
<1>20. ASSUME T!CleanupMark PROVE TerminalInv(u)'
  BY <1>20 DEF T!CleanupMark
<1>21. ASSUME T!CleanupRevoke PROVE TerminalInv(u)'
  BY <1>21 DEF T!CleanupRevoke
<1> QED
  BY <1>1, <1>2, <1>3, <1>4, <1>5, <1>6, <1>7, <1>8, <1>9, <1>10, <1>11, <1>12, <1>13,
     <1>14, <1>15, <1>16, <1>17, <1>18, <1>19, <1>20, <1>21
     DEF T!ServiceNext, T!Start, T!Monitor

LEMMA TerminalDownStep == ASSUME TInv, T!ServiceNext PROVE TerminalsDown'
<1> USE DEF TInv, TerminalInv, ProcInv, TerminalsDown, T!TypeOK, T!TableTypeOK, T!InStart,
            T!InLock, T!Watched, T!Ended, T!Goto, T!Alive, T!LockFree, T!tableVars, T!termVars,
            T!jobVars
<1>1. ASSUME NEW t \in Terminals, T!StartCheck(t) PROVE TerminalsDown'
  BY <1>1 DEF T!StartCheck, T!Unfenced
<1>2. ASSUME NEW t \in Terminals, T!IssueGrant(t) PROVE TerminalsDown'
  BY <1>2 DEF T!IssueGrant
<1>3. ASSUME NEW t \in Terminals, T!BuildArgv(t) PROVE TerminalsDown'
  BY <1>3 DEF T!BuildArgv
<1>4. ASSUME NEW t \in Terminals, T!Refuse(t) PROVE TerminalsDown'
  BY <1>4 DEF T!Refuse
<1>5. ASSUME NEW t \in Terminals, T!Launch(t) PROVE TerminalsDown'
  BY <1>5 DEF T!Launch
<1>6. ASSUME NEW t \in Terminals, T!Record(t) PROVE TerminalsDown'
  BY <1>6 DEF T!Record, T!Persist
<1>7. ASSUME NEW t \in Terminals, T!Withdraw(t) PROVE TerminalsDown'
  BY <1>7 DEF T!Withdraw
<1>8. ASSUME NEW t \in Terminals, T!Unwind(t) PROVE TerminalsDown'
  BY <1>8 DEF T!Unwind
<1>9. ASSUME NEW t \in Terminals, T!ProcExit(t) PROVE TerminalsDown'
  BY <1>9 DEF T!ProcExit
<1>10. ASSUME NEW t \in Terminals, T!MonitorTimeout(t) PROVE TerminalsDown'
  BY <1>10 DEF T!MonitorTimeout
<1>11. ASSUME NEW t \in Terminals, T!MonitorKill(t) PROVE TerminalsDown'
  BY <1>11 DEF T!MonitorKill
<1>12. ASSUME NEW t \in Terminals, T!MonitorReap(t) PROVE TerminalsDown'
  BY <1>12 DEF T!MonitorReap
<1>13. ASSUME NEW t \in Terminals, T!MonitorSettle(t) PROVE TerminalsDown'
  BY <1>13 DEF T!MonitorSettle, T!SettledProcess, T!Outcome, T!Persist
<1>14. ASSUME NEW t \in Terminals, T!MonitorRevoke(t) PROVE TerminalsDown'
  BY <1>14 DEF T!MonitorRevoke
<1>15. ASSUME NEW t \in Terminals, T!StopCheck(t) PROVE TerminalsDown'
  BY <1>15 DEF T!StopCheck
<1>16. ASSUME NEW t \in Terminals, T!StopSignal(t) PROVE TerminalsDown'
  BY <1>16 DEF T!StopSignal
<1>17. ASSUME T!BeginClaimRecovery PROVE TerminalsDown'
  BY <1>17 DEF T!BeginClaimRecovery
<1>18. ASSUME T!ObserveQuiet PROVE TerminalsDown'
  BY <1>18 DEF T!ObserveQuiet
<1>19. ASSUME T!EndClaimRecovery PROVE TerminalsDown'
  BY <1>19 DEF T!EndClaimRecovery
<1>20. ASSUME T!CleanupMark PROVE TerminalsDown'
  BY <1>20 DEF T!CleanupMark
<1>21. ASSUME T!CleanupRevoke PROVE TerminalsDown'
  BY <1>21 DEF T!CleanupRevoke
<1> QED
  BY <1>1, <1>2, <1>3, <1>4, <1>5, <1>6, <1>7, <1>8, <1>9, <1>10, <1>11, <1>12, <1>13,
     <1>14, <1>15, <1>16, <1>17, <1>18, <1>19, <1>20, <1>21
     DEF T!ServiceNext, T!Start, T!Monitor
-----------------------------------------------------------------------------
(* A step of a terminal job leaves the upstream jobs as they are.          *)
LEMMA TerminalStepKeeps == ASSUME SharedInv, TerminalStep PROVE SharedInv'
<1>0. T!TypeOK
  BY DEF SharedInv, TInv
<1>1. T!ServiceNext /\ UNCHANGED extVars
  BY DEF TerminalStep
<1>2. T!TypeOK'
  BY <1>1, TerminalTypeStep DEF SharedInv, TInv
<1>3. TInv'
  BY <1>1, <1>2, TerminalJobStep, TerminalDownStep DEF SharedInv, TInv
<1>4. TypeOK'
  BY <1>1, <1>2
     DEF SharedInv, IInv, TypeOK, extVars, T!TypeOK, T!TableTypeOK, TableTypeOK, T!Jobs,
         Jobs, T!Statuses, Statuses, T!Active, Active, T!Final, Final, T!Free, Free
<1>5. DownInv'
  BY <1>1, <1>3, TerminalFrame
     DEF SharedInv, IInv, TInv, DownInv, TerminalsDown, extVars, T!Free, Free
<1>6. ASSUME NEW u \in Externals PROVE JobInv(u)'
  <2>1. RowKept(u)
    BY <1>0, <1>1, TerminalFrame
  <2>2. JobInv(u)
    BY DEF SharedInv, IInv
  <2> QED
    BY <1>1, <2>1, <2>2
       DEF RowKept, JobInv, FutureInv, AdapterInv, RowInv, Says, CallbackInv, Working, extVars
<1> QED
  BY <1>3, <1>4, <1>5, <1>6 DEF SharedInv, IInv

(* A step of an upstream job leaves the terminal jobs as they are.         *)
LEMMA ExternalStepKeeps == ASSUME SharedInv, ExternalStep PROVE SharedInv'
<1>0. TypeOK /\ \A e \in Externals : JobInv(e)
  BY DEF SharedInv, IInv
<1>1. ExternalNext /\ UNCHANGED termVars
  BY DEF ExternalStep
<1>2. [Next]_vars
  BY <1>1 DEF Next
<1>3. IInv'
  BY <1>2, TypeStep, DownStep, JobStep DEF SharedInv, IInv
<1>4. T!TypeOK'
  BY <1>1, <1>3
     DEF SharedInv, IInv, TInv, TypeOK, termVars, T!TypeOK, T!TableTypeOK, TableTypeOK,
         T!Jobs, Jobs, T!Statuses, Statuses, T!Active, Active, T!Final, Final, T!Free,
         Free
<1>5. TerminalsDown'
  BY <1>1, <1>3, ExternalFrame
     DEF SharedInv, IInv, TInv, DownInv, TerminalsDown, termVars, T!Free, Free
<1>6. ASSUME NEW u \in Terminals PROVE TerminalInv(u)'
  <2>1. RowKept(u)
    BY <1>0, <1>1, ExternalFrame
  <2>2. TerminalInv(u)
    BY DEF SharedInv, TInv
  <2> QED
    BY <1>1, <2>1, <2>2
       DEF RowKept, TerminalInv, ProcInv, GrantInv, LiveRowInv, HolderInv, termVars, T!Watched
<1> QED
  BY <1>3, <1>4, <1>5, <1>6 DEF SharedInv, TInv

(* The service process dies with the threads of both.                      *)
LEMMA ExitKeeps == ASSUME SharedInv, ManagerExit PROVE SharedInv'
<1>1. IInv'
  <2>1. [Next]_vars
    BY DEF ManagerExit, Next
  <2> QED
    BY <2>1, TypeStep, DownStep, JobStep DEF SharedInv, IInv
<1> USE JobsAssumption, FreeAssumption
    DEF ManagerExit, T!Exit, SharedInv, TInv, T!TypeOK, T!TableTypeOK, T!Jobs, T!Free, Jobs, Free,
        T!InStart, T!InLock, T!Watched, T!Ended
<1>2. T!TypeOK'
  OBVIOUS
<1>3. TerminalsDown'
  BY DEF TerminalsDown
<1>4. \A t \in Terminals : TerminalInv(t)'
  BY DEF TerminalInv, ProcInv, GrantInv, LiveRowInv, HolderInv
<1> QED
  BY <1>1, <1>2, <1>3, <1>4

(* The next one starts from the document, without a thread.                *)
LEMMA RestartKeeps == ASSUME SharedInv, ManagerRestart PROVE SharedInv'
<1>1. Restart /\ UNCHANGED termVars
  BY DEF ManagerRestart
<1>2. IInv'
  <2>1. [Next]_vars
    BY <1>1 DEF Next
  <2> QED
    BY <2>1, TypeStep, DownStep, JobStep DEF SharedInv, IInv
<1>3. T!TypeOK'
  BY <1>1, <1>2
     DEF SharedInv, IInv, TInv, TypeOK, termVars, T!TypeOK, T!TableTypeOK, TableTypeOK,
         T!Jobs, Jobs, T!Statuses, Statuses, T!Active, Active, T!Final, Final, T!Free, Free
<1>4. /\ mode = "down" /\ lock' = lock /\ UNCHANGED termVars
      /\ lock = Free /\ \A t \in Terminals : phase[t] \in {"new", "gone"}
  BY <1>1 DEF Restart, LoadMetadata, SharedInv, TInv, TerminalsDown, T!Free, Free
<1>5. TerminalsDown'
  BY <1>4 DEF TerminalsDown, termVars, T!Free, Free
<1>6. ASSUME NEW t \in Terminals PROVE TerminalInv(t)'
  BY <1>4
     DEF SharedInv, TInv, TerminalInv, ProcInv, GrantInv, LiveRowInv, HolderInv, termVars,
         T!Watched, T!InLock
<1> QED
  BY <1>2, <1>3, <1>5, <1>6 DEF SharedInv, TInv

(* The joint invariant holds in every state of every behaviour.            *)
THEOREM SharedInvariance == ManagerSpec => []SharedInv
<1>1. ManagerInit => SharedInv
  <2> SUFFICES ASSUME ManagerInit PROVE SharedInv
    OBVIOUS
  <2>1. IInv
    BY Initially
       DEF ManagerInit, Init, T!Init, T!TableInit, TableInit, T!Jobs, Jobs, T!Free, Free
  <2>2. TInv
    BY JobsAssumption, FreeAssumption
       DEF ManagerInit, T!Init, T!TableInit, T!TerminalInit, TInv, T!TypeOK, T!TableTypeOK, T!Statuses,
           T!Active, T!Final, T!Jobs, T!Free, Jobs, Free, T!InStart, T!InLock, T!Watched,
           TerminalsDown, TerminalInv, ProcInv, GrantInv, LiveRowInv, HolderInv
  <2> QED
    BY <2>1, <2>2 DEF SharedInv
<1>2. SharedInv /\ [ManagerNext]_managerVars => SharedInv'
  <2> SUFFICES ASSUME SharedInv, [ManagerNext]_managerVars PROVE SharedInv'
    OBVIOUS
  <2>1. CASE UNCHANGED managerVars
    <3>1. [Next]_vars
      BY <2>1 DEF managerVars
    <3>2. IInv'
      BY <3>1, TypeStep, DownStep, JobStep DEF SharedInv, IInv
    <3>3. T!TypeOK'
      BY <2>1 DEF SharedInv, TInv, managerVars, vars, tableVars, termVars, T!TypeOK, T!TableTypeOK
    <3>4. TerminalsDown'
      BY <2>1 DEF SharedInv, TInv, managerVars, vars, tableVars, termVars, TerminalsDown
    <3>5. \A t \in Terminals : TerminalInv(t)'
      BY <2>1 DEF SharedInv, TInv, managerVars, vars, tableVars, termVars, TerminalInv, ProcInv,
                  GrantInv, LiveRowInv, HolderInv
    <3> QED
      BY <3>2, <3>3, <3>4, <3>5 DEF SharedInv, TInv
  <2> QED
    BY <2>1, TerminalStepKeeps, ExternalStepKeeps, ExitKeeps, RestartKeeps
       DEF ManagerNext
<1> QED
  BY <1>1, <1>2, PTL DEF ManagerSpec

(* What each kind of job relies on survives the other kind, for every set  *)
(* of jobs of both kinds, every limit and whatever _persist does: a live   *)
(* sandbox process is on record, a grant that works has someone to revoke  *)
(* it, an adapter process is supervised, an upstream status is true.       *)
THEOREM ThmSharedTable == ManagerSpec => []SharedTable
<1>1. SharedInv => SharedTable
  <2> SUFFICES ASSUME SharedInv PROVE SharedTable
    OBVIOUS
  <2>1. T!LiveIsRecorded
    BY DEF SharedInv, TInv, TerminalInv, ProcInv, LiveRowInv, HolderInv, T!LiveIsRecorded,
           T!Live, T!Watched
  <2>2. T!GrantHasOwner
    BY DEF SharedInv, TInv, TerminalInv, GrantInv, T!GrantHasOwner, T!InStart
  <2>3. AdapterSupervised /\ StatusTellsOwnership
    BY DEF SharedInv, IInv, JobInv, AdapterInv, RowInv, Says, AdapterSupervised,
           StatusTellsOwnership
  <2> QED
    BY <2>1, <2>2, <2>3 DEF SharedInv, TInv, IInv, SharedTable
<1> QED
  BY <1>1, SharedInvariance, PTL

-----------------------------------------------------------------------------
(* The two limits together.  A terminal job is never queued; an upstream   *)
(* job whose worker has seen it queued under the lock counts as active,    *)
(* even if stop_control changes its row before the worker does.            *)
NeverQueued == \A t \in Terminals : status[t] # "queued" /\ disk[t] # "queued"

RunningTerminals == {t \in Terminals : status[t] = "running"}

Claimed == {e \in Externals : status[e] \in Active \/ (lock = e /\ worker[e] = "checked")}

BoundInv ==
    /\ NeverQueued
    /\ Cardinality(RunningTerminals) <= MaxJobs
    /\ Cardinality(Claimed) <= MaxJobs + 1

(* start() launches only below the limit of running jobs.                  *)
LEMMA LaunchAdmits ==
    ASSUME NEW t \in Terminals, T!Launch(t) PROVE Cardinality(Running) < MaxJobs
<1>1. T!Admissible(t)
  BY DEF T!Launch
<1>2. T!Cardinality(T!Running) = Cardinality(T!Running)
  BY Zenon DEF T!Cardinality, Cardinality
<1>3. T!Running = Running
  BY DEF T!Running, Running, T!Jobs, Jobs
<1>4. T!Cardinality(T!Running) < MaxJobs
  BY <1>1 DEF T!Admissible
<1> QED
  BY <1>2, <1>3, <1>4, Zenon

(* Only start() lets one more terminal job run, and only below its limit.  *)
LEMMA TerminalsAdmitted ==
    ASSUME SharedInv, NeverQueued, T!ServiceNext
    PROVE  /\ NeverQueued'
           /\ \/ RunningTerminals' \subseteq RunningTerminals
              \/ /\ Cardinality(Running) < MaxJobs
                 /\ \E t \in Terminals : RunningTerminals' \subseteq RunningTerminals \cup {t}
<1> DEFINE Fewer == RunningTerminals' \subseteq RunningTerminals
           More == /\ Cardinality(Running) < MaxJobs
                   /\ \E t \in Terminals : RunningTerminals' \subseteq RunningTerminals \cup {t}
<1>0. T!TypeOK /\ \A t \in Terminals : TerminalInv(t)
  BY DEF SharedInv, TInv
<1> USE <1>0, PersistAssumption
    DEF NeverQueued, RunningTerminals, T!TypeOK, T!TableTypeOK, T!Final, T!Jobs, T!Goto,
        T!RevokeGrant, T!Alive, T!LockFree, T!tableVars, T!termVars, T!jobVars
<1>1. ASSUME NEW t \in Terminals, T!StartCheck(t) PROVE NeverQueued' /\ Fewer
  BY <1>1 DEF T!StartCheck, T!Unfenced
<1>2. ASSUME NEW t \in Terminals, T!IssueGrant(t) PROVE NeverQueued' /\ Fewer
  BY <1>2 DEF T!IssueGrant
<1>3. ASSUME NEW t \in Terminals, T!BuildArgv(t) PROVE NeverQueued' /\ Fewer
  BY <1>3 DEF T!BuildArgv
<1>4. ASSUME NEW t \in Terminals, T!Refuse(t) PROVE NeverQueued' /\ Fewer
  BY <1>4 DEF T!Refuse
<1>5. ASSUME NEW t \in Terminals, T!Launch(t) PROVE NeverQueued' /\ More
  <2>1. Cardinality(Running) < MaxJobs
    BY <1>5, LaunchAdmits
  <2>2. NeverQueued' /\ RunningTerminals' \subseteq RunningTerminals \cup {t}
    BY <1>5 DEF T!Launch
  <2> QED
    BY <2>1, <2>2
<1>6. ASSUME NEW t \in Terminals, T!Record(t) PROVE NeverQueued' /\ Fewer
  BY <1>6 DEF T!Record, T!Persist
<1>7. ASSUME NEW t \in Terminals, T!Withdraw(t) PROVE NeverQueued' /\ Fewer
  BY <1>7 DEF T!Withdraw
<1>8. ASSUME NEW t \in Terminals, T!Unwind(t) PROVE NeverQueued' /\ Fewer
  BY <1>8 DEF T!Unwind
<1>9. ASSUME NEW t \in Terminals, T!ProcExit(t) PROVE NeverQueued' /\ Fewer
  BY <1>9 DEF T!ProcExit
<1>10. ASSUME NEW t \in Terminals, T!MonitorTimeout(t) PROVE NeverQueued' /\ Fewer
  BY <1>10 DEF T!MonitorTimeout
<1>11. ASSUME NEW t \in Terminals, T!MonitorKill(t) PROVE NeverQueued' /\ Fewer
  BY <1>11 DEF T!MonitorKill
<1>12. ASSUME NEW t \in Terminals, T!MonitorReap(t) PROVE NeverQueued' /\ Fewer
  BY <1>12 DEF T!MonitorReap
<1>13. ASSUME NEW t \in Terminals, T!MonitorSettle(t) PROVE NeverQueued' /\ Fewer
  BY <1>13 DEF T!MonitorSettle, T!SettledProcess, T!Outcome, T!Persist
<1>14. ASSUME NEW t \in Terminals, T!MonitorRevoke(t) PROVE NeverQueued' /\ Fewer
  BY <1>14 DEF T!MonitorRevoke
<1>15. ASSUME NEW t \in Terminals, T!StopCheck(t) PROVE NeverQueued' /\ Fewer
  BY <1>15 DEF T!StopCheck
<1>16. ASSUME NEW t \in Terminals, T!StopSignal(t) PROVE NeverQueued' /\ Fewer
  BY <1>16 DEF T!StopSignal
<1>17. ASSUME T!BeginClaimRecovery PROVE NeverQueued' /\ Fewer
  BY <1>17 DEF T!BeginClaimRecovery
<1>18. ASSUME T!ObserveQuiet PROVE NeverQueued' /\ Fewer
  BY <1>18 DEF T!ObserveQuiet
<1>19. ASSUME T!EndClaimRecovery PROVE NeverQueued' /\ Fewer
  BY <1>19 DEF T!EndClaimRecovery
<1>20. ASSUME T!CleanupMark PROVE NeverQueued' /\ Fewer
  BY <1>20 DEF T!CleanupMark
<1>21. ASSUME T!CleanupRevoke PROVE NeverQueued' /\ Fewer
  BY <1>21 DEF T!CleanupRevoke
<1> HIDE DEF Fewer, More, NeverQueued, RunningTerminals
<1>22. NeverQueued' /\ (Fewer \/ More)
  BY <1>1, <1>2, <1>3, <1>4, <1>5, <1>6, <1>7, <1>8, <1>9, <1>10, <1>11, <1>12, <1>13,
     <1>14, <1>15, <1>16, <1>17, <1>18, <1>19, <1>20, <1>21
     DEF T!ServiceNext, T!Start, T!Monitor
<1> QED
  BY <1>22 DEF Fewer, More

(* Only submit_external makes one more upstream job active.                *)
LEMMA ExternalsAdmitted ==
    ASSUME SharedInv, ExternalNext
    PROVE  \/ Claimed' \subseteq Claimed
           \/ /\ Claimed \subseteq ActiveJobs /\ Cardinality(ActiveJobs) < MaxJobs + 1
              /\ \E e \in Externals : Claimed' \subseteq Claimed \cup {e}
<1> DEFINE Fewer == Claimed' \subseteq Claimed
           More == /\ Claimed \subseteq ActiveJobs /\ Cardinality(ActiveJobs) < MaxJobs + 1
                   /\ \E e \in Externals : Claimed' \subseteq Claimed \cup {e}
<1>0. TypeOK /\ \A e \in Externals : JobInv(e)
  BY DEF SharedInv, IInv
<1> USE <1>0, JobsAssumption, FreeAssumption
    DEF Claimed, TypeOK, TableTypeOK, Jobs, Free, Active, Final, Outcomes, Alive, LockFree,
        tableVars, extVars, JobInv, FutureInv
<1>1. ASSUME NEW e \in Externals, Submit(e) PROVE More
  <2>1. Claimed \subseteq ActiveJobs
    BY <1>1 DEF Submit, ActiveJobs
  <2>2. Claimed' \subseteq Claimed \cup {e}
    BY <1>1 DEF Submit
  <2> QED
    BY <1>1, <2>1, <2>2 DEF Submit, Room
<1>2. ASSUME NEW e \in Externals, Attach(e) PROVE Fewer
  BY <1>2 DEF Attach
<1>3. ASSUME NEW e \in Externals, WorkerTake(e) PROVE Fewer
  BY <1>3 DEF WorkerTake
<1>4. ASSUME NEW e \in Externals, WorkerEnter(e) PROVE Fewer
  BY <1>4 DEF WorkerEnter, Resolve
<1>5. ASSUME NEW e \in Externals, WorkerCheck(e) PROVE Fewer
  BY <1>5 DEF WorkerCheck, Fork
<1>6. ASSUME NEW e \in Externals, WorkerStart(e) PROVE Fewer
  BY <1>6 DEF WorkerStart, Fork, Resolve, Persist
<1>7. ASSUME NEW e \in Externals, AdapterEnds(e) PROVE Fewer
  BY <1>7 DEF AdapterEnds, Present, AdapterGone
<1>7a. ASSUME NEW e \in Externals, AdapterAnswers(e) PROVE Fewer
  BY <1>7a DEF AdapterAnswers
<1>8. ASSUME NEW e \in Externals, WorkerTimeout(e) PROVE Fewer
  BY <1>8 DEF WorkerTimeout, Resolve, Present, AdapterGone
<1>9. ASSUME NEW e \in Externals, WorkerCancelled(e) PROVE Fewer
  BY <1>9 DEF WorkerCancelled, Resolve, Present, AdapterGone
<1>10. ASSUME NEW e \in Externals, WorkerCollect(e) PROVE Fewer
  BY <1>10 DEF WorkerCollect, Resolve
<1>11. ASSUME NEW e \in Externals, FinishCheck(e) PROVE Fewer
  BY <1>11 DEF FinishCheck, Retire, Persist
<1>12. ASSUME NEW e \in Externals, FinishWrite(e) PROVE Fewer
  BY <1>12 DEF FinishWrite, Retire, Persist
<1>13. ASSUME NEW e \in Externals, StopQueued(e) PROVE Fewer
  BY <1>13 DEF StopQueued, Persist
<1>14. ASSUME NEW e \in Externals, StopCheck(e) PROVE Fewer
  BY <1>14 DEF StopCheck
<1>15. ASSUME NEW e \in Externals, StopSignal(e) PROVE Fewer
  BY <1>15 DEF StopSignal, Present, AdapterGone
<1>16. ASSUME NEW e \in Externals, StopDetach(e) PROVE Fewer
  BY <1>16 DEF StopDetach, Persist
<1>17. ASSUME NEW e \in Externals, RecordExternal(e) PROVE Fewer
  BY <1>17 DEF RecordExternal, Persist
<1> HIDE DEF Fewer, More
<1>18. Fewer \/ More
  BY <1>1, <1>2, <1>3, <1>4, <1>5, <1>6, <1>7, <1>7a, <1>8, <1>9, <1>10, <1>11, <1>12,
     <1>13, <1>14, <1>15, <1>16, <1>17
     DEF ExternalNext, Worker, Stop
<1> QED
  BY <1>18 DEF Fewer, More

LEMMA Counted ==
    ASSUME NEW A, NEW B, NEW x, IsFiniteSet(A), B \subseteq A \cup {x}
    PROVE  IsFiniteSet(B) /\ Cardinality(B) <= Cardinality(A) + 1
<1>1. Cardinality(A) \in Nat
  BY FS_CardinalityType
<1>2. /\ IsFiniteSet(A \cup {x})
      /\ Cardinality(A \cup {x}) = IF x \in A THEN Cardinality(A) ELSE Cardinality(A) + 1
  BY FS_AddElement
<1>3. IsFiniteSet(B) /\ Cardinality(B) <= Cardinality(A \cup {x})
  BY <1>2, FS_Subset
<1>4. Cardinality(B) \in Nat
  BY <1>3, FS_CardinalityType
<1> QED
  BY <1>1, <1>2, <1>3, <1>4

LEMMA FiniteTables ==
    /\ IsFiniteSet(RunningTerminals) /\ IsFiniteSet(Claimed)
    /\ IsFiniteSet(Running) /\ IsFiniteSet(ActiveJobs)
<1>1. IsFiniteSet(Jobs)
  BY JobsAssumption, FS_Union DEF Jobs
<1>2. /\ RunningTerminals \subseteq Jobs /\ Claimed \subseteq Jobs
      /\ Running \subseteq Jobs /\ ActiveJobs \subseteq Jobs
  BY DEF RunningTerminals, Claimed, Running, ActiveJobs, Jobs
<1> QED
  BY <1>1, <1>2, FS_Subset

LEMMA BoundStep ==
    ASSUME SharedInv, BoundInv, [ManagerNext]_managerVars PROVE BoundInv'
<1> USE MaxJobsAssumption
<1>0. /\ Cardinality(RunningTerminals) \in Nat /\ Cardinality(Claimed) \in Nat
      /\ Cardinality(Running) \in Nat /\ Cardinality(ActiveJobs) \in Nat
  BY FiniteTables, FS_CardinalityType
<1>1. CASE TerminalStep
  <2>1. T!ServiceNext /\ UNCHANGED extVars
    BY <1>1 DEF TerminalStep
  <2>2. Claimed' = Claimed
    <3>1. T!TypeOK
      BY DEF SharedInv, TInv
    <3>2. \A e \in Externals : RowKept(e)
      BY <2>1, <3>1, TerminalFrame
    <3> QED
      BY <2>1, <3>2 DEF RowKept, Claimed, extVars
  <2>3. NeverQueued
    BY DEF BoundInv
  <2>4. NeverQueued' /\ Cardinality(RunningTerminals') <= MaxJobs
    <3>1. CASE RunningTerminals' \subseteq RunningTerminals
      <4>1. Cardinality(RunningTerminals') <= Cardinality(RunningTerminals)
        BY <3>1, FiniteTables, FS_Subset
      <4>2. IsFiniteSet(RunningTerminals')
        BY <3>1, FiniteTables, FS_Subset
      <4> QED
        BY <1>0, <2>1, <2>3, <4>1, <4>2, TerminalsAdmitted, FS_CardinalityType DEF BoundInv
    <3>2. ASSUME Cardinality(Running) < MaxJobs, NEW t \in Terminals,
                 RunningTerminals' \subseteq RunningTerminals \cup {t}
          PROVE  Cardinality(RunningTerminals') <= MaxJobs
      <4>1. RunningTerminals \subseteq Running
        BY DEF RunningTerminals, Running, Jobs
      <4>2. Cardinality(RunningTerminals) <= Cardinality(Running)
        BY <4>1, FiniteTables, FS_Subset
      <4>3. /\ IsFiniteSet(RunningTerminals')
            /\ Cardinality(RunningTerminals') <= Cardinality(RunningTerminals) + 1
        BY <3>2, FiniteTables, Counted
      <4> QED
        BY <1>0, <3>2, <4>2, <4>3, FS_CardinalityType
    <3> QED
      BY <2>1, <2>3, <3>1, <3>2, TerminalsAdmitted
  <2> QED
    BY <2>2, <2>4 DEF BoundInv
<1>2. CASE ExternalStep
  <2>1. ExternalNext /\ UNCHANGED termVars
    BY <1>2 DEF ExternalStep
  <2>2. NeverQueued' /\ RunningTerminals' = RunningTerminals
    <3>1. TypeOK /\ \A e \in Externals : JobInv(e)
      BY DEF SharedInv, IInv
    <3>2. \A t \in Terminals : RowKept(t)
      BY <2>1, <3>1, ExternalFrame
    <3> QED
      BY <3>2 DEF RowKept, RunningTerminals, NeverQueued, BoundInv
  <2>3. Cardinality(Claimed') <= MaxJobs + 1
    <3>1. CASE Claimed' \subseteq Claimed
      <4>1. IsFiniteSet(Claimed') /\ Cardinality(Claimed') <= Cardinality(Claimed)
        BY <3>1, FiniteTables, FS_Subset
      <4> QED
        BY <1>0, <4>1, FS_CardinalityType DEF BoundInv
    <3>2. ASSUME Claimed \subseteq ActiveJobs, Cardinality(ActiveJobs) < MaxJobs + 1,
                 NEW e \in Externals, Claimed' \subseteq Claimed \cup {e}
          PROVE  Cardinality(Claimed') <= MaxJobs + 1
      <4>1. Cardinality(Claimed) <= Cardinality(ActiveJobs)
        BY <3>2, FiniteTables, FS_Subset
      <4>2. IsFiniteSet(Claimed') /\ Cardinality(Claimed') <= Cardinality(Claimed) + 1
        BY <3>2, FiniteTables, Counted
      <4> QED
        BY <1>0, <3>2, <4>1, <4>2, FS_CardinalityType
    <3> QED
      BY <2>1, <3>1, <3>2, ExternalsAdmitted
  <2> QED
    BY <2>2, <2>3 DEF BoundInv
<1>3. ASSUME NeverQueued', RunningTerminals' \subseteq RunningTerminals, Claimed' \subseteq Claimed
      PROVE  BoundInv'
  <2>1. /\ IsFiniteSet(Claimed') /\ Cardinality(Claimed') <= Cardinality(Claimed)
        /\ IsFiniteSet(RunningTerminals')
        /\ Cardinality(RunningTerminals') <= Cardinality(RunningTerminals)
    BY <1>3, FiniteTables, FS_Subset
  <2> QED
    BY <1>0, <1>3, <2>1, FS_CardinalityType DEF BoundInv
<1>4. CASE ManagerExit
  <2>1. UNCHANGED <<status, disk>> /\ worker' = [e \in Externals |-> "none"]
    BY <1>4 DEF ManagerExit, Exit
  <2>2. NeverQueued' /\ RunningTerminals' = RunningTerminals /\ Claimed' \subseteq Claimed
    BY <2>1 DEF BoundInv, NeverQueued, RunningTerminals, Claimed
  <2> QED
    BY <1>3, <2>2
<1>5. CASE ManagerRestart
  <2>1. /\ status' = [j \in Jobs |-> Reconciled(j)] /\ disk' \in {disk, status'}
        /\ UNCHANGED <<lock, worker>>
    BY <1>5 DEF ManagerRestart, Restart, LoadMetadata, Persist, extVars
  <2>2. \A t \in Terminals : Reconciled(t) \notin Active
    BY DEF Reconciled, BoundInv, NeverQueued, Active
  <2>3. \A e \in Externals : Reconciled(e) \notin Active
    BY JobsAssumption DEF Reconciled, Active
  <2>4. NeverQueued' /\ RunningTerminals' \subseteq RunningTerminals
    BY <2>1, <2>2 DEF NeverQueued, RunningTerminals, BoundInv, Jobs, Active
  <2>5. Claimed' \subseteq Claimed
    BY <2>1, <2>3 DEF Claimed, Jobs
  <2> QED
    BY <1>3, <2>4, <2>5
<1>6. CASE UNCHANGED managerVars
  <2>1. NeverQueued' /\ RunningTerminals' = RunningTerminals /\ Claimed' = Claimed
    BY <1>6 DEF managerVars, vars, tableVars, extVars, BoundInv, NeverQueued, RunningTerminals,
                Claimed
  <2> QED
    BY <1>3, <2>1
<1> QED
  BY <1>1, <1>2, <1>4, <1>5, <1>6 DEF ManagerNext

(* The two limits that share the table admit 2 * max_concurrent_jobs + 1   *)
(* active jobs at most, for every limit and every set of jobs.             *)
THEOREM ThmActiveBound == ManagerSpec => []ActiveBound
<1>1. ManagerInit => BoundInv
  <2> SUFFICES ASSUME ManagerInit PROVE BoundInv
    OBVIOUS
  <2>1. \A j \in Jobs : status[j] = "absent" /\ disk[j] = "absent"
    BY DEF ManagerInit, T!Init, T!TableInit, T!Jobs, Jobs
  <2>2. \A e \in Externals : worker[e] = "none"
    BY DEF ManagerInit, ExternalInit
  <2>3. NeverQueued /\ RunningTerminals = {} /\ Claimed = {}
    BY <2>1, <2>2 DEF NeverQueued, RunningTerminals, Claimed, Jobs, Active
  <2> QED
    BY <2>3, FS_EmptySet, MaxJobsAssumption DEF BoundInv
<1>2. BoundInv => ActiveBound
  <2> SUFFICES ASSUME BoundInv PROVE ActiveBound
    OBVIOUS
  <2>1. ActiveJobs \subseteq RunningTerminals \cup Claimed
    BY DEF BoundInv, NeverQueued, ActiveJobs, RunningTerminals, Claimed, Jobs, Active
  <2>2. RunningTerminals \cap Claimed = {}
    BY JobsAssumption DEF RunningTerminals, Claimed
  <2>3. /\ IsFiniteSet(RunningTerminals \cup Claimed)
        /\ Cardinality(RunningTerminals \cup Claimed)
              = Cardinality(RunningTerminals) + Cardinality(Claimed) - 0
    BY <2>2, FiniteTables, FS_Union, FS_EmptySet
  <2>4. Cardinality(ActiveJobs) <= Cardinality(RunningTerminals \cup Claimed)
    BY <2>1, <2>3, FS_Subset
  <2> QED
    BY <2>3, <2>4, FiniteTables, FS_CardinalityType, MaxJobsAssumption DEF BoundInv, ActiveBound
<1>3. SharedInv /\ BoundInv /\ [ManagerNext]_managerVars => BoundInv'
  BY BoundStep
<1> QED
  BY <1>1, <1>2, <1>3, SharedInvariance, PTL DEF ManagerSpec
=============================================================================
