---------------------------- MODULE ExternalJobs ----------------------------
(***************************************************************************)
(* Upstream jobs of ProcessManager (processes.py): submit_external, the    *)
(* executor worker that supervises an adapter process, the done-callback   *)
(* _finish_external, stop_control, and the service process's restart.      *)
(*                                                                         *)
(* Three threads meet on one job: the caller of submit_external, which     *)
(* attaches the callback last; an executor worker; and callers of          *)
(* stop_control, which take no lock.                                       *)
(***************************************************************************)
EXTENDS JobTable

VARIABLES caller,    \* submit_external: "new", "submitted", "attached",
                     \* "raised", "recorded", "gone"
          future,    \* the executor's future: "none", "pending", "running",
                     \* "cancelled", "done"
          outcome,   \* the result of a future that is done
          worker,    \* the worker's place in _run_external_supervised: "none",
                     \* "taken", "entered", "checked", "started", "ended"
          adapter,   \* the forked adapter process: "none"; "live", at its
                     \* operation; "answered", with its payload in the pipe
                     \* and the process still there; "exited", gone after
                     \* that; "lost", gone without a payload
          cancel,    \* jobs whose cancellation event is set
          finished,  \* jobs whose done-callback has run
          stopper    \* a stop_control call: "idle", "checked", "signalled"

extVars == <<caller, future, outcome, worker, adapter, cancel, finished,
             stopper>>
vars == <<tableVars, extVars>>

Outcomes == {"completed", "failed", "timed_out", "stopped", "upstream_detached"}

TypeOK ==
    /\ TableTypeOK
    /\ caller \in [Externals -> {"new", "submitted", "attached", "raised",
                            "recorded", "gone"}]
    /\ future \in [Externals -> {"none", "pending", "running", "cancelled", "done"}]
    /\ outcome \in [Externals -> Outcomes \cup {"none"}]
    /\ worker \in [Externals -> {"none", "taken", "entered", "checked", "started",
                            "ended"}]
    /\ adapter \in [Externals -> {"none", "live", "answered", "exited", "lost"}]
    /\ cancel \subseteq Externals /\ finished \subseteq Externals
    /\ stopper \in [Externals -> {"idle", "checked", "signalled"}]

ExternalInit ==
    /\ caller = [e \in Externals |-> "new"]
    /\ future = [e \in Externals |-> "none"]
    /\ outcome = [e \in Externals |-> "none"]
    /\ worker = [e \in Externals |-> "none"]
    /\ adapter = [e \in Externals |-> "none"]
    /\ cancel = {} /\ finished = {}
    /\ stopper = [e \in Externals |-> "idle"]

Init == TableInit /\ ExternalInit

ActiveJobs == {j \in Jobs : status[j] \in Active}
Busy == {e \in Externals : future[e] = "running"}

(* future.set_result / set_exception at the end of the worker's call.      *)
Resolve(e, result) ==
    /\ future' = [future EXCEPT ![e] = "done"]
    /\ outcome' = [outcome EXCEPT ![e] = result]
    /\ worker' = [worker EXCEPT ![e] = "ended"]

(* The adapter process is there, and what is left when it is gone: a       *)
(* payload that is in the pipe stays readable.                             *)
Present(e) == adapter[e] \in {"live", "answered"}
AdapterGone(e) ==
    adapter' = [adapter EXCEPT ![e] =
                   CASE @ = "live" -> "lost" [] @ = "answered" -> "exited" [] OTHER -> @]

-----------------------------------------------------------------------------

(* One more job than there are workers may be active, so that one can wait *)
(* in the queue.                                                           *)
Room == Cardinality(ActiveJobs) < MaxJobs + 1

(* The locked section of submit_external.  When the first _persist raises, *)
(* the row and the future are already in place and stay there.             *)
Submit(e) ==
    /\ LockFree
    /\ caller[e] = "new"
    /\ Room
    /\ status' = [status EXCEPT ![e] = "queued"]
    /\ future' = [future EXCEPT ![e] = "pending"]
    /\ \E result \in PersistOutcomes :
          /\ Persist(status', result)
          /\ caller' = [caller EXCEPT
                          ![e] = IF result = "saved" THEN "submitted" ELSE "raised"]
    /\ UNCHANGED <<lock, mode, outcome, worker, adapter, cancel, finished,
                   stopper>>

(* future.add_done_callback, after the lock is released; a future that is  *)
(* already done runs the callback at once, which Finish then does.         *)
Attach(e) ==
    /\ Alive
    /\ caller[e] = "submitted"
    /\ caller' = [caller EXCEPT ![e] = "attached"]
    /\ UNCHANGED <<tableVars, future, outcome, worker, adapter, cancel,
                   finished, stopper>>

-----------------------------------------------------------------------------
(* A slip: a future that was cancelled in the queue is run all the same.   *)
WorkerTakeCancelled(e) ==
    /\ Alive
    /\ future[e] \in {"pending", "cancelled"}
    /\ Cardinality(Busy) < MaxJobs
    /\ future' = [future EXCEPT ![e] = "running"]
    /\ worker' = [worker EXCEPT ![e] = "taken"]
    /\ UNCHANGED <<tableVars, caller, outcome, adapter, cancel, finished, stopper>>

(* A free worker of the pool takes a future that was not cancelled.        *)
WorkerTake(e) ==
    /\ Alive
    /\ future[e] = "pending"
    /\ Cardinality(Busy) < MaxJobs
    /\ future' = [future EXCEPT ![e] = "running"]
    /\ worker' = [worker EXCEPT ![e] = "taken"]
    /\ UNCHANGED <<tableVars, caller, outcome, adapter, cancel, finished, stopper>>

(* The first test of the cancellation event.                               *)
WorkerEnter(e) ==
    /\ Alive
    /\ worker[e] = "taken"
    /\ IF e \in cancel
       THEN Resolve(e, "stopped")
       ELSE worker' = [worker EXCEPT ![e] = "entered"] /\ UNCHANGED <<future, outcome>>
    /\ UNCHANGED <<tableVars, caller, adapter, cancel, finished, stopper>>

(* The adapter process is forked.                                          *)
Fork(e) ==
    /\ worker' = [worker EXCEPT ![e] = "started"]
    /\ adapter' = [adapter EXCEPT ![e] = "live"]

(* The worker's locked section reads the status: only a queued job ...     *)
WorkerCheck(e) ==
    /\ LockFree
    /\ worker[e] = "entered"
    /\ IF status[e] = "queued"
       THEN lock' = e /\ worker' = [worker EXCEPT ![e] = "checked"] /\ UNCHANGED adapter
       ELSE Fork(e) /\ UNCHANGED lock
    /\ UNCHANGED <<status, disk, mode, caller, future, outcome, cancel,
                   finished, stopper>>

(* ... becomes running and is persisted; stop_control, which takes no      *)
(* lock, may have changed it in between.  A _persist that raises fails the *)
(* call before the adapter process is forked.                              *)
WorkerStart(e) ==
    /\ Alive /\ lock = e
    /\ worker[e] = "checked"
    /\ lock' = Free
    /\ status' = [status EXCEPT ![e] = "running"]
    /\ \E saved \in PersistOutcomes :
          /\ Persist(status', saved)
          /\ IF saved = "saved"
             THEN Fork(e) /\ UNCHANGED <<future, outcome>>
             ELSE Resolve(e, "failed") /\ UNCHANGED adapter
    /\ UNCHANGED <<mode, caller, cancel, finished, stopper>>

(* The operation is over and the payload, a result or an error, is sent    *)
(* (_external_operation_entry); the process still has to exit.             *)
AdapterAnswers(e) ==
    /\ adapter[e] = "live"
    /\ adapter' = [adapter EXCEPT ![e] = "answered"]
    /\ UNCHANGED <<tableVars, caller, future, outcome, worker, cancel,
                   finished, stopper>>

(* The adapter process exits or dies by itself, before its answer or after *)
(* it, and perhaps long after it.                                          *)
AdapterEnds(e) ==
    /\ Present(e)
    /\ AdapterGone(e)
    /\ UNCHANGED <<tableVars, caller, future, outcome, worker, cancel,
                   finished, stopper>>

(* A slip: the deadline leaves the adapter process alone.                  *)
WorkerTimeoutNoKill(e) ==
    /\ Alive
    /\ worker[e] = "started" /\ Present(e)
    /\ Resolve(e, "timed_out")
    /\ UNCHANGED <<tableVars, caller, adapter, cancel, finished, stopper>>

(* A slip: only a cancelled job is held to its deadline.                   *)
WorkerTimeoutIfCancelled(e) ==
    e \in cancel /\ WorkerTimeoutNoKill(e)

(* The supervising loop's deadline: an adapter that is still there is      *)
(* terminated, one whose answer has just come included.                    *)
WorkerTimeout(e) ==
    /\ Alive
    /\ worker[e] = "started" /\ Present(e)
    /\ AdapterGone(e)
    /\ Resolve(e, "timed_out")
    /\ UNCHANGED <<tableVars, caller, cancel, finished, stopper>>

(* A slip: the worker gives up on a cancelled job but not on its process.  *)
WorkerCancelledNoKill(e) ==
    /\ Alive
    /\ worker[e] = "started" /\ e \in cancel
    /\ Resolve(e, "upstream_detached")
    /\ UNCHANGED <<tableVars, caller, adapter, cancel, finished, stopper>>

(* The loop sees the cancellation event, which it tests before the pipe.   *)
WorkerCancelled(e) ==
    /\ Alive
    /\ worker[e] = "started" /\ e \in cancel
    /\ AdapterGone(e)
    /\ Resolve(e, "upstream_detached")
    /\ UNCHANGED <<tableVars, caller, cancel, finished, stopper>>

(* The loop reads a payload, or finds the adapter dead without one.  After *)
(* a payload it waits one second for the process and does not look again,  *)
(* so that the process may outlive it; after none it has seen it dead.     *)
(* The event may have been set after it was last tested.                   *)
WorkerCollect(e) ==
    /\ Alive
    /\ worker[e] = "started"
    /\ \/ /\ adapter[e] \in {"answered", "exited"}
          /\ \E result \in {"completed", "failed"} : Resolve(e, result)
       \/ adapter[e] = "lost" /\ Resolve(e, "failed")
    /\ UNCHANGED <<tableVars, caller, adapter, cancel, finished, stopper>>

Worker(e) ==
    \/ WorkerTake(e) \/ WorkerEnter(e) \/ WorkerCheck(e) \/ WorkerStart(e)
    \/ WorkerTimeout(e) \/ WorkerCancelled(e) \/ WorkerCollect(e)

-----------------------------------------------------------------------------
Retire(e) == finished' = finished \cup {e} /\ cancel' = cancel \ {e}

(* _finish_external, once the callback is attached and the future is done. *)
(* Its locked section reads the status: a job that is already settled is   *)
(* left alone ...                                                          *)
FinishCheck(e) ==
    /\ LockFree
    /\ caller[e] = "attached" /\ e \notin finished
    /\ future[e] \in {"cancelled", "done"}
    /\ IF status[e] \in Active
       THEN lock' = e /\ UNCHANGED <<disk, finished, cancel>>
       ELSE /\ Retire(e)
            /\ \E saved \in PersistOutcomes : Persist(status, saved)
            /\ UNCHANGED lock
    /\ UNCHANGED <<status, mode, caller, future, outcome, worker, adapter, stopper>>

(* ... an active one takes the outcome of the future.  A _persist that     *)
(* raises here is swallowed by the executor.                               *)
FinishWrite(e) ==
    /\ Alive /\ lock = e
    /\ worker[e] # "checked"
    /\ lock' = Free
    /\ status' = [status EXCEPT
                    ![e] = IF future[e] = "cancelled" THEN "stopped" ELSE outcome[e]]
    /\ \E saved \in PersistOutcomes : Persist(status', saved)
    /\ Retire(e)
    /\ UNCHANGED <<mode, caller, future, outcome, worker, adapter, stopper>>

-----------------------------------------------------------------------------
(* stop_control, which takes no lock.  A future still in the queue is      *)
(* cancelled and the job is stopped.                                       *)
StopQueued(e) ==
    /\ Alive
    /\ future[e] = "pending" /\ e \notin finished /\ status[e] \in Active
    /\ future' = [future EXCEPT ![e] = "cancelled"]
    /\ status' = [status EXCEPT ![e] = "stopped"]
    /\ \E saved \in PersistOutcomes : Persist(status', saved)
    /\ UNCHANGED <<lock, mode, caller, outcome, worker, adapter, cancel,
                   finished, stopper>>

(* A future that runs or is done cannot be cancelled: the call goes on ... *)
StopCheck(e) ==
    /\ Alive
    /\ stopper[e] = "idle"
    /\ future[e] \in {"running", "done"} /\ e \notin finished
    /\ status[e] \in Active
    /\ stopper' = [stopper EXCEPT ![e] = "checked"]
    /\ UNCHANGED <<tableVars, caller, future, outcome, worker, adapter, cancel,
                   finished>>

(* ... to set the event and terminate the adapter, if they are still       *)
(* registered: the worker registers the process some time after the fork,  *)
(* and the callback takes both out ...                                     *)
StopSignal(e) ==
    /\ Alive
    /\ stopper[e] = "checked"
    /\ stopper' = [stopper EXCEPT ![e] = "signalled"]
    /\ cancel' = IF e \in finished THEN cancel ELSE cancel \cup {e}
    /\ \/ UNCHANGED adapter
       \/ Present(e) /\ AdapterGone(e)
    /\ UNCHANGED <<tableVars, caller, future, outcome, worker, finished>>

(* A slip: a call that could not cancel the job reports it as stopped.     *)
StopDetachAsStopped(e) ==
    /\ Alive
    /\ stopper[e] = "signalled"
    /\ stopper' = [stopper EXCEPT ![e] = "idle"]
    /\ status' = [status EXCEPT ![e] = "stopped"]
    /\ \E saved \in PersistOutcomes : Persist(status', saved)
    /\ UNCHANGED <<lock, mode, caller, future, outcome, worker, adapter, cancel,
                   finished>>

(* ... and to mark the job detached, whatever its status is by now.        *)
StopDetach(e) ==
    /\ Alive
    /\ stopper[e] = "signalled"
    /\ stopper' = [stopper EXCEPT ![e] = "idle"]
    /\ status' = [status EXCEPT ![e] = "upstream_detached"]
    /\ \E saved \in PersistOutcomes : Persist(status', saved)
    /\ UNCHANGED <<lock, mode, caller, future, outcome, worker, adapter, cancel,
                   finished>>

Stop(e) == StopQueued(e) \/ StopCheck(e) \/ StopSignal(e) \/ StopDetach(e)

-----------------------------------------------------------------------------
(* record_external: an upstream execution that is already over gets a row, *)
(* without a future and without a limit.  Both of its callers (server.py)  *)
(* leave the status at its default.                                        *)
RecordExternal(e) ==
    /\ LockFree
    /\ caller[e] = "new"
    /\ caller' = [caller EXCEPT ![e] = "recorded"]
    /\ status' = [status EXCEPT ![e] = "completed"]
    /\ \E saved \in PersistOutcomes : Persist(status', saved)
    /\ UNCHANGED <<lock, mode, future, outcome, worker, adapter, cancel,
                   finished, stopper>>

(* The service process dies; nothing ties an adapter process to it.        *)
Exit ==
    /\ Alive
    /\ mode' = "down" /\ lock' = Free
    /\ caller' = [e \in Externals |-> IF caller[e] = "new" THEN "new" ELSE "gone"]
    /\ future' = [e \in Externals |-> "none"]
    /\ outcome' = [e \in Externals |-> "none"]
    /\ worker' = [e \in Externals |-> "none"]
    /\ stopper' = [e \in Externals |-> "idle"]
    /\ cancel' = {} /\ finished' = {}
    /\ UNCHANGED <<status, disk, adapter>>

(* systemd starts the next process, which loads the document.              *)
Restart == LoadMetadata /\ UNCHANGED extVars

ExternalNext == \E e \in Externals :
    \/ Submit(e) \/ Attach(e) \/ Worker(e) \/ AdapterAnswers(e) \/ AdapterEnds(e)
    \/ FinishCheck(e) \/ FinishWrite(e) \/ Stop(e) \/ RecordExternal(e)

Next == ExternalNext \/ Exit \/ Restart

Spec == Init /\ [][Next]_vars

(* Threads that can go on do, deadlines pass, systemd restarts the service *)
(* (Restart=always).  Nothing obliges a client to submit or stop a job, an *)
(* adapter to end by itself, or the service to crash or stay up.           *)
Fairness ==
    /\ \A e \in Externals :
          /\ WF_vars(Attach(e)) /\ WF_vars(WorkerTake(e)) /\ WF_vars(WorkerEnter(e))
          /\ WF_vars(WorkerCheck(e)) /\ WF_vars(WorkerStart(e))
          /\ WF_vars(WorkerTimeout(e) \/ WorkerCancelled(e) \/ WorkerCollect(e))
          /\ WF_vars(FinishCheck(e)) /\ WF_vars(FinishWrite(e))
          /\ WF_vars(StopSignal(e)) /\ WF_vars(StopDetach(e))
    /\ WF_vars(Restart)
FairSpec == Spec /\ Fairness

-----------------------------------------------------------------------------
(* Properties.                                                             *)

(* An adapter process that is still at its operation is supervised by the  *)
(* worker that forked it, unless the service process died under them: no   *)
(* deadline, stop or late payload leaves work behind that nobody watches.  *)
(* A process that has given its answer is not watched: it may outlive its  *)
(* worker, and hang in its exit.                                           *)
AdapterSupervised ==
    \A e \in Externals : adapter[e] = "live" =>
        worker[e] = "started" \/ caller[e] = "gone"

(* "stopped" is said only of a job whose operation never ran, and          *)
(* "timed_out" only of one whose adapter process was terminated, also when *)
(* stop_control, the worker and the callback meet (docs/SECURITY.md).      *)
StatusTellsOwnership ==
    \A e \in Externals :
        /\ status[e] = "stopped" => adapter[e] = "none"
        /\ status[e] = "timed_out" => adapter[e] \in {"exited", "lost"}

(* Once the callback of a job has run, only a stop_control call that had   *)
(* read it as active before can give its row another status, and only      *)
(* "upstream_detached"; a restart is the one other way.                    *)
SettledOnlyDetached ==
    [][\A e \in finished : status'[e] # status[e] =>
           status'[e] = "upstream_detached" /\ stopper[e] = "signalled"]_vars

(* Every active row is settled in the end: the adapter runs under a real   *)
(* wall-clock deadline (docs/SECURITY.md).  A submission that raised has   *)
(* no callback, and its row may stay active until the service restarts.    *)
ActiveSettles ==
    \A e \in Externals :
        status[e] \in Active ~> status[e] \notin Active \/ caller[e] = "raised"

(* After a stop_control call the operation it found running does not go    *)
(* on: its adapter process is ended, or has given its answer already,      *)
(* unless the service process dies first.                                  *)
StopEndsAdapter ==
    \A e \in Externals :
        stopper[e] = "signalled" ~> adapter[e] # "live" \/ caller[e] = "gone"
=============================================================================
