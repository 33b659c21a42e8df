--------------------------- MODULE ProcessManager ---------------------------
(***************************************************************************)
(* The whole job manager of processes.py: terminal and upstream jobs in    *)
(* one table, behind one lock, in one document, under one service process. *)
(* The components meet in three places: the running count that admits a    *)
(* terminal job and the active count that admits an upstream one; the      *)
(* document, which every _persist writes in full, the unlocked one of      *)
(* stop_control included; and the process that takes both down.            *)
(***************************************************************************)
EXTENDS ExternalJobs

CONSTANTS Fenced, Related, Requester

VARIABLES phase, proc, grant, held, stopped, timedOut, stopping, recovery,
          doomed

termVars == <<phase, proc, grant, held, stopped, timedOut, stopping,
              recovery, doomed>>
managerVars == <<vars, termVars>>

(* The terminal jobs, over the same table.                                 *)
T == INSTANCE TerminalJobs

ManagerInit == T!Init /\ ExternalInit

(* A step of a terminal job, of a recovery or of cleanup.                  *)
TerminalStep == T!ServiceNext /\ UNCHANGED extVars

(* A step of an upstream job.                                              *)
ExternalStep == ExternalNext /\ UNCHANGED termVars

(* The service process dies with all of its threads, after cleanup or at   *)
(* any other moment.  The tail of cleanup, which cancels upstream jobs,    *)
(* finds none: an orderly exit of the interpreter joins the executor's     *)
(* workers before it runs the atexit callbacks.                            *)
ManagerExit == T!Exit /\ Exit

(* The next service process loads the document.                            *)
ManagerRestart == Restart /\ UNCHANGED termVars

ManagerNext == TerminalStep \/ ExternalStep \/ ManagerExit \/ ManagerRestart

ManagerSpec == ManagerInit /\ [][ManagerNext]_managerVars

-----------------------------------------------------------------------------
(* What each kind of job relies on survives the other kind, in one table   *)
(* and one document, although stop_control writes it without the lock and  *)
(* any _persist may raise: a live sandbox process is on record, a grant    *)
(* that works has someone to revoke it, an adapter process still at its    *)
(* operation is supervised by its worker, and an upstream status tells who *)
(* owns the job.                                                           *)
SharedTable ==
    /\ T!TypeOK /\ T!LiveIsRecorded /\ T!GrantHasOwner
    /\ TypeOK /\ AdapterSupervised /\ StatusTellsOwnership

(* start() admits a job by the running ones, submit_external by the active *)
(* ones, and neither limit is one on all jobs: together they admit         *)
(* 2 * max_concurrent_jobs + 1 active jobs, whatever stop_control and a    *)
(* _persist that raises do to the rows that are counted.                   *)
ActiveBound == Cardinality(ActiveJobs) <= 2 * MaxJobs + 1
=============================================================================
