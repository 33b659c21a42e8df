------------------------------ MODULE JobTable ------------------------------
(***************************************************************************)
(* The state that every job of ProcessManager (processes.py) shares: the   *)
(* in-memory job table `_jobs` with its statuses, the job-state document   *)
(* `_persist` writes, the re-entrant lock `_lock`, and the life of the     *)
(* service process itself.  TerminalJobs and ExternalJobs add the two      *)
(* kinds of job; ProcessManager puts them together.                        *)
(*                                                                         *)
(* A job is an identity that is used once: job ids are random tokens.  The *)
(* document's location (primary file, or the tmpfs fallback on ENOSPC) is  *)
(* abstracted to "the rows that the next start will read", and a call of   *)
(* `_persist` to its outcome: the rows were replaced, or it raised and the *)
(* old rows are still there (the write is mkstemp + fsync + os.replace).   *)
(***************************************************************************)
EXTENDS Naturals, FiniteSets

CONSTANTS Terminals,        \* identities of terminal jobs ("term-...")
          Externals,        \* identities of upstream jobs ("ctrl-...")
          MaxJobs,          \* config.max_concurrent_jobs
          PersistOutcomes   \* what a call of _persist may do here
ASSUME JobsAssumption ==
    /\ IsFiniteSet(Terminals) /\ IsFiniteSet(Externals)
    /\ Terminals \cap Externals = {}
ASSUME MaxJobsAssumption == MaxJobs \in Nat \ {0}
ASSUME PersistAssumption == PersistOutcomes \subseteq {"saved", "raised"}

VARIABLES status,   \* _jobs[j].status, "absent" when j is not in _jobs
          disk,     \* the status in j's persisted row, "absent" when none
          lock,     \* holder of _lock when it is held across steps
          mode      \* the service process: "up"; "closing" and "closed", the
                    \* two halves of the atexit cleanup; "down"

tableVars == <<status, disk, lock, mode>>

Jobs == Terminals \cup Externals
Free == "free"
ASSUME FreeAssumption == Free \notin Jobs

Active == {"running", "queued"}
Final == {"completed", "failed", "timed_out", "stopped", "orphaned",
          "upstream_detached"}
Statuses == Active \cup Final \cup {"absent"}

TableTypeOK ==
    /\ status \in [Jobs -> Statuses]
    /\ disk \in [Jobs -> Statuses]
    /\ lock \in Jobs \cup {Free}
    /\ mode \in {"up", "closing", "closed", "down"}

TableInit ==
    /\ status = [j \in Jobs |-> "absent"]
    /\ disk = [j \in Jobs |-> "absent"]
    /\ lock = Free
    /\ mode = "up"

Alive == mode # "down"
LockFree == Alive /\ lock = Free

(* sum(job.status == "running" for job in self._jobs.values()): jobs of    *)
(* both kinds, queued ones not counted.                                    *)
Running == {j \in Jobs : status[j] = "running"}

(* _persist with the table holding `table`: every row is written at once,  *)
(* or nothing is.                                                          *)
Persist(table, outcome) ==
    disk' = IF outcome = "saved" THEN table ELSE disk

(* A slip: an incomplete row becomes "unknown", the default of a row that  *)
(* has no status at all.                                                   *)
ReconciledUnknown(j) == IF disk[j] \in Active THEN "unknown" ELSE disk[j]

(* A slip: every terminal row of the previous process is orphaned.         *)
ReconciledAll(j) ==
    IF disk[j] # "absent" /\ j \in Terminals THEN "orphaned" ELSE disk[j]

(* What _load_metadata makes of a row of the previous process.             *)
Reconciled(j) ==
    IF disk[j] = "running" /\ j \in Terminals THEN "orphaned"
    ELSE IF disk[j] \in Active /\ j \in Externals THEN "upstream_detached"
    ELSE disk[j]

(* ProcessManager.__init__ of the next process: the table is rebuilt from  *)
(* the document, and written back when some row was reconciled.  If that   *)
(* write raises, construction fails and the service is down again.         *)
LoadMetadata ==
    LET loaded == [j \in Jobs |-> Reconciled(j)] IN
    /\ mode = "down"
    /\ status' = loaded
    /\ \/ loaded = disk /\ mode' = "up" /\ UNCHANGED disk
       \/ /\ loaded # disk
          /\ \E outcome \in PersistOutcomes :
                /\ Persist(loaded, outcome)
                /\ mode' = IF outcome = "saved" THEN "up" ELSE "down"
    /\ UNCHANGED lock
=============================================================================
