-------------------------- MODULE ExperimentSharing --------------------------
(***************************************************************************)
(* What the experiments of one store share (experiments.py): the models    *)
(* that workers keep resident for them, which an experiment prepares when  *)
(* it starts and releases when it has ended; and each document, which the  *)
(* coordinator saves as a whole while clients attach references to it and  *)
(* publish it.  ExperimentCoordinator has the turns in between.            *)
(***************************************************************************)
EXTENDS Naturals, Sequences, SequencesExt

CONSTANTS Exps, Models,
          Uses,       \* [Exps -> the models of its actors]
          Warm,       \* models that were resident before any experiment
          Refs,       \* producer references that clients attach
          Publishers, \* calls of publish
          Publishes,  \* [Publishers -> the experiment]
          Faults,     \* "prepare", "release", "delivery" may fail
          MaxCrashes

ASSUME SharingAssumption ==
    /\ Uses \in [Exps -> SUBSET Models] /\ Warm \subseteq Models
    /\ Publishes \in [Publishers -> Exps] /\ MaxCrashes \in Nat

VARIABLES doc,       \* state.json of each experiment
          pc,        \* its coordinator
          copy,      \* the coordinator's copy of the document
          resident,  \* models that are loaded
          at, record,   \* publishers
          delivered, \* records that Commons took
          crashes

coordinators == <<pc, copy>>
publishers == <<at, record>>
vars == <<doc, coordinators, resident, publishers, delivered, crashes>>

(* A lease, on record for each model of the experiment, says whether the   *)
(* experiment's preparation loaded it.                                     *)
NoLeases == [m \in Models |-> "none"]
Lease == {"none", "managed", "unmanaged"}

(* A record is known by its revision, its references, and the digest of    *)
(* its predecessor: by the references of all revisions up to its own.      *)
Unpublished == <<>>

Document == [ended : BOOLEAN,
             residency : {"none", "PREPARED", "FAILED", "RELEASED", "DEGRADED"},
             leases : [Models -> Lease], refs : SUBSET Refs, receipt : Seq(SUBSET Refs)]

TypeOK ==
    /\ \A e \in Exps : doc[e] \in Document /\ copy[e] \in Document
    /\ pc \in [Exps -> {"start", "prepared", "running", "ended", "torn down", "done", "down"}]
    /\ resident \subseteq Models
    /\ at \in [Publishers -> {"idle", "delivering", "retaining", "done"}]
    /\ \A w \in Publishers : record[w] \in Seq(SUBSET Refs)
    /\ crashes \in 0..MaxCrashes

Accepted == [ended |-> FALSE, residency |-> "none", leases |-> NoLeases, refs |-> {},
             receipt |-> Unpublished]

Init ==
    /\ doc = [e \in Exps |-> Accepted] /\ copy = doc
    /\ pc = [e \in Exps |-> "start"]
    /\ resident = Warm
    /\ at = [w \in Publishers |-> "idle"]
    /\ record = [w \in Publishers |-> Unpublished]
    /\ delivered = [e \in Exps |-> {}] /\ crashes = 0

Go(e, from, to) == pc[e] = from /\ pc' = [pc EXCEPT ![e] = to]

(* A slip: the coordinator's copy is written as it is.                     *)
MergedNothing(e, state) == state

(* _save, under state.lock: references of both copies are kept, and what   *)
(* the coordinator does not own is taken from the document.                *)
Merged(e, state) ==
    [state EXCEPT !.refs = @ \cup doc[e].refs,
                  !.receipt = IF doc[e].receipt # Unpublished THEN doc[e].receipt ELSE @]

Save(e, state) ==
    /\ doc' = [doc EXCEPT ![e] = Merged(e, state)]
    /\ copy' = [copy EXCEPT ![e] = Merged(e, state)]

-----------------------------------------------------------------------------
(* Residency.                                                              *)

(* A slip: another experiment's lease counts, managed or not.              *)
SharedLeaseManaged(e, m) ==
    \E f \in Exps \ {e} : ~doc[f].ended /\ doc[f].leases[m] # "none"

(* _active_residency_leases: what the documents of the other experiments   *)
(* that have not ended say.                                                *)
ActiveLease(e, m) == \E f \in Exps \ {e} : ~doc[f].ended /\ doc[f].leases[m] # "none"
ActiveManaged(e, m) == \E f \in Exps \ {e} : ~doc[f].ended /\ doc[f].leases[m] = "managed"

(* Harness loads a model that is not resident, and then manages it; a      *)
(* lease it is shown again keeps its say.                                  *)
Granted(e, m) ==
    IF m \notin Uses[e] THEN "none"
    ELSE IF \/ m \notin resident
            \/ doc[e].residency = "PREPARED" /\ doc[e].leases[m] = "managed"
            \/ ActiveManaged(e, m)
    THEN "managed" ELSE "unmanaged"

(* _prepare_residency, under residency.lock; the outcome is in the copy    *)
(* when the lock is given up.                                              *)
Prepare(e) ==
    /\ Go(e, "start", "prepared")
    /\ \/ /\ copy' = [copy EXCEPT ![e] = [doc[e] EXCEPT
                !.residency = "PREPARED", !.leases = [m \in Models |-> Granted(e, m)]]]
          /\ resident' = resident \cup Uses[e]
       \/ /\ "prepare" \in Faults
          /\ copy' = [copy EXCEPT ![e] = [doc[e] EXCEPT
                !.residency = "FAILED", !.leases = NoLeases]]
          /\ UNCHANGED resident
    /\ UNCHANGED <<doc, publishers, delivered, crashes>>

(* ... and saved after that.                                               *)
SavePrepared(e) ==
    /\ Go(e, "prepared", IF copy[e].residency = "PREPARED" THEN "running" ELSE "ended")
    /\ Save(e, [copy[e] EXCEPT !.ended = copy[e].residency = "FAILED"])
    /\ UNCHANGED <<resident, publishers, delivered, crashes>>

(* The turns; the document is saved with its terminal state.               *)
End(e) ==
    /\ Go(e, "running", "ended")
    /\ Save(e, [copy[e] EXCEPT !.ended = TRUE])
    /\ UNCHANGED <<resident, publishers, delivered, crashes>>

Releasable(e) == {m \in Models : copy[e].leases[m] # "none" /\ ~ActiveLease(e, m)}

(* _teardown_residency, under residency.lock: leases that no other active  *)
(* experiment has on record go to Harness, which unloads what it manages.  *)
Teardown(e) ==
    /\ Go(e, "ended", "torn down")
    /\ \/ /\ resident' = resident \ {m \in Releasable(e) : copy[e].leases[m] = "managed"}
          /\ copy' = [copy EXCEPT ![e].residency = "RELEASED"]
       \/ /\ "release" \in Faults /\ Releasable(e) # {}
          /\ copy' = [copy EXCEPT ![e].residency = "DEGRADED"]
          /\ UNCHANGED resident
    /\ UNCHANGED <<doc, publishers, delivered, crashes>>

SaveTeardown(e) ==
    /\ Go(e, "torn down", "done")
    /\ Save(e, copy[e])
    /\ UNCHANGED <<resident, publishers, delivered, crashes>>

-----------------------------------------------------------------------------
(* References and publication.                                             *)

(* attach_reference changes the document under state.lock.                 *)
Attach(e, r) ==
    /\ r \notin doc[e].refs
    /\ doc' = [doc EXCEPT ![e].refs = @ \cup {r}]
    /\ UNCHANGED <<coordinators, resident, publishers, delivered, crashes>>

(* publish: a terminal document is read; when its receipt is for what it   *)
(* says now, the receipt is the answer, else the next revision is made.    *)
Publish(w) ==
    LET state == doc[Publishes[w]] IN
    /\ at[w] = "idle" /\ state.ended
    /\ IF state.receipt # Unpublished /\ Last(state.receipt) = state.refs
       THEN at' = [at EXCEPT ![w] = "done"] /\ UNCHANGED record
       ELSE /\ at' = [at EXCEPT ![w] = "delivering"]
            /\ record' = [record EXCEPT ![w] = Append(state.receipt, state.refs)]
    /\ UNCHANGED <<doc, coordinators, resident, delivered, crashes>>

(* A slip: a delivery that failed leaves a receipt.                        *)
DeliverAnyway(w) ==
    /\ at[w] = "delivering" /\ at' = [at EXCEPT ![w] = "retaining"]
    /\ \/ delivered' = [delivered EXCEPT ![Publishes[w]] = @ \cup {record[w]}]
       \/ "delivery" \in Faults /\ UNCHANGED delivered
    /\ UNCHANGED <<doc, coordinators, resident, record, crashes>>

(* The Commons operator takes the record, or the call raises.              *)
Deliver(w) ==
    /\ at[w] = "delivering"
    /\ \/ /\ at' = [at EXCEPT ![w] = "retaining"]
          /\ delivered' = [delivered EXCEPT ![Publishes[w]] = @ \cup {record[w]}]
       \/ /\ "delivery" \in Faults
          /\ at' = [at EXCEPT ![w] = "done"] /\ UNCHANGED delivered
    /\ UNCHANGED <<doc, coordinators, resident, record, crashes>>

(* The receipt enters the document as it is by then, under state.lock.     *)
Retain(w) ==
    /\ at[w] = "retaining" /\ at' = [at EXCEPT ![w] = "done"]
    /\ doc' = [doc EXCEPT ![Publishes[w]].receipt = record[w]]
    /\ UNCHANGED <<coordinators, resident, record, delivered, crashes>>

-----------------------------------------------------------------------------
(* The service dies with its threads.                                      *)
Crash ==
    /\ crashes < MaxCrashes /\ crashes' = crashes + 1
    /\ pc' = [e \in Exps |-> "down"]
    /\ at' = [w \in Publishers |-> IF at[w] = "idle" THEN "idle" ELSE "done"]
    /\ UNCHANGED <<doc, copy, resident, record, delivered>>

(* resume_unfinished: what has not ended is run again, from its            *)
(* preparation on; what is not torn down is torn down.                     *)
Resume(e) ==
    /\ Go(e, "down", IF ~doc[e].ended THEN "start"
                     ELSE IF doc[e].residency = "RELEASED" THEN "done" ELSE "ended")
    /\ copy' = [copy EXCEPT ![e] = doc[e]]
    /\ UNCHANGED <<doc, resident, publishers, delivered, crashes>>

Coordinate(e) == \/ Prepare(e) \/ SavePrepared(e) \/ End(e) \/ Teardown(e)
                 \/ SaveTeardown(e) \/ Resume(e)

Next == \/ \E e \in Exps : Coordinate(e) \/ \E r \in Refs : Attach(e, r)
        \/ \E w \in Publishers : Publish(w) \/ Deliver(w) \/ Retain(w)
        \/ Crash

Spec == Init /\ [][Next]_vars

-----------------------------------------------------------------------------
(* "A model already warm before preparation is unmanaged and is not        *)
(* unloaded", however many experiments used it in whatever order; and the  *)
(* state has its types.                                                    *)
WarmModelIsKept == TypeOK /\ Warm \subseteq resident

(* Each revision that was delivered is linked to one that was delivered    *)
(* before it, also when publishers meet or die.                            *)
RevisionsAreLinked ==
    \A e \in Exps : \A s \in delivered[e] :
        Len(s) > 1 => Front(s) \in delivered[e]

(* A reference that was attached is never lost, and a receipt at most      *)
(* replaced, although the coordinator saves its own copy as a whole.       *)
EvidenceIsKept ==
    [][\A e \in Exps : /\ doc[e].refs \subseteq doc'[e].refs
                       /\ doc[e].receipt # Unpublished => doc'[e].receipt # Unpublished]_vars
=============================================================================
