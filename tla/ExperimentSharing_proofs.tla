----------------------- MODULE ExperimentSharing_proofs ----------------------
(***************************************************************************)
(* The safety of ExperimentSharing for every set of experiments, models,   *)
(* references and publishers.                                              *)
(*                                                                         *)
(* A warm model stays because no document ever says that its lease is      *)
(* managed, and neither does the copy a coordinator holds between its      *)
(* preparation and its saves: WarmInv.  A revision is linked because every *)
(* receipt that a document or a copy can bring back is of a record that    *)
(* was delivered: RevisionInv.                                             *)
(***************************************************************************)
EXTENDS ExperimentSharing, TLAPS

Records == Seq(SUBSET Refs)

Typed ==
    /\ doc \in [Exps -> Document] /\ copy \in [Exps -> Document]
    /\ pc \in [Exps -> {"start", "prepared", "running", "ended", "torn down", "done", "down"}]
    /\ resident \subseteq Models
    /\ at \in [Publishers -> {"idle", "delivering", "retaining", "done"}]
    /\ record \in [Publishers -> Records]
    /\ delivered \in [Exps -> SUBSET Records]
    /\ crashes \in 0..MaxCrashes

WarmInv ==
    /\ Warm \subseteq resident
    /\ \A e \in Exps, m \in Warm : /\ doc[e].leases[m] # "managed"
                                   /\ copy[e].leases[m] # "managed"

(* A receipt that can be retained or saved is of a record that Commons     *)
(* took.                                                                   *)
Taken(e, receipt) == receipt # Unpublished => receipt \in delivered[e]

RevisionInv ==
    /\ \A e \in Exps : Taken(e, doc[e].receipt) /\ Taken(e, copy[e].receipt)
    /\ \A w \in Publishers :
          /\ at[w] = "delivering" => /\ record[w] # Unpublished
                                     /\ Taken(Publishes[w], Front(record[w]))
          /\ at[w] = "retaining" => /\ record[w] # Unpublished
                                    /\ record[w] \in delivered[Publishes[w]]
    /\ RevisionsAreLinked

IInv == Typed /\ WarmInv /\ RevisionInv

-----------------------------------------------------------------------------
(* The next revision is linked to the one it was made from.                *)
LEMMA NextRevision ==
    ASSUME NEW s \in Records, NEW refs \in SUBSET Refs
    PROVE  /\ Append(s, refs) \in Records
           /\ Append(s, refs) # Unpublished
           /\ Front(Append(s, refs)) = s
<1>1. /\ Append(s, refs) \in Seq(SUBSET Refs) /\ Len(Append(s, refs)) = Len(s) + 1
      /\ Len(s) \in Nat
  BY DEF Records
<1>2. SubSeq(Append(s, refs), 1, Len(s)) = s
  BY DEF Records
<1> QED
  BY <1>1, <1>2 DEF Front, Records, Unpublished

LEMMA LaterRevision ==
    ASSUME NEW s \in Records, Len(s) > 1
    PROVE  Front(s) # Unpublished
<1>1. s \in Seq(SUBSET Refs)
  BY DEF Records
<1>2. PICK n \in Nat : n = Len(s)
  BY <1>1
<1>3. n - 1 \in Nat /\ n - 1 \in 1..n
  BY <1>2
<1>4. PICK k \in Nat : k = n - 1 /\ 1 <= k
  BY <1>3
<1>5. Front(s) = SubSeq(s, 1, k)
  BY <1>2, <1>4 DEF Front
<1>6. Len(SubSeq(s, 1, k)) = k
  BY <1>1, <1>2, <1>3, <1>4
<1>7. Len(Unpublished) = 0
  BY DEF Unpublished
<1> QED
  BY <1>4, <1>5, <1>6, <1>7

(* Merged keeps the coordinator's say, both sides' references, and the     *)
(* receipt that the document has.                                          *)
LEMMA Merging ==
    ASSUME Typed, NEW e \in Exps, NEW state \in Document, Save(e, state)
    PROVE  /\ doc' \in [Exps -> Document] /\ copy' \in [Exps -> Document]
           /\ \A f \in Exps \ {e} : doc'[f] = doc[f] /\ copy'[f] = copy[f]
           /\ copy'[e] = doc'[e] /\ doc'[e].leases = state.leases
           /\ doc[e].refs \subseteq doc'[e].refs
           /\ doc'[e].receipt = IF doc[e].receipt # Unpublished THEN doc[e].receipt
                                ELSE state.receipt
<1> DEFINE merged == Merged(e, state)
<1>1. /\ merged \in Document /\ merged.leases = state.leases
      /\ doc[e].refs \subseteq merged.refs
      /\ merged.receipt = IF doc[e].receipt # Unpublished THEN doc[e].receipt
                          ELSE state.receipt
  BY DEF Typed, Document, Merged
<1>2. doc' = [doc EXCEPT ![e] = merged] /\ copy' = [copy EXCEPT ![e] = merged]
  BY DEF Save
<1> HIDE DEF merged
<1> QED
  BY <1>1, <1>2 DEF Typed

(* The outcome of a preparation.                                           *)
LEMMA Prepared ==
    ASSUME NEW d \in Document, NEW l \in [Models -> Lease], NEW r \in {"PREPARED", "FAILED"}
    PROVE  LET made == [d EXCEPT !.residency = r, !.leases = l] IN
           made \in Document /\ made.leases = l /\ made.receipt = d.receipt
  BY DEF Document

(* What a step may make of the leases and of the receipt of an experiment. *)
LeasesFrom(e, d) == \/ d.leases = doc[e].leases \/ d.leases = copy[e].leases
                    \/ d.leases = NoLeases \/ d.leases = [m \in Models |-> Granted(e, m)]

Evolves(e) ==
    /\ LeasesFrom(e, doc'[e]) /\ LeasesFrom(e, copy'[e])
    /\ doc[e].refs \subseteq doc'[e].refs
    /\ \/ doc'[e].receipt = doc[e].receipt
       \/ doc[e].receipt = Unpublished /\ doc'[e].receipt = copy[e].receipt
       \/ \E w \in Publishers : /\ at[w] = "retaining" /\ Publishes[w] = e
                                /\ doc'[e].receipt = record[w]
    /\ copy'[e].receipt \in {doc[e].receipt, copy[e].receipt}

LEMMA DocumentStep ==
    ASSUME Typed, [Next]_vars
    PROVE  /\ doc' \in [Exps -> Document] /\ copy' \in [Exps -> Document]
           /\ \A e \in Exps : Evolves(e)
<1> USE SharingAssumption DEF Evolves, LeasesFrom
<1> DEFINE Docs == /\ doc' \in [Exps -> Document] /\ copy' \in [Exps -> Document]
                   /\ \A e \in Exps : Evolves(e)
<1>1. ASSUME NEW e \in Exps, Prepare(e) PROVE Docs
  <2> DEFINE good == [doc[e] EXCEPT !.residency = "PREPARED",
                                    !.leases = [m \in Models |-> Granted(e, m)]]
             bad == [doc[e] EXCEPT !.residency = "FAILED", !.leases = NoLeases]
  <2>1. [m \in Models |-> Granted(e, m)] \in [Models -> Lease]
    BY DEF Granted, Lease
  <2>2. /\ good \in Document /\ good.leases = [m \in Models |-> Granted(e, m)]
        /\ good.receipt = doc[e].receipt
    <3>1. doc[e] \in Document
      BY DEF Typed
    <3> QED
      BY <2>1, <3>1, Prepared
  <2>3. bad \in Document /\ bad.leases = NoLeases /\ bad.receipt = doc[e].receipt
    <3>1. doc[e] \in Document /\ NoLeases \in [Models -> Lease]
      BY DEF Typed, NoLeases, Lease
    <3> QED
      BY <3>1, Prepared
  <2>4. copy' = [copy EXCEPT ![e] = good] \/ copy' = [copy EXCEPT ![e] = bad]
    BY <1>1 DEF Prepare
  <2>5. UNCHANGED doc
    BY <1>1 DEF Prepare
  <2> HIDE DEF good, bad
  <2> QED
    BY <2>2, <2>3, <2>4, <2>5 DEF Typed
<1>2. ASSUME NEW e \in Exps, SavePrepared(e) \/ End(e) \/ SaveTeardown(e) PROVE Docs
  <2>1. PICK state \in Document : /\ Save(e, state) /\ state.leases = copy[e].leases
                                  /\ state.receipt = copy[e].receipt
    <3>1. copy[e] \in Document
      BY DEF Typed
    <3>2. ASSUME NEW b \in BOOLEAN
          PROVE  /\ [copy[e] EXCEPT !.ended = b] \in Document
                 /\ [copy[e] EXCEPT !.ended = b].leases = copy[e].leases
                 /\ [copy[e] EXCEPT !.ended = b].receipt = copy[e].receipt
      BY <3>1 DEF Document
    <3>3. CASE SavePrepared(e)
      <4>1. Save(e, [copy[e] EXCEPT !.ended = copy[e].residency = "FAILED"])
        BY <3>3 DEF SavePrepared
      <4> DEFINE failed == copy[e].residency = "FAILED"
      <4>2. failed \in BOOLEAN
        OBVIOUS
      <4>3. Save(e, [copy[e] EXCEPT !.ended = failed])
        BY <4>1
      <4> HIDE DEF failed
      <4> QED
        BY <3>2, <4>2, <4>3
    <3>4. CASE End(e)
      <4>1. Save(e, [copy[e] EXCEPT !.ended = TRUE])
        BY <3>4 DEF End
      <4> QED
        BY <3>2, <4>1
    <3>5. CASE SaveTeardown(e)
      BY <3>1, <3>5 DEF SaveTeardown
    <3> QED
      BY <1>2, <3>3, <3>4, <3>5
  <2>2. /\ doc' \in [Exps -> Document] /\ copy' \in [Exps -> Document]
        /\ \A f \in Exps \ {e} : doc'[f] = doc[f] /\ copy'[f] = copy[f]
        /\ copy'[e] = doc'[e] /\ doc'[e].leases = copy[e].leases
        /\ doc[e].refs \subseteq doc'[e].refs
        /\ doc'[e].receipt = IF doc[e].receipt # Unpublished THEN doc[e].receipt
                             ELSE copy[e].receipt
    BY <2>1, Merging
  <2>3. \A f \in Exps \ {e} : Evolves(f)
    BY <2>2
  <2>4. Evolves(e)
    BY <2>2
  <2> QED
    BY <2>2, <2>3, <2>4
<1>3. ASSUME NEW e \in Exps, Teardown(e) PROVE Docs
  <2> DEFINE good == [copy[e] EXCEPT !.residency = "RELEASED"]
             bad == [copy[e] EXCEPT !.residency = "DEGRADED"]
  <2>1. /\ good \in Document /\ bad \in Document
        /\ good.leases = copy[e].leases /\ bad.leases = copy[e].leases
        /\ good.receipt = copy[e].receipt /\ bad.receipt = copy[e].receipt
    <3>1. copy[e] \in Document
      BY DEF Typed
    <3> QED
      BY <3>1 DEF Document
  <2>2. copy' = [copy EXCEPT ![e] = good] \/ copy' = [copy EXCEPT ![e] = bad]
    BY <1>3 DEF Teardown
  <2>3. UNCHANGED doc
    BY <1>3 DEF Teardown
  <2> HIDE DEF good, bad
  <2> QED
    BY <2>1, <2>2, <2>3 DEF Typed
<1>4. ASSUME NEW e \in Exps, Resume(e) PROVE Docs
  BY <1>4 DEF Resume, Typed
<1>5. ASSUME NEW e \in Exps, NEW r \in Refs, Attach(e, r) PROVE Docs
  <2> DEFINE more == [doc[e] EXCEPT !.refs = @ \cup {r}]
  <2>1. /\ more \in Document /\ doc[e].refs \subseteq more.refs
        /\ more.leases = doc[e].leases /\ more.receipt = doc[e].receipt
    <3>1. doc[e] \in Document
      BY DEF Typed
    <3> QED
      BY <3>1 DEF Document
  <2>2. doc' = [doc EXCEPT ![e] = more] /\ UNCHANGED copy
    BY <1>5 DEF Attach, coordinators
  <2> HIDE DEF more
  <2> QED
    BY <2>1, <2>2 DEF Typed
<1>6. ASSUME NEW w \in Publishers, Retain(w) PROVE Docs
  <2> DEFINE e == Publishes[w]
             more == [doc[e] EXCEPT !.receipt = record[w]]
  <2>1. /\ e \in Exps /\ more \in Document /\ more.refs = doc[e].refs
        /\ more.leases = doc[e].leases /\ more.receipt = record[w]
    <3>1. e \in Exps /\ doc[e] \in Document /\ record[w] \in Records
      BY DEF Typed
    <3> QED
      BY <3>1 DEF Document, Records
  <2>2. /\ doc' = [doc EXCEPT ![e] = more] /\ UNCHANGED copy
        /\ at[w] = "retaining"
    BY <1>6 DEF Retain, coordinators
  <2> HIDE DEF more
  <2> QED
    BY <2>1, <2>2 DEF Typed
<1>7. CASE UNCHANGED <<doc, copy>>
  BY <1>7 DEF Typed
<1> QED
  BY <1>1, <1>2, <1>3, <1>4, <1>5, <1>6, <1>7
     DEF Next, Coordinate, Publish, Deliver, Crash, coordinators, vars

(* A record more for one experiment.                                       *)
LEMMA Delivery ==
    ASSUME NEW f \in [Exps -> SUBSET Records], NEW e \in Exps, NEW r \in Records
    PROVE  /\ [f EXCEPT ![e] = @ \cup {r}] \in [Exps -> SUBSET Records]
           /\ [f EXCEPT ![e] = @ \cup {r}][e] = f[e] \cup {r}
           /\ \A d \in Exps \ {e} : [f EXCEPT ![e] = @ \cup {r}][d] = f[d]
  OBVIOUS

LEMMA TypedStep == Typed /\ [Next]_vars => Typed'
<1> SUFFICES ASSUME Typed, [Next]_vars PROVE Typed'
  OBVIOUS
<1> USE SharingAssumption
<1> DEFINE Others ==
             /\ pc \in [Exps -> {"start", "prepared", "running", "ended", "torn down", "done",
                                 "down"}]
             /\ resident \subseteq Models
             /\ at \in [Publishers -> {"idle", "delivering", "retaining", "done"}]
             /\ record \in [Publishers -> Records]
             /\ delivered \in [Exps -> SUBSET Records]
             /\ crashes \in 0..MaxCrashes
<1>1. ASSUME NEW e \in Exps, Coordinate(e) PROVE Others'
  <2> DEFINE Phases == {"start", "prepared", "running", "ended", "torn down", "done", "down"}
             PhaseTyped(f) == f \in [Exps -> Phases]
  <2>0. /\ PhaseTyped(pc)
        /\ resident \subseteq Models /\ Uses[e] \subseteq Models
    BY DEF Typed
  <2>1. ASSUME NEW s \in Phases PROVE PhaseTyped([pc EXCEPT ![e] = s])
    BY <2>0
  <2>2. ASSUME PhaseTyped(pc'), resident' \subseteq Models,
               UNCHANGED <<at, record, delivered, crashes>>
        PROVE  Others'
    BY <2>2 DEF Typed
  <2>3. CASE Prepare(e)
    <3>1. PhaseTyped(pc')
      BY <2>1, <2>3 DEF Prepare, Go
    <3>2. resident' \subseteq Models
      BY <2>0, <2>3 DEF Prepare
    <3> QED
      BY <2>2, <2>3, <3>1, <3>2 DEF Prepare, publishers
  <2>4. CASE SavePrepared(e)
    <3>1. PhaseTyped(pc')
      BY <2>1, <2>4 DEF SavePrepared, Go
    <3> QED
      BY <2>0, <2>2, <2>4, <3>1 DEF SavePrepared, publishers
  <2>5. CASE End(e)
    <3>1. PhaseTyped(pc')
      BY <2>1, <2>5 DEF End, Go
    <3> QED
      BY <2>0, <2>2, <2>5, <3>1 DEF End, publishers
  <2>6. CASE Teardown(e)
    <3>1. PhaseTyped(pc')
      BY <2>1, <2>6 DEF Teardown, Go
    <3>2. resident' \subseteq Models
      BY <2>0, <2>6 DEF Teardown
    <3> QED
      BY <2>2, <2>6, <3>1, <3>2 DEF Teardown, publishers
  <2>7. CASE SaveTeardown(e)
    <3>1. PhaseTyped(pc')
      BY <2>1, <2>7 DEF SaveTeardown, Go
    <3> QED
      BY <2>0, <2>2, <2>7, <3>1 DEF SaveTeardown, publishers
  <2>8. CASE Resume(e)
    <3>1. PhaseTyped(pc')
      BY <2>1, <2>8 DEF Resume, Go
    <3> QED
      BY <2>0, <2>2, <2>8, <3>1 DEF Resume, publishers
  <2> QED
    BY <1>1, <2>3, <2>4, <2>5, <2>6, <2>7, <2>8 DEF Coordinate
<1>2. ASSUME NEW e \in Exps, NEW r \in Refs, Attach(e, r) PROVE Others'
  BY <1>2 DEF Attach, coordinators, publishers, Typed
<1>3. ASSUME NEW w \in Publishers, Publish(w) PROVE Others'
  <2>1. Append(doc[Publishes[w]].receipt, doc[Publishes[w]].refs) \in Records
    <3>1. doc[Publishes[w]] \in Document
      BY DEF Typed
    <3>2. doc[Publishes[w]].receipt \in Records /\ doc[Publishes[w]].refs \in SUBSET Refs
      BY <3>1 DEF Document, Records
    <3> QED
      BY <3>2, NextRevision
  <2>2. record' \in [Publishers -> Records]
    BY <1>3, <2>1 DEF Publish, Typed
  <2> QED
    BY <1>3, <2>2 DEF Publish, coordinators, Typed
<1>4. ASSUME NEW w \in Publishers, Deliver(w) PROVE Others'
  <2>1. Publishes[w] \in Exps /\ record[w] \in Records /\ delivered \in [Exps -> SUBSET Records]
    BY DEF Typed
  <2>2. [delivered EXCEPT ![Publishes[w]] = @ \cup {record[w]}] \in [Exps -> SUBSET Records]
    BY <2>1, Delivery
  <2>3. delivered' \in [Exps -> SUBSET Records]
    BY <1>4, <2>1, <2>2 DEF Deliver
  <2> QED
    BY <1>4, <2>3 DEF Deliver, coordinators, Typed
<1>5. ASSUME NEW w \in Publishers, Retain(w) PROVE Others'
  BY <1>5 DEF Retain, coordinators, Typed
<1>6. ASSUME Crash PROVE Others'
  <2>1. crashes' \in 0..MaxCrashes
    <3>1. crashes \in 0..MaxCrashes /\ MaxCrashes \in Nat
      BY DEF Typed
    <3>2. crashes < MaxCrashes /\ crashes' = crashes + 1
      BY <1>6 DEF Crash
    <3> QED
      BY <3>1, <3>2
  <2>2. UNCHANGED <<resident, record, delivered>>
    BY <1>6 DEF Crash
  <2>3. pc' = [e \in Exps |-> "down"]
    BY <1>6 DEF Crash
  <2>4. at' \in [Publishers -> {"idle", "delivering", "retaining", "done"}]
    BY <1>6 DEF Crash, Typed
  <2>5. pc' \in [Exps -> {"start", "prepared", "running", "ended", "torn down", "done", "down"}]
    BY <2>3
  <2>6. /\ resident' \subseteq Models /\ record' \in [Publishers -> Records]
        /\ delivered' \in [Exps -> SUBSET Records]
    BY <2>2 DEF Typed
  <2> QED
    BY <2>1, <2>4, <2>5, <2>6
<1>7. ASSUME UNCHANGED vars PROVE Others'
  BY <1>7 DEF vars, coordinators, publishers, Typed
<1> HIDE DEF Others
<1>8. Others'
  BY <1>1, <1>2, <1>3, <1>4, <1>5, <1>6, <1>7 DEF Next
<1> QED
  BY <1>8, DocumentStep DEF Typed, Others

(* A model that is resident and whose lease nobody manages is not loaded   *)
(* by a preparation, nor unloaded by a release.                            *)
LEMMA WarmStep == Typed /\ WarmInv /\ [Next]_vars => WarmInv'
<1> SUFFICES ASSUME Typed, WarmInv, [Next]_vars PROVE WarmInv'
  OBVIOUS
<1> USE SharingAssumption DEF WarmInv
<1>1. \A e \in Exps, m \in Warm : Granted(e, m) # "managed"
  BY DEF Granted, ActiveManaged
<1>2. ASSUME NEW e \in Exps, NEW m \in Warm
      PROVE  doc'[e].leases[m] # "managed" /\ copy'[e].leases[m] # "managed"
  <2>1. LeasesFrom(e, doc'[e]) /\ LeasesFrom(e, copy'[e])
    BY DocumentStep DEF Evolves
  <2>2. NoLeases[m] # "managed" /\ [n \in Models |-> Granted(e, n)][m] # "managed"
    BY <1>1 DEF NoLeases
  <2> QED
    BY <2>1, <2>2 DEF LeasesFrom
<1>3. Warm \subseteq resident'
  <2>1. ASSUME NEW e \in Exps, Prepare(e) PROVE resident \subseteq resident'
    BY <2>1 DEF Prepare
  <2>2. ASSUME NEW e \in Exps, Teardown(e) PROVE Warm \subseteq resident'
    BY <2>2 DEF Teardown
  <2>3. CASE UNCHANGED resident
    BY <2>3
  <2> QED
    BY <2>1, <2>2, <2>3
       DEF Next, Coordinate, SavePrepared, End, SaveTeardown, Resume, Attach, Publish, Deliver,
           Retain, Crash, vars
<1> QED
  BY <1>2, <1>3

(* Commons keeps what it took.                                             *)
LEMMA DeliveredStep ==
    ASSUME Typed, [Next]_vars
    PROVE  \A e \in Exps : delivered[e] \subseteq delivered'[e]
<1>1. ASSUME NEW w \in Publishers, Deliver(w)
      PROVE  \A e \in Exps : delivered[e] \subseteq delivered'[e]
  <2>1. Publishes[w] \in Exps /\ record[w] \in Records /\ delivered \in [Exps -> SUBSET Records]
    BY SharingAssumption DEF Typed
  <2> DEFINE e == Publishes[w]
             more == [delivered EXCEPT ![e] = @ \cup {record[w]}]
  <2>2. \A d \in Exps : delivered[d] \subseteq more[d]
    BY <2>1, Delivery
  <2>3. delivered' \in {more, delivered}
    BY <1>1 DEF Deliver
  <2> HIDE DEF more
  <2> QED
    BY <2>2, <2>3
<1>2. CASE UNCHANGED delivered
  BY <1>2
<1> QED
  BY <1>1, <1>2 DEF Next, Coordinate, Prepare, SavePrepared, End, Teardown, SaveTeardown,
                    Resume,
                    Attach, Publish, Retain, Crash, vars

LEMMA RevisionStep == Typed /\ RevisionInv /\ [Next]_vars => RevisionInv'
<1> SUFFICES ASSUME Typed, RevisionInv, [Next]_vars PROVE RevisionInv'
  OBVIOUS
<1> USE SharingAssumption, DeliveredStep DEF Taken
<1> DEFINE Underway(w) ==
             /\ at[w] = "delivering" => /\ record[w] # Unpublished
                                        /\ Taken(Publishes[w], Front(record[w]))
             /\ at[w] = "retaining" => /\ record[w] # Unpublished
                                       /\ record[w] \in delivered[Publishes[w]]
<1>1. \A e \in Exps : Taken(e, doc[e].receipt)' /\ Taken(e, copy[e].receipt)'
  BY DocumentStep DEF Evolves, RevisionInv
<1>2. ASSUME NEW w \in Publishers, Publish(w)
      PROVE  (\A v \in Publishers : Underway(v)') /\ RevisionsAreLinked'
  <2>1. UNCHANGED delivered
    BY <1>2 DEF Publish
  <2>2. \A v \in Publishers \ {w} : at'[v] = at[v] /\ record'[v] = record[v]
    BY <1>2 DEF Publish, Typed
  <2> DEFINE state == doc[Publishes[w]]
             next == Append(state.receipt, state.refs)
  <2>3. next # Unpublished /\ Front(next) = state.receipt
    <3>1. state \in Document
      BY DEF Typed
    <3>2. state.receipt \in Records /\ state.refs \in SUBSET Refs
      BY <3>1 DEF Document, Records
    <3> QED
      BY <3>2, NextRevision
  <2> HIDE DEF next
  <2>4. at'[w] = "done" \/ (at'[w] = "delivering" /\ record'[w] = next)
    <3>1. \/ at' = [at EXCEPT ![w] = "done"]
          \/ at' = [at EXCEPT ![w] = "delivering"] /\ record' = [record EXCEPT ![w] = next]
      BY <1>2 DEF Publish, next
    <3>2. /\ at \in [Publishers -> {"idle", "delivering", "retaining", "done"}]
          /\ record \in [Publishers -> Records]
      BY DEF Typed
    <3> QED
      BY <3>1, <3>2
  <2>5. Underway(w)'
    BY <2>1, <2>3, <2>4 DEF RevisionInv
  <2> QED
    BY <2>1, <2>2, <2>5 DEF RevisionInv, RevisionsAreLinked
<1>3. ASSUME NEW w \in Publishers, Deliver(w)
      PROVE  (\A v \in Publishers : Underway(v)') /\ RevisionsAreLinked'
  <2> DEFINE e == Publishes[w]
  <2>1. \A v \in Publishers \ {w} : at'[v] = at[v] /\ record'[v] = record[v]
    BY <1>3 DEF Deliver, Typed
  <2>2. record'[w] = record[w] /\ record[w] # Unpublished /\ Taken(e, Front(record[w]))
    BY <1>3 DEF Deliver, RevisionInv
  <2>3. \/ at'[w] = "retaining" /\ delivered' = [delivered EXCEPT ![e] = @ \cup {record[w]}]
        \/ at'[w] = "done" /\ UNCHANGED delivered
    BY <1>3 DEF Deliver, Typed
  <2> HIDE DEF e
  <2>6. /\ e \in Exps /\ e = Publishes[w] /\ record[w] \in Records
        /\ delivered \in [Exps -> SUBSET Records]
    BY DEF Typed, e
  <2>7. \/ UNCHANGED delivered
        \/ /\ delivered'[e] = delivered[e] \cup {record[w]}
           /\ \A d \in Exps \ {e} : delivered'[d] = delivered[d]
    BY <2>3, <2>6, Delivery
  <2>8. at'[w] = "retaining" => record[w] \in delivered'[e]
    BY <2>3, <2>6, Delivery
  <2>4. \A v \in Publishers : Underway(v)'
    <3>1. \A v \in Publishers \ {w} : Underway(v)'
      BY <2>1 DEF RevisionInv
    <3>2. Underway(w)'
      BY <2>2, <2>3, <2>6, <2>8
    <3> QED
      BY <3>1, <3>2
  <2>5. Len(record[w]) > 1 => Front(record[w]) # Unpublished
    BY <2>6, LaterRevision
  <2>9. RevisionsAreLinked'
    <3> SUFFICES ASSUME NEW d \in Exps, NEW s \in delivered'[d], Len(s) > 1
                 PROVE  Front(s) \in delivered'[d]
      BY DEF RevisionsAreLinked
    <3>1. CASE s \in delivered[d]
      BY <3>1 DEF RevisionInv, RevisionsAreLinked
    <3>2. CASE s \notin delivered[d]
      <4>1. d = e /\ s = record[w]
        BY <2>7, <3>2
      <4>2. Front(s) \in delivered[e]
        BY <2>2, <2>5, <4>1
      <4> QED
        BY <2>6, <4>1, <4>2
    <3> QED
      BY <3>1, <3>2
  <2> QED
    BY <2>4, <2>9
<1>4. ASSUME NEW w \in Publishers, Retain(w)
      PROVE  (\A v \in Publishers : Underway(v)') /\ RevisionsAreLinked'
  BY <1>4 DEF Retain, Typed, RevisionInv, RevisionsAreLinked
<1>5. CASE Crash
  BY <1>5 DEF Crash, RevisionInv, RevisionsAreLinked
<1>6. CASE UNCHANGED <<publishers, delivered>>
  <2>1. at' = at /\ record' = record /\ delivered' = delivered
    BY <1>6 DEF publishers
  <2>2. (\A v \in Publishers : Underway(v)') /\ RevisionsAreLinked'
    BY <2>1 DEF RevisionInv, RevisionsAreLinked
  <2> QED
    BY <1>1, <2>2 DEF RevisionInv
<1> QED
  BY <1>1, <1>2, <1>3, <1>4, <1>5, <1>6
     DEF RevisionInv, Next, Coordinate, Prepare, SavePrepared, End, Teardown, SaveTeardown,
         Resume,
         Attach, vars

LEMMA Initially == Init => IInv
<1> SUFFICES ASSUME Init PROVE IInv
  OBVIOUS
<1> USE SharingAssumption DEF Init
<1>1. Accepted \in Document
  BY DEF Accepted, Document, NoLeases, Lease, Unpublished
<1>2. Typed
  <2>1. Unpublished \in Records
    BY DEF Unpublished, Records
  <2> QED
    BY <1>1, <2>1 DEF Typed
<1>3. WarmInv
  BY DEF WarmInv, Accepted, NoLeases
<1>4. RevisionInv
  BY DEF RevisionInv, RevisionsAreLinked, Accepted, Taken
<1> QED
  BY <1>2, <1>3, <1>4 DEF IInv

-----------------------------------------------------------------------------
(* The invariant of what experiments share: types, that no lease on a warm *)
(* model is managed, and that every receipt at hand is of a delivered      *)
(* record.                                                                 *)
THEOREM Invariance == Spec => []IInv
<1>1. IInv /\ [Next]_vars => IInv'
  BY TypedStep, WarmStep, RevisionStep DEF IInv
<1> QED
  BY <1>1, Initially, PTL DEF Spec

(* A model that was warm before any experiment is never unloaded, however  *)
(* preparations, ends, releases and crashes of experiments meet.           *)
THEOREM ThmWarmModelIsKept == Spec => []WarmModelIsKept
<1>1. IInv => WarmModelIsKept
  BY DEF IInv, Typed, WarmInv, WarmModelIsKept, TypeOK, Records
<1> QED
  BY <1>1, Invariance, PTL

(* Whatever publishers do at once, a delivered revision names one that was *)
(* delivered before it.                                                    *)
THEOREM ThmRevisionsAreLinked == Spec => []RevisionsAreLinked
<1>1. IInv => RevisionsAreLinked
  BY DEF IInv, RevisionInv
<1> QED
  BY <1>1, Invariance, PTL

(* The coordinator's saves of its own copy lose no attached reference, and *)
(* no receipt.                                                             *)
THEOREM ThmEvidenceIsKept == Spec => EvidenceIsKept
<1> DEFINE Kept == \A e \in Exps : /\ doc[e].refs \subseteq doc'[e].refs
                                   /\ doc[e].receipt # Unpublished => doc'[e].receipt # Unpublished
<1>1. IInv /\ [Next]_vars => Kept
  BY DocumentStep DEF IInv, RevisionInv, Evolves
<1>2. IInv /\ [Next]_vars => [Kept]_vars
  BY <1>1
<1> QED
  BY <1>2, Invariance, PTL DEF Spec, EvidenceIsKept
=============================================================================
