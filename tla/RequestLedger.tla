--------------------------- MODULE RequestLedger ---------------------------
(***************************************************************************)
(* What the Environment endpoint promises its clients, whatever threads,   *)
(* locks and recoveries do: a request is run once, everyone who asks with  *)
(* its identity is told the answer of that run or is turned away, and a    *)
(* run can only happen again once the answer has been forgotten.           *)
(***************************************************************************)
EXTENDS Naturals

CONSTANTS Ids, Conns, Asks, Answers, None

VARIABLES runs,     \* runs of each request since its answer was forgotten
          recorded, \* the answer of each request
          told      \* what each connection was told

ledger == <<runs, recorded, told>>

Init == /\ runs = [i \in Ids |-> 0] /\ recorded = [i \in Ids |-> None]
        /\ told = [c \in Conns |-> None]

Execute(i) ==
    /\ runs[i] = 0 /\ recorded[i] = None
    /\ runs' = [runs EXCEPT ![i] = 1]
    /\ UNCHANGED <<recorded, told>>

(* The answer is kept and told; to make room, others may be forgotten.     *)
Settle(c) ==
    /\ told[c] = None /\ recorded[Asks[c]] = None
    /\ \E a \in Answers, gone \in SUBSET {i \in Ids : recorded[i] # None} :
          /\ told' = [told EXCEPT ![c] = a]
          /\ recorded' = [i \in Ids |-> IF i = Asks[c] THEN a
                                        ELSE IF i \in gone THEN None ELSE recorded[i]]
          /\ runs' = [i \in Ids |-> IF i \in gone THEN 0 ELSE runs[i]]

Repeat(c) ==
    /\ told[c] = None /\ recorded[Asks[c]] # None
    /\ told' = [told EXCEPT ![c] = recorded[Asks[c]]]
    /\ UNCHANGED <<runs, recorded>>

(* Without authority, or while the request is still being served.          *)
TurnAway(c) ==
    /\ told[c] = None
    /\ \/ told' = [told EXCEPT ![c] = "denied"]
       \/ recorded[Asks[c]] = None /\ told' = [told EXCEPT ![c] = "ambiguous"]
    /\ UNCHANGED <<runs, recorded>>

ForgetAll ==
    /\ runs' = [i \in Ids |-> 0] /\ recorded' = [i \in Ids |-> None]
    /\ UNCHANGED told

Next == \/ \E i \in Ids : Execute(i)
        \/ \E c \in Conns : Settle(c) \/ Repeat(c) \/ TurnAway(c)
        \/ ForgetAll

(* (What comes first says nothing new: it spares a checker the steps that  *)
(* leave the ledger alone.)                                                *)
Spec == Init /\ [][ledger' # ledger => Next]_ledger
=============================================================================
