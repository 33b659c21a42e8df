------------------------- MODULE EnvironmentService -------------------------
(***************************************************************************)
(* The Environment endpoint on its host: the threads of                    *)
(* EnvironmentEndpoint, the bridge that is one of their clients, and the   *)
(* processes among which a recovery looks for signs of life.  A thread     *)
(* that inspects the host scans it step by step while processes come and   *)
(* go, and may only go on when the scan was quiet.  Jobs stay an unknown   *)
(* of the inspection.                                                      *)
(***************************************************************************)
EXTENDS LocalBridge

CONSTANTS Pids, MaxStarts, Settings, Births, Client, Rows
VARIABLES host, starts, scan

(* Settings: for each crowd of connections the hosts it may find.          *)
H == INSTANCE HostInventory
     WITH Inspectors <- Conns,
          Hosts <- UNION {Settings[crowd] : crowd \in DOMAIN Settings}

ASSUME HostAssumption ==
    /\ H!Nowhere \notin Pids /\ MaxStarts \in Nat /\ Rows \subseteq [pid : Pids, start : Nat]
    /\ Client \in [Conns -> Pids \cup {H!Nowhere}]
    /\ \A crowd \in DOMAIN Settings : \A h \in Settings[crowd] : H!Wellformed(h)

ASSUME BirthsAssumption ==
    \A birth \in Births :
        /\ birth.pid \in Pids
        /\ birth.parent \in Pids \cup {H!Nowhere} /\ birth.hides \in BOOLEAN
        /\ birth.role \in {"plain", "shell", "agent", "wrapper", "bridge", "server"}
        /\ birth.shows \in {"nothing", "session", "scope", "shared", "unit"}

hostVars == <<host, starts, scan>>
serviceVars == <<vars, bridge, hostVars>>

Present == {c \in Conns : at[c] # "lost"}

ServiceInit ==
    /\ Init /\ BridgeInit /\ H!HostInit
    /\ host \in Settings[Present]

(* The requester's execution is anchored when its request is registered.   *)
Registers(c) ==
    /\ Register(c) /\ UNCHANGED bridge
    /\ IF at'[c] = "queued" /\ Command(c) = "acquire" THEN H!Anchor(c) ELSE UNCHANGED hostVars

Handles(c) ==
    /\ Handle(c) /\ Served(c)
    /\ IF at[c] = "unfencing" THEN H!Forget(c) ELSE UNCHANGED hostVars

Inspecting(c) == at[c] \in {"before", "after"}

Scans(c) == Inspecting(c) /\ H!Scan(c) /\ UNCHANGED <<vars, bridge>>

(* Something that was seen, or could not be, ends the recovery; so may a   *)
(* job.                                                                    *)
Concludes(c) ==
    /\ InspectBefore(c) \/ InspectAfter(c)
    /\ at'[c] # "releasing" => H!Quiet(c)
    /\ H!Conclude(c)
    /\ UNCHANGED bridge

Works(c) == Registers(c) \/ Handles(c) \/ Scans(c) \/ Concludes(c)

(* The threads that have something to do.                                  *)
Busy == {c \in Conns : at[c] \notin {"idle", "answered", "lost"}}

(* A grant that nobody is going to use again, or is using, need not lapse. *)
Awaits(c) == at[c] \notin {"answered", "lost"}

Clients ==
    /\ \/ BridgeMoves
       \/ \E c \in Conns \ Bridged : Arrive(c) /\ UNCHANGED bridge
       \/ \E c \in Busy : GiveUp(c) /\ UNCHANGED bridge
       \/ \E c \in Conns \ Bridged : IssueGrant(Grant(c)) /\ UNCHANGED bridge
       \/ \E c \in Conns : Awaits(c) /\ Lapse(Grant(c)) /\ UNCHANGED bridge
    /\ UNCHANGED hostVars

Unregistered(c) == at[c] \in {"idle", "arrived", "waiting"}

(* Processes come and go at any time; what they do while nobody looks at   *)
(* them is as if they did it just before the next inspection.  A crowd     *)
(* that found no process on its host finds none later.  Before its request *)
(* is registered the pid of a client is not given to another process.      *)
HostMoves ==
    /\ \E c \in Busy : Inspecting(c)
    /\ \E p \in Pids : starts[p] > 0
    /\ H!HostMoves /\ UNCHANGED <<vars, bridge>>
    /\ \A c \in Conns : Unregistered(c) /\ Client[c] \in Pids =>
           starts'[Client[c]] = starts[Client[c]]

Restarts ==
    /\ Restart /\ UNCHANGED <<bridge, host, starts>>
    /\ scan' = [c \in Conns |-> H!Resting]

ServiceNext ==
    \/ \E c \in Busy : Works(c)
    \/ Clients \/ HostMoves \/ Restarts

(* As long as some thread can go on, some thread does; clients, hosts and  *)
(* timers owe nothing.  Nothing more is needed: a connection carries one   *)
(* request, and no step of a thread is undone by another.                  *)
ServiceSpec ==
    /\ ServiceInit /\ [][ServiceNext]_serviceVars
    /\ WF_serviceVars(\E c \in Busy : Works(c))

-----------------------------------------------------------------------------
(* When the Environment is asked to move a claim, no process that worked   *)
(* for its owner or in its checkout when the second inspection began, and  *)
(* still does, was passed over: neither because it has the pid of one that *)
(* is excluded, nor as the child of one, nor among those on record.  The   *)
(* host and the scans have their types.                                    *)
LastingWorkIsSeen ==
    /\ H!HostTypeOK
    /\ \A c \in Conns : at[c] = "publishing" => H!Overlooked(c) = {}
=============================================================================
