--------------------------- MODULE HostInventory ---------------------------
(***************************************************************************)
(* What Control sees of the host before it takes a claim away from a       *)
(* session (_host_process_inventory and its helpers in                     *)
(* environment_rpc.py).  /proc is read file by file while processes come   *)
(* and go: a list of pids, then the parent of each, the start of the       *)
(* requester's own execution, the clients on the owner's audit record, and *)
(* at last each process that is not the requester's, and the user units.   *)
(*                                                                         *)
(* A verdict has two values here: the scan refuses alike when it saw work  *)
(* and when it could not see enough.  Reading one process is one step.  A  *)
(* pid may be given to another process at any time, of an excluded process *)
(* too, but for one on the list of a scan that is still reading parents:   *)
(* the code would take the new one for the old (the kernel's pids take     *)
(* longer to come round).  Walks up are not bounded here, in the code they *)
(* end, as if nothing was found, after eight processes.                    *)
(***************************************************************************)
EXTENDS Naturals

CONSTANTS Inspectors, \* threads that may scan the host
          Pids,
          MaxStarts,  \* processes that ever get one pid
          Hosts,      \* hosts as they may be at first
          Births,     \* [pid, parent, role, shows, hides] that may appear
          Client,     \* [Inspectors -> pid of the requester's client]
          Rows        \* the owner's audit record: [pid, start] of its clients

VARIABLES host,   \* the process that has each pid
          starts, \* how many had it
          scan    \* what each inspector knows

hostVars == <<host, starts, scan>>

Nowhere == "nowhere"
Absent == [start |-> 0, parent |-> Nowhere, role |-> "none", shows |-> "nothing",
           hides |-> FALSE, member |-> {}, launched |-> {}]

(* A process shows the owner's session in its environment, the claimed     *)
(* checkout in its command, directory or image, the root that checkouts    *)
(* share, or is the main process of a unit declared there.  It may hide    *)
(* its environment.  It may be a member of the execution that makes a      *)
(* request, or have launched it: those of which inspectors.                *)
Process == [start : 1..MaxStarts, parent : Pids \cup {Nowhere},
            role : {"plain", "shell", "agent", "wrapper", "bridge", "server"},
            shows : {"nothing", "session", "scope", "shared", "unit"},
            hides : BOOLEAN, member : SUBSET Inspectors, launched : SUBSET Inspectors]

Stranger(c, process) == c \notin process.member \cup process.launched

Kindred(c, process) ==
    /\ process.role \in {"agent", "wrapper"} => c \in process.member
    /\ process.role = "shell" => ~Stranger(c, process)

(* A process of a host and those above it: what each set that has it and   *)
(* with each its parent has.                                               *)
Upward(h, p) ==
    {q \in Pids : \A S \in SUBSET Pids :
        p \in S /\ (\A r \in S : h[r].parent \in S \cup {Nowhere}) => q \in S}

NoRoot == [pid |-> Nowhere, start |-> 0]
Resting == [stage |-> "rest", root |-> NoRoot, listed |-> [p \in Pids |-> 0],
            parents |-> [p \in Pids |-> Nowhere], left |-> {}, excluded |-> {},
            quiet |-> TRUE]

HostTypeOK ==
    /\ host \in [Pids -> Process \cup {Absent}] /\ starts \in [Pids -> 0..MaxStarts]
    /\ \A c \in Inspectors :
          /\ scan[c].stage \in {"rest", "parents", "audit", "look", "done"}
          /\ scan[c].left \cup scan[c].excluded \subseteq Pids

(* A host as it may be at first.  What starts from a member is one; of     *)
(* what is above a requester's client, agents and their wrappers are       *)
(* members, and a one-shot shell whose command is the next one's launched  *)
(* it.                                                                     *)
Wellformed(h) ==
    /\ h \in [Pids -> Process \cup {Absent}]
    /\ \A p \in Pids : h[p].parent # Nowhere =>
          /\ h[h[p].parent].start > 0
          /\ h[h[p].parent].member \subseteq h[p].member
    /\ \A c \in Inspectors : Client[c] # Nowhere /\ h[Client[c]].start > 0 =>
          /\ c \in h[Client[c]].member
          /\ \A q \in Upward(h, Client[c]) : Kindred(c, h[q])

HostInit == /\ host \in Hosts
            /\ starts = [p \in Pids |-> host[p].start]
            /\ scan = [c \in Inspectors |-> Resting]

Alive(p) == host[p].start > 0
Is(p, start) == Alive(p) /\ host[p].start = start
Put(c, knowledge) == scan' = [scan EXCEPT ![c] = knowledge]
Entries(c) == {p \in Pids : scan[c].listed[p] > 0}

-----------------------------------------------------------------------------
(* Those above a pid.                                                      *)
Above(p) == IF host[p].parent = Nowhere THEN {} ELSE Upward(host, host[p].parent)

(* The first one above p in a role: no other of them is below it.          *)
Nearest(p, role) ==
    LET found == {q \in Above(p) : host[q].role = role}
        first == {q \in found : found \subseteq Upward(host, q)}
    IN IF first = {} THEN Nowhere ELSE CHOOSE q \in first : TRUE

(* The root of a request: the agent its client works for, or the wrapper   *)
(* that started that agent; without an agent the client itself.            *)
Root(p) ==
    LET agent == Nearest(p, "agent")
        wrapper == IF agent = Nowhere THEN Nowhere ELSE Nearest(agent, "wrapper")
    IN IF agent = Nowhere THEN p ELSE IF wrapper = Nowhere THEN agent ELSE wrapper

Anchor(c) ==
    LET p == Client[c]
        root == IF p = Nowhere THEN NoRoot
                ELSE IF Alive(p) THEN [pid |-> Root(p), start |-> host[Root(p)].start]
                ELSE [pid |-> p, start |-> 0]
    IN Put(c, [scan[c] EXCEPT !.root = root]) /\ UNCHANGED <<host, starts>>

(* The agent of the request: the nearest one above the root, or the root.  *)
Agent(root) ==
    IF root.pid = Nowhere \/ ~Is(root.pid, root.start) THEN Nowhere
    ELSE LET agent == Nearest(root.pid, "agent")
         IN IF agent = Nowhere THEN root.pid ELSE agent

(* The one-shot shell that launched the root, looked for among the listed. *)
(* A shell here is one whose command is that of the process below it; any  *)
(* other is a plain process, which the search passes.                      *)
Launcher(c) ==
    LET root == scan[c].root
        shell == Nearest(root.pid, "shell")
        between == {p \in Above(root.pid) : shell \in Upward(host, p)}
    IN IF /\ root.pid \in Entries(c) /\ Is(root.pid, root.start)
          /\ shell # Nowhere /\ between \subseteq Entries(c)
       THEN {shell} ELSE {}

-----------------------------------------------------------------------------
(* The pids are listed; with none there is nothing else to read.           *)
List(c) ==
    /\ scan[c].stage = "rest"
    /\ LET entries == {p \in Pids : Alive(p)}
       IN Put(c, [scan[c] EXCEPT !.stage = IF entries = {} THEN "done" ELSE "parents",
                                 !.listed = [p \in Pids |-> host[p].start],
                                 !.parents = [p \in Pids |-> Nowhere],
                                 !.left = entries, !.excluded = {}, !.quiet = TRUE])
    /\ UNCHANGED <<host, starts>>

(* The status of a listed process; of one that has gone nothing is known,  *)
(* which the pid as its own parent stands for.                             *)
ReadParent(c, p) ==
    /\ scan[c].stage = "parents" /\ p \in scan[c].left
    /\ Put(c, [scan[c] EXCEPT !.left = @ \ {p},
                              !.parents[p] = IF Alive(p) THEN host[p].parent ELSE p])
    /\ UNCHANGED <<host, starts>>

Read(c) == {p \in Entries(c) : scan[c].parents[p] # p}

(* The read descendants of a set of roots, the roots included.             *)
Tree(c, roots) ==
    {q \in Pids : \A S \in SUBSET Pids :
        roots \subseteq S /\ (\A p \in Read(c) : scan[c].parents[p] \in S => p \in S)
            => q \in S}

(* What is excluded, and whether that is certain.                          *)
Exclusion(c, excluded, certain) ==
    /\ scan[c].stage = "parents" /\ scan[c].left = {}
    /\ Put(c, [scan[c] EXCEPT !.stage = IF certain THEN "audit" ELSE "done",
                              !.quiet = certain, !.excluded = excluded])
    /\ UNCHANGED <<host, starts>>

(* A slip: the root is known by its pid alone.                             *)
ExcludeByPid(c) ==
    LET root == scan[c].root
        excluded == Tree(c, {root.pid} \cap Read(c))
    IN Exclusion(c, excluded \cup Launcher(c), \A p \in excluded : Alive(p))

(* The requester's own tree is excluded, if its root still is the process  *)
(* it was when the request was registered, and the shell that launched it, *)
(* that shell's other children not.                                        *)
Exclude(c) ==
    LET root == scan[c].root
        excluded == Tree(c, {root.pid} \cap Read(c))
    IN Exclusion(c, excluded \cup Launcher(c),
                 /\ root.pid \in Entries(c) =>
                       root.pid \in Read(c) /\ Is(root.pid, root.start)
                 /\ \A p \in excluded : Alive(p))

(* The owner's clients on record that still run: not the requester nor its *)
(* agent, and not a bridge, which outlives the conversations it serves.    *)
Audited(c) ==
    {row \in Rows : /\ Is(row.pid, row.start)
                    /\ row # scan[c].root /\ row.pid # Agent(scan[c].root)
                    /\ host[row.pid].role # "bridge"}

Audit(c) ==
    /\ scan[c].stage = "audit"
    /\ LET quiet == Audited(c) = {}
       IN Put(c, [scan[c] EXCEPT !.stage = IF quiet THEN "look" ELSE "done",
                                 !.left = IF quiet THEN Entries(c) \ scan[c].excluded ELSE {},
                                 !.quiet = quiet])
    /\ UNCHANGED <<host, starts>>

(* Why a process that is not the requester's counts.                       *)
Reason(p) == IF host[p].shows = "session" THEN (IF host[p].hides THEN "nothing" ELSE "session")
             ELSE IF host[p].shows = "unit" THEN "nothing" ELSE host[p].shows

(* The repository's own server is an integration service, not a writer.    *)
Resident(p) == host[p].role = "server" /\ Reason(p) = "scope"

Look(c, p) ==
    /\ scan[c].stage = "look" /\ p \in scan[c].left
    /\ LET quiet == ~Alive(p) \/ Reason(p) = "nothing" \/ Resident(p)
       IN Put(c, [scan[c] EXCEPT !.stage = IF quiet THEN "look" ELSE "done",
                                 !.left = IF quiet THEN @ \ {p} ELSE {},
                                 !.quiet = quiet])
    /\ UNCHANGED <<host, starts>>

(* A unit is found by what it declares, whatever its process hides.        *)
Services(c) ==
    /\ scan[c].stage = "look" /\ scan[c].left = {}
    /\ Put(c, [scan[c] EXCEPT !.stage = "done",
                              !.quiet = \A p \in Pids : host[p].shows # "unit"])
    /\ UNCHANGED <<host, starts>>

Scan(c) == \/ List(c) \/ Exclude(c) \/ Audit(c) \/ Services(c)
           \/ \E p \in Pids : ReadParent(c, p) \/ Look(c, p)

Quiet(c) == scan[c].stage = "done" /\ scan[c].quiet

(* The next inspection starts anew, for the same root.                     *)
Conclude(c) ==
    /\ scan[c].stage = "done"
    /\ Put(c, [Resting EXCEPT !.root = scan[c].root, !.listed = scan[c].listed])
    /\ UNCHANGED <<host, starts>>

Forget(c) == Put(c, Resting) /\ UNCHANGED <<host, starts>>

-----------------------------------------------------------------------------
(* The host: a process appears, alone or as a child; one ends.             *)
Listed(p) == \E c \in Inspectors : scan[c].stage = "parents" /\ scan[c].listed[p] > 0

Spawn(birth) ==
    LET p == birth.pid  parent == birth.parent
    IN /\ ~Alive(p) /\ ~Listed(p) /\ starts[p] < MaxStarts
       /\ parent # Nowhere => Alive(parent)
       /\ starts' = [starts EXCEPT ![p] = @ + 1]
       /\ host' = [host EXCEPT ![p] =
             [start |-> starts[p] + 1, parent |-> parent, role |-> birth.role,
              shows |-> birth.shows, hides |-> birth.hides,
              member |-> IF parent = Nowhere THEN {} ELSE host[parent].member,
              launched |-> {}]]
       /\ UNCHANGED scan

Die(p) ==
    /\ Alive(p)
    /\ host' = [q \in Pids |-> IF q = p THEN Absent
                               ELSE IF host[q].parent = p
                               THEN [host[q] EXCEPT !.parent = Nowhere] ELSE host[q]]
    /\ UNCHANGED <<starts, scan>>

HostMoves == \/ \E p \in Pids : Die(p)
             \/ \E birth \in Births : Spawn(birth)

-----------------------------------------------------------------------------
(* A process of somebody else that works for the owner or in the checkout. *)
Works(c, p) ==
    /\ Alive(p) /\ Stranger(c, host[p])
    /\ \/ Reason(p) = "session" \/ host[p].shows = "unit"
       \/ host[p].shows = "scope" /\ host[p].role # "server"
       \/ [pid |-> p, start |-> host[p].start] \in Rows /\ host[p].role # "bridge"

(* Such processes that were there when the scan began and still are.       *)
Overlooked(c) == {p \in Pids : Works(c, p) /\ scan[c].listed[p] = host[p].start}
=============================================================================
