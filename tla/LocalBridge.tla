---------------------------- MODULE LocalBridge ----------------------------
(***************************************************************************)
(* LocalEnvironmentMCP (local_environment_mcp.py): the bridge through      *)
(* which an agent's calls reach the endpoint.  It outlives grants and      *)
(* services: it keeps one context for a project directory, with the grant  *)
(* Control issued for it and the session it selected last; it selects a    *)
(* session when it has none or the caller names another one, and when a    *)
(* grant is denied it gets a new one and tries once more, under a new      *)
(* request identity.                                                       *)
(*                                                                         *)
(* The bridge's connections are made one after the other, each with an     *)
(* identity of its own; MC modules give it a number of them.               *)
(***************************************************************************)
EXTENDS EnvironmentEndpoint

CONSTANTS Bridged, \* the connections of the bridge
          Names    \* the sessions a caller may name, None for no name

(* An operation of the bridge always names the session it selected.        *)
ASSUME BridgeAssumption ==
    /\ Bridged \subseteq Conns /\ Names \subseteq Sessions \cup {None}
    /\ \A c \in Bridged : Command(c) # "continuation" => None \notin Request[Id(c)].sessions

VARIABLE bridge

BridgeSteps == {"idle", "issue", "select", "selecting", "operate", "operating"}
NoContext == [step |-> "idle", after |-> "select", named |-> None, grant |-> None,
              selected |-> None, again |-> FALSE, retried |-> FALSE,
              conn |-> None, picked |-> None, ran |-> 0]

BridgeTypeOK ==
    bridge \in [step : BridgeSteps, after : {"select", "operate"},
                named : Sessions \cup {None}, grant : Grants \cup {None},
                selected : Sessions \cup {None}, again : BOOLEAN, retried : BOOLEAN,
                conn : Bridged \cup {None}, picked : Sessions \cup {None}, ran : 0..2]

BridgeInit == bridge = NoContext

Operation(c) == Command(c) # "continuation"
(* A call ends; the context stays.                                         *)
Done == bridge' = [NoContext EXCEPT !.grant = bridge.grant, !.selected = bridge.selected]

(* What is left to do for a context with a grant: the selected session     *)
(* will do if the caller names no other.                                   *)
Selects(named) == ~(bridge.selected # None /\ named \in {None, bridge.selected})

(* invoke: the grant is missing, about to expire, or in order.             *)
Call ==
    /\ bridge.step = "idle" /\ \E c \in Bridged : at[c] = "idle"
    /\ \E named \in Names, step \in {"issue", "ready"} :
          /\ step = "ready" => bridge.grant # None
          /\ LET next == IF Selects(named) THEN "select" ELSE "operate"
             IN bridge' = [bridge EXCEPT !.named = named, !.after = next,
                                         !.step = IF step = "issue" THEN step ELSE next]
    /\ UNCHANGED vars

(* A new grant; the session stays selected.                                *)
Issue(g) ==
    /\ bridge.step = "issue" /\ IssueGrant(g)
    /\ \E c \in Bridged : Grant(c) = g
    /\ bridge' = [bridge EXCEPT !.step = bridge.after, !.grant = g]

(* The selection forgets the session it replaces.                          *)
Send(c) ==
    /\ bridge.step \in {"select", "operate"}
    /\ c \in Bridged /\ Grant(c) = bridge.grant
    /\ Operation(c) <=> bridge.step = "operate"
    /\ Arrive(c)
    /\ Operation(c) => session'[c] \in {bridge.selected, None}
    /\ bridge' = [bridge EXCEPT !.conn = c,
                    !.step = IF @ = "select" THEN "selecting" ELSE "operating",
                    !.selected = IF bridge.step = "select" THEN None ELSE @]

(* A slip: whatever was not answered well is tried again.                  *)
DeniedOrUnknown(c) == answer[c] \in {"denied", "ambiguous"}

Denied(c) == answer[c] = "denied"

(* A denied grant is replaced once per selection, and once per operation,  *)
(* which starts with a new selection.                                      *)
Refresh(after) == [bridge EXCEPT !.step = "issue", !.after = after, !.conn = None]

Reply ==
    LET c == bridge.conn
    IN /\ bridge.step \in {"selecting", "operating"}
       /\ at[c] \in {"answered", "lost"}
       /\ \/ at[c] = "lost" /\ Done
          \/ /\ at[c] = "answered" /\ bridge.step = "selecting"
             /\ IF Denied(c) /\ ~bridge.again
                THEN bridge' = [Refresh("select") EXCEPT !.again = TRUE]
                ELSE IF answer[c] = "ok" /\ bridge.picked # None
                THEN bridge' = [bridge EXCEPT !.step = "operate", !.conn = None,
                                              !.selected = bridge.picked, !.picked = None]
                ELSE Done
          \/ /\ at[c] = "answered" /\ bridge.step = "operating"
             /\ IF Denied(c) /\ ~bridge.retried
                THEN bridge' = [Refresh("select") EXCEPT !.selected = None, !.again = FALSE,
                                                         !.retried = TRUE]
                ELSE Done
       /\ UNCHANGED vars

(* The agent's next conversation starts a bridge of its own.               *)
NewBridge ==
    /\ bridge.step = "idle" /\ bridge # NoContext
    /\ bridge' = NoContext /\ UNCHANGED vars

(* What the endpoint runs for the bridge: a continuation that names a      *)
(* session selects that one or none, an operation is counted.              *)
Served(c) ==
    IF c \notin Bridged \/ at[c] \notin {"running", "publishing"} THEN UNCHANGED bridge
    ELSE IF Operation(c)
    THEN bridge' = [bridge EXCEPT !.ran = @ + 1]
    ELSE /\ answer'[c] = "ok" /\ bridge.named # None => bound'[Grant(c)] = bridge.named
         /\ bridge' = [bridge EXCEPT !.picked = IF answer'[c] = "ok" THEN bound'[Grant(c)]
                                                                     ELSE None]

BridgeMoves == \/ Call \/ Reply \/ NewBridge
               \/ \E g \in Grants : Issue(g)
               \/ \E c \in Bridged : Send(c)

(* The bridge, the threads of the endpoint and its other clients.          *)
BridgedNext ==
    \/ BridgeMoves
    \/ \E c \in Conns : Handle(c) /\ Served(c)
    \/ /\ UNCHANGED bridge
       /\ \/ \E c \in Conns : \/ Register(c) \/ GiveUp(c) \/ InspectBefore(c) \/ InspectAfter(c)
                              \/ c \notin Bridged /\ Arrive(c)
          \/ \E g \in Grants : IssueGrant(g) \/ Lapse(g)
          \/ Restart

BridgedSpec == Init /\ BridgeInit /\ [][BridgedNext]_<<vars, bridge>>

-----------------------------------------------------------------------------
(* A call is executed at most once, and in no other session than the one   *)
(* its caller named, although the bridge repeats what was denied under a   *)
(* new identity, which the endpoint's ledger cannot recognize; and the     *)
(* bridge has its types.                                                   *)
CallIsExact ==
    /\ BridgeTypeOK
    /\ bridge.ran <= 1
    /\ \A c \in Bridged : at[c] = "running" /\ Operation(c) /\ bridge.named # None =>
           session[c] = bridge.named
=============================================================================
