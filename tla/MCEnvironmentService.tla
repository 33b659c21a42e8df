------------------------ MODULE MCEnvironmentService ------------------------
(* Two executions in two sessions of one principal want claims while a     *)
(* third reads an artifact, or one does while two read it, or one while    *)
(* the other's claim is free; or a bridge makes its calls, under one grant *)
(* or two, alone or while one wants a claim; or one wants a claim on a     *)
(* host where others work.  One grant belongs to a job that may end, and   *)
(* the bridge's first one may expire.                                      *)
EXTENDS EnvironmentService

MCIssued == [g1 |-> "s1", g2 |-> "s2", g3 |-> "s2"]
MCHolders == [p1 |-> {"s2"}, p2 |-> {"s1"}, p3 |-> {None}]

Req(command, about, p) == [command |-> command, sessions |-> about, repository |-> p]
On(i, g) == [id |-> i, grant |-> g]

MCRequest == [r1 |-> Req("acquire", {"s1"}, "p1"), r2 |-> Req("acquire", {"s2"}, "p2"),
              r3 |-> Req("artifact-read", {"s2"}, "p1"),
              r4 |-> Req("acquire", {"s1"}, "p3"),
              b1 |-> Req("continuation", {}, "p1"), b2 |-> Req("checkpoint", Sessions, "p1"),
              b3 |-> Req("checkpoint", Sessions, "p1"),
              b4 |-> Req("continuation", {}, "p1"), b5 |-> Req("checkpoint", Sessions, "p1")]
MCCarries == [c1 |-> On("r1", "g1"), c2 |-> On("r2", "g2"),
              c3 |-> On("r3", "g3"), c4 |-> On("r3", "g3"), c5 |-> On("r4", "g1"),
              b1 |-> On("b1", "g4"), b2 |-> On("b2", "g4"),
              b3 |-> On("b3", "g4"), b4 |-> On("b4", "g5"), b5 |-> On("b5", "g5")]

MCBridged == {"b1", "b2", "b3", "b4", "b5"}
MCCrowds == {{"c1", "c2", "c3"}, {"c1", "c3", "c4"}, {"c2", "c5"},
             {"b1", "b2", "b3"}, {"b1", "b2", "b4", "b5"}, {"c1", "b1", "b2", "b4"}, {"c1"}}

(* The request comes from client h3 of agent h2, which a shell started     *)
(* whose command names the checkout.  h4 may be the owner's, a child of    *)
(* that shell, or the repository's server, or none.                        *)
MCPids == {"h1", "h2", "h3", "h4"}
MCClient == [c \in DOMAIN MCCarries |-> IF c = "c1" THEN "h3" ELSE "nowhere"]
At(parent, role, shows, hides, member, launched) ==
    [start |-> 1, parent |-> parent, role |-> role, shows |-> shows,
     hides |-> hides, member |-> member, launched |-> launched]
Empty == [start |-> 0, parent |-> "nowhere", role |-> "none", shows |-> "nothing",
          hides |-> FALSE, member |-> {}, launched |-> {}]
Requesting(h4) == [h1 |-> At("nowhere", "shell", "scope", TRUE, {}, {"c1"}),
                   h2 |-> At("h1", "agent", "nothing", TRUE, {"c1"}, {}),
                   h3 |-> At("h2", "plain", "scope", FALSE, {"c1"}, {}), h4 |-> h4]
NoHost == [p \in MCPids |-> Empty]
MCSettings ==
    [crowd \in MCCrowds |->
        IF crowd # {"c1"} THEN {NoHost}
        ELSE {Requesting(h4) : h4 \in {At("nowhere", "plain", "session", TRUE, {}, {}),
                                       At("h1", "plain", "scope", FALSE, {}, {}),
                                       At("nowhere", "server", "scope", FALSE, {}, {}),
                                       Empty}}]
(* The pid of the agent is taken by a process of the owner; a unit         *)
(* appears, or another child of the shell.                                 *)
Birth(p, parent, shows, hides) ==
    [pid |-> p, parent |-> parent, role |-> "plain", shows |-> shows, hides |-> hides]
MCBirths == {Birth("h2", "nowhere", "session", FALSE), Birth("h4", "nowhere", "unit", TRUE),
             Birth("h4", "h1", "scope", FALSE)}
MCRows == {[pid |-> "h2", start |-> 1], [pid |-> "h4", start |-> 1]}
=============================================================================
