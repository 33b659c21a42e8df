----------------------- MODULE MCEnvironmentEndpoint -----------------------
(* The execution of s1 reads an artifact, twice, while it acquires the     *)
(* claim that s2 may hold.                                                 *)
EXTENDS EnvironmentEndpoint

MCIssued == [g1 |-> "s1", g2 |-> "s2"]
MCHolders == [p1 |-> {None, "s2"}]

Req(command, s) == [command |-> command, sessions |-> {s}, repository |-> "p1"]
On(i, g) == [id |-> i, grant |-> g]

MCRequest == [r1 |-> Req("acquire", "s1"), r2 |-> Req("artifact-read", "s1")]
MCCrowds == {{"c1", "c2", "c3"}}
MCCarries == [c1 |-> On("r1", "g1"), c2 |-> On("r2", "g1"), c3 |-> On("r2", "g1")]
=============================================================================
