------------------------ MODULE MCExperimentSharing ------------------------
(* Two experiments share a model; one of them uses a second one as well.   *)
EXTENDS ExperimentSharing

MCUses == [e1 |-> {"m1", "m2"}, e2 |-> {"m1"}]
MCPublishes == [w1 |-> "e1", w2 |-> "e1"]
=============================================================================
