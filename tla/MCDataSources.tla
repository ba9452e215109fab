--------------------------- MODULE MCDataSources ---------------------------
(* DataSources on a few requests, for TLC. *)
EXTENDS DataSources, TLC

RequestSymmetry == Permutations(Requests)
NoFaults == {}
AllFaults == Services
============================================================================
