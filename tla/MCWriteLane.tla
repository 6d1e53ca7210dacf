----------------------------- MODULE MCWriteLane -----------------------------
(* Instances of WriteLane: an index request and a catch-up of a corpus with *)
(* the same two roots.                                                      *)
EXTENDS WriteLane

MCKeysOf == [p \in Writers |-> Keys]
=============================================================================
