---------------------------- MODULE MCChangeFeed -----------------------------
(* An instance of ChangeFeed for TLC: the boot corpus has root 1 and a       *)
(* repository layer the same root and the nested root 2.                     *)
EXTENDS ChangeFeed

CONSTANTS f1, f2

MCUnder == [p \in Path |-> IF p = 1 THEN {f1, f2} ELSE {f2}]
MCAllows == [r \in Reg |-> File]
MCBooted == [r \in Reg |-> IF r = 1 THEN {1} ELSE {}]
MCOffer == [r \in Reg |-> IF r = 1 THEN {{1}} ELSE {{1, 2}}]
MCCorpus == [r \in Reg |-> "c"]
==============================================================================
