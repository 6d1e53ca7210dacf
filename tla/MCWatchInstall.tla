--------------------------- MODULE MCWatchInstall ----------------------------
(* An instance of WatchInstall for TLC: the boot configuration watches       *)
(* directory 1 flat; a repository layer wants 1 recursively, or 1 flat and 2 *)
(* recursively.                                                              *)
EXTENDS WatchInstall

Base == 1
Repo == 2
Root(p, m) == [path |-> p, mode |-> m]

MCBooted == [r \in Reg |-> IF r = Base THEN {Root(1, "flat")} ELSE {}]
MCOffer == [r \in Reg |-> IF r = Base THEN {{Root(1, "flat")}}
                          ELSE {{Root(1, "rec")}, {Root(1, "flat"), Root(2, "rec")}}]
==============================================================================
