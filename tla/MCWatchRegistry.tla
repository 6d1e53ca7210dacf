-------------------------- MODULE MCWatchRegistry ---------------------------
(* Instance of WatchRegistry for TLC: one corpus name under two roots,     *)
(* the boot configuration and a repository layer.                          *)
EXTENDS WatchRegistry

CONSTANTS base, r1, k1, k2, b1, b2, wide

MCNameOf == [k \in Keys |-> "c"]

\* b1 and b2 have one root each; wide has both.
MCFirstKey == [b \in Bindings |-> IF b = b2 THEN k2 ELSE k1]
MCExtra == [b \in Bindings |-> IF b = wide THEN {k2} ELSE {}]
MCCfg == [b \in Bindings |-> 0]

\* The boot configuration is there from the start; requests register the layer.
MCOffers == {r1} \X Bindings

MCLayers == {l \in {<<>>, <<b1>>, <<wide>>} : ToSet(l) \subseteq Bindings}
=============================================================================
