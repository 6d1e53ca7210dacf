------------------------------- MODULE MCPages -------------------------------
(* An instance of Pages for TLC: a page beside the root's index.md and one  *)
(* in a subdirectory, two clients, and a request for every mode.            *)
EXTENDS Pages, TLC

CONSTANTS root, sub, top, low, hA, hB, hC, t1, t2, t3

MCParentDir == (top :> root) @@ (low :> sub) @@ (sub :> root)
MCChain == (root :> <<root>>) @@ (sub :> <<root, sub>>)
MCOrder == <<sub, top, low>>

\* A section with a subsection, and one after it.
MCText == <<Heading(1, hA), Plain(t1), Heading(2, hB), Plain(t2), Heading(1, hC)>>
MCFragment == <<Plain(t3), Plain(Blank)>>

Whole(file, body, over) == [op |-> "whole", path |-> file, body |-> body, overwrite |-> over]
Splice(h, pos) == [op |-> "heading", path |-> top, heading |-> h, position |-> pos,
                   body |-> MCFragment]
Delete(file) == [op |-> "delete", path |-> file]

\* The author's index.md, with and without the markers.
MCListed == render_scaffold(hA) \o <<Plain(t3)>>
MCOptOut == <<Plain(t3)>>

MCRequests ==
    { <<Whole(top, MCText, FALSE)>>, <<Whole(low, MCText, TRUE)>>, <<Whole(top, <<>>, TRUE)>>,
      <<Splice(hA, "append")>>, <<Splice(hB, "append"), Splice(hA, "prepend")>>,
      <<[op |-> "lines", path |-> top, start |-> 2, end |-> 3, body |-> MCFragment]>>,
      <<[op |-> "match", path |-> top, needle |-> Plain(t3), body |-> <<>>]>>,
      <<Whole(sub, MCListed, TRUE)>>, <<Whole(root, MCOptOut, TRUE)>>,
      <<Delete(top)>>, <<Delete(low)>>, <<Delete(sub)>> }

Symmetry == Permutations(Clients)
=============================================================================
