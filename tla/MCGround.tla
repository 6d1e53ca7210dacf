------------------------------ MODULE MCGround ------------------------------
(* Instance of Ground: a corpus with a file there from the start and one   *)
(* that handlers and other programs write, and an empty corpus whose file  *)
(* system may hang and whose walks compete for the only permit.  Requests  *)
(* come one after another; the walks of those that gave up are still there *)
(* when the next one comes.                                                *)
EXTENDS Ground, TLC
CONSTANTS f1, f2, c1, c2, r1

MCCorpusOf == f1 :> c1 @@ f2 :> c1
MCStart == f1 :> 0 @@ f2 :> Nothing
MCOffers == r1 :> {<<"ranked", {c1}>>, <<"phrase", {c1}>>, <<"stats", {c2}>>}
=============================================================================
