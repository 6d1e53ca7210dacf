---------------------------- MODULE MCSplitStore ----------------------------
(* Instance of SplitStore: two files of one corpus and a file of another   *)
(* corpus that can share their content.  The batches offered: one that     *)
(* maps a file, one that remaps it together with a second, one of the      *)
(* other corpus and one that mixes the corpora.                            *)
EXTENDS SplitStore, TLC
CONSTANTS f1, f2, f3, c1, c2, r1, r2, k1, k2

MCFiles == {f1, f2, f3}
MCCorpusOf == f1 :> c1 @@ f2 :> c1 @@ f3 :> c2
MCRootOf == c1 :> r1 @@ c2 :> r2
MCOffered == {f1 :> k1 @@ EmptyBatch,
              f1 :> k2 @@ f2 :> k1 @@ EmptyBatch,
              f3 :> k1 @@ EmptyBatch,
              f1 :> k2 @@ f3 :> k2 @@ EmptyBatch}
=============================================================================
