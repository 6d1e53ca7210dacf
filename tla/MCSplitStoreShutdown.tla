------------------------ MODULE MCSplitStoreShutdown ------------------------
(* Instance of SplitStoreShutdown: two files of one corpus.                *)
EXTENDS SplitStoreShutdown, TLC
CONSTANTS f1, f2, c1, r1

MCCorpusOf == f1 :> c1 @@ f2 :> c1
MCRootOf == c1 :> r1
MCOffered == Batches

=============================================================================
