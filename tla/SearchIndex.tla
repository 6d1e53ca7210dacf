---------------------------- MODULE SearchIndex ----------------------------
(***************************************************************************)
(* What the store promises its callers: a map from files to the content a  *)
(* search can return for them.  A batch appears at once or not at all, a   *)
(* file or a whole root disappears at once, and nothing else is visible.   *)
(* In particular collecting unreferenced content is not a step of this     *)
(* specification: callers must never see it.                               *)
(***************************************************************************)
CONSTANTS Files,     \* the files of every corpus, as stored file_refs
          CorpusOf,  \* the corpus key (name, canonical root) of a file
          RootOf,    \* the canonical root of a corpus key
          Keys,      \* content keys
          NoKey      \* the file is not in the index

VARIABLE index       \* what a search of the file returns

TypeOK == index \in [Files -> Keys \cup {NoKey}]

Init == index = [f \in Files |-> NoKey]

\* ChunkStore::commit_batch: the files of one corpus key, all at once.
Publish(batch) ==
    /\ \A f, g \in Files : batch[f] # NoKey /\ batch[g] # NoKey
                              => CorpusOf[f] = CorpusOf[g]
    /\ index' = [f \in Files |-> IF batch[f] # NoKey THEN batch[f] ELSE index[f]]

\* ChunkStore::delete_file.
Remove(f) == index' = [index EXCEPT ![f] = NoKey]

\* ChunkStore::delete_root: every corpus at the root.
RemoveRoot(r) ==
    index' = [f \in Files |-> IF RootOf[CorpusOf[f]] = r THEN NoKey ELSE index[f]]

Next == \/ \E batch \in [Files -> Keys \cup {NoKey}] : Publish(batch)
        \/ \E f \in Files : Remove(f) \/ RemoveRoot(RootOf[CorpusOf[f]])

Spec == Init /\ [][Next]_index
=============================================================================
