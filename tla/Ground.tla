------------------------------- MODULE Ground -------------------------------
(***************************************************************************)
(* A ground request while files, index and store change under it.  The     *)
(* request walks every corpus (one shared walk per corpus, which outlives  *)
(* a request that gives up on it) and lists the indexed files of its root; *)
(* it searches the content that this listing references, greps the files   *)
(* the walk found and the listing does not hold, reranks on a slot shared  *)
(* by all requests, and stats every hit's file to mark the stale ones.     *)
(* A corpus_stats request runs only the inventory and waits for the walk.  *)
(* Rows come from passes and the watcher, and from handlers that write     *)
(* pages.                                                                  *)
(*                                                                         *)
(* Every text matches the query, a corpus has one root, corpora share no   *)
(* file and result limits are not reached.  A file's text is the instant   *)
(* it was written at, in half seconds, which is also its mtime.            *)
(***************************************************************************)
EXTENDS Integers, FiniteSets

CONSTANTS Files, Corpora, CorpusOf,
          Start,        \* the files there when the daemon starts
          Edited, Pages, \* the files that other programs, and handlers, write
          Requests,
          Offers,       \* Offers[r]: the <<kind, corpora>> request r may ask for
          Sound,        \* the corpora whose file system answers every call
          Permits,      \* MAX_CONCURRENT_COVERAGE_CHECKS, of each of the gates
          FallbackMax,  \* FALLBACK_MAX_FILES
          MaxTime,      \* bound on edits
          Nothing       \* no file, row, hit or mark

Kinds == {"ranked", "phrase", "stats"}

ASSUME GroundAssumption ==
    /\ CorpusOf \in [Files -> Corpora]
    /\ Start \in [Files -> {0, Nothing}] /\ Edited \subseteq Files /\ Pages \subseteq Files
    /\ Offers \in [Requests -> SUBSET (Kinds \X SUBSET Corpora)] /\ Sound \subseteq Corpora
    /\ Permits \in Nat \ {0} /\ FallbackMax \in Nat \ {0} /\ MaxTime \in Nat

VARIABLES
    now, written,  \* the clock; when each file was last written, or Nothing
    page,          \* what a handler wrote to each file and has still to index
    fileMap,       \* file map: the row of each indexed file
    content,       \* content keys in the content table
    built,         \* the text index exists
    walks,         \* per corpus: the in-flight walk
    req            \* the requests

store  == <<fileMap, content, built>>
GRvars == <<now, written, page, store, walks, req>>

Times == 0..MaxTime
Rows == [key : Times, mtime : Times, by : {"pass", "page"}]   \* by: history
Hits == [text : Times, mtime : Times, from : {"pass", "page", "grep"},
         stale : BOOLEAN \cup {Nothing}]

ASSUME NothingAssumption ==
    /\ Nothing \notin Times /\ Nothing \notin BOOLEAN /\ Nothing \notin Files \X Times
    /\ Nothing \notin Rows /\ Nothing \notin Hits

FilesOf(c) == {f \in Files : CorpusOf[f] = c}
NoFiles == [f \in Files |-> Nothing]
NoWalk == [at |-> "none", todo |-> {}, found |-> {}]

NoRequest ==
    [at |-> "idle", kind |-> "stats", corpora |-> {},
     walked   |-> [c \in Corpora |-> "no"],   \* how far it is with each corpus
     listed   |-> [c \in Corpora |-> "no"],
     searched |-> [c \in Corpora |-> "no"],
     found    |-> {},        \* files its walks returned
     scope    |-> NoFiles,   \* rows its listings returned
     queue    |-> {},        \* grep matches whose window is still to be read
     opened   |-> Nothing,      \* the file being read and its mtime
     hits     |-> NoFiles, warnings |-> {},
     blind    |-> {},        \* history: corpora searched without a text index
     dropped  |-> {},        \* history: files the fallback let fall
     quiet    |-> {}]        \* history: files neither edited nor reindexed

Progress ==
    [at : {"idle", "inventory", "search", "rerank", "mark"},
     kind : Kinds, corpora : SUBSET Corpora,
     walked : [Corpora -> {"no", "waiting", "files", "failed", "timeout"}],
     listed : [Corpora -> {"no", "reading", "known", "failed"}],
     searched : [Corpora -> {"no", "grep", "done"}],
     found : SUBSET Files,
     scope : [Files -> Rows \cup {Nothing}],
     queue : SUBSET Files,
     opened : (Files \X Times) \cup {Nothing},
     hits : [Files -> Hits \cup {Nothing}],
     warnings : SUBSET (Corpora \X {"scan", "coverage", "fallback"}),
     blind : SUBSET Corpora, dropped : SUBSET Files, quiet : SUBSET Files]

GRTypeOK ==
    /\ now \in Times
    /\ written \in [Files -> Times \cup {Nothing}]
    /\ page \in [Files -> Times \cup {Nothing}]
    /\ fileMap \in [Files -> Rows \cup {Nothing}]
    /\ content \in SUBSET Times
    /\ built \in BOOLEAN
    /\ walks \in [Corpora -> [at : {"none", "queued", "running", "files", "failed"},
                              todo : SUBSET Files, found : SUBSET Files]]
    /\ req \in [Requests -> Progress]

\* The daemon starts over an empty store and corpora that may hold files.
GRInit ==
    /\ now = 0
    /\ written = Start /\ page = NoFiles
    /\ fileMap = NoFiles /\ content = {} /\ built = FALSE
    /\ walks = [c \in Corpora |-> NoWalk]
    /\ req = [r \in Requests |-> NoRequest]

-----------------------------------------------------------------------------
(* Files and store.                                                        *)

Touched(f) == req' = [r \in Requests |-> [req[r] EXCEPT !.quiet = @ \ {f}]]

Edit(f) ==
    /\ f \in Edited /\ now < MaxTime
    /\ now' = now + 1
    /\ \E v \in {now', Nothing} : v # written[f] /\ written' = [written EXCEPT ![f] = v]
    /\ Touched(f)
    /\ UNCHANGED <<page, store, walks>>

\* The lock of the corpus, with a handler that has pages to index.
Writing(c) == \E f \in FilesOf(c) : page[f] # Nothing

\* Text t gets its content and its row; the text index follows.  The mtime may
\* be smudged to an earlier one.
Commit(f, t, mtimes, writer) ==
    /\ \E m \in mtimes :
          LET row == [key |-> t, mtime |-> m, by |-> writer]
          IN row # fileMap[f] /\ fileMap' = [fileMap EXCEPT ![f] = row]
    /\ content' = content \cup {t}
    /\ Touched(f)

\* A pass, or the watcher, stats the file, then reads it.
IndexFile(f) ==
    /\ written[f] # Nothing /\ ~Writing(CorpusOf[f])
    /\ Commit(f, written[f], 0..written[f], "pass")
    /\ UNCHANGED <<now, written, page, built, walks>>

\* add_markdown writes the page, and the index.md files above it, which may
\* be at the same instant.
WritePage(f) ==
    /\ f \in Pages /\ page[f] = Nothing
    /\ now' \in {now, now + 1} \cap Times /\ now' # written[f]
    /\ written' = [written EXCEPT ![f] = now']
    /\ page' = [page EXCEPT ![f] = now']
    /\ Touched(f)
    /\ UNCHANGED <<store, walks>>

\* It indexes the bytes it wrote, under the mtime the file has by then; or the
\* file is gone, its stat or the commit fails.
IndexPage(f) ==
    /\ page[f] # Nothing
    /\ page' = [page EXCEPT ![f] = Nothing]
    /\ \/ written[f] # Nothing /\ Commit(f, page[f], 0..written[f], "page")
       \/ UNCHANGED <<fileMap, content, req>>
    /\ UNCHANGED <<now, written, built, walks>>

EnsureIndexes ==
    /\ content # {} /\ ~built
    /\ built' = TRUE
    /\ UNCHANGED <<now, written, page, fileMap, content, walks, req>>

RemoveRow(f) ==
    /\ written[f] = Nothing /\ fileMap[f] # Nothing /\ ~Writing(CorpusOf[f])
    /\ fileMap' = [fileMap EXCEPT ![f] = Nothing]
    /\ Touched(f)
    /\ UNCHANGED <<now, written, page, content, built, walks>>

CollectOrphans ==
    /\ content' = {fileMap[f].key : f \in {g \in Files : fileMap[g] # Nothing}}
    /\ content' # content
    /\ UNCHANGED <<now, written, page, fileMap, built, walks, req>>

-----------------------------------------------------------------------------
(* The shared walks.                                                       *)

WalkPermits == Permits - Cardinality({c \in Corpora : walks[c].at = "running"})

\* run_walk has its permit; the scanner starts.
StartScan(c) ==
    /\ walks[c].at = "queued" /\ WalkPermits > 0
    /\ walks' = [walks EXCEPT ![c] = [at |-> "running", todo |-> FilesOf(c), found |-> {}]]
    /\ UNCHANGED <<now, written, page, store, req>>

ScanFile(c, f) ==
    /\ f \in walks[c].todo
    /\ walks' = [walks EXCEPT ![c].todo = @ \ {f},
                              ![c].found = IF written[f] = Nothing THEN @ ELSE @ \cup {f}]
    /\ UNCHANGED <<now, written, page, store, req>>

\* The scanner returns, fails or panics, and drops the permit.
EndScan(c) ==
    /\ walks[c].at = "running"
    /\ \/ walks[c].todo = {} /\ walks' = [walks EXCEPT ![c].at = "files"]
       \/ walks' = [walks EXCEPT ![c] = [NoWalk EXCEPT !.at = "failed"]]
    /\ UNCHANGED <<now, written, page, store, req>>

\* The walk task drops its EntryGuard and ends; those who wait get its result.
EndWalk(c) ==
    /\ walks[c].at \in {"files", "failed"}
    /\ walks' = [walks EXCEPT ![c] = NoWalk]
    /\ req' = [r \in Requests |->
                  IF req[r].walked[c] # "waiting" THEN req[r]
                  ELSE [req[r] EXCEPT !.walked[c] = walks[c].at,
                                      !.found = @ \cup walks[c].found]]
    /\ UNCHANGED <<now, written, page, store>>

-----------------------------------------------------------------------------
(* The inventory.                                                          *)

Arrive(r) ==
    /\ req[r].at = "idle"
    /\ \E o \in Offers[r] :
          req' = [req EXCEPT ![r].at = "inventory", ![r].kind = o[1], ![r].corpora = o[2],
                             ![r].quiet = {f \in Files : CorpusOf[f] \in o[2] /\ written[f] # Nothing}]
    /\ UNCHANGED <<now, written, page, store, walks>>

\* Files that appeared behind a running walk: whoever joins it misses them.
Late(c) == IF walks[c].at \in {"running", "files"}
           THEN FilesOf(c) \ (walks[c].todo \cup walks[c].found) ELSE {}

InInventory(r, c) == req[r].at = "inventory" /\ c \in req[r].corpora

JoinOrStart(r, c) ==
    /\ InInventory(r, c) /\ req[r].walked[c] = "no"
    /\ walks' = IF walks[c].at # "none" THEN walks
                ELSE [walks EXCEPT ![c].at = "queued"]
    /\ req' = [req EXCEPT ![r].walked[c] = "waiting", ![r].quiet = @ \ Late(c)]
    /\ UNCHANGED <<now, written, page, store>>

\* The budget runs from the join, so it covers the wait for a permit too.
WalkTimeout(r, c) ==
    /\ req[r].walked[c] = "waiting" /\ req[r].kind # "stats"
    /\ req' = [req EXCEPT ![r].walked[c] = "timeout"]
    /\ UNCHANGED <<now, written, page, store, walks>>

Listing == {x \in Requests \X Corpora : req[x[1]].listed[x[2]] = "reading"}

\* Mutant: listings take their permit from the gate of the walks.
SharedGateOpen == WalkPermits - Cardinality(Listing) > 0

ListingGateOpen == Cardinality(Listing) < Permits

StartListing(r, c) ==
    /\ InInventory(r, c) /\ req[r].listed[c] = "no"
    /\ ListingGateOpen
    /\ req' = [req EXCEPT ![r].listed[c] = "reading"]
    /\ UNCHANGED <<now, written, page, store, walks>>

\* load_root_index: one read of the root's rows.
EndListing(r, c) ==
    /\ req[r].listed[c] = "reading"
    /\ \/ req' = [req EXCEPT ![r].listed[c] = "known",
                             ![r].scope = [f \in Files |-> IF CorpusOf[f] = c THEN fileMap[f]
                                                                             ELSE @[f]]]
       \/ req' = [req EXCEPT ![r].listed[c] = "failed"]
    /\ UNCHANGED <<now, written, page, store, walks>>

Scanned(r, c) == req[r].found \cap FilesOf(c)

Unindexed(r, c) == {f \in Scanned(r, c) : req[r].scope[f] = Nothing}

Counted(r, c) == req[r].walked[c] = "files" /\ req[r].listed[c] = "known"

InventoryWarnings(r) ==
    {<<c, "scan">> : c \in {d \in req[r].corpora : req[r].walked[d] = "timeout"}}
    \cup {<<c, "coverage">> : c \in {d \in req[r].corpora : Counted(r, d) /\ Unindexed(r, d) # {}}}

Inventoried(r) ==
    /\ req[r].at = "inventory"
    /\ \A c \in req[r].corpora : /\ req[r].walked[c] \in {"files", "failed", "timeout"}
                                 /\ req[r].listed[c] \in {"known", "failed"}
    /\ req' = [req EXCEPT ![r] =
                  IF @.kind = "stats" THEN NoRequest
                  ELSE [@ EXCEPT !.at = "search", !.warnings = InventoryWarnings(r)]]
    /\ UNCHANGED <<now, written, page, store, walks>>
-----------------------------------------------------------------------------
(* The search.                                                             *)

\* Mutant: one indexed file is enough to skip the fallback.
eligible_if_cold(r, c) ==
    IF req[r].walked[c] # "files" \/ (Counted(r, c) /\ Unindexed(r, c) # Scanned(r, c))
    THEN {} ELSE Scanned(r, c)

\* The files of the walk, unless the index covers them all.
eligible(r, c) ==
    IF req[r].walked[c] # "files" \/ (Counted(r, c) /\ Unindexed(r, c) = {})
    THEN {} ELSE Scanned(r, c)

unindexed_candidates(r, c) ==
    IF req[r].kind = "ranked" /\ req[r].listed[c] = "known"
    THEN {f \in eligible(r, c) : req[r].scope[f] = Nothing} ELSE {}

\* load_scope: the rows of the listing, or of a read of its own after a failed
\* one; a scan returns those whose content is still there.
Scope(r, c) == IF req[r].listed[c] = "known" THEN req[r].scope ELSE fileMap

Retrieved(r, c) ==
    {f \in FilesOf(c) : built /\ Scope(r, c)[f] # Nothing /\ Scope(r, c)[f].key \in content}

IndexHit(row) == [text |-> row.key, mtime |-> row.mtime, from |-> row.by, stale |-> Nothing]

\* gather_signals or search_phrase_in; a store error fails the request.  What
\* the code reads no more is cleared.
RetrieveSignals(r, c) ==
    /\ req[r].at = "search" /\ c \in req[r].corpora /\ req[r].searched[c] = "no"
    /\ \/ req' = [req EXCEPT
             ![r].searched[c] = IF unindexed_candidates(r, c) = {} THEN "done" ELSE "grep",
             ![r].queue = @ \cup unindexed_candidates(r, c),
             ![r].found = @ \ FilesOf(c),
             ![r].scope = [f \in Files |-> IF f \in FilesOf(c) THEN Nothing ELSE @[f]],
             ![r].hits = [f \in Files |-> IF f \in Retrieved(r, c)
                                          THEN IndexHit(Scope(r, c)[f]) ELSE @[f]],
             ![r].warnings = IF req[r].kind = "ranked" /\ req[r].listed[c] = "failed"
                             THEN @ \cup {<<c, "fallback">>} ELSE @,
             ![r].blind = IF built THEN @ ELSE @ \cup {c}]
       \/ req' = [req EXCEPT ![r] = NoRequest]
    /\ UNCHANGED <<now, written, page, store, walks>>

\* lexical_fallback_search: grep the first FallbackMax candidates, or warn.
\* What ripgrep found before it failed at other files is kept without a word.
GrepFallback(r, c) ==
    /\ req[r].searched[c] = "grep"
    /\ LET candidates == req[r].queue \cap FilesOf(c)
           Done(matched, lost, notices) ==
              req' = [req EXCEPT ![r].searched[c] = "done",
                                 ![r].queue = (@ \ candidates) \cup matched,
                                 ![r].dropped = @ \cup lost,
                                 ![r].warnings = @ \cup notices]
       IN \/ Done({}, {}, {<<c, "fallback">>})
          \/ \E kept \in SUBSET candidates :
                LET present == {f \in kept : written[f] # Nothing}
                IN \E lost \in SUBSET present :
                     \/ kept = candidates /\ Cardinality(kept) <= FallbackMax
                        /\ Done(present \ lost, lost, {})
                     \/ kept # candidates /\ Cardinality(kept) = FallbackMax
                        /\ Done(present \ lost, lost, {<<c, "fallback">>})
    /\ UNCHANGED <<now, written, page, store, walks>>

\* read_window opens the file and takes its mtime; a file that is gone or
\* cannot be opened gives no hit.
OpenWindow(r, f) ==
    /\ f \in req[r].queue /\ req[r].searched[CorpusOf[f]] = "done"
    /\ req[r].opened = Nothing
    /\ req' = [req EXCEPT ![r].queue = @ \ {f},
                          ![r].opened = IF written[f] = Nothing THEN Nothing ELSE <<f, written[f]>>]
    /\ UNCHANGED <<now, written, page, store, walks>>

\* Mutant: the mtime is taken after the lines.
WindowsMtimeLast(t, u) ==
    {[text |-> x, mtime |-> IF u = Nothing THEN t ELSE u, from |-> "grep", stale |-> Nothing] :
        x \in {t, u} \ {Nothing}}

\* What reading a file opened at text t yields when the path now holds u: the
\* file was replaced or written in place.
Windows(t, u) ==
    {[text |-> x, mtime |-> t, from |-> "grep", stale |-> Nothing] : x \in {t, u} \ {Nothing}}

\* window_hit: no hit, and no word of it, for text that is not UTF-8, a match
\* past MAX_READ_BYTES, an error, or a line that is gone since the match.
ReadWindow(r) ==
    /\ req[r].opened # Nothing
    /\ LET f == req[r].opened[1]
       IN \E h \in Windows(req[r].opened[2], written[f]) \cup {Nothing} :
             req' = [req EXCEPT ![r].hits[f] = h, ![r].opened = Nothing,
                                ![r].dropped = IF h = Nothing THEN @ \cup {f} ELSE @]
    /\ UNCHANGED <<now, written, page, store, walks>>

-----------------------------------------------------------------------------
(* Reranking and staleness.                                                *)

Searched(r) == /\ req[r].at = "search" /\ req[r].queue = {} /\ req[r].opened = Nothing
               /\ \A c \in req[r].corpora : req[r].searched[c] = "done"

\* With a crossencoder configured and fused hits, a rerank task is spawned.
EndSearch(r) ==
    /\ Searched(r)
    /\ \/ req' = [req EXCEPT ![r].at = "mark"]
       \/ /\ req[r].kind = "ranked"
          /\ \E f \in Files : req[r].hits[f] # Nothing /\ req[r].hits[f].from # "grep"
          /\ req' = [req EXCEPT ![r].at = "rerank"]
    /\ UNCHANGED <<now, written, page, store, walks>>

\* The task reranked, found the model's slot busy, failed or panicked.
RerankReturns(r) ==
    /\ req[r].at = "rerank"
    /\ req' = [req EXCEPT ![r].at = "mark"]
    /\ UNCHANGED <<now, written, page, store, walks>>

\* The fusion order is kept; the task goes on by itself and holds the slot.
RerankTimeout(r) ==
    /\ req[r].at = "rerank"
    /\ req' = [req EXCEPT ![r].at = "mark"]
    /\ UNCHANGED <<now, written, page, store, walks>>

Second(t) == (t + 1) \div 2

\* mark_stale compares whole seconds; a missing file is stale.
MarkFile(r, f) ==
    /\ req[r].at = "mark" /\ req[r].hits[f] # Nothing /\ req[r].hits[f].stale = Nothing
    /\ req' = [req EXCEPT ![r].hits[f].stale =
                  written[f] = Nothing \/ Second(written[f]) > Second(req[r].hits[f].mtime)]
    /\ UNCHANGED <<now, written, page, store, walks>>

\* The stat task failed: every hit is marked.
MarkAll(r) ==
    /\ req[r].at = "mark"
    /\ \E f \in Files : req[r].hits[f] # Nothing /\ req[r].hits[f].stale = Nothing
    /\ req' = [req EXCEPT ![r].hits = [f \in Files |-> IF @[f] = Nothing THEN Nothing
                                                       ELSE [@[f] EXCEPT !.stale = TRUE]]]
    /\ UNCHANGED <<now, written, page, store, walks>>

Answering(r) == /\ req[r].at = "mark"
                /\ \A f \in Files : req[r].hits[f] # Nothing => req[r].hits[f].stale # Nothing

Answer(r) ==
    /\ Answering(r)
    /\ req' = [req EXCEPT ![r] = NoRequest]
    /\ UNCHANGED <<now, written, page, store, walks>>

-----------------------------------------------------------------------------
RequestStep(r) ==
    \/ \E c \in Corpora : \/ JoinOrStart(r, c) \/ WalkTimeout(r, c) \/ EndListing(r, c)
                          \/ RetrieveSignals(r, c) \/ GrepFallback(r, c)
    \/ Inventoried(r) \/ ReadWindow(r) \/ EndSearch(r) \/ RerankTimeout(r)
    \/ \E f \in Files : OpenWindow(r, f) \/ MarkFile(r, f)
    \/ MarkAll(r) \/ Answer(r)

\* Whatever runs on the blocking pool or outside the daemon.
Background ==
    \/ \E f \in Files : Edit(f) \/ IndexFile(f) \/ WritePage(f) \/ IndexPage(f) \/ RemoveRow(f)
    \/ EnsureIndexes \/ CollectOrphans
    \/ \E c \in Corpora : \/ StartScan(c) \/ EndScan(c) \/ EndWalk(c)
                          \/ \E f \in Files : ScanFile(c, f)
    \/ \E r \in Requests : RerankReturns(r)

GRNext ==
    \/ \E r \in Requests : \/ Arrive(r) \/ RequestStep(r)
                           \/ \E c \in Corpora : StartListing(r, c)
    \/ Background

\* The steps of a request run if the file systems of its corpora answer: it
\* stats hits and reads windows there without a deadline.  Of a corpus that is
\* not sound no step is assumed but the end of a listing, a read of the store;
\* the root itself, which is resolved under the permit, must answer.  tokio's
\* semaphore serves the listings in order.  Nothing is assumed of walks and
\* models, which may hang, but that there are threads beside those they keep.
GRFairness ==
    \A r \in Requests :
        /\ WF_GRvars(req[r].corpora \subseteq Sound /\ RequestStep(r))
        /\ \A c \in Corpora : WF_GRvars(EndListing(r, c)) /\ SF_GRvars(StartListing(r, c))

GRSpec == GRInit /\ [][GRNext]_GRvars

GRFairSpec == GRSpec /\ GRFairness

-----------------------------------------------------------------------------
(* Correctness.                                                            *)

\* What an answer owes a file that matches: a hit, or, when the file has no
\* row, a warning that some files were not searched.  Three cases are only
\* logged: no text index yet, a walk that failed, and a listing that failed
\* under a phrase query.  What the fallback drops is not even logged.
Accounted(r, f) ==
    LET c == CorpusOf[f] IN
    \/ req[r].hits[f] # Nothing \/ f \in req[r].dropped
    \/ fileMap[f] # Nothing /\ c \in req[r].blind
    \/ /\ fileMap[f] = Nothing
       /\ \/ <<c, "scan">> \in req[r].warnings \/ req[r].walked[c] = "failed"
          \/ <<c, IF req[r].kind = "ranked" THEN "fallback" ELSE "coverage">> \in req[r].warnings
          \/ req[r].kind = "phrase" /\ req[r].listed[c] = "failed"

\* No file that was there all along, indexed or not, falls between the two
\* passes of a search and is missing from the answer without notice, however
\* walk, listing, search, reindexing of other files and orphan collection
\* interleave (corpus_inventory and search_root_ranked: every file is searched
\* by one of the two passes).
NothingMissed ==
    [][\A r \in Requests : Answering(r) /\ req'[r].at = "idle"
          => \A f \in req[r].quiet : Accounted(r, f)]_GRvars

\* A hit that is not marked stale shows what the file says, up to writes in
\* the same second (mark_stale: drift is "never silently hidden").  Excepted
\* is a page that was written again before its handler took the mtime.
HitsHonest ==
    [][\A r \in Requests, f \in Files :
          LET h == req[r].hits[f]
              g == req'[r].hits[f]
          IN h # Nothing /\ h.stale = Nothing /\ g # Nothing /\ g.stale = FALSE
             => \/ written[f] # Nothing /\ Second(written[f]) = Second(h.text)
                \/ h.from = "page" /\ h.mtime > h.text]_GRvars

\* A ground request to corpora whose file systems answer ends, although walks
\* of others hang with every permit and the model never returns (SCAN_BUDGET,
\* rerank_timeout, the listing gate apart).
RequestEnds ==
    \A r \in Requests :
        (req[r].at = "inventory" /\ req[r].kind # "stats" /\ req[r].corpora \subseteq Sound)
        ~> req[r].at = "idle"
=============================================================================
