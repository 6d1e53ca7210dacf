------------------------------- MODULE Pages --------------------------------
(***************************************************************************)
(* The handlers that change the pages of a wiki: add_markdown, alone or in *)
(* a batch, and delete_markdown.  Each takes the mutation guard, composes  *)
(* the page from what it reads, writes it, rewrites the index.md of every  *)
(* directory above it, and indexes what it wrote in one batch.  Any of     *)
(* these steps can fail, and the daemon can crash between two of them.     *)
(*                                                                         *)
(* A directory stands for its own index.md.  The guard holds the corpus    *)
(* lock and the one permit of the write lane (WriteLane); the rows are the *)
(* search index behind it (Indexer, SplitStore).                           *)
(***************************************************************************)
EXTENDS Section, SequencesExt

CONSTANTS
    Clients,
    Pages, Dirs, Root,
    ParentDir,    \* the directory a page or a directory lies in
    Chain,        \* the directories from the root down to one, ancestor_dirs
    Order,        \* the children of all directories by their sort key
    Requests,     \* what clients may ask: sequences of items
    MaxRequests,  \* bound: requests
    MaxFaults     \* bound: failed steps and crashes

Paths == Pages \cup Dirs

Doc == Seq(Line)

ASSUME PagesAssumption ==
    /\ Root \in Dirs /\ Pages \cap Dirs = {}
    /\ Paths \subseteq Words \ {Blank, StartMark, EndMark}
    /\ ParentDir \in [Paths \ {Root} -> Dirs]
    /\ Chain \in [Dirs -> Seq(Dirs)] /\ Chain[Root] = <<Root>>
    /\ \A d \in Dirs \ {Root} : Chain[d] = Append(Chain[ParentDir[d]], d)
    /\ Order \in Seq(Paths \ {Root}) /\ ToSet(Order) = Paths \ {Root}
    /\ None \notin Clients \cup Doc
    /\ MaxRequests \in Nat /\ MaxFaults \in Nat

\* What classify_edit_mode tells apart, and a deletion.
Item ==
    [op : {"whole"}, path : Paths, body : Doc, overwrite : BOOLEAN]
    \cup [op : {"heading"}, path : Paths, heading : Words,
          position : {"append", "prepend"}, body : Doc]
    \cup [op : {"lines"}, path : Paths, start : Nat, end : Nat, body : Doc]
    \cup [op : {"match"}, path : Paths, needle : Line, body : Doc]
    \cup [op : {"delete"}, path : Paths]

ASSUME RequestsAssumption ==
    Requests \subseteq Seq(Item) \ {<<>>}

VARIABLES
    disk,       \* the files of the wiki
    rows,       \* what the search index holds of each file
    guard,      \* holder of the mutation guard
    job,        \* the request each client's handler is at
    requests, faults,
    serial,     \* history: the files, had each change been one step
    rowsTold,   \* history: files whose row an answer, or a crash, left open
    linksTold   \* history: directories whose list was left open

vars == <<disk, rows, guard, job, requests, faults, serial, rowsTold, linksTold>>

Places == {"idle", "lock", "read", "write", "prune", "unlink", "evict",
           "refresh", "put", "index"}

Job == [at : Places,
        items : Seq(Item),                      \* still to be done
        text : Doc \cup {None},                 \* composed, to be written
        todo : Seq(Dirs),                       \* index.md files to rewrite
        bytes : [Paths -> Doc \cup {None}]]     \* written, to be indexed

TypeOK ==
    /\ disk \in [Paths -> Doc \cup {None}]
    /\ rows \in [Paths -> Doc \cup {None}]
    /\ guard \in Clients \cup {None}
    /\ job \in [Clients -> Job]
    /\ requests \in 0..MaxRequests /\ faults \in 0..MaxFaults
    /\ serial \in [Paths -> Doc \cup {None}]
    /\ rowsTold \subseteq Paths /\ linksTold \subseteq Dirs

Nothing == [p \in Paths |-> None]
NoJob   == [at |-> "idle", items |-> <<>>, text |-> None, todo |-> <<>>, bytes |-> Nothing]

Init ==
    /\ disk = Nothing /\ rows = Nothing /\ serial = Nothing
    /\ guard = None /\ job = [c \in Clients |-> NoJob]
    /\ requests = 0 /\ faults = 0
    /\ rowsTold = {} /\ linksTold = {}

Fault == faults < MaxFaults /\ faults' = faults + 1

At(c, place) == job[c].at = place
ItemOf(c)    == Head(job[c].items)
PathOf(c)    == ItemOf(c).path

-----------------------------------------------------------------------------
(* What the handlers compute.                                              *)

\* The directory a file lies in; an index.md lies in its own directory.
Owner(p) == IF p \in Dirs THEN p ELSE ParentDir[p]

ancestor_dirs(p) == Chain[Owner(p)]

dir_contains_markdown(files, d) ==
    \E p \in Paths : files[p] # None /\ \E i \in DOMAIN ancestor_dirs(p) : ancestor_dirs(p)[i] = d

IsChild(files, x, d) ==
    /\ ParentDir[x] = d
    /\ IF x \in Pages THEN files[x] # None ELSE dir_contains_markdown(files, x)

ChildLink(files, x) == Link(x, IF files[x] = None THEN None ELSE read_h1(files[x]))

\* The n-th smallest number of a set.
Nth(S, n) == CHOOSE i \in S : Cardinality({j \in S : j <= i}) = n

\* The children in the order of their sort keys.
enumerate_children(files, d) ==
    LET kids == {i \in DOMAIN Order : IsChild(files, Order[i], d)}
    IN  [n \in 1..Cardinality(kids) |-> ChildLink(files, Order[Nth(kids, n)])]

\* An index.md without markers is left as it is.
compose_index_md(files, d) ==
    LET existing == IF files[d] = None THEN render_scaffold(d) ELSE files[d]
    IN  IF Marked(existing) THEN inject_block(existing, enumerate_children(files, d))
        ELSE existing

\* An edit needs a page to edit and a place in it.
Composable(item, old) ==
    CASE item.op = "whole"   -> TRUE
      [] item.op = "heading" -> old # None /\ CanSplice(old, item.heading)
      [] item.op = "lines"   -> old # None /\ CanReplaceLines(old, item.start, item.end)
      [] item.op = "match"   -> old # None /\ CanReplaceMatch(old, item.needle)

Composed(item, old) ==
    CASE item.op = "whole"   -> item.body
      [] item.op = "heading" -> splice_under_heading(old, item.heading, item.position, item.body)
      [] item.op = "lines"   -> replace_line_range(old, item.start, item.end, item.body)
      [] item.op = "match"   -> replace_unique_match(old, item.needle, item.body)

\* An edit always replaces the page it has read.
force_overwrite(item) == IF item.op = "whole" THEN item.overwrite ELSE TRUE

\* A page that says nothing has no chunks and no row.
Indexed(doc) == IF doc = None THEN None ELSE IF Said(doc) = {} THEN None ELSE doc

\* Mutant: only the directory of the page is refreshed.
OwnerOnly(p) == IF p \in Dirs THEN <<>> ELSE <<Owner(p)>>

\* The author's own index.md, in the last directory of the walk, is the
\* final word.
ToRefresh(p) == IF p \in Dirs THEN Front(ancestor_dirs(p)) ELSE ancestor_dirs(p)

-----------------------------------------------------------------------------
(* Requests and their answers.                                             *)

Arrive(c, r) ==
    /\ At(c, "idle") /\ requests < MaxRequests
    /\ requests' = requests + 1
    /\ job' = [job EXCEPT ![c] = [NoJob EXCEPT !.at = "lock", !.items = r]]
    /\ UNCHANGED <<disk, rows, guard, faults, serial, rowsTold, linksTold>>

\* The item is answered and its guard dropped; a batch goes on with the next
\* one whatever the answer was.
Answered(c) ==
    LET rest == Tail(job[c].items)
    IN  /\ job' = [job EXCEPT ![c] =
                     IF rest = <<>> THEN NoJob
                     ELSE [NoJob EXCEPT !.at = "lock", !.items = rest]]
        /\ guard' = IF guard = c THEN None ELSE guard
        /\ UNCHANGED requests

Goto(c, place) == job' = [job EXCEPT ![c].at = place]

FirstStep(item) == IF item.op = "delete" THEN "unlink" ELSE "read"

\* Mutant: the guard does not keep a second mutation out.
TakeGuardShared(c) ==
    /\ At(c, "lock") /\ guard' = c
    /\ Goto(c, FirstStep(ItemOf(c)))
    /\ UNCHANGED <<disk, rows, requests, faults, serial, rowsTold, linksTold>>

TakeGuard(c) ==
    /\ At(c, "lock") /\ guard = None /\ guard' = c
    /\ Goto(c, FirstStep(ItemOf(c)))
    /\ UNCHANGED <<disk, rows, requests, faults, serial, rowsTold, linksTold>>

\* The debt gate or the lane gives up, the resources cannot be opened, or
\* the page to edit cannot be read: nothing has changed yet.
RefuseItem(c) ==
    /\ At(c, "lock") \/ At(c, "read")
    /\ Fault /\ Answered(c)
    /\ UNCHANGED <<disk, rows, serial, rowsTold, linksTold>>

-----------------------------------------------------------------------------
(* add_markdown                                                            *)

\* The page is read and the new text composed.
ReadPage(c) ==
    /\ At(c, "read") /\ Composable(ItemOf(c), disk[PathOf(c)])
    /\ job' = [job EXCEPT ![c].at = "write",
                          ![c].text = Composed(ItemOf(c), disk[PathOf(c)])]
    /\ UNCHANGED <<disk, rows, guard, requests, faults, serial, rowsTold, linksTold>>

RefuseEdit(c) ==
    /\ At(c, "read") /\ ~Composable(ItemOf(c), disk[PathOf(c)])
    /\ Answered(c)
    /\ UNCHANGED <<disk, rows, faults, serial, rowsTold, linksTold>>

MayWrite(c) == force_overwrite(ItemOf(c)) \/ disk[PathOf(c)] = None

\* The author's index.md keeps the list the author gave it.
OwnList(p) == {p} \cap Dirs

\* atomic_write_no_follow succeeds; an empty page goes past the indexer.
WritePage(c) ==
    LET p == PathOf(c)
    IN  /\ At(c, "write") /\ MayWrite(c)
        /\ disk' = [disk EXCEPT ![p] = job[c].text]
        /\ serial' = [serial EXCEPT ![p] = Composed(ItemOf(c), @)]
        /\ job' = [job EXCEPT ![c].todo = ToRefresh(p),
                              ![c].at = IF Said(job[c].text) = {} THEN "prune" ELSE "refresh",
                              ![c].bytes[p] = Indexed(job[c].text)]
        /\ linksTold' = linksTold \cup OwnList(p)
        /\ UNCHANGED <<rows, guard, requests, faults, rowsTold>>

RefuseWrite(c) ==
    /\ At(c, "write") /\ ~MayWrite(c)
    /\ Answered(c)
    /\ UNCHANGED <<disk, rows, faults, serial, rowsTold, linksTold>>

\* An answer that is no success leaves the page and the lists above it open.
LeaveOpen(p) ==
    /\ rowsTold' = rowsTold \cup {p}
    /\ linksTold' = linksTold \cup ToSet(ancestor_dirs(p))

\* The write fails: a replaced file is the old one or, when only the sync of
\* the directory failed, the new one; a new file keeps what had been written.
FailWrite(c) ==
    LET p == PathOf(c)
        old == disk[p]
    IN  /\ At(c, "write") /\ MayWrite(c) /\ Fault
        /\ \E left \in {old, job[c].text}
                 \cup (IF force_overwrite(ItemOf(c)) THEN {}
                       ELSE {SubSeq(job[c].text, 1, n) : n \in 0..Len(job[c].text)}) :
             /\ disk' = [disk EXCEPT ![p] = left]
             /\ serial' = [serial EXCEPT ![p] =
                             IF left = old THEN @
                             ELSE IF left = job[c].text THEN Composed(ItemOf(c), @)
                             ELSE left]
        /\ LeaveOpen(p)
        /\ Answered(c)
        /\ UNCHANGED rows

\* Mutant: an emptied page keeps its row.
PrunePageSkipped(c) ==
    /\ At(c, "prune") /\ Goto(c, "refresh")
    /\ UNCHANGED <<disk, rows, guard, requests, faults, serial, rowsTold, linksTold>>

\* An emptied page loses its row; a page created empty has none to lose.
PrunePage(c) ==
    LET p == PathOf(c)
    IN  /\ At(c, "prune")
        /\ IF force_overwrite(ItemOf(c))
           THEN rows' = [rows EXCEPT ![p] = None] /\ rowsTold' = rowsTold \ {p}
           ELSE UNCHANGED <<rows, rowsTold>>
        /\ Goto(c, "refresh")
        /\ UNCHANGED <<disk, guard, requests, faults, serial, linksTold>>

-----------------------------------------------------------------------------
(* delete_markdown                                                         *)

UnlinkPage(c) ==
    LET p == PathOf(c)
    IN  /\ At(c, "unlink") /\ disk[p] # None
        /\ disk' = [disk EXCEPT ![p] = None]
        /\ serial' = [serial EXCEPT ![p] = None]
        /\ job' = [job EXCEPT ![c].at = "evict", ![c].todo = ToRefresh(p)]
        /\ linksTold' = linksTold \cup OwnList(p)
        /\ UNCHANGED <<rows, guard, requests, faults, rowsTold>>

RefuseUnlink(c) ==
    /\ At(c, "unlink")
    /\ \/ disk[PathOf(c)] = None /\ UNCHANGED faults
       \/ Fault
    /\ Answered(c)
    /\ UNCHANGED <<disk, rows, serial, rowsTold, linksTold>>

EvictPage(c) ==
    LET p == PathOf(c)
    IN  /\ At(c, "evict")
        /\ rows' = [rows EXCEPT ![p] = None]
        /\ rowsTold' = rowsTold \ {p}
        /\ Goto(c, "refresh")
        /\ UNCHANGED <<disk, guard, requests, faults, serial, linksTold>>

\* The store fails after the file has changed: an error, and no refresh.
FailStore(c) ==
    /\ At(c, "prune") \/ At(c, "evict")
    /\ Fault
    /\ LeaveOpen(PathOf(c))
    /\ Answered(c)
    /\ UNCHANGED <<disk, rows, serial>>

-----------------------------------------------------------------------------
(* The index.md files above the page, from the root down.                  *)

Refreshing(c) == At(c, "refresh") /\ job[c].todo # <<>>

\* An index.md that would not change, or has no markers, is not written.
ComposeIndex(c) ==
    LET d   == Head(job[c].todo)
        new == compose_index_md(disk, d)
    IN  /\ Refreshing(c)
        /\ IF new = disk[d]
           THEN /\ job' = [job EXCEPT ![c].todo = Tail(@)]
                /\ linksTold' = IF Marked(new) THEN linksTold \ {d} ELSE linksTold
           ELSE /\ job' = [job EXCEPT ![c].at = "put", ![c].text = new]
                /\ UNCHANGED linksTold
        /\ UNCHANGED <<disk, rows, guard, requests, faults, serial, rowsTold>>

\* The list of the parent was composed before: when this index.md is the
\* first file of its directory again, the parent does not name it.
PutIndex(c) ==
    LET d == Head(job[c].todo)
    IN  /\ At(c, "put")
        /\ disk' = [disk EXCEPT ![d] = job[c].text]
        /\ serial' = [serial EXCEPT ![d] = compose_index_md(serial, d)]
        /\ job' = [job EXCEPT ![c].at = "refresh", ![c].todo = Tail(@),
                              ![c].bytes[d] = Indexed(job[c].text)]
        /\ linksTold' = (linksTold \ {d}) \cup
                          (IF d # Root /\ ~dir_contains_markdown(disk, d)
                           THEN {ParentDir[d]} ELSE {})
        /\ UNCHANGED <<rows, guard, requests, faults, rowsTold>>

\* The walk stops; what it has written is still indexed.
FailRefresh(c) ==
    LET d == Head(job[c].todo)
    IN  /\ Refreshing(c) \/ At(c, "put")
        /\ Fault
        /\ \/ UNCHANGED <<disk, serial, rowsTold>>
           \/ /\ At(c, "put")
              /\ disk' = [disk EXCEPT ![d] = job[c].text]
              /\ serial' = [serial EXCEPT ![d] = compose_index_md(serial, d)]
              /\ rowsTold' = rowsTold \cup {d}
        /\ linksTold' = linksTold \cup ToSet(ancestor_dirs(PathOf(c)))
        /\ job' = [job EXCEPT ![c].at = "refresh", ![c].todo = <<>>]
        /\ UNCHANGED <<rows, guard, requests>>

-----------------------------------------------------------------------------
(* One batch for the page and the index.md files.                          *)

Refreshed(c) == At(c, "refresh") /\ job[c].todo = <<>>
Batch(c)     == {p \in Paths : job[c].bytes[p] # None}

Commit(c, files) ==
    rows' = [p \in Paths |-> IF p \in files THEN job[c].bytes[p] ELSE rows[p]]

\* Files that cannot be planned are skipped and named in the answer, unless
\* the page is one of them.
IndexBatch(c) ==
    /\ Refreshed(c)
    /\ \E skipped \in SUBSET (Batch(c) \ {PathOf(c)}) :
         /\ IF skipped = {} THEN UNCHANGED faults ELSE Fault
         /\ Commit(c, Batch(c) \ skipped)
         /\ rowsTold' = (rowsTold \ Batch(c)) \cup skipped
    /\ Answered(c)
    /\ UNCHANGED <<disk, serial, linksTold>>

\* apply commits new files before changed ones and may fail in between.
FailBatch(c) ==
    /\ Refreshed(c) /\ Batch(c) # {} /\ Fault
    /\ \E done \in {{}, {p \in Batch(c) : rows[p] = None}} : Commit(c, done)
    /\ rowsTold' = rowsTold \cup Batch(c)
    /\ Answered(c)
    /\ UNCHANGED <<disk, serial, linksTold>>

\* A pass over the corpus (index_corpus, catch_up_corpus) that completes;
\* Indexer shows what it does step by step.  It writes no index.md.
IndexCorpus ==
    /\ guard = None
    /\ rows' = [p \in Paths |-> Indexed(disk[p])]
    /\ rowsTold' = {}
    /\ UNCHANGED <<disk, guard, job, requests, faults, serial, linksTold>>

\* The daemon dies: the handlers and the guard go, the files and rows stay.
Crash ==
    LET hit == {PathOf(c) : c \in {c \in Clients : guard = c}}
    IN  /\ Fault
        /\ job' = [c \in Clients |-> NoJob] /\ guard' = None
        /\ rowsTold' = rowsTold \cup hit
             \cup UNION {Batch(c) : c \in Clients}
        /\ linksTold' = linksTold \cup UNION {ToSet(ancestor_dirs(p)) : p \in hit}
        /\ UNCHANGED <<disk, rows, requests, serial>>

Handle(c) ==
    \/ TakeGuard(c) \/ RefuseItem(c)
    \/ ReadPage(c) \/ RefuseEdit(c) \/ WritePage(c) \/ RefuseWrite(c) \/ FailWrite(c)
    \/ PrunePage(c) \/ UnlinkPage(c) \/ RefuseUnlink(c) \/ EvictPage(c) \/ FailStore(c)
    \/ ComposeIndex(c) \/ PutIndex(c) \/ FailRefresh(c)
    \/ IndexBatch(c) \/ FailBatch(c)

Next ==
    \/ \E c \in Clients : (\E r \in Requests : Arrive(c, r)) \/ Handle(c)
    \/ IndexCorpus \/ Crash

Spec == Init /\ [][Next]_vars

-----------------------------------------------------------------------------
(* Properties.                                                             *)

\* Every file is what the changes that reached it make of it one after the
\* other: no edit is composed from text another request has replaced since,
\* and no rewritten list takes an author's line with it.
NoLostUpdate == disk = serial

\* The place of the block in the text to be written.
SpliceAt(c) ==
    LET item == ItemOf(c)
    IN  SplicePoint(disk[item.path], item.heading, item.position)

\* A fragment without headings spliced under one leaves every other line of
\* the page under the headings it had, is itself under that heading, and is
\* the first or the last text there as asked.
OutlineKept ==
    \A c \in Clients :
      At(c, "write") /\ ItemOf(c).op = "heading" /\ Headings(ItemOf(c).body) = {} =>
        LET old   == disk[PathOf(c)]
            new   == job[c].text
            size  == Len(new) - Len(old)
            k     == SpliceAt(c)
            h     == ItemOf(c).heading
            After(i) == IF i < k THEN i ELSE i + size
        IN  /\ \A i \in DOMAIN old :
                  /\ new[After(i)] = old[i]
                  /\ HeadingsOf(new, After(i)) = HeadingsOf(old, i)
            /\ \A i \in k..(k + size - 1) : h \in HeadingsOf(new, i)
            /\ \A i \in DOMAIN new :
                  h \in HeadingsOf(new, i) =>
                    IF ItemOf(c).position = "append" THEN i < k + size ELSE i >= k

\* Once no mutation runs, the search index holds of every file what the file
\* says, but for the files that an answer named as not indexed or that a
\* crash left behind, until a pass or a later change of the file.
RowsAccounted ==
    guard = None => \A p \in Paths : rows[p] = Indexed(disk[p]) \/ p \in rowsTold

LinkedNames(doc) == {Block(doc)[i].text : i \in DOMAIN Block(doc)}

\* The index.md of a directory names its children.
ListFresh(d) ==
    IF disk[d] = None THEN ~dir_contains_markdown(disk, d)
    ELSE Marked(disk[d]) =>
           LinkedNames(disk[d]) = {x \in Paths \ {Root} : IsChild(disk, x, d)}

\* Once no mutation runs, every directory with markdown has an index.md, and
\* one with markers names exactly the pages and directories in it, but for
\* the directories whose refresh an answer reported or a crash cut short, or
\* whose index.md the author wrote, or whose child the walk itself revived.
LinksAccounted ==
    guard = None => \A d \in Dirs : ListFresh(d) \/ d \in linksTold
=============================================================================
