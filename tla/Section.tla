------------------------------- MODULE Section -------------------------------
(***************************************************************************)
(* The text functions behind a page edit: what an edit mode makes of the   *)
(* page it finds (corpus/section.rs), and the generated block of an        *)
(* index.md (corpus/index_md.rs).                                          *)
(*                                                                         *)
(* A document is a sequence of lines, each ended by its newline.  Where    *)
(* the headings are is the business of the markdown parser: a line has the *)
(* level of its heading, or 0.  A link line names its target and the       *)
(* target's title.                                                         *)
(***************************************************************************)
EXTENDS Integers, Sequences, FiniteSets, FiniteSetsExt

CONSTANTS
    Words,               \* what a line may say
    Blank,               \* an empty line
    StartMark, EndMark,  \* INDEX_START_MARKER, INDEX_END_MARKER
    None

ASSUME SectionAssumption ==
    /\ {Blank, StartMark, EndMark} \subseteq Words /\ None \notin Words
    /\ Cardinality({Blank, StartMark, EndMark}) = 3

Line == [level : 0..6, text : Words, gloss : Words \cup {None}]

Plain(w)      == [level |-> 0, text |-> w, gloss |-> None]
Heading(n, w) == [level |-> n, text |-> w, gloss |-> None]
Link(w, g)    == [level |-> 0, text |-> w, gloss |-> g]

Said(doc) == {i \in DOMAIN doc : doc[i] # Plain(Blank)}

\* Without its empty last lines.
TrimEnd(doc) == SubSeq(doc, 1, Max(Said(doc) \cup {0}))

\* Without its empty first and last lines.
TrimEnds(doc) == IF Said(doc) = {} THEN <<>> ELSE SubSeq(doc, Min(Said(doc)), Max(Said(doc)))

\* The lines of a text ended by a newline: no text leaves an empty line.
Ended(doc) == IF doc = <<>> THEN <<Plain(Blank)>> ELSE doc

\* An empty line on either side: the fragment never fuses with its neighbours.
normalize_block(fragment) == <<Plain(Blank)>> \o Ended(TrimEnd(fragment)) \o <<Plain(Blank)>>

Headings(doc)   == {i \in DOMAIN doc : doc[i].level > 0}
Matches(doc, h) == {i \in Headings(doc) : doc[i].text = h}

\* Mutant: only a higher heading ends a section.
higher_heading(doc, i) ==
    Min({j \in Headings(doc) : j > i /\ doc[j].level < doc[i].level} \cup {Len(doc) + 1})

\* A section ends before the first later heading of its level or a higher one.
section_end(doc, i) ==
    Min({j \in Headings(doc) : j > i /\ doc[j].level <= doc[i].level} \cup {Len(doc) + 1})

\* A heading that is missing or ambiguous is an error.
CanSplice(doc, h) == Cardinality(Matches(doc, h)) = 1

SplicePoint(doc, h, position) ==
    LET i == CHOOSE j \in Matches(doc, h) : TRUE
    IN  IF position = "append" THEN section_end(doc, i) ELSE i + 1

splice_under_heading(doc, h, position, fragment) ==
    LET k == SplicePoint(doc, h, position)
    IN  SubSeq(doc, 1, k - 1) \o normalize_block(fragment) \o SubSeq(doc, k, Len(doc))

\* Zero, an inverted range and one past the last line are errors.
CanReplaceLines(doc, start, end) == 1 <= start /\ start <= end /\ end <= Len(doc)

replace_line_range(doc, start, end, body) ==
    SubSeq(doc, 1, start - 1) \o Ended(TrimEnds(body)) \o SubSeq(doc, end + 1, Len(doc))

Occurrences(doc, needle) == {i \in DOMAIN doc : doc[i] = needle}

\* No occurrence and several are errors.
CanReplaceMatch(doc, needle) == Cardinality(Occurrences(doc, needle)) = 1

replace_unique_match(doc, needle, body) ==
    LET i == CHOOSE j \in Occurrences(doc, needle) : TRUE
    IN  SubSeq(doc, 1, i - 1) \o body \o SubSeq(doc, i + 1, Len(doc))

-----------------------------------------------------------------------------
(* index.md                                                                *)

\* The title of a page is a first-level heading that nothing precedes.
read_h1(doc) ==
    IF Said(doc) # {} /\ doc[Min(Said(doc))].level = 1
    THEN doc[Min(Said(doc))].text ELSE None

Starts(doc) == {i \in DOMAIN doc : doc[i] = Plain(StartMark)}
Ends(doc)   == {i \in DOMAIN doc : doc[i] = Plain(EndMark)
                                   /\ i > Min(Starts(doc))}

\* Without both markers the author has opted out.
Marked(doc) == Starts(doc) # {} /\ Ends(doc) # {}

\* What lies between the markers is the daemon's, the rest the author's.
inject_block(doc, body) ==
    SubSeq(doc, 1, Min(Starts(doc))) \o body \o SubSeq(doc, Min(Ends(doc)), Len(doc))

Block(doc) == SubSeq(doc, Min(Starts(doc)) + 1, Min(Ends(doc)) - 1)

render_scaffold(title) ==
    <<Heading(1, title), Plain(Blank), Plain(StartMark), Plain(EndMark)>>

-----------------------------------------------------------------------------
(* The outline, as a reader of the page sees it.                           *)

\* The headings a line stands under: those no later heading of their level
\* or a higher one has closed.
Above(doc, j) == {i \in Headings(doc) : i < j /\
                    \A k \in Headings(doc) : i < k /\ k <= j => doc[k].level > doc[i].level}

HeadingsOf(doc, j) == {doc[i].text : i \in Above(doc, j)}
=============================================================================
