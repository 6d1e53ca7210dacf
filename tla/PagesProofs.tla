----------------------------- MODULE PagesProofs ------------------------------
(***************************************************************************)
(* Proofs about Pages, for any wiki, clients, requests and bounds.  None   *)
(* of the four properties is inductive: each needs that the mutation guard *)
(* keeps everyone else out between the steps of a handler, and what the    *)
(* handler has in hand at each of them - the text it composed, the         *)
(* index.md files it has still to rewrite, the bytes it has still to       *)
(* index.                                                                  *)
(*                                                                         *)
(* The first half is about the operators: texts, outlines, lists and the   *)
(* directories above a page.  The second states the inductive invariant    *)
(* and has one lemma per action.                                           *)
(***************************************************************************)
EXTENDS Pages, FiniteSetTheorems, SequenceTheorems, WellFoundedInduction, TLAPS

-----------------------------------------------------------------------------
(* Numbers, and the depth of a directory.                                  *)

\* How many directories there are from the root down to one.
Depth(d) == Len(Chain[d])

\* A set of numbers that is not empty has a smallest one.
LEMMA LeastNat == ASSUME NEW T \in SUBSET Nat, T # {} PROVE \E x \in T : \A y \in T : x <= y
<1> DEFINE R == OpToRel(<, Nat)
<1>1. PICK x \in T : \A y \in T : <<y, x>> \notin R
  <2>1. T \subseteq Nat
    OBVIOUS
  <2> QED
    BY <2>1, NatLessThanWellFounded, WFMin, Zenon
<1>2. \A y \in T : ~(y < x)
  BY <1>1 DEF OpToRel
<1> QED
  BY <1>2

\* The smallest number of a set is one of its numbers.
LEMMA MinOf ==
    ASSUME NEW T \in SUBSET Nat, T # {}
    PROVE  Min(T) \in T /\ \A y \in T : Min(T) <= y
BY LeastNat DEF Min

\* So is the greatest number of a bounded set.
LEMMA MaxOf ==
    ASSUME NEW T \in SUBSET Nat, T # {}, NEW n \in Nat, \A y \in T : y <= n
    PROVE  Max(T) \in T /\ \A y \in T : Max(T) >= y
<1> DEFINE U == {m \in Nat : \A y \in T : y <= m}
<1>1. PICK m \in U : \A k \in U : m <= k
  BY LeastNat
<1>2. m \in T
  <2> SUFFICES ASSUME m \notin T PROVE FALSE
    OBVIOUS
  <2>1. PICK y \in T : TRUE
    OBVIOUS
  <2>2. m > 0
    BY <2>1
  <2>3. m - 1 \in U
    BY <2>2
  <2> QED
    BY <2>3, <1>1
<1> QED
  BY <1>2 DEF Max

\* The directories above a directory are in the order of their depth, each
\* below the one before, and those above one of them are the first of them.
ChainSound(d) ==
    \A i \in 1..Depth(d) :
        /\ Depth(Chain[d][i]) = i
        /\ i > 1 => Chain[d][i] # Root /\ ParentDir[Chain[d][i]] = Chain[d][i - 1]
        /\ i = 1 => Chain[d][i] = Root
        /\ \A j \in 1..i : Chain[Chain[d][i]][j] = Chain[d][j]

\* The directories above any directory are such a chain, down to itself.
LEMMA ChainLemma ==
    ASSUME NEW d \in Dirs
    PROVE  /\ Chain[d] \in Seq(Dirs) /\ Depth(d) \in Nat /\ Depth(d) >= 1
           /\ Chain[d][Depth(d)] = d
           /\ ChainSound(d)
<1>1. \A e \in Dirs : Chain[e] \in Seq(Dirs) /\ Depth(e) \in Nat
  BY PagesAssumption DEF Depth, Paths
<1>2. ASSUME NEW e \in Dirs, e # Root
      PROVE  /\ ParentDir[e] \in Dirs /\ Depth(e) = Depth(ParentDir[e]) + 1
             /\ Chain[e][Depth(e)] = e
             /\ \A i \in 1..Depth(ParentDir[e]) : Chain[e][i] = Chain[ParentDir[e]][i]
  <2>1. ParentDir[e] \in Dirs
    BY <1>2, PagesAssumption DEF Paths
  <2>2. Chain[e] = Append(Chain[ParentDir[e]], e)
    BY <1>2, PagesAssumption
  <2> QED
    BY <2>1, <2>2, <1>1, AppendProperties DEF Depth
<1>3. Depth(Root) = 1 /\ Chain[Root][1] = Root
  BY PagesAssumption DEF Depth
<1>4. \A e \in Dirs : Depth(e) >= 1 /\ Chain[e][Depth(e)] = e
  <2> SUFFICES ASSUME NEW e \in Dirs PROVE Depth(e) >= 1 /\ Chain[e][Depth(e)] = e
    OBVIOUS
  <2>1. CASE e = Root
    BY <2>1, <1>3
  <2>2. CASE e # Root
    <3>1. ParentDir[e] \in Dirs /\ Depth(e) = Depth(ParentDir[e]) + 1 /\ Chain[e][Depth(e)] = e
      BY <2>2, <1>2
    <3> QED
      BY <3>1, <1>1
  <2> QED
    BY <2>1, <2>2
<1>5. ChainSound(d)
  <2> SUFFICES ASSUME ~ChainSound(d) PROVE FALSE
    OBVIOUS
  <2> DEFINE Bad == {n \in Nat : \E e \in Dirs : Depth(e) = n /\ ~ChainSound(e)}
  <2>1. Bad \in SUBSET Nat /\ Depth(d) \in Bad
    BY <1>1
  <2>2. PICK n \in Bad : \A m \in Bad : n <= m
    BY <2>1, LeastNat, Zenon
  <2>3. PICK e \in Dirs : Depth(e) = n /\ ~ChainSound(e)
    BY <2>2
  <2> HIDE DEF Bad
  <2>4. e # Root
    <3> SUFFICES ASSUME e = Root PROVE ChainSound(e)
      BY <2>3
    <3>1. \A i \in 1..Depth(e) : i = 1 /\ Chain[e][i] = Root
      BY <1>3
    <3> QED
      BY <3>1, <1>3 DEF ChainSound
  <2> DEFINE f == ParentDir[e]
  <2>5. f \in Dirs /\ Depth(e) = Depth(f) + 1 /\ Chain[e][Depth(e)] = e
        /\ \A i \in 1..Depth(f) : Chain[e][i] = Chain[f][i]
    BY <2>4, <1>2
  <2> HIDE DEF f
  <2>6. ChainSound(f)
    BY <2>2, <2>3, <2>5, <1>1 DEF Bad
  <2>7. ChainSound(e)
    <3> SUFFICES ASSUME NEW i \in 1..Depth(e)
                 PROVE  /\ Depth(Chain[e][i]) = i
                        /\ i > 1 => Chain[e][i] # Root /\ ParentDir[Chain[e][i]] = Chain[e][i - 1]
                        /\ i = 1 => Chain[e][i] = Root
                        /\ \A j \in 1..i : Chain[Chain[e][i]][j] = Chain[e][j]
      BY DEF ChainSound
    <3>1. CASE i = Depth(e)
      <4>1. Chain[e][i] = e /\ i > 1 /\ Chain[e][i - 1] = Chain[f][i - 1]
        <5>1. Depth(f) \in Nat /\ Depth(f) >= 1 /\ Depth(e) = Depth(f) + 1
          BY <2>5, <1>1, <1>4
        <5>2. i - 1 = Depth(f) /\ i - 1 \in 1..Depth(f)
          BY <5>1, <3>1
        <5> QED
          BY <5>2, <3>1, <2>5
      <4>2. Chain[e][i - 1] = f
        BY <4>1, <3>1, <2>5, <1>1, <1>4
      <4> QED
        BY <4>1, <4>2, <3>1, <2>4 DEF f
    <3>2. CASE i # Depth(e)
      <4>1. i \in 1..Depth(f) /\ Chain[e][i] = Chain[f][i]
        BY <3>2, <2>5, <1>1
      <4>2. \A j \in 1..i : Chain[e][j] = Chain[f][j]
        BY <4>1, <2>5, <1>1
      <4> QED
        BY <4>1, <4>2, <2>6 DEF ChainSound
    <3> QED
      BY <3>1, <3>2
  <2> QED
    BY <2>7, <2>3
<1> QED
  BY <1>1, <1>4, <1>5

-----------------------------------------------------------------------------
(* The text functions.                                                     *)

\* A plain line is a line, and no heading.
LEMMA PlainType == ASSUME NEW w \in Words PROVE Plain(w) \in Line /\ Plain(w).level = 0
BY DEF Plain, Line

\* Two things are at most two.
LEMMA PairSmall == ASSUME NEW x, NEW y PROVE Cardinality({x} \cup {y}) <= 2
<1>1. IsFiniteSet({x}) /\ Cardinality({x}) = 1
  BY FS_Singleton
<1>2. Cardinality({x} \cup {y}) = IF y \in {x} THEN Cardinality({x}) ELSE Cardinality({x}) + 1
  BY <1>1, FS_AddElement, Zenon
<1> QED
  BY <1>1, <1>2

\* The empty line and the two marker lines are three different words.
LEMMA MarkWords ==
    /\ Blank \in Words /\ StartMark \in Words /\ EndMark \in Words
    /\ Plain(Blank) # Plain(StartMark) /\ Plain(StartMark) # Plain(EndMark)
<1>1. Blank \in Words /\ StartMark \in Words /\ EndMark \in Words
  BY SectionAssumption
<1>2. ASSUME Blank = StartMark PROVE FALSE
  <2>1. {Blank, StartMark, EndMark} = {StartMark} \cup {EndMark}
    BY <1>2
  <2>2. Cardinality({StartMark} \cup {EndMark}) <= 2
    BY PairSmall
  <2> QED
    BY <2>1, <2>2, SectionAssumption
<1>3. ASSUME StartMark = EndMark PROVE FALSE
  <2>1. {Blank, StartMark, EndMark} = {StartMark} \cup {Blank}
    BY <1>3
  <2>2. Cardinality({StartMark} \cup {Blank}) <= 2
    BY PairSmall
  <2> QED
    BY <2>1, <2>2, SectionAssumption
<1> QED
  BY <1>1, <1>2, <1>3 DEF Plain

\* A stretch of a text is a text, with the lines of that stretch.
LEMMA SubDoc ==
    ASSUME NEW doc \in Doc, NEW m \in 1..(Len(doc) + 1), NEW n \in 0..Len(doc)
    PROVE  /\ SubSeq(doc, m, n) \in Doc
           /\ Len(SubSeq(doc, m, n)) = IF m <= n THEN n - m + 1 ELSE 0
           /\ \A i \in 1..(n - m + 1) : SubSeq(doc, m, n)[i] = doc[m + i - 1]
<1>1. \A i \in m..n : doc[i] \in Line
  BY DEF Doc
<1>2. m \in Int /\ n \in Int
  OBVIOUS
<1> QED
  BY <1>1, <1>2, SubSeqProperties DEF Doc

\* Two texts in a row are a text, with the lines of both.
LEMMA Join2 ==
    ASSUME NEW s \in Doc, NEW t \in Doc
    PROVE  /\ s \o t \in Doc
           /\ Len(s \o t) = Len(s) + Len(t)
           /\ \A i \in 1..Len(s) : (s \o t)[i] = s[i]
           /\ \A i \in 1..Len(t) : (s \o t)[Len(s) + i] = t[i]
<1>1. Len(s) \in Nat /\ Len(t) \in Nat
  BY DEF Doc
<1> QED
  BY <1>1, ConcatProperties DEF Doc

\* So are three.
LEMMA Join ==
    ASSUME NEW s \in Doc, NEW t \in Doc, NEW u \in Doc
    PROVE  /\ s \o t \o u \in Doc
           /\ Len(s \o t \o u) = Len(s) + Len(t) + Len(u)
           /\ \A i \in 1..Len(s) : (s \o t \o u)[i] = s[i]
           /\ \A i \in 1..Len(t) : (s \o t \o u)[Len(s) + i] = t[i]
           /\ \A i \in 1..Len(u) : (s \o t \o u)[Len(s) + Len(t) + i] = u[i]
<1>1. Len(s) \in Nat /\ Len(t) \in Nat /\ Len(u) \in Nat
  BY DEF Doc
<1> DEFINE st == s \o t
<1>2. /\ st \in Doc /\ Len(st) = Len(s) + Len(t)
      /\ \A i \in 1..Len(s) : st[i] = s[i]
      /\ \A i \in 1..Len(t) : st[Len(s) + i] = t[i]
  BY Join2, Zenon
<1> HIDE DEF st
<1>3. /\ st \o u \in Doc /\ Len(st \o u) = Len(st) + Len(u)
      /\ \A i \in 1..Len(st) : (st \o u)[i] = st[i]
      /\ \A i \in 1..Len(u) : (st \o u)[Len(st) + i] = u[i]
  BY <1>2, Join2, Zenon
<1>4. \A i \in 1..Len(t) : Len(s) + i \in 1..Len(st)
  BY <1>1, <1>2
<1>5. \A i \in 1..Len(s) : i \in 1..Len(st)
  BY <1>1, <1>2
<1>6. /\ \A i \in 1..Len(s) : (st \o u)[i] = s[i]
      /\ \A i \in 1..Len(t) : (st \o u)[Len(s) + i] = t[i]
  BY <1>2, <1>3, <1>4, <1>5
<1> QED
  BY <1>1, <1>2, <1>3, <1>6 DEF st

\* The first and the last line that say something are lines of the text.
LEMMA SaidLemma ==
    ASSUME NEW doc \in Doc, Said(doc) # {}
    PROVE  /\ Min(Said(doc)) \in 1..Len(doc) /\ Max(Said(doc)) \in 1..Len(doc)
           /\ Min(Said(doc)) <= Max(Said(doc))
<1>1. Len(doc) \in Nat /\ Said(doc) \in SUBSET Nat /\ \A i \in Said(doc) : i \in 1..Len(doc) /\ i <= Len(doc)
  BY DEF Doc, Said
<1>2. Min(Said(doc)) \in Said(doc) /\ \A y \in Said(doc) : Min(Said(doc)) <= y
  BY <1>1, MinOf
<1>3. Max(Said(doc)) \in Said(doc)
  <2>1. \A i \in Said(doc) : i <= Len(doc)
    BY <1>1
  <2> QED
    BY <1>1, <2>1, MaxOf, Zenon
<1> QED
  BY <1>1, <1>2, <1>3

\* A text without its empty last lines is a text, and its lines are first ones.
LEMMA TrimEndLemma ==
    ASSUME NEW doc \in Doc
    PROVE  /\ TrimEnd(doc) \in Doc
           /\ \A i \in 1..Len(TrimEnd(doc)) : i \in 1..Len(doc) /\ TrimEnd(doc)[i] = doc[i]
<1> DEFINE n == Max(Said(doc) \cup {0})
<1>1. n \in 0..Len(doc)
  <2>1. /\ Len(doc) \in Nat /\ Said(doc) \cup {0} \in SUBSET Nat
        /\ \A i \in Said(doc) \cup {0} : i <= Len(doc)
    BY DEF Doc, Said
  <2>2. n \in Said(doc) \cup {0}
    BY <2>1, MaxOf
  <2> QED
    BY <2>1, <2>2
<1>2. 1 \in 1..(Len(doc) + 1) /\ Len(doc) \in Nat
  BY DEF Doc
<1> HIDE DEF n
<1>3. /\ SubSeq(doc, 1, n) \in Doc
      /\ Len(SubSeq(doc, 1, n)) = n
      /\ \A i \in 1..n : SubSeq(doc, 1, n)[i] = doc[i]
  BY <1>1, <1>2 DEF Doc
<1>4. TrimEnd(doc) = SubSeq(doc, 1, n)
  BY DEF TrimEnd, n
<1> QED
  BY <1>1, <1>2, <1>3, <1>4

\* A text without its empty first and last lines is a text.
LEMMA TrimEndsType == ASSUME NEW doc \in Doc PROVE TrimEnds(doc) \in Doc
<1>1. CASE Said(doc) = {}
  BY <1>1 DEF TrimEnds, Doc
<1>2. CASE Said(doc) # {}
  <2>1. /\ Min(Said(doc)) \in 1..(Len(doc) + 1) /\ Max(Said(doc)) \in 0..Len(doc)
    BY <1>2, SaidLemma DEF Doc
  <2> QED
    BY <1>2, <2>1, SubDoc DEF TrimEnds
<1> QED
  BY <1>1, <1>2

\* An empty line alone is a text.
LEMMA BlankDoc == <<Plain(Blank)>> \in Doc
BY MarkWords, PlainType DEF Doc

\* A text ended by its newline is a text.
LEMMA EndedType == ASSUME NEW doc \in Doc PROVE Ended(doc) \in Doc
BY BlankDoc DEF Ended

\* A block around a fragment without headings has none.
LEMMA BlockLemma ==
    ASSUME NEW fragment \in Doc
    PROVE  /\ normalize_block(fragment) \in Doc
           /\ Headings(fragment) = {} => Headings(normalize_block(fragment)) = {}
<1> DEFINE b == <<Plain(Blank)>>
           t == Ended(TrimEnd(fragment))
<1>1. b \in Doc /\ t \in Doc /\ Len(b) = 1 /\ b[1] = Plain(Blank) /\ Plain(Blank).level = 0
  BY BlankDoc, TrimEndLemma, EndedType, MarkWords, PlainType
<1>2. normalize_block(fragment) = b \o t \o b
  BY DEF normalize_block
<1>3. ASSUME Headings(fragment) = {}, NEW i \in 1..Len(t) PROVE t[i].level = 0
  <2>1. CASE TrimEnd(fragment) = <<>>
    <3>1. t = b
      BY <2>1 DEF Ended
    <3> QED
      BY <3>1, <1>1
  <2>2. CASE TrimEnd(fragment) # <<>>
    <3>1. t = TrimEnd(fragment)
      BY <2>2 DEF Ended
    <3>2. i \in 1..Len(fragment) /\ t[i] = fragment[i]
      BY <3>1, TrimEndLemma
    <3>3. i \in DOMAIN fragment /\ fragment[i] \in Line
      BY <3>2 DEF Doc
    <3> QED
      BY <3>2, <3>3, <1>3 DEF Headings, Line
  <2> QED
    BY <2>1, <2>2
<1> HIDE DEF b, t
<1>4. /\ b \o t \o b \in Doc /\ Len(b \o t \o b) = Len(b) + Len(t) + Len(b)
      /\ \A i \in 1..Len(b) : (b \o t \o b)[i] = b[i]
      /\ \A i \in 1..Len(t) : (b \o t \o b)[Len(b) + i] = t[i]
      /\ \A i \in 1..Len(b) : (b \o t \o b)[Len(b) + Len(t) + i] = b[i]
  <2>1. b \in Doc /\ t \in Doc
    BY <1>1
  <2> QED
    BY ONLY <2>1, Join, Zenon
<1>5. Len(t) \in Nat
  BY <1>1 DEF Doc
<1>6. ASSUME Headings(fragment) = {}, NEW i \in Headings(b \o t \o b) PROVE FALSE
  <2>1. i \in 1..(Len(t) + 2) /\ (b \o t \o b)[i].level > 0
    BY <1>4, <1>1, <1>5 DEF Headings, Doc
  <2>2. CASE i = 1
    BY <2>1, <2>2, <1>4, <1>1
  <2>3. CASE i \in 2..(Len(t) + 1)
    <3>1. i - 1 \in 1..Len(t) /\ Len(b) + (i - 1) = i
      BY <2>3, <1>1, <1>5
    <3>2. (b \o t \o b)[i] = t[i - 1]
      BY <3>1, <1>4
    <3> QED
      BY <3>1, <3>2, <2>1, <1>3, <1>6
  <2>4. CASE i = Len(t) + 2
    <3>1. Len(b) + Len(t) + 1 = i
      BY <2>4, <1>1, <1>5
    <3> QED
      BY <3>1, <2>1, <1>4, <1>1
  <2> QED
    BY <2>1, <2>2, <2>3, <2>4, <1>5
<1> QED
  BY <1>2, <1>4, <1>6

\* A text put before line k of another.
Put(doc, k, block) == SubSeq(doc, 1, k - 1) \o block \o SubSeq(doc, k, Len(doc))

\* What putting a text before line k of another makes: every line, and where.
LEMMA PutLemma ==
    ASSUME NEW doc \in Doc, NEW block \in Doc, NEW k \in 1..(Len(doc) + 1)
    PROVE  /\ Put(doc, k, block) \in Doc
           /\ Len(Put(doc, k, block)) = Len(doc) + Len(block)
           /\ \A i \in 1..(k - 1) : Put(doc, k, block)[i] = doc[i]
           /\ \A i \in 1..Len(block) : Put(doc, k, block)[k - 1 + i] = block[i]
           /\ \A i \in k..Len(doc) : Put(doc, k, block)[i + Len(block)] = doc[i]
<1> DEFINE s == SubSeq(doc, 1, k - 1)
           u == SubSeq(doc, k, Len(doc))
           new == s \o block \o u
<1>1. Len(doc) \in Nat /\ Len(block) \in Nat
  BY DEF Doc
<1>2. s \in Doc /\ Len(s) = k - 1 /\ \A i \in 1..(k - 1) : s[i] = doc[i]
  BY <1>1 DEF Doc
<1>3. u \in Doc /\ Len(u) = Len(doc) - k + 1 /\ \A i \in 1..(Len(doc) - k + 1) : u[i] = doc[k + i - 1]
  BY <1>1 DEF Doc
<1> HIDE DEF s, u
<1>4. /\ new \in Doc
      /\ Len(new) = Len(s) + Len(block) + Len(u)
      /\ \A i \in 1..Len(s) : new[i] = s[i]
      /\ \A i \in 1..Len(block) : new[Len(s) + i] = block[i]
      /\ \A i \in 1..Len(u) : new[Len(s) + Len(block) + i] = u[i]
  <2>1. s \in Doc /\ u \in Doc /\ block \in Doc
    BY <1>2, <1>3
  <2> QED
    BY ONLY <2>1, Join, Zenon
<1>5. Put(doc, k, block) = new
  BY DEF Put, s, u
<1> HIDE DEF new
<1>6. ASSUME NEW i \in k..Len(doc) PROVE new[i + Len(block)] = doc[i]
  <2>1. i - k + 1 \in 1..(Len(doc) - k + 1)
    BY <1>1
  <2>2. u[i - k + 1] = doc[k + (i - k + 1) - 1]
    BY <2>1, <1>3
  <2>3. new[Len(s) + Len(block) + (i - k + 1)] = u[i - k + 1]
    BY <2>1, <1>3, <1>4
  <2>4. Len(s) + Len(block) + (i - k + 1) = i + Len(block) /\ k + (i - k + 1) - 1 = i
    BY <1>1, <1>2
  <2> QED
    BY <2>2, <2>3, <2>4
<1>7. Len(new) = Len(doc) + Len(block)
  BY <1>1, <1>2, <1>3, <1>4
<1>8. \A i \in 1..(k - 1) : new[i] = doc[i]
  BY <1>2, <1>4
<1>9. \A i \in 1..Len(block) : new[k - 1 + i] = block[i]
  BY <1>2, <1>4
<1> QED
  BY <1>4, <1>5, <1>6, <1>7, <1>8, <1>9

\* Line i is the heading of a splice, whose section ends at section_end.
SectionAt(doc, h, position, i) ==
    /\ Matches(doc, h) = {i} /\ doc[i].text = h /\ i \in Headings(doc)
    /\ section_end(doc, i) \in (i + 1)..(Len(doc) + 1)
    /\ section_end(doc, i) <= Len(doc) =>
         /\ section_end(doc, i) \in Headings(doc)
         /\ doc[section_end(doc, i)].level <= doc[i].level
    /\ \A j \in Headings(doc) : i < j /\ j < section_end(doc, i) => ~(doc[j].level <= doc[i].level)
    /\ SplicePoint(doc, h, position) = IF position = "append" THEN section_end(doc, i) ELSE i + 1

\* A heading that can be spliced under is one line, and its section is found.
LEMMA SectionLemma ==
    ASSUME NEW doc \in Doc, NEW h, NEW position, CanSplice(doc, h)
    PROVE  \E i \in 1..Len(doc) : SectionAt(doc, h, position, i)
<1>1. Len(doc) \in Nat /\ DOMAIN doc = 1..Len(doc)
  BY DEF Doc
<1>2. Matches(doc, h) \subseteq 1..Len(doc)
  BY <1>1 DEF Matches, Headings
<1>3. IsFiniteSet(Matches(doc, h))
  <2>1. IsFiniteSet(1..Len(doc))
    BY <1>1, FS_Interval
  <2> QED
    BY <2>1, <1>2, FS_Subset
<1>4. PICK i : Matches(doc, h) = {i}
  BY <1>3, FS_Singleton DEF CanSplice
<1>5. i \in 1..Len(doc) /\ doc[i].text = h /\ i \in Headings(doc)
  BY <1>4, <1>2 DEF Matches
<1> DEFINE T == {j \in Headings(doc) : j > i /\ doc[j].level <= doc[i].level} \cup {Len(doc) + 1}
<1>6. T \in SUBSET Nat /\ T # {}
  BY <1>1 DEF Headings
<1>7. Min(T) \in T /\ \A y \in T : Min(T) <= y
  BY <1>6, MinOf, Zenon
<1>8. section_end(doc, i) = Min(T)
  BY DEF section_end
<1>9. \A j \in T : j \in Nat /\ (j = Len(doc) + 1 \/ (j \in Headings(doc) /\ j > i /\ doc[j].level <= doc[i].level /\ j <= Len(doc)))
  BY <1>1 DEF Headings
<1>10. \A j \in Headings(doc) : i < j /\ doc[j].level <= doc[i].level => j \in T
  BY <1>1, <1>5 DEF Headings
<1>11. \A j \in Headings(doc) : j \in 1..Len(doc)
  BY <1>1 DEF Headings
<1> DEFINE k == section_end(doc, i)
<1> HIDE DEF T, k
<1>12. k \in T /\ \A y \in T : k <= y
  BY <1>7, <1>8 DEF k
<1>13. k \in (i + 1)..(Len(doc) + 1)
  BY <1>12, <1>9, <1>1, <1>5
<1>14. k <= Len(doc) => k \in Headings(doc) /\ doc[k].level <= doc[i].level
  BY <1>12, <1>9, <1>1, <1>13
<1>15. ASSUME NEW j \in Headings(doc), i < j, j < k, doc[j].level <= doc[i].level PROVE FALSE
  <2>1. j \in T /\ j \in 1..Len(doc)
    BY <1>15, <1>10, <1>11
  <2> QED
    BY <2>1, <1>15, <1>12, <1>13, <1>1
<1>16. SplicePoint(doc, h, position) = IF position = "append" THEN k ELSE i + 1
  <2> DEFINE m == CHOOSE j \in Matches(doc, h) : TRUE
  <2>1. m = i
    BY <1>4
  <2>2. SplicePoint(doc, h, position) = IF position = "append" THEN section_end(doc, m) ELSE m + 1
    BY DEF SplicePoint
  <2> QED
    BY <2>1, <2>2 DEF k
<1> QED
  BY <1>4, <1>5, <1>13, <1>14, <1>15, <1>16 DEF k, SectionAt

-----------------------------------------------------------------------------
(* What an edit makes of a page is a page.                                 *)

\* splice_under_heading puts the block before a line of the page, or after the last.
LEMMA SpliceType ==
    ASSUME NEW doc \in Doc, NEW h, NEW position, CanSplice(doc, h), NEW body \in Doc
    PROVE  /\ SplicePoint(doc, h, position) \in 1..(Len(doc) + 1)
           /\ splice_under_heading(doc, h, position, body)
                = Put(doc, SplicePoint(doc, h, position), normalize_block(body))
           /\ splice_under_heading(doc, h, position, body) \in Doc
<1> DEFINE k == SplicePoint(doc, h, position)
<1>0. Len(doc) \in Nat
  BY DEF Doc
<1>1. k \in 1..(Len(doc) + 1)
  <2>1. PICK i \in 1..Len(doc) : SectionAt(doc, h, position, i)
    BY SectionLemma
  <2> QED
    BY <2>1, <1>0 DEF SectionAt
<1>2. splice_under_heading(doc, h, position, body) = Put(doc, k, normalize_block(body))
  BY DEF splice_under_heading, Put
<1> HIDE DEF k
<1>3. normalize_block(body) \in Doc
  BY BlockLemma
<1> QED
  BY <1>1, <1>2, <1>3, PutLemma DEF k

\* replace_line_range makes a text of a text.
LEMMA LinesType ==
    ASSUME NEW doc \in Doc, NEW start \in Nat, NEW end \in Nat,
           CanReplaceLines(doc, start, end), NEW body \in Doc
    PROVE  replace_line_range(doc, start, end, body) \in Doc
<1> DEFINE s == SubSeq(doc, 1, start - 1)
           t == Ended(TrimEnds(body))
           u == SubSeq(doc, end + 1, Len(doc))
<1>1. Len(doc) \in Nat /\ 1 <= start /\ start <= end /\ end <= Len(doc)
  BY DEF Doc, CanReplaceLines
<1>2. s \in Doc /\ u \in Doc
  BY <1>1 DEF Doc
<1>3. t \in Doc
  BY TrimEndsType, EndedType
<1>4. replace_line_range(doc, start, end, body) = s \o t \o u
  BY DEF replace_line_range
<1> HIDE DEF s, t, u
<1> QED
  BY <1>2, <1>3, <1>4, Join

\* replace_unique_match makes a text of a text.
LEMMA MatchType ==
    ASSUME NEW doc \in Doc, NEW needle, CanReplaceMatch(doc, needle), NEW body \in Doc
    PROVE  replace_unique_match(doc, needle, body) \in Doc
<1> DEFINE i == CHOOSE j \in Occurrences(doc, needle) : TRUE
           s == SubSeq(doc, 1, i - 1)
           u == SubSeq(doc, i + 1, Len(doc))
<1>1. Len(doc) \in Nat /\ Occurrences(doc, needle) \subseteq 1..Len(doc)
  BY DEF Doc, Occurrences
<1>2. Occurrences(doc, needle) # {}
  BY FS_EmptySet DEF CanReplaceMatch
<1>3. i \in 1..Len(doc)
  BY <1>1, <1>2
<1>4. replace_unique_match(doc, needle, body) = s \o body \o u
  BY DEF replace_unique_match
<1> HIDE DEF i
<1>5. s \in Doc /\ u \in Doc
  BY <1>1, <1>3 DEF Doc
<1> HIDE DEF s, u
<1> QED
  BY <1>4, <1>5, Join

\* Whatever the mode, what is composed for a page is a text.
LEMMA ComposedType ==
    ASSUME NEW item \in Item, item.op # "delete",
           NEW old \in Doc \cup {None}, Composable(item, old)
    PROVE  item.path \in Paths /\ Composed(item, old) \in Doc
<1>0. item.path \in Paths /\ item.body \in Doc
  BY DEF Item
<1>1. CASE item.op = "whole"
  BY <1>0, <1>1 DEF Composed
<1>2. CASE item.op = "heading"
  <2>1. old \in Doc /\ CanSplice(old, item.heading)
    BY <1>2 DEF Composable
  <2>2. Composed(item, old) = splice_under_heading(old, item.heading, item.position, item.body)
    BY <1>2 DEF Composed
  <2> QED
    BY <2>1, <2>2, <1>0, SpliceType
<1>3. CASE item.op = "lines"
  <2>1. old \in Doc /\ CanReplaceLines(old, item.start, item.end)
    BY <1>3 DEF Composable
  <2>2. item.start \in Nat /\ item.end \in Nat
    BY <1>3 DEF Item
  <2>3. Composed(item, old) = replace_line_range(old, item.start, item.end, item.body)
    BY <1>3 DEF Composed
  <2> QED
    BY <2>1, <2>2, <2>3, <1>0, LinesType
<1>4. CASE item.op = "match"
  <2>1. old \in Doc /\ CanReplaceMatch(old, item.needle)
    BY <1>4 DEF Composable
  <2>2. Composed(item, old) = replace_unique_match(old, item.needle, item.body)
    BY <1>4 DEF Composed
  <2> QED
    BY <2>1, <2>2, <1>0, MatchType
<1> QED
  BY <1>0, <1>1, <1>2, <1>3, <1>4 DEF Item

-----------------------------------------------------------------------------
(* The outline of a page into which a text without headings is put.        *)

\* Where a line of the page is after n lines were put before line k.
Moved(k, n, i) == IF i < k THEN i ELSE i + n

\* The headings are those of the page, moved.
HeadingsMoved(doc, k, n, new) ==
    /\ \A i \in 1..Len(doc) : Moved(k, n, i) \in 1..Len(new) /\ new[Moved(k, n, i)] = doc[i]
    /\ \A i \in Headings(doc) : Moved(k, n, i) \in Headings(new)
    /\ \A j \in Headings(new) : \E i \in Headings(doc) : j = Moved(k, n, i)

\* A block without headings moves the headings of the page and adds none.
LEMMA PutHeadings ==
    ASSUME NEW doc \in Doc, NEW block \in Doc, NEW k \in 1..(Len(doc) + 1),
           Headings(block) = {}
    PROVE  HeadingsMoved(doc, k, Len(block), Put(doc, k, block))
<1> DEFINE new == Put(doc, k, block)
           n == Len(block)
<1>1. Len(doc) \in Nat /\ n \in Nat /\ DOMAIN doc = 1..Len(doc) /\ DOMAIN block = 1..n
  BY DEF Doc
<1>2. /\ new \in Doc
      /\ Len(new) = Len(doc) + n
      /\ \A i \in 1..(k - 1) : new[i] = doc[i]
      /\ \A i \in 1..n : new[k - 1 + i] = block[i]
      /\ \A i \in k..Len(doc) : new[i + n] = doc[i]
  BY PutLemma, Zenon
<1>3. DOMAIN new = 1..(Len(doc) + n)
  BY <1>2 DEF Doc
<1> HIDE DEF new, n
<1>4. ASSUME NEW i \in 1..Len(doc)
      PROVE  Moved(k, n, i) \in 1..Len(new) /\ new[Moved(k, n, i)] = doc[i]
  <2>1. CASE i < k
    <3>1. i \in 1..(k - 1)
      BY <2>1, <1>1
    <3> QED
      BY <2>1, <3>1, <1>1, <1>2 DEF Moved
  <2>2. CASE ~(i < k)
    <3>1. i \in k..Len(doc)
      BY <2>2, <1>1
    <3> QED
      BY <2>2, <3>1, <1>1, <1>2 DEF Moved
  <2> QED
    BY <2>1, <2>2
<1>5. ASSUME NEW i \in Headings(doc) PROVE Moved(k, n, i) \in Headings(new)
  <2>1. i \in 1..Len(doc) /\ doc[i].level > 0
    BY <1>1 DEF Headings
  <2> QED
    BY <2>1, <1>4, <1>2, <1>3 DEF Headings
<1>6. ASSUME NEW j \in Headings(new) PROVE \E i \in Headings(doc) : j = Moved(k, n, i)
  <2>1. j \in 1..(Len(doc) + n) /\ new[j].level > 0
    BY <1>3 DEF Headings
  <2>2. CASE j < k
    <3>1. j \in 1..(k - 1) /\ j \in 1..Len(doc)
      BY <2>1, <2>2, <1>1
    <3>2. j \in Headings(doc)
      BY <2>1, <3>1, <1>1, <1>2 DEF Headings
    <3> QED
      BY <3>2, <2>2 DEF Moved
  <2>3. CASE ~(j < k) /\ j < k + n
    <3>1. j - k + 1 \in 1..n /\ k - 1 + (j - k + 1) = j
      BY <2>1, <2>3, <1>1
    <3>2. new[j] = block[j - k + 1]
      BY <3>1, <1>2
    <3>3. j - k + 1 \in Headings(block)
      BY <3>1, <3>2, <2>1, <1>1 DEF Headings
    <3> QED
      BY <3>3
  <2>4. CASE ~(j < k + n)
    <3>1. j - n \in k..Len(doc) /\ (j - n) + n = j
      BY <2>1, <2>4, <1>1
    <3>2. new[j] = doc[j - n]
      BY <3>1, <1>2
    <3>3. j - n \in Headings(doc)
      BY <3>1, <3>2, <2>1, <1>1 DEF Headings
    <3> QED
      BY <3>1, <3>3, <1>1 DEF Moved
  <2> QED
    BY <2>1, <2>2, <2>3, <2>4, <1>1
<1> QED
  BY <1>4, <1>5, <1>6 DEF new, n, HeadingsMoved

\* Every line of the page stands under the headings it stood under.
LEMMA PutOutline ==
    ASSUME NEW doc \in Doc, NEW block \in Doc, NEW k \in 1..(Len(doc) + 1),
           Headings(block) = {}, NEW j \in 1..Len(doc)
    PROVE  HeadingsOf(Put(doc, k, block), Moved(k, Len(block), j)) = HeadingsOf(doc, j)
<1> DEFINE new == Put(doc, k, block)
           n == Len(block)
           M(i) == Moved(k, n, i)
<1>1. Len(doc) \in Nat /\ n \in Nat /\ DOMAIN doc = 1..Len(doc) /\ k \in Int
  BY DEF Doc
<1>2. /\ \A i \in 1..Len(doc) : M(i) \in 1..Len(new) /\ new[M(i)] = doc[i]
      /\ \A i \in Headings(doc) : M(i) \in Headings(new)
      /\ \A x \in Headings(new) : \E i \in Headings(doc) : x = M(i)
  <2>1. HeadingsMoved(doc, k, Len(block), Put(doc, k, block))
    BY PutHeadings
  <2> QED
    BY <2>1 DEF HeadingsMoved
<1>3. \A i \in Headings(doc) : i \in 1..Len(doc)
  BY <1>1 DEF Headings
<1>4. \A x, y \in Int : (x < y <=> M(x) < M(y)) /\ (x <= y <=> M(x) <= M(y))
  BY <1>1 DEF Moved
<1> HIDE DEF new, n, M
<1>5. ASSUME NEW i \in Headings(doc)
      PROVE  i \in Above(doc, j) <=> M(i) \in Above(new, M(j))
  <2>0. i \in 1..Len(doc) /\ i \in Int /\ j \in Int
    BY <1>3
  <2>1. ASSUME i \in Above(doc, j), NEW y \in Headings(new), M(i) < y, y <= M(j)
        PROVE  new[y].level > new[M(i)].level
    <3>1. PICK x \in Headings(doc) : y = M(x)
      BY <1>2
    <3>2. x \in 1..Len(doc) /\ x \in Int
      BY <1>3
    <3>3. i < x /\ x <= j
      BY <3>1, <3>2, <2>0, <2>1, <1>4
    <3>4. doc[x].level > doc[i].level
      BY <3>3, <2>1 DEF Above
    <3> QED
      BY <3>1, <3>2, <3>4, <2>0, <1>2
  <2>2. ASSUME M(i) \in Above(new, M(j)), NEW x \in Headings(doc), i < x, x <= j
        PROVE  doc[x].level > doc[i].level
    <3>1. x \in 1..Len(doc) /\ x \in Int /\ M(x) \in Headings(new)
      BY <1>2, <1>3
    <3>2. M(i) < M(x) /\ M(x) <= M(j)
      BY <3>1, <2>0, <2>2, <1>4
    <3>3. new[M(x)].level > new[M(i)].level
      BY <3>1, <3>2, <2>2 DEF Above
    <3> QED
      BY <3>1, <3>3, <2>0, <1>2
  <2>3. i < j <=> M(i) < M(j)
    BY <2>0, <1>4
  <2> QED
    BY <2>1, <2>2, <2>3, <1>2 DEF Above
<1>6. ASSUME NEW w \in HeadingsOf(new, M(j)) PROVE w \in HeadingsOf(doc, j)
  <2>1. PICK y \in Above(new, M(j)) : w = new[y].text
    BY DEF HeadingsOf
  <2>2. PICK x \in Headings(doc) : y = M(x)
    BY <1>2 DEF Above
  <2>3. x \in Above(doc, j) /\ new[y] = doc[x]
    BY <2>1, <2>2, <1>5, <1>2, <1>3
  <2> QED
    BY <2>1, <2>3 DEF HeadingsOf
<1>7. ASSUME NEW w \in HeadingsOf(doc, j) PROVE w \in HeadingsOf(new, M(j))
  <2>1. PICK x \in Above(doc, j) : w = doc[x].text
    BY DEF HeadingsOf
  <2>2. x \in Headings(doc)
    BY DEF Above
  <2>3. M(x) \in Above(new, M(j)) /\ new[M(x)] = doc[x]
    BY <2>2, <1>5, <1>2, <1>3
  <2> QED
    BY <2>1, <2>3 DEF HeadingsOf
<1> QED
  BY <1>6, <1>7 DEF new, n, M

\* What a splice does to the outline: the block is under its heading, and is
\* the first or the last text there.
LEMMA SpliceOutline ==
    ASSUME NEW doc \in Doc, NEW h, NEW position \in {"append", "prepend"},
           CanSplice(doc, h), NEW block \in Doc, Headings(block) = {}
    PROVE  LET k   == SplicePoint(doc, h, position)
               n   == Len(block)
               new == Put(doc, k, block)
           IN  /\ \A i \in k..(k + n - 1) : h \in HeadingsOf(new, i)
               /\ \A i \in 1..Len(new) :
                     h \in HeadingsOf(new, i) =>
                       IF position = "append" THEN i < k + n ELSE i >= k
<1> DEFINE k   == SplicePoint(doc, h, position)
           n   == Len(block)
           new == Put(doc, k, block)
           M(i) == Moved(k, n, i)
<1>1. PICK a \in 1..Len(doc) : SectionAt(doc, h, position, a)
  BY SectionLemma
<1>2. Len(doc) \in Nat /\ n \in Nat /\ \A i \in Headings(doc) : i \in 1..Len(doc) /\ doc[i].level \in Int
  <2>1. Len(doc) \in Nat /\ n \in Nat /\ DOMAIN doc = 1..Len(doc) /\ \A i \in 1..Len(doc) : doc[i] \in Line
    BY DEF Doc
  <2> QED
    BY <2>1 DEF Headings, Line
<1>3. k \in (a + 1)..(Len(doc) + 1) /\ k \in 1..(Len(doc) + 1)
  BY <1>1, <1>2 DEF SectionAt
<1>4. \A j \in Headings(doc) : a < j /\ j < k => doc[j].level > doc[a].level
  BY <1>1, <1>2 DEF SectionAt
<1>5. position = "append" /\ k <= Len(doc) => k \in Headings(doc) /\ doc[k].level <= doc[a].level
  BY <1>1 DEF SectionAt
<1>6. position = "prepend" => k = a + 1
  BY <1>1 DEF SectionAt
<1>7. Matches(doc, h) = {a} /\ doc[a].text = h /\ a \in Headings(doc)
  BY <1>1 DEF SectionAt
<1> HIDE DEF k
<1>8. Len(new) = Len(doc) + n
  BY <1>3, PutLemma
<1>9. /\ \A i \in 1..Len(doc) : M(i) \in 1..Len(new) /\ new[M(i)] = doc[i]
      /\ \A i \in Headings(doc) : M(i) \in Headings(new)
      /\ \A x \in Headings(new) : \E i \in Headings(doc) : x = M(i)
  <2>1. k \in 1..(Len(doc) + 1)
    BY <1>3
  <2> QED
    <3>1. HeadingsMoved(doc, k, Len(block), Put(doc, k, block))
      BY <2>1, PutHeadings
    <3> QED
      BY <3>1 DEF HeadingsMoved
<1>10. M(a) = a /\ a \in Headings(new) /\ new[a] = doc[a]
  BY <1>3, <1>7, <1>9, <1>2 DEF Moved
<1>11. \A x \in Int : x < k => M(x) = x
  BY DEF Moved
<1>12. \A x \in Int : ~(x < k) => M(x) = x + n
  BY DEF Moved
<1> HIDE DEF new, n, M
<1>13. ASSUME NEW i \in k..(k + n - 1) PROVE h \in HeadingsOf(new, i)
  <2>1. a < i
    BY <1>2, <1>3
  <2>2. ASSUME NEW y \in Headings(new), a < y, y <= i PROVE new[y].level > new[a].level
    <3>1. PICK x \in Headings(doc) : y = M(x)
      BY <1>9
    <3>2. x \in 1..Len(doc) /\ x \in Int
      BY <1>2
    <3>3. x < k
      <4> SUFFICES ASSUME ~(x < k) PROVE FALSE
        OBVIOUS
      <4>1. y = x + n
        BY <3>1, <3>2, <1>12
      <4> QED
        BY <4>1, <3>2, <2>2, <1>2, <1>3
    <3>4. y = x
      BY <3>1, <3>2, <3>3, <1>11
    <3>5. doc[x].level > doc[a].level
      BY <3>3, <3>4, <2>2, <1>4
    <3> QED
      BY <3>1, <3>2, <3>5, <1>9, <1>10
  <2>3. a \in Above(new, i)
    BY <2>1, <2>2, <1>10 DEF Above
  <2> QED
    BY <2>3, <1>7, <1>10 DEF HeadingsOf
<1>14. ASSUME NEW i \in 1..Len(new), h \in HeadingsOf(new, i)
       PROVE  IF position = "append" THEN i < k + n ELSE i >= k
  <2>1. PICK y \in Above(new, i) : h = new[y].text
    BY <1>14 DEF HeadingsOf
  <2>2. y \in Headings(new) /\ y < i
        /\ \A z \in Headings(new) : y < z /\ z <= i => new[z].level > new[y].level
    BY DEF Above
  <2>3. PICK x \in Headings(doc) : y = M(x)
    BY <2>2, <1>9
  <2>4. x \in Matches(doc, h)
    BY <2>1, <2>3, <1>9, <1>2 DEF Matches
  <2>5. y = a
    BY <2>3, <2>4, <1>7, <1>10
  <2>6. CASE position = "prepend"
    BY <2>2, <2>5, <2>6, <1>6, <1>2
  <2>7. CASE position = "append"
    <3> SUFFICES ASSUME ~(i < k + n) PROVE FALSE
      BY <2>7
    <3>1. k <= Len(doc)
      BY <1>2, <1>3, <1>8
    <3>2. k \in Headings(doc) /\ doc[k].level <= doc[a].level /\ M(k) = k + n /\ k \in 1..Len(doc)
      BY <3>1, <2>7, <1>5, <1>12, <1>3, <1>2
    <3>3. M(k) \in Headings(new) /\ new[M(k)] = doc[k]
      BY <3>2, <1>9
    <3>4. a < M(k) /\ M(k) <= i
      BY <3>2, <1>2, <1>3
    <3>5. new[M(k)].level > new[a].level
      BY <3>3, <3>4, <2>2, <2>5
    <3> QED
      BY <3>2, <3>3, <3>5, <1>10, <1>2, <1>7
  <2> QED
    BY <2>6, <2>7
<1> QED
  BY <1>13, <1>14 DEF k, n, new

-----------------------------------------------------------------------------
(* The list of a directory.                                                *)

\* The numbers of a finite set, counted off by Nth, are all its numbers.
LEMMA NthLemma ==
    ASSUME NEW m \in Nat, NEW S \in SUBSET (1..m)
    PROVE  /\ Cardinality(S) \in Nat
           /\ \A n \in 1..Cardinality(S) : Nth(S, n) \in S
           /\ \A i \in S : \E n \in 1..Cardinality(S) : Nth(S, n) = i
<1> DEFINE Upto(i) == {j \in S : j <= i}
           rank == [i \in S |-> Cardinality(Upto(i))]
<1>1. IsFiniteSet(S) /\ Cardinality(S) \in Nat
  <2>1. IsFiniteSet(1..m)
    BY FS_Interval
  <2>2. IsFiniteSet(S)
    BY <2>1, FS_Subset
  <2> QED
    BY <2>2, FS_CardinalityType
<1>2. \A i \in S : IsFiniteSet(Upto(i)) /\ Cardinality(Upto(i)) <= Cardinality(S)
  <2> SUFFICES ASSUME NEW i \in S PROVE IsFiniteSet(Upto(i)) /\ Cardinality(Upto(i)) <= Cardinality(S)
    OBVIOUS
  <2>1. Upto(i) \in SUBSET S
    OBVIOUS
  <2> QED
    BY <1>1, <2>1, FS_Subset, Zenon
<1>3. \A i \in S : Cardinality(Upto(i)) \in 1..Cardinality(S)
  <2> SUFFICES ASSUME NEW i \in S PROVE Cardinality(Upto(i)) \in 1..Cardinality(S)
    OBVIOUS
  <2>1. i \in Upto(i)
    OBVIOUS
  <2>2. Cardinality(Upto(i)) \in Nat /\ Cardinality(Upto(i)) # 0
    BY <2>1, <1>2, FS_CardinalityType, FS_EmptySet
  <2> QED
    BY <2>2, <1>1, <1>2
<1>4. \A i, j \in S : i # j => Cardinality(Upto(i)) # Cardinality(Upto(j))
  <2>1. ASSUME NEW i \in S, NEW j \in S, i < j, Cardinality(Upto(i)) = Cardinality(Upto(j)) PROVE FALSE
    <3>0. i \in Int /\ j \in Int /\ \A x \in S : x \in Int /\ (x <= i => x <= j)
      BY <2>1
    <3>1. Upto(i) \in SUBSET Upto(j) /\ j \in Upto(j) /\ j \notin Upto(i)
      <4>1. ~(j <= i) /\ j <= j
        BY <3>0, <2>1
      <4> QED
        BY <4>1, <3>0, Zenon
    <3>2. Upto(j) = Upto(i)
      BY <3>1, <2>1, <1>2, FS_Subset, Zenon
    <3> QED
      BY <3>1, <3>2
  <2> SUFFICES ASSUME NEW i \in S, NEW j \in S, i # j, Cardinality(Upto(i)) = Cardinality(Upto(j))
               PROVE  FALSE
    OBVIOUS
  <2>2. i < j \/ j < i
    OBVIOUS
  <2> QED
    BY <2>1, <2>2
<1>5. rank \in Injection(S, 1..Cardinality(S))
  BY <1>3, <1>4 DEF Injection, IsInjective
<1>6. IsFiniteSet(1..Cardinality(S)) /\ Cardinality(1..Cardinality(S)) = Cardinality(S)
  BY <1>1, FS_Interval
<1>7. rank \in Surjection(S, 1..Cardinality(S))
  BY <1>5, <1>6, FS_Injection, Zenon
<1>8. \A n \in 1..Cardinality(S) : \E i \in S : Cardinality(Upto(i)) = n
  BY <1>7 DEF Surjection
<1>9. \A n \in 1..Cardinality(S) : Nth(S, n) \in S /\ Cardinality(Upto(Nth(S, n))) = n
  <2> SUFFICES ASSUME NEW n \in 1..Cardinality(S)
               PROVE  Nth(S, n) \in S /\ Cardinality(Upto(Nth(S, n))) = n
    OBVIOUS
  <2>1. Nth(S, n) = CHOOSE i \in S : Cardinality(Upto(i)) = n
    BY DEF Nth
  <2> HIDE DEF Upto
  <2> QED
    BY <1>8, <2>1
<1> HIDE DEF Upto
<1>10. \A i \in S : Nth(S, Cardinality(Upto(i))) = i
  BY <1>3, <1>4, <1>9
<1> QED
  BY <1>1, <1>3, <1>9, <1>10

\* The title of a text is a word, or missing.
LEMMA TitleType == ASSUME NEW doc \in Doc PROVE read_h1(doc) \in Words \cup {None}
<1>1. CASE Said(doc) = {}
  BY <1>1 DEF read_h1
<1>2. CASE Said(doc) # {}
  <2>1. Min(Said(doc)) \in 1..Len(doc)
    BY <1>2, SaidLemma
  <2>2. doc[Min(Said(doc))] \in Line
    BY <2>1 DEF Doc
  <2> QED
    BY <2>2 DEF read_h1, Line
<1> QED
  BY <1>1, <1>2

\* The pages and directories in a directory.
Children(files, d) == {x \in Paths \ {Root} : IsChild(files, x, d)}

\* A text of which no line is a marker.
Unmarked(body) == \A i \in 1..Len(body) : body[i] # Plain(StartMark) /\ body[i] # Plain(EndMark)

\* The list of a directory names its children, and no line of it is a marker.
LEMMA ChildrenLemma ==
    ASSUME NEW files \in [Paths -> Doc \cup {None}], NEW d \in Dirs
    PROVE  /\ enumerate_children(files, d) \in Doc /\ Unmarked(enumerate_children(files, d))
           /\ {enumerate_children(files, d)[i].text : i \in 1..Len(enumerate_children(files, d))}
                = Children(files, d)
<1> DEFINE kids == {i \in DOMAIN Order : IsChild(files, Order[i], d)}
           body == enumerate_children(files, d)
           size == Cardinality(kids)
<1>1. /\ Len(Order) \in Nat /\ DOMAIN Order = 1..Len(Order)
      /\ \A i \in 1..Len(Order) : Order[i] \in Paths \ {Root}
      /\ \A x \in Paths \ {Root} : \E i \in 1..Len(Order) : Order[i] = x
      /\ Paths \subseteq Words \ {Blank, StartMark, EndMark}
  BY PagesAssumption DEF ToSet
<1>2. kids \in SUBSET (1..Len(Order))
  BY <1>1
<1>3. /\ size \in Nat
      /\ \A n \in 1..size : Nth(kids, n) \in kids
      /\ \A i \in kids : \E n \in 1..size : Nth(kids, n) = i
  <2> HIDE DEF kids
  <2> QED
    BY <1>1, <1>2, NthLemma
<1>4. body = [n \in 1..size |-> ChildLink(files, Order[Nth(kids, n)])]
  BY DEF enumerate_children
<1>5. \A i \in kids : i \in 1..Len(Order) /\ Order[i] \in Children(files, d)
  BY <1>1 DEF Children
<1>6. \A x \in Children(files, d) : \E i \in kids : Order[i] = x
  BY <1>1 DEF Children
<1>7. ASSUME NEW x \in Paths \ {Root}
      PROVE  /\ ChildLink(files, x) \in Line /\ ChildLink(files, x).text = x
             /\ ChildLink(files, x) # Plain(StartMark) /\ ChildLink(files, x) # Plain(EndMark)
  <2>1. files[x] \in Doc \cup {None}
    OBVIOUS
  <2>2. (IF files[x] = None THEN None ELSE read_h1(files[x])) \in Words \cup {None}
    BY <2>1, TitleType
  <2> QED
    BY <2>2, <1>1 DEF ChildLink, Link, Line, Plain
<1> HIDE DEF kids, body, size
<1>8. \A n \in 1..size : body[n] = ChildLink(files, Order[Nth(kids, n)]) /\ Order[Nth(kids, n)] \in Paths \ {Root}
  BY <1>3, <1>4, <1>1, <1>5
<1>9. \A n \in 1..size : body[n] \in Line
  BY <1>7, <1>8
<1>10. body \in Doc /\ Len(body) = size
  BY <1>9, <1>4, <1>3 DEF Doc
<1>11. \A n \in 1..Len(body) : body[n] # Plain(StartMark) /\ body[n] # Plain(EndMark)
  BY <1>7, <1>8, <1>10
<1>12. \A n \in 1..Len(body) : body[n].text \in Children(files, d)
  BY <1>3, <1>5, <1>7, <1>8, <1>10
<1>13. ASSUME NEW x \in Children(files, d) PROVE \E n \in 1..Len(body) : body[n].text = x
  <2>1. PICK i \in kids : Order[i] = x
    BY <1>6
  <2>2. PICK n \in 1..size : Nth(kids, n) = i
    BY <1>3
  <2> QED
    BY <2>1, <2>2, <1>7, <1>8, <1>10
<1> QED
  BY <1>10, <1>11, <1>12, <1>13 DEF body, Unmarked

\* What is injected is what lies between the markers then.
LEMMA InjectLemma ==
    ASSUME NEW doc \in Doc, Marked(doc), NEW body \in Doc, Unmarked(body)
    PROVE  /\ inject_block(doc, body) \in Doc
           /\ Marked(inject_block(doc, body)) /\ Said(inject_block(doc, body)) # {}
           /\ Block(inject_block(doc, body)) = body
<1> DEFINE a == Min(Starts(doc))
           b == Min(Ends(doc))
           s == SubSeq(doc, 1, a)
           u == SubSeq(doc, b, Len(doc))
           new == s \o body \o u
<1>1. Len(doc) \in Nat /\ DOMAIN doc = 1..Len(doc) /\ Len(body) \in Nat
  BY DEF Doc
<1>2. a \in Starts(doc) /\ \A i \in Starts(doc) : a <= i
  <2>1. Starts(doc) \in SUBSET Nat /\ Starts(doc) # {}
    BY <1>1 DEF Starts, Marked
  <2> QED
    BY <2>1, MinOf, Zenon
<1>3. b \in Ends(doc)
  <2>1. Ends(doc) \in SUBSET Nat /\ Ends(doc) # {}
    BY <1>1 DEF Ends, Marked
  <2> QED
    BY <2>1, MinOf, Zenon
<1>4. /\ a \in 1..Len(doc) /\ b \in 1..Len(doc) /\ a < b
      /\ doc[a] = Plain(StartMark) /\ doc[b] = Plain(EndMark)
      /\ \A i \in 1..(a - 1) : doc[i] # Plain(StartMark)
  <2>1. a \in 1..Len(doc) /\ doc[a] = Plain(StartMark)
    BY <1>1, <1>2 DEF Starts
  <2>2. b \in 1..Len(doc) /\ doc[b] = Plain(EndMark) /\ b > a
    BY <1>1, <1>3 DEF Ends
  <2> HIDE DEF a, b
  <2>3. ASSUME NEW i \in 1..(a - 1), doc[i] = Plain(StartMark) PROVE FALSE
    <3>1. i \in Starts(doc)
      BY <2>1, <2>3, <1>1 DEF Starts
    <3> QED
      BY <3>1, <2>1, <1>2
  <2> QED
    BY <2>1, <2>2, <2>3
<1>5. inject_block(doc, body) = new
  BY DEF inject_block
<1> HIDE DEF a, b
<1>6. s \in Doc /\ Len(s) = a /\ \A i \in 1..a : s[i] = doc[i]
  BY <1>1, <1>4 DEF Doc
<1>7. u \in Doc /\ Len(u) = Len(doc) - b + 1 /\ u[1] = doc[b]
  BY <1>1, <1>4 DEF Doc
<1> HIDE DEF s, u
<1>8. /\ new \in Doc
      /\ Len(new) = Len(s) + Len(body) + Len(u)
      /\ \A i \in 1..Len(s) : new[i] = s[i]
      /\ \A i \in 1..Len(body) : new[Len(s) + i] = body[i]
      /\ \A i \in 1..Len(u) : new[Len(s) + Len(body) + i] = u[i]
  <2>1. s \in Doc /\ u \in Doc /\ body \in Doc
    BY <1>6, <1>7
  <2> QED
    BY ONLY <2>1, Join, Zenon
<1> HIDE DEF new
<1> DEFINE e == a + Len(body) + 1
<1>9. DOMAIN new = 1..Len(new) /\ Len(new) \in Nat /\ e \in 1..Len(new) /\ a \in 1..Len(new) /\ e > a
  BY <1>1, <1>4, <1>6, <1>7, <1>8 DEF Doc
<1>10. /\ new[a] = Plain(StartMark) /\ \A i \in 1..(a - 1) : new[i] # Plain(StartMark)
  BY <1>1, <1>4, <1>6, <1>8
<1>11. new[e] = Plain(EndMark)
  <2>1. 1 \in 1..Len(u) /\ Len(s) + Len(body) + 1 = e
    BY <1>1, <1>4, <1>6, <1>7
  <2> QED
    BY <2>1, <1>4, <1>7, <1>8
<1>12. \A i \in 1..Len(body) : new[a + i] = body[i] /\ new[a + i] # Plain(EndMark)
  BY <1>6, <1>8 DEF Unmarked
<1> HIDE DEF e
<1>13. a \in Starts(new) /\ \A i \in Starts(new) : a <= i
  <2>1. a \in Starts(new)
    BY <1>9, <1>10 DEF Starts
  <2>2. ASSUME NEW i \in Starts(new), ~(a <= i) PROVE FALSE
    <3>1. i \in 1..(a - 1) /\ new[i] = Plain(StartMark)
      BY <2>2, <1>9, <1>4, <1>1 DEF Starts
    <3> QED
      BY <3>1, <1>10
  <2> QED
    BY <2>1, <2>2
<1>14. Min(Starts(new)) = a
  <2>1. Starts(new) \in SUBSET Nat /\ Starts(new) # {}
    BY <1>9, <1>13 DEF Starts
  <2>2. Min(Starts(new)) \in Starts(new) /\ \A y \in Starts(new) : Min(Starts(new)) <= y
    BY <2>1, MinOf, Zenon
  <2> QED
    BY <2>1, <2>2, <1>13
<1>15. e \in Ends(new) /\ \A i \in Ends(new) : e <= i
  <2>1. e \in Ends(new)
    BY <1>9, <1>11, <1>14 DEF Ends
  <2>2. ASSUME NEW i \in Ends(new), ~(e <= i) PROVE FALSE
    <3>1. i \in 1..Len(new) /\ i > a /\ new[i] = Plain(EndMark)
      BY <1>9, <1>14 DEF Ends
    <3>2. i - a \in 1..Len(body) /\ a + (i - a) = i
      BY <3>1, <2>2, <1>1, <1>4, <1>9 DEF e
    <3> QED
      BY <3>1, <3>2, <1>12
  <2> QED
    BY <2>1, <2>2
<1>16. Min(Ends(new)) = e
  <2>1. Ends(new) \in SUBSET Nat /\ Ends(new) # {}
    BY <1>9, <1>15 DEF Ends
  <2>2. Min(Ends(new)) \in Ends(new) /\ \A y \in Ends(new) : Min(Ends(new)) <= y
    BY <2>1, MinOf, Zenon
  <2> QED
    BY <2>1, <2>2, <1>15
<1>17. Marked(new)
  BY <1>13, <1>15 DEF Marked
<1>18. Said(new) # {}
  BY <1>9, <1>10, MarkWords DEF Said
<1>19. Block(new) = body
  <2>1. Block(new) = SubSeq(new, a + 1, e - 1)
    BY <1>14, <1>16 DEF Block
  <2>2. e - 1 = a + Len(body) /\ a \in Nat /\ a + Len(body) <= Len(new)
    BY <1>1, <1>4, <1>9 DEF e
  <2>3. /\ SubSeq(new, a + 1, a + Len(body)) \in Doc
        /\ Len(SubSeq(new, a + 1, a + Len(body))) = Len(body)
        /\ \A i \in 1..Len(body) : SubSeq(new, a + 1, a + Len(body))[i] = new[a + i]
    BY <2>2, <1>1, <1>8, <1>9 DEF Doc
  <2>4. \A i \in 1..Len(body) : SubSeq(new, a + 1, a + Len(body))[i] = body[i]
    BY <2>3, <1>12
  <2>5. SubSeq(new, a + 1, a + Len(body)) = body
    BY <2>3, <2>4, SeqEqual DEF Doc
  <2> QED
    BY <2>1, <2>2, <2>5
<1> QED
  BY <1>5, <1>8, <1>17, <1>18, <1>19

\* The index.md a walk creates has both markers.
LEMMA ScaffoldMarked ==
    ASSUME NEW d \in Words PROVE render_scaffold(d) \in Doc /\ Marked(render_scaffold(d))
<1> DEFINE doc == render_scaffold(d)
<1>1. /\ doc \in Doc /\ DOMAIN doc = 1..4 /\ doc[3] = Plain(StartMark) /\ doc[4] = Plain(EndMark)
      /\ doc[1] # Plain(StartMark) /\ doc[2] # Plain(StartMark) /\ Plain(EndMark) # Plain(StartMark)
  BY MarkWords DEF render_scaffold, Doc, Line, Heading, Plain
<1> HIDE DEF doc
<1>2. Starts(doc) = {3}
  BY <1>1 DEF Starts
<1>3. Min({3}) = 3
  BY DEF Min
<1>4. 4 \in Ends(doc)
  BY <1>1, <1>2, <1>3 DEF Ends
<1> QED
  BY <1>1, <1>2, <1>4 DEF Marked, doc

\* What a walk makes of an index.md.
LEMMA ComposeLemma ==
    ASSUME NEW files \in [Paths -> Doc \cup {None}], NEW d \in Dirs
    PROVE  /\ compose_index_md(files, d) \in Doc
           /\ Marked(compose_index_md(files, d)) =>
                LinkedNames(compose_index_md(files, d)) = Children(files, d)
           /\ compose_index_md(files, d) # files[d] =>
                Marked(compose_index_md(files, d)) /\ Indexed(compose_index_md(files, d)) # None
<1> DEFINE existing == IF files[d] = None THEN render_scaffold(d) ELSE files[d]
           body == enumerate_children(files, d)
           new == compose_index_md(files, d)
<1>1. d \in Paths /\ d \in Words /\ None \notin Doc
  BY PagesAssumption DEF Paths
<1>2. existing \in Doc
  BY <1>1, ScaffoldMarked
<1>3. new = IF Marked(existing) THEN inject_block(existing, body) ELSE existing
  BY DEF compose_index_md
<1>4. body \in Doc /\ Unmarked(body) /\ {body[i].text : i \in 1..Len(body)} = Children(files, d)
  BY ChildrenLemma
<1>5. CASE Marked(existing)
  <2> HIDE DEF existing, body
  <2>1. new \in Doc /\ Marked(new) /\ Said(new) # {} /\ Block(new) = body
    BY <1>2, <1>3, <1>4, <1>5, InjectLemma
  <2> HIDE DEF new
  <2>2. DOMAIN body = 1..Len(body)
    BY <1>4 DEF Doc
  <2>3. LinkedNames(new) = Children(files, d)
    BY <2>1, <2>2, <1>4 DEF LinkedNames
  <2>4. Indexed(new) # None
    BY <2>1, <1>1 DEF Indexed
  <2> QED
    BY <2>1, <2>3, <2>4 DEF new
<1>6. CASE ~Marked(existing)
  <2>1. files[d] # None
    BY <1>1, <1>6, ScaffoldMarked
  <2> QED
    BY <2>1, <1>2, <1>3, <1>6
<1> QED
  BY <1>5, <1>6

-----------------------------------------------------------------------------
(* The directories above a page.                                           *)

\* The directories above a file, its own included.
AncestorsOf(p) == ToSet(ancestor_dirs(p))

\* The directory of a file, and the directories above it, are directories.
LEMMA OwnerLemma == ASSUME NEW p \in Paths
    PROVE  /\ Owner(p) \in Dirs
           /\ p \in Dirs => Owner(p) = p
           /\ p \in Pages => Owner(p) = ParentDir[p]
           /\ ancestor_dirs(p) = Chain[Owner(p)] /\ Dirs \subseteq Paths
BY PagesAssumption DEF Owner, Paths, ancestor_dirs

\* The directories above a file, by their number.
LEMMA AncestorIndex ==
    ASSUME NEW p \in Paths
    PROVE  /\ ancestor_dirs(p) \in Seq(Dirs) /\ Len(ancestor_dirs(p)) = Depth(Owner(p))
           /\ Depth(Owner(p)) \in Nat /\ Depth(Owner(p)) >= 1
           /\ AncestorsOf(p) = {ancestor_dirs(p)[i] : i \in 1..Depth(Owner(p))}
           /\ ancestor_dirs(p)[Depth(Owner(p))] = Owner(p)
           /\ AncestorsOf(p) \subseteq Dirs
<1>1. Owner(p) \in Dirs /\ ancestor_dirs(p) = Chain[Owner(p)]
  BY OwnerLemma
<1>2. /\ Chain[Owner(p)] \in Seq(Dirs) /\ Depth(Owner(p)) \in Nat /\ Depth(Owner(p)) >= 1
      /\ Chain[Owner(p)][Depth(Owner(p))] = Owner(p)
  BY <1>1, ChainLemma
<1>3. Len(Chain[Owner(p)]) = Depth(Owner(p))
  BY DEF Depth
<1>4. DOMAIN Chain[Owner(p)] = 1..Depth(Owner(p)) /\ \A i \in 1..Depth(Owner(p)) : Chain[Owner(p)][i] \in Dirs
  BY <1>2, <1>3
<1> QED
  BY <1>1, <1>2, <1>3, <1>4 DEF AncestorsOf, ToSet

\* With a directory, those above it are above the file too.
LEMMA AncestorLemma ==
    ASSUME NEW p \in Paths
    PROVE  /\ Owner(p) \in AncestorsOf(p) /\ AncestorsOf(p) \subseteq Dirs
           /\ \A x \in AncestorsOf(p) : x # Root => ParentDir[x] \in AncestorsOf(p)
           /\ \A x \in AncestorsOf(p) : AncestorsOf(x) \subseteq AncestorsOf(p)
           /\ \A x \in AncestorsOf(p) : Depth(x) <= Depth(Owner(p))
<1> DEFINE o == Owner(p)
           n == Depth(o)
<1>1. /\ o \in Dirs /\ n \in Nat /\ n >= 1 /\ ancestor_dirs(p) = Chain[o]
      /\ AncestorsOf(p) = {Chain[o][i] : i \in 1..n}
      /\ Chain[o][n] = o /\ AncestorsOf(p) \subseteq Dirs
  BY OwnerLemma, AncestorIndex
<1>2. ChainSound(o)
  BY <1>1, ChainLemma
<1>3. Dirs \subseteq Paths
  BY OwnerLemma
<1> HIDE DEF o
<1>4. ASSUME NEW x \in AncestorsOf(p)
      PROVE  /\ x # Root => ParentDir[x] \in AncestorsOf(p)
             /\ AncestorsOf(x) \subseteq AncestorsOf(p)
             /\ Depth(x) <= n
  <2>1. PICK i \in 1..n : x = Chain[o][i]
    BY <1>1
  <2>2. /\ Depth(x) = i
        /\ i > 1 => x # Root /\ ParentDir[x] = Chain[o][i - 1]
        /\ i = 1 => x = Root
        /\ \A j \in 1..i : Chain[x][j] = Chain[o][j]
    BY <2>1, <1>2 DEF ChainSound
  <2>3. x # Root => ParentDir[x] \in AncestorsOf(p)
    <3> SUFFICES ASSUME x # Root PROVE ParentDir[x] \in AncestorsOf(p)
      OBVIOUS
    <3>1. i - 1 \in 1..n /\ ParentDir[x] = Chain[o][i - 1]
      BY <2>2, <1>1
    <3> QED
      BY <3>1, <1>1
  <2>4. AncestorsOf(x) = {Chain[x][j] : j \in 1..i}
    <3>1. x \in Dirs /\ x \in Paths
      BY <1>1, <1>3
    <3>2. Owner(x) = x /\ ancestor_dirs(x) = Chain[x]
      BY <3>1, OwnerLemma
    <3>3. AncestorsOf(x) = {ancestor_dirs(x)[j] : j \in 1..Depth(Owner(x))}
      BY <3>1, AncestorIndex
    <3> QED
      BY <3>2, <3>3, <2>2
  <2>5. \A j \in 1..i : j \in 1..n
    BY <1>1
  <2> QED
    BY <2>2, <2>3, <2>4, <2>5, <1>1
<1> QED
  BY <1>1, <1>4 DEF o

\* The index.md files to rewrite: those above the page, from the root down.
LEMMA ToRefreshLemma ==
    ASSUME NEW p \in Paths
    PROVE  /\ ToRefresh(p) \in Seq(Dirs)
           /\ \A i \in 1..Len(ToRefresh(p)) :
                /\ ToRefresh(p)[i] \in AncestorsOf(p) /\ ToRefresh(p)[i] # p
                /\ Depth(ToRefresh(p)[i]) = i
                /\ i > 1 => ParentDir[ToRefresh(p)[i]] = ToRefresh(p)[i - 1]
                /\ i = 1 => ToRefresh(p)[i] = Root
           /\ \A d \in AncestorsOf(p) \ {p} : d \in ToSet(ToRefresh(p))
<1> DEFINE o == Owner(p)
           n == Depth(o)
           s == ToRefresh(p)
           m == IF p \in Dirs THEN n - 1 ELSE n
<1>1. /\ o \in Dirs /\ n \in Nat /\ n >= 1 /\ ancestor_dirs(p) = Chain[o] /\ Chain[o] \in Seq(Dirs)
      /\ Len(Chain[o]) = n
      /\ AncestorsOf(p) = {Chain[o][i] : i \in 1..n}
      /\ Chain[o][n] = o /\ AncestorsOf(p) \subseteq Dirs
  BY OwnerLemma, AncestorIndex
<1>2. ChainSound(o)
  BY <1>1, ChainLemma
<1>3. p \in Dirs => o = p
  BY OwnerLemma
<1>4. s = IF p \in Dirs THEN SubSeq(Chain[o], 1, n - 1) ELSE Chain[o]
  BY <1>1 DEF ToRefresh, Front
<1> HIDE DEF o, n, s
<1>5. s \in Seq(Dirs) /\ Len(s) = m /\ \A i \in 1..m : s[i] = Chain[o][i]
  BY <1>1, <1>4
<1>6. m \in Nat /\ m <= n
  BY <1>1
<1>7. \A i \in 1..m : p \in Dirs => i < n
  BY <1>1
<1> HIDE DEF m
<1>8. ASSUME NEW i \in 1..m
      PROVE  /\ s[i] \in AncestorsOf(p) /\ s[i] # p
             /\ Depth(s[i]) = i
             /\ i > 1 => ParentDir[s[i]] = s[i - 1]
             /\ i = 1 => s[i] = Root
  <2>1. s[i] = Chain[o][i] /\ i \in 1..n /\ (i > 1 => s[i - 1] = Chain[o][i - 1])
    BY <1>1, <1>5, <1>6
  <2>2. /\ Depth(Chain[o][i]) = i
        /\ i > 1 => ParentDir[Chain[o][i]] = Chain[o][i - 1]
        /\ i = 1 => Chain[o][i] = Root
    BY <2>1, <1>2 DEF ChainSound, n
  <2>3. s[i] # p
    <3>1. ASSUME s[i] = p PROVE FALSE
      <4>1. p \in Dirs
        BY <3>1, <2>1, <1>1
      <4>2. o = p /\ i < n /\ Depth(o) = n
        BY <4>1, <1>3, <1>7 DEF n
      <4> QED
        BY <4>2, <3>1, <2>1, <2>2, <1>1
    <3> QED
      BY <3>1
  <2> QED
    BY <2>1, <2>2, <2>3, <1>1
<1>9. ASSUME NEW d \in AncestorsOf(p) \ {p} PROVE d \in ToSet(s)
  <2>1. PICK i \in 1..n : d = Chain[o][i]
    BY <1>1
  <2>2. i \in 1..m
    BY <2>1, <1>1, <1>3 DEF m
  <2>3. i \in DOMAIN s
    BY <2>2, <1>5, <1>6
  <2> QED
    BY <2>1, <2>2, <2>3, <1>5 DEF ToSet
<1> QED
  BY <1>5, <1>8, <1>9 DEF s

\* A directory contains markdown if it is above a file that exists.
LEMMA ContainsLemma ==
    ASSUME NEW files, NEW d
    PROVE  dir_contains_markdown(files, d) <=>
             \E p \in Paths : files[p] # None /\ d \in AncestorsOf(p)
BY DEF dir_contains_markdown, AncestorsOf, ToSet

-----------------------------------------------------------------------------
(* Whose list a change of one file can make stale.                         *)

\* A list depends on the index.md itself and on the children.
LEMMA FreshSame ==
    ASSUME NEW d \in Dirs, disk'[d] = disk[d],
           dir_contains_markdown(disk', d) <=> dir_contains_markdown(disk, d),
           \A x \in Paths \ {Root} : IsChild(disk', x, d) <=> IsChild(disk, x, d)
    PROVE  ListFresh(d)' <=> ListFresh(d)
<1>1. {x \in Paths \ {Root} : IsChild(disk', x, d)} = {x \in Paths \ {Root} : IsChild(disk, x, d)}
  OBVIOUS
<1> QED
  BY <1>1 DEF ListFresh

\* A directory is one deeper than its parent, and below what its parent is below.
LEMMA ParentLemma ==
    ASSUME NEW d \in Dirs, d # Root
    PROVE  /\ ParentDir[d] \in Dirs /\ ParentDir[d] \in Paths /\ d \in Paths
           /\ Depth(d) = Depth(ParentDir[d]) + 1 /\ Depth(ParentDir[d]) \in Nat
           /\ AncestorsOf(d) \subseteq AncestorsOf(ParentDir[d]) \cup {d}
<1> DEFINE f == ParentDir[d]
           n == Depth(d)
<1>1. f \in Dirs /\ f \in Paths /\ d \in Paths
  BY PagesAssumption DEF Paths
<1>2. Owner(d) = d /\ ancestor_dirs(d) = Chain[d] /\ Owner(f) = f /\ ancestor_dirs(f) = Chain[f]
  BY <1>1, OwnerLemma
<1>3. /\ n \in Nat /\ n >= 1 /\ Chain[d][n] = d /\ ChainSound(d)
      /\ Depth(f) \in Nat /\ Depth(f) >= 1
  BY <1>1, ChainLemma
<1>4. /\ AncestorsOf(d) = {Chain[d][i] : i \in 1..n}
      /\ AncestorsOf(f) = {Chain[f][i] : i \in 1..Depth(f)}
  <2>1. \A q \in Paths : AncestorsOf(q) = {ancestor_dirs(q)[i] : i \in 1..Depth(Owner(q))}
    BY AncestorIndex
  <2> QED
    BY <2>1, <1>1, <1>2
<1> HIDE DEF n
<1>5. n > 1
  <2> SUFFICES ASSUME n = 1 PROVE FALSE
    BY <1>3
  <2>1. Chain[d][1] = Root
    BY <1>3 DEF ChainSound, n
  <2> QED
    BY <2>1, <1>3
<1>6. n - 1 \in 1..n /\ f = Chain[d][n - 1]
  BY <1>3, <1>5 DEF ChainSound, n
<1>7. Depth(f) = n - 1 /\ \A j \in 1..(n - 1) : Chain[f][j] = Chain[d][j]
  BY <1>6, <1>3 DEF ChainSound, n
<1>8. ASSUME NEW x \in AncestorsOf(d), x # d PROVE x \in AncestorsOf(f)
  <2>1. PICK i \in 1..n : x = Chain[d][i]
    BY <1>4
  <2>2. i \in 1..(n - 1)
    BY <2>1, <1>3, <1>8
  <2> QED
    BY <2>1, <2>2, <1>4, <1>7
<1> QED
  BY <1>1, <1>3, <1>7, <1>8 DEF n

\* What is above a directory is the directory or above its parent.
LEMMA AboveParent ==
    ASSUME NEW d \in Dirs, NEW x \in AncestorsOf(d), x # d
    PROVE  d # Root /\ x \in AncestorsOf(ParentDir[d]) /\ ParentDir[d] \in Paths
<1>1. d # Root
  <2> SUFFICES ASSUME d = Root PROVE FALSE
    OBVIOUS
  <2>1. Root \in Paths /\ Chain[Root] = <<Root>> /\ Root \in Dirs
    BY PagesAssumption DEF Paths
  <2>2. AncestorsOf(Root) = {Root}
    BY <2>1, OwnerLemma DEF AncestorsOf, ToSet
  <2> QED
    BY <2>2
<1> QED
  BY <1>1, ParentLemma

\* A directory is not above its parent.
LEMMA ChildNotAbove ==
    ASSUME NEW x \in Dirs, x # Root
    PROVE  x \notin AncestorsOf(ParentDir[x])
<1>1. ParentDir[x] \in Dirs /\ ParentDir[x] \in Paths /\ Depth(x) = Depth(ParentDir[x]) + 1
      /\ Depth(ParentDir[x]) \in Nat
  BY ParentLemma
<1>2. \A y \in AncestorsOf(ParentDir[x]) : Depth(y) <= Depth(Owner(ParentDir[x]))
  BY <1>1, AncestorLemma
<1>3. Owner(ParentDir[x]) = ParentDir[x]
  BY <1>1, OwnerLemma
<1> QED
  BY <1>1, <1>2, <1>3

\* A change of a file concerns the directories above it only.
LEMMA ContainsFar ==
    ASSUME disk \in [Paths -> Doc \cup {None}], NEW p \in Paths, NEW v,
           disk' = [disk EXCEPT ![p] = v], NEW x, x \notin AncestorsOf(p)
    PROVE  dir_contains_markdown(disk', x) <=> dir_contains_markdown(disk, x)
<1>1. \A q \in Paths : x \in AncestorsOf(q) => disk'[q] = disk[q]
  OBVIOUS
<1> QED
  BY <1>1, ContainsLemma

\* Only the lists above the file.
LEMMA FreshFar ==
    ASSUME disk \in [Paths -> Doc \cup {None}], NEW p \in Paths, NEW v,
           disk' = [disk EXCEPT ![p] = v], NEW d \in Dirs, d \notin AncestorsOf(p)
    PROVE  ListFresh(d)' <=> ListFresh(d)
<1>1. /\ Owner(p) \in AncestorsOf(p)
      /\ \A x \in AncestorsOf(p) : x # Root => ParentDir[x] \in AncestorsOf(p)
  BY AncestorLemma
<1>2. /\ p \in Dirs => Owner(p) = p
      /\ p \in Pages => Owner(p) = ParentDir[p]
      /\ Dirs \subseteq Paths
  BY OwnerLemma
<1>3. disk'[d] = disk[d]
  BY <1>1, <1>2
<1>4. dir_contains_markdown(disk', d) <=> dir_contains_markdown(disk, d)
  BY ContainsFar
<1>5. ASSUME NEW x \in Paths \ {Root}, ParentDir[x] = d
      PROVE  IsChild(disk', x, d) <=> IsChild(disk, x, d)
  <2>1. CASE x \in Pages
    <3>1. x # p
      BY <2>1, <1>1, <1>2, <1>5
    <3> QED
      BY <2>1, <3>1 DEF IsChild
  <2>2. CASE x \notin Pages
    <3>1. x \notin AncestorsOf(p)
      BY <1>1, <1>5
    <3>2. dir_contains_markdown(disk', x) <=> dir_contains_markdown(disk, x)
      BY <3>1, ContainsFar
    <3> QED
      BY <2>2, <3>2 DEF IsChild
  <2> QED
    BY <2>1, <2>2
<1>6. \A x \in Paths \ {Root} : IsChild(disk', x, d) <=> IsChild(disk, x, d)
  BY <1>5 DEF IsChild
<1> QED
  BY <1>3, <1>4, <1>6, FreshSame

\* An index.md written in a directory that has one, or below one that has:
\* only its own list, and the list of the parent when it is the first file.
LEMMA FreshBeside ==
    ASSUME disk \in [Paths -> Doc \cup {None}], NEW d \in Dirs, NEW v, v # None,
           disk' = [disk EXCEPT ![d] = v],
           d # Root => disk[ParentDir[d]] # None,
           NEW e \in Dirs, e # d,
           dir_contains_markdown(disk, d) \/ d = Root \/ e # ParentDir[d]
    PROVE  ListFresh(e)' <=> ListFresh(e)
<1>0. d \in Paths /\ e \in Paths /\ Dirs \subseteq Paths /\ Pages \cap Dirs = {}
  BY PagesAssumption DEF Paths
<1>1. disk'[e] = disk[e] /\ disk'[d] # None
  BY <1>0
<1>2. \A q \in Paths : q # d => disk'[q] = disk[q]
  OBVIOUS
<1>3. ASSUME NEW x \in Dirs, x # d \/ dir_contains_markdown(disk, d)
      PROVE  dir_contains_markdown(disk', x) <=> dir_contains_markdown(disk, x)
  <2>1. ASSUME dir_contains_markdown(disk, x) PROVE dir_contains_markdown(disk', x)
    <3>1. PICK q \in Paths : disk[q] # None /\ x \in AncestorsOf(q)
      BY <2>1, ContainsLemma
    <3>2. disk'[q] # None
      BY <3>1, <1>1, <1>2
    <3> QED
      BY <3>1, <3>2, ContainsLemma
  <2>2. ASSUME dir_contains_markdown(disk', x) PROVE dir_contains_markdown(disk, x)
    <3>1. PICK q \in Paths : disk'[q] # None /\ x \in AncestorsOf(q)
      BY <2>2, ContainsLemma
    <3>2. CASE q # d
      BY <3>1, <3>2, <1>2, ContainsLemma
    <3>3. CASE q = d /\ dir_contains_markdown(disk, d)
      <4>1. PICK r \in Paths : disk[r] # None /\ d \in AncestorsOf(r)
        BY <3>3, ContainsLemma
      <4>2. AncestorsOf(d) \subseteq AncestorsOf(r)
        BY <4>1, AncestorLemma
      <4> QED
        BY <3>1, <3>3, <4>1, <4>2, ContainsLemma
    <3>4. CASE q = d /\ x # d
      <4>1. d # Root /\ x \in AncestorsOf(ParentDir[d]) /\ ParentDir[d] \in Paths
        BY <3>1, <3>4, AboveParent
      <4>2. disk[ParentDir[d]] # None
        BY <4>1
      <4> QED
        BY <4>1, <4>2, ContainsLemma
    <3> QED
      BY <3>2, <3>3, <3>4, <1>3
  <2> QED
    BY <2>1, <2>2
<1>4. dir_contains_markdown(disk', e) <=> dir_contains_markdown(disk, e)
  BY <1>3
<1>5. ASSUME NEW x \in Paths \ {Root}, ParentDir[x] = e
      PROVE  IsChild(disk', x, e) <=> IsChild(disk, x, e)
  <2>1. CASE x \in Pages
    BY <2>1, <1>0, <1>2 DEF IsChild
  <2>2. CASE x \notin Pages
    <3>1. x \in Dirs /\ (x # d \/ dir_contains_markdown(disk, d))
      BY <2>2, <1>5 DEF Paths
    <3> QED
      BY <2>2, <3>1, <1>3 DEF IsChild
  <2> QED
    BY <2>1, <2>2
<1>6. \A x \in Paths \ {Root} : IsChild(disk', x, e) <=> IsChild(disk, x, e)
  BY <1>5 DEF IsChild
<1> QED
  BY <1>1, <1>4, <1>6, FreshSame

\* The list the walk has just composed.
LEMMA FreshWritten ==
    ASSUME disk \in [Paths -> Doc \cup {None}], NEW d \in Dirs,
           disk' = [disk EXCEPT ![d] = compose_index_md(disk, d)],
           Marked(compose_index_md(disk, d))
    PROVE  ListFresh(d)'
<1> DEFINE new == compose_index_md(disk, d)
<1>0. d \in Paths /\ None \notin Doc /\ Pages \cap Dirs = {}
  BY PagesAssumption DEF Paths
<1>1. new \in Doc /\ LinkedNames(new) = Children(disk, d)
  BY ComposeLemma
<1>2. disk'[d] = new /\ new # None /\ \A q \in Paths : q # d => disk'[q] = disk[q]
  BY <1>0, <1>1
<1> HIDE DEF new
<1>3. ASSUME NEW x \in Paths \ {Root}, ParentDir[x] = d
      PROVE  IsChild(disk', x, d) <=> IsChild(disk, x, d)
  <2>1. CASE x \in Pages
    BY <2>1, <1>0, <1>2 DEF IsChild
  <2>2. CASE x \notin Pages
    <3>1. x \in Dirs /\ x # Root
      BY <2>2 DEF Paths
    <3>2. x \notin AncestorsOf(d)
      BY <3>1, <1>3, ChildNotAbove
    <3>3. dir_contains_markdown(disk', x) <=> dir_contains_markdown(disk, x)
      BY <3>2, <1>0, ContainsFar
    <3> QED
      BY <2>2, <3>3 DEF IsChild
  <2> QED
    BY <2>1, <2>2
<1>4. {x \in Paths \ {Root} : IsChild(disk', x, d)} = Children(disk, d)
  BY <1>3 DEF IsChild, Children
<1> QED
  BY <1>1, <1>2, <1>4 DEF ListFresh

\* A list that a walk finds as it would compose it.
LEMMA FreshFound ==
    ASSUME disk \in [Paths -> Doc \cup {None}], NEW d \in Dirs,
           disk[d] = compose_index_md(disk, d)
    PROVE  ListFresh(d)
<1>0. None \notin Doc
  BY PagesAssumption
<1>1. disk[d] \in Doc /\ (Marked(disk[d]) => LinkedNames(disk[d]) = Children(disk, d))
  BY ComposeLemma
<1> QED
  BY <1>0, <1>1 DEF ListFresh, Children

-----------------------------------------------------------------------------
(* The inductive invariant.                                                *)

\* Before the lock, a handler has nothing in hand; past it, it holds the guard.
Out(j) == j.at \in {"idle", "lock"}

\* Past its change of the page, a handler has a walk to do or to finish.
Walking(j) == j.at \in {"prune", "evict", "refresh", "put"}

ItemAt(j) == Head(j.items)

\* A handler has an item, and is at a place for its kind of item.
ItemSound(j) ==
    /\ j.at # "idle" => j.items # <<>>
    /\ j.at \in {"read", "write", "prune"} => ItemAt(j).op # "delete"

\* A text to be written is what the files of now make of it.
TextSound(j, files) ==
    /\ j.at = "write" =>
         /\ Composable(ItemAt(j), files[ItemAt(j).path])
         /\ j.text = Composed(ItemAt(j), files[ItemAt(j).path])
    /\ j.at = "put" =>
         /\ j.todo # <<>>
         /\ j.text = compose_index_md(files, Head(j.todo))
         /\ j.text # files[Head(j.todo)]

\* The walk goes down from parent to child among the directories above the
\* page, none twice and none indexed yet, and the directory above the next
\* one has an index.md.
WalkSound(j, files) ==
    Walking(j) =>
      /\ \A i \in 1..Len(j.todo) :
           /\ j.todo[i] \in AncestorsOf(ItemAt(j).path) /\ j.todo[i] # ItemAt(j).path
           /\ Depth(j.todo[i]) = Depth(j.todo[1]) + i - 1
           /\ i > 1 => ParentDir[j.todo[i]] = j.todo[i - 1]
           /\ j.bytes[j.todo[i]] = None
      /\ j.todo # <<>> /\ j.todo[1] # Root => files[ParentDir[j.todo[1]]] # None

\* The bytes to be indexed are those of the files.
BytesSound(j, files) ==
    /\ j.at \notin {"refresh", "put"} => j.bytes = Nothing
    /\ \A p \in Paths : j.bytes[p] # None => j.bytes[p] = Indexed(files[p])

\* A page about to lose its row says nothing, or is gone.
PruneSound(j, files, index, told) ==
    /\ j.at = "prune" =>
         /\ Indexed(files[ItemAt(j).path]) = None
         /\ force_overwrite(ItemAt(j)) \/ index[ItemAt(j).path] = None \/ ItemAt(j).path \in told
    /\ j.at = "evict" => files[ItemAt(j).path] = None

JobSound(j, files, index, told) ==
    /\ ItemSound(j) /\ TextSound(j, files) /\ WalkSound(j, files)
    /\ BytesSound(j, files) /\ PruneSound(j, files, index, told)

\* The rows and lists a handler is still to put right.
RowOpen(j, p)  == j.bytes[p] # None \/ (j.at \in {"prune", "evict"} /\ p = ItemAt(j).path)
ListOpen(j, d) == Walking(j) /\ d \in ToSet(j.todo)

GuardHeld == \A c \in Clients : Out(job[c]) <=> guard # c
JobsSound == \A c \in Clients : JobSound(job[c], disk, rows, rowsTold)

\* Every row is that of its file, or told, or a handler is about to make it so.
RowsHeld ==
    \A p \in Paths :
        rows[p] = Indexed(disk[p]) \/ p \in rowsTold \/ \E c \in Clients : RowOpen(job[c], p)

\* Every list is fresh, or told, or still to be rewritten.
ListsHeld ==
    \A d \in Dirs : ListFresh(d) \/ d \in linksTold \/ \E c \in Clients : ListOpen(job[c], d)

IInv ==
    /\ TypeOK /\ GuardHeld /\ JobsSound
    /\ NoLostUpdate /\ RowsHeld /\ ListsHeld

-----------------------------------------------------------------------------
(* What every step has in common.                                          *)

\* An idle handler has nothing in hand.
LEMMA NoJobType == NoJob \in Job /\ NoJob.at = "idle" /\ NoJob.bytes = Nothing /\ Nothing \in [Paths -> Doc \cup {None}]
BY DEF NoJob, Job, Places, Nothing

\* A handler before the lock asks nothing of the files.
LEMMA OutSound ==
    ASSUME NEW j \in Job, Out(j), ItemSound(j), j.bytes = Nothing, NEW files, NEW index, NEW told
    PROVE  /\ JobSound(j, files, index, told)
           /\ \A p \in Paths : ~RowOpen(j, p)
           /\ \A d \in Dirs : ~ListOpen(j, d)
BY DEF Out, JobSound, TextSound, WalkSound, BytesSound, PruneSound, Walking, RowOpen, ListOpen, Nothing

\* While nobody else holds the guard, nobody else has anything in hand.
LEMMA OthersOut ==
    ASSUME IInv, NEW c \in Clients, guard = None \/ guard = c, NEW x \in Clients, x # c
    PROVE  /\ job[x] \in Job /\ Out(job[x]) /\ ItemSound(job[x]) /\ job[x].bytes = Nothing
           /\ \A p \in Paths : ~RowOpen(job[x], p)
           /\ \A d \in Dirs : ~ListOpen(job[x], d)
<1>1. guard # x
  BY PagesAssumption
<1>2. job[x] \in Job /\ Out(job[x])
  BY <1>1 DEF IInv, TypeOK, GuardHeld
<1>3. ItemSound(job[x]) /\ job[x].bytes = Nothing
  BY <1>2 DEF IInv, JobsSound, JobSound, BytesSound, Out
<1> QED
  BY <1>2, <1>3, OutSound

\* The rows and lists, as the one handler at work sees them.
LEMMA Holder ==
    ASSUME IInv, NEW c \in Clients, guard = None \/ guard = c
    PROVE  /\ \A p \in Paths : rows[p] = Indexed(disk[p]) \/ p \in rowsTold \/ RowOpen(job[c], p)
           /\ \A d \in Dirs : ListFresh(d) \/ d \in linksTold \/ ListOpen(job[c], d)
<1>1. \A x \in Clients : x # c => /\ \A p \in Paths : ~RowOpen(job[x], p)
                                  /\ \A d \in Dirs : ~ListOpen(job[x], d)
  <2> SUFFICES ASSUME NEW x \in Clients, x # c
               PROVE  /\ \A p \in Paths : ~RowOpen(job[x], p)
                      /\ \A d \in Dirs : ~ListOpen(job[x], d)
    OBVIOUS
  <2> QED
    BY OthersOut
<1> QED
  BY <1>1 DEF IInv, RowsHeld, ListsHeld

\* A step of the one handler at work keeps the invariant if it keeps its own
\* part of it.
LEMMA HolderStep ==
    ASSUME IInv, NEW c \in Clients, guard = None \/ guard = c,
           TypeOK', \A x \in Clients : x # c => job'[x] = job[x],
           (Out(job'[c]) /\ guard' = None) \/ (~Out(job'[c]) /\ guard' = c),
           JobSound(job'[c], disk', rows', rowsTold'),
           disk' = serial',
           \A p \in Paths : rows'[p] = Indexed(disk'[p]) \/ p \in rowsTold' \/ RowOpen(job'[c], p),
           \A d \in Dirs : ListFresh(d)' \/ d \in linksTold' \/ ListOpen(job'[c], d)
    PROVE  IInv'
<1>1. ASSUME NEW x \in Clients, x # c
      PROVE  Out(job'[x]) /\ JobSound(job'[x], disk', rows', rowsTold')
  <2>1. job[x] \in Job /\ Out(job[x]) /\ ItemSound(job[x]) /\ job[x].bytes = Nothing
    BY <1>1, OthersOut
  <2>2. JobSound(job[x], disk', rows', rowsTold')
    BY <2>1, OutSound
  <2> QED
    BY <1>1, <2>1, <2>2
<1>2. GuardHeld'
  <2>0. None \notin Clients
    BY PagesAssumption
  <2>1. \A x \in Clients : Out(job'[x]) <=> guard' # x
    BY <1>1, <2>0
  <2> QED
    BY <2>1 DEF GuardHeld
<1>3. JobsSound'
  BY <1>1 DEF JobsSound
<1>4. RowsHeld'
  BY DEF RowsHeld
<1>5. ListsHeld'
  BY DEF ListsHeld
<1>6. NoLostUpdate'
  BY DEF NoLostUpdate
<1> QED
  BY <1>2, <1>3, <1>4, <1>5, <1>6 DEF IInv

\* A step of a handler before the lock, that leaves files and rows alone.
LEMMA OuterStep ==
    ASSUME IInv, NEW c \in Clients, Out(job[c]),
           job' \in [Clients -> Job], \A x \in Clients : x # c => job'[x] = job[x],
           Out(job'[c]), ItemSound(job'[c]), job'[c].bytes = Nothing,
           requests' \in 0..MaxRequests, faults' \in 0..MaxFaults,
           UNCHANGED <<disk, rows, guard, serial, rowsTold, linksTold>>
    PROVE  IInv'
<1>0. /\ job[c] \in Job /\ ItemSound(job[c]) /\ job[c].bytes = Nothing
  BY DEF IInv, TypeOK, JobsSound, JobSound, BytesSound, Out
<1>1. /\ \A p \in Paths : ~RowOpen(job[c], p)
      /\ \A d \in Dirs : ~ListOpen(job[c], d)
  BY <1>0, OutSound
<1>2. TypeOK'
  BY DEF IInv, TypeOK
<1>3. JobSound(job'[c], disk', rows', rowsTold')
  <2>1. job'[c] \in Job
    OBVIOUS
  <2> QED
    BY <2>1, OutSound
<1>4. JobsSound'
  BY <1>3 DEF IInv, JobsSound
<1>5. GuardHeld'
  BY DEF IInv, GuardHeld
<1>6. RowsHeld'
  BY <1>1 DEF IInv, RowsHeld
<1>7. ListsHeld'
  <2>1. \A d \in Dirs : ListFresh(d)' <=> ListFresh(d)
    BY DEF ListFresh
  <2> QED
    BY <1>1, <2>1 DEF IInv, ListsHeld
<1> QED
  BY <1>2, <1>4, <1>5, <1>6, <1>7 DEF IInv, NoLostUpdate

\* The answer drops the guard and leaves nothing in hand.
LEMMA AnsweredLemma ==
    ASSUME IInv, NEW c \in Clients, ~(job[c].at = "idle"), Answered(c)
    PROVE  /\ job' \in [Clients -> Job] /\ \A x \in Clients : x # c => job'[x] = job[x]
           /\ Out(job'[c]) /\ ItemSound(job'[c]) /\ job'[c].bytes = Nothing
           /\ requests' = requests
           /\ guard' = IF guard = c THEN None ELSE guard
<1> DEFINE rest == Tail(job[c].items)
           j == IF rest = <<>> THEN NoJob ELSE [NoJob EXCEPT !.at = "lock", !.items = rest]
<1>1. job \in [Clients -> Job] /\ job[c].items # <<>> /\ job[c].items \in Seq(Item)
  BY DEF IInv, TypeOK, JobsSound, JobSound, ItemSound, Job
<1>2. rest \in Seq(Item)
  BY <1>1, HeadTailProperties
<1>3. job' = [job EXCEPT ![c] = j] /\ requests' = requests /\ guard' = IF guard = c THEN None ELSE guard
  BY DEF Answered
<1> HIDE DEF rest
<1>4. j \in Job /\ Out(j) /\ ItemSound(j) /\ j.bytes = Nothing
  BY <1>2, NoJobType DEF NoJob, Job, Places, Out, ItemSound
<1> HIDE DEF j
<1> QED
  BY <1>1, <1>3, <1>4

-----------------------------------------------------------------------------
(* One lemma per step of a handler.                                        *)

\* Arrive: a client asks, and its handler waits for the lock.
LEMMA ArriveIInv ==
    ASSUME IInv, NEW c \in Clients, NEW r \in Requests, Arrive(c, r) PROVE IInv'
<1> DEFINE j == [NoJob EXCEPT !.at = "lock", !.items = r]
<1>1. r \in Seq(Item) /\ r # <<>>
  BY RequestsAssumption
<1>2. j \in Job /\ Out(j) /\ ItemSound(j) /\ j.bytes = Nothing
  BY <1>1, NoJobType DEF NoJob, Job, Places, Out, ItemSound
<1>3. job' = [job EXCEPT ![c] = j] /\ job \in [Clients -> Job]
  BY DEF Arrive, IInv, TypeOK
<1> HIDE DEF j
<1>4. requests' \in 0..MaxRequests /\ faults' \in 0..MaxFaults
  BY PagesAssumption DEF Arrive, IInv, TypeOK
<1>5. Out(job[c])
  BY DEF Arrive, At, Out
<1>6. UNCHANGED <<disk, rows, guard, serial, rowsTold, linksTold>>
  BY DEF Arrive
<1>7. /\ job' \in [Clients -> Job] /\ \A x \in Clients : x # c => job'[x] = job[x]
      /\ job'[c] = j
  BY <1>2, <1>3
<1> QED
  BY <1>2, <1>4, <1>5, <1>6, <1>7, OuterStep

\* Files, rows and what was told of them are left alone.
LEMMA QuietFresh == ASSUME UNCHANGED disk, NEW d \in Dirs PROVE ListFresh(d)' <=> ListFresh(d)
BY DEF ListFresh

\* A step inside that only moves on before the change of the page.
LEMMA EarlyStep ==
    ASSUME IInv, NEW c \in Clients, guard = None \/ guard = c,
           job[c].at \in {"lock", "read", "write", "unlink"},
           job' \in [Clients -> Job], \A x \in Clients : x # c => job'[x] = job[x],
           (Out(job'[c]) /\ guard' = None) \/ (~Out(job'[c]) /\ guard' = c),
           JobSound(job'[c], disk, rows, rowsTold),
           requests' \in 0..MaxRequests, faults' \in 0..MaxFaults,
           UNCHANGED <<disk, rows, serial, rowsTold, linksTold>>
    PROVE  IInv'
<1>1. TypeOK'
  BY DEF IInv, TypeOK
<1>2. job[c].bytes = Nothing
  BY DEF IInv, JobsSound, JobSound, BytesSound
<1>3. /\ \A p \in Paths : ~RowOpen(job[c], p)
      /\ \A d \in Dirs : ~ListOpen(job[c], d)
  BY <1>2 DEF RowOpen, ListOpen, Walking, Nothing
<1>4. /\ \A p \in Paths : rows'[p] = Indexed(disk'[p]) \/ p \in rowsTold'
      /\ \A d \in Dirs : ListFresh(d)' \/ d \in linksTold'
  BY <1>3, Holder, QuietFresh
<1>5. disk' = serial'
  BY DEF IInv, NoLostUpdate
<1> QED
  BY <1>1, <1>4, <1>5, HolderStep

\* The handler at work holds the guard.
LEMMA HeldInside ==
    ASSUME IInv, NEW c \in Clients, ~Out(job[c])
    PROVE  guard = c
BY DEF IInv, GuardHeld

\* TakeGuard: nobody is inside when the guard is free.
LEMMA TakeGuardIInv == ASSUME IInv, NEW c \in Clients, TakeGuard(c) PROVE IInv'
<1> DEFINE j == [job[c] EXCEPT !.at = FirstStep(ItemOf(c))]
<1>1. job \in [Clients -> Job] /\ job[c] \in Job /\ job[c].at = "lock" /\ guard = None /\ guard' = c
  BY DEF TakeGuard, At, IInv, TypeOK
<1>2. ItemSound(job[c]) /\ job[c].bytes = Nothing
  BY <1>1 DEF IInv, JobsSound, JobSound, BytesSound
<1>3. job' = [job EXCEPT ![c] = j]
  BY <1>1 DEF TakeGuard, Goto
<1>4. FirstStep(ItemOf(c)) \in {"read", "unlink"} /\ (FirstStep(ItemOf(c)) = "read" => ItemOf(c).op # "delete")
  BY DEF FirstStep
<1>5. j \in Job /\ ~Out(j) /\ j.at \in {"read", "unlink"} /\ j.bytes = Nothing /\ j.items = job[c].items
      /\ (j.at = "read" => ItemAt(j).op # "delete")
  BY <1>1, <1>2, <1>4 DEF Job, Places, Out, ItemAt, ItemOf
<1> HIDE DEF j
<1>6. JobSound(j, disk, rows, rowsTold)
  BY <1>1, <1>2, <1>5 DEF JobSound, ItemSound, TextSound, WalkSound, BytesSound, PruneSound, Walking, Nothing
<1>7. /\ job' \in [Clients -> Job] /\ \A x \in Clients : x # c => job'[x] = job[x]
      /\ job'[c] = j
  BY <1>1, <1>3, <1>5
<1>8. /\ requests' \in 0..MaxRequests /\ faults' \in 0..MaxFaults
      /\ UNCHANGED <<disk, rows, serial, rowsTold, linksTold>>
  BY DEF TakeGuard, IInv, TypeOK
<1> QED
  BY <1>1, <1>5, <1>6, <1>7, <1>8, EarlyStep

\* An answer before the change of the page.
LEMMA RefusedIInv ==
    ASSUME IInv, NEW c \in Clients, job[c].at \in {"lock", "read", "write", "unlink"},
           Answered(c), faults' \in 0..MaxFaults,
           UNCHANGED <<disk, rows, serial, rowsTold, linksTold>>
    PROVE  IInv'
<1>1. /\ job' \in [Clients -> Job] /\ \A x \in Clients : x # c => job'[x] = job[x]
      /\ Out(job'[c]) /\ ItemSound(job'[c]) /\ job'[c].bytes = Nothing
      /\ requests' = requests
      /\ guard' = IF guard = c THEN None ELSE guard
  BY AnsweredLemma
<1>2. requests' \in 0..MaxRequests
  BY <1>1 DEF IInv, TypeOK
<1>3. CASE job[c].at = "lock"
  <2>1. Out(job[c]) /\ guard # c
    BY <1>3 DEF Out, IInv, GuardHeld
  <2>2. UNCHANGED <<disk, rows, guard, serial, rowsTold, linksTold>>
    BY <1>1, <2>1
  <2>3. /\ job' \in [Clients -> Job] /\ \A x \in Clients : x # c => job'[x] = job[x]
        /\ Out(job'[c]) /\ ItemSound(job'[c]) /\ job'[c].bytes = Nothing
    BY <1>1
  <2> QED
    BY <1>2, <2>1, <2>2, <2>3, OuterStep
<1>4. CASE job[c].at # "lock"
  <2>1. guard = c
    BY <1>4, HeldInside DEF Out
  <2>2. job'[c] \in Job
    BY <1>1
  <2>3. JobSound(job'[c], disk, rows, rowsTold)
    BY <1>1, <2>2, OutSound
  <2> QED
    BY <1>1, <1>2, <2>1, <2>3, EarlyStep
<1> QED
  BY <1>3, <1>4

\* RefuseItem, RefuseEdit, RefuseWrite and RefuseUnlink change nothing.
LEMMA RefuseIInv ==
    ASSUME IInv, NEW c \in Clients,
           RefuseItem(c) \/ RefuseEdit(c) \/ RefuseWrite(c) \/ RefuseUnlink(c)
    PROVE  IInv'
<1>1. job[c].at \in {"lock", "read", "write", "unlink"}
  BY DEF RefuseItem, RefuseEdit, RefuseWrite, RefuseUnlink, At
<1>2. Answered(c) /\ UNCHANGED <<disk, rows, serial, rowsTold, linksTold>>
  BY DEF RefuseItem, RefuseEdit, RefuseWrite, RefuseUnlink
<1>3. faults' = faults \/ Fault
  BY DEF RefuseItem, RefuseEdit, RefuseWrite, RefuseUnlink
<1>4. faults' \in 0..MaxFaults
  BY <1>3, PagesAssumption DEF Fault, IInv, TypeOK
<1> QED
  BY <1>1, <1>2, <1>4, RefusedIInv

\* ReadPage: the text is what the page of now makes of it.
LEMMA ReadPageIInv == ASSUME IInv, NEW c \in Clients, ReadPage(c) PROVE IInv'
<1> DEFINE text == Composed(ItemOf(c), disk[PathOf(c)])
           j == [job[c] EXCEPT !.at = "write", !.text = text]
<1>1. job \in [Clients -> Job] /\ job[c] \in Job /\ job[c].at = "read"
      /\ disk \in [Paths -> Doc \cup {None}]
  BY DEF ReadPage, At, IInv, TypeOK
<1>2. ItemSound(job[c]) /\ job[c].bytes = Nothing /\ job[c].items # <<>> /\ ItemOf(c).op # "delete"
  BY <1>1 DEF IInv, JobsSound, JobSound, BytesSound, ItemSound, ItemOf, ItemAt
<1>3. job' = [job EXCEPT ![c] = j] /\ Composable(ItemOf(c), disk[PathOf(c)])
  BY <1>1 DEF ReadPage
<1>4. ItemOf(c) \in Item
  BY <1>1, <1>2, HeadTailProperties DEF ItemOf, Job
<1>5. text \in Doc
  <2>1. PathOf(c) \in Paths
    BY <1>4 DEF PathOf, Item
  <2> QED
    BY <2>1, <1>1, <1>2, <1>3, <1>4, ComposedType
<1>6. j \in Job /\ ~Out(j) /\ j.at = "write" /\ j.bytes = Nothing /\ j.items = job[c].items /\ j.text = text
      /\ ItemAt(j) = ItemOf(c)
  BY <1>1, <1>2, <1>5 DEF Job, Places, Out, ItemAt, ItemOf
<1> HIDE DEF j
<1>7. JobSound(j, disk, rows, rowsTold)
  BY <1>2, <1>3, <1>6 DEF JobSound, ItemSound, TextSound, WalkSound, BytesSound, PruneSound, Walking, Nothing, PathOf
<1>8. /\ job' \in [Clients -> Job] /\ \A x \in Clients : x # c => job'[x] = job[x]
      /\ job'[c] = j
  BY <1>1, <1>3, <1>6
<1>9. /\ requests' \in 0..MaxRequests /\ faults' \in 0..MaxFaults /\ guard' = guard
      /\ UNCHANGED <<disk, rows, serial, rowsTold, linksTold>>
  BY DEF ReadPage, IInv, TypeOK
<1>10. guard = c
  BY <1>1, HeldInside DEF Out
<1> QED
  BY <1>1, <1>6, <1>7, <1>8, <1>9, <1>10, EarlyStep

\* What holds of the one handler inside.
LEMMA InsideFacts ==
    ASSUME IInv, NEW c \in Clients, ~Out(job[c])
    PROVE  /\ job \in [Clients -> Job] /\ job[c] \in Job
           /\ JobSound(job[c], disk, rows, rowsTold)
           /\ guard = c /\ job[c].items # <<>>
           /\ ItemOf(c) = ItemAt(job[c]) /\ ItemOf(c) \in Item
           /\ PathOf(c) \in Paths /\ PathOf(c) = ItemAt(job[c]).path
           /\ disk \in [Paths -> Doc \cup {None}] /\ rows \in [Paths -> Doc \cup {None}]
           /\ disk = serial /\ rowsTold \subseteq Paths /\ linksTold \subseteq Dirs
<1>1. /\ job \in [Clients -> Job] /\ job[c] \in Job
      /\ disk \in [Paths -> Doc \cup {None}] /\ rows \in [Paths -> Doc \cup {None}]
      /\ disk = serial /\ rowsTold \subseteq Paths /\ linksTold \subseteq Dirs
  BY DEF IInv, TypeOK, NoLostUpdate
<1>2. JobSound(job[c], disk, rows, rowsTold)
  BY DEF IInv, JobsSound
<1>3. job[c].items # <<>> /\ job[c].items \in Seq(Item)
  BY <1>1, <1>2 DEF Out, JobSound, ItemSound, Job
<1>4. ItemOf(c) \in Item /\ ItemOf(c) = ItemAt(job[c])
  BY <1>3, HeadTailProperties DEF ItemOf, ItemAt
<1>5. PathOf(c) \in Paths /\ PathOf(c) = ItemAt(job[c]).path
  BY <1>4 DEF PathOf, Item
<1> QED
  BY <1>1, <1>2, <1>3, <1>4, <1>5, HeldInside

\* The bytes to be indexed are a text, or nothing.
LEMMA IndexedType == ASSUME NEW doc \in Doc \cup {None} PROVE Indexed(doc) \in Doc \cup {None}
BY DEF Indexed

\* A walk that starts.
LEMMA WalkStart ==
    ASSUME NEW p \in Paths, NEW j, j.todo = ToRefresh(p), ItemAt(j).path = p,
           \A q \in Paths : q # p => j.bytes[q] = None, NEW files
    PROVE  WalkSound(j, files)
<1>1. /\ ToRefresh(p) \in Seq(Dirs)
      /\ \A i \in 1..Len(ToRefresh(p)) :
           /\ ToRefresh(p)[i] \in AncestorsOf(p) /\ ToRefresh(p)[i] # p
           /\ Depth(ToRefresh(p)[i]) = i
           /\ i > 1 => ParentDir[ToRefresh(p)[i]] = ToRefresh(p)[i - 1]
           /\ i = 1 => ToRefresh(p)[i] = Root
  BY ToRefreshLemma
<1> DEFINE s == ToRefresh(p)
<1> HIDE DEF s
<1>2. /\ s \in Seq(Dirs) /\ Len(s) \in Nat /\ j.todo = s
      /\ \A i \in 1..Len(s) :
           /\ s[i] \in AncestorsOf(p) /\ s[i] # p
           /\ Depth(s[i]) = i
           /\ i > 1 => ParentDir[s[i]] = s[i - 1]
           /\ i = 1 => s[i] = Root
  BY <1>1 DEF s
<1>3. s # <<>> => 1 \in 1..Len(s)
  BY <1>2
<1>4. \A i \in 1..Len(s) : 1 \in 1..Len(s) /\ Depth(s[1]) = 1
  BY <1>2
<1>5. \A i \in 1..Len(s) : Depth(s[i]) = Depth(s[1]) + i - 1
  BY <1>2, <1>4
<1>6. Dirs \subseteq Paths
  BY OwnerLemma
<1>7. \A i \in 1..Len(s) : j.bytes[s[i]] = None
  BY <1>2, <1>6
<1> QED
  BY <1>2, <1>3, <1>5, <1>7 DEF WalkSound

\* A change of one file before the walk: the lists above it are open.
LEMMA ListsAfterChange ==
    ASSUME IInv, NEW c \in Clients, job[c].at \in {"write", "unlink"},
           NEW p \in Paths, NEW v, disk' = [disk EXCEPT ![p] = v],
           NEW d \in Dirs
    PROVE  ListFresh(d)' \/ d \in linksTold \/ d \in AncestorsOf(p)
<1>1. ~Out(job[c]) /\ ~Walking(job[c])
  BY DEF Out, Walking
<1>2. guard = c /\ disk \in [Paths -> Doc \cup {None}]
  BY <1>1, InsideFacts
<1>3. ListFresh(d) \/ d \in linksTold
  BY <1>1, <1>2, Holder DEF ListOpen
<1> QED
  BY <1>2, <1>3, FreshFar

\* Before its change of the page, the handler at work leaves no row open.
LEMMA EarlyRows ==
    ASSUME IInv, NEW c \in Clients, job[c].at \in {"write", "unlink"}, NEW p \in Paths
    PROVE  (rows[p] = Indexed(disk[p]) \/ p \in rowsTold) /\ job[c].bytes = Nothing
<1>1. ~Out(job[c]) /\ job[c].at \notin {"prune", "evict", "refresh", "put"}
  BY DEF Out
<1>2. guard = c /\ JobSound(job[c], disk, rows, rowsTold)
  BY <1>1, InsideFacts
<1>3. job[c].bytes = Nothing
  BY <1>1, <1>2 DEF JobSound, BytesSound
<1>4. ~RowOpen(job[c], p)
  BY <1>1, <1>3 DEF RowOpen, Nothing
<1> QED
  BY <1>2, <1>3, <1>4, Holder

\* WritePage: the row of the page and the lists above it are the handler's now.
LEMMA WritePageIInv == ASSUME IInv, NEW c \in Clients, WritePage(c) PROVE IInv'
<1> DEFINE p == PathOf(c)
           text == job[c].text
           place == IF Said(text) = {} THEN "prune" ELSE "refresh"
           j == [job[c] EXCEPT !.todo = ToRefresh(p), !.at = place,
                               !.bytes = [job[c].bytes EXCEPT ![p] = Indexed(text)]]
<1>1. job[c].at = "write" /\ ~Out(job[c]) /\ MayWrite(c)
  BY DEF WritePage, At, Out
<1>2. /\ job \in [Clients -> Job] /\ job[c] \in Job
      /\ JobSound(job[c], disk, rows, rowsTold)
      /\ guard = c /\ job[c].items # <<>>
      /\ ItemOf(c) = ItemAt(job[c]) /\ ItemOf(c) \in Item
      /\ p \in Paths /\ p = ItemAt(job[c]).path
      /\ disk \in [Paths -> Doc \cup {None}] /\ rows \in [Paths -> Doc \cup {None}]
      /\ disk = serial /\ rowsTold \subseteq Paths /\ linksTold \subseteq Dirs
  BY <1>1, InsideFacts
<1>3. /\ ItemOf(c).op # "delete" /\ Composable(ItemOf(c), disk[p]) /\ text = Composed(ItemOf(c), disk[p])
      /\ job[c].bytes = Nothing
  BY <1>1, <1>2 DEF JobSound, ItemSound, TextSound, BytesSound
<1>4. text \in Doc
  BY <1>2, <1>3, ComposedType
<1>5. /\ job' = [job EXCEPT ![c] = j] /\ disk' = [disk EXCEPT ![p] = text]
      /\ serial' = [serial EXCEPT ![p] = Composed(ItemOf(c), serial[p])]
      /\ linksTold' = linksTold \cup OwnList(p)
      /\ UNCHANGED <<rows, guard, requests, faults, rowsTold>>
  BY <1>2 DEF WritePage
<1> HIDE DEF p, text
<1>6. disk' = serial'
  BY <1>2, <1>3, <1>5
<1>7. Indexed(text) \in Doc \cup {None} /\ ToRefresh(p) \in Seq(Dirs)
  BY <1>2, <1>4, IndexedType, ToRefreshLemma
<1>8. /\ j \in Job /\ ~Out(j) /\ j.at = place /\ j.items = job[c].items /\ j.todo = ToRefresh(p)
      /\ j.bytes = [Nothing EXCEPT ![p] = Indexed(text)] /\ ItemAt(j) = ItemOf(c)
  BY <1>2, <1>3, <1>7, NoJobType DEF Job, Places, Out, ItemAt
<1>9. j.bytes[p] = Indexed(text) /\ \A q \in Paths : q # p => j.bytes[q] = None
  BY <1>2, <1>8 DEF Nothing
<1> HIDE DEF j
<1>10. disk'[p] = text /\ \A q \in Paths : q # p => disk'[q] = disk[q]
  BY <1>2, <1>5
<1>11. /\ Said(text) = {} => Indexed(text) = None
       /\ Said(text) # {} => Indexed(text) # None
  BY <1>4, PagesAssumption DEF Indexed
<1>12. JobSound(j, disk', rows', rowsTold')
  <2>1. ItemSound(j) /\ TextSound(j, disk')
    BY <1>2, <1>3, <1>8 DEF ItemSound, TextSound
  <2>2. WalkSound(j, disk')
    BY <1>2, <1>8, <1>9, WalkStart
  <2>3. BytesSound(j, disk')
    <3>1. place # "refresh" => j.bytes = Nothing
      BY <1>2, <1>8, <1>11 DEF Nothing
    <3> QED
      BY <3>1, <1>8, <1>9, <1>10 DEF BytesSound
  <2>4. PruneSound(j, disk', rows', rowsTold')
    <3> SUFFICES ASSUME place = "prune"
                 PROVE  /\ Indexed(disk'[p]) = None
                        /\ force_overwrite(ItemAt(j)) \/ rows[p] = None \/ p \in rowsTold
      BY <1>2, <1>5, <1>8 DEF PruneSound
    <3>1. Indexed(disk'[p]) = None
      BY <1>10, <1>11
    <3>2. rows[p] = Indexed(disk[p]) \/ p \in rowsTold
      BY <1>1, <1>2, EarlyRows
    <3>3. force_overwrite(ItemOf(c)) \/ disk[p] = None
      BY <1>1 DEF MayWrite, p
    <3> QED
      BY <3>1, <3>2, <3>3, <1>8 DEF Indexed
  <2> QED
    BY <2>1, <2>2, <2>3, <2>4 DEF JobSound
<1>13. ASSUME NEW q \in Paths PROVE rows'[q] = Indexed(disk'[q]) \/ q \in rowsTold' \/ RowOpen(j, q)
  <2>1. CASE q = p
    BY <2>1, <1>2, <1>8, <1>9, <1>11 DEF RowOpen
  <2>2. CASE q # p
    BY <2>2, <1>1, <1>5, <1>10, EarlyRows
  <2> QED
    BY <2>1, <2>2
<1>14. ASSUME NEW d \in Dirs PROVE ListFresh(d)' \/ d \in linksTold' \/ ListOpen(j, d)
  <2>1. ListFresh(d)' \/ d \in linksTold \/ d \in AncestorsOf(p)
    BY <1>1, <1>2, <1>5, ListsAfterChange
  <2>2. d \in AncestorsOf(p) \ {p} => d \in ToSet(ToRefresh(p))
    BY <1>2, ToRefreshLemma
  <2>3. d = p => d \in linksTold'
    BY <1>5 DEF OwnList
  <2> QED
    BY <2>1, <2>2, <2>3, <1>5, <1>8 DEF ListOpen, Walking
<1>15. /\ job' \in [Clients -> Job] /\ job'[c] = j /\ \A x \in Clients : x # c => job'[x] = job[x]
  BY <1>2, <1>5, <1>8
<1>16. TypeOK'
  <2>1. disk' \in [Paths -> Doc \cup {None}] /\ serial' \in [Paths -> Doc \cup {None}]
    BY <1>2, <1>4, <1>5, <1>6
  <2>2. linksTold' \subseteq Dirs
    BY <1>2, <1>5 DEF OwnList
  <2> QED
    BY <2>1, <2>2, <1>5, <1>15 DEF IInv, TypeOK
<1> QED
  BY <1>2, <1>5, <1>6, <1>8, <1>12, <1>13, <1>14, <1>15, <1>16, HolderStep

\* A handler that answers must leave every row and list right or told.
LEMMA AnsweredStep ==
    ASSUME IInv, NEW c \in Clients, ~Out(job[c]), Answered(c),
           disk' \in [Paths -> Doc \cup {None}], rows' \in [Paths -> Doc \cup {None}],
           disk' = serial', faults' = faults \/ Fault,
           rowsTold' \subseteq Paths, linksTold' \subseteq Dirs,
           \A p \in Paths : rows'[p] = Indexed(disk'[p]) \/ p \in rowsTold',
           \A d \in Dirs : ListFresh(d)' \/ d \in linksTold'
    PROVE  IInv'
<1>1. guard = c
  BY HeldInside
<1>2. /\ job' \in [Clients -> Job] /\ \A x \in Clients : x # c => job'[x] = job[x]
      /\ Out(job'[c]) /\ ItemSound(job'[c]) /\ job'[c].bytes = Nothing
      /\ requests' = requests /\ guard' = None
  <2>1. ~(job[c].at = "idle")
    BY DEF Out
  <2> QED
    BY <2>1, <1>1, AnsweredLemma
<1>3. TypeOK'
  <2>1. faults' \in 0..MaxFaults
    BY PagesAssumption DEF Fault, IInv, TypeOK
  <2> QED
    BY <2>1, <1>2 DEF IInv, TypeOK
<1>4. JobSound(job'[c], disk', rows', rowsTold')
  <2>1. job'[c] \in Job
    BY <1>2
  <2> QED
    BY <1>2, <2>1, OutSound
<1> QED
  BY <1>1, <1>2, <1>3, <1>4, HolderStep

\* An answer that is no success leaves the page and all the lists above it open.
LEMMA AncestorsTold ==
    ASSUME NEW p \in Paths, rowsTold \subseteq Paths, linksTold \subseteq Dirs, LeaveOpen(p)
    PROVE  /\ rowsTold' = rowsTold \cup {p} /\ rowsTold' \subseteq Paths
           /\ linksTold' = linksTold \cup AncestorsOf(p) /\ linksTold' \subseteq Dirs
<1>1. AncestorsOf(p) \subseteq Dirs
  BY AncestorLemma
<1> QED
  BY <1>1 DEF LeaveOpen, AncestorsOf

\* FailWrite: whatever the file holds, its row and the lists above it are told.
LEMMA FailWriteIInv == ASSUME IInv, NEW c \in Clients, FailWrite(c) PROVE IInv'
<1> DEFINE p == PathOf(c)
           text == job[c].text
<1>1. job[c].at = "write" /\ ~Out(job[c]) /\ Fault /\ Answered(c) /\ rows' = rows /\ LeaveOpen(p)
  BY DEF FailWrite, At, Out
<1>2. /\ job[c] \in Job /\ JobSound(job[c], disk, rows, rowsTold)
      /\ ItemOf(c) = ItemAt(job[c]) /\ ItemOf(c) \in Item
      /\ p \in Paths /\ p = ItemAt(job[c]).path
      /\ disk \in [Paths -> Doc \cup {None}] /\ rows \in [Paths -> Doc \cup {None}]
      /\ disk = serial /\ rowsTold \subseteq Paths /\ linksTold \subseteq Dirs
  BY <1>1, InsideFacts
<1>3. /\ ItemOf(c).op # "delete" /\ Composable(ItemOf(c), disk[p]) /\ text = Composed(ItemOf(c), disk[p])
  BY <1>1, <1>2 DEF JobSound, ItemSound, TextSound
<1>4. text \in Doc
  BY <1>2, <1>3, ComposedType
<1>5. PICK left \in {disk[p], text} \cup {SubSeq(text, 1, n) : n \in 0..Len(text)} :
        /\ disk' = [disk EXCEPT ![p] = left]
        /\ serial' = [serial EXCEPT ![p] =
                        IF left = disk[p] THEN serial[p]
                        ELSE IF left = text THEN Composed(ItemOf(c), serial[p])
                        ELSE left]
  BY DEF FailWrite
<1> HIDE DEF p, text
<1>6. left \in Doc \cup {None}
  <2>1. \A n \in 0..Len(text) : SubSeq(text, 1, n) \in Doc
    BY <1>4 DEF Doc
  <2> QED
    BY <2>1, <1>2, <1>4, <1>5
<1>7. disk' \in [Paths -> Doc \cup {None}] /\ disk' = serial'
  BY <1>2, <1>3, <1>5, <1>6
<1>8. /\ rowsTold' = rowsTold \cup {p} /\ rowsTold' \subseteq Paths
      /\ linksTold' = linksTold \cup AncestorsOf(p) /\ linksTold' \subseteq Dirs
  BY <1>1, <1>2, AncestorsTold
<1>9. ASSUME NEW q \in Paths PROVE rows'[q] = Indexed(disk'[q]) \/ q \in rowsTold'
  <2>1. CASE q = p
    BY <2>1, <1>8
  <2>2. CASE q # p
    BY <2>2, <1>1, <1>2, <1>5, <1>8, EarlyRows
  <2> QED
    BY <2>1, <2>2
<1>10. ASSUME NEW d \in Dirs PROVE ListFresh(d)' \/ d \in linksTold'
  BY <1>1, <1>2, <1>5, <1>8, ListsAfterChange
<1> QED
  BY <1>1, <1>2, <1>7, <1>8, <1>9, <1>10, AnsweredStep

\* UnlinkPage: the row and the lists above are the handler's now.
LEMMA UnlinkPageIInv == ASSUME IInv, NEW c \in Clients, UnlinkPage(c) PROVE IInv'
<1> DEFINE p == PathOf(c)
           j == [job[c] EXCEPT !.at = "evict", !.todo = ToRefresh(p)]
<1>1. job[c].at = "unlink" /\ ~Out(job[c])
  BY DEF UnlinkPage, At, Out
<1>2. /\ job \in [Clients -> Job] /\ job[c] \in Job
      /\ JobSound(job[c], disk, rows, rowsTold)
      /\ guard = c /\ job[c].items # <<>>
      /\ ItemOf(c) = ItemAt(job[c])
      /\ p \in Paths /\ p = ItemAt(job[c]).path
      /\ disk \in [Paths -> Doc \cup {None}]
      /\ disk = serial /\ linksTold \subseteq Dirs
  BY <1>1, InsideFacts
<1>3. job[c].bytes = Nothing
  BY <1>1, <1>2 DEF JobSound, BytesSound
<1>4. /\ job' = [job EXCEPT ![c] = j] /\ disk' = [disk EXCEPT ![p] = None]
      /\ serial' = [serial EXCEPT ![p] = None]
      /\ linksTold' = linksTold \cup OwnList(p)
      /\ UNCHANGED <<rows, guard, requests, faults, rowsTold>>
  BY <1>2 DEF UnlinkPage
<1> HIDE DEF p
<1>5. ToRefresh(p) \in Seq(Dirs)
  BY <1>2, ToRefreshLemma
<1>6. /\ j \in Job /\ ~Out(j) /\ j.at = "evict" /\ j.items = job[c].items /\ j.todo = ToRefresh(p)
      /\ j.bytes = Nothing /\ ItemAt(j) = ItemOf(c)
  BY <1>2, <1>3, <1>5 DEF Job, Places, Out, ItemAt
<1> HIDE DEF j
<1>7. disk'[p] = None /\ \A q \in Paths : q # p => disk'[q] = disk[q]
  BY <1>2, <1>4
<1>8. JobSound(j, disk', rows', rowsTold')
  <2>1. ItemSound(j) /\ TextSound(j, disk') /\ BytesSound(j, disk')
    BY <1>2, <1>6 DEF ItemSound, TextSound, BytesSound, Nothing
  <2>2. \A q \in Paths : q # p => j.bytes[q] = None
    BY <1>6 DEF Nothing
  <2>3. WalkSound(j, disk')
    BY <1>2, <1>6, <2>2, WalkStart
  <2>4. PruneSound(j, disk', rows', rowsTold')
    BY <1>2, <1>6, <1>7 DEF PruneSound
  <2> QED
    BY <2>1, <2>3, <2>4 DEF JobSound
<1>9. ASSUME NEW q \in Paths PROVE rows'[q] = Indexed(disk'[q]) \/ q \in rowsTold' \/ RowOpen(j, q)
  <2>1. CASE q = p
    BY <2>1, <1>2, <1>6 DEF RowOpen
  <2>2. CASE q # p
    BY <2>2, <1>1, <1>4, <1>7, EarlyRows
  <2> QED
    BY <2>1, <2>2
<1>10. ASSUME NEW d \in Dirs PROVE ListFresh(d)' \/ d \in linksTold' \/ ListOpen(j, d)
  <2>1. ListFresh(d)' \/ d \in linksTold \/ d \in AncestorsOf(p)
    BY <1>1, <1>2, <1>4, ListsAfterChange
  <2>2. d \in AncestorsOf(p) \ {p} => d \in ToSet(ToRefresh(p))
    BY <1>2, ToRefreshLemma
  <2>3. d = p => d \in linksTold'
    BY <1>4 DEF OwnList
  <2> QED
    BY <2>1, <2>2, <2>3, <1>4, <1>6 DEF ListOpen, Walking
<1>11. /\ job' \in [Clients -> Job] /\ job'[c] = j /\ \A x \in Clients : x # c => job'[x] = job[x]
  BY <1>2, <1>4, <1>6
<1>12. disk' = serial'
  BY <1>2, <1>4
<1>13. TypeOK'
  <2>1. disk' \in [Paths -> Doc \cup {None}] /\ serial' \in [Paths -> Doc \cup {None}]
    BY <1>2, <1>4, <1>12
  <2>2. linksTold' \subseteq Dirs
    BY <1>2, <1>4 DEF OwnList
  <2> QED
    BY <2>1, <2>2, <1>4, <1>11 DEF IInv, TypeOK
<1> QED
  BY <1>2, <1>4, <1>6, <1>8, <1>9, <1>10, <1>11, <1>12, <1>13, HolderStep

\* The row of a page that says nothing, or is gone, goes.
LEMMA DropRowIInv ==
    ASSUME IInv, NEW c \in Clients, PrunePage(c) \/ EvictPage(c) PROVE IInv'
<1> DEFINE p == PathOf(c)
           j == [job[c] EXCEPT !.at = "refresh"]
<1>1. job[c].at \in {"prune", "evict"} /\ ~Out(job[c])
  BY DEF PrunePage, EvictPage, At, Out
<1>2. /\ job \in [Clients -> Job] /\ job[c] \in Job
      /\ JobSound(job[c], disk, rows, rowsTold)
      /\ guard = c /\ job[c].items # <<>>
      /\ ItemOf(c) = ItemAt(job[c])
      /\ p \in Paths /\ p = ItemAt(job[c]).path
      /\ disk \in [Paths -> Doc \cup {None}] /\ rows \in [Paths -> Doc \cup {None}]
      /\ disk = serial /\ rowsTold \subseteq Paths
  BY <1>1, InsideFacts
<1>3. job[c].bytes = Nothing /\ Indexed(disk[p]) = None
  BY <1>1, <1>2 DEF JobSound, BytesSound, PruneSound, Indexed
<1>4. /\ job' = [job EXCEPT ![c] = j]
      /\ UNCHANGED <<disk, guard, requests, faults, serial, linksTold>>
  BY <1>2 DEF PrunePage, EvictPage, Goto
<1>5. \/ rows' = [rows EXCEPT ![p] = None] /\ rowsTold' = rowsTold \ {p}
      \/ /\ rows' = rows /\ rowsTold' = rowsTold
         /\ job[c].at = "prune" /\ ~force_overwrite(ItemOf(c))
  BY DEF PrunePage, EvictPage, At
<1> HIDE DEF p
<1>6. /\ j \in Job /\ ~Out(j) /\ j.at = "refresh" /\ j.items = job[c].items /\ j.todo = job[c].todo
      /\ j.bytes = Nothing /\ ItemAt(j) = ItemOf(c)
  BY <1>2, <1>3 DEF Job, Places, Out, ItemAt
<1> HIDE DEF j
<1>7. JobSound(j, disk', rows', rowsTold')
  <2>1. ItemSound(j) /\ TextSound(j, disk') /\ BytesSound(j, disk') /\ PruneSound(j, disk', rows', rowsTold')
    BY <1>2, <1>6 DEF ItemSound, TextSound, BytesSound, PruneSound, Nothing
  <2>2. WalkSound(job[c], disk) /\ Walking(job[c])
    BY <1>1, <1>2 DEF JobSound, Walking
  <2>3. WalkSound(j, disk')
    BY <2>2, <1>2, <1>3, <1>4, <1>6 DEF WalkSound
  <2> QED
    BY <2>1, <2>3 DEF JobSound
<1>8. ASSUME NEW q \in Paths PROVE rows'[q] = Indexed(disk'[q]) \/ q \in rowsTold' \/ RowOpen(j, q)
  <2>1. CASE q = p
    BY <2>1, <1>2, <1>3, <1>4, <1>5 DEF JobSound, PruneSound
  <2>2. CASE q # p
    <3>1. ~RowOpen(job[c], q)
      BY <2>2, <1>2, <1>3 DEF RowOpen, Nothing
    <3>2. rows[q] = Indexed(disk[q]) \/ q \in rowsTold
      BY <3>1, <1>2, Holder
    <3> QED
      BY <2>2, <3>2, <1>2, <1>4, <1>5
  <2> QED
    BY <2>1, <2>2
<1>9. ASSUME NEW d \in Dirs PROVE ListFresh(d)' \/ d \in linksTold' \/ ListOpen(j, d)
  <2>1. ListFresh(d) \/ d \in linksTold \/ ListOpen(job[c], d)
    BY <1>2, Holder
  <2> QED
    BY <2>1, <1>4, <1>6, QuietFresh DEF ListOpen, Walking
<1>10. /\ job' \in [Clients -> Job] /\ job'[c] = j /\ \A x \in Clients : x # c => job'[x] = job[x]
  BY <1>2, <1>4, <1>6
<1>11. TypeOK'
  <2>1. rows' \in [Paths -> Doc \cup {None}] /\ rowsTold' \subseteq Paths
    BY <1>2, <1>5
  <2> QED
    BY <2>1, <1>4, <1>10 DEF IInv, TypeOK
<1> QED
  BY <1>2, <1>4, <1>6, <1>7, <1>8, <1>9, <1>10, <1>11, HolderStep

\* Rows and lists a walking handler leaves to those who read the answer.
LEMMA WalkFacts ==
    ASSUME IInv, NEW c \in Clients, Walking(job[c])
    PROVE  /\ ~Out(job[c]) /\ WalkSound(job[c], disk)
           /\ job[c].todo \in Seq(Dirs)
           /\ ToSet(job[c].todo) \subseteq AncestorsOf(PathOf(c))
           /\ \A d \in Dirs : ListFresh(d) \/ d \in linksTold \/ d \in ToSet(job[c].todo)
<1>1. ~Out(job[c])
  BY DEF Out, Walking
<1>2. job[c] \in Job /\ JobSound(job[c], disk, rows, rowsTold) /\ guard = c /\ PathOf(c) = ItemAt(job[c]).path
  BY <1>1, InsideFacts
<1>3. WalkSound(job[c], disk) /\ job[c].todo \in Seq(Dirs)
  BY <1>2 DEF JobSound, Job
<1>4. DOMAIN job[c].todo = 1..Len(job[c].todo)
  BY <1>3
<1>5. ToSet(job[c].todo) \subseteq AncestorsOf(PathOf(c))
  BY <1>2, <1>3, <1>4 DEF WalkSound, ToSet
<1> QED
  BY <1>1, <1>2, <1>3, <1>5, Holder DEF ListOpen

\* FailStore: the row of the page and the lists above it are told.
LEMMA FailStoreIInv == ASSUME IInv, NEW c \in Clients, FailStore(c) PROVE IInv'
<1> DEFINE p == PathOf(c)
<1>1. /\ job[c].at \in {"prune", "evict"} /\ ~Out(job[c]) /\ Walking(job[c])
      /\ Fault /\ Answered(c) /\ LeaveOpen(p) /\ UNCHANGED <<disk, rows, serial>>
  BY DEF FailStore, At, Out, Walking
<1>2. /\ JobSound(job[c], disk, rows, rowsTold) /\ guard = c
      /\ p \in Paths /\ p = ItemAt(job[c]).path
      /\ disk \in [Paths -> Doc \cup {None}] /\ rows \in [Paths -> Doc \cup {None}]
      /\ disk = serial /\ rowsTold \subseteq Paths /\ linksTold \subseteq Dirs
  BY <1>1, InsideFacts
<1>3. /\ rowsTold' = rowsTold \cup {p} /\ rowsTold' \subseteq Paths
      /\ linksTold' = linksTold \cup AncestorsOf(p) /\ linksTold' \subseteq Dirs
  BY <1>1, <1>2, AncestorsTold
<1>4. job[c].bytes = Nothing
  BY <1>1, <1>2 DEF JobSound, BytesSound
<1>5. ASSUME NEW q \in Paths PROVE rows'[q] = Indexed(disk'[q]) \/ q \in rowsTold'
  <2>1. rows[q] = Indexed(disk[q]) \/ q \in rowsTold \/ RowOpen(job[c], q)
    BY <1>2, Holder
  <2>2. RowOpen(job[c], q) => q = p
    BY <1>2, <1>4 DEF RowOpen, Nothing
  <2> QED
    BY <2>1, <2>2, <1>1, <1>3
<1>6. ASSUME NEW d \in Dirs PROVE ListFresh(d)' \/ d \in linksTold'
  BY <1>1, <1>3, WalkFacts, QuietFresh
<1> QED
  BY <1>1, <1>2, <1>3, <1>5, <1>6, AnsweredStep

\* The next directory of a walk.
LEMMA WalkHead ==
    ASSUME NEW j, j.todo \in Seq(Dirs), j.todo # <<>>, Walking(j), NEW files, WalkSound(j, files)
    PROVE  /\ Head(j.todo) \in Dirs /\ Tail(j.todo) \in Seq(Dirs)
           /\ Head(j.todo) \in AncestorsOf(ItemAt(j).path) /\ Head(j.todo) # ItemAt(j).path
           /\ j.bytes[Head(j.todo)] = None
           /\ Head(j.todo) # Root => files[ParentDir[Head(j.todo)]] # None
           /\ \A d \in ToSet(j.todo) : d = Head(j.todo) \/ d \in ToSet(Tail(j.todo))
<1>1. Head(j.todo) = j.todo[1] /\ 1 \in 1..Len(j.todo) /\ Tail(j.todo) \in Seq(Dirs) /\ j.todo[1] \in Dirs
  OBVIOUS
<1>2. ASSUME NEW d \in ToSet(j.todo) PROVE d = Head(j.todo) \/ d \in ToSet(Tail(j.todo))
  <2>1. PICK i \in 1..Len(j.todo) : d = j.todo[i]
    BY <1>2 DEF ToSet
  <2>2. CASE i # 1
    <3>1. i - 1 \in 1..Len(Tail(j.todo)) /\ Tail(j.todo)[i - 1] = d
      BY <2>1, <2>2
    <3>2. DOMAIN Tail(j.todo) = 1..Len(Tail(j.todo))
      BY <1>1
    <3> QED
      BY <3>1, <3>2 DEF ToSet
  <2> QED
    BY <1>1, <2>1, <2>2
<1> QED
  BY <1>1, <1>2 DEF WalkSound

\* A walk goes on with the rest of its directories.
LEMMA WalkTail ==
    ASSUME NEW j, j.todo \in Seq(Dirs), j.todo # <<>>, Walking(j), NEW files, WalkSound(j, files),
           NEW k, k.todo = Tail(j.todo), ItemAt(k) = ItemAt(j),
           \A q \in Paths : q # Head(j.todo) => k.bytes[q] = j.bytes[q],
           NEW after, after[Head(j.todo)] # None
    PROVE  WalkSound(k, after)
<1>1. Head(j.todo) = j.todo[1] /\ Len(j.todo) \in Nat \ {0} /\ Len(k.todo) = Len(j.todo) - 1
  OBVIOUS
<1>2. \A i \in 1..Len(k.todo) : k.todo[i] = j.todo[i + 1] /\ i + 1 \in 1..Len(j.todo) /\ j.todo[i + 1] \in Dirs
  BY <1>1
<1>3. \A i \in 1..Len(j.todo) : Depth(j.todo[i]) \in Nat
  <2>1. \A d \in Dirs : Depth(d) \in Nat
    <3> SUFFICES ASSUME NEW d \in Dirs PROVE Depth(d) \in Nat
      OBVIOUS
    <3>1. d \in Paths /\ Owner(d) = d
      BY OwnerLemma DEF Paths
    <3> QED
      BY <3>1, AncestorIndex
  <2> QED
    BY <2>1
<1>4. \A i \in 1..Len(j.todo) :
           /\ j.todo[i] \in AncestorsOf(ItemAt(j).path) /\ j.todo[i] # ItemAt(j).path
           /\ Depth(j.todo[i]) = Depth(j.todo[1]) + i - 1
           /\ i > 1 => ParentDir[j.todo[i]] = j.todo[i - 1]
           /\ j.bytes[j.todo[i]] = None
  BY DEF WalkSound
<1>5. 1 \in 1..Len(j.todo) /\ (Len(j.todo) > 1 => 2 \in 1..Len(j.todo))
  BY <1>1
<1>6. ASSUME NEW i \in 1..Len(k.todo)
      PROVE  /\ k.todo[i] \in AncestorsOf(ItemAt(k).path) /\ k.todo[i] # ItemAt(k).path
             /\ Depth(k.todo[i]) = Depth(k.todo[1]) + i - 1
             /\ i > 1 => ParentDir[k.todo[i]] = k.todo[i - 1]
             /\ k.bytes[k.todo[i]] = None
  <2>1. 1 \in 1..Len(k.todo) /\ 2 \in 1..Len(j.todo) /\ k.todo[1] = j.todo[2]
    BY <1>1, <1>2
  <2>2. i > 1 => i - 1 \in 1..Len(k.todo) /\ k.todo[i - 1] = j.todo[i]
    BY <1>1, <1>2
  <2>3. Depth(j.todo[i + 1]) = Depth(j.todo[1]) + i /\ Depth(j.todo[2]) = Depth(j.todo[1]) + 1
    <3>1. i + 1 \in 1..Len(j.todo) /\ i \in Nat
      BY <1>2
    <3>2. Depth(j.todo[i + 1]) = Depth(j.todo[1]) + (i + 1) - 1
      BY ONLY <3>1, <1>4, Zenon
    <3>3. Depth(j.todo[2]) = Depth(j.todo[1]) + 2 - 1
      BY ONLY <2>1, <1>4, Zenon
    <3>4. Depth(j.todo[1]) \in Nat
      BY <1>3, <1>5
    <3> QED
      BY ONLY <3>1, <3>2, <3>3, <3>4
  <2>4. j.todo[i + 1] # j.todo[1]
    BY <1>3, <1>5, <2>3
  <2>5. j.todo[i + 1] \in Paths
    BY <1>2 DEF Paths
  <2>6. Depth(j.todo[1]) \in Nat /\ i \in Nat
    BY <1>3, <1>5
  <2>7. Depth(k.todo[i]) = Depth(k.todo[1]) + i - 1
    BY <1>2, <2>1, <2>3, <2>6
  <2>8. i > 1 => ParentDir[k.todo[i]] = k.todo[i - 1]
    <3>1. i + 1 \in 1..Len(j.todo) /\ i + 1 > 1 /\ (i + 1) - 1 = i
      BY <1>2, <2>6
    <3>2. ParentDir[j.todo[i + 1]] = j.todo[i]
      BY <3>1, <1>4
    <3> QED
      BY <3>2, <1>2, <2>2
  <2>9. k.bytes[k.todo[i]] = None
    BY <1>1, <1>2, <1>4, <2>4, <2>5
  <2>10. k.todo[i] \in AncestorsOf(ItemAt(k).path) /\ k.todo[i] # ItemAt(k).path
    BY <1>2, <1>4
  <2> QED
    BY <2>7, <2>8, <2>9, <2>10
<1>7. k.todo # <<>> => ParentDir[k.todo[1]] = j.todo[1]
  <2>1. k.todo # <<>> => 1 \in 1..Len(k.todo)
    BY <1>1
  <2> QED
    BY <2>1, <1>2, <1>4
<1> QED
  BY <1>1, <1>6, <1>7 DEF WalkSound

\* ComposeIndex: the list is fresh as it is, or the text for it is in hand.
LEMMA ComposeIndexIInv == ASSUME IInv, NEW c \in Clients, ComposeIndex(c) PROVE IInv'
<1> DEFINE d == Head(job[c].todo)
           new == compose_index_md(disk, d)
           j == IF new = disk[d] THEN [job[c] EXCEPT !.todo = Tail(job[c].todo)]
                ELSE [job[c] EXCEPT !.at = "put", !.text = new]
<1>1. job[c].at = "refresh" /\ job[c].todo # <<>> /\ ~Out(job[c]) /\ Walking(job[c])
  BY DEF ComposeIndex, Refreshing, At, Out, Walking
<1>2. /\ job \in [Clients -> Job] /\ job[c] \in Job
      /\ JobSound(job[c], disk, rows, rowsTold)
      /\ guard = c /\ job[c].items # <<>>
      /\ disk \in [Paths -> Doc \cup {None}]
      /\ disk = serial /\ linksTold \subseteq Dirs
  BY <1>1, InsideFacts
<1>3. WalkSound(job[c], disk) /\ job[c].todo \in Seq(Dirs)
  BY <1>1, WalkFacts
<1>4. /\ d \in Dirs /\ Tail(job[c].todo) \in Seq(Dirs)
      /\ \A e \in ToSet(job[c].todo) : e = d \/ e \in ToSet(Tail(job[c].todo))
  BY <1>1, <1>3, WalkHead
<1>5. new \in Doc /\ d \in Paths
  BY <1>2, <1>4, ComposeLemma DEF Paths
<1>6. /\ job' = [job EXCEPT ![c] = j]
      /\ linksTold' = linksTold \/ (linksTold' = linksTold \ {d} /\ new = disk[d])
      /\ UNCHANGED <<disk, rows, guard, requests, faults, serial, rowsTold>>
  BY <1>2 DEF ComposeIndex
<1>7. CASE new = disk[d]
  <2>1. /\ j \in Job /\ j.at = "refresh" /\ j.items = job[c].items /\ j.todo = Tail(job[c].todo)
        /\ j.bytes = job[c].bytes /\ ItemAt(j) = ItemAt(job[c])
    BY <1>1, <1>2, <1>4, <1>7 DEF Job, Places, ItemAt
  <2> HIDE DEF j
  <2>2. disk[d] # None
    <3>1. None \notin Doc
      BY PagesAssumption
    <3> QED
      BY <3>1, <1>5, <1>7
  <2>3. WalkSound(j, disk)
    BY <1>1, <1>3, <2>1, <2>2, WalkTail
  <2>4. JobSound(j, disk', rows', rowsTold')
    BY <1>1, <1>2, <1>6, <2>1, <2>3 DEF JobSound, ItemSound, TextSound, BytesSound, PruneSound
  <2>5. ListFresh(d)
    BY <1>2, <1>4, <1>7, FreshFound
  <2>6. \A p \in Paths : rows'[p] = Indexed(disk'[p]) \/ p \in rowsTold' \/ RowOpen(j, p)
    <3>1. \A p \in Paths : rows[p] = Indexed(disk[p]) \/ p \in rowsTold \/ RowOpen(job[c], p)
      BY <1>2, Holder
    <3> QED
      BY <3>1, <1>1, <1>6, <2>1 DEF RowOpen
  <2>7. ASSUME NEW e \in Dirs PROVE ListFresh(e)' \/ e \in linksTold' \/ ListOpen(j, e)
    <3>1. ListFresh(e) \/ e \in linksTold \/ ListOpen(job[c], e)
      BY <1>2, Holder
    <3>2. ListFresh(e)' <=> ListFresh(e)
      BY <1>6, QuietFresh
    <3> QED
      BY <3>1, <3>2, <1>4, <1>6, <2>1, <2>5 DEF ListOpen, Walking
  <2>8. /\ job' \in [Clients -> Job] /\ job'[c] = j /\ \A x \in Clients : x # c => job'[x] = job[x]
    BY <1>2, <1>6, <2>1
  <2>9. TypeOK'
    BY <1>6, <2>8 DEF IInv, TypeOK
  <2>10. ~Out(j) /\ disk' = serial' /\ guard' = c
    BY <1>2, <1>6, <2>1 DEF Out
  <2> QED
    BY <1>2, <2>4, <2>6, <2>7, <2>8, <2>9, <2>10, HolderStep
<1>8. CASE new # disk[d]
  <2>1. /\ j \in Job /\ j.at = "put" /\ j.items = job[c].items /\ j.todo = job[c].todo
        /\ j.text = new
        /\ j.bytes = job[c].bytes /\ ItemAt(j) = ItemAt(job[c])
    BY <1>1, <1>2, <1>5, <1>8 DEF Job, Places, ItemAt
  <2> HIDE DEF j
  <2>3. WalkSound(j, disk)
    BY <1>1, <1>3, <2>1 DEF WalkSound
  <2>4. JobSound(j, disk', rows', rowsTold')
    <3>1. TextSound(j, disk')
      BY <1>1, <1>6, <1>8, <2>1 DEF TextSound
    <3> QED
      BY <3>1, <1>1, <1>2, <1>6, <2>1, <2>3 DEF JobSound, ItemSound, BytesSound, PruneSound
  <2>6. \A p \in Paths : rows'[p] = Indexed(disk'[p]) \/ p \in rowsTold' \/ RowOpen(j, p)
    <3>1. \A p \in Paths : rows[p] = Indexed(disk[p]) \/ p \in rowsTold \/ RowOpen(job[c], p)
      BY <1>2, Holder
    <3> QED
      BY <3>1, <1>1, <1>6, <2>1 DEF RowOpen
  <2>7. ASSUME NEW e \in Dirs PROVE ListFresh(e)' \/ e \in linksTold' \/ ListOpen(j, e)
    <3>1. ListFresh(e) \/ e \in linksTold \/ ListOpen(job[c], e)
      BY <1>2, Holder
    <3>2. ListFresh(e)' <=> ListFresh(e)
      BY <1>6, QuietFresh
    <3> QED
      BY <3>1, <3>2, <1>6, <1>8, <2>1 DEF ListOpen, Walking
  <2>8. /\ job' \in [Clients -> Job] /\ job'[c] = j /\ \A x \in Clients : x # c => job'[x] = job[x]
    BY <1>2, <1>6, <2>1
  <2>9. TypeOK'
    BY <1>6, <1>8, <2>8 DEF IInv, TypeOK
  <2>10. ~Out(j) /\ disk' = serial' /\ guard' = c
    BY <1>2, <1>6, <2>1 DEF Out
  <2> QED
    BY <1>2, <2>4, <2>6, <2>7, <2>8, <2>9, <2>10, HolderStep
<1> QED
  BY <1>7, <1>8

\* The text a walk is about to put.
LEMMA PutFacts ==
    ASSUME IInv, NEW c \in Clients, job[c].at = "put"
    PROVE  /\ job[c].todo # <<>> /\ Walking(job[c]) /\ Head(job[c].todo) \in Dirs
           /\ job[c].text = compose_index_md(disk, Head(job[c].todo))
           /\ job[c].text \in Doc /\ job[c].text # None
           /\ Marked(job[c].text) /\ Indexed(job[c].text) # None
<1>1. ~Out(job[c]) /\ Walking(job[c])
  BY DEF Out, Walking
<1>2. JobSound(job[c], disk, rows, rowsTold) /\ disk \in [Paths -> Doc \cup {None}]
  BY <1>1, InsideFacts
<1>3. WalkSound(job[c], disk) /\ job[c].todo \in Seq(Dirs)
  BY <1>1, WalkFacts
<1>4. /\ job[c].todo # <<>>
      /\ job[c].text = compose_index_md(disk, Head(job[c].todo))
      /\ job[c].text # disk[Head(job[c].todo)]
  BY <1>2 DEF JobSound, TextSound
<1>5. Head(job[c].todo) \in Dirs
  BY <1>1, <1>3, <1>4, WalkHead
<1>6. /\ job[c].text \in Doc /\ Marked(job[c].text) /\ Indexed(job[c].text) # None
  BY <1>2, <1>4, <1>5, ComposeLemma
<1>7. None \notin Doc
  BY PagesAssumption
<1> QED
  BY <1>1, <1>4, <1>5, <1>6, <1>7

\* PutIndex: the list is fresh; the parent's is, unless this is its first file again.
LEMMA PutIndexIInv == ASSUME IInv, NEW c \in Clients, PutIndex(c) PROVE IInv'
<1> DEFINE d == Head(job[c].todo)
           text == job[c].text
           j == [job[c] EXCEPT !.at = "refresh", !.todo = Tail(job[c].todo),
                               !.bytes = [job[c].bytes EXCEPT ![d] = Indexed(text)]]
<1>1. job[c].at = "put"
  BY DEF PutIndex, At
<1>2. /\ job[c].todo # <<>> /\ Walking(job[c]) /\ d \in Dirs
      /\ text = compose_index_md(disk, d) /\ text \in Doc /\ text # None
      /\ Marked(text) /\ Indexed(text) # None
  BY <1>1, PutFacts
<1>3. ~Out(job[c]) /\ WalkSound(job[c], disk) /\ job[c].todo \in Seq(Dirs)
  BY <1>2, WalkFacts
<1>4. /\ job \in [Clients -> Job] /\ job[c] \in Job
      /\ JobSound(job[c], disk, rows, rowsTold)
      /\ guard = c /\ job[c].items # <<>>
      /\ disk \in [Paths -> Doc \cup {None}]
      /\ disk = serial /\ linksTold \subseteq Dirs
  BY <1>3, InsideFacts
<1>5. /\ Tail(job[c].todo) \in Seq(Dirs) /\ d \in Paths
      /\ d # Root => disk[ParentDir[d]] # None
      /\ \A e \in ToSet(job[c].todo) : e = d \/ e \in ToSet(Tail(job[c].todo))
  BY <1>2, <1>3, WalkHead DEF Paths
<1>6. /\ disk' = [disk EXCEPT ![d] = text] /\ disk' = serial'
      /\ job' = [job EXCEPT ![c] = j]
      /\ linksTold' = (linksTold \ {d}) \cup
                        (IF d # Root /\ ~dir_contains_markdown(disk, d) THEN {ParentDir[d]} ELSE {})
      /\ UNCHANGED <<rows, guard, requests, faults, rowsTold>>
  BY <1>2, <1>4 DEF PutIndex
<1>7. /\ j \in Job /\ j.at = "refresh" /\ j.items = job[c].items /\ j.todo = Tail(job[c].todo)
      /\ j.bytes[d] = Indexed(text) /\ \A q \in Paths : q # d => j.bytes[q] = job[c].bytes[q]
      /\ ItemAt(j) = ItemAt(job[c])
  <2>1. Indexed(text) \in Doc \cup {None}
    BY <1>2, IndexedType
  <2> QED
    BY <2>1, <1>4, <1>5 DEF Job, Places, ItemAt
<1>8. disk'[d] = text /\ \A q \in Paths : q # d => disk'[q] = disk[q]
  BY <1>4, <1>5, <1>6
<1> HIDE DEF j
<1>9. JobSound(j, disk', rows', rowsTold')
  <2>1. WalkSound(j, disk')
    BY <1>2, <1>3, <1>7, <1>8, WalkTail
  <2>2. BytesSound(j, disk')
    <3>1. \A q \in Paths : job[c].bytes[q] # None => job[c].bytes[q] = Indexed(disk[q])
      BY <1>4 DEF JobSound, BytesSound
    <3> QED
      BY <3>1, <1>7, <1>8 DEF BytesSound
  <2> QED
    BY <2>1, <2>2, <1>4, <1>7 DEF JobSound, ItemSound, TextSound, PruneSound
<1>10. ASSUME NEW q \in Paths PROVE rows'[q] = Indexed(disk'[q]) \/ q \in rowsTold' \/ RowOpen(j, q)
  <2>1. rows[q] = Indexed(disk[q]) \/ q \in rowsTold \/ RowOpen(job[c], q)
    BY <1>4, Holder
  <2> QED
    BY <2>1, <1>1, <1>2, <1>6, <1>7, <1>8 DEF RowOpen
<1>11. ASSUME NEW e \in Dirs PROVE ListFresh(e)' \/ e \in linksTold' \/ ListOpen(j, e)
  <2>1. CASE e = d
    BY <2>1, <1>2, <1>4, <1>6, FreshWritten
  <2>2. CASE e # d
    <3>1. ListFresh(e) \/ e \in linksTold \/ ListOpen(job[c], e)
      BY <1>4, Holder
    <3>2. CASE dir_contains_markdown(disk, d) \/ d = Root \/ e # ParentDir[d]
      <4>1. ListFresh(e)' <=> ListFresh(e)
        BY <1>2, <1>4, <1>5, <1>6, <2>2, <3>2, FreshBeside
      <4> QED
        BY <4>1, <3>1, <2>2, <1>5, <1>6, <1>7 DEF ListOpen, Walking
    <3>3. CASE ~(dir_contains_markdown(disk, d) \/ d = Root \/ e # ParentDir[d])
      BY <3>3, <1>6
    <3> QED
      BY <3>2, <3>3
  <2> QED
    BY <2>1, <2>2
<1>12. /\ job' \in [Clients -> Job] /\ job'[c] = j /\ \A x \in Clients : x # c => job'[x] = job[x]
  BY <1>4, <1>6, <1>7
<1>13. TypeOK'
  <2>1. disk' \in [Paths -> Doc \cup {None}] /\ serial' \in [Paths -> Doc \cup {None}]
    BY <1>2, <1>4, <1>6
  <2>2. linksTold' \subseteq Dirs
    <3>1. d # Root => ParentDir[d] \in Dirs
      BY <1>2, ParentLemma
    <3> QED
      BY <3>1, <1>4, <1>6
  <2> QED
    BY <2>1, <2>2, <1>6, <1>12 DEF IInv, TypeOK
<1>14. ~Out(j) /\ guard' = c
  BY <1>4, <1>6, <1>7 DEF Out
<1> QED
  BY <1>4, <1>6, <1>9, <1>10, <1>11, <1>12, <1>13, <1>14, HolderStep

\* FailRefresh: the lists above the page are told, and so is a row half done.
LEMMA FailRefreshIInv == ASSUME IInv, NEW c \in Clients, FailRefresh(c) PROVE IInv'
<1> DEFINE d == Head(job[c].todo)
           p == PathOf(c)
           j == [job[c] EXCEPT !.at = "refresh", !.todo = <<>>]
<1>1. Walking(job[c]) /\ job[c].at \in {"refresh", "put"} /\ Fault
  BY DEF FailRefresh, Refreshing, At, Walking
<1>2. /\ ~Out(job[c]) /\ WalkSound(job[c], disk) /\ job[c].todo \in Seq(Dirs)
      /\ ToSet(job[c].todo) \subseteq AncestorsOf(p)
      /\ \A e \in Dirs : ListFresh(e) \/ e \in linksTold \/ e \in ToSet(job[c].todo)
  BY <1>1, WalkFacts
<1>3. /\ job \in [Clients -> Job] /\ job[c] \in Job
      /\ JobSound(job[c], disk, rows, rowsTold)
      /\ guard = c /\ job[c].items # <<>>
      /\ p \in Paths /\ p = ItemAt(job[c]).path
      /\ disk \in [Paths -> Doc \cup {None}]
      /\ disk = serial /\ rowsTold \subseteq Paths /\ linksTold \subseteq Dirs
  BY <1>2, InsideFacts
<1>4. job[c].todo # <<>>
  BY PutFacts DEF FailRefresh, Refreshing, At
<1>5. /\ d \in Dirs /\ d \in Paths /\ d \in AncestorsOf(p) /\ job[c].bytes[d] = None
  BY <1>1, <1>2, <1>3, <1>4, WalkHead DEF Paths
<1>6. /\ job' = [job EXCEPT ![c] = j]
      /\ linksTold' = linksTold \cup AncestorsOf(p)
      /\ UNCHANGED <<rows, guard, requests>>
      /\ \/ UNCHANGED <<disk, serial, rowsTold>>
         \/ /\ job[c].at = "put"
            /\ disk' = [disk EXCEPT ![d] = job[c].text]
            /\ serial' = [serial EXCEPT ![d] = compose_index_md(serial, d)]
            /\ rowsTold' = rowsTold \cup {d}
  BY <1>3 DEF FailRefresh, At, AncestorsOf
<1> HIDE DEF p
<1>7. /\ j \in Job /\ j.at = "refresh" /\ j.items = job[c].items /\ j.todo = <<>>
      /\ j.bytes = job[c].bytes /\ ItemAt(j) = ItemAt(job[c])
  <2>1. <<>> \in Seq(Dirs)
    OBVIOUS
  <2> QED
    BY <2>1, <1>3 DEF Job, Places, ItemAt
<1> HIDE DEF j
<1>8. /\ disk' \in [Paths -> Doc \cup {None}] /\ disk' = serial'
      /\ rowsTold \subseteq rowsTold' /\ rowsTold' \subseteq Paths
      /\ \A q \in Paths : q # d => disk'[q] = disk[q]
      /\ disk'[d] = disk[d] \/ d \in rowsTold'
  <2>1. CASE UNCHANGED <<disk, serial, rowsTold>>
    BY <2>1, <1>3
  <2>2. CASE /\ job[c].at = "put"
             /\ disk' = [disk EXCEPT ![d] = job[c].text]
             /\ serial' = [serial EXCEPT ![d] = compose_index_md(serial, d)]
             /\ rowsTold' = rowsTold \cup {d}
    <3>1. job[c].text = compose_index_md(disk, d) /\ job[c].text \in Doc
      BY <2>2, PutFacts
    <3> QED
      BY <2>2, <3>1, <1>3, <1>5
  <2> QED
    BY <2>1, <2>2, <1>6
<1>9. JobSound(j, disk', rows', rowsTold')
  <2>1. WalkSound(j, disk')
    BY <1>7 DEF WalkSound
  <2>2. BytesSound(j, disk')
    <3>1. \A q \in Paths : job[c].bytes[q] # None => job[c].bytes[q] = Indexed(disk[q])
      BY <1>3 DEF JobSound, BytesSound
    <3> QED
      BY <3>1, <1>5, <1>7, <1>8 DEF BytesSound
  <2> QED
    BY <2>1, <2>2, <1>3, <1>7 DEF JobSound, ItemSound, TextSound, PruneSound
<1>10. ASSUME NEW q \in Paths PROVE rows'[q] = Indexed(disk'[q]) \/ q \in rowsTold' \/ RowOpen(j, q)
  <2>1. rows[q] = Indexed(disk[q]) \/ q \in rowsTold \/ RowOpen(job[c], q)
    BY <1>3, Holder
  <2>2. disk'[q] = disk[q] \/ q \in rowsTold'
    BY <1>8
  <2> QED
    BY <2>1, <2>2, <1>1, <1>6, <1>7, <1>8 DEF RowOpen
<1>11. ASSUME NEW e \in Dirs PROVE ListFresh(e)' \/ e \in linksTold'
  <2>1. CASE e \in AncestorsOf(p)
    BY <2>1, <1>6
  <2>2. CASE e \notin AncestorsOf(p)
    <3>1. ListFresh(e) \/ e \in linksTold
      BY <2>2, <1>2
    <3>2. e \notin AncestorsOf(d)
      <4>1. AncestorsOf(d) \subseteq AncestorsOf(p)
        BY <1>3, <1>5, AncestorLemma
      <4> QED
        BY <4>1, <2>2
    <3>3. ListFresh(e)' <=> ListFresh(e)
      <4>1. CASE UNCHANGED disk
        BY <4>1, QuietFresh
      <4>2. CASE disk' = [disk EXCEPT ![d] = job[c].text]
        BY <4>2, <3>2, <1>3, <1>5, FreshFar
      <4> QED
        BY <4>1, <4>2, <1>6
    <3> QED
      BY <3>1, <3>3, <1>6
  <2> QED
    BY <2>1, <2>2
<1>12. /\ job' \in [Clients -> Job] /\ job'[c] = j /\ \A x \in Clients : x # c => job'[x] = job[x]
  BY <1>3, <1>6, <1>7
<1>13. TypeOK'
  <2>1. faults' \in 0..MaxFaults
    BY <1>1, PagesAssumption DEF Fault, IInv, TypeOK
  <2>2. linksTold' \subseteq Dirs
    <3>1. AncestorsOf(p) \subseteq Dirs
      BY <1>3, AncestorLemma
    <3> QED
      BY <3>1, <1>3, <1>6
  <2> QED
    BY <2>1, <2>2, <1>6, <1>8, <1>12 DEF IInv, TypeOK
<1>14. ~Out(j) /\ guard' = c
  BY <1>3, <1>6, <1>7 DEF Out
<1> QED
  BY <1>3, <1>8, <1>9, <1>10, <1>11, <1>12, <1>13, <1>14, HolderStep

\* At the end of the walk only the rows of the batch are open.
LEMMA RefreshedFacts ==
    ASSUME IInv, NEW c \in Clients, Refreshed(c)
    PROVE  /\ ~Out(job[c]) /\ \A d \in Dirs : ListFresh(d) \/ d \in linksTold
           /\ \A q \in Batch(c) : job[c].bytes[q] = Indexed(disk[q])
           /\ \A q \in Paths : rows[q] = Indexed(disk[q]) \/ q \in rowsTold \/ q \in Batch(c)
<1>1. Walking(job[c]) /\ job[c].at = "refresh" /\ job[c].todo = <<>>
  BY DEF Refreshed, At, Walking
<1>2. /\ ~Out(job[c])
      /\ \A d \in Dirs : ListFresh(d) \/ d \in linksTold \/ d \in ToSet(job[c].todo)
  BY <1>1, WalkFacts
<1>3. ToSet(job[c].todo) = {}
  BY <1>1 DEF ToSet
<1>4. JobSound(job[c], disk, rows, rowsTold) /\ guard = c
  BY <1>2, InsideFacts
<1>5. \A q \in Batch(c) : job[c].bytes[q] = Indexed(disk[q])
  BY <1>4 DEF JobSound, BytesSound, Batch
<1>6. \A q \in Paths : rows[q] = Indexed(disk[q]) \/ q \in rowsTold \/ RowOpen(job[c], q)
  BY <1>4, Holder
<1>7. \A q \in Paths : RowOpen(job[c], q) => q \in Batch(c)
  BY <1>1 DEF RowOpen, Batch
<1> QED
  BY <1>2, <1>3, <1>5, <1>6, <1>7

\* IndexBatch and FailBatch: every row of the batch is that of its file, or told.
LEMMA BatchIInv ==
    ASSUME IInv, NEW c \in Clients, IndexBatch(c) \/ FailBatch(c) PROVE IInv'
<1>1. Refreshed(c) /\ Answered(c) /\ UNCHANGED <<disk, serial, linksTold>> /\ (faults' = faults \/ Fault)
  BY DEF IndexBatch, FailBatch
<1>2. /\ ~Out(job[c]) /\ \A d \in Dirs : ListFresh(d) \/ d \in linksTold
      /\ \A q \in Batch(c) : job[c].bytes[q] = Indexed(disk[q])
      /\ \A q \in Paths : rows[q] = Indexed(disk[q]) \/ q \in rowsTold \/ q \in Batch(c)
  BY <1>1, RefreshedFacts
<1>3. /\ disk \in [Paths -> Doc \cup {None}] /\ rows \in [Paths -> Doc \cup {None}]
      /\ disk = serial /\ rowsTold \subseteq Paths /\ linksTold \subseteq Dirs
  BY <1>2, InsideFacts
<1>4. PICK files \in SUBSET Batch(c) :
        /\ Commit(c, files)
        /\ \/ rowsTold' = (rowsTold \ Batch(c)) \cup (Batch(c) \ files)
           \/ rowsTold' = rowsTold \cup Batch(c)
  <2>1. CASE IndexBatch(c)
    <3>1. PICK skipped \in SUBSET (Batch(c) \ {PathOf(c)}) :
            /\ Commit(c, Batch(c) \ skipped)
            /\ rowsTold' = (rowsTold \ Batch(c)) \cup skipped
      BY <2>1 DEF IndexBatch
    <3>2. Batch(c) \ (Batch(c) \ skipped) = skipped /\ Batch(c) \ skipped \in SUBSET Batch(c)
      OBVIOUS
    <3> QED
      BY <3>1, <3>2
  <2>2. CASE FailBatch(c)
    BY <2>2 DEF FailBatch
  <2> QED
    BY <2>1, <2>2
<1>5. Batch(c) \subseteq Paths
  BY DEF Batch
<1>6. rowsTold' \subseteq Paths
  BY <1>3, <1>4, <1>5
<1>7. rows' = [q \in Paths |-> IF q \in files THEN job[c].bytes[q] ELSE rows[q]]
  BY <1>4 DEF Commit
<1>8. rows' \in [Paths -> Doc \cup {None}]
  <2>1. \A q \in Paths : Indexed(disk[q]) \in Doc \cup {None}
    BY <1>3, IndexedType
  <2> QED
    BY <2>1, <1>2, <1>3, <1>4, <1>5, <1>7
<1>9. ASSUME NEW q \in Paths PROVE rows'[q] = Indexed(disk'[q]) \/ q \in rowsTold'
  BY <1>1, <1>2, <1>4, <1>7
<1>10. ASSUME NEW d \in Dirs PROVE ListFresh(d)' \/ d \in linksTold'
  BY <1>1, <1>2, QuietFresh
<1>11. disk' \in [Paths -> Doc \cup {None}] /\ disk' = serial' /\ linksTold' \subseteq Dirs
  BY <1>1, <1>3
<1> QED
  BY <1>1, <1>2, <1>6, <1>8, <1>9, <1>10, <1>11, AnsweredStep

\* IndexCorpus: no mutation runs, and every row is that of its file.
LEMMA IndexCorpusIInv == ASSUME IInv, IndexCorpus PROVE IInv'
<1>1. /\ guard = None /\ rows' = [p \in Paths |-> Indexed(disk[p])] /\ rowsTold' = {}
      /\ UNCHANGED <<disk, guard, job, requests, faults, serial, linksTold>>
  BY DEF IndexCorpus
<1>2. ASSUME NEW x \in Clients
      PROVE  /\ Out(job[x]) /\ JobSound(job[x], disk', rows', rowsTold')
             /\ \A d \in Dirs : ~ListOpen(job[x], d)
  <2>1. guard # x
    BY <1>1, PagesAssumption
  <2>2. Out(job[x]) /\ job[x] \in Job /\ ItemSound(job[x]) /\ job[x].bytes = Nothing
    BY <2>1 DEF IInv, TypeOK, GuardHeld, JobsSound, JobSound, BytesSound, Out
  <2> QED
    BY <2>2, OutSound
<1>3. TypeOK'
  <2>1. disk \in [Paths -> Doc \cup {None}]
    BY DEF IInv, TypeOK
  <2>2. rows' \in [Paths -> Doc \cup {None}]
    BY <1>1, <2>1, IndexedType
  <2> QED
    BY <1>1, <2>2 DEF IInv, TypeOK
<1>4. GuardHeld' /\ NoLostUpdate'
  BY <1>1 DEF IInv, GuardHeld, NoLostUpdate
<1>5. JobsSound'
  BY <1>1, <1>2 DEF JobsSound
<1>6. RowsHeld'
  BY <1>1 DEF RowsHeld
<1>7. ListsHeld'
  <2>1. \A d \in Dirs : ListFresh(d) \/ d \in linksTold
    BY <1>2 DEF IInv, ListsHeld
  <2> QED
    BY <1>1, <2>1, QuietFresh DEF ListsHeld
<1> QED
  BY <1>3, <1>4, <1>5, <1>6, <1>7 DEF IInv

\* Crash: what the handler had in hand is told.
LEMMA CrashIInv == ASSUME IInv, Crash PROVE IInv'
<1> DEFINE hit == {PathOf(c) : c \in {c \in Clients : guard = c}}
<1>1. /\ Fault /\ job' = [c \in Clients |-> NoJob] /\ guard' = None
      /\ rowsTold' = rowsTold \cup hit \cup UNION {Batch(c) : c \in Clients}
      /\ linksTold' = linksTold \cup UNION {ToSet(ancestor_dirs(p)) : p \in hit}
      /\ UNCHANGED <<disk, rows, requests, serial>>
  BY DEF Crash
<1>2. /\ disk \in [Paths -> Doc \cup {None}] /\ rows \in [Paths -> Doc \cup {None}]
      /\ disk = serial /\ rowsTold \subseteq Paths /\ linksTold \subseteq Dirs
  BY DEF IInv, TypeOK, NoLostUpdate
<1>3. hit \subseteq Paths
  <2> SUFFICES ASSUME NEW c \in Clients, guard = c PROVE PathOf(c) \in Paths
    OBVIOUS
  <2>1. ~Out(job[c])
    BY DEF IInv, GuardHeld
  <2> QED
    BY <2>1, InsideFacts
<1>4. \A c \in Clients : Batch(c) \subseteq Paths
  BY DEF Batch
<1>5. TypeOK'
  <2>1. faults' \in 0..MaxFaults
    BY <1>1, PagesAssumption DEF Fault, IInv, TypeOK
  <2>2. rowsTold' \subseteq Paths
    BY <1>1, <1>2, <1>3, <1>4
  <2>3. linksTold' \subseteq Dirs
    <3>1. \A p \in hit : ToSet(ancestor_dirs(p)) \subseteq Dirs
      BY <1>3, AncestorLemma DEF AncestorsOf
    <3> QED
      BY <3>1, <1>1, <1>2
  <2>4. job' \in [Clients -> Job]
    BY <1>1, NoJobType
  <2> QED
    BY <1>1, <2>1, <2>2, <2>3, <2>4 DEF IInv, TypeOK
<1>6. GuardHeld'
  <2>1. Out(NoJob)
    BY NoJobType DEF Out
  <2>2. None \notin Clients
    BY PagesAssumption
  <2> QED
    BY <1>1, <2>1, <2>2 DEF GuardHeld
<1>7. JobsSound'
  <2>1. NoJob \in Job /\ Out(NoJob) /\ ItemSound(NoJob) /\ NoJob.bytes = Nothing
    BY NoJobType DEF Out, ItemSound
  <2>2. JobSound(NoJob, disk', rows', rowsTold')
    BY <2>1, OutSound
  <2> QED
    BY <1>1, <2>2 DEF JobsSound
<1>8. RowsHeld'
  <2> SUFFICES ASSUME NEW q \in Paths, NEW c \in Clients, RowOpen(job[c], q) PROVE q \in rowsTold'
    BY <1>1 DEF IInv, RowsHeld
  <2>1. CASE job[c].bytes[q] # None
    BY <2>1, <1>1 DEF Batch
  <2>2. CASE job[c].at \in {"prune", "evict"} /\ q = ItemAt(job[c]).path
    <3>1. ~Out(job[c])
      BY <2>2 DEF Out
    <3>2. guard = c /\ PathOf(c) = q
      BY <2>2, <3>1, InsideFacts
    <3> QED
      BY <1>1, <3>2
  <2> QED
    BY <2>1, <2>2 DEF RowOpen
<1>9. ListsHeld'
  <2>1. ASSUME NEW d \in Dirs, NEW c \in Clients, ListOpen(job[c], d) PROVE d \in linksTold'
    <3>1. Walking(job[c]) /\ d \in ToSet(job[c].todo)
      BY <2>1 DEF ListOpen
    <3>2. ~Out(job[c]) /\ ToSet(job[c].todo) \subseteq AncestorsOf(PathOf(c))
      BY <3>1, WalkFacts
    <3>3. PathOf(c) \in hit
      BY <3>2, HeldInside
    <3> QED
      BY <1>1, <3>1, <3>2, <3>3 DEF AncestorsOf
  <2>2. ASSUME NEW d \in Dirs PROVE ListFresh(d)' \/ d \in linksTold'
    <3>1. ListFresh(d) \/ d \in linksTold \/ \E c \in Clients : ListOpen(job[c], d)
      BY DEF IInv, ListsHeld
    <3> QED
      BY <3>1, <2>1, <1>1, QuietFresh
  <2> QED
    BY <2>2 DEF ListsHeld
<1>10. NoLostUpdate'
  BY <1>1, <1>2 DEF NoLostUpdate
<1> QED
  BY <1>5, <1>6, <1>7, <1>8, <1>9, <1>10 DEF IInv

\* At first there is no file, no row and no request.
LEMMA InitIInv == ASSUME Init PROVE IInv
<1>1. /\ disk = Nothing /\ rows = Nothing /\ serial = Nothing
      /\ guard = None /\ job = [c \in Clients |-> NoJob]
      /\ requests = 0 /\ faults = 0 /\ rowsTold = {} /\ linksTold = {}
  BY DEF Init
<1>2. TypeOK
  BY <1>1, NoJobType, PagesAssumption DEF TypeOK
<1>3. GuardHeld
  <2>1. Out(NoJob)
    BY NoJobType DEF Out
  <2>2. None \notin Clients
    BY PagesAssumption
  <2> QED
    BY <1>1, <2>1, <2>2 DEF GuardHeld
<1>4. JobsSound
  <2>1. NoJob \in Job /\ Out(NoJob) /\ ItemSound(NoJob) /\ NoJob.bytes = Nothing
    BY NoJobType DEF Out, ItemSound
  <2>2. JobSound(NoJob, disk, rows, rowsTold)
    BY <2>1, OutSound
  <2> QED
    BY <1>1, <2>2 DEF JobsSound
<1>5. RowsHeld
  BY <1>1 DEF RowsHeld, Nothing, Indexed
<1>6. ListsHeld
  <2>1. ASSUME NEW d \in Dirs PROVE ListFresh(d)
    <3>1. d \in Paths /\ \A p \in Paths : disk[p] = None
      BY <1>1 DEF Nothing, Paths
    <3> QED
      BY <3>1 DEF ListFresh, dir_contains_markdown
  <2> QED
    BY <2>1 DEF ListsHeld
<1>7. NoLostUpdate
  BY <1>1 DEF NoLostUpdate
<1> QED
  BY <1>2, <1>3, <1>4, <1>5, <1>6, <1>7 DEF IInv

\* A step that changes nothing keeps the invariant.
LEMMA QuietIInv == ASSUME IInv, UNCHANGED vars PROVE IInv'
<1>1. \A d \in Dirs : ListFresh(d)' <=> ListFresh(d)
  BY QuietFresh DEF vars
<1> QED
  BY <1>1 DEF vars, IInv, TypeOK, GuardHeld, JobsSound, NoLostUpdate, RowsHeld, ListsHeld

\* Every step of a handler keeps the invariant.
LEMMA HandleIInv == ASSUME IInv, NEW c \in Clients, Handle(c) PROVE IInv'
<1>1. CASE TakeGuard(c)
  BY <1>1, TakeGuardIInv
<1>2. CASE RefuseItem(c) \/ RefuseEdit(c) \/ RefuseWrite(c) \/ RefuseUnlink(c)
  BY <1>2, RefuseIInv
<1>3. CASE ReadPage(c)
  BY <1>3, ReadPageIInv
<1>4. CASE WritePage(c)
  BY <1>4, WritePageIInv
<1>5. CASE FailWrite(c)
  BY <1>5, FailWriteIInv
<1>6. CASE PrunePage(c) \/ EvictPage(c)
  BY <1>6, DropRowIInv
<1>7. CASE UnlinkPage(c)
  BY <1>7, UnlinkPageIInv
<1>8. CASE FailStore(c)
  BY <1>8, FailStoreIInv
<1>9. CASE ComposeIndex(c)
  BY <1>9, ComposeIndexIInv
<1>10. CASE PutIndex(c)
  BY <1>10, PutIndexIInv
<1>11. CASE FailRefresh(c)
  BY <1>11, FailRefreshIInv
<1>12. CASE IndexBatch(c) \/ FailBatch(c)
  BY <1>12, BatchIInv
<1> QED
  BY <1>1, <1>2, <1>3, <1>4, <1>5, <1>6, <1>7, <1>8, <1>9, <1>10, <1>11, <1>12 DEF Handle

-----------------------------------------------------------------------------
(* The theorems.                                                           *)

\* The inductive invariant holds of every behaviour: the handlers that change pages
\* keep it at every step, failure and crash.
THEOREM Invariance == Spec => []IInv
<1>1. Init => IInv
  BY InitIInv
<1>2. IInv /\ [Next]_vars => IInv'
  <2> SUFFICES ASSUME IInv, [Next]_vars PROVE IInv'
    OBVIOUS
  <2>1. ASSUME NEW c \in Clients, NEW r \in Requests, Arrive(c, r) PROVE IInv'
    BY <2>1, ArriveIInv
  <2>2. ASSUME NEW c \in Clients, Handle(c) PROVE IInv'
    BY <2>2, HandleIInv
  <2>3. CASE IndexCorpus
    BY <2>3, IndexCorpusIInv
  <2>4. CASE Crash
    BY <2>4, CrashIInv
  <2>5. CASE UNCHANGED vars
    BY <2>5, QuietIInv
  <2> QED
    BY <2>1, <2>2, <2>3, <2>4, <2>5 DEF Next
<1> QED
  BY <1>1, <1>2, PTL DEF Spec

\* Nobody inside leaves nothing open.
LEMMA IdleRows == ASSUME IInv PROVE RowsAccounted /\ LinksAccounted
<1> SUFFICES ASSUME guard = None
             PROVE  /\ \A p \in Paths : rows[p] = Indexed(disk[p]) \/ p \in rowsTold
                    /\ \A d \in Dirs : ListFresh(d) \/ d \in linksTold
  BY DEF RowsAccounted, LinksAccounted
<1>1. ASSUME NEW x \in Clients
      PROVE  /\ \A p \in Paths : ~RowOpen(job[x], p)
             /\ \A d \in Dirs : ~ListOpen(job[x], d)
  <2>1. guard # x
    BY PagesAssumption
  <2>2. Out(job[x]) /\ job[x] \in Job /\ ItemSound(job[x]) /\ job[x].bytes = Nothing
    BY <2>1 DEF IInv, TypeOK, GuardHeld, JobsSound, JobSound, BytesSound, Out
  <2> QED
    BY <2>2, OutSound
<1> QED
  BY <1>1 DEF IInv, RowsHeld, ListsHeld

\* The text a handler is about to write for a heading edit keeps the outline.
LEMMA OutlineLemma == ASSUME IInv PROVE OutlineKept
<1> SUFFICES ASSUME NEW c \in Clients, At(c, "write"),
                    ItemOf(c).op = "heading", Headings(ItemOf(c).body) = {}
             PROVE  LET old   == disk[PathOf(c)]
                        new   == job[c].text
                        size  == Len(new) - Len(old)
                        k     == SpliceAt(c)
                        h     == ItemOf(c).heading
                        After(i) == IF i < k THEN i ELSE i + size
                    IN  /\ \A i \in DOMAIN old :
                              /\ new[After(i)] = old[i]
                              /\ HeadingsOf(new, After(i)) = HeadingsOf(old, i)
                        /\ \A i \in k..(k + size - 1) : h \in HeadingsOf(new, i)
                        /\ \A i \in DOMAIN new :
                              h \in HeadingsOf(new, i) =>
                                IF ItemOf(c).position = "append" THEN i < k + size ELSE i >= k
  BY DEF OutlineKept
<1> DEFINE old   == disk[PathOf(c)]
           new   == job[c].text
           item  == ItemOf(c)
           k     == SpliceAt(c)
           h     == item.heading
           block == normalize_block(item.body)
           size  == Len(new) - Len(old)
           After(i) == IF i < k THEN i ELSE i + size
<1>1. job[c].at = "write" /\ ~Out(job[c])
  BY DEF At, Out
<1>2. /\ JobSound(job[c], disk, rows, rowsTold)
      /\ item = ItemAt(job[c]) /\ item \in Item /\ PathOf(c) \in Paths /\ PathOf(c) = item.path
      /\ disk \in [Paths -> Doc \cup {None}]
  BY <1>1, InsideFacts
<1>3. /\ item.position \in {"append", "prepend"} /\ item.body \in Doc
      /\ item.op = "heading" /\ Headings(item.body) = {}
  BY <1>2 DEF Item
<1>4. /\ Composable(item, old) /\ new = Composed(item, old)
  BY <1>1, <1>2 DEF JobSound, TextSound
<1>5. old \in Doc /\ CanSplice(old, h)
  BY <1>2, <1>3, <1>4 DEF Composable
<1>6. new = splice_under_heading(old, h, item.position, item.body)
  BY <1>3, <1>4 DEF Composed
<1>7. k = SplicePoint(old, h, item.position)
  BY <1>2 DEF SpliceAt
<1> HIDE DEF old, new, item, k, h
<1>8. block \in Doc /\ Headings(block) = {}
  BY <1>3, BlockLemma
<1>9. k \in 1..(Len(old) + 1) /\ new = Put(old, k, block)
  BY <1>3, <1>5, <1>6, <1>7, SpliceType
<1> HIDE DEF block
<1>10. /\ new \in Doc /\ Len(new) = Len(old) + Len(block)
       /\ \A i \in 1..(k - 1) : new[i] = old[i]
       /\ \A i \in k..Len(old) : new[i + Len(block)] = old[i]
  BY <1>5, <1>8, <1>9, PutLemma
<1>11. size = Len(block) /\ DOMAIN old = 1..Len(old) /\ DOMAIN new = 1..Len(new) /\ Len(block) \in Nat /\ Len(old) \in Nat
  BY <1>5, <1>8, <1>10 DEF Doc
<1> HIDE DEF size
<1>12. \A i \in 1..Len(old) : After(i) = Moved(k, Len(block), i)
  BY <1>11 DEF Moved
<1>13. ASSUME NEW i \in DOMAIN old
       PROVE  new[After(i)] = old[i] /\ HeadingsOf(new, After(i)) = HeadingsOf(old, i)
  <2>1. new[After(i)] = old[i]
    <3>1. i \in 1..Len(old) /\ k \in 1..(Len(old) + 1) /\ Len(old) \in Nat
      BY <1>9, <1>11
    <3>2. CASE i < k
      <4>1. i \in 1..(k - 1) /\ After(i) = i
        BY <3>1, <3>2
      <4> QED
        BY <4>1, <1>10
    <3>3. CASE ~(i < k)
      <4>1. i \in k..Len(old) /\ After(i) = i + Len(block)
        BY <3>1, <3>3, <1>11
      <4> QED
        BY <4>1, <1>10
    <3> QED
      BY <3>2, <3>3
  <2>2. HeadingsOf(new, Moved(k, Len(block), i)) = HeadingsOf(old, i)
    BY <1>5, <1>8, <1>9, <1>11, PutOutline
  <2> QED
    BY <2>1, <2>2, <1>11, <1>12
<1>14. /\ \A i \in k..(k + size - 1) : h \in HeadingsOf(new, i)
       /\ \A i \in DOMAIN new :
            h \in HeadingsOf(new, i) =>
              IF item.position = "append" THEN i < k + size ELSE i >= k
  BY <1>3, <1>5, <1>7, <1>8, <1>9, <1>11, SpliceOutline
<1> QED
  BY <1>13, <1>14 DEF old, new, item, k, h, size

\* Every state is well typed: what the modes of add_markdown compose, and what the
\* walk makes of an index.md, are texts.
THEOREM TypeCorrect == Spec => []TypeOK
BY Invariance, PTL DEF IInv

\* No edit of add_markdown or delete_markdown and no rewritten index.md loses a
\* change that reached the file before it.
THEOREM UpdateKept == Spec => []NoLostUpdate
BY Invariance, PTL DEF IInv

\* A fragment without headings that add_markdown splices under a heading leaves
\* every other line under the headings it had, and lands under its own.
THEOREM OutlinePreserved == Spec => []OutlineKept
BY Invariance, OutlineLemma, PTL

\* Once no mutation runs, the search index holds what the files say, but for the
\* rows an answer, or a crash, left open.
THEOREM RowsRight == Spec => []RowsAccounted
BY Invariance, IdleRows, PTL

\* Once no mutation runs, every index.md with markers lists the children of its
\* directory, but for those an answer, or a crash, left open.
THEOREM LinksRight == Spec => []LinksAccounted
BY Invariance, IdleRows, PTL
=============================================================================
