------------------------- MODULE WatchRegistryProofs --------------------------
(***************************************************************************)
(* Proofs about WatchRegistry, for any sources, keys, bindings, layers and *)
(* bounds.  None of the four properties is inductive: the queue is exact   *)
(* because the admitted groups hold registrations that are in flight and   *)
(* every task has a group of its own, and because two registrations of one *)
(* source never resolve to one key, but for the moment in which a          *)
(* restarted pump has seeded a retargeted corpus beside its old            *)
(* registration.                                                           *)
(*                                                                         *)
(* The first part is about sequences without repetition; the second states *)
(* the inductive invariant; then one lemma per action.                     *)
(***************************************************************************)
EXTENDS WatchRegistry, FiniteSetTheorems, SequenceTheorems, WellFoundedInduction, TLAPS

-----------------------------------------------------------------------------
(* The inductive invariant.                                                *)

\* The key in a registration's id has the name of its corpus.
NamesKept ==
    /\ \A b \in Bindings : NameOf[link[b]] = CorpusName(b)
    /\ \A id \in Registered : NameOf[id[2]] = CorpusName(regs[id].binding)

\* Two registrations of one source resolve to one key: the restarted pump has
\* seeded one there and has not refreshed the roots yet.
TwinsSeeded ==
    \A i, j \in Registered :
       i # j /\ i[1] = j[1] /\ link[regs[i].binding] = link[regs[j].binding] =>
          /\ pump \in {"down", "refresh"}
          /\ i[2] = link[regs[i].binding] \/ j[2] = link[regs[j].binding]
          /\ i[2] = link[regs[i].binding] => regs[i].catchUp = "Done" /\ regs[i].reconciled

\* The queue holds the Queued registrations, each once.
QueueSet ==
    /\ IsInjective(queue)
    /\ ToSet(queue) = {id \in Registered : regs[id].catchUp = "Queued"}

\* The members of a group are in flight, and in no other group.
MembersInFlight ==
    \A g \in DOMAIN active :
       /\ \A m \in ToSet(active[g].members) : m \in Registered /\ regs[m].catchUp = "InFlight"
       /\ IsInjective(active[g].members)
       /\ \A h \in DOMAIN active : h # g => ToSet(active[g].members) \cap ToSet(active[h].members) = {}
       /\ active[g].valid => active[g].leader \in ToSet(active[g].members)

\* Each running task has a group of its own, with its leader.
Busy == {t \in Tasks : task[t] # None}

GroupPerTask ==
    \E f \in Bijection(Busy, DOMAIN active) : \A t \in Busy : active[f[t]].leader = task[t]

\* Before any root is retargeted a registration has the key and the lock keys
\* of its binding, and the groups' lock keys keep their corpora apart.
RootsKept ==
    retargets = 0 =>
       /\ link = FirstKey
       /\ \A id \in Registered :
             /\ id[2] = FirstKey[regs[id].binding]
             /\ id[2] \in regs[id].lockKeys
       /\ \A g \in DOMAIN active :
             /\ active[g].leader[2] \in active[g].lockKeys
             /\ \A m \in ToSet(active[g].members) : m[2] = active[g].leader[2]
             /\ \A h \in DOMAIN active : h # g => active[g].lockKeys \cap active[h].lockKeys = {}

\* And the members of a group are the registrations its task's pass took.
PassMembers ==
    retargets = 0 =>
       /\ \A id \in Ids : passOf[id] # 0 => \E g \in DOMAIN active : id \in ToSet(active[g].members)
       /\ \A g \in DOMAIN active : \A m \in ToSet(active[g].members) :
             passOf[m] # 0 /\ task[passOf[m]] = active[g].leader
       /\ \A id \in Registered : regs[id].catchUp = "InFlight" => passOf[id] # 0

IInv ==
    /\ TypeOK
    /\ NamesKept /\ TwinsSeeded
    /\ QueueSet /\ MembersInFlight /\ GroupPerTask
    /\ RootsKept /\ PassMembers
    /\ EventCovered /\ NoLostWakeup

-----------------------------------------------------------------------------
(* Sequences without repetition.                                           *)

\* A set of numbers that is not empty has a smallest one.
LEMMA LeastNat == ASSUME NEW T \in SUBSET Nat, T # {} PROVE \E x \in T : \A y \in T : x <= y
<1> DEFINE R == OpToRel(<, Nat)
<1>1. PICK x \in T : \A y \in T : <<y, x>> \notin R
  <2>1. T \subseteq Nat
    OBVIOUS
  <2> QED
    BY <2>1, NatLessThanWellFounded, WFMin, Zenon
<1>2. \A y \in T : ~(y < x)
  BY <1>1 DEF OpToRel
<1> QED
  BY <1>2

\* The smallest number of a set is one of its numbers.
LEMMA MinOf ==
    ASSUME NEW T \in SUBSET Nat, T # {}
    PROVE  Min(T) \in T /\ \A y \in T : Min(T) <= y
BY LeastNat DEF Min

\* Only keeps the entries in a set and no others, and repeats none.
LEMMA OnlyKeeps ==
    ASSUME NEW T, NEW s \in Seq(T), NEW S
    PROVE  /\ Only(s, S) \in Seq(T)
           /\ ToSet(Only(s, S)) = ToSet(s) \cap S
           /\ IsInjective(s) => IsInjective(Only(s, S))
<1> DEFINE I == {i \in DOMAIN s : s[i] \in S}
           Below(i) == {j \in I : j <= i}
           c == Cardinality(I)
           K(n) == CHOOSE i \in I : Cardinality(Below(i)) = n
<1>1. I \in SUBSET (1..Len(s)) /\ IsFiniteSet(I) /\ c \in Nat /\ Len(s) \in Nat
  <2>1. IsFiniteSet(1..Len(s))
    BY FS_Interval
  <2>2. I \in SUBSET (1..Len(s)) /\ Len(s) \in Nat
    OBVIOUS
  <2>3. IsFiniteSet(I)
    BY ONLY <2>1, <2>2, FS_Subset
  <2> QED
    BY <2>2, <2>3, FS_CardinalityType
<1>2. \A i \in I : Cardinality(Below(i)) \in 1..c
  <2> SUFFICES ASSUME NEW i \in I PROVE Cardinality(Below(i)) \in 1..c
    OBVIOUS
  <2> DEFINE B == Below(i)
  <2>1. B \in SUBSET I /\ i \in B
    BY <1>1
  <2> HIDE DEF B
  <2>2. IsFiniteSet(B) /\ Cardinality(B) <= c
    BY <1>1, <2>1, FS_Subset
  <2>3. Cardinality(B) \in Nat /\ Cardinality(B) # 0
    BY <2>1, <2>2, FS_CardinalityType, FS_EmptySet
  <2>4. Cardinality(B) \in 1..c
    BY <2>2, <2>3, <1>1
  <2> QED
    BY <2>4 DEF B
<1>3. \A i, j \in I : i < j => Cardinality(Below(i)) # Cardinality(Below(j))
  <2> SUFFICES ASSUME NEW i \in I, NEW j \in I, i < j
               PROVE  Cardinality(Below(i)) # Cardinality(Below(j))
    OBVIOUS
  <2> DEFINE A == Below(i)
             B == Below(j)
  <2>1. A \in SUBSET B /\ j \in B /\ j \notin A /\ B \in SUBSET I
    BY <1>1
  <2> HIDE DEF A, B
  <2>2. IsFiniteSet(B)
    BY <1>1, <2>1, FS_Subset
  <2>3. Cardinality(A) # Cardinality(B)
    BY <2>1, <2>2, FS_Subset
  <2> QED
    BY <2>3 DEF A, B
<1>4. \A i, j \in I : Cardinality(Below(i)) = Cardinality(Below(j)) => i = j
  <2> SUFFICES ASSUME NEW i \in I, NEW j \in I, i # j
               PROVE  Cardinality(Below(i)) # Cardinality(Below(j))
    OBVIOUS
  <2>1. i < j \/ j < i
    BY <1>1
  <2> QED
    BY <2>1, <1>3
<1>5. \A n \in 1..c : \E i \in I : Cardinality(Below(i)) = n
  <2> DEFINE F == [i \in I |-> Cardinality(Below(i))]
  <2>1. F \in [I -> 1..c] /\ \A i, j \in I : F[i] = F[j] => i = j
    BY <1>2, <1>4
  <2>2. \A i \in I : F[i] = Cardinality(Below(i))
    OBVIOUS
  <2> HIDE DEF F
  <2>3. F \in Injection(I, 1..c)
    BY <2>1 DEF Injection, IsInjective
  <2>4. IsFiniteSet(1..c) /\ Cardinality(1..c) = c
    BY <1>1, FS_Interval
  <2>5. F \in Surjection(I, 1..c)
    BY <2>3, <2>4, FS_Injection
  <2> QED
    BY <2>5, <2>2 DEF Surjection
<1>6. \A n \in 1..c : K(n) \in I /\ Cardinality(Below(K(n))) = n
  BY <1>5
<1>7. \A i \in I : Cardinality(Below(i)) \in 1..c /\ K(Cardinality(Below(i))) = i
  BY <1>2, <1>4, <1>6
<1>8. Only(s, S) = [n \in 1..c |-> s[K(n)]]
  BY DEF Only
<1>9. \A i \in I : i \in DOMAIN s /\ s[i] \in T /\ s[i] \in S
  BY <1>1
<1>10. \A i \in DOMAIN s : s[i] \in S => i \in I
  OBVIOUS
<1>11. \E k \in [1..c -> I] : /\ Only(s, S) = [n \in 1..c |-> s[k[n]]]
                              /\ \A i \in I : \E n \in 1..c : k[n] = i
                              /\ \A m, n \in 1..c : k[m] = k[n] => m = n
  <2> DEFINE k == [n \in 1..c |-> K(n)]
  <2>1. k \in [1..c -> I] /\ Only(s, S) = [n \in 1..c |-> s[k[n]]]
    BY <1>6, <1>8
  <2>2. \A i \in I : \E n \in 1..c : k[n] = i
    BY <1>7
  <2>3. \A m, n \in 1..c : k[m] = k[n] => m = n
    <3> SUFFICES ASSUME NEW m \in 1..c, NEW n \in 1..c, K(m) = K(n) PROVE m = n
      OBVIOUS
    <3> QED
      BY <1>6
  <2> QED
    BY <2>1, <2>2, <2>3
<1> HIDE DEF I, c, K, Below
<1>12. PICK k \in [1..c -> I] : /\ Only(s, S) = [n \in 1..c |-> s[k[n]]]
                                /\ \A i \in I : \E n \in 1..c : k[n] = i
                                /\ \A m, n \in 1..c : k[m] = k[n] => m = n
  BY <1>11
<1>13. Only(s, S) \in Seq(T)
  <2>1. Only(s, S) \in [1..c -> T]
    BY <1>12, <1>9
  <2> QED
    BY <2>1, <1>1, SeqDef
<1>14. ToSet(Only(s, S)) = ToSet(s) \cap S
  <2>1. DOMAIN Only(s, S) = 1..c /\ \A n \in 1..c : Only(s, S)[n] = s[k[n]]
    BY <1>12
  <2>2. ToSet(Only(s, S)) \subseteq ToSet(s) \cap S
    BY <2>1, <1>12, <1>9 DEF ToSet
  <2>3. \A i \in DOMAIN s : s[i] \in S => s[i] \in ToSet(Only(s, S))
    <3> SUFFICES ASSUME NEW i \in DOMAIN s, s[i] \in S PROVE s[i] \in ToSet(Only(s, S))
      OBVIOUS
    <3>1. PICK n \in 1..c : k[n] = i
      BY <1>10, <1>12
    <3> QED
      BY <3>1, <2>1 DEF ToSet
  <2> QED
    BY <2>2, <2>3 DEF ToSet
<1>15. IsInjective(s) => IsInjective(Only(s, S))
  <2> SUFFICES ASSUME IsInjective(s), NEW m \in 1..c, NEW n \in 1..c, s[k[m]] = s[k[n]] PROVE m = n
    BY <1>12 DEF IsInjective
  <2>1. k[m] \in DOMAIN s /\ k[n] \in DOMAIN s
    BY <1>12, <1>9
  <2>2. k[m] = k[n]
    BY <2>1 DEF IsInjective
  <2> QED
    BY <2>2, <1>12
<1> QED
  BY <1>13, <1>14, <1>15

\* SetToSeq lists every element of a finite set once.
LEMMA ListOf ==
    ASSUME NEW T, NEW S \in SUBSET T, IsFiniteSet(S)
    PROVE  /\ SetToSeq(S) \in Seq(T)
           /\ ToSet(SetToSeq(S)) = S
           /\ IsInjective(SetToSeq(S))
<1> DEFINE n == Cardinality(S)
<1>1. n \in Nat /\ \E f \in Bijection(1..n, S) : TRUE
  BY FS_CardinalityType DEF ExistsBijection
<1>2. PICK f \in [1..n -> S] : IsInjective(f)
  BY <1>1 DEF Bijection, Injection
<1>3. SetToSeq(S) \in [1..n -> S] /\ IsInjective(SetToSeq(S))
  BY <1>2 DEF SetToSeq
<1> DEFINE q == SetToSeq(S)
<1> HIDE DEF q
<1>4. q \in [1..n -> S] /\ IsInjective(q)
  BY <1>3 DEF q
<1>5. q \in Surjection(1..n, S)
  <2>1. q \in Injection(1..n, S)
    BY <1>4 DEF Injection
  <2>2. Cardinality(1..n) = n
    BY <1>1, FS_Interval
  <2> QED
    BY <2>1, <2>2, FS_Injection
<1>6. q \in Seq(T) /\ ToSet(q) = S
  <2>1. \A x \in S : \E i \in 1..n : q[i] = x
    BY <1>5 DEF Surjection
  <2>2. DOMAIN q = 1..n /\ \A i \in 1..n : q[i] \in S
    BY <1>4
  <2>3. ToSet(q) = S
    BY <2>1, <2>2 DEF ToSet
  <2> QED
    BY <2>2, <2>3, <1>1, <1>4
<1> QED
  BY <1>6, <1>3 DEF q

\* A concatenation holds the entries of both parts.
LEMMA ConcatSet ==
    ASSUME NEW T, NEW s \in Seq(T), NEW u \in Seq(T)
    PROVE  /\ s \o u \in Seq(T)
           /\ ToSet(s \o u) = ToSet(s) \cup ToSet(u)
           /\ (IsInjective(s) /\ IsInjective(u) /\ ToSet(s) \cap ToSet(u) = {}) => IsInjective(s \o u)
<1> DEFINE q == s \o u
<1>1. /\ q \in Seq(T) /\ DOMAIN q = 1..(Len(s) + Len(u))
      /\ \A i \in 1..Len(s) : q[i] = s[i]
      /\ \A i \in 1..Len(u) : q[Len(s) + i] = u[i]
  BY ConcatProperties
<1> HIDE DEF q
<1>2. Len(s) \in Nat /\ Len(u) \in Nat /\ DOMAIN s = 1..Len(s) /\ DOMAIN u = 1..Len(u)
  OBVIOUS
<1>3. \A i \in DOMAIN q : \/ i \in 1..Len(s) /\ q[i] = s[i]
                          \/ i - Len(s) \in 1..Len(u) /\ q[i] = u[i - Len(s)]
  <2> SUFFICES ASSUME NEW i \in 1..(Len(s) + Len(u)), i \notin 1..Len(s)
               PROVE  i - Len(s) \in 1..Len(u) /\ q[i] = u[i - Len(s)]
    BY <1>1
  <2>1. i - Len(s) \in 1..Len(u) /\ i = Len(s) + (i - Len(s))
    BY <1>2
  <2> QED
    BY <2>1, <1>1
<1>4. ToSet(q) \subseteq ToSet(s) \cup ToSet(u)
  BY <1>2, <1>3 DEF ToSet
<1>5. ToSet(s) \subseteq ToSet(q)
  <2>1. \A i \in 1..Len(s) : i \in DOMAIN q /\ q[i] = s[i]
    BY <1>1, <1>2
  <2> QED
    BY <2>1, <1>2 DEF ToSet
<1>6. ToSet(u) \subseteq ToSet(q)
  <2>1. \A i \in 1..Len(u) : Len(s) + i \in DOMAIN q /\ q[Len(s) + i] = u[i]
    BY <1>1, <1>2
  <2> QED
    BY <2>1, <1>2 DEF ToSet
<1>7. ASSUME IsInjective(s), IsInjective(u), ToSet(s) \cap ToSet(u) = {} PROVE IsInjective(q)
  <2> SUFFICES ASSUME NEW i \in DOMAIN q, NEW j \in DOMAIN q, q[i] = q[j] PROVE i = j
    BY DEF IsInjective
  <2>1. i \in Nat /\ j \in Nat
    BY <1>1
  <2>2. \A a \in 1..Len(s), b \in 1..Len(u) : s[a] # u[b]
    BY <1>7, <1>2 DEF ToSet
  <2>3. CASE i \in 1..Len(s) /\ q[i] = s[i] /\ j \in 1..Len(s) /\ q[j] = s[j]
    BY <2>3, <1>7, <1>2 DEF IsInjective
  <2>4. CASE /\ i - Len(s) \in 1..Len(u) /\ q[i] = u[i - Len(s)]
             /\ j - Len(s) \in 1..Len(u) /\ q[j] = u[j - Len(s)]
    <3>1. i - Len(s) = j - Len(s)
      BY <2>4, <1>7, <1>2 DEF IsInjective
    <3> QED
      BY <3>1, <2>1, <1>2
  <2> QED
    BY <2>2, <2>3, <2>4, <1>3
<1> QED
  BY <1>1, <1>4, <1>5, <1>6, <1>7 DEF q

\* The sequences a and b are the parts of s before and after its entry n.
Parted(T, s, n, a, b) ==
    /\ a \in Seq(T) /\ b \in Seq(T) /\ Len(a) = n - 1 /\ Len(b) = Len(s) - n
    /\ \A i \in DOMAIN a : i \in 1..(n - 1) /\ a[i] = s[i]
    /\ \A i \in DOMAIN b : i \in 1..(Len(s) - n) /\ b[i] = s[n + i]
    /\ ToSet(s) = ToSet(a) \cup {s[n]} \cup ToSet(b)
    /\ IsInjective(s) => /\ IsInjective(a) /\ IsInjective(b)
                         /\ s[n] \notin ToSet(a) \cup ToSet(b)
                         /\ ToSet(a) \cap ToSet(b) = {}

\* SubSeq cuts a sequence into the parts around one of its entries.
LEMMA PartsOf ==
    ASSUME NEW T, NEW s \in Seq(T), NEW n \in 1..Len(s)
    PROVE  Parted(T, s, n, SubSeq(s, 1, n - 1), SubSeq(s, n + 1, Len(s)))
<1> DEFINE a == SubSeq(s, 1, n - 1)
           b == SubSeq(s, n + 1, Len(s))
<1>1. Len(s) \in Nat /\ n \in Nat /\ n >= 1 /\ n <= Len(s) /\ DOMAIN s = 1..Len(s)
  OBVIOUS
<1>2. a = [i \in 1..(n - 1) |-> s[i]]
  BY <1>1
<1>3. b = [i \in 1..(Len(s) - n) |-> s[n + i]]
  BY <1>1
<1> HIDE DEF a, b
<1>4. a \in Seq(T) /\ DOMAIN a = 1..(n - 1) /\ Len(a) = n - 1 /\ \A i \in 1..(n - 1) : a[i] = s[i] /\ i \in DOMAIN s
  BY <1>1, <1>2
<1>5. b \in Seq(T) /\ DOMAIN b = 1..(Len(s) - n) /\ Len(b) = Len(s) - n /\ \A i \in 1..(Len(s) - n) : b[i] = s[n + i] /\ n + i \in DOMAIN s
  <2>1. \A i \in 1..(Len(s) - n) : n + i \in DOMAIN s
    BY <1>1
  <2>2. Len(s) - n \in Nat
    BY <1>1
  <2>3. b \in [1..(Len(s) - n) -> T]
    <3>1. \A i \in 1..(Len(s) - n) : s[n + i] \in T
      BY <2>1
    <3> QED
      BY <1>3, <3>1
  <2>4. b \in Seq(T)
    BY <2>2, <2>3, SeqDef
  <2> QED
    BY <2>1, <2>2, <2>4, <1>3
<1>6. \A i \in DOMAIN s : \/ i \in 1..(n - 1) /\ s[i] = a[i]
                          \/ i = n
                          \/ i - n \in 1..(Len(s) - n) /\ s[i] = b[i - n]
  <2> SUFFICES ASSUME NEW i \in DOMAIN s, i # n, i \notin 1..(n - 1)
               PROVE  i - n \in 1..(Len(s) - n) /\ s[i] = b[i - n]
    BY <1>4
  <2>1. i - n \in 1..(Len(s) - n) /\ i = n + (i - n)
    BY <1>1
  <2> QED
    BY <2>1, <1>5
<1>7. ToSet(s) \subseteq ToSet(a) \cup {s[n]} \cup ToSet(b)
  <2> SUFFICES ASSUME NEW i \in DOMAIN s PROVE s[i] \in ToSet(a) \cup {s[n]} \cup ToSet(b)
    BY DEF ToSet
  <2>1. \A j \in 1..(n - 1) : a[j] \in ToSet(a)
    BY <1>4 DEF ToSet
  <2>2. \A j \in 1..(Len(s) - n) : b[j] \in ToSet(b)
    BY <1>5 DEF ToSet
  <2> QED
    BY <2>1, <2>2, <1>6
<1>8. ToSet(a) \cup {s[n]} \cup ToSet(b) \subseteq ToSet(s)
  <2>1. \A j \in DOMAIN s : s[j] \in ToSet(s)
    BY DEF ToSet
  <2>2. \A i \in DOMAIN a : a[i] \in ToSet(s)
    BY <2>1, <1>4
  <2>3. \A i \in DOMAIN b : b[i] \in ToSet(s)
    BY <2>1, <1>5
  <2> QED
    BY <2>1, <2>2, <2>3, <1>1 DEF ToSet
<1>9. ASSUME IsInjective(s)
      PROVE  /\ IsInjective(a) /\ IsInjective(b)
             /\ s[n] \notin ToSet(a) \cup ToSet(b)
             /\ ToSet(a) \cap ToSet(b) = {}
  <2>1. \A i, j \in DOMAIN s : s[i] = s[j] => i = j
    BY <1>9 DEF IsInjective
  <2>2. IsInjective(a)
    BY <2>1, <1>4 DEF IsInjective
  <2>3. IsInjective(b)
    <3> SUFFICES ASSUME NEW i \in 1..(Len(s) - n), NEW j \in 1..(Len(s) - n), b[i] = b[j] PROVE i = j
      BY <1>5 DEF IsInjective
    <3>1. n + i = n + j
      BY <1>5, <2>1
    <3> QED
      BY <3>1, <1>1
  <2>4. s[n] \notin ToSet(a)
    <3> SUFFICES ASSUME NEW i \in 1..(n - 1), a[i] = s[n] PROVE FALSE
      BY <1>4 DEF ToSet
    <3>1. i = n
      BY <1>1, <1>4, <2>1
    <3> QED
      BY <3>1, <1>1
  <2>5. s[n] \notin ToSet(b)
    <3> SUFFICES ASSUME NEW i \in 1..(Len(s) - n), b[i] = s[n] PROVE FALSE
      BY <1>5 DEF ToSet
    <3>1. n + i = n
      BY <1>1, <1>5, <2>1
    <3> QED
      BY <3>1, <1>1
  <2>6. ToSet(a) \cap ToSet(b) = {}
    <3> SUFFICES ASSUME NEW i \in DOMAIN a, NEW j \in DOMAIN b, a[i] = b[j] PROVE FALSE
      BY DEF ToSet
    <3>1. i = n + j
      BY <1>4, <1>5, <2>1
    <3> QED
      BY <3>1, <1>1, <1>4, <1>5
  <2> QED
    BY <2>2, <2>3, <2>4, <2>5, <2>6
<1>10. Parted(T, s, n, a, b)
  BY <1>4, <1>5, <1>7, <1>8, <1>9 DEF Parted
<1> QED
  BY <1>10 DEF a, b

\* Appending a new entry.
LEMMA AppendSet ==
    ASSUME NEW T, NEW s \in Seq(T), NEW x \in T
    PROVE  /\ Append(s, x) \in Seq(T)
           /\ ToSet(Append(s, x)) = ToSet(s) \cup {x}
           /\ (IsInjective(s) /\ x \notin ToSet(s)) => IsInjective(Append(s, x))
<1> DEFINE q == Append(s, x)
<1>1. /\ q \in Seq(T) /\ Len(q) = Len(s) + 1
      /\ \A i \in 1..Len(s) : q[i] = s[i]
      /\ q[Len(s) + 1] = x
  BY AppendProperties
<1> HIDE DEF q
<1>2. Len(s) \in Nat /\ DOMAIN s = 1..Len(s) /\ DOMAIN q = 1..(Len(s) + 1)
  BY <1>1
<1>3. \A i \in DOMAIN q : i \in DOMAIN s \/ i = Len(s) + 1
  BY <1>2
<1>4. \A i \in DOMAIN s : i \in DOMAIN q /\ q[i] = s[i]
  BY <1>1, <1>2
<1>5. ToSet(q) = ToSet(s) \cup {x}
  BY <1>1, <1>2, <1>3, <1>4 DEF ToSet
<1>6. (IsInjective(s) /\ x \notin ToSet(s)) => IsInjective(q)
  BY <1>1, <1>3, <1>4 DEF IsInjective, ToSet
<1> QED
  BY <1>1, <1>5, <1>6 DEF q

-----------------------------------------------------------------------------
(* The operators of the registry.                                          *)

\* What the types say of the ledger, its groups and its tasks.
LEMMA Typed ==
    ASSUME TypeOK
    PROVE  /\ Registered \subseteq Ids
           /\ \A id \in Ids : id[1] \in Sources /\ id[2] \in Keys /\ id = <<id[1], id[2]>> /\ id # None
           /\ \A id \in Registered : regs[id] \in Registration
           /\ queue \in Seq(Ids) /\ active \in Seq(Group)
           /\ link \in [Bindings -> Keys] /\ task \in [Tasks -> Ids \cup {None}]
           /\ passOf \in [Ids -> Tasks \cup {0}] /\ owed \subseteq Ids
           /\ Len(active) \in Nat /\ DOMAIN active = 1..Len(active)
           /\ \A g \in DOMAIN active : /\ active[g] \in Group /\ active[g].leader \in Ids
                                       /\ active[g].lockKeys \subseteq Keys
                                       /\ active[g].members \in Seq(Ids)
                                       /\ ToSet(active[g].members) \subseteq Ids
                                       /\ active[g].valid \in BOOLEAN
<1>1. \A id \in Ids : id[1] \in Sources /\ id[2] \in Keys /\ id = <<id[1], id[2]>> /\ id # None
  BY RegistryAssumption DEF Ids
<1>2. active \in Seq(Group) /\ Len(active) \in Nat /\ DOMAIN active = 1..Len(active)
  BY DEF TypeOK
<1>3. \A g \in DOMAIN active : active[g] \in Group
  BY <1>2
<1>4. \A x \in Group : /\ x.leader \in Ids /\ x.lockKeys \subseteq Keys /\ x.members \in Seq(Ids)
                       /\ x.valid \in BOOLEAN
  BY DEF Group
<1>5. \A s \in Seq(Ids) : ToSet(s) \subseteq Ids
  BY DEF ToSet
<1> QED
  BY <1>1, <1>2, <1>3, <1>4, <1>5 DEF TypeOK, Registered

\* The fields of a registration have their types.
LEMMA RegFields ==
    ASSUME NEW r \in Registration
    PROVE  /\ r.binding \in Bindings /\ r.lockKeys \subseteq Keys /\ r.dirty \in BOOLEAN
           /\ r.catchUp \in CatchUpStates /\ r.failed \in BOOLEAN /\ r.reconciled \in BOOLEAN
           /\ r.retry \in BOOLEAN
BY DEF Registration

\* There are finitely many registrations.
LEMMA FinitelyMany ==
    ASSUME NEW S \in SUBSET Ids
    PROVE  IsFiniteSet(S)
<1>1. IsFiniteSet(Ids)
  BY RegistryAssumption, FS_Product DEF Ids
<1> QED
  BY <1>1, FS_Subset

\* The id of a binding at its current key.
LEMMA IdOfBinding ==
    ASSUME TypeOK, NEW s \in Sources, NEW b \in Bindings
    PROVE  /\ <<s, link[b]>> \in Ids
           /\ <<s, link[b]>>[1] = s /\ <<s, link[b]>>[2] = link[b]
BY DEF TypeOK, Ids

\* A new registration.
LEMMA NewFields ==
    ASSUME TypeOK, NEW b \in Bindings
    PROVE  /\ NewRegistration(b) \in Registration
           /\ NewRegistration(b).binding = b
           /\ NewRegistration(b).lockKeys = {link[b]} \cup Extra[b]
           /\ NewRegistration(b).catchUp = "Queued"
           /\ NewRegistration(b).reconciled = FALSE /\ NewRegistration(b).failed = FALSE
<1>1. {link[b]} \cup Extra[b] \in SUBSET Keys
  BY RegistryAssumption DEF TypeOK
<1> QED
  BY <1>1 DEF NewRegistration, corpus_lock_keys, Registration, CatchUpStates

\* A seeded one.
LEMMA SeedFields ==
    ASSUME TypeOK, NEW b \in Bindings
    PROVE  /\ seed_baseline(b) \in Registration
           /\ seed_baseline(b).binding = b
           /\ seed_baseline(b).lockKeys = {link[b]} \cup Extra[b]
           /\ seed_baseline(b).catchUp = "Done" /\ seed_baseline(b).reconciled
<1>1. {link[b]} \cup Extra[b] \in SUBSET Keys
  BY RegistryAssumption DEF TypeOK
<1> QED
  BY <1>1 DEF seed_baseline, NewRegistration, corpus_lock_keys, Registration, CatchUpStates

\* Taking the members in ids out of the groups leaves everything else, but
\* for the groups whose leader is one of them.
LEMMA Released ==
    ASSUME TypeOK, NEW ids, NEW A, A = release_admission(ids)
    PROVE  /\ A \in Seq(Group) /\ DOMAIN A = DOMAIN active /\ Len(A) = Len(active)
           /\ \A g \in DOMAIN active :
                 /\ A[g].leader = active[g].leader /\ A[g].lockKeys = active[g].lockKeys
                 /\ ToSet(A[g].members) = ToSet(active[g].members) \ ids
                 /\ IsInjective(active[g].members) => IsInjective(A[g].members)
                 /\ A[g].valid <=> (active[g].valid /\ active[g].leader \notin ids)
<1> DEFINE M(g) == Only(active[g].members, Ids \ ids)
           V(g) == active[g].valid /\ active[g].leader \notin ids
<1>1. A = [g \in DOMAIN active |-> [active[g] EXCEPT !.members = M(g), !.valid = V(g)]]
  BY DEF release_admission
<1>2. \A g \in DOMAIN active : /\ M(g) \in Seq(Ids) /\ ToSet(M(g)) = ToSet(active[g].members) \ ids
                               /\ IsInjective(active[g].members) => IsInjective(M(g))
  <2> SUFFICES ASSUME NEW g \in DOMAIN active
               PROVE  /\ M(g) \in Seq(Ids) /\ ToSet(M(g)) = ToSet(active[g].members) \ ids
                      /\ IsInjective(active[g].members) => IsInjective(M(g))
    OBVIOUS
  <2>1. active[g].members \in Seq(Ids) /\ ToSet(active[g].members) \subseteq Ids
    BY Typed
  <2>2. /\ M(g) \in Seq(Ids) /\ ToSet(M(g)) = ToSet(active[g].members) \cap (Ids \ ids)
        /\ IsInjective(active[g].members) => IsInjective(M(g))
    BY <2>1, OnlyKeeps
  <2> QED
    BY <2>1, <2>2
<1>3. \A g \in DOMAIN active : V(g) \in BOOLEAN
  BY Typed
<1>4. \A g \in DOMAIN active : active[g] \in Group
  BY Typed
<1> HIDE DEF M
<1>5. \A g \in DOMAIN active :
         /\ A[g] \in Group
         /\ A[g].leader = active[g].leader /\ A[g].lockKeys = active[g].lockKeys
         /\ A[g].members = M(g) /\ A[g].valid = V(g)
  <2> SUFFICES ASSUME NEW g \in DOMAIN active
               PROVE  /\ A[g] \in Group
                      /\ A[g].leader = active[g].leader /\ A[g].lockKeys = active[g].lockKeys
                      /\ A[g].members = M(g) /\ A[g].valid = V(g)
    OBVIOUS
  <2> DEFINE v == V(g)
  <2>1. v \in BOOLEAN
    BY <1>3
  <2>2. A[g] = [active[g] EXCEPT !.members = M(g), !.valid = v]
    BY <1>1
  <2> HIDE DEF v
  <2>3. /\ A[g] \in Group
        /\ A[g].leader = active[g].leader /\ A[g].lockKeys = active[g].lockKeys
        /\ A[g].members = M(g) /\ A[g].valid = v
    BY <2>1, <2>2, <1>2, <1>4 DEF Group
  <2> QED
    BY <2>3 DEF v
<1>6. DOMAIN A = 1..Len(active) /\ DOMAIN active = 1..Len(active) /\ Len(active) \in Nat
  BY <1>1, Typed
<1>7. A \in [1..Len(active) -> Group]
  BY <1>1, <1>5, <1>6
<1>8. A \in Seq(Group) /\ Len(A) = Len(active)
  BY <1>6, <1>7, SeqDef
<1> QED
  BY <1>2, <1>5, <1>6, <1>8

-----------------------------------------------------------------------------
(* What keeps the parts of the invariant.                                  *)

\* Names are kept where bindings stay what they are.
LEMMA KeepNames ==
    ASSUME NamesKept, link' = link,
           \A id \in Registered' : id \in Registered /\ regs'[id].binding = regs[id].binding
    PROVE  NamesKept'
<1>1. \A b \in Bindings : NameOf[link'[b]] = CorpusName(b)
  BY DEF NamesKept
<1>2. \A id \in Registered' : NameOf[id[2]] = CorpusName(regs'[id].binding)
  BY DEF NamesKept
<1> QED
  BY <1>1, <1>2 DEF NamesKept

\* Outside a restart no two registrations of a source resolve to one key.
LEMMA NoTwins ==
    ASSUME TwinsSeeded, pump \notin {"down", "refresh"},
           NEW i \in Registered, NEW j \in Registered,
           i[1] = j[1], link[regs[i].binding] = link[regs[j].binding]
    PROVE  i = j
BY DEF TwinsSeeded

\* Where none do, nothing is to be shown of two.
LEMMA TwinsFrom ==
    ASSUME \A i, j \in Registered' :
              i[1] = j[1] /\ link'[regs'[i].binding] = link'[regs'[j].binding] => i = j
    PROVE  TwinsSeeded'
BY DEF TwinsSeeded

\* The two are kept where the registry, the roots and the pump's restart are.
LEMMA KeepTwins ==
    ASSUME TwinsSeeded, link' = link, pump \in {"down", "refresh"} => pump' \in {"down", "refresh"},
           \A id \in Registered' : /\ id \in Registered
                                   /\ regs'[id].binding = regs[id].binding
                                   /\ regs[id].catchUp = "Done" => regs'[id].catchUp = "Done"
                                   /\ regs[id].reconciled => regs'[id].reconciled
    PROVE  TwinsSeeded'
<1> SUFFICES ASSUME NEW i \in Registered', NEW j \in Registered', i # j, i[1] = j[1],
                    link'[regs'[i].binding] = link'[regs'[j].binding]
             PROVE  /\ pump' \in {"down", "refresh"}
                    /\ i[2] = link'[regs'[i].binding] \/ j[2] = link'[regs'[j].binding]
                    /\ i[2] = link'[regs'[i].binding] => regs'[i].catchUp = "Done" /\ regs'[i].reconciled
  BY DEF TwinsSeeded
<1>1. i \in Registered /\ j \in Registered /\ link[regs[i].binding] = link[regs[j].binding]
  OBVIOUS
<1>2. /\ pump \in {"down", "refresh"}
      /\ i[2] = link[regs[i].binding] \/ j[2] = link[regs[j].binding]
      /\ i[2] = link[regs[i].binding] => regs[i].catchUp = "Done" /\ regs[i].reconciled
  BY <1>1 DEF TwinsSeeded
<1> QED
  BY <1>1, <1>2

\* The queue is kept where the Queued registrations are.
LEMMA KeepQueue ==
    ASSUME QueueSet, queue' = queue,
           \A id : (id \in Registered' /\ regs'[id].catchUp = "Queued")
                   <=> (id \in Registered /\ regs[id].catchUp = "Queued")
    PROVE  QueueSet'
<1>1. {id \in Registered' : regs'[id].catchUp = "Queued"} = {id \in Registered : regs[id].catchUp = "Queued"}
  OBVIOUS
<1> QED
  BY <1>1 DEF QueueSet

\* A new queue of the Queued registrations.
LEMMA QueueFrom ==
    ASSUME IsInjective(queue'),
           \A id : id \in ToSet(queue') <=> (id \in Registered' /\ regs'[id].catchUp = "Queued")
    PROVE  QueueSet'
<1>1. ToSet(queue') = {id \in Registered' : regs'[id].catchUp = "Queued"}
  OBVIOUS
<1> QED
  BY <1>1 DEF QueueSet

\* The groups are kept where their members stay in flight.
LEMMA KeepMembers ==
    ASSUME MembersInFlight, active' = active,
           \A id \in Registered : regs[id].catchUp = "InFlight" =>
              id \in Registered' /\ regs'[id].catchUp = "InFlight"
    PROVE  MembersInFlight'
<1> SUFFICES ASSUME NEW g \in DOMAIN active
             PROVE  /\ \A m \in ToSet(active[g].members) : m \in Registered' /\ regs'[m].catchUp = "InFlight"
                    /\ IsInjective(active[g].members)
                    /\ \A h \in DOMAIN active : h # g => ToSet(active[g].members) \cap ToSet(active[h].members) = {}
                    /\ active[g].valid => active[g].leader \in ToSet(active[g].members)
  BY DEF MembersInFlight
<1> QED
  BY DEF MembersInFlight

\* So they are where the members that do not are released.
LEMMA ReleaseMembers ==
    ASSUME TypeOK, MembersInFlight, NEW ids, active' = release_admission(ids),
           \A id \in Registered \ ids : regs[id].catchUp = "InFlight" =>
              id \in Registered' /\ regs'[id].catchUp = "InFlight"
    PROVE  MembersInFlight'
<1> DEFINE A == active'
<1>1. /\ DOMAIN A = DOMAIN active
      /\ \A g \in DOMAIN active :
                 /\ A[g].leader = active[g].leader
                 /\ ToSet(A[g].members) = ToSet(active[g].members) \ ids
                 /\ IsInjective(active[g].members) => IsInjective(A[g].members)
                 /\ A[g].valid <=> (active[g].valid /\ active[g].leader \notin ids)
  BY Released
<1> SUFFICES ASSUME NEW g \in DOMAIN active
             PROVE  /\ \A m \in ToSet(A[g].members) : m \in Registered' /\ regs'[m].catchUp = "InFlight"
                    /\ IsInjective(A[g].members)
                    /\ \A h \in DOMAIN active : h # g => ToSet(A[g].members) \cap ToSet(A[h].members) = {}
                    /\ A[g].valid => A[g].leader \in ToSet(A[g].members)
  BY <1>1 DEF MembersInFlight
<1> HIDE DEF A
<1>2. /\ \A m \in ToSet(active[g].members) : m \in Registered /\ regs[m].catchUp = "InFlight"
      /\ IsInjective(active[g].members)
      /\ \A h \in DOMAIN active : h # g => ToSet(active[g].members) \cap ToSet(active[h].members) = {}
      /\ active[g].valid => active[g].leader \in ToSet(active[g].members)
  BY DEF MembersInFlight
<1>3. \A m \in ToSet(A[g].members) : m \in Registered' /\ regs'[m].catchUp = "InFlight"
  BY <1>1, <1>2
<1>4. IsInjective(A[g].members)
  BY <1>1, <1>2
<1>5. \A h \in DOMAIN active : h # g => ToSet(A[g].members) \cap ToSet(A[h].members) = {}
  BY <1>1, <1>2
<1>6. A[g].valid => A[g].leader \in ToSet(A[g].members)
  BY <1>1, <1>2
<1> QED
  BY <1>3, <1>4, <1>5, <1>6

\* Every task keeps its group where the groups keep their leaders.
LEMMA KeepGroups ==
    ASSUME GroupPerTask, task' = task, DOMAIN active' = DOMAIN active,
           \A g \in DOMAIN active : active'[g].leader = active[g].leader
    PROVE  GroupPerTask'
<1>1. PICK f \in Bijection(Busy, DOMAIN active) : \A t \in Busy : active[f[t]].leader = task[t]
  BY DEF GroupPerTask
<1>2. Busy' = Busy
  BY DEF Busy
<1>3. \A t \in Busy : f[t] \in DOMAIN active
  BY DEF Bijection, Injection
<1>4. \A t \in Busy : active'[f[t]].leader = task'[t]
  BY <1>1, <1>3
<1>5. f \in Bijection(Busy', DOMAIN active')
  BY <1>2
<1> QED
  BY <1>2, <1>4, <1>5, Zenon DEF GroupPerTask

\* Before a retarget: registrations keep their keys, and groups theirs.
LEMMA KeepRoots ==
    ASSUME RootsKept, link' = link, retargets' = retargets,
           retargets = 0 => \A id \in Registered' :
              /\ id[2] = FirstKey[regs'[id].binding]
              /\ id[2] \in regs'[id].lockKeys,
           DOMAIN active' = DOMAIN active,
           \A g \in DOMAIN active : /\ active'[g].leader = active[g].leader
                                    /\ active'[g].lockKeys = active[g].lockKeys
                                    /\ ToSet(active'[g].members) \subseteq ToSet(active[g].members)
    PROVE  RootsKept'
<1> SUFFICES ASSUME retargets = 0
             PROVE  /\ link = FirstKey
                    /\ \A id \in Registered' :
                          /\ id[2] = FirstKey[regs'[id].binding]
                          /\ id[2] \in regs'[id].lockKeys
                    /\ \A g \in DOMAIN active :
                          /\ active'[g].leader[2] \in active'[g].lockKeys
                          /\ \A m \in ToSet(active'[g].members) : m[2] = active'[g].leader[2]
                          /\ \A h \in DOMAIN active : h # g => active'[g].lockKeys \cap active'[h].lockKeys = {}
  BY DEF RootsKept
<1>1. link = FirstKey
  BY DEF RootsKept
<1>2. \A g \in DOMAIN active :
             /\ active[g].leader[2] \in active[g].lockKeys
             /\ \A m \in ToSet(active[g].members) : m[2] = active[g].leader[2]
             /\ \A h \in DOMAIN active : h # g => active[g].lockKeys \cap active[h].lockKeys = {}
  BY DEF RootsKept
<1>3. \A g \in DOMAIN active :
             /\ active'[g].leader[2] \in active'[g].lockKeys
             /\ \A m \in ToSet(active'[g].members) : m[2] = active'[g].leader[2]
             /\ \A h \in DOMAIN active : h # g => active'[g].lockKeys \cap active'[h].lockKeys = {}
  <2> SUFFICES ASSUME NEW g \in DOMAIN active
               PROVE  /\ active'[g].leader[2] \in active'[g].lockKeys
                      /\ \A m \in ToSet(active'[g].members) : m[2] = active'[g].leader[2]
                      /\ \A h \in DOMAIN active : h # g => active'[g].lockKeys \cap active'[h].lockKeys = {}
    OBVIOUS
  <2>1. active'[g].leader = active[g].leader /\ active'[g].lockKeys = active[g].lockKeys
    OBVIOUS
  <2>2. \A m \in ToSet(active'[g].members) : m[2] = active'[g].leader[2]
    <3> SUFFICES ASSUME NEW m \in ToSet(active'[g].members) PROVE m[2] = active[g].leader[2]
      BY <2>1
    <3>1. m \in ToSet(active[g].members)
      OBVIOUS
    <3> QED
      BY <3>1, <1>2
  <2>3. \A h \in DOMAIN active : h # g => active'[g].lockKeys \cap active'[h].lockKeys = {}
    BY <1>2, <2>1
  <2> QED
    BY <1>2, <2>1, <2>2, <2>3
<1> QED
  BY <1>1, <1>3

\* The pass of a registration is kept where nothing new is in flight.
LEMMA KeepPasses ==
    ASSUME TypeOK, PassMembers, NEW ids, retargets' = retargets, task' = task,
           DOMAIN active' = DOMAIN active,
           \A g \in DOMAIN active : /\ active'[g].leader = active[g].leader
                                    /\ ToSet(active'[g].members) = ToSet(active[g].members) \ ids,
           \A id \in Ids : passOf'[id] = IF id \in ids THEN 0 ELSE passOf[id],
           retargets = 0 => \A id \in Registered' : regs'[id].catchUp = "InFlight" =>
              id \in Registered \ ids /\ regs[id].catchUp = "InFlight"
    PROVE  PassMembers'
<1> SUFFICES ASSUME retargets = 0
             PROVE  /\ \A id \in Ids : passOf'[id] # 0 => \E g \in DOMAIN active : id \in ToSet(active'[g].members)
                    /\ \A g \in DOMAIN active : \A m \in ToSet(active'[g].members) :
                          passOf'[m] # 0 /\ task[passOf'[m]] = active'[g].leader
                    /\ \A id \in Registered' : regs'[id].catchUp = "InFlight" => passOf'[id] # 0
  BY DEF PassMembers
<1>1. /\ \A id \in Ids : passOf[id] # 0 => \E g \in DOMAIN active : id \in ToSet(active[g].members)
      /\ \A g \in DOMAIN active : \A m \in ToSet(active[g].members) :
             passOf[m] # 0 /\ task[passOf[m]] = active[g].leader
      /\ \A id \in Registered : regs[id].catchUp = "InFlight" => passOf[id] # 0
  BY DEF PassMembers
<1>2. \A id \in Ids : passOf'[id] # 0 => \E g \in DOMAIN active : id \in ToSet(active'[g].members)
  BY <1>1
<1>3. \A g \in DOMAIN active : \A m \in ToSet(active'[g].members) :
                          passOf'[m] # 0 /\ task[passOf'[m]] = active'[g].leader
  <2> SUFFICES ASSUME NEW g \in DOMAIN active, NEW m \in ToSet(active'[g].members)
               PROVE  passOf'[m] # 0 /\ task[passOf'[m]] = active'[g].leader
    OBVIOUS
  <2>1. m \in ToSet(active[g].members) /\ m \notin ids
    OBVIOUS
  <2>2. m \in Ids
    BY <2>1, Typed
  <2>3. passOf'[m] = passOf[m]
    BY <2>1, <2>2
  <2>4. passOf[m] # 0 /\ task[passOf[m]] = active[g].leader
    BY <1>1, <2>1
  <2> QED
    BY <2>3, <2>4
<1>4. \A id \in Registered' : regs'[id].catchUp = "InFlight" => passOf'[id] # 0
  <2>1. Registered \subseteq Ids
    BY Typed
  <2> QED
    BY <1>1, <2>1
<1> QED
  BY <1>2, <1>3, <1>4

\* A registration a cold-start waiter still waits for.
WaitedFor(id) ==
    /\ id \in Registered
    /\ ~regs[id].reconciled /\ ~regs[id].failed
    /\ regs[id].catchUp \in {"Queued", "InFlight"}

\* A step that leaves, for each such registration, one of its source to wait
\* for, strands no sleeping waiter.
LEMMA WakeupFrom ==
    ASSUME NoLostWakeup, waiter' = waiter,
           \A id : WaitedFor(id) => \E j \in Registered' : /\ j[1] = id[1]
                                                            /\ ~regs'[j].reconciled /\ ~regs'[j].failed
                                                            /\ regs'[j].catchUp \in {"Queued", "InFlight"}
    PROVE  NoLostWakeup'
<1> SUFFICES ASSUME waiter.at = "waiting", ~waiter.woken
             PROVE  first_reconcile_pending(waiter.source)'
  BY DEF NoLostWakeup
<1>1. first_reconcile_pending(waiter.source)
  BY DEF NoLostWakeup
<1>2. PICK id \in Registered : WaitedFor(id) /\ id[1] = waiter.source
  BY <1>1 DEF first_reconcile_pending, WaitedFor
<1> QED
  BY <1>2 DEF first_reconcile_pending

\* A notified waiter is woken.
LEMMA WakeupNotified ==
    ASSUME TypeOK, NotifySettled
    PROVE  NoLostWakeup'
<1>1. waiter' = [waiter EXCEPT !.woken = @ \/ waiter.at # "idle"]
  BY DEF NotifySettled
<1>2. waiter.at \in {"idle", "armed", "waiting"} /\ waiter.woken \in BOOLEAN
  BY DEF TypeOK
<1> DEFINE w == waiter.woken \/ waiter.at # "idle"
<1>3. w \in BOOLEAN /\ waiter' = [waiter EXCEPT !.woken = w]
  BY <1>1, <1>2
<1> HIDE DEF w
<1>4. waiter'.at = waiter.at /\ waiter'.woken = w
  BY <1>3 DEF TypeOK
<1> QED
  BY <1>4 DEF NoLostWakeup, w

\* The type of a notified waiter.
LEMMA NotifiedType ==
    ASSUME TypeOK, NotifySettled
    PROVE  waiter' \in [at : {"idle", "armed", "waiting"}, woken : BOOLEAN, source : Sources \cup {None}]
<1> DEFINE w == waiter.woken \/ waiter.at # "idle"
<1>1. w \in BOOLEAN /\ waiter' = [waiter EXCEPT !.woken = w]
  BY DEF NotifySettled, TypeOK
<1> HIDE DEF w
<1> QED
  BY <1>1 DEF TypeOK

-----------------------------------------------------------------------------
(* The steps that leave the ledger alone.                                  *)

\* The invariant holds initially.
LEMMA InitInv ==
    ASSUME Init
    PROVE  IInv
<1>0. Registered = {} /\ queue = <<>> /\ active = <<>> /\ DOMAIN active = {}
  BY DEF Init, Registered
<1>1. TypeOK
  <2>1. waiter \in [at : {"idle", "armed", "waiting"}, woken : BOOLEAN, source : Sources \cup {None}]
    BY DEF Init, NoWait
  <2>2. task \in [Tasks -> Ids \cup {None}] /\ passOf \in [Ids -> Tasks \cup {0}]
    BY DEF Init
  <2>3. Len(active) <= CatchUpLimit
    BY <1>0, RegistryAssumption
  <2>4. changes \in 0..MaxChanges /\ retargets \in 0..MaxRetargets
    BY RegistryAssumption DEF Init
  <2>5. link \in [Bindings -> Keys]
    BY RegistryAssumption DEF Init
  <2>6. queue \in Seq(Ids) /\ active \in Seq(Group)
    BY <1>0
  <2> QED
    BY <1>0, <2>1, <2>2, <2>3, <2>4, <2>5, <2>6 DEF TypeOK, Registered, Init
<1>2. NamesKept
  BY <1>0 DEF NamesKept, Init, CorpusName
<1>3. TwinsSeeded /\ MembersInFlight
  BY <1>0 DEF TwinsSeeded, MembersInFlight
<1>4. QueueSet
  <2>1. DOMAIN queue = {}
    BY <1>0
  <2> QED
    BY <1>0, <2>1 DEF QueueSet, IsInjective, ToSet
<1>5. GroupPerTask
  <2> DEFINE f == [t \in {} |-> 0]
  <2>1. Busy = {}
    BY DEF Busy, Init
  <2>2. f \in Bijection(Busy, DOMAIN active)
    BY <2>1, <1>0 DEF Bijection, Injection, Surjection, IsInjective
  <2> QED
    BY <2>1, <2>2 DEF GroupPerTask
<1>6. RootsKept /\ PassMembers
  BY <1>0 DEF RootsKept, PassMembers, Init
<1>7. EventCovered /\ NoLostWakeup
  BY DEF EventCovered, NoLostWakeup, Init, NoWait
<1> QED
  BY <1>1, <1>2, <1>3, <1>4, <1>5, <1>6, <1>7 DEF IInv

\* Neither do the steps of the waiter disturb it, nor the moves of the pump.
LEMMA LedgerKept ==
    ASSUME IInv, UNCHANGED <<regs, queue, active, task, link, bounds, ghosts>>,
           pump \in {"down", "refresh"} => pump' \in {"down", "refresh"}
    PROVE  /\ NamesKept' /\ TwinsSeeded' /\ QueueSet' /\ MembersInFlight' /\ GroupPerTask'
           /\ RootsKept' /\ PassMembers' /\ EventCovered'
<1>0. Registered' = Registered
  BY DEF Registered
<1>1. NamesKept'
  BY <1>0, KeepNames DEF IInv
<1>2. TwinsSeeded'
  BY <1>0, KeepTwins DEF IInv
<1>3. QueueSet'
  BY <1>0 DEF IInv, QueueSet
<1>4. MembersInFlight'
  BY <1>0 DEF IInv, MembersInFlight
<1>5. GroupPerTask'
  BY KeepGroups DEF IInv
<1>6. RootsKept'
  BY <1>0 DEF IInv, RootsKept, bounds
<1>7. PassMembers'
  BY <1>0 DEF IInv, PassMembers, bounds, ghosts
<1>8. EventCovered'
  BY <1>0 DEF IInv, EventCovered, bounds, ghosts
<1> QED
  BY <1>1, <1>2, <1>3, <1>4, <1>5, <1>6, <1>7, <1>8

\* The waiter keeps its promise where neither it nor the ledger changes.
LEMMA WaiterKept ==
    ASSUME NoLostWakeup, UNCHANGED <<regs, waiter>>
    PROVE  NoLostWakeup'
BY DEF NoLostWakeup, first_reconcile_pending, Registered

\* The pump moves on without touching the ledger.
LEMMA PumpMoves ==
    ASSUME IInv, PumpDies \/ StartTick \/ WakePump \/ BackstopReconcile
    PROVE  IInv'
<1>1. UNCHANGED <<regs, queue, active, task, link, waiter, bounds, ghosts>>
  BY DEF PumpDies, StartTick, WakePump, BackstopReconcile
<1>2. /\ signal' \in BOOLEAN
      /\ pump' \in {"down", "parked", "reload", "refresh", "admit"}
      /\ pump \in {"down", "refresh"} => pump' \in {"down", "refresh"}
  BY DEF PumpDies, StartTick, WakePump, BackstopReconcile, IInv, TypeOK
<1>3. TypeOK'
  BY <1>1, <1>2 DEF IInv, TypeOK, bounds, ghosts
<1> QED
  BY <1>1, <1>2, <1>3, LedgerKept, WaiterKept DEF IInv

\* The waiter's own steps.  It goes to sleep only where its source has a
\* registration to wait for, or where it has been woken already.
LEMMA WaiterMoves ==
    ASSUME IInv, (\E s \in Waited : ArmWait(s)) \/ CheckWait \/ WokenWait \/ TimeoutWait
    PROVE  IInv'
<1>1. UNCHANGED <<regs, queue, active, task, signal, pump, link, bounds, ghosts>>
  BY DEF ArmWait, CheckWait, WokenWait, TimeoutWait, core
<1> DEFINE W == [at : {"idle", "armed", "waiting"}, woken : BOOLEAN, source : Sources \cup {None}]
<1>0. waiter \in W /\ NoWait \in W /\ NoWait.at = "idle"
  BY DEF IInv, TypeOK, NoWait
<1>2. waiter' \in W /\ (waiter'.at = "waiting" => first_reconcile_pending(waiter'.source))
  <2>1. CASE \E s \in Waited : ArmWait(s)
    <3>1. PICK s \in Waited : waiter' = [at |-> "armed", woken |-> FALSE, source |-> s]
      BY <2>1 DEF ArmWait
    <3> QED
      BY <3>1, RegistryAssumption
  <2>2. CASE CheckWait /\ first_reconcile_pending(waiter.source)
    <3>1. waiter' = [waiter EXCEPT !.at = "waiting"]
      BY <2>2 DEF CheckWait
    <3>2. waiter' \in W /\ waiter'.source = waiter.source
      BY <3>1, <1>0
    <3> QED
      BY <3>2, <2>2
  <2>3. CASE waiter' = NoWait
    BY <2>3, <1>0
  <2>4. CASE WokenWait
    <3>1. waiter' = [waiter EXCEPT !.at = "armed", !.woken = FALSE]
      BY <2>4 DEF WokenWait
    <3>2. waiter' \in W /\ waiter'.at = "armed"
      BY <3>1, <1>0
    <3> QED
      BY <3>2
  <2> QED
    BY <2>1, <2>2, <2>3, <2>4 DEF CheckWait, TimeoutWait
<1>3. TypeOK'
  BY <1>1, <1>2 DEF IInv, TypeOK, bounds, ghosts
<1>5. NoLostWakeup'
  BY <1>1, <1>2 DEF NoLostWakeup, first_reconcile_pending, Registered
<1> QED
  BY <1>1, <1>3, <1>5, LedgerKept DEF IInv

\* A root is retargeted on disk.
LEMMA RetargetStep ==
    ASSUME IInv, NEW b \in Bindings, NEW k \in Keys, Retarget(b, k)
    PROVE  IInv'
<1>1. /\ UNCHANGED <<regs, queue, active, task, signal, pump, waiter, changes, passOf, owed>>
      /\ link' = [link EXCEPT ![b] = k] /\ retargets < MaxRetargets /\ retargets' = retargets + 1
      /\ NameOf[k] = NameOf[link[b]]
      /\ \A i, j \in Registered :
            regs[i].binding = b /\ i[1] = j[1] /\ i # j => regs[j].binding # b /\ link[regs[j].binding] # k
  BY DEF Retarget, core, ghosts
<1>2. Registered' = Registered
  BY <1>1 DEF Registered
<1>3. link \in [Bindings -> Keys] /\ retargets \in Nat
  BY DEF IInv, TypeOK
<1>4. TypeOK'
  <2>1. link' \in [Bindings -> Keys] /\ retargets' \in 0..MaxRetargets
    BY <1>1, <1>3, RegistryAssumption
  <2> QED
    BY <1>1, <2>1 DEF IInv, TypeOK
<1>5. NamesKept'
  <2>1. \A c \in Bindings : NameOf[link'[c]] = CorpusName(c)
    BY <1>1, <1>3 DEF IInv, NamesKept
  <2> QED
    BY <1>1, <1>2, <2>1 DEF IInv, NamesKept
<1>6. TwinsSeeded'
  <2> SUFFICES ASSUME NEW i \in Registered, NEW j \in Registered, i # j, i[1] = j[1],
                      link'[regs[i].binding] = link'[regs[j].binding]
               PROVE  /\ pump \in {"down", "refresh"}
                      /\ i[2] = link'[regs[i].binding] \/ j[2] = link'[regs[j].binding]
                      /\ i[2] = link'[regs[i].binding] => regs[i].catchUp = "Done" /\ regs[i].reconciled
    BY <1>1, <1>2 DEF TwinsSeeded
  <2>1. regs[i].binding \in Bindings /\ regs[j].binding \in Bindings
    BY Typed, RegFields DEF IInv
  <2>2. \A c \in Bindings : link'[c] = IF c = b THEN k ELSE link[c]
    BY <1>1, <1>3
  <2>3. regs[i].binding # b /\ regs[j].binding # b
    BY <1>1, <2>1, <2>2
  <2>4. link'[regs[i].binding] = link[regs[i].binding] /\ link'[regs[j].binding] = link[regs[j].binding]
    BY <2>1, <2>2, <2>3
  <2>5. /\ pump \in {"down", "refresh"}
        /\ i[2] = link[regs[i].binding] \/ j[2] = link[regs[j].binding]
        /\ i[2] = link[regs[i].binding] => regs[i].catchUp = "Done" /\ regs[i].reconciled
    BY <2>4 DEF IInv, TwinsSeeded
  <2> QED
    BY <2>4, <2>5
<1>7. QueueSet' /\ MembersInFlight' /\ GroupPerTask'
  BY <1>1, <1>2, KeepGroups DEF IInv, QueueSet, MembersInFlight
<1>8. RootsKept' /\ PassMembers' /\ EventCovered'
  <2>1. retargets' # 0
    BY <1>1, <1>3
  <2> QED
    BY <2>1 DEF RootsKept, PassMembers, EventCovered
<1>9. NoLostWakeup'
  BY <1>1, WaiterKept DEF IInv
<1> QED
  BY <1>4, <1>5, <1>6, <1>7, <1>8, <1>9 DEF IInv

-----------------------------------------------------------------------------
(* Events and ticks.                                                       *)

\* The queue after registrations that were Done are due again.
LEMMA DueQueue ==
    ASSUME TypeOK, QueueSet, NEW ids \in SUBSET Registered, NEW q, q = DueOrder(ids)
    PROVE  /\ q \in Seq(Ids) /\ IsInjective(q)
           /\ \A id : id \in ToSet(q) <=> /\ id \in Registered
                                          /\ \/ regs[id].catchUp = "Queued"
                                             \/ id \in ids /\ regs[id].catchUp = "Done"
<1> DEFINE D == {id \in ids : regs[id].catchUp = "Done"}
<1>1. D \in SUBSET Ids
  BY Typed
<1> DEFINE d == SetToSeq(D)
<1>2. d \in Seq(Ids) /\ ToSet(d) = D /\ IsInjective(d)
  BY <1>1, FinitelyMany, ListOf
<1>3. q = queue \o d
  BY DEF DueOrder
<1>4. queue \in Seq(Ids) /\ IsInjective(queue) /\ ToSet(queue) \cap D = {}
  BY Typed DEF QueueSet
<1> HIDE DEF d
<1>5. q \in Seq(Ids) /\ ToSet(q) = ToSet(queue) \cup D /\ IsInjective(q)
  BY <1>2, <1>3, <1>4, ConcatSet
<1> QED
  BY <1>5 DEF QueueSet

\* What Dirtied leaves of a registration.
LEMMA DirtiedFields ==
    ASSUME NEW r \in Registration, NEW q,
           \/ q = [Dirtied(r) EXCEPT !.dirty = TRUE]
           \/ q = [Dirtied(r) EXCEPT !.retry = FALSE]
    PROVE  /\ q \in Registration
           /\ q.binding = r.binding /\ q.lockKeys = r.lockKeys
           /\ q.reconciled = r.reconciled /\ q.failed = r.failed
           /\ r.dirty => q.dirty
           /\ q = [Dirtied(r) EXCEPT !.dirty = TRUE] => q.dirty
           /\ q.catchUp = IF r.catchUp = "Done" THEN "Queued" ELSE r.catchUp
<1> DEFINE c == IF r.catchUp = "Done" THEN "Queued" ELSE r.catchUp
<1>1. Dirtied(r) = [r EXCEPT !.catchUp = c] /\ c \in CatchUpStates
  BY RegFields DEF Dirtied, CatchUpStates
<1> HIDE DEF c
<1>2. Dirtied(r) \in Registration /\ Dirtied(r).catchUp = c
  BY <1>1 DEF Registration
<1>3. /\ q \in Registration
      /\ q.binding = r.binding /\ q.lockKeys = r.lockKeys
      /\ q.reconciled = r.reconciled /\ q.failed = r.failed
      /\ q.catchUp = c
      /\ q.dirty = TRUE \/ q.dirty = r.dirty
  BY <1>1, <1>2 DEF Registration
<1>4. q = [Dirtied(r) EXCEPT !.dirty = TRUE] => q.dirty
  BY <1>2 DEF Registration
<1> QED
  BY <1>3, <1>4 DEF c

\* Marking registrations due while the pump has no restart ahead of it.
LEMMA Marked ==
    ASSUME IInv, pump \notin {"down", "refresh"}, NEW ids \in SUBSET Registered,
           Registered' = Registered,
           \A i \in Registered :
              /\ regs'[i] \in Registration
              /\ regs'[i].binding = regs[i].binding /\ regs'[i].lockKeys = regs[i].lockKeys
              /\ regs'[i].reconciled = regs[i].reconciled /\ regs'[i].failed = regs[i].failed
              /\ regs[i].dirty => regs'[i].dirty
              /\ regs'[i].catchUp = IF i \in ids /\ regs[i].catchUp = "Done" THEN "Queued"
                                    ELSE regs[i].catchUp,
           queue' = DueOrder(ids), signal' = TRUE,
           pump' \in {"parked", "refresh"},
           UNCHANGED <<active, task, link, waiter, bounds, passOf>>,
           \A i \in owed' : i \in owed \/ (i \in ids /\ regs'[i].dirty)
    PROVE  IInv'
<1>0. /\ queue' \in Seq(Ids) /\ IsInjective(queue')
      /\ \A id : id \in ToSet(queue') <=> /\ id \in Registered
                                          /\ \/ regs[id].catchUp = "Queued"
                                             \/ id \in ids /\ regs[id].catchUp = "Done"
  BY DueQueue DEF IInv
<1>a. \A i \in Registered : i \in Ids /\ regs[i].catchUp \in CatchUpStates
  BY Typed, RegFields DEF IInv
<1>1. TypeOK'
  <2>1. DOMAIN regs' = DOMAIN regs /\ DOMAIN regs \subseteq Ids
    BY Typed DEF IInv, Registered
  <2>2. \A i \in DOMAIN regs' : regs'[i] \in Registration
    BY DEF Registered
  <2>3. owed' \subseteq Ids
    BY <1>a DEF IInv, TypeOK
  <2> QED
    BY <1>0, <2>1, <2>2, <2>3 DEF IInv, TypeOK, bounds
<1>2. NamesKept'
  BY KeepNames DEF IInv
<1>3. TwinsSeeded'
  <2>1. \A i, j \in Registered' :
           i[1] = j[1] /\ link'[regs'[i].binding] = link'[regs'[j].binding] => i = j
    BY NoTwins DEF IInv
  <2> QED
    BY <2>1, TwinsFrom
<1>4. QueueSet'
  <2>1. \A id : id \in ToSet(queue') <=> (id \in Registered' /\ regs'[id].catchUp = "Queued")
    <3> SUFFICES ASSUME NEW id \in Registered
                 PROVE  id \in ToSet(queue') <=> regs'[id].catchUp = "Queued"
      BY <1>0
    <3> QED
      BY <1>0
  <2> QED
    BY <1>0, <2>1, QueueFrom
<1>5. MembersInFlight'
  <2>1. \A id \in Registered : regs[id].catchUp = "InFlight" => regs'[id].catchUp = "InFlight"
    OBVIOUS
  <2> QED
    BY <2>1, KeepMembers DEF IInv
<1>6. GroupPerTask'
  BY KeepGroups DEF IInv
<1>7. RootsKept'
  <2>1. retargets = 0 => \A id \in Registered' : /\ id[2] = FirstKey[regs'[id].binding]
                                                 /\ id[2] \in regs'[id].lockKeys
    BY DEF IInv, RootsKept
  <2>2. retargets' = retargets
    BY DEF bounds
  <2> QED
    BY <2>1, <2>2, KeepRoots DEF IInv
<1>8. PassMembers'
  <2> DEFINE none == {}
  <2>1. retargets' = retargets
    BY DEF bounds
  <2>2. \A id \in Registered' : regs'[id].catchUp = "InFlight" =>
           id \in Registered \ none /\ regs[id].catchUp = "InFlight"
    OBVIOUS
  <2>3. \A id \in Ids : passOf'[id] = IF id \in none THEN 0 ELSE passOf[id]
    OBVIOUS
  <2>4. \A g \in DOMAIN active : /\ active'[g].leader = active[g].leader
                                 /\ ToSet(active'[g].members) = ToSet(active[g].members) \ none
    OBVIOUS
  <2>5. DOMAIN active' = DOMAIN active
    OBVIOUS
  <2> HIDE DEF none
  <2> QED
    BY <2>1, <2>2, <2>3, <2>4, <2>5, KeepPasses DEF IInv
<1>9. EventCovered'
  <2> SUFFICES ASSUME retargets = 0, NEW id \in owed'
               PROVE  /\ id \in Registered
                      /\ \/ regs'[id].catchUp = "Queued"
                         \/ regs'[id].catchUp = "InFlight" /\ regs'[id].dirty
    BY DEF EventCovered, bounds
  <2>1. CASE id \in owed
    BY <2>1 DEF IInv, EventCovered
  <2>2. CASE id \in ids /\ regs'[id].dirty
    BY <2>2, <1>a DEF CatchUpStates
  <2> QED
    BY <2>1, <2>2
<1>10. NoLostWakeup'
  <2>1. \A id : WaitedFor(id) => /\ id \in Registered' /\ ~regs'[id].reconciled /\ ~regs'[id].failed
                                 /\ regs'[id].catchUp \in {"Queued", "InFlight"}
    BY DEF WaitedFor
  <2> QED
    BY <2>1, WakeupFrom DEF IInv
<1> QED
  BY <1>1, <1>2, <1>3, <1>4, <1>5, <1>6, <1>7, <1>8, <1>9, <1>10 DEF IInv

\* A recorded event.
LEMMA RecordStep ==
    ASSUME IInv, NEW e \in Ids, record_pending(e)
    PROVE  IInv'
<1> DEFINE ids == {e} \cap Registered
<1>1. /\ pump = "parked" /\ pump' = pump /\ queue' = DueOrder(ids) /\ signal' = TRUE
      /\ owed' = owed \cup ids
      /\ UNCHANGED <<active, task, link, waiter, bounds, passOf>>
      /\ regs' = [i \in Registered |->
                    IF i = e THEN [Dirtied(regs[i]) EXCEPT !.dirty = TRUE] ELSE regs[i]]
  BY DEF record_pending
<1>2. Registered' = Registered
  BY <1>1 DEF Registered
<1>3. \A i \in Registered :
              /\ regs'[i] \in Registration
              /\ regs'[i].binding = regs[i].binding /\ regs'[i].lockKeys = regs[i].lockKeys
              /\ regs'[i].reconciled = regs[i].reconciled /\ regs'[i].failed = regs[i].failed
              /\ regs[i].dirty => regs'[i].dirty
              /\ i \in ids => regs'[i].dirty
              /\ regs'[i].catchUp = IF i \in ids /\ regs[i].catchUp = "Done" THEN "Queued"
                                    ELSE regs[i].catchUp
  <2> SUFFICES ASSUME NEW i \in Registered
               PROVE  /\ regs'[i] \in Registration
                      /\ regs'[i].binding = regs[i].binding /\ regs'[i].lockKeys = regs[i].lockKeys
                      /\ regs'[i].reconciled = regs[i].reconciled /\ regs'[i].failed = regs[i].failed
                      /\ regs[i].dirty => regs'[i].dirty
                      /\ i \in ids => regs'[i].dirty
                      /\ regs'[i].catchUp = IF i \in ids /\ regs[i].catchUp = "Done" THEN "Queued"
                                            ELSE regs[i].catchUp
    OBVIOUS
  <2>1. regs[i] \in Registration
    BY Typed DEF IInv
  <2>2. CASE i = e
    <3>1. regs'[i] = [Dirtied(regs[i]) EXCEPT !.dirty = TRUE]
      BY <1>1, <2>2
    <3>2. /\ regs'[i] \in Registration
          /\ regs'[i].binding = regs[i].binding /\ regs'[i].lockKeys = regs[i].lockKeys
          /\ regs'[i].reconciled = regs[i].reconciled /\ regs'[i].failed = regs[i].failed
          /\ regs[i].dirty => regs'[i].dirty
          /\ regs'[i].dirty
          /\ regs'[i].catchUp = IF regs[i].catchUp = "Done" THEN "Queued" ELSE regs[i].catchUp
      BY <2>1, <3>1, DirtiedFields
    <3>3. i \in ids
      BY <2>2
    <3> QED
      BY <3>2, <3>3
  <2>3. CASE i # e
    BY <1>1, <2>1, <2>3
  <2> QED
    BY <2>2, <2>3
<1>4. \A i \in owed' : i \in owed \/ (i \in ids /\ regs'[i].dirty)
  BY <1>1, <1>3
<1>5. ids \in SUBSET Registered /\ pump \notin {"down", "refresh"} /\ pump' \in {"parked", "refresh"}
  BY <1>1
<1> HIDE DEF ids
<1> QED
  BY <1>1, <1>2, <1>3, <1>4, <1>5, Marked

\* A reconcile tick.
LEMMA TickStep ==
    ASSUME IInv, mark_reconcile_due_all
    PROVE  IInv'
<1>1. /\ pump = "reload" /\ pump' = "refresh" /\ queue' = DueOrder(Registered) /\ signal' = TRUE
      /\ UNCHANGED <<active, task, link, waiter, bounds, passOf, owed>>
      /\ regs' = [i \in Registered |-> [Dirtied(regs[i]) EXCEPT !.retry = FALSE]]
  BY DEF mark_reconcile_due_all, ghosts
<1>2. Registered' = Registered
  BY <1>1 DEF Registered
<1>3. \A i \in Registered :
              /\ regs'[i] \in Registration
              /\ regs'[i].binding = regs[i].binding /\ regs'[i].lockKeys = regs[i].lockKeys
              /\ regs'[i].reconciled = regs[i].reconciled /\ regs'[i].failed = regs[i].failed
              /\ regs[i].dirty => regs'[i].dirty
              /\ regs'[i].catchUp = IF i \in Registered /\ regs[i].catchUp = "Done" THEN "Queued"
                                    ELSE regs[i].catchUp
  <2> SUFFICES ASSUME NEW i \in Registered
               PROVE  /\ regs'[i] \in Registration
                      /\ regs'[i].binding = regs[i].binding /\ regs'[i].lockKeys = regs[i].lockKeys
                      /\ regs'[i].reconciled = regs[i].reconciled /\ regs'[i].failed = regs[i].failed
                      /\ regs[i].dirty => regs'[i].dirty
                      /\ regs'[i].catchUp = IF regs[i].catchUp = "Done" THEN "Queued"
                                            ELSE regs[i].catchUp
    OBVIOUS
  <2>1. regs[i] \in Registration
    BY Typed DEF IInv
  <2>2. regs'[i] = [Dirtied(regs[i]) EXCEPT !.retry = FALSE]
    BY <1>1
  <2> QED
    BY <2>1, <2>2, DirtiedFields
<1>4. \A i \in owed' : i \in owed
  BY <1>1
<1>5. Registered \in SUBSET Registered /\ pump \notin {"down", "refresh"} /\ pump' \in {"parked", "refresh"}
  BY <1>1
<1> QED
  BY <1>1, <1>2, <1>3, <1>4, <1>5, Marked

-----------------------------------------------------------------------------
(* Registration.                                                           *)

\* An unchanged binding is registered again: its lock keys are recomputed.
LEMMA UnchangedStep ==
    ASSUME IInv, NEW s \in Sources, NEW b \in Bindings, register_unchanged(s, b)
    PROVE  IInv'
<1> DEFINE id == <<s, link[b]>>
           keys == {link[b]} \cup Extra[b]
<1>1. /\ id \in Registered /\ regs[id].binding = b
      /\ regs' = [regs EXCEPT ![id].lockKeys = keys]
      /\ UNCHANGED <<queue, active, task, signal, pump, link, waiter, bounds, ghosts>>
  BY DEF register_unchanged, registration_equivalent, corpus_lock_keys
<1>2. id[2] = link[b] /\ keys \in SUBSET Keys
  BY RegistryAssumption DEF IInv, TypeOK
<1> HIDE DEF id, keys
<1>3. Registered' = Registered
  BY <1>1 DEF Registered
<1>4. \A i \in Registered :
         /\ regs'[i] \in Registration
         /\ regs'[i].binding = regs[i].binding /\ regs'[i].dirty = regs[i].dirty
         /\ regs'[i].catchUp = regs[i].catchUp
         /\ regs'[i].reconciled = regs[i].reconciled /\ regs'[i].failed = regs[i].failed
         /\ regs'[i].lockKeys = IF i = id THEN keys ELSE regs[i].lockKeys
  <2> SUFFICES ASSUME NEW i \in Registered
               PROVE  /\ regs'[i] \in Registration
                      /\ regs'[i].binding = regs[i].binding /\ regs'[i].dirty = regs[i].dirty
                      /\ regs'[i].catchUp = regs[i].catchUp
                      /\ regs'[i].reconciled = regs[i].reconciled /\ regs'[i].failed = regs[i].failed
                      /\ regs'[i].lockKeys = IF i = id THEN keys ELSE regs[i].lockKeys
    OBVIOUS
  <2>1. regs[i] \in Registration
    BY Typed DEF IInv
  <2>2. CASE i = id
    <3>1. regs'[i] = [regs[i] EXCEPT !.lockKeys = keys]
      BY <1>1, <2>2 DEF Registered
    <3> QED
      BY <2>1, <2>2, <3>1, <1>2 DEF Registration
  <2>3. CASE i # id
    <3>1. regs'[i] = regs[i]
      BY <1>1, <2>3 DEF Registered
    <3> QED
      BY <2>1, <2>3, <3>1
  <2> QED
    BY <2>2, <2>3
<1>5. UNCHANGED <<changes, retargets, passOf, owed>>
  BY <1>1 DEF bounds, ghosts
<1>6. TypeOK'
  <2>1. DOMAIN regs' = DOMAIN regs /\ \A i \in DOMAIN regs' : regs'[i] \in Registration
    BY <1>1, <1>4 DEF Registered
  <2> QED
    BY <1>1, <1>5, <2>1 DEF IInv, TypeOK
<1>7. NamesKept' /\ TwinsSeeded'
  BY <1>1, <1>3, <1>4, KeepNames, KeepTwins DEF IInv
<1>8. QueueSet'
  BY <1>1, <1>3, <1>4, KeepQueue DEF IInv
<1>9. MembersInFlight' /\ GroupPerTask'
  BY <1>1, <1>3, <1>4, KeepMembers, KeepGroups DEF IInv
<1>10. RootsKept'
  <2>1. ASSUME retargets = 0, NEW i \in Registered
        PROVE  i[2] = FirstKey[regs'[i].binding] /\ i[2] \in regs'[i].lockKeys
    <3>1. i[2] = FirstKey[regs[i].binding] /\ i[2] \in regs[i].lockKeys
      BY <2>1 DEF IInv, RootsKept
    <3>2. id[2] \in keys
      BY <1>2 DEF keys
    <3> QED
      BY <3>1, <3>2, <1>4
  <2>2. DOMAIN active' = DOMAIN active /\ \A g \in DOMAIN active :
           /\ active'[g].leader = active[g].leader
           /\ active'[g].lockKeys = active[g].lockKeys
           /\ ToSet(active'[g].members) \subseteq ToSet(active[g].members)
    BY <1>1
  <2> QED
    BY <1>1, <1>3, <1>5, <2>1, <2>2, KeepRoots DEF IInv
<1>11. PassMembers' /\ EventCovered'
  BY <1>1, <1>3, <1>4, <1>5 DEF IInv, PassMembers, EventCovered
<1>12. NoLostWakeup'
  <2>1. \A i : WaitedFor(i) => /\ i \in Registered' /\ ~regs'[i].reconciled /\ ~regs'[i].failed
                               /\ regs'[i].catchUp \in {"Queued", "InFlight"}
    BY <1>3, <1>4 DEF WaitedFor
  <2> QED
    BY <1>1, <2>1, WakeupFrom DEF IInv
<1> QED
  BY <1>6, <1>7, <1>8, <1>9, <1>10, <1>11, <1>12 DEF IInv

\* The pump starts: the boot corpora that have no registration at their
\* current root are seeded.
LEMMA StartStep ==
    ASSUME IInv, StartPump
    PROVE  IInv'
<1> DEFINE IdOf(b) == <<Baseline, link[b]>>
           new == {b \in BaselineBindings : IdOf(b) \notin Registered}
           seeded == {IdOf(b) : b \in new}
<1>1. /\ pump = "down" /\ pump' = "refresh"
      /\ regs' = [i \in Registered \cup seeded |->
                      IF i \in seeded THEN seed_baseline(CHOOSE b \in new : IdOf(b) = i)
                                      ELSE regs[i]]
      /\ signal' = (signal \/ seeded # {})
      /\ UNCHANGED <<queue, active, task, link, waiter, changes, retargets, passOf, owed>>
  BY DEF StartPump, bounds, ghosts
<1>2. \A b \in new : b \in BaselineBindings /\ b \in Bindings /\ IdOf(b) \in Ids
                     /\ IdOf(b)[1] = Baseline /\ IdOf(b)[2] = link[b] /\ IdOf(b) \notin Registered
                     /\ NameOf[link[b]] = CorpusName(b)
  BY RegistryAssumption DEF Ids, IInv, TypeOK, NamesKept
<1>3. \A i \in seeded : \E b \in new : i = IdOf(b) /\ regs'[i] = seed_baseline(b)
  <2> SUFFICES ASSUME NEW i \in seeded PROVE \E b \in new : i = IdOf(b) /\ regs'[i] = seed_baseline(b)
    OBVIOUS
  <2> DEFINE b == CHOOSE c \in new : IdOf(c) = i
  <2>1. b \in new /\ IdOf(b) = i
    OBVIOUS
  <2>2. regs'[i] = seed_baseline(b)
    BY <1>1
  <2> QED
    BY <2>1, <2>2
<1>4. Registered' = Registered \cup seeded
  BY <1>1 DEF Registered
<1>5. \A i \in Registered : i \notin seeded /\ regs'[i] = regs[i]
  BY <1>1, <1>2
<1>6. \A i \in seeded : /\ i \in Ids /\ i \notin Registered /\ i[1] = Baseline
                        /\ regs'[i] \in Registration /\ regs'[i].binding \in BaselineBindings
                        /\ i[2] = link[regs'[i].binding]
                        /\ NameOf[i[2]] = CorpusName(regs'[i].binding)
                        /\ regs'[i].lockKeys = {i[2]} \cup Extra[regs'[i].binding]
                        /\ regs'[i].catchUp = "Done" /\ regs'[i].reconciled
  <2> SUFFICES ASSUME NEW i \in seeded, NEW b \in new, i = IdOf(b), regs'[i] = seed_baseline(b)
               PROVE  /\ i \in Ids /\ i \notin Registered /\ i[1] = Baseline
                      /\ regs'[i] \in Registration /\ regs'[i].binding \in BaselineBindings
                      /\ i[2] = link[regs'[i].binding]
                      /\ NameOf[i[2]] = CorpusName(regs'[i].binding)
                      /\ regs'[i].lockKeys = {i[2]} \cup Extra[regs'[i].binding]
                      /\ regs'[i].catchUp = "Done" /\ regs'[i].reconciled
    BY <1>3
  <2>1. /\ seed_baseline(b) \in Registration
        /\ seed_baseline(b).binding = b
        /\ seed_baseline(b).lockKeys = {link[b]} \cup Extra[b]
        /\ seed_baseline(b).catchUp = "Done" /\ seed_baseline(b).reconciled
    BY <1>2, SeedFields DEF IInv
  <2>2. i \in Ids /\ i \notin Registered /\ i[1] = Baseline /\ i[2] = link[b] /\ b \in BaselineBindings
        /\ NameOf[link[b]] = CorpusName(b)
    BY <1>2
  <2> QED
    BY <2>1, <2>2
<1>7. signal' \in BOOLEAN
  BY <1>1
<1> HIDE DEF seeded, new
<1>8. TypeOK'
  <2>1. DOMAIN regs' \subseteq Ids /\ \A i \in DOMAIN regs' : regs'[i] \in Registration
    BY <1>4, <1>5, <1>6, Typed DEF IInv, Registered
  <2> QED
    BY <1>1, <1>7, <2>1 DEF IInv, TypeOK
<1>9. NamesKept'
  <2>1. \A b \in Bindings : NameOf[link'[b]] = CorpusName(b)
    BY <1>1 DEF IInv, NamesKept
  <2>2. \A id \in Registered' : NameOf[id[2]] = CorpusName(regs'[id].binding)
    BY <1>4, <1>5, <1>6 DEF IInv, NamesKept
  <2> QED
    BY <2>1, <2>2 DEF NamesKept
<1>10. TwinsSeeded'
  <2>a. pump' = "refresh" /\ link' = link
    BY <1>1
  <2> SUFFICES ASSUME NEW i \in Registered', NEW j \in Registered', i # j, i[1] = j[1],
                      link[regs'[i].binding] = link[regs'[j].binding]
               PROVE  /\ i[2] = link[regs'[i].binding] \/ j[2] = link[regs'[j].binding]
                      /\ i[2] = link[regs'[i].binding] => regs'[i].catchUp = "Done" /\ regs'[i].reconciled
    BY <2>a DEF TwinsSeeded
  <2>0. i \in Ids /\ j \in Ids /\ i[2] # j[2]
    <3>1. i \in Ids /\ j \in Ids
      BY <1>4, <1>6, Typed DEF IInv
    <3> QED
      BY <3>1, Typed DEF IInv
  <2>1. CASE i \in Registered /\ j \in Registered
    <3>1. /\ i[2] = link[regs[i].binding] \/ j[2] = link[regs[j].binding]
          /\ i[2] = link[regs[i].binding] => regs[i].catchUp = "Done" /\ regs[i].reconciled
      BY <2>1, <1>5 DEF IInv, TwinsSeeded
    <3> QED
      BY <3>1, <2>1, <1>5
  <2>2. CASE i \in seeded
    BY <2>2, <1>6
  <2>3. CASE i \in Registered /\ j \in seeded
    BY <2>0, <2>3, <1>6
  <2> QED
    BY <2>1, <2>2, <2>3, <1>4
<1>11. QueueSet'
  <2>1. \A id : (id \in Registered' /\ regs'[id].catchUp = "Queued")
                   <=> (id \in Registered /\ regs[id].catchUp = "Queued")
    BY <1>4, <1>5, <1>6
  <2> QED
    BY <1>1, <2>1, KeepQueue DEF IInv
<1>12. MembersInFlight' /\ GroupPerTask'
  BY <1>1, <1>4, <1>5, KeepMembers, KeepGroups DEF IInv
<1>13. RootsKept'
  <2>1. ASSUME retargets = 0, NEW i \in Registered'
        PROVE  i[2] = FirstKey[regs'[i].binding] /\ i[2] \in regs'[i].lockKeys
    <3>1. CASE i \in Registered
      BY <2>1, <3>1, <1>5 DEF IInv, RootsKept
    <3>2. CASE i \in seeded
      BY <2>1, <3>2, <1>6 DEF IInv, RootsKept
    <3> QED
      BY <3>1, <3>2, <1>4
  <2>2. DOMAIN active' = DOMAIN active /\ \A g \in DOMAIN active :
           /\ active'[g].leader = active[g].leader
           /\ active'[g].lockKeys = active[g].lockKeys
           /\ ToSet(active'[g].members) \subseteq ToSet(active[g].members)
    BY <1>1
  <2> QED
    BY <1>1, <2>1, <2>2, KeepRoots DEF IInv
<1>14. PassMembers' /\ EventCovered'
  <2>1. \A i \in Registered' : regs'[i].catchUp = "InFlight" => i \in Registered /\ regs[i].catchUp = "InFlight"
    BY <1>4, <1>5, <1>6
  <2>2. PassMembers'
    BY <1>1, <2>1 DEF IInv, PassMembers
  <2>3. EventCovered'
    BY <1>1, <1>4, <1>5 DEF IInv, EventCovered
  <2> QED
    BY <2>2, <2>3
<1>15. NoLostWakeup'
  <2>1. \A i : WaitedFor(i) => /\ i \in Registered' /\ ~regs'[i].reconciled /\ ~regs'[i].failed
                               /\ regs'[i].catchUp \in {"Queued", "InFlight"}
    BY <1>4, <1>5 DEF WaitedFor
  <2> QED
    BY <1>1, <2>1, WakeupFrom DEF IInv
<1> QED
  BY <1>8, <1>9, <1>10, <1>11, <1>12, <1>13, <1>14, <1>15 DEF IInv

\* A new or changed binding is registered; the source's older registrations
\* of the same corpus name are dropped.
LEMMA RegisterStep ==
    ASSUME IInv, NEW s \in Sources, NEW b \in Bindings, register(s, b)
    PROVE  IInv'
<1> DEFINE id == <<s, link[b]>>
           obsolete == {o \in Registered : /\ o[1] = s /\ o # id
                                           /\ NameOf[o[2]] = NameOf[id[2]]}
           gone == obsolete \cup {id}
<1>1. /\ changes < MaxChanges
      /\ regs' = [i \in (Registered \ obsolete) \cup {id} |->
                    IF i = id THEN NewRegistration(b) ELSE regs[i]]
      /\ queue' = Append(Unqueue(gone), id)
      /\ active' = release_admission(gone)
      /\ signal' = TRUE
      /\ changes' = changes + 1
      /\ passOf' = [i \in Ids |-> IF i \in gone THEN 0 ELSE passOf[i]]
      /\ owed' = owed \ obsolete
      /\ UNCHANGED <<task, pump, link, waiter, retargets>>
  BY DEF register
<1>2. id \in Ids /\ id[1] = s /\ id[2] = link[b] /\ NameOf[id[2]] = CorpusName(b)
  BY IdOfBinding DEF IInv, NamesKept
<1>3. \A o \in obsolete : o \in Registered /\ o[1] = s /\ o # id
  OBVIOUS
<1>4. \A o \in Registered : o # id /\ o[1] = s /\ NameOf[o[2]] = NameOf[id[2]] => o \in obsolete
  OBVIOUS
<1>5. /\ \A o \in gone : o[1] = s
      /\ id \in gone /\ id \notin obsolete /\ obsolete \subseteq gone
      /\ \A o \in gone : o = id \/ o \in obsolete
  BY <1>2, <1>3
<1> HIDE DEF obsolete, gone, id
<1>6. Registered' = (Registered \ obsolete) \cup {id}
  BY <1>1 DEF Registered
<1>7. /\ regs'[id] \in Registration /\ regs'[id].binding = b
      /\ regs'[id].lockKeys = {link[b]} \cup Extra[b]
      /\ regs'[id].catchUp = "Queued" /\ ~regs'[id].reconciled /\ ~regs'[id].failed
  <2>1. regs'[id] = NewRegistration(b)
    BY <1>1
  <2> QED
    BY <2>1, NewFields DEF IInv
<1>8. \A i \in Registered' : i # id => i \in Registered /\ i \notin gone /\ regs'[i] = regs[i]
  BY <1>1, <1>5, <1>6
<1>9. \A i \in Registered : i \notin gone => i \in Registered' /\ i # id /\ regs'[i] = regs[i]
  BY <1>1, <1>5, <1>6
<1>10. queue' \in Seq(Ids) /\ IsInjective(queue') /\ ToSet(queue') = (ToSet(queue) \ gone) \cup {id}
  <2>1. queue \in Seq(Ids) /\ ToSet(queue) \subseteq Ids /\ IsInjective(queue)
    BY Typed DEF IInv, QueueSet, ToSet
  <2> DEFINE q == Unqueue(gone)
  <2>2. q \in Seq(Ids) /\ IsInjective(q) /\ ToSet(q) = ToSet(queue) \cap (Ids \ gone)
    BY <2>1, OnlyKeeps DEF Unqueue
  <2> HIDE DEF q
  <2>3. queue' = Append(q, id)
    BY <1>1 DEF q
  <2> QED
    BY <2>1, <2>2, <2>3, <1>2, <1>5, AppendSet
<1> DEFINE A == active'
<1>11. /\ A \in Seq(Group) /\ DOMAIN A = DOMAIN active /\ Len(A) = Len(active)
       /\ \A g \in DOMAIN active :
             /\ A[g].leader = active[g].leader /\ A[g].lockKeys = active[g].lockKeys
             /\ ToSet(A[g].members) = ToSet(active[g].members) \ gone
  <2>1. A = release_admission(gone) /\ TypeOK
    BY <1>1 DEF IInv
  <2> HIDE DEF A
  <2> QED
    BY ONLY <2>1, Released
<1> HIDE DEF A
<1>12. TypeOK'
  <2>1. DOMAIN regs' \subseteq Ids /\ \A i \in DOMAIN regs' : regs'[i] \in Registration
    BY <1>2, <1>7, <1>8, Typed DEF IInv, Registered
  <2>2. passOf' \in [Ids -> Tasks \cup {0}]
    BY <1>1, Typed DEF IInv
  <2>3. changes' \in 0..MaxChanges
    BY <1>1, RegistryAssumption DEF IInv, TypeOK
  <2>4. active' \in Seq(Group) /\ Len(active') <= CatchUpLimit
    BY <1>11 DEF A, IInv, TypeOK
  <2> QED
    BY <1>1, <1>10, <2>1, <2>2, <2>3, <2>4 DEF IInv, TypeOK
<1>13. NamesKept'
  <2>1. \A c \in Bindings : NameOf[link'[c]] = CorpusName(c)
    BY <1>1 DEF IInv, NamesKept
  <2>2. \A i \in Registered' : NameOf[i[2]] = CorpusName(regs'[i].binding)
    BY <1>2, <1>7, <1>8 DEF IInv, NamesKept
  <2> QED
    BY <2>1, <2>2 DEF NamesKept
<1>14. TwinsSeeded'
  <2>a. pump' = pump /\ link' = link
    BY <1>1
  <2> SUFFICES ASSUME NEW i \in Registered', NEW j \in Registered', i # j, i[1] = j[1],
                      link[regs'[i].binding] = link[regs'[j].binding]
               PROVE  /\ pump \in {"down", "refresh"}
                      /\ i[2] = link[regs'[i].binding] \/ j[2] = link[regs'[j].binding]
                      /\ i[2] = link[regs'[i].binding] => regs'[i].catchUp = "Done" /\ regs'[i].reconciled
    BY <2>a DEF TwinsSeeded
  <2>1. \A o \in Registered : o \notin gone /\ o # id /\ o[1] = s => link[regs[o].binding] # link[b]
    <3> SUFFICES ASSUME NEW o \in Registered, o \notin gone, o # id, o[1] = s,
                        link[regs[o].binding] = link[b]
                 PROVE  FALSE
      OBVIOUS
    <3>1. regs[o].binding \in Bindings
      BY Typed, RegFields DEF IInv
    <3>2. NameOf[o[2]] = NameOf[link[regs[o].binding]]
      BY <3>1 DEF IInv, NamesKept
    <3>3. o \in obsolete
      BY <3>2, <1>2, <1>4
    <3> QED
      BY <3>3, <1>5
  <2>2. i # id
    BY <2>1, <1>2, <1>7, <1>8
  <2>3. j # id
    BY <2>1, <1>2, <1>7, <1>8
  <2>4. i \in Registered /\ j \in Registered /\ regs'[i] = regs[i] /\ regs'[j] = regs[j]
    BY <2>2, <2>3, <1>8
  <2>5. /\ pump \in {"down", "refresh"}
        /\ i[2] = link[regs[i].binding] \/ j[2] = link[regs[j].binding]
        /\ i[2] = link[regs[i].binding] => regs[i].catchUp = "Done" /\ regs[i].reconciled
    BY <2>4 DEF IInv, TwinsSeeded
  <2> QED
    BY <2>4, <2>5
<1>15. QueueSet'
  <2>1. \A i : i \in ToSet(queue) <=> (i \in Registered /\ regs[i].catchUp = "Queued")
    BY DEF IInv, QueueSet
  <2>2. \A i : i \in ToSet(queue') <=> (i \in Registered' /\ regs'[i].catchUp = "Queued")
    <3> SUFFICES ASSUME NEW i
                 PROVE  i \in ToSet(queue') <=> (i \in Registered' /\ regs'[i].catchUp = "Queued")
      OBVIOUS
    <3>1. CASE i = id
      BY <3>1, <1>6, <1>7, <1>10
    <3>2. CASE i # id
      BY <3>2, <2>1, <1>8, <1>9, <1>10
    <3> QED
      BY <3>1, <3>2
  <2> QED
    BY <1>10, <2>2, QueueFrom
<1>16. MembersInFlight'
  BY <1>1, <1>9, ReleaseMembers DEF IInv
<1>17. GroupPerTask'
  BY <1>1, <1>11, KeepGroups DEF IInv, A
<1>18. RootsKept'
  <2>1. ASSUME retargets = 0, NEW i \in Registered'
        PROVE  i[2] = FirstKey[regs'[i].binding] /\ i[2] \in regs'[i].lockKeys
    <3>1. CASE i = id
      BY <2>1, <3>1, <1>2, <1>7 DEF IInv, RootsKept
    <3>2. CASE i # id
      BY <2>1, <3>2, <1>8 DEF IInv, RootsKept
    <3> QED
      BY <3>1, <3>2
  <2>2. DOMAIN active' = DOMAIN active /\ \A g \in DOMAIN active :
           /\ active'[g].leader = active[g].leader
           /\ active'[g].lockKeys = active[g].lockKeys
           /\ ToSet(active'[g].members) \subseteq ToSet(active[g].members)
    BY <1>11 DEF A
  <2> QED
    BY <1>1, <2>1, <2>2, KeepRoots DEF IInv
<1>19. PassMembers'
  <2>1. DOMAIN active' = DOMAIN active /\ \A g \in DOMAIN active :
           /\ active'[g].leader = active[g].leader
           /\ ToSet(active'[g].members) = ToSet(active[g].members) \ gone
    BY <1>11 DEF A
  <2>2. \A i \in Ids : passOf'[i] = IF i \in gone THEN 0 ELSE passOf[i]
    BY <1>1
  <2>3. \A i \in Registered' : regs'[i].catchUp = "InFlight" =>
           i \in Registered \ gone /\ regs[i].catchUp = "InFlight"
    BY <1>7, <1>8
  <2> QED
    BY <1>1, <2>1, <2>2, <2>3, KeepPasses DEF IInv
<1>20. EventCovered'
  <2> SUFFICES ASSUME retargets = 0, NEW i \in owed'
               PROVE  /\ i \in Registered'
                      /\ \/ regs'[i].catchUp = "Queued"
                         \/ regs'[i].catchUp = "InFlight" /\ regs'[i].dirty
    BY <1>1 DEF EventCovered
  <2>1. CASE i = id
    BY <2>1, <1>6, <1>7
  <2>2. CASE i # id
    <3>1. /\ i \in Registered /\ i \notin obsolete
          /\ \/ regs[i].catchUp = "Queued"
             \/ regs[i].catchUp = "InFlight" /\ regs[i].dirty
      BY <1>1 DEF IInv, EventCovered
    <3> QED
      BY <2>2, <3>1, <1>5, <1>9
  <2> QED
    BY <2>1, <2>2
<1>21. NoLostWakeup'
  <2>1. \A i : WaitedFor(i) => \E j \in Registered' : /\ j[1] = i[1]
                                                      /\ ~regs'[j].reconciled /\ ~regs'[j].failed
                                                      /\ regs'[j].catchUp \in {"Queued", "InFlight"}
    <3> SUFFICES ASSUME NEW i, WaitedFor(i)
                 PROVE  \E j \in Registered' : /\ j[1] = i[1]
                                               /\ ~regs'[j].reconciled /\ ~regs'[j].failed
                                               /\ regs'[j].catchUp \in {"Queued", "InFlight"}
      OBVIOUS
    <3>1. CASE i \in gone
      BY <3>1, <1>2, <1>5, <1>6, <1>7
    <3>2. CASE i \notin gone
      BY <3>2, <1>9 DEF WaitedFor
    <3> QED
      BY <3>1, <3>2
  <2> QED
    BY <1>1, <2>1, WakeupFrom DEF IInv
<1> QED
  BY <1>12, <1>13, <1>14, <1>15, <1>16, <1>17, <1>18, <1>19, <1>20, <1>21 DEF IInv

\* A repository layer is reloaded.
LEMMA ReplaceStep ==
    ASSUME IInv, NEW s \in Sources, NEW bs \in Layers, replace_source(s, bs)
    PROVE  IInv'
<1> DEFINE IdOf(b) == <<s, link[b]>>
           ids == {IdOf(bs[i]) : i \in DOMAIN bs}
           removed == {id \in Registered : id[1] = s /\ id \notin ids}
           F == {b \in Bindings : ~registration_equivalent(IdOf(b), b)}
           fresh == Only(bs, F)
           freshIds == {IdOf(fresh[i]) : i \in DOMAIN fresh}
           gone == removed \cup freshIds
           fq == [i \in DOMAIN fresh |-> IdOf(fresh[i])]
<1>1. /\ pump = "reload" /\ changes < MaxChanges /\ s # Baseline
      /\ regs' = [i \in (Registered \ removed) \cup freshIds |->
                      IF i \in freshIds
                      THEN NewRegistration(CHOOSE b \in ToSet(fresh) : IdOf(b) = i)
                      ELSE IF i \in ids
                      THEN [regs[i] EXCEPT !.lockKeys = corpus_lock_keys(regs[i].binding)]
                      ELSE regs[i]]
      /\ queue' = Unqueue(gone) \o fq
      /\ active' = release_admission(gone)
      /\ signal' = TRUE
      /\ changes' = changes + 1
      /\ passOf' = [i \in Ids |-> IF i \in gone THEN 0 ELSE passOf[i]]
      /\ owed' = owed \ removed
      /\ UNCHANGED <<task, pump, link, retargets>>
  BY DEF replace_source, ReplaceSource
<1>2. NotifySettled
  BY DEF replace_source
<1>3. bs \in Seq(Bindings) /\ \A i, j \in DOMAIN bs : CorpusName(bs[i]) = CorpusName(bs[j]) => i = j
  BY RegistryAssumption, NamesAssumption
<1>4. ToSet(bs) \subseteq Bindings /\ \A b, c \in ToSet(bs) : CorpusName(b) = CorpusName(c) => b = c
  BY <1>3 DEF ToSet
<1>5. IsInjective(bs)
  BY <1>3 DEF IsInjective
<1>6. \A b \in Bindings : /\ IdOf(b) \in Ids /\ IdOf(b)[1] = s /\ IdOf(b)[2] = link[b]
                          /\ NameOf[IdOf(b)[2]] = CorpusName(b)
  BY IdOfBinding DEF IInv, NamesKept
<1>7. fresh \in Seq(Bindings) /\ ToSet(fresh) = ToSet(bs) \cap F /\ IsInjective(fresh)
  BY <1>3, <1>5, OnlyKeeps
<1>8. \A i : i \in ids <=> \E b \in ToSet(bs) : i = IdOf(b)
  BY DEF ToSet
<1> HIDE DEF fresh
<1>9. \A i : i \in freshIds <=> \E b \in ToSet(fresh) : i = IdOf(b)
  BY DEF ToSet
<1>10. \A b, c \in ToSet(bs) : IdOf(b) = IdOf(c) => b = c
  <2> SUFFICES ASSUME NEW b \in ToSet(bs), NEW c \in ToSet(bs), IdOf(b) = IdOf(c) PROVE b = c
    OBVIOUS
  <2>1. CorpusName(b) = CorpusName(c)
    BY <1>4, <1>6
  <2> QED
    BY <2>1, <1>4
<1>11. fq \in Seq(Ids) /\ ToSet(fq) = freshIds /\ IsInjective(fq)
  <2>1. \A i \in DOMAIN fresh : fresh[i] \in ToSet(fresh) /\ fresh[i] \in Bindings
    BY <1>7 DEF ToSet
  <2>2. DOMAIN fresh = 1..Len(fresh) /\ Len(fresh) \in Nat
    BY <1>7
  <2>3. fq \in [1..Len(fresh) -> Ids]
    BY <2>1, <2>2, <1>6
  <2>4. ToSet(fq) = freshIds
    BY DEF ToSet
  <2>5. IsInjective(fq)
    <3> SUFFICES ASSUME NEW i \in DOMAIN fresh, NEW j \in DOMAIN fresh, IdOf(fresh[i]) = IdOf(fresh[j])
                 PROVE  i = j
      BY DEF IsInjective
    <3>1. fresh[i] \in ToSet(bs) /\ fresh[j] \in ToSet(bs)
      BY <2>1, <1>7
    <3>2. fresh[i] = fresh[j]
      BY <3>1, <1>10
    <3> QED
      BY <3>2, <1>7 DEF IsInjective
  <2> QED
    BY <2>2, <2>3, <2>4, <2>5, SeqDef
<1>12. Registered' = (Registered \ removed) \cup freshIds
  BY <1>1 DEF Registered
<1>13. \A i \in freshIds :
          /\ i \in Ids /\ i[1] = s /\ i \in ids /\ i \in gone /\ i \in Registered' /\ i \notin removed
          /\ regs'[i] \in Registration /\ regs'[i].binding \in Bindings
          /\ i[2] = link[regs'[i].binding] /\ NameOf[i[2]] = CorpusName(regs'[i].binding)
          /\ i[2] \in regs'[i].lockKeys
          /\ regs'[i].catchUp = "Queued" /\ ~regs'[i].reconciled /\ ~regs'[i].failed
  <2> SUFFICES ASSUME NEW i \in freshIds
               PROVE  /\ i \in Ids /\ i[1] = s /\ i \in ids /\ i \in gone /\ i \in Registered' /\ i \notin removed
                      /\ regs'[i] \in Registration /\ regs'[i].binding \in Bindings
                      /\ i[2] = link[regs'[i].binding] /\ NameOf[i[2]] = CorpusName(regs'[i].binding)
                      /\ i[2] \in regs'[i].lockKeys
                      /\ regs'[i].catchUp = "Queued" /\ ~regs'[i].reconciled /\ ~regs'[i].failed
    OBVIOUS
  <2> DEFINE b == CHOOSE c \in ToSet(fresh) : IdOf(c) = i
  <2>1. b \in ToSet(fresh) /\ IdOf(b) = i
    BY <1>9
  <2>2. regs'[i] = NewRegistration(b)
    BY <1>1
  <2>3. b \in Bindings /\ b \in ToSet(bs)
    BY <2>1, <1>4, <1>7
  <2> HIDE DEF b
  <2>4. /\ regs'[i] \in Registration /\ regs'[i].binding = b
        /\ regs'[i].lockKeys = {link[b]} \cup Extra[b]
        /\ regs'[i].catchUp = "Queued" /\ ~regs'[i].reconciled /\ ~regs'[i].failed
    BY <2>2, <2>3, NewFields DEF IInv
  <2>5. i \in Ids /\ i[1] = s /\ i[2] = link[b] /\ NameOf[i[2]] = CorpusName(b)
    BY <2>1, <2>3, <1>6
  <2>6. i \in ids
    BY <2>1, <2>3, <1>8
  <2>7. i \in gone /\ i \in Registered' /\ i \notin removed
    BY <2>6, <1>12
  <2> QED
    BY <2>3, <2>4, <2>5, <2>6, <2>7
<1>14. \A i \in ids : i \notin freshIds => i \in Registered
  <2> SUFFICES ASSUME NEW i \in ids, i \notin freshIds PROVE i \in Registered
    OBVIOUS
  <2>1. PICK b \in ToSet(bs) : i = IdOf(b)
    BY <1>8
  <2>2. b \notin F
    BY <2>1, <1>7, <1>9
  <2> QED
    BY <2>1, <2>2, <1>4 DEF registration_equivalent
<1>14a. \A i \in ids : i[2] = link[regs'[i].binding]
  <2> SUFFICES ASSUME NEW i \in ids, i \notin freshIds PROVE i[2] = link[regs'[i].binding]
    BY <1>13
  <2>1. PICK b \in ToSet(bs) : i = IdOf(b)
    BY <1>8
  <2>2. b \notin F
    BY <2>1, <1>7, <1>9
  <2>3. b \in Bindings /\ i \in Registered /\ regs[i].binding = b /\ i[2] = link[b]
    BY <2>1, <2>2, <1>4, <1>6 DEF registration_equivalent
  <2>4. i \in Registered' /\ i \notin removed
    BY <2>3, <1>12
  <2> DEFINE k == corpus_lock_keys(regs[i].binding)
  <2>5. regs'[i] = [regs[i] EXCEPT !.lockKeys = k]
    BY <2>4, <1>1, <1>12
  <2>6. regs[i] \in Registration
    BY <2>3, Typed DEF IInv
  <2> HIDE DEF k
  <2>7. regs'[i].binding = regs[i].binding
    BY <2>5, <2>6 DEF Registration
  <2> QED
    BY <2>3, <2>7
<1>15. \A i \in ids : i[1] = s
  BY <1>4, <1>6, <1>8
<1>16. \A i \in Registered' : i[1] = s => i \in ids
  BY <1>12, <1>13
<1>17. \A i \in Registered' : i \notin freshIds =>
          /\ i \in Registered /\ i \notin gone
          /\ regs'[i] \in Registration
          /\ regs'[i].binding = regs[i].binding /\ regs'[i].dirty = regs[i].dirty
          /\ regs'[i].catchUp = regs[i].catchUp
          /\ regs'[i].reconciled = regs[i].reconciled /\ regs'[i].failed = regs[i].failed
          /\ regs'[i].lockKeys = regs[i].lockKeys \/ link[regs[i].binding] \in regs'[i].lockKeys
  <2> SUFFICES ASSUME NEW i \in Registered', i \notin freshIds
               PROVE  /\ i \in Registered /\ i \notin gone
                      /\ regs'[i] \in Registration
                      /\ regs'[i].binding = regs[i].binding /\ regs'[i].dirty = regs[i].dirty
                      /\ regs'[i].catchUp = regs[i].catchUp
                      /\ regs'[i].reconciled = regs[i].reconciled /\ regs'[i].failed = regs[i].failed
                      /\ regs'[i].lockKeys = regs[i].lockKeys \/ link[regs[i].binding] \in regs'[i].lockKeys
    OBVIOUS
  <2>1. i \in Registered /\ i \notin removed /\ i \notin gone
    BY <1>12
  <2>2. regs[i] \in Registration /\ regs[i].binding \in Bindings
    BY <2>1, Typed, RegFields DEF IInv
  <2>3. CASE i \in ids
    <3> DEFINE k == {link[regs[i].binding]} \cup Extra[regs[i].binding]
    <3>1. k \in SUBSET Keys
      BY <2>2, RegistryAssumption DEF IInv, TypeOK
    <3>2. regs'[i] = [regs[i] EXCEPT !.lockKeys = k]
      BY <1>1, <1>12, <2>3 DEF corpus_lock_keys
    <3>3. link[regs[i].binding] \in k
      OBVIOUS
    <3> HIDE DEF k
    <3> QED
      BY <2>1, <2>2, <3>1, <3>2, <3>3 DEF Registration
  <2>4. CASE i \notin ids
    <3>1. regs'[i] = regs[i]
      BY <1>1, <1>12, <2>4
    <3> QED
      BY <2>1, <2>2, <3>1
  <2> QED
    BY <2>3, <2>4
<1>18. \A i \in Registered : i \notin gone => i \in Registered' /\ i \notin freshIds
  BY <1>12
<1>19. removed \subseteq gone /\ \A i \in gone : i \in removed \/ i \in freshIds
  OBVIOUS
<1>20. queue' \in Seq(Ids) /\ IsInjective(queue') /\ ToSet(queue') = (ToSet(queue) \ gone) \cup freshIds
  <2>1. queue \in Seq(Ids) /\ ToSet(queue) \subseteq Ids /\ IsInjective(queue)
    BY Typed DEF IInv, QueueSet, ToSet
  <2> DEFINE q == Unqueue(gone)
  <2>2. q \in Seq(Ids) /\ IsInjective(q) /\ ToSet(q) = ToSet(queue) \cap (Ids \ gone)
    BY <2>1, OnlyKeeps DEF Unqueue
  <2>3. freshIds \subseteq gone
    OBVIOUS
  <2>4. queue' = q \o fq
    BY <1>1
  <2> HIDE DEF q, fq, freshIds, gone
  <2> QED
    BY <2>1, <2>2, <2>3, <2>4, <1>11, ConcatSet
<1> HIDE DEF ids, removed, F, freshIds, gone, fq, IdOf
<1> DEFINE A == active'
<1>21. /\ A \in Seq(Group) /\ DOMAIN A = DOMAIN active /\ Len(A) = Len(active)
       /\ \A g \in DOMAIN active :
             /\ A[g].leader = active[g].leader /\ A[g].lockKeys = active[g].lockKeys
             /\ ToSet(A[g].members) = ToSet(active[g].members) \ gone
  <2>1. A = release_admission(gone) /\ TypeOK
    BY <1>1 DEF IInv
  <2> HIDE DEF A
  <2> QED
    BY ONLY <2>1, Released
<1> HIDE DEF A
<1>22. TypeOK'
  <2>1. DOMAIN regs' \subseteq Ids /\ \A i \in DOMAIN regs' : regs'[i] \in Registration
    BY <1>13, <1>17, Typed DEF IInv, Registered
  <2>2. passOf' \in [Ids -> Tasks \cup {0}]
    BY <1>1, Typed DEF IInv
  <2>3. changes' \in 0..MaxChanges
    BY <1>1, RegistryAssumption DEF IInv, TypeOK
  <2>4. active' \in Seq(Group) /\ Len(active') <= CatchUpLimit
    BY <1>21 DEF A, IInv, TypeOK
  <2>5. waiter' \in [at : {"idle", "armed", "waiting"}, woken : BOOLEAN, source : Sources \cup {None}]
    BY <1>2, NotifiedType DEF IInv
  <2>6. signal' \in BOOLEAN /\ owed' \subseteq Ids
    BY <1>1 DEF IInv, TypeOK
  <2> QED
    BY <1>1, <1>20, <2>1, <2>2, <2>3, <2>4, <2>5, <2>6 DEF IInv, TypeOK
<1>23. NamesKept'
  <2>1. \A c \in Bindings : NameOf[link'[c]] = CorpusName(c)
    BY <1>1 DEF IInv, NamesKept
  <2>2. \A i \in Registered' : NameOf[i[2]] = CorpusName(regs'[i].binding)
    BY <1>13, <1>17 DEF IInv, NamesKept
  <2> QED
    BY <2>1, <2>2 DEF NamesKept
<1>24. TwinsSeeded'
  <2>1. ASSUME NEW i \in Registered', NEW j \in Registered', i[1] = j[1],
               link'[regs'[i].binding] = link'[regs'[j].binding]
        PROVE  i = j
    <3>0. i \in Ids /\ j \in Ids
      BY <1>13, <1>17, Typed DEF IInv
    <3>1. CASE i[1] = s
      <4>1. i[2] = link[regs'[i].binding] /\ j[2] = link[regs'[j].binding]
        BY <3>1, <2>1, <1>16, <1>14a
      <4>2. i[2] = j[2]
        BY <4>1, <2>1, <1>1
      <4> QED
        BY <4>2, <2>1, <3>0, Typed DEF IInv
    <3>2. CASE i[1] # s
      <4>1. i \in Registered /\ j \in Registered
            /\ regs'[i].binding = regs[i].binding /\ regs'[j].binding = regs[j].binding
        BY <3>2, <2>1, <1>13, <1>17
      <4> QED
        BY <4>1, <2>1, <1>1, NoTwins DEF IInv
    <3> QED
      BY <3>1, <3>2
  <2> QED
    BY <2>1, TwinsFrom
<1>25. QueueSet'
  <2>1. \A i : i \in ToSet(queue) <=> (i \in Registered /\ regs[i].catchUp = "Queued")
    BY DEF IInv, QueueSet
  <2>2. \A i : i \in ToSet(queue') <=> (i \in Registered' /\ regs'[i].catchUp = "Queued")
    <3> SUFFICES ASSUME NEW i
                 PROVE  i \in ToSet(queue') <=> (i \in Registered' /\ regs'[i].catchUp = "Queued")
      OBVIOUS
    <3>1. CASE i \in freshIds
      BY <3>1, <1>13, <1>20
    <3>2. CASE i \notin freshIds
      BY <3>2, <2>1, <1>17, <1>18, <1>20
    <3> QED
      BY <3>1, <3>2
  <2> QED
    BY <1>20, <2>2, QueueFrom
<1>26. MembersInFlight'
  <2>1. \A i \in Registered \ gone : regs[i].catchUp = "InFlight" =>
           i \in Registered' /\ regs'[i].catchUp = "InFlight"
    BY <1>17, <1>18
  <2> QED
    BY <1>1, <2>1, ReleaseMembers DEF IInv
<1>27. GroupPerTask'
  BY <1>1, <1>21, KeepGroups DEF IInv, A
<1>28. RootsKept'
  <2>1. ASSUME retargets = 0, NEW i \in Registered'
        PROVE  i[2] = FirstKey[regs'[i].binding] /\ i[2] \in regs'[i].lockKeys
    <3>0. link = FirstKey
      BY <2>1 DEF IInv, RootsKept
    <3>1. CASE i \in freshIds
      BY <3>0, <3>1, <1>13
    <3>2. CASE i \notin freshIds
      <4>1. i[2] = FirstKey[regs[i].binding] /\ i[2] \in regs[i].lockKeys
        BY <2>1, <3>2, <1>17 DEF IInv, RootsKept
      <4> QED
        BY <4>1, <3>0, <3>2, <1>17
    <3> QED
      BY <3>1, <3>2
  <2>2. DOMAIN active' = DOMAIN active /\ \A g \in DOMAIN active :
           /\ active'[g].leader = active[g].leader
           /\ active'[g].lockKeys = active[g].lockKeys
           /\ ToSet(active'[g].members) \subseteq ToSet(active[g].members)
    BY <1>21 DEF A
  <2> QED
    BY <1>1, <2>1, <2>2, KeepRoots DEF IInv
<1>29. PassMembers'
  <2>1. DOMAIN active' = DOMAIN active /\ \A g \in DOMAIN active :
           /\ active'[g].leader = active[g].leader
           /\ ToSet(active'[g].members) = ToSet(active[g].members) \ gone
    BY <1>21 DEF A
  <2>2. \A i \in Ids : passOf'[i] = IF i \in gone THEN 0 ELSE passOf[i]
    BY <1>1
  <2>3. \A i \in Registered' : regs'[i].catchUp = "InFlight" =>
           i \in Registered \ gone /\ regs[i].catchUp = "InFlight"
    BY <1>13, <1>17
  <2> QED
    BY <1>1, <2>1, <2>2, <2>3, KeepPasses DEF IInv
<1>30. EventCovered'
  <2> SUFFICES ASSUME retargets = 0, NEW i \in owed'
               PROVE  /\ i \in Registered'
                      /\ \/ regs'[i].catchUp = "Queued"
                         \/ regs'[i].catchUp = "InFlight" /\ regs'[i].dirty
    BY <1>1 DEF EventCovered
  <2>1. CASE i \in freshIds
    BY <2>1, <1>13
  <2>2. CASE i \notin freshIds
    <3>1. /\ i \in Registered /\ i \notin removed
          /\ \/ regs[i].catchUp = "Queued"
             \/ regs[i].catchUp = "InFlight" /\ regs[i].dirty
      BY <1>1 DEF IInv, EventCovered
    <3> QED
      BY <2>2, <3>1, <1>17, <1>18, <1>19
  <2> QED
    BY <2>1, <2>2
<1>31. NoLostWakeup'
  BY <1>2, WakeupNotified DEF IInv
<1> QED
  BY <1>22, <1>23, <1>24, <1>25, <1>26, <1>27, <1>28, <1>29, <1>30, <1>31 DEF IInv

-----------------------------------------------------------------------------
(* Refreshed roots.                                                        *)

\* Every registration whose root resolves elsewhere moves to its new id.  The
\* one a restarted pump has seeded there is the only one it can replace.
LEMMA RefreshStep ==
    ASSUME IInv, refresh_roots
    PROVE  IInv'
<1> DEFINE stale == {id \in Registered : link[regs[id].binding] # id[2]}
           NewId(id) == <<id[1], link[regs[id].binding]>>
           Moved(id) == IF id \in stale THEN NewId(id) ELSE id
           running == {id \in stale : regs[id].catchUp = "InFlight"}
           Old(id) == IF \E o \in stale : NewId(o) = id
                      THEN CHOOSE o \in stale : NewId(o) = id ELSE id
           old == queue \o SetToSeq(running)
<1>1. /\ pump = "refresh" /\ pump' = "admit"
      /\ regs' = [id \in {Moved(o) : o \in Registered} |->
                      IF Old(id) \in running
                      THEN [regs[Old(id)] EXCEPT !.catchUp = "Queued"]
                      ELSE regs[Old(id)]]
      /\ queue' = [i \in DOMAIN old |-> IF old[i] \in stale THEN NewId(old[i]) ELSE old[i]]
      /\ active' = release_admission(running)
      /\ passOf' = [id \in Ids |-> IF id \in stale THEN 0 ELSE passOf[id]]
      /\ owed' = {Moved(id) : id \in owed \cap Registered}
      /\ UNCHANGED <<task, signal, link, waiter, changes, retargets>>
  BY DEF refresh_roots, bounds
<1>2. \A o \in Registered :
         /\ o \in Ids /\ regs[o] \in Registration /\ regs[o].binding \in Bindings
         /\ Moved(o) \in Ids /\ Moved(o)[1] = o[1] /\ Moved(o)[2] = link[regs[o].binding]
         /\ Moved(o) = <<o[1], link[regs[o].binding]>>
         /\ NameOf[Moved(o)[2]] = NameOf[o[2]]
         /\ o \in stale => o[2] # link[regs[o].binding] /\ NewId(o) = Moved(o)
         /\ o \notin stale => Moved(o) = o /\ o[2] = link[regs[o].binding]
  <2> SUFFICES ASSUME NEW o \in Registered
               PROVE  /\ o \in Ids /\ regs[o] \in Registration /\ regs[o].binding \in Bindings
                      /\ Moved(o) \in Ids /\ Moved(o)[1] = o[1] /\ Moved(o)[2] = link[regs[o].binding]
                      /\ Moved(o) = <<o[1], link[regs[o].binding]>>
                      /\ NameOf[Moved(o)[2]] = NameOf[o[2]]
                      /\ o \in stale => o[2] # link[regs[o].binding] /\ NewId(o) = Moved(o)
                      /\ o \notin stale => Moved(o) = o /\ o[2] = link[regs[o].binding]
    OBVIOUS
  <2>1. o \in Ids /\ o[1] \in Sources /\ o = <<o[1], o[2]>> /\ regs[o] \in Registration
        /\ regs[o].binding \in Bindings
    BY Typed, RegFields DEF IInv
  <2>2. NewId(o) \in Ids /\ NewId(o)[1] = o[1] /\ NewId(o)[2] = link[regs[o].binding]
    BY <2>1, IdOfBinding DEF IInv
  <2>3. NameOf[link[regs[o].binding]] = NameOf[o[2]]
    BY <2>1 DEF IInv, NamesKept
  <2>4. o \notin stale => o[2] = link[regs[o].binding]
    OBVIOUS
  <2> QED
    BY <2>1, <2>2, <2>3, <2>4
<1>3. Registered' = {Moved(o) : o \in Registered}
  BY <1>1 DEF Registered
<1>4. stale \subseteq Registered /\ running \subseteq stale /\ \A o \in running : regs[o].catchUp = "InFlight"
  OBVIOUS
<1>5. \A o \in Registered : (o \in stale /\ regs[o].catchUp = "InFlight") => o \in running
  OBVIOUS
<1>6. \A i : (\E o \in stale : NewId(o) = i) => Old(i) \in stale /\ NewId(Old(i)) = i
  OBVIOUS
<1>7. \A i : ~(\E o \in stale : NewId(o) = i) => Old(i) = i
  OBVIOUS
<1>8. \A i \in Registered' : /\ regs'[i] = IF Old(i) \in running
                                           THEN [regs[Old(i)] EXCEPT !.catchUp = "Queued"]
                                           ELSE regs[Old(i)]
  BY <1>1, <1>3
<1>9. \A i \in ToSet(old) : i \in Registered =>
         (IF i \in stale THEN NewId(i) ELSE i) = Moved(i)
  OBVIOUS
<1>10. passOf' = [id \in Ids |-> IF id \in stale THEN 0 ELSE passOf[id]]
  BY <1>1
<1>11. retargets = 0 => stale = {}
  <2> SUFFICES ASSUME retargets = 0, NEW o \in Registered PROVE link[regs[o].binding] = o[2]
    OBVIOUS
  <2> QED
    BY DEF IInv, RootsKept
<1>12. running \in SUBSET Ids
  BY <1>2, <1>4
<1>13. queue \in Seq(Ids) /\ IsInjective(queue)
       /\ ToSet(queue) = {id \in Registered : regs[id].catchUp = "Queued"}
  BY Typed DEF IInv, QueueSet
<1>14. /\ old \in Seq(Ids) /\ IsInjective(old)
       /\ ToSet(old) = {id \in Registered : regs[id].catchUp = "Queued"} \cup running
  <2> DEFINE d == SetToSeq(running)
  <2>1. d \in Seq(Ids) /\ ToSet(d) = running /\ IsInjective(d)
    BY <1>12, FinitelyMany, ListOf
  <2>2. ToSet(queue) \cap running = {}
    BY <1>13
  <2> HIDE DEF d, running
  <2> QED
    BY <2>1, <2>2, <1>13, ConcatSet DEF d
<1>15. queue' = [i \in DOMAIN old |-> Moved(old[i])]
  BY <1>1
<1>16. owed' = {Moved(id) : id \in owed \cap Registered} /\ active' = release_admission(running)
       /\ pump = "refresh" /\ pump' = "admit"
       /\ UNCHANGED <<task, signal, link, waiter, changes, retargets>>
  BY <1>1
<1> HIDE DEF stale, NewId, Moved, running, Old, old
<1>17. \A i \in Registered' : Old(i) \in Registered /\ Moved(Old(i)) = i
  <2> SUFFICES ASSUME NEW i \in Registered' PROVE Old(i) \in Registered /\ Moved(Old(i)) = i
    OBVIOUS
  <2>1. PICK o \in Registered : i = Moved(o)
    BY <1>3
  <2>2. CASE \E p \in stale : NewId(p) = i
    <3>1. Old(i) \in stale /\ NewId(Old(i)) = i
      BY <2>2, <1>6
    <3> QED
      BY <3>1, <1>2, <1>4
  <2>3. CASE ~(\E p \in stale : NewId(p) = i)
    <3>1. o \notin stale
      BY <2>1, <2>3, <1>2
    <3>2. i = o /\ Old(i) = i
      BY <2>1, <2>3, <3>1, <1>2, <1>7
    <3> QED
      BY <3>1, <3>2, <2>1
  <2> QED
    BY <2>2, <2>3
<1>18. \A o \in Registered : /\ Moved(o) \in Registered'
                             /\ \/ Old(Moved(o)) = o
                                \/ o \notin stale /\ regs[o].catchUp = "Done" /\ regs[o].reconciled
  <2> SUFFICES ASSUME NEW o \in Registered, Old(Moved(o)) # o
               PROVE  o \notin stale /\ regs[o].catchUp = "Done" /\ regs[o].reconciled
    BY <1>3
  <2> DEFINE p == Old(Moved(o))
  <2>1. p \in Registered /\ Moved(p) = Moved(o) /\ p # o
    BY <1>3, <1>17
  <2>2. o[1] = p[1] /\ link[regs[o].binding] = link[regs[p].binding]
    BY <2>1, <1>2
  <2>3. /\ o[2] = link[regs[o].binding] \/ p[2] = link[regs[p].binding]
        /\ o[2] = link[regs[o].binding] => regs[o].catchUp = "Done" /\ regs[o].reconciled
    BY <2>1, <2>2 DEF IInv, TwinsSeeded
  <2>4. o \in stale => p \in stale
    BY <1>2, <1>6
  <2>5. o \notin stale
    BY <2>1, <2>3, <2>4, <1>2
  <2>6. o[2] = link[regs[o].binding]
    BY <2>5, <1>2
  <2> QED
    BY <2>3, <2>5, <2>6
<1>19. \A i \in Registered' :
          /\ i \in Ids /\ Old(i) \in Registered /\ i[1] = Old(i)[1] /\ NameOf[i[2]] = NameOf[Old(i)[2]]
          /\ regs'[i] \in Registration
          /\ regs'[i].binding = regs[Old(i)].binding /\ regs'[i].lockKeys = regs[Old(i)].lockKeys
          /\ regs'[i].dirty = regs[Old(i)].dirty
          /\ regs'[i].reconciled = regs[Old(i)].reconciled /\ regs'[i].failed = regs[Old(i)].failed
          /\ regs'[i].catchUp = IF Old(i) \in running THEN "Queued" ELSE regs[Old(i)].catchUp
  <2> SUFFICES ASSUME NEW i \in Registered'
               PROVE  /\ i \in Ids /\ Old(i) \in Registered /\ i[1] = Old(i)[1] /\ NameOf[i[2]] = NameOf[Old(i)[2]]
                      /\ regs'[i] \in Registration
                      /\ regs'[i].binding = regs[Old(i)].binding /\ regs'[i].lockKeys = regs[Old(i)].lockKeys
                      /\ regs'[i].dirty = regs[Old(i)].dirty
                      /\ regs'[i].reconciled = regs[Old(i)].reconciled /\ regs'[i].failed = regs[Old(i)].failed
                      /\ regs'[i].catchUp = IF Old(i) \in running THEN "Queued" ELSE regs[Old(i)].catchUp
    OBVIOUS
  <2> DEFINE p == Old(i)
  <2>1. p \in Registered /\ Moved(p) = i
    BY <1>17
  <2>2. regs[p] \in Registration /\ i \in Ids /\ i[1] = p[1] /\ NameOf[i[2]] = NameOf[p[2]]
    BY <2>1, <1>2
  <2>3. regs'[i] = IF p \in running THEN [regs[p] EXCEPT !.catchUp = "Queued"] ELSE regs[p]
    BY <1>8
  <2> HIDE DEF p
  <2>4. /\ regs'[i] \in Registration
        /\ regs'[i].binding = regs[p].binding /\ regs'[i].lockKeys = regs[p].lockKeys
        /\ regs'[i].dirty = regs[p].dirty
        /\ regs'[i].reconciled = regs[p].reconciled /\ regs'[i].failed = regs[p].failed
        /\ regs'[i].catchUp = IF p \in running THEN "Queued" ELSE regs[p].catchUp
    BY <2>2, <2>3 DEF Registration, CatchUpStates
  <2> QED
    BY <2>1, <2>2, <2>4 DEF p
<1>20. /\ queue' \in Seq(Ids) /\ IsInjective(queue')
       /\ \A i : i \in ToSet(queue') <=> \E o \in ToSet(old) : i = Moved(o)
  <2>1. DOMAIN old = 1..Len(old) /\ Len(old) \in Nat
    BY <1>14
  <2>2. \A n \in DOMAIN old : old[n] \in ToSet(old)
    BY DEF ToSet
  <2>3. \A o \in ToSet(old) : o \in Registered /\ Moved(o) \in Ids /\ Old(Moved(o)) = o
    <3> SUFFICES ASSUME NEW o \in ToSet(old)
                 PROVE  o \in Registered /\ Moved(o) \in Ids /\ Old(Moved(o)) = o
      OBVIOUS
    <3>1. o \in Registered /\ regs[o].catchUp # "Done"
      BY <1>4, <1>14
    <3> QED
      BY <3>1, <1>2, <1>18
  <2>4. queue' \in [1..Len(old) -> Ids]
    BY <1>15, <2>1, <2>2, <2>3
  <2>5. IsInjective(queue')
    <3> SUFFICES ASSUME NEW m \in DOMAIN old, NEW n \in DOMAIN old, Moved(old[m]) = Moved(old[n])
                 PROVE  m = n
      BY <1>15 DEF IsInjective
    <3>1. old[m] = old[n]
      BY <2>2, <2>3
    <3> QED
      BY <3>1, <1>14 DEF IsInjective
  <2>6. \A i : i \in ToSet(queue') <=> \E o \in ToSet(old) : i = Moved(o)
    BY <1>15 DEF ToSet
  <2> QED
    BY <2>1, <2>4, <2>5, <2>6, SeqDef
<1>21. TypeOK'
  <2>1. DOMAIN regs' \subseteq Ids /\ \A i \in DOMAIN regs' : regs'[i] \in Registration
    BY <1>19 DEF Registered
  <2>2. passOf' \in [Ids -> Tasks \cup {0}]
    BY <1>10, Typed DEF IInv
  <2>3. active' \in Seq(Group) /\ Len(active') = Len(active)
    <3> DEFINE A == active'
    <3>1. A = release_admission(running) /\ TypeOK
      BY <1>16 DEF IInv
    <3> HIDE DEF A
    <3>2. A \in Seq(Group) /\ Len(A) = Len(active)
      BY ONLY <3>1, Released
    <3> QED
      BY <3>2 DEF A
  <2>4. owed' \subseteq Ids
    BY <1>2, <1>16
  <2> QED
    BY <1>16, <1>20, <2>1, <2>2, <2>3, <2>4 DEF IInv, TypeOK
<1>22. NamesKept'
  <2>1. \A c \in Bindings : NameOf[link'[c]] = CorpusName(c)
    BY <1>16 DEF IInv, NamesKept
  <2>2. \A i \in Registered' : NameOf[i[2]] = CorpusName(regs'[i].binding)
    BY <1>19 DEF IInv, NamesKept
  <2> QED
    BY <2>1, <2>2 DEF NamesKept
<1>23. TwinsSeeded'
  <2>1. ASSUME NEW i \in Registered', NEW j \in Registered', i[1] = j[1],
               link'[regs'[i].binding] = link'[regs'[j].binding]
        PROVE  i = j
    <3> DEFINE p == Old(i)
               q == Old(j)
    <3>1. p \in Registered /\ q \in Registered /\ Moved(p) = i /\ Moved(q) = j
      BY <1>17
    <3>2. p[1] = q[1] /\ link[regs[p].binding] = link[regs[q].binding]
      BY <2>1, <1>16, <1>19
    <3> QED
      BY <3>1, <3>2, <1>2
  <2> QED
    BY <2>1, TwinsFrom
<1>24. QueueSet'
  <2>1. \A i : i \in ToSet(queue') <=> (i \in Registered' /\ regs'[i].catchUp = "Queued")
    <3> SUFFICES ASSUME NEW i
                 PROVE  i \in ToSet(queue') <=> (i \in Registered' /\ regs'[i].catchUp = "Queued")
      OBVIOUS
    <3>1. ASSUME i \in ToSet(queue') PROVE i \in Registered' /\ regs'[i].catchUp = "Queued"
      <4>1. PICK o \in ToSet(old) : i = Moved(o)
        BY <3>1, <1>20
      <4>2. o \in Registered /\ (o \in running \/ regs[o].catchUp = "Queued") /\ regs[o].catchUp # "Done"
        BY <1>4, <1>14
      <4>3. i \in Registered' /\ Old(i) = o
        BY <4>1, <4>2, <1>18
      <4> QED
        BY <4>2, <4>3, <1>19
    <3>2. ASSUME i \in Registered', regs'[i].catchUp = "Queued" PROVE i \in ToSet(queue')
      <4>1. Old(i) \in Registered /\ Moved(Old(i)) = i
            /\ (Old(i) \in running \/ regs[Old(i)].catchUp = "Queued")
        BY <3>2, <1>17, <1>19
      <4>2. Old(i) \in ToSet(old)
        BY <4>1, <1>14
      <4> QED
        BY <4>1, <4>2, <1>20
    <3> QED
      BY <3>1, <3>2
  <2> QED
    BY <1>20, <2>1, QueueFrom
<1>25. \A i \in Registered \ running : regs[i].catchUp = "InFlight" =>
           i \in Registered' /\ regs'[i].catchUp = "InFlight"
  <2> SUFFICES ASSUME NEW i \in Registered, i \notin running, regs[i].catchUp = "InFlight"
               PROVE  i \in Registered' /\ regs'[i].catchUp = "InFlight"
    OBVIOUS
  <2>1. i \notin stale
    BY <1>5
  <2>2. Moved(i) = i
    BY <2>1, <1>2
  <2>3. i \in Registered' /\ Old(i) = i
    BY <2>2, <1>18
  <2> QED
    BY <2>3, <1>19
<1>26. MembersInFlight'
  BY <1>16, <1>25, ReleaseMembers DEF IInv
<1>27. DOMAIN active' = DOMAIN active /\ \A g \in DOMAIN active :
           /\ active'[g].leader = active[g].leader
           /\ active'[g].lockKeys = active[g].lockKeys
           /\ ToSet(active'[g].members) = ToSet(active[g].members) \ running
  <2> DEFINE A == active'
  <2>1. A = release_admission(running) /\ TypeOK
    BY <1>16 DEF IInv
  <2> HIDE DEF A
  <2>2. DOMAIN A = DOMAIN active /\ \A g \in DOMAIN active :
           /\ A[g].leader = active[g].leader
           /\ A[g].lockKeys = active[g].lockKeys
           /\ ToSet(A[g].members) = ToSet(active[g].members) \ running
    BY ONLY <2>1, Released
  <2> QED
    BY <2>2 DEF A
<1>28. GroupPerTask'
  BY <1>16, <1>27, KeepGroups DEF IInv
<1>29. retargets = 0 => /\ running = {} /\ stale = {}
                        /\ \A i \in Registered : Moved(i) = i
                        /\ \A i \in Registered' : Old(i) = i /\ i \in Registered
                        /\ \A i \in Registered : i \in Registered'
  BY <1>2, <1>3, <1>4, <1>11, <1>17
<1>30. RootsKept'
  <2>1. ASSUME retargets = 0, NEW i \in Registered'
        PROVE  i[2] = FirstKey[regs'[i].binding] /\ i[2] \in regs'[i].lockKeys
    BY <2>1, <1>19, <1>29 DEF IInv, RootsKept
  <2>2. \A g \in DOMAIN active :
           /\ active'[g].leader = active[g].leader
           /\ active'[g].lockKeys = active[g].lockKeys
           /\ ToSet(active'[g].members) \subseteq ToSet(active[g].members)
    BY <1>27
  <2> QED
    BY <1>16, <1>27, <2>1, <2>2, KeepRoots DEF IInv
<1>31. PassMembers'
  <2>1. CASE retargets # 0
    BY <2>1, <1>16 DEF PassMembers
  <2>2. CASE retargets = 0
    <3>1. \A g \in DOMAIN active : /\ active'[g].leader = active[g].leader
                                   /\ ToSet(active'[g].members) = ToSet(active[g].members) \ running
      BY <1>27
    <3>2. \A i \in Ids : passOf'[i] = IF i \in running THEN 0 ELSE passOf[i]
      BY <2>2, <1>10, <1>29
    <3>3. \A i \in Registered' : regs'[i].catchUp = "InFlight" =>
             i \in Registered \ running /\ regs[i].catchUp = "InFlight"
      BY <2>2, <1>19, <1>29
    <3> QED
      BY <1>16, <1>27, <3>1, <3>2, <3>3, KeepPasses DEF IInv
  <2> QED
    BY <2>1, <2>2
<1>32. EventCovered'
  <2> SUFFICES ASSUME retargets = 0, NEW i \in owed'
               PROVE  /\ i \in Registered'
                      /\ \/ regs'[i].catchUp = "Queued"
                         \/ regs'[i].catchUp = "InFlight" /\ regs'[i].dirty
    BY <1>16 DEF EventCovered
  <2>1. i \in owed /\ i \in Registered /\ i \in Registered' /\ Old(i) = i /\ running = {}
    BY <1>16, <1>29
  <2> QED
    BY <2>1, <1>19 DEF IInv, EventCovered
<1>33. NoLostWakeup'
  <2>1. \A i : WaitedFor(i) => \E j \in Registered' : /\ j[1] = i[1]
                                                      /\ ~regs'[j].reconciled /\ ~regs'[j].failed
                                                      /\ regs'[j].catchUp \in {"Queued", "InFlight"}
    <3> SUFFICES ASSUME NEW i, WaitedFor(i)
                 PROVE  LET j == Moved(i) IN /\ j \in Registered' /\ j[1] = i[1]
                                             /\ ~regs'[j].reconciled /\ ~regs'[j].failed
                                             /\ regs'[j].catchUp \in {"Queued", "InFlight"}
      OBVIOUS
    <3>1. i \in Registered /\ ~regs[i].reconciled /\ ~regs[i].failed
          /\ regs[i].catchUp \in {"Queued", "InFlight"}
      BY DEF WaitedFor
    <3>2. Moved(i) \in Registered' /\ Old(Moved(i)) = i
      BY <3>1, <1>18
    <3> QED
      BY <3>1, <3>2, <1>19
  <2> QED
    BY <1>16, <2>1, WakeupFrom DEF IInv
<1> QED
  BY <1>21, <1>22, <1>23, <1>24, <1>26, <1>28, <1>30, <1>31, <1>32, <1>33 DEF IInv

-----------------------------------------------------------------------------
(* Tasks and their groups.                                                 *)

\* A sequence without one of its entries.
LEMMA Without ==
    ASSUME NEW T, NEW s \in Seq(T), NEW g \in DOMAIN s, NEW r, r = RemoveAt(s, g)
    PROVE  /\ r \in Seq(T) /\ Len(r) = Len(s) - 1 /\ DOMAIN r = 1..(Len(s) - 1)
           /\ \A i \in 1..(Len(s) - 1) : r[i] = s[IF i < g THEN i ELSE i + 1]
<1> DEFINE a == SubSeq(s, 1, g - 1)
           b == SubSeq(s, g + 1, Len(s))
<1>1. Len(s) \in Nat /\ g \in 1..Len(s) /\ g \in Nat /\ g >= 1 /\ g <= Len(s)
  OBVIOUS
<1>2. /\ a \in Seq(T) /\ b \in Seq(T) /\ Len(a) = g - 1 /\ Len(b) = Len(s) - g
      /\ \A i \in DOMAIN a : i \in 1..(g - 1) /\ a[i] = s[i]
      /\ \A i \in DOMAIN b : i \in 1..(Len(s) - g) /\ b[i] = s[g + i]
  <2>1. Parted(T, s, g, a, b)
    BY <1>1, PartsOf
  <2> HIDE DEF a, b
  <2> QED
    BY <2>1 DEF Parted
<1>3. r = a \o b
  BY DEF RemoveAt
<1> HIDE DEF a, b
<1>4. /\ r \in Seq(T) /\ Len(r) = Len(a) + Len(b)
      /\ \A i \in 1..Len(a) : r[i] = a[i]
      /\ \A i \in 1..Len(b) : r[Len(a) + i] = b[i]
  <2>1. a \in Seq(T) /\ b \in Seq(T)
    BY <1>2
  <2> QED
    BY ONLY <2>1, <1>3, ConcatProperties
<1>5. Len(r) = Len(s) - 1 /\ DOMAIN r = 1..(Len(s) - 1)
  BY <1>1, <1>2, <1>4
<1>6. ASSUME NEW i \in 1..(Len(s) - 1) PROVE r[i] = s[IF i < g THEN i ELSE i + 1]
  <2>1. CASE i < g
    <3>1. i \in 1..Len(a) /\ i \in DOMAIN a
      BY <2>1, <1>1, <1>2
    <3> QED
      BY <2>1, <3>1, <1>2, <1>4
  <2>2. CASE ~(i < g)
    <3> DEFINE k == i - (g - 1)
    <3>1. k \in 1..Len(b) /\ k \in DOMAIN b /\ i = Len(a) + k /\ g + k = i + 1
      BY <2>2, <1>1, <1>2
    <3> HIDE DEF k
    <3>2. r[i] = b[k] /\ b[k] = s[g + k]
      BY <3>1, <1>2, <1>4
    <3> QED
      BY <2>2, <3>1, <3>2
  <2> QED
    BY <2>1, <2>2
<1> QED
  BY <1>4, <1>5, <1>6

\* An admitted task gets the new group.
LEMMA AdmitGroups ==
    ASSUME TypeOK, GroupPerTask, NEW t \in Tasks, task[t] = None,
           NEW grp \in Group, task' = [task EXCEPT ![t] = grp.leader],
           active' = Append(active, grp)
    PROVE  GroupPerTask'
<1>1. PICK f \in Bijection(Busy, DOMAIN active) : \A u \in Busy : active[f[u]].leader = task[u]
  BY DEF GroupPerTask
<1>2. /\ Len(active) \in Nat /\ DOMAIN active = 1..Len(active) /\ task \in [Tasks -> Ids \cup {None}]
      /\ grp.leader \in Ids /\ grp.leader # None /\ active \in Seq(Group)
  BY Typed DEF Group
<1>3. /\ DOMAIN active' = 1..(Len(active) + 1)
      /\ \A i \in 1..Len(active) : active'[i] = active[i]
      /\ active'[Len(active) + 1] = grp
  BY <1>2, AppendProperties
<1>4. Busy' = Busy \cup {t} /\ t \notin Busy
  BY <1>2 DEF Busy
<1>5. \A u \in Busy : task'[u] = task[u] /\ u # t
  BY <1>2, <1>4 DEF Busy
<1>6. task'[t] = grp.leader
  BY <1>2
<1>7. /\ \A u \in Busy : f[u] \in 1..Len(active)
      /\ \A u, v \in Busy : f[u] = f[v] => u = v
      /\ \A i \in 1..Len(active) : \E u \in Busy : f[u] = i
  BY <1>2 DEF Bijection, Injection, Surjection, IsInjective
<1> DEFINE h == [u \in Busy' |-> IF u = t THEN Len(active) + 1 ELSE f[u]]
<1>8. /\ h \in [Busy' -> DOMAIN active'] /\ h[t] = Len(active) + 1
      /\ \A u \in Busy : h[u] = f[u] /\ h[u] # Len(active) + 1
  BY <1>2, <1>3, <1>4, <1>7
<1> HIDE DEF h
<1>9. \A u, v \in Busy' : h[u] = h[v] => u = v
  BY <1>4, <1>7, <1>8
<1>10. \A i \in DOMAIN active' : \E u \in Busy' : h[u] = i
  <2> SUFFICES ASSUME NEW i \in 1..(Len(active) + 1) PROVE \E u \in Busy' : h[u] = i
    BY <1>3
  <2>1. CASE i = Len(active) + 1
    BY <2>1, <1>4, <1>8
  <2>2. CASE i # Len(active) + 1
    <3>1. i \in 1..Len(active)
      BY <2>2, <1>2
    <3> QED
      BY <3>1, <1>4, <1>7, <1>8
  <2> QED
    BY <2>1, <2>2
<1>11. h \in Bijection(Busy', DOMAIN active')
  BY <1>8, <1>9, <1>10 DEF Bijection, Injection, Surjection, IsInjective
<1>12. \A u \in Busy' : active'[h[u]].leader = task'[u]
  BY <1>1, <1>3, <1>4, <1>5, <1>6, <1>7, <1>8
<1> QED
  BY <1>11, <1>12, Zenon DEF GroupPerTask

\* A finished task takes its group along, or one that was led by the same
\* registration: the task whose group that was has the other one.
LEMMA FinishGroups ==
    ASSUME TypeOK, GroupPerTask, NEW t \in Tasks, task[t] # None,
           NEW g \in DOMAIN active, active[g].leader = task[t],
           active' = RemoveAt(active, g), task' = [task EXCEPT ![t] = None]
    PROVE  GroupPerTask'
<1>1. PICK f \in Bijection(Busy, DOMAIN active) : \A u \in Busy : active[f[u]].leader = task[u]
  BY DEF GroupPerTask
<1>2. /\ Len(active) \in Nat /\ DOMAIN active = 1..Len(active) /\ task \in [Tasks -> Ids \cup {None}]
      /\ active \in Seq(Group) /\ g \in 1..Len(active) /\ g \in Nat
  BY Typed
<1>3. /\ DOMAIN active' = 1..(Len(active) - 1)
      /\ \A i \in 1..(Len(active) - 1) : active'[i] = active[IF i < g THEN i ELSE i + 1]
  <2> DEFINE A == active'
  <2>1. A = RemoveAt(active, g)
    OBVIOUS
  <2> HIDE DEF A
  <2>2. DOMAIN A = 1..(Len(active) - 1) /\ \A i \in 1..(Len(active) - 1) : A[i] = active[IF i < g THEN i ELSE i + 1]
    BY <2>1, <1>2, Without
  <2> QED
    BY <2>2 DEF A
<1>4. t \in Busy /\ Busy' = Busy \ {t} /\ \A u \in Busy' : task'[u] = task[u]
  BY <1>2 DEF Busy
<1>5. /\ \A u \in Busy : f[u] \in 1..Len(active)
      /\ \A u, v \in Busy : f[u] = f[v] => u = v
      /\ \A i \in 1..Len(active) : \E u \in Busy : f[u] = i
  BY <1>2 DEF Bijection, Injection, Surjection, IsInjective
<1> DEFINE e == [u \in Busy' |-> IF f[u] = g THEN f[t] ELSE f[u]]
<1>6. \A u \in Busy' : /\ e[u] \in 1..Len(active) /\ e[u] # g
                       /\ e[u] = (IF f[u] = g THEN f[t] ELSE f[u])
                       /\ active[e[u]].leader = task[u]
  <2> SUFFICES ASSUME NEW u \in Busy'
               PROVE  /\ e[u] \in 1..Len(active) /\ e[u] # g
                      /\ e[u] = (IF f[u] = g THEN f[t] ELSE f[u])
                      /\ active[e[u]].leader = task[u]
    OBVIOUS
  <2>1. e[u] = (IF f[u] = g THEN f[t] ELSE f[u])
    OBVIOUS
  <2>2. u \in Busy /\ u # t /\ f[u] # f[t]
    BY <1>4, <1>5
  <2>3. active[f[u]].leader = task[u] /\ active[f[t]].leader = task[t]
    BY <2>2, <1>1, <1>4
  <2> HIDE DEF e
  <2> QED
    BY <2>1, <2>2, <2>3, <1>4, <1>5
<1>7. \A u, v \in Busy' : e[u] = e[v] => u = v
  <2> SUFFICES ASSUME NEW u \in Busy', NEW v \in Busy', e[u] = e[v] PROVE u = v
    OBVIOUS
  <2>1. u \in Busy /\ v \in Busy /\ u # t /\ v # t
    BY <1>4
  <2>2. f[u] # f[t] /\ f[v] # f[t]
    BY <2>1, <1>4, <1>5
  <2>3. f[u] = f[v]
    BY <2>2, <1>6
  <2> QED
    BY <2>1, <2>3, <1>5
<1>8. \A i \in 1..Len(active) : i # g => \E u \in Busy' : e[u] = i
  <2> SUFFICES ASSUME NEW i \in 1..Len(active), i # g PROVE \E u \in Busy' : e[u] = i
    OBVIOUS
  <2>1. CASE f[t] = i
    <3>1. PICK u \in Busy : f[u] = g
      BY <1>2, <1>5
    <3>2. u \in Busy'
      BY <2>1, <3>1, <1>4
    <3> QED
      BY <2>1, <3>1, <3>2, <1>6
  <2>2. CASE f[t] # i
    <3>1. PICK u \in Busy : f[u] = i
      BY <1>5
    <3>2. u \in Busy'
      BY <2>2, <3>1, <1>4
    <3> QED
      BY <3>1, <3>2, <1>6
  <2> QED
    BY <2>1, <2>2
<1> HIDE DEF e
<1> DEFINE h == [u \in Busy' |-> IF e[u] < g THEN e[u] ELSE e[u] - 1]
<1>9. \A u \in Busy' : /\ h[u] \in 1..(Len(active) - 1)
                       /\ e[u] = IF h[u] < g THEN h[u] ELSE h[u] + 1
  <2> SUFFICES ASSUME NEW u \in Busy'
               PROVE  /\ h[u] \in 1..(Len(active) - 1)
                      /\ e[u] = IF h[u] < g THEN h[u] ELSE h[u] + 1
    OBVIOUS
  <2>1. h[u] = IF e[u] < g THEN e[u] ELSE e[u] - 1
    OBVIOUS
  <2>2. e[u] \in 1..Len(active) /\ e[u] # g
    BY <1>6
  <2> HIDE DEF h
  <2> QED
    BY <2>1, <2>2, <1>2
<1>10. h \in [Busy' -> DOMAIN active']
  <2>1. \A u \in Busy' : h[u] \in DOMAIN active'
    BY <1>3, <1>9
  <2> QED
    BY <2>1
<1>11. \A u, v \in Busy' : h[u] = h[v] => u = v
  <2> SUFFICES ASSUME NEW u \in Busy', NEW v \in Busy', h[u] = h[v] PROVE u = v
    OBVIOUS
  <2>1. e[u] = e[v]
    BY <1>9
  <2> QED
    BY <2>1, <1>7
<1>12. \A i \in DOMAIN active' : \E u \in Busy' : h[u] = i
  <2> SUFFICES ASSUME NEW i \in 1..(Len(active) - 1) PROVE \E u \in Busy' : h[u] = i
    BY <1>3
  <2> DEFINE j == IF i < g THEN i ELSE i + 1
  <2>1. j \in 1..Len(active) /\ j # g
    BY <1>2
  <2>2. PICK u \in Busy' : e[u] = j
    BY <2>1, <1>8
  <2>3. h[u] = IF j < g THEN j ELSE j - 1
    BY <2>2
  <2>4. h[u] = i
    BY <2>3, <1>2
  <2> QED
    BY <2>4
<1>13. \A u \in Busy' : active'[h[u]].leader = task'[u]
  <2> SUFFICES ASSUME NEW u \in Busy' PROVE active'[h[u]].leader = task'[u]
    OBVIOUS
  <2>1. active'[h[u]] = active[e[u]]
    BY <1>3, <1>9
  <2> QED
    BY <2>1, <1>4, <1>6
<1> HIDE DEF h
<1>14. h \in Bijection(Busy', DOMAIN active')
  BY <1>10, <1>11, <1>12 DEF Bijection, Injection, Surjection, IsInjective
<1> QED
  BY <1>13, <1>14, Zenon DEF GroupPerTask

-----------------------------------------------------------------------------
(* Admission.                                                              *)

\* What is deferred, what stays and what is gated make up the queue without
\* the admitted members.
LEMMA Rescanned ==
    ASSUME TypeOK, QueueSet, NEW a \in Seq(Ids), NEW m \in Seq(Ids),
           IsInjective(a), IsInjective(m), ToSet(a) \cap ToSet(m) = {},
           \A id \in ToSet(a) : Live(id),
           NEW q, q = deferred(a) \o m \o gated(a)
    PROVE  q \in Seq(Ids) /\ IsInjective(q) /\ ToSet(q) = ToSet(a) \cup ToSet(m)
<1> DEFINE D == {id \in Ids : Live(id) /\ ~regs[id].retry}
           G == {id \in Ids : Live(id) /\ regs[id].retry}
           d == deferred(a)
           g == gated(a)
<1>1. d \in Seq(Ids) /\ ToSet(d) = ToSet(a) \cap D /\ IsInjective(d)
  BY OnlyKeeps DEF deferred
<1>2. g \in Seq(Ids) /\ ToSet(g) = ToSet(a) \cap G /\ IsInjective(g)
  BY OnlyKeeps DEF gated
<1>3. ToSet(a) \subseteq Ids
  BY DEF ToSet
<1>4. ToSet(d) \cup ToSet(g) = ToSet(a) /\ ToSet(d) \cap ToSet(g) = {}
  <2>1. D \cap G = {}
    OBVIOUS
  <2>2. \A id \in ToSet(a) : id \in D \cup G
    BY <1>3
  <2> HIDE DEF D, G, d, g
  <2> QED
    BY <1>1, <1>2, <2>1, <2>2
<1> DEFINE e == d \o m
<1>5. q = e \o g
  OBVIOUS
<1> HIDE DEF D, G, d, g
<1>6. e \in Seq(Ids) /\ ToSet(e) = ToSet(d) \cup ToSet(m) /\ IsInjective(e)
  BY <1>1, <1>4, ConcatSet
<1> HIDE DEF e
<1>7. ToSet(e) \cap ToSet(g) = {}
  BY <1>4, <1>6
<1>8. q \in Seq(Ids) /\ ToSet(q) = ToSet(e) \cup ToSet(g) /\ IsInjective(q)
  BY <1>2, <1>5, <1>6, <1>7, ConcatSet
<1> QED
  BY <1>4, <1>6, <1>8

\* A scan that finds nothing reorders the queue, and the pump parks.
LEMMA NothingStep ==
    ASSUME IInv, NothingToAdmit
    PROVE  IInv'
<1>1. /\ pump = "admit" /\ pump' = "parked"
      /\ UNCHANGED <<regs, active, task, signal, link, waiter, changes, retargets, passOf, owed>>
  BY DEF NothingToAdmit, bounds, ghosts
<1>2. queue \in Seq(Ids) /\ IsInjective(queue) /\ \A id \in ToSet(queue) : Live(id)
  BY Typed DEF IInv, QueueSet, Live
<1>3. queue' \in Seq(Ids) /\ IsInjective(queue') /\ ToSet(queue') = ToSet(queue)
  <2>1. CASE queue' = queue
    BY <2>1, <1>2
  <2>2. CASE queue' = deferred(queue) \o gated(queue)
    <3> DEFINE m == <<>>
               q == queue'
    <3>1. m \in Seq(Ids) /\ IsInjective(m) /\ ToSet(m) = {}
      BY DEF IsInjective, ToSet
    <3>2. deferred(queue) \in Seq(Ids) /\ gated(queue) \in Seq(Ids)
      BY <1>2, OnlyKeeps DEF deferred, gated
    <3>3. q = deferred(queue) \o m \o gated(queue)
      <4>1. deferred(queue) \o m = deferred(queue)
        BY <3>2, ConcatEmptySeq
      <4> QED
        BY <2>2, <4>1
    <3> HIDE DEF m, q
    <3>4. TypeOK /\ QueueSet
      BY DEF IInv
    <3>5. q \in Seq(Ids) /\ IsInjective(q) /\ ToSet(q) = ToSet(queue) \cup ToSet(m)
      BY <1>2, <3>1, <3>3, <3>4, Rescanned
    <3> QED
      BY <3>1, <3>5 DEF q
  <2> QED
    BY <2>1, <2>2 DEF NothingToAdmit
<1>4. Registered' = Registered
  BY <1>1 DEF Registered
<1>5. TypeOK'
  BY <1>1, <1>3 DEF IInv, TypeOK
<1>6. NamesKept' /\ TwinsSeeded'
  BY <1>1, <1>4, KeepNames, KeepTwins DEF IInv
<1>7. QueueSet'
  BY <1>1, <1>3, <1>4 DEF IInv, QueueSet
<1>8. MembersInFlight' /\ GroupPerTask'
  BY <1>1, <1>4, KeepMembers, KeepGroups DEF IInv
<1>9. RootsKept' /\ PassMembers' /\ EventCovered'
  BY <1>1, <1>4 DEF IInv, RootsKept, PassMembers, EventCovered
<1>10. NoLostWakeup'
  BY <1>1, WaiterKept DEF IInv
<1> QED
  BY <1>5, <1>6, <1>7, <1>8, <1>9, <1>10 DEF IInv

\* A group is admitted.
LEMMA BeginStep ==
    ASSUME IInv, NEW t \in Tasks, begin_next_catch_up(t)
    PROVE  IInv'
<1> DEFINE n == SelectInSeq(queue, Admissible)
           leader == queue[n]
           prefix == SubSeq(queue, 1, n - 1)
           rest == SubSeq(queue, n + 1, Len(queue))
           shared == group_members(leader, rest)
           members == <<leader>> \o shared
           taken == ToSet(members)
           grp == [leader |-> leader, lockKeys |-> regs[leader].lockKeys,
                   members |-> members, valid |-> TRUE]
           kept == Only(rest, Ids \ taken)
<1>1. /\ pump = "admit" /\ Len(active) < CatchUpLimit /\ n # 0 /\ task[t] = None
      /\ task' = [task EXCEPT ![t] = leader]
      /\ regs' = [id \in Registered |->
                      IF id \in taken THEN [regs[id] EXCEPT !.catchUp = "InFlight"] ELSE regs[id]]
      /\ active' = Append(active, grp)
      /\ queue' = deferred(prefix) \o kept \o gated(prefix)
      /\ passOf' = [id \in Ids |-> IF id \in taken THEN t ELSE passOf[id]]
      /\ owed' = owed \ taken
      /\ UNCHANGED <<signal, pump, link, waiter, changes, retargets>>
  BY DEF begin_next_catch_up, bounds
<1>2. queue \in Seq(Ids) /\ IsInjective(queue) /\ ToSet(queue) \subseteq Ids
      /\ \A id : id \in ToSet(queue) <=> Live(id)
  BY Typed DEF IInv, QueueSet, Live
<1>3. n \in 1..Len(queue) /\ Admissible(leader)
  <2> DEFINE I == {i \in 1..Len(queue) : Admissible(queue[i])}
  <2>1. n = IF I # {} THEN Min(I) ELSE 0
    BY DEF SelectInSeq
  <2>2. I \in SUBSET Nat
    OBVIOUS
  <2>3. n # 0
    BY <1>1
  <2> HIDE DEF I, n
  <2>4. n \in I
    BY <2>1, <2>2, <2>3, MinOf
  <2> QED
    BY <2>4 DEF I
<1> DEFINE GM == {id \in Ids : /\ Live(id) /\ id[2] = leader[2]
                               /\ regs[id].binding = regs[leader].binding}
<1>4. shared = Only(rest, GM)
  BY DEF group_members
<1> HIDE DEF n
<1>5. /\ prefix \in Seq(Ids) /\ rest \in Seq(Ids)
      /\ ToSet(queue) = ToSet(prefix) \cup {leader} \cup ToSet(rest)
      /\ IsInjective(prefix) /\ IsInjective(rest)
      /\ leader \notin ToSet(prefix) \cup ToSet(rest)
      /\ ToSet(prefix) \cap ToSet(rest) = {}
  <2>1. queue \in Seq(Ids) /\ n \in 1..Len(queue) /\ leader = queue[n] /\ IsInjective(queue)
    BY <1>2, <1>3
  <2>2. Parted(Ids, queue, n, prefix, rest)
    BY ONLY <2>1, PartsOf
  <2> HIDE DEF leader, prefix, rest
  <2> QED
    BY ONLY <2>1, <2>2 DEF Parted
<1>6. Live(leader) /\ leader \in Ids
      /\ ~active_locks_overlap(regs[leader].lockKeys)
  BY <1>2, <1>3, <1>5 DEF Admissible
<1> HIDE DEF leader, prefix, rest
<1>7. shared \in Seq(Ids) /\ ToSet(shared) = ToSet(rest) \cap GM /\ IsInjective(shared)
  BY <1>4, <1>5, OnlyKeeps
<1> HIDE DEF shared
<1>8. members \in Seq(Ids) /\ taken = {leader} \cup (ToSet(rest) \cap GM) /\ IsInjective(members)
  <2>1. <<leader>> \in Seq(Ids) /\ ToSet(<<leader>>) = {leader} /\ IsInjective(<<leader>>)
    BY <1>6 DEF ToSet, IsInjective
  <2> DEFINE one == <<leader>>
  <2>2. ToSet(one) \cap ToSet(shared) = {} /\ members = one \o shared
    BY <2>1, <1>5, <1>7
  <2>3. one \in Seq(Ids) /\ ToSet(one) = {leader} /\ IsInjective(one)
    BY <2>1
  <2> HIDE DEF one, members
  <2>4. members \in Seq(Ids) /\ ToSet(members) = ToSet(one) \cup ToSet(shared) /\ IsInjective(members)
    BY <2>2, <2>3, <1>7, ConcatSet
  <2> QED
    BY <2>3, <2>4, <1>7
<1>9. leader \in taken /\ \A id \in taken : /\ id \in Ids /\ Live(id) /\ id[2] = leader[2]
  BY <1>6, <1>8
<1>10. ToSet(prefix) \cap taken = {} /\ taken \subseteq {leader} \cup ToSet(rest)
  BY <1>5, <1>8
<1>11. kept \in Seq(Ids) /\ ToSet(kept) = ToSet(rest) \ taken /\ IsInjective(kept)
  <2>1. kept \in Seq(Ids) /\ ToSet(kept) = ToSet(rest) \cap (Ids \ taken) /\ IsInjective(kept)
    BY <1>5, OnlyKeeps
  <2>2. ToSet(rest) \subseteq Ids
    BY <1>2, <1>5
  <2> QED
    BY <2>1, <2>2
<1>12. grp \in Group /\ grp.leader = leader /\ grp.lockKeys = regs[leader].lockKeys
       /\ grp.members = members /\ grp.valid = TRUE
  <2>1. regs[leader].lockKeys \in SUBSET Keys
    BY <1>6, Typed, RegFields DEF IInv, Live
  <2> HIDE DEF members, taken
  <2> QED
    BY <2>1, <1>6, <1>8 DEF Group
<1>13. task' = [task EXCEPT ![t] = grp.leader]
  BY <1>1, <1>12
<1> HIDE DEF kept, members, GM
<1> HIDE DEF grp
<1>14. queue' \in Seq(Ids) /\ IsInjective(queue') /\ ToSet(queue') = ToSet(queue) \ taken
  <2> DEFINE q == queue'
  <2>1. TypeOK /\ QueueSet
    BY DEF IInv
  <2>2. \A id \in ToSet(prefix) : Live(id)
    BY <1>2, <1>5
  <2>3. ToSet(prefix) \cap ToSet(kept) = {}
    BY <1>5, <1>11
  <2>4. q = deferred(prefix) \o kept \o gated(prefix)
    BY <1>1
  <2> HIDE DEF q
  <2>5. q \in Seq(Ids) /\ IsInjective(q) /\ ToSet(q) = ToSet(prefix) \cup ToSet(kept)
    BY <1>5, <1>11, <2>1, <2>2, <2>3, <2>4, Rescanned
  <2>6. ToSet(q) = ToSet(queue) \ taken
    BY <2>5, <1>5, <1>9, <1>10, <1>11
  <2> QED
    BY <2>5, <2>6 DEF q
<1> HIDE DEF taken
<1>15. Registered' = Registered
  BY <1>1 DEF Registered
<1>16. \A i \in Registered :
          /\ i \in Ids /\ regs[i] \in Registration /\ regs'[i] \in Registration
          /\ regs'[i].binding = regs[i].binding /\ regs'[i].lockKeys = regs[i].lockKeys
          /\ regs'[i].dirty = regs[i].dirty
          /\ regs'[i].reconciled = regs[i].reconciled /\ regs'[i].failed = regs[i].failed
          /\ regs'[i].catchUp = IF i \in taken THEN "InFlight" ELSE regs[i].catchUp
  <2> SUFFICES ASSUME NEW i \in Registered
               PROVE  /\ i \in Ids /\ regs[i] \in Registration /\ regs'[i] \in Registration
                      /\ regs'[i].binding = regs[i].binding /\ regs'[i].lockKeys = regs[i].lockKeys
                      /\ regs'[i].dirty = regs[i].dirty
                      /\ regs'[i].reconciled = regs[i].reconciled /\ regs'[i].failed = regs[i].failed
                      /\ regs'[i].catchUp = IF i \in taken THEN "InFlight" ELSE regs[i].catchUp
    OBVIOUS
  <2>1. regs[i] \in Registration /\ i \in Ids
    BY Typed DEF IInv
  <2>2. regs'[i] = IF i \in taken THEN [regs[i] EXCEPT !.catchUp = "InFlight"] ELSE regs[i]
    BY <1>1
  <2> QED
    BY <2>1, <2>2 DEF Registration, CatchUpStates
<1>17. \A i \in taken : i \in Registered /\ regs[i].catchUp = "Queued"
  BY <1>9 DEF Live
<1> DEFINE N == Len(active) + 1
<1>18. /\ Len(active) \in Nat /\ DOMAIN active = 1..Len(active)
       /\ active' \in Seq(Group) /\ Len(active') = N /\ DOMAIN active' = 1..N
       /\ \A g \in DOMAIN active : active'[g] = active[g] /\ g # N /\ g \in DOMAIN active'
       /\ active'[N] = grp /\ N \in DOMAIN active'
       /\ \A g \in DOMAIN active' : g \in DOMAIN active \/ g = N
  <2>1. Len(active) \in Nat /\ DOMAIN active = 1..Len(active) /\ active \in Seq(Group)
    BY Typed DEF IInv
  <2> DEFINE A == active'
  <2>2. A = Append(active, grp)
    BY <1>1
  <2> HIDE DEF A
  <2>3. A \in Seq(Group) /\ Len(A) = Len(active) + 1
        /\ (\A g \in 1..Len(active) : A[g] = active[g]) /\ A[Len(active) + 1] = grp
    BY <2>1, <2>2, <1>12, AppendProperties
  <2>4. DOMAIN A = 1..N
    BY <2>3
  <2> QED
    BY <2>1, <2>3, <2>4 DEF A
<1> HIDE DEF N
<1>19. \A g \in DOMAIN active : /\ active[g].leader \in Ids /\ active[g].leader # None
                                /\ \A m \in ToSet(active[g].members) :
                                      m \in Registered /\ regs[m].catchUp = "InFlight" /\ m \notin taken
  BY <1>17, Typed DEF IInv, MembersInFlight
<1>20. TypeOK'
  <2>1. DOMAIN regs' \subseteq Ids /\ \A i \in DOMAIN regs' : regs'[i] \in Registration
    BY <1>15, <1>16 DEF Registered
  <2>2. passOf' \in [Ids -> Tasks \cup {0}]
    BY <1>1, Typed DEF IInv
  <2>3. task' \in [Tasks -> Ids \cup {None}]
    BY <1>1, <1>6, Typed DEF IInv
  <2>4. Len(active') <= CatchUpLimit
    BY <1>1, <1>18, RegistryAssumption DEF N
  <2>5. owed' \subseteq Ids
    BY <1>1 DEF IInv, TypeOK
  <2> QED
    BY <1>1, <1>14, <1>18, <2>1, <2>2, <2>3, <2>4, <2>5 DEF IInv, TypeOK
<1>21. NamesKept'
  BY <1>1, <1>15, <1>16, KeepNames DEF IInv
<1>22. TwinsSeeded'
  <2>1. \A i, j \in Registered' :
           i[1] = j[1] /\ link'[regs'[i].binding] = link'[regs'[j].binding] => i = j
    BY <1>1, <1>15, NoTwins DEF IInv
  <2> QED
    BY <2>1, TwinsFrom
<1>23. QueueSet'
  <2>1. \A i : i \in ToSet(queue') <=> (i \in Registered' /\ regs'[i].catchUp = "Queued")
    <3> SUFFICES ASSUME NEW i
                 PROVE  i \in ToSet(queue') <=> (i \in Registered' /\ regs'[i].catchUp = "Queued")
      OBVIOUS
    <3>1. i \in ToSet(queue') <=> (i \in Registered /\ regs[i].catchUp = "Queued" /\ i \notin taken)
      BY <1>2, <1>14 DEF Live
    <3> QED
      BY <3>1, <1>15, <1>16
  <2> QED
    BY <1>14, <2>1, QueueFrom
<1>24. MembersInFlight'
  <2>1. ASSUME NEW g \in DOMAIN active'
        PROVE  /\ \A m \in ToSet(active'[g].members) : m \in Registered' /\ regs'[m].catchUp = "InFlight"
               /\ IsInjective(active'[g].members)
               /\ \A h \in DOMAIN active' : h # g => ToSet(active'[g].members) \cap ToSet(active'[h].members) = {}
               /\ active'[g].valid => active'[g].leader \in ToSet(active'[g].members)
    <3>1. ToSet(grp.members) = taken /\ IsInjective(grp.members) /\ grp.leader \in ToSet(grp.members)
      BY <1>8, <1>9, <1>12 DEF taken
    <3>2. CASE g = N
      <4>1. \A m \in taken : m \in Registered' /\ regs'[m].catchUp = "InFlight"
        BY <1>15, <1>16, <1>17
      <4>2. \A h \in DOMAIN active' : h # g => taken \cap ToSet(active'[h].members) = {}
        BY <3>2, <1>18, <1>19
      <4> QED
        BY <3>1, <3>2, <4>1, <4>2, <1>18
    <3>3. CASE g \in DOMAIN active
      <4>1. /\ IsInjective(active[g].members)
            /\ \A h \in DOMAIN active : h # g => ToSet(active[g].members) \cap ToSet(active[h].members) = {}
            /\ active[g].valid => active[g].leader \in ToSet(active[g].members)
        BY <3>3 DEF IInv, MembersInFlight
      <4>2. \A m \in ToSet(active[g].members) : m \in Registered' /\ regs'[m].catchUp = "InFlight"
        BY <3>3, <1>15, <1>16, <1>19
      <4>3. \A h \in DOMAIN active' : h # g => ToSet(active[g].members) \cap ToSet(active'[h].members) = {}
        <5> SUFFICES ASSUME NEW h \in DOMAIN active', h # g
                     PROVE  ToSet(active[g].members) \cap ToSet(active'[h].members) = {}
          OBVIOUS
        <5>1. CASE h = N
          BY <5>1, <3>1, <3>3, <1>18, <1>19
        <5>2. CASE h \in DOMAIN active
          BY <5>2, <4>1, <1>18
        <5> QED
          BY <5>1, <5>2, <1>18
      <4> QED
        BY <3>3, <4>1, <4>2, <4>3, <1>18
    <3> QED
      BY <3>2, <3>3, <1>18
  <2> QED
    BY <2>1 DEF MembersInFlight
<1>25. GroupPerTask'
  BY <1>1, <1>12, <1>13, AdmitGroups DEF IInv
<1>26. RootsKept'
  <2> SUFFICES ASSUME retargets = 0
               PROVE  /\ link = FirstKey
                      /\ \A id \in Registered : /\ id[2] = FirstKey[regs'[id].binding]
                                                /\ id[2] \in regs'[id].lockKeys
                      /\ \A g \in DOMAIN active' :
                            /\ active'[g].leader[2] \in active'[g].lockKeys
                            /\ \A m \in ToSet(active'[g].members) : m[2] = active'[g].leader[2]
                            /\ \A h \in DOMAIN active' : h # g => active'[g].lockKeys \cap active'[h].lockKeys = {}
    BY <1>1, <1>15 DEF RootsKept
  <2>1. link = FirstKey /\ \A id \in Registered : /\ id[2] = FirstKey[regs[id].binding]
                                                  /\ id[2] \in regs[id].lockKeys
    BY DEF IInv, RootsKept
  <2>2. \A g \in DOMAIN active :
           /\ active[g].leader[2] \in active[g].lockKeys
           /\ \A m \in ToSet(active[g].members) : m[2] = active[g].leader[2]
           /\ \A h \in DOMAIN active : h # g => active[g].lockKeys \cap active[h].lockKeys = {}
    BY DEF IInv, RootsKept
  <2>3. grp.leader[2] \in grp.lockKeys /\ ToSet(grp.members) = taken
        /\ \A m \in taken : m[2] = grp.leader[2]
    BY <2>1, <1>6, <1>9, <1>12 DEF taken, Live
  <2>4. \A g \in DOMAIN active : active[g].lockKeys \cap grp.lockKeys = {}
    BY <1>6, <1>12 DEF active_locks_overlap
  <2>5. ASSUME NEW g \in DOMAIN active'
        PROVE  /\ active'[g].leader[2] \in active'[g].lockKeys
               /\ \A m \in ToSet(active'[g].members) : m[2] = active'[g].leader[2]
               /\ \A h \in DOMAIN active' : h # g => active'[g].lockKeys \cap active'[h].lockKeys = {}
    <3>1. CASE g = N
      <4>1. \A h \in DOMAIN active' : h # g => grp.lockKeys \cap active'[h].lockKeys = {}
        BY <3>1, <2>4, <1>18
      <4> QED
        BY <3>1, <4>1, <2>3, <1>18
    <3>2. CASE g \in DOMAIN active
      <4>1. \A h \in DOMAIN active' : h # g => active[g].lockKeys \cap active'[h].lockKeys = {}
        BY <3>2, <2>2, <2>4, <1>18
      <4> QED
        BY <3>2, <4>1, <2>2, <1>18
    <3> QED
      BY <3>1, <3>2, <1>18
  <2> QED
    BY <2>1, <2>5, <1>16
<1>27. PassMembers'
  <2> SUFFICES ASSUME retargets = 0
               PROVE  /\ \A id \in Ids : passOf'[id] # 0 => \E g \in DOMAIN active' : id \in ToSet(active'[g].members)
                      /\ \A g \in DOMAIN active' : \A m \in ToSet(active'[g].members) :
                            passOf'[m] # 0 /\ task'[passOf'[m]] = active'[g].leader
                      /\ \A id \in Registered : regs'[id].catchUp = "InFlight" => passOf'[id] # 0
    BY <1>1, <1>15 DEF PassMembers
  <2>1. /\ \A id \in Ids : passOf[id] # 0 => \E g \in DOMAIN active : id \in ToSet(active[g].members)
        /\ \A g \in DOMAIN active : \A m \in ToSet(active[g].members) :
              passOf[m] # 0 /\ task[passOf[m]] = active[g].leader
        /\ \A id \in Registered : regs[id].catchUp = "InFlight" => passOf[id] # 0
    BY DEF IInv, PassMembers
  <2>2. t # 0 /\ task \in [Tasks -> Ids \cup {None}] /\ passOf \in [Ids -> Tasks \cup {0}]
    BY Typed, RegistryAssumption DEF IInv, Tasks
  <2>3. \A id \in Ids : passOf'[id] = IF id \in taken THEN t ELSE passOf[id]
    BY <1>1
  <2>4. ToSet(active'[N].members) = taken /\ active'[N].leader = leader
    BY <1>12, <1>18 DEF taken
  <2>5. task'[t] = leader /\ \A u \in Tasks : u # t => task'[u] = task[u]
    BY <1>1, <2>2
  <2>6. ASSUME NEW id \in Ids, passOf'[id] # 0
        PROVE  \E g \in DOMAIN active' : id \in ToSet(active'[g].members)
    <3>1. CASE id \in taken
      BY <3>1, <2>4, <1>18
    <3>2. CASE id \notin taken
      BY <3>2, <2>1, <2>3, <2>6, <1>18
    <3> QED
      BY <3>1, <3>2
  <2>7. ASSUME NEW g \in DOMAIN active', NEW m \in ToSet(active'[g].members)
        PROVE  passOf'[m] # 0 /\ task'[passOf'[m]] = active'[g].leader
    <3>1. CASE g = N
      <4>1. m \in taken /\ m \in Ids
        BY <3>1, <2>4, <2>7, <1>9
      <4> QED
        BY <3>1, <4>1, <2>2, <2>3, <2>4, <2>5
    <3>2. CASE g \in DOMAIN active
      <4>1. m \in ToSet(active[g].members)
        BY <3>2, <2>7, <1>18
      <4>2. m \notin taken /\ m \in Ids
        BY <3>2, <4>1, <1>16, <1>19
      <4>3. passOf[m] # 0 /\ task[passOf[m]] = active[g].leader /\ active[g].leader # None
        BY <3>2, <4>1, <2>1, <1>19
      <4>4. passOf'[m] = passOf[m] /\ passOf[m] \in Tasks /\ passOf[m] # t
        BY <4>2, <4>3, <2>2, <2>3, <1>1
      <4> QED
        BY <3>2, <4>3, <4>4, <2>5, <1>18
    <3> QED
      BY <3>1, <3>2, <1>18
  <2>8. \A id \in Registered : regs'[id].catchUp = "InFlight" => passOf'[id] # 0
    BY <2>1, <2>2, <2>3, <1>16
  <2> QED
    BY <2>6, <2>7, <2>8
<1>28. EventCovered'
  <2> SUFFICES ASSUME retargets = 0, NEW i \in owed'
               PROVE  /\ i \in Registered
                      /\ \/ regs'[i].catchUp = "Queued"
                         \/ regs'[i].catchUp = "InFlight" /\ regs'[i].dirty
    BY <1>1, <1>15 DEF EventCovered
  <2>1. i \in owed /\ i \notin taken
    BY <1>1
  <2> QED
    BY <2>1, <1>16 DEF IInv, EventCovered
<1>29. NoLostWakeup'
  <2>1. \A i : WaitedFor(i) => /\ i \in Registered' /\ ~regs'[i].reconciled /\ ~regs'[i].failed
                               /\ regs'[i].catchUp \in {"Queued", "InFlight"}
    BY <1>15, <1>16 DEF WaitedFor
  <2> QED
    BY <1>1, <2>1, WakeupFrom DEF IInv
<1> QED
  BY <1>20, <1>21, <1>22, <1>23, <1>24, <1>25, <1>26, <1>27, <1>28, <1>29 DEF IInv

-----------------------------------------------------------------------------
(* Completion.                                                             *)

\* What a finished pass leaves of a member.
LEMMA SettledFields ==
    ASSUME TypeOK, NEW m \in Registered, NEW l, NEW ok \in BOOLEAN
    PROVE  /\ Settled(m, l, ok) \in Registration
           /\ Settled(m, l, ok).binding = regs[m].binding
           /\ Settled(m, l, ok).lockKeys = regs[m].lockKeys
           /\ Settled(m, l, ok).catchUp = IF ok /\ ~regs[m].dirty THEN "Done" ELSE "Queued"
<1> DEFINE rec == regs[m].reconciled \/ ok \/ m = l
           ret == regs[m].retry \/ ~ok
           dir == IF ok THEN regs[m].dirty /\ m # l ELSE TRUE
           cat == IF ok /\ ~regs[m].dirty THEN "Done" ELSE "Queued"
           no == ~ok
<1>1. regs[m] \in Registration
  BY Typed
<1>2. rec \in BOOLEAN /\ ret \in BOOLEAN /\ dir \in BOOLEAN /\ no \in BOOLEAN /\ cat \in CatchUpStates
  BY <1>1, RegFields DEF CatchUpStates
<1>3. Settled(m, l, ok) = [regs[m] EXCEPT !.reconciled = rec, !.failed = no, !.retry = ret,
                                          !.dirty = dir, !.catchUp = cat]
  BY DEF Settled
<1> HIDE DEF rec, ret, dir, no
<1>4. /\ Settled(m, l, ok) \in Registration
      /\ Settled(m, l, ok).binding = regs[m].binding
      /\ Settled(m, l, ok).lockKeys = regs[m].lockKeys
      /\ Settled(m, l, ok).catchUp = cat
  <2> HIDE DEF cat
  <2> QED
    BY <1>1, <1>2, <1>3 DEF Registration
<1> QED
  BY <1>4

\* The finished task's group is found, and it is settled as a whole.
LEMMA FoundGroup ==
    ASSUME IInv, NEW t \in Tasks, task[t] # None, NEW g,
           g = SelectInSeq(active, LAMBDA grp : grp.leader = task[t])
    PROVE  /\ g \in DOMAIN active /\ g # 0 /\ active[g].leader = task[t]
           /\ FinishedMembers(task[t], g) = active[g].members
<1> DEFINE I == {i \in 1..Len(active) : active[i].leader = task[t]}
<1>1. g = IF I # {} THEN Min(I) ELSE 0
  BY DEF SelectInSeq
<1>2. I # {}
  <2>1. PICK f \in Bijection(Busy, DOMAIN active) : \A u \in Busy : active[f[u]].leader = task[u]
    BY DEF IInv, GroupPerTask
  <2>2. t \in Busy
    BY DEF Busy
  <2>3. f[t] \in 1..Len(active) /\ active[f[t]].leader = task[t]
    BY <2>1, <2>2, Typed DEF Bijection, Injection, IInv
  <2> QED
    BY <2>3
<1>3. g \in I
  <2>1. I \in SUBSET Nat
    OBVIOUS
  <2> HIDE DEF I
  <2> QED
    BY <1>1, <1>2, <2>1, MinOf
<1>4. g \in DOMAIN active /\ g # 0 /\ active[g].leader = task[t]
  BY <1>3, Typed DEF IInv
<1>5. active[g].members # <<>> \/ ~active[g].valid
  <2> SUFFICES ASSUME active[g].members = <<>>, active[g].valid PROVE FALSE
    OBVIOUS
  <2>1. active[g].leader \in ToSet(active[g].members)
    BY <1>4 DEF IInv, MembersInFlight
  <2> QED
    BY <2>1 DEF ToSet
<1>6. FinishedMembers(task[t], g) = active[g].members
  BY <1>4, <1>5 DEF FinishedMembers
<1> QED
  BY <1>4, <1>6

\* Before a retarget the task's pass took exactly the members of its group.
LEMMA PassOfGroup ==
    ASSUME IInv, retargets = 0, NEW t \in Tasks, task[t] # None,
           NEW g \in DOMAIN active, active[g].leader = task[t], NEW i \in Ids
    PROVE  passOf[i] = t <=> i \in ToSet(active[g].members)
<1>1. /\ \A id \in Ids : passOf[id] # 0 => \E h \in DOMAIN active : id \in ToSet(active[h].members)
      /\ \A h \in DOMAIN active : \A m \in ToSet(active[h].members) :
            passOf[m] # 0 /\ task[passOf[m]] = active[h].leader
  BY DEF IInv, PassMembers
<1>2. \A h, k \in DOMAIN active : active[h].leader = active[k].leader => h = k
  BY DEF IInv, RootsKept
<1>3. t # 0 /\ passOf[i] \in Tasks \cup {0}
  BY Typed, RegistryAssumption DEF IInv, Tasks
<1>4. ASSUME passOf[i] = t PROVE i \in ToSet(active[g].members)
  <2>1. PICK h \in DOMAIN active : i \in ToSet(active[h].members)
    BY <1>1, <1>3, <1>4
  <2>2. active[h].leader = task[t]
    BY <2>1, <1>1, <1>4
  <2> QED
    BY <2>1, <2>2, <1>2
<1>5. ASSUME i \in ToSet(active[g].members) PROVE passOf[i] = t
  <2> DEFINE u == passOf[i]
  <2>1. u # 0 /\ task[u] = task[t]
    BY <1>1, <1>5
  <2>2. u \in Busy /\ t \in Busy
    BY <2>1, <1>3 DEF Busy
  <2>3. PICK f \in Bijection(Busy, DOMAIN active) : \A v \in Busy : active[f[v]].leader = task[v]
    BY DEF IInv, GroupPerTask
  <2> HIDE DEF u
  <2>4. f[u] \in DOMAIN active /\ f[t] \in DOMAIN active /\ (f[u] = f[t] => u = t)
    BY <2>2 DEF Bijection, Injection, IsInjective
  <2>5. f[u] = f[t]
    BY <2>1, <2>2, <2>3, <2>4, <1>2
  <2> QED
    BY <2>4, <2>5 DEF u
<1> QED
  BY <1>4, <1>5

\* A pass finishes.
LEMMA FinishStep ==
    ASSUME IInv, NEW t \in Tasks, NEW ok \in BOOLEAN, finish_catch_up(t, ok)
    PROVE  IInv'
<1> DEFINE g == SelectInSeq(active, LAMBDA grp : grp.leader = task[t])
           l == task[t]
           members == FinishedMembers(l, g)
           M == ToSet(members)
           requeued == Only(members, {m \in Registered : Settled(m, l, ok).catchUp = "Queued"})
<1>1. /\ task[t] # None
      /\ regs' = [i \in Registered |-> IF i \in M THEN Settled(i, l, ok) ELSE regs[i]]
      /\ queue' = queue \o requeued
      /\ active' = IF g = 0 THEN active ELSE RemoveAt(active, g)
      /\ task' = [task EXCEPT ![t] = None]
      /\ passOf' = [i \in Ids |-> IF passOf[i] = t THEN 0 ELSE passOf[i]]
      /\ owed' = IF ok THEN owed ELSE owed \cup {i \in Registered : passOf[i] = t}
      /\ IF g = 0 /\ l \notin Registered
           THEN UNCHANGED <<signal, waiter>>
           ELSE signal' = TRUE /\ NotifySettled
      /\ UNCHANGED <<pump, link, changes, retargets>>
  BY DEF finish_catch_up, Finish, bounds
<1>2. g \in DOMAIN active /\ g # 0 /\ active[g].leader = l /\ members = active[g].members
  BY <1>1, FoundGroup
<1> HIDE DEF g
<1>3. members \in Seq(Ids) /\ IsInjective(members)
      /\ \A m \in M : m \in Registered /\ regs[m].catchUp = "InFlight"
  BY <1>2, Typed DEF IInv, MembersInFlight
<1>4. active' = RemoveAt(active, g) /\ signal' = TRUE /\ NotifySettled
  BY <1>1, <1>2
<1>5. M = ToSet(active[g].members)
  BY <1>2
<1> DEFINE S == {m \in Registered : Settled(m, l, ok).catchUp = "Queued"}
<1>6. requeued \in Seq(Ids) /\ ToSet(requeued) = M \cap S /\ IsInjective(requeued)
  BY <1>3, OnlyKeeps
<1>7. queue' = queue \o requeued
  BY <1>1
<1> HIDE DEF members, requeued, S, M
<1>8. queue \in Seq(Ids) /\ IsInjective(queue)
      /\ \A i : i \in ToSet(queue) <=> (i \in Registered /\ regs[i].catchUp = "Queued")
  BY Typed DEF IInv, QueueSet
<1>9. queue' \in Seq(Ids) /\ IsInjective(queue') /\ ToSet(queue') = ToSet(queue) \cup (M \cap S)
  <2>1. ToSet(queue) \cap ToSet(requeued) = {}
    BY <1>3, <1>6, <1>8
  <2> DEFINE q == queue'
  <2>2. q = queue \o requeued
    BY <1>7
  <2> HIDE DEF q
  <2>3. q \in Seq(Ids) /\ IsInjective(q) /\ ToSet(q) = ToSet(queue) \cup ToSet(requeued)
    BY <1>6, <1>8, <2>1, <2>2, ConcatSet
  <2> QED
    BY <2>3, <1>6 DEF q
<1>10. Registered' = Registered
  BY <1>1 DEF Registered
<1>11. \A i \in Registered :
          /\ i \in Ids /\ regs'[i] \in Registration
          /\ regs'[i].binding = regs[i].binding /\ regs'[i].lockKeys = regs[i].lockKeys
          /\ i \in M => /\ regs'[i].catchUp = IF ok /\ ~regs[i].dirty THEN "Done" ELSE "Queued"
                        /\ i \in S <=> regs'[i].catchUp = "Queued"
          /\ i \notin M => regs'[i] = regs[i]
  <2> SUFFICES ASSUME NEW i \in Registered
               PROVE  /\ i \in Ids /\ regs'[i] \in Registration
                      /\ regs'[i].binding = regs[i].binding /\ regs'[i].lockKeys = regs[i].lockKeys
                      /\ i \in M => /\ regs'[i].catchUp = IF ok /\ ~regs[i].dirty THEN "Done" ELSE "Queued"
                                    /\ i \in S <=> regs'[i].catchUp = "Queued"
                      /\ i \notin M => regs'[i] = regs[i]
    OBVIOUS
  <2>1. i \in Ids /\ regs[i] \in Registration
    BY Typed DEF IInv
  <2>2. CASE i \in M
    <3>1. regs'[i] = Settled(i, l, ok)
      BY <1>1, <2>2
    <3>2. i \in S <=> Settled(i, l, ok).catchUp = "Queued"
      BY DEF S
    <3>3. /\ Settled(i, l, ok) \in Registration
          /\ Settled(i, l, ok).binding = regs[i].binding
          /\ Settled(i, l, ok).lockKeys = regs[i].lockKeys
          /\ Settled(i, l, ok).catchUp = IF ok /\ ~regs[i].dirty THEN "Done" ELSE "Queued"
      BY SettledFields DEF IInv
    <3> QED
      BY <2>1, <2>2, <3>1, <3>2, <3>3
  <2>3. CASE i \notin M
    <3>1. regs'[i] = regs[i]
      BY <1>1, <2>3
    <3> QED
      BY <2>1, <2>3, <3>1
  <2> QED
    BY <2>2, <2>3
<1> DEFINE A == active'
           k(i) == IF i < g THEN i ELSE i + 1
<1>12. /\ Len(active) \in Nat /\ DOMAIN active = 1..Len(active) /\ active \in Seq(Group) /\ g \in Nat
  BY <1>2, Typed DEF IInv
<1>13. /\ A \in Seq(Group) /\ Len(A) = Len(active) - 1 /\ DOMAIN A = 1..(Len(active) - 1)
       /\ \A i \in DOMAIN A : A[i] = active[k(i)]
  <2>1. A = RemoveAt(active, g)
    BY <1>4
  <2> HIDE DEF A
  <2>2. active \in Seq(Group) /\ g \in DOMAIN active
    BY <1>2, <1>12
  <2>3. /\ A \in Seq(Group) /\ Len(A) = Len(active) - 1 /\ DOMAIN A = 1..(Len(active) - 1)
        /\ \A i \in 1..(Len(active) - 1) : A[i] = active[IF i < g THEN i ELSE i + 1]
    BY ONLY <2>1, <2>2, Without
  <2> QED
    BY ONLY <2>3
<1>14. /\ \A i \in DOMAIN A : k(i) \in DOMAIN active /\ k(i) # g
       /\ \A i, j \in DOMAIN A : k(i) = k(j) => i = j
  BY <1>2, <1>12, <1>13
<1>15. \A h \in DOMAIN active : h # g => \E i \in DOMAIN A : k(i) = h
  <2> SUFFICES ASSUME NEW h \in 1..Len(active), h # g PROVE \E i \in 1..(Len(active) - 1) : k(i) = h
    BY <1>12, <1>13
  <2>1. CASE h < g
    <3>1. h \in 1..(Len(active) - 1) /\ k(h) = h
      BY <2>1, <1>2, <1>12
    <3> QED
      BY <3>1
  <2>2. CASE ~(h < g)
    <3>1. h - 1 \in 1..(Len(active) - 1) /\ k(h - 1) = h
      BY <2>2, <1>2, <1>12
    <3> QED
      BY <3>1
  <2> QED
    BY <2>1, <2>2
<1> HIDE DEF k, A, l
<1>16. TypeOK'
  <2>1. DOMAIN regs' \subseteq Ids /\ \A i \in DOMAIN regs' : regs'[i] \in Registration
    BY <1>10, <1>11 DEF Registered
  <2>2. passOf' \in [Ids -> Tasks \cup {0}]
    BY <1>1, Typed DEF IInv
  <2>3. task' \in [Tasks -> Ids \cup {None}]
    BY <1>1, Typed DEF IInv
  <2>4. active' \in Seq(Group) /\ Len(active') <= CatchUpLimit
    BY <1>12, <1>13, RegistryAssumption DEF A, IInv, TypeOK
  <2>5. owed' \subseteq Ids
    BY <1>1, <1>11 DEF IInv, TypeOK
  <2>6. waiter' \in [at : {"idle", "armed", "waiting"}, woken : BOOLEAN, source : Sources \cup {None}]
    BY <1>4, NotifiedType DEF IInv
  <2> QED
    BY <1>1, <1>4, <1>9, <2>1, <2>2, <2>3, <2>4, <2>5, <2>6 DEF IInv, TypeOK
<1>17. NamesKept'
  BY <1>1, <1>10, <1>11, KeepNames DEF IInv
<1>18. TwinsSeeded'
  <2> SUFFICES ASSUME NEW i \in Registered, NEW j \in Registered, i # j, i[1] = j[1],
                      link[regs'[i].binding] = link[regs'[j].binding]
               PROVE  /\ pump \in {"down", "refresh"}
                      /\ i[2] = link[regs'[i].binding] \/ j[2] = link[regs'[j].binding]
                      /\ i[2] = link[regs'[i].binding] => regs'[i].catchUp = "Done" /\ regs'[i].reconciled
    BY <1>1, <1>10 DEF TwinsSeeded
  <2>0. regs'[i].binding = regs[i].binding /\ regs'[j].binding = regs[j].binding
    BY <1>11
  <2>1. /\ pump \in {"down", "refresh"}
        /\ i[2] = link[regs[i].binding] \/ j[2] = link[regs[j].binding]
        /\ i[2] = link[regs[i].binding] => regs[i].catchUp = "Done" /\ regs[i].reconciled
    BY <2>0 DEF IInv, TwinsSeeded
  <2>2. i[2] = link[regs[i].binding] => i \notin M
    BY <2>1, <1>3
  <2> QED
    BY <2>0, <2>1, <2>2, <1>11
<1>19. QueueSet'
  <2>1. \A i : i \in ToSet(queue') <=> (i \in Registered' /\ regs'[i].catchUp = "Queued")
    <3> SUFFICES ASSUME NEW i
                 PROVE  i \in ToSet(queue') <=> (i \in Registered' /\ regs'[i].catchUp = "Queued")
      OBVIOUS
    <3>1. CASE i \in M
      BY <3>1, <1>3, <1>8, <1>9, <1>10, <1>11
    <3>2. CASE i \notin M
      BY <3>2, <1>8, <1>9, <1>10, <1>11
    <3> QED
      BY <3>1, <3>2
  <2> QED
    BY <1>9, <2>1, QueueFrom
<1>20. \A h \in DOMAIN active :
          /\ \A m \in ToSet(active[h].members) : m \in Registered /\ regs[m].catchUp = "InFlight"
          /\ IsInjective(active[h].members)
          /\ \A j \in DOMAIN active : j # h => ToSet(active[h].members) \cap ToSet(active[j].members) = {}
          /\ active[h].valid => active[h].leader \in ToSet(active[h].members)
  BY DEF IInv, MembersInFlight
<1>21. \A i \in DOMAIN A : \A m \in ToSet(A[i].members) : m \in Registered /\ m \notin M /\ regs[m].catchUp = "InFlight"
  <2> SUFFICES ASSUME NEW i \in DOMAIN A, NEW m \in ToSet(A[i].members)
               PROVE  m \in Registered /\ m \notin M /\ regs[m].catchUp = "InFlight"
    OBVIOUS
  <2>1. k(i) \in DOMAIN active /\ k(i) # g /\ A[i] = active[k(i)]
    BY <1>13, <1>14
  <2>2. m \in ToSet(active[k(i)].members)
    BY <2>1
  <2>3. ToSet(active[k(i)].members) \cap M = {}
    BY <2>1, <1>2, <1>5, <1>20
  <2> QED
    BY <2>1, <2>2, <2>3, <1>20
<1>22. MembersInFlight'
  <2>1. ASSUME NEW i \in DOMAIN A
        PROVE  /\ \A m \in ToSet(A[i].members) : m \in Registered' /\ regs'[m].catchUp = "InFlight"
               /\ IsInjective(A[i].members)
               /\ \A j \in DOMAIN A : j # i => ToSet(A[i].members) \cap ToSet(A[j].members) = {}
               /\ A[i].valid => A[i].leader \in ToSet(A[i].members)
    <3>1. \A m \in ToSet(A[i].members) : m \in Registered' /\ regs'[m].catchUp = "InFlight"
      BY <1>10, <1>11, <1>21
    <3>2. \A j \in DOMAIN A : j # i => ToSet(A[i].members) \cap ToSet(A[j].members) = {}
      <4> SUFFICES ASSUME NEW j \in DOMAIN A, j # i PROVE ToSet(A[i].members) \cap ToSet(A[j].members) = {}
        OBVIOUS
      <4>1. k(i) \in DOMAIN active /\ k(j) \in DOMAIN active /\ k(i) # k(j)
        BY <1>14
      <4>2. A[i] = active[k(i)] /\ A[j] = active[k(j)]
        BY <1>13
      <4> QED
        BY <4>1, <4>2, <1>20
    <3>3. IsInjective(A[i].members) /\ (A[i].valid => A[i].leader \in ToSet(A[i].members))
      BY <1>13, <1>14, <1>20
    <3> QED
      BY <3>1, <3>2, <3>3
  <2> QED
    BY <2>1 DEF MembersInFlight, A
<1>23. GroupPerTask'
  <2>1. active[g].leader = task[t]
    BY <1>2 DEF l
  <2> QED
    BY <1>1, <1>2, <1>4, <2>1, FinishGroups DEF IInv
<1>24. RootsKept'
  <2> SUFFICES ASSUME retargets = 0
               PROVE  /\ link = FirstKey
                      /\ \A id \in Registered : /\ id[2] = FirstKey[regs'[id].binding]
                                                /\ id[2] \in regs'[id].lockKeys
                      /\ \A i \in DOMAIN A :
                            /\ A[i].leader[2] \in A[i].lockKeys
                            /\ \A m \in ToSet(A[i].members) : m[2] = A[i].leader[2]
                            /\ \A j \in DOMAIN A : j # i => A[i].lockKeys \cap A[j].lockKeys = {}
    BY <1>1, <1>10 DEF RootsKept, A
  <2>1. link = FirstKey /\ \A id \in Registered : /\ id[2] = FirstKey[regs[id].binding]
                                                  /\ id[2] \in regs[id].lockKeys
    BY DEF IInv, RootsKept
  <2>2. \A h \in DOMAIN active :
           /\ active[h].leader[2] \in active[h].lockKeys
           /\ \A m \in ToSet(active[h].members) : m[2] = active[h].leader[2]
           /\ \A j \in DOMAIN active : j # h => active[h].lockKeys \cap active[j].lockKeys = {}
    BY DEF IInv, RootsKept
  <2>3. ASSUME NEW i \in DOMAIN A
        PROVE  /\ A[i].leader[2] \in A[i].lockKeys
               /\ \A m \in ToSet(A[i].members) : m[2] = A[i].leader[2]
               /\ \A j \in DOMAIN A : j # i => A[i].lockKeys \cap A[j].lockKeys = {}
    <3>1. k(i) \in DOMAIN active /\ A[i] = active[k(i)]
      BY <1>13, <1>14
    <3>2. \A j \in DOMAIN A : j # i => A[i].lockKeys \cap A[j].lockKeys = {}
      <4> SUFFICES ASSUME NEW j \in DOMAIN A, j # i PROVE A[i].lockKeys \cap A[j].lockKeys = {}
        OBVIOUS
      <4>1. k(j) \in DOMAIN active /\ k(i) # k(j) /\ A[j] = active[k(j)]
        BY <1>13, <1>14
      <4> QED
        BY <3>1, <4>1, <2>2
    <3> QED
      BY <3>1, <3>2, <2>2
  <2> QED
    BY <2>1, <2>3, <1>11
<1>25. retargets = 0 => \A i \in Ids : passOf[i] = t <=> i \in M
  BY <1>1, <1>2, <1>5, PassOfGroup DEF l
<1>26. PassMembers'
  <2> SUFFICES ASSUME retargets = 0
               PROVE  /\ \A id \in Ids : passOf'[id] # 0 => \E i \in DOMAIN A : id \in ToSet(A[i].members)
                      /\ \A i \in DOMAIN A : \A m \in ToSet(A[i].members) :
                            passOf'[m] # 0 /\ task'[passOf'[m]] = A[i].leader
                      /\ \A id \in Registered : regs'[id].catchUp = "InFlight" => passOf'[id] # 0
    BY <1>1, <1>10 DEF PassMembers, A
  <2>1. /\ \A id \in Ids : passOf[id] # 0 => \E h \in DOMAIN active : id \in ToSet(active[h].members)
        /\ \A h \in DOMAIN active : \A m \in ToSet(active[h].members) :
              passOf[m] # 0 /\ task[passOf[m]] = active[h].leader
        /\ \A id \in Registered : regs[id].catchUp = "InFlight" => passOf[id] # 0
    BY DEF IInv, PassMembers
  <2>2. \A i \in Ids : /\ passOf'[i] = IF passOf[i] = t THEN 0 ELSE passOf[i]
                       /\ passOf[i] \in Tasks \cup {0}
                       /\ passOf[i] = t <=> i \in M
    BY <1>1, <1>25, Typed DEF IInv
  <2>3. \A u \in Tasks : u # t => task'[u] = task[u]
    BY <1>1, Typed DEF IInv
  <2>4. ASSUME NEW id \in Ids, passOf'[id] # 0
        PROVE  \E i \in DOMAIN A : id \in ToSet(A[i].members)
    <3>1. passOf[id] # 0 /\ id \notin M
      BY <2>2, <2>4
    <3>2. PICK h \in DOMAIN active : id \in ToSet(active[h].members)
      BY <3>1, <2>1
    <3>3. h # g
      BY <3>1, <3>2, <1>5
    <3>4. PICK i \in DOMAIN A : k(i) = h
      BY <3>3, <1>15
    <3> QED
      BY <3>2, <3>4, <1>13
  <2>5. ASSUME NEW i \in DOMAIN A, NEW m \in ToSet(A[i].members)
        PROVE  passOf'[m] # 0 /\ task'[passOf'[m]] = A[i].leader
    <3>1. k(i) \in DOMAIN active /\ A[i] = active[k(i)]
      BY <1>13, <1>14
    <3>2. m \in Ids /\ m \notin M
      BY <1>11, <1>21
    <3>3. passOf[m] # 0 /\ task[passOf[m]] = A[i].leader
      BY <3>1, <2>1, <2>5
    <3> QED
      BY <3>2, <3>3, <2>2, <2>3
  <2>6. ASSUME NEW id \in Registered, regs'[id].catchUp = "InFlight" PROVE passOf'[id] # 0
    <3>1. id \notin M /\ regs[id].catchUp = "InFlight" /\ id \in Ids
      BY <2>6, <1>11
    <3> QED
      BY <3>1, <2>1, <2>2
  <2> QED
    BY <2>4, <2>5, <2>6
<1>27. EventCovered'
  <2> SUFFICES ASSUME retargets = 0, NEW i \in owed'
               PROVE  /\ i \in Registered
                      /\ \/ regs'[i].catchUp = "Queued"
                         \/ regs'[i].catchUp = "InFlight" /\ regs'[i].dirty
    BY <1>1, <1>10 DEF EventCovered
  <2>1. CASE i \in owed
    <3>1. /\ i \in Registered
          /\ \/ regs[i].catchUp = "Queued"
             \/ regs[i].catchUp = "InFlight" /\ regs[i].dirty
      BY <2>1 DEF IInv, EventCovered
    <3>2. CASE i \in M
      BY <3>1, <3>2, <1>3, <1>11
    <3>3. CASE i \notin M
      BY <3>1, <3>3, <1>11
    <3> QED
      BY <3>2, <3>3
  <2>2. CASE i \notin owed
    <3>1. ~ok /\ i \in Registered /\ passOf[i] = t
      BY <2>2, <1>1
    <3>2. i \in M
      BY <3>1, <1>11, <1>25
    <3> QED
      BY <3>1, <3>2, <1>11
  <2> QED
    BY <2>1, <2>2
<1>28. NoLostWakeup'
  BY <1>4, WakeupNotified DEF IInv
<1> QED
  BY <1>16, <1>17, <1>18, <1>19, <1>22, <1>23, <1>24, <1>26, <1>27, <1>28 DEF IInv

-----------------------------------------------------------------------------
(* The invariant and what it implies.                                      *)

\* Every step keeps the invariant.
LEMMA NextInv == IInv /\ [Next]_vars => IInv'
<1> SUFFICES ASSUME IInv, [Next]_vars PROVE IInv'
  OBVIOUS
<1>1. CASE StartPump
  BY <1>1, StartStep
<1>2. CASE PumpDies \/ StartTick \/ WakePump \/ BackstopReconcile
  BY <1>2, PumpMoves
<1>3. CASE \E o \in Offers : register(o[1], o[2]) \/ register_unchanged(o[1], o[2])
  <2>1. PICK o \in Offers : register(o[1], o[2]) \/ register_unchanged(o[1], o[2])
    BY <1>3
  <2> DEFINE s == o[1]
             b == o[2]
  <2>2. s \in Sources /\ b \in Bindings
    BY RegistryAssumption
  <2>3. register(s, b) \/ register_unchanged(s, b)
    BY <2>1
  <2> HIDE DEF s, b
  <2> QED
    BY <2>2, <2>3, RegisterStep, UnchangedStep
<1>4. CASE \E s \in Sources, bs \in Layers : replace_source(s, bs)
  BY <1>4, ReplaceStep
<1>5. CASE \E id \in Ids : record_pending(id)
  BY <1>5, RecordStep
<1>6. CASE mark_reconcile_due_all
  BY <1>6, TickStep
<1>7. CASE refresh_roots
  BY <1>7, RefreshStep
<1>8. CASE \E b \in Bindings, k \in Keys : Retarget(b, k)
  BY <1>8, RetargetStep
<1>9. CASE \E t \in Tasks : begin_next_catch_up(t)
  BY <1>9, BeginStep
<1>10. CASE NothingToAdmit
  BY <1>10, NothingStep
<1>11. CASE \E t \in Tasks, ok \in BOOLEAN : finish_catch_up(t, ok)
  BY <1>11, FinishStep
<1>12. CASE (\E s \in Waited : ArmWait(s)) \/ CheckWait \/ WokenWait \/ TimeoutWait
  BY <1>12, WaiterMoves
<1>13. CASE UNCHANGED vars
  <2>1. /\ UNCHANGED <<regs, queue, active, task, link, bounds, ghosts>>
        /\ UNCHANGED <<signal, pump, waiter>>
    BY <1>13 DEF vars, core, bounds, ghosts
  <2>2. TypeOK'
    BY <2>1 DEF IInv, TypeOK, bounds, ghosts
  <2> QED
    BY <2>1, <2>2, LedgerKept, WaiterKept DEF IInv
<1> QED
  BY <1>1, <1>2, <1>3, <1>4, <1>5, <1>6, <1>7, <1>8, <1>9, <1>10, <1>11, <1>12, <1>13 DEF Next

\* IInv is an invariant of the watcher's registration ledger.
THEOREM Invariance == Spec => []IInv
<1>1. Init => IInv
  BY InitInv
<1> QED
  BY <1>1, NextInv, PTL DEF Spec

\* The registry's state keeps its types: in particular no more groups are
\* admitted than there are slots.
THEOREM TypeCorrect == Spec => []TypeOK
<1>1. IInv => TypeOK
  BY DEF IInv
<1> QED
  BY <1>1, Invariance, PTL

\* A queue that holds the Queued registrations, each once, is exact.
LEMMA QueueSetExact == ASSUME TypeOK, QueueSet PROVE QueueExact
<1> SUFFICES ASSUME NEW id \in Ids
             PROVE  Occurrences(id) = IF id \in Registered /\ regs[id].catchUp = "Queued" THEN 1 ELSE 0
  BY DEF QueueExact
<1> DEFINE I == {i \in DOMAIN queue : queue[i] = id}
<1>1. id \in ToSet(queue) <=> (id \in Registered /\ regs[id].catchUp = "Queued")
  BY DEF QueueSet
<1>2. \A i, j \in DOMAIN queue : queue[i] = queue[j] => i = j
  BY DEF QueueSet, IsInjective
<1>3. CASE id \in ToSet(queue)
  <2>1. PICK i \in DOMAIN queue : queue[i] = id
    BY <1>3 DEF ToSet
  <2>2. I = {i}
    BY <2>1, <1>2
  <2>3. Cardinality(I) = 1
    BY <2>2, FS_Singleton
  <2> QED
    BY <2>3, <1>1, <1>3 DEF Occurrences
<1>4. CASE id \notin ToSet(queue)
  <2>1. I = {}
    BY <1>4 DEF ToSet
  <2>2. Cardinality(I) = 0
    BY <2>1, FS_EmptySet
  <2> QED
    BY <2>2, <1>1, <1>4 DEF Occurrences
<1> QED
  BY <1>3, <1>4

\* Where each running task has a group of its own, the slots are exact.
LEMMA GroupsExact == ASSUME TypeOK, GroupPerTask PROVE SlotsExact
<1>1. Len(active) \in Nat /\ DOMAIN active = 1..Len(active)
  BY Typed
<1>2. IsFiniteSet(Busy)
  <2>0. 1 \in Int /\ CatchUpLimit \in Int
    BY RegistryAssumption
  <2>1. IsFiniteSet(1..CatchUpLimit)
    BY ONLY <2>0, FS_Interval
  <2> QED
    BY <2>1, FS_Subset DEF Busy, Tasks
<1>3. ExistsBijection(Busy, 1..Len(active))
  BY <1>1 DEF GroupPerTask, ExistsBijection
<1>4. Cardinality(1..Len(active)) = Cardinality(Busy)
  BY <1>2, <1>3, FS_Bijection
<1>5. Cardinality(1..Len(active)) = Len(active)
  <2> DEFINE n == Len(active)
  <2>1. n \in Nat /\ 1 \in Int /\ n \in Int
    BY <1>1
  <2> HIDE DEF n
  <2>2. Cardinality(1..n) = IF 1 > n THEN 0 ELSE n - 1 + 1
    BY ONLY <2>1, FS_Interval
  <2>3. Cardinality(1..n) = n
    BY ONLY <2>1, <2>2
  <2> QED
    BY <2>3 DEF n
<1> QED
  BY <1>4, <1>5 DEF SlotsExact, Busy

\* Before a retarget two passes never have registrations of one key.
LEMMA PassesApart ==
    ASSUME IInv, retargets = 0, NEW a \in Ids, NEW b \in Ids,
           passOf[a] # 0, passOf[b] # 0, passOf[a] # passOf[b]
    PROVE  a[2] # b[2]
<1>1. /\ \A id \in Ids : passOf[id] # 0 => \E g \in DOMAIN active : id \in ToSet(active[g].members)
      /\ \A g \in DOMAIN active : \A m \in ToSet(active[g].members) :
            passOf[m] # 0 /\ task[passOf[m]] = active[g].leader
  BY DEF IInv, PassMembers
<1>2. PICK g \in DOMAIN active : a \in ToSet(active[g].members)
  BY <1>1
<1>3. PICK h \in DOMAIN active : b \in ToSet(active[h].members)
  BY <1>1
<1>4. g # h
  <2> DEFINE t == passOf[a]
  <2>1. t \in Tasks /\ task[t] = active[g].leader
    BY <1>1, <1>2, Typed DEF IInv
  <2>2. active[g].leader \in Ids /\ None \notin Ids
    BY <1>2, Typed DEF IInv, Group
  <2> HIDE DEF t
  <2>3. passOf[b] = t <=> b \in ToSet(active[g].members)
    BY <2>1, <2>2, PassOfGroup
  <2> QED
    BY <2>3, <1>3 DEF t
<1> QED
  BY <1>2, <1>3, <1>4 DEF IInv, RootsKept

\* A registration is in flight exactly while its pass runs.
LEMMA PassesOwned == IInv => PassOwned
<1> SUFFICES ASSUME IInv, retargets = 0
             PROVE  /\ \A id \in Ids : (id \in Registered /\ regs[id].catchUp = "InFlight") <=> passOf[id] # 0
                    /\ \A a, b \in Registered :
                          passOf[a] # 0 /\ passOf[b] # 0 /\ passOf[a] # passOf[b] => a[2] # b[2]
  BY DEF PassOwned
<1>1. \A a, b \in Registered : passOf[a] # 0 /\ passOf[b] # 0 /\ passOf[a] # passOf[b] => a[2] # b[2]
  <2>1. Registered \subseteq Ids
    BY DEF IInv, TypeOK, Registered
  <2> QED
    BY <2>1, PassesApart
<1>2. ASSUME NEW id \in Ids PROVE (id \in Registered /\ regs[id].catchUp = "InFlight") <=> passOf[id] # 0
  BY DEF IInv, PassMembers, MembersInFlight
<1> QED
  BY <1>1, <1>2

\* The queue holds every Queued registration once and nothing else, and a
\* running task, and only it, holds a slot: through re-registration, reload,
\* re-keying, events, ticks, finished passes and restarts of the pump.
THEOREM AdmissionExactHolds == Spec => []AdmissionExact
<1>1. IInv => AdmissionExact
  BY QueueSetExact, GroupsExact DEF IInv, AdmissionExact
<1> QED
  BY <1>1, Invariance, PTL

\* Until a root is retargeted a registration is InFlight exactly while the
\* pass that took it runs, and no two passes share a corpus key.
THEOREM PassOwnedHolds == Spec => []PassOwned
<1> QED
  BY PassesOwned, Invariance, PTL

\* An event recorded for a registration keeps it queued, or running with the
\* follow-up pending, until a later pass succeeds.
THEOREM EventCoveredHolds == Spec => []EventCovered
<1>1. IInv => EventCovered
  BY DEF IInv
<1> QED
  BY <1>1, Invariance, PTL

\* A cold-start request asleep on a settled source has been woken.
THEOREM NoLostWakeupHolds == Spec => []NoLostWakeup
<1>1. IInv => NoLostWakeup
  BY DEF IInv
<1> QED
  BY <1>1, Invariance, PTL

=============================================================================
