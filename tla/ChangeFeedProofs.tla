-------------------------- MODULE ChangeFeedProofs ---------------------------
(***************************************************************************)
(* Proofs about ChangeFeed, for any registrations, roots, files and        *)
(* bounds.  EventRemembered is not inductive: an event that has reached    *)
(* the pump is remembered only by the pass it made due, and the pass keeps *)
(* the promise only if nothing else writes the rows of its corpus while it *)
(* runs.                                                                   *)
(***************************************************************************)
EXTENDS ChangeFeed, FiniteSetTheorems, WellFoundedInduction, TLAPS

\* Without a pump nothing is on its way, and a batch is only there while the
\* pump handles it.
DownEmpty ==
    /\ at = "down" => raw = {} /\ ~telling /\ pending = {} /\ ~overflow
    /\ at # "handling" => batch = {}

\* Only files that a registration covers are stale for it.
StaleReal == \A x \in stale : x[2] \in Scan(x[1], regs[x[1]])

\* What a running pass has planned nobody has indexed since.
PlanStale == \A r \in Reg : pass[r] = "runs" => \A f \in plan[r] : <<r, f>> \in stale

\* The handler writes while no pass of its corpus runs.
WriteAlone ==
    hand.stage = "write" => \A x \in Reg : pass[x] = "runs" => Corpus[x] # Corpus[hand.reg]

IInv == TypeOK /\ DownEmpty /\ StaleReal /\ PlanStale /\ WriteAlone /\ EventRemembered

\* Where the event of a stale pair is.
Coming(f) == f \in raw \cup batch \/ ((f \in pending \/ overflow) /\ PumpTold)

Remembered(x) == Coming(x[2]) \/ Due(x[1], x[2])

-----------------------------------------------------------------------------
(* What the operators of the model give.                                   *)

\* The first of some registrations is one of them.
LEMMA MinOf == ASSUME NEW S \in SUBSET Reg, S # {} PROVE Min(S) \in S
<1> DEFINE R == OpToRel(<, Nat)
<1>0. S \in SUBSET Nat
  BY FeedAssumption
<1>1. PICK x \in S : \A y \in S : <<y, x>> \notin R
  BY <1>0, NatLessThanWellFounded, WFMin, Zenon
<1>2. \A y \in S : ~(y < x)
  BY <1>0, <1>1 DEF OpToRel
<1>3. \A y \in S : x <= y
  BY <1>0, <1>2
<1> QED
  BY <1>3 DEF Min

\* EventRemembered, pair by pair.
LEMMA RememberedLemma == EventRemembered <=> \A x \in stale \ missed : Remembered(x)
BY DEF EventRemembered, Remembered, Coming

\* A stale pair is a registration and a file it covers.
LEMMA StaleNow ==
    ASSUME IInv, NEW x \in stale
    PROVE  /\ x \in Pairs /\ x[1] \in Reg /\ x[2] \in File /\ x = <<x[1], x[2]>>
           /\ x[1] \in Registered /\ regs[x[1]] \in SUBSET Path
           /\ x[2] \in Scan(x[1], regs[x[1]])
<1>1. x \in Reg \X File
  BY DEF IInv, TypeOK, Pairs
<1>2. x[1] \in Reg /\ x[2] \in File /\ x = <<x[1], x[2]>>
  BY <1>1
<1>3. x[2] \in Scan(x[1], regs[x[1]]) /\ regs[x[1]] \in SUBSET Path
  BY <1>2 DEF IInv, StaleReal, TypeOK
<1>4. regs[x[1]] # {}
  BY <1>3 DEF Scan
<1> QED
  BY <1>1, <1>2, <1>3, <1>4 DEF Pairs, Registered


\* The pairs that stay stale stay remembered.
LEMMA Keeps ==
    ASSUME IInv, stale' \ missed' \subseteq stale \ missed,
           \A x \in stale' \ missed' : Remembered(x) => Remembered(x)'
    PROVE  EventRemembered'
<1>1. \A x \in stale \ missed : Remembered(x)
  BY RememberedLemma DEF IInv
<1>2. \A x \in stale' \ missed' : Remembered(x)'
  BY <1>1
<1> QED
  BY <1>2 DEF EventRemembered, Remembered, Coming

\* A step that neither indexes nor starts anything.
LEMMA Frame ==
    ASSUME IInv, UNCHANGED <<regs, stale, plan>>,
           \A r \in Reg : pass'[r] = "runs" => pass[r] = "runs",
           hand' = hand \/ hand'.stage # "write"
    PROVE  StaleReal' /\ PlanStale' /\ WriteAlone'
<1>1. StaleReal'
  BY DEF IInv, StaleReal, Scan
<1>2. PlanStale'
  BY DEF IInv, PlanStale
<1>3. WriteAlone'
  BY DEF IInv, WriteAlone
<1> QED
  BY <1>1, <1>2, <1>3

\* What a reconcile makes of the passes.
ReconciledFrom(states) ==
    /\ roots' \in [Reg -> SUBSET Path] /\ moved' \in BOOLEAN
    /\ pass' \in [Reg -> PassStates]
    /\ \A r \in Reg : pass'[r] = "runs" <=> pass[r] = "runs"
    /\ \A r \in Reg : pass[r] \in {"queued", "gated", "waits"} => pass'[r] \in {"queued", "gated", "waits"}

\* A reconcile admits queued passes; it neither forgets nor starts one.
LEMMA ReconcileLemma ==
    ASSUME IInv, Reconcile(pass)
    PROVE  ReconciledFrom(pass)
BY DEF IInv, TypeOK, Reconcile, ReconciledFrom, PassStates

\* The tick makes a pass due for every registration.
LEMMA TickLemma ==
    ASSUME IInv, Reconcile(mark_reconcile_due_all)
    PROVE  /\ ReconciledFrom(pass)
           /\ \A r \in Registered : pass[r] # "runs" => pass'[r] = "waits"
<1>1. \A r \in Reg : /\ pass[r] \in PassStates
                     /\ pass'[r] = IF r \in Registered /\ mark_reconcile_due_all[r] = "queued"
                                   THEN "waits" ELSE mark_reconcile_due_all[r]
                     /\ mark_reconcile_due_all[r] =
                          IF r \in Registered /\ pass[r] \in {"done", "gated"} THEN "queued" ELSE pass[r]
  BY DEF IInv, TypeOK, Reconcile, mark_reconcile_due_all
<1>2. pass' = [r \in Reg |-> pass'[r]]
  BY DEF Reconcile
<1>3. roots' \in [Reg -> SUBSET Path] /\ moved' \in BOOLEAN
  BY DEF IInv, TypeOK, Reconcile
<1>4. Registered \subseteq Reg
  BY DEF Registered
<1>5. \A r \in Reg : pass'[r] \in PassStates
  BY <1>1 DEF PassStates
<1>6. pass' \in [Reg -> PassStates]
  BY <1>2, <1>5
<1>7. /\ \A r \in Reg : pass'[r] = "runs" <=> pass[r] = "runs"
      /\ \A r \in Reg : pass[r] \in {"queued", "gated", "waits"} => pass'[r] \in {"queued", "gated", "waits"}
  BY <1>1
<1>8. \A r \in Registered : pass[r] # "runs" => pass'[r] = "waits"
  BY <1>1, <1>4 DEF PassStates
<1> QED
  BY <1>3, <1>6, <1>7, <1>8 DEF ReconciledFrom

-----------------------------------------------------------------------------
(* One lemma per step.                                                     *)

\* At the boot everything is indexed and nothing is on its way.
LEMMA InitIInv == Init => IInv
<1> SUFFICES ASSUME Init PROVE IInv
  OBVIOUS
<1>1. TypeOK
  <2>1. Cardinality(pending) <= MaxPending
    BY FeedAssumption, FS_EmptySet DEF Init
  <2>2. /\ edits \in 0..MaxEdits /\ registrations \in 0..MaxRegs /\ faults \in 0..MaxFaults
        /\ regs \in [Reg -> SUBSET Path]
    BY FeedAssumption DEF Init
  <2>3. hand \in [stage : {"idle", "lock", "write"}, file : File \cup {None},
                  reg : Reg \cup {None}, fresh : BOOLEAN]
    BY DEF Init, Idle
  <2> QED
    BY <2>1, <2>2, <2>3 DEF Init, TypeOK, PassStates
<1> QED
  BY <1>1 DEF Init, IInv, DownEmpty, StaleReal, PlanStale, WriteAlone, EventRemembered, Idle

\* Change: a heard event is with the debouncer, one not heard is not owed.
LEMMA ChangeIInv ==
    ASSUME IInv, NEW f \in File, NEW heard \in BOOLEAN, Change(f, heard) PROVE IInv'
<1> DEFINE hit == {<<r, f>> : r \in {x \in Registered : f \in Scan(x, regs[x])}}
<1>1. /\ edits' \in 0..MaxEdits /\ (heard => at # "down")
      /\ stale' = stale \cup hit
      /\ missed' = IF heard THEN missed \ hit ELSE missed \cup hit
      /\ current' = [r \in Reg |-> current[r] \ {f}]
      /\ hand' = [hand EXCEPT !.fresh = @ /\ hand.file # f]
      /\ raw' = IF heard THEN raw \cup {f} ELSE raw
      /\ UNCHANGED <<regs, pass, dirty, changed, moved, plan, telling, pending, overflow, wake,
                     at, roots, batch, registrations, faults>>
  BY FeedAssumption DEF Change, IInv, TypeOK, registry
<1>2. hit \subseteq Pairs /\ \A x \in hit : x[1] \in Reg /\ x[2] = f /\ x[2] \in Scan(x[1], regs[x[1]])
  BY DEF Pairs, Registered
<1>3. TypeOK'
  <2>1. hand' \in [stage : {"idle", "lock", "write"}, file : File \cup {None},
                   reg : Reg \cup {None}, fresh : BOOLEAN]
    BY <1>1 DEF IInv, TypeOK
  <2> QED
    BY <1>1, <1>2, <2>1 DEF IInv, TypeOK
<1>4. DownEmpty'
  BY <1>1 DEF IInv, DownEmpty
<1>5. StaleReal'
  BY <1>1, <1>2 DEF IInv, StaleReal, Scan
<1>6. PlanStale'
  BY <1>1 DEF IInv, PlanStale
<1>7. WriteAlone'
  <2>1. hand'.stage = hand.stage /\ hand'.reg = hand.reg
    BY <1>1 DEF IInv, TypeOK
  <2> QED
    BY <1>1, <2>1 DEF IInv, WriteAlone
<1>8. ASSUME NEW x \in stale' \ missed' PROVE Remembered(x)'
  <2>1. CASE x \in hit
    BY <2>1, <1>1, <1>2, <1>8 DEF Remembered, Coming
  <2>2. CASE x \notin hit
    <3>1. x \in stale \ missed /\ x[1] \in Reg
      BY <2>2, <1>1, <1>8, StaleNow
    <3>2. x[2] # f
      BY <2>2, <3>1, StaleNow
    <3>3. Remembered(x)
      BY <3>1, RememberedLemma DEF IInv
    <3> QED
      BY <1>1, <3>1, <3>2, <3>3 DEF Remembered, Coming, PumpTold, Due
  <2> QED
    BY <2>1, <2>2
<1>9. EventRemembered'
  BY <1>8 DEF EventRemembered, Remembered, Coming
<1> QED
  BY <1>3, <1>4, <1>5, <1>6, <1>7, <1>9 DEF IInv

\* register: the registration starts over with a pass of its own.
LEMMA RegisterIInv ==
    ASSUME IInv, NEW r \in Reg, NEW ps \in Offer[r], register(r, ps) PROVE IInv'
<1>1. /\ registrations' \in 0..MaxRegs
      /\ regs' = [regs EXCEPT ![r] = ps]
      /\ pass' = [pass EXCEPT ![r] = "queued"] /\ dirty' = dirty \ {r}
      /\ stale' = {x \in stale : x[1] # r} \cup ({r} \X Scan(r, ps))
      /\ missed' = {x \in missed : x[1] # r}
      /\ plan' = [plan EXCEPT ![r] = {}] /\ current' = [current EXCEPT ![r] = {}]
      /\ changed' \in BOOLEAN /\ moved' \in BOOLEAN
      /\ UNCHANGED <<raw, telling, pending, overflow, wake, at, roots, batch, hand, edits, faults>>
  BY FeedAssumption DEF register, Signalled, IInv, TypeOK, feed, pump
<1>2. ps \in SUBSET Path /\ Scan(r, ps) \subseteq File
  BY FeedAssumption DEF Scan
<1>3. TypeOK'
  BY <1>1, <1>2 DEF IInv, TypeOK, PassStates, Pairs
<1>4. DownEmpty'
  BY <1>1 DEF IInv, DownEmpty
<1>5. StaleReal'
  <2> SUFFICES ASSUME NEW x \in stale' PROVE x[2] \in Scan(x[1], regs'[x[1]])
    BY DEF StaleReal, Scan
  <2>1. CASE x \in stale /\ x[1] # r
    <3>1. x[1] \in Reg /\ x[2] \in Scan(x[1], regs[x[1]])
      BY <2>1, StaleNow
    <3> QED
      BY <2>1, <3>1, <1>1 DEF IInv, TypeOK
  <2>2. CASE x \in {r} \X Scan(r, ps)
    BY <2>2, <1>1 DEF IInv, TypeOK
  <2> QED
    BY <2>1, <2>2, <1>1
<1>6. PlanStale'
  BY <1>1 DEF IInv, PlanStale, TypeOK
<1>7. WriteAlone'
  BY <1>1 DEF IInv, WriteAlone, TypeOK
<1>8. ASSUME NEW x \in stale' \ missed' PROVE Remembered(x)'
  <2>1. CASE x[1] = r
    BY <2>1, <1>1 DEF Remembered, Due, IInv, TypeOK
  <2>2. CASE x[1] # r
    <3>1. x \in stale \ missed /\ x[1] \in Reg
      BY <2>2, <1>1, <1>8, StaleNow
    <3>2. Remembered(x)
      BY <3>1, RememberedLemma DEF IInv
    <3> QED
      BY <1>1, <2>2, <3>1, <3>2 DEF Remembered, Coming, PumpTold, Due, IInv, TypeOK
  <2> QED
    BY <2>1, <2>2
<1>9. EventRemembered'
  BY <1>8 DEF EventRemembered, Remembered, Coming
<1> QED
  BY <1>3, <1>4, <1>5, <1>6, <1>7, <1>9 DEF IInv

\* Debounced: every path is in the buffer, or the overflow flag is set.
LEMMA DebouncedIInv == ASSUME IInv, Debounced PROVE IInv'
<1>1. PICK ps \in SUBSET raw : record_pending(ps)
  BY DEF Debounced
<1>2. /\ at # "down" /\ raw' = {} /\ telling' = TRUE
      /\ UNCHANGED <<regs, pass, dirty, changed, moved, stale, plan, current, wake,
                     at, roots, batch, hand, edits, registrations, faults, missed>>
  BY DEF Debounced, registry, index, pump, bounds
<1>3. /\ pending' = pending \cup ps /\ Cardinality(pending') <= MaxPending
      /\ overflow' = (overflow \/ raw \ pending' # {})
  BY <1>1 DEF record_pending
<1>4. TypeOK'
  BY <1>2, <1>3 DEF IInv, TypeOK
<1>5. DownEmpty'
  BY <1>2 DEF IInv, DownEmpty
<1>6. StaleReal' /\ PlanStale' /\ WriteAlone'
  BY <1>2, Frame
<1>7. EventRemembered'
  <2>1. ASSUME NEW x \in stale' \ missed', Remembered(x) PROVE Remembered(x)'
    <3>1. CASE Due(x[1], x[2])
      BY <3>1, <1>2 DEF Remembered, Due
    <3>2. CASE Coming(x[2])
      <4>1. PumpTold'
        BY <1>2 DEF PumpTold
      <4> QED
        BY <3>2, <4>1, <1>2, <1>3 DEF Remembered, Coming
    <3> QED
      BY <2>1, <3>1, <3>2 DEF Remembered
  <2> QED
    BY <2>1, <1>2, Keeps
<1> QED
  BY <1>4, <1>5, <1>6, <1>7 DEF IInv

\* notify_one: the permit takes over from the debouncer.
LEMMA NotifyIInv == ASSUME IInv, notify_one PROVE IInv'
<1>1. /\ telling /\ telling' = FALSE /\ wake' = TRUE
      /\ UNCHANGED <<regs, pass, dirty, changed, moved, stale, plan, current, raw, pending, overflow,
                     at, roots, batch, hand, edits, registrations, faults, missed>>
  BY DEF notify_one, registry, index, pump, bounds
<1>2. TypeOK' /\ DownEmpty'
  BY <1>1 DEF IInv, TypeOK, DownEmpty
<1>3. StaleReal' /\ PlanStale' /\ WriteAlone'
  BY <1>1, Frame
<1>4. EventRemembered'
  <2>1. PumpTold'
    BY <1>1 DEF PumpTold
  <2>2. \A x \in stale' \ missed' : Remembered(x) => Remembered(x)'
    BY <1>1, <2>1 DEF Remembered, Coming, Due
  <2> QED
    BY <2>2, <1>1, Keeps
<1> QED
  BY <1>2, <1>3, <1>4 DEF IInv

\* StartPump: nothing was on its way without a pump.
LEMMA StartPumpIInv == ASSUME IInv, StartPump PROVE IInv'
<1>1. /\ at = "down" /\ at' = "parked"
      /\ raw' = {} /\ telling' = FALSE /\ pending' = {} /\ overflow' = FALSE /\ wake' = FALSE
      /\ batch' = {} /\ hand' = Idle /\ Reconcile(pass)
      /\ UNCHANGED <<regs, dirty, changed, stale, plan, current, edits, registrations, faults, missed>>
  BY DEF StartPump, index, bounds
<1>2. ReconciledFrom(pass)
  BY <1>1, ReconcileLemma
<1>3. TypeOK'
  <2>1. Cardinality(pending') <= MaxPending
    BY <1>1, FeedAssumption, FS_EmptySet
  <2>2. hand' \in [stage : {"idle", "lock", "write"}, file : File \cup {None},
                   reg : Reg \cup {None}, fresh : BOOLEAN]
    BY <1>1 DEF Idle
  <2> QED
    BY <1>1, <1>2, <2>1, <2>2 DEF IInv, TypeOK, ReconciledFrom
<1>4. DownEmpty'
  BY <1>1 DEF DownEmpty
<1>5. StaleReal' /\ PlanStale' /\ WriteAlone'
  BY <1>1, <1>2, Frame DEF ReconciledFrom, Idle
<1>6. EventRemembered'
  <2>1. ASSUME NEW x \in stale' \ missed', Remembered(x) PROVE Remembered(x)'
    <3>1. Due(x[1], x[2]) /\ x[1] \in Reg
      BY <2>1, <1>1, StaleNow DEF IInv, DownEmpty, Remembered, Coming
    <3> QED
      BY <3>1, <1>1, <1>2 DEF Remembered, Due, ReconciledFrom
  <2> QED
    BY <2>1, <1>1, Keeps
<1> QED
  BY <1>3, <1>4, <1>5, <1>6 DEF IInv

\* PumpDies: what it forgets no event is owed for.
LEMMA PumpDiesIInv == ASSUME IInv, PumpDies PROVE IInv'
<1>1. /\ faults < MaxFaults /\ faults' = faults + 1 /\ at' = "down"
      /\ roots' = [r \in Reg |-> {}]
      /\ raw' = {} /\ telling' = FALSE /\ pending' = {} /\ overflow' = FALSE /\ wake' = FALSE
      /\ batch' = {} /\ hand' = Idle /\ missed' = stale
      /\ UNCHANGED <<regs, pass, dirty, changed, moved, stale, plan, current, edits, registrations>>
  BY DEF PumpDies, registry, index
<1>2. TypeOK'
  <2>1. Cardinality(pending') <= MaxPending /\ faults' \in 0..MaxFaults
    BY <1>1, FeedAssumption, FS_EmptySet DEF IInv, TypeOK
  <2>2. hand' \in [stage : {"idle", "lock", "write"}, file : File \cup {None},
                   reg : Reg \cup {None}, fresh : BOOLEAN]
    BY <1>1 DEF Idle
  <2> QED
    BY <1>1, <2>1, <2>2 DEF IInv, TypeOK
<1>3. DownEmpty'
  BY <1>1 DEF DownEmpty
<1>4. StaleReal' /\ PlanStale' /\ WriteAlone'
  BY <1>1, Frame DEF Idle
<1>5. EventRemembered'
  BY <1>1 DEF EventRemembered
<1> QED
  BY <1>2, <1>3, <1>4, <1>5 DEF IInv

\* RegistryChanged, Tick and Woken: a reconcile, and the buffer stays told.
LEMMA ReconcileIInv ==
    ASSUME IInv, RegistryChanged \/ Tick \/ Woken PROVE IInv'
<1>1. /\ at = "parked" /\ at' \in {"parked", "woken"} /\ (PumpTold => PumpTold')
      /\ changed' \in BOOLEAN /\ wake' \in BOOLEAN
      /\ UNCHANGED <<regs, dirty, stale, plan, current, raw, telling, pending, overflow, batch, hand,
                     edits, registrations, faults, missed>>
  BY DEF RegistryChanged, Tick, Woken, PumpTold, index, feed, bounds, IInv, TypeOK
<1>2. ReconciledFrom(pass)
  <2>1. CASE Reconcile(pass)
    BY <2>1, ReconcileLemma
  <2>2. CASE Reconcile(mark_reconcile_due_all)
    BY <2>2, TickLemma
  <2>3. CASE UNCHANGED <<roots, pass, moved>>
    BY <2>3 DEF ReconciledFrom, IInv, TypeOK
  <2> QED
    BY <2>1, <2>2, <2>3 DEF RegistryChanged, Tick, Woken
<1>3. TypeOK'
  BY <1>1, <1>2 DEF IInv, TypeOK, ReconciledFrom
<1>4. DownEmpty'
  BY <1>1 DEF IInv, DownEmpty
<1>5. StaleReal' /\ PlanStale' /\ WriteAlone'
  BY <1>1, <1>2, Frame DEF ReconciledFrom
<1>6. EventRemembered'
  <2>1. ASSUME NEW x \in stale' \ missed', Remembered(x) PROVE Remembered(x)'
    <3>1. CASE Coming(x[2])
      BY <3>1, <1>1 DEF Coming, Remembered
    <3>2. CASE Due(x[1], x[2])
      <4>1. x[1] \in Reg
        BY <1>1, StaleNow
      <4> QED
        BY <3>2, <4>1, <1>1, <1>2 DEF Due, Remembered, ReconciledFrom
    <3> QED
      BY <2>1, <3>1, <3>2 DEF Remembered
  <2> QED
    BY <2>1, <1>1, Keeps
<1> QED
  BY <1>3, <1>4, <1>5, <1>6 DEF IInv

\* Drain: the buffer goes to the batch, and what it dropped to a pass.
LEMMA DrainIInv == ASSUME IInv, Drain PROVE IInv'
<1>1. /\ at = "woken" /\ at' = "handling"
      /\ batch' = pending /\ pending' = {} /\ overflow' = FALSE
      /\ missed' = missed \cup (IF overflow THEN Uncovered ELSE {})
      /\ UNCHANGED <<regs, dirty, stale, plan, current, raw, telling, wake, hand,
                     edits, registrations, faults>>
      /\ IF overflow
         THEN Reconcile(mark_reconcile_due_all) /\ changed' = TRUE
         ELSE UNCHANGED <<roots, pass, moved, changed>>
  BY DEF Drain, index, bounds
<1>2. ReconciledFrom(pass) /\ changed' \in BOOLEAN
  <2>1. CASE overflow
    BY <2>1, <1>1, TickLemma
  <2>2. CASE ~overflow
    BY <2>2, <1>1 DEF ReconciledFrom, IInv, TypeOK
  <2> QED
    BY <2>1, <2>2
<1>3. TypeOK'
  <2>1. Cardinality(pending') <= MaxPending
    BY <1>1, FeedAssumption, FS_EmptySet
  <2>2. missed' \subseteq Pairs
    BY <1>1 DEF IInv, TypeOK, Uncovered
  <2> QED
    BY <1>1, <1>2, <2>1, <2>2 DEF IInv, TypeOK, ReconciledFrom
<1>4. DownEmpty'
  BY <1>1 DEF DownEmpty
<1>5. StaleReal' /\ PlanStale' /\ WriteAlone'
  BY <1>1, <1>2, Frame DEF ReconciledFrom
<1>6. EventRemembered'
  <2>1. ASSUME NEW x \in stale' \ missed', Remembered(x) PROVE Remembered(x)'
    <3>0. x \in stale /\ x[1] \in Reg /\ x[1] \in Registered
      BY <1>1, StaleNow
    <3>1. CASE Due(x[1], x[2])
      BY <3>0, <3>1, <1>1, <1>2 DEF Due, Remembered, ReconciledFrom
    <3>2. CASE x[2] \in raw \cup batch'
      BY <3>2, <1>1 DEF Coming, Remembered
    <3>3. batch = {}
      BY <1>1 DEF IInv, DownEmpty
    <3>4. CASE overflow /\ ~Due(x[1], x[2]) /\ x[2] \notin batch'
      <4>1. x \notin Uncovered
        BY <3>4, <1>1
      <4>2. pass[x[1]] # "runs"
        BY <3>0, <3>4, <4>1, <1>1 DEF Uncovered, Due
      <4>3. pass'[x[1]] = "waits"
        BY <3>0, <3>4, <4>2, <1>1, TickLemma
      <4> QED
        BY <4>3 DEF Due, Remembered
    <3> QED
      BY <2>1, <3>1, <3>2, <3>3, <3>4, <1>1 DEF Remembered, Coming
  <2> QED
    BY <2>1, <1>1, Keeps
<1> QED
  BY <1>3, <1>4, <1>5, <1>6 DEF IInv

\* BatchDone: the batch is empty.
LEMMA BatchDoneIInv == ASSUME IInv, BatchDone PROVE IInv'
<1>1. /\ at = "handling" /\ batch = {} /\ at' = "parked"
      /\ UNCHANGED <<regs, pass, dirty, changed, moved, stale, plan, current, raw, telling, pending,
                     overflow, wake, roots, batch, hand, edits, registrations, faults, missed>>
  BY DEF BatchDone, registry, index, feed, bounds
<1>2. TypeOK' /\ DownEmpty'
  BY <1>1 DEF IInv, TypeOK, DownEmpty
<1>3. StaleReal' /\ PlanStale' /\ WriteAlone'
  BY <1>1, Frame
<1>4. EventRemembered'
  <2>1. \A x \in stale' \ missed' : Remembered(x) => Remembered(x)'
    BY <1>1 DEF Remembered, Coming, Due, PumpTold
  <2> QED
    BY <2>1, <1>1, Keeps
<1> QED
  BY <1>2, <1>3, <1>4 DEF IInv

\* HandlePath: the path leaves the batch, and every registration it is owed to
\* has a pass due.
LEMMA HandlePathIInv ==
    ASSUME IInv, NEW f \in File, NEW ok \in BOOLEAN, HandlePath(f, ok) PROVE IInv'
<1> DEFINE matches == registrations_for_root(owning_corpus(f, roots))
           first == Min(matches)
<1>1. /\ at = "handling" /\ batch' = batch \ {f}
      /\ resolve_registration_config(matches, ok)
      /\ faults' = (IF ok THEN faults ELSE faults + 1)
      /\ (~ok => faults < MaxFaults)
      /\ hand' = IF ok /\ matches # {} /\ ~mtime_matches_last_index(first, f)
                 THEN [stage |-> "lock", file |-> f, reg |-> first, fresh |-> FALSE] ELSE Idle
      /\ missed' = missed \cup (stale \cap (Bystanders(f, matches) \X {f}))
      /\ UNCHANGED <<regs, stale, plan, current, raw, telling, pending, overflow, wake, at, roots,
                     edits, registrations>>
  BY DEF HandlePath, index, feed
<1>2. matches \subseteq Reg /\ (matches # {} => first \in Reg)
  <2>1. matches \subseteq Reg
    BY DEF registrations_for_root
  <2> QED
    BY <2>1, MinOf
<1>3. Bystanders(f, matches) = Registered \ matches
  <2>1. roots = regs => registrations_for_root(owning_corpus(f, regs)) = matches
    OBVIOUS
  <2> QED
    BY <2>1 DEF Bystanders
<1> HIDE DEF matches, first
<1>4. /\ pass' \in [Reg -> PassStates] /\ dirty' \subseteq Reg /\ dirty \subseteq dirty'
      /\ changed' \in BOOLEAN /\ moved' \in BOOLEAN
      /\ \A r \in Reg : pass'[r] = "runs" <=> pass[r] = "runs"
      /\ \A r \in Reg : pass[r] \in {"queued", "gated", "waits"} => pass'[r] \in {"queued", "gated", "waits"}
      /\ \A r \in matches : r \in dirty' /\ pass'[r] # "done"
  <2>1. CASE matches = {}
    BY <2>1, <1>1 DEF resolve_registration_config, IInv, TypeOK
  <2>2. CASE matches # {}
    BY <2>2, <1>1, <1>2 DEF resolve_registration_config, Dirtied, Signalled, IInv, TypeOK, PassStates
  <2> QED
    BY <2>1, <2>2
<1>5. TypeOK'
  <2>1. faults' \in 0..MaxFaults
    BY <1>1, FeedAssumption DEF IInv, TypeOK
  <2>2. hand' \in [stage : {"idle", "lock", "write"}, file : File \cup {None},
                   reg : Reg \cup {None}, fresh : BOOLEAN]
    BY <1>1, <1>2 DEF Idle
  <2>3. missed' \subseteq Pairs
    BY <1>1 DEF IInv, TypeOK
  <2> QED
    BY <1>1, <1>4, <2>1, <2>2, <2>3 DEF IInv, TypeOK
<1>6. DownEmpty'
  BY <1>1 DEF DownEmpty
<1>7. StaleReal' /\ PlanStale' /\ WriteAlone'
  <2>1. hand'.stage # "write"
    BY <1>1 DEF Idle
  <2> QED
    BY <1>1, <1>4, <2>1, Frame
<1>8. EventRemembered'
  <2>1. ASSUME NEW x \in stale' \ missed', Remembered(x) PROVE Remembered(x)'
    <3>1. x \in stale /\ x[1] \in Reg /\ x[1] \in Registered /\ x = <<x[1], x[2]>>
      BY <1>1, StaleNow
    <3>2. CASE x[1] \in matches
      <4>1. x[1] \in dirty' /\ pass'[x[1]] # "done" /\ pass'[x[1]] \in PassStates
        BY <3>1, <3>2, <1>4
      <4> QED
        BY <4>1 DEF Remembered, Due, PassStates
    <3>3. CASE x[1] \notin matches
      <4>1. x[2] # f
        BY <3>1, <3>3, <1>1, <1>3
      <4> QED
        BY <2>1, <3>1, <4>1, <1>1, <1>4 DEF Remembered, Coming, Due, PumpTold
    <3> QED
      BY <3>2, <3>3
  <2> QED
    BY <2>1, <1>1, Keeps
<1> QED
  BY <1>5, <1>6, <1>7, <1>8 DEF IInv

\* HandleRead: the handler takes the lock when no pass of the corpus runs.
LEMMA HandleReadIInv == ASSUME IInv, HandleRead PROVE IInv'
<1>1. /\ CorpusFree(hand.reg)
      /\ hand' = [hand EXCEPT !.stage = "write", !.fresh = TRUE]
      /\ UNCHANGED <<regs, pass, dirty, changed, moved, stale, plan, current, raw, telling, pending,
                     overflow, wake, at, roots, batch, edits, registrations, faults, missed>>
  BY DEF HandleRead, registry, index, feed, bounds
<1>2. TypeOK' /\ DownEmpty'
  BY <1>1 DEF IInv, TypeOK, DownEmpty
<1>3. StaleReal' /\ PlanStale'
  BY <1>1 DEF IInv, StaleReal, PlanStale, Scan
<1>4. WriteAlone'
  <2>1. hand'.reg = hand.reg
    BY <1>1 DEF IInv, TypeOK
  <2> QED
    BY <1>1, <2>1 DEF CorpusFree, WriteAlone
<1>5. EventRemembered'
  <2>1. \A x \in stale' \ missed' : Remembered(x) => Remembered(x)'
    BY <1>1 DEF Remembered, Coming, Due, PumpTold
  <2> QED
    BY <2>1, <1>1, Keeps
<1> QED
  BY <1>2, <1>3, <1>4, <1>5 DEF IInv

\* HandleWrite: no pass of the corpus runs, so no plan counts on the row.
LEMMA HandleWriteIInv == ASSUME IInv, HandleWrite PROVE IInv'
<1>1. /\ hand.stage = "write" /\ hand' = Idle
      /\ stale' \subseteq stale
      /\ \A x \in stale \ stale' : x = <<hand.reg, hand.file>>
      /\ UNCHANGED <<regs, pass, dirty, changed, moved, plan, current, raw, telling, pending,
                     overflow, wake, at, roots, batch, edits, registrations, faults, missed>>
  BY DEF HandleWrite, registry, feed, bounds
<1>2. TypeOK' /\ DownEmpty'
  <2>1. hand' \in [stage : {"idle", "lock", "write"}, file : File \cup {None},
                   reg : Reg \cup {None}, fresh : BOOLEAN]
    BY <1>1 DEF Idle
  <2> QED
    BY <1>1, <2>1 DEF IInv, TypeOK, DownEmpty
<1>3. StaleReal' /\ WriteAlone'
  BY <1>1 DEF IInv, StaleReal, WriteAlone, Scan, Idle
<1>4. PlanStale'
  <2> SUFFICES ASSUME NEW r \in Reg, pass[r] = "runs", NEW f \in plan[r] PROVE <<r, f>> \in stale'
    BY <1>1 DEF PlanStale
  <2>1. <<r, f>> \in stale
    BY DEF IInv, PlanStale
  <2>2. r # hand.reg
    BY <1>1 DEF IInv, WriteAlone
  <2> QED
    BY <2>1, <2>2, <1>1
<1>5. EventRemembered'
  <2>1. \A x \in stale' \ missed' : Remembered(x) => Remembered(x)'
    BY <1>1 DEF Remembered, Coming, Due, PumpTold
  <2> QED
    BY <2>1, <1>1, Keeps
<1> QED
  BY <1>2, <1>3, <1>4, <1>5 DEF IInv

\* HandleFails: the pending work was recorded before.
LEMMA HandleFailsIInv == ASSUME IInv, HandleFails PROVE IInv'
<1>1. /\ hand' = Idle /\ faults < MaxFaults /\ faults' = faults + 1
      /\ UNCHANGED <<regs, pass, dirty, changed, moved, stale, plan, current, raw, telling, pending,
                     overflow, wake, at, roots, batch, edits, registrations, missed>>
  BY DEF HandleFails, registry, index, feed
<1>2. TypeOK' /\ DownEmpty'
  <2>1. hand' \in [stage : {"idle", "lock", "write"}, file : File \cup {None},
                   reg : Reg \cup {None}, fresh : BOOLEAN]
    BY <1>1 DEF Idle
  <2>2. faults' \in 0..MaxFaults
    BY <1>1, FeedAssumption DEF IInv, TypeOK
  <2> QED
    BY <1>1, <2>1, <2>2 DEF IInv, TypeOK, DownEmpty
<1>3. StaleReal' /\ PlanStale' /\ WriteAlone'
  BY <1>1, Frame DEF Idle
<1>4. EventRemembered'
  <2>1. \A x \in stale' \ missed' : Remembered(x) => Remembered(x)'
    BY <1>1 DEF Remembered, Coming, Due, PumpTold
  <2> QED
    BY <2>1, <1>1, Keeps
<1> QED
  BY <1>2, <1>3, <1>4 DEF IInv

\* PassScans: the plan is what is stale, and nobody writes while it runs.
LEMMA PassScansIInv == ASSUME IInv, NEW r \in Reg, PassScans(r) PROVE IInv'
<1> DEFINE found == {f \in File : <<r, f>> \in stale}
<1>1. /\ CorpusFree(r)
      /\ pass' = [pass EXCEPT ![r] = "runs"] /\ dirty' = dirty
      /\ plan' = [plan EXCEPT ![r] = found] /\ current' = [current EXCEPT ![r] = found]
      /\ UNCHANGED <<regs, changed, moved, stale, raw, telling, pending, overflow, wake,
                     at, roots, batch, hand, edits, registrations, faults, missed>>
  BY DEF PassScans, feed, pump, bounds
<1>2. TypeOK' /\ DownEmpty'
  BY <1>1 DEF IInv, TypeOK, DownEmpty, PassStates
<1>3. StaleReal' /\ PlanStale'
  BY <1>1 DEF IInv, StaleReal, PlanStale, Scan, TypeOK
<1>4. WriteAlone'
  BY <1>1 DEF IInv, WriteAlone, CorpusFree, TypeOK
<1>5. EventRemembered'
  <2>1. ASSUME NEW x \in stale' \ missed', Remembered(x) PROVE Remembered(x)'
    <3>1. x \in stale /\ x[1] \in Reg /\ x[2] \in File /\ x = <<x[1], x[2]>>
      BY <1>1, StaleNow
    <3>2. CASE x[1] = r
      <4>1. pass'[r] = "runs" /\ current'[r] = found /\ x[2] \in found
        BY <3>1, <3>2, <1>1 DEF IInv, TypeOK
      <4> QED
        BY <3>2, <4>1 DEF Remembered, Due
    <3>3. CASE x[1] # r
      <4>1. pass'[x[1]] = pass[x[1]] /\ current'[x[1]] = current[x[1]]
        BY <3>1, <3>3, <1>1 DEF IInv, TypeOK
      <4> QED
        BY <2>1, <4>1, <1>1 DEF Remembered, Coming, Due, PumpTold
    <3> QED
      BY <3>2, <3>3
  <2> QED
    BY <2>1, <1>1, Keeps
<1> QED
  BY <1>2, <1>3, <1>4, <1>5 DEF IInv

\* PassEnds: what it had read is indexed, and pending work queues another one.
LEMMA PassEndsIInv == ASSUME IInv, NEW r \in Reg, PassEnds(r) PROVE IInv'
<1>1. /\ pass[r] = "runs"
      /\ stale' = (stale \ ({r} \X current[r])) \cup ({r} \X (plan[r] \ current[r]))
      /\ missed' = missed \ ({r} \X current[r])
      /\ plan' = [plan EXCEPT ![r] = {}] /\ current' = [current EXCEPT ![r] = {}]
      /\ pass' = [pass EXCEPT ![r] = IF r \in dirty THEN "queued" ELSE "done"]
      /\ dirty' = dirty \ {r} /\ changed' = TRUE /\ moved' = TRUE
      /\ UNCHANGED <<regs, raw, telling, pending, overflow, wake,
                     at, roots, batch, hand, edits, registrations, faults>>
  BY DEF PassEnds, Signalled, feed, pump, bounds
<1>2. /\ stale' = stale \ ({r} \X current[r])
      /\ stale' \ missed' \subseteq stale \ missed
  <2>1. {r} \X (plan[r] \ current[r]) \subseteq stale \ ({r} \X current[r])
    BY <1>1 DEF IInv, PlanStale
  <2> QED
    BY <2>1, <1>1
<1>3. TypeOK' /\ DownEmpty'
  <2>1. stale' \subseteq Pairs /\ missed' \subseteq Pairs
    BY <1>1, <1>2 DEF IInv, TypeOK
  <2>2. pass' \in [Reg -> PassStates]
    BY <1>1 DEF IInv, TypeOK, PassStates
  <2> QED
    BY <1>1, <2>1, <2>2 DEF IInv, TypeOK, DownEmpty
<1>4. StaleReal'
  BY <1>1, <1>2 DEF IInv, StaleReal, Scan
<1>5. ASSUME NEW x \in Reg
      PROVE  /\ pass'[x] = "runs" => x # r /\ pass[x] = "runs"
             /\ x # r => /\ pass'[x] = pass[x] /\ plan'[x] = plan[x] /\ current'[x] = current[x]
                         /\ x \in dirty' <=> x \in dirty
  BY <1>1 DEF IInv, TypeOK
<1>6. PlanStale'
  <2> SUFFICES ASSUME NEW x \in Reg, pass'[x] = "runs", NEW f \in plan'[x] PROVE <<x, f>> \in stale'
    BY DEF PlanStale
  <2>1. x # r /\ <<x, f>> \in stale
    BY <1>5 DEF IInv, PlanStale
  <2> QED
    BY <2>1, <1>2
<1>7. WriteAlone'
  BY <1>1, <1>5 DEF IInv, WriteAlone
<1>8. EventRemembered'
  <2>1. ASSUME NEW x \in stale' \ missed', Remembered(x) PROVE Remembered(x)'
    <3>1. x \in stale /\ x[1] \in Reg /\ x = <<x[1], x[2]>>
      BY <1>2, StaleNow
    <3>2. CASE Coming(x[2])
      BY <3>2, <1>1 DEF Remembered, Coming, PumpTold
    <3>3. CASE Due(x[1], x[2]) /\ x[1] = r
      <4>1. x[2] \notin current[r]
        BY <3>1, <3>3, <1>2
      <4>2. r \in dirty
        BY <3>3, <4>1, <1>1 DEF Due
      <4>3. pass'[r] = "queued"
        BY <4>2, <1>1 DEF IInv, TypeOK
      <4> QED
        BY <3>3, <4>3 DEF Remembered, Due
    <3>4. CASE Due(x[1], x[2]) /\ x[1] # r
      BY <3>1, <3>4, <1>5 DEF Remembered, Due
    <3> QED
      BY <2>1, <3>2, <3>3, <3>4 DEF Remembered
  <2> QED
    BY <2>1, <1>2, Keeps
<1> QED
  BY <1>3, <1>4, <1>6, <1>7, <1>8 DEF IInv

\* PassFails: another pass is due, after the tick.
LEMMA PassFailsIInv == ASSUME IInv, NEW r \in Reg, PassFails(r) PROVE IInv'
<1>1. /\ faults < MaxFaults /\ faults' = faults + 1
      /\ plan' = [plan EXCEPT ![r] = {}] /\ current' = [current EXCEPT ![r] = {}]
      /\ pass' = [pass EXCEPT ![r] = "gated"] /\ dirty' = dirty \cup {r}
      /\ changed' = TRUE /\ moved' = TRUE
      /\ UNCHANGED <<regs, stale, raw, telling, pending, overflow, wake,
                     at, roots, batch, hand, edits, registrations, missed>>
  BY DEF PassFails, Signalled, feed, pump
<1>2. TypeOK' /\ DownEmpty'
  <2>1. faults' \in 0..MaxFaults
    BY <1>1, FeedAssumption DEF IInv, TypeOK
  <2> QED
    BY <1>1, <2>1 DEF IInv, TypeOK, DownEmpty, PassStates
<1>3. StaleReal'
  BY <1>1 DEF IInv, StaleReal, Scan
<1>4. PlanStale' /\ WriteAlone'
  BY <1>1 DEF IInv, PlanStale, WriteAlone, TypeOK
<1>5. EventRemembered'
  <2>1. ASSUME NEW x \in stale' \ missed', Remembered(x) PROVE Remembered(x)'
    <3>1. x[1] \in Reg
      BY <1>1, StaleNow
    <3> QED
      BY <2>1, <3>1, <1>1 DEF Remembered, Coming, Due, PumpTold, IInv, TypeOK
  <2> QED
    BY <2>1, <1>1, Keeps
<1> QED
  BY <1>2, <1>3, <1>4, <1>5 DEF IInv

\* A step that changes nothing keeps the invariant.
LEMMA QuietIInv == ASSUME IInv, UNCHANGED vars PROVE IInv'
<1>1. UNCHANGED <<regs, pass, dirty, changed, moved, stale, plan, current, raw, telling, pending,
                  overflow, wake, at, roots, batch, hand, edits, registrations, faults, missed>>
  BY DEF vars, registry, index, feed, pump, bounds
<1> QED
  BY <1>1 DEF IInv, TypeOK, DownEmpty, StaleReal, PlanStale, WriteAlone, EventRemembered,
              Due, PumpTold, Scan

-----------------------------------------------------------------------------
(* The theorems.                                                           *)

\* The inductive invariant holds of every behaviour: of the debouncer, the
\* pump, the handler of a path and the passes in any order.
THEOREM Invariance == Spec => []IInv
<1>1. IInv /\ [Next]_vars => IInv'
  <2> SUFFICES ASSUME IInv, [Next]_vars PROVE IInv'
    OBVIOUS
  <2>1. ASSUME NEW f \in File, NEW heard \in BOOLEAN, Change(f, heard) PROVE IInv'
    BY <2>1, ChangeIInv
  <2>2. ASSUME NEW r \in Reg, NEW ps \in Offer[r], register(r, ps) PROVE IInv'
    BY <2>2, RegisterIInv
  <2>3. CASE Debounced
    BY <2>3, DebouncedIInv
  <2>4. CASE notify_one
    BY <2>4, NotifyIInv
  <2>5. CASE StartPump
    BY <2>5, StartPumpIInv
  <2>6. CASE PumpDies
    BY <2>6, PumpDiesIInv
  <2>7. CASE RegistryChanged \/ Tick \/ Woken
    BY <2>7, ReconcileIInv
  <2>8. CASE Drain
    BY <2>8, DrainIInv
  <2>9. CASE BatchDone
    BY <2>9, BatchDoneIInv
  <2>10. ASSUME NEW f \in File, NEW ok \in BOOLEAN, HandlePath(f, ok) PROVE IInv'
    BY <2>10, HandlePathIInv
  <2>11. CASE HandleRead
    BY <2>11, HandleReadIInv
  <2>12. CASE HandleWrite
    BY <2>12, HandleWriteIInv
  <2>13. CASE HandleFails
    BY <2>13, HandleFailsIInv
  <2>14. ASSUME NEW r \in Reg, PassScans(r) PROVE IInv'
    BY <2>14, PassScansIInv
  <2>15. ASSUME NEW r \in Reg, PassEnds(r) PROVE IInv'
    BY <2>15, PassEndsIInv
  <2>16. ASSUME NEW r \in Reg, PassFails(r) PROVE IInv'
    BY <2>16, PassFailsIInv
  <2>17. CASE UNCHANGED vars
    BY <2>17, QuietIInv
  <2> QED
    BY <2>1, <2>2, <2>3, <2>4, <2>5, <2>6, <2>7, <2>8, <2>9, <2>10, <2>11, <2>12, <2>13, <2>14,
       <2>15, <2>16, <2>17 DEF Next
<1> QED
  BY <1>1, InitIInv, PTL DEF Spec

\* Every state is well typed; the buffer never holds more than MAX_PENDING_PATHS.
THEOREM TypeCorrect == Spec => []TypeOK
BY Invariance, PTL DEF IInv

\* No event that reached the debouncer is forgotten before its file is indexed
\* or a pass is due that reads it, whatever fails and in whatever order the
\* debouncer, the pump and the passes take their steps.
THEOREM EventKept == Spec => []EventRemembered
BY Invariance, PTL DEF IInv
=============================================================================
