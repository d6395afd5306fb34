------------------------------- MODULE DBProofs -------------------------------
(***************************************************************************)
(* Proofs about DB for any number of callers and any loads: there is at    *)
(* most one compaction, d.compact names its store, and that store is the   *)
(* passive one.  The three facts need each other: d.compact = nil must     *)
(* mean that no compaction goroutine is left before a new one may begin.   *)
(***************************************************************************)
EXTENDS DB, TLAPS

\* A call that waits for a compaction or closes a store knows which store.
CallsInv ==
  /\ \A p \in Observers : ob[p].pc \in {"waiting", "signalled"} => ob[p].store \in Stores
  /\ closer.pc \in {"first", "second"} => closer.store \in Stores

Inv == TypeOK /\ OneCompaction /\ PassiveCompacted /\ CallsInv

\* The initial states that New leaves satisfy the invariant.
LEMMA InitInv == Init => Inv
<1> SUFFICES ASSUME Init PROVE Inv
  OBVIOUS
<1>1. active \in Stores /\ Other(active) \in Stores /\ Other(active) # active
  BY DEF Init, Stores, Other
<1>2. comp \in [Stores -> {"none", "begun", "running", "done"}] /\ compact \in Stores \cup {NoStore}
  BY <1>1 DEF Init
<1>3. OneCompaction /\ PassiveCompacted
  BY <1>1 DEF Init, OneCompaction, PassiveCompacted, Stores, NoStore, Other
<1>4. cr \in [Creators -> [pc : {"idle", "waiting", "woken", "writing"}, store : Stores \cup {NoStore}]]
  BY DEF Init, IdleCreate
<1>5. ob \in [Observers -> [pc : {"idle", "looping", "waiting", "signalled"},
                            store : Stores \cup {NoStore}, seen : SUBSET Stores]]
  BY DEF Init, IdleCompact
<1>6. CallsInv
  BY DEF Init, CallsInv, IdleCompact
<1> QED BY <1>1, <1>2, <1>3, <1>4, <1>5, <1>6 DEF Init, Inv, TypeOK

\* swapStoresLocked and beginPassiveCompaction keep the invariant's view of the
\* stores when no compaction is under way.
LEMMA BeginInv ==
  ASSUME Inv, compact = NoStore, NEW swap \in BOOLEAN, Begin(swap)
  PROVE  /\ active' \in Stores
         /\ compact' \in Stores
         /\ comp' \in [Stores -> {"none", "begun", "running", "done"}]
         /\ OneCompaction'
         /\ PassiveCompacted'
  BY DEF Inv, TypeOK, OneCompaction, PassiveCompacted, Begin, Stores, NoStore, Other

\* The loop of Create.
LEMMA CreateLoopInv ==
  ASSUME Inv, NEW p \in Creators, CreateLoop(p)
  PROVE  Inv'
<1>1. /\ active' \in Stores
      /\ compact' \in Stores \cup {NoStore}
      /\ comp' \in [Stores -> {"none", "begun", "running", "done"}]
      /\ OneCompaction'
      /\ PassiveCompacted'
  <2>1. CASE load[active] >= CompactLoad /\ compact = NoStore
    BY <2>1, BeginInv DEF CreateLoop
  <2>2. CASE ~(load[active] >= CompactLoad /\ compact = NoStore)
    BY <2>2 DEF CreateLoop, Inv, TypeOK, OneCompaction, PassiveCompacted
  <2> QED BY <2>1, <2>2
<1>2. cr' \in [Creators -> [pc : {"idle", "waiting", "woken", "writing"}, store : Stores \cup {NoStore}]]
  BY <1>1 DEF CreateLoop, Inv, TypeOK, IdleCreate, Await
<1> QED BY <1>1, <1>2 DEF CreateLoop, Inv, TypeOK, CallsInv

\* The section of Compact under d.mu.
LEMMA CompactLoopInv ==
  ASSUME Inv, NEW p \in Observers, CompactLoop(p)
  PROVE  Inv'
<1>1. /\ active' \in Stores
      /\ compact' \in Stores
      /\ comp' \in [Stores -> {"none", "begun", "running", "done"}]
      /\ OneCompaction'
      /\ PassiveCompacted'
  <2>1. CASE compact = NoStore
    <3>1. (Other(active) \in ob[p].seen) \in BOOLEAN
      OBVIOUS
    <3> QED BY <2>1, <3>1, BeginInv DEF CompactLoop
  <2>2. CASE compact # NoStore
    BY <2>2 DEF CompactLoop, Inv, TypeOK, OneCompaction, PassiveCompacted
  <2> QED BY <2>1, <2>2
<1>2. ob' \in [Observers -> [pc : {"idle", "looping", "waiting", "signalled"},
                             store : Stores \cup {NoStore}, seen : SUBSET Stores]]
  <2> DEFINE next == IF Await(compact', comp') = "woken" THEN "signalled" ELSE "waiting"
  <2>1. next \in {"signalled", "waiting"}
    OBVIOUS
  <2>2. ob' = [ob EXCEPT ![p] = [pc |-> next, store |-> compact', seen |-> ob[p].seen]]
    BY DEF CompactLoop, Inv, TypeOK
  <2> HIDE DEF next
  <2> QED BY <1>1, <2>1, <2>2 DEF Inv, TypeOK
<1>3. CallsInv'
  BY <1>1 DEF CompactLoop, Inv, TypeOK, CallsInv
<1> QED BY <1>1, <1>2, <1>3 DEF CompactLoop, Inv, TypeOK

\* compact.done.Set of the compaction of s, with the load it leaves.
LEMMA SetDoneInv ==
  ASSUME Inv, NEW s \in Stores, comp[s] # "none", SetDone(s),
         load' \in [Stores -> 0 .. Slots], failures' \in Nat
  PROVE  Inv'
<1>1. comp' \in [Stores -> {"none", "begun", "running", "done"}] /\ OneCompaction' /\ PassiveCompacted'
  BY DEF SetDone, Inv, TypeOK, OneCompaction, PassiveCompacted
<1>2. cr' \in [Creators -> [pc : {"idle", "waiting", "woken", "writing"}, store : Stores \cup {NoStore}]]
  BY DEF SetDone, Inv, TypeOK
<1>3. ob' \in [Observers -> [pc : {"idle", "looping", "waiting", "signalled"},
                             store : Stores \cup {NoStore}, seen : SUBSET Stores]]
  <2> DEFINE Call == [pc : {"idle", "looping", "waiting", "signalled"},
                      store : Stores \cup {NoStore}, seen : SUBSET Stores]
  <2>1. ob \in [Observers -> Call]
    BY DEF Inv, TypeOK
  <2>2. \A r \in Call : [r EXCEPT !.pc = "signalled"] \in Call
    OBVIOUS
  <2>3. ob' = [p \in Observers |-> IF ob[p].pc = "waiting" THEN [ob[p] EXCEPT !.pc = "signalled"] ELSE ob[p]]
    BY DEF SetDone
  <2> HIDE DEF Call
  <2>4. ob' \in [Observers -> Call]
    BY <2>1, <2>2, <2>3
  <2> QED BY <2>4 DEF Call
<1>4. closer' \in [pc : {"idle", "set", "waiting", "ready", "first", "second", "wg", "returned"},
                   store : Stores \cup {NoStore}]
  BY DEF SetDone, Inv, TypeOK
<1>5. CallsInv'
  BY DEF SetDone, Inv, TypeOK, CallsInv
<1> QED BY <1>1, <1>2, <1>3, <1>4, <1>5 DEF SetDone, Inv, TypeOK

\* d.compact = nil.
LEMMA CompactClearInv ==
  ASSUME Inv, NEW s \in Stores, CompactClear(s)
  PROVE  Inv'
<1>1. comp' \in [Stores -> {"none", "begun", "running", "done"}] /\ compact' = NoStore
  BY DEF CompactClear, Inv, TypeOK
<1>2. OneCompaction' /\ PassiveCompacted'
  <2>1. compact = s
    BY DEF CompactClear, Inv, OneCompaction
  <2>2. \A t \in Stores : comp'[t] = "none"
    BY <2>1 DEF CompactClear, Inv, TypeOK, OneCompaction
  <2> QED BY <1>1, <2>2 DEF CompactClear, Inv, TypeOK, OneCompaction, PassiveCompacted, Stores, NoStore
<1>3. ob' \in [Observers -> [pc : {"idle", "looping", "waiting", "signalled"},
                             store : Stores \cup {NoStore}, seen : SUBSET Stores]]
  BY DEF CompactClear, Inv, TypeOK
<1>4. CallsInv'
  BY DEF CompactClear, Inv, TypeOK, CallsInv
<1> QED BY <1>1, <1>2, <1>3, <1>4 DEF CompactClear, Inv, TypeOK

\* Every step keeps the invariant.
LEMMA NextInv == Inv /\ [Next]_vars => Inv'
<1> SUFFICES ASSUME Inv, [Next]_vars PROVE Inv'
  OBVIOUS
<1>1. ASSUME NEW p \in Creators, Create(p) \/ CreateRetry(p) PROVE Inv'
  BY <1>1, CreateLoopInv DEF Create, CreateRetry
<1>2. ASSUME NEW p \in Creators, CreateGiveUp(p) PROVE Inv'
  BY <1>2 DEF CreateGiveUp, Inv, TypeOK, OneCompaction, PassiveCompacted, CallsInv, IdleCreate
<1>3. ASSUME NEW p \in Creators, WriterClose(p) PROVE Inv'
  <2>1. load' \in [Stores -> 0 .. Slots]
    <3>1. \A t \in Stores : load[t] \in 0 .. Slots /\ (load[t] # Slots => load[t] + 1 \in 0 .. Slots)
      <4>1. load \in [Stores -> 0 .. Slots]
        BY DEF Inv, TypeOK
      <4> QED BY <4>1, DBAssumption
    <3>2. CASE cr[p].store \in closing \/ load[cr[p].store] = Slots
      BY <1>3, <3>2 DEF WriterClose, Inv, TypeOK
    <3>3. CASE ~(cr[p].store \in closing \/ load[cr[p].store] = Slots)
      BY <1>3, <3>1, <3>3 DEF WriterClose, Inv, TypeOK
    <3> QED BY <3>2, <3>3
  <2> QED BY <1>3, <2>1 DEF WriterClose, Inv, TypeOK, OneCompaction, PassiveCompacted, CallsInv, IdleCreate
<1>4. ASSUME NEW p \in Observers, CompactCall(p) PROVE Inv'
  BY <1>4 DEF CompactCall, Inv, TypeOK, OneCompaction, PassiveCompacted, CallsInv
<1>5. ASSUME NEW p \in Observers, CompactLoop(p) PROVE Inv'
  BY <1>5, CompactLoopInv
<1>6. ASSUME NEW p \in Observers, CompactResult(p) PROVE Inv'
  <2> DEFINE seen == ob[p].seen \cup {ob[p].store}
  <2>1. ob[p].store \in Stores /\ seen \in SUBSET Stores
    BY <1>6 DEF CompactResult, Inv, TypeOK, CallsInv
  <2>2. ob' = [ob EXCEPT ![p] = IF seen = Stores THEN IdleCompact
                 ELSE [pc |-> "looping", store |-> NoStore, seen |-> seen]]
    BY <1>6 DEF CompactResult
  <2> HIDE DEF seen
  <2>3. ob' \in [Observers -> [pc : {"idle", "looping", "waiting", "signalled"},
                               store : Stores \cup {NoStore}, seen : SUBSET Stores]]
    BY <2>1, <2>2 DEF Inv, TypeOK, IdleCompact
  <2>4. CallsInv'
    BY <1>6, <2>2 DEF CompactResult, Inv, TypeOK, CallsInv, IdleCompact
  <2> QED BY <1>6, <2>3, <2>4 DEF CompactResult, Inv, TypeOK, OneCompaction, PassiveCompacted
<1>7. ASSUME NEW p \in Observers, CompactGiveUp(p) PROVE Inv'
  BY <1>7 DEF CompactGiveUp, Inv, TypeOK, OneCompaction, PassiveCompacted, CallsInv, IdleCompact
<1>8. CASE BackgroundCheck
  BY <1>8, BeginInv DEF BackgroundCheck, Inv, TypeOK, CallsInv
<1>9. CASE BackgroundExit
  BY <1>9 DEF BackgroundExit, Inv, TypeOK, OneCompaction, PassiveCompacted, CallsInv
<1>10. ASSUME NEW s \in Stores, CompactRun(s) PROVE Inv'
  BY <1>10 DEF CompactRun, Inv, TypeOK, OneCompaction, PassiveCompacted, CallsInv
<1>11. ASSUME NEW s \in Stores, CompactOk(s) PROVE Inv'
  <2>1. load' \in [Stores -> 0 .. Slots]
    BY <1>11, DBAssumption DEF CompactOk, Inv, TypeOK
  <2> QED BY <1>11, <2>1, SetDoneInv DEF CompactOk, Inv, TypeOK
<1>12. ASSUME NEW s \in Stores, CompactErr(s) PROVE Inv'
  <2>1. comp[s] # "none" /\ failures' \in Nat
    BY <1>12 DEF CompactErr, Inv, TypeOK
  <2> QED BY <1>12, <2>1, SetDoneInv DEF CompactErr, Inv, TypeOK
<1>13. ASSUME NEW s \in Stores, CompactClear(s) PROVE Inv'
  BY <1>13, CompactClearInv
<1>14. CASE CloseSet
  BY <1>14 DEF CloseSet, Inv, TypeOK, OneCompaction, PassiveCompacted, CallsInv
<1>15. CASE CloseObserve
  BY <1>15 DEF CloseObserve, Inv, TypeOK, OneCompaction, PassiveCompacted, CallsInv
<1>16. CASE CloseActive
  BY <1>16 DEF CloseActive, Inv, TypeOK, OneCompaction, PassiveCompacted, CallsInv
<1>17. CASE ClosePassive
  <2>1. Other(active) \in Stores
    BY DEF Inv, TypeOK, Other, Stores
  <2> QED BY <1>17, <2>1 DEF ClosePassive, Inv, TypeOK, OneCompaction, PassiveCompacted, CallsInv
<1>18. CASE CloseWait
  BY <1>18 DEF CloseWait, Inv, TypeOK, OneCompaction, PassiveCompacted, CallsInv
<1>19. CASE CloseReturn
  BY <1>19 DEF CloseReturn, Inv, TypeOK, OneCompaction, PassiveCompacted, CallsInv
<1>20. CASE UNCHANGED vars
  BY <1>20 DEF vars, Inv, TypeOK, OneCompaction, PassiveCompacted, CallsInv
<1> QED
  BY <1>1, <1>2, <1>3, <1>4, <1>5, <1>6, <1>7, <1>8, <1>9, <1>10, <1>11, <1>12, <1>13,
     <1>14, <1>15, <1>16, <1>17, <1>18, <1>19, <1>20 DEF Next, Compaction, Closing

\* The invariant holds in every reachable state of the db.
THEOREM Invariance == Spec => []Inv
  BY InitInv, NextInv, PTL DEF Spec

\* Every variable of the db keeps its type; in particular no store ever has more
\* records than its table has room for.
THEOREM TypeCorrect == Spec => []TypeOK
<1>1. Inv => TypeOK BY DEF Inv
<1> QED BY Invariance, <1>1, PTL

\* There is at most one compaction and d.compact says of which store, for any
\* number of concurrent calls of Create, Compact and Close.
THEOREM OneCompactionHolds == Spec => []OneCompaction
<1>1. Inv => OneCompaction BY DEF Inv
<1> QED BY Invariance, <1>1, PTL

\* The store that is compacted is never the one that takes the writes.
THEOREM PassiveCompactedHolds == Spec => []PassiveCompacted
<1>1. Inv => PassiveCompacted BY DEF Inv
<1> QED BY Invariance, <1>1, PTL
=============================================================================
