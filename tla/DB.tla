---------------------------------- MODULE DB ----------------------------------
(***************************************************************************)
(* The two stores of a hashstore DB (storagenode/hashstore/db.go): the     *)
(* active one takes the writes, the passive one may be compacted, and they *)
(* swap roles.                                                             *)
(*                                                                         *)
(* Every section under d.mu is one action.  The goroutines are callers of  *)
(* Create and of Compact, one caller of Close, backgroundCompactions and   *)
(* one performPassiveCompaction per compaction.  A store is its load, what *)
(* its compaction is doing and whether it is closed.  A compactState is    *)
(* the store it compacts: a goroutine that waits for its done signal is    *)
(* moved on by the step that sets the signal.                              *)
(***************************************************************************)
EXTENDS Integers

CONSTANTS
  Creators,      \* goroutines that call Create and close the Writer
  Observers,     \* goroutines that call Compact
  CompactLoad,   \* db_CompactLoad, in records
  MaxLoad,       \* db_MaxLoad, in records
  Slots,         \* records a table has room for
  MaxFailures,   \* bound: compactions that fail by themselves
  MaxChecks      \* bound: Compact calls, and background checks that begin a compaction

ASSUME DBAssumption ==
  /\ CompactLoad \in Nat \ {0} /\ MaxLoad \in Nat /\ Slots \in Nat
  /\ CompactLoad < MaxLoad /\ MaxLoad <= Slots
  /\ MaxFailures \in Nat /\ MaxChecks \in Nat

VARIABLES
  active,    \* the active store
  compact,   \* d.compact: the store of the compactState, or NoStore
  closed,    \* d.closed is set
  load,      \* store -> records in its table
  comp,      \* store -> where its performPassiveCompaction is
  closing,   \* stores whose closed signal is set
  shut,      \* stores whose Close has finished
  cr,        \* creator -> its call
  ob,        \* observer -> its call
  bg,        \* backgroundCompactions has not returned
  closer,    \* the call of Close
  failures, checks

vars == <<active, compact, closed, load, comp, closing, shut, cr, ob, bg, closer, failures, checks>>

Stores == {0, 1}
NoStore == 2
Other(s) == 1 - s

IdleCreate == [pc |-> "idle", store |-> NoStore]
IdleCompact == [pc |-> "idle", store |-> NoStore, seen |-> {}]

TypeOK ==
  /\ active \in Stores
  /\ compact \in Stores \cup {NoStore}
  /\ closed \in BOOLEAN
  /\ load \in [Stores -> 0 .. Slots]
  /\ comp \in [Stores -> {"none", "begun", "running", "done"}]
  /\ closing \in SUBSET Stores
  /\ shut \in SUBSET Stores
  /\ cr \in [Creators -> [pc : {"idle", "waiting", "woken", "writing"}, store : Stores \cup {NoStore}]]
  /\ ob \in [Observers -> [pc : {"idle", "looping", "waiting", "signalled"},
                           store : Stores \cup {NoStore}, seen : SUBSET Stores]]
  /\ bg \in BOOLEAN
  /\ closer \in [pc : {"idle", "set", "waiting", "ready", "first", "second", "wg", "returned"},
                 store : Stores \cup {NoStore}]
  /\ failures \in Nat /\ checks \in Nat

\* New: the fuller store is active, and the passive one is compacted at once if
\* its load is high.
Init ==
  /\ active \in Stores
  /\ load \in [Stores -> 0 .. Slots]
  /\ load[active] >= load[Other(active)]
  /\ LET begin == load[Other(active)] >= CompactLoad
     IN  /\ compact = IF begin THEN Other(active) ELSE NoStore
         /\ comp = [s \in Stores |-> IF begin /\ s # active THEN "begun" ELSE "none"]
  /\ closed = FALSE /\ closing = {} /\ shut = {}
  /\ cr = [p \in Creators |-> IdleCreate]
  /\ ob = [p \in Observers |-> IdleCompact]
  /\ bg = TRUE
  /\ closer = [pc |-> "idle", store |-> NoStore]
  /\ failures = 0 /\ checks = 0

-----------------------------------------------------------------------------
(***************************************************************************)
(* swapStoresLocked (if swap) and beginPassiveCompaction.                  *)
(***************************************************************************)

\* Mutant of Begin: the stores are swapped after the compaction has begun.
BeginThenSwap(swap) ==
  /\ active' = IF swap THEN Other(active) ELSE active
  /\ compact' = Other(active)
  /\ comp' = [comp EXCEPT ![Other(active)] = "begun"]

Begin(swap) ==
  LET passive == IF swap THEN active ELSE Other(active) IN
  /\ active' = Other(passive)
  /\ compact' = passive
  /\ comp' = [comp EXCEPT ![passive] = "begun"]

\* What a goroutine does that waits for the compaction of store c: the signal may
\* be set already, before d.compact is reset.
Await(c, states) == IF states[c] = "done" THEN "woken" ELSE "waiting"

-----------------------------------------------------------------------------
(***************************************************************************)
(* Create, and the Close of the Writer it returns.                         *)
(***************************************************************************)

\* Mutant of CreateLoop: the compaction is begun without a swap.
CompactsInPlace(p) ==
  /\ IF load[active] >= CompactLoad /\ compact = NoStore
     THEN Begin(FALSE)
     ELSE UNCHANGED <<active, compact, comp>>
  /\ cr' = [cr EXCEPT ![p] =
       IF load[active'] >= MaxLoad
       THEN [pc |-> Await(compact', comp'), store |-> NoStore]
       ELSE IF active' \in closing THEN IdleCreate
       ELSE [pc |-> "writing", store |-> active']]
  /\ UNCHANGED <<closed, load, closing, shut, ob, bg, closer, failures, checks>>

\* The loop, from taking d.mu until it returns or drops d.mu to wait.
CreateLoop(p) ==
  /\ IF load[active] >= CompactLoad /\ compact = NoStore
     THEN Begin(TRUE)
     ELSE UNCHANGED <<active, compact, comp>>
  /\ cr' = [cr EXCEPT ![p] =
       IF load[active'] >= MaxLoad
       THEN [pc |-> Await(compact', comp'), store |-> NoStore]
       ELSE IF active' \in closing THEN IdleCreate
       ELSE [pc |-> "writing", store |-> active']]
  /\ UNCHANGED <<closed, load, closing, shut, ob, bg, closer, failures, checks>>

Create(p) == cr[p].pc = "idle" /\ ~closed /\ CreateLoop(p)

\* waitOnState returned nil: the loop goes on.
CreateRetry(p) == cr[p].pc = "woken" /\ CreateLoop(p)

\* waitOnState returns an error: the context is cancelled or the db closed.
CreateGiveUp(p) ==
  /\ cr[p].pc \in {"waiting", "woken"}
  /\ cr' = [cr EXCEPT ![p] = IdleCreate]
  /\ UNCHANGED <<active, compact, closed, load, comp, closing, shut, ob, bg, closer, failures, checks>>

\* Writer.Close: not during a compaction of its store; it fails if the store is
\* closed or its table full.
WriterClose(p) ==
  LET s == cr[p].store IN
  /\ cr[p].pc = "writing" /\ comp[s] # "running"
  /\ load' = IF s \in closing \/ load[s] = Slots THEN load ELSE [load EXCEPT ![s] = @ + 1]
  /\ cr' = [cr EXCEPT ![p] = IdleCreate]
  /\ UNCHANGED <<active, compact, closed, comp, closing, shut, ob, bg, closer, failures, checks>>

-----------------------------------------------------------------------------
(***************************************************************************)
(* DB.Compact.                                                             *)
(***************************************************************************)

\* A call of Compact.  Callers are bounded: the liveness of Create depends on it.
CompactCall(p) ==
  /\ ob[p].pc = "idle" /\ ~closed /\ checks < MaxChecks
  /\ ob' = [ob EXCEPT ![p] = [pc |-> "looping", store |-> NoStore, seen |-> {}]]
  /\ checks' = checks + 1
  /\ UNCHANGED <<active, compact, closed, load, comp, closing, shut, cr, bg, closer, failures>>

\* Observe the compaction there is, or begin one of a store not seen yet.
CompactLoop(p) ==
  /\ ob[p].pc = "looping"
  /\ IF compact # NoStore
     THEN UNCHANGED <<active, compact, comp>>
     ELSE Begin(Other(active) \in ob[p].seen)
  /\ ob' = [ob EXCEPT ![p].store = compact',
                      ![p].pc = IF Await(compact', comp') = "woken" THEN "signalled" ELSE "waiting"]
  /\ UNCHANGED <<closed, load, closing, shut, cr, bg, closer, failures, checks>>

\* The result is noted; return when both stores have one.
CompactResult(p) ==
  LET seen == ob[p].seen \cup {ob[p].store} IN
  /\ ob[p].pc = "signalled"
  /\ ob' = [ob EXCEPT ![p] = IF seen = Stores THEN IdleCompact
                             ELSE [pc |-> "looping", store |-> NoStore, seen |-> seen]]
  /\ UNCHANGED <<active, compact, closed, load, comp, closing, shut, cr, bg, closer, failures, checks>>

\* The context is cancelled or the db closed.
CompactGiveUp(p) ==
  /\ ob[p].pc \in {"waiting", "signalled"}
  /\ ob' = [ob EXCEPT ![p] = IdleCompact]
  /\ UNCHANGED <<active, compact, closed, load, comp, closing, shut, cr, bg, closer, failures, checks>>

-----------------------------------------------------------------------------
(***************************************************************************)
(* backgroundCompactions.  It may find the time over when the db is closed *)
(* as well; the ages decide whether to compact and whether to swap.        *)
(***************************************************************************)

BackgroundCheck ==
  /\ bg /\ compact = NoStore /\ checks < MaxChecks
  /\ \E swap \in BOOLEAN : Begin(swap)
  /\ checks' = checks + 1
  /\ UNCHANGED <<closed, load, closing, shut, cr, ob, bg, closer, failures>>

BackgroundExit ==
  /\ bg /\ closed
  /\ bg' = FALSE
  /\ UNCHANGED <<active, compact, closed, load, comp, closing, shut, cr, ob, closer, failures, checks>>

-----------------------------------------------------------------------------
(***************************************************************************)
(* performPassiveCompaction and the Store.Compact it calls.                *)
(***************************************************************************)

\* Store.Compact has its mutexes.
CompactRun(s) ==
  /\ comp[s] = "begun" /\ s \notin closing
  /\ comp' = [comp EXCEPT ![s] = "running"]
  /\ UNCHANGED <<active, compact, closed, load, closing, shut, cr, ob, bg, closer, failures, checks>>

\* Mutant of SetDone: a waiting Create is not woken.
SetDoneSilently(s) ==
  /\ comp' = [comp EXCEPT ![s] = "done"]
  /\ ob' = [p \in Observers |-> IF ob[p].pc = "waiting" THEN [ob[p] EXCEPT !.pc = "signalled"] ELSE ob[p]]
  /\ closer' = IF closer.pc = "waiting" THEN [closer EXCEPT !.pc = "ready"] ELSE closer
  /\ UNCHANGED <<active, compact, closed, closing, shut, cr, bg, checks>>

\* compact.done.Set: everyone who waits for it moves on.
SetDone(s) ==
  /\ comp' = [comp EXCEPT ![s] = "done"]
  /\ cr' = [p \in Creators |-> IF cr[p].pc = "waiting" THEN [cr[p] EXCEPT !.pc = "woken"] ELSE cr[p]]
  /\ ob' = [p \in Observers |-> IF ob[p].pc = "waiting" THEN [ob[p] EXCEPT !.pc = "signalled"] ELSE ob[p]]
  /\ closer' = IF closer.pc = "waiting" THEN [closer EXCEPT !.pc = "ready"] ELSE closer
  /\ UNCHANGED <<active, compact, closed, closing, shut, bg, checks>>

\* The new table is sized for a load below a half.
CompactOk(s) ==
  /\ comp[s] = "running"
  /\ \E l \in 0 .. (CompactLoad - 1) : load' = [load EXCEPT ![s] = l]
  /\ SetDone(s)
  /\ UNCHANGED failures

\* It fails: by itself, or because it is cancelled or the store closed.
CompactErr(s) ==
  /\ \/ comp[s] = "running"
     \/ comp[s] = "begun" /\ s \in closing
  /\ \/ failures < MaxFailures /\ failures' = failures + 1
     \/ closed /\ UNCHANGED failures
  /\ SetDone(s)
  /\ UNCHANGED load

\* Mutant of CompactClear: d.compact is reset when the compaction begins to run.
ClearsEarly(s) ==
  /\ comp[s] # "none" /\ compact = s
  /\ comp' = [comp EXCEPT ![s] = IF @ = "done" THEN "none" ELSE @]
  /\ compact' = NoStore
  /\ UNCHANGED <<active, closed, load, closing, shut, cr, ob, bg, closer, failures, checks>>

\* d.compact = nil, the last thing the goroutine does.
CompactClear(s) ==
  /\ comp[s] = "done"
  /\ comp' = [comp EXCEPT ![s] = "none"]
  /\ compact' = NoStore
  /\ UNCHANGED <<active, closed, load, closing, shut, cr, ob, bg, closer, failures, checks>>

-----------------------------------------------------------------------------
(***************************************************************************)
(* DB.Close.                                                               *)
(***************************************************************************)

CloseSet ==
  /\ closer.pc = "idle"
  /\ closed' = TRUE
  /\ closer' = [closer EXCEPT !.pc = "set"]
  /\ UNCHANGED <<active, compact, load, comp, closing, shut, cr, ob, bg, failures, checks>>

\* Mutant of CloseObserve: a signal that was set before is missed.
MissesSignal ==
  /\ closer.pc = "set"
  /\ closer' = [closer EXCEPT !.pc = IF compact # NoStore THEN "waiting" ELSE "ready"]
  /\ UNCHANGED <<active, compact, closed, load, comp, closing, shut, cr, ob, bg, failures, checks>>

\* Read d.compact under d.mu; cancel the compaction and wait for its signal.
CloseObserve ==
  /\ closer.pc = "set"
  /\ closer' = [closer EXCEPT !.pc = IF compact # NoStore /\ comp[compact] # "done"
                                     THEN "waiting" ELSE "ready"]
  /\ UNCHANGED <<active, compact, closed, load, comp, closing, shut, cr, ob, bg, failures, checks>>

\* d.active.Close() begins, with d.active read without d.mu.
CloseActive ==
  /\ closer.pc = "ready"
  /\ closing' = closing \cup {active}
  /\ closer' = [pc |-> "first", store |-> active]
  /\ UNCHANGED <<active, compact, closed, load, comp, shut, cr, ob, bg, failures, checks>>

\* It has the mutexes of the store and is done; d.passive.Close() begins.
ClosePassive ==
  /\ closer.pc = "first" /\ comp[closer.store] # "running"
  /\ shut' = shut \cup {closer.store}
  /\ closing' = closing \cup {Other(active)}
  /\ closer' = [pc |-> "second", store |-> Other(active)]
  /\ UNCHANGED <<active, compact, closed, load, comp, cr, ob, bg, failures, checks>>

CloseWait ==
  /\ closer.pc = "second" /\ comp[closer.store] # "running"
  /\ shut' = shut \cup {closer.store}
  /\ closer' = [closer EXCEPT !.pc = "wg"]
  /\ UNCHANGED <<active, compact, closed, load, comp, closing, cr, ob, bg, failures, checks>>

CloseReturn ==
  /\ closer.pc = "wg" /\ ~bg
  /\ closer' = [closer EXCEPT !.pc = "returned"]
  /\ UNCHANGED <<active, compact, closed, load, comp, closing, shut, cr, ob, bg, failures, checks>>

-----------------------------------------------------------------------------
Compaction(s) == CompactRun(s) \/ CompactOk(s) \/ CompactErr(s) \/ CompactClear(s)

Closing == CloseSet \/ CloseObserve \/ CloseActive \/ ClosePassive \/ CloseWait \/ CloseReturn

Next ==
  \/ \E p \in Creators : Create(p) \/ CreateRetry(p) \/ CreateGiveUp(p) \/ WriterClose(p)
  \/ \E p \in Observers : CompactCall(p) \/ CompactLoop(p) \/ CompactResult(p) \/ CompactGiveUp(p)
  \/ BackgroundCheck \/ BackgroundExit
  \/ \E s \in Stores : Compaction(s)
  \/ Closing

Spec == Init /\ [][Next]_vars

\* A goroutine that is not waiting is scheduled; Close itself need not be called.
FairSpec ==
  /\ Spec
  /\ \A p \in Creators : WF_vars(CreateRetry(p)) /\ WF_vars(WriterClose(p))
  /\ \A p \in Observers : WF_vars(CompactLoop(p)) /\ WF_vars(CompactResult(p))
  /\ WF_vars(BackgroundExit)
  /\ \A s \in Stores : WF_vars(Compaction(s))
  /\ WF_vars(CloseObserve \/ CloseActive \/ ClosePassive \/ CloseWait \/ CloseReturn)

-----------------------------------------------------------------------------
(***************************************************************************)
(* Properties.                                                             *)
(***************************************************************************)

\* At most one compaction goroutine exists, and d.compact says which: Create,
\* Compact, Close and the background check never lose or double one.
OneCompaction ==
  \A s \in Stores : comp[s] # "none" <=> compact = s

\* The store that is being compacted is the passive one whatever swaps happen, so
\* a Create is never sent to a store that a compaction has locked.
PassiveCompacted == compact # active

\* A Create that waits for a compaction is woken.
WaitersWake == \A p \in Creators : cr[p].pc = "waiting" ~> cr[p].pc # "waiting"

\* A Create that waits gets an active store with room, unless the db is closed.
RoomReturns ==
  (\E p \in Creators : cr[p].pc \in {"waiting", "woken"})
    ~> (load[active] < MaxLoad \/ closed \/ \A p \in Creators : cr[p].pc \notin {"waiting", "woken"})

\* Close returns: it waits for nobody who waits for it.
CloseReturns == closer.pc = "set" ~> closer.pc = "returned"

\* Close blocks until all background processes have stopped.
CloseStops == closer.pc = "returned" => ~bg /\ \A s \in Stores : comp[s] = "none"

\* Close closes down both stores.
CloseShutsBoth == closer.pc = "returned" => shut = Stores
=============================================================================
