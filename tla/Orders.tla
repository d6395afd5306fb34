-------------------------------- MODULE Orders --------------------------------
(***************************************************************************)
(* The settlement of bandwidth orders between one storage node             *)
(* (storagenode/orders) and a satellite (satellite/orders).                *)
(*                                                                         *)
(* The node appends the orders that uplinks sign to a file for each hour,  *)
(* sends a file when no more orders can come, and archives it.  The        *)
(* satellite pays an hour once, and bills the bucket through a cache that  *)
(* is written to the database in batches.                                  *)
(*                                                                         *)
(* Every order is for the same amount: of all amounts these are the ones   *)
(* that are easiest to take for each other.                                *)
(***************************************************************************)
EXTENDS Integers, FiniteSets

CONSTANTS
  Orders,
  Actions,
  UserActions,   \* actions that are billed to the bucket
  created,       \* order -> OrderCreation
  expires,       \* order -> OrderExpiration
  action,        \* order -> its action
  Hour,          \* ticks of the clock in an hour
  Grace,         \* OrderLimitGracePeriod
  BatchSize,     \* of the rollups write cache
  Requests,      \* settlement requests the satellite can be busy with
  MaxNow,        \* bound: time
  MaxFaults      \* bound: failures and restarts

window(o) == (created[o] \div Hour) * Hour
Windows == {window(o) : o \in Orders}

ASSUME OrdersAssumption ==
  /\ IsFiniteSet(Orders)
  /\ Hour \in Nat \ {0} /\ Grace \in Nat /\ BatchSize \in Nat \ {0}
  /\ created \in [Orders -> Nat] /\ expires \in [Orders -> Nat]
  /\ action \in [Orders -> Actions] /\ UserActions \subseteq Actions
  /\ MaxNow \in Nat /\ MaxFaults \in Nat

VARIABLES
  now,
  \* storage node
  begun,      \* orders BeginEnqueue has accepted: a serial number is used once
  inflight,   \* those of them that are not committed or aborted yet: active
  written,    \* history: orders that were appended
  files,      \* windows with a file in the unsent directory
  content,    \* window -> the orders that can be read from that file
  archive,    \* the archived files
  sender,     \* SendOrders
  trusted,    \* the satellite is on the node's list
  \* satellite
  handler,    \* request -> SettlementWithWindow
  rollup,     \* storagenode_bandwidth_rollups: order -> how often the rows count it
  pending,    \* rollups write cache: order -> how often it was added
  flight,     \* the batch that is being flushed
  billed,     \* bucket_bandwidth_rollups
  faults

node == <<begun, inflight, written, files, content, archive>>
cache == <<pending, flight, billed>>
satellite == <<handler, rollup, cache>>
vars == <<now, node, sender, trusted, satellite, faults>>

Idle == [phase |-> "idle"]
Free == [phase |-> "free"]
None == [o \in Orders |-> 0]
Statuses == {"accepted", "rejected"}

TypeOK ==
  /\ now \in 0 .. MaxNow
  /\ inflight \subseteq begun /\ begun \subseteq Orders /\ written \subseteq Orders
  /\ files \subseteq Windows
  /\ content \in [Windows -> SUBSET Orders]
  /\ archive \subseteq [window : Windows, orders : SUBSET Orders, status : Statuses]
  /\ sender \in {Idle}
       \cup [phase : {"list"}, started : 0 .. MaxNow]
       \cup [phase : {"read"}, started : 0 .. MaxNow, window : Windows]
       \cup [phase : {"settle"}, started : 0 .. MaxNow, window : Windows, orders : SUBSET Orders]
       \cup [phase : {"wait"}, started : 0 .. MaxNow, window : Windows, orders : SUBSET Orders,
             request : Requests]
       \cup [phase : {"archive"}, started : 0 .. MaxNow, window : Windows, orders : SUBSET Orders,
             status : Statuses]
  /\ trusted \in BOOLEAN
  /\ handler \in [Requests -> {Free}
       \cup [phase : {"receive", "read", "create"}, window : Windows, orders : SUBSET Orders]
       \cup [phase : {"bill"}, window : Windows, orders : SUBSET Orders, todo : SUBSET UserActions]
       \cup [phase : {"reply"}, status : Statuses]]
  /\ rollup \in [Orders -> Nat]
  /\ pending \in [Orders -> Nat] /\ flight \in [Orders -> Nat] /\ billed \in [Orders -> Nat]
  /\ faults \in 0 .. MaxFaults

Init ==
  /\ now = 0
  /\ begun = {} /\ inflight = {} /\ written = {}
  /\ files = {} /\ content = [w \in Windows |-> {}]
  /\ archive = {}
  /\ sender = Idle
  /\ trusted = TRUE
  /\ handler = [r \in Requests |-> Free]
  /\ rollup = None /\ pending = None /\ flight = None /\ billed = None
  /\ faults = 0

Fault == faults < MaxFaults /\ faults' = faults + 1

-----------------------------------------------------------------------------
(***************************************************************************)
(* Storage node: the orders store.                                         *)
(***************************************************************************)

\* verifyOrderLimit has looked at the clock before BeginEnqueue does.
BeginEnqueue(o) ==
  /\ o \notin begun
  /\ expires[o] >= now
  /\ created[o] - now <= Grace
  /\ now - created[o] <= Grace
  /\ begun' = begun \cup {o}
  /\ inflight' = inflight \cup {o}
  /\ UNCHANGED <<now, written, files, content, archive, sender, trusted, satellite, faults>>

\* The commit function, with the order; without, when nothing was transferred; and
\* when the append fails half way.
CommitEnqueue(o) ==
  /\ o \in inflight
  /\ inflight' = inflight \ {o}
  /\ written' = written \cup {o}
  /\ files' = files \cup {window(o)}
  /\ content' = [content EXCEPT ![window(o)] = @ \cup {o}]
  /\ UNCHANGED <<now, begun, archive, sender, trusted, satellite, faults>>

AbortEnqueue(o) ==
  /\ o \in inflight
  /\ inflight' = inflight \ {o}
  /\ UNCHANGED <<now, begun, written, files, content, archive, sender, trusted, satellite, faults>>

AppendFails(o) ==
  /\ Fault
  /\ o \in inflight
  /\ inflight' = inflight \ {o}
  /\ files' = files \cup {window(o)}
  /\ UNCHANGED <<now, begun, written, content, archive, sender, trusted, satellite>>

\* An entry whose checksum does not match is skipped by every later read.
Corrupt(w, o) ==
  /\ Fault
  /\ o \in content[w]
  /\ content' = [content EXCEPT ![w] = @ \ {o}]
  /\ UNCHANGED <<now, begun, inflight, written, files, archive, sender, trusted, satellite>>

NodeRestart ==
  /\ Fault
  /\ inflight' = {}
  /\ sender' = Idle
  /\ UNCHANGED <<now, begun, written, files, content, archive, trusted, satellite>>

-----------------------------------------------------------------------------
(***************************************************************************)
(* Storage node: SendOrders, with the time it was started at.              *)
(***************************************************************************)

hasActiveEnqueue(w) == \E o \in inflight : window(o) = w

\* Mutant of Unsent: the newest order of the hour is taken to be as old as the first.
UnsentEarly(w, started) ==
  /\ w \in files
  /\ started - w > Grace
  /\ ~hasActiveEnqueue(w)

Unsent(w, started) ==
  /\ w \in files
  /\ started - (w + Hour) > Grace
  /\ ~hasActiveEnqueue(w)

\* Mutant of SendOrders: the time is that of the start of the node.
SendOrdersStale ==
  /\ sender = Idle
  /\ sender' = [phase |-> "list", started |-> 0]
  /\ UNCHANGED <<now, node, trusted, satellite, faults>>

SendOrders ==
  /\ sender = Idle
  /\ sender' = [phase |-> "list", started |-> now]
  /\ UNCHANGED <<now, node, trusted, satellite, faults>>

Reading(w) == [phase |-> "read", started |-> sender.started, window |-> w]

\* ListUnsentBySatellite takes one file, and reads it a little later.
ListUnsent(w) ==
  /\ sender.phase = "list"
  /\ Unsent(w, sender.started)
  /\ sender' = Reading(w)
  /\ UNCHANGED <<now, node, trusted, satellite, faults>>

ListNone ==
  /\ sender.phase = "list"
  /\ \A w \in Windows : ~Unsent(w, sender.started)
  /\ sender' = Idle
  /\ UNCHANGED <<now, node, trusted, satellite, faults>>

ReadUnsent ==
  /\ sender.phase = "read"
  /\ sender' = [phase |-> "settle", started |-> sender.started, window |-> sender.window,
                orders |-> content[sender.window]]
  /\ UNCHANGED <<now, node, trusted, satellite, faults>>

\* A file that cannot be opened, read or closed is left for the next listing; this
\* one goes on to another file, or finds no orders and ends SendOrders.
ReadFails ==
  /\ Fault
  /\ sender.phase = "read"
  /\ sender' \in {Idle} \cup {Reading(w) : w \in {v \in Windows \ {sender.window} : Unsent(v, sender.started)}}
  /\ UNCHANGED <<now, node, trusted, satellite>>

ToArchive(status) ==
  [phase |-> "archive", started |-> sender.started, window |-> sender.window,
   orders |-> sender.orders, status |-> status]

\* The orders of a satellite the node no longer trusts are not sent.
SkipSettlement ==
  /\ sender.phase = "settle"
  /\ ~trusted
  /\ sender' = ToArchive("rejected")
  /\ UNCHANGED <<now, node, trusted, satellite, faults>>

settleWindow(r) ==
  /\ sender.phase = "settle"
  /\ trusted
  /\ handler[r] = Free
  /\ handler' = [handler EXCEPT ![r] =
       [phase |-> "receive", window |-> sender.window, orders |-> sender.orders]]
  /\ sender' = [phase |-> "wait", started |-> sender.started, window |-> sender.window,
                orders |-> sender.orders, request |-> r]
  /\ UNCHANGED <<now, node, trusted, rollup, cache, faults>>

Waiting(r) == sender.phase = "wait" /\ sender.request = r

\* Mutant of SettleFails: orders that could not be settled are archived as rejected.
SettleFailsArchives ==
  /\ Fault
  /\ sender.phase \in {"settle", "wait"}
  /\ sender' = ToArchive("rejected")
  /\ UNCHANGED <<now, node, trusted, satellite>>

\* The satellite cannot be reached, or does not answer in time: it may still be at work.
\* Its orders are not tried again before the next SendOrders.
SettleFails ==
  /\ Fault
  /\ sender.phase \in {"settle", "wait"}
  /\ sender' = Idle
  /\ UNCHANGED <<now, node, trusted, satellite>>

\* Archive moves the file as it is by then.
Archive ==
  /\ sender.phase = "archive"
  /\ sender.window \in files
  /\ files' = files \ {sender.window}
  /\ content' = [content EXCEPT ![sender.window] = {}]
  /\ archive' = archive \cup
       {[window |-> sender.window, orders |-> content[sender.window], status |-> sender.status]}
  /\ sender' = [phase |-> "list", started |-> sender.started]
  /\ UNCHANGED <<now, begun, inflight, written, trusted, satellite, faults>>

\* The file is sent again at once.
ArchiveFails ==
  /\ Fault
  /\ sender.phase = "archive"
  /\ sender' = [phase |-> "list", started |-> sender.started]
  /\ UNCHANGED <<now, node, trusted, satellite>>

Distrust ==
  /\ Fault
  /\ trusted
  /\ trusted' = FALSE
  /\ UNCHANGED <<now, node, sender, satellite>>

-----------------------------------------------------------------------------
(***************************************************************************)
(* Satellite: SettlementWithWindowFinal.                                   *)
(***************************************************************************)

Reply(status) == [phase |-> "reply", status |-> status]

\* What the satellite counts of the orders: those that have not expired.
ReceiveOrders(r) ==
  LET valid == {o \in handler[r].orders : expires[o] >= now} IN
  /\ handler[r].phase = "receive"
  /\ handler' = [handler EXCEPT ![r] =
       IF valid = {} THEN Reply("rejected") ELSE [@ EXCEPT !.phase = "read", !.orders = valid]]
  /\ UNCHANGED <<now, node, sender, trusted, rollup, cache, faults>>

ActionsOf(orders) == {action[o] : o \in orders}
Settled(orders) ==
  [a \in ActionsOf(orders) |-> Cardinality({o \in orders : action[o] = a})]

\* The orders that the rows of the hour count.
rows(w) == {o \in Orders : window(o) = w /\ rollup[o] > 0}
Sum(a, b) == [o \in Orders |-> a[o] + b[o]]
Once(orders) == [o \in Orders |-> IF o \in orders THEN 1 ELSE 0]

SettledAmountsMatch(w, orders) == Settled(rows(w)) = Settled(orders)

\* UpdateStoragenodeBandwidthSettleWithWindow: the transaction reads the rows of the
\* hour, and creates them when there are none.  Two transactions may both find none.
ReadRows(r) ==
  /\ handler[r].phase = "read"
  /\ handler' = [handler EXCEPT ![r] =
       IF rows(@.window) = {} THEN [@ EXCEPT !.phase = "create"]
       ELSE IF SettledAmountsMatch(@.window, @.orders) THEN Reply("accepted")
       ELSE Reply("rejected")]
  /\ UNCHANGED <<now, node, sender, trusted, rollup, cache, faults>>

\* Mutant of Conflict: a row that is there already is added to.
NoConflict(w, orders) == FALSE

\* The primary key has the node, the hour and the action.
Conflict(w, orders) == ActionsOf(rows(w)) \cap ActionsOf(orders) # {}

CreateRows(r) ==
  LET w == handler[r].window
      orders == handler[r].orders
  IN
  /\ handler[r].phase = "create"
  /\ IF Conflict(w, orders)
     THEN /\ handler' = [handler EXCEPT ![r].phase = "read"]
          /\ UNCHANGED rollup
     ELSE /\ rollup' = Sum(rollup, Once(orders))
          /\ handler' = [handler EXCEPT ![r] =
               [phase |-> "bill", window |-> w, orders |-> orders,
                todo |-> ActionsOf(orders) \cap UserActions]]
  /\ UNCHANGED <<now, node, sender, trusted, cache, faults>>

\* The keys of the cache: the bucket is always the same.
Keys(counts) == {<<window(o), action[o]>> : o \in {p \in Orders : counts[p] # 0}}

\* UpdateBucketBandwidthSettle for one action.  A new key that does not fit is lost; a
\* full batch is flushed unless one is already being flushed.
Bill(r, a) ==
  LET w == handler[r].window
      new == Once({o \in handler[r].orders : action[o] = a})
      lost == <<w, a>> \notin Keys(pending) /\ Cardinality(Keys(pending)) >= BatchSize
      next == IF lost THEN pending ELSE Sum(pending, new)
  IN
  /\ handler[r].phase = "bill"
  /\ a \in handler[r].todo
  /\ handler' = [handler EXCEPT ![r].todo = @ \ {a}]
  /\ IF Cardinality(Keys(next)) >= BatchSize /\ flight = None
     THEN flight' = next /\ pending' = None
     ELSE pending' = next /\ UNCHANGED flight
  /\ UNCHANGED <<now, node, sender, trusted, rollup, billed, faults>>

BillDone(r) ==
  /\ handler[r].phase = "bill"
  /\ handler[r].todo = {}
  /\ handler' = [handler EXCEPT ![r] = Reply("accepted")]
  /\ UNCHANGED <<now, node, sender, trusted, rollup, cache, faults>>

\* An answer nobody waits for is dropped.
SendAndClose(r) ==
  /\ handler[r].phase = "reply"
  /\ handler' = [handler EXCEPT ![r] = Free]
  /\ sender' = IF Waiting(r) THEN ToArchive(handler[r].status) ELSE sender
  /\ UNCHANGED <<now, node, trusted, rollup, cache, faults>>

\* The stream breaks, or the database fails, before anything is written.
HandlerFails(r) ==
  /\ Fault
  /\ handler[r].phase \in {"receive", "read", "create"}
  /\ handler' = [handler EXCEPT ![r] = Free]
  /\ sender' = IF Waiting(r) THEN Idle ELSE sender
  /\ UNCHANGED <<now, node, trusted, rollup, cache>>

-----------------------------------------------------------------------------
(***************************************************************************)
(* Satellite: the rollups write cache.                                     *)
(***************************************************************************)

\* The chore.
Flush ==
  /\ flight = None
  /\ pending # None
  /\ flight' = pending
  /\ pending' = None
  /\ UNCHANGED <<now, node, sender, trusted, handler, rollup, billed, faults>>

UpdateBandwidthBatch ==
  /\ flight # None
  /\ billed' = Sum(billed, flight)
  /\ flight' = None
  /\ UNCHANGED <<now, node, sender, trusted, handler, rollup, pending, faults>>

\* Logged as money lost.
FlushFails ==
  /\ Fault
  /\ flight # None
  /\ flight' = None
  /\ UNCHANGED <<now, node, sender, trusted, handler, rollup, pending, billed>>

SatelliteRestart ==
  /\ Fault
  /\ handler' = [r \in Requests |-> Free]
  /\ pending' = None /\ flight' = None
  /\ sender' = IF sender.phase = "wait" THEN Idle ELSE sender
  /\ UNCHANGED <<now, node, trusted, rollup, billed>>

-----------------------------------------------------------------------------

Tick ==
  /\ now < MaxNow
  /\ now' = now + 1
  /\ UNCHANGED <<node, sender, trusted, satellite, faults>>

Enqueue(o) == CommitEnqueue(o) \/ AbortEnqueue(o)

Send ==
  \/ SendOrders
  \/ \E w \in Windows : ListUnsent(w)
  \/ ListNone \/ ReadUnsent \/ SkipSettlement \/ Archive
  \/ \E r \in Requests : settleWindow(r)

Handle(r) ==
  \/ ReceiveOrders(r) \/ ReadRows(r) \/ CreateRows(r)
  \/ \E a \in UserActions : Bill(r, a)
  \/ BillDone(r) \/ SendAndClose(r)

Fail ==
  \/ \E o \in Orders : AppendFails(o)
  \/ \E w \in Windows, o \in Orders : Corrupt(w, o)
  \/ NodeRestart \/ ReadFails \/ SettleFails \/ ArchiveFails \/ Distrust
  \/ \E r \in Requests : HandlerFails(r)
  \/ FlushFails \/ SatelliteRestart

Next ==
  \/ Tick
  \/ \E o \in Orders : BeginEnqueue(o) \/ Enqueue(o)
  \/ Send
  \/ \E r \in Requests : Handle(r)
  \/ Flush \/ UpdateBandwidthBatch
  \/ Fail

Spec == Init /\ [][Next]_vars

\* Transfers end, with or without an order; the chores run again and again; handlers
\* return.
FairSpec ==
  /\ Spec
  /\ WF_vars(Tick)
  /\ \A o \in Orders : WF_vars(Enqueue(o))
  /\ WF_vars(Send)
  /\ \A r \in Requests : WF_vars(Handle(r))

-----------------------------------------------------------------------------
(***************************************************************************)
(* Properties.                                                             *)
(***************************************************************************)

\* A file is sent, and archived, only when it is complete: no order of its hour is in
\* flight any more or comes later, so that none is left behind or starts a second file.
WindowComplete ==
  /\ sender.phase \in {"settle", "wait", "archive"} =>
       /\ content[sender.window] \subseteq sender.orders
       /\ ~hasActiveEnqueue(sender.window)
  /\ \A a \in archive : a.window \notin files /\ ~hasActiveEnqueue(a.window)

\* An order in an archived file was paid or has expired, whatever answers were lost and
\* whatever was sent twice; and when the satellite said so, the hour was paid.
OrderSettled ==
  trusted => \A a \in archive :
    /\ \A o \in a.orders : rollup[o] > 0 \/ expires[o] < now
    /\ a.status = "accepted" => rows(a.window) # {}

\* The settlement keeps its promise, whatever is sent twice, answered late or done by
\* two handlers at once: nothing is paid or billed twice.
Promise == INSTANCE Settlement WITH
  windowOf <- [o \in Orders |-> window(o)],
  earned <- written,
  paid <- rollup

SettlesOnce == Promise!Spec

\* The file of every hour is sent and archived in the end.
SentInTheEnd == \A w \in Windows : w \in files ~> w \notin files

\* What is paid to the node is billed to the bucket, or will be.
BatchAtomic ==
  \A o \in Orders :
    rollup[o] > 0 /\ action[o] \in UserActions =>
      \/ pending[o] + flight[o] + billed[o] > 0
      \/ \E r \in Requests : handler[r].phase = "bill" /\ o \in handler[r].orders /\ action[o] \in handler[r].todo
=============================================================================
