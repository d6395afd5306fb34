----------------------------- MODULE OrdersProofs -----------------------------
(***************************************************************************)
(* Proofs about Orders, for any orders, requests, grace period and batch   *)
(* size: a file is complete when it is sent, an archived order was paid or *)
(* has expired, and the settlement implements Settlement.                  *)
(*                                                                         *)
(* Everything rests on one fact: an hour that is over stays over, so that  *)
(* its file only shrinks.  A request that was sent once has all its orders *)
(* then, however late it is handled and whoever waits for the answer.      *)
(***************************************************************************)
EXTENDS Orders, TLAPS

-----------------------------------------------------------------------------
(***************************************************************************)
(* Time and types.                                                         *)
(***************************************************************************)

\* The hour of an order begins at most an hour before the order was created.
LEMMA WindowBound ==
  ASSUME NEW o \in Orders
  PROVE  /\ window(o) \in Windows /\ window(o) \in Nat
         /\ window(o) <= created[o] /\ created[o] < window(o) + Hour
<1>1. \A a \in Nat, b \in Nat \ {0} :
        (a \div b) * b \in Nat /\ (a \div b) * b <= a /\ a < (a \div b) * b + b
  OBVIOUS
<1> QED BY <1>1, OrdersAssumption DEF window, Windows

\* Windows are points in time.
LEMMA WindowsNat == Windows \subseteq Nat
  BY WindowBound DEF Windows

\* What the phase of the sender says of its other fields.
LEMMA SenderShape ==
  ASSUME TypeOK
  PROVE  /\ sender.phase \in {"idle", "list", "read", "settle", "wait", "archive"}
         /\ sender.phase # "idle" => sender.started \in 0 .. MaxNow
         /\ sender.phase \in {"read", "settle", "wait", "archive"} => sender.window \in Windows
         /\ sender.phase \in {"settle", "wait", "archive"} => sender.orders \in SUBSET Orders
         /\ sender.phase = "wait" => sender.request \in Requests
         /\ sender.phase = "archive" => sender.status \in Statuses
  BY DEF TypeOK, Idle

\* The phases in which a handler has not paid yet, and all that a handler may be.
Open == {"receive", "read", "create"}
Handlers ==
  {Free}
  \cup [phase : Open, window : Windows, orders : SUBSET Orders]
  \cup [phase : {"bill"}, window : Windows, orders : SUBSET Orders, todo : SUBSET UserActions]
  \cup [phase : {"reply"}, status : Statuses]

\* What the phase of a handler says of its other fields.
LEMMA HandlerShape ==
  ASSUME TypeOK, NEW r \in Requests
  PROVE  /\ handler \in [Requests -> Handlers]
         /\ handler[r] \in Handlers
         /\ handler[r].phase \in Open \cup {"free", "bill", "reply"}
         /\ handler[r].phase \in Open =>
              handler[r] = [phase |-> handler[r].phase, window |-> handler[r].window, orders |-> handler[r].orders]
         /\ handler[r].phase = "bill" =>
              handler[r] = [phase |-> "bill", window |-> handler[r].window, orders |-> handler[r].orders,
                            todo |-> handler[r].todo]
         /\ handler[r].phase \in Open \cup {"bill"} =>
              handler[r].window \in Windows /\ handler[r].orders \in SUBSET Orders
         /\ handler[r].phase = "bill" => handler[r].todo \in SUBSET UserActions
         /\ handler[r].phase = "reply" => handler[r].status \in Statuses
<1>1. handler \in [Requests -> Handlers]
  BY DEF TypeOK, Handlers, Open
<1>2. handler[r] \in Handlers
  BY <1>1
<1> HIDE DEF Handlers
<1> QED BY <1>1, <1>2 DEF Handlers, Open, Free

\* A handler goes on with other orders or another phase.
LEMMA OpenHandler ==
  ASSUME NEW h \in Handlers, h.phase \in Open, NEW p \in Open, NEW orders \in SUBSET Orders
  PROVE  /\ [h EXCEPT !.phase = p] \in Handlers
         /\ [h EXCEPT !.phase = p, !.orders = orders] \in Handlers
<1>1. h \in [phase : Open, window : Windows, orders : SUBSET Orders]
  BY DEF Handlers, Open, Free
<1>2. /\ [h EXCEPT !.phase = p] \in [phase : Open, window : Windows, orders : SUBSET Orders]
      /\ [h EXCEPT !.phase = p, !.orders = orders] \in [phase : Open, window : Windows, orders : SUBSET Orders]
  BY <1>1
<1> QED BY <1>2 DEF Handlers

\* A handler that bills goes on with fewer actions to bill.
LEMMA BillHandler ==
  ASSUME NEW h \in Handlers, h.phase = "bill", NEW a
  PROVE  [h EXCEPT !.todo = @ \ {a}] \in Handlers
<1>1. h \in [phase : {"bill"}, window : Windows, orders : SUBSET Orders, todo : SUBSET UserActions]
  BY DEF Handlers, Open, Free
<1>2. [h EXCEPT !.todo = @ \ {a}]
        \in [phase : {"bill"}, window : Windows, orders : SUBSET Orders, todo : SUBSET UserActions]
  BY <1>1
<1> QED BY <1>2 DEF Handlers

\* What the node stores of orders.
NodeTypes ==
  /\ inflight \subseteq begun /\ begun \subseteq Orders /\ written \subseteq Orders
  /\ files \subseteq Windows
  /\ content \in [Windows -> SUBSET Orders]
  /\ archive \subseteq [window : Windows, orders : SUBSET Orders, status : Statuses]

SenderTypes ==
  sender \in {Idle}
       \cup [phase : {"list"}, started : 0 .. MaxNow]
       \cup [phase : {"read"}, started : 0 .. MaxNow, window : Windows]
       \cup [phase : {"settle"}, started : 0 .. MaxNow, window : Windows, orders : SUBSET Orders]
       \cup [phase : {"wait"}, started : 0 .. MaxNow, window : Windows, orders : SUBSET Orders,
             request : Requests]
       \cup [phase : {"archive"}, started : 0 .. MaxNow, window : Windows, orders : SUBSET Orders,
             status : Statuses]

CountTypes ==
  /\ rollup \in [Orders -> Nat]
  /\ pending \in [Orders -> Nat] /\ flight \in [Orders -> Nat] /\ billed \in [Orders -> Nat]

\* Sum adds counts.
LEMMA SumType ==
  ASSUME NEW a \in [Orders -> Nat], NEW b \in [Orders -> Nat]
  PROVE  Sum(a, b) \in [Orders -> Nat]
  BY DEF Sum

\* Once is a count of orders.
LEMMA OnceType == \A orders : Once(orders) \in [Orders -> Nat]
  BY DEF Once

\* The steps that change what the node stores.
LEMMA NodeSteps ==
  ASSUME [Next]_vars
  PROVE  \/ \E o \in Orders : BeginEnqueue(o) \/ Enqueue(o) \/ AppendFails(o)
         \/ \E w \in Windows, o \in Orders : Corrupt(w, o)
         \/ NodeRestart \/ Archive
         \/ UNCHANGED node
<1> SUFFICES ASSUME Next, ~Archive, ~NodeRestart,
                    ~ \E o \in Orders : BeginEnqueue(o) \/ Enqueue(o) \/ AppendFails(o),
                    ~ \E w \in Windows, o \in Orders : Corrupt(w, o)
             PROVE  UNCHANGED node
  BY DEF vars
<1>1. ASSUME NEW r \in Requests, Handle(r) \/ HandlerFails(r) PROVE UNCHANGED node
  BY <1>1 DEF Handle, ReceiveOrders, ReadRows, CreateRows, Bill, BillDone, SendAndClose,
              HandlerFails
<1>2. CASE Send
  BY <1>2 DEF Send, SendOrders, ListUnsent, ListNone, ReadUnsent, SkipSettlement, settleWindow
<1>3. CASE Fail
  BY <1>1, <1>3 DEF Fail, ReadFails, SettleFails, ArchiveFails, Distrust, FlushFails, SatelliteRestart
<1> QED BY <1>1, <1>2, <1>3 DEF Next, Tick, Flush, UpdateBandwidthBatch

\* The steps that change the sender.
LEMMA SenderSteps ==
  ASSUME [Next]_vars
  PROVE  \/ Send \/ NodeRestart \/ ReadFails \/ SettleFails \/ ArchiveFails \/ SatelliteRestart
         \/ \E r \in Requests : SendAndClose(r) \/ HandlerFails(r)
         \/ UNCHANGED sender
<1> SUFFICES ASSUME Next, ~Send, ~NodeRestart, ~ReadFails, ~SettleFails, ~ArchiveFails, ~SatelliteRestart,
                    ~ \E r \in Requests : SendAndClose(r) \/ HandlerFails(r)
             PROVE  UNCHANGED sender
  BY DEF vars
<1>1. ASSUME NEW r \in Requests, Handle(r) PROVE UNCHANGED sender
  BY <1>1 DEF Handle, ReceiveOrders, ReadRows, CreateRows, Bill, BillDone
<1>2. CASE Fail
  BY <1>2 DEF Fail, AppendFails, Corrupt, Distrust, FlushFails
<1> QED BY <1>1, <1>2 DEF Next, Tick, BeginEnqueue, Enqueue, CommitEnqueue, AbortEnqueue, Flush,
                          UpdateBandwidthBatch

\* The steps that change the handlers.
LEMMA HandlerSteps ==
  ASSUME [Next]_vars
  PROVE  \/ \E r \in Requests : settleWindow(r) \/ Handle(r) \/ HandlerFails(r)
         \/ SatelliteRestart
         \/ UNCHANGED handler
<1> SUFFICES ASSUME Next, ~SatelliteRestart,
                    ~ \E r \in Requests : settleWindow(r) \/ Handle(r) \/ HandlerFails(r)
             PROVE  UNCHANGED handler
  BY DEF vars, satellite
<1>1. CASE Send
  BY <1>1 DEF Send, SendOrders, ListUnsent, ListNone, ReadUnsent, SkipSettlement, Archive, satellite
<1>2. CASE Fail
  BY <1>2 DEF Fail, AppendFails, Corrupt, NodeRestart, ReadFails, SettleFails, ArchiveFails, Distrust,
              FlushFails, satellite
<1> QED BY <1>1, <1>2 DEF Next, Tick, BeginEnqueue, Enqueue, CommitEnqueue, AbortEnqueue, Flush,
                          UpdateBandwidthBatch, satellite

\* The steps that pay or bill.
LEMMA CountSteps ==
  ASSUME [Next]_vars
  PROVE  \/ \E r \in Requests : CreateRows(r) \/ \E a \in UserActions : Bill(r, a)
         \/ Flush \/ UpdateBandwidthBatch \/ FlushFails \/ SatelliteRestart
         \/ UNCHANGED <<rollup, cache>>
<1> SUFFICES ASSUME Next, ~SatelliteRestart, ~Flush, ~UpdateBandwidthBatch, ~FlushFails,
                    ~ \E r \in Requests : CreateRows(r) \/ \E a \in UserActions : Bill(r, a)
             PROVE  UNCHANGED <<rollup, cache>>
  BY DEF vars, satellite
<1>1. CASE Send
  BY <1>1 DEF Send, SendOrders, ListUnsent, ListNone, ReadUnsent, SkipSettlement, settleWindow,
              Archive, satellite
<1>2. CASE Fail
  BY <1>2 DEF Fail, AppendFails, Corrupt, NodeRestart, ReadFails, SettleFails, ArchiveFails, Distrust,
              HandlerFails, satellite
<1>3. ASSUME NEW r \in Requests, Handle(r) PROVE UNCHANGED <<rollup, cache>>
  BY <1>3 DEF Handle, ReceiveOrders, ReadRows, BillDone, SendAndClose
<1> QED BY <1>1, <1>2, <1>3 DEF Next, Tick, BeginEnqueue, Enqueue, CommitEnqueue, AbortEnqueue,
                                satellite

\* Time goes on, failures are counted, and trust does not come back.
LEMMA ClockSteps ==
  ASSUME TypeOK, [Next]_vars
  PROVE  /\ now' \in 0 .. MaxNow /\ now <= now'
         /\ faults' \in 0 .. MaxFaults
         /\ trusted' \in BOOLEAN /\ (trusted' => trusted)
<1>1. CASE Fail
  <2>1. Fault /\ UNCHANGED now /\ (trusted' = trusted \/ trusted' = FALSE)
    BY <1>1 DEF Fail, AppendFails, Corrupt, NodeRestart, ReadFails, SettleFails, ArchiveFails, Distrust,
                HandlerFails,
                FlushFails, SatelliteRestart
  <2>2. faults' \in 0 .. MaxFaults /\ now' = now /\ now \in 0 .. MaxNow
    BY <2>1, OrdersAssumption DEF Fault, TypeOK
  <2>3. trusted' \in BOOLEAN /\ (trusted' => trusted)
    <3>1. trusted \in BOOLEAN
      BY DEF TypeOK
    <3>2. trusted' = trusted \/ trusted' = FALSE
      BY <2>1
    <3>3. CASE trusted' = trusted
      BY <3>1, <3>3
    <3>4. CASE trusted' = FALSE
      BY <3>4
    <3> QED BY <3>2, <3>3, <3>4
  <2> QED BY <2>2, <2>3, OrdersAssumption
<1>2. CASE Tick
  BY <1>2, OrdersAssumption DEF Tick, TypeOK
<1>3. ASSUME ~Fail, ~Tick PROVE UNCHANGED <<now, faults, trusted>>
  BY <1>3 DEF vars, Next, Send, Handle, Enqueue, BeginEnqueue, CommitEnqueue, AbortEnqueue,
              SendOrders,
              ListUnsent, ListNone, ReadUnsent, SkipSettlement, settleWindow, Archive, ReceiveOrders, ReadRows,
              CreateRows, Bill, BillDone, SendAndClose, Flush, UpdateBandwidthBatch
<1> QED BY <1>1, <1>2, <1>3 DEF TypeOK

\* Every step of the system keeps the types.
LEMMA NextTypes ==
  ASSUME TypeOK, [Next]_vars
  PROVE  TypeOK'
<1>1. NodeTypes'
  <2>1. ASSUME NEW o \in Orders, BeginEnqueue(o) PROVE NodeTypes'
    BY <2>1 DEF BeginEnqueue, TypeOK, NodeTypes
  <2>2. ASSUME NEW o \in Orders, Enqueue(o) \/ AppendFails(o) PROVE NodeTypes'
    BY <2>2, WindowBound DEF Enqueue, CommitEnqueue, AbortEnqueue, AppendFails, TypeOK, NodeTypes
  <2>3. ASSUME NEW o \in Orders, NEW w \in Windows, Corrupt(w, o) PROVE NodeTypes'
    BY <2>3 DEF Corrupt, TypeOK, NodeTypes
  <2>4. CASE NodeRestart
    BY <2>4 DEF NodeRestart, TypeOK, NodeTypes
  <2>5. CASE Archive
    BY <2>5, SenderShape DEF Archive, TypeOK, NodeTypes
  <2>6. CASE UNCHANGED node
    BY <2>6 DEF node, TypeOK, NodeTypes
  <2> QED BY <2>1, <2>2, <2>3, <2>4, <2>5, <2>6, NodeSteps
<1>2. SenderTypes'
  <2>1. CASE Send
    <3>1. ASSUME NEW r \in Requests, settleWindow(r) PROVE SenderTypes'
      BY <3>1, SenderShape DEF settleWindow, SenderTypes
    <3>2. ASSUME NEW w \in Windows, ListUnsent(w) PROVE SenderTypes'
      BY <3>2, SenderShape DEF ListUnsent, Reading, SenderTypes
    <3>3. CASE SendOrders
      BY <3>3 DEF SendOrders, SenderTypes, TypeOK
    <3>4. CASE ListNone
      BY <3>4 DEF ListNone, SenderTypes
    <3>5. CASE ReadUnsent
      BY <3>5, SenderShape DEF ReadUnsent, SenderTypes, TypeOK
    <3>6. CASE SkipSettlement
      BY <3>6, SenderShape DEF SkipSettlement, ToArchive, SenderTypes, Statuses
    <3>7. CASE Archive
      BY <3>7, SenderShape DEF Archive, SenderTypes
    <3> QED BY <2>1, <3>1, <3>2, <3>3, <3>4, <3>5, <3>6, <3>7 DEF Send
  <2>2. CASE NodeRestart \/ SettleFails
    BY <2>2 DEF NodeRestart, SettleFails, SenderTypes
  <2>8. CASE ReadFails
    <3>1. sender' = Idle \/ \E w \in Windows : sender' = Reading(w)
      BY <2>8 DEF ReadFails
    <3> QED BY <2>8, <3>1, SenderShape DEF ReadFails, Reading, SenderTypes
  <2>3. CASE ArchiveFails
    BY <2>3, SenderShape DEF ArchiveFails, SenderTypes
  <2>4. CASE SatelliteRestart
    BY <2>4 DEF SatelliteRestart, SenderTypes, TypeOK
  <2>5. ASSUME NEW r \in Requests, SendAndClose(r) PROVE SenderTypes'
    <3>1. CASE Waiting(r)
      BY <2>5, <3>1, SenderShape, HandlerShape DEF SendAndClose, Waiting, ToArchive, SenderTypes
    <3>2. CASE ~Waiting(r)
      BY <2>5, <3>2 DEF SendAndClose, SenderTypes, TypeOK
    <3> QED BY <3>1, <3>2
  <2>6. ASSUME NEW r \in Requests, HandlerFails(r) PROVE SenderTypes'
    BY <2>6 DEF HandlerFails, SenderTypes, TypeOK
  <2>7. CASE UNCHANGED sender
    BY <2>7 DEF SenderTypes, TypeOK
  <2> QED BY <2>1, <2>2, <2>3, <2>4, <2>5, <2>6, <2>7, <2>8, SenderSteps
<1>3. handler' \in [Requests -> Handlers]
  <2>1. ASSUME NEW r \in Requests, NEW h \in Handlers, handler' = [handler EXCEPT ![r] = h]
        PROVE  handler' \in [Requests -> Handlers]
    BY <2>1, HandlerShape
  <2>2. ASSUME NEW r \in Requests, settleWindow(r) PROVE handler' \in [Requests -> Handlers]
    BY <2>1, <2>2, SenderShape DEF settleWindow, Handlers, Open
  <2>3. ASSUME NEW r \in Requests, Handle(r) PROVE handler' \in [Requests -> Handlers]
    <3>1. CASE ReceiveOrders(r)
      <4> DEFINE valid == {o \in handler[r].orders : expires[o] >= now}
      <4>1. handler[r].phase \in Open /\ valid \in SUBSET Orders
        BY <3>1, HandlerShape DEF ReceiveOrders, Open
      <4>2. [handler[r] EXCEPT !.phase = "read", !.orders = valid] \in Handlers /\ Reply("rejected") \in Handlers
        BY <4>1, HandlerShape, OpenHandler DEF Reply, Handlers, Open, Statuses
      <4>3. handler' = [handler EXCEPT ![r] =
               IF valid = {} THEN Reply("rejected") ELSE [handler[r] EXCEPT !.phase = "read", !.orders = valid]]
        BY <3>1, HandlerShape DEF ReceiveOrders
      <4> QED BY <2>1, <4>2, <4>3
    <3>2. CASE ReadRows(r)
      <4>1. \A status \in Statuses : Reply(status) \in Handlers
        BY DEF Reply, Handlers
      <4>2. [handler[r] EXCEPT !.phase = "create"] \in Handlers
        BY <3>2, HandlerShape, OpenHandler DEF ReadRows, Open
      <4>3. \E h \in Handlers : handler' = [handler EXCEPT ![r] = h]
        BY <3>2, <4>1, <4>2, HandlerShape DEF ReadRows, Statuses
      <4> QED BY <2>1, <4>3
    <3>3. CASE CreateRows(r)
      <4>1. handler[r].window \in Windows /\ handler[r].orders \in SUBSET Orders
        BY <3>3, HandlerShape DEF CreateRows, Open
      <4>2. [handler[r] EXCEPT !.phase = "read"] \in Handlers
        BY <3>3, <4>1, HandlerShape, OpenHandler DEF CreateRows, Open
      <4>3. [phase |-> "bill", window |-> handler[r].window, orders |-> handler[r].orders,
             todo |-> ActionsOf(handler[r].orders) \cap UserActions] \in Handlers
        BY <4>1 DEF Handlers
      <4>4. \E h \in Handlers : handler' = [handler EXCEPT ![r] = h]
        BY <3>3, <4>2, <4>3, HandlerShape DEF CreateRows
      <4> QED BY <2>1, <4>4
    <3>4. ASSUME NEW a \in UserActions, Bill(r, a) PROVE handler' \in [Requests -> Handlers]
      <4>1. [handler[r] EXCEPT !.todo = handler[r].todo \ {a}] \in Handlers
        BY <3>4, HandlerShape, BillHandler DEF Bill
      <4>2. handler' = [handler EXCEPT ![r] = [handler[r] EXCEPT !.todo = handler[r].todo \ {a}]]
        BY <3>4, HandlerShape DEF Bill
      <4> QED BY <2>1, <4>1, <4>2
    <3>5. CASE BillDone(r)
      BY <2>1, <3>5 DEF BillDone, Reply, Handlers, Statuses
    <3>6. CASE SendAndClose(r)
      BY <2>1, <3>6 DEF SendAndClose, Handlers
    <3> QED BY <2>3, <3>1, <3>2, <3>3, <3>4, <3>5, <3>6 DEF Handle
  <2>4. ASSUME NEW r \in Requests, HandlerFails(r) PROVE handler' \in [Requests -> Handlers]
    BY <2>1, <2>4 DEF HandlerFails, Handlers
  <2>5. CASE SatelliteRestart
    BY <2>5 DEF SatelliteRestart, Handlers
  <2>6. CASE UNCHANGED handler
    BY <2>6 DEF TypeOK, Handlers, Open
  <2> QED BY <2>2, <2>3, <2>4, <2>5, <2>6, HandlerSteps
<1>4. CountTypes'
  <2>1. None \in [Orders -> Nat] /\ CountTypes
    BY DEF None, TypeOK, CountTypes
  <2>2. ASSUME NEW r \in Requests, CreateRows(r) PROVE CountTypes'
    BY <2>1, <2>2, SumType, OnceType DEF CreateRows, CountTypes, cache
  <2>3. ASSUME NEW r \in Requests, NEW a \in UserActions, Bill(r, a) PROVE CountTypes'
    BY <2>1, <2>3, SumType, OnceType DEF Bill, CountTypes
  <2>4. CASE Flush \/ UpdateBandwidthBatch \/ FlushFails \/ SatelliteRestart
    BY <2>1, <2>4, SumType DEF Flush, UpdateBandwidthBatch, FlushFails, SatelliteRestart, CountTypes
  <2>5. CASE UNCHANGED <<rollup, cache>>
    BY <2>1, <2>5 DEF cache, CountTypes
  <2> QED BY <2>2, <2>3, <2>4, <2>5, CountSteps
<1> QED BY <1>1, <1>2, <1>3, <1>4, ClockSteps DEF TypeOK, NodeTypes, SenderTypes, CountTypes,
            Handlers, Open

-----------------------------------------------------------------------------
(***************************************************************************)
(* The inductive invariant.                                                *)
(***************************************************************************)

\* No order of the hour is in flight, and none can come: BeginEnqueue takes no order
\* that is older than the grace period.
Over(w) == now - (w + Hour) > Grace /\ ~hasActiveEnqueue(w)

\* A serial number is used once, and a file has the orders of its hour.
NodeInv ==
  /\ inflight \cap written = {} /\ written \subseteq begun
  /\ \A w \in Windows : \A o \in content[w] : o \in written /\ window(o) = w

\* The file that is sent is over, and was read completely.
SenderInv ==
  /\ sender.phase # "idle" => sender.started <= now
  /\ sender.phase \in {"read", "settle", "wait", "archive"} => Over(sender.window)
  /\ sender.phase \in {"settle", "wait", "archive"} =>
       /\ content[sender.window] \subseteq sender.orders
       /\ \A o \in sender.orders : o \in written /\ window(o) = sender.window

\* What is archived does not get a second file.
ArchiveInv == \A a \in archive : a.window \notin files /\ Over(a.window)

\* An hour is paid when it is over, an order once, and only if the node has stored it.
PaidInv ==
  /\ rollup \in [Orders -> {0, 1}]
  /\ \A o \in Orders : rollup[o] = 1 => o \in written /\ Over(window(o))

\* A request that is under way, whoever waits for it, has all orders of its file but
\* those that have expired, for the file only shrinks.
HandlerInv ==
  \A r \in Requests :
    /\ handler[r].phase \in Open \cup {"bill"} =>
         /\ Over(handler[r].window)
         /\ \A o \in handler[r].orders : o \in written /\ window(o) = handler[r].window
    /\ handler[r].phase = "receive" => content[handler[r].window] \subseteq handler[r].orders
    /\ handler[r].phase \in {"read", "create"} =>
         /\ handler[r].orders # {}
         /\ \A o \in content[handler[r].window] : o \in handler[r].orders \/ expires[o] < now
    /\ handler[r].phase = "bill" =>
         handler[r].orders # {} /\ \A o \in handler[r].orders : rollup[o] = 1

\* The handler still has to bill the order.
ToBill(r, o) ==
  handler[r].phase = "bill" /\ o \in handler[r].orders /\ action[o] \in handler[r].todo

\* An order is on its way to the bucket at one place at most, and only if it was paid.
BilledInv ==
  /\ \A o \in Orders : pending[o] + flight[o] + billed[o] <= rollup[o]
  /\ \A o \in Orders, r \in Requests : ToBill(r, o) => pending[o] + flight[o] + billed[o] = 0
  /\ \A o \in Orders, r, s \in Requests : ToBill(r, o) /\ ToBill(s, o) => r = s

\* All orders that can be read from the file of the hour are paid or have expired.
Covered(w) == \A o \in content[w] : rollup[o] = 1 \/ expires[o] < now

\* What an answer of the satellite means for the file that was sent.
Answered(w, status) == Covered(w) /\ (status = "accepted" => rows(w) # {})

\* An hour of which any order is paid is covered: that is why an old answer, or the
\* rows of another request, do as well as the rows of this one.
SettledInv ==
  /\ \A w \in Windows : rows(w) # {} => Covered(w)
  /\ sender.phase = "wait" =>
       /\ handler[sender.request].phase \in Open \cup {"bill"} => handler[sender.request].window = sender.window
       /\ handler[sender.request].phase = "reply" => Answered(sender.window, handler[sender.request].status)
  /\ sender.phase = "archive" /\ trusted => Answered(sender.window, sender.status)

Inv ==
  /\ TypeOK
  /\ NodeInv /\ SenderInv /\ ArchiveInv
  /\ PaidInv /\ HandlerInv /\ BilledInv
  /\ SettledInv /\ OrderSettled

\* The system starts with nothing stored, sent or paid.
LEMMA InitInv == Init => Inv
<1> SUFFICES ASSUME Init PROVE Inv
  OBVIOUS
<1> USE OrdersAssumption DEF Init
<1>1. TypeOK
  BY DEF TypeOK, Idle, Free, None
<1>2. NodeInv /\ SenderInv /\ ArchiveInv
  BY DEF NodeInv, SenderInv, ArchiveInv, Idle
<1>3. PaidInv /\ HandlerInv /\ BilledInv
  BY DEF PaidInv, HandlerInv, BilledInv, ToBill, Free, Open, None
<1>4. SettledInv /\ OrderSettled
  BY DEF SettledInv, OrderSettled, Covered, Idle, rows, None
<1> QED BY <1>1, <1>2, <1>3, <1>4 DEF Inv

-----------------------------------------------------------------------------
(***************************************************************************)
(* The node.                                                               *)
(***************************************************************************)

\* Over in the next state.
OverNext(w) == now' - (w + Hour) > Grace /\ \A o \in inflight' : window(o) # w

\* When an hour is over it stays over.
LEMMA OverStable ==
  ASSUME TypeOK, [Next]_vars, NEW w \in Windows, Over(w)
  PROVE  OverNext(w)
<1>1. now \in Nat /\ now' \in Nat /\ now <= now' /\ w \in Nat
  BY ClockSteps, WindowsNat, OrdersAssumption DEF TypeOK
<1>2. now' - (w + Hour) > Grace
  <2>1. \A s, t \in Nat : s <= t /\ s - (w + Hour) > Grace => t - (w + Hour) > Grace
    BY <1>1, OrdersAssumption
  <2> QED BY <1>1, <2>1 DEF Over
<1>3. ~hasActiveEnqueue(w)'
  <2>1. ASSUME NEW o \in Orders, BeginEnqueue(o) PROVE ~hasActiveEnqueue(w)'
    <3>1. window(o) # w
      BY <1>1, <2>1, WindowBound, OrdersAssumption DEF BeginEnqueue, Over
    <3> QED BY <2>1, <3>1 DEF BeginEnqueue, Over, hasActiveEnqueue
  <2>2. ASSUME NEW o \in Orders, Enqueue(o) \/ AppendFails(o) PROVE ~hasActiveEnqueue(w)'
    BY <2>2 DEF Enqueue, CommitEnqueue, AbortEnqueue, AppendFails, Over, hasActiveEnqueue
  <2>3. ASSUME NEW o \in Orders, NEW v \in Windows, Corrupt(v, o) PROVE ~hasActiveEnqueue(w)'
    BY <2>3 DEF Corrupt, Over, hasActiveEnqueue
  <2>4. CASE NodeRestart \/ Archive \/ UNCHANGED node
    BY <2>4 DEF NodeRestart, Archive, node, Over, hasActiveEnqueue
  <2> QED BY <2>1, <2>2, <2>3, <2>4, NodeSteps
<1> QED BY <1>2, <1>3 DEF OverNext, hasActiveEnqueue

\* What is written stays written, and the file of an hour that is over only shrinks.
LEMMA FilesStable ==
  ASSUME TypeOK, [Next]_vars
  PROVE  /\ written \subseteq written'
         /\ \A w \in Windows : Over(w) => content'[w] \subseteq content[w] /\ (w \in files' => w \in files)
<1>1. ASSUME NEW o \in Orders, BeginEnqueue(o) \/ AbortEnqueue(o)
      PROVE  UNCHANGED <<written, files, content>>
  BY <1>1 DEF BeginEnqueue, AbortEnqueue
<1>2. ASSUME NEW o \in Orders, CommitEnqueue(o) \/ AppendFails(o)
      PROVE  /\ written \subseteq written' /\ files' = files \cup {window(o)}
             /\ ~Over(window(o))
             /\ \A w \in Windows : w # window(o) => content'[w] = content[w]
  BY <1>2 DEF CommitEnqueue, AppendFails, Over, hasActiveEnqueue, TypeOK
<1>3. ASSUME NEW o \in Orders, NEW v \in Windows, Corrupt(v, o)
      PROVE  /\ UNCHANGED <<written, files>>
             /\ \A w \in Windows : content'[w] \subseteq content[w]
  BY <1>3 DEF Corrupt, TypeOK
<1>4. CASE NodeRestart \/ UNCHANGED node
  BY <1>4 DEF NodeRestart, node
<1>5. CASE Archive
  BY <1>5, SenderShape DEF Archive, TypeOK
<1> QED BY <1>1, <1>2, <1>3, <1>4, <1>5, NodeSteps DEF Enqueue

\* Every step keeps NodeInv.
LEMMA NextNodeInv ==
  ASSUME TypeOK, NodeInv, [Next]_vars
  PROVE  NodeInv'
<1>1. ASSUME NEW o \in Orders, BeginEnqueue(o) PROVE NodeInv'
  BY <1>1 DEF BeginEnqueue, NodeInv, TypeOK
<1>2. ASSUME NEW o \in Orders, CommitEnqueue(o) PROVE NodeInv'
  BY <1>2, WindowBound DEF CommitEnqueue, NodeInv, TypeOK
<1>3. ASSUME NEW o \in Orders, AbortEnqueue(o) \/ AppendFails(o) PROVE NodeInv'
  BY <1>3 DEF AbortEnqueue, AppendFails, NodeInv
<1>4. ASSUME NEW o \in Orders, NEW w \in Windows, Corrupt(w, o) PROVE NodeInv'
  BY <1>4 DEF Corrupt, NodeInv, TypeOK
<1>5. CASE NodeRestart \/ UNCHANGED node
  BY <1>5 DEF NodeRestart, node, NodeInv
<1>6. CASE Archive
  BY <1>6, SenderShape DEF Archive, NodeInv, TypeOK
<1> QED BY <1>1, <1>2, <1>3, <1>4, <1>5, <1>6, NodeSteps DEF Enqueue

\* Every step keeps SenderInv.
LEMMA NextSenderInv ==
  ASSUME TypeOK, NodeInv, SenderInv, [Next]_vars
  PROVE  SenderInv'
<1> DEFINE Same == /\ sender'.started = sender.started
                   /\ sender'.phase \in {"read", "settle", "wait", "archive"} =>
                        /\ sender.phase \in {"read", "settle", "wait", "archive"}
                        /\ sender'.window = sender.window
                   /\ sender'.phase \in {"settle", "wait", "archive"} =>
                        /\ sender.phase \in {"settle", "wait", "archive"}
                        /\ sender'.orders = sender.orders
<1>0. now \in Nat /\ now' \in Nat /\ now <= now' /\ Hour \in Nat /\ Grace \in Nat
  BY ClockSteps, OrdersAssumption DEF TypeOK
<1>1. ASSUME sender.phase # "idle", Same PROVE SenderInv'
  <2>1. sender'.started <= now'
    BY <1>0, <1>1, SenderShape DEF SenderInv, TypeOK
  <2>2. sender'.phase \in {"read", "settle", "wait", "archive"} => OverNext(sender'.window)
    BY <1>1, SenderShape, OverStable DEF SenderInv
  <2>3. sender'.phase \in {"settle", "wait", "archive"} =>
          /\ content'[sender'.window] \subseteq sender'.orders
          /\ \A o \in sender'.orders : o \in written' /\ window(o) = sender'.window
    BY <1>1, SenderShape, FilesStable DEF SenderInv
  <2> QED BY <2>1, <2>2, <2>3 DEF SenderInv, OverNext, Over, hasActiveEnqueue
<1>2. ASSUME sender'.phase = "idle" PROVE SenderInv'
  BY <1>2 DEF SenderInv
<1>3. CASE SendOrders
  BY <1>0, <1>3 DEF SendOrders, SenderInv
<1>13. ASSUME NEW w \in Windows, sender.phase \in {"list", "read"}, Unsent(w, sender.started),
              sender' = Reading(w)
       PROVE  SenderInv'
  <2>1. Over(w)
    BY <1>0, <1>13, SenderShape, WindowsNat DEF Unsent, Over, SenderInv, TypeOK
  <2>2. sender'.phase = "read" /\ sender'.window = w /\ sender'.started <= now'
    BY <1>0, <1>13, SenderShape DEF Reading, SenderInv, TypeOK
  <2> QED BY <2>1, <2>2, OverStable DEF SenderInv, OverNext, Over, hasActiveEnqueue
<1>14. CASE ReadFails
  <2>1. CASE sender' = Idle
    BY <1>2, <2>1 DEF Idle
  <2>2. CASE sender' # Idle
    <3>1. PICK w \in Windows : Unsent(w, sender.started) /\ sender' = Reading(w)
      BY <1>14, <2>2 DEF ReadFails
    <3>2. sender.phase = "read"
      BY <1>14 DEF ReadFails
    <3> QED BY <1>13, <3>1, <3>2
  <2> QED BY <2>1, <2>2
<1>4. ASSUME NEW w \in Windows, ListUnsent(w) PROVE SenderInv'
  <2>1. sender.phase = "list" /\ Unsent(w, sender.started) /\ sender' = Reading(w)
    BY <1>4 DEF ListUnsent
  <2> QED BY <1>13, <2>1
<1>5. CASE ReadUnsent
  <2>1. /\ sender'.phase = "settle" /\ sender'.started <= now'
        /\ sender'.window = sender.window /\ sender.window \in Windows
        /\ sender'.orders = content[sender.window] /\ Over(sender.window)
        /\ UNCHANGED <<content, written>>
    BY <1>0, <1>5, SenderShape DEF ReadUnsent, SenderInv, TypeOK, node
  <2> QED BY <2>1, OverStable DEF SenderInv, NodeInv, OverNext, Over, hasActiveEnqueue
<1>6. ASSUME NEW r \in Requests, settleWindow(r) PROVE SenderInv'
  BY <1>1, <1>6 DEF settleWindow
<1>7. CASE SkipSettlement \/ Archive \/ ArchiveFails
  BY <1>1, <1>7 DEF SkipSettlement, ToArchive, Archive, ArchiveFails
<1>8. ASSUME NEW r \in Requests, SendAndClose(r), Waiting(r) PROVE SenderInv'
  BY <1>1, <1>8 DEF SendAndClose, Waiting, ToArchive
<1>9. CASE UNCHANGED sender
  <2>1. CASE sender.phase = "idle"
    BY <1>2, <1>9, <2>1
  <2>2. CASE sender.phase # "idle"
    BY <1>1, <1>9, <2>2
  <2> QED BY <2>1, <2>2
<1>10. CASE NodeRestart \/ SettleFails \/ ListNone
  BY <1>2, <1>10 DEF NodeRestart, SettleFails, ListNone, Idle
<1>11. CASE SatelliteRestart
  BY <1>2, <1>9, <1>11 DEF SatelliteRestart, Idle
<1>12. ASSUME NEW r \in Requests, SendAndClose(r) \/ HandlerFails(r) PROVE SenderInv'
  BY <1>2, <1>8, <1>9, <1>12 DEF SendAndClose, HandlerFails, Idle
<1> QED BY <1>3, <1>4, <1>5, <1>6, <1>7, <1>9, <1>10, <1>11, <1>12, <1>14, SenderSteps DEF Send

\* Every step keeps ArchiveInv: only the sender archives, and only what is over.
LEMMA NextArchiveInv ==
  ASSUME TypeOK, SenderInv, ArchiveInv, [Next]_vars
  PROVE  ArchiveInv'
<1>1. ASSUME NEW a \in archive PROVE a.window \notin files' /\ OverNext(a.window)
  <2>1. a.window \in Windows /\ Over(a.window) /\ a.window \notin files
    BY DEF TypeOK, ArchiveInv
  <2> QED BY <2>1, OverStable, FilesStable
<1>2. CASE Archive
  <2>1. sender.window \in Windows /\ Over(sender.window) /\ sender.window \notin files'
    BY <1>2, SenderShape DEF Archive, SenderInv
  <2>2. OverNext(sender.window)
    BY <2>1, OverStable
  <2>3. \A a \in archive' : a \in archive \/ a.window = sender.window
    BY <1>2 DEF Archive
  <2> QED BY <1>1, <2>1, <2>2, <2>3 DEF ArchiveInv, OverNext, Over, hasActiveEnqueue
<1>3. ASSUME ~Archive PROVE archive' = archive
  BY <1>3, NodeSteps DEF BeginEnqueue, Enqueue, CommitEnqueue, AbortEnqueue, AppendFails,
                         Corrupt, NodeRestart, node
<1> QED BY <1>1, <1>2, <1>3 DEF ArchiveInv, OverNext, Over, hasActiveEnqueue

-----------------------------------------------------------------------------
(***************************************************************************)
(* The satellite pays.                                                     *)
(***************************************************************************)

\* Without a conflict none of the orders, and no other of the same action, is paid.
LEMMA Unpaid ==
  ASSUME PaidInv, NEW w \in Windows, NEW orders \in SUBSET Orders, ~Conflict(w, orders)
  PROVE  \A o \in orders, p \in Orders : window(p) = w /\ action[p] = action[o] => rollup[p] = 0
  BY DEF PaidInv, Conflict, ActionsOf, rows

\* CreateRows pays the orders of its handler, which were not paid before.
LEMMA CreatePays ==
  ASSUME TypeOK, PaidInv, HandlerInv, NEW r \in Requests, CreateRows(r),
         ~Conflict(handler[r].window, handler[r].orders)
  PROVE  /\ handler[r].orders \in SUBSET Orders
         /\ \A o \in handler[r].orders : rollup[o] = 0
         /\ rollup' = [o \in Orders |-> IF o \in handler[r].orders THEN 1 ELSE rollup[o]]
         /\ handler' = [handler EXCEPT ![r] =
              [phase |-> "bill", window |-> handler[r].window, orders |-> handler[r].orders,
               todo |-> ActionsOf(handler[r].orders) \cap UserActions]]
<1> DEFINE orders == handler[r].orders
<1>1. handler[r].phase = "create" /\ handler[r].window \in Windows /\ orders \in SUBSET Orders
  BY HandlerShape DEF CreateRows, Open
<1>2. \A o \in orders : window(o) = handler[r].window
  BY <1>1 DEF HandlerInv, Open
<1>3. \A o \in orders : rollup[o] = 0
  BY <1>1, <1>2, Unpaid
<1>4. rollup' = Sum(rollup, Once(orders))
  BY DEF CreateRows
<1>5. rollup' = [o \in Orders |-> IF o \in orders THEN 1 ELSE rollup[o]]
  BY <1>3, <1>4 DEF Sum, Once, PaidInv
<1> QED BY <1>1, <1>3, <1>5 DEF CreateRows

\* The steps that pay.
LEMMA PaySteps ==
  ASSUME TypeOK, PaidInv, HandlerInv, [Next]_vars
  PROVE  \/ UNCHANGED rollup
         \/ \E r \in Requests : CreateRows(r) /\ ~Conflict(handler[r].window, handler[r].orders)
<1>1. ASSUME NEW r \in Requests, CreateRows(r), Conflict(handler[r].window, handler[r].orders)
      PROVE  UNCHANGED rollup
  BY <1>1 DEF CreateRows
<1>2. ASSUME NEW r \in Requests, NEW a \in UserActions, Bill(r, a) PROVE UNCHANGED rollup
  BY <1>2 DEF Bill
<1>3. CASE Flush \/ UpdateBandwidthBatch \/ FlushFails \/ SatelliteRestart
  BY <1>3 DEF Flush, UpdateBandwidthBatch, FlushFails, SatelliteRestart
<1> QED BY <1>1, <1>2, <1>3, CountSteps

\* What is paid stays paid, and rows are only added.
LEMMA PaidStable ==
  ASSUME TypeOK, PaidInv, HandlerInv, [Next]_vars
  PROVE  \A o \in Orders : rollup[o] = 1 => rollup'[o] = 1
  BY PaySteps, CreatePays DEF PaidInv

\* Every step keeps PaidInv.
LEMMA NextPaidInv ==
  ASSUME TypeOK, PaidInv, HandlerInv, [Next]_vars
  PROVE  PaidInv'
<1>1. rollup' \in [Orders -> {0, 1}]
  BY PaySteps, CreatePays DEF PaidInv
<1>2. ASSUME NEW o \in Orders, rollup'[o] = 1 PROVE o \in written /\ Over(window(o))
  <2>1. CASE rollup[o] = 1
    BY <2>1 DEF PaidInv
  <2>2. CASE rollup[o] # 1
    <3>1. PICK r \in Requests : CreateRows(r) /\ ~Conflict(handler[r].window, handler[r].orders)
      BY <1>2, <2>2, PaySteps
    <3>2. o \in handler[r].orders /\ handler[r].phase = "create"
      BY <1>2, <2>2, <3>1, CreatePays DEF PaidInv, CreateRows
    <3> QED BY <3>2 DEF HandlerInv, Open
  <2> QED BY <2>1, <2>2
<1>3. ASSUME NEW o \in Orders, rollup'[o] = 1 PROVE o \in written' /\ OverNext(window(o))
  BY <1>2, <1>3, FilesStable, OverStable, WindowBound
<1> QED BY <1>1, <1>3 DEF PaidInv, OverNext, Over, hasActiveEnqueue

\* What HandlerInv says of a handler h, in the next state.
HandlerNext(h) ==
  /\ h.phase \in Open \cup {"bill"} =>
       /\ OverNext(h.window)
       /\ \A o \in h.orders : o \in written' /\ window(o) = h.window
  /\ h.phase = "receive" => content'[h.window] \subseteq h.orders
  /\ h.phase \in {"read", "create"} =>
       /\ h.orders # {}
       /\ \A o \in content'[h.window] : o \in h.orders \/ expires[o] < now'
  /\ h.phase = "bill" => h.orders # {} /\ \A o \in h.orders : rollup'[o] = 1

\* Every step keeps HandlerInv.
LEMMA NextHandlerInv ==
  ASSUME TypeOK, NodeInv, SenderInv, PaidInv, HandlerInv, [Next]_vars
  PROVE  HandlerInv'
<1>0. now \in Nat /\ now' \in Nat /\ now <= now' /\ expires \in [Orders -> Nat]
  BY ClockSteps, OrdersAssumption DEF TypeOK
<1>1. ASSUME NEW r \in Requests PROVE HandlerNext(handler[r])
  <2>1. CASE handler[r].phase \in Open \cup {"bill"}
    <3>1. handler[r].window \in Windows /\ handler[r].orders \in SUBSET Orders /\ Over(handler[r].window)
          /\ content[handler[r].window] \subseteq Orders
      BY <2>1, HandlerShape DEF HandlerInv, TypeOK
    <3>2. OverNext(handler[r].window) /\ written \subseteq written'
          /\ content'[handler[r].window] \subseteq content[handler[r].window]
      BY <3>1, OverStable, FilesStable
    <3>3. \A o \in content[handler[r].window] : expires[o] < now => expires[o] < now'
      BY <1>0, <3>1
    <3>4. \A o \in handler[r].orders : rollup[o] = 1 => rollup'[o] = 1
      BY <3>1, PaidStable
    <3> QED BY <2>1, <3>1, <3>2, <3>3, <3>4 DEF HandlerNext, HandlerInv, Open
  <2>2. CASE handler[r].phase \notin Open \cup {"bill"}
    BY <2>2 DEF HandlerNext, Open
  <2> QED BY <2>1, <2>2
<1>2. \A h : h.phase \in {"free", "reply"} => HandlerNext(h)
  BY DEF HandlerNext, Open
<1>3. ASSUME NEW r \in Requests, NEW h, HandlerNext(h), handler' = [handler EXCEPT ![r] = h]
      PROVE  HandlerInv'
  <2>1. \A s \in Requests : HandlerNext(handler'[s])
    BY <1>1, <1>3, HandlerShape
  <2> QED BY <2>1 DEF HandlerInv, HandlerNext, OverNext, Over, hasActiveEnqueue
<1>4. ASSUME NEW r \in Requests, settleWindow(r) PROVE HandlerInv'
  <2> DEFINE h == [phase |-> "receive", window |-> sender.window, orders |-> sender.orders]
  <2>1. sender.phase = "settle" /\ sender.window \in Windows
    BY <1>4, SenderShape DEF settleWindow
  <2>2. OverNext(sender.window)
    BY <2>1, OverStable DEF SenderInv
  <2>3. HandlerNext(h)
    BY <1>4, <2>1, <2>2 DEF settleWindow, HandlerNext, SenderInv, Open, node
  <2> QED BY <1>3, <1>4, <2>3 DEF settleWindow
<1>5. ASSUME NEW r \in Requests, ReceiveOrders(r) PROVE HandlerInv'
  <2> DEFINE valid == {o \in handler[r].orders : expires[o] >= now}
             h == [handler[r] EXCEPT !.phase = "read", !.orders = valid]
  <2>1. /\ handler[r] = [phase |-> "receive", window |-> handler[r].window, orders |-> handler[r].orders]
        /\ handler[r].orders \subseteq Orders
    BY <1>5, HandlerShape DEF ReceiveOrders, Open
  <2>2. \A o \in Orders : expires[o] >= now \/ expires[o] < now'
    BY <1>0
  <2>3. h.phase = "read" /\ h.window = handler[r].window /\ h.orders = valid
    <3> HIDE DEF valid
    <3> QED BY <2>1
  <2>4. valid # {} => HandlerNext(h)
    <3> HIDE DEF h
    <3> QED BY <1>1, <1>5, <2>1, <2>2, <2>3 DEF ReceiveOrders, HandlerNext, Open
  <2>5. handler' = [handler EXCEPT ![r] = IF valid = {} THEN Reply("rejected") ELSE h]
    BY <1>5, HandlerShape DEF ReceiveOrders
  <2>6. CASE valid = {}
    <3>1. handler' = [handler EXCEPT ![r] = Reply("rejected")]
      BY <2>5, <2>6
    <3>2. HandlerNext(Reply("rejected"))
      BY <1>2 DEF Reply
    <3> QED BY <1>3, <3>1, <3>2
  <2>7. CASE valid # {}
    <3>1. handler' = [handler EXCEPT ![r] = h]
      BY <2>5, <2>7
    <3> QED BY <1>3, <2>4, <2>7, <3>1
  <2> QED BY <2>6, <2>7
<1>6. ASSUME NEW r \in Requests, ReadRows(r) PROVE HandlerInv'
  <2> DEFINE h == [phase |-> "create", window |-> handler[r].window, orders |-> handler[r].orders]
  <2>1. handler[r] = [phase |-> "read", window |-> handler[r].window, orders |-> handler[r].orders]
    BY <1>6, HandlerShape DEF ReadRows, Open
  <2>2. HandlerNext(h) /\ [handler[r] EXCEPT !.phase = "create"] = h
    BY <1>1, <2>1 DEF HandlerNext, Open
  <2>3. \/ handler' = [handler EXCEPT ![r] = h]
        \/ \E status \in Statuses : handler' = [handler EXCEPT ![r] = Reply(status)]
    BY <1>6, <2>2, HandlerShape DEF ReadRows, Statuses
  <2> QED BY <1>2, <1>3, <2>2, <2>3 DEF Reply
<1>7. ASSUME NEW r \in Requests, CreateRows(r) PROVE HandlerInv'
  <2>1. handler[r] = [phase |-> "create", window |-> handler[r].window, orders |-> handler[r].orders]
    BY <1>7, HandlerShape DEF CreateRows, Open
  <2>2. CASE Conflict(handler[r].window, handler[r].orders)
    <3> DEFINE h == [phase |-> "read", window |-> handler[r].window, orders |-> handler[r].orders]
    <3>1. HandlerNext(h) /\ [handler[r] EXCEPT !.phase = "read"] = h
      BY <1>1, <2>1 DEF HandlerNext, Open
    <3>2. handler' = [handler EXCEPT ![r] = h]
      BY <1>7, <2>2, <3>1, HandlerShape DEF CreateRows
    <3> QED BY <1>3, <3>1, <3>2
  <2>3. CASE ~Conflict(handler[r].window, handler[r].orders)
    <3> DEFINE h == [phase |-> "bill", window |-> handler[r].window, orders |-> handler[r].orders,
                     todo |-> ActionsOf(handler[r].orders) \cap UserActions]
    <3>1. HandlerNext(h)
      BY <1>1, <1>7, <2>1, <2>3, CreatePays DEF HandlerNext, Open
    <3> QED BY <1>3, <1>7, <2>3, <3>1, CreatePays
  <2> QED BY <2>2, <2>3
<1>8. ASSUME NEW r \in Requests, NEW a \in UserActions, Bill(r, a) PROVE HandlerInv'
  <2> DEFINE h == [handler[r] EXCEPT !.todo = @ \ {a}]
  <2>1. h.phase = "bill" /\ h.window = handler[r].window /\ h.orders = handler[r].orders
    BY <1>8, HandlerShape DEF Bill
  <2>2. handler' = [handler EXCEPT ![r] = h]
    BY <1>8, HandlerShape DEF Bill
  <2>3. HandlerNext(h)
    BY <1>1, <1>8, <2>1 DEF HandlerNext, Open, Bill
  <2> QED BY <1>3, <2>2, <2>3
<1>9. ASSUME NEW r \in Requests, BillDone(r) \/ SendAndClose(r) \/ HandlerFails(r) PROVE HandlerInv'
  <2>1. HandlerNext(Free) /\ HandlerNext(Reply("accepted"))
    BY <1>2 DEF Free, Reply
  <2>2. \/ handler' = [handler EXCEPT ![r] = Free]
        \/ handler' = [handler EXCEPT ![r] = Reply("accepted")]
    BY <1>9 DEF BillDone, SendAndClose, HandlerFails
  <2> QED BY <1>3, <2>1, <2>2
<1>10. CASE SatelliteRestart
  BY <1>10 DEF SatelliteRestart, HandlerInv, Free, Open
<1>11. CASE UNCHANGED handler
  <2>1. \A s \in Requests : HandlerNext(handler'[s])
    BY <1>1, <1>11
  <2> QED BY <2>1 DEF HandlerInv, HandlerNext, OverNext, Over, hasActiveEnqueue
<1> QED BY <1>4, <1>5, <1>6, <1>7, <1>8, <1>9, <1>10, <1>11, HandlerSteps DEF Handle

-----------------------------------------------------------------------------
(***************************************************************************)
(* The satellite bills.                                                    *)
(***************************************************************************)

\* ToBill, the orders that are on their way to the bucket or there, and BilledInv, in the
\* next state.
ToBillNext(r, o) ==
  handler'[r].phase = "bill" /\ o \in handler'[r].orders /\ action[o] \in handler'[r].todo

Total(o) == pending[o] + flight[o] + billed[o]
TotalNext(o) == pending'[o] + flight'[o] + billed'[o]

BilledNext ==
  /\ \A o \in Orders : TotalNext(o) <= rollup'[o]
  /\ \A o \in Orders, r \in Requests : ToBillNext(r, o) => TotalNext(o) = 0
  /\ \A o \in Orders, r, s \in Requests : ToBillNext(r, o) /\ ToBillNext(s, o) => r = s

\* A batch that is flushed, written or lost adds nothing to what is billed.
LEMMA FlushAddsNothing ==
  ASSUME TypeOK, Flush \/ UpdateBandwidthBatch \/ FlushFails \/ SatelliteRestart
  PROVE  \A o \in Orders : TotalNext(o) \in Nat /\ TotalNext(o) <= Total(o)
<1>1. /\ pending \in [Orders -> Nat] /\ flight \in [Orders -> Nat] /\ billed \in [Orders -> Nat]
      /\ None \in [Orders -> Nat] /\ \A o \in Orders : None[o] = 0
  BY DEF TypeOK, None
<1>2. CASE Flush
  BY <1>1, <1>2 DEF Flush, Total, TotalNext
<1>3. CASE UpdateBandwidthBatch
  BY <1>1, <1>3 DEF UpdateBandwidthBatch, Sum, Total, TotalNext
<1>4. CASE FlushFails
  BY <1>1, <1>4 DEF FlushFails, Total, TotalNext
<1>5. CASE SatelliteRestart
  BY <1>1, <1>5 DEF SatelliteRestart, Total, TotalNext
<1> QED BY <1>2, <1>3, <1>4, <1>5

\* Bill adds the orders of one action of one handler, or loses them.
LEMMA BillAdds ==
  ASSUME TypeOK, NEW r \in Requests, NEW a \in UserActions, Bill(r, a)
  PROVE  /\ \A o \in Orders : TotalNext(o) = Total(o)
                              \/ (ToBill(r, o) /\ action[o] = a /\ TotalNext(o) = Total(o) + 1)
         /\ \A o \in Orders : ToBill(r, o) /\ action[o] = a => ~ToBillNext(r, o)
         /\ \A o \in Orders, s \in Requests : ToBillNext(s, o) => ToBill(s, o)
<1> DEFINE new == Once({o \in handler[r].orders : action[o] = a})
           lost == <<handler[r].window, a>> \notin Keys(pending) /\ Cardinality(Keys(pending)) >= BatchSize
           next == IF lost THEN pending ELSE Sum(pending, new)
<1>1. /\ pending \in [Orders -> Nat] /\ flight \in [Orders -> Nat] /\ billed \in [Orders -> Nat]
      /\ \A o \in Orders : None[o] = 0
  BY DEF TypeOK, None
<1>2. \A o \in Orders : next[o] = pending[o]
                        \/ (o \in handler[r].orders /\ action[o] = a /\ next[o] = pending[o] + 1)
  <2>1. \A o \in Orders : new[o] = 0 \/ (o \in handler[r].orders /\ action[o] = a /\ new[o] = 1)
    BY DEF Once
  <2> HIDE DEF new, lost
  <2>2. \A o \in Orders : Sum(pending, new)[o] = pending[o] + new[o]
    BY DEF Sum
  <2> QED BY <1>1, <2>1, <2>2
<1>3. \/ flight = None /\ flight' = next /\ pending' = None
      \/ pending' = next /\ flight' = flight
  BY DEF Bill
<1>4. billed' = billed
  BY DEF Bill
<1>5. ASSUME NEW o \in Orders
      PROVE  TotalNext(o) = Total(o) \/ (o \in handler[r].orders /\ action[o] = a /\ TotalNext(o) = Total(o) + 1)
  <2> HIDE DEF next
  <2>1. CASE flight = None /\ flight' = next /\ pending' = None
    BY <1>1, <1>2, <1>4, <2>1 DEF Total, TotalNext
  <2>2. CASE pending' = next /\ flight' = flight
    BY <1>1, <1>2, <1>4, <2>2 DEF Total, TotalNext
  <2> QED BY <1>3, <2>1, <2>2
<1>6. /\ handler[r].phase = "bill" /\ a \in handler[r].todo
      /\ handler' = [handler EXCEPT ![r] = [handler[r] EXCEPT !.todo = handler[r].todo \ {a}]]
  BY HandlerShape DEF Bill
<1>7. /\ handler'[r].phase = "bill" /\ handler'[r].orders = handler[r].orders
      /\ handler'[r].todo = handler[r].todo \ {a}
      /\ \A s \in Requests : s # r => handler'[s] = handler[s]
  <2> DEFINE h == [handler[r] EXCEPT !.todo = handler[r].todo \ {a}]
  <2>1. h.phase = "bill" /\ h.orders = handler[r].orders /\ h.todo = handler[r].todo \ {a}
    BY <1>6, HandlerShape
  <2>2. handler'[r] = h /\ \A s \in Requests : s # r => handler'[s] = handler[s]
    BY <1>6, HandlerShape
  <2> QED BY <2>1, <2>2
<1> QED BY <1>5, <1>6, <1>7 DEF ToBill, ToBillNext

\* Only CreateRows gives a handler something to bill.
LEMMA BillSteps ==
  ASSUME TypeOK, [Next]_vars,
         ~ \E r \in Requests : CreateRows(r) \/ \E a \in UserActions : Bill(r, a)
  PROVE  \A o \in Orders, r \in Requests : ToBillNext(r, o) => ToBill(r, o)
<1>1. ASSUME NEW r \in Requests, NEW h, h.phase # "bill", handler' = [handler EXCEPT ![r] = h]
      PROVE  \A o \in Orders, s \in Requests : ToBillNext(s, o) => ToBill(s, o)
  BY <1>1, HandlerShape DEF ToBillNext, ToBill
<1>2. ASSUME NEW r \in Requests, settleWindow(r)
      PROVE  \A o \in Orders, s \in Requests : ToBillNext(s, o) => ToBill(s, o)
  BY <1>1, <1>2 DEF settleWindow
<1>3. ASSUME NEW r \in Requests, ReceiveOrders(r)
      PROVE  \A o \in Orders, s \in Requests : ToBillNext(s, o) => ToBill(s, o)
  <2> DEFINE valid == {o \in handler[r].orders : expires[o] >= now}
             h == IF valid = {} THEN Reply("rejected") ELSE [handler[r] EXCEPT !.phase = "read", !.orders = valid]
  <2>1. handler' = [handler EXCEPT ![r] = h]
    BY <1>3, HandlerShape DEF ReceiveOrders
  <2>2. h.phase # "bill"
    <3>1. handler[r] = [phase |-> "receive", window |-> handler[r].window, orders |-> handler[r].orders]
      BY <1>3, HandlerShape DEF ReceiveOrders, Open
    <3> HIDE DEF valid
    <3> QED BY <3>1 DEF Reply
  <2> QED BY <1>1, <2>1, <2>2
<1>4. ASSUME NEW r \in Requests, ReadRows(r)
      PROVE  \A o \in Orders, s \in Requests : ToBillNext(s, o) => ToBill(s, o)
  <2>1. [handler[r] EXCEPT !.phase = "create"].phase = "create"
    BY <1>4, HandlerShape DEF ReadRows, Open
  <2>2. \A status : Reply(status).phase # "bill"
    BY DEF Reply
  <2>3. \E h : h.phase # "bill" /\ handler' = [handler EXCEPT ![r] = h]
    BY <1>4, <2>1, <2>2, HandlerShape DEF ReadRows
  <2> QED BY <1>1, <2>3
<1>5. ASSUME NEW r \in Requests, BillDone(r) \/ SendAndClose(r) \/ HandlerFails(r)
      PROVE  \A o \in Orders, s \in Requests : ToBillNext(s, o) => ToBill(s, o)
  <2>1. Free.phase # "bill" /\ Reply("accepted").phase # "bill"
    BY DEF Free, Reply
  <2>2. \/ handler' = [handler EXCEPT ![r] = Free]
        \/ handler' = [handler EXCEPT ![r] = Reply("accepted")]
    BY <1>5 DEF BillDone, SendAndClose, HandlerFails
  <2> QED BY <1>1, <2>1, <2>2
<1>6. CASE SatelliteRestart \/ UNCHANGED handler
  BY <1>6 DEF SatelliteRestart, Free, ToBillNext, ToBill
<1> QED BY <1>2, <1>3, <1>4, <1>5, <1>6, HandlerSteps DEF Handle

\* Every step keeps BilledInv: what is added to the cache was still to be billed, by this
\* handler and no other.
LEMMA NextBilledInv ==
  ASSUME TypeOK, PaidInv, HandlerInv, BilledInv, [Next]_vars
  PROVE  BilledInv'
<1> SUFFICES BilledNext
  BY DEF BilledNext, BilledInv, ToBillNext, ToBill, TotalNext
<1>1. /\ \A o \in Orders : rollup[o] \in {0, 1} /\ rollup'[o] \in {0, 1} /\ rollup[o] <= rollup'[o]
      /\ \A o \in Orders : Total(o) \in Nat
  BY PaySteps, CreatePays DEF PaidInv, TypeOK, Total
<1>2. /\ \A o \in Orders : Total(o) <= rollup[o]
      /\ \A o \in Orders, r \in Requests : ToBill(r, o) => Total(o) = 0 /\ rollup[o] = 1
      /\ \A o \in Orders, r, s \in Requests : ToBill(r, o) /\ ToBill(s, o) => r = s
  BY DEF BilledInv, Total, HandlerInv, ToBill
<1>3. ASSUME NEW r \in Requests, CreateRows(r) PROVE BilledNext
  <2>1. \A o \in Orders : TotalNext(o) = Total(o)
    BY <1>3 DEF CreateRows, cache, TotalNext, Total
  <2>2. CASE Conflict(handler[r].window, handler[r].orders)
    <3>1. handler' = [handler EXCEPT ![r] = [handler[r] EXCEPT !.phase = "read"]]
      BY <1>3, <2>2, HandlerShape DEF CreateRows
    <3>2. \A o \in Orders, s \in Requests : ToBillNext(s, o) => ToBill(s, o)
      BY <1>3, <3>1, HandlerShape DEF CreateRows, Open, ToBillNext, ToBill
    <3> QED BY <1>1, <1>2, <2>1, <3>2 DEF BilledNext
  <2>3. CASE ~Conflict(handler[r].window, handler[r].orders)
    <3>1. \A o \in Orders, s \in Requests :
            ToBillNext(s, o) => ToBill(s, o) \/ (s = r /\ o \in handler[r].orders)
      <4>1. \E h : h.orders = handler[r].orders /\ handler' = [handler EXCEPT ![r] = h]
        BY <1>3, <2>3, CreatePays
      <4> QED BY <4>1, HandlerShape DEF ToBillNext, ToBill
    <3>2. \A o \in handler[r].orders : o \in Orders /\ rollup[o] = 0
      BY <1>3, <2>3, CreatePays
    <3> QED BY <1>1, <1>2, <2>1, <3>1, <3>2 DEF BilledNext
  <2> QED BY <2>2, <2>3
<1>4. ASSUME NEW r \in Requests, NEW a \in UserActions, Bill(r, a) PROVE BilledNext
  BY <1>1, <1>2, <1>4, BillAdds DEF BilledNext
<1>5. CASE ~ \E r \in Requests : CreateRows(r) \/ \E a \in UserActions : Bill(r, a)
  <2>1. \A o \in Orders : TotalNext(o) \in Nat /\ TotalNext(o) <= Total(o)
    <3>1. CASE UNCHANGED <<rollup, cache>>
      BY <1>1, <3>1 DEF cache, Total, TotalNext
    <3> QED BY <1>5, <3>1, FlushAddsNothing, CountSteps
  <2>2. \A o \in Orders, r \in Requests : ToBillNext(r, o) => ToBill(r, o)
    BY <1>5, BillSteps
  <2> QED BY <1>1, <1>2, <2>1, <2>2 DEF BilledNext
<1> QED BY <1>3, <1>4, <1>5

-----------------------------------------------------------------------------
(***************************************************************************)
(* The satellite answers.                                                  *)
(***************************************************************************)

\* Covered, rows and Answered in the next state.
CoveredNext(w) == \A o \in content'[w] : rollup'[o] = 1 \/ expires[o] < now'
PaidNext(w) == \E o \in Orders : window(o) = w /\ rollup'[o] = 1
AnsweredNext(w, status) == CoveredNext(w) /\ (status = "accepted" => PaidNext(w))

\* The rows of an hour count its paid orders.
LEMMA RowsPaid ==
  ASSUME PaidInv
  PROVE  \A w : rows(w) # {} <=> \E o \in Orders : window(o) = w /\ rollup[o] = 1
  BY DEF PaidInv, rows

\* An answer stays right: the file only shrinks, payments stay, and time goes on.
LEMMA AnswerStable ==
  ASSUME TypeOK, PaidInv, HandlerInv, [Next]_vars, NEW w \in Windows, Over(w), Covered(w)
  PROVE  /\ CoveredNext(w)
         /\ \A status : Answered(w, status) => AnsweredNext(w, status)
<1>1. content'[w] \subseteq content[w] /\ content[w] \subseteq Orders
  BY FilesStable DEF TypeOK
<1>2. \A o \in Orders : expires[o] < now => expires[o] < now'
  BY ClockSteps, OrdersAssumption DEF TypeOK
<1>3. CoveredNext(w)
  BY <1>1, <1>2, PaidStable DEF Covered, CoveredNext
<1> QED BY <1>3, RowsPaid, PaidStable DEF Answered, AnsweredNext, PaidNext

\* An hour of which any order is paid is covered: the handler that pays it has all orders
\* of the file that have not expired.
LEMMA PaidCovered ==
  ASSUME TypeOK, PaidInv, HandlerInv, SettledInv, [Next]_vars, NEW w \in Windows, PaidNext(w)
  PROVE  CoveredNext(w)
<1>1. CASE rows(w) # {}
  <2>1. Over(w) /\ Covered(w)
    BY <1>1, RowsPaid DEF PaidInv, SettledInv
  <2> QED BY <2>1, AnswerStable
<1>2. CASE rows(w) = {}
  <2>1. PICK o \in Orders : window(o) = w /\ rollup'[o] = 1
    BY DEF PaidNext
  <2>2. rollup[o] # 1
    BY <1>2, <2>1, RowsPaid
  <2>3. PICK r \in Requests : CreateRows(r) /\ ~Conflict(handler[r].window, handler[r].orders)
    BY <2>1, <2>2, PaySteps
  <2>4. o \in handler[r].orders /\ handler[r].phase = "create"
    BY <2>1, <2>2, <2>3, CreatePays DEF CreateRows
  <2>5. w = handler[r].window
    BY <2>1, <2>4 DEF HandlerInv, Open
  <2>6. \A p \in content[w] : p \in handler[r].orders \/ expires[p] < now
    BY <2>4, <2>5 DEF HandlerInv
  <2>7. \A p \in handler[r].orders : rollup'[p] = 1
    BY <2>3, CreatePays
  <2>8. content' = content /\ now' = now
    BY <2>3 DEF CreateRows, node
  <2> QED BY <2>6, <2>7, <2>8 DEF CoveredNext
<1> QED BY <1>1, <1>2

\* The handler that the sender waits for goes on with the same hour, or answers what is
\* so.
LEMMA HandlerAnswers ==
  ASSUME TypeOK, SenderInv, PaidInv, HandlerInv, SettledInv, NEW r \in Requests, Handle(r),
         sender.phase = "wait", sender.request = r, ~SendAndClose(r)
  PROVE  /\ handler'[r].phase \in Open \cup {"bill"} => handler'[r].window = sender.window
         /\ handler'[r].phase = "reply" => Answered(sender.window, handler'[r].status)
<1> DEFINE w == sender.window
           Right(h) == /\ h.phase \in Open \cup {"bill"} => h.window = sender.window
                       /\ h.phase = "reply" => Answered(sender.window, h.status)
<1>1. handler[r].phase \in Open \cup {"bill"} => handler[r].window = w
  BY DEF SettledInv
<1>2. w \in Windows /\ content[w] \subseteq Orders
  BY SenderShape DEF TypeOK
<1>3. ASSUME NEW h, handler' = [handler EXCEPT ![r] = h] PROVE handler'[r] = h
  BY <1>3, HandlerShape
<1> SUFFICES Right(handler'[r])
  OBVIOUS
<1>4. \A status : Reply(status).phase = "reply" /\ Reply(status).status = status
  BY DEF Reply
<1>5. CASE ReceiveOrders(r)
  <2> DEFINE valid == {o \in handler[r].orders : expires[o] >= now}
             h == [handler[r] EXCEPT !.phase = "read", !.orders = valid]
  <2>1. handler[r] = [phase |-> "receive", window |-> handler[r].window, orders |-> handler[r].orders]
    BY <1>5, HandlerShape DEF ReceiveOrders, Open
  <2>2. handler'[r] = IF valid = {} THEN Reply("rejected") ELSE h
    BY <1>5, HandlerShape DEF ReceiveOrders
  <2>3. h.phase = "read" /\ h.window = handler[r].window
    <3> HIDE DEF valid
    <3> QED BY <2>1
  <2>4. CASE valid = {}
    <3>1. \A o \in content[w] : expires[o] < now
      <4>1. content[w] \subseteq handler[r].orders
        BY <1>1, <2>1 DEF HandlerInv, Open
      <4> QED BY <1>2, <2>4, <4>1, OrdersAssumption DEF TypeOK
    <3>2. Answered(w, "rejected")
      BY <3>1 DEF Answered, Covered
    <3>3. handler'[r] = Reply("rejected")
      BY <2>2, <2>4
    <3> QED BY <1>4, <3>2, <3>3 DEF Open
  <2>5. CASE valid # {}
    <3>1. handler'[r] = h
      BY <2>2, <2>5
    <3> HIDE DEF h
    <3> QED BY <1>1, <2>1, <2>3, <3>1 DEF Open
  <2> QED BY <2>4, <2>5
<1>6. CASE ReadRows(r)
  <2> DEFINE h == [handler[r] EXCEPT !.phase = "create"]
  <2>1. handler[r] = [phase |-> "read", window |-> handler[r].window, orders |-> handler[r].orders]
    BY <1>6, HandlerShape DEF ReadRows, Open
  <2>2. h.phase = "create" /\ h.window = w
    BY <1>1, <2>1 DEF Open
  <2>3. \/ handler'[r] = h
        \/ rows(w) # {} /\ \E status \in Statuses : handler'[r] = Reply(status)
    BY <1>1, <1>6, <2>1, HandlerShape DEF ReadRows, Statuses, Open
  <2>4. CASE handler'[r] = h
    <3> HIDE DEF h
    <3> QED BY <2>2, <2>4
  <2>5. CASE rows(w) # {} /\ \E status \in Statuses : handler'[r] = Reply(status)
    <3>1. \A status : Answered(w, status)
      BY <1>2, <2>5 DEF SettledInv, Answered
    <3> QED BY <1>4, <2>5, <3>1 DEF Open
  <2> QED BY <2>3, <2>4, <2>5
<1>7. CASE CreateRows(r)
  <2>1. handler[r] = [phase |-> "create", window |-> handler[r].window, orders |-> handler[r].orders]
    BY <1>7, HandlerShape DEF CreateRows, Open
  <2>2. handler'[r] = [handler[r] EXCEPT !.phase = "read"]
        \/ handler'[r] = [phase |-> "bill", window |-> handler[r].window, orders |-> handler[r].orders,
                          todo |-> ActionsOf(handler[r].orders) \cap UserActions]
    BY <1>7, HandlerShape DEF CreateRows
  <2>3. handler'[r].window = handler[r].window /\ handler'[r].phase # "reply"
    BY <2>1, <2>2
  <2> QED BY <1>1, <2>1, <2>3 DEF Open
<1>8. ASSUME NEW a \in UserActions, Bill(r, a) PROVE Right(handler'[r])
  <2> DEFINE h == [handler[r] EXCEPT !.todo = handler[r].todo \ {a}]
  <2>1. h.phase = "bill" /\ h.window = handler[r].window /\ handler[r].phase = "bill"
    BY <1>8, HandlerShape DEF Bill
  <2>2. handler'[r] = h
    BY <1>8, HandlerShape DEF Bill
  <2> HIDE DEF h
  <2> QED BY <1>1, <2>1, <2>2
<1>9. CASE BillDone(r)
  <2>1. handler'[r] = Reply("accepted") /\ handler[r].phase = "bill"
    BY <1>9, HandlerShape DEF BillDone
  <2>2. rows(w) # {}
    <3>1. PICK o \in handler[r].orders : rollup[o] = 1 /\ window(o) = w
      BY <1>1, <2>1 DEF HandlerInv
    <3>2. o \in Orders
      BY <2>1, HandlerShape
    <3> QED BY <3>1, <3>2, RowsPaid
  <2> QED BY <1>2, <1>4, <2>1, <2>2 DEF SettledInv, Answered, Open
<1> QED BY <1>5, <1>6, <1>7, <1>8, <1>9 DEF Handle

\* What SettledInv says of a sender that waits, and of one that archives, in the next
\* state.
WaitNext ==
  sender'.phase = "wait" =>
    LET h == handler'[sender'.request] IN
    /\ h.phase \in Open \cup {"bill"} => h.window = sender'.window
    /\ h.phase = "reply" => AnsweredNext(sender'.window, h.status)

ArchiveNext ==
  sender'.phase = "archive" /\ trusted' => AnsweredNext(sender'.window, sender'.status)

\* The handler that an unchanged sender waits for keeps to its hour.
LEMMA NextWait ==
  ASSUME TypeOK, SenderInv, PaidInv, HandlerInv, SettledInv, [Next]_vars, UNCHANGED sender
  PROVE  WaitNext
<1> SUFFICES ASSUME sender.phase = "wait" PROVE WaitNext
  BY DEF WaitNext
<1> DEFINE w == sender.window
           q == sender.request
<1>1. q \in Requests /\ w \in Windows /\ Over(w)
  BY SenderShape DEF SenderInv
<1>2. ASSUME /\ handler'[q].phase \in Open \cup {"bill"} => handler'[q].window = w
             /\ handler'[q].phase = "reply" => Answered(w, handler'[q].status)
      PROVE  WaitNext
  <2>1. \A status : Answered(w, status) => AnsweredNext(w, status)
    BY <1>1, AnswerStable DEF Answered
  <2> QED BY <1>2, <2>1 DEF WaitNext
<1>3. CASE handler'[q] = handler[q]
  BY <1>2, <1>3 DEF SettledInv
<1>4. CASE handler'[q] = Free
  BY <1>2, <1>4 DEF Free, Open
<1>5. ASSUME NEW r \in Requests, Handle(r) \/ HandlerFails(r), r # q PROVE handler'[q] = handler[q]
  BY <1>1, <1>5, HandlerShape
     DEF Handle, ReceiveOrders, ReadRows, CreateRows, Bill, BillDone, SendAndClose, HandlerFails
<1>6. CASE Handle(q)
  <2>1. CASE SendAndClose(q)
    BY <1>1, <1>4, <2>1, HandlerShape DEF SendAndClose
  <2>2. CASE ~SendAndClose(q)
    BY <1>1, <1>2, <1>6, <2>2, HandlerAnswers
  <2> QED BY <2>1, <2>2
<1>7. CASE HandlerFails(q)
  BY <1>1, <1>4, <1>7, HandlerShape DEF HandlerFails
<1>8. CASE SatelliteRestart
  BY <1>1, <1>4, <1>8 DEF SatelliteRestart
<1>9. ~ \E r \in Requests : settleWindow(r)
  BY DEF settleWindow
<1> QED BY <1>3, <1>5, <1>6, <1>7, <1>8, <1>9, HandlerSteps

\* What is to be archived was answered, or its satellite is not trusted any more.
LEMMA ArchiveSteps ==
  ASSUME [Next]_vars, sender'.phase = "archive"
  PROVE  UNCHANGED sender \/ SkipSettlement \/ \E r \in Requests : SendAndClose(r) /\ Waiting(r)
<1>1. ASSUME NEW r \in Requests, SendAndClose(r) \/ HandlerFails(r)
      PROVE  UNCHANGED sender \/ (SendAndClose(r) /\ Waiting(r))
  BY <1>1 DEF SendAndClose, HandlerFails, Idle
<1>2. CASE Send
  BY <1>2 DEF Send, SendOrders, ListUnsent, ListNone, ReadUnsent, Archive, settleWindow, Idle,
                     Reading
<1>3. CASE NodeRestart \/ ReadFails \/ SettleFails \/ ArchiveFails \/ SatelliteRestart
  BY <1>3 DEF NodeRestart, ReadFails, Reading, SettleFails, ArchiveFails, SatelliteRestart, Idle
<1> QED BY <1>1, <1>2, <1>3, SenderSteps

\* An answer reaches the archive as the satellite gave it.
LEMMA NextArchive ==
  ASSUME TypeOK, SenderInv, PaidInv, HandlerInv, SettledInv, [Next]_vars
  PROVE  ArchiveNext
<1> SUFFICES ASSUME sender'.phase = "archive", trusted'
             PROVE  AnsweredNext(sender'.window, sender'.status)
  BY DEF ArchiveNext
<1>1. trusted
  BY ClockSteps
<1>2. CASE UNCHANGED sender
  <2>1. Answered(sender.window, sender.status) /\ sender.window \in Windows /\ Over(sender.window)
    BY <1>1, <1>2, SenderShape DEF SettledInv, SenderInv
  <2>2. AnsweredNext(sender.window, sender.status)
    BY <2>1, AnswerStable DEF Answered
  <2> QED BY <1>2, <2>2
<1>3. ASSUME NEW r \in Requests, SendAndClose(r), Waiting(r)
      PROVE  AnsweredNext(sender'.window, sender'.status)
  <2>1. /\ sender.window \in Windows /\ Over(sender.window)
        /\ Answered(sender.window, handler[r].status)
    BY <1>3, SenderShape DEF SendAndClose, Waiting, SettledInv, SenderInv
  <2>2. AnsweredNext(sender.window, handler[r].status)
    BY <2>1, AnswerStable DEF Answered
  <2>3. sender'.window = sender.window /\ sender'.status = handler[r].status
    BY <1>3 DEF SendAndClose, ToArchive
  <2> QED BY <2>2, <2>3
<1>4. ~SkipSettlement
  BY <1>1 DEF SkipSettlement
<1> QED BY <1>2, <1>3, <1>4, ArchiveSteps

\* Every step keeps SettledInv.
LEMMA NextSettledInv ==
  ASSUME TypeOK, SenderInv, PaidInv, HandlerInv, SettledInv, PaidInv', [Next]_vars
  PROVE  SettledInv'
<1>1. WaitNext
  <2>1. CASE UNCHANGED sender
    BY <2>1, NextWait
  <2>2. ASSUME NEW r \in Requests, settleWindow(r) PROVE WaitNext
    <3>1. sender'.request = r /\ handler'[r] = [phase |-> "receive", window |-> sender.window, orders |-> sender.orders]
          /\ sender'.window = sender.window
      BY <2>2, HandlerShape DEF settleWindow
    <3> QED BY <3>1 DEF WaitNext
  <2>3. CASE sender'.phase # "wait"
    BY <2>3 DEF WaitNext
  <2>4. CASE Send
    BY <2>2, <2>3, <2>4 DEF Send, SendOrders, ListUnsent, ListNone, ReadUnsent, SkipSettlement,
                            ToArchive, Archive, Idle, Reading
  <2>5. CASE NodeRestart \/ ReadFails \/ SettleFails \/ ArchiveFails \/ SatelliteRestart
    BY <2>1, <2>3, <2>5 DEF NodeRestart, ReadFails, Reading, SettleFails, ArchiveFails, SatelliteRestart, Idle
  <2>6. ASSUME NEW r \in Requests, SendAndClose(r) \/ HandlerFails(r) PROVE WaitNext
    BY <2>1, <2>3, <2>6 DEF SendAndClose, HandlerFails, ToArchive, Idle
  <2> QED BY <2>1, <2>4, <2>5, <2>6, SenderSteps
<1>2. ArchiveNext
  BY NextArchive
<1>3. \A w \in Windows : PaidNext(w) => CoveredNext(w)
  BY PaidCovered
<1>4. \A w : PaidNext(w) <=> rows(w)' # {}
  BY DEF PaidNext, rows, PaidInv
<1> QED BY <1>1, <1>2, <1>3, <1>4 DEF SettledInv, WaitNext, ArchiveNext, Answered, AnsweredNext,
                                      Covered, CoveredNext

\* Every step keeps OrderSettled: what is archived now was answered, what was archived
\* before stays settled.
LEMMA NextOrderSettled ==
  ASSUME TypeOK, SenderInv, ArchiveInv, PaidInv, HandlerInv, SettledInv, OrderSettled, PaidInv', [Next]_vars
  PROVE  OrderSettled'
<1> DEFINE Fine(a) == /\ \A o \in a.orders : rollup'[o] = 1 \/ expires[o] < now'
                      /\ a.status = "accepted" => PaidNext(a.window)
<1> SUFFICES ASSUME trusted', NEW a \in archive' PROVE Fine(a)
  <2>1. \A w : PaidNext(w) => rows(w)' # {}
    BY DEF PaidNext, rows
  <2> QED BY <2>1 DEF OrderSettled
<1>1. trusted
  BY ClockSteps
<1>2. CASE a \in archive
  <2>1. a.orders \subseteq Orders
    BY <1>2 DEF TypeOK
  <2>2. \A o \in Orders : /\ rollup[o] > 0 => rollup'[o] = 1
                          /\ expires[o] < now => expires[o] < now'
    BY ClockSteps, PaidStable, OrdersAssumption DEF PaidInv, TypeOK
  <2>3. \A o \in a.orders : rollup'[o] = 1 \/ expires[o] < now'
    BY <1>1, <1>2, <2>1, <2>2 DEF OrderSettled
  <2>4. a.status = "accepted" => PaidNext(a.window)
    BY <1>1, <1>2, <2>2 DEF OrderSettled, rows, PaidNext
  <2> QED BY <2>3, <2>4
<1>3. CASE a \notin archive
  <2>1. CASE Archive
    <3>1. a.window = sender.window /\ a.orders = content[sender.window] /\ a.status = sender.status
      BY <1>3, <2>1 DEF Archive
    <3>2. /\ sender.window \in Windows /\ Over(sender.window)
          /\ Answered(sender.window, sender.status)
      BY <1>1, <2>1, SenderShape DEF Archive, SettledInv, SenderInv
    <3>3. UNCHANGED <<rollup, now>>
      BY <2>1 DEF Archive, satellite
    <3>4. PaidNext(sender.window) <=> rows(sender.window) # {}
      BY <3>3, RowsPaid DEF PaidNext
    <3> QED BY <3>1, <3>2, <3>3, <3>4 DEF Answered, Covered
  <2>2. CASE ~Archive
    BY <1>3, <2>2, NodeSteps
       DEF BeginEnqueue, Enqueue, CommitEnqueue, AbortEnqueue, AppendFails, Corrupt, NodeRestart, node
  <2> QED BY <2>1, <2>2
<1> QED BY <1>2, <1>3

-----------------------------------------------------------------------------
(***************************************************************************)
(* The theorems.                                                           *)
(***************************************************************************)

\* Every step keeps the invariant.
LEMMA NextInv == Inv /\ [Next]_vars => Inv'
<1> SUFFICES ASSUME Inv, [Next]_vars PROVE Inv'
  OBVIOUS
<1> USE DEF Inv
<1>1. TypeOK' /\ NodeInv' /\ SenderInv' /\ ArchiveInv'
  BY NextTypes, NextNodeInv, NextSenderInv, NextArchiveInv
<1>2. PaidInv' /\ HandlerInv' /\ BilledInv'
  BY NextPaidInv, NextHandlerInv, NextBilledInv
<1>3. SettledInv' /\ OrderSettled'
  BY <1>2, NextSettledInv, NextOrderSettled
<1> QED BY <1>1, <1>2, <1>3

\* In every reachable state the inductive invariant holds.
THEOREM Invariance == Spec => []Inv
BY InitInv, NextInv, PTL DEF Spec

\* The stores of the node, the phases of sender and handlers and the counts of the
\* satellite have their types.
THEOREM TypeCorrect == Spec => []TypeOK
<1>1. Inv => TypeOK
  BY DEF Inv
<1> QED BY <1>1, Invariance, PTL

\* A file is sent and archived only when it is complete.
THEOREM WindowCompleteHolds == Spec => []WindowComplete
<1>1. Inv => WindowComplete
  BY DEF Inv, SenderInv, ArchiveInv, Over, WindowComplete
<1> QED BY <1>1, Invariance, PTL

\* An order in an archived file was paid or has expired, whatever answers were lost and
\* whatever was sent twice.
THEOREM OrderSettledHolds == Spec => []OrderSettled
<1>1. Inv => OrderSettled
  BY DEF Inv
<1> QED BY <1>1, Invariance, PTL

-----------------------------------------------------------------------------
(***************************************************************************)
(* The settlement keeps its promise.                                       *)
(***************************************************************************)

\* The commit of an order earns it: the hour is not over, so nothing of it is paid.
LEMMA CommitEarns ==
  ASSUME Inv, NEW o \in Orders, CommitEnqueue(o)
  PROVE  Promise!Earn(o)
<1>1. o \notin written /\ written' = written \cup {o} /\ UNCHANGED <<rollup, billed>>
  BY DEF CommitEnqueue, Inv, NodeInv, satellite, cache
<1>2. ASSUME NEW p \in Orders, window(p) = window(o) PROVE rollup[p] = 0
  BY <1>2 DEF CommitEnqueue, Inv, PaidInv, Over, hasActiveEnqueue
<1> QED BY <1>1, <1>2 DEF Promise!Earn

\* CreateRows pays orders of the hour, none of which, and no other of the same action,
\* was paid.
LEMMA CreateRowsPays ==
  ASSUME Inv, NEW r \in Requests, CreateRows(r), ~Conflict(handler[r].window, handler[r].orders)
  PROVE  \E w \in Windows, orders \in SUBSET Orders : Promise!Pay(w, orders)
<1> DEFINE w == handler[r].window
           orders == handler[r].orders
<1>1. w \in Windows /\ orders \in SUBSET Orders /\ handler[r].phase = "create"
  BY HandlerShape DEF Inv, CreateRows, Open
<1>2. \A o \in orders : o \in written /\ window(o) = w
  BY <1>1 DEF Inv, HandlerInv, Open
<1>3. \A o \in orders, p \in Orders : window(p) = w /\ action[p] = action[o] => rollup[p] = 0
  BY <1>1, Unpaid DEF Inv
<1>4. rollup' = [o \in Orders |-> IF o \in orders THEN 1 ELSE rollup[o]] /\ UNCHANGED <<written, billed>>
  BY CreatePays DEF Inv, CreateRows, node, cache
<1>5. Promise!Pay(w, orders)
  BY <1>1, <1>2, <1>3, <1>4 DEF Promise!Pay
<1> QED BY <1>1, <1>5

\* The batch bills every order in it for the first time, and each was paid.
LEMMA BatchBills ==
  ASSUME Inv, UpdateBandwidthBatch
  PROVE  \E orders \in SUBSET Orders : Promise!Bill(orders)
<1> DEFINE orders == {o \in Orders : flight[o] # 0}
<1>1. \A o \in Orders : /\ pending[o] \in Nat /\ flight[o] \in Nat /\ billed[o] \in Nat
                        /\ rollup[o] \in {0, 1} /\ pending[o] + flight[o] + billed[o] <= rollup[o]
  BY DEF Inv, TypeOK, PaidInv, BilledInv
<1>2. \A o \in orders : rollup[o] = 1 /\ billed[o] = 0 /\ flight[o] = 1
  BY <1>1
<1>3. billed' = [o \in Orders |-> IF o \in orders THEN 1 ELSE billed[o]]
  BY <1>1, <1>2 DEF UpdateBandwidthBatch, Sum
<1>4. UNCHANGED <<written, rollup>>
  BY DEF UpdateBandwidthBatch, node
<1>5. Promise!Bill(orders)
  BY <1>2, <1>3, <1>4 DEF Promise!Bill
<1> QED BY <1>5

\* Every step of the settlement earns, pays or bills as promised, or does none of it.
LEMMA Implements == Inv /\ [Next]_vars => [Promise!Next]_Promise!vars
<1> SUFFICES ASSUME Inv, [Next]_vars
             PROVE  Promise!Next \/ UNCHANGED <<written, rollup, billed>>
  BY DEF Promise!vars
<1>1. ASSUME NEW o \in Orders, CommitEnqueue(o) PROVE Promise!Next
  BY <1>1, CommitEarns DEF Promise!Next
<1>2. ASSUME NEW r \in Requests, CreateRows(r), ~Conflict(handler[r].window, handler[r].orders)
      PROVE  Promise!Next
  BY <1>2, CreateRowsPays DEF Promise!Next
<1>3. CASE UpdateBandwidthBatch
  BY <1>3, BatchBills DEF Promise!Next
<1>4. ASSUME ~ \E o \in Orders : CommitEnqueue(o) PROVE UNCHANGED written
  BY <1>4, NodeSteps DEF BeginEnqueue, Enqueue, AbortEnqueue, AppendFails, Corrupt, NodeRestart,
                         Archive, node
<1>5. UNCHANGED rollup \/ \E r \in Requests : CreateRows(r) /\ ~Conflict(handler[r].window, handler[r].orders)
  BY PaySteps DEF Inv
<1>6. ASSUME ~UpdateBandwidthBatch PROVE UNCHANGED billed
  BY <1>6, CountSteps DEF CreateRows, Bill, Flush, FlushFails, SatelliteRestart, cache
<1> QED BY <1>1, <1>2, <1>3, <1>4, <1>5, <1>6

\* The settlement of orders implements Settlement: whatever is lost, repeated or answered
\* late, an action of an hour is paid once, for orders of the hour, and an order is billed
\* at most once and only if it was paid.
THEOREM ImplementsSettlement == Spec => SettlesOnce
<1>1. Init => Promise!Init
  BY DEF Init, Promise!Init, None
<1> QED BY <1>1, Invariance, Implements, PTL DEF Spec, SettlesOnce, Promise!Spec
=============================================================================
