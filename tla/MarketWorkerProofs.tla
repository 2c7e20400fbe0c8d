-------------------------- MODULE MarketWorkerProofs --------------------------
(***************************************************************************)
(* What TLAPS proves of MarketWorker for any symbols, sizes of queue and   *)
(* batch, and number of events: the worker's tables are typed, the bar is  *)
(* the newest one when everything is stored, and a worker that ends as     *)
(* interrupted has stored what was queued before the stop.                 *)
(***************************************************************************)
EXTENDS MarketWorker, Recursion

-----------------------------------------------------------------------------
(* What a batch leaves in the tables *)

Tables == [quotes : [Symbols -> Times], bar : Bar \cup {None}]

\* StoreBatch is what its recursion says.
Folds(t, batch) ==
  \E F \in [0 .. Len(batch) -> Tables] :
    /\ StoreBatch(t, batch) = F[Len(batch)] /\ F[0] = t
    /\ \A i \in 1 .. Len(batch) : F[i] = StoreEvent(F[i - 1], batch[i])

LEMMA StoreEventFits ==
  ASSUME NEW t \in Tables, NEW e \in Event
  PROVE  /\ StoreEvent(t, e) \in Tables
         /\ e.kind = "bar" => StoreEvent(t, e).bar = BarRow(e, "stream")
         /\ e.kind # "bar" => StoreEvent(t, e).bar = t.bar
<1>1. CASE e \in Quote
  <2>1. e.kind = "quote" /\ e.symbol \in Symbols /\ e.at \in Times
    BY <1>1 DEF Quote
  <2>2. t.quotes \in [Symbols -> Times] /\ t.bar \in Bar \cup {None}
    BY DEF Tables
  <2> DEFINE q == [t.quotes EXCEPT ![e.symbol] = Newer(t.quotes[e.symbol], e.at)]
  <2>3. q \in [Symbols -> Times]
    BY <2>1, <2>2 DEF Newer
  <2>4. StoreEvent(t, e) = [t EXCEPT !.quotes = q]
    BY <2>1 DEF StoreEvent, Tables
  <2> HIDE DEF q
  <2>5. QED
    BY <2>1, <2>2, <2>3, <2>4 DEF Tables
<1>2. CASE e \in BarEvent
  <2>1. e.kind = "bar" /\ BarRow(e, "stream") \in Bar
    BY <1>2 DEF BarEvent, BarRow, Bar
  <2>2. QED
    BY <2>1 DEF StoreEvent, Tables
<1>3. QED
  BY <1>1, <1>2 DEF Event

LEMMA BatchFolds ==
  ASSUME NEW t \in Tables, NEW batch \in Seq(Event)
  PROVE  Folds(t, batch)
<1> DEFINE N == Len(batch)
           G == [i \in 1 .. N |-> [x \in Tables |-> StoreEvent(x, batch[i])]]
           P(F) == F = [i \in 0 .. N |-> IF i = 0 THEN t ELSE StoreEvent(F[i - 1], batch[i])]
           C == CHOOSE F : P(F)
<1>1. N \in Nat /\ \A i \in 1 .. N : batch[i] \in Event
  OBVIOUS
<1>2. G \in [1 .. N -> [Tables -> Tables]]
  <2>1. \A i \in 1 .. N, x \in Tables : StoreEvent(x, batch[i]) \in Tables
    BY <1>1, StoreEventFits
  <2> HIDE DEF N
  <2>2. QED
    BY <2>1
<1>3. PICK F \in [0 .. N -> Tables] : F[0] = t /\ \A i \in 1 .. N : F[i] = G[i][F[i - 1]]
  <2> HIDE DEF G, N
  <2>1. Iterates(Tables, t, N, G)
    BY <1>1, <1>2, RecursionExists
  <2>2. QED
    BY <2>1 DEF Iterates
<1>4. P(F)
  <2>1. \A i \in 1 .. N : F[i - 1] \in Tables
    <3>1. \A i \in 1 .. N : i - 1 \in 0 .. N
      BY <1>1
    <3>2. QED
      BY <3>1, <1>3
  <2> HIDE DEF N
  <2>2. \A i \in 1 .. N : G[i][F[i - 1]] = StoreEvent(F[i - 1], batch[i])
    BY <2>1
  <2>3. \A i \in 0 .. N : i # 0 => i \in 1 .. N
    BY <1>1
  <2>4. F = [i \in 0 .. N |-> F[i]]
    BY <1>3
  <2> HIDE DEF G
  <2>5. QED
    BY <1>3, <2>2, <2>3, <2>4
<1>5. P(C)
  BY <1>4
<1>6. StoreBatch(t, batch) = C[N]
  BY DEF StoreBatch
<1> HIDE DEF C, N
<1>7. C[0] = t /\ \A i \in 1 .. N : C[i] = StoreEvent(C[i - 1], batch[i])
  <2>1. 0 \in 0 .. N /\ \A i \in 1 .. N : i \in 0 .. N /\ i # 0
    BY <1>1
  <2>2. QED
    BY <1>5, <2>1
<1>8. {i \in 0 .. N : C[i] \notin Tables} = {}
  <2> DEFINE Bad == {i \in 0 .. N : C[i] \notin Tables}
  <2> SUFFICES ASSUME Bad # {} PROVE FALSE
    OBVIOUS
  <2>1. PICK i \in Bad : \A j \in Bad : i <= j
    <3>1. Bad \in SUBSET Nat
      OBVIOUS
    <3> HIDE DEF Bad
    <3>2. QED
      BY <3>1, LeastOf
  <2>2. i \in 1 .. N /\ i - 1 \in 0 .. N /\ ~(i <= i - 1)
    BY <1>1, <1>7
  <2>3. C[i - 1] \in Tables
    BY <2>1, <2>2
  <2>4. C[i] \in Tables
    BY <1>1, <1>7, <2>2, <2>3, StoreEventFits
  <2>5. QED
    BY <2>4
<1>9. C \in [0 .. N -> Tables]
  <2>1. C = [i \in 0 .. N |-> C[i]]
    BY <1>5
  <2>2. QED
    BY <1>8, <2>1
<1>10. QED
  BY <1>6, <1>7, <1>9 DEF Folds, N

\* The last of the bars among the events of a sequence.
NoBar(q)      == \A i \in DOMAIN q : q[i].kind # "bar"
LastBar(q, i) == /\ i \in DOMAIN q /\ q[i].kind = "bar"
                 /\ \A j \in DOMAIN q : j > i => q[j].kind # "bar"

\* A batch leaves its last bar in the table, or the bar that was there.
LEMMA BatchLeaves ==
  ASSUME NEW t \in Tables, NEW batch \in Seq(Event)
  PROVE  /\ StoreBatch(t, batch) \in Tables
         /\ \/ NoBar(batch) /\ StoreBatch(t, batch).bar = t.bar
            \/ \E i \in DOMAIN batch : /\ LastBar(batch, i)
                                       /\ StoreBatch(t, batch).bar = BarRow(batch[i], "stream")
<1> DEFINE N == Len(batch)
<1>1. PICK F \in [0 .. N -> Tables] :
        /\ StoreBatch(t, batch) = F[N] /\ F[0] = t
        /\ \A i \in 1 .. N : F[i] = StoreEvent(F[i - 1], batch[i])
  <2>1. Folds(t, batch)
    BY BatchFolds
  <2>2. QED
    BY <2>1 DEF Folds
<1>2. N \in Nat /\ DOMAIN batch = 1 .. N /\ \A i \in 1 .. N : batch[i] \in Event
  OBVIOUS
<1> HIDE DEF N
<1> DEFINE Without(n) == (\A j \in 1 .. n : batch[j].kind # "bar") /\ F[n].bar = t.bar
           With(n) == \E i \in 1 .. n : /\ batch[i].kind = "bar" /\ F[n].bar = BarRow(batch[i], "stream")
                                        /\ \A j \in 1 .. n : j > i => batch[j].kind # "bar"
           Good(n) == Without(n) \/ With(n)
           Bad == {n \in 0 .. N : ~Good(n)}
<1>3. Good(0)
  BY <1>1
<1>4. ASSUME NEW n \in 1 .. N, Good(n - 1) PROVE Good(n)
  <2>1. /\ F[n - 1] \in Tables /\ batch[n] \in Event /\ n \in Nat /\ n \in 1 .. n
        /\ \A j \in 1 .. n : j = n \/ j \in 1 .. (n - 1)
        /\ \A j \in 1 .. (n - 1) : j \in 1 .. n /\ ~(j > n)
        /\ ~(n > n)
    BY <1>1, <1>2
  <2>2. CASE batch[n].kind = "bar"
    <3>1. F[n].bar = BarRow(batch[n], "stream")
      <4>1. F[n] = StoreEvent(F[n - 1], batch[n])
        BY <1>1
      <4>2. StoreEvent(F[n - 1], batch[n]).bar = BarRow(batch[n], "stream")
        BY ONLY <2>1, <2>2, StoreEventFits
      <4>3. QED
        BY <4>1, <4>2
    <3>2. \A j \in 1 .. n : j > n => batch[j].kind # "bar"
      BY <2>1
    <3>3. With(n)
      BY <2>1, <2>2, <3>1, <3>2
    <3>4. QED
      BY <3>3
  <2>3. CASE batch[n].kind # "bar"
    <3>1. F[n].bar = F[n - 1].bar
      <4>1. F[n] = StoreEvent(F[n - 1], batch[n])
        BY <1>1
      <4>2. StoreEvent(F[n - 1], batch[n]).bar = F[n - 1].bar
        BY ONLY <2>1, <2>3, StoreEventFits
      <4>3. QED
        BY <4>1, <4>2
    <3>2. CASE Without(n - 1)
      <4>1. Without(n)
        BY <2>1, <2>3, <3>1, <3>2
      <4>2. QED
        BY <4>1
    <3>3. CASE With(n - 1)
      <4>1. PICK i \in 1 .. (n - 1) :
              /\ batch[i].kind = "bar" /\ F[n - 1].bar = BarRow(batch[i], "stream")
              /\ \A j \in 1 .. (n - 1) : j > i => batch[j].kind # "bar"
        BY <3>3
      <4>2. \A j \in 1 .. n : j > i => batch[j].kind # "bar"
        BY <2>1, <2>3, <4>1
      <4>3. With(n)
        BY <2>1, <3>1, <4>1, <4>2
      <4>4. QED
        BY <4>3
    <3>4. QED
      BY <1>4, <3>2, <3>3
  <2>4. QED
    BY <2>2, <2>3
<1>5. Bad = {}
  <2> SUFFICES ASSUME Bad # {} PROVE FALSE
    OBVIOUS
  <2> HIDE DEF Good
  <2>1. PICK n \in Bad : \A m \in Bad : n <= m
    <3>1. Bad \in SUBSET Nat
      OBVIOUS
    <3> HIDE DEF Bad
    <3>2. QED
      BY <3>1, LeastOf
  <2>2. n \in 1 .. N /\ n - 1 \in 0 .. N /\ ~(n <= n - 1)
    BY <1>2, <1>3
  <2>3. Good(n - 1)
    BY <2>1, <2>2
  <2>4. QED
    BY <1>4, <2>2, <2>3
<1>6. Good(N) /\ F[N] \in Tables
  <2> HIDE DEF Good
  <2>1. N \in 0 .. N
    BY <1>2
  <2>2. N \notin Bad
    <3> HIDE DEF Bad
    <3>1. QED
      BY <1>5
  <2>3. QED
    BY <1>1, <2>1, <2>2
<1>7. CASE Without(N)
  BY <1>1, <1>2, <1>6, <1>7 DEF NoBar
<1>8. CASE With(N)
  BY <1>1, <1>2, <1>6, <1>8 DEF LastBar
<1>9. QED
  BY <1>6, <1>7, <1>8

-----------------------------------------------------------------------------
(* The inductive invariant *)

MarketTypes ==
  /\ now \in Times
  /\ quotes \in [Symbols -> Times]
  /\ bar \in Bar \cup {None}
  /\ alert \in BOOLEAN /\ stop \in BOOLEAN
  /\ main \in {"running", "joining", "failing", "closing", "ended"}
  /\ run \in {"running", "failed", "interrupted"}
  /\ stream \in [pc : {"up", "down", "done"}, held : Event \cup {None}]
  /\ consumer \in {"running", "done", "failed"}
  /\ count \in [put : Nat, stored : Nat, due : Nat, newest : Times]

PollFits ==
  /\ poll \in [pc : {"asking", "waiting", "done", "failed"}, wrote : Seq(Times)]
  /\ Len(poll.wrote) < Len(Order)

BackfillFits ==
  backfill \in [pc : {"off", "quoted", "read"}, quote : Times, read : BarEvent \cup {None}]

QueueFits == queue \in Seq(Event) /\ Len(queue) <= QueueSize

\* What was put is stored or still in the queue, unless the consumer lost a batch.
Accounts ==
  /\ count.put <= MaxEvents /\ (stream.held # None => count.put < MaxEvents)
  /\ count.due <= count.put
  /\ IF consumer = "failed" THEN count.stored + Len(queue) < count.put
     ELSE count.stored + Len(queue) = count.put

\* The newest bar is the last in the queue or, if none is there, the one stored.
NewestBar ==
  /\ \A i \in DOMAIN queue : LastBar(queue, i) => queue[i].at = count.newest
  /\ (consumer # "failed" /\ NoBar(queue) /\ bar # None) =>
       (bar.by = "stream" => bar.at = count.newest)

\* serve leaves join only when everything put before the stop is stored.
Stops ==
  /\ main = "closing" => count.stored >= count.due
  /\ run = "interrupted" => main = "ended" /\ count.stored >= count.due

MarketInv == /\ MarketTypes /\ PollFits /\ BackfillFits /\ QueueFits
             /\ Accounts /\ NewestBar /\ Stops

LEMMA OrderFacts ==
  /\ Order \in Seq(Symbols) /\ Len(Order) \in Nat \ {0}
  /\ DOMAIN Order = 1 .. Len(Order) /\ Order[1] \in Symbols /\ Head(Order) = Order[1]
  /\ \A s \in Symbols : \E i \in DOMAIN Order : Order[i] = s
BY OrderAssumption DEF Symbols, Range

LEMMA TimesFacts == 0 \in Times /\ Times \subseteq Nat
BY SizesAssumption DEF Times

LEMMA InitMarket == Init => MarketInv
<1> SUFFICES ASSUME Init PROVE MarketInv
  OBVIOUS
<1> USE DEF Init
<1>1. MarketTypes
  BY TimesFacts DEF MarketTypes
<1>2. PollFits
  BY OrderFacts DEF PollFits
<1>3. BackfillFits
  BY TimesFacts DEF BackfillFits
<1>4. QueueFits
  BY SizesAssumption DEF QueueFits
<1>5. Accounts
  BY SizesAssumption DEF Accounts
<1>6. NewestBar
  BY DEF NewestBar, NoBar, LastBar
<1>7. Stops
  BY DEF Stops
<1>8. QED
  BY <1>1, <1>2, <1>3, <1>4, <1>5, <1>6, <1>7 DEF MarketInv

LEMMA EventsFit ==
  ASSUME MarketTypes
  PROVE  /\ \A e \in EventsNow : e \in Event
         /\ BarNow \in BarEvent
         /\ \A e \in Event : /\ e.at \in Times
                             /\ e.kind = "bar" => e \in BarEvent
<1>1. BarNow \in BarEvent
  BY SizesAssumption, TimesFacts DEF BarNow, BarEvent, MarketTypes
<1>2. QED
  BY <1>1 DEF EventsNow, Event, Quote, BarEvent, MarketTypes

\* An event that the exchange sends is one the stream may hold.
LEMMA ReceiveEventKeeps == MarketInv /\ ReceiveEvent => MarketInv'
<1> SUFFICES ASSUME MarketInv, ReceiveEvent PROVE MarketInv'
  OBVIOUS
<1> USE DEF MarketInv
<1>1. PICK e \in EventsNow : stream' = [stream EXCEPT !.held = e]
  BY DEF ReceiveEvent
<1>2. /\ stream' \in [pc : {"up", "down", "done"}, held : Event \cup {None}]
      /\ count.put < MaxEvents
  BY <1>1, EventsFit DEF MarketTypes, ReceiveEvent
<1>3. /\ UNCHANGED <<now, quotes, bar, alert, main, stop, run, poll>>
      /\ UNCHANGED <<consumer, queue, backfill, count>>
  BY DEF ReceiveEvent, tables
<1>4. MarketTypes'
  BY <1>2, <1>3 DEF MarketTypes
<1>5. Accounts'
  BY <1>2, <1>3 DEF Accounts
<1>6. PollFits' /\ BackfillFits' /\ QueueFits' /\ NewestBar' /\ Stops'
  BY <1>3 DEF PollFits, BackfillFits, QueueFits, NewestBar, NoBar, LastBar, Stops
<1>7. QED
  BY <1>4, <1>5, <1>6

\* The last event of the queue is the one that was put.
LEMMA PutEventKeeps == MarketInv /\ PutEvent => MarketInv'
<1> SUFFICES ASSUME MarketInv, PutEvent PROVE MarketInv'
  OBVIOUS
<1> USE DEF MarketInv
<1> DEFINE e == stream.held
<1>1. /\ e \in Event /\ e.at \in Times /\ queue \in Seq(Event) /\ Len(queue) \in Nat
      /\ Len(queue) < QueueSize /\ queue' = Append(queue, e) /\ count.put < MaxEvents
  BY EventsFit DEF PutEvent, MarketTypes, QueueFits, Accounts
<1>2. /\ UNCHANGED <<now, quotes, bar, alert, main, stop, run, poll>>
      /\ UNCHANGED <<consumer, backfill>>
  BY DEF PutEvent, tables
<1>3. /\ stream' \in [pc : {"up", "down", "done"}, held : Event \cup {None}]
      /\ stream'.held = None
  BY DEF PutEvent
<1>4. /\ count' \in [put : Nat, stored : Nat, due : Nat, newest : Times]
      /\ count'.put = count.put + 1 /\ count'.stored = count.stored /\ count'.due = count.due
      /\ count'.newest = IF e.kind = "bar" THEN e.at ELSE count.newest
  <2> DEFINE x == IF e.kind = "bar" THEN e.at ELSE count.newest
             p == count.put + 1
  <2>1. p \in Nat /\ x \in Times /\ count \in [put : Nat, stored : Nat, due : Nat, newest : Times]
    BY <1>1 DEF MarketTypes
  <2>2. count' = [count EXCEPT !.put = p, !.newest = x]
    BY DEF PutEvent
  <2> HIDE DEF p, x
  <2>3. /\ count' \in [put : Nat, stored : Nat, due : Nat, newest : Times]
        /\ count'.put = p /\ count'.stored = count.stored /\ count'.due = count.due
        /\ count'.newest = x
    BY <2>1, <2>2
  <2>4. QED
    BY <2>3 DEF p, x
<1>5. count.put \in Nat /\ count.stored \in Nat /\ count.due \in Nat
  BY DEF MarketTypes
<1>6. /\ queue' \in Seq(Event) /\ Len(queue') = Len(queue) + 1
      /\ DOMAIN queue = 1 .. Len(queue) /\ DOMAIN queue' = 1 .. (Len(queue) + 1)
      /\ queue'[Len(queue) + 1] = e /\ \A i \in DOMAIN queue : queue'[i] = queue[i]
  BY <1>1
<1> HIDE DEF e
<1>7. MarketTypes'
  BY <1>2, <1>3, <1>4 DEF MarketTypes
<1>8. QueueFits'
  BY <1>1, <1>6, SizesAssumption DEF QueueFits
<1>9. Accounts'
  <2>1. MaxEvents \in Nat
    BY SizesAssumption
  <2>2. /\ count.due <= count.put
        /\ IF consumer = "failed" THEN count.stored + Len(queue) < count.put
           ELSE count.stored + Len(queue) = count.put
    BY DEF Accounts
  <2>3. /\ count.put + 1 <= MaxEvents /\ count.due <= count.put + 1
    BY <1>1, <1>5, <2>1, <2>2
  <2>4. IF consumer = "failed" THEN count.stored + (Len(queue) + 1) < count.put + 1
        ELSE count.stored + (Len(queue) + 1) = count.put + 1
    <3>1. CASE consumer = "failed"
      <4>1. count.stored + Len(queue) < count.put
        BY <2>2, <3>1
      <4>2. count.stored + (Len(queue) + 1) < count.put + 1
        BY <1>1, <1>5, <4>1
      <4>3. QED
        BY <3>1, <4>2
    <3>2. CASE consumer # "failed"
      <4>1. count.stored + Len(queue) = count.put
        BY <2>2, <3>2
      <4>2. count.stored + (Len(queue) + 1) = count.put + 1
        BY <1>1, <1>5, <4>1
      <4>3. QED
        BY <3>2, <4>2
    <3>3. QED
      BY <3>1, <3>2
  <2>5. QED
    BY <1>2, <1>3, <1>4, <1>6, <2>3, <2>4 DEF Accounts
<1>10. NewestBar'
  <2>1. CASE e.kind = "bar"
    <3>1. \A i \in DOMAIN queue' : LastBar(queue', i) => i = Len(queue) + 1
      BY <1>1, <1>6, <2>1 DEF LastBar
    <3>2. ~NoBar(queue')
      <4>1. Len(queue) + 1 \in DOMAIN queue'
        BY <1>1, <1>6
      <4>2. QED
        BY <1>6, <2>1, <4>1 DEF NoBar
    <3>3. QED
      BY <1>4, <1>6, <2>1, <3>1, <3>2 DEF NewestBar
  <2>2. CASE e.kind # "bar"
    <3>1. \A i \in DOMAIN queue' : LastBar(queue', i) => i \in DOMAIN queue /\ LastBar(queue, i)
      BY <1>1, <1>6, <2>2 DEF LastBar
    <3>2. NoBar(queue') => NoBar(queue)
      BY <1>1, <1>6 DEF NoBar
    <3>3. QED
      BY <1>2, <1>4, <1>6, <2>2, <3>1, <3>2 DEF NewestBar
  <2>3. QED
    BY <2>1, <2>2
<1>11. PollFits' /\ BackfillFits' /\ Stops'
  BY <1>2, <1>4 DEF PollFits, BackfillFits, Stops
<1>12. QED
  BY <1>7, <1>8, <1>9, <1>10, <1>11

\* What is left of the queue after its first n events.
LEMMA CutFacts ==
  ASSUME MarketInv, queue # << >>
  PROVE  LET n == Len(Batch)
         IN  /\ n \in 1 .. Len(queue) /\ Len(queue) \in Nat
             /\ Batch \in Seq(Event) /\ \A i \in 1 .. n : Batch[i] = queue[i]
             /\ Rest \in Seq(Event) /\ Len(Rest) = Len(queue) - n
             /\ \A i \in 1 .. Len(Rest) : Rest[i] = queue[n + i]
<1> DEFINE m == IF Len(queue) < BatchSize THEN Len(queue) ELSE BatchSize
<1>1. queue \in Seq(Event) /\ Len(queue) \in Nat \ {0}
  BY DEF MarketInv, QueueFits
<1>2. m \in 1 .. Len(queue)
  BY <1>1, SizesAssumption
<1>3. Batch = SubSeq(queue, 1, m)
  BY DEF Batch
<1> HIDE DEF m
<1>4. /\ Batch \in Seq(Event) /\ Len(Batch) = m /\ \A i \in 1 .. m : Batch[i] = queue[i]
  BY <1>1, <1>2, <1>3
<1>5. Rest = SubSeq(queue, m + 1, Len(queue))
  BY <1>4 DEF Rest
<1>6. /\ Rest \in Seq(Event) /\ Len(Rest) = Len(queue) - m
      /\ \A i \in 1 .. Len(Rest) : Rest[i] = queue[m + i]
  BY <1>1, <1>2, <1>5
<1>7. QED
  BY <1>1, <1>2, <1>4, <1>6

\* The last bar of the queue is that of its rest, or that of the batch if the
\* rest has none.
LEMMA LastBarCut ==
  ASSUME MarketInv, queue # << >>
  PROVE  /\ \A i \in DOMAIN Rest : LastBar(Rest, i) => LastBar(queue, Len(Batch) + i)
         /\ \A i \in DOMAIN Batch : (LastBar(Batch, i) /\ NoBar(Rest)) => LastBar(queue, i)
         /\ (NoBar(Batch) /\ NoBar(Rest)) => NoBar(queue)
<1> DEFINE n == Len(Batch)
           N == Len(queue)
<1>1. /\ n \in 1 .. N /\ N \in Nat
      /\ Batch \in Seq(Event) /\ \A i \in 1 .. n : Batch[i] = queue[i]
      /\ Rest \in Seq(Event) /\ Len(Rest) = N - n
      /\ \A i \in 1 .. (N - n) : Rest[i] = queue[n + i]
  BY CutFacts
<1>2. /\ DOMAIN Batch = 1 .. n /\ DOMAIN Rest = 1 .. (N - n) /\ DOMAIN queue = 1 .. N
  BY <1>1 DEF MarketInv, QueueFits
<1> HIDE DEF n, N
<1>3. \A j \in 1 .. N : j \in 1 .. n \/ (j - n \in 1 .. (N - n) /\ n + (j - n) = j)
  BY <1>1
<1>4. \A j \in 1 .. N : j \in 1 .. n \/ (j - n \in 1 .. (N - n) /\ queue[j] = Rest[j - n])
  BY <1>1, <1>3
<1>5. ASSUME NEW i \in 1 .. (N - n), LastBar(Rest, i) PROVE LastBar(queue, n + i)
  <2>1. n + i \in 1 .. N /\ queue[n + i].kind = "bar"
    BY <1>1, <1>2, <1>5 DEF LastBar
  <2>2. ASSUME NEW j \in 1 .. N, j > n + i PROVE queue[j].kind # "bar"
    <3>1. j - n \in 1 .. (N - n) /\ j - n > i
      BY <1>1, <2>2
    <3>2. queue[j] = Rest[j - n]
      BY <1>1, <1>4, <2>2
    <3>3. QED
      BY <1>2, <1>5, <3>1, <3>2 DEF LastBar
  <2>3. QED
    BY <1>2, <2>1, <2>2 DEF LastBar
<1>6. ASSUME NEW i \in 1 .. n, LastBar(Batch, i), NoBar(Rest) PROVE LastBar(queue, i)
  <2>1. i \in 1 .. N /\ queue[i].kind = "bar"
    BY <1>1, <1>2, <1>6 DEF LastBar
  <2>2. ASSUME NEW j \in 1 .. N, j > i PROVE queue[j].kind # "bar"
    <3>1. CASE j \in 1 .. n
      BY <1>1, <1>2, <1>6, <2>2, <3>1 DEF LastBar
    <3>2. CASE j - n \in 1 .. (N - n) /\ queue[j] = Rest[j - n]
      BY <1>2, <1>6, <3>2 DEF NoBar
    <3>3. QED
      BY <1>4, <3>1, <3>2
  <2>3. QED
    BY <1>2, <2>1, <2>2 DEF LastBar
<1>7. ASSUME NoBar(Batch), NoBar(Rest) PROVE NoBar(queue)
  <2>1. ASSUME NEW j \in 1 .. N PROVE queue[j].kind # "bar"
    <3>1. CASE j \in 1 .. n
      BY <1>1, <1>2, <1>7, <3>1 DEF NoBar
    <3>2. CASE j - n \in 1 .. (N - n) /\ queue[j] = Rest[j - n]
      BY <1>2, <1>7, <3>2 DEF NoBar
    <3>3. QED
      BY <1>4, <3>1, <3>2
  <2>2. QED
    BY <1>2, <2>1 DEF NoBar
<1>8. QED
  BY <1>2, <1>5, <1>6, <1>7 DEF n

\* A batch that is stored moves the newest bar from the queue to the table.
LEMMA ConsumeKeeps == MarketInv /\ Consume => MarketInv'
<1> SUFFICES ASSUME MarketInv, Consume PROVE MarketInv'
  OBVIOUS
<1> DEFINE n == Len(Batch)
           t == [quotes |-> quotes, bar |-> bar]
           u == StoreBatch(t, Batch)
<1>1. /\ consumer = "running" /\ queue # << >> /\ queue' = Rest
      /\ quotes' = u.quotes /\ bar' = u.bar
      /\ count' = [count EXCEPT !.stored = @ + n]
      /\ main' = IF main = "joining" /\ count.put = count.stored + n THEN "closing" ELSE main
      /\ main \in {"running", "joining"}
  BY DEF Consume, Alive, Drained
<1>2. UNCHANGED <<now, alert, stop, run, stream, poll, consumer, backfill>>
  BY DEF Consume
<1>3. /\ n \in 1 .. Len(queue) /\ Len(queue) \in Nat
      /\ Batch \in Seq(Event) /\ Rest \in Seq(Event) /\ Len(Rest) = Len(queue) - n
      /\ \A i \in 1 .. n : Batch[i] = queue[i]
      /\ \A i \in 1 .. Len(Rest) : Rest[i] = queue[n + i]
  BY <1>1, CutFacts
<1>4. t \in Tables
  BY DEF Tables, MarketInv, MarketTypes
<1>5. /\ u \in Tables
      /\ \/ NoBar(Batch) /\ u.bar = bar
         \/ \E i \in DOMAIN Batch : LastBar(Batch, i) /\ u.bar = BarRow(Batch[i], "stream")
  <2>1. t.bar = bar
    OBVIOUS
  <2> HIDE DEF t
  <2>2. QED
    BY <1>3, <1>4, <2>1, BatchLeaves
<1> HIDE DEF n, t, u
<1>6. quotes' \in [Symbols -> Times] /\ bar' \in Bar \cup {None}
  BY <1>1, <1>5 DEF Tables
<1>7. count.put \in Nat /\ count.stored \in Nat /\ count.due \in Nat
  BY DEF MarketInv, MarketTypes
<1>8. /\ count' \in [put : Nat, stored : Nat, due : Nat, newest : Times]
      /\ count'.put = count.put /\ count'.stored = count.stored + n
      /\ count'.due = count.due /\ count'.newest = count.newest
  <2> DEFINE x == count.stored + n
  <2>1. x \in Nat /\ count \in [put : Nat, stored : Nat, due : Nat, newest : Times]
    BY <1>3, <1>7 DEF MarketInv, MarketTypes
  <2>2. count' = [count EXCEPT !.stored = x]
    BY <1>1
  <2> HIDE DEF x
  <2>3. /\ count' \in [put : Nat, stored : Nat, due : Nat, newest : Times]
        /\ count'.put = count.put /\ count'.stored = x
        /\ count'.due = count.due /\ count'.newest = count.newest
    BY <2>1, <2>2
  <2>4. QED
    BY <2>3 DEF x
<1>9. MarketTypes'
  BY <1>1, <1>2, <1>6, <1>8 DEF MarketInv, MarketTypes
<1>10. QueueFits'
  BY <1>1, <1>3, SizesAssumption DEF MarketInv, QueueFits
<1>11. Accounts'
  <2>1. Accounts /\ count'.stored + Len(queue') = count.stored + Len(queue)
    BY <1>1, <1>3, <1>7, <1>8 DEF MarketInv
  <2>2. QED
    BY <1>1, <1>2, <1>8, <2>1 DEF Accounts
<1>12. NewestBar'
  <2>1. /\ DOMAIN queue = 1 .. Len(queue) /\ DOMAIN Rest = 1 .. Len(Rest) /\ DOMAIN Batch = 1 .. n
    BY <1>3 DEF MarketInv, QueueFits, n
  <2>2. ASSUME NEW i \in DOMAIN Rest, LastBar(Rest, i) PROVE Rest[i].at = count.newest
    <3>1. n + i \in DOMAIN queue /\ Rest[i] = queue[n + i]
      BY <1>3, <2>1
    <3>2. LastBar(queue, n + i)
      BY <1>1, <2>2, LastBarCut DEF n
    <3>3. QED
      BY <3>1, <3>2 DEF MarketInv, NewestBar
  <2>3. ASSUME NoBar(Rest), bar' # None, bar'.by = "stream" PROVE bar'.at = count.newest
    <3>1. CASE NoBar(Batch) /\ u.bar = bar
      <4>1. NoBar(queue)
        BY <1>1, <2>3, <3>1, LastBarCut
      <4>2. QED
        BY <1>1, <2>3, <3>1, <4>1 DEF MarketInv, NewestBar
    <3>2. CASE \E i \in DOMAIN Batch : LastBar(Batch, i) /\ u.bar = BarRow(Batch[i], "stream")
      <4>1. PICK i \in DOMAIN Batch : LastBar(Batch, i) /\ u.bar = BarRow(Batch[i], "stream")
        BY <3>2
      <4>2. LastBar(queue, i)
        BY <1>1, <2>3, <4>1, LastBarCut
      <4>3. i \in DOMAIN queue /\ Batch[i] = queue[i]
        BY <1>3, <2>1
      <4>4. bar'.at = queue[i].at
        BY <1>1, <4>1, <4>3 DEF BarRow
      <4>5. QED
        BY <4>2, <4>3, <4>4 DEF MarketInv, NewestBar
    <3>3. QED
      BY <1>5, <3>1, <3>2
  <2>4. QED
    BY <1>1, <1>8, <2>2, <2>3 DEF NewestBar
<1>13. Stops'
  <2>1. run' # "interrupted"
    BY <1>1, <1>2 DEF MarketInv, Stops
  <2>2. QED
    BY <1>1, <1>7, <1>8, <2>1 DEF MarketInv, Accounts, Stops
<1>14. PollFits' /\ BackfillFits'
  BY <1>2 DEF MarketInv, PollFits, BackfillFits
<1>15. QED
  BY <1>9, <1>10, <1>11, <1>12, <1>13, <1>14 DEF MarketInv

\* A batch that is lost is missing in the account from then on.
LEMMA ConsumeTimesOutKeeps == MarketInv /\ ConsumeTimesOut => MarketInv'
<1> SUFFICES ASSUME MarketInv, ConsumeTimesOut PROVE MarketInv'
  OBVIOUS
<1> DEFINE n == Len(Batch)
<1>1. /\ consumer = "running" /\ queue # << >> /\ queue' = Rest /\ consumer' = "failed"
  BY DEF ConsumeTimesOut
<1>2. /\ UNCHANGED <<now, quotes, bar, alert, main, stop, run, stream, poll>>
      /\ UNCHANGED <<backfill, count>>
  BY DEF ConsumeTimesOut, tables
<1>3. /\ n \in 1 .. Len(queue) /\ Len(queue) \in Nat
      /\ Rest \in Seq(Event) /\ Len(Rest) = Len(queue) - n
      /\ \A i \in 1 .. Len(Rest) : Rest[i] = queue[n + i]
  BY <1>1, CutFacts
<1> HIDE DEF n
<1>4. count.put \in Nat /\ count.stored \in Nat /\ count.due \in Nat
  BY DEF MarketInv, MarketTypes
<1>5. MarketTypes'
  BY <1>1, <1>2 DEF MarketInv, MarketTypes
<1>6. QueueFits'
  BY <1>1, <1>3, SizesAssumption DEF MarketInv, QueueFits
<1>7. Accounts'
  BY <1>1, <1>2, <1>3, <1>4, SizesAssumption DEF MarketInv, Accounts
<1>8. NewestBar'
  <2>1. DOMAIN queue = 1 .. Len(queue) /\ DOMAIN Rest = 1 .. Len(Rest)
    BY <1>3 DEF MarketInv, QueueFits
  <2>2. ASSUME NEW i \in DOMAIN Rest, LastBar(Rest, i) PROVE Rest[i].at = count.newest
    <3>1. n + i \in DOMAIN queue /\ Rest[i] = queue[n + i]
      BY <1>3, <2>1
    <3>2. LastBar(queue, n + i)
      BY <1>1, <2>2, LastBarCut DEF n
    <3>3. QED
      BY <3>1, <3>2 DEF MarketInv, NewestBar
  <2>3. QED
    BY <1>1, <1>2, <2>2 DEF NewestBar
<1>9. PollFits' /\ BackfillFits' /\ Stops'
  BY <1>2 DEF MarketInv, PollFits, BackfillFits, Stops
<1>10. QED
  BY <1>5, <1>6, <1>7, <1>8, <1>9 DEF MarketInv

\* A stop while serve listens: what was put so far is due.
LEMMA SignalKeeps == MarketInv /\ Signal => MarketInv'
<1> SUFFICES ASSUME MarketInv, Signal PROVE MarketInv'
  OBVIOUS
<1> USE DEF MarketInv
<1>1. /\ UNCHANGED <<now, quotes, bar, alert, main, run, stream, poll>>
      /\ UNCHANGED <<consumer, queue, backfill>>
      /\ stop' = TRUE /\ main \in {"running", "joining"}
  BY DEF Signal, tables, Alive
<1>2. count.put \in Nat /\ count.stored \in Nat
  BY DEF MarketTypes
<1>3. /\ count' \in [put : Nat, stored : Nat, due : Nat, newest : Times]
      /\ count'.put = count.put /\ count'.stored = count.stored
      /\ count'.due = count.put /\ count'.newest = count.newest
  BY DEF Signal, MarketTypes
<1>4. MarketTypes'
  BY <1>1, <1>3 DEF MarketTypes
<1>5. Accounts'
  BY <1>1, <1>2, <1>3 DEF Accounts
<1>6. Stops'
  BY <1>1 DEF Stops
<1>7. PollFits' /\ BackfillFits' /\ QueueFits'
  BY <1>1 DEF PollFits, BackfillFits, QueueFits
<1>8. NewestBar'
  BY <1>1, <1>3 DEF NewestBar, NoBar, LastBar
<1>9. QED
  BY <1>4, <1>5, <1>6, <1>7, <1>8

\* serve goes on to close when nothing that was put is missing, or because a
\* task is over; what was put last was due at most.
LEMMA ServeKeeps == MarketInv /\ Serve => MarketInv'
<1> SUFFICES ASSUME MarketInv, Serve PROVE MarketInv'
  OBVIOUS
<1> USE DEF MarketInv
<1>1. UNCHANGED <<now, quotes, bar, alert, queue, backfill, count>>
  BY DEF Serve, Join, TaskStopped, Close, tables
<1>2. BackfillFits' /\ QueueFits'
  BY <1>1 DEF BackfillFits, QueueFits
<1>3. CASE Join
  <2>1. /\ UNCHANGED <<stop, run, stream, poll, consumer>>
        /\ main' \in {"joining", "closing"} /\ main = "running"
        /\ main' = "closing" => count.put = count.stored
    BY <1>3 DEF Join, Drained
  <2>2. Stops'
    BY <1>1, <2>1 DEF Stops, Accounts, MarketTypes
  <2>3. QED
    BY <1>1, <1>2, <2>1, <2>2 DEF MarketTypes, PollFits, Accounts, NewestBar, NoBar, LastBar
<1>4. CASE TaskStopped
  <2>1. UNCHANGED <<stop, run, stream, poll, consumer>> /\ main' = "failing" /\ main = "running"
    BY <1>4 DEF TaskStopped
  <2>2. QED
    BY <1>1, <1>2, <2>1 DEF MarketTypes, PollFits, Accounts, NewestBar, NoBar, LastBar, Stops
<1>5. CASE Close
  <2>1. /\ main' = "ended" /\ stop' = TRUE /\ main \in {"failing", "closing"}
        /\ run' = (IF main = "failing" THEN "failed" ELSE "interrupted")
        /\ consumer' \in {"failed", "done"} /\ (consumer' = "failed" <=> consumer = "failed")
    BY <1>5 DEF Close, FinalStatus, MarketTypes
  <2>2. /\ stream' \in [pc : {"up", "down", "done"}, held : Event \cup {None}]
        /\ stream'.held = None
    BY <1>5 DEF Close
  <2>3. poll' \in [pc : {"asking", "waiting", "done", "failed"}, wrote : Seq(Times)] /\ poll'.wrote = << >>
    BY <1>5 DEF Close
  <2>4. MarketTypes'
    BY <1>1, <2>1, <2>2 DEF MarketTypes
  <2>5. PollFits'
    BY <2>3, OrderFacts DEF PollFits
  <2>6. Accounts'
    BY <1>1, <2>1, <2>2 DEF Accounts
  <2>7. NewestBar'
    BY <1>1, <2>1 DEF NewestBar, NoBar, LastBar
  <2>8. Stops'
    BY <1>1, <2>1 DEF Stops
  <2>9. QED
    BY <1>2, <2>4, <2>5, <2>6, <2>7, <2>8
<1>6. QED
  BY <1>3, <1>4, <1>5 DEF Serve

\* The poll writes quotes and the alert only.
LEMMA PollKeeps == MarketInv /\ Poll => MarketInv'
<1> SUFFICES ASSUME MarketInv, Poll PROVE MarketInv'
  OBVIOUS
<1> USE DEF MarketInv
<1>1. /\ UNCHANGED <<now, bar, main, stop, run, stream, consumer, queue, backfill, count>>
      /\ now \in Times
  BY DEF Poll, PollNext, PollCommits, PollFails, PollTimesOut, PollAgain, tables, MarketTypes
<1>2. BackfillFits' /\ QueueFits' /\ Accounts' /\ NewestBar' /\ Stops'
  BY <1>1 DEF BackfillFits, QueueFits, Accounts, NewestBar, NoBar, LastBar, Stops
<1>3. /\ poll \in [pc : {"asking", "waiting", "done", "failed"}, wrote : Seq(Times)]
      /\ Len(poll.wrote) \in Nat /\ Len(poll.wrote) < Len(Order) /\ poll.wrote \in Seq(Times)
  BY DEF PollFits
<1>4. PollFits'
  <2>1. CASE PollNext
    <3>1. /\ poll' = [poll EXCEPT !.wrote = Append(poll.wrote, now)]
          /\ Len(poll.wrote) + 1 < Len(Order)
      BY <2>1 DEF PollNext
    <3>2. Append(poll.wrote, now) \in Seq(Times) /\ Len(Append(poll.wrote, now)) = Len(poll.wrote) + 1
      BY <1>1, <1>3
    <3>3. QED
      BY <1>3, <3>1, <3>2 DEF PollFits
  <2>2. CASE PollCommits \/ PollFails \/ PollTimesOut
    <3>1. poll' \in [pc : {"asking", "waiting", "done", "failed"}, wrote : Seq(Times)] /\ poll'.wrote = << >>
      <4> DEFINE none == << >>
      <4>1. none \in Seq(Times)
        OBVIOUS
      <4>2. poll' = [pc |-> "waiting", wrote |-> none] \/ poll' = [pc |-> "failed", wrote |-> none]
        BY <2>2 DEF PollCommits, PollFails, PollTimesOut
      <4> HIDE DEF none
      <4>3. /\ poll' \in [pc : {"asking", "waiting", "done", "failed"}, wrote : Seq(Times)]
            /\ poll'.wrote = none
        BY <4>1, <4>2
      <4>4. QED
        BY <4>3 DEF none
    <3>2. QED
      BY <3>1, OrderFacts DEF PollFits
  <2>3. CASE PollAgain
    BY <1>3, <2>3 DEF PollAgain, PollFits
  <2>4. QED
    BY <2>1, <2>2, <2>3 DEF Poll
<1>5. quotes' \in [Symbols -> Times] /\ alert' \in BOOLEAN
  <2>1. CASE PollCommits
    <3> DEFINE wrote == Append(poll.wrote, now)
               at(s) == wrote[CHOOSE i \in DOMAIN Order : Order[i] = s]
    <3>1. /\ alert' = FALSE /\ Len(poll.wrote) + 1 = Len(Order)
          /\ quotes' = [s \in Symbols |-> Newer(quotes[s], at(s))]
      BY <2>1 DEF PollCommits
    <3>2. wrote \in Seq(Times) /\ Len(wrote) = Len(Order)
      BY <1>1, <1>3, <3>1
    <3> HIDE DEF wrote
    <3>3. \A i \in DOMAIN Order : wrote[i] \in Times
      BY <3>2, OrderFacts
    <3>4. \A s \in Symbols : at(s) \in Times
      BY <3>3, OrderFacts
    <3> HIDE DEF at
    <3>5. \A s \in Symbols : Newer(quotes[s], at(s)) \in Times
      BY <3>4 DEF Newer, MarketTypes
    <3>6. QED
      BY <3>1, <3>5
  <2>2. CASE ~PollCommits
    BY <2>2 DEF Poll, PollNext, PollFails, PollTimesOut, PollAgain, tables, MarketTypes
  <2>3. QED
    BY <2>1, <2>2
<1>6. MarketTypes'
  BY <1>1, <1>5 DEF MarketTypes
<1>7. QED
  BY <1>2, <1>4, <1>6

\* A bar that backfill stores is its own.
LEMMA BackfillKeeps == MarketInv /\ Backfill => MarketInv'
<1> SUFFICES ASSUME MarketInv, Backfill PROVE MarketInv'
  OBVIOUS
<1> USE DEF MarketInv
<1>1. /\ UNCHANGED <<now, alert, main, stop, run, stream, poll, consumer, queue, count>>
      /\ now \in Times
  BY DEF Backfill, BackfillQuote, BackfillRead, BackfillStore, BackfillFails, tables, MarketTypes
<1>2. PollFits' /\ QueueFits' /\ Accounts' /\ Stops'
  BY <1>1 DEF PollFits, QueueFits, Accounts, Stops
<1>3. BackfillFits'
  <2>1. CASE BackfillQuote
    BY <1>1, <2>1 DEF BackfillQuote, BackfillFits
  <2>2. CASE BackfillRead
    BY <2>2, EventsFit DEF BackfillRead, BackfillFits
  <2>3. CASE BackfillStore \/ BackfillFails
    BY <2>3, TimesFacts DEF BackfillStore, BackfillFails, BackfillFits
  <2>4. QED
    BY <2>1, <2>2, <2>3 DEF Backfill
<1>4. CASE BackfillStore
  <2> DEFINE q == Newer(quotes[Head(Order)], backfill.quote)
  <2>1. q \in Times
    BY OrderFacts DEF MarketTypes, BackfillFits, Newer
  <2>2. quotes' = [quotes EXCEPT ![Head(Order)] = q]
    BY <1>4 DEF BackfillStore
  <2> HIDE DEF q
  <2>3. quotes' \in [Symbols -> Times]
    BY <2>1, <2>2 DEF MarketTypes
  <2>4. bar' = bar \/ (bar' \in Bar /\ bar'.by = "backfill")
    BY <1>4 DEF BackfillStore, BackfillFits, BarRow, Bar, BarEvent
  <2>5. MarketTypes'
    BY <1>1, <2>3, <2>4 DEF MarketTypes
  <2>6. NewestBar'
    BY <1>1, <2>4 DEF NewestBar, NoBar, LastBar
  <2>7. QED
    BY <1>2, <1>3, <2>5, <2>6
<1>5. CASE BackfillQuote \/ BackfillRead \/ BackfillFails
  <2>1. UNCHANGED <<quotes, bar>>
    BY <1>5 DEF BackfillQuote, BackfillRead, BackfillFails, tables
  <2>2. QED
    BY <1>1, <1>2, <1>3, <2>1 DEF MarketTypes, NewestBar, NoBar, LastBar
<1>6. QED
  BY <1>4, <1>5 DEF Backfill

\* The steps that move nothing the accounts tell.
LEMMA QuietKeeps ==
  MarketInv /\ (Tick \/ StreamFails \/ StreamAgain \/ StreamEnds \/ ConsumerEnds \/ UNCHANGED vars)
    => MarketInv'
<1> SUFFICES ASSUME MarketInv,
                    Tick \/ StreamFails \/ StreamAgain \/ StreamEnds \/ ConsumerEnds \/ UNCHANGED vars
             PROVE  MarketInv'
  OBVIOUS
<1> USE DEF MarketInv
<1>1. UNCHANGED <<quotes, bar, main, stop, run, poll, queue, backfill, count>>
  BY DEF Tick, StreamFails, StreamAgain, StreamEnds, ConsumerEnds, vars, tables
<1>2. PollFits' /\ BackfillFits' /\ QueueFits' /\ Stops'
  BY <1>1 DEF PollFits, BackfillFits, QueueFits, Stops
<1>3. now' \in Times /\ alert' \in BOOLEAN
  <2>1. CASE Tick
    BY <2>1, SizesAssumption DEF Tick, tables, MarketTypes, Times
  <2>2. CASE StreamFails
    BY <2>2 DEF StreamFails, MarketTypes
  <2>3. CASE StreamAgain \/ StreamEnds \/ ConsumerEnds \/ UNCHANGED vars
    BY <2>3 DEF StreamAgain, StreamEnds, ConsumerEnds, vars, tables, MarketTypes
  <2>4. QED
    BY <2>1, <2>2, <2>3
<1>4. /\ stream' \in [pc : {"up", "down", "done"}, held : Event \cup {None}]
      /\ stream'.held = stream.held
  BY DEF Tick, StreamFails, StreamAgain, StreamEnds, ConsumerEnds, vars, MarketTypes
<1>5. /\ consumer' \in {"running", "done", "failed"} /\ (consumer' = "failed" <=> consumer = "failed")
  BY DEF Tick, StreamFails, StreamAgain, StreamEnds, ConsumerEnds, vars, MarketTypes
<1>6. MarketTypes'
  BY <1>1, <1>3, <1>4, <1>5 DEF MarketTypes
<1>7. Accounts'
  BY <1>1, <1>4, <1>5 DEF Accounts
<1>8. NewestBar'
  BY <1>1, <1>5 DEF NewestBar, NoBar, LastBar
<1>9. QED
  BY <1>2, <1>6, <1>7, <1>8

LEMMA StepKeeps == MarketInv /\ [Next]_vars => MarketInv'
BY ReceiveEventKeeps, PutEventKeeps, ConsumeKeeps, ConsumeTimesOutKeeps, SignalKeeps,
   ServeKeeps, PollKeeps, BackfillKeeps, QuietKeeps
DEF Next, Stream, ConsumeStep

-----------------------------------------------------------------------------
(* The theorems *)

\* The worker's account of its events holds in every state: every event that was
\* put is stored or in the queue, unless the consumer has lost one (_consume counts
\* a batch with task_done only after it is stored).
THEOREM MarketInvariant == Spec => []MarketInv
<1>1. Init => MarketInv
  BY InitMarket
<1>2. MarketInv /\ [Next]_vars => MarketInv'
  BY StepKeeps
<1>3. QED
  BY <1>1, <1>2, PTL DEF Spec

\* The worker's variables have their types, the queue its bound (_QUEUE_SIZE),
\* and no more events are stored than were put.
THEOREM MarketTypeCorrect == Spec => []TypeOK
<1>1. MarketInv => TypeOK
  <2> SUFFICES ASSUME MarketInv PROVE TypeOK
    OBVIOUS
  <2> USE DEF MarketInv
  <2>1. count \in [put : 0 .. MaxEvents, stored : 0 .. MaxEvents, due : 0 .. MaxEvents, newest : Times]
    <3>1. /\ count.put \in Nat /\ count.stored \in Nat /\ count.due \in Nat
          /\ MaxEvents \in Nat /\ Len(queue) \in Nat
      BY SizesAssumption DEF MarketTypes, QueueFits
    <3>2. /\ count.put \in 0 .. MaxEvents /\ count.stored \in 0 .. MaxEvents
          /\ count.due \in 0 .. MaxEvents
      BY <3>1 DEF Accounts
    <3>3. QED
      BY <3>2 DEF MarketTypes
  <2>2. /\ stream.pc \in {"up", "down", "done"} /\ stream.held \in Event \cup {None}
        /\ run \in {"running", "succeeded", "failed", "interrupted"}
    BY DEF MarketTypes
  <2>3. /\ poll.pc \in {"asking", "waiting", "done", "failed"}
        /\ poll.wrote \in Seq(Times) /\ Len(poll.wrote) < Len(Order)
    BY DEF PollFits
  <2>4. backfill.pc \in {"off", "quoted", "read"} /\ backfill.read \in BarEvent \cup {None}
    BY DEF BackfillFits
  <2>5. QED
    BY <2>1, <2>2, <2>3, <2>4 DEF TypeOK, MarketTypes, QueueFits
<1>2. QED
  BY <1>1, MarketInvariant, PTL

\* When every event is stored, the bar in the table is the newest one received
\* (store_event in the order of the queue), unless backfill has replaced it.
THEOREM TablesCatchUpAlways == Spec => []TablesCatchUp
<1>1. MarketInv => TablesCatchUp
  <2> SUFFICES ASSUME MarketInv, count.put = count.stored, bar # None, bar.by = "stream"
               PROVE  bar.at = count.newest
    BY DEF TablesCatchUp
  <2>1. /\ count.put \in Nat /\ count.stored \in Nat /\ Len(queue) \in Nat /\ queue \in Seq(Event)
    BY DEF MarketInv, MarketTypes, QueueFits
  <2>2. consumer # "failed" /\ Len(queue) = 0
    BY <2>1 DEF MarketInv, Accounts
  <2>3. NoBar(queue)
    BY <2>1, <2>2 DEF NoBar
  <2>4. QED
    BY <2>2, <2>3 DEF MarketInv, NewestBar
<1>2. QED
  BY <1>1, MarketInvariant, PTL

\* A worker whose run ends as interrupted has stored every event that was in its
\* queue at the signal (serve waits for queue.join).
THEOREM InterruptedIsDrainedAlways == Spec => []InterruptedIsDrained
<1>1. MarketInv => InterruptedIsDrained
  BY DEF MarketInv, Stops, InterruptedIsDrained
<1>2. QED
  BY <1>1, MarketInvariant, PTL
=============================================================================
