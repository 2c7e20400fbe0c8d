---------------------------- MODULE MarketWorker ----------------------------
(***************************************************************************)
(* The market data worker: a stream task and a poll task that feed the     *)
(* tables of quotes and bars, the first through a queue and a consumer,    *)
(* and serve, which waits for a signal or for the end of a task.  Beside   *)
(* it an administrator may run backfill, a process of its own.             *)
(*                                                                         *)
(* The tasks share one event loop and talk to the database in it without   *)
(* awaiting: what a task does between two awaits is one step.  The poll    *)
(* keeps its transaction, and with it the rows it wrote, over the awaits   *)
(* between two symbols; the consumer, if it needs one of these rows,       *)
(* blocks the loop, so the poll cannot commit and the lock times out.      *)
(***************************************************************************)
EXTENDS Naturals, Sequences, FiniteSets, SequencesExt

CONSTANTS
  Order,      \* the symbols, in the order in which they are polled
  None,       \* no event, no row
  QueueSize,  \* _QUEUE_SIZE
  BatchSize,  \* greatest batch of the consumer (500)
  CloseTime,  \* time at which the bar is complete
  MaxTime,    \* bound: time at the exchange
  MaxEvents   \* bound: events put into the queue

ASSUME OrderAssumption == Order \in Seq(Range(Order)) /\ Order # << >>

ASSUME SizesAssumption ==
  /\ QueueSize \in Nat \ {0} /\ BatchSize \in Nat \ {0}
  /\ CloseTime \in Nat /\ MaxTime \in Nat /\ MaxEvents \in Nat

Symbols == Range(Order)
Times   == 0 .. MaxTime

VARIABLES
  now,       \* time at the exchange
  quotes,    \* event_at of market_quotes, by symbol
  bar,       \* a row of market_bars of the first symbol, or None
  alert,     \* the alert binance_market_unavailable is active
  main,      \* serve
  stop,      \* the stop event
  run,       \* status of the row of market_sync_runs
  stream,    \* _stream_forever, and the event it has not put yet
  poll,      \* _poll_quotes, and what it wrote and did not commit
  consumer,  \* _consume
  queue,     \* the queue of events
  backfill,  \* backfill, and the klines it has read and not stored
  count      \* history: events put, stored and put before the stop; the newest bar put

tables == <<quotes, bar, alert>>
vars == <<now, tables, main, stop, run, stream, poll, consumer, queue, backfill, count>>

Quote    == [kind: {"quote"}, symbol: Symbols, at: Times]
BarEvent == [kind: {"bar"}, at: Times, complete: BOOLEAN]
Event    == Quote \cup BarEvent
Bar      == [at: Times, complete: BOOLEAN, by: {"stream", "backfill"}]

TypeOK ==
  /\ now \in Times
  /\ quotes \in [Symbols -> Times]
  /\ bar \in Bar \cup {None}
  /\ alert \in BOOLEAN
  /\ main \in {"running", "joining", "failing", "closing", "ended"}
  /\ stop \in BOOLEAN
  /\ run \in {"running", "succeeded", "failed", "interrupted"}
  /\ stream.pc \in {"up", "down", "done"} /\ stream.held \in Event \cup {None}
  /\ poll.pc \in {"asking", "waiting", "done", "failed"}
  /\ poll.wrote \in Seq(Times) /\ Len(poll.wrote) < Len(Order)
  /\ consumer \in {"running", "done", "failed"}
  /\ queue \in Seq(Event) /\ Len(queue) <= QueueSize
  /\ backfill.pc \in {"off", "quoted", "read"}
  /\ backfill.read \in BarEvent \cup {None}
  /\ count \in [put: 0 .. MaxEvents, stored: 0 .. MaxEvents,
                due: 0 .. MaxEvents, newest: Times]

Init ==
  /\ now = 0
  /\ quotes = [s \in Symbols |-> 0]
  /\ bar = None /\ alert = FALSE
  /\ main = "running" /\ stop = FALSE /\ run = "running"
  /\ stream = [pc |-> "up", held |-> None]
  /\ poll = [pc |-> "asking", wrote |-> <<>>]
  /\ consumer = "running" /\ queue = <<>>
  /\ backfill = [pc |-> "off", quote |-> 0, read |-> None]
  /\ count = [put |-> 0, stored |-> 0, due |-> 0, newest |-> 0]

(***************************************************************************)
(* The tables                                                              *)
(***************************************************************************)

\* store_quote: a quote older than the row's is not stored.
Newer(old, at) == IF at >= old THEN at ELSE old

\* store_bars: whatever is read replaces the row.
BarRow(e, by) == [at |-> e.at, complete |-> e.complete, by |-> by]

\* store_event
StoreEvent(t, e) ==
  IF e.kind = "quote" THEN [t EXCEPT !.quotes[e.symbol] = Newer(@, e.at)]
  ELSE [t EXCEPT !.bar = BarRow(e, "stream")]

\* Mutant of StoreBatch: the newest event first.
StoreBatchReversed(t, batch) == FoldRight(LAMBDA e, r : StoreEvent(r, e), batch, t)

StoreBatch(t, batch) ==
  LET after[n \in 0 .. Len(batch)] ==
        IF n = 0 THEN t ELSE StoreEvent(after[n - 1], batch[n])
  IN  after[Len(batch)]

\* The quotes whose rows an open transaction has locked.
LockedByPoll     == {Order[i] : i \in DOMAIN poll.wrote}
LockedByBackfill == IF backfill.pc = "off" THEN {} ELSE {Head(Order)}

(***************************************************************************)
(* The exchange                                                            *)
(***************************************************************************)
Tick ==
  /\ now < MaxTime
  /\ now' = now + 1
  /\ UNCHANGED <<tables, main, stop, run, stream, poll, consumer, queue, backfill, count>>

BarNow == [kind |-> "bar", at |-> now, complete |-> now >= CloseTime]

EventsNow == {[kind |-> "quote", symbol |-> s, at |-> now] : s \in Symbols} \cup {BarNow}

(***************************************************************************)
(* _stream_forever                                                         *)
(***************************************************************************)
Alive == main \in {"running", "joining"}

ReceiveEvent ==
  /\ Alive /\ stream.pc = "up" /\ stream.held = None /\ count.put < MaxEvents
  /\ \E e \in EventsNow : stream' = [stream EXCEPT !.held = e]
  /\ UNCHANGED <<now, tables, main, stop, run, poll, consumer, queue, backfill, count>>

\* The event enters the queue once there is room; after the stop it is the last.
PutEvent ==
  /\ Alive /\ stream.held # None /\ Len(queue) < QueueSize
  /\ queue' = Append(queue, stream.held)
  /\ stream' = [pc |-> IF stop THEN "done" ELSE "up", held |-> None]
  /\ count' = [count EXCEPT !.put = @ + 1,
                 !.newest = IF stream.held.kind = "bar" THEN stream.held.at ELSE @]
  /\ UNCHANGED <<now, tables, main, stop, run, poll, consumer, backfill>>

\* The connection fails, or a message cannot be understood.
StreamFails ==
  /\ Alive /\ stream.pc = "up" /\ stream.held = None
  /\ stream' = [stream EXCEPT !.pc = "down"]
  /\ alert' = TRUE
  /\ UNCHANGED <<now, quotes, bar, main, stop, run, poll, consumer, queue, backfill, count>>

\* After the delay, or at once after the stop.
StreamAgain ==
  /\ Alive /\ stream.pc = "down"
  /\ stream' = [stream EXCEPT !.pc = IF stop THEN "done" ELSE "up"]
  /\ UNCHANGED <<now, tables, main, stop, run, poll, consumer, queue, backfill, count>>

\* The exchange closes the connection in good order: the task is over.
StreamEnds ==
  /\ Alive /\ stream.pc = "up" /\ stream.held = None
  /\ stream' = [stream EXCEPT !.pc = "done"]
  /\ UNCHANGED <<now, tables, main, stop, run, poll, consumer, queue, backfill, count>>

(***************************************************************************)
(* _poll_quotes                                                            *)
(***************************************************************************)
Asking == Alive /\ poll.pc = "asking"
Asked  == Order[Len(poll.wrote) + 1]

\* The answer for the next symbol is written, and its row stays locked.
PollNext ==
  /\ Asking /\ Asked \notin LockedByBackfill /\ Len(poll.wrote) + 1 < Len(Order)
  /\ poll' = [poll EXCEPT !.wrote = Append(@, now)]
  /\ UNCHANGED <<now, tables, main, stop, run, stream, consumer, queue, backfill, count>>

\* The last answer is written and the transaction committed.
PollCommits ==
  /\ Asking /\ Asked \notin LockedByBackfill /\ Len(poll.wrote) + 1 = Len(Order)
  /\ LET wrote == Append(poll.wrote, now)
     IN quotes' = [s \in Symbols |->
          Newer(quotes[s], wrote[CHOOSE i \in DOMAIN Order : Order[i] = s])]
  /\ poll' = [pc |-> "waiting", wrote |-> <<>>]
  /\ alert' = FALSE
  /\ UNCHANGED <<now, bar, main, stop, run, stream, consumer, queue, backfill, count>>

\* A request fails: the transaction is rolled back.
PollFails ==
  /\ Asking
  /\ poll' = [pc |-> "waiting", wrote |-> <<>>]
  /\ alert' = TRUE
  /\ UNCHANGED <<now, quotes, bar, main, stop, run, stream, consumer, queue, backfill, count>>

\* The row is backfill's for longer than the lock timeout: the task fails.
PollTimesOut ==
  /\ Asking /\ Asked \in LockedByBackfill
  /\ poll' = [pc |-> "failed", wrote |-> <<>>]
  /\ UNCHANGED <<now, tables, main, stop, run, stream, consumer, queue, backfill, count>>

PollAgain ==
  /\ Alive /\ poll.pc = "waiting"
  /\ poll' = [poll EXCEPT !.pc = IF stop THEN "done" ELSE "asking"]
  /\ UNCHANGED <<now, tables, main, stop, run, stream, consumer, queue, backfill, count>>

(***************************************************************************)
(* _consume                                                                *)
(***************************************************************************)

\* Mutant of KeepsOn: the consumer leaves the queue when it sees the stop.
KeepsOnUntilStop == ~stop

KeepsOn == ~stop \/ queue # <<>>

Batch == SubSeq(queue, 1, IF Len(queue) < BatchSize THEN Len(queue) ELSE BatchSize)
Rest  == SubSeq(queue, Len(Batch) + 1, Len(queue))

Needed == {e.symbol : e \in {x \in Range(Batch) : x.kind = "quote"}}
Blocked == Needed \cap (LockedByPoll \cup LockedByBackfill) # {}

\* Mutant of Drained: the queue is asked whether it is empty.
DrainedIfEmpty(put, stored, q) == q = <<>>

\* queue.join: of every event that was put task_done has been called.
Drained(put, stored, q) == put = stored

\* One batch is stored and committed; the last one lets serve go on.
Consume ==
  /\ Alive /\ consumer = "running" /\ KeepsOn /\ queue # <<>> /\ ~Blocked
  /\ LET t == StoreBatch([quotes |-> quotes, bar |-> bar], Batch)
     IN quotes' = t.quotes /\ bar' = t.bar
  /\ queue' = Rest
  /\ count' = [count EXCEPT !.stored = @ + Len(Batch)]
  /\ main' = IF main = "joining" /\ Drained(count.put, count.stored + Len(Batch), Rest)
               THEN "closing" ELSE main
  /\ UNCHANGED <<now, alert, stop, run, stream, poll, consumer, backfill>>

\* A row it needs is not free within the lock timeout, and the batch is lost.
ConsumeTimesOut ==
  /\ Alive /\ consumer = "running" /\ KeepsOn /\ queue # <<>> /\ Blocked
  /\ consumer' = "failed"
  /\ queue' = Rest
  /\ UNCHANGED <<now, tables, main, stop, run, stream, poll, backfill, count>>

ConsumerEnds ==
  /\ Alive /\ consumer = "running" /\ ~KeepsOn
  /\ consumer' = "done"
  /\ UNCHANGED <<now, tables, main, stop, run, stream, poll, queue, backfill, count>>

(***************************************************************************)
(* serve                                                                   *)
(***************************************************************************)

\* SIGTERM or SIGINT.
Signal ==
  /\ Alive /\ ~stop
  /\ stop' = TRUE
  /\ count' = [count EXCEPT !.due = count.put]
  /\ UNCHANGED <<now, tables, main, run, stream, poll, consumer, queue, backfill>>

\* The signal is seen: join returns at once or waits for the consumer.
Join ==
  /\ main = "running" /\ stop
  /\ main' = IF Drained(count.put, count.stored, queue) THEN "closing" ELSE "joining"
  /\ UNCHANGED <<now, tables, stop, run, stream, poll, consumer, queue, backfill, count>>

\* A task is over and is seen before a signal is.
TaskStopped ==
  /\ main = "running"
  /\ \/ stream.pc = "done"
     \/ poll.pc = "failed"
     \/ consumer = "failed"
  /\ main' = "failing"
  /\ UNCHANGED <<now, tables, stop, run, stream, poll, consumer, queue, backfill, count>>

\* Mutant of FinalStatus: a status the table does not know.
FinalStatusStopped == IF main = "failing" THEN "failed" ELSE "stopped"

FinalStatus == IF main = "failing" THEN "failed" ELSE "interrupted"

\* The tasks are cancelled, their transaction is rolled back and the run closed.
Close ==
  /\ main \in {"failing", "closing"}
  /\ main' = "ended" /\ stop' = TRUE
  /\ run' = FinalStatus
  /\ stream' = [pc |-> "done", held |-> None]
  /\ poll' = [pc |-> IF poll.pc = "failed" THEN "failed" ELSE "done", wrote |-> <<>>]
  /\ consumer' = IF consumer = "failed" THEN "failed" ELSE "done"
  /\ UNCHANGED <<now, tables, queue, backfill, count>>

(***************************************************************************)
(* backfill of the first symbol                                            *)
(***************************************************************************)

\* The quote is written, and its row stays locked until the klines are stored;
\* klines are asked for from the latest bar in the table on, without that one.
BackfillQuote ==
  /\ backfill.pc = "off" /\ Head(Order) \notin LockedByPoll
  /\ backfill' = [pc |-> IF bar = None THEN "quoted" ELSE "read", quote |-> now, read |-> None]
  /\ UNCHANGED <<now, tables, main, stop, run, stream, poll, consumer, queue, count>>

\* The exchange answers with the bar as it is now.
BackfillRead ==
  /\ backfill.pc = "quoted"
  /\ backfill' = [backfill EXCEPT !.pc = "read", !.read = BarNow]
  /\ UNCHANGED <<now, tables, main, stop, run, stream, poll, consumer, queue, count>>

\* The answer has arrived and is stored, whatever the bar is by now.
BackfillStore ==
  /\ backfill.pc = "read"
  /\ quotes' = [quotes EXCEPT ![Head(Order)] = Newer(@, backfill.quote)]
  /\ bar' = IF backfill.read = None THEN bar ELSE BarRow(backfill.read, "backfill")
  /\ backfill' = [pc |-> "off", quote |-> 0, read |-> None]
  /\ UNCHANGED <<now, alert, main, stop, run, stream, poll, consumer, queue, count>>

\* A request of backfill fails: everything since its last commit is undone.
BackfillFails ==
  /\ backfill.pc # "off"
  /\ backfill' = [pc |-> "off", quote |-> 0, read |-> None]
  /\ UNCHANGED <<now, tables, main, stop, run, stream, poll, consumer, queue, count>>

(***************************************************************************)
(* The specification                                                       *)
(***************************************************************************)
Stream == ReceiveEvent \/ PutEvent \/ StreamFails \/ StreamAgain \/ StreamEnds
Poll == PollNext \/ PollCommits \/ PollFails \/ PollTimesOut \/ PollAgain
ConsumeStep == Consume \/ ConsumeTimesOut \/ ConsumerEnds
Serve == Join \/ TaskStopped \/ Close
Backfill == BackfillQuote \/ BackfillRead \/ BackfillStore \/ BackfillFails

Next == Tick \/ Signal \/ Stream \/ Poll \/ ConsumeStep \/ Serve \/ Backfill

Spec == Init /\ [][Next]_vars

\* The event loop runs the consumer and serve when they can go on.
FairSpec == Spec /\ WF_vars(ConsumeStep) /\ WF_vars(Serve)

(***************************************************************************)
(* Properties                                                              *)
(***************************************************************************)

\* When all that was queued is stored, the bar is the newest one received,
\* unless backfill wrote it.
TablesCatchUp ==
  (count.put = count.stored /\ bar # None) => (bar.by = "stream" => bar.at = count.newest)

\* A run that ends as interrupted has stored what was queued before the stop.
InterruptedIsDrained == run = "interrupted" => count.stored >= count.due

\* A stop that finds the consumer at work ends the worker, unless the consumer
\* fails before the queue is empty.
StopEnds ==
  (main = "joining" /\ consumer = "running") ~> (main = "ended" \/ consumer = "failed")
=============================================================================
