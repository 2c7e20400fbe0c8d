---------------------- MODULE NotificationOutboxProofs ----------------------
(***************************************************************************)
(* What TLAPS proves of NotificationOutbox for any number of workers,      *)
(* alerts, outages, faults and changes of the settings, and then what it   *)
(* proves of a single worker, the one that the deployment runs.            *)
(***************************************************************************)
EXTENDS NotificationOutbox, Recursion, FiniteSetTheorems

-----------------------------------------------------------------------------
(* The entries that are kept when the file is merged *)

\* OtherEntries is what its recursion says.
Unfolds(S, h, k) ==
  \E F \in [0 .. Len(h) -> Seq(S)] :
    /\ OtherEntries(h, k) = F[Len(h)]
    /\ F[0] = << >>
    /\ \A i \in 1 .. Len(h) : F[i] = IF h[i].inc # k THEN Append(F[i - 1], h[i]) ELSE F[i - 1]

LEMMA OtherUnfolds ==
  ASSUME NEW S, NEW h \in Seq(S), NEW k
  PROVE  Unfolds(S, h, k)
<1> DEFINE N == Len(h)
           Test(e) == e.inc # k
           G == [i \in 1 .. N |-> [q \in Seq(S) |-> IF Test(h[i]) THEN Append(q, h[i]) ELSE q]]
           P(F) == F = [i \in 0 .. N |-> IF i = 0 THEN << >>
                                          ELSE IF Test(h[i]) THEN Append(F[i - 1], h[i]) ELSE F[i - 1]]
           C == CHOOSE F : P(F)
<1>1. N \in Nat /\ \A i \in 1 .. N : h[i] \in S
  OBVIOUS
<1>2. G \in [1 .. N -> [Seq(S) -> Seq(S)]]
  <2>1. \A i \in 1 .. N, q \in Seq(S) : Append(q, h[i]) \in Seq(S)
    BY <1>1
  <2>2. QED
    BY <2>1
<1>3. PICK F \in [0 .. N -> Seq(S)] : F[0] = << >> /\ \A i \in 1 .. N : F[i] = G[i][F[i - 1]]
  <2>1. << >> \in Seq(S)
    OBVIOUS
  <2> HIDE DEF G, N
  <2>2. Iterates(Seq(S), << >>, N, G)
    BY <1>1, <1>2, <2>1, RecursionExists
  <2>3. QED
    BY <2>2 DEF Iterates
<1>4. P(F)
  <2>1. \A i \in 1 .. N : F[i - 1] \in Seq(S)
    <3>1. \A i \in 1 .. N : i - 1 \in 0 .. N
      BY <1>1
    <3>2. \A i \in 1 .. N : F[i - 1] \in Seq(S)
      BY <3>1, <1>3
    <3>3. QED
      BY <3>2
  <2>2. \A i \in 1 .. N : G[i][F[i - 1]] = IF Test(h[i]) THEN Append(F[i - 1], h[i]) ELSE F[i - 1]
    BY <2>1
  <2>3. \A i \in 0 .. N : i # 0 => i \in 1 .. N
    BY <1>1
  <2>5. F = [i \in 0 .. N |-> F[i]]
    BY <1>3
  <2> HIDE DEF G, Test, N
  <2>4. QED
    BY <1>3, <2>2, <2>3, <2>5
<1>5. P(C)
  BY <1>4
<1>6. OtherEntries(h, k) = C[N]
  BY DEF OtherEntries
<1>7. C \in [0 .. N -> Seq(S)] /\ C[0] = << >>
        /\ \A i \in 1 .. N : C[i] = IF Test(h[i]) THEN Append(C[i - 1], h[i]) ELSE C[i - 1]
  <2>1. /\ C[0] = << >>
        /\ \A i \in 1 .. N : C[i] = IF Test(h[i]) THEN Append(C[i - 1], h[i]) ELSE C[i - 1]
    <3> HIDE DEF C, Test, N
    <3>1. \A i \in 1 .. N : i \in 0 .. N /\ i # 0
      BY <1>1
    <3>2. 0 \in 0 .. N
      BY <1>1
    <3>3. QED
      BY <1>5, <3>1, <3>2
  <2>4. << >> \in Seq(S) /\ C[0] \in Seq(S)
    <3> HIDE DEF C, N, Test
    <3>1. QED
      BY <2>1
  <2>5. ASSUME NEW i \in 1 .. N, C[i - 1] \in Seq(S) PROVE C[i] \in Seq(S)
    <3>1. Append(C[i - 1], h[i]) \in Seq(S)
      BY <2>5, <1>1
    <3>2. C[i] = Append(C[i - 1], h[i]) \/ C[i] = C[i - 1]
      BY <2>1
    <3>3. QED
      BY <3>1, <3>2, <2>5
  <2>2. {i \in 0 .. N : C[i] \notin Seq(S)} = {}
    <3> DEFINE Bad == {i \in 0 .. N : C[i] \notin Seq(S)}
    <3> SUFFICES ASSUME Bad # {} PROVE FALSE
      OBVIOUS
    <3>1. Bad \in SUBSET Nat
      OBVIOUS
    <3>2. PICK i \in Bad : \A j \in Bad : i <= j
      <4> HIDE DEF Bad
      <4>1. QED
        BY <3>1, LeastOf
    <3> HIDE DEF C, N, Test
    <3>3. i # 0
      BY <2>4, <3>2
    <3>4. i \in 1 .. N /\ i - 1 \in 0 .. N /\ i - 1 < i
      BY <1>1, <3>3
    <3>5. C[i - 1] \in Seq(S)
      BY <3>2, <3>4
    <3>6. C[i] \in Seq(S)
      BY <2>5, <3>4, <3>5
    <3>7. QED
      BY <3>6
  <2>3. QED
    <3> HIDE DEF C, N
    <3>1. C = [i \in 0 .. N |-> C[i]]
      BY <1>5
    <3>2. QED
      BY <2>1, <2>2, <3>1
<1>8. QED
  <2> HIDE DEF C
  <2>1. QED
    BY <1>6, <1>7 DEF Unfolds

\* What is kept are the entries of other incidents, and all of these.
LEMMA OtherEntriesKept ==
  ASSUME NEW S, NEW h \in Seq(S), NEW k
  PROVE  /\ OtherEntries(h, k) \in Seq(S)
         /\ \A j \in DOMAIN OtherEntries(h, k) :
              \E i \in DOMAIN h : OtherEntries(h, k)[j] = h[i] /\ h[i].inc # k
         /\ \A i \in DOMAIN h :
              h[i].inc # k => \E j \in DOMAIN OtherEntries(h, k) : OtherEntries(h, k)[j] = h[i]
<1> DEFINE N == Len(h)
<1>1. PICK F \in [0 .. N -> Seq(S)] :
        /\ OtherEntries(h, k) = F[N] /\ F[0] = << >>
        /\ \A i \in 1 .. N : F[i] = IF h[i].inc # k THEN Append(F[i - 1], h[i]) ELSE F[i - 1]
  <2>1. Unfolds(S, h, k)
    BY OtherUnfolds
  <2>2. QED
    BY <2>1 DEF Unfolds
<1>2. N \in Nat /\ DOMAIN h = 1 .. N /\ \A i \in 1 .. N : h[i] \in S
  OBVIOUS
<1> DEFINE From(n) == \A j \in 1 .. Len(F[n]) : \E i \in 1 .. n : F[n][j] = h[i] /\ h[i].inc # k
           Into(n) == \A i \in 1 .. n : h[i].inc # k => \E j \in 1 .. Len(F[n]) : F[n][j] = h[i]
           Bad == {n \in 0 .. N : ~(From(n) /\ Into(n))}
<1> HIDE DEF N
<1>3. From(0) /\ Into(0)
  BY <1>1
<1>4. ASSUME NEW n \in 1 .. N, From(n - 1), Into(n - 1) PROVE From(n) /\ Into(n)
  <2>1. n - 1 \in 0 .. N /\ F[n - 1] \in Seq(S) /\ F[n] \in Seq(S) /\ n \in Nat /\ h[n] \in S
    BY <1>1, <1>2
  <2>2. CASE h[n].inc # k
    <3>1. F[n] = Append(F[n - 1], h[n])
      BY <1>1, <2>2
    <3>2. /\ Len(F[n]) = Len(F[n - 1]) + 1 /\ F[n][Len(F[n])] = h[n] /\ Len(F[n - 1]) \in Nat
          /\ \A j \in 1 .. Len(F[n - 1]) : F[n][j] = F[n - 1][j]
      BY <2>1, <3>1
    <3>3. From(n)
      <4> SUFFICES ASSUME NEW j \in 1 .. Len(F[n]) PROVE \E i \in 1 .. n : F[n][j] = h[i] /\ h[i].inc # k
        OBVIOUS
      <4>1. j \in 1 .. Len(F[n - 1]) \/ j = Len(F[n])
        BY <3>2
      <4>2. n \in 1 .. n /\ \A i \in 1 .. (n - 1) : i \in 1 .. n
        BY <2>1
      <4>3. QED
        BY <4>1, <4>2, <3>2, <2>2, <1>4
    <3>4. Into(n)
      <4> SUFFICES ASSUME NEW i \in 1 .. n, h[i].inc # k PROVE \E j \in 1 .. Len(F[n]) : F[n][j] = h[i]
        OBVIOUS
      <4>1. i \in 1 .. (n - 1) \/ i = n
        BY <2>1
      <4>2. Len(F[n]) \in 1 .. Len(F[n]) /\ \A j \in 1 .. Len(F[n - 1]) : j \in 1 .. Len(F[n])
        BY <3>2
      <4>3. QED
        BY <4>1, <4>2, <3>2, <1>4
    <3>5. QED
      BY <3>3, <3>4
  <2>3. CASE ~(h[n].inc # k)
    <3>1. F[n] = F[n - 1]
      BY <1>1, <2>3
    <3>2. \A i \in 1 .. n : i \in 1 .. (n - 1) \/ i = n
      BY <2>1
    <3>3. \A i \in 1 .. (n - 1) : i \in 1 .. n
      BY <2>1
    <3>4. QED
      BY <3>1, <3>2, <3>3, <2>3, <1>4
  <2>4. QED
    BY <2>2, <2>3
<1>5. Bad = {}
  <2> SUFFICES ASSUME Bad # {} PROVE FALSE
    OBVIOUS
  <2> HIDE DEF From, Into
  <2>1. Bad \in SUBSET Nat
    OBVIOUS
  <2>2. PICK n \in Bad : \A m \in Bad : n <= m
    <3> HIDE DEF Bad
    <3>1. QED
      BY <2>1, LeastOf
  <2>3. n \in 1 .. N /\ n - 1 \in 0 .. N /\ ~(n <= n - 1)
    BY <1>2, <1>3
  <2>4. From(n - 1) /\ Into(n - 1)
    BY <2>2, <2>3
  <2>5. QED
    BY <1>4, <2>3, <2>4
<1>6. From(N) /\ Into(N)
  <2> HIDE DEF From, Into
  <2>1. N \in 0 .. N
    BY <1>2
  <2>2. N \notin Bad
    <3> HIDE DEF Bad
    <3>1. QED
      BY <1>5
  <2>3. QED
    BY <2>1, <2>2
<1>7. F[N] \in Seq(S) /\ DOMAIN F[N] = 1 .. Len(F[N])
  BY <1>1, <1>2
<1>8. \A i \in 1 .. N : i \in DOMAIN h
  BY <1>2
<1>9. QED
  <2> DEFINE o == F[N]
  <2>1. o \in Seq(S) /\ OtherEntries(h, k) = o /\ DOMAIN o = 1 .. Len(o)
    BY <1>1, <1>7
  <2>2. \A j \in DOMAIN o : \E i \in DOMAIN h : o[j] = h[i] /\ h[i].inc # k
    BY <1>6, <1>7, <1>8
  <2>3. \A i \in DOMAIN h : h[i].inc # k => \E j \in DOMAIN o : o[j] = h[i]
    BY <1>6, <1>7, <1>2
  <2> HIDE DEF o
  <2>4. QED
    BY <2>1, <2>2, <2>3

-----------------------------------------------------------------------------
(* The invariant *)

Entry  == [n : Nat, st : Statuses \cup {"unknown"}, inc : Nat]
Row    == [id : {"down", "up", "new"} \X Nat, kind : {"database", "redis", "test"},
           alert : {"active", "resolved", "test"}, rel : Nat, st : Statuses,
           tries : Nat, hist : Seq(Entry), due : BOOLEAN, token : Nat]
File   == [inc : Nat, st : Statuses, tries : Nat, due : BOOLEAN, hist : Seq(Entry)]
Results == {"sent", "failed", "not_configured", "retryable", "disabled"}
Worker == [pc : Phases, config : BOOLEAN, at : Nat, token : Nat, res : Results \cup {"none"}]

\* A worker that is about to use a row, a result or a file has it.
Offline == {"osend", "ofinish"}

WorkerFits(e, s, fs) ==
  /\ e \in Worker
  /\ e.pc \in {"import", "send", "finish"} => e.at \in DOMAIN s
  /\ e.pc \in {"finish", "ofinish"} => e.res \in Results
  /\ e.pc \in Offline => \A f \in fs : f.st = "sending"

\* The attempt under way, if there is one, is the last entry of the history.
Settled(h)   == \A k \in DOMAIN h : h[k].st # "sending"
Attempted(h) == /\ h # << >> /\ h[Len(h)].st = "sending"
                /\ \A k \in DOMAIN h : k # Len(h) => h[k].st # "sending"

RowFits(r, m) ==
  /\ r \in Row
  /\ IF r.st = "sending"
     THEN /\ Attempted(r.hist)
          /\ r.hist[Len(r.hist)].n = r.token /\ r.hist[Len(r.hist)].inc = 0
     ELSE Settled(r.hist)
  /\ \A k \in DOMAIN r.hist : r.hist[k].inc <= m

FileFits(f, m) ==
  /\ f \in File /\ f.inc \in 1 .. m
  /\ IF f.st = "sending" THEN Attempted(f.hist) ELSE Settled(f.hist)
  /\ \A k \in DOMAIN f.hist : f.hist[k].inc = f.inc

\* An entry merged from a file is still in the file, where the attempt that was
\* merged as unknown may be the one under way, once its worker has left it.
Covers(f, p, e) ==
  \/ \E j \in DOMAIN f.hist : f.hist[j] = e
  \/ /\ f.st = "sending" /\ p \notin Offline
     /\ e = [f.hist[Len(f.hist)] EXCEPT !.st = "unknown"]

Covered(r, f, p) ==
  \A k \in DOMAIN r.hist : r.hist[k].inc = f.inc => Covers(f, p, r.hist[k])

RowsFit  == rows \in Seq(Row) /\ \A n \in DOMAIN rows : RowFits(rows[n], made)
FilesFit ==
  /\ made \in Nat /\ DOMAIN file = Workers
  /\ \A w \in Workers : /\ \A f, g \in file[w] : f = g
                        /\ \A f \in file[w] : FileFits(f, made)
  /\ \A v, w \in Workers : v # w => \A f \in file[v], g \in file[w] : f.inc # g.inc
WorkersFit ==
  wk \in [Workers -> Worker] /\ \A w \in Workers : WorkerFits(wk[w], rows, file[w])
Merges ==
  \A w \in Workers : \A f \in file[w], n \in DOMAIN rows : Covered(rows[n], f, wk[w].pc)

\* Of each kind one alert is active; a recovery names a failure that is resolved,
\* and every failure that is resolved is named by one.
Episodes(s) ==
  /\ \A a, b \in DOMAIN s :
       s[a].alert = "active" /\ s[b].alert = "active" /\ s[a].kind = s[b].kind => a = b
  /\ \A m \in DOMAIN s : s[m].rel # 0 =>
       /\ s[m].rel \in DOMAIN s /\ s[s[m].rel].alert = "resolved" /\ s[s[m].rel].rel = 0
       /\ s[m].alert # "active"
       /\ \A k \in DOMAIN s : s[k].rel = s[m].rel => k = m
  /\ \A n \in DOMAIN s :
       s[n].rel = 0 /\ s[n].alert = "resolved" => \E m \in DOMAIN s : s[m].rel = n

\* While notifications are off: the requests made since, and the workers whose
\* cycle read the settings before and that may still make one.
Stale(p) == {w \in Workers : p[w].config /\ p[w].pc # "finish"}
OffFits ==
  /\ on \in BOOLEAN /\ late \in Nat
  /\ IF on THEN late = 0 ELSE late + Cardinality(Stale(wk)) <= Cardinality(Workers)

OutboxInv == RowsFit /\ FilesFit /\ WorkersFit /\ Merges /\ Episodes(rows) /\ OffFits

-----------------------------------------------------------------------------
(* Histories *)

\* Closing changes the status of the last entry.
LEMMA ClosedEntry ==
  ASSUME NEW h \in Seq(Entry), NEW v \in Statuses \cup {"unknown"}
  PROVE  /\ Closed(h, v) \in Seq(Entry) /\ Len(Closed(h, v)) = Len(h)
         /\ DOMAIN Closed(h, v) = DOMAIN h
         /\ \A k \in DOMAIN h : k # Len(h) => Closed(h, v)[k] = h[k]
         /\ h # << >> => /\ Len(h) \in DOMAIN h /\ h[Len(h)] \in Entry
                         /\ Closed(h, v)[Len(h)] = [h[Len(h)] EXCEPT !.st = v]
<1>1. CASE h = << >>
  BY <1>1 DEF Closed
<1>2. CASE h # << >>
  <2> DEFINE e == [h[Len(h)] EXCEPT !.st = v]
  <2>1. Len(h) \in DOMAIN h /\ h[Len(h)] \in Entry
    BY <1>2
  <2>2. e \in Entry
    BY <2>1 DEF Entry
  <2> HIDE DEF e
  <2>3. Closed(h, v) = [h EXCEPT ![Len(h)] = e]
    BY <1>2, <2>1 DEF Closed, e
  <2>4. QED
    BY <1>2, <2>1, <2>2, <2>3 DEF e
<1>3. QED
  BY <1>1, <1>2

\* A history in which the last attempt is over is settled.
LEMMA ClosedSettles ==
  ASSUME NEW h \in Seq(Entry), NEW v \in Statuses \cup {"unknown"}, v # "sending",
         Attempted(h) \/ Settled(h)
  PROVE  Settled(Closed(h, v))
<1>1. CASE h = << >>
  BY <1>1 DEF Closed, Settled
<1>2. CASE h # << >>
  <2>1. Closed(h, v)[Len(h)].st = v
    <3>1. h[Len(h)] \in Entry /\ Closed(h, v)[Len(h)] = [h[Len(h)] EXCEPT !.st = v]
      BY <1>2, ClosedEntry
    <3>2. QED
      BY <3>1 DEF Entry
  <2>2. \A k \in DOMAIN h : k # Len(h) => Closed(h, v)[k].st # "sending"
    <3>1. \A k \in DOMAIN h : k # Len(h) => Closed(h, v)[k] = h[k]
      BY ClosedEntry
    <3>2. \A k \in DOMAIN h : k # Len(h) => h[k].st # "sending"
      BY DEF Attempted, Settled
    <3>3. QED
      BY ONLY <3>1, <3>2
  <2>3. QED
    <3>1. DOMAIN Closed(h, v) = DOMAIN h
      BY ClosedEntry
    <3>2. \A k \in DOMAIN h : Closed(h, v)[k].st # "sending"
      BY <2>1, <2>2
    <3>3. QED
      BY <3>1, <3>2 DEF Settled
<1>3. QED
  BY <1>1, <1>2

\* A new attempt is the last entry.
Extends(o, h, e) ==
  /\ o \in Seq(Entry) /\ Len(o) = Len(h) + 1 /\ Len(h) \in Nat
  /\ DOMAIN h = 1 .. Len(h) /\ DOMAIN o = 1 .. (Len(h) + 1)
  /\ \A k \in DOMAIN h : o[k] = h[k]
  /\ o[Len(h) + 1] = e

LEMMA OpenedEntry ==
  ASSUME NEW h \in Seq(Entry), NEW n \in Nat, NEW i \in Nat
  PROVE  Extends(Opened(h, n, i), h, [n |-> n, st |-> "sending", inc |-> i])
<1>1. [n |-> n, st |-> "sending", inc |-> i] \in Entry
  BY DEF Entry, Statuses
<1>2. QED
  BY <1>1 DEF Opened, Extends

LEMMA OpenedAttempts ==
  ASSUME NEW h \in Seq(Entry), NEW n \in Nat, NEW i \in Nat, Settled(h)
  PROVE  Attempted(Opened(h, n, i))
<1> DEFINE o == Opened(h, n, i)
<1>1. /\ o \in Seq(Entry) /\ Len(o) = Len(h) + 1 /\ Len(h) \in Nat /\ DOMAIN h = 1 .. Len(h)
      /\ DOMAIN o = 1 .. (Len(h) + 1) /\ o[Len(o)].st = "sending"
      /\ \A k \in DOMAIN h : o[k] = h[k]
  <2>1. Extends(o, h, [n |-> n, st |-> "sending", inc |-> i])
    BY OpenedEntry
  <2> HIDE DEF o
  <2>2. QED
    BY <2>1 DEF Extends
<1> HIDE DEF o
<1>2. o # << >>
  BY <1>1
<1>3. \A k \in DOMAIN o : k # Len(o) => k \in DOMAIN h
  BY <1>1
<1>4. Attempted(o)
  BY <1>1, <1>2, <1>3 DEF Attempted, Settled
<1>5. QED
  BY <1>4 DEF o
-----------------------------------------------------------------------------
(* One worker moves *)

Out == [Idle EXCEPT !.pc = "outage"]
Off == [Idle EXCEPT !.pc = "off"]

LEMMA IdleWorker ==
  ASSUME NEW s, NEW fs
  PROVE  /\ WorkerFits(Idle, s, fs) /\ WorkerFits(Out, s, fs) /\ WorkerFits(Off, s, fs)
         /\ ~Idle.config /\ ~Out.config /\ ~Off.config
         /\ Idle.pc \notin Offline /\ Out.pc \notin Offline /\ Off.pc \notin Offline
BY DEF WorkerFits, Idle, Out, Off, Worker, Phases, Offline, Results

\* A transaction answers, or the worker takes it for an outage.
LEMMA AnswersOrNot ==
  ASSUME NEW w \in Workers, NEW next, Answers(w, next)
  PROVE  wk' = [wk EXCEPT ![w] = next] \/ wk' = [wk EXCEPT ![w] = Out]
BY DEF Answers, Out

LEMMA WorkerMoves ==
  ASSUME WorkersFit, NEW w \in Workers, NEW e \in Worker, wk' = [wk EXCEPT ![w] = e]
  PROVE  /\ wk' \in [Workers -> Worker] /\ wk'[w] = e
         /\ \A v \in Workers : v # w => wk'[v] = wk[v]
BY DEF WorkersFit

LEMMA WorkersKept ==
  ASSUME WorkersFit, NEW w \in Workers, NEW e, WorkerFits(e, rows', file'[w]),
         wk' = [wk EXCEPT ![w] = e], DOMAIN rows \subseteq DOMAIN rows',
         \A v \in Workers : v # w => file'[v] = file[v]
  PROVE  WorkersFit'
<1>1. e \in Worker
  BY DEF WorkerFits
<1>2. /\ wk' \in [Workers -> Worker] /\ wk'[w] = e
      /\ \A v \in Workers : v # w => wk'[v] = wk[v]
  BY <1>1, WorkerMoves
<1>3. ASSUME NEW v \in Workers PROVE WorkerFits(wk'[v], rows', file'[v])
  <2>1. CASE v = w
    BY <1>2, <2>1
  <2>2. CASE v # w
    <3>1. WorkerFits(wk[v], rows, file[v]) /\ wk'[v] = wk[v] /\ file'[v] = file[v]
      BY <1>2, <2>2 DEF WorkersFit
    <3>2. QED
      BY <3>1 DEF WorkerFits
  <2>3. QED
    BY <2>1, <2>2
<1>4. QED
  BY <1>2, <1>3 DEF WorkersFit

\* No worker becomes one that may still send what was turned off.
LEMMA OffKept ==
  ASSUME WorkersFit, OffFits, NEW w \in Workers, NEW e \in Worker,
         wk' = [wk EXCEPT ![w] = e], UNCHANGED on, UNCHANGED late,
         e.config /\ e.pc # "finish" => on \/ (wk[w].config /\ wk[w].pc # "finish")
  PROVE  OffFits'
<1>1. CASE on
  BY <1>1 DEF OffFits
<1>2. CASE ~on
  <2>1. Stale(wk') \subseteq Stale(wk) /\ Stale(wk) \subseteq Workers
    BY <1>2, WorkerMoves DEF Stale
  <2>2. IsFiniteSet(Stale(wk)) /\ IsFiniteSet(Workers)
    BY <2>1, OutboxAssumption, FS_Subset DEF OutboxAssumption
  <2>3. /\ Cardinality(Stale(wk')) <= Cardinality(Stale(wk))
        /\ Cardinality(Stale(wk')) \in Nat /\ Cardinality(Stale(wk)) \in Nat
        /\ Cardinality(Workers) \in Nat
    BY <2>1, <2>2, FS_Subset, FS_CardinalityType
  <2>4. late \in Nat /\ late + Cardinality(Stale(wk)) <= Cardinality(Workers)
    BY <1>2 DEF OffFits
  <2>5. late + Cardinality(Stale(wk')) <= Cardinality(Workers)
    BY <2>3, <2>4
  <2>6. QED
    BY <1>2, <2>5 DEF OffFits
<1>3. QED
  BY <1>1, <1>2 DEF OffFits

\* What was merged stays covered while no history changes.
LEMMA MergesKept ==
  ASSUME WorkersFit, Merges, NEW w \in Workers, NEW e \in Worker,
         wk' = [wk EXCEPT ![w] = e], UNCHANGED file,
         e.pc \in Offline => wk[w].pc \in Offline,
         \A n \in DOMAIN rows' :
           \/ n \in DOMAIN rows /\ rows'[n].hist = rows[n].hist
           \/ rows'[n].hist = << >>
  PROVE  Merges'
<1> SUFFICES ASSUME NEW v \in Workers, NEW f \in file[v], NEW n \in DOMAIN rows'
             PROVE  Covered(rows'[n], f, wk'[v].pc)
  BY DEF Merges
<1>1. CASE rows'[n].hist = << >>
  BY <1>1 DEF Covered
<1>2. CASE n \in DOMAIN rows /\ rows'[n].hist = rows[n].hist
  <2>1. Covered(rows[n], f, wk[v].pc)
    BY <1>2 DEF Merges
  <2>2. wk'[v].pc \in Offline => wk[v].pc \in Offline
    BY WorkerMoves
  <2>3. QED
    BY <1>2, <2>1, <2>2 DEF Covered, Covers
<1>3. QED
  BY <1>1, <1>2

LEMMA QuietMove ==
  ASSUME OutboxInv, NEW w \in Workers, NEW e, WorkerFits(e, rows, file[w]),
         wk' = [wk EXCEPT ![w] = e], UNCHANGED <<rows, file, on, made, late>>,
         e.pc \in Offline => wk[w].pc \in Offline,
         e.config /\ e.pc # "finish" => on \/ (wk[w].config /\ wk[w].pc # "finish")
  PROVE  OutboxInv'
<1>1. e \in Worker /\ WorkersFit /\ Merges /\ OffFits
  BY DEF WorkerFits, OutboxInv
<1>2. WorkersFit'
  BY <1>1, WorkersKept
<1>3. OffFits'
  BY <1>1, OffKept
<1>4. Merges'
  BY <1>1, MergesKept
<1>5. RowsFit' /\ FilesFit' /\ Episodes(rows)'
  BY DEF OutboxInv, RowsFit, FilesFit
<1>6. QED
  BY <1>2, <1>3, <1>4, <1>5 DEF OutboxInv

LEMMA QuietAnswer ==
  ASSUME OutboxInv, NEW w \in Workers, NEW e, WorkerFits(e, rows, file[w]),
         Answers(w, e), UNCHANGED <<rows, file, on, made, late>>, e.pc \notin Offline,
         e.config /\ e.pc # "finish" => on \/ (wk[w].config /\ wk[w].pc # "finish")
  PROVE  OutboxInv'
<1>1. CASE wk' = [wk EXCEPT ![w] = e]
  BY <1>1, QuietMove
<1>2. CASE wk' = [wk EXCEPT ![w] = Out]
  BY <1>2, QuietMove, IdleWorker
<1>3. QED
  BY <1>1, <1>2, AnswersOrNot
-----------------------------------------------------------------------------
(* Steps that change no row and no file *)

LEMMA WorkerHas ==
  ASSUME OutboxInv, NEW w \in Workers
  PROVE  wk[w] \in Worker /\ WorkerFits(wk[w], rows, file[w]) /\ on \in BOOLEAN
BY DEF OutboxInv, WorkersFit, OffFits

LEMMA AfterHealthFits ==
  ASSUME OutboxInv, NEW w \in Workers, wk[w].pc = "health", NEW s, NEW fs
  PROVE  /\ WorkerFits(AfterHealth(w), s, fs) /\ AfterHealth(w).pc \notin Offline
         /\ AfterHealth(w).config => wk[w].config
<1>1. wk[w] \in Worker
  BY WorkerHas
<1>2. CASE w \in HealthOnly
  BY <1>2, IdleWorker DEF AfterHealth
<1>3. CASE w \notin HealthOnly
  BY <1>1, <1>3 DEF AfterHealth, WorkerFits, Worker, Phases, Offline
<1>4. QED
  BY <1>2, <1>3

LEMMA ReadConfigurationKeeps ==
  ASSUME OutboxInv, NEW w \in Workers, ReadConfiguration(w)
  PROVE  OutboxInv'
<1> DEFINE e == [Idle EXCEPT !.config = on, !.pc = IF file[w] = {} THEN "health" ELSE "report"]
<1>1. Answers(w, e) /\ UNCHANGED <<rows, file, on, made, late>>
  BY DEF ReadConfiguration
<1>2. WorkerFits(e, rows, file[w]) /\ e.pc \notin Offline /\ (e.config => on)
  BY WorkerHas DEF WorkerFits, Worker, Phases, Offline, Idle
<1> HIDE DEF e
<1>3. QED
  BY <1>1, <1>2, QuietAnswer

LEMMA NothingToSendKeeps ==
  ASSUME OutboxInv, NEW w \in Workers, NothingToSend(w)
  PROVE  OutboxInv'
<1>1. Answers(w, Idle) /\ UNCHANGED <<rows, file, on, made, late>>
  BY DEF NothingToSend
<1>2. QED
  BY <1>1, IdleWorker, QuietAnswer

LEMMA CycleEndsKeeps ==
  ASSUME OutboxInv, NEW w \in Workers,
         CycleFails(w) \/ NothingOffline(w) \/ DbFails(w) \/ Crash(w) \/ Restart(w)
  PROVE  OutboxInv'
<1>1. UNCHANGED <<rows, file, on, made, late>>
  BY DEF CycleFails, NothingOffline, DbFails, Crash, Restart
<1>2. PICK e \in {Idle, Out, Off} : wk' = [wk EXCEPT ![w] = e]
  <2>1. CASE DbFails(w)
    BY <2>1 DEF DbFails, Out
  <2>2. CASE Crash(w)
    BY <2>2 DEF Crash, Off
  <2>3. CASE CycleFails(w)
    BY <2>3 DEF CycleFails
  <2>4. CASE NothingOffline(w)
    BY <2>4 DEF NothingOffline, Goes
  <2>5. CASE Restart(w)
    BY <2>5 DEF Restart, Goes
  <2>6. QED
    BY <2>1, <2>2, <2>3, <2>4, <2>5
<1>3. WorkerFits(e, rows, file[w]) /\ e.pc \notin Offline /\ ~e.config
  BY IdleWorker
<1>4. QED
  BY <1>1, <1>2, <1>3, QuietMove

LEMMA NoHealthDueKeeps ==
  ASSUME OutboxInv, NEW w \in Workers, NoHealthDue(w)
  PROVE  OutboxInv'
<1> DEFINE e == AfterHealth(w)
<1>1. wk[w].pc = "health" /\ wk' = [wk EXCEPT ![w] = e] /\ UNCHANGED <<rows, file, on, made, late>>
  BY DEF NoHealthDue, Goes
<1>2. WorkerFits(e, rows, file[w]) /\ e.pc \notin Offline /\ (e.config => wk[w].config)
  BY <1>1, AfterHealthFits
<1> HIDE DEF e
<1>3. QED
  BY <1>1, <1>2, QuietMove

LEMMA SendDisabledKeeps ==
  ASSUME OutboxInv, NEW w \in Workers, SendDisabled(w)
  PROVE  OutboxInv'
<1> DEFINE e == [wk[w] EXCEPT !.pc = "finish", !.res = "disabled"]
<1>1. wk[w].pc = "send" /\ wk' = [wk EXCEPT ![w] = e] /\ UNCHANGED <<rows, file, on, made, late>>
  BY DEF SendDisabled, Goes
<1>2. wk[w] \in Worker /\ WorkerFits(wk[w], rows, file[w])
  BY WorkerHas
<1>3. WorkerFits(e, rows, file[w]) /\ e.pc = "finish"
  BY <1>1, <1>2 DEF WorkerFits, Worker, Phases, Offline, Results
<1>4. e.pc \notin Offline
  BY <1>3 DEF Offline
<1> HIDE DEF e
<1>5. QED
  BY <1>1, <1>3, <1>4, QuietMove

LEMMA ReadIncidentKeeps ==
  ASSUME OutboxInv, NEW w \in Workers, ReadIncident(w)
  PROVE  OutboxInv'
<1> DEFINE e == [wk[w] EXCEPT !.pc = "opened"]
<1>1. wk[w].pc = "outage" /\ wk' = [wk EXCEPT ![w] = e] /\ UNCHANGED <<rows, file, on, made, late>>
  BY DEF ReadIncident, Goes
<1>2. wk[w] \in Worker
  BY WorkerHas
<1>3. WorkerFits(e, rows, file[w]) /\ e.pc \notin Offline /\ (e.config => wk[w].config)
  BY <1>2 DEF WorkerFits, Worker, Phases, Offline
<1> HIDE DEF e
<1>4. QED
  BY <1>1, <1>3, QuietMove

LEMMA SendOfflineKeeps ==
  ASSUME OutboxInv, NEW w \in Workers, SendOffline(w)
  PROVE  OutboxInv'
<1>1. PICK res \in Outcomes : wk' = [wk EXCEPT ![w] = [wk[w] EXCEPT !.pc = "ofinish", !.res = res]]
  BY DEF SendOffline, Goes
<1> DEFINE e == [wk[w] EXCEPT !.pc = "ofinish", !.res = res]
<1>2. wk[w].pc = "osend" /\ UNCHANGED <<rows, file, on, made, late>>
  BY DEF SendOffline
<1>3. wk[w] \in Worker /\ WorkerFits(wk[w], rows, file[w])
  BY WorkerHas
<1>4. res \in Results
  BY OutboxAssumption DEF OutboxAssumption, Results
<1>5. WorkerFits(e, rows, file[w]) /\ e.pc # "finish" /\ (e.config => wk[w].config)
  BY <1>2, <1>3, <1>4 DEF WorkerFits, Worker, Phases, Offline
<1>6. wk[w].pc \in Offline
  BY <1>2 DEF Offline
<1>7. wk' = [wk EXCEPT ![w] = e]
  BY <1>1
<1> HIDE DEF e
<1>8. QED
  BY <1>2, <1>5, <1>6, <1>7, QuietMove

\* A request while notifications are off is of a cycle that read them on, and
\* the worker makes no other in that cycle.
LEMMA SendTelegramKeeps ==
  ASSUME OutboxInv, NEW w \in Workers, SendTelegram(w)
  PROVE  OutboxInv'
<1> DEFINE r == rows[wk[w].at]
<1>1. PICK res \in Outcomes :
        /\ wk' = [wk EXCEPT ![w] = [wk[w] EXCEPT !.pc = "finish", !.res = res]]
        /\ late' = IF on \/ r.kind = "test" \/ res = "not_configured" THEN late ELSE late + 1
  BY DEF SendTelegram, Goes
<1> DEFINE e == [wk[w] EXCEPT !.pc = "finish", !.res = res]
<1>2. wk[w].pc = "send" /\ (wk[w].config \/ r.kind = "test") /\ UNCHANGED <<rows, file, on, made>>
  BY DEF SendTelegram
<1>3. wk[w] \in Worker /\ WorkerFits(wk[w], rows, file[w])
  BY WorkerHas
<1>4. res \in Results
  BY OutboxAssumption DEF OutboxAssumption, Results
<1>5. WorkerFits(e, rows, file[w]) /\ e.pc = "finish" /\ e \in Worker
  BY <1>2, <1>3, <1>4 DEF WorkerFits, Worker, Phases, Offline
<1>6. wk' = [wk EXCEPT ![w] = e] /\ e.pc \notin Offline
  BY <1>1, <1>5 DEF Offline
<1> HIDE DEF e
<1>7. WorkersFit /\ Merges /\ OffFits
  BY DEF OutboxInv
<1>8. WorkersFit' /\ Merges'
  BY <1>2, <1>5, <1>6, <1>7, WorkersKept, MergesKept
<1>9. RowsFit' /\ FilesFit' /\ Episodes(rows)'
  BY <1>2 DEF OutboxInv, RowsFit, FilesFit
<1>10. OffFits'
  <2>1. CASE late' = late
    BY <1>2, <1>5, <1>6, <1>7, <2>1, OffKept
  <2>2. CASE ~on /\ r.kind # "test" /\ late' = late + 1
    <3>1. w \in Stale(wk)
      BY <1>2, <2>2 DEF Stale
    <3>2. Stale(wk') \subseteq Stale(wk) \ {w} /\ Stale(wk) \subseteq Workers
      <4>1. wk'[w].pc = "finish" /\ \A v \in Workers : v # w => wk'[v] = wk[v]
        BY <1>5, <1>6, <1>7, WorkerMoves
      <4>2. QED
        BY <4>1 DEF Stale
    <3>3. IsFiniteSet(Stale(wk)) /\ IsFiniteSet(Workers)
      BY <3>2, OutboxAssumption, FS_Subset DEF OutboxAssumption
    <3>4. /\ IsFiniteSet(Stale(wk) \ {w})
          /\ Cardinality(Stale(wk) \ {w}) = Cardinality(Stale(wk)) - 1
      BY <3>1, <3>3, FS_RemoveElement
    <3>5. /\ Cardinality(Stale(wk')) <= Cardinality(Stale(wk) \ {w})
          /\ IsFiniteSet(Stale(wk'))
      BY <3>2, <3>4, FS_Subset
    <3>6. /\ Cardinality(Stale(wk')) \in Nat /\ Cardinality(Stale(wk)) \in Nat
          /\ Cardinality(Workers) \in Nat
      BY <3>3, <3>5, FS_CardinalityType
    <3>7. late \in Nat /\ late + Cardinality(Stale(wk)) <= Cardinality(Workers)
      BY <1>7, <2>2 DEF OffFits
    <3>8. late' \in Nat /\ late' + Cardinality(Stale(wk')) <= Cardinality(Workers)
      BY <2>2, <3>4, <3>5, <3>6, <3>7
    <3>9. QED
      BY <1>2, <1>7, <2>2, <3>8 DEF OffFits
  <2>3. QED
    BY <1>1, <2>1, <2>2
<1>11. QED
  BY <1>8, <1>9, <1>10 DEF OutboxInv
-----------------------------------------------------------------------------
(* Alerts *)

Ident == {"down", "up", "new"} \X Nat

LEMMA NewRowFits ==
  ASSUME NEW id \in Ident, NEW kind \in {"database", "redis", "test"},
         NEW alert \in {"active", "resolved", "test"}, NEW rel \in Nat, NEW m \in Nat
  PROVE  /\ RowFits(NewRow(id, kind, alert, rel), m)
         /\ NewRow(id, kind, alert, rel).kind = kind /\ NewRow(id, kind, alert, rel).alert = alert
         /\ NewRow(id, kind, alert, rel).rel = rel /\ NewRow(id, kind, alert, rel).hist = << >>
<1>1. << >> \in Seq(Entry) /\ DOMAIN (<< >>) = {}
  OBVIOUS
<1>2. NewRow(id, kind, alert, rel).st \in {"pending", "disabled"}
  BY DEF NewRow
<1>3. NewRow(id, kind, alert, rel) \in Row
  BY <1>1 DEF NewRow, Row, Statuses, Final, Ident
<1>4. /\ NewRow(id, kind, alert, rel).kind = kind /\ NewRow(id, kind, alert, rel).alert = alert
      /\ NewRow(id, kind, alert, rel).rel = rel /\ NewRow(id, kind, alert, rel).hist = << >>
  BY DEF NewRow
<1>5. QED
  BY <1>2, <1>3, <1>4 DEF RowFits, Settled

LEMMA AppendedRow ==
  ASSUME NEW s \in Seq(Row), NEW e \in Row
  PROVE  /\ Append(s, e) \in Seq(Row) /\ DOMAIN s = 1 .. Len(s) /\ Len(s) \in Nat
         /\ DOMAIN Append(s, e) = 1 .. (Len(s) + 1)
         /\ \A n \in DOMAIN s : Append(s, e)[n] = s[n]
         /\ Append(s, e)[Len(s) + 1] = e
OBVIOUS

\* A failure of a kind that has no active alert, or a test.
LEMMA EpisodeBegins ==
  ASSUME NEW s \in Seq(Row), NEW e \in Row, Episodes(s), e.rel = 0,
         \/ e.alert = "test"
         \/ e.alert = "active" /\ \A n \in DOMAIN s : s[n].kind = e.kind => s[n].alert # "active"
  PROVE  Episodes(Append(s, e))
<1> DEFINE t == Append(s, e)
<1>1. /\ DOMAIN s = 1 .. Len(s) /\ Len(s) \in Nat /\ DOMAIN t = 1 .. (Len(s) + 1)
      /\ \A n \in DOMAIN s : t[n] = s[n]
      /\ t[Len(s) + 1] = e
  BY AppendedRow
<1> HIDE DEF t
<1>2. \A n \in DOMAIN t : n \in DOMAIN s \/ n = Len(s) + 1
  BY <1>1
<1>3. DOMAIN s \subseteq DOMAIN t
  BY <1>1
<1>4. \A a, b \in DOMAIN t :
        t[a].alert = "active" /\ t[b].alert = "active" /\ t[a].kind = t[b].kind => a = b
  BY <1>1, <1>2 DEF Episodes
<1>5. \A m \in DOMAIN t : t[m].rel # 0 => m \in DOMAIN s
  BY <1>1, <1>2
<1>6. ASSUME NEW m \in DOMAIN t, t[m].rel # 0
      PROVE  /\ t[m].rel \in DOMAIN t /\ t[t[m].rel].alert = "resolved" /\ t[t[m].rel].rel = 0
             /\ t[m].alert # "active"
             /\ \A k \in DOMAIN t : t[k].rel = t[m].rel => k = m
  <2>1. m \in DOMAIN s /\ t[m] = s[m]
    BY <1>1, <1>5, <1>6
  <2>2. /\ s[m].rel \in DOMAIN s /\ s[s[m].rel].alert = "resolved" /\ s[s[m].rel].rel = 0
        /\ s[m].alert # "active"
        /\ \A k \in DOMAIN s : s[k].rel = s[m].rel => k = m
    BY <2>1, <1>6 DEF Episodes
  <2>3. \A k \in DOMAIN t : t[k].rel = t[m].rel => k = m
    BY <1>1, <1>5, <1>6, <2>1, <2>2
  <2>4. QED
    BY <1>1, <1>3, <2>1, <2>2, <2>3
<1>7. ASSUME NEW n \in DOMAIN t, t[n].rel = 0, t[n].alert = "resolved"
      PROVE  \E m \in DOMAIN t : t[m].rel = n
  <2>1. n \in DOMAIN s /\ t[n] = s[n]
    BY <1>1, <1>2, <1>7
  <2>2. PICK m \in DOMAIN s : s[m].rel = n
    BY <2>1, <1>7 DEF Episodes
  <2>3. QED
    BY <1>1, <1>3, <2>2
<1>8. Episodes(t)
  BY <1>4, <1>6, <1>7 DEF Episodes
<1>9. QED
  BY <1>8 DEF t

\* The active alert is resolved and its recovery recorded.
LEMMA EpisodeEnds ==
  ASSUME NEW s \in Seq(Row), Episodes(s), NEW a \in DOMAIN s, s[a].alert = "active",
         NEW e \in Row, e.alert = "resolved", e.rel = a
  PROVE  /\ Append([s EXCEPT ![a].alert = "resolved"], e) \in Seq(Row)
         /\ Episodes(Append([s EXCEPT ![a].alert = "resolved"], e))
         /\ DOMAIN Append([s EXCEPT ![a].alert = "resolved"], e) = 1 .. (Len(s) + 1)
         /\ \A n \in DOMAIN s : n # a =>
              Append([s EXCEPT ![a].alert = "resolved"], e)[n] = s[n]
         /\ Append([s EXCEPT ![a].alert = "resolved"], e)[a] = [s[a] EXCEPT !.alert = "resolved"]
         /\ Append([s EXCEPT ![a].alert = "resolved"], e)[Len(s) + 1] = e
<1> DEFINE g == [s[a] EXCEPT !.alert = "resolved"]
           p == [s EXCEPT ![a] = g]
           t == Append(p, e)
<1>1. [s EXCEPT ![a].alert = "resolved"] = p
  OBVIOUS
<1>2. s[a] \in Row /\ a \in 1 .. Len(s) /\ Len(s) \in Nat
  OBVIOUS
<1>3. g \in Row /\ g.alert = "resolved" /\ g.kind = s[a].kind /\ g.rel = s[a].rel
  BY <1>2 DEF Row
<1> HIDE DEF g
<1>4. /\ p \in Seq(Row) /\ Len(p) = Len(s) /\ p[a] = g
      /\ \A n \in DOMAIN s : n # a => p[n] = s[n]
  BY <1>2, <1>3
<1> HIDE DEF p
<1>5. /\ t \in Seq(Row) /\ DOMAIN s = 1 .. Len(s) /\ DOMAIN t = 1 .. (Len(s) + 1)
      /\ \A n \in DOMAIN s : n # a => t[n] = s[n]
      /\ t[a] = g /\ t[Len(s) + 1] = e
  <2>1. /\ t \in Seq(Row) /\ DOMAIN p = 1 .. Len(p) /\ DOMAIN t = 1 .. (Len(p) + 1)
        /\ \A n \in DOMAIN p : t[n] = p[n] /\ t[Len(p) + 1] = e
    BY <1>4, AppendedRow
  <2> HIDE DEF t
  <2>2. QED
    BY <1>2, <1>4, <2>1
<1> HIDE DEF t
<1>6. s[a].rel = 0 /\ \A n \in DOMAIN s : s[n].rel # a
  <2>1. a # 0
    BY <1>2
  <2>2. \A n \in DOMAIN s : s[n].rel = a => s[a].alert = "resolved"
    BY <2>1 DEF Episodes
  <2>3. s[a].rel # 0 => s[a].alert # "active"
    BY DEF Episodes
  <2>4. QED
    BY <2>2, <2>3
<1>7. \A n \in DOMAIN t : n \in DOMAIN s \/ n = Len(s) + 1
  BY <1>2, <1>5
<1>8. DOMAIN s \subseteq DOMAIN t /\ Len(s) + 1 \in DOMAIN t /\ Len(s) + 1 \notin DOMAIN s /\ a # 0
  BY <1>2, <1>5
<1>9. \A n \in DOMAIN t : t[n].alert = "active" => n \in DOMAIN s /\ n # a /\ t[n] = s[n]
  BY <1>3, <1>5, <1>7
<1>10. \A x, y \in DOMAIN t :
         t[x].alert = "active" /\ t[y].alert = "active" /\ t[x].kind = t[y].kind => x = y
  BY <1>9 DEF Episodes
<1>11. \A n \in DOMAIN s : t[n].rel = s[n].rel
  BY <1>3, <1>5
<1>12. ASSUME NEW m \in DOMAIN t, t[m].rel # 0
       PROVE  /\ t[m].rel \in DOMAIN t /\ t[t[m].rel].alert = "resolved" /\ t[t[m].rel].rel = 0
              /\ t[m].alert # "active"
              /\ \A k \in DOMAIN t : t[k].rel = t[m].rel => k = m
  <2>1. CASE m = Len(s) + 1
    <3>1. t[m] = e /\ t[m].rel = a
      BY <1>5, <2>1
    <3>2. \A k \in DOMAIN t : t[k].rel = a => k = m
      BY <1>6, <1>7, <1>11, <2>1
    <3>3. QED
      BY <1>3, <1>5, <1>6, <1>8, <1>11, <3>1, <3>2
  <2>2. CASE m # Len(s) + 1
    <3>1. m \in DOMAIN s /\ m # a /\ t[m] = s[m]
      BY <1>5, <1>6, <1>7, <1>11, <1>12, <2>2
    <3>2. /\ s[m].rel \in DOMAIN s /\ s[s[m].rel].alert = "resolved" /\ s[s[m].rel].rel = 0
          /\ s[m].alert # "active"
          /\ \A k \in DOMAIN s : s[k].rel = s[m].rel => k = m
      BY <3>1, <1>12 DEF Episodes
    <3>3. s[m].rel # a
      BY <1>6, <3>1
    <3>4. \A k \in DOMAIN t : t[k].rel = t[m].rel => k = m
      BY <1>5, <1>7, <1>11, <3>1, <3>2, <3>3
    <3>5. t[s[m].rel] = s[s[m].rel]
      BY <1>5, <3>2, <3>3
    <3>6. QED
      BY <1>8, <3>1, <3>2, <3>4, <3>5
  <2>3. QED
    BY <2>1, <2>2
<1>13. ASSUME NEW n \in DOMAIN t, t[n].rel = 0, t[n].alert = "resolved"
       PROVE  \E m \in DOMAIN t : t[m].rel = n
  <2>1. CASE n = a
    BY <1>5, <1>8, <2>1
  <2>2. CASE n # a
    <3>1. n # Len(s) + 1
      BY <1>5, <1>8, <1>13
    <3>2. n \in DOMAIN s /\ t[n] = s[n]
      BY <1>5, <1>7, <2>2, <3>1
    <3>3. PICK m \in DOMAIN s : s[m].rel = n
      BY <3>2, <1>13 DEF Episodes
    <3>4. QED
      BY <1>8, <1>11, <3>3
  <2>3. QED
    BY <2>1, <2>2
<1>14. Episodes(t)
  BY <1>10, <1>12, <1>13 DEF Episodes
<1>15. QED
  BY <1>1, <1>5, <1>14 DEF t, p, g
LEMMA PersistAlertKeeps ==
  ASSUME RowsFit, Episodes(rows), made \in Nat, UNCHANGED made,
         NEW kind \in {"database", "redis"}, NEW id \in Ident, NEW resolved \in BOOLEAN,
         PersistAlert(kind, id, resolved)
  PROVE  /\ RowsFit' /\ Episodes(rows)'
         /\ DOMAIN rows \subseteq DOMAIN rows'
         /\ \A n \in DOMAIN rows : rows'[n].hist = rows[n].hist
         /\ \A n \in DOMAIN rows' : n \in DOMAIN rows \/ rows'[n].hist = << >>
<1>1. rows \in Seq(Row) /\ \A n \in DOMAIN rows : RowFits(rows[n], made)
  BY DEF RowsFit
<1>2. CASE UNCHANGED rows
  BY <1>2 DEF RowsFit
<1>3. CASE /\ ~resolved /\ ActiveRows(kind) = {}
           /\ rows' = Append(rows, NewRow(id, kind, "active", 0))
  <2> DEFINE e == NewRow(id, kind, "active", 0)
  <2>1. e \in Row /\ RowFits(e, made) /\ e.kind = kind /\ e.alert = "active" /\ e.rel = 0
        /\ e.hist = << >>
    BY NewRowFits DEF RowFits
  <2>2. rows' = Append(rows, e)
    BY <1>3
  <2> HIDE DEF e
  <2>3. \A n \in DOMAIN rows : rows[n].kind = e.kind => rows[n].alert # "active"
    BY <1>3, <2>1 DEF ActiveRows
  <2>4. Episodes(Append(rows, e))
    BY <1>1, <2>1, <2>3, EpisodeBegins
  <2>5. /\ rows' \in Seq(Row) /\ DOMAIN rows = 1 .. Len(rows) /\ Len(rows) \in Nat
        /\ DOMAIN rows' = 1 .. (Len(rows) + 1)
        /\ \A n \in DOMAIN rows : rows'[n] = rows[n]
        /\ rows'[Len(rows) + 1] = e
    BY <1>1, <2>1, <2>2, AppendedRow
  <2>6. DOMAIN rows \subseteq DOMAIN rows' /\ \A n \in DOMAIN rows' : n \in DOMAIN rows \/ n = Len(rows) + 1
    BY <2>5
  <2>7. RowsFit'
    BY <1>1, <2>1, <2>5, <2>6 DEF RowsFit
  <2>8. QED
    BY <2>1, <2>2, <2>4, <2>5, <2>6, <2>7
<1>4. ASSUME resolved, NEW a \in ActiveRows(kind),
             rows' = Append([rows EXCEPT ![a].alert = "resolved"], NewRow(id, kind, "resolved", a))
      PROVE  /\ RowsFit' /\ Episodes(rows)'
             /\ DOMAIN rows \subseteq DOMAIN rows'
             /\ \A n \in DOMAIN rows : rows'[n].hist = rows[n].hist
             /\ \A n \in DOMAIN rows' : n \in DOMAIN rows \/ rows'[n].hist = << >>
  <2> DEFINE e == NewRow(id, kind, "resolved", a)
  <2>1. a \in DOMAIN rows /\ rows[a].alert = "active" /\ a \in Nat /\ DOMAIN rows = 1 .. Len(rows)
        /\ Len(rows) \in Nat
    BY <1>1 DEF ActiveRows
  <2>2. e \in Row /\ RowFits(e, made) /\ e.alert = "resolved" /\ e.rel = a /\ e.hist = << >>
    BY <2>1, NewRowFits DEF RowFits
  <2>3. rows' = Append([rows EXCEPT ![a].alert = "resolved"], e)
    BY <1>4
  <2> HIDE DEF e
  <2>4. /\ rows' \in Seq(Row) /\ Episodes(rows') /\ DOMAIN rows' = 1 .. (Len(rows) + 1)
        /\ \A n \in DOMAIN rows : n # a => rows'[n] = rows[n]
        /\ rows'[a] = [rows[a] EXCEPT !.alert = "resolved"]
        /\ rows'[Len(rows) + 1] = e
    <3> DEFINE t == Append([rows EXCEPT ![a].alert = "resolved"], e)
    <3>1. t \in Seq(Row) /\ Episodes(t) /\ DOMAIN t = 1 .. (Len(rows) + 1)
      <4>1. t \in Seq(Row)
        BY <1>1, <2>1, <2>2, EpisodeEnds
      <4>2. Episodes(t)
        BY <1>1, <2>1, <2>2, EpisodeEnds
      <4>3. DOMAIN t = 1 .. (Len(rows) + 1)
        BY <1>1, <2>1, <2>2, EpisodeEnds
      <4>4. QED
        BY <4>1, <4>2, <4>3
    <3>2. /\ \A n \in DOMAIN rows : n # a => t[n] = rows[n]
          /\ t[a] = [rows[a] EXCEPT !.alert = "resolved"]
          /\ t[Len(rows) + 1] = e
      BY <1>1, <2>1, <2>2, EpisodeEnds
    <3>3. rows' = t
      BY <2>3
    <3> HIDE DEF t
    <3>4. QED
      BY <3>1, <3>2, <3>3
  <2>5. DOMAIN rows \subseteq DOMAIN rows' /\ \A n \in DOMAIN rows' : n \in DOMAIN rows \/ n = Len(rows) + 1
    BY <2>1, <2>4
  <2>6. RowFits(rows'[a], made) /\ rows'[a].hist = rows[a].hist
    <3>1. RowFits(rows[a], made) /\ rows[a] \in Row
      BY <1>1, <2>1
    <3>2. /\ rows'[a] \in Row /\ rows'[a].st = rows[a].st /\ rows'[a].hist = rows[a].hist
          /\ rows'[a].token = rows[a].token
      BY <2>4, <3>1 DEF Row
    <3>3. QED
      BY <3>1, <3>2 DEF RowFits
  <2>7. RowsFit'
    BY <1>1, <2>2, <2>4, <2>5, <2>6 DEF RowsFit
  <2>8. QED
    BY <2>2, <2>4, <2>5, <2>6, <2>7
<1>5. QED
  BY <1>2, <1>3, <1>4 DEF PersistAlert

\* The event a failure is answered with is one of the table.
LEMMA EventInTable ==
  ASSUME RowsFit, NEW id \in Ident, PersistAlert("database", id, FALSE)
  PROVE  EventOf(id, "database")' \in DOMAIN rows'
<1>1. \E n \in DOMAIN rows' :
        rows'[n].id = id \/ (rows'[n].kind = "database" /\ rows'[n].alert = "active")
  <2>1. CASE HasRow(id) /\ UNCHANGED rows
    BY <2>1 DEF HasRow
  <2>2. CASE ActiveRows("database") # {} /\ UNCHANGED rows
    BY <2>2 DEF ActiveRows
  <2>3. CASE rows' = Append(rows, NewRow(id, "database", "active", 0))
    <3> DEFINE e == NewRow(id, "database", "active", 0)
    <3>1. e.id = id
      BY DEF NewRow
    <3>2. e \in Row
      BY NewRowFits DEF RowFits
    <3>3. rows' = Append(rows, e)
      BY <2>3
    <3> HIDE DEF e
    <3>4. DOMAIN rows' = 1 .. (Len(rows) + 1) /\ Len(rows) \in Nat /\ rows'[Len(rows) + 1] = e
      BY <3>2, <3>3, AppendedRow DEF RowsFit
    <3>5. Len(rows) + 1 \in DOMAIN rows'
      BY <3>4
    <3>6. QED
      BY <3>1, <3>4, <3>5
  <2>4. QED
    BY <2>1, <2>2, <2>3 DEF PersistAlert
<1>2. QED
  BY <1>1 DEF EventOf, ActiveRows

\* Steps that record an alert and move a worker.
LEMMA AlertMove ==
  ASSUME OutboxInv, NEW w \in Workers, NEW e, WorkerFits(e, rows', file[w]),
         wk' = [wk EXCEPT ![w] = e], UNCHANGED <<file, on, made, late>>, e.pc \notin Offline,
         e.config => wk[w].config, e.config => wk[w].pc # "finish",
         NEW kind \in {"database", "redis"}, NEW id \in Ident, NEW resolved \in BOOLEAN,
         PersistAlert(kind, id, resolved)
  PROVE  OutboxInv'
<1>1. e \in Worker /\ WorkersFit /\ Merges /\ OffFits /\ RowsFit /\ FilesFit /\ made \in Nat
  BY DEF WorkerFits, OutboxInv, FilesFit
<1>2. /\ RowsFit' /\ Episodes(rows)'
      /\ DOMAIN rows \subseteq DOMAIN rows'
      /\ \A n \in DOMAIN rows : rows'[n].hist = rows[n].hist
      /\ \A n \in DOMAIN rows' : n \in DOMAIN rows \/ rows'[n].hist = << >>
  BY <1>1, PersistAlertKeeps DEF OutboxInv
<1>3. WorkersFit'
  BY <1>1, <1>2, WorkersKept
<1>4. OffFits'
  BY <1>1, OffKept
<1>5. Merges'
  BY <1>1, <1>2, MergesKept
<1>6. FilesFit'
  BY <1>1 DEF FilesFit
<1>7. QED
  BY <1>2, <1>3, <1>4, <1>5, <1>6 DEF OutboxInv

LEMMA ReportKeeps ==
  ASSUME OutboxInv, NEW w \in Workers, Report(w)
  PROVE  OutboxInv'
<1>1. PICK f \in file[w] :
        /\ PersistAlert("database", Down(f.inc), FALSE)
        /\ Answers(w, [wk[w] EXCEPT !.pc = "import", !.at = EventOf(Down(f.inc), "database")'])
  BY DEF Report
<1> DEFINE e == [wk[w] EXCEPT !.pc = "import", !.at = EventOf(Down(f.inc), "database")']
<1>2. wk[w].pc = "report" /\ UNCHANGED <<file, on, made, late>>
  BY DEF Report
<1>3. wk[w] \in Worker
  BY WorkerHas
<1>4. Down(f.inc) \in Ident
  BY DEF OutboxInv, FilesFit, FileFits, File, Ident, Down
<1>5. EventOf(Down(f.inc), "database")' \in DOMAIN rows'
  BY <1>1, <1>4, EventInTable DEF OutboxInv
<1>6. DOMAIN rows' \subseteq Nat
  <2>1. rows' \in Seq(Row)
    BY <1>1, <1>2, <1>4, PersistAlertKeeps DEF OutboxInv, RowsFit, FilesFit
  <2>2. QED
    BY <2>1
<1>7. /\ WorkerFits(e, rows', file[w]) /\ e.pc \notin Offline
      /\ (e.config => wk[w].config)
  BY <1>3, <1>5, <1>6 DEF WorkerFits, Worker, Phases, Offline
<1>8. wk' = [wk EXCEPT ![w] = e] \/ wk' = [wk EXCEPT ![w] = Out]
  BY <1>1, AnswersOrNot
<1> HIDE DEF e
<1>9. CASE wk' = [wk EXCEPT ![w] = e]
  BY <1>1, <1>2, <1>4, <1>7, <1>9, AlertMove
<1>10. CASE wk' = [wk EXCEPT ![w] = Out]
  BY <1>1, <1>2, <1>4, <1>10, IdleWorker, AlertMove
<1>11. QED
  BY <1>8, <1>9, <1>10

LEMMA RecoverKeeps ==
  ASSUME OutboxInv, NEW w \in Workers, Recover(w)
  PROVE  OutboxInv'
<1> DEFINE e == [wk[w] EXCEPT !.pc = "unlink"]
<1>1. PICK f \in file[w] : PersistAlert("database", Up(f.inc), TRUE)
  BY DEF Recover
<1>2. wk[w].pc = "recover" /\ Answers(w, e) /\ UNCHANGED <<file, on, made, late>>
  BY DEF Recover
<1>3. wk[w] \in Worker
  BY WorkerHas
<1>4. Up(f.inc) \in Ident
  BY DEF OutboxInv, FilesFit, FileFits, File, Ident, Up
<1>5. WorkerFits(e, rows', file[w]) /\ e.pc \notin Offline /\ (e.config => wk[w].config)
  BY <1>3 DEF WorkerFits, Worker, Phases, Offline
<1>6. wk' = [wk EXCEPT ![w] = e] \/ wk' = [wk EXCEPT ![w] = Out]
  BY <1>2, AnswersOrNot
<1> HIDE DEF e
<1>7. CASE wk' = [wk EXCEPT ![w] = e]
  BY <1>1, <1>2, <1>4, <1>5, <1>7, AlertMove
<1>8. CASE wk' = [wk EXCEPT ![w] = Out]
  BY <1>1, <1>2, <1>4, <1>8, IdleWorker, AlertMove
<1>9. QED
  BY <1>6, <1>7, <1>8

LEMMA CheckRedisKeeps ==
  ASSUME OutboxInv, NEW w \in Workers, CheckRedis(w)
  PROVE  OutboxInv'
<1> DEFINE e == AfterHealth(w)
<1>1. PICK resolved \in BOOLEAN : PersistAlert("redis", New(Len(rows) + 1), resolved)
  BY DEF CheckRedis
<1>2. wk[w].pc = "health" /\ Answers(w, e) /\ UNCHANGED <<file, on, made, late>>
  BY DEF CheckRedis
<1>3. New(Len(rows) + 1) \in Ident
  BY DEF OutboxInv, RowsFit, Ident, New
<1>4. WorkerFits(e, rows', file[w]) /\ e.pc \notin Offline /\ (e.config => wk[w].config)
  BY <1>2, AfterHealthFits
<1>5. wk' = [wk EXCEPT ![w] = e] \/ wk' = [wk EXCEPT ![w] = Out]
  BY <1>2, AnswersOrNot
<1> HIDE DEF e
<1>6. CASE wk' = [wk EXCEPT ![w] = e]
  BY <1>1, <1>2, <1>3, <1>4, <1>6, AlertMove
<1>7. CASE wk' = [wk EXCEPT ![w] = Out]
  BY <1>1, <1>2, <1>3, <1>7, IdleWorker, AlertMove
<1>8. QED
  BY <1>5, <1>6, <1>7
-----------------------------------------------------------------------------
(* Deliveries *)

SameAlert(r, s) == s.kind = r.kind /\ s.alert = r.alert /\ s.rel = r.rel

\* Only entries of the outbox itself are new or changed.
MergedKept(r, s) ==
  \A k \in DOMAIN s.hist : s.hist[k].inc = 0 \/ (k \in DOMAIN r.hist /\ s.hist[k] = r.hist[k])

\* No outcome is changed, and the attempt under way ends as unknown at most.
OutcomesKept(r, s) ==
  \A k \in DOMAIN r.hist :
    /\ k \in DOMAIN s.hist
    /\ IF r.hist[k].st # "sending" THEN s.hist[k] = r.hist[k]
       ELSE s.hist[k].st \in {"sending", "unknown"}

\* A row that ends its attempt under way keeps every outcome.
LEMMA ReclaimedRow ==
  ASSUME NEW m \in Nat, NEW r, RowFits(r, m)
  PROVE  /\ Reclaimed(r) \in Row /\ Settled(Reclaimed(r).hist)
         /\ SameAlert(r, Reclaimed(r)) /\ Reclaimed(r).tries = r.tries
         /\ MergedKept(r, Reclaimed(r)) /\ OutcomesKept(r, Reclaimed(r))
         /\ \A k \in DOMAIN Reclaimed(r).hist : Reclaimed(r).hist[k].inc <= m
<1>1. r \in Row /\ r.hist \in Seq(Entry) /\ \A k \in DOMAIN r.hist : r.hist[k].inc <= m
  BY DEF RowFits, Row
<1>2. CASE r.st # "sending"
  <2>1. Reclaimed(r) = r /\ Settled(r.hist)
    BY <1>2 DEF Reclaimed, RowFits
  <2>2. QED
    BY <1>1, <2>1 DEF SameAlert, MergedKept, OutcomesKept, Settled
<1>3. CASE r.st = "sending"
  <2> DEFINE c == Closed(r.hist, "unknown")
  <2>1. Attempted(r.hist) /\ r.hist[Len(r.hist)].inc = 0 /\ r.hist # << >>
    BY <1>3 DEF RowFits, Attempted
  <2>2. /\ c \in Seq(Entry) /\ DOMAIN c = DOMAIN r.hist /\ Len(r.hist) \in DOMAIN r.hist
        /\ \A k \in DOMAIN r.hist : k # Len(r.hist) => c[k] = r.hist[k]
        /\ c[Len(r.hist)] = [r.hist[Len(r.hist)] EXCEPT !.st = "unknown"]
        /\ r.hist[Len(r.hist)] \in Entry
    BY <1>1, <2>1, ClosedEntry
  <2>3. Settled(c)
    BY <1>1, <2>1, ClosedSettles
  <2> HIDE DEF c
  <2>4. c[Len(r.hist)].inc = 0 /\ c[Len(r.hist)].st = "unknown"
    BY <2>1, <2>2 DEF Entry
  <2> DEFINE s == [r EXCEPT !.hist = c]
  <2>5. Reclaimed(r) = s
    BY <1>3 DEF Reclaimed, c
  <2>6. s \in Row /\ s.hist = c /\ SameAlert(r, s) /\ s.tries = r.tries
    BY <1>1, <2>2 DEF Row, SameAlert
  <2> HIDE DEF s
  <2>7. MergedKept(r, s) /\ \A k \in DOMAIN c : c[k].inc <= m
    <3>1. \A k \in DOMAIN c : k \in DOMAIN r.hist /\ (c[k] = r.hist[k] \/ c[k].inc = 0)
      BY <2>2, <2>4
    <3>2. QED
      BY <1>1, <2>6, <3>1 DEF MergedKept
  <2>8. OutcomesKept(r, s)
    BY <2>1, <2>2, <2>4, <2>6 DEF OutcomesKept, Attempted
  <2>9. QED
    BY <2>3, <2>5, <2>6, <2>7, <2>8
<1>4. QED
  BY <1>2, <1>3

Claimed(r) == [r EXCEPT !.st = "sending", !.tries = r.tries + 1, !.due = FALSE,
                        !.token = r.tries + 1, !.hist = Opened(r.hist, r.tries + 1, 0)]

LEMMA ClaimedRow ==
  ASSUME NEW m \in Nat, NEW r, RowFits(r, m)
  PROVE  /\ RowFits(Claimed(Reclaimed(r)), m) /\ SameAlert(r, Claimed(Reclaimed(r)))
         /\ MergedKept(r, Claimed(Reclaimed(r))) /\ OutcomesKept(r, Claimed(Reclaimed(r)))
<1> DEFINE q == Reclaimed(r)
           o == Opened(q.hist, q.tries + 1, 0)
           s == Claimed(q)
<1>1. /\ q \in Row /\ Settled(q.hist) /\ SameAlert(r, q) /\ q.tries = r.tries
      /\ MergedKept(r, q) /\ OutcomesKept(r, q) /\ \A k \in DOMAIN q.hist : q.hist[k].inc <= m
  BY ReclaimedRow
<1> HIDE DEF q
<1>2. q.hist \in Seq(Entry) /\ q.tries + 1 \in Nat /\ q.tries \in Nat
  BY <1>1 DEF Row
<1>3. Extends(o, q.hist, [n |-> q.tries + 1, st |-> "sending", inc |-> 0])
  BY <1>2, OpenedEntry
<1>4. /\ o \in Seq(Entry) /\ Len(o) = Len(q.hist) + 1
      /\ Len(q.hist) \in Nat /\ DOMAIN q.hist = 1 .. Len(q.hist)
      /\ DOMAIN o = 1 .. (Len(q.hist) + 1)
      /\ o[Len(q.hist) + 1] = [n |-> q.tries + 1, st |-> "sending", inc |-> 0]
      /\ \A k \in DOMAIN q.hist : o[k] = q.hist[k]
  <2> HIDE DEF o
  <2>1. QED
    BY <1>3 DEF Extends
<1>6. Attempted(o)
  BY <1>1, <1>2, OpenedAttempts
<1>7. s = [q EXCEPT !.st = "sending", !.tries = q.tries + 1, !.due = FALSE,
                    !.token = q.tries + 1, !.hist = o]
  BY DEF Claimed
<1> HIDE DEF o, s
<1>8. /\ s \in Row /\ s.hist = o /\ s.st = "sending" /\ s.token = q.tries + 1
      /\ s.kind = q.kind /\ s.alert = q.alert /\ s.rel = q.rel
  BY <1>1, <1>2, <1>4, <1>7 DEF Row, Statuses
<1>9. \A k \in DOMAIN o : k \in DOMAIN q.hist \/ k = Len(q.hist) + 1
  BY <1>4
<1>10. \A k \in DOMAIN o : o[k].inc <= m
  BY <1>1, <1>4, <1>9
<1>11. RowFits(s, m)
  BY <1>4, <1>6, <1>8, <1>10 DEF RowFits
<1>12. MergedKept(r, s)
  BY <1>1, <1>4, <1>8, <1>9 DEF MergedKept
<1>13. OutcomesKept(r, s)
  <2>1. \A k \in DOMAIN q.hist : k \in DOMAIN o
    BY <1>4
  <2>2. QED
    BY <1>1, <1>4, <1>8, <2>1 DEF OutcomesKept
<1>14. SameAlert(r, s)
  BY <1>1, <1>8 DEF SameAlert
<1>15. QED
  BY <1>11, <1>12, <1>13, <1>14 DEF s, q

Exhausted(r) == [Reclaimed(r) EXCEPT !.st = "failed", !.token = 0]

LEMMA ExhaustedRow ==
  ASSUME NEW m \in Nat, NEW r, RowFits(r, m)
  PROVE  /\ RowFits(Exhausted(r), m) /\ SameAlert(r, Exhausted(r))
         /\ MergedKept(r, Exhausted(r)) /\ OutcomesKept(r, Exhausted(r))
<1> DEFINE q == Reclaimed(r)
           s == [q EXCEPT !.st = "failed", !.token = 0]
<1>1. /\ q \in Row /\ Settled(q.hist) /\ SameAlert(r, q)
      /\ MergedKept(r, q) /\ OutcomesKept(r, q) /\ \A k \in DOMAIN q.hist : q.hist[k].inc <= m
  BY ReclaimedRow
<1>2. Exhausted(r) = s
  BY DEF Exhausted
<1> HIDE DEF q
<1>3. /\ s \in Row /\ s.hist = q.hist /\ s.st = "failed"
      /\ s.kind = q.kind /\ s.alert = q.alert /\ s.rel = q.rel
  BY <1>1 DEF Row, Statuses, Final
<1> HIDE DEF s
<1>4. QED
  BY <1>1, <1>2, <1>3 DEF RowFits, SameAlert, MergedKept, OutcomesKept

LEMMA DueRow ==
  ASSUME NEW m \in Nat, NEW r, RowFits(r, m)
  PROVE  /\ RowFits([r EXCEPT !.due = TRUE], m) /\ SameAlert(r, [r EXCEPT !.due = TRUE])
         /\ MergedKept(r, [r EXCEPT !.due = TRUE]) /\ OutcomesKept(r, [r EXCEPT !.due = TRUE])
<1> DEFINE s == [r EXCEPT !.due = TRUE]
<1>1. r \in Row
  BY DEF RowFits
<1>2. /\ s \in Row /\ s.hist = r.hist /\ s.st = r.st /\ s.token = r.token
      /\ s.kind = r.kind /\ s.alert = r.alert /\ s.rel = r.rel
  BY <1>1 DEF Row
<1> HIDE DEF s
<1>3. RowFits(s, m) /\ SameAlert(r, s) /\ MergedKept(r, s) /\ OutcomesKept(r, s)
  BY <1>2 DEF RowFits, SameAlert, MergedKept, OutcomesKept
<1>4. QED
  BY <1>3 DEF s

Finished(r, v) == [r EXCEPT !.st = After(v, r.tries), !.due = FALSE, !.token = 0,
                            !.hist = Closed(r.hist, Recorded(v))]

\* The result of the request closes the attempt under way.
LEMMA FinishedRow ==
  ASSUME NEW m \in Nat, NEW r, RowFits(r, m), r.st = "sending", NEW v \in Results
  PROVE  /\ RowFits(Finished(r, v), m) /\ SameAlert(r, Finished(r, v))
         /\ MergedKept(r, Finished(r, v))
         /\ DOMAIN Finished(r, v).hist = DOMAIN r.hist
         /\ \A k \in DOMAIN r.hist :
              IF r.hist[k].st # "sending" THEN Finished(r, v).hist[k] = r.hist[k]
              ELSE r.hist[k].n = r.token /\ Finished(r, v).hist[k].st = Recorded(v)
<1> DEFINE c == Closed(r.hist, Recorded(v))
           s == Finished(r, v)
<1>1. r \in Row /\ r.hist \in Seq(Entry) /\ \A k \in DOMAIN r.hist : r.hist[k].inc <= m
  BY DEF RowFits, Row
<1>2. /\ Attempted(r.hist) /\ r.hist[Len(r.hist)].inc = 0 /\ r.hist # << >>
      /\ r.hist[Len(r.hist)].n = r.token
  BY DEF RowFits, Attempted
<1>3. Recorded(v) \in Final /\ After(v, r.tries) \in Final \cup {"retrying"}
  BY DEF Recorded, After, Results, Final
<1>4. Recorded(v) \in Statuses \cup {"unknown"} /\ Recorded(v) # "sending"
  BY <1>3 DEF Statuses, Final
<1>5. /\ c \in Seq(Entry) /\ DOMAIN c = DOMAIN r.hist /\ Len(r.hist) \in DOMAIN r.hist
      /\ \A k \in DOMAIN r.hist : k # Len(r.hist) => c[k] = r.hist[k]
      /\ c[Len(r.hist)] = [r.hist[Len(r.hist)] EXCEPT !.st = Recorded(v)]
      /\ r.hist[Len(r.hist)] \in Entry
  BY <1>1, <1>2, <1>4, ClosedEntry
<1>6. Settled(c)
  BY <1>1, <1>2, <1>4, ClosedSettles
<1>7. s = [r EXCEPT !.st = After(v, r.tries), !.due = FALSE, !.token = 0, !.hist = c]
  BY DEF Finished
<1> HIDE DEF c, s
<1>8. After(v, r.tries) \in Statuses /\ After(v, r.tries) # "sending"
  BY <1>3 DEF Statuses, Final
<1>9. /\ s \in Row /\ s.hist = c /\ s.st # "sending"
      /\ s.kind = r.kind /\ s.alert = r.alert /\ s.rel = r.rel
  BY <1>1, <1>5, <1>7, <1>8 DEF Row
<1>10. c[Len(r.hist)].inc = 0 /\ c[Len(r.hist)].st = Recorded(v)
  BY <1>2, <1>5 DEF Entry
<1>11. \A k \in DOMAIN c : c[k].inc <= m
  <2>1. \A k \in DOMAIN c : k \in DOMAIN r.hist /\ (c[k] = r.hist[k] \/ c[k].inc = 0)
    BY <1>5, <1>10
  <2>2. QED
    BY <1>1, <2>1
<1>12. RowFits(s, m)
  BY <1>6, <1>9, <1>11 DEF RowFits
<1>13. MergedKept(r, s)
  BY <1>5, <1>9, <1>10 DEF MergedKept
<1>14. \A k \in DOMAIN r.hist :
         IF r.hist[k].st # "sending" THEN c[k] = r.hist[k]
         ELSE r.hist[k].n = r.token /\ c[k].st = Recorded(v)
  BY <1>2, <1>5, <1>10 DEF Attempted
<1>15. QED
  BY <1>5, <1>9, <1>12, <1>13, <1>14 DEF SameAlert, s
-----------------------------------------------------------------------------
(* Steps that change one delivery *)

\* What OutcomesBelong says of one row.
RowBelongs(r, s, n) ==
  \A k \in DOMAIN r.hist :
    LET old == r.hist[k]
    IN  /\ old.st # "sending" => \E j \in DOMAIN s.hist : s.hist[j] = old
        /\ (/\ old.st = "sending"
            /\ s.hist[k].st \notin {"sending", "unknown"}) =>
             \E w \in Workers :
               /\ wk[w].pc = "finish" /\ wk[w].at = n /\ wk[w].token = old.n
               /\ s.hist[k].st = Recorded(wk[w].res)

Belongs == \A n \in DOMAIN rows : RowBelongs(rows[n], rows'[n], n)

LEMMA KeptBelongs ==
  ASSUME NEW r, NEW s, NEW n, OutcomesKept(r, s)
  PROVE  RowBelongs(r, s, n)
BY DEF RowBelongs, OutcomesKept

\* Rows whose history is the same need no one.
LEMMA SameBelongs ==
  ASSUME \A n \in DOMAIN rows : rows'[n].hist = rows[n].hist
  PROVE  Belongs
BY DEF Belongs, RowBelongs

LEMMA RowReplaced ==
  ASSUME RowsFit, Episodes(rows), UNCHANGED made, NEW n \in DOMAIN rows,
         NEW s, RowFits(s, made), SameAlert(rows[n], s), rows' = [rows EXCEPT ![n] = s]
  PROVE  /\ RowsFit' /\ Episodes(rows)' /\ DOMAIN rows' = DOMAIN rows
         /\ rows'[n] = s /\ \A k \in DOMAIN rows : k # n => rows'[k] = rows[k]
<1>1. rows \in Seq(Row) /\ s \in Row
  BY DEF RowsFit, RowFits
<1>2. /\ rows' \in Seq(Row) /\ DOMAIN rows' = DOMAIN rows
      /\ rows'[n] = s /\ \A k \in DOMAIN rows : k # n => rows'[k] = rows[k]
  BY <1>1
<1>3. RowsFit'
  BY <1>2 DEF RowsFit
<1>4. \A k \in DOMAIN rows : SameAlert(rows[k], rows'[k])
  BY <1>2 DEF SameAlert
<1>5. Episodes(rows')
  BY <1>2, <1>4 DEF Episodes, SameAlert
<1>6. QED
  BY <1>2, <1>3, <1>5

LEMMA MergesReplaced ==
  ASSUME Merges, FilesFit, UNCHANGED file, NEW n \in DOMAIN rows, NEW s,
         MergedKept(rows[n], s), DOMAIN rows' = DOMAIN rows, rows'[n] = s,
         \A k \in DOMAIN rows : k # n => rows'[k] = rows[k],
         \A v \in Workers : wk'[v].pc \in Offline => wk[v].pc \in Offline
  PROVE  Merges'
<1> SUFFICES ASSUME NEW v \in Workers, NEW f \in file[v], NEW k \in DOMAIN rows
             PROVE  Covered(rows'[k], f, wk'[v].pc)
  BY DEF Merges
<1>1. Covered(rows[k], f, wk[v].pc) /\ f.inc # 0
  BY DEF Merges, FilesFit, FileFits
<1>2. \A e : Covers(f, wk[v].pc, e) => Covers(f, wk'[v].pc, e)
  BY DEF Covers
<1>3. MergedKept(rows[k], rows'[k])
  BY DEF MergedKept
<1>4. QED
  BY <1>1, <1>2, <1>3 DEF Covered, MergedKept

\* The worker that changed a row moves on.
LEMMA RowMove ==
  ASSUME OutboxInv, NEW w \in Workers, NEW e, WorkerFits(e, rows, file[w]),
         wk' = [wk EXCEPT ![w] = e], UNCHANGED <<file, on, made, late>>, e.pc \notin Offline,
         e.config => wk[w].config, e.config => wk[w].pc # "finish",
         NEW n \in DOMAIN rows, NEW s, RowFits(s, made), SameAlert(rows[n], s),
         MergedKept(rows[n], s), rows' = [rows EXCEPT ![n] = s]
  PROVE  OutboxInv'
<1>1. e \in Worker /\ WorkersFit /\ Merges /\ OffFits /\ RowsFit /\ FilesFit /\ Episodes(rows)
  BY DEF WorkerFits, OutboxInv
<1>2. /\ RowsFit' /\ Episodes(rows)' /\ DOMAIN rows' = DOMAIN rows
      /\ rows'[n] = s /\ \A k \in DOMAIN rows : k # n => rows'[k] = rows[k]
  BY <1>1, RowReplaced
<1>3. WorkerFits(e, rows', file'[w])
  BY <1>2 DEF WorkerFits
<1>4. WorkersFit'
  BY <1>1, <1>2, <1>3, WorkersKept
<1>5. OffFits'
  BY <1>1, OffKept
<1>6. \A v \in Workers : wk'[v].pc \in Offline => wk[v].pc \in Offline
  BY <1>1, WorkerMoves
<1>7. Merges'
  BY <1>1, <1>2, <1>6, MergesReplaced
<1>8. FilesFit'
  BY <1>1 DEF FilesFit
<1>9. QED
  BY <1>2, <1>4, <1>5, <1>7, <1>8 DEF OutboxInv

LEMMA RowMoveBelongs ==
  ASSUME RowsFit, NEW n \in DOMAIN rows, NEW s, rows' = [rows EXCEPT ![n] = s],
         RowBelongs(rows[n], s, n)
  PROVE  Belongs
<1>1. rows'[n] = s /\ \A k \in DOMAIN rows : k # n => rows'[k] = rows[k]
  BY DEF RowsFit
<1>2. ASSUME NEW k \in DOMAIN rows PROVE RowBelongs(rows[k], rows'[k], k)
  <2>1. CASE k = n
    BY <1>1, <2>1
  <2>2. CASE k # n
    BY <1>1, <2>2 DEF RowBelongs
  <2>3. QED
    BY <2>1, <2>2
<1>3. QED
  BY <1>2 DEF Belongs

LEMMA ClaimDeliveryKeeps ==
  ASSUME OutboxInv, NEW w \in Workers, ClaimDelivery(w)
  PROVE  OutboxInv' /\ Belongs
<1>1. PICK n \in DOMAIN rows :
        /\ rows' = [rows EXCEPT ![n] = Claimed(Reclaimed(rows[n]))]
        /\ Answers(w, [wk[w] EXCEPT !.pc = "send", !.at = n, !.token = Reclaimed(rows[n]).tries + 1])
  BY DEF ClaimDelivery, Claimed
<1> DEFINE e == [wk[w] EXCEPT !.pc = "send", !.at = n, !.token = Reclaimed(rows[n]).tries + 1]
           s == Claimed(Reclaimed(rows[n]))
<1>2. wk[w].pc = "claim" /\ UNCHANGED <<file, on, made, late>>
  BY DEF ClaimDelivery
<1>3. wk[w] \in Worker /\ RowFits(rows[n], made) /\ made \in Nat /\ n \in Nat /\ RowsFit
  BY WorkerHas DEF OutboxInv, RowsFit, FilesFit
<1>4. Reclaimed(rows[n]).tries + 1 \in Nat
  BY <1>3, ReclaimedRow DEF Row
<1>5. /\ RowFits(s, made) /\ SameAlert(rows[n], s)
      /\ MergedKept(rows[n], s) /\ OutcomesKept(rows[n], s)
  BY <1>3, ClaimedRow
<1>6. /\ WorkerFits(e, rows, file[w]) /\ e.pc \notin Offline /\ (e.config => wk[w].config)
  BY <1>3, <1>4 DEF WorkerFits, Worker, Phases, Offline
<1>7. rows' = [rows EXCEPT ![n] = s] /\ (wk' = [wk EXCEPT ![w] = e] \/ wk' = [wk EXCEPT ![w] = Out])
  BY <1>1, AnswersOrNot
<1> HIDE DEF e, s
<1>8. Belongs
  BY <1>3, <1>5, <1>7, KeptBelongs, RowMoveBelongs
<1>9. CASE wk' = [wk EXCEPT ![w] = e]
  BY <1>2, <1>5, <1>6, <1>7, <1>8, <1>9, RowMove
<1>10. CASE wk' = [wk EXCEPT ![w] = Out]
  BY <1>2, <1>5, <1>7, <1>8, <1>10, IdleWorker, RowMove
<1>11. QED
  BY <1>7, <1>9, <1>10

LEMMA ClaimExhaustedKeeps ==
  ASSUME OutboxInv, NEW w \in Workers, ClaimExhausted(w)
  PROVE  OutboxInv' /\ Belongs
<1>1. PICK n \in DOMAIN rows : rows' = [rows EXCEPT ![n] = Exhausted(rows[n])]
  BY DEF ClaimExhausted, Exhausted
<1> DEFINE s == Exhausted(rows[n])
<1>2. wk[w].pc = "claim" /\ Answers(w, Idle) /\ UNCHANGED <<file, on, made, late>>
  BY DEF ClaimExhausted
<1>3. RowFits(rows[n], made) /\ made \in Nat /\ RowsFit
  BY DEF OutboxInv, RowsFit, FilesFit
<1>4. /\ RowFits(s, made) /\ SameAlert(rows[n], s)
      /\ MergedKept(rows[n], s) /\ OutcomesKept(rows[n], s)
  BY <1>3, ExhaustedRow
<1>5. rows' = [rows EXCEPT ![n] = s] /\ (wk' = [wk EXCEPT ![w] = Idle] \/ wk' = [wk EXCEPT ![w] = Out])
  BY <1>1, <1>2, AnswersOrNot
<1> HIDE DEF s
<1>6. Belongs
  BY <1>3, <1>4, <1>5, KeptBelongs, RowMoveBelongs
<1>7. QED
  BY <1>2, <1>4, <1>5, <1>6, IdleWorker, RowMove

\* The answer of a worker changes the outcome of its own attempt only: the token
\* of the row is the number of the attempt under way.
LEMMA FinishDeliveryKeeps ==
  ASSUME OutboxInv, NEW w \in Workers, FinishDelivery(w)
  PROVE  OutboxInv' /\ Belongs
<1> DEFINE n == wk[w].at
           s == Finished(rows[n], wk[w].res)
<1>1. /\ wk[w].pc = "finish" /\ Answers(w, Idle) /\ UNCHANGED <<file, on, made, late>>
      /\ IF Fenced(w) THEN rows' = [rows EXCEPT ![n] = s] ELSE UNCHANGED rows
  BY DEF FinishDelivery, Finished
<1>2. WorkerFits(wk[w], rows, file[w])
  BY WorkerHas
<1>3. n \in DOMAIN rows /\ wk[w].res \in Results
  BY <1>1, <1>2 DEF WorkerFits
<1>4. RowFits(rows[n], made) /\ made \in Nat /\ RowsFit
  BY <1>3 DEF OutboxInv, RowsFit, FilesFit
<1>5. CASE ~Fenced(w)
  <2>1. OutboxInv'
    BY <1>1, <1>5, IdleWorker, QuietAnswer
  <2>2. QED
    BY <1>1, <1>5, <2>1, SameBelongs
<1>6. CASE Fenced(w)
  <2>1. rows[n].st = "sending" /\ rows[n].token = wk[w].token
    BY <1>6 DEF Fenced
  <2>2. /\ RowFits(s, made) /\ SameAlert(rows[n], s) /\ MergedKept(rows[n], s)
        /\ DOMAIN s.hist = DOMAIN rows[n].hist
        /\ \A k \in DOMAIN rows[n].hist :
             IF rows[n].hist[k].st # "sending" THEN s.hist[k] = rows[n].hist[k]
             ELSE rows[n].hist[k].n = rows[n].token /\ s.hist[k].st = Recorded(wk[w].res)
    BY <1>3, <1>4, <2>1, FinishedRow
  <2>3. rows' = [rows EXCEPT ![n] = s] /\ (wk' = [wk EXCEPT ![w] = Idle] \/ wk' = [wk EXCEPT ![w] = Out])
    BY <1>1, <1>6, AnswersOrNot
  <2> HIDE DEF s
  <2>4. RowBelongs(rows[n], s, n)
    BY <1>1, <2>1, <2>2 DEF RowBelongs
  <2>5. Belongs
    BY <1>3, <1>4, <2>3, <2>4, RowMoveBelongs
  <2>6. OutboxInv'
    BY <1>1, <1>3, <2>2, <2>3, IdleWorker, RowMove
  <2>7. QED
    BY <2>5, <2>6
<1>7. QED
  BY <1>5, <1>6

LEMMA RowDueKeeps ==
  ASSUME OutboxInv, NEW n, RowDue(n)
  PROVE  OutboxInv' /\ Belongs
<1> DEFINE s == [rows[n] EXCEPT !.due = TRUE]
<1>1. n \in DOMAIN rows /\ rows' = [rows EXCEPT ![n] = s] /\ UNCHANGED <<file, on, wk, made, late>>
  BY DEF RowDue
<1>2. RowFits(rows[n], made) /\ made \in Nat /\ RowsFit /\ Merges /\ FilesFit /\ Episodes(rows)
  BY <1>1 DEF OutboxInv, RowsFit, FilesFit
<1>3. /\ RowFits(s, made) /\ SameAlert(rows[n], s)
      /\ MergedKept(rows[n], s) /\ OutcomesKept(rows[n], s)
  BY <1>2, DueRow
<1> HIDE DEF s
<1>4. /\ RowsFit' /\ Episodes(rows)' /\ DOMAIN rows' = DOMAIN rows
      /\ rows'[n] = s /\ \A k \in DOMAIN rows : k # n => rows'[k] = rows[k]
  BY <1>1, <1>2, <1>3, RowReplaced
<1>5. Merges'
  BY <1>1, <1>2, <1>3, <1>4, MergesReplaced
<1>6. WorkersFit' /\ FilesFit' /\ OffFits'
  BY <1>1, <1>4 DEF OutboxInv, WorkersFit, WorkerFits, FilesFit, OffFits
<1>7. Belongs
  BY <1>1, <1>2, <1>3, KeptBelongs, RowMoveBelongs
<1>8. QED
  BY <1>4, <1>5, <1>6, <1>7 DEF OutboxInv
-----------------------------------------------------------------------------
(* The outage file *)

LEMMA EntryFields ==
  ASSUME NEW h \in Seq(Entry)
  PROVE  \A k \in DOMAIN h : h[k] \in Entry /\ h[k].inc \in Nat /\ h[k].n \in Nat
<1>1. \A k \in DOMAIN h : h[k] \in Entry
  OBVIOUS
<1>2. \A e \in Entry : e.inc \in Nat /\ e.n \in Nat
  BY DEF Entry
<1>3. QED
  BY <1>1, <1>2

\* The history of a file whose attempt under way is given up.
Ended(f) == IF f.st = "sending" THEN Closed(f.hist, "unknown") ELSE f.hist

LEMMA EndedHistory ==
  ASSUME NEW m \in Nat, NEW f, FileFits(f, m)
  PROVE  /\ Ended(f) \in Seq(Entry) /\ Settled(Ended(f))
         /\ \A j \in DOMAIN Ended(f) : Ended(f)[j].inc = f.inc
         /\ \A e, p : e.st # "sending" /\ Covers(f, p, e) => \E j \in DOMAIN Ended(f) : Ended(f)[j] = e
         /\ \A j \in DOMAIN Ended(f) : \A p : p \notin Offline => Covers(f, p, Ended(f)[j])
<1>1. f.hist \in Seq(Entry) /\ \A k \in DOMAIN f.hist : f.hist[k].inc = f.inc
  BY DEF FileFits, File
<1>2. CASE f.st # "sending"
  <2>1. Ended(f) = f.hist /\ Settled(f.hist)
    BY <1>2 DEF Ended, FileFits
  <2>2. QED
    BY <1>1, <1>2, <2>1 DEF Covers
<1>3. CASE f.st = "sending"
  <2> DEFINE c == Closed(f.hist, "unknown")
  <2>1. Attempted(f.hist) /\ f.hist # << >> /\ f.hist[Len(f.hist)].st = "sending" /\ Ended(f) = c
    BY <1>3 DEF FileFits, Attempted, Ended
  <2>2. /\ c \in Seq(Entry) /\ DOMAIN c = DOMAIN f.hist /\ Len(f.hist) \in DOMAIN f.hist
        /\ \A k \in DOMAIN f.hist : k # Len(f.hist) => c[k] = f.hist[k]
        /\ c[Len(f.hist)] = [f.hist[Len(f.hist)] EXCEPT !.st = "unknown"]
        /\ f.hist[Len(f.hist)] \in Entry
    BY <1>1, <2>1, ClosedEntry
  <2>3. Settled(c)
    BY <1>1, <2>1, ClosedSettles
  <2> HIDE DEF c
  <2>4. c[Len(f.hist)].inc = f.inc
    BY <1>1, <2>2 DEF Entry
  <2>5. \A j \in DOMAIN c : c[j].inc = f.inc
    BY <1>1, <2>2, <2>4
  <2>6. ASSUME NEW e, NEW p, e.st # "sending", Covers(f, p, e)
        PROVE  \E j \in DOMAIN c : c[j] = e
    <3>1. CASE e = [f.hist[Len(f.hist)] EXCEPT !.st = "unknown"]
      BY <2>2, <3>1
    <3>2. ASSUME NEW j \in DOMAIN f.hist, f.hist[j] = e PROVE \E i \in DOMAIN c : c[i] = e
      BY <2>1, <2>2, <2>6, <3>2
    <3>3. QED
      BY <2>6, <3>1, <3>2 DEF Covers
  <2>7. ASSUME NEW j \in DOMAIN c, NEW p, p \notin Offline PROVE Covers(f, p, c[j])
    BY <1>3, <2>2, <2>7 DEF Covers
  <2>8. QED
    BY <2>1, <2>2, <2>3, <2>5, <2>6, <2>7
<1>4. QED
  BY <1>2, <1>3

\* What was merged from a file is over.
LEMMA MergedSettled ==
  ASSUME NEW m \in Nat, NEW r, RowFits(r, m), NEW k \in DOMAIN r.hist, r.hist[k].inc # 0
  PROVE  r.hist[k].st # "sending"
BY DEF RowFits, Attempted, Settled

LEMMA FileMove ==
  ASSUME OutboxInv, NEW w \in Workers, NEW e, NEW fs, WorkerFits(e, rows, fs),
         wk' = [wk EXCEPT ![w] = e], file' = [file EXCEPT ![w] = fs],
         UNCHANGED <<rows, on, late>>, made' \in Nat, made <= made',
         e.config /\ e.pc # "finish" => on \/ (wk[w].config /\ wk[w].pc # "finish"),
         \A f, g \in fs : f = g,
         \A f \in fs : FileFits(f, made'),
         \A f \in fs, v \in Workers : v # w => \A g \in file[v] : f.inc # g.inc,
         \A f \in fs, n \in DOMAIN rows : Covered(rows[n], f, e.pc)
  PROVE  OutboxInv'
<1>1. e \in Worker /\ WorkersFit /\ Merges /\ OffFits /\ RowsFit /\ FilesFit /\ Episodes(rows)
      /\ made \in Nat
  BY DEF WorkerFits, OutboxInv, FilesFit
<1>2. DOMAIN file' = Workers /\ file'[w] = fs /\ \A v \in Workers : v # w => file'[v] = file[v]
  BY <1>1 DEF FilesFit
<1>3. wk'[w] = e /\ \A v \in Workers : v # w => wk'[v] = wk[v]
  BY <1>1, WorkerMoves
<1>4. WorkersFit'
  BY <1>1, <1>2, WorkersKept
<1>5. OffFits'
  BY <1>1, OffKept
<1>6. Merges'
  <2> SUFFICES ASSUME NEW v \in Workers, NEW f \in file'[v], NEW n \in DOMAIN rows
               PROVE  Covered(rows[n], f, wk'[v].pc)
    BY DEF Merges
  <2>1. CASE v = w
    BY <1>2, <1>3, <2>1
  <2>2. CASE v # w
    BY <1>1, <1>2, <1>3, <2>2 DEF Merges
  <2>3. QED
    BY <2>1, <2>2
<1>7. RowsFit'
  <2>1. ASSUME NEW n \in DOMAIN rows PROVE RowFits(rows[n], made')
    <3>1. RowFits(rows[n], made)
      BY <1>1 DEF RowsFit
    <3>2. \A k \in DOMAIN rows[n].hist : rows[n].hist[k].inc \in Nat
      <4>1. rows[n].hist \in Seq(Entry)
        BY <3>1 DEF RowFits, Row
      <4>2. QED
        BY <4>1, EntryFields
    <3>3. \A k \in DOMAIN rows[n].hist : rows[n].hist[k].inc <= made'
      BY <1>1, <3>1, <3>2 DEF RowFits
    <3>4. QED
      BY <3>1, <3>3 DEF RowFits
  <2>2. QED
    BY <1>1, <2>1 DEF RowsFit
<1>8. FilesFit'
  <2>1. ASSUME NEW v \in Workers, NEW f \in file'[v] PROVE FileFits(f, made')
    <3>1. CASE v = w
      BY <1>2, <3>1
    <3>2. CASE v # w
      <4>1. FileFits(f, made) /\ f.inc \in 1 .. made
        BY <1>1, <1>2, <3>2 DEF FilesFit, FileFits
      <4>2. f.inc \in 1 .. made'
        BY <1>1, <4>1
      <4>3. QED
        BY <4>1, <4>2 DEF FileFits
    <3>3. QED
      BY <3>1, <3>2
  <2>2. \A v \in Workers : \A f, g \in file'[v] : f = g
    BY <1>1, <1>2 DEF FilesFit
  <2>3. \A u, v \in Workers : u # v => \A f \in file'[u], g \in file'[v] : f.inc # g.inc
    BY <1>1, <1>2 DEF FilesFit
  <2>4. QED
    BY <1>2, <2>1, <2>2, <2>3 DEF FilesFit
<1>9. QED
  BY <1>1, <1>4, <1>5, <1>6, <1>7, <1>8 DEF OutboxInv

\* A file that is written again for the same incident.
LEMMA FileRewritten ==
  ASSUME OutboxInv, NEW w \in Workers, NEW e, NEW f \in file[w], NEW g, WorkerFits(e, rows, {g}),
         wk' = [wk EXCEPT ![w] = e], file' = [file EXCEPT ![w] = {g}],
         UNCHANGED <<rows, on, late, made>>,
         e.config /\ e.pc # "finish" => on \/ (wk[w].config /\ wk[w].pc # "finish"),
         g.inc = f.inc, FileFits(g, made),
         \A x : x.st # "sending" /\ Covers(f, wk[w].pc, x) => Covers(g, e.pc, x)
  PROVE  OutboxInv'
<1>1. FilesFit /\ Merges /\ RowsFit /\ made \in Nat /\ f.inc # 0
  BY DEF OutboxInv, FilesFit, FileFits
<1>2. ASSUME NEW n \in DOMAIN rows PROVE Covered(rows[n], g, e.pc)
  <2>1. Covered(rows[n], f, wk[w].pc) /\ RowFits(rows[n], made)
    BY <1>1 DEF Merges, RowsFit
  <2>2. \A k \in DOMAIN rows[n].hist : rows[n].hist[k].inc = f.inc => rows[n].hist[k].st # "sending"
    BY <1>1, <2>1, MergedSettled
  <2>3. QED
    BY <2>1, <2>2 DEF Covered
<1>3. \A v \in Workers : v # w => \A h \in file[v] : g.inc # h.inc
  BY <1>1 DEF FilesFit
<1>4. made <= made' /\ made' \in Nat
  BY <1>1
<1> DEFINE fs == {g}
<1>5. \A x \in fs : FileFits(x, made')
  OBVIOUS
<1>6. \A x \in fs, n \in DOMAIN rows : Covered(rows[n], x, e.pc)
  BY <1>2
<1>7. \A x \in fs, v \in Workers : v # w => \A h \in file[v] : x.inc # h.inc
  BY <1>3
<1>8. (\A x, y \in fs : x = y) /\ WorkerFits(e, rows, fs) /\ file' = [file EXCEPT ![w] = fs]
  OBVIOUS
<1> HIDE DEF fs
<1>9. QED
  BY <1>4, <1>5, <1>6, <1>7, <1>8, FileMove
LEMMA UnlinkKeeps ==
  ASSUME OutboxInv, NEW w \in Workers, Unlink(w)
  PROVE  OutboxInv'
<1> DEFINE e == [wk[w] EXCEPT !.pc = "health"]
           fs == {}
<1>1. /\ wk[w].pc = "unlink" /\ wk' = [wk EXCEPT ![w] = e] /\ file' = [file EXCEPT ![w] = fs]
      /\ UNCHANGED <<rows, on, made, late>>
  BY DEF Unlink, Goes
<1>2. wk[w] \in Worker /\ made \in Nat
  BY WorkerHas DEF OutboxInv, FilesFit
<1>3. WorkerFits(e, rows, fs) /\ (e.config => wk[w].config)
  BY <1>2 DEF WorkerFits, Worker, Phases, Offline
<1>4. made' \in Nat /\ made <= made'
  BY <1>1, <1>2
<1>5. \A f \in fs : FALSE
  OBVIOUS
<1> HIDE DEF e, fs
<1>6. QED
  BY <1>1, <1>3, <1>4, <1>5, FileMove

LEMMA OpenIncidentKeeps ==
  ASSUME OutboxInv, NEW w \in Workers, OpenIncident(w)
  PROVE  OutboxInv'
<1> DEFINE e == [wk[w] EXCEPT !.pc = "opened"]
           g == [inc |-> made + 1, st |-> "pending", tries |-> 0, due |-> TRUE, hist |-> <<>>]
           fs == {g}
<1>1. /\ wk[w].pc = "outage" /\ wk' = [wk EXCEPT ![w] = e] /\ file' = [file EXCEPT ![w] = fs]
      /\ UNCHANGED <<rows, on, late>> /\ made' = made + 1
  BY DEF OpenIncident, Goes
<1>2. wk[w] \in Worker /\ made \in Nat /\ RowsFit /\ FilesFit
  BY WorkerHas DEF OutboxInv, FilesFit
<1>3. WorkerFits(e, rows, fs) /\ (e.config => wk[w].config)
  BY <1>2 DEF WorkerFits, Worker, Phases, Offline
<1>4. made' \in Nat /\ made <= made'
  BY <1>1, <1>2
<1>5. g \in File /\ g.inc = made + 1 /\ g.st = "pending" /\ g.hist = << >> /\ DOMAIN g.hist = {}
  <2>1. << >> \in Seq(Entry) /\ DOMAIN (<< >>) = {}
    OBVIOUS
  <2>2. QED
    BY <1>2, <2>1 DEF File, Statuses
<1> HIDE DEF g
<1>6. FileFits(g, made')
  BY <1>1, <1>2, <1>5 DEF FileFits, Settled
<1>7. ASSUME NEW n \in DOMAIN rows PROVE Covered(rows[n], g, e.pc)
  <2>1. RowFits(rows[n], made)
    BY <1>2 DEF RowsFit
  <2>2. rows[n].hist \in Seq(Entry)
    BY <2>1 DEF RowFits, Row
  <2>3. \A k \in DOMAIN rows[n].hist : rows[n].hist[k].inc \in Nat /\ rows[n].hist[k].inc <= made
    BY <2>1, <2>2, EntryFields DEF RowFits
  <2>4. QED
    BY <1>2, <1>5, <2>3 DEF Covered
<1>8. \A v \in Workers : v # w => \A h \in file[v] : g.inc # h.inc
  <2>1. \A v \in Workers : \A h \in file[v] : h.inc \in 1 .. made
    BY <1>2 DEF FilesFit, FileFits
  <2>2. QED
    BY <1>2, <1>5, <2>1
<1>9. /\ \A x, y \in fs : x = y
      /\ \A x \in fs : FileFits(x, made')
      /\ \A x \in fs, v \in Workers : v # w => \A h \in file[v] : x.inc # h.inc
      /\ \A x \in fs, n \in DOMAIN rows : Covered(rows[n], x, e.pc)
  BY <1>6, <1>7, <1>8
<1> HIDE DEF e, fs
<1>10. QED
  BY <1>1, <1>3, <1>4, <1>9, FileMove

LEMMA ClaimOfflineKeeps ==
  ASSUME OutboxInv, NEW w \in Workers, ClaimOffline(w)
  PROVE  OutboxInv'
<1> DEFINE e == [wk[w] EXCEPT !.pc = "osend"]
<1>1. wk[w].pc = "opened" /\ wk' = [wk EXCEPT ![w] = e] /\ UNCHANGED <<rows, on, made, late>>
  BY DEF ClaimOffline, Goes
<1>2. PICK f \in file[w] :
        file' = [file EXCEPT ![w] =
          {[f EXCEPT !.st = "sending", !.tries = f.tries + 1, !.due = FALSE,
              !.hist = Opened(Ended(f), f.tries + 1, f.inc)]}]
  BY DEF ClaimOffline, Ended
<1> DEFINE h == Ended(f)
           o == Opened(h, f.tries + 1, f.inc)
           g == [f EXCEPT !.st = "sending", !.tries = f.tries + 1, !.due = FALSE, !.hist = o]
<1>3. wk[w] \in Worker /\ made \in Nat /\ FileFits(f, made)
  BY WorkerHas DEF OutboxInv, FilesFit
<1>4. f \in File /\ f.inc \in Nat /\ f.tries \in Nat /\ f.tries + 1 \in Nat /\ f.inc \in 1 .. made
  BY <1>3 DEF FileFits, File
<1>5. /\ h \in Seq(Entry) /\ Settled(h) /\ \A j \in DOMAIN h : h[j].inc = f.inc
      /\ \A x, p : x.st # "sending" /\ Covers(f, p, x) => \E j \in DOMAIN h : h[j] = x
  BY <1>3, EndedHistory
<1>6. file' = [file EXCEPT ![w] = {g}]
  BY <1>2
<1> HIDE DEF h
<1>7. Extends(o, h, [n |-> f.tries + 1, st |-> "sending", inc |-> f.inc]) /\ Attempted(o)
  BY <1>4, <1>5, OpenedEntry, OpenedAttempts
<1> HIDE DEF o
<1>8. /\ o \in Seq(Entry) /\ (\A j \in DOMAIN h : j \in DOMAIN o /\ o[j] = h[j])
      /\ \A j \in DOMAIN o : o[j].inc = f.inc
  <2>1. /\ o \in Seq(Entry) /\ (\A j \in DOMAIN h : j \in DOMAIN o /\ o[j] = h[j])
        /\ o[Len(h) + 1].inc = f.inc
        /\ \A j \in DOMAIN o : j \in DOMAIN h \/ j = Len(h) + 1
    BY <1>7 DEF Extends
  <2>2. QED
    BY <1>5, <2>1
<1>9. g \in File /\ g.st = "sending" /\ g.inc = f.inc /\ g.hist = o
  BY <1>4, <1>8 DEF File, Statuses
<1> HIDE DEF g
<1>10. FileFits(g, made)
  BY <1>4, <1>7, <1>8, <1>9 DEF FileFits
<1>11. WorkerFits(e, rows, {g}) /\ (e.config => wk[w].config)
  BY <1>3, <1>9 DEF WorkerFits, Worker, Phases, Offline
<1>12. \A x : x.st # "sending" /\ Covers(f, wk[w].pc, x) => Covers(g, e.pc, x)
  BY <1>5, <1>8, <1>9 DEF Covers
<1> HIDE DEF e
<1>13. QED
  BY <1>1, <1>6, <1>9, <1>10, <1>11, <1>12, FileRewritten

LEMMA ExhaustOfflineKeeps ==
  ASSUME OutboxInv, NEW w \in Workers, ExhaustOffline(w)
  PROVE  OutboxInv'
<1>1. wk[w].pc = "opened" /\ wk' = [wk EXCEPT ![w] = Idle] /\ UNCHANGED <<rows, on, made, late>>
  BY DEF ExhaustOffline, Goes
<1>2. PICK f \in file[w] : file' = [file EXCEPT ![w] = {[f EXCEPT !.st = "failed", !.hist = Ended(f)]}]
  BY DEF ExhaustOffline, Ended
<1> DEFINE h == Ended(f)
           g == [f EXCEPT !.st = "failed", !.hist = h]
<1>3. made \in Nat /\ FileFits(f, made)
  BY DEF OutboxInv, FilesFit
<1>4. f \in File /\ f.inc \in 1 .. made
  BY <1>3 DEF FileFits
<1>5. /\ h \in Seq(Entry) /\ Settled(h) /\ \A j \in DOMAIN h : h[j].inc = f.inc
      /\ \A x, p : x.st # "sending" /\ Covers(f, p, x) => \E j \in DOMAIN h : h[j] = x
  BY <1>3, EndedHistory
<1>6. file' = [file EXCEPT ![w] = {g}]
  BY <1>2
<1> HIDE DEF h
<1>7. g \in File /\ g.st = "failed" /\ g.inc = f.inc /\ g.hist = h
  BY <1>4, <1>5 DEF File, Statuses, Final
<1> HIDE DEF g
<1>8. FileFits(g, made)
  BY <1>4, <1>5, <1>7 DEF FileFits
<1>9. \A x : x.st # "sending" /\ Covers(f, wk[w].pc, x) => Covers(g, Idle.pc, x)
  BY <1>5, <1>7 DEF Covers
<1>10. QED
  BY <1>1, <1>6, <1>7, <1>8, <1>9, IdleWorker, FileRewritten

LEMMA FinishOfflineKeeps ==
  ASSUME OutboxInv, NEW w \in Workers, FinishOffline(w)
  PROVE  OutboxInv'
<1>1. wk[w].pc = "ofinish" /\ wk' = [wk EXCEPT ![w] = Idle] /\ UNCHANGED <<rows, on, made, late>>
  BY DEF FinishOffline, Goes
<1>2. PICK f \in file[w] :
        file' = [file EXCEPT ![w] =
          {[f EXCEPT !.st = After(wk[w].res, f.tries), !.due = FALSE,
                     !.hist = Closed(f.hist, Recorded(wk[w].res))]}]
  BY DEF FinishOffline
<1> DEFINE v == wk[w].res
           h == Closed(f.hist, Recorded(v))
           g == [f EXCEPT !.st = After(v, f.tries), !.due = FALSE, !.hist = h]
<1>3. made \in Nat /\ FileFits(f, made) /\ WorkerFits(wk[w], rows, file[w])
  BY WorkerHas DEF OutboxInv, FilesFit
<1>4. f \in File /\ f.inc \in 1 .. made /\ f.st = "sending" /\ v \in Results /\ f.hist \in Seq(Entry)
      /\ \A k \in DOMAIN f.hist : f.hist[k].inc = f.inc
  BY <1>1, <1>3 DEF FileFits, WorkerFits, Offline, File
<1>5. Attempted(f.hist) /\ f.hist # << >> /\ f.hist[Len(f.hist)].st = "sending"
  BY <1>3, <1>4 DEF FileFits, Attempted
<1>6. Recorded(v) \in Final /\ After(v, f.tries) \in Final \cup {"retrying"}
  BY <1>4 DEF Recorded, After, Results, Final
<1>7. /\ Recorded(v) \in Statuses \cup {"unknown"} /\ Recorded(v) # "sending"
      /\ After(v, f.tries) \in Statuses /\ After(v, f.tries) # "sending"
  BY <1>6 DEF Statuses, Final
<1>8. file' = [file EXCEPT ![w] = {g}]
  BY <1>2
<1> HIDE DEF v
<1>9. /\ h \in Seq(Entry) /\ DOMAIN h = DOMAIN f.hist /\ Len(f.hist) \in DOMAIN f.hist
      /\ \A k \in DOMAIN f.hist : k # Len(f.hist) => h[k] = f.hist[k]
      /\ h[Len(f.hist)] = [f.hist[Len(f.hist)] EXCEPT !.st = Recorded(v)]
      /\ f.hist[Len(f.hist)] \in Entry
  BY <1>4, <1>5, <1>7, ClosedEntry
<1>10. Settled(h)
  BY <1>4, <1>5, <1>7, ClosedSettles
<1> HIDE DEF h
<1>11. \A j \in DOMAIN h : h[j].inc = f.inc
  <2>1. h[Len(f.hist)].inc = f.inc
    BY <1>4, <1>9 DEF Entry
  <2>2. QED
    BY <1>4, <1>9, <2>1
<1>12. g \in File /\ g.st # "sending" /\ g.inc = f.inc /\ g.hist = h
  BY <1>4, <1>7, <1>9 DEF File
<1> HIDE DEF g
<1>13. FileFits(g, made)
  BY <1>4, <1>10, <1>11, <1>12 DEF FileFits
<1>14. ASSUME NEW x, x.st # "sending", Covers(f, wk[w].pc, x) PROVE Covers(g, Idle.pc, x)
  <2>1. PICK j \in DOMAIN f.hist : f.hist[j] = x
    BY <1>1, <1>14 DEF Covers, Offline
  <2>2. j # Len(f.hist)
    BY <1>5, <1>14, <2>1
  <2>3. h[j] = x /\ j \in DOMAIN h
    BY <1>9, <2>1, <2>2
  <2>4. QED
    BY <1>12, <2>3 DEF Covers
<1>15. QED
  BY <1>1, <1>8, <1>12, <1>13, <1>14, IdleWorker, FileRewritten

LEMMA FileDueKeeps ==
  ASSUME OutboxInv, NEW w \in Workers, FileDue(w)
  PROVE  OutboxInv'
<1>1. PICK f \in file[w] : file' = [file EXCEPT ![w] = {[f EXCEPT !.due = TRUE]}]
  BY DEF FileDue
<1> DEFINE g == [f EXCEPT !.due = TRUE]
<1>2. UNCHANGED <<rows, on, wk, made, late>>
  BY DEF FileDue
<1>3. made \in Nat /\ FileFits(f, made) /\ WorkerFits(wk[w], rows, file[w]) /\ wk \in [Workers -> Worker]
  BY WorkerHas DEF OutboxInv, FilesFit, WorkersFit
<1>4. g \in File /\ g.st = f.st /\ g.inc = f.inc /\ g.hist = f.hist
  BY <1>3 DEF FileFits, File
<1>5. file' = [file EXCEPT ![w] = {g}]
  BY <1>1
<1> HIDE DEF g
<1>6. FileFits(g, made) /\ WorkerFits(wk[w], rows, {g})
  BY <1>3, <1>4 DEF FileFits, WorkerFits
<1>7. wk' = [wk EXCEPT ![w] = wk[w]]
  BY <1>2, <1>3
<1>8. \A x : Covers(f, wk[w].pc, x) => Covers(g, wk[w].pc, x)
  BY <1>4 DEF Covers
<1>9. QED
  BY <1>2, <1>4, <1>5, <1>6, <1>7, <1>8, FileRewritten
-----------------------------------------------------------------------------
(* The merge of the file into the delivery *)

LEMMA Concatenated ==
  ASSUME NEW g \in Seq(Entry), NEW h \in Seq(Entry)
  PROVE  /\ g \o h \in Seq(Entry)
         /\ \A k \in DOMAIN (g \o h) : \/ \E j \in DOMAIN g : (g \o h)[k] = g[j]
                                       \/ \E j \in DOMAIN h : (g \o h)[k] = h[j]
         /\ \A j \in DOMAIN g : \E k \in DOMAIN (g \o h) : (g \o h)[k] = g[j]
         /\ \A j \in DOMAIN h : \E k \in DOMAIN (g \o h) : (g \o h)[k] = h[j]
<1> DEFINE c == g \o h
<1>1. /\ c \in Seq(Entry) /\ Len(g) \in Nat /\ Len(h) \in Nat
      /\ DOMAIN g = 1 .. Len(g) /\ DOMAIN h = 1 .. Len(h) /\ DOMAIN c = 1 .. (Len(g) + Len(h))
  OBVIOUS
<1>2. \A k \in 1 .. (Len(g) + Len(h)) : c[k] = IF k <= Len(g) THEN g[k] ELSE h[k - Len(g)]
  OBVIOUS
<1> HIDE DEF c
<1>3. \A k \in DOMAIN c : \/ \E j \in DOMAIN g : c[k] = g[j]
                          \/ \E j \in DOMAIN h : c[k] = h[j]
  <2> SUFFICES ASSUME NEW k \in DOMAIN c
               PROVE  (\E j \in DOMAIN g : c[k] = g[j]) \/ (\E j \in DOMAIN h : c[k] = h[j])
    OBVIOUS
  <2>1. CASE k <= Len(g)
    <3>1. k \in DOMAIN g /\ c[k] = g[k]
      BY <1>1, <1>2, <2>1
    <3>2. QED
      BY <3>1
  <2>2. CASE ~(k <= Len(g))
    <3>1. k - Len(g) \in DOMAIN h /\ c[k] = h[k - Len(g)]
      BY <1>1, <1>2, <2>2
    <3>2. QED
      BY <3>1
  <2>3. QED
    BY <2>1, <2>2
<1>4. \A j \in DOMAIN g : j \in DOMAIN c /\ c[j] = g[j]
  BY <1>1, <1>2
<1>5. ASSUME NEW j \in DOMAIN h PROVE \E k \in DOMAIN c : c[k] = h[j]
  <2>1. /\ Len(g) + j \in DOMAIN c /\ ~(Len(g) + j <= Len(g)) /\ (Len(g) + j) - Len(g) = j
    BY <1>1
  <2>2. c[Len(g) + j] = h[j]
    BY <1>1, <1>2, <2>1
  <2>3. QED
    BY <2>1, <2>2
<1>6. /\ \A j \in DOMAIN g : \E k \in DOMAIN c : c[k] = g[j]
      /\ \A j \in DOMAIN h : \E k \in DOMAIN c : c[k] = h[j]
  BY <1>4, <1>5
<1>7. QED
  BY <1>1, <1>3, <1>6 DEF c

LEMMA InterruptedFile ==
  ASSUME NEW m \in Nat, NEW f, FileFits(f, m)
  PROVE  /\ Interrupted(f).hist = Ended(f) /\ Interrupted(f).inc = f.inc
         /\ Interrupted(f).st \in Statuses /\ Interrupted(f).st # "sending"
         /\ Interrupted(f).due \in BOOLEAN /\ Interrupted(f).tries \in Nat
<1>1. f \in File
  BY DEF FileFits
<1>2. CASE f.st # "sending"
  BY <1>1, <1>2 DEF Interrupted, Ended, File
<1>3. CASE f.st = "sending"
  BY <1>1, <1>3 DEF Interrupted, Ended, File, Statuses, Final
<1>4. QED
  BY <1>2, <1>3

\* What the history of the delivery is made of after the merge.
Joins(s, r, f) ==
  /\ \A k \in DOMAIN s.hist :
       \/ \E i \in DOMAIN r.hist : s.hist[k] = r.hist[i] /\ r.hist[i].inc # f.inc
       \/ \E j \in DOMAIN Ended(f) : s.hist[k] = Ended(f)[j]
  /\ \A i \in DOMAIN r.hist :
       r.hist[i].inc # f.inc => \E k \in DOMAIN s.hist : s.hist[k] = r.hist[i]
  /\ \A j \in DOMAIN Ended(f) : \E k \in DOMAIN s.hist : s.hist[k] = Ended(f)[j]

LEMMA MergedRow ==
  ASSUME NEW m \in Nat, NEW r, RowFits(r, m), r.st # "sending", NEW f, FileFits(f, m)
  PROVE  /\ RowFits(Merged(r, Interrupted(f)), m) /\ SameAlert(r, Merged(r, Interrupted(f)))
         /\ Joins(Merged(r, Interrupted(f)), r, f)
<1> DEFINE g == Interrupted(f)
           h == Ended(f)
           o == OtherEntries(r.hist, f.inc)
           c == o \o h
           t == IF g.tries > r.tries THEN g.tries ELSE r.tries
           s == [r EXCEPT !.st = g.st, !.due = g.due, !.tries = t, !.hist = c]
<1>1. /\ g.hist = h /\ g.inc = f.inc /\ g.st \in Statuses /\ g.st # "sending"
      /\ g.due \in BOOLEAN /\ g.tries \in Nat
  BY InterruptedFile
<1>2. /\ r \in Row /\ r.hist \in Seq(Entry) /\ Settled(r.hist)
      /\ \A k \in DOMAIN r.hist : r.hist[k].inc <= m
  BY DEF RowFits, Row
<1>3. /\ h \in Seq(Entry) /\ Settled(h) /\ \A j \in DOMAIN h : h[j].inc = f.inc
  BY EndedHistory
<1>4. f.inc <= m
  BY DEF FileFits
<1>5. /\ o \in Seq(Entry)
      /\ \A j \in DOMAIN o : \E i \in DOMAIN r.hist : o[j] = r.hist[i] /\ r.hist[i].inc # f.inc
      /\ \A i \in DOMAIN r.hist : r.hist[i].inc # f.inc => \E j \in DOMAIN o : o[j] = r.hist[i]
  <2>1. r.hist \in Seq(Entry)
    BY <1>2
  <2>2. QED
    BY <2>1, OtherEntriesKept
<1>6. Merged(r, g) = s
  BY <1>1 DEF Merged
<1> HIDE DEF g, h, o
<1>7. /\ c \in Seq(Entry)
      /\ \A k \in DOMAIN c : (\E j \in DOMAIN o : c[k] = o[j]) \/ (\E j \in DOMAIN h : c[k] = h[j])
      /\ \A j \in DOMAIN o : \E k \in DOMAIN c : c[k] = o[j]
      /\ \A j \in DOMAIN h : \E k \in DOMAIN c : c[k] = h[j]
  BY <1>3, <1>5, Concatenated
<1>8. t \in Nat
  BY <1>1, <1>2 DEF Row
<1> HIDE DEF c, t
<1>9. /\ s \in Row /\ s.hist = c /\ s.st = g.st
      /\ s.kind = r.kind /\ s.alert = r.alert /\ s.rel = r.rel
  BY <1>1, <1>2, <1>7, <1>8 DEF Row
<1> HIDE DEF s
<1>10. \A k \in DOMAIN c :
         \/ \E i \in DOMAIN r.hist : c[k] = r.hist[i] /\ r.hist[i].inc # f.inc
         \/ \E j \in DOMAIN h : c[k] = h[j]
  BY <1>5, <1>7
<1>11. \A i \in DOMAIN r.hist : r.hist[i].inc # f.inc => \E k \in DOMAIN c : c[k] = r.hist[i]
  BY <1>5, <1>7
<1>12. Joins(s, r, f)
  BY <1>7, <1>9, <1>10, <1>11 DEF Joins, h
<1>13. \A k \in DOMAIN c : c[k].st # "sending" /\ c[k].inc <= m
  BY <1>2, <1>3, <1>4, <1>10 DEF Settled
<1>14. RowFits(s, m)
  BY <1>1, <1>9, <1>13 DEF RowFits, Settled
<1>15. SameAlert(r, s)
  BY <1>9 DEF SameAlert
<1>16. QED
  BY <1>6, <1>12, <1>14, <1>15 DEF g

\* The merge loses no outcome: an entry of the incident that an earlier merge
\* brought is still in the file, and the entries of others stay.
LEMMA MergedBelongs ==
  ASSUME NEW m \in Nat, NEW r, RowFits(r, m), r.st # "sending", NEW f, FileFits(f, m),
         NEW p, Covered(r, f, p), NEW s, Joins(s, r, f), NEW n
  PROVE  RowBelongs(r, s, n)
<1>1. \A k \in DOMAIN r.hist : r.hist[k].st # "sending"
  BY DEF RowFits, Settled
<1>2. ASSUME NEW k \in DOMAIN r.hist PROVE \E j \in DOMAIN s.hist : s.hist[j] = r.hist[k]
  <2>1. CASE r.hist[k].inc # f.inc
    BY <2>1 DEF Joins
  <2>2. CASE r.hist[k].inc = f.inc
    <3>1. Covers(f, p, r.hist[k]) /\ r.hist[k].st # "sending"
      BY <1>1, <2>2 DEF Covered
    <3>2. \E j \in DOMAIN Ended(f) : Ended(f)[j] = r.hist[k]
      BY <3>1, EndedHistory
    <3>3. QED
      BY <3>2 DEF Joins
  <2>3. QED
    BY <2>1, <2>2
<1>3. QED
  BY <1>1, <1>2 DEF RowBelongs

LEMMA MergedCovered ==
  ASSUME NEW m \in Nat, NEW r, NEW f, FileFits(f, m), NEW s, Joins(s, r, f),
         NEW g, NEW p, (g = f /\ p \notin Offline) \/ (g.inc # f.inc /\ Covered(r, g, p))
  PROVE  Covered(s, g, p)
<1> SUFFICES ASSUME NEW k \in DOMAIN s.hist, s.hist[k].inc = g.inc
             PROVE  Covers(g, p, s.hist[k])
  BY DEF Covered
<1>1. CASE \E i \in DOMAIN r.hist : s.hist[k] = r.hist[i] /\ r.hist[i].inc # f.inc
  BY <1>1 DEF Covered
<1>2. ASSUME NEW j \in DOMAIN Ended(f), s.hist[k] = Ended(f)[j]
      PROVE  Covers(g, p, s.hist[k])
  <2>1. Ended(f)[j].inc = f.inc /\ \A q : q \notin Offline => Covers(f, q, Ended(f)[j])
    BY EndedHistory
  <2>2. QED
    BY <1>2, <2>1
<1>3. QED
  BY <1>1, <1>2 DEF Joins

LEMMA ImportKeeps ==
  ASSUME OutboxInv, NEW w \in Workers, Import(w)
  PROVE  OutboxInv' /\ Belongs
<1> DEFINE n == wk[w].at
           e == [wk[w] EXCEPT !.pc = "recover", !.at = 0]
<1>1. PICK f \in file[w] :
        rows' = IF Importable(rows[n], f)
                THEN [rows EXCEPT ![n] = Merged(rows[n], Interrupted(f))] ELSE rows
  BY DEF Import
<1> DEFINE s == Merged(rows[n], Interrupted(f))
<1>2. wk[w].pc = "import" /\ Answers(w, e) /\ UNCHANGED <<file, on, made, late>>
  BY DEF Import
<1>3. wk[w] \in Worker /\ WorkerFits(wk[w], rows, file[w])
  BY WorkerHas
<1>4. n \in DOMAIN rows
  BY <1>2, <1>3 DEF WorkerFits
<1>5. /\ \A t, fs : WorkerFits(e, t, fs)
      /\ e.pc \notin Offline /\ (e.config => wk[w].config)
  BY <1>3 DEF WorkerFits, Worker, Phases, Offline
<1>6. /\ RowsFit /\ FilesFit /\ WorkersFit /\ Merges /\ Episodes(rows) /\ OffFits
      /\ made \in Nat /\ RowFits(rows[n], made) /\ FileFits(f, made)
  BY <1>4 DEF OutboxInv, RowsFit, FilesFit
<1> HIDE DEF e
<1>7. CASE ~Importable(rows[n], f)
  <2>1. rows' = rows
    BY <1>1, <1>7
  <2>2. OutboxInv'
    BY <1>2, <1>5, <2>1, QuietAnswer
  <2>3. QED
    BY <2>1, <2>2, SameBelongs
<1>8. CASE Importable(rows[n], f)
  <2>1. rows[n].st # "sending" /\ rows' = [rows EXCEPT ![n] = s]
    BY <1>1, <1>8 DEF Importable
  <2>2. RowFits(s, made) /\ SameAlert(rows[n], s) /\ Joins(s, rows[n], f)
    BY <1>6, <2>1, MergedRow
  <2> HIDE DEF s, n
  <2>3. /\ RowsFit' /\ Episodes(rows)' /\ DOMAIN rows' = DOMAIN rows
        /\ rows'[n] = s /\ \A k \in DOMAIN rows : k # n => rows'[k] = rows[k]
    BY <1>2, <1>4, <1>6, <2>1, <2>2, RowReplaced
  <2>4. Belongs
    <3>1. Covered(rows[n], f, wk[w].pc)
      BY <1>4, <1>6 DEF Merges
    <3>2. RowBelongs(rows[n], s, n)
      BY <1>6, <2>1, <2>2, <3>1, MergedBelongs
    <3>3. QED
      BY <1>4, <1>6, <2>1, <3>2, RowMoveBelongs
  <2>5. ASSUME NEW x \in Worker, wk' = [wk EXCEPT ![w] = x], x.pc \notin Offline,
               x.config => wk[w].config, WorkerFits(x, rows', file'[w])
        PROVE  OutboxInv'
    <3>1. WorkersFit'
      BY <1>2, <1>6, <2>3, <2>5, WorkersKept
    <3>2. OffFits'
      <4>1. x.config /\ x.pc # "finish" => on \/ (wk[w].config /\ wk[w].pc # "finish")
        BY <1>2, <2>5
      <4>2. QED
        BY <1>2, <1>6, <2>5, <4>1, OffKept
    <3>3. Merges'
      <4> SUFFICES ASSUME NEW v \in Workers, NEW g \in file[v], NEW k \in DOMAIN rows
                   PROVE  Covered(rows'[k], g, wk'[v].pc)
        BY <1>2, <2>3 DEF Merges
      <4>1. Covered(rows[k], g, wk[v].pc)
        BY <1>6 DEF Merges
      <4>2. wk'[w] = x /\ \A u \in Workers : u # w => wk'[u] = wk[u]
        BY <1>6, <2>5, WorkerMoves
      <4>3. v = w => g = f
        BY <1>6 DEF FilesFit
      <4>4. v # w => g.inc # f.inc
        BY <1>6 DEF FilesFit
      <4>5. CASE k # n
        <5>1. rows'[k] = rows[k]
          BY <2>3, <4>5
        <5>2. wk'[v].pc \in Offline => wk[v].pc \in Offline
          BY <2>5, <4>2
        <5>3. QED
          BY <4>1, <5>1, <5>2 DEF Covered, Covers
      <4>6. CASE k = n /\ v = w
        <5>1. g = f /\ x.pc \notin Offline
          BY <2>5, <4>3, <4>6
        <5>2. Covered(s, f, x.pc)
          BY <1>6, <2>2, <5>1, MergedCovered
        <5>3. QED
          BY <2>3, <4>2, <4>6, <5>1, <5>2
      <4>7. CASE k = n /\ v # w
        BY <1>6, <2>2, <2>3, <4>1, <4>2, <4>4, <4>7, MergedCovered
      <4>8. QED
        BY <4>5, <4>6, <4>7
    <3>4. FilesFit'
      BY <1>2, <1>6 DEF FilesFit
    <3>5. QED
      BY <2>3, <3>1, <3>2, <3>3, <3>4 DEF OutboxInv
  <2>6. CASE wk' = [wk EXCEPT ![w] = e]
    <3>1. e \in Worker
      BY <1>5 DEF WorkerFits
    <3>2. OutboxInv'
      BY <1>5, <2>5, <2>6, <3>1
    <3>3. QED
      BY <2>4, <3>2
  <2>7. CASE wk' = [wk EXCEPT ![w] = Out]
    <3>1. Out \in Worker
      BY IdleWorker DEF WorkerFits
    <3>2. OutboxInv'
      BY <2>5, <2>7, <3>1, IdleWorker
    <3>3. QED
      BY <2>4, <3>2
  <2>8. QED
    BY <1>2, <2>6, <2>7, AnswersOrNot
<1>9. QED
  BY <1>7, <1>8
-----------------------------------------------------------------------------
(* The administrator *)

LEMMA TestTelegramKeeps ==
  ASSUME OutboxInv, TestTelegram
  PROVE  OutboxInv' /\ Belongs
<1> DEFINE e == NewRow(New(Len(rows) + 1), "test", "test", 0)
<1>1. rows' = Append(rows, e) /\ UNCHANGED <<file, on, wk, made, late>>
  BY DEF TestTelegram
<1>2. RowsFit /\ FilesFit /\ WorkersFit /\ Merges /\ Episodes(rows) /\ OffFits /\ made \in Nat
  BY DEF OutboxInv, FilesFit
<1>3. rows \in Seq(Row) /\ New(Len(rows) + 1) \in Ident
  BY <1>2 DEF RowsFit, Ident, New
<1>4. e \in Row /\ RowFits(e, made) /\ e.alert = "test" /\ e.rel = 0 /\ e.hist = << >>
  BY <1>2, <1>3, NewRowFits DEF RowFits
<1> HIDE DEF e
<1>5. Episodes(rows')
  BY <1>1, <1>2, <1>3, <1>4, EpisodeBegins
<1>6. /\ rows' \in Seq(Row) /\ DOMAIN rows = 1 .. Len(rows) /\ Len(rows) \in Nat
      /\ DOMAIN rows' = 1 .. (Len(rows) + 1)
      /\ \A n \in DOMAIN rows : rows'[n] = rows[n]
      /\ rows'[Len(rows) + 1] = e
  BY <1>1, <1>3, <1>4, AppendedRow
<1>7. DOMAIN rows \subseteq DOMAIN rows' /\ \A n \in DOMAIN rows' : n \in DOMAIN rows \/ n = Len(rows) + 1
  BY <1>6
<1>8. RowsFit'
  BY <1>1, <1>2, <1>4, <1>6, <1>7 DEF RowsFit
<1>9. \A n \in DOMAIN rows' : (n \in DOMAIN rows /\ rows'[n] = rows[n]) \/ rows'[n].hist = << >>
  BY <1>4, <1>6, <1>7
<1>10. Merges'
  <2> SUFFICES ASSUME NEW v \in Workers, NEW f \in file[v], NEW n \in DOMAIN rows'
               PROVE  Covered(rows'[n], f, wk[v].pc)
    BY <1>1 DEF Merges
  <2>1. CASE rows'[n].hist = << >>
    BY <2>1 DEF Covered
  <2>2. CASE n \in DOMAIN rows /\ rows'[n] = rows[n]
    BY <1>2, <2>2 DEF Merges
  <2>3. QED
    BY <1>9, <2>1, <2>2
<1>11. WorkersFit' /\ FilesFit' /\ OffFits'
  BY <1>1, <1>2, <1>7 DEF WorkersFit, WorkerFits, FilesFit, OffFits
<1>12. Belongs
  BY <1>6, SameBelongs
<1>13. QED
  BY <1>5, <1>8, <1>10, <1>11, <1>12 DEF OutboxInv

\* When notifications go off no request is late yet, and each worker may make one.
LEMMA PatchTelegramKeeps ==
  ASSUME OutboxInv, PatchTelegram
  PROVE  OutboxInv'
<1>1. on' = ~on /\ late' = 0 /\ UNCHANGED <<rows, file, wk, made>>
  BY DEF PatchTelegram
<1>2. IsFiniteSet(Workers) /\ Stale(wk) \subseteq Workers
  BY OutboxAssumption DEF OutboxAssumption, Stale
<1>3. Cardinality(Stale(wk)) <= Cardinality(Workers) /\ Cardinality(Stale(wk)) \in Nat
  BY <1>2, FS_Subset, FS_CardinalityType
<1>4. on' \in BOOLEAN
  BY <1>1
<1>5. late' \in Nat /\ late' + Cardinality(Stale(wk)) <= Cardinality(Workers)
  BY <1>1, <1>3
<1>6. OffFits'
  BY <1>1, <1>4, <1>5 DEF OffFits
<1>7. RowsFit' /\ FilesFit' /\ WorkersFit' /\ Merges' /\ Episodes(rows)'
  BY <1>1 DEF OutboxInv, RowsFit, FilesFit, WorkersFit, Merges
<1>8. QED
  BY <1>6, <1>7 DEF OutboxInv

-----------------------------------------------------------------------------
(* The theorems *)

LEMMA OutboxInit ==
  ASSUME Init
  PROVE  OutboxInv
<1>1. RowsFit /\ Episodes(rows)
  <2>1. rows \in Seq(Row) /\ DOMAIN rows = {}
    BY DEF Init
  <2>2. QED
    BY <2>1 DEF RowsFit, Episodes
<1>2. FilesFit /\ Merges
  BY DEF Init, FilesFit, Merges
<1>3. WorkersFit
  <2>1. WorkerFits(Idle, rows, {})
    BY IdleWorker
  <2>2. QED
    BY <2>1 DEF Init, WorkersFit, WorkerFits
<1>4. OffFits
  BY DEF Init, OffFits
<1>5. QED
  BY <1>1, <1>2, <1>3, <1>4 DEF OutboxInv

\* A step that records an alert leaves every history as it is.
LEMMA AlertsBelong ==
  ASSUME OutboxInv, NEW w \in Workers, Report(w) \/ Recover(w) \/ CheckRedis(w)
  PROVE  Belongs
<1>1. RowsFit /\ FilesFit /\ Episodes(rows) /\ made \in Nat
  BY DEF OutboxInv, FilesFit
<1>2. UNCHANGED made
  BY DEF Report, Recover, CheckRedis
<1>3. PICK kind \in {"database", "redis"}, id \in Ident, resolved \in BOOLEAN :
        PersistAlert(kind, id, resolved)
  <2>1. CASE Report(w)
    <3>1. PICK f \in file[w] : PersistAlert("database", Down(f.inc), FALSE)
      BY <2>1 DEF Report
    <3>2. Down(f.inc) \in Ident
      BY <1>1 DEF FilesFit, FileFits, File, Ident, Down
    <3>3. QED
      BY <3>1, <3>2
  <2>2. CASE Recover(w)
    <3>1. PICK f \in file[w] : PersistAlert("database", Up(f.inc), TRUE)
      BY <2>2 DEF Recover
    <3>2. Up(f.inc) \in Ident
      BY <1>1 DEF FilesFit, FileFits, File, Ident, Up
    <3>3. QED
      BY <3>1, <3>2
  <2>3. CASE CheckRedis(w)
    <3>1. PICK r \in BOOLEAN : PersistAlert("redis", New(Len(rows) + 1), r)
      BY <2>3 DEF CheckRedis
    <3>2. New(Len(rows) + 1) \in Ident
      BY <1>1 DEF RowsFit, Ident, New
    <3>3. QED
      BY <3>1, <3>2
  <2>4. QED
    BY <2>1, <2>2, <2>3
<1>4. \A n \in DOMAIN rows : rows'[n].hist = rows[n].hist
  BY <1>1, <1>2, <1>3, PersistAlertKeeps
<1>5. QED
  BY <1>4, SameBelongs

\* The steps of a worker that leave every row as it is.
LEMMA QuietBelongs ==
  ASSUME NEW w \in Workers,
         \/ ReadConfiguration(w) \/ Unlink(w) \/ NoHealthDue(w) \/ NothingToSend(w)
         \/ SendTelegram(w) \/ SendDisabled(w)
         \/ OpenIncident(w) \/ ReadIncident(w) \/ ClaimOffline(w) \/ ExhaustOffline(w)
         \/ NothingOffline(w) \/ SendOffline(w) \/ FinishOffline(w)
         \/ CycleFails(w) \/ DbFails(w) \/ Crash(w) \/ Restart(w) \/ FileDue(w)
  PROVE  Belongs
<1>1. rows' = rows
  BY DEF ReadConfiguration, Unlink, NoHealthDue, NothingToSend, SendTelegram, SendDisabled,
         OpenIncident, ReadIncident, ClaimOffline, ExhaustOffline, NothingOffline, SendOffline,
         FinishOffline, CycleFails, DbFails, Crash, Restart, FileDue
<1>2. QED
  BY <1>1, SameBelongs

LEMMA OutboxStep ==
  ASSUME OutboxInv, [Next]_vars
  PROVE  OutboxInv' /\ Belongs
<1>1. ASSUME NEW w \in Workers, Works(w) PROVE OutboxInv' /\ Belongs
  <2>1. CASE ReadConfiguration(w)
    BY <2>1, ReadConfigurationKeeps, QuietBelongs
  <2>2. CASE Report(w)
    BY <2>2, ReportKeeps, AlertsBelong
  <2>3. CASE Import(w)
    BY <2>3, ImportKeeps
  <2>4. CASE Recover(w)
    BY <2>4, RecoverKeeps, AlertsBelong
  <2>5. CASE Unlink(w)
    BY <2>5, UnlinkKeeps, QuietBelongs
  <2>6. CASE CheckRedis(w)
    BY <2>6, CheckRedisKeeps, AlertsBelong
  <2>7. CASE NoHealthDue(w)
    BY <2>7, NoHealthDueKeeps, QuietBelongs
  <2>8. CASE ClaimDelivery(w)
    BY <2>8, ClaimDeliveryKeeps
  <2>9. CASE ClaimExhausted(w)
    BY <2>9, ClaimExhaustedKeeps
  <2>10. CASE NothingToSend(w)
    BY <2>10, NothingToSendKeeps, QuietBelongs
  <2>11. CASE SendTelegram(w)
    BY <2>11, SendTelegramKeeps, QuietBelongs
  <2>12. CASE SendDisabled(w)
    BY <2>12, SendDisabledKeeps, QuietBelongs
  <2>13. CASE FinishDelivery(w)
    BY <2>13, FinishDeliveryKeeps
  <2>14. CASE OpenIncident(w)
    BY <2>14, OpenIncidentKeeps, QuietBelongs
  <2>15. CASE ReadIncident(w)
    BY <2>15, ReadIncidentKeeps, QuietBelongs
  <2>16. CASE ClaimOffline(w)
    BY <2>16, ClaimOfflineKeeps, QuietBelongs
  <2>17. CASE ExhaustOffline(w)
    BY <2>17, ExhaustOfflineKeeps, QuietBelongs
  <2>18. CASE NothingOffline(w)
    BY <2>18, CycleEndsKeeps, QuietBelongs
  <2>19. CASE SendOffline(w)
    BY <2>19, SendOfflineKeeps, QuietBelongs
  <2>20. CASE FinishOffline(w)
    BY <2>20, FinishOfflineKeeps, QuietBelongs
  <2>21. QED
    BY <1>1, <2>1, <2>2, <2>3, <2>4, <2>5, <2>6, <2>7, <2>8, <2>9, <2>10, <2>11, <2>12,
       <2>13, <2>14, <2>15, <2>16, <2>17, <2>18, <2>19, <2>20 DEF Works
<1>2. ASSUME NEW w \in Workers, CycleFails(w) \/ DbFails(w) \/ Crash(w) \/ Restart(w)
      PROVE  OutboxInv' /\ Belongs
  BY <1>2, CycleEndsKeeps, QuietBelongs
<1>3. ASSUME NEW w \in Workers, FileDue(w) PROVE OutboxInv' /\ Belongs
  BY <1>3, FileDueKeeps, QuietBelongs
<1>4. ASSUME NEW n \in 1 .. MaxRows, RowDue(n) PROVE OutboxInv' /\ Belongs
  BY <1>4, RowDueKeeps
<1>5. CASE TestTelegram
  BY <1>5, TestTelegramKeeps
<1>6. CASE PatchTelegram
  <2>1. rows' = rows
    BY <1>6 DEF PatchTelegram
  <2>2. QED
    BY <1>6, <2>1, PatchTelegramKeeps, SameBelongs
<1>7. CASE UNCHANGED vars
  <2>1. UNCHANGED <<rows, file, on, wk, made, late>>
    BY <1>7 DEF vars
  <2>2. OutboxInv'
    BY <2>1 DEF OutboxInv, RowsFit, FilesFit, WorkersFit, Merges, OffFits
  <2>3. QED
    BY <2>1, <2>2, SameBelongs
<1>8. QED
  BY <1>1, <1>2, <1>3, <1>4, <1>5, <1>6, <1>7 DEF Next

\* For any number of workers, alerts, outages, faults and changes of the settings:
\* rows, files and workers fit together.  A delivery under way ends its history with
\* the attempt whose number is its lease token; an entry that a merge brought into a
\* delivery is still in the file; alerts of a kind take turns with their recoveries;
\* and while notifications are off, what was sent and what may still be sent is
\* bounded (run_worker, finish_delivery, reconcile_database_outage, persist_alert).
THEOREM OutboxInvariant == Spec => []OutboxInv
<1>1. Init => OutboxInv
  BY OutboxInit
<1>2. OutboxInv /\ [Next]_vars => OutboxInv'
  BY OutboxStep
<1>3. QED
  BY <1>1, <1>2, PTL DEF Spec

\* After the administrator turned notifications off, each worker makes at most the
\* one routine request of the cycle that had read the settings before.
THEOREM OffWithinOneCycleAlways == Spec => []OffWithinOneCycle
<1>1. OutboxInv => OffWithinOneCycle
  <2> SUFFICES ASSUME OffFits PROVE late <= Cardinality(Workers)
    BY DEF OutboxInv, OffWithinOneCycle
  <2>1. IsFiniteSet(Workers) /\ Stale(wk) \subseteq Workers
    BY OutboxAssumption DEF OutboxAssumption, Stale
  <2>2. Cardinality(Workers) \in Nat /\ Cardinality(Stale(wk)) \in Nat
    BY <2>1, FS_Subset, FS_CardinalityType
  <2>3. QED
    BY <2>2 DEF OffFits
<1>2. QED
  BY <1>1, OutboxInvariant, PTL

\* Of each kind at most one alert is active, and a failure has one recovery if it is
\* resolved and none if it is not, although several workers report and resolve the
\* same one (persist_alert).
THEOREM EpisodesPairedAlways == Spec => []EpisodesPaired
<1>1. OutboxInv => EpisodesPaired
  <2> SUFFICES ASSUME RowsFit, Episodes(rows) PROVE EpisodesPaired
    BY DEF OutboxInv
  <2>1. ASSUME NEW kind \in {"database", "redis"} PROVE Cardinality(ActiveRows(kind)) <= 1
    <3>1. \A a, b \in ActiveRows(kind) : a = b
      BY DEF ActiveRows, Episodes
    <3>2. CASE ActiveRows(kind) = {}
      BY <3>2, FS_EmptySet
    <3>3. CASE ActiveRows(kind) # {}
      <4>1. PICK a \in ActiveRows(kind) : TRUE
        BY <3>3
      <4>2. ActiveRows(kind) = {a}
        BY <3>1, <4>1
      <4>3. Cardinality({a}) = 1
        BY FS_Singleton
      <4>4. QED
        BY <4>2, <4>3
    <3>4. QED
      BY <3>2, <3>3
  <2>2. ASSUME NEW n \in DOMAIN rows, rows[n].rel = 0
        PROVE  Cardinality({m \in DOMAIN rows : rows[m].rel = n})
                 = IF rows[n].alert = "resolved" THEN 1 ELSE 0
    <3> DEFINE M == {m \in DOMAIN rows : rows[m].rel = n}
    <3>1. n # 0
      BY DEF RowsFit
    <3>2. \A m \in M : rows[n].alert = "resolved" /\ \A k \in M : k = m
      BY <3>1 DEF Episodes
    <3>3. CASE rows[n].alert = "resolved"
      <4>1. PICK m \in M : TRUE
        BY <2>2, <3>3 DEF Episodes
      <4>2. M = {m}
        BY <3>2, <4>1
      <4>3. Cardinality({m}) = 1
        BY FS_Singleton
      <4>4. QED
        BY <3>3, <4>2, <4>3
    <3>4. CASE rows[n].alert # "resolved"
      <4>1. M = {}
        BY <3>2, <3>4
      <4>2. QED
        BY <3>4, <4>1, FS_EmptySet
    <3>5. QED
      BY <3>3, <3>4
  <2>3. QED
    BY <2>1, <2>2 DEF EpisodesPaired
<1>2. QED
  BY <1>1, OutboxInvariant, PTL

\* The outcome an attempt is closed with is that of its own request, and it stays:
\* a worker whose lease ran out and was claimed again changes nothing, whenever its
\* answer comes, and neither does a merge of the file (finish_delivery).
THEOREM OutcomesBelongAlways == Spec => OutcomesBelong
<1>1. OutboxInv /\ [Next]_vars => [Belongs]_vars
  BY OutboxStep
<1>2. OutcomesBelong <=> [][Belongs]_vars
  BY DEF OutcomesBelong, Belongs, RowBelongs
<1>3. QED
  BY <1>1, <1>2, OutboxInvariant, PTL DEF Spec

-----------------------------------------------------------------------------
(* One worker *)

\* The deployment runs one notification worker.  With two, one claims the delivery
\* of an incident while the other still merges it, and what follows is not true.
OneWorker == \E w \in Workers : Workers = {w}

\* Messages and their rows: an incident has one alert and one recovery, which
\* names it, and any other row is named by its place.
RowNamed(s, n, m) ==
  /\ s[n].kind = "database" =>
       /\ s[n].alert # "test"
       /\ IF s[n].rel = 0 THEN \E i \in 1 .. m : s[n].id = Down(i)
          ELSE \E i \in 1 .. m : s[n].id = Up(i) /\ s[s[n].rel].id = Down(i)
  /\ s[n].kind # "database" => s[n].id = New(n)
  /\ s[n].rel # 0 => s[s[n].rel].kind = s[n].kind

IdsFit(s, m) ==
  /\ \A a, b \in DOMAIN s : s[a].id = s[b].id => a = b
  /\ \A n \in DOMAIN s : RowNamed(s, n, m)

\* A history has one entry for each attempt, and no attempt is beyond the last.
Counted(h, t) == Len(h) = t /\ t <= MaxAttempts /\ \A k \in DOMAIN h : h[k].n = k

NumbersFit(s, fs) ==
  /\ \A n \in DOMAIN s : Counted(s[n].hist, s[n].tries) /\ s[n].token <= MaxAttempts
  /\ \A f \in fs : Counted(f.hist, f.tries)

\* While the file is there nobody else sends, so the delivery of its incident
\* holds what earlier merges brought, and the alert is the only active one.
Behind(r, f) ==
  /\ r.st # "sending" /\ r.tries <= f.tries
  /\ r.st = "sent" => f.st = "sent" /\ r.tries = f.tries
  /\ \A k \in DOMAIN r.hist : r.hist[k].inc = f.inc

BehindFit(s, fs) ==
  \A f \in fs, n \in DOMAIN s : s[n].id = Down(f.inc) => Behind(s[n], f)
ActiveFit(s, fs) ==
  \A n \in DOMAIN s : s[n].kind = "database" /\ s[n].alert = "active" =>
    \E f \in fs : s[n].id = Down(f.inc)

\* An incident is in its file or over.
DoneFit(s, fs, m) ==
  \A i \in 1 .. m : (\E f \in fs : f.inc = i) \/ (\E n \in DOMAIN s : s[n].id = Up(i))

\* Every request was counted before it was made, in the file while there is one.
CallFit(c, s, fs) ==
  \A id \in Ids :
    \/ c[id] = 0
    \/ \E f \in fs : id = Down(f.inc) /\ c[id] <= f.tries
    \/ (\A f \in fs : id # Down(f.inc)) /\ \E n \in DOMAIN s : s[n].id = id /\ c[id] <= s[n].tries

KnownFit(k, s, fs) ==
  \A id \in k :
    \/ \E f \in fs : id = Down(f.inc) /\ f.st = "sent"
    \/ \E n \in DOMAIN s : s[n].id = id /\ s[n].st = "sent"

\* What a worker relies on at its place.
Synced(r, f) == r.id = Down(f.inc) /\ r.tries = f.tries /\ (f.st = "sent" => r.st = "sent")

Place(e, s, fs, c, m) ==
  /\ e.at <= Len(s) /\ e.token <= MaxAttempts /\ e.res \in Outcomes \cup {"none", "disabled"}
  /\ e.pc \in {"health", "claim", "send", "finish"} => fs = {}
  /\ e.pc = "outage" /\ fs = {} => m < MaxIncidents
  /\ e.pc = "import" => \A f \in fs : s[e.at].id = Down(f.inc)
  /\ e.pc \in {"recover", "unlink"} => \A f \in fs : \E n \in DOMAIN s : Synced(s[n], f)
  /\ e.pc = "unlink" => \A f \in fs : \E n \in DOMAIN s : s[n].id = Up(f.inc)
  /\ e.pc = "send" => /\ s[e.at].st = "sending"
                      /\ \A id \in Ids : s[e.at].id = id => c[id] < s[e.at].tries
  /\ e.pc = "osend" => \A f \in fs, id \in Ids : id = Down(f.inc) => c[id] < f.tries

\* Failures and tests besides database outages; each has one recovery at most.
Firsts(s) == {n \in DOMAIN s : s[n].kind # "database" /\ s[n].rel = 0}

BoundsFit ==
  /\ made <= MaxIncidents /\ faults \in 0 .. MaxFaults /\ switches \in 0 .. MaxSwitches
  /\ Cardinality(Firsts(rows)) <= MaxOther /\ calls \in [Ids -> Nat]

RowsAgree(s, fs, c, k, m) ==
  /\ IdsFit(s, m) /\ NumbersFit(s, fs) /\ BehindFit(s, fs) /\ ActiveFit(s, fs)
  /\ DoneFit(s, fs, m) /\ CallFit(c, s, fs) /\ KnownFit(k, s, fs)

SoleFits(w) ==
  /\ RowsAgree(rows, file[w], calls, known, made)
  /\ Place(wk[w], rows, file[w], calls, made)

SoleInv == BoundsFit /\ \A w \in Workers : SoleFits(w)

LEMMA IdsApart ==
  /\ \A i, j : /\ Down(i) = Down(j) => i = j
               /\ Up(i) = Up(j) => i = j
               /\ New(i) = New(j) => i = j
  /\ \A i, j : Down(i) # Up(j) /\ Down(i) # New(j) /\ Up(i) # New(j)
BY DEF Down, Up, New

\* Rows and files as the larger invariant types them.
Typed(s, fs, m) ==
  /\ s \in Seq(Row) /\ DOMAIN s = 1 .. Len(s) /\ Len(s) \in Nat
  /\ \A n \in DOMAIN s : /\ n \in Nat /\ s[n] \in Row /\ RowFits(s[n], m)
                         /\ s[n].tries \in Nat /\ s[n].token \in Nat /\ s[n].rel \in Nat
                         /\ s[n].hist \in Seq(Entry)
  /\ \A f \in fs : /\ FileFits(f, m) /\ f \in File /\ f.tries \in Nat /\ f.inc \in 1 .. m
                   /\ f.hist \in Seq(Entry)
  /\ \A f, g \in fs : f = g
  /\ m \in Nat /\ MaxAttempts \in Nat \ {0}

LEMMA TypedParts ==
  ASSUME NEW s \in Seq(Row), NEW fs, NEW m \in Nat, \A n \in DOMAIN s : RowFits(s[n], m),
         \A f \in fs : FileFits(f, m), \A f, g \in fs : f = g
  PROVE  Typed(s, fs, m)
<1>1. DOMAIN s = 1 .. Len(s) /\ Len(s) \in Nat /\ \A n \in DOMAIN s : n \in Nat /\ s[n] \in Row
  OBVIOUS
<1>2. \A r \in Row : r.tries \in Nat /\ r.token \in Nat /\ r.rel \in Nat /\ r.hist \in Seq(Entry)
  BY DEF Row
<1>3. \A f \in fs : f \in File /\ f.inc \in 1 .. m
  BY DEF FileFits
<1>4. \A f \in File : f.tries \in Nat /\ f.hist \in Seq(Entry)
  BY DEF File
<1>5. MaxAttempts \in Nat \ {0}
  BY OutboxAssumption DEF OutboxAssumption
<1>6. QED
  BY <1>1, <1>2, <1>3, <1>4, <1>5 DEF Typed

LEMMA InvTyped ==
  ASSUME OutboxInv, NEW w \in Workers
  PROVE  /\ Typed(rows, file[w], made) /\ wk[w] \in Worker
         /\ WorkerFits(wk[w], rows, file[w]) /\ Episodes(rows)
<1>1. Typed(rows, file[w], made)
  BY TypedParts DEF OutboxInv, RowsFit, FilesFit
<1>2. QED
  BY <1>1 DEF OutboxInv, WorkersFit

LEMMA InvTypedNext ==
  ASSUME OutboxInv', NEW w \in Workers
  PROVE  Typed(rows', file'[w], made') /\ Episodes(rows')
<1>1. Typed(rows', file'[w], made')
  BY TypedParts DEF OutboxInv, RowsFit, FilesFit
<1>2. QED
  BY <1>1 DEF OutboxInv

-----------------------------------------------------------------------------
(* Progress: what a step may do to rows and to the file *)

Grows(s, t) ==
  \A n \in DOMAIN s : /\ n \in DOMAIN t /\ t[n].id = s[n].id
                      /\ s[n].tries <= t[n].tries /\ (s[n].st = "sent" => t[n].st = "sent")

GoesOn(fs, gs) ==
  /\ \A f \in fs : \E g \in gs : /\ g.inc = f.inc /\ f.tries <= g.tries
                                 /\ f.st = "sent" => g.st = "sent"
  /\ \A g \in gs : \E f \in fs : g.inc = f.inc

\* Attempts that are counted stay counted and what was sent stays sent, while
\* rows and the file go on.
LEMMA ProgressKeeps ==
  ASSUME NEW s, NEW t, NEW fs, NEW gs, NEW m, NEW c \in [Ids -> Nat], NEW k,
         Typed(s, fs, m), Typed(t, gs, m), Grows(s, t), GoesOn(fs, gs),
         DoneFit(s, fs, m), CallFit(c, s, fs), KnownFit(k, s, fs)
  PROVE  DoneFit(t, gs, m) /\ CallFit(c, t, gs) /\ KnownFit(k, t, gs)
<1>1. DoneFit(t, gs, m)
  BY DEF DoneFit, Grows, GoesOn
<1>2. KnownFit(k, t, gs)
  <2> SUFFICES ASSUME NEW id \in k
               PROVE  \/ \E f \in gs : id = Down(f.inc) /\ f.st = "sent"
                      \/ \E n \in DOMAIN t : t[n].id = id /\ t[n].st = "sent"
    BY DEF KnownFit
  <2>1. CASE \E f \in fs : id = Down(f.inc) /\ f.st = "sent"
    BY <2>1 DEF GoesOn
  <2>2. CASE \E n \in DOMAIN s : s[n].id = id /\ s[n].st = "sent"
    BY <2>2 DEF Grows
  <2>3. QED
    BY <2>1, <2>2 DEF KnownFit
<1>3. CallFit(c, t, gs)
  <2> SUFFICES ASSUME NEW id \in Ids
               PROVE  \/ c[id] = 0
                      \/ \E f \in gs : id = Down(f.inc) /\ c[id] <= f.tries
                      \/ /\ \A f \in gs : id # Down(f.inc)
                         /\ \E n \in DOMAIN t : t[n].id = id /\ c[id] <= t[n].tries
    BY DEF CallFit
  <2>1. c[id] \in Nat
    OBVIOUS
  <2>2. ASSUME NEW f \in fs, id = Down(f.inc), c[id] <= f.tries
        PROVE  \E g \in gs : id = Down(g.inc) /\ c[id] <= g.tries
    <3>1. PICK g \in gs : g.inc = f.inc /\ f.tries <= g.tries
      BY DEF GoesOn
    <3>2. f.tries \in Nat /\ g.tries \in Nat
      BY DEF Typed
    <3>3. QED
      BY <2>1, <2>2, <3>1, <3>2
  <2>3. ASSUME \A f \in fs : id # Down(f.inc), NEW n \in DOMAIN s, s[n].id = id, c[id] <= s[n].tries
        PROVE  /\ \A f \in gs : id # Down(f.inc)
               /\ \E j \in DOMAIN t : t[j].id = id /\ c[id] <= t[j].tries
    <3>1. n \in DOMAIN t /\ t[n].id = id /\ s[n].tries <= t[n].tries
      BY <2>3 DEF Grows
    <3>2. s[n].tries \in Nat /\ t[n].tries \in Nat
      BY <3>1 DEF Typed
    <3>3. c[id] <= t[n].tries
      BY <2>1, <2>3, <3>1, <3>2
    <3>4. \A f \in gs : id # Down(f.inc)
      BY <2>3 DEF GoesOn
    <3>5. QED
      BY <3>1, <3>3, <3>4
  <2>4. QED
    BY <2>2, <2>3 DEF CallFit
<1>4. QED
  BY <1>1, <1>2, <1>3

\* Rows keep their names, and new ones are given names of their own.
SameName(r, s) == s.id = r.id /\ s.kind = r.kind /\ s.rel = r.rel /\ (r.alert # "test" => s.alert # "test")

LEMMA NamesGrow ==
  ASSUME NEW s, NEW t, NEW m \in Nat, NEW p \in Nat, m <= p, Episodes(s), IdsFit(s, m),
         DOMAIN s \subseteq DOMAIN t, \A n \in DOMAIN s : SameName(s[n], t[n]),
         \A n \in DOMAIN t : n \notin DOMAIN s =>
           RowNamed(t, n, p) /\ \A k \in DOMAIN t : t[k].id = t[n].id => k = n
  PROVE  IdsFit(t, p)
<1>1. \A a, b \in DOMAIN t : t[a].id = t[b].id => a = b
  BY DEF IdsFit, SameName
<1>2. ASSUME NEW n \in DOMAIN s PROVE RowNamed(t, n, p)
  <2>1. RowNamed(s, n, m) /\ SameName(s[n], t[n])
    BY DEF IdsFit
  <2>2. s[n].rel # 0 => s[n].rel \in DOMAIN s /\ SameName(s[s[n].rel], t[s[n].rel])
    BY DEF Episodes
  <2>3. \A i \in 1 .. m : i \in 1 .. p
    OBVIOUS
  <2>4. QED
    BY <2>1, <2>2, <2>3 DEF RowNamed, SameName
<1>3. QED
  BY <1>1, <1>2 DEF IdsFit

-----------------------------------------------------------------------------
(* Places *)

LEMMA PlaceIdle ==
  ASSUME NEW s, Len(s) \in Nat, NEW fs, NEW c, NEW m
  PROVE  /\ Place(Idle, s, fs, c, m) /\ Place(Off, s, fs, c, m)
         /\ (fs = {} => m < MaxIncidents) => Place(Out, s, fs, c, m)
BY OutboxAssumption DEF OutboxAssumption, Place, Idle, Off, Out

LEMMA WorkerAt ==
  ASSUME OutboxInv, NEW w \in Workers, NEW e, wk' = [wk EXCEPT ![w] = e]
  PROVE  wk'[w] = e
BY DEF OutboxInv, WorkersFit

LEMMA FaultsBound ==
  ASSUME SoleInv, Fault
  PROVE  faults' \in 0 .. MaxFaults
BY OutboxAssumption DEF OutboxAssumption, SoleInv, BoundsFit, Fault

\* A transaction answers, or there may be an outage to open.
LEMMA AnswerPlace ==
  ASSUME OutboxInv, SoleInv, NEW w \in Workers, NEW e, Answers(w, e),
         NEW s, Len(s) \in Nat, Place(e, s, file[w], calls, made)
  PROVE  Place(wk'[w], s, file[w], calls, made) /\ faults' \in 0 .. MaxFaults
<1>1. CASE wk' = [wk EXCEPT ![w] = e] /\ UNCHANGED faults
  BY <1>1, WorkerAt DEF SoleInv, BoundsFit
<1>2. CASE DbError(w) /\ wk' = [wk EXCEPT ![w] = Out]
  <2>1. Place(Out, s, file[w], calls, made)
    BY <1>2, PlaceIdle DEF DbError
  <2>2. QED
    BY <1>2, <2>1, WorkerAt, FaultsBound DEF DbError
<1>3. QED
  BY <1>1, <1>2 DEF Answers, Out

LEMMA GoesPlace ==
  ASSUME OutboxInv, SoleInv, NEW w \in Workers, NEW e, Goes(w, e)
  PROVE  wk'[w] = e /\ faults' \in 0 .. MaxFaults
BY WorkerAt DEF Goes, SoleInv, BoundsFit

\* The only worker fits: the others do not exist.
LEMMA OnlyOne ==
  ASSUME NEW w \in Workers, Workers = {w}, BoundsFit',
         RowsAgree(rows', file'[w], calls', known', made'),
         Place(wk'[w], rows', file'[w], calls', made')
  PROVE  SoleInv'
BY DEF SoleInv, SoleFits

LEMMA SoleHas ==
  ASSUME OutboxInv, SoleInv, NEW w \in Workers
  PROVE  /\ RowsAgree(rows, file[w], calls, known, made)
         /\ Place(wk[w], rows, file[w], calls, made)
         /\ BoundsFit /\ Len(rows) \in Nat /\ calls \in [Ids -> Nat]
BY InvTyped DEF SoleInv, SoleFits, BoundsFit, Typed

-----------------------------------------------------------------------------
(* Steps of the only worker that change no row and no file *)

LEMMA QuietSole ==
  ASSUME OutboxInv, SoleInv, NEW w \in Workers, Workers = {w},
         UNCHANGED <<rows, file, made, switches, calls, known>>,
         faults' \in 0 .. MaxFaults, Place(wk'[w], rows, file[w], calls, made)
  PROVE  SoleInv'
<1>1. RowsAgree(rows, file[w], calls, known, made) /\ BoundsFit
  BY SoleHas
<1>2. BoundsFit'
  BY <1>1 DEF BoundsFit
<1>3. QED
  BY <1>1, <1>2, OnlyOne

LEMMA QuietAnswerSole ==
  ASSUME OutboxInv, SoleInv, NEW w \in Workers, Workers = {w}, NEW e, Answers(w, e),
         UNCHANGED <<rows, file, made, switches, calls, known>>,
         Place(e, rows, file[w], calls, made)
  PROVE  SoleInv'
BY SoleHas, AnswerPlace, QuietSole

LEMMA QuietGoesSole ==
  ASSUME OutboxInv, SoleInv, NEW w \in Workers, Workers = {w}, NEW e, Goes(w, e),
         UNCHANGED <<rows, file, made, switches, calls, known>>,
         Place(e, rows, file[w], calls, made)
  PROVE  SoleInv'
BY GoesPlace, QuietSole

LEMMA ReadConfigurationSole ==
  ASSUME OutboxInv, SoleInv, NEW w \in Workers, Workers = {w}, ReadConfiguration(w)
  PROVE  SoleInv'
<1> DEFINE e == [Idle EXCEPT !.config = on, !.pc = IF file[w] = {} THEN "health" ELSE "report"]
<1>1. Answers(w, e) /\ UNCHANGED <<rows, file, made, switches, calls, known>>
  BY DEF ReadConfiguration
<1>2. Place(e, rows, file[w], calls, made)
  BY SoleHas, OutboxAssumption DEF OutboxAssumption, Place, Idle
<1> HIDE DEF e
<1>3. QED
  BY <1>1, <1>2, QuietAnswerSole

LEMMA NothingToSendSole ==
  ASSUME OutboxInv, SoleInv, NEW w \in Workers, Workers = {w}, NothingToSend(w)
  PROVE  SoleInv'
<1>1. Answers(w, Idle) /\ UNCHANGED <<rows, file, made, switches, calls, known>>
  BY DEF NothingToSend
<1>2. QED
  BY <1>1, SoleHas, PlaceIdle, QuietAnswerSole

LEMMA CycleEndsSole ==
  ASSUME OutboxInv, SoleInv, NEW w \in Workers, Workers = {w},
         CycleFails(w) \/ NothingOffline(w) \/ DbFails(w) \/ Crash(w) \/ Restart(w)
  PROVE  SoleInv'
<1>1. UNCHANGED <<rows, file, made, switches, calls, known>>
  BY DEF CycleFails, NothingOffline, DbFails, Crash, Restart
<1>2. faults' \in 0 .. MaxFaults
  <2>1. Fault \/ UNCHANGED faults
    BY DEF CycleFails, NothingOffline, DbFails, DbError, Crash, Restart, Goes
  <2>2. QED
    BY <2>1, SoleHas, FaultsBound DEF BoundsFit
<1>3. PICK e : wk' = [wk EXCEPT ![w] = e] /\ Place(e, rows, file[w], calls, made)
  <2>1. /\ Place(Idle, rows, file[w], calls, made) /\ Place(Off, rows, file[w], calls, made)
        /\ (file[w] = {} => made < MaxIncidents) => Place(Out, rows, file[w], calls, made)
    BY SoleHas, PlaceIdle
  <2>2. CASE DbFails(w)
    BY <2>1, <2>2 DEF DbFails, DbError, Out
  <2>3. CASE CycleFails(w) \/ NothingOffline(w) \/ Restart(w)
    BY <2>1, <2>3 DEF CycleFails, NothingOffline, Restart, Goes
  <2>4. CASE Crash(w)
    BY <2>1, <2>4 DEF Crash, Off
  <2>5. QED
    BY <2>2, <2>3, <2>4
<1>4. QED
  BY <1>1, <1>2, <1>3, WorkerAt, QuietSole

LEMMA AfterHealthPlace ==
  ASSUME OutboxInv, SoleInv, NEW w \in Workers, wk[w].pc = "health",
         NEW s, Len(s) \in Nat, Len(rows) <= Len(s)
  PROVE  Place(AfterHealth(w), s, file[w], calls, made)
<1>1. wk[w] \in Worker /\ wk[w].at <= Len(rows) /\ wk[w].token <= MaxAttempts
      /\ wk[w].res \in Outcomes \cup {"none", "disabled"} /\ file[w] = {} /\ Len(rows) \in Nat
  BY SoleHas, InvTyped DEF Place
<1>2. CASE w \in HealthOnly
  BY <1>2, PlaceIdle DEF AfterHealth
<1>3. CASE w \notin HealthOnly
  <2> DEFINE e == [wk[w] EXCEPT !.pc = "claim"]
  <2>1. e.pc = "claim" /\ e.at = wk[w].at /\ e.token = wk[w].token /\ e.res = wk[w].res /\ e.at \in Nat
    BY <1>1 DEF Worker
  <2>2. AfterHealth(w) = e
    BY <1>3 DEF AfterHealth
  <2> HIDE DEF e
  <2>3. QED
    BY <1>1, <2>1, <2>2 DEF Place
<1>4. QED
  BY <1>2, <1>3

LEMMA NoHealthDueSole ==
  ASSUME OutboxInv, SoleInv, NEW w \in Workers, Workers = {w}, NoHealthDue(w)
  PROVE  SoleInv'
<1>1. wk[w].pc = "health" /\ Goes(w, AfterHealth(w)) /\ UNCHANGED <<rows, file, made, switches, calls, known>>
  BY DEF NoHealthDue
<1>2. Place(AfterHealth(w), rows, file[w], calls, made)
  BY <1>1, SoleHas, AfterHealthPlace
<1>3. QED
  BY <1>1, <1>2, QuietGoesSole

\* A worker that goes on has the values it had.
LEMMA SameHands ==
  ASSUME OutboxInv, SoleInv, NEW w \in Workers
  PROVE  /\ wk[w] \in Worker /\ wk[w].at \in Nat /\ wk[w].at <= Len(rows)
         /\ wk[w].token \in Nat /\ wk[w].token <= MaxAttempts
         /\ wk[w].res \in Outcomes \cup {"none", "disabled"}
BY SoleHas, InvTyped DEF Place, Worker

LEMMA SendDisabledSole ==
  ASSUME OutboxInv, SoleInv, NEW w \in Workers, Workers = {w}, SendDisabled(w)
  PROVE  SoleInv'
<1> DEFINE e == [wk[w] EXCEPT !.pc = "finish", !.res = "disabled"]
<1>1. wk[w].pc = "send" /\ Goes(w, e) /\ UNCHANGED <<rows, file, made, switches, calls, known>>
  BY DEF SendDisabled
<1>2. e.pc = "finish" /\ e.res = "disabled" /\ e.at = wk[w].at /\ e.token = wk[w].token
  BY SameHands DEF Worker
<1> HIDE DEF e
<1>3. file[w] = {}
  BY <1>1, SoleHas DEF Place
<1>4. Place(e, rows, file[w], calls, made)
  BY <1>2, <1>3, SameHands DEF Place
<1>5. QED
  BY <1>1, <1>4, QuietGoesSole

LEMMA ReadIncidentSole ==
  ASSUME OutboxInv, SoleInv, NEW w \in Workers, Workers = {w}, ReadIncident(w)
  PROVE  SoleInv'
<1> DEFINE e == [wk[w] EXCEPT !.pc = "opened"]
<1>1. Goes(w, e) /\ UNCHANGED <<rows, file, made, switches, calls, known>>
  BY DEF ReadIncident
<1>2. e.pc = "opened" /\ e.at = wk[w].at /\ e.token = wk[w].token /\ e.res = wk[w].res
  BY SameHands DEF Worker
<1> HIDE DEF e
<1>3. Place(e, rows, file[w], calls, made)
  BY <1>2, SameHands DEF Place
<1>4. QED
  BY <1>1, <1>3, QuietGoesSole

-----------------------------------------------------------------------------
(* Requests *)

\* A request counts for its message.
LEMMA CallsCounted ==
  ASSUME NEW c \in [Ids -> Nat], NEW x, NEW d, d = c \/ d = [c EXCEPT ![x] = @ + 1]
  PROVE  d \in [Ids -> Nat]
<1> DEFINE g == [c EXCEPT ![x] = @ + 1]
<1>1. g = [i \in Ids |-> IF i = x THEN c[x] + 1 ELSE c[i]]
  OBVIOUS
<1>2. \A i \in Ids : (IF i = x THEN c[x] + 1 ELSE c[i]) \in Nat
  OBVIOUS
<1>3. g \in [Ids -> Nat]
  BY <1>1, <1>2
<1>4. QED
  BY <1>3

\* A request of the outbox was counted by the claim.
LEMMA SendTelegramSole ==
  ASSUME OutboxInv, SoleInv, NEW w \in Workers, Workers = {w}, SendTelegram(w)
  PROVE  SoleInv'
<1> DEFINE r == rows[wk[w].at]
<1>1. PICK res \in Outcomes :
        /\ Goes(w, [wk[w] EXCEPT !.pc = "finish", !.res = res])
        /\ calls' = IF res = "not_configured" THEN calls ELSE [calls EXCEPT ![r.id] = @ + 1]
  BY DEF SendTelegram
<1> DEFINE e == [wk[w] EXCEPT !.pc = "finish", !.res = res]
<1>2. wk[w].pc = "send" /\ UNCHANGED <<rows, file, made, switches, known>>
  BY DEF SendTelegram
<1>3. e.pc = "finish" /\ e.res = res /\ e.at = wk[w].at /\ e.token = wk[w].token
  BY SameHands DEF Worker
<1>4. Goes(w, e)
  BY <1>1
<1> HIDE DEF e
<1>5. /\ file[w] = {} /\ wk[w].at \in DOMAIN rows
      /\ \A id \in Ids : r.id = id => calls[id] < r.tries
  BY <1>2, SoleHas, InvTyped DEF Place, WorkerFits
<1>6. Place(e, rows, file[w], calls', made)
  BY <1>3, <1>5, SameHands DEF Place
<1>7. calls \in [Ids -> Nat] /\ r.tries \in Nat
  BY <1>5, SoleHas, InvTyped DEF Typed
<1>8. calls' \in [Ids -> Nat]
  <2>1. calls' = calls \/ calls' = [calls EXCEPT ![r.id] = @ + 1]
    BY <1>1
  <2>2. QED
    BY <1>7, <2>1, CallsCounted
<1>9. CallFit(calls', rows, file[w])
  <2> SUFFICES ASSUME NEW id \in Ids
               PROVE  calls'[id] = 0 \/ \E n \in DOMAIN rows : rows[n].id = id /\ calls'[id] <= rows[n].tries
    BY <1>5 DEF CallFit
  <2>1. CallFit(calls, rows, file[w])
    BY SoleHas DEF RowsAgree
  <2>2. CASE calls'[id] = calls[id]
    BY <1>5, <2>1, <2>2 DEF CallFit
  <2>3. CASE calls'[id] # calls[id]
    <3>1. id = r.id /\ calls'[id] = calls[id] + 1 /\ calls[id] \in Nat
      BY <1>1, <1>7, <2>3
    <3>2. calls[id] < r.tries
      BY <1>5, <3>1
    <3>3. calls'[id] <= r.tries
      BY <1>7, <3>1, <3>2
    <3>4. QED
      BY <1>5, <3>1, <3>3
  <2>4. QED
    BY <2>2, <2>3
<1>10. wk'[w] = e /\ faults' \in 0 .. MaxFaults
  BY <1>4, GoesPlace
<1>11. BoundsFit'
  BY <1>2, <1>8, <1>10, SoleHas DEF BoundsFit
<1>12. RowsAgree(rows', file'[w], calls', known', made')
  BY <1>2, <1>9, SoleHas DEF RowsAgree
<1>13. QED
  BY <1>2, <1>6, <1>10, <1>11, <1>12, OnlyOne

\* A request of an outage was counted in the file.
LEMMA SendOfflineSole ==
  ASSUME OutboxInv, SoleInv, NEW w \in Workers, Workers = {w}, SendOffline(w)
  PROVE  SoleInv'
<1>1. PICK res \in Outcomes, f \in file[w] :
        /\ Goes(w, [wk[w] EXCEPT !.pc = "ofinish", !.res = res])
        /\ calls' = IF res = "not_configured" THEN calls ELSE [calls EXCEPT ![Down(f.inc)] = @ + 1]
  BY DEF SendOffline
<1> DEFINE e == [wk[w] EXCEPT !.pc = "ofinish", !.res = res]
<1>2. wk[w].pc = "osend" /\ UNCHANGED <<rows, file, made, switches, known>>
  BY DEF SendOffline
<1>3. e.pc = "ofinish" /\ e.res = res /\ e.at = wk[w].at /\ e.token = wk[w].token
  BY SameHands DEF Worker
<1>4. Goes(w, e)
  BY <1>1
<1> HIDE DEF e
<1>5. \A id \in Ids : id = Down(f.inc) => calls[id] < f.tries
  BY <1>2, SoleHas DEF Place
<1>6. Place(e, rows, file[w], calls', made)
  BY <1>3, SameHands DEF Place
<1>7. calls \in [Ids -> Nat] /\ f.tries \in Nat
  BY SoleHas, InvTyped DEF Typed
<1>8. calls' \in [Ids -> Nat]
  <2>1. calls' = calls \/ calls' = [calls EXCEPT ![Down(f.inc)] = @ + 1]
    BY <1>1
  <2>2. QED
    BY <1>7, <2>1, CallsCounted
<1>9. CallFit(calls', rows, file[w])
  <2>1. CallFit(calls, rows, file[w])
    BY SoleHas DEF RowsAgree
  <2>2. ASSUME NEW id \in Ids, calls'[id] # calls[id] PROVE id = Down(f.inc) /\ calls'[id] <= f.tries
    <3>1. id = Down(f.inc) /\ calls'[id] = calls[id] + 1 /\ calls[id] \in Nat
      BY <1>1, <1>7, <2>2
    <3>2. calls[id] < f.tries
      BY <1>5, <3>1
    <3>3. QED
      BY <1>7, <3>1, <3>2
  <2>3. QED
    BY <2>1, <2>2 DEF CallFit
<1>10. wk'[w] = e /\ faults' \in 0 .. MaxFaults
  BY <1>4, GoesPlace
<1>11. BoundsFit'
  BY <1>2, <1>8, <1>10, SoleHas DEF BoundsFit
<1>12. RowsAgree(rows', file'[w], calls', known', made')
  BY <1>2, <1>9, SoleHas DEF RowsAgree
<1>13. QED
  BY <1>2, <1>6, <1>10, <1>11, <1>12, OnlyOne

-----------------------------------------------------------------------------
(* Alerts recorded by the only worker, and tests *)

SameDelivery(r, q) ==
  /\ q.id = r.id /\ q.kind = r.kind /\ q.rel = r.rel /\ q.st = r.st /\ q.tries = r.tries
  /\ q.hist = r.hist /\ q.token = r.token /\ (q.alert = r.alert \/ q.alert = "resolved")

Fresh(r, id, kind) ==
  /\ r.id = id /\ r.kind = kind /\ r.tries = 0 /\ r.hist = << >> /\ r.token = 0
  /\ r.st \in {"pending", "disabled"}

\* At most one row is new, and the others change at most from active to resolved.
Alerted(s, t, id, kind) ==
  /\ \A n \in DOMAIN s : n \in DOMAIN t /\ SameDelivery(s[n], t[n])
  /\ \A n \in DOMAIN t : n \notin DOMAIN s => n = Len(s) + 1 /\ Fresh(t[n], id, kind)
  /\ Len(s) <= Len(t)

LEMMA FreshRow ==
  ASSUME NEW id, NEW kind, NEW alert, NEW rel
  PROVE  /\ Fresh(NewRow(id, kind, alert, rel), id, kind)
         /\ NewRow(id, kind, alert, rel).alert = alert /\ NewRow(id, kind, alert, rel).rel = rel
BY DEF Fresh, NewRow

LEMMA SameRowDelivery ==
  ASSUME NEW r \in Row
  PROVE  SameDelivery(r, r) /\ SameDelivery(r, [r EXCEPT !.alert = "resolved"])
BY DEF SameDelivery, Row

LEMMA AppendAlerted ==
  ASSUME NEW s \in Seq(Row), NEW e \in Row, NEW id, NEW kind, Fresh(e, id, kind)
  PROVE  /\ Alerted(s, Append(s, e), id, kind)
         /\ \A n \in DOMAIN Append(s, e) : n \notin DOMAIN s => Append(s, e)[n] = e
<1> DEFINE t == Append(s, e)
<1>1. /\ t \in Seq(Row) /\ DOMAIN s = 1 .. Len(s) /\ Len(s) \in Nat
      /\ DOMAIN t = 1 .. (Len(s) + 1)
      /\ \A n \in DOMAIN s : t[n] = s[n]
      /\ t[Len(s) + 1] = e
  BY AppendedRow
<1>2. Len(t) = Len(s) + 1
  OBVIOUS
<1> HIDE DEF t
<1>3. \A n \in DOMAIN s : n \in DOMAIN t /\ SameDelivery(s[n], t[n])
  <2>1. \A n \in DOMAIN s : s[n] \in Row /\ n \in DOMAIN t
    BY <1>1
  <2>2. QED
    BY <1>1, <2>1, SameRowDelivery
<1>4. \A n \in DOMAIN t : n \notin DOMAIN s => n = Len(s) + 1 /\ t[n] = e
  BY <1>1
<1>5. Alerted(s, t, id, kind)
  BY <1>1, <1>2, <1>3, <1>4 DEF Alerted
<1>6. QED
  BY <1>4, <1>5 DEF t

\* What is new after PersistAlert, and that it is recorded unless there is
\* nothing to record.
NewAlert(s, t, id, kind, resolved) ==
  \A n \in DOMAIN t : n \notin DOMAIN s =>
    /\ \A k \in DOMAIN s : s[k].id # id
    /\ IF resolved
       THEN /\ t[n].alert = "resolved" /\ t[n].rel \in DOMAIN s
            /\ s[t[n].rel].kind = kind /\ s[t[n].rel].alert = "active"
       ELSE t[n].alert = "active" /\ t[n].rel = 0 /\ ActiveRows(kind) = {}

RecordedAlert(t, id, kind, resolved) ==
  \/ \E n \in DOMAIN t : t[n].id = id
  \/ ActiveRows(kind) = {} <=> resolved

LEMMA PersistForm ==
  ASSUME OutboxInv, NEW kind \in {"database", "redis"}, NEW id \in Ident,
         NEW resolved \in BOOLEAN, PersistAlert(kind, id, resolved)
  PROVE  /\ Alerted(rows, rows', id, kind) /\ NewAlert(rows, rows', id, kind, resolved)
         /\ RecordedAlert(rows', id, kind, resolved)
<1>1. rows \in Seq(Row) /\ Episodes(rows) /\ made \in Nat
  BY DEF OutboxInv, RowsFit, FilesFit
<1>2. CASE UNCHANGED rows /\ (HasRow(id) \/ (resolved <=> ActiveRows(kind) = {}))
  <2>1. \A n \in DOMAIN rows : SameDelivery(rows[n], rows[n])
    <3>1. \A n \in DOMAIN rows : rows[n] \in Row
      BY <1>1
    <3>2. QED
      BY <3>1, SameRowDelivery
  <2>2. Len(rows) <= Len(rows)
    BY <1>1
  <2>3. Alerted(rows, rows', id, kind) /\ NewAlert(rows, rows', id, kind, resolved)
    BY <1>2, <2>1, <2>2 DEF Alerted, NewAlert
  <2>4. RecordedAlert(rows', id, kind, resolved)
    BY <1>2 DEF RecordedAlert, HasRow
  <2>5. QED
    BY <2>3, <2>4
<1>3. CASE /\ ~HasRow(id) /\ ~resolved /\ ActiveRows(kind) = {}
           /\ rows' = Append(rows, NewRow(id, kind, "active", 0))
  <2> DEFINE e == NewRow(id, kind, "active", 0)
  <2>1. e \in Row /\ Fresh(e, id, kind) /\ e.alert = "active" /\ e.rel = 0
    BY <1>1, NewRowFits, FreshRow DEF RowFits
  <2>2. rows' = Append(rows, e)
    BY <1>3
  <2> HIDE DEF e
  <2>3. /\ Alerted(rows, rows', id, kind)
        /\ \A n \in DOMAIN rows' : n \notin DOMAIN rows => rows'[n] = e
    BY <1>1, <2>1, <2>2, AppendAlerted
  <2>4. NewAlert(rows, rows', id, kind, resolved)
    BY <1>3, <2>1, <2>3 DEF NewAlert, HasRow
  <2>5. \E n \in DOMAIN rows' : rows'[n].id = id
    <3>1. DOMAIN rows' = 1 .. (Len(rows) + 1) /\ rows'[Len(rows) + 1] = e /\ Len(rows) \in Nat
      BY <1>1, <2>1, <2>2, AppendedRow
    <3>2. Len(rows) + 1 \in DOMAIN rows'
      BY <3>1
    <3>3. QED
      BY <2>1, <3>1, <3>2 DEF Fresh
  <2>6. QED
    BY <2>3, <2>4, <2>5 DEF RecordedAlert
<1>4. ASSUME ~HasRow(id), resolved, NEW a \in ActiveRows(kind),
             rows' = Append([rows EXCEPT ![a].alert = "resolved"], NewRow(id, kind, "resolved", a))
      PROVE  /\ Alerted(rows, rows', id, kind) /\ NewAlert(rows, rows', id, kind, resolved)
             /\ RecordedAlert(rows', id, kind, resolved)
  <2> DEFINE e == NewRow(id, kind, "resolved", a)
  <2>1. a \in DOMAIN rows /\ rows[a].alert = "active" /\ rows[a].kind = kind /\ a \in Nat
        /\ DOMAIN rows = 1 .. Len(rows) /\ Len(rows) \in Nat
    BY <1>1 DEF ActiveRows
  <2>2. e \in Row /\ Fresh(e, id, kind) /\ e.alert = "resolved" /\ e.rel = a
    BY <1>1, <2>1, NewRowFits, FreshRow DEF RowFits
  <2>3. rows' = Append([rows EXCEPT ![a].alert = "resolved"], e)
    BY <1>4
  <2> HIDE DEF e
  <2>4. /\ rows' \in Seq(Row) /\ DOMAIN rows' = 1 .. (Len(rows) + 1)
        /\ \A n \in DOMAIN rows : n # a => rows'[n] = rows[n]
        /\ rows'[a] = [rows[a] EXCEPT !.alert = "resolved"]
        /\ rows'[Len(rows) + 1] = e
    <3> DEFINE t == Append([rows EXCEPT ![a].alert = "resolved"], e)
    <3>1. /\ rows \in Seq(Row) /\ Episodes(rows) /\ a \in DOMAIN rows /\ rows[a].alert = "active"
          /\ e \in Row /\ e.alert = "resolved" /\ e.rel = a
      BY <1>1, <2>1, <2>2
    <3>2. /\ t \in Seq(Row) /\ DOMAIN t = 1 .. (Len(rows) + 1)
          /\ \A n \in DOMAIN rows : n # a => t[n] = rows[n]
          /\ t[a] = [rows[a] EXCEPT !.alert = "resolved"]
          /\ t[Len(rows) + 1] = e
      <4>1. t \in Seq(Row)
        BY ONLY <3>1, EpisodeEnds
      <4>2. DOMAIN t = 1 .. (Len(rows) + 1)
        BY ONLY <3>1, EpisodeEnds
      <4>3. \A n \in DOMAIN rows : n # a => t[n] = rows[n]
        BY ONLY <3>1, EpisodeEnds
      <4>4. t[a] = [rows[a] EXCEPT !.alert = "resolved"]
        BY ONLY <3>1, EpisodeEnds
      <4>5. t[Len(rows) + 1] = e
        BY ONLY <3>1, EpisodeEnds
      <4> HIDE DEF t
      <4>6. QED
        BY ONLY <4>1, <4>2, <4>3, <4>4, <4>5
    <3>3. rows' = t
      BY <2>3
    <3> HIDE DEF t
    <3>4. QED
      BY ONLY <3>2, <3>3
  <2>5. \A n \in DOMAIN rows : n \in DOMAIN rows' /\ SameDelivery(rows[n], rows'[n])
    <3>1. \A n \in DOMAIN rows : n \in DOMAIN rows' /\ rows[n] \in Row
      BY <1>1, <2>1, <2>4
    <3>2. ASSUME NEW n \in DOMAIN rows PROVE SameDelivery(rows[n], rows'[n])
      <4>1. rows[n] \in Row
        BY <3>1
      <4>2. SameDelivery(rows[n], rows[n]) /\ SameDelivery(rows[n], [rows[n] EXCEPT !.alert = "resolved"])
        BY ONLY <4>1, SameRowDelivery
      <4>3. CASE n = a
        <5>1. rows'[n] = [rows[n] EXCEPT !.alert = "resolved"]
          BY ONLY <2>4, <4>3
        <5>2. QED
          BY ONLY <4>2, <5>1
      <4>4. CASE n # a
        <5>1. rows'[n] = rows[n]
          BY ONLY <2>4, <4>4, n \in DOMAIN rows
        <5>2. QED
          BY ONLY <4>2, <5>1
      <4>5. QED
        BY ONLY <4>3, <4>4
    <3>3. QED
      BY <3>1, <3>2
  <2>6. \A n \in DOMAIN rows' : n \notin DOMAIN rows => n = Len(rows) + 1 /\ rows'[n] = e
    BY <2>1, <2>4
  <2>7. Len(rows) <= Len(rows')
    BY <2>1, <2>4
  <2>8. Alerted(rows, rows', id, kind)
    BY <2>2, <2>5, <2>6, <2>7 DEF Alerted
  <2>9. NewAlert(rows, rows', id, kind, resolved)
    BY <1>4, <2>1, <2>2, <2>6 DEF NewAlert, HasRow
  <2>10. \E n \in DOMAIN rows' : rows'[n].id = id
    <3>1. Len(rows) + 1 \in DOMAIN rows'
      BY <2>1, <2>4
    <3>2. QED
      BY <2>2, <2>4, <3>1 DEF Fresh
  <2>11. QED
    BY <2>8, <2>9, <2>10 DEF RecordedAlert
<1>5. QED
  BY <1>2, <1>3, <1>4 DEF PersistAlert

\* Rows that are recorded agree with the file as those before did.
LEMMA AlertedAgree ==
  ASSUME NEW s, NEW t, NEW fs, NEW m, NEW c \in [Ids -> Nat], NEW k, NEW id, NEW kind,
         Typed(s, fs, m), Typed(t, fs, m), Episodes(s), RowsAgree(s, fs, c, k, m),
         Alerted(s, t, id, kind),
         \A n \in DOMAIN t : n \notin DOMAIN s =>
           /\ RowNamed(t, n, m) /\ \A j \in DOMAIN s : s[j].id # id
           /\ kind = "database" /\ t[n].alert = "active" => \E f \in fs : id = Down(f.inc)
  PROVE  RowsAgree(t, fs, c, k, m)
<1>1. /\ IdsFit(s, m) /\ NumbersFit(s, fs) /\ BehindFit(s, fs) /\ ActiveFit(s, fs)
      /\ DoneFit(s, fs, m) /\ CallFit(c, s, fs) /\ KnownFit(k, s, fs)
  BY DEF RowsAgree
<1>2. m \in Nat /\ m <= m /\ MaxAttempts \in Nat
  BY DEF Typed
<1>3. IdsFit(t, m)
  <2>1. \A n \in DOMAIN s : SameName(s[n], t[n])
    BY DEF Alerted, SameDelivery, SameName
  <2>2. \A n \in DOMAIN t : n \notin DOMAIN s => \A j \in DOMAIN t : t[j].id = t[n].id => j = n
    BY DEF Alerted, SameDelivery, Fresh
  <2>3. DOMAIN s \subseteq DOMAIN t
    BY DEF Alerted
  <2>4. QED
    BY <1>1, <1>2, <2>1, <2>2, <2>3, NamesGrow
<1>4. NumbersFit(t, fs)
  <2>1. ASSUME NEW n \in DOMAIN t PROVE Counted(t[n].hist, t[n].tries) /\ t[n].token <= MaxAttempts
    <3>1. CASE n \in DOMAIN s
      BY <1>1, <3>1 DEF Alerted, SameDelivery, NumbersFit
    <3>2. CASE n \notin DOMAIN s
      <4>1. t[n].hist = << >> /\ t[n].tries = 0 /\ t[n].token = 0
        BY <3>2 DEF Alerted, Fresh
      <4>2. QED
        BY <1>2, <4>1 DEF Counted
    <3>3. QED
      BY <3>1, <3>2
  <2>2. QED
    BY <1>1, <2>1 DEF NumbersFit
<1>5. BehindFit(t, fs)
  <2> SUFFICES ASSUME NEW f \in fs, NEW n \in DOMAIN t, t[n].id = Down(f.inc)
               PROVE  Behind(t[n], f)
    BY DEF BehindFit
  <2>1. CASE n \in DOMAIN s
    BY <1>1, <2>1 DEF Alerted, SameDelivery, BehindFit, Behind
  <2>2. CASE n \notin DOMAIN s
    <3>1. t[n].hist = << >> /\ t[n].tries = 0 /\ t[n].st \in {"pending", "disabled"}
      BY <2>2 DEF Alerted, Fresh
    <3>2. f.tries \in Nat
      BY DEF Typed
    <3>3. QED
      BY <3>1, <3>2 DEF Behind
  <2>3. QED
    BY <2>1, <2>2
<1>6. ActiveFit(t, fs)
  <2> SUFFICES ASSUME NEW n \in DOMAIN t, t[n].kind = "database", t[n].alert = "active"
               PROVE  \E f \in fs : t[n].id = Down(f.inc)
    BY DEF ActiveFit
  <2>1. CASE n \in DOMAIN s
    BY <1>1, <2>1 DEF Alerted, SameDelivery, ActiveFit
  <2>2. CASE n \notin DOMAIN s
    BY <2>2 DEF Alerted, Fresh
  <2>3. QED
    BY <2>1, <2>2
<1>7. Grows(s, t)
  <2>1. \A n \in DOMAIN s : s[n].tries <= s[n].tries
    BY DEF Typed
  <2>2. QED
    BY <2>1 DEF Grows, Alerted, SameDelivery
<1>8. GoesOn(fs, fs)
  <2>1. \A f \in fs : f.tries <= f.tries
    BY DEF Typed
  <2>2. QED
    BY <2>1 DEF GoesOn
<1>9. DoneFit(t, fs, m) /\ CallFit(c, t, fs) /\ KnownFit(k, t, fs)
  BY <1>1, <1>7, <1>8, ProgressKeeps
<1>10. QED
  BY <1>3, <1>4, <1>5, <1>6, <1>9 DEF RowsAgree

\* The bound on failures and tests holds: what is new is none of them, or the
\* guard left room.
LEMMA FirstsBound ==
  ASSUME NEW s, NEW t, NEW fs, NEW m, NEW id, NEW kind, Typed(s, fs, m), Alerted(s, t, id, kind),
         Cardinality(Firsts(s)) <= MaxOther,
         \/ \A n \in DOMAIN t : n \notin DOMAIN s => kind = "database" \/ t[n].rel # 0
         \/ Cardinality({n \in DOMAIN s : s[n].kind # "database"}) < MaxOther
  PROVE  Cardinality(Firsts(t)) <= MaxOther
<1> DEFINE O == {n \in DOMAIN s : s[n].kind # "database"}
<1>1. MaxOther \in Nat
  BY OutboxAssumption DEF OutboxAssumption
<1>2. IsFiniteSet(DOMAIN s) /\ Len(s) \in Nat
  BY FS_Interval DEF Typed
<1>3. IsFiniteSet(O) /\ IsFiniteSet(Firsts(s)) /\ Firsts(s) \subseteq O
  BY <1>2, FS_Subset DEF Firsts
<1>4. /\ Cardinality(Firsts(s)) <= Cardinality(O) /\ Cardinality(O) \in Nat
      /\ Cardinality(Firsts(s)) \in Nat
  BY <1>3, FS_Subset, FS_CardinalityType
<1>5. \A n \in DOMAIN s : n \in Firsts(t) => n \in Firsts(s)
  BY DEF Firsts, Alerted, SameDelivery
<1>6. CASE \A n \in DOMAIN t : n \notin DOMAIN s => kind = "database" \/ t[n].rel # 0
  <2>1. Firsts(t) \subseteq Firsts(s)
    <3>1. \A n \in DOMAIN t : n \notin DOMAIN s => n \notin Firsts(t)
      BY <1>6 DEF Firsts, Alerted, Fresh
    <3>2. QED
      BY <1>5, <3>1 DEF Firsts
  <2>2. Cardinality(Firsts(t)) <= Cardinality(Firsts(s)) /\ Cardinality(Firsts(t)) \in Nat
    BY <1>3, <2>1, FS_Subset, FS_CardinalityType
  <2>3. QED
    BY <1>1, <1>4, <2>2
<1>7. CASE Cardinality(O) < MaxOther
  <2> DEFINE B == Firsts(s) \cup {Len(s) + 1}
  <2>1. Firsts(t) \subseteq B
    <3>1. \A n \in DOMAIN t : n \notin DOMAIN s => n = Len(s) + 1
      BY DEF Alerted
    <3>2. \A n \in Firsts(t) : n \in DOMAIN t
      BY DEF Firsts
    <3>3. QED
      BY <1>5, <3>1, <3>2
  <2>2. IsFiniteSet(B) /\ Cardinality(B) <= Cardinality(Firsts(s)) + 1 /\ Cardinality(B) \in Nat
    <3>1. /\ IsFiniteSet(B)
          /\ Cardinality(B) = IF Len(s) + 1 \in Firsts(s) THEN Cardinality(Firsts(s))
                              ELSE Cardinality(Firsts(s)) + 1
      BY <1>3, FS_AddElement
    <3> HIDE DEF B
    <3>2. QED
      BY <1>4, <3>1
  <2>3. Cardinality(Firsts(t)) <= Cardinality(B) /\ Cardinality(Firsts(t)) \in Nat
    <3> HIDE DEF B
    <3>1. QED
      BY <2>1, <2>2, FS_Subset, FS_CardinalityType
  <2>4. QED
    BY <1>1, <1>4, <1>7, <2>2, <2>3
<1>8. QED
  BY <1>6, <1>7

LEMMA RowsSole ==
  ASSUME OutboxInv, SoleInv, NEW w \in Workers, Workers = {w},
         UNCHANGED <<file, made, switches, calls>>, faults' \in 0 .. MaxFaults,
         Cardinality(Firsts(rows')) <= MaxOther,
         RowsAgree(rows', file[w], calls, known', made),
         Place(wk'[w], rows', file[w], calls, made)
  PROVE  SoleInv'
<1>1. BoundsFit
  BY SoleHas
<1>2. BoundsFit'
  BY <1>1 DEF BoundsFit
<1>3. QED
  BY <1>2, OnlyOne

\* A name that belongs to an incident of the database.
LEMMA DatabaseNamed ==
  ASSUME NEW s, NEW m, IdsFit(s, m), NEW n \in DOMAIN s, NEW i
  PROVE  /\ s[n].id = Down(i) => s[n].kind = "database" /\ s[n].rel = 0 /\ s[n].alert # "test"
         /\ s[n].id = Up(i) => s[n].kind = "database" /\ s[n].rel # 0 /\ s[s[n].rel].id = Down(i)
<1>1. RowNamed(s, n, m)
  BY DEF IdsFit
<1>2. QED
  BY <1>1, IdsApart DEF RowNamed

LEMMA ReportSole ==
  ASSUME OutboxInv, OutboxInv', SoleInv, NEW w \in Workers, Workers = {w}, Report(w)
  PROVE  SoleInv'
<1>1. PICK f \in file[w] :
        /\ PersistAlert("database", Down(f.inc), FALSE)
        /\ Answers(w, [wk[w] EXCEPT !.pc = "import", !.at = EventOf(Down(f.inc), "database")'])
  BY DEF Report
<1> DEFINE id == Down(f.inc)
           a == EventOf(id, "database")'
           e == [wk[w] EXCEPT !.pc = "import", !.at = a]
<1>2. UNCHANGED <<file, made, switches, calls, known>>
  BY DEF Report
<1>3. /\ Typed(rows, file[w], made) /\ Typed(rows', file[w], made) /\ Episodes(rows)
      /\ \A g \in file[w] : g = f
  BY <1>2, InvTyped, InvTypedNext DEF Typed
<1>4. f.inc \in 1 .. made /\ id \in Ident
  BY <1>3 DEF Typed, Down, Ident
<1>5. /\ Alerted(rows, rows', id, "database") /\ NewAlert(rows, rows', id, "database", FALSE)
      /\ RecordedAlert(rows', id, "database", FALSE)
  BY <1>1, <1>4, PersistForm
<1>6. RowsAgree(rows, file[w], calls, known, made) /\ BoundsFit /\ calls \in [Ids -> Nat]
  BY SoleHas
<1>7. ASSUME NEW n \in DOMAIN rows', n \notin DOMAIN rows
      PROVE  /\ RowNamed(rows', n, made) /\ \A j \in DOMAIN rows : rows[j].id # id
             /\ \E g \in file[w] : id = Down(g.inc)
  <2>1. rows'[n].id = id /\ rows'[n].kind = "database" /\ rows'[n].rel = 0 /\ rows'[n].alert = "active"
    BY <1>5, <1>7 DEF Alerted, NewAlert, Fresh
  <2>2. QED
    BY <1>4, <1>5, <1>7, <2>1 DEF RowNamed, NewAlert
<1>8. RowsAgree(rows', file[w], calls, known, made)
  BY <1>3, <1>5, <1>6, <1>7, AlertedAgree
<1>9. Cardinality(Firsts(rows')) <= MaxOther
  BY <1>3, <1>5, <1>6, FirstsBound DEF BoundsFit
<1>10. \E n \in DOMAIN rows' : rows'[n].id = id
  <2>1. CASE ActiveRows("database") # {}
    <3>1. PICK n \in DOMAIN rows : rows[n].kind = "database" /\ rows[n].alert = "active"
      BY <2>1 DEF ActiveRows
    <3>2. rows[n].id = id
      BY <1>3, <1>6, <3>1 DEF RowsAgree, ActiveFit
    <3>3. QED
      BY <1>5, <3>1, <3>2 DEF Alerted, SameDelivery
  <2>2. CASE ActiveRows("database") = {}
    BY <1>5, <2>2 DEF RecordedAlert
  <2>3. QED
    BY <2>1, <2>2
<1>11. a \in DOMAIN rows' /\ rows'[a].id = id
  <2> HIDE DEF id
  <2>1. {n \in DOMAIN rows' : rows'[n].id = id} # {}
    BY <1>10
  <2>2. a = CHOOSE n \in {n \in DOMAIN rows' : rows'[n].id = id} : TRUE
    BY <2>1 DEF EventOf
  <2>3. QED
    BY <2>1, <2>2
<1>12. Answers(w, e)
  BY <1>1
<1>13. e.pc = "import" /\ e.at = a /\ e.token = wk[w].token /\ e.res = wk[w].res
  BY SameHands DEF Worker
<1> HIDE DEF e, a
<1>14. Len(rows') \in Nat /\ a <= Len(rows')
  BY <1>3, <1>11 DEF Typed
<1>15. Place(e, rows', file[w], calls, made)
  <2>1. \A g \in file[w] : rows'[a].id = Down(g.inc)
    BY <1>3, <1>11
  <2>2. QED
    BY <1>13, <1>14, <2>1, SameHands DEF Place
<1>16. Place(wk'[w], rows', file[w], calls, made) /\ faults' \in 0 .. MaxFaults
  BY <1>12, <1>14, <1>15, AnswerPlace
<1>17. QED
  BY <1>2, <1>8, <1>9, <1>16, RowsSole

LEMMA RecoverSole ==
  ASSUME OutboxInv, OutboxInv', SoleInv, NEW w \in Workers, Workers = {w}, Recover(w)
  PROVE  SoleInv'
<1>1. PICK f \in file[w] : PersistAlert("database", Up(f.inc), TRUE)
  BY DEF Recover
<1> DEFINE id == Up(f.inc)
           e == [wk[w] EXCEPT !.pc = "unlink"]
<1>2. wk[w].pc = "recover" /\ Answers(w, e) /\ UNCHANGED <<file, made, switches, calls, known>>
  BY DEF Recover
<1>3. /\ Typed(rows, file[w], made) /\ Typed(rows', file[w], made) /\ Episodes(rows)
      /\ \A g \in file[w] : g = f
  BY <1>2, InvTyped, InvTypedNext DEF Typed
<1>4. f.inc \in 1 .. made /\ id \in Ident
  BY <1>3 DEF Typed, Up, Ident
<1>5. /\ Alerted(rows, rows', id, "database") /\ NewAlert(rows, rows', id, "database", TRUE)
      /\ RecordedAlert(rows', id, "database", TRUE)
  BY <1>1, <1>4, PersistForm
<1>6. /\ RowsAgree(rows, file[w], calls, known, made) /\ BoundsFit /\ calls \in [Ids -> Nat]
      /\ IdsFit(rows, made) /\ ActiveFit(rows, file[w]) /\ Place(wk[w], rows, file[w], calls, made)
  BY SoleHas DEF RowsAgree
<1>7. ASSUME NEW n \in DOMAIN rows', n \notin DOMAIN rows
      PROVE  /\ RowNamed(rows', n, made) /\ \A j \in DOMAIN rows : rows[j].id # id
             /\ rows'[n].alert = "resolved"
  <2>1. /\ rows'[n].id = id /\ rows'[n].kind = "database" /\ rows'[n].alert = "resolved"
        /\ rows'[n].rel \in DOMAIN rows
        /\ rows[rows'[n].rel].kind = "database" /\ rows[rows'[n].rel].alert = "active"
        /\ \A j \in DOMAIN rows : rows[j].id # id
    BY <1>5, <1>7 DEF Alerted, NewAlert, Fresh
  <2>2. rows[rows'[n].rel].id = Down(f.inc)
    BY <1>3, <1>6, <2>1 DEF ActiveFit
  <2>3. SameDelivery(rows[rows'[n].rel], rows'[rows'[n].rel])
    BY <1>5, <2>1 DEF Alerted
  <2>4. rows'[n].rel # 0
    BY <1>3, <2>1 DEF Typed
  <2>5. QED
    BY <1>4, <2>1, <2>2, <2>3, <2>4 DEF RowNamed, SameDelivery
<1>8. RowsAgree(rows', file[w], calls, known, made)
  BY <1>3, <1>5, <1>6, <1>7, AlertedAgree
<1>9. Cardinality(Firsts(rows')) <= MaxOther
  BY <1>3, <1>5, <1>6, FirstsBound DEF BoundsFit
<1>10. PICK n \in DOMAIN rows : Synced(rows[n], f)
  BY <1>2, <1>6 DEF Place
<1>11. \E j \in DOMAIN rows' : rows'[j].id = id
  <2>1. CASE \E j \in DOMAIN rows' : rows'[j].id = id
    BY <2>1
  <2>2. CASE ActiveRows("database") = {}
    <3>1. rows[n].kind = "database" /\ rows[n].rel = 0 /\ rows[n].alert # "test" /\ rows[n].id = Down(f.inc)
      BY <1>6, <1>10, DatabaseNamed DEF Synced
    <3>2. rows[n].alert = "resolved"
      <4>1. rows[n] \in Row
        BY <1>3 DEF Typed
      <4>2. rows[n].alert # "active"
        BY <2>2, <3>1 DEF ActiveRows
      <4>3. QED
        BY <3>1, <4>1, <4>2 DEF Row
    <3>3. PICK j \in DOMAIN rows : rows[j].rel = n
      BY <1>3, <3>1, <3>2 DEF Episodes
    <3>4. n # 0
      BY <1>3 DEF Typed
    <3>5. RowNamed(rows, j, made)
      BY <1>6 DEF IdsFit
    <3>6. rows[j].kind = "database"
      BY <3>1, <3>3, <3>4, <3>5 DEF RowNamed
    <3>7. PICK i \in 1 .. made : rows[j].id = Up(i) /\ rows[n].id = Down(i)
      BY <3>3, <3>4, <3>5, <3>6 DEF RowNamed
    <3>8. rows[j].id = id
      BY <3>1, <3>7, IdsApart
    <3>9. QED
      BY <1>5, <3>8 DEF Alerted, SameDelivery
  <2>3. QED
    BY <1>5, <2>1, <2>2 DEF RecordedAlert
<1>12. \E j \in DOMAIN rows' : Synced(rows'[j], f)
  BY <1>5, <1>10 DEF Alerted, SameDelivery, Synced
<1>13. e.pc = "unlink" /\ e.at = wk[w].at /\ e.token = wk[w].token /\ e.res = wk[w].res
  BY SameHands DEF Worker
<1> HIDE DEF e
<1>14. Len(rows') \in Nat /\ wk[w].at <= Len(rows')
  BY <1>3, <1>5, SameHands DEF Typed, Alerted
<1>15. Place(e, rows', file[w], calls, made)
  <2>1. \A g \in file[w] : /\ \E j \in DOMAIN rows' : rows'[j].id = Up(g.inc)
                           /\ \E j \in DOMAIN rows' : Synced(rows'[j], g)
    BY <1>3, <1>11, <1>12
  <2>2. QED
    BY <1>13, <1>14, <2>1, SameHands DEF Place
<1>16. Place(wk'[w], rows', file[w], calls, made) /\ faults' \in 0 .. MaxFaults
  BY <1>2, <1>14, <1>15, AnswerPlace
<1>17. QED
  BY <1>2, <1>8, <1>9, <1>16, RowsSole

\* The other rows are named by their place.
LEMMA NewIsNew ==
  ASSUME NEW s, NEW fs, NEW m, Typed(s, fs, m), IdsFit(s, m), NEW j \in DOMAIN s
  PROVE  s[j].id # New(Len(s) + 1)
<1>1. RowNamed(s, j, m) /\ j # Len(s) + 1
  BY DEF IdsFit, Typed
<1>2. CASE s[j].kind = "database"
  <2>1. (\E i : s[j].id = Down(i)) \/ (\E i : s[j].id = Up(i))
    BY <1>1, <1>2 DEF RowNamed
  <2>2. QED
    BY <2>1, IdsApart
<1>3. CASE s[j].kind # "database"
  BY <1>1, <1>3, IdsApart DEF RowNamed
<1>4. QED
  BY <1>2, <1>3

LEMMA CheckRedisSole ==
  ASSUME OutboxInv, OutboxInv', SoleInv, NEW w \in Workers, Workers = {w}, CheckRedis(w)
  PROVE  SoleInv'
<1> DEFINE id == New(Len(rows) + 1)
<1>1. PICK resolved \in BOOLEAN :
        /\ resolved \/ ActiveRows("redis") # {} \/ Cardinality(Others) < MaxOther
        /\ PersistAlert("redis", id, resolved)
  BY DEF CheckRedis
<1>2. /\ wk[w].pc = "health" /\ Answers(w, AfterHealth(w))
      /\ UNCHANGED <<file, made, switches, calls, known>>
  BY DEF CheckRedis
<1>3. /\ Typed(rows, file[w], made) /\ Typed(rows', file[w], made) /\ Episodes(rows)
  BY <1>2, InvTyped, InvTypedNext
<1>4. id \in Ident
  BY <1>3 DEF Typed, New, Ident
<1>5. Alerted(rows, rows', id, "redis") /\ NewAlert(rows, rows', id, "redis", resolved)
  BY <1>1, <1>4, PersistForm
<1>6. RowsAgree(rows, file[w], calls, known, made) /\ BoundsFit /\ calls \in [Ids -> Nat]
  BY SoleHas
<1>7. ASSUME NEW n \in DOMAIN rows', n \notin DOMAIN rows
      PROVE  /\ RowNamed(rows', n, made) /\ (\A j \in DOMAIN rows : rows[j].id # id)
             /\ (resolved => rows'[n].rel # 0) /\ (~resolved => ActiveRows("redis") = {})
  <2>1. rows'[n].id = id /\ rows'[n].kind = "redis" /\ n = Len(rows) + 1
    BY <1>5, <1>7 DEF Alerted, Fresh
  <2>2. \A j \in DOMAIN rows : rows[j].id # id
    BY <1>5, <1>7 DEF NewAlert
  <2>3. CASE resolved
    <3>1. /\ rows'[n].rel \in DOMAIN rows /\ rows[rows'[n].rel].kind = "redis"
      BY <1>5, <1>7, <2>3 DEF NewAlert
    <3>2. SameDelivery(rows[rows'[n].rel], rows'[rows'[n].rel]) /\ rows'[n].rel # 0
      BY <1>3, <1>5, <3>1 DEF Alerted, Typed
    <3>3. QED
      BY <2>1, <2>2, <2>3, <3>1, <3>2 DEF RowNamed, SameDelivery
  <2>4. CASE ~resolved
    BY <1>5, <1>7, <2>1, <2>2, <2>4 DEF RowNamed, NewAlert
  <2>5. QED
    BY <2>3, <2>4
<1>8. RowsAgree(rows', file[w], calls, known, made)
  <2> HIDE DEF id
  <2>1. QED
    BY <1>3, <1>5, <1>6, <1>7, AlertedAgree
<1>9. Cardinality(Firsts(rows')) <= MaxOther
  <2> DEFINE O == {n \in DOMAIN rows : rows[n].kind # "database"}
  <2>1. \/ \A n \in DOMAIN rows' : n \notin DOMAIN rows => rows'[n].rel # 0
        \/ Cardinality(O) < MaxOther
    <3>1. Others = O
      BY DEF Others
    <3>2. QED
      BY <1>1, <1>7, <3>1
  <2>2. Cardinality(Firsts(rows)) <= MaxOther
    BY <1>6 DEF BoundsFit
  <2> HIDE DEF id
  <2>3. QED
    BY <1>3, <1>5, <2>1, <2>2, FirstsBound
<1>10. Len(rows') \in Nat /\ Len(rows) <= Len(rows')
  BY <1>3, <1>5 DEF Typed, Alerted
<1>11. Place(AfterHealth(w), rows', file[w], calls, made)
  BY <1>2, <1>10, AfterHealthPlace
<1>12. Place(wk'[w], rows', file[w], calls, made) /\ faults' \in 0 .. MaxFaults
  BY <1>2, <1>10, <1>11, AnswerPlace
<1>13. QED
  BY <1>2, <1>8, <1>9, <1>12, RowsSole

\* A worker stays at its place while rows and files are due, or are added.
LEMMA PlaceKept ==
  ASSUME NEW e, NEW s, NEW t, NEW fs, NEW gs, NEW c, NEW m,
         WorkerFits(e, s, fs), Place(e, s, fs, c, m),
         Len(s) \in Nat, Len(t) \in Nat, Len(s) <= Len(t),
         \A n \in DOMAIN s : /\ n \in DOMAIN t /\ t[n].id = s[n].id
                             /\ t[n].st = s[n].st /\ t[n].tries = s[n].tries,
         fs = {} <=> gs = {},
         \A g \in gs : \E f \in fs : g.inc = f.inc /\ g.st = f.st /\ g.tries = f.tries
  PROVE  Place(e, t, gs, c, m)
<1>1. /\ e.at \in Nat /\ e.at <= Len(t) /\ e.token <= MaxAttempts
      /\ e.res \in Outcomes \cup {"none", "disabled"}
  BY DEF Place, WorkerFits, Worker
<1>2. /\ e.pc \in {"health", "claim", "send", "finish"} => gs = {}
      /\ e.pc = "outage" /\ gs = {} => m < MaxIncidents
  BY DEF Place
<1>3. e.pc = "import" => \A g \in gs : t[e.at].id = Down(g.inc)
  BY DEF Place, WorkerFits
<1>4. e.pc \in {"recover", "unlink"} => \A g \in gs : \E n \in DOMAIN t : Synced(t[n], g)
  <2> SUFFICES ASSUME e.pc \in {"recover", "unlink"}, NEW g \in gs
               PROVE  \E n \in DOMAIN t : Synced(t[n], g)
    OBVIOUS
  <2>1. PICK f \in fs : g.inc = f.inc /\ g.st = f.st /\ g.tries = f.tries
    OBVIOUS
  <2>2. PICK n \in DOMAIN s : Synced(s[n], f)
    BY DEF Place
  <2>3. n \in DOMAIN t /\ t[n].id = s[n].id /\ t[n].st = s[n].st /\ t[n].tries = s[n].tries
    OBVIOUS
  <2>4. Synced(t[n], g)
    BY <2>1, <2>2, <2>3 DEF Synced
  <2>5. QED
    BY <2>3, <2>4
<1>5. e.pc = "unlink" => \A g \in gs : \E n \in DOMAIN t : t[n].id = Up(g.inc)
  BY DEF Place
<1>6. e.pc = "send" => /\ t[e.at].st = "sending"
                       /\ \A id \in Ids : t[e.at].id = id => c[id] < t[e.at].tries
  BY DEF Place, WorkerFits
<1>7. e.pc = "osend" => \A g \in gs, id \in Ids : id = Down(g.inc) => c[id] < g.tries
  BY DEF Place
<1>8. QED
  BY <1>1, <1>2, <1>3, <1>4, <1>5, <1>6, <1>7 DEF Place

LEMMA SameFile ==
  ASSUME NEW s, NEW fs, NEW m, Typed(s, fs, m)
  PROVE  /\ fs = {} <=> fs = {}
         /\ \A g \in fs : \E f \in fs : g.inc = f.inc /\ g.st = f.st /\ g.tries = f.tries
         /\ GoesOn(fs, fs)
<1>1. \A f \in fs : f.tries <= f.tries
  BY DEF Typed
<1>2. QED
  BY <1>1 DEF GoesOn

LEMMA TestTelegramSole ==
  ASSUME OutboxInv, OutboxInv', SoleInv, NEW w \in Workers, Workers = {w}, TestTelegram
  PROVE  SoleInv'
<1> DEFINE id == New(Len(rows) + 1)
           e == NewRow(id, "test", "test", 0)
<1>1. /\ Cardinality(Others) < MaxOther /\ rows' = Append(rows, e)
      /\ UNCHANGED <<file, wk, made, faults, switches, calls, known>>
  BY DEF TestTelegram
<1>2. /\ Typed(rows, file[w], made) /\ Typed(rows', file[w], made) /\ Episodes(rows)
      /\ WorkerFits(wk[w], rows, file[w])
  BY <1>1, InvTyped, InvTypedNext
<1>3. id \in Ident /\ rows \in Seq(Row) /\ made \in Nat
  BY <1>2 DEF Typed, New, Ident
<1>4. /\ RowsAgree(rows, file[w], calls, known, made) /\ BoundsFit /\ calls \in [Ids -> Nat]
      /\ IdsFit(rows, made) /\ Place(wk[w], rows, file[w], calls, made)
  BY SoleHas DEF RowsAgree
<1>5. e \in Row /\ Fresh(e, id, "test") /\ e.rel = 0
  BY <1>3, NewRowFits, FreshRow DEF RowFits
<1>6. \A j \in DOMAIN rows : rows[j].id # id
  BY <1>2, <1>4, NewIsNew
<1> HIDE DEF e
<1>7. Alerted(rows, rows', id, "test") /\ \A n \in DOMAIN rows' : n \notin DOMAIN rows => rows'[n] = e
  BY <1>1, <1>3, <1>5, AppendAlerted
<1>8. ASSUME NEW n \in DOMAIN rows', n \notin DOMAIN rows PROVE RowNamed(rows', n, made)
  <2>1. rows'[n] = e /\ n = Len(rows) + 1
    BY <1>7, <1>8 DEF Alerted
  <2>2. QED
    BY <1>5, <2>1 DEF RowNamed, Fresh
<1>9. RowsAgree(rows', file[w], calls, known, made)
  <2> HIDE DEF id
  <2>1. QED
    BY <1>2, <1>4, <1>6, <1>7, <1>8, AlertedAgree
<1>10. Cardinality(Firsts(rows')) <= MaxOther
  <2> DEFINE O == {n \in DOMAIN rows : rows[n].kind # "database"}
  <2>1. Cardinality(O) < MaxOther
    BY <1>1 DEF Others
  <2>2. Cardinality(Firsts(rows)) <= MaxOther
    BY <1>4 DEF BoundsFit
  <2> HIDE DEF id
  <2>3. QED
    BY <1>2, <1>7, <2>1, <2>2, FirstsBound
<1>11. Place(wk[w], rows', file[w], calls, made)
  <2>1. Len(rows) \in Nat /\ Len(rows') \in Nat /\ Len(rows) <= Len(rows')
    BY <1>2, <1>7 DEF Typed, Alerted
  <2>2. \A n \in DOMAIN rows : /\ n \in DOMAIN rows' /\ rows'[n].id = rows[n].id
                               /\ rows'[n].st = rows[n].st /\ rows'[n].tries = rows[n].tries
    BY <1>7 DEF Alerted, SameDelivery
  <2>3. QED
    BY <1>2, <1>4, <2>1, <2>2, PlaceKept
<1>12. faults' \in 0 .. MaxFaults
  BY <1>1, <1>4 DEF BoundsFit
<1>13. QED
  BY <1>1, <1>9, <1>10, <1>11, <1>12, RowsSole

LEMMA PatchTelegramSole ==
  ASSUME SoleInv, NEW w \in Workers, Workers = {w}, PatchTelegram
  PROVE  SoleInv'
<1>1. /\ switches < MaxSwitches /\ switches' = switches + 1
      /\ UNCHANGED <<rows, file, wk, made, faults, calls, known>>
  BY DEF PatchTelegram
<1>2. switches' \in 0 .. MaxSwitches
  BY <1>1, OutboxAssumption DEF OutboxAssumption, SoleInv, BoundsFit
<1>3. BoundsFit'
  BY <1>1, <1>2 DEF SoleInv, BoundsFit
<1>4. QED
  BY <1>1, <1>3 DEF SoleInv, SoleFits

-----------------------------------------------------------------------------
(* Numbers of attempts *)

LEMMA ClosedCounts ==
  ASSUME NEW h \in Seq(Entry), NEW v \in Statuses \cup {"unknown"}, NEW t, Counted(h, t)
  PROVE  Counted(Closed(h, v), t)
<1>1. Len(h) = t /\ t <= MaxAttempts /\ \A k \in DOMAIN h : h[k].n = k
  BY DEF Counted
<1>2. /\ Len(Closed(h, v)) = Len(h) /\ DOMAIN Closed(h, v) = DOMAIN h
      /\ \A k \in DOMAIN h : k # Len(h) => Closed(h, v)[k] = h[k]
  BY ClosedEntry
<1>3. ASSUME NEW k \in DOMAIN h, k = Len(h) PROVE Closed(h, v)[k].n = k
  <2>1. h # << >>
    BY <1>3
  <2>2. h[k] \in Entry /\ Closed(h, v)[k] = [h[k] EXCEPT !.st = v]
    BY <1>3, <2>1, ClosedEntry
  <2>3. QED
    BY <1>1, <2>2 DEF Entry
<1>4. QED
  BY <1>1, <1>2, <1>3 DEF Counted

LEMMA OpenedCounts ==
  ASSUME NEW h \in Seq(Entry), NEW t \in Nat, Counted(h, t), t < MaxAttempts, NEW i \in Nat
  PROVE  Counted(Opened(h, t + 1, i), t + 1)
<1> DEFINE o == Opened(h, t + 1, i)
<1>1. Len(h) = t /\ \A k \in DOMAIN h : h[k].n = k
  BY DEF Counted
<1>2. Extends(o, h, [n |-> t + 1, st |-> "sending", inc |-> i])
  BY OpenedEntry
<1> HIDE DEF o
<1>3. /\ Len(o) = t + 1 /\ DOMAIN h = 1 .. t /\ DOMAIN o = 1 .. (t + 1)
      /\ \A k \in DOMAIN h : o[k] = h[k]
      /\ o[t + 1].n = t + 1
  BY <1>1, <1>2 DEF Extends
<1>4. \A k \in DOMAIN o : o[k].n = k
  <2>1. \A k \in DOMAIN o : k \in DOMAIN h \/ k = t + 1
    BY <1>3
  <2>2. QED
    BY <1>1, <1>3, <2>1
<1>5. t + 1 <= MaxAttempts
  BY OutboxAssumption DEF OutboxAssumption
<1>6. Counted(o, t + 1)
  BY <1>3, <1>4, <1>5 DEF Counted
<1>7. QED
  BY <1>6 DEF o

\* A delivery keeps its alert and its count while it goes on.
RowGoesOn(r, q) ==
  /\ SameAlert(r, q) /\ q.id = r.id /\ r.tries <= q.tries /\ (r.st = "sent" => q.st = "sent")
  /\ Counted(q.hist, q.tries) /\ q.token <= MaxAttempts

LEMMA ReplacedAgree ==
  ASSUME NEW s, NEW t, NEW fs, NEW m, NEW c \in [Ids -> Nat], NEW k,
         Typed(s, fs, m), Typed(t, fs, m), Episodes(s), RowsAgree(s, fs, c, k, m),
         NEW n \in DOMAIN s, DOMAIN t = DOMAIN s, \A j \in DOMAIN s : j # n => t[j] = s[j],
         RowGoesOn(s[n], t[n]), \A f \in fs : t[n].id = Down(f.inc) => Behind(t[n], f)
  PROVE  RowsAgree(t, fs, c, k, m) /\ Firsts(t) = Firsts(s)
<1>1. /\ IdsFit(s, m) /\ NumbersFit(s, fs) /\ BehindFit(s, fs) /\ ActiveFit(s, fs)
      /\ DoneFit(s, fs, m) /\ CallFit(c, s, fs) /\ KnownFit(k, s, fs)
  BY DEF RowsAgree
<1>2. m \in Nat /\ m <= m
  BY DEF Typed
<1>3. \A j \in DOMAIN s : SameName(s[j], t[j]) /\ t[j].alert = s[j].alert
  BY DEF RowGoesOn, SameAlert, SameName
<1>4. IdsFit(t, m)
  BY <1>1, <1>2, <1>3, NamesGrow
<1>5. NumbersFit(t, fs)
  BY <1>1 DEF NumbersFit, RowGoesOn
<1>6. BehindFit(t, fs)
  BY <1>1 DEF BehindFit
<1>7. ActiveFit(t, fs)
  BY <1>1, <1>3 DEF ActiveFit, SameName
<1>8. Grows(s, t)
  <2>1. \A j \in DOMAIN s : s[j].tries <= s[j].tries
    BY DEF Typed
  <2>2. QED
    BY <2>1 DEF Grows, RowGoesOn
<1>9. DoneFit(t, fs, m) /\ CallFit(c, t, fs) /\ KnownFit(k, t, fs)
  BY <1>1, <1>8, SameFile, ProgressKeeps
<1>10. Firsts(t) = Firsts(s)
  BY <1>3 DEF Firsts, SameName
<1>11. QED
  BY <1>4, <1>5, <1>6, <1>7, <1>9, <1>10 DEF RowsAgree

LEMMA RowDueSole ==
  ASSUME OutboxInv, OutboxInv', SoleInv, NEW w \in Workers, Workers = {w}, NEW n, RowDue(n)
  PROVE  SoleInv'
<1> DEFINE r == rows[n]
           q == [r EXCEPT !.due = TRUE]
<1>1. /\ n \in DOMAIN rows /\ rows' = [rows EXCEPT ![n] = q]
      /\ UNCHANGED <<file, wk, made, faults, switches, calls, known>>
  BY DEF RowDue
<1>2. /\ Typed(rows, file[w], made) /\ Typed(rows', file[w], made) /\ Episodes(rows)
      /\ WorkerFits(wk[w], rows, file[w])
  BY <1>1, InvTyped, InvTypedNext
<1>3. /\ RowsAgree(rows, file[w], calls, known, made) /\ BoundsFit /\ calls \in [Ids -> Nat]
      /\ NumbersFit(rows, file[w]) /\ BehindFit(rows, file[w])
      /\ Place(wk[w], rows, file[w], calls, made)
  BY SoleHas DEF RowsAgree
<1>4. r \in Row /\ r.tries <= r.tries
  BY <1>1, <1>2 DEF Typed
<1>5. /\ q.id = r.id /\ q.st = r.st /\ q.tries = r.tries /\ q.hist = r.hist /\ q.token = r.token
      /\ SameAlert(r, q)
  BY <1>4 DEF Row, SameAlert
<1> HIDE DEF q
<1>6. /\ DOMAIN rows' = DOMAIN rows /\ rows'[n] = q /\ Len(rows') = Len(rows) /\ Len(rows) \in Nat
      /\ \A j \in DOMAIN rows : j # n => rows'[j] = rows[j]
  BY <1>1, <1>2 DEF Typed
<1>7. RowGoesOn(r, q)
  BY <1>1, <1>3, <1>4, <1>5 DEF RowGoesOn, NumbersFit
<1>8. \A f \in file[w] : q.id = Down(f.inc) => Behind(q, f)
  <2>1. \A f \in file[w] : r.id = Down(f.inc) => Behind(r, f)
    BY <1>1, <1>3 DEF BehindFit
  <2>2. QED
    BY <1>5, <2>1 DEF Behind
<1>9. RowsAgree(rows', file[w], calls, known, made) /\ Firsts(rows') = Firsts(rows)
  <2>1. RowGoesOn(rows[n], rows'[n]) /\ \A f \in file[w] : rows'[n].id = Down(f.inc) => Behind(rows'[n], f)
    BY <1>6, <1>7, <1>8
  <2>2. n \in DOMAIN rows /\ calls \in [Ids -> Nat] /\ RowsAgree(rows, file[w], calls, known, made)
    BY <1>1, <1>3
  <2>3. DOMAIN rows' = DOMAIN rows /\ \A j \in DOMAIN rows : j # n => rows'[j] = rows[j]
    BY <1>6
  <2>4. QED
    BY <1>2, <2>1, <2>2, <2>3, ReplacedAgree
<1>10. Place(wk[w], rows', file[w], calls, made)
  <2>1. \A j \in DOMAIN rows : /\ j \in DOMAIN rows' /\ rows'[j].id = rows[j].id
                               /\ rows'[j].st = rows[j].st /\ rows'[j].tries = rows[j].tries
    BY <1>5, <1>6
  <2>2. Len(rows) <= Len(rows')
    BY <1>6
  <2>3. QED
    BY <1>2, <1>3, <1>6, <2>1, <2>2, SameFile, PlaceKept
<1>11. QED
  BY <1>1, <1>3, <1>9, <1>10, RowsSole DEF BoundsFit

-----------------------------------------------------------------------------
(* Steps of the only worker that change one delivery *)

\* What a delivery is after a step, with its number of attempts.
LEMMA ReclaimedNumbers ==
  ASSUME NEW m \in Nat, NEW r, RowFits(r, m), Counted(r.hist, r.tries), r.token <= MaxAttempts
  PROVE  /\ Reclaimed(r).id = r.id /\ Reclaimed(r).token = r.token /\ Reclaimed(r).tries = r.tries
         /\ Counted(Reclaimed(r).hist, r.tries)
<1>1. r \in Row /\ r.hist \in Seq(Entry)
  BY DEF RowFits, Row
<1>2. CASE r.st # "sending"
  BY <1>2 DEF Reclaimed
<1>3. CASE r.st = "sending"
  <2> DEFINE h == Closed(r.hist, "unknown")
  <2>1. Counted(h, r.tries)
    BY <1>1, ClosedCounts
  <2> HIDE DEF h
  <2>2. Reclaimed(r) = [r EXCEPT !.hist = h]
    BY <1>3 DEF Reclaimed, h
  <2>3. QED
    BY <1>1, <2>1, <2>2 DEF Row
<1>4. QED
  BY <1>2, <1>3

LEMMA ClaimedGoesOn ==
  ASSUME NEW m \in Nat, NEW r, RowFits(r, m), Counted(r.hist, r.tries), r.token <= MaxAttempts,
         r.st # "sent", r.tries < MaxAttempts
  PROVE  /\ RowGoesOn(r, Claimed(Reclaimed(r))) /\ Claimed(Reclaimed(r)).st = "sending"
         /\ Claimed(Reclaimed(r)).tries = r.tries + 1 /\ r.tries + 1 <= MaxAttempts /\ r.tries \in Nat
<1> DEFINE q == Reclaimed(r)
           o == Opened(q.hist, q.tries + 1, 0)
           s == Claimed(q)
<1>1. r \in Row /\ r.tries \in Nat /\ MaxAttempts \in Nat
  BY OutboxAssumption DEF OutboxAssumption, RowFits, Row
<1>2. q \in Row /\ q.hist \in Seq(Entry)
  BY ReclaimedRow DEF Row
<1>3. /\ q.id = r.id /\ q.token = r.token /\ q.tries = r.tries /\ Counted(q.hist, r.tries)
  BY ReclaimedNumbers
<1>4. SameAlert(r, s)
  BY ClaimedRow
<1> HIDE DEF q
<1>5. Counted(o, r.tries + 1)
  BY <1>1, <1>2, <1>3, OpenedCounts
<1>6. s = [q EXCEPT !.st = "sending", !.tries = q.tries + 1, !.due = FALSE,
                    !.token = q.tries + 1, !.hist = o]
  BY DEF Claimed
<1> HIDE DEF o, s
<1>7. /\ s.id = q.id /\ s.st = "sending" /\ s.tries = q.tries + 1 /\ s.token = q.tries + 1 /\ s.hist = o
  BY <1>2, <1>6 DEF Row
<1>8. r.tries <= s.tries /\ s.token <= MaxAttempts /\ r.tries + 1 <= MaxAttempts
  BY <1>1, <1>3, <1>7
<1>9. RowGoesOn(r, s)
  BY <1>3, <1>4, <1>5, <1>7, <1>8 DEF RowGoesOn
<1>10. QED
  BY <1>1, <1>3, <1>7, <1>8, <1>9 DEF s, q

LEMMA ExhaustedGoesOn ==
  ASSUME NEW m \in Nat, NEW r, RowFits(r, m), Counted(r.hist, r.tries), r.token <= MaxAttempts,
         r.st # "sent"
  PROVE  RowGoesOn(r, Exhausted(r))
<1> DEFINE q == Reclaimed(r)
           s == [q EXCEPT !.st = "failed", !.token = 0]
<1>1. r.tries <= r.tries /\ MaxAttempts \in Nat
  BY OutboxAssumption DEF OutboxAssumption, RowFits, Row
<1>2. q \in Row
  BY ReclaimedRow
<1>3. q.id = r.id /\ q.tries = r.tries /\ Counted(q.hist, r.tries)
  BY ReclaimedNumbers
<1>4. SameAlert(r, Exhausted(r)) /\ Exhausted(r) = s
  BY ExhaustedRow DEF Exhausted
<1> HIDE DEF q
<1>5. s.id = q.id /\ s.tries = q.tries /\ s.hist = q.hist /\ s.token = 0
  BY <1>2 DEF Row
<1> HIDE DEF s
<1>6. QED
  BY <1>1, <1>3, <1>4, <1>5 DEF RowGoesOn

LEMMA FinishedGoesOn ==
  ASSUME NEW m \in Nat, NEW r, RowFits(r, m), Counted(r.hist, r.tries), r.token <= MaxAttempts,
         r.st = "sending", NEW v \in Results
  PROVE  RowGoesOn(r, Finished(r, v)) /\ (v = "sent" => Finished(r, v).st = "sent")
<1> DEFINE h == Closed(r.hist, Recorded(v))
           s == Finished(r, v)
<1>1. r \in Row /\ r.hist \in Seq(Entry) /\ r.tries <= r.tries /\ MaxAttempts \in Nat
  BY OutboxAssumption DEF OutboxAssumption, RowFits, Row
<1>2. Recorded(v) \in Statuses \cup {"unknown"} /\ (v = "sent" => After(v, r.tries) = "sent")
  BY DEF Recorded, After, Results, Statuses, Final
<1>3. Counted(h, r.tries)
  BY <1>1, <1>2, ClosedCounts
<1>4. SameAlert(r, s)
  BY FinishedRow
<1>5. s = [r EXCEPT !.st = After(v, r.tries), !.due = FALSE, !.token = 0, !.hist = h]
  BY DEF Finished
<1> HIDE DEF h, s
<1>6. s.id = r.id /\ s.st = After(v, r.tries) /\ s.tries = r.tries /\ s.token = 0 /\ s.hist = h
  BY <1>1, <1>5 DEF Row
<1>7. RowGoesOn(r, s)
  BY <1>1, <1>3, <1>4, <1>6 DEF RowGoesOn
<1>8. QED
  BY <1>2, <1>6, <1>7 DEF s

LEMMA RowStepSole ==
  ASSUME OutboxInv, OutboxInv', SoleInv, NEW w \in Workers, UNCHANGED <<file, made>>,
         NEW n \in DOMAIN rows, NEW q, rows' = [rows EXCEPT ![n] = q], RowGoesOn(rows[n], q),
         \A f \in file[w] : q.id = Down(f.inc) => Behind(q, f)
  PROVE  /\ RowsAgree(rows', file[w], calls, known, made) /\ Cardinality(Firsts(rows')) <= MaxOther
         /\ rows'[n] = q /\ DOMAIN rows' = DOMAIN rows /\ Len(rows') = Len(rows) /\ Len(rows) \in Nat
         /\ \A j \in DOMAIN rows : j # n => rows'[j] = rows[j]
<1>1. /\ Typed(rows, file[w], made) /\ Typed(rows', file[w], made) /\ Episodes(rows)
  BY InvTyped, InvTypedNext
<1>2. /\ RowsAgree(rows, file[w], calls, known, made) /\ calls \in [Ids -> Nat]
      /\ Cardinality(Firsts(rows)) <= MaxOther
  BY SoleHas DEF BoundsFit
<1>3. /\ DOMAIN rows' = DOMAIN rows /\ rows'[n] = q /\ Len(rows') = Len(rows) /\ Len(rows) \in Nat
      /\ \A j \in DOMAIN rows : j # n => rows'[j] = rows[j]
  BY <1>1 DEF Typed
<1>4. RowGoesOn(rows[n], rows'[n]) /\ \A f \in file[w] : rows'[n].id = Down(f.inc) => Behind(rows'[n], f)
  BY <1>3
<1>5. RowsAgree(rows', file[w], calls, known, made) /\ Firsts(rows') = Firsts(rows)
  <2>1. Typed(rows', file[w], made) /\ Typed(rows, file[w], made) /\ Episodes(rows)
    BY <1>1
  <2>2. n \in DOMAIN rows /\ calls \in [Ids -> Nat] /\ RowsAgree(rows, file[w], calls, known, made)
    BY <1>2
  <2>3. DOMAIN rows' = DOMAIN rows /\ \A j \in DOMAIN rows : j # n => rows'[j] = rows[j]
    BY <1>3
  <2>4. QED
    BY ONLY <1>4, <2>1, <2>2, <2>3, ReplacedAgree
<1>6. QED
  BY <1>2, <1>3, <1>5

LEMMA ClaimDeliverySole ==
  ASSUME OutboxInv, OutboxInv', SoleInv, NEW w \in Workers, Workers = {w}, ClaimDelivery(w)
  PROVE  SoleInv'
<1>1. PICK n \in DOMAIN rows :
        /\ Claimable(rows[n]) /\ Reclaimed(rows[n]).tries < MaxAttempts
        /\ rows' = [rows EXCEPT ![n] = Claimed(Reclaimed(rows[n]))]
        /\ Answers(w, [wk[w] EXCEPT !.pc = "send", !.at = n, !.token = Reclaimed(rows[n]).tries + 1])
  BY DEF ClaimDelivery, Claimed
<1> DEFINE r == rows[n]
           q == Claimed(Reclaimed(r))
           e == [wk[w] EXCEPT !.pc = "send", !.at = n, !.token = Reclaimed(r).tries + 1]
<1>2. wk[w].pc = "claim" /\ UNCHANGED <<file, made, switches, calls, known>>
  BY DEF ClaimDelivery
<1>3. Typed(rows, file[w], made)
  BY InvTyped
<1>4. /\ NumbersFit(rows, file[w]) /\ CallFit(calls, rows, file[w]) /\ IdsFit(rows, made)
      /\ file[w] = {} /\ calls \in [Ids -> Nat]
  BY <1>2, SoleHas DEF RowsAgree, Place
<1>5. /\ RowFits(r, made) /\ made \in Nat /\ Counted(r.hist, r.tries) /\ r.token <= MaxAttempts
      /\ r.tries \in Nat /\ r.st # "sent" /\ n <= Len(rows) /\ n \in Nat
  BY <1>1, <1>3, <1>4 DEF Typed, NumbersFit, Claimable
<1>6. Reclaimed(r).tries = r.tries
  BY <1>5, ReclaimedNumbers
<1>7. r.tries < MaxAttempts
  BY <1>1, <1>6
<1>8. /\ RowGoesOn(r, q) /\ q.st = "sending" /\ q.tries = r.tries + 1 /\ r.tries + 1 <= MaxAttempts
  BY <1>5, <1>7, ClaimedGoesOn
<1>9. rows' = [rows EXCEPT ![n] = q] /\ Answers(w, e)
  BY <1>1
<1>10. e.pc = "send" /\ e.at = n /\ e.token = r.tries + 1 /\ e.res = wk[w].res
  BY <1>6, SameHands DEF Worker
<1> HIDE DEF q, e
<1>11. /\ RowsAgree(rows', file[w], calls, known, made) /\ Cardinality(Firsts(rows')) <= MaxOther
       /\ rows'[n] = q /\ Len(rows') = Len(rows) /\ Len(rows) \in Nat
  BY <1>2, <1>4, <1>8, <1>9, RowStepSole
<1>12. \A id \in Ids : q.id = id => calls[id] < q.tries
  <2> SUFFICES ASSUME NEW id \in Ids, q.id = id PROVE calls[id] < q.tries
    OBVIOUS
  <2>1. r.id = id /\ calls[id] \in Nat
    BY <1>4, <1>8 DEF RowGoesOn
  <2>2. \A j \in DOMAIN rows : rows[j].id = id => j = n
    BY <1>4, <2>1 DEF IdsFit
  <2>3. calls[id] = 0 \/ calls[id] <= r.tries
    BY <1>4, <2>2 DEF CallFit
  <2>4. QED
    BY <1>5, <1>8, <2>1, <2>3
<1>13. Place(e, rows', file[w], calls, made)
  BY <1>4, <1>5, <1>8, <1>10, <1>11, <1>12, SameHands DEF Place
<1>14. Place(wk'[w], rows', file[w], calls, made) /\ faults' \in 0 .. MaxFaults
  BY <1>9, <1>11, <1>13, AnswerPlace
<1>15. QED
  BY <1>2, <1>11, <1>14, RowsSole

LEMMA ClaimExhaustedSole ==
  ASSUME OutboxInv, OutboxInv', SoleInv, NEW w \in Workers, Workers = {w}, ClaimExhausted(w)
  PROVE  SoleInv'
<1>1. PICK n \in DOMAIN rows : Claimable(rows[n]) /\ rows' = [rows EXCEPT ![n] = Exhausted(rows[n])]
  BY DEF ClaimExhausted, Exhausted
<1> DEFINE r == rows[n]
           q == Exhausted(r)
<1>2. wk[w].pc = "claim" /\ Answers(w, Idle) /\ UNCHANGED <<file, made, switches, calls, known>>
  BY DEF ClaimExhausted
<1>3. Typed(rows, file[w], made) /\ NumbersFit(rows, file[w]) /\ file[w] = {}
  BY <1>2, SoleHas, InvTyped DEF RowsAgree, Place
<1>4. /\ RowFits(r, made) /\ made \in Nat /\ Counted(r.hist, r.tries) /\ r.token <= MaxAttempts
      /\ r.st # "sent"
  BY <1>1, <1>3 DEF Typed, NumbersFit, Claimable
<1>5. RowGoesOn(r, q) /\ rows' = [rows EXCEPT ![n] = q]
  BY <1>1, <1>4, ExhaustedGoesOn
<1> HIDE DEF q
<1>6. /\ RowsAgree(rows', file[w], calls, known, made) /\ Cardinality(Firsts(rows')) <= MaxOther
      /\ Len(rows') = Len(rows) /\ Len(rows) \in Nat
  BY <1>2, <1>3, <1>5, RowStepSole
<1>7. Len(rows') \in Nat
  BY <1>6
<1>8. Place(Idle, rows', file[w], calls, made)
  BY <1>7, PlaceIdle
<1>9. Place(wk'[w], rows', file[w], calls, made) /\ faults' \in 0 .. MaxFaults
  BY <1>2, <1>7, <1>8, AnswerPlace
<1>10. QED
  BY <1>2, <1>6, <1>9, RowsSole

LEMMA FinishDeliverySole ==
  ASSUME OutboxInv, OutboxInv', SoleInv, NEW w \in Workers, Workers = {w}, FinishDelivery(w)
  PROVE  SoleInv'
<1> DEFINE n == wk[w].at
           r == rows[n]
           v == wk[w].res
           q == Finished(r, v)
<1>1. /\ wk[w].pc = "finish" /\ Answers(w, Idle) /\ UNCHANGED <<file, made, switches, calls>>
      /\ IF Fenced(w) THEN /\ rows' = [rows EXCEPT ![n] = q]
                           /\ known' = IF v = "sent" THEN known \cup {r.id} ELSE known
         ELSE UNCHANGED <<rows, known>>
  BY DEF FinishDelivery, Finished
<1>2. /\ Typed(rows, file[w], made) /\ NumbersFit(rows, file[w]) /\ file[w] = {}
      /\ n \in DOMAIN rows /\ v \in Results /\ Len(rows) \in Nat
  BY <1>1, SoleHas, InvTyped DEF RowsAgree, Place, WorkerFits
<1>3. CASE ~Fenced(w)
  <2>1. UNCHANGED <<rows, known>>
    BY <1>1, <1>3
  <2>2. Place(Idle, rows, file[w], calls, made)
    BY <1>2, PlaceIdle
  <2>3. QED
    BY <1>1, <2>1, <2>2, QuietAnswerSole
<1>4. CASE Fenced(w)
  <2>1. /\ RowFits(r, made) /\ made \in Nat /\ Counted(r.hist, r.tries) /\ r.token <= MaxAttempts
        /\ r.st = "sending"
    BY <1>2, <1>4 DEF Typed, NumbersFit, Fenced
  <2>2. RowGoesOn(r, q) /\ (v = "sent" => q.st = "sent")
    BY <1>2, <2>1, FinishedGoesOn
  <2>3. /\ rows' = [rows EXCEPT ![n] = q]
        /\ known' = IF v = "sent" THEN known \cup {r.id} ELSE known
    BY <1>1, <1>4
  <2> HIDE DEF q, n, v
  <2>4. /\ RowsAgree(rows', file[w], calls, known, made) /\ Cardinality(Firsts(rows')) <= MaxOther
        /\ rows'[n] = q /\ Len(rows') = Len(rows) /\ Len(rows) \in Nat /\ DOMAIN rows' = DOMAIN rows
    BY <1>1, <1>2, <2>2, <2>3, RowStepSole
  <2>5. KnownFit(known', rows', file[w])
    <3>1. KnownFit(known, rows', file[w])
      BY <2>4 DEF RowsAgree
    <3>2. v = "sent" => rows'[n].id = r.id /\ rows'[n].st = "sent" /\ n \in DOMAIN rows'
      BY <1>2, <2>2, <2>4 DEF RowGoesOn
    <3>3. \A id \in known' : id \in known \/ (v = "sent" /\ id = r.id)
      BY <2>3
    <3>4. QED
      BY <3>1, <3>2, <3>3 DEF KnownFit
  <2>6. RowsAgree(rows', file[w], calls, known', made)
    BY <2>4, <2>5 DEF RowsAgree
  <2>7. Len(rows') \in Nat
    BY <2>4
  <2>8. Place(Idle, rows', file[w], calls, made)
    BY <2>7, PlaceIdle
  <2>9. Place(wk'[w], rows', file[w], calls, made) /\ faults' \in 0 .. MaxFaults
    BY <1>1, <2>7, <2>8, AnswerPlace
  <2>10. QED
    BY <1>1, <2>4, <2>6, <2>9, RowsSole
<1>5. QED
  BY <1>3, <1>4

-----------------------------------------------------------------------------
(* The merge by the only worker *)

\* What the delivery is merged to, while all its entries are of the incident.
LEMMA MergedAlone ==
  ASSUME NEW m \in Nat, NEW r, RowFits(r, m), NEW f, FileFits(f, m), Behind(r, f), r.st # "sent",
         r.token <= MaxAttempts, Counted(f.hist, f.tries)
  PROVE  /\ RowGoesOn(r, Merged(r, Interrupted(f))) /\ Behind(Merged(r, Interrupted(f)), f)
         /\ Merged(r, Interrupted(f)).tries = f.tries
         /\ f.st = "sent" => Merged(r, Interrupted(f)).st = "sent"
<1> DEFINE g == Interrupted(f)
           h == Ended(f)
           o == OtherEntries(r.hist, f.inc)
           q == Merged(r, g)
<1>1. /\ r \in Row /\ r.hist \in Seq(Entry) /\ r.tries \in Nat /\ r.st # "sending"
      /\ r.tries <= f.tries /\ \A k \in DOMAIN r.hist : r.hist[k].inc = f.inc
  BY DEF RowFits, Row, Behind
<1>2. f \in File /\ f.hist \in Seq(Entry) /\ f.tries \in Nat
  BY DEF FileFits, File
<1>3. g.hist = h /\ g.inc = f.inc /\ g.st # "sending" /\ h \in Seq(Entry)
  BY InterruptedFile, EndedHistory
<1>4. \A k \in DOMAIN h : h[k].inc = f.inc
  BY EndedHistory
<1>5. g.tries = f.tries /\ (g.st = "sent" <=> f.st = "sent")
  BY <1>2 DEF Interrupted, File
<1>6. Counted(h, f.tries)
  BY <1>2, ClosedCounts DEF Ended
<1>7. o = << >>
  <2>1. o \in Seq(Entry) /\ \A j \in DOMAIN o : \E i \in DOMAIN r.hist : r.hist[i].inc # f.inc
    <3>1. r.hist \in Seq(Entry)
      BY <1>1
    <3>2. /\ o \in Seq(Entry)
          /\ \A j \in DOMAIN o : \E i \in DOMAIN r.hist : o[j] = r.hist[i] /\ r.hist[i].inc # f.inc
      BY <3>1, OtherEntriesKept
    <3>3. QED
      BY <3>2
  <2> HIDE DEF o
  <2>2. DOMAIN o = {}
    BY <1>1, <2>1
  <2>3. QED
    BY <2>1, <2>2
<1>8. SameAlert(r, q)
  BY <1>1, MergedRow
<1>9. q = [r EXCEPT !.st = g.st, !.due = g.due,
                    !.tries = IF g.tries > r.tries THEN g.tries ELSE r.tries,
                    !.hist = OtherEntries(r.hist, g.inc) \o g.hist]
  BY DEF Merged
<1> HIDE DEF g, h, q
<1>10. q.id = r.id /\ q.st = g.st /\ q.token = r.token
  BY <1>1, <1>9 DEF Row
<1>11. q.tries = f.tries
  <2>1. q.tries = IF g.tries > r.tries THEN g.tries ELSE r.tries
    BY <1>1, <1>9 DEF Row
  <2>2. QED
    BY <1>1, <1>2, <1>5, <2>1
<1>12. q.hist = h
  <2>1. q.hist = OtherEntries(r.hist, g.inc) \o g.hist
    BY <1>1, <1>9 DEF Row
  <2>2. q.hist = << >> \o h
    BY <1>3, <1>7, <2>1
  <2>3. QED
    BY <1>3, <2>2
<1>13. RowGoesOn(r, q)
  BY <1>1, <1>6, <1>8, <1>10, <1>11, <1>12 DEF RowGoesOn
<1>14. Behind(q, f)
  <2>1. q.tries <= f.tries
    BY <1>2, <1>11
  <2>2. QED
    BY <1>3, <1>4, <1>5, <1>10, <1>11, <1>12, <2>1 DEF Behind
<1>15. QED
  BY <1>5, <1>10, <1>11, <1>13, <1>14 DEF q, g

\* What is not merged is already there.
LEMMA KeptSynced ==
  ASSUME NEW m \in Nat, NEW r, RowFits(r, m), NEW f, FileFits(f, m), Behind(r, f),
         Counted(r.hist, r.tries), ~Importable(r, f)
  PROVE  r.tries = f.tries /\ (f.st = "sent" => r.st = "sent")
<1>1. /\ r.hist \in Seq(Entry) /\ r.tries \in Nat /\ f.tries \in Nat /\ r.st # "sending"
      /\ r.tries <= f.tries
  BY DEF RowFits, Row, Behind, FileFits, File
<1>2. CASE r.st = "sent"
  BY <1>2 DEF Behind
<1>3. CASE r.st # "sent"
  <2>1. /\ r.tries # 0 /\ f.st # "sent"
        /\ ~(f.tries > r.tries /\ \E k \in DOMAIN r.hist : r.hist[k].inc = f.inc)
    BY <1>1, <1>3 DEF Importable
  <2>2. 1 \in DOMAIN r.hist
    BY <1>1, <2>1 DEF Counted
  <2>3. r.hist[1].inc = f.inc
    BY <2>2 DEF Behind
  <2>4. ~(f.tries > r.tries)
    BY <2>1, <2>2, <2>3
  <2>5. QED
    BY <1>1, <2>1, <2>4
<1>4. QED
  BY <1>2, <1>3

LEMMA ImportSole ==
  ASSUME OutboxInv, OutboxInv', SoleInv, NEW w \in Workers, Workers = {w}, Import(w)
  PROVE  SoleInv'
<1> DEFINE n == wk[w].at
           e == [wk[w] EXCEPT !.pc = "recover", !.at = 0]
<1>1. PICK f \in file[w] :
        rows' = IF Importable(rows[n], f)
                THEN [rows EXCEPT ![n] = Merged(rows[n], Interrupted(f))] ELSE rows
  BY DEF Import
<1> DEFINE r == rows[n]
           q == Merged(r, Interrupted(f))
<1>2. wk[w].pc = "import" /\ Answers(w, e) /\ UNCHANGED <<file, made, switches, calls, known>>
  BY DEF Import
<1>3. /\ Typed(rows, file[w], made) /\ n \in DOMAIN rows /\ wk[w] \in Worker
      /\ \A g \in file[w] : g = f
  BY <1>2, InvTyped DEF WorkerFits, Typed
<1>4. /\ RowsAgree(rows, file[w], calls, known, made) /\ NumbersFit(rows, file[w])
      /\ BehindFit(rows, file[w]) /\ r.id = Down(f.inc) /\ calls \in [Ids -> Nat]
  BY <1>2, SoleHas DEF RowsAgree, Place
<1>5. /\ RowFits(r, made) /\ FileFits(f, made) /\ made \in Nat
      /\ Counted(r.hist, r.tries) /\ r.token <= MaxAttempts /\ Counted(f.hist, f.tries) /\ Behind(r, f)
  BY <1>3, <1>4 DEF Typed, NumbersFit, BehindFit
<1>6. e.pc = "recover" /\ e.at = 0 /\ e.token = wk[w].token /\ e.res = wk[w].res
  BY <1>3 DEF Worker
<1> HIDE DEF e
<1>7. ASSUME NEW s, Len(s) \in Nat, \E j \in DOMAIN s : Synced(s[j], f)
      PROVE  Place(e, s, file[w], calls, made)
  <2>1. 0 <= Len(s)
    BY <1>7
  <2>2. \A g \in file[w] : \E j \in DOMAIN s : Synced(s[j], g)
    BY <1>3, <1>7
  <2>3. QED
    BY <1>6, <2>1, <2>2, SameHands DEF Place
<1>8. CASE ~Importable(r, f)
  <2>1. UNCHANGED rows
    BY <1>1, <1>8
  <2>2. Synced(r, f)
    BY <1>4, <1>5, <1>8, KeptSynced DEF Synced
  <2>3. Len(rows) \in Nat
    BY <1>3 DEF Typed
  <2>4. Place(e, rows, file[w], calls, made)
    BY <1>3, <1>7, <2>2, <2>3
  <2>5. QED
    BY <1>2, <2>1, <2>4, QuietAnswerSole
<1>9. CASE Importable(r, f)
  <2>1. r.st # "sent"
    BY <1>9 DEF Importable
  <2>2. /\ RowGoesOn(r, q) /\ Behind(q, f) /\ q.tries = f.tries /\ (f.st = "sent" => q.st = "sent")
    BY <1>5, <2>1, MergedAlone
  <2>3. rows' = [rows EXCEPT ![n] = q]
    BY <1>1, <1>9
  <2> HIDE DEF q, n
  <2>4. \A g \in file[w] : q.id = Down(g.inc) => Behind(q, g)
    BY <1>3, <2>2
  <2>5. UNCHANGED <<file, made>>
    BY <1>2
  <2>6. /\ RowsAgree(rows', file[w], calls, known, made) /\ Cardinality(Firsts(rows')) <= MaxOther
        /\ rows'[n] = q /\ Len(rows') = Len(rows) /\ Len(rows) \in Nat /\ DOMAIN rows' = DOMAIN rows
    BY <1>3, <2>2, <2>3, <2>4, <2>5, RowStepSole
  <2>7. Synced(q, f)
    BY <1>4, <2>2 DEF Synced, RowGoesOn
  <2>8. Len(rows') \in Nat
    BY <2>6
  <2>9. Place(e, rows', file[w], calls, made)
    BY <1>3, <1>7, <2>6, <2>7, <2>8
  <2>10. Place(wk'[w], rows', file[w], calls, made) /\ faults' \in 0 .. MaxFaults
    BY <1>2, <2>8, <2>9, AnswerPlace
  <2>11. QED
    BY <1>2, <2>6, <2>10, RowsSole
<1>10. QED
  BY <1>8, <1>9

-----------------------------------------------------------------------------
(* Steps of the only worker that write its file *)

\* The step writes the file again, for the same incident.
LEMMA FileStepSole ==
  ASSUME OutboxInv, OutboxInv', SoleInv, NEW w \in Workers, Workers = {w},
         NEW f \in file[w], NEW g, file' = [file EXCEPT ![w] = {g}],
         UNCHANGED <<rows, made, faults, switches, calls>>,
         g.inc = f.inc, f.tries <= g.tries, f.st = "sent" => g.st = "sent" /\ g.tries = f.tries,
         Counted(g.hist, g.tries),
         known' = known \/ (g.st = "sent" /\ known' = known \cup {Down(f.inc)}),
         Place(wk'[w], rows, {g}, calls, made)
  PROVE  SoleInv'
<1> DEFINE fs == file[w]
           gs == {g}
<1>1. file'[w] = gs
  BY DEF OutboxInv, FilesFit
<1>2. /\ Typed(rows, fs, made) /\ Typed(rows, gs, made) /\ Episodes(rows) /\ \A h \in fs : h = f
  <2>1. Typed(rows, fs, made) /\ Episodes(rows)
    BY InvTyped
  <2>2. Typed(rows', file'[w], made')
    BY InvTypedNext
  <2>3. QED
    BY <1>1, <2>1, <2>2 DEF Typed
<1>3. /\ IdsFit(rows, made) /\ NumbersFit(rows, fs) /\ BehindFit(rows, fs) /\ ActiveFit(rows, fs)
      /\ DoneFit(rows, fs, made) /\ CallFit(calls, rows, fs) /\ KnownFit(known, rows, fs)
      /\ BoundsFit /\ calls \in [Ids -> Nat]
  BY SoleHas DEF RowsAgree
<1>4. GoesOn(fs, gs)
  BY <1>2 DEF GoesOn
<1>5. Grows(rows, rows)
  <2>1. \A n \in DOMAIN rows : rows[n].tries <= rows[n].tries
    BY <1>2 DEF Typed
  <2>2. QED
    BY <2>1 DEF Grows
<1> HIDE DEF fs
<1>6. NumbersFit(rows, gs)
  BY <1>3 DEF NumbersFit
<1>7. BehindFit(rows, gs)
  <2> SUFFICES ASSUME NEW n \in DOMAIN rows, rows[n].id = Down(g.inc) PROVE Behind(rows[n], g)
    BY DEF BehindFit
  <2>1. Behind(rows[n], f)
    BY <1>3 DEF BehindFit, fs
  <2>2. rows[n].tries \in Nat /\ f.tries \in Nat /\ g.tries \in Nat
    BY <1>2 DEF Typed, fs
  <2>3. rows[n].tries <= g.tries
    BY <2>1, <2>2 DEF Behind
  <2>4. QED
    BY <2>1, <2>3 DEF Behind
<1>8. ActiveFit(rows, gs)
  BY <1>2, <1>3 DEF ActiveFit
<1> HIDE DEF gs
<1>9. DoneFit(rows, gs, made) /\ CallFit(calls, rows, gs) /\ KnownFit(known, rows, gs)
  BY <1>2, <1>3, <1>4, <1>5, ProgressKeeps
<1>10. KnownFit(known', rows, gs)
  BY <1>9 DEF KnownFit, gs
<1>11. RowsAgree(rows, gs, calls, known', made)
  BY <1>3, <1>6, <1>7, <1>8, <1>9, <1>10 DEF RowsAgree
<1>12. BoundsFit'
  BY <1>3 DEF BoundsFit
<1>13. Place(wk'[w], rows, gs, calls, made)
  BY DEF gs
<1>14. QED
  BY <1>1, <1>11, <1>12, <1>13, OnlyOne

LEMMA EndedCounts ==
  ASSUME NEW m \in Nat, NEW f, FileFits(f, m), Counted(f.hist, f.tries)
  PROVE  Counted(Ended(f), f.tries)
<1>1. f.hist \in Seq(Entry)
  BY DEF FileFits, File
<1>2. Counted(Closed(f.hist, "unknown"), f.tries)
  BY <1>1, ClosedCounts
<1>3. QED
  BY <1>2 DEF Ended

LEMMA FileHas ==
  ASSUME OutboxInv, SoleInv, NEW w \in Workers, NEW f \in file[w]
  PROVE  /\ FileFits(f, made) /\ made \in Nat /\ f \in File /\ f.hist \in Seq(Entry)
         /\ f.tries \in Nat /\ MaxAttempts \in Nat
         /\ Counted(f.hist, f.tries) /\ \A g \in file[w] : g = f
<1>1. Typed(rows, file[w], made) /\ NumbersFit(rows, file[w])
  BY InvTyped, SoleHas DEF RowsAgree
<1>2. QED
  BY <1>1 DEF Typed, NumbersFit

LEMMA ClaimOfflineSole ==
  ASSUME OutboxInv, OutboxInv', SoleInv, NEW w \in Workers, Workers = {w}, ClaimOffline(w)
  PROVE  SoleInv'
<1>1. PICK f \in file[w] :
        /\ f.st \notin Final /\ f.tries < MaxAttempts
        /\ file' = [file EXCEPT ![w] =
             {[f EXCEPT !.st = "sending", !.tries = f.tries + 1, !.due = FALSE,
                 !.hist = Opened(Ended(f), f.tries + 1, f.inc)]}]
  BY DEF ClaimOffline, Ended
<1> DEFINE e == [wk[w] EXCEPT !.pc = "osend"]
           h == Ended(f)
           o == Opened(h, f.tries + 1, f.inc)
           g == [f EXCEPT !.st = "sending", !.tries = f.tries + 1, !.due = FALSE, !.hist = o]
<1>2. Goes(w, e) /\ UNCHANGED <<rows, made, switches, calls, known>>
  BY DEF ClaimOffline
<1>3. /\ FileFits(f, made) /\ made \in Nat /\ f \in File /\ f.tries \in Nat /\ f.inc \in Nat
      /\ Counted(f.hist, f.tries) /\ \A x \in file[w] : x = f
  BY FileHas DEF File
<1>4. h \in Seq(Entry) /\ Counted(h, f.tries)
  BY <1>3, EndedHistory, EndedCounts
<1>5. file' = [file EXCEPT ![w] = {g}]
  BY <1>1
<1> HIDE DEF h
<1>6. Counted(o, f.tries + 1)
  BY <1>1, <1>3, <1>4, OpenedCounts
<1> HIDE DEF o
<1>7. g.inc = f.inc /\ g.tries = f.tries + 1 /\ g.hist = o
  BY <1>3 DEF File
<1> HIDE DEF g
<1>8. f.tries <= g.tries /\ f.st # "sent" /\ Counted(g.hist, g.tries)
  BY <1>1, <1>3, <1>6, <1>7 DEF Final
<1>9. e.pc = "osend" /\ e.at = wk[w].at /\ e.token = wk[w].token /\ e.res = wk[w].res
  BY SameHands DEF Worker
<1> HIDE DEF e
<1>10. \A id \in Ids : id = Down(g.inc) => calls[id] < g.tries
  <2> SUFFICES ASSUME NEW id \in Ids, id = Down(f.inc) PROVE calls[id] < f.tries + 1
    BY <1>7
  <2>1. CallFit(calls, rows, file[w]) /\ calls[id] \in Nat
    BY SoleHas DEF RowsAgree
  <2>2. calls[id] = 0 \/ calls[id] <= f.tries
    BY <1>3, <2>1 DEF CallFit
  <2>3. QED
    BY <1>3, <2>1, <2>2
<1>11. Place(e, rows, {g}, calls, made)
  BY <1>9, <1>10, SameHands DEF Place
<1>12. wk'[w] = e /\ UNCHANGED faults
  BY <1>2, GoesPlace DEF Goes
<1>13. Place(wk'[w], rows, {g}, calls, made)
  BY <1>11, <1>12
<1>14. QED
  BY <1>2, <1>5, <1>7, <1>8, <1>12, <1>13, FileStepSole

LEMMA ExhaustOfflineSole ==
  ASSUME OutboxInv, OutboxInv', SoleInv, NEW w \in Workers, Workers = {w}, ExhaustOffline(w)
  PROVE  SoleInv'
<1>1. PICK f \in file[w] :
        /\ f.st \notin Final
        /\ file' = [file EXCEPT ![w] = {[f EXCEPT !.st = "failed", !.hist = Ended(f)]}]
  BY DEF ExhaustOffline, Ended
<1> DEFINE h == Ended(f)
           g == [f EXCEPT !.st = "failed", !.hist = h]
<1>2. Goes(w, Idle) /\ UNCHANGED <<rows, made, switches, calls, known>>
  BY DEF ExhaustOffline
<1>3. FileFits(f, made) /\ made \in Nat /\ f \in File /\ f.tries \in Nat /\ Counted(f.hist, f.tries)
  BY FileHas
<1>4. Counted(h, f.tries)
  BY <1>3, EndedCounts
<1>5. file' = [file EXCEPT ![w] = {g}]
  BY <1>1
<1> HIDE DEF h
<1>6. g.inc = f.inc /\ g.tries = f.tries /\ g.hist = h
  BY <1>3 DEF File
<1> HIDE DEF g
<1>7. f.tries <= g.tries /\ f.st # "sent" /\ Counted(g.hist, g.tries)
  BY <1>1, <1>3, <1>4, <1>6 DEF Final
<1>8. wk'[w] = Idle /\ UNCHANGED faults
  BY <1>2, GoesPlace DEF Goes
<1>9. Place(wk'[w], rows, {g}, calls, made)
  BY <1>8, SoleHas, PlaceIdle
<1>10. QED
  BY <1>2, <1>5, <1>6, <1>7, <1>8, <1>9, FileStepSole

LEMMA FinishOfflineSole ==
  ASSUME OutboxInv, OutboxInv', SoleInv, NEW w \in Workers, Workers = {w}, FinishOffline(w)
  PROVE  SoleInv'
<1> DEFINE v == wk[w].res
<1>1. PICK f \in file[w] :
        /\ file' = [file EXCEPT ![w] =
             {[f EXCEPT !.st = After(v, f.tries), !.due = FALSE, !.hist = Closed(f.hist, Recorded(v))]}]
        /\ known' = IF v = "sent" THEN known \cup {Down(f.inc)} ELSE known
  BY DEF FinishOffline
<1> DEFINE h == Closed(f.hist, Recorded(v))
           g == [f EXCEPT !.st = After(v, f.tries), !.due = FALSE, !.hist = h]
<1>2. wk[w].pc = "ofinish" /\ Goes(w, Idle) /\ UNCHANGED <<rows, made, switches, calls>>
  BY DEF FinishOffline
<1>3. f \in File /\ f.hist \in Seq(Entry) /\ f.tries \in Nat /\ Counted(f.hist, f.tries)
  BY FileHas
<1>4. v \in Results /\ f.st = "sending"
  BY <1>2, InvTyped DEF WorkerFits, Offline
<1>5. Recorded(v) \in Statuses \cup {"unknown"} /\ (v = "sent" => After(v, f.tries) = "sent")
  BY <1>4 DEF Recorded, After, Results, Statuses, Final
<1>6. Counted(h, f.tries)
  BY <1>3, <1>5, ClosedCounts
<1>7. file' = [file EXCEPT ![w] = {g}]
  BY <1>1
<1> HIDE DEF h, v
<1>8. g.inc = f.inc /\ g.tries = f.tries /\ g.hist = h /\ g.st = After(v, f.tries)
  BY <1>3 DEF File
<1> HIDE DEF g
<1>9. f.tries <= g.tries /\ f.st # "sent" /\ Counted(g.hist, g.tries)
  BY <1>3, <1>4, <1>6, <1>8
<1>10. known' = known \/ (g.st = "sent" /\ known' = known \cup {Down(f.inc)})
  BY <1>1, <1>5, <1>8
<1>11. wk'[w] = Idle /\ UNCHANGED faults
  BY <1>2, GoesPlace DEF Goes
<1>12. Place(wk'[w], rows, {g}, calls, made)
  BY <1>11, SoleHas, PlaceIdle
<1>13. QED
  BY <1>2, <1>7, <1>8, <1>9, <1>10, <1>11, <1>12, FileStepSole

LEMMA FileDueSole ==
  ASSUME OutboxInv, OutboxInv', SoleInv, NEW w \in Workers, Workers = {w}, FileDue(w)
  PROVE  SoleInv'
<1>1. PICK f \in file[w] : /\ f.st \in {"retrying", "sending"}
                           /\ file' = [file EXCEPT ![w] = {[f EXCEPT !.due = TRUE]}]
  BY DEF FileDue
<1> DEFINE g == [f EXCEPT !.due = TRUE]
<1>2. UNCHANGED <<rows, wk, made, faults, switches, calls, known>>
  BY DEF FileDue
<1>3. f \in File /\ f.tries \in Nat /\ Counted(f.hist, f.tries) /\ \A x \in file[w] : x = f
  BY FileHas
<1>4. g.inc = f.inc /\ g.tries = f.tries /\ g.hist = f.hist /\ g.st = f.st
  BY <1>3 DEF File
<1>5. file' = [file EXCEPT ![w] = {g}]
  BY <1>1
<1> HIDE DEF g
<1>6. f.tries <= g.tries /\ f.st # "sent" /\ Counted(g.hist, g.tries)
  BY <1>1, <1>3, <1>4
<1>7. Place(wk[w], rows, {g}, calls, made)
  <2>1. WorkerFits(wk[w], rows, file[w]) /\ Place(wk[w], rows, file[w], calls, made) /\ Len(rows) \in Nat
    BY InvTyped, SoleHas
  <2>2. Len(rows) <= Len(rows)
    BY <2>1
  <2> DEFINE fs == file[w]
             gs == {g}
  <2>3. fs = {} <=> gs = {}
    OBVIOUS
  <2>4. \A y \in gs : \E x \in fs : y.inc = x.inc /\ y.st = x.st /\ y.tries = x.tries
    BY <1>4
  <2>5. Place(wk[w], rows, gs, calls, made)
    <3> HIDE DEF gs
    <3>1. QED
      BY <2>1, <2>2, <2>3, <2>4, PlaceKept
  <2>6. QED
    BY <2>5
<1>8. Place(wk'[w], rows, {g}, calls, made)
  BY <1>2, <1>7
<1>9. QED
  BY <1>2, <1>4, <1>5, <1>6, <1>8, FileStepSole

LEMMA OpenIncidentSole ==
  ASSUME OutboxInv, OutboxInv', SoleInv, NEW w \in Workers, Workers = {w}, OpenIncident(w)
  PROVE  SoleInv'
<1> DEFINE e == [wk[w] EXCEPT !.pc = "opened"]
           g == [inc |-> made + 1, st |-> "pending", tries |-> 0, due |-> TRUE, hist |-> <<>>]
           gs == {g}
           p == made + 1
<1>1. /\ wk[w].pc = "outage" /\ file[w] = {} /\ Goes(w, e) /\ file' = [file EXCEPT ![w] = gs]
      /\ made' = p /\ UNCHANGED <<rows, switches, calls, known>>
  BY DEF OpenIncident
<1>2. g.inc = p /\ g.tries = 0 /\ g.hist = << >>
  OBVIOUS
<1>3. file'[w] = gs
  BY <1>1 DEF OutboxInv, FilesFit
<1>4. Typed(rows, file[w], made) /\ Episodes(rows) /\ made \in Nat /\ MaxAttempts \in Nat
  BY InvTyped DEF Typed
<1>5. /\ IdsFit(rows, made) /\ NumbersFit(rows, file[w]) /\ ActiveFit(rows, file[w])
      /\ DoneFit(rows, file[w], made) /\ CallFit(calls, rows, file[w]) /\ KnownFit(known, rows, file[w])
      /\ BoundsFit /\ calls \in [Ids -> Nat] /\ made < MaxIncidents
  BY <1>1, SoleHas DEF RowsAgree, Place
<1> HIDE DEF g
<1>6. p \in Nat /\ made <= p /\ p <= MaxIncidents
  BY <1>4, <1>5, OutboxAssumption DEF OutboxAssumption
<1>7. ASSUME NEW n \in DOMAIN rows PROVE rows[n].id # Down(p)
  <2>1. RowNamed(rows, n, made)
    BY <1>5 DEF IdsFit
  <2>2. ASSUME rows[n].id = Down(p) PROVE FALSE
    <3>1. rows[n].kind = "database" /\ rows[n].rel = 0
      BY <1>5, <2>2, DatabaseNamed
    <3>2. PICK i \in 1 .. made : rows[n].id = Down(i)
      BY <2>1, <3>1 DEF RowNamed
    <3>3. i = p
      BY <2>2, <3>2, IdsApart
    <3>4. QED
      BY <1>4, <3>3
  <2>3. QED
    BY <2>2
<1>8. IdsFit(rows, p)
  <2>1. \A n \in DOMAIN rows : SameName(rows[n], rows[n])
    BY DEF SameName
  <2> HIDE DEF p
  <2>2. QED
    BY <1>4, <1>5, <1>6, <2>1, NamesGrow
<1>9. NumbersFit(rows, gs)
  <2>1. Counted(<< >>, 0)
    BY <1>4 DEF Counted
  <2>2. QED
    BY <1>2, <1>5, <2>1 DEF NumbersFit
<1>10. BehindFit(rows, gs)
  BY <1>2, <1>7 DEF BehindFit
<1>11. ActiveFit(rows, gs)
  BY <1>1, <1>5 DEF ActiveFit
<1>12. DoneFit(rows, gs, p)
  <2>1. \A i \in 1 .. p : i \in 1 .. made \/ i = p
    BY <1>4
  <2>2. QED
    BY <1>1, <1>2, <1>5, <2>1 DEF DoneFit
<1>13. CallFit(calls, rows, gs)
  BY <1>1, <1>2, <1>5, <1>7 DEF CallFit
<1>14. KnownFit(known, rows, gs)
  BY <1>1, <1>5 DEF KnownFit
<1>15. RowsAgree(rows, gs, calls, known, p)
  BY <1>8, <1>9, <1>10, <1>11, <1>12, <1>13, <1>14 DEF RowsAgree
<1>16. e.pc = "opened" /\ e.at = wk[w].at /\ e.token = wk[w].token /\ e.res = wk[w].res
  BY SameHands DEF Worker
<1> HIDE DEF e, gs, p
<1>17. Place(e, rows, gs, calls, p)
  BY <1>16, SameHands DEF Place
<1>18. wk'[w] = e /\ faults' \in 0 .. MaxFaults
  BY <1>1, GoesPlace
<1>19. BoundsFit'
  BY <1>1, <1>5, <1>6, <1>18 DEF BoundsFit
<1>20. QED
  BY <1>1, <1>3, <1>15, <1>17, <1>18, <1>19, OnlyOne

LEMMA UnlinkSole ==
  ASSUME OutboxInv, OutboxInv', SoleInv, NEW w \in Workers, Workers = {w}, Unlink(w)
  PROVE  SoleInv'
<1> DEFINE e == [wk[w] EXCEPT !.pc = "health"]
           fs == file[w]
<1>1. /\ wk[w].pc = "unlink" /\ Goes(w, e) /\ file' = [file EXCEPT ![w] = {}]
      /\ UNCHANGED <<rows, made, switches, calls, known>>
  BY DEF Unlink
<1>2. file'[w] = {}
  BY <1>1 DEF OutboxInv, FilesFit
<1>3. Typed(rows, fs, made) /\ Episodes(rows)
  BY InvTyped
<1>4. /\ IdsFit(rows, made) /\ NumbersFit(rows, fs) /\ ActiveFit(rows, fs)
      /\ DoneFit(rows, fs, made) /\ CallFit(calls, rows, fs) /\ KnownFit(known, rows, fs) /\ BoundsFit
      /\ \A f \in fs : \E n \in DOMAIN rows : Synced(rows[n], f)
      /\ \A f \in fs : \E n \in DOMAIN rows : rows[n].id = Up(f.inc)
  BY <1>1, SoleHas DEF RowsAgree, Place
<1> HIDE DEF fs
<1>5. NumbersFit(rows, {}) /\ BehindFit(rows, {})
  BY <1>4 DEF NumbersFit, BehindFit
<1>6. ActiveFit(rows, {})
  <2> SUFFICES ASSUME NEW n \in DOMAIN rows, rows[n].kind = "database", rows[n].alert = "active"
               PROVE  FALSE
    BY DEF ActiveFit
  <2>1. PICK f \in fs : rows[n].id = Down(f.inc)
    BY <1>4 DEF ActiveFit
  <2>2. PICK k \in DOMAIN rows : rows[k].id = Up(f.inc)
    BY <1>4
  <2>3. rows[k].rel # 0 /\ rows[rows[k].rel].id = Down(f.inc)
    BY <1>4, <2>2, DatabaseNamed
  <2>4. rows[k].rel \in DOMAIN rows /\ rows[rows[k].rel].alert = "resolved"
    BY <1>3, <2>3 DEF Episodes
  <2>5. rows[k].rel = n
    BY <1>4, <2>1, <2>3, <2>4 DEF IdsFit
  <2>6. QED
    BY <2>4, <2>5
<1>7. DoneFit(rows, {}, made)
  BY <1>4 DEF DoneFit
<1>8. CallFit(calls, rows, {})
  BY <1>4 DEF CallFit, Synced
<1>9. KnownFit(known, rows, {})
  BY <1>4 DEF KnownFit, Synced
<1>10. RowsAgree(rows, {}, calls, known, made)
  BY <1>4, <1>5, <1>6, <1>7, <1>8, <1>9 DEF RowsAgree
<1>11. e.pc = "health" /\ e.at = wk[w].at /\ e.token = wk[w].token /\ e.res = wk[w].res
  BY SameHands DEF Worker
<1> HIDE DEF e
<1>12. Place(e, rows, {}, calls, made)
  BY <1>11, SameHands DEF Place
<1>13. wk'[w] = e /\ faults' \in 0 .. MaxFaults
  BY <1>1, GoesPlace
<1>14. BoundsFit'
  BY <1>1, <1>4, <1>13 DEF BoundsFit
<1>15. QED
  BY <1>1, <1>2, <1>10, <1>12, <1>13, <1>14, OnlyOne

-----------------------------------------------------------------------------
(* The invariant of the only worker *)

LEMMA SoleInit ==
  ASSUME Init
  PROVE  SoleInv
<1>1. /\ rows = << >> /\ made = 0 /\ faults = 0 /\ switches = 0 /\ known = {}
      /\ calls \in [Ids -> Nat] /\ \A id \in Ids : calls[id] = 0
      /\ \A w \in Workers : file[w] = {} /\ wk[w] = Idle
  BY DEF Init
<1>2. /\ MaxIncidents \in Nat /\ MaxFaults \in Nat /\ MaxSwitches \in Nat /\ MaxOther \in Nat
      /\ MaxAttempts \in Nat
  BY OutboxAssumption DEF OutboxAssumption
<1>3. DOMAIN rows = {} /\ Len(rows) = 0
  BY <1>1
<1>4. Firsts(rows) = {}
  BY <1>3 DEF Firsts
<1>5. BoundsFit
  <2>1. Cardinality(Firsts(rows)) = 0
    BY <1>4, FS_EmptySet
  <2>2. 0 <= MaxIncidents /\ 0 \in 0 .. MaxFaults /\ 0 \in 0 .. MaxSwitches /\ 0 <= MaxOther
    BY <1>2
  <2>3. QED
    BY <1>1, <2>1, <2>2 DEF BoundsFit
<1>6. ASSUME NEW w \in Workers PROVE SoleFits(w)
  <2>1. 1 .. made = {}
    BY <1>1
  <2>2. RowsAgree(rows, file[w], calls, known, made)
    BY <1>1, <1>3, <1>6, <2>1
    DEF RowsAgree, IdsFit, NumbersFit, BehindFit, ActiveFit, DoneFit, CallFit, KnownFit
  <2>3. Place(wk[w], rows, file[w], calls, made)
    BY <1>1, <1>3, <1>6, PlaceIdle
  <2>4. QED
    BY <2>2, <2>3 DEF SoleFits
<1>7. QED
  BY <1>5, <1>6 DEF SoleInv

LEMMA SoleKept ==
  ASSUME OutboxInv, SoleInv, UNCHANGED vars
  PROVE  SoleInv'
<1>1. UNCHANGED <<rows, file, wk, made, faults, switches, calls, known>>
  BY DEF vars
<1>2. BoundsFit'
  BY <1>1 DEF SoleInv, BoundsFit
<1>3. QED
  BY <1>1, <1>2 DEF SoleInv, SoleFits

LEMMA SoleStep ==
  ASSUME OneWorker, OutboxInv, OutboxInv', SoleInv, [Next]_vars
  PROVE  SoleInv'
<1>1. PICK w \in Workers : Workers = {w}
  BY DEF OneWorker
<1>2. CASE UNCHANGED vars
  BY <1>2, SoleKept
<1>3. CASE TestTelegram
  BY <1>1, <1>3, TestTelegramSole
<1>4. CASE PatchTelegram
  BY <1>1, <1>4, PatchTelegramSole
<1>5. CASE \E n \in 1 .. MaxRows : RowDue(n)
  BY <1>1, <1>5, RowDueSole
<1>6. CASE Works(w)
  <2>1. CASE ReadConfiguration(w)
    BY <1>1, <2>1, ReadConfigurationSole
  <2>2. CASE Report(w)
    BY <1>1, <2>2, ReportSole
  <2>3. CASE Import(w)
    BY <1>1, <2>3, ImportSole
  <2>4. CASE Recover(w)
    BY <1>1, <2>4, RecoverSole
  <2>5. CASE Unlink(w)
    BY <1>1, <2>5, UnlinkSole
  <2>6. CASE CheckRedis(w)
    BY <1>1, <2>6, CheckRedisSole
  <2>7. CASE NoHealthDue(w)
    BY <1>1, <2>7, NoHealthDueSole
  <2>8. CASE ClaimDelivery(w)
    BY <1>1, <2>8, ClaimDeliverySole
  <2>9. CASE ClaimExhausted(w)
    BY <1>1, <2>9, ClaimExhaustedSole
  <2>10. CASE NothingToSend(w)
    BY <1>1, <2>10, NothingToSendSole
  <2>11. CASE SendTelegram(w)
    BY <1>1, <2>11, SendTelegramSole
  <2>12. CASE SendDisabled(w)
    BY <1>1, <2>12, SendDisabledSole
  <2>13. CASE FinishDelivery(w)
    BY <1>1, <2>13, FinishDeliverySole
  <2>14. CASE OpenIncident(w)
    BY <1>1, <2>14, OpenIncidentSole
  <2>15. CASE ReadIncident(w)
    BY <1>1, <2>15, ReadIncidentSole
  <2>16. CASE ClaimOffline(w)
    BY <1>1, <2>16, ClaimOfflineSole
  <2>17. CASE ExhaustOffline(w)
    BY <1>1, <2>17, ExhaustOfflineSole
  <2>18. CASE NothingOffline(w)
    BY <1>1, <2>18, CycleEndsSole
  <2>19. CASE SendOffline(w)
    BY <1>1, <2>19, SendOfflineSole
  <2>20. CASE FinishOffline(w)
    BY <1>1, <2>20, FinishOfflineSole
  <2>21. QED
    BY <1>6, <2>1, <2>2, <2>3, <2>4, <2>5, <2>6, <2>7, <2>8, <2>9, <2>10, <2>11, <2>12, <2>13,
       <2>14, <2>15, <2>16, <2>17, <2>18, <2>19, <2>20 DEF Works
<1>7. CASE CycleFails(w) \/ DbFails(w) \/ Crash(w) \/ Restart(w)
  BY <1>1, <1>7, CycleEndsSole
<1>8. CASE FileDue(w)
  BY <1>1, <1>8, FileDueSole
<1>9. QED
  BY <1>1, <1>2, <1>3, <1>4, <1>5, <1>6, <1>7, <1>8 DEF Next

\* What the only worker relies on is an invariant, given that of all workers.
THEOREM SoleInvariant ==
  ASSUME OneWorker
  PROVE  Spec => []SoleInv
<1>1. Init => SoleInv
  BY SoleInit
<1>2. OutboxInv /\ OutboxInv' /\ SoleInv /\ [Next]_vars => SoleInv'
  BY SoleStep
<1>3. QED
  BY <1>1, <1>2, OutboxInvariant, PTL DEF Spec

-----------------------------------------------------------------------------
(* How many rows there are *)

LEMMA InjectedCard ==
  ASSUME NEW S, NEW T, IsFiniteSet(T), NEW g \in [S -> T], \A a, b \in S : g[a] = g[b] => a = b
  PROVE  IsFiniteSet(S) /\ Cardinality(S) <= Cardinality(T)
<1>1. g \in Injection(S, T)
  BY DEF Injection, IsInjective
<1>2. QED
  BY <1>1, FS_Injection

LEMMA UnionCard ==
  ASSUME NEW S, NEW T, IsFiniteSet(S), IsFiniteSet(T), NEW a \in Nat, NEW b \in Nat,
         Cardinality(S) <= a, Cardinality(T) <= b
  PROVE  IsFiniteSet(S \cup T) /\ Cardinality(S \cup T) <= a + b
<1>1. /\ IsFiniteSet(S \cup T)
      /\ Cardinality(S \cup T) = Cardinality(S) + Cardinality(T) - Cardinality(S \cap T)
  BY FS_Union
<1>2. (S \cap T) \in SUBSET S
  OBVIOUS
<1>3. IsFiniteSet(S \cap T)
  BY <1>2, FS_Subset
<1>4. Cardinality(S) \in Nat /\ Cardinality(T) \in Nat /\ Cardinality(S \cap T) \in Nat
  BY <1>3, FS_CardinalityType
<1>5. QED
  BY <1>1, <1>4

\* An incident has one alert, a failure one recovery.
LEMMA RowsBound ==
  ASSUME NEW s, NEW fs, NEW m, Typed(s, fs, m), Episodes(s), IdsFit(s, m), m <= MaxIncidents,
         Cardinality(Firsts(s)) <= MaxOther
  PROVE  Len(s) <= MaxRows
<1> DEFINE N == 1 .. Len(s)
           D == {n \in N : s[n].kind = "database" /\ s[n].rel = 0}
           O == Firsts(s)
           A == D \cup O
           R == {n \in N : s[n].rel # 0}
           B == MaxIncidents + MaxOther
<1>1. /\ DOMAIN s = N /\ Len(s) \in Nat /\ m \in Nat
      /\ MaxIncidents \in Nat /\ MaxOther \in Nat /\ B \in Nat
  BY OutboxAssumption DEF OutboxAssumption, Typed
<1>2. IsFiniteSet(N) /\ Cardinality(N) = Len(s)
  <2>1. 1 \in Int /\ Len(s) \in Int /\ Len(s) \in Nat
    BY <1>1
  <2> DEFINE l == Len(s)
  <2> HIDE DEF l
  <2>2. l \in Int /\ l \in Nat
    BY <2>1 DEF l
  <2>3. IsFiniteSet(1 .. l) /\ Cardinality(1 .. l) = IF 1 > l THEN 0 ELSE l - 1 + 1
    BY <2>2, FS_Interval
  <2>4. QED
    BY <2>2, <2>3 DEF l
<1>3. IsFiniteSet(1 .. m) /\ Cardinality(1 .. m) = m
  BY <1>1, FS_Interval
<1>4. IsFiniteSet(D) /\ Cardinality(D) <= MaxIncidents
  <2>1. ASSUME NEW n \in D PROVE \E i \in 1 .. m : s[n].id = Down(i)
    BY <1>1 DEF IdsFit, RowNamed
  <2> DEFINE g == [n \in D |-> CHOOSE i \in 1 .. m : s[n].id = Down(i)]
  <2>2. \A n \in D : g[n] \in 1 .. m /\ s[n].id = Down(g[n])
    BY <2>1
  <2>3. g \in [D -> 1 .. m]
    BY <2>2
  <2> HIDE DEF g
  <2>4. ASSUME NEW a \in D, NEW b \in D, g[a] = g[b] PROVE a = b
    <3>1. s[a].id = s[b].id /\ a \in DOMAIN s /\ b \in DOMAIN s
      BY <1>1, <2>2, <2>4
    <3>2. QED
      BY <3>1 DEF IdsFit
  <2> HIDE DEF D
  <2>5. IsFiniteSet(D) /\ Cardinality(D) <= Cardinality(1 .. m)
    BY <1>3, <2>3, <2>4, InjectedCard
  <2>6. Cardinality(D) \in Nat
    BY <2>5, FS_CardinalityType
  <2>7. QED
    BY <1>1, <1>3, <2>5, <2>6
<1>5. IsFiniteSet(O)
  <2>1. O \in SUBSET N
    BY <1>1 DEF Firsts
  <2> HIDE DEF O, N
  <2>2. QED
    BY <1>2, <2>1, FS_Subset
<1>6. \A n \in N : n \in A \/ n \in R
  BY <1>1 DEF Firsts
<1>7. ASSUME NEW n \in R PROVE s[n].rel \in A /\ \A k \in R : s[k].rel = s[n].rel => k = n
  <2>1. /\ s[n].rel \in N /\ s[s[n].rel].rel = 0
        /\ \A k \in N : s[k].rel = s[n].rel => k = n
    BY <1>1 DEF Episodes
  <2>2. QED
    BY <1>1, <2>1 DEF Firsts
<1> DEFINE h == [n \in R |-> s[n].rel]
<1>8. h \in [R -> A] /\ \A a, b \in R : h[a] = h[b] => a = b
  <2> HIDE DEF A, R
  <2>1. QED
    BY <1>7
<1> HIDE DEF h, D, O, R
<1>9. IsFiniteSet(A) /\ Cardinality(A) <= B
  BY <1>1, <1>4, <1>5, UnionCard DEF O
<1> HIDE DEF A
<1>10. IsFiniteSet(R) /\ Cardinality(R) <= Cardinality(A)
  BY <1>8, <1>9, InjectedCard
<1>11. Cardinality(A) \in Nat /\ Cardinality(R) \in Nat
  BY <1>9, <1>10, FS_CardinalityType
<1>12. Cardinality(R) <= B
  BY <1>1, <1>9, <1>10, <1>11
<1>13. IsFiniteSet(A \cup R) /\ Cardinality(A \cup R) <= B + B
  <2> HIDE DEF B
  <2>1. QED
    BY <1>1, <1>9, <1>10, <1>12, UnionCard
<1>14. Cardinality(N) <= Cardinality(A \cup R)
  <2>1. N \in SUBSET (A \cup R)
    BY <1>6
  <2> HIDE DEF N
  <2>2. QED
    BY <1>13, <2>1, FS_Subset
<1>15. Cardinality(A \cup R) \in Nat
  BY <1>13, FS_CardinalityType
<1>16. Len(s) <= B + B
  BY <1>1, <1>2, <1>13, <1>14, <1>15
<1>17. QED
  BY <1>1, <1>16 DEF MaxRows

-----------------------------------------------------------------------------
(* The theorems of the only worker *)

LEMMA SoleParts ==
  ASSUME OutboxInv, SoleInv, NEW w \in Workers
  PROVE  /\ Typed(rows, file[w], made) /\ Episodes(rows)
         /\ IdsFit(rows, made) /\ NumbersFit(rows, file[w]) /\ BehindFit(rows, file[w])
         /\ DoneFit(rows, file[w], made) /\ CallFit(calls, rows, file[w])
         /\ KnownFit(known, rows, file[w])
         /\ WorkerFits(wk[w], rows, file[w]) /\ Place(wk[w], rows, file[w], calls, made)
         /\ made \in Nat /\ made <= MaxIncidents /\ Len(rows) \in Nat /\ Len(rows) <= MaxRows
         /\ MaxIncidents \in Nat /\ MaxAttempts \in Nat /\ MaxRows \in Nat
<1>1. /\ Typed(rows, file[w], made) /\ Episodes(rows) /\ WorkerFits(wk[w], rows, file[w])
      /\ made \in Nat /\ Len(rows) \in Nat
  BY InvTyped DEF Typed
<1>2. /\ IdsFit(rows, made) /\ NumbersFit(rows, file[w]) /\ BehindFit(rows, file[w])
      /\ DoneFit(rows, file[w], made) /\ CallFit(calls, rows, file[w])
      /\ KnownFit(known, rows, file[w]) /\ Place(wk[w], rows, file[w], calls, made)
      /\ made <= MaxIncidents /\ Cardinality(Firsts(rows)) <= MaxOther
  BY SoleHas DEF RowsAgree, BoundsFit
<1>3. Len(rows) <= MaxRows
  BY <1>1, <1>2, RowsBound
<1>4. MaxIncidents \in Nat /\ MaxAttempts \in Nat /\ MaxRows \in Nat
  BY OutboxAssumption DEF OutboxAssumption, MaxRows
<1>5. QED
  BY <1>1, <1>2, <1>3, <1>4

LEMMA IdsIn ==
  ASSUME NEW m \in Nat, m <= MaxIncidents
  PROVE  \A i \in 1 .. m : Down(i) \in Ids /\ Up(i) \in Ids
<1>1. \A i \in 1 .. m : i \in Incidents
  BY OutboxAssumption DEF OutboxAssumption, Incidents
<1>2. QED
  BY <1>1 DEF Ids, Down, Up

\* Rows and the file are named by Ids, and so is what is known.
LEMMA NamesIn ==
  ASSUME OutboxInv, SoleInv, NEW w \in Workers
  PROVE  (\A n \in DOMAIN rows : rows[n].id \in Ids) /\ known \subseteq Ids
<1>1. /\ Typed(rows, file[w], made) /\ IdsFit(rows, made) /\ KnownFit(known, rows, file[w])
      /\ made \in Nat /\ made <= MaxIncidents /\ Len(rows) <= MaxRows /\ MaxRows \in Nat
      /\ Len(rows) \in Nat
  BY SoleParts
<1>2. \A i \in 1 .. made : Down(i) \in Ids /\ Up(i) \in Ids
  BY <1>1, IdsIn
<1>3. ASSUME NEW n \in DOMAIN rows PROVE rows[n].id \in Ids
  <2>1. RowNamed(rows, n, made)
    BY <1>1 DEF IdsFit
  <2>2. CASE rows[n].kind = "database"
    BY <1>2, <2>1, <2>2 DEF RowNamed
  <2>3. CASE rows[n].kind # "database"
    <3>1. n \in 1 .. MaxRows
      BY <1>1 DEF Typed
    <3>2. rows[n].id = New(n)
      BY <2>1, <2>3 DEF RowNamed
    <3>3. QED
      BY <3>1, <3>2 DEF Ids, New
  <2>4. QED
    BY <2>2, <2>3
<1>4. \A f \in file[w] : Down(f.inc) \in Ids
  BY <1>1, <1>2 DEF Typed
<1>5. QED
  BY <1>1, <1>3, <1>4 DEF KnownFit

\* The entries of a history that counts its attempts.
LEMMA AttemptsTyped ==
  ASSUME NEW h \in Seq(Entry), NEW t, Counted(h, t), NEW m \in Nat, m <= MaxIncidents,
         \A k \in DOMAIN h : h[k].inc <= m
  PROVE  h \in Seq(Attempts)
<1>1. /\ Len(h) \in Nat /\ DOMAIN h = 1 .. Len(h) /\ \A k \in DOMAIN h : h[k] \in Entry
      /\ h \in [1 .. Len(h) -> Entry]
  OBVIOUS
<1>2. MaxAttempts \in Nat /\ MaxIncidents \in Nat
  BY OutboxAssumption DEF OutboxAssumption
<1>3. ASSUME NEW k \in DOMAIN h PROVE h[k] \in Attempts
  <2>1. /\ h[k] \in Entry /\ h[k].n = k /\ k \in 1 .. Len(h) /\ h[k].inc <= m /\ Len(h) <= MaxAttempts
    BY <1>1 DEF Counted
  <2>2. h[k].n \in 1 .. MaxAttempts
    BY <1>1, <1>2, <2>1
  <2>3. h[k].inc \in Nat /\ h[k].st \in Statuses \cup {"unknown"}
    BY <2>1 DEF Entry
  <2>4. h[k].inc \in {0} \cup Incidents
    BY <1>2, <2>1, <2>3 DEF Incidents
  <2>5. h[k] = [n |-> h[k].n, st |-> h[k].st, inc |-> h[k].inc]
    BY <2>1 DEF Entry
  <2>6. QED
    BY <2>2, <2>3, <2>4, <2>5 DEF Attempts
<1>4. QED
  BY <1>1, <1>3

LEMMA SoleTyped ==
  ASSUME OneWorker, OutboxInv, SoleInv
  PROVE  TypeOK
<1>1. PICK w \in Workers : Workers = {w}
  BY DEF OneWorker
<1>2. /\ Typed(rows, file[w], made) /\ Episodes(rows) /\ NumbersFit(rows, file[w])
      /\ WorkerFits(wk[w], rows, file[w]) /\ Place(wk[w], rows, file[w], calls, made)
      /\ made \in Nat /\ made <= MaxIncidents /\ Len(rows) \in Nat /\ Len(rows) <= MaxRows
      /\ MaxIncidents \in Nat /\ MaxAttempts \in Nat /\ MaxRows \in Nat
  BY SoleParts
<1>3. (\A n \in DOMAIN rows : rows[n].id \in Ids) /\ known \subseteq Ids
  BY NamesIn, <1>1
<1> DEFINE RowType == [id : Ids, kind : {"database", "redis", "test"},
                       alert : {"active", "resolved", "test"}, rel : 0 .. MaxRows,
                       st : Statuses, tries : 0 .. MaxAttempts, hist : Seq(Attempts),
                       due : BOOLEAN, token : 0 .. MaxAttempts]
           FileType == [inc : Incidents, st : Statuses, tries : 0 .. MaxAttempts,
                        due : BOOLEAN, hist : Seq(Attempts)]
           HandType == [pc : Phases, config : BOOLEAN, at : 0 .. MaxRows,
                        token : 0 .. MaxAttempts, res : Outcomes \cup {"none", "disabled"}]
<1>4. ASSUME NEW n \in DOMAIN rows PROVE rows[n] \in RowType
  <2> DEFINE r == rows[n]
  <2>1. /\ r \in Row /\ RowFits(r, made) /\ r.hist \in Seq(Entry)
        /\ Counted(r.hist, r.tries) /\ r.token <= MaxAttempts
        /\ r.rel = 0 \/ (r.rel \in DOMAIN rows)
    BY <1>2 DEF Typed, NumbersFit, Episodes
  <2>2. r.hist \in Seq(Attempts)
    BY <1>2, <2>1, AttemptsTyped DEF RowFits
  <2>3. r.tries \in 0 .. MaxAttempts /\ r.token \in 0 .. MaxAttempts
    BY <1>2, <2>1 DEF Row, Counted
  <2>4. r.rel \in 0 .. MaxRows
    BY <1>2, <2>1 DEF Typed
  <2>5. /\ r.kind \in {"database", "redis", "test"} /\ r.alert \in {"active", "resolved", "test"}
        /\ r.st \in Statuses /\ r.due \in BOOLEAN /\ r.id \in Ids
    BY <1>3, <2>1 DEF Row
  <2>6. r = [id |-> r.id, kind |-> r.kind, alert |-> r.alert, rel |-> r.rel, st |-> r.st,
             tries |-> r.tries, hist |-> r.hist, due |-> r.due, token |-> r.token]
    BY <2>1 DEF Row
  <2> HIDE DEF r
  <2>7. r \in RowType
    BY <2>2, <2>3, <2>4, <2>5, <2>6
  <2>8. QED
    BY <2>7 DEF r
<1>5. rows \in Seq(RowType)
  <2> HIDE DEF RowType
  <2>1. rows \in Seq(Row) /\ Len(rows) \in Nat /\ DOMAIN rows = 1 .. Len(rows)
    BY <1>2 DEF Typed
  <2>2. rows \in [1 .. Len(rows) -> RowType]
    BY <1>4, <2>1
  <2>3. QED
    BY <2>1, <2>2
<1>6. ASSUME NEW f \in file[w] PROVE f \in FileType
  <2>1. /\ f \in File /\ FileFits(f, made) /\ f.inc \in 1 .. made /\ f.hist \in Seq(Entry)
        /\ Counted(f.hist, f.tries)
    BY <1>2 DEF Typed, NumbersFit
  <2>2. \A k \in DOMAIN f.hist : f.hist[k].inc <= made
    BY <1>2, <2>1 DEF FileFits
  <2>3. f.hist \in Seq(Attempts)
    BY <1>2, <2>1, <2>2, AttemptsTyped
  <2>4. f.tries \in 0 .. MaxAttempts
    BY <1>2, <2>1 DEF File, Counted
  <2>5. f.inc \in Incidents /\ f.st \in Statuses /\ f.due \in BOOLEAN
    BY <1>2, <2>1 DEF File, Incidents
  <2>6. f = [inc |-> f.inc, st |-> f.st, tries |-> f.tries, due |-> f.due, hist |-> f.hist]
    BY <2>1 DEF File
  <2>7. QED
    BY <2>3, <2>4, <2>5, <2>6
<1>7. wk \in [Workers -> HandType]
  <2> DEFINE e == wk[w]
  <2>1. /\ e \in Worker /\ e.at <= Len(rows) /\ e.token <= MaxAttempts
        /\ e.res \in Outcomes \cup {"none", "disabled"}
    BY <1>2 DEF WorkerFits, Place
  <2>2. e.at \in 0 .. MaxRows /\ e.token \in 0 .. MaxAttempts
    BY <1>2, <2>1 DEF Worker
  <2>3. e.pc \in Phases /\ e.config \in BOOLEAN
    BY <2>1 DEF Worker
  <2>4. e = [pc |-> e.pc, config |-> e.config, at |-> e.at, token |-> e.token, res |-> e.res]
    BY <2>1 DEF Worker
  <2>5. e \in HandType
    <3> HIDE DEF e
    <3>1. QED
      BY <2>1, <2>2, <2>3, <2>4
  <2> HIDE DEF HandType
  <2>6. wk \in [Workers -> Worker]
    BY DEF OutboxInv, WorkersFit
  <2>7. QED
    BY <1>1, <2>5, <2>6
<1>8. /\ made \in 0 .. MaxIncidents /\ faults \in 0 .. MaxFaults /\ switches \in 0 .. MaxSwitches
      /\ calls \in [Ids -> Nat] /\ on \in BOOLEAN /\ late \in Nat
  BY <1>2 DEF SoleInv, BoundsFit, OutboxInv, OffFits
<1>9. HistoryNumbered
  BY <1>1, <1>2 DEF NumbersFit, Counted, HistoryNumbered
<1>10. \A v \in Workers : file[v] \subseteq FileType
  BY <1>1, <1>6
<1> HIDE DEF RowType, FileType, HandType
<1>11. QED
  BY <1>3, <1>5, <1>7, <1>8, <1>9, <1>10 DEF TypeOK, RowType, FileType, HandType

\* With one worker every variable has its type: rows carry the columns of
\* alert_events and notification_deliveries with one numbered entry of history for
\* each attempt, at most MAX_ATTEMPTS, over offline and outbox attempts and merges.
THEOREM TypeOKAlone ==
  ASSUME OneWorker
  PROVE  Spec => []TypeOK
<1>1. OutboxInv /\ SoleInv => TypeOK
  BY SoleTyped
<1>2. QED
  BY <1>1, OutboxInvariant, SoleInvariant, PTL

\* With one worker a message takes at most MAX_ATTEMPTS requests, whatever crashes
\* and outages come between: the offline attempts of an incident count against the
\* delivery it is merged into (reconcile_database_outage, finish_delivery).
THEOREM BudgetHoldsAlone ==
  ASSUME OneWorker
  PROVE  Spec => []BudgetHolds
<1>1. OutboxInv /\ SoleInv => BudgetHolds
  <2> SUFFICES ASSUME OutboxInv, SoleInv, NEW id \in Ids PROVE calls[id] <= MaxAttempts
    BY DEF BudgetHolds
  <2>1. PICK w \in Workers : Workers = {w}
    BY DEF OneWorker
  <2>2. /\ CallFit(calls, rows, file[w]) /\ NumbersFit(rows, file[w]) /\ MaxAttempts \in Nat
        /\ Typed(rows, file[w], made)
    BY SoleParts
  <2>3. calls[id] \in Nat
    BY SoleHas
  <2>4. ASSUME NEW t \in Nat, t <= MaxAttempts, calls[id] <= t PROVE calls[id] <= MaxAttempts
    BY <2>2, <2>3, <2>4
  <2>5. CASE calls[id] = 0
    BY <2>2, <2>5
  <2>6. CASE \E f \in file[w] : calls[id] <= f.tries
    <3>1. PICK f \in file[w] : calls[id] <= f.tries
      BY <2>6
    <3>2. f.tries \in Nat /\ f.tries <= MaxAttempts
      BY <2>2 DEF Typed, NumbersFit, Counted
    <3>3. QED
      BY <2>4, <3>1, <3>2
  <2>7. CASE \E n \in DOMAIN rows : calls[id] <= rows[n].tries
    <3>1. PICK n \in DOMAIN rows : calls[id] <= rows[n].tries
      BY <2>7
    <3>2. rows[n].tries \in Nat /\ rows[n].tries <= MaxAttempts
      BY <2>2 DEF Typed, NumbersFit, Counted
    <3>3. QED
      BY <2>4, <3>1, <3>2
  <2>8. QED
    BY <2>2, <2>5, <2>6, <2>7 DEF CallFit
<1>2. QED
  BY <1>1, OutboxInvariant, SoleInvariant, PTL

\* With one worker an incident whose file is gone is in the database exactly once:
\* one alert, resolved, and one recovery that names it (reconcile_database_outage).
THEOREM IncidentsRecordedAlone ==
  ASSUME OneWorker
  PROVE  Spec => []IncidentsRecorded
<1>1. OutboxInv /\ SoleInv => IncidentsRecorded
  <2> SUFFICES ASSUME OutboxInv, SoleInv, NEW i \in 1 .. made,
                      \A w \in Workers : \A f \in file[w] : f.inc # i
               PROVE  \E n, m \in DOMAIN rows :
                        /\ {k \in DOMAIN rows : rows[k].id = Down(i)} = {n}
                        /\ rows[n].alert = "resolved"
                        /\ {k \in DOMAIN rows : rows[k].id = Up(i)} = {m} /\ rows[m].rel = n
    BY DEF IncidentsRecorded
  <2>1. PICK w \in Workers : Workers = {w}
    BY DEF OneWorker
  <2>2. IdsFit(rows, made) /\ DoneFit(rows, file[w], made) /\ Episodes(rows)
    BY SoleParts
  <2>3. PICK m \in DOMAIN rows : rows[m].id = Up(i)
    BY <2>2 DEF DoneFit
  <2>4. rows[m].rel # 0 /\ rows[rows[m].rel].id = Down(i)
    BY <2>2, <2>3, DatabaseNamed
  <2> DEFINE n == rows[m].rel
  <2>5. n \in DOMAIN rows /\ rows[n].alert = "resolved" /\ rows[n].id = Down(i)
    BY <2>2, <2>4 DEF Episodes
  <2>6. {k \in DOMAIN rows : rows[k].id = Up(i)} = {m}
    BY <2>2, <2>3 DEF IdsFit
  <2>7. {k \in DOMAIN rows : rows[k].id = Down(i)} = {n}
    BY <2>2, <2>5 DEF IdsFit
  <2>8. QED
    BY <2>5, <2>6, <2>7
<1>2. QED
  BY <1>1, OutboxInvariant, SoleInvariant, PTL

\* A request is for a message that is not known to be sent.
LEMMA RequestUnknown ==
  ASSUME OneWorker, OutboxInv, SoleInv, [Next]_vars, NEW id \in known
  PROVE  calls'[id] = calls[id]
<1>1. PICK w \in Workers : Workers = {w}
  BY DEF OneWorker
<1>2. /\ IdsFit(rows, made) /\ BehindFit(rows, file[w]) /\ KnownFit(known, rows, file[w])
      /\ WorkerFits(wk[w], rows, file[w]) /\ Place(wk[w], rows, file[w], calls, made)
      /\ Typed(rows, file[w], made) /\ calls \in [Ids -> Nat] /\ id \in Ids
  BY SoleParts, SoleHas, NamesIn
<1>3. CASE SendTelegram(w)
  <2> DEFINE a == wk[w].at
  <2>1. /\ wk[w].pc = "send"
        /\ calls' = calls \/ calls' = [calls EXCEPT ![rows[a].id] = @ + 1]
    BY <1>3 DEF SendTelegram
  <2>2. file[w] = {} /\ a \in DOMAIN rows /\ rows[a].st = "sending"
    BY <1>2, <2>1 DEF Place, WorkerFits
  <2>3. PICK n \in DOMAIN rows : rows[n].id = id /\ rows[n].st = "sent"
    BY <1>2, <2>2 DEF KnownFit
  <2>4. rows[a].id # id
    BY <1>2, <2>2, <2>3 DEF IdsFit
  <2>5. QED
    BY <1>2, <2>1, <2>4
<1>4. CASE SendOffline(w)
  <2>1. PICK f \in file[w] : \/ calls' = calls
                             \/ calls' = [calls EXCEPT ![Down(f.inc)] = @ + 1]
    BY <1>4 DEF SendOffline
  <2>2. f.st = "sending" /\ \A g \in file[w] : g = f
    BY <1>2, <1>4 DEF SendOffline, WorkerFits, Offline, Typed
  <2>3. Down(f.inc) # id
    <3>1. CASE \E g \in file[w] : id = Down(g.inc) /\ g.st = "sent"
      BY <2>2, <3>1
    <3>2. CASE \E n \in DOMAIN rows : rows[n].id = id /\ rows[n].st = "sent"
      BY <1>2, <2>2, <3>2 DEF BehindFit, Behind
    <3>3. QED
      BY <1>2, <3>1, <3>2 DEF KnownFit
  <2>4. QED
    BY <1>2, <2>1, <2>3
<1>5. CASE ~SendTelegram(w) /\ ~SendOffline(w)
  <2>1. UNCHANGED calls
    <3>1. CASE UNCHANGED vars
      BY <3>1 DEF vars
    <3>2. CASE TestTelegram \/ PatchTelegram \/ \E n \in 1 .. MaxRows : RowDue(n)
      BY <3>2 DEF TestTelegram, PatchTelegram, RowDue
    <3>3. CASE Works(w)
      BY <1>5, <3>3
      DEF Works, ReadConfiguration, Report, Import, Recover, Unlink, CheckRedis, NoHealthDue,
          ClaimDelivery, ClaimExhausted, NothingToSend, SendDisabled, FinishDelivery,
          OpenIncident, ReadIncident, ClaimOffline, ExhaustOffline, NothingOffline, FinishOffline
    <3>4. CASE CycleFails(w) \/ DbFails(w) \/ Crash(w) \/ Restart(w) \/ FileDue(w)
      BY <3>4 DEF CycleFails, DbFails, Crash, Restart, FileDue
    <3>5. QED
      BY <1>1, <3>1, <3>2, <3>3, <3>4 DEF Next
  <2>2. QED
    BY <2>1
<1>6. QED
  BY <1>3, <1>4, <1>5

FinalKept == \A m \in known : calls'[m] = calls[m]

\* With one worker a message whose success was recorded, in the file or in the
\* database, is not sent again, however often the merge of the file is interrupted.
THEOREM SuccessIsFinalAlone ==
  ASSUME OneWorker
  PROVE  Spec => SuccessIsFinal
<1>1. OutboxInv /\ SoleInv /\ [Next]_vars => [FinalKept]_vars
  BY RequestUnknown DEF FinalKept
<1>2. SuccessIsFinal <=> [][FinalKept]_vars
  BY DEF SuccessIsFinal, FinalKept
<1>3. QED
  BY <1>1, <1>2, OutboxInvariant, SoleInvariant, PTL DEF Spec
=============================================================================
