---------------------------- MODULE NewsFeedProofs ----------------------------
(***************************************************************************)
(* What TLAPS proves of NewsFeed for any sources, articles, pages and      *)
(* limits: articles keep their identity, the log tells of the news, and a  *)
(* consumer that follows the feed applies each change once and in order,   *)
(* the sources taking turns.                                               *)
(***************************************************************************)
EXTENDS NewsFeed, Recursion, FiniteSetTheorems

-----------------------------------------------------------------------------
(* The sources in their order *)

\* ListOf is what its recursion says.
Listed(some) ==
  \E F \in [0 .. Len(Order) -> Seq(Sources)] :
    /\ ListOf(some) = F[Len(Order)] /\ F[0] = << >>
    /\ \A i \in 1 .. Len(Order) :
         F[i] = IF Order[i] \in some THEN Append(F[i - 1], Order[i]) ELSE F[i - 1]

LEMMA OrderFacts ==
  /\ Order \in Seq(Sources) /\ Len(Order) \in Nat /\ Len(Order) # 0
  /\ DOMAIN Order = 1 .. Len(Order)
  /\ \A i \in 1 .. Len(Order) : Order[i] \in Sources
  /\ \A i, j \in 1 .. Len(Order) : Order[i] = Order[j] => i = j
  /\ \A s \in Sources : \E i \in 1 .. Len(Order) : Order[i] = s
<1>1. Order \in Seq(Sources) /\ Order # << >>
  BY OrderAssumption DEF Sources
<1>2. Len(Order) \in Nat /\ Len(Order) # 0 /\ DOMAIN Order = 1 .. Len(Order)
  BY <1>1
<1>3. QED
  BY <1>1, <1>2, OrderAssumption DEF Sources, Range, IsInjective

LEMMA ListUnfolds ==
  ASSUME NEW some
  PROVE  Listed(some)
<1> DEFINE N == Len(Order)
           S == Sources
           G == [i \in 1 .. N |-> [q \in Seq(S) |-> IF Order[i] \in some THEN Append(q, Order[i]) ELSE q]]
           P(F) == F = [i \in 0 .. N |-> IF i = 0 THEN << >>
                          ELSE IF Order[i] \in some THEN Append(F[i - 1], Order[i]) ELSE F[i - 1]]
           C == CHOOSE F : P(F)
<1>1. N \in Nat /\ \A i \in 1 .. N : Order[i] \in S
  BY OrderFacts
<1>2. G \in [1 .. N -> [Seq(S) -> Seq(S)]]
  <2>1. \A i \in 1 .. N, q \in Seq(S) : Append(q, Order[i]) \in Seq(S)
    BY <1>1
  <2> HIDE DEF N, S
  <2>2. QED
    BY <2>1
<1>3. PICK F \in [0 .. N -> Seq(S)] : F[0] = << >> /\ \A i \in 1 .. N : F[i] = G[i][F[i - 1]]
  <2>1. << >> \in Seq(S)
    OBVIOUS
  <2> HIDE DEF G, N, S
  <2>2. Iterates(Seq(S), << >>, N, G)
    BY <1>1, <1>2, <2>1, RecursionExists
  <2>3. QED
    BY <2>2 DEF Iterates
<1> HIDE DEF S
<1>4. P(F)
  <2>1. \A i \in 1 .. N : F[i - 1] \in Seq(S)
    <3>1. \A i \in 1 .. N : i - 1 \in 0 .. N
      BY <1>1
    <3>2. QED
      BY <3>1, <1>3
  <2>2. \A i \in 1 .. N : G[i][F[i - 1]] = IF Order[i] \in some THEN Append(F[i - 1], Order[i]) ELSE F[i - 1]
    BY <2>1
  <2>3. \A i \in 0 .. N : i # 0 => i \in 1 .. N
    BY <1>1
  <2>4. F = [i \in 0 .. N |-> F[i]]
    BY <1>3
  <2> HIDE DEF G, N
  <2>5. QED
    BY <1>3, <2>2, <2>3, <2>4
<1>5. P(C)
  BY <1>4
<1>6. ListOf(some) = C[N]
  BY DEF ListOf
<1> HIDE DEF C, N
<1>7. /\ C[0] = << >>
      /\ \A i \in 1 .. N : C[i] = IF Order[i] \in some THEN Append(C[i - 1], Order[i]) ELSE C[i - 1]
  <2>1. 0 \in 0 .. N /\ \A i \in 1 .. N : i \in 0 .. N /\ i # 0
    BY <1>1
  <2>2. QED
    BY <1>5, <2>1
<1>8. {i \in 0 .. N : C[i] \notin Seq(S)} = {}
  <2> DEFINE Bad == {i \in 0 .. N : C[i] \notin Seq(S)}
  <2> SUFFICES ASSUME Bad # {} PROVE FALSE
    OBVIOUS
  <2>1. PICK i \in Bad : \A j \in Bad : i <= j
    <3>1. Bad \in SUBSET Nat
      OBVIOUS
    <3> HIDE DEF Bad
    <3>2. QED
      BY <3>1, LeastOf
  <2>2. C[0] \in Seq(S)
    BY <1>7
  <2>3. i \in 1 .. N /\ i - 1 \in 0 .. N /\ ~(i <= i - 1)
    <3>1. i # 0
      BY <2>2
    <3>2. QED
      BY <1>1, <3>1
  <2>4. C[i - 1] \in Seq(S)
    BY <2>1, <2>3
  <2>5. Append(C[i - 1], Order[i]) \in Seq(S)
    BY <1>1, <2>3, <2>4
  <2>6. C[i] \in Seq(S)
    BY <1>7, <2>3, <2>4, <2>5
  <2>7. QED
    BY <2>6
<1>9. C \in [0 .. N -> Seq(S)]
  <2>1. C = [i \in 0 .. N |-> C[i]]
    BY <1>5
  <2>2. QED
    BY <1>8, <2>1
<1>10. QED
  BY <1>6, <1>7, <1>9 DEF Listed, N, S

\* ListOf lists each of the sources once.
Lists(q, some) ==
  /\ q \in Seq(Sources) /\ Len(q) \in Nat /\ Len(q) <= Len(Order) /\ DOMAIN q = 1 .. Len(q)
  /\ \A i, j \in 1 .. Len(q) : q[i] = q[j] => i = j
  /\ \A i \in 1 .. Len(q) : q[i] \in some
  /\ \A s \in some : \E i \in 1 .. Len(q) : q[i] = s

LEMMA ListFacts ==
  ASSUME NEW some \in SUBSET Sources
  PROVE  Lists(ListOf(some), some)
<1> DEFINE N == Len(Order)
<1>1. PICK F \in [0 .. N -> Seq(Sources)] :
        /\ ListOf(some) = F[N] /\ F[0] = << >>
        /\ \A i \in 1 .. N : F[i] = IF Order[i] \in some THEN Append(F[i - 1], Order[i]) ELSE F[i - 1]
  <2>1. Listed(some)
    BY ListUnfolds
  <2>2. QED
    BY <2>1 DEF Listed
<1>2. /\ N \in Nat /\ \A i \in 1 .. N : Order[i] \in Sources
      /\ \A i, j \in 1 .. N : Order[i] = Order[j] => i = j
      /\ \A s \in some : \E i \in 1 .. N : Order[i] = s
  BY OrderFacts
<1> HIDE DEF N
<1> DEFINE Short(n) == Len(F[n]) <= n
           From(n) == \A j \in 1 .. Len(F[n]) : \E i \in 1 .. n : F[n][j] = Order[i] /\ Order[i] \in some
           Into(n) == \A i \in 1 .. n : Order[i] \in some => \E j \in 1 .. Len(F[n]) : F[n][j] = Order[i]
           Once(n) == \A i, j \in 1 .. Len(F[n]) : F[n][i] = F[n][j] => i = j
           Good(n) == Short(n) /\ From(n) /\ Into(n) /\ Once(n)
           Bad == {n \in 0 .. N : ~Good(n)}
<1>3. Good(0)
  BY <1>1
<1>4. ASSUME NEW n \in 1 .. N, Good(n - 1) PROVE Good(n)
  <2>1. /\ n - 1 \in 0 .. N /\ F[n - 1] \in Seq(Sources) /\ F[n] \in Seq(Sources) /\ n \in Nat
        /\ Order[n] \in Sources
    BY <1>1, <1>2
  <2>2. CASE Order[n] \in some
    <3>1. F[n] = Append(F[n - 1], Order[n])
      BY <1>1, <2>2
    <3>2. /\ Len(F[n]) = Len(F[n - 1]) + 1 /\ F[n][Len(F[n])] = Order[n] /\ Len(F[n - 1]) \in Nat
          /\ \A j \in 1 .. Len(F[n - 1]) : F[n][j] = F[n - 1][j]
      BY <2>1, <3>1
    <3>3. \A j \in 1 .. Len(F[n]) : j \in 1 .. Len(F[n - 1]) \/ j = Len(F[n])
      BY <3>2
    <3>4. Short(n)
      BY <1>4, <2>1, <3>2
    <3>5. From(n)
      <4> SUFFICES ASSUME NEW j \in 1 .. Len(F[n]) PROVE \E i \in 1 .. n : F[n][j] = Order[i] /\ Order[i] \in some
        OBVIOUS
      <4>1. n \in 1 .. n /\ \A i \in 1 .. (n - 1) : i \in 1 .. n
        BY <2>1
      <4>2. QED
        <5>1. CASE j = Len(F[n])
          BY <5>1, <4>1, <3>2, <2>2
        <5>2. CASE j \in 1 .. Len(F[n - 1])
          <6>1. PICK i \in 1 .. (n - 1) : F[n - 1][j] = Order[i] /\ Order[i] \in some
            BY <1>4, <5>2
          <6>2. i \in 1 .. n /\ F[n][j] = Order[i]
            BY <3>2, <4>1, <5>2, <6>1
          <6>3. QED
            BY <6>1, <6>2
        <5>3. QED
          BY <3>3, <5>1, <5>2
    <3>6. Into(n)
      <4> SUFFICES ASSUME NEW i \in 1 .. n, Order[i] \in some PROVE \E j \in 1 .. Len(F[n]) : F[n][j] = Order[i]
        OBVIOUS
      <4>1. i \in 1 .. (n - 1) \/ i = n
        BY <2>1
      <4>2. Len(F[n]) \in 1 .. Len(F[n]) /\ \A j \in 1 .. Len(F[n - 1]) : j \in 1 .. Len(F[n])
        BY <3>2
      <4>3. QED
        <5>1. CASE i = n
          BY <5>1, <4>2, <3>2
        <5>2. CASE i \in 1 .. (n - 1)
          <6>1. PICK j \in 1 .. Len(F[n - 1]) : F[n - 1][j] = Order[i]
            BY <1>4, <5>2
          <6>2. j \in 1 .. Len(F[n]) /\ F[n][j] = Order[i]
            BY <3>2, <4>2, <6>1
          <6>3. QED
            BY <6>2
        <5>3. QED
          BY <4>1, <5>1, <5>2
    <3>7. \A j \in 1 .. Len(F[n - 1]) : F[n - 1][j] # Order[n]
      <4>1. \A i \in 1 .. (n - 1) : i \in 1 .. N /\ n \in 1 .. N /\ i # n
        BY <1>2
      <4>2. QED
        BY <4>1, <1>2, <1>4
    <3>8. Once(n)
      BY <1>4, <3>2, <3>3, <3>7
    <3>9. QED
      BY <3>4, <3>5, <3>6, <3>8
  <2>3. CASE Order[n] \notin some
    <3>1. F[n] = F[n - 1]
      BY <1>1, <2>3
    <3>2. \A i \in 1 .. n : i \in 1 .. (n - 1) \/ i = n
      BY <2>1
    <3>3. \A i \in 1 .. (n - 1) : i \in 1 .. n
      BY <2>1
    <3>4. Short(n)
      <4>1. Len(F[n - 1]) \in Nat /\ Len(F[n - 1]) <= n - 1
        BY <1>4, <2>1
      <4>2. QED
        BY <2>1, <3>1, <4>1
    <3>5. From(n) /\ Into(n) /\ Once(n)
      <4>1. From(n)
        BY <3>1, <3>3, <1>4
      <4>2. Into(n)
        BY <3>1, <3>2, <2>3, <1>4
      <4>3. Once(n)
        BY <3>1, <1>4
      <4>4. QED
        BY <4>1, <4>2, <4>3
    <3>6. QED
      BY <3>4, <3>5
  <2>4. QED
    BY <2>2, <2>3
<1>5. Bad = {}
  <2> SUFFICES ASSUME Bad # {} PROVE FALSE
    OBVIOUS
  <2> HIDE DEF Good
  <2>1. Bad \in SUBSET Nat
    OBVIOUS
  <2>2. PICK n \in Bad : \A m \in Bad : n <= m
    <3> HIDE DEF Bad
    <3>1. QED
      BY <2>1, LeastOf
  <2>3. n \in 1 .. N /\ n - 1 \in 0 .. N /\ ~(n <= n - 1)
    BY <1>2, <1>3
  <2>4. Good(n - 1)
    BY <2>2, <2>3
  <2>5. QED
    BY <1>4, <2>3, <2>4
<1>6. Good(N) /\ F[N] \in Seq(Sources)
  <2> HIDE DEF Good
  <2>1. N \in 0 .. N
    BY <1>2
  <2>2. N \notin Bad
    <3> HIDE DEF Bad
    <3>1. QED
      BY <1>5
  <2>3. QED
    BY <1>1, <2>1, <2>2
<1>7. /\ Len(F[N]) \in Nat /\ DOMAIN F[N] = 1 .. Len(F[N]) /\ Len(F[N]) <= N
      /\ \A i \in 1 .. Len(F[N]) : F[N][i] \in some
      /\ \A s \in some : \E i \in 1 .. Len(F[N]) : F[N][i] = s
      /\ \A i, j \in 1 .. Len(F[N]) : F[N][i] = F[N][j] => i = j
  <2>1. /\ Len(F[N]) \in Nat /\ DOMAIN F[N] = 1 .. Len(F[N]) /\ Len(F[N]) <= N
    BY <1>6
  <2>2. \A i \in 1 .. Len(F[N]) : F[N][i] \in some
    BY <1>6
  <2>3. \A s \in some : \E i \in 1 .. Len(F[N]) : F[N][i] = s
    <3> HIDE DEF Short, From, Once
    <3>1. QED
      BY <1>2, <1>6
  <2>4. \A i, j \in 1 .. Len(F[N]) : F[N][i] = F[N][j] => i = j
    BY <1>6
  <2>5. QED
    BY <2>1, <2>2, <2>3, <2>4
<1>8. QED
  BY <1>1, <1>6, <1>7 DEF Lists, N

-----------------------------------------------------------------------------
(* The tables of a source *)

Rows   == [id : Ids \cup {None}, url : Urls, rev : Nat]
Tables == [items : Seq(Rows), log : Seq(Change)]

PlacesIn(chg, i) == {n \in DOMAIN chg : chg[n].item = i}

\* No two rows have a URL or a number in common.
Distinct(rows) ==
  \A i, j \in DOMAIN rows :
    i # j => /\ rows[i].url # rows[j].url
             /\ rows[i].id = None \/ rows[i].id # rows[j].id

\* The changes of item i: the first one creates it, the last one is its revision,
\* and two in succession differ.
Told(rows, chg, i) ==
  /\ rows[i].rev \in PlacesIn(chg, i)
  /\ \A n \in PlacesIn(chg, i) :
       /\ n <= rows[i].rev
       /\ chg[n].type = "created" <=> \A m \in PlacesIn(chg, i) : n <= m
       /\ \A m \in PlacesIn(chg, i) :
            (m < n /\ chg[m].content = chg[n].content) =>
               \E k \in PlacesIn(chg, i) : m < k /\ k < n

Fit(t) ==
  /\ Distinct(t.items)
  /\ \A n \in DOMAIN t.log : t.log[n].item \in DOMAIN t.items
  /\ \A i \in DOMAIN t.items : Told(t.items, t.log, i)

TableOf(s) == [items |-> news[s], log |-> log[s]]

StoreFits ==
  /\ news \in [Sources -> Seq(Rows)] /\ log \in [Sources -> Seq(Change)]
  /\ present \in SUBSET Sources /\ pages \in 0 .. MaxPages
  /\ \A s \in Sources : Len(log[s]) <= MaxChanges /\ Fit(TableOf(s))

-----------------------------------------------------------------------------
(* The consumer *)

Leads == [Sources -> [Sources -> Nat]]

\* Going round from place k, place i comes before place j.
Ahead(k, i, j) == \/ k <= i /\ i < j
                  \/ i < j /\ j < k
                  \/ j < k /\ k <= i

\* A source that waits while another is served is served before it the next time.
LeadFits(ld, places, k, more) ==
  \A u, t \in Sources :
    \/ ld[u][t] = 0
    \/ /\ ld[u][t] = 1 /\ u \in more
       /\ \E i, j \in DOMAIN places : places[i] = u /\ places[j] = t /\ Ahead(k, i, j)

CursorFits ==
  /\ lead \in Leads
  /\ cursor = None => lead = NoLead
  /\ cursor # None =>
       /\ cursor \in Cursor
       /\ DOMAIN cursor.offsets \subseteq present
       /\ \A s \in DOMAIN cursor.offsets : cursor.offsets[s] <= Len(log[s])
       /\ cursor.turn \in DOMAIN ListOf(DOMAIN cursor.offsets)
       /\ LeadFits(lead, ListOf(DOMAIN cursor.offsets), cursor.turn,
                   {u \in DOMAIN cursor.offsets : cursor.offsets[u] < Len(log[u])})

\* What the consumer has applied of s.
StartOf(c, s) == IF c # None /\ s \in DOMAIN c.offsets THEN c.offsets[s] ELSE 0
Start(s)      == StartOf(cursor, s)

Applied == got = [s \in Sources |-> [n \in 1 .. Start(s) |-> n]]

Requests == [pc : {"idle", "reading", "serving"}, list : Seq(Sources),
             offsets : Offsets \cup {<< >>}, turn : 1 .. Len(Order),
             queues : Seq(Seq(Nat)), limit : Nat \ {0}, items : [Sources -> Seq(Nat)],
             size : Nat, idle : Nat, lead : Leads]

ReqType == req \in Requests

\* The queue of a source holds the changes that follow those applied.
QueueFits(i) ==
  LET s == req.list[i]
  IN  /\ req.queues[i] = [n \in 1 .. Len(req.queues[i]) |-> Start(s) + n]
      /\ Start(s) + Len(req.queues[i]) <= Len(log[s])
      /\ Len(req.items[s]) <= Len(req.queues[i])

\* The items of the answer are the head of the queue, and the offset their last one.
ItemsFit(s) ==
  /\ req.items[s] = [n \in 1 .. Len(req.items[s]) |-> Start(s) + n]
  /\ s \in DOMAIN req.offsets => req.offsets[s] = Start(s) + Len(req.items[s])
  /\ (s \notin DOMAIN req.offsets \/ req.pc = "reading") => req.items[s] = << >>

\* The sources that still have more to tell in this answer.
Telling ==
  {u \in DOMAIN req.offsets : \E i \in DOMAIN req.list :
     /\ req.list[i] = u
     /\ IF i <= Len(req.queues) THEN Len(req.items[u]) < Len(req.queues[i])
        ELSE req.offsets[u] < Len(log[u])}

Asked ==
  /\ req.offsets \in Offsets /\ DOMAIN req.offsets \subseteq present
  /\ cursor # None => DOMAIN cursor.offsets = DOMAIN req.offsets
  /\ req.list = ListOf(DOMAIN req.offsets) /\ req.turn \in DOMAIN req.list
  /\ Len(req.queues) <= Len(req.list)
  /\ req.pc = "reading" => Len(req.queues) < Len(req.list)
  /\ req.pc = "serving" => Len(req.queues) = Len(req.list)
  /\ \A i \in DOMAIN req.queues : QueueFits(i)
  /\ \A s \in Sources : ItemsFit(s)
  /\ LeadFits(req.lead, req.list, req.turn, Telling)

ReqFits == ReqType /\ (req.pc # "idle" => Asked)

FeedInv == StoreFits /\ CursorFits /\ Applied /\ ReqFits

-----------------------------------------------------------------------------
(* What an article does to the tables *)

LEMMA LogAdds ==
  ASSUME NEW chg \in Seq(Change), NEW c \in Change
  PROVE  /\ Append(chg, c) \in Seq(Change) /\ Len(chg) \in Nat
         /\ DOMAIN chg = 1 .. Len(chg) /\ DOMAIN Append(chg, c) = 1 .. (Len(chg) + 1)
         /\ \A n \in 1 .. Len(chg) : Append(chg, c)[n] = chg[n]
         /\ Append(chg, c)[Len(chg) + 1] = c
         /\ \A i : c.item # i => PlacesIn(Append(chg, c), i) = PlacesIn(chg, i)
         /\ \A i : c.item = i => PlacesIn(Append(chg, c), i) = PlacesIn(chg, i) \cup {Len(chg) + 1}
<1> DEFINE new == Append(chg, c)
<1>1. /\ new \in Seq(Change) /\ Len(chg) \in Nat
      /\ DOMAIN chg = 1 .. Len(chg) /\ DOMAIN new = 1 .. (Len(chg) + 1)
      /\ \A n \in 1 .. Len(chg) : new[n] = chg[n]
      /\ new[Len(chg) + 1] = c
  OBVIOUS
<1> HIDE DEF new
<1>2. \A n \in 1 .. (Len(chg) + 1) : n \in 1 .. Len(chg) \/ n = Len(chg) + 1
  BY <1>1
<1>3. \A n \in 1 .. Len(chg) : n \in 1 .. (Len(chg) + 1)
  BY <1>1
<1>4. Len(chg) + 1 \in 1 .. (Len(chg) + 1)
  BY <1>1
<1>5. ASSUME NEW i, c.item # i PROVE PlacesIn(new, i) = PlacesIn(chg, i)
  BY <1>1, <1>2, <1>3, <1>5 DEF PlacesIn
<1>6. ASSUME NEW i, c.item = i PROVE PlacesIn(new, i) = PlacesIn(chg, i) \cup {Len(chg) + 1}
  BY <1>1, <1>2, <1>3, <1>4, <1>6 DEF PlacesIn
<1>7. QED
  BY <1>1, <1>5, <1>6 DEF new

\* A change of another item tells nothing of this one.
LEMMA ToldStays ==
  ASSUME NEW chg \in Seq(Change), NEW c \in Change, NEW rows, NEW rows2, NEW i,
         rows2[i].rev = rows[i].rev, c.item # i, Told(rows, chg, i)
  PROVE  Told(rows2, Append(chg, c), i)
<1>1. /\ PlacesIn(Append(chg, c), i) = PlacesIn(chg, i)
      /\ \A n \in PlacesIn(chg, i) : Append(chg, c)[n] = chg[n]
  BY LogAdds DEF PlacesIn
<1>2. QED
  BY <1>1 DEF Told

\* A revision comes last, and differs from the one before.
LEMMA ToldAdds ==
  ASSUME NEW chg \in Seq(Change), NEW c \in Change, NEW rows, NEW rows2, NEW i,
         rows2[i].rev = Len(chg) + 1, c.item = i, c.type # "created",
         Told(rows, chg, i), chg[rows[i].rev].content # c.content
  PROVE  Told(rows2, Append(chg, c), i)
<1> DEFINE new == Append(chg, c)
           N == Len(chg)
           P == PlacesIn(chg, i)
           r == rows[i].rev
<1>1. /\ N \in Nat /\ P \subseteq 1 .. N /\ new[N + 1] = c /\ PlacesIn(new, i) = P \cup {N + 1}
      /\ \A n \in P : new[n] = chg[n]
  BY LogAdds DEF PlacesIn
<1>2. \A n \in P : n \in Nat /\ n < N + 1 /\ ~(N + 1 <= n) /\ ~(N + 1 < n) /\ n # N + 1 /\ n <= N + 1
  BY <1>1
<1>3. r \in P /\ \A n \in P : n <= r
  BY DEF Told
<1>4. \A n \in P : /\ chg[n].type = "created" <=> \A m \in P : n <= m
                   /\ \A m \in P : (m < n /\ chg[m].content = chg[n].content) =>
                                      \E k \in P : m < k /\ k < n
  BY DEF Told
<1>5. chg[r].content # c.content
  OBVIOUS
<1> HIDE DEF P, N, new, r
<1>6. ASSUME NEW n \in P
      PROVE  /\ n <= N + 1
             /\ new[n].type = "created" <=> \A m \in P \cup {N + 1} : n <= m
             /\ \A m \in P \cup {N + 1} : (m < n /\ new[m].content = new[n].content) =>
                  \E k \in P \cup {N + 1} : m < k /\ k < n
  BY <1>1, <1>2, <1>4
<1>7. /\ N + 1 <= N + 1
      /\ new[N + 1].type # "created" /\ ~\A m \in P \cup {N + 1} : N + 1 <= m
  BY <1>1, <1>2, <1>3
<1>8. ASSUME NEW m \in P \cup {N + 1}, m < N + 1, new[m].content = new[N + 1].content
      PROVE  \E k \in P \cup {N + 1} : m < k /\ k < N + 1
  <2>1. m \in P /\ m # r
    <3>1. ~(N + 1 < N + 1)
      BY <1>1
    <3>2. m \in P
      BY <1>8, <3>1
    <3>3. QED
      BY <1>1, <1>5, <1>8, <3>2
  <2>2. m < r /\ r < N + 1
    BY <1>2, <1>3, <2>1
  <2>3. QED
    BY <1>3, <2>2
<1>9. rows2[i].rev = N + 1
  BY DEF N
<1>10. Told(rows2, new, i)
  <2>1. rows2[i].rev \in PlacesIn(new, i)
    BY <1>1, <1>9
  <2>2. ASSUME NEW n \in PlacesIn(new, i)
        PROVE  /\ n <= N + 1
               /\ new[n].type = "created" <=> \A m \in PlacesIn(new, i) : n <= m
               /\ \A m \in PlacesIn(new, i) : (m < n /\ new[m].content = new[n].content) =>
                    \E k \in PlacesIn(new, i) : m < k /\ k < n
    <3>1. CASE n \in P
      BY <1>1, <1>6, <3>1
    <3>2. CASE n = N + 1
      BY <1>1, <1>7, <1>8, <3>2
    <3>3. QED
      BY <1>1, <3>1, <3>2
  <2>3. QED
    BY <1>9, <2>1, <2>2 DEF Told
<1>11. QED
  BY <1>10 DEF new

\* The first change creates the item.
LEMMA ToldFirst ==
  ASSUME NEW chg \in Seq(Change), NEW c \in Change, NEW rows2, NEW i,
         rows2[i].rev = Len(chg) + 1, c.item = i, c.type = "created", PlacesIn(chg, i) = {}
  PROVE  Told(rows2, Append(chg, c), i)
<1>1. /\ Len(chg) \in Nat /\ PlacesIn(Append(chg, c), i) = {Len(chg) + 1}
      /\ Append(chg, c)[Len(chg) + 1] = c
  BY LogAdds
<1>2. QED
  BY <1>1 DEF Told

Keeps(t, u) == u \in Tables /\ Fit(u) /\ Len(u.log) >= Len(t.log)

LEMMA TableFacts ==
  ASSUME NEW t \in Tables
  PROVE  /\ t.items \in Seq(Rows) /\ Len(t.items) \in Nat /\ DOMAIN t.items = 1 .. Len(t.items)
         /\ \A i \in DOMAIN t.items : t.items[i] \in Rows
         /\ t.log \in Seq(Change) /\ Len(t.log) \in Nat /\ DOMAIN t.log = 1 .. Len(t.log)
BY DEF Tables

LEMMA ArticleFacts ==
  ASSUME NEW a \in Articles
  PROVE  a.id \in Ids \cup {None} /\ a.url \in Urls /\ a.content \in Contents
BY DEF Articles

\* A row that answers to no article before is appended, with the change that creates it.
LEMMA CreatedFits ==
  ASSUME NEW t \in Tables, Fit(t), NEW a \in Articles, Known(t.items, a) = {}
  PROVE  Keeps(t, Stored(t, a))
<1> DEFINE N == Len(t.items)
           M == Len(t.log)
           row == [id |-> a.id, url |-> a.url, rev |-> M + 1]
           c == ChangeOf(N + 1, "created", a)
           rows == Append(t.items, row)
           chg == Append(t.log, c)
           u == Stored(t, a)
<1>1. /\ t.items \in Seq(Rows) /\ N \in Nat /\ DOMAIN t.items = 1 .. N
      /\ t.log \in Seq(Change) /\ M \in Nat /\ DOMAIN t.log = 1 .. M
  BY TableFacts
<1>2. u = [t EXCEPT !.items = rows, !.log = chg]
  BY DEF Stored
<1>3. row \in Rows /\ row.id = a.id /\ row.url = a.url /\ row.rev = M + 1
  BY <1>1, ArticleFacts DEF Rows
<1>4. c \in Change /\ c.item = N + 1 /\ c.type = "created"
  BY <1>1, ArticleFacts DEF ChangeOf, Change
<1> HIDE DEF row, c
<1>5. /\ rows \in Seq(Rows) /\ DOMAIN rows = 1 .. (N + 1) /\ rows[N + 1] = row
      /\ \A i \in 1 .. N : rows[i] = t.items[i]
  BY <1>1, <1>3
<1>6. chg \in Seq(Change) /\ Len(chg) = M + 1
  BY <1>1, <1>4
<1> HIDE DEF rows
<1>7. u \in Tables /\ u.items = rows /\ u.log = chg
  <2> HIDE DEF chg, u
  <2>1. QED
    BY <1>2, <1>5, <1>6 DEF Tables
<1> HIDE DEF u
<1>8. \A i \in 1 .. (N + 1) : i \in 1 .. N \/ i = N + 1
  BY <1>1
<1>9. Distinct(rows)
  <2>1. \A i \in 1 .. N : /\ t.items[i].url # a.url
                          /\ a.id = None \/ t.items[i].id # a.id
    BY <1>1 DEF Known, ById, ByUrl
  <2>2. \A i, j \in 1 .. N : i # j => /\ t.items[i].url # t.items[j].url
                                      /\ t.items[i].id = None \/ t.items[i].id # t.items[j].id
    BY <1>1 DEF Fit, Distinct
  <2>3. QED
    BY <1>3, <1>5, <1>8, <2>1, <2>2 DEF Distinct
<1>10. \A n \in DOMAIN chg : chg[n].item \in DOMAIN rows
  <2>1. \A n \in 1 .. M : t.log[n].item \in 1 .. N
    BY <1>1 DEF Fit
  <2>2. \A n \in DOMAIN chg : (n \in 1 .. M /\ chg[n] = t.log[n]) \/ chg[n] = c
    BY <1>1, <1>4, LogAdds
  <2>3. \A i \in 1 .. N : i \in 1 .. (N + 1)
    BY <1>1
  <2>4. N + 1 \in 1 .. (N + 1)
    BY <1>1
  <2> HIDE DEF chg
  <2>5. QED
    BY <1>4, <1>5, <2>1, <2>2, <2>3, <2>4
<1>11. ASSUME NEW i \in 1 .. N PROVE Told(rows, chg, i)
  <2>1. c.item # i /\ rows[i].rev = t.items[i].rev /\ Told(t.items, t.log, i)
    BY <1>1, <1>4, <1>5 DEF Fit
  <2>2. QED
    BY <1>1, <1>4, <2>1, ToldStays
<1>12. Told(rows, chg, N + 1)
  <2>1. PlacesIn(t.log, N + 1) = {}
    BY <1>1 DEF Fit, PlacesIn
  <2>2. rows[N + 1].rev = Len(t.log) + 1
    BY <1>3, <1>5
  <2>3. QED
    BY <1>1, <1>4, <2>1, <2>2, ToldFirst
<1> HIDE DEF chg
<1>13. \A i \in DOMAIN rows : Told(rows, chg, i)
  BY <1>5, <1>8, <1>11, <1>12
<1>14. Fit(u)
  BY <1>7, <1>9, <1>10, <1>13 DEF Fit
<1>15. QED
  BY <1>1, <1>6, <1>7, <1>14 DEF Keeps, u

LEMMA KnownOnce ==
  ASSUME NEW t \in Tables, NEW a \in Articles, ~Conflict(t, a),
         NEW i \in Known(t.items, a), NEW j \in Known(t.items, a)
  PROVE  i = j
<1> DEFINE K == Known(t.items, a)
<1> SUFFICES ASSUME i # j PROVE FALSE
  OBVIOUS
<1>1. IsFiniteSet(K)
  <2>1. IsFiniteSet(1 .. Len(t.items))
    BY TableFacts, FS_Interval
  <2>2. K \subseteq 1 .. Len(t.items)
    BY TableFacts DEF Known, ById, ByUrl
  <2> HIDE DEF K
  <2>3. QED
    BY <2>1, <2>2, FS_Subset
<1> HIDE DEF K
<1>2. Cardinality({i}) = 1 /\ IsFiniteSet({i})
  BY FS_Singleton
<1>3. Cardinality({i} \cup {j}) = 2
  <2>1. j \notin {i}
    OBVIOUS
  <2>2. Cardinality({i} \cup {j}) = Cardinality({i}) + 1
    BY <1>2, <2>1, FS_AddElement, Zenon
  <2>3. QED
    BY <1>2, <2>2
<1>4. {i} \cup {j} \subseteq K
  BY DEF K
<1>5. Cardinality({i} \cup {j}) <= Cardinality(K) /\ Cardinality(K) \in Nat
  BY <1>1, <1>4, FS_Subset, FS_CardinalityType
<1>6. QED
  BY <1>3, <1>5 DEF Conflict, K

\* A row gets the number of the article it was recognised by.
NamedBy(t, a, i) == IF t.items[i].id = None THEN [t EXCEPT !.items[i].id = a.id] ELSE t

LEMMA NamedFits ==
  ASSUME NEW t \in Tables, Fit(t), NEW a \in Articles, ~Conflict(t, a),
         NEW i \in Known(t.items, a)
  PROVE  LET u == NamedBy(t, a, i)
         IN  /\ u \in Tables /\ Fit(u) /\ u.log = t.log
             /\ Len(u.items) = Len(t.items) /\ i \in DOMAIN t.items
             /\ u.items[i].rev = t.items[i].rev
<1> DEFINE N == Len(t.items)
<1>1. /\ t.items \in Seq(Rows) /\ N \in Nat /\ DOMAIN t.items = 1 .. N
      /\ t.log \in Seq(Change)
  BY TableFacts
<1>2. i \in 1 .. N /\ t.items[i] \in Rows
  BY <1>1 DEF Known, ById, ByUrl
<1>3. CASE t.items[i].id # None
  BY <1>1, <1>2, <1>3 DEF NamedBy
<1>4. CASE t.items[i].id = None
  <2> DEFINE row == [t.items[i] EXCEPT !.id = a.id]
             rows == [t.items EXCEPT ![i] = row]
             u == NamedBy(t, a, i)
  <2>1. /\ row \in Rows /\ row.id = a.id
        /\ row.url = t.items[i].url /\ row.rev = t.items[i].rev
    BY <1>2, ArticleFacts DEF Rows
  <2>2. u = [t EXCEPT !.items = rows]
    BY <1>4 DEF NamedBy
  <2> HIDE DEF row
  <2>3. /\ rows \in Seq(Rows) /\ DOMAIN rows = 1 .. N /\ Len(rows) = N /\ rows[i] = row
        /\ \A j \in 1 .. N : j # i => rows[j] = t.items[j]
    BY <1>1, <1>2, <2>1
  <2> HIDE DEF rows
  <2>4. u \in Tables /\ u.items = rows /\ u.log = t.log
    <3> HIDE DEF u
    <3>1. QED
      BY <2>2, <2>3 DEF Tables
  <2> HIDE DEF u
  <2>5. Distinct(rows)
    <3>1. \A j \in 1 .. N : j # i => (a.id = None \/ t.items[j].id # a.id)
      <4>1. \A j \in 1 .. N : (a.id # None /\ t.items[j].id = a.id) => j \in Known(t.items, a)
        BY <1>1 DEF Known, ById
      <4>2. \A j \in Known(t.items, a) : j = i
        BY KnownOnce
      <4>3. QED
        BY <4>1, <4>2
    <3>2. \A k, j \in 1 .. N : k # j => /\ t.items[k].url # t.items[j].url
                                        /\ t.items[k].id = None \/ t.items[k].id # t.items[j].id
      BY <1>1 DEF Fit, Distinct
    <3>3. \A k \in 1 .. N : rows[k].url = t.items[k].url
      BY <2>1, <2>3
    <3>4. QED
      BY <1>2, <2>1, <2>3, <3>1, <3>2, <3>3 DEF Distinct
  <2>6. \A k \in 1 .. N : rows[k].rev = t.items[k].rev
    BY <2>1, <2>3
  <2>7. \A k \in DOMAIN rows : Told(rows, t.log, k)
    BY <1>1, <2>3, <2>6 DEF Fit, Told
  <2>8. Fit(u)
    BY <1>1, <2>3, <2>4, <2>5, <2>7 DEF Fit
  <2>9. QED
    BY <1>1, <1>2, <2>3, <2>4, <2>6, <2>8 DEF u
<1>5. QED
  BY <1>3, <1>4

\* A row's next revision is appended to the log, whose last change of the row it is.
LEMMA RevisedFits ==
  ASSUME NEW t \in Tables, Fit(t), NEW a \in Articles, NEW i \in DOMAIN t.items,
         t.log[t.items[i].rev].content # a.content
  PROVE  Keeps(t, [t EXCEPT !.items[i].rev = Len(t.log) + 1,
                            !.log = Append(@, ChangeOf(i, "revised", a))])
<1> DEFINE N == Len(t.items)
           M == Len(t.log)
           row == [t.items[i] EXCEPT !.rev = M + 1]
           rows == [t.items EXCEPT ![i] = row]
           c == ChangeOf(i, "revised", a)
           chg == Append(t.log, c)
           u == [t EXCEPT !.items[i].rev = Len(t.log) + 1,
                          !.log = Append(@, ChangeOf(i, "revised", a))]
<1>1. /\ t.items \in Seq(Rows) /\ N \in Nat /\ DOMAIN t.items = 1 .. N
      /\ t.log \in Seq(Change) /\ M \in Nat /\ DOMAIN t.log = 1 .. M /\ t.items[i] \in Rows
  BY TableFacts
<1>2. u = [t EXCEPT !.items = rows, !.log = chg]
  OBVIOUS
<1>3. row \in Rows /\ row.id = t.items[i].id /\ row.url = t.items[i].url /\ row.rev = M + 1
  <2> DEFINE m == M + 1
  <2>1. m \in Nat
    BY <1>1
  <2> HIDE DEF m
  <2>2. [t.items[i] EXCEPT !.rev = m] \in Rows
    BY <1>1, <2>1 DEF Rows
  <2>3. row = [t.items[i] EXCEPT !.rev = m]
    BY DEF m
  <2>4. row.id = t.items[i].id /\ row.url = t.items[i].url /\ row.rev = m
    BY <1>1, <2>3 DEF Rows
  <2>5. QED
    BY <2>2, <2>3, <2>4 DEF m
<1>4. c \in Change /\ c.item = i /\ c.type # "created" /\ c.content = a.content
  BY <1>1, ArticleFacts DEF ChangeOf, Change
<1> HIDE DEF row, c
<1>5. /\ rows \in Seq(Rows) /\ DOMAIN rows = 1 .. N /\ rows[i] = row
      /\ \A j \in 1 .. N : j # i => rows[j] = t.items[j]
  BY <1>1, <1>3
<1>6. chg \in Seq(Change) /\ Len(chg) = M + 1
  BY <1>1, <1>4
<1> HIDE DEF rows
<1>7. u \in Tables /\ u.items = rows /\ u.log = chg
  <2> HIDE DEF chg, u
  <2>1. QED
    BY <1>2, <1>5, <1>6 DEF Tables
<1> HIDE DEF u
<1>8. Distinct(rows)
  <2>1. \A k \in 1 .. N : rows[k].url = t.items[k].url /\ rows[k].id = t.items[k].id
    BY <1>3, <1>5
  <2>2. QED
    BY <1>1, <1>5, <2>1 DEF Fit, Distinct
<1>9. \A n \in DOMAIN chg : chg[n].item \in DOMAIN rows
  <2>1. \A n \in 1 .. M : t.log[n].item \in 1 .. N
    BY <1>1 DEF Fit
  <2>2. \A n \in DOMAIN chg : (n \in 1 .. M /\ chg[n] = t.log[n]) \/ chg[n] = c
    BY <1>1, <1>4, LogAdds
  <2> HIDE DEF chg
  <2>3. QED
    BY <1>1, <1>4, <1>5, <2>1, <2>2
<1>10. ASSUME NEW k \in 1 .. N PROVE Told(rows, chg, k)
  <2>1. Told(t.items, t.log, k)
    BY <1>1 DEF Fit
  <2>2. CASE k # i
    <3>1. c.item # k /\ rows[k].rev = t.items[k].rev
      BY <1>4, <1>5, <2>2
    <3>2. QED
      BY <1>1, <1>4, <2>1, <3>1, ToldStays
  <2>3. CASE k = i
    <3>1. /\ rows[k].rev = Len(t.log) + 1 /\ c.item = k
          /\ t.log[t.items[k].rev].content # c.content
      BY <1>3, <1>4, <1>5, <2>3
    <3>2. QED
      BY <1>1, <1>4, <2>1, <3>1, ToldAdds
  <2>4. QED
    BY <2>2, <2>3
<1> HIDE DEF chg
<1>11. Fit(u)
  BY <1>5, <1>7, <1>8, <1>9, <1>10 DEF Fit
<1>12. QED
  BY <1>1, <1>6, <1>7, <1>11 DEF Keeps, u

LEMMA StoredFits ==
  ASSUME NEW t \in Tables, Fit(t), NEW a \in Articles, ~Conflict(t, a)
  PROVE  Keeps(t, Stored(t, a))
<1>1. CASE Known(t.items, a) = {}
  BY <1>1, CreatedFits
<1>2. CASE Known(t.items, a) # {}
  <2> DEFINE i == CHOOSE i \in Known(t.items, a) : TRUE
             u == NamedBy(t, a, i)
  <2>1. i \in Known(t.items, a)
    BY <1>2
  <2>2. Stored(t, a) = IF Unchanged(t.log[t.items[i].rev], a) THEN u
                       ELSE [u EXCEPT !.items[i].rev = Len(t.log) + 1,
                                      !.log = Append(@, ChangeOf(i, "revised", a))]
    BY <1>2 DEF Stored, NamedBy
  <2> HIDE DEF i
  <2>3. /\ u \in Tables /\ Fit(u) /\ u.log = t.log
        /\ i \in DOMAIN t.items /\ Len(u.items) = Len(t.items)
        /\ u.items[i].rev = t.items[i].rev
    BY <2>1, NamedFits
  <2> HIDE DEF u
  <2>4. i \in DOMAIN u.items /\ Len(t.log) \in Nat
    BY <2>3, TableFacts
  <2>5. CASE Unchanged(t.log[t.items[i].rev], a)
    BY <2>2, <2>3, <2>4, <2>5 DEF Keeps
  <2>6. CASE ~Unchanged(t.log[t.items[i].rev], a)
    <3>1. u.log[u.items[i].rev].content # a.content
      BY <2>3, <2>6 DEF Unchanged
    <3>2. Keeps(u, [u EXCEPT !.items[i].rev = Len(u.log) + 1,
                             !.log = Append(@, ChangeOf(i, "revised", a))])
      BY <2>3, <2>4, <3>1, RevisedFits
    <3>3. Keeps(u, Stored(t, a))
      BY <2>2, <2>3, <2>6, <3>2
    <3>4. QED
      BY <2>3, <3>3 DEF Keeps
  <2>7. QED
    BY <2>5, <2>6
<1>3. QED
  BY <1>1, <1>2

-----------------------------------------------------------------------------
(* What a page does to the tables *)

\* The sound tables whose log has at least b changes.
From(b) == {t \in Tables : Fit(t) /\ Len(t.log) >= b}

AlignArticle(p, a) ==
  IF ~p.ok \/ Conflict(p.tables, a) THEN [p EXCEPT !.ok = FALSE]
  ELSE [p EXCEPT !.tables = Stored(p.tables, a)]

LEMMA AlignArticleFits ==
  ASSUME NEW b \in Nat, NEW p \in [ok : BOOLEAN, tables : From(b)], NEW a \in Articles
  PROVE  AlignArticle(p, a) \in [ok : BOOLEAN, tables : From(b)]
<1>1. CASE ~p.ok \/ Conflict(p.tables, a)
  BY <1>1 DEF AlignArticle
<1>2. CASE ~(~p.ok \/ Conflict(p.tables, a))
  <2> DEFINE u == Stored(p.tables, a)
  <2>1. p.tables \in Tables /\ Fit(p.tables) /\ Len(p.tables.log) >= b
    BY DEF From
  <2>2. Keeps(p.tables, u)
    BY <1>2, <2>1, StoredFits
  <2>3. Len(p.tables.log) \in Nat
    BY <2>1, TableFacts
  <2>4. u \in Tables /\ Fit(u) /\ Len(u.log) >= Len(p.tables.log)
    BY <2>2 DEF Keeps
  <2>5. Len(u.log) \in Nat
    <3> HIDE DEF u
    <3>1. QED
      BY <2>4, TableFacts
  <2>6. AlignArticle(p, a) = [p EXCEPT !.tables = u]
    BY <1>2 DEF AlignArticle
  <2> HIDE DEF u
  <2>7. u \in From(b)
    BY <2>1, <2>3, <2>4, <2>5 DEF From
  <2>8. QED
    BY <2>6, <2>7
<1>3. QED
  BY <1>1, <1>2

LEMMA AlignedFits ==
  ASSUME NEW t \in Tables, Fit(t), NEW page \in Seq(Articles)
  PROVE  Keeps(t, Aligned(t, page).tables)
<1> DEFINE N == Len(page)
           b == Len(t.log)
           V == [ok : BOOLEAN, tables : From(b)]
           v == [ok |-> TRUE, tables |-> t]
           G == [i \in 1 .. N |-> [p \in V |-> AlignArticle(p, page[i])]]
           P(F) == F = [n \in 0 .. N |-> IF n = 0 THEN [ok |-> TRUE, tables |-> t]
                          ELSE LET p == F[n - 1]
                               IN IF ~p.ok \/ Conflict(p.tables, page[n]) THEN [p EXCEPT !.ok = FALSE]
                                  ELSE [p EXCEPT !.tables = Stored(p.tables, page[n])]]
           C == CHOOSE F : P(F)
<1>1. N \in Nat /\ b \in Nat /\ \A i \in 1 .. N : page[i] \in Articles
  BY TableFacts
<1>2. v \in V
  BY <1>1 DEF From
<1>3. Aligned(t, page) = C[N]
  BY DEF Aligned
<1> HIDE DEF b, N
<1>4. \A i \in 1 .. N, p \in V : AlignArticle(p, page[i]) \in V
  BY <1>1, AlignArticleFits
<1>5. G \in [1 .. N -> [V -> V]]
  <2> HIDE DEF V
  <2>1. QED
    BY <1>4
<1>6. PICK F \in [0 .. N -> V] : F[0] = v /\ \A i \in 1 .. N : F[i] = G[i][F[i - 1]]
  <2> HIDE DEF G, V, v
  <2>1. Iterates(V, v, N, G)
    BY <1>1, <1>2, <1>5, RecursionExists
  <2>2. QED
    BY <2>1 DEF Iterates
<1>7. \A n \in 0 .. N : F[n] = IF n = 0 THEN [ok |-> TRUE, tables |-> t] ELSE AlignArticle(F[n - 1], page[n])
  <2> HIDE DEF V
  <2>1. \A n \in 0 .. N : n # 0 => n \in 1 .. N /\ n - 1 \in 0 .. N
    BY <1>1
  <2>2. \A n \in 1 .. N : G[n][F[n - 1]] = AlignArticle(F[n - 1], page[n])
    <3>1. \A n \in 1 .. N : F[n - 1] \in V
      <4>1. \A n \in 1 .. N : n - 1 \in 0 .. N
        BY <1>1
      <4>2. QED
        BY <4>1
    <3>2. QED
      BY <3>1
  <2> HIDE DEF G
  <2>3. QED
    BY <1>6, <2>1, <2>2
<1>8. P(F)
  <2>1. F = [n \in 0 .. N |-> F[n]]
    OBVIOUS
  <2> HIDE DEF V
  <2>2. QED
    BY <1>7, <2>1 DEF AlignArticle
<1>9. P(C)
  BY <1>8
<1> HIDE DEF C
<1>10. \A n \in 0 .. N : C[n] = IF n = 0 THEN v ELSE AlignArticle(C[n - 1], page[n])
  BY <1>9 DEF AlignArticle
<1> HIDE DEF V, v
<1>11. {n \in 0 .. N : C[n] \notin V} = {}
  <2> DEFINE Bad == {n \in 0 .. N : C[n] \notin V}
  <2> SUFFICES ASSUME Bad # {} PROVE FALSE
    OBVIOUS
  <2>1. PICK n \in Bad : \A m \in Bad : n <= m
    <3>1. Bad \in SUBSET Nat
      OBVIOUS
    <3> HIDE DEF Bad
    <3>2. QED
      BY <3>1, LeastOf
  <2>2. n \in 1 .. N /\ n - 1 \in 0 .. N /\ ~(n <= n - 1)
    <3>1. n # 0
      BY <1>2, <1>10, <2>1
    <3>2. QED
      BY <1>1, <3>1
  <2>3. C[n - 1] \in V
    BY <2>1, <2>2
  <2>4. C[n] \in V
    BY <1>4, <1>10, <2>2, <2>3
  <2>5. QED
    BY <2>4
<1>12. C[N] \in V
  BY <1>1, <1>11
<1>13. QED
  BY <1>3, <1>12 DEF V, From, Keeps, b

LEMMA PageFits ==
  ASSUME NEW page \in Pages
  PROVE  page \in Seq(Articles)
<1>1. PICK n \in 1 .. MaxPage : page \in [1 .. n -> Articles]
  BY DEF Pages
<1>2. n \in Nat
  BY BoundsAssumption
<1>3. QED
  BY <1>1, <1>2

-----------------------------------------------------------------------------
(* The invariant at the start, and when the tables grow *)

LEMMA SourceFacts == Sources = Range(Order) /\ Offsets = UNION {[some -> Nat] : some \in SUBSET Sources}
BY DEF Sources, Offsets

LEMMA OffsetFacts ==
  ASSUME NEW f \in Offsets
  PROVE  DOMAIN f \in SUBSET Sources /\ f \in [DOMAIN f -> Nat]
<1>1. PICK some \in SUBSET Sources : f \in [some -> Nat]
  BY SourceFacts
<1>2. QED
  BY <1>1

LEMMA MoreLead ==
  ASSUME NEW ld, NEW places, NEW k, NEW more, NEW wider,
         LeadFits(ld, places, k, more), more \subseteq wider
  PROVE  LeadFits(ld, places, k, wider)
BY DEF LeadFits

LEMMA StartFacts ==
  ASSUME StoreFits, CursorFits, NEW s \in Sources
  PROVE  Start(s) \in Nat /\ Start(s) <= Len(log[s]) /\ Len(log[s]) \in Nat
<1>1. Len(log[s]) \in Nat
  BY DEF StoreFits
<1>2. CASE cursor # None /\ s \in DOMAIN cursor.offsets
  <2>1. cursor.offsets \in Offsets
    BY <1>2 DEF CursorFits, Cursor
  <2>2. QED
    BY <1>1, <1>2, <2>1, OffsetFacts DEF CursorFits, Start, StartOf
<1>3. CASE ~(cursor # None /\ s \in DOMAIN cursor.offsets)
  <2>1. Start(s) = 0
    BY <1>3 DEF Start, StartOf
  <2>2. QED
    BY <1>1, <2>1
<1>4. QED
  BY <1>2, <1>3

LEMMA NoLeadFacts ==
  /\ NoLead \in Leads
  /\ \A places, k, more : LeadFits(NoLead, places, k, more)
BY DEF NoLead, Leads, LeadFits

LEMMA NoReqFits == NoReq \in Requests /\ NoReq.pc = "idle"
<1>1. << >> \in Seq(Sources) /\ << >> \in Seq(Seq(Nat)) /\ << >> \in Seq(Nat)
  OBVIOUS
<1>2. 1 \in 1 .. Len(Order)
  BY OrderFacts
<1> DEFINE none == [s \in Sources |-> << >>]
           nil == << >>
<1>3. none \in [Sources -> Seq(Nat)] /\ nil \in Seq(Sources) /\ nil \in Seq(Seq(Nat))
      /\ nil \in Offsets \cup {<< >>}
  BY <1>1
<1>4. NoReq = [pc |-> "idle", list |-> nil, offsets |-> nil, turn |-> 1,
               queues |-> nil, limit |-> 1, items |-> none,
               size |-> 0, idle |-> 0, lead |-> NoLead]
  BY DEF NoReq
<1> HIDE DEF none, nil
<1>5. QED
  BY <1>2, <1>3, <1>4, NoLeadFacts DEF Requests

LEMMA InitFeed == Init => FeedInv
<1> SUFFICES ASSUME Init PROVE FeedInv
  OBVIOUS
<1>1. StoreFits
  <2>1. \A s \in Sources : news[s] = << >> /\ log[s] = << >>
    BY DEF Init
  <2>2. \A s \in Sources : Fit(TableOf(s)) /\ Len(log[s]) <= MaxChanges
    BY <2>1, BoundsAssumption DEF Fit, TableOf, Distinct, Told
  <2>3. news \in [Sources -> Seq(Rows)] /\ log \in [Sources -> Seq(Change)]
    BY DEF Init
  <2>4. present \in SUBSET Sources /\ pages \in 0 .. MaxPages
    BY BoundsAssumption DEF Init
  <2>5. QED
    BY <2>2, <2>3, <2>4 DEF StoreFits
<1>2. CursorFits
  BY NoLeadFacts DEF Init, CursorFits
<1>3. Applied
  <2>1. \A s \in Sources : Start(s) = 0
    BY DEF Init, Start, StartOf
  <2>2. [n \in 1 .. 0 |-> n] = << >>
    OBVIOUS
  <2>3. \A s \in Sources : [n \in 1 .. Start(s) |-> n] = << >>
    BY <2>1, <2>2
  <2>4. QED
    BY <2>3 DEF Init, Applied
<1>4. ReqFits
  BY NoReqFits DEF Init, ReqFits, ReqType
<1>5. QED
  BY <1>1, <1>2, <1>3, <1>4 DEF FeedInv

\* When sources are added and logs grow, nothing of the consumer is disturbed.
LEMMA StoreMoves ==
  ASSUME FeedInv, UNCHANGED <<cursor, req, got, lead>>, StoreFits', present \subseteq present',
         \A s \in Sources : Len(log'[s]) >= Len(log[s])
  PROVE  FeedInv'
<1> USE DEF FeedInv
<1>0. \A s \in Sources : Len(log[s]) \in Nat /\ Len(log'[s]) \in Nat
  BY DEF StoreFits
<1>1. CursorFits'
  <2>1. ASSUME cursor # None
        PROVE  /\ cursor \in Cursor /\ DOMAIN cursor.offsets \subseteq present'
               /\ \A s \in DOMAIN cursor.offsets : cursor.offsets[s] <= Len(log'[s])
               /\ cursor.turn \in DOMAIN ListOf(DOMAIN cursor.offsets)
               /\ LeadFits(lead, ListOf(DOMAIN cursor.offsets), cursor.turn,
                           {u \in DOMAIN cursor.offsets : cursor.offsets[u] < Len(log'[u])})
    <3>1. /\ cursor \in Cursor /\ DOMAIN cursor.offsets \subseteq present
          /\ \A s \in DOMAIN cursor.offsets : cursor.offsets[s] <= Len(log[s])
          /\ cursor.turn \in DOMAIN ListOf(DOMAIN cursor.offsets)
          /\ LeadFits(lead, ListOf(DOMAIN cursor.offsets), cursor.turn,
                      {u \in DOMAIN cursor.offsets : cursor.offsets[u] < Len(log[u])})
      BY <2>1 DEF CursorFits
    <3>2. cursor.offsets \in Offsets
      BY <3>1 DEF Cursor
    <3>3. \A s \in DOMAIN cursor.offsets : s \in Sources /\ cursor.offsets[s] \in Nat
      BY <3>2, OffsetFacts
    <3>4. \A s \in DOMAIN cursor.offsets : cursor.offsets[s] <= Len(log'[s])
      BY <1>0, <3>1, <3>3
    <3>5. {u \in DOMAIN cursor.offsets : cursor.offsets[u] < Len(log[u])}
            \subseteq {u \in DOMAIN cursor.offsets : cursor.offsets[u] < Len(log'[u])}
      BY <1>0, <3>3
    <3>6. QED
      BY <3>1, <3>4, <3>5, MoreLead
  <2>2. QED
    BY <2>1 DEF CursorFits
<1>2. \A s : Start(s)' = Start(s)
  BY DEF Start, StartOf
<1>3. Applied'
  BY <1>2 DEF Applied
<1>4. ReqType'
  BY DEF ReqFits, ReqType
<1>5. ASSUME req.pc # "idle" PROVE Asked'
  <2>1. Asked
    BY <1>5 DEF ReqFits
  <2>2. \A s \in DOMAIN req.offsets : s \in Sources /\ req.offsets[s] \in Nat
    BY <2>1, OffsetFacts DEF Asked
  <2>3. Lists(req.list, DOMAIN req.offsets)
    BY <2>1, <2>2, ListFacts DEF Asked
  <2>4. \A i \in DOMAIN req.queues : i \in DOMAIN req.list /\ req.list[i] \in Sources
    <3>1. /\ DOMAIN req.queues = 1 .. Len(req.queues) /\ Len(req.queues) \in Nat
          /\ Len(req.queues) <= Len(req.list)
      BY <2>1 DEF Asked, ReqFits, ReqType
    <3>2. /\ DOMAIN req.list = 1 .. Len(req.list) /\ Len(req.list) \in Nat
          /\ \A i \in 1 .. Len(req.list) : req.list[i] \in DOMAIN req.offsets
      BY <2>3 DEF Lists
    <3>3. QED
      BY <2>2, <3>1, <3>2
  <2>5. ASSUME NEW i \in DOMAIN req.queues PROVE QueueFits(i)'
    <3>1. QueueFits(i) /\ req.list[i] \in Sources
      BY <2>1, <2>4 DEF Asked
    <3>2. Len(req.queues[i]) \in Nat /\ Start(req.list[i]) \in Nat
      BY <3>1, StartFacts DEF ReqFits, ReqType
    <3>3. Start(req.list[i])' = Start(req.list[i])
      BY DEF Start
    <3>4. Len(log[req.list[i]]) <= Len(log'[req.list[i]])
      BY <1>0, <3>1
    <3>5. Start(req.list[i]) + Len(req.queues[i]) <= Len(log'[req.list[i]])
      BY <1>0, <3>1, <3>2, <3>4 DEF QueueFits
    <3>6. QED
      BY <3>1, <3>3, <3>5 DEF QueueFits
  <2>6. \A s \in Sources : ItemsFit(s)'
    BY <1>2, <2>1 DEF Asked, ItemsFit
  <2>7. Telling \subseteq Telling'
    BY <1>0, <2>2 DEF Telling
  <2>8. LeadFits(req.lead, req.list, req.turn, Telling')
    BY <2>1, <2>7, MoreLead DEF Asked
  <2>9. DOMAIN req.offsets \subseteq present'
    BY <2>1 DEF Asked
  <2>10. QED
    BY <2>1, <2>5, <2>6, <2>8, <2>9 DEF Asked
<1>6. QED
  BY <1>1, <1>3, <1>4, <1>5 DEF ReqFits

LEMMA CommitPageKeeps ==
  ASSUME FeedInv, NEW s \in Sources, CommitPage(s)
  PROVE  FeedInv'
<1>1. PICK page \in Pages :
        LET r == Aligned([items |-> news[s], log |-> log[s]], page)
        IN /\ r.ok /\ Len(r.tables.log) <= MaxChanges
           /\ news' = [news EXCEPT ![s] = r.tables.items]
           /\ log' = [log EXCEPT ![s] = r.tables.log]
  BY DEF CommitPage
<1> DEFINE t == TableOf(s)
           u == Aligned(t, page).tables
<1>2. /\ Len(u.log) <= MaxChanges
      /\ news' = [news EXCEPT ![s] = u.items] /\ log' = [log EXCEPT ![s] = u.log]
  BY <1>1 DEF TableOf
<1>3. /\ news \in [Sources -> Seq(Rows)] /\ log \in [Sources -> Seq(Change)]
      /\ \A x \in Sources : Len(log[x]) <= MaxChanges /\ Fit(TableOf(x)) /\ Len(log[x]) \in Nat
  BY DEF FeedInv, StoreFits
<1>4. t \in Tables /\ Fit(t) /\ t.log = log[s]
  BY <1>3 DEF Tables, TableOf
<1> HIDE DEF t
<1>5. Keeps(t, u)
  BY <1>4, PageFits, AlignedFits
<1> HIDE DEF u
<1>6. u.items \in Seq(Rows) /\ u.log \in Seq(Change) /\ Fit(u) /\ Len(u.log) >= Len(log[s])
  BY <1>4, <1>5 DEF Keeps, Tables
<1>7. /\ news' \in [Sources -> Seq(Rows)] /\ log' \in [Sources -> Seq(Change)]
      /\ news'[s] = u.items /\ log'[s] = u.log
      /\ \A x \in Sources : x # s => news'[x] = news[x] /\ log'[x] = log[x]
  BY <1>2, <1>3, <1>6
<1>8. ASSUME NEW x \in Sources
      PROVE  Len(log'[x]) <= MaxChanges /\ Fit(TableOf(x)') /\ Len(log'[x]) >= Len(log[x])
  <2>1. CASE x = s
    <3>1. TableOf(x)' = u
      <4>1. u \in Tables
        BY <1>5 DEF Keeps
      <4>2. u = [items |-> u.items, log |-> u.log]
        BY <4>1 DEF Tables
      <4>3. QED
        BY <1>7, <2>1, <4>2 DEF TableOf
    <3>2. QED
      BY <1>2, <1>6, <1>7, <2>1, <3>1
  <2>2. CASE x # s
    <3>1. TableOf(x)' = TableOf(x) /\ log'[x] = log[x]
      BY <1>7, <2>2 DEF TableOf
    <3>2. QED
      BY <1>3, <3>1
  <2>3. QED
    BY <2>1, <2>2
<1>9. /\ UNCHANGED <<present, cursor, req, got, lead>>
      /\ pages' \in 0 .. MaxPages
  BY BoundsAssumption DEF CommitPage, FeedInv, StoreFits
<1>10. StoreFits'
  <2>1. \A x \in Sources : Fit(TableOf(x))'
    BY <1>8 DEF Fit
  <2>2. present' \in SUBSET Sources
    BY <1>9 DEF FeedInv, StoreFits
  <2>3. QED
    BY <1>7, <1>8, <1>9, <2>1, <2>2 DEF StoreFits
<1>11. QED
  BY <1>8, <1>9, <1>10, StoreMoves

LEMMA AddSourceKeeps == FeedInv /\ AddSource => FeedInv'
<1> SUFFICES ASSUME FeedInv, AddSource PROVE FeedInv'
  OBVIOUS
<1>1. /\ present \subseteq present' /\ present' \in SUBSET Sources
      /\ UNCHANGED <<news, log, pages, cursor, req, got, lead>>
  BY DEF AddSource, FeedInv, StoreFits
<1>2. \A s \in Sources : Len(log'[s]) >= Len(log[s])
  BY <1>1 DEF FeedInv, StoreFits
<1>3. \A s : TableOf(s)' = TableOf(s)
  BY <1>1 DEF TableOf
<1>4. StoreFits'
  BY <1>1, <1>3 DEF FeedInv, StoreFits, Fit
<1>5. QED
  BY <1>1, <1>2, <1>4, StoreMoves

-----------------------------------------------------------------------------
(* The steps of a request *)

LEMMA ReqFacts ==
  ASSUME ReqType
  PROVE  /\ req.pc \in {"idle", "reading", "serving"} /\ req.list \in Seq(Sources)
         /\ req.offsets \in Offsets \cup {<< >>} /\ req.turn \in 1 .. Len(Order)
         /\ req.queues \in Seq(Seq(Nat)) /\ Len(req.queues) \in Nat
         /\ DOMAIN req.queues = 1 .. Len(req.queues)
         /\ \A i \in DOMAIN req.queues : req.queues[i] \in Seq(Nat) /\ Len(req.queues[i]) \in Nat
         /\ req.limit \in Nat /\ req.limit # 0 /\ req.items \in [Sources -> Seq(Nat)]
         /\ \A s \in Sources : req.items[s] \in Seq(Nat) /\ Len(req.items[s]) \in Nat
         /\ req.size \in Nat /\ req.idle \in Nat /\ req.lead \in Leads
BY DEF ReqType, Requests

\* The list of a request is that of the sources whose offsets it has.
LEMMA AskedFacts ==
  ASSUME ReqType, Asked
  PROVE  /\ DOMAIN req.offsets \in SUBSET Sources /\ req.offsets \in [DOMAIN req.offsets -> Nat]
         /\ DOMAIN req.list = 1 .. Len(req.list) /\ Len(req.list) \in Nat
         /\ Len(req.list) <= Len(Order)
         /\ \A i \in DOMAIN req.list : req.list[i] \in DOMAIN req.offsets /\ req.list[i] \in Sources
         /\ \A i, j \in DOMAIN req.list : req.list[i] = req.list[j] => i = j
         /\ \A s \in DOMAIN req.offsets : \E i \in DOMAIN req.list : req.list[i] = s
<1>1. req.offsets \in Offsets /\ req.list = ListOf(DOMAIN req.offsets)
  BY DEF Asked
<1>2. DOMAIN req.offsets \in SUBSET Sources /\ req.offsets \in [DOMAIN req.offsets -> Nat]
  BY <1>1, OffsetFacts
<1>3. Lists(req.list, DOMAIN req.offsets)
  BY <1>1, <1>2, ListFacts
<1>4. DOMAIN req.offsets \subseteq Sources
  BY <1>2
<1>5. QED
  BY <1>2, <1>3, <1>4 DEF Lists

LEMMA BeginAnewKeeps == FeedInv /\ BeginAnew => FeedInv'
<1> SUFFICES ASSUME FeedInv, BeginAnew PROVE FeedInv'
  OBVIOUS
<1>1. /\ cursor' = None /\ got' = [s \in Sources |-> << >>] /\ lead' = NoLead
      /\ UNCHANGED <<news, log, present, pages, req>> /\ req.pc = "idle"
  BY DEF BeginAnew, store
<1>2. StoreFits'
  BY <1>1 DEF FeedInv, StoreFits, TableOf, Fit
<1>3. CursorFits'
  BY <1>1, NoLeadFacts DEF CursorFits
<1>4. Applied'
  <2>1. \A s \in Sources : Start(s)' = 0
    BY <1>1 DEF Start, StartOf
  <2>2. [n \in 1 .. 0 |-> n] = << >>
    OBVIOUS
  <2>3. \A s \in Sources : [n \in 1 .. Start(s)' |-> n] = << >>
    BY <2>1, <2>2
  <2>4. QED
    BY <1>1, <2>3 DEF Applied
<1>5. ReqFits'
  BY <1>1 DEF FeedInv, ReqFits, ReqType
<1>6. QED
  BY <1>2, <1>3, <1>4, <1>5 DEF FeedInv

\* When only the request moves, it is for the request to fit again.
LEMMA ReqMoves ==
  ASSUME FeedInv, UNCHANGED <<news, log, present, pages, cursor, got, lead>>, ReqFits'
  PROVE  FeedInv'
<1>1. StoreFits'
  BY DEF FeedInv, StoreFits, TableOf, Fit
<1>2. CursorFits'
  BY DEF FeedInv, CursorFits
<1>3. Applied'
  BY DEF FeedInv, Applied, Start
<1>4. QED
  BY <1>1, <1>2, <1>3 DEF FeedInv

LEMMA LoseAnswerKeeps == FeedInv /\ LoseAnswer => FeedInv'
<1> SUFFICES ASSUME FeedInv, LoseAnswer PROVE FeedInv'
  OBVIOUS
<1>1. req' = NoReq /\ UNCHANGED <<news, log, present, pages, cursor, got, lead>>
  BY DEF LoseAnswer, store
<1>2. ReqFits'
  BY <1>1, NoReqFits DEF ReqFits, ReqType
<1>3. QED
  BY <1>1, <1>2, ReqMoves

\* A request starts from the cursor, or from the first change of each source.
LEMMA AskChangesKeeps == FeedInv /\ AskChanges => FeedInv'
<1> SUFFICES ASSUME FeedInv, AskChanges PROVE FeedInv'
  OBVIOUS
<1>1. PICK limit \in 1 .. MaxLimit : req' = [NoReq EXCEPT
        !.pc = "reading", !.list = List, !.limit = limit, !.lead = lead,
        !.offsets = IF cursor = None THEN NoOffsets ELSE cursor.offsets,
        !.turn = IF cursor = None THEN 1 ELSE cursor.turn]
  BY DEF AskChanges
<1>2. /\ UNCHANGED <<news, log, present, pages, cursor, got, lead>>
      /\ present # {} /\ Valid /\ present \in SUBSET Sources
  BY DEF AskChanges, store, FeedInv, StoreFits
<1> DEFINE off == IF cursor = None THEN NoOffsets ELSE cursor.offsets
           turn == IF cursor = None THEN 1 ELSE cursor.turn
           none == [s \in Sources |-> << >>]
           nil == << >>
<1>3. Lists(List, present)
  BY <1>2, ListFacts DEF List
<1>4. /\ off \in Offsets /\ DOMAIN off = present /\ off \in [present -> Nat]
      /\ turn \in DOMAIN List
      /\ \A s \in Sources : Start(s) = IF s \in present THEN off[s] ELSE 0
      /\ LeadFits(lead, List, turn, {u \in present : off[u] < Len(log[u])})
  <2>1. CASE cursor = None
    <3>1. NoOffsets \in [present -> Nat] /\ DOMAIN NoOffsets = present
      BY DEF NoOffsets
    <3>2. NoOffsets \in Offsets
      BY <1>2, <3>1, SourceFacts
    <3>3. 1 \in DOMAIN List
      <4>1. PICK s \in present : TRUE
        BY <1>2
      <4>2. PICK i \in 1 .. Len(List) : List[i] = s
        BY <1>3, <4>1 DEF Lists
      <4>3. QED
        BY <1>3, <4>2 DEF Lists
    <3>4. \A s \in Sources : Start(s) = 0 /\ (s \in present => NoOffsets[s] = 0)
      BY <2>1 DEF Start, StartOf, NoOffsets
    <3>5. LeadFits(lead, List, turn, {u \in present : off[u] < Len(log[u])})
      BY <2>1, NoLeadFacts DEF FeedInv, CursorFits
    <3>6. QED
      BY <2>1, <3>1, <3>2, <3>3, <3>4, <3>5
  <2>2. CASE cursor # None
    <3>1. /\ DOMAIN cursor.offsets = present /\ cursor.offsets \in Offsets
          /\ cursor.turn \in DOMAIN List
          /\ LeadFits(lead, List, cursor.turn, {u \in present : cursor.offsets[u] < Len(log[u])})
      BY <1>2, <2>2 DEF Valid, FeedInv, CursorFits, Cursor, List
    <3>2. cursor.offsets \in [present -> Nat]
      BY <3>1, OffsetFacts
    <3>3. \A s \in Sources : Start(s) = IF s \in present THEN cursor.offsets[s] ELSE 0
      BY <2>2, <3>1 DEF Start, StartOf
    <3>4. QED
      BY <2>2, <3>1, <3>2, <3>3
  <2>3. QED
    BY <2>1, <2>2
<1>5. none \in [Sources -> Seq(Nat)] /\ nil \in Seq(Sources) /\ nil \in Seq(Seq(Nat)) /\ Len(nil) = 0
      /\ DOMAIN nil = {} /\ \A s \in Sources : none[s] = nil /\ Len(none[s]) = 0
      /\ \A k : [n \in 1 .. Len(nil) |-> k + n] = nil
  OBVIOUS
<1>6. req' = [pc |-> "reading", list |-> List, offsets |-> off, turn |-> turn,
              queues |-> nil, limit |-> limit, items |-> none,
              size |-> 0, idle |-> 0, lead |-> lead]
  BY <1>1 DEF NoReq
<1> HIDE DEF off, turn, none, nil
<1>7. /\ req'.pc = "reading" /\ req'.list = List /\ req'.offsets = off /\ req'.turn = turn
      /\ req'.queues = nil /\ req'.items = none /\ req'.lead = lead
  BY <1>6
<1>8. ReqType'
  <2>1. limit \in Nat \ {0}
    BY BoundsAssumption
  <2>2. turn \in 1 .. Len(Order)
    BY <1>3, <1>4, OrderFacts DEF Lists
  <2>3. List \in Seq(Sources)
    BY <1>3 DEF Lists
  <2>4. lead \in Leads
    BY DEF FeedInv, CursorFits
  <2>5. QED
    BY <1>4, <1>5, <1>6, <2>1, <2>2, <2>3, <2>4 DEF ReqType, Requests
<1>9. Asked'
  <2>1. req'.list = ListOf(DOMAIN req'.offsets) /\ req'.turn \in DOMAIN req'.list
    BY <1>4, <1>7 DEF List
  <2>2. cursor' # None => DOMAIN cursor'.offsets = DOMAIN req'.offsets
    BY <1>2, <1>4, <1>7 DEF Valid
  <2>3. Len(req'.queues) = 0 /\ Len(req'.list) \in Nat /\ Len(req'.list) # 0
    BY <1>3, <1>4, <1>5, <1>7 DEF Lists
  <2>4. \A i \in DOMAIN req'.queues : QueueFits(i)'
    BY <1>5, <1>7
  <2>5. ASSUME NEW s \in Sources PROVE ItemsFit(s)'
    <3>1. /\ req'.items[s] = nil /\ Len(req'.items[s]) = 0 /\ Start(s)' = Start(s)
          /\ \A k : [n \in 1 .. Len(req'.items[s]) |-> k + n] = nil
      BY <1>2, <1>5, <1>7 DEF Start, StartOf
    <3>2. s \in present => off[s] = Start(s) + 0
      BY <1>4
    <3>3. nil = << >>
      BY DEF nil
    <3>4. QED
      BY <1>4, <1>7, <3>1, <3>2, <3>3 DEF ItemsFit
  <2>6. Telling' = {u \in present : off[u] < Len(log[u])}
    <3>1. \A i \in DOMAIN List : ~(i <= 0)
      BY <1>3 DEF Lists
    <3>2. \A u \in present : \E i \in DOMAIN List : List[i] = u
      BY <1>3 DEF Lists
    <3>3. log' = log
      BY <1>2
    <3>4. QED
      BY <1>4, <1>5, <1>7, <3>1, <3>2, <3>3 DEF Telling
  <2>7. LeadFits(req'.lead, req'.list, req'.turn, Telling')
    BY <1>4, <1>7, <2>6
  <2>8. req'.offsets \in Offsets /\ DOMAIN req'.offsets \subseteq present'
    BY <1>2, <1>4, <1>7
  <2>9. req'.pc = "reading"
    BY <1>7
  <2>10. QED
    BY <2>1, <2>2, <2>3, <2>4, <2>5, <2>7, <2>8, <2>9 DEF Asked
<1>10. QED
  BY <1>2, <1>8, <1>9, ReqMoves DEF ReqFits

\* The queue that is read holds what follows the offset, something if there is more.
LEMMA ReadSourceKeeps == FeedInv /\ ReadSource => FeedInv'
<1> SUFFICES ASSUME FeedInv, ReadSource PROVE FeedInv'
  OBVIOUS
<1> DEFINE m == Len(req.queues) + 1
           s == req.list[m]
           from == req.offsets[s]
           upto == IF Len(log[s]) < from + req.limit THEN Len(log[s]) ELSE from + req.limit
           new == [n \in 1 .. (upto - from) |-> from + n]
           q == Append(req.queues, new)
           pc == IF Len(q) = Len(req.list) THEN "serving" ELSE "reading"
<1>1. /\ req.pc = "reading" /\ req' = [req EXCEPT !.queues = q, !.pc = pc]
      /\ UNCHANGED <<news, log, present, pages, cursor, got, lead>>
  BY DEF ReadSource, store
<1>2. ReqType /\ Asked /\ StoreFits /\ CursorFits
  BY <1>1 DEF FeedInv, ReqFits
<1>3. /\ m \in DOMAIN req.list /\ Len(req.queues) \in Nat /\ Len(req.queues) < Len(req.list)
      /\ Len(req.list) \in Nat
  BY <1>1, <1>2, AskedFacts, ReqFacts DEF Asked
<1>4. s \in Sources /\ s \in DOMAIN req.offsets
  BY <1>2, <1>3, AskedFacts
<1>5. ItemsFit(s) /\ req.items[s] = << >> /\ from = Start(s) /\ Start(s) \in Nat
      /\ Start(s) <= Len(log[s]) /\ Len(log[s]) \in Nat
  <2>1. ItemsFit(s) /\ Start(s) \in Nat /\ Start(s) <= Len(log[s]) /\ Len(log[s]) \in Nat
    BY <1>2, <1>4, StartFacts DEF Asked
  <2>2. req.items[s] = << >> /\ from = Start(s) + Len(req.items[s])
    BY <1>1, <1>4, <2>1 DEF ItemsFit
  <2>3. QED
    BY <2>1, <2>2
<1> HIDE DEF m, s, from
<1>6. /\ upto - from \in Nat /\ from + (upto - from) <= Len(log[s])
      /\ from < Len(log[s]) => upto - from > 0
  <2>1. /\ req.limit \in Nat /\ req.limit # 0
        /\ from \in Nat /\ from <= Len(log[s]) /\ Len(log[s]) \in Nat
    BY <1>2, <1>5, ReqFacts
  <2>2. /\ upto \in Nat /\ from <= upto /\ upto <= Len(log[s])
        /\ from < Len(log[s]) => from < upto
    BY ONLY <2>1
  <2> HIDE DEF upto
  <2>3. QED
    BY ONLY <2>1, <2>2
<1> DEFINE d == upto - from
<1>7. d \in Nat /\ new = [n \in 1 .. d |-> from + n]
  BY <1>6
<1> HIDE DEF d, new
<1>8. new \in Seq(Nat) /\ Len(new) = d
  BY <1>5, <1>7
<1>9. /\ q \in Seq(Seq(Nat)) /\ Len(q) = m /\ DOMAIN q = 1 .. m /\ q[m] = new
      /\ \A i \in DOMAIN req.queues : q[i] = req.queues[i]
      /\ \A i \in 1 .. m : i = m \/ i \in DOMAIN req.queues
  <2>1. req.queues \in Seq(Seq(Nat)) /\ DOMAIN req.queues = 1 .. Len(req.queues)
    BY <1>2, ReqFacts
  <2>2. QED
    BY <1>3, <1>8, <2>1 DEF m
<1> HIDE DEF q
<1>10. pc \in {"reading", "serving"} /\ (pc = "serving" <=> m = Len(req.list))
  BY <1>9
<1> HIDE DEF pc
<1>11. /\ req'.queues = q /\ req'.pc = pc /\ req'.list = req.list /\ req'.offsets = req.offsets
       /\ req'.turn = req.turn /\ req'.items = req.items /\ req'.lead = req.lead
  BY <1>1, <1>2 DEF ReqType, Requests
<1>12. ReqType'
  BY <1>1, <1>2, <1>9, <1>10 DEF ReqType, Requests
<1>13. \A x : Start(x)' = Start(x)
  BY <1>1 DEF Start, StartOf
<1>14. ASSUME NEW i \in 1 .. m PROVE QueueFits(i)'
  <2>1. CASE i = m
    <3>1. req'.list[i] = s /\ req'.queues[i] = new /\ log' = log /\ StartOf(cursor', s) = from
      BY <1>1, <1>5, <1>9, <1>11, <2>1 DEF s, Start
    <3>2. Len(req'.items[s]) = 0
      BY <1>5, <1>11
    <3>3. from + Len(new) <= Len(log[s])
      BY <1>6, <1>8 DEF d
    <3>4. 0 <= Len(new)
      BY <1>7, <1>8
    <3>5. new = [n \in 1 .. Len(new) |-> from + n]
      BY <1>7, <1>8
    <3>6. QED
      BY <3>1, <3>2, <3>3, <3>4, <3>5 DEF QueueFits, Start
  <2>2. CASE i \in DOMAIN req.queues
    <3>1. QueueFits(i) /\ req'.queues[i] = req.queues[i] /\ req'.list[i] = req.list[i] /\ log' = log
          /\ req'.items = req.items
      BY <1>1, <1>2, <1>9, <1>11, <2>2 DEF Asked
    <3>2. cursor' = cursor
      BY <1>1
    <3>3. QED
      BY <3>1, <3>2 DEF QueueFits, Start
  <2>3. QED
    BY <1>9, <2>1, <2>2
<1>15. \A x \in Sources : ItemsFit(x)'
  <2>1. ASSUME NEW x \in Sources PROVE ItemsFit(x)'
    <3>1. ItemsFit(x) /\ Start(x)' = Start(x)
      BY <1>2, <1>13 DEF Asked
    <3>2. QED
      BY <1>1, <1>11, <3>1 DEF ItemsFit
  <2>2. QED
    BY <2>1
<1>16. Telling \subseteq Telling'
  <2>1. ASSUME NEW u \in DOMAIN req.offsets, NEW i \in DOMAIN req.list, req.list[i] = u,
               IF i <= Len(req.queues) THEN Len(req.items[u]) < Len(req.queues[i])
               ELSE req.offsets[u] < Len(log[u])
        PROVE  IF i <= m THEN Len(req.items[u]) < Len(q[i]) ELSE req.offsets[u] < Len(log[u])
    <3>0. i \in Nat /\ i >= 1 /\ Len(req.list) \in Nat
      BY <1>2, AskedFacts
    <3>1. CASE i <= Len(req.queues)
      <4>1. i \in DOMAIN req.queues /\ i <= m
        <5>1. DOMAIN req.queues = 1 .. Len(req.queues)
          BY <1>2, ReqFacts
        <5>2. QED
          BY <1>3, <3>0, <3>1, <5>1 DEF m
      <4>2. QED
        BY <1>9, <2>1, <3>1, <4>1
    <3>2. CASE i = m
      <4>1. u = s /\ ~(i <= Len(req.queues)) /\ i <= m
        BY <1>3, <2>1, <3>2 DEF m, s
      <4>2. from < Len(log[s])
        BY <2>1, <4>1 DEF from
      <4>3. Len(req.items[s]) = 0 /\ Len(q[i]) > 0
        BY <1>5, <1>6, <1>8, <1>9, <3>2, <4>2 DEF d
      <4>4. QED
        BY <4>1, <4>3
    <3>3. CASE ~(i <= Len(req.queues)) /\ i # m
      <4>1. ~(i <= m)
        BY <1>3, <3>0, <3>3 DEF m
      <4>2. QED
        BY <2>1, <3>3, <4>1
    <3>4. QED
      BY <3>1, <3>2, <3>3
  <2>2. log' = log /\ Len(req'.queues) = m
    BY <1>1, <1>9, <1>11
  <2>3. QED
    BY <1>11, <2>1, <2>2 DEF Telling
<1>17. LeadFits(req'.lead, req'.list, req'.turn, Telling')
  BY <1>2, <1>11, <1>16, MoreLead DEF Asked
<1>18. Asked'
  <2>1. /\ Len(req'.queues) = m /\ Len(req'.queues) <= Len(req'.list)
        /\ (req'.pc = "reading" => m < Len(req'.list)) /\ (req'.pc = "serving" => m = Len(req'.list))
    BY <1>3, <1>9, <1>10, <1>11 DEF m
  <2>2. /\ req'.offsets \in Offsets /\ DOMAIN req'.offsets \subseteq present'
        /\ cursor' # None => DOMAIN cursor'.offsets = DOMAIN req'.offsets
        /\ req'.list = ListOf(DOMAIN req'.offsets) /\ req'.turn \in DOMAIN req'.list
    BY <1>1, <1>2, <1>11 DEF Asked
  <2>3. \A i \in DOMAIN req'.queues : QueueFits(i)'
    BY <1>9, <1>11, <1>14
  <2>4. QED
    BY <1>15, <1>17, <2>1, <2>2, <2>3 DEF Asked
<1>19. QED
  BY <1>1, <1>12, <1>18, ReqMoves DEF ReqFits

-----------------------------------------------------------------------------
(* The round robin *)

\* After a turn the source that had it comes last, and the others stay in order.
LEMMA TurnFacts ==
  ASSUME NEW n \in Nat, NEW k \in 1 .. n, NEW i \in 1 .. n, NEW j \in 1 .. n, i # k
  PROVE  LET next == IF k = n THEN 1 ELSE k + 1
         IN  /\ Ahead(k, i, j) => Ahead(next, i, j)
             /\ Ahead(next, i, k)
             /\ ~Ahead(k, i, k)
BY DEF Ahead

LEMMA QueueIs ==
  ASSUME ReqType, Asked, NEW i \in DOMAIN req.list
  PROVE  Queue(req.list[i]) = req.queues[i]
<1>1. \A j \in DOMAIN req.list : req.list[j] = req.list[i] => j = i
  BY AskedFacts
<1>2. (CHOOSE j \in DOMAIN req.list : req.list[j] = req.list[i]) = i
  BY <1>1
<1>3. QED
  BY <1>2 DEF Queue

\* What serving the source whose turn it is does to the request.
LEMMA ServeSourceKeeps == FeedInv /\ ServeSource => FeedInv'
<1> SUFFICES ASSUME FeedInv, ServeSource PROVE FeedInv'
  OBVIOUS
<1> DEFINE k == req.turn
           s == req.list[k]
           n == Len(req.list)
           have == Len(req.items[s])
           item == Queue(s)[have + 1]
           ld == [u \in Sources |-> [t \in Sources |->
                    IF ~More(u, s) THEN 0 ELSE req.lead[u][t] + (IF t = s THEN 1 ELSE 0)]]
           items == [req.items EXCEPT ![s] = Append(req.items[s], item)]
           off == [req.offsets EXCEPT ![s] = item]
           next == NextTurn
<1>1. /\ req.pc = "serving"
      /\ UNCHANGED <<news, log, present, pages, cursor, got, lead>>
      /\ req' = IF have = Len(Queue(s)) THEN [req EXCEPT !.turn = next, !.idle = req.idle + 1]
                ELSE [req EXCEPT !.turn = next, !.idle = 0, !.size = req.size + 1,
                        !.items = items, !.offsets = off, !.lead = ld]
  BY DEF ServeSource, store, OffsetAfter
<1>2. ReqType /\ Asked /\ StoreFits /\ CursorFits
  BY <1>1 DEF FeedInv, ReqFits
<1>3. /\ k \in DOMAIN req.list /\ k \in 1 .. n /\ n \in Nat /\ n <= Len(Order)
      /\ DOMAIN req.list = 1 .. n
      /\ s \in Sources /\ s \in DOMAIN req.offsets /\ req.offsets \in [DOMAIN req.offsets -> Nat]
      /\ DOMAIN req.offsets \in SUBSET Sources
      /\ \A i \in 1 .. n : req.list[i] \in Sources /\ req.list[i] \in DOMAIN req.offsets
      /\ \A i, j \in 1 .. n : req.list[i] = req.list[j] => i = j
      /\ \A u \in DOMAIN req.offsets : \E i \in 1 .. n : req.list[i] = u
  <2>1. k \in DOMAIN req.list
    BY <1>2 DEF Asked
  <2>2. QED
    BY <1>2, <2>1, AskedFacts
<1>4. DOMAIN req.queues = 1 .. n /\ Len(req.queues) = n
  BY <1>1, <1>2, ReqFacts DEF Asked
<1>5. Queue(s) = req.queues[k] /\ \A i \in 1 .. n : Queue(req.list[i]) = req.queues[i]
  BY <1>2, <1>3, QueueIs
<1>6. next = (IF k = n THEN 1 ELSE k + 1) /\ next \in 1 .. n /\ next \in 1 .. Len(Order)
  <2>1. next = (IF k = n THEN 1 ELSE k + 1)
    BY DEF NextTurn
  <2>0. k \in 1 .. n /\ n \in Nat
    BY <1>3
  <2> HIDE DEF next, k, n
  <2>2. next \in 1 .. n
    BY <2>0, <2>1
  <2>3. QED
    BY <1>3, <2>1, <2>2, OrderFacts
<1>7. /\ QueueFits(k) /\ ItemsFit(s) /\ Start(s) \in Nat
      /\ have \in Nat /\ Len(req.queues[k]) \in Nat /\ req.items[s] \in Seq(Nat)
      /\ req.items \in [Sources -> Seq(Nat)]
  BY <1>2, <1>3, <1>4, StartFacts, ReqFacts DEF Asked
<1>8. have <= Len(req.queues[k])
  BY <1>7 DEF QueueFits
<1>9. \A u \in Sources : u \in Telling <=> \E i \in 1 .. n : /\ req.list[i] = u
                                                              /\ Len(req.items[u]) < Len(req.queues[i])
  <2>1. \A i \in 1 .. n : i <= Len(req.queues)
    BY <1>3, <1>4
  <2> HIDE DEF n
  <2>2. ASSUME NEW u \in Sources, u \in Telling
        PROVE  \E i \in 1 .. n : req.list[i] = u /\ Len(req.items[u]) < Len(req.queues[i])
    BY <1>3, <2>1, <2>2 DEF Telling
  <2>3. ASSUME NEW u \in Sources, NEW i \in 1 .. n, req.list[i] = u,
               Len(req.items[u]) < Len(req.queues[i])
        PROVE  u \in Telling
    BY <1>3, <2>1, <2>3 DEF Telling
  <2>4. QED
    BY <2>2, <2>3
<1>10. LeadFits(req.lead, req.list, k, Telling) /\ req.lead \in Leads
  BY <1>2, ReqFacts DEF Asked
<1> HIDE DEF k, n, next, s, have
<1>11. CASE have = Len(Queue(s))
  <2>1. req' = [req EXCEPT !.turn = next, !.idle = req.idle + 1]
    BY <1>1, <1>11
  <2>2. /\ req'.pc = req.pc /\ req'.list = req.list /\ req'.offsets = req.offsets
        /\ req'.queues = req.queues /\ req'.items = req.items /\ req'.lead = req.lead
        /\ req'.turn = next /\ cursor' = cursor /\ log' = log
    BY <1>1, <1>2, <2>1 DEF ReqType, Requests
  <2>3. ReqType'
    <3>1. req.idle + 1 \in Nat
      BY <1>2, ReqFacts
    <3>2. QED
      BY <1>2, <1>6, <2>1, <3>1 DEF ReqType, Requests
  <2>4. s \notin Telling
    <3>1. ASSUME NEW i \in 1 .. n, req.list[i] = s PROVE ~(Len(req.items[s]) < Len(req.queues[i]))
      <4>1. i = k
        BY <1>3, <3>1 DEF s
      <4>2. QED
        BY <1>5, <1>7, <1>11, <4>1 DEF have
    <3>2. QED
      BY <1>3, <1>9, <3>1
  <2>5. LeadFits(req.lead, req.list, next, Telling)
    <3>1. ASSUME NEW u \in Sources, NEW t \in Sources, req.lead[u][t] # 0
          PROVE  /\ req.lead[u][t] = 1 /\ u \in Telling
                 /\ \E i, j \in DOMAIN req.list : req.list[i] = u /\ req.list[j] = t /\ Ahead(next, i, j)
      <4>1. /\ req.lead[u][t] = 1 /\ u \in Telling
            /\ \E i, j \in DOMAIN req.list : req.list[i] = u /\ req.list[j] = t /\ Ahead(k, i, j)
        BY <1>10, <3>1 DEF LeadFits
      <4>2. PICK i \in 1 .. n, j \in 1 .. n : req.list[i] = u /\ req.list[j] = t /\ Ahead(k, i, j)
        BY <1>3, <4>1
      <4>3. i # k
        BY <2>4, <4>1, <4>2 DEF s
      <4>4. Ahead(next, i, j)
        BY <1>3, <1>6, <4>2, <4>3, TurnFacts
      <4>5. QED
        BY <1>3, <4>1, <4>2, <4>4
    <3>2. QED
      BY <3>1 DEF LeadFits
  <2>6. Telling' = Telling
    BY <2>2 DEF Telling
  <2>7. LeadFits(req'.lead, req'.list, req'.turn, Telling')
    BY <2>2, <2>5, <2>6
  <2>8. \A i \in DOMAIN req'.queues : QueueFits(i)'
    BY <1>2, <2>2 DEF Asked, QueueFits, Start
  <2>9. \A x \in Sources : ItemsFit(x)'
    BY <1>2, <2>2 DEF Asked, ItemsFit, Start
  <2>10. req'.turn \in DOMAIN req'.list
    BY <1>3, <1>6, <2>2
  <2>11. Asked'
    BY <1>1, <1>2, <2>2, <2>7, <2>8, <2>9, <2>10 DEF Asked
  <2>12. QED
    BY <1>1, <2>3, <2>11, ReqMoves DEF ReqFits
<1>12. CASE have # Len(Queue(s))
  <2>1. req' = [req EXCEPT !.turn = next, !.idle = 0, !.size = req.size + 1,
                 !.items = items, !.offsets = off, !.lead = ld]
    BY <1>1, <1>12
  <2>2. have < Len(req.queues[k]) /\ have + 1 \in 1 .. Len(req.queues[k])
    BY <1>5, <1>7, <1>8, <1>12
  <2>3. item = Start(s) + (have + 1) /\ item \in Nat
    <3>1. req.queues[k] = [m \in 1 .. Len(req.queues[k]) |-> Start(s) + m]
      BY <1>7 DEF QueueFits, s
    <3>2. req.queues[k][have + 1] = Start(s) + (have + 1)
      BY <2>2, <3>1
    <3>3. QED
      BY <1>5, <1>7, <3>2
  <2> HIDE DEF item
  <2>4. /\ items \in [Sources -> Seq(Nat)] /\ Len(items[s]) = have + 1
        /\ items[s] = [m \in 1 .. (have + 1) |-> Start(s) + m]
        /\ \A x \in Sources : x # s => items[x] = req.items[x]
    <3>1. req.items[s] = [m \in 1 .. have |-> Start(s) + m]
      BY <1>7 DEF ItemsFit, have
    <3> DEFINE more == Append(req.items[s], item)
    <3>2. more \in Seq(Nat) /\ Len(more) = have + 1 /\ DOMAIN more = 1 .. (have + 1)
          /\ more[have + 1] = item /\ \A m \in 1 .. have : more[m] = req.items[s][m]
      BY <1>7, <2>3 DEF have
    <3>3. \A m \in 1 .. (have + 1) : more[m] = Start(s) + m
      <4>1. \A m \in 1 .. (have + 1) : m = have + 1 \/ m \in 1 .. have
        BY <1>7
      <4> HIDE DEF more
      <4>2. QED
        BY <2>3, <3>1, <3>2, <4>1
    <3> HIDE DEF more
    <3>4. more = [m \in 1 .. (have + 1) |-> Start(s) + m]
      <4>1. more = [m \in 1 .. (have + 1) |-> more[m]]
        BY <3>2
      <4>2. QED
        BY <3>3, <4>1
    <3>5. items = [req.items EXCEPT ![s] = more]
      BY DEF more
    <3> HIDE DEF items
    <3>6. QED
      BY <1>3, <1>7, <3>2, <3>4, <3>5
  <2>5. /\ off \in Offsets /\ DOMAIN off = DOMAIN req.offsets /\ off[s] = item
        /\ \A x \in DOMAIN req.offsets : x # s => off[x] = req.offsets[x]
    <3>1. off \in [DOMAIN req.offsets -> Nat]
      BY <1>3, <2>3
    <3>2. off \in Offsets
      <4> DEFINE some == DOMAIN req.offsets
      <4>1. some \in SUBSET Sources /\ off \in [some -> Nat]
        BY <1>3, <3>1
      <4> HIDE DEF off, some
      <4>2. QED
        BY <4>1, SourceFacts
    <3>3. QED
      BY <1>3, <3>2
  <2>6. \A u \in Sources : More(u, s) <=> (u # s /\ u \in Telling)
    <3>1. \A u \in Sources : u \in Range(req.list) <=> \E i \in 1 .. n : req.list[i] = u
      BY <1>3 DEF Range
    <3>2. ASSUME NEW u \in Sources, NEW i \in 1 .. n, req.list[i] = u
          PROVE  u \in Telling <=> Len(req.items[u]) < Len(Queue(u))
      <4>1. \A j \in 1 .. n : req.list[j] = u => j = i
        BY <1>3, <3>2
      <4>2. Queue(u) = req.queues[i]
        BY <1>5, <3>2
      <4>3. QED
        BY <1>9, <3>2, <4>1, <4>2
    <3>3. QED
      BY <1>9, <3>1, <3>2 DEF More
  <2>7. /\ ld \in Leads
        /\ \A u, t \in Sources : ld[u][t] = IF ~More(u, s) THEN 0
                                            ELSE req.lead[u][t] + (IF t = s THEN 1 ELSE 0)
    BY <1>10 DEF Leads
  <2> HIDE DEF items, off, ld
  <2>8. /\ req'.pc = req.pc /\ req'.list = req.list /\ req'.offsets = off
        /\ req'.queues = req.queues /\ req'.items = items /\ req'.lead = ld
        /\ req'.turn = next /\ cursor' = cursor /\ log' = log
    BY <1>1, <1>2, <2>1 DEF ReqType, Requests
  <2>9. ReqType'
    <3>1. req.size + 1 \in Nat
      BY <1>2, ReqFacts
    <3>2. QED
      BY <1>2, <1>6, <2>1, <2>4, <2>5, <2>7, <3>1 DEF ReqType, Requests
  <2>10. \A u \in Sources : (u # s /\ u \in Telling) => u \in Telling'
    <3>1. ASSUME NEW u \in Sources, u # s, u \in Telling PROVE u \in Telling'
      <4>1. PICK i \in 1 .. n : req.list[i] = u /\ Len(req.items[u]) < Len(req.queues[i])
        BY <1>9, <3>1
      <4>2. i <= Len(req.queues) /\ i \in DOMAIN req.list /\ u \in DOMAIN req.offsets
        BY <1>3, <1>4, <4>1
      <4>3. Len(items[u]) < Len(req.queues[i])
        BY <2>4, <3>1, <4>1
      <4>4. QED
        BY <2>5, <2>8, <4>1, <4>2, <4>3 DEF Telling
    <3>2. QED
      BY <3>1
  <2>11. LeadFits(ld, req.list, next, Telling')
    <3>1. ASSUME NEW u \in Sources, NEW t \in Sources, ld[u][t] # 0
          PROVE  /\ ld[u][t] = 1 /\ u \in Telling'
                 /\ \E i, j \in DOMAIN req.list : req.list[i] = u /\ req.list[j] = t /\ Ahead(next, i, j)
      <4>1. u # s /\ u \in Telling /\ ld[u][t] = req.lead[u][t] + (IF t = s THEN 1 ELSE 0)
        BY <2>6, <2>7, <3>1
      <4>2. u \in Telling'
        BY <2>10, <4>1
      <4>3. PICK i \in 1 .. n : req.list[i] = u
        BY <1>9, <4>1
      <4>4. i # k
        BY <4>1, <4>3 DEF s
      <4>5. req.lead[u][t] \in Nat
        BY <1>10 DEF Leads
      <4>6. CASE t = s
        <5>1. req.lead[u][t] = 0
          <6>1. SUFFICES ASSUME req.lead[u][t] # 0 PROVE FALSE
            OBVIOUS
          <6>2. \E a, b \in DOMAIN req.list : req.list[a] = u /\ req.list[b] = t /\ Ahead(k, a, b)
            BY <1>10, <6>1 DEF LeadFits
          <6>3. PICK a \in 1 .. n, b \in 1 .. n : req.list[a] = u /\ req.list[b] = t /\ Ahead(k, a, b)
            BY <1>3, <6>2
          <6>4. a = i /\ b = k
            BY <1>3, <4>3, <4>6, <6>3 DEF s
          <6>5. QED
            BY <1>3, <4>4, <6>3, <6>4, TurnFacts
        <5>2. ld[u][t] = 1
          BY <4>1, <4>6, <5>1
        <5>3. Ahead(next, i, k)
          BY <1>3, <1>6, <4>4, TurnFacts
        <5>4. req.list[k] = t
          BY <4>6 DEF s
        <5>5. QED
          BY <1>3, <4>2, <4>3, <5>2, <5>3, <5>4
      <4>7. CASE t # s
        <5>1. ld[u][t] = req.lead[u][t]
          BY <4>1, <4>5, <4>7
        <5>2. /\ req.lead[u][t] = 1
              /\ \E a, b \in DOMAIN req.list : req.list[a] = u /\ req.list[b] = t /\ Ahead(k, a, b)
          BY <1>10, <3>1, <5>1 DEF LeadFits
        <5>3. PICK a \in 1 .. n, b \in 1 .. n : req.list[a] = u /\ req.list[b] = t /\ Ahead(k, a, b)
          BY <1>3, <5>2
        <5>4. a # k
          BY <4>1, <5>3 DEF s
        <5>5. Ahead(next, a, b)
          BY <1>3, <1>6, <5>3, <5>4, TurnFacts
        <5>6. QED
          BY <1>3, <4>2, <5>1, <5>2, <5>3, <5>5
      <4>8. QED
        BY <4>6, <4>7
    <3>2. QED
      BY <3>1 DEF LeadFits
  <2>12. LeadFits(req'.lead, req'.list, req'.turn, Telling')
    BY <2>8, <2>11
  <2>13. ASSUME NEW i \in 1 .. n PROVE QueueFits(i)'
    <3>1. QueueFits(i) /\ req.list[i] \in Sources
      BY <1>2, <1>3, <1>4 DEF Asked
    <3>2. Len(items[req.list[i]]) <= Len(req.queues[i])
      <4>1. CASE req.list[i] = s
        <5>1. i = k
          BY <1>3, <4>1 DEF s
        <5>2. QED
          BY <1>7, <2>2, <2>4, <4>1, <5>1
      <4>2. CASE req.list[i] # s
        BY <2>4, <3>1, <4>2 DEF QueueFits
      <4>3. QED
        BY <4>1, <4>2
    <3>3. QED
      BY <2>8, <3>1, <3>2 DEF QueueFits, Start
  <2>14. ASSUME NEW x \in Sources PROVE ItemsFit(x)'
    <3>1. ItemsFit(x)
      BY <1>2 DEF Asked
    <3>2. CASE x = s
      <4>1. items[x] = [m \in 1 .. Len(items[x]) |-> Start(x) + m]
        BY <2>4, <3>2
      <4>2. off[x] = Start(x) + Len(items[x]) /\ x \in DOMAIN off
        BY <1>3, <2>3, <2>4, <2>5, <3>2
      <4>3. req'.pc # "reading"
        BY <1>1, <2>8
      <4>4. QED
        BY <2>8, <4>1, <4>2, <4>3 DEF ItemsFit, Start
    <3>3. CASE x # s
      <4>1. items[x] = req.items[x] /\ (x \in DOMAIN off <=> x \in DOMAIN req.offsets)
            /\ (x \in DOMAIN req.offsets => off[x] = req.offsets[x])
        BY <2>4, <2>5, <3>3
      <4>2. QED
        BY <2>8, <3>1, <4>1 DEF ItemsFit, Start
    <3>4. QED
      BY <3>2, <3>3
  <2>15. Asked'
    <3>1. /\ req'.offsets \in Offsets /\ DOMAIN req'.offsets \subseteq present'
          /\ cursor' # None => DOMAIN cursor'.offsets = DOMAIN req'.offsets
          /\ req'.list = ListOf(DOMAIN req'.offsets) /\ req'.turn \in DOMAIN req'.list
          /\ Len(req'.queues) = Len(req'.list) /\ req'.pc = "serving"
      BY <1>1, <1>2, <1>3, <1>4, <1>6, <2>5, <2>8 DEF Asked, n
    <3>2. \A i \in DOMAIN req'.queues : QueueFits(i)'
      BY <1>4, <2>8, <2>13
    <3>3. Len(req'.queues) \in Nat
      BY <1>3, <1>4, <2>8
    <3>4. QED
      BY <2>12, <2>14, <3>1, <3>2, <3>3 DEF Asked
  <2>16. QED
    BY <1>1, <2>9, <2>15, ReqMoves DEF ReqFits
<1>13. QED
  BY <1>11, <1>12

LEMMA JoinFacts ==
  ASSUME NEW a \in Nat, NEW b \in Nat
  PROVE  [n \in 1 .. a |-> n] \o [n \in 1 .. b |-> a + n] = [n \in 1 .. (a + b) |-> n]
<1> DEFINE p == [n \in 1 .. a |-> n]
           q == [n \in 1 .. b |-> a + n]
<1>1. p \in Seq(Nat) /\ q \in Seq(Nat) /\ Len(p) = a /\ Len(q) = b
      /\ (\A n \in 1 .. a : p[n] = n) /\ \A n \in 1 .. b : q[n] = a + n
  OBVIOUS
<1> HIDE DEF p, q
<1>2. p \o q \in Seq(Nat) /\ Len(p \o q) = a + b /\ DOMAIN (p \o q) = 1 .. (a + b)
      /\ \A n \in 1 .. (a + b) : (p \o q)[n] = IF n <= a THEN p[n] ELSE q[n - a]
  BY <1>1
<1>3. \A n \in 1 .. (a + b) : (n <= a => n \in 1 .. a) /\ (~(n <= a) => n - a \in 1 .. b /\ a + (n - a) = n)
  OBVIOUS
<1>4. \A n \in 1 .. (a + b) : (p \o q)[n] = n
  BY <1>1, <1>2, <1>3
<1>5. p \o q = [n \in 1 .. (a + b) |-> (p \o q)[n]]
  <2> DEFINE j == p \o q
  <2>1. j \in Seq(Nat) /\ DOMAIN j = 1 .. (a + b)
    BY <1>2
  <2> HIDE DEF j
  <2>2. j = [n \in 1 .. (a + b) |-> j[n]]
    BY <2>1
  <2>3. QED
    BY <2>2 DEF j
<1>6. p \o q = [n \in 1 .. (a + b) |-> n]
  BY <1>4, <1>5
<1>7. QED
  BY <1>6 DEF p, q

\* The consumer applies the answer and has applied what its new cursor says.
LEMMA ReceiveKeeps == FeedInv /\ Receive => FeedInv'
<1> SUFFICES ASSUME FeedInv, Receive PROVE FeedInv'
  OBVIOUS
<1> DEFINE D == DOMAIN req.offsets
           c == [offsets |-> req.offsets, turn |-> req.turn]
<1>1. /\ req.pc = "serving" /\ cursor' = c /\ lead' = req.lead /\ req' = NoReq
      /\ got' = [s \in Sources |-> got[s] \o req.items[s]]
      /\ UNCHANGED <<news, log, present, pages>>
  BY DEF Receive, Served, NewCursor, store
<1>2. ReqType /\ Asked /\ StoreFits /\ CursorFits
  BY <1>1 DEF FeedInv, ReqFits
<1>3. /\ D \in SUBSET Sources /\ req.offsets \in [D -> Nat] /\ D \subseteq present
      /\ req.offsets \in Offsets /\ req.turn \in Nat
      /\ req.list = ListOf(D) /\ req.turn \in DOMAIN req.list
      /\ cursor # None => DOMAIN cursor.offsets = D
  <2>1. req.turn \in Nat
    BY <1>2, ReqFacts, OrderFacts
  <2>2. QED
    BY <1>2, <2>1, AskedFacts DEF Asked
<1>4. c \in Cursor /\ c # None /\ c.offsets = req.offsets /\ c.turn = req.turn
  BY <1>3, NoneAssumption DEF Cursor
<1> HIDE DEF c
<1>5. ASSUME NEW s \in Sources
      PROVE  /\ Start(s) \in Nat /\ Len(req.items[s]) \in Nat
             /\ StartOf(c, s) = Start(s) + Len(req.items[s])
             /\ req.items[s] = [n \in 1 .. Len(req.items[s]) |-> Start(s) + n]
  <2>1. Start(s) \in Nat /\ Len(req.items[s]) \in Nat /\ ItemsFit(s)
    BY <1>2, StartFacts, ReqFacts DEF Asked
  <2>2. req.items[s] = [n \in 1 .. Len(req.items[s]) |-> Start(s) + n]
    BY <2>1 DEF ItemsFit
  <2>3. CASE s \in D
    BY <1>4, <2>1, <2>2, <2>3 DEF ItemsFit, StartOf
  <2>4. CASE s \notin D
    <3>1. Start(s) = 0
      BY <1>3, <2>4 DEF Start, StartOf
    <3>2. Len(req.items[s]) = 0
      BY <2>1, <2>4 DEF ItemsFit
    <3>3. StartOf(c, s) = 0
      BY <1>4, <2>4 DEF StartOf
    <3>4. QED
      BY <2>1, <2>2, <3>1, <3>2, <3>3
  <2>5. QED
    BY <2>3, <2>4
<1>6. Applied'
  <2>1. ASSUME NEW s \in Sources PROVE got'[s] = [n \in 1 .. StartOf(c, s) |-> n]
    <3>1. got[s] = [n \in 1 .. Start(s) |-> n]
      BY DEF FeedInv, Applied
    <3>2. got'[s] = got[s] \o req.items[s]
      BY <1>1
    <3> DEFINE a == Start(s)
               b == Len(req.items[s])
    <3>3. a \in Nat /\ b \in Nat /\ StartOf(c, s) = a + b
          /\ req.items[s] = [n \in 1 .. b |-> a + n]
      BY <1>5
    <3>4. got[s] = [n \in 1 .. a |-> n]
      BY <3>1
    <3> HIDE DEF a, b
    <3>5. [n \in 1 .. a |-> n] \o [n \in 1 .. b |-> a + n] = [n \in 1 .. (a + b) |-> n]
      BY <3>3, JoinFacts
    <3>6. QED
      BY <3>2, <3>3, <3>4, <3>5
  <2>2. \A s \in Sources : Start(s)' = StartOf(c, s)
    BY <1>1 DEF Start
  <2>3. got' = [s \in Sources |-> got'[s]]
    BY <1>1
  <2>4. got' = [s \in Sources |-> [n \in 1 .. StartOf(c, s) |-> n]]
    BY <2>1, <2>3
  <2>5. QED
    BY <1>1, <2>4 DEF Applied, Start
<1>7. ASSUME NEW i \in DOMAIN req.list
      PROVE  LET s == req.list[i]
             IN  /\ s \in D /\ s \in Sources /\ req.offsets[s] = Start(s) + Len(req.items[s])
                 /\ Start(s) + Len(req.queues[i]) <= Len(log[s])
                 /\ Len(req.items[s]) <= Len(req.queues[i]) /\ i <= Len(req.queues)
                 /\ Len(req.queues[i]) \in Nat /\ Len(log[s]) \in Nat
  <2>1. /\ req.list[i] \in D /\ req.list[i] \in Sources /\ i \in DOMAIN req.queues /\ i <= Len(req.queues)
    <3>1. /\ DOMAIN req.list = 1 .. Len(req.list) /\ Len(req.list) \in Nat
          /\ req.list[i] \in D /\ req.list[i] \in Sources
      BY <1>2, AskedFacts
    <3>2. DOMAIN req.queues = 1 .. Len(req.queues) /\ Len(req.queues) = Len(req.list)
      BY <1>1, <1>2, ReqFacts DEF Asked
    <3>3. QED
      BY <3>1, <3>2
  <2>2. QueueFits(i) /\ ItemsFit(req.list[i])
    BY <1>2, <2>1 DEF Asked
  <2>3. Len(req.queues[i]) \in Nat /\ Len(log[req.list[i]]) \in Nat
    BY <1>2, <2>1, ReqFacts, StartFacts
  <2>4. QED
    BY <2>1, <2>2, <2>3 DEF QueueFits, ItemsFit
<1>8. \A s \in D : req.offsets[s] <= Len(log[s])
  <2>1. ASSUME NEW s \in D PROVE req.offsets[s] <= Len(log[s])
    <3>1. PICK i \in DOMAIN req.list : req.list[i] = s
      BY <1>2, AskedFacts
    <3>2. Start(s) \in Nat /\ Len(req.items[s]) \in Nat
      BY <1>3, <1>5
    <3>3. /\ req.offsets[s] = Start(s) + Len(req.items[s])
          /\ Start(s) + Len(req.queues[i]) <= Len(log[s])
          /\ Len(req.items[s]) <= Len(req.queues[i])
          /\ Len(req.queues[i]) \in Nat /\ Len(log[s]) \in Nat
      BY <1>7, <3>1
    <3>4. QED
      BY <3>2, <3>3
  <2>2. QED
    BY <2>1
<1>9. Telling \subseteq {u \in D : req.offsets[u] < Len(log[u])}
  <2>1. ASSUME NEW u \in Telling PROVE u \in D /\ req.offsets[u] < Len(log[u])
    <3>1. u \in D /\ \E i \in DOMAIN req.list :
            /\ req.list[i] = u
            /\ IF i <= Len(req.queues) THEN Len(req.items[u]) < Len(req.queues[i])
               ELSE req.offsets[u] < Len(log[u])
      BY DEF Telling
    <3>2. PICK i \in DOMAIN req.list :
            /\ req.list[i] = u
            /\ IF i <= Len(req.queues) THEN Len(req.items[u]) < Len(req.queues[i])
               ELSE req.offsets[u] < Len(log[u])
      BY <3>1
    <3>3. Start(u) \in Nat /\ Len(req.items[u]) \in Nat
      BY <1>3, <1>5, <3>1
    <3>4. /\ req.offsets[u] = Start(u) + Len(req.items[u])
          /\ Start(u) + Len(req.queues[i]) <= Len(log[u])
          /\ i <= Len(req.queues)
          /\ Len(req.queues[i]) \in Nat /\ Len(log[u]) \in Nat
      BY <1>7, <3>2
    <3>5. Len(req.items[u]) < Len(req.queues[i])
      BY <3>2, <3>4
    <3>6. req.offsets[u] < Len(log[u])
      <4>1. \A x, y, z, t \in Nat : x < y /\ t + y <= z => t + x < z
        OBVIOUS
      <4>2. Start(u) + Len(req.items[u]) < Len(log[u])
        BY ONLY <3>3, <3>4, <3>5, <4>1
      <4>3. QED
        BY ONLY <3>4, <4>2
    <3>7. QED
      BY <3>1, <3>6
  <2>2. QED
    BY <2>1
<1>10. CursorFits'
  <2>1. LeadFits(req.lead, ListOf(D), req.turn, {u \in D : req.offsets[u] < Len(log[u])})
    BY <1>2, <1>3, <1>9, MoreLead DEF Asked
  <2>2. req.lead \in Leads
    BY <1>2, ReqFacts
  <2>3. log' = log /\ present' = present /\ lead' = req.lead /\ cursor' = c
    BY <1>1
  <2>4. QED
    BY <1>3, <1>4, <1>8, <2>1, <2>2, <2>3 DEF CursorFits
<1>11. StoreFits'
  BY <1>1, <1>2 DEF StoreFits, TableOf, Fit
<1>12. ReqFits'
  BY <1>1, NoReqFits DEF ReqFits, ReqType
<1>13. QED
  BY <1>6, <1>10, <1>11, <1>12 DEF FeedInv

LEMMA StepKeeps == FeedInv /\ [Next]_vars => FeedInv'
<1> SUFFICES ASSUME FeedInv, [Next]_vars PROVE FeedInv'
  OBVIOUS
<1>1. CASE UNCHANGED vars
  <2>1. UNCHANGED <<news, log, present, pages, cursor, got, lead>> /\ UNCHANGED req
    BY <1>1 DEF vars, store
  <2>2. Telling' = Telling
    BY <2>1 DEF Telling
  <2>3. Asked => Asked'
    <3>1. \A s : Start(s)' = Start(s)
      BY <2>1 DEF Start
    <3>2. \A i : QueueFits(i) => QueueFits(i)'
      BY <2>1, <3>1 DEF QueueFits
    <3>3. \A s : ItemsFit(s) => ItemsFit(s)'
      BY <2>1, <3>1 DEF ItemsFit
    <3>4. QED
      BY <2>1, <2>2, <3>2, <3>3 DEF Asked
  <2>4. ReqFits'
    BY <2>1, <2>3 DEF FeedInv, ReqFits, ReqType
  <2>5. QED
    BY <2>1, <2>4, ReqMoves
<1>2. QED
  BY <1>1, CommitPageKeeps, AddSourceKeeps, AskChangesKeeps, BeginAnewKeeps, ReadSourceKeeps,
     ServeSourceKeeps, ReceiveKeeps, LoseAnswerKeeps
  DEF Next, Consume

-----------------------------------------------------------------------------
(* The theorems *)

\* The tables of news are sound, and what the consumer has applied, its cursor and
\* the answer it waits for agree with each other, in every state.
THEOREM FeedInvariant == Spec => []FeedInv
<1>1. Init => FeedInv
  BY InitFeed
<1>2. FeedInv /\ [Next]_vars => FeedInv'
  BY StepKeeps
<1>3. QED
  BY <1>1, <1>2, PTL DEF Spec

\* Within a source no two rows of news_items have a number or a URL in common, in
\* whatever order persist_page meets articles with and without a number.
THEOREM IdentityUniqueAlways == Spec => []IdentityUnique
<1>1. FeedInv => IdentityUnique
  BY DEF FeedInv, StoreFits, Fit, TableOf, Distinct, IdentityUnique
<1>2. QED
  BY <1>1, FeedInvariant, PTL

\* The log of changes tells of every row as it is: created first, its current
\* revision last, and no change that changes nothing.
THEOREM LogTellsNewsAlways == Spec => []LogTellsNews
<1>1. FeedInv => LogTellsNews
  <2> SUFFICES ASSUME FeedInv, NEW s \in Sources
               PROVE  /\ \A n \in DOMAIN log[s] : log[s][n].item \in DOMAIN news[s]
                      /\ \A i \in DOMAIN news[s] : Told(news[s], log[s], i)
    BY DEF LogTellsNews, Told, Places, PlacesIn
  <2>1. Fit(TableOf(s))
    BY DEF FeedInv, StoreFits
  <2>2. QED
    BY <2>1 DEF Fit, TableOf
<1>2. QED
  BY <1>1, FeedInvariant, PTL

\* A consumer of /news/changes that saves what it applies with the cursor applies
\* each change of a source once and in order, whatever answers are lost, pages
\* committed and sources added between and during its requests.
THEOREM AppliedInOrderAlways == Spec => []AppliedInOrder
<1>1. FeedInv => AppliedInOrder
  <2> SUFFICES ASSUME FeedInv, NEW s \in Sources
               PROVE  /\ got[s] = [n \in 1 .. Len(got[s]) |-> n]
                      /\ cursor # None /\ s \in DOMAIN cursor.offsets =>
                           Len(got[s]) = cursor.offsets[s]
    BY DEF AppliedInOrder
  <2> DEFINE a == Start(s)
  <2>1. a \in Nat
    BY StartFacts DEF FeedInv
  <2>2. got[s] = [n \in 1 .. a |-> n]
    BY DEF FeedInv, Applied
  <2>3. cursor # None /\ s \in DOMAIN cursor.offsets => a = cursor.offsets[s]
    BY DEF Start, StartOf
  <2> HIDE DEF a
  <2>4. Len(got[s]) = a
    BY <2>1, <2>2
  <2>5. QED
    BY <2>2, <2>3, <2>4
<1>2. QED
  BY <1>1, FeedInvariant, PTL

\* In the answers of /news/changes no source is served twice while another waits
\* that has more to tell: the turn goes on from answer to answer.
THEOREM FairTurnsAlways == Spec => []FairTurns
<1>1. FeedInv => FairTurns
  <2> SUFFICES ASSUME FeedInv, NEW s \in Sources, NEW t \in Sources PROVE lead[s][t] <= 1
    BY DEF FairTurns
  <2>1. CASE cursor = None
    BY <2>1 DEF FeedInv, CursorFits, NoLead
  <2>2. CASE cursor # None
    <3>1. LeadFits(lead, ListOf(DOMAIN cursor.offsets), cursor.turn,
                   {u \in DOMAIN cursor.offsets : cursor.offsets[u] < Len(log[u])})
      BY <2>2 DEF FeedInv, CursorFits
    <3>2. lead[s][t] = 0 \/ lead[s][t] = 1
      BY <3>1 DEF LeadFits
    <3>3. QED
      BY <3>2
  <2>3. QED
    BY <2>1, <2>2
<1>2. QED
  BY <1>1, FeedInvariant, PTL

\* The feed's variables have their types: revisions and offsets are within the log,
\* and a turn is the place of a source.
THEOREM FeedTypeCorrect == Spec => []TypeOK
<1>1. FeedInv => TypeOK
  <2> SUFFICES ASSUME FeedInv PROVE TypeOK
    OBVIOUS
  <2>1. StoreFits /\ CursorFits /\ Applied /\ ReqType /\ MaxChanges \in Nat
    BY BoundsAssumption DEF FeedInv, ReqFits
  <2>2. \A s \in Sources : Len(log[s]) \in Nat /\ Len(log[s]) <= MaxChanges
    BY <2>1 DEF StoreFits
  <2>3. news \in [Sources -> Seq(Item)]
    <3>1. ASSUME NEW s \in Sources PROVE news[s] \in Seq(Item)
      <4>1. news[s] \in Seq(Rows) /\ DOMAIN news[s] = 1 .. Len(news[s]) /\ Len(news[s]) \in Nat
        BY <2>1 DEF StoreFits
      <4>2. ASSUME NEW i \in 1 .. Len(news[s]) PROVE news[s][i] \in Item
        <5>1. news[s][i] \in Rows /\ Told(news[s], log[s], i)
          BY <2>1, <4>1 DEF StoreFits, Fit, TableOf
        <5>2. news[s][i].rev \in DOMAIN log[s] /\ DOMAIN log[s] = 1 .. Len(log[s])
          BY <2>1, <5>1 DEF Told, PlacesIn, StoreFits
        <5>3. news[s][i].rev \in 1 .. MaxChanges
          BY <2>1, <2>2, <5>2
        <5>4. QED
          BY <5>1, <5>3 DEF Rows, Item
      <4>3. QED
        BY <4>1, <4>2
    <3>2. QED
      BY <2>1, <3>1 DEF StoreFits
  <2>4. cursor = None \/ (/\ DOMAIN cursor.offsets \subseteq Sources
                          /\ \A s \in DOMAIN cursor.offsets : cursor.offsets[s] \in 0 .. MaxChanges
                          /\ cursor.turn \in 1 .. Len(Order))
    <3> SUFFICES ASSUME cursor # None
                 PROVE  /\ DOMAIN cursor.offsets \subseteq Sources
                        /\ \A s \in DOMAIN cursor.offsets : cursor.offsets[s] \in 0 .. MaxChanges
                        /\ cursor.turn \in 1 .. Len(Order)
      OBVIOUS
    <3>1. cursor.offsets \in Offsets
      BY <2>1 DEF CursorFits, Cursor
    <3>2. DOMAIN cursor.offsets \in SUBSET Sources /\ cursor.offsets \in [DOMAIN cursor.offsets -> Nat]
      BY <3>1, OffsetFacts
    <3>3. Lists(ListOf(DOMAIN cursor.offsets), DOMAIN cursor.offsets)
      BY <3>2, ListFacts
    <3>4. cursor.turn \in 1 .. Len(Order)
      BY <2>1, <3>3, OrderFacts DEF Lists, CursorFits
    <3>5. \A s \in DOMAIN cursor.offsets : /\ s \in Sources /\ cursor.offsets[s] \in Nat
                                           /\ cursor.offsets[s] <= Len(log[s])
      BY <2>1, <3>2 DEF CursorFits
    <3>6. QED
      BY <2>1, <2>2, <3>2, <3>4, <3>5
  <2>5. got \in [Sources -> Seq(1 .. MaxChanges)]
    <3>1. ASSUME NEW s \in Sources PROVE got[s] \in Seq(1 .. MaxChanges)
      <4> DEFINE a == Start(s)
      <4>1. a \in Nat /\ a <= Len(log[s])
        BY <2>1, StartFacts
      <4>2. got[s] = [n \in 1 .. a |-> n]
        BY <2>1 DEF Applied
      <4> HIDE DEF a
      <4>3. \A n \in 1 .. a : n \in 1 .. MaxChanges
        BY <2>1, <2>2, <4>1
      <4>4. QED
        BY <4>1, <4>2, <4>3
    <3>2. QED
      BY <2>1, <3>1 DEF Applied
  <2>6. lead \in [Sources -> [Sources -> Nat]]
    BY <2>1 DEF CursorFits, Leads
  <2>7. req.pc \in {"idle", "reading", "serving"} /\ req.turn \in 1 .. Len(Order)
    BY <2>1, ReqFacts
  <2>8. log \in [Sources -> Seq(Change)] /\ present \in SUBSET Sources /\ pages \in 0 .. MaxPages
    BY <2>1 DEF StoreFits
  <2>9. QED
    BY <2>3, <2>4, <2>5, <2>6, <2>7, <2>8 DEF TypeOK
<1>2. QED
  BY <1>1, FeedInvariant, PTL
=============================================================================
