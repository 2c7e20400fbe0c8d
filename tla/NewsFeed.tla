------------------------------ MODULE NewsFeed ------------------------------
(***************************************************************************)
(* News as pages of the sources commit them, and the feed of changes that  *)
(* a consumer follows with a cursor.                                       *)
(*                                                                         *)
(* persist_page holds an advisory lock of the source and, from its first   *)
(* change on, the row of source_change_sequences to the end of its         *)
(* transaction: one page is one step.  Which page may commit at all is     *)
(* SourceLedger's subject.  A request for changes is one statement per     *)
(* source, each of which sees what is committed by then.                   *)
(***************************************************************************)
EXTENDS Naturals, Sequences, FiniteSets, SequencesExt

CONSTANTS
  Order,       \* every source there may be, in the order of its code
  Ids,         \* item numbers a source gives its articles
  None,        \* no item number, no cursor
  Urls,        \* canonical URLs
  Contents,    \* what the hash of an article tells apart
  Complete,    \* the contents whose body_status is complete
  MaxLimit,    \* greatest limit of a request (200)
  MaxChanges,  \* bound: changes of a source
  MaxPage,     \* bound: articles of a page
  MaxPages     \* bound: pages committed

ASSUME OrderAssumption ==
  /\ Order \in Seq(Range(Order)) /\ Order # <<>>
  /\ IsInjective(Order)

\* No cursor is none.
Offsets == UNION {[some -> Nat] : some \in SUBSET Range(Order)}
Cursor  == [offsets: Offsets, turn: Nat]

ASSUME NoneAssumption == None \notin Cursor

ASSUME BoundsAssumption ==
  /\ Complete \subseteq Contents
  /\ MaxLimit \in Nat \ {0} /\ MaxChanges \in Nat
  /\ MaxPage \in Nat \ {0} /\ MaxPages \in Nat

Sources  == Range(Order)
Articles == [id: Ids \cup {None}, url: Urls, content: Contents]

VARIABLES
  news,     \* per source, NewsItem rows in order of creation
  log,      \* per source, NewsChange rows by change_id, each with its NewsRevision
  present,  \* rows of sources
  pages,    \* pages committed so far
  cursor,   \* the consumer's cursor: offsets by source, and the turn
  req,      \* the request being answered; its items are kept by source
  got,      \* the change ids the consumer has applied since it began anew
  lead      \* history: changes of t applied since s, which had more, was served

store == <<news, log, present, pages>>
vars  == <<store, cursor, req, got, lead>>

Item   == [id: Ids \cup {None}, url: Urls, rev: 1 .. MaxChanges]
Change == [item: Nat \ {0}, type: {"created", "revised"}, content: Contents]

\* Some of the sources, in their order.
ListOf(some) ==
  LET kept[k \in 0 .. Len(Order)] ==
        IF k = 0 THEN <<>>
        ELSE IF Order[k] \in some THEN Append(kept[k - 1], Order[k]) ELSE kept[k - 1]
  IN  kept[Len(Order)]

List == ListOf(present)
NoLead == [s \in Sources |-> [t \in Sources |-> 0]]
NoReq == [pc |-> "idle", list |-> <<>>, offsets |-> <<>>, turn |-> 1,
          queues |-> <<>>, limit |-> 1, items |-> [s \in Sources |-> <<>>],
          size |-> 0, idle |-> 0, lead |-> NoLead]

TypeOK ==
  /\ news \in [Sources -> Seq(Item)]
  /\ log \in [Sources -> Seq(Change)]
  /\ present \in SUBSET Sources
  /\ pages \in 0 .. MaxPages
  /\ \/ cursor = None
     \/ /\ DOMAIN cursor.offsets \subseteq Sources
        /\ \A s \in DOMAIN cursor.offsets : cursor.offsets[s] \in 0 .. MaxChanges
        /\ cursor.turn \in 1 .. Len(Order)
  /\ req.pc \in {"idle", "reading", "serving"} /\ req.turn \in 1 .. Len(Order)
  /\ got \in [Sources -> Seq(1 .. MaxChanges)]
  /\ lead \in [Sources -> [Sources -> Nat]]

Init ==
  /\ news = [s \in Sources |-> <<>>]
  /\ log = [s \in Sources |-> <<>>]
  /\ present = Sources \ {Head(Order)}
  /\ pages = 0
  /\ cursor = None
  /\ req = NoReq
  /\ got = [s \in Sources |-> <<>>]
  /\ lead = NoLead

(***************************************************************************)
(* persist_page: items and their changes are aligned article by article    *)
(***************************************************************************)

ById(items, a)  == {i \in DOMAIN items : a.id # None /\ items[i].id = a.id}
ByUrl(items, a) == {i \in DOMAIN items : items[i].url = a.url}

\* Mutant of Known: an article is recognised by its number alone when it has one.
KnownByNumber(items, a) ==
  IF a.id # None THEN ById(items, a) ELSE ByUrl(items, a)

\* The rows an article is recognised by; two of them are a conflict.
Known(items, a) == ById(items, a) \cup ByUrl(items, a)

\* access_limited and duplicate: the current revision stays.
Unchanged(old, a) ==
  \/ old.content \in Complete /\ a.content \notin Complete
  \/ old.content = a.content

\* Mutant of ChangeOf: a change type the table does not know.
ChangeOfUpdated(i, type, a) ==
  [item |-> i, content |-> a.content,
   type |-> IF type = "revised" THEN "updated" ELSE type]

\* The change row and its revision; its number is the row's place in the log.
ChangeOf(i, type, a) == [item |-> i, type |-> type, content |-> a.content]

\* Mutant of Stored: every article read is a change.
StoredAnew(t, a) ==
  LET i == CHOOSE i \in Known(t.items, a) : TRUE
  IN IF Known(t.items, a) = {}
       THEN [t EXCEPT
         !.items = Append(@, [id |-> a.id, url |-> a.url, rev |-> Len(t.log) + 1]),
         !.log = Append(@, ChangeOf(Len(t.items) + 1, "created", a))]
     ELSE [t EXCEPT !.items[i].rev = Len(t.log) + 1, !.log = Append(@, ChangeOf(i, "revised", a))]

\* One article: a new item, a new revision of a known one, or nothing new.
Stored(t, a) ==
  IF Known(t.items, a) = {}
    THEN [t EXCEPT
      !.items = Append(@, [id |-> a.id, url |-> a.url, rev |-> Len(t.log) + 1]),
      !.log = Append(@, ChangeOf(Len(t.items) + 1, "created", a))]
  ELSE
    LET i     == CHOOSE i \in Known(t.items, a) : TRUE
        named == IF t.items[i].id = None THEN [t EXCEPT !.items[i].id = a.id] ELSE t
    IN IF Unchanged(t.log[t.items[i].rev], a) THEN named
       ELSE [named EXCEPT !.items[i].rev = Len(t.log) + 1,
                          !.log = Append(@, ChangeOf(i, "revised", a))]

\* Two rows answer to the article: the page is rolled back.
Conflict(t, a) == Cardinality(Known(t.items, a)) > 1

\* The tables after the first n articles of the page.
Aligned(t, page) ==
  LET after[n \in 0 .. Len(page)] ==
        IF n = 0 THEN [ok |-> TRUE, tables |-> t]
        ELSE LET p == after[n - 1]
             IN IF ~p.ok \/ Conflict(p.tables, page[n]) THEN [p EXCEPT !.ok = FALSE]
                ELSE [p EXCEPT !.tables = Stored(p.tables, page[n])]
  IN after[Len(page)]

Pages == UNION {[1 .. n -> Articles] : n \in 1 .. MaxPage}

CommitPage(s) ==
  /\ s \in present /\ pages < MaxPages
  /\ \E page \in Pages :
       LET r == Aligned([items |-> news[s], log |-> log[s]], page)
       IN /\ r.ok /\ Len(r.tables.log) <= MaxChanges
          /\ news' = [news EXCEPT ![s] = r.tables.items]
          /\ log' = [log EXCEPT ![s] = r.tables.log]
  /\ pages' = pages + 1
  /\ UNCHANGED <<present, cursor, req, got, lead>>

\* A migration adds a source.
AddSource ==
  /\ \E s \in Sources \ present : present' = present \cup {s}
  /\ UNCHANGED <<news, log, pages, cursor, req, got, lead>>

(***************************************************************************)
(* changes: the consumer's request                                         *)
(***************************************************************************)
NoOffsets == [s \in present |-> 0]

\* A cursor of another set of sources is refused (400).
Valid == cursor # None => DOMAIN cursor.offsets = present

\* The sources are read and the cursor is checked.
AskChanges ==
  /\ req.pc = "idle" /\ present # {} /\ Valid
  /\ \E limit \in 1 .. MaxLimit : req' = [NoReq EXCEPT
       !.pc = "reading", !.list = List, !.limit = limit, !.lead = lead,
       !.offsets = IF cursor = None THEN NoOffsets ELSE cursor.offsets,
       !.turn = IF cursor = None THEN 1 ELSE cursor.turn]
  /\ UNCHANGED <<store, cursor, got, lead>>

\* The consumer whose cursor was refused begins anew.
BeginAnew ==
  /\ req.pc = "idle" /\ ~Valid
  /\ cursor' = None
  /\ got' = [s \in Sources |-> <<>>]
  /\ lead' = NoLead
  /\ UNCHANGED <<store, req>>

\* The statement for the next source: at most limit changes after its offset.
ReadSource ==
  /\ req.pc = "reading"
  /\ LET s    == req.list[Len(req.queues) + 1]
         from == req.offsets[s]
         upto == IF Len(log[s]) < from + req.limit THEN Len(log[s]) ELSE from + req.limit
         q    == Append(req.queues, [n \in 1 .. (upto - from) |-> from + n])
     IN req' = [req EXCEPT !.queues = q,
                  !.pc = IF Len(q) = Len(req.list) THEN "serving" ELSE "reading"]
  /\ UNCHANGED <<store, cursor, got, lead>>

Queue(s) == req.queues[CHOOSE i \in DOMAIN req.list : req.list[i] = s]

\* s would still have had something to tell after this change of source t.
More(s, t) ==
  s \in Range(req.list) \ {t} /\ Len(req.items[s]) < Len(Queue(s))

\* Mutant of OffsetAfter: the offset moves past everything that was read.
OffsetAfterAll(s) == Last(Queue(s))

\* The offset of s once its next change has been served.
OffsetAfter(s) == Queue(s)[Len(req.items[s]) + 1]

NextTurn == IF req.turn = Len(req.list) THEN 1 ELSE req.turn + 1

\* The round robin of the answer: the source whose turn it is gives one change.
ServeSource ==
  /\ req.pc = "serving"
  /\ req.size < req.limit /\ req.idle < Len(req.list)
  /\ LET s == req.list[req.turn]
     IN req' = IF Len(req.items[s]) = Len(Queue(s))
          THEN [req EXCEPT !.turn = NextTurn, !.idle = @ + 1]
          ELSE [req EXCEPT !.turn = NextTurn, !.idle = 0, !.size = @ + 1,
                  !.items[s] = Append(@, Queue(s)[Len(req.items[s]) + 1]),
                  !.offsets[s] = OffsetAfter(s),
                  !.lead = [u \in Sources |-> [t \in Sources |->
                     IF ~More(u, s) THEN 0 ELSE @[u][t] + (IF t = s THEN 1 ELSE 0)]]]
  /\ UNCHANGED <<store, cursor, got, lead>>

Served == req.pc = "serving" /\ (req.size = req.limit \/ req.idle = Len(req.list))

\* Mutant of NewCursor: the next answer begins with the first source again.
FirstTurnCursor == [offsets |-> req.offsets, turn |-> 1]

NewCursor == [offsets |-> req.offsets, turn |-> req.turn]

\* The consumer receives the answer and saves what it applied with the cursor.
Receive ==
  /\ Served
  /\ cursor' = NewCursor
  /\ got' = [s \in Sources |-> got[s] \o req.items[s]]
  /\ lead' = req.lead
  /\ req' = NoReq
  /\ UNCHANGED store

\* The answer is lost, or the consumer fails before it has saved it.
LoseAnswer ==
  /\ Served
  /\ req' = NoReq
  /\ UNCHANGED <<store, cursor, got, lead>>

Consume == AskChanges \/ BeginAnew \/ ReadSource \/ ServeSource \/ Receive

Next == AddSource \/ Consume \/ LoseAnswer \/ \E s \in Sources : CommitPage(s)

Spec == Init /\ [][Next]_vars

\* The consumer keeps asking and is not unlucky for ever.
FairSpec == Spec /\ WF_vars(Consume) /\ SF_vars(Receive)

(***************************************************************************)
(* Properties                                                              *)
(***************************************************************************)

\* Within a source a number and a URL each name one item, in whatever order
\* articles with and without a number arrive.
IdentityUnique ==
  \A s \in Sources : \A i, j \in DOMAIN news[s] :
    i # j => /\ news[s][i].url # news[s][j].url
             /\ news[s][i].id = None \/ news[s][i].id # news[s][j].id

\* The places in the log of source s that tell of item i.
Places(s, i) == {n \in DOMAIN log[s] : log[s][n].item = i}

\* A consumer that applies a source's changes in order ends with the tables:
\* each item is created once, before it is revised, its last change is its
\* current revision, and a repetition of the same content is no change.
LogTellsNews ==
  \A s \in Sources :
    /\ \A n \in DOMAIN log[s] : log[s][n].item \in DOMAIN news[s]
    /\ \A i \in DOMAIN news[s] :
         /\ news[s][i].rev \in Places(s, i)
         /\ \A n \in Places(s, i) :
              /\ n <= news[s][i].rev
              /\ log[s][n].type = "created" <=> \A m \in Places(s, i) : n <= m
              /\ \A m \in Places(s, i) :
                   (m < n /\ log[s][m].content = log[s][n].content) =>
                      \E k \in Places(s, i) : m < k /\ k < n

\* The consumer has applied exactly the changes up to its offset, each once and
\* in order, although answers are lost and sources change between requests.
AppliedInOrder ==
  \A s \in Sources :
    /\ got[s] = [n \in 1 .. Len(got[s]) |-> n]
    /\ cursor # None /\ s \in DOMAIN cursor.offsets => Len(got[s]) = cursor.offsets[s]

\* While a source has more to tell, no other source is served twice before it,
\* across answers too.
FairTurns == \A s, t \in Sources : lead[s][t] <= 1

\* Every change reaches the consumer.
ChangesArrive ==
  \A s \in Sources : \A n \in 1 .. MaxChanges :
    Len(log[s]) >= n ~> Len(got[s]) >= n
=============================================================================
