-------------------------- MODULE ProxyEgressProofs --------------------------
(***************************************************************************)
(* What TLAPS proves of ProxyEgress for any number of proxies, processes,  *)
(* checks and versions: a proxy in use exists, a source that is to pause   *)
(* is never contacted directly, and the egress moves forward for cause.    *)
(***************************************************************************)
EXTENDS ProxyEgress, SequenceTheorems, TLAPS

\* A context was opened as its configuration allowed, is covered by its lease
\* while it takes requests, and blames a proxy only for a failed connection.
ContextFits(c, lease, f) ==
  c # None =>
    /\ c.proxy = None => c.allowed
    /\ ~c.lost /\ c.proxy # None => lease = c.proxy
    /\ c.failed \/ c.blaming => c.proxy \in f

ContextsFit == \A u \in Users : ContextFits(contexts[u], leases[u], faulted)

\* What protects a proxy from its deletion: leases and unfinished checks.
Protected ==
  /\ \A u \in Users : leases[u] # None => Exists(leases[u])
  /\ \A c \in Checks : checks[c] # None /\ checks[c].status # "done" => Exists(checks[c].proxy)

JobFits ==
  job # Idle =>
    /\ job.check \in Checks /\ checks[job.check] # None
    /\ checks[job.check].status = "running"
    /\ job.at \in {"probing", "blaming"} => job.proxy \in Proxies
    /\ job.at = "blaming" => job.proxy \in faulted

\* An egress of the current version is one the configuration can lead to.
EgressFits ==
  egress # None =>
    /\ egress.version <= config.version
    /\ egress.version = config.version =>
         /\ egress.direct => config.exhausted = "direct"
         /\ egress.proxy # None => egress.proxy \in Range(config.ids)

EgressInv ==
  /\ TypeOK /\ ContextsFit /\ Protected /\ JobFits /\ EgressFits
  /\ cooling \subseteq faulted

-----------------------------------------------------------------------------
(* The order of the proxies and the candidates of a selection.             *)

LEMMA OrderType ==
  ASSUME TypeOK
  PROVE  config.ids \in Seq(Proxies) /\ IsInjective(config.ids)
  <1>1. config.ids \in Lists
    BY DEF TypeOK, Config
  <1>2. config.ids \in SeqOf(Proxies, Cardinality(Proxies)) /\ IsInjective(config.ids)
    BY <1>1, ListsAreOrders
  <1>3. PICK m \in 0 .. Cardinality(Proxies) : config.ids \in [1 .. m -> Proxies]
    BY <1>2 DEF SeqOf
  <1>4. m \in Nat
    BY <1>3
  <1>5. QED
    BY <1>2, <1>3, <1>4

Place(p) == CHOOSE i \in DOMAIN config.ids : config.ids[i] = p

\* Each proxy of the order has one place.
LEMMA PlaceOf ==
  ASSUME TypeOK, NEW i \in DOMAIN config.ids
  PROVE  Place(config.ids[i]) = i
  BY OrderType DEF Place, IsInjective

\* Candidates are proxies of the order, the current one is the first of them,
\* and none stands before it.
LEMMA CandidatesFollow ==
  ASSUME TypeOK, NEW current
  PROVE  LET order == Candidates(current) IN
         /\ order \in Seq(Proxies)
         /\ \A i \in DOMAIN order : order[i] \in Range(config.ids)
         /\ current.proxy \in Range(config.ids) =>
              /\ 1 \in DOMAIN order /\ order[1] = current.proxy
              /\ \A i \in DOMAIN order : Place(order[i]) >= Place(current.proxy)
  <1> DEFINE ids  == config.ids
             p    == current.proxy
             k    == IF p \in Range(ids) THEN Place(p) ELSE 1
             rest == SubSeq(ids, k, Len(ids))
  <1>1. ids \in Seq(Proxies)
    BY OrderType
  <1>2. p \in Range(ids) => k \in DOMAIN ids /\ ids[k] = p
    BY <1>1 DEF Range, Place
  <1>3. k \in Nat \ {0} /\ k <= Len(ids) + 1
    BY <1>1, <1>2
  <1>4. /\ rest \in Seq(Proxies) /\ Len(rest) = Len(ids) - k + 1
        /\ \A i \in 1 .. Len(rest) : rest[i] = ids[k + i - 1]
    <2>1. \A i \in k .. Len(ids) : ids[i] \in Proxies
      BY <1>1, <1>3
    <2>2. Len(ids) \in Int /\ k \in Int
      BY <1>1, <1>3
    <2>3. /\ rest \in Seq(Proxies)
          /\ Len(rest) = IF k <= Len(ids) THEN Len(ids) - k + 1 ELSE 0
          /\ \A i \in 1 .. Len(ids) - k + 1 : rest[i] = ids[k + i - 1]
      <3> HIDE DEF ids, k
      <3>1. QED
        BY ONLY <2>1, <2>2, SubSeqProperties DEF rest
    <2> HIDE DEF rest, k
    <2>4. Len(rest) = Len(ids) - k + 1
      BY <1>1, <1>3, <2>3
    <2>5. QED
      BY <2>3, <2>4
  <1>5. Candidates(current) = rest \/ Candidates(current) = First(rest)
    <2>1. CASE p \in Range(ids)
      <3>1. rest = SubSeq(config.ids, CHOOSE i \in DOMAIN config.ids :
                            config.ids[i] = current.proxy, Len(config.ids))
        BY <2>1 DEF Place
      <3>2. QED
        BY <2>1, <3>1, Zenon DEF Candidates
    <2>2. CASE p \notin Range(ids)
      <3>1. rest = ids
        BY <1>1, <1>4, <2>2
      <3>2. QED
        BY <2>2, <3>1, Zenon DEF Candidates
    <2>3. QED
      BY <2>1, <2>2
  <1> DEFINE order == Candidates(current)
  <1> HIDE DEF k, rest, order
  <1>6. /\ order \in Seq(Proxies)
        /\ \A i \in DOMAIN order : i \in 1 .. Len(rest) /\ order[i] = rest[i]
        /\ Len(rest) > 0 => 1 \in DOMAIN order
    <2>1. CASE order = rest
      BY <1>4, <2>1
    <2>2. CASE order = First(rest) /\ rest = <<>>
      BY <1>4, <2>2 DEF First
    <2>3. CASE order = First(rest) /\ rest # <<>>
      <3>1. order = <<rest[1]>> /\ Len(rest) > 0
        BY <1>4, <2>3 DEF First
      <3>2. QED
        BY <1>4, <3>1
    <2>4. QED
      BY <1>5, <2>1, <2>2, <2>3 DEF order
  <1>7. ASSUME NEW i \in DOMAIN order
        PROVE  k + i - 1 \in DOMAIN ids /\ order[i] = ids[k + i - 1]
    <2>1. i \in 1 .. Len(rest) /\ order[i] = rest[i]
      BY <1>6
    <2>2. i \in Nat /\ i >= 1 /\ i <= Len(ids) - k + 1 /\ Len(ids) \in Nat
      BY <1>1, <1>3, <1>4, <2>1
    <2>3. k + i - 1 \in 1 .. Len(ids)
      BY <1>3, <2>2
    <2>4. QED
      BY <1>1, <1>4, <2>1, <2>3
  <1>8. \A i \in DOMAIN order : order[i] \in Range(ids)
    BY <1>7 DEF Range
  <1>9. ASSUME p \in Range(ids)
        PROVE  /\ 1 \in DOMAIN order /\ order[1] = p
               /\ \A i \in DOMAIN order : Place(order[i]) >= Place(p)
    <2>1. k = Place(p) /\ k \in DOMAIN ids /\ ids[k] = p
      BY <1>2, <1>9 DEF k
    <2>2. 1 \in DOMAIN order
      BY <1>1, <1>4, <1>6, <2>1
    <2>3. order[1] = p
      BY <1>3, <1>7, <2>1, <2>2
    <2>4. ASSUME NEW i \in DOMAIN order PROVE Place(order[i]) >= Place(p)
      <3>1. Place(order[i]) = k + i - 1
        BY <1>7, PlaceOf
      <3>2. i \in Nat /\ i >= 1
        BY <1>6
      <3>3. QED
        BY <1>3, <2>1, <3>1, <3>2
    <2>5. QED
      BY <2>2, <2>3, <2>4
  <1>10. QED
    BY <1>6, <1>8, <1>9 DEF order

-----------------------------------------------------------------------------
(* The parts of the invariant and what a step may change of them.          *)

LEMMA InitInv == Init => EgressInv
  <1> SUFFICES ASSUME Init PROVE EgressInv
    OBVIOUS
  <1> USE DEF Init
  <1>1. config \in Config
    OBVIOUS
  <1>2. Idle \in Job
    BY DEF Idle, Job
  <1>3. TypeOK
    BY <1>1, <1>2, BoundsAreNat DEF TypeOK
  <1>4. ContextsFit /\ Protected /\ JobFits /\ EgressFits
    BY DEF ContextsFit, ContextFits, Protected, JobFits, EgressFits
  <1>5. QED
    BY <1>3, <1>4 DEF EgressInv

\* A process changes its own context and its own lease only.
LEMMA ContextStep ==
  ASSUME TypeOK, ContextsFit, NEW u \in Users, NEW t \in Context \cup {None},
         NEW l \in Proxies \cup {None},
         contexts' = [contexts EXCEPT ![u] = t], leases' = [leases EXCEPT ![u] = l],
         faulted \subseteq faulted', ContextFits(t, l, faulted')
  PROVE  /\ contexts' \in [Users -> Context \cup {None}]
         /\ leases' \in [Users -> Proxies \cup {None}]
         /\ ContextsFit'
  <1>1. /\ contexts' \in [Users -> Context \cup {None}]
        /\ leases' \in [Users -> Proxies \cup {None}]
    BY DEF TypeOK
  <1>2. contexts'[u] = t /\ leases'[u] = l
    BY DEF TypeOK
  <1>3. ASSUME NEW v \in Users \ {u} PROVE ContextFits(contexts'[v], leases'[v], faulted')
    <2>1. contexts'[v] = contexts[v] /\ leases'[v] = leases[v]
      BY DEF TypeOK
    <2>2. ContextFits(contexts[v], leases[v], faulted)
      BY DEF ContextsFit
    <2>3. QED
      BY <2>1, <2>2 DEF ContextFits
  <1>4. QED
    BY <1>1, <1>2, <1>3 DEF ContextsFit

\* The row a selection starts from fits the current version.
LEMMA CurrentFits ==
  ASSUME EgressInv
  PROVE  /\ Current \in Egress /\ Current.version = config.version
         /\ Current.direct => config.exhausted = "direct"
         /\ Current.proxy # None => Current.proxy \in Range(config.ids)
  <1>1. config.version \in 1 .. MaxVersion
    BY DEF EgressInv, TypeOK, Config
  <1>2. CASE egress = None \/ egress.version # config.version
    BY <1>1, <1>2 DEF Current, NewEgress, Egress
  <1>3. CASE egress # None /\ egress.version = config.version
    BY <1>3 DEF Current, EgressInv, TypeOK, EgressFits
  <1>4. QED
    BY <1>2, <1>3

-----------------------------------------------------------------------------
(* Steps of the administrator.                                             *)

LEMMA PatchSourceInv == EgressInv /\ PatchSource => EgressInv'
  <1> SUFFICES ASSUME EgressInv, PatchSource PROVE EgressInv'
    OBVIOUS
  <1> USE DEF EgressInv, TypeOK
  <1>1. PICK ids \in Lists, failover \in BOOLEAN, exhausted \in {"pause", "direct"} :
          config' = [ids |-> ids, failover |-> failover, exhausted |-> exhausted,
                     version |-> config.version + 1]
    BY DEF PatchSource
  <1>2. config.version \in 1 .. MaxVersion /\ config.version < MaxVersion
    BY DEF PatchSource, Config
  <1>3. config' \in Config /\ config'.version = config.version + 1
    BY <1>1, <1>2, BoundsAreNat DEF Config
  <1>4. egress # None => egress.version \in 1 .. MaxVersion
    BY DEF Egress
  <1>5. EgressFits'
    BY <1>2, <1>3, <1>4, BoundsAreNat DEF EgressFits, PatchSource
  <1>6. UNCHANGED <<endpoints, cooling, egress, contexts, leases, checks, job, faulted, faults>>
    BY DEF PatchSource
  <1>7. ContextsFit' /\ Protected' /\ JobFits'
    BY <1>6 DEF ContextsFit, Protected, Exists, JobFits
  <1>8. QED
    BY <1>3, <1>5, <1>6, <1>7

LEMMA UpdateProxyInv ==
  ASSUME EgressInv, NEW p \in Proxies, UpdateProxy(p) PROVE EgressInv'
  <1> USE DEF EgressInv, TypeOK
  <1>1. PICK s \in {"enabled", "disabled"} : endpoints' = [endpoints EXCEPT ![p] = s]
    BY DEF UpdateProxy
  <1>2. UNCHANGED <<config, egress, contexts, leases, checks, job, faulted, faults>>
    BY DEF UpdateProxy
  <1>3. cooling' \subseteq cooling
    BY DEF UpdateProxy
  <1>4. \A q : Exists(q) /\ q \in Proxies => Exists(q)'
    BY <1>1 DEF Exists
  <1>5. Protected'
    BY <1>2, <1>4 DEF Protected, Check
  <1>6. ContextsFit' /\ JobFits' /\ EgressFits'
    BY <1>2 DEF ContextsFit, JobFits, EgressFits
  <1>7. endpoints' \in [Proxies -> {"enabled", "disabled", "deleted"}]
    BY <1>1
  <1>8. QED
    BY <1>2, <1>3, <1>5, <1>6, <1>7

\* No context, no unfinished check and no job has the proxy that is deleted.
LEMMA DeleteProxyInv ==
  ASSUME EgressInv, NEW p \in Proxies, DeleteProxy(p) PROVE EgressInv'
  <1> USE DEF EgressInv, TypeOK
  <1>1. UNCHANGED <<config, contexts, leases, job, faulted, faults>>
    BY DEF DeleteProxy
  <1>2. /\ endpoints' = [endpoints EXCEPT ![p] = "deleted"]
        /\ cooling' \subseteq cooling
        /\ egress' \in {None, egress}
        /\ checks' = [c \in Checks |->
             IF checks[c] # None /\ checks[c].proxy = p THEN None ELSE checks[c]]
    BY DEF DeleteProxy
  <1>3. /\ \A u \in Users : leases[u] # p
        /\ \A c \in Checks : checks[c] # None /\ checks[c].status # "done" => checks[c].proxy # p
    BY DEF DeleteProxy, InUse, Checking, Range
  <1>4. \A q \in Proxies \ {p} : Exists(q) => Exists(q)'
    BY <1>2 DEF Exists
  <1>5. endpoints' \in [Proxies -> {"enabled", "disabled", "deleted"}]
    BY <1>2
  <1>6. checks' \in [Checks -> Check \cup {None}]
    BY <1>2
  <1>7. \A c \in Checks : /\ checks'[c] # None => checks'[c] = checks[c]
                          /\ checks[c] # None /\ checks[c].status # "done" => checks'[c] = checks[c]
    BY <1>2, <1>3
  <1>8. Protected'
    <2>1. ASSUME NEW u \in Users, leases[u] # None PROVE Exists(leases[u])'
      BY <1>1, <1>3, <1>4, <2>1 DEF Protected
    <2>2. ASSUME NEW c \in Checks, checks'[c] # None, checks'[c].status # "done"
          PROVE  Exists(checks[c].proxy)'
      <3>1. checks'[c] = checks[c]
        BY <1>7, <2>2
      <3>2. checks[c] # None /\ checks[c].status # "done"
        BY <2>2, <3>1
      <3>3. checks[c].proxy \in Proxies \ {p} /\ Exists(checks[c].proxy)
        BY <1>3, <3>2 DEF Protected, Check
      <3>4. QED
        BY <1>4, <3>1, <3>3
    <2>3. QED
      BY <1>1, <1>7, <2>1, <2>2 DEF Protected, Exists
  <1>9. JobFits'
    <2>1. CASE job = Idle
      BY <1>1, <2>1 DEF JobFits
    <2>2. CASE job # Idle
      <3>1. job.check \in Checks /\ checks'[job.check] = checks[job.check]
        BY <1>7, <2>2 DEF JobFits
      <3>2. QED
        BY <1>1, <2>2, <3>1 DEF JobFits
    <2>3. QED
      BY <2>1, <2>2
  <1>10. ContextsFit' /\ EgressFits'
    BY <1>1, <1>2 DEF ContextsFit, EgressFits
  <1>11. QED
    BY <1>1, <1>2, <1>5, <1>6, <1>8, <1>9, <1>10

LEMMA ResetTransportInv == EgressInv /\ ResetTransport => EgressInv'
  BY DEF EgressInv, TypeOK, ResetTransport, admin, ContextsFit, Protected, Exists, JobFits, EgressFits

LEMMA CooldownEndsInv ==
  ASSUME EgressInv, NEW p \in Proxies, CooldownEnds(p) PROVE EgressInv'
  BY DEF EgressInv, TypeOK, CooldownEnds, admin, ContextsFit, Protected, Exists, JobFits, EgressFits

LEMMA AskCheckInv ==
  ASSUME EgressInv, NEW c \in Checks, NEW p \in Proxies, AskCheck(c, p) PROVE EgressInv'
  <1> USE DEF EgressInv, TypeOK
  <1> DEFINE row == [proxy |-> p, status |-> "pending", leased |-> FALSE]
  <1>1. checks[c] = None /\ Exists(p) /\ checks' = [checks EXCEPT ![c] = row]
        /\ UNCHANGED <<config, endpoints, cooling, egress, contexts, leases, job, faulted, faults>>
    BY DEF AskCheck, admin
  <1>2. row \in Check /\ row.proxy = p
    BY DEF Check
  <1> HIDE DEF row
  <1>3. checks' \in [Checks -> Check \cup {None}] /\ checks'[c] = row
        /\ \A d \in Checks \ {c} : checks'[d] = checks[d]
    BY <1>1, <1>2
  <1>4. Protected'
    BY <1>1, <1>2, <1>3 DEF Protected, Exists
  <1>5. JobFits'
    BY <1>1, <1>3 DEF JobFits
  <1>6. ContextsFit' /\ EgressFits'
    BY <1>1 DEF ContextsFit, EgressFits
  <1>7. QED
    BY <1>1, <1>3, <1>4, <1>5, <1>6

-----------------------------------------------------------------------------
(* Steps of a process of the source.                                       *)

\* What a process may change: its context and lease, the egress, the health of
\* proxies and the history.
LEMMA UserStep ==
  ASSUME EgressInv, NEW u \in Users, NEW t \in Context \cup {None},
         NEW l \in Proxies \cup {None},
         contexts' = [contexts EXCEPT ![u] = t], leases' = [leases EXCEPT ![u] = l],
         ContextFits(t, l, faulted'), l # None => Exists(l),
         UNCHANGED <<config, endpoints, checks, job>>,
         egress' \in Egress \cup {None}, EgressFits',
         faulted \subseteq faulted', faulted' \subseteq Proxies,
         cooling' \subseteq faulted', faults' \in 0 .. MaxFaults
  PROVE  EgressInv'
  <1> USE DEF EgressInv
  <1>1. /\ contexts' \in [Users -> Context \cup {None}]
        /\ leases' \in [Users -> Proxies \cup {None}]
        /\ ContextsFit'
    BY ContextStep
  <1>2. TypeOK'
    BY <1>1 DEF TypeOK
  <1>3. \A v \in Users : leases'[v] # None => leases'[v] = l \/ leases'[v] = leases[v]
    BY DEF TypeOK
  <1>4. Protected'
    BY <1>3 DEF Protected, Exists
  <1>5. JobFits'
    BY DEF JobFits
  <1>6. QED
    BY <1>1, <1>2, <1>4, <1>5

\* A step that only changes the context of the process.
LEMMA OwnContextStep ==
  ASSUME EgressInv, NEW u \in Users, NEW t \in Context \cup {None},
         contexts' = [contexts EXCEPT ![u] = t],
         ContextFits(t, leases[u], faulted'),
         UNCHANGED <<config, endpoints, egress, leases, checks, job>>,
         faulted \subseteq faulted', faulted' \subseteq Proxies,
         cooling' \subseteq faulted', faults' \in 0 .. MaxFaults
  PROVE  EgressInv'
  <1>1. leases' = [leases EXCEPT ![u] = leases[u]] /\ leases[u] \in Proxies \cup {None}
    BY DEF EgressInv, TypeOK
  <1>2. leases[u] # None => Exists(leases[u])
    BY DEF EgressInv, Protected
  <1>3. egress' \in Egress \cup {None} /\ EgressFits'
    BY DEF EgressInv, TypeOK, EgressFits
  <1>4. QED
    BY <1>1, <1>2, <1>3, UserStep

LEMMA OpenedFits ==
  ASSUME EgressInv, NEW p \in Proxies \cup {None},
         p = None => config.ids = <<>> \/ config.exhausted = "direct"
  PROVE  Opened(p) \in Context /\ \A f : ContextFits(Opened(p), p, f)
  BY DEF Opened, Context, ContextFits

LEMMA SelectProxyInv ==
  ASSUME EgressInv, NEW u \in Users, SelectProxy(u) PROVE EgressInv'
  <1> DEFINE order == Candidates(Current)
  <1>1. PICK i \in DOMAIN order :
          /\ Usable(order[i])
          /\ egress' = [Current EXCEPT !.proxy = order[i]]
          /\ contexts' = [contexts EXCEPT ![u] = Opened(order[i])]
          /\ leases' = [leases EXCEPT ![u] = order[i]]
    BY DEF SelectProxy
  <1>2. UNCHANGED <<config, endpoints, cooling, checks, job, faulted, faults>>
    BY DEF SelectProxy, admin
  <1>3. order[i] \in Proxies /\ order[i] \in Range(config.ids) /\ order[i] # None
    BY CandidatesFollow, NoneIsNoRow DEF EgressInv
  <1> DEFINE p == order[i]
  <1>4. p \in Proxies /\ p \in Range(config.ids) /\ p # None /\ Exists(p)
    BY <1>1, <1>3 DEF Usable, Exists
  <1>5. /\ egress' = [Current EXCEPT !.proxy = p]
        /\ contexts' = [contexts EXCEPT ![u] = Opened(p)]
        /\ leases' = [leases EXCEPT ![u] = p]
    BY <1>1
  <1> HIDE DEF p
  <1>6. /\ egress' \in Egress /\ egress'.proxy = p
        /\ egress'.version = config.version /\ egress'.direct = Current.direct
    BY <1>4, <1>5, CurrentFits DEF Egress
  <1>7. EgressFits'
    <2>1. config.version \in Nat
      BY DEF EgressInv, TypeOK, Config
    <2>2. QED
      BY <1>2, <1>4, <1>6, <2>1, CurrentFits DEF EgressFits
  <1>8. Opened(p) \in Context /\ ContextFits(Opened(p), p, faulted')
    BY <1>4, OpenedFits
  <1>9. QED
    BY <1>2, <1>4, <1>5, <1>6, <1>7, <1>8, UserStep DEF EgressInv, TypeOK

LEMMA ExhaustInv ==
  ASSUME EgressInv, NEW u \in Users, Exhaust(u) PROVE EgressInv'
  <1>1. UNCHANGED <<config, endpoints, cooling, leases, checks, job, faulted, faults>>
    BY DEF Exhaust, admin
  <1>2. /\ egress' \in Egress /\ egress'.proxy = None /\ egress'.version = config.version
        /\ egress'.direct => config.exhausted = "direct"
    <2>1. config.exhausted \in {"pause", "direct"}
      BY DEF EgressInv, TypeOK, Config
    <2>2. egress' = [proxy |-> None, version |-> Current.version,
                     direct |-> config.exhausted # "pause", paused |-> config.exhausted = "pause"]
      BY CurrentFits DEF Exhaust, Egress
    <2>3. QED
      BY <2>1, <2>2, CurrentFits DEF Egress
  <1>3. EgressFits'
    <2>1. config.version \in Nat
      BY DEF EgressInv, TypeOK, Config
    <2>2. QED
      BY <1>1, <1>2, <2>1 DEF EgressFits
  <1>4. leases' = [leases EXCEPT ![u] = leases[u]] /\ leases[u] \in Proxies \cup {None}
    BY <1>1 DEF EgressInv, TypeOK
  <1>5. leases[u] # None => Exists(leases[u])
    BY DEF EgressInv, Protected
  <1>6. CASE config.exhausted = "pause"
    <2>1. contexts' = [contexts EXCEPT ![u] = contexts[u]]
          /\ contexts[u] \in Context \cup {None}
      BY <1>6 DEF Exhaust, EgressInv, TypeOK
    <2>2. ContextFits(contexts[u], leases[u], faulted')
      BY <1>1 DEF EgressInv, ContextsFit
    <2>3. QED
      BY <1>1, <1>2, <1>3, <1>4, <1>5, <2>1, <2>2, UserStep DEF EgressInv, TypeOK
  <1>7. CASE config.exhausted # "pause"
    <2>1. contexts' = [contexts EXCEPT ![u] = Opened(None)] /\ config.exhausted = "direct"
      BY <1>7 DEF Exhaust, EgressInv, TypeOK, Config
    <2>2. Opened(None) \in Context /\ ContextFits(Opened(None), leases[u], faulted')
      BY <2>1, OpenedFits DEF ContextFits, Opened
    <2>3. QED
      BY <1>1, <1>2, <1>3, <1>4, <1>5, <2>1, <2>2, UserStep DEF EgressInv, TypeOK
  <1>8. QED
    BY <1>6, <1>7

LEMMA SelectDirectInv ==
  ASSUME EgressInv, NEW u \in Users, SelectDirect(u) PROVE EgressInv'
  <1>1. UNCHANGED <<config, endpoints, cooling, leases, checks, job, faulted, faults>>
        /\ contexts' = [contexts EXCEPT ![u] = Opened(None)]
    BY DEF SelectDirect, admin
  <1>2. config.ids = <<>> \/ config.exhausted = "direct"
    BY CurrentFits DEF SelectDirect
  <1>3. /\ egress' \in Egress /\ egress'.version = config.version
        /\ egress'.direct => config.exhausted = "direct"
        /\ egress'.proxy # None => egress'.proxy \in Range(config.ids)
    <2>1. egress' = Current \/ egress' = [Current EXCEPT !.proxy = None]
      BY DEF SelectDirect
    <2>2. QED
      BY <2>1, CurrentFits DEF Egress
  <1>4. EgressFits'
    <2>1. config.version \in Nat
      BY DEF EgressInv, TypeOK, Config
    <2>2. QED
      BY <1>1, <1>3, <2>1 DEF EgressFits
  <1>5. leases' = [leases EXCEPT ![u] = leases[u]] /\ leases[u] \in Proxies \cup {None}
    BY <1>1 DEF EgressInv, TypeOK
  <1>6. leases[u] # None => Exists(leases[u])
    BY DEF EgressInv, Protected
  <1>7. Opened(None) \in Context /\ ContextFits(Opened(None), leases[u], faulted')
    BY <1>2, OpenedFits DEF ContextFits, Opened
  <1>8. QED
    BY <1>1, <1>3, <1>4, <1>5, <1>6, <1>7, UserStep DEF EgressInv, TypeOK

\* Requests, their answers and their failures.
LEMMA RequestsInv ==
  ASSUME EgressInv, NEW u \in Users,
         \/ Succeed(u) \/ RecordSuccess(u) \/ FailToConnect(u) \/ RecordFailure(u)
         \/ HeartbeatFails(u)
  PROVE  EgressInv'
  <1> USE DEF EgressInv
  <1> DEFINE c == contexts[u]
  <1>1. c \in Context /\ ContextFits(c, leases[u], faulted) /\ faults \in 0 .. MaxFaults
        /\ c.proxy \in Proxies \cup {None}
    BY DEF Succeed, RecordSuccess, FailToConnect, RecordFailure, HeartbeatFails, Requests,
           TypeOK, ContextsFit, Context
  <1>2. c # None
    BY DEF Succeed, RecordSuccess, FailToConnect, RecordFailure, HeartbeatFails, Requests
  <1>3. CASE Succeed(u)
    <2> DEFINE t == [c EXCEPT !.recovering = TRUE]
    <2>1. contexts' = [contexts EXCEPT ![u] = t]
          /\ UNCHANGED <<config, endpoints, egress, leases, checks, job, cooling, faulted, faults>>
      BY <1>3 DEF Succeed, admin, TypeOK
    <2>2. t \in Context /\ t.proxy = c.proxy /\ t.allowed = c.allowed
          /\ t.lost = c.lost /\ t.failed = c.failed /\ t.blaming = c.blaming
      BY <1>1 DEF Context
    <2> HIDE DEF t
    <2>3. ContextFits(t, leases[u], faulted')
      BY <1>1, <1>2, <2>1, <2>2 DEF ContextFits
    <2>4. QED
      BY <1>1, <2>1, <2>2, <2>3, OwnContextStep DEF TypeOK
  <1>4. CASE RecordSuccess(u)
    <2> DEFINE t == [c EXCEPT !.recovering = FALSE, !.recorded = TRUE]
    <2>1. contexts' = [contexts EXCEPT ![u] = t]
          /\ UNCHANGED <<config, endpoints, egress, leases, checks, job, faulted, faults>>
      BY <1>4 DEF RecordSuccess, admin, TypeOK
    <2>2. cooling' \subseteq cooling
      BY <1>4 DEF RecordSuccess, RecordHealthy
    <2>3. t \in Context /\ t.proxy = c.proxy /\ t.allowed = c.allowed
          /\ t.lost = c.lost /\ t.failed = c.failed /\ t.blaming = c.blaming
      BY <1>1 DEF Context
    <2> HIDE DEF t
    <2>4. ContextFits(t, leases[u], faulted')
      BY <1>1, <1>2, <2>1, <2>3 DEF ContextFits
    <2>5. QED
      BY <1>1, <2>1, <2>2, <2>3, <2>4, OwnContextStep DEF TypeOK
  <1>5. CASE FailToConnect(u)
    <2> DEFINE t == [c EXCEPT !.failed = TRUE, !.blaming = TRUE]
    <2>1. contexts' = [contexts EXCEPT ![u] = t]
          /\ UNCHANGED <<config, endpoints, egress, leases, checks, job, cooling, faults>>
      BY <1>5 DEF FailToConnect, admin, TypeOK
    <2>2. c.proxy \in Proxies /\ faulted' = faulted \cup {c.proxy}
      BY <1>1, <1>5 DEF FailToConnect
    <2>3. t \in Context /\ t.proxy = c.proxy /\ t.allowed = c.allowed
          /\ t.lost = c.lost
      BY <1>1 DEF Context
    <2> HIDE DEF t, c
    <2>4. ContextFits(t, leases[u], faulted')
      BY <1>1, <1>2, <2>2, <2>3 DEF ContextFits
    <2>5. QED
      BY <1>1, <2>1, <2>2, <2>3, <2>4, OwnContextStep DEF TypeOK
  <1>6. CASE RecordFailure(u)
    <2> DEFINE t == [c EXCEPT !.blaming = FALSE]
    <2>1. contexts' = [contexts EXCEPT ![u] = t]
          /\ UNCHANGED <<config, endpoints, egress, leases, checks, job, faulted, faults>>
      BY <1>6 DEF RecordFailure, admin, TypeOK
    <2>2. c.proxy \in faulted
      BY <1>1, <1>2, <1>6 DEF RecordFailure, ContextFits
    <2>3. cooling' \subseteq faulted
      BY <1>6, <2>2 DEF RecordFailure, RecordFailed
    <2>4. t \in Context /\ t.proxy = c.proxy /\ t.allowed = c.allowed
          /\ t.lost = c.lost /\ t.failed = c.failed /\ ~t.blaming
      BY <1>1 DEF Context
    <2> HIDE DEF t
    <2>5. ContextFits(t, leases[u], faulted')
      BY <1>1, <1>2, <2>1, <2>4 DEF ContextFits
    <2>6. QED
      BY <1>1, <2>1, <2>3, <2>4, <2>5, OwnContextStep DEF TypeOK
  <1>7. CASE HeartbeatFails(u)
    <2> DEFINE t == [c EXCEPT !.lost = TRUE]
    <2>1. contexts' = [contexts EXCEPT ![u] = t]
          /\ UNCHANGED <<config, endpoints, egress, leases, checks, job, cooling, faulted>>
      BY <1>7 DEF HeartbeatFails, admin, TypeOK
    <2>2. faults' \in 0 .. MaxFaults
      BY <1>1, <1>7, BoundsAreNat DEF HeartbeatFails
    <2>3. t \in Context /\ t.proxy = c.proxy /\ t.allowed = c.allowed
          /\ t.lost /\ t.failed = c.failed /\ t.blaming = c.blaming
      BY <1>1 DEF Context
    <2> HIDE DEF t
    <2>4. ContextFits(t, leases[u], faulted')
      BY <1>1, <1>2, <2>1, <2>3 DEF ContextFits
    <2>5. QED
      BY <2>1, <2>2, <2>3, <2>4, OwnContextStep DEF TypeOK
  <1>8. QED
    BY <1>3, <1>4, <1>5, <1>6, <1>7

\* The end of a context, and of a lease whose context is gone.
LEMMA EndsInv ==
  ASSUME EgressInv, NEW u \in Users, CloseContext(u) \/ CrashUser(u) \/ LeaseExpires(u)
  PROVE  EgressInv'
  <1> USE DEF EgressInv
  <1>1. \A l, f : ContextFits(None, l, f)
    BY DEF ContextFits
  <1>2. /\ egress' \in Egress \cup {None} /\ EgressFits'
        /\ UNCHANGED <<config, endpoints, egress, checks, job, cooling, faulted>>
    BY DEF CloseContext, CrashUser, LeaseExpires, admin, TypeOK, EgressFits
  <1>3. CASE CloseContext(u)
    BY <1>1, <1>2, <1>3, UserStep DEF CloseContext, TypeOK
  <1>4. CASE CrashUser(u)
    <2>1. faults' \in 0 .. MaxFaults
      BY <1>4, BoundsAreNat DEF CrashUser, TypeOK
    <2>2. QED
      BY <1>1, <1>2, <1>4, <2>1, OwnContextStep DEF CrashUser, TypeOK
  <1>5. CASE LeaseExpires(u)
    <2>1. contexts' = [contexts EXCEPT ![u] = contexts[u]] /\ contexts[u] \in Context \cup {None}
      BY <1>5 DEF LeaseExpires, TypeOK
    <2>2. ContextFits(contexts[u], None, faulted')
      <3>1. ContextFits(contexts[u], leases[u], faulted)
        BY DEF ContextsFit
      <3>2. contexts[u] = None \/ contexts[u].lost
        BY <1>5 DEF LeaseExpires, Requests
      <3>3. QED
        BY <1>2, <3>1, <3>2 DEF ContextFits
    <2>3. leases' = [leases EXCEPT ![u] = None] /\ faults' = faults
      BY <1>5 DEF LeaseExpires
    <2>4. QED
      BY <1>2, <2>1, <2>2, <2>3, UserStep DEF TypeOK
  <1>6. QED
    BY <1>3, <1>4, <1>5

-----------------------------------------------------------------------------
(* Steps of the proxy worker.                                              *)

\* What a step of the worker may change: the job, the row of a check it keeps
\* at its proxy, the health of proxies and the history.
LEMMA CheckStep ==
  ASSUME EgressInv,
         UNCHANGED <<config, endpoints, egress, contexts, leases>>,
         checks' \in [Checks -> Check \cup {None}],
         \A c \in Checks : checks'[c] # None =>
           /\ checks[c] # None /\ checks'[c].proxy = checks[c].proxy
           /\ checks'[c].status # "done" => checks[c].status # "done",
         job' \in Job, JobFits',
         faulted \subseteq faulted', faulted' \subseteq Proxies,
         cooling' \subseteq faulted', faults' \in 0 .. MaxFaults
  PROVE  EgressInv'
  <1> USE DEF EgressInv
  <1>1. TypeOK'
    BY DEF TypeOK
  <1>2. ContextsFit'
    BY DEF ContextsFit, ContextFits
  <1>3. Protected'
    BY DEF Protected, Exists
  <1>4. EgressFits'
    BY DEF EgressFits
  <1>5. QED
    BY <1>1, <1>2, <1>3, <1>4

\* A step that leaves the rows of the checks alone.
LEMMA JobStep ==
  ASSUME EgressInv,
         UNCHANGED <<config, endpoints, egress, contexts, leases, checks>>,
         job' \in Job, JobFits',
         faulted \subseteq faulted', faulted' \subseteq Proxies,
         cooling' \subseteq faulted', faults' \in 0 .. MaxFaults
  PROVE  EgressInv'
  BY CheckStep DEF EgressInv, TypeOK

LEMMA ClaimCheckInv ==
  ASSUME EgressInv, NEW c \in Checks, ClaimCheck(c) PROVE EgressInv'
  <1> USE DEF EgressInv
  <1> DEFINE row == [checks[c] EXCEPT !.status = "running", !.leased = TRUE]
  <1>1. /\ checks' = [checks EXCEPT ![c] = row] /\ checks[c] \in Check
        /\ checks[c] # None /\ checks[c].status # "done"
        /\ UNCHANGED <<config, endpoints, cooling, egress, contexts, leases, faulted, faults>>
    BY DEF ClaimCheck, Claimable, admin, TypeOK
  <1>2. row \in Check /\ row.proxy = checks[c].proxy /\ row.status = "running"
    BY <1>1 DEF Check
  <1> HIDE DEF row
  <1>3. /\ checks' \in [Checks -> Check \cup {None}] /\ checks'[c] = row
        /\ \A d \in Checks \ {c} : checks'[d] = checks[d]
    BY <1>1, <1>2 DEF TypeOK
  <1>4. job' = [at |-> "claimed", check |-> c, proxy |-> None]
    BY DEF ClaimCheck
  <1>5. row # None
    BY <1>2, NoneIsNoRow
  <1>6. job' \in Job /\ JobFits'
    BY <1>2, <1>3, <1>4, <1>5 DEF JobFits, Job
  <1>7. \A d \in Checks : checks'[d] # None =>
          /\ checks[d] # None /\ checks'[d].proxy = checks[d].proxy
          /\ checks'[d].status # "done" => checks[d].status # "done"
    BY <1>1, <1>2, <1>3
  <1>8. QED
    BY <1>1, <1>3, <1>6, <1>7, CheckStep DEF TypeOK

LEMMA ReadDetailsInv == EgressInv /\ ReadDetails => EgressInv'
  <1> SUFFICES ASSUME EgressInv, ReadDetails PROVE EgressInv'
    OBVIOUS
  <1> USE DEF EgressInv
  <1> DEFINE p  == checks[job.check].proxy
             at == IF endpoints[p] = "enabled" THEN "probing" ELSE "finishing"
  <1>1. /\ job.at = "claimed" /\ job' = [job EXCEPT !.proxy = p, !.at = at]
        /\ UNCHANGED <<config, endpoints, cooling, egress, contexts, leases, checks, faulted, faults>>
    BY DEF ReadDetails, admin
  <1>2. job # Idle
    BY <1>1 DEF Idle
  <1>3. /\ job.check \in Checks /\ checks[job.check] # None
        /\ checks[job.check].status = "running" /\ p \in Proxies
    BY <1>2 DEF JobFits, TypeOK, Check
  <1>4. at \in {"probing", "finishing"}
    OBVIOUS
  <1> HIDE DEF p, at
  <1>5. job' \in Job /\ job'.check = job.check /\ job'.proxy = p /\ job'.at = at
    BY <1>1, <1>3, <1>4 DEF Job, TypeOK
  <1>6. JobFits'
    BY <1>1, <1>3, <1>4, <1>5 DEF JobFits
  <1>7. QED
    BY <1>1, <1>5, <1>6, JobStep DEF TypeOK

\* A probe and what becomes of it.
LEMMA ProbeInv ==
  ASSUME EgressInv, ProbeSucceeds \/ ProbeRestricted \/ ProbeFails \/ BlameProxy
  PROVE  EgressInv'
  <1> USE DEF EgressInv
  <1>1. /\ UNCHANGED <<config, endpoints, egress, contexts, leases, checks, faults>>
        /\ job.at \in {"probing", "blaming"}
        /\ job' = [job EXCEPT !.at = "finishing"] \/ job' = [job EXCEPT !.at = "blaming"]
        /\ job' = [job EXCEPT !.at = "blaming"] => ProbeFails \/ job.proxy \in faulted
    <2>1. job.at = "blaming" => job.proxy \in faulted
      BY DEF JobFits, Idle
    <2>2. QED
      BY <2>1 DEF ProbeSucceeds, ProbeRestricted, ProbeFails, BlameProxy, admin, Job, TypeOK
  <1>2. job # Idle
    BY <1>1 DEF Idle
  <1>3. /\ job.check \in Checks /\ checks[job.check] # None
        /\ checks[job.check].status = "running" /\ job.proxy \in Proxies
        /\ job.at = "blaming" => job.proxy \in faulted
    BY <1>1, <1>2 DEF JobFits
  <1>4. /\ faulted \subseteq faulted' /\ faulted' \subseteq Proxies
        /\ cooling' \subseteq faulted'
        /\ ProbeFails => job.proxy \in faulted'
    <2>1. CASE ProbeSucceeds
      BY <1>3, <2>1 DEF ProbeSucceeds, RecordHealthy, TypeOK, ProbeFails, Job
    <2>2. CASE ProbeRestricted
      BY <1>3, <2>2 DEF ProbeRestricted, RecordRestriction, TypeOK, ProbeFails, Job
    <2>3. CASE ProbeFails
      BY <1>3, <2>3 DEF ProbeFails, TypeOK
    <2>4. CASE BlameProxy
      BY <1>3, <2>4 DEF BlameProxy, RecordFailed, TypeOK, ProbeFails
    <2>5. QED
      BY <2>1, <2>2, <2>3, <2>4
  <1>5. /\ job' \in Job /\ job'.check = job.check /\ job'.proxy = job.proxy
        /\ job'.at = "blaming" => job.proxy \in faulted'
    BY <1>1, <1>4 DEF Job, TypeOK
  <1>6. JobFits'
    BY <1>1, <1>3, <1>5 DEF JobFits
  <1>7. QED
    BY <1>1, <1>4, <1>5, <1>6, JobStep DEF TypeOK

LEMMA FinishCheckInv == EgressInv /\ FinishCheck => EgressInv'
  <1> SUFFICES ASSUME EgressInv, FinishCheck PROVE EgressInv'
    OBVIOUS
  <1> USE DEF EgressInv
  <1> DEFINE c   == job.check
             row == [checks[c] EXCEPT !.status = "done", !.leased = FALSE]
  <1>1. /\ job.at = "finishing" /\ job' = Idle
        /\ checks' = [checks EXCEPT ![c] = row]
        /\ UNCHANGED <<config, endpoints, cooling, egress, contexts, leases, faulted, faults>>
    BY DEF FinishCheck, admin, TypeOK
  <1>2. c \in Checks /\ checks[c] \in Check /\ checks[c] # None
    <2>1. job # Idle
      BY <1>1 DEF Idle
    <2>2. QED
      BY <2>1 DEF JobFits, TypeOK
  <1>3. row \in Check /\ row.proxy = checks[c].proxy /\ row.status = "done"
    BY <1>2 DEF Check
  <1> HIDE DEF row, c
  <1>4. /\ checks' \in [Checks -> Check \cup {None}] /\ checks'[c] = row
        /\ \A d \in Checks \ {c} : checks'[d] = checks[d]
    BY <1>1, <1>2, <1>3 DEF TypeOK
  <1>5. Idle \in Job /\ JobFits'
    BY <1>1 DEF Idle, Job, JobFits
  <1>6. \A d \in Checks : checks'[d] # None =>
          /\ checks[d] # None /\ checks'[d].proxy = checks[d].proxy
          /\ checks'[d].status # "done" => checks[d].status # "done"
    BY <1>2, <1>3, <1>4
  <1>7. QED
    BY <1>1, <1>4, <1>5, <1>6, CheckStep DEF TypeOK

LEMMA CrashProxyWorkerInv == EgressInv /\ CrashProxyWorker => EgressInv'
  <1> SUFFICES ASSUME EgressInv, CrashProxyWorker PROVE EgressInv'
    OBVIOUS
  <1> USE DEF EgressInv
  <1>1. faults' \in 0 .. MaxFaults
    BY BoundsAreNat DEF CrashProxyWorker, TypeOK
  <1>2. job' \in Job /\ JobFits'
    BY DEF CrashProxyWorker, Idle, Job, JobFits
  <1>3. QED
    BY <1>1, <1>2, JobStep DEF CrashProxyWorker, admin, TypeOK

LEMMA CheckLeaseExpiresInv ==
  ASSUME EgressInv, NEW c \in Checks, CheckLeaseExpires(c) PROVE EgressInv'
  <1> USE DEF EgressInv
  <1> DEFINE row == [checks[c] EXCEPT !.leased = FALSE]
  <1>1. /\ checks' = [checks EXCEPT ![c] = row] /\ checks[c] \in Check /\ checks[c] # None
        /\ job.check # c
        /\ UNCHANGED <<config, endpoints, cooling, egress, contexts, leases, job, faulted, faults>>
    BY DEF CheckLeaseExpires, admin, TypeOK
  <1>2. row \in Check /\ row.proxy = checks[c].proxy /\ row.status = checks[c].status
    BY <1>1 DEF Check
  <1> HIDE DEF row
  <1>3. /\ checks' \in [Checks -> Check \cup {None}] /\ checks'[c] = row
        /\ \A d \in Checks \ {c} : checks'[d] = checks[d]
    BY <1>1, <1>2 DEF TypeOK
  <1>4. JobFits'
    BY <1>1, <1>3 DEF JobFits
  <1>5. \A d \in Checks : checks'[d] # None =>
          /\ checks[d] # None /\ checks'[d].proxy = checks[d].proxy
          /\ checks'[d].status # "done" => checks[d].status # "done"
    BY <1>1, <1>2, <1>3
  <1>6. QED
    BY <1>1, <1>3, <1>4, <1>5, CheckStep DEF TypeOK

-----------------------------------------------------------------------------
(* The invariant and what follows from it.                                 *)

LEMMA StepInv == EgressInv /\ [Next]_vars => EgressInv'
  <1> SUFFICES ASSUME EgressInv, [Next]_vars PROVE EgressInv'
    OBVIOUS
  <1>1. CASE PatchSource \/ ResetTransport
    BY <1>1, PatchSourceInv, ResetTransportInv
  <1>2. CASE ChangeProxies
    BY <1>2, UpdateProxyInv, DeleteProxyInv, CooldownEndsInv DEF ChangeProxies
  <1>3. ASSUME NEW u \in Users, Use(u) PROVE EgressInv'
    BY <1>3, SelectProxyInv, ExhaustInv, SelectDirectInv, RequestsInv, EndsInv DEF Use
  <1>4. ASSUME NEW c \in Checks, NEW p \in Proxies, AskCheck(c, p) PROVE EgressInv'
    BY <1>4, AskCheckInv
  <1>5. CASE WorkOnCheck
    BY <1>5, ClaimCheckInv, ReadDetailsInv, ProbeInv, FinishCheckInv DEF WorkOnCheck
  <1>6. CASE CrashProxyWorker
    BY <1>6, CrashProxyWorkerInv
  <1>7. ASSUME NEW c \in Checks, CheckLeaseExpires(c) PROVE EgressInv'
    BY <1>7, CheckLeaseExpiresInv
  <1>8. CASE UNCHANGED vars
    BY <1>8 DEF vars, admin, EgressInv, TypeOK, ContextsFit, ContextFits, Protected, Exists,
                JobFits, EgressFits
  <1>9. QED
    BY <1>1, <1>2, <1>3, <1>4, <1>5, <1>6, <1>7, <1>8 DEF Next

\* The inductive invariant of the egress.
THEOREM EgressInvariant == Spec => []EgressInv
  BY InitInv, StepInv, PTL DEF Spec

\* Every reachable state is well typed.
THEOREM EgressTypeCorrect == Spec => []TypeOK
  <1>1. EgressInv => TypeOK
    BY DEF EgressInv
  <1>2. QED
    BY <1>1, EgressInvariant, PTL

\* delete_proxy never takes a proxy away from a context or from a check.
THEOREM UsedProxiesStay == Spec => []UsedProxyExists
  <1>1. EgressInv => UsedProxyExists
    BY DEF EgressInv, UsedProxyExists, ContextsFit, ContextFits, Protected, JobFits, Requests
  <1>2. QED
    BY <1>1, EgressInvariant, PTL

\* _select_transport opens a direct context only where the configuration says so.
THEOREM DirectOnlyWhenAllowed == Spec => []DirectOnlyIfAllowed
  <1>1. EgressInv => DirectOnlyIfAllowed
    BY DEF EgressInv, DirectOnlyIfAllowed, ContextsFit, ContextFits
  <1>2. QED
    BY <1>1, EgressInvariant, PTL

-----------------------------------------------------------------------------
(* How the egress moves.                                                   *)

\* The positions of an egress that fits: none, a place in the order, or the end.
LEMMA PositionOf ==
  ASSUME EgressInv, NEW e \in Egress, e.proxy # None => e.proxy \in Range(config.ids)
  PROVE  /\ e.paused \/ e.direct => Position(e) = Len(config.ids) + 1
         /\ ~e.paused /\ ~e.direct /\ e.proxy = None => Position(e) = 0
         /\ ~e.paused /\ ~e.direct /\ e.proxy # None =>
              Position(e) = Place(e.proxy) /\ Place(e.proxy) \in 1 .. Len(config.ids)
         /\ Len(config.ids) \in Nat /\ Position(e) \in Nat
  <1>1. config.ids \in Seq(Proxies)
    BY OrderType DEF EgressInv
  <1>2. e.proxy # None => Place(e.proxy) \in DOMAIN config.ids
    BY DEF Range, Place
  <1>3. ~e.paused /\ ~e.direct /\ e.proxy # None => Position(e) = Place(e.proxy)
    BY Zenon DEF Position, Place
  <1>4. QED
    BY <1>1, <1>2, <1>3 DEF Position

\* Within a version a selection only moves on, and only from a proxy that
\* cannot be used.
LEMMA SelectionMoves ==
  ASSUME EgressInv, Stays, NEW u \in Users, SelectProxy(u) \/ Exhaust(u) \/ SelectDirect(u)
  PROVE  /\ Position(egress') >= Position(egress)
         /\ egress.proxy # None /\ egress'.proxy # egress.proxy => ~Usable(egress.proxy)
  <1> DEFINE order == Candidates(egress)
  <1>1. /\ Current = egress /\ egress \in Egress
        /\ egress.proxy # None => egress.proxy \in Range(config.ids)
    BY DEF Stays, Current, EgressInv, TypeOK, EgressFits
  <1>2. /\ \A i \in DOMAIN order : order[i] \in Range(config.ids)
        /\ order \in Seq(Proxies)
        /\ egress.proxy # None =>
             /\ 1 \in DOMAIN order /\ order[1] = egress.proxy
             /\ \A i \in DOMAIN order : Place(order[i]) >= Place(egress.proxy)
    BY <1>1, CandidatesFollow DEF EgressInv
  <1> HIDE DEF order
  <1>3. ASSUME SelectProxy(u)
        PROVE  /\ Position(egress') >= Position(egress)
               /\ egress.proxy # None /\ egress'.proxy # egress.proxy => ~Usable(egress.proxy)
    <2>1. PICK i \in DOMAIN order : /\ \A j \in 1 .. (i - 1) : ~Usable(order[j])
                                    /\ egress' = [egress EXCEPT !.proxy = order[i]]
      BY <1>1, <1>3 DEF SelectProxy, order
    <2>2. order[i] \in Proxies /\ order[i] # None /\ i \in Nat /\ i >= 1
      BY <1>2, NoneIsNoRow
    <2>3. /\ egress' \in Egress /\ egress'.proxy = order[i]
          /\ egress'.paused = egress.paused /\ egress'.direct = egress.direct
      BY <1>1, <2>1, <2>2 DEF Egress
    <2>4. ~egress.paused /\ ~egress.direct
      BY <1>1, <1>3 DEF SelectProxy
    <2>5. Position(egress') = Place(order[i]) /\ Place(order[i]) \in 1 .. Len(config.ids)
      BY <1>2, <2>2, <2>3, <2>4, PositionOf
    <2>6. egress.proxy # None => Position(egress) = Place(egress.proxy)
      BY <1>1, <2>4, PositionOf
    <2>7. egress.proxy = None => Position(egress) = 0
      BY <1>1, <2>4, PositionOf
    <2>8. Position(egress') >= Position(egress)
      BY <1>2, <2>5, <2>6, <2>7
    <2>9. egress.proxy # None /\ egress'.proxy # egress.proxy => ~Usable(egress.proxy)
      BY <1>2, <2>1, <2>2, <2>3
    <2>10. QED
      BY <2>8, <2>9
  <1>4. ASSUME Exhaust(u) PROVE /\ Position(egress') >= Position(egress)
                                /\ egress.proxy # None => ~Usable(egress.proxy)
    <2>1. egress' = [egress EXCEPT !.proxy = None, !.paused = config.exhausted = "pause",
                                   !.direct = config.exhausted # "pause"]
      BY <1>1, <1>4 DEF Exhaust
    <2>2. /\ egress' \in Egress /\ egress'.proxy = None
          /\ egress'.paused \/ egress'.direct
      BY <1>1, <2>1 DEF Egress
    <2>3. Position(egress') = Len(config.ids) + 1 /\ Len(config.ids) \in Nat
      BY <2>2, PositionOf
    <2>4. ~egress.paused /\ ~egress.direct
      BY <1>1, <1>4 DEF Exhaust
    <2>5. Position(egress) \in Nat /\ Position(egress) <= Len(config.ids)
      BY <1>1, <2>3, <2>4, PositionOf
    <2>6. egress.proxy # None => ~Usable(egress.proxy)
      BY <1>1, <1>2, <1>4 DEF Exhaust, order
    <2>7. QED
      BY <2>3, <2>5, <2>6
  <1>5. ASSUME SelectDirect(u) PROVE /\ Position(egress') >= Position(egress)
                                     /\ egress.proxy # None => egress'.proxy = egress.proxy
    <2>1. egress' = egress
      <3>1. CASE config.ids = <<>>
        <4>1. egress.proxy = None
          BY <1>1, <3>1 DEF Range
        <4>2. egress' = [egress EXCEPT !.proxy = None]
          BY <1>1, <1>5, <3>1 DEF SelectDirect
        <4>3. QED
          BY <1>1, <4>1, <4>2 DEF Egress
      <3>2. CASE config.ids # <<>>
        BY <1>1, <1>5, <3>2 DEF SelectDirect
      <3>3. QED
        BY <3>1, <3>2
    <2>2. Position(egress) \in Nat
      BY <1>1, PositionOf
    <2>3. QED
      BY <2>1, <2>2
  <1>6. QED
    BY <1>3, <1>4, <1>5

\* Every other step leaves the egress alone or removes its row.
LEMMA OthersKeepEgress ==
  ASSUME [Next]_vars
  PROVE  \/ egress' = egress \/ egress' = None
         \/ \E u \in Users : SelectProxy(u) \/ Exhaust(u) \/ SelectDirect(u)
  <1>1. CASE ChangeProxies
    BY <1>1 DEF ChangeProxies, UpdateProxy, DeleteProxy, CooldownEnds
  <1>2. ASSUME NEW u \in Users, Use(u)
        PROVE  egress' = egress \/ SelectProxy(u) \/ Exhaust(u) \/ SelectDirect(u)
    BY <1>2 DEF Use, Succeed, RecordSuccess, FailToConnect, RecordFailure, CloseContext,
                CrashUser, HeartbeatFails, LeaseExpires
  <1>3. CASE WorkOnCheck
    BY <1>3 DEF WorkOnCheck, ClaimCheck, ReadDetails, ProbeSucceeds, ProbeRestricted,
                ProbeFails, BlameProxy, FinishCheck
  <1>4. CASE PatchSource \/ ResetTransport \/ CrashProxyWorker
    BY <1>4 DEF PatchSource, ResetTransport, CrashProxyWorker
  <1>5. CASE UNCHANGED vars
    BY <1>5 DEF vars
  <1>6. ASSUME NEW c \in Checks, CheckLeaseExpires(c) PROVE egress' = egress
    BY <1>6 DEF CheckLeaseExpires
  <1>7. ASSUME NEW c \in Checks, NEW p \in Proxies, AskCheck(c, p) PROVE egress' = egress
    BY <1>7 DEF AskCheck
  <1>8. QED
    BY <1>1, <1>2, <1>3, <1>4, <1>5, <1>6, <1>7 DEF Next

\* Until an administrator steps in, the egress only moves forward in the order.
THEOREM EgressMovesForward == Spec => ForwardOnly
  <1>1. EgressInv /\ [Next]_vars => (Stays => Position(egress') >= Position(egress))
    <2> SUFFICES ASSUME EgressInv, [Next]_vars, Stays
                 PROVE  Position(egress') >= Position(egress)
      OBVIOUS
    <2>1. CASE egress' = egress
      <3>1. /\ egress \in Egress
            /\ egress.proxy # None => egress.proxy \in Range(config.ids)
        BY DEF Stays, EgressInv, TypeOK, EgressFits
      <3>2. Position(egress) \in Nat
        BY <3>1, PositionOf
      <3>3. QED
        BY <2>1, <3>2
    <2>2. CASE egress' # egress
      BY <2>2, OthersKeepEgress, SelectionMoves DEF Stays
    <2>3. QED
      BY <2>1, <2>2
  <1>2. QED
    BY <1>1, EgressInvariant, PTL DEF Spec, ForwardOnly

\* The egress leaves a proxy only after a failed connection over it, or when it
\* is no longer enabled.
THEOREM EgressRotatesForCause == Spec => RotatedForCause
  <1>1. EgressInv /\ [Next]_vars =>
          (Stays /\ egress.proxy # None /\ egress'.proxy # egress.proxy
             => egress.proxy \in faulted \/ endpoints[egress.proxy] # "enabled")
    <2> SUFFICES ASSUME EgressInv, [Next]_vars, Stays, egress.proxy # None,
                        egress'.proxy # egress.proxy
                 PROVE  egress.proxy \in faulted \/ endpoints[egress.proxy] # "enabled"
      OBVIOUS
    <2>1. PICK u \in Users : SelectProxy(u) \/ Exhaust(u) \/ SelectDirect(u)
      BY OthersKeepEgress DEF Stays
    <2>2. ~Usable(egress.proxy)
      BY <2>1, SelectionMoves
    <2>3. QED
      BY <2>2 DEF Usable, EgressInv
  <1>2. QED
    BY <1>1, EgressInvariant, PTL DEF Spec, RotatedForCause

=============================================================================
