----------------------------- MODULE ProxyEgress -----------------------------
(***************************************************************************)
(* The egress of one source: which proxy its requests leave by, what the   *)
(* requests tell about the proxies, and the checks an administrator asks   *)
(* for.                                                                    *)
(*                                                                         *)
(* A process of the source opens a context in one transaction that holds   *)
(* the row of the source, and then uses it for minutes, several requests   *)
(* at a time, while the administrator changes the source and the proxies.  *)
(* The lease of the context, renewed every 30 s for 120 s, is all that     *)
(* keeps its proxy from being deleted.  It is taken to run out only if its *)
(* process died or noticed that it cannot renew it.                        *)
(***************************************************************************)
EXTENDS Naturals, Sequences, FiniteSets, SequencesExt

CONSTANTS
  Proxies,     \* rows of proxy_endpoints, by id
  Lists,       \* the values of proxy_ids an administrator gives a source
  Users,       \* processes that open contexts of the source
  Checks,      \* rows of proxy_checks, by id
  None,        \* no proxy, no row, no check
  MaxVersion,  \* bound: config_version
  MaxFaults    \* bound: crashes and heartbeats that fail

ASSUME ListsAreOrders ==
  Lists \subseteq {l \in SeqOf(Proxies, Cardinality(Proxies)) : IsInjective(l)}
ASSUME BoundsAreNat == MaxVersion \in Nat \ {0} /\ MaxFaults \in Nat

VARIABLES
  config,     \* permission_config and config_version of the source
  endpoints,  \* proxy_endpoints
  cooling,    \* proxies whose proxy_source_health of this source has a cooldown
  egress,     \* the row of source_egress_states, or None
  contexts,   \* request_context of each process, or None
  leases,     \* proxy_leases, by the process that took them
  checks,     \* proxy_checks
  job,        \* the proxy worker's check
  faulted,    \* history: proxies a connection over which failed
  faults      \* faults so far

admin == <<config, endpoints>>
vars == <<admin, cooling, egress, contexts, leases, checks, job, faulted, faults>>

Config  == [ids: Lists, failover: BOOLEAN, exhausted: {"pause", "direct"},
            version: 1 .. MaxVersion]
Egress  == [proxy: Proxies \cup {None}, version: 1 .. MaxVersion,
            direct: BOOLEAN, paused: BOOLEAN]
Context == [proxy: Proxies \cup {None}, allowed: BOOLEAN, failed: BOOLEAN,
            recorded: BOOLEAN, blaming: BOOLEAN, recovering: BOOLEAN,
            lost: BOOLEAN]
Check   == [proxy: Proxies, status: {"pending", "running", "done"}, leased: BOOLEAN]
Job     == [at: {"idle", "claimed", "probing", "blaming", "finishing"},
            check: Checks \cup {None}, proxy: Proxies \cup {None}]

ASSUME NoneIsNoRow == None \notin Proxies /\ None \notin Check

TypeOK ==
  /\ config \in Config
  /\ endpoints \in [Proxies -> {"enabled", "disabled", "deleted"}]
  /\ cooling \in SUBSET Proxies
  /\ egress \in Egress \cup {None}
  /\ contexts \in [Users -> Context \cup {None}]
  /\ leases \in [Users -> Proxies \cup {None}]
  /\ checks \in [Checks -> Check \cup {None}]
  /\ job \in Job
  /\ faulted \in SUBSET Proxies
  /\ faults \in 0 .. MaxFaults

Idle == [at |-> "idle", check |-> None, proxy |-> None]

Init ==
  /\ config \in {c \in Config : c.version = 1}
  /\ endpoints = [p \in Proxies |-> "enabled"]
  /\ cooling = {}
  /\ egress = None
  /\ contexts = [u \in Users |-> None]
  /\ leases = [u \in Users |-> None]
  /\ checks = [c \in Checks |-> None]
  /\ job = Idle
  /\ faulted = {}
  /\ faults = 0

Exists(p) == endpoints[p] \in {"enabled", "disabled"}

(***************************************************************************)
(* The administrator                                                       *)
(***************************************************************************)

\* patch_source: every accepted change is a new version.
PatchSource ==
  /\ config.version < MaxVersion
  /\ \E ids \in Lists, failover \in BOOLEAN, exhausted \in {"pause", "direct"} :
       /\ \A p \in Range(ids) : Exists(p)
       /\ config' = [ids |-> ids, failover |-> failover, exhausted |-> exhausted,
                     version |-> config.version + 1]
  /\ UNCHANGED <<endpoints, cooling, egress, contexts, leases, checks, job, faulted, faults>>

\* update_proxy: other values, and what was known of its health is void.
UpdateProxy(p) ==
  /\ Exists(p)
  /\ \E s \in {"enabled", "disabled"} : endpoints' = [endpoints EXCEPT ![p] = s]
  /\ cooling' = cooling \ {p}
  /\ UNCHANGED <<config, egress, contexts, leases, checks, job, faulted, faults>>

Checking(p) == \E c \in Checks :
  checks[c] # None /\ checks[c].proxy = p /\ checks[c].status # "done"

\* Mutant of InUse: the leases of the contexts are forgotten.
ReferencedOrChecked(p) == p \in Range(config.ids) \/ Checking(p)

\* referenced, active and checking of delete_proxy.
InUse(p) == p \in Range(config.ids) \/ p \in Range(leases) \/ Checking(p)

\* delete_proxy: with it go its cooling, its checks and an egress state on it.
DeleteProxy(p) ==
  /\ Exists(p) /\ ~InUse(p)
  /\ endpoints' = [endpoints EXCEPT ![p] = "deleted"]
  /\ cooling' = cooling \ {p}
  /\ egress' = IF egress # None /\ egress.proxy = p THEN None ELSE egress
  /\ checks' = [c \in Checks |->
       IF checks[c] # None /\ checks[c].proxy = p THEN None ELSE checks[c]]
  /\ UNCHANGED <<config, contexts, leases, job, faulted, faults>>

\* reset_source_transport: a restart command puts the source on its first egress.
ResetTransport ==
  /\ egress # None
  /\ egress' = None
  /\ UNCHANGED <<admin, cooling, contexts, leases, checks, job, faulted, faults>>

(***************************************************************************)
(* _select_transport                                                       *)
(***************************************************************************)
NewEgress == [proxy |-> None, version |-> config.version, direct |-> FALSE, paused |-> FALSE]

\* The state a selection starts from: nothing is kept of another version.
Current ==
  IF egress = None \/ egress.version # config.version THEN NewEgress ELSE egress

First(seq) == IF seq = <<>> THEN seq ELSE <<Head(seq)>>

\* Mutant of Candidates: every selection starts with the first proxy.
CandidatesFromFirst(current) ==
  IF config.failover THEN config.ids ELSE First(config.ids)

\* The proxies to try: from the current one on, and only that without failover.
Candidates(current) ==
  LET rest == IF current.proxy \in Range(config.ids)
                THEN SubSeq(config.ids, CHOOSE i \in DOMAIN config.ids :
                              config.ids[i] = current.proxy, Len(config.ids))
              ELSE config.ids
  IN IF config.failover THEN rest ELSE First(rest)

Usable(p) == endpoints[p] = "enabled" /\ p \notin cooling

Opened(proxy) ==
  [proxy |-> proxy, allowed |-> config.ids = <<>> \/ config.exhausted = "direct",
   failed |-> FALSE, recorded |-> FALSE, blaming |-> FALSE,
   recovering |-> FALSE, lost |-> FALSE]

\* A context over the first usable candidate, with its lease.
SelectProxy(u) ==
  LET order == Candidates(Current)
  IN /\ contexts[u] = None /\ leases[u] = None
     /\ ~Current.paused /\ ~Current.direct
     /\ \E i \in DOMAIN order :
          /\ Usable(order[i]) /\ \A j \in 1 .. (i - 1) : ~Usable(order[j])
          /\ egress' = [Current EXCEPT !.proxy = order[i]]
          /\ contexts' = [contexts EXCEPT ![u] = Opened(order[i])]
          /\ leases' = [leases EXCEPT ![u] = order[i]]
     /\ UNCHANGED <<admin, cooling, checks, job, faulted, faults>>

\* The proxies are exhausted: the source is paused or falls back to direct.
Exhaust(u) ==
  /\ contexts[u] = None
  /\ ~Current.paused /\ ~Current.direct /\ config.ids # <<>>
  /\ \A i \in DOMAIN Candidates(Current) : ~Usable(Candidates(Current)[i])
  /\ egress' = [Current EXCEPT !.proxy = None,
                  !.paused = config.exhausted = "pause",
                  !.direct = config.exhausted # "pause"]
  /\ contexts' = IF config.exhausted = "pause" THEN contexts
                 ELSE [contexts EXCEPT ![u] = Opened(None)]
  /\ UNCHANGED <<admin, cooling, leases, checks, job, faulted, faults>>

\* No proxies, or fallen back before: a direct context.
SelectDirect(u) ==
  /\ contexts[u] = None
  /\ ~Current.paused /\ (config.ids = <<>> \/ Current.direct)
  /\ egress' = IF config.ids = <<>> THEN [Current EXCEPT !.proxy = None] ELSE Current
  /\ contexts' = [contexts EXCEPT ![u] = Opened(None)]
  /\ UNCHANGED <<admin, cooling, leases, checks, job, faulted, faults>>

(***************************************************************************)
(* source_transport: a context and its requests.  Over a direct egress     *)
(* they tell nothing about a proxy.                                        *)
(***************************************************************************)

\* current_transport gives the context of a request.
Requests(u) == contexts[u] # None /\ ~contexts[u].lost

\* A 2xx answer, which note_response judges before it waits for its turn;
\* once one is recorded, later ones of the context record nothing.
Succeed(u) ==
  /\ Requests(u) /\ contexts[u].proxy # None
  /\ ~contexts[u].failed /\ ~contexts[u].recovering /\ ~contexts[u].recorded
  /\ contexts' = [contexts EXCEPT ![u].recovering = TRUE]
  /\ UNCHANGED <<admin, cooling, egress, leases, checks, job, faulted, faults>>

\* _record_health: consecutive_failures only make the cooldown longer, the
\* status is only shown, and of a deleted proxy the row cannot be written.
RecordHealthy(p) == cooling' = cooling \ {p}
RecordFailed(p)  == cooling' = IF Exists(p) THEN cooling \cup {p} ELSE cooling

\* The answer clears the cooldown of the proxy.
RecordSuccess(u) ==
  /\ contexts[u] # None /\ contexts[u].recovering
  /\ contexts' = [contexts EXCEPT ![u].recovering = FALSE, ![u].recorded = TRUE]
  /\ RecordHealthy(contexts[u].proxy)
  /\ UNCHANGED <<admin, egress, leases, checks, job, faulted, faults>>

\* A request of the context does not connect: note_transport_failure.
FailToConnect(u) ==
  /\ Requests(u) /\ contexts[u].proxy # None /\ ~contexts[u].failed
  /\ contexts' = [contexts EXCEPT ![u].failed = TRUE, ![u].blaming = TRUE]
  /\ faulted' = faulted \cup {contexts[u].proxy}
  /\ UNCHANGED <<admin, cooling, egress, leases, checks, job, faults>>

RecordFailure(u) ==
  /\ contexts[u] # None /\ contexts[u].blaming
  /\ contexts' = [contexts EXCEPT ![u].blaming = FALSE]
  /\ RecordFailed(contexts[u].proxy)
  /\ UNCHANGED <<admin, egress, leases, checks, job, faulted, faults>>

CooldownEnds(p) ==
  /\ p \in cooling
  /\ cooling' = cooling \ {p}
  /\ UNCHANGED <<admin, egress, contexts, leases, checks, job, faulted, faults>>

\* The context ends and its lease is released.
CloseContext(u) ==
  /\ contexts[u] # None /\ ~contexts[u].recovering /\ ~contexts[u].blaming
  /\ contexts' = [contexts EXCEPT ![u] = None]
  /\ leases' = [leases EXCEPT ![u] = None]
  /\ UNCHANGED <<admin, cooling, egress, checks, job, faulted, faults>>

\* The process dies.
CrashUser(u) ==
  /\ contexts[u] # None /\ faults < MaxFaults
  /\ contexts' = [contexts EXCEPT ![u] = None]
  /\ faults' = faults + 1
  /\ UNCHANGED <<admin, cooling, egress, leases, checks, job, faulted>>

\* The heartbeat fails, and the context takes no more requests.
HeartbeatFails(u) ==
  /\ Requests(u) /\ leases[u] # None /\ faults < MaxFaults
  /\ contexts' = [contexts EXCEPT ![u].lost = TRUE]
  /\ faults' = faults + 1
  /\ UNCHANGED <<admin, cooling, egress, leases, checks, job, faulted>>

\* A lease nobody renews runs out.
LeaseExpires(u) ==
  /\ leases[u] # None /\ ~Requests(u)
  /\ leases' = [leases EXCEPT ![u] = None]
  /\ UNCHANGED <<admin, cooling, egress, contexts, checks, job, faulted, faults>>

(***************************************************************************)
(* Checks of a proxy                                                       *)
(***************************************************************************)

\* check_proxy: the same key gives the same check.
AskCheck(c, p) ==
  /\ checks[c] = None /\ Exists(p)
  /\ checks' = [checks EXCEPT ![c] = [proxy |-> p, status |-> "pending", leased |-> FALSE]]
  /\ UNCHANGED <<admin, cooling, egress, contexts, leases, job, faulted, faults>>

\* Mutant of Claimable: a check whose worker died is nobody's any more.
ClaimablePending(c) == checks[c] # None /\ checks[c].status = "pending"

Claimable(c) ==
  /\ checks[c] # None
  /\ \/ checks[c].status = "pending"
     \/ checks[c].status = "running" /\ ~checks[c].leased

\* _claim_check
ClaimCheck(c) ==
  /\ job = Idle /\ Claimable(c)
  /\ checks' = [checks EXCEPT ![c].status = "running", ![c].leased = TRUE]
  /\ job' = [at |-> "claimed", check |-> c, proxy |-> None]
  /\ UNCHANGED <<admin, cooling, egress, contexts, leases, faulted, faults>>

\* _check_details: a disabled proxy is not probed.
ReadDetails ==
  /\ job.at = "claimed"
  /\ LET p == checks[job.check].proxy
     IN job' = [job EXCEPT !.proxy = p,
                  !.at = IF endpoints[p] = "enabled" THEN "probing" ELSE "finishing"]
  /\ UNCHANGED <<admin, cooling, egress, contexts, leases, checks, faulted, faults>>

\* A 2xx answer: the record of note_response.
ProbeSucceeds ==
  /\ job.at = "probing"
  /\ job' = [job EXCEPT !.at = "finishing"]
  /\ RecordHealthy(job.proxy)
  /\ UNCHANGED <<admin, egress, contexts, leases, checks, faulted, faults>>

\* _record_check_restriction: no reason to leave the proxy.
RecordRestriction(p) == UNCHANGED cooling

\* Another answer than 2xx, or none in time.
ProbeRestricted ==
  /\ job.at = "probing"
  /\ job' = [job EXCEPT !.at = "finishing"]
  /\ RecordRestriction(job.proxy)
  /\ UNCHANGED <<admin, egress, contexts, leases, checks, faulted, faults>>

ProbeFails ==
  /\ job.at = "probing"
  /\ job' = [job EXCEPT !.at = "blaming"]
  /\ faulted' = faulted \cup {job.proxy}
  /\ UNCHANGED <<admin, cooling, egress, contexts, leases, checks, faults>>

BlameProxy ==
  /\ job.at = "blaming"
  /\ job' = [job EXCEPT !.at = "finishing"]
  /\ RecordFailed(job.proxy)
  /\ UNCHANGED <<admin, egress, contexts, leases, checks, faulted, faults>>

\* _finish_check
FinishCheck ==
  /\ job.at = "finishing"
  /\ checks' = [checks EXCEPT ![job.check].status = "done", ![job.check].leased = FALSE]
  /\ job' = Idle
  /\ UNCHANGED <<admin, cooling, egress, contexts, leases, faulted, faults>>

\* The proxy worker dies; the one that replaces it starts idle.
CrashProxyWorker ==
  /\ job # Idle /\ faults < MaxFaults
  /\ job' = Idle
  /\ faults' = faults + 1
  /\ UNCHANGED <<admin, cooling, egress, contexts, leases, checks, faulted>>

\* The four minutes of a check are over; they are taken to suffice its worker.
CheckLeaseExpires(c) ==
  /\ checks[c] # None /\ checks[c].leased /\ job.check # c
  /\ checks' = [checks EXCEPT ![c].leased = FALSE]
  /\ UNCHANGED <<admin, cooling, egress, contexts, leases, job, faulted, faults>>

(***************************************************************************)
(* The specification                                                       *)
(***************************************************************************)
ChangeProxies ==
  \E p \in Proxies : UpdateProxy(p) \/ DeleteProxy(p) \/ CooldownEnds(p)

Use(u) ==
  \/ SelectProxy(u) \/ Exhaust(u) \/ SelectDirect(u)
  \/ Succeed(u) \/ RecordSuccess(u) \/ FailToConnect(u) \/ RecordFailure(u)
  \/ CloseContext(u) \/ CrashUser(u) \/ HeartbeatFails(u) \/ LeaseExpires(u)

WorkOnCheck ==
  \/ \E c \in Checks : ClaimCheck(c)
  \/ ReadDetails \/ ProbeSucceeds \/ ProbeRestricted \/ ProbeFails
  \/ BlameProxy \/ FinishCheck

Next ==
  \/ PatchSource \/ ChangeProxies \/ ResetTransport
  \/ \E u \in Users : Use(u)
  \/ \E c \in Checks, p \in Proxies : AskCheck(c, p)
  \/ WorkOnCheck \/ CrashProxyWorker
  \/ \E c \in Checks : CheckLeaseExpires(c)

Spec == Init /\ [][Next]_vars

\* The proxy worker is restarted and goes on, and leases run out.
FairSpec ==
  /\ Spec
  /\ WF_vars(WorkOnCheck)
  /\ \A c \in Checks : WF_vars(CheckLeaseExpires(c))

(***************************************************************************)
(* Properties                                                              *)
(***************************************************************************)

\* A proxy that requests go over, or that is being checked, is not deleted:
\* the lease, the configuration and the check protect it in turn.
UsedProxyExists ==
  /\ \A u \in Users : Requests(u) /\ contexts[u].proxy # None => Exists(contexts[u].proxy)
  /\ job # Idle => checks[job.check] # None /\ Exists(checks[job.check].proxy)

\* A source that is to pause when its proxies are exhausted is never contacted
\* directly, whatever the configurations before it had fallen back to.
DirectOnlyIfAllowed ==
  \A u \in Users : contexts[u] # None /\ contexts[u].proxy = None => contexts[u].allowed

Position(e) ==
  IF e.paused \/ e.direct THEN Len(config.ids) + 1
  ELSE IF e.proxy = None THEN 0
  ELSE CHOOSE i \in DOMAIN config.ids : config.ids[i] = e.proxy

Stays == egress # None /\ egress' # None /\ config.version = egress.version
           /\ egress'.version = egress.version

\* Within a version of the configuration the egress only moves forward through
\* the order of the proxies, and exhaustion is final; only an administrator
\* puts the source back.
ForwardOnly == [][Stays => Position(egress') >= Position(egress)]_vars

\* The egress leaves a proxy only if a connection over it had failed or the
\* administrator disabled it: no answer of the site rotates the egress.
RotatedForCause ==
  [][Stays /\ egress.proxy # None /\ egress'.proxy # egress.proxy
       => egress.proxy \in faulted \/ endpoints[egress.proxy] # "enabled"]_vars

\* A check that was asked for is answered, or its proxy is gone.
ChecksSettle ==
  \A c \in Checks : checks[c] # None ~> checks[c] = None \/ checks[c].status = "done"
=============================================================================
