---------------------------- MODULE SourceLedger ----------------------------
(***************************************************************************)
(* The work ledger of one news source and the processes that share it.     *)
(*                                                                         *)
(* PostgreSQL rows: the source runtime (rt), the crawl runs (run), their   *)
(* page tasks (task) and the control commands (cmd).  Processes: source    *)
(* executors, each supervising at most one page worker, and page workers,  *)
(* which outlive a crashed executor.  The API, the scheduler and the login *)
(* session worker write the same rows.                                     *)
(*                                                                         *)
(* Every handler locks the Source row first (runtime_row), so one database *)
(* transaction is one step; the command transaction, which applies several *)
(* commands, is one step per command under srcLock.                        *)
(***************************************************************************)
EXTENDS Naturals, FiniteSets, Sequences

CONSTANTS
  Runs,          \* identities a crawl run can be given
  Executors,     \* source executor processes
  Workers,       \* page worker process slots
  None,          \* no process, no run, no type
  MaxRestarts,   \* restarts allowed in the window (3 in restart_budget)
  MaxTries,      \* failed attempts of a task before it fails (4 in failed)
  RealtimePages, \* max_pages of a realtime run
  BatchPages,    \* max_pages of a backfill batch
  Disturbances,  \* the faults and outside writers of this instance
  MaxGen,        \* bound: source generations
  MaxPage,       \* bound: pages of a run
  MaxCommands,   \* bound: control commands
  MaxFaults      \* bound: disturbances in one behaviour

ASSUME BoundsAssumption ==
  /\ MaxRestarts \in Nat /\ MaxTries \in Nat \ {0}
  /\ RealtimePages \in Nat \ {0} /\ BatchPages \in Nat \ {0}
  /\ MaxGen \in Nat /\ MaxPage \in Nat \ {0}
  /\ MaxCommands \in Nat /\ MaxFaults \in Nat

Pages    == 0 .. (MaxPage - 1)
Commands == 1 .. MaxCommands
Lanes    == {"realtime", "backfill"}
Leases   == {"none", "live", "expired"}

Active     == {"queued", "running", "paused", "waiting_login", "interrupted"}
Settled    == {"succeeded", "cancelled"}
RunStatus  == Active \cup Settled \cup {"absent", "partial_failed"}
TaskStatus == Settled \cup
  {"absent", "pending", "queued", "running", "retry_wait", "failed"}
Startable  == {"pending", "queued", "retry_wait"}
Recovery   == {"resume", "retry", "restart"}
Actions    == Recovery \cup {"pause", "cancel", "run"}

ASSUME NoneAssumption ==
  None \notin Runs \cup Executors \cup Workers \cup Lanes \cup Actions

VARIABLES
  rt,       \* SourceRuntime row
  enabled,  \* Source.enabled and Collector.enabled
  run,      \* CrawlRun rows
  task,     \* CrawlTask rows, by run and page number (business_key page:n)
  cmd,      \* ControlCommand rows in creation order
  log,      \* per run, the source generations that committed its pages
  srcLock,  \* executor whose command transaction holds the Source row
  todo,     \* commands that transaction has still to apply
  ex,       \* executor processes
  exLock,   \* holder of the executor advisory lock
  wk,       \* worker processes
  wkLock,   \* holder of the worker advisory lock
  faults    \* disturbances so far

rows == <<rt, enabled, run, task, cmd, log>>
tx   == <<srcLock, todo>>
vars == <<rows, tx, ex, exLock, wk, wkLock, faults>>

NoTask   == [status |-> "absent", gen |-> 0, tries |-> 0, lease |-> "none", due |-> TRUE]
NewTask  == [NoTask EXCEPT !.status = "pending"]
NoRun    == [status |-> "absent", type |-> None, gen |-> 0, page |-> 0, base |-> 0]
NoBase   == [r \in Runs |-> 0]
NoCmd    == [status |-> "none", action |-> None, run |-> None, page |-> 0,
             over |-> {}, base |-> NoBase, at |-> 0]
NoWorker == [pc |-> "none", run |-> None, srcGen |-> 0, runGen |-> 0,
             page |-> 0, taskGen |-> 0, beat |-> FALSE, ok |-> FALSE]
Idle     == [pc |-> "off", w |-> None, run |-> None, srcGen |-> 0, runGen |-> 0, ok |-> FALSE]

ExecutorPc == {"off", "waiting", "boot", "top", "check", "budget", "claim", "spawn",
               "supervise", "inspect", "reap", "record", "after"}
WorkerPc   == {"none", "spawned", "started", "fetching", "closing", "dead"}

Runtime == [status: {"idle", "running", "paused", "waiting_login"}, gen: Nat,
            owner: Executors \cup {None}, lease: Leases, fresh: Nat,
            pending: BOOLEAN, backoff: BOOLEAN, lastType: Lanes \cup {None}]
RunRow  == [status: RunStatus, type: Lanes \cup {None}, gen: Nat, page: Nat, base: Nat]
TaskRow == [status: TaskStatus, gen: Nat, tries: Nat, lease: Leases, due: BOOLEAN]
Command == [status: {"none", "pending", "running", "succeeded", "failed"},
            action: Actions \cup {None}, run: Runs \cup {None}, page: Pages,
            over: SUBSET Runs, base: [Runs -> Nat], at: Nat]
Executor == [pc: ExecutorPc, w: Workers \cup {None}, run: Runs \cup {None},
             srcGen: Nat, runGen: Nat, ok: BOOLEAN]
Worker  == [pc: WorkerPc, run: Runs \cup {None}, srcGen: Nat, runGen: Nat,
            page: Pages, taskGen: Nat, beat: BOOLEAN, ok: BOOLEAN]

TypeOK ==
  /\ rt \in Runtime
  /\ enabled \in BOOLEAN
  /\ run \in [Runs -> RunRow]
  /\ task \in [Runs -> [Pages -> TaskRow]]
  /\ cmd \in [Commands -> Command]
  /\ log \in [Runs -> Seq(Nat)]
  /\ srcLock \in Executors \cup {None}
  /\ todo \in SUBSET Commands
  /\ ex \in [Executors -> Executor]
  /\ exLock \in Executors \cup {None}
  /\ wk \in [Workers -> Worker]
  /\ wkLock \in Workers \cup {None}
  /\ faults \in Nat

Init ==
  /\ rt = [status |-> "idle", gen |-> 0, owner |-> None, lease |-> "none", fresh |-> 0,
           pending |-> FALSE, backoff |-> FALSE, lastType |-> None]
  /\ enabled = TRUE
  /\ run = [r \in Runs |-> NoRun]
  /\ task = [r \in Runs |-> [p \in Pages |-> NoTask]]
  /\ cmd = [c \in Commands |-> NoCmd]
  /\ log = [r \in Runs |-> <<>>]
  /\ srcLock = None /\ todo = {}
  /\ ex = [x \in Executors |-> Idle] /\ exLock = None
  /\ wk = [w \in Workers |-> NoWorker] /\ wkLock = None
  /\ faults = 0

-----------------------------------------------------------------------------
(* Shared predicates and row updates.                                      *)

Ready == srcLock = None

\* A disturbance this instance allows, charged against its budget.
Disturb(kind) ==
  /\ kind \in Disturbances
  /\ faults < MaxFaults
  /\ faults' = faults + 1

ActiveRuns == {r \in Runs : run[r].status \in Active}
AbsentRuns == {r \in Runs : run[r].status = "absent"}
LaneFree(r, lane) == ~\E q \in ActiveRuns \ {r} : run[q].type = lane

Unapplied == {c \in Commands : cmd[c].status \in {"pending", "running"}}

\* Run identities kept back so that a pending restart can always create its run.
Spare == Cardinality(AbsentRuns) >
           Cardinality({c \in Unapplied : cmd[c].action = "restart" /\ cmd[c].status = "pending"})

\* Mutant of Fenced: fences finished tasks as well.
FencedAll(t, status) ==
  IF t.status = "absent" THEN t
  ELSE [t EXCEPT !.gen = @ + 1, !.lease = "none", !.status = status, !.due = TRUE]

Fenced(t, status) ==
  IF t.status \in Settled \cup {"absent"} THEN t
  ELSE [t EXCEPT !.gen = @ + 1, !.lease = "none", !.status = status, !.due = TRUE]

FenceTasks(rs, status) ==
  [r \in Runs |-> IF r \in rs THEN [p \in Pages |-> Fenced(task[r][p], status)] ELSE task[r]]

HasTask(r)    == \E p \in Pages : task[r][p].status # "absent"
Unfinished(r) == {p \in Pages : task[r][p].status \notin Settled \cup {"absent"}}

\* Mutants of CannotResume: no check of the remaining work, no check of the lane.
ResumesWithoutWork(r) ==
  run[r].status \in Settled \/ ~LaneFree(r, run[r].type)

ResumesBusyLane(r) ==
  run[r].status \in Settled \/ (HasTask(r) /\ Unfinished(r) = {})

\* resume_run refuses a finished run, a busy lane, and a run with no work left.
CannotResume(r) ==
  \/ run[r].status \in Settled
  \/ ~LaneFree(r, run[r].type)
  \/ HasTask(r) /\ Unfinished(r) = {}

-----------------------------------------------------------------------------
(* Runs and commands arrive from the scheduler and the API.  Under READ    *)
(* COMMITTED an API transaction sees rows as they are before or after the  *)
(* command transaction, never between two of its commands.                 *)

NewRun(r, lane) ==
  /\ run[r].status = "absent"
  /\ LaneFree(r, lane)
  /\ Spare
  /\ run' = [run EXCEPT ![r].status = "queued", ![r].type = lane]

\* schedule_once can create a run in both lanes at once: here, two steps.
ScheduleRun(r, lane) ==
  /\ Ready
  /\ enabled
  /\ rt.status \notin {"paused", "waiting_login"}
  /\ NewRun(r, lane)
  /\ UNCHANGED <<rt, enabled, task, cmd, log, tx, ex, exLock, wk, wkLock, faults>>

\* Commands are numbered in creation order, the order commands() applies them in.
Accept(c, command) ==
  /\ \A d \in Commands : cmd[d].status = "none" <=> d >= c
  /\ cmd' = [cmd EXCEPT ![c] = command]

Pending(action, r, p) ==
  [NoCmd EXCEPT !.status = "pending", !.action = action, !.run = r, !.page = p]

SubmitRun(c, r, lane) ==
  /\ Ready
  /\ NewRun(r, lane)
  /\ Accept(c, Pending("run", r, 0))
  /\ UNCHANGED <<rt, enabled, task, log, tx, ex, exLock, wk, wkLock, faults>>

Allowed(action) ==
  CASE action = "pause"  -> {"queued", "running", "waiting_login", "interrupted"}
    [] action = "resume" -> {"paused", "waiting_login", "interrupted", "partial_failed"}
    [] action = "cancel" -> Active \cup {"partial_failed"}

SubmitAction(c, r, action) ==
  /\ Ready
  /\ run[r].status \in Allowed(action)
  /\ Accept(c, Pending(action, r, 0))
  /\ UNCHANGED <<rt, enabled, run, task, log, tx, ex, exLock, wk, wkLock, faults>>

SubmitRetry(c, r, p) ==
  /\ Ready
  /\ task[r][p].status = "failed"
  /\ Accept(c, Pending("retry", r, p))
  /\ UNCHANGED <<rt, enabled, run, task, log, tx, ex, exLock, wk, wkLock, faults>>

SubmitRestart(c) ==
  /\ Ready
  /\ Spare
  /\ Accept(c, Pending("restart", None, 0))
  /\ UNCHANGED <<rt, enabled, run, task, log, tx, ex, exLock, wk, wkLock, faults>>

PatchEnabled ==
  /\ Ready
  /\ Disturb("disable")
  /\ enabled' = ~enabled
  /\ UNCHANGED <<rt, run, task, cmd, log, tx, ex, exLock, wk, wkLock>>

-----------------------------------------------------------------------------
(* commands(): one transaction applies every unapplied command in order.   *)

Resumes(pc) == CASE pc = "top"       -> "check"
                 [] pc = "supervise" -> "inspect"
                 [] OTHER            -> "top"

Goto(x, pc) == ex' = [ex EXCEPT ![x].pc = pc]

BeginCommands(x) ==
  /\ Ready
  /\ \/ ex[x].pc = "top" /\ exLock = x
     \/ ex[x].pc = "supervise" /\ wk[ex[x].w].pc # "dead"
     \/ ex[x].pc = "after"
  /\ IF Unapplied = {}
       THEN Goto(x, Resumes(ex[x].pc)) /\ UNCHANGED tx
       ELSE srcLock' = x /\ todo' = Unapplied /\ UNCHANGED ex
  /\ UNCHANGED <<rows, exLock, wk, wkLock, faults>>

\* Command c is next in x's transaction, which commits after its last command.
Next1(x, c) ==
  /\ srcLock = x
  /\ c \in todo /\ \A d \in todo : c <= d
  /\ todo' = todo \ {c}
  /\ IF todo = {c}
       THEN srcLock' = None /\ Goto(x, Resumes(ex[x].pc))
       ELSE UNCHANGED <<srcLock, ex>>
  /\ UNCHANGED <<enabled, log, exLock, wk, wkLock, faults>>

\* Mutant of Progressed: the page the run was at already counts.
ProgressedAlready(c) == \E r \in cmd[c].over : run[r].page >= cmd[c].base[r]

Progressed(c) == \E r \in cmd[c].over : run[r].page > cmd[c].base[r]

\* Mutants of Rejected: a pause is not refused for a finished run; a restart
\* whose runs all stopped without a page is never given up.
RejectedNoPause(c) ==
  LET r == cmd[c].run IN
  \/ cmd[c].action = "cancel" /\ run[r].status = "succeeded"
  \/ cmd[c].action = "resume" /\ CannotResume(r)

RejectedAtOnceOnly(c) ==
  LET r == cmd[c].run IN
  \/ cmd[c].action = "pause"  /\ run[r].status \notin Active
  \/ cmd[c].action = "cancel" /\ run[r].status = "succeeded"
  \/ cmd[c].action = "resume" /\ CannotResume(r)
  \/ /\ cmd[c].action = "retry"
     /\ task[r][cmd[c].page].status \in Settled \/ CannotResume(r)
  \/ /\ cmd[c].action = "restart" /\ cmd[c].status = "pending"
     /\ \E q \in ActiveRuns : CannotResume(q)

Rejected(c) ==
  LET r == cmd[c].run IN
  \/ cmd[c].action = "pause"  /\ run[r].status \notin Active
  \/ cmd[c].action = "cancel" /\ run[r].status = "succeeded"
  \/ cmd[c].action = "resume" /\ CannotResume(r)
  \/ /\ cmd[c].action = "retry"
     /\ task[r][cmd[c].page].status \in Settled \/ CannotResume(r)
  \/ /\ cmd[c].action = "restart" /\ cmd[c].status = "pending"
     /\ \E q \in ActiveRuns : CannotResume(q)
  \/ /\ cmd[c].status = "running" /\ ~Progressed(c)
     /\ \E q \in cmd[c].over :
          run[q].status \in {"partial_failed", "cancelled", "waiting_login", "paused"}

RejectCommand(x, c) ==
  /\ Next1(x, c)
  /\ Rejected(c)
  /\ cmd' = [cmd EXCEPT ![c].status = "failed"]
  /\ UNCHANGED <<rt, run, task>>

\* The command took effect on rs: over, base and at record which runs, at
\* which pages, and under which source generation.
Applied(c, status, rs) ==
  [cmd EXCEPT ![c].status = status, ![c].over = rs, ![c].at = rt.gen,
              ![c].base = [r \in Runs |-> IF r \in rs THEN run[r].page ELSE 0]]

ApplyPause(x, c) ==
  LET r == cmd[c].run IN
  /\ Next1(x, c)
  /\ cmd[c].action = "pause" /\ ~Rejected(c)
  /\ task' = FenceTasks({r}, "pending")
  /\ run' = [run EXCEPT ![r].gen = @ + 1, ![r].status = "paused"]
  /\ cmd' = Applied(c, "succeeded", {r})
  /\ UNCHANGED rt

ApplyCancel(x, c) ==
  LET r == cmd[c].run IN
  /\ Next1(x, c)
  /\ cmd[c].action = "cancel" /\ ~Rejected(c)
  /\ task' = FenceTasks({r}, "cancelled")
  /\ run' = [run EXCEPT ![r].gen = @ + 1, ![r].status = "cancelled"]
  /\ cmd' = Applied(c, "succeeded", {r})
  /\ UNCHANGED rt

ApplyRun(x, c) ==
  LET r == cmd[c].run IN
  /\ Next1(x, c)
  /\ cmd[c].action = "run"
  /\ run' = [run EXCEPT ![r].status = IF @ = "interrupted" THEN "queued" ELSE @]
  /\ cmd' = [cmd EXCEPT ![c].status = "succeeded"]
  /\ UNCHANGED <<rt, task>>

\* Runs a recovery command works on: its own, or every active run of the
\* collector, or a new realtime run when the collector has none.
RecoveryTargets(c) ==
  IF cmd[c].action # "restart" THEN {{cmd[c].run}}
  ELSE IF ActiveRuns # {} THEN {ActiveRuns}
  ELSE {{r} : r \in AbsentRuns}

ApplyRecovery(x, c, rs) ==
  /\ Next1(x, c)
  /\ cmd[c].action \in Recovery /\ cmd[c].status = "pending" /\ ~Rejected(c)
  /\ rs \in RecoveryTargets(c)
  /\ LET fenced == FenceTasks(rs, "pending")
         retried(r, p) == cmd[c].action = "retry" /\ cmd[c].run = r /\ cmd[c].page = p
     IN  task' = [r \in Runs |-> [p \in Pages |->
                   [fenced[r][p] EXCEPT !.tries = IF retried(r, p) THEN 0 ELSE @]]]
  /\ run' = [r \in Runs |->
       IF r \notin rs THEN run[r]
       ELSE [run[r] EXCEPT !.status = "queued", !.gen = @ + 1, !.base = run[r].page,
                           !.type = IF @ = None THEN "realtime" ELSE @]]
  /\ rt' = [rt EXCEPT !.status = IF @ = "running" THEN @ ELSE "idle",
                      !.fresh = 0, !.pending = FALSE, !.backoff = FALSE]
  /\ cmd' = Applied(c, IF cmd[c].action = "restart" THEN "running" ELSE "succeeded", rs)

\* A restart is judged at a later poll, by pages committed since it was applied.
PollRestart(x, c) ==
  /\ Next1(x, c)
  /\ cmd[c].status = "running" /\ ~Rejected(c)
  /\ cmd' = [cmd EXCEPT ![c].status = IF Progressed(c) THEN "succeeded" ELSE @]
  /\ UNCHANGED <<rt, run, task>>

-----------------------------------------------------------------------------
(* The executor: execute_source, claim_batch, supervise, record_exit.      *)

\* The advisory lock; a live lease of an earlier owner is waited out once.
Acquire(x) ==
  /\ Ready
  /\ ex[x].pc = "off" /\ exLock = None
  /\ exLock' = x
  /\ Goto(x, IF rt.owner # None /\ rt.lease = "live" THEN "waiting" ELSE "boot")
  /\ UNCHANGED <<rows, tx, wk, wkLock, faults>>

\* The sleep ends with the lease it read; another executor that lost the
\* lock but still runs may have renewed the lease meanwhile.
LeaseWaited(x) ==
  /\ ex[x].pc = "waiting"
  /\ rt.lease # "live" \/ \E y \in Executors \ {x} : ex[y].pc # "off"
  /\ Goto(x, "boot")
  /\ UNCHANGED <<rows, tx, exLock, wk, wkLock, faults>>

TakeOver(x) ==
  /\ Ready
  /\ ex[x].pc = "boot"
  /\ rt' = [rt EXCEPT !.owner = x,
                      !.status = IF @ = "running" THEN "idle" ELSE @,
                      !.pending = @ \/ rt.status = "running"]
  /\ Goto(x, "top")
  /\ UNCHANGED <<enabled, run, task, cmd, log, tx, exLock, wk, wkLock, faults>>

\* SELECT 1 on the lock connection fails: the executor stops.
LockGone(x) ==
  /\ ex[x].pc = "top" /\ exLock # x /\ srcLock # x
  /\ ex' = [ex EXCEPT ![x] = Idle]
  /\ UNCHANGED <<rows, tx, exLock, wk, wkLock, faults>>

\* Mutant of WorkerLockFree: nobody asks.
WorkerLockIgnored == TRUE

\* pg_try_advisory_lock on the worker key would succeed.
WorkerLockFree == wkLock = None

\* Probe of the worker lock: an orphan must finish first.
ProbeWorker(x) ==
  /\ ex[x].pc = "check"
  /\ Goto(x, IF WorkerLockFree THEN "budget" ELSE "top")
  /\ UNCHANGED <<rows, tx, exLock, wk, wkLock, faults>>

\* Mutant of Exhausted: one restart too many.
ExhaustedLate == rt.pending /\ rt.fresh > MaxRestarts

Exhausted == rt.pending /\ rt.fresh >= MaxRestarts

RestartBudget(x) ==
  LET refused   == rt.status = "paused" \/ (rt.pending /\ rt.backoff)
      exhausted == ~refused /\ Exhausted
  IN
  /\ Ready
  /\ ex[x].pc = "budget"
  /\ rt' = [rt EXCEPT !.status = IF exhausted THEN "paused" ELSE @]
  /\ Goto(x, IF refused \/ exhausted THEN "top" ELSE "claim")
  /\ UNCHANGED <<enabled, run, task, cmd, log, tx, exLock, wk, wkLock, faults>>

\* Mutant of Claimable: a task that waits for its retry is never due.
ClaimableNoRetry(t) ==
  t.status \in {"pending", "queued"} \/ (t.status = "running" /\ t.lease = "expired")

Claimable(t) ==
  \/ t.status \in {"pending", "queued"}
  \/ t.status = "retry_wait" /\ t.due
  \/ t.status = "running" /\ t.lease = "expired"

\* The page a batch of run r would work on: its oldest claimable task, or its
\* first task, created from the checkpoint.
BatchPagesOf(r) ==
  IF run[r].status \notin {"queued", "running", "interrupted"} THEN {}
  ELSE IF \E p \in Pages : task[r][p].status = "running" /\ task[r][p].lease = "live" THEN {}
  ELSE IF ~HasTask(r) THEN {run[r].page}
  ELSE {p \in Pages : /\ Claimable(task[r][p])
                      /\ \A q \in 0 .. (p - 1) : ~Claimable(task[r][q])}

Candidates == {r \in Runs : BatchPagesOf(r) # {}}
Preferred  == IF rt.lastType = "realtime" THEN "backfill" ELSE "realtime"

\* Lanes alternate: the other lane is served whenever it has a batch.
Turn(r) ==
  /\ r \in Candidates
  /\ run[r].type = Preferred \/ \A q \in Candidates : run[q].type # Preferred

MayClaim == /\ rt.status \notin {"paused", "waiting_login"}
            /\ ~rt.backoff
            /\ enabled
            /\ rt.gen < MaxGen

ClaimBatch(x, r, p) ==
  /\ Ready
  /\ ex[x].pc = "claim"
  /\ MayClaim
  /\ Turn(r) /\ p \in BatchPagesOf(r)
  /\ rt' = [rt EXCEPT !.gen = @ + 1, !.owner = x, !.status = "running", !.lease = "live",
                      !.fresh = IF rt.pending THEN @ + 1 ELSE @,
                      !.pending = FALSE, !.lastType = run[r].type]
  /\ run' = [run EXCEPT ![r].status = "running", ![r].gen = @ + 1]
  /\ task' = [task EXCEPT ![r][p] =
       [(IF HasTask(r) THEN @ ELSE NewTask) EXCEPT !.status = "queued", !.lease = "none"]]
  /\ ex' = [ex EXCEPT ![x] = [Idle EXCEPT !.pc = "spawn", !.run = r,
                                          !.srcGen = rt.gen + 1, !.runGen = run[r].gen + 1]]
  /\ UNCHANGED <<enabled, cmd, log, tx, exLock, wk, wkLock, faults>>

NothingToClaim(x) ==
  /\ Ready
  /\ ex[x].pc = "claim"
  /\ ~MayClaim \/ Candidates = {}
  /\ Goto(x, "top")
  /\ UNCHANGED <<rows, tx, exLock, wk, wkLock, faults>>

Spawn(x, w) ==
  /\ ex[x].pc = "spawn"
  /\ wk[w].pc = "none"
  /\ wk' = [wk EXCEPT ![w] = [NoWorker EXCEPT !.pc = "spawned", !.run = ex[x].run,
                                              !.srcGen = ex[x].srcGen, !.runGen = ex[x].runGen]]
  /\ ex' = [ex EXCEPT ![x].pc = "supervise", ![x].w = w]
  /\ UNCHANGED <<rows, tx, exLock, wkLock, faults>>

SpawnFails(x) ==
  /\ ex[x].pc = "spawn"
  /\ Disturb("spawn_error")
  /\ ex' = [ex EXCEPT ![x].pc = "record", ![x].ok = FALSE]
  /\ UNCHANGED <<rows, tx, exLock, wk, wkLock>>

\* The batch is still this executor's, or the worker is told to stop.
Current(x) ==
  LET b == ex[x] IN
  /\ rt.owner = x /\ rt.gen = b.srcGen
  /\ run[b.run].status \in {"running", "succeeded", "partial_failed", "paused"}
  /\ run[b.run].gen = b.runGen

Renew(x) ==
  /\ Ready
  /\ ex[x].pc = "inspect"
  /\ Current(x)
  /\ rt' = [rt EXCEPT !.lease = "live"]
  /\ \/ Goto(x, "supervise") /\ UNCHANGED faults
     \/ Disturb("timeout") /\ Goto(x, "reap")   \* 660 seconds are over
  /\ UNCHANGED <<enabled, run, task, cmd, log, tx, exLock, wk, wkLock>>

Superseded(x) ==
  /\ Ready
  /\ ex[x].pc = "inspect"
  /\ ~Current(x)
  /\ Goto(x, "reap")
  /\ UNCHANGED <<rows, tx, exLock, wk, wkLock, faults>>

\* process.wait() returns, by itself or after the kill.
Reap(x) ==
  LET w == ex[x].w IN
  /\ srcLock # x
  /\ ex[x].pc = "reap" \/ (ex[x].pc = "supervise" /\ wk[w].pc = "dead")
  /\ ex' = [ex EXCEPT ![x].pc = "record", ![x].w = None,
                      ![x].ok = wk[w].pc = "dead" /\ wk[w].ok]
  /\ wk' = [wk EXCEPT ![w] = NoWorker]
  /\ wkLock' = IF wkLock = w THEN None ELSE wkLock
  /\ UNCHANGED <<rows, tx, exLock, faults>>

RecordExit(x) ==
  LET b       == ex[x]
      current == rt.gen = b.srcGen
      lost    == /\ current /\ ~b.ok
                 /\ run[b.run].status = "running" /\ run[b.run].gen = b.runGen
  IN
  /\ Ready
  /\ b.pc = "record"
  /\ task' = IF lost THEN FenceTasks({b.run}, "pending") ELSE task
  /\ run' = IF lost
              THEN [run EXCEPT ![b.run].gen = @ + 1, ![b.run].status = "interrupted"]
              ELSE run
  /\ rt' = IF current
             THEN [rt EXCEPT !.status = IF @ = "running" THEN "idle" ELSE @,
                             !.lease = "none",
                             !.pending = @ \/ lost, !.backoff = @ \/ lost]
             ELSE rt
  /\ ex' = [ex EXCEPT ![x] = [Idle EXCEPT !.pc = "after"]]
  /\ UNCHANGED <<enabled, cmd, log, tx, exLock, wk, wkLock, faults>>

-----------------------------------------------------------------------------
(* The page worker: LedgerSpider, OfficialProtocolHandler, persist_page.   *)

\* The worker ends without having committed or handled a failure: exit code 1.
GivesUp(w) == wk' = [wk EXCEPT ![w].pc = "closing", ![w].ok = FALSE]

HeldTask(w) == task[wk[w].run][wk[w].page]

\* The worker lock and the task to request; what the unlocked read returns is
\* checked again by Download.
Start(w) ==
  LET ready == {p \in Pages : task[wk[w].run][p].status \in Startable} IN
  /\ Ready
  /\ wk[w].pc = "spawned"
  /\ \/ ~WorkerLockFree /\ GivesUp(w) /\ UNCHANGED wkLock
     \/ WorkerLockFree /\ ready = {} /\ GivesUp(w) /\ wkLock' = w
     \/ /\ WorkerLockFree /\ wkLock' = w
        /\ \E p \in ready : /\ \A q \in ready : p <= q
                            /\ wk' = [wk EXCEPT ![w].pc = "started", ![w].page = p]
  /\ UNCHANGED <<rows, tx, ex, exLock, faults>>

DownloadFence(w) ==
  LET r == wk[w].run IN
  /\ rt.gen = wk[w].srcGen /\ rt.status = "running" /\ rt.lease = "live"
  /\ run[r].status = "running" /\ run[r].gen = wk[w].runGen
  /\ HeldTask(w).status \in Startable /\ HeldTask(w).due

\* tries counts attempts since retry_base and is saturated at MaxTries.
Download(w) ==
  LET r == wk[w].run
      p == wk[w].page
  IN
  /\ Ready
  /\ wk[w].pc = "started"
  /\ DownloadFence(w)
  /\ task' = [task EXCEPT ![r][p] =
       [HeldTask(w) EXCEPT !.gen = @ + 1, !.tries = IF @ < MaxTries THEN @ + 1 ELSE @,
                           !.status = "running", !.lease = "live"]]
  /\ wk' = [wk EXCEPT ![w].pc = "fetching", ![w].taskGen = HeldTask(w).gen + 1,
                      ![w].beat = TRUE]
  /\ UNCHANGED <<rt, enabled, run, cmd, log, tx, ex, exLock, wkLock, faults>>

DownloadRefused(w) ==
  /\ Ready
  /\ wk[w].pc = "started"
  /\ ~DownloadFence(w)
  /\ GivesUp(w)
  /\ UNCHANGED <<rows, tx, ex, exLock, wkLock, faults>>

HeartbeatFence(w) ==
  LET r == wk[w].run IN
  /\ rt.gen = wk[w].srcGen /\ rt.lease = "live"
  /\ run[r].status = "running" /\ run[r].gen = wk[w].runGen
  /\ HeldTask(w).status = "running" /\ HeldTask(w).gen = wk[w].taskGen

\* Renews the task lease, or ends for good once a fence does not hold.
Heartbeat(w) ==
  LET r == wk[w].run
      p == wk[w].page
  IN
  /\ Ready
  /\ wk[w].pc = "fetching" /\ wk[w].beat
  /\ \/ /\ HeartbeatFence(w)
        /\ task' = [task EXCEPT ![r][p].lease = "live"]
        /\ UNCHANGED wk
     \/ /\ ~HeartbeatFence(w)
        /\ wk' = [wk EXCEPT ![w].beat = FALSE]
        /\ UNCHANGED task
  /\ UNCHANGED <<rt, enabled, run, cmd, log, tx, ex, exLock, wkLock, faults>>

\* Mutant of CommitFence: without the source generation.
CommitFenceNoSource(w) ==
  /\ rt.status = "running" /\ rt.lease = "live"
  /\ run[wk[w].run].status = "running" /\ run[wk[w].run].gen = wk[w].runGen
  /\ HeldTask(w).status = "running" /\ HeldTask(w).gen = wk[w].taskGen
  /\ HeldTask(w).lease = "live"

CommitFence(w) ==
  LET r == wk[w].run IN
  /\ rt.gen = wk[w].srcGen /\ rt.status = "running" /\ rt.lease = "live"
  /\ run[r].status = "running" /\ run[r].gen = wk[w].runGen
  /\ HeldTask(w).status = "running" /\ HeldTask(w).gen = wk[w].taskGen
  /\ HeldTask(w).lease = "live"

\* What a fetched page says about the next one.  "stuck": no cursor, or the
\* same cursor again.  A page past the bound MaxPage does not say "more".
Outcomes == {"more", "exhausted", "gap", "stuck"}

\* Status of run r after its page number n, and whether a next task is created.
AfterPage(r, n, outcome) ==
  CASE outcome = "exhausted"         -> "succeeded"
    [] outcome \in {"gap", "stuck"}  -> "partial_failed"
    [] outcome = "more" ->
         IF run[r].type = "realtime" /\ n >= RealtimePages THEN "succeeded"
         ELSE IF run[r].type = "backfill" /\ n - run[r].base >= BatchPages THEN "paused"
         ELSE "running"

\* persist_page: the page, its task, the checkpoint and the next task at once.
Commit(w, outcome) ==
  LET r     == wk[w].run
      p     == wk[w].page
      after == AfterPage(r, p + 1, outcome)
  IN
  /\ Ready
  /\ wk[w].pc = "fetching"
  /\ CommitFence(w)
  /\ outcome = "more" => p + 1 \in Pages
  /\ task' = [task EXCEPT ![r] = [q \in Pages |->
       IF q = p THEN [@[q] EXCEPT !.status = "succeeded", !.lease = "none", !.due = TRUE]
       ELSE IF q = p + 1 /\ after \in {"running", "paused"} THEN NewTask
       ELSE @[q]]]
  /\ run' = [run EXCEPT ![r].page = p + 1, ![r].status = after]
  /\ log' = [log EXCEPT ![r] = Append(@, wk[w].srcGen)]
  /\ wk' = [wk EXCEPT ![w].pc = "closing", ![w].ok = TRUE]
  /\ UNCHANGED <<rt, enabled, cmd, tx, ex, exLock, wkLock, faults>>

\* Mutant of FailFence: without the source generation.
FailFenceNoSource(w) ==
  /\ run[wk[w].run].status = "running" /\ run[wk[w].run].gen = wk[w].runGen
  /\ HeldTask(w).status = "running" /\ HeldTask(w).gen = wk[w].taskGen

FailFence(w) ==
  LET r == wk[w].run IN
  /\ rt.gen = wk[w].srcGen
  /\ run[r].status = "running" /\ run[r].gen = wk[w].runGen
  /\ HeldTask(w).status = "running" /\ HeldTask(w).gen = wk[w].taskGen

\* Error codes by what failed() does with them: "halt" stands for the codes
\* that need a person (parse_error, challenge, proxy_exhausted, ...).
Failures == {"replay_limit", "waiting_login", "halt", "transient"}

Fail(w, code) ==
  LET r         == wk[w].run
      p         == wk[w].page
      lastTry   == HeldTask(w).tries >= MaxTries
      Ends(taskStatus, runStatus) ==
        /\ task' = [task EXCEPT ![r][p] = [@ EXCEPT !.status = taskStatus, !.lease = "none",
                                                    !.due = taskStatus # "retry_wait"]]
        /\ run' = [run EXCEPT ![r].status = runStatus]
  IN
  /\ Ready
  /\ wk[w].pc = "fetching"
  /\ FailFence(w)
  /\ \/ code = "replay_limit" /\ Ends("failed", "partial_failed") /\ UNCHANGED rt
     \/ /\ code = "waiting_login" /\ Ends("pending", "waiting_login")
        /\ rt' = [rt EXCEPT !.status = "waiting_login"]
     \/ /\ code = "halt" /\ Ends("pending", "paused")
        /\ rt' = [rt EXCEPT !.status = "paused"]
     \/ code = "transient" /\ ~lastTry /\ Ends("retry_wait", "queued") /\ UNCHANGED rt
     \/ code = "transient" /\ lastTry /\ Ends("failed", "partial_failed") /\ UNCHANGED rt
  /\ wk' = [wk EXCEPT ![w].pc = "closing", ![w].ok = TRUE]
  /\ UNCHANGED <<enabled, cmd, log, tx, ex, exLock, wkLock, faults>>

\* A page or a failure that its fence refuses leaves the ledger alone.
Discarded(w) ==
  /\ Ready
  /\ wk[w].pc = "fetching"
  /\ ~CommitFence(w) \/ ~FailFence(w)
  /\ GivesUp(w)
  /\ UNCHANGED <<rows, tx, ex, exLock, wkLock, faults>>

\* A process that ended waits for its parent, if that still runs.
Ended(w, ok) ==
  /\ wk' = [wk EXCEPT ![w] = IF \E x \in Executors : ex[x].w = w
                               THEN [NoWorker EXCEPT !.pc = "dead", !.ok = ok]
                               ELSE NoWorker]
  /\ wkLock' = IF wkLock = w THEN None ELSE wkLock

Exit(w) ==
  /\ wk[w].pc = "closing"
  /\ Ended(w, wk[w].ok)
  /\ UNCHANGED <<rows, tx, ex, exLock, faults>>

-----------------------------------------------------------------------------
(* Crashes, lost advisory locks, the login session worker, and time.       *)

\* The process is killed, or persist_page raises for another reason than a fence.
WorkerCrash(w) ==
  /\ wk[w].pc \notin {"none", "dead"}
  /\ Disturb("worker_crash")
  /\ Ended(w, FALSE)
  /\ UNCHANGED <<rows, tx, ex, exLock>>

\* The worker process is not killed with its executor.
ExecutorCrash(x) ==
  LET w == ex[x].w IN
  /\ ex[x].pc # "off" /\ srcLock # x
  /\ Disturb("executor_crash")
  /\ ex' = [ex EXCEPT ![x] = Idle]
  /\ exLock' = IF exLock = x THEN None ELSE exLock
  /\ wk' = [v \in Workers |-> IF v = w /\ wk[v].pc = "dead" THEN NoWorker ELSE wk[v]]
  /\ UNCHANGED <<rows, tx, wkLock>>

\* The database session that holds an advisory lock goes away.
LoseExecutorLock ==
  /\ exLock # None
  /\ Disturb("executor_lock")
  /\ exLock' = None
  /\ UNCHANGED <<rows, tx, ex, wk, wkLock>>

LoseWorkerLock ==
  /\ wkLock # None
  /\ Disturb("worker_lock")
  /\ wkLock' = None
  /\ UNCHANGED <<rows, tx, ex, exLock, wk>>

\* Mutant of StatusForLogin: a paused source is not spared.
WaitingForLogin == "waiting_login"

\* A source an administrator has to recover stays paused.
StatusForLogin == IF rt.status = "paused" THEN "paused" ELSE "waiting_login"

\* pause_source_runs: the saved login session is no longer valid.
PauseForLogin ==
  LET hit == {r \in Runs : run[r].status \in {"queued", "running", "interrupted", "waiting_login"}}
  IN
  /\ Ready
  /\ rt.gen < MaxGen
  /\ Disturb("login")
  /\ rt' = [rt EXCEPT !.gen = @ + 1, !.lease = "none", !.status = StatusForLogin]
  /\ run' = [r \in Runs |-> IF r \in hit THEN [run[r] EXCEPT !.status = "waiting_login"] ELSE run[r]]
  /\ task' = [r \in Runs |-> [p \in Pages |->
       IF r \in hit /\ task[r][p].status = "running" THEN Fenced(task[r][p], "pending")
       ELSE task[r][p]]]
  /\ UNCHANGED <<enabled, cmd, log, tx, ex, exLock, wk, wkLock>>

\* _publish_session: a verified login releases what waits for it.
PublishSession ==
  /\ Ready
  /\ "login" \in Disturbances
  /\ rt' = IF rt.status = "waiting_login" THEN [rt EXCEPT !.status = "idle", !.backoff = FALSE] ELSE rt
  /\ run' = [r \in Runs |-> IF run[r].status = "waiting_login"
                              THEN [run[r] EXCEPT !.status = "queued"] ELSE run[r]]
  /\ UNCHANGED <<enabled, task, cmd, log, tx, ex, exLock, wk, wkLock, faults>>

\* A supervised source is renewed in time unless the executor stalls.
LeaseExpires ==
  /\ rt.lease = "live"
  /\ (\A x \in Executors : ex[x].srcGen # rt.gen) \/ "stall" \in Disturbances
  /\ rt' = [rt EXCEPT !.lease = "expired"]
  /\ UNCHANGED <<enabled, run, task, cmd, log, tx, ex, exLock, wk, wkLock, faults>>

TaskLeaseExpires(r, p) ==
  /\ task[r][p].lease = "live"
  /\ \/ \A w \in Workers : <<wk[w].run, wk[w].page, wk[w].beat>> # <<r, p, TRUE>>
     \/ "stall" \in Disturbances
  /\ task' = [task EXCEPT ![r][p].lease = "expired"]
  /\ UNCHANGED <<rt, enabled, run, cmd, log, tx, ex, exLock, wk, wkLock, faults>>

RetryDue(r, p) ==
  /\ ~task[r][p].due
  /\ task' = [task EXCEPT ![r][p].due = TRUE]
  /\ UNCHANGED <<rt, enabled, run, cmd, log, tx, ex, exLock, wk, wkLock, faults>>

BackoffOver ==
  /\ rt.backoff
  /\ rt' = [rt EXCEPT !.backoff = FALSE]
  /\ UNCHANGED <<enabled, run, task, cmd, log, tx, ex, exLock, wk, wkLock, faults>>

\* A restart stamp leaves the 30 minute window.
StampAges ==
  /\ rt.fresh > 0
  /\ "aging" \in Disturbances
  /\ rt' = [rt EXCEPT !.fresh = @ - 1]
  /\ UNCHANGED <<enabled, run, task, cmd, log, tx, ex, exLock, wk, wkLock, faults>>

-----------------------------------------------------------------------------
Requests ==
  \/ \E r \in Runs, lane \in Lanes : ScheduleRun(r, lane)
  \/ \E c \in Commands :
       \/ \E r \in Runs, lane \in Lanes : SubmitRun(c, r, lane)
       \/ \E r \in Runs, action \in {"pause", "resume", "cancel"} : SubmitAction(c, r, action)
       \/ \E r \in Runs, p \in Pages : SubmitRetry(c, r, p)
       \/ SubmitRestart(c)
  \/ PatchEnabled

ApplyStep(x) ==
  \E c \in Commands :
    \/ RejectCommand(x, c)
    \/ ApplyPause(x, c)
    \/ ApplyCancel(x, c)
    \/ ApplyRun(x, c)
    \/ \E rs \in SUBSET Runs : ApplyRecovery(x, c, rs)
    \/ PollRestart(x, c)

ExecutorStep(x) ==
  \/ BeginCommands(x) \/ ApplyStep(x)
  \/ Acquire(x) \/ LeaseWaited(x) \/ TakeOver(x) \/ LockGone(x)
  \/ ProbeWorker(x) \/ RestartBudget(x)
  \/ \E r \in Runs, p \in Pages : ClaimBatch(x, r, p)
  \/ NothingToClaim(x)
  \/ \E w \in Workers : Spawn(x, w)
  \/ SpawnFails(x)
  \/ Renew(x) \/ Superseded(x) \/ Reap(x) \/ RecordExit(x)

WorkerStep(w) ==
  \/ Start(w) \/ Download(w) \/ DownloadRefused(w) \/ Heartbeat(w)
  \/ \E outcome \in Outcomes : Commit(w, outcome)
  \/ \E code \in Failures : Fail(w, code)
  \/ Discarded(w) \/ Exit(w)

Outside ==
  \/ \E w \in Workers : WorkerCrash(w)
  \/ \E x \in Executors : ExecutorCrash(x)
  \/ LoseExecutorLock \/ LoseWorkerLock
  \/ PauseForLogin \/ PublishSession

Time ==
  \/ LeaseExpires \/ BackoffOver \/ StampAges
  \/ \E r \in Runs, p \in Pages : TaskLeaseExpires(r, p) \/ RetryDue(r, p)

Next ==
  \/ Requests
  \/ \E x \in Executors : ExecutorStep(x)
  \/ \E w \in Workers : WorkerStep(w)
  \/ Outside
  \/ Time

Spec == Init /\ [][Next]_vars

\* Processes that run keep running, the row lock is granted in turn (SF), and
\* leases, back-off and retry delays run out.  Nothing is assumed of the API,
\* the scheduler, the login session or any disturbance.
Fairness ==
  /\ \A x \in Executors : WF_vars(ExecutorStep(x))
  /\ \A w \in Workers : SF_vars(WorkerStep(w))
  /\ WF_vars(LeaseExpires) /\ WF_vars(BackoffOver)
  /\ \A r \in Runs, p \in Pages : WF_vars(TaskLeaseExpires(r, p)) /\ WF_vars(RetryDue(r, p))

FairSpec == Spec /\ Fairness

-----------------------------------------------------------------------------
(* Properties.                                                             *)

\* w would get past the fences of persist_page (lease and source status
\* aside) and of failed().
CanWrite(w) == wk[w].pc = "fetching" /\ FailFence(w)

\* At most one worker process can still change the ledger, whatever crashed,
\* was orphaned or lost its advisory lock.
OneWriter == \A v, w \in Workers : CanWrite(v) /\ CanWrite(w) => v = w

\* Once a pause, cancel, resume, retry or restart was applied to a run, no
\* worker of a batch claimed before it can change that run.
CommandsFence ==
  \A c \in Commands, w \in Workers :
    CanWrite(w) /\ wk[w].run \in cmd[c].over => wk[w].srcGen > cmd[c].at

\* The checkpoint, the tasks and the committed pages of a run agree: pages are
\* committed once, in order and without a gap, and at most the next one is open.
LedgerContiguous ==
  \A r \in Runs :
    /\ run[r].page = Len(log[r])
    /\ \A p \in Pages : /\ p < run[r].page => task[r][p].status = "succeeded"
                        /\ p = run[r].page => task[r][p].status # "succeeded"
                        /\ p > run[r].page => task[r][p].status = "absent"

\* An active run has a page to work on, so claim_batch never skips it for good
\* and resume_run never finds it without a resumable task.
ActiveRunHasWork == \A r \in ActiveRuns : HasTask(r) => Unfinished(r) # {}

\* The application keeps what the unique index uq_crawl_runs_active demands.
OneActivePerLane ==
  \A r, q \in ActiveRuns : run[r].type = run[q].type => r = q

\* A restart is reported successful only if a batch claimed after it was
\* applied committed a page of one of its runs.
RestartProven ==
  \A c \in Commands :
    cmd[c].action = "restart" /\ cmd[c].status = "succeeded" =>
      \E r \in cmd[c].over : \E i \in 1 .. Len(log[r]) : log[r][i] > cmd[c].at

\* No more than MaxRestarts automatic restarts in the window.
BudgetHolds == rt.fresh <= MaxRestarts

\* Two workers never talk to the site at once: an orphan finishes first.
OneFetcher ==
  \A v, w \in Workers : wk[v].pc = "fetching" /\ wk[w].pc = "fetching" => v = w

RecoveredBy(c) ==
  /\ cmd[c].action \in Recovery
  /\ cmd[c].status = "pending" /\ cmd'[c].status \in {"running", "succeeded"}

\* A paused source stays paused until an administrator recovers it.
PauseHolds ==
  [][rt.status = "paused" /\ rt'.status # "paused" => \E c \in Commands : RecoveredBy(c)]_vars

\* A finished or cancelled run never becomes active again and gets no page.
FinalRunsStay ==
  [][\A r \in Runs : run[r].status \in Settled =>
       run'[r].status = run[r].status /\ log'[r] = log[r]]_vars

Underway == {"queued", "running", "interrupted"}

\* A run that is underway comes to rest, finished or waiting for a person,
\* unless its source does: crashed processes, dead leases and failed pages
\* are recovered without help.
RunsComeToRest ==
  \A r \in Runs : run[r].status \in Underway ~>
    run[r].status \notin Underway \/ rt.status \in {"paused", "waiting_login"}

\* Every accepted command is answered: a restart, too, ends in success or failure.
CommandsSettle ==
  \A c \in Commands : cmd[c].status = "pending" ~>
    cmd[c].status \in {"succeeded", "failed"} \/ rt.status \in {"paused", "waiting_login"}

\* The run of the writer, if there is one: what FencedLog calls the holder.
Holder == IF \E w \in Workers : CanWrite(w)
            THEN wk[CHOOSE w \in Workers : CanWrite(w)].run
            ELSE None

Abstract == INSTANCE FencedLog
              WITH epoch <- rt.gen, holder <- Holder, MaxEpoch <- MaxGen

\* The ledger implements FencedLog: source generations are its epochs, and every
\* step of claim_batch, download, persist_page, failed and the commands is one of
\* its steps or changes nothing it can see.
ImplementsFencedLog == Abstract!Spec

=============================================================================
