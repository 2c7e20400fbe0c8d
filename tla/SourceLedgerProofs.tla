------------------------- MODULE SourceLedgerProofs -------------------------
(***************************************************************************)
(* What TLAPS proves of SourceLedger for any number of runs, executors,    *)
(* workers, pages, commands and disturbances.                              *)
(***************************************************************************)
EXTENDS SourceLedger, TLAPS

\* The type invariant, by what a step changes together.  A batch in the hands of
\* an executor or of a worker names its run, and so does a command on one run.
ExecutorsOK ==
  /\ ex \in [Executors -> Executor]
  /\ \A x \in Executors : ex[x].pc = "spawn" => ex[x].run \in Runs

WorkersOK ==
  /\ wk \in [Workers -> Worker]
  /\ \A w \in Workers : wk[w].pc \in {"spawned", "started", "fetching"} => wk[w].run \in Runs

CommandsOK ==
  /\ cmd \in [Commands -> Command]
  /\ \A c \in Commands : cmd[c].action \in {"pause", "cancel", "resume", "retry"} =>
                           cmd[c].run \in Runs

RowsOK ==
  /\ rt \in Runtime
  /\ enabled \in BOOLEAN
  /\ run \in [Runs -> RunRow]
  /\ task \in [Runs -> [Pages -> TaskRow]]
  /\ log \in [Runs -> Seq(Nat)]

LocksOK ==
  /\ srcLock \in Executors \cup {None}
  /\ todo \in SUBSET Commands
  /\ exLock \in Executors \cup {None}
  /\ wkLock \in Workers \cup {None}
  /\ faults \in Nat

TypeInv == ExecutorsOK /\ WorkersOK /\ CommandsOK /\ RowsOK /\ LocksOK

LEMMA TypeInvType == TypeInv => TypeOK
  BY DEF TypeInv, TypeOK, ExecutorsOK, WorkersOK, CommandsOK, RowsOK, LocksOK

\* Fencing a task row gives a task row (fence_tasks).
LEMMA FencedType ==
  ASSUME NEW t \in TaskRow, NEW status \in TaskStatus
  PROVE  Fenced(t, status) \in TaskRow
  <1>1. CASE t.status \in Settled \cup {"absent"}
    BY <1>1 DEF Fenced
  <1>2. CASE t.status \notin Settled \cup {"absent"}
    <2>1. "none" \in Leases
      BY DEF Leases
    <2>2. Fenced(t, status) = [status |-> status, gen |-> t.gen + 1, tries |-> t.tries,
                               lease |-> "none", due |-> TRUE]
      BY <1>2 DEF Fenced, TaskRow
    <2>3. QED
      BY <2>1, <2>2 DEF TaskRow
  <1>3. QED
    BY <1>1, <1>2

\* Fencing the tasks of some runs keeps the tasks well typed.
LEMMA FenceTasksType ==
  ASSUME task \in [Runs -> [Pages -> TaskRow]],
         NEW rs, NEW status \in TaskStatus
  PROVE  FenceTasks(rs, status) \in [Runs -> [Pages -> TaskRow]]
  BY FencedType DEF FenceTasks

LEMMA Constants ==
  /\ 0 \in Pages
  /\ Idle \in Executor /\ Idle.pc = "off"
  /\ NoWorker \in Worker /\ NoWorker.pc = "none"
  /\ NewTask \in TaskRow
  /\ {"pending", "cancelled"} \subseteq TaskStatus
  <1>1. 0 \in Pages
    BY BoundsAssumption DEF Pages
  <1>2. Idle \in Executor /\ Idle.pc = "off"
    BY DEF Idle, Executor, ExecutorPc
  <1>3. NoWorker \in Worker /\ NoWorker.pc = "none"
    BY <1>1 DEF NoWorker, Worker, WorkerPc
  <1>4. {"pending", "cancelled"} \subseteq TaskStatus
    BY DEF TaskStatus, Settled
  <1>5. NoTask \in TaskRow
    BY DEF NoTask, TaskRow, TaskStatus, Leases
  <1>6. NewTask \in TaskRow
    BY <1>4, <1>5 DEF NewTask, TaskRow
  <1>7. QED
    BY <1>1, <1>2, <1>3, <1>4, <1>6

\* The initial state is well typed.
LEMMA InitType == Init => TypeInv
  <1> SUFFICES ASSUME Init PROVE TypeInv
    OBVIOUS
  <1> USE Constants DEF Init
  <1>1. NoRun \in RunRow
    BY DEF NoRun, RunRow, RunStatus
  <1>2. NoTask \in TaskRow
    BY DEF NoTask, TaskRow, TaskStatus, Leases
  <1>3. NoCmd \in Command
    BY DEF NoCmd, NoBase, Command
  <1>4. NoCmd.action = None /\ None \notin {"pause", "cancel", "resume", "retry"}
    BY NoneAssumption DEF NoCmd, Actions, Recovery
  <1>5. rt \in Runtime
    BY DEF Runtime, Leases
  <1>6. ExecutorsOK
    BY DEF ExecutorsOK
  <1>7. WorkersOK
    BY DEF WorkersOK
  <1>8. CommandsOK
    BY <1>3, <1>4 DEF CommandsOK
  <1>9. RowsOK
    BY <1>1, <1>2, <1>5 DEF RowsOK
  <1>10. LocksOK
    BY DEF LocksOK
  <1>11. QED
    BY <1>6, <1>7, <1>8, <1>9, <1>10 DEF TypeInv

\* Requests keep the types: ScheduleRun, the Submit actions and PatchEnabled.
LEMMA RequestsType == TypeInv /\ Requests => TypeInv'
  <1> SUFFICES ASSUME TypeInv, Requests PROVE TypeInv'
    OBVIOUS
  <1> USE DEF TypeInv, ExecutorsOK, WorkersOK, CommandsOK, RowsOK, LocksOK, tx
  <1>3. 0 \in Pages
    BY BoundsAssumption DEF Pages
  <1>1. ASSUME NEW r \in Runs, NEW lane \in Lanes, NewRun(r, lane)
        PROVE  run' \in [Runs -> RunRow]
    <2>1. "queued" \in RunStatus
      BY DEF RunStatus, Active
    <2>2. QED
      BY <1>1, <2>1 DEF NewRun, RunRow
  <1>2. ASSUME NEW c \in Commands, NEW action \in Actions, NEW r \in Runs \cup {None},
               NEW p \in Pages, Accept(c, Pending(action, r, p)),
               action \notin {"run", "restart"} => r \in Runs
        PROVE  /\ cmd' \in [Commands -> Command]
               /\ \A d \in Commands : cmd'[d].action \in {"pause", "cancel", "resume", "retry"} =>
                                        cmd'[d].run \in Runs
    <2>1. NoCmd \in Command
      BY <1>3 DEF NoCmd, Command, NoBase
    <2>2. Pending(action, r, p) \in Command
      BY <2>1 DEF Command, Pending
    <2>3. Pending(action, r, p).action = action /\ Pending(action, r, p).run = r
      BY DEF NoCmd, Pending
    <2>4. cmd' = [cmd EXCEPT ![c] = Pending(action, r, p)]
      BY <1>2 DEF Accept
    <2>5. cmd' \in [Commands -> Command]
      BY <2>2, <2>4
    <2>6. ASSUME NEW d \in Commands, cmd'[d].action \in {"pause", "cancel", "resume", "retry"}
          PROVE  cmd'[d].run \in Runs
      <3>1. CASE d = c
        BY <1>2, <2>3, <2>4, <2>6, <3>1
      <3>2. CASE d # c
        BY <2>4, <2>6, <3>2
      <3>3. QED
        BY <3>1, <3>2
    <2>7. QED
      BY <2>5, <2>6
  <1>4. ASSUME NEW r \in Runs, NEW lane \in Lanes, ScheduleRun(r, lane) PROVE TypeInv'
    BY <1>1, <1>4 DEF ScheduleRun
  <1>5. ASSUME NEW c \in Commands, NEW r \in Runs, NEW lane \in Lanes, SubmitRun(c, r, lane)
        PROVE  TypeInv'
    BY <1>1, <1>2, <1>3, <1>5 DEF SubmitRun, Actions
  <1>6. ASSUME NEW c \in Commands, NEW r \in Runs, NEW action \in {"pause", "resume", "cancel"},
               SubmitAction(c, r, action)
        PROVE  TypeInv'
    BY <1>2, <1>3, <1>6 DEF SubmitAction, Actions, Recovery
  <1>7. ASSUME NEW c \in Commands, NEW r \in Runs, NEW p \in Pages, SubmitRetry(c, r, p)
        PROVE  TypeInv'
    BY <1>2, <1>7 DEF SubmitRetry, Actions, Recovery
  <1>8. ASSUME NEW c \in Commands, SubmitRestart(c) PROVE TypeInv'
    BY <1>2, <1>3, <1>8 DEF SubmitRestart, Actions, Recovery
  <1>9. CASE PatchEnabled
    BY <1>9 DEF PatchEnabled, Disturb
  <1>10. QED
    BY <1>4, <1>5, <1>6, <1>7, <1>8, <1>9 DEF Requests

LEMMA SetExecutor ==
  ASSUME ExecutorsOK, NEW x \in Executors, NEW e \in Executor, e.pc = "spawn" => e.run \in Runs,
         ex' = [ex EXCEPT ![x] = e]
  PROVE  ExecutorsOK'
  BY DEF ExecutorsOK

LEMMA GotoType ==
  ASSUME ExecutorsOK, NEW x \in Executors, NEW pc \in ExecutorPc \ {"spawn"}, Goto(x, pc)
  PROVE  ExecutorsOK'
  <1>1. [ex[x] EXCEPT !.pc = pc] \in Executor
    BY DEF ExecutorsOK, Executor
  <1>2. [ex[x] EXCEPT !.pc = pc].pc = pc
    BY DEF ExecutorsOK, Executor
  <1>3. ex' = [ex EXCEPT ![x] = [ex[x] EXCEPT !.pc = pc]]
    BY DEF Goto
  <1>4. QED
    BY <1>1, <1>2, <1>3, SetExecutor

LEMMA SetWorker ==
  ASSUME WorkersOK, NEW w \in Workers, NEW v \in Worker,
         v.pc \in {"spawned", "started", "fetching"} => v.run \in Runs,
         wk' = [wk EXCEPT ![w] = v]
  PROVE  WorkersOK'
  BY DEF WorkersOK

\* The command transaction keeps the types.
LEMMA CommandsType ==
  ASSUME TypeInv, NEW x \in Executors, BeginCommands(x) \/ ApplyStep(x)
  PROVE  TypeInv'
  <1> USE DEF TypeInv
  <1>1. Resumes(ex[x].pc) \in ExecutorPc \ {"spawn"}
    BY DEF Resumes, ExecutorPc
  <1>2. CASE BeginCommands(x)
    <2>1. ExecutorsOK'
      BY <1>1, <1>2, GotoType DEF BeginCommands, ExecutorsOK
    <2>2. LocksOK'
      BY <1>2 DEF BeginCommands, LocksOK, tx, Unapplied
    <2>3. WorkersOK' /\ CommandsOK' /\ RowsOK'
      BY <1>2 DEF BeginCommands, WorkersOK, CommandsOK, RowsOK, rows
    <2>4. QED
      BY <2>1, <2>2, <2>3
  <1>3. ASSUME NEW c \in Commands, Next1(x, c)
        PROVE  ExecutorsOK' /\ WorkersOK' /\ LocksOK'
    <2>1. ExecutorsOK'
      BY <1>1, <1>3, GotoType DEF Next1, ExecutorsOK
    <2>2. WorkersOK' /\ LocksOK'
      BY <1>3 DEF Next1, WorkersOK, LocksOK
    <2>3. QED
      BY <2>1, <2>2
  <1>4. ASSUME NEW c \in Commands, NEW e \in Command, cmd' = [cmd EXCEPT ![c] = e],
               e.run = cmd[c].run, e.action = cmd[c].action
        PROVE  CommandsOK'
    BY <1>4 DEF CommandsOK
  <1>5. ASSUME NEW c \in Commands, NEW status \in {"running", "succeeded", "failed"},
               cmd' = [cmd EXCEPT ![c].status = status]
        PROVE  CommandsOK'
    <2>1. [cmd[c] EXCEPT !.status = status] \in Command
      BY DEF CommandsOK, Command
    <2>2. /\ [cmd[c] EXCEPT !.status = status].run = cmd[c].run
          /\ [cmd[c] EXCEPT !.status = status].action = cmd[c].action
      BY DEF CommandsOK, Command
    <2>3. QED
      BY <1>4, <1>5, <2>1, <2>2
  <1>6. ASSUME NEW c \in Commands, NEW status \in {"running", "succeeded"}, NEW rs \in SUBSET Runs,
               cmd' = Applied(c, status, rs)
        PROVE  CommandsOK'
    <2> DEFINE base == [r \in Runs |-> IF r \in rs THEN run[r].page ELSE 0]
               e    == [cmd[c] EXCEPT !.status = status, !.over = rs, !.at = rt.gen, !.base = base]
    <2>1. base \in [Runs -> Nat] /\ rt.gen \in Nat
      BY DEF RowsOK, RunRow, Runtime
    <2> HIDE DEF base
    <2>2. e \in Command /\ e.run = cmd[c].run /\ e.action = cmd[c].action
      <3>1. cmd[c] \in Command
        BY DEF CommandsOK
      <3>2. e.run = cmd[c].run /\ e.action = cmd[c].action
        BY <3>1 DEF Command
      <3>3. e \in Command
        BY <2>1, <3>1 DEF Command
      <3>4. QED
        BY <3>2, <3>3
    <2>3. cmd' = [cmd EXCEPT ![c] = e]
      BY <1>6 DEF Applied, CommandsOK, base
    <2>4. QED
      BY <1>4, <2>2, <2>3
  <1>7. ASSUME NEW r \in Runs, NEW status \in RunStatus,
               run' = [run EXCEPT ![r].gen = @ + 1, ![r].status = status]
        PROVE  run' \in [Runs -> RunRow]
    <2>1. run[r].gen + 1 \in Nat
      BY DEF RowsOK, RunRow
    <2>2. QED
      BY <1>7, <2>1 DEF RowsOK, RunRow
  <1>8. {"paused", "cancelled", "queued"} \subseteq RunStatus
    BY DEF RunStatus, Active, Settled
  <1>9. ASSUME NEW c \in Commands, RejectCommand(x, c) PROVE TypeInv'
    <2>1. CommandsOK'
      BY <1>5, <1>9 DEF RejectCommand
    <2>2. RowsOK'
      BY <1>9 DEF RejectCommand, Next1, RowsOK
    <2>3. QED
      BY <1>3, <1>9, <2>1, <2>2 DEF RejectCommand
  <1>10. ASSUME NEW c \in Commands, ApplyPause(x, c) PROVE TypeInv'
    <2>1. cmd[c].run \in Runs
      BY <1>10 DEF ApplyPause, CommandsOK
    <2>2. CommandsOK'
      BY <1>6, <1>10, <2>1 DEF ApplyPause
    <2>3. task' \in [Runs -> [Pages -> TaskRow]]
      BY <1>10, FenceTasksType, Constants DEF ApplyPause, RowsOK
    <2>4. run' \in [Runs -> RunRow]
      BY <1>7, <1>8, <1>10, <2>1 DEF ApplyPause
    <2>5. RowsOK'
      BY <1>10, <2>3, <2>4 DEF ApplyPause, Next1, RowsOK
    <2>6. QED
      BY <1>3, <1>10, <2>2, <2>5 DEF ApplyPause
  <1>11. ASSUME NEW c \in Commands, ApplyCancel(x, c) PROVE TypeInv'
    <2>1. cmd[c].run \in Runs
      BY <1>11 DEF ApplyCancel, CommandsOK
    <2>2. CommandsOK'
      BY <1>6, <1>11, <2>1 DEF ApplyCancel
    <2>3. task' \in [Runs -> [Pages -> TaskRow]]
      BY <1>11, FenceTasksType, Constants DEF ApplyCancel, RowsOK
    <2>4. run' \in [Runs -> RunRow]
      BY <1>7, <1>8, <1>11, <2>1 DEF ApplyCancel
    <2>5. RowsOK'
      BY <1>11, <2>3, <2>4 DEF ApplyCancel, Next1, RowsOK
    <2>6. QED
      BY <1>3, <1>11, <2>2, <2>5 DEF ApplyCancel
  <1>12. ASSUME NEW c \in Commands, ApplyRun(x, c) PROVE TypeInv'
    <2>1. CommandsOK'
      BY <1>5, <1>12 DEF ApplyRun
    <2>2. run' \in [Runs -> RunRow]
      <3> DEFINE r == cmd[c].run
                 s == IF run[r].status = "interrupted" THEN "queued" ELSE run[r].status
      <3>1. run' = [run EXCEPT ![r].status = s] /\ run \in [Runs -> RunRow]
        BY <1>12 DEF ApplyRun, RowsOK
      <3>2. ASSUME r \in Runs PROVE [run[r] EXCEPT !.status = s] \in RunRow
        <4>1. run[r] \in RunRow
          BY <3>1, <3>2
        <4>2. s \in RunStatus
          BY <1>8, <4>1 DEF RunRow
        <4> HIDE DEF s
        <4>3. QED
          BY <4>1, <4>2 DEF RunRow
      <3> HIDE DEF r, s
      <3>3. QED
        BY <3>1, <3>2
    <2>3. RowsOK'
      BY <1>12, <2>2 DEF ApplyRun, Next1, RowsOK
    <2>4. QED
      BY <1>3, <1>12, <2>1, <2>3 DEF ApplyRun
  <1>13. ASSUME NEW c \in Commands, NEW rs \in SUBSET Runs, ApplyRecovery(x, c, rs)
         PROVE  TypeInv'
    <2>1. CommandsOK'
      BY <1>6, <1>13 DEF ApplyRecovery
    <2>2. task' \in [Runs -> [Pages -> TaskRow]]
      <3>1. FenceTasks(rs, "pending") \in [Runs -> [Pages -> TaskRow]]
        BY FenceTasksType, Constants DEF RowsOK
      <3>2. ASSUME NEW t \in TaskRow, NEW b \in BOOLEAN
            PROVE  [t EXCEPT !.tries = IF b THEN 0 ELSE @] \in TaskRow
        BY DEF TaskRow
      <3>3. QED
        BY <1>13, <3>1, <3>2 DEF ApplyRecovery
    <2>3. run' \in [Runs -> RunRow]
      <3>1. ASSUME NEW r \in Runs
            PROVE  [run[r] EXCEPT !.status = "queued", !.gen = @ + 1, !.base = run[r].page,
                                  !.type = IF @ = None THEN "realtime" ELSE @] \in RunRow
        <4>1. run[r].gen + 1 \in Nat
          BY DEF RowsOK, RunRow
        <4>2. (IF run[r].type = None THEN "realtime" ELSE run[r].type) \in Lanes \cup {None}
          BY DEF RowsOK, RunRow, Lanes
        <4>3. QED
          BY <1>8, <4>1, <4>2 DEF RowsOK, RunRow
      <3>2. QED
        BY <1>13, <3>1 DEF ApplyRecovery, RowsOK
    <2>4. rt' \in Runtime
      <3>1. (IF rt.status = "running" THEN rt.status ELSE "idle") \in
              {"idle", "running", "paused", "waiting_login"}
        OBVIOUS
      <3>2. QED
        BY <1>13, <3>1 DEF ApplyRecovery, RowsOK, Runtime
    <2>5. RowsOK'
      BY <1>13, <2>2, <2>3, <2>4 DEF ApplyRecovery, Next1, RowsOK
    <2>6. QED
      BY <1>3, <1>13, <2>1, <2>5 DEF ApplyRecovery
  <1>14. ASSUME NEW c \in Commands, PollRestart(x, c) PROVE TypeInv'
    <2>1. CommandsOK'
      <3>1. CASE Progressed(c)
        BY <1>5, <1>14, <3>1 DEF PollRestart
      <3>2. CASE ~Progressed(c)
        BY <1>5, <1>14, <3>2 DEF PollRestart
      <3>3. QED
        BY <3>1, <3>2
    <2>2. RowsOK'
      BY <1>14 DEF PollRestart, Next1, RowsOK
    <2>3. QED
      BY <1>3, <1>14, <2>1, <2>2 DEF PollRestart
  <1>15. QED
    BY <1>2, <1>9, <1>10, <1>11, <1>12, <1>13, <1>14 DEF ApplyStep

\* The executor's other steps keep the types.
LEMMA ExecutorType ==
  ASSUME TypeInv, NEW x \in Executors, ExecutorStep(x)
  PROVE  TypeInv'
  <1> USE DEF TypeInv
  <1>0. ExecutorPc \ {"spawn"} = {"off", "waiting", "boot", "top", "check", "budget", "claim",
                                  "supervise", "inspect", "reap", "record", "after"}
    BY DEF ExecutorPc
  <1>1. ASSUME Goto(x, "waiting") \/ Goto(x, "boot") \/ Goto(x, "top") \/ Goto(x, "budget")
                 \/ Goto(x, "claim") \/ Goto(x, "supervise") \/ Goto(x, "reap")
        PROVE  ExecutorsOK'
    BY <1>0, <1>1, GotoType
  <1>2. ASSUME NEW e \in Executor, e.pc # "spawn", ex' = [ex EXCEPT ![x] = e]
        PROVE  ExecutorsOK'
    BY <1>2, SetExecutor
  <1>3. CASE Acquire(x)
    <2>1. ExecutorsOK'
      BY <1>1, <1>3 DEF Acquire
    <2>2. WorkersOK' /\ CommandsOK' /\ RowsOK' /\ LocksOK'
      BY <1>3 DEF Acquire, WorkersOK, CommandsOK, RowsOK, LocksOK, rows, tx
    <2>3. QED
      BY <2>1, <2>2
  <1>4. CASE LeaseWaited(x)
    <2>1. ExecutorsOK'
      BY <1>1, <1>4 DEF LeaseWaited
    <2>2. WorkersOK' /\ CommandsOK' /\ RowsOK' /\ LocksOK'
      BY <1>4 DEF LeaseWaited, WorkersOK, CommandsOK, RowsOK, LocksOK, rows, tx
    <2>3. QED
      BY <2>1, <2>2
  <1>5. CASE TakeOver(x)
    <2>1. ExecutorsOK'
      BY <1>1, <1>5 DEF TakeOver
    <2>2. rt' \in Runtime
      <3>1. /\ (rt.pending \/ rt.status = "running") \in BOOLEAN
            /\ (IF rt.status = "running" THEN "idle" ELSE rt.status) \in
                 {"idle", "running", "paused", "waiting_login"}
        BY DEF RowsOK, Runtime
      <3>2. QED
        BY <1>5, <3>1 DEF TakeOver, RowsOK, Runtime
    <2>3. WorkersOK' /\ CommandsOK' /\ RowsOK' /\ LocksOK'
      BY <1>5, <2>2 DEF TakeOver, WorkersOK, CommandsOK, RowsOK, LocksOK, tx
    <2>4. QED
      BY <2>1, <2>3
  <1>6. CASE LockGone(x)
    <2>1. ExecutorsOK'
      BY <1>2, <1>6, Constants DEF LockGone
    <2>2. WorkersOK' /\ CommandsOK' /\ RowsOK' /\ LocksOK'
      BY <1>6 DEF LockGone, WorkersOK, CommandsOK, RowsOK, LocksOK, rows, tx
    <2>3. QED
      BY <2>1, <2>2
  <1>7. CASE ProbeWorker(x)
    <2>1. ExecutorsOK'
      BY <1>1, <1>7 DEF ProbeWorker
    <2>2. WorkersOK' /\ CommandsOK' /\ RowsOK' /\ LocksOK'
      BY <1>7 DEF ProbeWorker, WorkersOK, CommandsOK, RowsOK, LocksOK, rows, tx
    <2>3. QED
      BY <2>1, <2>2
  <1>8. CASE RestartBudget(x)
    <2>1. ExecutorsOK'
      BY <1>1, <1>8 DEF RestartBudget
    <2>2. rt' \in Runtime
      BY <1>8 DEF RestartBudget, RowsOK, Runtime
    <2>3. WorkersOK' /\ CommandsOK' /\ RowsOK' /\ LocksOK'
      BY <1>8, <2>2 DEF RestartBudget, WorkersOK, CommandsOK, RowsOK, LocksOK, tx
    <2>4. QED
      BY <2>1, <2>3
  <1>9. ASSUME NEW r \in Runs, NEW p \in Pages, ClaimBatch(x, r, p) PROVE TypeInv'
    <2>1. rt.gen + 1 \in Nat /\ run[r].gen + 1 \in Nat /\ rt.fresh + 1 \in Nat /\ rt.fresh \in Nat
      BY DEF RowsOK, Runtime, RunRow
    <2>2. ExecutorsOK'
      <3> DEFINE e == [Idle EXCEPT !.pc = "spawn", !.run = r,
                                   !.srcGen = rt.gen + 1, !.runGen = run[r].gen + 1]
      <3>1. e \in Executor /\ e.run = r
        BY <2>1, Constants DEF Executor, ExecutorPc
      <3>2. ex' = [ex EXCEPT ![x] = e]
        BY <1>9 DEF ClaimBatch
      <3>3. QED
        BY <3>1, <3>2, SetExecutor
    <2>3. rt' \in Runtime
      <3>1. /\ (IF rt.pending THEN rt.fresh + 1 ELSE rt.fresh) \in Nat
            /\ run[r].type \in Lanes \cup {None}
            /\ "live" \in Leases
        BY <2>1 DEF RowsOK, RunRow, Leases
      <3>2. QED
        BY <1>9, <2>1, <3>1 DEF ClaimBatch, RowsOK, Runtime
    <2>4. run' \in [Runs -> RunRow]
      <3>1. "running" \in RunStatus
        BY DEF RunStatus, Active
      <3>2. QED
        BY <1>9, <2>1, <3>1 DEF ClaimBatch, RowsOK, RunRow
    <2>5. task' \in [Runs -> [Pages -> TaskRow]]
      <3> DEFINE old == IF HasTask(r) THEN task[r][p] ELSE NewTask
                 new == [old EXCEPT !.status = "queued", !.lease = "none"]
      <3>1. old \in TaskRow /\ "queued" \in TaskStatus /\ "none" \in Leases
        BY Constants DEF RowsOK, TaskStatus, Leases
      <3> HIDE DEF old
      <3>2. new \in TaskRow
        BY <3>1 DEF TaskRow
      <3>3. task' = [task EXCEPT ![r][p] = new]
        BY <1>9 DEF ClaimBatch, old
      <3> HIDE DEF new
      <3>4. QED
        BY <3>2, <3>3 DEF RowsOK
    <2>6. WorkersOK' /\ CommandsOK' /\ RowsOK' /\ LocksOK'
      BY <1>9, <2>3, <2>4, <2>5 DEF ClaimBatch, WorkersOK, CommandsOK, RowsOK, LocksOK, tx
    <2>7. QED
      BY <2>2, <2>6
  <1>10. CASE NothingToClaim(x)
    <2>1. ExecutorsOK'
      BY <1>1, <1>10 DEF NothingToClaim
    <2>2. WorkersOK' /\ CommandsOK' /\ RowsOK' /\ LocksOK'
      BY <1>10 DEF NothingToClaim, WorkersOK, CommandsOK, RowsOK, LocksOK, rows, tx
    <2>3. QED
      BY <2>1, <2>2
  <1>11. ASSUME NEW w \in Workers, Spawn(x, w) PROVE TypeInv'
    <2>1. WorkersOK'
      <3> DEFINE v == [NoWorker EXCEPT !.pc = "spawned", !.run = ex[x].run,
                                       !.srcGen = ex[x].srcGen, !.runGen = ex[x].runGen]
      <3>1. v \in Worker /\ v.run = ex[x].run
        BY Constants DEF Worker, WorkerPc, ExecutorsOK, Executor
      <3>2. wk' = [wk EXCEPT ![w] = v] /\ ex[x].run \in Runs
        BY <1>11 DEF Spawn, ExecutorsOK
      <3>3. QED
        BY <3>1, <3>2, SetWorker
    <2>2. ExecutorsOK'
      <3>1. [ex[x] EXCEPT !.pc = "supervise", !.w = w] \in Executor
        BY DEF ExecutorsOK, Executor, ExecutorPc
      <3>2. [ex[x] EXCEPT !.pc = "supervise", !.w = w].pc # "spawn"
        BY DEF ExecutorsOK, Executor
      <3>3. ex' = [ex EXCEPT ![x] = [ex[x] EXCEPT !.pc = "supervise", !.w = w]]
        BY <1>11 DEF Spawn
      <3>4. QED
        BY <1>2, <3>1, <3>2, <3>3
    <2>3. CommandsOK' /\ RowsOK' /\ LocksOK'
      BY <1>11 DEF Spawn, CommandsOK, RowsOK, LocksOK, rows, tx
    <2>4. QED
      BY <2>1, <2>2, <2>3
  <1>12. CASE SpawnFails(x)
    <2>1. ExecutorsOK'
      <3>1. [ex[x] EXCEPT !.pc = "record", !.ok = FALSE] \in Executor
        BY DEF ExecutorsOK, Executor, ExecutorPc
      <3>2. [ex[x] EXCEPT !.pc = "record", !.ok = FALSE].pc # "spawn"
        BY DEF ExecutorsOK, Executor
      <3>3. ex' = [ex EXCEPT ![x] = [ex[x] EXCEPT !.pc = "record", !.ok = FALSE]]
        BY <1>12 DEF SpawnFails
      <3>4. QED
        BY <1>2, <3>1, <3>2, <3>3
    <2>2. WorkersOK' /\ CommandsOK' /\ RowsOK' /\ LocksOK'
      BY <1>12 DEF SpawnFails, Disturb, WorkersOK, CommandsOK, RowsOK, LocksOK, rows, tx
    <2>3. QED
      BY <2>1, <2>2
  <1>13. CASE Renew(x)
    <2>1. ExecutorsOK'
      BY <1>1, <1>13 DEF Renew
    <2>2. rt' \in Runtime
      BY <1>13 DEF Renew, RowsOK, Runtime, Leases
    <2>3. WorkersOK' /\ CommandsOK' /\ RowsOK'
      BY <1>13, <2>2 DEF Renew, WorkersOK, CommandsOK, RowsOK
    <2>4. LocksOK'
      BY <1>13 DEF Renew, Disturb, LocksOK, tx
    <2>5. QED
      BY <2>1, <2>3, <2>4
  <1>14. CASE Superseded(x)
    <2>1. ExecutorsOK'
      BY <1>1, <1>14 DEF Superseded
    <2>2. WorkersOK' /\ CommandsOK' /\ RowsOK' /\ LocksOK'
      BY <1>14 DEF Superseded, WorkersOK, CommandsOK, RowsOK, LocksOK, rows, tx
    <2>3. QED
      BY <2>1, <2>2
  <1>15. CASE Reap(x)
    <2>1. ExecutorsOK'
      <3> DEFINE ok == wk[ex[x].w].pc = "dead" /\ wk[ex[x].w].ok
                 e  == [ex[x] EXCEPT !.pc = "record", !.w = None, !.ok = ok]
      <3>1. ok \in BOOLEAN
        OBVIOUS
      <3>2. ex' = [ex EXCEPT ![x] = e]
        BY <1>15 DEF Reap
      <3> HIDE DEF ok
      <3>3. e \in Executor /\ e.pc # "spawn"
        BY <3>1 DEF ExecutorsOK, Executor, ExecutorPc
      <3>4. QED
        BY <1>2, <3>2, <3>3
    <2>2. WorkersOK'
      BY <1>15, Constants DEF Reap, WorkersOK
    <2>3. CommandsOK' /\ RowsOK' /\ LocksOK'
      BY <1>15 DEF Reap, CommandsOK, RowsOK, LocksOK, rows, tx
    <2>4. QED
      BY <2>1, <2>2, <2>3
  <1>16. CASE RecordExit(x)
    <2> DEFINE b == ex[x]
               current == rt.gen = b.srcGen
               lost == /\ current /\ ~b.ok
                       /\ run[b.run].status = "running" /\ run[b.run].gen = b.runGen
    <2>1. ExecutorsOK'
      <3>1. [Idle EXCEPT !.pc = "after"] \in Executor /\ [Idle EXCEPT !.pc = "after"].pc # "spawn"
        BY Constants DEF Executor, ExecutorPc
      <3>2. ex' = [ex EXCEPT ![x] = [Idle EXCEPT !.pc = "after"]]
        BY <1>16 DEF RecordExit
      <3>3. QED
        BY <1>2, <3>1, <3>2
    <2>2. task' \in [Runs -> [Pages -> TaskRow]]
      <3>1. FenceTasks({b.run}, "pending") \in [Runs -> [Pages -> TaskRow]]
        BY FenceTasksType, Constants DEF RowsOK
      <3>2. QED
        BY <1>16, <3>1 DEF RecordExit, RowsOK
    <2>3. run' \in [Runs -> RunRow]
      <3>1. "interrupted" \in RunStatus
        BY DEF RunStatus, Active
      <3>2. b.run \in Runs => run[b.run].gen + 1 \in Nat
        BY DEF RowsOK, RunRow
      <3>3. [run EXCEPT ![b.run].gen = @ + 1, ![b.run].status = "interrupted"] \in [Runs -> RunRow]
        BY <3>1, <3>2 DEF RowsOK, RunRow
      <3>4. QED
        BY <1>16, <3>3 DEF RecordExit, RowsOK
    <2>4. rt' \in Runtime
      <3>1. /\ (rt.pending \/ lost) \in BOOLEAN /\ (rt.backoff \/ lost) \in BOOLEAN
            /\ (IF rt.status = "running" THEN "idle" ELSE rt.status) \in
                 {"idle", "running", "paused", "waiting_login"}
            /\ "none" \in Leases
        BY DEF RowsOK, Runtime, Leases
      <3>2. [rt EXCEPT !.status = IF @ = "running" THEN "idle" ELSE @, !.lease = "none",
                       !.pending = @ \/ lost, !.backoff = @ \/ lost] \in Runtime
        BY <3>1 DEF RowsOK, Runtime
      <3>3. QED
        BY <1>16, <3>2 DEF RecordExit, RowsOK
    <2>5. WorkersOK' /\ CommandsOK' /\ RowsOK' /\ LocksOK'
      BY <1>16, <2>2, <2>3, <2>4 DEF RecordExit, WorkersOK, CommandsOK, RowsOK, LocksOK, tx
    <2>6. QED
      BY <2>1, <2>5
  <1>17. QED
    BY CommandsType, <1>3, <1>4, <1>5, <1>6, <1>7, <1>8, <1>9, <1>10, <1>11, <1>12, <1>13,
       <1>14, <1>15, <1>16
    DEF ExecutorStep

LEMMA EndedType ==
  ASSUME WorkersOK, wkLock \in Workers \cup {None},
         NEW w \in Workers, NEW ok \in BOOLEAN, Ended(w, ok)
  PROVE  WorkersOK' /\ wkLock' \in Workers \cup {None}
  <1>1. [NoWorker EXCEPT !.pc = "dead", !.ok = ok] \in Worker
    BY Constants DEF Worker, WorkerPc
  <1>2. [NoWorker EXCEPT !.pc = "dead", !.ok = ok].pc = "dead"
    BY Constants DEF Worker
  <1>3. WorkersOK'
    <2>1. CASE wk' = [wk EXCEPT ![w] = [NoWorker EXCEPT !.pc = "dead", !.ok = ok]]
      BY <1>1, <1>2, <2>1, SetWorker
    <2>2. CASE wk' = [wk EXCEPT ![w] = NoWorker]
      BY <2>2, Constants, SetWorker
    <2>3. QED
      BY <2>1, <2>2 DEF Ended
  <1>4. QED
    BY <1>3 DEF Ended

\* The worker's steps keep the types.
LEMMA WorkerType ==
  ASSUME TypeInv, NEW w \in Workers, WorkerStep(w)
  PROVE  TypeInv'
  <1> USE DEF TypeInv
  <1>1. ASSUME GivesUp(w) PROVE WorkersOK'
    <2>1. [wk[w] EXCEPT !.pc = "closing", !.ok = FALSE] \in Worker
      BY DEF WorkersOK, Worker, WorkerPc
    <2>2. [wk[w] EXCEPT !.pc = "closing", !.ok = FALSE].pc = "closing"
      BY DEF WorkersOK, Worker
    <2>3. wk' = [wk EXCEPT ![w] = [wk[w] EXCEPT !.pc = "closing", !.ok = FALSE]]
      BY <1>1 DEF GivesUp
    <2>4. QED
      BY <2>1, <2>2, <2>3, SetWorker
  <1>2. ASSUME wk' = [wk EXCEPT ![w].pc = "closing", ![w].ok = TRUE] PROVE WorkersOK'
    <2>1. [wk[w] EXCEPT !.pc = "closing", !.ok = TRUE] \in Worker
      BY DEF WorkersOK, Worker, WorkerPc
    <2>2. [wk[w] EXCEPT !.pc = "closing", !.ok = TRUE].pc = "closing"
      BY DEF WorkersOK, Worker
    <2>3. wk' = [wk EXCEPT ![w] = [wk[w] EXCEPT !.pc = "closing", !.ok = TRUE]]
      BY <1>2
    <2>4. QED
      BY <2>1, <2>2, <2>3, SetWorker
  <1>3. ASSUME wk[w].pc = "fetching" \/ wk[w].pc = "started"
        PROVE  /\ wk[w].run \in Runs /\ wk[w].page \in Pages
               /\ HeldTask(w) \in TaskRow
    BY <1>3 DEF WorkersOK, Worker, RowsOK, HeldTask
  <1>4. CASE Start(w)
    <2>1. ASSUME NEW p \in Pages, wk' = [wk EXCEPT ![w].pc = "started", ![w].page = p],
                 wk[w].pc = "spawned"
          PROVE  WorkersOK'
      <3>1. [wk[w] EXCEPT !.pc = "started", !.page = p] \in Worker
        BY DEF WorkersOK, Worker, WorkerPc
      <3>2. [wk[w] EXCEPT !.pc = "started", !.page = p].run \in Runs
        BY <2>1 DEF WorkersOK, Worker
      <3>3. wk' = [wk EXCEPT ![w] = [wk[w] EXCEPT !.pc = "started", !.page = p]]
        BY <2>1
      <3>4. QED
        BY <3>1, <3>2, <3>3, SetWorker
    <2>2. WorkersOK'
      BY <1>1, <1>4, <2>1 DEF Start
    <2>3. ExecutorsOK' /\ CommandsOK' /\ RowsOK' /\ LocksOK'
      BY <1>4 DEF Start, ExecutorsOK, CommandsOK, RowsOK, LocksOK, rows, tx
    <2>4. QED
      BY <2>2, <2>3
  <1>5. CASE Download(w)
    <2>1. /\ wk[w].run \in Runs /\ wk[w].page \in Pages
          /\ HeldTask(w) \in TaskRow /\ wk[w].pc = "started"
      BY <1>3, <1>5 DEF Download
    <2>2. HeldTask(w).gen + 1 \in Nat
      BY <2>1 DEF TaskRow
    <2>3. WorkersOK'
      <3> DEFINE v == [wk[w] EXCEPT !.pc = "fetching", !.taskGen = HeldTask(w).gen + 1, !.beat = TRUE]
      <3>1. v \in Worker
        BY <2>2 DEF WorkersOK, Worker, WorkerPc
      <3>2. v.run = wk[w].run
        BY DEF WorkersOK, Worker
      <3>3. wk' = [wk EXCEPT ![w] = v]
        BY <1>5 DEF Download
      <3>4. QED
        BY <2>1, <3>1, <3>2, <3>3, SetWorker
    <2>4. task' \in [Runs -> [Pages -> TaskRow]]
      <3> DEFINE old   == HeldTask(w)
                 tries == IF old.tries < MaxTries THEN old.tries + 1 ELSE old.tries
                 t     == [old EXCEPT !.gen = old.gen + 1, !.tries = tries,
                                      !.status = "running", !.lease = "live"]
      <3>1. old \in TaskRow /\ old.gen + 1 \in Nat /\ tries \in Nat
        BY <2>1, <2>2 DEF TaskRow
      <3>2. "running" \in TaskStatus /\ "live" \in Leases
        BY DEF TaskStatus, Leases
      <3>3. task' = [task EXCEPT ![wk[w].run][wk[w].page] = t]
        BY <1>5 DEF Download
      <3> HIDE DEF old, tries
      <3>4. t \in TaskRow
        BY <3>1, <3>2 DEF TaskRow
      <3> HIDE DEF t
      <3>5. QED
        BY <2>1, <3>3, <3>4 DEF RowsOK
    <2>5. ExecutorsOK' /\ CommandsOK' /\ RowsOK' /\ LocksOK'
      BY <1>5, <2>4 DEF Download, ExecutorsOK, CommandsOK, RowsOK, LocksOK, tx
    <2>6. QED
      BY <2>3, <2>5
  <1>6. CASE DownloadRefused(w)
    <2>1. WorkersOK'
      BY <1>1, <1>6 DEF DownloadRefused
    <2>2. ExecutorsOK' /\ CommandsOK' /\ RowsOK' /\ LocksOK'
      BY <1>6 DEF DownloadRefused, ExecutorsOK, CommandsOK, RowsOK, LocksOK, rows, tx
    <2>3. QED
      BY <2>1, <2>2
  <1>7. CASE Heartbeat(w)
    <2>1. WorkersOK'
      <3>1. [wk[w] EXCEPT !.beat = FALSE] \in Worker
        BY DEF WorkersOK, Worker
      <3>2. [wk[w] EXCEPT !.beat = FALSE].run = wk[w].run
        BY DEF WorkersOK, Worker
      <3>3. wk[w].run \in Runs
        BY <1>3, <1>7 DEF Heartbeat
      <3>4. CASE UNCHANGED wk
        BY <3>4 DEF WorkersOK
      <3>5. CASE wk' = [wk EXCEPT ![w] = [wk[w] EXCEPT !.beat = FALSE]]
        BY <3>1, <3>2, <3>3, <3>5, SetWorker
      <3>6. QED
        BY <1>7, <3>4, <3>5 DEF Heartbeat
    <2>2. task' \in [Runs -> [Pages -> TaskRow]]
      <3> DEFINE r == wk[w].run
                 p == wk[w].page
                 t == [task[r][p] EXCEPT !.lease = "live"]
      <3>1. r \in Runs /\ p \in Pages /\ "live" \in Leases
        BY <1>3, <1>7 DEF Heartbeat, Leases
      <3>2. task[r][p] \in TaskRow
        BY <3>1 DEF RowsOK
      <3>3. t \in TaskRow
        BY <3>1, <3>2 DEF TaskRow
      <3>4. task' = [task EXCEPT ![r][p] = t] \/ UNCHANGED task
        BY <1>7 DEF Heartbeat
      <3> HIDE DEF r, p, t
      <3>5. CASE task' = [task EXCEPT ![r][p] = t]
        BY <3>1, <3>3, <3>5 DEF RowsOK
      <3>6. CASE UNCHANGED task
        BY <3>6 DEF RowsOK
      <3>7. QED
        BY <3>4, <3>5, <3>6
    <2>3. ExecutorsOK' /\ CommandsOK' /\ RowsOK' /\ LocksOK'
      BY <1>7, <2>2 DEF Heartbeat, ExecutorsOK, CommandsOK, RowsOK, LocksOK, tx
    <2>4. QED
      BY <2>1, <2>3
  <1>8. ASSUME NEW outcome \in Outcomes, Commit(w, outcome) PROVE TypeInv'
    <2> DEFINE r == wk[w].run
               p == wk[w].page
               after == AfterPage(r, p + 1, outcome)
    <2>1. r \in Runs /\ p \in Pages /\ HeldTask(w) \in TaskRow
      BY <1>3, <1>8 DEF Commit
    <2>2. p + 1 \in Nat
      BY <2>1 DEF Pages
    <2>3. after \in RunStatus
      BY DEF AfterPage, Outcomes, RunStatus, Active, Settled
    <2>4. WorkersOK'
      BY <1>2, <1>8 DEF Commit
    <2>5. task' \in [Runs -> [Pages -> TaskRow]]
      <3>1. "succeeded" \in TaskStatus /\ "none" \in Leases
        BY DEF TaskStatus, Settled, Leases
      <3>2. ASSUME NEW t \in TaskRow
            PROVE  [t EXCEPT !.status = "succeeded", !.lease = "none", !.due = TRUE] \in TaskRow
        BY <3>1 DEF TaskRow
      <3> DEFINE done(t) == [t EXCEPT !.status = "succeeded", !.lease = "none", !.due = TRUE]
      <3>3. task' = [task EXCEPT ![r] = [q \in Pages |->
                       IF q = p THEN done(task[r][q])
                       ELSE IF q = p + 1 /\ after \in {"running", "paused"} THEN NewTask
                       ELSE task[r][q]]]
        BY <1>8 DEF Commit
      <3>4. \A t \in TaskRow : done(t) \in TaskRow
        BY <3>2
      <3> HIDE DEF done, r, p, after
      <3>5. QED
        BY <2>1, <3>3, <3>4, Constants DEF RowsOK
    <2>6. run' \in [Runs -> RunRow]
      <3>1. run' = [run EXCEPT ![r].page = p + 1, ![r].status = after]
        BY <1>8 DEF Commit
      <3> HIDE DEF after, r, p
      <3>2. QED
        BY <2>1, <2>2, <2>3, <3>1 DEF RowsOK, RunRow
    <2>7. log' \in [Runs -> Seq(Nat)]
      <3>1. wk[w].srcGen \in Nat
        BY DEF WorkersOK, Worker
      <3>2. Append(log[r], wk[w].srcGen) \in Seq(Nat)
        BY <2>1, <3>1 DEF RowsOK
      <3>3. QED
        BY <1>8, <2>1, <3>2 DEF Commit, RowsOK
    <2>8. ExecutorsOK' /\ CommandsOK' /\ RowsOK' /\ LocksOK'
      BY <1>8, <2>5, <2>6, <2>7 DEF Commit, ExecutorsOK, CommandsOK, RowsOK, LocksOK, tx
    <2>9. QED
      BY <2>4, <2>8
  <1>9. ASSUME NEW code \in Failures, Fail(w, code) PROVE TypeInv'
    <2> DEFINE r == wk[w].run
               p == wk[w].page
               Ends(taskStatus, runStatus) ==
                 /\ task' = [task EXCEPT ![r][p] = [@ EXCEPT !.status = taskStatus, !.lease = "none",
                                                     !.due = taskStatus # "retry_wait"]]
                 /\ run' = [run EXCEPT ![r].status = runStatus]
    <2>1. r \in Runs /\ p \in Pages
      BY <1>3, <1>9 DEF Fail
    <2>2. ASSUME NEW ts \in TaskStatus, NEW rs \in RunStatus, Ends(ts, rs)
          PROVE  task' \in [Runs -> [Pages -> TaskRow]] /\ run' \in [Runs -> RunRow]
      <3> DEFINE t == [task[r][p] EXCEPT !.status = ts, !.lease = "none", !.due = ts # "retry_wait"]
      <3>1. "none" \in Leases /\ (ts # "retry_wait") \in BOOLEAN
        BY DEF Leases
      <3>2. task[r][p] \in TaskRow
        BY <2>1 DEF RowsOK
      <3>3. t \in TaskRow
        BY <3>1, <3>2 DEF TaskRow
      <3>4. task' = [task EXCEPT ![r][p] = t]
        BY <2>2
      <3> HIDE DEF t
      <3>5. task' \in [Runs -> [Pages -> TaskRow]]
        BY <2>1, <3>3, <3>4 DEF RowsOK
      <3>6. run' \in [Runs -> RunRow]
        BY <2>1, <2>2 DEF RowsOK, RunRow
      <3>7. QED
        BY <3>5, <3>6
    <2>3. /\ {"failed", "pending", "retry_wait"} \subseteq TaskStatus
          /\ {"partial_failed", "waiting_login", "paused", "queued"} \subseteq RunStatus
      BY DEF TaskStatus, RunStatus, Active
    <2>4. \E ts \in {"failed", "pending", "retry_wait"},
             rs \in {"partial_failed", "waiting_login", "paused", "queued"} : Ends(ts, rs)
      BY <1>9 DEF Fail
    <2>5. task' \in [Runs -> [Pages -> TaskRow]] /\ run' \in [Runs -> RunRow]
      BY <2>2, <2>3, <2>4
    <2>6. rt' \in Runtime
      BY <1>9 DEF Fail, RowsOK, Runtime
    <2>7. WorkersOK'
      BY <1>2, <1>9 DEF Fail
    <2>8. ExecutorsOK' /\ CommandsOK' /\ RowsOK' /\ LocksOK'
      BY <1>9, <2>5, <2>6 DEF Fail, ExecutorsOK, CommandsOK, RowsOK, LocksOK, tx
    <2>9. QED
      BY <2>7, <2>8
  <1>10. CASE Discarded(w)
    <2>1. WorkersOK'
      BY <1>1, <1>10 DEF Discarded
    <2>2. ExecutorsOK' /\ CommandsOK' /\ RowsOK' /\ LocksOK'
      BY <1>10 DEF Discarded, ExecutorsOK, CommandsOK, RowsOK, LocksOK, rows, tx
    <2>3. QED
      BY <2>1, <2>2
  <1>11. CASE Exit(w)
    <2>1. wk[w].ok \in BOOLEAN
      BY DEF WorkersOK, Worker
    <2>2. WorkersOK' /\ wkLock' \in Workers \cup {None}
      BY <1>11, <2>1, EndedType DEF Exit, LocksOK
    <2>3. ExecutorsOK' /\ CommandsOK' /\ RowsOK' /\ LocksOK'
      BY <1>11, <2>2 DEF Exit, ExecutorsOK, CommandsOK, RowsOK, LocksOK, rows, tx
    <2>4. QED
      BY <2>2, <2>3
  <1>12. QED
    BY <1>4, <1>5, <1>6, <1>7, <1>8, <1>9, <1>10, <1>11 DEF WorkerStep

\* Crashes, lost locks and the login session keep the types.
LEMMA OutsideType == TypeInv /\ Outside => TypeInv'
  <1> SUFFICES ASSUME TypeInv, Outside PROVE TypeInv'
    OBVIOUS
  <1> USE DEF TypeInv
  <1>1. ASSUME NEW w \in Workers, WorkerCrash(w) PROVE TypeInv'
    <2>1. WorkersOK' /\ wkLock' \in Workers \cup {None}
      BY <1>1, EndedType DEF WorkerCrash, LocksOK
    <2>2. ExecutorsOK' /\ CommandsOK' /\ RowsOK' /\ LocksOK'
      BY <1>1, <2>1 DEF WorkerCrash, Disturb, ExecutorsOK, CommandsOK, RowsOK, LocksOK, rows, tx
    <2>3. QED
      BY <2>1, <2>2
  <1>2. ASSUME NEW x \in Executors, ExecutorCrash(x) PROVE TypeInv'
    <2>1. ExecutorsOK'
      BY <1>2, Constants, SetExecutor DEF ExecutorCrash
    <2>2. WorkersOK'
      BY <1>2, Constants DEF ExecutorCrash, WorkersOK
    <2>3. CommandsOK' /\ RowsOK' /\ LocksOK'
      BY <1>2 DEF ExecutorCrash, Disturb, CommandsOK, RowsOK, LocksOK, rows, tx
    <2>4. QED
      BY <2>1, <2>2, <2>3
  <1>3. CASE LoseExecutorLock
    BY <1>3 DEF LoseExecutorLock, Disturb, ExecutorsOK, WorkersOK, CommandsOK, RowsOK, LocksOK, rows, tx
  <1>4. CASE LoseWorkerLock
    BY <1>4 DEF LoseWorkerLock, Disturb, ExecutorsOK, WorkersOK, CommandsOK, RowsOK, LocksOK, rows, tx
  <1>5. CASE PauseForLogin
    <2>1. rt' \in Runtime
      <3>1. rt.gen + 1 \in Nat /\ "none" \in Leases
        BY DEF RowsOK, Runtime, Leases
      <3>2. StatusForLogin \in {"paused", "waiting_login"}
        BY DEF StatusForLogin
      <3>3. QED
        BY <1>5, <3>1, <3>2 DEF PauseForLogin, RowsOK, Runtime
    <2>2. run' \in [Runs -> RunRow]
      <3>1. "waiting_login" \in RunStatus
        BY DEF RunStatus, Active
      <3>2. \A r \in Runs : [run[r] EXCEPT !.status = "waiting_login"] \in RunRow
        BY <3>1 DEF RowsOK, RunRow
      <3>3. QED
        BY <1>5, <3>2 DEF PauseForLogin, RowsOK
    <2>3. task' \in [Runs -> [Pages -> TaskRow]]
      BY <1>5, FencedType, Constants DEF PauseForLogin, RowsOK
    <2>4. ExecutorsOK' /\ WorkersOK' /\ CommandsOK' /\ RowsOK' /\ LocksOK'
      BY <1>5, <2>1, <2>2, <2>3
      DEF PauseForLogin, Disturb, ExecutorsOK, WorkersOK, CommandsOK, RowsOK, LocksOK, tx
    <2>5. QED
      BY <2>4
  <1>6. CASE PublishSession
    <2>1. rt' \in Runtime
      BY <1>6 DEF PublishSession, RowsOK, Runtime
    <2>2. run' \in [Runs -> RunRow]
      <3>1. "queued" \in RunStatus
        BY DEF RunStatus, Active
      <3>2. \A r \in Runs : [run[r] EXCEPT !.status = "queued"] \in RunRow
        BY <3>1 DEF RowsOK, RunRow
      <3>3. QED
        BY <1>6, <3>2 DEF PublishSession, RowsOK
    <2>3. QED
      BY <1>6, <2>1, <2>2 DEF PublishSession, ExecutorsOK, WorkersOK, CommandsOK, RowsOK, LocksOK, tx
  <1>7. QED
    BY <1>1, <1>2, <1>3, <1>4, <1>5, <1>6 DEF Outside

\* Expiring leases, retry delays, back-off and restart stamps keep the types.
LEMMA TimeType == TypeInv /\ Time => TypeInv'
  <1> SUFFICES ASSUME TypeInv, Time PROVE TypeInv'
    OBVIOUS
  <1> USE DEF TypeInv, tx
  <1>1. ASSUME rt' \in Runtime, UNCHANGED <<enabled, run, task, cmd, log, tx, ex, exLock, wk, wkLock, faults>>
        PROVE  TypeInv'
    BY <1>1 DEF ExecutorsOK, WorkersOK, CommandsOK, RowsOK, LocksOK
  <1>2. ASSUME NEW r \in Runs, NEW p \in Pages, NEW t \in TaskRow, task' = [task EXCEPT ![r][p] = t],
               UNCHANGED <<rt, enabled, run, cmd, log, tx, ex, exLock, wk, wkLock, faults>>
        PROVE  TypeInv'
    <2>1. task' \in [Runs -> [Pages -> TaskRow]]
      BY <1>2 DEF RowsOK
    <2>2. QED
      BY <1>2, <2>1 DEF ExecutorsOK, WorkersOK, CommandsOK, RowsOK, LocksOK
  <1>3. CASE LeaseExpires
    <2>1. rt' \in Runtime
      BY <1>3 DEF LeaseExpires, RowsOK, Runtime, Leases
    <2>2. QED
      BY <1>1, <1>3, <2>1 DEF LeaseExpires
  <1>4. CASE BackoffOver
    <2>1. rt' \in Runtime
      BY <1>4 DEF BackoffOver, RowsOK, Runtime
    <2>2. QED
      BY <1>1, <1>4, <2>1 DEF BackoffOver
  <1>5. CASE StampAges
    <2>1. rt.fresh - 1 \in Nat
      BY <1>5 DEF StampAges, RowsOK, Runtime
    <2>2. rt' \in Runtime
      BY <1>5, <2>1 DEF StampAges, RowsOK, Runtime
    <2>3. QED
      BY <1>1, <1>5, <2>2 DEF StampAges
  <1>6. ASSUME NEW r \in Runs, NEW p \in Pages, TaskLeaseExpires(r, p) PROVE TypeInv'
    <2> DEFINE t == [task[r][p] EXCEPT !.lease = "expired"]
    <2>0. task[r][p] \in TaskRow /\ "expired" \in Leases
      BY DEF RowsOK, Leases
    <2>1. t \in TaskRow
      BY <2>0 DEF TaskRow
    <2>2. task' = [task EXCEPT ![r][p] = t]
      BY <1>6 DEF TaskLeaseExpires
    <2> HIDE DEF t
    <2>3. UNCHANGED <<rt, enabled, run, cmd, log, tx, ex, exLock, wk, wkLock, faults>>
      BY <1>6 DEF TaskLeaseExpires
    <2>4. QED
      BY <1>2, <2>1, <2>2, <2>3
  <1>7. ASSUME NEW r \in Runs, NEW p \in Pages, RetryDue(r, p) PROVE TypeInv'
    <2> DEFINE t == [task[r][p] EXCEPT !.due = TRUE]
    <2>0. task[r][p] \in TaskRow
      BY DEF RowsOK
    <2>1. t \in TaskRow
      BY <2>0 DEF TaskRow
    <2>2. task' = [task EXCEPT ![r][p] = t]
      BY <1>7 DEF RetryDue
    <2> HIDE DEF t
    <2>3. UNCHANGED <<rt, enabled, run, cmd, log, tx, ex, exLock, wk, wkLock, faults>>
      BY <1>7 DEF RetryDue
    <2>4. QED
      BY <1>2, <2>1, <2>2, <2>3
  <1>8. QED
    BY <1>3, <1>4, <1>5, <1>6, <1>7 DEF Time

\* Every step keeps the types.
LEMMA TypeStep == TypeInv /\ [Next]_vars => TypeInv'
  <1>1. TypeInv /\ UNCHANGED vars => TypeInv'
    BY DEF vars, rows, tx, TypeInv, ExecutorsOK, WorkersOK, CommandsOK, RowsOK, LocksOK
  <1>2. QED
    BY <1>1, RequestsType, ExecutorType, WorkerType, OutsideType, TimeType DEF Next

\* The rows, locks and processes of the ledger stay well typed (TypeOK), and a
\* batch always names a run.
THEOREM TypeInvariant == Spec => []TypeInv
  <1>1. QED
    BY InitType, TypeStep, PTL DEF Spec

\* The type invariant that the runs check.
THEOREM TypeCorrect == Spec => []TypeOK
  <1>1. QED
    BY TypeInvariant, TypeInvType, PTL

-----------------------------------------------------------------------------
(* Why fencing by generations works: every batch is claimed under a source  *)
(* generation of its own, and a command that moves a run's generation       *)
(* leaves every batch claimed before it behind.  Neither the advisory locks *)
(* nor the leases are needed for that.                                      *)

\* A batch is in the hands of an executor about to spawn its worker, or of a
\* worker that may still write.
Spawning(x) == ex[x].pc = "spawn"
AtWork(w)   == wk[w].pc \in {"spawned", "started", "fetching"}

\* Generations of batches and commands were issued by the source row.
Issued ==
  /\ \A x \in Executors : Spawning(x) => ex[x].srcGen <= rt.gen
  /\ \A w \in Workers : AtWork(w) => wk[w].srcGen <= rt.gen
  /\ \A c \in Commands : cmd[c].at <= rt.gen

\* No two batches share a source generation.
Distinct ==
  /\ \A x, y \in Executors : Spawning(x) /\ Spawning(y) /\ x # y => ex[x].srcGen # ex[y].srcGen
  /\ \A x \in Executors, w \in Workers :
       Spawning(x) /\ AtWork(w) => ex[x].srcGen # wk[w].srcGen
  /\ \A v, w \in Workers : AtWork(v) /\ AtWork(w) /\ v # w => wk[v].srcGen # wk[w].srcGen

\* The generation a batch has of its run is not ahead of the run's, and is
\* behind it once a later command was applied to the run.
Behind(r, srcGen, runGen) ==
  /\ runGen <= run[r].gen
  /\ \A c \in Commands : r \in cmd[c].over /\ srcGen <= cmd[c].at => runGen < run[r].gen

LeftBehind ==
  /\ \A x \in Executors : Spawning(x) => Behind(ex[x].run, ex[x].srcGen, ex[x].runGen)
  /\ \A w \in Workers : AtWork(w) => Behind(wk[w].run, wk[w].srcGen, wk[w].runGen)

FenceInv == Issued /\ Distinct /\ LeftBehind

-----------------------------------------------------------------------------
\* What every step but a claim and a spawn does: generations grow, no process
\* comes by a batch, and a command applied to a run moves its generation.
GenerationsGrow ==
  /\ rt'.gen >= rt.gen
  /\ \A r \in Runs : run'[r].gen >= run[r].gen

NoBatchForExecutors ==
  \A x \in Executors : ex'[x].pc = "spawn" => ex'[x] = ex[x]

NoBatchForWorkers ==
  \A w \in Workers : wk'[w].pc \in {"spawned", "started", "fetching"} =>
    /\ wk[w].pc \in {"spawned", "started", "fetching"}
    /\ wk'[w].run = wk[w].run /\ wk'[w].srcGen = wk[w].srcGen /\ wk'[w].runGen = wk[w].runGen

CommandsMoveRuns ==
  \A c \in Commands :
    /\ cmd'[c].at \in {0, cmd[c].at, rt'.gen}
    /\ \A r \in cmd'[c].over :
         \/ r \in cmd[c].over /\ cmd'[c].at = cmd[c].at
         \/ run'[r].gen > run[r].gen

LEMMA QuietStep ==
  ASSUME TypeInv, TypeInv', FenceInv,
         GenerationsGrow, NoBatchForExecutors, NoBatchForWorkers, CommandsMoveRuns
  PROVE  FenceInv'
  <1>1. /\ rt.gen \in Nat /\ rt'.gen \in Nat
        /\ \A r \in Runs : run[r].gen \in Nat /\ run'[r].gen \in Nat
        /\ \A c \in Commands : /\ cmd[c].at \in Nat /\ cmd'[c].at \in Nat
                               /\ cmd'[c].over \subseteq Runs
        /\ \A x \in Executors : /\ ex[x].srcGen \in Nat /\ ex[x].runGen \in Nat
                                /\ ex[x].pc = "spawn" => ex[x].run \in Runs
        /\ \A w \in Workers : /\ wk[w].srcGen \in Nat /\ wk[w].runGen \in Nat
                              /\ AtWork(w) => wk[w].run \in Runs
    BY DEF TypeInv, ExecutorsOK, WorkersOK, CommandsOK, RowsOK, Runtime, RunRow, Command,
           Executor, Worker, AtWork
  <1>2. Issued'
    BY <1>1 DEF FenceInv, Issued, GenerationsGrow, NoBatchForExecutors, NoBatchForWorkers,
                CommandsMoveRuns, Spawning, AtWork
  <1>3. Distinct'
    BY <1>1 DEF FenceInv, Distinct, NoBatchForExecutors, NoBatchForWorkers, Spawning, AtWork
  <1>4. ASSUME NEW r \in Runs, NEW s \in Nat, NEW g \in Nat, s <= rt.gen, Behind(r, s, g)
        PROVE  Behind(r, s, g)'
    BY <1>1, <1>4 DEF Behind, GenerationsGrow, CommandsMoveRuns
  <1>5. LeftBehind'
    BY <1>1, <1>4 DEF FenceInv, Issued, LeftBehind, NoBatchForExecutors, NoBatchForWorkers,
                      Spawning, AtWork
  <1>6. QED
    BY <1>2, <1>3, <1>5 DEF FenceInv

\* The invariant says what the two properties need.
LEMMA FenceInvOneWriter == TypeInv /\ FenceInv => OneWriter
  <1> SUFFICES ASSUME TypeInv, FenceInv, NEW v \in Workers, NEW w \in Workers,
                      CanWrite(v), CanWrite(w)
               PROVE  v = w
    BY DEF OneWriter
  <1>1. AtWork(v) /\ AtWork(w)
    BY DEF CanWrite, AtWork
  <1>2. wk[v].srcGen = rt.gen /\ wk[w].srcGen = rt.gen
    BY DEF CanWrite, FailFence
  <1>3. v # w => wk[v].srcGen # wk[w].srcGen
    BY <1>1 DEF FenceInv, Distinct
  <1>4. QED
    BY <1>2, <1>3

LEMMA FenceInvCommandsFence == TypeInv /\ FenceInv => CommandsFence
  <1> SUFFICES ASSUME TypeInv, FenceInv, NEW c \in Commands, NEW w \in Workers,
                      CanWrite(w), wk[w].run \in cmd[c].over
               PROVE  wk[w].srcGen > cmd[c].at
    BY DEF CommandsFence
  <1>1. /\ wk[w].srcGen \in Nat /\ cmd[c].at \in Nat
        /\ wk[w].runGen \in Nat
    BY DEF TypeInv, WorkersOK, Worker, CommandsOK, Command
  <1>2. Behind(wk[w].run, wk[w].srcGen, wk[w].runGen) /\ run[wk[w].run].gen = wk[w].runGen
    BY DEF FenceInv, LeftBehind, AtWork, CanWrite, FailFence
  <1>3. QED
    BY <1>1, <1>2 DEF Behind

LEMMA FenceInit == Init => FenceInv
  <1> SUFFICES ASSUME Init PROVE FenceInv
    OBVIOUS
  <1>1. \A x \in Executors : ~Spawning(x)
    BY DEF Init, Idle, Spawning
  <1>2. \A w \in Workers : ~AtWork(w)
    BY DEF Init, NoWorker, AtWork
  <1>3. \A c \in Commands : cmd[c].at <= rt.gen
    BY DEF Init, NoCmd
  <1>4. QED
    BY <1>1, <1>2, <1>3 DEF FenceInv, Issued, Distinct, LeftBehind

-----------------------------------------------------------------------------
(* The frame facts, for what leaves a variable alone or moves it one way.  *)

LEMMA SameProcesses ==
  ASSUME UNCHANGED <<ex, wk>>
  PROVE  NoBatchForExecutors /\ NoBatchForWorkers
  BY DEF NoBatchForExecutors, NoBatchForWorkers

LEMMA SameRows ==
  ASSUME TypeInv, UNCHANGED <<rt, run, cmd>>
  PROVE  GenerationsGrow /\ CommandsMoveRuns
  <1>1. rt.gen \in Nat /\ \A r \in Runs : run[r].gen \in Nat
    BY DEF TypeInv, RowsOK, Runtime, RunRow
  <1>2. QED
    BY <1>1 DEF GenerationsGrow, CommandsMoveRuns

LEMMA SameCommands ==
  ASSUME UNCHANGED cmd
  PROVE  CommandsMoveRuns
  BY DEF CommandsMoveRuns

\* An executor that ends up elsewhere than at a spawn has no batch.
LEMMA ExecutorMoves ==
  ASSUME TypeInv, NEW x \in Executors, NEW e, e.pc # "spawn", ex' = [ex EXCEPT ![x] = e]
  PROVE  NoBatchForExecutors
  BY DEF TypeInv, ExecutorsOK, NoBatchForExecutors

LEMMA ExecutorGoes ==
  ASSUME TypeInv, NEW x \in Executors, NEW pc, pc # "spawn", Goto(x, pc)
  PROVE  NoBatchForExecutors
  <1>1. [ex[x] EXCEPT !.pc = pc].pc = pc
    BY DEF TypeInv, ExecutorsOK, Executor
  <1>2. ex' = [ex EXCEPT ![x] = [ex[x] EXCEPT !.pc = pc]]
    BY DEF Goto
  <1>3. QED
    BY <1>1, <1>2, ExecutorMoves

\* A worker that goes on has the batch it had.
LEMMA WorkerMoves ==
  ASSUME TypeInv, NEW w \in Workers, NEW v, wk' = [wk EXCEPT ![w] = v],
         v.pc \in {"spawned", "started", "fetching"} =>
           /\ wk[w].pc \in {"spawned", "started", "fetching"}
           /\ v.run = wk[w].run /\ v.srcGen = wk[w].srcGen /\ v.runGen = wk[w].runGen
  PROVE  NoBatchForWorkers
  BY DEF TypeInv, WorkersOK, NoBatchForWorkers

\* Requests are quiet: new runs and commands have no effect on batches.
LEMMA QuietRequests ==
  ASSUME TypeInv, Requests
  PROVE  GenerationsGrow /\ NoBatchForExecutors /\ NoBatchForWorkers /\ CommandsMoveRuns
  <1>1. rt.gen \in Nat /\ \A r \in Runs : run[r].gen \in Nat
    BY DEF TypeInv, RowsOK, Runtime, RunRow
  <1>2. ASSUME NEW r \in Runs, NEW lane \in Lanes, NewRun(r, lane), UNCHANGED rt
        PROVE  GenerationsGrow
    <2>1. \A q \in Runs : run'[q].gen = run[q].gen
      BY <1>2 DEF NewRun, TypeInv, RowsOK, RunRow
    <2>2. QED
      BY <1>1, <1>2, <2>1 DEF GenerationsGrow
  <1>3. ASSUME NEW c \in Commands, NEW action, NEW r, NEW p, Accept(c, Pending(action, r, p))
        PROVE  CommandsMoveRuns
    <2>1. Pending(action, r, p).at = 0 /\ Pending(action, r, p).over = {}
      BY DEF Pending, NoCmd
    <2>2. cmd' = [cmd EXCEPT ![c] = Pending(action, r, p)]
      BY <1>3 DEF Accept
    <2>3. QED
      BY <2>1, <2>2 DEF CommandsMoveRuns, TypeInv, CommandsOK
  <1>4. UNCHANGED <<ex, wk>>
    BY DEF Requests, ScheduleRun, SubmitRun, SubmitAction, SubmitRetry, SubmitRestart, PatchEnabled
  <1>5. GenerationsGrow
    <2>1. UNCHANGED rt
      BY DEF Requests, ScheduleRun, SubmitRun, SubmitAction, SubmitRetry, SubmitRestart, PatchEnabled
    <2>2. UNCHANGED run \/ \E r \in Runs, lane \in Lanes : NewRun(r, lane)
      BY DEF Requests, ScheduleRun, SubmitRun, SubmitAction, SubmitRetry, SubmitRestart, PatchEnabled
    <2>3. QED
      BY <1>1, <1>2, <2>1, <2>2 DEF GenerationsGrow
  <1>6. CommandsMoveRuns
    <2>1. \/ UNCHANGED cmd
          \/ \E c \in Commands : \E action, r, p : Accept(c, Pending(action, r, p))
      BY DEF Requests, ScheduleRun, SubmitRun, SubmitAction, SubmitRetry, SubmitRestart, PatchEnabled
    <2>2. QED
      BY <1>3, <2>1, SameCommands
  <1>7. QED
    BY <1>4, <1>5, <1>6, SameProcesses

\* The command transaction: pause, cancel and recovery move the generations of
\* the runs they are applied to; rejections and judgements touch no run.
LEMMA QuietCommands ==
  ASSUME TypeInv, NEW x \in Executors, BeginCommands(x) \/ ApplyStep(x)
  PROVE  GenerationsGrow /\ NoBatchForExecutors /\ NoBatchForWorkers /\ CommandsMoveRuns
  <1>1. Resumes(ex[x].pc) # "spawn"
    BY DEF Resumes
  <1>2. NoBatchForExecutors
    <2>1. CASE UNCHANGED ex
      BY <2>1 DEF NoBatchForExecutors
    <2>2. CASE Goto(x, Resumes(ex[x].pc))
      BY <1>1, <2>2, ExecutorGoes
    <2>3. QED
      BY ZenonT(30), <2>1, <2>2 DEF BeginCommands, ApplyStep, RejectCommand, ApplyPause, ApplyCancel,
                        ApplyRun, ApplyRecovery, PollRestart, Next1
  <1>3. NoBatchForWorkers
    <2>1. UNCHANGED wk
      BY Zenon DEF BeginCommands, ApplyStep, RejectCommand, ApplyPause, ApplyCancel,
             ApplyRun, ApplyRecovery, PollRestart, Next1
    <2>2. QED
      BY <2>1 DEF NoBatchForWorkers
  <1>4. rt.gen \in Nat /\ \A r \in Runs : run[r].gen \in Nat
    BY DEF TypeInv, RowsOK, Runtime, RunRow
  <1>5. ASSUME NEW c \in Commands, NEW status, cmd' = [cmd EXCEPT ![c].status = status]
        PROVE  CommandsMoveRuns
    <2>1. \A d \in Commands : cmd'[d].at = cmd[d].at /\ cmd'[d].over = cmd[d].over
      BY <1>5 DEF TypeInv, CommandsOK, Command
    <2>2. QED
      BY <2>1 DEF CommandsMoveRuns
  <1>6. ASSUME NEW c \in Commands, NEW status, NEW rs, cmd' = Applied(c, status, rs),
               \A r \in rs : run'[r].gen > run[r].gen, rt'.gen = rt.gen
        PROVE  CommandsMoveRuns
    <2>1. /\ cmd'[c].at = rt.gen /\ cmd'[c].over = rs
          /\ \A d \in Commands \ {c} : cmd'[d] = cmd[d]
      BY <1>6 DEF Applied, TypeInv, CommandsOK, Command
    <2>2. QED
      BY <1>6, <2>1 DEF CommandsMoveRuns
  <1>7. ASSUME UNCHANGED <<rt, run>> PROVE GenerationsGrow
    BY <1>4, <1>7 DEF GenerationsGrow
  <1>8. CASE BeginCommands(x)
    BY <1>2, <1>3, <1>8, SameRows DEF BeginCommands, rows
  <1>9. ASSUME NEW c \in Commands, RejectCommand(x, c) PROVE GenerationsGrow /\ CommandsMoveRuns
    BY <1>5, <1>7, <1>9 DEF RejectCommand
  <1>10. ASSUME NEW c \in Commands, NEW status,
                run' = [run EXCEPT ![cmd[c].run].gen = @ + 1, ![cmd[c].run].status = status],
                cmd' = Applied(c, "succeeded", {cmd[c].run}), UNCHANGED rt, cmd[c].run \in Runs
         PROVE  GenerationsGrow /\ CommandsMoveRuns
    <2>1. \A r \in Runs : run'[r].gen = IF r = cmd[c].run THEN run[r].gen + 1 ELSE run[r].gen
      BY <1>10 DEF TypeInv, RowsOK, RunRow
    <2>2. cmd[c].run \in Runs /\ rt'.gen = rt.gen
      BY <1>10
    <2>3. GenerationsGrow
      BY <1>4, <2>1, <2>2 DEF GenerationsGrow
    <2>4. run'[cmd[c].run].gen > run[cmd[c].run].gen
      BY <1>4, <2>1, <2>2
    <2>5. QED
      BY <1>6, <1>10, <2>2, <2>3, <2>4
  <1>11. ASSUME NEW c \in Commands, ApplyPause(x, c) \/ ApplyCancel(x, c)
         PROVE  GenerationsGrow /\ CommandsMoveRuns
    <2>1. cmd[c].run \in Runs
      BY <1>11 DEF ApplyPause, ApplyCancel, TypeInv, CommandsOK
    <2>2. QED
      BY <1>10, <1>11, <2>1 DEF ApplyPause, ApplyCancel
  <1>12. ASSUME NEW c \in Commands, ApplyRun(x, c) PROVE GenerationsGrow /\ CommandsMoveRuns
    <2>1. \A r \in Runs : run'[r].gen = run[r].gen
      BY <1>12 DEF ApplyRun, TypeInv, RowsOK, RunRow
    <2>2. UNCHANGED rt
      BY <1>12 DEF ApplyRun
    <2>3. GenerationsGrow
      BY <1>4, <2>1, <2>2 DEF GenerationsGrow
    <2>4. QED
      BY <1>5, <1>12, <2>3 DEF ApplyRun
  <1>13. ASSUME NEW c \in Commands, NEW rs \in SUBSET Runs, ApplyRecovery(x, c, rs)
         PROVE  GenerationsGrow /\ CommandsMoveRuns
    <2>1. \A r \in Runs : run'[r].gen = IF r \in rs THEN run[r].gen + 1 ELSE run[r].gen
      BY <1>13 DEF ApplyRecovery, TypeInv, RowsOK, RunRow
    <2>2. rt'.gen = rt.gen
      BY <1>13 DEF ApplyRecovery, TypeInv, RowsOK, Runtime
    <2>3. GenerationsGrow
      BY <1>4, <2>1, <2>2 DEF GenerationsGrow
    <2>4. \A r \in rs : run'[r].gen > run[r].gen
      BY <1>4, <2>1
    <2>5. QED
      BY <1>6, <1>13, <2>2, <2>3, <2>4 DEF ApplyRecovery
  <1>14. ASSUME NEW c \in Commands, PollRestart(x, c) PROVE GenerationsGrow /\ CommandsMoveRuns
    BY <1>5, <1>7, <1>14 DEF PollRestart
  <1>15. QED
    BY <1>2, <1>3, <1>8, <1>9, <1>11, <1>12, <1>13, <1>14 DEF ApplyStep

\* The executor's steps that neither claim nor spawn.
LEMMA QuietExecutor ==
  ASSUME TypeInv, NEW x \in Executors,
         \/ Acquire(x) \/ LeaseWaited(x) \/ TakeOver(x) \/ LockGone(x)
         \/ ProbeWorker(x) \/ RestartBudget(x) \/ NothingToClaim(x) \/ SpawnFails(x)
         \/ Renew(x) \/ Superseded(x) \/ Reap(x) \/ RecordExit(x)
  PROVE  GenerationsGrow /\ NoBatchForExecutors /\ NoBatchForWorkers /\ CommandsMoveRuns
  <1>1. rt.gen \in Nat /\ \A r \in Runs : run[r].gen \in Nat
    BY DEF TypeInv, RowsOK, Runtime, RunRow
  <1>2. CommandsMoveRuns
    <2>1. UNCHANGED cmd
      BY DEF Acquire, LeaseWaited, TakeOver, LockGone, ProbeWorker, RestartBudget,
             NothingToClaim, SpawnFails, Renew, Superseded, Reap, RecordExit, rows
    <2>2. QED
      BY <2>1, SameCommands
  <1>3. ASSUME rt'.gen = rt.gen, UNCHANGED run PROVE GenerationsGrow
    BY <1>1, <1>3 DEF GenerationsGrow
  <1>4. GenerationsGrow
    <2>1. CASE RecordExit(x)
      <3>1. rt'.gen = rt.gen
        BY <2>1 DEF RecordExit, TypeInv, RowsOK, Runtime
      <3>2. \A r \in Runs : run'[r].gen = run[r].gen \/ run'[r].gen = run[r].gen + 1
        BY <2>1 DEF RecordExit, TypeInv, RowsOK, RunRow
      <3>3. QED
        BY <1>1, <3>1, <3>2 DEF GenerationsGrow
    <2>2. CASE TakeOver(x) \/ RestartBudget(x) \/ Renew(x)
      <3>1. rt'.gen = rt.gen /\ UNCHANGED run
        BY <2>2 DEF TakeOver, RestartBudget, Renew, TypeInv, RowsOK, Runtime
      <3>2. QED
        BY <1>3, <3>1
    <2>3. CASE \/ Acquire(x) \/ LeaseWaited(x) \/ LockGone(x) \/ ProbeWorker(x)
               \/ NothingToClaim(x) \/ SpawnFails(x) \/ Superseded(x) \/ Reap(x)
      <3>1. UNCHANGED <<rt, run>>
        BY <2>3 DEF Acquire, LeaseWaited, LockGone, ProbeWorker, NothingToClaim, SpawnFails,
                    Superseded, Reap, rows
      <3>2. QED
        BY <1>3, <3>1
    <2>4. QED
      BY <2>1, <2>2, <2>3
  <1>5. NoBatchForExecutors
    <2>1. CASE LockGone(x)
      BY <2>1, Constants, ExecutorMoves DEF LockGone
    <2>2. CASE SpawnFails(x)
      <3>1. [ex[x] EXCEPT !.pc = "record", !.ok = FALSE].pc # "spawn"
        BY DEF TypeInv, ExecutorsOK, Executor
      <3>2. ex' = [ex EXCEPT ![x] = [ex[x] EXCEPT !.pc = "record", !.ok = FALSE]]
        BY <2>2 DEF SpawnFails
      <3>3. QED
        BY <3>1, <3>2, ExecutorMoves
    <2>3. CASE Reap(x)
      <3> DEFINE ok == wk[ex[x].w].pc = "dead" /\ wk[ex[x].w].ok
                 e  == [ex[x] EXCEPT !.pc = "record", !.w = None, !.ok = ok]
      <3>1. ex' = [ex EXCEPT ![x] = e]
        BY <2>3 DEF Reap
      <3> HIDE DEF ok
      <3>2. e.pc # "spawn"
        BY DEF TypeInv, ExecutorsOK, Executor
      <3>3. QED
        BY <3>1, <3>2, ExecutorMoves
    <2>4. CASE RecordExit(x)
      <3>1. [Idle EXCEPT !.pc = "after"].pc # "spawn"
        BY Constants DEF Executor
      <3>2. ex' = [ex EXCEPT ![x] = [Idle EXCEPT !.pc = "after"]]
        BY <2>4 DEF RecordExit
      <3>3. QED
        BY <3>1, <3>2, ExecutorMoves
    <2>5. CASE \/ Acquire(x) \/ LeaseWaited(x) \/ TakeOver(x) \/ ProbeWorker(x)
               \/ RestartBudget(x) \/ NothingToClaim(x) \/ Renew(x) \/ Superseded(x)
      <3>1. \E pc \in {"waiting", "boot", "top", "budget", "claim", "supervise", "reap"} : Goto(x, pc)
        BY <2>5 DEF Acquire, LeaseWaited, TakeOver, ProbeWorker, RestartBudget, NothingToClaim,
                    Renew, Superseded
      <3>2. QED
        BY <3>1, ExecutorGoes
    <2>6. QED
      BY <2>1, <2>2, <2>3, <2>4, <2>5
  <1>6. NoBatchForWorkers
    <2>1. CASE Reap(x)
      BY <2>1, Constants DEF Reap, NoBatchForWorkers, TypeInv, WorkersOK
    <2>2. CASE UNCHANGED wk
      BY <2>2 DEF NoBatchForWorkers
    <2>3. QED
      BY <2>1, <2>2 DEF Acquire, LeaseWaited, TakeOver, LockGone, ProbeWorker, RestartBudget,
             NothingToClaim, SpawnFails, Renew, Superseded, RecordExit
  <1>7. QED
    BY <1>2, <1>4, <1>5, <1>6

LEMMA EndedQuiet ==
  ASSUME TypeInv, NEW w \in Workers, NEW ok, Ended(w, ok)
  PROVE  NoBatchForWorkers
  <1>1. [NoWorker EXCEPT !.pc = "dead", !.ok = ok].pc = "dead" /\ NoWorker.pc = "none"
    BY Constants DEF Worker
  <1>2. CASE wk' = [wk EXCEPT ![w] = [NoWorker EXCEPT !.pc = "dead", !.ok = ok]]
    BY <1>1, <1>2, WorkerMoves
  <1>3. CASE wk' = [wk EXCEPT ![w] = NoWorker]
    BY Zenon, <1>1, <1>3, WorkerMoves
  <1>4. QED
    BY <1>2, <1>3 DEF Ended

\* A worker's steps: it goes on with the batch it has, or ends.
LEMMA QuietWorker ==
  ASSUME TypeInv, NEW w \in Workers, WorkerStep(w)
  PROVE  GenerationsGrow /\ NoBatchForExecutors /\ NoBatchForWorkers /\ CommandsMoveRuns
  <1> USE DEF WorkerStep
  <1>1. UNCHANGED <<cmd, ex>>
    BY Zenon DEF Start, Download, DownloadRefused, Heartbeat, Commit, Fail, Discarded, Exit, rows
  <1>2. rt.gen \in Nat /\ \A r \in Runs : run[r].gen \in Nat
    BY DEF TypeInv, RowsOK, Runtime, RunRow
  <1>3. rt'.gen = rt.gen
    <2>1. CASE \E code \in Failures : Fail(w, code)
      BY ZenonT(30), <2>1 DEF Fail, TypeInv, RowsOK, Runtime
    <2>2. CASE UNCHANGED rt
      BY <2>2
    <2>3. QED
      BY ZenonT(30), <2>1, <2>2 DEF Start, Download, DownloadRefused, Heartbeat, Commit, Discarded, Exit, rows
  <1>4. \A r \in Runs : run'[r].gen = run[r].gen
    <2>1. ASSUME NEW code \in Failures, Fail(w, code), NEW r \in Runs
          PROVE  run'[r].gen = run[r].gen
      <3>1. \E status : run' = [run EXCEPT ![wk[w].run].status = status]
        BY Zenon, <2>1 DEF Fail
      <3>2. QED
        BY <3>1 DEF TypeInv, RowsOK, RunRow
    <2>2. ASSUME NEW outcome \in Outcomes, Commit(w, outcome), NEW r \in Runs
          PROVE  run'[r].gen = run[r].gen
      <3>1. \E page, status :
              run' = [run EXCEPT ![wk[w].run].page = page, ![wk[w].run].status = status]
        BY Zenon, <2>2 DEF Commit
      <3>2. QED
        BY <3>1 DEF TypeInv, RowsOK, RunRow
    <2>3. CASE UNCHANGED run
      BY <2>3
    <2>4. QED
      BY Zenon, <2>1, <2>2, <2>3 DEF Start, Download, DownloadRefused, Heartbeat, Discarded, Exit, rows
  <1>5. NoBatchForWorkers
    <2>1. CASE GivesUp(w)
      <3>1. [wk[w] EXCEPT !.pc = "closing", !.ok = FALSE].pc = "closing"
        BY DEF TypeInv, WorkersOK, Worker
      <3>2. wk' = [wk EXCEPT ![w] = [wk[w] EXCEPT !.pc = "closing", !.ok = FALSE]]
        BY <2>1 DEF GivesUp
      <3>3. QED
        BY <3>1, <3>2, WorkerMoves
    <2>2. CASE wk' = [wk EXCEPT ![w].pc = "closing", ![w].ok = TRUE]
      <3>1. [wk[w] EXCEPT !.pc = "closing", !.ok = TRUE].pc = "closing"
        BY DEF TypeInv, WorkersOK, Worker
      <3>2. wk' = [wk EXCEPT ![w] = [wk[w] EXCEPT !.pc = "closing", !.ok = TRUE]]
        BY <2>2
      <3>3. QED
        BY <3>1, <3>2, WorkerMoves
    <2>3. ASSUME wk[w].pc = "spawned", NEW p, wk' = [wk EXCEPT ![w].pc = "started", ![w].page = p]
          PROVE  NoBatchForWorkers
      <3> DEFINE v == [wk[w] EXCEPT !.pc = "started", !.page = p]
      <3>1. v.run = wk[w].run /\ v.srcGen = wk[w].srcGen /\ v.runGen = wk[w].runGen
        BY DEF TypeInv, WorkersOK, Worker
      <3>2. wk' = [wk EXCEPT ![w] = v]
        BY <2>3
      <3> HIDE DEF v
      <3>3. QED
        BY <2>3, <3>1, <3>2, WorkerMoves
    <2>4. CASE Start(w)
      BY <2>1, <2>3, <2>4 DEF Start
    <2>5. CASE Download(w)
      <3> DEFINE v == [wk[w] EXCEPT !.pc = "fetching", !.taskGen = HeldTask(w).gen + 1, !.beat = TRUE]
      <3>1. v.run = wk[w].run /\ v.srcGen = wk[w].srcGen /\ v.runGen = wk[w].runGen
        BY DEF TypeInv, WorkersOK, Worker
      <3>2. wk' = [wk EXCEPT ![w] = v] /\ wk[w].pc = "started"
        BY <2>5 DEF Download
      <3> HIDE DEF v
      <3>3. QED
        BY <3>1, <3>2, WorkerMoves
    <2>6. CASE Heartbeat(w)
      <3> DEFINE v == [wk[w] EXCEPT !.beat = FALSE]
      <3>1. v.run = wk[w].run /\ v.srcGen = wk[w].srcGen /\ v.runGen = wk[w].runGen
        BY DEF TypeInv, WorkersOK, Worker
      <3>2. wk' = [wk EXCEPT ![w] = v] \/ UNCHANGED wk
        BY <2>6 DEF Heartbeat
      <3>3. wk[w].pc = "fetching"
        BY <2>6 DEF Heartbeat
      <3> HIDE DEF v
      <3>4. CASE UNCHANGED wk
        BY <3>4 DEF NoBatchForWorkers
      <3>5. CASE wk' = [wk EXCEPT ![w] = v]
        BY ZenonT(30), <3>1, <3>3, <3>5, WorkerMoves
      <3>6. QED
        BY <3>2, <3>4, <3>5
    <2>7. CASE Exit(w)
      BY <2>7, EndedQuiet DEF Exit
    <2>8. CASE DownloadRefused(w) \/ Discarded(w)
      BY <2>1, <2>8 DEF DownloadRefused, Discarded
    <2>9. ASSUME NEW outcome \in Outcomes, Commit(w, outcome) PROVE NoBatchForWorkers
      BY Zenon, <2>2, <2>9 DEF Commit
    <2>10. ASSUME NEW code \in Failures, Fail(w, code) PROVE NoBatchForWorkers
      BY <2>2, <2>10 DEF Fail
    <2>11. QED
      BY <2>4, <2>5, <2>6, <2>7, <2>8, <2>9, <2>10
  <1>6. GenerationsGrow
    BY <1>2, <1>3, <1>4 DEF GenerationsGrow
  <1>7. QED
    BY <1>1, <1>5, <1>6, SameCommands DEF NoBatchForExecutors

\* Crashes, lost locks and the login session: processes end, the source
\* generation may grow.
LEMMA QuietOutside ==
  ASSUME TypeInv, Outside
  PROVE  GenerationsGrow /\ NoBatchForExecutors /\ NoBatchForWorkers /\ CommandsMoveRuns
  <1>1. rt.gen \in Nat /\ \A r \in Runs : run[r].gen \in Nat
    BY DEF TypeInv, RowsOK, Runtime, RunRow
  <1>2. CommandsMoveRuns
    BY SameCommands DEF Outside, WorkerCrash, ExecutorCrash, LoseExecutorLock, LoseWorkerLock,
                        PauseForLogin, PublishSession, rows
  <1>3. GenerationsGrow
    <2>1. CASE PauseForLogin
      <3>1. rt'.gen = rt.gen + 1 /\ \A r \in Runs : run'[r].gen = run[r].gen
        BY <2>1 DEF PauseForLogin, TypeInv, RowsOK, Runtime, RunRow
      <3>2. QED
        BY <1>1, <3>1 DEF GenerationsGrow
    <2>2. CASE PublishSession
      <3>1. rt'.gen = rt.gen /\ \A r \in Runs : run'[r].gen = run[r].gen
        BY <2>2 DEF PublishSession, TypeInv, RowsOK, Runtime, RunRow
      <3>2. QED
        BY <1>1, <3>1 DEF GenerationsGrow
    <2>3. CASE UNCHANGED <<rt, run>>
      BY <1>1, <2>3 DEF GenerationsGrow
    <2>4. QED
      BY <2>1, <2>2, <2>3 DEF Outside, WorkerCrash, ExecutorCrash, LoseExecutorLock,
                              LoseWorkerLock, rows
  <1>4. NoBatchForExecutors
    <2>1. ASSUME NEW x \in Executors, ExecutorCrash(x) PROVE NoBatchForExecutors
      BY <2>1, Constants, ExecutorMoves DEF ExecutorCrash
    <2>2. CASE UNCHANGED ex
      BY <2>2 DEF NoBatchForExecutors
    <2>3. QED
      BY <2>1, <2>2 DEF Outside, WorkerCrash, LoseExecutorLock, LoseWorkerLock, PauseForLogin,
                        PublishSession
  <1>5. NoBatchForWorkers
    <2>1. ASSUME NEW x \in Executors, ExecutorCrash(x) PROVE NoBatchForWorkers
      BY <2>1, Constants DEF ExecutorCrash, NoBatchForWorkers, TypeInv, WorkersOK
    <2>2. ASSUME NEW w \in Workers, WorkerCrash(w) PROVE NoBatchForWorkers
      BY <2>2, EndedQuiet DEF WorkerCrash
    <2>3. CASE UNCHANGED wk
      BY <2>3 DEF NoBatchForWorkers
    <2>4. QED
      BY <2>1, <2>2, <2>3 DEF Outside, LoseExecutorLock, LoseWorkerLock, PauseForLogin, PublishSession
  <1>6. QED
    BY <1>2, <1>3, <1>4, <1>5

\* Time moves neither generations nor processes.
LEMMA QuietTime ==
  ASSUME TypeInv, Time
  PROVE  GenerationsGrow /\ NoBatchForExecutors /\ NoBatchForWorkers /\ CommandsMoveRuns
  <1>1. rt.gen \in Nat /\ \A r \in Runs : run[r].gen \in Nat
    BY DEF TypeInv, RowsOK, Runtime, RunRow
  <1>2. UNCHANGED <<run, cmd, ex, wk>>
    BY DEF Time, LeaseExpires, BackoffOver, StampAges, TaskLeaseExpires, RetryDue
  <1>3. rt'.gen = rt.gen
    BY DEF Time, LeaseExpires, BackoffOver, StampAges, TaskLeaseExpires, RetryDue,
           TypeInv, RowsOK, Runtime
  <1>4. GenerationsGrow
    BY <1>1, <1>2, <1>3 DEF GenerationsGrow
  <1>5. QED
    BY <1>2, <1>4, SameProcesses, SameCommands

-----------------------------------------------------------------------------
\* A claim issues the next source generation, ahead of every batch and command.
LEMMA FenceClaim ==
  ASSUME TypeInv, TypeInv', FenceInv,
         NEW x \in Executors, NEW r \in Runs, NEW p \in Pages, ClaimBatch(x, r, p)
  PROVE  FenceInv'
  <1>1. /\ rt.gen \in Nat /\ run[r].gen \in Nat
        /\ \A q \in Runs : run[q].gen \in Nat
        /\ \A c \in Commands : cmd[c].at \in Nat /\ cmd[c].over \subseteq Runs
        /\ \A y \in Executors : /\ ex[y].srcGen \in Nat /\ ex[y].runGen \in Nat
                                /\ ex[y].pc = "spawn" => ex[y].run \in Runs
        /\ \A w \in Workers : /\ wk[w].srcGen \in Nat /\ wk[w].runGen \in Nat
                              /\ AtWork(w) => wk[w].run \in Runs
    BY DEF TypeInv, ExecutorsOK, WorkersOK, CommandsOK, RowsOK, Runtime, RunRow, Command,
           Executor, Worker, AtWork
  <1>2. rt'.gen = rt.gen + 1
    BY DEF ClaimBatch, TypeInv, RowsOK, Runtime
  <1>3. \A q \in Runs : run'[q].gen = IF q = r THEN run[q].gen + 1 ELSE run[q].gen
    BY DEF ClaimBatch, TypeInv, RowsOK, RunRow
  <1>4. /\ ex'[x].run = r /\ ex'[x].srcGen = rt.gen + 1 /\ ex'[x].runGen = run[r].gen + 1
        /\ \A y \in Executors \ {x} : ex'[y] = ex[y]
    <2> DEFINE e == [Idle EXCEPT !.pc = "spawn", !.run = r,
                                 !.srcGen = rt.gen + 1, !.runGen = run[r].gen + 1]
    <2>1. e.run = r /\ e.srcGen = rt.gen + 1 /\ e.runGen = run[r].gen + 1
      BY Constants DEF Executor
    <2>2. ex' = [ex EXCEPT ![x] = e]
      BY DEF ClaimBatch
    <2> HIDE DEF e
    <2>3. QED
      BY <2>1, <2>2 DEF TypeInv, ExecutorsOK
  <1>5. UNCHANGED <<cmd, wk>>
    BY DEF ClaimBatch
  <1>6. Issued'
    BY <1>1, <1>2, <1>4, <1>5 DEF FenceInv, Issued, Spawning, AtWork
  <1>7. Distinct'
    <2>1. \A y \in Executors \ {x} : Spawning(y)' => Spawning(y) /\ ex'[y].srcGen = ex[y].srcGen
      BY <1>4 DEF Spawning
    <2>2. \A w \in Workers : AtWork(w)' => AtWork(w) /\ wk'[w].srcGen = wk[w].srcGen
      BY <1>5 DEF AtWork
    <2>3. /\ \A y \in Executors \ {x} : Spawning(y)' => ex'[x].srcGen # ex'[y].srcGen
          /\ \A w \in Workers : AtWork(w)' => ex'[x].srcGen # wk'[w].srcGen
      BY <1>1, <1>4, <2>1, <2>2 DEF FenceInv, Issued
    <2>4. QED
      BY <2>1, <2>2, <2>3 DEF FenceInv, Distinct
  <1>8. ASSUME NEW q \in Runs, NEW s \in Nat, NEW g \in Nat, Behind(q, s, g)
        PROVE  Behind(q, s, g)'
    BY <1>1, <1>3, <1>5, <1>8 DEF Behind
  <1>9. /\ run[r].gen + 1 = run'[r].gen
        /\ \A c \in Commands : ~(rt.gen + 1 <= cmd'[c].at)
    BY <1>1, <1>3, <1>5 DEF FenceInv, Issued
  <1>10. LeftBehind'
    <2>1. ASSUME NEW y \in Executors, Spawning(y)'
          PROVE  Behind(ex[y].run, ex[y].srcGen, ex[y].runGen)'
      <3>1. CASE y = x
        BY <1>1, <1>3, <1>4, <1>9, <3>1 DEF Behind
      <3>2. CASE y # x
        <4>1. Spawning(y) /\ ex'[y] = ex[y]
          BY <1>4, <2>1, <3>2 DEF Spawning
        <4>2. Behind(ex[y].run, ex[y].srcGen, ex[y].runGen)
          BY <4>1 DEF FenceInv, LeftBehind
        <4>3. QED
          BY <1>1, <1>3, <1>5, <4>1, <4>2 DEF Behind, Spawning
      <3>3. QED
        BY <3>1, <3>2
    <2>2. ASSUME NEW w \in Workers, AtWork(w)'
          PROVE  Behind(wk[w].run, wk[w].srcGen, wk[w].runGen)'
      <3>1. AtWork(w) /\ wk'[w] = wk[w]
        BY <1>5, <2>2 DEF AtWork
      <3>2. Behind(wk[w].run, wk[w].srcGen, wk[w].runGen)
        BY <3>1 DEF FenceInv, LeftBehind
      <3>3. QED
        BY <1>1, <1>3, <1>5, <3>1, <3>2 DEF Behind
    <2>3. QED
      BY <2>1, <2>2 DEF LeftBehind
  <1>11. QED
    BY <1>6, <1>7, <1>10 DEF FenceInv

\* A spawn hands the batch of the executor to its worker.
LEMMA FenceSpawn ==
  ASSUME TypeInv, FenceInv, NEW x \in Executors, NEW w \in Workers, Spawn(x, w)
  PROVE  FenceInv'
  <1>1. UNCHANGED <<rt, run, cmd>> /\ Spawning(x) /\ wk[w].pc = "none"
    BY DEF Spawn, rows, Spawning
  <1>2. /\ ex'[x].pc = "supervise"
        /\ \A y \in Executors \ {x} : ex'[y] = ex[y]
    BY DEF Spawn, TypeInv, ExecutorsOK, Executor
  <1>3. /\ wk'[w].run = ex[x].run /\ wk'[w].srcGen = ex[x].srcGen /\ wk'[w].runGen = ex[x].runGen
        /\ \A v \in Workers \ {w} : wk'[v] = wk[v]
    <2> DEFINE v == [NoWorker EXCEPT !.pc = "spawned", !.run = ex[x].run,
                                     !.srcGen = ex[x].srcGen, !.runGen = ex[x].runGen]
    <2>1. v.run = ex[x].run /\ v.srcGen = ex[x].srcGen /\ v.runGen = ex[x].runGen
      BY Constants DEF Worker
    <2>2. wk' = [wk EXCEPT ![w] = v]
      BY DEF Spawn
    <2> HIDE DEF v
    <2>3. QED
      BY <2>1, <2>2 DEF TypeInv, WorkersOK
  <1>4. \A y \in Executors : Spawning(y)' => y # x /\ Spawning(y) /\ ex'[y] = ex[y]
    BY <1>2 DEF Spawning
  <1>5. \A v \in Workers : AtWork(v)' => v = w \/ (AtWork(v) /\ wk'[v] = wk[v])
    BY <1>3 DEF AtWork
  <1>6. Issued'
    BY <1>1, <1>3, <1>4, <1>5 DEF FenceInv, Issued
  <1>7. Distinct'
    BY <1>1, <1>3, <1>4, <1>5 DEF FenceInv, Distinct
  <1>8. \A r, s, g : Behind(r, s, g)' <=> Behind(r, s, g)
    BY <1>1 DEF Behind
  <1>9. LeftBehind'
    <2>1. ASSUME NEW y \in Executors, Spawning(y)'
          PROVE  Behind(ex[y].run, ex[y].srcGen, ex[y].runGen)'
      BY <1>1, <1>4, <2>1 DEF FenceInv, LeftBehind, Behind
    <2>2. ASSUME NEW v \in Workers, AtWork(v)'
          PROVE  Behind(wk[v].run, wk[v].srcGen, wk[v].runGen)'
      <3>1. CASE v = w
        BY <1>1, <1>3, <3>1 DEF FenceInv, LeftBehind, Behind
      <3>2. CASE v # w
        BY <1>1, <1>5, <2>2, <3>2 DEF FenceInv, LeftBehind, Behind
      <3>3. QED
        BY <3>1, <3>2
    <2>3. QED
      BY <2>1, <2>2 DEF LeftBehind
  <1>10. QED
    BY <1>6, <1>7, <1>9 DEF FenceInv

LEMMA FenceStep == TypeInv /\ FenceInv /\ [Next]_vars => FenceInv'
  <1> SUFFICES ASSUME TypeInv, FenceInv, [Next]_vars PROVE FenceInv'
    OBVIOUS
  <1>1. TypeInv'
    BY TypeStep
  <1>2. ASSUME GenerationsGrow, NoBatchForExecutors, NoBatchForWorkers, CommandsMoveRuns
        PROVE  FenceInv'
    BY <1>1, <1>2, QuietStep
  <1>3. CASE UNCHANGED vars
    BY <1>2, <1>3, SameProcesses, SameRows DEF vars, rows
  <1>4. CASE Requests
    BY <1>2, <1>4, QuietRequests
  <1>5. ASSUME NEW x \in Executors, ExecutorStep(x) PROVE FenceInv'
    BY <1>1, <1>2, <1>5, QuietCommands, QuietExecutor, FenceClaim, FenceSpawn DEF ExecutorStep
  <1>6. ASSUME NEW w \in Workers, WorkerStep(w) PROVE FenceInv'
    BY <1>2, <1>6, QuietWorker
  <1>7. CASE Outside
    BY <1>2, <1>7, QuietOutside
  <1>8. CASE Time
    BY <1>2, <1>8, QuietTime
  <1>9. QED
    BY <1>3, <1>4, <1>5, <1>6, <1>7, <1>8 DEF Next

\* The inductive invariant behind the two theorems below.
THEOREM Fencing == Spec => [](TypeInv /\ FenceInv)
  <1>1. Init => TypeInv /\ FenceInv
    BY InitType, FenceInit
  <1>2. TypeInv /\ FenceInv /\ [Next]_vars => (TypeInv /\ FenceInv)'
    BY TypeStep, FenceStep
  <1>3. QED
    BY <1>1, <1>2, PTL DEF Spec

\* At most one worker process can still write to the ledger, whatever was
\* orphaned, killed, superseded or lost its lock: the fences of persist_page
\* and failed() suffice without the advisory locks and without the leases.
THEOREM OneWriterAlways == Spec => []OneWriter
  <1>1. QED
    BY Fencing, FenceInvOneWriter, PTL

\* A worker of a batch claimed before a pause, cancel, resume, retry or restart
\* was applied to its run never writes to that run.
THEOREM CommandsFenceAlways == Spec => []CommandsFence
  <1>1. QED
    BY Fencing, FenceInvCommandsFence, PTL

-----------------------------------------------------------------------------
(* What the rows of the ledger promise together: a run's checkpoint, its    *)
(* tasks and its committed pages agree, an active run has work, each lane   *)
(* has at most one active run, a finished run stays as it is, and a restart *)
(* is reported successful only after a page of its own.  At the end, that   *)
(* the ledger implements FencedLog, step by step.                           *)

\* A run that was never created has no tasks, every other run has a lane, and
\* commands on one run are about runs that were created.
Named ==
  /\ \A r \in Runs : IF run[r].status = "absent" THEN ~HasTask(r) ELSE run[r].type \in Lanes
  /\ \A c \in Commands : cmd[c].action \in {"pause", "cancel", "resume", "retry"} =>
                           run[cmd[c].run].status # "absent"

RowsInv == LedgerContiguous /\ ActiveRunHasWork /\ OneActivePerLane /\ Named

-----------------------------------------------------------------------------
(* The five ways a step moves the rows of one run.                         *)

Over == Settled \cup {"absent"}

\* An open task stays open, any other task stays as it is.
TaskKept(r, p) ==
  \/ task'[r][p].status = task[r][p].status
  \/ task[r][p].status \notin Over /\ task'[r][p].status \notin Over

SamePages(r) == run'[r].page = run[r].page /\ log'[r] = log[r]

\* The run stays active or not; an active run may fail.
RunKept(r) ==
  /\ SamePages(r)
  /\ run'[r].type = run[r].type
  /\ \/ run'[r].status = run[r].status
     \/ run[r].status \in Active /\ run'[r].status \in Active \cup {"partial_failed"}
  /\ \A p \in Pages : TaskKept(r, p)

RunCancelled(r) ==
  /\ SamePages(r)
  /\ run'[r].type = run[r].type
  /\ run[r].status \notin {"absent", "succeeded"} /\ run'[r].status = "cancelled"
  /\ \A p \in Pages :
       IF task[r][p].status \in Over THEN task'[r][p].status = task[r][p].status
       ELSE task'[r][p].status = "cancelled"

\* A new run, or one resumed after a failure, has its lane for itself.
RunEnters(r) ==
  /\ SamePages(r)
  /\ run[r].status \notin Settled /\ run'[r].status \in Active
  /\ run'[r].type \in Lanes /\ LaneFree(r, run'[r].type)
  /\ HasTask(r) => Unfinished(r) # {}
  /\ \A p \in Pages : TaskKept(r, p)
  /\ \A q \in Runs \ {r} : run'[q].status = run[q].status /\ run'[q].type = run[q].type

\* A batch is claimed: of an open task, or of the first one.
RunBegun(r) ==
  /\ SamePages(r)
  /\ run'[r].type = run[r].type
  /\ run[r].status \in Active /\ run'[r].status = "running"
  /\ \A p \in Pages : \/ TaskKept(r, p)
                      \/ p = run[r].page /\ ~HasTask(r) /\ task'[r][p].status = "queued"
  /\ \E p \in Pages : task'[r][p].status = "queued"

PageCommitted(r) ==
  /\ run[r].status = "running" /\ run'[r].status \in RunStatus \ {"absent", "cancelled"}
  /\ run'[r].type = run[r].type
  /\ run[r].page \in Pages
  /\ run'[r].page = run[r].page + 1
  /\ \E gen \in Nat : log'[r] = Append(log[r], gen)
  /\ \A p \in Pages \ {run[r].page, run[r].page + 1} :
       task'[r][p].status = task[r][p].status
  /\ task'[r][run[r].page].status = "succeeded"
  /\ IF run'[r].status \in Active
       THEN run[r].page + 1 \in Pages /\ task'[r][run[r].page + 1].status = "pending"
       ELSE run[r].page + 1 \in Pages =>
              task'[r][run[r].page + 1].status \in {"pending", task[r][run[r].page + 1].status}

RowsMove ==
  \A r \in Runs : RunKept(r) \/ RunCancelled(r) \/ RunEnters(r) \/ RunBegun(r) \/ PageCommitted(r)

\* Commands keep naming runs that were created.
CommandsName ==
  \A c \in Commands : cmd'[c].action \in {"pause", "cancel", "resume", "retry"} =>
    \/ cmd'[c].action = cmd[c].action /\ cmd'[c].run = cmd[c].run
    \/ run[cmd'[c].run].status # "absent"

LEMMA RowFacts ==
  ASSUME TypeInv
  PROVE  \A r \in Runs : /\ run[r].page \in Nat /\ run[r].status \in RunStatus
                         /\ run[r].type \in Lanes \cup {None}
                         /\ log[r] \in Seq(Nat) /\ Len(log[r]) \in Nat
                         /\ \A p \in Pages : task[r][p].status \in TaskStatus
  BY DEF TypeInv, RowsOK, RunRow, TaskRow

\* Each of the moves keeps the checkpoint, the tasks and the pages together.
LEMMA ContiguousMove ==
  ASSUME TypeInv, LedgerContiguous, RowsMove
  PROVE  LedgerContiguous'
  <1> SUFFICES ASSUME NEW r \in Runs
               PROVE  /\ run'[r].page = Len(log'[r])
                      /\ \A p \in Pages :
                           /\ p < run'[r].page => task'[r][p].status = "succeeded"
                           /\ p = run'[r].page => task'[r][p].status # "succeeded"
                           /\ p > run'[r].page => task'[r][p].status = "absent"
    BY DEF LedgerContiguous
  <1>1. /\ run[r].page = Len(log[r]) /\ run[r].page \in Nat
        /\ \A p \in Pages : /\ p \in Nat
                            /\ p < run[r].page => task[r][p].status = "succeeded"
                            /\ p = run[r].page => task[r][p].status # "succeeded"
                            /\ p > run[r].page => task[r][p].status = "absent"
    BY RowFacts DEF LedgerContiguous, Pages
  <1>2. "succeeded" \in Over /\ "absent" \in Over /\ "cancelled" \in Over
    BY DEF Over, Settled
  <1>3. CASE RunKept(r) \/ RunEnters(r)
    BY <1>1, <1>2, <1>3 DEF RunKept, RunEnters, SamePages, TaskKept
  <1>4. CASE RunCancelled(r)
    BY <1>1, <1>2, <1>4 DEF RunCancelled, SamePages
  <1>5. CASE RunBegun(r)
    BY <1>1, <1>2, <1>5 DEF RunBegun, SamePages, TaskKept
  <1>6. CASE PageCommitted(r)
    <2>1. PICK gen \in Nat : log'[r] = Append(log[r], gen)
      BY <1>6 DEF PageCommitted
    <2>2. Len(log'[r]) = Len(log[r]) + 1
      BY <2>1, RowFacts
    <2>3. run'[r].page = run[r].page + 1
      BY <1>6 DEF PageCommitted
    <2>4. ASSUME NEW p \in Pages
          PROVE  /\ p < run'[r].page => task'[r][p].status = "succeeded"
                 /\ p = run'[r].page => task'[r][p].status # "succeeded"
                 /\ p > run'[r].page => task'[r][p].status = "absent"
      <3>1. CASE p = run[r].page
        BY <1>1, <1>6, <2>3, <3>1 DEF PageCommitted
      <3>2. CASE p = run[r].page + 1
        <4>1. task[r][p].status = "absent"
          BY <1>1, <3>2
        <4>2. task'[r][p].status \in {"pending", "absent"}
          BY <1>6, <3>2, <4>1 DEF PageCommitted
        <4>3. QED
          BY <1>1, <2>3, <3>2, <4>2
      <3>3. CASE p \notin {run[r].page, run[r].page + 1}
        <4>1. task'[r][p].status = task[r][p].status
          BY <1>6, <3>3 DEF PageCommitted
        <4>2. QED
          BY <1>1, <2>3, <3>3, <4>1
      <3>4. QED
        BY <3>1, <3>2, <3>3
    <2>5. QED
      BY <1>1, <2>2, <2>3, <2>4
  <1>7. QED
    BY <1>3, <1>4, <1>5, <1>6 DEF RowsMove

LEMMA WorkMove ==
  ASSUME TypeInv, ActiveRunHasWork, RowsMove
  PROVE  ActiveRunHasWork'
  <1> SUFFICES ASSUME NEW r \in Runs, run'[r].status \in Active,
                      \E p \in Pages : task'[r][p].status # "absent"
               PROVE  \E p \in Pages : task'[r][p].status \notin Over
    BY DEF ActiveRunHasWork, ActiveRuns, HasTask, Unfinished, Over
  <1>1. run[r].status \in Active => (HasTask(r) => \E p \in Pages : task[r][p].status \notin Over)
    BY DEF ActiveRunHasWork, ActiveRuns, Unfinished, Over
  <1>2. "absent" \in Over /\ "queued" \notin Over /\ "pending" \notin Over
    BY DEF Over, Settled
  <1>3. {"partial_failed", "cancelled"} \cap Active = {}
    BY DEF Active
  <1>4. CASE RunKept(r)
    BY <1>1, <1>2, <1>3, <1>4 DEF RunKept, TaskKept, HasTask
  <1>5. CASE RunCancelled(r)
    BY <1>3, <1>5 DEF RunCancelled
  <1>6. CASE RunEnters(r)
    <2>1. HasTask(r) => \E p \in Pages : task[r][p].status \notin Over
      BY <1>6 DEF RunEnters, Unfinished, Over
    <2>2. QED
      BY <1>2, <1>6, <2>1 DEF RunEnters, TaskKept, HasTask
  <1>7. CASE RunBegun(r)
    BY <1>2, <1>7 DEF RunBegun
  <1>8. CASE PageCommitted(r)
    BY <1>2, <1>8 DEF PageCommitted
  <1>9. QED
    BY <1>4, <1>5, <1>6, <1>7, <1>8 DEF RowsMove

LEMMA LanesMove ==
  ASSUME TypeInv, OneActivePerLane, RowsMove
  PROVE  OneActivePerLane'
  <1>1. "running" \in Active /\ "cancelled" \notin Active
    BY DEF Active
  <1>2. ASSUME NEW r \in Runs, run'[r].status \in Active, ~RunEnters(r)
        PROVE  run[r].status \in Active /\ run'[r].type = run[r].type
    BY <1>1, <1>2 DEF RowsMove, RunKept, RunCancelled, RunBegun, PageCommitted
  <1>3. ASSUME NEW r \in Runs, NEW q \in Runs, r # q, RunEnters(r), run'[q].status \in Active
        PROVE  run'[r].type # run'[q].type
    BY <1>3 DEF RunEnters, LaneFree, ActiveRuns
  <1>4. ASSUME NEW r \in Runs, NEW q \in Runs, r # q,
               run'[r].status \in Active, run'[q].status \in Active
        PROVE  run'[r].type # run'[q].type
    <2>1. CASE RunEnters(r) \/ RunEnters(q)
      BY <1>3, <1>4, <2>1
    <2>2. CASE ~RunEnters(r) /\ ~RunEnters(q)
      BY <1>2, <1>4, <2>2 DEF OneActivePerLane, ActiveRuns
    <2>3. QED
      BY <2>1, <2>2
  <1>5. QED
    BY <1>4 DEF OneActivePerLane, ActiveRuns

LEMMA NamedMove ==
  ASSUME TypeInv, TypeInv', Named, RowsMove, CommandsName
  PROVE  Named'
  <1>1. "absent" \notin Active \cup {"partial_failed", "cancelled", "running"}
    BY DEF Active
  <1>2. ASSUME NEW r \in Runs, run[r].status # "absent"
        PROVE  run'[r].status # "absent" /\ run'[r].type \in Lanes
    <2>1. run[r].type \in Lanes
      BY <1>2 DEF Named
    <2>2. CASE RunKept(r) \/ RunCancelled(r) \/ RunBegun(r)
      BY <1>1, <1>2, <2>1, <2>2 DEF RunKept, RunCancelled, RunBegun
    <2>3. CASE RunEnters(r)
      BY <1>1, <2>3 DEF RunEnters
    <2>4. CASE PageCommitted(r)
      BY <2>1, <2>4 DEF PageCommitted
    <2>5. QED
      BY <2>2, <2>3, <2>4 DEF RowsMove
  <1>3. ASSUME NEW r \in Runs, run[r].status = "absent"
        PROVE  IF run'[r].status = "absent"
                 THEN \A p \in Pages : task'[r][p].status = "absent"
                 ELSE run'[r].type \in Lanes
    <2>1. \A p \in Pages : task[r][p].status = "absent"
      BY <1>3 DEF Named, HasTask
    <2>2. CASE RunKept(r)
      <3>1. run'[r].status = "absent"
        BY <1>1, <1>3, <2>2 DEF RunKept
      <3>2. \A p \in Pages : TaskKept(r, p)
        BY <2>2 DEF RunKept
      <3>3. QED
        BY <2>1, <3>1, <3>2 DEF TaskKept, Over
    <2>3. CASE RunEnters(r)
      BY <1>1, <2>3 DEF RunEnters
    <2>4. ~RunCancelled(r) /\ ~RunBegun(r) /\ ~PageCommitted(r)
      BY <1>1, <1>3 DEF RunCancelled, RunBegun, PageCommitted
    <2>5. QED
      BY <2>2, <2>3, <2>4 DEF RowsMove
  <1>4. ASSUME NEW c \in Commands, cmd'[c].action \in {"pause", "cancel", "resume", "retry"}
        PROVE  run'[cmd'[c].run].status # "absent"
    <2>1. cmd'[c].run \in Runs
      BY <1>4 DEF TypeInv, CommandsOK
    <2>2. run[cmd'[c].run].status # "absent"
      BY <1>4 DEF Named, CommandsName
    <2>3. QED
      BY <1>2, <2>1, <2>2
  <1>5. QED
    BY <1>2, <1>3, <1>4 DEF Named, HasTask

LEMMA RowsInvMove ==
  ASSUME TypeInv, TypeInv', RowsInv, RowsMove, CommandsName
  PROVE  RowsInv'
  BY ContiguousMove, WorkMove, LanesMove, NamedMove DEF RowsInv

LEMMA RowsInit == Init => RowsInv
  <1> SUFFICES ASSUME Init PROVE RowsInv
    OBVIOUS
  <1>1. \A r \in Runs : /\ run[r].status = "absent" /\ run[r].page = 0 /\ log[r] = <<>>
                        /\ \A p \in Pages : task[r][p].status = "absent"
    BY DEF Init, NoRun, NoTask
  <1>2. \A c \in Commands : cmd[c].action \notin {"pause", "cancel", "resume", "retry"}
    BY NoneAssumption DEF Init, NoCmd, Actions, Recovery
  <1>3. \A r \in Runs : Len(log[r]) = 0
    BY <1>1
  <1>4. LedgerContiguous
    BY <1>1, <1>3 DEF LedgerContiguous, Pages
  <1>5. ActiveRuns = {}
    BY <1>1 DEF ActiveRuns, Active
  <1>6. QED
    BY <1>1, <1>2, <1>4, <1>5 DEF RowsInv, ActiveRunHasWork, OneActivePerLane, Named, HasTask

-----------------------------------------------------------------------------
(* Every action moves the rows in these ways.                              *)

LEMMA Statuses ==
  /\ {"queued", "running", "paused", "waiting_login", "interrupted"} = Active
  /\ {"succeeded", "cancelled"} = Settled
  /\ Over = {"succeeded", "cancelled", "absent"}
  /\ {"absent", "partial_failed", "succeeded", "cancelled"} \cap Active = {}
  BY DEF Active, Settled, Over

LEMMA SameRun ==
  ASSUME NEW r \in Runs, run'[r] = run[r], log'[r] = log[r],
         \A p \in Pages : TaskKept(r, p)
  PROVE  RunKept(r)
  BY DEF RunKept, SamePages

LEMMA RowsSame ==
  ASSUME UNCHANGED <<run, task, log>>
  PROVE  RowsMove
  BY DEF RowsMove, RunKept, SamePages, TaskKept

LEMMA CommandsSame ==
  ASSUME TypeInv,
         \/ UNCHANGED cmd
         \/ \E c \in Commands : \E status : cmd' = [cmd EXCEPT ![c].status = status]
         \/ \E c \in Commands : \E status, rs : cmd' = Applied(c, status, rs)
  PROVE  CommandsName
  <1>1. \A d \in Commands : cmd'[d].action = cmd[d].action /\ cmd'[d].run = cmd[d].run
    <2>1. ASSUME NEW c \in Commands, NEW status, cmd' = [cmd EXCEPT ![c].status = status]
          PROVE  \A d \in Commands : cmd'[d].action = cmd[d].action /\ cmd'[d].run = cmd[d].run
      BY <2>1 DEF TypeInv, CommandsOK, Command
    <2>2. ASSUME NEW c \in Commands, NEW status, NEW rs, cmd' = Applied(c, status, rs)
          PROVE  \A d \in Commands : cmd'[d].action = cmd[d].action /\ cmd'[d].run = cmd[d].run
      <3> DEFINE base == [r \in Runs |-> IF r \in rs THEN run[r].page ELSE 0]
                 e    == [cmd[c] EXCEPT !.status = status, !.over = rs, !.at = rt.gen, !.base = base]
      <3>1. cmd' = [cmd EXCEPT ![c] = e]
        <4>1. cmd' = [cmd EXCEPT ![c].status = status, ![c].over = rs, ![c].at = rt.gen,
                                 ![c].base = base]
          BY <2>2 DEF Applied
        <4>2. cmd \in [Commands -> Command]
          BY DEF TypeInv, CommandsOK
        <4> HIDE DEF base
        <4>3. QED
          BY <4>1, <4>2
      <3> HIDE DEF base
      <3>2. e.action = cmd[c].action /\ e.run = cmd[c].run
        BY DEF TypeInv, CommandsOK, Command
      <3> HIDE DEF e
      <3>3. QED
        BY <3>1, <3>2 DEF TypeInv, CommandsOK
    <2>3. QED
      BY <2>1, <2>2
  <1>2. QED
    BY <1>1 DEF CommandsName

\* Fencing gives the open tasks of the fenced runs one status (fence_tasks).
LEMMA FenceTasksStatus ==
  ASSUME TypeInv, NEW rs \in SUBSET Runs, NEW status \in TaskStatus, NEW r \in Runs, NEW p \in Pages
  PROVE  FenceTasks(rs, status)[r][p].status =
           IF r \in rs /\ task[r][p].status \notin Over THEN status ELSE task[r][p].status
  <1>1. task[r][p] \in TaskRow
    BY DEF TypeInv, RowsOK
  <1>2. ASSUME NEW t \in TaskRow
        PROVE  Fenced(t, status).status = IF t.status \in Over THEN t.status ELSE status
    BY DEF Fenced, TaskRow, Over
  <1>3. QED
    BY <1>1, <1>2 DEF FenceTasks

LEMMA RowsNewRun ==
  ASSUME TypeInv, Named, NEW r \in Runs, NEW lane \in Lanes, NewRun(r, lane), UNCHANGED <<task, log>>
  PROVE  RowsMove
  <1>1. /\ run'[r].status = "queued" /\ run'[r].type = lane /\ run'[r].page = run[r].page
        /\ \A q \in Runs \ {r} : run'[q] = run[q]
    BY DEF NewRun, TypeInv, RowsOK, RunRow
  <1>2. ~HasTask(r)
    BY DEF NewRun, Named
  <1>3. \A q \in Runs, p \in Pages : TaskKept(q, p)
    BY DEF TaskKept
  <1>4. RunEnters(r)
    <2>1. run[r].status = "absent" /\ LaneFree(r, lane)
      BY DEF NewRun
    <2>2. LaneFree(r, run'[r].type)
      BY <1>1, <2>1
    <2>3. run[r].status \notin Settled /\ run'[r].status \in Active
      BY <1>1, <2>1, Statuses
    <2>4. QED
      BY <1>1, <1>2, <1>3, <2>2, <2>3 DEF RunEnters, SamePages
  <1>5. \A q \in Runs \ {r} : RunKept(q)
    BY <1>1, <1>3, SameRun
  <1>6. QED
    BY <1>4, <1>5 DEF RowsMove

LEMMA RowsRequests ==
  ASSUME TypeInv, RowsInv, Requests
  PROVE  RowsMove /\ CommandsName
  <1>1. Named
    BY DEF RowsInv
  <1>2. RowsMove
    <2>1. UNCHANGED <<task, log>>
      BY DEF Requests, ScheduleRun, SubmitRun, SubmitAction, SubmitRetry, SubmitRestart, PatchEnabled
    <2>2. UNCHANGED run \/ \E r \in Runs, lane \in Lanes : NewRun(r, lane)
      BY DEF Requests, ScheduleRun, SubmitRun, SubmitAction, SubmitRetry, SubmitRestart, PatchEnabled
    <2>3. QED
      BY <1>1, <2>1, <2>2, RowsSame, RowsNewRun
  <1>3. ASSUME NEW c \in Commands, NEW action, NEW r, NEW p, Accept(c, Pending(action, r, p)),
               action \in {"pause", "cancel", "resume", "retry"} => run[r].status # "absent"
        PROVE  CommandsName
    <2>1. Pending(action, r, p).action = action /\ Pending(action, r, p).run = r
      BY DEF Pending, NoCmd
    <2>2. cmd' = [cmd EXCEPT ![c] = Pending(action, r, p)]
      BY <1>3 DEF Accept
    <2>3. QED
      BY <1>3, <2>1, <2>2 DEF CommandsName, TypeInv, CommandsOK
  <1>4. ASSUME NEW c \in Commands, NEW r \in Runs, NEW action \in {"pause", "resume", "cancel"},
               SubmitAction(c, r, action)
        PROVE  CommandsName
    <2>1. run[r].status # "absent"
      BY <1>4, Statuses DEF SubmitAction, Allowed
    <2>2. QED
      BY <1>3, <1>4, <2>1 DEF SubmitAction
  <1>5. ASSUME NEW c \in Commands, NEW r \in Runs, NEW p \in Pages, SubmitRetry(c, r, p)
        PROVE  CommandsName
    <2>1. HasTask(r)
      BY <1>5 DEF SubmitRetry, HasTask
    <2>2. run[r].status # "absent"
      BY <1>1, <2>1 DEF Named
    <2>3. QED
      BY <1>3, <1>5, <2>2 DEF SubmitRetry
  <1>6. ASSUME NEW c \in Commands,
               SubmitRestart(c) \/ \E r \in Runs, lane \in Lanes : SubmitRun(c, r, lane)
        PROVE  CommandsName
    BY <1>3, <1>6 DEF SubmitRestart, SubmitRun
  <1>7. ASSUME PatchEnabled \/ \E r \in Runs, lane \in Lanes : ScheduleRun(r, lane)
        PROVE  CommandsName
    BY <1>7, CommandsSame DEF PatchEnabled, ScheduleRun
  <1>8. QED
    BY <1>2, <1>4, <1>5, <1>6, <1>7 DEF Requests

\* A command on one run: pause and cancel leave its pages alone.
LEMMA RowsPause ==
  ASSUME TypeInv, RowsInv, NEW x \in Executors, NEW c \in Commands, ApplyPause(x, c)
  PROVE  RowsMove
  <1> DEFINE r == cmd[c].run
  <1>1. r \in Runs /\ run[r].status \in Active
    BY DEF ApplyPause, Rejected, TypeInv, CommandsOK
  <1>2. /\ run'[r].status = "paused" /\ run'[r].page = run[r].page /\ run'[r].type = run[r].type
        /\ \A q \in Runs \ {r} : run'[q] = run[q]
    BY <1>1 DEF ApplyPause, TypeInv, RowsOK, RunRow
  <1>3. UNCHANGED log
    BY DEF ApplyPause, Next1
  <1>4. \A q \in Runs, p \in Pages : TaskKept(q, p)
    <2>1. "pending" \in TaskStatus /\ "pending" \notin Over
      BY DEF TaskStatus, Over, Settled
    <2>2. QED
      BY <1>1, <2>1, FenceTasksStatus DEF ApplyPause, TaskKept
  <1>5. RunKept(r)
    BY <1>1, <1>2, <1>3, <1>4, Statuses DEF RunKept, SamePages
  <1>6. \A q \in Runs \ {r} : RunKept(q)
    BY <1>2, <1>3, <1>4, SameRun
  <1>7. QED
    BY <1>5, <1>6 DEF RowsMove

LEMMA RowsCancel ==
  ASSUME TypeInv, RowsInv, NEW x \in Executors, NEW c \in Commands, ApplyCancel(x, c)
  PROVE  RowsMove
  <1> DEFINE r == cmd[c].run
  <1>1. r \in Runs /\ run[r].status \notin {"absent", "succeeded"}
    BY DEF ApplyCancel, Rejected, TypeInv, CommandsOK, RowsInv, Named
  <1>2. /\ run'[r].status = "cancelled" /\ run'[r].page = run[r].page /\ run'[r].type = run[r].type
        /\ \A q \in Runs \ {r} : run'[q] = run[q]
    BY <1>1 DEF ApplyCancel, TypeInv, RowsOK, RunRow
  <1>3. UNCHANGED log
    BY DEF ApplyCancel, Next1
  <1>4. \A q \in Runs, p \in Pages :
          task'[q][p].status = IF q = r /\ task[q][p].status \notin Over
                                 THEN "cancelled" ELSE task[q][p].status
    BY <1>1, FenceTasksStatus, Constants DEF ApplyCancel
  <1>5. RunCancelled(r)
    BY <1>1, <1>2, <1>3, <1>4 DEF RunCancelled, SamePages
  <1>6. \A q \in Runs \ {r} : RunKept(q)
    BY <1>2, <1>3, <1>4, SameRun DEF TaskKept
  <1>7. QED
    BY <1>5, <1>6 DEF RowsMove

\* A recovery: of one run that may be resumed, of all active runs, or of a new
\* run when there is no active one.
LEMMA RowsRecovery ==
  ASSUME TypeInv, RowsInv, NEW x \in Executors, NEW c \in Commands, NEW rs \in SUBSET Runs,
         ApplyRecovery(x, c, rs)
  PROVE  RowsMove
  <1>1. \A q \in Runs \ rs : run'[q] = run[q]
    BY DEF ApplyRecovery
  <1>2. ASSUME NEW r \in rs
        PROVE  /\ run'[r].status = "queued" /\ run'[r].page = run[r].page
               /\ run'[r].type = IF run[r].type = None THEN "realtime" ELSE run[r].type
    BY DEF ApplyRecovery, TypeInv, RowsOK, RunRow
  <1>3. UNCHANGED log
    BY DEF ApplyRecovery, Next1
  <1>4. \A q \in Runs, p \in Pages : TaskKept(q, p)
    <2>1. ASSUME NEW q \in Runs, NEW p \in Pages
          PROVE  task'[q][p].status = FenceTasks(rs, "pending")[q][p].status
      <3>1. FenceTasks(rs, "pending") \in [Runs -> [Pages -> TaskRow]]
        BY FenceTasksType, Constants DEF TypeInv, RowsOK
      <3>2. \A t \in TaskRow : \A n : [t EXCEPT !.tries = n].status = t.status
        BY DEF TaskRow
      <3>3. \E n : task'[q][p] = [FenceTasks(rs, "pending")[q][p] EXCEPT !.tries = n]
        BY DEF ApplyRecovery
      <3>4. QED
        BY <3>1, <3>2, <3>3
    <2>2. "pending" \in TaskStatus /\ "pending" \notin Over
      BY DEF TaskStatus, Over, Settled
    <2>3. QED
      BY <2>1, <2>2, FenceTasksStatus DEF TaskKept
  <1>5. \A q \in Runs \ rs : RunKept(q)
    BY <1>1, <1>3, <1>4, SameRun
  <1>6. None \notin Lanes /\ "realtime" \in Lanes
    BY NoneAssumption DEF Lanes
  <1>7. ASSUME NEW r \in rs, run[r].status \in Active PROVE RunKept(r)
    <2>1. run[r].type \in Lanes
      BY <1>7, Statuses DEF RowsInv, Named
    <2>2. QED
      BY <1>2, <1>3, <1>4, <1>6, <1>7, <2>1, Statuses DEF RunKept, SamePages
  <1>8. CASE cmd[c].action # "restart"
    <2>1. cmd[c].action \in {"resume", "retry"}
      BY <1>8 DEF ApplyRecovery, Recovery
    <2>2. PICK r \in Runs : rs = {r} /\ r = cmd[c].run
      BY <1>8, <2>1 DEF ApplyRecovery, RecoveryTargets, TypeInv, CommandsOK
    <2>3. ~CannotResume(r) /\ run[r].status # "absent"
      BY <2>1, <2>2 DEF ApplyRecovery, Rejected, RowsInv, Named
    <2>4. run[r].type \in Lanes
      BY <2>3 DEF RowsInv, Named
    <2>5. RunEnters(r)
      BY <1>1, <1>2, <1>3, <1>4, <1>6, <2>2, <2>3, <2>4, Statuses DEF RunEnters, SamePages, CannotResume
    <2>6. QED
      BY <1>5, <2>2, <2>5 DEF RowsMove
  <1>9. CASE cmd[c].action = "restart" /\ ActiveRuns # {}
    <2>1. \A r \in rs : run[r].status \in Active
      BY <1>9 DEF ApplyRecovery, RecoveryTargets, ActiveRuns
    <2>2. QED
      BY <1>5, <1>7, <2>1 DEF RowsMove
  <1>10. CASE cmd[c].action = "restart" /\ ActiveRuns = {}
    <2>1. PICK r \in Runs : rs = {r} /\ run[r].status = "absent"
      BY <1>10 DEF ApplyRecovery, RecoveryTargets, AbsentRuns
    <2>2. ~HasTask(r)
      BY <2>1 DEF RowsInv, Named
    <2>3. run[r].type \in Lanes \cup {None}
      BY RowFacts
    <2>4. RunEnters(r)
      BY <1>1, <1>2, <1>3, <1>4, <1>6, <1>10, <2>1, <2>2, <2>3, Statuses
         DEF RunEnters, SamePages, LaneFree
    <2>5. QED
      BY <1>5, <2>1, <2>4 DEF RowsMove
  <1>11. QED
    BY <1>8, <1>9, <1>10

LEMMA RowsCommands ==
  ASSUME TypeInv, RowsInv, NEW x \in Executors, BeginCommands(x) \/ ApplyStep(x)
  PROVE  RowsMove /\ CommandsName
  <1>1. CommandsName
    <2>1. ASSUME NEW c \in Commands, RejectCommand(x, c) \/ ApplyRun(x, c) \/ PollRestart(x, c)
          PROVE  \E status : cmd' = [cmd EXCEPT ![c].status = status]
      BY <2>1 DEF RejectCommand, ApplyRun, PollRestart
    <2>2. ASSUME NEW c \in Commands,
                 \/ ApplyPause(x, c) \/ ApplyCancel(x, c)
                 \/ \E rs \in SUBSET Runs : ApplyRecovery(x, c, rs)
          PROVE  \E status, rs : cmd' = Applied(c, status, rs)
      BY <2>2 DEF ApplyPause, ApplyCancel, ApplyRecovery
    <2>3. BeginCommands(x) => UNCHANGED cmd
      BY DEF BeginCommands, rows
    <2>4. QED
      BY <2>1, <2>2, <2>3, CommandsSame DEF ApplyStep
  <1>2. ASSUME NEW c \in Commands, ApplyRun(x, c) PROVE RowsMove
    <2>1. /\ UNCHANGED <<task, log>>
          /\ run' = [run EXCEPT ![cmd[c].run].status =
                       IF run[cmd[c].run].status = "interrupted" THEN "queued"
                       ELSE run[cmd[c].run].status]
      BY <1>2 DEF ApplyRun, Next1
    <2>2. \A r \in Runs : /\ run'[r].type = run[r].type /\ run'[r].page = run[r].page
                          /\ \/ run'[r].status = run[r].status
                             \/ run[r].status = "interrupted" /\ run'[r].status = "queued"
      BY <2>1 DEF TypeInv, RowsOK, RunRow
    <2>3. \A r \in Runs : RunKept(r)
      BY <2>1, <2>2, Statuses DEF RunKept, SamePages, TaskKept
    <2>4. QED
      BY <2>3 DEF RowsMove
  <1>3. CASE \/ BeginCommands(x)
             \/ \E c \in Commands : RejectCommand(x, c) \/ PollRestart(x, c)
    <2>1. UNCHANGED <<run, task, log>>
      BY <1>3 DEF BeginCommands, RejectCommand, PollRestart, Next1, rows
    <2>2. QED
      BY <1>1, <2>1, RowsSame
  <1>4. QED
    BY <1>1, <1>2, <1>3, RowsPause, RowsCancel, RowsRecovery DEF ApplyStep

LEMMA RowsClaim ==
  ASSUME TypeInv, RowsInv, NEW x \in Executors, NEW r \in Runs, NEW p \in Pages, ClaimBatch(x, r, p)
  PROVE  RowsMove
  <1>1. /\ run'[r].status = "running" /\ run'[r].page = run[r].page /\ run'[r].type = run[r].type
        /\ \A q \in Runs \ {r} : run'[q] = run[q]
    BY DEF ClaimBatch, TypeInv, RowsOK, RunRow
  <1>2. UNCHANGED log
    BY DEF ClaimBatch
  <1>3. p \in BatchPagesOf(r)
    BY DEF ClaimBatch
  <1>4. run[r].status \in Active
    BY <1>3, Statuses DEF BatchPagesOf
  <1>5. \/ ~HasTask(r) /\ p = run[r].page
        \/ task[r][p].status \notin Over
    BY <1>3, Statuses DEF BatchPagesOf, Claimable
  <1>6. /\ task'[r][p].status = "queued"
        /\ \A q \in Runs, n \in Pages : <<q, n>> # <<r, p>> => task'[q][n] = task[q][n]
    <2> DEFINE t == IF HasTask(r) THEN task[r][p] ELSE NewTask
               u == [t EXCEPT !.status = "queued", !.lease = "none"]
    <2>1. t \in TaskRow
      BY Constants DEF TypeInv, RowsOK
    <2> HIDE DEF t
    <2>2. u.status = "queued"
      BY <2>1 DEF TaskRow
    <2>3. task' = [task EXCEPT ![r][p] = u]
      BY DEF ClaimBatch, t
    <2> HIDE DEF u
    <2>4. QED
      BY <2>2, <2>3 DEF TypeInv, RowsOK
  <1>7. "queued" \notin Over
    BY Statuses
  <1>8. RunBegun(r)
    BY <1>1, <1>2, <1>4, <1>5, <1>6, <1>7 DEF RunBegun, SamePages, TaskKept
  <1>9. \A q \in Runs \ {r} : RunKept(q)
    BY <1>1, <1>2, <1>6, SameRun DEF TaskKept
  <1>10. QED
    BY <1>8, <1>9 DEF RowsMove

LEMMA RowsRecordExit ==
  ASSUME TypeInv, NEW x \in Executors, RecordExit(x)
  PROVE  RowsMove
  <1> DEFINE b    == ex[x]
             lost == /\ rt.gen = b.srcGen /\ ~b.ok
                     /\ run[b.run].status = "running" /\ run[b.run].gen = b.runGen
  <1>1. CASE ~lost
    BY <1>1, RowsSame DEF RecordExit
  <1>2. CASE lost
    <2>1. /\ task' = FenceTasks({b.run}, "pending") /\ UNCHANGED log
          /\ run' = [run EXCEPT ![b.run].gen = @ + 1, ![b.run].status = "interrupted"]
      BY <1>2 DEF RecordExit
    <2>2. "pending" \in TaskStatus /\ "pending" \notin Over
      BY Statuses DEF TaskStatus
    <2>3. \A q \in Runs, p \in Pages : TaskKept(q, p)
      <3>1. ASSUME NEW q \in Runs, NEW p \in Pages PROVE TaskKept(q, p)
        <4>1. CASE b.run \in Runs
          BY <2>1, <2>2, <4>1, FenceTasksStatus DEF TaskKept
        <4>2. CASE b.run \notin Runs
          BY <2>1, <4>2 DEF TaskKept, FenceTasks
        <4>3. QED
          BY <4>1, <4>2
      <3>2. QED
        BY <3>1
    <2>4. \A q \in Runs : /\ run'[q].type = run[q].type /\ run'[q].page = run[q].page
                          /\ \/ run'[q].status = run[q].status
                             \/ run[q].status = "running" /\ run'[q].status = "interrupted"
      BY <1>2, <2>1 DEF TypeInv, RowsOK, RunRow
    <2> HIDE DEF b, lost
    <2>5. ASSUME NEW q \in Runs PROVE RunKept(q)
      <3>1. SamePages(q)
        BY Zenon, <2>1, <2>4 DEF SamePages
      <3>2. \/ run'[q].status = run[q].status
            \/ run[q].status \in Active /\ run'[q].status \in Active \cup {"partial_failed"}
        BY <2>4, Statuses
      <3>3. QED
        BY <2>3, <2>4, <3>1, <3>2 DEF RunKept
    <2>6. QED
      BY <2>5 DEF RowsMove
  <1>3. QED
    BY <1>1, <1>2

LEMMA RowsExecutor ==
  ASSUME TypeInv, RowsInv, NEW x \in Executors, ExecutorStep(x)
  PROVE  RowsMove /\ CommandsName
  <1>1. CASE BeginCommands(x) \/ ApplyStep(x)
    BY <1>1, RowsCommands
  <1>2. ASSUME ~(BeginCommands(x) \/ ApplyStep(x)) PROVE CommandsName
    <2>1. UNCHANGED cmd
      BY Zenon, <1>2 DEF ExecutorStep, Acquire, LeaseWaited, TakeOver, LockGone, ProbeWorker, RestartBudget,
                  ClaimBatch, NothingToClaim, Spawn, SpawnFails, Renew, Superseded, Reap, RecordExit, rows
    <2>2. QED
      BY <2>1, CommandsSame
  <1>3. ASSUME ~(BeginCommands(x) \/ ApplyStep(x)) PROVE RowsMove
    <2>1. CASE \E r \in Runs, p \in Pages : ClaimBatch(x, r, p)
      BY <2>1, RowsClaim
    <2>2. CASE RecordExit(x)
      BY <2>2, RowsRecordExit
    <2>3. CASE UNCHANGED <<run, task, log>>
      BY <2>3, RowsSame
    <2>4. QED
      BY <1>3, <2>1, <2>2, <2>3
         DEF ExecutorStep, Acquire, LeaseWaited, TakeOver, LockGone, ProbeWorker, RestartBudget,
             NothingToClaim, Spawn, SpawnFails, Renew, Superseded, Reap, rows
  <1>4. QED
    BY <1>1, <1>2, <1>3

\* A step that changes one task, open before and after, and of its run at most
\* the status: a download, a heartbeat, a failure.
LEMMA RowsOneTask ==
  ASSUME TypeInv, NEW r \in Runs, NEW p \in Pages, NEW t,
         task' = [task EXCEPT ![r][p] = t],
         t.status = task[r][p].status \/ (task[r][p].status \notin Over /\ t.status \notin Over),
         \/ UNCHANGED run
         \/ /\ run[r].status \in Active
            /\ \E status \in Active \cup {"partial_failed"} : run' = [run EXCEPT ![r].status = status],
         UNCHANGED log
  PROVE  RowsMove
  <1>1. \A q \in Runs, n \in Pages : TaskKept(q, n)
    BY DEF TaskKept, TypeInv, RowsOK
  <1>2. ASSUME NEW q \in Runs PROVE RunKept(q)
    <2>1. CASE UNCHANGED run
      BY <1>1, <2>1, SameRun
    <2>2. ASSUME NEW status \in Active \cup {"partial_failed"}, run' = [run EXCEPT ![r].status = status],
                 run[r].status \in Active
          PROVE  RunKept(q)
      <3>1. /\ run'[q].type = run[q].type /\ run'[q].page = run[q].page
            /\ run'[q].status = IF q = r THEN status ELSE run[q].status
        BY <2>2 DEF TypeInv, RowsOK, RunRow
      <3>2. QED
        BY <1>1, <2>2, <3>1 DEF RunKept, SamePages
    <2>3. QED
      BY <2>1, <2>2
  <1>3. QED
    BY <1>2 DEF RowsMove

\* The page a worker holds a running task for is the one after the checkpoint.
LEMMA HeldPage ==
  ASSUME TypeInv, LedgerContiguous, NEW w \in Workers, wk[w].pc \in {"started", "fetching"},
         HeldTask(w).status \notin {"succeeded", "absent"}
  PROVE  /\ wk[w].run \in Runs /\ wk[w].page \in Pages
         /\ wk[w].page = run[wk[w].run].page
         /\ HeldTask(w) \in TaskRow
  <1>1. wk[w].run \in Runs /\ wk[w].page \in Pages
    BY DEF TypeInv, WorkersOK, Worker
  <1>2. run[wk[w].run].page \in Nat /\ wk[w].page \in Nat
    BY <1>1, RowFacts DEF Pages
  <1>3. QED
    BY <1>1, <1>2 DEF LedgerContiguous, HeldTask, TypeInv, RowsOK

\* persist_page adds the page after the checkpoint.
LEMMA RowsCommit ==
  ASSUME TypeInv, RowsInv, NEW w \in Workers, NEW outcome \in Outcomes, Commit(w, outcome)
  PROVE  RowsMove
  <1> DEFINE r     == wk[w].run
             p     == wk[w].page
             after == AfterPage(r, p + 1, outcome)
  <1>1. /\ wk[w].pc = "fetching" /\ HeldTask(w).status = "running"
        /\ run[r].status = "running"
        /\ outcome = "more" => p + 1 \in Pages
    BY DEF Commit, CommitFence
  <1>2. r \in Runs /\ p \in Pages /\ p = run[r].page /\ p \in Nat
    BY <1>1, HeldPage DEF RowsInv, Pages
  <1>3. /\ after \in {"succeeded", "partial_failed", "paused", "running"}
        /\ after \in {"running", "paused"} => outcome = "more"
    BY DEF AfterPage, Outcomes
  <1>4. /\ run' = [run EXCEPT ![r].page = p + 1, ![r].status = after]
        /\ log' = [log EXCEPT ![r] = Append(@, wk[w].srcGen)]
        /\ task' = [task EXCEPT ![r] = [q \in Pages |->
             IF q = p THEN [task[r][q] EXCEPT !.status = "succeeded", !.lease = "none", !.due = TRUE]
             ELSE IF q = p + 1 /\ after \in {"running", "paused"} THEN NewTask
             ELSE task[r][q]]]
    BY DEF Commit
  <1> HIDE DEF after
  <1>5. /\ run'[r].status = after /\ run'[r].page = p + 1 /\ run'[r].type = run[r].type
        /\ \A q \in Runs \ {r} : run'[q] = run[q]
    BY <1>2, <1>4 DEF TypeInv, RowsOK, RunRow
  <1>6. /\ task'[r][p].status = "succeeded"
        /\ \A q \in Pages \ {p, p + 1} : task'[r][q] = task[r][q]
        /\ \A q \in Runs \ {r} : task'[q] = task[q]
        /\ p + 1 \in Pages => task'[r][p + 1] = IF after \in {"running", "paused"} THEN NewTask
                                               ELSE task[r][p + 1]
    <2>1. [task[r][p] EXCEPT !.status = "succeeded", !.lease = "none", !.due = TRUE].status = "succeeded"
      BY <1>2 DEF TypeInv, RowsOK, TaskRow
    <2>2. p # p + 1
      BY <1>2
    <2>3. QED
      BY Zenon, <1>2, <1>4, <2>1, <2>2 DEF TypeInv, RowsOK
  <1>7. NewTask.status = "pending"
    BY DEF NewTask, NoTask
  <1>8. wk[w].srcGen \in Nat /\ log'[r] = Append(log[r], wk[w].srcGen)
        /\ \A q \in Runs \ {r} : log'[q] = log[q]
    BY <1>2, <1>4 DEF TypeInv, RowsOK, WorkersOK, Worker
  <1>9. after \in RunStatus \ {"absent", "cancelled"}
    BY <1>3 DEF RunStatus, Active, Settled
  <1>10. after \in Active => after \in {"running", "paused"}
    BY <1>3, Statuses
  <1>11. PageCommitted(r)
    <2>1. IF after \in Active
            THEN p + 1 \in Pages /\ task'[r][p + 1].status = "pending"
            ELSE p + 1 \in Pages => task'[r][p + 1].status \in {"pending", task[r][p + 1].status}
      BY <1>1, <1>3, <1>6, <1>7, <1>10
    <2>2. QED
      BY Zenon, <1>1, <1>2, <1>5, <1>6, <1>8, <1>9, <2>1 DEF PageCommitted
  <1>12. \A q \in Runs \ {r} : RunKept(q)
    BY <1>5, <1>6, <1>8, SameRun DEF TaskKept
  <1>13. QED
    BY <1>2, <1>11, <1>12 DEF RowsMove

LEMMA RowsFail ==
  ASSUME TypeInv, RowsInv, NEW w \in Workers, NEW code \in Failures, Fail(w, code)
  PROVE  RowsMove
  <1> DEFINE r == wk[w].run
             p == wk[w].page
  <1>1. /\ wk[w].pc = "fetching" /\ HeldTask(w).status = "running"
        /\ run[r].status = "running" /\ UNCHANGED log
    BY DEF Fail, FailFence
  <1>2. r \in Runs /\ p \in Pages /\ HeldTask(w) \in TaskRow
    BY <1>1, HeldPage DEF RowsInv
  <1>3. PICK taskStatus \in {"failed", "pending", "retry_wait"},
             runStatus \in {"partial_failed", "waiting_login", "paused", "queued"} :
          /\ task' = [task EXCEPT ![r][p] = [@ EXCEPT !.status = taskStatus, !.lease = "none",
                                                      !.due = taskStatus # "retry_wait"]]
          /\ run' = [run EXCEPT ![r].status = runStatus]
    BY Zenon DEF Fail
  <1> DEFINE t == [task[r][p] EXCEPT !.status = taskStatus, !.lease = "none",
                                     !.due = taskStatus # "retry_wait"]
  <1>4. task' = [task EXCEPT ![r][p] = t]
    BY <1>3
  <1>5. t.status = taskStatus
    BY <1>2 DEF HeldTask, TaskRow
  <1> HIDE DEF t
  <1>6. taskStatus \notin Over /\ task[r][p].status \notin Over
    BY <1>1, Statuses DEF HeldTask
  <1>7. run[r].status \in Active /\ runStatus \in Active \cup {"partial_failed"}
    BY <1>1, Statuses
  <1>8. \E status \in Active \cup {"partial_failed"} : run' = [run EXCEPT ![r].status = status]
    BY Zenon, <1>3, <1>7
  <1>9. t.status \notin Over
    BY <1>5, <1>6
  <1> HIDE DEF r, p
  <1>10. QED
    BY <1>1, <1>2, <1>4, <1>6, <1>7, <1>8, <1>9, RowsOneTask

LEMMA RowsWorker ==
  ASSUME TypeInv, RowsInv, NEW w \in Workers, WorkerStep(w)
  PROVE  RowsMove /\ CommandsName
  <1>1. CommandsName
    <2>1. UNCHANGED cmd
      BY Zenon DEF WorkerStep, Start, Download, DownloadRefused, Heartbeat, Commit, Fail, Discarded, Exit, rows
    <2>2. QED
      BY <2>1, CommandsSame
  <1>2. ASSUME Download(w) PROVE RowsMove
    <2> DEFINE t == [HeldTask(w) EXCEPT !.gen = @ + 1, !.tries = IF @ < MaxTries THEN @ + 1 ELSE @,
                                        !.status = "running", !.lease = "live"]
    <2>1. /\ wk[w].pc = "started" /\ HeldTask(w).status \in Startable
          /\ task' = [task EXCEPT ![wk[w].run][wk[w].page] = t]
          /\ UNCHANGED <<run, log>>
      BY <1>2 DEF Download, DownloadFence
    <2>2. HeldTask(w).status \notin Over
      BY <2>1, Statuses DEF Startable
    <2>3. wk[w].run \in Runs /\ wk[w].page \in Pages /\ HeldTask(w) \in TaskRow
      BY <2>1, <2>2, HeldPage, Statuses DEF RowsInv
    <2>4. t.status = "running"
      BY <2>3 DEF TaskRow
    <2> HIDE DEF t
    <2>5. "running" \notin Over
      BY Statuses
    <2>6. QED
      BY <2>1, <2>2, <2>3, <2>4, <2>5, RowsOneTask DEF HeldTask
  <1>3. ASSUME Heartbeat(w), ~UNCHANGED task PROVE RowsMove
    <2> DEFINE t == [HeldTask(w) EXCEPT !.lease = "live"]
    <2>1. /\ wk[w].pc = "fetching" /\ HeldTask(w).status = "running"
          /\ task' = [task EXCEPT ![wk[w].run][wk[w].page].lease = "live"]
          /\ UNCHANGED <<run, log>>
      BY <1>3 DEF Heartbeat, HeartbeatFence
    <2>2. wk[w].run \in Runs /\ wk[w].page \in Pages /\ HeldTask(w) \in TaskRow
      BY <2>1, HeldPage DEF RowsInv
    <2>3. task' = [task EXCEPT ![wk[w].run][wk[w].page] = t]
      BY <2>1 DEF HeldTask
    <2>4. t.status = HeldTask(w).status
      BY <2>2 DEF TaskRow
    <2>5. t.status = task[wk[w].run][wk[w].page].status
      BY <2>4 DEF HeldTask
    <2>6. UNCHANGED run /\ UNCHANGED log
      BY <2>1
    <2> HIDE DEF t
    <2>7. QED
      BY <2>2, <2>3, <2>5, <2>6, RowsOneTask
  <1>4. RowsMove
    <2>1. CASE UNCHANGED <<run, task, log>>
      BY <2>1, RowsSame
    <2>2. QED
      BY <1>2, <1>3, <2>1, RowsCommit, RowsFail
         DEF WorkerStep, Start, DownloadRefused, Heartbeat, Discarded, Exit, rows
  <1>5. QED
    BY <1>1, <1>4

LEMMA RowsOutside ==
  ASSUME TypeInv, Outside
  PROVE  RowsMove /\ CommandsName
  <1>1. UNCHANGED cmd /\ UNCHANGED log
    BY DEF Outside, WorkerCrash, ExecutorCrash, LoseExecutorLock, LoseWorkerLock,
           PauseForLogin, PublishSession, rows
  <1>2. CommandsName
    BY <1>1, CommandsSame
  <1>3. ASSUME \A q \in Runs : /\ run'[q].page = run[q].page /\ run'[q].type = run[q].type
                               /\ \/ run'[q].status = run[q].status
                                  \/ run[q].status \in Active /\ run'[q].status \in Active,
               \A q \in Runs, p \in Pages : TaskKept(q, p)
        PROVE  RowsMove
    BY <1>1, <1>3 DEF RowsMove, RunKept, SamePages
  <1>4. CASE PauseForLogin
    <2> DEFINE hit == {r \in Runs : run[r].status \in {"queued", "running", "interrupted", "waiting_login"}}
    <2>1. /\ run' = [r \in Runs |-> IF r \in hit THEN [run[r] EXCEPT !.status = "waiting_login"] ELSE run[r]]
          /\ task' = [r \in Runs |-> [p \in Pages |->
               IF r \in hit /\ task[r][p].status = "running" THEN Fenced(task[r][p], "pending")
               ELSE task[r][p]]]
      BY <1>4 DEF PauseForLogin
    <2>2. \A q \in hit : run[q].status \in Active
      BY Statuses
    <2> HIDE DEF hit
    <2>3. \A q \in Runs : /\ run'[q].page = run[q].page /\ run'[q].type = run[q].type
                          /\ \/ run'[q].status = run[q].status
                             \/ run[q].status \in Active /\ run'[q].status \in Active
      BY <2>1, <2>2, Statuses DEF TypeInv, RowsOK, RunRow
    <2>4. ASSUME NEW t \in TaskRow, t.status = "running" PROVE Fenced(t, "pending").status = "pending"
      BY <2>4 DEF Fenced, Settled, TaskRow
    <2>5. \A q \in Runs, p \in Pages : TaskKept(q, p)
      BY <2>1, <2>4, Statuses DEF TaskKept, TypeInv, RowsOK
    <2>6. QED
      BY <1>2, <1>3, <2>3, <2>5
  <1>5. CASE PublishSession
    <2>1. \A q \in Runs : /\ run'[q].page = run[q].page /\ run'[q].type = run[q].type
                          /\ \/ run'[q].status = run[q].status
                             \/ run[q].status \in Active /\ run'[q].status \in Active
      BY <1>5, Statuses DEF PublishSession, TypeInv, RowsOK, RunRow
    <2>2. \A q \in Runs, p \in Pages : TaskKept(q, p)
      BY <1>5 DEF PublishSession, TaskKept
    <2>3. QED
      BY <1>2, <1>3, <2>1, <2>2
  <1>6. CASE UNCHANGED <<run, task>>
    BY <1>1, <1>2, <1>6, RowsSame
  <1>7. RowsMove
    BY <1>4, <1>5, <1>6 DEF Outside, WorkerCrash, ExecutorCrash, LoseExecutorLock, LoseWorkerLock, rows
  <1>8. QED
    BY <1>2, <1>7

LEMMA RowsTime ==
  ASSUME TypeInv, Time
  PROVE  RowsMove /\ CommandsName
  <1>1. UNCHANGED cmd /\ UNCHANGED <<run, log>>
    BY DEF Time, LeaseExpires, BackoffOver, StampAges, TaskLeaseExpires, RetryDue
  <1>2. \A q \in Runs, n \in Pages : task'[q][n].status = task[q][n].status
    <2>1. ASSUME NEW r \in Runs, NEW p \in Pages, TaskLeaseExpires(r, p) \/ RetryDue(r, p)
          PROVE  \A q \in Runs, n \in Pages : task'[q][n].status = task[q][n].status
      <3>1. task[r][p] \in TaskRow
        BY DEF TypeInv, RowsOK
      <3>2. PICK t \in {[task[r][p] EXCEPT !.lease = "expired"], [task[r][p] EXCEPT !.due = TRUE]} :
              task' = [task EXCEPT ![r][p] = t]
        BY <2>1 DEF TaskLeaseExpires, RetryDue
      <3>3. t.status = task[r][p].status
        BY <3>1 DEF TaskRow
      <3>4. QED
        BY <3>2, <3>3 DEF TypeInv, RowsOK
    <2>2. CASE UNCHANGED task
      BY <2>2
    <2>3. QED
      BY <2>1, <2>2 DEF Time, LeaseExpires, BackoffOver, StampAges
  <1>3. RowsMove
    BY <1>1, <1>2 DEF RowsMove, RunKept, SamePages, TaskKept
  <1>4. QED
    BY <1>1, <1>3, CommandsSame

LEMMA EveryStepMovesRows ==
  ASSUME TypeInv, RowsInv, [Next]_vars
  PROVE  RowsMove /\ CommandsName
  <1>1. CASE UNCHANGED vars
    BY <1>1, RowsSame, CommandsSame DEF vars, rows
  <1>2. CASE Next
    BY <1>2, RowsRequests, RowsExecutor, RowsWorker, RowsOutside, RowsTime DEF Next
  <1>3. QED
    BY <1>1, <1>2

\* The rows of the ledger agree with each other in every reachable state.
THEOREM RowsAgree == Spec => [](TypeInv /\ RowsInv)
  <1>1. Init => TypeInv /\ RowsInv
    BY InitType, RowsInit
  <1>2. TypeInv /\ RowsInv /\ [Next]_vars => (TypeInv /\ RowsInv)'
    BY TypeStep, EveryStepMovesRows, RowsInvMove
  <1>3. QED
    BY <1>1, <1>2, PTL DEF Spec

\* Pages are committed once, in order and without a gap, and the checkpoint and
\* the tasks say so: persist_page, fence_tasks, claim_batch and every command.
THEOREM LedgerContiguousAlways == Spec => []LedgerContiguous
  <1>1. RowsInv => LedgerContiguous
    BY DEF RowsInv
  <1>2. QED
    BY <1>1, RowsAgree, PTL

\* claim_batch and resume_run never meet an active run without a page to work on.
THEOREM ActiveRunHasWorkAlways == Spec => []ActiveRunHasWork
  <1>1. RowsInv => ActiveRunHasWork
    BY DEF RowsInv
  <1>2. QED
    BY <1>1, RowsAgree, PTL

\* The scheduler, the API and the commands never bring two active runs into a lane.
THEOREM OneActivePerLaneAlways == Spec => []OneActivePerLane
  <1>1. RowsInv => OneActivePerLane
    BY DEF RowsInv
  <1>2. QED
    BY <1>1, RowsAgree, PTL

\* No command, worker or login session revives a finished or cancelled run or
\* adds a page to it.
THEOREM FinalRunsStayAlways == Spec => FinalRunsStay
  <1> DEFINE Stays == \A r \in Runs : run[r].status \in Settled =>
                        run'[r].status = run[r].status /\ log'[r] = log[r]
  <1>1. ASSUME TypeInv, RowsInv, [Next]_vars PROVE Stays
    <2>1. RowsMove
      BY <1>1, EveryStepMovesRows
    <2>2. ASSUME NEW r \in Runs, run[r].status \in Settled
          PROVE  run'[r].status = run[r].status /\ log'[r] = log[r]
      <3>1. RunKept(r) \/ RunCancelled(r)
        BY <2>1, <2>2, Statuses DEF RowsMove, RunEnters, RunBegun, PageCommitted
      <3>2. QED
        BY <2>2, <3>1, Statuses DEF RunKept, RunCancelled, SamePages
    <2>3. QED
      BY <2>2
  <1>2. TypeInv /\ RowsInv /\ [Next]_vars => [Stays]_vars
    BY <1>1
  <1>3. QED
    BY <1>2, RowsAgree, PTL DEF Spec, FinalRunsStay

-----------------------------------------------------------------------------
(* Restarts.                                                               *)

\* The pages a run got since a command was applied to it belong to batches that
\* were claimed since.
PagesAfter ==
  \A c \in Commands : \A r \in cmd[c].over :
    \A i \in 1 .. Len(log[r]) : i > cmd[c].base[r] => log[r][i] > cmd[c].at

RestartInv == PagesAfter /\ RestartProven

\* Only a worker that passes its fences adds a page.
LogsMove ==
  \A r \in Runs :
    \/ log'[r] = log[r]
    \/ \E w \in Workers : /\ CanWrite(w) /\ wk[w].run = r
                          /\ log'[r] = Append(log[r], wk[w].srcGen)

SameEffect(c) ==
  /\ cmd'[c].over = cmd[c].over /\ cmd'[c].at = cmd[c].at /\ cmd'[c].base = cmd[c].base
  /\ cmd'[c].action = cmd[c].action

\* A command keeps the effect it had, takes effect now, or is new; a restart
\* becomes successful only when it progressed.
Judged(c) ==
  \/ /\ SameEffect(c)
     /\ cmd'[c].action = "restart" /\ cmd'[c].status = "succeeded" =>
          cmd[c].status = "succeeded" \/ Progressed(c)
  \/ /\ \A r \in cmd'[c].over : r \in Runs /\ cmd'[c].base[r] = run[r].page
     /\ UNCHANGED log
     /\ ~(cmd'[c].action = "restart" /\ cmd'[c].status = "succeeded")

LEMMA RestartMove ==
  ASSUME TypeInv, LedgerContiguous, CommandsFence, RestartInv, LogsMove,
         \A c \in Commands : Judged(c)
  PROVE  RestartInv'
  <1>1. \A r \in Runs : log[r] \in Seq(Nat) /\ Len(log[r]) \in Nat /\ run[r].page = Len(log[r])
    BY RowFacts DEF LedgerContiguous
  <1>2. \A c \in Commands : /\ cmd[c].over \subseteq Runs /\ cmd[c].at \in Nat
                            /\ cmd[c].base \in [Runs -> Nat]
    BY DEF TypeInv, CommandsOK, Command
  <1>3. ASSUME NEW r \in Runs
        PROVE  /\ Len(log'[r]) \in Nat /\ Len(log'[r]) >= Len(log[r])
               /\ \A i \in 1 .. Len(log[r]) : log'[r][i] = log[r][i]
    <2>1. CASE log'[r] = log[r]
      BY <1>1, <2>1
    <2>2. ASSUME NEW w \in Workers, log'[r] = Append(log[r], wk[w].srcGen)
          PROVE  /\ Len(log'[r]) = Len(log[r]) + 1
                 /\ \A i \in 1 .. Len(log[r]) : log'[r][i] = log[r][i]
      <3>1. wk[w].srcGen \in Nat
        BY DEF TypeInv, WorkersOK, Worker
      <3>2. QED
        BY <1>1, <2>2, <3>1
    <2>3. QED
      BY <1>1, <2>1, <2>2 DEF LogsMove
  <1>4. ASSUME NEW c \in Commands, NEW r \in cmd'[c].over, NEW i \in 1 .. Len(log'[r]),
               i > cmd'[c].base[r]
        PROVE  log'[r][i] > cmd'[c].at
    <2>1. CASE SameEffect(c)
      <3>1. /\ r \in cmd[c].over /\ r \in Runs /\ i > cmd[c].base[r] /\ cmd'[c].at = cmd[c].at
        BY <1>2, <1>4, <2>1 DEF SameEffect
      <3>2. CASE i \in 1 .. Len(log[r])
        BY <1>3, <3>1, <3>2 DEF RestartInv, PagesAfter
      <3>3. CASE i \notin 1 .. Len(log[r])
        <4>1. PICK w \in Workers : /\ CanWrite(w) /\ wk[w].run = r
                                   /\ log'[r] = Append(log[r], wk[w].srcGen)
          BY <1>4, <3>1, <3>3 DEF LogsMove
        <4>2. wk[w].srcGen \in Nat
          BY DEF TypeInv, WorkersOK, Worker
        <4>3. i = Len(log[r]) + 1 /\ log'[r][i] = wk[w].srcGen
          BY <1>1, <1>4, <3>1, <3>3, <4>1, <4>2
        <4>4. wk[w].srcGen > cmd[c].at
          BY <3>1, <4>1 DEF CommandsFence
        <4>5. QED
          BY <3>1, <4>3, <4>4
      <3>4. QED
        BY <3>2, <3>3
    <2>2. CASE ~SameEffect(c)
      <3>1. r \in Runs /\ cmd'[c].base[r] = run[r].page /\ log' = log
        BY <1>4, <2>2 DEF Judged
      <3>2. QED
        BY <1>1, <1>4, <3>1
    <2>3. QED
      BY <2>1, <2>2
  <1>5. ASSUME NEW c \in Commands, cmd'[c].action = "restart", cmd'[c].status = "succeeded"
        PROVE  \E r \in cmd'[c].over : \E i \in 1 .. Len(log'[r]) : log'[r][i] > cmd'[c].at
    <2>1. SameEffect(c) /\ (cmd[c].status = "succeeded" \/ Progressed(c))
      BY <1>5 DEF Judged
    <2>2. \E r \in cmd[c].over : \E i \in 1 .. Len(log[r]) : log[r][i] > cmd[c].at
      <3>1. CASE cmd[c].status = "succeeded"
        BY <1>5, <2>1, <3>1 DEF RestartInv, RestartProven, SameEffect
      <3>2. CASE Progressed(c)
        <4>1. PICK r \in cmd[c].over : run[r].page > cmd[c].base[r]
          BY <3>2 DEF Progressed
        <4>2. r \in Runs /\ cmd[c].base[r] \in Nat
          BY <1>2
        <4>3. Len(log[r]) \in 1 .. Len(log[r]) /\ Len(log[r]) > cmd[c].base[r]
          BY <1>1, <4>1, <4>2
        <4>4. log[r][Len(log[r])] > cmd[c].at
          BY <4>3 DEF RestartInv, PagesAfter
        <4>5. QED
          BY <4>3, <4>4
      <3>3. QED
        BY <2>1, <3>1, <3>2
    <2>3. PICK r \in cmd[c].over : \E i \in 1 .. Len(log[r]) : log[r][i] > cmd[c].at
      BY <2>2
    <2>4. PICK i \in 1 .. Len(log[r]) : log[r][i] > cmd[c].at
      BY <2>3
    <2>5. r \in Runs /\ r \in cmd'[c].over /\ cmd'[c].at = cmd[c].at
      BY <1>2, <2>1 DEF SameEffect
    <2>6. i \in 1 .. Len(log'[r]) /\ log'[r][i] > cmd'[c].at
      BY <1>1, <1>3, <2>4, <2>5
    <2>7. QED
      BY <2>5, <2>6
  <1>6. QED
    BY <1>4, <1>5 DEF RestartInv, PagesAfter, RestartProven

LEMMA EveryStepMovesLogs ==
  ASSUME TypeInv, [Next]_vars
  PROVE  LogsMove
  <1>1. CASE UNCHANGED log
    BY <1>1 DEF LogsMove
  <1>2. ASSUME NEW w \in Workers, NEW outcome \in Outcomes, Commit(w, outcome) PROVE LogsMove
    <2>1. CanWrite(w) /\ log' = [log EXCEPT ![wk[w].run] = Append(@, wk[w].srcGen)]
      BY <1>2 DEF Commit, CommitFence, CanWrite, FailFence
    <2>2. QED
      BY <2>1 DEF LogsMove, TypeInv, RowsOK
  <1>3. CASE UNCHANGED vars
    BY <1>1, <1>3 DEF vars, rows
  <1>4. CASE Requests
    BY <1>1, <1>4 DEF Requests, ScheduleRun, SubmitRun, SubmitAction, SubmitRetry, SubmitRestart,
                      PatchEnabled
  <1>5. ASSUME NEW x \in Executors, ExecutorStep(x) PROVE UNCHANGED log
    <2>1. CASE ApplyStep(x)
      BY ZenonT(30), <2>1 DEF ApplyStep, RejectCommand, ApplyPause, ApplyCancel, ApplyRun, ApplyRecovery,
                  PollRestart, Next1
    <2>2. CASE ~ApplyStep(x)
      BY ZenonT(30), <1>5, <2>2 DEF ExecutorStep, BeginCommands, Acquire, LeaseWaited, TakeOver, LockGone,
           ProbeWorker, RestartBudget, ClaimBatch, NothingToClaim, Spawn, SpawnFails, Renew,
           Superseded, Reap, RecordExit, rows
    <2>3. QED
      BY <2>1, <2>2
  <1>6. ASSUME NEW w \in Workers, WorkerStep(w) PROVE LogsMove
    BY Zenon, <1>1, <1>2, <1>6 DEF WorkerStep, Start, Download, DownloadRefused, Heartbeat, Fail, Discarded,
                            Exit, rows
  <1>7. CASE Outside \/ Time
    BY <1>1, <1>7 DEF Outside, WorkerCrash, ExecutorCrash, LoseExecutorLock, LoseWorkerLock,
         PauseForLogin, PublishSession, Time, LeaseExpires, BackoffOver, StampAges,
         TaskLeaseExpires, RetryDue, rows
  <1>8. QED
    BY <1>1, <1>3, <1>4, <1>5, <1>6, <1>7 DEF Next

LEMMA JudgedSame ==
  ASSUME NEW c \in Commands, cmd'[c] = cmd[c]
  PROVE  Judged(c)
  BY DEF Judged, SameEffect

\* Commands are submitted without effect, get their status, or take effect on
\* the runs as they are.
LEMMA JudgedAccept ==
  ASSUME TypeInv, UNCHANGED log, NEW c \in Commands, NEW action, NEW r, NEW p,
         Accept(c, Pending(action, r, p))
  PROVE  \A d \in Commands : Judged(d)
  <1>1. Pending(action, r, p).over = {} /\ Pending(action, r, p).status = "pending"
    BY DEF Pending, NoCmd
  <1>2. cmd' = [cmd EXCEPT ![c] = Pending(action, r, p)]
    BY DEF Accept
  <1>3. Judged(c)
    BY <1>1, <1>2 DEF Judged, TypeInv, CommandsOK
  <1>4. \A d \in Commands \ {c} : cmd'[d] = cmd[d]
    BY <1>2 DEF TypeInv, CommandsOK
  <1>5. QED
    BY <1>3, <1>4, JudgedSame

LEMMA JudgedStatus ==
  ASSUME TypeInv, NEW c \in Commands, NEW status, cmd' = [cmd EXCEPT ![c].status = status],
         status = "succeeded" =>
           cmd[c].action # "restart" \/ cmd[c].status = "succeeded" \/ Progressed(c)
  PROVE  \A d \in Commands : Judged(d)
  <1>1. SameEffect(c) /\ cmd'[c].status = status
    BY DEF SameEffect, TypeInv, CommandsOK, Command
  <1>2. Judged(c)
    BY <1>1 DEF Judged, SameEffect
  <1>3. \A d \in Commands \ {c} : cmd'[d] = cmd[d]
    BY DEF TypeInv, CommandsOK
  <1>4. QED
    BY <1>2, <1>3, JudgedSame

LEMMA JudgedApplied ==
  ASSUME TypeInv, UNCHANGED log, NEW c \in Commands, NEW status, NEW rs \in SUBSET Runs,
         cmd' = Applied(c, status, rs), cmd[c].action = "restart" => status # "succeeded"
  PROVE  \A d \in Commands : Judged(d)
  <1> DEFINE base == [r \in Runs |-> IF r \in rs THEN run[r].page ELSE 0]
             e    == [cmd[c] EXCEPT !.status = status, !.over = rs, !.at = rt.gen, !.base = base]
  <1>1. cmd' = [cmd EXCEPT ![c] = e]
    BY DEF Applied, TypeInv, CommandsOK
  <1>2. \A r \in rs : r \in Runs /\ base[r] = run[r].page
    OBVIOUS
  <1> HIDE DEF base
  <1>3. e.over = rs /\ e.base = base /\ e.status = status /\ e.action = cmd[c].action
    BY DEF TypeInv, CommandsOK, Command
  <1> HIDE DEF e
  <1>4. cmd'[c] = e
    BY <1>1 DEF TypeInv, CommandsOK
  <1>5. Judged(c)
    BY <1>2, <1>3, <1>4 DEF Judged
  <1>6. \A d \in Commands \ {c} : cmd'[d] = cmd[d]
    BY <1>1 DEF TypeInv, CommandsOK
  <1>7. QED
    BY <1>5, <1>6, JudgedSame

LEMMA EveryStepJudges ==
  ASSUME TypeInv, [Next]_vars
  PROVE  \A c \in Commands : Judged(c)
  <1> DEFINE Goal == \A c \in Commands : Judged(c)
  <1>1. CASE UNCHANGED cmd
    BY <1>1, JudgedSame
  <1>2. CASE UNCHANGED vars
    BY <1>1, <1>2 DEF vars, rows
  <1> HIDE DEF Goal
  <1>3. ASSUME Requests PROVE Goal
    <2>1. UNCHANGED log
      BY <1>3 DEF Requests, ScheduleRun, SubmitRun, SubmitAction, SubmitRetry, SubmitRestart, PatchEnabled
    <2>2. \/ UNCHANGED cmd
          \/ \E c \in Commands : \E action, r, p : Accept(c, Pending(action, r, p))
      BY <1>3 DEF Requests, ScheduleRun, SubmitRun, SubmitAction, SubmitRetry, SubmitRestart, PatchEnabled
    <2>3. QED
      BY <1>1, <2>1, <2>2, JudgedAccept DEF Goal
  <1>4. ASSUME NEW x \in Executors, ApplyStep(x) PROVE Goal
    <2>1. UNCHANGED log
      BY <1>4 DEF ApplyStep, RejectCommand, ApplyPause, ApplyCancel, ApplyRun, ApplyRecovery,
                  PollRestart, Next1
    <2>2. ASSUME NEW c \in Commands, RejectCommand(x, c) PROVE Goal
      BY <2>2, JudgedStatus DEF RejectCommand, Goal
    <2>3. ASSUME NEW c \in Commands, ApplyRun(x, c) PROVE Goal
      BY <2>3, JudgedStatus DEF ApplyRun, Goal
    <2>4. ASSUME NEW c \in Commands, PollRestart(x, c) PROVE Goal
      <3> DEFINE status == IF Progressed(c) THEN "succeeded" ELSE cmd[c].status
      <3>1. cmd' = [cmd EXCEPT ![c].status = status] /\ cmd[c].status = "running"
        BY <2>4 DEF PollRestart
      <3>2. status = "succeeded" => Progressed(c)
        BY <3>1
      <3> HIDE DEF status
      <3>3. QED
        BY <3>1, <3>2, JudgedStatus DEF Goal
    <2>5. ASSUME NEW c \in Commands, ApplyPause(x, c) \/ ApplyCancel(x, c) PROVE Goal
      <3>1. /\ cmd[c].action # "restart" /\ {cmd[c].run} \in SUBSET Runs
            /\ cmd' = Applied(c, "succeeded", {cmd[c].run})
        BY <2>5 DEF ApplyPause, ApplyCancel, TypeInv, CommandsOK
      <3>2. QED
        BY <2>1, <3>1, JudgedApplied DEF Goal
    <2>6. ASSUME NEW c \in Commands, NEW rs \in SUBSET Runs, ApplyRecovery(x, c, rs) PROVE Goal
      <3>1. cmd' = Applied(c, IF cmd[c].action = "restart" THEN "running" ELSE "succeeded", rs)
        BY <2>6 DEF ApplyRecovery
      <3>2. QED
        BY <2>1, <3>1, JudgedApplied DEF Goal
    <2>7. QED
      BY <1>4, <2>2, <2>3, <2>4, <2>5, <2>6 DEF ApplyStep
  <1>5. ASSUME NEW x \in Executors, ExecutorStep(x), ~ApplyStep(x) PROVE UNCHANGED cmd
    BY ZenonT(30), <1>5 DEF ExecutorStep, BeginCommands, Acquire, LeaseWaited, TakeOver, LockGone,
         ProbeWorker, RestartBudget, ClaimBatch, NothingToClaim, Spawn, SpawnFails, Renew,
         Superseded, Reap, RecordExit, rows
  <1>6. ASSUME NEW w \in Workers, WorkerStep(w) PROVE UNCHANGED cmd
    BY Zenon, <1>6 DEF WorkerStep, Start, Download, DownloadRefused, Heartbeat, Commit, Fail, Discarded,
                Exit, rows
  <1>7. Outside \/ Time => UNCHANGED cmd
    BY DEF Outside, WorkerCrash, ExecutorCrash, LoseExecutorLock, LoseWorkerLock,
         PauseForLogin, PublishSession, Time, LeaseExpires, BackoffOver, StampAges,
         TaskLeaseExpires, RetryDue, rows
  <1>8. QED
    BY <1>1, <1>2, <1>3, <1>4, <1>5, <1>6, <1>7 DEF Next, Goal

\* A restart is reported successful only if a batch claimed after it was applied
\* committed a page of one of its runs, whatever superseded batches still do:
\* the two polls of commands(), persist_page and its fences.
THEOREM RestartProvenAlways == Spec => []RestartProven
  <1>1. Init => RestartInv
    <2>1. ASSUME Init, NEW c \in Commands PROVE cmd[c].over = {} /\ cmd[c].status = "none"
      BY <2>1 DEF Init, NoCmd
    <2>2. QED
      BY <2>1 DEF RestartInv, PagesAfter, RestartProven
  <1>2. TypeInv /\ FenceInv /\ RowsInv /\ RestartInv /\ [Next]_vars => RestartInv'
    BY FenceInvCommandsFence, EveryStepMovesLogs, EveryStepJudges, RestartMove DEF RowsInv
  <1>3. RestartInv => RestartProven
    BY DEF RestartInv
  <1>4. QED
    BY <1>1, <1>2, <1>3, Fencing, RowsAgree, PTL DEF Spec

-----------------------------------------------------------------------------
(* The ledger implements FencedLog.                                        *)

\* A batch that is still under way has not used its generation for a page.
Used(gen) == \E r \in Runs : \E i \in 1 .. Len(log[r]) : log[r][i] = gen

BatchFresh(gen) == gen > 0 /\ ~Used(gen)

Unspent ==
  /\ \A r \in Runs : \A i \in 1 .. Len(log[r]) : log[r][i] <= rt.gen
  /\ \A x \in Executors : Spawning(x) => BatchFresh(ex[x].srcGen)
  /\ \A w \in Workers : AtWork(w) => BatchFresh(wk[w].srcGen)

LEMMA UnspentInit == Init => Unspent
  <1> SUFFICES ASSUME Init PROVE Unspent
    OBVIOUS
  <1>1. \A r \in Runs : Len(log[r]) = 0
    BY DEF Init
  <1>2. \A x \in Executors : ~Spawning(x)
    BY DEF Init, Idle, Spawning
  <1>3. \A w \in Workers : ~AtWork(w)
    BY DEF Init, NoWorker, AtWork
  <1>4. QED
    BY <1>1, <1>2, <1>3 DEF Unspent

\* Batches pass from the source row to an executor and on to its worker.
LEMMA BatchesMove ==
  ASSUME TypeInv, [Next]_vars
  PROVE  \/ NoBatchForExecutors /\ NoBatchForWorkers
         \/ \E x \in Executors, r \in Runs, p \in Pages : ClaimBatch(x, r, p)
         \/ \E x \in Executors, w \in Workers : Spawn(x, w)
  <1>1. CASE UNCHANGED vars
    BY <1>1, SameProcesses DEF vars
  <1>2. CASE Next
    BY <1>2, QuietRequests, QuietCommands, QuietExecutor, QuietWorker, QuietOutside, QuietTime
       DEF Next, ExecutorStep
  <1>3. QED
    BY <1>1, <1>2

LEMMA ClaimIssues ==
  ASSUME TypeInv, NEW x \in Executors, NEW r \in Runs, NEW p \in Pages, ClaimBatch(x, r, p)
  PROVE  /\ rt'.gen = rt.gen + 1 /\ rt.gen < MaxGen
         /\ ex'[x].srcGen = rt.gen + 1
         /\ \A y \in Executors \ {x} : ex'[y] = ex[y]
         /\ UNCHANGED <<log, wk>>
  <1> DEFINE e == [Idle EXCEPT !.pc = "spawn", !.run = r,
                               !.srcGen = rt.gen + 1, !.runGen = run[r].gen + 1]
  <1>1. e.srcGen = rt.gen + 1
    BY Constants DEF Executor
  <1>2. ex' = [ex EXCEPT ![x] = e] /\ UNCHANGED <<log, wk>> /\ rt.gen < MaxGen
    BY DEF ClaimBatch, MayClaim
  <1>3. rt'.gen = rt.gen + 1
    BY DEF ClaimBatch, TypeInv, RowsOK, Runtime
  <1> HIDE DEF e
  <1>4. QED
    BY <1>1, <1>2, <1>3 DEF TypeInv, ExecutorsOK

LEMMA SpawnHands ==
  ASSUME TypeInv, NEW x \in Executors, NEW w \in Workers, Spawn(x, w)
  PROVE  /\ UNCHANGED <<rt, log>> /\ Spawning(x) /\ ex'[x].pc = "supervise"
         /\ \A y \in Executors \ {x} : ex'[y] = ex[y]
         /\ wk'[w].srcGen = ex[x].srcGen /\ wk'[w].pc = "spawned"
         /\ \A v \in Workers \ {w} : wk'[v] = wk[v]
  <1> DEFINE v == [NoWorker EXCEPT !.pc = "spawned", !.run = ex[x].run,
                                   !.srcGen = ex[x].srcGen, !.runGen = ex[x].runGen]
  <1>1. v.srcGen = ex[x].srcGen /\ v.pc = "spawned"
    BY Constants DEF Worker
  <1>2. wk' = [wk EXCEPT ![w] = v] /\ Spawning(x) /\ UNCHANGED <<rt, log>>
    BY DEF Spawn, Spawning, rows
  <1>3. ex'[x].pc = "supervise" /\ \A y \in Executors \ {x} : ex'[y] = ex[y]
    BY DEF Spawn, TypeInv, ExecutorsOK, Executor
  <1> HIDE DEF v
  <1>4. QED
    BY <1>1, <1>2, <1>3 DEF TypeInv, WorkersOK

\* The writer's page, and that it ends the writer's batch.
Writes(w) ==
  /\ CanWrite(w)
  /\ log' = [log EXCEPT ![wk[w].run] = Append(@, wk[w].srcGen)]
  /\ wk'[w].pc = "closing"
  /\ \A v \in Workers \ {w} : wk'[v] = wk[v]
  /\ UNCHANGED <<rt, ex>>

\* What a step does to epochs and pages: it keeps both, begins an epoch, or
\* writes a page.
LEMMA EpochMoves ==
  ASSUME TypeInv, [Next]_vars
  PROVE  \/ rt'.gen = rt.gen /\ UNCHANGED log
         \/ rt'.gen = rt.gen + 1 /\ rt.gen < MaxGen /\ UNCHANGED log
         \/ \E w \in Workers : Writes(w)
  <1> DEFINE Goal == \/ rt'.gen = rt.gen /\ UNCHANGED log
                     \/ rt'.gen = rt.gen + 1 /\ rt.gen < MaxGen /\ UNCHANGED log
                     \/ \E w \in Workers : Writes(w)
  <1>1. CASE UNCHANGED vars
    BY <1>1 DEF vars, rows
  <1>2. ASSUME Requests PROVE Goal
    BY <1>2 DEF Requests, ScheduleRun, SubmitRun, SubmitAction, SubmitRetry, SubmitRestart,
                PatchEnabled
  <1>3. ASSUME NEW x \in Executors, BeginCommands(x) \/ ApplyStep(x) PROVE Goal
    <2>1. UNCHANGED log
      BY ZenonT(30), <1>3 DEF BeginCommands, ApplyStep, RejectCommand, ApplyPause, ApplyCancel, ApplyRun,
                  ApplyRecovery, PollRestart, Next1, rows
    <2>2. ASSUME NEW c \in Commands, NEW rs \in SUBSET Runs, ApplyRecovery(x, c, rs)
          PROVE  rt'.gen = rt.gen
      BY <2>2 DEF ApplyRecovery, TypeInv, RowsOK, Runtime
    <2>3. CASE UNCHANGED rt
      BY <2>1, <2>3
    <2>4. QED
      BY Zenon, <1>3, <2>1, <2>2, <2>3 DEF BeginCommands, ApplyStep, RejectCommand, ApplyPause,
                                    ApplyCancel, ApplyRun, PollRestart, rows
  <1>4. ASSUME NEW x \in Executors, ExecutorStep(x), ~(BeginCommands(x) \/ ApplyStep(x)) PROVE Goal
    <2>1. ASSUME NEW r \in Runs, NEW p \in Pages, ClaimBatch(x, r, p) PROVE Goal
      BY <2>1, ClaimIssues
    <2>2. CASE TakeOver(x) \/ RestartBudget(x) \/ Renew(x) \/ RecordExit(x)
      <3>1. UNCHANGED log
        BY <2>2 DEF TakeOver, RestartBudget, Renew, RecordExit
      <3>2. rt'.gen = rt.gen
        BY Zenon, <2>2 DEF TakeOver, RestartBudget, Renew, RecordExit, TypeInv, RowsOK, Runtime
      <3>3. QED
        BY <3>1, <3>2
    <2>3. CASE UNCHANGED <<rt, log>>
      BY <2>3
    <2>4. QED
      BY <1>4, <2>1, <2>2, <2>3 DEF ExecutorStep, Acquire, LeaseWaited, LockGone, ProbeWorker,
           NothingToClaim, Spawn, SpawnFails, Superseded, Reap, rows
  <1>5. ASSUME NEW w \in Workers, WorkerStep(w) PROVE Goal
    <2>1. ASSUME NEW outcome \in Outcomes, Commit(w, outcome) PROVE Writes(w)
      <3>1. [wk[w] EXCEPT !.pc = "closing", !.ok = TRUE].pc = "closing"
        BY DEF TypeInv, WorkersOK, Worker
      <3>2. wk' = [wk EXCEPT ![w] = [wk[w] EXCEPT !.pc = "closing", !.ok = TRUE]]
        BY <2>1 DEF Commit
      <3>3. wk'[w].pc = "closing" /\ \A v \in Workers \ {w} : wk'[v] = wk[v]
        BY <3>1, <3>2 DEF TypeInv, WorkersOK
      <3>4. QED
        BY <2>1, <3>3 DEF Writes, Commit, CommitFence, CanWrite, FailFence
    <2>2. ASSUME NEW code \in Failures, Fail(w, code) PROVE rt'.gen = rt.gen /\ UNCHANGED log
      BY <2>2 DEF Fail, TypeInv, RowsOK, Runtime
    <2>3. CASE UNCHANGED <<rt, log>>
      BY <2>3
    <2>4. QED
      BY <1>5, <2>1, <2>2, <2>3 DEF WorkerStep, Start, Download, DownloadRefused, Heartbeat,
           Discarded, Exit, rows
  <1>6. ASSUME Outside PROVE Goal
    <2>1. UNCHANGED log
      BY <1>6 DEF Outside, WorkerCrash, ExecutorCrash, LoseExecutorLock, LoseWorkerLock,
           PauseForLogin, PublishSession, rows
    <2>2. CASE PauseForLogin
      <3>1. rt'.gen = rt.gen + 1 /\ rt.gen < MaxGen
        BY <2>2 DEF PauseForLogin, TypeInv, RowsOK, Runtime
      <3>2. QED
        BY <2>1, <3>1
    <2>3. CASE PublishSession
      <3>1. rt'.gen = rt.gen
        BY <2>3 DEF PublishSession, TypeInv, RowsOK, Runtime
      <3>2. QED
        BY <2>1, <3>1
    <2>4. CASE UNCHANGED rt
      BY <2>1, <2>4
    <2>5. QED
      BY <1>6, <2>2, <2>3, <2>4 DEF Outside, WorkerCrash, ExecutorCrash, LoseExecutorLock,
           LoseWorkerLock, rows
  <1>7. ASSUME Time PROVE Goal
    <2>1. UNCHANGED log
      BY <1>7 DEF Time, LeaseExpires, BackoffOver, StampAges, TaskLeaseExpires, RetryDue
    <2>2. rt'.gen = rt.gen
      BY <1>7 DEF Time, LeaseExpires, BackoffOver, StampAges, TaskLeaseExpires, RetryDue,
           TypeInv, RowsOK, Runtime
    <2>3. QED
      BY <2>1, <2>2
  <1>8. QED
    BY <1>1, <1>2, <1>3, <1>4, <1>5, <1>6, <1>7 DEF Next

LEMMA UsedKept ==
  ASSUME UNCHANGED log, NEW gen, BatchFresh(gen)
  PROVE  BatchFresh(gen)'
  BY DEF BatchFresh, Used

LEMMA UnspentStep ==
  ASSUME TypeInv, TypeInv', FenceInv, Unspent, [Next]_vars
  PROVE  Unspent'
  <1>1. /\ rt.gen \in Nat /\ rt'.gen \in Nat
        /\ \A r \in Runs : log[r] \in Seq(Nat) /\ Len(log[r]) \in Nat
        /\ \A r \in Runs : \A i \in 1 .. Len(log[r]) : log[r][i] \in Nat
        /\ \A w \in Workers : wk[w].srcGen \in Nat
    BY DEF TypeInv, RowsOK, Runtime, WorkersOK, Worker
  <1>2. ASSUME NEW w \in Workers, Writes(w) PROVE Unspent'
    <2> DEFINE r == wk[w].run
    <2>1. AtWork(w) /\ wk[w].srcGen = rt.gen /\ r \in Runs
      BY <1>2 DEF Writes, CanWrite, FailFence, AtWork, TypeInv, WorkersOK
    <2>2. log'[r] = Append(log[r], rt.gen) /\ \A q \in Runs \ {r} : log'[q] = log[q]
      BY <1>2, <2>1 DEF Writes, TypeInv, RowsOK
    <2>3. ASSUME NEW q \in Runs, NEW i \in 1 .. Len(log'[q])
          PROVE  log'[q][i] = rt.gen \/ (i \in 1 .. Len(log[q]) /\ log'[q][i] = log[q][i])
      <3>1. CASE q = r
        <4>1. /\ log[r] \in Seq(Nat) /\ Len(log[r]) \in Nat
              /\ log'[r] = Append(log[r], rt.gen)
          BY <1>1, <2>1, <2>2
        <4>2. /\ \A j \in 1 .. Len(log'[r]) : j \in 1 .. Len(log[r]) \/ j = Len(log[r]) + 1
              /\ \A j \in 1 .. Len(log[r]) : log'[r][j] = log[r][j]
              /\ log'[r][Len(log[r]) + 1] = rt.gen
          BY <4>1
        <4>3. QED
          BY <2>3, <3>1, <4>2
      <3>2. CASE q # r
        BY <2>2, <2>3, <3>2
      <3>3. QED
        BY <3>1, <3>2
    <2>4. UNCHANGED <<rt, ex>>
      BY <1>2 DEF Writes
    <2>5. \A q \in Runs : \A i \in 1 .. Len(log'[q]) : log'[q][i] <= rt'.gen
      BY <1>1, <2>3, <2>4 DEF Unspent
    <2>6. ASSUME NEW gen, BatchFresh(gen), gen # rt.gen PROVE BatchFresh(gen)'
      BY <2>3, <2>6 DEF BatchFresh, Used
    <2>7. \A x \in Executors : Spawning(x)' => BatchFresh(ex[x].srcGen)'
      BY <2>1, <2>4, <2>6 DEF Unspent, Spawning, FenceInv, Distinct
    <2>8. \A v \in Workers : AtWork(v)' => v # w /\ AtWork(v) /\ wk'[v] = wk[v]
      BY <1>2 DEF Writes, AtWork
    <2>9. \A v \in Workers : AtWork(v)' => BatchFresh(wk[v].srcGen)'
      BY <2>1, <2>6, <2>8 DEF Unspent, FenceInv, Distinct
    <2>10. QED
      BY <2>5, <2>7, <2>9 DEF Unspent
  <1>3. ASSUME UNCHANGED log, rt'.gen >= rt.gen
        PROVE  \A r \in Runs : \A i \in 1 .. Len(log'[r]) : log'[r][i] <= rt'.gen
    BY <1>1, <1>3 DEF Unspent
  <1>4. ASSUME NEW x \in Executors, NEW r \in Runs, NEW p \in Pages, ClaimBatch(x, r, p)
        PROVE  Unspent'
    <2>1. /\ rt'.gen = rt.gen + 1 /\ ex'[x].srcGen = rt.gen + 1
          /\ \A y \in Executors \ {x} : ex'[y] = ex[y]
          /\ UNCHANGED log /\ UNCHANGED wk
      BY <1>4, ClaimIssues
    <2>2. BatchFresh(rt.gen + 1)
      BY <1>1 DEF Unspent, BatchFresh, Used
    <2>3. \A y \in Executors : Spawning(y)' => BatchFresh(ex'[y].srcGen)
      BY <2>1, <2>2 DEF Unspent, Spawning
    <2>4. \A w \in Workers : AtWork(w)' => BatchFresh(wk'[w].srcGen)
      BY <2>1 DEF Unspent, AtWork
    <2>5. \A r1 \in Runs : \A i \in 1 .. Len(log'[r1]) : log'[r1][i] <= rt'.gen
      <3>1. rt'.gen >= rt.gen
        BY <1>1, <2>1
      <3>2. QED
        BY <1>3, <2>1, <3>1
    <2>6. /\ \A y \in Executors : Spawning(y)' => BatchFresh(ex[y].srcGen)'
          /\ \A w \in Workers : AtWork(w)' => BatchFresh(wk[w].srcGen)'
      BY <2>1, <2>3, <2>4 DEF BatchFresh, Used
    <2>7. QED
      BY <2>5, <2>6 DEF Unspent
  <1>5. ASSUME NEW x \in Executors, NEW w \in Workers, Spawn(x, w) PROVE Unspent'
    <2>1. /\ UNCHANGED rt /\ UNCHANGED log /\ Spawning(x) /\ ex'[x].pc = "supervise"
          /\ \A y \in Executors \ {x} : ex'[y] = ex[y]
          /\ wk'[w].srcGen = ex[x].srcGen
          /\ \A v \in Workers \ {w} : wk'[v] = wk[v]
      BY <1>5, SpawnHands
    <2>2. \A y \in Executors : Spawning(y)' => BatchFresh(ex'[y].srcGen)
      BY <2>1 DEF Unspent, Spawning
    <2>3. \A v \in Workers : AtWork(v)' => BatchFresh(wk'[v].srcGen)
      BY <2>1 DEF Unspent, AtWork
    <2>4. QED
      BY <1>1, <1>3, <2>1, <2>2, <2>3 DEF Unspent, BatchFresh, Used
  <1>6. ASSUME UNCHANGED log, rt'.gen >= rt.gen, NoBatchForExecutors, NoBatchForWorkers
        PROVE  Unspent'
    <2>1. \A y \in Executors : Spawning(y)' => BatchFresh(ex'[y].srcGen)
      BY <1>6 DEF Unspent, Spawning, NoBatchForExecutors
    <2>2. \A v \in Workers : AtWork(v)' => BatchFresh(wk'[v].srcGen)
      BY <1>6 DEF Unspent, AtWork, NoBatchForWorkers
    <2>3. QED
      BY <1>3, <1>6, <2>1, <2>2 DEF Unspent, BatchFresh, Used
  <1>7. CASE NoBatchForExecutors /\ NoBatchForWorkers
    BY <1>1, <1>2, <1>6, <1>7, EpochMoves
  <1>8. QED
    BY <1>4, <1>5, <1>7, BatchesMove

\* An epoch with which a page is committed is used up: no batch still to come, at an
\* executor or a worker, has it (claim_run counts the source's generation up).
THEOREM UnspentAlways == Spec => []Unspent
  <1>1. TypeInv /\ FenceInv /\ Unspent /\ [Next]_vars => Unspent'
    BY TypeStep, UnspentStep
  <1>2. QED
    BY <1>1, UnspentInit, Fencing, PTL DEF Spec

\* The holder of FencedLog is the run of the one writer, before and after a step.
LEMMA HolderIs ==
  ASSUME OneWriter, NEW w \in Workers, CanWrite(w)
  PROVE  Holder = wk[w].run
  <1>1. (CHOOSE v \in Workers : CanWrite(v)) = w
    BY DEF OneWriter
  <1>2. QED
    BY <1>1 DEF Holder

LEMMA HolderNext ==
  ASSUME OneWriter', NEW w \in Workers, CanWrite(w)'
  PROVE  Holder' = wk'[w].run
  <1>1. (CHOOSE v \in Workers : CanWrite(v)') = w
    BY DEF OneWriter
  <1>2. QED
    BY <1>1 DEF Holder

\* The initial ledger is an empty log in epoch 0 that nobody may write.
LEMMA RefinesInit == Init => Abstract!Init
  <1> SUFFICES ASSUME Init PROVE Abstract!Init
    OBVIOUS
  <1>1. \A w \in Workers : ~CanWrite(w)
    BY DEF Init, NoWorker, CanWrite
  <1>2. Holder = None
    BY <1>1 DEF Holder
  <1>3. QED
    BY <1>2 DEF Init, Abstract!Init

\* Within one source generation there is one batch, and it holds its
\* authority at most once; a new generation ends it.
LEMMA RefinesStep ==
  ASSUME TypeInv, TypeInv', FenceInv, FenceInv', Unspent, [Next]_vars
  PROVE  [Abstract!Next]_(Abstract!vars)
  <1>1. OneWriter /\ OneWriter'
    BY FenceInvOneWriter DEF TypeInv, WorkersOK, FenceInv, Distinct, OneWriter, CanWrite, FailFence, AtWork
  <1>2. /\ rt.gen \in Nat /\ rt'.gen \in Nat
        /\ \A w \in Workers : CanWrite(w) => wk[w].run \in Runs
        /\ \A w \in Workers : CanWrite(w)' => wk'[w].run \in Runs
        /\ None \notin Runs
    BY NoneAssumption DEF TypeInv, RowsOK, Runtime, WorkersOK, CanWrite
  <1>3. /\ \A w \in Workers : CanWrite(w) => AtWork(w) /\ wk[w].srcGen = rt.gen
        /\ \A w \in Workers : CanWrite(w)' => AtWork(w)' /\ wk'[w].srcGen = rt'.gen
    BY DEF CanWrite, FailFence, AtWork
  <1>4. (\A w \in Workers : ~CanWrite(w)) => Holder = None
    BY DEF Holder
  <1>5. (\A w \in Workers : ~CanWrite(w)') => Holder' = None
    BY DEF Holder
  <1>6. ASSUME NEW w \in Workers, CanWrite(w)'
        PROVE  AtWork(w) /\ wk'[w].srcGen = wk[w].srcGen /\ wk'[w].run = wk[w].run
    <2>1. CASE NoBatchForWorkers
      BY <1>3, <1>6, <2>1 DEF NoBatchForWorkers, AtWork
    <2>2. ASSUME NEW x \in Executors, NEW r \in Runs, NEW p \in Pages, ClaimBatch(x, r, p)
          PROVE  wk'[w] = wk[w]
      BY <2>2, ClaimIssues
    <2>3. ASSUME NEW x \in Executors, NEW v \in Workers, Spawn(x, v) PROVE wk'[w] = wk[w]
      <3>1. wk'[v].pc = "spawned" /\ (v # w => wk'[w] = wk[w])
        BY <2>3, SpawnHands
      <3>2. QED
        BY <1>6, <3>1 DEF CanWrite
    <2>4. CASE wk'[w] = wk[w]
      BY <1>3, <1>6, <2>4 DEF AtWork
    <2>5. QED
      BY <2>1, <2>2, <2>3, <2>4, BatchesMove
  <1>7. CASE rt'.gen = rt.gen + 1 /\ rt.gen < MaxGen /\ UNCHANGED log
    <2>1. \A w \in Workers : ~CanWrite(w)'
      BY <1>2, <1>3, <1>6, <1>7 DEF FenceInv, Issued
    <2>2. QED
      BY <1>5, <1>7, <2>1 DEF Abstract!Next, Abstract!Advance
  <1>8. CASE rt'.gen = rt.gen /\ UNCHANGED log
    <2>1. CASE \A w \in Workers : ~CanWrite(w)'
      BY <1>5, <1>8, <2>1 DEF Abstract!Next, Abstract!Revoke, Abstract!vars
    <2>2. ASSUME NEW v \in Workers, CanWrite(v)' PROVE [Abstract!Next]_(Abstract!vars)
      <3>1. AtWork(v) /\ wk[v].srcGen = rt.gen /\ wk'[v].run = wk[v].run
        BY <1>3, <1>6, <1>8, <2>2
      <3>2. Holder' = wk[v].run /\ wk[v].run \in Runs
        BY <1>1, <1>2, <2>2, <3>1, HolderNext
      <3>3. CASE \E u \in Workers : CanWrite(u)
        <4>1. CanWrite(v)
          BY <1>3, <3>1, <3>3 DEF FenceInv, Distinct
        <4>2. Holder = wk[v].run
          BY <1>1, <4>1, HolderIs
        <4>3. QED
          BY <1>8, <3>2, <4>2 DEF Abstract!vars
      <3>4. CASE \A u \in Workers : ~CanWrite(u)
        <4>1. rt.gen > 0 /\ ~Used(rt.gen)
          BY <3>1 DEF Unspent, BatchFresh
        <4>2. Holder = None
          BY <1>4, <3>4
        <4>3. Abstract!Grant(wk[v].run)
          BY <1>8, <3>2, <4>1, <4>2 DEF Abstract!Grant, Abstract!Used, Used
        <4>4. QED
          BY <3>2, <4>3 DEF Abstract!Next
      <3>5. QED
        BY <3>3, <3>4
    <2>3. QED
      BY <2>1, <2>2
  <1>9. ASSUME NEW w \in Workers, Writes(w) PROVE [Abstract!Next]_(Abstract!vars)
    <2>1. /\ CanWrite(w) /\ wk'[w].pc = "closing" /\ rt' = rt
          /\ log' = [log EXCEPT ![wk[w].run] = Append(@, wk[w].srcGen)]
      BY <1>9 DEF Writes
    <2>2. Holder = wk[w].run /\ wk[w].run \in Runs /\ wk[w].srcGen = rt.gen
      BY <1>1, <1>2, <1>3, <2>1, HolderIs
    <2>3. \A v \in Workers : ~CanWrite(v)'
      <3>1. SUFFICES ASSUME NEW v \in Workers, CanWrite(v)' PROVE FALSE
        OBVIOUS
      <3>2. AtWork(v) /\ wk[v].srcGen = rt.gen /\ v # w
        BY <1>3, <1>6, <2>1, <3>1 DEF AtWork
      <3>3. QED
        BY <1>3, <2>1, <2>2, <3>2 DEF FenceInv, Distinct
    <2>4. Abstract!Write(wk[w].run)
      BY <1>5, <2>1, <2>2, <2>3 DEF Abstract!Write
    <2>5. QED
      BY <2>2, <2>4 DEF Abstract!Next
  <1>10. QED
    BY <1>7, <1>8, <1>9, EpochMoves

\* The ledger implements FencedLog: Download grants, persist_page writes, a
\* claim or a lost login begins an epoch, and whatever ends a batch or moves its
\* run or task away from it revokes.
THEOREM ImplementsFencedLogAlways == Spec => ImplementsFencedLog
  <1>1. TypeInv /\ FenceInv /\ Unspent /\ (TypeInv /\ FenceInv)' /\ [Next]_vars =>
          [Abstract!Next]_(Abstract!vars)
    BY RefinesStep
  <1>2. QED
    BY <1>1, RefinesInit, Fencing, UnspentAlways, PTL DEF Spec, ImplementsFencedLog, Abstract!Spec

-----------------------------------------------------------------------------
(* What the advisory locks add to the fences.  As long as no database       *)
(* session that holds one goes away, one executor runs and one worker       *)
(* fetches; then the restart budget, which is read in one transaction and   *)
(* spent in another, is kept, and no one but an administrator ends a pause. *)
(* Each theorem names the lock it needs as an assumption on Disturbances.   *)
(* With a lost lock the properties do not hold: the fences, which need no   *)
(* lock, are all that is left.                                              *)

\* While no advisory lock is lost (LoseExecutorLock, LoseWorkerLock):
\* the holder of the Source row is where it applies commands,
CommandsAt == srcLock # None => ex[srcLock].pc \in {"top", "supervise", "after"}

\* the executor that runs has the executor lock,
ExecutorAlone == \A x \in Executors : ex[x].pc # "off" <=> exLock = x

\* a claim of a lost batch is within the budget,
WithinBudget ==
  \A x \in Executors : ex[x].pc = "claim" /\ rt.pending => rt.fresh < MaxRestarts

Supervising == {"spawn", "supervise", "inspect", "reap", "record"}

\* and a source that is running was claimed by the executor past its boot.
RunningIsOwned ==
  rt.status = "running" =>
    \A x \in Executors : \/ ex[x].pc \in {"off", "waiting", "boot"}
                         \/ ex[x].pc \in Supervising /\ ex[x].srcGen = rt.gen

AloneInv == CommandsAt /\ ExecutorAlone /\ BudgetHolds /\ WithinBudget /\ RunningIsOwned

\* A worker past its start has the worker lock.
WorkerAlone == \A w \in Workers : wk[w].pc \in {"started", "fetching"} => wkLock = w

\* An executor about to check the budget has seen every worker finish.
BudgetQuiet ==
  \A x \in Executors, w \in Workers : ex[x].pc = "budget" => wk[w].pc # "fetching"

\* Nobody may write to a paused source.
PausedQuiet == rt.status = "paused" => \A w \in Workers : ~CanWrite(w)

PauseInv == BudgetQuiet /\ PausedQuiet

\* The one executor that runs goes on, with the lock and without the Source row.
LEMMA GoesOn ==
  ASSUME TypeInv, AloneInv, NEW x \in Executors, ex[x].pc # "off", srcLock # x,
         NEW e, ex' = [ex EXCEPT ![x] = e], e.pc # "off", UNCHANGED exLock, UNCHANGED srcLock,
         BudgetHolds', e.pc = "claim" /\ rt'.pending => rt'.fresh < MaxRestarts,
         rt'.status = "running" => \/ e.pc \in {"waiting", "boot"}
                                   \/ e.pc \in Supervising /\ e.srcGen = rt'.gen
  PROVE  AloneInv'
  <1>1. ex'[x] = e /\ \A y \in Executors \ {x} : ex'[y] = ex[y] /\ ex[y].pc = "off"
    BY DEF AloneInv, ExecutorAlone, TypeInv, ExecutorsOK
  <1>2. CommandsAt'
    BY <1>1 DEF AloneInv, CommandsAt, TypeInv, LocksOK
  <1>3. ExecutorAlone'
    BY <1>1 DEF AloneInv, ExecutorAlone
  <1>4. WithinBudget'
    BY <1>1 DEF WithinBudget
  <1>5. RunningIsOwned'
    BY <1>1 DEF RunningIsOwned
  <1>6. QED
    BY <1>2, <1>3, <1>4, <1>5 DEF AloneInv

\* The same when all it does is to go elsewhere.
LEMMA GoesElsewhere ==
  ASSUME TypeInv, AloneInv, NEW x \in Executors, ex[x].pc # "off", srcLock # x,
         NEW pc, Goto(x, pc), pc # "off", UNCHANGED exLock, UNCHANGED srcLock,
         BudgetHolds', pc = "claim" /\ rt'.pending => rt'.fresh < MaxRestarts,
         rt'.status = "running" => \/ pc \in {"waiting", "boot"}
                                   \/ pc \in Supervising /\ ex[x].srcGen = rt'.gen
  PROVE  AloneInv'
  <1> DEFINE e == [ex[x] EXCEPT !.pc = pc]
  <1>1. e.pc = pc /\ e.srcGen = ex[x].srcGen
    BY DEF TypeInv, ExecutorsOK, Executor
  <1>2. ex' = [ex EXCEPT ![x] = e]
    BY DEF Goto
  <1> HIDE DEF e
  <1>3. QED
    BY <1>1, <1>2, GoesOn

\* Steps of others: executors and locks stay as they are, and the source row
\* does not start to run or use up its budget.
LEMMA OthersMove ==
  ASSUME TypeInv, AloneInv, UNCHANGED ex, UNCHANGED exLock, UNCHANGED srcLock,
         rt'.status = "running" => rt.status = "running" /\ rt'.gen = rt.gen,
         rt'.fresh \in Nat, rt'.fresh <= rt.fresh, rt'.pending => rt.pending
  PROVE  AloneInv'
  <1>1. rt.fresh \in Nat /\ MaxRestarts \in Nat
    BY BoundsAssumption DEF TypeInv, RowsOK, Runtime
  <1>2. BudgetHolds' /\ WithinBudget'
    BY <1>1 DEF AloneInv, BudgetHolds, WithinBudget
  <1>3. RunningIsOwned'
    BY DEF AloneInv, RunningIsOwned
  <1>4. CommandsAt' /\ ExecutorAlone'
    BY DEF AloneInv, CommandsAt, ExecutorAlone
  <1>5. QED
    BY <1>2, <1>3, <1>4 DEF AloneInv

\* What the source row can tell.
LEMMA RuntimeFacts ==
  ASSUME TypeInv
  PROVE  /\ rt.fresh \in Nat /\ rt.gen \in Nat /\ rt.pending \in BOOLEAN
         /\ MaxRestarts \in Nat
         /\ \A x \in Executors : ex[x].srcGen \in Nat /\ ex[x].pc \in ExecutorPc
  BY BoundsAssumption DEF TypeInv, RowsOK, Runtime, ExecutorsOK, Executor

LEMMA AloneInit == Init => AloneInv
  <1> SUFFICES ASSUME Init PROVE AloneInv
    OBVIOUS
  <1>1. \A x \in Executors : ex[x].pc = "off" /\ x # None
    BY Constants, NoneAssumption DEF Init
  <1>2. rt.fresh = 0 /\ rt.status = "idle" /\ exLock = None /\ srcLock = None /\ MaxRestarts \in Nat
    BY BoundsAssumption DEF Init
  <1>3. QED
    BY <1>1, <1>2 DEF AloneInv, CommandsAt, ExecutorAlone, BudgetHolds, WithinBudget, RunningIsOwned

LEMMA AloneRequests ==
  ASSUME TypeInv, AloneInv, Requests
  PROVE  AloneInv'
  <1>1. UNCHANGED rt /\ UNCHANGED ex /\ UNCHANGED exLock /\ UNCHANGED srcLock
    BY DEF Requests, ScheduleRun, SubmitRun, SubmitAction, SubmitRetry, SubmitRestart, PatchEnabled, tx
  <1>2. QED
    BY <1>1, OthersMove, RuntimeFacts

LEMMA AloneTime ==
  ASSUME TypeInv, AloneInv, Time
  PROVE  AloneInv'
  <1>1. UNCHANGED ex /\ UNCHANGED exLock /\ UNCHANGED srcLock
    BY DEF Time, LeaseExpires, BackoffOver, StampAges, TaskLeaseExpires, RetryDue, tx
  <1>2. /\ rt'.status = rt.status /\ rt'.gen = rt.gen /\ rt'.pending = rt.pending
        /\ rt'.fresh \in Nat /\ rt'.fresh <= rt.fresh
    <2>1. CASE StampAges
      BY <2>1 DEF StampAges, TypeInv, RowsOK, Runtime
    <2>2. CASE LeaseExpires \/ BackoffOver
      <3>1. /\ rt'.status = rt.status /\ rt'.gen = rt.gen /\ rt'.pending = rt.pending
            /\ rt'.fresh = rt.fresh
        BY <2>2 DEF LeaseExpires, BackoffOver, TypeInv, RowsOK, Runtime
      <3>2. QED
        BY <3>1, RuntimeFacts
    <2>3. CASE UNCHANGED rt
      BY <2>3, RuntimeFacts
    <2>4. QED
      BY <2>1, <2>2, <2>3 DEF Time, TaskLeaseExpires, RetryDue
  <1>3. QED
    BY <1>1, <1>2, OthersMove

LEMMA AloneWorker ==
  ASSUME TypeInv, AloneInv, NEW w \in Workers, WorkerStep(w)
  PROVE  AloneInv'
  <1>1. UNCHANGED ex /\ UNCHANGED exLock /\ UNCHANGED srcLock
    BY ZenonT(30) DEF WorkerStep, Start, Download, DownloadRefused, Heartbeat, Commit, Fail, Discarded, Exit,
           tx, rows
  <1>2. /\ rt'.status = "running" => rt.status = "running" /\ rt'.gen = rt.gen
        /\ rt'.pending = rt.pending /\ rt'.fresh = rt.fresh
    <2>1. CASE \E code \in Failures : Fail(w, code)
      BY <2>1 DEF Fail, TypeInv, RowsOK, Runtime
    <2>2. CASE UNCHANGED rt
      BY <2>2
    <2>3. QED
      BY Zenon, <2>1, <2>2 DEF WorkerStep, Start, Download, DownloadRefused, Heartbeat, Commit, Discarded,
                        Exit, rows
  <1>3. QED
    BY <1>1, <1>2, OthersMove, RuntimeFacts

LEMMA AloneOutside ==
  ASSUME TypeInv, AloneInv, "executor_lock" \notin Disturbances, Outside
  PROVE  AloneInv'
  <1>1. ASSUME NEW x \in Executors, ExecutorCrash(x) PROVE AloneInv'
    <2>1. /\ ex'[x].pc = "off" /\ \A y \in Executors \ {x} : ex'[y] = ex[y]
          /\ ex[x].pc # "off" /\ srcLock # x /\ UNCHANGED rt /\ UNCHANGED srcLock
          /\ exLock' = IF exLock = x THEN None ELSE exLock
      BY <1>1, Constants DEF ExecutorCrash, TypeInv, ExecutorsOK, rows, tx
    <2>2. exLock = x /\ \A y \in Executors : y # None
      BY <2>1, NoneAssumption DEF AloneInv, ExecutorAlone
    <2>3. ExecutorAlone'
      BY <2>1, <2>2 DEF AloneInv, ExecutorAlone
    <2>4. CommandsAt'
      BY <2>1 DEF AloneInv, CommandsAt, TypeInv, LocksOK
    <2>5. BudgetHolds' /\ WithinBudget' /\ RunningIsOwned'
      BY <2>1 DEF AloneInv, BudgetHolds, WithinBudget, RunningIsOwned
    <2>6. QED
      BY <2>3, <2>4, <2>5 DEF AloneInv
  <1>2. ASSUME ~\E x \in Executors : ExecutorCrash(x) PROVE AloneInv'
    <2>1. UNCHANGED ex /\ UNCHANGED exLock /\ UNCHANGED srcLock
      BY <1>2 DEF Outside, WorkerCrash, LoseExecutorLock, Disturb, LoseWorkerLock, PauseForLogin,
                  PublishSession, tx
    <2>2. /\ rt'.status # "running" \/ (rt'.status = rt.status /\ rt'.gen = rt.gen)
          /\ rt'.pending = rt.pending /\ rt'.fresh = rt.fresh
      <3>1. CASE PauseForLogin
        BY <3>1 DEF PauseForLogin, StatusForLogin, TypeInv, RowsOK, Runtime
      <3>2. CASE PublishSession
        BY <3>2 DEF PublishSession, TypeInv, RowsOK, Runtime
      <3>3. CASE UNCHANGED rt
        BY <3>3
      <3>4. QED
        BY <1>2, <3>1, <3>2, <3>3 DEF Outside, WorkerCrash, LoseExecutorLock, LoseWorkerLock, rows
    <2>3. QED
      BY <2>1, <2>2, OthersMove, RuntimeFacts
  <1>3. QED
    BY <1>1, <1>2


\* A command transaction ends, or finds nothing to do.
LEMMA CommandsEnd ==
  ASSUME TypeInv, AloneInv, NEW x \in Executors, ex[x].pc \in {"top", "supervise", "after"},
         Goto(x, Resumes(ex[x].pc)), UNCHANGED exLock, srcLock' = None,
         rt'.status = "running" => rt.status = "running" /\ rt'.gen = rt.gen,
         rt'.fresh \in Nat, rt'.fresh <= rt.fresh
  PROVE  AloneInv'
  <1> DEFINE pc == Resumes(ex[x].pc)
  <1>1. /\ pc \in {"check", "inspect", "top"}
        /\ ex[x].pc = "supervise" => pc = "inspect"
    BY DEF Resumes
  <1> HIDE DEF pc
  <1>2. /\ ex'[x].pc = pc /\ ex'[x].srcGen = ex[x].srcGen
        /\ \A y \in Executors \ {x} : ex'[y] = ex[y] /\ ex[y].pc = "off"
    BY DEF Goto, pc, AloneInv, ExecutorAlone, TypeInv, ExecutorsOK, Executor
  <1>3. CommandsAt'
    BY DEF CommandsAt
  <1>4. ExecutorAlone'
    BY <1>1, <1>2 DEF AloneInv, ExecutorAlone
  <1>5. BudgetHolds'
    BY RuntimeFacts DEF AloneInv, BudgetHolds
  <1>6. WithinBudget'
    BY <1>1, <1>2 DEF WithinBudget
  <1>7. RunningIsOwned'
    BY <1>1, <1>2 DEF AloneInv, RunningIsOwned, Supervising
  <1>8. QED
    BY <1>3, <1>4, <1>5, <1>6, <1>7 DEF AloneInv

LEMMA AloneCommands ==
  ASSUME TypeInv, AloneInv, NEW x \in Executors, BeginCommands(x) \/ ApplyStep(x)
  PROVE  AloneInv'
  <1>1. CASE BeginCommands(x)
    <2>1. /\ ex[x].pc \in {"top", "supervise", "after"} /\ srcLock = None
          /\ UNCHANGED rt /\ UNCHANGED exLock
      BY <1>1 DEF BeginCommands, Ready, rows
    <2>2. CASE Unapplied = {}
      <3>1. Goto(x, Resumes(ex[x].pc)) /\ srcLock' = None
        BY <1>1, <2>1, <2>2 DEF BeginCommands, tx
      <3>2. QED
        BY <2>1, <3>1, CommandsEnd, RuntimeFacts
    <2>3. CASE Unapplied # {}
      <3>1. srcLock' = x /\ UNCHANGED ex
        BY <1>1, <2>3 DEF BeginCommands
      <3>2. CommandsAt' /\ ExecutorAlone' /\ BudgetHolds' /\ WithinBudget' /\ RunningIsOwned'
        BY <2>1, <3>1 DEF AloneInv, CommandsAt, ExecutorAlone, BudgetHolds, WithinBudget,
                          RunningIsOwned
      <3>3. QED
        BY <3>2 DEF AloneInv
    <2>4. QED
      BY <2>2, <2>3
  <1>2. CASE ApplyStep(x)
    <2>1. PICK c \in Commands : Next1(x, c)
      BY ZenonT(30), <1>2 DEF ApplyStep, RejectCommand, ApplyPause, ApplyCancel, ApplyRun, ApplyRecovery,
                  PollRestart
    <2>2. /\ rt'.status = "running" => rt.status = "running" /\ rt'.gen = rt.gen
          /\ rt'.pending => rt.pending
          /\ rt'.fresh \in Nat /\ rt'.fresh <= rt.fresh
      <3>1. ASSUME NEW d \in Commands, NEW rs \in SUBSET Runs, ApplyRecovery(x, d, rs)
            PROVE  /\ rt'.status = IF rt.status = "running" THEN "running" ELSE "idle"
                   /\ rt'.gen = rt.gen /\ rt'.fresh = 0 /\ rt'.pending = FALSE
        BY <3>1 DEF ApplyRecovery, TypeInv, RowsOK, Runtime
      <3>2. CASE \E d \in Commands, rs \in SUBSET Runs : ApplyRecovery(x, d, rs)
        <4>1. rt'.pending = FALSE /\ rt'.fresh = 0 /\ rt'.gen = rt.gen
          BY <3>1, <3>2
        <4>2. rt'.status = "running" => rt.status = "running"
          BY <3>1, <3>2
        <4>3. rt'.fresh \in Nat /\ rt'.fresh <= rt.fresh
          BY <4>1, RuntimeFacts
        <4>4. QED
          BY <4>1, <4>2, <4>3
      <3>3. CASE UNCHANGED rt
        BY <3>3, RuntimeFacts
      <3>4. QED
        BY Zenon, <1>2, <3>2, <3>3 DEF ApplyStep, RejectCommand, ApplyPause, ApplyCancel, ApplyRun,
                                PollRestart
    <2>3. srcLock = x /\ UNCHANGED exLock /\ x # None
      BY <2>1, NoneAssumption DEF Next1
    <2>4. ex[x].pc \in {"top", "supervise", "after"}
      BY <2>3 DEF AloneInv, CommandsAt
    <2>5. CASE todo = {c}
      <3>1. Goto(x, Resumes(ex[x].pc)) /\ srcLock' = None
        BY <2>1, <2>5 DEF Next1
      <3>2. QED
        BY <2>2, <2>3, <2>4, <3>1, CommandsEnd
    <2>6. CASE todo # {c}
      <3>1. UNCHANGED ex /\ UNCHANGED srcLock
        BY <2>1, <2>6 DEF Next1
      <3>2. QED
        BY <2>2, <2>3, <3>1, OthersMove
    <2>7. QED
      BY <2>5, <2>6
  <1>3. QED
    BY <1>1, <1>2

\* An executor takes the lock when no other runs; at its boot it ends what the
\* source row says of the batch of an executor before it.
LEMMA AloneBoot ==
  ASSUME TypeInv, AloneInv, NEW x \in Executors,
         Acquire(x) \/ LeaseWaited(x) \/ TakeOver(x) \/ LockGone(x)
  PROVE  AloneInv'
  <1>1. CASE Acquire(x)
    <2> DEFINE pc == IF rt.owner # None /\ rt.lease = "live" THEN "waiting" ELSE "boot"
    <2>1. /\ exLock = None /\ exLock' = x /\ Goto(x, pc) /\ UNCHANGED rt
          /\ srcLock = None /\ UNCHANGED srcLock
      BY <1>1 DEF Acquire, Ready, rows, tx
    <2>2. pc \in {"waiting", "boot"}
      OBVIOUS
    <2> HIDE DEF pc
    <2>3. \A y \in Executors : ex[y].pc = "off"
      BY <2>1, NoneAssumption DEF AloneInv, ExecutorAlone
    <2>4. ex'[x].pc = pc /\ \A y \in Executors \ {x} : ex'[y] = ex[y]
      BY <2>1 DEF Goto, TypeInv, ExecutorsOK, Executor
    <2>5. ExecutorAlone' /\ CommandsAt'
      BY <2>1, <2>2, <2>3, <2>4 DEF ExecutorAlone, CommandsAt
    <2>6. BudgetHolds' /\ WithinBudget' /\ RunningIsOwned'
      BY <2>1, <2>2, <2>3, <2>4 DEF AloneInv, BudgetHolds, WithinBudget, RunningIsOwned
    <2>7. QED
      BY <2>5, <2>6 DEF AloneInv
  <1>2. ASSUME ex[x].pc \in {"waiting", "boot"} PROVE srcLock # x
    BY <1>2, NoneAssumption DEF AloneInv, CommandsAt
  <1>3. CASE LeaseWaited(x)
    <2>1. /\ ex[x].pc = "waiting" /\ Goto(x, "boot") /\ UNCHANGED rt
          /\ UNCHANGED exLock /\ UNCHANGED srcLock
      BY <1>3 DEF LeaseWaited, rows, tx
    <2>2. BudgetHolds'
      BY <2>1 DEF AloneInv, BudgetHolds
    <2>3. QED
      BY <1>2, <2>1, <2>2, GoesElsewhere
  <1>4. CASE TakeOver(x)
    <2>1. /\ ex[x].pc = "boot" /\ Goto(x, "top") /\ UNCHANGED exLock /\ UNCHANGED srcLock
      BY <1>4 DEF TakeOver, tx
    <2>2. rt'.status # "running" /\ rt'.fresh = rt.fresh
      BY <1>4 DEF TakeOver, TypeInv, RowsOK, Runtime
    <2>3. BudgetHolds'
      BY <2>2 DEF AloneInv, BudgetHolds
    <2>4. QED
      BY <1>2, <2>1, <2>2, <2>3, GoesElsewhere
  <1>5. ~LockGone(x)
    BY DEF LockGone, AloneInv, ExecutorAlone
  <1>6. QED
    BY <1>1, <1>3, <1>4, <1>5

\* From the probe of the worker lock to the claim.
LEMMA AloneClaim ==
  ASSUME TypeInv, AloneInv, NEW x \in Executors,
         \/ ProbeWorker(x) \/ RestartBudget(x) \/ NothingToClaim(x)
         \/ \E r \in Runs, p \in Pages : ClaimBatch(x, r, p)
  PROVE  AloneInv'
  <1>1. /\ ex[x].pc \in {"check", "budget", "claim"}
        /\ UNCHANGED exLock /\ UNCHANGED srcLock
    BY Zenon DEF ProbeWorker, RestartBudget, NothingToClaim, ClaimBatch, tx
  <1>2. srcLock # x /\ rt.status # "running"
    BY <1>1, NoneAssumption DEF AloneInv, CommandsAt, RunningIsOwned, Supervising
  <1>3. CASE ProbeWorker(x) \/ NothingToClaim(x)
    <2>1. UNCHANGED rt /\ (Goto(x, "budget") \/ Goto(x, "top"))
      BY <1>3 DEF ProbeWorker, NothingToClaim, rows
    <2>2. BudgetHolds'
      BY <2>1 DEF AloneInv, BudgetHolds
    <2>3. QED
      BY <1>1, <1>2, <2>1, <2>2, GoesElsewhere
  <1>4. CASE RestartBudget(x)
    <2>1. /\ rt'.fresh = rt.fresh /\ rt'.pending = rt.pending
          /\ rt'.status \in {rt.status, "paused"}
      BY <1>4 DEF RestartBudget, TypeInv, RowsOK, Runtime
    <2>2. \/ Goto(x, "top")
          \/ Goto(x, "claim") /\ ~Exhausted
      BY <1>4 DEF RestartBudget
    <2>3. ~Exhausted => (rt'.pending => rt'.fresh < MaxRestarts)
      BY <2>1, RuntimeFacts DEF Exhausted
    <2>4. BudgetHolds'
      BY <2>1 DEF AloneInv, BudgetHolds
    <2>5. QED
      BY <1>1, <1>2, <2>1, <2>2, <2>3, <2>4, GoesElsewhere
  <1>5. ASSUME NEW r \in Runs, NEW p \in Pages, ClaimBatch(x, r, p) PROVE AloneInv'
    <2> DEFINE e == [Idle EXCEPT !.pc = "spawn", !.run = r,
                                 !.srcGen = rt.gen + 1, !.runGen = run[r].gen + 1]
    <2>1. e.srcGen = rt.gen + 1 /\ e.pc = "spawn"
      BY Constants DEF Executor
    <2>2. ex' = [ex EXCEPT ![x] = e] /\ ex[x].pc = "claim"
      BY <1>5 DEF ClaimBatch
    <2>3. rt'.gen = rt.gen + 1 /\ rt'.fresh = IF rt.pending THEN rt.fresh + 1 ELSE rt.fresh
      BY <1>5 DEF ClaimBatch, TypeInv, RowsOK, Runtime
    <2> HIDE DEF e
    <2>4. BudgetHolds'
      BY <2>2, <2>3, RuntimeFacts DEF AloneInv, BudgetHolds, WithinBudget
    <2>5. QED
      BY <1>1, <1>2, <2>1, <2>2, <2>3, <2>4, GoesOn DEF Supervising
  <1>6. QED
    BY <1>3, <1>4, <1>5

\* From the spawn of a worker to the record of its exit.
LEMMA AloneSupervise ==
  ASSUME TypeInv, AloneInv, NEW x \in Executors,
         \/ \E w \in Workers : Spawn(x, w)
         \/ SpawnFails(x) \/ Renew(x) \/ Superseded(x) \/ Reap(x) \/ RecordExit(x)
  PROVE  AloneInv'
  <1>1. /\ ex[x].pc \in Supervising
        /\ UNCHANGED exLock /\ UNCHANGED srcLock
    BY DEF Spawn, SpawnFails, Renew, Superseded, Reap, RecordExit, tx, Supervising
  <1>2. srcLock # x /\ ex[x].pc # "off"
    BY <1>1, NoneAssumption DEF AloneInv, CommandsAt, Spawn, SpawnFails, Renew, Superseded, Reap,
                                RecordExit, Supervising, Ready
  <1>3. rt.status = "running" => ex[x].srcGen = rt.gen
    BY <1>1 DEF AloneInv, RunningIsOwned, Supervising
  <1>4. ASSUME NEW e, ex' = [ex EXCEPT ![x] = e], e.pc \in Supervising, e.srcGen = ex[x].srcGen,
               rt'.fresh = rt.fresh, rt'.gen = rt.gen, rt'.status = rt.status
        PROVE  AloneInv'
    <2>1. BudgetHolds' /\ e.pc # "off" /\ e.pc # "claim"
      BY <1>4 DEF AloneInv, BudgetHolds, Supervising
    <2>2. QED
      BY <1>1, <1>2, <1>3, <1>4, <2>1, GoesOn
  <1>5. ASSUME NEW w \in Workers, Spawn(x, w) PROVE AloneInv'
    <2> DEFINE e == [ex[x] EXCEPT !.pc = "supervise", !.w = w]
    <2>1. e.pc \in Supervising /\ e.srcGen = ex[x].srcGen
      BY DEF Supervising, TypeInv, ExecutorsOK, Executor
    <2>2. ex' = [ex EXCEPT ![x] = e] /\ UNCHANGED rt
      BY <1>5 DEF Spawn, rows
    <2> HIDE DEF e
    <2>3. QED
      BY <1>4, <2>1, <2>2
  <1>6. CASE SpawnFails(x)
    <2> DEFINE e == [ex[x] EXCEPT !.pc = "record", !.ok = FALSE]
    <2>1. e.pc \in Supervising /\ e.srcGen = ex[x].srcGen
      BY DEF Supervising, TypeInv, ExecutorsOK, Executor
    <2>2. ex' = [ex EXCEPT ![x] = e] /\ UNCHANGED rt
      BY <1>6 DEF SpawnFails, rows
    <2> HIDE DEF e
    <2>3. QED
      BY <1>4, <2>1, <2>2
  <1>7. CASE Renew(x) \/ Superseded(x)
    <2>1. rt'.fresh = rt.fresh /\ rt'.gen = rt.gen /\ rt'.status = rt.status
      BY <1>7 DEF Renew, Superseded, rows, TypeInv, RowsOK, Runtime
    <2>2. PICK pc \in {"supervise", "reap"} : Goto(x, pc)
      BY <1>7 DEF Renew, Superseded
    <2> DEFINE e == [ex[x] EXCEPT !.pc = pc]
    <2>3. e.pc \in Supervising /\ e.srcGen = ex[x].srcGen
      BY DEF Supervising, TypeInv, ExecutorsOK, Executor
    <2>4. ex' = [ex EXCEPT ![x] = e]
      BY <2>2 DEF Goto
    <2> HIDE DEF e
    <2>5. QED
      BY <1>4, <2>1, <2>3, <2>4
  <1>8. CASE Reap(x)
    <2> DEFINE w == ex[x].w
               e == [ex[x] EXCEPT !.pc = "record", !.w = None,
                                  !.ok = wk[w].pc = "dead" /\ wk[w].ok]
    <2>1. e.pc \in Supervising /\ e.srcGen = ex[x].srcGen
      BY DEF Supervising, TypeInv, ExecutorsOK, Executor
    <2>2. ex' = [ex EXCEPT ![x] = e] /\ UNCHANGED rt
      BY <1>8 DEF Reap, rows
    <2> HIDE DEF e, w
    <2>3. QED
      BY <1>4, <2>1, <2>2
  <1>9. CASE RecordExit(x)
    <2>1. rt'.fresh = rt.fresh /\ rt'.status # "running"
      <3>1. CASE rt.gen = ex[x].srcGen
        BY <1>9, <3>1 DEF RecordExit, TypeInv, RowsOK, Runtime
      <3>2. CASE rt.gen # ex[x].srcGen
        BY <1>3, <1>9, <3>2 DEF RecordExit
      <3>3. QED
        BY <3>1, <3>2
    <2> DEFINE e == [Idle EXCEPT !.pc = "after"]
    <2>2. e.pc = "after"
      BY Constants DEF Executor
    <2>3. ex' = [ex EXCEPT ![x] = e]
      BY <1>9 DEF RecordExit
    <2> HIDE DEF e
    <2>4. BudgetHolds'
      BY <2>1 DEF AloneInv, BudgetHolds
    <2>5. QED
      BY <1>1, <1>2, <2>1, <2>2, <2>3, <2>4, GoesOn
  <1>10. QED
    BY <1>5, <1>6, <1>7, <1>8, <1>9

LEMMA AloneStep ==
  ASSUME TypeInv, AloneInv, "executor_lock" \notin Disturbances, [Next]_vars
  PROVE  AloneInv'
  <1>1. CASE UNCHANGED vars
    <2>1. UNCHANGED rt /\ UNCHANGED ex /\ UNCHANGED exLock /\ UNCHANGED srcLock
      BY <1>1 DEF vars, rows, tx
    <2>2. QED
      BY <2>1, OthersMove, RuntimeFacts
  <1>2. ASSUME NEW x \in Executors, ExecutorStep(x) PROVE AloneInv'
    BY <1>2, AloneCommands, AloneBoot, AloneClaim, AloneSupervise DEF ExecutorStep
  <1>3. QED
    BY <1>1, <1>2, AloneRequests, AloneWorker, AloneOutside, AloneTime DEF Next

\* While the executor lock is not lost, a source is restarted without an
\* administrator at most MaxRestarts times in the window (restart_budget), though
\* the budget is read in one transaction and spent in another.
THEOREM BudgetHoldsAlways ==
  ASSUME "executor_lock" \notin Disturbances
  PROVE  Spec => []BudgetHolds
  <1>1. TypeInv /\ AloneInv /\ [Next]_vars => AloneInv'
    BY AloneStep
  <1>2. AloneInv => BudgetHolds
    BY DEF AloneInv
  <1>3. QED
    BY <1>1, <1>2, AloneInit, TypeInvariant, PTL DEF Spec


-----------------------------------------------------------------------------
(* One worker fetches.                                                     *)

\* One worker moves; at most it takes the free lock or gives up its own.
LEMMA OneWorkerMoves ==
  ASSUME TypeInv, WorkerAlone, NEW w, NEW v, wk' = [wk EXCEPT ![w] = v],
         v.pc \in {"started", "fetching"} => wkLock' = w,
         \/ UNCHANGED wkLock
         \/ wkLock = None
         \/ wkLock = w
  PROVE  WorkerAlone'
  <1>1. \A u \in Workers : u # w => wk'[u] = wk[u]
    BY DEF TypeInv, WorkersOK
  <1>2. \A u \in Workers : u = w => wk'[u] = v
    BY DEF TypeInv, WorkersOK
  <1>3. \A u \in Workers : u # w /\ wk[u].pc \in {"started", "fetching"} => wkLock' = u
    BY NoneAssumption DEF WorkerAlone
  <1>4. QED
    BY <1>1, <1>2, <1>3 DEF WorkerAlone

LEMMA WorkerAloneInit == Init => WorkerAlone
  <1>1. Init => \A w \in Workers : wk[w].pc = "none"
    BY Constants DEF Init
  <1>2. QED
    BY <1>1 DEF WorkerAlone

\* A worker process that ended is no longer at work, and its lock is free.
LEMMA WorkerAloneEnded ==
  ASSUME TypeInv, WorkerAlone, NEW w \in Workers, NEW ok, Ended(w, ok)
  PROVE  WorkerAlone'
  <1>1. [NoWorker EXCEPT !.pc = "dead", !.ok = ok].pc = "dead" /\ NoWorker.pc = "none"
    BY Constants DEF Worker
  <1>2. PICK v : wk' = [wk EXCEPT ![w] = v] /\ v.pc \in {"dead", "none"}
    BY <1>1 DEF Ended
  <1>3. UNCHANGED wkLock \/ wkLock = w
    BY DEF Ended
  <1>4. QED
    BY <1>2, <1>3, OneWorkerMoves

LEMMA WorkerAloneWorker ==
  ASSUME TypeInv, WorkerAlone, NEW w \in Workers, WorkerStep(w)
  PROVE  WorkerAlone'
  <1>1. ASSUME GivesUp(w), UNCHANGED wkLock \/ wkLock = None PROVE WorkerAlone'
    <2>1. [wk[w] EXCEPT !.pc = "closing", !.ok = FALSE].pc = "closing"
      BY DEF TypeInv, WorkersOK, Worker
    <2>2. QED
      <3>1. wk' = [wk EXCEPT ![w] = [wk[w] EXCEPT !.pc = "closing", !.ok = FALSE]]
        BY <1>1 DEF GivesUp
      <3>2. QED
        BY <1>1, <2>1, <3>1, OneWorkerMoves
  <1>2. CASE Start(w)
    <2>1. CASE GivesUp(w)
      BY <1>1, <1>2, <2>1 DEF Start, WorkerLockFree
    <2>2. ASSUME NEW p \in Pages, wk' = [wk EXCEPT ![w].pc = "started", ![w].page = p],
                 WorkerLockFree, wkLock' = w
          PROVE  WorkerAlone'
      <3> DEFINE v == [wk[w] EXCEPT !.pc = "started", !.page = p]
      <3>1. wk' = [wk EXCEPT ![w] = v]
        <4>1. wk \in [Workers -> Worker]
          BY DEF TypeInv, WorkersOK
        <4>2. wk' = [wk EXCEPT ![w].pc = "started", ![w].page = p]
          BY <2>2
        <4>3. QED
          BY ONLY <4>1, <4>2, w \in Workers
      <3> HIDE DEF v
      <3>2. wkLock = None /\ wkLock' = w
        BY <2>2 DEF WorkerLockFree
      <3>3. QED
        BY ONLY TypeInv, WorkerAlone, <3>1, <3>2, OneWorkerMoves
    <2>3. QED
      BY <1>2, <2>1, <2>2 DEF Start
  <1>3. CASE Download(w)
    <2>1. PICK v : wk' = [wk EXCEPT ![w] = v]
      BY <1>3 DEF Download
    <2>2. wkLock = w /\ UNCHANGED wkLock
      BY <1>3 DEF Download, WorkerAlone
    <2>3. QED
      BY <2>1, <2>2, OneWorkerMoves
  <1>4. CASE Heartbeat(w)
    <2>1. PICK v : wk' = [wk EXCEPT ![w] = v]
      <3>1. wk' = [wk EXCEPT ![w] = wk[w]] \/ wk' = [wk EXCEPT ![w] = [wk[w] EXCEPT !.beat = FALSE]]
        BY <1>4 DEF Heartbeat, TypeInv, WorkersOK
      <3>2. QED
        BY <3>1
    <2>2. wkLock = w /\ UNCHANGED wkLock
      BY <1>4 DEF Heartbeat, WorkerAlone
    <2>3. QED
      BY <2>1, <2>2, OneWorkerMoves
  <1>5. ASSUME NEW outcome \in Outcomes, NEW code \in Failures,
               Commit(w, outcome) \/ Fail(w, code)
        PROVE  WorkerAlone'
    <2>1. wk' = [wk EXCEPT ![w] = [wk[w] EXCEPT !.pc = "closing", !.ok = TRUE]]
      BY ZenonT(30), <1>5 DEF Commit, Fail
    <2>2. wkLock = w /\ UNCHANGED wkLock
      BY Zenon, <1>5 DEF Commit, Fail, WorkerAlone
    <2>3. QED
      BY Zenon, <2>1, <2>2, OneWorkerMoves
  <1>6. ASSUME Exit(w) PROVE WorkerAlone'
    BY <1>6, WorkerAloneEnded DEF Exit
  <1>7. QED
    BY <1>1, <1>2, <1>3, <1>4, <1>5, <1>6 DEF WorkerStep, DownloadRefused, Discarded, Outcomes, Failures

LEMMA WorkerAloneStep ==
  ASSUME TypeInv, WorkerAlone, "worker_lock" \notin Disturbances, [Next]_vars
  PROVE  WorkerAlone'
  <1>1. CASE UNCHANGED wk /\ UNCHANGED wkLock
    BY <1>1 DEF WorkerAlone
  <1>2. CASE UNCHANGED vars \/ Requests \/ Time
    BY Zenon, <1>1, <1>2 DEF vars, rows, Requests, ScheduleRun, SubmitRun, SubmitAction, SubmitRetry,
         SubmitRestart, PatchEnabled, Time, LeaseExpires, BackoffOver, StampAges,
         TaskLeaseExpires, RetryDue
  <1>3. ASSUME NEW x \in Executors, ExecutorStep(x) PROVE WorkerAlone'
    <2>1. ASSUME NEW w \in Workers, Spawn(x, w) PROVE WorkerAlone'
      <3>1. /\ wk'[w].pc = "spawned" /\ \A v \in Workers \ {w} : wk'[v] = wk[v]
            /\ UNCHANGED wkLock
        BY <2>1, SpawnHands DEF Spawn
      <3>2. QED
        BY <3>1 DEF WorkerAlone
    <2>2. CASE Reap(x)
      <3> DEFINE w == ex[x].w
      <3>1. wk' = [wk EXCEPT ![w] = NoWorker] /\ (UNCHANGED wkLock \/ wkLock = w)
        BY <2>2 DEF Reap
      <3>2. NoWorker.pc = "none"
        BY Constants
      <3> HIDE DEF w
      <3>3. QED
        BY <3>1, <3>2, OneWorkerMoves
    <2>3. CASE ApplyStep(x)
      BY Zenon, <1>1, <2>3 DEF ApplyStep, RejectCommand, ApplyPause, ApplyCancel, ApplyRun, ApplyRecovery,
                        PollRestart, Next1
    <2>4. QED
      BY Zenon, <1>1, <1>3, <2>1, <2>2, <2>3
         DEF ExecutorStep, BeginCommands, Acquire, LeaseWaited, TakeOver, LockGone, ProbeWorker,
             RestartBudget, ClaimBatch, NothingToClaim, SpawnFails, Renew, Superseded, RecordExit
  <1>4. CASE Outside
    <2>1. ASSUME NEW w \in Workers, WorkerCrash(w) PROVE WorkerAlone'
      BY <2>1, WorkerAloneEnded DEF WorkerCrash
    <2>2. ASSUME NEW x \in Executors, ExecutorCrash(x) PROVE WorkerAlone'
      <3>1. \A v \in Workers : wk'[v] \in {wk[v], NoWorker}
        BY <2>2 DEF ExecutorCrash
      <3>2. NoWorker.pc = "none" /\ UNCHANGED wkLock
        BY <2>2, Constants DEF ExecutorCrash
      <3>3. QED
        BY <3>1, <3>2 DEF WorkerAlone
    <2>3. QED
      BY <1>1, <1>4, <2>1, <2>2
         DEF Outside, LoseExecutorLock, LoseWorkerLock, Disturb, PauseForLogin, PublishSession
  <1>5. QED
    BY <1>2, <1>3, <1>4, WorkerAloneWorker DEF Next

\* While the worker lock is not lost, two workers never talk to the site at once,
\* whichever executors crashed: an orphan of the last batch finishes first.
THEOREM OneFetcherAlways ==
  ASSUME "worker_lock" \notin Disturbances
  PROVE  Spec => []OneFetcher
  <1>1. TypeInv /\ WorkerAlone /\ [Next]_vars => WorkerAlone'
    BY WorkerAloneStep
  <1>2. WorkerAlone => OneFetcher
    BY DEF WorkerAlone, OneFetcher
  <1>3. QED
    BY <1>1, <1>2, WorkerAloneInit, TypeInvariant, PTL DEF Spec


-----------------------------------------------------------------------------
(* A paused source stays paused.                                           *)

\* What every step but a claim does to runs, and every step but a download to
\* tasks: what is running was running, under the same generation.
RunsStop ==
  \A r \in Runs : run'[r].status = "running" =>
    run[r].status = "running" /\ run'[r].gen = run[r].gen

TasksStop ==
  \A r \in Runs, p \in Pages : task'[r][p].status = "running" =>
    task[r][p].status = "running" /\ task'[r][p].gen = task[r][p].gen

\* Only a download makes a worker fetch, for the batch it was spawned for.
FetchersKept ==
  \A w \in Workers : wk'[w].pc = "fetching" =>
    /\ wk[w].pc = "fetching"
    /\ wk'[w].run = wk[w].run /\ wk'[w].srcGen = wk[w].srcGen /\ wk'[w].runGen = wk[w].runGen
    /\ wk'[w].page = wk[w].page /\ wk'[w].taskGen = wk[w].taskGen

Halts == RunsStop /\ TasksStop /\ FetchersKept

LEMMA FencedStops ==
  ASSUME TypeInv, NEW rs, NEW status \in {"pending", "cancelled"}, NEW r \in Runs, NEW p \in Pages
  PROVE  \/ FenceTasks(rs, status)[r][p] = task[r][p] /\ task[r][p].status # "running"
         \/ FenceTasks(rs, status)[r][p] = task[r][p] /\ r \notin rs
         \/ FenceTasks(rs, status)[r][p].status # "running"
  <1>1. task[r][p] \in TaskRow
    BY DEF TypeInv, RowsOK
  <1>2. ASSUME NEW t \in TaskRow
        PROVE  \/ Fenced(t, status) = t /\ t.status # "running"
               \/ Fenced(t, status).status # "running"
    BY Statuses DEF Fenced, TaskRow
  <1>3. QED
    BY <1>1, <1>2 DEF FenceTasks

LEMMA FenceTasksStop ==
  ASSUME TypeInv, NEW rs, NEW status \in {"pending", "cancelled"}, task' = FenceTasks(rs, status)
  PROVE  TasksStop
  BY FencedStops DEF TasksStop

\* A run that gets another status and generation, or only another status.
LEMMA OneRunStops ==
  ASSUME TypeInv, NEW r, NEW t, run' = [run EXCEPT ![r] = t], t.status # "running"
  PROVE  RunsStop
  BY DEF RunsStop, TypeInv, RowsOK

LEMMA RowsHalt ==
  ASSUME UNCHANGED <<run, task>>
  PROVE  RunsStop /\ TasksStop
  BY DEF RunsStop, TasksStop

LEMMA OneTaskStops ==
  ASSUME TypeInv, NEW r, NEW p, NEW t, task' = [task EXCEPT ![r][p] = t],
         \/ t.status # "running"
         \/ t.status = task[r][p].status /\ t.gen = task[r][p].gen
  PROVE  TasksStop
  BY DEF TasksStop, TypeInv, RowsOK

LEMMA HaltRequests ==
  ASSUME TypeInv, Requests
  PROVE  Halts
  <1>1. UNCHANGED task /\ UNCHANGED wk
    BY DEF Requests, ScheduleRun, SubmitRun, SubmitAction, SubmitRetry, SubmitRestart, PatchEnabled
  <1>2. ASSUME NEW r \in Runs, NEW lane \in Lanes, NewRun(r, lane) PROVE RunsStop
    <2>1. [run[r] EXCEPT !.status = "queued", !.type = lane].status = "queued"
      BY DEF TypeInv, RowsOK, RunRow
    <2>2. run' = [run EXCEPT ![r] = [run[r] EXCEPT !.status = "queued", !.type = lane]]
      BY <1>2 DEF NewRun, TypeInv, RowsOK
    <2>3. QED
      BY <2>1, <2>2, OneRunStops
  <1>3. RunsStop
    BY <1>2 DEF Requests, ScheduleRun, SubmitRun, SubmitAction, SubmitRetry, SubmitRestart,
                PatchEnabled, RunsStop
  <1>4. QED
    BY <1>1, <1>3 DEF Halts, TasksStop, FetchersKept

LEMMA HaltCommands ==
  ASSUME TypeInv, NEW x \in Executors, BeginCommands(x) \/ ApplyStep(x)
  PROVE  Halts
  <1>1. UNCHANGED wk
    BY DEF BeginCommands, ApplyStep, RejectCommand, ApplyPause, ApplyCancel, ApplyRun, ApplyRecovery,
           PollRestart, Next1
  <1>2. ASSUME NEW c \in Commands, ApplyPause(x, c) \/ ApplyCancel(x, c) PROVE RunsStop /\ TasksStop
    <2>1. PICK status \in {"paused", "cancelled"}, u \in {"pending", "cancelled"} :
            /\ run' = [run EXCEPT ![cmd[c].run].gen = @ + 1, ![cmd[c].run].status = status]
            /\ task' = FenceTasks({cmd[c].run}, u)
      BY <1>2 DEF ApplyPause, ApplyCancel
    <2>2. RunsStop
      BY <2>1 DEF RunsStop, TypeInv, RowsOK, RunRow
    <2>3. QED
      BY <2>1, <2>2, FenceTasksStop
  <1>3. ASSUME NEW c \in Commands, ApplyRun(x, c) PROVE RunsStop /\ TasksStop
    <2>1. run' = [run EXCEPT ![cmd[c].run].status =
                       IF run[cmd[c].run].status = "interrupted" THEN "queued"
                       ELSE run[cmd[c].run].status] /\ UNCHANGED task
      BY <1>3 DEF ApplyRun
    <2>2. RunsStop
      BY <2>1 DEF RunsStop, TypeInv, RowsOK, RunRow
    <2>3. QED
      BY <2>1, <2>2 DEF TasksStop
  <1>4. ASSUME NEW c \in Commands, NEW rs \in SUBSET Runs, ApplyRecovery(x, c, rs)
        PROVE  RunsStop /\ TasksStop
    <2>1. RunsStop
      <3>1. \A q \in Runs \ rs : run'[q] = run[q]
        BY <1>4 DEF ApplyRecovery
      <3>2. \A r \in rs : run'[r].status = "queued"
        BY <1>4 DEF ApplyRecovery, TypeInv, RowsOK, RunRow
      <3>3. QED
        BY <3>1, <3>2 DEF RunsStop
    <2>2. ASSUME NEW r \in Runs, NEW p \in Pages, task'[r][p].status = "running"
          PROVE  task[r][p].status = "running" /\ task'[r][p].gen = task[r][p].gen
      <3>1. FenceTasks(rs, "pending") \in [Runs -> [Pages -> TaskRow]]
        BY FenceTasksType, Constants DEF TypeInv, RowsOK
      <3>2. \A t \in TaskRow : \A n : /\ [t EXCEPT !.tries = n].status = t.status
                                      /\ [t EXCEPT !.tries = n].gen = t.gen
        BY DEF TaskRow
      <3>3. \E n : task'[r][p] = [FenceTasks(rs, "pending")[r][p] EXCEPT !.tries = n]
        BY <1>4 DEF ApplyRecovery
      <3>4. /\ task'[r][p].status = FenceTasks(rs, "pending")[r][p].status
            /\ task'[r][p].gen = FenceTasks(rs, "pending")[r][p].gen
        BY <3>1, <3>2, <3>3
      <3>5. QED
        BY <2>2, <3>4, FencedStops
    <2>3. QED
      BY <2>1, <2>2 DEF TasksStop
  <1>5. ASSUME UNCHANGED <<run, task>> PROVE RunsStop /\ TasksStop
    BY <1>5, RowsHalt
  <1>6. RunsStop /\ TasksStop
    BY <1>2, <1>3, <1>4, <1>5 DEF BeginCommands, ApplyStep, RejectCommand, PollRestart, rows
  <1>7. QED
    BY <1>1, <1>6 DEF Halts, FetchersKept

LEMMA HaltExecutor ==
  ASSUME TypeInv, NEW x \in Executors, ExecutorStep(x),
         ~\E r \in Runs, p \in Pages : ClaimBatch(x, r, p)
  PROVE  Halts
  <1>1. CASE BeginCommands(x) \/ ApplyStep(x)
    BY <1>1, HaltCommands
  <1>2. CASE RecordExit(x)
    <2> DEFINE b    == ex[x]
               lost == /\ rt.gen = b.srcGen /\ ~b.ok
                       /\ run[b.run].status = "running" /\ run[b.run].gen = b.runGen
    <2>1. CASE ~lost
      BY <1>2, <2>1, RowsHalt DEF RecordExit, Halts, FetchersKept
    <2>2. CASE lost
      <3>1. /\ task' = FenceTasks({b.run}, "pending") /\ UNCHANGED wk
            /\ run' = [run EXCEPT ![b.run].gen = @ + 1, ![b.run].status = "interrupted"]
        BY <1>2, <2>2 DEF RecordExit
      <3> HIDE DEF b
      <3>2. RunsStop
        BY <3>1 DEF RunsStop, TypeInv, RowsOK, RunRow
      <3>3. QED
        BY <3>1, <3>2, FenceTasksStop DEF Halts, FetchersKept
    <2>3. QED
      BY <2>1, <2>2
  <1>3. ASSUME NEW w \in Workers, Spawn(x, w) PROVE FetchersKept
    <2>1. wk'[w].pc = "spawned" /\ \A v \in Workers \ {w} : wk'[v] = wk[v]
      BY <1>3, SpawnHands
    <2>2. QED
      BY <2>1 DEF FetchersKept
  <1>4. ASSUME Reap(x) PROVE FetchersKept
    <2>1. wk' = [wk EXCEPT ![ex[x].w] = NoWorker] /\ NoWorker.pc = "none"
      BY <1>4, Constants DEF Reap
    <2>2. QED
      BY <2>1 DEF FetchersKept, TypeInv, WorkersOK
  <1>5. CASE ~(BeginCommands(x) \/ ApplyStep(x) \/ RecordExit(x))
    <2>1. UNCHANGED <<run, task>>
      BY <1>5 DEF ExecutorStep, Acquire, LeaseWaited, TakeOver, LockGone, ProbeWorker, RestartBudget,
           NothingToClaim, Spawn, SpawnFails, Renew, Superseded, Reap, rows
    <2>2. CASE UNCHANGED wk
      BY <2>1, <2>2, RowsHalt DEF Halts, FetchersKept
    <2>3. QED
      BY <1>3, <1>4, <1>5, <2>1, <2>2, RowsHalt
         DEF ExecutorStep, Acquire, LeaseWaited, TakeOver, LockGone, ProbeWorker, RestartBudget,
             NothingToClaim, SpawnFails, Renew, Superseded, Halts
  <1>6. QED
    BY <1>1, <1>2, <1>5

\* One worker goes on as it was, or does not fetch.
LEMMA OneFetcherKept ==
  ASSUME TypeInv, NEW w, NEW v, wk' = [wk EXCEPT ![w] = v],
         v.pc = "fetching" =>
           /\ wk[w].pc = "fetching" /\ v.run = wk[w].run /\ v.srcGen = wk[w].srcGen
           /\ v.runGen = wk[w].runGen /\ v.page = wk[w].page /\ v.taskGen = wk[w].taskGen
  PROVE  FetchersKept
  BY DEF FetchersKept, TypeInv, WorkersOK

LEMMA EndedKept ==
  ASSUME TypeInv, NEW w \in Workers, NEW ok, Ended(w, ok)
  PROVE  FetchersKept
  <1>1. [NoWorker EXCEPT !.pc = "dead", !.ok = ok].pc = "dead" /\ NoWorker.pc = "none"
    BY Constants DEF Worker
  <1>2. PICK v : wk' = [wk EXCEPT ![w] = v] /\ v.pc \in {"dead", "none"}
    BY <1>1 DEF Ended
  <1>3. QED
    BY <1>2, OneFetcherKept

LEMMA HaltWorker ==
  ASSUME TypeInv, NEW w \in Workers, WorkerStep(w), ~Download(w)
  PROVE  Halts
  <1>1. ASSUME GivesUp(w) PROVE FetchersKept
    <2>1. [wk[w] EXCEPT !.pc = "closing", !.ok = FALSE].pc = "closing"
      BY DEF TypeInv, WorkersOK, Worker
    <2>2. QED
      <3>1. wk' = [wk EXCEPT ![w] = [wk[w] EXCEPT !.pc = "closing", !.ok = FALSE]]
        BY <1>1 DEF GivesUp
      <3>2. QED
        BY <2>1, <3>1, OneFetcherKept
  <1>2. ASSUME wk' = [wk EXCEPT ![w].pc = "closing", ![w].ok = TRUE] PROVE FetchersKept
    <2>1. [wk[w] EXCEPT !.pc = "closing", !.ok = TRUE].pc = "closing"
      BY DEF TypeInv, WorkersOK, Worker
    <2>2. wk' = [wk EXCEPT ![w] = [wk[w] EXCEPT !.pc = "closing", !.ok = TRUE]]
      BY <1>2
    <2>3. QED
      BY <2>1, <2>2, OneFetcherKept
  <1>3. CASE Start(w)
    <2>1. UNCHANGED <<run, task>>
      BY <1>3 DEF Start, rows
    <2>2. ASSUME NEW p \in Pages, wk' = [wk EXCEPT ![w].pc = "started", ![w].page = p]
          PROVE  FetchersKept
      <3>1. [wk[w] EXCEPT !.pc = "started", !.page = p].pc = "started"
        BY DEF TypeInv, WorkersOK, Worker
      <3>2. wk' = [wk EXCEPT ![w] = [wk[w] EXCEPT !.pc = "started", !.page = p]]
        BY <2>2
      <3>3. QED
        BY <3>1, <3>2, OneFetcherKept
    <2>3. FetchersKept
      BY <1>1, <1>3, <2>2 DEF Start
    <2>4. QED
      BY <2>1, <2>3, RowsHalt DEF Halts
  <1>4. CASE DownloadRefused(w) \/ Discarded(w)
    BY <1>1, <1>4, RowsHalt DEF DownloadRefused, Discarded, Halts, rows
  <1>5. CASE Heartbeat(w)
    <2> DEFINE r == wk[w].run
               p == wk[w].page
               t == [task[r][p] EXCEPT !.lease = "live"]
    <2>1. TasksStop
      <3>1. CASE UNCHANGED task
        BY <3>1 DEF TasksStop
      <3>2. CASE task' = [task EXCEPT ![r][p].lease = "live"]
        <4>1. r \in Runs /\ p \in Pages /\ task[r][p] \in TaskRow
          BY <1>5 DEF Heartbeat, TypeInv, WorkersOK, Worker, RowsOK
        <4>2. t.status = task[r][p].status /\ t.gen = task[r][p].gen
          BY <4>1 DEF TaskRow
        <4>3. task' = [task EXCEPT ![r][p] = t]
          BY <3>2
        <4> HIDE DEF t, r, p
        <4>4. QED
          BY <4>2, <4>3, OneTaskStops
      <3>3. QED
        BY <1>5, <3>1, <3>2 DEF Heartbeat
    <2>2. FetchersKept
      <3>1. CASE UNCHANGED wk
        BY <3>1 DEF FetchersKept
      <3>2. CASE wk' = [wk EXCEPT ![w].beat = FALSE]
        BY <1>5, <3>2 DEF FetchersKept, TypeInv, WorkersOK, Worker
      <3>3. QED
        BY <1>5, <3>1, <3>2 DEF Heartbeat
    <2>3. RunsStop
      BY <1>5 DEF Heartbeat, RunsStop
    <2>4. QED
      BY <2>1, <2>2, <2>3 DEF Halts
  <1>6. ASSUME NEW outcome \in Outcomes, Commit(w, outcome) PROVE Halts
    <2> DEFINE r     == wk[w].run
               p     == wk[w].page
               after == AfterPage(r, p + 1, outcome)
    <2>1. r \in Runs /\ run[r].status = "running"
      BY <1>6 DEF Commit, CommitFence, TypeInv, WorkersOK
    <2>2. RunsStop
      <3>1. run' = [run EXCEPT ![r].page = p + 1, ![r].status = after]
        BY <1>6 DEF Commit
      <3> HIDE DEF after, p, r
      <3>2. \A q \in Runs : q # r => run'[q] = run[q]
        BY <3>1 DEF TypeInv, RowsOK
      <3>3. run'[r].gen = run[r].gen
        BY <2>1, <3>1 DEF TypeInv, RowsOK, RunRow
      <3>4. QED
        BY <2>1, <3>2, <3>3 DEF RunsStop
    <2>3. ASSUME NEW q \in Runs, NEW n \in Pages
          PROVE  \/ task'[q][n] = task[q][n]
                 \/ task'[q][n].status # "running"
      <3>1. CASE q = r /\ n = p
        <4>1. task'[q][n] = [task[q][n] EXCEPT !.status = "succeeded", !.lease = "none", !.due = TRUE]
          BY <1>6, <2>1, <3>1 DEF Commit, TypeInv, RowsOK
        <4>2. QED
          BY <4>1 DEF TypeInv, RowsOK, TaskRow
      <3>2. CASE q = r /\ n # p
        <4>1. task'[q][n] = task[q][n] \/ task'[q][n] = NewTask
          BY <1>6, <2>1, <3>2 DEF Commit, TypeInv, RowsOK
        <4>2. NewTask.status = "pending"
          BY DEF NewTask, NoTask
        <4>3. QED
          BY <4>1, <4>2
      <3>3. CASE q # r
        BY <1>6, <2>1, <3>3 DEF Commit, TypeInv, RowsOK
      <3>4. QED
        BY <3>1, <3>2, <3>3
    <2>4. TasksStop
      BY <2>3 DEF TasksStop
    <2>5. FetchersKept
      BY <1>2, <1>6 DEF Commit
    <2>6. QED
      BY <2>2, <2>4, <2>5 DEF Halts
  <1>7. ASSUME NEW code \in Failures, Fail(w, code) PROVE Halts
    <2> DEFINE r == wk[w].run
               p == wk[w].page
    <2>1. PICK ts \in {"failed", "pending", "retry_wait"},
               rs \in {"partial_failed", "waiting_login", "paused", "queued"} :
            /\ task' = [task EXCEPT ![r][p] = [@ EXCEPT !.status = ts, !.lease = "none",
                                                        !.due = ts # "retry_wait"]]
            /\ run' = [run EXCEPT ![r].status = rs]
      BY Zenon, <1>7 DEF Fail
    <2>2. r \in Runs /\ p \in Pages /\ task[r][p] \in TaskRow
      BY <1>7 DEF Fail, TypeInv, WorkersOK, Worker, RowsOK
    <2>3. TasksStop
      <3> DEFINE t == [task[r][p] EXCEPT !.status = ts, !.lease = "none", !.due = ts # "retry_wait"]
      <3>1. t.status = ts
        BY <2>2 DEF TaskRow
      <3>2. task' = [task EXCEPT ![r][p] = t]
        BY <2>1
      <3> HIDE DEF t, r, p
      <3>3. QED
        BY <3>1, <3>2, OneTaskStops
    <2>4. RunsStop
      BY <2>1 DEF RunsStop, TypeInv, RowsOK, RunRow
    <2>5. FetchersKept
      BY <1>2, <1>7 DEF Fail
    <2>6. QED
      BY <2>3, <2>4, <2>5 DEF Halts
  <1>8. CASE Exit(w)
    <2>1. FetchersKept
      BY <1>8, EndedKept DEF Exit
    <2>2. UNCHANGED <<run, task>>
      BY <1>8 DEF Exit, rows
    <2>3. QED
      BY <2>1, <2>2, RowsHalt DEF Halts
  <1>9. QED
    BY <1>3, <1>4, <1>5, <1>6, <1>7, <1>8 DEF WorkerStep

LEMMA HaltOutside ==
  ASSUME TypeInv, Outside
  PROVE  Halts
  <1>1. ASSUME NEW w \in Workers, WorkerCrash(w) PROVE Halts
    BY <1>1, EndedKept, RowsHalt DEF WorkerCrash, Halts, rows
  <1>2. ASSUME NEW x \in Executors, ExecutorCrash(x) PROVE Halts
    <2>1. \A v \in Workers : wk'[v] \in {wk[v], NoWorker}
      BY <1>2 DEF ExecutorCrash
    <2>2. NoWorker.pc = "none"
      BY Constants
    <2>3. FetchersKept
      BY <2>1, <2>2 DEF FetchersKept
    <2>4. UNCHANGED <<run, task>>
      BY <1>2 DEF ExecutorCrash, rows
    <2>5. QED
      BY <2>3, <2>4, RowsHalt DEF Halts
  <1>3. CASE LoseExecutorLock \/ LoseWorkerLock
    BY <1>3, RowsHalt DEF LoseExecutorLock, LoseWorkerLock, rows, Halts, FetchersKept
  <1>4. CASE PauseForLogin
    <2>1. RunsStop
      BY <1>4 DEF PauseForLogin, RunsStop, TypeInv, RowsOK, RunRow
    <2>2. ASSUME NEW r \in Runs, NEW p \in Pages
          PROVE  task'[r][p].status # "running" \/ task'[r][p] = task[r][p]
      <3>1. task'[r][p] \in {Fenced(task[r][p], "pending"), task[r][p]}
        BY <1>4 DEF PauseForLogin
      <3>2. \A t \in TaskRow : Fenced(t, "pending").status # "running" \/ Fenced(t, "pending") = t
        BY DEF Fenced, TaskRow
      <3>3. QED
        BY <3>1, <3>2 DEF TypeInv, RowsOK
    <2>3. TasksStop /\ FetchersKept
      BY <1>4, <2>2 DEF TasksStop, PauseForLogin, FetchersKept
    <2>4. QED
      BY <2>1, <2>3 DEF Halts
  <1>5. CASE PublishSession
    <2>1. RunsStop
      BY <1>5 DEF PublishSession, RunsStop, TypeInv, RowsOK, RunRow
    <2>2. QED
      BY <1>5, <2>1 DEF PublishSession, Halts, TasksStop, FetchersKept
  <1>6. QED
    BY <1>1, <1>2, <1>3, <1>4, <1>5 DEF Outside

LEMMA HaltTime ==
  ASSUME TypeInv, Time
  PROVE  Halts
  <1>1. UNCHANGED <<run, wk>>
    BY DEF Time, LeaseExpires, BackoffOver, StampAges, TaskLeaseExpires, RetryDue
  <1>2. ASSUME NEW r \in Runs, NEW p \in Pages, TaskLeaseExpires(r, p) \/ RetryDue(r, p)
        PROVE  TasksStop
    <2>1. PICK t \in {[task[r][p] EXCEPT !.lease = "expired"], [task[r][p] EXCEPT !.due = TRUE]} :
            task' = [task EXCEPT ![r][p] = t]
      BY <1>2 DEF TaskLeaseExpires, RetryDue
    <2>2. task[r][p] \in TaskRow
      BY DEF TypeInv, RowsOK
    <2>3. t.status = task[r][p].status /\ t.gen = task[r][p].gen
      BY <2>1, <2>2 DEF TaskRow
    <2>4. QED
      BY <2>1, <2>3, OneTaskStops
  <1>3. TasksStop
    BY <1>2 DEF Time, LeaseExpires, BackoffOver, StampAges, TasksStop
  <1>4. QED
    BY <1>1, <1>3 DEF Halts, RunsStop, FetchersKept

LEMMA EveryStepHalts ==
  ASSUME TypeInv, [Next]_vars,
         ~\E x \in Executors, r \in Runs, p \in Pages : ClaimBatch(x, r, p),
         ~\E w \in Workers : Download(w)
  PROVE  Halts
  <1>1. CASE UNCHANGED vars
    BY <1>1 DEF vars, rows, Halts, RunsStop, TasksStop, FetchersKept
  <1>2. QED
    BY <1>1, HaltRequests, HaltExecutor, HaltWorker, HaltOutside, HaltTime DEF Next

\* A writer was a writer, or is a worker that downloads, or a batch is claimed.
LEMMA WritersKept ==
  ASSUME TypeInv, TypeInv', FenceInv, [Next]_vars,
         ~\E x \in Executors, r \in Runs, p \in Pages : ClaimBatch(x, r, p),
         ~\E w \in Workers : Download(w),
         NEW w \in Workers, CanWrite(w)'
  PROVE  CanWrite(w)
  <1>1. /\ wk[w].pc = "fetching"
        /\ wk'[w].run = wk[w].run /\ wk'[w].srcGen = wk[w].srcGen /\ wk'[w].runGen = wk[w].runGen
        /\ wk'[w].page = wk[w].page /\ wk'[w].taskGen = wk[w].taskGen
    BY EveryStepHalts DEF Halts, FetchersKept, CanWrite
  <1>2. wk[w].run \in Runs /\ wk[w].page \in Pages
    BY <1>1 DEF TypeInv, WorkersOK, Worker
  <1>3. run[wk[w].run].status = "running" /\ run'[wk[w].run].gen = run[wk[w].run].gen
    BY <1>1, <1>2, EveryStepHalts DEF Halts, RunsStop, CanWrite, FailFence
  <1>4. /\ HeldTask(w).status = "running"
        /\ task'[wk[w].run][wk[w].page].gen = HeldTask(w).gen
    BY <1>1, <1>2, EveryStepHalts DEF Halts, TasksStop, CanWrite, FailFence, HeldTask
  <1>5. rt.gen = wk[w].srcGen
    <2>1. wk[w].srcGen = rt'.gen
      BY <1>1 DEF CanWrite, FailFence
    <2>2. wk[w].srcGen <= rt.gen
      BY <1>1 DEF FenceInv, Issued, AtWork
    <2>3. rt'.gen >= rt.gen
      BY EpochMoves, RuntimeFacts DEF Writes
    <2>4. rt.gen \in Nat /\ rt'.gen \in Nat
      BY DEF TypeInv, RowsOK, Runtime
    <2>5. QED
      BY <2>1, <2>2, <2>3, <2>4
  <1>6. QED
    BY <1>1, <1>3, <1>4, <1>5 DEF CanWrite, FailFence, HeldTask

\* Who pauses the source: the restart budget, or a worker whose page failed.
LEMMA PauseEnters ==
  ASSUME TypeInv, [Next]_vars, rt'.status = "paused"
  PROVE  \/ rt.status = "paused"
         \/ \E x \in Executors : RestartBudget(x)
         \/ \E w \in Workers : \E code \in Failures : Fail(w, code)
  <1> DEFINE Goal == \/ rt.status = "paused"
                     \/ \E x \in Executors : RestartBudget(x)
                     \/ \E w \in Workers : \E code \in Failures : Fail(w, code)
  <1>1. ASSUME UNCHANGED rt PROVE Goal
    BY <1>1
  <1>2. ASSUME Requests \/ UNCHANGED vars PROVE Goal
    BY <1>1, <1>2 DEF Requests, ScheduleRun, SubmitRun, SubmitAction, SubmitRetry, SubmitRestart,
                      PatchEnabled, vars, rows
  <1>3. ASSUME NEW x \in Executors, ExecutorStep(x) PROVE Goal
    <2>1. CASE \E c \in Commands, rs \in SUBSET Runs : ApplyRecovery(x, c, rs)
      BY <2>1 DEF ApplyRecovery, TypeInv, RowsOK, Runtime
    <2>2. CASE \E r \in Runs, p \in Pages : ClaimBatch(x, r, p)
      BY <2>2 DEF ClaimBatch, TypeInv, RowsOK, Runtime
    <2>3. CASE TakeOver(x) \/ Renew(x) \/ RecordExit(x)
      BY <2>3 DEF TakeOver, Renew, RecordExit, TypeInv, RowsOK, Runtime
    <2>4. CASE BeginCommands(x) \/ ApplyStep(x)
      BY <1>1, <2>1, <2>4 DEF BeginCommands, ApplyStep, RejectCommand, ApplyPause, ApplyCancel,
           ApplyRun, PollRestart, rows
    <2>5. QED
      BY <1>1, <1>3, <2>2, <2>3, <2>4
         DEF ExecutorStep, Acquire, LeaseWaited, LockGone, ProbeWorker, NothingToClaim, Spawn,
             SpawnFails, Superseded, Reap, rows
  <1>4. ASSUME NEW w \in Workers, WorkerStep(w) PROVE Goal
    BY Zenon, <1>1, <1>4 DEF WorkerStep, Start, Download, DownloadRefused, Heartbeat, Commit, Discarded,
                      Exit, rows
  <1>5. ASSUME Outside PROVE Goal
    <2>1. CASE PauseForLogin
      BY <2>1 DEF PauseForLogin, StatusForLogin, TypeInv, RowsOK, Runtime
    <2>2. CASE PublishSession
      BY <2>2 DEF PublishSession, TypeInv, RowsOK, Runtime
    <2>3. QED
      BY <1>1, <1>5, <2>1, <2>2 DEF Outside, WorkerCrash, ExecutorCrash, LoseExecutorLock,
           LoseWorkerLock, rows
  <1>6. ASSUME Time PROVE Goal
    <2>1. CASE LeaseExpires \/ BackoffOver \/ StampAges
      BY <2>1 DEF LeaseExpires, BackoffOver, StampAges, TypeInv, RowsOK, Runtime
    <2>2. QED
      BY <1>1, <1>6, <2>1 DEF Time, TaskLeaseExpires, RetryDue
  <1>7. QED
    BY <1>2, <1>3, <1>4, <1>5, <1>6 DEF Next

\* Who can end a pause: a recovery, or a worker that may still write.
LEMMA PauseLeaves ==
  ASSUME TypeInv, [Next]_vars, rt.status = "paused", rt'.status # "paused"
  PROVE  \/ \E x \in Executors, c \in Commands : \E rs \in SUBSET Runs : ApplyRecovery(x, c, rs)
         \/ \E w \in Workers : CanWrite(w)
  <1> DEFINE Goal ==
        \/ \E x \in Executors, c \in Commands : \E rs \in SUBSET Runs : ApplyRecovery(x, c, rs)
        \/ \E w \in Workers : CanWrite(w)
  <1>1. ASSUME UNCHANGED rt PROVE Goal
    BY <1>1
  <1>2. ASSUME Requests \/ UNCHANGED vars PROVE Goal
    BY <1>1, <1>2 DEF Requests, ScheduleRun, SubmitRun, SubmitAction, SubmitRetry, SubmitRestart,
                      PatchEnabled, vars, rows
  <1>3. ASSUME NEW x \in Executors, ExecutorStep(x) PROVE Goal
    <2>1. CASE \E r \in Runs, p \in Pages : ClaimBatch(x, r, p)
      BY <2>1 DEF ClaimBatch, MayClaim
    <2>2. CASE TakeOver(x) \/ RestartBudget(x) \/ Renew(x) \/ RecordExit(x)
      BY <2>2 DEF TakeOver, RestartBudget, Renew, RecordExit, TypeInv, RowsOK, Runtime
    <2>3. CASE BeginCommands(x) \/ ApplyStep(x)
      BY <1>1, <2>3 DEF BeginCommands, ApplyStep, RejectCommand, ApplyPause, ApplyCancel,
           ApplyRun, PollRestart, rows
    <2>4. QED
      BY <1>1, <1>3, <2>1, <2>2, <2>3
         DEF ExecutorStep, Acquire, LeaseWaited, LockGone, ProbeWorker, NothingToClaim, Spawn,
             SpawnFails, Superseded, Reap, rows
  <1>4. ASSUME NEW w \in Workers, WorkerStep(w) PROVE Goal
    <2>1. ASSUME NEW code \in Failures, Fail(w, code) PROVE CanWrite(w)
      BY <2>1 DEF Fail, CanWrite
    <2>2. QED
      BY ZenonT(30), <1>1, <1>4, <2>1 DEF WorkerStep, Start, Download, DownloadRefused, Heartbeat, Commit,
           Discarded, Exit, rows
  <1>5. ASSUME Outside PROVE Goal
    <2>1. CASE PauseForLogin
      BY <2>1 DEF PauseForLogin, StatusForLogin, TypeInv, RowsOK, Runtime
    <2>2. CASE PublishSession
      BY <2>2 DEF PublishSession
    <2>3. QED
      BY <1>1, <1>5, <2>1, <2>2 DEF Outside, WorkerCrash, ExecutorCrash, LoseExecutorLock,
           LoseWorkerLock, rows
  <1>6. ASSUME Time PROVE Goal
    <2>1. CASE LeaseExpires \/ BackoffOver \/ StampAges
      BY <2>1 DEF LeaseExpires, BackoffOver, StampAges, TypeInv, RowsOK, Runtime
    <2>2. QED
      BY <1>1, <1>6, <2>1 DEF Time, TaskLeaseExpires, RetryDue
  <1>7. QED
    BY <1>2, <1>3, <1>4, <1>5, <1>6 DEF Next

\* An executor comes to the budget by a probe that found the worker lock free.
LEMMA BudgetEnters ==
  ASSUME TypeInv, [Next]_vars, NEW x \in Executors, ex'[x].pc = "budget"
  PROVE  \/ ex[x].pc = "budget"
         \/ wkLock = None /\ UNCHANGED wk
  <1> DEFINE Goal == ex[x].pc = "budget" \/ (wkLock = None /\ UNCHANGED wk)
  <1>1. ASSUME UNCHANGED ex PROVE Goal
    BY <1>1
  <1>2. ASSUME NEW y \in Executors, NEW e, ex' = [ex EXCEPT ![y] = e], e.pc # "budget" PROVE Goal
    BY <1>2 DEF TypeInv, ExecutorsOK
  <1>3. ASSUME NEW y \in Executors, NEW pc, Goto(y, pc), pc # "budget" PROVE Goal
    <2>1. [ex[y] EXCEPT !.pc = pc].pc = pc
      BY DEF TypeInv, ExecutorsOK, Executor
    <2>2. QED
      BY <1>2, <1>3, <2>1 DEF Goto
  <1>4. ASSUME NEW y \in Executors, ExecutorStep(y) PROVE Goal
    <2>1. CASE BeginCommands(y) \/ ApplyStep(y)
      <3>1. UNCHANGED ex \/ Goto(y, Resumes(ex[y].pc))
        BY Zenon, <2>1 DEF BeginCommands, ApplyStep, RejectCommand, ApplyPause, ApplyCancel, ApplyRun,
                    ApplyRecovery, PollRestart, Next1
      <3>2. Resumes(ex[y].pc) # "budget"
        BY DEF Resumes
      <3>3. QED
        BY <1>1, <1>3, <3>1, <3>2
    <2>2. CASE \/ Acquire(y) \/ LeaseWaited(y) \/ TakeOver(y) \/ RestartBudget(y)
               \/ NothingToClaim(y) \/ Renew(y) \/ Superseded(y)
      BY <1>3, <2>2 DEF Acquire, LeaseWaited, TakeOver, RestartBudget, NothingToClaim, Renew,
                        Superseded
    <2>3. CASE ProbeWorker(y)
      BY <1>3, <2>3 DEF ProbeWorker, WorkerLockFree
    <2>4. ASSUME NEW r \in Runs, NEW p \in Pages, ClaimBatch(y, r, p) PROVE Goal
      <3> DEFINE e == [Idle EXCEPT !.pc = "spawn", !.run = r,
                                   !.srcGen = rt.gen + 1, !.runGen = run[r].gen + 1]
      <3>1. e.pc = "spawn"
        BY Constants DEF Executor
      <3>2. ex' = [ex EXCEPT ![y] = e]
        BY <2>4 DEF ClaimBatch
      <3> HIDE DEF e
      <3>3. QED
        BY <1>2, <3>1, <3>2
    <2>5. ASSUME NEW w \in Workers, Spawn(y, w) PROVE Goal
      BY <2>5, SpawnHands
    <2>6. CASE SpawnFails(y)
      <3> DEFINE e == [ex[y] EXCEPT !.pc = "record", !.ok = FALSE]
      <3>1. e.pc = "record"
        BY DEF TypeInv, ExecutorsOK, Executor
      <3>2. ex' = [ex EXCEPT ![y] = e]
        BY <2>6 DEF SpawnFails
      <3> HIDE DEF e
      <3>3. QED
        BY <1>2, <3>1, <3>2
    <2>7. CASE Reap(y)
      <3> DEFINE w == ex[y].w
                 e == [ex[y] EXCEPT !.pc = "record", !.w = None,
                                    !.ok = wk[w].pc = "dead" /\ wk[w].ok]
      <3>1. e.pc = "record"
        BY DEF TypeInv, ExecutorsOK, Executor
      <3>2. ex' = [ex EXCEPT ![y] = e]
        BY <2>7 DEF Reap
      <3> HIDE DEF e, w
      <3>3. QED
        BY <1>2, <3>1, <3>2
    <2>8. CASE RecordExit(y)
      <3> DEFINE e == [Idle EXCEPT !.pc = "after"]
      <3>1. e.pc = "after"
        BY Constants DEF Executor
      <3>2. ex' = [ex EXCEPT ![y] = e]
        BY <2>8 DEF RecordExit
      <3> HIDE DEF e
      <3>3. QED
        BY <1>2, <3>1, <3>2
    <2>9. CASE LockGone(y)
      BY <1>2, <2>9, Constants DEF LockGone
    <2>10. QED
      BY <1>4, <2>1, <2>2, <2>3, <2>4, <2>5, <2>6, <2>7, <2>8, <2>9 DEF ExecutorStep
  <1>5. ASSUME NEW y \in Executors, ExecutorCrash(y) PROVE Goal
    BY <1>2, <1>5, Constants DEF ExecutorCrash
  <1>6. ASSUME Requests \/ Time \/ Outside \/ UNCHANGED vars \/ (\E w \in Workers : WorkerStep(w))
        PROVE  Goal
    <2>1. CASE Requests
      BY Zenon, <1>1, <2>1 DEF Requests, ScheduleRun, SubmitRun, SubmitAction, SubmitRetry,
           SubmitRestart, PatchEnabled, rows
    <2>2. CASE Time \/ UNCHANGED vars
      BY Zenon, <1>1, <2>2 DEF Time, LeaseExpires, BackoffOver, StampAges, TaskLeaseExpires,
           RetryDue, vars, rows
    <2>3. CASE Outside
      BY Zenon, <1>1, <1>5, <2>3 DEF Outside, WorkerCrash, LoseExecutorLock, LoseWorkerLock,
           PauseForLogin, PublishSession, rows
    <2>4. CASE \E w \in Workers : WorkerStep(w)
      <3>1. \A w \in Workers : Start(w) \/ Download(w) \/ DownloadRefused(w) => UNCHANGED ex
        BY DEF Start, Download, DownloadRefused, rows
      <3>2. \A w \in Workers : Heartbeat(w) \/ Discarded(w) \/ Exit(w) => UNCHANGED ex
        BY DEF Heartbeat, Discarded, Exit, rows
      <3>3. \A w \in Workers : \A outcome : Commit(w, outcome) => UNCHANGED ex
        BY DEF Commit, rows
      <3>4. \A w \in Workers : \A code : Fail(w, code) => UNCHANGED ex
        BY DEF Fail, rows
      <3>5. QED
        BY <1>1, <2>4, <3>1, <3>2, <3>3, <3>4 DEF WorkerStep
    <2>5. QED
      BY <1>6, <2>1, <2>2, <2>3, <2>4
  <1>7. QED
    BY <1>4, <1>6 DEF Next

LEMMA PauseInit == Init => PauseInv
  <1>1. ASSUME Init PROVE /\ rt.status = "idle" /\ \A x \in Executors : ex[x].pc = "off"
    BY <1>1, Constants DEF Init
  <1>2. QED
    BY <1>1 DEF PauseInv, BudgetQuiet, PausedQuiet

LEMMA PauseStep ==
  ASSUME TypeInv, TypeInv', FenceInv, AloneInv, WorkerAlone, PauseInv, [Next]_vars
  PROVE  PauseInv'
  <1>1. ASSUME NEW w \in Workers, Download(w)
        PROVE  rt.status = "running" /\ UNCHANGED rt /\ UNCHANGED ex
    BY <1>1 DEF Download, DownloadFence
  <1>2. ASSUME NEW x \in Executors, NEW r \in Runs, NEW p \in Pages, ClaimBatch(x, r, p)
        PROVE  rt'.status = "running" /\ UNCHANGED wk
    BY <1>2 DEF ClaimBatch, TypeInv, RowsOK, Runtime
  <1>3. ASSUME NEW x \in Executors, NEW w \in Workers, ex'[x].pc = "budget",
               wk'[w].pc = "fetching"
        PROVE  FALSE
    <2>1. CASE wkLock = None /\ UNCHANGED wk
      BY <1>3, <2>1, NoneAssumption DEF WorkerAlone
    <2>2. ASSUME ex[x].pc = "budget" PROVE FALSE
      <3>1. rt.status # "running"
        BY <2>2 DEF AloneInv, RunningIsOwned, Supervising
      <3>2. ~\E v \in Workers : Download(v)
        BY <1>1, <3>1
      <3>3. CASE \E y \in Executors, r \in Runs, p \in Pages : ClaimBatch(y, r, p)
        BY <1>2, <1>3, <2>2, <3>3 DEF PauseInv, BudgetQuiet
      <3>4. CASE ~\E y \in Executors, r \in Runs, p \in Pages : ClaimBatch(y, r, p)
        <4>1. wk[w].pc = "fetching"
          BY <1>3, <3>2, <3>4, EveryStepHalts DEF Halts, FetchersKept
        <4>2. QED
          BY <2>2, <4>1 DEF PauseInv, BudgetQuiet
      <3>5. QED
        BY <3>3, <3>4
    <2>3. QED
      BY <1>3, <2>1, <2>2, BudgetEnters
  <1>4. ASSUME rt'.status = "paused", NEW w \in Workers, CanWrite(w)' PROVE FALSE
    <2>1. /\ ~\E v \in Workers : Download(v)
          /\ ~\E y \in Executors, r \in Runs, p \in Pages : ClaimBatch(y, r, p)
      BY <1>1, <1>2, <1>4
    <2>2. CanWrite(w)
      BY <1>4, <2>1, WritersKept
    <2>3. rt.status # "paused"
      BY <2>2 DEF PauseInv, PausedQuiet
    <2>4. ~\E x \in Executors : RestartBudget(x)
      BY <2>2 DEF RestartBudget, PauseInv, BudgetQuiet, CanWrite
    <2>5. ASSUME NEW v \in Workers, NEW code \in Failures, Fail(v, code) PROVE FALSE
      <3>1. CanWrite(v)
        BY <2>5 DEF Fail, CanWrite
      <3>2. v = w
        BY <2>2, <3>1, FenceInvOneWriter DEF OneWriter
      <3>3. wk' = [wk EXCEPT ![w] = [wk[w] EXCEPT !.pc = "closing", !.ok = TRUE]]
        BY <2>5, <3>2 DEF Fail
      <3>4. [wk[w] EXCEPT !.pc = "closing", !.ok = TRUE].pc = "closing"
        BY DEF TypeInv, WorkersOK, Worker
      <3>5. QED
        BY <1>4, <3>3, <3>4 DEF CanWrite, TypeInv, WorkersOK
    <2>6. QED
      BY <1>4, <2>3, <2>4, <2>5, PauseEnters
  <1>5. QED
    BY <1>3, <1>4 DEF PauseInv, BudgetQuiet, PausedQuiet

\* A recovery that is applied was pending and no longer is.
LEMMA RecoveryRecovers ==
  ASSUME TypeInv, NEW x \in Executors, NEW c \in Commands, NEW rs \in SUBSET Runs,
         ApplyRecovery(x, c, rs)
  PROVE  RecoveredBy(c)
  <1> DEFINE status == IF cmd[c].action = "restart" THEN "running" ELSE "succeeded"
             base   == [r \in Runs |-> IF r \in rs THEN run[r].page ELSE 0]
             e      == [cmd[c] EXCEPT !.status = status, !.over = rs, !.at = rt.gen, !.base = base]
  <1>1. cmd' = [cmd EXCEPT ![c] = e]
    BY DEF ApplyRecovery, Applied, TypeInv, CommandsOK
  <1>2. status \in {"running", "succeeded"}
    OBVIOUS
  <1> HIDE DEF base, status
  <1>3. e.status = status
    BY DEF TypeInv, CommandsOK, Command
  <1> HIDE DEF e
  <1>4. cmd'[c].status = status
    BY <1>1, <1>3 DEF TypeInv, CommandsOK
  <1>5. QED
    BY <1>2, <1>4 DEF ApplyRecovery, RecoveredBy

\* While no advisory lock is lost, no worker, login session or executor ends the
\* pause of a source: only an administrator's resume, retry or restart does.
THEOREM PauseHoldsAlways ==
  ASSUME "executor_lock" \notin Disturbances, "worker_lock" \notin Disturbances
  PROVE  Spec => PauseHolds
  <1> DEFINE Held == rt.status = "paused" /\ rt'.status # "paused" =>
                       \E c \in Commands : RecoveredBy(c)
  <1>1. TypeInv /\ AloneInv /\ WorkerAlone /\ [Next]_vars => (AloneInv /\ WorkerAlone)'
    BY AloneStep, WorkerAloneStep
  <1>2. TypeInv /\ TypeInv' /\ FenceInv /\ AloneInv /\ WorkerAlone /\ PauseInv /\ [Next]_vars
          => PauseInv'
    BY PauseStep
  <1>3. TypeInv /\ PauseInv /\ [Next]_vars => [Held]_vars
    <2>1. ASSUME TypeInv, PauseInv, [Next]_vars, rt.status = "paused", rt'.status # "paused"
          PROVE  \E c \in Commands : RecoveredBy(c)
      BY <2>1, PauseLeaves, RecoveryRecovers DEF PauseInv, PausedQuiet
    <2>2. QED
      BY <2>1
  <1>4. QED
    BY <1>1, <1>2, <1>3, AloneInit, WorkerAloneInit, PauseInit, Fencing, PTL DEF Spec, PauseHolds

=============================================================================
