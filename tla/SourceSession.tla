---------------------------- MODULE SourceSession ----------------------------
(***************************************************************************)
(* The saved login of a source: the session row, the QR login attempts the *)
(* administrator starts, the session workers whose browsers answer them,   *)
(* and a page worker that reads with the saved credentials.                *)
(*                                                                         *)
(* Every handler locks the Source row (locked_state), so one transaction   *)
(* is one step.  A browser job is one step from an await to the next.      *)
(* generation is what a job compares before it writes; a page worker is    *)
(* held back by the generation of the source runtime, which SourceLedger   *)
(* models in full and which is kept here as reader.current.                *)
(***************************************************************************)
EXTENDS Naturals, FiniteSets

CONSTANTS
  Workers,      \* session worker processes
  None,         \* nobody
  Reads,        \* whether the instance has a page worker
  MaxAttempts,  \* bound: login attempts
  MaxRevokes,   \* bound: revocations
  MaxFaults     \* bound: crashes, lost locks, lost alerts, failed commits

ASSUME BoundsAssumption ==
  Reads \in BOOLEAN /\ MaxAttempts \in Nat /\ MaxRevokes \in Nat /\ MaxFaults \in Nat

ASSUME NobodyIsNoWorker == None \notin Workers

Attempts       == 1 .. MaxAttempts
ActiveAttempts == {"queued", "qr_pending", "verifying"}
Opened         == {"qr_pending", "verifying"}

\* The origin of stored credentials: nothing, the private file of the command
\* line tool, or a login attempt.  Later logins have greater origins.
Nothing     == 0
LocalFile   == 1
Origin(a)   == a + 1
Origins     == 0 .. (MaxAttempts + 1)

VARIABLES
  ses,      \* SourceSession row
  att,      \* LoginAttempt rows in creation order
  file,     \* the configured local session file exists
  rt,       \* status of the source runtime
  run,      \* status of the source's crawl run
  reader,   \* page worker that reads with the credentials
  alert,    \* the waiting_login alert is active
  wk,       \* session worker processes
  lock,     \* holder of the session worker advisory lock
  revokes,  \* revocations so far
  barred,   \* history: the least origin not revoked
  known,    \* history: credentials have been stored or revoked
  faults    \* faults so far

row   == <<ses, att>>
pages == <<rt, run, reader>>
hist  == <<revokes, barred, known>>
vars  == <<row, file, pages, alert, wk, lock, hist, faults>>

NoAttempt == [status |-> "absent", gen |-> 0, qr |-> FALSE, due |-> FALSE]
NoJob     == [kind |-> "none", step |-> "none", gen |-> 0, att |-> 0, from |-> Nothing]
Stopped   == [pc |-> "off", job |-> NoJob, notes |-> {}, late |-> FALSE]
NoReader  == [pc |-> "off", current |-> FALSE, from |-> Nothing]

SessionRow == [status: {"unauthenticated", "qr_pending", "verifying", "authenticated",
                        "expired", "failed", "revoked"},
               gen: Nat, enc: Origins, validated: BOOLEAN, old: BOOLEAN, revoked: BOOLEAN]
AttemptRow == [status: ActiveAttempts \cup {"absent", "authenticated", "expired", "failed",
                        "cancelled"},
               gen: Nat, qr: BOOLEAN, due: BOOLEAN]
Job        == [kind: {"none", "login", "verify"},
               step: {"none", "qr", "confirm", "domains", "fresh", "notify", "done"},
               gen: Nat, att: Attempts \cup {0}, from: Origins]

TypeOK ==
  /\ ses \in SessionRow
  /\ att \in [Attempts -> AttemptRow]
  /\ file \in BOOLEAN
  /\ rt \in {"idle", "waiting_login"}
  /\ run \in {"queued", "running", "waiting_login"}
  /\ reader \in [pc: {"off", "claimed", "reading"}, current: BOOLEAN, from: Origins]
  /\ alert \in BOOLEAN
  /\ wk \in [Workers -> [pc: {"off", "boot", "running", "stopping"}, job: Job,
                         notes: SUBSET {"raised", "resolved"}, late: BOOLEAN]]
  /\ lock \in Workers \cup {None}
  /\ revokes \in Nat /\ barred \in Nat /\ known \in BOOLEAN /\ faults \in Nat

Init ==
  /\ ses = [status |-> "unauthenticated", gen |-> 0, enc |-> Nothing,
            validated |-> FALSE, old |-> FALSE, revoked |-> FALSE]
  /\ att = [a \in Attempts |-> NoAttempt]
  /\ file = TRUE
  /\ rt = "idle" /\ run = "queued" /\ reader = NoReader
  /\ alert = FALSE
  /\ wk = [w \in Workers |-> Stopped]
  /\ lock = None
  /\ revokes = 0 /\ barred = Nothing /\ known = FALSE /\ faults = 0

Live(t) == t.status \in ActiveAttempts
Created == {a \in Attempts : att[a].status # "absent"}

\* Mutant of Ended: the QR image stays in the finished row.
EndedWithQr(t, status) == [NoAttempt EXCEPT !.status = status, !.qr = t.qr]

\* A finished attempt has no QR; its generation and expiry are not read again.
Ended(t, status) == [NoAttempt EXCEPT !.status = status]

\* updated_at = now: the recheck counts from it while validated_at is null.
Touch(s) == [s EXCEPT !.old = @ /\ s.validated]

(***************************************************************************)
(* expire_attempts, run first by every handler but revoke_session, the     *)
(* failed recheck and _discard_contexts: the rows as it leaves them.       *)
(***************************************************************************)
Overdue == {a \in Attempts : Live(att[a]) /\ att[a].due}

\* Mutant of ExpiredAttempts: the attempt is left to its browser.
ExpiredNever == att

ExpiredAttempts ==
  [a \in Attempts |-> IF a \in Overdue THEN Ended(att[a], "expired") ELSE att[a]]
ExpiredSession ==
  LET s == IF \E a \in Overdue : att[a].gen = ses.gen
             THEN [ses EXCEPT !.gen = @ + 1] ELSE ses
  IN IF Overdue # {} /\ s.status = "qr_pending"
       THEN Touch([s EXCEPT !.status = "expired"]) ELSE s

Expire == ses' = ExpiredSession /\ att' = ExpiredAttempts

(***************************************************************************)
(* Runs that wait for a login                                              *)
(***************************************************************************)

\* Mutant of PauseRuns: the runtime generation stays, so the reader goes on.
PauseRunsUnfenced == rt' = "waiting_login" /\ run' = "waiting_login" /\ UNCHANGED reader

\* pause_source_runs: runs wait and the page worker is fenced.
PauseRuns ==
  /\ rt' = "waiting_login"
  /\ run' = "waiting_login"
  /\ reader' = [reader EXCEPT !.current = FALSE]

\* The part of _publish_session that releases what waits for a login.
ReleaseRuns ==
  /\ rt' = "idle"
  /\ run' = IF run = "waiting_login" THEN "queued" ELSE run
  /\ UNCHANGED reader

(***************************************************************************)
(* The administrator                                                       *)
(***************************************************************************)

\* create_attempt and refresh_attempt with a new idempotency key.
NewAttempt ==
  \E a \in Attempts \ Created :
    /\ \A b \in Attempts \ Created : a <= b
    /\ LET s == ExpiredSession
       IN /\ ses' = Touch([s EXCEPT !.gen = @ + 1,
                !.status = IF @ = "authenticated" THEN @ ELSE "qr_pending"])
          /\ att' = [b \in Attempts |->
               IF b = a THEN [NoAttempt EXCEPT !.status = "queued", !.gen = s.gen + 1]
               ELSE IF Live(ExpiredAttempts[b]) THEN Ended(att[b], "cancelled")
               ELSE ExpiredAttempts[b]]
  /\ UNCHANGED <<file, pages, alert, wk, lock, hist, faults>>

\* get_attempt, get_qr, and a repeated idempotency key.
PollAttempt ==
  /\ Created # {}
  /\ Expire
  /\ UNCHANGED <<file, pages, alert, wk, lock, hist, faults>>

\* The rows with attempt a cancelled; a bump of generation stops its browser.
CancelledSession(s, a) ==
  IF att[a].gen = s.gen
    THEN Touch([s EXCEPT !.gen = @ + 1,
           !.status = IF @ = "qr_pending" THEN "unauthenticated" ELSE @])
    ELSE s

CancelAttempt(a) ==
  /\ a \in Created
  /\ IF Live(ExpiredAttempts[a])
       THEN /\ ses' = CancelledSession(ExpiredSession, a)
            /\ att' = [ExpiredAttempts EXCEPT ![a] = Ended(@, "cancelled")]
       ELSE Expire
  /\ UNCHANGED <<file, pages, alert, wk, lock, hist, faults>>

RevokedSession ==
  [ses EXCEPT !.gen = @ + 1, !.status = "revoked", !.enc = Nothing,
              !.validated = FALSE, !.old = FALSE, !.revoked = TRUE]

\* revoke_session; when the file cannot be removed nothing is committed.
RevokeSession ==
  /\ revokes < MaxRevokes
  /\ ses' = RevokedSession
  /\ att' = [a \in Attempts |-> IF Live(att[a]) THEN Ended(att[a], "cancelled") ELSE att[a]]
  /\ PauseRuns
  /\ file' = FALSE
  /\ revokes' = revokes + 1
  /\ barred' = Origin(Cardinality(Created)) + 1
  /\ known' = TRUE
  /\ UNCHANGED <<alert, wk, lock, faults>>

\* revoke_session removed the file and then could not commit.
RevokeLost ==
  /\ file /\ faults < MaxFaults
  /\ file' = FALSE
  /\ faults' = faults + 1
  /\ UNCHANGED <<row, pages, alert, wk, lock, hist>>

(***************************************************************************)
(* The session worker: one event loop, at most one job for the source      *)
(***************************************************************************)

job(w) == wk[w].job
\* run asks its connection every second and a browser takes longer for a step:
\* without the lock a job ends one more step before the worker stops.
Step(w, s) ==
  wk' = [wk EXCEPT ![w].job.step = s, ![w].late = lock # w]
Notify(w, note) ==
  wk' = [wk EXCEPT ![w].job.step = "notify", ![w].notes = @ \cup {note},
                   ![w].late = lock # w]

\* run: the advisory lock is taken or the process ends.
StartWorker(w) ==
  /\ wk[w].pc = "off" /\ lock = None
  /\ lock' = w
  /\ wk' = [wk EXCEPT ![w] = [Stopped EXCEPT !.pc = "boot"]]
  /\ UNCHANGED <<row, file, pages, alert, hist, faults>>

\* The attempt whose browser the restart lost.
LostAttempts(t) == {a \in Attempts : t[a].status \in Opened}

MayImport(s) == file /\ s.enc = Nothing /\ s.gen = 0 /\ ~s.revoked

\* bootstrap
Bootstrap(w) ==
  /\ wk[w].pc = "boot"
  /\ LET t    == ExpiredAttempts
         bump == \E a \in LostAttempts(t) : t[a].gen = ExpiredSession.gen
         s    == [ExpiredSession EXCEPT !.gen = IF bump THEN @ + 1 ELSE @]
     IN \E import \in {FALSE, MayImport(s)} :
          LET enc == IF import THEN LocalFile ELSE s.enc
          IN /\ ses' = [s EXCEPT !.enc = enc, !.old = @ /\ s.validated /\ enc = Nothing,
                          !.validated = @ /\ enc = Nothing,
                          !.status = IF enc # Nothing THEN "verifying"
                                     ELSE IF @ = "revoked" THEN @ ELSE "unauthenticated"]
             /\ att' = [a \in Attempts |->
                          IF a \in LostAttempts(t) THEN Ended(t[a], "failed") ELSE t[a]]
             /\ known' = (known \/ import)
             /\ IF enc # Nothing \/ s.revoked THEN PauseRuns ELSE UNCHANGED pages
  /\ wk' = [wk EXCEPT ![w].pc = "running"]
  /\ UNCHANGED <<file, alert, lock, revokes, barred, faults>>

\* Mutant of RecheckDue: a session that was not validated is not looked at again.
RecheckAged(s) == s.enc # Nothing /\ s.status # "revoked" /\ s.validated /\ s.old

RecheckDue(s) == s.enc # Nothing /\ s.status # "revoked" /\ (s.status = "verifying" \/ s.old)

Waiting(t) == {a \in Attempts : t[a].status = "queued"}

\* The job _schedule gives an idle source: a login before a recheck.
NextJob(s, t) ==
  IF \E a \in Waiting(t) : (\A b \in Waiting(t) : a <= b) /\ t[a].gen = s.gen
    THEN LET a == CHOOSE a \in Waiting(t) : \A b \in Waiting(t) : a <= b
         IN [kind |-> "login", step |-> "qr", gen |-> s.gen, att |-> a, from |-> Origin(a)]
  ELSE IF RecheckDue(s)
    THEN [kind |-> "verify", step |-> "domains", gen |-> s.gen, att |-> 0, from |-> s.enc]
  ELSE NoJob

\* One round of run: SELECT 1 on the owning connection, finished jobs are
\* forgotten, and an idle source is given a job.
Loop(w) ==
  /\ wk[w].pc = "running"
  /\ IF lock # w
       THEN wk' = [wk EXCEPT ![w].pc = "stopping"] /\ UNCHANGED row
     ELSE IF job(w).step \in {"none", "done"}
       THEN /\ Expire
            /\ wk' = [wk EXCEPT ![w].job = NextJob(ExpiredSession, ExpiredAttempts)]
     ELSE UNCHANGED <<wk, row>>
  /\ UNCHANGED <<file, pages, alert, lock, hist, faults>>

\* The attempt is still the one this job was started for.
OwnsAttempt(j, s, t) == s.gen = j.gen /\ Live(t[j.att])

\* _current
Current(j, s, t) ==
  IF j.kind = "login" THEN OwnsAttempt(j, s, t) ELSE s.gen = j.gen /\ s.status # "revoked"

\* _guard, every second: a job that is no longer current is cancelled.  What it
\* has handed to a thread (emit_alert) goes on.
Guard(w) ==
  /\ wk[w].pc = "running" /\ job(w).step \notin {"none", "done"}
  /\ Expire
  /\ IF Current(job(w), ExpiredSession, ExpiredAttempts) THEN UNCHANGED wk ELSE Step(w, "done")
  /\ UNCHANGED <<file, pages, alert, lock, hist, faults>>

InLogin(w, s) == wk[w].pc = "running" /\ job(w).kind = "login" /\ job(w).step = s

\* _publish_qr, once the site has shown its QR code.
PublishQr(w) ==
  /\ InLogin(w, "qr")
  /\ ses' = ExpiredSession
  /\ IF OwnsAttempt(job(w), ExpiredSession, ExpiredAttempts)
       THEN /\ att' = [ExpiredAttempts EXCEPT ![job(w).att].status = "qr_pending",
                                              ![job(w).att].qr = TRUE]
            /\ Step(w, "confirm")
       ELSE att' = ExpiredAttempts /\ Step(w, "done")
  /\ UNCHANGED <<file, pages, alert, lock, hist, faults>>

\* _confirming, once the telephone has confirmed: the QR is used up.
Confirming(w) ==
  /\ InLogin(w, "confirm")
  /\ ses' = ExpiredSession
  /\ IF ExpiredSession.gen = job(w).gen /\ ExpiredAttempts[job(w).att].status = "qr_pending"
       THEN /\ att' = [ExpiredAttempts EXCEPT
                         ![job(w).att] = [@ EXCEPT !.status = "verifying", !.qr = FALSE]]
            /\ Step(w, "domains")
       ELSE att' = ExpiredAttempts /\ Step(w, "done")
  /\ UNCHANGED <<file, pages, alert, lock, hist, faults>>

\* Both domains answered; a fresh browser must log in from the saved state.
OpenFresh(w) ==
  /\ InLogin(w, "domains")
  /\ Step(w, "fresh")
  /\ UNCHANGED <<row, file, pages, alert, lock, hist, faults>>

\* _finish_attempt after any failure of the browser (failed stands for
\* action_required too); the alert follows even when the attempt was no
\* longer this job's.
FinishAttempt(w) ==
  /\ \E s \in {"qr", "confirm", "domains", "fresh"} : InLogin(w, s)
  /\ IF OwnsAttempt(job(w), ExpiredSession, ExpiredAttempts)
       THEN /\ att' = [ExpiredAttempts EXCEPT ![job(w).att] = Ended(@, "failed")]
            /\ ses' = IF ExpiredSession.status = "authenticated" THEN ExpiredSession
                      ELSE Touch([ExpiredSession EXCEPT !.status = "failed"])
       ELSE Expire
  /\ Notify(w, "raised")
  /\ UNCHANGED <<file, pages, alert, lock, hist, faults>>

\* The rows _publish_session writes.
Published(s, from) ==
  [s EXCEPT !.enc = from, !.status = "authenticated", !.validated = TRUE,
            !.old = FALSE, !.revoked = FALSE]

\* _publish_session of a login
PublishLogin(w) ==
  /\ InLogin(w, "fresh")
  /\ IF ExpiredSession.gen = job(w).gen /\ ExpiredAttempts[job(w).att].status = "verifying"
       THEN /\ ses' = Published(ExpiredSession, job(w).from)
            /\ att' = [ExpiredAttempts EXCEPT ![job(w).att] = Ended(@, "authenticated")]
            /\ ReleaseRuns
            /\ known' = TRUE
            /\ Notify(w, "resolved")
       ELSE Expire /\ Step(w, "done") /\ UNCHANGED <<pages, known>>
  /\ UNCHANGED <<file, alert, lock, revokes, barred, faults>>

\* Mutant of MayConfirm: a recheck writes back whatever became of the session.
ConfirmsAnyway(j, s) == s.status # "revoked"

MayConfirm(j, s) == s.gen = j.gen /\ s.status # "revoked"

\* Mutant of TellRecheck: a good recheck says nothing.
TellNothing(w, note) ==
  IF note = "resolved" THEN Step(w, "done") ELSE Notify(w, note)

TellRecheck(w, note) == Notify(w, note)

\* _publish_session of a recheck; when the session is revoked it returns
\* without a commit.
ConfirmSession(w) ==
  /\ wk[w].pc = "running" /\ job(w).kind = "verify" /\ job(w).step = "domains"
  /\ IF MayConfirm(job(w), ExpiredSession)
       THEN /\ ses' = Published(ExpiredSession, job(w).from)
            /\ att' = ExpiredAttempts
            /\ ReleaseRuns
            /\ TellRecheck(w, "resolved")
       ELSE /\ IF ExpiredSession.gen = job(w).gen THEN UNCHANGED row ELSE Expire
            /\ Step(w, "done") /\ UNCHANGED pages
  /\ UNCHANGED <<file, alert, lock, hist, faults>>

\* The failed end of _verify.
RejectSession(w) ==
  /\ wk[w].pc = "running" /\ job(w).kind = "verify" /\ job(w).step = "domains"
  /\ IF MayConfirm(job(w), ses)
       THEN /\ \E status \in {"expired", "failed"} :
                 ses' = [ses EXCEPT !.status = status, !.validated = FALSE, !.old = FALSE]
            /\ PauseRuns
            /\ TellRecheck(w, "raised")
       ELSE Step(w, "done") /\ UNCHANGED <<ses, pages>>
  /\ UNCHANGED <<att, file, alert, lock, hist, faults>>

\* The job's own alert has been written (or given up).
Notified(w) ==
  /\ wk[w].pc = "running" /\ job(w).step = "notify" /\ wk[w].notes = {}
  /\ Step(w, "done")
  /\ UNCHANGED <<row, file, pages, alert, lock, hist, faults>>

\* persist_alert in a thread of the worker
WriteAlert(w) ==
  \E note \in wk[w].notes :
    /\ alert' = (note = "raised")
    /\ wk' = [wk EXCEPT ![w].notes = @ \ {note}]
    /\ UNCHANGED <<row, file, pages, lock, hist, faults>>

\* SIGTERM: stop is set; the jobs are cancelled.
StopWorker(w) ==
  /\ wk[w].pc = "running"
  /\ faults < MaxFaults /\ faults' = faults + 1
  /\ wk' = [wk EXCEPT ![w].pc = "stopping"]
  /\ UNCHANGED <<row, file, pages, alert, lock, hist>>

\* _discard_contexts, on connections of its own, and the end of run.  It fails
\* whatever attempt is open now, also one of a worker that has taken over.
DiscardContexts(w) ==
  /\ wk[w].pc = "stopping"
  /\ IF job(w).kind = "none" THEN UNCHANGED row
     ELSE LET bump == \E a \in LostAttempts(att) : att[a].gen = ses.gen
              s    == [ses EXCEPT !.gen = IF bump THEN @ + 1 ELSE @]
          IN /\ att' = [a \in Attempts |->
                   IF a \in LostAttempts(att) THEN Ended(att[a], "failed") ELSE att[a]]
             /\ ses' = IF ses.status = "qr_pending"
                         THEN Touch([s EXCEPT !.status = "failed"]) ELSE s
  /\ wk' = [wk EXCEPT ![w] = [Stopped EXCEPT !.notes = wk[w].notes]]
  /\ lock' = IF lock = w THEN None ELSE lock
  /\ UNCHANGED <<file, pages, alert, hist, faults>>

(***************************************************************************)
(* Faults and time                                                         *)
(***************************************************************************)
Fault == faults < MaxFaults /\ faults' = faults + 1

CrashWorker(w) ==
  /\ Fault /\ wk[w].pc # "off"
  /\ wk' = [wk EXCEPT ![w] = Stopped]
  /\ lock' = IF lock = w THEN None ELSE lock
  /\ UNCHANGED <<row, file, pages, alert, hist>>

\* The connection that owns the advisory lock is lost.
LoseLock(w) ==
  /\ Fault /\ lock = w
  /\ lock' = None
  /\ UNCHANGED <<row, file, pages, alert, wk, hist>>

\* An alert that could not be persisted is only logged.
LoseAlert(w) ==
  /\ Fault
  /\ \E note \in wk[w].notes : wk' = [wk EXCEPT ![w].notes = @ \ {note}]
  /\ UNCHANGED <<row, file, pages, alert, lock, hist>>

\* expires_at passes.
AttemptDue(a) ==
  /\ Live(att[a]) /\ ~att[a].due
  /\ att' = [att EXCEPT ![a].due = TRUE]
  /\ UNCHANGED <<ses, file, pages, alert, wk, lock, hist, faults>>

\* RECHECK_INTERVAL passes.
SessionAges ==
  /\ ses.enc # Nothing /\ ~ses.old
  /\ ses' = [ses EXCEPT !.old = TRUE]
  /\ UNCHANGED <<att, file, pages, alert, wk, lock, hist, faults>>

(***************************************************************************)
(* The page worker                                                         *)
(***************************************************************************)

HasRuntimeSession ==
  \/ ses.status \in {"authenticated", "verifying", "revoked"}
  \/ ses.enc # Nothing \/ ses.validated \/ ses.revoked

\* A page of the source is claimed under the present runtime generation.
ClaimPage ==
  /\ Reads /\ reader.pc = "off" /\ rt = "idle" /\ run = "queued"
  /\ run' = "running"
  /\ reader' = [pc |-> "claimed", current |-> TRUE, from |-> Nothing]
  /\ UNCHANGED <<row, file, rt, alert, wk, lock, hist, faults>>

\* load_session of a validated session, not more than ten minutes old.
OpenPage ==
  /\ reader.pc = "claimed"
  /\ ses.status = "authenticated" /\ ses.enc # Nothing /\ ses.validated
  /\ reader' = [reader EXCEPT !.pc = "reading", !.from = ses.enc]
  /\ UNCHANGED <<row, file, rt, run, alert, wk, lock, hist, faults>>

\* News of a source without any credential is read without one.
OpenAnonymous ==
  /\ reader.pc = "claimed" /\ ~HasRuntimeSession
  /\ reader' = [reader EXCEPT !.pc = "reading"]
  /\ UNCHANGED <<row, file, rt, run, alert, wk, lock, hist, faults>>

\* waiting_login, from load_session or from the site; the generation fences
\* the failure of a page worker that was held back meanwhile.
PageNeedsLogin ==
  /\ reader.pc # "off"
  /\ reader' = NoReader
  /\ IF reader.current THEN rt' = "waiting_login" /\ run' = "waiting_login"
     ELSE UNCHANGED <<rt, run>>
  /\ UNCHANGED <<row, file, alert, wk, lock, hist, faults>>

\* persist_page commits what was read; the next page is due.
CommitPage ==
  /\ reader.pc = "reading" /\ reader.current
  /\ run' = "queued"
  /\ reader' = NoReader
  /\ UNCHANGED <<row, file, rt, alert, wk, lock, hist, faults>>

\* persist_page of a fenced page worker fails and the worker ends.
CommitRefused ==
  /\ reader.pc = "reading" /\ ~reader.current
  /\ reader' = NoReader
  /\ UNCHANGED <<row, file, rt, run, alert, wk, lock, hist, faults>>

Administrator ==
  \/ NewAttempt \/ PollAttempt \/ RevokeSession \/ RevokeLost
  \/ \E a \in Attempts : CancelAttempt(a)

Browser(w) ==
  /\ ~wk[w].late
  /\ \/ PublishQr(w) \/ Confirming(w) \/ OpenFresh(w) \/ FinishAttempt(w)
     \/ PublishLogin(w) \/ ConfirmSession(w) \/ RejectSession(w)

Process(w) ==
  \/ StartWorker(w) \/ Bootstrap(w) \/ Loop(w) \/ Guard(w) \/ Browser(w)
  \/ Notified(w) \/ WriteAlert(w) \/ DiscardContexts(w)

Time == SessionAges \/ \E a \in Attempts : AttemptDue(a)

Page ==
  \/ ClaimPage \/ OpenPage \/ OpenAnonymous \/ PageNeedsLogin
  \/ CommitPage \/ CommitRefused

Faults == \E w \in Workers : StopWorker(w) \/ CrashWorker(w) \/ LoseLock(w) \/ LoseAlert(w)

Next == Administrator \/ Time \/ Page \/ Faults \/ \E w \in Workers : Process(w)

Spec == Init /\ [][Next]_vars

(***************************************************************************)
(* A stopped worker is started again, a browser answers or fails within    *)
(* its timeouts, threads end and time passes.                              *)
(***************************************************************************)
FairSpec ==
  /\ Spec
  /\ WF_vars(SessionAges)
  /\ \A a \in Attempts : WF_vars(AttemptDue(a))
  /\ \A w \in Workers :
       /\ SF_vars(StartWorker(w)) /\ WF_vars(Bootstrap(w)) /\ WF_vars(Loop(w))
       /\ WF_vars(Guard(w)) /\ WF_vars(Browser(w)) /\ WF_vars(Notified(w))
       /\ WF_vars(WriteAlert(w)) /\ WF_vars(DiscardContexts(w))

(***************************************************************************)
(* Properties                                                              *)
(***************************************************************************)

\* At most one login attempt is open; it carries the generation of the
\* session row, which is what lets its browser write and stops every older
\* one; and only an attempt that shows its QR code stores one.
OneLiveAttempt ==
  \A a \in Attempts :
    /\ Live(att[a]) =>
         att[a].gen = ses.gen /\ \A b \in Attempts : Live(att[b]) => a = b
    /\ att[a].qr => att[a].status = "qr_pending"

\* A login that was revoked or replaced never comes back: credentials are only
\* replaced by those of a later login, and those stored after a revocation come
\* from a login attempt created after it, never from a recheck under way, an
\* older attempt or the local file (revoke_session, _publish_session).
OldLoginsStayOut ==
  [][ses'.enc # Nothing => ses'.enc >= ses.enc /\ ses'.enc >= barred']_vars

\* A page read with credentials that were revoked meanwhile is never
\* committed: pause_source_runs fences its worker.
RevokedReadsFenced ==
  reader.from # Nothing /\ reader.from < barred => ~reader.current

\* "Previously stored, invalid, or revoked credentials must instead pass the
\* strict loader; they never silently downgrade to anonymous access."
NeverAnonymousAgain == known => HasRuntimeSession

\* Every login attempt reaches a final status, whatever happens to its browser.
AttemptsSettle == \A a \in Attempts : Live(att[a]) ~> ~Live(att[a])

\* A saved session is looked at again, so what waits for a login does not
\* wait for ever beside credentials nobody has tried.
WaitingIsRechecked ==
  (run = "waiting_login" /\ ses.enc # Nothing) ~>
    (run # "waiting_login" \/ ses.status \in {"expired", "failed", "revoked"})

\* The waiting_login alert does not outlive the problem: once the session is
\* authenticated it is resolved, unless the session fails again first.
AlertFollows ==
  (alert /\ ses.status = "authenticated") ~> (~alert \/ ses.status # "authenticated")
=============================================================================
