------------------------- MODULE SourceSessionProofs -------------------------
(***************************************************************************)
(* What TLAPS proves of SourceSession for any number of workers, attempts  *)
(* and revocations: at most one attempt is open, a revoked login is        *)
(* neither stored again nor read with, nor is one that was replaced, and a *)
(* source whose credentials were known once is never read without any.     *)
(***************************************************************************)
EXTENDS SourceSession, FiniteSetTheorems, TLAPS

\* The statuses are those of the columns.
SessionStatuses == {"unauthenticated", "qr_pending", "verifying", "authenticated",
                    "expired", "failed", "revoked"}

\* Attempts are created in order, the open one is the only one of the session's
\* generation, and whatever may still be opened is of a later login than those
\* that were revoked.
RowsFit(s, t, bar) ==
  /\ s \in SessionRow /\ t \in [Attempts -> AttemptRow] /\ bar \in Nat
  /\ \A a, b \in Attempts :
       t[a].status # "absent" /\ t[b].status = "absent" => a < b
  /\ \A a \in Attempts :
       /\ Live(t[a]) => t[a].gen = s.gen /\ \A b \in Attempts : Live(t[b]) => a = b
       /\ t[a].qr => t[a].status = "qr_pending"
       /\ Live(t[a]) \/ t[a].status = "absent" => Origin(a) >= bar
  /\ s.enc # Nothing => s.enc >= bar
  /\ s.gen = 0 => bar = 0

\* A job is of a generation of the past or the present; a recheck of the present
\* one has credentials that were not revoked since.
JobFits(j, g, bar) ==
  /\ j.kind = "login" => j.att \in Attempts /\ j.from = Origin(j.att)
  /\ j.kind # "none" => j.gen <= g
  /\ j.kind = "verify" /\ j.gen = g => j.from # Nothing /\ j.from >= bar

Worker == [pc: {"off", "boot", "running", "stopping"}, job: Job,
           notes: SUBSET {"raised", "resolved"}, late: BOOLEAN]

WorkersFit(p, g, bar) ==
  /\ p \in [Workers -> Worker]
  /\ \A w \in Workers : JobFits(p[w].job, g, bar)

\* What was stored or revoked once can be seen in the row.
Traced(s, k) == k \in BOOLEAN /\ (k => s.enc # Nothing \/ s.revoked)

Reader == [pc: {"off", "claimed", "reading"}, current: BOOLEAN, from: Origins]

ReaderFits(r, bar) ==
  r \in Reader /\ (r.from # Nothing /\ r.from < bar => ~r.current)

PlacesFit(a, b) == a \in {"idle", "waiting_login"} /\ b \in {"queued", "running", "waiting_login"}

RestFits == file \in BOOLEAN /\ alert \in BOOLEAN /\ revokes \in Nat /\ faults \in Nat
            /\ lock \in Workers \cup {None}

SessionInv ==
  /\ RowsFit(ses, att, barred) /\ WorkersFit(wk, ses.gen, barred)
  /\ Traced(ses, known) /\ ReaderFits(reader, barred) /\ PlacesFit(rt, run) /\ RestFits

-----------------------------------------------------------------------------
(* The rows *)

LEMMA OriginsType ==
  /\ Attempts \subseteq Nat /\ Nothing \in Origins /\ LocalFile \in Origins
  /\ \A a \in Attempts : Origin(a) \in Origins /\ Origin(a) # Nothing
  BY BoundsAssumption DEF Attempts, Nothing, LocalFile, Origins, Origin

LEMMA EndedType ==
  ASSUME NEW t \in AttemptRow,
         NEW status \in {"authenticated", "expired", "failed", "cancelled"}
  PROVE  /\ Ended(t, status) \in AttemptRow /\ ~Live(Ended(t, status))
         /\ Ended(t, status).status = status /\ ~Ended(t, status).qr
  BY DEF Ended, NoAttempt, AttemptRow, Live, ActiveAttempts

LEMMA SetOld ==
  ASSUME NEW s \in SessionRow, NEW x \in BOOLEAN
  PROVE  [s EXCEPT !.old = x] \in SessionRow
  BY DEF SessionRow

LEMMA TouchType ==
  ASSUME NEW s \in SessionRow
  PROVE  /\ Touch(s) \in SessionRow /\ Touch(s).gen = s.gen
         /\ Touch(s).enc = s.enc /\ Touch(s).revoked = s.revoked
  <1>1. s.old \in BOOLEAN /\ s.validated \in BOOLEAN
    BY DEF SessionRow
  <1>2. (s.old /\ s.validated) \in BOOLEAN
    BY <1>1
  <1>3. Touch(s) \in SessionRow
    BY <1>2, SetOld DEF Touch
  <1>4. QED
    BY <1>3 DEF Touch, SessionRow

\* What expire_attempts leaves: an attempt that is still open is untouched, and
\* then so is the generation.
LEMMA ExpiredFacts ==
  ASSUME RowsFit(ses, att, barred)
  PROVE  /\ ExpiredSession \in SessionRow
         /\ ExpiredSession.gen >= ses.gen
         /\ ExpiredSession.enc = ses.enc /\ ExpiredSession.revoked = ses.revoked
         /\ ExpiredAttempts \in [Attempts -> AttemptRow]
         /\ \A a \in Attempts :
              /\ \/ ExpiredAttempts[a] = att[a]
                 \/ Live(att[a]) /\ ExpiredAttempts[a] = Ended(att[a], "expired")
              /\ Live(ExpiredAttempts[a]) => /\ ExpiredAttempts[a] = att[a]
                                             /\ ExpiredSession.gen = ses.gen
  <1> USE DEF RowsFit
  <1>1. \A a \in Attempts : att[a] \in AttemptRow
    OBVIOUS
  <1>2. ASSUME NEW a \in Attempts, a \in Overdue
        PROVE  Live(att[a])
    BY <1>2 DEF Overdue
  <1>3. ASSUME NEW a \in Attempts, Live(ExpiredAttempts[a])
        PROVE  ExpiredAttempts[a] = att[a] /\ Overdue = {}
    <2>1. a \notin Overdue /\ ExpiredAttempts[a] = att[a]
      BY <1>3, <1>1, EndedType DEF ExpiredAttempts
    <2>2. ASSUME NEW b \in Overdue PROVE FALSE
      BY <2>1, <2>2, <1>3, <1>2 DEF Overdue
    <2>3. QED
      BY <2>1, <2>2
  <1>4. ExpiredAttempts \in [Attempts -> AttemptRow]
    BY <1>1, EndedType DEF ExpiredAttempts
  <1>5. /\ ExpiredSession \in SessionRow /\ ExpiredSession.gen >= ses.gen
        /\ ExpiredSession.enc = ses.enc /\ ExpiredSession.revoked = ses.revoked
        /\ Overdue = {} => ExpiredSession.gen = ses.gen
    <2> DEFINE s == IF \E a \in Overdue : att[a].gen = ses.gen
                      THEN [ses EXCEPT !.gen = @ + 1] ELSE ses
    <2>1. /\ s \in SessionRow /\ s.gen >= ses.gen /\ s.enc = ses.enc
          /\ s.revoked = ses.revoked
          /\ Overdue = {} => s.gen = ses.gen
      BY DEF SessionRow
    <2> DEFINE e == [s EXCEPT !.status = "expired"]
    <2>2. ExpiredSession = IF Overdue # {} /\ s.status = "qr_pending" THEN Touch(e) ELSE s
      BY DEF ExpiredSession
    <2> HIDE DEF s
    <2>3. e \in SessionRow /\ e.gen = s.gen /\ e.enc = s.enc /\ e.revoked = s.revoked
      BY <2>1 DEF SessionRow
    <2> HIDE DEF e
    <2>4. CASE Overdue # {} /\ s.status = "qr_pending"
      <3>1. /\ ExpiredSession \in SessionRow /\ ExpiredSession.gen = s.gen
            /\ ExpiredSession.enc = s.enc /\ ExpiredSession.revoked = s.revoked
        BY <2>2, <2>3, <2>4, TouchType
      <3>2. QED
        BY <2>1, <2>4, <3>1
    <2>5. CASE ~(Overdue # {} /\ s.status = "qr_pending")
      BY <2>1, <2>2, <2>5
    <2>6. QED
      BY <2>4, <2>5
  <1>6. QED
    BY <1>2, <1>3, <1>4, <1>5 DEF ExpiredAttempts

LEMMA ExpiredFits ==
  ASSUME RowsFit(ses, att, barred)
  PROVE  RowsFit(ExpiredSession, ExpiredAttempts, barred)
  <1>1. \A a \in Attempts :
          /\ ExpiredAttempts[a].status = "absent" <=> att[a].status = "absent"
          /\ ExpiredAttempts[a].qr => ExpiredAttempts[a].status = "qr_pending"
    BY ExpiredFacts, EndedType DEF RowsFit, Live, ActiveAttempts
  <1>2. ses.gen \in Nat /\ ExpiredSession.gen \in Nat
    BY ExpiredFacts DEF RowsFit, SessionRow
  <1>3. ExpiredSession.gen = 0 => barred = 0
    BY <1>2, ExpiredFacts DEF RowsFit
  <1>4. \A a \in Attempts :
          Live(ExpiredAttempts[a]) =>
            /\ Live(att[a]) /\ ExpiredAttempts[a].gen = ExpiredSession.gen
            /\ \A b \in Attempts : Live(ExpiredAttempts[b]) => a = b
    BY ExpiredFacts DEF RowsFit
  <1>5. QED
    BY <1>1, <1>3, <1>4, ExpiredFacts DEF RowsFit

\* Rows stay fit while attempts end or go on in their own generation.
LEMMA RowsGoOn ==
  ASSUME NEW s, NEW t, NEW bar, RowsFit(s, t, bar),
         NEW s2 \in SessionRow, NEW t2 \in [Attempts -> AttemptRow],
         s2.gen >= s.gen, s2.enc # Nothing => s2.enc >= bar,
         \A a \in Attempts :
           /\ t2[a].status = "absent" <=> t[a].status = "absent"
           /\ t2[a].qr => t2[a].status = "qr_pending"
           /\ Live(t2[a]) => Live(t[a]) /\ t2[a].gen = t[a].gen /\ s2.gen = s.gen
  PROVE  RowsFit(s2, t2, bar)
  <1>1. s.gen \in Nat /\ s2.gen \in Nat
    BY DEF RowsFit, SessionRow
  <1>2. s2.gen = 0 => bar = 0
    BY <1>1 DEF RowsFit
  <1>3. QED
    BY <1>2 DEF RowsFit

\* The generation grows past what jobs hold.
LEMMA GrowthFits ==
  ASSUME NEW g \in Nat, NEW h \in Nat, h >= g, NEW bar \in Nat, WorkersFit(wk, g, bar)
  PROVE  WorkersFit(wk, h, bar)
  BY DEF WorkersFit, JobFits, Worker, Job

\* The steps of a worker's job.
Steps == {"none", "qr", "confirm", "domains", "fresh", "notify", "done"}

LEMMA WorkerChanges ==
  ASSUME NEW g \in Nat, NEW bar \in Nat, WorkersFit(wk, g, bar), NEW w \in Workers,
         NEW r \in Worker, JobFits(r.job, g, bar), wk' = [wk EXCEPT ![w] = r]
  PROVE  WorkersFit(wk', g, bar)
  BY DEF WorkersFit

\* A step of a job leaves it its generation and its attempt.
LEMMA StepFits ==
  ASSUME NEW g \in Nat, NEW bar \in Nat, WorkersFit(wk, g, bar), NEW w \in Workers,
         NEW s \in Steps, Step(w, s) \/ \E note \in {"raised", "resolved"} : Notify(w, note)
  PROVE  WorkersFit(wk', g, bar)
  <1>1. wk[w] \in Worker /\ wk[w].job \in Job
    BY DEF WorkersFit, Worker
  <1>2. ASSUME NEW x \in Steps, NEW n \in SUBSET {"raised", "resolved"}, NEW l \in BOOLEAN,
               wk' = [wk EXCEPT ![w] = [wk[w] EXCEPT !.job = [@ EXCEPT !.step = x],
                                                     !.notes = n, !.late = l]]
        PROVE  WorkersFit(wk', g, bar)
    <2> DEFINE j == [wk[w].job EXCEPT !.step = x]
               r == [wk[w] EXCEPT !.job = j, !.notes = n, !.late = l]
    <2>1. /\ j \in Job /\ j.kind = wk[w].job.kind /\ j.gen = wk[w].job.gen
          /\ j.att = wk[w].job.att /\ j.from = wk[w].job.from
      BY <1>1 DEF Job, Steps
    <2> HIDE DEF j
    <2>2. r \in Worker /\ r.job = j
      BY <1>1, <2>1 DEF Worker
    <2>3. wk' = [wk EXCEPT ![w] = r]
      BY <1>2 DEF j
    <2> HIDE DEF r
    <2>4. JobFits(r.job, g, bar)
      BY <2>1, <2>2 DEF WorkersFit, JobFits
    <2>5. QED
      BY <2>2, <2>3, <2>4, WorkerChanges
  <1>3. CASE Step(w, s)
    <2>1. (lock # w) \in BOOLEAN
      OBVIOUS
    <2>2. wk[w].notes \in SUBSET {"raised", "resolved"}
      BY <1>1 DEF Worker
    <2>3. wk' = [wk EXCEPT ![w] = [wk[w] EXCEPT !.job = [@ EXCEPT !.step = s],
                                      !.notes = wk[w].notes, !.late = lock # w]]
      BY <1>1, <1>3 DEF Step, WorkersFit, Worker
    <2>4. QED
      BY <1>2, <2>1, <2>2, <2>3
  <1>4. ASSUME NEW note \in {"raised", "resolved"}, Notify(w, note)
        PROVE  WorkersFit(wk', g, bar)
    <2>1. (lock # w) \in BOOLEAN
      OBVIOUS
    <2>2. wk[w].notes \cup {note} \in SUBSET {"raised", "resolved"}
      BY <1>1 DEF Worker
    <2>3. wk' = [wk EXCEPT ![w] = [wk[w] EXCEPT !.job = [@ EXCEPT !.step = "notify"],
                                      !.notes = wk[w].notes \cup {note}, !.late = lock # w]]
      BY <1>1, <1>4 DEF Notify, WorkersFit, Worker
    <2>4. "notify" \in Steps
      BY DEF Steps
    <2>5. QED
      BY <1>2, <2>1, <2>2, <2>3, <2>4
  <1>5. QED
    BY <1>3, <1>4

-----------------------------------------------------------------------------
(* The administrator *)

\* What a step needs to show that leaves the rows as expire_attempts does, but
\* for attempts that end or go on and a session that is stored or moves on.
LEMMA RowStep ==
  ASSUME SessionInv,
         ses' \in SessionRow, att' \in [Attempts -> AttemptRow],
         ses'.gen >= ExpiredSession.gen, ses'.enc # Nothing => ses'.enc >= barred,
         \A a \in Attempts :
           /\ att'[a].status = "absent" <=> att[a].status = "absent"
           /\ att'[a].qr => att'[a].status = "qr_pending"
           /\ Live(att'[a]) => /\ Live(ExpiredAttempts[a])
                               /\ att'[a].gen = ExpiredAttempts[a].gen
                               /\ ses'.gen = ExpiredSession.gen,
         UNCHANGED barred
  PROVE  /\ RowsFit(ses', att', barred') /\ barred' \in Nat
         /\ ses'.gen \in Nat /\ ses'.gen >= ses.gen
         /\ WorkersFit(wk, ses'.gen, barred')
  <1>1. RowsFit(ses, att, barred) /\ WorkersFit(wk, ses.gen, barred)
    BY DEF SessionInv
  <1>2. RowsFit(ExpiredSession, ExpiredAttempts, barred)
    BY <1>1, ExpiredFits
  <1>3. /\ ses.gen \in Nat /\ ExpiredSession.gen \in Nat /\ ses'.gen \in Nat
        /\ ses'.gen >= ses.gen /\ barred \in Nat
    BY <1>1, ExpiredFacts DEF RowsFit, SessionRow
  <1>4. \A a \in Attempts : ExpiredAttempts[a].status = "absent" <=> att[a].status = "absent"
    BY <1>1, ExpiredFacts, EndedType DEF Live, ActiveAttempts, RowsFit
  <1>5. RowsFit(ses', att', barred)
    BY <1>2, <1>4, RowsGoOn
  <1>6. WorkersFit(wk, ses'.gen, barred)
    BY <1>1, <1>3, GrowthFits
  <1>7. QED
    BY <1>3, <1>5, <1>6

\* The attempts as expire_attempts leaves them can stay.
LEMMA ExpiredStay ==
  ASSUME SessionInv
  PROVE  /\ RowsFit(ExpiredSession, ExpiredAttempts, barred)
         /\ ExpiredSession \in SessionRow /\ ExpiredSession.gen \in Nat
         /\ ExpiredSession.enc = ses.enc /\ ExpiredSession.revoked = ses.revoked
         /\ ExpiredAttempts \in [Attempts -> AttemptRow]
         /\ ses.enc # Nothing => ses.enc >= barred
         /\ \A a \in Attempts :
              /\ ExpiredAttempts[a].status = "absent" <=> att[a].status = "absent"
              /\ ExpiredAttempts[a].qr => ExpiredAttempts[a].status = "qr_pending"
  <1>1. RowsFit(ses, att, barred)
    BY DEF SessionInv
  <1>2. RowsFit(ExpiredSession, ExpiredAttempts, barred)
    BY <1>1, ExpiredFits
  <1>3. \A a \in Attempts :
          /\ ExpiredAttempts[a].status = "absent" <=> att[a].status = "absent"
          /\ ExpiredAttempts[a].qr => ExpiredAttempts[a].status = "qr_pending"
    BY <1>1, <1>2, ExpiredFacts, EndedType DEF Live, ActiveAttempts, RowsFit
  <1>4. ExpiredSession.gen \in Nat
    BY <1>1, ExpiredFacts DEF SessionRow
  <1>5. QED
    BY <1>1, <1>2, <1>3, <1>4, ExpiredFacts DEF RowsFit

\* expire_attempts alone.
LEMMA ExpireStep ==
  ASSUME SessionInv, Expire, UNCHANGED barred
  PROVE  /\ RowsFit(ses', att', barred') /\ barred' \in Nat
         /\ ses'.gen \in Nat /\ ses'.gen >= ses.gen
         /\ WorkersFit(wk, ses'.gen, barred') /\ Traced(ses', known)
         /\ ses'.enc = ses.enc
  <1>1. ses' = ExpiredSession /\ att' = ExpiredAttempts
    BY DEF Expire
  <1>2. Traced(ses', known)
    BY <1>1, ExpiredStay DEF SessionInv, Traced
  <1>3. ses'.gen >= ExpiredSession.gen
    BY <1>1, ExpiredStay
  <1>4. QED
    BY <1>1, <1>2, <1>3, ExpiredStay, RowStep

LEMMA SameRest ==
  ASSUME SessionInv, UNCHANGED <<file, pages, alert, lock, revokes, barred, faults>>
  PROVE  ReaderFits(reader', barred') /\ PlacesFit(rt', run') /\ RestFits'
  BY DEF SessionInv, ReaderFits, PlacesFit, RestFits, pages

LEMMA PollAttemptInv == SessionInv /\ PollAttempt => SessionInv'
  <1> SUFFICES ASSUME SessionInv, PollAttempt PROVE SessionInv'
    OBVIOUS
  <1>1. Expire /\ UNCHANGED <<file, pages, alert, wk, lock, revokes, barred, known, faults>>
    BY DEF PollAttempt, hist
  <1>2. QED
    BY <1>1, ExpireStep, SameRest DEF SessionInv

LEMMA OpenedRow ==
  ASSUME NEW t \in AttemptRow, NEW g \in Nat
  PROVE  LET n == [t EXCEPT !.status = "queued", !.gen = g]
         IN  n \in AttemptRow /\ n.status = "queued" /\ n.gen = g /\ n.qr = t.qr
  BY DEF AttemptRow, ActiveAttempts

LEMMA QueuedType ==
  ASSUME NEW g \in Nat
  PROVE  LET n == [NoAttempt EXCEPT !.status = "queued", !.gen = g]
         IN  n \in AttemptRow /\ n.status = "queued" /\ n.gen = g /\ ~n.qr /\ Live(n)
  <1>1. NoAttempt \in AttemptRow /\ ~NoAttempt.qr
    BY DEF NoAttempt, AttemptRow
  <1> DEFINE n == [NoAttempt EXCEPT !.status = "queued", !.gen = g]
  <1>2. n \in AttemptRow /\ n.status = "queued" /\ n.gen = g /\ n.qr = NoAttempt.qr
    BY <1>1, OpenedRow
  <1> HIDE DEF n
  <1>3. ~n.qr /\ Live(n)
    BY <1>1, <1>2 DEF Live, ActiveAttempts
  <1>4. QED
    BY <1>2, <1>3 DEF n

LEMMA AnnouncedType ==
  ASSUME NEW s \in SessionRow
  PROVE  LET e == [s EXCEPT !.gen = @ + 1,
                     !.status = IF @ = "authenticated" THEN @ ELSE "qr_pending"]
         IN  e \in SessionRow /\ e.gen = s.gen + 1 /\ e.enc = s.enc /\ e.revoked = s.revoked
  <1> DEFINE x == IF s.status = "authenticated" THEN s.status ELSE "qr_pending"
  <1>1. x \in SessionStatuses /\ s.gen + 1 \in Nat
    BY DEF SessionStatuses, SessionRow
  <1> HIDE DEF x
  <1> DEFINE e == [s EXCEPT !.gen = s.gen + 1, !.status = x]
  <1>2. e \in SessionRow /\ e.gen = s.gen + 1 /\ e.enc = s.enc /\ e.revoked = s.revoked
    BY <1>1 DEF SessionRow, SessionStatuses
  <1>3. QED
    BY <1>2 DEF e, x

LEMMA CancelledType ==
  ASSUME NEW s \in SessionRow
  PROVE  LET e == [s EXCEPT !.gen = @ + 1,
                     !.status = IF @ = "qr_pending" THEN "unauthenticated" ELSE @]
         IN  e \in SessionRow /\ e.gen = s.gen + 1 /\ e.enc = s.enc /\ e.revoked = s.revoked
  <1> DEFINE x == IF s.status = "qr_pending" THEN "unauthenticated" ELSE s.status
  <1>1. x \in SessionStatuses /\ s.gen + 1 \in Nat
    BY DEF SessionStatuses, SessionRow
  <1> HIDE DEF x
  <1> DEFINE e == [s EXCEPT !.gen = s.gen + 1, !.status = x]
  <1>2. e \in SessionRow /\ e.gen = s.gen + 1 /\ e.enc = s.enc /\ e.revoked = s.revoked
    BY <1>1 DEF SessionRow, SessionStatuses
  <1>3. QED
    BY <1>2 DEF e, x

LEMMA NewAttemptInv == SessionInv /\ NewAttempt => SessionInv'
  <1> SUFFICES ASSUME SessionInv, NewAttempt PROVE SessionInv'
    OBVIOUS
  <1>1. UNCHANGED <<file, pages, alert, wk, lock, revokes, barred, known, faults>>
    BY DEF NewAttempt, hist
  <1>2. PICK a \in Attempts \ Created :
          /\ \A b \in Attempts \ Created : a <= b
          /\ ses' = Touch([ExpiredSession EXCEPT !.gen = @ + 1,
                !.status = IF @ = "authenticated" THEN @ ELSE "qr_pending"])
          /\ att' = [b \in Attempts |->
               IF b = a THEN [NoAttempt EXCEPT !.status = "queued", !.gen = ExpiredSession.gen + 1]
               ELSE IF Live(ExpiredAttempts[b]) THEN Ended(att[b], "cancelled")
               ELSE ExpiredAttempts[b]]
    BY DEF NewAttempt
  <1>3. /\ RowsFit(ses, att, barred) /\ WorkersFit(wk, ses.gen, barred) /\ Traced(ses, known)
        /\ barred \in Nat
    BY DEF SessionInv, RowsFit
  <1>4. RowsFit(ExpiredSession, ExpiredAttempts, barred)
    BY <1>3, ExpiredFits
  <1> DEFINE s == [ExpiredSession EXCEPT !.gen = @ + 1,
                      !.status = IF @ = "authenticated" THEN @ ELSE "qr_pending"]
             n == [NoAttempt EXCEPT !.status = "queued", !.gen = ExpiredSession.gen + 1]
  <1>5. /\ s \in SessionRow /\ s.gen = ExpiredSession.gen + 1 /\ s.enc = ses.enc
        /\ s.revoked = ses.revoked
    <2>1. ExpiredSession \in SessionRow
      BY <1>3, ExpiredFacts
    <2>2. /\ s \in SessionRow /\ s.gen = ExpiredSession.gen + 1
          /\ s.enc = ExpiredSession.enc /\ s.revoked = ExpiredSession.revoked
      BY <2>1, AnnouncedType
    <2>3. QED
      BY <1>3, <2>2, ExpiredFacts
  <1>6. /\ n \in AttemptRow /\ n.status = "queued" /\ n.gen = ExpiredSession.gen + 1
        /\ ~n.qr /\ Live(n)
    <2>1. ExpiredSession.gen + 1 \in Nat
      BY <1>3, ExpiredFacts DEF SessionRow
    <2>2. QED
      BY <2>1, QueuedType
  <1>7. /\ ses' \in SessionRow /\ ses'.gen = ExpiredSession.gen + 1 /\ ses'.enc = ses.enc
        /\ ses'.revoked = ses.revoked
    <2> HIDE DEF s
    <2>1. QED
      BY <1>2, <1>5, TouchType DEF s
  <1> HIDE DEF s, n
  <1>8. /\ att'[a] = n
        /\ \A b \in Attempts \ {a} :
             /\ att'[b] \in AttemptRow /\ ~Live(att'[b]) /\ (att'[b].qr => att'[b].status = "qr_pending")
             /\ att'[b].status = "absent" <=> att[b].status = "absent"
    <2>1. att'[a] = n
      BY <1>2 DEF n
    <2>2. ASSUME NEW b \in Attempts \ {a}, Live(ExpiredAttempts[b])
          PROVE  att'[b] = Ended(att[b], "cancelled") /\ Live(att[b]) /\ att[b] \in AttemptRow
      BY <1>2, <1>3, <2>2, ExpiredFacts DEF RowsFit
    <2>3. ASSUME NEW b \in Attempts \ {a}, ~Live(ExpiredAttempts[b])
          PROVE  att'[b] = ExpiredAttempts[b]
      BY <1>2, <2>3
    <2>4. \A b \in Attempts : ExpiredAttempts[b].status = "absent" <=> att[b].status = "absent"
      BY <1>3, ExpiredFacts, EndedType DEF Live, ActiveAttempts, RowsFit
    <2>5. QED
      BY <1>3, <1>4, <2>1, <2>2, <2>3, <2>4, EndedType, ExpiredFacts
         DEF RowsFit, Live, ActiveAttempts
  <1>9. att' \in [Attempts -> AttemptRow]
    BY <1>2, <1>6, <1>8
  <1>10. att[a].status = "absent" /\ a \in Attempts
    BY DEF Created
  <1>11. ses.gen \in Nat /\ ExpiredSession.gen \in Nat /\ ExpiredSession.gen >= ses.gen
    BY <1>3, ExpiredFacts DEF RowsFit, SessionRow
  <1>12. ASSUME NEW b \in Attempts, NEW c \in Attempts,
                att'[b].status # "absent", att'[c].status = "absent"
         PROVE  b < c
    <2>1. c # a /\ att[c].status = "absent" /\ c \in Attempts \ Created
      BY <1>6, <1>8, <1>12 DEF Created
    <2>2. a <= c /\ a \in Nat /\ c \in Nat /\ b \in Nat
      BY <1>2, <2>1, OriginsType
    <2>3. CASE b = a
      BY <2>1, <2>2, <2>3
    <2>4. CASE b # a
      <3>1. att[b].status # "absent"
        BY <1>8, <1>12, <2>4
      <3>2. QED
        BY <1>3, <2>1, <3>1 DEF RowsFit
    <2>5. QED
      BY <2>3, <2>4
  <1>13. RowsFit(ses', att', barred)
    <2>1. \A b \in Attempts :
            /\ Live(att'[b]) => att'[b].gen = ses'.gen /\ \A c \in Attempts : Live(att'[c]) => b = c
            /\ att'[b].qr => att'[b].status = "qr_pending"
            /\ Live(att'[b]) \/ att'[b].status = "absent" => Origin(b) >= barred
      <3>1. Origin(a) >= barred
        BY <1>3, <1>10 DEF RowsFit
      <3>2. QED
        BY <1>3, <1>6, <1>7, <1>8, <3>1 DEF RowsFit
    <2>2. (ses'.enc # Nothing => ses'.enc >= barred) /\ (ses'.gen = 0 => barred = 0)
      BY <1>3, <1>7, <1>11 DEF RowsFit
    <2>3. QED
      BY <1>3, <1>7, <1>9, <1>12, <2>1, <2>2 DEF RowsFit
  <1>14. WorkersFit(wk, ses'.gen, barred)
    BY <1>3, <1>7, <1>11, GrowthFits
  <1>15. QED
    BY <1>1, <1>3, <1>7, <1>13, <1>14, SameRest DEF SessionInv, Traced

LEMMA CancelAttemptInv ==
  ASSUME SessionInv, NEW a \in Attempts, CancelAttempt(a)
  PROVE  SessionInv'
  <1>1. UNCHANGED <<file, pages, alert, wk, lock, revokes, barred, known, faults>>
    BY DEF CancelAttempt, hist
  <1>2. CASE ~Live(ExpiredAttempts[a])
    <2>1. Expire
      BY <1>2 DEF CancelAttempt
    <2>2. QED
      BY <1>1, <2>1, ExpireStep, SameRest DEF SessionInv
  <1>3. CASE Live(ExpiredAttempts[a])
    <2> DEFINE s == [ExpiredSession EXCEPT !.gen = @ + 1,
                       !.status = IF @ = "qr_pending" THEN "unauthenticated" ELSE @]
    <2>1. /\ ses' = CancelledSession(ExpiredSession, a)
          /\ att' = [ExpiredAttempts EXCEPT ![a] = Ended(@, "cancelled")]
      BY <1>3 DEF CancelAttempt
    <2>2. s \in SessionRow /\ s.gen = ExpiredSession.gen + 1 /\ s.enc = ses.enc /\ s.revoked = ses.revoked
      <3>1. ExpiredSession \in SessionRow
        BY ExpiredStay
      <3>2. /\ s \in SessionRow /\ s.gen = ExpiredSession.gen + 1
            /\ s.enc = ExpiredSession.enc /\ s.revoked = ExpiredSession.revoked
        BY <3>1, CancelledType
      <3>3. QED
        BY <3>2, ExpiredStay
    <2>3. ses' = ExpiredSession \/ ses' = Touch(s)
      BY <2>1 DEF CancelledSession
    <2> HIDE DEF s
    <2>4. /\ ses' \in SessionRow /\ ses'.gen >= ExpiredSession.gen /\ ses'.enc = ses.enc
          /\ ses'.revoked = ses.revoked
      BY <2>2, <2>3, TouchType, ExpiredStay
    <2>5. /\ att' \in [Attempts -> AttemptRow]
          /\ \A b \in Attempts \ {a} : att'[b] = ExpiredAttempts[b]
          /\ att'[a] = Ended(ExpiredAttempts[a], "cancelled") /\ ~Live(att'[a])
          /\ att'[a].status = "cancelled" /\ ~att'[a].qr
      BY <2>1, EndedType, ExpiredStay
    <2>6. \A b \in Attempts : Live(att'[b]) => Live(ExpiredAttempts[b]) /\ FALSE
      BY <1>3, <2>5, ExpiredStay DEF RowsFit
    <2>7. \A b \in Attempts : /\ att'[b].status = "absent" <=> att[b].status = "absent"
                              /\ att'[b].qr => att'[b].status = "qr_pending"
      BY <1>3, <2>5, ExpiredStay DEF Live, ActiveAttempts
    <2>8. /\ RowsFit(ses', att', barred') /\ WorkersFit(wk, ses'.gen, barred')
      BY <1>1, <2>4, <2>5, <2>6, <2>7, ExpiredStay, RowStep
    <2>9. QED
      BY <1>1, <2>4, <2>8, SameRest DEF SessionInv, Traced
  <1>4. QED
    BY <1>2, <1>3

LEMMA CreatedCount ==
  ASSUME SessionInv, NEW a \in Attempts, att[a].status = "absent"
  PROVE  Cardinality(Created) < a
  <1>1. a \in Nat /\ a > 0 /\ a - 1 \in Nat
    BY BoundsAssumption DEF Attempts
  <1>2. Created \in SUBSET (1 .. (a - 1))
    <2>1. ASSUME NEW b \in Created PROVE b \in 1 .. (a - 1)
      <3>1. b \in Attempts /\ att[b].status # "absent"
        BY DEF Created
      <3>2. b < a
        BY <3>1 DEF SessionInv, RowsFit
      <3>3. QED
        BY <1>1, <3>1, <3>2, BoundsAssumption DEF Attempts
    <2>2. QED
      BY <2>1
  <1>3. IsFiniteSet(1 .. (a - 1)) /\ Cardinality(1 .. (a - 1)) = a - 1
    BY <1>1, FS_Interval
  <1>4. IsFiniteSet(Created) /\ Cardinality(Created) <= a - 1
    BY <1>2, <1>3, FS_Subset
  <1>5. Cardinality(Created) \in Nat
    BY <1>4, FS_CardinalityType
  <1>6. QED
    BY <1>1, <1>4, <1>5

LEMMA RevokedType ==
  ASSUME NEW s \in SessionRow
  PROVE  LET e == [s EXCEPT !.gen = @ + 1, !.status = "revoked", !.enc = Nothing,
                            !.validated = FALSE, !.old = FALSE, !.revoked = TRUE]
         IN  e \in SessionRow /\ e.gen = s.gen + 1 /\ e.enc = Nothing /\ e.revoked
  <1>1. Nothing \in Origins /\ s.gen + 1 \in Nat
    BY OriginsType DEF SessionRow
  <1> DEFINE d == [s EXCEPT !.gen = s.gen + 1, !.status = "revoked", !.enc = Nothing]
  <1>2. d \in SessionRow /\ d.gen = s.gen + 1 /\ d.enc = Nothing
    BY <1>1 DEF SessionRow
  <1>3. [s EXCEPT !.gen = @ + 1, !.status = "revoked", !.enc = Nothing, !.validated = FALSE,
                  !.old = FALSE, !.revoked = TRUE]
          = [d EXCEPT !.validated = FALSE, !.old = FALSE, !.revoked = TRUE]
    BY DEF SessionRow
  <1> HIDE DEF d
  <1>4. LET e == [d EXCEPT !.validated = FALSE, !.old = FALSE, !.revoked = TRUE]
        IN  e \in SessionRow /\ e.gen = d.gen /\ e.enc = d.enc /\ e.revoked
    BY <1>2 DEF SessionRow
  <1>5. QED
    BY <1>2, <1>3, <1>4

LEMMA RevokeSessionInv == SessionInv /\ RevokeSession => SessionInv'
  <1> SUFFICES ASSUME SessionInv, RevokeSession PROVE SessionInv'
    OBVIOUS
  <1>1. /\ ses' = RevokedSession /\ PauseRuns /\ file' = FALSE
        /\ att' = [a \in Attempts |-> IF Live(att[a]) THEN Ended(att[a], "cancelled") ELSE att[a]]
        /\ revokes' = revokes + 1 /\ barred' = Origin(Cardinality(Created)) + 1 /\ known' = TRUE
        /\ UNCHANGED <<alert, wk, lock, faults>>
    BY DEF RevokeSession
  <1>2. RowsFit(ses, att, barred) /\ WorkersFit(wk, ses.gen, barred)
    BY DEF SessionInv
  <1>3. /\ ses' \in SessionRow /\ ses'.gen = ses.gen + 1 /\ ses'.enc = Nothing /\ ses'.revoked
        /\ ses.gen \in Nat
    <2>1. ses \in SessionRow
      BY <1>2 DEF RowsFit
    <2>2. ses.gen \in Nat
      BY <2>1 DEF SessionRow
    <2>3. QED
      BY <1>1, <2>1, <2>2, RevokedType DEF RevokedSession
  <1>4. Cardinality(Created) \in Nat
    <2>1. IsFiniteSet(Attempts) /\ Created \in SUBSET Attempts
      BY FS_Interval, BoundsAssumption DEF Attempts, Created
    <2>2. QED
      BY <2>1, FS_Subset, FS_CardinalityType
  <1>5. barred' = Cardinality(Created) + 2 /\ barred' \in Nat
    BY <1>1, <1>4 DEF Origin
  <1>6. \A a \in Attempts :
          /\ att'[a] \in AttemptRow /\ ~Live(att'[a])
          /\ att'[a].qr => att'[a].status = "qr_pending"
          /\ att'[a].status = "absent" <=> att[a].status = "absent"
    BY <1>1, <1>2, EndedType DEF RowsFit, Live, ActiveAttempts
  <1>7. \A a \in Attempts : att'[a].status = "absent" => Origin(a) >= barred'
    <2>1. ASSUME NEW a \in Attempts, att'[a].status = "absent" PROVE Origin(a) >= barred'
      <3>1. Cardinality(Created) < a /\ a \in Nat
        BY <1>6, <2>1, CreatedCount, OriginsType
      <3>2. QED
        BY <1>4, <1>5, <3>1 DEF Origin
    <2>2. QED
      BY <2>1
  <1>8. RowsFit(ses', att', barred')
    <2>1. att' \in [Attempts -> AttemptRow]
      BY <1>1, <1>6
    <2>2. \A a, b \in Attempts : att'[a].status # "absent" /\ att'[b].status = "absent" => a < b
      BY <1>2, <1>6 DEF RowsFit
    <2>3. QED
      BY <1>3, <1>5, <1>6, <1>7, <2>1, <2>2 DEF RowsFit
  <1>9. WorkersFit(wk', ses'.gen, barred')
    BY <1>1, <1>2, <1>3, <1>5 DEF WorkersFit, JobFits, Worker, Job
  <1>10. Traced(ses', known')
    BY <1>1, <1>3 DEF Traced
  <1>11. ReaderFits(reader', barred') /\ PlacesFit(rt', run')
    BY <1>1 DEF SessionInv, ReaderFits, Reader, PlacesFit, PauseRuns
  <1>12. RestFits'
    <2>1. revokes' \in Nat /\ faults' \in Nat /\ lock' \in Workers \cup {None}
      BY <1>1 DEF SessionInv, RestFits
    <2>2. file' \in BOOLEAN /\ alert' \in BOOLEAN
      BY <1>1, Zenon DEF SessionInv, RestFits
    <2>3. QED
      BY <2>1, <2>2 DEF RestFits
  <1>13. QED
    BY <1>8, <1>9, <1>10, <1>11, <1>12 DEF SessionInv

LEMMA RevokeLostInv == SessionInv /\ RevokeLost => SessionInv'
  <1> SUFFICES ASSUME SessionInv, RevokeLost PROVE SessionInv'
    OBVIOUS
  <1>1. file' = FALSE /\ faults' = faults + 1 /\ UNCHANGED <<row, pages, alert, wk, lock, hist>>
    BY DEF RevokeLost
  <1>2. RestFits'
    <2>1. revokes' \in Nat /\ faults' \in Nat /\ lock' \in Workers \cup {None}
      BY <1>1 DEF SessionInv, RestFits, hist
    <2>2. file' \in BOOLEAN /\ alert' \in BOOLEAN
      BY <1>1, Zenon DEF SessionInv, RestFits
    <2>3. QED
      BY <2>1, <2>2 DEF RestFits
  <1>3. UNCHANGED <<ses, att, rt, run, reader, wk, barred, known>>
    BY <1>1 DEF row, pages, hist
  <1>4. QED
    BY <1>2, <1>3 DEF SessionInv

-----------------------------------------------------------------------------
(* The session worker *)

\* A step that leaves the rows and their history alone.
LEMMA SameRows ==
  ASSUME SessionInv, UNCHANGED <<ses, att, barred, known>>
  PROVE  /\ RowsFit(ses', att', barred') /\ Traced(ses', known')
         /\ ses'.gen \in Nat /\ barred' \in Nat /\ WorkersFit(wk, ses'.gen, barred')
  BY DEF SessionInv, RowsFit, SessionRow

\* What the job of a worker may be relied on to be.
LEMMA JobFacts ==
  ASSUME SessionInv, NEW w \in Workers
  PROVE  /\ wk[w] \in Worker /\ job(w) \in Job /\ JobFits(job(w), ses.gen, barred)
         /\ ses.gen \in Nat /\ barred \in Nat
         /\ job(w).kind = "login" => job(w).att \in Attempts
         /\ job(w).kind = "login" => job(w).from = Origin(job(w).att)
  BY DEF SessionInv, WorkersFit, Worker, job, JobFits, RowsFit, SessionRow

LEMMA IdleFits ==
  ASSUME NEW p \in {"off", "boot", "running", "stopping"},
         NEW n \in SUBSET {"raised", "resolved"}, NEW g \in Nat, NEW bar \in Nat
  PROVE  /\ [Stopped EXCEPT !.pc = p] \in Worker
         /\ [Stopped EXCEPT !.notes = n] \in Worker /\ Stopped \in Worker
         /\ JobFits([Stopped EXCEPT !.pc = p].job, g, bar)
         /\ JobFits([Stopped EXCEPT !.notes = n].job, g, bar)
         /\ JobFits(Stopped.job, g, bar)
  <1>1. NoJob \in Job /\ NoJob.kind = "none"
    BY OriginsType DEF NoJob, Job
  <1>2. Stopped \in Worker /\ Stopped.job = NoJob
    BY <1>1 DEF Stopped, Worker
  <1>3. /\ [Stopped EXCEPT !.pc = p] \in Worker /\ [Stopped EXCEPT !.pc = p].job = NoJob
        /\ [Stopped EXCEPT !.notes = n] \in Worker /\ [Stopped EXCEPT !.notes = n].job = NoJob
    BY <1>2 DEF Worker
  <1>4. JobFits(NoJob, g, bar)
    BY <1>1 DEF JobFits
  <1>5. QED
    BY <1>2, <1>3, <1>4

\* Changes of a worker that leave its job alone.
LEMMA SameJob ==
  ASSUME NEW r \in Worker, NEW p \in {"off", "boot", "running", "stopping"},
         NEW n \in SUBSET {"raised", "resolved"}
  PROVE  /\ [r EXCEPT !.pc = p] \in Worker /\ [r EXCEPT !.pc = p].job = r.job
         /\ [r EXCEPT !.notes = n] \in Worker /\ [r EXCEPT !.notes = n].job = r.job
  BY DEF Worker

LEMMA StartWorkerInv ==
  ASSUME SessionInv, NEW w \in Workers, StartWorker(w)
  PROVE  SessionInv'
  <1>1. /\ lock' = w /\ wk' = [wk EXCEPT ![w] = [Stopped EXCEPT !.pc = "boot"]]
        /\ UNCHANGED <<ses, att, file, pages, alert, revokes, barred, known, faults>>
    BY DEF StartWorker, row, hist
  <1>2. WorkersFit(wk', ses'.gen, barred')
    BY <1>1, SameRows, IdleFits, WorkerChanges
  <1>3. RestFits'
    BY <1>1 DEF SessionInv, RestFits
  <1>4. ReaderFits(reader', barred') /\ PlacesFit(rt', run')
    BY <1>1 DEF SessionInv, pages
  <1>5. QED
    BY <1>1, <1>2, <1>3, <1>4, SameRows DEF SessionInv

\* What bootstrap writes into the session row.
LEMMA BootType ==
  ASSUME NEW s \in SessionRow, NEW enc \in Origins
  PROVE  LET e == [s EXCEPT !.enc = enc, !.old = @ /\ s.validated /\ enc = Nothing,
                     !.validated = @ /\ enc = Nothing,
                     !.status = IF enc # Nothing THEN "verifying"
                                ELSE IF @ = "revoked" THEN @ ELSE "unauthenticated"]
         IN  e \in SessionRow /\ e.gen = s.gen /\ e.enc = enc /\ e.revoked = s.revoked
  <1> DEFINE o == s.old /\ s.validated /\ enc = Nothing
             v == s.validated /\ enc = Nothing
             x == IF enc # Nothing THEN "verifying"
                  ELSE IF s.status = "revoked" THEN s.status ELSE "unauthenticated"
  <1>1. x \in SessionStatuses
    BY DEF SessionStatuses, SessionRow
  <1>2. s.old \in BOOLEAN /\ s.validated \in BOOLEAN
    BY DEF SessionRow
  <1>3. o \in BOOLEAN /\ v \in BOOLEAN
    BY <1>2
  <1> HIDE DEF o, v, x
  <1> DEFINE d == [s EXCEPT !.enc = enc, !.old = o]
  <1>4. d \in SessionRow /\ d.gen = s.gen /\ d.enc = enc /\ d.revoked = s.revoked
    BY <1>3 DEF SessionRow
  <1> DEFINE e == [d EXCEPT !.validated = v, !.status = x]
  <1>5. e = [s EXCEPT !.enc = enc, !.old = o, !.validated = v, !.status = x]
    BY DEF SessionRow
  <1> HIDE DEF d
  <1>6. e \in SessionRow /\ e.gen = d.gen /\ e.enc = d.enc /\ e.revoked = d.revoked
    BY <1>1, <1>3, <1>4 DEF SessionRow, SessionStatuses
  <1> HIDE DEF e
  <1>7. [s EXCEPT !.enc = enc, !.old = o, !.validated = v, !.status = x] \in SessionRow
        /\ e.gen = s.gen /\ e.enc = enc /\ e.revoked = s.revoked
    BY <1>4, <1>5, <1>6
  <1>8. QED
    BY <1>5, <1>7 DEF o, v, x

LEMMA BumpType ==
  ASSUME NEW s \in SessionRow, NEW bump \in BOOLEAN
  PROVE  LET e == [s EXCEPT !.gen = IF bump THEN @ + 1 ELSE @]
         IN  /\ e \in SessionRow /\ e.gen >= s.gen /\ e.enc = s.enc /\ e.revoked = s.revoked
             /\ ~bump => e.gen = s.gen
             /\ e.validated = s.validated /\ e.old = s.old /\ e.status = s.status
  BY DEF SessionRow

LEMMA PauseRunsFits ==
  ASSUME SessionInv, PauseRuns \/ ReleaseRuns \/ UNCHANGED pages, UNCHANGED barred
  PROVE  ReaderFits(reader', barred') /\ PlacesFit(rt', run')
  BY DEF SessionInv, PauseRuns, ReleaseRuns, pages, ReaderFits, PlacesFit, Reader

LEMMA SameFlags ==
  ASSUME SessionInv, UNCHANGED <<file, alert, lock, revokes, faults>>
  PROVE  RestFits'
  BY DEF SessionInv, RestFits

LEMMA BootstrapInv ==
  ASSUME SessionInv, NEW w \in Workers, Bootstrap(w)
  PROVE  SessionInv'
  <1> DEFINE t    == ExpiredAttempts
             bump == \E a \in LostAttempts(t) : t[a].gen = ExpiredSession.gen
             s    == [ExpiredSession EXCEPT !.gen = IF bump THEN @ + 1 ELSE @]
  <1>1. /\ wk' = [wk EXCEPT ![w].pc = "running"]
        /\ UNCHANGED <<file, alert, lock, revokes, barred, faults>>
    BY DEF Bootstrap
  <1>2. PICK import \in {FALSE, MayImport(s)} :
          LET enc == IF import THEN LocalFile ELSE s.enc
          IN /\ ses' = [s EXCEPT !.enc = enc, !.old = @ /\ s.validated /\ enc = Nothing,
                          !.validated = @ /\ enc = Nothing,
                          !.status = IF enc # Nothing THEN "verifying"
                                     ELSE IF @ = "revoked" THEN @ ELSE "unauthenticated"]
             /\ att' = [a \in Attempts |->
                          IF a \in LostAttempts(t) THEN Ended(t[a], "failed") ELSE t[a]]
             /\ known' = (known \/ import)
             /\ IF enc # Nothing \/ s.revoked THEN PauseRuns ELSE UNCHANGED pages
    BY DEF Bootstrap
  <1> DEFINE enc == IF import THEN LocalFile ELSE s.enc
  <1>3. bump \in BOOLEAN
    OBVIOUS
  <1>4. /\ s \in SessionRow /\ s.gen >= ExpiredSession.gen /\ s.enc = ses.enc
        /\ s.revoked = ses.revoked /\ (~bump => s.gen = ExpiredSession.gen)
    <2> HIDE DEF bump
    <2>1. QED
      BY <1>3, BumpType, ExpiredStay
  <1>5. import \in BOOLEAN
    BY DEF MayImport, SessionInv, RestFits, SessionRow
  <1>6. import => s.gen = 0
    BY DEF MayImport
  <1>7. /\ ses' = [s EXCEPT !.enc = enc, !.old = @ /\ s.validated /\ enc = Nothing,
                     !.validated = @ /\ enc = Nothing,
                     !.status = IF enc # Nothing THEN "verifying"
                                ELSE IF @ = "revoked" THEN @ ELSE "unauthenticated"]
        /\ att' = [a \in Attempts |->
                     IF a \in LostAttempts(t) THEN Ended(t[a], "failed") ELSE t[a]]
        /\ known' = (known \/ import)
        /\ PauseRuns \/ UNCHANGED pages
    BY <1>2
  <1> HIDE DEF s
  <1>8. enc \in Origins
    BY <1>4, OriginsType DEF SessionRow
  <1>9. /\ enc # Nothing => enc >= barred
        /\ import => enc # Nothing
        /\ ~import => enc = ses.enc
    <2>1. CASE import
      <3>1. s.gen = 0 /\ ExpiredSession.gen = 0
        BY <1>4, <1>6, <2>1, ExpiredStay DEF SessionRow
      <3>2. barred = 0
        BY <3>1, ExpiredStay DEF RowsFit
      <3>3. QED
        BY <2>1, <3>2 DEF LocalFile, Nothing
    <2>2. CASE ~import
      BY <1>4, <2>2, ExpiredStay
    <2>3. QED
      BY <2>1, <2>2
  <1> HIDE DEF enc
  <1>10. ses' \in SessionRow /\ ses'.gen = s.gen /\ ses'.enc = enc /\ ses'.revoked = s.revoked
    BY <1>4, <1>7, <1>8, BootType
  <1>11. \A a \in Attempts :
           /\ att'[a] \in AttemptRow
           /\ att'[a].status = "absent" <=> att[a].status = "absent"
           /\ att'[a].qr => att'[a].status = "qr_pending"
           /\ Live(att'[a]) => a \notin LostAttempts(t) /\ att'[a] = t[a]
    <2>1. ASSUME NEW a \in Attempts, a \in LostAttempts(t)
          PROVE  /\ att'[a] = Ended(t[a], "failed") /\ t[a] \in AttemptRow
                 /\ t[a].status # "absent"
      BY <1>7, <2>1, ExpiredStay DEF LostAttempts, Opened
    <2>2. ASSUME NEW a \in Attempts, a \notin LostAttempts(t)
          PROVE  att'[a] = t[a] /\ t[a] \in AttemptRow
      BY <1>7, <2>2, ExpiredStay
    <2> HIDE DEF t
    <2>3. QED
      BY <2>1, <2>2, EndedType, ExpiredStay DEF t
  <1>12. att' \in [Attempts -> AttemptRow]
    BY <1>7, <1>11
  <1>13. \A a \in Attempts :
           Live(att'[a]) => /\ Live(ExpiredAttempts[a])
                            /\ att'[a].gen = ExpiredAttempts[a].gen
                            /\ ses'.gen = ExpiredSession.gen
    <2>1. ASSUME NEW a \in Attempts, Live(att'[a]) PROVE ~bump
      <3>1. Live(t[a]) /\ a \notin LostAttempts(t)
        BY <1>11, <2>1
      <3>2. ASSUME NEW b \in LostAttempts(t) PROVE FALSE
        <4>1. b \in Attempts /\ Live(t[b])
          BY <3>2 DEF LostAttempts, Live, Opened, ActiveAttempts
        <4>2. a = b
          BY <3>1, <4>1, ExpiredStay DEF RowsFit
        <4>3. QED
          BY <3>1, <3>2, <4>2
      <3>3. QED
        BY <3>2
    <2> HIDE DEF bump
    <2>2. QED
      BY <1>4, <1>10, <1>11, <2>1
  <1>14. RowsFit(ses', att', barred') /\ WorkersFit(wk, ses'.gen, barred')
         /\ ses'.gen \in Nat /\ barred' \in Nat
    <2>1. ses'.gen >= ExpiredSession.gen /\ (ses'.enc # Nothing => ses'.enc >= barred)
      BY <1>4, <1>9, <1>10
    <2>2. QED
      BY <1>1, <1>10, <1>11, <1>12, <1>13, <2>1, RowStep
  <1>15. Traced(ses', known')
    BY <1>4, <1>5, <1>7, <1>9, <1>10 DEF Traced, SessionInv
  <1>16. WorkersFit(wk', ses'.gen, barred')
    <2>1. [wk[w] EXCEPT !.pc = "running"] \in Worker
          /\ [wk[w] EXCEPT !.pc = "running"].job = wk[w].job
      BY JobFacts, SameJob
    <2>2. wk' = [wk EXCEPT ![w] = [wk[w] EXCEPT !.pc = "running"]]
      BY <1>1
    <2>3. JobFits(wk[w].job, ses'.gen, barred')
      BY <1>14 DEF WorkersFit
    <2>4. QED
      BY <1>14, <2>1, <2>2, <2>3, WorkerChanges
  <1>17. QED
    BY <1>1, <1>7, <1>14, <1>15, <1>16, PauseRunsFits, SameFlags DEF SessionInv

LEMMA NextJobFits ==
  ASSUME NEW s, NEW t, NEW bar, RowsFit(s, t, bar)
  PROVE  NextJob(s, t) \in Job /\ JobFits(NextJob(s, t), s.gen, bar)
  <1> DEFINE least == \E a \in Waiting(t) : (\A b \in Waiting(t) : a <= b) /\ t[a].gen = s.gen
             a == CHOOSE a \in Waiting(t) : \A b \in Waiting(t) : a <= b
  <1>1. s.gen \in Nat /\ s.enc \in Origins
    BY DEF RowsFit, SessionRow
  <1>2. CASE least
    <2>1. a \in Attempts
      BY <1>2 DEF Waiting
    <2>2. NextJob(s, t) = [kind |-> "login", step |-> "qr", gen |-> s.gen, att |-> a,
                           from |-> Origin(a)]
      BY <1>2 DEF NextJob
    <2> HIDE DEF a
    <2>3. QED
      BY <1>1, <2>1, <2>2, OriginsType DEF Job, JobFits
  <1>3. CASE ~least /\ RecheckDue(s)
    <2>1. NextJob(s, t) = [kind |-> "verify", step |-> "domains", gen |-> s.gen, att |-> 0,
                           from |-> s.enc]
      BY <1>3 DEF NextJob
    <2>2. s.enc # Nothing /\ s.enc >= bar
      BY <1>3 DEF RecheckDue, RowsFit
    <2>3. QED
      BY <1>1, <2>1, <2>2 DEF Job, JobFits
  <1>4. CASE ~least /\ ~RecheckDue(s)
    <2>1. NextJob(s, t) = NoJob
      BY <1>4 DEF NextJob
    <2>2. QED
      BY <2>1, OriginsType DEF NoJob, Job, JobFits
  <1>5. QED
    BY <1>2, <1>3, <1>4

LEMMA LoopInv ==
  ASSUME SessionInv, NEW w \in Workers, Loop(w)
  PROVE  SessionInv'
  <1>1. UNCHANGED <<file, pages, alert, lock, revokes, barred, known, faults>>
    BY DEF Loop, hist
  <1>2. CASE lock # w
    <2>1. wk' = [wk EXCEPT ![w] = [wk[w] EXCEPT !.pc = "stopping"]]
          /\ UNCHANGED <<ses, att, barred, known>>
      BY <1>1, <1>2 DEF Loop, row
    <2>2. WorkersFit(wk', ses'.gen, barred')
      BY <2>1, SameRows, JobFacts, SameJob, WorkerChanges DEF WorkersFit
    <2>3. QED
      BY <1>1, <2>1, <2>2, SameRows, SameRest DEF SessionInv
  <1>3. CASE lock = w /\ job(w).step \in {"none", "done"}
    <2> DEFINE j == NextJob(ExpiredSession, ExpiredAttempts)
               r == [wk[w] EXCEPT !.job = j]
    <2>1. Expire /\ wk' = [wk EXCEPT ![w] = r]
      BY <1>3 DEF Loop
    <2>2. j \in Job /\ JobFits(j, ExpiredSession.gen, barred)
      BY ExpiredStay, NextJobFits
    <2>3. ses' = ExpiredSession
      BY <2>1 DEF Expire
    <2> HIDE DEF j
    <2>4. r \in Worker /\ r.job = j
      BY <2>2, JobFacts DEF Worker
    <2> HIDE DEF r
    <2>5. WorkersFit(wk', ses'.gen, barred')
      BY <1>1, <2>1, <2>2, <2>3, <2>4, ExpireStep, WorkerChanges
    <2>6. QED
      BY <1>1, <2>1, <2>5, ExpireStep, SameRest DEF SessionInv
  <1>4. CASE lock = w /\ job(w).step \notin {"none", "done"}
    <2>1. UNCHANGED <<wk, ses, att>>
      BY <1>4 DEF Loop, row
    <2>2. QED
      BY <1>1, <2>1, SameRows, SameRest DEF SessionInv
  <1>5. QED
    BY <1>2, <1>3, <1>4

LEMMA GuardInv ==
  ASSUME SessionInv, NEW w \in Workers, Guard(w)
  PROVE  SessionInv'
  <1>1. Expire /\ UNCHANGED <<file, pages, alert, lock, revokes, barred, known, faults>>
        /\ (UNCHANGED wk \/ Step(w, "done"))
    BY DEF Guard, hist
  <1>2. "done" \in Steps
    BY DEF Steps
  <1>3. WorkersFit(wk', ses'.gen, barred')
    BY <1>1, <1>2, ExpireStep, StepFits
  <1>4. QED
    BY <1>1, <1>3, ExpireStep, SameRest DEF SessionInv

-----------------------------------------------------------------------------
(* The browser *)

\* The end of every browser step: the rows fit, the job has moved on.
LEMMA BrowserEnd ==
  ASSUME SessionInv, NEW w \in Workers, NEW s \in Steps,
         Step(w, s) \/ \E note \in {"raised", "resolved"} : Notify(w, note),
         RowsFit(ses', att', barred'), WorkersFit(wk, ses'.gen, barred'),
         Traced(ses', known'), PauseRuns \/ ReleaseRuns \/ UNCHANGED pages,
         UNCHANGED <<file, alert, lock, revokes, barred, faults>>
  PROVE  SessionInv'
  <1>1. ses'.gen \in Nat /\ barred' \in Nat
    BY DEF RowsFit, SessionRow
  <1>2. WorkersFit(wk', ses'.gen, barred')
    BY <1>1, StepFits
  <1>3. QED
    BY <1>2, PauseRunsFits, SameFlags DEF SessionInv

LEMMA StepNames ==
  {"confirm", "domains", "fresh", "done", "notify"} \subseteq Steps
  BY DEF Steps

\* One open attempt goes on to the next step of its login.
LEMMA AttemptGoesOn ==
  ASSUME SessionInv, NEW a \in Attempts, NEW n \in AttemptRow,
         ses' = ExpiredSession, att' = [ExpiredAttempts EXCEPT ![a] = n],
         Live(ExpiredAttempts[a]), n.gen = ExpiredAttempts[a].gen,
         n.status # "absent", n.qr => n.status = "qr_pending",
         UNCHANGED <<barred, known>>
  PROVE  /\ RowsFit(ses', att', barred') /\ WorkersFit(wk, ses'.gen, barred')
         /\ Traced(ses', known')
  <1>1. att' \in [Attempts -> AttemptRow] /\ att'[a] = n
        /\ \A b \in Attempts \ {a} : att'[b] = ExpiredAttempts[b]
    BY ExpiredStay
  <1>2. att[a].status # "absent"
    BY ExpiredStay DEF Live, ActiveAttempts
  <1>3. /\ ses' \in SessionRow /\ ses'.gen >= ExpiredSession.gen /\ ses'.enc = ses.enc
        /\ ses'.revoked = ses.revoked
    BY ExpiredStay
  <1>4. \A b \in Attempts :
          /\ att'[b].status = "absent" <=> att[b].status = "absent"
          /\ att'[b].qr => att'[b].status = "qr_pending"
          /\ Live(att'[b]) => /\ Live(ExpiredAttempts[b])
                              /\ att'[b].gen = ExpiredAttempts[b].gen
                              /\ ses'.gen = ExpiredSession.gen
    BY <1>1, <1>2, ExpiredStay
  <1>5. RowsFit(ses', att', barred') /\ WorkersFit(wk, ses'.gen, barred')
    BY <1>1, <1>3, <1>4, ExpiredStay, RowStep
  <1>6. Traced(ses', known')
    BY <1>3 DEF SessionInv, Traced
  <1>7. QED
    BY <1>5, <1>6

LEMMA ShownType ==
  ASSUME NEW t \in AttemptRow
  PROVE  /\ LET n == [t EXCEPT !.status = "qr_pending", !.qr = TRUE]
            IN  n \in AttemptRow /\ n.gen = t.gen /\ n.status = "qr_pending"
         /\ LET n == [t EXCEPT !.status = "verifying", !.qr = FALSE]
            IN  n \in AttemptRow /\ n.gen = t.gen /\ n.status = "verifying" /\ ~n.qr
  BY DEF AttemptRow, ActiveAttempts

LEMMA PublishQrInv ==
  ASSUME SessionInv, NEW w \in Workers, PublishQr(w)
  PROVE  SessionInv'
  <1>1. /\ ses' = ExpiredSession /\ job(w).kind = "login"
        /\ UNCHANGED <<file, pages, alert, lock, revokes, barred, known, faults>>
    BY DEF PublishQr, InLogin, hist
  <1> DEFINE a == job(w).att
             t == ExpiredAttempts[a]
             n == [t EXCEPT !.status = "qr_pending", !.qr = TRUE]
  <1>2. a \in Attempts /\ t \in AttemptRow
    BY <1>1, JobFacts, ExpiredStay
  <1>3. CASE OwnsAttempt(job(w), ExpiredSession, ExpiredAttempts)
    <2>1. /\ att' = [ExpiredAttempts EXCEPT ![a].status = "qr_pending", ![a].qr = TRUE]
          /\ Step(w, "confirm") /\ Live(t)
      BY <1>3 DEF PublishQr, OwnsAttempt
    <2>2. att' = [ExpiredAttempts EXCEPT ![a] = n]
      BY <1>2, <2>1, ExpiredStay
    <2>3. n \in AttemptRow /\ n.gen = t.gen /\ n.status = "qr_pending"
      BY <1>2, ShownType
    <2> HIDE DEF a, n
    <2>4. /\ RowsFit(ses', att', barred') /\ WorkersFit(wk, ses'.gen, barred')
          /\ Traced(ses', known')
      BY <1>1, <1>2, <2>1, <2>2, <2>3, AttemptGoesOn
    <2>5. QED
      BY <1>1, <2>1, <2>4, StepNames, BrowserEnd
  <1>4. CASE ~OwnsAttempt(job(w), ExpiredSession, ExpiredAttempts)
    <2>1. Expire /\ Step(w, "done")
      BY <1>1, <1>4 DEF PublishQr, Expire
    <2>2. QED
      BY <1>1, <2>1, ExpireStep, StepNames, BrowserEnd
  <1>5. QED
    BY <1>3, <1>4

LEMMA ConfirmingInv ==
  ASSUME SessionInv, NEW w \in Workers, Confirming(w)
  PROVE  SessionInv'
  <1>1. /\ ses' = ExpiredSession /\ job(w).kind = "login"
        /\ UNCHANGED <<file, pages, alert, lock, revokes, barred, known, faults>>
    BY DEF Confirming, InLogin, hist
  <1> DEFINE a  == job(w).att
             t  == ExpiredAttempts[a]
             n  == [t EXCEPT !.status = "verifying", !.qr = FALSE]
             ok == ExpiredSession.gen = job(w).gen /\ t.status = "qr_pending"
  <1>2. a \in Attempts /\ t \in AttemptRow
    BY <1>1, JobFacts, ExpiredStay
  <1>3. CASE ok
    <2>1. att' = [ExpiredAttempts EXCEPT ![a] = n] /\ Step(w, "domains")
      BY <1>3 DEF Confirming
    <2>2. Live(t)
      BY <1>3 DEF Live, ActiveAttempts
    <2>3. n \in AttemptRow /\ n.gen = t.gen /\ n.status = "verifying" /\ ~n.qr
      BY <1>2, ShownType
    <2> HIDE DEF a, n
    <2>4. /\ RowsFit(ses', att', barred') /\ WorkersFit(wk, ses'.gen, barred')
          /\ Traced(ses', known')
      BY <1>1, <1>2, <2>1, <2>2, <2>3, AttemptGoesOn
    <2>5. QED
      BY <1>1, <2>1, <2>4, StepNames, BrowserEnd
  <1>4. CASE ~ok
    <2>1. Expire /\ Step(w, "done")
      BY <1>1, <1>4 DEF Confirming, Expire
    <2>2. QED
      BY <1>1, <2>1, ExpireStep, StepNames, BrowserEnd
  <1>5. QED
    BY <1>3, <1>4

LEMMA OpenFreshInv ==
  ASSUME SessionInv, NEW w \in Workers, OpenFresh(w)
  PROVE  SessionInv'
  <1>1. /\ Step(w, "fresh")
        /\ UNCHANGED <<ses, att, file, pages, alert, lock, revokes, barred, known, faults>>
    BY DEF OpenFresh, row, hist
  <1>2. QED
    BY <1>1, SameRows, StepNames, BrowserEnd

\* An attempt of the expired rows ends; the session moves on without the
\* generation and keeps what is stored, or stores what a later login brought.
LEMMA AttemptEnds ==
  ASSUME SessionInv, NEW a \in Attempts,
         NEW status \in {"authenticated", "failed"},
         ses' \in SessionRow, ses'.gen = ExpiredSession.gen,
         ses'.enc # Nothing => ses'.enc >= barred,
         att' = [ExpiredAttempts EXCEPT ![a] = Ended(@, status)],
         Live(ExpiredAttempts[a]), UNCHANGED barred
  PROVE  RowsFit(ses', att', barred') /\ WorkersFit(wk, ses'.gen, barred')
  <1> DEFINE n == Ended(ExpiredAttempts[a], status)
  <1>1. n \in AttemptRow /\ ~Live(n) /\ n.status = status /\ ~n.qr
    BY EndedType, ExpiredStay
  <1>2. att' \in [Attempts -> AttemptRow] /\ att'[a] = n
        /\ \A b \in Attempts \ {a} : att'[b] = ExpiredAttempts[b]
    BY <1>1, ExpiredStay
  <1> HIDE DEF n
  <1>3. att[a].status # "absent" /\ ses'.gen >= ExpiredSession.gen
    BY ExpiredStay DEF Live, ActiveAttempts
  <1>4. \A b \in Attempts :
          /\ att'[b].status = "absent" <=> att[b].status = "absent"
          /\ att'[b].qr => att'[b].status = "qr_pending"
          /\ Live(att'[b]) => /\ Live(ExpiredAttempts[b])
                              /\ att'[b].gen = ExpiredAttempts[b].gen
                              /\ ses'.gen = ExpiredSession.gen
    BY <1>1, <1>2, <1>3, ExpiredStay
  <1>5. QED
    BY <1>2, <1>3, <1>4, RowStep

LEMMA FailedType ==
  ASSUME NEW s \in SessionRow, NEW status \in SessionStatuses
  PROVE  LET e == [s EXCEPT !.status = status]
         IN  e \in SessionRow /\ e.gen = s.gen /\ e.enc = s.enc /\ e.revoked = s.revoked
  BY DEF SessionRow, SessionStatuses

LEMMA FinishAttemptInv ==
  ASSUME SessionInv, NEW w \in Workers, FinishAttempt(w)
  PROVE  SessionInv'
  <1>1. /\ job(w).kind = "login" /\ Notify(w, "raised")
        /\ UNCHANGED <<file, pages, alert, lock, revokes, barred, known, faults>>
    BY DEF FinishAttempt, InLogin, hist
  <1>2. job(w).att \in Attempts
    BY <1>1, JobFacts
  <1>3. CASE OwnsAttempt(job(w), ExpiredSession, ExpiredAttempts)
    <2> DEFINE e == [ExpiredSession EXCEPT !.status = "failed"]
    <2>1. /\ att' = [ExpiredAttempts EXCEPT ![job(w).att] = Ended(@, "failed")]
          /\ ses' = ExpiredSession \/ ses' = Touch(e)
          /\ Live(ExpiredAttempts[job(w).att])
      BY <1>3 DEF FinishAttempt, OwnsAttempt
    <2>2. /\ e \in SessionRow /\ e.gen = ExpiredSession.gen /\ e.enc = ExpiredSession.enc
          /\ e.revoked = ExpiredSession.revoked
      BY ExpiredStay, FailedType DEF SessionStatuses
    <2> HIDE DEF e
    <2>3. /\ ses' \in SessionRow /\ ses'.gen = ExpiredSession.gen /\ ses'.enc = ses.enc
          /\ ses'.revoked = ses.revoked
      BY <2>1, <2>2, TouchType, ExpiredStay
    <2>4. RowsFit(ses', att', barred') /\ WorkersFit(wk, ses'.gen, barred')
      BY <1>1, <1>2, <2>1, <2>3, ExpiredStay, AttemptEnds
    <2>5. Traced(ses', known')
      BY <1>1, <2>3 DEF SessionInv, Traced
    <2>6. QED
      BY <1>1, <2>4, <2>5, StepNames, BrowserEnd
  <1>4. CASE ~OwnsAttempt(job(w), ExpiredSession, ExpiredAttempts)
    <2>1. Expire
      BY <1>4 DEF FinishAttempt
    <2>2. QED
      BY <1>1, <2>1, ExpireStep, StepNames, BrowserEnd
  <1>5. QED
    BY <1>3, <1>4

LEMMA PublishedType ==
  ASSUME NEW s \in SessionRow, NEW from \in Origins
  PROVE  /\ Published(s, from) \in SessionRow /\ Published(s, from).gen = s.gen
         /\ Published(s, from).enc = from
  <1> DEFINE d == [s EXCEPT !.enc = from, !.status = "authenticated"]
  <1>1. d \in SessionRow /\ d.gen = s.gen /\ d.enc = from
    BY DEF SessionRow
  <1>2. Published(s, from) = [d EXCEPT !.validated = TRUE, !.old = FALSE, !.revoked = FALSE]
    BY DEF Published, SessionRow
  <1> HIDE DEF d
  <1>3. LET e == [d EXCEPT !.validated = TRUE, !.old = FALSE, !.revoked = FALSE]
        IN  e \in SessionRow /\ e.gen = d.gen /\ e.enc = d.enc
    BY <1>1 DEF SessionRow
  <1>4. QED
    BY <1>1, <1>2, <1>3

LEMMA PublishLoginInv ==
  ASSUME SessionInv, NEW w \in Workers, PublishLogin(w)
  PROVE  SessionInv'
  <1> DEFINE a  == job(w).att
             ok == /\ ExpiredSession.gen = job(w).gen
                   /\ ExpiredAttempts[job(w).att].status = "verifying"
  <1>1. job(w).kind = "login" /\ UNCHANGED <<file, alert, lock, revokes, barred, faults>>
    BY DEF PublishLogin, InLogin
  <1>2. a \in Attempts /\ job(w).from = Origin(a) /\ job(w).from \in Origins
        /\ job(w).from # Nothing
    BY <1>1, JobFacts, OriginsType
  <1>3. CASE ok
    <2>1. /\ ses' = Published(ExpiredSession, job(w).from)
          /\ att' = [ExpiredAttempts EXCEPT ![a] = Ended(@, "authenticated")]
          /\ ReleaseRuns /\ known' = TRUE /\ Notify(w, "resolved")
      BY <1>3 DEF PublishLogin
    <2>2. Live(ExpiredAttempts[a])
      BY <1>3 DEF Live, ActiveAttempts
    <2>3. job(w).from >= barred
      BY <1>2, <2>2, ExpiredStay DEF RowsFit
    <2>4. ses' \in SessionRow /\ ses'.gen = ExpiredSession.gen /\ ses'.enc = job(w).from
      BY <1>2, <2>1, ExpiredStay, PublishedType
    <2>5. RowsFit(ses', att', barred') /\ WorkersFit(wk, ses'.gen, barred')
      BY <1>1, <1>2, <2>1, <2>2, <2>3, <2>4, AttemptEnds
    <2>6. Traced(ses', known')
      BY <1>2, <2>1, <2>4 DEF Traced
    <2>7. QED
      BY <1>1, <2>1, <2>5, <2>6, StepNames, BrowserEnd
  <1>4. CASE ~ok
    <2>1. Expire /\ Step(w, "done") /\ UNCHANGED <<pages, known>>
      BY <1>4 DEF PublishLogin
    <2>2. QED
      BY <1>1, <2>1, ExpireStep, StepNames, BrowserEnd
  <1>5. QED
    BY <1>3, <1>4

LEMMA ConfirmSessionInv ==
  ASSUME SessionInv, NEW w \in Workers, ConfirmSession(w)
  PROVE  SessionInv'
  <1>1. /\ job(w).kind = "verify"
        /\ UNCHANGED <<file, alert, lock, revokes, barred, known, faults>>
    BY DEF ConfirmSession, hist
  <1>2. CASE MayConfirm(job(w), ExpiredSession)
    <2>1. /\ ses' = Published(ExpiredSession, job(w).from) /\ att' = ExpiredAttempts
          /\ ReleaseRuns /\ Notify(w, "resolved")
      BY <1>2 DEF ConfirmSession, TellRecheck
    <2>2. job(w).gen = ses.gen /\ ExpiredSession.gen = ses.gen
      <3>1. RowsFit(ses, att, barred)
        BY DEF SessionInv
      <3>2. ExpiredSession.gen >= ses.gen /\ job(w).gen <= ses.gen
        BY <1>1, <3>1, JobFacts, ExpiredFacts DEF JobFits
      <3>3. QED
        BY <1>2, <3>2, JobFacts, ExpiredStay DEF MayConfirm, Job
    <2>3. job(w).from # Nothing /\ job(w).from >= barred /\ job(w).from \in Origins
      BY <1>1, <2>2, JobFacts DEF JobFits, Job
    <2>4. ses' \in SessionRow /\ ses'.gen = ExpiredSession.gen /\ ses'.enc = job(w).from
      BY <2>1, <2>3, ExpiredStay, PublishedType
    <2>5. RowsFit(ses', att', barred') /\ WorkersFit(wk, ses'.gen, barred')
      <3>1. ses'.gen >= ExpiredSession.gen
        BY <2>4, ExpiredStay
      <3>2. QED
        BY <1>1, <2>1, <2>3, <2>4, <3>1, ExpiredStay, RowStep
    <2>6. Traced(ses', known')
      BY <1>1, <2>3, <2>4 DEF SessionInv, Traced
    <2>7. QED
      BY <1>1, <2>1, <2>5, <2>6, StepNames, BrowserEnd
  <1>3. CASE ~MayConfirm(job(w), ExpiredSession)
    <2>1. Step(w, "done") /\ UNCHANGED pages /\ (UNCHANGED <<ses, att>> \/ Expire)
      BY <1>3 DEF ConfirmSession, row
    <2>2. QED
      BY <1>1, <2>1, ExpireStep, SameRows, StepNames, BrowserEnd
  <1>4. QED
    BY <1>2, <1>3

\* Rows that go on from the rows as they are, without expire_attempts.
LEMMA PlainStep ==
  ASSUME SessionInv, ses' \in SessionRow, att' \in [Attempts -> AttemptRow],
         ses'.gen >= ses.gen, ses'.enc = ses.enc, ses'.revoked = ses.revoked,
         \A a \in Attempts :
           /\ att'[a].status = "absent" <=> att[a].status = "absent"
           /\ att'[a].qr => att'[a].status = "qr_pending"
           /\ Live(att'[a]) => /\ Live(att[a]) /\ att'[a].gen = att[a].gen
                               /\ ses'.gen = ses.gen,
         UNCHANGED <<barred, known>>
  PROVE  /\ RowsFit(ses', att', barred') /\ WorkersFit(wk, ses'.gen, barred')
         /\ Traced(ses', known')
  <1>1. RowsFit(ses, att, barred) /\ (ses.enc # Nothing => ses.enc >= barred)
    BY DEF SessionInv, RowsFit
  <1>2. RowsFit(ses', att', barred)
    BY <1>1, RowsGoOn
  <1>3. ses.gen \in Nat /\ ses'.gen \in Nat /\ barred \in Nat
    BY <1>1 DEF RowsFit, SessionRow
  <1>4. WorkersFit(wk, ses'.gen, barred)
    BY <1>3, GrowthFits DEF SessionInv
  <1>5. QED
    BY <1>2, <1>4 DEF SessionInv, Traced

LEMMA RejectedType ==
  ASSUME NEW s \in SessionRow, NEW status \in SessionStatuses
  PROVE  LET e == [s EXCEPT !.status = status, !.validated = FALSE, !.old = FALSE]
         IN  e \in SessionRow /\ e.gen = s.gen /\ e.enc = s.enc /\ e.revoked = s.revoked
  BY DEF SessionRow, SessionStatuses

LEMMA RejectSessionInv ==
  ASSUME SessionInv, NEW w \in Workers, RejectSession(w)
  PROVE  SessionInv'
  <1>1. UNCHANGED <<att, file, alert, lock, revokes, barred, known, faults>>
    BY DEF RejectSession, hist
  <1>2. CASE MayConfirm(job(w), ses)
    <2>1. PICK status \in {"expired", "failed"} :
            ses' = [ses EXCEPT !.status = status, !.validated = FALSE, !.old = FALSE]
      BY <1>2 DEF RejectSession
    <2>2. PauseRuns /\ Notify(w, "raised")
      BY <1>2 DEF RejectSession, TellRecheck
    <2>3. ses \in SessionRow /\ status \in SessionStatuses
      BY DEF SessionInv, RowsFit, SessionStatuses
    <2>4. /\ ses' \in SessionRow /\ ses'.gen = ses.gen /\ ses'.enc = ses.enc
          /\ ses'.revoked = ses.revoked
      BY <2>1, <2>3, RejectedType
    <2>5. /\ att' \in [Attempts -> AttemptRow] /\ ses'.gen >= ses.gen
          /\ \A a \in Attempts : att'[a].qr => att'[a].status = "qr_pending"
      BY <1>1, <2>4 DEF SessionInv, RowsFit, SessionRow
    <2>6. /\ RowsFit(ses', att', barred') /\ WorkersFit(wk, ses'.gen, barred')
          /\ Traced(ses', known')
      BY <1>1, <2>4, <2>5, PlainStep
    <2>7. QED
      BY <1>1, <2>2, <2>6, StepNames, BrowserEnd
  <1>3. CASE ~MayConfirm(job(w), ses)
    <2>1. Step(w, "done") /\ UNCHANGED <<ses, pages>>
      BY <1>3 DEF RejectSession
    <2>2. QED
      BY <1>1, <2>1, SameRows, StepNames, BrowserEnd
  <1>4. QED
    BY <1>2, <1>3

-----------------------------------------------------------------------------
(* The worker's process, faults and time *)

LEMMA NotifiedInv ==
  ASSUME SessionInv, NEW w \in Workers, Notified(w)
  PROVE  SessionInv'
  <1>1. /\ Step(w, "done")
        /\ UNCHANGED <<ses, att, file, pages, alert, lock, revokes, barred, known, faults>>
    BY DEF Notified, row, hist
  <1>2. QED
    BY <1>1, SameRows, StepNames, BrowserEnd

\* What a step that only changes a worker and flags has to show.
LEMMA WorkerStep ==
  ASSUME SessionInv, NEW w \in Workers, NEW r \in Worker,
         r.job = wk[w].job \/ r.job = NoJob,
         wk' = [wk EXCEPT ![w] = r], RestFits',
         UNCHANGED <<ses, att, pages, barred, known>>
  PROVE  SessionInv'
  <1>1. /\ RowsFit(ses', att', barred') /\ Traced(ses', known')
        /\ ses'.gen \in Nat /\ barred' \in Nat /\ WorkersFit(wk, ses'.gen, barred')
    BY SameRows
  <1>2. JobFits(r.job, ses'.gen, barred')
    BY <1>1, IdleFits DEF WorkersFit, JobFits, NoJob
  <1>3. WorkersFit(wk', ses'.gen, barred')
    BY <1>1, <1>2, WorkerChanges
  <1>4. QED
    BY <1>1, <1>3, PauseRunsFits DEF SessionInv

LEMMA NotesInv ==
  ASSUME SessionInv, NEW w \in Workers, WriteAlert(w) \/ LoseAlert(w)
  PROVE  SessionInv'
  <1>1. PICK note \in wk[w].notes : wk' = [wk EXCEPT ![w].notes = @ \ {note}]
    BY DEF WriteAlert, LoseAlert
  <1>2. UNCHANGED <<ses, att, file, pages, lock, revokes, barred, known>>
    BY DEF WriteAlert, LoseAlert, row, hist
  <1>3. alert' \in BOOLEAN
    <2>1. CASE WriteAlert(w)
      BY <2>1 DEF WriteAlert
    <2>2. CASE LoseAlert(w)
      BY <2>2 DEF LoseAlert, SessionInv, RestFits
    <2>3. QED
      BY <2>1, <2>2
  <1>4. faults' \in Nat
    BY DEF WriteAlert, LoseAlert, Fault, SessionInv, RestFits
  <1>5. RestFits'
    BY <1>2, <1>3, <1>4 DEF SessionInv, RestFits
  <1> DEFINE n == wk[w].notes \ {note}
             r == [wk[w] EXCEPT !.notes = n]
  <1>6. wk[w] \in Worker /\ n \in SUBSET {"raised", "resolved"}
    BY JobFacts DEF Worker
  <1>7. wk' = [wk EXCEPT ![w] = r]
    BY <1>1
  <1> HIDE DEF n
  <1>8. r \in Worker /\ r.job = wk[w].job
    BY <1>6 DEF Worker
  <1> HIDE DEF r
  <1>9. QED
    BY <1>2, <1>5, <1>7, <1>8, WorkerStep

LEMMA StopWorkerInv ==
  ASSUME SessionInv, NEW w \in Workers, StopWorker(w)
  PROVE  SessionInv'
  <1>1. /\ wk' = [wk EXCEPT ![w] = [wk[w] EXCEPT !.pc = "stopping"]] /\ faults' = faults + 1
        /\ UNCHANGED <<ses, att, file, pages, alert, lock, revokes, barred, known>>
    BY DEF StopWorker, row, hist
  <1>2. faults' \in Nat
    BY <1>1 DEF SessionInv, RestFits
  <1>3. RestFits'
    BY <1>1, <1>2 DEF SessionInv, RestFits
  <1>4. QED
    BY <1>1, <1>3, JobFacts, SameJob, WorkerStep

LEMMA LockType ==
  ASSUME SessionInv, NEW w \in Workers,
         lock' = (IF lock = w THEN None ELSE lock) \/ lock' = None
  PROVE  lock' \in Workers \cup {None}
  BY DEF SessionInv, RestFits

LEMMA CrashWorkerInv ==
  ASSUME SessionInv, NEW w \in Workers, CrashWorker(w)
  PROVE  SessionInv'
  <1>1. /\ wk' = [wk EXCEPT ![w] = Stopped] /\ faults' = faults + 1
        /\ lock' = IF lock = w THEN None ELSE lock
        /\ UNCHANGED <<ses, att, file, pages, alert, revokes, barred, known>>
    BY DEF CrashWorker, Fault, row, hist
  <1>2. faults' \in Nat
    BY <1>1 DEF SessionInv, RestFits
  <1>3. RestFits'
    BY <1>1, <1>2, LockType DEF SessionInv, RestFits
  <1>4. Stopped \in Worker /\ Stopped.job = NoJob
    <2>1. Stopped \in Worker
      BY IdleFits
    <2>2. QED
      BY <2>1 DEF Stopped
  <1>5. QED
    BY <1>1, <1>3, <1>4, WorkerStep

LEMMA LoseLockInv ==
  ASSUME SessionInv, NEW w \in Workers, LoseLock(w)
  PROVE  SessionInv'
  <1>1. /\ lock' = None /\ faults' = faults + 1
        /\ UNCHANGED <<ses, att, file, pages, alert, wk, revokes, barred, known>>
    BY DEF LoseLock, Fault, row, hist
  <1>2. faults' \in Nat
    BY <1>1 DEF SessionInv, RestFits
  <1>3. RestFits'
    BY <1>1, <1>2 DEF SessionInv, RestFits
  <1>4. QED
    BY <1>1, <1>3, SameRows, PauseRunsFits DEF SessionInv

LEMMA DiscardContextsInv ==
  ASSUME SessionInv, NEW w \in Workers, DiscardContexts(w)
  PROVE  SessionInv'
  <1> DEFINE bump == \E a \in LostAttempts(att) : att[a].gen = ses.gen
             s    == [ses EXCEPT !.gen = IF bump THEN @ + 1 ELSE @]
             e    == [s EXCEPT !.status = "failed"]
             r    == [Stopped EXCEPT !.notes = wk[w].notes]
  <1>1. /\ wk' = [wk EXCEPT ![w] = r]
        /\ lock' = IF lock = w THEN None ELSE lock
        /\ UNCHANGED <<file, pages, alert, revokes, barred, known, faults>>
    BY DEF DiscardContexts, hist
  <1>2. RowsFit(ses, att, barred) /\ ses \in SessionRow
    BY DEF SessionInv, RowsFit
  <1>3. RestFits'
    BY <1>1, LockType DEF SessionInv, RestFits
  <1>4. /\ RowsFit(ses', att', barred') /\ WorkersFit(wk, ses'.gen, barred')
        /\ Traced(ses', known')
    <2>1. CASE job(w).kind = "none"
      <3>1. UNCHANGED <<ses, att, barred, known>>
        BY <1>1, <2>1 DEF DiscardContexts, row
      <3>2. QED
        BY <3>1, SameRows
    <2>2. CASE job(w).kind # "none"
      <3>1. /\ att' = [a \in Attempts |->
                  IF a \in LostAttempts(att) THEN Ended(att[a], "failed") ELSE att[a]]
            /\ ses' = Touch(e) \/ ses' = s
        BY <2>2 DEF DiscardContexts
      <3>2. bump \in BOOLEAN
        OBVIOUS
      <3>3. /\ s \in SessionRow /\ s.gen >= ses.gen /\ s.enc = ses.enc
            /\ s.revoked = ses.revoked /\ (~bump => s.gen = ses.gen)
        <4> HIDE DEF bump
        <4>1. QED
          BY <1>2, <3>2, BumpType
      <3> HIDE DEF s
      <3>4. e \in SessionRow /\ e.gen = s.gen /\ e.enc = s.enc /\ e.revoked = s.revoked
        BY <3>3, FailedType DEF SessionStatuses
      <3> HIDE DEF e
      <3>5. /\ ses' \in SessionRow /\ ses'.gen = s.gen /\ ses'.enc = ses.enc
            /\ ses'.revoked = ses.revoked
        BY <3>1, <3>3, <3>4, TouchType
      <3>6. \A a \in Attempts :
              /\ att'[a] \in AttemptRow
              /\ att'[a].status = "absent" <=> att[a].status = "absent"
              /\ att'[a].qr => att'[a].status = "qr_pending"
              /\ Live(att'[a]) => a \notin LostAttempts(att) /\ att'[a] = att[a]
        <4>1. ASSUME NEW a \in Attempts, a \in LostAttempts(att)
              PROVE  /\ att'[a] = Ended(att[a], "failed") /\ att[a] \in AttemptRow
                     /\ att[a].status # "absent"
          BY <1>2, <3>1, <4>1 DEF LostAttempts, Opened, RowsFit
        <4>2. ASSUME NEW a \in Attempts, a \notin LostAttempts(att)
              PROVE  att'[a] = att[a] /\ att[a] \in AttemptRow
          BY <1>2, <3>1, <4>2 DEF RowsFit
        <4>3. QED
          BY <1>2, <4>1, <4>2, EndedType DEF RowsFit
      <3>7. att' \in [Attempts -> AttemptRow]
        BY <3>1, <3>6
      <3>8. ASSUME NEW a \in Attempts, Live(att'[a]) PROVE ~bump
        <4>1. ASSUME NEW b \in LostAttempts(att) PROVE FALSE
          <5>1. b \in Attempts /\ Live(att[b])
            BY <4>1 DEF LostAttempts, Live, Opened, ActiveAttempts
          <5>2. a = b
            BY <1>2, <3>6, <3>8, <5>1 DEF RowsFit
          <5>3. QED
            BY <3>6, <3>8, <4>1, <5>2
        <4>2. QED
          BY <4>1
      <3> HIDE DEF bump
      <3>9. \A a \in Attempts :
              Live(att'[a]) => /\ Live(att[a]) /\ att'[a].gen = att[a].gen
                               /\ ses'.gen = ses.gen
        BY <3>3, <3>5, <3>6, <3>8
      <3>10. ses'.gen >= ses.gen
        BY <3>3, <3>5
      <3>11. QED
        BY <1>1, <3>5, <3>6, <3>7, <3>9, <3>10, PlainStep
    <2>3. QED
      BY <2>1, <2>2
  <1>5. ses'.gen \in Nat /\ barred' \in Nat
    BY <1>4 DEF RowsFit, SessionRow
  <1>6. wk[w].notes \in SUBSET {"raised", "resolved"}
    BY JobFacts DEF Worker
  <1>7. r \in Worker /\ JobFits(r.job, ses'.gen, barred')
    BY <1>5, <1>6, IdleFits
  <1> HIDE DEF r
  <1>8. WorkersFit(wk', ses'.gen, barred')
    BY <1>1, <1>4, <1>5, <1>7, WorkerChanges
  <1>9. QED
    BY <1>1, <1>3, <1>4, <1>8, PauseRunsFits DEF SessionInv

LEMMA AttemptDueInv ==
  ASSUME SessionInv, NEW a \in Attempts, AttemptDue(a)
  PROVE  SessionInv'
  <1> DEFINE n == [att[a] EXCEPT !.due = TRUE]
  <1>1. /\ att' = [att EXCEPT ![a] = n]
        /\ UNCHANGED <<ses, file, pages, alert, wk, lock, revokes, barred, known, faults>>
    BY DEF AttemptDue, hist
  <1>2. att[a] \in AttemptRow /\ att \in [Attempts -> AttemptRow] /\ ses \in SessionRow
    BY DEF SessionInv, RowsFit
  <1>3. n \in AttemptRow /\ n.status = att[a].status /\ n.gen = att[a].gen /\ n.qr = att[a].qr
    BY <1>2 DEF AttemptRow
  <1> HIDE DEF n
  <1>4. /\ att' \in [Attempts -> AttemptRow] /\ att'[a] = n
        /\ \A b \in Attempts \ {a} : att'[b] = att[b]
    BY <1>1, <1>2, <1>3
  <1>5. \A b \in Attempts :
          /\ att'[b].status = att[b].status /\ att'[b].gen = att[b].gen
          /\ att'[b].qr => att'[b].status = "qr_pending"
    BY <1>3, <1>4 DEF SessionInv, RowsFit
  <1>6. ses' \in SessionRow /\ ses'.gen >= ses.gen
    BY <1>1, <1>2 DEF SessionRow
  <1>7. /\ RowsFit(ses', att', barred') /\ WorkersFit(wk, ses'.gen, barred')
        /\ Traced(ses', known')
    BY <1>1, <1>4, <1>5, <1>6, PlainStep DEF Live
  <1>8. QED
    BY <1>1, <1>7, SameRest DEF SessionInv

LEMMA SessionAgesInv ==
  ASSUME SessionInv, SessionAges
  PROVE  SessionInv'
  <1> DEFINE e == [ses EXCEPT !.old = TRUE]
  <1>1. /\ ses' = e
        /\ UNCHANGED <<att, file, pages, alert, wk, lock, revokes, barred, known, faults>>
    BY DEF SessionAges, hist
  <1>2. /\ e \in SessionRow /\ e.gen = ses.gen /\ e.enc = ses.enc /\ e.revoked = ses.revoked
        /\ e.gen >= ses.gen
    <2>1. ses \in SessionRow
      BY DEF SessionInv, RowsFit
    <2>2. e \in SessionRow
      BY <2>1, SetOld
    <2>3. /\ e.gen = ses.gen /\ e.enc = ses.enc /\ e.revoked = ses.revoked
          /\ ses.gen \in Nat
      BY <2>1 DEF SessionRow
    <2>4. QED
      BY <2>2, <2>3
  <1> HIDE DEF e
  <1>3. /\ att' \in [Attempts -> AttemptRow]
        /\ \A a \in Attempts : att'[a].qr => att'[a].status = "qr_pending"
    BY <1>1 DEF SessionInv, RowsFit
  <1>4. /\ RowsFit(ses', att', barred') /\ WorkersFit(wk, ses'.gen, barred')
        /\ Traced(ses', known')
    BY <1>1, <1>2, <1>3, PlainStep
  <1>5. QED
    BY <1>1, <1>4, SameRest DEF SessionInv

-----------------------------------------------------------------------------
(* The page worker *)

LEMMA PageInv ==
  ASSUME SessionInv, Page
  PROVE  SessionInv'
  <1>1. UNCHANGED <<ses, att, wk, barred, known, file, alert, lock, revokes, faults>>
    BY DEF Page, ClaimPage, OpenPage, OpenAnonymous, PageNeedsLogin, CommitPage, CommitRefused,
           row, hist
  <1>2. PlacesFit(rt', run')
    BY DEF Page, ClaimPage, OpenPage, OpenAnonymous, PageNeedsLogin, CommitPage, CommitRefused,
           SessionInv, PlacesFit
  <1>3. reader \in Reader /\ NoReader \in Reader /\ NoReader.from = Nothing
    BY OriginsType DEF SessionInv, ReaderFits, Reader, NoReader
  <1>4. ReaderFits(reader', barred)
    <2>1. CASE ClaimPage
      BY <2>1, OriginsType DEF ClaimPage, ReaderFits, Reader
    <2>2. CASE OpenPage
      <3> DEFINE r == [reader EXCEPT !.pc = "reading", !.from = ses.enc]
      <3>1. ses.enc \in Origins /\ ses.enc >= barred /\ barred \in Nat
        BY <2>2 DEF OpenPage, SessionInv, RowsFit, SessionRow
      <3>2. r \in Reader /\ r.from = ses.enc
        BY <1>3, <3>1 DEF Reader
      <3>3. reader' = r
        BY <2>2 DEF OpenPage
      <3> HIDE DEF r
      <3>4. ~(ses.enc < barred)
        BY <3>1, BoundsAssumption DEF Origins
      <3>5. QED
        BY <3>2, <3>3, <3>4 DEF ReaderFits
    <2>3. CASE OpenAnonymous
      <3> DEFINE r == [reader EXCEPT !.pc = "reading"]
      <3>1. reader' = r
        BY <2>3 DEF OpenAnonymous
      <3>2. r \in Reader /\ r.from = reader.from /\ r.current = reader.current
        BY <1>3 DEF Reader
      <3> HIDE DEF r
      <3>3. QED
        BY <3>1, <3>2 DEF ReaderFits, SessionInv
    <2>4. CASE PageNeedsLogin \/ CommitPage \/ CommitRefused
      BY <1>3, <2>4 DEF PageNeedsLogin, CommitPage, CommitRefused, ReaderFits
    <2>5. QED
      BY <2>1, <2>2, <2>3, <2>4 DEF Page
  <1>5. QED
    BY <1>1, <1>2, <1>4, SameRows, SameFlags DEF SessionInv

-----------------------------------------------------------------------------
(* The specification *)

LEMMA InitInv == Init => SessionInv
  <1> SUFFICES ASSUME Init PROVE SessionInv
    OBVIOUS
  <1>1. NoAttempt \in AttemptRow /\ NoAttempt.status = "absent" /\ ~NoAttempt.qr
    BY DEF NoAttempt, AttemptRow
  <1>2. RowsFit(ses, att, barred)
    <2>1. ses \in SessionRow /\ ses.enc = Nothing /\ ses.gen = 0
      BY OriginsType DEF Init, SessionRow
    <2>2. /\ att \in [Attempts -> AttemptRow]
          /\ \A a \in Attempts : att[a] = NoAttempt /\ ~Live(att[a])
      BY <1>1 DEF Init, Live, ActiveAttempts
    <2>3. \A a \in Attempts : Origin(a) >= 0
      BY OriginsType DEF Origin
    <2>4. barred = 0
      BY DEF Init, Nothing
    <2>5. QED
      BY <1>1, <2>1, <2>2, <2>3, <2>4 DEF RowsFit
  <1>3. WorkersFit(wk, ses.gen, barred)
    <2>1. ses.gen \in Nat /\ barred \in Nat
      BY DEF Init, Nothing
    <2>2. Stopped \in Worker /\ JobFits(Stopped.job, ses.gen, barred)
      BY <2>1, IdleFits
    <2>3. wk = [w \in Workers |-> Stopped]
      BY DEF Init
    <2>4. QED
      BY <2>2, <2>3 DEF WorkersFit
  <1>4. Traced(ses, known) /\ PlacesFit(rt, run) /\ RestFits
    BY DEF Init, Traced, PlacesFit, RestFits
  <1>5. ReaderFits(reader, barred)
    BY OriginsType DEF Init, ReaderFits, Reader, NoReader
  <1>6. QED
    BY <1>2, <1>3, <1>4, <1>5 DEF SessionInv

LEMMA StepInv == SessionInv /\ [Next]_vars => SessionInv'
  <1> SUFFICES ASSUME SessionInv, [Next]_vars PROVE SessionInv'
    OBVIOUS
  <1>1. CASE Administrator
    BY <1>1, NewAttemptInv, PollAttemptInv, RevokeSessionInv, RevokeLostInv, CancelAttemptInv
       DEF Administrator
  <1>2. CASE Time
    BY <1>2, SessionAgesInv, AttemptDueInv DEF Time
  <1>3. CASE Page
    BY <1>3, PageInv
  <1>4. CASE Faults
    BY <1>4, StopWorkerInv, CrashWorkerInv, LoseLockInv, NotesInv DEF Faults
  <1>5. CASE \E w \in Workers : Process(w)
    <2>1. PICK w \in Workers : Process(w)
      BY <1>5
    <2>2. CASE Browser(w)
      BY <2>2, PublishQrInv, ConfirmingInv, OpenFreshInv, FinishAttemptInv, PublishLoginInv,
         ConfirmSessionInv, RejectSessionInv DEF Browser
    <2>3. CASE ~Browser(w)
      BY <2>1, <2>3, StartWorkerInv, BootstrapInv, LoopInv, GuardInv, NotifiedInv, NotesInv,
         DiscardContextsInv DEF Process
    <2>4. QED
      BY <2>2, <2>3
  <1>6. CASE UNCHANGED vars
    <2>1. UNCHANGED <<ses, att, file, rt, run, reader, alert, wk, lock, revokes, barred, known,
                      faults>>
      BY <1>6 DEF vars, row, pages, hist
    <2>2. QED
      BY <2>1 DEF SessionInv, RestFits
  <1>7. QED
    BY <1>1, <1>2, <1>3, <1>4, <1>5, <1>6 DEF Next

\* The inductive invariant of the login session (sessions.py, session_worker.py).
THEOREM SessionInvariant == Spec => []SessionInv
  BY InitInv, StepInv, PTL DEF Spec

\* Every variable keeps its type.
THEOREM SessionTypeCorrect == Spec => []TypeOK
  <1>1. SessionInv => TypeOK
    BY DEF SessionInv, TypeOK, RowsFit, WorkersFit, Traced, ReaderFits, Reader, PlacesFit,
           RestFits, Worker
  <1>2. QED
    BY <1>1, SessionInvariant, PTL

\* At most one login attempt is open, it alone carries the generation that lets
\* its browser write, and a QR code is stored only while it is shown
\* (create_attempt, cancel_attempt, _finish_attempt).
THEOREM OneLiveAttemptHolds == Spec => []OneLiveAttempt
  <1>1. SessionInv => OneLiveAttempt
    BY DEF SessionInv, RowsFit, OneLiveAttempt
  <1>2. QED
    BY <1>1, SessionInvariant, PTL

\* A page that was read with revoked credentials is fenced (pause_source_runs).
THEOREM RevokedReadsFencedHolds == Spec => []RevokedReadsFenced
  <1>1. SessionInv => RevokedReadsFenced
    BY DEF SessionInv, ReaderFits, RevokedReadsFenced
  <1>2. QED
    BY <1>1, SessionInvariant, PTL

\* Stored credentials are never those of a login that was revoked: a recheck, an
\* older attempt and the local file are all held back (_publish_session, bootstrap).
RevokedStaysOut == ses.enc # Nothing => ses.enc >= barred

THEOREM RevokedStaysOutHolds == Spec => []RevokedStaysOut
  <1>1. SessionInv => RevokedStaysOut
    BY DEF SessionInv, RowsFit, RevokedStaysOut
  <1>2. QED
    BY <1>1, SessionInvariant, PTL

\* A source whose credentials were stored or revoked once is never read without
\* any (load_session).
THEOREM NeverAnonymousAgainHolds == Spec => []NeverAnonymousAgain
  <1>1. SessionInv => NeverAnonymousAgain
    BY DEF SessionInv, Traced, NeverAnonymousAgain, HasRuntimeSession
  <1>2. QED
    BY <1>1, SessionInvariant, PTL

-----------------------------------------------------------------------------
(* A worker that takes over.  The generation alone does not keep an old      *)
(* login out: a recheck of the login stored before and a new login can be    *)
(* under way in one generation.  What keeps them apart is the advisory lock, *)
(* the restart of bootstrap, which ends the attempts it finds open, and that *)
(* a worker without the lock ends at most one more step of its browser.      *)

\* The steps of a login whose attempt is open.
Shown == {"confirm", "domains", "fresh"}

\* A recheck, and a login, that can still write.
Rechecks(v) == /\ wk[v].pc = "running" /\ job(v).kind = "verify"
               /\ job(v).step = "domains" /\ job(v).gen = ses.gen
LogsIn(w) == /\ wk[w].pc = "running" /\ job(w).kind = "login" /\ job(w).step \in Shown
             /\ ~wk[w].late /\ job(w).gen = ses.gen /\ Live(att[job(w).att])

\* No other worker has the lock, or it has yet to run bootstrap.
Holds(w) == lock \in {w, None} \/ wk[lock].pc = "boot"

RecheckFits(v) ==
  /\ job(v).from = ses.enc
  /\ \A a \in Attempts : att[a].status # "queued"
  /\ (\E a \in Attempts : Live(att[a])) => Holds(v)
  /\ \A w \in Workers : ~LogsIn(w)

LoginFits(w) == att[job(w).att].status # "queued" /\ Holds(w)

\* Attempts that may still bring a login are of later logins than the stored one.
Later ==
  \A a \in Attempts : Live(att[a]) \/ att[a].status = "absent" => Origin(a) >= ses.enc

Apart == \A v \in Workers : /\ Rechecks(v) => RecheckFits(v)
                            /\ LogsIn(v) => LoginFits(v)

\* A worker before bootstrap has no job.
BootIdle == \A w \in Workers : wk[w].pc = "boot" => job(w).kind = "none"

TakeoverInv == Later /\ Apart /\ BootIdle

\* What most steps do to the rows, to the lock and to a job.
RowsMove ==
  /\ ses'.gen \in Nat /\ ses'.gen >= ses.gen
  /\ ses'.enc = ses.enc \/ (ses'.enc = Nothing /\ ses'.gen > ses.gen)
  /\ \A a \in Attempts :
       /\ att'[a].status = "absent" => att[a].status = "absent"
       /\ Live(att'[a]) => \/ Live(att[a])
                           \/ att[a].status = "absent" /\ ses'.gen > ses.gen
       /\ att'[a].status = "queued" => att[a].status = "queued" \/ ses'.gen > ses.gen

LockMoves ==
  \/ lock' = None
  \/ wk'[lock'].pc = "boot"
  \/ lock' = lock /\ (wk[lock].pc = "boot" => wk'[lock].pc = "boot")

JobMoves(v) ==
  /\ wk'[v].pc = "boot" => \/ wk'[v].job.kind = "none"
                           \/ wk[v].pc = "boot" /\ wk'[v].job.kind = job(v).kind
  /\ wk'[v].pc = "running" =>
    /\ wk[v].pc = "running"
    /\ wk'[v].job.kind = job(v).kind /\ wk'[v].job.gen = job(v).gen
    /\ wk'[v].job.att = job(v).att /\ wk'[v].job.from = job(v).from
    /\ job(v).kind = "verify" /\ wk'[v].job.step = "domains" => job(v).step = "domains"
    /\ job(v).kind = "login" /\ wk'[v].job.step \in Shown =>
         job(v).step \in Shown /\ (~wk'[v].late => ~wk[v].late)

JobsMove == \A v \in Workers : JobMoves(v)

LEMMA EncType ==
  ASSUME SessionInv
  PROVE  /\ ses.enc \in Nat /\ ses.gen \in Nat
         /\ \A a \in Attempts : Origin(a) \in Nat /\ Origin(a) >= LocalFile /\ Origin(a) > Nothing
  <1>1. ses.enc \in Origins /\ ses.gen \in Nat /\ Origins \subseteq Nat
    BY BoundsAssumption DEF SessionInv, RowsFit, SessionRow, Origins
  <1>2. \A a \in Attempts : a \in Nat /\ a >= 1
    BY BoundsAssumption DEF Attempts
  <1>3. ses.enc \in Nat
    BY <1>1
  <1>4. \A a \in Attempts : Origin(a) \in Nat /\ Origin(a) >= LocalFile /\ Origin(a) > Nothing
    BY <1>2 DEF Origin, LocalFile, Nothing
  <1>5. QED
    BY <1>1, <1>3, <1>4

LEMMA RowsStayLater ==
  ASSUME SessionInv, Later, RowsMove
  PROVE  Later'
  <1>1. ASSUME NEW a \in Attempts, Live(att'[a]) \/ att'[a].status = "absent"
        PROVE  Origin(a) >= ses'.enc
    <2>1. Live(att[a]) \/ att[a].status = "absent"
      BY <1>1 DEF RowsMove
    <2>2. Origin(a) >= ses.enc /\ Origin(a) \in Nat /\ Origin(a) > Nothing
      BY <2>1, EncType DEF Later
    <2>3. QED
      BY <2>2 DEF RowsMove, Nothing
  <1>2. QED
    BY <1>1 DEF Later, Live

\* Within a generation a step of this kind brings no recheck and no login.
LEMMA MovedJobs ==
  ASSUME SessionInv, RowsMove, NEW v \in Workers, JobMoves(v)
  PROVE  /\ Rechecks(v)' => Rechecks(v) /\ ses'.gen = ses.gen /\ wk'[v].job.from = job(v).from
         /\ LogsIn(v)' => LogsIn(v) /\ ses'.gen = ses.gen /\ wk'[v].job.att = job(v).att
  <1>1. /\ JobFits(job(v), ses.gen, barred) /\ ses.gen \in Nat /\ job(v).gen \in Nat
        /\ job(v).kind = "login" => job(v).att \in Attempts
    BY JobFacts DEF Job
  <1>2. ses'.gen \in Nat /\ ses'.gen >= ses.gen
    BY DEF RowsMove
  <1>3. ASSUME Rechecks(v)'
        PROVE  Rechecks(v) /\ ses'.gen = ses.gen /\ wk'[v].job.from = job(v).from
    <2>1. /\ wk'[v].pc = "running" /\ wk'[v].job.kind = "verify"
          /\ wk'[v].job.step = "domains" /\ wk'[v].job.gen = ses'.gen
      BY <1>3 DEF Rechecks, job
    <2>2. /\ wk[v].pc = "running" /\ job(v).kind = "verify" /\ job(v).step = "domains"
          /\ job(v).gen = ses'.gen /\ wk'[v].job.from = job(v).from
      BY <1>2, <2>1 DEF JobMoves
    <2>3. job(v).gen <= ses.gen
      BY <1>1, <2>2 DEF JobFits
    <2>4. ses'.gen = ses.gen
      BY <1>1, <1>2, <2>2, <2>3
    <2>5. QED
      BY <2>2, <2>4 DEF Rechecks
  <1>4. ASSUME LogsIn(v)'
        PROVE  LogsIn(v) /\ ses'.gen = ses.gen /\ wk'[v].job.att = job(v).att
    <2>1. /\ wk'[v].pc = "running" /\ wk'[v].job.kind = "login" /\ wk'[v].job.step \in Shown
          /\ ~wk'[v].late /\ wk'[v].job.gen = ses'.gen /\ Live(att'[wk'[v].job.att])
      BY <1>4 DEF LogsIn, job, Live
    <2>2. /\ wk[v].pc = "running" /\ job(v).kind = "login" /\ job(v).step \in Shown
          /\ ~wk[v].late /\ job(v).gen = ses'.gen /\ wk'[v].job.att = job(v).att
      BY <1>2, <2>1 DEF JobMoves
    <2>3. job(v).gen <= ses.gen
      BY <1>1, <2>2 DEF JobFits
    <2>4. ses'.gen = ses.gen
      BY <1>1, <1>2, <2>2, <2>3
    <2>5. Live(att[job(v).att])
      BY <1>1, <2>1, <2>2, <2>4 DEF RowsMove
    <2>6. QED
      BY <2>2, <2>4, <2>5 DEF LogsIn
  <1>5. QED
    BY <1>3, <1>4

LEMMA HoldsOn ==
  ASSUME SessionInv, LockMoves, NEW w \in Workers, Holds(w)
  PROVE  Holds(w)'
  BY DEF Holds, LockMoves

LEMMA Carried ==
  ASSUME SessionInv, TakeoverInv, RowsMove, LockMoves, JobsMove
  PROVE  TakeoverInv'
  <1>1. Later'
    BY RowsStayLater DEF TakeoverInv
  <1>2. ses.gen \in Nat /\ \A v \in Workers : job(v).kind = "login" => job(v).att \in Attempts
    BY JobFacts DEF SessionInv, RowsFit, SessionRow
  <1>3. ASSUME NEW v \in Workers, Rechecks(v)' PROVE RecheckFits(v)'
    <2>1. Rechecks(v) /\ ses'.gen = ses.gen /\ wk'[v].job.from = job(v).from
      BY <1>3, MovedJobs DEF JobsMove
    <2>2. RecheckFits(v)
      BY <2>1 DEF TakeoverInv, Apart
    <2>3. wk'[v].job.from = ses'.enc
      BY <1>2, <2>1, <2>2 DEF RecheckFits, RowsMove
    <2>4. \A a \in Attempts : att'[a].status # "queued"
      BY <1>2, <2>1, <2>2 DEF RecheckFits, RowsMove
    <2>5. (\E a \in Attempts : Live(att'[a])) => Holds(v)'
      BY <1>2, <2>1, <2>2, HoldsOn DEF RecheckFits, RowsMove
    <2>6. \A w \in Workers : ~LogsIn(w)'
      BY <2>2, MovedJobs DEF RecheckFits, JobsMove
    <2>7. QED
      BY <2>3, <2>4, <2>5, <2>6 DEF RecheckFits, job, Live
  <1>4. ASSUME NEW v \in Workers, LogsIn(v)' PROVE LoginFits(v)'
    <2>1. LogsIn(v) /\ ses'.gen = ses.gen /\ wk'[v].job.att = job(v).att
      BY <1>4, MovedJobs DEF JobsMove
    <2>2. LoginFits(v) /\ job(v).att \in Attempts
      BY <1>2, <2>1 DEF TakeoverInv, Apart, LogsIn
    <2>3. att'[job(v).att].status # "queued"
      BY <1>2, <2>1, <2>2 DEF RowsMove, LoginFits
    <2>4. Holds(v)'
      BY <2>2, HoldsOn DEF LoginFits
    <2>5. QED
      BY <2>1, <2>3, <2>4 DEF LoginFits, job
  <1>5. BootIdle'
    BY DEF TakeoverInv, BootIdle, JobsMove, JobMoves, job
  <1>6. QED
    BY <1>1, <1>3, <1>4, <1>5 DEF TakeoverInv, Apart

\* Only worker w changes, and its job goes on to step s.
Changed(w, s) ==
  /\ \A v \in Workers \ {w} : wk'[v] = wk[v]
  /\ wk'[w].pc = wk[w].pc /\ wk'[w].late = (lock # w)
  /\ wk'[w].job.kind = job(w).kind /\ wk'[w].job.gen = job(w).gen
  /\ wk'[w].job.att = job(w).att /\ wk'[w].job.from = job(w).from
  /\ wk'[w].job.step = s

LEMMA StepChanges ==
  ASSUME SessionInv, NEW w \in Workers, NEW s, Step(w, s)
  PROVE  Changed(w, s)
  <1>1. wk \in [Workers -> Worker] /\ wk[w].job \in Job
    BY JobFacts DEF SessionInv, WorkersFit, job
  <1> DEFINE j == [wk[w].job EXCEPT !.step = s]
             l == lock # w
             r == [wk[w] EXCEPT !.job = j, !.late = l]
  <1>2. wk' = [wk EXCEPT ![w] = r]
    BY <1>1 DEF Step, Worker
  <1>3. /\ j.kind = job(w).kind /\ j.gen = job(w).gen /\ j.att = job(w).att
        /\ j.from = job(w).from /\ j.step = s
    BY <1>1 DEF Job, job
  <1> HIDE DEF j, l
  <1>4. r.job = j /\ r.pc = wk[w].pc /\ r.late = l
    BY <1>1 DEF Worker
  <1> HIDE DEF r
  <1>5. wk'[w] = r /\ \A v \in Workers \ {w} : wk'[v] = wk[v]
    BY <1>1, <1>2
  <1>6. QED
    BY <1>3, <1>4, <1>5 DEF Changed, l

LEMMA NotifyChanges ==
  ASSUME SessionInv, NEW w \in Workers, NEW note, Notify(w, note)
  PROVE  Changed(w, "notify")
  <1>1. wk \in [Workers -> Worker] /\ wk[w].job \in Job
    BY JobFacts DEF SessionInv, WorkersFit, job
  <1> DEFINE j == [wk[w].job EXCEPT !.step = "notify"]
             l == lock # w
             n == wk[w].notes \cup {note}
             r == [wk[w] EXCEPT !.job = j, !.notes = n, !.late = l]
  <1>2. wk' = [wk EXCEPT ![w] = r]
    BY <1>1 DEF Notify, Worker
  <1>3. /\ j.kind = job(w).kind /\ j.gen = job(w).gen /\ j.att = job(w).att
        /\ j.from = job(w).from /\ j.step = "notify"
    BY <1>1 DEF Job, job
  <1> HIDE DEF j, l, n
  <1>4. r.job = j /\ r.pc = wk[w].pc /\ r.late = l
    BY <1>1 DEF Worker
  <1> HIDE DEF r
  <1>5. wk'[w] = r /\ \A v \in Workers \ {w} : wk'[v] = wk[v]
    BY <1>1, <1>2
  <1>6. QED
    BY <1>3, <1>4, <1>5 DEF Changed, l

LEMMA SameWorkers ==
  ASSUME SessionInv, UNCHANGED wk, UNCHANGED lock \/ lock' = None
  PROVE  LockMoves /\ JobsMove
  BY DEF LockMoves, JobsMove, JobMoves, job

\* A job that has nothing to write any more, or a login that goes on.
LEMMA ChangedMoves ==
  ASSUME SessionInv, NEW w \in Workers, NEW s, Changed(w, s), UNCHANGED lock,
         \/ s \in {"done", "notify"}
         \/ job(w).kind = "login" /\ job(w).step \in Shown /\ ~wk[w].late
  PROVE  LockMoves /\ JobsMove
  <1>1. lock \in Workers \cup {None}
    BY DEF SessionInv, RestFits
  <1>2. LockMoves
    BY <1>1 DEF LockMoves, Changed
  <1>3. ASSUME NEW v \in Workers PROVE JobMoves(v)
    <2>1. CASE v # w
      BY <2>1 DEF Changed, JobMoves, job
    <2>2. CASE v = w
      BY <2>2 DEF Changed, JobMoves, job, Shown
    <2>3. QED
      BY <2>1, <2>2
  <1>4. QED
    BY <1>2, <1>3 DEF JobsMove

\* A worker that stops, dies or starts again.
LEMMA ReplacedMoves ==
  ASSUME SessionInv, NEW w \in Workers, NEW r, wk' = [wk EXCEPT ![w] = r],
         \/ r.pc \notin {"running", "boot"}
         \/ r.pc = "boot" /\ r.job.kind = "none"
         \/ r.pc = wk[w].pc /\ r.job = wk[w].job /\ r.late = wk[w].late,
         \/ UNCHANGED lock /\ (wk[w].pc = "boot" => r.pc = "boot")
         \/ lock' = None
         \/ lock' = (IF lock = w THEN None ELSE lock)
         \/ lock' = w /\ r.pc = "boot"
  PROVE  LockMoves /\ JobsMove
  <1>1. wk \in [Workers -> Worker] /\ lock \in Workers \cup {None}
    BY DEF SessionInv, WorkersFit, RestFits
  <1>2. wk'[w] = r /\ \A v \in Workers \ {w} : wk'[v] = wk[v]
    BY <1>1
  <1>3. LockMoves
    BY <1>1, <1>2 DEF LockMoves
  <1>4. JobsMove
    BY <1>2 DEF JobsMove, JobMoves, job
  <1>5. QED
    BY <1>3, <1>4

LEMMA PlainMove ==
  ASSUME SessionInv, ses'.gen = ses.gen, ses'.enc = ses.enc,
         \A a \in Attempts : att'[a].status = att[a].status
  PROVE  RowsMove
  BY EncType DEF RowsMove, Live

LEMMA SameMove ==
  ASSUME SessionInv, UNCHANGED <<ses, att>>
  PROVE  RowsMove
  BY PlainMove

\* Rows that go on from what expire_attempts leaves.
LEMMA ExpiredMove ==
  ASSUME SessionInv, ses'.gen \in Nat, ses'.gen >= ExpiredSession.gen, ses'.enc = ses.enc,
         \A a \in Attempts :
           /\ att'[a].status = "absent" => ExpiredAttempts[a].status = "absent"
           /\ Live(att'[a]) => Live(ExpiredAttempts[a])
           /\ att'[a].status = "queued" => ExpiredAttempts[a].status = "queued"
  PROVE  RowsMove
  <1>1. RowsFit(ses, att, barred)
    BY DEF SessionInv
  <1>2. /\ ExpiredSession.gen \in Nat /\ ses.gen \in Nat /\ ExpiredSession.gen >= ses.gen
        /\ \A a \in Attempts :
             /\ ExpiredAttempts[a].status = "absent" => att[a].status = "absent"
             /\ Live(ExpiredAttempts[a]) => ExpiredAttempts[a] = att[a]
    BY <1>1, ExpiredFacts, ExpiredStay, EncType
  <1>3. ses'.gen >= ses.gen
    BY <1>2
  <1>4. \A a \in Attempts : att'[a].status = "queued" => att[a].status = "queued"
    BY <1>2 DEF Live, ActiveAttempts
  <1>5. QED
    BY <1>2, <1>3, <1>4 DEF RowsMove

LEMMA ExpireMove ==
  ASSUME SessionInv, Expire
  PROVE  RowsMove
  BY ExpiredMove, ExpireStep, ExpiredStay DEF Expire

-----------------------------------------------------------------------------
(* The steps that open no new job *)

Moves == RowsMove /\ LockMoves /\ JobsMove

LEMMA NewAttemptMoves == SessionInv /\ NewAttempt => Moves
  <1> SUFFICES ASSUME SessionInv, NewAttempt PROVE Moves
    OBVIOUS
  <1>1. PICK a \in Attempts \ Created :
          /\ ses' = Touch([ExpiredSession EXCEPT !.gen = @ + 1,
                !.status = IF @ = "authenticated" THEN @ ELSE "qr_pending"])
          /\ att' = [b \in Attempts |->
               IF b = a THEN [NoAttempt EXCEPT !.status = "queued", !.gen = ExpiredSession.gen + 1]
               ELSE IF Live(ExpiredAttempts[b]) THEN Ended(att[b], "cancelled")
               ELSE ExpiredAttempts[b]]
    BY DEF NewAttempt
  <1> DEFINE s == [ExpiredSession EXCEPT !.gen = @ + 1,
                      !.status = IF @ = "authenticated" THEN @ ELSE "qr_pending"]
  <1>2. RowsFit(ses, att, barred)
    BY DEF SessionInv
  <1>3. ses'.gen = ExpiredSession.gen + 1 /\ ses'.enc = ses.enc
    <2>1. s \in SessionRow /\ s.gen = ExpiredSession.gen + 1 /\ s.enc = ExpiredSession.enc
      BY ExpiredStay, AnnouncedType
    <2> HIDE DEF s
    <2>2. QED
      BY <1>1, <2>1, TouchType, ExpiredStay DEF s
  <1>4. /\ ses'.gen \in Nat /\ ses'.gen > ses.gen /\ ses.gen \in Nat
    BY <1>2, <1>3, ExpiredFacts, ExpiredStay, EncType
  <1>5. att[a].status = "absent" /\ a \in Attempts
    BY DEF Created
  <1>6. ASSUME NEW b \in Attempts, b # a
        PROVE  /\ att'[b].status = "absent" => att[b].status = "absent"
               /\ ~Live(att'[b])
    <2>1. CASE Live(ExpiredAttempts[b])
      <3>1. att'[b] = Ended(att[b], "cancelled") /\ att[b] \in AttemptRow
        BY <1>1, <1>2, <1>6, <2>1 DEF RowsFit
      <3>2. QED
        BY <3>1, EndedType
    <2>2. CASE ~Live(ExpiredAttempts[b])
      BY <1>1, <1>6, <2>2, ExpiredStay
    <2>3. QED
      BY <2>1, <2>2
  <1>7. RowsMove
    BY <1>3, <1>4, <1>5, <1>6 DEF RowsMove
  <1>8. UNCHANGED wk /\ UNCHANGED lock
    BY DEF NewAttempt
  <1>9. QED
    BY <1>7, <1>8, SameWorkers DEF Moves

LEMMA CancelAttemptMoves ==
  ASSUME SessionInv, NEW a \in Attempts, CancelAttempt(a)
  PROVE  Moves
  <1>1. UNCHANGED wk /\ UNCHANGED lock
    BY DEF CancelAttempt
  <1>2. CASE ~Live(ExpiredAttempts[a])
    <2>1. Expire
      BY <1>2 DEF CancelAttempt
    <2>2. QED
      BY <1>1, <2>1, ExpireMove, SameWorkers DEF Moves
  <1>3. CASE Live(ExpiredAttempts[a])
    <2> DEFINE s == [ExpiredSession EXCEPT !.gen = @ + 1,
                       !.status = IF @ = "qr_pending" THEN "unauthenticated" ELSE @]
    <2>1. /\ ses' = CancelledSession(ExpiredSession, a)
          /\ att' = [ExpiredAttempts EXCEPT ![a] = Ended(@, "cancelled")]
      BY <1>3 DEF CancelAttempt
    <2>2. s \in SessionRow /\ s.gen = ExpiredSession.gen + 1 /\ s.enc = ExpiredSession.enc
      BY ExpiredStay, CancelledType
    <2>3. ses' = ExpiredSession \/ ses' = Touch(s)
      BY <2>1 DEF CancelledSession
    <2> HIDE DEF s
    <2>4. ses'.gen \in Nat /\ ses'.gen >= ExpiredSession.gen /\ ses'.enc = ses.enc
      BY <2>2, <2>3, TouchType, ExpiredStay
    <2>5. /\ \A b \in Attempts \ {a} : att'[b] = ExpiredAttempts[b]
          /\ ~Live(att'[a]) /\ att'[a].status = "cancelled"
      BY <2>1, EndedType, ExpiredStay
    <2>6. RowsMove
      BY <2>4, <2>5, ExpiredMove
    <2>7. QED
      BY <1>1, <2>6, SameWorkers DEF Moves
  <1>4. QED
    BY <1>2, <1>3

LEMMA RevokeMoves == SessionInv /\ RevokeSession => Moves
  <1> SUFFICES ASSUME SessionInv, RevokeSession PROVE Moves
    OBVIOUS
  <1>1. /\ ses' = RevokedSession /\ UNCHANGED wk /\ UNCHANGED lock
        /\ att' = [a \in Attempts |-> IF Live(att[a]) THEN Ended(att[a], "cancelled") ELSE att[a]]
    BY DEF RevokeSession
  <1>2. ses \in SessionRow /\ ses.gen \in Nat /\ \A a \in Attempts : att[a] \in AttemptRow
    BY DEF SessionInv, RowsFit, SessionRow
  <1>3. ses'.gen = ses.gen + 1 /\ ses'.enc = Nothing
    BY <1>1, <1>2, RevokedType DEF RevokedSession
  <1>4. \A a \in Attempts : ~Live(att'[a]) /\ (att'[a].status = "absent" => att[a].status = "absent")
    BY <1>1, <1>2, EndedType
  <1>5. RowsMove
    BY <1>2, <1>3, <1>4 DEF RowsMove
  <1>6. QED
    BY <1>1, <1>5, SameWorkers DEF Moves

LEMMA DiscardMoves ==
  ASSUME SessionInv, NEW w \in Workers, DiscardContexts(w)
  PROVE  Moves
  <1> DEFINE bump == \E a \in LostAttempts(att) : att[a].gen = ses.gen
             s    == [ses EXCEPT !.gen = IF bump THEN @ + 1 ELSE @]
             e    == [s EXCEPT !.status = "failed"]
             r    == [Stopped EXCEPT !.notes = wk[w].notes]
  <1>1. wk' = [wk EXCEPT ![w] = r] /\ lock' = IF lock = w THEN None ELSE lock
    BY DEF DiscardContexts
  <1>2. ses \in SessionRow /\ ses.gen \in Nat /\ \A a \in Attempts : att[a] \in AttemptRow
    BY DEF SessionInv, RowsFit, SessionRow
  <1>3. r.pc = "off"
    BY DEF Stopped
  <1> HIDE DEF r
  <1>4. LockMoves /\ JobsMove
    BY <1>1, <1>3, ReplacedMoves
  <1>5. CASE job(w).kind = "none"
    BY <1>4, <1>5, SameMove DEF DiscardContexts, row, Moves
  <1>6. CASE job(w).kind # "none"
    <2>1. /\ att' = [a \in Attempts |->
                IF a \in LostAttempts(att) THEN Ended(att[a], "failed") ELSE att[a]]
          /\ ses' = Touch(e) \/ ses' = s
      BY <1>6 DEF DiscardContexts
    <2>2. bump \in BOOLEAN
      OBVIOUS
    <2> HIDE DEF bump
    <2>3. s \in SessionRow /\ s.gen >= ses.gen /\ s.enc = ses.enc /\ s.gen \in Nat
      <3>1. s \in SessionRow /\ s.gen >= ses.gen /\ s.enc = ses.enc
        BY <1>2, <2>2, BumpType
      <3> HIDE DEF s
      <3>2. QED
        BY <3>1 DEF SessionRow
    <2> HIDE DEF s
    <2>4. e \in SessionRow /\ e.gen = s.gen /\ e.enc = s.enc
      BY <2>3, FailedType DEF SessionStatuses
    <2> HIDE DEF e
    <2>5. ses'.gen \in Nat /\ ses'.gen >= ses.gen /\ ses'.enc = ses.enc
      BY <2>1, <2>3, <2>4, TouchType
    <2>6. \A a \in Attempts :
            att'[a] = att[a] \/ (~Live(att'[a]) /\ att'[a].status = "failed")
      BY <1>2, <2>1, EndedType
    <2>7. RowsMove
      BY <2>5, <2>6 DEF RowsMove, Live, ActiveAttempts
    <2>8. QED
      BY <1>4, <2>7 DEF Moves
  <1>7. QED
    BY <1>5, <1>6

LEMMA GuardMoves ==
  ASSUME SessionInv, NEW w \in Workers, Guard(w)
  PROVE  Moves
  <1>1. Expire /\ UNCHANGED lock /\ (UNCHANGED wk \/ Step(w, "done"))
    BY DEF Guard
  <1>2. QED
    BY <1>1, ExpireMove, SameWorkers, StepChanges, ChangedMoves DEF Moves

LEMMA ConfirmingMoves ==
  ASSUME SessionInv, NEW w \in Workers, Confirming(w), ~wk[w].late
  PROVE  Moves
  <1> DEFINE a == job(w).att
             n == [ExpiredAttempts[a] EXCEPT !.status = "verifying", !.qr = FALSE]
  <1>1. /\ ses' = ExpiredSession /\ UNCHANGED lock /\ job(w).kind = "login"
        /\ job(w).step = "confirm" /\ (Step(w, "domains") \/ Step(w, "done"))
    BY DEF Confirming, InLogin
  <1>2. LockMoves /\ JobsMove
    <2>1. job(w).step \in Shown
      BY <1>1 DEF Shown
    <2>2. QED
      BY <1>1, <2>1, StepChanges, ChangedMoves
  <1>3. CASE att' = ExpiredAttempts
    BY <1>1, <1>2, <1>3, ExpireMove DEF Expire, Moves
  <1>4. CASE att' # ExpiredAttempts
    <2>1. att' = [ExpiredAttempts EXCEPT ![a] = n] /\ ExpiredAttempts[a].status = "qr_pending"
      BY <1>4 DEF Confirming
    <2>2. a \in Attempts /\ ExpiredAttempts[a] \in AttemptRow
      BY <1>1, JobFacts, ExpiredStay
    <2>3. n.status = "verifying"
      BY <2>2, ShownType
    <2> HIDE DEF n
    <2>4. att'[a] = n /\ \A b \in Attempts \ {a} : att'[b] = ExpiredAttempts[b]
      BY <2>1, <2>2, ExpiredStay
    <2>5. ses'.gen \in Nat /\ ses'.gen >= ExpiredSession.gen /\ ses'.enc = ses.enc
      BY <1>1, ExpiredStay
    <2>6. Live(ExpiredAttempts[a])
      BY <2>1 DEF Live, ActiveAttempts
    <2>7. RowsMove
      BY <2>3, <2>4, <2>5, <2>6, ExpiredMove
    <2>8. QED
      BY <1>2, <2>7 DEF Moves
  <1>5. QED
    BY <1>3, <1>4

LEMMA OpenFreshMoves ==
  ASSUME SessionInv, NEW w \in Workers, OpenFresh(w), ~wk[w].late
  PROVE  Moves
  <1>1. /\ Step(w, "fresh") /\ UNCHANGED lock /\ UNCHANGED <<ses, att>>
        /\ job(w).kind = "login" /\ job(w).step \in Shown
    BY DEF OpenFresh, InLogin, row, Shown
  <1>2. QED
    BY <1>1, SameMove, StepChanges, ChangedMoves DEF Moves

LEMMA FinishAttemptMoves ==
  ASSUME SessionInv, NEW w \in Workers, FinishAttempt(w)
  PROVE  Moves
  <1> DEFINE a == job(w).att
             e == [ExpiredSession EXCEPT !.status = "failed"]
  <1>1. Notify(w, "raised") /\ UNCHANGED lock /\ job(w).kind = "login"
    BY DEF FinishAttempt, InLogin
  <1>2. LockMoves /\ JobsMove
    BY <1>1, NotifyChanges, ChangedMoves
  <1>3. CASE OwnsAttempt(job(w), ExpiredSession, ExpiredAttempts)
    <2>1. /\ att' = [ExpiredAttempts EXCEPT ![a] = Ended(@, "failed")]
          /\ ses' = ExpiredSession \/ ses' = Touch(e)
      BY <1>3 DEF FinishAttempt
    <2>2. e \in SessionRow /\ e.gen = ExpiredSession.gen /\ e.enc = ExpiredSession.enc
      BY ExpiredStay, FailedType DEF SessionStatuses
    <2> HIDE DEF e
    <2>3. ses'.gen \in Nat /\ ses'.gen >= ExpiredSession.gen /\ ses'.enc = ses.enc
      BY <2>1, <2>2, TouchType, ExpiredStay
    <2>4. a \in Attempts
      BY <1>1, JobFacts
    <2>5. /\ ~Live(att'[a]) /\ att'[a].status = "failed"
          /\ \A b \in Attempts \ {a} : att'[b] = ExpiredAttempts[b]
      BY <2>1, <2>4, EndedType, ExpiredStay
    <2>6. RowsMove
      BY <2>3, <2>5, ExpiredMove
    <2>7. QED
      BY <1>2, <2>6 DEF Moves
  <1>4. CASE ~OwnsAttempt(job(w), ExpiredSession, ExpiredAttempts)
    BY <1>2, <1>4, ExpireMove DEF FinishAttempt, Moves
  <1>5. QED
    BY <1>3, <1>4

\* A recheck stores again what is stored.
LEMMA ConfirmSessionMoves ==
  ASSUME SessionInv, TakeoverInv, NEW w \in Workers, ConfirmSession(w)
  PROVE  Moves
  <1>1. /\ wk[w].pc = "running" /\ job(w).kind = "verify" /\ job(w).step = "domains"
        /\ UNCHANGED lock
    BY DEF ConfirmSession
  <1>2. Step(w, "done") \/ Notify(w, "resolved")
    BY DEF ConfirmSession, TellRecheck
  <1>3. LockMoves /\ JobsMove
    BY <1>1, <1>2, StepChanges, NotifyChanges, ChangedMoves
  <1>4. CASE MayConfirm(job(w), ExpiredSession)
    <2>1. ses' = Published(ExpiredSession, job(w).from) /\ att' = ExpiredAttempts
      BY <1>4 DEF ConfirmSession
    <2>2. job(w).gen = ses.gen /\ ExpiredSession.gen = ses.gen
      <3>1. RowsFit(ses, att, barred)
        BY DEF SessionInv
      <3>2. ExpiredSession.gen >= ses.gen /\ job(w).gen <= ses.gen
        BY <1>1, <3>1, JobFacts, ExpiredFacts DEF JobFits
      <3>3. QED
        BY <1>4, <3>2, JobFacts, ExpiredStay DEF MayConfirm, Job
    <2>3. job(w).from = ses.enc
      BY <1>1, <2>2 DEF TakeoverInv, Apart, Rechecks, RecheckFits
    <2>4. job(w).from \in Origins
      BY JobFacts DEF Job
    <2>5. ses'.gen = ExpiredSession.gen /\ ses'.enc = ses.enc
      BY <2>1, <2>3, <2>4, ExpiredStay, PublishedType
    <2>6. ses'.gen \in Nat /\ ses'.gen >= ExpiredSession.gen
      BY <2>5, ExpiredStay
    <2>7. RowsMove
      BY <2>1, <2>5, <2>6, ExpiredMove
    <2>8. QED
      BY <1>3, <2>7 DEF Moves
  <1>5. CASE ~MayConfirm(job(w), ExpiredSession)
    <2>1. UNCHANGED <<ses, att>> \/ Expire
      BY <1>5 DEF ConfirmSession, row
    <2>2. QED
      BY <1>3, <2>1, SameMove, ExpireMove DEF Moves
  <1>6. QED
    BY <1>4, <1>5

LEMMA RejectSessionMoves ==
  ASSUME SessionInv, NEW w \in Workers, RejectSession(w)
  PROVE  Moves
  <1>1. UNCHANGED att /\ UNCHANGED lock /\ (Step(w, "done") \/ Notify(w, "raised"))
    BY DEF RejectSession, TellRecheck
  <1>2. LockMoves /\ JobsMove
    BY <1>1, StepChanges, NotifyChanges, ChangedMoves
  <1>3. ses'.gen = ses.gen /\ ses'.enc = ses.enc
    <2>1. CASE UNCHANGED ses
      BY <2>1
    <2>2. CASE ~UNCHANGED ses
      <3>1. PICK status \in {"expired", "failed"} :
              ses' = [ses EXCEPT !.status = status, !.validated = FALSE, !.old = FALSE]
        BY <2>2 DEF RejectSession
      <3>2. ses \in SessionRow /\ status \in SessionStatuses
        BY DEF SessionInv, RowsFit, SessionStatuses
      <3>3. QED
        BY <3>1, <3>2, RejectedType
    <2>3. QED
      BY <2>1, <2>2
  <1>4. QED
    BY <1>1, <1>2, <1>3, PlainMove DEF Moves

LEMMA NotifiedMoves ==
  ASSUME SessionInv, NEW w \in Workers, Notified(w)
  PROVE  Moves
  <1>1. Step(w, "done") /\ UNCHANGED lock /\ UNCHANGED <<ses, att>>
    BY DEF Notified, row
  <1>2. QED
    BY <1>1, SameMove, StepChanges, ChangedMoves DEF Moves

LEMMA NotesMove ==
  ASSUME SessionInv, NEW w \in Workers, WriteAlert(w) \/ LoseAlert(w)
  PROVE  Moves
  <1>1. PICK note \in wk[w].notes : wk' = [wk EXCEPT ![w].notes = @ \ {note}]
    BY DEF WriteAlert, LoseAlert
  <1>2. UNCHANGED <<ses, att>> /\ UNCHANGED lock
    BY DEF WriteAlert, LoseAlert, row
  <1> DEFINE n == wk[w].notes \ {note}
             r == [wk[w] EXCEPT !.notes = n]
  <1>3. wk' = [wk EXCEPT ![w] = r]
    BY <1>1
  <1>4. wk[w] \in Worker
    BY JobFacts
  <1> HIDE DEF n
  <1>5. r.pc = wk[w].pc /\ r.job = wk[w].job /\ r.late = wk[w].late
    BY <1>4 DEF Worker
  <1> HIDE DEF r
  <1>6. QED
    BY <1>2, <1>3, <1>5, SameMove, ReplacedMoves DEF Moves

LEMMA ProcessMoves ==
  ASSUME SessionInv, NEW w \in Workers,
         StartWorker(w) \/ StopWorker(w) \/ CrashWorker(w) \/ LoseLock(w)
  PROVE  Moves
  <1>1. UNCHANGED <<ses, att>>
    BY DEF StartWorker, StopWorker, CrashWorker, LoseLock, row
  <1>2. LockMoves /\ JobsMove
    <2>1. CASE StartWorker(w)
      <3> DEFINE r == [Stopped EXCEPT !.pc = "boot"]
      <3>1. wk' = [wk EXCEPT ![w] = r] /\ lock' = w /\ r.pc = "boot"
            /\ r.job.kind = "none"
        BY <2>1 DEF StartWorker, Stopped, NoJob
      <3> HIDE DEF r
      <3>2. QED
        BY <3>1, ReplacedMoves
    <2>2. CASE StopWorker(w)
      <3> DEFINE r == [wk[w] EXCEPT !.pc = "stopping"]
      <3>1. wk' = [wk EXCEPT ![w] = r] /\ UNCHANGED lock /\ wk[w].pc = "running"
        BY <2>2 DEF StopWorker
      <3>2. r.pc = "stopping"
        BY JobFacts DEF Worker
      <3> HIDE DEF r
      <3>3. QED
        BY <3>1, <3>2, ReplacedMoves
    <2>3. CASE CrashWorker(w)
      <3>1. wk' = [wk EXCEPT ![w] = Stopped] /\ lock' = IF lock = w THEN None ELSE lock
        BY <2>3 DEF CrashWorker
      <3>2. Stopped.pc = "off"
        BY DEF Stopped
      <3>3. QED
        BY <3>1, <3>2, ReplacedMoves
    <2>4. CASE LoseLock(w)
      BY <2>4, SameWorkers DEF LoseLock
    <2>5. QED
      BY <2>1, <2>2, <2>3, <2>4
  <1>3. QED
    BY <1>1, <1>2, SameMove DEF Moves

LEMMA OthersMove ==
  ASSUME SessionInv, PollAttempt \/ RevokeLost \/ Page \/ Time \/ UNCHANGED vars
  PROVE  Moves
  <1>1. UNCHANGED wk /\ UNCHANGED lock
    BY DEF PollAttempt, RevokeLost, Page, ClaimPage, OpenPage, OpenAnonymous, PageNeedsLogin,
           CommitPage, CommitRefused, Time, SessionAges, AttemptDue, vars
  <1>2. ASSUME PollAttempt PROVE RowsMove
    BY <1>2, ExpireMove DEF PollAttempt
  <1>3. ASSUME RevokeLost \/ Page \/ UNCHANGED vars PROVE RowsMove
    <2>1. UNCHANGED <<ses, att>>
      BY <1>3 DEF RevokeLost, Page, ClaimPage, OpenPage, OpenAnonymous, PageNeedsLogin,
                  CommitPage, CommitRefused, vars, row
    <2>2. QED
      BY <2>1, SameMove
  <1>4. ASSUME SessionAges PROVE RowsMove
    <2>1. ses \in SessionRow /\ ses' = [ses EXCEPT !.old = TRUE] /\ UNCHANGED att
      BY <1>4 DEF SessionAges, SessionInv, RowsFit
    <2>2. ses'.gen = ses.gen /\ ses'.enc = ses.enc
      BY <2>1 DEF SessionRow
    <2>3. QED
      BY <2>1, <2>2, PlainMove
  <1>5. ASSUME NEW a \in Attempts, AttemptDue(a) PROVE RowsMove
    <2>1. att \in [Attempts -> AttemptRow] /\ att' = [att EXCEPT ![a].due = TRUE] /\ UNCHANGED ses
      BY <1>5 DEF AttemptDue, SessionInv, RowsFit
    <2>2. \A b \in Attempts : att'[b].status = att[b].status
      BY <2>1 DEF AttemptRow
    <2>3. QED
      BY <2>1, <2>2, PlainMove
  <1>6. RowsMove
    BY <1>2, <1>3, <1>4, <1>5 DEF Time
  <1>7. QED
    BY <1>1, <1>6, SameWorkers DEF Moves

-----------------------------------------------------------------------------
(* The steps that do *)

\* The job of one worker changes in a way of its own.
LEMMA CarriedBut ==
  ASSUME SessionInv, TakeoverInv, RowsMove, LockMoves, NEW w \in Workers,
         \A v \in Workers \ {w} : JobMoves(v),
         BootIdle', Rechecks(w)' => RecheckFits(w)',
         LogsIn(w)' => LoginFits(w)' /\ \A v \in Workers \ {w} : ~Rechecks(v)'
  PROVE  TakeoverInv'
  <1>1. Later'
    BY RowsStayLater DEF TakeoverInv
  <1>2. ses.gen \in Nat /\ \A v \in Workers : job(v).kind = "login" => job(v).att \in Attempts
    BY JobFacts DEF SessionInv, RowsFit, SessionRow
  <1>3. ASSUME NEW v \in Workers, v # w, Rechecks(v)' PROVE RecheckFits(v)'
    <2>1. Rechecks(v) /\ ses'.gen = ses.gen /\ wk'[v].job.from = job(v).from
      BY <1>3, MovedJobs
    <2>2. RecheckFits(v)
      BY <2>1 DEF TakeoverInv, Apart
    <2>3. wk'[v].job.from = ses'.enc
      BY <1>2, <2>1, <2>2 DEF RecheckFits, RowsMove
    <2>4. \A a \in Attempts : att'[a].status # "queued"
      BY <1>2, <2>1, <2>2 DEF RecheckFits, RowsMove
    <2>5. (\E a \in Attempts : Live(att'[a])) => Holds(v)'
      BY <1>2, <2>1, <2>2, HoldsOn DEF RecheckFits, RowsMove
    <2>6. \A u \in Workers : ~LogsIn(u)'
      BY <1>3, <2>2, MovedJobs DEF RecheckFits
    <2>7. QED
      BY <2>3, <2>4, <2>5, <2>6 DEF RecheckFits, job, Live
  <1>4. ASSUME NEW v \in Workers, v # w, LogsIn(v)' PROVE LoginFits(v)'
    <2>1. LogsIn(v) /\ ses'.gen = ses.gen /\ wk'[v].job.att = job(v).att
      BY <1>4, MovedJobs
    <2>2. LoginFits(v) /\ job(v).att \in Attempts
      BY <1>2, <2>1 DEF TakeoverInv, Apart, LogsIn
    <2>3. att'[job(v).att].status # "queued"
      BY <1>2, <2>1, <2>2 DEF RowsMove, LoginFits
    <2>4. Holds(v)'
      BY <2>2, HoldsOn DEF LoginFits
    <2>5. QED
      BY <2>1, <2>3, <2>4 DEF LoginFits, job
  <1>5. QED
    BY <1>1, <1>3, <1>4 DEF TakeoverInv, Apart

\* What is stored is never of an earlier login than what was stored.
Grows == ses'.enc # Nothing => ses'.enc >= ses.enc

LEMMA RowsGrow == SessionInv /\ RowsMove => Grows
  BY EncType DEF RowsMove, Grows

\* A worker in the loop owns the lock: nobody else does.
LEMMA OthersLost ==
  ASSUME SessionInv, NEW w \in Workers, lock = w, wk[w].pc = "running",
         NEW v \in Workers, v # w
  PROVE  ~Holds(v)
  BY NobodyIsNoWorker DEF Holds

LEMMA PublishQrTakes ==
  ASSUME SessionInv, TakeoverInv, NEW w \in Workers, PublishQr(w), ~wk[w].late
  PROVE  TakeoverInv' /\ Grows
  <1> DEFINE a == job(w).att
             n == [ExpiredAttempts[a] EXCEPT !.status = "qr_pending", !.qr = TRUE]
  <1>1. /\ ses' = ExpiredSession /\ UNCHANGED lock /\ wk[w].pc = "running"
        /\ job(w).kind = "login" /\ a \in Attempts
    BY JobFacts DEF PublishQr, InLogin
  <1>2. CASE ~OwnsAttempt(job(w), ExpiredSession, ExpiredAttempts)
    <2>1. Expire /\ Step(w, "done")
      BY <1>1, <1>2 DEF PublishQr, Expire
    <2>2. RowsMove /\ LockMoves /\ JobsMove
      BY <1>1, <2>1, ExpireMove, StepChanges, ChangedMoves
    <2>3. QED
      BY <2>2, Carried, RowsGrow
  <1>3. CASE OwnsAttempt(job(w), ExpiredSession, ExpiredAttempts)
    <2>1. /\ att' = [ExpiredAttempts EXCEPT ![a].status = "qr_pending", ![a].qr = TRUE]
          /\ Step(w, "confirm") /\ Live(ExpiredAttempts[a])
      BY <1>3 DEF PublishQr, OwnsAttempt
    <2>2. att' = [ExpiredAttempts EXCEPT ![a] = n]
      BY <1>1, <2>1, ExpiredStay
    <2>3. ExpiredAttempts[a] \in AttemptRow
      BY <1>1, ExpiredStay
    <2>4. n.status = "qr_pending"
      BY <2>3, ShownType
    <2> HIDE DEF n
    <2>5. att'[a] = n /\ \A b \in Attempts \ {a} : att'[b] = ExpiredAttempts[b]
      BY <1>1, <2>2, ExpiredStay
    <2>6. ses'.gen \in Nat /\ ses'.gen >= ExpiredSession.gen /\ ses'.enc = ses.enc
      BY <1>1, ExpiredStay
    <2>7. RowsMove
      BY <2>1, <2>4, <2>5, <2>6, ExpiredMove
    <2>8. Changed(w, "confirm")
      BY <2>1, StepChanges
    <2>9. LockMoves /\ \A v \in Workers \ {w} : JobMoves(v)
      BY <1>1, <2>8 DEF SessionInv, RestFits, LockMoves, Changed, JobMoves, job
    <2>10. BootIdle' /\ ~Rechecks(w)'
      BY <1>1, <2>8 DEF TakeoverInv, BootIdle, Changed, Rechecks, job
    <2>11. Live(att[a])
      BY <1>1, <2>1, ExpiredFacts DEF SessionInv
    <2>12. ASSUME LogsIn(w)'
           PROVE  LoginFits(w)' /\ \A v \in Workers \ {w} : ~Rechecks(v)'
      <3>1. lock = w
        BY <2>8, <2>12 DEF LogsIn, Changed
      <3>2. LoginFits(w)'
        BY <1>1, <2>4, <2>5, <2>8, <3>1 DEF LoginFits, Holds, Changed, job
      <3>3. ASSUME NEW v \in Workers \ {w}, Rechecks(v)' PROVE FALSE
        <4>1. Rechecks(v)
          BY <2>7, <2>9, <3>3, MovedJobs
        <4>2. Holds(v)
          BY <1>1, <2>11, <4>1 DEF TakeoverInv, Apart, RecheckFits
        <4>3. QED
          BY <1>1, <3>1, <4>2, OthersLost
      <3>4. QED
        BY <3>2, <3>3
    <2>13. QED
      BY <2>7, <2>9, <2>10, <2>12, CarriedBut, RowsGrow
  <1>4. QED
    BY <1>2, <1>3

\* A login is the least of the attempts that wait; a recheck is given only when
\* none waits.
LEMMA NextJobIs ==
  ASSUME SessionInv
  PROVE  LET j == NextJob(ExpiredSession, ExpiredAttempts)
         IN  /\ j.kind = "login" => j.step = "qr"
             /\ j.kind = "verify" => /\ j.gen = ExpiredSession.gen /\ j.from = ses.enc
                                     /\ \A a \in Attempts : ExpiredAttempts[a].status # "queued"
  <1> DEFINE s == ExpiredSession
             t == ExpiredAttempts
             least == \E a \in Waiting(t) : (\A b \in Waiting(t) : a <= b) /\ t[a].gen = s.gen
             a0 == CHOOSE a \in Waiting(t) : \A b \in Waiting(t) : a <= b
             j == NextJob(s, t)
  <1>1. RowsFit(s, t, barred) /\ s.enc = ses.enc
    BY ExpiredStay
  <1> HIDE DEF s, t
  <1>2. ASSUME NEW a \in Attempts, t[a].status = "queued" PROVE least
    <2>1. a \in Waiting(t) /\ Live(t[a])
      BY <1>2 DEF Waiting, Live, ActiveAttempts
    <2>2. \A b \in Waiting(t) : b = a
      BY <1>1, <1>2, <2>1 DEF Waiting, Live, ActiveAttempts, RowsFit
    <2>3. t[a].gen = s.gen /\ a <= a
      BY <1>1, <2>1, OriginsType DEF RowsFit
    <2>4. QED
      BY <2>1, <2>2, <2>3
  <1>3. CASE least
    <2>1. j = [kind |-> "login", step |-> "qr", gen |-> s.gen, att |-> a0, from |-> Origin(a0)]
      BY <1>3 DEF NextJob
    <2>2. j.kind = "login" /\ j.step = "qr"
      BY <2>1
    <2>3. QED
      BY <2>2 DEF s, t
  <1>4. CASE ~least /\ RecheckDue(s)
    <2>1. j = [kind |-> "verify", step |-> "domains", gen |-> s.gen, att |-> 0, from |-> s.enc]
      BY <1>4 DEF NextJob
    <2>2. j.kind = "verify" /\ j.gen = s.gen /\ j.from = ses.enc
      BY <1>1, <2>1
    <2>3. QED
      BY <1>2, <1>4, <2>2 DEF s, t
  <1>5. CASE ~least /\ ~RecheckDue(s)
    <2>1. j = NoJob
      BY <1>5 DEF NextJob
    <2>2. QED
      BY <2>1 DEF NoJob, s, t
  <1>6. QED
    BY <1>3, <1>4, <1>5

LEMMA LoopTakes ==
  ASSUME SessionInv, TakeoverInv, NEW w \in Workers, Loop(w)
  PROVE  TakeoverInv' /\ Grows
  <1>1. UNCHANGED lock /\ wk[w].pc = "running"
    BY DEF Loop
  <1>2. CASE lock # w
    <2> DEFINE r == [wk[w] EXCEPT !.pc = "stopping"]
    <2>1. wk' = [wk EXCEPT ![w] = r] /\ UNCHANGED <<ses, att>>
      BY <1>2 DEF Loop, row
    <2>2. r.pc = "stopping"
      BY JobFacts DEF Worker
    <2> HIDE DEF r
    <2>3. RowsMove /\ LockMoves /\ JobsMove
      BY <1>1, <2>1, <2>2, SameMove, ReplacedMoves
    <2>4. QED
      BY <2>3, Carried, RowsGrow
  <1>3. CASE lock = w /\ job(w).step \notin {"none", "done"}
    <2>1. UNCHANGED <<ses, att>> /\ UNCHANGED wk
      BY <1>3 DEF Loop, row
    <2>2. RowsMove /\ LockMoves /\ JobsMove
      BY <1>1, <2>1, SameMove, SameWorkers
    <2>3. QED
      BY <2>2, Carried, RowsGrow
  <1>4. CASE lock = w /\ job(w).step \in {"none", "done"}
    <2> DEFINE j == NextJob(ExpiredSession, ExpiredAttempts)
               r == [wk[w] EXCEPT !.job = j]
    <2>1. Expire /\ wk' = [wk EXCEPT ![w] = r]
      BY <1>4 DEF Loop
    <2>2. /\ j \in Job
          /\ j.kind = "login" => j.step = "qr"
          /\ j.kind = "verify" => /\ j.gen = ExpiredSession.gen /\ j.from = ses.enc
                                  /\ \A a \in Attempts : ExpiredAttempts[a].status # "queued"
      BY ExpiredStay, NextJobFits, NextJobIs
    <2> HIDE DEF j
    <2>3. r.job = j /\ r.pc = "running" /\ r.late = wk[w].late
      BY <1>1, <2>2, JobFacts DEF Worker
    <2> HIDE DEF r
    <2>4. wk'[w] = r /\ \A v \in Workers \ {w} : wk'[v] = wk[v]
      BY <2>1 DEF SessionInv, WorkersFit
    <2>5. RowsMove
      BY <2>1, ExpireMove
    <2>6. LockMoves /\ \A v \in Workers \ {w} : JobMoves(v)
      BY <1>1, <1>4, <2>3, <2>4 DEF LockMoves, JobMoves, job
    <2>7. BootIdle'
      BY <2>3, <2>4 DEF TakeoverInv, BootIdle, job
    <2>8. ~LogsIn(w)'
      BY <2>2, <2>3, <2>4 DEF LogsIn, job, Shown
    <2>9. ASSUME Rechecks(w)' PROVE RecheckFits(w)'
      <3>1. j.kind = "verify"
        BY <2>3, <2>4, <2>9 DEF Rechecks, job
      <3>2. wk'[w].job.from = ses'.enc
        BY <2>1, <2>2, <2>3, <2>4, <3>1, ExpiredStay DEF Expire
      <3>3. \A a \in Attempts : att'[a].status # "queued"
        BY <2>1, <2>2, <3>1 DEF Expire
      <3>4. Holds(w)'
        BY <1>1, <1>4 DEF Holds
      <3>5. ASSUME NEW u \in Workers, u # w, LogsIn(u)' PROVE FALSE
        <4>1. LogsIn(u)
          BY <2>5, <2>6, <3>5, MovedJobs
        <4>2. Holds(u)
          BY <4>1 DEF TakeoverInv, Apart, LoginFits
        <4>3. QED
          BY <1>1, <1>4, <3>5, <4>2, OthersLost
      <3>6. QED
        BY <2>8, <3>2, <3>3, <3>4, <3>5 DEF RecheckFits, job
    <2>10. QED
      BY <2>5, <2>6, <2>7, <2>8, <2>9, CarriedBut, RowsGrow
  <1>5. QED
    BY <1>2, <1>3, <1>4

\* A login is stored when no recheck is under way that could store the one before.
LEMMA PublishLoginTakes ==
  ASSUME SessionInv, TakeoverInv, NEW w \in Workers, PublishLogin(w), ~wk[w].late
  PROVE  TakeoverInv' /\ Grows
  <1> DEFINE a  == job(w).att
             ok == /\ ExpiredSession.gen = job(w).gen
                   /\ ExpiredAttempts[job(w).att].status = "verifying"
  <1>1. /\ wk[w].pc = "running" /\ job(w).kind = "login" /\ job(w).step = "fresh"
        /\ UNCHANGED lock
    BY DEF PublishLogin, InLogin
  <1>2. a \in Attempts /\ job(w).from = Origin(a) /\ job(w).from \in Origins
    BY <1>1, JobFacts, OriginsType
  <1>3. CASE ~ok
    <2>1. Expire /\ Step(w, "done")
      BY <1>3 DEF PublishLogin
    <2>2. RowsMove /\ LockMoves /\ JobsMove
      BY <1>1, <2>1, ExpireMove, StepChanges, ChangedMoves
    <2>3. QED
      BY <2>2, Carried, RowsGrow
  <1>4. CASE ok
    <2>1. /\ ses' = Published(ExpiredSession, job(w).from)
          /\ att' = [ExpiredAttempts EXCEPT ![a] = Ended(@, "authenticated")]
          /\ Notify(w, "resolved")
      BY <1>4 DEF PublishLogin
    <2>2. Live(ExpiredAttempts[a])
      BY <1>4 DEF Live, ActiveAttempts
    <2>3. RowsFit(ses, att, barred)
      BY DEF SessionInv
    <2>4. ExpiredSession.gen = ses.gen /\ Live(att[a]) /\ job(w).gen = ses.gen
      BY <1>2, <1>4, <2>2, <2>3, ExpiredFacts
    <2>5. LogsIn(w)
      BY <1>1, <2>4 DEF LogsIn, Shown
    <2>6. ses'.gen = ses.gen /\ ses'.enc = Origin(a)
      BY <1>2, <2>1, <2>4, ExpiredStay, PublishedType
    <2>7. ses'.enc >= ses.enc
      BY <1>2, <2>4, <2>6 DEF TakeoverInv, Later
    <2>8. ASSUME NEW b \in Attempts
          PROVE  ~Live(att'[b]) /\ (att'[b].status = "absent" => att[b].status = "absent")
      <3>1. CASE b = a
        BY <1>2, <2>1, <3>1, EndedType, ExpiredStay
      <3>2. CASE b # a
        <4>1. att'[b] = ExpiredAttempts[b]
          BY <2>1, <3>2, ExpiredStay
        <4>2. ~Live(ExpiredAttempts[b])
          BY <1>2, <2>2, <3>2, ExpiredStay DEF RowsFit
        <4>3. QED
          BY <4>1, <4>2, ExpiredStay
      <3>3. QED
        BY <3>1, <3>2
    <2>9. Later'
      <3>1. ASSUME NEW b \in Attempts, att'[b].status = "absent"
            PROVE  Origin(b) >= ses'.enc
        <4>1. att[b].status = "absent" /\ att[a].status # "absent"
          BY <2>4, <2>8, <3>1 DEF Live, ActiveAttempts
        <4>2. a < b
          BY <1>2, <2>3, <4>1 DEF RowsFit
        <4>3. a \in Nat /\ b \in Nat
          BY <1>2, OriginsType
        <4>4. QED
          BY <2>6, <4>2, <4>3 DEF Origin
      <3>2. QED
        BY <2>8, <3>1 DEF Later, Live
    <2>10. Changed(w, "notify")
      BY <2>1, NotifyChanges
    <2>11. BootIdle'
      BY <1>1, <2>10 DEF TakeoverInv, BootIdle, Changed, job
    <2>12. ASSUME NEW v \in Workers PROVE ~LogsIn(v)' /\ ~Rechecks(v)'
      <3>1. /\ wk'[v].job.kind = job(v).kind /\ wk'[v].job.att = job(v).att
            /\ job(v).kind = "login" => job(v).att \in Attempts
        BY <2>10, JobFacts DEF Changed, job
      <3>2. ~LogsIn(v)'
        BY <2>8, <3>1 DEF LogsIn, job, Live
      <3>3. ~Rechecks(v)
        BY <2>5 DEF TakeoverInv, Apart, RecheckFits
      <3>4. ~Rechecks(v)'
        BY <1>1, <2>6, <2>10, <3>3 DEF Rechecks, Changed, job
      <3>5. QED
        BY <3>2, <3>4
    <2>13. QED
      BY <2>7, <2>9, <2>11, <2>12 DEF TakeoverInv, Apart, Grows
  <1>5. QED
    BY <1>3, <1>4

\* Bootstrap leaves no attempt open, and it stores the local file only in a row
\* that has no credentials.
LEMMA BootstrapRows ==
  ASSUME SessionInv, NEW w \in Workers, Bootstrap(w)
  PROVE  /\ ses'.enc = ses.enc \/ (ses.enc = Nothing /\ ses'.enc = LocalFile)
         /\ ses'.gen \in Nat /\ ses'.gen >= ses.gen
         /\ \A a \in Attempts :
              /\ att'[a].status = "absent" => att[a].status = "absent"
              /\ Live(att'[a]) => att'[a] = att[a] /\ att[a].status = "queued"
  <1> DEFINE t    == ExpiredAttempts
             bump == \E a \in LostAttempts(t) : t[a].gen = ExpiredSession.gen
             s    == [ExpiredSession EXCEPT !.gen = IF bump THEN @ + 1 ELSE @]
  <1>1. PICK import \in {FALSE, MayImport(s)} :
          LET enc == IF import THEN LocalFile ELSE s.enc
          IN /\ ses' = [s EXCEPT !.enc = enc, !.old = @ /\ s.validated /\ enc = Nothing,
                          !.validated = @ /\ enc = Nothing,
                          !.status = IF enc # Nothing THEN "verifying"
                                     ELSE IF @ = "revoked" THEN @ ELSE "unauthenticated"]
             /\ att' = [a \in Attempts |->
                          IF a \in LostAttempts(t) THEN Ended(t[a], "failed") ELSE t[a]]
    BY DEF Bootstrap
  <1> DEFINE enc == IF import THEN LocalFile ELSE s.enc
  <1>2. bump \in BOOLEAN
    OBVIOUS
  <1>3. s \in SessionRow /\ s.gen >= ExpiredSession.gen /\ s.enc = ses.enc
    <2> HIDE DEF bump
    <2>1. QED
      BY <1>2, BumpType, ExpiredStay
  <1>4. import => s.enc = Nothing
    BY DEF MayImport
  <1>5. /\ ses' = [s EXCEPT !.enc = enc, !.old = @ /\ s.validated /\ enc = Nothing,
                     !.validated = @ /\ enc = Nothing,
                     !.status = IF enc # Nothing THEN "verifying"
                                ELSE IF @ = "revoked" THEN @ ELSE "unauthenticated"]
        /\ att' = [a \in Attempts |->
                     IF a \in LostAttempts(t) THEN Ended(t[a], "failed") ELSE t[a]]
    BY <1>1
  <1> HIDE DEF s
  <1>6. enc \in Origins /\ (enc = ses.enc \/ (ses.enc = Nothing /\ enc = LocalFile))
    BY <1>3, <1>4, OriginsType DEF SessionRow
  <1> HIDE DEF enc
  <1>7. ses' \in SessionRow /\ ses'.gen = s.gen /\ ses'.enc = enc
    BY <1>3, <1>5, <1>6, BootType
  <1>8. ses'.gen \in Nat /\ ses'.gen >= ses.gen
    <2>1. ExpiredSession.gen >= ses.gen /\ ExpiredSession.gen \in Nat /\ ses.gen \in Nat
      BY ExpiredStay, ExpiredFacts, EncType DEF SessionInv
    <2>2. s.gen \in Nat
      BY <1>3 DEF SessionRow
    <2>3. QED
      BY <1>3, <1>7, <2>1, <2>2
  <1>9. ASSUME NEW a \in Attempts
        PROVE  /\ att'[a].status = "absent" => att[a].status = "absent"
               /\ Live(att'[a]) => att'[a] = att[a] /\ att[a].status = "queued"
    <2>1. CASE a \in LostAttempts(t)
      <3>1. att'[a] = Ended(t[a], "failed") /\ t[a] \in AttemptRow
        BY <1>5, <2>1, ExpiredStay
      <3>2. QED
        BY <3>1, EndedType
    <2>2. CASE a \notin LostAttempts(t)
      <3>1. att'[a] = t[a] /\ t[a].status \notin Opened
        BY <1>5, <2>2 DEF LostAttempts
      <3>2. Live(t[a]) => t[a] = att[a]
        BY ExpiredFacts DEF SessionInv
      <3>3. QED
        BY <3>1, <3>2, ExpiredStay DEF Live, ActiveAttempts, Opened
    <2>3. QED
      BY <2>1, <2>2
  <1>10. QED
    BY <1>6, <1>7, <1>8, <1>9

LEMMA BootstrapTakes ==
  ASSUME SessionInv, TakeoverInv, NEW w \in Workers, Bootstrap(w)
  PROVE  TakeoverInv' /\ Grows
  <1>1. /\ ses'.enc = ses.enc \/ (ses.enc = Nothing /\ ses'.enc = LocalFile)
        /\ ses'.gen \in Nat /\ ses'.gen >= ses.gen
        /\ \A a \in Attempts :
             /\ att'[a].status = "absent" => att[a].status = "absent"
             /\ Live(att'[a]) => att'[a] = att[a] /\ att[a].status = "queued"
    BY BootstrapRows
  <1> DEFINE r == [wk[w] EXCEPT !.pc = "running"]
  <1>2. wk' = [wk EXCEPT ![w] = r] /\ wk[w].pc = "boot"
    BY DEF Bootstrap
  <1>3. r.job = wk[w].job /\ r.pc = "running"
    BY JobFacts DEF Worker
  <1> HIDE DEF r
  <1>4. wk'[w] = r /\ \A v \in Workers \ {w} : wk'[v] = wk[v]
    BY <1>2 DEF SessionInv, WorkersFit
  <1>5. job(w).kind = "none"
    BY <1>2 DEF TakeoverInv, BootIdle
  <1>6. Later'
    <2>1. ASSUME NEW a \in Attempts, Live(att'[a]) \/ att'[a].status = "absent"
          PROVE  Origin(a) >= ses'.enc
      <3>1. Live(att[a]) \/ att[a].status = "absent"
        BY <1>1, <2>1 DEF Live, ActiveAttempts
      <3>2. Origin(a) >= ses.enc /\ Origin(a) >= LocalFile
        BY <3>1, EncType DEF TakeoverInv, Later
      <3>3. QED
        BY <1>1, <3>2
    <2>2. QED
      BY <2>1 DEF Later, Live
  <1>7. BootIdle'
    BY <1>3, <1>4 DEF TakeoverInv, BootIdle, job
  <1>8. ASSUME NEW v \in Workers, Rechecks(v)' \/ LogsIn(v)'
        PROVE  /\ Rechecks(v)' => Rechecks(v)
               /\ LogsIn(v)' => LogsIn(v)
               /\ wk'[v] = wk[v] /\ ses'.gen = ses.gen
    <2>1. v # w /\ wk'[v] = wk[v]
      BY <1>3, <1>4, <1>5, <1>8 DEF Rechecks, LogsIn, job
    <2>2. /\ JobFits(job(v), ses.gen, barred) /\ job(v).gen \in Nat /\ ses.gen \in Nat
          /\ job(v).kind = "login" => job(v).att \in Attempts
      BY JobFacts DEF Job
    <2>3. job(v).gen = ses'.gen /\ job(v).gen <= ses.gen
      BY <1>8, <2>1, <2>2 DEF Rechecks, LogsIn, JobFits, job
    <2>4. ses'.gen = ses.gen
      BY <1>1, <2>2, <2>3
    <2>5. Rechecks(v)' => Rechecks(v)
      BY <2>1, <2>4 DEF Rechecks, job
    <2>6. LogsIn(v)' => LogsIn(v)
      <3>1. SUFFICES ASSUME LogsIn(v)' PROVE LogsIn(v)
        OBVIOUS
      <3>2. Live(att[job(v).att])
        BY <1>1, <2>1, <2>2, <3>1 DEF LogsIn, Live, ActiveAttempts, job
      <3>3. QED
        BY <2>1, <2>4, <3>1, <3>2 DEF LogsIn, job
    <2>7. QED
      BY <2>1, <2>4, <2>5, <2>6
  <1>9. ASSUME NEW v \in Workers, LogsIn(v)' PROVE FALSE
    <2>1. LogsIn(v) /\ wk'[v] = wk[v]
      BY <1>8, <1>9
    <2>2. att[job(v).att].status # "queued" /\ job(v).att \in Attempts
      BY <2>1, JobFacts DEF TakeoverInv, Apart, LoginFits, LogsIn
    <2>3. QED
      BY <1>1, <1>9, <2>1, <2>2 DEF LogsIn, Live, job
  <1>10. ASSUME NEW v \in Workers, Rechecks(v)' PROVE RecheckFits(v)'
    <2>1. Rechecks(v) /\ wk'[v] = wk[v]
      BY <1>8, <1>10
    <2>2. RecheckFits(v)
      BY <2>1 DEF TakeoverInv, Apart
    <2>3. job(v).from # Nothing
      BY <2>1, JobFacts DEF Rechecks, JobFits
    <2>4. wk'[v].job.from = ses'.enc
      BY <1>1, <2>1, <2>2, <2>3 DEF RecheckFits, job
    <2>5. \A a \in Attempts : ~Live(att'[a])
      BY <1>1, <2>2 DEF RecheckFits
    <2>6. QED
      BY <1>9, <2>4, <2>5 DEF RecheckFits, job, Live, ActiveAttempts
  <1>11. Grows
    BY <1>1, EncType DEF Grows, Nothing, LocalFile
  <1>12. QED
    BY <1>6, <1>7, <1>9, <1>10, <1>11 DEF TakeoverInv, Apart

LEMMA InitTakes == Init => TakeoverInv
  <1> SUFFICES ASSUME Init PROVE TakeoverInv
    OBVIOUS
  <1>1. \A v \in Workers : wk[v].pc = "off"
    BY DEF Init, Stopped
  <1>2. ses.enc = Nothing
    BY DEF Init
  <1>3. Later
    BY <1>2, InitInv, EncType DEF Later, Nothing
  <1>4. QED
    BY <1>1, <1>3 DEF TakeoverInv, Apart, BootIdle, Rechecks, LogsIn

LEMMA StepTakes ==
  ASSUME SessionInv, TakeoverInv, [Next]_vars
  PROVE  TakeoverInv' /\ Grows
  <1>1. Moves => TakeoverInv' /\ Grows
    BY Carried, RowsGrow DEF Moves
  <1>2. CASE Administrator
    BY <1>1, <1>2, NewAttemptMoves, OthersMove, RevokeMoves, CancelAttemptMoves DEF Administrator
  <1>3. CASE Time \/ Page \/ UNCHANGED vars
    BY <1>1, <1>3, OthersMove
  <1>4. CASE Faults
    BY <1>1, <1>4, ProcessMoves, NotesMove DEF Faults
  <1>5. CASE \E w \in Workers : Process(w)
    <2>1. PICK w \in Workers : Process(w)
      BY <1>5
    <2>2. CASE Browser(w)
      BY <1>1, <2>2, PublishQrTakes, ConfirmingMoves, OpenFreshMoves, FinishAttemptMoves,
         PublishLoginTakes, ConfirmSessionMoves, RejectSessionMoves DEF Browser
    <2>3. CASE ~Browser(w)
      BY <1>1, <2>1, <2>3, ProcessMoves, BootstrapTakes, LoopTakes, GuardMoves, NotifiedMoves,
         NotesMove, DiscardMoves DEF Process
    <2>4. QED
      BY <2>2, <2>3
  <1>6. QED
    BY <1>2, <1>3, <1>4, <1>5 DEF Next

\* A recheck of the login stored before and a login of the same generation are
\* never both able to write (run, bootstrap, _publish_session).
THEOREM TakeoverInvariant == Spec => []TakeoverInv
  BY SessionInvariant, InitTakes, StepTakes, PTL DEF Spec

\* A login that was revoked or replaced never comes back, whichever workers take
\* over from one another (_publish_session, bootstrap, run).
THEOREM OldLoginsStayOutHolds == Spec => OldLoginsStayOut
  <1>1. ASSUME SessionInv, TakeoverInv, [Next]_vars
        PROVE  [ses'.enc # Nothing => ses'.enc >= ses.enc /\ ses'.enc >= barred']_vars
    BY <1>1, StepTakes, StepInv DEF Grows, SessionInv, RowsFit
  <1>2. QED
    BY <1>1, SessionInvariant, TakeoverInvariant, PTL DEF Spec, OldLoginsStayOut
=============================================================================
