------------------------- MODULE NotificationOutbox -------------------------
(***************************************************************************)
(* Alerts and their Telegram deliveries, and the workers that send them.   *)
(*                                                                         *)
(* Every alert event commits with one delivery, which a worker claims      *)
(* under a lease, sends outside any transaction, and finishes.  While the  *)
(* database fails, the worker keeps the outage in a file of its own and    *)
(* notifies from there; when the database answers again it merges the file *)
(* into the alert and its delivery, in three transactions, and unlinks it. *)
(*                                                                         *)
(* A transaction is one step.  It may fail, or commit and lose the answer; *)
(* either way the worker sees a database error and takes it for an outage. *)
(***************************************************************************)
EXTENDS Naturals, Sequences, FiniteSets

CONSTANTS
  Workers,      \* notification workers, each owner of its state directory
  HealthOnly,   \* those started with --health-only
  MaxAttempts,  \* MAX_ATTEMPTS (5)
  MaxOther,     \* bound: alerts and tests besides database outages
  MaxSwitches,  \* bound: changes of the Telegram settings
  Outcomes,     \* results of a request that this instance tells apart
  MaxIncidents, \* bound: database outages
  MaxFaults     \* bound: database errors and crashes

ASSUME OutboxAssumption ==
  /\ IsFiniteSet(Workers) /\ HealthOnly \subseteq Workers
  /\ MaxAttempts \in Nat \ {0}
  /\ Outcomes \subseteq {"sent", "failed", "not_configured", "retryable"}
  /\ MaxOther \in Nat /\ MaxSwitches \in Nat
  /\ MaxIncidents \in Nat /\ MaxFaults \in Nat

Incidents == 1 .. MaxIncidents
Down(i)   == <<"down", i>>  \* uuid4 of the incident
Up(i)     == <<"up", i>>    \* uuid5(identifier, "recovered")
New(n)    == <<"new", n>>   \* uuid4 of another alert, or of a test
MaxRows   == 2 * (MaxIncidents + MaxOther)
Ids       == {"down", "up"} \X Incidents \cup {"new"} \X (1 .. MaxRows)

Final    == {"sent", "failed", "disabled", "not_configured"}
Statuses == Final \cup {"pending", "sending", "retrying"}
Phases   == {"off", "top", "report", "import", "recover", "unlink", "health",
             "claim", "send", "finish", "outage", "opened", "osend", "ofinish"}

VARIABLES
  rows,     \* alert events in creation order, each with its delivery
  file,     \* database-incident.json of each worker, at most one
  on,       \* TelegramSettings.enabled
  wk,       \* workers: place in run_worker, and its local variables
  made,     \* incidents so far
  faults,   \* database errors and crashes so far (bound)
  switches, \* changes of the settings so far (bound)
  calls,    \* history: requests made for each message
  known,    \* history: messages whose success was recorded
  late      \* history: routine outbox requests since the settings went off

vars == <<rows, file, on, wk, made, faults, switches, calls, known, late>>

Idle == [pc |-> "top", config |-> FALSE, at |-> 0, token |-> 0, res |-> "none"]

Init ==
  /\ rows = <<>>
  /\ file = [w \in Workers |-> {}]
  /\ on = TRUE
  /\ wk = [w \in Workers |-> Idle]
  /\ made = 0 /\ faults = 0 /\ switches = 0
  /\ calls = [m \in Ids |-> 0]
  /\ known = {}
  /\ late = 0

----------------------------------------------------------------------------
(* Rows *)

HasRow(id)       == \E n \in DOMAIN rows : rows[n].id = id
ActiveRows(kind) == {n \in DOMAIN rows :
                       rows[n].kind = kind /\ rows[n].alert = "active"}
Others           == {n \in DOMAIN rows : rows[n].kind # "database"}

\* The event persist_alert answers with: that of the id, or the active one, or new.
EventOf(id, kind) ==
  LET same  == {n \in DOMAIN rows : rows[n].id = id}
      found == IF same # {} THEN same ELSE ActiveRows(kind)
  IN  IF found = {} THEN Len(rows) + 1 ELSE CHOOSE n \in found : TRUE

NewRow(id, kind, alert, rel) ==
  [id |-> id, kind |-> kind, alert |-> alert, rel |-> rel,
   st |-> IF on \/ kind = "test" THEN "pending" ELSE "disabled",
   tries |-> 0, hist |-> <<>>, due |-> TRUE, token |-> 0]

\* Mutants of PersistAlert: the id of an event is not looked up; nor is the
\* active event of the kind.
PersistAlertAnew(kind, id, resolved) ==
  \/ /\ resolved <=> ActiveRows(kind) = {}
     /\ UNCHANGED rows
  \/ /\ ~resolved /\ ActiveRows(kind) = {}
     /\ rows' = Append(rows, NewRow(id, kind, "active", 0))
  \/ /\ resolved
     /\ \E a \in ActiveRows(kind) :
          rows' = Append([rows EXCEPT ![a].alert = "resolved"],
                         NewRow(id, kind, "resolved", a))

PersistAlertBlind(kind, id, resolved) ==
  \/ /\ HasRow(id) \/ (resolved /\ ActiveRows(kind) = {})
     /\ UNCHANGED rows
  \/ /\ ~HasRow(id) /\ ~resolved
     /\ rows' = Append(rows, NewRow(id, kind, "active", 0))
  \/ /\ ~HasRow(id) /\ resolved
     /\ \E a \in ActiveRows(kind) :
          rows' = Append([rows EXCEPT ![a].alert = "resolved"],
                         NewRow(id, kind, "resolved", a))

\* An event already recorded is not recorded again; a repeated failure only
\* counts, and a recovery without a failure is nothing.
PersistAlert(kind, id, resolved) ==
  \/ /\ HasRow(id) \/ (resolved <=> ActiveRows(kind) = {})
     /\ UNCHANGED rows
  \/ /\ ~HasRow(id) /\ ~resolved /\ ActiveRows(kind) = {}
     /\ rows' = Append(rows, NewRow(id, kind, "active", 0))
  \/ /\ ~HasRow(id) /\ resolved
     /\ \E a \in ActiveRows(kind) :
          rows' = Append([rows EXCEPT ![a].alert = "resolved"],
                         NewRow(id, kind, "resolved", a))

\* The history of attempts: the last entry is the attempt under way.
Opened(h, n, i) == Append(h, [n |-> n, st |-> "sending", inc |-> i])
Closed(h, s)    == IF h = <<>> THEN h ELSE [h EXCEPT ![Len(h)].st = s]

\* The status a result records, and the one it leaves the delivery in.
Recorded(r)   == IF r = "retryable" THEN "failed" ELSE r
After(r, tries) ==
  IF r = "retryable" /\ tries < MaxAttempts THEN "retrying" ELSE Recorded(r)

----------------------------------------------------------------------------
(* The steps of a worker *)

Fault      == faults < MaxFaults /\ faults' = faults + 1
DbError(w) == Fault /\ (file[w] = {} => made < MaxIncidents)

\* A transaction answers, or it commits and the answer is lost.
Answers(w, next) ==
  \/ wk' = [wk EXCEPT ![w] = next] /\ UNCHANGED faults
  \/ DbError(w) /\ wk' = [wk EXCEPT ![w] = [Idle EXCEPT !.pc = "outage"]]

Goes(w, next) == wk' = [wk EXCEPT ![w] = next] /\ UNCHANGED faults

\* Mutants of ReadConfiguration: the settings of the first cycle are kept; only
\* a file whose notification is over is merged.
ReadConfigurationOnce(w) ==
  /\ wk[w].pc = "top"
  /\ Answers(w, [Idle EXCEPT !.config = TRUE,
                   !.pc = IF file[w] = {} THEN "health" ELSE "report"])
  /\ UNCHANGED <<rows, file, on, made, switches, calls, known, late>>

ReadConfigurationWaits(w) ==
  /\ wk[w].pc = "top"
  /\ Answers(w, [Idle EXCEPT !.config = on,
       !.pc = IF \A f \in file[w] : f.st \notin Final THEN "health" ELSE "report"])
  /\ UNCHANGED <<rows, file, on, made, switches, calls, known, late>>

\* run_worker: read the settings, then merge the outage file if there is one.
ReadConfiguration(w) ==
  /\ wk[w].pc = "top"
  /\ Answers(w, [Idle EXCEPT !.config = on,
                   !.pc = IF file[w] = {} THEN "health" ELSE "report"])
  /\ UNCHANGED <<rows, file, on, made, switches, calls, known, late>>

\* reconcile_database_outage, first transaction: the alert of the incident.
Report(w) ==
  /\ wk[w].pc = "report"
  /\ \E f \in file[w] :
       /\ PersistAlert("database", Down(f.inc), FALSE)
       /\ Answers(w, [wk[w] EXCEPT !.pc = "import", !.at = EventOf(Down(f.inc), "database")'])
  /\ UNCHANGED <<file, on, made, switches, calls, known, late>>

\* Mutant of Importable: only what an earlier merge brought is updated.
ImportableAgain(r, f) ==
  /\ r.st \notin {"sent", "sending"}
  /\ f.tries > r.tries /\ \E k \in DOMAIN r.hist : r.hist[k].inc = f.inc

\* Work done by an outbox worker after an earlier partial merge is kept.
Importable(r, f) ==
  /\ r.st \notin {"sent", "sending"}
  /\ \/ r.tries = 0
     \/ f.st = "sent"
     \/ f.tries > r.tries /\ \E k \in DOMAIN r.hist : r.hist[k].inc = f.inc

\* An interrupted offline attempt is over when the database answers again.
Interrupted(f) ==
  IF f.st # "sending" THEN f
  ELSE [f EXCEPT !.st = IF f.tries < MaxAttempts THEN "retrying" ELSE "failed",
                 !.hist = Closed(f.hist, "unknown")]

\* The entries of a history that are not of the incident, in their order.
OtherEntries(h, incident) ==
  LET kept[k \in 0 .. Len(h)] ==
        IF k = 0 THEN <<>>
        ELSE IF h[k].inc # incident THEN Append(kept[k - 1], h[k]) ELSE kept[k - 1]
  IN  kept[Len(h)]

\* Mutants of Merged: the attempts of the file are not counted; they are added
\* to those of an earlier merge.
MergedFresh(r, f) ==
  [r EXCEPT !.st = f.st, !.due = f.due, !.hist = OtherEntries(r.hist, f.inc) \o f.hist]

MergedTwice(r, f) ==
  [r EXCEPT !.st = f.st, !.due = f.due,
            !.tries = IF f.tries > r.tries THEN f.tries ELSE r.tries,
            !.hist = r.hist \o f.hist]

Merged(r, f) ==
  [r EXCEPT !.st = f.st, !.due = f.due,
            !.tries = IF f.tries > r.tries THEN f.tries ELSE r.tries,
            !.hist = OtherEntries(r.hist, f.inc) \o f.hist]

\* Second transaction: what the file says of the delivery.
Import(w) ==
  /\ wk[w].pc = "import"
  /\ \E f \in file[w] :
       LET r == rows[wk[w].at] IN
       rows' = IF Importable(r, f)
               THEN [rows EXCEPT ![wk[w].at] = Merged(r, Interrupted(f))]
               ELSE rows
  /\ Answers(w, [wk[w] EXCEPT !.pc = "recover", !.at = 0])
  /\ UNCHANGED <<file, on, made, switches, calls, known, late>>

\* Third transaction: the recovery.
Recover(w) ==
  /\ wk[w].pc = "recover"
  /\ \E f \in file[w] : PersistAlert("database", Up(f.inc), TRUE)
  /\ Answers(w, [wk[w] EXCEPT !.pc = "unlink"])
  /\ UNCHANGED <<file, on, made, switches, calls, known, late>>

Unlink(w) ==
  /\ wk[w].pc = "unlink"
  /\ file' = [file EXCEPT ![w] = {}]
  /\ Goes(w, [wk[w] EXCEPT !.pc = "health"])
  /\ UNCHANGED <<rows, on, made, switches, calls, known, late>>

\* The journal cannot be written: the cycle ends, the file stays.
CycleFails(w) ==
  /\ wk[w].pc = "unlink"
  /\ Fault
  /\ wk' = [wk EXCEPT ![w] = Idle]
  /\ UNCHANGED <<rows, file, on, made, switches, calls, known, late>>

AfterHealth(w) == IF w \in HealthOnly THEN Idle ELSE [wk[w] EXCEPT !.pc = "claim"]

\* check_redis, every 30 seconds.
CheckRedis(w) ==
  /\ wk[w].pc = "health"
  /\ \E resolved \in BOOLEAN :
       /\ resolved \/ ActiveRows("redis") # {} \/ Cardinality(Others) < MaxOther
       /\ PersistAlert("redis", New(Len(rows) + 1), resolved)
  /\ Answers(w, AfterHealth(w))
  /\ UNCHANGED <<file, on, made, switches, calls, known, late>>

NoHealthDue(w) ==
  /\ wk[w].pc = "health"
  /\ Goes(w, AfterHealth(w))
  /\ UNCHANGED <<rows, file, on, made, switches, calls, known, late>>

----------------------------------------------------------------------------
(* The outbox *)

\* Mutant of Claimable: a lease that ran out is left alone.
ClaimableNoLease(r) == r.st \in {"pending", "retrying"} /\ r.due

Claimable(r) == r.st \in {"pending", "retrying", "sending"} /\ r.due

\* The row as a claim finds it: an attempt whose lease ran out is unknown.
Reclaimed(r) == IF r.st = "sending" THEN [r EXCEPT !.hist = Closed(r.hist, "unknown")] ELSE r

\* Attempts grow with every claim, so the number stands for the lease token.
ClaimDelivery(w) ==
  /\ wk[w].pc = "claim"
  /\ \E n \in DOMAIN rows :
       LET r == Reclaimed(rows[n]) IN
       /\ Claimable(rows[n])
       /\ r.tries < MaxAttempts
       /\ rows' = [rows EXCEPT ![n] =
            [r EXCEPT !.st = "sending", !.tries = r.tries + 1, !.due = FALSE,
                      !.token = r.tries + 1, !.hist = Opened(r.hist, r.tries + 1, 0)]]
       /\ Answers(w, [wk[w] EXCEPT !.pc = "send", !.at = n, !.token = r.tries + 1])
  /\ UNCHANGED <<file, on, made, switches, calls, known, late>>

\* An attempt that was the last one and never ended.
ClaimExhausted(w) ==
  /\ wk[w].pc = "claim"
  /\ \E n \in DOMAIN rows :
       /\ Claimable(rows[n]) /\ rows[n].tries >= MaxAttempts
       /\ rows' = [rows EXCEPT ![n] =
            [Reclaimed(rows[n]) EXCEPT !.st = "failed", !.token = 0]]
  /\ Answers(w, Idle)
  /\ UNCHANGED <<file, on, made, switches, calls, known, late>>

NothingToSend(w) ==
  /\ wk[w].pc = "claim"
  /\ \A n \in DOMAIN rows : ~Claimable(rows[n])
  /\ Answers(w, Idle)
  /\ UNCHANGED <<rows, file, on, made, switches, calls, known, late>>

\* The request, outside any transaction.
SendTelegram(w) ==
  LET r == rows[wk[w].at] IN
  /\ wk[w].pc = "send"
  /\ wk[w].config \/ r.kind = "test"
  /\ \E res \in Outcomes :
       /\ Goes(w, [wk[w] EXCEPT !.pc = "finish", !.res = res])
       /\ calls' = IF res = "not_configured" THEN calls
                   ELSE [calls EXCEPT ![r.id] = @ + 1]
       /\ late' = IF on \/ r.kind = "test" \/ res = "not_configured"
                  THEN late ELSE late + 1
  /\ UNCHANGED <<rows, file, on, made, switches, known>>

\* Notifications are off, as the cycle read them.
SendDisabled(w) ==
  /\ wk[w].pc = "send"
  /\ ~wk[w].config /\ rows[wk[w].at].kind # "test"
  /\ Goes(w, [wk[w] EXCEPT !.pc = "finish", !.res = "disabled"])
  /\ UNCHANGED <<rows, file, on, made, switches, calls, known, late>>

\* Mutant of Fenced: without the lease token.
FencedByStatus(w) == rows[wk[w].at].st = "sending"

\* Only the holder of the lease records its result.
Fenced(w) ==
  LET r == rows[wk[w].at] IN r.st = "sending" /\ r.token = wk[w].token

FinishDelivery(w) ==
  LET n == wk[w].at
      r == rows[n]
      s == wk[w].res
  IN
  /\ wk[w].pc = "finish"
  /\ IF Fenced(w)
     THEN /\ rows' = [rows EXCEPT ![n] =
               [r EXCEPT !.st = After(s, r.tries), !.due = FALSE, !.token = 0,
                         !.hist = Closed(r.hist, Recorded(s))]]
          /\ known' = IF s = "sent" THEN known \cup {r.id} ELSE known
     ELSE UNCHANGED <<rows, known>>
  /\ Answers(w, Idle)
  /\ UNCHANGED <<file, on, made, switches, calls, late>>

----------------------------------------------------------------------------
(* A database outage *)

\* handle_database_outage, first write: the incident.
OpenIncident(w) ==
  /\ wk[w].pc = "outage" /\ file[w] = {}
  /\ made' = made + 1
  /\ file' = [file EXCEPT ![w] =
       {[inc |-> made + 1, st |-> "pending", tries |-> 0, due |-> TRUE, hist |-> <<>>]}]
  /\ Goes(w, [wk[w] EXCEPT !.pc = "opened"])
  /\ UNCHANGED <<rows, on, switches, calls, known, late>>

ReadIncident(w) ==
  /\ wk[w].pc = "outage" /\ file[w] # {}
  /\ Goes(w, [wk[w] EXCEPT !.pc = "opened"])
  /\ UNCHANGED <<rows, file, on, made, switches, calls, known, late>>

\* Second write: the attempt is claimed before the request.
ClaimOffline(w) ==
  /\ wk[w].pc = "opened"
  /\ \E f \in file[w] :
       /\ f.st \notin Final /\ f.due /\ f.tries < MaxAttempts
       /\ file' = [file EXCEPT ![w] =
            {[f EXCEPT !.st = "sending", !.tries = f.tries + 1, !.due = FALSE,
                !.hist = Opened(IF f.st = "sending" THEN Closed(f.hist, "unknown")
                                ELSE f.hist, f.tries + 1, f.inc)]}]
  /\ Goes(w, [wk[w] EXCEPT !.pc = "osend"])
  /\ UNCHANGED <<rows, on, made, switches, calls, known, late>>

ExhaustOffline(w) ==
  /\ wk[w].pc = "opened"
  /\ \E f \in file[w] :
       /\ f.st \notin Final /\ f.due /\ f.tries >= MaxAttempts
       /\ file' = [file EXCEPT ![w] =
            {[f EXCEPT !.st = "failed",
                !.hist = IF f.st = "sending" THEN Closed(f.hist, "unknown") ELSE f.hist]}]
  /\ Goes(w, Idle)
  /\ UNCHANGED <<rows, on, made, switches, calls, known, late>>

NothingOffline(w) ==
  /\ wk[w].pc = "opened"
  /\ \E f \in file[w] : f.st \in Final \/ ~f.due
  /\ Goes(w, Idle)
  /\ UNCHANGED <<rows, file, on, made, switches, calls, known, late>>

\* offline_configuration, then the request if there is a configuration.
SendOffline(w) ==
  /\ wk[w].pc = "osend"
  /\ \E res \in Outcomes, f \in file[w] :
       /\ Goes(w, [wk[w] EXCEPT !.pc = "ofinish", !.res = res])
       /\ calls' = IF res = "not_configured" THEN calls
                   ELSE [calls EXCEPT ![Down(f.inc)] = @ + 1]
  /\ UNCHANGED <<rows, file, on, made, switches, known, late>>

\* Third write: the result.
FinishOffline(w) ==
  /\ wk[w].pc = "ofinish"
  /\ \E f \in file[w] :
       LET s == wk[w].res IN
       /\ file' = [file EXCEPT ![w] =
            {[f EXCEPT !.st = After(s, f.tries), !.due = FALSE,
                       !.hist = Closed(f.hist, Recorded(s))]}]
       /\ known' = IF s = "sent" THEN known \cup {Down(f.inc)} ELSE known
  /\ Goes(w, Idle)
  /\ UNCHANGED <<rows, on, made, switches, calls, late>>

----------------------------------------------------------------------------
(* The environment *)

DbFails(w) ==
  /\ wk[w].pc \in {"top", "report", "import", "recover", "health", "claim", "finish"}
  /\ DbError(w)
  /\ wk' = [wk EXCEPT ![w] = [Idle EXCEPT !.pc = "outage"]]
  /\ UNCHANGED <<rows, file, on, made, switches, calls, known, late>>

Crash(w) ==
  /\ wk[w].pc # "off"
  /\ Fault
  /\ wk' = [wk EXCEPT ![w] = [Idle EXCEPT !.pc = "off"]]
  /\ UNCHANGED <<rows, file, on, made, switches, calls, known, late>>

Restart(w) ==
  /\ wk[w].pc = "off"
  /\ Goes(w, Idle)
  /\ UNCHANGED <<rows, file, on, made, switches, calls, known, late>>

\* A retry delay or a lease runs out.
RowDue(n) ==
  /\ n \in DOMAIN rows /\ rows[n].st \in {"retrying", "sending"} /\ ~rows[n].due
  /\ rows' = [rows EXCEPT ![n].due = TRUE]
  /\ UNCHANGED <<file, on, wk, made, faults, switches, calls, known, late>>

FileDue(w) ==
  /\ \E f \in file[w] :
       /\ f.st \in {"retrying", "sending"} /\ ~f.due
       /\ file' = [file EXCEPT ![w] = {[f EXCEPT !.due = TRUE]}]
  /\ UNCHANGED <<rows, on, wk, made, faults, switches, calls, known, late>>

\* The administrator: a test notification, and the enabled switch.
TestTelegram ==
  /\ Cardinality(Others) < MaxOther
  /\ rows' = Append(rows, NewRow(New(Len(rows) + 1), "test", "test", 0))
  /\ UNCHANGED <<file, on, wk, made, faults, switches, calls, known, late>>

PatchTelegram ==
  /\ switches < MaxSwitches
  /\ on' = ~on /\ switches' = switches + 1 /\ late' = 0
  /\ UNCHANGED <<rows, file, wk, made, faults, calls, known>>

Works(w) ==
  \/ ReadConfiguration(w) \/ Report(w) \/ Import(w) \/ Recover(w) \/ Unlink(w)
  \/ CheckRedis(w) \/ NoHealthDue(w)
  \/ ClaimDelivery(w) \/ ClaimExhausted(w) \/ NothingToSend(w)
  \/ SendTelegram(w) \/ SendDisabled(w) \/ FinishDelivery(w)
  \/ OpenIncident(w) \/ ReadIncident(w) \/ ClaimOffline(w) \/ ExhaustOffline(w)
  \/ NothingOffline(w) \/ SendOffline(w) \/ FinishOffline(w)

Next ==
  \/ \E w \in Workers :
       Works(w) \/ CycleFails(w) \/ DbFails(w) \/ Crash(w) \/ Restart(w) \/ FileDue(w)
  \/ \E n \in 1 .. MaxRows : RowDue(n)
  \/ TestTelegram
  \/ PatchTelegram

Spec == Init /\ [][Next]_vars

\* A worker is restarted and keeps cycling, and time passes.  Database errors
\* and crashes are bounded, so they come to an end.
Fairness ==
  /\ \A w \in Workers : WF_vars(Works(w)) /\ WF_vars(Restart(w)) /\ WF_vars(FileDue(w))
  /\ \A n \in 1 .. MaxRows : WF_vars(RowDue(n))

FairSpec == Spec /\ Fairness

----------------------------------------------------------------------------
(* Properties *)

Attempts == [n : 1 .. MaxAttempts, st : Statuses \cup {"unknown"}, inc : {0} \cup Incidents]

\* The history of a delivery is its attempts, numbered without a gap or a
\* repetition, over offline and outbox attempts and repeated merges.
HistoryNumbered ==
  /\ \A n \in DOMAIN rows : /\ Len(rows[n].hist) = rows[n].tries
                            /\ \A k \in DOMAIN rows[n].hist : rows[n].hist[k].n = k
  /\ \A w \in Workers : \A f \in file[w] : Len(f.hist) = f.tries

\* Every variable has its type: rows carry the columns of alert_events and
\* notification_deliveries with one entry of history for each attempt, files
\* the fields of the incident.
TypeOK ==
  /\ rows \in Seq([id : Ids, kind : {"database", "redis", "test"},
                   alert : {"active", "resolved", "test"}, rel : 0 .. MaxRows,
                   st : Statuses, tries : 0 .. MaxAttempts, hist : Seq(Attempts),
                   due : BOOLEAN, token : 0 .. MaxAttempts])
  /\ \A w \in Workers : file[w] \subseteq
       [inc : Incidents, st : Statuses, tries : 0 .. MaxAttempts,
        due : BOOLEAN, hist : Seq(Attempts)]
  /\ wk \in [Workers -> [pc : Phases, config : BOOLEAN, at : 0 .. MaxRows,
                         token : 0 .. MaxAttempts, res : Outcomes \cup {"none", "disabled"}]]
  /\ made \in 0 .. MaxIncidents /\ faults \in 0 .. MaxFaults
  /\ switches \in 0 .. MaxSwitches /\ on \in BOOLEAN
  /\ calls \in [Ids -> Nat] /\ known \subseteq Ids /\ late \in Nat
  /\ HistoryNumbered

\* One message, at most MAX_ATTEMPTS requests, whatever crashes and outages
\* come between: the offline attempts of an incident count against the delivery
\* it is merged into (finish_delivery, reconcile_database_outage).
BudgetHolds == \A m \in Ids : calls[m] <= MaxAttempts

\* A message whose success was recorded, in the file or in the database, is not
\* sent again, however often the merge of the file is interrupted.
SuccessIsFinal == [][\A m \in known : calls'[m] = calls[m]]_vars

\* An incident whose file is gone is in the database exactly once: one alert,
\* resolved, and one recovery that names it.
IncidentsRecorded ==
  \A i \in 1 .. made : (\A w \in Workers : \A f \in file[w] : f.inc # i) =>
    \E n, m \in DOMAIN rows :
      /\ {k \in DOMAIN rows : rows[k].id = Down(i)} = {n} /\ rows[n].alert = "resolved"
      /\ {k \in DOMAIN rows : rows[k].id = Up(i)} = {m} /\ rows[m].rel = n

\* Of each kind at most one alert is active, and the resolved ones have one
\* recovery each, although several workers report and resolve the same failure.
EpisodesPaired ==
  /\ \A kind \in {"database", "redis"} : Cardinality(ActiveRows(kind)) <= 1
  /\ \A n \in DOMAIN rows :
       rows[n].kind # "test" /\ rows[n].rel = 0 =>
         Cardinality({m \in DOMAIN rows : rows[m].rel = n})
           = IF rows[n].alert = "resolved" THEN 1 ELSE 0

\* The outcome an attempt is closed with is that of its own request, and it stays:
\* a worker whose lease ran out and was claimed again changes nothing, whenever
\* its answer comes (the lease token of finish_delivery).
OutcomesBelong ==
  [][\A n \in DOMAIN rows : \A k \in DOMAIN rows[n].hist :
       LET old == rows[n].hist[k]
       IN  /\ old.st # "sending" =>
                \E j \in DOMAIN rows'[n].hist : rows'[n].hist[j] = old
           /\ (/\ old.st = "sending"
               /\ rows'[n].hist[k].st \notin {"sending", "unknown"}) =>
                \E w \in Workers :
                  /\ wk[w].pc = "finish" /\ wk[w].at = n /\ wk[w].token = old.n
                  /\ rows'[n].hist[k].st = Recorded(wk[w].res)]_vars

\* After the administrator turned notifications off, each worker makes at most
\* the one routine request of the cycle that had read the settings before.
OffWithinOneCycle == late <= Cardinality(Workers)

\* Every delivery comes to an end, whatever crashes leave behind.
DeliveriesSettle ==
  \A n \in 1 .. MaxRows :
    (n \in DOMAIN rows) ~> (n \in DOMAIN rows /\ rows[n].st \in Final)

\* Every outage file is merged and removed when the database answers again.
OutagesClose == \A w \in Workers : (file[w] # {}) ~> (file[w] = {})

\* A database error after a recovery was recorded is a new outage: the handler
\* does not take it for the incident that is over.
NewOutageNewIncident ==
  \A w \in Workers : wk[w].pc = "opened" => \A f \in file[w] : ~HasRow(Up(f.inc))
=============================================================================
