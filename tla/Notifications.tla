--------------------------- MODULE Notifications ---------------------------
(***************************************************************************)
(* notifications/service.py, telegram_bot.py and the daily report of       *)
(* AggregateService (monitoring/service.py): the durable outbox and one of *)
(* its producers.  queue_notification adds one row per channel to its      *)
(* caller's transaction.  A notify job reads up to Limit queued rows, in   *)
(* no order and with no lock, sends the TELEGRAM ones, and writes all      *)
(* statuses in one commit: whatever it sent before a failure will be sent  *)
(* again.  A daily aggregate job adds a report unless it finds one, with   *)
(* no unique key behind the look.  Workers run such jobs side by side.     *)
(***************************************************************************)
EXTENDS Naturals, FiniteSets

CONSTANTS Workers,
          Events,    \* what the other handlers notify of
          MaxReports,\* bound on the reports filed for the day
          Limit,     \* LIMIT 100
          MaxFaults, \* bound on rolled back jobs
          Token,     \* the processes were started with a bot token
          None

Reports == 1..MaxReports
Items == Events \union Reports
Channels == {"DASHBOARD", "TELEGRAM"}
Rows == Items \X Channels

ASSUME OutboxAssumption ==
  /\ IsFiniteSet(Workers) /\ IsFiniteSet(Events) /\ Events \cap Nat = {}
  /\ MaxReports \in Nat /\ MaxFaults \in Nat
  /\ Limit \in Nat \ {0} /\ Token \in BOOLEAN /\ None \notin Nat

VARIABLES row,     \* row[r]: "none", or the notification's status
          copies,  \* copies[i]: how often Telegram delivered item i
          chat,    \* the setting notification_chat_id names a recipient
          run,     \* run[w]: the job of worker w
          faults

vars == <<row, copies, chat, run, faults>>
outbox == <<row, copies, chat>>

Idle == [pc |-> "idle", batch |-> {}, known |-> FALSE, sent |-> {}, report |-> None]

Init ==
  /\ row = [r \in Rows |-> "none"]
  /\ copies = [i \in Items |-> 0]
  /\ chat = FALSE
  /\ run = [w \in Workers |-> Idle]
  /\ faults = 0

At(w, p) == run[w].pc = p
Goto(w, x, p) == run' = [run EXCEPT ![w] = [x EXCEPT !.pc = p]]

(***************************************************************************)
(* The producers' commits and the operator's setting.                     *)
(***************************************************************************)
WithRows(i) == [r \in Rows |-> IF r[1] = i THEN "QUEUED" ELSE row[r]]

Notify(e) ==
  /\ row[<<e, "TELEGRAM">>] = "none"
  /\ row' = WithRows(e)
  /\ UNCHANGED <<copies, chat, run, faults>>

Configure ==
  /\ ~chat
  /\ chat' = TRUE
  /\ UNCHANGED <<row, copies, run, faults>>

(***************************************************************************)
(* NotificationService.run                                                 *)
(***************************************************************************)
QueuedAnyStatus == {r \in Rows : row[r] # "none"}
Queued == {r \in Rows : row[r] = "QUEUED"}

(* select(...).where(status == "QUEUED").limit(100): with no ORDER BY any  *)
(* Limit of them.                                                          *)
Batches == {B \in SUBSET Queued : \/ B = Queued /\ Cardinality(B) <= Limit
                                  \/ Cardinality(B) = Limit}

(* The recipient is read once for the whole batch, by the next statement. *)
Select(w) ==
  /\ At(w, "idle") /\ Queued # {}
  /\ \E B \in Batches : Goto(w, [Idle EXCEPT !.batch = B, !.known = chat], "send")
  /\ UNCHANGED <<outbox, faults>>

(* The batch's items that are still to be posted to Telegram: none without *)
(* a recipient ("continue") or without a bot token (send returns False).   *)
Unsent(w) ==
  {i \in Items : /\ At(w, "send") /\ run[w].known /\ Token
                 /\ <<i, "TELEGRAM">> \in run[w].batch /\ i \notin run[w].sent}

Send(w) ==
  /\ \E i \in Unsent(w) :
       /\ copies' = [copies EXCEPT ![i] = @ + 1]
       /\ Goto(w, [run[w] EXCEPT !.sent = @ \union {i}], "send")
  /\ UNCHANGED <<row, chat, faults>>

Rollback(w) ==
  /\ run' = [run EXCEPT ![w] = Idle]
  /\ faults' = faults + 1
  /\ UNCHANGED <<row, chat>>

(* raise_for_status, or a timeout after the message was taken: the         *)
(* exception leaves the loop, and no status of the batch is written.       *)
SendFails(w) ==
  /\ faults < MaxFaults
  /\ \E i \in Unsent(w), taken \in {0, 1} : copies' = [copies EXCEPT ![i] = @ + taken]
  /\ Rollback(w)

StatusTelegramOnly(w, r) ==
  IF r[2] = "DASHBOARD" \/ ~run[w].known THEN row[r] ELSE IF Token THEN "SENT" ELSE "FAILED"
StatusNoRecipient(w, r) ==
  IF ~run[w].known THEN row[r] ELSE IF r[2] = "DASHBOARD" THEN "DELIVERED" ELSE "SENT"
Status(w, r) ==
  CASE r[2] = "DASHBOARD" -> "DELIVERED"
    [] r[2] = "TELEGRAM" /\ ~run[w].known -> row[r]
    [] OTHER -> IF Token THEN "SENT" ELSE "FAILED"

CommitAll(w) ==
  /\ At(w, "send")
  /\ Unsent(w) = {}
  /\ row' = [r \in Rows |-> IF r \in run[w].batch THEN Status(w, r) ELSE row[r]]
  /\ run' = [run EXCEPT ![w] = Idle]
  /\ UNCHANGED <<copies, chat, faults>>

(***************************************************************************)
(* AggregateService.run with notify_daily, for one account and one date;   *)
(* the figures it writes, which nothing reads back, are left out.          *)
(***************************************************************************)
Filed(i) == row[<<i, "TELEGRAM">>] # "none"

(* A report is added unless one is found: the next name that is neither    *)
(* filed nor in another job's hands.                                       *)
Spare == {i \in Reports : ~Filed(i) /\ \A v \in Workers : run[v].report # i}
AddReport(w) ==
  \E i \in Spare :
    /\ \A j \in Spare : i <= j
    /\ Goto(w, [Idle EXCEPT !.report = i], "close")

FindReportBlind(w) ==
  /\ At(w, "idle")
  /\ AddReport(w)
  /\ UNCHANGED <<outbox, faults>>
FindReport(w) ==
  /\ At(w, "idle")
  /\ \A i \in Reports : ~Filed(i)
  /\ AddReport(w)
  /\ UNCHANGED <<outbox, faults>>

CommitReport(w) ==
  /\ At(w, "close")
  /\ row' = WithRows(run[w].report)
  /\ run' = [run EXCEPT ![w] = Idle]
  /\ UNCHANGED <<copies, chat, faults>>

Crash(w) ==
  /\ ~At(w, "idle") /\ faults < MaxFaults
  /\ Rollback(w)
  /\ UNCHANGED copies

Continue(w) == Send(w) \/ CommitAll(w) \/ CommitReport(w)

Next ==
  \/ \E e \in Events : Notify(e)
  \/ Configure
  \/ \E w \in Workers :
       Select(w) \/ FindReport(w) \/ Continue(w) \/ SendFails(w) \/ Crash(w)

Spec == Init /\ [][Next]_vars

(* The scheduler enqueues notify jobs for ever and the queue serves every  *)
(* job (SchedulerLease, JobQueue); a job that runs goes on.                *)
FairSpec ==
  /\ Spec
  /\ SF_vars(\E w \in Workers : Select(w))
  /\ \A w \in Workers : WF_vars(Continue(w))

----------------------------------------------------------------------------
(* Types. *)
TypeOK ==
  /\ row \in [Rows -> {"none", "QUEUED", "SENT", "FAILED", "DELIVERED"}]
  /\ \A i \in Items :
       row[<<i, "DASHBOARD">>] = "none" <=> row[<<i, "TELEGRAM">>] = "none"
  /\ copies \in [Items -> Nat]
  /\ chat \in BOOLEAN
  /\ faults \in 0..MaxFaults
  /\ run \in [Workers -> [
       pc : {"idle", "send", "close"}, batch : SUBSET Rows,
       known : BOOLEAN, sent : SUBSET Items, report : Reports \union {None}]]

(* The outbox is at least once, and no more than that asks for: an item    *)
(* reaches Telegram once per job that may hold it at the same time, and    *)
(* once more per rolled back job; a row marked SENT is never picked again. *)
CopiesBounded == \A i \in Items : copies[i] <= faults + Cardinality(Workers)

(* A day has no more reports than workers whose jobs looked for one before *)
(* the first of them committed: redelivered and repeated jobs add none.    *)
ReportsBounded == Cardinality({i \in Reports : Filed(i)}) <= Cardinality(Workers)

(* What is said of the reports: "idempotent prior-day summaries"           *)
(* (docs/REAL_INFRASTRUCTURE_RESULTS.md:96), one for a day however often   *)
(* the job is delivered.                                                   *)
OneReport == Cardinality({i \in Reports : Filed(i)}) <= 1

(* With a recipient every queued row is dealt with in the end, whatever    *)
(* the batch limit and the failures left behind.                           *)
Retired == <>[](chat => Queued = {})

(* Without one the dashboard is still served, as long as the TELEGRAM rows *)
(* that wait for a recipient do not fill a whole batch.                    *)
Backlog == {r \in Queued : r[2] = "TELEGRAM"}
DashboardServed == [](chat \/ Cardinality(Backlog) < Limit) => <>[](Queued = Backlog)
============================================================================
