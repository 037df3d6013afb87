------------------------------ MODULE Schedules -------------------------------
(***************************************************************************)
(* Scheduled reports: services/scheduling.py, the minute tick of           *)
(* workers/scheduler.py and the endpoints of routers/routing.py.           *)
(*                                                                         *)
(* A job is one transaction that mails reports: a tick, which takes every  *)
(* active schedule that is due, or one press of "run now".  It mails       *)
(* before it writes last_run_at, and a tick commits once for all the       *)
(* schedules of the workspace, so a crash between the two forgets mails    *)
(* that left.  No schedule is locked: jobs overlap.                        *)
(*                                                                         *)
(* The body of a report, its recipients and the reading of a cron          *)
(* expression in the workspace's timezone are data: a cadence is the set   *)
(* of instants at which its expression fires.                              *)
(***************************************************************************)
EXTENDS Integers, FiniteSetsExt, UnitOfWork

CONSTANTS
  Report,       \* schedules that may be created
  Creator,      \* memberships that may create one
  Cadence,      \* cron expressions, each the set of instants it fires at
  Job,          \* jobs that may run at the same time, numbered
  Horizon,      \* bound on the clock
  Catchup,      \* scheduler_max_catchup_hours
  MaxMishaps,   \* bound on refused mails and lost transactions
  MaxPressed,   \* bound on presses of "run now"
  Nil           \* SQL NULL

(* Cadences are instants, schedules and jobs are finitely many, and NULL is *)
(* no time and no membership.                                               *)
SchedulesAssumption ==
  /\ Cadence \subseteq SUBSET Nat /\ Catchup \in Nat
  /\ Horizon \in Nat /\ MaxMishaps \in Nat
  /\ IsFiniteSet(Report) /\ IsFiniteSet(Job)
  /\ Nil \notin Nat \cup Creator

VARIABLES
  clock,     \* the time
  schedule,  \* the committed row of each schedule
  active,    \* memberships.is_active of each creator
  job,       \* what each running job read and did
  mailed,    \* the occurrences each schedule was mailed about
  repeats,   \* mails about an occurrence mailed before
  mishaps,   \* refused mails and lost transactions so far
  forgotten, \* mails whose transaction was lost
  overlaps,  \* jobs that began while another ran
  pressed    \* presses of "run now"

scheduleVars ==
  <<clock, schedule, active, job, mailed, repeats, mishaps, forgotten, overlaps, pressed>>

Time == 0..Horizon

(* scheduled_reports; lastRun is written by the jobs.  last_error, which no *)
(* code reads, is left out.                                                 *)
Row == [exists : BOOLEAN, active : BOOLEAN, fires : Cadence \cup {{}},
        creator : Creator \cup {Nil}, lastRun : Time \cup {Nil}]

Blank == [exists |-> FALSE, active |-> FALSE, fires |-> {}, creator |-> Nil,
          lastRun |-> Nil]

NoJob == [running |-> FALSE, tick |-> FALSE, now |-> 0, todo |-> {}, row |-> <<>>,
          sent |-> {}, failed |-> {}]

ScheduleInit ==
  /\ clock = 0
  /\ schedule = [r \in Report |-> Blank]
  /\ active = [m \in Creator |-> TRUE]
  /\ job = [j \in Job |-> NoJob]
  /\ mailed = [r \in Report |-> {}] /\ repeats = [r \in Report |-> 0]
  /\ mishaps = 0 /\ forgotten = 0 /\ overlaps = 0 /\ pressed = 0

jobVars == <<job, mailed, repeats, mishaps, forgotten, overlaps, pressed>>

-----------------------------------------------------------------------------
(* is_due: did the cadence fire after the later of the last run and the     *)
(* catch-up floor, up to now?                                               *)
Since(s, now) ==
  IF s.lastRun = Nil THEN now - Catchup ELSE Max({s.lastRun, now - Catchup})

DueSinceFloor(s, now) ==  \* mutant: the last run is not looked at
  \E t \in s.fires : now - Catchup < t /\ t <= now
DueLater(s, now) ==  \* mutant: an occurrence at this very instant is not due
  \E t \in s.fires : Since(s, now) < t /\ t < now
Due(s, now) == \E t \in s.fires : Since(s, now) < t /\ t <= now

(* The latest occurrence a mail sent now answers; 0 when there is none. *)
Latest(fires, now) == Max({t \in fires : t <= now} \cup {0})

(* ScheduledReportService.render, which needs its creator's grants. *)
Renders(r) == schedule[r].creator # Nil

-----------------------------------------------------------------------------
(* The settings page. *)
Create(r, cadence, m) ==
  /\ ~schedule[r].exists /\ active[m]
  /\ schedule' = [schedule EXCEPT ![r] =
       [exists |-> TRUE, active |-> TRUE, fires |-> cadence, creator |-> m, lastRun |-> Nil]]
  /\ UNCHANGED <<clock, active, jobVars>>

Update(r, cadence, on) ==
  /\ schedule[r].exists
  /\ schedule' = [schedule EXCEPT ![r].fires = cadence, ![r].active = on]
  /\ UNCHANGED <<clock, active, jobVars>>

Delete(r) ==
  /\ schedule[r].exists
  /\ schedule' = [schedule EXCEPT ![r].active = FALSE]
  /\ UNCHANGED <<clock, active, jobVars>>

(* MemberService.deactivate keeps the membership row. *)
Depart(m) ==
  /\ active[m]
  /\ active' = [active EXCEPT ![m] = FALSE]
  /\ UNCHANGED <<clock, schedule, jobVars>>

(* No endpoint deletes a membership; an operator may, and the foreign key   *)
(* then clears created_by.                                                  *)
Erase(m) ==
  /\ ~active[m] /\ \E r \in Report : schedule[r].creator = m
  /\ schedule' = [r \in Report |-> IF schedule[r].creator = m
                                   THEN [schedule[r] EXCEPT !.creator = Nil]
                                   ELSE schedule[r]]
  /\ UNCHANGED <<clock, active, jobVars>>

-----------------------------------------------------------------------------
(* Jobs. *)
Begin(j, tick, todo) ==
  /\ ~job[j].running
  /\ \A k \in Job : k < j => job[k].running  \* numbers mean nothing: the first free one
  /\ job' = [job EXCEPT ![j] =
       [running |-> TRUE, tick |-> tick, now |-> clock, todo |-> todo,
        row |-> [r \in todo |-> [fires |-> schedule[r].fires, lastRun |-> schedule[r].lastRun]],
        sent |-> {}, failed |-> {}]]
  /\ overlaps' = overlaps + IF \E k \in Job : job[k].running THEN 1 ELSE 0
  /\ UNCHANGED <<clock, schedule, active, mailed, repeats, mishaps, forgotten>>

(* run_due_schedules, up to its loop. *)
Tick(j) ==
  LET due == {r \in Report : schedule[r].active /\ Due(schedule[r], clock)}
  IN due # {} /\ Begin(j, TRUE, due) /\ UNCHANGED pressed

(* run_scheduled_report_now: whether it is active or due does not matter. *)
RunNow(j, r) ==
  /\ schedule[r].exists /\ pressed < MaxPressed
  /\ pressed' = pressed + 1
  /\ Begin(j, FALSE, {r})

(* send_now: rendered and mailed; last_run_at waits for the commit. *)
Occurrence(j, r) == Latest(job[j].row[r].fires, job[j].now)

Send(j, r) ==
  LET t == Occurrence(j, r)
  IN /\ r \in job[j].todo /\ Renders(r)
     /\ job' = [job EXCEPT ![j].todo = @ \ {r}, ![j].sent = @ \cup {r}]
     /\ mailed' = [mailed EXCEPT ![r] = @ \cup {t}]
     /\ repeats' = [repeats EXCEPT ![r] = IF t \in mailed[r] \ {0} THEN @ + 1 ELSE @]
     /\ UNCHANGED <<clock, schedule, active, mishaps, forgotten, overlaps, pressed>>

(* The job without one schedule of its list. *)
Skipped(j, r, failed) == [job[j] EXCEPT !.todo = @ \ {r}, !.failed = @ \cup failed]

(* A schedule that cannot be rendered is recorded as run by a tick; the     *)
(* same exception ends a "run now" request, and with it what it recorded.   *)
CannotRender(j, r) ==
  /\ r \in job[j].todo /\ ~Renders(r)
  /\ job' = [job EXCEPT ![j] = IF job[j].tick THEN Skipped(j, r, {r}) ELSE NoJob]
  /\ UNCHANGED <<clock, schedule, active, mailed, repeats, mishaps, forgotten, overlaps, pressed>>

(* The mail server refuses: nothing is recorded. *)
Refused(j, r) ==
  /\ r \in job[j].todo /\ Renders(r)
  /\ mishaps < MaxMishaps
  /\ mishaps' = mishaps + 1
  /\ job' = [job EXCEPT ![j] = IF job[j].tick THEN Skipped(j, r, {}) ELSE NoJob]
  /\ UNCHANGED <<clock, schedule, active, mailed, repeats, forgotten, overlaps, pressed>>

(* The flushed columns of a schedule a job dealt with. *)
Recorded(j, r) ==
  [schedule[r] EXCEPT !.lastRun = Column(@, job[j].row[r].lastRun, job[j].now)]

Commit(j) ==
  /\ job[j].running /\ job[j].todo = {}
  /\ schedule' = [r \in Report |-> IF r \in job[j].sent \cup job[j].failed
                                   THEN Recorded(j, r) ELSE schedule[r]]
  /\ job' = [job EXCEPT ![j] = NoJob]
  /\ UNCHANGED <<clock, active, mailed, repeats, mishaps, forgotten, overlaps, pressed>>

(* A worker that dies or a statement that fails takes the whole workspace's *)
(* transaction with it.                                                     *)
Lose(j) ==
  /\ job[j].running
  /\ mishaps < MaxMishaps
  /\ mishaps' = mishaps + 1
  /\ forgotten' = forgotten + Cardinality(job[j].sent)
  /\ job' = [job EXCEPT ![j] = NoJob]
  /\ UNCHANGED <<clock, schedule, active, mailed, repeats, overlaps, pressed>>

Advance ==
  /\ clock < Horizon
  /\ clock' = clock + 1
  /\ UNCHANGED <<schedule, active, jobVars>>

Work(j) ==
  \/ Commit(j)
  \/ \E r \in Report : Send(j, r) \/ CannotRender(j, r) \/ Refused(j, r)

ScheduleNext ==
  \/ Advance
  \/ \E r \in Report : Delete(r)
  \/ \E r \in Report, cadence \in Cadence :
       \/ \E m \in Creator : Create(r, cadence, m)
       \/ \E on \in BOOLEAN : Update(r, cadence, on)
  \/ \E m \in Creator : Depart(m) \/ Erase(m)
  \/ \E j \in Job : Tick(j) \/ Lose(j) \/ Work(j) \/ \E r \in Report : RunNow(j, r)

ScheduleSpec == ScheduleInit /\ [][ScheduleNext]_scheduleVars

(* arq starts a tick every minute whatever the previous one does, and a     *)
(* running job goes on.  Nobody has to press a button, and time need not    *)
(* pass.                                                                    *)
ScheduleFairness == \A j \in Job : WF_scheduleVars(Tick(j)) /\ WF_scheduleVars(Work(j))

-----------------------------------------------------------------------------
(* Properties. *)

ScheduleTypeOK ==
  /\ clock \in Time
  /\ schedule \in [Report -> Row]
  /\ active \in [Creator -> BOOLEAN]
  /\ \A j \in Job :
       /\ job[j].now <= clock
       /\ DOMAIN job[j].row \subseteq Report
       /\ job[j].todo \subseteq DOMAIN job[j].row
  /\ mishaps <= MaxMishaps

(* "A missed window is caught up once, not once per occurrence": a schedule  *)
(* is mailed again about an occurrence it already answered only if someone   *)
(* pressed "run now", a transaction was lost after its mail had left, or     *)
(* jobs overlapped, and each of these explains one repeat.                   *)
RepeatsExplained == \A r \in Report : repeats[r] <= pressed + forgotten + overlaps

(* No occurrence is lost: a schedule that fires now, has not run since and   *)
(* is in no job's hands is mailed about it, unless it is switched off or     *)
(* changed, its creator's membership erased, or the catch-up window passes.  *)
Fires(r, t) ==
  /\ schedule[r].active /\ t \in schedule[r].fires
  /\ schedule[r].creator # Nil

Untouched(r, t) ==
  /\ schedule[r].lastRun \notin t..Horizon
  /\ \A j \in Job : r \notin DOMAIN job[j].row

Pending(r, t) == clock = t /\ Fires(r, t) /\ Untouched(r, t)
Answered(r, t) ==
  \/ \E u \in t..Horizon : u \in mailed[r]
  \/ ~Fires(r, t)
  \/ clock >= t + Catchup

DueIsMailed == \A r \in Report, t \in Time \ {0} : Pending(r, t) ~> Answered(r, t)

-----------------------------------------------------------------------------
(* Why they hold: the parts of an inductive invariant. *)

Seen == [fires : SUBSET Nat, lastRun : Time \cup {Nil}]

JobRow(x) == [running |-> x.running, tick |-> x.tick, now |-> x.now, todo |-> x.todo,
              row |-> x.row, sent |-> x.sent, failed |-> x.failed]

Sound(x) ==
  /\ x = JobRow(x)
  /\ x.now \in Time /\ x.now <= clock
  /\ x.todo \subseteq DOMAIN x.row /\ x.sent \subseteq DOMAIN x.row
  /\ x.failed \subseteq DOMAIN x.row
  /\ DOMAIN x.row \subseteq Report /\ \A r \in DOMAIN x.row : x.row[r] \in Seen
  /\ ~x.running => x = NoJob
  /\ ~x.tick /\ x.todo # {} => x.sent = {}
  /\ ~x.tick => \A r, s \in x.todo : r = s

(* Nothing is recorded before it happens. *)
TimesInv ==
  /\ clock \in Time /\ schedule \in [Report -> Row] /\ active \in [Creator -> BOOLEAN]
  /\ job = [k \in Job |-> job[k]] /\ \A k \in Job : Sound(job[k])
  /\ mailed \in [Report -> SUBSET Time] /\ repeats \in [Report -> Nat]
  /\ \A r \in Report : \A t \in mailed[r] : t <= clock
  /\ \A r \in Report :
       /\ schedule[r].lastRun # Nil => schedule[r].lastRun <= clock
       /\ ~schedule[r].exists => schedule[r] = Blank
  /\ \A k \in Job : \A r \in DOMAIN job[k].row : schedule[r].exists
  /\ mishaps \in 0 .. MaxMishaps
  /\ pressed \in Nat /\ forgotten \in Nat /\ overlaps \in Nat

Waiting(r) == {k \in Job : r \in job[k].todo}

(* The tick that began while nothing ran: it pays for nothing, and nothing   *)
(* that runs began before it.                                               *)
Clean(f, r) ==
  /\ job[f].now # job[f].row[r].lastRun
  /\ \A k \in Job : job[k].running => job[f].now <= job[k].now

(* A running job would record a run before an occurrence already mailed.    *)
Overwritten(r) ==
  \E k \in Job, t \in mailed[r] : job[k].running /\ job[k].now < t

(* The row does not know of an occurrence mailed, and nobody is about to     *)
(* record it.                                                               *)
Unknown(r) ==
  /\ \E t \in mailed[r] \ {0} : schedule[r].lastRun = Nil \/ schedule[r].lastRun < t
  /\ \A k \in Job : r \in job[k].sent => job[k].now = job[k].row[r].lastRun

(* The mails that may still repeat one, if no job begins: one of each job    *)
(* that waits, but of a clean tick only one about what others have mailed    *)
(* meanwhile; and one of a later tick.                                       *)
One(p) == IF p THEN 1 ELSE 0

Anew(r, D) ==
  \/ \E f \in D : Occurrence(f, r) \in mailed[r] \ {0}
  \/ ~Overwritten(r) /\ Unknown(r)

Owed(r, D) ==
  Cardinality(Waiting(r) \ D) + One(Overwritten(r)) + One(Anew(r, D))

Affordable(r, D) ==
  /\ D \subseteq Waiting(r) /\ \A f, g \in D : f = g
  /\ \A f \in D : Clean(f, r)
  /\ repeats[r] + Owed(r, D) <= pressed + forgotten + overlaps

RepeatsInv == \A r \in Report : \E D \in SUBSET Job : Affordable(r, D)

SchedulesInv == TimesInv /\ RepeatsInv
=============================================================================
