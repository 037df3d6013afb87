----------------------------- MODULE MCBackground -----------------------------
(***************************************************************************)
(* What runs behind the API and must come to an end by itself: the event    *)
(* queue, scheduled reports, index builds and attempt counters, each on a    *)
(* small instance.  They share no table and no process state, so a           *)
(* behaviour of all four is four behaviours side by side: focus names the    *)
(* one a behaviour is about, and the variables of the others stay None.      *)
(***************************************************************************)
EXTENDS Integers, FiniteSets

CONSTANTS e1, e2, w1, r1, m1, f1, f2, q1, q2, None

VARIABLES
  focus,
  row, due, expired, pc, todo, loaded, answer, redrive, redrives, crashes, tries, acks,
  reclaimed, redriven,
  clock, schedule, active, job, mailed, repeats, mishaps, forgotten, overlaps,
  pressed,
  declared, index, task, failedBuilds, restarts, stranded, muddled,
  count, expires, attempt, lost

queue == <<row, due, expired, pc, todo, loaded, answer, redrive, redrives, crashes, tries, acks,
           reclaimed, redriven>>
reports == <<clock, schedule, active, job, mailed, repeats, mishaps, forgotten, overlaps,
             pressed>>
builds == <<declared, index, task, failedBuilds, restarts, stranded, muddled>>
limits == <<count, expires, attempt, lost>>

(* Sets have names because TLC computes a named one once. *)
Events == {e1, e2}
Passes == {w1}
Cadences == {{1, 2}}
Two == {1, 2}
Fields == {f1, f2}
Endpoints == {"login"}
Keys == [login |-> <<"email", "ip">>]
Limit == [email |-> 1, ip |-> 2]
Attempts == {q1, q2}

(* Two events one pass takes in one batch. *)
Queue == INSTANCE Outbox WITH
  Event <- Events, Worker <- Passes, BatchLimit <- 2, DeadAfter <- 2, RaiseCap <- 1,
  MaxRedrives <- 1, MaxCrashes <- 1, request <- redrive

(* One schedule that fires twice, two jobs that may overlap. *)
Reports == INSTANCE Schedules WITH
  Report <- {r1}, Creator <- {m1}, Cadence <- Cadences, Job <- Two, Horizon <- 2,
  Catchup <- 2, MaxMishaps <- 1, MaxPressed <- 0, Nil <- None

(* Two fields, two tasks in the process. *)
Builds == INSTANCE IndexBuilds WITH
  Field <- Fields, Limit <- 2, Task <- Two, MaxFailures <- 1, MaxRestarts <- 1,
  row <- declared, failures <- failedBuilds

(* A log-in counts an address and a client. *)
Limits == INSTANCE RateLimits WITH
  Endpoint <- Endpoints, Keys <- Keys, Limit <- Limit,
  Request <- Attempts, MaxCrashes <- 1, request <- attempt, crashes <- lost

(* What the proofs about index builds and schedules assume of their constants. *)
ASSUME BuildsConstants == Builds!NoneIsNoValue
ASSUME ReportsConstants == Reports!SchedulesAssumption

(* The variables of a part no behaviour is about. *)
NoQueue == /\ row = None /\ due = None /\ expired = None /\ pc = None
            /\ todo = None /\ loaded = None /\ answer = None /\ redrive = None
            /\ redrives = None /\ crashes = None /\ tries = None /\ acks = None
            /\ reclaimed = None /\ redriven = None
NoReports == /\ clock = None /\ schedule = None /\ active = None /\ job = None
              /\ mailed = None /\ repeats = None /\ mishaps = None
              /\ forgotten = None /\ overlaps = None /\ pressed = None
NoBuilds == /\ declared = None /\ index = None /\ task = None
             /\ failedBuilds = None /\ restarts = None
             /\ stranded = None /\ muddled = None
NoLimits == /\ count = None /\ expires = None /\ attempt = None /\ lost = None

Init ==
  /\ focus \in {"queue", "reports", "builds", "limits"}
  /\ \/ focus = "queue" /\ Queue!Init
     \/ focus # "queue" /\ NoQueue
  /\ \/ focus = "reports" /\ Reports!ScheduleInit
     \/ focus # "reports" /\ NoReports
  /\ \/ focus = "builds" /\ Builds!Init
     \/ focus # "builds" /\ NoBuilds
  /\ \/ focus = "limits" /\ Limits!Init
     \/ focus # "limits" /\ NoLimits

RunQueue == focus = "queue" /\ Queue!Next /\ UNCHANGED <<focus, reports, builds, limits>>
RunReports == focus = "reports" /\ Reports!ScheduleNext /\ UNCHANGED <<focus, queue, builds, limits>>
RunBuilds == focus = "builds" /\ Builds!Next /\ UNCHANGED <<focus, queue, reports, limits>>
RunLimits == focus = "limits" /\ Limits!Next /\ UNCHANGED <<focus, queue, reports, builds>>

Next == RunQueue \/ RunReports \/ RunBuilds \/ RunLimits

vars == <<focus, queue, reports, builds, limits>>

Spec == Init /\ [][Next]_vars

(* The fairness of each module, of the behaviours that are about it. *)
QueueFairness ==
  /\ \A e \in Events :
       /\ WF_queue(focus = "queue" /\ Queue!BackoffEnds(e))
       /\ WF_queue(focus = "queue" /\ Queue!ClaimExpires(e))
       /\ WF_queue(focus = "queue" /\ \E S \in SUBSET Events : e \in S /\ Queue!Claim(w1, S))
  /\ WF_queue(focus = "queue" /\ Queue!Reload(w1))
  /\ WF_queue(focus = "queue" /\ \E e \in Events : Queue!Send(w1, e))
  /\ WF_queue(focus = "queue" /\ \E e \in Events : Queue!Record(w1, e))

ReportsFairness ==
  \A j \in Two :
    /\ WF_reports(focus = "reports" /\ Reports!Tick(j))
    /\ WF_reports(focus = "reports" /\ Reports!Work(j))

BuildsFairness == \A t \in Two : SF_builds(focus = "builds" /\ Builds!Run(t))

LimitsFairness ==
  /\ \A k \in DOMAIN Limit : WF_limits(focus = "limits" /\ Limits!WindowEnds(k))
  /\ \A q \in Attempts :
       /\ WF_limits(focus = "limits" /\ Limits!Incr(q))
       /\ WF_limits(focus = "limits" /\ Limits!Expire(q))
       /\ WF_limits(focus = "limits" /\ \E succeeds \in BOOLEAN : Limits!Answer(q, succeeds))
  /\ SF_limits(focus = "limits" /\ \E q \in Attempts : Limits!Arrive(q, "login"))

FairSpec == Spec /\ QueueFairness /\ ReportsFairness /\ BuildsFairness /\ LimitsFairness

-----------------------------------------------------------------------------
(* Properties, each of the behaviours that are about its part. *)

(* The state of the part in focus is type-correct. *)
TypeOK ==
  /\ focus = "queue" => Queue!TypeOK
  /\ focus = "reports" => Reports!ScheduleTypeOK
  /\ focus = "builds" => Builds!TypeOK
  /\ focus = "limits" => Limits!TypeOK

(* Every queued event nobody redrives is DELIVERED or DEAD in the end, also  *)
(* one whose pass died in the middle of a batch.                            *)
EventuallySettled ==
  \A e \in Events :
    focus = "queue" /\ row[e].status = "PENDING"
      ~> focus = "queue" /\ (Queue!Settled(e) \/ e \in redriven)

(* No occurrence of a schedule is lost inside the catch-up window. *)
DueIsMailed ==
  \A t \in Two :
    focus = "reports" /\ Reports!Pending(r1, t)
      ~> focus = "reports" /\ Reports!Answered(r1, t)

(* Once its tasks are over, the row of a field says what the catalogue       *)
(* holds, unless it was declared again or left behind in between.           *)
RowsDescribeIndexes == focus = "builds" => Builds!RowsDescribeIndexes

(* A declared index does not stay PENDING, unless its task died with the     *)
(* process or at the statement that was to settle the row.                   *)
PendingSettles ==
  \A f \in Fields :
    focus = "builds" /\ declared[f] = "PENDING"
      ~> focus = "builds" /\ (declared[f] # "PENDING" \/ f \in stranded)

(* A key over its budget does not stay there for ever. *)
LockoutEnds ==
  \A k \in DOMAIN Limit :
    focus = "limits" /\ Limits!Over(k) ~> focus = "limits" /\ ~Limits!Over(k)
=============================================================================
