----------------------------- MODULE IndexBuilds ------------------------------
(***************************************************************************)
(* Declared indexes: workers/indexing.py, FieldService.declare_indexed and *)
(* undeclare_indexed, and the two endpoints of routers/fields.py that      *)
(* schedule the work.                                                      *)
(*                                                                         *)
(* An endpoint commits its change to indexed_fields and leaves a           *)
(* background task of its own process: a build, which creates the index    *)
(* concurrently and then settles the row, or a drop.  The tasks meet only  *)
(* in the database: in the row, found by field whoever declared it, in the *)
(* index, found by a name derived from the field, and in the lock that     *)
(* CREATE and DROP INDEX CONCURRENTLY take on the table of leads.          *)
(***************************************************************************)
EXTENDS Integers, FiniteSets

CONSTANTS
  Field,        \* fields that may be declared
  Limit,        \* MAX_INDEXED_FIELDS
  Task,         \* background tasks at the same time, numbered
  MaxFailures,  \* bound on statements that fail
  MaxRestarts,  \* bound on restarts of the process
  None

VARIABLES
  row,      \* indexed_fields.status of each field; None without a row
  index,    \* the index in the catalogue: "none", "invalid" or "valid"
  task,     \* the background tasks
  failures, \* statements that failed so far
  restarts, \* restarts so far
  stranded, \* history: fields whose task a restart or a settling that failed
            \* ended before its time,
  muddled   \* and those with the fields declared again while a task for them
            \* was under way, or left behind by a drop that failed

vars == <<row, index, task, failures, restarts, stranded, muddled>>

Idle == [step |-> "idle", field |-> None, status |-> None]

Init ==
  /\ row = [f \in Field |-> None]
  /\ index = [f \in Field |-> "none"]
  /\ task = [t \in Task |-> Idle]
  /\ failures = 0 /\ restarts = 0
  /\ stranded = {} /\ muddled = {}

Declared == {f \in Field : row[f] # None}
About(f) == {t \in Task : task[t].field = f}
Free(t) == task[t] = Idle /\ \A u \in Task : u < t => task[u] # Idle

(* ShareUpdateExclusiveLock on leads: one statement at a time. *)
BuildingHeld ==  \* mutant: a failed build holds its lock while it clears up
  {t \in Task : task[t].step \in {"creating", "leftover"}}
Building == {t \in Task : task[t].step = "creating"}
TableFree == Building = {}

Goto(t, step, status) == task' = [task EXCEPT ![t].step = step, ![t].status = status]
End(t) == task' = [task EXCEPT ![t] = Idle]

-----------------------------------------------------------------------------
(* The endpoints. *)
Declare(t, f) ==
  /\ row[f] = None /\ Cardinality(Declared) < Limit
  /\ Free(t)
  /\ row' = [row EXCEPT ![f] = "PENDING"]
  /\ task' = [task EXCEPT ![t] = [step |-> "build", field |-> f, status |-> None]]
  /\ muddled' = IF About(f) = {} THEN muddled ELSE muddled \cup {f}
  /\ UNCHANGED <<index, failures, restarts, stranded>>

Undeclare(t, f) ==
  /\ row[f] # None
  /\ Free(t)
  /\ row' = [row EXCEPT ![f] = None]
  /\ task' = [task EXCEPT ![t] = [step |-> "drop", field |-> f, status |-> None]]
  /\ UNCHANGED <<index, failures, restarts, stranded, muddled>>

-----------------------------------------------------------------------------
(* build_index.  IF NOT EXISTS is satisfied by an index that is invalid. *)
CreateStarts(t) ==
  LET f == task[t].field
  IN /\ task[t].step = "build" /\ TableFree
     /\ IF index[f] = "none"
        THEN index' = [index EXCEPT ![f] = "invalid"] /\ Goto(t, "creating", None)
        ELSE index' = index /\ Goto(t, "settle", "READY")
     /\ UNCHANGED <<row, failures, restarts, stranded, muddled>>

CreateEnds(t) ==
  /\ task[t].step = "creating"
  /\ index' = [index EXCEPT ![task[t].field] = "valid"]
  /\ Goto(t, "settle", "READY")
  /\ UNCHANGED <<row, failures, restarts, stranded, muddled>>

(* A lock timeout before it starts, or any failure while it builds. *)
CreateFails(t) ==
  /\ task[t].step \in {"build", "creating"}
  /\ failures < MaxFailures
  /\ failures' = failures + 1
  /\ Goto(t, "leftover", "FAILED")
  /\ UNCHANGED <<row, index, restarts, stranded, muddled>>

(* DROP INDEX CONCURRENTLY IF EXISTS: nothing to wait for when there is     *)
(* nothing to drop.                                                         *)
Droppable(f) == index[f] = "none" \/ TableFree

DropLeftover(t) ==
  /\ task[t].step = "leftover" /\ Droppable(task[t].field)
  /\ index' = [index EXCEPT ![task[t].field] = "none"]
  /\ Goto(t, "settle", "FAILED")
  /\ UNCHANGED <<row, failures, restarts, stranded, muddled>>

(* run_declared_index_build records the status in the row of the field, and *)
(* clears away an index whose declaration is gone.                          *)
AfterSettledAlways(t) == End(t)  \* mutant: nobody looks whether the row is there
AfterSettled(t) ==
  IF row[task[t].field] = None /\ task[t].status = "READY" THEN Goto(t, "drop", None) ELSE End(t)

Settled(f, status) == [row EXCEPT ![f] = IF @ = None THEN None ELSE status]

Settle(t) ==
  LET f == task[t].field
  IN /\ task[t].step = "settle"
     /\ row' = Settled(f, task[t].status)
     /\ AfterSettled(t)
     /\ UNCHANGED <<index, failures, restarts, stranded, muddled>>

(* The session, the UPDATE or its commit raises, perhaps after the commit    *)
(* went through: the task is over, whatever became of the index, and        *)
(* nothing schedules another.                                               *)
SettleFails(t) ==
  LET f == task[t].field
  IN /\ task[t].step = "settle"
     /\ failures < MaxFailures
     /\ failures' = failures + 1
     /\ row' \in {row, Settled(f, task[t].status)}
     /\ End(t)
     /\ stranded' = stranded \cup {f}
     /\ muddled' = muddled \cup {f}
     /\ UNCHANGED <<index, restarts>>

(* drop_index, and remove_declared_index around it. *)
Drop(t) ==
  /\ task[t].step = "drop" /\ Droppable(task[t].field)
  /\ index' = [index EXCEPT ![task[t].field] = "none"]
  /\ End(t)
  /\ UNCHANGED <<row, failures, restarts, stranded, muddled>>

(* A drop that fails is logged; half way it leaves the index invalid. *)
DropFails(t) ==
  LET f == task[t].field
  IN /\ task[t].step \in {"drop", "leftover"} /\ index[f] # "none"
     /\ failures < MaxFailures
     /\ failures' = failures + 1
     /\ index' \in {index, [index EXCEPT ![f] = "invalid"]}
     /\ IF task[t].step = "drop" THEN End(t) ELSE Goto(t, "settle", "FAILED")
     /\ muddled' = muddled \cup {f}
     /\ UNCHANGED <<row, restarts, stranded>>

(* The tasks live in the process that took the request. *)
Restart ==
  /\ restarts < MaxRestarts
  /\ restarts' = restarts + 1
  /\ stranded' = stranded \cup {f \in Field : About(f) # {}}
  /\ muddled' = muddled \cup {f \in Field : About(f) # {}}
  /\ task' = [t \in Task |-> Idle]
  /\ UNCHANGED <<row, index, failures>>

Run(t) ==
  CreateStarts(t) \/ CreateEnds(t) \/ DropLeftover(t) \/ Settle(t) \/ Drop(t)

Next ==
  \/ \E t \in Task :
       \/ \E f \in Field : Declare(t, f) \/ Undeclare(t, f)
       \/ Run(t) \/ CreateFails(t) \/ SettleFails(t) \/ DropFails(t)
  \/ Restart

Spec == Init /\ [][Next]_vars

(* The event loop runs every background task to its end, and the database   *)
(* hands its lock to whoever waits.                                         *)
Fairness == \A t \in Task : SF_vars(Run(t))

-----------------------------------------------------------------------------
(* Properties. *)

TypeOK ==
  /\ row \in [Field -> {None, "PENDING", "READY", "FAILED"}]
  /\ index \in [Field -> {"none", "invalid", "valid"}]
  /\ Cardinality(Building) <= 1
  /\ \A t \in Building : index[task[t].field] = "invalid"
  /\ \A t \in Task : task[t].step = "settle" => task[t].status \in {"READY", "FAILED"}

(* "left with an index no row describes, which nothing would ever clean up": *)
(* once the tasks of a field are over, its row is READY exactly when the     *)
(* index is there and usable, and without a row or after a failure there is  *)
(* none, whatever declarations, withdrawals, failures and builds of other    *)
(* fields came between.  Excepted is a field declared again while an earlier *)
(* task for it still ran, for the earlier task then settles or drops what is *)
(* not its own; and one left behind by a restart, by a failed drop or by a   *)
(* settling that failed, which nothing tries again.                          *)
RowsDescribeIndexes ==
  \A f \in Field \ muddled :
    About(f) = {} => /\ (row[f] = "READY") <=> (index[f] = "valid")
                     /\ row[f] \in {None, "FAILED"} => index[f] = "none"
                     /\ row[f] # "PENDING"

(* "so status reaches READY or FAILED rather than sitting at PENDING         *)
(* forever": whatever failed in the build or in clearing up after it, and    *)
(* whoever else declared the field.  Excepted is only a field whose task     *)
(* died with its process, or at the very UPDATE that was to settle the row.  *)
PendingSettles ==
  \A f \in Field : row[f] = "PENDING" ~> row[f] # "PENDING" \/ f \in stranded

-----------------------------------------------------------------------------
(* For the proofs: what keeps RowsDescribeIndexes.                          *)

(* None marks the absence of a row and of a field. *)
NoneIsNoValue == None \notin Field \cup {"PENDING", "READY", "FAILED"}

TaskInv ==
  /\ muddled \subseteq Field
  /\ row \in [Field -> {None, "PENDING", "READY", "FAILED"}]
  /\ index \in [Field -> {"none", "invalid", "valid"}]
  /\ task \in [Task -> {Idle} \cup
                 [step : {"build", "creating", "leftover", "settle", "drop"},
                  field : Field, status : {None, "READY", "FAILED"}]]
  /\ \A t \in Task : task[t].step = "settle" => task[t].status # None
  /\ \A t, u \in Building : t = u
  /\ \A t \in Building : index[task[t].field] = "invalid"

(* What the steps of a build know of the index: one that was declared while *)
(* no task was under way starts without one, and owns it until it settles.  *)
StepKnows(t, f) ==
  /\ task[t].step = "build" => index[f] = "none"
  /\ task[t].step = "creating" => index[f] = "invalid"
  /\ task[t].step = "leftover" => index[f] # "valid"
  /\ task[t].step = "settle" /\ task[t].status = "FAILED" => index[f] = "none"
  /\ task[t].step = "settle" /\ task[t].status = "READY" /\ row[f] # None
       => index[f] = "valid"

Described(f) ==
  /\ \A t, u \in About(f) : task[t].step # "drop" /\ task[u].step # "drop" => t = u
  /\ row[f] # None => \A t \in About(f) : task[t].step # "drop"
  /\ row[f] = "PENDING" => About(f) # {}
  /\ row[f] \in {"READY", "FAILED"} => About(f) = {}
  /\ About(f) = {} => index[f] = IF row[f] = "READY" THEN "valid" ELSE "none"
  /\ \A t \in About(f) : StepKnows(t, f)

DescribedInv == TaskInv /\ \A f \in Field \ muddled : Described(f)
=============================================================================
