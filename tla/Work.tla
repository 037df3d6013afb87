--------------------------------- MODULE Work ---------------------------------
(***************************************************************************)
(* Tasks and labels (services/work.py, routers/work.py, models/work.py).    *)
(*                                                                         *)
(* Completing or editing a task, and naming or attaching a label, decide by  *)
(* rows that are read and not locked, so each is begun and committed in two  *)
(* steps.  What a caller sees is a question of the reporting line, which is   *)
(* a set here.                                                              *)
(***************************************************************************)
EXTENDS Integers, Sequences, FiniteSets

CONSTANTS
  Task, Lead, Label, Member,
  Name,      \* spellings of a label's name
  Folded,    \* spelling -> the spelling without case
  Sees,      \* member -> members whose work it may see; itself is one
  Request,
  MaxNow,    \* bound on the clock
  MaxEdits,  \* bound on edits
  Nil        \* SQL NULL, and what a request has not read

(* NULL is no member and no operation; the clock and the edits are numbers. *)
WorkAssumption ==
  /\ Nil \notin Member \cup {"complete", "update", "name", "attach"}
  /\ MaxNow \in Nat /\ MaxEdits \in Nat
  /\ Name \subseteq DOMAIN Folded

VARIABLES
  tasks,     \* the rows of the tasks there are
  timeline,  \* entries about tasks: the lead's actions
  deleted,   \* leads that are soft-deleted
  labels,    \* the rows of the labels there are
  worn,      \* lead_labels
  request,   \* what each request read
  reopened,  \* how often each task was reopened after it was completed
  late,      \* tasks and labels decided by a row that changed meanwhile
  now,
  edits

workVars == <<tasks, timeline, deleted, labels, worn, request, reopened, late, now, edits>>

NoRequest == [op |-> Nil, who |-> Nil, item |-> Nil, lead |-> Nil, name |-> Nil, seen |-> Nil]

WorkInit ==
  /\ tasks = <<>> /\ labels = <<>>
  /\ timeline = <<>> /\ reopened = [t \in Task |-> 0]
  /\ deleted = {} /\ worn = {} /\ late = {}
  /\ request = [q \in Request |-> NoRequest]
  /\ now = 0 /\ edits = 0

Edit == edits < MaxEdits /\ edits' = edits + 1

-----------------------------------------------------------------------------
(* Tasks.  Nobody's task is everybody's. *)
Visible(who, t) == t \in DOMAIN tasks /\ tasks[t].assignee \in Sees[who] \cup {Nil}

Bucket(t) == IF tasks[t].by # Nil THEN "done" ELSE IF tasks[t].due < now THEN "late" ELSE "upcoming"
Listed(who, bucket) == {t \in Task : Visible(who, t) /\ Bucket(t) = bucket}

(* ActionWriter.record_task: on the timeline of a task's lead, if it has one. *)
Record(t, lead, what) ==
  timeline' = IF lead = Nil THEN timeline ELSE Append(timeline, <<t, what>>)

CreateTask(t, lead, assignee, due) ==
  /\ t \notin DOMAIN tasks /\ lead \notin deleted
  /\ tasks' = [k \in DOMAIN tasks \cup {t} |->
       IF k = t THEN [lead |-> lead, assignee |-> assignee, due |-> due, by |-> Nil] ELSE tasks[k]]
  /\ Record(t, lead, "TASK_CREATED")
  /\ Edit
  /\ UNCHANGED <<deleted, labels, worn, request, reopened, late, now>>

AnyTask(t) == TRUE  \* mutant: a completed task is completed once more
Unfinished(t) == tasks[t].by = Nil

BeginTask(q, op, who, t) ==
  /\ request[q] = NoRequest
  /\ Visible(who, t) /\ Unfinished(t)
  /\ request' = [request EXCEPT ![q] =
       [op |-> op, who |-> who, item |-> t, lead |-> Nil, name |-> Nil, seen |-> tasks[t].by]]
  /\ Edit
  /\ UNCHANGED <<tasks, timeline, deleted, labels, worn, reopened, late, now>>

(* complete_task asks for the lead last, and finds no deleted one. *)
CommitComplete(q) ==
  LET r == request[q]
      task == tasks[r.item]
  IN /\ r.op = "complete" /\ task.lead \notin deleted
     /\ tasks' = [tasks EXCEPT ![r.item].by = r.who]
     /\ Record(r.item, task.lead, "TASK_COMPLETED")
     /\ late' = IF task.by # r.seen THEN late \cup {r.item} ELSE late
     /\ request' = [request EXCEPT ![q] = NoRequest]
     /\ UNCHANGED <<deleted, labels, worn, reopened, now, edits>>

CommitUpdate(q, assignee, due) ==
  /\ request[q].op = "update"
  /\ tasks' = [tasks EXCEPT ![request[q].item].assignee = assignee, ![request[q].item].due = due]
  /\ request' = [request EXCEPT ![q] = NoRequest]
  /\ UNCHANGED <<timeline, deleted, labels, worn, reopened, late, now, edits>>

(* reopen_task leaves no trace on the timeline. *)
ReopenTask(who, t) ==
  /\ Visible(who, t)
  /\ tasks' = [tasks EXCEPT ![t].by = Nil]
  /\ reopened' = [reopened EXCEPT ![t] = IF tasks[t].by # Nil THEN @ + 1 ELSE @]
  /\ Edit
  /\ UNCHANGED <<timeline, deleted, labels, worn, request, late, now>>

-----------------------------------------------------------------------------
(* Labels.  A name is compared without case, the unique constraint with. *)
SameSpelling(a, b) == a = b  \* mutant: the constraint is all there is
SameName(a, b) == Folded[a] = Folded[b]
OtherNames(l) == {labels[k].name : k \in DOMAIN labels \ {l}}

BeginName(q, l, name) ==
  /\ request[q] = NoRequest
  /\ \A other \in OtherNames(l) : ~SameName(other, name)
  /\ request' = [request EXCEPT ![q] =
       [op |-> "name", who |-> Nil, item |-> l, lead |-> Nil, name |-> name, seen |-> OtherNames(l)]]
  /\ Edit
  /\ UNCHANGED <<tasks, timeline, deleted, labels, worn, reopened, late, now>>

CommitName(q) ==
  LET r == request[q]
      others == OtherNames(r.item)
  IN /\ r.op = "name" /\ r.name \notin others
     /\ labels' = [k \in DOMAIN labels \cup {r.item} |->
          IF k # r.item THEN labels[k]
          ELSE [name |-> r.name, archived |-> k \in DOMAIN labels /\ labels[k].archived]]
     /\ late' = IF \E n \in others \ r.seen : Folded[n] = Folded[r.name] THEN late \cup {r.item} ELSE late
     /\ request' = [request EXCEPT ![q] = NoRequest]
     /\ UNCHANGED <<tasks, timeline, deleted, worn, reopened, now, edits>>

ArchiveLabel(l) ==
  /\ l \in DOMAIN labels
  /\ labels' = [labels EXCEPT ![l].archived = TRUE]
  /\ Edit
  /\ UNCHANGED <<tasks, timeline, deleted, worn, request, reopened, late, now>>

BeginAttach(q, lead, l) ==
  /\ request[q] = NoRequest
  /\ lead \notin deleted /\ l \in DOMAIN labels /\ ~labels[l].archived /\ <<lead, l>> \notin worn
  /\ request' = [request EXCEPT ![q] =
       [op |-> "attach", who |-> Nil, item |-> l, lead |-> lead, name |-> Nil, seen |-> Nil]]
  /\ Edit
  /\ UNCHANGED <<tasks, timeline, deleted, labels, worn, reopened, late, now>>

(* The pair is the primary key: the second of two fails. *)
CommitAttach(q) ==
  LET pair == <<request[q].lead, request[q].item>>
  IN /\ request[q].op = "attach" /\ pair \notin worn
     /\ worn' = worn \cup {pair}
     /\ request' = [request EXCEPT ![q] = NoRequest]
     /\ UNCHANGED <<tasks, timeline, deleted, labels, reopened, late, now, edits>>

Detach(lead, l) ==
  /\ <<lead, l>> \in worn
  /\ worn' = worn \ {<<lead, l>>}
  /\ Edit
  /\ UNCHANGED <<tasks, timeline, deleted, labels, request, reopened, late, now>>

-----------------------------------------------------------------------------
Abort(q) ==
  /\ request[q] # NoRequest
  /\ request' = [request EXCEPT ![q] = NoRequest]
  /\ UNCHANGED <<tasks, timeline, deleted, labels, worn, reopened, late, now, edits>>

(* Elsewhere: leads are deleted and restored; and time passes. *)
DeleteOrRestore(lead) ==
  /\ deleted' = IF lead \in deleted THEN deleted \ {lead} ELSE deleted \cup {lead}
  /\ Edit
  /\ UNCHANGED <<tasks, timeline, labels, worn, request, reopened, late, now>>

Tick ==
  /\ now < MaxNow
  /\ now' = now + 1
  /\ UNCHANGED <<tasks, timeline, deleted, labels, worn, request, reopened, late, edits>>

WorkNext ==
  \/ \E t \in Task, lead \in Lead \cup {Nil}, m \in Member \cup {Nil} : CreateTask(t, lead, m, now)
  \/ \E t \in Task, who \in Member : ReopenTask(who, t)
  \/ \E q \in Request :
       \/ CommitComplete(q) \/ CommitName(q) \/ CommitAttach(q) \/ Abort(q)
       \/ \E t \in Task, who \in Member, op \in {"complete", "update"} : BeginTask(q, op, who, t)
       \/ \E m \in Member \cup {Nil}, due \in 0..MaxNow : CommitUpdate(q, m, due)
       \/ \E l \in Label, name \in Name : BeginName(q, l, name)
       \/ \E l \in Label, lead \in Lead : BeginAttach(q, lead, l)
  \/ \E l \in Label : ArchiveLabel(l) \/ \E lead \in Lead : Detach(lead, l)
  \/ \E lead \in Lead : DeleteOrRestore(lead)
  \/ Tick

WorkSpec == WorkInit /\ [][WorkNext]_workVars

-----------------------------------------------------------------------------
(* Properties. *)

WorkTypeOK ==
  /\ \A t \in DOMAIN tasks : t \in Task /\ tasks[t].by \in Member \cup {Nil}
  /\ \A pair \in worn : pair[1] \in Lead /\ pair[2] \in DOMAIN labels
  /\ now \in 0..MaxNow

(* A task on a lead was completed on its timeline once more than it was      *)
(* reopened while it is done, and as often while it is not, whoever          *)
(* completes, edits, reopens and restores meanwhile; every task somebody     *)
(* sees is in one of the three lists; two labels do not differ in case       *)
(* alone.  Only a request that decided by a row another one changed since    *)
(* can make it otherwise.                                                   *)
Completions(t) == {n \in DOMAIN timeline : timeline[n] = <<t, "TASK_COMPLETED">>}
Told(t) ==
  Cardinality(Completions(t)) = reopened[t] + (IF tasks[t].by # Nil THEN 1 ELSE 0)

TimelineTellsTasks ==
  /\ \A t \in DOMAIN tasks \ late : tasks[t].lead # Nil => Told(t)
  /\ \A who \in Member :
       UNION {Listed(who, b) : b \in {"done", "late", "upcoming"}} = {t \in Task : Visible(who, t)}
  /\ \A k, l \in DOMAIN labels : k # l /\ {k, l} \cap late = {} =>
       Folded[labels[k].name] # Folded[labels[l].name]

-----------------------------------------------------------------------------
(* Why they hold: the parts of an inductive invariant. *)

TaskRow == [lead : Lead \cup {Nil}, assignee : Member \cup {Nil}, due : 0..MaxNow,
            by : Member \cup {Nil}]

TasksInv ==
  /\ DOMAIN tasks \subseteq Task /\ tasks \in [DOMAIN tasks -> TaskRow]
  /\ timeline \in Seq(Task \X {"TASK_CREATED", "TASK_COMPLETED"})
  /\ reopened \in [Task -> Nat] /\ now \in 0..MaxNow
  /\ \A t \in Task \ DOMAIN tasks : Completions(t) = {} /\ reopened[t] = 0
  /\ \A t \in DOMAIN tasks \ late : tasks[t].lead # Nil => Told(t)

LabelsInv ==
  /\ labels \in [DOMAIN labels -> [name : Name, archived : BOOLEAN]]
  /\ worn \subseteq Lead \X DOMAIN labels
  /\ \A k, l \in DOMAIN labels : k # l /\ {k, l} \cap late = {} =>
       Folded[labels[k].name] # Folded[labels[l].name]

(* What a request read, and what it decided by it. *)
Decided(r) ==
  /\ r.op \in {Nil, "complete", "update", "name", "attach"}
  /\ r.op \in {"complete", "update"} =>
       r.item \in DOMAIN tasks /\ r.who \in Member /\ r.seen = Nil
  /\ r.op = "name" => /\ r.item \in Label /\ r.name \in Name
                      /\ \A n \in r.seen : Folded[n] # Folded[r.name]
  /\ r.op = "attach" => r.item \in DOMAIN labels /\ r.lead \in Lead

RequestsInv == request = [q \in Request |-> request[q]] /\ \A q \in Request : Decided(request[q])

TimelineInv == TasksInv /\ LabelsInv /\ RequestsInv
=============================================================================
