-------------------------- MODULE Background_proofs --------------------------
(***************************************************************************)
(* Proofs about what runs behind the API: index builds, for any set of     *)
(* fields and any number of tasks, and scheduled reports, for any number   *)
(* of schedules, cadences and overlapping jobs.                            *)
(***************************************************************************)
EXTENDS IndexBuilds, Schedules, FiniteSetTheorems, WellFoundedInduction, TLAPS

(* A field whose row, index and tasks a step leaves alone stays described. *)
LEMMA DescribedKept ==
  ASSUME NEW f \in Field, Described(f), row'[f] = row[f], index'[f] = index[f],
         \A t \in Task : task[t].field = f \/ task'[t].field = f => task'[t] = task[t]
  PROVE  Described(f)'
<1>1. About(f)' = About(f) /\ \A t \in About(f) : task'[t] = task[t]
  BY DEF About
<1>2. QED
  BY <1>1 DEF Described, StepKnows

(* A task is idle or about a field. *)
LEMMA TaskShape ==
  ASSUME NoneIsNoValue, TaskInv, NEW t \in Task
  PROVE  /\ task[t] = Idle \/ task[t].field \in Field
         /\ task[t].step # "idle" => task[t] # Idle
         /\ task[t].step \in {"idle", "build", "creating", "leftover", "settle", "drop"}
         /\ task[t].status \in {None, "READY", "FAILED"}
         /\ task[t] = Idle => task[t].step = "idle" /\ task[t].field \notin Field
BY DEF TaskInv, Idle, NoneIsNoValue

(* What a step of one task, about one field, changes. *)
LEMMA GotoShape ==
  ASSUME NoneIsNoValue, TaskInv, NEW t \in Task, NEW step, NEW status,
         task[t] # Idle, Goto(t, step, status)
  PROVE  /\ task'[t].step = step /\ task'[t].status = status
         /\ task'[t].field = task[t].field
         /\ task'[t] = [step |-> step, field |-> task[t].field, status |-> status]
         /\ \A u \in Task : u # t => task'[u] = task[u]
         /\ \A f \in Field : About(f)' = About(f)
         /\ task' = [task EXCEPT ![t] = task'[t]]
<1>1. task[t] \in [step : {"build", "creating", "leftover", "settle", "drop"},
                   field : Field, status : {None, "READY", "FAILED"}]
  BY DEF TaskInv
<1>2. task'[t] = [step |-> step, field |-> task[t].field, status |-> status]
      /\ \A u \in Task : u # t => task'[u] = task[u]
  BY <1>1 DEF TaskInv, Goto
<1>3. task' = [task EXCEPT ![t] = task'[t]]
  BY <1>1, <1>2 DEF TaskInv, Goto
<1>4. QED
  BY <1>2, <1>3 DEF About

LEMMA EndShape ==
  ASSUME NoneIsNoValue, TaskInv, NEW t \in Task, End(t)
  PROVE  /\ task'[t] = Idle
         /\ \A u \in Task : u # t => task'[u] = task[u]
         /\ \A f \in Field : About(f)' = About(f) \ {t}
         /\ task' = [task EXCEPT ![t] = task'[t]]
<1>1. task'[t] = Idle /\ \A u \in Task : u # t => task'[u] = task[u]
  BY DEF TaskInv, End
<1>2. Idle.field \notin Field
  BY DEF Idle, NoneIsNoValue
<1>3. QED
  BY <1>1, <1>2 DEF About, End, TaskInv

LEMMA TaskInductive ==
  ASSUME NoneIsNoValue, TaskInv, [Next]_vars PROVE TaskInv'
<1> DEFINE Record == [step : {"build", "creating", "leftover", "settle", "drop"},
                      field : Field, status : {None, "READY", "FAILED"}]
<1>a. /\ muddled \subseteq Field
      /\ row \in [Field -> {None, "PENDING", "READY", "FAILED"}]
      /\ index \in [Field -> {"none", "invalid", "valid"}]
      /\ task \in [Task -> {Idle} \cup Record]
      /\ \A t \in Task : task[t].step = "settle" => task[t].status # None
      /\ \A t, u \in Building : t = u
      /\ \A t \in Building : index[task[t].field] = "invalid"
  BY DEF TaskInv
<1>b. Idle.step = "idle" /\ Idle.field = None /\ Idle.status = None
  BY DEF Idle
<1> HIDE DEF Record
<1>1. ASSUME NEW t \in Task, NEW x \in {Idle} \cup Record, task' = [task EXCEPT ![t] = x],
             muddled' \subseteq Field,
             row' \in [Field -> {None, "PENDING", "READY", "FAILED"}],
             index' \in [Field -> {"none", "invalid", "valid"}],
             x.step = "settle" => x.status # None,
             x.step = "creating" => Building = {} /\ index'[x.field] = "invalid",
             \A u \in Building : u # t => index'[task[u].field] = "invalid"
      PROVE  TaskInv'
  <2>1. /\ task' \in [Task -> {Idle} \cup Record] /\ task'[t] = x
        /\ \A u \in Task : u # t => task'[u] = task[u]
    BY <1>a, <1>1
  <2>2. \A u \in Building' : u = t \/ u \in Building
    BY <2>1 DEF Building
  <2>3. t \in Building' => x.step = "creating"
    BY <2>1 DEF Building
  <2>4. \A u, v \in Building' : u = v
    BY <1>1, <1>a, <2>2, <2>3
  <2>5. \A u \in Building' : index'[task'[u].field] = "invalid"
    BY <1>1, <2>1, <2>2, <2>3
  <2>6. \A u \in Task : task'[u].step = "settle" => task'[u].status # None
    BY <1>1, <1>a, <2>1
  <2>7. QED
    BY <1>1, <2>1, <2>4, <2>5, <2>6 DEF TaskInv, Record
<1>c. \A t \in Task : task[t].step # "idle" => task[t] \in Record
  BY <1>a, <1>b
<1>2. ASSUME NEW t \in Task, NEW f \in Field, Declare(t, f) PROVE TaskInv'
  <2> DEFINE x == [step |-> "build", field |-> f, status |-> None]
  <2>1. x \in Record /\ x.step = "build"
    BY DEF Record
  <2>2. /\ task' = [task EXCEPT ![t] = x] /\ index' = index
        /\ row' = [row EXCEPT ![f] = "PENDING"]
        /\ muddled' \subseteq muddled \cup {f}
    BY <1>2 DEF Declare
  <2> HIDE DEF x
  <2>3. row' \in [Field -> {None, "PENDING", "READY", "FAILED"}] /\ muddled' \subseteq Field
    BY <1>a, <2>2
  <2>4. QED
    BY <1>1, <1>a, <2>1, <2>2, <2>3
<1>3. ASSUME NEW t \in Task, NEW f \in Field, Undeclare(t, f) PROVE TaskInv'
  <2> DEFINE x == [step |-> "drop", field |-> f, status |-> None]
  <2>1. x \in Record /\ x.step = "drop"
    BY DEF Record
  <2>2. /\ task' = [task EXCEPT ![t] = x] /\ index' = index
        /\ row' = [row EXCEPT ![f] = None] /\ muddled' = muddled
    BY <1>3 DEF Undeclare
  <2> HIDE DEF x
  <2>3. row' \in [Field -> {None, "PENDING", "READY", "FAILED"}]
    BY <1>a, <2>2
  <2>4. QED
    BY <1>1, <1>a, <2>1, <2>2, <2>3
<1>4. ASSUME NEW t \in Task, NEW step \in {"creating", "leftover", "settle", "drop"},
             NEW status \in {None, "READY", "FAILED"}, task[t] \in Record,
             Goto(t, step, status)
      PROVE  /\ task'[t] \in Record /\ task'[t].step = step /\ task'[t].status = status
             /\ task'[t].field = task[t].field /\ task' = [task EXCEPT ![t] = task'[t]]
  <2>1. task[t] # Idle
    BY <1>4, <1>b DEF Record
  <2>2. /\ task'[t] = [step |-> step, field |-> task[t].field, status |-> status]
        /\ task'[t].step = step /\ task'[t].status = status
        /\ task'[t].field = task[t].field /\ task' = [task EXCEPT ![t] = task'[t]]
    BY <1>4, <2>1, GotoShape
  <2>3. task[t].field \in Field
    BY <1>4 DEF Record
  <2>4. task'[t] \in Record
    BY <2>2, <2>3 DEF Record
  <2>5. QED
    BY <2>2, <2>4
<1>5. ASSUME NEW t \in Task, CreateStarts(t) PROVE TaskInv'
  <2> DEFINE f == task[t].field
  <2>1. task[t] \in Record /\ f \in Field
    BY <1>5, <1>c DEF CreateStarts, Record
  <2>2. /\ row' = row /\ muddled' = muddled /\ Building = {}
        /\ \/ index' = [index EXCEPT ![f] = "invalid"] /\ Goto(t, "creating", None)
           \/ index' = index /\ Goto(t, "settle", "READY")
    BY <1>5 DEF CreateStarts, TableFree
  <2>3. CASE index' = [index EXCEPT ![f] = "invalid"] /\ Goto(t, "creating", None)
    <3>1. /\ task'[t] \in Record /\ task'[t].step = "creating"
          /\ task'[t].field = f /\ task' = [task EXCEPT ![t] = task'[t]]
      BY <1>4, <2>1, <2>3
    <3>2. QED
      BY <1>1, <1>a, <2>1, <2>2, <2>3, <3>1
  <2>4. CASE index' = index /\ Goto(t, "settle", "READY")
    <3>1. /\ task'[t] \in Record /\ task'[t].step = "settle" /\ task'[t].status = "READY"
          /\ task' = [task EXCEPT ![t] = task'[t]]
      BY <1>4, <2>1, <2>4
    <3>2. "READY" # None
      BY DEF NoneIsNoValue
    <3>3. QED
      BY <1>1, <1>a, <2>2, <2>4, <3>1, <3>2
  <2>5. QED
    BY <2>2, <2>3, <2>4
<1>6. ASSUME NEW t \in Task, CreateEnds(t) PROVE TaskInv'
  <2> DEFINE f == task[t].field
  <2>1. task[t] \in Record /\ f \in Field /\ t \in Building
    BY <1>6, <1>c DEF CreateEnds, Record, Building
  <2>2. /\ row' = row /\ muddled' = muddled /\ Goto(t, "settle", "READY")
        /\ index' = [index EXCEPT ![f] = "valid"]
    BY <1>6 DEF CreateEnds
  <2>3. /\ task'[t] \in Record /\ task'[t].step = "settle" /\ task'[t].status = "READY"
        /\ task' = [task EXCEPT ![t] = task'[t]]
    BY <1>4, <2>1, <2>2
  <2>4. \A u \in Building : u = t
    BY <1>a, <2>1
  <2>5. "READY" # None /\ index' \in [Field -> {"none", "invalid", "valid"}]
    BY <1>a, <2>2 DEF NoneIsNoValue
  <2>6. QED
    BY <1>1, <1>a, <2>2, <2>3, <2>4, <2>5
<1>7. ASSUME NEW t \in Task, CreateFails(t) PROVE TaskInv'
  <2>1. /\ task[t] \in Record /\ Goto(t, "leftover", "FAILED")
        /\ row' = row /\ index' = index /\ muddled' = muddled
    BY <1>7, <1>c DEF CreateFails
  <2>2. /\ task'[t] \in Record /\ task'[t].step = "leftover"
        /\ task' = [task EXCEPT ![t] = task'[t]]
    BY <1>4, <2>1
  <2>3. QED
    BY <1>1, <1>a, <2>1, <2>2
<1>d. ASSUME NEW f \in Field, NEW v \in {"none", "invalid"},
             index' = [index EXCEPT ![f] = v], Droppable(f) \/ v = "invalid"
      PROVE  /\ index' \in [Field -> {"none", "invalid", "valid"}]
             /\ \A u \in Building : index'[task[u].field] = "invalid"
  <2>1. \A u \in Building : task[u] \in Record
    BY <1>c DEF Building
  <2>2. \A u \in Building : task[u].field \in Field
    BY <2>1 DEF Record
  <2>3. CASE v = "invalid"
    BY <1>a, <1>d, <2>2, <2>3
  <2>4. CASE v = "none"
    <3>1. index[f] = "none" \/ Building = {}
      BY <1>d, <2>4 DEF Droppable, TableFree
    <3>2. QED
      BY <1>a, <1>d, <2>2, <2>4, <3>1
  <2>5. QED
    BY <2>3, <2>4
<1>8. ASSUME NEW t \in Task, DropLeftover(t) PROVE TaskInv'
  <2>1. /\ task[t] \in Record /\ Goto(t, "settle", "FAILED")
        /\ row' = row /\ muddled' = muddled /\ Droppable(task[t].field)
        /\ index' = [index EXCEPT ![task[t].field] = "none"]
    BY <1>8, <1>c DEF DropLeftover
  <2>2. /\ task'[t] \in Record /\ task'[t].step = "settle" /\ task'[t].status = "FAILED"
        /\ task' = [task EXCEPT ![t] = task'[t]]
    BY <1>4, <2>1
  <2>3. "FAILED" # None /\ task[t].field \in Field
    BY <2>1 DEF NoneIsNoValue, Record
  <2>4. QED
    BY <1>1, <1>a, <1>d, <2>1, <2>2, <2>3
<1>e. ASSUME NEW t \in Task, task[t] \in Record, End(t)
      PROVE  task' = [task EXCEPT ![t] = Idle]
  BY <1>e DEF End
<1>9. ASSUME NEW t \in Task, Settle(t) PROVE TaskInv'
  <2>1. /\ task[t] \in Record /\ index' = index /\ muddled' = muddled
        /\ row' = [row EXCEPT ![task[t].field] = IF @ = None THEN None ELSE task[t].status]
        /\ Goto(t, "drop", None) \/ End(t)
    BY <1>9, <1>c DEF Settle, Settled, AfterSettled
  <2>2. task[t].status \in {"READY", "FAILED"}
    BY <1>9, <1>a, <2>1 DEF Settle, Record
  <2>3. row' \in [Field -> {None, "PENDING", "READY", "FAILED"}]
    BY <1>a, <2>1, <2>2
  <2>4. CASE Goto(t, "drop", None)
    <3>1. /\ task'[t] \in Record /\ task'[t].step = "drop"
          /\ task' = [task EXCEPT ![t] = task'[t]]
      BY <1>4, <2>1, <2>4
    <3>2. QED
      BY <1>1, <1>a, <2>1, <2>3, <3>1
  <2>5. CASE End(t)
    BY <1>1, <1>a, <1>b, <1>e, <2>1, <2>3, <2>5
  <2>6. QED
    BY <2>1, <2>4, <2>5
<1>10. ASSUME NEW t \in Task, Drop(t) PROVE TaskInv'
  <2>1. /\ task[t] \in Record /\ End(t)
        /\ row' = row /\ muddled' = muddled /\ Droppable(task[t].field)
        /\ index' = [index EXCEPT ![task[t].field] = "none"]
    BY <1>10, <1>c DEF Drop
  <2>2. task[t].field \in Field
    BY <2>1 DEF Record
  <2>3. QED
    BY <1>1, <1>a, <1>b, <1>d, <1>e, <2>1, <2>2
<1>11. ASSUME NEW t \in Task, DropFails(t) PROVE TaskInv'
  <2>1. /\ task[t] \in Record /\ (End(t) \/ Goto(t, "settle", "FAILED"))
        /\ row' = row /\ muddled' = muddled \cup {task[t].field}
        /\ index' = index \/ index' = [index EXCEPT ![task[t].field] = "invalid"]
    BY <1>11, <1>c DEF DropFails
  <2>2. task[t].field \in Field
    BY <2>1 DEF Record
  <2>3. /\ index' \in [Field -> {"none", "invalid", "valid"}]
        /\ \A u \in Building : index'[task[u].field] = "invalid"
    BY <1>a, <1>d, <2>1, <2>2
  <2>4. CASE End(t)
    BY <1>1, <1>a, <1>b, <1>e, <2>1, <2>2, <2>3, <2>4
  <2>5. CASE Goto(t, "settle", "FAILED")
    <3>1. /\ task'[t] \in Record /\ task'[t].step = "settle" /\ task'[t].status = "FAILED"
          /\ task' = [task EXCEPT ![t] = task'[t]]
      BY <1>4, <2>1, <2>5
    <3>2. "FAILED" # None
      BY DEF NoneIsNoValue
    <3>3. QED
      BY <1>1, <1>a, <2>1, <2>2, <2>3, <3>1, <3>2
  <2>6. QED
    BY <2>1, <2>4, <2>5
<1>15. ASSUME NEW t \in Task, SettleFails(t) PROVE TaskInv'
  <2>1. /\ task[t] \in Record /\ End(t) /\ index' = index
        /\ muddled' = muddled \cup {task[t].field}
        /\ \/ row' = row
           \/ row' = [row EXCEPT ![task[t].field] = IF @ = None THEN None ELSE task[t].status]
    BY <1>15, <1>c DEF SettleFails, Settled
  <2>2. task[t].field \in Field /\ task[t].status \in {"READY", "FAILED"}
    BY <1>15, <1>a, <2>1 DEF SettleFails, Record
  <2>3. row' \in [Field -> {None, "PENDING", "READY", "FAILED"}]
    BY <1>a, <2>1, <2>2
  <2>4. QED
    BY <1>1, <1>a, <1>b, <1>e, <2>1, <2>2, <2>3
<1>12. CASE Restart
  <2>1. /\ task' = [t \in Task |-> Idle] /\ row' = row /\ index' = index
        /\ muddled' \subseteq Field
    BY <1>12, <1>a DEF Restart
  <2>2. Building' = {}
    BY <1>b, <2>1 DEF Building
  <2>3. QED
    BY <1>a, <1>b, <2>1, <2>2 DEF TaskInv
<1>13. CASE UNCHANGED vars
  BY <1>13 DEF vars, TaskInv, Building
<1>14. QED
  BY <1>2, <1>3, <1>5, <1>6, <1>7, <1>8, <1>9, <1>10, <1>11, <1>12, <1>13, <1>15
     DEF Next, Run

-----------------------------------------------------------------------------
(* A step of the task t about f, that goes on or ends, leaves the other    *)
(* fields described.                                                       *)
LEMMA OthersDescribed ==
  ASSUME NoneIsNoValue, TaskInv, NEW t \in Task, NEW f \in Field,
         \A u \in Task : u # t => task'[u] = task[u],
         task[t].field \in {f, None}, task'[t].field \in {f, None},
         \A g \in Field : g # f => row'[g] = row[g] /\ index'[g] = index[g],
         NEW g \in Field, g # f, Described(g)
  PROVE  Described(g)'
<1>1. task[t].field # g /\ task'[t].field # g
  BY DEF NoneIsNoValue
<1>2. QED
  BY <1>1, DescribedKept

LEMMA DescribedInductive ==
  ASSUME NoneIsNoValue, DescribedInv, [Next]_vars PROVE DescribedInv'
<1>0. TaskInv /\ TaskInv' /\ \A f \in Field \ muddled : Described(f)
  BY TaskInductive DEF DescribedInv
<1>a. /\ row \in [Field -> {None, "PENDING", "READY", "FAILED"}]
      /\ index \in [Field -> {"none", "invalid", "valid"}]
  BY <1>0 DEF TaskInv
<1>b. None \notin Field \cup {"PENDING", "READY", "FAILED"}
      /\ Idle.field = None /\ Idle.step = "idle"
  BY DEF NoneIsNoValue, Idle
<1>1. ASSUME NEW t \in Task, NEW f \in Field, Declare(t, f) PROVE DescribedInv'
  <2>1. /\ row[f] = None /\ task[t] = Idle /\ index' = index
        /\ row'[f] = "PENDING" /\ \A g \in Field : g # f => row'[g] = row[g]
        /\ task'[t] = [step |-> "build", field |-> f, status |-> None]
        /\ \A u \in Task : u # t => task'[u] = task[u]
        /\ About(f) # {} => muddled' = muddled \cup {f}
        /\ About(f) = {} => muddled' = muddled
    BY <1>0, <1>1, <1>a DEF Declare, Free, TaskInv
  <2>2. ASSUME NEW g \in Field \ muddled', g # f PROVE Described(g)'
    BY <1>0, <1>b, <2>1, <2>2, OthersDescribed
  <2>3. ASSUME f \notin muddled' PROVE Described(f)'
    <3>1. About(f) = {} /\ Described(f)
      BY <1>0, <2>1, <2>3
    <3>2. index[f] = "none"
      BY <1>b, <2>1, <3>1 DEF Described
    <3>3. About(f)' = {t}
      BY <1>b, <2>1, <3>1 DEF About
    <3>4. QED
      BY <1>b, <2>1, <3>2, <3>3 DEF Described, StepKnows
  <2>4. QED
    BY <1>0, <2>2, <2>3 DEF DescribedInv
<1>2. ASSUME NEW t \in Task, NEW f \in Field, Undeclare(t, f) PROVE DescribedInv'
  <2>1. /\ row[f] # None /\ task[t] = Idle /\ index' = index /\ muddled' = muddled
        /\ row'[f] = None /\ \A g \in Field : g # f => row'[g] = row[g]
        /\ task'[t] = [step |-> "drop", field |-> f, status |-> None]
        /\ \A u \in Task : u # t => task'[u] = task[u]
    BY <1>0, <1>2, <1>a DEF Undeclare, Free, TaskInv
  <2>2. ASSUME NEW g \in Field \ muddled', g # f PROVE Described(g)'
    BY <1>0, <1>b, <2>1, <2>2, OthersDescribed
  <2>3. ASSUME f \notin muddled' PROVE Described(f)'
    <3>1. Described(f)
      BY <1>0, <2>1, <2>3
    <3>2. About(f)' = About(f) \cup {t} /\ t \notin About(f)
      BY <1>b, <2>1 DEF About
    <3>3. \A u \in About(f) : task'[u] = task[u]
      BY <2>1, <3>2 DEF About
    <3>4. QED
      BY <1>b, <2>1, <3>1, <3>2, <3>3 DEF Described, StepKnows
  <2>4. QED
    BY <1>0, <2>2, <2>3 DEF DescribedInv
<1>3. ASSUME NEW t \in Task, NEW f \in Field, task[t] # Idle, task[t].field = f,
             NEW step, NEW status, Goto(t, step, status), muddled \subseteq muddled',
             \A g \in Field : g # f => row'[g] = row[g] /\ index'[g] = index[g],
             f \notin muddled' => /\ row'[f] = row[f]
                                  /\ step = "drop" => row[f] = None
                                  /\ task[t].step = "drop" => step = "drop"
                                  /\ StepKnows(t, f)'
                                  /\ \A u \in About(f) : u # t => StepKnows(u, f)'
      PROVE  DescribedInv'
  <2>1. /\ task'[t].step = step /\ task'[t].field = f /\ About(f)' = About(f)
        /\ \A u \in Task : u # t => task'[u] = task[u]
    BY <1>0, <1>3, GotoShape
  <2>2. ASSUME NEW g \in Field \ muddled', g # f PROVE Described(g)'
    BY <1>0, <1>3, <2>1, <2>2, OthersDescribed
  <2>3. ASSUME f \notin muddled' PROVE Described(f)'
    <3>1. Described(f) /\ t \in About(f)
      BY <1>0, <1>3, <2>3 DEF About
    <3>2. QED
      BY <1>3, <2>1, <2>3, <3>1 DEF Described, About
  <2>4. QED
    BY <1>0, <2>2, <2>3 DEF DescribedInv
<1>4. ASSUME NEW t \in Task, NEW f \in Field, task[t] # Idle, task[t].field = f,
             End(t), muddled' = muddled,
             \A g \in Field : g # f => row'[g] = row[g] /\ index'[g] = index[g],
             f \notin muddled' =>
               /\ \A u \in About(f) : u # t => StepKnows(u, f)'
               /\ row'[f] = row[f] \/ (row[f] = "PENDING" /\ row'[f] \in {"READY", "FAILED"})
               /\ row'[f] = "PENDING" => About(f) # {t}
               /\ row'[f] # "PENDING" /\ About(f) = {t} =>
                    index'[f] = IF row'[f] = "READY" THEN "valid" ELSE "none"
               /\ row[f] # None /\ row'[f] \in {"READY", "FAILED"} =>
                    task[t].step # "drop"
      PROVE  DescribedInv'
  <2>1. /\ task'[t] = Idle /\ About(f)' = About(f) \ {t}
        /\ \A u \in Task : u # t => task'[u] = task[u]
    BY <1>0, <1>4, EndShape
  <2>2. ASSUME NEW g \in Field \ muddled', g # f PROVE Described(g)'
    BY <1>0, <1>4, <1>b, <2>1, <2>2, OthersDescribed
  <2>3. ASSUME f \notin muddled' PROVE Described(f)'
    <3>1. Described(f) /\ t \in About(f)
      BY <1>0, <1>4, <2>3 DEF About
    <3>2. \A u \in About(f)' : u \in About(f) /\ u # t /\ task'[u] = task[u]
      BY <2>1 DEF About
    <3>3. row[f] \notin {"READY", "FAILED"}
      BY <3>1 DEF Described
    <3>4. row'[f] \in {"READY", "FAILED"} => About(f)' = {}
      <4>1. SUFFICES ASSUME row'[f] \in {"READY", "FAILED"} PROVE About(f) = {t}
        BY <2>1
      <4>2. row[f] = "PENDING" /\ row[f] # None /\ task[t].step # "drop"
        BY <1>4, <1>b, <2>3, <3>3, <4>1
      <4>3. \A u \in About(f) : task[u].step # "drop"
        BY <3>1, <4>2 DEF Described
      <4>4. QED
        BY <3>1, <4>2, <4>3 DEF Described
    <3>5. row'[f] = "PENDING" => About(f)' # {}
      BY <1>4, <2>1, <2>3, <3>1
    <3>6. About(f)' = {} => index'[f] = IF row'[f] = "READY" THEN "valid" ELSE "none"
      BY <1>4, <2>1, <2>3, <3>1, <3>5
    <3>7. \A u, v \in About(f)' : task'[u].step # "drop" /\ task'[v].step # "drop" => u = v
      BY <3>1, <3>2 DEF Described
    <3>8. row'[f] # None => \A u \in About(f)' : task'[u].step # "drop"
      <4>1. CASE row'[f] = row[f]
        BY <3>1, <3>2, <4>1 DEF Described
      <4>2. CASE row[f] = "PENDING"
        BY <1>b, <3>1, <3>2, <4>2 DEF Described
      <4>3. QED
        BY <1>4, <2>3, <4>1, <4>2
    <3>9. \A u \in About(f)' : StepKnows(u, f)'
      BY <1>4, <2>3, <3>2
    <3>10. QED
      BY <3>4, <3>5, <3>6, <3>7, <3>8, <3>9 DEF Described
  <2>4. QED
    BY <1>0, <2>2, <2>3 DEF DescribedInv
(* A task that is not idle is about a field. *)
<1>c. ASSUME NEW t \in Task, task[t].step # "idle"
      PROVE  /\ task[t] # Idle /\ task[t].field \in Field
             /\ t \in About(task[t].field)
             /\ task[t].field \notin muddled => Described(task[t].field)
             /\ task[t].status \in {None, "READY", "FAILED"}
  BY <1>0, <1>c, TaskShape DEF About
(* A step of a build at work, whose field is not muddled, is the only one. *)
<1>d. ASSUME NEW t \in Task, NEW f \in Field \ muddled, Described(f), t \in About(f),
             task[t].step # "drop", NEW u \in About(f), u # t
      PROVE  task[u].step = "drop" /\ row[f] = None
  BY <1>d DEF Described
<1>5. ASSUME NEW t \in Task, CreateStarts(t) PROVE DescribedInv'
  <2>0. PICK f \in Field : f = task[t].field
    BY <1>c, <1>5 DEF CreateStarts
  <2>1. /\ row' = row /\ muddled' = muddled /\ task[t].step = "build"
        /\ \/ /\ index[f] = "none" /\ index' = [index EXCEPT ![f] = "invalid"]
              /\ Goto(t, "creating", None)
           \/ index[f] # "none" /\ index' = index /\ Goto(t, "settle", "READY")
    BY <1>5, <2>0 DEF CreateStarts
  <2>2. /\ task[t] # Idle /\ task[t].field = f /\ t \in About(f)
        /\ f \notin muddled => Described(f)
    BY <1>c, <2>0, <2>1
  <2>3. f \notin muddled => index[f] = "none"
    BY <2>1, <2>2 DEF Described, StepKnows
  <2>4. f \notin muddled => \A u \in About(f) : u # t => task[u].step = "drop"
    BY <1>d, <2>1, <2>2
  <2>5. CASE index[f] = "none" /\ index' = [index EXCEPT ![f] = "invalid"]
             /\ Goto(t, "creating", None)
    <3>1. /\ task'[t].step = "creating" /\ \A u \in Task : u # t => task'[u] = task[u]
      BY <1>0, <2>2, <2>5, GotoShape
    <3>2. index'[f] = "invalid" /\ \A g \in Field : g # f => index'[g] = index[g]
      BY <1>a, <2>2, <2>5
    <3>3. StepKnows(t, f)'
      BY <3>1, <3>2 DEF StepKnows
    <3>4. f \notin muddled => \A u \in About(f) : u # t => StepKnows(u, f)'
      BY <2>4, <3>1 DEF StepKnows, About
    <3>5. QED
      BY <1>3, <2>1, <2>2, <2>5, <3>2, <3>3, <3>4
  <2>6. CASE index[f] # "none" /\ index' = index /\ Goto(t, "settle", "READY")
    BY <1>3, <2>1, <2>2, <2>3, <2>6
  <2>7. QED
    BY <2>1, <2>5, <2>6
<1>6. ASSUME NEW t \in Task, CreateEnds(t) PROVE DescribedInv'
  <2>0. PICK f \in Field : f = task[t].field
    BY <1>c, <1>6 DEF CreateEnds
  <2>1. /\ row' = row /\ muddled' = muddled /\ task[t].step = "creating"
        /\ index' = [index EXCEPT ![f] = "valid"] /\ Goto(t, "settle", "READY")
    BY <1>6, <2>0 DEF CreateEnds
  <2>2. /\ task[t] # Idle /\ task[t].field = f /\ t \in About(f)
        /\ f \notin muddled => Described(f)
    BY <1>c, <2>0, <2>1
  <2>3. f \notin muddled => \A u \in About(f) : u # t => task[u].step = "drop"
    BY <1>d, <2>1, <2>2
  <2>4. /\ task'[t].step = "settle" /\ task'[t].status = "READY"
        /\ \A u \in Task : u # t => task'[u] = task[u]
    BY <1>0, <2>1, <2>2, GotoShape
  <2>5. index'[f] = "valid" /\ \A g \in Field : g # f => index'[g] = index[g]
    BY <1>a, <2>1, <2>2
  <2>6. StepKnows(t, f)'
    BY <2>4, <2>5 DEF StepKnows
  <2>7. f \notin muddled => \A u \in About(f) : u # t => StepKnows(u, f)'
    BY <2>3, <2>4 DEF StepKnows, About
  <2>8. QED
    BY <1>3, <2>1, <2>2, <2>5, <2>6, <2>7
<1>7. ASSUME NEW t \in Task, CreateFails(t) PROVE DescribedInv'
  <2>0. PICK f \in Field : f = task[t].field
    BY <1>c, <1>7 DEF CreateFails
  <2>1. /\ row' = row /\ muddled' = muddled /\ task[t].step \in {"build", "creating"}
        /\ index' = index /\ Goto(t, "leftover", "FAILED")
    BY <1>7, <2>0 DEF CreateFails
  <2>2. /\ task[t] # Idle /\ task[t].field = f /\ t \in About(f)
        /\ f \notin muddled => Described(f)
    BY <1>c, <2>0, <2>1
  <2>3. f \notin muddled => \A u \in About(f) : u # t => task[u].step = "drop"
    BY <1>d, <2>1, <2>2
  <2>4. task'[t].step = "leftover" /\ \A u \in Task : u # t => task'[u] = task[u]
    BY <1>0, <2>1, <2>2, GotoShape
  <2>5. f \notin muddled => StepKnows(t, f)'
    BY <2>1, <2>2, <2>4 DEF Described, StepKnows
  <2>6. f \notin muddled => \A u \in About(f) : u # t => StepKnows(u, f)'
    BY <2>3, <2>4 DEF StepKnows, About
  <2>7. QED
    BY <1>3, <2>1, <2>2, <2>5, <2>6
<1>8. ASSUME NEW t \in Task, DropLeftover(t) PROVE DescribedInv'
  <2>0. PICK f \in Field : f = task[t].field
    BY <1>c, <1>8 DEF DropLeftover
  <2>1. /\ row' = row /\ muddled' = muddled /\ task[t].step = "leftover"
        /\ index' = [index EXCEPT ![f] = "none"] /\ Goto(t, "settle", "FAILED")
    BY <1>8, <2>0 DEF DropLeftover
  <2>2. /\ task[t] # Idle /\ task[t].field = f /\ t \in About(f)
        /\ f \notin muddled => Described(f)
    BY <1>c, <2>0, <2>1
  <2>3. f \notin muddled => \A u \in About(f) : u # t => task[u].step = "drop"
    BY <1>d, <2>1, <2>2
  <2>4. /\ task'[t].step = "settle" /\ task'[t].status = "FAILED"
        /\ \A u \in Task : u # t => task'[u] = task[u]
    BY <1>0, <2>1, <2>2, GotoShape
  <2>5. index'[f] = "none" /\ \A g \in Field : g # f => index'[g] = index[g]
    BY <1>a, <2>1, <2>2
  <2>6. StepKnows(t, f)'
    BY <2>4, <2>5 DEF StepKnows
  <2>7. f \notin muddled => \A u \in About(f) : u # t => StepKnows(u, f)'
    BY <2>3, <2>4 DEF StepKnows, About
  <2>8. QED
    BY <1>3, <2>1, <2>2, <2>5, <2>6, <2>7
<1>9. ASSUME NEW t \in Task, Settle(t) PROVE DescribedInv'
  <2>0. PICK f \in Field : f = task[t].field
    BY <1>c, <1>9 DEF Settle
  <2>1. /\ index' = index /\ muddled' = muddled /\ task[t].step = "settle"
        /\ row' = [row EXCEPT ![f] = IF @ = None THEN None ELSE task[t].status]
        /\ \/ row[f] = None /\ task[t].status = "READY" /\ Goto(t, "drop", None)
           \/ ~(row[f] = None /\ task[t].status = "READY") /\ End(t)
    BY <1>9, <2>0 DEF Settle, Settled, AfterSettled
  <2>2. /\ task[t] # Idle /\ task[t].field = f /\ t \in About(f)
        /\ f \notin muddled => Described(f)
        /\ task[t].status \in {"READY", "FAILED"}
    BY <1>0, <1>c, <2>0, <2>1 DEF TaskInv
  <2>3. /\ row'[f] = IF row[f] = None THEN None ELSE task[t].status
        /\ \A g \in Field : g # f => row'[g] = row[g] /\ index'[g] = index[g]
    BY <1>a, <2>1, <2>2
  <2>4. f \notin muddled => \A u \in About(f) : u # t => task[u].step = "drop" /\ row[f] = None
    BY <1>d, <2>1, <2>2
  <2>5. \A u \in Task : u # t => task'[u] = task[u]
    BY <1>0, <2>1, <2>2, GotoShape, EndShape
  <2>6. f \notin muddled => \A u \in About(f) : u # t => StepKnows(u, f)'
    BY <2>4, <2>5 DEF StepKnows, About
  <2>7. CASE row[f] = None /\ task[t].status = "READY" /\ Goto(t, "drop", None)
    <3>1. task'[t].step = "drop"
      BY <1>0, <2>2, <2>7, GotoShape
    <3>2. StepKnows(t, f)'
      BY <3>1 DEF StepKnows
    <3>3. QED
      BY <1>3, <2>1, <2>2, <2>3, <2>6, <2>7, <3>2
  <2>8. CASE ~(row[f] = None /\ task[t].status = "READY") /\ End(t)
    <3>1. ASSUME f \notin muddled'
          PROVE  /\ row'[f] = row[f] \/ (row[f] = "PENDING" /\ row'[f] \in {"READY", "FAILED"})
                 /\ row'[f] # "PENDING"
                 /\ About(f) = {t} =>
                      index'[f] = IF row'[f] = "READY" THEN "valid" ELSE "none"
      <4>1. Described(f) /\ row[f] \in {None, "PENDING", "READY", "FAILED"}
        BY <1>a, <2>1, <2>2, <3>1
      <4>2. row[f] \in {None, "PENDING"} /\ StepKnows(t, f)
        BY <2>2, <4>1 DEF Described
      <4>3. CASE row[f] = None
        <5>1. row'[f] = None /\ task[t].status = "FAILED"
          BY <2>2, <2>3, <2>8, <4>3
        <5>2. index[f] = "none" /\ index'[f] = "none"
          BY <2>1, <4>2, <5>1 DEF StepKnows
        <5>3. QED
          BY <1>b, <4>3, <5>1, <5>2
      <4>4. CASE row[f] = "PENDING"
        BY <1>b, <2>1, <2>2, <2>3, <4>2, <4>4 DEF StepKnows
      <4>5. QED
        BY <4>2, <4>3, <4>4
    <3>2. QED
      BY <1>4, <2>1, <2>2, <2>3, <2>6, <2>8, <3>1
  <2>9. QED
    BY <2>1, <2>7, <2>8
<1>10. ASSUME NEW t \in Task, Drop(t) PROVE DescribedInv'
  <2>0. PICK f \in Field : f = task[t].field
    BY <1>c, <1>10 DEF Drop
  <2>1. /\ row' = row /\ muddled' = muddled /\ task[t].step = "drop"
        /\ index' = [index EXCEPT ![f] = "none"] /\ End(t) /\ Droppable(f)
    BY <1>10, <2>0 DEF Drop
  <2>2. /\ task[t] # Idle /\ task[t].field = f /\ t \in About(f)
        /\ f \notin muddled => Described(f)
    BY <1>c, <2>0, <2>1
  <2>3. index'[f] = "none" /\ \A g \in Field : g # f => index'[g] = index[g]
    BY <1>a, <2>1, <2>2
  <2>4. \A u \in Task : u # t => task'[u] = task[u]
    BY <1>0, <2>1, EndShape
  <2>5. ASSUME f \notin muddled PROVE row[f] = None
    BY <1>a, <2>1, <2>2, <2>5 DEF Described
  <2>6. ASSUME f \notin muddled, NEW u \in About(f), u # t PROVE StepKnows(u, f)'
    <3>1. StepKnows(u, f) /\ task'[u] = task[u]
      BY <2>2, <2>4, <2>6 DEF Described, About
    <3>2. task[u].step # "creating"
      BY <1>0, <2>1, <2>6, <3>1 DEF Droppable, TableFree, Building, About, TaskInv, StepKnows
    <3>3. QED
      BY <1>b, <2>1, <2>3, <2>5, <2>6, <3>1, <3>2 DEF StepKnows
  <2>7. f \notin muddled' => /\ row'[f] = row[f] /\ row'[f] = None
                             /\ row'[f] # "PENDING" /\ row'[f] \notin {"READY", "FAILED"}
                             /\ index'[f] = IF row'[f] = "READY" THEN "valid" ELSE "none"
    BY <1>b, <2>1, <2>3, <2>5
  <2>8. QED
    BY <1>4, <2>1, <2>2, <2>3, <2>6, <2>7
<1>11. ASSUME NEW t \in Task, DropFails(t) PROVE DescribedInv'
  <2>0. PICK f \in Field : f = task[t].field
    BY <1>c, <1>11 DEF DropFails
  <2>1. /\ row' = row /\ muddled' = muddled \cup {f} /\ task[t].step \in {"drop", "leftover"}
        /\ index' = index \/ index' = [index EXCEPT ![f] = "invalid"]
        /\ (End(t) \/ Goto(t, "settle", "FAILED"))
    BY <1>11, <2>0 DEF DropFails
  <2>2. task[t] # Idle /\ task[t].field = f
    BY <1>c, <2>0, <2>1
  <2>3. \A g \in Field : g # f => index'[g] = index[g]
    BY <1>a, <2>1, <2>2
  <2>4. /\ task'[t].field \in {f, None} /\ \A u \in Task : u # t => task'[u] = task[u]
    BY <1>0, <1>b, <2>1, <2>2, GotoShape, EndShape
  <2>5. \A g \in Field \ muddled' : g # f /\ Described(g)
    BY <1>0, <2>1
  <2>6. \A g \in Field \ muddled' : Described(g)'
    BY <1>0, <2>1, <2>2, <2>3, <2>4, <2>5, OthersDescribed
  <2>7. QED
    BY <1>0, <2>6 DEF DescribedInv
<1>15. ASSUME NEW t \in Task, SettleFails(t) PROVE DescribedInv'
  <2>0. PICK f \in Field : f = task[t].field
    BY <1>c, <1>15 DEF SettleFails
  <2>1. /\ index' = index /\ muddled' = muddled \cup {f} /\ task[t].step = "settle" /\ End(t)
        /\ \/ row' = row
           \/ row' = [row EXCEPT ![f] = IF @ = None THEN None ELSE task[t].status]
    BY <1>15, <2>0 DEF SettleFails, Settled
  <2>2. task[t] # Idle /\ task[t].field = f
    BY <1>c, <2>0, <2>1
  <2>3. \A g \in Field : g # f => row'[g] = row[g]
    BY <1>a, <2>1
  <2>4. /\ task'[t].field \in {f, None} /\ \A u \in Task : u # t => task'[u] = task[u]
    BY <1>0, <1>b, <2>1, <2>2, EndShape
  <2>5. \A g \in Field \ muddled' : g # f /\ Described(g)
    BY <1>0, <2>1
  <2>6. \A g \in Field \ muddled' : Described(g)'
    BY <1>0, <2>1, <2>2, <2>3, <2>4, <2>5, OthersDescribed
  <2>7. QED
    BY <1>0, <2>6 DEF DescribedInv
<1>12. CASE Restart
  <2>1. /\ task' = [t \in Task |-> Idle] /\ row' = row /\ index' = index
        /\ \A f \in Field \ muddled' : f \notin muddled /\ About(f) = {}
    BY <1>12 DEF Restart
  <2>2. ASSUME NEW f \in Field \ muddled' PROVE Described(f)'
    <3>1. Described(f) /\ About(f) = {}
      BY <1>0, <2>1
    <3>2. About(f)' = {}
      BY <1>b, <2>1 DEF About
    <3>3. QED
      BY <2>1, <3>1, <3>2 DEF Described
  <2>3. QED
    BY <1>0, <2>2 DEF DescribedInv
<1>13. CASE UNCHANGED vars
  BY <1>0, <1>13, DescribedKept DEF vars, DescribedInv
<1>14. QED
  BY <1>1, <1>2, <1>5, <1>6, <1>7, <1>8, <1>9, <1>10, <1>11, <1>12, <1>13, <1>15
     DEF Next, Run

(* The inductive invariant holds whatever is declared, withdrawn, fails or *)
(* restarts.                                                               *)
LEMMA DescribedAlways ==
  ASSUME NoneIsNoValue PROVE Spec => []DescribedInv
<1>1. Init => DescribedInv
  <2> SUFFICES ASSUME Init PROVE DescribedInv
    OBVIOUS
  <2>1. \A f \in Field : About(f) = {}
    BY DEF Init, About, Idle, NoneIsNoValue
  <2>2. TaskInv
    BY DEF Init, TaskInv, Building, Idle
  <2>3. ASSUME NEW f \in Field PROVE Described(f)
    BY <2>1 DEF Init, Described, NoneIsNoValue
  <2>4. QED
    BY <2>2, <2>3 DEF DescribedInv
<1>2. DescribedInv /\ [Next]_vars => DescribedInv'
  BY DescribedInductive
<1>3. QED
  BY <1>1, <1>2, PTL DEF Spec

(* A row is type-correct, and one statement at a time builds an index,     *)
(* however many tasks the process runs.                                    *)
THEOREM BuildsTypeCorrect ==
  ASSUME NoneIsNoValue PROVE Spec => []TypeOK
<1>1. ASSUME DescribedInv PROVE TypeOK
  <2>1. TaskInv
    BY <1>1 DEF DescribedInv
  <2>2. Cardinality(Building) <= 1
    <3>1. CASE Building = {}
      BY <3>1, FS_EmptySet
    <3>2. CASE Building # {}
      <4>1. PICK t \in Building : TRUE
        BY <3>2
      <4>2. Building = {t}
        BY <2>1, <4>1 DEF TaskInv
      <4>3. QED
        BY <4>2, FS_Singleton
    <3>3. QED
      BY <3>1, <3>2
  <2>3. \A t \in Task : task[t].step = "settle" => task[t].status \in {"READY", "FAILED"}
    BY <2>1, TaskShape DEF TaskInv
  <2>4. QED
    BY <2>1, <2>2, <2>3 DEF TaskInv, TypeOK
<1>2. QED
  BY <1>1, DescribedAlways, PTL

(* For any number of fields and tasks: once the tasks of a field are over  *)
(* its row says what the catalogue holds, unless it was declared again     *)
(* under a running task, or left behind by a restart, by a failed drop or  *)
(* by a settling that itself failed.                                       *)
THEOREM RowsAreTrue ==
  ASSUME NoneIsNoValue PROVE Spec => []RowsDescribeIndexes
<1>1. ASSUME DescribedInv PROVE RowsDescribeIndexes
  <2>1. SUFFICES ASSUME NEW f \in Field \ muddled, About(f) = {}
                 PROVE  /\ (row[f] = "READY") <=> (index[f] = "valid")
                        /\ row[f] \in {None, "FAILED"} => index[f] = "none"
                        /\ row[f] # "PENDING"
    BY DEF RowsDescribeIndexes
  <2>2. Described(f) /\ row[f] \in {None, "PENDING", "READY", "FAILED"}
    BY <1>1 DEF DescribedInv, TaskInv
  <2>3. QED
    BY <2>1, <2>2 DEF Described, NoneIsNoValue
<1>2. QED
  BY <1>1, DescribedAlways, PTL

-----------------------------------------------------------------------------
(* Facts about numbers. *)

LEMMA NatLeast ==
  ASSUME NEW S \in SUBSET Nat, S # {}
  PROVE  \E n \in S : \A m \in S : n <= m
<1> DEFINE Below == {0 .. n : n \in S}
<1>1. Below \subseteq FiniteSubsetsOf(Nat)
  <2>1. \A n \in S : IsFiniteSet(0 .. n) /\ 0 .. n \subseteq Nat
    BY FS_Interval
  <2>2. QED
    BY <2>1 DEF FiniteSubsetsOf
<1>2. Below # {} /\ IsWellFoundedOn(StrictSubsetOrdering(Nat), FiniteSubsetsOf(Nat))
  BY FS_StrictSubsetOrderingWellFounded
<1>3. PICK low \in Below : \A other \in Below : <<other, low>> \notin StrictSubsetOrdering(Nat)
  <2> HIDE DEF Below
  <2> QED
    BY <1>1, <1>2, WFMin
<1>4. PICK n \in S : low = 0 .. n
  BY <1>3
<1>5. ASSUME NEW m \in S, m < n
      PROVE  FALSE
  <2>1. 0 .. m \in Below /\ 0 .. m \subseteq 0 .. n /\ 0 .. m # 0 .. n
    BY <1>5
  <2>2. <<0 .. m, low>> \in StrictSubsetOrdering(Nat)
    BY <1>4, <2>1 DEF StrictSubsetOrdering
  <2>3. QED
    BY <1>3, <2>1, <2>2
<1>6. QED
  BY <1>5

(* A set of naturals with a bound has a greatest one. *)
LEMMA Greatest ==
  ASSUME NEW S \in SUBSET Nat, S # {}, NEW n \in Nat, \A t \in S : t <= n
  PROVE  Max(S) \in S /\ \A t \in S : t <= Max(S)
<1> DEFINE Short == {n - t : t \in S}
<1>1. Short \in SUBSET Nat /\ Short # {}
  <2>1. \A t \in S : n - t \in Nat
    OBVIOUS
  <2>2. PICK t \in S : TRUE
    OBVIOUS
  <2>3. QED
    BY <2>1, <2>2
<1>2. PICK m \in Short : \A k \in Short : m <= k
  <2> HIDE DEF Short
  <2> QED
    BY <1>1, NatLeast
<1>3. PICK s \in S : m = n - s
  BY <1>2
<1>4. \A t \in S : s >= t
  <2> SUFFICES ASSUME NEW t \in S
               PROVE  s >= t
    OBVIOUS
  <2>1. n - t \in Short
    OBVIOUS
  <2>2. n - s <= n - t
    BY <1>2, <1>3, <2>1
  <2>3. QED
    BY <2>2
<1>5. Max(S) \in S /\ \A t \in S : Max(S) >= t
  BY <1>4 DEF Max
<1>6. QED
  BY <1>5

LEMMA LatestIs ==
  ASSUME NEW fires \in SUBSET Nat, NEW now \in Nat
  PROVE  /\ Latest(fires, now) \in Nat /\ Latest(fires, now) <= now
         /\ \A t \in fires : t <= now => t <= Latest(fires, now)
<1> DEFINE S == {t \in fires : t <= now} \cup {0}
<1>1. S \in SUBSET Nat /\ S # {} /\ \A t \in S : t <= now
  <2>1. \A t \in S : t \in Nat /\ t <= now
    OBVIOUS
  <2>2. 0 \in S
    OBVIOUS
  <2>3. QED
    BY <2>1, <2>2
<1>2. Max(S) \in S /\ \A t \in S : t <= Max(S)
  <2> HIDE DEF S
  <2> QED
    BY <1>1, Greatest
<1>3. Latest(fires, now) = Max(S)
  BY DEF Latest
<1>4. QED
  BY <1>1, <1>2, <1>3

LEMMA LaterOfTwo ==
  ASSUME NEW m \in Int, NEW n \in Int
  PROVE  Max({m, n}) \in Int /\ Max({m, n}) >= m
<1>1. \E x \in {m, n} : \A y \in {m, n} : x >= y
  OBVIOUS
<1>2. Max({m, n}) \in {m, n} /\ \A y \in {m, n} : Max({m, n}) >= y
  BY <1>1 DEF Max
<1>3. QED
  BY <1>2

(* A schedule is due about an occurrence later than its last run. *)
LEMMA DueMeans ==
  ASSUME SchedulesAssumption, NEW s, s.fires \in SUBSET Nat, s.lastRun \in Time \cup {Nil},
         NEW now \in Nat, Due(s, now)
  PROVE  /\ s.lastRun # Nil => s.lastRun < Latest(s.fires, now)
         /\ now # s.lastRun
<1>1. PICK t \in s.fires : Since(s, now) < t /\ t <= now
  BY DEF Due
<1>2. t <= Latest(s.fires, now) /\ Latest(s.fires, now) \in Nat
  BY <1>1, LatestIs
<1>3. CASE s.lastRun = Nil
  BY <1>3 DEF SchedulesAssumption
<1>4. CASE s.lastRun # Nil
  <2>1. s.lastRun \in Int /\ now - Catchup \in Int
    BY <1>4 DEF Time, SchedulesAssumption
  <2>2. Since(s, now) = Max({s.lastRun, now - Catchup})
    BY <1>4 DEF Since
  <2>3. Since(s, now) \in Int /\ Since(s, now) >= s.lastRun
    BY <2>1, <2>2, LaterOfTwo
  <2>4. QED
    BY <1>1, <1>2, <2>1, <2>3
<1>5. QED
  BY <1>3, <1>4

-----------------------------------------------------------------------------
(* Jobs as records. *)

LEMMA JobEdits ==
  ASSUME NEW a, NEW b, NEW c, NEW d, NEW e, NEW f, NEW g, NEW x,
         x = [running |-> a, tick |-> b, now |-> c, todo |-> d, row |-> e, sent |-> f,
              failed |-> g],
         NEW u
  PROVE  /\ [x EXCEPT !.todo = u] =
              [running |-> a, tick |-> b, now |-> c, todo |-> u, row |-> e, sent |-> f,
               failed |-> g]
         /\ [x EXCEPT !.sent = u] =
              [running |-> a, tick |-> b, now |-> c, todo |-> d, row |-> e, sent |-> u,
               failed |-> g]
         /\ [x EXCEPT !.failed = u] =
              [running |-> a, tick |-> b, now |-> c, todo |-> d, row |-> e, sent |-> f,
               failed |-> u]
OBVIOUS

LEMMA JobOver ==
  ASSUME TimesInv, NEW j \in Job, NEW x, job' = [job EXCEPT ![j] = x]
  PROVE  /\ job' = [k \in Job |-> job'[k]] /\ job'[j] = x
         /\ \A k \in Job \ {j} : job'[k] = job[k]
<1>1. job = [k \in Job |-> job[k]]
  BY DEF TimesInv
<1>2. QED
  BY <1>1

LEMMA NothingToDo ==
  ASSUME SchedulesAssumption, clock \in Time
  PROVE  Sound(NoJob) /\ NoJob = [running |-> FALSE, tick |-> FALSE, now |-> 0, todo |-> {},
                                  row |-> <<>>, sent |-> {}, failed |-> {}]
<1>1. DOMAIN (<<>>) = {} /\ 0 \in Time /\ 0 <= clock
  BY DEF Time, SchedulesAssumption
<1>2. QED
  BY <1>1 DEF Sound, JobRow, NoJob

(* Whom a job of a step is about. *)
LEMMA JobFacts ==
  ASSUME SchedulesAssumption, TimesInv, NEW j \in Job
  PROVE  /\ Sound(job[j])
         /\ job[j] # NoJob => job[j].running
         /\ \A r \in job[j].todo : /\ r \in Report /\ job[j].running
                                   /\ job[j].row[r] \in Seen
                                   /\ Occurrence(j, r) \in Nat
                                   /\ Occurrence(j, r) <= job[j].now
                                   /\ Occurrence(j, r) \in Time
         /\ job[j].now \in Nat
<1>1. Sound(job[j])
  BY DEF TimesInv
<1>2. job[j].now \in Nat /\ job[j].now <= Horizon /\ Horizon \in Nat
  BY <1>1 DEF Sound, Time, SchedulesAssumption
<1>3. ASSUME NEW r \in job[j].todo
      PROVE  /\ r \in Report /\ job[j].running /\ job[j].row[r] \in Seen
             /\ Occurrence(j, r) \in Nat /\ Occurrence(j, r) <= job[j].now
             /\ Occurrence(j, r) \in Time
  <2>1. r \in Report /\ job[j].row[r] \in Seen
    BY <1>1 DEF Sound
  <2>2. job[j].running
    <3>1. CASE job[j] = NoJob
      BY <3>1 DEF NoJob
    <3>2. QED
      BY <1>1, <3>1 DEF Sound
  <2>3. job[j].row[r].fires \in SUBSET Nat
    BY <2>1 DEF Seen
  <2>4. Occurrence(j, r) \in Nat /\ Occurrence(j, r) <= job[j].now
    BY <1>2, <2>3, LatestIs DEF Occurrence
  <2>5. QED
    BY <1>2, <2>1, <2>2, <2>4 DEF Time
<1>4. QED
  BY <1>1, <1>2, <1>3 DEF Sound

-----------------------------------------------------------------------------
(* What may still be repeated. *)

Means == pressed + forgotten + overlaps

LEMMA JobsCounted ==
  ASSUME SchedulesAssumption, NEW S \in SUBSET Job
  PROVE  /\ IsFiniteSet(S) /\ Cardinality(S) \in Nat
         /\ \A T \in SUBSET S : Cardinality(T) \in Nat /\ Cardinality(T) <= Cardinality(S)
         /\ \A j \in S : Cardinality(S \ {j}) = Cardinality(S) - 1
         /\ \A j \in Job : IsFiniteSet(S \cup {j}) /\ Cardinality(S \cup {j}) <= Cardinality(S) + 1
<1>1. IsFiniteSet(S)
  BY FS_Subset DEF SchedulesAssumption
<1>2. Cardinality(S) \in Nat
  BY <1>1, FS_CardinalityType
<1>3. \A T \in SUBSET S : Cardinality(T) \in Nat /\ Cardinality(T) <= Cardinality(S)
  BY <1>1, FS_Subset, FS_CardinalityType
<1>4. \A j \in S : Cardinality(S \ {j}) = Cardinality(S) - 1
  BY <1>1, FS_RemoveElement
<1>5. \A j \in Job : IsFiniteSet(S \cup {j}) /\ Cardinality(S \cup {j}) <= Cardinality(S) + 1
  BY <1>1, <1>2, FS_AddElement
<1>6. QED
  BY <1>1, <1>2, <1>3, <1>4, <1>5

LEMMA MeansTyped == TimesInv => Means \in Nat
BY DEF TimesInv, Means

(* What a step leaves to be repeated: some jobs less wait for the schedule,  *)
(* and nobody else knows less of what was mailed, or something explains it.  *)
LEMMA LessIsOwed ==
  ASSUME SchedulesAssumption, TimesInv, TimesInv', NEW r \in Report, NEW D \in SUBSET Job,
         Affordable(r, D), NEW G \in SUBSET Job, Waiting(r)' = Waiting(r) \ G,
         \A k \in Job : job'[k].running => job[k].running /\ job'[k].now = job[k].now,
         \A k \in Waiting(r)' : job'[k].now = job[k].now /\ job'[k].row = job[k].row,
         mailed'[r] = mailed[r], repeats'[r] = repeats[r],
         \/ Means' >= Means /\ (Unknown(r)' /\ ~Overwritten(r) => Unknown(r))
         \/ Means' >= Means + 1
  PROVE  Affordable(r, D \ G)'
<1>1. Overwritten(r)' => Overwritten(r)
  BY DEF Overwritten
<1>2. (Waiting(r) \ G) \ (D \ G) \in SUBSET (Waiting(r) \ D) /\ Waiting(r) \ D \in SUBSET Job
  BY DEF Waiting
<1>3. /\ Cardinality((Waiting(r) \ G) \ (D \ G)) \in Nat /\ Cardinality(Waiting(r) \ D) \in Nat
      /\ Cardinality((Waiting(r) \ G) \ (D \ G)) <= Cardinality(Waiting(r) \ D)
  BY <1>2, JobsCounted
<1>4. D \subseteq Waiting(r) /\ D \ G \subseteq Waiting(r)'
  BY DEF Affordable
<1>5. \A f \in D \ G : Occurrence(f, r)' = Occurrence(f, r)
  BY <1>4 DEF Occurrence
<1>6. Anew(r, D \ G)' => Anew(r, D) \/ (~Overwritten(r)' /\ Unknown(r)')
  BY <1>5 DEF Anew
<1>7. \A f \in D \ G : Clean(f, r)'
  BY <1>4 DEF Clean, Affordable
<1> DEFINE o == One(Overwritten(r))
           p == One(Overwritten(r)')
           a == One(Anew(r, D))
           b == One(Anew(r, D \ G)')
<1>15. /\ o \in {0, 1} /\ p \in {0, 1} /\ a \in {0, 1} /\ b \in {0, 1}
       /\ Overwritten(r) <=> o = 1
       /\ Overwritten(r)' <=> p = 1
       /\ Anew(r, D) <=> a = 1
       /\ Anew(r, D \ G)' <=> b = 1
  BY DEF One
<1> HIDE DEF o, p, a, b
<1>8. \/ Means' >= Means /\ p + b <= o + a
      \/ Means' >= Means + 1 /\ p + b <= o + a + 1
  <2>1. CASE Means' >= Means + 1
    BY <1>1, <1>15, <2>1
  <2>2. CASE Means' >= Means /\ (Unknown(r)' /\ ~Overwritten(r) => Unknown(r))
    <3>1. CASE Overwritten(r) /\ ~Overwritten(r)'
      BY <1>15, <2>2, <3>1
    <3>2. CASE Overwritten(r) /\ Overwritten(r)'
      BY <1>6, <1>15, <2>2, <3>2
    <3>3. CASE ~Overwritten(r)
      <4>1. Anew(r, D \ G)' => Anew(r, D)
        BY <1>6, <2>2, <3>3 DEF Anew
      <4>2. QED
        BY <1>1, <1>15, <2>2, <3>3, <4>1
    <3>4. QED
      BY <3>1, <3>2, <3>3
  <2>3. QED
    BY <2>1, <2>2
<1>9. repeats[r] \in Nat /\ Means \in Nat /\ Means' \in Nat
  BY DEF TimesInv, Means
<1>10. repeats[r] + (Cardinality(Waiting(r) \ D) + o + a) <= Means
  BY DEF Affordable, Owed, Means, o, a
<1>11. repeats'[r] + (Cardinality(Waiting(r)' \ (D \ G)) + p + b) <= Means'
  BY <1>3, <1>8, <1>9, <1>10, <1>15
<1>12. /\ D \ G \subseteq Waiting(r)' /\ \A f, g \in D \ G : f = g
  BY <1>4 DEF Affordable
<1>13. Owed(r, D \ G)' = Cardinality(Waiting(r)' \ (D \ G)) + p + b
  BY DEF Owed, p, b
<1>14. QED
  BY <1>7, <1>11, <1>12, <1>13 DEF Affordable, Means

(* What a mail does to the jobs. *)
LEMMA SendShape ==
  ASSUME SchedulesAssumption, TimesInv, NEW j \in Job, NEW r \in Report, Send(j, r)
  PROVE  /\ r \in job[j].todo
         /\ job'[j] = [running |-> job[j].running, tick |-> job[j].tick, now |-> job[j].now,
                       todo |-> job[j].todo \ {r}, row |-> job[j].row,
                       sent |-> job[j].sent \cup {r}, failed |-> job[j].failed]
         /\ job' = [k \in Job |-> job'[k]] /\ \A k \in Job \ {j} : job'[k] = job[k]
         /\ mailed' = [mailed EXCEPT ![r] = @ \cup {Occurrence(j, r)}]
         /\ repeats' = [repeats EXCEPT ![r] =
              IF Occurrence(j, r) \in mailed[r] \ {0} THEN @ + 1 ELSE @]
         /\ UNCHANGED <<clock, schedule, active, mishaps, forgotten, overlaps, pressed>>
<1>1. job[j] = JobRow(job[j]) /\ job = [k \in Job |-> job[k]]
  BY DEF TimesInv, Sound
<1>2. PICK x : x = [job[j] EXCEPT !.todo = job[j].todo \ {r}]
  OBVIOUS
<1>3. x = [running |-> job[j].running, tick |-> job[j].tick, now |-> job[j].now,
           todo |-> job[j].todo \ {r}, row |-> job[j].row,
           sent |-> job[j].sent, failed |-> job[j].failed]
  BY <1>1, <1>2, JobEdits DEF JobRow
<1>4. PICK y : y = [x EXCEPT !.sent = job[j].sent \cup {r}]
  OBVIOUS
<1>5. y = [running |-> job[j].running, tick |-> job[j].tick, now |-> job[j].now,
           todo |-> job[j].todo \ {r}, row |-> job[j].row,
           sent |-> job[j].sent \cup {r}, failed |-> job[j].failed]
  BY <1>3, <1>4, JobEdits
<1>6. job' = [job EXCEPT ![j] = y]
  <2>1. job' = [job EXCEPT ![j].todo = @ \ {r}, ![j].sent = @ \cup {r}]
    BY DEF Send
  <2>2. [job EXCEPT ![j].todo = @ \ {r}] = [job EXCEPT ![j] = x]
    BY <1>2
  <2>3. x.sent = job[j].sent
    BY <1>3
  <2>4. QED
    BY <1>1, <1>4, <2>1, <2>2, <2>3
<1>7. QED
  BY <1>5, <1>6, JobOver DEF Send

LEMMA SendOwed ==
  ASSUME SchedulesAssumption, TimesInv, TimesInv', NEW j \in Job, NEW r \in Report, Send(j, r),
         NEW D \in SUBSET Job, Affordable(r, D)
  PROVE  Affordable(r, D \ {j})'
<1> DEFINE t == Occurrence(j, r)
           o == One(Overwritten(r))
           p == One(Overwritten(r)')
           a == One(Anew(r, D))
           b == One(Anew(r, D \ {j})')
<1>1. /\ o \in {0, 1} /\ p \in {0, 1} /\ a \in {0, 1} /\ b \in {0, 1}
      /\ Overwritten(r) <=> o = 1
      /\ Overwritten(r)' <=> p = 1
      /\ Anew(r, D) <=> a = 1
      /\ Anew(r, D \ {j})' <=> b = 1
  BY DEF One
<1>2. /\ j \in Waiting(r) /\ job[j].running
      /\ t \in Nat /\ t <= job[j].now
  BY SendShape, JobFacts DEF Waiting
<1>3. /\ \A k \in Job : /\ job'[k].running = job[k].running /\ job'[k].now = job[k].now
                        /\ job'[k].row = job[k].row
      /\ \A k \in Job \ {j} : job'[k] = job[k]
      /\ r \notin job'[j].todo /\ r \in job'[j].sent
  <2>1. /\ \A k \in Job \ {j} : job'[k] = job[k]
        /\ job'[j] = [running |-> job[j].running, tick |-> job[j].tick, now |-> job[j].now,
                      todo |-> job[j].todo \ {r}, row |-> job[j].row,
                      sent |-> job[j].sent \cup {r}, failed |-> job[j].failed]
    BY SendShape
  <2>2. /\ job'[j].running = job[j].running /\ job'[j].now = job[j].now
        /\ job'[j].row = job[j].row /\ r \notin job'[j].todo /\ r \in job'[j].sent
    BY <2>1
  <2>3. QED
    BY <2>1, <2>2
<1>4. Waiting(r)' = Waiting(r) \ {j}
  BY <1>3 DEF Waiting
<1>5. /\ mailed'[r] = mailed[r] \cup {t} /\ mailed[r] \subseteq Nat
      /\ repeats'[r] = IF t \in mailed[r] \ {0} THEN repeats[r] + 1 ELSE repeats[r]
      /\ schedule' = schedule /\ Means' = Means /\ Means \in Nat /\ repeats[r] \in Nat
  BY SendShape DEF TimesInv, Means, Time
<1>6. \A k \in Job : job[k].now \in Nat
  BY JobFacts
<1>7. D \subseteq Waiting(r) /\ (\A f, g \in D : f = g) /\ \A f \in D : Clean(f, r)
  BY DEF Affordable
<1>8. \A f \in D \ {j} : Clean(f, r)'
  BY <1>3, <1>7 DEF Clean
<1>9. \A f \in D : Occurrence(f, r)' = Occurrence(f, r) /\ Occurrence(f, r) \in Nat
                   /\ Occurrence(f, r) <= job[f].now
  BY <1>3, <1>7, JobFacts DEF Occurrence, Waiting
<1> HIDE DEF o, p, a, b
<1>10. repeats[r] + (Cardinality(Waiting(r) \ D) + o + a) <= Means
  BY DEF Affordable, Owed, Means, o, a
<1>11. /\ Cardinality(Waiting(r) \ D) \in Nat
       /\ j \notin D => Cardinality((Waiting(r) \ D) \ {j}) = Cardinality(Waiting(r) \ D) - 1
  BY <1>2, JobsCounted DEF Waiting
<1> DEFINE n == Cardinality(Waiting(r) \ D)
           m == Cardinality(Waiting(r)' \ (D \ {j}))
<1>16. n \in Nat /\ repeats[r] + (n + o + a) <= Means
  BY <1>10, <1>11
<1>17. m = IF j \in D THEN n ELSE n - 1
  <2>1. j \in D => Waiting(r)' \ (D \ {j}) = Waiting(r) \ D
    BY <1>4, <1>7
  <2>2. j \notin D => Waiting(r)' \ (D \ {j}) = (Waiting(r) \ D) \ {j}
    BY <1>4
  <2>3. QED
    BY <1>11, <2>1, <2>2
<1> HIDE DEF n, m
<1>12. repeats'[r] + (m + p + b) <= Means'
  <2>1. CASE j \in D
    <3>1. D = {j} /\ D \ {j} = {} /\ m = n
      BY <1>7, <1>17, <2>1
    <3>2. Clean(j, r)
      BY <1>7, <2>1
    <3>3. Overwritten(r)' => Overwritten(r)
      BY <1>2, <1>3, <1>5, <1>6, <3>2 DEF Overwritten, Clean
    <3>4. ~Unknown(r)'
      BY <1>3, <3>2 DEF Unknown, Clean
    <3>5. ~Anew(r, D \ {j})'
      BY <3>1, <3>4 DEF Anew
    <3>6. t \in mailed[r] \ {0} => Anew(r, D)
      BY <2>1 DEF Anew
    <3>7. p <= o /\ b = 0
      BY <1>1, <3>3, <3>5
    <3>8. repeats'[r] <= repeats[r] + a
      BY <1>1, <1>5, <3>6
    <3>9. repeats'[r] \in Nat
      BY <1>5
    <3>10. QED
      BY <1>1, <1>5, <1>16, <3>1, <3>7, <3>8, <3>9
  <2>2. CASE j \notin D
    <3>1. D \ {j} = D /\ m = n - 1
      BY <1>17, <2>2
    <3>2. Unknown(r)' => Unknown(r) \/ (t \notin mailed[r] /\ t # 0)
      BY <1>3, <1>5 DEF Unknown
    <3>3. Overwritten(r) => Overwritten(r)'
      BY <1>3, <1>5 DEF Overwritten
    <3>4. CASE t \in mailed[r] \/ t = 0
      <4>1. Overwritten(r)' => Overwritten(r)
        BY <1>2, <1>3, <1>5, <1>6, <3>4 DEF Overwritten
      <4>2. Anew(r, D \ {j})' => Anew(r, D)
        <5>1. \A f \in D : Occurrence(f, r) \in mailed'[r] \ {0} =>
                             Occurrence(f, r) \in mailed[r] \ {0}
          BY <1>5, <3>4
        <5>2. QED
          BY <1>9, <3>1, <3>2, <3>3, <3>4, <5>1 DEF Anew
      <4>3. p <= o /\ b <= a
        BY <1>1, <4>1, <4>2
      <4>4. repeats'[r] <= repeats[r] + 1 /\ repeats'[r] \in Nat
        BY <1>5
      <4>5. QED
        BY <1>1, <1>5, <1>16, <3>1, <4>3, <4>4
    <3>5. CASE t \notin mailed[r] /\ t # 0
      <4>1. repeats'[r] = repeats[r]
        BY <1>5, <3>5
      <4>2. p + b <= o + a + 1
        <5>1. CASE Overwritten(r)' => Overwritten(r)
          BY <1>1, <5>1
        <5>2. CASE Overwritten(r)' /\ ~Overwritten(r)
          <6>1. PICK k \in Job : job[k].running /\ job[k].now < t
            BY <1>3, <1>5, <5>2 DEF Overwritten
          <6>2. \A f \in D : Occurrence(f, r) # t
            BY <1>2, <1>6, <1>7, <1>9, <6>1 DEF Clean
          <6>3. \A f \in D : Occurrence(f, r) \in mailed'[r] \ {0} =>
                               Occurrence(f, r) \in mailed[r] \ {0}
            BY <1>5, <6>2
          <6>4. Anew(r, D \ {j})' => Anew(r, D)
            BY <1>9, <3>1, <5>2, <6>3 DEF Anew
          <6>5. QED
            BY <1>1, <6>4
        <5>3. QED
          BY <5>1, <5>2
      <4>3. QED
        BY <1>1, <1>5, <1>16, <3>1, <4>1, <4>2
    <3>6. QED
      BY <3>4, <3>5
  <2>3. QED
    BY <2>1, <2>2
<1>13. /\ D \ {j} \subseteq Waiting(r)' /\ \A f, g \in D \ {j} : f = g
  BY <1>4, <1>7
<1>14. Owed(r, D \ {j})' = m + p + b
  BY DEF Owed, m, p, b
<1>15. QED
  BY <1>8, <1>12, <1>13, <1>14 DEF Affordable, Means

(* A job that begins has read the rows of its schedules. *)
Begun(tick, todo) ==
  [running |-> TRUE, tick |-> tick, now |-> clock, todo |-> todo,
   row |-> [r \in todo |-> [fires |-> schedule[r].fires, lastRun |-> schedule[r].lastRun]],
   sent |-> {}, failed |-> {}]

LEMMA BeginShape ==
  ASSUME SchedulesAssumption, TimesInv, NEW j \in Job, NEW tick \in BOOLEAN,
         NEW todo \in SUBSET Report, Begin(j, tick, todo)
  PROVE  /\ job[j] = NoJob /\ job'[j] = Begun(tick, todo)
         /\ job' = [k \in Job |-> job'[k]] /\ \A k \in Job \ {j} : job'[k] = job[k]
         /\ UNCHANGED <<clock, schedule, active, mailed, repeats, mishaps, forgotten>>
         /\ overlaps' \in Nat /\ overlaps' >= overlaps
         /\ (\E k \in Job : job[k].running) => overlaps' = overlaps + 1
<1>1. job[j] = NoJob
  BY JobFacts DEF Begin
<1>2. job' = [job EXCEPT ![j] = Begun(tick, todo)]
  BY DEF Begin, Begun
<1>3. overlaps' = overlaps + IF \E k \in Job : job[k].running THEN 1 ELSE 0
  BY DEF Begin
<1>4. overlaps \in Nat
  BY DEF TimesInv
<1>5. overlaps' \in Nat /\ overlaps' >= overlaps
      /\ ((\E k \in Job : job[k].running) => overlaps' = overlaps + 1)
  BY <1>3, <1>4
<1>6. QED
  BY <1>1, <1>2, <1>5, JobOver DEF Begin

LEMMA BeginOwed ==
  ASSUME SchedulesAssumption, TimesInv, TimesInv', NEW j \in Job, NEW tick \in BOOLEAN,
         NEW todo \in SUBSET Report, Begin(j, tick, todo), NEW r \in Report, NEW D \in SUBSET Job,
         Affordable(r, D), pressed' \in Nat, pressed' >= pressed,
         \/ pressed' = pressed + 1
         \/ \E k \in Job : job[k].running
         \/ r \in todo => Due(schedule[r], clock)
  PROVE  \E E \in SUBSET Job : Affordable(r, E)'
<1> DEFINE o == One(Overwritten(r))
           p == One(Overwritten(r)')
           a == One(Anew(r, D))
<1>1. /\ o \in {0, 1} /\ p \in {0, 1} /\ a \in {0, 1}
      /\ Overwritten(r) <=> o = 1
      /\ Overwritten(r)' <=> p = 1
      /\ Anew(r, D) <=> a = 1
  BY DEF One
<1>2. /\ job[j].running = FALSE /\ job[j].todo = {} /\ job[j].sent = {}
      /\ job'[j].running /\ job'[j].now = clock /\ job'[j].todo = todo /\ job'[j].sent = {}
      /\ \A s \in todo : job'[j].row[s].fires = schedule[s].fires
                         /\ job'[j].row[s].lastRun = schedule[s].lastRun
  <2>1. job[j] = NoJob /\ job'[j] = Begun(tick, todo)
    BY BeginShape
  <2>2. job[j].running = FALSE /\ job[j].todo = {} /\ job[j].sent = {}
    BY <2>1 DEF NoJob
  <2>3. /\ job'[j].running /\ job'[j].now = clock /\ job'[j].todo = todo /\ job'[j].sent = {}
        /\ job'[j].row = [s \in todo |-> [fires |-> schedule[s].fires,
                                          lastRun |-> schedule[s].lastRun]]
    BY <2>1 DEF Begun
  <2>4. QED
    BY <2>2, <2>3
<1>3. /\ \A k \in Job \ {j} : job'[k] = job[k]
      /\ clock' = clock /\ schedule' = schedule /\ mailed' = mailed /\ repeats' = repeats
      /\ forgotten' = forgotten /\ overlaps' \in Nat /\ overlaps' >= overlaps
      /\ (\E k \in Job : job[k].running) => overlaps' = overlaps + 1
  BY BeginShape
<1>4. /\ \A t \in mailed[r] : t \in Nat /\ t <= clock
      /\ repeats[r] \in Nat /\ Means \in Nat /\ Means' \in Nat /\ Means' >= Means
      /\ clock \in Nat /\ clock <= Horizon /\ Horizon \in Nat
  BY <1>3 DEF TimesInv, Means, Time, SchedulesAssumption
<1>5. Overwritten(r)' => Overwritten(r)
  BY <1>2, <1>3, <1>4 DEF Overwritten
<1>6. Unknown(r)' => Unknown(r)
  BY <1>2, <1>3 DEF Unknown
<1>7. D \subseteq Waiting(r) /\ (\A f, g \in D : f = g) /\ \A f \in D : Clean(f, r)
  BY DEF Affordable
<1>8. j \notin Waiting(r) /\ Waiting(r)' = Waiting(r) \cup {k \in {j} : r \in todo}
  BY <1>2, <1>3 DEF Waiting
<1> HIDE DEF o, p, a
<1>9. repeats[r] + (Cardinality(Waiting(r) \ D) + o + a) <= Means
  BY DEF Affordable, Owed, Means, o, a
<1>10. CASE pressed' = pressed + 1 \/ \E k \in Job : job[k].running
  <2> DEFINE b == One(Anew(r, D)')
             n == Cardinality(Waiting(r) \ D)
             m == Cardinality(Waiting(r)' \ D)
  <2>1. b \in {0, 1} /\ (Anew(r, D)' <=> b = 1)
    BY DEF One
  <2>2. Means' >= Means + 1
    BY <1>3, <1>4, <1>10 DEF Means, TimesInv
  <2>3. n \in Nat /\ m \in Nat /\ m <= n + 1
    <3>1. Waiting(r) \ D \in SUBSET Job
      BY DEF Waiting
    <3>2. Waiting(r)' \ D \in {Waiting(r) \ D, (Waiting(r) \ D) \cup {j}}
      BY <1>7, <1>8
    <3>3. QED
      BY <3>1, <3>2, JobsCounted
  <2>4. \A f \in D : Clean(f, r)'
    <3>1. \A f \in D : job'[f] = job[f] /\ job[f].running
      BY <1>3, <1>7, <1>8, JobFacts DEF Waiting
    <3>2. \A k \in Job : job[k].now \in Nat /\ job[k].now <= clock
      BY JobFacts DEF Sound
    <3>3. QED
      BY <1>2, <1>3, <1>7, <3>1, <3>2 DEF Clean
  <2>5. \A f \in D : Occurrence(f, r)' = Occurrence(f, r)
    BY <1>3, <1>7, <1>8 DEF Occurrence
  <2>6. Anew(r, D)' => o = 1 \/ Anew(r, D)
    BY <1>1, <1>3, <1>6, <2>5 DEF Anew
  <2>7. Owed(r, D)' = m + p + b
    BY DEF Owed, m, p, b
  <2> HIDE DEF n, m, b
  <2>8. p + b <= o + a
    <3>1. CASE Overwritten(r) /\ Overwritten(r)'
      <4>1. Anew(r, D)' => Anew(r, D)
        BY <1>3, <2>5, <3>1 DEF Anew
      <4>2. QED
        BY <1>1, <2>1, <3>1, <4>1
    <3>2. CASE Overwritten(r) /\ ~Overwritten(r)'
      BY <1>1, <2>1, <3>2
    <3>3. CASE ~Overwritten(r)
      BY <1>1, <1>5, <2>1, <2>6, <3>3
    <3>4. QED
      BY <3>1, <3>2, <3>3
  <2>9. repeats[r] + (n + o + a) <= Means
    BY <1>9 DEF n
  <2>10. repeats'[r] + (m + p + b) <= Means'
    BY <1>1, <1>3, <1>4, <2>1, <2>2, <2>3, <2>8, <2>9
  <2>11. D \subseteq Waiting(r)'
    BY <1>7, <1>8
  <2>12. QED
    BY <1>7, <2>4, <2>7, <2>10, <2>11 DEF Affordable, Means
<1>11. CASE /\ \A k \in Job : ~job[k].running
            /\ r \in todo => Due(schedule[r], clock)
  <2> DEFINE E == {k \in {j} : r \in todo}
             b == One(Anew(r, E)')
  <2>1. b \in {0, 1} /\ (Anew(r, E)' <=> b = 1)
    BY DEF One
  <2>2. \A k \in Job : job[k].todo = {} /\ job[k].sent = {}
    BY <1>11, JobFacts DEF NoJob
  <2>3. Waiting(r) = {} /\ Waiting(r)' = E /\ D = {}
    BY <1>7, <1>8, <2>2 DEF Waiting
  <2>4. ~Overwritten(r)'
    BY <1>5, <1>11 DEF Overwritten
  <2>5. \A k \in Job : job'[k].running => k = j
    BY <1>3, <1>11
  <2>6. ASSUME r \in todo
        PROVE  /\ Occurrence(j, r)' = Latest(schedule[r].fires, clock)
               /\ schedule[r].lastRun # Nil =>
                    schedule[r].lastRun < Latest(schedule[r].fires, clock)
               /\ clock # schedule[r].lastRun
    <3>1. Occurrence(j, r)' = Latest(schedule[r].fires, clock)
      BY <1>2, <2>6 DEF Occurrence
    <3>2. schedule[r].fires \in SUBSET Nat /\ schedule[r].lastRun \in Time \cup {Nil}
      BY DEF TimesInv, Row, SchedulesAssumption
    <3>3. Due(schedule[r], clock)
      BY <1>11, <2>6
    <3>4. QED
      BY <1>4, <3>1, <3>2, <3>3, DueMeans
  <2>7. \A f \in E : Clean(f, r)'
    BY <1>2, <1>4, <2>5, <2>6 DEF Clean
  <2>8. Anew(r, E)' => Unknown(r)
    <3>1. CASE \E f \in E : Occurrence(f, r)' \in mailed'[r] \ {0}
      <4>1. r \in todo /\ Occurrence(j, r)' \in mailed[r] \ {0}
        BY <1>3, <3>1
      <4>2. QED
        BY <2>2, <2>6, <4>1 DEF Unknown
    <3>2. CASE Unknown(r)'
      BY <1>6, <3>2
    <3>3. QED
      BY <3>1, <3>2 DEF Anew
  <2>9. Unknown(r) => Anew(r, D)
    BY <1>11 DEF Anew, Overwritten
  <2>10. b <= a /\ p = 0
    BY <1>1, <2>1, <2>4, <2>8, <2>9
  <2>11. Cardinality(Waiting(r) \ D) = 0 /\ Cardinality(Waiting(r)' \ E) = 0
    BY <2>3, FS_EmptySet
  <2>12. Owed(r, E)' = Cardinality(Waiting(r)' \ E) + p + b
    BY DEF Owed, p, b
  <2> HIDE DEF b
  <2>13. repeats'[r] + Owed(r, E)' <= Means'
    BY <1>1, <1>3, <1>4, <1>9, <2>1, <2>10, <2>11, <2>12
  <2>14. E \in SUBSET Job /\ E \subseteq Waiting(r)' /\ \A f, g \in E : f = g
    BY <2>3
  <2> HIDE DEF E
  <2>15. QED
    BY <2>7, <2>13, <2>14 DEF Affordable, Means
<1>12. QED
  BY <1>10, <1>11

-----------------------------------------------------------------------------
(* Nothing is recorded before it happens. *)

(* An edit of the settings page. *)
LEMMA RowsTimed ==
  ASSUME SchedulesAssumption, TimesInv, UNCHANGED <<clock, jobVars>>,
         schedule' \in [Report -> Row], active' \in [Creator -> BOOLEAN],
         \A r \in Report : /\ schedule'[r].lastRun = schedule[r].lastRun
                           /\ schedule[r].exists => schedule'[r].exists
                           /\ ~schedule'[r].exists => schedule'[r] = Blank
  PROVE  TimesInv'
<1>1. /\ job' = job /\ mailed' = mailed /\ repeats' = repeats /\ mishaps' = mishaps
      /\ forgotten' = forgotten /\ overlaps' = overlaps /\ pressed' = pressed /\ clock' = clock
  BY DEF jobVars
<1>2. \A k \in Job : Sound(job[k])'
  BY <1>1 DEF TimesInv, Sound
<1>3. \A k \in Job : \A r \in DOMAIN job[k].row : r \in Report
  BY DEF TimesInv, Sound
<1>4. \A k \in Job : \A r \in DOMAIN job'[k].row : schedule'[r].exists
  BY <1>1, <1>3 DEF TimesInv
<1>5. QED
  BY <1>1, <1>2, <1>4 DEF TimesInv

LEMMA EditTimed ==
  ASSUME SchedulesAssumption, TimesInv,
         \/ \E r \in Report : Delete(r)
         \/ \E r \in Report, cadence \in Cadence :
              \/ \E m \in Creator : Create(r, cadence, m)
              \/ \E on \in BOOLEAN : Update(r, cadence, on)
         \/ \E m \in Creator : Depart(m) \/ Erase(m)
  PROVE  /\ TimesInv' /\ UNCHANGED jobVars
         /\ \A q \in Report : schedule'[q].lastRun = schedule[q].lastRun
<1>1. UNCHANGED <<clock, jobVars>>
  BY DEF Create, Update, Delete, Depart, Erase
<1>2. active' \in [Creator -> BOOLEAN]
  BY DEF TimesInv, Create, Update, Delete, Depart, Erase
<1>3. schedule \in [Report -> Row] /\ \A q \in Report : ~schedule[q].exists => schedule[q] = Blank
  BY DEF TimesInv
<1>4. /\ schedule' \in [Report -> Row]
      /\ \A q \in Report : /\ schedule'[q].lastRun = schedule[q].lastRun
                           /\ schedule[q].exists => schedule'[q].exists
                           /\ ~schedule'[q].exists => schedule'[q] = Blank
  <2>1. ASSUME NEW r \in Report, NEW cadence \in Cadence, NEW m \in Creator, Create(r, cadence, m)
        PROVE  /\ schedule' \in [Report -> Row]
               /\ \A q \in Report : /\ schedule'[q].lastRun = schedule[q].lastRun
                                    /\ schedule[q].exists => schedule'[q].exists
                                    /\ ~schedule'[q].exists => schedule'[q] = Blank
    <3>1. schedule' = [schedule EXCEPT ![r] = [exists |-> TRUE, active |-> TRUE, fires |-> cadence,
                                               creator |-> m, lastRun |-> Nil]]
      BY <2>1 DEF Create
    <3>2. schedule[r] = Blank
      BY <1>3, <2>1 DEF Create
    <3>3. QED
      BY <1>3, <3>1, <3>2 DEF Row, Blank
  <2>2. ASSUME NEW r \in Report, NEW cadence \in Cadence, NEW on \in BOOLEAN, Update(r, cadence, on)
        PROVE  /\ schedule' \in [Report -> Row]
               /\ \A q \in Report : /\ schedule'[q].lastRun = schedule[q].lastRun
                                    /\ schedule[q].exists => schedule'[q].exists
                                    /\ ~schedule'[q].exists => schedule'[q] = Blank
    <3>1. schedule' = [schedule EXCEPT ![r].fires = cadence, ![r].active = on]
          /\ schedule[r].exists
      BY <2>2 DEF Update
    <3>2. PICK x : x = [[schedule[r] EXCEPT !.fires = cadence] EXCEPT !.active = on]
      OBVIOUS
    <3>3. schedule' = [schedule EXCEPT ![r] = x]
      BY <1>3, <3>1, <3>2
    <3>4. x \in Row /\ x.lastRun = schedule[r].lastRun /\ x.exists
      BY <1>3, <3>1, <3>2 DEF Row
    <3>5. QED
      BY <1>3, <3>1, <3>3, <3>4
  <2>3. ASSUME NEW r \in Report, Delete(r)
        PROVE  /\ schedule' \in [Report -> Row]
               /\ \A q \in Report : /\ schedule'[q].lastRun = schedule[q].lastRun
                                    /\ schedule[q].exists => schedule'[q].exists
                                    /\ ~schedule'[q].exists => schedule'[q] = Blank
    <3>1. schedule' = [schedule EXCEPT ![r].active = FALSE] /\ schedule[r].exists
      BY <2>3 DEF Delete
    <3>2. PICK x : x = [schedule[r] EXCEPT !.active = FALSE]
      OBVIOUS
    <3>3. schedule' = [schedule EXCEPT ![r] = x]
      BY <1>3, <3>1, <3>2
    <3>4. x \in Row /\ x.lastRun = schedule[r].lastRun /\ x.exists
      BY <1>3, <3>1, <3>2 DEF Row
    <3>5. QED
      BY <1>3, <3>1, <3>3, <3>4
  <2>4. ASSUME NEW m \in Creator, Depart(m)
        PROVE  /\ schedule' \in [Report -> Row]
               /\ \A q \in Report : /\ schedule'[q].lastRun = schedule[q].lastRun
                                    /\ schedule[q].exists => schedule'[q].exists
                                    /\ ~schedule'[q].exists => schedule'[q] = Blank
    BY <1>3, <2>4 DEF Depart
  <2>5. ASSUME NEW m \in Creator, Erase(m)
        PROVE  /\ schedule' \in [Report -> Row]
               /\ \A q \in Report : /\ schedule'[q].lastRun = schedule[q].lastRun
                                    /\ schedule[q].exists => schedule'[q].exists
                                    /\ ~schedule'[q].exists => schedule'[q] = Blank
    <3>1. schedule' = [q \in Report |-> IF schedule[q].creator = m
                                        THEN [schedule[q] EXCEPT !.creator = Nil] ELSE schedule[q]]
      BY <2>5 DEF Erase
    <3>2. \A q \in Report : /\ [schedule[q] EXCEPT !.creator = Nil] \in Row
                            /\ [schedule[q] EXCEPT !.creator = Nil].lastRun = schedule[q].lastRun
                            /\ [schedule[q] EXCEPT !.creator = Nil].exists = schedule[q].exists
      BY <1>3 DEF Row
    <3>3. \A q \in Report : ~schedule[q].exists => schedule[q].creator # m
      BY <1>3 DEF Blank, SchedulesAssumption
    <3>4. QED
      BY <1>3, <3>1, <3>2, <3>3
  <2>6. QED
    BY <2>1, <2>2, <2>3, <2>4, <2>5
<1>5. QED
  BY <1>1, <1>2, <1>4, RowsTimed

LEMMA AdvanceTimed ==
  ASSUME SchedulesAssumption, TimesInv, Advance
  PROVE  TimesInv' /\ UNCHANGED <<schedule, jobVars>>
<1>1. /\ clock \in Nat /\ clock' \in Time /\ clock' >= clock /\ clock' \in Nat
      /\ UNCHANGED <<schedule, active, jobVars>>
  BY DEF TimesInv, Advance, Time, SchedulesAssumption
<1>2. ASSUME NEW k \in Job
      PROVE  Sound(job[k])'
  <2>1. Sound(job[k]) /\ job' = job
    BY <1>1 DEF TimesInv, jobVars
  <2>2. job[k].now \in Nat
    BY JobFacts
  <2>3. QED
    BY <1>1, <2>1, <2>2 DEF Sound
<1>3. \A r \in Report : \A t \in mailed[r] : t <= clock'
  <2>1. \A r \in Report : \A t \in mailed[r] : t <= clock /\ t \in Nat
    BY DEF TimesInv, Time
  <2>2. QED
    BY <1>1, <2>1
<1>4. \A r \in Report : schedule[r].lastRun # Nil => schedule[r].lastRun <= clock'
  <2>1. \A r \in Report : schedule[r].lastRun # Nil =>
                            schedule[r].lastRun <= clock /\ schedule[r].lastRun \in Nat
    BY DEF TimesInv, Time, Row
  <2>2. QED
    BY <1>1, <2>1
<1>5. QED
  BY <1>1, <1>2, <1>3, <1>4 DEF TimesInv, jobVars

(* A step of one job. *)
LEMMA JobTimed ==
  ASSUME SchedulesAssumption, TimesInv, NEW j \in Job, job' = [k \in Job |-> job'[k]],
         \A k \in Job \ {j} : job'[k] = job[k], clock' = clock, Sound(job'[j]),
         DOMAIN job'[j].row \subseteq {r \in Report : schedule'[r].exists},
         schedule' \in [Report -> Row], active' = active,
         \A r \in Report : /\ schedule'[r].lastRun # Nil => schedule'[r].lastRun <= clock
                           /\ schedule'[r].exists = schedule[r].exists
                           /\ ~schedule'[r].exists => schedule'[r] = Blank,
         mailed' \in [Report -> SUBSET Time], repeats' \in [Report -> Nat],
         \A r \in Report : \A t \in mailed'[r] : t <= clock,
         mishaps' \in 0 .. MaxMishaps, pressed' \in Nat, forgotten' \in Nat, overlaps' \in Nat
  PROVE  TimesInv'
<1>1. ASSUME NEW k \in Job
      PROVE  Sound(job[k])'
  <2>1. Sound(job'[k])
    BY DEF TimesInv
  <2>2. QED
    BY <2>1 DEF Sound
<1>2. ASSUME NEW k \in Job, NEW r \in DOMAIN job'[k].row
      PROVE  schedule'[r].exists
  <2>1. CASE k = j
    BY <2>1
  <2>2. CASE k # j
    <3>1. r \in DOMAIN job[k].row /\ r \in Report
      BY <2>2 DEF TimesInv, Sound
    <3>2. QED
      BY <3>1 DEF TimesInv
  <2>3. QED
    BY <2>1, <2>2
<1>3. QED
  BY <1>1, <1>2 DEF TimesInv

LEMMA BeginTimed ==
  ASSUME SchedulesAssumption, TimesInv, NEW j \in Job, NEW tick \in BOOLEAN,
         NEW todo \in SUBSET Report, Begin(j, tick, todo), pressed' \in Nat,
         \A r \in todo : schedule[r].exists, ~tick => \A r, s \in todo : r = s
  PROVE  TimesInv'
<1>1. /\ job'[j] = Begun(tick, todo) /\ job' = [k \in Job |-> job'[k]]
      /\ \A k \in Job \ {j} : job'[k] = job[k]
      /\ UNCHANGED <<clock, schedule, active, mailed, repeats, mishaps, forgotten>>
      /\ overlaps' \in Nat
  BY BeginShape
<1>2. \A r \in todo : [fires |-> schedule[r].fires, lastRun |-> schedule[r].lastRun] \in Seen
  <2>1. \A r \in todo : schedule[r] \in Row
    BY DEF TimesInv
  <2>2. QED
    BY <2>1 DEF Row, Seen, SchedulesAssumption
<1>3. Sound(job'[j]) /\ DOMAIN job'[j].row = todo
  <2>1. Begun(tick, todo) = JobRow(Begun(tick, todo))
    BY DEF JobRow, Begun
  <2>2. clock \in Time /\ clock <= clock
    BY DEF TimesInv, Time, SchedulesAssumption
  <2>3. QED
    BY <1>1, <1>2, <2>1, <2>2 DEF Sound, Begun
<1>4. QED
  BY <1>1, <1>3, JobTimed DEF TimesInv

LEMMA SendTimed ==
  ASSUME SchedulesAssumption, TimesInv, NEW j \in Job, NEW r \in Report, Send(j, r)
  PROVE  TimesInv'
<1>1. /\ r \in job[j].todo
      /\ job'[j] = [running |-> job[j].running, tick |-> job[j].tick, now |-> job[j].now,
                    todo |-> job[j].todo \ {r}, row |-> job[j].row,
                    sent |-> job[j].sent \cup {r}, failed |-> job[j].failed]
      /\ job' = [k \in Job |-> job'[k]] /\ \A k \in Job \ {j} : job'[k] = job[k]
      /\ mailed' = [mailed EXCEPT ![r] = @ \cup {Occurrence(j, r)}]
      /\ repeats' = [repeats EXCEPT ![r] =
           IF Occurrence(j, r) \in mailed[r] \ {0} THEN @ + 1 ELSE @]
      /\ UNCHANGED <<clock, schedule, active, mishaps, forgotten, overlaps, pressed>>
  BY SendShape
<1>2. Sound(job[j]) /\ job[j].running /\ Occurrence(j, r) \in Time
      /\ Occurrence(j, r) \in Nat /\ Occurrence(j, r) <= job[j].now /\ job[j].now \in Nat
  BY <1>1, JobFacts
<1>3. Occurrence(j, r) <= clock
  BY <1>2 DEF Sound, TimesInv, Time, SchedulesAssumption
<1>4. ~job[j].tick => job[j].todo \ {r} = {}
  BY <1>1, <1>2 DEF Sound
<1>5. /\ job'[j] = JobRow(job'[j]) /\ job'[j].now = job[j].now /\ job'[j].todo = job[j].todo \ {r}
      /\ job'[j].row = job[j].row /\ job'[j].sent = job[j].sent \cup {r}
      /\ job'[j].failed = job[j].failed /\ job'[j].running /\ job'[j].tick = job[j].tick
  BY <1>1, <1>2 DEF JobRow
<1>6. Sound(job'[j])
  BY <1>1, <1>2, <1>4, <1>5 DEF Sound
<1>7. mailed' \in [Report -> SUBSET Time] /\ \A q \in Report : \A t \in mailed'[q] : t <= clock
  BY <1>1, <1>2, <1>3 DEF TimesInv
<1>8. repeats' \in [Report -> Nat]
  BY <1>1 DEF TimesInv
<1>9. DOMAIN job'[j].row \subseteq {q \in Report : schedule'[q].exists}
  BY <1>1, <1>2, <1>5 DEF TimesInv, Sound
<1>10. /\ schedule' \in [Report -> Row]
       /\ \A q \in Report : /\ schedule'[q].lastRun # Nil => schedule'[q].lastRun <= clock
                            /\ schedule'[q].exists = schedule[q].exists
                            /\ ~schedule'[q].exists => schedule'[q] = Blank
       /\ mishaps' \in 0 .. MaxMishaps /\ pressed' \in Nat /\ forgotten' \in Nat
       /\ overlaps' \in Nat
  BY <1>1 DEF TimesInv
<1>11. QED
  BY <1>1, <1>6, <1>7, <1>8, <1>9, <1>10, JobTimed

(* A job ends. *)
LEMMA EndTimed ==
  ASSUME SchedulesAssumption, TimesInv, NEW j \in Job, job' = [job EXCEPT ![j] = NoJob],
         UNCHANGED <<clock, active, mailed, repeats, overlaps, pressed>>,
         schedule' \in [Report -> Row],
         \A r \in Report : /\ schedule'[r].lastRun # Nil => schedule'[r].lastRun <= clock
                           /\ schedule'[r].exists = schedule[r].exists
                           /\ ~schedule'[r].exists => schedule'[r] = Blank,
         mishaps' \in 0 .. MaxMishaps, forgotten' \in Nat
  PROVE  TimesInv'
<1>1. job' = [k \in Job |-> job'[k]] /\ job'[j] = NoJob /\ \A k \in Job \ {j} : job'[k] = job[k]
  BY JobOver
<1>2. Sound(NoJob) /\ NoJob.row = <<>>
  BY NothingToDo DEF TimesInv
<1>3. DOMAIN job'[j].row = {}
  BY <1>1, <1>2
<1>4. QED
  BY <1>1, <1>2, <1>3, JobTimed DEF TimesInv

(* A tick gives up on one schedule. *)
LEMMA SkipShape ==
  ASSUME SchedulesAssumption, TimesInv, NEW j \in Job, NEW r \in job[j].todo, job[j].tick,
         NEW more \in SUBSET {r},
         job' = [job EXCEPT ![j] = Skipped(j, r, more)]
  PROVE  /\ job' = [k \in Job |-> job'[k]] /\ \A k \in Job \ {j} : job'[k] = job[k]
         /\ job'[j] = JobRow(job'[j]) /\ job'[j].running = job[j].running
         /\ job'[j].running /\ job'[j].tick
         /\ job'[j].now = job[j].now /\ job'[j].todo = job[j].todo \ {r}
         /\ job'[j].row = job[j].row /\ job'[j].sent = job[j].sent
         /\ job'[j].failed = job[j].failed \cup more
<1>1. job[j] = JobRow(job[j]) /\ job[j].running
  BY JobFacts DEF Sound
<1>2. PICK y : y = Skipped(j, r, more)
  OBVIOUS
<1>3. y = [running |-> job[j].running, tick |-> job[j].tick, now |-> job[j].now,
           todo |-> job[j].todo \ {r}, row |-> job[j].row,
           sent |-> job[j].sent, failed |-> job[j].failed \cup more]
  BY <1>1, <1>2 DEF JobRow, Skipped
<1>6. /\ y = JobRow(y) /\ y.running = job[j].running /\ y.running /\ y.tick
      /\ y.now = job[j].now /\ y.todo = job[j].todo \ {r}
      /\ y.row = job[j].row /\ y.sent = job[j].sent /\ y.failed = job[j].failed \cup more
  BY <1>1, <1>3 DEF JobRow
<1>7. job' = [job EXCEPT ![j] = y]
  BY <1>2
<1>8. job' = [k \in Job |-> job'[k]] /\ job'[j] = y /\ \A k \in Job \ {j} : job'[k] = job[k]
  BY <1>7, JobOver
<1>9. QED
  BY <1>1, <1>6, <1>8

LEMMA SkipTimed ==
  ASSUME SchedulesAssumption, TimesInv, NEW j \in Job, NEW r \in job[j].todo, job[j].tick,
         NEW more \in SUBSET {r},
         job' = [job EXCEPT ![j] = Skipped(j, r, more)],
         UNCHANGED <<clock, schedule, active, mailed, repeats, forgotten, overlaps, pressed>>,
         mishaps' \in 0 .. MaxMishaps
  PROVE  TimesInv'
<1>1. /\ job' = [k \in Job |-> job'[k]] /\ \A k \in Job \ {j} : job'[k] = job[k]
      /\ job'[j] = JobRow(job'[j]) /\ job'[j].running /\ job'[j].tick
      /\ job'[j].now = job[j].now /\ job'[j].todo = job[j].todo \ {r}
      /\ job'[j].row = job[j].row /\ job'[j].sent = job[j].sent
      /\ job'[j].failed = job[j].failed \cup more
  BY SkipShape
<1>2. Sound(job[j])
  BY JobFacts
<1>3. Sound(job'[j])
  BY <1>1, <1>2 DEF Sound
<1>4. DOMAIN job'[j].row \subseteq {q \in Report : schedule'[q].exists}
  BY <1>1, <1>2 DEF TimesInv, Sound
<1>5. /\ schedule' \in [Report -> Row]
      /\ \A q \in Report : /\ schedule'[q].lastRun # Nil => schedule'[q].lastRun <= clock
                           /\ schedule'[q].exists = schedule[q].exists
                           /\ ~schedule'[q].exists => schedule'[q] = Blank
      /\ mailed' \in [Report -> SUBSET Time] /\ repeats' \in [Report -> Nat]
      /\ \A q \in Report : \A t \in mailed'[q] : t <= clock
      /\ pressed' \in Nat /\ forgotten' \in Nat /\ overlaps' \in Nat
  BY DEF TimesInv
<1>6. QED
  BY <1>1, <1>3, <1>4, <1>5, JobTimed

(* What a tick that cannot mail, or is refused, leaves. *)
LEMMA SkipOwed ==
  ASSUME SchedulesAssumption, TimesInv, TimesInv', NEW j \in Job, NEW r \in job[j].todo,
         job[j].tick, NEW more \in SUBSET {r},
         job' = [job EXCEPT ![j] = Skipped(j, r, more)],
         UNCHANGED <<schedule, mailed, repeats, forgotten, overlaps, pressed>>,
         NEW q \in Report, NEW D \in SUBSET Job, Affordable(q, D)
  PROVE  \E E \in SUBSET Job : Affordable(q, E)'
<1>1. /\ \A k \in Job \ {j} : job'[k] = job[k]
      /\ job'[j].running = job[j].running
      /\ job'[j].now = job[j].now /\ job'[j].todo = job[j].todo \ {r}
      /\ job'[j].row = job[j].row /\ job'[j].sent = job[j].sent
  BY SkipShape
<1>2. PICK G \in SUBSET Job : G = {k \in {j} : q = r}
  OBVIOUS
<1>3. Waiting(q)' = Waiting(q) \ G
  BY <1>1, <1>2 DEF Waiting
<1>4. \A k \in Job : job'[k].running = job[k].running /\ job'[k].now = job[k].now
                     /\ job'[k].row = job[k].row /\ job'[k].sent = job[k].sent
  BY <1>1
<1>5. Unknown(q)' => Unknown(q)
  BY <1>4 DEF Unknown
<1>6. Means' = Means /\ Means \in Nat
  BY DEF Means, TimesInv
<1>9. Means' >= Means
  BY <1>6
<1>7. Affordable(q, D \ G)'
  <2>1. \A k \in Job : job'[k].running => job[k].running /\ job'[k].now = job[k].now
    BY <1>4
  <2>2. \A k \in Waiting(q)' : job'[k].now = job[k].now /\ job'[k].row = job[k].row
    BY <1>3, <1>4 DEF Waiting
  <2>3. QED
    BY <1>3, <1>5, <1>9, <2>1, <2>2, LessIsOwed
<1>8. QED
  BY <1>7

(* The end of a job. *)
LEMMA EndOwed ==
  ASSUME SchedulesAssumption, TimesInv, TimesInv', NEW j \in Job, job' = [job EXCEPT ![j] = NoJob],
         UNCHANGED <<mailed, repeats>>, NEW q \in Report, NEW D \in SUBSET Job, Affordable(q, D),
         \/ Means' >= Means /\ (Unknown(q)' /\ ~Overwritten(q) => Unknown(q))
         \/ Means' >= Means + 1
  PROVE  \E E \in SUBSET Job : Affordable(q, E)'
<1>1. job'[j] = NoJob /\ \A k \in Job \ {j} : job'[k] = job[k]
  BY JobOver
<1>2. ~NoJob.running /\ NoJob.todo = {}
  BY DEF NoJob
<1>3. Waiting(q)' = Waiting(q) \ {j}
  BY <1>1, <1>2 DEF Waiting
<1>4. \A k \in Job : job'[k].running => job[k].running /\ job'[k].now = job[k].now
  BY <1>1, <1>2
<1>5. \A k \in Waiting(q)' : job'[k].now = job[k].now /\ job'[k].row = job[k].row
  BY <1>1, <1>3 DEF Waiting
<1>6. Affordable(q, D \ {j})'
  BY <1>3, <1>4, <1>5, LessIsOwed
<1>7. QED
  BY <1>6

(* An endpoint or the clock: no job moves, and no last run. *)
LEMMA RestOwed ==
  ASSUME SchedulesAssumption, TimesInv, TimesInv', UNCHANGED jobVars,
         \A r \in Report : schedule'[r].lastRun = schedule[r].lastRun, RepeatsInv
  PROVE  RepeatsInv'
<1> SUFFICES ASSUME NEW r \in Report
             PROVE  \E E \in SUBSET Job : Affordable(r, E)'
  BY DEF RepeatsInv
<1>1. PICK D \in SUBSET Job : Affordable(r, D)
  BY DEF RepeatsInv
<1>2. job' = job /\ mailed' = mailed /\ repeats' = repeats /\ Means' = Means /\ Means \in Nat
  BY MeansTyped DEF jobVars, Means
<1>3. Waiting(r)' = Waiting(r) \ {}
  BY <1>2 DEF Waiting
<1>4. Unknown(r)' => Unknown(r)
  BY <1>2 DEF Unknown
<1>5. Means' >= Means
  BY <1>2
<1>6. {} \in SUBSET Job
  OBVIOUS
<1>7. Affordable(r, D \ {})'
  BY <1>1, <1>2, <1>3, <1>4, <1>5, <1>6, LessIsOwed
<1>8. QED
  BY <1>7

-----------------------------------------------------------------------------
(* The steps of a job. *)

LEMMA CommitKeeps ==
  ASSUME SchedulesAssumption, TimesInv, RepeatsInv, NEW j \in Job, Commit(j)
  PROVE  TimesInv' /\ RepeatsInv'
<1> DEFINE writes(r) == r \in job[j].sent \cup job[j].failed /\ job[j].now # job[j].row[r].lastRun
<1>1. /\ Sound(job[j]) /\ job[j].running /\ job[j].now \in Nat /\ job[j].now \in Time
      /\ job[j].now <= clock /\ job' = [job EXCEPT ![j] = NoJob]
      /\ UNCHANGED <<clock, active, mailed, repeats, mishaps, forgotten, overlaps, pressed>>
  BY JobFacts DEF Commit, Sound
<1>2. ASSUME NEW r \in Report
      PROVE  /\ schedule'[r] \in Row /\ schedule'[r].exists = schedule[r].exists
             /\ writes(r) => schedule'[r].lastRun = job[j].now /\ schedule[r].exists
             /\ ~writes(r) => schedule'[r] = schedule[r]
  <2>1. schedule[r] \in Row
    BY DEF TimesInv
  <2>2. r \in job[j].sent \cup job[j].failed =>
          schedule'[r] = [schedule[r] EXCEPT !.lastRun =
                            IF job[j].now = job[j].row[r].lastRun THEN schedule[r].lastRun
                                                                  ELSE job[j].now]
    BY <2>1 DEF Commit, Recorded, Column, Row
  <2>3. r \notin job[j].sent \cup job[j].failed => schedule'[r] = schedule[r]
    BY DEF Commit
  <2>4. r \in job[j].sent \cup job[j].failed => schedule[r].exists
    BY <1>1 DEF Sound, TimesInv
  <2>5. QED
    BY <1>1, <2>1, <2>2, <2>3, <2>4 DEF Row
<1>3. schedule' = [r \in Report |-> schedule'[r]]
  BY DEF Commit
<1>4. schedule' \in [Report -> Row]
  BY <1>2, <1>3
<1>5. \A r \in Report : /\ schedule'[r].lastRun # Nil => schedule'[r].lastRun <= clock
                        /\ schedule'[r].exists = schedule[r].exists
                        /\ ~schedule'[r].exists => schedule'[r] = Blank
  BY <1>1, <1>2 DEF TimesInv
<1>6. mishaps' \in 0 .. MaxMishaps /\ forgotten' \in Nat
  BY <1>1 DEF TimesInv
<1>7. TimesInv'
  BY <1>1, <1>4, <1>5, <1>6, EndTimed
<1>8. Means' >= Means
  BY <1>1, MeansTyped DEF Means
<1>9. ASSUME NEW r \in Report
      PROVE  \E E \in SUBSET Job : Affordable(r, E)'
  <2>1. PICK D \in SUBSET Job : Affordable(r, D)
    BY DEF RepeatsInv
  <2>2. ASSUME Unknown(r)', ~Overwritten(r)
        PROVE  Unknown(r)
    <3>1. PICK t \in mailed[r] \ {0} : schedule'[r].lastRun = Nil \/ schedule'[r].lastRun < t
      BY <1>1, <2>2 DEF Unknown
    <3>2. ~writes(r)
      <4>1. CASE writes(r)
        <5>1. job[j].now < t
          BY <1>1, <1>2, <3>1, <4>1 DEF SchedulesAssumption
        <5>2. QED
          BY <1>1, <2>2, <3>1, <5>1 DEF Overwritten
      <4>2. QED
        BY <4>1
    <3>3. \A k \in Job \ {j} : job'[k] = job[k]
      BY <1>1, JobOver
    <3>4. \A k \in Job : r \in job[k].sent => job[k].now = job[k].row[r].lastRun
      BY <2>2, <3>2, <3>3 DEF Unknown
    <3>5. QED
      BY <1>2, <3>1, <3>2, <3>4 DEF Unknown
  <2>3. QED
    BY <1>1, <1>7, <1>8, <2>1, <2>2, EndOwed
<1>10. QED
  BY <1>7, <1>9 DEF RepeatsInv

LEMMA LoseKeeps ==
  ASSUME SchedulesAssumption, TimesInv, RepeatsInv, NEW j \in Job, Lose(j)
  PROVE  TimesInv' /\ RepeatsInv'
<1>1. /\ Sound(job[j]) /\ job' = [job EXCEPT ![j] = NoJob]
      /\ forgotten' = forgotten + Cardinality(job[j].sent) /\ forgotten \in Nat
      /\ UNCHANGED <<clock, schedule, active, mailed, repeats, overlaps, pressed>>
  BY JobFacts DEF Lose, TimesInv
<1>2. /\ IsFiniteSet(job[j].sent) /\ Cardinality(job[j].sent) \in Nat
      /\ \A r \in job[j].sent : Cardinality(job[j].sent) >= 1
  <2>1. IsFiniteSet(job[j].sent)
    BY <1>1, FS_Subset DEF Sound, SchedulesAssumption
  <2>2. Cardinality(job[j].sent) \in Nat
    BY <2>1, FS_CardinalityType
  <2>3. \A r \in job[j].sent : Cardinality(job[j].sent) # 0
    BY <2>1, FS_EmptySet
  <2>4. QED
    BY <2>1, <2>2, <2>3
<1>3. mishaps' \in 0 .. MaxMishaps /\ forgotten' \in Nat
  BY <1>1, <1>2 DEF Lose, TimesInv, SchedulesAssumption
<1>4. TimesInv'
  <2>1. /\ schedule' \in [Report -> Row]
        /\ \A r \in Report : /\ schedule'[r].lastRun # Nil => schedule'[r].lastRun <= clock
                             /\ schedule'[r].exists = schedule[r].exists
                             /\ ~schedule'[r].exists => schedule'[r] = Blank
    BY <1>1 DEF TimesInv
  <2>2. QED
    BY <1>1, <1>3, <2>1, EndTimed
<1>5. ASSUME NEW r \in Report
      PROVE  \E E \in SUBSET Job : Affordable(r, E)'
  <2>1. PICK D \in SUBSET Job : Affordable(r, D)
    BY DEF RepeatsInv
  <2>2. pressed \in Nat /\ overlaps \in Nat
    BY DEF TimesInv
  <2>3. Means' >= Means /\ (r \in job[j].sent => Means' >= Means + 1)
    BY <1>1, <1>2, <2>2 DEF Means
  <2>4. r \notin job[j].sent /\ Unknown(r)' => Unknown(r)
    <3>1. \A k \in Job \ {j} : job'[k] = job[k]
      BY <1>1, JobOver
    <3>2. QED
      BY <1>1, <3>1 DEF Unknown
  <2>5. QED
    BY <1>1, <1>4, <2>1, <2>3, <2>4, EndOwed
<1>6. QED
  BY <1>4, <1>5 DEF RepeatsInv

(* A report that is not mailed: a tick goes on without it, "run now" ends. *)
LEMMA UnsentKeeps ==
  ASSUME SchedulesAssumption, TimesInv, RepeatsInv, NEW j \in Job, NEW r \in Report,
         CannotRender(j, r) \/ Refused(j, r)
  PROVE  TimesInv' /\ RepeatsInv'
<1>1. /\ r \in job[j].todo /\ Sound(job[j])
      /\ UNCHANGED <<clock, schedule, active, mailed, repeats, forgotten, overlaps, pressed>>
      /\ mishaps' \in 0 .. MaxMishaps
  BY JobFacts DEF CannotRender, Refused, TimesInv, SchedulesAssumption
<1>2. CASE job[j].tick
  <2>1. \/ job' = [job EXCEPT ![j] = Skipped(j, r, {r})]
        \/ job' = [job EXCEPT ![j] = Skipped(j, r, {})]
    BY <1>2 DEF CannotRender, Refused
  <2>2. TimesInv'
    BY <1>1, <1>2, <2>1, SkipTimed
  <2>3. ASSUME NEW q \in Report
        PROVE  \E E \in SUBSET Job : Affordable(q, E)'
    <3>1. PICK D \in SUBSET Job : Affordable(q, D)
      BY DEF RepeatsInv
    <3>2. QED
      BY <1>1, <1>2, <2>1, <2>2, <3>1, SkipOwed
  <2>4. QED
    BY <2>2, <2>3 DEF RepeatsInv
<1>3. CASE ~job[j].tick
  <2>1. job' = [job EXCEPT ![j] = NoJob] /\ job[j].sent = {}
    BY <1>1, <1>3 DEF CannotRender, Refused, Sound
  <2>2. TimesInv'
    <3>1. /\ schedule' \in [Report -> Row] /\ forgotten' \in Nat
          /\ \A q \in Report : /\ schedule'[q].lastRun # Nil => schedule'[q].lastRun <= clock
                               /\ schedule'[q].exists = schedule[q].exists
                               /\ ~schedule'[q].exists => schedule'[q] = Blank
      BY <1>1 DEF TimesInv
    <3>2. QED
      BY <1>1, <2>1, <3>1, EndTimed
  <2>3. ASSUME NEW q \in Report
        PROVE  \E E \in SUBSET Job : Affordable(q, E)'
    <3>1. PICK D \in SUBSET Job : Affordable(q, D)
      BY DEF RepeatsInv
    <3>2. Means' >= Means
      BY <1>1, MeansTyped DEF Means
    <3>3. Unknown(q)' => Unknown(q)
      <4>1. \A k \in Job \ {j} : job'[k] = job[k]
        BY <2>1, JobOver
      <4>2. QED
        BY <1>1, <2>1, <4>1 DEF Unknown
    <3>4. QED
      BY <1>1, <2>1, <2>2, <3>1, <3>2, <3>3, EndOwed
  <2>4. QED
    BY <2>2, <2>3 DEF RepeatsInv
<1>4. QED
  BY <1>2, <1>3

LEMMA SendKeeps ==
  ASSUME SchedulesAssumption, TimesInv, RepeatsInv, NEW j \in Job, NEW r \in Report, Send(j, r)
  PROVE  TimesInv' /\ RepeatsInv'
<1>1. TimesInv'
  BY SendTimed
<1>2. ASSUME NEW q \in Report
      PROVE  \E E \in SUBSET Job : Affordable(q, E)'
  <2>1. PICK D \in SUBSET Job : Affordable(q, D)
    BY DEF RepeatsInv
  <2>2. CASE q = r
    BY <1>1, <2>1, <2>2, SendOwed
  <2>3. CASE q # r
    <3>1. /\ job'[j] = [running |-> job[j].running, tick |-> job[j].tick, now |-> job[j].now,
                        todo |-> job[j].todo \ {r}, row |-> job[j].row,
                        sent |-> job[j].sent \cup {r}, failed |-> job[j].failed]
          /\ \A k \in Job \ {j} : job'[k] = job[k]
          /\ mailed' = [mailed EXCEPT ![r] = @ \cup {Occurrence(j, r)}]
          /\ repeats' = [repeats EXCEPT ![r] =
               IF Occurrence(j, r) \in mailed[r] \ {0} THEN @ + 1 ELSE @]
          /\ UNCHANGED <<schedule, forgotten, overlaps, pressed>>
      BY SendShape
    <3>2. mailed'[q] = mailed[q] /\ repeats'[q] = repeats[q]
      BY <2>3, <3>1 DEF TimesInv
    <3>3. /\ job'[j].running = job[j].running /\ job'[j].now = job[j].now
          /\ job'[j].row = job[j].row /\ job'[j].todo = job[j].todo \ {r}
          /\ job'[j].sent = job[j].sent \cup {r}
      BY <3>1
    <3>4. \A k \in Job : /\ job'[k].running = job[k].running /\ job'[k].now = job[k].now
                         /\ job'[k].row = job[k].row
                         /\ q \in job'[k].todo <=> q \in job[k].todo
                         /\ q \in job'[k].sent <=> q \in job[k].sent
      BY <2>3, <3>1, <3>3
    <3>5. Waiting(q)' = Waiting(q) \ {}
      BY <3>4 DEF Waiting
    <3>6. Unknown(q)' => Unknown(q)
      BY <3>1, <3>2, <3>4 DEF Unknown
    <3>7. Means' >= Means
      BY <3>1, MeansTyped DEF Means
    <3>8. /\ \A k \in Job : job'[k].running => job[k].running /\ job'[k].now = job[k].now
          /\ \A k \in Waiting(q)' : job'[k].now = job[k].now /\ job'[k].row = job[k].row
          /\ {} \in SUBSET Job
      BY <3>4 DEF Waiting
    <3>9. Affordable(q, D \ {})'
      BY <1>1, <2>1, <3>2, <3>5, <3>6, <3>7, <3>8, LessIsOwed
    <3>10. QED
      BY <3>9
  <2>4. QED
    BY <2>2, <2>3
<1>3. QED
  BY <1>1, <1>2 DEF RepeatsInv

LEMMA BeginKeeps ==
  ASSUME SchedulesAssumption, TimesInv, RepeatsInv, NEW j \in Job, NEW tick \in BOOLEAN,
         NEW todo \in SUBSET Report, Begin(j, tick, todo), pressed' \in Nat, pressed' >= pressed,
         \A r \in todo : schedule[r].exists, ~tick => \A r, s \in todo : r = s,
         pressed' = pressed + 1 \/ \A r \in todo : Due(schedule[r], clock)
  PROVE  TimesInv' /\ RepeatsInv'
<1>2. TimesInv'
  BY BeginTimed
<1>3. ASSUME NEW r \in Report
      PROVE  \E E \in SUBSET Job : Affordable(r, E)'
  <2>1. PICK D \in SUBSET Job : Affordable(r, D)
    BY DEF RepeatsInv
  <2>2. QED
    BY <1>2, <2>1, BeginOwed
<1>4. QED
  BY <1>2, <1>3 DEF RepeatsInv

LEMMA JobBegins ==
  ASSUME SchedulesAssumption, TimesInv, RepeatsInv, NEW j \in Job,
         Tick(j) \/ \E r \in Report : RunNow(j, r)
  PROVE  TimesInv' /\ RepeatsInv'
<1>1. pressed \in Nat
  BY DEF TimesInv
<1>2. CASE Tick(j)
  <2> DEFINE due == {r \in Report : schedule[r].active /\ Due(schedule[r], clock)}
  <2>1. Begin(j, TRUE, due) /\ pressed' = pressed
    BY <1>2 DEF Tick
  <2>2. \A r \in Report : schedule[r].active => schedule[r].exists
    BY DEF TimesInv, Blank
  <2>3. /\ due \in SUBSET Report /\ \A r \in due : schedule[r].exists
        /\ \A r \in due : Due(schedule[r], clock)
    BY <2>2
  <2> HIDE DEF due
  <2>5. pressed' \in Nat /\ pressed' >= pressed
    BY <1>1, <2>1
  <2>4. QED
    BY <2>1, <2>3, <2>5, BeginKeeps
<1>3. ASSUME NEW r \in Report, RunNow(j, r)
      PROVE  TimesInv' /\ RepeatsInv'
  <2>1. Begin(j, FALSE, {r}) /\ pressed' = pressed + 1 /\ schedule[r].exists
    BY <1>3 DEF RunNow
  <2>5. pressed' \in Nat /\ pressed' >= pressed
    BY <1>1, <2>1
  <2>2. {r} \in SUBSET Report /\ \A q \in {r} : schedule[q].exists
    BY <2>1
  <2>3. \A q, s \in {r} : q = s
    OBVIOUS
  <2>4. QED
    BY <2>1, <2>2, <2>3, <2>5, BeginKeeps
<1>4. QED
  BY <1>2, <1>3

-----------------------------------------------------------------------------
(* Every step. *)

LEMMA SchedulesBegin ==
  ASSUME SchedulesAssumption, ScheduleInit
  PROVE  SchedulesInv
<1>1. 0 \in Time /\ Horizon \in Nat /\ 0 \in 0 .. MaxMishaps
  BY DEF Time, SchedulesAssumption
<1>2. Blank \in Row
  BY DEF Row, Blank
<1>3. Sound(NoJob) /\ DOMAIN NoJob.row = {} /\ NoJob.todo = {} /\ NoJob.sent = {}
      /\ ~NoJob.running
  BY <1>1, NothingToDo DEF ScheduleInit
<1>4. \A k \in Job : job[k] = NoJob
  BY DEF ScheduleInit
<1>5. TimesInv
  BY <1>1, <1>2, <1>3, <1>4 DEF ScheduleInit, TimesInv, Blank
<1>6. ASSUME NEW r \in Report
      PROVE  Affordable(r, {})
  <2>1. Waiting(r) = {} /\ mailed[r] = {} /\ repeats[r] = 0
    BY <1>3, <1>4 DEF ScheduleInit, Waiting
  <2>2. ~Overwritten(r) /\ ~Anew(r, {})
    BY <2>1 DEF Overwritten, Anew, Unknown
  <2>3. Cardinality(Waiting(r) \ {}) = 0
    BY <2>1, FS_EmptySet
  <2>4. Owed(r, {}) = 0
    BY <2>2, <2>3 DEF Owed, One
  <2>5. QED
    BY <2>1, <2>4 DEF Affordable, ScheduleInit
<1>7. QED
  BY <1>5, <1>6 DEF SchedulesInv, RepeatsInv

LEMMA SchedulesStep ==
  ASSUME SchedulesAssumption, SchedulesInv, [ScheduleNext]_scheduleVars
  PROVE  SchedulesInv'
<1>1. TimesInv /\ RepeatsInv
  BY DEF SchedulesInv
<1>2. CASE UNCHANGED scheduleVars
  <2>1. UNCHANGED <<clock, schedule, active, jobVars>>
    BY <1>2 DEF scheduleVars, jobVars
  <2>2. TimesInv'
    <3>1. schedule' \in [Report -> Row] /\ active' \in [Creator -> BOOLEAN]
          /\ \A r \in Report : /\ schedule'[r].lastRun = schedule[r].lastRun
                               /\ schedule[r].exists => schedule'[r].exists
                               /\ ~schedule'[r].exists => schedule'[r] = Blank
      BY <1>1, <2>1 DEF TimesInv
    <3>2. QED
      BY <1>1, <2>1, <3>1, RowsTimed
  <2>3. QED
    BY <1>1, <2>1, <2>2, RestOwed DEF SchedulesInv
<1>3. CASE Advance
  BY <1>1, <1>3, AdvanceTimed, RestOwed DEF SchedulesInv
<1>4. CASE \/ \E r \in Report : Delete(r)
           \/ \E r \in Report, cadence \in Cadence :
                \/ \E m \in Creator : Create(r, cadence, m)
                \/ \E on \in BOOLEAN : Update(r, cadence, on)
           \/ \E m \in Creator : Depart(m) \/ Erase(m)
  <2>1. TimesInv' /\ (\A q \in Report : schedule'[q].lastRun = schedule[q].lastRun)
        /\ UNCHANGED jobVars
    BY <1>1, <1>4, EditTimed
  <2>2. QED
    BY <1>1, <2>1, RestOwed DEF SchedulesInv
<1>5. CASE \E j \in Job : Tick(j) \/ \E r \in Report : RunNow(j, r)
  BY <1>1, <1>5, JobBegins DEF SchedulesInv
<1>6. CASE \E j \in Job : Lose(j)
  BY <1>1, <1>6, LoseKeeps DEF SchedulesInv
<1>7. CASE \E j \in Job : Work(j)
  BY <1>1, <1>7, CommitKeeps, SendKeeps, UnsentKeeps DEF SchedulesInv, Work
<1>8. QED
  BY <1>2, <1>3, <1>4, <1>5, <1>6, <1>7 DEF ScheduleNext

LEMMA ExplainedByInv ==
  ASSUME SchedulesAssumption, SchedulesInv
  PROVE  RepeatsExplained /\ ScheduleTypeOK
<1>1. TimesInv /\ RepeatsInv
  BY DEF SchedulesInv
<1>2. ASSUME NEW r \in Report
      PROVE  repeats[r] <= pressed + forgotten + overlaps
  <2>1. PICK D \in SUBSET Job : Affordable(r, D)
    BY <1>1 DEF RepeatsInv
  <2>2. Waiting(r) \ D \in SUBSET Job
    BY DEF Waiting
  <2>3. Cardinality(Waiting(r) \ D) \in Nat
    BY <2>2, JobsCounted
  <2>4. Owed(r, D) \in Nat
    BY <2>3 DEF Owed, One
  <2>5. repeats[r] \in Nat /\ Means \in Nat
    BY <1>1, MeansTyped DEF TimesInv
  <2>6. QED
    BY <2>1, <2>4, <2>5 DEF Affordable, Means
<1>3. ScheduleTypeOK
  BY <1>1 DEF ScheduleTypeOK, TimesInv, Sound, SchedulesAssumption
<1>4. QED
  BY <1>2, <1>3 DEF RepeatsExplained

LEMMA SchedulesKept ==
  ASSUME SchedulesAssumption PROVE ScheduleSpec => []SchedulesInv
<1>1. ScheduleInit => SchedulesInv
  BY SchedulesBegin
<1>2. SchedulesInv /\ [ScheduleNext]_scheduleVars => SchedulesInv'
  BY SchedulesStep
<1>3. QED
  BY <1>1, <1>2, PTL DEF ScheduleSpec

(* Nothing a job read or wrote is later than the clock, it works on       *)
(* schedules it has read, and refused mails and lost transactions stay     *)
(* within their bound: for any schedules, cadences, horizon and jobs.      *)
THEOREM SchedulesTypeCorrect ==
  ASSUME SchedulesAssumption PROVE ScheduleSpec => []ScheduleTypeOK
<1>1. SchedulesInv => ScheduleTypeOK
  BY ExplainedByInv
<1>2. QED
  BY <1>1, SchedulesKept, PTL

(* Whatever schedules, cadences and jobs there are, and however jobs       *)
(* overlap, are refused, lost or cut short by edits: each mail about an    *)
(* occurrence answered before is explained by a press of "run now", a      *)
(* mail whose transaction was lost, or a job that began while another ran. *)
THEOREM RepeatsAreExplained ==
  ASSUME SchedulesAssumption PROVE ScheduleSpec => []RepeatsExplained
<1>1. SchedulesInv => RepeatsExplained
  BY ExplainedByInv
<1>2. QED
  BY <1>1, SchedulesKept, PTL

=============================================================================
