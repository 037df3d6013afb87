------------------------------- MODULE Imports --------------------------------
(***************************************************************************)
(* Sheet imports: services/importing.py, services/sheets.py and the import *)
(* endpoints of routers/work.py.                                           *)
(*                                                                         *)
(* A run is uploaded, mapped and previewed any number of times, and        *)
(* committed.  Every request loads the run, works on what it loaded, and   *)
(* writes back the columns it changed.  Mapping a run again replaces what  *)
(* its cells mean and keeps the dry run on show.  Preview and commit       *)
(* evaluate the sheet, read under the mapping they loaded, against the     *)
(* leads they find; a commit first flushes RUNNING, which locks the row of *)
(* the run until it ends, but it has looked at the status before that, and *)
(* a preview looks at no status at all.  A commit that fails leaves        *)
(* nothing, not even FAILED: the request is rolled back.                   *)
(*                                                                         *)
(* A row keeps what decides its fate under each choice of columns: whom it *)
(* identifies, one value, the owner column.  Parsing cells, the projection *)
(* of fields and counting the outcomes are data.                           *)
(***************************************************************************)
EXTENDS Integers, Sequences, SequencesExt, FiniteSets, UnitOfWork

CONSTANTS
  Identity,    \* values of the identity field
  Value,       \* values a cell may hold that every validator accepts
  Bad,         \* a cell that fails validation, or an unknown kind of action
  Odd,         \* an action of a custom type the workspace does not have
  Member,      \* members who may own a lead
  Mapping,     \* choices of what each column means, the owner column's with them
  Asked,       \* what a run may be mapped with: pairs of a mapping and a strategy
  Sheets,      \* uploads: sequences of rows, each as every mapping reads it
  Wanted,      \* options.membership_ids, in order
  Weight,      \* options.weights, at least 1 each
  Job,         \* import runs
  Call,        \* requests that may be open at the same time
  MaxApplied,  \* bound on commits that apply one job
  Nil          \* an empty cell, SQL NULL

VARIABLES
  lead,   \* committed leads by identity
  job,    \* the committed row of each run
  lock,   \* the request that holds each run's row
  txn,    \* what each open request read
  applied, \* how often each run was applied
  basis,   \* the leads and the mapping the stored result of each run was found with
  tangled  \* runs mapped again while a preview or a commit of them was under way

importVars == <<lead, job, lock, txn, applied, basis, tangled>>

Kind == {"LEAD_IMPORT", "LEAD_UPDATE", "ACTION_IMPORT"}
Dealing == {"ROUND_ROBIN", "WEIGHTED", "AVAILABILITY"}
Strategy == {"NONE", "COLUMN"} \cup Dealing
Outcomes == {"error", "create", "update"}

NoLead == [exists |-> FALSE, value |-> Nil, owner |-> Nil, history |-> 0]
NoJob == [kind |-> Nil, status |-> Nil, sheet |-> <<>>, mapping |-> Nil,
          strategy |-> "NONE", result |-> <<>>]
NoBasis == [seen |-> {}, mapping |-> Nil]
NoTxn == [op |-> Nil, job |-> Nil, status |-> Nil, mapping |-> Nil, strategy |-> "NONE",
          shown |-> <<>>, basis |-> NoBasis, seen |-> {}, read |-> <<>>, owner |-> <<>>,
          targets |-> <<>>]

ImportInit ==
  /\ \E known \in SUBSET Identity :
       lead = [i \in Identity |->
                 IF i \in known THEN [NoLead EXCEPT !.exists = TRUE] ELSE NoLead]
  /\ job = [j \in Job |-> NoJob]
  /\ lock = [j \in Job |-> Nil]
  /\ txn = [q \in Call |-> NoTxn]
  /\ applied = [j \in Job |-> 0]
  /\ basis = [j \in Job |-> NoBasis]
  /\ tangled = {}

-----------------------------------------------------------------------------
(* Evaluating a sheet: the one code path of the dry run and the write. *)
Existing == {i \in Identity : lead[i].exists}

OutcomeOfLead(kind, row, seen) ==
  IF row.id = Nil \/ row.value \in {Bad, Odd} \/ (kind = "LEAD_UPDATE" /\ row.id \notin seen)
  THEN "error"
  ELSE IF row.id \in seen THEN "update" ELSE "create"

(* A custom type is looked up only when the row is written. *)
OutcomeOfAction(row, seen, commit) ==
  IF row.id \notin seen \/ row.value = Bad \/ (commit /\ row.value = Odd)
  THEN "error" ELSE "create"

Reading(sheet, mapping) == [n \in DOMAIN sheet |-> sheet[n][mapping]]
RowsRead(t) == Reading(job[t.job].sheet, t.mapping)

Evaluate(kind, rows, seen, commit) ==
  [n \in DOMAIN rows |->
     IF kind = "ACTION_IMPORT" THEN OutcomeOfAction(rows[n], seen, commit)
     ELSE OutcomeOfLead(kind, rows[n], seen)]

(* _distribution_targets: the wanted members who are active, or everyone    *)
(* who is; those at work; repeated by weight.                               *)
Repeated(members, times) ==
  LET upTo[n \in 0..Len(members)] ==
        IF n = 0 THEN <<>>
        ELSE upTo[n - 1] \o [k \in 1..times[members[n]] |-> members[n]]
  IN upTo[Len(members)]
Only(members, kept) == Repeated(members, [m \in Member |-> IF m \in kept THEN 1 ELSE 0])

Targets(strategy, active, working) ==
  LET wanted == Only(Wanted, active)
      chosen == IF wanted = <<>> THEN SetToSeq(active) ELSE wanted
  IN CASE strategy = "AVAILABILITY" -> Only(chosen, working)
       [] strategy = "WEIGHTED" -> Repeated(chosen, Weight)
       [] OTHER -> chosen

(* _resolve_owner: rows in error take no turn. *)
TurnByRow(outcome, n) == n  \* mutant: the row number deals
Turn(outcome, n) == Cardinality({k \in 1..n : outcome[k] # "error"})

Owners(kind, rows, strategy, outcome, targets) ==
  [n \in {k \in DOMAIN outcome : outcome[k] # "error"} |->
     CASE kind = "ACTION_IMPORT" \/ strategy = "NONE" -> Nil
       [] strategy = "COLUMN" -> rows[n].owner
       [] OTHER -> targets[((Turn(outcome, n) - 1) % Len(targets)) + 1]]

-----------------------------------------------------------------------------
(* The steps of a run before it is applied. *)
Upload(j, kind, sheet) ==
  /\ job[j].status = Nil
  /\ job' = [job EXCEPT ![j].kind = kind, ![j].status = "UPLOADED", ![j].sheet = sheet]
  /\ UNCHANGED <<lead, lock, txn, applied, basis, tangled>>

(* get_job and the checks on it: a run that was applied is not mapped and   *)
(* not committed again, and one that has no mapping is neither previewed nor *)
(* committed.                                                               *)
MayOpen(op, j) ==
  /\ job[j].status # Nil
  /\ op \in {"map", "commit"} => job[j].status # "COMPLETED"
  /\ op \in {"preview", "commit"} => job[j].mapping # Nil

Open(q, op, j) ==
  LET others == {txn[p].op : p \in {p \in Call : txn[p].job = j}}
  IN /\ txn[q].op = Nil
     /\ MayOpen(op, j)
     /\ txn' = [txn EXCEPT ![q] =
                  [NoTxn EXCEPT !.op = op, !.job = j, !.status = job[j].status,
                                !.mapping = job[j].mapping, !.strategy = job[j].strategy,
                                !.shown = job[j].result, !.basis = basis[j]]]
     /\ tangled' = IF "map" \in others \cup {op} /\ others \ {op} # {}
                   THEN tangled \cup {j} ELSE tangled
     /\ UNCHANGED <<lead, job, lock, applied, basis>>

(* The columns and the way to deal are replaced; the dry run stays on show. *)
SetMappingQuietly(q, mapping, strategy) ==  \* mutant: a previewed run stays PREVIEWED
  LET t == txn[q]
      j == t.job
  IN /\ t.op = "map" /\ lock[j] = Nil
     /\ job' = [job EXCEPT ![j].status = IF t.status = "UPLOADED" THEN "MAPPED" ELSE @,
                           ![j].mapping = Column(@, t.mapping, mapping),
                           ![j].strategy = Column(@, t.strategy, strategy)]
     /\ txn' = [txn EXCEPT ![q] = NoTxn]
     /\ UNCHANGED <<lead, lock, applied, basis, tangled>>
SetMapping(q, mapping, strategy) ==
  LET t == txn[q]
      j == t.job
  IN /\ t.op = "map" /\ lock[j] = Nil
     /\ job' = [job EXCEPT ![j].status = Column(@, t.status, "MAPPED"),
                           ![j].mapping = Column(@, t.mapping, mapping),
                           ![j].strategy = Column(@, t.strategy, strategy)]
     /\ txn' = [txn EXCEPT ![q] = NoTxn]
     /\ UNCHANGED <<lead, lock, applied, basis, tangled>>

(* The leads are read once, before the first row; a commit holds the row of *)
(* its run by then.  Actions have no owner to deal, and a preview, which     *)
(* deals and writes nothing, keeps no more than whom it found.              *)
Read(q, active, working) ==
  LET t == txn[q]
      commit == t.op = "commit"
      kind == job[t.job].kind
      deals == t.strategy \in Dealing /\ kind # "ACTION_IMPORT"
      targets == IF deals THEN Targets(t.strategy, active, working) ELSE <<>>
      outcome == Evaluate(kind, RowsRead(t), Existing, TRUE)
  IN /\ t.op \in {"preview", "commit"} /\ t.read = <<>>
     /\ deals => targets # <<>>
     /\ commit => lock[t.job] = Nil
     /\ lock' = [lock EXCEPT ![t.job] = IF commit THEN q ELSE @]
     /\ txn' = [txn EXCEPT
          ![q].seen = Existing,
          ![q].read = IF commit THEN lead ELSE [i \in Identity |-> lead[i].exists],
          ![q].targets = IF commit THEN targets ELSE <<>>,
          ![q].owner = IF commit THEN Owners(kind, RowsRead(t), t.strategy, outcome, targets)
                       ELSE <<>>]
     /\ UNCHANGED <<lead, job, applied, basis, tangled>>

(* What a request found goes on show, unless it had loaded the same; basis  *)
(* remembers what was found with what.                                      *)
Show(t, found, status) ==
  LET j == t.job
  IN /\ job' = [job EXCEPT ![j].status = status, ![j].result = Column(@, t.shown, found)]
     /\ basis' = [basis EXCEPT ![j] = IF job'[j].result = found
                                      THEN [seen |-> t.seen, mapping |-> t.mapping] ELSE @]

(* A preview stores what it found, and PREVIEWED whatever the run was. *)
FinishPreview(q) ==
  LET t == txn[q]
      j == t.job
  IN /\ t.op = "preview" /\ t.read # <<>> /\ lock[j] = Nil
     /\ Show(t, Evaluate(job[j].kind, RowsRead(t), t.seen, FALSE),
             Column(job[j].status, t.status, "PREVIEWED"))
     /\ txn' = [txn EXCEPT ![q] = NoTxn]
     /\ UNCHANGED <<lead, lock, applied, tangled>>

-----------------------------------------------------------------------------
(* What a commit writes. *)
RowsOf(rows, outcome, i, what) == {n \in DOMAIN outcome : rows[n].id = i /\ outcome[n] \in what}

(* leads_identity_uq: the flush of a created row is refused when the        *)
(* identity is taken, by another request or by a row above it.              *)
Insertable(kind, rows, outcome) ==
  \A i \in Identity :
    LET created == IF kind = "ACTION_IMPORT" THEN {} ELSE RowsOf(rows, outcome, i, {"create"})
    IN created # {} => Cardinality(created) = 1 /\ ~lead[i].exists

LastOf(rows) == CHOOSE n \in rows : \A k \in rows : k <= n

Written(t, outcome, i) ==
  LET named == RowsOf(RowsRead(t), outcome, i, {"create", "update"})
      owned == {n \in named : t.owner[n] # Nil}
      owner == IF owned = {} THEN t.read[i].owner ELSE t.owner[LastOf(owned)]
  IN IF named = {} THEN lead[i]
     ELSE IF job[t.job].kind = "ACTION_IMPORT"
          THEN [lead[i] EXCEPT !.history = @ + Cardinality(named)]
     ELSE [lead[i] EXCEPT !.exists = TRUE,
             !.value = Column(@, t.read[i].value, RowsRead(t)[LastOf(named)].value),
             !.owner = Column(@, t.read[i].owner, owner)]

FinishCommit(q) ==
  LET t == txn[q]
      j == t.job
      outcome == Evaluate(job[j].kind, RowsRead(t), t.seen, TRUE)
  IN /\ t.op = "commit" /\ t.read # <<>>
     /\ applied[j] < MaxApplied
     /\ Insertable(job[j].kind, RowsRead(t), outcome)
     /\ lead' = [i \in Identity |-> Written(t, outcome, i)]
     /\ Show(t, outcome, "COMPLETED")
     /\ applied' = [applied EXCEPT ![j] = @ + 1]
     /\ lock' = [lock EXCEPT ![j] = Nil]
     /\ txn' = [txn EXCEPT ![q] = NoTxn]
     /\ UNCHANGED tangled

(* The file is gone, no member is left to distribute to, an identity was    *)
(* taken: the request fails and is rolled back.                             *)
Fail(q) ==
  /\ txn[q].op # Nil
  /\ lock' = [j \in Job |-> IF lock[j] = q THEN Nil ELSE lock[j]]
  /\ txn' = [txn EXCEPT ![q] = NoTxn]
  /\ UNCHANGED <<lead, job, applied, basis, tangled>>

(* Somebody creates a lead by hand meanwhile. *)
CreateLead(i, v) ==
  /\ ~lead[i].exists
  /\ lead' = [lead EXCEPT ![i] = [NoLead EXCEPT !.exists = TRUE, !.value = v]]
  /\ UNCHANGED <<job, lock, txn, applied, basis, tangled>>

ImportNext ==
  \/ \E j \in Job, kind \in Kind, sheet \in Sheets : Upload(j, kind, sheet)
  \/ \E q \in Call :
       \/ \E op \in {"map", "preview", "commit"}, j \in Job : Open(q, op, j)
       \/ \E asked \in Asked : SetMapping(q, asked[1], asked[2])
       \/ \E active \in SUBSET Member : \E working \in SUBSET active : Read(q, active, working)
       \/ FinishPreview(q)
       \/ FinishCommit(q)
       \/ Fail(q)
  \/ \E i \in Identity, v \in Value : CreateLead(i, v)

ImportSpec == ImportInit /\ [][ImportNext]_importVars

-----------------------------------------------------------------------------
(* Properties. *)

ImportTypeOK ==
  /\ \A i \in Identity : ~lead[i].exists => lead[i] = NoLead
  /\ \A j \in Job :
       /\ job[j].status \in {Nil, "UPLOADED", "MAPPED", "PREVIEWED", "COMPLETED"}
       /\ job[j].result # <<>> => job[j].result \in [DOMAIN job[j].sheet -> Outcomes]
       /\ lock[j] # Nil => txn[lock[j]].op = "commit" /\ txn[lock[j]].job = j

(* "180 create, 4 update, 6 errors before committing": a commit of a run    *)
(* that stood PREVIEWED when it began, and that finds the leads the dry run  *)
(* found, does to every row what the dry run on show foretold, whatever was  *)
(* mapped, previewed and committed before and meanwhile.  Two exceptions: an *)
(* action of a type that does not exist fails only when it is written, and a *)
(* run mapped again during a preview or commit of it may stand PREVIEWED     *)
(* with the result of another mapping.  And a row reported as created made a *)
(* lead that was not there, any other that is not in error found one.        *)
CommitAsForetold ==
  \A j \in Job : applied'[j] > applied[j] =>
    LET t == txn[lock[j]]
        rows == RowsRead(t)
        outcome == Evaluate(job[j].kind, rows, t.seen, TRUE)
        actions == job[j].kind = "ACTION_IMPORT"
        foretold == /\ t.status = "PREVIEWED" /\ t.basis.seen = t.seen
                    /\ j \in tangled => t.basis.mapping = t.mapping
    IN \A n \in DOMAIN rows :
         LET id == rows[n].id
         IN /\ foretold => outcome[n] = t.shown[n] \/ (actions /\ rows[n].value = Odd)
            /\ outcome[n] = "create" /\ ~actions => ~lead[id].exists /\ lead'[id].exists
            /\ outcome[n] = "update" \/ (outcome[n] = "create" /\ actions) => lead[id].exists
PreviewForetells == [][CommitAsForetold]_importVars

(* "Distributing an imported batch across reps": whoever is active and at    *)
(* work when the run reads them, and whichever rows are in error, each full  *)
(* turn of the rotation gives every target as many rows as its weight, and   *)
(* the rest at most one turn more.                                          *)
EvenSplit ==
  \A q \in Call :
    LET t == txn[q]
        share(m) == Cardinality({n \in DOMAIN t.owner : t.owner[n] = m})
        weight(m) == Cardinality({n \in DOMAIN t.targets : t.targets[n] = m})
        turns == Cardinality(DOMAIN t.owner) \div Len(t.targets)
    IN t.targets # <<>> =>
         \A m \in Member : share(m) \in weight(m) * turns .. weight(m) * (turns + 1)

-----------------------------------------------------------------------------
(* What makes these inductive: a run keeps its sheet, a lead stays, and a    *)
(* commit that has read holds the row of its run.                           *)

ImportAssumption ==
  /\ Nil \notin Call /\ Nil \notin Mapping
  /\ Nil \notin {"map", "preview", "commit", "UPLOADED", "MAPPED", "PREVIEWED", "COMPLETED"}
  /\ Asked \subseteq Mapping \X Strategy
  /\ Sheets \subseteq Seq([Mapping -> [id : Identity \cup {Nil}, value : Value \cup {Bad, Odd},
                                       owner : Member \cup {Nil}]])
  /\ IsFiniteSet(Member) /\ Wanted \in Seq(Member) /\ Weight \in [Member -> Nat \ {0}]

TablesInv ==
  /\ lead = [i \in Identity |-> lead[i]] /\ job = [j \in Job |-> job[j]]
  /\ txn = [q \in Call |-> txn[q]] /\ basis = [j \in Job |-> basis[j]]
  /\ lock \in [Job -> Call \cup {Nil}] /\ applied \in [Job -> Nat]
  /\ \A i \in Identity : DOMAIN lead[i] = DOMAIN NoLead
  /\ \A j \in Job : DOMAIN job[j] = DOMAIN NoJob
  /\ \A q \in Call : DOMAIN txn[q] = DOMAIN NoTxn

(* A result is what an evaluation of the run found, with a mapping and leads. *)
FoundWith(result, run, with) ==
  \E commit \in BOOLEAN :
    result = Evaluate(run.kind, Reading(run.sheet, with.mapping), with.seen, commit)

JobInv(j) ==
  /\ job[j].status \in {Nil, "UPLOADED", "MAPPED", "PREVIEWED", "COMPLETED"}
  /\ job[j].mapping \in Mapping \cup {Nil}
  /\ IF job[j].status = Nil THEN job[j].result = <<>> ELSE job[j].sheet \in Sheets
  /\ lock[j] # Nil => txn[lock[j]].op = "commit" /\ txn[lock[j]].job = j

(* The result on show was found with what basis says, and a run that is not  *)
(* tangled stands PREVIEWED or COMPLETED by the mapping it has.              *)
ShownInv(j) ==
  LET done == job[j].status \in {"PREVIEWED", "COMPLETED"}
  IN /\ done \/ job[j].result # <<>> => FoundWith(job[j].result, job[j], basis[j])
     /\ done /\ j \notin tangled => basis[j].mapping = job[j].mapping

(* The owners of the rows that are not in error go round the targets. *)
GoRound(owner, targets) ==
  \E sheet \in Sheets : \E outcome \in [DOMAIN sheet -> Outcomes] :
    owner = [n \in {k \in DOMAIN sheet : outcome[k] # "error"} |->
               targets[((Turn(outcome, n) - 1) % Len(targets)) + 1]]

CallInv(q) ==
  LET t == txn[q]
  IN /\ t.seen \subseteq Existing
     /\ IF t.op = Nil THEN t = NoTxn
        ELSE /\ t.op \in {"map", "preview", "commit"} /\ t.job \in Job
             /\ job[t.job].status # Nil /\ t.mapping \in Mapping \cup {Nil}
     /\ t.op \in {"preview", "commit"} => t.mapping \in Mapping
     /\ t.op = "commit" /\ t.read # <<>> => lock[t.job] = q
     /\ t.targets # <<>> => t.targets \in Seq(Member) /\ GoRound(t.owner, t.targets)

(* What a request loaded was found with what it remembers.  While a run is    *)
(* not tangled, a preview or commit of it works with the mapping it has, and  *)
(* no preview or commit is open beside a request to map it.                  *)
LoadedInv(q) ==
  LET t == txn[q]
      j == t.job
  IN t.op # Nil =>
       /\ t.status = "PREVIEWED" => FoundWith(t.shown, job[j], t.basis)
       /\ job[j].result = t.shown \/ FoundWith(job[j].result, job[j], basis[j])
       /\ j \notin tangled =>
            /\ t.status = "PREVIEWED" => t.basis.mapping = t.mapping
            /\ t.op # "map" =>
                 /\ t.mapping = job[j].mapping
                 /\ job[j].result = t.shown \/ basis[j].mapping = job[j].mapping
            /\ t.op = "map" =>
                 /\ \A p \in Call : txn[p].op # Nil /\ txn[p].job = j => txn[p].op = "map"
                 /\ job[j].status \in {"PREVIEWED", "COMPLETED"} => t.status = job[j].status

ImportInv ==
  /\ TablesInv
  /\ \A i \in Identity : ~lead[i].exists => lead[i] = NoLead
  /\ (\A j \in Job : JobInv(j)) /\ \A q \in Call : CallInv(q)

ForetellInv == (\A j \in Job : ShownInv(j)) /\ \A q \in Call : LoadedInv(q)
=============================================================================
