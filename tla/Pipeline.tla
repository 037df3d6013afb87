------------------------------- MODULE Pipeline -------------------------------
(***************************************************************************)
(* Pipeline settings: services/pipeline.py and routers/pipeline.py (stages, *)
(* lost reasons, call dispositions, custom action types and their fields). *)
(*                                                                         *)
(* An endpoint is one transaction of an administrator.  Four of them decide *)
(* by rows they do not lock: archiving a disposition and choosing the       *)
(* default one, the cap on lost reasons, the next code of an action type.   *)
(* Those are split into what they read and what they commit.  Labels,       *)
(* colours, icons and the order of lists other than stages are left out.    *)
(***************************************************************************)
EXTENDS Registry, FiniteSets

CONSTANTS
  Stages,       \* rows of stages that may come to exist, numbered from 1
  Dispositions, \* rows of call_dispositions
  System,       \* how many of these are provisioned, at least 1
  Reasons,      \* rows of lost_reasons
  MaxReasons,   \* MAX_LOST_REASONS
  Types,        \* rows of custom_action_types
  Slug,         \* slugs of labels of action fields and of their options
  Score,        \* scores an action type may be given
  Call,         \* calls of an endpoint that may be half way through
  MaxSettings,  \* bound on settings
  Nil           \* SQL NULL

VARIABLES
  stage,       \* kind, archived and sort_order of each stage
  disposition, \* call_dispositions
  reason,      \* lost_reasons: "none", "live" or "archived"
  actionType,  \* custom_action_types with their fields
  call,        \* what each call read
  contested,   \* dispositions archived and made default by calls that overlapped
  overlapping, \* most reasons being created at the same time
  settings     \* calls so far

Singleton == {"INITIAL", "WON", "LOST"}

(* What provisioning needs of the rows, and that NULL is no value.          *)
PipelineAssumption ==
  /\ Stages \subseteq Nat \ {0} /\ 1..4 \subseteq Stages
  /\ Nil \notin Singleton \cup {"ACTIVE", "archive", "default", "reason", "type"}
  /\ Dispositions \subseteq Int /\ System \in Nat \ {0} /\ 1 \in Dispositions
  /\ IsFiniteSet(Reasons) /\ 1 \in Reasons /\ IsFiniteSet(Call)
  /\ MaxReasons \in Nat \ {0}

pipelineVars == <<stage, disposition, reason, actionType, call, contested, overlapping, settings>>

FirstCode == 1001

NoStage == [kind |-> Nil, archived |-> FALSE, order |-> 0]
NoDisposition == [exists |-> FALSE, system |-> FALSE, default |-> FALSE, archived |-> FALSE]
NoType == [code |-> 0, score |-> 0, archived |-> FALSE, fields |-> <<>>]
NoCall == [op |-> Nil, row |-> Nil, seen |-> {}, code |-> 0]

(* What provisioning leaves: a stage of each kind, the system dispositions  *)
(* with the first one as default, one lost reason.                          *)
PipelineInit ==
  /\ stage = [s \in Stages |->
       IF s <= 4 THEN [kind |-> <<"INITIAL", "ACTIVE", "WON", "LOST">>[s], archived |-> FALSE,
                       order |-> s - 1]
       ELSE NoStage]
  /\ disposition = [d \in Dispositions |->
       IF d <= System THEN [exists |-> TRUE, system |-> TRUE, default |-> d = 1, archived |-> FALSE]
       ELSE NoDisposition]
  /\ reason = [r \in Reasons |-> IF r = 1 THEN "live" ELSE "none"]
  /\ actionType = [t \in Types |-> NoType]
  /\ call = [q \in Call |-> NoCall]
  /\ contested = {} /\ overlapping = 0 /\ settings = 0

Setting == settings < MaxSettings /\ settings' = settings + 1
Ready(q) == call[q].op = Nil
Reads(q, what) == Ready(q) /\ call' = [call EXCEPT ![q] = what] /\ Setting
Writes(q) == call' = [call EXCEPT ![q] = NoCall] /\ UNCHANGED settings
LeastUnused(rows, unused(_)) == {r \in rows : unused(r) /\ \A s \in rows : s < r => ~unused(s)}

-----------------------------------------------------------------------------
(* Stages.  Only active ones are created, archived and moved. *)
LiveStages(kind) == {s \in Stages : stage[s].kind = kind /\ ~stage[s].archived}

CreateStage ==
  /\ \E s \in LeastUnused(Stages, LAMBDA s : stage[s].kind = Nil) :
       stage' = [stage EXCEPT ![s] = [kind |-> "ACTIVE", archived |-> FALSE,
                                      order |-> 1 + Max({stage[k].order : k \in Stages})]]
  /\ Setting
  /\ UNCHANGED <<disposition, reason, actionType, call, contested, overlapping>>

MayArchiveAnyStage(s) == stage[s].kind # Nil  \* mutant: the kind is not looked at
MayArchiveStage(s) == stage[s].kind = "ACTIVE"

ArchiveStage(s) ==
  /\ MayArchiveStage(s)
  /\ stage' = [stage EXCEPT ![s].archived = TRUE]
  /\ Setting
  /\ UNCHANGED <<disposition, reason, actionType, call, contested, overlapping>>

ReorderStages(named) ==
  /\ named # <<>> /\ Range(named) \subseteq LiveStages("ACTIVE")
  /\ stage' = [s \in Stages |->
       IF s \in Range(named)
       THEN [stage[s] EXCEPT !.order = (CHOOSE k \in DOMAIN named : named[k] = s) - 1]
       ELSE stage[s]]
  /\ Setting
  /\ UNCHANGED <<disposition, reason, actionType, call, contested, overlapping>>

-----------------------------------------------------------------------------
(* Lost reasons.  The live ones are counted when the request is read. *)
LiveReasons == {r \in Reasons : reason[r] = "live"}
Creating == {q \in Call : call[q].op = "reason"}

BeginReason(q) ==
  /\ Cardinality(LiveReasons) < MaxReasons
  /\ Reads(q, [op |-> "reason", row |-> Nil, seen |-> {}, code |-> 0])
  /\ overlapping' = Max({overlapping, Cardinality(Creating) + 1})
  /\ UNCHANGED <<stage, disposition, reason, actionType, contested>>

CommitReason(q) ==
  /\ call[q].op = "reason"
  /\ \E r \in LeastUnused(Reasons, LAMBDA r : reason[r] = "none") :
       reason' = [reason EXCEPT ![r] = "live"]
  /\ Writes(q)
  /\ UNCHANGED <<stage, disposition, actionType, contested, overlapping>>

(* The default reason is archived like any other. *)
ArchiveReason(r) ==
  /\ reason[r] # "none"
  /\ reason' = [reason EXCEPT ![r] = "archived"]
  /\ Setting
  /\ UNCHANGED <<stage, disposition, actionType, call, contested, overlapping>>

-----------------------------------------------------------------------------
(* Call dispositions. *)
LiveDefaults == {d \in Dispositions : disposition[d].default /\ ~disposition[d].archived}

CreateDisposition ==
  /\ \E d \in LeastUnused(Dispositions, LAMBDA d : ~disposition[d].exists) :
       disposition' = [disposition EXCEPT ![d].exists = TRUE]
  /\ Setting
  /\ UNCHANGED <<stage, reason, actionType, call, contested, overlapping>>

(* What archive_disposition and set_default look at before they write; the  *)
(* second also reads which are default.                                     *)
MayArchiveDefault(d) == disposition[d].exists  \* mutant: the default is archived too
MayArchive(d) == disposition[d].exists /\ ~disposition[d].default
MayDefault(d) == disposition[d].exists /\ ~disposition[d].archived

BeginDisposition(q, op, d) ==
  /\ IF op = "archive" THEN MayArchive(d) ELSE MayDefault(d)
  /\ Reads(q, [op |-> op, row |-> d, seen |-> LiveDefaults, code |-> 0])
  /\ contested' = contested \cup
       {e \in {d} : \E r \in Call : call[r].row = d /\ {op, call[r].op} = {"archive", "default"}}
  /\ UNCHANGED <<stage, disposition, reason, actionType, overlapping>>

CommitArchive(q) ==
  /\ call[q].op = "archive"
  /\ disposition' = [disposition EXCEPT ![call[q].row].archived = TRUE]
  /\ Writes(q)
  /\ UNCHANGED <<stage, reason, actionType, contested, overlapping>>

(* call_dispositions_default_uq refuses a second live default: one that     *)
(* another request set meanwhile.  A row read as the default is not written, *)
(* so there is nothing to refuse.                                            *)
CommitDefault(q) ==
  LET t == call[q]
  IN /\ t.op = "default"
     /\ \/ t.row \in t.seen \/ disposition[t.row].archived
        \/ LiveDefaults \subseteq t.seen \cup {t.row}
     /\ disposition' = [d \in Dispositions |->
          [disposition[d] EXCEPT !.default = IF d = t.row THEN @ \/ d \notin t.seen
                                             ELSE @ /\ d \notin t.seen]]
     /\ Writes(q)
     /\ UNCHANGED <<stage, reason, actionType, contested, overlapping>>

-----------------------------------------------------------------------------
(* Custom action types: numbered one after the other from 1001. *)
TypeCodes == {actionType[t].code : t \in Types} \ {0}
NextCode == 1 + Max({FirstCode - 1} \cup TypeCodes)

BeginType(q) ==
  /\ Reads(q, [op |-> "type", row |-> Nil, seen |-> {}, code |-> NextCode])
  /\ UNCHANGED <<stage, disposition, reason, actionType, contested, overlapping>>

(* Each has a required Notes field.  A code taken meanwhile is refused by    *)
(* the unique constraint on it.                                             *)
CommitType(q, score) ==
  /\ call[q].op = "type" /\ call[q].code \notin TypeCodes
  /\ \E t \in LeastUnused(Types, LAMBDA t : actionType[t].code = 0) :
       actionType' = [actionType EXCEPT ![t] =
         [code |-> call[q].code, score |-> score, archived |-> FALSE,
          fields |-> <<[key |-> <<"notes">>, options |-> <<>>, hidden |-> FALSE]>>]]
  /\ Writes(q)
  /\ UNCHANGED <<stage, disposition, reason, contested, overlapping>>

(* Everything but the code may change. *)
UpdateType(t, score, archived) ==
  /\ actionType[t].code # 0
  /\ archived \in {actionType[t].archived, TRUE}
  /\ actionType' = [actionType EXCEPT ![t].score = score, ![t].archived = archived]
  /\ Setting
  /\ UNCHANGED <<stage, disposition, reason, call, contested, overlapping>>

(* The slugs of the options are not numbered: two that agree are refused by *)
(* the constraint on them.                                                  *)
AddActionField(t, slug, options) ==
  /\ actionType[t].code # 0
  /\ \A i, j \in DOMAIN options : i # j => options[i] # options[j]
  /\ actionType' = [actionType EXCEPT ![t].fields =
       Append(@, [key |-> Slugify(<<slug>>, {@[n].key : n \in DOMAIN @}), options |-> options,
                  hidden |-> FALSE])]
  /\ Setting
  /\ UNCHANGED <<stage, disposition, reason, call, contested, overlapping>>

HideField(t, n) ==
  /\ n \in DOMAIN actionType[t].fields
  /\ actionType' = [actionType EXCEPT ![t].fields[n].hidden = TRUE]
  /\ Setting
  /\ UNCHANGED <<stage, disposition, reason, call, contested, overlapping>>

(* Refused by a constraint, or the connection is lost. *)
Rollback(q) ==
  /\ ~Ready(q)
  /\ Writes(q)
  /\ UNCHANGED <<stage, disposition, reason, actionType, contested, overlapping>>

-----------------------------------------------------------------------------
PipelineNext ==
  \/ CreateStage \/ CreateDisposition
  \/ \E s \in Stages : ArchiveStage(s)
  \/ \E named \in SetToAllKPermutations(LiveStages("ACTIVE")) : ReorderStages(named)
  \/ \E r \in Reasons : ArchiveReason(r)
  \/ \E q \in Call :
       \/ BeginReason(q) \/ CommitReason(q) \/ BeginType(q) \/ Rollback(q)
       \/ CommitArchive(q) \/ CommitDefault(q)
       \/ \E op \in {"archive", "default"}, d \in Dispositions : BeginDisposition(q, op, d)
       \/ \E score \in Score : CommitType(q, score)
  \/ \E t \in Types :
       \/ \E score \in Score, archived \in BOOLEAN : UpdateType(t, score, archived)
       \/ \E slug \in Slug, options \in {<<>>} \cup {<<s>> : s \in Slug} : AddActionField(t, slug, options)
       \/ \E n \in 1..Len(actionType[t].fields) : HideField(t, n)

PipelineSpec == PipelineInit /\ [][PipelineNext]_pipelineVars

-----------------------------------------------------------------------------
(* Properties. *)

(* With it: the codes "reports and filters refer to" name one type each.    *)
PipelineTypeOK ==
  /\ \A s \in Stages : stage[s].kind \in Singleton \cup {"ACTIVE", Nil}
  /\ \A t, u \in Types : t # u /\ actionType[t].code # 0 => actionType[t].code # actionType[u].code
  /\ \A t \in Types : LET fields == actionType[t].fields IN
       \A i, j \in DOMAIN fields : i # j => fields[i].key # fields[j].key

(* "A pipeline with no won state is not a pipeline" and "a workspace with    *)
(* no default has no value to preselect on the call form": whatever is       *)
(* created, archived, reordered and chosen, there is one live stage of each  *)
(* singleton kind and one live default disposition, unless one administrator *)
(* archived a disposition while another made it the default; the live lost   *)
(* reasons exceed the cap by no more than the requests that created one at   *)
(* the same time.                                                           *)
PipelineWhole ==
  /\ \A kind \in Singleton : Cardinality(LiveStages(kind)) = 1
  /\ Cardinality(LiveDefaults) <= 1
  /\ LiveDefaults = {} => \E d \in contested : disposition[d].default /\ disposition[d].archived
  /\ Cardinality(LiveReasons) <= MaxReasons - 1 + Max({1, overlapping})

-----------------------------------------------------------------------------
(* Why they hold. *)

StageRow(s) == [kind |-> stage[s].kind, archived |-> stage[s].archived, order |-> stage[s].order]
CallRow(q) == [op |-> call[q].op, row |-> call[q].row, seen |-> call[q].seen, code |-> call[q].code]

PipelineShape ==
  /\ stage = [s \in Stages |-> StageRow(s)]
  /\ disposition \in [Dispositions -> [exists : BOOLEAN, system : BOOLEAN, default : BOOLEAN,
                                       archived : BOOLEAN]]
  /\ reason \in [Reasons -> {"none", "live", "archived"}]
  /\ call = [q \in Call |-> CallRow(q)]
  /\ overlapping \in Nat

(* The singleton stages are the provisioned ones.                           *)
StagesInv ==
  /\ stage[1].kind = "INITIAL" /\ stage[3].kind = "WON" /\ stage[4].kind = "LOST"
  /\ \A s \in {1, 3, 4} : ~stage[s].archived
  /\ \A s \in Stages \ {1, 3, 4} : stage[s].kind \in {"ACTIVE", Nil}

(* A call that read a disposition read it neither default nor archived, as  *)
(* it needs it; if it is one now, a call of the other kind is to blame.     *)
DefaultsInv ==
  /\ \A d, e \in LiveDefaults : d = e
  /\ \E d \in Dispositions : disposition[d].default /\ (disposition[d].archived => d \in contested)
  /\ \A q \in Call : \A d, e \in call[q].seen : d = e
  /\ \A q \in Call : call[q].op = "default" =>
       /\ call[q].row \in Dispositions
       /\ disposition[call[q].row].archived => call[q].row \in contested
  /\ \A q \in Call : call[q].op = "archive" =>
       /\ call[q].row \in Dispositions
       /\ disposition[call[q].row].default => call[q].row \in contested
  /\ \A q, r \in Call :
       call[q].op = "archive" /\ call[r].op = "default" /\ call[q].row = call[r].row =>
         call[q].row \in contested

(* A reason being created counts as one that exists already.                *)
ReasonsInv ==
  Cardinality(LiveReasons) + Cardinality(Creating) <= MaxReasons - 1 + Max({1, overlapping})

PipelineInv == PipelineShape /\ StagesInv /\ DefaultsInv /\ ReasonsInv

(* An action type's fields are a sequence of well-formed ones.              *)
TypeRow(t) == [code |-> actionType[t].code, score |-> actionType[t].score,
               archived |-> actionType[t].archived, fields |-> actionType[t].fields]
FieldRow == [key : Seq(Slug \cup {"notes"} \cup Nat), options : Seq(Slug), hidden : BOOLEAN]

TypesInv ==
  /\ actionType = [t \in Types |-> TypeRow(t)]
  /\ \A t \in Types : actionType[t].fields \in Seq(FieldRow)
  /\ PipelineTypeOK
=============================================================================
