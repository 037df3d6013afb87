----------------------------- MODULE Provisioning -----------------------------
(***************************************************************************)
(* How a workspace comes to be: the scope a database session reads in        *)
(* (tenancy/session.py) and the steps that give a new workspace its          *)
(* structure (services/provisioning.py), run by POST /workspaces, by the     *)
(* bootstrap command (bootstrap/first_account.py) and, several in a row on   *)
(* one session, by the demo seeder (seed/demo.py).                          *)
(*                                                                         *)
(* The scope stays on the session: whatever reads through it afterwards is   *)
(* filtered to the workspace it names.                                      *)
(***************************************************************************)
EXTENDS Integers, Sequences, FiniteSets

CONSTANTS
  Session,
  Workspace,
  Slug,       \* slugs that may be asked for
  None

VARIABLES
  scope,    \* session -> the workspace its reads are filtered to
  caller,   \* session -> the workspace its owner last bound
  rows,     \* committed rows: their workspace, kind, and what they refer to
  pending,  \* session -> rows it has flushed and not committed
  work      \* session -> the provisioning it is in

vars == <<scope, caller, rows, pending, work>>

Steps == <<"permission_templates", "lead_fields", "stages", "lost_reasons", "call_dispositions",
           "field_grants">>
Parts == {Steps[n] : n \in DOMAIN Steps} \cup {"workspace", "owner"}

NoWork == [workspace |-> None, next |-> 0, previous |-> None]
Row(w, kind, ref) == [workspace |-> w, kind |-> kind, ref |-> ref]

Init ==
  /\ scope = [s \in Session |-> None] /\ caller = scope
  /\ rows = {} /\ pending = [s \in Session |-> {}]
  /\ work = [s \in Session |-> NoWork]

(* A SELECT of tenant rows: its own condition and the session's scope.       *)
(* Workspaces are no tenant rows.                                           *)
Read(s, w, kind) ==
  {r \in rows \cup pending[s] : r.kind = kind /\ r.workspace = w /\ scope[s] \in {None, w}}

Slugs(s) == {r.ref : r \in {x \in rows \cup pending[s] : x.kind = "workspace"}}
Taken == {r.workspace : r \in rows \cup UNION {pending[s] : s \in Session}}

(* ScopedSession(session, w), by the scope of a request or by the seeder. *)
Open(s, w) ==
  /\ work[s] = NoWork
  /\ \E r \in rows \cup pending[s] : r.workspace = w
  /\ scope' = [scope EXCEPT ![s] = w] /\ caller' = [caller EXCEPT ![s] = w]
  /\ UNCHANGED <<rows, pending, work>>

(* provision: an unused slug, as far as the session can see, and its scope   *)
(* pointed at the workspace to come.                                        *)
Start(s, w, base) ==
  /\ work[s] = NoWork /\ w \notin Taken
  /\ pending' = [pending EXCEPT ![s] =
       @ \cup {Row(w, "workspace", IF <<base>> \in Slugs(s) THEN <<base, w>> ELSE <<base>>)}]
  /\ work' = [work EXCEPT ![s] = [workspace |-> w, next |-> 1, previous |-> scope[s]]]
  /\ scope' = [scope EXCEPT ![s] = w]
  /\ UNCHANGED <<caller, rows>>

(* A step adds what its name says; the last one finds templates and fields   *)
(* by reading them.                                                         *)
StepRows(s, w, kind) ==
  IF kind = "field_grants"
  THEN {Row(w, kind, <<t.workspace, f.workspace>>) :
          t \in Read(s, w, "permission_templates"), f \in Read(s, w, "lead_fields")}
  ELSE {Row(w, kind, <<>>)}

RunStep(s) ==
  LET j == work[s]
  IN /\ j # NoWork /\ j.next <= Len(Steps)
     /\ pending' = [pending EXCEPT ![s] = @ \cup StepRows(s, j.workspace, Steps[j.next])]
     /\ work' = [work EXCEPT ![s].next = @ + 1]
     /\ UNCHANGED <<scope, caller, rows>>

(* The owner under the Root template; then the scope is put back. *)
LeftThere(s) == scope[s]  \* mutant: the scope stays where provisioning put it
PutBack(s) == work[s].previous

Built(s) == work[s] # NoWork /\ work[s].next = Len(Steps) + 1
Finish(s) ==
  /\ Built(s)
  /\ Read(s, work[s].workspace, "permission_templates") # {}
  /\ pending' = [pending EXCEPT ![s] = @ \cup {Row(work[s].workspace, "owner", <<>>)}]
  /\ scope' = [scope EXCEPT ![s] = PutBack(s)]
  /\ work' = [work EXCEPT ![s] = NoWork]
  /\ UNCHANGED <<caller, rows>>

(* The unique slug is checked against what others committed meanwhile. *)
SlugsOf(R) == {r.ref : r \in {x \in R : x.kind = "workspace"}}
Commit(s) ==
  /\ work[s] = NoWork /\ pending[s] # {}
  /\ SlugsOf(pending[s]) \cap SlugsOf(rows) = {}
  /\ rows' = rows \cup pending[s]
  /\ pending' = [pending EXCEPT ![s] = {}]
  /\ UNCHANGED <<scope, caller, work>>

(* Any statement may fail; "finally" puts the scope back here too. *)
Fail(s) ==
  /\ pending[s] # {}
  /\ pending' = [pending EXCEPT ![s] = {}]
  /\ scope' = IF work[s] = NoWork THEN scope ELSE [scope EXCEPT ![s] = PutBack(s)]
  /\ work' = [work EXCEPT ![s] = NoWork]
  /\ UNCHANGED <<caller, rows>>

Next == \E s \in Session :
  \/ RunStep(s) \/ Finish(s) \/ Commit(s) \/ Fail(s)
  \/ \E w \in Workspace : Open(s, w) \/ \E base \in Slug : Start(s, w, base)

Spec == Init /\ [][Next]_vars

-----------------------------------------------------------------------------
(* Properties. *)

TypeOK ==
  /\ \A s \in Session : scope[s] \in Workspace \cup {None} /\ work[s].next \in 0..(Len(Steps) + 1)
  /\ \A r \in rows : r.workspace \in Workspace /\ r.kind \in Parts

(* "Provisioning is a step inside somebody else's request as often as it is  *)
(* the whole job": several workspaces built through one session, or at the   *)
(* same time through two, some of them failing half way, each have all their *)
(* parts or none, grants that join their own templates and fields, a slug of *)
(* their own and a Root template their owner could find; and a session that  *)
(* is done provisioning reads where its owner last pointed it.              *)
WorkspaceWhole ==
  /\ \A w \in {r.workspace : r \in rows} :
       /\ {r.kind : r \in {x \in rows : x.workspace = w}} = Parts
       /\ \A r \in rows : r.workspace = w /\ r.kind = "field_grants" => r.ref = <<w, w>>
  /\ \A q, r \in rows : q.kind = "workspace" /\ r.kind = "workspace" /\ q.ref = r.ref => q = r
  /\ \A s \in Session :
       /\ work[s] = NoWork => scope[s] = caller[s]
       /\ Built(s) => Read(s, work[s].workspace, "permission_templates") # {}

-----------------------------------------------------------------------------
(* What makes WorkspaceWhole inductive. *)

NoneIsNoWorkspace == None \notin Workspace

WorkRow == [workspace : Workspace, next : 1..(Len(Steps) + 1), previous : Workspace \cup {None}]
RowRecord == [workspace : Workspace, kind : Parts, ref : Seq(Slug \cup Workspace)]

KindsOf(R, w) == {r.kind : r \in {x \in R : x.workspace = w}}
PartsBefore(n) == {"workspace"} \cup {Steps[i] : i \in 1..(n - 1)}

WorkInv ==
  /\ scope \in [Session -> Workspace \cup {None}]
  /\ caller \in [Session -> Workspace \cup {None}]
  /\ work \in [Session -> WorkRow \cup {NoWork}]
  /\ \A s \in Session :
       /\ work[s] = NoWork => scope[s] = caller[s]
       /\ work[s] # NoWork => scope[s] = work[s].workspace /\ work[s].previous = caller[s]

(* A row of a workspace as its steps write it: the slug is the base or the   *)
(* base with the workspace in it, the grants are the workspace's own.        *)
WellMade(r) ==
  /\ r.kind = "field_grants" => r.ref = <<r.workspace, r.workspace>>
  /\ r.kind = "workspace" => \E base \in Slug : r.ref \in {<<base>>, <<base, r.workspace>>}

SlugsDiffer(R) ==
  \A q, r \in R : q.kind = "workspace" /\ r.kind = "workspace" /\ q.ref = r.ref => q = r

RowsInv ==
  /\ rows \subseteq RowRecord /\ pending \in [Session -> SUBSET RowRecord]
  /\ \A r \in rows : WellMade(r)
  /\ SlugsDiffer(rows)
  /\ \A s \in Session : SlugsDiffer(pending[s]) /\ \A r \in pending[s] : WellMade(r)

(* A workspace is one session's until it is committed, and then nobody's.    *)
OnesOwn ==
  \A s \in Session : \A r \in pending[s] :
    /\ \A q \in rows : q.workspace # r.workspace
    /\ \A t \in Session \ {s} : \A q \in pending[t] : q.workspace # r.workspace

(* The workspace being built has the parts of the steps taken; every other   *)
(* one a session has flushed, and every committed one, is complete.          *)
PartsInv ==
  /\ \A r \in rows : KindsOf(rows, r.workspace) = Parts
  /\ \A s \in Session :
       /\ work[s] # NoWork => KindsOf(pending[s], work[s].workspace) = PartsBefore(work[s].next)
       /\ \A r \in pending[s] :
            r.workspace # work[s].workspace => KindsOf(pending[s], r.workspace) = Parts

WholeInv == WorkInv /\ RowsInv /\ OnesOwn /\ PartsInv
=============================================================================
