-------------------------- MODULE Workspace_proofs --------------------------
(* Proofs about Provisioning for any sessions, workspaces and slugs, and     *)
(* about Work for any tasks, leads, labels, members and requests.            *)
EXTENDS Provisioning, Work, FiniteSetTheorems, TLAPS

-----------------------------------------------------------------------------
(* Provisioning: all the parts or none. *)

LEMMA StepFacts ==
  /\ Len(Steps) = 6
  /\ Steps[1] = "permission_templates" /\ Steps[2] = "lead_fields" /\ Steps[3] = "stages"
  /\ Steps[4] = "lost_reasons" /\ Steps[5] = "call_dispositions" /\ Steps[6] = "field_grants"
  /\ Parts = {"permission_templates", "lead_fields", "stages", "lost_reasons",
              "call_dispositions", "field_grants", "workspace", "owner"}
<1>1. /\ Len(Steps) = 6 /\ DOMAIN Steps = 1..6
      /\ Steps[1] = "permission_templates" /\ Steps[2] = "lead_fields" /\ Steps[3] = "stages"
      /\ Steps[4] = "lost_reasons" /\ Steps[5] = "call_dispositions" /\ Steps[6] = "field_grants"
  BY DEF Steps
<1>2. {Steps[n] : n \in DOMAIN Steps} =
        {"permission_templates", "lead_fields", "stages", "lost_reasons", "call_dispositions",
         "field_grants"}
  <2>1. 1..6 = {1, 2, 3, 4, 5, 6}
    OBVIOUS
  <2>2. QED
    BY <1>1, <2>1, Z3
<1>3. QED
  BY <1>1, <1>2 DEF Parts

(* The parts written so far grow by the step's own name, up to all but one.  *)
LEMMA PartsFacts ==
  /\ PartsBefore(1) = {"workspace"}
  /\ \A n \in 1..6 : PartsBefore(n + 1) = PartsBefore(n) \cup {Steps[n]}
  /\ PartsBefore(7) \cup {"owner"} = Parts
  /\ PartsBefore(6) \cup PartsBefore(7) \subseteq Parts
  /\ {"permission_templates", "lead_fields"} \subseteq PartsBefore(6)
  /\ "permission_templates" \in PartsBefore(7)
<1>1. PartsBefore(1) = {"workspace"}
  BY DEF PartsBefore
<1>2. \A n \in 1..6 : PartsBefore(n + 1) = PartsBefore(n) \cup {Steps[n]}
  <2>1. TAKE n \in 1..6
  <2>2. 1..(n + 1 - 1) = 1..(n - 1) \cup {n}
    OBVIOUS
  <2>3. QED
    BY <2>2 DEF PartsBefore
<1>3. /\ PartsBefore(6) = {"workspace", Steps[1], Steps[2], Steps[3], Steps[4], Steps[5]}
      /\ PartsBefore(7) = {"workspace", Steps[1], Steps[2], Steps[3], Steps[4], Steps[5], Steps[6]}
  <2>1. /\ PartsBefore(2) = PartsBefore(1) \cup {Steps[1]}
        /\ PartsBefore(3) = PartsBefore(2) \cup {Steps[2]}
        /\ PartsBefore(4) = PartsBefore(3) \cup {Steps[3]}
        /\ PartsBefore(5) = PartsBefore(4) \cup {Steps[4]}
        /\ PartsBefore(6) = PartsBefore(5) \cup {Steps[5]}
        /\ PartsBefore(7) = PartsBefore(6) \cup {Steps[6]}
    <3>1. /\ 1 + 1 = 2 /\ 2 + 1 = 3 /\ 3 + 1 = 4 /\ 4 + 1 = 5 /\ 5 + 1 = 6 /\ 6 + 1 = 7
          /\ 1 \in 1..6 /\ 2 \in 1..6 /\ 3 \in 1..6 /\ 4 \in 1..6 /\ 5 \in 1..6 /\ 6 \in 1..6
      OBVIOUS
    <3>2. QED
      BY <1>2, <3>1
  <2>2. QED
    BY <1>1, <2>1
<1>4. QED
  BY <1>1, <1>2, <1>3, StepFacts

(* What a workspace holds, when rows are added to it or to another one. *)
LEMMA KindsAdd ==
  ASSUME NEW R, NEW N, NEW w, \A r \in N : r.workspace = w
  PROVE  /\ KindsOf(R \cup N, w) = KindsOf(R, w) \cup {r.kind : r \in N}
         /\ \A v : v # w => KindsOf(R \cup N, v) = KindsOf(R, v)
BY DEF KindsOf

LEMMA KindsNone ==
  ASSUME NEW R, NEW w
  PROVE  KindsOf(R, w) = {} <=> \A r \in R : r.workspace # w
BY DEF KindsOf

LEMMA KindsWitness ==
  ASSUME NEW R, NEW w, NEW kind \in KindsOf(R, w)
  PROVE  \E r \in R : r.workspace = w /\ r.kind = kind
BY DEF KindsOf

(* What a session has flushed is in the database only when it commits, so a  *)
(* workspace some row of which it flushed is in nobody else's hands.         *)
Free(s, w) ==
  /\ \A q \in rows : q.workspace # w
  /\ \A t \in Session \ {s} : \A q \in pending[t] : q.workspace # w

LEMMA Mine ==
  ASSUME NoneIsNoWorkspace, WholeInv, NEW s \in Session, work[s] # NoWork
  PROVE  /\ work[s] \in WorkRow /\ Free(s, work[s].workspace)
         /\ scope[s] = work[s].workspace
         /\ KindsOf(pending[s], work[s].workspace) = PartsBefore(work[s].next)
<1>1. /\ work[s] \in WorkRow /\ scope[s] = work[s].workspace
      /\ KindsOf(pending[s], work[s].workspace) = PartsBefore(work[s].next)
  BY DEF WholeInv, WorkInv, PartsInv
<1>2. "workspace" \in PartsBefore(work[s].next)
  BY DEF PartsBefore
<1>3. \E r \in pending[s] : r.workspace = work[s].workspace
  BY <1>1, <1>2, KindsWitness
<1>4. QED
  BY <1>1, <1>3 DEF Free, WholeInv, OnesOwn

(* Rows of one workspace that a session adds to what it has flushed.  *)
LEMMA AddRows ==
  ASSUME RowsInv, OnesOwn, NEW s \in Session, NEW w \in Workspace, Free(s, w),
         NEW N \in SUBSET RowRecord, \A r \in N : r.workspace = w /\ WellMade(r),
         SlugsDiffer(pending[s] \cup N),
         pending' = [pending EXCEPT ![s] = @ \cup N], rows' = rows
  PROVE  /\ RowsInv' /\ OnesOwn'
         /\ pending'[s] = pending[s] \cup N
         /\ \A t \in Session \ {s} : pending'[t] = pending[t]
<1>1. /\ pending'[s] = pending[s] \cup N
      /\ \A t \in Session \ {s} : pending'[t] = pending[t]
      /\ pending' \in [Session -> SUBSET RowRecord]
  BY DEF RowsInv
<1>2. RowsInv'
  <2>1. /\ rows' \subseteq RowRecord /\ \A r \in rows' : WellMade(r)
        /\ SlugsDiffer(rows')
    BY DEF RowsInv
  <2>2. \A t \in Session : SlugsDiffer(pending'[t]) /\ \A r \in pending'[t] : WellMade(r)
    BY <1>1 DEF RowsInv
  <2>3. QED
    BY <1>1, <2>1, <2>2 DEF RowsInv, SlugsDiffer, WellMade
<1>3. OnesOwn'
  <2>1. \A t \in Session : \A r \in pending'[t] : \A q \in rows : q.workspace # r.workspace
    BY <1>1 DEF OnesOwn, Free
  <2>2. \A t \in Session : \A r \in pending'[t] : \A u \in Session \ {t} :
          \A q \in pending'[u] : q.workspace # r.workspace
    BY <1>1 DEF OnesOwn, Free
  <2>3. QED
    BY <2>1, <2>2 DEF OnesOwn
<1>4. QED
  BY <1>1, <1>2, <1>3

-----------------------------------------------------------------------------
(* Every step keeps WholeInv. *)

LEMMA WholeInit ==
  ASSUME NoneIsNoWorkspace, Init
  PROVE  WholeInv
BY DEF Init, WholeInv, WorkInv, RowsInv, OnesOwn, PartsInv, SlugsDiffer, NoWork

LEMMA StartKeeps ==
  ASSUME NoneIsNoWorkspace, WholeInv, NEW s \in Session, NEW w \in Workspace, NEW base \in Slug,
         Start(s, w, base)
  PROVE  WholeInv'
<1> DEFINE ref == IF <<base>> \in Slugs(s) THEN <<base, w>> ELSE <<base>>
           new == Row(w, "workspace", ref)
           job == [workspace |-> w, next |-> 1, previous |-> scope[s]]
<1>1. /\ work[s] = NoWork /\ w \notin Taken
      /\ pending' = [pending EXCEPT ![s] = @ \cup {new}]
      /\ work' = [work EXCEPT ![s] = job]
      /\ scope' = [scope EXCEPT ![s] = w] /\ caller' = caller /\ rows' = rows
  BY DEF Start
<1>2. /\ Free(s, w)
      /\ \A r \in pending[s] : r.workspace # w
  BY <1>1 DEF Taken, Free
<1>3. ref \in {<<base>>, <<base, w>>} /\ ref \in Seq(Slug \cup Workspace)
  <2>1. <<base>> \in Seq(Slug \cup Workspace) /\ <<base, w>> \in Seq(Slug \cup Workspace)
    OBVIOUS
  <2>2. ref = <<base>> \/ ref = <<base, w>>
    OBVIOUS
  <2>3. QED
    BY <2>1, <2>2
<1>4. /\ new.workspace = w /\ new.kind = "workspace" /\ new.ref = ref
      /\ new \in RowRecord /\ WellMade(new)
  BY <1>3, StepFacts DEF Row, RowRecord, WellMade
<1>5. \A r \in pending[s] : r.kind = "workspace" => r.ref # ref
  <2>1. TAKE r \in pending[s]
  <2>2. HAVE r.kind = "workspace"
  <2>3. PICK b \in Slug : r.ref \in {<<b>>, <<b, r.workspace>>}
    BY <2>2 DEF WholeInv, RowsInv, WellMade
  <2>4. r.ref \in Slugs(s)
    BY <2>2 DEF Slugs
  <2>5. CASE <<base>> \in Slugs(s)
    BY <1>2, <2>3, <2>5
  <2>6. CASE <<base>> \notin Slugs(s)
    BY <2>4, <2>6
  <2>7. QED
    BY <2>5, <2>6
<1> HIDE DEF new, ref
<1>6. SlugsDiffer(pending[s] \cup {new})
  BY <1>4, <1>5 DEF SlugsDiffer, WholeInv, RowsInv
<1>7. /\ RowsInv' /\ OnesOwn' /\ pending'[s] = pending[s] \cup {new}
      /\ \A t \in Session \ {s} : pending'[t] = pending[t]
  <2>1. PICK N : N = {new}
    OBVIOUS
  <2>2. /\ N \in SUBSET RowRecord /\ \A r \in N : r.workspace = w /\ WellMade(r)
        /\ SlugsDiffer(pending[s] \cup N)
        /\ pending' = [pending EXCEPT ![s] = @ \cup N]
    BY <1>1, <1>4, <1>6, <2>1
  <2>3. /\ RowsInv' /\ OnesOwn' /\ pending'[s] = pending[s] \cup N
        /\ \A t \in Session \ {s} : pending'[t] = pending[t]
    BY <1>1, <1>2, <2>2, AddRows DEF WholeInv
  <2>4. QED
    BY <2>1, <2>3
<1>8. /\ job \in WorkRow /\ job # NoWork
      /\ job.workspace = w /\ job.next = 1 /\ job.previous = scope[s]
  BY StepFacts, NoneIsNoWorkspace DEF WholeInv, WorkInv, WorkRow, NoWork, NoneIsNoWorkspace
<1> HIDE DEF job
<1>9. work'[s] = job /\ \A t \in Session \ {s} : work'[t] = work[t]
  BY <1>1 DEF WholeInv, WorkInv
<1>10. WorkInv'
  <2>1. work' \in [Session -> WorkRow \cup {NoWork}]
    BY <1>1, <1>8 DEF WholeInv, WorkInv
  <2>2. scope' \in [Session -> Workspace \cup {None}] /\ caller' \in [Session -> Workspace \cup {None}]
    BY <1>1 DEF WholeInv, WorkInv
  <2>3. scope'[s] = w /\ \A t \in Session \ {s} : scope'[t] = scope[t]
    BY <1>1 DEF WholeInv, WorkInv
  <2>4. scope[s] = caller[s]
    BY <1>1 DEF WholeInv, WorkInv
  <2>5. \A t \in Session :
          /\ work'[t] = NoWork => scope'[t] = caller'[t]
          /\ work'[t] # NoWork => scope'[t] = work'[t].workspace /\ work'[t].previous = caller'[t]
    BY <1>1, <1>8, <1>9, <2>3, <2>4 DEF WholeInv, WorkInv
  <2>6. QED
    BY <2>1, <2>2, <2>5 DEF WorkInv
<1>11. PartsInv'
  <2>1. \A r \in rows' : KindsOf(rows', r.workspace) = Parts
    BY <1>1 DEF WholeInv, PartsInv
  <2>2. \A t \in Session \ {s} :
          /\ work'[t] # NoWork => KindsOf(pending'[t], work'[t].workspace) = PartsBefore(work'[t].next)
          /\ \A r \in pending'[t] :
               r.workspace # work'[t].workspace => KindsOf(pending'[t], r.workspace) = Parts
    BY <1>7, <1>9 DEF WholeInv, PartsInv
  <2>3. KindsOf(pending[s], w) = {}
    BY <1>2 DEF KindsOf
  <2>4. /\ KindsOf(pending[s] \cup {new}, w) = KindsOf(pending[s], w) \cup {"workspace"}
        /\ \A v : v # w => KindsOf(pending[s] \cup {new}, v) = KindsOf(pending[s], v)
    BY <1>4 DEF KindsOf
  <2>5. KindsOf(pending'[s], work'[s].workspace) = PartsBefore(work'[s].next)
    BY <1>7, <1>8, <1>9, <2>3, <2>4, PartsFacts
  <2>6. \A r \in pending[s] : KindsOf(pending[s], r.workspace) = Parts
    <3>1. \A r \in pending[s] : r.workspace \in Workspace
      BY DEF WholeInv, RowsInv, RowRecord
    <3>2. work[s].workspace = None
      BY <1>1 DEF NoWork
    <3>3. QED
      BY <3>1, <3>2 DEF WholeInv, PartsInv, NoneIsNoWorkspace
  <2>7. \A r \in pending'[s] :
          r.workspace # work'[s].workspace => KindsOf(pending'[s], r.workspace) = Parts
    BY <1>4, <1>7, <1>8, <1>9, <2>4, <2>6
  <2>8. QED
    BY <2>1, <2>2, <2>5, <2>7 DEF PartsInv
<1>12. QED
  BY <1>7, <1>10, <1>11 DEF WholeInv

(* Rows of one kind, that name no workspace's slug, added to the workspace   *)
(* being built: what a step and the owner have in common.                   *)
LEMMA AddToMine ==
  ASSUME NoneIsNoWorkspace, WholeInv, NEW s \in Session, work[s] # NoWork,
         NEW kind \in Parts \ {"workspace"}, NEW N \in SUBSET RowRecord, N # {},
         \A r \in N : r.workspace = work[s].workspace /\ r.kind = kind /\ WellMade(r),
         pending' = [pending EXCEPT ![s] = @ \cup N], rows' = rows
  PROVE  /\ RowsInv' /\ OnesOwn'
         /\ \A t \in Session \ {s} : pending'[t] = pending[t]
         /\ KindsOf(pending'[s], work[s].workspace) = PartsBefore(work[s].next) \cup {kind}
         /\ \A r \in pending'[s] :
              r.workspace # work[s].workspace => KindsOf(pending'[s], r.workspace) = Parts
<1>1. PICK w \in Workspace : w = work[s].workspace
  BY Mine DEF WorkRow
<1>2. /\ Free(s, w) /\ KindsOf(pending[s], w) = PartsBefore(work[s].next)
  BY <1>1, Mine
<1>3. SlugsDiffer(pending[s] \cup N) /\ \A r \in N : r.workspace = w /\ WellMade(r)
  BY <1>1 DEF SlugsDiffer, WholeInv, RowsInv
<1>4. /\ RowsInv' /\ OnesOwn' /\ pending'[s] = pending[s] \cup N
      /\ \A t \in Session \ {s} : pending'[t] = pending[t]
  BY <1>2, <1>3, AddRows, ZenonT(30) DEF WholeInv
<1>5. /\ KindsOf(pending[s] \cup N, w) = KindsOf(pending[s], w) \cup {kind}
      /\ \A v : v # w => KindsOf(pending[s] \cup N, v) = KindsOf(pending[s], v)
  BY <1>1 DEF KindsOf
<1>6. \A r \in pending'[s] :
        r.workspace # w => KindsOf(pending'[s], r.workspace) = Parts
  BY <1>1, <1>4, <1>5 DEF WholeInv, PartsInv
<1>7. QED
  BY <1>1, <1>2, <1>4, <1>5, <1>6

LEMMA RunStepKeeps ==
  ASSUME NoneIsNoWorkspace, WholeInv, NEW s \in Session, RunStep(s)
  PROVE  WholeInv'
<1>1. /\ work[s] # NoWork /\ work[s].next <= 6
      /\ pending' = [pending EXCEPT ![s] =
                       @ \cup StepRows(s, work[s].workspace, Steps[work[s].next])]
      /\ work' = [work EXCEPT ![s].next = @ + 1]
      /\ scope' = scope /\ caller' = caller /\ rows' = rows
  BY StepFacts DEF RunStep
<1>2. /\ work[s] \in WorkRow /\ scope[s] = work[s].workspace
      /\ KindsOf(pending[s], work[s].workspace) = PartsBefore(work[s].next)
  BY <1>1, Mine
<1>3. PICK w \in Workspace, n \in 1..6 : w = work[s].workspace /\ n = work[s].next
  BY <1>1, <1>2 DEF WorkRow
<1>4. PICK kind : kind = Steps[n]
  OBVIOUS
<1>5. kind \in Parts \ {"workspace"}
  BY <1>4, StepFacts
<1>6. PICK N : N = StepRows(s, w, kind)
  OBVIOUS
<1>7. /\ N \in SUBSET RowRecord /\ N # {}
      /\ \A r \in N : r.workspace = w /\ r.kind = kind /\ WellMade(r)
  <2>1. CASE kind = "field_grants"
    <3>1. n = 6
      <4>1. n = 1 \/ n = 2 \/ n = 3 \/ n = 4 \/ n = 5 \/ n = 6
        OBVIOUS
      <4>2. QED
        BY <1>4, <2>1, <4>1, StepFacts
    <3>2. /\ "permission_templates" \in KindsOf(pending[s], w)
          /\ "lead_fields" \in KindsOf(pending[s], w)
      BY <1>2, <1>3, <3>1, PartsFacts
    <3>3. PICK t \in Read(s, w, "permission_templates"), f \in Read(s, w, "lead_fields") : TRUE
      BY <1>2, <1>3, <3>2, KindsWitness DEF Read
    <3>4. N = {Row(w, kind, <<x.workspace, y.workspace>>) :
                 x \in Read(s, w, "permission_templates"), y \in Read(s, w, "lead_fields")}
      BY <1>6, <2>1 DEF StepRows
    <3>5. \A x \in Read(s, w, "permission_templates"), y \in Read(s, w, "lead_fields") :
            x.workspace = w /\ y.workspace = w
      BY DEF Read
    <3>6. PICK r : r = Row(w, kind, <<w, w>>)
      OBVIOUS
    <3>7. \A q \in N : q = r
      <4>1. TAKE q \in N
      <4>2. PICK x \in Read(s, w, "permission_templates"), y \in Read(s, w, "lead_fields") :
              q = Row(w, kind, <<x.workspace, y.workspace>>)
        BY <3>4
      <4>3. x.workspace = w /\ y.workspace = w
        BY <3>5
      <4>4. QED
        BY <3>6, <4>2, <4>3
    <3>8. Row(w, kind, <<t.workspace, f.workspace>>) \in N
      BY <3>3, <3>4
    <3>9. <<w, w>> \in Seq(Slug \cup Workspace)
      OBVIOUS
    <3>10. r \in RowRecord /\ r.workspace = w /\ r.kind = kind /\ WellMade(r)
      BY <1>5, <2>1, <3>6, <3>9 DEF Row, RowRecord, WellMade
    <3>11. QED
      BY <3>7, <3>8, <3>10
  <2>2. CASE kind # "field_grants"
    <3>1. PICK r : r = Row(w, kind, <<>>)
      OBVIOUS
    <3>2. N = {r}
      BY <1>6, <2>2, <3>1 DEF StepRows
    <3>3. <<>> \in Seq(Slug \cup Workspace)
      OBVIOUS
    <3>4. r \in RowRecord /\ r.workspace = w /\ r.kind = kind /\ WellMade(r)
      BY <1>5, <2>2, <3>1, <3>3 DEF Row, RowRecord, WellMade
    <3>5. QED
      BY <3>2, <3>4
  <2>3. QED
    BY <2>1, <2>2
<1>8. pending' = [pending EXCEPT ![s] = @ \cup N]
  BY <1>1, <1>3, <1>4, <1>6
<1>9. /\ RowsInv' /\ OnesOwn'
      /\ \A t \in Session \ {s} : pending'[t] = pending[t]
      /\ KindsOf(pending'[s], w) = PartsBefore(n) \cup {kind}
      /\ \A r \in pending'[s] : r.workspace # w => KindsOf(pending'[s], r.workspace) = Parts
  <2>1. work[s] # NoWork /\ rows' = rows
    BY <1>1
  <2>2. \A r \in N : r.workspace = work[s].workspace /\ r.kind = kind /\ WellMade(r)
    BY <1>3, <1>7
  <2>3. /\ RowsInv' /\ OnesOwn'
        /\ \A t \in Session \ {s} : pending'[t] = pending[t]
        /\ KindsOf(pending'[s], work[s].workspace) = PartsBefore(work[s].next) \cup {kind}
        /\ \A r \in pending'[s] :
             r.workspace # work[s].workspace => KindsOf(pending'[s], r.workspace) = Parts
    BY <1>5, <1>7, <1>8, <2>1, <2>2, AddToMine
  <2>4. QED
    BY <1>3, <2>3
<1>10. /\ work'[s] \in WorkRow /\ work'[s] # NoWork
       /\ work'[s].workspace = w /\ work'[s].next = n + 1
       /\ work'[s].previous = work[s].previous
       /\ \A t \in Session \ {s} : work'[t] = work[t]
       /\ work' \in [Session -> WorkRow \cup {NoWork}]
  <2>1. work \in [Session -> WorkRow \cup {NoWork}]
    BY DEF WholeInv, WorkInv
  <2>2. PICK j : j = [work[s] EXCEPT !.next = n + 1]
    OBVIOUS
  <2>3. work' = [work EXCEPT ![s] = j]
    BY <1>1, <1>3, <2>2
  <2>4. n + 1 \in 1..7 /\ Len(Steps) + 1 = 7
    BY StepFacts
  <2>5. j \in WorkRow /\ j.workspace = w /\ j.next = n + 1 /\ j.previous = work[s].previous
    BY <1>2, <1>3, <2>2, <2>4 DEF WorkRow
  <2>6. j # NoWork
    BY <2>5 DEF NoWork, NoneIsNoWorkspace
  <2>7. QED
    BY <2>1, <2>3, <2>5, <2>6
<1>11. WorkInv'
  <2>1. \A t \in Session :
          /\ work'[t] = NoWork => scope'[t] = caller'[t]
          /\ work'[t] # NoWork => scope'[t] = work'[t].workspace /\ work'[t].previous = caller'[t]
    BY <1>1, <1>2, <1>3, <1>10 DEF WholeInv, WorkInv
  <2>2. QED
    BY <1>1, <1>10, <2>1 DEF WholeInv, WorkInv
<1>12. PartsInv'
  <2>1. \A r \in rows' : KindsOf(rows', r.workspace) = Parts
    BY <1>1 DEF WholeInv, PartsInv
  <2>2. \A t \in Session \ {s} :
          /\ work'[t] # NoWork => KindsOf(pending'[t], work'[t].workspace) = PartsBefore(work'[t].next)
          /\ \A r \in pending'[t] :
               r.workspace # work'[t].workspace => KindsOf(pending'[t], r.workspace) = Parts
    BY <1>9, <1>10 DEF WholeInv, PartsInv
  <2>3. /\ KindsOf(pending'[s], work'[s].workspace) = PartsBefore(work'[s].next)
        /\ \A r \in pending'[s] :
             r.workspace # work'[s].workspace => KindsOf(pending'[s], r.workspace) = Parts
    BY <1>4, <1>9, <1>10, PartsFacts
  <2>4. QED
    BY <2>1, <2>2, <2>3 DEF PartsInv
<1>13. QED
  BY <1>9, <1>11, <1>12 DEF WholeInv

LEMMA FinishKeeps ==
  ASSUME NoneIsNoWorkspace, WholeInv, NEW s \in Session, Finish(s)
  PROVE  WholeInv'
<1>1. /\ work[s] # NoWork /\ work[s].next = 7
      /\ pending' = [pending EXCEPT ![s] = @ \cup {Row(work[s].workspace, "owner", <<>>)}]
      /\ scope' = [scope EXCEPT ![s] = work[s].previous]
      /\ work' = [work EXCEPT ![s] = NoWork] /\ caller' = caller /\ rows' = rows
  BY StepFacts DEF Finish, Built, PutBack
<1>2. PICK w \in Workspace : w = work[s].workspace
  BY <1>1, Mine DEF WorkRow
<1>3. PICK r : r = Row(w, "owner", <<>>)
  OBVIOUS
<1>4. PICK N : N = {r}
  OBVIOUS
<1>5. <<>> \in Seq(Slug \cup Workspace) /\ "owner" \in Parts \ {"workspace"}
  BY StepFacts
<1>6. r \in RowRecord /\ r.workspace = w /\ r.kind = "owner" /\ WellMade(r)
  BY <1>3, <1>5 DEF Row, RowRecord, WellMade
<1>7. /\ N \in SUBSET RowRecord /\ N # {}
      /\ \A q \in N : q.workspace = work[s].workspace /\ q.kind = "owner" /\ WellMade(q)
      /\ pending' = [pending EXCEPT ![s] = @ \cup N]
  BY <1>1, <1>2, <1>3, <1>4, <1>6
<1>8. /\ RowsInv' /\ OnesOwn'
      /\ \A t \in Session \ {s} : pending'[t] = pending[t]
      /\ KindsOf(pending'[s], work[s].workspace) = PartsBefore(work[s].next) \cup {"owner"}
      /\ \A q \in pending'[s] :
           q.workspace # work[s].workspace => KindsOf(pending'[s], q.workspace) = Parts
  <2>1. work[s] # NoWork /\ rows' = rows
    BY <1>1
  <2>2. QED
    BY <1>5, <1>7, <2>1, AddToMine
<1>9. \A q \in pending'[s] : KindsOf(pending'[s], q.workspace) = Parts
  BY <1>1, <1>8, PartsFacts
<1>10. work'[s] = NoWork /\ \A t \in Session \ {s} : work'[t] = work[t]
  BY <1>1 DEF WholeInv, WorkInv
<1>11. WorkInv'
  <2>1. work[s].previous = caller[s] /\ work[s] \in WorkRow
    BY <1>1, Mine DEF WholeInv, WorkInv
  <2>2. /\ work' \in [Session -> WorkRow \cup {NoWork}]
        /\ scope' \in [Session -> Workspace \cup {None}]
        /\ caller' \in [Session -> Workspace \cup {None}]
    BY <1>1, <2>1 DEF WholeInv, WorkInv, WorkRow
  <2>3. scope'[s] = caller[s] /\ \A t \in Session \ {s} : scope'[t] = scope[t]
    BY <1>1, <2>1 DEF WholeInv, WorkInv
  <2>4. \A t \in Session :
          /\ work'[t] = NoWork => scope'[t] = caller'[t]
          /\ work'[t] # NoWork => scope'[t] = work'[t].workspace /\ work'[t].previous = caller'[t]
    BY <1>1, <1>10, <2>3 DEF WholeInv, WorkInv
  <2>5. QED
    BY <2>2, <2>4 DEF WorkInv
<1>12. PartsInv'
  <2>1. \A q \in rows' : KindsOf(rows', q.workspace) = Parts
    BY <1>1 DEF WholeInv, PartsInv
  <2>2. \A t \in Session \ {s} :
          /\ work'[t] # NoWork => KindsOf(pending'[t], work'[t].workspace) = PartsBefore(work'[t].next)
          /\ \A q \in pending'[t] :
               q.workspace # work'[t].workspace => KindsOf(pending'[t], q.workspace) = Parts
    BY <1>8, <1>10 DEF WholeInv, PartsInv
  <2>3. QED
    BY <1>9, <1>10, <2>1, <2>2 DEF PartsInv
<1>13. QED
  BY <1>8, <1>11, <1>12 DEF WholeInv

(* With nothing being built, every workspace a session has flushed rows of   *)
(* is complete, and none of them is in the database yet.                    *)
LEMMA CommitKeeps ==
  ASSUME NoneIsNoWorkspace, WholeInv, NEW s \in Session, Commit(s)
  PROVE  WholeInv'
<1>1. /\ work[s] = NoWork /\ SlugsOf(pending[s]) \cap SlugsOf(rows) = {}
      /\ rows' = rows \cup pending[s] /\ pending' = [pending EXCEPT ![s] = {}]
      /\ scope' = scope /\ caller' = caller /\ work' = work
  BY DEF Commit
<1>2. /\ pending'[s] = {} /\ \A t \in Session \ {s} : pending'[t] = pending[t]
      /\ pending' \in [Session -> SUBSET RowRecord]
  BY <1>1 DEF WholeInv, RowsInv
<1>3. \A q \in pending[s] : KindsOf(pending[s], q.workspace) = Parts
  <2>1. \A q \in pending[s] : q.workspace \in Workspace
    BY DEF WholeInv, RowsInv, RowRecord
  <2>2. work[s].workspace = None
    BY <1>1 DEF NoWork
  <2>3. QED
    BY <2>1, <2>2 DEF WholeInv, PartsInv, NoneIsNoWorkspace
<1>4. WorkInv'
  BY <1>1 DEF WholeInv, WorkInv
<1>5. RowsInv'
  <2>1. rows' \subseteq RowRecord /\ \A r \in rows' : WellMade(r)
    BY <1>1 DEF WholeInv, RowsInv
  <2>2. SlugsDiffer(rows')
    <3>1. \A q \in rows, r \in pending[s] :
            q.kind = "workspace" /\ r.kind = "workspace" => q.ref # r.ref
      <4>1. TAKE q \in rows, r \in pending[s]
      <4>2. HAVE q.kind = "workspace" /\ r.kind = "workspace"
      <4>3. q.ref \in SlugsOf(rows) /\ r.ref \in SlugsOf(pending[s])
        BY <4>2 DEF SlugsOf
      <4>4. QED
        BY <1>1, <4>3
    <3>2. SlugsDiffer(rows) /\ SlugsDiffer(pending[s])
      BY DEF WholeInv, RowsInv
    <3>3. QED
      BY <1>1, <3>1, <3>2 DEF SlugsDiffer
  <2>3. \A t \in Session : SlugsDiffer(pending'[t]) /\ \A r \in pending'[t] : WellMade(r)
    BY <1>2 DEF WholeInv, RowsInv, SlugsDiffer
  <2>4. QED
    BY <1>2, <2>1, <2>2, <2>3 DEF RowsInv, SlugsDiffer, WellMade
<1>6. OnesOwn'
  BY <1>1, <1>2 DEF WholeInv, OnesOwn
<1>7. PartsInv'
  <2>1. \A r \in rows' : KindsOf(rows', r.workspace) = Parts
    <3>1. \A r \in rows : KindsOf(rows', r.workspace) = KindsOf(rows, r.workspace)
      BY <1>1 DEF WholeInv, OnesOwn, KindsOf
    <3>2. \A r \in pending[s] : KindsOf(rows', r.workspace) = KindsOf(pending[s], r.workspace)
      BY <1>1 DEF WholeInv, OnesOwn, KindsOf
    <3>3. QED
      BY <1>1, <1>3, <3>1, <3>2 DEF WholeInv, PartsInv
  <2>2. \A t \in Session :
          /\ work'[t] # NoWork => KindsOf(pending'[t], work'[t].workspace) = PartsBefore(work'[t].next)
          /\ \A r \in pending'[t] :
               r.workspace # work'[t].workspace => KindsOf(pending'[t], r.workspace) = Parts
    BY <1>1, <1>2 DEF WholeInv, PartsInv
  <2>3. QED
    BY <2>1, <2>2 DEF PartsInv
<1>8. QED
  BY <1>4, <1>5, <1>6, <1>7 DEF WholeInv

(* A failed session forgets all it flushed, and reads where it read before.  *)
LEMMA FailKeeps ==
  ASSUME NoneIsNoWorkspace, WholeInv, NEW s \in Session, Fail(s)
  PROVE  WholeInv'
<1>1. /\ pending' = [pending EXCEPT ![s] = {}]
      /\ scope' = IF work[s] = NoWork THEN scope ELSE [scope EXCEPT ![s] = work[s].previous]
      /\ work' = [work EXCEPT ![s] = NoWork] /\ caller' = caller /\ rows' = rows
  BY DEF Fail, PutBack
<1>2. /\ pending'[s] = {} /\ \A t \in Session \ {s} : pending'[t] = pending[t]
      /\ pending' \in [Session -> SUBSET RowRecord]
  BY <1>1 DEF WholeInv, RowsInv
<1>3. work'[s] = NoWork /\ \A t \in Session \ {s} : work'[t] = work[t]
  BY <1>1 DEF WholeInv, WorkInv
<1>4. scope'[s] = caller[s] /\ \A t \in Session \ {s} : scope'[t] = scope[t]
  BY <1>1 DEF WholeInv, WorkInv
<1>5. WorkInv'
  <2>1. scope' \in [Session -> Workspace \cup {None}]
    <3>1. CASE work[s] = NoWork
      BY <1>1, <3>1 DEF WholeInv, WorkInv
    <3>2. CASE work[s] # NoWork
      BY <1>1, <3>2, Mine DEF WholeInv, WorkInv, WorkRow
    <3>3. QED
      BY <3>1, <3>2
  <2>2. work' \in [Session -> WorkRow \cup {NoWork}]
    BY <1>1 DEF WholeInv, WorkInv
  <2>3. \A t \in Session :
          /\ work'[t] = NoWork => scope'[t] = caller'[t]
          /\ work'[t] # NoWork => scope'[t] = work'[t].workspace /\ work'[t].previous = caller'[t]
    BY <1>1, <1>3, <1>4 DEF WholeInv, WorkInv
  <2>4. QED
    BY <1>1, <2>1, <2>2, <2>3 DEF WholeInv, WorkInv
<1>6. RowsInv'
  <2>1. \A t \in Session : SlugsDiffer(pending'[t]) /\ \A r \in pending'[t] : WellMade(r)
    BY <1>2 DEF WholeInv, RowsInv, SlugsDiffer
  <2>2. QED
    BY <1>1, <1>2, <2>1 DEF WholeInv, RowsInv, SlugsDiffer, WellMade
<1>7. OnesOwn'
  BY <1>1, <1>2 DEF WholeInv, OnesOwn
<1>8. PartsInv'
  BY <1>1, <1>2, <1>3 DEF WholeInv, PartsInv
<1>9. QED
  BY <1>5, <1>6, <1>7, <1>8 DEF WholeInv

LEMMA OpenKeeps ==
  ASSUME NoneIsNoWorkspace, WholeInv, NEW s \in Session, NEW w \in Workspace, Open(s, w)
  PROVE  WholeInv'
<1>1. /\ work[s] = NoWork
      /\ scope' = [scope EXCEPT ![s] = w] /\ caller' = [caller EXCEPT ![s] = w]
      /\ rows' = rows /\ pending' = pending /\ work' = work
  BY DEF Open
<1>2. WorkInv'
  BY <1>1 DEF WholeInv, WorkInv
<1>3. RowsInv' /\ OnesOwn' /\ PartsInv'
  BY <1>1 DEF WholeInv, RowsInv, OnesOwn, PartsInv, WellMade, SlugsDiffer
<1>4. QED
  BY <1>2, <1>3 DEF WholeInv

LEMMA WholeInductive ==
  ASSUME NoneIsNoWorkspace, WholeInv, [Next]_vars
  PROVE  WholeInv'
<1>1. CASE Next
  <2>1. PICK s \in Session :
          \/ RunStep(s) \/ Finish(s) \/ Commit(s) \/ Fail(s)
          \/ \E w \in Workspace : Open(s, w) \/ \E base \in Slug : Start(s, w, base)
    BY <1>1 DEF Next
  <2>2. QED
    BY <2>1, RunStepKeeps, FinishKeeps, CommitKeeps, FailKeeps, OpenKeeps, StartKeeps
<1>2. CASE UNCHANGED vars
  BY <1>2 DEF vars, WholeInv, WorkInv, RowsInv, OnesOwn, PartsInv, WellMade, SlugsDiffer
<1>3. QED
  BY <1>1, <1>2

(* The strengthening WholeInv is an invariant of the specification. *)
THEOREM WholeAlways ==
  ASSUME NoneIsNoWorkspace
  PROVE  Spec => []WholeInv
<1>1. Init => WholeInv
  BY WholeInit
<1>2. WholeInv /\ [Next]_vars => WholeInv'
  BY WholeInductive
<1>3. QED
  BY <1>1, <1>2, PTL DEF Spec

(* Type correctness: scopes name workspaces, a provisioning is at one of its *)
(* steps, and what is committed is a workspace's and of a known kind.        *)
THEOREM ProvisioningTypeCorrect ==
  ASSUME NoneIsNoWorkspace
  PROVE  Spec => []TypeOK
<1>1. ASSUME WholeInv
      PROVE  TypeOK
  <2>1. \A s \in Session : scope[s] \in Workspace \cup {None}
    BY <1>1 DEF WholeInv, WorkInv
  <2>2. \A s \in Session : work[s].next \in 0..(Len(Steps) + 1)
    <3>1. TAKE s \in Session
    <3>2. CASE work[s] = NoWork
      BY <3>2, StepFacts DEF NoWork
    <3>3. CASE work[s] # NoWork
      <4>1. work[s] \in WorkRow
        BY <1>1, <3>3 DEF WholeInv, WorkInv
      <4>2. work[s].next \in 1..7
        BY <4>1, StepFacts DEF WorkRow
      <4>3. QED
        BY <4>2, StepFacts
    <3>4. QED
      BY <3>2, <3>3
  <2>3. \A r \in rows : r.workspace \in Workspace /\ r.kind \in Parts
    BY <1>1 DEF WholeInv, RowsInv, RowRecord
  <2>4. QED
    BY <2>1, <2>2, <2>3 DEF TypeOK
<1>2. QED
  BY <1>1, WholeAlways, PTL

(* Every committed workspace has all its parts, its own grants and a slug    *)
(* nobody else has, whatever sessions built it beside others or failed half  *)
(* way, and a session that has done provisioning reads where its owner left  *)
(* it.                                                                      *)
THEOREM Whole ==
  ASSUME NoneIsNoWorkspace
  PROVE  Spec => []WorkspaceWhole
<1>1. ASSUME WholeInv
      PROVE  WorkspaceWhole
  <2>1. \A w \in {r.workspace : r \in rows} :
          /\ {r.kind : r \in {x \in rows : x.workspace = w}} = Parts
          /\ \A r \in rows : r.workspace = w /\ r.kind = "field_grants" => r.ref = <<w, w>>
    <3>1. TAKE w \in {r.workspace : r \in rows}
    <3>2. KindsOf(rows, w) = Parts
      BY <1>1, <3>1 DEF WholeInv, PartsInv
    <3>3. \A r \in rows : r.workspace = w /\ r.kind = "field_grants" => r.ref = <<w, w>>
      BY <1>1 DEF WholeInv, RowsInv, WellMade
    <3>4. QED
      BY <3>2, <3>3 DEF KindsOf
  <2>2. \A q, r \in rows : q.kind = "workspace" /\ r.kind = "workspace" /\ q.ref = r.ref => q = r
    BY <1>1 DEF WholeInv, RowsInv, SlugsDiffer
  <2>3. \A s \in Session :
          /\ work[s] = NoWork => scope[s] = caller[s]
          /\ Built(s) => Read(s, work[s].workspace, "permission_templates") # {}
    <3>1. TAKE s \in Session
    <3>2. work[s] = NoWork => scope[s] = caller[s]
      BY <1>1 DEF WholeInv, WorkInv
    <3>3. ASSUME Built(s)
          PROVE  Read(s, work[s].workspace, "permission_templates") # {}
      <4>1. /\ scope[s] = work[s].workspace
            /\ "permission_templates" \in KindsOf(pending[s], work[s].workspace)
        BY <1>1, <3>3, Mine, StepFacts, PartsFacts DEF Built
      <4>2. QED
        BY <4>1, KindsWitness DEF Read
    <3>4. QED
      BY <3>2, <3>3
  <2>4. QED
    BY <2>1, <2>2, <2>3 DEF WorkspaceWhole
<1>2. QED
  BY <1>1, WholeAlways, PTL

-----------------------------------------------------------------------------
(* Work: the timeline tells of the tasks. *)

Entries == Task \X {"TASK_CREATED", "TASK_COMPLETED"}

(* The entries that say a task was completed, one entry later. *)
LEMMA EntryAdds ==
  ASSUME timeline \in Seq(Entries), NEW e \in Entries, timeline' = Append(timeline, e), NEW t
  PROVE  /\ timeline' \in Seq(Entries)
         /\ Completions(t)' = IF e = <<t, "TASK_COMPLETED">>
                              THEN Completions(t) \cup {Len(timeline) + 1} ELSE Completions(t)
<1>1. /\ Len(timeline) \in Nat /\ DOMAIN timeline = 1 .. Len(timeline)
      /\ timeline' \in Seq(Entries) /\ Len(timeline') = Len(timeline) + 1
      /\ \A n \in 1 .. Len(timeline) : timeline'[n] = timeline[n]
      /\ timeline'[Len(timeline) + 1] = e
  OBVIOUS
<1>2. DOMAIN timeline' = DOMAIN timeline \cup {Len(timeline) + 1}
  BY <1>1
<1>3. QED
  BY <1>1, <1>2 DEF Completions

LEMMA EntriesCounted ==
  ASSUME timeline \in Seq(Entries), NEW t
  PROVE  /\ Cardinality(Completions(t)) \in Nat
         /\ Cardinality(Completions(t) \cup {Len(timeline) + 1}) = Cardinality(Completions(t)) + 1
<1>1. Len(timeline) \in Nat /\ DOMAIN timeline = 1 .. Len(timeline)
  OBVIOUS
<1>2. Completions(t) \subseteq 1 .. Len(timeline) /\ Len(timeline) + 1 \notin Completions(t)
  BY <1>1 DEF Completions
<1>3. IsFiniteSet(Completions(t))
  <2>1. IsFiniteSet(1 .. Len(timeline))
    <3>1. 1 \in Int /\ Len(timeline) \in Int
      BY <1>1
    <3>2. QED
      BY <3>1, FS_Interval
  <2>2. QED
    BY <1>2, <2>1, FS_Subset
<1>4. QED
  BY <1>2, <1>3, FS_CardinalityType, FS_AddElement

(* Steps that leave the tasks alone. *)
LEMMA TasksKept ==
  ASSUME TasksInv, UNCHANGED <<tasks, timeline, reopened>>, late \subseteq late',
         now' \in 0 .. MaxNow
  PROVE  TasksInv'
<1>1. \A t : Completions(t)' = Completions(t)
  BY DEF Completions
<1>2. \A t \in DOMAIN tasks : Told(t) => Told(t)'
  BY <1>1 DEF Told
<1>3. QED
  BY <1>1, <1>2 DEF TasksInv

(* Steps that leave the labels alone. *)
LEMMA LabelsKept ==
  ASSUME LabelsInv, UNCHANGED <<labels, worn>>, late \subseteq late'
  PROVE  LabelsInv'
BY DEF LabelsInv

(* One request begins or ends; no row disappears. *)
LEMMA RequestsKept ==
  ASSUME RequestsInv, NEW q \in Request, NEW r, Decided(r),
         request' = [request EXCEPT ![q] = r] \/ request' = request,
         DOMAIN tasks \subseteq DOMAIN tasks', DOMAIN labels \subseteq DOMAIN labels'
  PROVE  RequestsInv'
<1>1. request' = [k \in Request |-> request'[k]] /\ \A k \in Request : request'[k] \in {request[k], r}
  BY DEF RequestsInv
<1>2. \A k \in Request : Decided(request'[k])
  BY <1>1 DEF RequestsInv
<1>3. \A k \in Request : Decided(request[k])'
  BY <1>2 DEF Decided
<1>4. QED
  BY <1>1, <1>3 DEF RequestsInv

LEMMA NothingDecided == WorkAssumption => Decided(NoRequest)
BY DEF WorkAssumption, Decided, NoRequest

(* No request moves. *)
LEMMA RequestsStay ==
  ASSUME WorkAssumption, RequestsInv, UNCHANGED request,
         DOMAIN tasks \subseteq DOMAIN tasks', DOMAIN labels \subseteq DOMAIN labels'
  PROVE  RequestsInv'
<1>1. \A q \in Request : Decided(request[q])'
  BY DEF RequestsInv, Decided
<1>2. QED
  BY <1>1 DEF RequestsInv

LEMMA CreateTaskKeeps ==
  ASSUME WorkAssumption, TimelineInv, NEW t \in Task, NEW lead \in Lead \cup {Nil},
         NEW m \in Member \cup {Nil}, CreateTask(t, lead, m, now)
  PROVE  TimelineInv'
<1>1. /\ t \notin DOMAIN tasks /\ DOMAIN tasks' = DOMAIN tasks \cup {t}
      /\ tasks' = [k \in DOMAIN tasks' |-> tasks'[k]]
      /\ tasks'[t] = [lead |-> lead, assignee |-> m, due |-> now, by |-> Nil]
      /\ \A k \in DOMAIN tasks : tasks'[k] = tasks[k]
      /\ UNCHANGED <<deleted, labels, worn, request, reopened, late, now>>
  BY DEF CreateTask
<1>2. timeline' = timeline \/ timeline' = Append(timeline, <<t, "TASK_CREATED">>)
  BY DEF CreateTask, Record
<1>3. /\ timeline \in Seq(Entries) /\ <<t, "TASK_CREATED">> \in Entries
      /\ \A k : <<t, "TASK_CREATED">> # <<k, "TASK_COMPLETED">>
  BY DEF TimelineInv, TasksInv, Entries
<1>4. timeline' \in Seq(Entries) /\ \A k : Completions(k)' = Completions(k)
  <2>1. CASE timeline' = timeline
    BY <1>3, <2>1 DEF Completions
  <2>2. CASE timeline' = Append(timeline, <<t, "TASK_CREATED">>)
    BY <1>3, <2>2, EntryAdds
  <2>3. QED
    BY <1>2, <2>1, <2>2
<1>5. tasks'[t] \in TaskRow
  BY <1>1 DEF TaskRow, TimelineInv, TasksInv
<1>6. ASSUME NEW k \in DOMAIN tasks' \ late, tasks'[k].lead # Nil
      PROVE  Told(k)'
  <2>1. CASE k = t
    <3>1. Completions(t)' = {} /\ reopened'[t] = 0 /\ tasks'[t].by = Nil
      BY <1>1, <1>4 DEF TimelineInv, TasksInv
    <3>2. QED
      BY <2>1, <3>1, FS_EmptySet DEF Told
  <2>2. CASE k # t
    <3>1. k \in DOMAIN tasks /\ tasks'[k] = tasks[k] /\ Told(k)
      BY <1>1, <1>6, <2>2 DEF TimelineInv, TasksInv
    <3>2. QED
      BY <1>1, <1>4, <3>1 DEF Told
  <2>3. QED
    BY <2>1, <2>2
<1>7. TasksInv'
  BY <1>1, <1>4, <1>5, <1>6 DEF TimelineInv, TasksInv, Entries
<1>8. LabelsInv' /\ RequestsInv'
  BY <1>1, LabelsKept, RequestsStay DEF TimelineInv
<1>9. QED
  BY <1>7, <1>8 DEF TimelineInv

LEMMA BeginTaskKeeps ==
  ASSUME WorkAssumption, TimelineInv, NEW q \in Request, NEW op \in {"complete", "update"},
         NEW who \in Member, NEW t \in Task, BeginTask(q, op, who, t)
  PROVE  TimelineInv'
<1>1. Decided([op |-> op, who |-> who, item |-> t, lead |-> Nil, name |-> Nil,
               seen |-> tasks[t].by])
  BY DEF BeginTask, Visible, Unfinished, Decided
<1>2. UNCHANGED <<tasks, timeline, labels, worn, reopened, late, now>>
  BY DEF BeginTask
<1>3. RequestsInv'
  BY <1>1, <1>2, RequestsKept DEF BeginTask, TimelineInv
<1>4. QED
  BY <1>2, <1>3, TasksKept, LabelsKept DEF TimelineInv, TasksInv

LEMMA CommitCompleteKeeps ==
  ASSUME WorkAssumption, TimelineInv, NEW q \in Request, CommitComplete(q)
  PROVE  TimelineInv'
<1>0. PICK t, who : t = request[q].item /\ who = request[q].who
  OBVIOUS
<1>1. t \in DOMAIN tasks /\ t \in Task /\ who \in Member /\ request[q].seen = Nil
  BY <1>0 DEF CommitComplete, TimelineInv, RequestsInv, Decided, TasksInv
<1>2. /\ tasks' = [tasks EXCEPT ![t].by = who]
      /\ late' = IF tasks[t].by # Nil THEN late \cup {t} ELSE late
      /\ request' = [request EXCEPT ![q] = NoRequest]
      /\ timeline' = IF tasks[t].lead = Nil THEN timeline
                     ELSE Append(timeline, <<t, "TASK_COMPLETED">>)
      /\ UNCHANGED <<labels, worn, reopened, now>>
  BY <1>0, <1>1 DEF CommitComplete, Record
<1>3. /\ DOMAIN tasks' = DOMAIN tasks /\ tasks' = [k \in DOMAIN tasks' |-> tasks'[k]]
      /\ tasks'[t] \in TaskRow /\ tasks'[t].by = who /\ tasks'[t].lead = tasks[t].lead
      /\ \A k \in DOMAIN tasks \ {t} : tasks'[k] = tasks[k]
  <2>1. tasks \in [DOMAIN tasks -> TaskRow]
    BY DEF TimelineInv, TasksInv
  <2>2. tasks' = [tasks EXCEPT ![t] = [tasks[t] EXCEPT !.by = who]]
    BY <1>1, <1>2, <2>1
  <2>3. /\ [tasks[t] EXCEPT !.by = who] \in TaskRow /\ [tasks[t] EXCEPT !.by = who].by = who
        /\ [tasks[t] EXCEPT !.by = who].lead = tasks[t].lead
    BY <1>1, <2>1 DEF TaskRow
  <2>4. QED
    BY <1>1, <2>1, <2>2, <2>3
<1>4. timeline \in Seq(Entries) /\ <<t, "TASK_COMPLETED">> \in Entries
  BY <1>1 DEF TimelineInv, TasksInv, Entries
<1>5. /\ timeline' \in Seq(Entries)
      /\ \A k : k # t => Completions(k)' = Completions(k)
      /\ tasks[t].lead # Nil => Completions(t)' = Completions(t) \cup {Len(timeline) + 1}
  <2>1. CASE tasks[t].lead = Nil
    BY <1>2, <1>4, <2>1 DEF Completions
  <2>2. CASE tasks[t].lead # Nil
    <3>1. timeline' = Append(timeline, <<t, "TASK_COMPLETED">>)
      BY <1>2, <2>2
    <3>2. \A k : Completions(k)' = IF <<t, "TASK_COMPLETED">> = <<k, "TASK_COMPLETED">>
                                  THEN Completions(k) \cup {Len(timeline) + 1}
                                  ELSE Completions(k)
      BY <1>4, <3>1, EntryAdds
    <3>3. \A k : k # t => <<t, "TASK_COMPLETED">> # <<k, "TASK_COMPLETED">>
      OBVIOUS
    <3>4. timeline' \in Seq(Entries)
      BY <1>4, <3>1, EntryAdds
    <3>5. QED
      BY <3>2, <3>3, <3>4
  <2>3. QED
    BY <2>1, <2>2
<1>6. ASSUME NEW k \in DOMAIN tasks' \ late', tasks'[k].lead # Nil
      PROVE  Told(k)'
  <2>1. CASE k = t
    <3>1. tasks[t].by = Nil /\ t \notin late /\ tasks[t].lead # Nil
      BY <1>2, <1>3, <1>6, <2>1
    <3>2. Cardinality(Completions(t)) = reopened[t]
      BY <1>1, <3>1 DEF TimelineInv, TasksInv, Told
    <3>3. Cardinality(Completions(t)') = reopened[t] + 1
      BY <1>4, <1>5, <3>1, <3>2, EntriesCounted
    <3>4. tasks'[t].by # Nil /\ reopened'[t] = reopened[t]
      BY <1>1, <1>2, <1>3 DEF WorkAssumption
    <3>5. Cardinality(Completions(k)') = reopened[k] + 1 /\ reopened'[k] = reopened[k]
          /\ tasks'[k].by # Nil
      BY <2>1, <3>3, <3>4
    <3>6. QED
      BY <3>5 DEF Told
  <2>2. CASE k # t
    <3>1. Told(k) /\ tasks'[k] = tasks[k] /\ Completions(k)' = Completions(k)
      BY <1>2, <1>3, <1>5, <1>6, <2>2 DEF TimelineInv, TasksInv
    <3>2. QED
      BY <1>2, <3>1 DEF Told
  <2>3. QED
    BY <2>1, <2>2
<1>7. TasksInv'
  <2>1. \A k \in Task \ DOMAIN tasks' : Completions(k)' = {} /\ reopened'[k] = 0
    BY <1>1, <1>2, <1>3, <1>5 DEF TimelineInv, TasksInv
  <2>2. tasks' \in [DOMAIN tasks' -> TaskRow]
    BY <1>3 DEF TimelineInv, TasksInv
  <2>3. QED
    BY <1>2, <1>3, <1>5, <1>6, <2>1, <2>2 DEF TimelineInv, TasksInv, Entries
<1>8. LabelsInv'
  BY <1>2, LabelsKept DEF TimelineInv
<1>9. RequestsInv'
  BY <1>2, <1>3, NothingDecided, RequestsKept DEF TimelineInv
<1>10. QED
  BY <1>7, <1>8, <1>9 DEF TimelineInv

(* An edit of a task that leaves its lead and its completion alone, or a reopening. *)
LEMMA TaskRewritten ==
  ASSUME TimelineInv, NEW t \in DOMAIN tasks, NEW row \in TaskRow, tasks' = [tasks EXCEPT ![t] = row],
         row.lead = tasks[t].lead, UNCHANGED <<timeline, late, now>>, reopened' \in [Task -> Nat],
         \A k \in Task \ {t} : reopened'[k] = reopened[k],
         reopened'[t] + (IF row.by # Nil THEN 1 ELSE 0)
           = reopened[t] + (IF tasks[t].by # Nil THEN 1 ELSE 0)
  PROVE  TasksInv' /\ DOMAIN tasks' = DOMAIN tasks
<1>1. /\ DOMAIN tasks' = DOMAIN tasks /\ tasks' \in [DOMAIN tasks' -> TaskRow]
      /\ tasks'[t] = row /\ \A k \in DOMAIN tasks \ {t} : tasks'[k] = tasks[k]
      /\ t \in Task /\ DOMAIN tasks \subseteq Task
  BY DEF TimelineInv, TasksInv
<1>2. \A k : Completions(k)' = Completions(k)
  BY DEF Completions
<1>3. ASSUME NEW k \in DOMAIN tasks' \ late, tasks'[k].lead # Nil
      PROVE  Told(k)'
  <2>1. Told(k)
    BY <1>1, <1>3 DEF TimelineInv, TasksInv
  <2>2. CASE k = t
    BY <1>1, <1>2, <2>1, <2>2 DEF Told
  <2>3. CASE k # t
    BY <1>1, <1>2, <2>1, <2>3 DEF Told
  <2>4. QED
    BY <2>2, <2>3
<1>4. QED
  BY <1>1, <1>2, <1>3 DEF TimelineInv, TasksInv

LEMMA CommitUpdateKeeps ==
  ASSUME WorkAssumption, TimelineInv, NEW q \in Request, NEW m \in Member \cup {Nil},
         NEW due \in 0 .. MaxNow, CommitUpdate(q, m, due)
  PROVE  TimelineInv'
<1> DEFINE t == request[q].item
<1>1. /\ t \in DOMAIN tasks /\ tasks \in [DOMAIN tasks -> TaskRow]
      /\ tasks' = [tasks EXCEPT ![t].assignee = m, ![t].due = due]
      /\ request' = [request EXCEPT ![q] = NoRequest]
      /\ UNCHANGED <<timeline, labels, worn, reopened, late, now>>
  BY DEF CommitUpdate, TimelineInv, RequestsInv, Decided, TasksInv
<1> HIDE DEF t
<1>2. PICK row : row = [[tasks[t] EXCEPT !.assignee = m] EXCEPT !.due = due]
  OBVIOUS
<1>3. row \in TaskRow /\ row.lead = tasks[t].lead /\ row.by = tasks[t].by
  BY <1>1, <1>2 DEF TaskRow
<1>4. tasks' = [tasks EXCEPT ![t] = row]
  BY <1>1, <1>2
<1>5. reopened' \in [Task -> Nat]
  BY <1>1 DEF TimelineInv, TasksInv
<1>6. TasksInv' /\ DOMAIN tasks' = DOMAIN tasks
  BY <1>1, <1>3, <1>4, <1>5, TaskRewritten
<1>7. LabelsInv' /\ RequestsInv'
  BY <1>1, <1>6, LabelsKept, NothingDecided, RequestsKept DEF TimelineInv
<1>8. QED
  BY <1>6, <1>7 DEF TimelineInv

LEMMA ReopenTaskKeeps ==
  ASSUME WorkAssumption, TimelineInv, NEW t \in Task, NEW who \in Member, ReopenTask(who, t)
  PROVE  TimelineInv'
<1>1. /\ t \in DOMAIN tasks /\ tasks \in [DOMAIN tasks -> TaskRow]
      /\ tasks' = [tasks EXCEPT ![t].by = Nil] /\ reopened \in [Task -> Nat]
      /\ reopened' = [reopened EXCEPT ![t] = IF tasks[t].by # Nil THEN @ + 1 ELSE @]
      /\ UNCHANGED <<timeline, labels, worn, request, late, now>>
  BY DEF ReopenTask, Visible, TimelineInv, TasksInv
<1>2. PICK row : row = [tasks[t] EXCEPT !.by = Nil]
  OBVIOUS
<1>3. row \in TaskRow /\ row.lead = tasks[t].lead /\ row.by = Nil
  BY <1>1, <1>2 DEF TaskRow
<1>4. tasks' = [tasks EXCEPT ![t] = row]
  BY <1>1, <1>2
<1>5. /\ reopened' \in [Task -> Nat] /\ \A k \in Task \ {t} : reopened'[k] = reopened[k]
      /\ reopened'[t] + (IF row.by # Nil THEN 1 ELSE 0)
           = reopened[t] + (IF tasks[t].by # Nil THEN 1 ELSE 0)
  BY <1>1, <1>3
<1>6. TasksInv' /\ DOMAIN tasks' = DOMAIN tasks
  BY <1>1, <1>3, <1>4, <1>5, TaskRewritten
<1>7. LabelsInv' /\ RequestsInv'
  BY <1>1, <1>6, LabelsKept, RequestsStay DEF TimelineInv
<1>8. QED
  BY <1>6, <1>7 DEF TimelineInv

LEMMA BeginLabelKeeps ==
  ASSUME WorkAssumption, TimelineInv, NEW q \in Request, NEW l \in Label,
         \/ \E name \in Name : BeginName(q, l, name)
         \/ \E lead \in Lead : BeginAttach(q, lead, l)
  PROVE  TimelineInv'
<1>1. UNCHANGED <<tasks, timeline, labels, worn, reopened, late, now>>
  BY DEF BeginName, BeginAttach
<1>2. RequestsInv'
  <2>1. ASSUME NEW name \in Name, BeginName(q, l, name)
        PROVE  RequestsInv'
    <3>1. Decided([op |-> "name", who |-> Nil, item |-> l, lead |-> Nil, name |-> name,
                   seen |-> OtherNames(l)])
      BY <2>1 DEF BeginName, SameName, Decided
    <3>2. QED
      BY <1>1, <2>1, <3>1, RequestsKept DEF BeginName, TimelineInv
  <2>2. ASSUME NEW lead \in Lead, BeginAttach(q, lead, l)
        PROVE  RequestsInv'
    <3>1. Decided([op |-> "attach", who |-> Nil, item |-> l, lead |-> lead, name |-> Nil,
                   seen |-> Nil])
      BY <2>2 DEF BeginAttach, Decided
    <3>2. QED
      BY <1>1, <2>2, <3>1, RequestsKept DEF BeginAttach, TimelineInv
  <2>3. QED
    BY <2>1, <2>2
<1>3. QED
  BY <1>1, <1>2, TasksKept, LabelsKept DEF TimelineInv, TasksInv

LEMMA CommitNameKeeps ==
  ASSUME WorkAssumption, TimelineInv, NEW q \in Request, CommitName(q)
  PROVE  TimelineInv'
<1> DEFINE l == request[q].item
           name == request[q].name
           seen == request[q].seen
<1>1. /\ l \in Label /\ name \in Name /\ \A n \in seen : Folded[n] # Folded[name]
      /\ request' = [request EXCEPT ![q] = NoRequest]
      /\ UNCHANGED <<tasks, timeline, worn, reopened, now>>
  BY DEF CommitName, TimelineInv, RequestsInv, Decided
<1>2. /\ DOMAIN labels' = DOMAIN labels \cup {l} /\ labels' = [k \in DOMAIN labels' |-> labels'[k]]
      /\ \A k \in DOMAIN labels \ {l} : labels'[k] = labels[k]
      /\ labels'[l] \in [name : Name, archived : BOOLEAN] /\ labels'[l].name = name
  <2>1. labels' = [k \in DOMAIN labels \cup {l} |->
                     IF k # l THEN labels[k]
                     ELSE [name |-> name, archived |-> k \in DOMAIN labels /\ labels[k].archived]]
    BY DEF CommitName
  <2>2. (l \in DOMAIN labels /\ labels[l].archived) \in BOOLEAN
    BY DEF TimelineInv, LabelsInv
  <2> HIDE DEF l, name
  <2>3. QED
    BY <1>1, <2>1, <2>2
<1>3. late' = IF \E n \in OtherNames(l) \ seen : Folded[n] = Folded[name] THEN late \cup {l}
              ELSE late
  BY DEF CommitName
<1> HIDE DEF l, name, seen
<1>4. ASSUME NEW k \in DOMAIN labels \ {l}, l \notin late'
      PROVE  Folded[labels[k].name] # Folded[name]
  <2>1. labels[k].name \in OtherNames(l)
    BY DEF OtherNames
  <2>2. QED
    BY <1>1, <1>3, <1>4, <2>1
<1>5. ASSUME NEW j \in DOMAIN labels', NEW k \in DOMAIN labels', j # k, {j, k} \cap late' = {}
      PROVE  Folded[labels'[j].name] # Folded[labels'[k].name]
  <2>1. CASE j = l
    BY <1>2, <1>4, <1>5, <2>1
  <2>2. CASE k = l
    BY <1>2, <1>4, <1>5, <2>2
  <2>3. CASE j # l /\ k # l
    BY <1>2, <1>3, <1>5, <2>3 DEF TimelineInv, LabelsInv
  <2>4. QED
    BY <2>1, <2>2, <2>3
<1>6. LabelsInv'
  BY <1>1, <1>2, <1>5 DEF TimelineInv, LabelsInv
<1>7. TasksInv' /\ RequestsInv'
  BY <1>1, <1>2, <1>3, TasksKept, NothingDecided, RequestsKept DEF TimelineInv, TasksInv
<1>8. QED
  BY <1>6, <1>7 DEF TimelineInv

LEMMA LabelEditKeeps ==
  ASSUME WorkAssumption, TimelineInv, NEW l \in Label,
         ArchiveLabel(l) \/ \E lead \in Lead : Detach(lead, l)
  PROVE  TimelineInv'
<1>1. UNCHANGED <<tasks, timeline, request, reopened, late, now>>
  BY DEF ArchiveLabel, Detach
<1>2. LabelsInv' /\ DOMAIN labels' = DOMAIN labels
  <2>1. CASE ArchiveLabel(l)
    <3>1. /\ l \in DOMAIN labels /\ labels \in [DOMAIN labels -> [name : Name, archived : BOOLEAN]]
          /\ labels' = [labels EXCEPT ![l].archived = TRUE] /\ worn' = worn
      BY <2>1 DEF ArchiveLabel, TimelineInv, LabelsInv
    <3>2. labels' = [labels EXCEPT ![l] = [labels[l] EXCEPT !.archived = TRUE]]
      BY <3>1
    <3>3. /\ [labels[l] EXCEPT !.archived = TRUE] \in [name : Name, archived : BOOLEAN]
          /\ [labels[l] EXCEPT !.archived = TRUE].name = labels[l].name
      BY <3>1
    <3>4. /\ labels' \in [DOMAIN labels -> [name : Name, archived : BOOLEAN]]
          /\ \A k \in DOMAIN labels : labels'[k].name = labels[k].name
      BY <3>1, <3>2, <3>3
    <3>5. QED
      BY <1>1, <3>1, <3>4 DEF TimelineInv, LabelsInv
  <2>2. CASE \E lead \in Lead : Detach(lead, l)
    BY <1>1, <2>2 DEF Detach, TimelineInv, LabelsInv
  <2>3. QED
    BY <2>1, <2>2
<1>3. QED
  BY <1>1, <1>2, TasksKept, RequestsStay DEF TimelineInv, TasksInv

LEMMA CommitAttachKeeps ==
  ASSUME WorkAssumption, TimelineInv, NEW q \in Request, CommitAttach(q)
  PROVE  TimelineInv'
<1>1. /\ UNCHANGED <<tasks, timeline, labels, reopened, late, now>>
      /\ request[q].item \in DOMAIN labels /\ request[q].lead \in Lead
      /\ worn' = worn \cup {<<request[q].lead, request[q].item>>}
      /\ request' = [request EXCEPT ![q] = NoRequest]
  BY DEF CommitAttach, TimelineInv, RequestsInv, Decided
<1>2. LabelsInv'
  BY <1>1 DEF TimelineInv, LabelsInv
<1>3. QED
  BY <1>1, <1>2, TasksKept, NothingDecided, RequestsKept DEF TimelineInv, TasksInv

LEMMA ElsewhereKeeps ==
  ASSUME WorkAssumption, TimelineInv,
         \/ \E q \in Request : Abort(q)
         \/ \E lead \in Lead : DeleteOrRestore(lead)
         \/ Tick
         \/ UNCHANGED workVars
  PROVE  TimelineInv'
<1>1. UNCHANGED <<tasks, timeline, labels, worn, reopened, late>>
  BY DEF Abort, DeleteOrRestore, Tick, workVars
<1>2. now' \in 0 .. MaxNow
  BY DEF Abort, DeleteOrRestore, Tick, workVars, TimelineInv, TasksInv, WorkAssumption
<1>3. RequestsInv'
  <2>1. CASE request' = request
    BY <1>1, <2>1, RequestsStay DEF TimelineInv
  <2>2. ASSUME NEW q \in Request, Abort(q)
        PROVE  RequestsInv'
    BY <1>1, <2>2, NothingDecided, RequestsKept DEF Abort, TimelineInv
  <2>3. QED
    BY <2>1, <2>2 DEF DeleteOrRestore, Tick, workVars
<1>4. QED
  BY <1>1, <1>2, <1>3, TasksKept, LabelsKept DEF TimelineInv

LEMMA WorkBegins ==
  ASSUME WorkAssumption, WorkInit
  PROVE  TimelineInv
<1>1. DOMAIN tasks = {} /\ DOMAIN labels = {} /\ \A t : Completions(t) = {}
  BY DEF WorkInit, Completions
<1>2. TasksInv
  BY <1>1 DEF WorkInit, TasksInv, WorkAssumption
<1>3. LabelsInv
  BY <1>1 DEF WorkInit, LabelsInv
<1>4. RequestsInv
  BY NothingDecided DEF WorkInit, RequestsInv
<1>5. QED
  BY <1>2, <1>3, <1>4 DEF TimelineInv

LEMMA WorkAlways ==
  ASSUME WorkAssumption PROVE WorkSpec => []TimelineInv
<1>1. WorkInit => TimelineInv
  BY WorkBegins
<1>2. TimelineInv /\ [WorkNext]_workVars => TimelineInv'
  <2> SUFFICES ASSUME TimelineInv, [WorkNext]_workVars
               PROVE  TimelineInv'
    OBVIOUS
  <2>1. CASE \E t \in Task, lead \in Lead \cup {Nil}, m \in Member \cup {Nil} :
               CreateTask(t, lead, m, now)
    BY <2>1, CreateTaskKeeps
  <2>2. CASE \E t \in Task, who \in Member : ReopenTask(who, t)
    BY <2>2, ReopenTaskKeeps
  <2>3. CASE \E q \in Request :
               \/ CommitComplete(q) \/ CommitName(q) \/ CommitAttach(q)
               \/ \E t \in Task, who \in Member, op \in {"complete", "update"} :
                    BeginTask(q, op, who, t)
               \/ \E m \in Member \cup {Nil}, due \in 0 .. MaxNow : CommitUpdate(q, m, due)
               \/ \E l \in Label, name \in Name : BeginName(q, l, name)
               \/ \E l \in Label, lead \in Lead : BeginAttach(q, lead, l)
    BY <2>3, CommitCompleteKeeps, CommitNameKeeps, CommitAttachKeeps, BeginTaskKeeps,
       CommitUpdateKeeps, BeginLabelKeeps
  <2>4. CASE \E l \in Label : ArchiveLabel(l) \/ \E lead \in Lead : Detach(lead, l)
    BY <2>4, LabelEditKeeps
  <2>5. CASE \/ \E q \in Request : Abort(q)
             \/ \E lead \in Lead : DeleteOrRestore(lead)
             \/ Tick
             \/ UNCHANGED workVars
    BY <2>5, ElsewhereKeeps
  <2>6. QED
    BY <2>1, <2>2, <2>3, <2>4, <2>5 DEF WorkNext
<1>3. QED
  BY <1>1, <1>2, PTL DEF WorkSpec

(* Every task and label row is of members and leads there are, and nothing *)
(* is attached that does not exist, for any overlapping requests.          *)
THEOREM WorkTypeCorrect ==
  ASSUME WorkAssumption PROVE WorkSpec => []WorkTypeOK
<1>1. ASSUME TimelineInv PROVE WorkTypeOK
  <2>1. \A t \in DOMAIN tasks : t \in Task /\ tasks[t] \in TaskRow
    BY <1>1 DEF TimelineInv, TasksInv
  <2>2. QED
    BY <1>1, <2>1 DEF TimelineInv, TasksInv, LabelsInv, WorkTypeOK, TaskRow
<1>2. QED
  BY <1>1, WorkAlways, PTL

(* For any tasks, leads, members and overlapping requests: the timeline    *)
(* tells how often a task was completed, every visible task is in one of   *)
(* the three lists, and no two labels differ in case alone, but for what   *)
(* was decided by a row that changed meanwhile.                            *)
THEOREM TimelineTells ==
  ASSUME WorkAssumption PROVE WorkSpec => []TimelineTellsTasks
<1>1. ASSUME TimelineInv PROVE TimelineTellsTasks
  <2>1. ASSUME NEW who \in Member
        PROVE  UNION {Listed(who, b) : b \in {"done", "late", "upcoming"}}
                 = {t \in Task : Visible(who, t)}
    <3>1. \A t : Bucket(t) \in {"done", "late", "upcoming"}
      BY DEF Bucket
    <3>2. QED
      BY <3>1 DEF Listed
  <2>2. QED
    BY <1>1, <2>1 DEF TimelineInv, TasksInv, LabelsInv, TimelineTellsTasks
<1>2. QED
  BY <1>1, WorkAlways, PTL
=============================================================================
