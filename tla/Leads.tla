------------------------------- MODULE Leads --------------------------------
(***************************************************************************)
(* Leads, their timeline and undo: services/leads.py, services/actions.py, *)
(* services/undo.py, the merge of services/exporting.py, the transfer of   *)
(* services/lead_ownership.py and the lead intake of events/intake.py.     *)
(*                                                                         *)
(* Every request is one database transaction in two steps: it reads the    *)
(* rows it needs and computes what it will write (Begin...), then commits  *)
(* (Commit) or is rolled back (Abort).  The database runs READ COMMITTED   *)
(* and nothing locks a lead, so other requests may commit in between; with *)
(* one Request the module is the program used by one person at a time.     *)
(***************************************************************************)
EXTENDS Integers, Sequences, FiniteSets, FiniteSetsExt,
        UnitOfWork

CONSTANTS
  Lead,           \* lead rows that may come to exist
  Field,          \* keys of the workspace's lead fields
  IdentityField,  \* the field the workspace identifies leads by
  Identity,       \* values of that field
  Stage,          \* pipeline stages,
  InitialStage,   \*   the one new leads get,
  LostStage,      \*   those of kind LOST,
  ClosedStage,    \*   those of kind WON or LOST,
  ArchivedStage,  \*   and the archived ones
  Member,         \* memberships
  Viewers,        \* what a caller may see: sets of members, Member is all
  DefaultReason,  \* the default lost reason, or None
  Patch,          \* bodies of edit requests: functions from targets to values
  Score,          \* scores of the workspace's custom action types
  None,           \* SQL NULL, and a JSON key that is not there
  Request,        \* requests that may be open at the same time
  MaxChangesets   \* bound: changesets ever opened

ASSUME SchemaAssumption ==
  /\ IsFiniteSet(Lead)
  /\ IdentityField \in Field
  /\ Field \cap {"stage", "assignee", "rating"} = {}
  /\ LostStage \subseteq ClosedStage /\ ClosedStage \subseteq Stage
  /\ ArchivedStage \subseteq Stage /\ InitialStage \in Stage \cup {None}
  /\ Score \subseteq Int
  /\ MaxChangesets \in Nat

VARIABLES
  lead,        \* the committed lead rows
  timeline,    \* actions in commit order, one entry per lead and changeset
  overtook,    \* for each entry of the timeline the earlier ones about its
               \*   lead that performed_at, stamped ahead of the commit, puts
               \*   after it
  changesets,  \* the edit report
  txn,         \* what each open request read and will write
  born,        \* history, for the properties: each lead as it was created,
  merged       \*   and the leads other leads were folded into

vars == <<lead, timeline, overtook, changesets, txn, born, merged>>

(* What an undo can put back: one JSON key, or one column. *)
Columns == {"stage", "assignee", "rating"}
Target == Field \cup Columns
Get(row, t) == IF t \in Field THEN row.values[t] ELSE row[t]

Blank == [exists |-> FALSE, deleted |-> FALSE, ident |-> None,
          values |-> [f \in Field |-> None], stage |-> None, reason |-> None,
          assignee |-> None, rating |-> None, score |-> 0]

NoTxn == [open |-> FALSE, read |-> <<>>, write |-> <<>>,
          entries |-> <<>>, opens |-> FALSE, undoes |-> 0, viewers |-> Member,
          rejected |-> FALSE, moved |-> {}, since |-> 0]

(* Every live or deleted lead has an identity and values for all fields, and *)
(* every entry of the timeline is about an existing lead and a changeset of  *)
(* the edit report that undoes nothing later than itself.                    *)
TypeOK ==
  /\ DOMAIN overtook = DOMAIN timeline
  /\ \A i \in DOMAIN overtook : overtook[i] \subseteq 1 .. (i - 1)
  /\ \A l \in Lead :
       /\ DOMAIN lead[l] = DOMAIN Blank
       /\ lead[l].exists \in BOOLEAN /\ lead[l].deleted \in BOOLEAN
       /\ lead[l].ident \in Identity \cup {None}
       /\ lead[l].ident = None <=> ~lead[l].exists
       /\ DOMAIN lead[l].values = Field
       /\ lead[l].stage \in Stage \cup {None}
       /\ lead[l].assignee \in Member \cup {None}
       /\ lead[l].score \in Int
  /\ \A i \in DOMAIN timeline :
       /\ timeline[i].cs \in DOMAIN changesets
       /\ lead[timeline[i].lead].exists
       /\ DOMAIN timeline[i].from = DOMAIN timeline[i].to
       /\ DOMAIN timeline[i].to \subseteq Target
  /\ \A c \in DOMAIN changesets :
       /\ changesets[c].undone \in BOOLEAN
       /\ changesets[c].undoOf \in 0 .. (c - 1)
  /\ merged \subseteq Lead

Init ==
  /\ lead = [l \in Lead |-> Blank]
  /\ timeline = <<>>
  /\ overtook = <<>>
  /\ changesets = <<>>
  /\ txn = [r \in Request |-> NoTxn]
  /\ born = lead
  /\ merged = {}

-----------------------------------------------------------------------------
(* Reading. *)
Live(l) == lead[l].exists /\ ~lead[l].deleted

IdentityFree(i) == \A l \in Lead : Live(l) => lead[l].ident # i

(* lead_visibility_clause: an unassigned lead is visible to everyone. *)
Visible(l, viewers) ==
  viewers = Member \/ lead[l].assignee \in viewers \cup {None}

(* The orders in which the program may walk over a set of leads. *)
Orders(S) ==
  {s \in [1 .. Cardinality(S) -> S] : \A i, j \in DOMAIN s : s[i] = s[j] => i = j}

(* Writing.  ActionWriter's actions about one lead, as one entry. *)
At(row, T) == [t \in T |-> Get(row, t)]
Entry(l, from, to, score) ==
  [lead |-> l, from |-> from, to |-> to, score |-> score]

(* An edit records what it changed ... *)
Edited(l, old, new) ==
  LET T == {t \in Target : Get(old, t) # Get(new, t)}
  IN Entry(l, At(old, T), At(new, T), 0)

(* ... and nothing of a row it did not change. *)
Changed(S, new) == {l \in S : \E t \in Target : Get(lead[l], t) # Get(new[l], t)}

(* A request that turns the rows of S into new and opens a changeset. *)
Staged(S, new, entries) ==
  [NoTxn EXCEPT !.open = TRUE, !.opens = TRUE, !.entries = entries,
                !.read = [l \in S |-> lead[l]], !.write = new,
                !.since = Len(changesets)]

(* The same when rows of S are edited by one batch: order is the order in    *)
(* which it comes to those it changes.                                      *)
Batch(S, new, order) ==
  Staged(S, new, [i \in DOMAIN order |->
                    Edited(order[i], lead[order[i]], new[order[i]])])

OpenRequests == {q \in Request : txn[q].open}

Begin(r, staged) ==
  /\ ~txn[r].open
  /\ Len(changesets) + Cardinality(OpenRequests) < MaxChangesets
  /\ txn' = [txn EXCEPT ![r] = staged]
  /\ UNCHANGED <<lead, timeline, overtook, changesets, born, merged>>

-----------------------------------------------------------------------------
(* LeadService.create_lead, from the form, an import or the intake.  The    *)
(* assignee is named in the request or found by the assignment rules.       *)
BeginCreate(r, l, p, member) ==
  LET identity == p[IdentityField]
      row == [Blank EXCEPT
                !.exists = TRUE,
                !.ident = identity,
                !.values = [f \in Field |-> IF f \in DOMAIN p THEN p[f] ELSE None],
                !.stage = IF "stage" \in DOMAIN p THEN p["stage"] ELSE InitialStage,
                !.assignee = member,
                !.rating = IF "rating" \in DOMAIN p THEN p["rating"] ELSE None]
  IN /\ ~lead[l].exists
     /\ \A q \in Request : l \notin DOMAIN txn[q].write
     /\ IdentityField \in DOMAIN p /\ identity # None
     /\ IdentityFree(identity)
     /\ row.stage \notin ArchivedStage
     /\ Begin(r, Staged({l}, [k \in {l} |-> row],
                        IF member = None THEN <<>>
                        ELSE <<Entry(l, At(Blank, {"assignee"}),
                                     At(row, {"assignee"}), 0)>>))

(* What _apply_update makes of a row: first the values and the identity ... *)
ValuesPatched(row, p) ==
  [row EXCEPT
     !.values = [f \in Field |-> IF f \in DOMAIN p THEN p[f] ELSE row.values[f]],
     !.ident = IF IdentityField \in DOMAIN p /\ p[IdentityField] # None
               THEN p[IdentityField] ELSE row.ident]

StageMoves(row, p) == "stage" \in DOMAIN p /\ p["stage"] # row.stage

(* _resolve_lost_reason: entering LOST requires a reason, leaving clears it. *)
ReasonFor(p) ==
  IF p["stage"] \notin LostStage THEN None
  ELSE IF "reason" \in DOMAIN p THEN p["reason"] ELSE DefaultReason

(* Mutant: the stage moves without its lost reason. *)
PatchedReasonKept(row, p) ==
  [ValuesPatched(row, p) EXCEPT
     !.stage = IF StageMoves(row, p) THEN p["stage"] ELSE @,
     !.assignee = IF "assignee" \in DOMAIN p THEN p["assignee"] ELSE @,
     !.rating = IF "rating" \in DOMAIN p THEN p["rating"] ELSE @]

(* ... then the stage with its lost reason, the assignee and the rating.    *)
Patched(row, p) ==
  [ValuesPatched(row, p) EXCEPT
     !.stage = IF StageMoves(row, p) THEN p["stage"] ELSE @,
     !.reason = IF StageMoves(row, p) THEN ReasonFor(p) ELSE @,
     !.assignee = IF "assignee" \in DOMAIN p THEN p["assignee"] ELSE @,
     !.rating = IF "rating" \in DOMAIN p THEN p["rating"] ELSE @]

(* Mutant: an edit does not look for a duplicate. *)
IdentityUnchecked(row, p) == FALSE

IdentityTaken(row, p) ==
  LET i == ValuesPatched(row, p).ident IN i # row.ident /\ ~IdentityFree(i)

StageRefused(row, p) ==
  /\ StageMoves(row, p)
  /\ \/ p["stage"] \in ArchivedStage
     \/ p["stage"] \in LostStage /\ ReasonFor(p) = None

Accepted(row, p) == ~IdentityTaken(row, p) /\ ~StageRefused(row, p)

(* update_lead (one lead) and bulk_update (all of them or none).            *)
BeginUpdate(r, S, p) ==
  LET new == [l \in S |-> Patched(lead[l], p)]
  IN /\ S # {}
     /\ \A l \in S : Live(l) /\ Accepted(lead[l], p)
     /\ \E order \in Orders(Changed(S, new)) : Begin(r, Batch(S, new, order))

(* ingest_lead on an identity that exists, in the UPDATE mode.  A refusal is *)
(* logged with a commit, which keeps what was assigned before the refusal:   *)
(* the stage comes after the values and their actions.                       *)
BeginIntake(r, l, p) ==
  /\ Live(l)
  /\ IdentityField \in DOMAIN p /\ p[IdentityField] = lead[l].ident
  /\ \A f \in Field \cap DOMAIN p : p[f] # None
  /\ LET refused == StageRefused(lead[l], p)
         row == IF refused THEN ValuesPatched(lead[l], p)
                ELSE Patched(lead[l], p)
         new == [k \in {l} |-> row]
     IN \E order \in Orders(Changed({l}, new)) :
          Begin(r, [Batch({l}, new, order) EXCEPT !.rejected = refused])

(* soft_delete: no changeset, no action. *)
BeginDelete(r, l) ==
  /\ Live(l)
  /\ Begin(r, [Staged({l}, [k \in {l} |-> [lead[l] EXCEPT !.deleted = TRUE]], <<>>)
                 EXCEPT !.opens = FALSE])

(* A custom action; notes, calls and messages are those that score nothing. *)
BeginLog(r, l, score) ==
  LET row == [lead[l] EXCEPT !.score = @ + score]
  IN /\ Live(l)
     /\ Begin(r, Staged({l}, [k \in {l} |-> row],
                        <<Entry(l, At(row, {}), At(row, {}), score)>>))

(* ExportService.merge of one lead into another: the timeline as it stands  *)
(* moves (an UPDATE sent at once), values fill blanks, scores add up, the   *)
(* other is soft-deleted.                                                   *)
BeginMerge(r, primary, other) ==
  LET filled ==
        [lead[primary] EXCEPT
           !.values = [f \in Field |-> IF @[f] = None THEN lead[other].values[f]
                                       ELSE @[f]],
           !.score = @ + lead[other].score]
      gone == [lead[other] EXCEPT !.deleted = TRUE]
      new == [l \in {primary, other} |-> IF l = primary THEN filled ELSE gone]
  IN /\ primary # other
     /\ Live(primary) /\ Live(other)
     /\ \E order \in Orders(Changed({primary, other}, new)) :
          Begin(r, [Batch({primary, other}, new, order)
                      EXCEPT !.moved = {[from |-> other, to |-> primary,
                                         upto |-> Len(timeline)]}])

(* reassign_open_leads, when a member is deactivated.  A lead without a     *)
(* stage is open.                                                           *)
OpenLeadsOf(m) ==
  {l \in Lead : Live(l) /\ lead[l].assignee = m /\ lead[l].stage \notin ClosedStage}

BeginReassign(r, leaver, successor) ==
  LET S == OpenLeadsOf(leaver)
      new == [l \in S |-> [lead[l] EXCEPT !.assignee = successor]]
  IN /\ leaver # successor
     /\ S # {}
     /\ \E order \in Orders(Changed(S, new)) : Begin(r, Batch(S, new, order))

-----------------------------------------------------------------------------
(* Undo.  The actions of a changeset about a lead, and what they touched.   *)
EntriesOf(c, l) ==
  {i \in DOMAIN timeline : timeline[i].cs = c /\ timeline[i].lead = l}

Touched(c, l) == UNION {DOMAIN timeline[i].to : i \in EntriesOf(c, l)}

(* _plan_for: back to what the first action found, if the value is still    *)
(* what the last one left.                                                  *)
About(t, I) == {i \in I : t \in DOMAIN timeline[i].to}
RevertTo(c, l, t) == timeline[Min(About(t, EntriesOf(c, l)))].from[t]
Expected(c, l, t) == timeline[Max(About(t, EntriesOf(c, l)))].to[t]

(* Mutant: a lead conflicts only when everything changed since. *)
ConflictedThroughout(c, l) ==
  \A t \in Touched(c, l) : Get(lead[l], t) # Expected(c, l, t)

Conflicted(c, l) ==
  \E t \in Touched(c, l) : Get(lead[l], t) # Expected(c, l, t)

(* preview_undo: leads the caller cannot see are left out of the plan.      *)
Planned(c, viewers) ==
  {l \in Lead : Touched(c, l) # {} /\ Visible(l, viewers)}
Reversible(c, viewers) ==
  {l \in Planned(c, viewers) : ~lead[l].deleted /\ ~Conflicted(c, l)}


(* Mutant: the assignee is no target of its own. *)
PlanWithoutAssignee(c, l) ==
  [t \in Touched(c, l) \ {"assignee"} |-> RevertTo(c, l, t)]

Plan(c, l) == [t \in Touched(c, l) |-> RevertTo(c, l, t)]

(* Mutant: "if revert_to" instead of "if revert_to is None". *)
RevertedTruthy(row, plan) ==
  LET back(t, current) == IF t \in DOMAIN plan /\ plan[t] # None THEN plan[t]
                          ELSE current
  IN [row EXCEPT !.values = [f \in Field |-> back(f, row.values[f])],
                 !.stage = back("stage", @),
                 !.assignee = back("assignee", @),
                 !.rating = back("rating", @)]

(* The row with every target of the changeset put back, and nothing else:   *)
(* the identity and the lost reason stay as they are.                       *)
Reverted(row, plan) ==
  LET back(t, current) == IF t \in DOMAIN plan THEN plan[t] ELSE current
  IN [row EXCEPT !.values = [f \in Field |-> back(f, row.values[f])],
                 !.stage = back("stage", @),
                 !.assignee = back("assignee", @),
                 !.rating = back("rating", @)]

BeginUndo(r, c, viewers, skipConflicts) ==
  LET S == Reversible(c, viewers)
      new == [l \in S |-> Reverted(lead[l], Plan(c, l))]
  IN /\ ~changesets[c].undone
     /\ S # {}
     /\ \/ skipConflicts
        \/ \A l \in Planned(c, viewers) : lead[l].deleted \/ ~Conflicted(c, l)
     /\ \E order \in Orders(S) :
          Begin(r, [Staged(S, new, [i \in DOMAIN order |->
                              LET l == order[i]
                              IN Entry(l, At(lead[l], Touched(c, l)), Plan(c, l), 0)])
                      EXCEPT !.undoes = c, !.viewers = viewers])

-----------------------------------------------------------------------------
(* Mutants of the commit: whole rows written back, the timeline left behind *)
(* by a merge, and an undo that marks nothing.                              *)
FlushWholeRow(stored, read, write) == write
MovedNowhere(entries, moved) == entries
MarkedNowhere(report, c) == report

(* The flush of one row: the values are one JSON column. *)
Flush(stored, read, write) ==
  [column \in DOMAIN Blank |->
     Column(stored[column], read[column], write[column])]

Flushed(l, t) ==
  IF l \in DOMAIN t.write THEN Flush(lead[l], t.read[l], t.write[l]) ELSE lead[l]

(* leads_identity_uq. *)
Clash(rows, k, l) ==
  /\ k # l
  /\ rows[k].exists /\ ~rows[k].deleted
  /\ rows[l].exists /\ ~rows[l].deleted
  /\ rows[k].ident = rows[l].ident

UniqueIdentities(rows) == \A k, l \in Lead : ~Clash(rows, k, l)

Moved(entries, moved) ==
  [i \in DOMAIN entries |->
     [entries[i] EXCEPT !.lead =
        LET M == {m \in moved : m.from = @ /\ i <= m.upto}
        IN IF M = {} THEN @ ELSE (CHOOSE m \in M : TRUE).to]]

(* An undo marks what it undid. *)
Marked(report, c) ==
  [i \in DOMAIN report |-> IF i = c THEN [report[i] EXCEPT !.undone = TRUE]
                           ELSE report[i]]

(* ActionWriter._append stamps an action when it queues it, so performed_at *)
(* may put an entry about a lead ahead of any that were committed since the *)
(* request began, with all that come after those.                           *)
Meanwhile(t, l) ==
  {i \in DOMAIN timeline : timeline[i].cs > t.since /\ timeline[i].lead = l}

Before(i, j) == IF i < j THEN i \notin overtook[j] ELSE j \in overtook[i]

Overtaking(t, l) ==
  {S \in SUBSET Meanwhile(t, l) :
     \A i \in S, j \in Meanwhile(t, l) : Before(i, j) => j \in S}

Stamps(t) ==
  {s \in [DOMAIN t.entries -> SUBSET {i \in DOMAIN timeline : timeline[i].cs > t.since}] :
     \A k \in DOMAIN s : s[k] \in Overtaking(t, t.entries[k].lead)}

Commit(r) ==
  LET t == txn[r]
      n == Len(changesets) + 1
  IN /\ t.open
     /\ lead' = [l \in Lead |-> Flushed(l, t)]
     /\ UniqueIdentities(lead')
     /\ timeline' = Moved(timeline, t.moved) \o
                      [i \in DOMAIN t.entries |->
                         [cs |-> n, lead |-> t.entries[i].lead,
                          from |-> t.entries[i].from, to |-> t.entries[i].to,
                          score |-> t.entries[i].score]]
     /\ \E stamps \in Stamps(t) : overtook' = overtook \o stamps
     /\ changesets' = Marked(changesets, t.undoes) \o
          (IF ~t.opens THEN <<>>
           ELSE <<[undone |-> FALSE, undoOf |-> t.undoes,
                   rejected |-> t.rejected, viewers |-> t.viewers,
                   was |-> [l \in DOMAIN t.write |-> lead[l]],
                   left |-> [l \in DOMAIN t.write |-> lead'[l]]]>>)
     /\ born' = [l \in Lead |-> IF lead[l].exists THEN born[l] ELSE lead'[l]]
     /\ merged' = merged \cup {m.to : m \in t.moved}
     /\ txn' = [txn EXCEPT ![r] = NoTxn]

(* The index refuses the commit, or the request fails before it. *)
Abort(r) ==
  /\ txn[r].open
  /\ txn' = [txn EXCEPT ![r] = NoTxn]
  /\ UNCHANGED <<lead, timeline, overtook, changesets, born, merged>>

-----------------------------------------------------------------------------
Edit(r) ==
  \/ \E l \in Lead, p \in Patch, m \in Member \cup {None} : BeginCreate(r, l, p, m)
  \/ \E S \in SUBSET Lead, p \in Patch : BeginUpdate(r, S, p)
  \/ \E l \in Lead, p \in Patch : BeginIntake(r, l, p)
  \/ \E l \in Lead : BeginDelete(r, l)
  \/ \E l \in Lead, s \in Score : BeginLog(r, l, s)
  \/ \E k, l \in Lead : BeginMerge(r, k, l)
  \/ \E m, n \in Member : BeginReassign(r, m, n)

Undo(r) ==
  \E c \in DOMAIN changesets, viewers \in Viewers, skip \in BOOLEAN :
    BeginUndo(r, c, viewers, skip)

Next == \E r \in Request : Edit(r) \/ Undo(r) \/ Commit(r) \/ Abort(r)

Spec == Init /\ [][Next]_vars
-----------------------------------------------------------------------------
(* Properties. *)

(* What the timeline says a target is: the action about it that performed_at *)
(* puts last (LeadService.list_actions), or what the lead was created with.  *)
Telling(l, t) ==
  {i \in DOMAIN timeline : timeline[i].lead = l /\ t \in DOMAIN timeline[i].to}

Said(l, t) ==
  LET I == Telling(l, t)
      last == CHOOSE i \in I : \A j \in I \ {i} : Before(j, i)
  IN IF I = {} THEN Get(born[l], t) ELSE timeline[last].to[t]

(* Nobody stamped a later action about it than the last to commit.          *)
InOrder(l, t) ==
  LET I == Telling(l, t)
  IN I # {} => overtook[Max(I)] \cap I = {}

(* What the actions of a lead's timeline scored, together. *)
Rollup(actions, l) ==
  MapThenSumSet(LAMBDA i : actions[i].score,
                {i \in DOMAIN actions : actions[i].lead = l})

Undone(c) == ~changesets[c].undone /\ changesets'[c].undone

(* "The timeline can never diverge from the data it describes" (leads.py):  *)
(* for the stage, the assignee and the rating, whatever the interleaving of *)
(* requests.  Two exceptions: a lead that inherited another one's timeline, *)
(* and a column whose last writer overlapped another and committed after it *)
(* though it had stamped its action first.                                  *)
ColumnsMatchTimeline ==
  \A l \in Lead \ merged, t \in Columns :
    Live(l) /\ InOrder(l, t) => lead[l][t] = Said(l, t)

(* The same for the lead's own fields. *)
ValuesMatchTimeline ==
  \A l \in Lead \ merged, f \in Field :
    Live(l) /\ InOrder(l, f) => lead[l].values[f] = Said(l, f)

(* leads.score is the sum of what the actions of the lead's timeline        *)
(* applied, through edits, undos and merges.                                *)
ScoreIsRollup ==
  \A l \in Lead : Live(l) => lead[l].score = Rollup(timeline, l)

(* Undo is exact: a lead it changes had, for everything the changeset set,  *)
(* the value the changeset left, and gets the value from before it; the     *)
(* leads it does not change it leaves alone altogether.                     *)
UndoIsExact ==
  [][\A c \in DOMAIN changesets, l \in Lead \ merged :
       Undone(c) /\ lead'[l] # lead[l] =>
         \A t \in Touched(c, l) :
           /\ Get(lead[l], t) = Get(changesets[c].left[l], t)
           /\ Get(lead'[l], t) = Get(changesets[c].was[l], t)]_vars

(* A batch nobody touched since is fully undone: after an undo, by somebody *)
(* who sees every lead, each lead of the changeset is back or was changed   *)
(* or deleted after the changeset.                                          *)
BatchFullyUndone ==
  [][\A c \in DOMAIN changesets, l \in Lead \ merged :
       /\ Undone(c) /\ changesets'[Len(changesets')].viewers = Member
       /\ Touched(c, l) # {}
       =>
         \/ lead[l].deleted
         \/ \E t \in Touched(c, l) :
              Get(lead[l], t) # Get(changesets[c].left[l], t)
         \/ \A t \in Touched(c, l) :
              Get(lead'[l], t) = Get(changesets[c].was[l], t)]_vars

(* A changeset is undone once, and is marked as undone only by an undo.     *)
UndoneOnce ==
  \A c \in DOMAIN changesets :
    Cardinality({d \in DOMAIN changesets : changesets[d].undoOf = c}) =
      IF changesets[c].undone THEN 1 ELSE 0

(* Entering LOST requires a reason and leaving it clears the reason, as     *)
(* long as the last stage change was an edit rather than an undo.           *)
ReasonFollowsEdits ==
  \A l \in Lead \ merged :
    LET I == Telling(l, "stage")
    IN I # {} /\ changesets[timeline[Max(I)].cs].undoOf = 0 =>
         (lead[l].reason # None <=> lead[l].stage \in LostStage)

(* A lead that is not in LOST carries no lost reason: one that kept it      *)
(* "would show up in 'why we lose deals' forever" (leads.py).               *)
ReopenedHasNoReason ==
  \A l \in Lead :
    lead[l].reason # None => lead[l].stage \in LostStage

(* What a changeset gave an identity to. *)
Took(c, l, i) ==
  /\ l \in DOMAIN changesets[c].left
  /\ changesets[c].left[l].ident = i /\ changesets[c].was[l].ident # i

Renamed(t, l) == l \in DOMAIN t.write /\ t.write[l].ident # t.read[l].ident

(* A caller who sends an identity that is taken is told so, by the check of *)
(* _assert_identity_free.  The index behind it refuses the commit of an     *)
(* open request only if another one took the identity since it began, or it *)
(* gives several leads of its own batch the same one, which the check does  *)
(* not see: the session does not flush before it queries (db.py).           *)
IndexRefusesOnlyOverlaps ==
  \A r \in OpenRequests :
    LET t == txn[r]
        after == [l \in Lead |-> Flushed(l, t)]
    IN \A k, l \in Lead :
         Clash(after, k, l) =>
           \/ Renamed(t, k) /\ Renamed(t, l)
           \/ \E c \in (t.since + 1) .. Len(changesets) :
                Took(c, k, after[k].ident) \/ Took(c, l, after[k].ident)

-----------------------------------------------------------------------------
(* Why they hold: the parts of an inductive invariant. *)

IsSequence(s) == Len(s) \in Nat /\ s = [i \in 1 .. Len(s) |-> s[i]]

(* A row has the columns of its table, and is blank before it is created.   *)
RowsInv ==
  /\ \A l \in Lead :
       /\ DOMAIN lead[l] = DOMAIN Blank
       /\ lead[l].exists \in BOOLEAN /\ lead[l].deleted \in BOOLEAN
       /\ ~lead[l].exists => lead[l] = Blank
  /\ merged \subseteq Lead

(* An entry is about an existing lead and a known changeset; unless its     *)
(* lead inherited entries, it is the only one about the two, and it changed *)
(* whatever it names.                                                       *)
TimelineInv ==
  /\ IsSequence(timeline) /\ IsSequence(changesets)
  /\ \A i \in DOMAIN timeline :
       /\ DOMAIN timeline[i] = {"cs", "lead", "from", "to", "score"}
       /\ timeline[i].cs \in DOMAIN changesets
       /\ timeline[i].lead \in Lead /\ lead[timeline[i].lead].exists
       /\ DOMAIN timeline[i].from = DOMAIN timeline[i].to
       /\ DOMAIN timeline[i].to \subseteq Target
       /\ timeline[i].lead \notin merged =>
            \A x \in DOMAIN timeline[i].to : timeline[i].from[x] # timeline[i].to[x]
  /\ \A i, j \in DOMAIN timeline :
       /\ timeline[i].cs = timeline[j].cs /\ timeline[i].lead = timeline[j].lead
       /\ timeline[i].lead \notin merged
       => i = j

(* The entries a request will write tell what it changes in the rows it     *)
(* read: each is about a row of its own, names what the row had and will    *)
(* have, and no change of an existing lead goes without.                    *)
Recording(t) ==
  /\ IsSequence(t.entries)
  /\ \A k \in DOMAIN t.entries :
       LET e == t.entries[k]
       IN /\ e.lead \in DOMAIN t.write
          /\ DOMAIN e.from = DOMAIN e.to /\ DOMAIN e.to \subseteq Target
          /\ \A x \in DOMAIN e.to :
               /\ e.from[x] = Get(t.read[e.lead], x)
               /\ e.to[x] = Get(t.write[e.lead], x)
               /\ e.lead \notin merged => e.from[x] # e.to[x]
  /\ \A j, k \in DOMAIN t.entries : t.entries[j].lead = t.entries[k].lead => j = k
  /\ \A l \in DOMAIN t.write, x \in Target :
       lead[l].exists /\ Get(t.read[l], x) # Get(t.write[l], x) =>
         \E k \in DOMAIN t.entries : /\ t.entries[k].lead = l
                                     /\ x \in DOMAIN t.entries[k].to

(* A request read leads that were not deleted, and still exist if they did;  *)
(* what it merges away it deletes.                                          *)
Sound(t) ==
  /\ DOMAIN t.read = DOMAIN t.write /\ DOMAIN t.write \subseteq Lead
  /\ \A l \in DOMAIN t.write :
       /\ t.write[l].exists = TRUE /\ t.write[l].deleted \in BOOLEAN
       /\ t.read[l].exists = lead[l].exists /\ t.read[l].deleted = FALSE
  /\ \A m \in t.moved :
       /\ m.from \in DOMAIN t.write /\ lead[m.from].exists
       /\ m.to \in DOMAIN t.write /\ lead[m.to].exists
       /\ t.write[m.from].deleted = TRUE
  /\ t.opens \in BOOLEAN /\ (~t.opens => t.entries = <<>> /\ t.undoes = 0)
  /\ t.undoes \in 0 .. Len(changesets)
  /\ Recording(t)

(* Two requests may hold the same row unless one of them creates it.        *)
TxnInv ==
  /\ txn = [r \in Request |-> txn[r]]
  /\ \A r \in Request : Sound(txn[r])
  /\ \A q, r \in Request :
       q # r =>
         \A l \in DOMAIN txn[q].write \cap DOMAIN txn[r].write : lead[l].exists

(* When requests do not overlap, what one read still stands. *)
OneRequest == \A q, r \in Request : q = r

Current(t) ==
  /\ \A l \in DOMAIN t.write : t.read[l] = lead[l]
  /\ \A m \in t.moved : m.upto = Len(timeline)

CurrentInv == OneRequest => \A r \in Request : Current(txn[r])

(* What the timeline can be trusted on: columns, since a flush writes back   *)
(* those a request changed and no other; and the fields, which are one      *)
(* column, when requests do not overlap.                                    *)
Told == {x \in Target : x \in Columns \/ OneRequest}

LastTold(l, t) ==
  LET I == Telling(l, t)
  IN IF I = {} THEN Get(born[l], t) ELSE timeline[Max(I)].to[t]

ToldInv ==
  \A l \in Lead \ merged, x \in Told : Live(l) => Get(lead[l], x) = LastTold(l, x)

(* The identity a request is about to give a lead was free when it looked    *)
(* for it: whoever has it now took it since.  What it creates has one.      *)
Guarded(t) ==
  /\ t.since \in 0 .. Len(changesets)
  /\ \A l \in DOMAIN t.write : lead[l].exists \/ Renamed(t, l)
  /\ \A l \in DOMAIN t.write :
       Renamed(t, l) =>
         /\ t.opens /\ t.write[l].ident # None
         /\ \A k \in Lead \ {l} :
              Live(k) /\ lead[k].ident = t.write[l].ident =>
                \E c \in (t.since + 1) .. Len(changesets) :
                  Took(c, k, t.write[l].ident)

IdentityInv ==
  /\ UniqueIdentities(lead)
  /\ \A c \in DOMAIN changesets :
       DOMAIN changesets[c] =
         {"undone", "undoOf", "rejected", "viewers", "was", "left"}
  /\ \A r \in Request : Guarded(txn[r])

LeadsInv == RowsInv /\ TimelineInv /\ TxnInv /\ CurrentInv /\ ToldInv

(* A request moves a lead's stage with its lost reason, unless it undoes ... *)
Reasoned(t) ==
  \A l \in DOMAIN t.write :
    /\ t.read[l].stage = t.write[l].stage => t.read[l].reason = t.write[l].reason
    /\ t.read[l].exists /\ t.read[l].stage # t.write[l].stage /\ t.undoes = 0 =>
         (t.write[l].reason # None <=> t.write[l].stage \in LostStage)
    /\ ~t.read[l].exists =>
         \A k \in DOMAIN t.entries :
           t.entries[k].lead = l => "stage" \notin DOMAIN t.entries[k].to

(* ... and an undo puts back, in every lead that can be, what it planned.   *)
Undoing(t) ==
  t.undoes # 0 =>
    /\ ~changesets[t.undoes].undone
    /\ DOMAIN t.write = Reversible(t.undoes, t.viewers)
    /\ \A l \in DOMAIN t.write : \A x \in Touched(t.undoes, l) :
         Get(t.write[l], x) = RevertTo(t.undoes, l, x)

(* The report keeps what a changeset found and left, and an entry tells both. *)
ReportInv ==
  /\ \A c \in DOMAIN changesets :
       /\ DOMAIN changesets[c] =
            {"undone", "undoOf", "rejected", "viewers", "was", "left"}
       /\ changesets[c].undone \in BOOLEAN
       /\ changesets[c].undoOf \in 0 .. (c - 1)
  /\ \A i \in DOMAIN timeline :
       timeline[i].lead \notin merged =>
         LET e == timeline[i]
         IN \A x \in DOMAIN e.to :
              /\ e.from[x] = Get(changesets[e.cs].was[e.lead], x)
              /\ e.to[x] = Get(changesets[e.cs].left[e.lead], x)

SerialInv ==
  /\ LeadsInv /\ ReportInv /\ UndoneOnce /\ ReasonFollowsEdits
  /\ \A r \in Request : Reasoned(txn[r]) /\ Undoing(txn[r])

(* What a request adds to a lead's score: what its action about the lead    *)
(* scores, and what the lead it folds into it had.                          *)
Gain(t, l) ==
  LET K == {k \in DOMAIN t.entries : t.entries[k].lead = l}
  IN IF K = {} THEN 0 ELSE t.entries[CHOOSE k \in K : TRUE].score

Brought(t, l) ==
  LET M == {m \in t.moved : m.to = l}
  IN IF M = {} THEN 0 ELSE t.read[(CHOOSE m \in M : TRUE).from].score

Scored(t) ==
  /\ \A k \in DOMAIN t.entries : t.entries[k].score \in Int
  /\ \A l \in DOMAIN t.write :
       t.write[l].score = t.read[l].score + Gain(t, l) + Brought(t, l)
  /\ \A m \in t.moved : m.from # m.to /\ \A n \in t.moved : n = m

ScoreInv ==
  /\ \A l \in Lead : lead[l].score \in Int
  /\ \A i \in DOMAIN timeline : timeline[i].score \in Int
  /\ \A r \in Request : Scored(txn[r])
  /\ ScoreIsRollup
=============================================================================
