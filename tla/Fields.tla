-------------------------------- MODULE Fields --------------------------------
(***************************************************************************)
(* The lead schema of a workspace: services/fields.py and the endpoints of *)
(* routers/fields.py (declared indexes have a module of their own).        *)
(*                                                                         *)
(* Every endpoint is one transaction of an administrator.  Hiding a field  *)
(* and designating the identity field each read what the other writes, in  *)
(* another row, so those two are split into their read and their commit.   *)
(* Descriptions, colours, groups, the two display flags and the order of   *)
(* the fields on the page are layout and left out, and so is               *)
(* can_use_variable: no caller passes variables to replace.                *)
(***************************************************************************)
EXTENDS Registry, FiniteSets

CONSTANTS
  Field,       \* rows that may come to exist, numbered
  Builtin,     \* how many of them the workspace is provisioned with
  Label,       \* labels of fields and of options
  SlugOf,      \* the slug of each label
  Type,        \* the types this workspace uses
  BuiltinType, \* type of each built-in field
  Pasted,      \* texts pasted into "add multiple": sequences of labels
  Request,     \* requests that may be half way through
  MaxOptions,  \* bound on the options of a field
  MaxEdits,    \* bound on edits of the schema
  None

VARIABLES
  field,    \* lead_fields
  options,  \* field_options of each field, in the order they were added
  identity, \* workspaces.identity_field_id
  primary,  \* the two headline fields
  pending,  \* what each request read
  crossed,  \* fields hidden and designated by requests that overlapped
  edits     \* edits so far

fieldVars == <<field, options, identity, primary, pending, crossed, edits>>

Absent == [exists |-> FALSE, label |-> None, key |-> <<>>, type |-> None, builtin |-> FALSE,
           hidden |-> FALSE, required |-> FALSE, locked |-> FALSE, parent |-> None]
NoRequest == [op |-> None, field |-> None]

Existing == {f \in Field : field[f].exists}
Keys == {field[f].key : f \in Existing}
Codes(f) == {options[f][n].code : n \in DOMAIN options[f]}
TakesOptions(f) == field[f].exists /\ field[f].type \in UsesOptions

FieldInit ==
  /\ field = [f \in Field |->
       IF f > Builtin THEN Absent
       ELSE [Absent EXCEPT !.exists = TRUE, !.builtin = TRUE, !.type = BuiltinType[f],
                           !.key = <<"builtin", f>>]]
  /\ options = [f \in Field |-> <<>>]
  /\ identity = 1
  /\ primary = <<1, None>>
  /\ pending = [q \in Request |-> NoRequest]
  /\ crossed = {}
  /\ edits = 0

Edit == edits < MaxEdits /\ edits' = edits + 1
Schema(f, row) == field' = [field EXCEPT ![f] = row]

-----------------------------------------------------------------------------
(* Fields.  A config keeps the keys its type declares; the parent of a      *)
(* dependent dropdown must be a field, any field.                           *)
Config(type, parent) == IF "parent_field_id" \in ConfigSchema(type) THEN parent ELSE None

CreateField(f, label, type, parent) ==
  /\ ~field[f].exists /\ \A g \in Field : g < f => field[g].exists
  /\ Config(type, parent) \in Existing \cup {None}
  /\ Schema(f, [Absent EXCEPT !.exists = TRUE, !.label = label, !.type = type,
                 !.key = Slugify(SlugOf[label], Keys), !.parent = Config(type, parent)])
  /\ Edit
  /\ UNCHANGED <<options, identity, primary, pending, crossed>>

(* Neither the key nor the type can change. *)
UpdateField(f, label, required, locked) ==
  /\ field[f].exists
  /\ Schema(f, [field[f] EXCEPT !.label = label, !.required = required, !.locked = locked])
  /\ Edit
  /\ UNCHANGED <<options, identity, primary, pending, crossed>>

UpdateConfig(f, parent) ==
  /\ field[f].exists
  /\ Config(field[f].type, parent) \in Existing \cup {None}
  /\ Schema(f, [field[f] EXCEPT !.parent = Config(field[f].type, parent)])
  /\ Edit
  /\ UNCHANGED <<options, identity, primary, pending, crossed>>

Unhide(f) ==
  /\ field[f].exists
  /\ Schema(f, [field[f] EXCEPT !.hidden = FALSE])
  /\ Edit
  /\ UNCHANGED <<options, identity, primary, pending, crossed>>

(* set_hidden and set_identity_field up to their writes. *)
MayHideAny(f) == field[f].exists /\ ~field[f].builtin  \* mutant: the identity may be hidden
MayHide(f) == field[f].exists /\ ~field[f].builtin /\ identity # f
MayIdentify(f) ==
  field[f].exists /\ ~field[f].hidden /\ field[f].type \notin {"TAGS", "CHECKBOX"}

Begin(q, op, f) ==
  /\ pending[q].op = None
  /\ IF op = "hide" THEN MayHide(f) ELSE MayIdentify(f)
  /\ pending' = [pending EXCEPT ![q] = [op |-> op, field |-> f]]
  /\ crossed' = crossed \cup {f : r \in {r \in Request : pending[r].field = f
                                                        /\ pending[r].op # op}}
  /\ Edit
  /\ UNCHANGED <<field, options, identity, primary>>

CommitHide(q) ==
  /\ pending[q].op = "hide"
  /\ Schema(pending[q].field, [field[pending[q].field] EXCEPT !.hidden = TRUE])
  /\ pending' = [pending EXCEPT ![q] = NoRequest]
  /\ UNCHANGED <<options, identity, primary, crossed, edits>>

CommitIdentity(q) ==
  /\ pending[q].op = "identify"
  /\ identity' = pending[q].field
  /\ pending' = [pending EXCEPT ![q] = NoRequest]
  /\ UNCHANGED <<field, options, primary, crossed, edits>>

SetPrimary(f, g) ==
  /\ field[f].exists /\ g \in Existing \cup {None}
  /\ primary' = <<f, g>>
  /\ Edit
  /\ UNCHANGED <<field, options, identity, pending, crossed>>

-----------------------------------------------------------------------------
(* Options. *)
Option(code, label, parent, order) ==
  [code |-> code, label |-> label, parent |-> parent, order |-> order, archived |-> FALSE]

PutOptions(f, seq) ==
  /\ Len(seq) <= MaxOptions
  /\ options' = [options EXCEPT ![f] = seq]
  /\ Edit
  /\ UNCHANGED <<field, identity, primary, pending, crossed>>

(* Only the options of a dependent dropdown have parents, in the same field. *)
AddOption(f, label, parent) ==
  /\ TakesOptions(f)
  /\ parent # 0 => field[f].type = "DEPENDENT_DROPDOWN" /\ parent \in DOMAIN options[f]
  /\ PutOptions(f, Append(options[f], Option(Slugify(SlugOf[label], Codes(f)), label, parent,
                                          Len(options[f]))))

(* Labels already there and repeated ones are skipped. *)
WithLabel(made, label, order) ==
  IF \E k \in DOMAIN made : made[k].label = label THEN made
  ELSE Append(made, Option(Slugify(SlugOf[label], {made[k].code : k \in DOMAIN made}), label, 0, order))
WithLabels(current, labels) ==
  LET made[n \in 0..Len(labels)] ==
        IF n = 0 THEN current ELSE WithLabel(made[n - 1], labels[n], Len(current) + n - 1)
  IN made[Len(labels)]

AddBulk(f, labels) == TakesOptions(f) /\ PutOptions(f, WithLabels(options[f], labels))

(* Roots before children, each by its position; equal positions come in any *)
(* order.                                                                   *)
CopyOrders(source) ==
  LET rank(n) == <<IF source[n].parent = 0 THEN 0 ELSE 1, source[n].order>>
      before(a, b) == a[1] < b[1] \/ (a[1] = b[1] /\ a[2] < b[2])
  IN {s \in SetToSeqs(DOMAIN source) :
        \A i, j \in DOMAIN s : i < j => ~before(rank(s[j]), rank(s[i]))}

CopyParentNone(place, n, source) == 0  \* mutant: copied options are all roots
CopyParent(place, n, source) ==
  IF source[n].parent \in DOMAIN place THEN place[source[n].parent] ELSE 0

(* copy_options_from: an option whose code is taken is skipped, and with it *)
(* the parent of its children; so is a parent that comes later.             *)
WithClone(acc, taken, source, n) ==
  IF source[n].code \in taken THEN acc
  ELSE [made |-> Append(acc.made, [source[n] EXCEPT !.parent = CopyParent(acc.place, n, source)]),
        place |-> [k \in DOMAIN acc.place \cup {n} |->
                     IF k = n THEN Len(acc.made) + 1 ELSE acc.place[k]]]
Cloned(target, source, inOrder) ==
  LET taken == {target[k].code : k \in DOMAIN target}
      acc[n \in 0..Len(inOrder)] ==
        IF n = 0 THEN [made |-> target, place |-> <<>>]
        ELSE WithClone(acc[n - 1], taken, source, inOrder[n])
  IN acc[Len(inOrder)].made

CopyOptions(f, g) ==
  /\ TakesOptions(f) /\ TakesOptions(g)
  /\ \E inOrder \in CopyOrders(options[g]) : PutOptions(f, Cloned(options[f], options[g], inOrder))

UpdateOption(f, n, label) ==
  /\ n \in DOMAIN options[f]
  /\ PutOptions(f, [options[f] EXCEPT ![n].label = label])

ArchiveOption(f, n) ==
  /\ n \in DOMAIN options[f]
  /\ PutOptions(f, [options[f] EXCEPT ![n].archived = TRUE])

(* The named options take positions from 0; the others keep theirs. *)
Reorder(f, named) ==
  /\ field[f].exists /\ named # <<>>
  /\ PutOptions(f, [n \in DOMAIN options[f] |->
       IF n \in Range(named)
       THEN [options[f][n] EXCEPT !.order = (CHOOSE k \in DOMAIN named : named[k] = n) - 1]
       ELSE options[f][n]])

-----------------------------------------------------------------------------
FieldNext ==
  \/ \E f \in Field, label \in Label :
       \/ \E type \in Type, parent \in Field \cup {None} : CreateField(f, label, type, parent)
       \/ \E required, locked \in BOOLEAN : UpdateField(f, label, required, locked)
       \/ \E parent \in 0..MaxOptions : AddOption(f, label, parent)
       \/ \E n \in 1..MaxOptions : UpdateOption(f, n, label)
  \/ \E f \in Field :
       \/ Unhide(f)
       \/ \E parent \in Field \cup {None} : UpdateConfig(f, parent)
       \/ \E g \in Field \cup {None} : SetPrimary(f, g)
       \/ \E g \in Field : CopyOptions(f, g)
       \/ \E labels \in Pasted : AddBulk(f, labels)
       \/ \E n \in 1..MaxOptions : ArchiveOption(f, n)
       \/ \E named \in SetToAllKPermutations(DOMAIN options[f]) : Reorder(f, named)
       \/ \E q \in Request, op \in {"hide", "identify"} : Begin(q, op, f)
  \/ \E q \in Request : CommitHide(q) \/ CommitIdentity(q)

FieldSpec == FieldInit /\ [][FieldNext]_fieldVars

-----------------------------------------------------------------------------
(* Properties. *)

FieldTypeOK ==
  /\ identity \in Existing
  /\ \A f \in Existing : field[f].type \in Type \cup Range(BuiltinType)
  /\ \A f, g \in Existing : f # g => field[f].key # field[g].key
  /\ \A f \in Field : Len(options[f]) = Cardinality(Codes(f)) /\ Len(options[f]) <= MaxOptions

(* "The identity field cannot be hidden either -- the workspace would lose  *)
(* the ability to dedupe": whatever is hidden, shown and designated, the     *)
(* identity is a field on show that can tell two leads apart, unless one     *)
(* administrator hid it while another designated it, for neither sees what   *)
(* the other has not committed.                                             *)
IdentityUsable ==
  /\ field[identity].type \notin {"TAGS", "CHECKBOX"}
  /\ identity \notin crossed => ~field[identity].hidden

(* "clone another field's option set": an option that arrives with a parent *)
(* has the parent it had where it came from, and one whose parent was a root *)
(* and came along keeps it.                                                 *)
CopiedTreesKept ==
  \A f, g \in Field :
       LET parentOf(opts, n) == IF opts[n].parent = 0 THEN <<>> ELSE opts[opts[n].parent].code
           new == (Len(options[f]) + 1) .. Len(options'[f])
       IN new # {} /\ CopyOptions(f, g) => \A n \in new : \E k \in DOMAIN options[g] :
            LET p == options[g][k].parent IN
            /\ options[g][k].code = options'[f][n].code
            /\ parentOf(options'[f], n) \in {parentOf(options[g], k), <<>>}
            /\ p # 0 /\ options[g][p].parent = 0 /\ options[g][p].code \notin Codes(f)
                 => parentOf(options'[f], n) = parentOf(options[g], k)
CopyKeepsTrees == [][CopiedTreesKept]_fieldVars

-----------------------------------------------------------------------------
(* What makes FieldTypeOK inductive: keys and codes are given out once.      *)

IsSequence(s) == Len(s) \in Nat /\ s = [n \in 1..Len(s) |-> s[n]]

FieldAssumption ==
  /\ IsFiniteSet(Field) /\ Field \subseteq Nat \ {0}
  /\ 1..Builtin \subseteq DOMAIN BuiltinType
  /\ \A label \in DOMAIN SlugOf : IsSequence(SlugOf[label])
  /\ Label \subseteq DOMAIN SlugOf
  /\ \A labels \in Pasted : IsSequence(labels) /\ \A n \in DOMAIN labels : labels[n] \in DOMAIN SlugOf
  /\ MaxOptions \in Nat

OptionNames == {"code", "label", "parent", "order", "archived"}

CodesDiffer(opts) == \A m, n \in DOMAIN opts : opts[m].code = opts[n].code => m = n

OptionsHeld(opts) ==
  /\ IsSequence(opts) /\ CodesDiffer(opts)
  /\ \A n \in DOMAIN opts :
       DOMAIN opts[n] = OptionNames /\ opts[n].parent \in 0..Len(opts)

OptionsInv ==
  /\ options = [f \in Field |-> options[f]]
  /\ \A f \in Field : OptionsHeld(options[f]) /\ Len(options[f]) <= MaxOptions

FieldsInv ==
  /\ OptionsInv
  /\ \A f \in Existing : field[f].type \in Type \cup Range(BuiltinType)
  /\ \A f, g \in Existing : f # g => field[f].key # field[g].key

-----------------------------------------------------------------------------
(* What makes IdentityUsable inductive: what a request read of the field it  *)
(* is about still holds of it, or the field was crossed.                    *)

IdentityAssumption ==
  /\ 1 \in Field /\ Builtin \in Nat \ {0}
  /\ BuiltinType[1] \notin {"TAGS", "CHECKBOX"}
  /\ None \notin Field /\ None \notin {"hide", "identify"}

RowsInv ==
  /\ field = [f \in Field |-> field[f]]
  /\ \A f \in Field : DOMAIN field[f] = DOMAIN Absent /\ field[f].hidden \in BOOLEAN
  /\ pending \in [Request -> [op : {None, "hide", "identify"}, field : {None} \cup Field]]
  /\ \A q \in Request : pending[q].op # None => pending[q].field \in Field

Identifies(f) == field[f].exists /\ field[f].type \notin {"TAGS", "CHECKBOX"}
HiddenOnlyCrossed(f) == field[f].hidden => f \in crossed

IdentityInv ==
  /\ RowsInv
  /\ identity \in Field /\ Identifies(identity) /\ HiddenOnlyCrossed(identity)
  /\ \A q \in Request :
       /\ pending[q].op = "identify" =>
            Identifies(pending[q].field) /\ HiddenOnlyCrossed(pending[q].field)
       /\ pending[q].op = "hide" /\ pending[q].field = identity => identity \in crossed
       /\ \A r \in Request :
            pending[q].op = "hide" /\ pending[r].op = "identify" /\ pending[q].field = pending[r].field
              => pending[q].field \in crossed
=============================================================================
