----------------------------- MODULE FieldValues ------------------------------
(***************************************************************************)
(* The values of a lead, written through ValueValidator (fields/values.py)  *)
(* and the template check of fields/variables.py while administrators edit  *)
(* the schema.  Every write path goes through the one validator, and none   *)
(* gives it a context of variables.                                         *)
(***************************************************************************)
EXTENDS Fields

CONSTANTS
  Key,        \* keys a payload may hold, of a field or not
  RawValue,   \* values it may hold
  Canonical   \* the stored spelling of each text that is not an option

VARIABLES
  values,   \* leads.values of one lead: <<>> before it is created
  raws      \* keys written while no field had them

valueVars == <<values, raws>>

Created == values # <<>>

-----------------------------------------------------------------------------
(* _context_for: the options that are not archived, and the parent of each, *)
(* archived or not.                                                         *)
LiveCodes(f) == {options[f][n].code : n \in {k \in DOMAIN options[f] : ~options[f][k].archived}}
ParentCodes(f) ==
  [code \in Codes(f) |->
     LET n == CHOOSE k \in DOMAIN options[f] : options[f][k].code = code
         p == options[f][n].parent
     IN IF p = 0 THEN Null ELSE Text(options[f][p].code, "word")]

Normal(f, raw) ==
  LET given == BlankToNone(raw)
  IN CASE field[f].type = "DROPDOWN" -> NormDropdown(given, LiveCodes(f))
       [] field[f].type = "TAGS" -> NormTags(given, LiveCodes(f))
       [] field[f].type = "DEPENDENT_DROPDOWN" -> NormDependent(given, LiveCodes(f), ParentCodes(f))
       [] OTHER -> NormScalar(given, {"word"}, Canonical)

(* validate.  A template is held back before anything else looks at it, and *)
(* a key without a field is kept as it came.                                *)
FieldOf(key) == CHOOSE f \in Existing : field[f].key = key
Kept(payload) == {key \in DOMAIN payload : ~HasTemplate(payload[key])}
Result(payload, key, isCreate) ==
  IF key \notin Keys THEN payload[key]
  ELSE LET f == FieldOf(key)
       IN IF (field[f].hidden /\ payload[key] # Null) \/ (field[f].locked /\ ~isCreate)
          THEN Refused ELSE Normal(f, payload[key])

Validated(payload, isCreate) ==
  [key \in Kept(payload) |-> Result(payload, key, isCreate)]

(* Required fields on show are asked for only when the lead is created. *)
Missing(out) ==
  {f \in Existing : /\ field[f].required /\ ~field[f].hidden
                    /\ (field[f].key \notin DOMAIN out \/ out[field[f].key] = Null)}

Write(payload, isCreate) ==
  LET out == Validated(payload, isCreate)
  IN /\ \A key \in DOMAIN out : out[key] # Refused
     /\ isCreate => Missing(out) = {}
     /\ values' = [key \in DOMAIN out \cup DOMAIN values |->
                     IF key \in DOMAIN out THEN out[key] ELSE values[key]]
     /\ raws' = (raws \ DOMAIN out) \cup (DOMAIN out \ Keys)
     /\ UNCHANGED fieldVars

Create(payload) == ~Created /\ Write(payload, TRUE)
Patch(payload) == Created /\ Write(payload, FALSE)

(* project_labels: a code whose option is not there is shown as itself. *)
Shown(f, code) ==
  IF code \in Codes(f)
  THEN [known |-> TRUE, label |-> (CHOOSE o \in Range(options[f]) : o.code = code).label]
  ELSE [known |-> FALSE, label |-> code]

-----------------------------------------------------------------------------
ValueInit == FieldInit /\ values = <<>> /\ raws = {}

EditSchema == FieldNext /\ UNCHANGED valueVars

ValueNext ==
  \/ EditSchema
  \/ \E key \in Key, raw \in RawValue :
       \/ \E name \in BOOLEAN :
            Create([k \in {key} \cup (IF name THEN {field[identity].key} ELSE {}) |->
                      IF k = key THEN raw ELSE Text(<<"name">>, "word")])
       \/ Patch([k \in {key} |-> raw])

ValueSpec == ValueInit /\ [][ValueNext]_<<fieldVars, valueVars>>

-----------------------------------------------------------------------------
(* Properties. *)

Resolves(f, stored) ==
  CASE field[f].type = "DROPDOWN" -> Shown(f, stored.text).known
    [] field[f].type = "TAGS" ->
         /\ stored.items # <<>>
         /\ \A n \in DOMAIN stored.items : Shown(f, stored.items[n].text).known
         /\ \A n, k \in DOMAIN stored.items : n # k => stored.items[n] # stored.items[k]
    [] field[f].type = "DEPENDENT_DROPDOWN" ->
         /\ Shown(f, stored.value.text).known
         /\ stored.parent = ParentCodes(f)[stored.value.text]
    [] OTHER -> stored.text \in {Canonical[t] : t \in DOMAIN Canonical}

(* "The API returns codes (stable)": whatever is renamed, archived, copied,  *)
(* hidden and created between two writes, a value under the key of a field   *)
(* is in the normal form of the field's type, each code in it is an option   *)
(* of that field and can be labelled, a dependent one with the parent its    *)
(* option has, and nowhere is a template stored.  Excepted are keys that     *)
(* were written when no field had them: what came is kept, and becomes the   *)
(* value of a field that is given the key afterwards.                        *)
StoredResolves ==
  /\ \A key \in DOMAIN values : ~HasTemplate(values[key])
  /\ \A f \in Existing :
       field[f].key \in DOMAIN values \ raws /\ values[field[f].key] # Null =>
         Resolves(f, values[field[f].key])

-----------------------------------------------------------------------------
(* Why it holds: a key that is not raw has been some field's since it was    *)
(* written, and no other field is given it.                                 *)

ValueAssumption ==
  /\ <<"name">> \in DOMAIN Canonical
  /\ \A raw \in RawValue :
       /\ raw.kind = "text" => raw = Text(raw.text, raw.sort)
       /\ raw.kind = "text" /\ raw.sort = "word" => raw.text \in DOMAIN Canonical
       /\ raw.kind = "list" => IsSequence(raw.items)

ValuesInv == StoredResolves /\ DOMAIN values \ raws \subseteq Keys
=============================================================================
