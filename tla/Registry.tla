------------------------------- MODULE Registry -------------------------------
(***************************************************************************)
(* The two type registries, fields/registry.py and fields/operators.py:    *)
(* what a field of each type stores, which filters it takes, and the form  *)
(* a value is given before it is stored.                                   *)
(*                                                                         *)
(* A raw value is what a request may hold: Null, or a record whose kind    *)
(* says how it is spelt.  Scanning text (the shape of an address, a number *)
(* or a date) is left out: a text carries the verdict in "sort".           *)
(***************************************************************************)
EXTENDS Integers, Sequences, SequencesExt

LeadFieldType == {"TEXT", "DROPDOWN", "TAGS", "EMAIL", "PHONE", "CHECKBOX", "DATE", "MONEY",
                  "NUMBER", "WEBSITE", "DEPENDENT_DROPDOWN", "RECURRING_DATE", "LOCATION"}

UsesOptions == {"DROPDOWN", "TAGS", "DEPENDENT_DROPDOWN"}

Searchable == LeadFieldType \ {"CHECKBOX", "DATE", "MONEY", "NUMBER", "RECURRING_DATE"}

ConfigSchema(type) ==
  CASE type = "TEXT" -> {"multiline"}
    [] type = "NUMBER" -> {"min", "max"}
    [] type = "DEPENDENT_DROPDOWN" -> {"parent_field_id"}
    [] OTHER -> {}

-----------------------------------------------------------------------------
(* The operator vocabulary. *)
Presence == {"is_empty", "is_not_empty"}
Ordered == {"eq", "ne", "gt", "gte", "lt", "lte", "between"} \cup Presence
Textual == {"eq", "ne", "contains", "not_contains", "starts_with", "ends_with", "in", "not_in"}
             \cup Presence
Temporal == Ordered \cup {"in_last_days", "in_next_days"}
Choice == {"eq", "ne", "in", "not_in"} \cup Presence
TagSet == {"has_any", "has_all", "not_in"} \cup Presence

Operators(type) ==
  CASE type \in {"TEXT", "EMAIL", "PHONE", "WEBSITE", "LOCATION"} -> Textual
    [] type \in {"NUMBER", "MONEY"} -> Ordered
    [] type \in {"DATE", "RECURRING_DATE"} -> Temporal
    [] type \in {"DROPDOWN", "DEPENDENT_DROPDOWN"} -> Choice
    [] type = "TAGS" -> TagSet
    [] type = "CHECKBOX" -> {"eq"} \cup Presence

(* Operands an operator takes: a count, or -1 for a list that is not empty. *)
Arity(op) ==
  CASE op \in Presence -> 0
    [] op \in {"in", "not_in", "has_any", "has_all"} -> -1
    [] op = "between" -> 2
    [] OTHER -> 1

-----------------------------------------------------------------------------
(* slugify_key: the slug of a label, numbered from 2 when it is taken.  A   *)
(* slug is a sequence of its parts, so that "status 2" is <<"status", 2>>.  *)
SlugifyPlain(slug, taken) == slug  \* mutant: a slug that is taken is given out again
Slugify(slug, taken) ==
  IF slug \notin taken THEN slug
  ELSE LET free == {n \in 2..(Len(SetToSeq(taken)) + 2) : Append(slug, n) \notin taken}
       IN Append(slug, CHOOSE n \in free : \A k \in free : n <= k)

-----------------------------------------------------------------------------
(* Normalisation.  Refused is raised as FieldValueError.                    *)
Null == [kind |-> "null"]
Refused == [kind |-> "refused"]
Text(t, sort) == [kind |-> "text", text |-> t, sort |-> sort]
Many(items) == [kind |-> "list", items |-> items]
Pair(parent, value) == [kind |-> "pair", parent |-> parent, value |-> value]
Recurs(start, frequency, interval, next) ==
  [kind |-> "recurs", start |-> start, frequency |-> frequency, interval |-> interval,
   next |-> next]

(* _blank_to_none: text without a character and empty collections. *)
BlankToNone(raw) ==
  IF (raw.kind = "text" /\ raw.sort = "blank") \/ (raw.kind = "list" /\ raw.items = <<>>)
  THEN Null ELSE raw

(* _norm_text, _norm_email, _norm_phone, _norm_website, _norm_number and    *)
(* their like: text of the right sort in its canonical spelling.            *)
NormScalar(raw, sorts, canonical) ==
  IF raw = Null THEN Null
  ELSE IF raw.kind # "text" \/ raw.sort \notin sorts THEN Refused
  ELSE [raw EXCEPT !.text = canonical[raw.text]]

NormDropdown(raw, codes) ==
  IF raw = Null THEN Null
  ELSE IF raw.kind # "text" \/ raw.text \notin codes THEN Refused
  ELSE raw

(* One tag may come bare; blank ones are skipped, and repeated ones kept     *)
(* once, in their order.                                                    *)
Blank(raw) == BlankToNone(raw) = Null
Tags(given) ==
  LET kept[n \in 0..Len(given)] ==
        IF n = 0 THEN <<>>
        ELSE IF Blank(given[n]) \/ \E k \in DOMAIN kept[n - 1] : kept[n - 1][k] = given[n]
             THEN kept[n - 1] ELSE Append(kept[n - 1], given[n])
  IN kept[Len(given)]

NormTags(raw, codes) ==
  LET given == IF raw.kind = "list" THEN raw.items ELSE <<raw>>
  IN IF raw = Null THEN Null
     ELSE IF \E n \in DOMAIN given :
               given[n].kind # "text" \/ (~Blank(given[n]) /\ given[n].text \notin codes) THEN Refused
     ELSE IF Tags(given) = <<>> THEN Null ELSE Many(Tags(given))

(* A claimed parent is compared only with an option that has one. *)
NormDependentTrusting(raw, codes, parentOf) ==  \* mutant: the claimed parent is stored
  LET selected == BlankToNone(IF raw.kind = "pair" THEN raw.value ELSE raw)
      claimed == IF raw.kind = "pair" THEN raw.parent ELSE Null
  IN IF raw = Null \/ selected = Null THEN Null
     ELSE IF selected.kind # "text" \/ selected.text \notin codes THEN Refused
     ELSE IF claimed # Null /\ parentOf[selected.text] # Null
                /\ claimed # parentOf[selected.text] THEN Refused
     ELSE Pair(claimed, selected)
NormDependent(raw, codes, parentOf) ==
  LET selected == BlankToNone(IF raw.kind = "pair" THEN raw.value ELSE raw)
      claimed == IF raw.kind = "pair" THEN raw.parent ELSE Null
  IN IF raw = Null \/ selected = Null THEN Null
     ELSE IF selected.kind # "text" \/ selected.text \notin codes THEN Refused
     ELSE IF claimed # Null /\ parentOf[selected.text] # Null
                /\ claimed # parentOf[selected.text] THEN Refused
     ELSE Pair(parentOf[selected.text], selected)

(* A bare date becomes a yearly one whose next occurrence is itself. *)
NormRecurring(raw, dayOf(_), nextOf(_, _, _)) ==
  IF raw = Null THEN Null
  ELSE IF raw.kind = "date" THEN Recurs(raw.start, "YEARLY", 1, dayOf(raw.start))
  ELSE IF raw.kind # "recurs" THEN Refused
  ELSE IF raw.interval \notin 1..365 THEN Refused
  ELSE [raw EXCEPT !.next = nextOf(raw.start, raw.frequency, raw.interval)]

(* resolve: a template survives in no value that is stored.  It is replaced *)
(* in a field that takes variables when its variable is known, and held     *)
(* back otherwise.                                                          *)
HasTemplate(raw) ==
  \/ raw.kind = "text" /\ raw.sort = "template"
  \/ raw.kind = "list" /\ \E n \in DOMAIN raw.items : raw.items[n].sort = "template"
  \/ raw.kind = "pair" /\ \E part \in {raw.value, raw.parent} :
                            part.kind = "text" /\ part.sort = "template"
=============================================================================
