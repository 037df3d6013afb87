------------------------------- MODULE Filters --------------------------------
(***************************************************************************)
(* What a filter selects: the tree of filters/dsl.py, compiled to SQL by     *)
(* filters/compiler.py and evaluated on one lead and its timeline.  SQL has  *)
(* three truth values; a lead is selected when the whole tree is "true".     *)
(*                                                                         *)
(* Three fields stand for the kinds of storage: due (a date), note (text)    *)
(* and labels (tags).  Every value is a sequence of numbers: the one day of  *)
(* a date, the characters of a text, the code of a tag.  Time is counted in  *)
(* parts of a day, and the workspace is Zone parts ahead of UTC.             *)
(***************************************************************************)
EXTENDS Integers, Sequences, FiniteSets, SequencesExt, Registry

CONSTANTS
  Filter,      \* filter nodes, closed under children
  DueValues, NoteValues, LabelValues,  \* what may be stored
  Day,         \* parts of a day
  Zone,        \* how far ahead of UTC the workspace is, in those parts
  MaxNow,      \* bound on the clock
  MaxHistory,  \* bound on the timeline
  Nothing      \* no value, no bound

VARIABLES
  lead,      \* field -> what leads.values holds
  viewable,  \* fields the caller's template may view
  history,   \* actions: their kind, the stages they moved between, their instant
  now        \* the clock, UTC

vars == <<lead, viewable, history, now>>

TypeOf == [due |-> "DATE", note |-> "TEXT", labels |-> "TAGS"]
FieldKey == DOMAIN TypeOf

(* Tags are absent, JSON null, or a list. *)
Absent == [kind |-> "absent", tags |-> {}]
JsonNull == [kind |-> "null", tags |-> {}]
Tagged(tags) == [kind |-> "list", tags |-> tags]

LocalDay(instant) == (instant + Zone) \div Day
Today == LocalDay(now)

-----------------------------------------------------------------------------
(* SQL's logic. *)
Holds(b) == IF b THEN "true" ELSE "false"
Not(t) == CASE t = "true" -> "false" [] t = "false" -> "true" [] OTHER -> t
First(order, ts) == LET n == CHOOSE n \in DOMAIN order : order[n] \in ts /\ \A k \in 1..(n - 1) : order[k] \notin ts
                    IN order[n]
And(ts) == First(<<"error", "false", "null", "true">>, ts \cup {"true"})
Or(ts) == First(<<"error", "true", "null", "false">>, ts \cup {"false"})

-----------------------------------------------------------------------------
(* _scalar_rule: every comparison with NULL is NULL, but two add "or IS      *)
(* NULL" for a lead without a value.                                        *)
Like(v, op, text) ==
  CASE op = "starts_with" -> IsPrefix(text, v)
    [] op = "ends_with" -> IsSuffix(text, v)
    [] OTHER -> \E n \in 0..(Len(v) - Len(text)) : SubSeq(v, n + 1, n + Len(text)) = text

Compare(v, op, args) ==
  CASE op = "eq" -> v = args[1]
    [] op = "ne" -> v # args[1]
    [] op \in {"contains", "starts_with", "ends_with"} -> Like(v, op, args[1])
    [] op = "not_contains" -> ~Like(v, op, args[1])
    [] op = "in" -> v \in ToSet(args)
    [] op = "not_in" -> v \notin ToSet(args)
    [] op = "gt" -> v[1] > args[1][1]
    [] op = "gte" -> v[1] >= args[1][1]
    [] op = "lt" -> v[1] < args[1][1]
    [] op = "lte" -> v[1] <= args[1][1]
    [] op = "between" -> v[1] \in args[1][1]..args[2][1]
    [] op = "in_last_days" -> v[1] \in (Today - args[1][1])..Today
    [] op = "in_next_days" -> v[1] \in Today..(Today + args[1][1])

Compared(v, op, args) == IF v = Nothing THEN "null" ELSE Holds(Compare(v, op, args))
ScalarRuleStrict(v, op, args) == Compared(v, op, args)  \* mutant: NULL is left alone
ScalarRule(v, op, args) ==
  IF op \in {"ne", "not_contains"} THEN Or({Holds(v = Nothing), Compared(v, op, args)})
  ELSE Compared(v, op, args)

(* _tags_rule: an absent list is an empty one; JSON null has no element. *)
TagsRule(stored, op, args) ==
  LET any == \E code \in ToSet(args) : code \in stored.tags
  IN CASE op = "has_any" -> Holds(any)
       [] op = "has_all" -> Holds(ToSet(args) \subseteq stored.tags)
       [] op = "not_in" -> Not(Holds(any))

(* _is_empty: the length of JSON null cannot be taken. *)
IsEmpty(f) ==
  IF TypeOf[f] = "TAGS"
  THEN IF lead[f].kind = "null" THEN "error" ELSE Holds(lead[f].tags = {})
  ELSE Or({Holds(lead[f] = Nothing), Compared(lead[f], "eq", <<<<>>>>)})

FieldRule(rule) ==
  CASE rule.op = "is_empty" -> IsEmpty(rule.key)
    [] rule.op = "is_not_empty" -> Not(IsEmpty(rule.key))
    [] OTHER -> IF TypeOf[rule.key] = "TAGS" THEN TagsRule(lead[rule.key], rule.op, rule.value)
                ELSE ScalarRule(lead[rule.key], rule.op, rule.value)

-----------------------------------------------------------------------------
(* The timeline.  _window: dates become instants in the workspace's zone. *)
WindowInUTC(w, at) ==  \* mutant: midnight of the server
  IF w.last # Nothing THEN at >= now - w.last * Day
  ELSE (w.from = Nothing \/ at >= w.from * Day) /\ (w.to = Nothing \/ at < (w.to + 1) * Day)
Window(w, at) ==
  IF w.last # Nothing THEN at >= now - w.last * Day
  ELSE /\ w.from = Nothing \/ at >= w.from * Day - Zone
       /\ w.to = Nothing \/ at < (w.to + 1) * Day - Zone

Matching(rule) ==
  {n \in DOMAIN history :
     /\ rule.action \in {Nothing, history[n].kind}
     /\ rule.old \in {Nothing, history[n].old} /\ rule.new \in {Nothing, history[n].new}
     /\ Window(rule.within, history[n].at)}

(* _action_performed, _action_not_performed and _transition. *)
HistoryRule(rule) ==
  CASE rule.type = "action_performed" -> Holds(Cardinality(Matching(rule)) >= rule.min)
    [] rule.type = "action_not_performed" -> Not(Holds(Matching(rule) # {}))
    [] rule.type = "status_changed" -> Holds(Matching([rule EXCEPT !.action = "STAGE_CHANGE"]) # {})

(* compile: a group without children is the identity of neither. *)
Group(op, ts) == IF ts = {} THEN "true" ELSE IF op = "AND" THEN And(ts) ELSE Or(ts)

Compile[node \in Filter] ==
  CASE node.type = "group" -> Group(node.op, {Compile[child] : child \in node.children})
    [] node.type = "field" -> FieldRule(node)
    [] OTHER -> HistoryRule(node)

(* field_keys_in, and the refusals: a field the caller may not view is       *)
(* refused as one that does not exist, and an operator its type lacks.       *)
KeysIn[node \in Filter] ==
  CASE node.type = "group" -> UNION {KeysIn[child] : child \in node.children}
    [] node.type = "field" -> {<<node.key, node.op>>}
    [] OTHER -> {}
Compiles(node) ==
  \A use \in KeysIn[node] : use[1] \in viewable /\ use[2] \in Operators(TypeOf[use[1]])

-----------------------------------------------------------------------------
(* The lead, its timeline and the clock. *)
Init ==
  /\ lead = [due |-> Nothing, note |-> Nothing, labels |-> Absent]
  /\ viewable \in {FieldKey, FieldKey \ {"note"}}
  /\ history = <<>>
  /\ now = 0

Write ==
  /\ \/ \E v \in DueValues : lead' = [lead EXCEPT !.due = v]
     \/ \E v \in NoteValues : lead' = [lead EXCEPT !.note = v]
     \/ \E v \in LabelValues : lead' = [lead EXCEPT !.labels = v]
  /\ UNCHANGED <<viewable, history, now>>

Act ==
  /\ Len(history) < MaxHistory
  /\ \E a \in [kind : {"CALL_LOGGED"}, old : {Nothing}, new : {Nothing}, at : {now}]
               \cup [kind : {"STAGE_CHANGE"}, old : {1}, new : {2}, at : {now}] :
       history' = Append(history, a)
  /\ UNCHANGED <<lead, viewable, now>>

Tick ==
  /\ now < MaxNow
  /\ now' = now + 1
  /\ UNCHANGED <<lead, viewable, history>>

Next == Write \/ Act \/ Tick
Spec == Init /\ [][Next]_vars

-----------------------------------------------------------------------------
(* Properties. *)

TypeOK ==
  /\ lead.due \in DueValues \cup {Nothing} /\ lead.note \in NoteValues \cup {Nothing}
  /\ lead.labels \in LabelValues \cup {Absent}
  /\ now \in 0..MaxNow /\ Len(history) <= MaxHistory

(* What the person who built the filter means, in two truth values: a lead   *)
(* without a value differs from every value, contains no text and is none    *)
(* of those listed, but is in no range and before or after nothing; an       *)
(* absent list, JSON null and a list without labels are all no value; and a  *)
(* window, be it the last n days or a range whose last day counts whole, is   *)
(* made of the customer's days.                                             *)
ValueSet(f) == IF TypeOf[f] = "TAGS" THEN lead[f].tags
               ELSE {lead[f]} \ {Nothing, <<>>}
MeansRule(rule) ==
  LET vs == ValueSet(rule.key)
  IN CASE rule.op = "is_empty" -> vs = {}
       [] rule.op = "is_not_empty" -> vs # {}
       [] rule.op = "has_any" -> vs \cap ToSet(rule.value) # {}
       [] rule.op = "has_all" -> ToSet(rule.value) \subseteq vs
       [] rule.op = "not_in" -> vs \cap ToSet(rule.value) = {}
       [] rule.op \in {"ne", "not_contains"} -> \A v \in vs : Compare(v, rule.op, rule.value)
       [] OTHER -> \E v \in vs : Compare(v, rule.op, rule.value)

FirstDay(w) == IF w.last # Nothing THEN Today - w.last ELSE w.from
OnDays(w, at) ==
  /\ FirstDay(w) # Nothing => LocalDay(at) >= FirstDay(w)
  /\ w.to # Nothing => LocalDay(at) <= w.to
MeantActions(rule) ==
  SelectSeq(history, LAMBDA a : /\ rule.action # Nothing => a.kind = rule.action
                                /\ rule.old # Nothing => a.old = rule.old
                                /\ rule.new # Nothing => a.new = rule.new
                                /\ OnDays(rule.within, a.at))
MeansHistory(rule) ==
  CASE rule.type = "action_performed" -> Len(MeantActions(rule)) >= rule.min
    [] rule.type = "action_not_performed" -> MeantActions(rule) = <<>>
    [] rule.type = "status_changed" -> MeantActions([rule EXCEPT !.action = "STAGE_CHANGE"]) # <<>>

Means[node \in Filter] ==
  CASE node.type = "group" ->
         \/ node.children = {}
         \/ node.op = "AND" /\ \A child \in node.children : Means[child]
         \/ node.op = "OR" /\ \E child \in node.children : Means[child]
    [] node.type = "field" -> MeansRule(node)
    [] OTHER -> MeansHistory(node)

(* The rules that, by themselves, answer something else for this lead: "not   *)
(* one of" is NULL without a value, where _scalar_rule gives the others of    *)
(* its kind an "or IS NULL"; the emptiness of tags stored as JSON null is an  *)
(* error; and "the last n days" begins with an hour of the day n days ago,    *)
(* so that an action of that day may or may not count.                      *)
Leaves[node \in Filter] ==
  IF node.type = "group" THEN UNION {Leaves[child] : child \in node.children} ELSE {node}
FieldRuleErrs(rule) ==
  IF TypeOf[rule.key] = "TAGS" THEN rule.op \in Presence /\ lead[rule.key].kind = "null"
  ELSE rule.op = "not_in" /\ lead[rule.key] = Nothing
WindowErrs(w) ==
  w.last # Nothing /\ \E n \in DOMAIN history : LocalDay(history[n].at) = FirstDay(w)
Errs(rule) == IF rule.type = "field" THEN FieldRuleErrs(rule) ELSE WindowErrs(rule.within)

(* A filter the caller may compile selects the leads it means, and no other, *)
(* and fails on none, unless one of its rules errs by itself: the three      *)
(* kinds above are all there are.                                           *)
FiltersMean ==
  \A node \in Filter :
    Compiles(node) /\ (\A rule \in Leaves[node] : ~Errs(rule)) =>
      /\ Compile[node] # "error"
      /\ (Compile[node] = "true") = Means[node]
=============================================================================
