------------------------------ MODULE MCServices ------------------------------
(***************************************************************************)
(* The services a workspace is administered and worked through, each on a    *)
(* small instance.  No two of them here write the same rows, so that a        *)
(* behaviour of all is behaviours side by side: focus names the one a        *)
(* behaviour is about, and the variables of the others stay None.           *)
(***************************************************************************)
EXTENDS Registry, FiniteSets, TLC

CONSTANTS None, m1, r1, u1, t1, t2, t3, l1, l2, q1, q2,
          s1, s2, w1, w2, w3

VARIABLES
  focus,
  clock, schedule, active, mailJob, mailed, repeats, mishaps, forgotten,
  overlaps, pressed,
  field, options, identity, primary, pending, crossed, edits,
  values, raws,
  stored, today,
  stage, disposition, reason, actionType, settingRequest, contested,
  overlapping, settingEdits,
  caps, grants, layout, under, fields, accessRequest, accessEdits,
  password, weak, admitted, tokens, links, authRequest, ended, lateSessions,
  person, viewable, history, instant,
  scope, caller, rows, flushed, work,
  tasks, timeline, deleted, labels, worn, workRequest, reopened, lateWork,
  workNow, workEdits

reportVars == <<clock, schedule, active, mailJob, mailed, repeats,
                mishaps, forgotten, overlaps, pressed>>
schemaVars == <<field, options, identity, primary, pending, crossed, edits>>
valueVars == <<values, raws>>
recurVars == <<stored, today>>
pipelineVars == <<stage, disposition, reason, actionType, settingRequest,
                  contested, overlapping, settingEdits>>
accessVars == <<caps, grants, layout, under, fields, accessRequest,
                accessEdits>>
sessionVars == <<password, weak, admitted, tokens, links, authRequest, ended,
                 lateSessions>>
filterVars == <<person, viewable, history, instant>>
birthVars == <<scope, caller, rows, flushed, work>>
workVars == <<tasks, timeline, deleted, labels, worn, workRequest, reopened,
              lateWork, workNow, workEdits>>

-----------------------------------------------------------------------------
(* Values of the constants, named because TLC computes a named one once. *)
One == {1}
Two == {1, 2}
Three == {1, 2, 3}
Five == 1..5

Cadences == {{1, 2}}

Labels == {"Colour"}
OneType == {"DEPENDENT_DROPDOWN"}
ThreeTypes == {"DEPENDENT_DROPDOWN", "TAGS", "EMAIL"}
Texts == <<"TEXT">>
Repeated == {<<"Colour2", "Colour", "Colour2">>}
Twice == {<<"Colour", "Colour">>}
Keyed == {<<"colour">>}
Slugs == [Colour |-> <<"colour">>, Colour2 |-> <<"colour", 2>>]
Code == <<"colour">>
Word(x) == Text(x, "word")
SomeValues ==
  { Null, Text(<<>>, "blank"), Text(<<"x">>, "template"), Word(Code), Word(<<"Name">>),
    Many(<<>>), Many(<<Word(Code), Text(<<>>, "blank"), Word(Code)>>),
    Pair(Null, Word(Code)), Pair(Word(Code), Word(<<"colour", 2>>)),
    Pair(Word(<<"colour", 2>>), Word(Code)) }
Canon ==
  [t \in {<<"Name">>, <<"name">>, Code, <<"colour", 2>>} |-> IF t = <<"Name">> THEN <<"name">> ELSE t]

Steps == {1, 2, 5}
SomeStarts == {[year |-> 0, month |-> 1, day |-> 31], [year |-> 0, month |-> 2, day |-> 29],
               [year |-> 0, month |-> 12, day |-> 30]}

Notes == {"notes"}

Templates == {"Root", "Caller"}
Holders == {"m1", "k1"}
Members == {"m1"}
Names == {"f1", "f2"}

Tokens == {t1, t2, t3}
Links == {l1, l2}
Requests == {q1, q2}

Connections == {s1, s2}
Workspaces == {w1, w2, w3}
Asked == {"acme"}

WorkLabels == {"l1", "l2"}
WithoutCase == [hot |-> "hot", Hot |-> "hot"]
Under == [boss |-> {"boss", "caller"}, caller |-> {"caller"}]

Dues == {<<1>>}
SomeNotes == {<<1>>, <<2, 1>>}
SomeTags == {[kind |-> "null", tags |-> {}], [kind |-> "list", tags |-> {<<1>>, <<2>>}]}
Rule(key, op, value) == [type |-> "field", key |-> key, op |-> op, value |-> value]
Within(last, from, to) == [last |-> last, from |-> from, to |-> to]
Event(type, action, within) ==
  [type |-> type, action |-> action, old |-> None, new |-> None, min |-> 1, within |-> within]
Group(op, children) == [type |-> "group", op |-> op, children |-> children]

Windows == {Within(None, None, None), Within(1, None, None), Within(None, 1, 1), Within(None, None, 0)}
FieldRules ==
  {Rule("due", op, <<<<1>>>>) : op \in Temporal \ (Presence \cup {"between"})}
    \cup {Rule("due", "between", <<<<1>>, <<2>>>>), Rule("note", "contains", <<<<2>>>>)}
    \cup {Rule("note", op, <<<<1>>>>) : op \in Textual \ Presence}
    \cup {Rule("labels", op, <<<<1>>, <<2>>>>) : op \in TagSet \ Presence}
    \cup {Rule(key, op, <<>>) : key \in {"due", "note", "labels"}, op \in Presence}
HistoryRules ==
  {Event(type, "CALL_LOGGED", w) :
      type \in {"action_performed", "action_not_performed"}, w \in Windows}
    \cup {[Event("status_changed", None, w) EXCEPT !.old = 1, !.new = n] :
             w \in Windows, n \in {None, 1}}
    \cup {[Event("action_performed", None, w) EXCEPT !.min = 2] : w \in Windows}
Few == {Rule("note", "eq", <<<<1>>>>), Rule("labels", "is_empty", <<>>), Rule("due", "gt", <<<<1>>>>),
        Event("action_performed", "CALL_LOGGED", Within(None, 1, 1))}
Pairs == {Group(op, {a, b}) : op \in {"AND", "OR"}, a \in Few, b \in Few}
Unlike == Rule("note", "ne", <<<<1>>>>)
Nested == {Group(IF p.op = "AND" THEN "OR" ELSE "AND", {p, Unlike}) : p \in Pairs}
SomeFilters ==
  FieldRules \cup HistoryRules \cup Few \cup Pairs \cup Nested \cup {Group("AND", {}), Group("OR", {})}

-----------------------------------------------------------------------------
(* One schedule, two jobs, "run now" once. *)
Reports == INSTANCE Schedules WITH
  Report <- {r1}, Creator <- {m1}, Cadence <- Cadences, Job <- Two, Horizon <- 2,
  Catchup <- 2, MaxMishaps <- 1, MaxPressed <- 1, Nil <- None,
  job <- mailJob

(* Two fields with options beside the built-in one, two administrators. *)
Schema == INSTANCE Fields WITH
  Field <- Three, Builtin <- 1, Label <- Labels, SlugOf <- Slugs,
  Type <- OneType, BuiltinType <- Texts, Pasted <- Repeated, Request <- Two, MaxOptions <- 3, MaxEdits <- 5

(* The same variables and one lead, whose values are written meanwhile. *)
Values == INSTANCE FieldValues WITH
  Field <- Two, Builtin <- 1, Label <- Labels, SlugOf <- Slugs,
  Type <- ThreeTypes, BuiltinType <- Texts, Pasted <- Twice, Request <- One, MaxOptions <- 2, MaxEdits <- 3,
  Key <- Keyed, RawValue <- SomeValues, Canonical <- Canon

(* Starts on the last days of months, asked for on the days of a February and a March. *)
Recurring == INSTANCE Recurrence WITH
  Starts <- SomeStarts, Intervals <- Steps, FirstDay <- 395, LastDay <- 432, Span <- 30

(* Two administrators and one more stage, disposition and reason than are provisioned. *)
Settings == INSTANCE Pipeline WITH
  Stages <- Five, Dispositions <- Three, System <- 2, Reasons <- Three, MaxReasons <- 2,
  Types <- Two, Slug <- Notes, Score <- {0}, Call <- Two, MaxSettings <- 4, Nil <- None,
  call <- settingRequest, settings <- settingEdits

(* A member and an API key under two templates. *)
Permissions == INSTANCE Access WITH
  Template <- Templates, Root <- "Root", Holder <- Holders, Member <- Members,
  FieldName <- Names, Slot <- Two, MaxChanges <- 4, NoRow <- None,
  request <- accessRequest, changes <- accessEdits

(* One user, three tokens, two links, two requests. *)
Auth == INSTANCE Sessions WITH
  User <- {u1}, Token <- Tokens, Link <- Links, Request <- Requests, MaxPasswords <- 2,
  request <- authRequest, late <- lateSessions

(* Every operator, every window and pairs of them, in a workspace half a day ahead. *)
Search == INSTANCE Filters WITH
  Filter <- SomeFilters, DueValues <- Dues, NoteValues <- SomeNotes, LabelValues <- SomeTags, Day <- 2, Zone <- 1, MaxNow <- 4,
  MaxHistory <- 2, Nothing <- None,
  lead <- person, now <- instant

(* Three workspaces through two sessions, all wanting one slug. *)
Births == INSTANCE Provisioning WITH
  Session <- Connections, Workspace <- Workspaces, Slug <- Asked,
  pending <- flushed

(* A task of a lead, two labels, two members. *)
Tasks == INSTANCE Work WITH
  Task <- {"t1"}, Lead <- {"a"}, Label <- WorkLabels, Member <- DOMAIN Under,
  Name <- DOMAIN WithoutCase, Folded <- WithoutCase, Sees <- Under, Request <- Two, MaxNow <- 1, MaxEdits <- 4,
  Nil <- None, request <- workRequest, late <- lateWork, now <- workNow, edits <- workEdits

(* What the proofs assume of the constants of the parts they are about. *)
ASSUME ReportsConstants == Reports!SchedulesAssumption
ASSUME SchemaConstants == Schema!IdentityAssumption /\ Schema!FieldAssumption
ASSUME ValuesConstants == Values!IdentityAssumption /\ Values!FieldAssumption /\ Values!ValueAssumption
ASSUME RecurringConstants == Recurring!RecurAssumption
ASSUME SettingsConstants == Settings!PipelineAssumption
ASSUME PermissionsConstants == Permissions!AccessAssumption
ASSUME AuthConstants == Auth!SessionsAssumption
ASSUME BirthsConstants == Births!NoneIsNoWorkspace
ASSUME TasksConstants == Tasks!WorkAssumption

(* The variables of the parts a behaviour is not about. *)
NoReports == /\ clock = None /\ schedule = None /\ active = None
             /\ mailJob = None /\ mailed = None /\ repeats = None
             /\ mishaps = None /\ forgotten = None /\ overlaps = None /\ pressed = None
NoSchema == /\ field = None /\ options = None /\ identity = None
            /\ primary = None /\ pending = None /\ crossed = None
            /\ edits = None
NoValues == /\ values = None /\ raws = None
NoRecurring == /\ stored = None /\ today = None
NoSettings == /\ stage = None /\ disposition = None /\ reason = None
              /\ actionType = None /\ settingRequest = None
              /\ contested = None /\ overlapping = None
              /\ settingEdits = None
NoPermissions == /\ caps = None /\ grants = None /\ layout = None
                 /\ under = None /\ fields = None /\ accessRequest = None
                 /\ accessEdits = None
NoAuth == /\ password = None /\ weak = None /\ admitted = None
          /\ tokens = None /\ links = None /\ authRequest = None
          /\ ended = None /\ lateSessions = None
NoSearch == /\ person = None /\ viewable = None /\ history = None
            /\ instant = None
NoBirths == /\ scope = None /\ caller = None /\ rows = None /\ flushed = None
            /\ work = None
NoTasks == /\ tasks = None /\ timeline = None /\ deleted = None
           /\ labels = None /\ worn = None /\ workRequest = None
           /\ reopened = None /\ lateWork = None /\ workNow = None
           /\ workEdits = None

Init ==
  /\ focus \in {"reports", "schema", "values", "recurrence", "pipeline",
               "access", "sessions", "filters", "provisioning", "work"}
  /\ IF focus = "reports" THEN Reports!ScheduleInit ELSE NoReports
  /\ CASE focus = "schema" -> Schema!FieldInit /\ NoValues
       [] focus = "values" -> Values!ValueInit
       [] OTHER -> NoSchema /\ NoValues
  /\ IF focus = "recurrence" THEN Recurring!RecurInit ELSE NoRecurring
  /\ IF focus = "pipeline" THEN Settings!PipelineInit ELSE NoSettings
  /\ IF focus = "access" THEN Permissions!Init ELSE NoPermissions
  /\ IF focus = "sessions" THEN Auth!Init ELSE NoAuth
  /\ IF focus = "filters" THEN Search!Init ELSE NoSearch
  /\ IF focus = "provisioning" THEN Births!Init ELSE NoBirths
  /\ IF focus = "work" THEN Tasks!WorkInit ELSE NoTasks

RunReports ==
  /\ focus = "reports" /\ Reports!ScheduleNext
  /\ UNCHANGED <<focus, schemaVars, valueVars, recurVars,
                 pipelineVars, accessVars, sessionVars, filterVars,
                 birthVars, workVars>>
EditSchema ==
  /\ focus = "schema" /\ Schema!FieldNext
  /\ UNCHANGED <<focus, reportVars, valueVars, recurVars,
                 pipelineVars, accessVars, sessionVars, filterVars,
                 birthVars, workVars>>
WriteValues ==
  /\ focus = "values" /\ Values!ValueNext
  /\ UNCHANGED <<focus, reportVars, recurVars, pipelineVars,
                 accessVars, sessionVars, filterVars, birthVars, workVars>>
RunRecurrence ==
  /\ focus = "recurrence" /\ Recurring!RecurNext
  /\ UNCHANGED <<focus, reportVars, schemaVars, valueVars,
                 pipelineVars, accessVars, sessionVars, filterVars,
                 birthVars, workVars>>
EditPipeline ==
  /\ focus = "pipeline" /\ Settings!PipelineNext
  /\ UNCHANGED <<focus, reportVars, schemaVars, valueVars,
                 recurVars, accessVars, sessionVars, filterVars, birthVars,
                 workVars>>
EditAccess ==
  /\ focus = "access" /\ Permissions!Next
  /\ UNCHANGED <<focus, reportVars, schemaVars, valueVars,
                 recurVars, pipelineVars, sessionVars, filterVars, birthVars,
                 workVars>>
RunSessions ==
  /\ focus = "sessions" /\ Auth!Next
  /\ UNCHANGED <<focus, reportVars, schemaVars, valueVars,
                 recurVars, pipelineVars, accessVars, filterVars, birthVars,
                 workVars>>
RunFilters ==
  /\ focus = "filters" /\ Search!Next
  /\ UNCHANGED <<focus, reportVars, schemaVars, valueVars,
                 recurVars, pipelineVars, accessVars, sessionVars, birthVars,
                 workVars>>
RunProvisioning ==
  /\ focus = "provisioning" /\ Births!Next
  /\ UNCHANGED <<focus, reportVars, schemaVars, valueVars,
                 recurVars, pipelineVars, accessVars, sessionVars,
                 filterVars, workVars>>
RunWork ==
  /\ focus = "work" /\ Tasks!WorkNext
  /\ UNCHANGED <<focus, reportVars, schemaVars, valueVars,
                 recurVars, pipelineVars, accessVars, sessionVars,
                 filterVars, birthVars>>

Next ==
  \/ RunReports \/ EditSchema \/ WriteValues \/ RunRecurrence
  \/ EditPipeline \/ EditAccess \/ RunSessions \/ RunFilters
  \/ RunProvisioning \/ RunWork

vars ==
  <<focus, reportVars, schemaVars, valueVars, recurVars,
    pipelineVars, accessVars, sessionVars, filterVars, birthVars, workVars>>

Spec == Init /\ [][Next]_vars

(* Names that are interchangeable in every part. *)
Symmetry == Permutations(Tokens) \cup Permutations(Links) \cup Permutations(Requests)

-----------------------------------------------------------------------------
(* Properties, each of the behaviours that are about its part; the modules  *)
(* state them at length.                                                    *)

(* The state of the part in focus is type-correct. *)
TypeOK ==
  /\ focus = "reports" => Reports!ScheduleTypeOK
  /\ focus = "schema" => Schema!FieldTypeOK
  /\ focus = "values" => Values!FieldTypeOK
  /\ focus = "recurrence" => Recurring!RecurTypeOK
  /\ focus = "pipeline" => Settings!PipelineTypeOK
  /\ focus = "access" => Permissions!TypeOK
  /\ focus = "sessions" => Auth!TypeOK
  /\ focus = "filters" => Search!TypeOK
  /\ focus = "provisioning" => Births!TypeOK
  /\ focus = "work" => Tasks!WorkTypeOK

(* A schedule mails an occurrence again only for a press of "run now", a     *)
(* lost transaction or an overlap, one repeat each.                         *)
RepeatsExplained == focus = "reports" => Reports!RepeatsExplained

(* The identity field can be seen and can tell two leads apart, unless it    *)
(* was hidden and designated by requests that overlapped.                   *)
IdentityUsable == focus = "schema" => Schema!IdentityUsable

(* A copied option keeps the parent it had. *)
CopyKeepsTrees == [][focus = "schema" => Schema!CopiedTreesKept]_schemaVars

(* A stored value is in the normal form of its field, and its codes are       *)
(* options of that field.                                                   *)
StoredResolves == focus = "values" => Values!StoredResolves

(* A window lists the first date of a recurrence that falls in it. *)
FirstInWindow == focus = "recurrence" => Recurring!FirstInWindow

(* One live stage of each singleton kind and one live default disposition,   *)
(* but for overlapping requests.                                            *)
PipelineWhole == focus = "pipeline" => Settings!PipelineWhole

(* What acts under a template acts under one that exists; Root may do        *)
(* everything; a key no more than a member with its template.               *)
AccessStands == focus = "access" => Permissions!AccessStands

(* An ended family of tokens has none that rotates, and a user has one        *)
(* outstanding link, but for what was under way at that moment.             *)
EndedStaysEnded == focus = "sessions" => Auth!EndedStaysEnded

(* A compiled filter selects the leads it means and no other, but for three  *)
(* kinds of rule that err by themselves.                                    *)
FiltersMean == focus = "filters" => Search!FiltersMean

(* A workspace has all its parts or none, and a session reads where its      *)
(* owner last pointed it.                                                   *)
WorkspaceWhole == focus = "provisioning" => Births!WorkspaceWhole

(* The timeline and the three lists agree with the tasks, but for requests    *)
(* that decided by a row another one changed.                               *)
TimelineTellsTasks == focus = "work" => Tasks!TimelineTellsTasks
=============================================================================
