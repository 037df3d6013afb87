-------------------------------- MODULE Access --------------------------------
(***************************************************************************)
(* Who may do what to which field: permission templates and their matrix    *)
(* (services/permissions.py, models/permission.py, routers/                 *)
(* permission_templates.py), the scope a request runs in (tenancy/          *)
(* scoping.py), the gates (permissions/capabilities.py, projection.py) and  *)
(* the API keys that act under a template (auth/api_keys.py).               *)
(*                                                                         *)
(* Every endpoint is one transaction.  Deleting a template and writing its  *)
(* matrix decide by rows they do not lock, so those two are split.  Of the  *)
(* capability groups two matter here, for they open everything; the others  *)
(* open one kind of endpoint each.                                          *)
(***************************************************************************)
EXTENDS Integers, FiniteSets

CONSTANTS
  Template,   \* rows of permission_templates; Root is one of them
  Root,       \* the readonly one
  Holder,     \* what acts under a template: members, API keys, endpoints
  Member,     \* those of them that are memberships
  FieldName,  \* fields of the workspace
  Slot,       \* one per request that may be half way through
  MaxChanges, \* bound on changes
  NoRow       \* SQL NULL, and a row that is not there

VARIABLES
  caps,      \* groups each template has admin access in; NoRow without a row
  grants,    \* template_field_grants: template, field and grant
  layout,    \* fields named by each template's lead view
  under,     \* the template of each holder; NoRow before it exists
  fields,    \* fields that exist
  request,   \* what each request read
  changes    \* changes so far

vars == <<caps, grants, layout, under, fields, request, changes>>

Grant == {"VIEW", "EDIT", "IMPORT", "EXPORT"}
Group == {"leads", "permissions"}
Idle == [op |-> NoRow, template |-> NoRow, touched |-> {}, seen |-> {}, wanted |-> {}]

Exists(t) == caps[t] # NoRow
Row(t, f) == {g \in grants : g[1] = t /\ g[2] = f}
RowsOf(t) == {g \in grants : g[1] = t}

Init ==
  /\ caps = [t \in Template |-> IF t = Root THEN Group ELSE NoRow]
  /\ \E f \in FieldName : fields = {f} /\ grants = {<<Root, f, g>> : g \in Grant}
  /\ layout = [t \in Template |-> {}]
  /\ \E m \in Member : under = [h \in Holder |-> IF h = m THEN Root ELSE NoRow]
  /\ request = [q \in Slot |-> Idle]
  /\ changes = 0

Change == changes < MaxChanges /\ changes' = changes + 1

-----------------------------------------------------------------------------
(* The scope of a request.  An administrator of leads or of permissions      *)
(* sees every field; a key only knows the first.                            *)
AdminOfBoth(t) == {"leads", "permissions"} \subseteq caps[t]  \* mutant: both flags are asked for
Admin(t) == {"leads", "permissions"} \cap caps[t] # {}
KeyAdmin(t) == "leads" \in caps[t]

(* load_grants and FieldGrants.can_view and its like. *)
Allowed(admin, t, f, g) == admin \/ <<t, f, g>> \in grants
May(h, f, g) ==
  /\ under[h] # NoRow
  /\ Allowed(IF h \in Member THEN Admin(under[h]) ELSE KeyAdmin(under[h]), under[h], f, g)

(* project_values, project_export and FieldWriteFilter.check. *)
Seen(h) == {f \in fields : May(h, f, "VIEW")}
Writable(h, keys) == \A f \in keys \cap fields : May(h, f, "EDIT")

-----------------------------------------------------------------------------
(* Templates.  Root is view-only. *)
RequireAnyTemplate(t) == Exists(t)  \* mutant: is_readonly is not looked at
RequireEditable(t) == Exists(t) /\ t # Root

(* A new template may view every field there is. *)
CreateTemplate(t, groups) ==
  /\ ~Exists(t)
  /\ caps' = [caps EXCEPT ![t] = groups]
  /\ grants' = grants \cup {<<t, f, "VIEW">> : f \in fields}
  /\ Change
  /\ UNCHANGED <<layout, under, fields, request>>

UpdateTemplate(t, groups) ==
  /\ RequireEditable(t)
  /\ caps' = [caps EXCEPT ![t] = groups]
  /\ Change
  /\ UNCHANGED <<grants, layout, under, fields, request>>

(* delete_template: no membership holds it, as far as it can see. *)
BeginDelete(q, t) ==
  /\ request[q].op = NoRow
  /\ RequireEditable(t)
  /\ \A m \in Member : under[m] # t
  /\ request' = [request EXCEPT ![q] = [Idle EXCEPT !.op = "delete", !.template = t]]
  /\ Change
  /\ UNCHANGED <<caps, grants, layout, under, fields>>

(* memberships.template_id, api_keys and webhook endpoints restrict the      *)
(* deletion; the matrix and the lead view go with the template.             *)
UnrestrictedBy(t) == TRUE  \* mutant: no foreign key restricts
Restricts(t) == \A h \in Holder : under[h] # t

CommitDelete(q) ==
  LET t == request[q].template
  IN /\ request[q].op = "delete"
     /\ Restricts(t)
     /\ caps' = [caps EXCEPT ![t] = NoRow]
     /\ grants' = grants \ RowsOf(t)
     /\ layout' = [layout EXCEPT ![t] = {}]
     /\ request' = [request EXCEPT ![q] = Idle]
     /\ UNCHANGED <<under, fields, changes>>

-----------------------------------------------------------------------------
(* The matrix: replace_field_grants for the fields on screen, and            *)
(* bulk_set_grant for one column.  What is deleted is what the statement     *)
(* finds; rows inserted meanwhile stay.                                     *)
BeginGrants(q, t, touched, what, columns) ==
  /\ request[q].op = NoRow
  /\ RequireEditable(t)
  /\ touched # {} /\ touched \subseteq fields
  /\ request' = [request EXCEPT ![q] =
       [op |-> "grants", template |-> t, touched |-> touched,
        seen |-> {g \in RowsOf(t) : g[2] \in touched /\ g[3] \in columns},
        wanted |-> {<<t, f, g>> : f \in touched, g \in what \cap columns}]]
  /\ Change
  /\ UNCHANGED <<caps, grants, layout, under, fields>>

(* The primary key refuses a row that came meanwhile, the foreign key a      *)
(* template that went.                                                      *)
CommitGrants(q) ==
  LET r == request[q]
  IN /\ r.op = "grants"
     /\ Exists(r.template)
     /\ r.wanted \cap (grants \ r.seen) = {}
     /\ grants' = (grants \ r.seen) \cup r.wanted
     /\ request' = [request EXCEPT ![q] = Idle]
     /\ UNCHANGED <<caps, layout, under, fields, changes>>

Abort(q) ==
  /\ request[q].op # NoRow
  /\ request' = [request EXCEPT ![q] = Idle]
  /\ UNCHANGED <<caps, grants, layout, under, fields, changes>>

SetLeadView(t, named) ==
  /\ RequireEditable(t) /\ named \subseteq fields
  /\ layout' = [layout EXCEPT ![t] = named]
  /\ Change
  /\ UNCHANGED <<caps, grants, under, fields, request>>

(* set_template and invite, and the creation of a key or an endpoint. *)
PutUnder(h, t) ==
  /\ Exists(t)
  /\ h \notin Member => under[h] = NoRow
  /\ under' = [under EXCEPT ![h] = t]
  /\ Change
  /\ UNCHANGED <<caps, grants, layout, fields, request>>

(* A field is born without a grant. *)
AddField(f) ==
  /\ f \notin fields
  /\ fields' = fields \cup {f}
  /\ Change
  /\ UNCHANGED <<caps, grants, layout, under, request>>

-----------------------------------------------------------------------------
Next ==
  \/ \E t \in Template, groups \in SUBSET Group : CreateTemplate(t, groups) \/ UpdateTemplate(t, groups)
  \/ \E t \in Template, named \in SUBSET fields : SetLeadView(t, named)
  \/ \E h \in Holder, t \in Template : PutUnder(h, t)
  \/ \E f \in FieldName : AddField(f)
  \/ \E q \in Slot :
       \/ CommitDelete(q) \/ CommitGrants(q) \/ Abort(q)
       \/ \E t \in Template :
            \/ BeginDelete(q, t)
            \/ \E touched \in SUBSET fields, what \in {{}, {"VIEW"}, {"VIEW", "EDIT"}} :
                 BeginGrants(q, t, touched, what, Grant)
            \/ \E touched \in SUBSET fields, g \in {"EDIT"}, what \in {{}, Grant} :
                 BeginGrants(q, t, touched, what, {g})

Spec == Init /\ [][Next]_vars

-----------------------------------------------------------------------------
(* Properties. *)

TypeOK ==
  /\ \A g \in grants : g \in Template \X fields \X Grant /\ Exists(g[1])
  /\ \A t \in Template : layout[t] \subseteq fields /\ (~Exists(t) => layout[t] = {})
  /\ \A h \in Holder : under[h] \in Template \cup {NoRow}

(* "Deleting an assigned template would leave a membership pointing at      *)
(* nothing", and Root "has to keep working when an admin misconfigures      *)
(* everything else": whatever is edited, deleted and assigned at the same    *)
(* time, what acts under a template acts under one that exists, whoever      *)
(* holds Root may view and edit every field there is, and an API key may do  *)
(* nothing to a field that a member with its template may not.              *)
AccessStands ==
  /\ \A h \in Holder : under[h] # NoRow => Exists(under[h])
  /\ \A m \in Member : under[m] = Root => Seen(m) = fields /\ Writable(m, fields)
  /\ \A h \in Holder \ Member, f \in fields, g \in Grant :
       May(h, f, g) => Allowed(Admin(under[h]), under[h], f, g)

-----------------------------------------------------------------------------
(* What makes AccessStands inductive.  A request decided by rows it did not  *)
(* lock; what it decided stays true of Root, which is never one's template.  *)

AccessAssumption ==
  /\ Root \in Template /\ Member \subseteq Holder
  /\ NoRow \notin Template /\ NoRow \notin {"delete", "grants"} /\ \A groups \in SUBSET Group : groups # NoRow

GrantRow == Template \X FieldName \X Grant
RequestRow ==
  [op : {"delete", "grants", NoRow}, template : Template \cup {NoRow}, touched : SUBSET FieldName,
   seen : SUBSET GrantRow, wanted : SUBSET GrantRow]

ShapeInv ==
  /\ caps \in [Template -> {NoRow} \cup SUBSET Group]
  /\ fields \subseteq FieldName /\ grants \subseteq GrantRow
  /\ layout \in [Template -> SUBSET fields]
  /\ under \in [Holder -> Template \cup {NoRow}]
  /\ request \in [Slot -> RequestRow]

RequestsInv ==
  \A q \in Slot : request[q].op # NoRow =>
    /\ request[q].template \in Template \ {Root}
    /\ \A g \in request[q].wanted : g[1] = request[q].template /\ g[2] \in fields

AccessInv ==
  /\ ShapeInv /\ RequestsInv
  /\ caps[Root] = Group
  /\ \A g \in grants : Exists(g[1]) /\ g[2] \in fields
  /\ \A t \in Template : ~Exists(t) => layout[t] = {}
  /\ \A h \in Holder : under[h] # NoRow => Exists(under[h])
=============================================================================
