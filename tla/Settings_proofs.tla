--------------------------- MODULE Settings_proofs ---------------------------
(* Proofs about what an administrator sets up: the permission templates      *)
(* (Access), the lead schema (Fields) with the values written under it       *)
(* (FieldValues) and the pipeline (Pipeline), for any templates, fields,     *)
(* labels, options, values, stages, rows and overlapping calls, with no      *)
(* bound on the edits.                                                       *)
EXTENDS Access, FieldValues, Pipeline, FiniteSetTheorems, SequenceTheorems,
        WellFoundedInduction, TLAPS

-----------------------------------------------------------------------------
(* Access. *)

LEMMA IdleTyped ==
  ASSUME AccessAssumption
  PROVE  Idle \in RequestRow /\ Idle.op = NoRow
BY DEF Idle, RequestRow

(* A request's slot filled or emptied. *)
LEMMA RequestKept ==
  ASSUME ShapeInv, RequestsInv, fields \subseteq fields', NEW q \in Slot,
         NEW r \in RequestRow,
         r.op # NoRow =>
           /\ r.template \in Template \ {Root}
           /\ \A g \in r.wanted : g[1] = r.template /\ g[2] \in fields,
         request' = [request EXCEPT ![q] = r]
  PROVE  request' \in [Slot -> RequestRow] /\ RequestsInv'
<1>1. /\ request'[q] = r /\ request' \in [Slot -> RequestRow]
      /\ \A p \in Slot \ {q} : request'[p] = request[p]
  BY DEF ShapeInv
<1>2. QED
  BY <1>1 DEF RequestsInv

LEMMA AccessInit ==
  ASSUME AccessAssumption, Init
  PROVE  AccessInv
<1>1. PICK f \in FieldName : fields = {f} /\ grants = {<<Root, f, g>> : g \in Grant}
  BY DEF Init
<1>2. PICK m \in Member : under = [h \in Holder |-> IF h = m THEN Root ELSE NoRow]
  BY DEF Init
<1>3. /\ caps = [t \in Template |-> IF t = Root THEN Group ELSE NoRow]
      /\ layout = [t \in Template |-> {}] /\ request = [q \in Slot |-> Idle]
  BY DEF Init
<1>4. Group \in SUBSET Group /\ Root \in Template /\ Group # NoRow
  BY DEF AccessAssumption
<1>5. ShapeInv
  <2>1. grants \subseteq GrantRow
    BY <1>1, <1>4 DEF GrantRow
  <2>2. caps \in [Template -> {NoRow} \cup SUBSET Group]
    BY <1>3, <1>4
  <2>3. under \in [Holder -> Template \cup {NoRow}]
    BY <1>2, <1>4
  <2>4. QED
    BY <1>1, <1>3, <2>1, <2>2, <2>3, IdleTyped DEF ShapeInv
<1>6. RequestsInv
  BY <1>3, IdleTyped DEF RequestsInv
<1>7. caps[Root] = Group /\ Exists(Root)
  BY <1>3, <1>4 DEF Exists
<1>8. \A g \in grants : Exists(g[1]) /\ g[2] \in fields
  BY <1>1, <1>7
<1>9. QED
  BY <1>2, <1>3, <1>5, <1>6, <1>7, <1>8 DEF AccessInv

LEMMA CreateKeeps ==
  ASSUME AccessAssumption, AccessInv, NEW t \in Template, NEW groups \in SUBSET Group,
         CreateTemplate(t, groups)
  PROVE  AccessInv'
<1>1. /\ ~Exists(t) /\ caps' = [caps EXCEPT ![t] = groups]
      /\ grants' = grants \cup {<<t, f, "VIEW">> : f \in fields}
      /\ layout' = layout /\ under' = under /\ fields' = fields /\ request' = request
  BY DEF CreateTemplate
<1>2. t # Root
  BY <1>1 DEF AccessInv, Exists, AccessAssumption
<1>3. groups # NoRow
  BY DEF AccessAssumption
<1>4. \A x \in Template : Exists(x)' <=> Exists(x) \/ x = t
  BY <1>1, <1>3 DEF AccessInv, ShapeInv, Exists
<1>5. grants' \subseteq GrantRow
  <2>1. \A f \in fields : <<t, f, "VIEW">> \in GrantRow
    BY DEF AccessInv, ShapeInv, GrantRow, Grant
  <2>2. QED
    BY <1>1, <2>1 DEF AccessInv, ShapeInv
<1>6. ShapeInv' /\ RequestsInv'
  BY <1>1, <1>5 DEF AccessInv, ShapeInv, RequestsInv
<1>7. caps'[Root] = Group
  BY <1>1, <1>2 DEF AccessInv, ShapeInv, AccessAssumption
<1>8. \A g \in grants' : Exists(g[1])' /\ g[2] \in fields'
  <2>1. \A g \in grants : g[1] \in Template
    BY DEF AccessInv, ShapeInv, GrantRow
  <2>2. \A f \in fields : <<t, f, "VIEW">>[1] = t /\ <<t, f, "VIEW">>[2] = f
    OBVIOUS
  <2>3. \A g \in grants : Exists(g[1])' /\ g[2] \in fields'
    BY <1>1, <1>4, <2>1 DEF AccessInv
  <2>4. QED
    BY <1>1, <1>4, <2>2, <2>3
<1>9. \A x \in Template : ~Exists(x)' => layout'[x] = {}
  BY <1>1, <1>4 DEF AccessInv
<1>10. \A h \in Holder : under'[h] # NoRow => Exists(under[h])'
  BY <1>1, <1>4 DEF AccessInv, ShapeInv
<1>11. QED
  BY <1>6, <1>7, <1>8, <1>9, <1>10, <1>1 DEF AccessInv

LEMMA UpdateKeeps ==
  ASSUME AccessAssumption, AccessInv, NEW t \in Template, NEW groups \in SUBSET Group,
         UpdateTemplate(t, groups)
  PROVE  AccessInv'
<1>1. /\ Exists(t) /\ t # Root /\ caps' = [caps EXCEPT ![t] = groups]
      /\ grants' = grants /\ layout' = layout /\ under' = under
      /\ fields' = fields /\ request' = request
  BY DEF UpdateTemplate, RequireEditable
<1>2. groups # NoRow
  BY DEF AccessAssumption
<1>3. \A x \in Template : Exists(x)' <=> Exists(x)
  BY <1>1, <1>2 DEF AccessInv, ShapeInv, Exists
<1>4. ShapeInv' /\ RequestsInv'
  BY <1>1 DEF AccessInv, ShapeInv, RequestsInv
<1>5. caps'[Root] = Group
  BY <1>1 DEF AccessInv, ShapeInv, AccessAssumption
<1>6. \A g \in grants' : Exists(g[1])' /\ g[2] \in fields'
  BY <1>1, <1>3 DEF AccessInv, ShapeInv, GrantRow
<1>7. \A x \in Template : ~Exists(x)' => layout'[x] = {}
  BY <1>1, <1>3 DEF AccessInv
<1>8. \A h \in Holder : under'[h] # NoRow => Exists(under[h])'
  BY <1>1, <1>3 DEF AccessInv, ShapeInv
<1>9. QED
  BY <1>1, <1>4, <1>5, <1>6, <1>7, <1>8 DEF AccessInv

(* What only writes the slot of a request: begin and abort. *)
LEMMA SlotKeeps ==
  ASSUME AccessAssumption, AccessInv, NEW q \in Slot, NEW r \in RequestRow,
         r.op # NoRow =>
           /\ r.template \in Template \ {Root}
           /\ \A g \in r.wanted : g[1] = r.template /\ g[2] \in fields,
         request' = [request EXCEPT ![q] = r],
         UNCHANGED <<caps, grants, layout, under, fields>>
  PROVE  AccessInv'
<1>1. request' \in [Slot -> RequestRow] /\ RequestsInv'
  BY RequestKept DEF AccessInv
<1>2. QED
  BY <1>1 DEF AccessInv, ShapeInv, Exists

LEMMA BeginDeleteKeeps ==
  ASSUME AccessAssumption, AccessInv, NEW q \in Slot, NEW t \in Template, BeginDelete(q, t)
  PROVE  AccessInv'
<1>1. PICK r : r = [Idle EXCEPT !.op = "delete", !.template = t]
  OBVIOUS
<1>2. r \in RequestRow /\ r.template = t /\ r.wanted = {}
  BY <1>1 DEF Idle, RequestRow
<1>3. t # Root /\ request' = [request EXCEPT ![q] = r]
  BY <1>1 DEF BeginDelete, RequireEditable
<1>4. UNCHANGED <<caps, grants, layout, under, fields>>
  BY DEF BeginDelete
<1>5. QED
  BY <1>2, <1>3, <1>4, SlotKeeps

LEMMA BeginGrantsKeeps ==
  ASSUME AccessAssumption, AccessInv, NEW q \in Slot, NEW t \in Template, NEW touched,
         NEW what \in SUBSET Grant, NEW columns, BeginGrants(q, t, touched, what, columns)
  PROVE  AccessInv'
<1> DEFINE found == {g \in RowsOf(t) : g[2] \in touched /\ g[3] \in columns}
           wish == {<<t, f, g>> : f \in touched, g \in what \cap columns}
           r == [op |-> "grants", template |-> t, touched |-> touched,
                 seen |-> found, wanted |-> wish]
<1>1. touched \subseteq fields /\ touched \in SUBSET FieldName
  BY DEF BeginGrants, AccessInv, ShapeInv
<1>2. found \in SUBSET GrantRow
  BY DEF RowsOf, AccessInv, ShapeInv
<1>3. wish \in SUBSET GrantRow /\ \A g \in wish : g[1] = t /\ g[2] \in fields
  BY <1>1 DEF GrantRow
<1>4. t # Root /\ request' = [request EXCEPT ![q] = r]
  BY DEF BeginGrants, RequireEditable
<1>5. UNCHANGED <<caps, grants, layout, under, fields>>
  BY DEF BeginGrants
<1> HIDE DEF found, wish
<1>6. r \in RequestRow /\ r.template = t /\ r.wanted = wish
  BY <1>1, <1>2, <1>3 DEF RequestRow
<1> HIDE DEF r
<1>7. QED
  BY <1>3, <1>4, <1>5, <1>6, SlotKeeps

LEMMA AbortKeeps ==
  ASSUME AccessAssumption, AccessInv, NEW q \in Slot, Abort(q)
  PROVE  AccessInv'
BY IdleTyped, SlotKeeps DEF Abort

(* Nobody is under the template that goes, and it is not Root. *)
LEMMA CommitDeleteKeeps ==
  ASSUME AccessAssumption, AccessInv, NEW q \in Slot, CommitDelete(q)
  PROVE  AccessInv'
<1>1. PICK t : t = request[q].template
  OBVIOUS
<1>2. /\ request[q].op = "delete" /\ \A h \in Holder : under[h] # t
      /\ caps' = [caps EXCEPT ![t] = NoRow] /\ grants' = grants \ RowsOf(t)
      /\ layout' = [layout EXCEPT ![t] = {}]
      /\ request' = [request EXCEPT ![q] = Idle]
      /\ under' = under /\ fields' = fields
  BY <1>1 DEF CommitDelete, Restricts
<1>3. t \in Template \ {Root}
  BY <1>1, <1>2 DEF AccessInv, RequestsInv, AccessAssumption
<1>4. request' \in [Slot -> RequestRow] /\ RequestsInv'
  BY <1>2, IdleTyped, RequestKept DEF AccessInv
<1>5. ShapeInv'
  BY <1>2, <1>3, <1>4 DEF AccessInv, ShapeInv
<1>6. \A x \in Template \ {t} : Exists(x)' <=> Exists(x)
  BY <1>2 DEF AccessInv, ShapeInv, Exists
<1>7. caps'[Root] = Group
  BY <1>2, <1>3 DEF AccessInv, ShapeInv, AccessAssumption
<1>8. \A g \in grants' : Exists(g[1])' /\ g[2] \in fields'
  <2>1. \A g \in grants' : g \in grants /\ g[1] # t /\ g[1] \in Template
    BY <1>2 DEF RowsOf, AccessInv, ShapeInv, GrantRow
  <2>2. QED
    BY <1>2, <1>6, <2>1 DEF AccessInv
<1>9. \A x \in Template : ~Exists(x)' => layout'[x] = {}
  BY <1>2, <1>6 DEF AccessInv, ShapeInv
<1>10. \A h \in Holder : under'[h] # NoRow => Exists(under[h])'
  BY <1>2, <1>6 DEF AccessInv, ShapeInv
<1>11. QED
  BY <1>4, <1>5, <1>7, <1>8, <1>9, <1>10 DEF AccessInv

LEMMA CommitGrantsKeeps ==
  ASSUME AccessAssumption, AccessInv, NEW q \in Slot, CommitGrants(q)
  PROVE  AccessInv'
<1>1. PICK r : r = request[q]
  OBVIOUS
<1>2. /\ r.op = "grants" /\ Exists(r.template)
      /\ grants' = (grants \ r.seen) \cup r.wanted
      /\ request' = [request EXCEPT ![q] = Idle]
      /\ caps' = caps /\ layout' = layout /\ under' = under /\ fields' = fields
  BY <1>1 DEF CommitGrants
<1>3. /\ r \in RequestRow /\ r.template \in Template \ {Root}
      /\ \A g \in r.wanted : g[1] = r.template /\ g[2] \in fields
  BY <1>1, <1>2 DEF AccessInv, ShapeInv, RequestsInv, AccessAssumption
<1>4. request' \in [Slot -> RequestRow] /\ RequestsInv'
  BY <1>2, IdleTyped, RequestKept DEF AccessInv
<1>5. grants' \subseteq GrantRow
  BY <1>2, <1>3 DEF AccessInv, ShapeInv, RequestRow
<1>6. ShapeInv'
  BY <1>2, <1>4, <1>5 DEF AccessInv, ShapeInv
<1>7. \A t : Exists(t)' <=> Exists(t)
  BY <1>2 DEF Exists
<1>8. \A g \in grants' : Exists(g[1])' /\ g[2] \in fields'
  BY <1>2, <1>3, <1>7 DEF AccessInv
<1>9. QED
  BY <1>2, <1>4, <1>6, <1>7, <1>8 DEF AccessInv

LEMMA LeadViewKeeps ==
  ASSUME AccessAssumption, AccessInv, NEW t \in Template, NEW named, SetLeadView(t, named)
  PROVE  AccessInv'
<1>1. /\ Exists(t) /\ named \subseteq fields /\ layout' = [layout EXCEPT ![t] = named]
      /\ caps' = caps /\ grants' = grants /\ under' = under
      /\ fields' = fields /\ request' = request
  BY DEF SetLeadView, RequireEditable
<1>2. \A x : Exists(x)' <=> Exists(x)
  BY <1>1 DEF Exists
<1>3. ShapeInv' /\ RequestsInv'
  BY <1>1 DEF AccessInv, ShapeInv, RequestsInv
<1>4. \A x \in Template : ~Exists(x)' => layout'[x] = {}
  BY <1>1, <1>2 DEF AccessInv, ShapeInv
<1>5. QED
  BY <1>1, <1>2, <1>3, <1>4 DEF AccessInv

LEMMA PutUnderKeeps ==
  ASSUME AccessAssumption, AccessInv, NEW h \in Holder, NEW t \in Template, PutUnder(h, t)
  PROVE  AccessInv'
<1>1. /\ Exists(t) /\ under' = [under EXCEPT ![h] = t]
      /\ caps' = caps /\ grants' = grants /\ layout' = layout
      /\ fields' = fields /\ request' = request
  BY DEF PutUnder
<1>2. \A x : Exists(x)' <=> Exists(x)
  BY <1>1 DEF Exists
<1>3. ShapeInv' /\ RequestsInv'
  BY <1>1 DEF AccessInv, ShapeInv, RequestsInv
<1>4. \A x \in Holder : under'[x] # NoRow => Exists(under'[x])
  BY <1>1 DEF AccessInv, ShapeInv
<1>5. \A x \in Holder : under'[x] # NoRow => Exists(under[x])'
  BY <1>1, <1>4 DEF Exists
<1>6. QED
  BY <1>1, <1>2, <1>3, <1>5 DEF AccessInv

LEMMA AddFieldKeeps ==
  ASSUME AccessAssumption, AccessInv, NEW f \in FieldName, AddField(f)
  PROVE  AccessInv'
<1>1. /\ fields' = fields \cup {f} /\ caps' = caps /\ grants' = grants
      /\ layout' = layout /\ under' = under /\ request' = request
  BY DEF AddField
<1>2. \A x : Exists(x)' <=> Exists(x)
  BY <1>1 DEF Exists
<1>3. ShapeInv' /\ RequestsInv'
  BY <1>1 DEF AccessInv, ShapeInv, RequestsInv
<1>4. QED
  BY <1>1, <1>2, <1>3 DEF AccessInv

LEMMA AccessInductive ==
  ASSUME AccessAssumption, AccessInv, [Next]_vars
  PROVE  AccessInv'
<1>1. CASE \E t \in Template, groups \in SUBSET Group :
             CreateTemplate(t, groups) \/ UpdateTemplate(t, groups)
  BY <1>1, CreateKeeps, UpdateKeeps
<1>2. CASE \E t \in Template, named \in SUBSET fields : SetLeadView(t, named)
  BY <1>2, LeadViewKeeps
<1>3. CASE \E h \in Holder, t \in Template : PutUnder(h, t)
  BY <1>3, PutUnderKeeps
<1>4. CASE \E f \in FieldName : AddField(f)
  BY <1>4, AddFieldKeeps
<1>5. CASE \E q \in Slot : CommitDelete(q) \/ CommitGrants(q) \/ Abort(q)
  BY <1>5, CommitDeleteKeeps, CommitGrantsKeeps, AbortKeeps
<1>6. CASE \E q \in Slot, t \in Template : BeginDelete(q, t)
  BY <1>6, BeginDeleteKeeps
<1>7. CASE \E q \in Slot, t \in Template, touched \in SUBSET fields, what \in SUBSET Grant,
              columns \in SUBSET Grant : BeginGrants(q, t, touched, what, columns)
  BY <1>7, BeginGrantsKeeps
<1>8. CASE UNCHANGED vars
  BY <1>8 DEF vars, AccessInv, ShapeInv, RequestsInv, Exists
<1>9. Grant \in SUBSET Grant /\ {"EDIT"} \in SUBSET Grant
      /\ {{}, {"VIEW"}, {"VIEW", "EDIT"}} \cup {{}, Grant} \subseteq SUBSET Grant
  BY DEF Grant
<1>10. QED
  <2>1. ASSUME NEW q \in Slot, NEW t \in Template, NEW touched \in SUBSET fields,
               NEW what \in {{}, {"VIEW"}, {"VIEW", "EDIT"}}, BeginGrants(q, t, touched, what, Grant)
        PROVE  AccessInv'
    BY <1>7, <1>9, <2>1
  <2>2. ASSUME NEW q \in Slot, NEW t \in Template, NEW touched \in SUBSET fields,
               NEW g \in {"EDIT"}, NEW what \in {{}, Grant}, BeginGrants(q, t, touched, what, {g})
        PROVE  AccessInv'
    BY <1>7, <1>9, <2>2
  <2>3. QED
    BY <1>1, <1>2, <1>3, <1>4, <1>5, <1>6, <1>8, <2>1, <2>2 DEF Next

(* The strengthening AccessInv is an invariant of the specification. *)
THEOREM AccessAlways ==
  ASSUME AccessAssumption
  PROVE  Spec => []AccessInv
<1>1. Init => AccessInv
  BY AccessInit
<1>2. AccessInv /\ [Next]_vars => AccessInv'
  BY AccessInductive
<1>3. QED
  BY <1>1, <1>2, PTL DEF Spec

(* Type correctness: every row of the matrix and of a lead view is of a      *)
(* template and of fields that exist.                                       *)
THEOREM AccessTypeCorrect ==
  ASSUME AccessAssumption
  PROVE  Spec => []TypeOK
<1>1. ASSUME AccessInv
      PROVE  TypeOK
  <2>1. \A g \in grants : g \in Template \X fields \X Grant /\ Exists(g[1])
    BY <1>1 DEF AccessInv, ShapeInv, GrantRow
  <2>2. \A t \in Template : layout[t] \subseteq fields /\ (~Exists(t) => layout[t] = {})
    BY <1>1 DEF AccessInv, ShapeInv
  <2>3. \A h \in Holder : under[h] \in Template \cup {NoRow}
    BY <1>1 DEF AccessInv, ShapeInv
  <2>4. QED
    BY <2>1, <2>2, <2>3 DEF TypeOK
<1>2. QED
  BY <1>1, AccessAlways, PTL

(* However templates are edited, deleted and assigned at the same time, what *)
(* acts under one acts under one that exists, the holders of Root may view   *)
(* and edit every field, and a key may do no more than a member with its     *)
(* template.                                                                *)
THEOREM Stands ==
  ASSUME AccessAssumption
  PROVE  Spec => []AccessStands
<1>1. ASSUME AccessInv
      PROVE  AccessStands
  <2>1. \A h \in Holder : under[h] # NoRow => Exists(under[h])
    BY <1>1 DEF AccessInv
  <2>2. \A m \in Member : under[m] = Root => Seen(m) = fields /\ Writable(m, fields)
    <3>1. TAKE m \in Member
    <3>2. HAVE under[m] = Root
    <3>3. Root # NoRow /\ Admin(Root)
      BY <1>1 DEF AccessInv, AccessAssumption, Admin, Group
    <3>4. \A f, g : May(m, f, g)
      BY <3>2, <3>3 DEF May, Allowed
    <3>5. QED
      BY <3>4 DEF Seen, Writable
  <2>3. \A h \in Holder \ Member, f \in fields, g \in Grant :
          May(h, f, g) => Allowed(Admin(under[h]), under[h], f, g)
    BY DEF May, Allowed, Admin, KeyAdmin
  <2>4. QED
    BY <2>1, <2>2, <2>3 DEF AccessStands
<1>2. QED
  BY <1>1, AccessAlways, PTL

-----------------------------------------------------------------------------
(* A slug that is taken is numbered until it is free. *)

LEMMA NatLeast ==
  ASSUME NEW S \in SUBSET Nat, S # {}
  PROVE  \E n \in S : \A m \in S : n <= m
<1> DEFINE Below == {0 .. n : n \in S}
<1>1. Below \subseteq FiniteSubsetsOf(Nat)
  <2>1. \A n \in S : IsFiniteSet(0 .. n) /\ 0 .. n \subseteq Nat
    BY FS_Interval
  <2>2. QED
    BY <2>1 DEF FiniteSubsetsOf
<1>2. Below # {} /\ IsWellFoundedOn(StrictSubsetOrdering(Nat), FiniteSubsetsOf(Nat))
  BY FS_StrictSubsetOrderingWellFounded
<1>3. PICK low \in Below : \A other \in Below : <<other, low>> \notin StrictSubsetOrdering(Nat)
  <2> HIDE DEF Below
  <2> QED
    BY <1>1, <1>2, WFMin
<1>4. PICK n \in S : low = 0 .. n
  BY <1>3
<1>5. ASSUME NEW m \in S, m < n
      PROVE  FALSE
  <2>1. 0 .. m \in Below /\ 0 .. m \subseteq 0 .. n /\ 0 .. m # 0 .. n
    BY <1>5
  <2>2. <<0 .. m, 0 .. n>> \in StrictSubsetOrdering(Nat)
    BY <2>1 DEF StrictSubsetOrdering
  <2>3. QED
    BY <2>1, <2>2, <1>3, <1>4
<1>6. QED
  BY <1>5

LEMMA TakenCounted ==
  ASSUME NEW taken, IsFiniteSet(taken)
  PROVE  Len(SetToSeq(taken)) = Cardinality(taken) /\ Cardinality(taken) \in Nat
<1>1. Cardinality(taken) \in Nat /\ ExistsBijection(1 .. Cardinality(taken), taken)
  BY FS_CardinalityType
<1>2. \E f \in [1 .. Cardinality(taken) -> taken] : IsInjective(f)
  BY <1>1 DEF ExistsBijection, Bijection, Injection
<1>3. SetToSeq(taken) \in [1 .. Cardinality(taken) -> taken]
  BY <1>2 DEF SetToSeq
<1>4. QED
  BY <1>1, <1>3

LEMMA SlugIsNew ==
  ASSUME NEW S, Nat \subseteq S, NEW slug \in Seq(S), NEW taken, IsFiniteSet(taken)
  PROVE  Slugify(slug, taken) \in Seq(S) /\ Slugify(slug, taken) \notin taken
<1> DEFINE N == Cardinality(taken)
           Numbers == 2 .. (Len(SetToSeq(taken)) + 2)
           free == {n \in Numbers : Append(slug, n) \notin taken}
<1>1. N \in Nat /\ Numbers = 2 .. (N + 2)
  BY TakenCounted
<1>2. Numbers \subseteq Nat /\ Numbers \subseteq S
  BY <1>1
<1>3. IsFiniteSet(Numbers) /\ Cardinality(Numbers) = N + 1
  BY <1>1, FS_Interval
<1>4. free # {}
  <2> SUFFICES ASSUME free = {}
               PROVE  FALSE
    OBVIOUS
  <2>1. \A n \in Numbers : Append(slug, n) \in taken
    OBVIOUS
  <2> DEFINE f == [n \in Numbers |-> Append(slug, n)]
  <2> HIDE DEF Numbers, N, free
  <2>2. f \in [Numbers -> taken]
    BY <2>1
  <2>3. Cardinality(taken) < Cardinality(Numbers)
    BY <1>1, <1>3 DEF N
  <2> HIDE DEF f
  <2>4. PICK m \in Numbers, n \in Numbers : m # n /\ f[m] = f[n]
    BY <1>3, <2>2, <2>3, FS_PigeonHole
  <2>5. Append(slug, m) = Append(slug, n)
    BY <2>4 DEF f
  <2>6. m = n
    BY <1>2, <2>5, AppendInjective
  <2>7. QED
    BY <2>4, <2>6
<1>5. \E n \in free : \A k \in free : n <= k
  <2>1. free \in SUBSET Nat
    BY <1>2
  <2> HIDE DEF free
  <2>2. QED
    BY <1>4, <2>1, NatLeast
<1> DEFINE least == CHOOSE n \in free : \A k \in free : n <= k
<1>6. least \in free
  BY <1>5
<1>7. Append(slug, least) \notin taken /\ least \in S
  BY <1>2, <1>6
<1>8. Append(slug, least) \in Seq(S)
  BY <1>7, AppendProperties
<1>9. Slugify(slug, taken) = IF slug \notin taken THEN slug ELSE Append(slug, least)
  BY DEF Slugify
<1>10. QED
  BY <1>7, <1>8, <1>9

-----------------------------------------------------------------------------
(* Fields: the identity. *)

RowNames == {"exists", "label", "key", "type", "builtin", "hidden", "required", "locked", "parent"}

LEMMA AbsentShape == DOMAIN Absent = RowNames
BY DEF Absent, RowNames

LEMMA NoRequestTyped ==
  /\ NoRequest \in [op : {None, "hide", "identify"}, field : {None} \cup Field]
  /\ NoRequest.op = None
BY DEF NoRequest

(* What the updates of a row leave alone. *)
LEMMA RowUpdates ==
  ASSUME NEW row, DOMAIN row = RowNames, NEW a, NEW b, NEW c
  PROVE  /\ LET s == [row EXCEPT !.label = a, !.required = b, !.locked = c] IN
            /\ DOMAIN s = RowNames /\ s.exists = row.exists /\ s.key = row.key
            /\ s.type = row.type /\ s.hidden = row.hidden
         /\ LET s == [row EXCEPT !.parent = a] IN
            /\ DOMAIN s = RowNames /\ s.exists = row.exists /\ s.key = row.key
            /\ s.type = row.type /\ s.hidden = row.hidden
         /\ LET s == [row EXCEPT !.hidden = a] IN
            /\ DOMAIN s = RowNames /\ s.exists = row.exists /\ s.key = row.key
            /\ s.type = row.type /\ s.hidden = a
BY DEF RowNames

LEMMA BuiltinRow ==
  ASSUME NEW a, NEW b
  PROVE  LET s == [Absent EXCEPT !.exists = TRUE, !.builtin = TRUE, !.type = a, !.key = b] IN
         /\ DOMAIN s = RowNames /\ s.exists = TRUE /\ s.type = a /\ s.hidden = FALSE
<1>1. DOMAIN Absent = RowNames /\ Absent.hidden = FALSE
  BY AbsentShape DEF Absent
<1>2. QED
  BY <1>1 DEF RowNames

LEMMA IdentityInit ==
  ASSUME IdentityAssumption, FieldInit
  PROVE  IdentityInv
<1>1. /\ field = [f \in Field |->
           IF f > Builtin THEN Absent
           ELSE [Absent EXCEPT !.exists = TRUE, !.builtin = TRUE, !.type = BuiltinType[f],
                               !.key = <<"builtin", f>>]]
      /\ identity = 1 /\ pending = [q \in Request |-> NoRequest] /\ crossed = {}
  BY DEF FieldInit
<1>2. \A f \in Field : DOMAIN field[f] = RowNames /\ field[f].hidden = FALSE
  <2>1. TAKE f \in Field
  <2>2. CASE f > Builtin
    <3>1. field[f] = Absent
      BY <1>1, <2>2
    <3>2. QED
      BY <3>1, AbsentShape DEF Absent
  <2>3. CASE ~(f > Builtin)
    <3>1. field[f] = [Absent EXCEPT !.exists = TRUE, !.builtin = TRUE, !.type = BuiltinType[f],
                                    !.key = <<"builtin", f>>]
      BY <1>1, <2>3
    <3>2. QED
      BY <3>1, BuiltinRow, ZenonT(30)
  <2>4. QED
    BY <2>2, <2>3
<1>3. 1 \in Field /\ field[1].exists = TRUE /\ field[1].type = BuiltinType[1]
  <2>1. 1 \in Field /\ ~(1 > Builtin)
    BY DEF IdentityAssumption
  <2>2. field[1] = [Absent EXCEPT !.exists = TRUE, !.builtin = TRUE, !.type = BuiltinType[1],
                                  !.key = <<"builtin", 1>>]
    BY <1>1, <2>1
  <2>3. QED
    BY <2>1, <2>2, BuiltinRow
<1>4. RowsInv
  <2>1. field = [f \in Field |-> field[f]]
    BY <1>1
  <2>2. QED
    BY <1>1, <1>2, <2>1, NoRequestTyped, AbsentShape DEF RowsInv
<1>5. Identifies(identity)
  BY <1>1, <1>3 DEF Identifies, IdentityAssumption
<1>6. HiddenOnlyCrossed(identity)
  BY <1>1, <1>2, <1>3 DEF HiddenOnlyCrossed
<1>7. \A q \in Request : pending[q].op # "identify" /\ pending[q].op # "hide"
  BY <1>1, NoRequestTyped DEF IdentityAssumption
<1>8. QED
  BY <1>1, <1>3, <1>4, <1>5, <1>6, <1>7 DEF IdentityInv

(* Whatever touches none of the four variables. *)
LEMMA ElsewhereKeeps ==
  ASSUME IdentityInv, UNCHANGED <<field, identity, pending, crossed>>
  PROVE  IdentityInv'
BY DEF IdentityInv, RowsInv, Identifies, HiddenOnlyCrossed

(* A row written over one of the same type, that hides nothing. *)
LEMMA RowKeeps ==
  ASSUME IdentityAssumption, IdentityInv, NEW f \in Field, NEW row, DOMAIN row = RowNames,
         row.exists = field[f].exists, row.type = field[f].type,
         row.hidden = field[f].hidden \/ row.hidden = FALSE,
         Schema(f, row), UNCHANGED <<identity, pending, crossed>>
  PROVE  IdentityInv'
<1>1. field' = [field EXCEPT ![f] = row]
  BY DEF Schema
<1>2. /\ field'[f] = row /\ field' = [g \in Field |-> field'[g]]
      /\ \A g \in Field \ {f} : field'[g] = field[g]
  BY <1>1 DEF IdentityInv, RowsInv
<1>3. \A g \in Field : /\ field'[g].exists = field[g].exists /\ field'[g].type = field[g].type
                       /\ DOMAIN field'[g] = DOMAIN Absent
  BY <1>2, AbsentShape DEF IdentityInv, RowsInv
<1>4. \A g \in Field : /\ field[g].hidden \in BOOLEAN
                       /\ field'[g].hidden = field[g].hidden \/ field'[g].hidden = FALSE
  BY <1>2 DEF IdentityInv, RowsInv
<1>5. RowsInv'
  BY <1>2, <1>3, <1>4 DEF IdentityInv, RowsInv
<1>6. \A g \in Field : /\ Identifies(g) => Identifies(g)'
                       /\ HiddenOnlyCrossed(g) => HiddenOnlyCrossed(g)'
  BY <1>3, <1>4 DEF Identifies, HiddenOnlyCrossed
<1>7. /\ identity' = identity /\ pending' = pending /\ crossed' = crossed
      /\ \A g : /\ Identifies(g)' <=> (field'[g].exists /\ field'[g].type \notin {"TAGS", "CHECKBOX"})
                /\ HiddenOnlyCrossed(g)' <=> (field'[g].hidden => g \in crossed')
  BY DEF Identifies, HiddenOnlyCrossed
<1>8. identity' \in Field /\ Identifies(identity)' /\ HiddenOnlyCrossed(identity)'
  BY <1>6, <1>7 DEF IdentityInv
<1>9. ASSUME NEW q \in Request
      PROVE  /\ pending'[q].op = "identify" =>
                  Identifies(pending[q].field)' /\ HiddenOnlyCrossed(pending[q].field)'
             /\ pending'[q].op = "hide" /\ pending'[q].field = identity' => identity' \in crossed'
             /\ \A r \in Request :
                  pending'[q].op = "hide" /\ pending'[r].op = "identify"
                  /\ pending'[q].field = pending'[r].field => pending'[q].field \in crossed'
  <2>1. pending[q].op = "identify" => pending[q].field \in Field
    BY DEF IdentityAssumption, IdentityInv, RowsInv
  <2>2. QED
    BY <1>6, <1>7, <2>1 DEF IdentityInv
<1>10. QED
  BY <1>5, <1>8, <1>9 DEF IdentityInv

LEMMA CreateFieldKeeps ==
  ASSUME IdentityAssumption, IdentityInv, NEW f \in Field, NEW label, NEW type, NEW parent,
         CreateField(f, label, type, parent)
  PROVE  IdentityInv'
<1>0. PICK key, config : key = Slugify(SlugOf[label], Keys) /\ config = Config(type, parent)
  OBVIOUS
<1> DEFINE row == [Absent EXCEPT !.exists = TRUE, !.label = label, !.type = type,
                     !.key = key, !.parent = config]
<1>1. /\ ~field[f].exists /\ field' = [field EXCEPT ![f] = row]
      /\ identity' = identity /\ pending' = pending /\ crossed' = crossed
  BY <1>0 DEF CreateField, Schema
<1>2. DOMAIN row = RowNames /\ row.hidden = FALSE
  <2>1. DOMAIN Absent = RowNames /\ Absent.hidden = FALSE
    BY AbsentShape DEF Absent
  <2>2. QED
    BY <2>1 DEF RowNames
<1> HIDE DEF row
<1>3. /\ field'[f] = row /\ field' = [g \in Field |-> field'[g]]
      /\ \A g \in Field \ {f} : field'[g] = field[g]
  BY <1>1 DEF IdentityInv, RowsInv
<1>4. RowsInv'
  BY <1>1, <1>2, <1>3, AbsentShape DEF IdentityInv, RowsInv
<1>5. \A g \in Field : Identifies(g) => g # f
  BY <1>1 DEF Identifies
<1>6. /\ \A g : /\ Identifies(g)' <=> (field'[g].exists /\ field'[g].type \notin {"TAGS", "CHECKBOX"})
                /\ HiddenOnlyCrossed(g)' <=> (field'[g].hidden => g \in crossed')
  BY DEF Identifies, HiddenOnlyCrossed
<1>7. \A g \in Field : /\ Identifies(g) => Identifies(g)'
                       /\ Identifies(g) /\ HiddenOnlyCrossed(g) => HiddenOnlyCrossed(g)'
  BY <1>1, <1>3, <1>5, <1>6 DEF Identifies, HiddenOnlyCrossed
<1>8. identity' \in Field /\ Identifies(identity)' /\ HiddenOnlyCrossed(identity)'
  BY <1>1, <1>6, <1>7 DEF IdentityInv
<1>9. ASSUME NEW q \in Request
      PROVE  /\ pending'[q].op = "identify" =>
                  Identifies(pending[q].field)' /\ HiddenOnlyCrossed(pending[q].field)'
             /\ pending'[q].op = "hide" /\ pending'[q].field = identity' => identity' \in crossed'
             /\ \A r \in Request :
                  pending'[q].op = "hide" /\ pending'[r].op = "identify"
                  /\ pending'[q].field = pending'[r].field => pending'[q].field \in crossed'
  <2>1. pending[q].op = "identify" => pending[q].field \in Field
    BY DEF IdentityAssumption, IdentityInv, RowsInv
  <2>2. QED
    BY <1>1, <1>6, <1>7, <2>1 DEF IdentityInv
<1>10. QED
  BY <1>4, <1>8, <1>9 DEF IdentityInv

(* A decision is read of what is committed: it meets every other request     *)
(* that is half way through the opposite one, and marks the field.           *)
LEMMA BeginKeeps ==
  ASSUME IdentityAssumption, IdentityInv, NEW q \in Request, NEW op \in {"hide", "identify"},
         NEW f \in Field, Begin(q, op, f)
  PROVE  IdentityInv'
<1> DEFINE mine == [op |-> op, field |-> f]
<1>1. /\ pending[q].op = None /\ (IF op = "hide" THEN MayHide(f) ELSE MayIdentify(f))
      /\ pending' = [pending EXCEPT ![q] = mine]
      /\ crossed' = crossed \cup {f : r \in {r \in Request : pending[r].field = f
                                                             /\ pending[r].op # op}}
      /\ field' = field /\ identity' = identity
  BY DEF Begin
<1>2. mine.op = op /\ mine.field = f
      /\ mine \in [op : {None, "hide", "identify"}, field : {None} \cup Field]
  OBVIOUS
<1> HIDE DEF mine
<1>3. /\ pending'[q] = mine /\ \A r \in Request \ {q} : pending'[r] = pending[r]
      /\ pending' \in [Request -> [op : {None, "hide", "identify"}, field : {None} \cup Field]]
  BY <1>1, <1>2 DEF IdentityInv, RowsInv
<1>4. crossed \subseteq crossed'
  BY <1>1
<1>5. \A r \in Request : pending[r].field = f /\ pending[r].op # op => f \in crossed'
  BY <1>1
<1>6. \A g : /\ Identifies(g)' <=> Identifies(g)
             /\ HiddenOnlyCrossed(g) => HiddenOnlyCrossed(g)'
  BY <1>1, <1>4 DEF Identifies, HiddenOnlyCrossed
<1>7. RowsInv'
  BY <1>1, <1>2, <1>3 DEF IdentityInv, RowsInv
<1>8. op = "identify" => Identifies(f) /\ HiddenOnlyCrossed(f)
  BY <1>1 DEF MayIdentify, Identifies, HiddenOnlyCrossed
<1>9. op = "hide" => identity # f
  BY <1>1 DEF MayHide
<1>10. identity' \in Field /\ Identifies(identity)' /\ HiddenOnlyCrossed(identity)'
  BY <1>1, <1>6 DEF IdentityInv, Identifies, HiddenOnlyCrossed
<1>11. ASSUME NEW p \in Request
       PROVE  /\ pending'[p].op = "identify" =>
                   Identifies(pending[p].field)' /\ HiddenOnlyCrossed(pending[p].field)'
              /\ pending'[p].op = "hide" /\ pending'[p].field = identity' => identity' \in crossed'
  <2>1. CASE p = q
    <3>1. \A g : Identifies(g)' <=> (field'[g].exists /\ field'[g].type \notin {"TAGS", "CHECKBOX"})
      BY DEF Identifies
    <3>2. \A g : HiddenOnlyCrossed(g)' <=> (field'[g].hidden => g \in crossed')
      BY DEF HiddenOnlyCrossed
    <3>3. op = "identify" => /\ field'[f].exists /\ field'[f].type \notin {"TAGS", "CHECKBOX"}
                             /\ field'[f].hidden => f \in crossed'
      BY <1>1, <1>4, <1>8 DEF Identifies, HiddenOnlyCrossed
    <3>4. QED
      BY <1>1, <1>2, <1>3, <1>9, <2>1, <3>1, <3>2, <3>3
  <2>2. CASE p # q
    <3>1. pending'[p] = pending[p]
      BY <1>3, <2>2
    <3>2. pending[p].op = "identify" =>
            Identifies(pending[p].field) /\ HiddenOnlyCrossed(pending[p].field)
      BY DEF IdentityInv
    <3>3. pending[p].op = "hide" /\ pending[p].field = identity => identity \in crossed
      BY DEF IdentityInv
    <3>4. \A g : /\ Identifies(g)' <=> (field'[g].exists /\ field'[g].type \notin {"TAGS", "CHECKBOX"})
                 /\ HiddenOnlyCrossed(g)' <=> (field'[g].hidden => g \in crossed')
      BY DEF Identifies, HiddenOnlyCrossed
    <3>5. QED
      BY <1>1, <1>4, <3>1, <3>2, <3>3, <3>4 DEF Identifies, HiddenOnlyCrossed
  <2>3. QED
    BY <2>1, <2>2
<1>12. ASSUME NEW p \in Request, NEW r \in Request,
              pending'[p].op = "hide" /\ pending'[r].op = "identify"
              /\ pending'[p].field = pending'[r].field
       PROVE  pending'[p].field \in crossed'
  <2>1. CASE p = q /\ r # q
    BY <1>2, <1>3, <1>5, <1>12, <2>1
  <2>2. CASE r = q /\ p # q
    BY <1>2, <1>3, <1>5, <1>12, <2>2
  <2>3. CASE p # q /\ r # q
    BY <1>3, <1>4, <1>12, <2>3 DEF IdentityInv
  <2>4. CASE p = q /\ r = q
    BY <1>12, <2>4
  <2>5. QED
    BY <2>1, <2>2, <2>3, <2>4
<1>13. QED
  BY <1>7, <1>10, <1>11, <1>12 DEF IdentityInv

LEMMA RowActionsKeep ==
  ASSUME IdentityAssumption, IdentityInv, NEW f \in Field,
         \/ \E label \in Label, required, locked \in BOOLEAN : UpdateField(f, label, required, locked)
         \/ \E parent \in Field \cup {None} : UpdateConfig(f, parent)
         \/ Unhide(f)
  PROVE  IdentityInv'
<1>1. PICK old : old = field[f]
  OBVIOUS
<1>2. DOMAIN old = RowNames
  BY <1>1, AbsentShape DEF IdentityInv, RowsInv
<1>3. CASE \E label \in Label, required, locked \in BOOLEAN : UpdateField(f, label, required, locked)
  <2>1. PICK a, b, c : UpdateField(f, a, b, c)
    BY <1>3
  <2> DEFINE row == [old EXCEPT !.label = a, !.required = b, !.locked = c]
  <2>2. /\ DOMAIN row = RowNames /\ row.exists = old.exists
        /\ row.type = old.type /\ row.hidden = old.hidden
    BY <1>2, RowUpdates
  <2>3. Schema(f, row) /\ UNCHANGED <<identity, pending, crossed>>
    BY <1>1, <2>1 DEF UpdateField
  <2> HIDE DEF row
  <2>4. QED
    BY <1>1, <2>2, <2>3, RowKeeps
<1>4. CASE \E parent \in Field \cup {None} : UpdateConfig(f, parent)
  <2>1. PICK parent : UpdateConfig(f, parent)
    BY <1>4
  <2>2. PICK a : a = Config(field[f].type, parent)
    OBVIOUS
  <2> DEFINE row == [old EXCEPT !.parent = a]
  <2>3. /\ DOMAIN row = RowNames /\ row.exists = old.exists
        /\ row.type = old.type /\ row.hidden = old.hidden
    BY <1>2, RowUpdates
  <2>4. Schema(f, row) /\ UNCHANGED <<identity, pending, crossed>>
    BY <1>1, <2>1, <2>2 DEF UpdateConfig
  <2> HIDE DEF row
  <2>5. QED
    BY <1>1, <2>3, <2>4, RowKeeps
<1>5. CASE Unhide(f)
  <2> DEFINE row == [old EXCEPT !.hidden = FALSE]
  <2>1. /\ DOMAIN row = RowNames /\ row.exists = old.exists
        /\ row.type = old.type /\ row.hidden = FALSE
    BY <1>2, RowUpdates
  <2>2. Schema(f, row) /\ UNCHANGED <<identity, pending, crossed>>
    BY <1>1, <1>5 DEF Unhide
  <2> HIDE DEF row
  <2>3. QED
    BY <1>1, <2>1, <2>2, RowKeeps
<1>6. QED
  BY <1>3, <1>4, <1>5

(* The field that is hidden may have become the identity, or another request *)
(* may be about to make it so: then the two met, and it is marked.           *)
LEMMA CommitHideKeeps ==
  ASSUME IdentityAssumption, IdentityInv, NEW q \in Request, CommitHide(q)
  PROVE  IdentityInv'
<1>1. PICK f \in Field : f = pending[q].field
  BY DEF CommitHide, IdentityAssumption, IdentityInv, RowsInv
<1>2. PICK old : old = field[f]
  OBVIOUS
<1> DEFINE row == [old EXCEPT !.hidden = TRUE]
<1>3. /\ pending[q].op = "hide" /\ field' = [field EXCEPT ![f] = row]
      /\ pending' = [pending EXCEPT ![q] = NoRequest]
      /\ identity' = identity /\ crossed' = crossed
  BY <1>1, <1>2 DEF CommitHide, Schema
<1>4. /\ DOMAIN row = RowNames /\ row.exists = old.exists
      /\ row.type = old.type /\ row.hidden = TRUE
  <2>1. DOMAIN old = RowNames
    BY <1>2, AbsentShape DEF IdentityInv, RowsInv
  <2>2. QED
    BY <2>1, RowUpdates
<1> HIDE DEF row
<1>5. /\ field'[f] = row /\ field' = [g \in Field |-> field'[g]]
      /\ \A g \in Field \ {f} : field'[g] = field[g]
  BY <1>3 DEF IdentityInv, RowsInv
<1>6. /\ pending'[q] = NoRequest /\ \A r \in Request \ {q} : pending'[r] = pending[r]
      /\ pending' \in [Request -> [op : {None, "hide", "identify"}, field : {None} \cup Field]]
  BY <1>3, NoRequestTyped DEF IdentityInv, RowsInv
<1>7. RowsInv'
  BY <1>3, <1>4, <1>5, <1>6, NoRequestTyped, AbsentShape, ZenonT(30) DEF IdentityInv, RowsInv
<1>8. \A g : /\ Identifies(g)' <=> (field'[g].exists /\ field'[g].type \notin {"TAGS", "CHECKBOX"})
             /\ HiddenOnlyCrossed(g)' <=> (field'[g].hidden => g \in crossed')
  BY DEF Identifies, HiddenOnlyCrossed
<1>9. \A g \in Field : /\ Identifies(g) => Identifies(g)'
                       /\ g # f /\ HiddenOnlyCrossed(g) => HiddenOnlyCrossed(g)'
                       /\ g \in crossed => HiddenOnlyCrossed(g)'
  BY <1>2, <1>3, <1>4, <1>5, <1>8 DEF Identifies, HiddenOnlyCrossed
<1>10. identity = f => f \in crossed
  BY <1>1, <1>3 DEF IdentityInv
<1>11. identity' \in Field /\ Identifies(identity)' /\ HiddenOnlyCrossed(identity)'
  <2>1. identity \in Field /\ Identifies(identity) /\ HiddenOnlyCrossed(identity)
    BY DEF IdentityInv
  <2>2. Identifies(identity)' /\ field'[identity].hidden => identity \in crossed
    BY <1>3, <1>8, <1>9, <1>10, <2>1
  <2>3. QED
    BY <1>3, <1>8, <1>9, <1>10, <2>1
<1>12. ASSUME NEW p \in Request
       PROVE  /\ pending'[p].op = "identify" =>
                   Identifies(pending[p].field)' /\ HiddenOnlyCrossed(pending[p].field)'
              /\ pending'[p].op = "hide" /\ pending'[p].field = identity' => identity' \in crossed'
  <2>1. CASE p = q
    BY <1>6, <2>1, NoRequestTyped DEF IdentityAssumption
  <2>2. CASE p # q
    <3>1. pending'[p] = pending[p]
      BY <1>6, <2>2
    <3>2. ASSUME pending[p].op = "identify"
          PROVE  Identifies(pending[p].field)' /\ HiddenOnlyCrossed(pending[p].field)'
      <4>1. PICK g \in Field : g = pending[p].field
        BY <3>2 DEF IdentityAssumption, IdentityInv, RowsInv
      <4>2. Identifies(g) /\ HiddenOnlyCrossed(g)
        BY <3>2, <4>1 DEF IdentityInv
      <4>3. g = f => g \in crossed
        BY <1>1, <1>3, <3>2, <4>1 DEF IdentityInv
      <4>4. /\ field'[g].exists /\ field'[g].type \notin {"TAGS", "CHECKBOX"}
            /\ field'[g].hidden => g \in crossed'
        BY <1>8, <1>9, <4>2, <4>3
      <4>5. pending'[p].field = g
        BY <3>1, <4>1
      <4>6. QED
        BY <1>8, <4>4, <4>5
    <3>3. QED
      BY <1>3, <3>1, <3>2 DEF IdentityInv
  <2>3. QED
    BY <2>1, <2>2
<1>13. ASSUME NEW p \in Request, NEW r \in Request,
              pending'[p].op = "hide" /\ pending'[r].op = "identify"
              /\ pending'[p].field = pending'[r].field
       PROVE  pending'[p].field \in crossed'
  <2>1. p # q /\ r # q
    BY <1>6, <1>13, NoRequestTyped DEF IdentityAssumption
  <2>2. QED
    BY <1>3, <1>6, <1>13, <2>1 DEF IdentityInv
<1>14. QED
  BY <1>7, <1>11, <1>12, <1>13 DEF IdentityInv

LEMMA CommitIdentityKeeps ==
  ASSUME IdentityAssumption, IdentityInv, NEW q \in Request, CommitIdentity(q)
  PROVE  IdentityInv'
<1>1. PICK f \in Field : f = pending[q].field
  BY DEF CommitIdentity, IdentityAssumption, IdentityInv, RowsInv
<1>2. /\ pending[q].op = "identify" /\ identity' = f
      /\ pending' = [pending EXCEPT ![q] = NoRequest]
      /\ field' = field /\ crossed' = crossed
  BY <1>1 DEF CommitIdentity
<1>3. /\ pending'[q] = NoRequest /\ \A r \in Request \ {q} : pending'[r] = pending[r]
      /\ pending' \in [Request -> [op : {None, "hide", "identify"}, field : {None} \cup Field]]
  BY <1>2, NoRequestTyped DEF IdentityInv, RowsInv
<1>4. RowsInv'
  BY <1>2, <1>3, NoRequestTyped DEF IdentityInv, RowsInv
<1>5. \A g : /\ Identifies(g)' <=> (field'[g].exists /\ field'[g].type \notin {"TAGS", "CHECKBOX"})
             /\ HiddenOnlyCrossed(g)' <=> (field'[g].hidden => g \in crossed')
             /\ Identifies(g) <=> (field[g].exists /\ field[g].type \notin {"TAGS", "CHECKBOX"})
             /\ HiddenOnlyCrossed(g) <=> (field[g].hidden => g \in crossed)
  BY DEF Identifies, HiddenOnlyCrossed
<1>6. identity' \in Field /\ Identifies(identity)' /\ HiddenOnlyCrossed(identity)'
  <2>1. Identifies(f) /\ HiddenOnlyCrossed(f)
    BY <1>1, <1>2 DEF IdentityInv
  <2>2. QED
    BY <1>2, <1>5, <2>1
<1>7. ASSUME NEW p \in Request
      PROVE  /\ pending'[p].op = "identify" =>
                  Identifies(pending[p].field)' /\ HiddenOnlyCrossed(pending[p].field)'
             /\ pending'[p].op = "hide" /\ pending'[p].field = identity' => identity' \in crossed'
  <2>1. CASE p = q
    BY <1>3, <2>1, NoRequestTyped DEF IdentityAssumption
  <2>2. CASE p # q
    <3>1. pending'[p] = pending[p]
      BY <1>3, <2>2
    <3>2. pending[p].op = "identify" =>
            Identifies(pending[p].field) /\ HiddenOnlyCrossed(pending[p].field)
      BY DEF IdentityInv
    <3>3. pending[p].op = "hide" /\ pending[p].field = f => f \in crossed
      BY <1>1, <1>2 DEF IdentityInv
    <3>4. QED
      BY <1>2, <1>5, <3>1, <3>2, <3>3
  <2>3. QED
    BY <2>1, <2>2
<1>8. ASSUME NEW p \in Request, NEW r \in Request,
             pending'[p].op = "hide" /\ pending'[r].op = "identify"
             /\ pending'[p].field = pending'[r].field
      PROVE  pending'[p].field \in crossed'
  <2>1. p # q /\ r # q
    BY <1>3, <1>8, NoRequestTyped DEF IdentityAssumption
  <2>2. QED
    BY <1>2, <1>3, <1>8, <2>1 DEF IdentityInv
<1>9. QED
  BY <1>4, <1>6, <1>7, <1>8 DEF IdentityInv

LEMMA IdentityInductive ==
  ASSUME IdentityAssumption, IdentityInv, [FieldNext]_fieldVars
  PROVE  IdentityInv'
<1>1. ASSUME NEW f \in Field, NEW label, NEW type, NEW parent, CreateField(f, label, type, parent)
      PROVE  IdentityInv'
  BY <1>1, CreateFieldKeeps
<1>2. ASSUME NEW f \in Field, NEW label \in Label, NEW required \in BOOLEAN, NEW locked \in BOOLEAN,
             UpdateField(f, label, required, locked)
      PROVE  IdentityInv'
  BY <1>2, RowActionsKeep
<1>3. ASSUME NEW f \in Field, NEW parent \in Field \cup {None}, UpdateConfig(f, parent)
      PROVE  IdentityInv'
  BY <1>3, RowActionsKeep
<1>4. ASSUME NEW f \in Field, Unhide(f)
      PROVE  IdentityInv'
  BY <1>4, RowActionsKeep
<1>5. ASSUME NEW f, NEW label, NEW parent, AddOption(f, label, parent)
      PROVE  IdentityInv'
  BY <1>5, ElsewhereKeeps DEF AddOption, PutOptions
<1>6. ASSUME NEW f, NEW n, NEW label, UpdateOption(f, n, label)
      PROVE  IdentityInv'
  BY <1>6, ElsewhereKeeps DEF UpdateOption, PutOptions
<1>7. ASSUME NEW f, NEW g, SetPrimary(f, g)
      PROVE  IdentityInv'
  BY <1>7, ElsewhereKeeps DEF SetPrimary
<1>8. ASSUME NEW f, NEW g, CopyOptions(f, g)
      PROVE  IdentityInv'
  BY <1>8, ElsewhereKeeps DEF CopyOptions, PutOptions
<1>9. ASSUME NEW f, NEW labels, AddBulk(f, labels)
      PROVE  IdentityInv'
  BY <1>9, ElsewhereKeeps DEF AddBulk, PutOptions
<1>10. ASSUME NEW f, NEW n, ArchiveOption(f, n)
       PROVE  IdentityInv'
  BY <1>10, ElsewhereKeeps DEF ArchiveOption, PutOptions
<1>11. ASSUME NEW f, NEW named, Reorder(f, named)
       PROVE  IdentityInv'
  BY <1>11, ElsewhereKeeps DEF Reorder, PutOptions
<1>12. ASSUME NEW q \in Request, NEW op \in {"hide", "identify"}, NEW f \in Field, Begin(q, op, f)
       PROVE  IdentityInv'
  BY <1>12, BeginKeeps
<1>13. ASSUME NEW q \in Request, CommitHide(q) \/ CommitIdentity(q)
       PROVE  IdentityInv'
  BY <1>13, CommitHideKeeps, CommitIdentityKeeps
<1>14. CASE UNCHANGED fieldVars
  BY <1>14, ElsewhereKeeps DEF fieldVars
<1>15. QED
  BY <1>1, <1>2, <1>3, <1>4, <1>5, <1>6, <1>7, <1>8, <1>9, <1>10, <1>11, <1>12, <1>13, <1>14
     DEF FieldNext

(* The strengthening IdentityInv is an invariant of the specification. *)
THEOREM IdentityAlways ==
  ASSUME IdentityAssumption
  PROVE  FieldSpec => []IdentityInv
<1>1. FieldInit => IdentityInv
  BY IdentityInit
<1>2. IdentityInv /\ [FieldNext]_fieldVars => IdentityInv'
  BY IdentityInductive
<1>3. QED
  BY <1>1, <1>2, PTL DEF FieldSpec

(* The identity field can tell two leads apart, and is on show unless one    *)
(* administrator hid it while another designated it.                        *)
THEOREM Usable ==
  ASSUME IdentityAssumption
  PROVE  FieldSpec => []IdentityUsable
<1>1. ASSUME IdentityInv
      PROVE  IdentityUsable
  BY <1>1 DEF IdentityInv, Identifies, HiddenOnlyCrossed, IdentityUsable
<1>2. QED
  BY <1>1, IdentityAlways, PTL

-----------------------------------------------------------------------------
(* Options: every change of the options of a field keeps what there was. *)

LEMMA AppendIs ==
  ASSUME NEW s, IsSequence(s), NEW e
  PROVE  /\ IsSequence(Append(s, e)) /\ Len(s) \in Nat /\ DOMAIN s = 1 .. Len(s)
         /\ Len(Append(s, e)) = Len(s) + 1 /\ DOMAIN Append(s, e) = 1 .. Len(s) + 1
         /\ \A n \in 1 .. Len(s) : Append(s, e)[n] = s[n]
         /\ Append(s, e)[Len(s) + 1] = e
<1> DEFINE S == {s[n] : n \in 1 .. Len(s)} \cup {e}
           t == Append(s, e)
<1>1. Len(s) \in Nat /\ s = [n \in 1 .. Len(s) |-> s[n]]
  BY DEF IsSequence
<1>2. s \in Seq(S) /\ e \in S
  <2>1. \A n \in 1 .. Len(s) : s[n] \in S
    OBVIOUS
  <2> HIDE DEF S
  <2>2. QED
    <3>1. s \in [1 .. Len(s) -> S]
      BY <1>1, <2>1
    <3>2. e \in S
      BY DEF S
    <3>3. QED
      BY <1>1, <3>1, <3>2
<1> HIDE DEF S
<1>3. /\ t \in Seq(S) /\ Len(t) = Len(s) + 1
      /\ \A n \in 1 .. Len(s) : t[n] = s[n]
      /\ t[Len(s) + 1] = e
  BY <1>2, AppendProperties
<1> HIDE DEF t
<1>4. Len(t) \in Nat /\ DOMAIN t = 1 .. Len(t) /\ t = [n \in 1 .. Len(t) |-> t[n]]
  BY <1>3
<1>5. IsSequence(t) /\ DOMAIN t = 1 .. Len(s) + 1 /\ DOMAIN s = 1 .. Len(s)
  BY <1>1, <1>3, <1>4 DEF IsSequence
<1>6. QED
  BY <1>1, <1>3, <1>5 DEF t

(* What nobody takes away: the code and the parent of an option. *)
Grown(old, new) ==
  /\ DOMAIN old \subseteq DOMAIN new
  /\ \A n \in DOMAIN old : new[n].code = old[n].code /\ new[n].parent = old[n].parent

LEMMA GrownTwice ==
  ASSUME NEW a, NEW b, NEW c, Grown(a, b), Grown(b, c)
  PROVE  Grown(a, c)
BY DEF Grown

LEMMA AppendHeld ==
  ASSUME NEW opts, OptionsHeld(opts), NEW row, DOMAIN row = OptionNames,
         row.parent \in 0 .. Len(opts) + 1, \A n \in DOMAIN opts : opts[n].code # row.code
  PROVE  OptionsHeld(Append(opts, row)) /\ Grown(opts, Append(opts, row))
<1> DEFINE new == Append(opts, row)
<1>1. /\ IsSequence(new) /\ Len(opts) \in Nat /\ DOMAIN opts = 1 .. Len(opts)
      /\ Len(new) = Len(opts) + 1 /\ DOMAIN new = 1 .. Len(opts) + 1
      /\ \A n \in 1 .. Len(opts) : new[n] = opts[n]
      /\ new[Len(opts) + 1] = row
  BY AppendIs DEF OptionsHeld
<1> HIDE DEF new
<1>2. \A n \in DOMAIN new : n \in DOMAIN opts \/ n = Len(opts) + 1
  BY <1>1
<1>3. CodesDiffer(new)
  <2>1. ASSUME NEW m \in DOMAIN new, NEW n \in DOMAIN new, new[m].code = new[n].code
        PROVE  m = n
    <3>1. CASE m \in DOMAIN opts /\ n \in DOMAIN opts
      BY <1>1, <2>1, <3>1 DEF OptionsHeld, CodesDiffer
    <3>2. CASE m = Len(opts) + 1 \/ n = Len(opts) + 1
      BY <1>1, <1>2, <2>1, <3>2
    <3>3. QED
      BY <1>2, <3>1, <3>2
  <2>2. QED
    BY <2>1 DEF CodesDiffer
<1>4. \A n \in DOMAIN new : DOMAIN new[n] = OptionNames /\ new[n].parent \in 0 .. Len(new)
  <2>1. TAKE n \in DOMAIN new
  <2>2. CASE n \in DOMAIN opts
    <3>1. DOMAIN opts[n] = OptionNames /\ opts[n].parent \in 0 .. Len(opts) /\ new[n] = opts[n]
      BY <1>1, <2>2 DEF OptionsHeld
    <3>2. QED
      BY <1>1, <3>1
  <2>3. CASE n = Len(opts) + 1
    BY <1>1, <2>3
  <2>4. QED
    BY <1>2, <2>2, <2>3
<1>5. Grown(opts, new)
  BY <1>1 DEF Grown
<1>6. QED
  BY <1>1, <1>3, <1>4, <1>5 DEF OptionsHeld, new

(* A slug is given out once. *)
LEMMA CodeIsNew ==
  ASSUME FieldAssumption, NEW label \in DOMAIN SlugOf, NEW taken, IsFiniteSet(taken)
  PROVE  Slugify(SlugOf[label], taken) \notin taken
<1> DEFINE slug == SlugOf[label]
           S == Nat \cup {slug[n] : n \in 1 .. Len(slug)}
<1>1. Len(slug) \in Nat /\ slug = [n \in 1 .. Len(slug) |-> slug[n]]
  BY DEF FieldAssumption, IsSequence
<1>2. slug \in Seq(S)
  <2>1. \A n \in 1 .. Len(slug) : slug[n] \in S
    OBVIOUS
  <2> HIDE DEF S
  <2>2. slug \in [1 .. Len(slug) -> S]
    BY <1>1, <2>1
  <2>3. QED
    BY <1>1, <2>2
<1>3. Nat \subseteq S
  OBVIOUS
<1> HIDE DEF S
<1>4. QED
  BY <1>2, <1>3, SlugIsNew

LEMMA CodesFinite ==
  ASSUME NEW opts, OptionsHeld(opts)
  PROVE  IsFiniteSet({opts[n].code : n \in DOMAIN opts})
<1> DEFINE C == {opts[n].code : n \in DOMAIN opts}
           f == [n \in DOMAIN opts |-> opts[n].code]
<1>1. f \in Surjection(DOMAIN opts, C)
  BY DEF Surjection
<1>2. IsFiniteSet(DOMAIN opts)
  <2>1. DOMAIN opts = 1 .. Len(opts) /\ 1 \in Int /\ Len(opts) \in Int
    BY DEF OptionsHeld, IsSequence
  <2>2. QED
    BY <2>1, FS_Interval
<1>3. QED
  BY <1>1, <1>2, FS_Surjection

LEMMA NewOption ==
  ASSUME FieldAssumption, NEW opts, OptionsHeld(opts), NEW label \in DOMAIN SlugOf,
         NEW parent \in 0 .. Len(opts), NEW order
  PROVE  LET new == Append(opts, Option(Slugify(SlugOf[label], {opts[n].code : n \in DOMAIN opts}),
                                        label, parent, order))
         IN OptionsHeld(new) /\ Grown(opts, new)
<1> DEFINE taken == {opts[n].code : n \in DOMAIN opts}
           code == Slugify(SlugOf[label], taken)
           row == Option(code, label, parent, order)
<1>1. code \notin taken
  <2>1. IsFiniteSet(taken)
    BY CodesFinite
  <2> HIDE DEF taken
  <2>2. QED
    BY <2>1, CodeIsNew
<1>2. \A n \in DOMAIN opts : opts[n].code # code
  BY <1>1
<1> HIDE DEF code
<1>3. DOMAIN row = OptionNames /\ row.parent = parent /\ row.code = code
  BY DEF Option, OptionNames
<1>4. parent \in 0 .. Len(opts) + 1
  BY DEF OptionsHeld, IsSequence
<1> HIDE DEF row
<1>5. OptionsHeld(Append(opts, row)) /\ Grown(opts, Append(opts, row))
  BY <1>2, <1>3, <1>4, AppendHeld
<1>6. QED
  BY <1>5 DEF row, code

-----------------------------------------------------------------------------
(* "Add multiple". *)

IsLabels(made, current, labels, N) ==
  made = [n \in 0 .. N |->
            IF n = 0 THEN current ELSE WithLabel(made[n - 1], labels[n], Len(current) + n - 1)]

LEMMA LabelsExist ==
  ASSUME NEW current, NEW labels, NEW N \in Nat
  PROVE  \E made : IsLabels(made, current, labels, N)
<1> DEFINE Without == {n \in 0 .. N : ~ \E made : IsLabels(made, current, labels, n)}
<1>1. SUFFICES ASSUME Without # {}
               PROVE  FALSE
  OBVIOUS
<1>2. PICK n \in Without : \A m \in Without : n <= m
  <2>1. Without \in SUBSET Nat
    OBVIOUS
  <2>2. QED
    BY <1>1, <2>1, NatLeast
<1>3. n # 0
  <2>1. IsLabels([i \in 0 .. 0 |-> current], current, labels, 0)
    BY DEF IsLabels
  <2>2. QED
    BY <1>2, <2>1
<1>4. PICK made : IsLabels(made, current, labels, n - 1)
  <2>1. n - 1 \in 0 .. N /\ n - 1 \notin Without
    BY <1>2, <1>3
  <2>2. QED
    BY <2>1
<1> DEFINE more == [i \in 0 .. n |->
              IF i < n THEN made[i] ELSE WithLabel(made[n - 1], labels[n], Len(current) + n - 1)]
<1>5. IsLabels(more, current, labels, n)
  <2>1. n \in Nat \ {0}
    BY <1>2, <1>3
  <2>2. ASSUME NEW i \in 0 .. n
        PROVE  more[i] = IF i = 0 THEN current
                         ELSE WithLabel(more[i - 1], labels[i], Len(current) + i - 1)
    <3>1. CASE i < n
      <4>1. i \in 0 .. n - 1 /\ (i # 0 => i - 1 \in 0 .. n /\ i - 1 < n)
        BY <2>1, <3>1
      <4>2. made[i] = IF i = 0 THEN current
                      ELSE WithLabel(made[i - 1], labels[i], Len(current) + i - 1)
        BY <4>1, <1>4 DEF IsLabels
      <4>3. more[i] = made[i] /\ (i # 0 => more[i - 1] = made[i - 1])
        BY <4>1, <3>1
      <4>4. QED
        BY <4>2, <4>3
    <3>2. CASE i = n
      <4>1. n - 1 \in 0 .. n /\ n - 1 < n /\ ~ (n < n) /\ n # 0
        BY <2>1
      <4>2. more[n - 1] = made[n - 1]
        BY <4>1
      <4>3. more[n] = WithLabel(made[n - 1], labels[n], Len(current) + n - 1)
        BY <4>1, <2>1
      <4>4. QED
        BY <4>1, <4>2, <4>3, <3>2
    <3>3. QED
      BY <3>1, <3>2, <2>1
  <2> HIDE DEF more
  <2>3. more = [i \in 0 .. n |-> more[i]]
    BY DEF more
  <2>4. QED
    BY <2>2, <2>3 DEF IsLabels
<1>6. QED
  BY <1>2, <1>5

LEMMA LabelsHeld ==
  ASSUME FieldAssumption, NEW current, OptionsHeld(current), NEW labels \in Pasted
  PROVE  LET new == WithLabels(current, labels)
         IN OptionsHeld(new) /\ Grown(current, new)
<1> DEFINE N == Len(labels)
           made == CHOOSE m : IsLabels(m, current, labels, N)
           Good(n) == OptionsHeld(made[n]) /\ Grown(current, made[n])
           Bad == {n \in 0 .. N : ~Good(n)}
<1>1. N \in Nat /\ \A n \in 1 .. N : labels[n] \in DOMAIN SlugOf
  BY DEF FieldAssumption, IsSequence
<1>2. IsLabels(made, current, labels, N)
  BY <1>1, LabelsExist
<1>3. WithLabels(current, labels) = made[N]
  BY DEF WithLabels, IsLabels
<1> HIDE DEF made, N
<1>4. made[0] = current /\ \A n \in 1 .. N :
        made[n] = WithLabel(made[n - 1], labels[n], Len(current) + n - 1)
  BY <1>1, <1>2 DEF IsLabels
<1>5. Bad = {}
  <2> SUFFICES ASSUME Bad # {}
               PROVE  FALSE
    OBVIOUS
  <2>1. PICK n \in Bad : \A m \in Bad : n <= m
    <3>1. Bad \in SUBSET Nat
      OBVIOUS
    <3>2. QED
      BY <3>1, NatLeast
  <2>2. n # 0
    <3>1. Grown(current, current)
      BY DEF Grown
    <3>2. QED
      BY <1>4, <2>1, <3>1
  <2>3. Good(n - 1) /\ n \in 1 .. N
    <3>1. n \in 1 .. N /\ n - 1 \in 0 .. N /\ n - 1 \notin Bad
      BY <1>1, <2>1, <2>2
    <3>2. QED
      BY <3>1
  <2> DEFINE before == made[n - 1]
             order == Len(current) + n - 1
             option == Option(Slugify(SlugOf[labels[n]], {before[k].code : k \in DOMAIN before}),
                              labels[n], 0, order)
  <2>4. made[n] = before \/ made[n] = Append(before, option)
    BY <1>4, <2>3 DEF WithLabel
  <2>5. OptionsHeld(Append(before, option)) /\ Grown(before, Append(before, option))
    <3>1. 0 \in 0 .. Len(before) /\ labels[n] \in DOMAIN SlugOf /\ OptionsHeld(before)
      BY <1>1, <2>3 DEF OptionsHeld, IsSequence
    <3> HIDE DEF before, order
    <3>2. QED
      BY <3>1, NewOption
  <2>6. Good(n)
    <3>1. OptionsHeld(before) /\ Grown(current, before)
      BY <2>3
    <3> HIDE DEF before, option
    <3>2. Grown(current, Append(before, option))
      BY <2>5, <3>1, GrownTwice
    <3>3. QED
      BY <2>4, <2>5, <3>1, <3>2
  <2>7. QED
    BY <2>1, <2>6
<1>6. N \in 0 .. N
  BY <1>1
<1>7. QED
  BY <1>3, <1>5, <1>6

-----------------------------------------------------------------------------
(* "Copy options". *)

IsClones(acc, target, taken, source, inOrder, N) ==
  acc = [n \in 0 .. N |->
           IF n = 0 THEN [made |-> target, place |-> <<>>]
           ELSE WithClone(acc[n - 1], taken, source, inOrder[n])]

LEMMA ClonesExist ==
  ASSUME NEW target, NEW taken, NEW source, NEW inOrder, NEW N \in Nat
  PROVE  \E acc : IsClones(acc, target, taken, source, inOrder, N)
<1> DEFINE Is(acc, n) == IsClones(acc, target, taken, source, inOrder, n)
           start == [made |-> target, place |-> <<>>]
           Without == {n \in 0 .. N : ~ \E acc : Is(acc, n)}
<1>1. SUFFICES ASSUME Without # {}
               PROVE  FALSE
  OBVIOUS
<1>2. PICK n \in Without : \A m \in Without : n <= m
  <2>1. Without \in SUBSET Nat
    OBVIOUS
  <2>2. QED
    BY <1>1, <2>1, NatLeast
<1>3. n # 0
  <2>1. Is([i \in 0 .. 0 |-> start], 0)
    BY DEF IsClones
  <2>2. QED
    BY <1>2, <2>1
<1>4. PICK acc : Is(acc, n - 1)
  <2>1. n - 1 \in 0 .. N /\ n - 1 \notin Without
    BY <1>2, <1>3
  <2>2. QED
    BY <2>1
<1> DEFINE more == [i \in 0 .. n |->
              IF i < n THEN acc[i] ELSE WithClone(acc[n - 1], taken, source, inOrder[n])]
<1> HIDE DEF start
<1>5. Is(more, n)
  <2>1. n \in Nat \ {0}
    BY <1>2, <1>3
  <2>2. ASSUME NEW i \in 0 .. n
        PROVE  more[i] = IF i = 0 THEN start
                         ELSE WithClone(more[i - 1], taken, source, inOrder[i])
    <3>1. CASE i < n
      <4>1. i \in 0 .. n - 1 /\ (i # 0 => i - 1 \in 0 .. n /\ i - 1 < n)
        BY <2>1, <3>1
      <4>2. acc[i] = IF i = 0 THEN start
                     ELSE WithClone(acc[i - 1], taken, source, inOrder[i])
        BY <4>1, <1>4 DEF IsClones, start
      <4>3. more[i] = acc[i] /\ (i # 0 => more[i - 1] = acc[i - 1])
        BY <4>1, <3>1
      <4>4. QED
        BY <4>2, <4>3
    <3>2. CASE i = n
      <4>1. n - 1 \in 0 .. n /\ n - 1 < n /\ ~ (n < n) /\ n # 0
        BY <2>1
      <4>2. more[n - 1] = acc[n - 1]
        BY <4>1
      <4>3. more[n] = WithClone(acc[n - 1], taken, source, inOrder[n])
        BY <4>1, <2>1
      <4>4. QED
        BY <4>1, <4>2, <4>3, <3>2
    <3>3. QED
      BY <3>1, <3>2, <2>1
  <2> HIDE DEF more
  <2>3. more = [i \in 0 .. n |-> more[i]]
    BY DEF more
  <2>4. QED
    BY <2>2, <2>3 DEF IsClones, start
<1>6. QED
  BY <1>2, <1>5

(* The parent of k comes with it: a root, whose code is not taken. *)
KeepsParent(target, source, k) ==
  LET p == source[k].parent
  IN p # 0 /\ source[p].parent = 0 /\ \A m \in DOMAIN target : target[m].code # source[p].code

(* Where the copy of k went, and that its parent, if it has one, is the copy  *)
(* of the parent of k.                                                       *)
Placed(made, place, target, source, inOrder, n, k) ==
  /\ k \in DOMAIN source /\ \E i \in 1 .. n : inOrder[i] = k
  /\ place[k] \in Len(target) + 1 .. Len(made)
  /\ made[place[k]].code = source[k].code
  /\ made[place[k]].parent # 0 \/ KeepsParent(target, source, k) =>
       source[k].parent \in DOMAIN place /\ made[place[k]].parent = place[source[k].parent]

Copies(made, place, target, source, inOrder, n) ==
  /\ OptionsHeld(made) /\ Grown(target, made) /\ Len(target) <= Len(made)
  /\ \A k \in DOMAIN place : Placed(made, place, target, source, inOrder, n, k)
  /\ \A m \in Len(target) + 1 .. Len(made) : \E k \in DOMAIN place : place[k] = m
  /\ \A i \in 1 .. n : \/ \E m \in DOMAIN target : target[m].code = source[inOrder[i]].code
                       \/ inOrder[i] \in DOMAIN place

(* The sort of the copies: roots first, and every option once. *)
InOrder(inOrder, source) ==
  /\ DOMAIN inOrder = DOMAIN source /\ inOrder \in [DOMAIN source -> DOMAIN source]
  /\ \A i, j \in DOMAIN source : i # j => inOrder[i] # inOrder[j]
  /\ \A k \in DOMAIN source : \E i \in DOMAIN source : inOrder[i] = k
  /\ \A i, j \in DOMAIN source :
       source[inOrder[j]].parent = 0 /\ source[inOrder[i]].parent # 0 => j < i

LEMMA OrdersAre ==
  ASSUME NEW source, OptionsHeld(source), NEW inOrder \in CopyOrders(source)
  PROVE  InOrder(inOrder, source) /\ Len(inOrder) = Len(source)
<1> DEFINE D == DOMAIN source
<1>1. /\ Len(source) \in Nat /\ D = 1 .. Len(source)
      /\ \A n \in D : source[n].parent \in Nat
  BY DEF OptionsHeld, IsSequence
<1>2. IsFiniteSet(D) /\ Cardinality(D) = Len(source)
  <2>1. 1 \in Int /\ Len(source) \in Int
    BY <1>1
  <2>2. IsFiniteSet(1 .. Len(source)) /\ Cardinality(1 .. Len(source)) = Len(source)
    BY <1>1, <2>1, FS_Interval
  <2>3. QED
    BY <1>1, <2>2
<1>3. inOrder \in SetToSeqs(D)
  BY DEF CopyOrders
<1> HIDE DEF D
<1>4. inOrder \in [D -> D] /\ \A i, j \in D : i # j => inOrder[i] # inOrder[j]
  <2>1. 1 .. Cardinality(D) = D
    BY <1>1, <1>2
  <2>2. QED
    BY <1>3, <2>1 DEF SetToSeqs
<1>5. \A k \in D : \E i \in D : inOrder[i] = k
  <2>1. inOrder \in Injection(D, D)
    BY <1>4 DEF Injection, IsInjective
  <2>2. inOrder \in Surjection(D, D)
    BY <1>2, <2>1, FS_Injection
  <2>3. QED
    BY <2>2 DEF Surjection
<1>6. ASSUME NEW i \in D, NEW j \in D, source[inOrder[j]].parent = 0, source[inOrder[i]].parent # 0
      PROVE  j < i
  <2>1. i # j
    BY <1>6
  <2>2. ~ (i < j)
    <3>1. inOrder[i] \in D /\ inOrder[j] \in D /\ DOMAIN inOrder = D
      BY <1>4
    <3>2. SUFFICES ASSUME i < j
                   PROVE  FALSE
      OBVIOUS
    <3> DEFINE rank(n) == <<IF source[n].parent = 0 THEN 0 ELSE 1, source[n].order>>
               before(a, b) == a[1] < b[1] \/ (a[1] = b[1] /\ a[2] < b[2])
    <3>3. \A x, y \in DOMAIN inOrder : x < y => ~before(rank(inOrder[y]), rank(inOrder[x]))
      BY DEF CopyOrders
    <3>4. rank(inOrder[j])[1] = 0 /\ rank(inOrder[i])[1] = 1
      BY <1>6
    <3>5. before(rank(inOrder[j]), rank(inOrder[i]))
      <4> HIDE DEF rank
      <4>1. QED
        BY <3>4
    <3> HIDE DEF before, rank
    <3>6. QED
      BY <3>1, <3>2, <3>3, <3>5
  <2>3. i \in Int /\ j \in Int
    BY <1>1
  <2>4. QED
    BY <2>1, <2>2, <2>3
<1>7. DOMAIN inOrder = D /\ Len(inOrder) = Len(source)
  <2>1. inOrder \in Seq(D)
    BY <1>1, <1>4
  <2>2. QED
    BY <1>1, <1>4, <2>1
<1>8. QED
  BY <1>4, <1>5, <1>6, <1>7 DEF InOrder, D

LEMMA CloneHeld ==
  ASSUME NEW target, OptionsHeld(target), NEW source, OptionsHeld(source),
         NEW inOrder, InOrder(inOrder, source), NEW n \in 0 .. Len(source) - 1,
         NEW acc, Copies(acc.made, acc.place, target, source, inOrder, n)
  PROVE  LET new == WithClone(acc, {target[k].code : k \in DOMAIN target}, source, inOrder[n + 1])
         IN Copies(new.made, new.place, target, source, inOrder, n + 1)
<1> DEFINE taken == {target[k].code : k \in DOMAIN target}
<1>0. PICK made, place, c :
        made = acc.made /\ place = acc.place /\ c = inOrder[n + 1]
  OBVIOUS
<1>1. /\ Len(source) \in Nat /\ DOMAIN source = 1 .. Len(source) /\ n \in Nat
      /\ n + 1 \in DOMAIN source /\ c \in DOMAIN source
      /\ Len(made) \in Nat /\ DOMAIN made = 1 .. Len(made)
      /\ Len(target) \in Nat /\ DOMAIN target = 1 .. Len(target) /\ Len(target) <= Len(made)
  BY <1>0 DEF OptionsHeld, IsSequence, InOrder, Copies
<1>2. \A i \in 1 .. n + 1 : i \in 1 .. n \/ i = n + 1
  BY <1>1
<1>3. CASE source[c].code \in taken
  <2>1. WithClone(acc, taken, source, c) = acc
    BY <1>3 DEF WithClone
  <2>2. \A k : Placed(made, place, target, source, inOrder, n, k)
                 => Placed(made, place, target, source, inOrder, n + 1, k)
    BY <1>1 DEF Placed
  <2>3. \E m \in DOMAIN target : target[m].code = source[c].code
    BY <1>3
  <2>4. Copies(made, place, target, source, inOrder, n + 1)
    BY <1>0, <1>1, <1>2, <2>2, <2>3 DEF Copies
  <2>5. QED
    BY <1>0, <2>1, <2>4
<1>4. CASE source[c].code \notin taken
  <2> DEFINE parent == CopyParent(place, c, source)
             row == [source[c] EXCEPT !.parent = parent]
             longer == Append(made, row)
             at == Len(made) + 1
             wider == [k \in DOMAIN place \cup {c} |-> IF k = c THEN at ELSE place[k]]
  <2>1. WithClone(acc, taken, source, c) = [made |-> longer, place |-> wider]
    BY <1>0, <1>4 DEF WithClone
  <2>2. OptionsHeld(made) /\ \A k \in DOMAIN place : Placed(made, place, target, source, inOrder, n, k)
    BY <1>0 DEF Copies
  <2>3. c \notin DOMAIN place
    <3>1. \A i \in 1 .. n : i \in DOMAIN source /\ i # n + 1
      BY <1>1
    <3>2. \A i \in 1 .. n : inOrder[i] # c
      BY <1>0, <1>1, <3>1 DEF InOrder
    <3>3. QED
      BY <2>2, <3>2 DEF Placed
  <2>4. parent \in 0 .. Len(made) + 1
    BY <1>1, <2>2 DEF CopyParent, Placed
  <2>5. DOMAIN row = OptionNames /\ row.parent = parent /\ row.code = source[c].code
    <3>1. DOMAIN source[c] = OptionNames
      BY <1>1 DEF OptionsHeld
    <3> HIDE DEF parent
    <3>2. QED
      BY <3>1 DEF OptionNames
  <2>6. \A m \in DOMAIN made : made[m].code # row.code
    <3>1. ASSUME NEW m \in DOMAIN made
          PROVE  made[m].code # source[c].code
      <4>1. CASE m \in DOMAIN target
        <5>1. made[m].code = target[m].code
          BY <1>0, <4>1 DEF Copies, Grown
        <5>2. QED
          BY <1>4, <4>1, <5>1
      <4>2. CASE m \in Len(target) + 1 .. Len(made)
        <5>1. PICK k \in DOMAIN place : place[k] = m
          BY <1>0, <4>2 DEF Copies
        <5>2. made[m].code = source[k].code /\ k \in DOMAIN source /\ k # c
          BY <2>2, <2>3, <5>1 DEF Placed
        <5>3. QED
          BY <1>1, <5>2 DEF OptionsHeld, CodesDiffer
      <4>3. QED
        BY <1>1, <3>1, <4>1, <4>2
    <3> HIDE DEF row
    <3>2. QED
      BY <2>5, <3>1
  <2> HIDE DEF row
  <2>7. /\ OptionsHeld(longer) /\ Grown(made, longer)
        /\ Len(longer) = Len(made) + 1 /\ longer[at] = row
        /\ \A m \in 1 .. Len(made) : longer[m] = made[m]
    BY <2>2, <2>4, <2>5, <2>6, AppendHeld, AppendIs DEF OptionsHeld
  <2> HIDE DEF longer
  <2>8. Grown(target, longer) /\ Len(target) <= Len(longer)
    BY <1>0, <1>1, <2>7, GrownTwice DEF Copies
  <2>9. /\ DOMAIN wider = DOMAIN place \cup {c} /\ wider[c] = at
        /\ \A k \in DOMAIN place : wider[k] = place[k]
    BY <2>3
  <2>10. KeepsParent(target, source, c) => source[c].parent \in DOMAIN place
    <3> SUFFICES ASSUME KeepsParent(target, source, c)
                 PROVE  source[c].parent \in DOMAIN place
      OBVIOUS
    <3>1. PICK p : p = source[c].parent
      OBVIOUS
    <3>2. /\ p \in DOMAIN source /\ source[p].parent = 0 /\ source[c].parent # 0
          /\ \A m \in DOMAIN target : target[m].code # source[p].code
      <4>1. source[c].parent \in 0 .. Len(source)
        BY <1>1 DEF OptionsHeld
      <4>2. QED
        BY <1>1, <3>1, <4>1 DEF KeepsParent
    <3>3. PICK j \in DOMAIN source : inOrder[j] = p
      BY <3>2 DEF InOrder
    <3>4. j < n + 1
      BY <1>0, <1>1, <3>2, <3>3 DEF InOrder
    <3>5. j \in 1 .. n
      BY <1>1, <3>4
    <3>6. QED
      BY <1>0, <3>1, <3>2, <3>3, <3>5 DEF Copies
  <2> HIDE DEF wider
  <2>11. ASSUME NEW k \in DOMAIN wider
         PROVE  Placed(longer, wider, target, source, inOrder, n + 1, k)
    <3>1. CASE k = c
      <4>1. k \in DOMAIN source /\ \E i \in 1 .. n + 1 : inOrder[i] = k
        BY <1>0, <1>1, <3>1
      <4>2. wider[k] \in Len(target) + 1 .. Len(longer) /\ longer[wider[k]] = row
        BY <1>1, <2>7, <2>9, <3>1
      <4>3. row.parent # 0 \/ KeepsParent(target, source, c) =>
              source[c].parent \in DOMAIN place /\ row.parent = place[source[c].parent]
        BY <2>5, <2>10 DEF CopyParent
      <4>4. QED
        BY <2>5, <2>9, <3>1, <4>1, <4>2, <4>3 DEF Placed
    <3>2. CASE k # c
      <4>1. k \in DOMAIN place /\ wider[k] = place[k]
        BY <2>9, <3>2
      <4>2. Placed(made, place, target, source, inOrder, n, k)
        BY <2>2, <4>1
      <4>3. place[k] \in 1 .. Len(made) /\ longer[place[k]] = made[place[k]]
        BY <1>1, <2>7, <4>2 DEF Placed
      <4>4. QED
        BY <1>1, <2>7, <2>9, <4>1, <4>2, <4>3 DEF Placed
    <3>3. QED
      BY <3>1, <3>2
  <2>12. ASSUME NEW m \in Len(target) + 1 .. Len(longer)
         PROVE  \E k \in DOMAIN wider : wider[k] = m
    <3>1. CASE m = at
      BY <2>9, <3>1
    <3>2. CASE m # at
      <4>1. m \in Len(target) + 1 .. Len(made)
        BY <1>1, <2>7, <3>2
      <4>2. PICK k \in DOMAIN place : place[k] = m
        BY <1>0, <4>1 DEF Copies
      <4>3. QED
        BY <2>9, <4>2
    <3>3. QED
      BY <3>1, <3>2
  <2>13. ASSUME NEW i \in 1 .. n + 1
         PROVE  \/ \E m \in DOMAIN target : target[m].code = source[inOrder[i]].code
                \/ inOrder[i] \in DOMAIN wider
    BY <1>0, <1>2, <2>9 DEF Copies
  <2>14. Copies(longer, wider, target, source, inOrder, n + 1)
    BY <2>7, <2>8, <2>11, <2>12, <2>13 DEF Copies
  <2>15. QED
    BY <1>0, <2>1, <2>14
<1>5. QED
  BY <1>3, <1>4

LEMMA ClonesAre ==
  ASSUME NEW acc, NEW target, NEW taken, NEW source, NEW inOrder, NEW N \in Nat,
         IsClones(acc, target, taken, source, inOrder, N)
  PROVE  /\ acc[0] = [made |-> target, place |-> <<>>]
         /\ \A n \in 1 .. N : acc[n] = WithClone(acc[n - 1], taken, source, inOrder[n])
<1>1. 0 \in 0 .. N /\ \A n \in 1 .. N : n \in 0 .. N /\ n # 0
  OBVIOUS
<1> DEFINE start == [made |-> target, place |-> <<>>]
<1> HIDE DEF start
<1>2. \A n \in 0 .. N : acc[n] = IF n = 0 THEN start
                                 ELSE WithClone(acc[n - 1], taken, source, inOrder[n])
  BY DEF IsClones, start
<1>3. QED
  BY <1>1, <1>2 DEF start

LEMMA ClonedHeld ==
  ASSUME NEW target, OptionsHeld(target), NEW source, OptionsHeld(source),
         NEW inOrder \in CopyOrders(source)
  PROVE  \E place : Copies(Cloned(target, source, inOrder), place, target, source, inOrder, Len(source))
<1> DEFINE N == Len(inOrder)
           taken == {target[k].code : k \in DOMAIN target}
           acc == CHOOSE a : IsClones(a, target, taken, source, inOrder, N)
           Good(n) == Copies(acc[n].made, acc[n].place, target, source, inOrder, n)
           Bad == {n \in 0 .. N : ~Good(n)}
<1>1. N = Len(source) /\ N \in Nat /\ InOrder(inOrder, source)
  BY OrdersAre DEF OptionsHeld, IsSequence
<1>2. IsClones(acc, target, taken, source, inOrder, N)
  <2> HIDE DEF N, taken
  <2>1. \E a : IsClones(a, target, taken, source, inOrder, N)
    BY <1>1, ClonesExist
  <2>2. QED
    BY <2>1
<1>3. Cloned(target, source, inOrder) = acc[N].made
  BY DEF Cloned, IsClones
<1> HIDE DEF acc, N
<1>4. /\ acc[0] = [made |-> target, place |-> <<>>]
      /\ \A n \in 1 .. N : acc[n] = WithClone(acc[n - 1], taken, source, inOrder[n])
  <2> HIDE DEF taken
  <2>1. QED
    BY <1>1, <1>2, ClonesAre
<1>5. Good(0)
  <2>1. acc[0].made = target /\ acc[0].place = <<>>
    BY <1>4
  <2>2. DOMAIN acc[0].place = {} /\ 1 .. 0 = {}
    BY <2>1
  <2>3. Len(target) \in Nat /\ Len(target) + 1 .. Len(target) = {}
    BY DEF OptionsHeld, IsSequence
  <2>4. Grown(target, target) /\ Len(target) <= Len(target)
    BY <2>3 DEF Grown
  <2>5. QED
    BY <2>1, <2>2, <2>3, <2>4 DEF Copies
<1>6. ASSUME Bad # {}
      PROVE  FALSE
  <2>1. PICK n \in Bad : \A m \in Bad : n <= m
    <3>1. Bad \in SUBSET Nat
      OBVIOUS
    <3> HIDE DEF Bad
    <3>2. QED
      BY <1>6, <3>1, NatLeast
  <2>2. PICK i \in 0 .. N - 1 : n = i + 1 /\ Good(i)
    <3>1. n # 0
      BY <1>5, <2>1
    <3>2. n - 1 \in 0 .. N - 1 /\ n - 1 \in 0 .. N /\ n - 1 \notin Bad /\ n = (n - 1) + 1
      BY <1>1, <2>1, <3>1
    <3>3. Good(n - 1)
      BY <3>2
    <3> HIDE DEF Good, Bad
    <3>4. QED
      BY <3>2, <3>3
  <2>3. acc[i + 1] = WithClone(acc[i], taken, source, inOrder[i + 1])
    <3>1. i + 1 \in 1 .. N /\ (i + 1) - 1 = i
      BY <1>1, <2>2
    <3> HIDE DEF taken
    <3>2. QED
      BY <1>4, <3>1
  <2>4. Good(i + 1)
    <3>1. i \in 0 .. Len(source) - 1
      BY <1>1, <2>2
    <3>2. QED
      BY <1>1, <2>2, <2>3, <3>1, CloneHeld
  <2>5. QED
    BY <2>1, <2>2, <2>4
<1>7. Good(N)
  <2>1. N \in 0 .. N
    BY <1>1
  <2>2. QED
    BY <1>6, <2>1
<1>8. QED
  BY <1>1, <1>3, <1>7

-----------------------------------------------------------------------------
(* What no edit takes away: the options of a field, their codes and their     *)
(* parents, and the key and the type of a field.                             *)
SchemaGrows ==
  /\ \A f \in Field : Grown(options[f], options'[f])
  /\ \A f \in Existing : /\ field'[f].exists /\ field'[f].key = field[f].key
                         /\ field'[f].type = field[f].type

LEMMA GrownSame ==
  ASSUME NEW a
  PROVE  Grown(a, a)
BY DEF Grown

LEMMA OptionsPut ==
  ASSUME FieldsInv, NEW f \in Field, NEW seq, OptionsHeld(seq), Grown(options[f], seq),
         PutOptions(f, seq)
  PROVE  FieldsInv' /\ SchemaGrows
<1>1. /\ options' = [options EXCEPT ![f] = seq] /\ field' = field
      /\ Len(seq) <= MaxOptions /\ options = [g \in Field |-> options[g]]
  BY DEF PutOptions, FieldsInv, OptionsInv
<1>2. /\ options' = [g \in Field |-> options'[g]] /\ options'[f] = seq
      /\ \A g \in Field \ {f} : options'[g] = options[g]
  BY <1>1
<1>3. OptionsInv'
  BY <1>1, <1>2 DEF FieldsInv, OptionsInv
<1>4. FieldsInv'
  BY <1>1, <1>3 DEF FieldsInv, Existing
<1>5. \A g \in Field : Grown(options[g], options'[g])
  BY <1>2, GrownSame
<1>6. QED
  BY <1>1, <1>4, <1>5 DEF SchemaGrows, Existing

LEMMA RowsChanged ==
  ASSUME NEW opts, OptionsHeld(opts), NEW new, new = [n \in DOMAIN opts |-> new[n]],
         \A n \in DOMAIN opts : /\ DOMAIN new[n] = OptionNames
                                /\ new[n].code = opts[n].code /\ new[n].parent = opts[n].parent
  PROVE  OptionsHeld(new) /\ Grown(opts, new)
<1> DEFINE N == Len(opts)
           S == {new[n] : n \in 1 .. N}
<1>1. N \in Nat /\ DOMAIN opts = 1 .. N
  BY DEF OptionsHeld, IsSequence
<1>2. \A n \in 1 .. N : new[n] \in S
  OBVIOUS
<1> HIDE DEF S
<1>3. new \in [1 .. N -> S]
  BY <1>1, <1>2
<1>4. Len(new) = N /\ DOMAIN new = 1 .. N
  BY <1>1, <1>3
<1>5. IsSequence(new)
  BY <1>1, <1>4 DEF IsSequence
<1>6. CodesDiffer(new)
  BY <1>1, <1>4 DEF OptionsHeld, CodesDiffer
<1>7. \A n \in DOMAIN new : DOMAIN new[n] = OptionNames /\ new[n].parent \in 0 .. Len(new)
  BY <1>1, <1>4 DEF OptionsHeld
<1>8. Grown(opts, new)
  BY <1>1, <1>4 DEF Grown
<1>9. QED
  BY <1>5, <1>6, <1>7, <1>8 DEF OptionsHeld

LEMMA AddsKeep ==
  ASSUME FieldAssumption, FieldsInv, NEW f \in Field,
         \/ \E label \in Label, parent \in 0 .. MaxOptions : AddOption(f, label, parent)
         \/ \E labels \in Pasted : AddBulk(f, labels)
         \/ \E g \in Field : CopyOptions(f, g)
  PROVE  FieldsInv' /\ SchemaGrows
<1>1. \A g \in Field : OptionsHeld(options[g])
  BY DEF FieldsInv, OptionsInv
<1>2. CASE \E label \in Label, parent \in 0 .. MaxOptions : AddOption(f, label, parent)
  <2>1. PICK label \in Label, parent \in 0 .. MaxOptions : AddOption(f, label, parent)
    BY <1>2
  <2> DEFINE new == Append(options[f], Option(Slugify(SlugOf[label], Codes(f)), label, parent,
                                              Len(options[f])))
  <2>2. parent \in 0 .. Len(options[f]) /\ label \in DOMAIN SlugOf
    BY <1>1, <2>1 DEF AddOption, OptionsHeld, IsSequence, FieldAssumption
  <2>3. OptionsHeld(new) /\ Grown(options[f], new)
    <3>1. PICK order : order = Len(options[f])
      OBVIOUS
    <3>2. QED
      BY <1>1, <2>2, <3>1, NewOption DEF Codes
  <2>4. PutOptions(f, new)
    BY <2>1 DEF AddOption
  <2> HIDE DEF new
  <2>5. QED
    BY <2>3, <2>4, OptionsPut
<1>3. CASE \E labels \in Pasted : AddBulk(f, labels)
  <2>1. PICK labels \in Pasted : AddBulk(f, labels)
    BY <1>3
  <2> DEFINE new == WithLabels(options[f], labels)
  <2>2. OptionsHeld(new) /\ Grown(options[f], new)
    BY <1>1, LabelsHeld
  <2>3. PutOptions(f, new)
    BY <2>1 DEF AddBulk
  <2> HIDE DEF new
  <2>4. QED
    BY <2>2, <2>3, OptionsPut
<1>4. CASE \E g \in Field : CopyOptions(f, g)
  <2>0. PICK g \in Field : CopyOptions(f, g)
    BY <1>4
  <2>1. PICK inOrder \in CopyOrders(options[g]) :
          PutOptions(f, Cloned(options[f], options[g], inOrder))
    BY <2>0 DEF CopyOptions
  <2> DEFINE new == Cloned(options[f], options[g], inOrder)
  <2>2. OptionsHeld(new) /\ Grown(options[f], new)
    BY <1>1, ClonedHeld DEF Copies
  <2> HIDE DEF new
  <2>3. QED
    BY <2>1, <2>2, OptionsPut DEF new
<1>5. QED
  BY <1>2, <1>3, <1>4

LEMMA ChangesKeep ==
  ASSUME FieldsInv, NEW f \in Field,
         \/ \E n, label : UpdateOption(f, n, label)
         \/ \E n : ArchiveOption(f, n)
         \/ \E named : Reorder(f, named)
  PROVE  FieldsInv' /\ SchemaGrows
<1> DEFINE opts == options[f]
<1>1. OptionsHeld(opts) /\ opts = [n \in DOMAIN opts |-> opts[n]]
  BY DEF FieldsInv, OptionsInv, OptionsHeld, IsSequence
<1>2. \A n \in DOMAIN opts : DOMAIN opts[n] = OptionNames
  BY <1>1 DEF OptionsHeld
<1> HIDE DEF opts
<1>3. CASE \E n, label : UpdateOption(f, n, label)
  <2>1. PICK n, label : UpdateOption(f, n, label)
    BY <1>3
  <2> DEFINE new == [opts EXCEPT ![n].label = label]
  <2>2. PutOptions(f, new) /\ n \in DOMAIN opts
    BY <2>1 DEF UpdateOption, opts
  <2>3. /\ new = [m \in DOMAIN opts |-> new[m]]
        /\ \A m \in DOMAIN opts : /\ DOMAIN new[m] = OptionNames
                                  /\ new[m].code = opts[m].code /\ new[m].parent = opts[m].parent
    BY <1>1, <1>2, <2>2 DEF OptionNames
  <2> HIDE DEF new
  <2>4. OptionsHeld(new) /\ Grown(opts, new)
    BY <1>1, <2>3, RowsChanged
  <2>5. QED
    BY <2>2, <2>4, OptionsPut DEF opts
<1>4. CASE \E n : ArchiveOption(f, n)
  <2>1. PICK n : ArchiveOption(f, n)
    BY <1>4
  <2> DEFINE new == [opts EXCEPT ![n].archived = TRUE]
  <2>2. PutOptions(f, new) /\ n \in DOMAIN opts
    BY <2>1 DEF ArchiveOption, opts
  <2>3. /\ new = [m \in DOMAIN opts |-> new[m]]
        /\ \A m \in DOMAIN opts : /\ DOMAIN new[m] = OptionNames
                                  /\ new[m].code = opts[m].code /\ new[m].parent = opts[m].parent
    BY <1>1, <1>2, <2>2 DEF OptionNames
  <2> HIDE DEF new
  <2>4. OptionsHeld(new) /\ Grown(opts, new)
    BY <1>1, <2>3, RowsChanged
  <2>5. QED
    BY <2>2, <2>4, OptionsPut DEF opts
<1>5. CASE \E named : Reorder(f, named)
  <2>1. PICK named : Reorder(f, named)
    BY <1>5
  <2> DEFINE place(n) == (CHOOSE k \in DOMAIN named : named[k] = n) - 1
             new == [n \in DOMAIN opts |-> IF n \in Range(named)
                                          THEN [opts[n] EXCEPT !.order = place(n)] ELSE opts[n]]
  <2>2. PutOptions(f, new)
    BY <2>1 DEF Reorder, opts
  <2> HIDE DEF place
  <2>3. /\ new = [m \in DOMAIN opts |-> new[m]]
        /\ \A m \in DOMAIN opts : /\ DOMAIN new[m] = OptionNames
                                  /\ new[m].code = opts[m].code /\ new[m].parent = opts[m].parent
    BY <1>1, <1>2 DEF OptionNames
  <2> HIDE DEF new
  <2>4. OptionsHeld(new) /\ Grown(opts, new)
    BY <1>1, <2>3, RowsChanged
  <2>5. QED
    BY <2>2, <2>4, OptionsPut DEF opts
<1>6. QED
  BY <1>3, <1>4, <1>5

(* Fields are written over in place, and a new one is given a key no field    *)
(* has.                                                                      *)
LEMMA RowWritten ==
  ASSUME RowsInv, FieldsInv, NEW f \in Field, NEW row, row.exists = field[f].exists,
         row.key = field[f].key, row.type = field[f].type, Schema(f, row), UNCHANGED options
  PROVE  FieldsInv' /\ SchemaGrows
<1>1. field' = [field EXCEPT ![f] = row] /\ field = [g \in Field |-> field[g]]
  BY DEF Schema, RowsInv
<1>2. \A g \in Field : /\ field'[g].exists = field[g].exists /\ field'[g].key = field[g].key
                       /\ field'[g].type = field[g].type
  BY <1>1
<1>3. OptionsInv' /\ \A g \in Field : Grown(options[g], options'[g])
  BY GrownSame DEF FieldsInv, OptionsInv
<1>4. QED
  BY <1>2, <1>3 DEF FieldsInv, SchemaGrows, Existing

LEMMA KeysFinite ==
  ASSUME FieldAssumption
  PROVE  IsFiniteSet(Keys)
<1>1. IsFiniteSet(Existing)
  BY FS_Subset DEF Existing, FieldAssumption
<1>2. [f \in Existing |-> field[f].key] \in Surjection(Existing, Keys)
  BY DEF Surjection, Keys
<1>3. QED
  BY <1>1, <1>2, FS_Surjection

LEMMA FieldCreated ==
  ASSUME FieldAssumption, RowsInv, FieldsInv, NEW f \in Field, NEW label \in Label,
         NEW type \in Type, NEW parent, CreateField(f, label, type, parent)
  PROVE  FieldsInv' /\ SchemaGrows
<1>0. PICK key, config : key = Slugify(SlugOf[label], Keys) /\ config = Config(type, parent)
  OBVIOUS
<1> DEFINE row == [Absent EXCEPT !.exists = TRUE, !.label = label, !.type = type,
                     !.key = key, !.parent = config]
<1>1. ~field[f].exists /\ field' = [field EXCEPT ![f] = row] /\ options' = options
  BY <1>0 DEF CreateField, Schema
<1>2. row.exists = TRUE /\ row.key = key /\ row.type = type
  BY AbsentShape DEF RowNames
<1>3. key \notin Keys
  BY <1>0, KeysFinite, CodeIsNew DEF FieldAssumption
<1> HIDE DEF row
<1>4. field'[f] = row /\ \A g \in Field \ {f} : field'[g] = field[g]
  BY <1>1 DEF RowsInv
<1>5. OptionsInv' /\ \A g \in Field : Grown(options[g], options'[g])
  BY <1>1, GrownSame DEF FieldsInv, OptionsInv
<1>6. Existing' = Existing \cup {f} /\ f \notin Existing
  BY <1>1, <1>2, <1>4 DEF Existing
<1>7. \A g \in Existing : field'[g] = field[g] /\ field'[g].key # key
  BY <1>3, <1>4, <1>6 DEF Keys, Existing
<1>8. \A g \in Existing' : field'[g].type \in Type \cup Range(BuiltinType)
  BY <1>2, <1>4, <1>6, <1>7 DEF FieldsInv
<1>9. \A g, h \in Existing' : g # h => field'[g].key # field'[h].key
  BY <1>2, <1>4, <1>6, <1>7 DEF FieldsInv
<1>10. FieldsInv'
  BY <1>5, <1>8, <1>9 DEF FieldsInv
<1>11. QED
  BY <1>5, <1>6, <1>7, <1>10 DEF SchemaGrows, Existing

LEMMA RowEditsKeep ==
  ASSUME RowsInv, FieldsInv, NEW f \in Field,
         \/ \E label, required, locked : UpdateField(f, label, required, locked)
         \/ \E parent : UpdateConfig(f, parent)
         \/ Unhide(f)
  PROVE  FieldsInv' /\ SchemaGrows
<1>1. PICK old : old = field[f]
  OBVIOUS
<1>2. DOMAIN old = RowNames
  BY <1>1, AbsentShape DEF RowsInv
<1>3. CASE \E label, required, locked : UpdateField(f, label, required, locked)
  <2>1. PICK a, b, c : UpdateField(f, a, b, c)
    BY <1>3
  <2> DEFINE row == [old EXCEPT !.label = a, !.required = b, !.locked = c]
  <2>2. row.exists = old.exists /\ row.key = old.key /\ row.type = old.type
    BY <1>2, RowUpdates
  <2>3. Schema(f, row) /\ UNCHANGED options
    BY <1>1, <2>1 DEF UpdateField
  <2> HIDE DEF row
  <2>4. QED
    BY <1>1, <2>2, <2>3, RowWritten
<1>4. CASE \E parent : UpdateConfig(f, parent)
  <2>1. PICK parent : UpdateConfig(f, parent)
    BY <1>4
  <2>2. PICK a : a = Config(field[f].type, parent)
    OBVIOUS
  <2> DEFINE row == [old EXCEPT !.parent = a]
  <2>3. row.exists = old.exists /\ row.key = old.key /\ row.type = old.type
    BY <1>2, RowUpdates
  <2>4. Schema(f, row) /\ UNCHANGED options
    BY <1>1, <2>1, <2>2 DEF UpdateConfig
  <2> HIDE DEF row
  <2>5. QED
    BY <1>1, <2>3, <2>4, RowWritten
<1>5. CASE Unhide(f)
  <2> DEFINE row == [old EXCEPT !.hidden = FALSE]
  <2>1. row.exists = old.exists /\ row.key = old.key /\ row.type = old.type
    BY <1>2, RowUpdates
  <2>2. Schema(f, row) /\ UNCHANGED options
    BY <1>1, <1>5 DEF Unhide
  <2> HIDE DEF row
  <2>3. QED
    BY <1>1, <2>1, <2>2, RowWritten
<1>6. QED
  BY <1>3, <1>4, <1>5

LEMMA HidingKeeps ==
  ASSUME IdentityAssumption, RowsInv, FieldsInv, NEW q \in Request, CommitHide(q)
  PROVE  FieldsInv' /\ SchemaGrows
<1>1. PICK f : f = pending[q].field
  OBVIOUS
<1>2. f \in Field
  BY <1>1 DEF CommitHide, RowsInv, IdentityAssumption
<1>3. PICK old : old = field[f]
  OBVIOUS
<1> DEFINE row == [old EXCEPT !.hidden = TRUE]
<1>4. row.exists = old.exists /\ row.key = old.key /\ row.type = old.type
  <2>1. DOMAIN old = RowNames
    BY <1>2, <1>3, AbsentShape DEF RowsInv
  <2>2. QED
    BY <2>1, RowUpdates
<1>5. Schema(f, row) /\ UNCHANGED options
  BY <1>1, <1>3 DEF CommitHide
<1> HIDE DEF row
<1>6. QED
  BY <1>2, <1>3, <1>4, <1>5, RowWritten

LEMMA ElsewhereGrows ==
  ASSUME FieldsInv, UNCHANGED <<field, options>>
  PROVE  FieldsInv' /\ SchemaGrows
BY GrownSame DEF FieldsInv, OptionsInv, SchemaGrows, Existing

LEMMA FieldsInductive ==
  ASSUME IdentityAssumption, FieldAssumption, IdentityInv, FieldsInv, [FieldNext]_fieldVars
  PROVE  FieldsInv' /\ SchemaGrows
<1>0. RowsInv
  BY DEF IdentityInv
<1>1. ASSUME NEW f \in Field, NEW label \in Label, NEW type \in Type, NEW parent,
             CreateField(f, label, type, parent)
      PROVE  FieldsInv' /\ SchemaGrows
  BY <1>0, <1>1, FieldCreated
<1>2. ASSUME NEW f \in Field, NEW label, NEW required, NEW locked,
             UpdateField(f, label, required, locked)
      PROVE  FieldsInv' /\ SchemaGrows
  BY <1>0, <1>2, RowEditsKeep
<1>3. ASSUME NEW f \in Field, NEW parent, UpdateConfig(f, parent)
      PROVE  FieldsInv' /\ SchemaGrows
  BY <1>0, <1>3, RowEditsKeep
<1>4. ASSUME NEW f \in Field, Unhide(f)
      PROVE  FieldsInv' /\ SchemaGrows
  BY <1>0, <1>4, RowEditsKeep
<1>5. ASSUME NEW f \in Field, NEW label \in Label, NEW parent \in 0 .. MaxOptions,
             AddOption(f, label, parent)
      PROVE  FieldsInv' /\ SchemaGrows
  BY <1>5, AddsKeep
<1>6. ASSUME NEW f \in Field, NEW labels \in Pasted, AddBulk(f, labels)
      PROVE  FieldsInv' /\ SchemaGrows
  BY <1>6, AddsKeep
<1>7. ASSUME NEW f \in Field, NEW g \in Field, CopyOptions(f, g)
      PROVE  FieldsInv' /\ SchemaGrows
  BY <1>7, AddsKeep
<1>8. ASSUME NEW f \in Field, NEW n, NEW label, UpdateOption(f, n, label)
      PROVE  FieldsInv' /\ SchemaGrows
  BY <1>8, ChangesKeep
<1>9. ASSUME NEW f \in Field, NEW n, ArchiveOption(f, n)
      PROVE  FieldsInv' /\ SchemaGrows
  BY <1>9, ChangesKeep
<1>10. ASSUME NEW f \in Field, NEW named, Reorder(f, named)
       PROVE  FieldsInv' /\ SchemaGrows
  BY <1>10, ChangesKeep
<1>11. ASSUME NEW f, NEW g, SetPrimary(f, g)
       PROVE  FieldsInv' /\ SchemaGrows
  BY <1>11, ElsewhereGrows DEF SetPrimary
<1>12. ASSUME NEW q, NEW op, NEW f, Begin(q, op, f)
       PROVE  FieldsInv' /\ SchemaGrows
  BY <1>12, ElsewhereGrows DEF Begin
<1>13. ASSUME NEW q \in Request, CommitHide(q)
       PROVE  FieldsInv' /\ SchemaGrows
  BY <1>0, <1>13, HidingKeeps
<1>14. ASSUME NEW q, CommitIdentity(q)
       PROVE  FieldsInv' /\ SchemaGrows
  BY <1>14, ElsewhereGrows DEF CommitIdentity
<1>15. CASE UNCHANGED fieldVars
  BY <1>15, ElsewhereGrows DEF fieldVars
<1>16. QED
  BY <1>1, <1>2, <1>3, <1>4, <1>5, <1>6, <1>7, <1>8, <1>9, <1>10, <1>11, <1>12, <1>13, <1>14,
     <1>15 DEF FieldNext

LEMMA FieldsStart ==
  ASSUME IdentityAssumption, FieldAssumption, FieldInit
  PROVE  FieldsInv
<1>1. OptionsHeld(<<>>) /\ Len(<<>>) = 0
  <2>1. Len(<<>>) = 0 /\ DOMAIN <<>> = {} /\ 1 .. 0 = {}
    OBVIOUS
  <2>2. IsSequence(<<>>)
    BY <2>1 DEF IsSequence
  <2>3. QED
    BY <2>1, <2>2 DEF OptionsHeld, CodesDiffer
<1>2. OptionsInv
  <2>1. options = [f \in Field |-> <<>>]
    BY DEF FieldInit
  <2>2. options = [f \in Field |-> options[f]] /\ \A f \in Field : options[f] = <<>>
    BY <2>1
  <2>3. MaxOptions \in Nat
    BY DEF FieldAssumption
  <2>4. QED
    BY <1>1, <2>2, <2>3 DEF OptionsInv
<1>3. \A f \in Existing : /\ f \in 1 .. Builtin
                          /\ field[f].type = BuiltinType[f] /\ field[f].key = <<"builtin", f>>
  <2>1. TAKE f \in Existing
  <2>2. f \in Field /\ field[f].exists /\ f \in Nat \ {0} /\ Builtin \in Nat
    BY DEF Existing, FieldAssumption, IdentityAssumption
  <2>3. Absent.exists = FALSE
    BY DEF Absent
  <2> DEFINE row == [Absent EXCEPT !.exists = TRUE, !.builtin = TRUE, !.type = BuiltinType[f],
                                   !.key = <<"builtin", f>>]
  <2>4. row.type = BuiltinType[f] /\ row.key = <<"builtin", f>>
    BY AbsentShape DEF RowNames
  <2>5. field = [g \in Field |->
           IF g > Builtin THEN Absent
           ELSE [Absent EXCEPT !.exists = TRUE, !.builtin = TRUE, !.type = BuiltinType[g],
                               !.key = <<"builtin", g>>]]
    BY DEF FieldInit
  <2>6. field[f] = IF f > Builtin THEN Absent ELSE row
    BY <2>2, <2>5, Zenon
  <2> HIDE DEF row
  <2>7. f \in 1 .. Builtin /\ field[f] = row
    BY <2>2, <2>3, <2>6
  <2>8. QED
    BY <2>4, <2>7
<1>4. \A f \in Existing : field[f].type \in Range(BuiltinType)
  BY <1>3 DEF FieldAssumption, Range
<1>5. \A f, g \in Existing : f # g => field[f].key # field[g].key
  BY <1>3
<1>6. QED
  BY <1>2, <1>4, <1>5 DEF FieldsInv

(* The strengthening FieldsInv is an invariant of the specification.         *)
THEOREM FieldsAlways ==
  ASSUME IdentityAssumption, FieldAssumption
  PROVE  FieldSpec => [](IdentityInv /\ FieldsInv)
<1>1. FieldInit => IdentityInv /\ FieldsInv
  BY IdentityInit, FieldsStart
<1>2. IdentityInv /\ FieldsInv /\ [FieldNext]_fieldVars => IdentityInv' /\ FieldsInv'
  BY IdentityInductive, FieldsInductive
<1>3. QED
  BY <1>1, <1>2, PTL DEF FieldSpec

(* A field has its own key, whatever it and the others are called, and every *)
(* option of a field its own code, whatever was added, pasted and copied:    *)
(* keys and codes are what leads and rules refer to.                         *)
THEOREM FieldsTypeCorrect ==
  ASSUME IdentityAssumption, FieldAssumption
  PROVE  FieldSpec => []FieldTypeOK
<1>1. ASSUME IdentityInv, FieldsInv
      PROVE  FieldTypeOK
  <2>1. identity \in Existing
    BY <1>1 DEF IdentityInv, Identifies, Existing
  <2>2. ASSUME NEW f \in Field
        PROVE  Len(options[f]) = Cardinality(Codes(f)) /\ Len(options[f]) <= MaxOptions
    <3> DEFINE opts == options[f]
               code == [n \in DOMAIN opts |-> opts[n].code]
    <3>1. /\ Len(opts) \in Nat /\ DOMAIN opts = 1 .. Len(opts) /\ CodesDiffer(opts)
          /\ Len(opts) <= MaxOptions
      BY <1>1 DEF FieldsInv, OptionsInv, OptionsHeld, IsSequence
    <3>2. code \in Bijection(DOMAIN opts, Codes(f))
      BY <3>1 DEF Codes, CodesDiffer, Bijection, Injection, Surjection, IsInjective
    <3>3. IsFiniteSet(DOMAIN opts) /\ Cardinality(DOMAIN opts) = Len(opts)
      <4>1. 1 \in Int /\ Len(opts) \in Int
        BY <3>1
      <4>2. IsFiniteSet(1 .. Len(opts)) /\ Cardinality(1 .. Len(opts)) = Len(opts)
        BY <3>1, <4>1, FS_Interval
      <4>3. QED
        BY <3>1, <4>2
    <3>4. Cardinality(Codes(f)) = Len(opts)
      <4>1. ExistsBijection(DOMAIN opts, Codes(f))
        BY <3>2 DEF ExistsBijection
      <4> HIDE DEF opts
      <4>2. QED
        BY <3>3, <4>1, FS_Bijection
    <3>5. QED
      BY <3>1, <3>4
  <2>3. QED
    BY <1>1, <2>1, <2>2 DEF FieldsInv, FieldTypeOK
<1>2. QED
  BY <1>1, FieldsAlways, PTL

ParentCode(opts, n) == IF opts[n].parent = 0 THEN <<>> ELSE opts[opts[n].parent].code

LEMMA CopyOfOne ==
  ASSUME FieldsInv, NEW f \in Field, NEW g \in Field, CopyOptions(f, g),
         NEW n \in (Len(options[f]) + 1) .. Len(options'[f])
  PROVE  \E k \in DOMAIN options[g] :
           LET p == options[g][k].parent IN
           /\ options[g][k].code = options'[f][n].code
           /\ ParentCode(options'[f], n) \in {ParentCode(options[g], k), <<>>}
           /\ p # 0 /\ options[g][p].parent = 0 /\ options[g][p].code \notin Codes(f)
                => ParentCode(options'[f], n) = ParentCode(options[g], k)
<1> DEFINE target == options[f]
           source == options[g]
           made == options'[f]
<1>1. OptionsHeld(target) /\ OptionsHeld(source) /\ options = [h \in Field |-> options[h]]
  BY DEF FieldsInv, OptionsInv
<1>2. PICK inOrder \in CopyOrders(source) : PutOptions(f, Cloned(target, source, inOrder))
  BY DEF CopyOptions
<1>3. made = Cloned(target, source, inOrder)
  BY <1>1, <1>2 DEF PutOptions
<1>4. PICK place : Copies(made, place, target, source, inOrder, Len(source))
  BY <1>1, <1>3, ClonedHeld
<1>5. /\ Len(source) \in Nat /\ DOMAIN source = 1 .. Len(source) /\ Len(target) \in Nat
      /\ Len(made) \in Nat
  BY <1>1, <1>4 DEF OptionsHeld, IsSequence, Copies
<1> HIDE DEF target, source, made
<1>6. PICK k \in DOMAIN place : place[k] = n
  BY <1>4 DEF Copies, target, made
<1>7. /\ k \in DOMAIN source /\ made[n].code = source[k].code
      /\ made[n].parent # 0 \/ KeepsParent(target, source, k) =>
           source[k].parent \in DOMAIN place /\ made[n].parent = place[source[k].parent]
  BY <1>4, <1>6 DEF Copies, Placed
<1>8. ASSUME made[n].parent # 0 \/ KeepsParent(target, source, k)
      PROVE  ParentCode(made, n) = ParentCode(source, k)
  <2>1. PICK p : p = source[k].parent
    OBVIOUS
  <2>2. p \in DOMAIN place /\ made[n].parent = place[p]
    BY <1>7, <1>8, <2>1
  <2>3. /\ p \in DOMAIN source /\ place[p] \in Len(target) + 1 .. Len(made)
        /\ made[place[p]].code = source[p].code
    BY <1>4, <2>2 DEF Copies, Placed
  <2>4. p # 0 /\ place[p] # 0
    BY <1>5, <2>3
  <2>5. QED
    BY <2>1, <2>2, <2>3, <2>4 DEF ParentCode
<1>9. ParentCode(made, n) \in {ParentCode(source, k), <<>>}
  BY <1>8 DEF ParentCode
<1>10. ASSUME source[k].parent # 0, source[source[k].parent].parent = 0,
              source[source[k].parent].code \notin Codes(f)
       PROVE  KeepsParent(target, source, k)
  BY <1>10 DEF KeepsParent, Codes, target
<1>11. QED
  BY <1>7, <1>8, <1>9, <1>10 DEF target, source, made

(* "Clone another field's option set": an option that arrives with a parent  *)
(* has the parent it had where it came from, and one whose parent was a root *)
(* and came along keeps it.                                                  *)
THEOREM CopiesKeepTrees ==
  ASSUME IdentityAssumption, FieldAssumption
  PROVE  FieldSpec => CopyKeepsTrees
<1>1. ASSUME FieldsInv
      PROVE  CopiedTreesKept
  <2>1. ASSUME NEW f \in Field, NEW g \in Field, CopyOptions(f, g),
               NEW n \in (Len(options[f]) + 1) .. Len(options'[f])
        PROVE  \E k \in DOMAIN options[g] :
                 LET p == options[g][k].parent IN
                 /\ options[g][k].code = options'[f][n].code
                 /\ ParentCode(options'[f], n) \in {ParentCode(options[g], k), <<>>}
                 /\ p # 0 /\ options[g][p].parent = 0 /\ options[g][p].code \notin Codes(f)
                      => ParentCode(options'[f], n) = ParentCode(options[g], k)
    BY <1>1, <2>1, CopyOfOne
  <2>2. QED
    BY <2>1 DEF CopiedTreesKept, ParentCode
<1>2. QED
  BY <1>1, FieldsAlways, PTL DEF FieldSpec, CopyKeepsTrees

-----------------------------------------------------------------------------
(* Values: what the normalisers let through. *)

WithTag(kept, tag) ==
  IF Blank(tag) \/ \E k \in DOMAIN kept : kept[k] = tag THEN kept ELSE Append(kept, tag)

IsTags(kept, given, N) ==
  kept = [n \in 0 .. N |-> IF n = 0 THEN <<>> ELSE WithTag(kept[n - 1], given[n])]

LEMMA TagsExist ==
  ASSUME NEW given, NEW N \in Nat
  PROVE  \E kept : IsTags(kept, given, N)
<1> DEFINE Without == {n \in 0 .. N : ~ \E kept : IsTags(kept, given, n)}
<1>1. SUFFICES ASSUME Without # {}
               PROVE  FALSE
  OBVIOUS
<1>2. PICK n \in Without : \A m \in Without : n <= m
  <2>1. Without \in SUBSET Nat
    OBVIOUS
  <2>2. QED
    BY <1>1, <2>1, NatLeast
<1>3. n # 0
  <2>1. IsTags([i \in 0 .. 0 |-> <<>>], given, 0)
    BY DEF IsTags
  <2>2. QED
    BY <1>2, <2>1
<1>4. PICK kept : IsTags(kept, given, n - 1)
  <2>1. n - 1 \in 0 .. N /\ n - 1 \notin Without
    BY <1>2, <1>3
  <2>2. QED
    BY <2>1
<1> DEFINE more == [i \in 0 .. n |-> IF i < n THEN kept[i] ELSE WithTag(kept[n - 1], given[n])]
<1>5. IsTags(more, given, n)
  <2>1. n \in Nat \ {0}
    BY <1>2, <1>3
  <2>2. ASSUME NEW i \in 0 .. n
        PROVE  more[i] = IF i = 0 THEN <<>> ELSE WithTag(more[i - 1], given[i])
    <3>1. CASE i < n
      <4>1. i \in 0 .. n - 1 /\ (i # 0 => i - 1 \in 0 .. n /\ i - 1 < n)
        BY <2>1, <3>1
      <4>2. kept[i] = IF i = 0 THEN <<>> ELSE WithTag(kept[i - 1], given[i])
        BY <4>1, <1>4 DEF IsTags
      <4>3. more[i] = kept[i] /\ (i # 0 => more[i - 1] = kept[i - 1])
        BY <4>1, <3>1
      <4>4. QED
        BY <4>2, <4>3
    <3>2. CASE i = n
      <4>1. n - 1 \in 0 .. n /\ n - 1 < n /\ ~ (n < n) /\ n # 0
        BY <2>1
      <4>2. more[n - 1] = kept[n - 1]
        BY <4>1
      <4>3. more[n] = WithTag(kept[n - 1], given[n])
        BY <4>1, <2>1
      <4>4. QED
        BY <4>1, <4>2, <4>3, <3>2
    <3>3. QED
      BY <3>1, <3>2, <2>1
  <2> HIDE DEF more
  <2>3. more = [i \in 0 .. n |-> more[i]]
    BY DEF more
  <2>4. QED
    BY <2>2, <2>3 DEF IsTags
<1>6. QED
  BY <1>2, <1>5

LEMMA TagsStep ==
  ASSUME NEW kept, NEW given, NEW N \in Nat, IsTags(kept, given, N)
  PROVE  kept[0] = <<>> /\ \A n \in 1 .. N : kept[n] = WithTag(kept[n - 1], given[n])
<1>1. 0 \in 0 .. N /\ \A n \in 1 .. N : n \in 0 .. N /\ n # 0
  OBVIOUS
<1>2. \A n \in 0 .. N : kept[n] = IF n = 0 THEN <<>> ELSE WithTag(kept[n - 1], given[n])
  BY DEF IsTags
<1>3. QED
  BY <1>1, <1>2

(* Every tag kept was given, is not blank, and is kept once. *)
TagsOf(kept, given) ==
  /\ IsSequence(kept)
  /\ \A k \in DOMAIN kept : \E n \in DOMAIN given : kept[k] = given[n] /\ ~Blank(given[n])
  /\ \A j, k \in DOMAIN kept : j # k => kept[j] # kept[k]

LEMMA TagsAre ==
  ASSUME NEW given, IsSequence(given)
  PROVE  TagsOf(Tags(given), given)
<1> DEFINE N == Len(given)
           kept == CHOOSE k : IsTags(k, given, N)
           Bad == {n \in 0 .. N : ~TagsOf(kept[n], given)}
<1>1. N \in Nat /\ DOMAIN given = 1 .. N
  BY DEF IsSequence
<1>2. IsTags(kept, given, N)
  <2>1. \E k : IsTags(k, given, N)
    BY <1>1, TagsExist
  <2>2. QED
    BY <2>1
<1>3. Tags(given) = kept[N]
  BY DEF Tags, IsTags, WithTag
<1> HIDE DEF kept, N
<1>4. kept[0] = <<>> /\ \A n \in 1 .. N : kept[n] = WithTag(kept[n - 1], given[n])
  BY <1>1, <1>2, TagsStep
<1>5. Bad = {}
  <2> SUFFICES ASSUME Bad # {}
               PROVE  FALSE
    OBVIOUS
  <2>1. PICK n \in Bad : \A m \in Bad : n <= m
    <3>1. Bad \in SUBSET Nat
      OBVIOUS
    <3>2. QED
      BY <3>1, NatLeast
  <2>2. n # 0
    <3>1. Len(<<>>) = 0 /\ DOMAIN <<>> = {} /\ 1 .. 0 = {}
      OBVIOUS
    <3>2. TagsOf(<<>>, given)
      BY <3>1 DEF TagsOf, IsSequence
    <3>3. QED
      BY <1>4, <2>1, <3>2
  <2>3. n \in 1 .. N /\ TagsOf(kept[n - 1], given)
    <3>1. n \in 1 .. N /\ n - 1 \in 0 .. N /\ n - 1 \notin Bad
      BY <1>1, <2>1, <2>2
    <3>2. QED
      BY <3>1
  <2>4. PICK old, tag : old = kept[n - 1] /\ tag = given[n]
    OBVIOUS
  <2>5. kept[n] = WithTag(old, tag) /\ TagsOf(old, given)
    BY <1>4, <2>3, <2>4
  <2>6. CASE Blank(tag) \/ \E k \in DOMAIN old : old[k] = tag
    BY <2>1, <2>5, <2>6 DEF WithTag
  <2>7. CASE ~Blank(tag) /\ \A k \in DOMAIN old : old[k] # tag
    <3> DEFINE new == Append(old, tag)
    <3>1. kept[n] = new
      BY <2>5, <2>7 DEF WithTag
    <3>2. /\ IsSequence(new) /\ Len(old) \in Nat /\ DOMAIN old = 1 .. Len(old)
          /\ Len(new) = Len(old) + 1 /\ DOMAIN new = 1 .. Len(old) + 1
          /\ \A k \in 1 .. Len(old) : new[k] = old[k]
          /\ new[Len(old) + 1] = tag
      BY <2>5, AppendIs DEF TagsOf
    <3> HIDE DEF new
    <3>3. \A k \in DOMAIN new : k \in DOMAIN old \/ k = Len(old) + 1
      BY <3>2
    <3>4. \A k \in DOMAIN new : \E m \in DOMAIN given : new[k] = given[m] /\ ~Blank(given[m])
      BY <1>1, <2>3, <2>4, <2>5, <2>7, <3>2, <3>3 DEF TagsOf
    <3>5. \A j, k \in DOMAIN new : j # k => new[j] # new[k]
      BY <2>5, <2>7, <3>2, <3>3 DEF TagsOf
    <3>6. TagsOf(new, given)
      BY <3>2, <3>4, <3>5 DEF TagsOf
    <3>7. QED
      BY <2>1, <3>1, <3>6
  <2>8. QED
    BY <2>6, <2>7
<1>6. N \in 0 .. N
  BY <1>1
<1>7. QED
  BY <1>3, <1>5, <1>6

(* What is known of a value that arrives. *)
RawIs(raw) ==
  /\ raw.kind = "text" => raw = Text(raw.text, raw.sort)
  /\ raw.kind = "text" /\ raw.sort = "word" => raw.text \in DOMAIN Canonical
  /\ raw.kind = "list" => IsSequence(raw.items)

LEMMA Known ==
  ASSUME NEW f, NEW code
  PROVE  /\ Shown(f, code).known <=> code \in Codes(f)
         /\ Shown(f, code)'.known <=> code \in Codes(f)'
BY DEF Shown

LEMMA LiveKnown ==
  ASSUME NEW f, NEW code \in LiveCodes(f)
  PROVE  Shown(f, code).known
<1>1. code \in Codes(f)
  BY DEF LiveCodes, Codes
<1>2. QED
  BY <1>1, Known

LEMMA NotBlank ==
  ASSUME NEW raw, BlankToNone(raw) # Null
  PROVE  BlankToNone(raw) = raw /\ raw # Null
<1>1. Null.kind = "null"
  BY DEF Null
<1>2. QED
  BY <1>1 DEF BlankToNone

LEMMA TagsResolve ==
  ASSUME NEW f, field[f].type = "TAGS", NEW raw, RawIs(raw), ~HasTemplate(raw),
         NEW given, given = BlankToNone(raw), NormTags(given, LiveCodes(f)) \notin {Null, Refused}
  PROVE  /\ Resolves(f, NormTags(given, LiveCodes(f)))
         /\ ~HasTemplate(NormTags(given, LiveCodes(f)))
<1> DEFINE codes == LiveCodes(f)
           stored == NormTags(given, codes)
           items == IF given.kind = "list" THEN given.items ELSE <<given>>
<1>1. given # Null /\ given = raw
  BY NotBlank DEF NormTags
<1>2. /\ \A n \in DOMAIN items : /\ items[n].kind = "text"
                                 /\ Blank(items[n]) \/ items[n].text \in codes
      /\ Tags(items) # <<>> /\ stored = Many(Tags(items))
  BY <1>1 DEF NormTags
<1>3. IsSequence(items)
  <2>1. CASE given.kind = "list"
    BY <1>1, <2>1 DEF RawIs
  <2>2. CASE given.kind # "list"
    <3>1. Len(<<given>>) = 1 /\ <<given>> = [n \in 1 .. 1 |-> <<given>>[n]]
      OBVIOUS
    <3>2. QED
      BY <2>2, <3>1 DEF IsSequence
  <2>3. QED
    BY <2>1, <2>2
<1>4. \A n \in DOMAIN items : items[n].sort # "template"
  <2>1. CASE given.kind = "list"
    BY <1>1, <2>1 DEF HasTemplate
  <2>2. CASE given.kind # "list"
    <3>1. DOMAIN <<given>> = {1} /\ <<given>>[1] = given
      OBVIOUS
    <3>2. given.kind = "text"
      BY <1>2, <2>2, <3>1
    <3>3. QED
      BY <1>1, <2>2, <3>1, <3>2 DEF HasTemplate
  <2>3. QED
    BY <2>1, <2>2
<1> HIDE DEF items, codes
<1>5. TagsOf(Tags(items), items)
  BY <1>3, TagsAre
<1>6. PICK tags : tags = Tags(items)
  OBVIOUS
<1>7. \A n \in DOMAIN tags : tags[n].text \in codes /\ tags[n].sort # "template"
  BY <1>2, <1>4, <1>5, <1>6 DEF TagsOf
<1>8. stored.items = tags /\ stored.kind = "list" /\ tags # <<>>
  BY <1>2, <1>6 DEF Many
<1> HIDE DEF stored
<1>9. \A n \in DOMAIN tags : Shown(f, tags[n].text).known
  BY <1>7, LiveKnown DEF codes
<1>10. Resolves(f, stored)
  <2>1. \A n, k \in DOMAIN tags : n # k => tags[n] # tags[k]
    BY <1>5, <1>6 DEF TagsOf
  <2>2. QED
    BY <1>8, <1>9, <2>1 DEF Resolves
<1>11. ~HasTemplate(stored)
  BY <1>7, <1>8 DEF HasTemplate
<1>12. QED
  BY <1>10, <1>11 DEF stored, codes

LEMMA DependentResolves ==
  ASSUME NEW f, field[f].type = "DEPENDENT_DROPDOWN", NEW raw, ~HasTemplate(raw),
         NEW given, given = BlankToNone(raw),
         NormDependent(given, LiveCodes(f), ParentCodes(f)) \notin {Null, Refused}
  PROVE  /\ Resolves(f, NormDependent(given, LiveCodes(f), ParentCodes(f)))
         /\ ~HasTemplate(NormDependent(given, LiveCodes(f), ParentCodes(f)))
<1> DEFINE codes == LiveCodes(f)
           parentOf == ParentCodes(f)
           stored == NormDependent(given, codes, parentOf)
<1>1. given # Null /\ given = raw
  BY NotBlank DEF NormDependent
<1>2. PICK value : value = IF given.kind = "pair" THEN given.value ELSE given
  OBVIOUS
<1>3. BlankToNone(value) # Null
  BY <1>2 DEF NormDependent
<1>4. BlankToNone(value) = value
  BY <1>3, NotBlank
<1>5. value.kind = "text" /\ value.text \in codes /\ stored = Pair(parentOf[value.text], value)
  BY <1>1, <1>2, <1>3, <1>4 DEF NormDependent
<1>6. value.sort # "template"
  BY <1>1, <1>2, <1>5 DEF HasTemplate
<1>7. value.text \in Codes(f)
  BY <1>5 DEF LiveCodes, Codes
<1>8. parentOf[value.text] = Null \/ \E code : parentOf[value.text] = Text(code, "word")
  BY <1>7 DEF ParentCodes
<1> HIDE DEF parentOf, codes
<1>9. /\ stored.kind = "pair" /\ stored.value = value /\ stored.parent = parentOf[value.text]
  BY <1>5 DEF Pair
<1> HIDE DEF stored
<1>10. Resolves(f, stored)
  <2>1. Shown(f, value.text).known
    BY <1>7, Known
  <2>2. QED
    BY <1>9, <2>1 DEF Resolves, parentOf
<1>11. ~HasTemplate(stored)
  <2>1. stored.parent.kind = "null" \/ stored.parent.sort = "word"
    <3>1. Null.kind = "null" /\ \A code : Text(code, "word").sort = "word"
      BY DEF Null, Text
    <3>2. QED
      BY <1>8, <1>9, <3>1
  <2>2. QED
    BY <1>6, <1>9, <2>1 DEF HasTemplate
<1>12. QED
  BY <1>10, <1>11 DEF stored, codes, parentOf

LEMMA TextResolves ==
  ASSUME NEW f, field[f].type \notin {"DROPDOWN", "TAGS", "DEPENDENT_DROPDOWN"},
         NEW raw, RawIs(raw), NEW given, given = BlankToNone(raw),
         NormScalar(given, {"word"}, Canonical) \notin {Null, Refused}
  PROVE  /\ Resolves(f, NormScalar(given, {"word"}, Canonical))
         /\ ~HasTemplate(NormScalar(given, {"word"}, Canonical))
<1> DEFINE stored == NormScalar(given, {"word"}, Canonical)
<1>1. given # Null /\ given = raw
  BY NotBlank DEF NormScalar
<1>2. raw.kind = "text" /\ raw.sort = "word" /\ stored = [raw EXCEPT !.text = Canonical[raw.text]]
  BY <1>1 DEF NormScalar
<1>3. raw = [kind |-> "text", text |-> raw.text, sort |-> "word"] /\ raw.text \in DOMAIN Canonical
  BY <1>2 DEF RawIs, Text
<1>4. stored.kind = "text" /\ stored.sort = "word" /\ stored.text = Canonical[raw.text]
  BY <1>2, <1>3
<1> HIDE DEF stored
<1>5. Resolves(f, stored)
  BY <1>3, <1>4 DEF Resolves
<1>6. ~HasTemplate(stored)
  BY <1>4 DEF HasTemplate
<1>7. QED
  BY <1>5, <1>6 DEF stored

(* What a field stores resolves in it, and holds no template. *)
LEMMA NormalResolves ==
  ASSUME NEW f, NEW raw, RawIs(raw), ~HasTemplate(raw), Normal(f, raw) \notin {Null, Refused}
  PROVE  Resolves(f, Normal(f, raw)) /\ ~HasTemplate(Normal(f, raw))
<1>1. PICK given : given = BlankToNone(raw)
  OBVIOUS
<1>2. CASE field[f].type = "DROPDOWN"
  <2>1. Normal(f, raw) = NormDropdown(given, LiveCodes(f))
    BY <1>1, <1>2 DEF Normal
  <2>2. given # Null /\ given = raw
    BY <1>1, <2>1, NotBlank DEF NormDropdown
  <2>3. Normal(f, raw) = raw /\ raw.text \in LiveCodes(f)
    BY <2>1, <2>2 DEF NormDropdown
  <2>4. Shown(f, raw.text).known
    BY <2>3, LiveKnown
  <2>5. QED
    BY <1>2, <2>3, <2>4 DEF Resolves
<1>3. CASE field[f].type = "TAGS"
  <2>1. Normal(f, raw) = NormTags(given, LiveCodes(f))
    BY <1>1, <1>3 DEF Normal
  <2>2. QED
    BY <1>1, <1>3, <2>1, TagsResolve
<1>4. CASE field[f].type = "DEPENDENT_DROPDOWN"
  <2>1. Normal(f, raw) = NormDependent(given, LiveCodes(f), ParentCodes(f))
    BY <1>1, <1>4 DEF Normal
  <2>2. QED
    BY <1>1, <1>4, <2>1, DependentResolves
<1>5. CASE field[f].type \notin {"DROPDOWN", "TAGS", "DEPENDENT_DROPDOWN"}
  <2>1. Normal(f, raw) = NormScalar(given, {"word"}, Canonical)
    BY <1>1, <1>5 DEF Normal
  <2>2. QED
    BY <1>1, <1>5, <2>1, TextResolves
<1>6. QED
  BY <1>2, <1>3, <1>4, <1>5

-----------------------------------------------------------------------------
(* What is stored stays resolved while the schema grows. *)

LEMMA ParentsStay ==
  ASSUME FieldsInv, FieldsInv', SchemaGrows, NEW f \in Field, NEW code \in Codes(f)
  PROVE  code \in Codes(f)' /\ ParentCodes(f)'[code] = ParentCodes(f)[code]
<1> DEFINE old == options[f]
           new == options'[f]
<1>1. /\ OptionsHeld(old) /\ OptionsHeld(new) /\ Grown(old, new)
  BY DEF FieldsInv, OptionsInv, SchemaGrows
<1> HIDE DEF old, new
<1>2. PICK n : n = CHOOSE k \in DOMAIN old : old[k].code = code
  OBVIOUS
<1>3. n \in DOMAIN old /\ old[n].code = code
  BY <1>2 DEF Codes, old
<1>4. n \in DOMAIN new /\ new[n].code = code /\ new[n].parent = old[n].parent
  BY <1>1, <1>3 DEF Grown
<1>5. n = CHOOSE k \in DOMAIN new : new[k].code = code
  BY <1>1, <1>4 DEF OptionsHeld, CodesDiffer
<1>6. code \in Codes(f)'
  BY <1>4 DEF Codes, new
<1>7. PICK p : p = old[n].parent
  OBVIOUS
<1>8. p = 0 \/ (p \in DOMAIN old /\ new[p].code = old[p].code)
  BY <1>1, <1>3, <1>7 DEF OptionsHeld, IsSequence, Grown
<1>9. ParentCodes(f)[code] = IF p = 0 THEN Null ELSE Text(old[p].code, "word")
  BY <1>2, <1>7 DEF ParentCodes, old
<1>10. ParentCodes(f)'[code] = IF p = 0 THEN Null ELSE Text(new[p].code, "word")
  BY <1>4, <1>5, <1>6, <1>7 DEF ParentCodes, new
<1>11. QED
  BY <1>6, <1>8, <1>9, <1>10

LEMMA ResolvesStill ==
  ASSUME FieldsInv, FieldsInv', SchemaGrows, NEW f \in Existing, NEW stored, Resolves(f, stored)
  PROVE  Resolves(f, stored)'
<1>1. f \in Field /\ field'[f].type = field[f].type
  BY DEF SchemaGrows, Existing
<1>2. \A code : Shown(f, code).known => Shown(f, code)'.known
  <2>1. ASSUME NEW code, Shown(f, code).known
        PROVE  Shown(f, code)'.known
    BY <1>1, <2>1, Known, ParentsStay
  <2>2. QED
    BY <2>1
<1>3. CASE field[f].type = "DROPDOWN"
  BY <1>1, <1>2, <1>3 DEF Resolves
<1>4. CASE field[f].type = "TAGS"
  BY <1>1, <1>2, <1>4 DEF Resolves
<1>5. CASE field[f].type = "DEPENDENT_DROPDOWN"
  <2>1. Shown(f, stored.value.text).known /\ stored.parent = ParentCodes(f)[stored.value.text]
    BY <1>5 DEF Resolves
  <2>2. stored.parent = ParentCodes(f)'[stored.value.text]
    BY <1>1, <2>1, Known, ParentsStay
  <2>3. QED
    BY <1>1, <1>2, <1>5, <2>1, <2>2 DEF Resolves
<1>6. CASE field[f].type \notin {"DROPDOWN", "TAGS", "DEPENDENT_DROPDOWN"}
  BY <1>1, <1>6 DEF Resolves
<1>7. QED
  BY <1>3, <1>4, <1>5, <1>6

LEMMA EditsKeepValues ==
  ASSUME FieldsInv, FieldsInv', SchemaGrows, ValuesInv, UNCHANGED valueVars
  PROVE  ValuesInv'
<1>1. values' = values /\ raws' = raws
  BY DEF valueVars
<1>2. \A key \in DOMAIN values' : ~HasTemplate(values'[key])
  BY <1>1 DEF ValuesInv, StoredResolves
<1>3. Keys \subseteq Keys'
  BY DEF SchemaGrows, Keys, Existing
<1>4. ASSUME NEW f \in Existing', field'[f].key \in DOMAIN values' \ raws',
             values'[field'[f].key] # Null
      PROVE  Resolves(f, values[field[f].key])'
  <2>1. PICK g \in Existing : field[g].key = field'[f].key
    BY <1>1, <1>4 DEF ValuesInv, Keys
  <2>2. g \in Existing' /\ field'[g].key = field[g].key
    BY DEF SchemaGrows, Existing
  <2>3. f = g
    BY <2>1, <2>2 DEF FieldsInv
  <2>4. PICK stored : stored = values[field[f].key]
    OBVIOUS
  <2>5. Resolves(f, stored)
    BY <1>1, <1>4, <2>1, <2>3, <2>4 DEF ValuesInv, StoredResolves
  <2>6. Resolves(f, stored)'
    BY <2>3, <2>5, ResolvesStill
  <2>7. stored = values'[field'[f].key]
    BY <1>1, <2>1, <2>3, <2>4
  <2>8. QED
    BY <2>6, <2>7
<1>5. QED
  BY <1>1, <1>2, <1>3, <1>4 DEF ValuesInv, StoredResolves

LEMMA FieldIs ==
  ASSUME FieldsInv, NEW f \in Existing
  PROVE  FieldOf(field[f].key) = f
BY DEF FieldsInv, FieldOf

(* A payload that is written replaces what it names and nothing else. *)
LEMMA WriteKeepsValues ==
  ASSUME FieldsInv, ValuesInv, NEW payload, NEW isCreate \in BOOLEAN,
         \A key \in DOMAIN payload : RawIs(payload[key]), Write(payload, isCreate)
  PROVE  ValuesInv'
<1>1. PICK out : out = Validated(payload, isCreate)
  OBVIOUS
<1>2. /\ \A key \in DOMAIN out : out[key] # Refused
      /\ values' = [key \in DOMAIN out \cup DOMAIN values |->
                      IF key \in DOMAIN out THEN out[key] ELSE values[key]]
      /\ raws' = (raws \ DOMAIN out) \cup (DOMAIN out \ Keys)
      /\ UNCHANGED fieldVars
  BY <1>1 DEF Write
<1>3. /\ DOMAIN out = Kept(payload)
      /\ \A key \in DOMAIN out : out[key] = Result(payload, key, isCreate)
  BY <1>1 DEF Validated
<1>4. \A key \in DOMAIN out : key \in DOMAIN payload /\ ~HasTemplate(payload[key])
  BY <1>3 DEF Kept
<1>5. /\ field' = field /\ options' = options /\ Existing' = Existing /\ Keys' = Keys
  BY <1>2 DEF fieldVars, Existing, Keys
<1>6. ASSUME NEW f \in Existing, field[f].key \in DOMAIN out
      PROVE  LET stored == out[field[f].key]
             IN ~HasTemplate(stored) /\ (stored # Null => Resolves(f, stored))
  <2>1. PICK key : key = field[f].key
    OBVIOUS
  <2>2. key \in Keys /\ FieldOf(key) = f /\ out[key] # Refused
    BY <1>2, <1>6, <2>1, FieldIs DEF Keys
  <2>3. out[key] = Normal(f, payload[key])
    BY <1>3, <1>6, <2>1, <2>2 DEF Result
  <2>4. RawIs(payload[key]) /\ ~HasTemplate(payload[key])
    BY <1>4, <1>6, <2>1
  <2>5. ~HasTemplate(Null)
    BY DEF HasTemplate, Null
  <2>6. CASE out[key] = Null
    BY <2>1, <2>5, <2>6
  <2>7. CASE out[key] # Null
    BY <2>1, <2>2, <2>3, <2>4, <2>7, NormalResolves
  <2>8. QED
    BY <2>6, <2>7
<1>7. ASSUME NEW key \in DOMAIN values'
      PROVE  ~HasTemplate(values'[key])
  <2>1. CASE key \notin DOMAIN out
    BY <1>2, <1>7, <2>1 DEF ValuesInv, StoredResolves
  <2>2. CASE key \in DOMAIN out /\ key \notin Keys
    BY <1>2, <1>3, <1>4, <2>2 DEF Result
  <2>3. CASE key \in DOMAIN out /\ key \in Keys
    <3>1. PICK f \in Existing : key = field[f].key
      BY <2>3 DEF Keys
    <3>2. QED
      BY <1>2, <1>6, <2>3, <3>1
  <2>4. QED
    BY <2>1, <2>2, <2>3
<1>8. DOMAIN values' \ raws' \subseteq Keys'
  BY <1>2, <1>5 DEF ValuesInv
<1>9. ASSUME NEW f \in Existing', field'[f].key \in DOMAIN values' \ raws',
             values'[field'[f].key] # Null
      PROVE  Resolves(f, values[field[f].key])'
  <2>1. PICK stored, key : stored = values'[field[f].key] /\ key = field[f].key
    OBVIOUS
  <2>2. f \in Existing /\ key \in DOMAIN values' \ raws' /\ stored # Null
    BY <1>5, <1>9, <2>1
  <2>3. Resolves(f, stored)
    <3>1. CASE key \in DOMAIN out
      BY <1>2, <1>6, <2>1, <2>2, <3>1
    <3>2. CASE key \notin DOMAIN out
      BY <1>2, <2>1, <2>2, <3>2 DEF ValuesInv, StoredResolves
    <3>3. QED
      BY <3>1, <3>2
  <2>4. Resolves(f, stored)' <=> Resolves(f, stored)
    BY <1>5 DEF Resolves, Shown, Codes, ParentCodes
  <2>5. stored = values'[field'[f].key]
    BY <1>5, <2>1
  <2>6. QED
    BY <2>3, <2>4, <2>5
<1>10. QED
  BY <1>7, <1>8, <1>9 DEF ValuesInv, StoredResolves

LEMMA ValuesInductive ==
  ASSUME FieldsInv, FieldsInv', SchemaGrows, ValueAssumption, ValuesInv,
         [ValueNext]_<<fieldVars, valueVars>>
  PROVE  ValuesInv'
<1>1. \A raw \in RawValue : RawIs(raw)
  BY DEF ValueAssumption, RawIs
<1>2. RawIs(Text(<<"name">>, "word"))
  <2>1. PICK name : name = <<"name">>
    OBVIOUS
  <2>2. RawIs(Text(name, "word"))
    BY <2>1 DEF ValueAssumption, RawIs, Text
  <2>3. QED
    BY <2>1, <2>2
<1>3. ASSUME NEW key \in Key, NEW raw \in RawValue, NEW name \in BOOLEAN,
             Create([k \in {key} \cup (IF name THEN {field[identity].key} ELSE {}) |->
                       IF k = key THEN raw ELSE Text(<<"name">>, "word")])
      PROVE  ValuesInv'
  <2> DEFINE payload == [k \in {key} \cup (IF name THEN {field[identity].key} ELSE {}) |->
                           IF k = key THEN raw ELSE Text(<<"name">>, "word")]
  <2>1. \A k \in DOMAIN payload : RawIs(payload[k])
    BY <1>1, <1>2
  <2>2. Write(payload, TRUE)
    BY <1>3 DEF Create
  <2> HIDE DEF payload
  <2>3. QED
    BY <2>1, <2>2, WriteKeepsValues
<1>4. ASSUME NEW key \in Key, NEW raw \in RawValue, Patch([k \in {key} |-> raw])
      PROVE  ValuesInv'
  <2> DEFINE payload == [k \in {key} |-> raw]
  <2>1. \A k \in DOMAIN payload : RawIs(payload[k])
    BY <1>1
  <2>2. Write(payload, FALSE)
    BY <1>4 DEF Patch
  <2> HIDE DEF payload
  <2>3. QED
    BY <2>1, <2>2, WriteKeepsValues
<1>5. CASE UNCHANGED valueVars
  BY <1>5, EditsKeepValues
<1>6. CASE UNCHANGED <<fieldVars, valueVars>>
  BY <1>6, EditsKeepValues
<1>7. QED
  BY <1>3, <1>4, <1>5, <1>6 DEF ValueNext, EditSchema

(* A lead is written between two edits of the schema, never within one. *)
LEMMA ValueSteps == [ValueNext]_<<fieldVars, valueVars>> => [FieldNext]_fieldVars
BY DEF ValueNext, EditSchema, Create, Patch, Write

(* Whatever is renamed, archived, copied, hidden and created between two      *)
(* writes, what a lead stores under the key of a field is in the normal form *)
(* of the field's type and each code in it can be labelled.                  *)
THEOREM ValuesResolve ==
  ASSUME IdentityAssumption, FieldAssumption, ValueAssumption
  PROVE  ValueSpec => []StoredResolves
<1> DEFINE Inv == IdentityInv /\ FieldsInv /\ ValuesInv
<1>1. ValueInit => Inv
  <2> SUFFICES ASSUME ValueInit
               PROVE  Inv
    OBVIOUS
  <2>1. IdentityInv /\ FieldsInv
    BY IdentityInit, FieldsStart DEF ValueInit
  <2>2. DOMAIN values = {}
    BY DEF ValueInit
  <2>3. ValuesInv
    BY <2>2 DEF ValuesInv, StoredResolves
  <2>4. QED
    BY <2>1, <2>3
<1>2. Inv /\ [ValueNext]_<<fieldVars, valueVars>> => Inv'
  <2> SUFFICES ASSUME Inv, [ValueNext]_<<fieldVars, valueVars>>
               PROVE  Inv'
    OBVIOUS
  <2>1. [FieldNext]_fieldVars
    BY ValueSteps
  <2>2. IdentityInv' /\ FieldsInv' /\ SchemaGrows
    BY <2>1, IdentityInductive, FieldsInductive
  <2>3. QED
    BY <2>2, ValuesInductive
<1>3. Inv => StoredResolves
  BY DEF ValuesInv
<1>4. QED
  BY <1>1, <1>2, <1>3, PTL DEF ValueSpec

-----------------------------------------------------------------------------
(* Pipeline. *)

(* A call's slot filled or emptied. *)
LEMMA CallSet ==
  ASSUME PipelineShape, NEW q \in Call, NEW r, call' = [call EXCEPT ![q] = r],
         r = [op |-> r.op, row |-> r.row, seen |-> r.seen, code |-> r.code]
  PROVE  /\ call' = [p \in Call |-> CallRow(p)']
         /\ call'[q] = r /\ \A p \in Call \ {q} : call'[p] = call[p]
<1>1. DOMAIN call = Call
  BY DEF PipelineShape
<1>2. call' = [p \in Call |-> IF p = q THEN r ELSE call[p]]
  BY <1>1
<1>3. \A p \in Call : call'[p] = CallRow(p)'
  BY <1>2 DEF PipelineShape, CallRow
<1>4. QED
  BY <1>2, <1>3

LEMMA NoCallRow ==
  /\ NoCall = [op |-> NoCall.op, row |-> NoCall.row, seen |-> NoCall.seen, code |-> NoCall.code]
  /\ NoCall.op = Nil /\ NoCall.seen = {}
BY DEF NoCall

(* A call ends. *)
LEMMA CallOver ==
  ASSUME PipelineShape, NEW q \in Call, Writes(q)
  PROVE  /\ call' = [p \in Call |-> CallRow(p)'] /\ call'[q] = NoCall
         /\ \A p \in Call \ {q} : call'[p] = call[p]
BY CallSet, NoCallRow DEF Writes

(* A call begins. *)
LEMMA CallBegun ==
  ASSUME PipelineShape, NEW q \in Call, NEW op, NEW row, NEW seen, NEW code, NEW r,
         r = [op |-> op, row |-> row, seen |-> seen, code |-> code], Reads(q, r)
  PROVE  /\ call[q].op = Nil /\ call'[q] = r
         /\ call' = [p \in Call |-> CallRow(p)']
         /\ \A p \in Call \ {q} : call'[p] = call[p]
BY CallSet DEF Reads, Ready

(* Neither a disposition nor a call about one changes. *)
LEMMA DefaultsKept ==
  ASSUME DefaultsInv, UNCHANGED contested,
         \A d \in Dispositions : /\ disposition'[d].default = disposition[d].default
                                 /\ disposition'[d].archived = disposition[d].archived,
         \A q \in Call : \/ call'[q] = call[q]
                         \/ call'[q].op \notin {"archive", "default"} /\ call'[q].seen = {}
  PROVE  DefaultsInv'
<1>1. LiveDefaults' = LiveDefaults
  BY DEF LiveDefaults
<1>2. \A d, e \in LiveDefaults' : d = e
  BY <1>1 DEF DefaultsInv
<1>3. (\E d \in Dispositions : disposition[d].default /\ (disposition[d].archived => d \in contested))'
  BY DEF DefaultsInv
<1>4. \A q \in Call : \A d, e \in call'[q].seen : d = e
  BY DEF DefaultsInv
<1>5. ASSUME NEW q \in Call, call'[q].op \in {"archive", "default"}
      PROVE  call'[q] = call[q]
  BY <1>5
<1>6. QED
  BY <1>2, <1>3, <1>4, <1>5 DEF DefaultsInv

LEMMA StagesKept ==
  ASSUME StagesInv, PipelineAssumption,
         \A s \in Stages : /\ stage'[s].kind = stage[s].kind
                           /\ stage'[s].archived = stage[s].archived
  PROVE  StagesInv'
<1>1. {1, 3, 4} \subseteq Stages
  BY DEF PipelineAssumption
<1>2. QED
  BY <1>1 DEF StagesInv

LEMMA MaxOfTwo ==
  ASSUME NEW m \in Int, NEW n \in Int
  PROVE  Max({m, n}) \in {m, n} /\ Max({m, n}) >= m /\ Max({m, n}) >= n
<1>1. \E x \in {m, n} : \A y \in {m, n} : x >= y
  OBVIOUS
<1>2. Max({m, n}) \in {m, n} /\ \A y \in {m, n} : Max({m, n}) >= y
  BY <1>1 DEF Max
<1>3. QED
  BY <1>2

LEMMA PeakIs ==
  ASSUME NEW n \in Nat
  PROVE  Max({1, n}) \in Int /\ Max({1, n}) >= n
<1>1. 1 \in Int /\ n \in Int
  OBVIOUS
<1>2. Max({1, n}) \in {1, n} /\ Max({1, n}) >= n
  BY <1>1, MaxOfTwo
<1>3. QED
  BY <1>2

LEMMA ReasonsCounted ==
  ASSUME PipelineAssumption
  PROVE  /\ IsFiniteSet(LiveReasons) /\ Cardinality(LiveReasons) \in Nat
         /\ IsFiniteSet(Creating) /\ Cardinality(Creating) \in Nat
<1>1. LiveReasons \subseteq Reasons /\ Creating \subseteq Call
  BY DEF LiveReasons, Creating
<1>2. IsFiniteSet(Reasons) /\ IsFiniteSet(Call)
  BY DEF PipelineAssumption
<1>3. QED
  BY <1>1, <1>2, FS_Subset, FS_CardinalityType

(* No reason and no call about one is added. *)
LEMMA ReasonsKept ==
  ASSUME PipelineAssumption, ReasonsInv, UNCHANGED overlapping, overlapping \in Nat,
         \A r \in Reasons : reason'[r] = "live" => reason[r] = "live",
         \A q \in Call : call'[q].op = "reason" => call[q].op = "reason"
  PROVE  ReasonsInv'
<1>1. LiveReasons' \subseteq LiveReasons /\ Creating' \subseteq Creating
  BY DEF LiveReasons, Creating
<1>2. /\ Cardinality(LiveReasons') <= Cardinality(LiveReasons)
      /\ Cardinality(Creating') <= Cardinality(Creating)
      /\ Cardinality(LiveReasons') \in Nat /\ Cardinality(Creating') \in Nat
  BY <1>1, ReasonsCounted, FS_Subset, FS_CardinalityType
<1>3. Max({1, overlapping}) \in Int /\ MaxReasons \in Int
  BY PeakIs DEF PipelineAssumption
<1>4. QED
  BY <1>2, <1>3, ReasonsCounted DEF ReasonsInv

LEMMA BeginReasonCounts ==
  ASSUME PipelineAssumption, PipelineShape, ReasonsInv, NEW q \in Call, BeginReason(q)
  PROVE  ReasonsInv' /\ overlapping' \in Nat
<1> DEFINE r == [op |-> "reason", row |-> Nil, seen |-> {}, code |-> 0]
           n == Cardinality(Creating)
<1>1. Reads(q, r)
  BY DEF BeginReason
<1>2. /\ call[q].op = Nil /\ call'[q] = r /\ \A p \in Call \ {q} : call'[p] = call[p]
  BY <1>1, CallBegun
<1>3. Creating' = Creating \cup {q} /\ q \notin Creating
  BY <1>1, <1>2 DEF Creating, PipelineAssumption
<1> HIDE DEF r, n
<1>4. Cardinality(Creating') = n + 1 /\ n \in Nat
  BY <1>3, ReasonsCounted, FS_AddElement DEF n
<1>5. LiveReasons' = LiveReasons
  BY DEF LiveReasons, BeginReason
<1>6. overlapping' \in Nat /\ overlapping' >= n + 1
  <2>1. overlapping' = Max({overlapping, n + 1}) /\ overlapping \in Nat
    BY DEF BeginReason, PipelineShape, n
  <2>2. overlapping \in Int /\ n + 1 \in Int
    BY <1>4, <2>1
  <2>3. overlapping' \in {overlapping, n + 1} /\ overlapping' >= n + 1
    BY <2>1, <2>2, MaxOfTwo
  <2>4. QED
    BY <1>4, <2>1, <2>3
<1>7. Max({1, overlapping'}) >= n + 1 /\ Max({1, overlapping'}) \in Int
  <2>1. Max({1, overlapping'}) \in Int /\ Max({1, overlapping'}) >= overlapping'
    BY <1>6, PeakIs
  <2>2. QED
    BY <2>1, <1>4, <1>6
<1>8. Cardinality(LiveReasons) <= MaxReasons - 1 /\ MaxReasons \in Int
  BY ReasonsCounted DEF BeginReason, PipelineAssumption
<1>9. QED
  BY <1>4, <1>5, <1>6, <1>7, <1>8, ReasonsCounted DEF ReasonsInv

LEMMA CommitReasonCounts ==
  ASSUME PipelineAssumption, PipelineShape, ReasonsInv, NEW q \in Call, CommitReason(q)
  PROVE  ReasonsInv' /\ reason' \in [Reasons -> {"none", "live", "archived"}]
<1>1. /\ call'[q] = NoCall /\ \A p \in Call \ {q} : call'[p] = call[p]
  BY CallOver DEF CommitReason
<1>2. NoCall.op # "reason"
  BY NoCallRow DEF PipelineAssumption
<1>3. Creating' = Creating \ {q} /\ q \in Creating
  BY <1>1, <1>2 DEF Creating, CommitReason
<1>4. Cardinality(Creating') = Cardinality(Creating) - 1
  BY <1>3, ReasonsCounted, FS_RemoveElement
<1>5. PICK r \in Reasons : reason[r] = "none" /\ reason' = [reason EXCEPT ![r] = "live"]
  BY DEF CommitReason, LeastUnused
<1>6. LiveReasons' = LiveReasons \cup {r} /\ r \notin LiveReasons
  BY <1>5 DEF LiveReasons, PipelineShape
<1>7. Cardinality(LiveReasons') = Cardinality(LiveReasons) + 1
  BY <1>6, ReasonsCounted, FS_AddElement
<1>8. overlapping' = overlapping /\ MaxReasons \in Int /\ Max({1, overlapping}) \in Int
  <2>1. overlapping' = overlapping
    BY DEF CommitReason
  <2>2. overlapping \in Nat
    BY DEF PipelineShape
  <2>3. Max({1, overlapping}) \in Int
    BY <2>2, PeakIs
  <2>4. MaxReasons \in Int
    BY DEF PipelineAssumption
  <2>5. QED
    BY <2>1, <2>3, <2>4
<1>9. reason' \in [Reasons -> {"none", "live", "archived"}]
  BY <1>5 DEF PipelineShape
<1>10. QED
  BY <1>4, <1>7, <1>8, <1>9, ReasonsCounted DEF ReasonsInv

-----------------------------------------------------------------------------
LEMMA BeginDispositionKeeps ==
  ASSUME PipelineAssumption, PipelineShape, DefaultsInv, NEW q \in Call,
         NEW op \in {"archive", "default"}, NEW d \in Dispositions, BeginDisposition(q, op, d)
  PROVE  /\ DefaultsInv' /\ call' = [p \in Call |-> CallRow(p)']
         /\ \A p \in Call : call'[p].op = "reason" => call[p].op = "reason"
<1> DEFINE r == [op |-> op, row |-> d, seen |-> LiveDefaults, code |-> 0]
<1>1. Reads(q, r)
  BY DEF BeginDisposition
<1>2. /\ call[q].op = Nil /\ call'[q] = r /\ \A p \in Call \ {q} : call'[p] = call[p]
      /\ call' = [p \in Call |-> CallRow(p)']
  BY <1>1, CallBegun
<1>3. call'[q].op = op /\ call'[q].row = d /\ call'[q].seen = LiveDefaults
  BY <1>1, <1>2
<1> HIDE DEF r
<1>4. disposition' = disposition /\ contested \subseteq contested' /\ LiveDefaults' = LiveDefaults
  BY DEF BeginDisposition, LiveDefaults
<1>5. ASSUME NEW p \in Call, call[p].row = d,
             \/ op = "archive" /\ call[p].op = "default"
             \/ op = "default" /\ call[p].op = "archive"
      PROVE  d \in contested'
  <2>1. {op, call[p].op} = {"archive", "default"}
    BY <1>5
  <2>2. QED
    BY <1>5, <2>1 DEF BeginDisposition
<1>6. (op = "archive" => ~disposition[d].default) /\ (op = "default" => ~disposition[d].archived)
  BY DEF BeginDisposition, MayArchive, MayDefault
<1>7. \A e, f \in LiveDefaults' : e = f
  BY <1>4 DEF DefaultsInv
<1>8. (\E e \in Dispositions : disposition[e].default /\ (disposition[e].archived => e \in contested))'
  BY <1>4 DEF DefaultsInv
<1>9. \A p \in Call : \A e, f \in call'[p].seen : e = f
  BY <1>2, <1>3 DEF DefaultsInv
<1>10. ASSUME NEW p \in Call, call'[p].op = "default"
       PROVE  /\ call'[p].row \in Dispositions
              /\ disposition'[call'[p].row].archived => call'[p].row \in contested'
  BY <1>2, <1>3, <1>4, <1>6, <1>10 DEF DefaultsInv
<1>11. ASSUME NEW p \in Call, call'[p].op = "archive"
       PROVE  /\ call'[p].row \in Dispositions
              /\ disposition'[call'[p].row].default => call'[p].row \in contested'
  BY <1>2, <1>3, <1>4, <1>6, <1>11 DEF DefaultsInv
<1>12. ASSUME NEW p \in Call, NEW s \in Call, call'[p].op = "archive", call'[s].op = "default",
              call'[p].row = call'[s].row
       PROVE  call'[p].row \in contested'
  <2>1. CASE p # q /\ s # q
    BY <2>1, <1>2, <1>4, <1>12 DEF DefaultsInv
  <2>2. CASE p = q
    <3>1. s # q /\ op = "archive"
      BY <2>2, <1>3, <1>12
    <3>2. call[s].row = d /\ call[s].op = "default" /\ call'[p].row = d
      BY <3>1, <2>2, <1>2, <1>3, <1>12
    <3>3. d \in contested'
      BY <3>1, <3>2, <1>5
    <3>4. QED
      BY <3>2, <3>3
  <2>3. CASE s = q
    <3>1. p # q /\ op = "default"
      BY <2>3, <1>3, <1>12
    <3>2. call[p].row = d /\ call[p].op = "archive" /\ call'[p].row = d
      BY <3>1, <2>3, <1>2, <1>3, <1>12
    <3>3. d \in contested'
      BY <3>1, <3>2, <1>5
    <3>4. QED
      BY <3>2, <3>3
  <2>4. QED
    BY <2>1, <2>2, <2>3
<1>13. DefaultsInv'
  BY <1>7, <1>8, <1>9, <1>10, <1>11, <1>12 DEF DefaultsInv
<1>14. QED
  BY <1>2, <1>3, <1>13

LEMMA CommitArchiveKeeps ==
  ASSUME PipelineAssumption, PipelineShape, DefaultsInv, NEW q \in Call, CommitArchive(q)
  PROVE  DefaultsInv'
<1> DEFINE a == call[q].row
<1>1. /\ call'[q] = NoCall /\ \A p \in Call \ {q} : call'[p] = call[p]
  BY CallOver DEF CommitArchive
<1>2. NoCall.op \notin {"archive", "default"} /\ NoCall.seen = {}
  BY NoCallRow DEF PipelineAssumption
<1>3. a \in Dispositions /\ call[q].op = "archive" /\ (disposition[a].default => a \in contested)
  BY DEF CommitArchive, DefaultsInv
<1>4. \A d \in Dispositions : /\ disposition'[d].default = disposition[d].default
                             /\ disposition'[d].archived = (disposition[d].archived \/ d = a)
  BY <1>3 DEF CommitArchive, PipelineShape
<1>5. contested' = contested
  BY DEF CommitArchive
<1>6. \A d, e \in LiveDefaults' : d = e
  BY <1>4 DEF LiveDefaults, DefaultsInv
<1>7. (\E d \in Dispositions : disposition[d].default /\ (disposition[d].archived => d \in contested))'
  BY <1>3, <1>4, <1>5 DEF DefaultsInv
<1>8. \A p \in Call : \A d, e \in call'[p].seen : d = e
  BY <1>1, <1>2 DEF DefaultsInv
<1>9. ASSUME NEW p \in Call, call'[p].op = "default"
      PROVE  /\ call'[p].row \in Dispositions
             /\ disposition'[call'[p].row].archived => call'[p].row \in contested'
  BY <1>1, <1>2, <1>3, <1>4, <1>5, <1>9 DEF DefaultsInv
<1>10. ASSUME NEW p \in Call, call'[p].op = "archive"
       PROVE  /\ call'[p].row \in Dispositions
              /\ disposition'[call'[p].row].default => call'[p].row \in contested'
  BY <1>1, <1>2, <1>4, <1>5, <1>10 DEF DefaultsInv
<1>11. ASSUME NEW p \in Call, NEW s \in Call, call'[p].op = "archive", call'[s].op = "default",
              call'[p].row = call'[s].row
       PROVE  call'[p].row \in contested'
  BY <1>1, <1>2, <1>5, <1>11 DEF DefaultsInv
<1>12. QED
  BY <1>6, <1>7, <1>8, <1>9, <1>10, <1>11 DEF DefaultsInv

LEMMA CommitDefaultKeeps ==
  ASSUME PipelineAssumption, PipelineShape, DefaultsInv, NEW q \in Call, CommitDefault(q)
  PROVE  DefaultsInv' /\ disposition' \in [Dispositions -> [exists : BOOLEAN, system : BOOLEAN,
                                                         default : BOOLEAN, archived : BOOLEAN]]
<1> DEFINE t == call[q]
<1>1. /\ call'[q] = NoCall /\ \A p \in Call \ {q} : call'[p] = call[p]
  BY CallOver DEF CommitDefault
<1>2. NoCall.op \notin {"archive", "default"} /\ NoCall.seen = {}
  BY NoCallRow DEF PipelineAssumption
<1>3. /\ t.row \in Dispositions /\ t.op = "default"
      /\ disposition[t.row].archived => t.row \in contested
  BY DEF CommitDefault, DefaultsInv
<1>4. /\ disposition' \in [Dispositions -> [exists : BOOLEAN, system : BOOLEAN,
                                          default : BOOLEAN, archived : BOOLEAN]]
      /\ \A d \in Dispositions :
           /\ disposition'[d].archived = disposition[d].archived
           /\ disposition'[d].default = IF d = t.row THEN disposition[d].default \/ d \notin t.seen
                                        ELSE disposition[d].default /\ d \notin t.seen
  BY DEF CommitDefault, PipelineShape
<1>5. contested' = contested /\ \A d, e \in t.seen : d = e
  BY DEF CommitDefault, DefaultsInv
<1>6. \A d, e \in LiveDefaults' : d = e
  <2>1. CASE t.row \in t.seen \/ disposition[t.row].archived
    BY <2>1, <1>4 DEF LiveDefaults, DefaultsInv
  <2>2. CASE LiveDefaults \subseteq t.seen \cup {t.row}
    BY <2>2, <1>4 DEF LiveDefaults
  <2>3. QED
    BY <2>1, <2>2 DEF CommitDefault
<1>7. (\E d \in Dispositions : disposition[d].default /\ (disposition[d].archived => d \in contested))'
  <2>1. CASE t.row \notin t.seen
    BY <2>1, <1>3, <1>4, <1>5
  <2>2. CASE t.row \in t.seen
    BY <2>2, <1>3, <1>4, <1>5 DEF DefaultsInv
  <2>3. QED
    BY <2>1, <2>2
<1>8. \A p \in Call : \A d, e \in call'[p].seen : d = e
  BY <1>1, <1>2 DEF DefaultsInv
<1>9. ASSUME NEW p \in Call, call'[p].op = "default"
      PROVE  /\ call'[p].row \in Dispositions
             /\ disposition'[call'[p].row].archived => call'[p].row \in contested'
  BY <1>1, <1>2, <1>4, <1>5, <1>9 DEF DefaultsInv
<1>10. ASSUME NEW p \in Call, call'[p].op = "archive"
       PROVE  /\ call'[p].row \in Dispositions
              /\ disposition'[call'[p].row].default => call'[p].row \in contested'
  BY <1>1, <1>2, <1>3, <1>4, <1>5, <1>10 DEF DefaultsInv
<1>11. ASSUME NEW p \in Call, NEW s \in Call, call'[p].op = "archive", call'[s].op = "default",
              call'[p].row = call'[s].row
       PROVE  call'[p].row \in contested'
  BY <1>1, <1>2, <1>5, <1>11 DEF DefaultsInv
<1>12. QED
  BY <1>4, <1>6, <1>7, <1>8, <1>9, <1>10, <1>11 DEF DefaultsInv

-----------------------------------------------------------------------------
LEMMA PipelineStart ==
  ASSUME PipelineAssumption, PipelineInit
  PROVE  PipelineInv
<1>1. {1, 2, 3, 4} \subseteq Stages /\ 1 \in Dispositions /\ 1 \in Reasons
  BY DEF PipelineAssumption
<1>2. \A s \in Stages : s \in Nat \ {0} /\
        stage[s] = IF s <= 4 THEN [kind |-> <<"INITIAL", "ACTIVE", "WON", "LOST">>[s],
                                   archived |-> FALSE, order |-> s - 1]
                   ELSE [kind |-> Nil, archived |-> FALSE, order |-> 0]
  BY DEF PipelineInit, NoStage, PipelineAssumption
<1>3. StagesInv
  <2> DEFINE kinds == <<"INITIAL", "ACTIVE", "WON", "LOST">>
  <2>a. kinds[1] = "INITIAL" /\ kinds[2] = "ACTIVE" /\ kinds[3] = "WON" /\ kinds[4] = "LOST"
    OBVIOUS
  <2>b. ASSUME NEW s \in {1, 2, 3, 4}
        PROVE  stage[s] = [kind |-> kinds[s], archived |-> FALSE, order |-> s - 1]
    BY <1>1, <1>2
  <2> HIDE DEF kinds
  <2>1. /\ stage[1].kind = "INITIAL" /\ stage[3].kind = "WON" /\ stage[4].kind = "LOST"
        /\ stage[2].kind = "ACTIVE"
    BY <2>a, <2>b
  <2>2. \A s \in {1, 3, 4} : ~stage[s].archived
    BY <2>b
  <2>3. ASSUME NEW s \in Stages \ {1, 3, 4}
        PROVE  stage[s].kind \in {"ACTIVE", Nil}
    <3>1. CASE s <= 4
      <4>a. s \in Nat /\ s # 0 /\ s # 1 /\ s # 3 /\ s # 4
        BY DEF PipelineAssumption
      <4>1. s = 2
        BY <3>1, <4>a
      <4>2. QED
        BY <4>1, <2>1
    <3>2. CASE ~(s <= 4)
      BY <3>2 DEF PipelineInit, NoStage
    <3>3. QED
      BY <3>1, <3>2
  <2>4. QED
    BY <2>1, <2>2, <2>3 DEF StagesInv
<1>4. \A q \in Call : call[q] = NoCall
  BY DEF PipelineInit
<1>5. \A d \in Dispositions :
        disposition[d] = IF d <= System
                         THEN [exists |-> TRUE, system |-> TRUE, default |-> d = 1, archived |-> FALSE]
                         ELSE NoDisposition
  BY DEF PipelineInit
<1>6. DefaultsInv
  <2>1. ASSUME NEW d \in Dispositions
        PROVE  ~disposition[d].archived /\ (disposition[d].default <=> d = 1)
    <3>a. PICK yes, no, first : yes = TRUE /\ no = FALSE /\ first = (d = 1)
      OBVIOUS
    <3>b. disposition[d] = IF d <= System
            THEN [exists |-> yes, system |-> yes, default |-> first, archived |-> no]
            ELSE [exists |-> no, system |-> no, default |-> no, archived |-> no]
      BY <3>a, <1>5, Zenon DEF NoDisposition
    <3>1. d \in Int /\ System \in Int /\ System >= 1
      BY DEF PipelineAssumption
    <3>2. CASE d <= System
      <4>1. disposition[d].default = first /\ disposition[d].archived = no
        BY <3>2, <3>b
      <4>2. QED
        BY <4>1, <3>a
    <3>3. CASE ~(d <= System)
      <4>1. disposition[d].default = no /\ disposition[d].archived = no /\ d # 1
        BY <3>1, <3>3, <3>b
      <4>2. QED
        BY <4>1, <3>a
    <3>4. QED
      BY <3>2, <3>3
  <2>2. \A d, e \in LiveDefaults : d = e
    BY <2>1 DEF LiveDefaults
  <2>3. \E d \in Dispositions : disposition[d].default /\ (disposition[d].archived => d \in contested)
    BY <1>1, <2>1
  <2>4. \A q \in Call : call[q].op \notin {"archive", "default"} /\ call[q].seen = {}
    BY <1>4, NoCallRow DEF PipelineAssumption
  <2>5. QED
    BY <2>2, <2>3, <2>4 DEF DefaultsInv
<1>7. ReasonsInv
  <2>1. LiveReasons = {1} /\ Creating = {}
    BY <1>1, <1>4, NoCallRow DEF PipelineInit, LiveReasons, Creating, PipelineAssumption
  <2>2. Cardinality({1}) = 1 /\ Cardinality({}) = 0
    BY FS_Singleton, FS_EmptySet
  <2>3. Max({1, overlapping}) \in Int /\ Max({1, overlapping}) >= 1
    <3>1. overlapping = 0 /\ 0 \in Nat
      BY DEF PipelineInit
    <3>2. QED
      BY <3>1, MaxOfTwo
  <2>4. QED
    BY <2>1, <2>2, <2>3 DEF ReasonsInv, PipelineAssumption
<1>8. PipelineShape
  <2>1. stage = [s \in Stages |-> StageRow(s)]
    <3>1. ASSUME NEW s \in Stages
          PROVE  stage[s] = StageRow(s)
      <4>1. PICK k, a, o : stage[s] = [kind |-> k, archived |-> a, order |-> o]
        BY <1>2
      <4>2. QED
        BY <4>1 DEF StageRow
    <3>2. DOMAIN stage = Stages /\ stage = [s \in DOMAIN stage |-> stage[s]]
      BY DEF PipelineInit
    <3>3. QED
      BY <3>1, <3>2
  <2>2. call = [q \in Call |-> CallRow(q)]
    <3>1. \A q \in Call : call[q] = CallRow(q)
      BY <1>4, NoCallRow DEF CallRow
    <3>2. QED
      BY <3>1 DEF PipelineInit
  <2>3. disposition \in [Dispositions -> [exists : BOOLEAN, system : BOOLEAN, default : BOOLEAN,
                                         archived : BOOLEAN]]
    BY DEF PipelineInit, NoDisposition
  <2>4. QED
    BY <2>1, <2>2, <2>3 DEF PipelineShape, PipelineInit
<1>9. QED
  BY <1>3, <1>6, <1>7, <1>8 DEF PipelineInv

LEMMA StageRowsKept ==
  ASSUME PipelineShape, UNCHANGED stage
  PROVE  stage' = [s \in Stages |-> StageRow(s)']
BY DEF PipelineShape, StageRow

LEMMA CallRowsKept ==
  ASSUME PipelineShape, UNCHANGED call
  PROVE  call' = [q \in Call |-> CallRow(q)']
BY DEF PipelineShape, CallRow

LEMMA ArchivedRow ==
  ASSUME NEW k, NEW a, NEW o, NEW f, f = [kind |-> k, archived |-> a, order |-> o], NEW n
  PROVE  [f EXCEPT !.archived = n] = [kind |-> k, archived |-> n, order |-> o]
OBVIOUS

LEMMA MovedRow ==
  ASSUME NEW k, NEW a, NEW o, NEW f, f = [kind |-> k, archived |-> a, order |-> o], NEW n
  PROVE  [f EXCEPT !.order = n] = [kind |-> k, archived |-> a, order |-> n]
OBVIOUS

(* Steps that touch neither reasons nor dispositions nor calls. *)
LEMMA OnlyStages ==
  ASSUME PipelineAssumption, PipelineInv, UNCHANGED <<disposition, reason, call, contested, overlapping>>,
         StagesInv', stage' = [s \in Stages |-> StageRow(s)']
  PROVE  PipelineInv'
<1>1. DefaultsInv' /\ ReasonsInv'
  BY DefaultsKept, ReasonsKept DEF PipelineInv, PipelineShape
<1>2. PipelineShape'
  BY CallRowsKept DEF PipelineInv, PipelineShape
<1>3. QED
  BY <1>1, <1>2 DEF PipelineInv

LEMMA CreateStageKeeps ==
  ASSUME PipelineAssumption, PipelineInv, CreateStage
  PROVE  PipelineInv'
<1>1. PICK s, o :
        /\ s \in Stages /\ stage[s].kind = Nil
        /\ stage' = [stage EXCEPT ![s] = [kind |-> "ACTIVE", archived |-> FALSE, order |-> o]]
  BY DEF CreateStage, LeastUnused
<1>2. /\ DOMAIN stage = Stages /\ \A k \in Stages : stage[k] = StageRow(k)
  BY DEF PipelineInv, PipelineShape
<1>3. \A k \in Stages :
        stage'[k] = IF k = s THEN [kind |-> "ACTIVE", archived |-> FALSE, order |-> o]
                    ELSE stage[k]
  BY <1>1, <1>2
<1>4. s \notin {1, 3, 4}
  BY <1>1 DEF PipelineInv, StagesInv, PipelineAssumption, Singleton
<1>5. StagesInv'
  <2>1. {1, 3, 4} \subseteq Stages /\ StagesInv
    BY DEF PipelineInv, PipelineAssumption
  <2>2. \A k \in {1, 3, 4} : stage'[k] = stage[k]
    BY <1>3, <1>4, <2>1
  <2>3. \A k \in Stages \ {1, 3, 4} : stage'[k].kind \in {"ACTIVE", Nil}
    BY <1>3, <2>1 DEF StagesInv
  <2>4. QED
    BY <2>1, <2>2, <2>3 DEF StagesInv
<1>6. \A k \in Stages : stage'[k] = StageRow(k)'
  BY <1>2, <1>3 DEF StageRow
<1>7. stage' = [k \in Stages |-> stage'[k]]
  BY <1>1, <1>2
<1>8. QED
  BY <1>5, <1>6, <1>7, OnlyStages DEF CreateStage

LEMMA ArchiveStageKeeps ==
  ASSUME PipelineAssumption, PipelineInv, NEW s \in Stages, ArchiveStage(s)
  PROVE  PipelineInv'
<1>1. stage[s].kind = "ACTIVE" /\ stage' = [stage EXCEPT ![s].archived = TRUE]
  BY DEF ArchiveStage, MayArchiveStage
<1>2. /\ DOMAIN stage = Stages /\ \A k \in Stages : stage[k] = StageRow(k)
  BY DEF PipelineInv, PipelineShape
<1>3. \A k \in Stages :
        stage'[k] = IF k = s THEN [kind |-> "ACTIVE", archived |-> TRUE, order |-> stage[s].order]
                    ELSE stage[k]
  <2>1. stage[s] = [kind |-> stage[s].kind, archived |-> stage[s].archived, order |-> stage[s].order]
    BY <1>2 DEF StageRow
  <2>2. [stage[s] EXCEPT !.archived = TRUE]
          = [kind |-> stage[s].kind, archived |-> TRUE, order |-> stage[s].order]
    <3>1. ASSUME NEW n
          PROVE  [stage[s] EXCEPT !.archived = n]
                   = [kind |-> stage[s].kind, archived |-> n, order |-> stage[s].order]
      BY <2>1, ArchivedRow
    <3>2. QED
      BY <3>1, Zenon
  <2>3. \A k \in Stages : stage'[k] = IF k = s THEN [stage[s] EXCEPT !.archived = TRUE] ELSE stage[k]
    BY <1>1, <1>2
  <2>4. QED
    BY <2>2, <2>3, <1>1
<1>4. s \notin {1, 3, 4}
  BY <1>1 DEF PipelineInv, StagesInv
<1>5. StagesInv'
  <2>1. {1, 3, 4} \subseteq Stages /\ StagesInv
    BY DEF PipelineInv, PipelineAssumption
  <2>2. \A k \in {1, 3, 4} : stage'[k] = stage[k]
    BY <1>3, <1>4, <2>1
  <2>3. \A k \in Stages \ {1, 3, 4} : stage'[k].kind \in {"ACTIVE", Nil}
    BY <1>3, <2>1 DEF StagesInv
  <2>4. QED
    BY <2>1, <2>2, <2>3 DEF StagesInv
<1>6. \A k \in Stages : stage'[k] = StageRow(k)'
  BY <1>2, <1>3 DEF StageRow
<1>7. stage' = [k \in Stages |-> stage'[k]]
  BY <1>1, <1>2
<1>8. QED
  BY <1>5, <1>6, <1>7, OnlyStages DEF ArchiveStage

LEMMA ReorderStagesKeeps ==
  ASSUME PipelineAssumption, PipelineInv, NEW named, ReorderStages(named)
  PROVE  PipelineInv'
<1>1. \A k \in Stages : stage[k] = StageRow(k)
  BY DEF PipelineInv, PipelineShape
<1>2. ASSUME NEW s \in Stages
      PROVE  \E o : stage'[s] = [kind |-> stage[s].kind, archived |-> stage[s].archived, order |-> o]
  <2> DEFINE place == (CHOOSE k \in DOMAIN named : named[k] = s) - 1
  <2>1. stage'[s] = IF s \in Range(named) THEN [stage[s] EXCEPT !.order = place] ELSE stage[s]
    BY DEF ReorderStages
  <2> HIDE DEF place
  <2>2. stage[s] = [kind |-> stage[s].kind, archived |-> stage[s].archived, order |-> stage[s].order]
    BY <1>1 DEF StageRow
  <2>3. [stage[s] EXCEPT !.order = place]
          = [kind |-> stage[s].kind, archived |-> stage[s].archived, order |-> place]
    BY <2>2, MovedRow
  <2>4. QED
    BY <2>1, <2>2, <2>3
<1>3. ASSUME NEW k \in Stages
      PROVE  /\ stage'[k].kind = stage[k].kind /\ stage'[k].archived = stage[k].archived
             /\ stage'[k] = StageRow(k)'
  <2>1. PICK kind, archived, o :
          /\ kind = stage[k].kind /\ archived = stage[k].archived
          /\ stage'[k] = [kind |-> kind, archived |-> archived, order |-> o]
    BY <1>2
  <2>2. QED
    BY <2>1 DEF StageRow
<1>4. StagesInv'
  BY <1>3, StagesKept DEF PipelineInv
<1>5. stage' = [k \in Stages |-> stage'[k]]
  BY DEF ReorderStages
<1>6. QED
  BY <1>3, <1>4, <1>5, OnlyStages DEF ReorderStages

(* Steps that touch no stage. *)
LEMMA StagesAside ==
  ASSUME PipelineAssumption, PipelineInv, UNCHANGED stage, DefaultsInv', ReasonsInv',
         disposition' \in [Dispositions -> [exists : BOOLEAN, system : BOOLEAN, default : BOOLEAN,
                                           archived : BOOLEAN]],
         reason' \in [Reasons -> {"none", "live", "archived"}], overlapping' \in Nat,
         call' = [q \in Call |-> CallRow(q)']
  PROVE  PipelineInv'
<1>1. StagesInv'
  BY StagesKept DEF PipelineInv
<1>2. PipelineShape'
  BY StageRowsKept DEF PipelineInv, PipelineShape
<1>3. QED
  BY <1>1, <1>2 DEF PipelineInv

LEMMA ReasonStepsKeep ==
  ASSUME PipelineAssumption, PipelineInv
  PROVE  /\ \A q \in Call : BeginReason(q) \/ CommitReason(q) => PipelineInv'
         /\ \A r \in Reasons : ArchiveReason(r) => PipelineInv'
<1>1. ASSUME NEW q \in Call, BeginReason(q)
      PROVE  PipelineInv'
  <2> DEFINE r == [op |-> "reason", row |-> Nil, seen |-> {}, code |-> 0]
  <2>1. Reads(q, r)
    BY <1>1 DEF BeginReason
  <2>2. /\ call'[q] = r /\ \A p \in Call \ {q} : call'[p] = call[p]
        /\ call' = [p \in Call |-> CallRow(p)']
    BY <2>1, CallBegun DEF PipelineInv
  <2>3. DefaultsInv'
    BY <1>1, <2>1, <2>2, DefaultsKept DEF PipelineInv, BeginReason
  <2>4. QED
    BY <1>1, <2>2, <2>3, StagesAside, BeginReasonCounts DEF PipelineInv, PipelineShape, BeginReason
<1>2. ASSUME NEW q \in Call, CommitReason(q)
      PROVE  PipelineInv'
  <2>1. /\ call'[q] = NoCall /\ \A p \in Call \ {q} : call'[p] = call[p]
        /\ call' = [p \in Call |-> CallRow(p)']
    BY <1>2, CallOver DEF CommitReason, PipelineInv
  <2>2. DefaultsInv'
    BY <1>2, <2>1, NoCallRow, DefaultsKept DEF PipelineInv, CommitReason, PipelineAssumption
  <2>3. QED
    BY <1>2, <2>1, <2>2, StagesAside, CommitReasonCounts DEF PipelineInv, PipelineShape, CommitReason
<1>3. ASSUME NEW r \in Reasons, ArchiveReason(r)
      PROVE  PipelineInv'
  <2>1. /\ reason' \in [Reasons -> {"none", "live", "archived"}]
        /\ \A s \in Reasons : reason'[s] = "live" => reason[s] = "live"
    BY <1>3 DEF ArchiveReason, PipelineInv, PipelineShape
  <2>2. DefaultsInv' /\ ReasonsInv'
    BY <1>3, <2>1, DefaultsKept, ReasonsKept DEF PipelineInv, PipelineShape, ArchiveReason
  <2>3. QED
    BY <1>3, <2>1, <2>2, StagesAside, CallRowsKept DEF PipelineInv, PipelineShape, ArchiveReason
<1>4. QED
  BY <1>1, <1>2, <1>3

LEMMA DispositionStepsKeep ==
  ASSUME PipelineAssumption, PipelineInv
  PROVE  /\ CreateDisposition => PipelineInv'
         /\ \A q \in Call, op \in {"archive", "default"}, d \in Dispositions :
              BeginDisposition(q, op, d) => PipelineInv'
         /\ \A q \in Call : CommitArchive(q) \/ CommitDefault(q) => PipelineInv'
<1> DEFINE Rows == [Dispositions -> [exists : BOOLEAN, system : BOOLEAN, default : BOOLEAN,
                                     archived : BOOLEAN]]
<1>1. ASSUME CreateDisposition
      PROVE  PipelineInv'
  <2>1. PICK d \in Dispositions : disposition' = [disposition EXCEPT ![d].exists = TRUE]
    BY <1>1 DEF CreateDisposition, LeastUnused
  <2>2. /\ disposition' \in Rows
        /\ \A e \in Dispositions : /\ disposition'[e].default = disposition[e].default
                                   /\ disposition'[e].archived = disposition[e].archived
    BY <2>1 DEF PipelineInv, PipelineShape
  <2>3. DefaultsInv' /\ ReasonsInv'
    BY <1>1, <2>2, DefaultsKept, ReasonsKept DEF PipelineInv, PipelineShape, CreateDisposition
  <2>4. QED
    BY <1>1, <2>2, <2>3, StagesAside, CallRowsKept DEF PipelineInv, PipelineShape, CreateDisposition
<1>2. ASSUME NEW q \in Call, NEW op \in {"archive", "default"}, NEW d \in Dispositions,
             BeginDisposition(q, op, d)
      PROVE  PipelineInv'
  <2>1. /\ DefaultsInv' /\ call' = [p \in Call |-> CallRow(p)']
        /\ \A p \in Call : call'[p].op = "reason" => call[p].op = "reason"
    BY <1>2, BeginDispositionKeeps DEF PipelineInv
  <2>2. ReasonsInv'
    BY <1>2, <2>1, ReasonsKept DEF PipelineInv, PipelineShape, BeginDisposition
  <2>3. QED
    BY <1>2, <2>1, <2>2, StagesAside DEF PipelineInv, PipelineShape, BeginDisposition
<1>3. ASSUME NEW q \in Call, CommitArchive(q)
      PROVE  PipelineInv'
  <2>1. /\ call'[q] = NoCall /\ \A p \in Call \ {q} : call'[p] = call[p]
        /\ call' = [p \in Call |-> CallRow(p)']
    BY <1>3, CallOver DEF CommitArchive, PipelineInv
  <2>2. ReasonsInv'
    BY <1>3, <2>1, NoCallRow, ReasonsKept
       DEF PipelineInv, PipelineShape, CommitArchive, PipelineAssumption
  <2>a. PICK d \in Dispositions : disposition' = [disposition EXCEPT ![d].archived = TRUE]
    BY <1>3 DEF CommitArchive, PipelineInv, DefaultsInv
  <2>3. disposition' \in Rows
    BY <2>a DEF PipelineInv, PipelineShape
  <2>4. QED
    BY <1>3, <2>1, <2>2, <2>3, StagesAside, CommitArchiveKeeps
       DEF PipelineInv, PipelineShape, CommitArchive
<1>4. ASSUME NEW q \in Call, CommitDefault(q)
      PROVE  PipelineInv'
  <2>1. /\ call'[q] = NoCall /\ \A p \in Call \ {q} : call'[p] = call[p]
        /\ call' = [p \in Call |-> CallRow(p)']
    BY <1>4, CallOver DEF CommitDefault, PipelineInv
  <2>2. ReasonsInv'
    BY <1>4, <2>1, NoCallRow, ReasonsKept
       DEF PipelineInv, PipelineShape, CommitDefault, PipelineAssumption
  <2>3. QED
    BY <1>4, <2>1, <2>2, StagesAside, CommitDefaultKeeps
       DEF PipelineInv, PipelineShape, CommitDefault
<1>5. QED
  BY <1>1, <1>2, <1>3, <1>4

(* The rest: action types, rollbacks and stuttering. *)
LEMMA TypeStepsKeep ==
  ASSUME PipelineAssumption, PipelineInv,
         UNCHANGED <<stage, disposition, reason, contested, overlapping>>,
         call' = [q \in Call |-> CallRow(q)'],
         \A q \in Call : \/ call'[q] = call[q]
                         \/ call'[q].op \in {Nil, "type"} /\ call'[q].seen = {}
  PROVE  PipelineInv'
<1>1. Nil \notin {"archive", "default", "reason"}
  BY DEF PipelineAssumption
<1>2. DefaultsInv' /\ ReasonsInv'
  BY <1>1, DefaultsKept, ReasonsKept DEF PipelineInv, PipelineShape
<1>3. QED
  BY <1>2, StagesAside DEF PipelineInv, PipelineShape

LEMMA PipelineInductive ==
  ASSUME PipelineAssumption, PipelineInv, [PipelineNext]_pipelineVars
  PROVE  PipelineInv'
<1>1. CASE CreateStage \/ CreateDisposition
  BY <1>1, CreateStageKeeps, DispositionStepsKeep
<1>2. ASSUME NEW s \in Stages, ArchiveStage(s)
      PROVE  PipelineInv'
  BY <1>2, ArchiveStageKeeps
<1>3. ASSUME NEW named, ReorderStages(named)
      PROVE  PipelineInv'
  BY <1>3, ReorderStagesKeeps
<1>4. ASSUME NEW r \in Reasons, ArchiveReason(r)
      PROVE  PipelineInv'
  BY <1>4, ReasonStepsKeep
<1>5. ASSUME NEW q \in Call, BeginReason(q) \/ CommitReason(q)
      PROVE  PipelineInv'
  BY <1>5, ReasonStepsKeep
<1>6. ASSUME NEW q \in Call, CommitArchive(q) \/ CommitDefault(q)
      PROVE  PipelineInv'
  BY <1>6, DispositionStepsKeep
<1>7. ASSUME NEW q \in Call, NEW op \in {"archive", "default"}, NEW d \in Dispositions,
             BeginDisposition(q, op, d)
      PROVE  PipelineInv'
  BY <1>7, DispositionStepsKeep
<1>8. ASSUME NEW q \in Call, BeginType(q)
      PROVE  PipelineInv'
  <2> DEFINE r == [op |-> "type", row |-> Nil, seen |-> {}, code |-> NextCode]
  <2>1. Reads(q, r)
    BY <1>8 DEF BeginType
  <2>2. /\ call'[q] = r /\ \A p \in Call \ {q} : call'[p] = call[p]
        /\ call' = [p \in Call |-> CallRow(p)']
    BY <2>1, CallBegun DEF PipelineInv
  <2>3. QED
    BY <1>8, <2>1, <2>2, TypeStepsKeep DEF BeginType
<1>9. ASSUME NEW q \in Call, Writes(q),
             UNCHANGED <<stage, disposition, reason, contested, overlapping>>
      PROVE  PipelineInv'
  <2>1. /\ call'[q] = NoCall /\ \A p \in Call \ {q} : call'[p] = call[p]
        /\ call' = [p \in Call |-> CallRow(p)']
    BY <1>9, CallOver DEF PipelineInv
  <2>2. QED
    BY <1>9, <2>1, NoCallRow, TypeStepsKeep
<1>10. ASSUME UNCHANGED <<stage, disposition, reason, call, contested, overlapping>>
       PROVE  PipelineInv'
  BY <1>10, TypeStepsKeep, CallRowsKept DEF PipelineInv
<1>11. ASSUME NEW q \in Call, NEW score \in Score, CommitType(q, score)
       PROVE  PipelineInv'
  BY <1>11, <1>9 DEF CommitType
<1>12. ASSUME NEW q \in Call, Rollback(q)
       PROVE  PipelineInv'
  BY <1>12, <1>9 DEF Rollback
<1>13. ASSUME NEW t \in Types, NEW score, NEW archived, UpdateType(t, score, archived)
       PROVE  PipelineInv'
  BY <1>13, <1>10 DEF UpdateType
<1>14. ASSUME NEW t \in Types, NEW slug, NEW given, AddActionField(t, slug, given)
       PROVE  PipelineInv'
  BY <1>14, <1>10 DEF AddActionField
<1>15. ASSUME NEW t \in Types, NEW n, HideField(t, n)
       PROVE  PipelineInv'
  BY <1>15, <1>10 DEF HideField
<1>16. CASE UNCHANGED pipelineVars
  BY <1>16, <1>10 DEF pipelineVars
<1>17. QED
  BY <1>1, <1>2, <1>3, <1>4, <1>5, <1>6, <1>7, <1>8, <1>11, <1>12, <1>13, <1>14, <1>15, <1>16
     DEF PipelineNext

(* The strengthening PipelineInv is an invariant of the specification. *)
THEOREM PipelineAlways ==
  ASSUME PipelineAssumption
  PROVE  PipelineSpec => []PipelineInv
<1>1. PipelineInit => PipelineInv
  BY PipelineStart
<1>2. PipelineInv /\ [PipelineNext]_pipelineVars => PipelineInv'
  BY PipelineInductive
<1>3. QED
  BY <1>1, <1>2, PTL DEF PipelineSpec

LEMMA PipelineMeans ==
  ASSUME PipelineAssumption, PipelineInv
  PROVE  PipelineWhole
<1>1. \A kind \in Singleton : Cardinality(LiveStages(kind)) = 1
  <2>1. {1, 3, 4} \subseteq Stages /\ "ACTIVE" \notin Singleton /\ Nil \notin Singleton
    BY DEF PipelineAssumption, Singleton
  <2>2. /\ LiveStages("INITIAL") = {1} /\ LiveStages("WON") = {3} /\ LiveStages("LOST") = {4}
    BY <2>1 DEF PipelineInv, StagesInv, LiveStages, Singleton
  <2>3. QED
    BY <2>2, FS_Singleton DEF Singleton
<1>2. Cardinality(LiveDefaults) <= 1
  <2>1. CASE LiveDefaults = {}
    BY <2>1, FS_EmptySet
  <2>2. CASE LiveDefaults # {}
    <3>a. PICK d : d \in LiveDefaults
      BY <2>2
    <3>1. LiveDefaults = {d}
      BY <3>a DEF PipelineInv, DefaultsInv
    <3>2. QED
      BY <3>1, FS_Singleton
  <2>3. QED
    BY <2>1, <2>2
<1>3. LiveDefaults = {} => \E d \in contested : disposition[d].default /\ disposition[d].archived
  BY DEF PipelineInv, DefaultsInv, LiveDefaults
<1>4. Cardinality(LiveReasons) <= MaxReasons - 1 + Max({1, overlapping})
  <2>1. Max({1, overlapping}) \in Int /\ MaxReasons \in Int
    BY PeakIs DEF PipelineInv, PipelineShape, PipelineAssumption
  <2>2. QED
    BY <2>1, ReasonsCounted DEF PipelineInv, ReasonsInv
<1>5. QED
  BY <1>1, <1>2, <1>3, <1>4 DEF PipelineWhole

(* Whatever is created, archived, reordered and chosen, and whichever calls  *)
(* overlap, there is one live stage of each singleton kind, at most one live *)
(* default disposition, none only if one was archived while it was made the  *)
(* default, and no more live lost reasons than the cap and overlap allow.    *)
THEOREM PipelineStaysWhole ==
  ASSUME PipelineAssumption
  PROVE  PipelineSpec => []PipelineWhole
<1>1. PipelineInv => PipelineWhole
  BY PipelineMeans
<1>2. QED
  BY <1>1, PipelineAlways, PTL

-----------------------------------------------------------------------------
(* Action types. *)

LEMMA RowFacts ==
  ASSUME TypesInv
  PROVE  /\ DOMAIN actionType = Types
         /\ \A t \in Types : /\ actionType[t] = TypeRow(t)
                            /\ actionType[t].fields \in Seq(FieldRow)
BY DEF TypesInv

(* What keeps the codes of the types and gives their fields distinct keys.   *)
LEMMA TypesHeld ==
  ASSUME TypesInv, PipelineInv', actionType' = [t \in Types |-> actionType'[t]],
         \A t \in Types :
           /\ actionType'[t] = TypeRow(t)' /\ actionType'[t].fields \in Seq(FieldRow)
           /\ actionType'[t].code = actionType[t].code
           /\ \A i, j \in DOMAIN actionType'[t].fields :
                i # j => actionType'[t].fields[i].key # actionType'[t].fields[j].key
  PROVE  TypesInv'
<1>1. \A s \in Stages : stage'[s].kind \in Singleton \cup {"ACTIVE", Nil}
  BY DEF PipelineInv, StagesInv, Singleton
<1>2. \A t, u \in Types :
        t # u /\ actionType'[t].code # 0 => actionType'[t].code # actionType'[u].code
  BY DEF TypesInv, PipelineTypeOK
<1>3. actionType' = [t \in Types |-> TypeRow(t)']
  OBVIOUS
<1>4. QED
  BY <1>1, <1>2, <1>3 DEF TypesInv, PipelineTypeOK

LEMMA CommitTypeKeeps ==
  ASSUME TypesInv, PipelineInv', NEW q \in Call, NEW score \in Score, CommitType(q, score)
  PROVE  TypesInv'
<1> DEFINE notes == [key |-> <<"notes">>, options |-> <<>>, hidden |-> FALSE]
<1>1. PICK t, c :
        /\ t \in Types /\ c = call[q].code /\ c \notin TypeCodes
        /\ actionType' = [actionType EXCEPT ![t] =
             [code |-> c, score |-> score, archived |-> FALSE, fields |-> <<notes>>]]
  BY DEF CommitType, LeastUnused
<1>2. notes \in FieldRow
  BY DEF FieldRow
<1> HIDE DEF notes
<1>3. /\ DOMAIN actionType' = Types
      /\ actionType'[t] = [code |-> c, score |-> score, archived |-> FALSE, fields |-> <<notes>>]
      /\ \A u \in Types \ {t} : actionType'[u] = actionType[u]
  BY <1>1, RowFacts
<1>4. actionType'[t].code = c /\ actionType'[t].fields = <<notes>>
  BY <1>3
<1>5. \A u \in Types : actionType'[u] = TypeRow(u)' /\ actionType'[u].fields \in Seq(FieldRow)
  <2>1. ASSUME NEW u \in Types \ {t}
        PROVE  actionType'[u] = TypeRow(u)' /\ actionType'[u].fields \in Seq(FieldRow)
    BY <1>3, RowFacts DEF TypeRow
  <2>2. actionType'[t] = TypeRow(t)'
    <3>1. PICK no : no = FALSE
      OBVIOUS
    <3>2. actionType'[t] = [code |-> c, score |-> score, archived |-> no, fields |-> <<notes>>]
      BY <1>3, <3>1, Zenon
    <3>3. QED
      BY <3>2 DEF TypeRow
  <2>3. actionType'[t].fields \in Seq(FieldRow)
    BY <1>2, <1>4
  <2>4. QED
    BY <2>1, <2>2, <2>3
<1>6. \A s \in Stages : stage'[s].kind \in Singleton \cup {"ACTIVE", Nil}
  BY DEF PipelineInv, StagesInv, Singleton
<1>7. \A u \in Types : actionType[u].code # 0 => actionType[u].code # c
  BY <1>1 DEF TypeCodes
<1>8. \A u, v \in Types :
        u # v /\ actionType'[u].code # 0 => actionType'[u].code # actionType'[v].code
  BY <1>3, <1>4, <1>7 DEF TypesInv, PipelineTypeOK
<1>9. ASSUME NEW u \in Types, NEW i \in DOMAIN actionType'[u].fields,
             NEW j \in DOMAIN actionType'[u].fields, i # j
      PROVE  actionType'[u].fields[i].key # actionType'[u].fields[j].key
  <2>1. CASE u = t
    BY <2>1, <1>4, <1>9
  <2>2. CASE u # t
    BY <2>2, <1>3, <1>9 DEF TypesInv, PipelineTypeOK
  <2>3. QED
    BY <2>1, <2>2
<1>10. actionType' = [u \in Types |-> TypeRow(u)']
  <2>1. actionType' = [u \in Types |-> actionType'[u]]
    BY <1>1, RowFacts
  <2>2. QED
    BY <2>1, <1>5
<1>11. QED
  BY <1>5, <1>6, <1>8, <1>9, <1>10 DEF TypesInv, PipelineTypeOK

(* One type's row changes, its code does not. *)
LEMMA OneTypeKeeps ==
  ASSUME TypesInv, PipelineInv', NEW t \in Types, NEW c, NEW s, NEW a, NEW f,
         c = actionType[t].code, f \in Seq(FieldRow),
         \A i, j \in DOMAIN f : i # j => f[i].key # f[j].key,
         actionType'[t] = [code |-> c, score |-> s, archived |-> a, fields |-> f],
         actionType' = [u \in Types |-> actionType'[u]],
         \A u \in Types \ {t} : actionType'[u] = actionType[u]
  PROVE  TypesInv'
<1>1. actionType'[t] = TypeRow(t)' /\ actionType'[t].code = c /\ actionType'[t].fields = f
  BY DEF TypeRow
<1>2. ASSUME NEW u \in Types
      PROVE  /\ actionType'[u] = TypeRow(u)' /\ actionType'[u].fields \in Seq(FieldRow)
             /\ actionType'[u].code = actionType[u].code
             /\ \A i, j \in DOMAIN actionType'[u].fields :
                  i # j => actionType'[u].fields[i].key # actionType'[u].fields[j].key
  <2>1. CASE u = t
    BY <2>1, <1>1
  <2>2. CASE u # t
    BY <2>2, RowFacts DEF TypeRow, TypesInv, PipelineTypeOK
  <2>3. QED
    BY <2>1, <2>2
<1>3. QED
  BY <1>2, TypesHeld

LEMMA RowEdits ==
  ASSUME NEW c, NEW s, NEW a, NEW f, NEW r,
         r = [code |-> c, score |-> s, archived |-> a, fields |-> f], NEW x, NEW y
  PROVE  /\ [r EXCEPT !.score = x] = [code |-> c, score |-> x, archived |-> a, fields |-> f]
         /\ [r EXCEPT !.archived = y] = [code |-> c, score |-> s, archived |-> y, fields |-> f]
         /\ [r EXCEPT !.fields = x] = [code |-> c, score |-> s, archived |-> a, fields |-> x]
OBVIOUS

LEMMA UpdateTypeKeeps ==
  ASSUME TypesInv, PipelineInv', NEW t \in Types, NEW score, NEW archived,
         UpdateType(t, score, archived)
  PROVE  TypesInv'
<1>1. PICK c, f : /\ c = actionType[t].code /\ f = actionType[t].fields
                  /\ f \in Seq(FieldRow)
                  /\ \A i, j \in DOMAIN f : i # j => f[i].key # f[j].key
  BY RowFacts DEF TypesInv, PipelineTypeOK
<1>2. actionType' = [actionType EXCEPT ![t].score = score, ![t].archived = archived]
  BY DEF UpdateType
<1>3. /\ actionType' = [u \in Types |-> actionType'[u]]
      /\ \A u \in Types \ {t} : actionType'[u] = actionType[u]
      /\ actionType'[t] = [[actionType[t] EXCEPT !.score = score] EXCEPT !.archived = archived]
  BY <1>2, RowFacts
<1>4. actionType'[t] = [code |-> c, score |-> score, archived |-> archived, fields |-> f]
  BY <1>1, <1>3, RowFacts, RowEdits DEF TypeRow
<1>5. /\ actionType' = [u \in Types |-> actionType'[u]]
      /\ \A u \in Types \ {t} : actionType'[u] = actionType[u]
  BY <1>3
<1>6. QED
  BY <1>1, <1>4, <1>5, OneTypeKeeps

LEMMA AddActionFieldKeeps ==
  ASSUME TypesInv, PipelineInv', NEW t \in Types, NEW slug \in Slug, NEW given \in Seq(Slug),
         AddActionField(t, slug, given)
  PROVE  TypesInv'
<1> DEFINE Part == Slug \cup {"notes"} \cup Nat
<1>1. PICK f, taken : f = actionType[t].fields /\ taken = {f[n].key : n \in DOMAIN f}
  OBVIOUS
<1>2. f \in Seq(FieldRow) /\ \A i, j \in DOMAIN f : i # j => f[i].key # f[j].key
  BY <1>1, RowFacts DEF TypesInv, PipelineTypeOK
<1>3. IsFiniteSet(taken)
  <2>1. IsFiniteSet(1 .. Len(f)) /\ DOMAIN f = 1 .. Len(f)
    BY <1>2, FS_Interval
  <2> DEFINE named == [n \in DOMAIN f |-> f[n].key]
  <2>2. named \in [DOMAIN f -> taken] /\ \A k \in taken : \E n \in DOMAIN f : named[n] = k
    BY <1>1
  <2>3. named \in Surjection(DOMAIN f, taken)
    BY <2>2 DEF Surjection
  <2> HIDE DEF named
  <2>4. QED
    BY <2>1, <2>3, FS_Surjection
<1>4. PICK key : key = Slugify(<<slug>>, taken)
  OBVIOUS
<1>5. key \in Seq(Part) /\ key \notin taken
  <2>1. <<slug>> \in Seq(Part) /\ Nat \subseteq Part
    OBVIOUS
  <2> HIDE DEF Part
  <2>2. QED
    BY <1>3, <1>4, <2>1, SlugIsNew
<1>6. PICK row : row = [key |-> key, options |-> given, hidden |-> FALSE]
  OBVIOUS
<1>7. row \in FieldRow /\ row.key = key
  BY <1>5, <1>6 DEF FieldRow
<1>8. PICK g : g = Append(f, row)
  OBVIOUS
<1>9. /\ g \in Seq(FieldRow) /\ DOMAIN g = 1 .. (Len(f) + 1) /\ Len(f) \in Nat
      /\ \A i \in 1 .. Len(f) : g[i] = f[i]
      /\ g[Len(f) + 1] = row
  BY <1>2, <1>7, <1>8, AppendProperties
<1>10. \A i, j \in DOMAIN g : i # j => g[i].key # g[j].key
  <2>1. DOMAIN f = 1 .. Len(f)
    BY <1>2
  <2>2. ASSUME NEW i \in 1 .. Len(f)
        PROVE  g[i].key \in taken
    <3>1. g[i] = f[i] /\ i \in DOMAIN f
      BY <1>9, <2>1
    <3>2. QED
      BY <1>1, <3>1
  <2>3. ASSUME NEW i \in DOMAIN g, NEW j \in DOMAIN g, i < j
        PROVE  g[i].key # g[j].key
    <3>1. i \in 1 .. Len(f) /\ (j \in 1 .. Len(f) \/ j = Len(f) + 1)
      BY <1>9, <2>3
    <3>2. CASE j \in 1 .. Len(f)
      BY <1>2, <1>9, <2>1, <2>3, <3>1, <3>2
    <3>3. CASE j = Len(f) + 1
      BY <1>5, <1>7, <1>9, <2>2, <3>1, <3>3
    <3>4. QED
      BY <3>1, <3>2, <3>3
  <2>4. QED
    BY <1>9, <2>3
<1>11. actionType' = [actionType EXCEPT ![t].fields = g]
  BY <1>1, <1>4, <1>6, <1>8 DEF AddActionField
<1>12. /\ actionType' = [u \in Types |-> actionType'[u]]
       /\ \A u \in Types \ {t} : actionType'[u] = actionType[u]
       /\ actionType'[t] = [actionType[t] EXCEPT !.fields = g]
  BY <1>11, RowFacts
<1>13. PICK c, s, a : /\ c = actionType[t].code
                      /\ actionType[t] = [code |-> c, score |-> s, archived |-> a, fields |-> f]
  BY <1>1, RowFacts DEF TypeRow
<1>14. actionType'[t] = [code |-> c, score |-> s, archived |-> a, fields |-> g]
  BY <1>12, <1>13, RowEdits
<1>15. /\ actionType' = [u \in Types |-> actionType'[u]]
       /\ \A u \in Types \ {t} : actionType'[u] = actionType[u]
  BY <1>12
<1>16. c = actionType[t].code
  BY <1>13
<1>17. g \in Seq(FieldRow)
  BY <1>9
<1>18. QED
  BY <1>10, <1>14, <1>15, <1>16, <1>17, OneTypeKeeps

LEMMA HideFieldKeeps ==
  ASSUME TypesInv, PipelineInv', NEW t \in Types, NEW n, HideField(t, n)
  PROVE  TypesInv'
<1>1. PICK f : f = actionType[t].fields
  OBVIOUS
<1>2. f \in Seq(FieldRow) /\ \A i, j \in DOMAIN f : i # j => f[i].key # f[j].key
  BY <1>1, RowFacts DEF TypesInv, PipelineTypeOK
<1>3. n \in DOMAIN f /\ actionType' = [actionType EXCEPT ![t].fields[n].hidden = TRUE]
  BY <1>1 DEF HideField
<1>4. PICK g : g = [f EXCEPT ![n].hidden = TRUE]
  OBVIOUS
<1>5. /\ actionType' = [u \in Types |-> actionType'[u]]
      /\ \A u \in Types \ {t} : actionType'[u] = actionType[u]
      /\ actionType'[t] = [actionType[t] EXCEPT !.fields = g]
  BY <1>1, <1>3, <1>4, RowFacts
<1>6. \A i \in DOMAIN f : f[i] \in FieldRow
  BY <1>2
<1>7. /\ DOMAIN g = DOMAIN f /\ \A i \in DOMAIN f : g[i] \in FieldRow /\ g[i].key = f[i].key
  BY <1>4, <1>6 DEF FieldRow
<1>8. g \in Seq(FieldRow)
  <2>1. DOMAIN g = 1 .. Len(f) /\ Len(f) \in Nat /\ g = [i \in 1 .. Len(f) |-> g[i]]
    <3>1. DOMAIN f = 1 .. Len(f) /\ Len(f) \in Nat /\ f = [i \in 1 .. Len(f) |-> f[i]]
      BY <1>2
    <3>2. QED
      BY <1>4, <3>1
  <2>2. g \in [1 .. Len(f) -> FieldRow]
    BY <1>2, <1>7, <2>1
  <2>3. QED
    BY <2>1, <2>2
<1>9. \A i, j \in DOMAIN g : i # j => g[i].key # g[j].key
  BY <1>2, <1>7
<1>10. PICK c, s, a : /\ c = actionType[t].code
                      /\ actionType[t] = [code |-> c, score |-> s, archived |-> a, fields |-> f]
  BY <1>1, RowFacts DEF TypeRow
<1>11. actionType'[t] = [code |-> c, score |-> s, archived |-> a, fields |-> g]
  BY <1>5, <1>10, RowEdits
<1>12. QED
  BY <1>5, <1>8, <1>9, <1>10, <1>11, OneTypeKeeps

LEMMA TypesUnchanged ==
  ASSUME TypesInv, PipelineInv', UNCHANGED actionType
  PROVE  TypesInv'
<1>1. ASSUME NEW t \in Types
      PROVE  /\ actionType'[t] = TypeRow(t)' /\ actionType'[t].fields \in Seq(FieldRow)
             /\ actionType'[t].code = actionType[t].code
             /\ \A i, j \in DOMAIN actionType'[t].fields :
                  i # j => actionType'[t].fields[i].key # actionType'[t].fields[j].key
  BY RowFacts DEF TypeRow, TypesInv, PipelineTypeOK
<1>2. actionType' = [t \in Types |-> actionType'[t]]
  BY DEF TypesInv
<1>3. QED
  BY <1>1, <1>2, TypesHeld

LEMMA TypesInductive ==
  ASSUME TypesInv, PipelineInv', [PipelineNext]_pipelineVars
  PROVE  TypesInv'
<1>1. CASE UNCHANGED actionType
  BY <1>1, TypesUnchanged
<1>2. ASSUME NEW q \in Call, NEW score \in Score, CommitType(q, score)
      PROVE  TypesInv'
  BY <1>2, CommitTypeKeeps
<1>3. ASSUME NEW t \in Types, NEW score, NEW archived, UpdateType(t, score, archived)
      PROVE  TypesInv'
  BY <1>3, UpdateTypeKeeps
<1>4. ASSUME NEW t \in Types, NEW slug \in Slug, NEW given \in {<<>>} \cup {<<s>> : s \in Slug},
             AddActionField(t, slug, given)
      PROVE  TypesInv'
  <2>1. given \in Seq(Slug)
    <3>1. CASE given = <<>>
      BY <3>1
    <3>2. ASSUME NEW s \in Slug, given = <<s>>
          PROVE  given \in Seq(Slug)
      BY <3>2
    <3>3. QED
      BY <3>1, <3>2
  <2>2. QED
    BY <1>4, <2>1, AddActionFieldKeeps
<1>5. ASSUME NEW t \in Types, NEW n, HideField(t, n)
      PROVE  TypesInv'
  BY <1>5, HideFieldKeeps
<1>6. CASE UNCHANGED pipelineVars
  BY <1>6, <1>1 DEF pipelineVars
<1>7. CASE \/ CreateStage \/ CreateDisposition
           \/ \E s \in Stages : ArchiveStage(s)
           \/ \E named \in SetToAllKPermutations(LiveStages("ACTIVE")) : ReorderStages(named)
           \/ \E r \in Reasons : ArchiveReason(r)
  BY <1>7, <1>1 DEF CreateStage, CreateDisposition, ArchiveStage, ReorderStages, ArchiveReason
<1>8. ASSUME NEW q \in Call,
             \/ BeginReason(q) \/ CommitReason(q) \/ BeginType(q) \/ Rollback(q)
             \/ CommitArchive(q) \/ CommitDefault(q)
             \/ \E op \in {"archive", "default"}, d \in Dispositions : BeginDisposition(q, op, d)
      PROVE  TypesInv'
  BY <1>8, <1>1 DEF BeginReason, CommitReason, BeginType, Rollback, CommitArchive, CommitDefault,
                    BeginDisposition
<1>9. QED
  BY <1>2, <1>3, <1>4, <1>5, <1>6, <1>7, <1>8 DEF PipelineNext

(* Every reachable state of the pipeline settings is type-correct: the codes *)
(* that reports and filters refer to name one action type each, and no two   *)
(* fields of a type share a key, whatever their labels.                      *)
THEOREM PipelineTypeCorrect ==
  ASSUME PipelineAssumption
  PROVE  PipelineSpec => []PipelineTypeOK
<1>1. PipelineInit => PipelineInv /\ TypesInv
  <2> SUFFICES ASSUME PipelineInit
               PROVE  PipelineInv /\ TypesInv
    OBVIOUS
  <2>1. PipelineInv
    BY PipelineStart
  <2>2. \A t \in Types : /\ actionType[t] = NoType /\ TypeRow(t) = NoType
                        /\ actionType[t].code = 0 /\ actionType[t].fields = <<>>
    BY DEF PipelineInit, NoType, TypeRow
  <2>3. \A s \in Stages : stage[s].kind \in Singleton \cup {"ACTIVE", Nil}
    BY <2>1 DEF PipelineInv, StagesInv, Singleton
  <2>4. actionType = [t \in Types |-> TypeRow(t)]
    BY <2>2 DEF PipelineInit
  <2>5. \A t \in Types : actionType[t].fields \in Seq(FieldRow)
    <3>1. <<>> \in Seq(FieldRow)
      OBVIOUS
    <3>2. QED
      BY <2>2, <3>1
  <2>6. QED
    BY <2>1, <2>2, <2>3, <2>4, <2>5 DEF TypesInv, PipelineTypeOK
<1>2. PipelineInv /\ TypesInv /\ [PipelineNext]_pipelineVars => (PipelineInv /\ TypesInv)'
  BY PipelineInductive, TypesInductive
<1>3. PipelineInv /\ TypesInv => PipelineTypeOK
  BY DEF TypesInv
<1>4. QED
  BY <1>1, <1>2, <1>3, PTL DEF PipelineSpec
=============================================================================
