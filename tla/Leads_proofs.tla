---------------------------- MODULE Leads_proofs ----------------------------
(***************************************************************************)
(* Proofs about Leads, for any leads, fields, edits and changesets: with    *)
(* any number of requests the timeline tells every column of a lead, and     *)
(* with one request at a time every field too; then an undo is exact and a   *)
(* lead's score is the sum of what its timeline scored.                      *)
(***************************************************************************)
EXTENDS Leads, FiniteSetTheorems, SequenceTheorems,
        WellFoundedInduction, TLAPS

(* Sequences, as functions. *)

LEMMA Appended ==
  ASSUME NEW m \in Nat, NEW n \in Nat, NEW f, NEW g,
         f = [i \in 1 .. m |-> f[i]], g = [i \in 1 .. n |-> g[i]]
  PROVE  /\ IsSequence(f \o g) /\ Len(f \o g) = m + n
         /\ DOMAIN (f \o g) = 1 .. (m + n)
         /\ \A i \in 1 .. m : (f \o g)[i] = f[i]
         /\ \A i \in 1 .. n : (f \o g)[m + i] = g[i]
<1> DEFINE S == {f[i] : i \in 1 .. m} \cup {g[i] : i \in 1 .. n}
<1>1. f \in Seq(S) /\ Len(f) = m
  <2>1. f \in [1 .. m -> S]
    OBVIOUS
  <2> HIDE DEF S
  <2> QED BY <2>1
<1>2. g \in Seq(S) /\ Len(g) = n
  <2>1. g \in [1 .. n -> S]
    OBVIOUS
  <2> HIDE DEF S
  <2> QED BY <2>1
<1>3. /\ f \o g \in Seq(S) /\ Len(f \o g) = m + n
      /\ \A i \in 1 .. m : (f \o g)[i] = f[i]
      /\ \A i \in 1 .. n : (f \o g)[m + i] = g[i]
  <2>1. /\ Len(f \o g) = m + n
        /\ \A i \in 1 .. (m + n) :
             (f \o g)[i] = IF i <= m THEN f[i] ELSE g[i - m]
    BY <1>1, <1>2, ConcatProperties
  <2>2. ASSUME NEW i \in 1 .. n PROVE (f \o g)[m + i] = g[i]
    <3>1. m + i \in 1 .. (m + n) /\ ~(m + i <= m) /\ (m + i) - m = i
      OBVIOUS
    <3> QED BY <2>1, <3>1
  <2>3. ASSUME NEW i \in 1 .. m PROVE (f \o g)[i] = f[i]
    <3>1. i \in 1 .. (m + n) /\ i <= m
      OBVIOUS
    <3> QED BY <2>1, <3>1
  <2>4. f \o g \in Seq(S)
    <3> HIDE DEF S
    <3> QED BY <1>1, <1>2, ConcatProperties
  <2> QED
    BY <2>1, <2>2, <2>3, <2>4
<1>4. IsSequence(f \o g) /\ DOMAIN (f \o g) = 1 .. (m + n)
  BY <1>3 DEF IsSequence
<1> QED
  BY <1>3, <1>4

(* The greatest of a set is the greatest. *)
LEMMA GreatestIs ==
  ASSUME NEW I \in SUBSET Int, NEW i \in I, \A j \in I : j <= i
  PROVE  Max(I) = i
<1>1. \E x \in I : \A j \in I : x >= j
  OBVIOUS
<1>2. Max(I) \in I /\ \A j \in I : Max(I) >= j
  BY <1>1 DEF Max
<1>3. Max(I) \in Int /\ i \in Int /\ Max(I) >= i /\ Max(I) <= i
  BY <1>2
<1> QED
  BY <1>3

LEMMA AppendedOne ==
  ASSUME NEW n \in Nat, NEW f, NEW e, f = [i \in 1 .. n |-> f[i]]
  PROVE  /\ IsSequence(f \o <<e>>) /\ Len(f \o <<e>>) = n + 1
         /\ DOMAIN (f \o <<e>>) = 1 .. (n + 1)
         /\ \A i \in 1 .. n : (f \o <<e>>)[i] = f[i]
         /\ (f \o <<e>>)[n + 1] = e
<1> DEFINE S == {f[i] : i \in 1 .. n} \cup {e}
<1>1. f \in Seq(S) /\ Len(f) = n
  <2>1. f \in [1 .. n -> S]
    OBVIOUS
  <2> HIDE DEF S
  <2> QED BY <2>1
<1>2. <<e>> \in Seq(S) /\ Len(<<e>>) = 1 /\ <<e>>[1] = e
  OBVIOUS
<1> HIDE DEF S
<1>3. /\ f \o <<e>> \in Seq(S) /\ Len(f \o <<e>>) = n + 1
      /\ \A i \in 1 .. (n + 1) :
           (f \o <<e>>)[i] = IF i <= n THEN f[i] ELSE <<e>>[i - n]
  BY <1>1, <1>2, ConcatProperties
<1>4. IsSequence(f \o <<e>>) /\ DOMAIN (f \o <<e>>) = 1 .. (n + 1)
  BY <1>3 DEF IsSequence
<1>5. n + 1 \in 1 .. (n + 1) /\ ~(n + 1 <= n) /\ (n + 1) - n = 1
  OBVIOUS
<1>6. (f \o <<e>>)[n + 1] = e
  BY <1>2, <1>3, <1>5
<1>7. ASSUME NEW i \in 1 .. n PROVE (f \o <<e>>)[i] = f[i]
  <2>1. i \in 1 .. (n + 1) /\ i <= n
    OBVIOUS
  <2> QED BY <1>3, <2>1
<1> QED
  BY <1>3, <1>4, <1>6, <1>7

(* A set of indices has a last one: of the sets of what comes after an      *)
(* index of it, one is contained in no other.                               *)
LEMMA LastIndex ==
  ASSUME NEW n \in Nat, NEW I \in SUBSET (1 .. n), I # {}
  PROVE  Max(I) \in I /\ \A i \in I : i <= Max(I)
<1> DEFINE After(i) == {j \in 1 .. n : j > i}
           T == {After(i) : i \in I}
<1>1. IsFiniteSet(1 .. n)
  BY FS_Interval
<1>2. T \subseteq FiniteSubsetsOf(1 .. n) /\ T # {}
  <2>1. \A i \in I : IsFiniteSet(After(i))
    BY <1>1, FS_Subset
  <2> QED
    BY <2>1 DEF FiniteSubsetsOf
<1>3. \E x \in T : \A y \in T : <<y, x>> \notin StrictSubsetOrdering(1 .. n)
  <2> HIDE DEF T
  <2>1. IsWellFoundedOn(StrictSubsetOrdering(1 .. n), FiniteSubsetsOf(1 .. n))
    BY FS_StrictSubsetOrderingWellFounded
  <2> QED
    BY <1>2, <2>1, WFMin
<1>4. PICK i \in I : \A j \in I : <<After(j), After(i)>> \notin StrictSubsetOrdering(1 .. n)
  BY <1>3
<1>5. \A j \in I : j <= i
  <2> SUFFICES ASSUME NEW j \in I, j > i PROVE FALSE
    OBVIOUS
  <2>1. After(j) \subseteq After(i) /\ j \in After(i) /\ j \notin After(j)
    OBVIOUS
  <2>2. <<After(j), After(i)>> \in StrictSubsetOrdering(1 .. n)
    BY <2>1 DEF StrictSubsetOrdering
  <2> QED
    BY <1>4, <2>2
<1>6. Max(I) = i
  BY <1>5, GreatestIs
<1> QED
  BY <1>5, <1>6

LEMMA OnlyIs ==
  ASSUME NEW i
  PROVE  i \in Int => Max({i}) = i /\ Min({i}) = i
BY DEF Max, Min

(* An order comes to everything it orders, once. *)
LEMMA OrderComplete ==
  ASSUME NEW S \in SUBSET Lead, NEW order \in Orders(S)
  PROVE  /\ IsSequence(order)
         /\ \A i \in DOMAIN order : order[i] \in S
         /\ \A i, j \in DOMAIN order : order[i] = order[j] => i = j
         /\ \A l \in S : \E i \in DOMAIN order : order[i] = l
<1> DEFINE n == Cardinality(S)
<1>1. IsFiniteSet(S)
  BY SchemaAssumption, FS_Subset
<1>2. n \in Nat
  BY <1>1, FS_CardinalityType
<1>3. order \in [1 .. n -> S] /\ \A i, j \in DOMAIN order : order[i] = order[j] => i = j
  BY DEF Orders
<1>4. order \in Injection(1 .. n, S)
  BY <1>3 DEF Injection, IsInjective
<1>5. Cardinality(1 .. n) = n
  BY <1>2, FS_Interval
<1>6. order \in Surjection(1 .. n, S)
  <2> HIDE DEF n
  <2>1. /\ IsFiniteSet(1 .. n)
        /\ Cardinality(1 .. n) = Cardinality(S) <=> order \in Surjection(1 .. n, S)
    BY <1>1, <1>4, FS_Injection
  <2> QED BY <1>5, <2>1 DEF n
<1>7. \A l \in S : \E i \in 1 .. n : order[i] = l
  BY <1>6 DEF Surjection
<1>8. IsSequence(order)
  <2>1. order \in Seq(S) /\ Len(order) = n
    BY <1>2, <1>3
  <2> QED BY <1>2, <1>3, <2>1 DEF IsSequence
<1> QED
  BY <1>3, <1>7, <1>8

-----------------------------------------------------------------------------
(* What a commit does to one row and to one entry. *)

LEMMA ColumnsOf ==
  /\ DOMAIN Blank = {"exists", "deleted", "ident", "values", "stage", "reason",
                     "assignee", "rating", "score"}
  /\ Columns \subseteq DOMAIN Blank /\ Columns \cap Field = {}
  /\ \A row : \A x \in Columns : Get(row, x) = row[x]
  /\ \A row : \A x \in Field : Get(row, x) = row.values[x]
<1>1. DOMAIN Blank = {"exists", "deleted", "ident", "values", "stage", "reason",
                      "assignee", "rating", "score"}
  BY DEF Blank
<1>2. Columns \cap Field = {}
  BY SchemaAssumption DEF Columns
<1> QED
  BY <1>1, <1>2 DEF Columns, Get

(* A flush writes back what changed: a column, or all fields at once.       *)
LEMMA FlushOf ==
  ASSUME NEW stored, NEW read, NEW write
  PROVE  LET row == Flush(stored, read, write)
         IN /\ DOMAIN row = DOMAIN Blank
            /\ \A c \in DOMAIN Blank :
                 row[c] = IF write[c] = read[c] THEN stored[c] ELSE write[c]
            /\ \A x \in Columns :
                 Get(row, x) = IF Get(write, x) = Get(read, x) THEN Get(stored, x)
                               ELSE Get(write, x)
            /\ read = stored => \A x \in Target : Get(row, x) = Get(write, x)
<1> DEFINE row == Flush(stored, read, write)
<1>1. /\ DOMAIN row = DOMAIN Blank
      /\ \A c \in DOMAIN Blank :
           row[c] = IF write[c] = read[c] THEN stored[c] ELSE write[c]
  BY DEF Flush, Column
<1> HIDE DEF row
<1>2. \A x \in Columns :
        Get(row, x) = IF Get(write, x) = Get(read, x) THEN Get(stored, x)
                      ELSE Get(write, x)
  BY <1>1, ColumnsOf
<1>3. ASSUME read = stored, NEW x \in Target PROVE Get(row, x) = Get(write, x)
  <2>1. CASE x \in Columns
    BY <1>2, <1>3, <2>1
  <2>2. CASE x \in Field
    <3>1. row["values"] = write["values"]
      BY <1>1, <1>3, ColumnsOf
    <3> QED BY <2>2, <3>1, ColumnsOf
  <2> QED BY <2>1, <2>2 DEF Target
<1> QED
  BY <1>1, <1>2, <1>3 DEF row

(* A merge changes the lead of entries, and nothing else of them.           *)
LEMMA MovedOf ==
  ASSUME IsSequence(timeline), NEW moved,
         \A i \in DOMAIN timeline :
           DOMAIN timeline[i] = {"cs", "lead", "from", "to", "score"}
  PROVE  LET s == Moved(timeline, moved)
         IN /\ s = [i \in 1 .. Len(timeline) |-> s[i]]
            /\ \A i \in 1 .. Len(timeline) :
                 /\ DOMAIN s[i] = {"cs", "lead", "from", "to", "score"}
                 /\ s[i].cs = timeline[i].cs /\ s[i].score = timeline[i].score
                 /\ s[i].from = timeline[i].from /\ s[i].to = timeline[i].to
                 /\ \/ /\ s[i].lead = timeline[i].lead
                       /\ \A m \in moved : m.from = timeline[i].lead => ~(i <= m.upto)
                    \/ \E m \in moved : m.from = timeline[i].lead /\ s[i].lead = m.to
<1> DEFINE s == Moved(timeline, moved)
<1>1. Len(timeline) \in Nat /\ DOMAIN timeline = 1 .. Len(timeline)
  BY DEF IsSequence
<1>2. s = [i \in 1 .. Len(timeline) |-> s[i]]
  BY <1>1 DEF Moved
<1>3. ASSUME NEW i \in 1 .. Len(timeline)
      PROVE  /\ DOMAIN s[i] = {"cs", "lead", "from", "to", "score"}
             /\ s[i].cs = timeline[i].cs /\ s[i].score = timeline[i].score
             /\ s[i].from = timeline[i].from /\ s[i].to = timeline[i].to
             /\ \/ /\ s[i].lead = timeline[i].lead
                   /\ \A m \in moved : m.from = timeline[i].lead => ~(i <= m.upto)
                \/ \E m \in moved : m.from = timeline[i].lead /\ s[i].lead = m.to
  <2> DEFINE M == {m \in moved : m.from = timeline[i].lead /\ i <= m.upto}
  <2>1. s[i] = [timeline[i] EXCEPT !.lead =
                  IF M = {} THEN timeline[i].lead ELSE (CHOOSE m \in M : TRUE).to]
    BY <1>1 DEF Moved
  <2>2. DOMAIN timeline[i] = {"cs", "lead", "from", "to", "score"}
    BY <1>1
  <2>3. CASE M = {}
    BY <2>1, <2>2, <2>3
  <2>4. CASE M # {}
    <3>1. PICK m \in M : m = CHOOSE n \in M : TRUE
      BY <2>4
    <3> QED BY <2>1, <2>2, <2>4, <3>1
  <2> QED BY <2>3, <2>4
<1> QED
  BY <1>2, <1>3

-----------------------------------------------------------------------------
(* What a request stages. *)

LEMMA EditedIs ==
  ASSUME NEW l, NEW old, NEW new
  PROVE  LET e == Edited(l, old, new)
         IN /\ e.lead = l
            /\ DOMAIN e.to = {x \in Target : Get(old, x) # Get(new, x)}
            /\ DOMAIN e.from = DOMAIN e.to
            /\ \A x \in DOMAIN e.to : /\ e.from[x] = Get(old, x)
                                      /\ e.to[x] = Get(new, x)
BY DEF Edited, Entry, At

(* An edit of existing leads, one entry for each it changes, is sound.      *)
LEMMA BatchSound ==
  ASSUME RowsInv, TimelineInv, NEW S \in SUBSET Lead, NEW new, DOMAIN new = S,
         \A l \in S : /\ Live(l) /\ new[l].exists = TRUE
                      /\ new[l].deleted \in BOOLEAN,
         NEW order \in Orders(Changed(S, new))
  PROVE  Sound(Batch(S, new, order))
<1> DEFINE es == [i \in DOMAIN order |-> Edited(order[i], lead[order[i]], new[order[i]])]
           t == Batch(S, new, order)
<1>1. /\ t.opens = TRUE /\ t.undoes = 0 /\ t.moved = {}
      /\ t.entries = es /\ t.write = new /\ t.read = [l \in S |-> lead[l]]
  <2>1. t = Staged(S, new, es)
    BY DEF Batch
  <2> QED BY <2>1 DEF Staged, NoTxn
<1>2. Changed(S, new) \in SUBSET Lead /\ Changed(S, new) \subseteq S
  BY DEF Changed
<1>3. /\ IsSequence(order) /\ DOMAIN order = 1 .. Len(order) /\ Len(order) \in Nat
      /\ \A i \in DOMAIN order : order[i] \in Changed(S, new)
      /\ \A i, j \in DOMAIN order : order[i] = order[j] => i = j
      /\ \A l \in Changed(S, new) : \E i \in DOMAIN order : order[i] = l
  BY <1>2, OrderComplete DEF IsSequence
<1>4. \A i \in DOMAIN order :
        LET l == order[i]  e == es[i]
        IN /\ e.lead = l
           /\ DOMAIN e.to = {x \in Target : Get(lead[l], x) # Get(new[l], x)}
           /\ DOMAIN e.from = DOMAIN e.to
           /\ \A x \in DOMAIN e.to : /\ e.from[x] = Get(lead[l], x)
                                     /\ e.to[x] = Get(new[l], x)
  BY EditedIs
<1>5. IsSequence(es) /\ DOMAIN es = DOMAIN order
  BY <1>3 DEF IsSequence
<1> HIDE DEF es, t
<1>6. Recording(t)
  <2>1. ASSUME NEW k \in DOMAIN es
        PROVE  /\ es[k].lead \in S
               /\ DOMAIN es[k].from = DOMAIN es[k].to /\ DOMAIN es[k].to \subseteq Target
               /\ \A x \in DOMAIN es[k].to :
                    /\ es[k].from[x] = Get(t.read[es[k].lead], x)
                    /\ es[k].to[x] = Get(t.write[es[k].lead], x)
                    /\ es[k].from[x] # es[k].to[x]
    BY <1>1, <1>2, <1>3, <1>4, <1>5
  <2>2. \A j, k \in DOMAIN es : es[j].lead = es[k].lead => j = k
    BY <1>3, <1>4, <1>5
  <2>3. ASSUME NEW l \in S, NEW x \in Target, Get(t.read[l], x) # Get(t.write[l], x)
        PROVE  \E k \in DOMAIN es : es[k].lead = l /\ x \in DOMAIN es[k].to
    <3>1. l \in Changed(S, new) /\ Get(lead[l], x) # Get(new[l], x)
      BY <1>1, <2>3 DEF Changed
    <3> QED BY <1>3, <1>4, <1>5, <3>1
  <2> QED
    BY <1>1, <1>5, <2>1, <2>2, <2>3 DEF Recording
<1>7. Len(changesets) \in Nat
  BY DEF TimelineInv, IsSequence
<1>8. \A l \in S : /\ new[l].exists = TRUE /\ new[l].deleted \in BOOLEAN
                    /\ t.read[l].exists = lead[l].exists /\ t.read[l].deleted = FALSE
  BY <1>1 DEF RowsInv, Live
<1>9. DOMAIN t.read = S /\ DOMAIN t.write = S
  BY <1>1
<1>10. Sound(t)
  <2>1. 0 \in 0 .. Len(changesets)
    BY <1>7
  <2>2. \A m \in t.moved : FALSE
    BY <1>1
  <2>3. t.opens \in BOOLEAN /\ (~t.opens => t.entries = <<>> /\ t.undoes = 0)
    BY <1>1
  <2> QED BY <1>1, <1>6, <1>8, <1>9, <2>1, <2>2, <2>3 DEF Sound
<1> QED
  BY <1>10 DEF t

(* What every request stages: entries that tell its changes, rows no other  *)
(* request is creating, and what it read as it is.                          *)
Ready(r, t) ==
  /\ Sound(t) /\ Current(t) /\ Reasoned(t) /\ Undoing(t)
  /\ \A q \in Request \ {r} :
       \A l \in DOMAIN t.write \cap DOMAIN txn[q].write : lead[l].exists

(* An edit that moves the stage moves the lost reason with it. *)
ReasonKept(old, new) ==
  /\ old.stage = new.stage => old.reason = new.reason
  /\ old.stage # new.stage => (new.reason # None <=> new.stage \in LostStage)

(* Only these columns of a staged transaction matter. *)
LEMMA SameReady ==
  ASSUME NEW r \in Request, NEW s, NEW t, Ready(r, s),
         t.read = s.read, t.write = s.write, t.entries = s.entries,
         t.opens = s.opens, t.undoes = s.undoes, t.moved = s.moved, t.undoes = 0
  PROVE  Ready(r, t)
<1>1. Sound(t)
  BY DEF Ready, Sound, Recording
<1>2. Current(t) /\ Reasoned(t) /\ Undoing(t)
  BY DEF Ready, Current, Reasoned, Undoing
<1> QED
  BY <1>1, <1>2 DEF Ready

LEMMA BatchReady ==
  ASSUME RowsInv, TimelineInv, NEW r \in Request,
         NEW S \in SUBSET Lead, NEW new, DOMAIN new = S,
         \A l \in S : /\ Live(l) /\ new[l].exists = TRUE
                      /\ new[l].deleted \in BOOLEAN /\ ReasonKept(lead[l], new[l]),
         NEW order \in Orders(Changed(S, new))
  PROVE  Ready(r, Batch(S, new, order))
<1> DEFINE t == Batch(S, new, order)
<1>1. Sound(t)
  BY BatchSound
<1>2. /\ t.undoes = 0 /\ t.moved = {} /\ t.write = new /\ t.read = [l \in S |-> lead[l]]
  BY DEF Batch, Staged, NoTxn
<1> HIDE DEF t
<1>3. Current(t) /\ Undoing(t)
  BY <1>2 DEF Current, Undoing
<1>4. Reasoned(t)
  BY <1>2 DEF Reasoned, ReasonKept, Live
<1>5. Ready(r, t)
  BY <1>1, <1>2, <1>3, <1>4 DEF Ready, Live
<1> QED
  BY <1>5 DEF t

LEMMA ValuesPatchedIs ==
  ASSUME NEW row, DOMAIN row = DOMAIN Blank, NEW p
  PROVE  LET new == ValuesPatched(row, p)
         IN /\ DOMAIN new = DOMAIN Blank
            /\ new.exists = row.exists /\ new.deleted = row.deleted
            /\ new.stage = row.stage /\ new.reason = row.reason
BY ColumnsOf DEF ValuesPatched

LEMMA PatchedIs ==
  ASSUME NEW row, DOMAIN row = DOMAIN Blank, NEW p
  PROVE  LET new == Patched(row, p)
         IN /\ new.exists = row.exists /\ new.deleted = row.deleted
            /\ ~StageRefused(row, p) => ReasonKept(row, new)
<1> DEFINE mid == ValuesPatched(row, p)
           new == Patched(row, p)
<1>1. /\ DOMAIN mid = DOMAIN Blank
      /\ mid.exists = row.exists /\ mid.deleted = row.deleted
      /\ mid.stage = row.stage /\ mid.reason = row.reason
  BY ValuesPatchedIs
<1>2. /\ new.exists = mid.exists /\ new.deleted = mid.deleted
      /\ new.stage = IF StageMoves(row, p) THEN p["stage"] ELSE mid.stage
      /\ new.reason = IF StageMoves(row, p) THEN ReasonFor(p) ELSE mid.reason
  <2> HIDE DEF mid
  <2> QED BY <1>1, ColumnsOf DEF Patched, mid
<1>3. ~StageRefused(row, p) => ReasonKept(row, new)
  <2> HIDE DEF new, mid
  <2>1. CASE ~StageMoves(row, p)
    BY <1>1, <1>2, <2>1 DEF ReasonKept
  <2>2. CASE StageMoves(row, p)
    <3>1. p["stage"] # row.stage
      BY <2>2 DEF StageMoves
    <3>2. ~StageRefused(row, p) /\ p["stage"] \in LostStage => ReasonFor(p) # None
      BY <2>2 DEF StageRefused
    <3>3. p["stage"] \notin LostStage => ReasonFor(p) = None
      BY DEF ReasonFor
    <3> QED BY <1>2, <2>2, <3>1, <3>2, <3>3 DEF ReasonKept
  <2> QED BY <2>1, <2>2
<1> QED
  BY <1>1, <1>2, <1>3

LEMMA UpdateReady ==
  ASSUME RowsInv, TimelineInv, NEW r \in Request, NEW S \in SUBSET Lead, NEW p,
         BeginUpdate(r, S, p)
  PROVE  \E t : Ready(r, t) /\ Begin(r, t)
<1>1. PICK new : new = [l \in S |-> Patched(lead[l], p)]
  OBVIOUS
<1>2. PICK order \in Orders(Changed(S, new)) : Begin(r, Batch(S, new, order))
  BY <1>1 DEF BeginUpdate
<1>3. ASSUME NEW l \in S
      PROVE  /\ Live(l) /\ new[l].exists = TRUE
             /\ new[l].deleted \in BOOLEAN /\ ReasonKept(lead[l], new[l])
  <2>1. Live(l) /\ ~StageRefused(lead[l], p)
    BY DEF BeginUpdate, Accepted
  <2>2. /\ DOMAIN lead[l] = DOMAIN Blank
        /\ lead[l].exists \in BOOLEAN /\ lead[l].deleted \in BOOLEAN
    BY DEF RowsInv
  <2>3. new[l] = Patched(lead[l], p)
    BY <1>1
  <2> QED BY <2>1, <2>2, <2>3, PatchedIs DEF Live
<1>4. DOMAIN new = S
  BY <1>1
<1>5. Ready(r, Batch(S, new, order))
  BY <1>2, <1>3, <1>4, BatchReady
<1> QED
  BY <1>2, <1>5

LEMMA IntakeReady ==
  ASSUME RowsInv, TimelineInv, NEW r \in Request, NEW l \in Lead, NEW p,
         BeginIntake(r, l, p)
  PROVE  \E t : Ready(r, t) /\ Begin(r, t)
<1> DEFINE refused == StageRefused(lead[l], p)
           row == IF refused THEN ValuesPatched(lead[l], p) ELSE Patched(lead[l], p)
<1>1. PICK new : new = [k \in {l} |-> row]
  OBVIOUS
<1>2. PICK order \in Orders(Changed({l}, new)) :
        Begin(r, [Batch({l}, new, order) EXCEPT !.rejected = refused])
  BY <1>1 DEF BeginIntake
<1>3. Live(l) /\ lead[l].exists = TRUE /\ lead[l].deleted \in BOOLEAN /\ DOMAIN lead[l] = DOMAIN Blank
  BY DEF BeginIntake, RowsInv, Live
<1>4. row.exists = TRUE /\ row.deleted \in BOOLEAN /\ ReasonKept(lead[l], row)
  <2>1. CASE refused
    <3>1. /\ ValuesPatched(lead[l], p).exists = lead[l].exists
          /\ ValuesPatched(lead[l], p).deleted = lead[l].deleted
          /\ ReasonKept(lead[l], ValuesPatched(lead[l], p))
      BY <1>3, ValuesPatchedIs DEF ReasonKept
    <3> QED BY <1>3, <2>1, <3>1
  <2>2. CASE ~refused
    BY <1>3, <2>2, PatchedIs
  <2> QED BY <2>1, <2>2
<1> HIDE DEF row, refused
<1>5. PICK S \in SUBSET Lead : S = {l}
  OBVIOUS
<1>6. PICK s : s = Batch(S, new, order)
  OBVIOUS
<1>7. Ready(r, s)
  <2>1. DOMAIN new = S /\ order \in Orders(Changed(S, new))
    BY <1>1, <1>2, <1>5
  <2>2. \A k \in S : /\ Live(k) /\ new[k].exists = TRUE
                     /\ new[k].deleted \in BOOLEAN /\ ReasonKept(lead[k], new[k])
    BY <1>1, <1>3, <1>4, <1>5
  <2> QED BY <1>6, <2>1, <2>2, BatchReady
<1>8. PICK t : t = [s EXCEPT !.rejected = refused]
  OBVIOUS
<1>9. /\ DOMAIN s = {"open", "read", "write", "entries", "opens", "undoes",
                     "viewers", "rejected", "moved", "since"}
      /\ s.undoes = 0
  BY <1>6 DEF Batch, Staged, NoTxn
<1>10. Ready(r, t)
  <2>1. /\ t.read = s.read /\ t.write = s.write /\ t.entries = s.entries
        /\ t.opens = s.opens /\ t.undoes = s.undoes /\ t.moved = s.moved /\ t.undoes = 0
    BY <1>8, <1>9
  <2> QED BY <1>7, <2>1, SameReady
<1> QED
  BY <1>2, <1>5, <1>6, <1>8, <1>10

LEMMA ReassignReady ==
  ASSUME RowsInv, TimelineInv, NEW r \in Request, NEW leaver, NEW successor,
         BeginReassign(r, leaver, successor)
  PROVE  \E t : Ready(r, t) /\ Begin(r, t)
<1>1. PICK S \in SUBSET Lead : S = OpenLeadsOf(leaver)
  BY DEF OpenLeadsOf
<1>2. PICK new : new = [l \in S |-> [lead[l] EXCEPT !.assignee = successor]]
  OBVIOUS
<1>3. PICK order \in Orders(Changed(S, new)) : Begin(r, Batch(S, new, order))
  BY <1>1, <1>2 DEF BeginReassign
<1>4. ASSUME NEW l \in S
      PROVE  /\ Live(l) /\ new[l].exists = TRUE
             /\ new[l].deleted \in BOOLEAN /\ ReasonKept(lead[l], new[l])
  <2>1. Live(l)
    BY <1>1 DEF OpenLeadsOf
  <2>2. /\ DOMAIN lead[l] = DOMAIN Blank
        /\ lead[l].exists \in BOOLEAN /\ lead[l].deleted \in BOOLEAN
    BY DEF RowsInv
  <2>3. /\ new[l].exists = lead[l].exists /\ new[l].deleted = lead[l].deleted
        /\ new[l].stage = lead[l].stage /\ new[l].reason = lead[l].reason
    BY <1>2, <2>2, ColumnsOf
  <2> QED BY <2>1, <2>2, <2>3 DEF Live, ReasonKept
<1>5. DOMAIN new = S
  BY <1>2
<1>6. Ready(r, Batch(S, new, order))
  BY <1>3, <1>4, <1>5, BatchReady
<1> QED
  BY <1>3, <1>6

LEMMA MergeReady ==
  ASSUME RowsInv, TimelineInv, NEW r \in Request,
         NEW primary \in Lead, NEW other \in Lead, BeginMerge(r, primary, other)
  PROVE  \E t : Ready(r, t) /\ Begin(r, t)
<1>1. PICK filled : filled =
        [lead[primary] EXCEPT
           !.values = [f \in Field |-> IF @[f] = None THEN lead[other].values[f]
                                       ELSE @[f]],
           !.score = @ + lead[other].score]
  OBVIOUS
<1>2. PICK gone : gone = [lead[other] EXCEPT !.deleted = TRUE]
  OBVIOUS
<1>3. PICK S \in SUBSET Lead : S = {primary, other}
  OBVIOUS
<1>4. PICK new : new = [l \in S |-> IF l = primary THEN filled ELSE gone]
  OBVIOUS
<1>5. PICK moved : moved = {[from |-> other, to |-> primary, upto |-> Len(timeline)]}
  OBVIOUS
<1>6. PICK order \in Orders(Changed(S, new)) :
        Begin(r, [Batch(S, new, order) EXCEPT !.moved = moved])
  BY <1>1, <1>2, <1>3, <1>4, <1>5 DEF BeginMerge
<1>7. Live(primary) /\ Live(other) /\ primary # other
  BY DEF BeginMerge
<1>8. \A l \in S : /\ DOMAIN lead[l] = DOMAIN Blank /\ lead[l].exists = TRUE
                   /\ lead[l].deleted \in BOOLEAN
  BY <1>3, <1>7 DEF RowsInv, Live
<1>9. /\ filled.exists = TRUE /\ filled.deleted \in BOOLEAN
      /\ filled.stage = lead[primary].stage /\ filled.reason = lead[primary].reason
  BY <1>1, <1>3, <1>8, ColumnsOf
<1>10. /\ gone.exists = TRUE /\ gone.deleted = TRUE
       /\ gone.stage = lead[other].stage /\ gone.reason = lead[other].reason
  BY <1>2, <1>3, <1>8, ColumnsOf
<1>11. \A l \in S : /\ Live(l) /\ new[l].exists = TRUE
                    /\ new[l].deleted \in BOOLEAN /\ ReasonKept(lead[l], new[l])
  BY <1>3, <1>4, <1>7, <1>9, <1>10 DEF ReasonKept
<1>12. PICK s : s = Batch(S, new, order)
  OBVIOUS
<1>13. Ready(r, s)
  BY <1>4, <1>6, <1>11, <1>12, BatchReady
<1>14. PICK t : t = [s EXCEPT !.moved = moved]
  OBVIOUS
<1>15. /\ DOMAIN s = {"open", "read", "write", "entries", "opens", "undoes",
                      "viewers", "rejected", "moved", "since"}
       /\ s.undoes = 0 /\ s.write = new
  BY <1>12 DEF Batch, Staged, NoTxn
<1>16. /\ t.read = s.read /\ t.write = s.write /\ t.entries = s.entries
       /\ t.opens = s.opens /\ t.undoes = s.undoes /\ t.moved = moved
  BY <1>14, <1>15
<1>17. Recording(t)
  BY <1>13, <1>16 DEF Ready, Sound, Recording
<1>18. Sound(t)
  <2>1. ASSUME NEW m \in t.moved
        PROVE  /\ m.from \in DOMAIN t.write /\ lead[m.from].exists
               /\ m.to \in DOMAIN t.write /\ lead[m.to].exists
               /\ t.write[m.from].deleted = TRUE
    <3>1. m.from = other /\ m.to = primary
      BY <1>5, <1>16
    <3> QED BY <1>3, <1>4, <1>7, <1>8, <1>10, <1>15, <1>16, <3>1
  <2> QED BY <1>13, <1>16, <1>17, <2>1, ZenonT(30) DEF Ready, Sound
<1>19. Current(t)
  <2>1. \A m \in t.moved : m.upto = Len(timeline)
    BY <1>5, <1>16
  <2> QED BY <1>13, <1>16, <2>1 DEF Ready, Current
<1>len. Reasoned(t) /\ Undoing(t)
  BY <1>13, <1>15, <1>16 DEF Ready, Reasoned, Undoing
<1>21. Ready(r, t)
  BY <1>13, <1>16, <1>18, <1>19, <1>len DEF Ready
<1> QED
  BY <1>6, <1>12, <1>14, <1>21

(* A transaction about one lead that touches no target of it. *)
Plain(entries, l) ==
  /\ IsSequence(entries)
  /\ \A k \in DOMAIN entries :
       /\ entries[k].lead = l /\ k = 1
       /\ DOMAIN entries[k].from = {} /\ DOMAIN entries[k].to = {}

LEMMA PlainReady ==
  ASSUME RowsInv, TimelineInv, NEW r \in Request, NEW l \in Lead, Live(l),
         NEW row, row.exists = TRUE, row.deleted \in BOOLEAN,
         row.stage = lead[l].stage, row.reason = lead[l].reason,
         \A x \in Target : Get(row, x) = Get(lead[l], x),
         NEW t, t.write = [k \in {l} |-> row], t.read = [k \in {l} |-> lead[l]],
         t.moved = {}, t.undoes = 0, t.opens \in BOOLEAN,
         ~t.opens => t.entries = <<>>, Plain(t.entries, l)
  PROVE  Ready(r, t)
<1>1. /\ DOMAIN t.write = {l} /\ DOMAIN t.read = {l}
      /\ t.write[l] = row /\ t.read[l] = lead[l]
  OBVIOUS
<1>2. Recording(t)
  <2>1. \A k \in DOMAIN t.entries :
          /\ t.entries[k].lead \in DOMAIN t.write
          /\ DOMAIN t.entries[k].from = DOMAIN t.entries[k].to
          /\ DOMAIN t.entries[k].to \subseteq Target
          /\ \A x \in DOMAIN t.entries[k].to : FALSE
    BY <1>1 DEF Plain
  <2>2. \A j, k \in DOMAIN t.entries : j = k
    BY DEF Plain
  <2>3. \A k \in DOMAIN t.write, x \in Target : Get(t.read[k], x) = Get(t.write[k], x)
    BY <1>1
  <2> QED BY <2>1, <2>2, <2>3 DEF Recording, Plain
<1>3. Len(changesets) \in Nat
  BY DEF TimelineInv, IsSequence
<1>4. lead[l].exists = TRUE /\ lead[l].deleted = FALSE
  BY DEF RowsInv, Live
<1>5. Sound(t)
  BY <1>1, <1>2, <1>3, <1>4 DEF Sound
<1>6. Current(t) /\ Undoing(t)
  BY <1>1 DEF Current, Undoing
<1>7. Reasoned(t)
  BY <1>1, <1>4 DEF Reasoned
<1> QED
  BY <1>1, <1>4, <1>5, <1>6, <1>7 DEF Ready

LEMMA DeleteReady ==
  ASSUME RowsInv, TimelineInv, NEW r \in Request, NEW l \in Lead, BeginDelete(r, l)
  PROVE  \E t : Ready(r, t) /\ Begin(r, t)
<1>1. PICK row : row = [lead[l] EXCEPT !.deleted = TRUE]
  OBVIOUS
<1>2. PICK t : t = [Staged({l}, [k \in {l} |-> row], <<>>) EXCEPT !.opens = FALSE]
  OBVIOUS
<1>3. Live(l) /\ Begin(r, t)
  BY <1>1, <1>2 DEF BeginDelete
<1>4. DOMAIN lead[l] = DOMAIN Blank /\ lead[l].exists = TRUE
  BY <1>3 DEF RowsInv, Live
<1>5. /\ row.exists = TRUE /\ row.deleted = TRUE /\ row.values = lead[l].values
      /\ \A c \in DOMAIN Blank \ {"deleted"} : row[c] = lead[l][c]
  BY <1>1, <1>4, ColumnsOf
<1>6. /\ row.stage = lead[l].stage /\ row.reason = lead[l].reason
      /\ \A x \in Columns : row[x] = lead[l][x]
  BY <1>5, ColumnsOf DEF Columns
<1>7. \A x \in Target : Get(row, x) = Get(lead[l], x)
  BY <1>5, <1>6, ColumnsOf DEF Target
<1>8. /\ t.write = [k \in {l} |-> row] /\ t.read = [k \in {l} |-> lead[l]]
      /\ t.moved = {} /\ t.undoes = 0 /\ t.opens = FALSE /\ t.entries = <<>>
  BY <1>2 DEF Staged, NoTxn
<1>9. Plain(t.entries, l)
  BY <1>8 DEF Plain, IsSequence
<1>10. Ready(r, t)
  BY <1>3, <1>5, <1>6, <1>7, <1>8, <1>9, PlainReady
<1> QED
  BY <1>3, <1>10

LEMMA LogReady ==
  ASSUME RowsInv, TimelineInv, NEW r \in Request, NEW l \in Lead, NEW score,
         BeginLog(r, l, score)
  PROVE  \E t : Ready(r, t) /\ Begin(r, t)
<1>1. PICK row : row = [lead[l] EXCEPT !.score = @ + score]
  OBVIOUS
<1>2. PICK from : from = At(row, {})
  OBVIOUS
<1>3. PICK e : e = Entry(l, from, from, score)
  OBVIOUS
<1>4. PICK t : t = Staged({l}, [k \in {l} |-> row], <<e>>)
  OBVIOUS
<1>5. Live(l) /\ Begin(r, t)
  BY <1>1, <1>2, <1>3, <1>4 DEF BeginLog
<1>6. /\ DOMAIN lead[l] = DOMAIN Blank /\ lead[l].exists = TRUE
      /\ lead[l].deleted \in BOOLEAN
  BY <1>5 DEF RowsInv, Live
<1>7. \A c \in DOMAIN Blank \ {"score"} : row[c] = lead[l][c]
  BY <1>1, <1>6, ColumnsOf
<1>8. /\ row.exists = TRUE /\ row.deleted \in BOOLEAN /\ row.values = lead[l].values
      /\ row.stage = lead[l].stage /\ row.reason = lead[l].reason
      /\ \A x \in Columns : row[x] = lead[l][x]
  BY <1>6, <1>7, ColumnsOf DEF Columns
<1>9. \A x \in Target : Get(row, x) = Get(lead[l], x)
  BY <1>8, ColumnsOf DEF Target
<1>10. /\ t.write = [k \in {l} |-> row] /\ t.read = [k \in {l} |-> lead[l]]
       /\ t.moved = {} /\ t.undoes = 0 /\ t.opens = TRUE /\ t.entries = <<e>>
  BY <1>4 DEF Staged, NoTxn
<1>11. e.lead = l /\ DOMAIN e.from = {} /\ DOMAIN e.to = {}
  BY <1>2, <1>3 DEF At, Entry
<1>12. IsSequence(t.entries) /\ DOMAIN t.entries = {1} /\ t.entries[1] = e
  BY <1>10 DEF IsSequence
<1>13. Plain(t.entries, l)
  BY <1>10, <1>11, <1>12 DEF Plain
<1>14. t.opens \in BOOLEAN /\ (~t.opens => t.entries = <<>>)
  BY <1>10
<1>15. Ready(r, t)
  BY <1>5, <1>8, <1>9, <1>10, <1>13, <1>14, PlainReady
<1> QED
  BY <1>5, <1>15

LEMMA CreateReady ==
  ASSUME RowsInv, TimelineInv, NEW r \in Request, NEW l \in Lead, NEW p, NEW member,
         BeginCreate(r, l, p, member)
  PROVE  \E t : Ready(r, t) /\ Begin(r, t)
<1>1. PICK row : row =
        [Blank EXCEPT
           !.exists = TRUE,
           !.ident = p[IdentityField],
           !.values = [f \in Field |-> IF f \in DOMAIN p THEN p[f] ELSE None],
           !.stage = IF "stage" \in DOMAIN p THEN p["stage"] ELSE InitialStage,
           !.assignee = member,
           !.rating = IF "rating" \in DOMAIN p THEN p["rating"] ELSE None]
  OBVIOUS
<1>2. PICK e : e = Entry(l, At(Blank, {"assignee"}), At(row, {"assignee"}), 0)
  OBVIOUS
<1>3. PICK entries : entries = IF member = None THEN <<>> ELSE <<e>>
  OBVIOUS
<1>4. PICK t : t = Staged({l}, [k \in {l} |-> row], entries)
  OBVIOUS
<1>5. /\ Begin(r, t) /\ ~lead[l].exists
      /\ \A q \in Request : l \notin DOMAIN txn[q].write
  BY <1>1, <1>2, <1>3, <1>4 DEF BeginCreate
<1>6. lead[l] = Blank /\ lead[l].exists = FALSE
  BY <1>5 DEF RowsInv
<1>7. /\ row.exists = TRUE /\ row.deleted = FALSE /\ row.reason = None
      /\ row["assignee"] = member
  BY <1>1 DEF Blank
<1>8. /\ Blank.deleted = FALSE /\ Blank.reason = None /\ Blank["assignee"] = None
  BY DEF Blank
<1>9. /\ t.write = [k \in {l} |-> row] /\ t.read = [k \in {l} |-> lead[l]]
      /\ t.moved = {} /\ t.undoes = 0 /\ t.opens = TRUE /\ t.entries = entries
  BY <1>4 DEF Staged, NoTxn
<1>10. /\ DOMAIN t.write = {l} /\ DOMAIN t.read = {l}
       /\ t.write[l] = row /\ t.read[l] = Blank
  BY <1>6, <1>9
<1>11. "assignee" \in Columns /\ "assignee" \in Target
  BY DEF Columns, Target
<1>12. /\ e.lead = l /\ DOMAIN e.from = {"assignee"} /\ DOMAIN e.to = {"assignee"}
       /\ e.from["assignee"] = Get(Blank, "assignee")
       /\ e.to["assignee"] = Get(row, "assignee")
  BY <1>2 DEF Entry, At
<1>13. Get(Blank, "assignee") = None /\ Get(row, "assignee") = member
  BY <1>7, <1>8, <1>11, ColumnsOf
<1>14. /\ IsSequence(entries)
       /\ \A k \in DOMAIN entries : k = 1 /\ entries[k] = e /\ member # None
  <2>1. CASE member = None
    BY <1>3, <2>1 DEF IsSequence
  <2>2. CASE member # None
    <3>1. entries = <<e>>
      BY <1>3, <2>2
    <3> QED BY <2>2, <3>1 DEF IsSequence
  <2> QED BY <2>1, <2>2
<1>15. Recording(t)
  <2>1. ASSUME NEW k \in DOMAIN t.entries
        PROVE  LET d == t.entries[k]
               IN /\ d.lead \in DOMAIN t.write
                  /\ DOMAIN d.from = DOMAIN d.to /\ DOMAIN d.to \subseteq Target
                  /\ \A x \in DOMAIN d.to :
                       /\ d.from[x] = Get(t.read[d.lead], x)
                       /\ d.to[x] = Get(t.write[d.lead], x)
                       /\ d.lead \notin merged => d.from[x] # d.to[x]
    <3>1. t.entries[k] = e /\ member # None
      BY <1>9, <1>14
    <3> QED BY <1>10, <1>11, <1>12, <1>13, <3>1
  <2>2. IsSequence(t.entries) /\ \A j, k \in DOMAIN t.entries : j = k
    BY <1>9, <1>14
  <2>3. \A k \in DOMAIN t.write : ~lead[k].exists
    BY <1>5, <1>10
  <2> QED BY <2>1, <2>2, <2>3 DEF Recording
<1>16. Len(changesets) \in Nat
  BY DEF TimelineInv, IsSequence
<1>17. Sound(t)
  <2>1. t.opens \in BOOLEAN /\ (~t.opens => t.entries = <<>> /\ t.undoes = 0)
    BY <1>9
  <2>2. \A m \in t.moved : FALSE
    BY <1>9
  <2>3. t.undoes \in 0 .. Len(changesets)
    BY <1>9, <1>16
  <2>4. \A k \in DOMAIN t.write :
          /\ t.write[k].exists = TRUE /\ t.write[k].deleted \in BOOLEAN
          /\ t.read[k].exists = lead[k].exists /\ t.read[k].deleted = FALSE
    BY <1>6, <1>7, <1>8, <1>10
  <2> QED BY <1>10, <1>15, <2>1, <2>2, <2>3, <2>4 DEF Sound
<1>18. Current(t) /\ Undoing(t)
  BY <1>6, <1>9, <1>10 DEF Current, Undoing
<1>19. Reasoned(t)
  <2>1. t.read[l].exists = FALSE /\ t.read[l].reason = None /\ t.write[l].reason = None
    BY <1>6, <1>7, <1>8, <1>10
  <2>2. \A k \in DOMAIN t.entries : "stage" \notin DOMAIN t.entries[k].to
    BY <1>9, <1>12, <1>14
  <2> QED BY <1>10, <2>1, <2>2 DEF Reasoned
<1>len. Ready(r, t)
  BY <1>5, <1>10, <1>17, <1>18, <1>19 DEF Ready
<1> QED
  BY <1>5, <1>len

(* Undo.  A lead that inherited nothing has one entry about a changeset. *)
LEMMA SoleEntry ==
  ASSUME TimelineInv, NEW c, NEW l \in Lead, l \notin merged, NEW x \in Touched(c, l)
  PROVE  \E i \in EntriesOf(c, l) :
           /\ x \in DOMAIN timeline[i].to /\ i \in DOMAIN timeline
           /\ timeline[i].cs = c /\ timeline[i].lead = l
           /\ RevertTo(c, l, x) = timeline[i].from[x]
           /\ Expected(c, l, x) = timeline[i].to[x]
<1>1. PICK i \in EntriesOf(c, l) : x \in DOMAIN timeline[i].to
  BY DEF Touched
<1>2. i \in DOMAIN timeline /\ timeline[i].cs = c /\ timeline[i].lead = l /\ i \in Int
  BY DEF EntriesOf, TimelineInv, IsSequence
<1>3. \A j \in EntriesOf(c, l) : j = i
  BY <1>2 DEF EntriesOf, TimelineInv
<1>4. About(x, EntriesOf(c, l)) = {i}
  BY <1>1, <1>3 DEF About
<1>5. Max({i}) = i /\ Min({i}) = i
  BY <1>2, OnlyIs
<1> QED
  BY <1>1, <1>2, <1>4, <1>5 DEF RevertTo, Expected

LEMMA RevertedIs ==
  ASSUME NEW row, DOMAIN row = DOMAIN Blank, NEW plan
  PROVE  LET new == Reverted(row, plan)
         IN /\ new.exists = row.exists /\ new.deleted = row.deleted
            /\ new.reason = row.reason
            /\ \A x \in Target :
                 Get(new, x) = IF x \in DOMAIN plan THEN plan[x] ELSE Get(row, x)
<1> DEFINE new == Reverted(row, plan)
<1>1. /\ new.exists = row.exists /\ new.deleted = row.deleted
      /\ new.reason = row.reason
  BY ColumnsOf DEF Reverted
<1>2. \A x \in Field :
        new.values[x] = IF x \in DOMAIN plan THEN plan[x] ELSE row.values[x]
  BY ColumnsOf DEF Reverted
<1>3. /\ new["stage"] = IF "stage" \in DOMAIN plan THEN plan["stage"] ELSE row["stage"]
      /\ new["assignee"] = IF "assignee" \in DOMAIN plan THEN plan["assignee"]
                           ELSE row["assignee"]
      /\ new["rating"] = IF "rating" \in DOMAIN plan THEN plan["rating"] ELSE row["rating"]
  BY ColumnsOf DEF Reverted
<1> HIDE DEF new
<1>4. \A x \in Columns : new[x] = IF x \in DOMAIN plan THEN plan[x] ELSE row[x]
  BY <1>3 DEF Columns
<1>5. \A x \in Target :
        Get(new, x) = IF x \in DOMAIN plan THEN plan[x] ELSE Get(row, x)
  BY <1>2, <1>4, ColumnsOf DEF Target
<1> QED
  BY <1>1, <1>5 DEF new

LEMMA UndoReady ==
  ASSUME RowsInv, TimelineInv, NEW r \in Request, NEW c \in DOMAIN changesets,
         NEW viewers, NEW skip, BeginUndo(r, c, viewers, skip)
  PROVE  \E t : Ready(r, t) /\ Begin(r, t)
<1>1. PICK S \in SUBSET Lead : S = Reversible(c, viewers)
  BY DEF Reversible, Planned
<1>2. PICK new : new = [l \in S |-> Reverted(lead[l], Plan(c, l))]
  OBVIOUS
<1>3. PICK order \in Orders(S) :
        Begin(r, [Staged(S, new, [i \in DOMAIN order |->
                             LET l == order[i]
                             IN Entry(l, At(lead[l], Touched(c, l)), Plan(c, l), 0)])
                    EXCEPT !.undoes = c, !.viewers = viewers])
  BY <1>1, <1>2 DEF BeginUndo
<1>4. PICK es : es = [i \in DOMAIN order |->
                        Entry(order[i], At(lead[order[i]], Touched(c, order[i])),
                              Plan(c, order[i]), 0)]
  OBVIOUS
<1>5. PICK t : t = [Staged(S, new, es) EXCEPT !.undoes = c, !.viewers = viewers]
  OBVIOUS
<1>6. Begin(r, t)
  BY <1>3, <1>4, <1>5
<1>7. /\ t.write = new /\ t.read = [l \in S |-> lead[l]] /\ t.moved = {}
      /\ t.undoes = c /\ t.viewers = viewers /\ t.opens = TRUE /\ t.entries = es
  BY <1>5 DEF Staged, NoTxn
<1>8. /\ DOMAIN t.write = S /\ DOMAIN t.read = S /\ DOMAIN new = S
      /\ \A l \in S : t.read[l] = lead[l] /\ t.write[l] = new[l]
  BY <1>2, <1>7
<1>9. c \in 1 .. Len(changesets) /\ Len(changesets) \in Nat /\ ~changesets[c].undone
  BY DEF TimelineInv, IsSequence, BeginUndo
<1>10. ASSUME NEW l \in S
       PROVE  /\ lead[l].exists = TRUE /\ lead[l].deleted = FALSE
              /\ DOMAIN lead[l] = DOMAIN Blank
              /\ Touched(c, l) \subseteq Target /\ DOMAIN Plan(c, l) = Touched(c, l)
              /\ \A x \in Touched(c, l) : Get(lead[l], x) = Expected(c, l, x)
              /\ l \notin merged =>
                   \A x \in Touched(c, l) : Get(lead[l], x) # Plan(c, l)[x]
  <2>1. l \in Lead /\ Touched(c, l) # {} /\ ~lead[l].deleted /\ ~Conflicted(c, l)
    BY <1>1 DEF Reversible, Planned
  <2>2. \A i \in EntriesOf(c, l) :
          /\ i \in DOMAIN timeline /\ timeline[i].lead = l
          /\ DOMAIN timeline[i].to \subseteq Target
    BY DEF EntriesOf, TimelineInv
  <2>3. lead[l].exists /\ Touched(c, l) \subseteq Target
    BY <2>1, <2>2 DEF Touched, TimelineInv
  <2>4. \A x \in Touched(c, l) : Get(lead[l], x) = Expected(c, l, x)
    BY <2>1 DEF Conflicted
  <2>5. ASSUME l \notin merged, NEW x \in Touched(c, l)
        PROVE  Get(lead[l], x) # Plan(c, l)[x]
    <3>1. PICK i \in EntriesOf(c, l) :
            /\ x \in DOMAIN timeline[i].to /\ i \in DOMAIN timeline
            /\ timeline[i].lead = l
            /\ RevertTo(c, l, x) = timeline[i].from[x]
            /\ Expected(c, l, x) = timeline[i].to[x]
      BY <2>1, <2>5, SoleEntry
    <3>2. timeline[i].from[x] # timeline[i].to[x]
      BY <2>5, <3>1 DEF TimelineInv
    <3>3. Plan(c, l)[x] = RevertTo(c, l, x)
      BY DEF Plan
    <3> QED BY <2>4, <3>1, <3>2, <3>3
  <2>6. /\ lead[l].exists = TRUE /\ lead[l].deleted = FALSE
        /\ DOMAIN lead[l] = DOMAIN Blank
    BY <2>1, <2>3 DEF RowsInv
  <2>7. DOMAIN Plan(c, l) = Touched(c, l)
    BY DEF Plan
  <2> QED BY <2>3, <2>4, <2>5, <2>6, <2>7
<1>11. ASSUME NEW l \in S
       PROVE  /\ new[l].exists = TRUE /\ new[l].deleted = FALSE
              /\ new[l].reason = lead[l].reason
              /\ \A x \in Target :
                   Get(new[l], x) = IF x \in Touched(c, l) THEN Plan(c, l)[x]
                                    ELSE Get(lead[l], x)
  <2>1. PICK plan : plan = Plan(c, l)
    OBVIOUS
  <2>2. new[l] = Reverted(lead[l], plan)
    BY <1>2, <2>1
  <2>3. DOMAIN lead[l] = DOMAIN Blank /\ DOMAIN plan = Touched(c, l)
    BY <1>10, <2>1
  <2>4. /\ new[l].exists = lead[l].exists /\ new[l].deleted = lead[l].deleted
        /\ new[l].reason = lead[l].reason
        /\ \A x \in Target :
             Get(new[l], x) = IF x \in DOMAIN plan THEN plan[x] ELSE Get(lead[l], x)
    BY <2>2, <2>3, RevertedIs
  <2> QED BY <1>10, <2>1, <2>3, <2>4
<1>12. /\ IsSequence(order) /\ DOMAIN order = 1 .. Len(order) /\ Len(order) \in Nat
       /\ \A i \in DOMAIN order : order[i] \in S
       /\ \A i, j \in DOMAIN order : order[i] = order[j] => i = j
       /\ \A l \in S : \E i \in DOMAIN order : order[i] = l
  BY OrderComplete DEF IsSequence
<1>13. IsSequence(es) /\ DOMAIN es = DOMAIN order
  BY <1>4, <1>12 DEF IsSequence
<1>14. ASSUME NEW k \in DOMAIN es
       PROVE  /\ es[k].lead = order[k] /\ order[k] \in S
              /\ DOMAIN es[k].from = Touched(c, order[k])
              /\ DOMAIN es[k].to = Touched(c, order[k])
              /\ \A x \in Touched(c, order[k]) :
                   /\ es[k].from[x] = Get(lead[order[k]], x)
                   /\ es[k].to[x] = Plan(c, order[k])[x]
  <2>1. PICK l \in S : l = order[k]
    BY <1>12, <1>13
  <2>2. es[k] = Entry(l, At(lead[l], Touched(c, l)), Plan(c, l), 0)
    BY <1>4, <1>13, <2>1
  <2>3. /\ es[k].lead = l /\ es[k].from = At(lead[l], Touched(c, l))
        /\ es[k].to = Plan(c, l)
    BY <2>2 DEF Entry
  <2>4. /\ DOMAIN es[k].from = Touched(c, l) /\ DOMAIN es[k].to = Touched(c, l)
        /\ \A x \in Touched(c, l) : es[k].from[x] = Get(lead[l], x)
    BY <1>10, <2>3 DEF At
  <2> QED BY <2>1, <2>3, <2>4
<1>15. Recording(t)
  <2>1. ASSUME NEW k \in DOMAIN t.entries
        PROVE  LET e == t.entries[k]
               IN /\ e.lead \in DOMAIN t.write
                  /\ DOMAIN e.from = DOMAIN e.to /\ DOMAIN e.to \subseteq Target
                  /\ \A x \in DOMAIN e.to :
                       /\ e.from[x] = Get(t.read[e.lead], x)
                       /\ e.to[x] = Get(t.write[e.lead], x)
                       /\ e.lead \notin merged => e.from[x] # e.to[x]
    <3>1. k \in DOMAIN es /\ t.entries[k] = es[k]
      BY <1>7
    <3>2. PICK l \in S : l = order[k]
      BY <1>14, <3>1
    <3>3. /\ es[k].lead = l /\ l \in DOMAIN t.write
          /\ DOMAIN es[k].from = Touched(c, l) /\ DOMAIN es[k].to = Touched(c, l)
          /\ Touched(c, l) \subseteq Target
          /\ t.read[l] = lead[l] /\ t.write[l] = new[l]
      BY <1>8, <1>10, <1>14, <3>1, <3>2
    <3>4. ASSUME NEW x \in Touched(c, l)
          PROVE  /\ es[k].from[x] = Get(lead[l], x)
                 /\ es[k].to[x] = Get(new[l], x)
                 /\ l \notin merged => es[k].from[x] # es[k].to[x]
      <4>1. es[k].from[x] = Get(lead[l], x) /\ es[k].to[x] = Plan(c, l)[x]
        BY <1>14, <3>1, <3>2
      <4>2. Get(new[l], x) = Plan(c, l)[x]
        BY <1>11, <3>3
      <4>3. l \notin merged => Get(lead[l], x) # Plan(c, l)[x]
        BY <1>10
      <4> QED BY <4>1, <4>2, <4>3
    <3> QED BY <3>1, <3>3, <3>4
  <2>2. \A j, k \in DOMAIN t.entries : t.entries[j].lead = t.entries[k].lead => j = k
    BY <1>7, <1>12, <1>13, <1>14
  <2>3. ASSUME NEW l \in S, NEW x \in Target, Get(t.read[l], x) # Get(t.write[l], x)
        PROVE  \E k \in DOMAIN t.entries : /\ t.entries[k].lead = l
                                           /\ x \in DOMAIN t.entries[k].to
    <3>1. x \in Touched(c, l)
      BY <1>8, <1>11, <2>3
    <3> QED BY <1>7, <1>12, <1>13, <1>14, <3>1
  <2> QED BY <1>7, <1>8, <1>13, <2>1, <2>2, <2>3 DEF Recording
<1>16. Sound(t)
  <2>1. t.opens \in BOOLEAN /\ (~t.opens => t.entries = <<>> /\ t.undoes = 0)
    BY <1>7
  <2>2. \A m \in t.moved : FALSE
    BY <1>7
  <2>3. t.undoes \in 0 .. Len(changesets)
    BY <1>7, <1>9
  <2>4. \A l \in DOMAIN t.write :
          /\ t.write[l].exists = TRUE /\ t.write[l].deleted \in BOOLEAN
          /\ t.read[l].exists = lead[l].exists /\ t.read[l].deleted = FALSE
    BY <1>7, <1>8, <1>10, <1>11
  <2> QED BY <1>8, <1>15, <2>1, <2>2, <2>3, <2>4 DEF Sound
<1>17. Current(t)
  BY <1>7, <1>8 DEF Current
<1>18. Reasoned(t)
  <2>1. t.undoes # 0
    BY <1>7, <1>9
  <2>2. \A l \in DOMAIN t.write : /\ t.read[l].exists = TRUE
                                  /\ t.read[l].reason = t.write[l].reason
    BY <1>7, <1>8, <1>10, <1>11
  <2> QED BY <2>1, <2>2 DEF Reasoned
<1>19. Undoing(t)
  <2>1. \A l \in DOMAIN t.write : \A x \in Touched(c, l) :
          Get(t.write[l], x) = RevertTo(c, l, x)
    BY <1>7, <1>8, <1>10, <1>11 DEF Plan
  <2> QED BY <1>1, <1>7, <1>8, <1>9, <2>1 DEF Undoing
<1>len. Ready(r, t)
  BY <1>8, <1>10, <1>16, <1>17, <1>18, <1>19 DEF Ready
<1> QED
  BY <1>6, <1>len

-----------------------------------------------------------------------------
(* What a request staged stays sound while others commit nothing. *)
LEMMA SoundStays ==
  ASSUME NEW t, Sound(t), UNCHANGED <<lead, changesets, merged>>
  PROVE  Sound(t)'
BY DEF Sound, Recording

LEMMA RowsStay ==
  ASSUME RowsInv, TimelineInv, ToldInv,
         UNCHANGED <<lead, timeline, changesets, born, merged>>
  PROVE  RowsInv' /\ TimelineInv' /\ ToldInv'
<1>1. RowsInv'
  BY DEF RowsInv
<1>2. TimelineInv'
  BY DEF TimelineInv
<1>3. ToldInv'
  BY DEF ToldInv, Told, Live, LastTold, Telling
<1> QED
  BY <1>1, <1>2, <1>3

LEMMA BeginKeeps ==
  ASSUME LeadsInv, NEW r \in Request, NEW t, Ready(r, t), Begin(r, t)
  PROVE  LeadsInv'
<1>1. /\ UNCHANGED <<lead, timeline, changesets, born, merged>>
      /\ txn' = [txn EXCEPT ![r] = t]
  BY DEF Begin
<1>2. /\ txn' = [q \in Request |-> txn'[q]] /\ txn'[r] = t
      /\ \A q \in Request \ {r} : txn'[q] = txn[q]
  BY <1>1 DEF LeadsInv, TxnInv
<1>3. RowsInv' /\ TimelineInv' /\ ToldInv'
  BY <1>1, RowsStay DEF LeadsInv
<1>4. ASSUME NEW q \in Request PROVE Sound(txn'[q])
  BY <1>2 DEF LeadsInv, TxnInv, Ready
<1>5. ASSUME NEW q \in Request PROVE Sound(txn[q])'
  <2>1. PICK u : u = txn'[q]
    OBVIOUS
  <2>2. Sound(u)'
    BY <1>1, <1>4, <2>1, SoundStays
  <2> QED BY <2>1, <2>2
<1>6. ASSUME NEW q \in Request, NEW p \in Request, q # p,
             NEW l \in DOMAIN txn'[q].write \cap DOMAIN txn'[p].write
      PROVE  lead[l].exists
  <2>1. CASE q = r \/ p = r
    BY <1>2, <1>6, <2>1 DEF Ready
  <2>2. CASE q # r /\ p # r
    BY <1>2, <1>6, <2>2 DEF LeadsInv, TxnInv
  <2> QED BY <2>1, <2>2
<1>7. TxnInv'
  BY <1>1, <1>2, <1>5, <1>6 DEF TxnInv
<1>8. CurrentInv'
  <2> SUFFICES ASSUME OneRequest, NEW q \in Request PROVE Current(txn[q])'
    BY DEF CurrentInv, OneRequest
  <2>1. txn'[q] = t
    BY <1>2 DEF OneRequest
  <2>2. Current(t)'
    BY <1>1 DEF Ready, Current
  <2> QED BY <2>1, <2>2
<1> QED
  BY <1>3, <1>7, <1>8 DEF LeadsInv

LEMMA NoTxnIs ==
  ASSUME TimelineInv
  PROVE  Sound(NoTxn) /\ Current(NoTxn) /\ Reasoned(NoTxn) /\ Undoing(NoTxn)
<1>1. /\ NoTxn.read = <<>> /\ NoTxn.write = <<>> /\ NoTxn.entries = <<>>
      /\ NoTxn.opens = FALSE /\ NoTxn.undoes = 0 /\ NoTxn.moved = {}
      /\ NoTxn.open = FALSE
  BY DEF NoTxn
<1>2. DOMAIN NoTxn.write = {} /\ DOMAIN NoTxn.read = {}
  BY <1>1
<1>3. IsSequence(NoTxn.entries) /\ DOMAIN NoTxn.entries = {}
  BY <1>1 DEF IsSequence
<1>4. Recording(NoTxn)
  BY <1>2, <1>3 DEF Recording
<1>5. Len(changesets) \in Nat
  BY DEF TimelineInv, IsSequence
<1>6. Sound(NoTxn)
  <2>1. NoTxn.undoes \in 0 .. Len(changesets)
    BY <1>1, <1>5
  <2>2. /\ NoTxn.opens \in BOOLEAN
        /\ ~NoTxn.opens => NoTxn.entries = <<>> /\ NoTxn.undoes = 0
        /\ \A m \in NoTxn.moved : FALSE
    BY <1>1
  <2> HIDE DEF NoTxn
  <2> QED BY <1>2, <1>4, <2>1, <2>2 DEF Sound
<1> QED
  BY <1>1, <1>2, <1>6 DEF Current, Reasoned, Undoing

LEMMA AbortKeeps ==
  ASSUME LeadsInv, NEW r \in Request, Abort(r)
  PROVE  LeadsInv'
<1>1. /\ UNCHANGED <<lead, timeline, changesets, born, merged>>
      /\ txn' = [txn EXCEPT ![r] = NoTxn]
  BY DEF Abort
<1>2. /\ txn' = [q \in Request |-> txn'[q]] /\ txn'[r] = NoTxn
      /\ \A q \in Request \ {r} : txn'[q] = txn[q]
  BY <1>1 DEF LeadsInv, TxnInv
<1>3. RowsInv' /\ TimelineInv' /\ ToldInv'
  BY <1>1, RowsStay DEF LeadsInv
<1>4. ASSUME NEW q \in Request PROVE Sound(txn'[q])
  BY <1>2, NoTxnIs DEF LeadsInv, TxnInv
<1>5. ASSUME NEW q \in Request PROVE Sound(txn[q])'
  <2>1. PICK u : u = txn'[q]
    OBVIOUS
  <2>2. Sound(u)'
    BY <1>1, <1>4, <2>1, SoundStays
  <2> QED BY <2>1, <2>2
<1>6. DOMAIN NoTxn.write = {}
  BY DEF NoTxn
<1>7. ASSUME NEW q \in Request, NEW p \in Request, q # p,
             NEW l \in DOMAIN txn'[q].write \cap DOMAIN txn'[p].write
      PROVE  lead[l].exists
  <2>1. CASE q = r \/ p = r
    BY <1>2, <1>6, <1>7, <2>1
  <2>2. CASE q # r /\ p # r
    BY <1>2, <1>7, <2>2 DEF LeadsInv, TxnInv
  <2> QED BY <2>1, <2>2
<1>8. TxnInv'
  BY <1>1, <1>2, <1>5, <1>7 DEF TxnInv
<1>9. CurrentInv'
  <2> SUFFICES ASSUME OneRequest, NEW q \in Request PROVE Current(txn[q])'
    BY DEF CurrentInv, OneRequest
  <2>1. txn'[q] = NoTxn
    BY <1>2 DEF OneRequest
  <2>2. Current(NoTxn)'
    BY <1>1, NoTxnIs DEF LeadsInv, Current
  <2> QED BY <2>1, <2>2
<1> QED
  BY <1>3, <1>8, <1>9 DEF LeadsInv

-----------------------------------------------------------------------------
(* What a commit leaves behind. *)

LEMMA CommittedRows ==
  ASSUME LeadsInv, NEW r \in Request, NEW t, t = txn[r], Commit(r)
  PROVE  /\ Sound(t)
         /\ \A l \in Lead : l \notin DOMAIN t.write => lead'[l] = lead[l]
         /\ \A l \in DOMAIN t.write :
              /\ l \in Lead /\ DOMAIN lead'[l] = DOMAIN Blank
              /\ lead'[l].exists = TRUE /\ lead'[l].deleted \in BOOLEAN
              /\ t.write[l].deleted \/ lead[l].deleted => lead'[l].deleted
              /\ OneRequest =>
                   /\ t.read[l] = lead[l]
                   /\ \A c \in DOMAIN Blank : lead'[l][c] = t.write[l][c]
                   /\ \A x \in Target : Get(lead'[l], x) = Get(t.write[l], x)
         /\ \A l \in Lead : lead[l].exists => lead'[l].exists
<1>1. Sound(t)
  BY DEF LeadsInv, TxnInv
<1>2. \A l \in Lead : lead'[l] = Flushed(l, t)
  BY DEF Commit
<1>3. \A l \in Lead : l \notin DOMAIN t.write => lead'[l] = lead[l]
  BY <1>2 DEF Flushed
<1>4. ASSUME NEW l \in DOMAIN t.write
      PROVE  /\ l \in Lead /\ DOMAIN lead'[l] = DOMAIN Blank
             /\ lead'[l].exists = TRUE /\ lead'[l].deleted \in BOOLEAN
             /\ t.write[l].deleted \/ lead[l].deleted => lead'[l].deleted
             /\ OneRequest =>
                  /\ t.read[l] = lead[l]
                  /\ \A c \in DOMAIN Blank : lead'[l][c] = t.write[l][c]
                  /\ \A x \in Target : Get(lead'[l], x) = Get(t.write[l], x)
  <2>1. /\ l \in Lead /\ t.write[l].exists = TRUE /\ t.write[l].deleted \in BOOLEAN
        /\ t.read[l].exists = lead[l].exists /\ t.read[l].deleted = FALSE
    BY <1>1 DEF Sound
  <2>2. lead[l].exists \in BOOLEAN /\ lead[l].deleted \in BOOLEAN
    BY <2>1 DEF LeadsInv, RowsInv
  <2>3. PICK stored, read, write :
          stored = lead[l] /\ read = t.read[l] /\ write = t.write[l]
    OBVIOUS
  <2>4. lead'[l] = Flush(stored, read, write)
    BY <1>2, <2>1, <2>3 DEF Flushed
  <2>5. /\ DOMAIN lead'[l] = DOMAIN Blank
        /\ \A c \in DOMAIN Blank :
             lead'[l][c] = IF write[c] = read[c] THEN stored[c] ELSE write[c]
        /\ \A x \in Columns :
             Get(lead'[l], x) = IF Get(write, x) = Get(read, x) THEN Get(stored, x)
                                ELSE Get(write, x)
        /\ read = stored => \A x \in Target : Get(lead'[l], x) = Get(write, x)
    BY <2>4, FlushOf
  <2>6. /\ lead'[l]["exists"] = IF write["exists"] = read["exists"]
                                THEN stored["exists"] ELSE write["exists"]
        /\ lead'[l]["deleted"] = IF write["deleted"] = read["deleted"]
                                 THEN stored["deleted"] ELSE write["deleted"]
    BY <2>5, ColumnsOf
  <2>7. /\ lead'[l].exists = TRUE /\ lead'[l].deleted \in BOOLEAN
        /\ t.write[l].deleted \/ lead[l].deleted => lead'[l].deleted
    BY <2>1, <2>2, <2>3, <2>6
  <2>8. OneRequest => read = stored
    BY <2>3 DEF LeadsInv, CurrentInv, Current
  <2>9. OneRequest => \A c \in DOMAIN Blank : lead'[l][c] = write[c]
    BY <2>5, <2>8
  <2> QED BY <2>1, <2>3, <2>5, <2>7, <2>8, <2>9
<1>5. \A l \in Lead : lead[l].exists => lead'[l].exists
  BY <1>3, <1>4
<1> QED
  BY <1>1, <1>3, <1>4, <1>5

(* A commit leaves a target as it found it or as its request wrote it.      *)
LEMMA CommittedTarget ==
  ASSUME LeadsInv, NEW r \in Request, NEW t, t = txn[r], Commit(r),
         NEW l \in DOMAIN t.write, NEW x \in Told
  PROVE  /\ Get(t.write[l], x) = Get(t.read[l], x) =>
              Get(lead'[l], x) = Get(lead[l], x)
         /\ Get(t.write[l], x) # Get(t.read[l], x) =>
              Get(lead'[l], x) = Get(t.write[l], x)
<1>1. Sound(t)
  BY DEF LeadsInv, TxnInv
<1>2. l \in Lead
  BY <1>1 DEF Sound
<1>3. PICK stored, read, write :
        stored = lead[l] /\ read = t.read[l] /\ write = t.write[l]
  OBVIOUS
<1>4. lead'[l] = Flush(stored, read, write)
  BY <1>2, <1>3 DEF Flushed, Commit
<1>5. /\ \A y \in Columns :
           Get(lead'[l], y) = IF Get(write, y) = Get(read, y) THEN Get(stored, y)
                              ELSE Get(write, y)
      /\ read = stored => \A y \in Target : Get(lead'[l], y) = Get(write, y)
  BY <1>4, FlushOf
<1>6. CASE x \in Columns
  BY <1>3, <1>5, <1>6
<1>7. CASE x \notin Columns
  <2>1. OneRequest /\ x \in Target
    BY <1>7 DEF Told
  <2>2. read = stored
    BY <1>3, <2>1 DEF LeadsInv, CurrentInv, Current
  <2> QED BY <1>3, <1>5, <2>1, <2>2
<1> QED
  BY <1>6, <1>7

LEMMA CommittedTimeline ==
  ASSUME LeadsInv, NEW r \in Request, NEW t, t = txn[r], Commit(r)
  PROVE  LET n == Len(timeline)
         IN /\ n \in Nat /\ DOMAIN timeline = 1 .. n
            /\ Len(t.entries) \in Nat /\ DOMAIN t.entries = 1 .. Len(t.entries)
            /\ IsSequence(timeline') /\ DOMAIN timeline' = 1 .. (n + Len(t.entries))
            /\ \A i \in 1 .. n :
                 /\ DOMAIN timeline'[i] = {"cs", "lead", "from", "to", "score"}
                 /\ timeline'[i].cs = timeline[i].cs
                 /\ timeline'[i].from = timeline[i].from
                 /\ timeline'[i].to = timeline[i].to
                 /\ \/ /\ timeline'[i].lead = timeline[i].lead
                       /\ \A m \in t.moved : m.from = timeline[i].lead => ~(i <= m.upto)
                    \/ \E m \in t.moved : /\ m.from = timeline[i].lead
                                          /\ timeline'[i].lead = m.to
            /\ \A k \in 1 .. Len(t.entries) :
                 /\ DOMAIN timeline'[n + k] = {"cs", "lead", "from", "to", "score"}
                 /\ timeline'[n + k].cs = Len(changesets) + 1
                 /\ timeline'[n + k].lead = t.entries[k].lead
                 /\ timeline'[n + k].from = t.entries[k].from
                 /\ timeline'[n + k].to = t.entries[k].to
<1>1. PICK old : old = Moved(timeline, t.moved)
  OBVIOUS
<1>2. PICK new : new = [i \in DOMAIN t.entries |->
                          [cs |-> Len(changesets) + 1, lead |-> t.entries[i].lead,
                           from |-> t.entries[i].from, to |-> t.entries[i].to,
                           score |-> t.entries[i].score]]
  OBVIOUS
<1>3. timeline' = old \o new
  BY <1>1, <1>2 DEF Commit
<1>4. PICK n \in Nat : n = Len(timeline) /\ DOMAIN timeline = 1 .. n
  BY DEF LeadsInv, TimelineInv, IsSequence
<1>5. PICK k \in Nat : k = Len(t.entries) /\ DOMAIN t.entries = 1 .. k
  <2>1. IsSequence(t.entries)
    BY DEF LeadsInv, TxnInv, Sound, Recording
  <2> QED BY <2>1 DEF IsSequence
<1>6. /\ old = [i \in 1 .. n |-> old[i]]
      /\ \A i \in 1 .. n :
           /\ DOMAIN old[i] = {"cs", "lead", "from", "to", "score"}
           /\ old[i].cs = timeline[i].cs
           /\ old[i].from = timeline[i].from /\ old[i].to = timeline[i].to
           /\ \/ /\ old[i].lead = timeline[i].lead
                 /\ \A m \in t.moved : m.from = timeline[i].lead => ~(i <= m.upto)
              \/ \E m \in t.moved : m.from = timeline[i].lead /\ old[i].lead = m.to
  <2>1. IsSequence(timeline) /\ \A i \in DOMAIN timeline :
          DOMAIN timeline[i] = {"cs", "lead", "from", "to", "score"}
    BY DEF LeadsInv, TimelineInv
  <2> QED BY <1>1, <1>4, <2>1, MovedOf
<1>7. new = [i \in 1 .. k |-> new[i]]
  BY <1>2, <1>5
<1>8. \A i \in 1 .. k :
        /\ DOMAIN new[i] = {"cs", "lead", "from", "to", "score"}
        /\ new[i].cs = Len(changesets) + 1 /\ new[i].lead = t.entries[i].lead
        /\ new[i].from = t.entries[i].from /\ new[i].to = t.entries[i].to
  BY <1>2, <1>5
<1>9. /\ IsSequence(timeline') /\ DOMAIN timeline' = 1 .. (n + k)
      /\ \A i \in 1 .. n : timeline'[i] = old[i]
      /\ \A i \in 1 .. k : timeline'[n + i] = new[i]
  BY <1>3, <1>6, <1>7, Appended, SMTT(30)
<1> QED
  BY <1>4, <1>5, <1>6, <1>8, <1>9, SMTT(30)

(* ... and every action keeps its score. *)
LEMMA CommittedScores ==
  ASSUME LeadsInv, NEW r \in Request, NEW t, t = txn[r], Commit(r)
  PROVE  /\ \A i \in 1 .. Len(timeline) : timeline'[i].score = timeline[i].score
         /\ \A k \in 1 .. Len(t.entries) :
              /\ timeline'[Len(timeline) + k].lead = t.entries[k].lead
              /\ timeline'[Len(timeline) + k].score = t.entries[k].score
<1>1. PICK old : old = Moved(timeline, t.moved)
  OBVIOUS
<1>2. PICK new : new = [i \in DOMAIN t.entries |->
                          [cs |-> Len(changesets) + 1, lead |-> t.entries[i].lead,
                           from |-> t.entries[i].from, to |-> t.entries[i].to,
                           score |-> t.entries[i].score]]
  OBVIOUS
<1>3. timeline' = old \o new
  BY <1>1, <1>2 DEF Commit
<1>4. PICK n \in Nat : n = Len(timeline)
  BY DEF LeadsInv, TimelineInv, IsSequence
<1>5. PICK k \in Nat : k = Len(t.entries) /\ DOMAIN t.entries = 1 .. k
  <2>1. IsSequence(t.entries)
    BY DEF LeadsInv, TxnInv, Sound, Recording
  <2> QED BY <2>1 DEF IsSequence
<1>6. old = [i \in 1 .. n |-> old[i]] /\ \A i \in 1 .. n : old[i].score = timeline[i].score
  <2>1. IsSequence(timeline) /\ \A i \in DOMAIN timeline :
          DOMAIN timeline[i] = {"cs", "lead", "from", "to", "score"}
    BY DEF LeadsInv, TimelineInv
  <2> QED BY <1>1, <1>4, <2>1, MovedOf
<1>7. /\ new = [i \in 1 .. k |-> new[i]]
      /\ \A i \in 1 .. k : /\ new[i].lead = t.entries[i].lead
                           /\ new[i].score = t.entries[i].score
  BY <1>2, <1>5
<1>8. /\ \A i \in 1 .. n : (old \o new)[i] = old[i]
      /\ \A i \in 1 .. k : (old \o new)[n + i] = new[i]
  <2>1. old = [i \in 1 .. n |-> old[i]] /\ new = [i \in 1 .. k |-> new[i]]
    BY <1>6, <1>7
  <2> QED BY <2>1, Appended
<1>9. /\ \A i \in 1 .. n : timeline'[i].score = timeline[i].score
      /\ \A i \in 1 .. k : /\ timeline'[n + i].lead = t.entries[i].lead
                           /\ timeline'[n + i].score = t.entries[i].score
  BY <1>3, <1>6, <1>7, <1>8
<1> QED
  BY <1>4, <1>5, <1>9

LEMMA CommittedReport ==
  ASSUME LeadsInv, NEW r \in Request, NEW t, t = txn[r], Commit(r)
  PROVE  LET n == Len(changesets)
         IN /\ n \in Nat /\ DOMAIN changesets = 1 .. n /\ IsSequence(changesets')
            /\ DOMAIN changesets' = 1 .. (IF t.opens THEN n + 1 ELSE n)
            /\ Len(changesets') = IF t.opens THEN n + 1 ELSE n
            /\ \A c \in 1 .. n :
                 /\ c = t.undoes =>
                      changesets'[c] = [changesets[c] EXCEPT !.undone = TRUE]
                 /\ c # t.undoes => changesets'[c] = changesets[c]
            /\ t.opens =>
                 /\ DOMAIN changesets'[n + 1] =
                      {"undone", "undoOf", "rejected", "viewers", "was", "left"}
                 /\ changesets'[n + 1].undone = FALSE
                 /\ changesets'[n + 1].undoOf = t.undoes
                 /\ changesets'[n + 1].viewers = t.viewers
                 /\ DOMAIN changesets'[n + 1].left = DOMAIN t.write
                 /\ \A l \in DOMAIN t.write : /\ changesets'[n + 1].was[l] = lead[l]
                                              /\ changesets'[n + 1].left[l] = lead'[l]
<1>1. PICK n \in Nat : /\ n = Len(changesets) /\ DOMAIN changesets = 1 .. n
                       /\ changesets = [i \in 1 .. n |-> changesets[i]]
  BY DEF LeadsInv, TimelineInv, IsSequence
<1>2. PICK old : old = Marked(changesets, t.undoes)
  OBVIOUS
<1>3. /\ old = [i \in 1 .. n |-> old[i]]
      /\ \A c \in 1 .. n :
           old[c] = IF c = t.undoes THEN [changesets[c] EXCEPT !.undone = TRUE]
                    ELSE changesets[c]
  BY <1>1, <1>2 DEF Marked
<1>4. CASE ~t.opens
  <2>1. changesets' = old \o <<>>
    BY <1>2, <1>4 DEF Commit
  <2>2. PICK none : none = <<>>
    OBVIOUS
  <2>3. PICK k \in Nat : k = 0
    OBVIOUS
  <2>4. none = [i \in 1 .. k |-> none[i]]
    BY <2>2, <2>3
  <2>5. /\ IsSequence(old \o none) /\ Len(old \o none) = n + k
        /\ DOMAIN (old \o none) = 1 .. (n + k)
        /\ \A i \in 1 .. n : (old \o none)[i] = old[i]
    BY <1>3, <2>4, Appended
  <2>6. n + k = n
    BY <2>3
  <2>7. /\ IsSequence(changesets') /\ Len(changesets') = n /\ DOMAIN changesets' = 1 .. n
        /\ \A i \in 1 .. n : changesets'[i] = old[i]
    BY <2>1, <2>2, <2>5, <2>6
  <2> QED BY <1>1, <1>3, <1>4, <2>7
<1>5. CASE t.opens
  <2>1. PICK rec : rec = [undone |-> FALSE, undoOf |-> t.undoes,
                          rejected |-> t.rejected, viewers |-> t.viewers,
                          was |-> [l \in DOMAIN t.write |-> lead[l]],
                          left |-> [l \in DOMAIN t.write |-> lead'[l]]]
    OBVIOUS
  <2>2. changesets' = old \o <<rec>>
    BY <1>2, <1>5, <2>1 DEF Commit
  <2>3. /\ DOMAIN rec = {"undone", "undoOf", "rejected", "viewers", "was", "left"}
        /\ rec.undone = FALSE /\ rec.undoOf = t.undoes /\ rec.viewers = t.viewers
        /\ DOMAIN rec.left = DOMAIN t.write
        /\ \A l \in DOMAIN t.write : rec.was[l] = lead[l] /\ rec.left[l] = lead'[l]
    BY <2>1
  <2>4. /\ IsSequence(changesets') /\ Len(changesets') = n + 1
        /\ DOMAIN changesets' = 1 .. (n + 1)
        /\ \A i \in 1 .. n : changesets'[i] = old[i]
        /\ changesets'[n + 1] = rec
    BY <1>3, <2>2, AppendedOne
  <2>5. /\ DOMAIN changesets'[n + 1] =
              {"undone", "undoOf", "rejected", "viewers", "was", "left"}
         /\ changesets'[n + 1].undone = FALSE
         /\ changesets'[n + 1].undoOf = t.undoes
         /\ changesets'[n + 1].viewers = t.viewers
         /\ DOMAIN changesets'[n + 1].left = DOMAIN t.write
         /\ \A l \in DOMAIN t.write : /\ changesets'[n + 1].was[l] = lead[l]
                                      /\ changesets'[n + 1].left[l] = lead'[l]
    BY <2>3, <2>4
  <2>6. \A c \in 1 .. n :
          /\ c = t.undoes => changesets'[c] = [changesets[c] EXCEPT !.undone = TRUE]
          /\ c # t.undoes => changesets'[c] = changesets[c]
    BY <1>3, <2>4
  <2> QED BY <1>1, <1>5, <2>4, <2>5, <2>6
<1>6. t.opens \in BOOLEAN
  BY CommittedRows DEF Sound
<1> QED
  BY <1>4, <1>5, <1>6

LEMMA CommitKeepsRows ==
  ASSUME LeadsInv, NEW r \in Request, Commit(r)
  PROVE  RowsInv'
<1>1. PICK t : t = txn[r]
  OBVIOUS
<1>2. merged' = merged \cup {m.to : m \in t.moved}
  BY <1>1 DEF Commit
<1>3. Sound(t)
  BY <1>1, CommittedRows
<1>4. merged' \subseteq Lead
  BY <1>2, <1>3 DEF LeadsInv, RowsInv, Sound
<1>5. ASSUME NEW l \in Lead
      PROVE  /\ DOMAIN lead'[l] = DOMAIN Blank
             /\ lead'[l].exists \in BOOLEAN /\ lead'[l].deleted \in BOOLEAN
             /\ ~lead'[l].exists => lead'[l] = Blank
  <2>1. CASE l \notin DOMAIN t.write
    <3>1. lead'[l] = lead[l]
      BY <1>1, <2>1, CommittedRows
    <3> QED BY <3>1 DEF LeadsInv, RowsInv
  <2>2. CASE l \in DOMAIN t.write
    BY <1>1, <2>2, CommittedRows
  <2> QED BY <2>1, <2>2
<1> QED
  BY <1>4, <1>5 DEF RowsInv, Blank

LEMMA CommitKeepsTimeline ==
  ASSUME LeadsInv, NEW r \in Request, Commit(r)
  PROVE  TimelineInv'
<1>1. PICK t : t = txn[r]
  OBVIOUS
<1>2. PICK n \in Nat, h \in Nat, c \in Nat :
        n = Len(timeline) /\ h = Len(t.entries) /\ c = Len(changesets)
  BY <1>1, CommittedTimeline, CommittedReport
<1>3. /\ DOMAIN timeline = 1 .. n /\ DOMAIN t.entries = 1 .. h
      /\ IsSequence(timeline') /\ DOMAIN timeline' = 1 .. (n + h)
      /\ \A i \in 1 .. n :
           /\ DOMAIN timeline'[i] = {"cs", "lead", "from", "to", "score"}
           /\ timeline'[i].cs = timeline[i].cs
           /\ timeline'[i].from = timeline[i].from /\ timeline'[i].to = timeline[i].to
           /\ \/ timeline'[i].lead = timeline[i].lead
              \/ \E m \in t.moved : timeline'[i].lead = m.to
      /\ \A k \in 1 .. h :
           /\ DOMAIN timeline'[n + k] = {"cs", "lead", "from", "to", "score"}
           /\ timeline'[n + k].cs = c + 1 /\ timeline'[n + k].lead = t.entries[k].lead
           /\ timeline'[n + k].from = t.entries[k].from
           /\ timeline'[n + k].to = t.entries[k].to
  <2>1. /\ DOMAIN timeline = 1 .. n /\ DOMAIN t.entries = 1 .. h
        /\ IsSequence(timeline') /\ DOMAIN timeline' = 1 .. (n + h)
    BY <1>1, <1>2, CommittedTimeline
  <2>2. ASSUME NEW i \in 1 .. n
        PROVE  /\ DOMAIN timeline'[i] = {"cs", "lead", "from", "to", "score"}
               /\ timeline'[i].cs = timeline[i].cs
               /\ timeline'[i].from = timeline[i].from
               /\ timeline'[i].to = timeline[i].to
               /\ \/ timeline'[i].lead = timeline[i].lead
                  \/ \E m \in t.moved : timeline'[i].lead = m.to
    BY <1>1, <1>2, CommittedTimeline
  <2>3. ASSUME NEW k \in 1 .. h
        PROVE  /\ DOMAIN timeline'[n + k] = {"cs", "lead", "from", "to", "score"}
               /\ timeline'[n + k].cs = c + 1
               /\ timeline'[n + k].lead = t.entries[k].lead
               /\ timeline'[n + k].from = t.entries[k].from
               /\ timeline'[n + k].to = t.entries[k].to
    BY <1>1, <1>2, CommittedTimeline, SMTT(30)
  <2> QED BY <2>1, <2>2, <2>3
<1>4. /\ DOMAIN changesets = 1 .. c /\ IsSequence(changesets')
      /\ DOMAIN changesets' = 1 .. (IF t.opens THEN c + 1 ELSE c)
  BY <1>1, <1>2, CommittedReport
<1>5. merged' = merged \cup {m.to : m \in t.moved}
  BY <1>1 DEF Commit
<1>6. /\ Sound(t)
      /\ \A l \in DOMAIN t.write : l \in Lead /\ lead'[l].exists
      /\ \A l \in Lead : lead[l].exists => lead'[l].exists
  BY <1>1, CommittedRows
<1>7. ASSUME NEW i \in 1 .. n
      PROVE  /\ DOMAIN timeline'[i] = {"cs", "lead", "from", "to", "score"}
             /\ timeline'[i].cs \in 1 .. c
             /\ timeline'[i].lead \in Lead /\ lead'[timeline'[i].lead].exists
             /\ DOMAIN timeline'[i].from = DOMAIN timeline'[i].to
             /\ DOMAIN timeline'[i].to \subseteq Target
             /\ timeline'[i].lead \notin merged' =>
                  /\ timeline'[i].lead = timeline[i].lead
                  /\ timeline[i].lead \notin merged
                  /\ \A x \in DOMAIN timeline'[i].to :
                       timeline'[i].from[x] # timeline'[i].to[x]
  <2>1. /\ timeline[i].cs \in 1 .. c
        /\ timeline[i].lead \in Lead /\ lead[timeline[i].lead].exists
        /\ DOMAIN timeline[i].from = DOMAIN timeline[i].to
        /\ DOMAIN timeline[i].to \subseteq Target
        /\ timeline[i].lead \notin merged =>
             \A x \in DOMAIN timeline[i].to : timeline[i].from[x] # timeline[i].to[x]
    BY <1>3, <1>4 DEF LeadsInv, TimelineInv
  <2>2. \A m \in t.moved : m.to \in DOMAIN t.write /\ m.to \in merged'
    BY <1>5, <1>6 DEF Sound
  <2>3. timeline'[i].lead \in Lead /\ lead'[timeline'[i].lead].exists
    BY <1>3, <1>6, <2>1, <2>2
  <2>4. timeline'[i].lead \notin merged' =>
          timeline'[i].lead = timeline[i].lead /\ timeline[i].lead \notin merged
    BY <1>3, <1>5, <2>2
  <2> QED BY <1>3, <2>1, <2>3, <2>4
<1>8. ASSUME NEW k \in 1 .. h
      PROVE  /\ DOMAIN timeline'[n + k] = {"cs", "lead", "from", "to", "score"}
             /\ timeline'[n + k].cs = c + 1 /\ c + 1 \in DOMAIN changesets'
             /\ timeline'[n + k].lead \in Lead /\ lead'[timeline'[n + k].lead].exists
             /\ DOMAIN timeline'[n + k].from = DOMAIN timeline'[n + k].to
             /\ DOMAIN timeline'[n + k].to \subseteq Target
             /\ timeline'[n + k].lead \notin merged' =>
                  \A x \in DOMAIN timeline'[n + k].to :
                    timeline'[n + k].from[x] # timeline'[n + k].to[x]
  <2>1. PICK e : e = t.entries[k]
    OBVIOUS
  <2>2. /\ e.lead \in DOMAIN t.write
        /\ DOMAIN e.from = DOMAIN e.to /\ DOMAIN e.to \subseteq Target
        /\ e.lead \notin merged => \A x \in DOMAIN e.to : e.from[x] # e.to[x]
    <3>1. Recording(t) /\ k \in DOMAIN t.entries
      BY <1>3, <1>6 DEF Sound
    <3> HIDE <1>3, <1>6
    <3> QED BY <2>1, <3>1 DEF Recording
  <2>3. t.opens
    <3>1. DOMAIN t.entries # {}
      BY <1>3
    <3> QED BY <1>6, <3>1 DEF Sound
  <2>4. c + 1 \in DOMAIN changesets'
    BY <1>4, <2>3
  <2> QED BY <1>3, <1>5, <1>6, <2>1, <2>2, <2>4
<1>9. \A i \in DOMAIN timeline' :
        \/ i \in 1 .. n
        \/ \E k \in 1 .. h : i = n + k
  <2> SUFFICES ASSUME NEW i \in 1 .. (n + h), i \notin 1 .. n
               PROVE  \E k \in 1 .. h : i = n + k
    BY <1>3
  <2>1. i - n \in 1 .. h /\ i = n + (i - n)
    OBVIOUS
  <2> QED BY <2>1
<1>10. \A i \in 1 .. c : i \in DOMAIN changesets' /\ i # c + 1
  <2>1. \A i \in 1 .. c : i \in 1 .. (c + 1) /\ i # c + 1
    OBVIOUS
  <2> QED BY <1>4, <2>1
<1>11. ASSUME NEW i \in DOMAIN timeline', NEW j \in DOMAIN timeline',
              timeline'[i].cs = timeline'[j].cs, timeline'[i].lead = timeline'[j].lead,
              timeline'[i].lead \notin merged'
       PROVE  i = j
  <2>1. CASE i \in 1 .. n /\ j \in 1 .. n
    <3>1. /\ timeline[i].cs = timeline[j].cs /\ timeline[i].lead = timeline[j].lead
          /\ timeline[i].lead \notin merged
      BY <1>3, <1>7, <1>11, <2>1
    <3> QED BY <1>3, <2>1, <3>1 DEF LeadsInv, TimelineInv
  <2>2. CASE (\E k \in 1 .. h : i = n + k) /\ (\E k \in 1 .. h : j = n + k)
    <3>1. PICK a \in 1 .. h : i = n + a
      BY <2>2
    <3>2. PICK b \in 1 .. h : j = n + b
      BY <2>2
    <3>3. t.entries[a].lead = t.entries[b].lead
      BY <1>3, <1>11, <3>1, <3>2
    <3>4. a = b
      BY <1>3, <1>6, <3>3 DEF Sound, Recording
    <3> QED BY <3>1, <3>2, <3>4
  <2>3. CASE i \in 1 .. n /\ \E k \in 1 .. h : j = n + k
    BY <1>7, <1>8, <1>10, <1>11, <2>3
  <2>4. CASE j \in 1 .. n /\ \E k \in 1 .. h : i = n + k
    BY <1>7, <1>8, <1>10, <1>11, <2>4
  <2> QED BY <1>9, <2>1, <2>2, <2>3, <2>4
<1>12. ASSUME NEW i \in DOMAIN timeline'
       PROVE  /\ DOMAIN timeline'[i] = {"cs", "lead", "from", "to", "score"}
              /\ timeline'[i].cs \in DOMAIN changesets'
              /\ timeline'[i].lead \in Lead /\ lead'[timeline'[i].lead].exists
              /\ DOMAIN timeline'[i].from = DOMAIN timeline'[i].to
              /\ DOMAIN timeline'[i].to \subseteq Target
              /\ timeline'[i].lead \notin merged' =>
                   \A x \in DOMAIN timeline'[i].to :
                     timeline'[i].from[x] # timeline'[i].to[x]
  <2>1. CASE i \in 1 .. n
    BY <1>7, <1>10, <2>1
  <2>2. CASE \E k \in 1 .. h : i = n + k
    BY <1>8, <2>2
  <2> QED BY <1>9, <2>1, <2>2
<1> QED
  BY <1>3, <1>4, <1>11, <1>12 DEF TimelineInv, IsSequence, Target

(* Nor does a commit of others disturb it, unless it creates a row of its. *)
LEMMA SoundPersists ==
  ASSUME NEW u, Sound(u), merged \subseteq merged',
         Len(changesets) \in Nat, Len(changesets') \in Nat,
         Len(changesets) <= Len(changesets'),
         \A l \in DOMAIN u.write : lead'[l].exists = lead[l].exists
  PROVE  Sound(u)'
<1>1. Recording(u)'
  <2>1. Recording(u)
    BY DEF Sound
  <2>2. ASSUME NEW k \in DOMAIN u.entries
        PROVE  LET e == u.entries[k]
               IN /\ e.lead \in DOMAIN u.write
                  /\ DOMAIN e.from = DOMAIN e.to /\ DOMAIN e.to \subseteq Target
                  /\ \A x \in DOMAIN e.to :
                       /\ e.from[x] = Get(u.read[e.lead], x)
                       /\ e.to[x] = Get(u.write[e.lead], x)
                       /\ e.lead \notin merged' => e.from[x] # e.to[x]
    BY <2>1 DEF Recording
  <2>3. \A l \in DOMAIN u.write, x \in Target :
          lead'[l].exists /\ Get(u.read[l], x) # Get(u.write[l], x) =>
            \E k \in DOMAIN u.entries : /\ u.entries[k].lead = l
                                        /\ x \in DOMAIN u.entries[k].to
    BY <2>1 DEF Recording
  <2> QED BY <2>1, <2>2, <2>3 DEF Recording
<1>2. u.undoes \in 0 .. Len(changesets')
  BY DEF Sound
<1>3. /\ DOMAIN u.read = DOMAIN u.write /\ DOMAIN u.write \subseteq Lead
      /\ u.opens \in BOOLEAN /\ (~u.opens => u.entries = <<>> /\ u.undoes = 0)
  BY DEF Sound
<1>4. \A l \in DOMAIN u.write :
        /\ u.write[l].exists = TRUE /\ u.write[l].deleted \in BOOLEAN
        /\ u.read[l].exists = lead'[l].exists /\ u.read[l].deleted = FALSE
  BY DEF Sound
<1>5. \A m \in u.moved :
        /\ m.from \in DOMAIN u.write /\ lead'[m.from].exists
        /\ m.to \in DOMAIN u.write /\ lead'[m.to].exists
        /\ u.write[m.from].deleted = TRUE
  BY DEF Sound
<1> QED
  BY <1>1, <1>2, <1>3, <1>4, <1>5 DEF Sound

LEMMA CommitKeepsTxn ==
  ASSUME LeadsInv, NEW r \in Request, Commit(r), TimelineInv'
  PROVE  TxnInv' /\ CurrentInv'
<1>1. PICK t : t = txn[r]
  OBVIOUS
<1>2. /\ txn' = [txn EXCEPT ![r] = NoTxn]
      /\ merged' = merged \cup {m.to : m \in t.moved}
  BY <1>1 DEF Commit
<1>3. /\ txn' = [q \in Request |-> txn'[q]] /\ txn'[r] = NoTxn
      /\ \A q \in Request \ {r} : txn'[q] = txn[q]
  BY <1>2 DEF LeadsInv, TxnInv
<1>4. Sound(NoTxn)' /\ Current(NoTxn)'
  <2>1. TimelineInv' => Sound(NoTxn)' /\ Current(NoTxn)'
    BY NoTxnIs, PTL
  <2> QED BY <2>1
<1>5. /\ Len(changesets) \in Nat /\ Len(changesets') \in Nat
      /\ Len(changesets) <= Len(changesets')
  <2>1. PICK n \in Nat : n = Len(changesets)
    BY <1>1, CommittedReport
  <2>2. Len(changesets') = IF t.opens THEN n + 1 ELSE n
    BY <1>1, <2>1, CommittedReport
  <2> QED BY <2>1, <2>2
<1>6. /\ \A l \in Lead : l \notin DOMAIN t.write => lead'[l] = lead[l]
      /\ \A l \in Lead : lead[l].exists => lead'[l].exists
      /\ \A l \in DOMAIN t.write : lead'[l].exists = TRUE
  BY <1>1, CommittedRows
<1>7. ASSUME NEW q \in Request PROVE Sound(txn[q])'
  <2>1. PICK u : u = txn'[q]
    OBVIOUS
  <2>2. CASE q = r
    BY <1>3, <1>4, <2>2
  <2>3. CASE q # r
    <3>1. u = txn[q] /\ Sound(u)
      BY <1>3, <2>1, <2>3 DEF LeadsInv, TxnInv
    <3>2. ASSUME NEW l \in DOMAIN u.write PROVE lead'[l].exists = lead[l].exists
      <4>1. l \in Lead /\ lead[l].exists \in BOOLEAN
        BY <3>1 DEF Sound, LeadsInv, RowsInv
      <4>2. l \in DOMAIN t.write => lead[l].exists
        BY <1>1, <2>3, <3>1 DEF LeadsInv, TxnInv
      <4> QED BY <1>6, <4>1, <4>2
    <3>3. Sound(u)'
      BY <1>2, <1>5, <3>1, <3>2, SoundPersists
    <3> QED BY <2>1, <3>3
  <2> QED BY <2>2, <2>3
<1>8. DOMAIN NoTxn.write = {}
  BY DEF NoTxn
<1>9. ASSUME NEW q \in Request, NEW p \in Request, q # p,
             NEW l \in DOMAIN txn'[q].write \cap DOMAIN txn'[p].write
      PROVE  lead'[l].exists
  <2>1. CASE q = r \/ p = r
    BY <1>3, <1>8, <1>9, <2>1
  <2>2. CASE q # r /\ p # r
    <3>1. l \in DOMAIN txn[q].write \cap DOMAIN txn[p].write
      BY <1>3, <1>9, <2>2
    <3>2. lead[l].exists /\ l \in Lead
      BY <1>9, <3>1 DEF LeadsInv, TxnInv, Sound
    <3> QED BY <1>6, <3>2
  <2> QED BY <2>1, <2>2
<1>10. TxnInv'
  BY <1>3, <1>7, <1>9 DEF TxnInv
<1>11. CurrentInv'
  <2> SUFFICES ASSUME OneRequest, NEW q \in Request PROVE Current(txn[q])'
    BY DEF CurrentInv, OneRequest
  <2>1. txn'[q] = NoTxn
    BY <1>3 DEF OneRequest
  <2> QED BY <1>4, <2>1
<1> QED
  BY <1>10, <1>11

(* The entries about a lead that lives on and inherits nothing stay, and    *)
(* are joined by those of the request about it.                             *)
LEMMA CommittedEntries ==
  ASSUME LeadsInv, NEW r \in Request, NEW t, t = txn[r], Commit(r),
         NEW l \in Lead, l \notin merged', ~lead'[l].deleted
  PROVE  /\ \A i \in 1 .. Len(timeline) :
              /\ timeline'[i].lead = l <=> timeline[i].lead = l
              /\ timeline'[i].to = timeline[i].to
              /\ timeline'[i].cs = timeline[i].cs
         /\ \A k \in 1 .. Len(t.entries) :
              /\ timeline'[Len(timeline) + k].lead = t.entries[k].lead
              /\ timeline'[Len(timeline) + k].to = t.entries[k].to
              /\ timeline'[Len(timeline) + k].cs = Len(changesets) + 1
<1>1. \A i \in 1 .. Len(timeline) :
        /\ timeline'[i].cs = timeline[i].cs
        /\ timeline'[i].to = timeline[i].to
        /\ \/ timeline'[i].lead = timeline[i].lead
           \/ \E m \in t.moved : /\ m.from = timeline[i].lead
                                 /\ timeline'[i].lead = m.to
  BY CommittedTimeline
<1>2. \A k \in 1 .. Len(t.entries) :
        /\ timeline'[Len(timeline) + k].lead = t.entries[k].lead
        /\ timeline'[Len(timeline) + k].to = t.entries[k].to
        /\ timeline'[Len(timeline) + k].cs = Len(changesets) + 1
  BY CommittedTimeline, SMTT(30)
<1>3. Sound(t) /\ (l \in DOMAIN t.write /\ t.write[l].deleted => lead'[l].deleted)
  BY CommittedRows
<1>4. merged' = merged \cup {m.to : m \in t.moved}
  BY DEF Commit
<1>5. \A m \in t.moved : m.to # l /\ m.from # l
  <2>1. \A m \in t.moved : m.to \in merged'
    BY <1>4
  <2>2. \A m \in t.moved : m.from \in DOMAIN t.write /\ t.write[m.from].deleted = TRUE
    BY <1>3 DEF Sound
  <2> QED BY <1>3, <2>1, <2>2
<1> QED
  BY <1>1, <1>2, <1>5

LEMMA CommitKeepsTold ==
  ASSUME LeadsInv, NEW r \in Request, Commit(r)
  PROVE  ToldInv'
<1>0. PICK t : t = txn[r]
  OBVIOUS
<1>1. /\ Sound(t) /\ \A k \in Lead : k \notin DOMAIN t.write => lead'[k] = lead[k]
      /\ \A k \in DOMAIN t.write :
           /\ lead[k].deleted => lead'[k].deleted
           /\ \A y \in Told :
                Get(lead'[k], y) = IF Get(t.write[k], y) = Get(t.read[k], y)
                                   THEN Get(lead[k], y) ELSE Get(t.write[k], y)
  <2>1. Sound(t)
    BY <1>0, CommittedRows
  <2>2. \A k \in Lead : k \notin DOMAIN t.write => lead'[k] = lead[k]
    BY <1>0, CommittedRows
  <2>3. \A k \in DOMAIN t.write : t.write[k].deleted \/ lead[k].deleted => lead'[k].deleted
    BY <1>0, CommittedRows
  <2>4. ASSUME NEW k \in DOMAIN t.write, NEW y \in Told
        PROVE  /\ Get(t.write[k], y) = Get(t.read[k], y) =>
                    Get(lead'[k], y) = Get(lead[k], y)
               /\ Get(t.write[k], y) # Get(t.read[k], y) =>
                    Get(lead'[k], y) = Get(t.write[k], y)
    BY <1>0, CommittedTarget
  <2> QED BY <2>1, <2>2, <2>3, <2>4
<1> SUFFICES ASSUME NEW l \in Lead, l \notin merged', NEW x \in Told,
                    lead'[l].exists, ~lead'[l].deleted
             PROVE  Get(lead'[l], x) = LastTold(l, x)'
  BY DEF ToldInv, Told, OneRequest, Get, Live
<1>len. PICK n, h : n = Len(timeline) /\ h = Len(t.entries)
  OBVIOUS
<1>2. /\ n \in Nat /\ h \in Nat /\ DOMAIN timeline = 1 .. n
      /\ DOMAIN t.entries = 1 .. h /\ DOMAIN timeline' = 1 .. (n + h)
  BY <1>0, <1>len, CommittedTimeline
<1>3. /\ \A i \in 1 .. n : /\ timeline'[i].lead = l <=> timeline[i].lead = l
                           /\ timeline'[i].to = timeline[i].to
      /\ \A k \in 1 .. h : /\ timeline'[n + k].lead = t.entries[k].lead
                           /\ timeline'[n + k].to = t.entries[k].to
  BY <1>0, <1>len, CommittedEntries
<1>4. PICK I : I = {i \in 1 .. n : timeline[i].lead = l /\ x \in DOMAIN timeline[i].to}
  OBVIOUS
<1>5. PICK J : J = {i \in 1 .. (n + h) : /\ timeline'[i].lead = l
                                         /\ x \in DOMAIN timeline'[i].to}
  OBVIOUS
<1>6. /\ LastTold(l, x) = IF I = {} THEN Get(born[l], x) ELSE timeline[Max(I)].to[x]
      /\ LastTold(l, x)' = IF J = {} THEN Get(born'[l], x) ELSE timeline'[Max(J)].to[x]
  BY <1>2, <1>4, <1>5 DEF LastTold, Telling, Get, Max
<1>7. \A i \in 1 .. n : i \in J <=> i \in I
  <2>1. \A i \in 1 .. n : i \in 1 .. (n + h)
    BY <1>2
  <2> QED BY <1>3, <1>4, <1>5, <2>1
<1>8. \A k \in 1 .. h :
        n + k \in J <=> t.entries[k].lead = l /\ x \in DOMAIN t.entries[k].to
  <2>1. \A k \in 1 .. h : n + k \in 1 .. (n + h)
    BY <1>2
  <2> QED BY <1>3, <1>5, <2>1
<1>9. \A j \in 1 .. (n + h) : j \in 1 .. n \/ \E k \in 1 .. h : j = n + k
  <2> SUFFICES ASSUME NEW j \in 1 .. (n + h), j \notin 1 .. n
               PROVE  \E k \in 1 .. h : j = n + k
    OBVIOUS
  <2>1. j - n \in 1 .. h /\ j = n + (j - n)
    BY <1>2
  <2> QED BY <2>1
<1>10. /\ Sound(t) /\ x \in Target /\ l \notin merged
       /\ l \notin DOMAIN t.write => lead'[l] = lead[l]
       /\ l \in DOMAIN t.write =>
            /\ lead[l].deleted => lead'[l].deleted
            /\ Get(lead'[l], x) = IF Get(t.write[l], x) = Get(t.read[l], x)
                                  THEN Get(lead[l], x) ELSE Get(t.write[l], x)
  <2>1. x \in Target
    BY DEF Told
  <2>2. l \notin merged
    BY DEF Commit
  <2> QED BY <1>1, <2>1, <2>2
<1>11. Recording(t)
  BY <1>10 DEF Sound
<1>12. CASE \E k \in DOMAIN t.entries : /\ t.entries[k].lead = l
                                        /\ x \in DOMAIN t.entries[k].to
  <2>1. PICK k \in 1 .. h : t.entries[k].lead = l /\ x \in DOMAIN t.entries[k].to
    BY <1>2, <1>12
  <2>2. n + k \in J
    BY <1>8, <2>1
  <2>3. ASSUME NEW j \in J PROVE j <= n + k
    <3>1. CASE j \in 1 .. n
      BY <1>2, <3>1
    <3>2. CASE \E a \in 1 .. h : j = n + a
      <4>1. PICK a \in 1 .. h : j = n + a
        BY <3>2
      <4>2. t.entries[a].lead = l
        BY <1>8, <2>3, <4>1
      <4>3. a = k
        BY <1>2, <1>11, <2>1, <4>2 DEF Recording
      <4> QED BY <1>2, <4>1, <4>3
    <3> QED BY <1>5, <1>9, <3>1, <3>2
  <2>4. Max(J) = n + k
    <3>1. J \in SUBSET Int
      BY <1>2, <1>5
    <3> QED BY <2>2, <2>3, <3>1, GreatestIs
  <2>5. LastTold(l, x)' = t.entries[k].to[x]
    BY <1>3, <1>6, <2>2, <2>4
  <2>6. /\ l \in DOMAIN t.write
        /\ t.entries[k].from[x] = Get(t.read[l], x)
        /\ t.entries[k].to[x] = Get(t.write[l], x)
        /\ t.entries[k].from[x] # t.entries[k].to[x]
    BY <1>2, <1>10, <1>11, <2>1 DEF Recording
  <2> QED BY <1>10, <2>5, <2>6
<1>13. CASE ~\E k \in DOMAIN t.entries : /\ t.entries[k].lead = l
                                         /\ x \in DOMAIN t.entries[k].to
  <2>1. J = I
    <3>1. ASSUME NEW j \in J PROVE j \in I
      <4>1. j \notin 1 .. n => FALSE
        <5> SUFFICES ASSUME NEW k \in 1 .. h, j = n + k PROVE FALSE
          BY <1>5, <1>9
        <5> QED BY <1>2, <1>8, <1>13
      <4> QED BY <1>7, <4>1
    <3>2. ASSUME NEW i \in I PROVE i \in J
      BY <1>4, <1>7
    <3> QED BY <3>1, <3>2
  <2>2. I # {} => Max(I) \in 1 .. n
    BY <1>2, <1>4, LastIndex
  <2>3. CASE lead[l].exists
    <3>1. born'[l] = born[l]
      BY <2>3 DEF Commit
    <3>2. LastTold(l, x)' = LastTold(l, x)
      BY <1>3, <1>6, <2>1, <2>2, <3>1
    <3>3. ~lead[l].deleted
      BY <1>10
    <3>4. Get(lead[l], x) = LastTold(l, x)
      BY <1>10, <2>3, <3>3 DEF LeadsInv, ToldInv, Live
    <3>5. Get(lead'[l], x) = Get(lead[l], x)
      <4>1. l \in DOMAIN t.write => Get(t.read[l], x) = Get(t.write[l], x)
        BY <1>10, <1>11, <1>13, <2>3 DEF Recording
      <4> QED BY <1>10, <4>1
    <3> QED BY <3>2, <3>4, <3>5
  <2>4. CASE ~lead[l].exists
    <3>1. born'[l] = lead'[l]
      BY <2>4 DEF Commit
    <3>2. I = {}
      BY <1>2, <1>4, <2>4 DEF LeadsInv, TimelineInv
    <3> QED BY <1>6, <2>1, <3>1, <3>2
  <2> QED BY <2>3, <2>4
<1> QED
  BY <1>12, <1>13

(* The invariant. *)
LEMMA InitLeads == Init => LeadsInv
<1> SUFFICES ASSUME Init PROVE LeadsInv
  OBVIOUS
<1>1. /\ lead = [l \in Lead |-> Blank] /\ timeline = <<>> /\ changesets = <<>>
      /\ txn = [r \in Request |-> NoTxn] /\ born = lead /\ merged = {}
  BY DEF Init
<1>2. Blank.exists = FALSE /\ Blank.deleted = FALSE
  BY DEF Blank
<1>3. RowsInv
  BY <1>1, <1>2 DEF RowsInv
<1>4. TimelineInv
  <2>1. /\ IsSequence(timeline) /\ DOMAIN timeline = {}
        /\ IsSequence(changesets) /\ DOMAIN changesets = {}
    BY <1>1 DEF IsSequence
  <2> QED BY <2>1 DEF TimelineInv
<1>5. Sound(NoTxn) /\ Current(NoTxn) /\ DOMAIN NoTxn.write = {}
  BY <1>4, NoTxnIs DEF NoTxn
<1>6. \A r \in Request : txn[r] = NoTxn
  BY <1>1
<1>7. TxnInv
  BY <1>1, <1>5, <1>6 DEF TxnInv
<1>8. CurrentInv
  BY <1>5, <1>6 DEF CurrentInv
<1>9. ToldInv
  BY <1>1, <1>2 DEF ToldInv, Live
<1> QED
  BY <1>3, <1>4, <1>7, <1>8, <1>9 DEF LeadsInv

(* Whatever a request begins is ready. *)
LEMMA EditReady ==
  ASSUME RowsInv, TimelineInv, NEW r \in Request, Edit(r) \/ Undo(r)
  PROVE  \E t : Ready(r, t) /\ Begin(r, t)
<1>1. CASE \E l \in Lead, p \in Patch, m \in Member \cup {None} : BeginCreate(r, l, p, m)
  BY <1>1, CreateReady
<1>2. CASE \E S \in SUBSET Lead, p \in Patch : BeginUpdate(r, S, p)
  BY <1>2, UpdateReady
<1>3. CASE \E l \in Lead, p \in Patch : BeginIntake(r, l, p)
  BY <1>3, IntakeReady
<1>4. CASE \E l \in Lead : BeginDelete(r, l)
  BY <1>4, DeleteReady
<1>5. CASE \E l \in Lead, s \in Score : BeginLog(r, l, s)
  BY <1>5, LogReady
<1>6. CASE \E k, l \in Lead : BeginMerge(r, k, l)
  BY <1>6, MergeReady
<1>7. CASE \E m, n \in Member : BeginReassign(r, m, n)
  BY <1>7, ReassignReady
<1>8. CASE Undo(r)
  BY <1>8, UndoReady DEF Undo
<1> QED
  BY <1>1, <1>2, <1>3, <1>4, <1>5, <1>6, <1>7, <1>8 DEF Edit

LEMMA LeadsAlways == LeadsInv /\ [Next]_vars => LeadsInv'
<1> SUFFICES ASSUME LeadsInv, [Next]_vars PROVE LeadsInv'
  OBVIOUS
<1>1. ASSUME NEW r \in Request, Edit(r) \/ Undo(r) PROVE LeadsInv'
  <2>1. PICK t : Ready(r, t) /\ Begin(r, t)
    BY <1>1, EditReady DEF LeadsInv
  <2> QED BY <2>1, BeginKeeps
<1>2. ASSUME NEW r \in Request, Commit(r) PROVE LeadsInv'
  BY <1>2, CommitKeepsRows, CommitKeepsTimeline, CommitKeepsTxn, CommitKeepsTold
     DEF LeadsInv
<1>3. ASSUME NEW r \in Request, Abort(r) PROVE LeadsInv'
  BY <1>3, AbortKeeps
<1>4. CASE UNCHANGED vars
  <2>1. UNCHANGED <<lead, timeline, changesets, txn, born, merged>>
    BY <1>4 DEF vars
  <2>2. RowsInv' /\ TimelineInv' /\ ToldInv'
    BY <2>1, RowsStay DEF LeadsInv
  <2>3. ASSUME NEW q \in Request PROVE Sound(txn[q])'
    <3>1. PICK u : u = txn[q]
      OBVIOUS
    <3>2. Sound(u)
      BY <3>1 DEF LeadsInv, TxnInv
    <3>3. Sound(u)'
      BY <2>1, <3>2, SoundStays
    <3> QED BY <2>1, <3>1, <3>3
  <2>4. TxnInv'
    BY <2>1, <2>3 DEF LeadsInv, TxnInv
  <2>5. CurrentInv'
    BY <2>1 DEF LeadsInv, CurrentInv, OneRequest, Current
  <2> QED BY <2>2, <2>4, <2>5 DEF LeadsInv
<1> QED
  BY <1>1, <1>2, <1>3, <1>4 DEF Next

(* In every state the rows and the timeline are well-formed, and whatever a *)
(* request is about to write is backed by the entries it is about to append *)
(* (services/leads.py: one transaction writes the row and its actions).     *)
THEOREM LeadsInvariant == Spec => []LeadsInv
BY InitLeads, LeadsAlways, PTL DEF Spec

(* When nobody stamped a later action about a target than the last to       *)
(* commit, that one is the last of the timeline.                            *)
LEMMA LastIsSaid ==
  ASSUME TimelineInv, NEW l, NEW x, InOrder(l, x)
  PROVE  Said(l, x) = LastTold(l, x)
<1> DEFINE I == Telling(l, x)
           Final(i) == \A j \in I \ {i} : Before(j, i)
<1>1. /\ Said(l, x) = IF I = {} THEN Get(born[l], x)
                      ELSE timeline[CHOOSE i \in I : Final(i)].to[x]
      /\ LastTold(l, x) = IF I = {} THEN Get(born[l], x) ELSE timeline[Max(I)].to[x]
  BY DEF Said, LastTold
<1>2. I # {} => overtook[Max(I)] \cap I = {}
  BY DEF InOrder
<1>3. PICK n : n = Len(timeline)
  OBVIOUS
<1>4. n \in Nat /\ I \subseteq 1 .. n
  BY <1>3 DEF TimelineInv, IsSequence, Telling
<1>5. CASE I = {}
  BY <1>1, <1>5
<1>6. CASE I # {}
  <2> HIDE DEF I
  <2>1. PICK m : m = Max(I)
    OBVIOUS
  <2>2. m \in I /\ \A j \in I : j <= m
    BY <1>4, <1>6, <2>1, LastIndex
  <2>3. Final(m)
    BY <1>2, <1>4, <1>6, <2>1, <2>2 DEF Before
  <2>4. ASSUME NEW i \in I, Final(i) PROVE i = m
    <3> SUFFICES ASSUME i # m PROVE FALSE
      OBVIOUS
    <3>1. Before(m, i)
      BY <2>2, <2>4
    <3>2. i < m
      BY <1>4, <2>2
    <3>3. i \in overtook[m]
      BY <1>4, <2>2, <3>1, <3>2 DEF Before
    <3> QED BY <1>2, <1>6, <2>1, <3>3
  <2> HIDE DEF Final
  <2>5. (CHOOSE i \in I : Final(i)) = m
    BY <2>2, <2>3, <2>4
  <2> QED BY <1>1, <1>6, <2>1, <2>5
<1> QED
  BY <1>5, <1>6

(* Whatever the requests and their interleaving, the stage, the assignee    *)
(* and the rating of a lead are what its timeline last said they became     *)
(* (flush of Lead in update_lead, bulk_update, undo and merge), unless an   *)
(* action committed before the last one about it is stamped after it.       *)
THEOREM ColumnsTold == Spec => []ColumnsMatchTimeline
<1>1. LeadsInv => ColumnsMatchTimeline
  <2> SUFFICES ASSUME LeadsInv, NEW l \in Lead \ merged, NEW x \in Columns,
                      Live(l), InOrder(l, x)
               PROVE  lead[l][x] = Said(l, x)
    BY DEF ColumnsMatchTimeline
  <2>1. x \in Told
    BY DEF Told, Target
  <2>2. Get(lead[l], x) = LastTold(l, x)
    BY <2>1 DEF LeadsInv, ToldInv
  <2>3. Said(l, x) = LastTold(l, x)
    BY LastIsSaid DEF LeadsInv
  <2> QED BY <2>2, <2>3, ColumnsOf
<1> QED
  BY <1>1, LeadsInvariant, PTL

-----------------------------------------------------------------------------
(* Identities.  What a request stages gives a lead an identity no live lead *)
(* has, or leaves the lead the one it had.                                  *)
Fresh(t) ==
  /\ t.since = Len(changesets)
  /\ \A l \in DOMAIN t.write : lead[l].exists \/ Renamed(t, l)
  /\ \A l \in DOMAIN t.write :
       Renamed(t, l) =>
         t.opens /\ t.write[l].ident # None /\ IdentityFree(t.write[l].ident)

SameIdentity(old, new) == old.exists /\ new.ident = old.ident

Given(old, new) ==
  /\ new.ident # None /\ IdentityFree(new.ident)
  /\ old.exists \/ new.ident # old.ident

LEMMA FreshIs ==
  ASSUME NEW S, NEW new, DOMAIN new = S,
         \A l \in S : SameIdentity(lead[l], new[l]) \/ Given(lead[l], new[l]),
         NEW t, t.write = new, t.read = [l \in S |-> lead[l]],
         t.since = Len(changesets), t.opens = TRUE
  PROVE  Fresh(t)
BY DEF Fresh, Renamed, SameIdentity, Given

LEMMA BatchFresh ==
  ASSUME NEW S, NEW new, DOMAIN new = S, NEW order,
         \A l \in S : SameIdentity(lead[l], new[l]) \/ Given(lead[l], new[l])
  PROVE  Fresh(Batch(S, new, order))
<1>1. PICK t : t = Batch(S, new, order)
  OBVIOUS
<1>2. /\ t.write = new /\ t.read = [l \in S |-> lead[l]]
      /\ t.since = Len(changesets) /\ t.opens = TRUE
  BY <1>1 DEF Batch, Staged, NoTxn
<1> QED
  BY <1>1, <1>2, FreshIs

LEMMA IdentityOf ==
  ASSUME NEW row, DOMAIN row = DOMAIN Blank, NEW p
  PROVE  /\ Patched(row, p).ident = ValuesPatched(row, p).ident
         /\ ValuesPatched(row, p).ident =
              IF IdentityField \in DOMAIN p /\ p[IdentityField] # None
              THEN p[IdentityField] ELSE row.ident
         /\ Reverted(row, p).ident = row.ident
<1> DEFINE mid == ValuesPatched(row, p)
<1>1. /\ DOMAIN mid = DOMAIN Blank
      /\ mid.ident = IF IdentityField \in DOMAIN p /\ p[IdentityField] # None
                     THEN p[IdentityField] ELSE row.ident
  BY ColumnsOf DEF ValuesPatched
<1>2. Patched(row, p).ident = mid.ident
  <2> HIDE DEF mid
  <2> QED BY <1>1, ColumnsOf DEF Patched, mid
<1>3. Reverted(row, p).ident = row.ident
  BY ColumnsOf DEF Reverted
<1> QED
  BY <1>1, <1>2, <1>3

LEMMA CreateFresh ==
  ASSUME RowsInv, NEW r \in Request, NEW l \in Lead, NEW p, NEW member,
         BeginCreate(r, l, p, member)
  PROVE  \E t : Fresh(t) /\ Begin(r, t)
<1>1. PICK row : row =
        [Blank EXCEPT
           !.exists = TRUE,
           !.ident = p[IdentityField],
           !.values = [f \in Field |-> IF f \in DOMAIN p THEN p[f] ELSE None],
           !.stage = IF "stage" \in DOMAIN p THEN p["stage"] ELSE InitialStage,
           !.assignee = member,
           !.rating = IF "rating" \in DOMAIN p THEN p["rating"] ELSE None]
  OBVIOUS
<1>2. PICK entries : entries =
        IF member = None THEN <<>>
        ELSE <<Entry(l, At(Blank, {"assignee"}), At(row, {"assignee"}), 0)>>
  OBVIOUS
<1>3. PICK t : t = Staged({l}, [k \in {l} |-> row], entries)
  OBVIOUS
<1>4. /\ Begin(r, t) /\ ~lead[l].exists
      /\ p[IdentityField] # None /\ IdentityFree(p[IdentityField])
  BY <1>1, <1>2, <1>3 DEF BeginCreate
<1>5. row.ident = p[IdentityField]
  BY <1>1 DEF Blank
<1>6. lead[l].ident = None
  BY <1>4 DEF RowsInv, Blank
<1>7. Given(lead[l], row)
  BY <1>4, <1>5, <1>6 DEF Given
<1>8. /\ t.write = [k \in {l} |-> row] /\ t.read = [k \in {l} |-> lead[l]]
      /\ t.since = Len(changesets) /\ t.opens = TRUE
  BY <1>3 DEF Staged, NoTxn
<1>9. Fresh(t)
  <2>1. PICK S, new : S = {l} /\ new = [k \in S |-> row]
    OBVIOUS
  <2>2. \A k \in S : Given(lead[k], new[k])
    BY <1>7, <2>1
  <2>3. DOMAIN new = S /\ t.write = new /\ t.read = [k \in S |-> lead[k]]
    BY <1>8, <2>1
  <2> QED BY <1>8, <2>2, <2>3, FreshIs
<1> QED
  BY <1>4, <1>9

LEMMA UpdateFresh ==
  ASSUME RowsInv, NEW r \in Request, NEW S \in SUBSET Lead, NEW p,
         BeginUpdate(r, S, p)
  PROVE  \E t : Fresh(t) /\ Begin(r, t)
<1>1. PICK new : new = [l \in S |-> Patched(lead[l], p)]
  OBVIOUS
<1>2. PICK order \in Orders(Changed(S, new)) : Begin(r, Batch(S, new, order))
  BY <1>1 DEF BeginUpdate
<1>3. ASSUME NEW l \in S PROVE SameIdentity(lead[l], new[l]) \/ Given(lead[l], new[l])
  <2>1. Live(l) /\ ~IdentityTaken(lead[l], p)
    BY DEF BeginUpdate, Accepted
  <2>2. DOMAIN lead[l] = DOMAIN Blank
    BY DEF RowsInv
  <2>3. PICK i : i = ValuesPatched(lead[l], p).ident
    OBVIOUS
  <2>4. /\ new[l].ident = i
        /\ i = lead[l].ident \/ (i # None /\ i # lead[l].ident)
    <3>1. new[l] = Patched(lead[l], p)
      BY <1>1
    <3>2. new[l].ident = i
      <4>1. PICK old : old = lead[l]
        OBVIOUS
      <4>2. Patched(old, p).ident = ValuesPatched(old, p).ident
        BY <2>2, <4>1, IdentityOf
      <4> QED BY <2>3, <3>1, <4>1, <4>2
    <3>3. i = IF IdentityField \in DOMAIN p /\ p[IdentityField] # None
              THEN p[IdentityField] ELSE lead[l].ident
      BY <2>2, <2>3, IdentityOf
    <3> QED BY <3>2, <3>3
  <2>5. i # lead[l].ident => IdentityFree(i)
    BY <2>1, <2>3 DEF IdentityTaken
  <2> QED BY <2>1, <2>4, <2>5 DEF SameIdentity, Given, Live
<1>4. Fresh(Batch(S, new, order))
  BY <1>1, <1>3, BatchFresh
<1> QED
  BY <1>2, <1>4

LEMMA IntakeFresh ==
  ASSUME RowsInv, NEW r \in Request, NEW l \in Lead, NEW p, BeginIntake(r, l, p)
  PROVE  \E t : Fresh(t) /\ Begin(r, t)
<1> DEFINE refused == StageRefused(lead[l], p)
           row == IF refused THEN ValuesPatched(lead[l], p) ELSE Patched(lead[l], p)
<1>1. PICK new : new = [k \in {l} |-> row]
  OBVIOUS
<1>2. PICK order \in Orders(Changed({l}, new)) :
        Begin(r, [Batch({l}, new, order) EXCEPT !.rejected = refused])
  BY <1>1 DEF BeginIntake
<1>3. Live(l) /\ p[IdentityField] = lead[l].ident /\ DOMAIN lead[l] = DOMAIN Blank
  BY DEF BeginIntake, RowsInv
<1>4. row.ident = lead[l].ident
  <2>1. PICK old : old = lead[l]
    OBVIOUS
  <2>2. /\ Patched(old, p).ident = ValuesPatched(old, p).ident
        /\ ValuesPatched(old, p).ident =
             IF IdentityField \in DOMAIN p /\ p[IdentityField] # None
             THEN p[IdentityField] ELSE old.ident
    BY <1>3, <2>1, IdentityOf
  <2>3. ValuesPatched(old, p).ident = old.ident
    BY <1>3, <2>1, <2>2
  <2> QED BY <2>1, <2>2, <2>3
<1> HIDE DEF row, refused
<1>5. PICK t : t = [Batch({l}, new, order) EXCEPT !.rejected = refused]
  OBVIOUS
<1>6. /\ t.write = new /\ t.read = [k \in {l} |-> lead[k]]
      /\ t.since = Len(changesets) /\ t.opens = TRUE
  BY <1>5 DEF Batch, Staged, NoTxn
<1>7. SameIdentity(lead[l], new[l])
  BY <1>1, <1>3, <1>4 DEF SameIdentity, Live
<1>8. Fresh(t)
  <2>1. DOMAIN new = {l}
    BY <1>1
  <2> QED BY <1>6, <1>7, <2>1, FreshIs
<1> QED
  BY <1>2, <1>5, <1>8

LEMMA DeleteFresh ==
  ASSUME RowsInv, NEW r \in Request, NEW l \in Lead, BeginDelete(r, l)
  PROVE  \E t : Fresh(t) /\ Begin(r, t)
<1>1. PICK row : row = [lead[l] EXCEPT !.deleted = TRUE]
  OBVIOUS
<1>2. PICK t : t = [Staged({l}, [k \in {l} |-> row], <<>>) EXCEPT !.opens = FALSE]
  OBVIOUS
<1>3. Live(l) /\ Begin(r, t)
  BY <1>1, <1>2 DEF BeginDelete
<1>4. row.ident = lead[l].ident
  BY <1>1, ColumnsOf DEF RowsInv
<1>5. /\ t.write = [k \in {l} |-> row] /\ t.read = [k \in {l} |-> lead[k]]
      /\ t.since = Len(changesets) /\ t.opens = FALSE
  BY <1>2 DEF Staged, NoTxn
<1>6. \A k \in DOMAIN t.write : lead[k].exists /\ ~Renamed(t, k)
  BY <1>3, <1>4, <1>5 DEF Renamed, Live
<1>7. Fresh(t)
  BY <1>5, <1>6 DEF Fresh
<1> QED
  BY <1>3, <1>7

LEMMA LogFresh ==
  ASSUME RowsInv, NEW r \in Request, NEW l \in Lead, NEW score, BeginLog(r, l, score)
  PROVE  \E t : Fresh(t) /\ Begin(r, t)
<1>1. PICK row : row = [lead[l] EXCEPT !.score = @ + score]
  OBVIOUS
<1>2. PICK entries : entries = <<Entry(l, At(row, {}), At(row, {}), score)>>
  OBVIOUS
<1>3. PICK t : t = Staged({l}, [k \in {l} |-> row], entries)
  OBVIOUS
<1>4. Live(l) /\ Begin(r, t)
  BY <1>1, <1>2, <1>3 DEF BeginLog
<1>5. row.ident = lead[l].ident
  BY <1>1, ColumnsOf DEF RowsInv
<1>6. /\ t.write = [k \in {l} |-> row] /\ t.read = [k \in {l} |-> lead[k]]
      /\ t.since = Len(changesets) /\ t.opens = TRUE
  BY <1>3 DEF Staged, NoTxn
<1>7. Fresh(t)
  BY <1>4, <1>5, <1>6, FreshIs DEF SameIdentity, Live
<1> QED
  BY <1>4, <1>7

LEMMA MergeFresh ==
  ASSUME RowsInv, NEW r \in Request, NEW primary \in Lead, NEW other \in Lead,
         BeginMerge(r, primary, other)
  PROVE  \E t : Fresh(t) /\ Begin(r, t)
<1>1. PICK filled : filled =
        [lead[primary] EXCEPT
           !.values = [f \in Field |-> IF @[f] = None THEN lead[other].values[f]
                                       ELSE @[f]],
           !.score = @ + lead[other].score]
  OBVIOUS
<1>2. PICK gone : gone = [lead[other] EXCEPT !.deleted = TRUE]
  OBVIOUS
<1>3. PICK new : new = [l \in {primary, other} |-> IF l = primary THEN filled ELSE gone]
  OBVIOUS
<1>4. PICK moved : moved = {[from |-> other, to |-> primary, upto |-> Len(timeline)]}
  OBVIOUS
<1>5. PICK order \in Orders(Changed({primary, other}, new)) :
        Begin(r, [Batch({primary, other}, new, order) EXCEPT !.moved = moved])
  BY <1>1, <1>2, <1>3, <1>4 DEF BeginMerge
<1>6. Live(primary) /\ Live(other)
  BY DEF BeginMerge
<1>7. filled.ident = lead[primary].ident /\ gone.ident = lead[other].ident
  BY <1>1, <1>2, ColumnsOf DEF RowsInv
<1>8. \A l \in {primary, other} : SameIdentity(lead[l], new[l])
  BY <1>3, <1>6, <1>7 DEF SameIdentity, Live
<1>9. PICK t : t = [Batch({primary, other}, new, order) EXCEPT !.moved = moved]
  OBVIOUS
<1>10. /\ t.write = new /\ t.read = [k \in {primary, other} |-> lead[k]]
       /\ t.since = Len(changesets) /\ t.opens = TRUE
  BY <1>9 DEF Batch, Staged, NoTxn
<1>11. Fresh(t)
  <2>1. DOMAIN new = {primary, other}
    BY <1>3
  <2> QED BY <1>8, <1>10, <2>1, FreshIs
<1> QED
  BY <1>5, <1>9, <1>11

LEMMA ReassignFresh ==
  ASSUME RowsInv, NEW r \in Request, NEW leaver, NEW successor,
         BeginReassign(r, leaver, successor)
  PROVE  \E t : Fresh(t) /\ Begin(r, t)
<1>1. PICK S \in SUBSET Lead : S = OpenLeadsOf(leaver)
  BY DEF OpenLeadsOf
<1>2. PICK new : new = [l \in S |-> [lead[l] EXCEPT !.assignee = successor]]
  OBVIOUS
<1>3. PICK order \in Orders(Changed(S, new)) : Begin(r, Batch(S, new, order))
  BY <1>1, <1>2 DEF BeginReassign
<1>4. \A l \in S : SameIdentity(lead[l], new[l])
  BY <1>1, <1>2, ColumnsOf DEF OpenLeadsOf, RowsInv, Live, SameIdentity
<1>5. Fresh(Batch(S, new, order))
  BY <1>2, <1>4, BatchFresh
<1> QED
  BY <1>3, <1>5

LEMMA UndoFresh ==
  ASSUME RowsInv, TimelineInv, NEW r \in Request, NEW c, NEW viewers, NEW skip,
         BeginUndo(r, c, viewers, skip)
  PROVE  \E t : Fresh(t) /\ Begin(r, t)
<1>1. PICK S \in SUBSET Lead : S = Reversible(c, viewers)
  BY DEF Reversible, Planned
<1>2. PICK new : new = [l \in S |-> Reverted(lead[l], Plan(c, l))]
  OBVIOUS
<1>3. PICK order \in Orders(S) :
        Begin(r, [Staged(S, new, [i \in DOMAIN order |->
                             LET l == order[i]
                             IN Entry(l, At(lead[l], Touched(c, l)), Plan(c, l), 0)])
                    EXCEPT !.undoes = c, !.viewers = viewers])
  BY <1>1, <1>2 DEF BeginUndo
<1>4. PICK es : es = [i \in DOMAIN order |->
                        Entry(order[i], At(lead[order[i]], Touched(c, order[i])),
                              Plan(c, order[i]), 0)]
  OBVIOUS
<1>5. PICK t : t = [Staged(S, new, es) EXCEPT !.undoes = c, !.viewers = viewers]
  OBVIOUS
<1>6. Begin(r, t)
  BY <1>3, <1>4, <1>5
<1>7. ASSUME NEW l \in S PROVE SameIdentity(lead[l], new[l])
  <2>1. l \in Lead /\ Touched(c, l) # {}
    BY <1>1 DEF Reversible, Planned
  <2>2. lead[l].exists
    BY <2>1 DEF Touched, EntriesOf, TimelineInv
  <2>3. new[l].ident = lead[l].ident
    BY <1>2, <2>1, IdentityOf DEF RowsInv
  <2> QED BY <2>2, <2>3 DEF SameIdentity
<1>8. /\ t.write = new /\ t.read = [k \in S |-> lead[k]]
      /\ t.since = Len(changesets) /\ t.opens = TRUE
  BY <1>5 DEF Staged, NoTxn
<1>9. Fresh(t)
  BY <1>2, <1>7, <1>8, FreshIs
<1> QED
  BY <1>6, <1>9

LEMMA EditFresh ==
  ASSUME RowsInv, TimelineInv, NEW r \in Request, Edit(r) \/ Undo(r)
  PROVE  \E t : Fresh(t) /\ Begin(r, t)
<1>1. CASE \E l \in Lead, p \in Patch, m \in Member \cup {None} : BeginCreate(r, l, p, m)
  BY <1>1, CreateFresh
<1>2. CASE \E S \in SUBSET Lead, p \in Patch : BeginUpdate(r, S, p)
  BY <1>2, UpdateFresh
<1>3. CASE \E l \in Lead, p \in Patch : BeginIntake(r, l, p)
  BY <1>3, IntakeFresh
<1>4. CASE \E l \in Lead : BeginDelete(r, l)
  BY <1>4, DeleteFresh
<1>5. CASE \E l \in Lead, s \in Score : BeginLog(r, l, s)
  BY <1>5, LogFresh
<1>6. CASE \E k, l \in Lead : BeginMerge(r, k, l)
  BY <1>6, MergeFresh
<1>7. CASE \E m, n \in Member : BeginReassign(r, m, n)
  BY <1>7, ReassignFresh
<1>8. CASE Undo(r)
  BY <1>8, UndoFresh DEF Undo
<1> QED
  BY <1>1, <1>2, <1>3, <1>4, <1>5, <1>6, <1>7, <1>8 DEF Edit

(* What a changeset gave an identity to is not rewritten. *)
LEMMA TookStays ==
  ASSUME LeadsInv, IdentityInv, NEW r \in Request, Commit(r),
         NEW c \in DOMAIN changesets, NEW l, NEW i, Took(c, l, i)
  PROVE  Took(c, l, i)'
<1>1. PICK t, n : t = txn[r] /\ n = Len(changesets)
  OBVIOUS
<1>2. /\ n \in Nat /\ DOMAIN changesets = 1 .. n
      /\ \A d \in 1 .. n :
           /\ d = t.undoes => changesets'[d] = [changesets[d] EXCEPT !.undone = TRUE]
           /\ d # t.undoes => changesets'[d] = changesets[d]
  BY <1>1, CommittedReport
<1>3. DOMAIN changesets[c] = {"undone", "undoOf", "rejected", "viewers", "was", "left"}
  BY DEF IdentityInv
<1>4. changesets'[c].left = changesets[c].left /\ changesets'[c].was = changesets[c].was
  BY <1>2, <1>3
<1> QED
  BY <1>4 DEF Took

(* What a commit may turn the identity of a lead into. *)
LEMMA CommittedIdentity ==
  ASSUME LeadsInv, NEW r \in Request, NEW t, t = txn[r], Commit(r), NEW l \in Lead
  PROVE  /\ l \notin DOMAIN t.write => lead'[l] = lead[l]
         /\ l \in DOMAIN t.write =>
              lead'[l].ident = IF Renamed(t, l) THEN t.write[l].ident ELSE lead[l].ident
         /\ lead[l].exists => lead'[l].exists
         /\ lead[l].exists /\ lead[l].deleted => lead'[l].deleted
<1>1. /\ l \notin DOMAIN t.write => lead'[l] = lead[l]
      /\ l \in DOMAIN t.write /\ lead[l].deleted => lead'[l].deleted
      /\ lead[l].exists => lead'[l].exists
  BY CommittedRows
<1>2. ASSUME l \in DOMAIN t.write
      PROVE  lead'[l].ident = IF Renamed(t, l) THEN t.write[l].ident ELSE lead[l].ident
  <2>1. PICK stored, read, write :
          stored = lead[l] /\ read = t.read[l] /\ write = t.write[l]
    OBVIOUS
  <2>2. lead'[l] = Flush(stored, read, write)
    BY <1>2, <2>1 DEF Flushed, Commit
  <2>3. \A c \in DOMAIN Blank :
          lead'[l][c] = IF write[c] = read[c] THEN stored[c] ELSE write[c]
    BY <2>2, FlushOf
  <2>4. lead'[l]["ident"] = IF write["ident"] = read["ident"] THEN stored["ident"]
                            ELSE write["ident"]
    BY <2>3, ColumnsOf
  <2> QED BY <1>2, <2>1, <2>4 DEF Renamed
<1> QED
  BY <1>1, <1>2

LEMMA GuardStays ==
  ASSUME LeadsInv, IdentityInv, NEW r \in Request, Commit(r),
         NEW u, Guarded(u), DOMAIN u.write \subseteq Lead
  PROVE  Guarded(u)'
<1>1. PICK t, n : t = txn[r] /\ n = Len(changesets)
  OBVIOUS
<1>2. /\ n \in Nat /\ DOMAIN changesets = 1 .. n
      /\ Len(changesets') = IF t.opens THEN n + 1 ELSE n
      /\ t.opens =>
           /\ DOMAIN changesets'[n + 1].left = DOMAIN t.write
           /\ \A l \in DOMAIN t.write : /\ changesets'[n + 1].was[l] = lead[l]
                                        /\ changesets'[n + 1].left[l] = lead'[l]
  BY <1>1, CommittedReport
<1>3. Guarded(t) /\ Sound(t)
  BY <1>1 DEF IdentityInv, LeadsInv, TxnInv
<1>4. u.since \in 0 .. Len(changesets')
  BY <1>1, <1>2 DEF Guarded
<1>5. \A l \in DOMAIN u.write : lead'[l].exists \/ Renamed(u, l)
  <2>2. \A l \in Lead : lead[l].exists => lead'[l].exists
    BY CommittedRows
  <2> QED BY <2>2 DEF Guarded
<1>6. ASSUME NEW l \in DOMAIN u.write, Renamed(u, l),
             NEW k \in Lead \ {l}, lead'[k].exists, ~lead'[k].deleted,
             lead'[k].ident = u.write[l].ident
      PROVE  \E c \in (u.since + 1) .. Len(changesets') : Took(c, k, u.write[l].ident)'
  <2>1. PICK i : i = u.write[l].ident
    OBVIOUS
  <2>2. /\ k \notin DOMAIN t.write => lead'[k] = lead[k]
        /\ k \in DOMAIN t.write =>
             lead'[k].ident = IF Renamed(t, k) THEN t.write[k].ident ELSE lead[k].ident
        /\ lead[k].exists /\ lead[k].deleted => lead'[k].deleted
    BY <1>1, CommittedIdentity
  <2>3. CASE Live(k) /\ lead[k].ident = i
    <3>1. PICK c \in (u.since + 1) .. n : Took(c, k, i)
      BY <1>1, <1>6, <2>1, <2>3 DEF Guarded
    <3>2. c \in DOMAIN changesets /\ c \in (u.since + 1) .. Len(changesets')
      BY <1>1, <1>2, <3>1 DEF Guarded
    <3>3. Took(c, k, i)'
      BY <3>1, <3>2, TookStays
    <3> QED BY <2>1, <3>2, <3>3
  <2>4. CASE ~(Live(k) /\ lead[k].ident = i)
    <3>1. k \in DOMAIN t.write
      BY <1>6, <2>1, <2>2, <2>4 DEF Live
    <3>2. Renamed(t, k)
      <4>1. CASE lead[k].exists
        BY <1>6, <2>1, <2>2, <2>4, <3>1, <4>1 DEF Live
      <4>2. CASE ~lead[k].exists
        BY <1>3, <3>1, <4>2 DEF Guarded
      <4> QED BY <4>1, <4>2
    <3>3. t.opens /\ i # None
      BY <1>3, <1>6, <2>1, <3>1, <3>2 DEF Guarded
    <3>4. lead[k].ident # i
      <4>1. CASE lead[k].exists
        BY <1>6, <2>2, <2>4, <4>1 DEF Live
      <4>2. CASE ~lead[k].exists
        BY <3>3, <4>2 DEF LeadsInv, RowsInv, Blank
      <4> QED BY <4>1, <4>2
    <3>5. Took(n + 1, k, i)'
      BY <1>2, <1>6, <2>1, <3>1, <3>3, <3>4 DEF Took
    <3>6. n + 1 \in (u.since + 1) .. Len(changesets')
      BY <1>1, <1>2, <3>3 DEF Guarded
    <3> QED BY <2>1, <3>5, <3>6
  <2> QED BY <2>3, <2>4
<1>7. \A l \in DOMAIN u.write : Renamed(u, l) => u.opens /\ u.write[l].ident # None
  BY DEF Guarded
<1> QED
  BY <1>4, <1>5, <1>6, <1>7 DEF Guarded, Renamed, Live

LEMMA IdentityAlways == LeadsInv /\ IdentityInv /\ [Next]_vars => IdentityInv'
<1> SUFFICES ASSUME LeadsInv, IdentityInv, [Next]_vars PROVE IdentityInv'
  OBVIOUS
<1>1. txn = [q \in Request |-> txn[q]]
  BY DEF LeadsInv, TxnInv
<1>2. Len(changesets) \in Nat
  BY DEF LeadsInv, TimelineInv, IsSequence
<1>3. ASSUME NEW u, Guarded(u), UNCHANGED <<lead, changesets>> PROVE Guarded(u)'
  BY <1>3 DEF Guarded, Took, Renamed, Live
<1>4. Guarded(NoTxn)
  <2>1. DOMAIN NoTxn.write = {} /\ NoTxn.since = 0
    BY DEF NoTxn
  <2> QED BY <1>2, <2>1 DEF Guarded
<1>5. ASSUME NEW r \in Request, Edit(r) \/ Undo(r) PROVE IdentityInv'
  <2>1. PICK t : Fresh(t) /\ Begin(r, t)
    BY <1>5, EditFresh DEF LeadsInv
  <2>2. UNCHANGED <<lead, changesets>> /\ txn' = [txn EXCEPT ![r] = t]
    BY <2>1 DEF Begin
  <2>3. Guarded(t)
    BY <1>2, <2>1 DEF Fresh, Guarded, IdentityFree
  <2>4. ASSUME NEW q \in Request PROVE Guarded(txn[q])'
    <3>1. PICK u : u = txn'[q]
      OBVIOUS
    <3>2. Guarded(u)
      BY <1>1, <2>2, <2>3, <3>1 DEF IdentityInv
    <3>3. Guarded(u)'
      BY <1>3, <2>2, <3>2
    <3> QED BY <3>1, <3>3
  <2> QED BY <2>2, <2>4 DEF IdentityInv, UniqueIdentities, Clash
<1>6. ASSUME NEW r \in Request, Commit(r) PROVE IdentityInv'
  <2>1. UniqueIdentities(lead') /\ txn' = [txn EXCEPT ![r] = NoTxn]
    BY <1>6 DEF Commit
  <2>2. ASSUME NEW c \in DOMAIN changesets'
        PROVE  DOMAIN changesets'[c] =
                 {"undone", "undoOf", "rejected", "viewers", "was", "left"}
    <3>1. PICK t, n : t = txn[r] /\ n = Len(changesets)
      OBVIOUS
    <3>2. /\ n \in Nat /\ DOMAIN changesets = 1 .. n
          /\ DOMAIN changesets' = 1 .. (IF t.opens THEN n + 1 ELSE n)
          /\ \A d \in 1 .. n :
               /\ d = t.undoes => changesets'[d] = [changesets[d] EXCEPT !.undone = TRUE]
               /\ d # t.undoes => changesets'[d] = changesets[d]
          /\ t.opens => DOMAIN changesets'[n + 1] =
                          {"undone", "undoOf", "rejected", "viewers", "was", "left"}
      BY <1>6, <3>1, CommittedReport
    <3>3. CASE c \in 1 .. n
      BY <3>2, <3>3 DEF IdentityInv
    <3>4. CASE c = n + 1 /\ t.opens
      BY <3>2, <3>4
    <3> QED BY <3>2, <3>3, <3>4
  <2>3. ASSUME NEW q \in Request PROVE Guarded(txn[q])'
    <3>1. PICK u : u = txn'[q]
      OBVIOUS
    <3>2. Guarded(u) /\ DOMAIN u.write \subseteq Lead
      <4>1. CASE q = r
        <5>1. u = NoTxn /\ DOMAIN NoTxn.write = {}
          BY <1>1, <2>1, <3>1, <4>1 DEF NoTxn
        <5> QED BY <1>4, <5>1
      <4>2. CASE q # r
        BY <1>1, <2>1, <3>1, <4>2 DEF IdentityInv, LeadsInv, TxnInv, Sound
      <4> QED BY <4>1, <4>2
    <3>3. Guarded(u)'
      BY <1>6, <3>2, GuardStays
    <3> QED BY <3>1, <3>3
  <2> QED BY <2>1, <2>2, <2>3 DEF IdentityInv, UniqueIdentities, Clash
<1>7. ASSUME NEW r \in Request, Abort(r) PROVE IdentityInv'
  <2>1. UNCHANGED <<lead, changesets>> /\ txn' = [txn EXCEPT ![r] = NoTxn]
    BY <1>7 DEF Abort
  <2>2. ASSUME NEW q \in Request PROVE Guarded(txn[q])'
    <3>1. PICK u : u = txn'[q]
      OBVIOUS
    <3>2. Guarded(u)
      BY <1>1, <1>4, <2>1, <3>1 DEF IdentityInv
    <3>3. Guarded(u)'
      BY <1>3, <2>1, <3>2
    <3> QED BY <3>1, <3>3
  <2> QED BY <2>1, <2>2 DEF IdentityInv, UniqueIdentities, Clash
<1>8. CASE UNCHANGED vars
  <2>1. UNCHANGED <<lead, changesets, txn>>
    BY <1>8 DEF vars
  <2>2. ASSUME NEW q \in Request PROVE Guarded(txn[q])'
    <3>1. PICK u : u = txn[q]
      OBVIOUS
    <3>2. Guarded(u)'
      BY <1>3, <2>1, <3>1 DEF IdentityInv
    <3> QED BY <2>1, <3>1, <3>2
  <2> QED BY <2>1, <2>2 DEF IdentityInv, UniqueIdentities, Clash
<1> QED
  BY <1>5, <1>6, <1>7, <1>8 DEF Next

(* Whatever the requests and their interleaving, an open request the index  *)
(* would refuse has been overtaken by one that took the identity since, or  *)
(* gives several leads of one batch the same: every other duplicate is met  *)
(* by the check of _assert_identity_free, before anything is written.       *)
THEOREM IndexRefusals == Spec => []IndexRefusesOnlyOverlaps
<1>1. Init => IdentityInv
  <2> SUFFICES ASSUME Init PROVE IdentityInv
    OBVIOUS
  <2>1. /\ lead = [l \in Lead |-> Blank] /\ changesets = <<>>
        /\ \A r \in Request : txn[r] = NoTxn
    BY DEF Init
  <2>2. DOMAIN NoTxn.write = {} /\ NoTxn.since = 0 /\ Blank.exists = FALSE
    BY DEF NoTxn, Blank
  <2>3. Len(changesets) = 0 /\ DOMAIN changesets = {}
    BY <2>1
  <2>4. Guarded(NoTxn)
    BY <2>2, <2>3 DEF Guarded
  <2> QED BY <2>1, <2>2, <2>3, <2>4 DEF IdentityInv, UniqueIdentities, Clash
<1>2. LeadsInv /\ IdentityInv => IndexRefusesOnlyOverlaps
  <2> SUFFICES ASSUME LeadsInv, IdentityInv, NEW r \in OpenRequests, NEW t, t = txn[r],
                      NEW after, after = [l \in Lead |-> Flushed(l, t)],
                      NEW k \in Lead, NEW l \in Lead, Clash(after, k, l),
                      ~(Renamed(t, k) /\ Renamed(t, l))
               PROVE  \E c \in (t.since + 1) .. Len(changesets) :
                        Took(c, k, after[k].ident) \/ Took(c, l, after[k].ident)
    BY DEF IndexRefusesOnlyOverlaps
  <2>1. Guarded(t) /\ Sound(t) /\ UniqueIdentities(lead)
    BY DEF OpenRequests, IdentityInv, LeadsInv, TxnInv
  <2>2. ASSUME NEW m \in Lead, after[m].exists, ~after[m].deleted
        PROVE  /\ Renamed(t, m) => m \in DOMAIN t.write /\ after[m].ident = t.write[m].ident
               /\ ~Renamed(t, m) => Live(m) /\ after[m].ident = lead[m].ident
    <3>1. CASE m \notin DOMAIN t.write
      <4>1. after[m] = lead[m]
        BY <3>1 DEF Flushed
      <4> QED BY <2>2, <3>1, <4>1 DEF Renamed, Live
    <3>2. CASE m \in DOMAIN t.write
      <4>1. PICK stored, read, write :
              stored = lead[m] /\ read = t.read[m] /\ write = t.write[m]
        OBVIOUS
      <4>2. after[m] = Flush(stored, read, write)
        BY <3>2, <4>1 DEF Flushed
      <4>3. \A c \in DOMAIN Blank :
              after[m][c] = IF write[c] = read[c] THEN stored[c] ELSE write[c]
        BY <4>2, FlushOf
      <4>4. /\ after[m]["ident"] = IF write["ident"] = read["ident"] THEN stored["ident"]
                                   ELSE write["ident"]
            /\ after[m]["deleted"] = IF write["deleted"] = read["deleted"]
                                     THEN stored["deleted"] ELSE write["deleted"]
        BY <4>3, ColumnsOf
      <4>5. /\ read.deleted = FALSE /\ write.deleted \in BOOLEAN
            /\ stored.deleted \in BOOLEAN
            /\ stored.exists \/ Renamed(t, m)
        BY <2>1, <3>2, <4>1 DEF Sound, Guarded, LeadsInv, RowsInv
      <4>6. ~stored.deleted
        BY <2>2, <4>4, <4>5
      <4> QED BY <3>2, <4>1, <4>4, <4>5, <4>6 DEF Renamed, Live
    <3> QED BY <3>1, <3>2
  <2>3. /\ k # l /\ after[k].ident = after[l].ident
        /\ after[k].exists /\ ~after[k].deleted /\ after[l].exists /\ ~after[l].deleted
    BY DEF Clash
  <2>4. CASE Renamed(t, k)
    <3>1. /\ k \in DOMAIN t.write /\ Live(l) /\ lead[l].ident = t.write[k].ident
          /\ after[k].ident = lead[l].ident
      BY <2>2, <2>3, <2>4
    <3>2. \E c \in (t.since + 1) .. Len(changesets) : Took(c, l, lead[l].ident)
      BY <2>1, <2>3, <2>4, <3>1 DEF Guarded
    <3> QED BY <3>1, <3>2
  <2>5. CASE Renamed(t, l)
    <3>1. /\ l \in DOMAIN t.write /\ Live(k) /\ lead[k].ident = t.write[l].ident
          /\ after[k].ident = lead[k].ident
      BY <2>2, <2>3, <2>5
    <3>2. \E c \in (t.since + 1) .. Len(changesets) : Took(c, k, lead[k].ident)
      BY <2>1, <2>3, <2>5, <3>1 DEF Guarded
    <3> QED BY <3>1, <3>2
  <2>6. CASE ~Renamed(t, k) /\ ~Renamed(t, l)
    <3>1. Live(k) /\ Live(l) /\ lead[k].ident = lead[l].ident
      BY <2>2, <2>3, <2>6
    <3> QED BY <2>1, <2>3, <3>1 DEF UniqueIdentities, Clash, Live
  <2> QED BY <2>4, <2>5, <2>6
<1> QED
  BY <1>1, <1>2, IdentityAlways, LeadsInvariant, PTL DEF Spec

(* When requests do not overlap, nothing overtakes anything: no changeset   *)
(* is committed while a request is open.                                    *)
OrderInv ==
  /\ IsSequence(overtook) /\ Len(overtook) = Len(timeline)
  /\ \A i \in DOMAIN overtook : overtook[i] = {}
  /\ \A r \in Request : txn[r].open => txn[r].since = Len(changesets)

LEMMA OrderAlways ==
  ASSUME OneRequest
  PROVE  LeadsInv /\ OrderInv /\ [Next]_vars => OrderInv'
<1> SUFFICES ASSUME LeadsInv, OrderInv, [Next]_vars PROVE OrderInv'
  OBVIOUS
<1>1. txn = [q \in Request |-> txn[q]]
  BY DEF LeadsInv, TxnInv
<1>2. ASSUME NEW r \in Request, Edit(r) \/ Undo(r) PROVE OrderInv'
  <2>0. PICK t : Fresh(t) /\ Begin(r, t)
    BY <1>2, EditFresh DEF LeadsInv
  <2>1. UNCHANGED <<timeline, overtook, changesets>>
    BY <2>0 DEF Begin
  <2>2. \A q \in Request : txn'[q].since = Len(changesets')
    BY <1>1, <2>0, <2>1 DEF OneRequest, Begin, Fresh
  <2> QED BY <2>1, <2>2 DEF OrderInv
<1>3. ASSUME NEW r \in Request, Commit(r) PROVE OrderInv'
  <2>1. PICK t, n, h : t = txn[r] /\ n = Len(timeline) /\ h = Len(t.entries)
    OBVIOUS
  <2>2. PICK stamps \in Stamps(t) : overtook' = overtook \o stamps
    BY <1>3, <2>1 DEF Commit
  <2>3. t.open /\ t.since = Len(changesets)
    BY <1>3, <2>1 DEF Commit, OrderInv
  <2>4. {i \in DOMAIN timeline : timeline[i].cs > t.since} = {}
    <3>1. \A i \in DOMAIN timeline : timeline[i].cs \in 1 .. Len(changesets)
      BY DEF LeadsInv, TimelineInv, IsSequence
    <3>2. Len(changesets) \in Nat
      BY DEF LeadsInv, TimelineInv, IsSequence
    <3> QED BY <2>3, <3>1, <3>2
  <2>5. stamps = [k \in DOMAIN t.entries |-> {}]
    BY <2>2, <2>4 DEF Stamps
  <2>6. /\ n \in Nat /\ h \in Nat /\ DOMAIN t.entries = 1 .. h
        /\ Len(timeline') = n + h
    <3>1. /\ n \in Nat /\ h \in Nat /\ DOMAIN t.entries = 1 .. h
          /\ IsSequence(timeline') /\ DOMAIN timeline' = 1 .. (n + h)
      BY <1>3, <2>1, CommittedTimeline
    <3>2. Len(timeline') \in Nat /\ 1 .. Len(timeline') = 1 .. (n + h)
      BY <3>1 DEF IsSequence
    <3> QED BY <3>1, <3>2
  <2>7. /\ overtook = [i \in 1 .. n |-> overtook[i]]
        /\ stamps = [k \in 1 .. h |-> stamps[k]]
    BY <2>1, <2>5, <2>6 DEF OrderInv, IsSequence
  <2>8. /\ IsSequence(overtook') /\ Len(overtook') = n + h
        /\ DOMAIN overtook' = 1 .. (n + h)
        /\ \A i \in 1 .. n : overtook'[i] = overtook[i]
        /\ \A k \in 1 .. h : overtook'[n + k] = stamps[k]
    BY <2>2, <2>6, <2>7, Appended
  <2>9. ASSUME NEW i \in 1 .. (n + h) PROVE overtook'[i] = {}
    <3>1. CASE i \in 1 .. n
      BY <2>1, <2>7, <2>8, <3>1 DEF OrderInv
    <3>2. CASE i \notin 1 .. n
      <4>1. i - n \in 1 .. h /\ i = n + (i - n)
        BY <2>6, <3>2
      <4> QED BY <2>5, <2>6, <2>8, <4>1
    <3> QED BY <3>1, <3>2
  <2>10. \A q \in Request : ~txn'[q].open
    <3>1. txn' = [txn EXCEPT ![r] = NoTxn]
      BY <1>3, <2>1 DEF Commit
    <3> QED BY <1>1, <3>1 DEF OneRequest, NoTxn
  <2> QED BY <2>6, <2>8, <2>9, <2>10 DEF OrderInv
<1>4. ASSUME NEW r \in Request, Abort(r) PROVE OrderInv'
  <2>1. \A q \in Request : ~txn'[q].open
    BY <1>1, <1>4 DEF OneRequest, Abort, NoTxn
  <2> QED BY <1>4, <2>1 DEF OrderInv, Abort
<1>5. CASE UNCHANGED vars
  BY <1>5 DEF OrderInv, vars
<1> QED
  BY <1>2, <1>3, <1>4, <1>5 DEF Next

(* When requests do not overlap, every action is stamped after those        *)
(* committed before it, and every field of a lead is what its timeline last *)
(* said (values, written by _apply_update, intake, merge and undo).         *)
THEOREM ValuesTold ==
  ASSUME OneRequest
  PROVE  Spec => [](ValuesMatchTimeline /\ \A l \in Lead, x \in Target : InOrder(l, x))
<1>1. LeadsInv => ValuesMatchTimeline
  <2> SUFFICES ASSUME LeadsInv, NEW l \in Lead \ merged, NEW f \in Field,
                      Live(l), InOrder(l, f)
               PROVE  lead[l].values[f] = Said(l, f)
    BY DEF ValuesMatchTimeline
  <2>1. f \in Told
    BY DEF Told, Target
  <2>2. Get(lead[l], f) = LastTold(l, f)
    BY <2>1 DEF LeadsInv, ToldInv
  <2>3. Said(l, f) = LastTold(l, f)
    BY LastIsSaid DEF LeadsInv
  <2> QED BY <2>2, <2>3, ColumnsOf
<1>2. Init => OrderInv
  BY DEF Init, OrderInv, IsSequence, NoTxn
<1>3. LeadsInv /\ OrderInv => \A l \in Lead, x \in Target : InOrder(l, x)
  <2> SUFFICES ASSUME LeadsInv, OrderInv, NEW l \in Lead, NEW x \in Target
               PROVE  InOrder(l, x)
    OBVIOUS
  <2>1. PICK n, I : n = Len(timeline) /\ I = Telling(l, x)
    OBVIOUS
  <2>2. n \in Nat /\ I \in SUBSET (1 .. n) /\ DOMAIN overtook = 1 .. n
    BY <2>1 DEF LeadsInv, TimelineInv, OrderInv, IsSequence, Telling
  <2>3. I # {} => Max(I) \in 1 .. n
    BY <2>2, LastIndex
  <2>4. I # {} => overtook[Max(I)] = {}
    BY <2>2, <2>3 DEF OrderInv
  <2> QED BY <2>1, <2>4 DEF InOrder
<1> QED
  BY <1>1, <1>2, <1>3, OrderAlways, LeadsInvariant, PTL DEF Spec

-----------------------------------------------------------------------------
(* One request at a time. *)

(* What began stays as it was staged while nothing is written.              *)
LEMMA StagedStays ==
  ASSUME NEW t, Reasoned(t), Undoing(t), UNCHANGED <<lead, timeline, changesets>>
  PROVE  Reasoned(t)' /\ Undoing(t)'
<1>1. Reasoned(t)'
  BY DEF Reasoned
<1>2. ASSUME NEW c, NEW l
      PROVE  EntriesOf(c, l)' = EntriesOf(c, l) /\ Touched(c, l)' = Touched(c, l)
  BY DEF Touched, EntriesOf
<1>3. ASSUME NEW c, NEW l, NEW x
      PROVE  RevertTo(c, l, x)' = RevertTo(c, l, x) /\ Expected(c, l, x)' = Expected(c, l, x)
  BY DEF RevertTo, Expected, About, EntriesOf
<1>4. ASSUME NEW c, NEW l PROVE Conflicted(c, l)' = Conflicted(c, l)
  BY <1>2, <1>3 DEF Conflicted, Get
<1>5. ASSUME NEW c, NEW viewers PROVE Reversible(c, viewers)' = Reversible(c, viewers)
  <2>1. Planned(c, viewers)' = Planned(c, viewers)
    BY <1>2 DEF Planned, Visible
  <2> QED BY <1>4, <2>1 DEF Reversible
<1>6. Undoing(t)'
  BY <1>2, <1>3, <1>5 DEF Undoing, Get
<1> QED
  BY <1>1, <1>6

LEMMA ReportStays ==
  ASSUME ReportInv, UndoneOnce, ReasonFollowsEdits,
         UNCHANGED <<lead, timeline, changesets, merged>>
  PROVE  ReportInv' /\ UndoneOnce' /\ ReasonFollowsEdits'
<1>1. ReportInv'
  BY DEF ReportInv, Get
<1>2. UndoneOnce'
  BY DEF UndoneOnce
<1>3. ReasonFollowsEdits'
  BY DEF ReasonFollowsEdits, Telling
<1> QED
  BY <1>1, <1>2, <1>3

(* With no other request a commit writes the row as its request left it.    *)
LEMMA WrittenAlone ==
  ASSUME OneRequest, LeadsInv, NEW r \in Request, NEW t, t = txn[r], Commit(r),
         NEW l \in DOMAIN t.write
  PROVE  /\ l \in Lead /\ t.read[l] = lead[l]
         /\ \A x \in Target : Get(lead'[l], x) = Get(t.write[l], x)
         /\ lead'[l].stage = t.write[l].stage /\ lead'[l].reason = t.write[l].reason
         /\ lead'[l].score = t.write[l].score
<1>1. l \in Lead
  BY DEF LeadsInv, TxnInv, Sound
<1>2. PICK stored, read, write :
        stored = lead[l] /\ read = t.read[l] /\ write = t.write[l]
  OBVIOUS
<1>3. read = stored
  BY <1>2 DEF LeadsInv, CurrentInv, Current
<1>4. lead'[l] = Flush(stored, read, write)
  BY <1>1, <1>2 DEF Flushed, Commit
<1>5. /\ \A c \in DOMAIN Blank :
           lead'[l][c] = IF write[c] = read[c] THEN stored[c] ELSE write[c]
      /\ \A y \in Target : Get(lead'[l], y) = Get(write, y)
  BY <1>3, <1>4, FlushOf
<1>6. /\ lead'[l]["stage"] = write["stage"] /\ lead'[l]["reason"] = write["reason"]
      /\ lead'[l]["score"] = write["score"]
  BY <1>3, <1>5, ColumnsOf
<1> QED
  BY <1>1, <1>2, <1>3, <1>5, <1>6

(* A commit adds what it found and left to the report. *)
LEMMA CommitKeepsReport ==
  ASSUME OneRequest, LeadsInv, ReportInv, NEW r \in Request, Commit(r)
  PROVE  ReportInv'
<1>1. PICK t : t = txn[r]
  OBVIOUS
<1>2. PICK n, h, c : n = Len(timeline) /\ h = Len(t.entries) /\ c = Len(changesets)
  OBVIOUS
<1>3. /\ c \in Nat /\ DOMAIN changesets = 1 .. c
      /\ DOMAIN changesets' = 1 .. (IF t.opens THEN c + 1 ELSE c)
      /\ \A d \in 1 .. c :
           changesets'[d] = IF d = t.undoes THEN [changesets[d] EXCEPT !.undone = TRUE]
                            ELSE changesets[d]
      /\ t.opens =>
           /\ DOMAIN changesets'[c + 1] =
                {"undone", "undoOf", "rejected", "viewers", "was", "left"}
           /\ changesets'[c + 1].undone = FALSE
           /\ changesets'[c + 1].undoOf = t.undoes
           /\ \A l \in DOMAIN t.write : /\ changesets'[c + 1].was[l] = lead[l]
                                        /\ changesets'[c + 1].left[l] = lead'[l]
  <2>1. /\ c \in Nat /\ DOMAIN changesets = 1 .. c
        /\ DOMAIN changesets' = 1 .. (IF t.opens THEN c + 1 ELSE c)
    BY <1>1, <1>2, CommittedReport
  <2>2. \A d \in 1 .. c :
          changesets'[d] = IF d = t.undoes THEN [changesets[d] EXCEPT !.undone = TRUE]
                           ELSE changesets[d]
    <3>1. \A d \in 1 .. Len(changesets) :
            /\ d = t.undoes => changesets'[d] = [changesets[d] EXCEPT !.undone = TRUE]
            /\ d # t.undoes => changesets'[d] = changesets[d]
      BY <1>1, CommittedReport
    <3> QED BY <1>2, <3>1
  <2>3. ASSUME t.opens
        PROVE  /\ DOMAIN changesets'[c + 1] =
                    {"undone", "undoOf", "rejected", "viewers", "was", "left"}
               /\ changesets'[c + 1].undone = FALSE
               /\ changesets'[c + 1].undoOf = t.undoes
               /\ \A l \in DOMAIN t.write : /\ changesets'[c + 1].was[l] = lead[l]
                                            /\ changesets'[c + 1].left[l] = lead'[l]
    <3>1. /\ DOMAIN changesets'[Len(changesets) + 1] =
               {"undone", "undoOf", "rejected", "viewers", "was", "left"}
          /\ changesets'[Len(changesets) + 1].undone = FALSE
          /\ changesets'[Len(changesets) + 1].undoOf = t.undoes
          /\ \A l \in DOMAIN t.write :
               /\ changesets'[Len(changesets) + 1].was[l] = lead[l]
               /\ changesets'[Len(changesets) + 1].left[l] = lead'[l]
      BY <1>1, <2>3, CommittedReport
    <3>2. c = Len(changesets)
      BY <1>2
    <3> HIDE <1>1, <1>2
    <3> QED BY <3>1, <3>2, Zenon
  <2> QED BY <2>1, <2>2, <2>3
<1>4. ASSUME NEW d \in 1 .. c
      PROVE  /\ DOMAIN changesets'[d] =
                  {"undone", "undoOf", "rejected", "viewers", "was", "left"}
             /\ changesets'[d].undone \in BOOLEAN
             /\ changesets'[d].undoOf \in 0 .. (d - 1)
             /\ changesets'[d].was = changesets[d].was
             /\ changesets'[d].left = changesets[d].left
  BY <1>3, ZenonT(30) DEF ReportInv
<1>5. /\ Sound(t)
      /\ \A l \in DOMAIN t.write :
           t.read[l] = lead[l] /\ \A x \in Target : Get(lead'[l], x) = Get(t.write[l], x)
  <2>1. Sound(t)
    BY <1>1, CommittedRows
  <2>2. ASSUME NEW l \in DOMAIN t.write
        PROVE  t.read[l] = lead[l] /\ \A x \in Target : Get(lead'[l], x) = Get(t.write[l], x)
    BY <1>1, WrittenAlone
  <2> QED BY <2>1, <2>2
<1>6. ASSUME NEW d \in DOMAIN changesets'
      PROVE  /\ DOMAIN changesets'[d] =
                  {"undone", "undoOf", "rejected", "viewers", "was", "left"}
             /\ changesets'[d].undone \in BOOLEAN
             /\ changesets'[d].undoOf \in 0 .. (d - 1)
  <2>1. CASE d \in 1 .. c
    BY <1>4, <2>1
  <2>2. CASE d \notin 1 .. c
    <3>1. d = c + 1 /\ t.opens
      BY <1>3, <2>2
    <3>2. t.undoes \in 0 .. c
      BY <1>2, <1>5 DEF Sound
    <3>3. (c + 1) - 1 = c
      BY <1>3
    <3> QED BY <1>3, <3>1, <3>2, <3>3
  <2> QED BY <2>1, <2>2
<1>7. /\ n \in Nat /\ h \in Nat /\ DOMAIN timeline = 1 .. n
      /\ DOMAIN t.entries = 1 .. h /\ DOMAIN timeline' = 1 .. (n + h)
  BY <1>1, <1>2, CommittedTimeline
<1>8. ASSUME NEW i \in 1 .. n, timeline'[i].lead \notin merged'
      PROVE  \A x \in DOMAIN timeline'[i].to :
               LET e == timeline'[i]
               IN /\ e.from[x] = Get(changesets'[e.cs].was[e.lead], x)
                  /\ e.to[x] = Get(changesets'[e.cs].left[e.lead], x)
  <2>1. \A j \in 1 .. Len(timeline) :
          /\ timeline'[j].cs = timeline[j].cs
          /\ timeline'[j].from = timeline[j].from
          /\ timeline'[j].to = timeline[j].to
          /\ \/ timeline'[j].lead = timeline[j].lead
             \/ \E m \in t.moved : timeline'[j].lead = m.to
    BY <1>1, CommittedTimeline
  <2>2. merged' = merged \cup {m.to : m \in t.moved}
    BY <1>1 DEF Commit
  <2>3. timeline'[i].lead = timeline[i].lead /\ timeline[i].lead \notin merged
    BY <1>2, <1>8, <2>1, <2>2
  <2>4. timeline[i].cs \in 1 .. c
    BY <1>3, <1>7 DEF LeadsInv, TimelineInv
  <2>5. /\ changesets'[timeline[i].cs].was = changesets[timeline[i].cs].was
        /\ changesets'[timeline[i].cs].left = changesets[timeline[i].cs].left
    BY <1>4, <2>4
  <2>6. /\ timeline'[i].cs = timeline[i].cs
        /\ timeline'[i].from = timeline[i].from /\ timeline'[i].to = timeline[i].to
    BY <1>2, <2>1
  <2>7. \A x \in DOMAIN timeline[i].to :
          /\ timeline[i].from[x] =
               Get(changesets[timeline[i].cs].was[timeline[i].lead], x)
          /\ timeline[i].to[x] =
               Get(changesets[timeline[i].cs].left[timeline[i].lead], x)
    BY <1>7, <2>3 DEF ReportInv
  <2> QED BY <2>3, <2>5, <2>6, <2>7
<1>9. ASSUME NEW k \in 1 .. h
      PROVE  \A x \in DOMAIN timeline'[n + k].to :
               LET e == timeline'[n + k]
               IN /\ e.from[x] = Get(changesets'[e.cs].was[e.lead], x)
                  /\ e.to[x] = Get(changesets'[e.cs].left[e.lead], x)
  <2>1. PICK e : e = t.entries[k]
    OBVIOUS
  <2>2. \A j \in 1 .. Len(t.entries) :
          /\ timeline'[Len(timeline) + j].cs = Len(changesets) + 1
          /\ timeline'[Len(timeline) + j].lead = t.entries[j].lead
          /\ timeline'[Len(timeline) + j].from = t.entries[j].from
          /\ timeline'[Len(timeline) + j].to = t.entries[j].to
    BY <1>1, CommittedTimeline, SMTT(30)
  <2>3. /\ timeline'[n + k].cs = c + 1 /\ timeline'[n + k].lead = e.lead
        /\ timeline'[n + k].from = e.from /\ timeline'[n + k].to = e.to
    BY <1>2, <2>1, <2>2
  <2>4. t.opens
    <3>1. DOMAIN t.entries # {}
      BY <1>7
    <3> QED BY <1>5, <3>1 DEF Sound
  <2>5. Recording(t) /\ k \in DOMAIN t.entries
    BY <1>5, <1>7 DEF Sound
  <2>6. /\ e.lead \in DOMAIN t.write /\ DOMAIN e.to \subseteq Target
        /\ \A x \in DOMAIN e.to : /\ e.from[x] = Get(t.read[e.lead], x)
                                  /\ e.to[x] = Get(t.write[e.lead], x)
    BY <2>1, <2>5 DEF Recording
  <2>7. /\ changesets'[c + 1].was[e.lead] = lead[e.lead]
        /\ changesets'[c + 1].left[e.lead] = lead'[e.lead]
    BY <1>3, <2>4, <2>6
  <2>8. \A x \in DOMAIN e.to : /\ e.from[x] = Get(lead[e.lead], x)
                               /\ e.to[x] = Get(lead'[e.lead], x)
    BY <1>5, <2>6
  <2> QED BY <2>3, <2>7, <2>8
<1>10. ASSUME NEW i \in DOMAIN timeline', timeline'[i].lead \notin merged'
       PROVE  \A x \in DOMAIN timeline'[i].to :
                LET e == timeline'[i]
                IN /\ e.from[x] = Get(changesets'[e.cs].was[e.lead], x)
                   /\ e.to[x] = Get(changesets'[e.cs].left[e.lead], x)
  <2>1. CASE i \in 1 .. n
    BY <1>8, <1>10, <2>1
  <2>2. CASE i \notin 1 .. n
    <3>1. PICK k \in 1 .. h : i = n + k
      <4>1. i - n \in 1 .. h /\ i = n + (i - n)
        BY <1>7, <2>2
      <4> QED BY <4>1
    <3> QED BY <1>9, <3>1
  <2> QED BY <2>1, <2>2
<1> QED
  BY <1>6, <1>10 DEF ReportInv, Get

LEMMA MarkedOnly ==
  ASSUME LeadsInv, ReportInv, NEW r \in Request, NEW t, t = txn[r], Commit(r),
         NEW d \in DOMAIN changesets
  PROVE  /\ d \in DOMAIN changesets' /\ d \in Nat /\ d <= Len(changesets)
         /\ changesets'[d].undoOf = changesets[d].undoOf
         /\ d = t.undoes => changesets'[d].undone = TRUE
         /\ d # t.undoes => changesets'[d].undone = changesets[d].undone
<1>1. PICK c : c = Len(changesets)
  OBVIOUS
<1>2. /\ c \in Nat /\ DOMAIN changesets = 1 .. c
      /\ DOMAIN changesets' = 1 .. (IF t.opens THEN c + 1 ELSE c)
  BY <1>1, CommittedReport
<1>3. /\ d = t.undoes => changesets'[d] = [changesets[d] EXCEPT !.undone = TRUE]
      /\ d # t.undoes => changesets'[d] = changesets[d]
  <2>1. \A e \in 1 .. Len(changesets) :
          /\ e = t.undoes => changesets'[e] = [changesets[e] EXCEPT !.undone = TRUE]
          /\ e # t.undoes => changesets'[e] = changesets[e]
    BY CommittedReport
  <2> QED BY <1>1, <1>2, <2>1
<1>4. DOMAIN changesets[d] = {"undone", "undoOf", "rejected", "viewers", "was", "left"}
  BY DEF ReportInv
<1>5. d \in DOMAIN changesets' /\ d \in Nat /\ d <= c
  BY <1>2
<1> QED
  BY <1>1, <1>3, <1>4, <1>5

LEMMA OpenedLast ==
  ASSUME LeadsInv, NEW r \in Request, NEW t, t = txn[r], Commit(r),
         NEW d \in DOMAIN changesets', d \notin DOMAIN changesets
  PROVE  /\ t.opens /\ d = Len(changesets) + 1 /\ d = Len(changesets')
         /\ changesets'[d].undone = FALSE /\ changesets'[d].undoOf = t.undoes
         /\ changesets'[d].viewers = t.viewers
<1>1. PICK c : c = Len(changesets)
  OBVIOUS
<1>2. /\ c \in Nat /\ DOMAIN changesets = 1 .. c
      /\ DOMAIN changesets' = 1 .. (IF t.opens THEN c + 1 ELSE c)
      /\ Len(changesets') = IF t.opens THEN c + 1 ELSE c
  BY <1>1, CommittedReport
<1>3. t.opens /\ d = c + 1 /\ Len(changesets') = c + 1
  BY <1>2
<1>4. /\ changesets'[c + 1].undone = FALSE /\ changesets'[c + 1].undoOf = t.undoes
      /\ changesets'[c + 1].viewers = t.viewers
  BY <1>1, <1>3, CommittedReport
<1> QED
  BY <1>1, <1>3, <1>4

(* A commit opens a changeset if it undoes one. *)
LEMMA UndoOpens ==
  ASSUME LeadsInv, NEW r \in Request, NEW t, t = txn[r], Commit(r), t.undoes # 0
  PROVE  /\ t.undoes \in DOMAIN changesets
         /\ Len(changesets') \in DOMAIN changesets'
         /\ Len(changesets') \notin DOMAIN changesets
<1>1. PICK c : c = Len(changesets)
  OBVIOUS
<1>2. /\ c \in Nat /\ DOMAIN changesets = 1 .. c
      /\ DOMAIN changesets' = 1 .. (IF t.opens THEN c + 1 ELSE c)
      /\ Len(changesets') = IF t.opens THEN c + 1 ELSE c
  BY <1>1, CommittedReport
<1>3. t.undoes \in 0 .. c /\ t.opens
  <2>1. Sound(t)
    BY DEF LeadsInv, TxnInv
  <2> QED BY <1>1, <2>1 DEF Sound
<1> QED
  BY <1>1, <1>2, <1>3

LEMMA CommitKeepsUndone ==
  ASSUME LeadsInv, ReportInv, ReportInv', UndoneOnce, NEW r \in Request,
         Undoing(txn[r]), Commit(r)
  PROVE  UndoneOnce'
<1>1. PICK t : t = txn[r]
  OBVIOUS
<1> SUFFICES ASSUME NEW c \in DOMAIN changesets'
             PROVE  Cardinality({d \in DOMAIN changesets' : changesets'[d].undoOf = c}) =
                      IF changesets'[c].undone THEN 1 ELSE 0
  BY DEF UndoneOnce
<1>2. PICK old : old = {d \in DOMAIN changesets : changesets[d].undoOf = c}
  OBVIOUS
<1>3. PICK new : new = {d \in DOMAIN changesets' : changesets'[d].undoOf = c}
  OBVIOUS
<1>4. \A d \in DOMAIN changesets :
        /\ d \in DOMAIN changesets' /\ d \in Nat /\ d <= Len(changesets)
        /\ changesets'[d].undoOf = changesets[d].undoOf
        /\ d = t.undoes => changesets'[d].undone = TRUE
        /\ d # t.undoes => changesets'[d].undone = changesets[d].undone
  BY <1>1, MarkedOnly
<1>5. \A d \in DOMAIN changesets' :
        d \notin DOMAIN changesets =>
          /\ d = Len(changesets') /\ d = Len(changesets) + 1
          /\ changesets'[d].undone = FALSE /\ changesets'[d].undoOf = t.undoes
  BY <1>1, OpenedLast
<1>6. Cardinality({}) = 0 /\ \A x : Cardinality({x}) = 1
  BY FS_EmptySet, FS_Singleton
<1>7. CASE c \in DOMAIN changesets /\ c # t.undoes
  <2>1. new = old
    BY <1>2, <1>3, <1>4, <1>5, <1>7
  <2>2. Cardinality(old) = IF changesets[c].undone THEN 1 ELSE 0
    BY <1>2, <1>7 DEF UndoneOnce
  <2> QED BY <1>3, <1>4, <1>7, <2>1, <2>2
<1>8. CASE c \in DOMAIN changesets /\ c = t.undoes
  <2>1. c # 0
    BY <1>8 DEF LeadsInv, TimelineInv, IsSequence
  <2>2. PICK n : /\ n = Len(changesets') /\ n \in DOMAIN changesets'
                 /\ n \notin DOMAIN changesets
    BY <1>1, <1>8, <2>1, UndoOpens
  <2>3. old = {}
    <3>1. ~changesets[c].undone
      BY <1>1, <1>8, <2>1 DEF Undoing
    <3>2. Cardinality(old) = 0
      BY <1>2, <1>8, <3>1 DEF UndoneOnce
    <3>3. IsFiniteSet(old)
      <4>1. PICK m \in Nat : DOMAIN changesets = 1 .. m
        BY DEF LeadsInv, TimelineInv, IsSequence
      <4>2. IsFiniteSet(1 .. m)
        BY FS_Interval
      <4>3. old \subseteq 1 .. m
        BY <1>2, <4>1
      <4> QED BY <4>2, <4>3, FS_Subset
    <3> QED BY <3>2, <3>3, FS_EmptySet
  <2>4. new = {n}
    BY <1>2, <1>3, <1>4, <1>5, <1>8, <2>2, <2>3
  <2>5. changesets'[c].undone = TRUE
    BY <1>4, <1>8
  <2> QED BY <1>3, <1>6, <2>4, <2>5
<1>9. CASE c \notin DOMAIN changesets
  <2>1. changesets'[c].undone = FALSE /\ c = Len(changesets') /\ c = Len(changesets) + 1
    BY <1>5, <1>9
  <2>2. new = {}
    <3> SUFFICES ASSUME NEW d \in DOMAIN changesets', changesets'[d].undoOf = c
                 PROVE  FALSE
      BY <1>3
    <3>1. c \in 0 .. (d - 1)
      BY DEF ReportInv
    <3>2. d \in Int /\ c \in Int /\ d <= c
      <4>1. Len(changesets) \in Nat
        BY DEF LeadsInv, TimelineInv, IsSequence
      <4>2. CASE d \in DOMAIN changesets
        BY <1>4, <2>1, <4>1, <4>2
      <4>3. CASE d \notin DOMAIN changesets
        <5>1. d = Len(changesets) + 1
          BY <1>5, <4>3
        <5> QED BY <2>1, <4>1, <5>1
      <4> QED BY <4>2, <4>3
    <3> QED BY <3>1, <3>2
  <2> QED BY <1>3, <1>6, <2>1, <2>2
<1> QED
  BY <1>7, <1>8, <1>9

LEMMA CommitKeepsReason ==
  ASSUME OneRequest, LeadsInv, ReportInv, ReasonFollowsEdits, NEW r \in Request,
         Reasoned(txn[r]), Commit(r)
  PROVE  ReasonFollowsEdits'
<1>0. PICK t : t = txn[r]
  OBVIOUS
<1>1. ASSUME NEW d \in DOMAIN changesets
      PROVE  d \in DOMAIN changesets' /\ changesets'[d].undoOf = changesets[d].undoOf
  BY <1>0, MarkedOnly
<1>2. /\ Sound(t) /\ Reasoned(t)
      /\ \A k \in Lead : k \notin DOMAIN t.write => lead'[k] = lead[k]
  <2>1. \A k \in Lead : k \notin DOMAIN t.write => lead'[k] = lead[k]
    BY <1>0, CommittedRows
  <2>2. Sound(t)
    BY <1>0 DEF LeadsInv, TxnInv
  <2> QED BY <1>0, <2>1, <2>2
<1>3. ASSUME NEW k \in DOMAIN t.write
      PROVE  /\ k \in Lead /\ t.read[k] = lead[k]
             /\ lead'[k].stage = t.write[k].stage /\ lead'[k].reason = t.write[k].reason
  BY <1>0, WrittenAlone
<1>4. Recording(t)
  BY <1>2 DEF Sound
<1> SUFFICES ASSUME NEW l \in Lead, l \notin merged', NEW J,
                    J = {i \in DOMAIN timeline' : /\ timeline'[i].lead = l
                                                  /\ "stage" \in DOMAIN timeline'[i].to},
                    J # {}, changesets'[timeline'[Max(J)].cs].undoOf = 0
             PROVE  lead'[l].reason # None <=> lead'[l].stage \in LostStage
  BY DEF ReasonFollowsEdits, Telling, Max
<1>5. PICK n, h : n = Len(timeline) /\ h = Len(t.entries)
  OBVIOUS
<1>6. /\ n \in Nat /\ h \in Nat /\ DOMAIN timeline = 1 .. n
      /\ DOMAIN t.entries = 1 .. h /\ DOMAIN timeline' = 1 .. (n + h)
  BY <1>0, <1>5, CommittedTimeline
<1>7. ASSUME NEW i \in 1 .. n, timeline'[i].lead = l
      PROVE  /\ timeline[i].lead = l /\ timeline'[i].cs = timeline[i].cs
             /\ timeline'[i].to = timeline[i].to
             /\ \A m \in t.moved : m.from # l
  <2>1. \A j \in 1 .. Len(timeline) :
          /\ timeline'[j].cs = timeline[j].cs /\ timeline'[j].to = timeline[j].to
          /\ \/ /\ timeline'[j].lead = timeline[j].lead
                /\ \A m \in t.moved : m.from = timeline[j].lead => ~(j <= m.upto)
             \/ \E m \in t.moved : timeline'[j].lead = m.to
    BY <1>0, CommittedTimeline
  <2>2. \A m \in t.moved : m.to # l
    BY <1>0 DEF Commit
  <2>3. \A m \in t.moved : m.upto = n
    BY <1>0, <1>5 DEF LeadsInv, CurrentInv, Current
  <2> QED BY <1>5, <1>6, <1>7, <2>1, <2>2, <2>3
<1>8. \A k \in 1 .. h : /\ timeline'[n + k].cs = Len(changesets) + 1
                        /\ timeline'[n + k].lead = t.entries[k].lead
                        /\ timeline'[n + k].to = t.entries[k].to
  <2>1. \A k \in 1 .. Len(t.entries) :
          /\ timeline'[Len(timeline) + k].cs = Len(changesets) + 1
          /\ timeline'[Len(timeline) + k].lead = t.entries[k].lead
          /\ timeline'[Len(timeline) + k].to = t.entries[k].to
    BY <1>0, CommittedTimeline
  <2> QED BY <1>5, <2>1
<1>9. l \notin merged /\ "stage" \in Target /\ "stage" \in Columns
  BY DEF Commit, Target, Columns
<1>10. Max(J) \in J /\ Max(J) \in 1 .. (n + h) /\ \A j \in J : j <= Max(J)
  <2>1. n + h \in Nat /\ J \subseteq 1 .. (n + h)
    BY <1>6
  <2> QED BY <2>1, LastIndex
<1>11. PICK j : j = Max(J)
  OBVIOUS
<1>12. CASE j \notin 1 .. n
  <2>1. PICK k \in 1 .. h : j = n + k
    <3>1. j - n \in 1 .. h /\ j = n + (j - n)
      BY <1>6, <1>10, <1>11, <1>12
    <3> QED BY <3>1
  <2>2. t.entries[k].lead = l /\ "stage" \in DOMAIN t.entries[k].to
    BY <1>8, <1>10, <1>11, <2>1
  <2>3. /\ l \in DOMAIN t.write
        /\ Get(t.read[l], "stage") # Get(t.write[l], "stage")
    BY <1>4, <1>6, <1>9, <2>2 DEF Recording
  <2>4. t.read[l].stage # t.write[l].stage
    BY <1>9, <2>3, ColumnsOf
  <2>5. t.undoes = 0
    <3>1. Len(changesets) + 1 \in DOMAIN changesets'
      <4>1. TimelineInv'
        BY CommitKeepsTimeline
      <4>2. n + k \in DOMAIN timeline'
        BY <1>6
      <4>3. timeline'[n + k].cs \in DOMAIN changesets'
        BY <4>1, <4>2 DEF TimelineInv
      <4> QED BY <1>8, <4>3
    <3>2. Len(changesets) + 1 \notin DOMAIN changesets
      BY DEF LeadsInv, TimelineInv, IsSequence
    <3>3. changesets'[Len(changesets) + 1].undoOf = t.undoes
      BY <1>0, <3>1, <3>2, OpenedLast
    <3> QED BY <1>8, <1>11, <2>1, <3>3
  <2>6. t.read[l].exists
    BY <1>2, <1>6, <2>2, <2>3 DEF Reasoned
  <2>7. t.write[l].reason # None <=> t.write[l].stage \in LostStage
    BY <1>2, <2>3, <2>4, <2>5, <2>6 DEF Reasoned
  <2> QED BY <1>3, <2>3, <2>7
<1>13. CASE j \in 1 .. n
  <2>1. PICK I : I = {i \in DOMAIN timeline : /\ timeline[i].lead = l
                                              /\ "stage" \in DOMAIN timeline[i].to}
    OBVIOUS
  <2>2. j \in I /\ timeline'[j].cs = timeline[j].cs /\ \A m \in t.moved : m.from # l
    BY <1>6, <1>7, <1>10, <1>11, <1>13, <2>1
  <2>3. ASSUME NEW i \in I PROVE i <= j
    <3>1. i \in 1 .. n /\ timeline[i].lead = l /\ "stage" \in DOMAIN timeline[i].to
      BY <1>6, <2>1
    <3>2. timeline'[i].lead = l /\ timeline'[i].to = timeline[i].to
      <4>1. \A e \in 1 .. Len(timeline) :
              /\ timeline'[e].to = timeline[e].to
              /\ \/ timeline'[e].lead = timeline[e].lead
                 \/ \E m \in t.moved : m.from = timeline[e].lead
        BY <1>0, CommittedTimeline
      <4> QED BY <1>5, <2>2, <3>1, <4>1
    <3>3. i \in J
      <4>1. i \in 1 .. (n + h)
        BY <1>6, <3>1
      <4> QED BY <1>6, <3>1, <3>2, <4>1
    <3> QED BY <1>10, <1>11, <3>3
  <2>4. Max(I) = j
    <3>1. I \in SUBSET Int
      BY <1>6, <2>1
    <3> QED BY <2>2, <2>3, <3>1, GreatestIs
  <2>5. timeline[j].cs \in DOMAIN changesets /\ lead[l].exists
    BY <2>1, <2>2 DEF LeadsInv, TimelineInv
  <2>6. changesets[timeline[Max(I)].cs].undoOf = 0
    BY <1>1, <1>11, <2>2, <2>4, <2>5
  <2>7. lead[l].reason # None <=> lead[l].stage \in LostStage
    BY <1>9, <2>1, <2>2, <2>6 DEF ReasonFollowsEdits, Telling
  <2>8. lead'[l].reason = lead[l].reason /\ lead'[l].stage = lead[l].stage
    <3>1. CASE l \notin DOMAIN t.write
      BY <1>2, <3>1
    <3>2. CASE l \in DOMAIN t.write
      <4>1. \A k \in 1 .. h : ~(t.entries[k].lead = l /\ "stage" \in DOMAIN t.entries[k].to)
        <5> SUFFICES ASSUME NEW k \in 1 .. h, t.entries[k].lead = l,
                            "stage" \in DOMAIN t.entries[k].to
                     PROVE  FALSE
          OBVIOUS
        <5>1. n + k \in 1 .. (n + h) /\ n + k > j
          BY <1>6, <1>13
        <5>2. n + k \in J
          BY <1>6, <1>8, <5>1
        <5>3. n + k <= j
          BY <1>10, <1>11, <5>2
        <5> QED BY <1>6, <1>13, <5>1, <5>3
      <4>2. Get(t.read[l], "stage") = Get(t.write[l], "stage")
        BY <1>4, <1>6, <1>9, <2>5, <3>2, <4>1 DEF Recording
      <4>3. t.read[l].stage = t.write[l].stage
        BY <1>9, <4>2, ColumnsOf
      <4>4. t.read[l].reason = t.write[l].reason
        BY <1>2, <3>2, <4>3 DEF Reasoned
      <4> QED BY <1>3, <3>2, <4>3, <4>4
    <3> QED BY <3>1, <3>2
  <2> QED BY <2>7, <2>8
<1> QED
  BY <1>12, <1>13

LEMMA InitSerial == Init => SerialInv
<1> SUFFICES ASSUME Init PROVE SerialInv
  OBVIOUS
<1>1. LeadsInv
  BY InitLeads
<1>2. timeline = <<>> /\ changesets = <<>> /\ txn = [r \in Request |-> NoTxn]
  BY DEF Init
<1>3. DOMAIN timeline = {} /\ DOMAIN changesets = {}
  BY <1>2
<1>4. ReportInv
  BY <1>3 DEF ReportInv
<1>5. UndoneOnce
  BY <1>3 DEF UndoneOnce
<1>6. ReasonFollowsEdits
  BY <1>3 DEF ReasonFollowsEdits, Telling
<1>7. \A r \in Request : Reasoned(txn[r]) /\ Undoing(txn[r])
  <2>1. Reasoned(NoTxn) /\ Undoing(NoTxn)
    BY <1>1, NoTxnIs DEF LeadsInv
  <2>2. \A r \in Request : txn[r] = NoTxn
    BY <1>2
  <2> QED BY <2>1, <2>2
<1> QED
  BY <1>1, <1>4, <1>5, <1>6, <1>7 DEF SerialInv

LEMMA SerialAlways ==
  ASSUME OneRequest
  PROVE  SerialInv /\ [Next]_vars => SerialInv'
<1> SUFFICES ASSUME SerialInv, [Next]_vars PROVE SerialInv'
  OBVIOUS
<1>1. LeadsInv /\ ReportInv /\ UndoneOnce /\ ReasonFollowsEdits
  BY DEF SerialInv
<1>2. LeadsInv'
  BY <1>1, LeadsAlways
<1>3. Reasoned(NoTxn)' /\ Undoing(NoTxn)'
  <2>1. TimelineInv' => Reasoned(NoTxn)' /\ Undoing(NoTxn)'
    BY NoTxnIs, PTL
  <2> QED BY <1>2, <2>1 DEF LeadsInv
<1>4. ASSUME NEW r \in Request, NEW t, Ready(r, t), Begin(r, t) PROVE SerialInv'
  <2>1. /\ UNCHANGED <<lead, timeline, changesets, merged>>
        /\ txn' = [txn EXCEPT ![r] = t]
    BY <1>4 DEF Begin
  <2>2. ReportInv' /\ UndoneOnce' /\ ReasonFollowsEdits'
    BY <1>1, <2>1, ReportStays
  <2>3. Reasoned(t)' /\ Undoing(t)'
    BY <1>4, <2>1, StagedStays DEF Ready
  <2>4. \A q \in Request : txn'[q] = t
    BY <1>1, <2>1 DEF OneRequest, LeadsInv, TxnInv
  <2>5. ASSUME NEW q \in Request PROVE (Reasoned(txn[q]) /\ Undoing(txn[q]))'
    BY <2>3, <2>4
  <2> QED BY <1>2, <2>2, <2>5 DEF SerialInv
<1>5. ASSUME NEW r \in Request, Commit(r) PROVE SerialInv'
  <2>1. Reasoned(txn[r]) /\ Undoing(txn[r])
    BY DEF SerialInv
  <2>2. ReportInv'
    BY <1>1, <1>5, CommitKeepsReport
  <2>3. UndoneOnce'
    BY <1>1, <1>5, <2>1, <2>2, CommitKeepsUndone
  <2>4. ReasonFollowsEdits'
    BY <1>1, <1>5, <2>1, CommitKeepsReason
  <2>5. \A q \in Request : txn'[q] = NoTxn
    BY <1>1, <1>5 DEF OneRequest, LeadsInv, TxnInv, Commit
  <2>6. ASSUME NEW q \in Request PROVE (Reasoned(txn[q]) /\ Undoing(txn[q]))'
    BY <1>3, <2>5
  <2> QED BY <1>2, <2>2, <2>3, <2>4, <2>6 DEF SerialInv
<1>6. ASSUME NEW r \in Request, Abort(r) PROVE SerialInv'
  <2>1. /\ UNCHANGED <<lead, timeline, changesets, merged>>
        /\ txn' = [txn EXCEPT ![r] = NoTxn]
    BY <1>6 DEF Abort
  <2>2. ReportInv' /\ UndoneOnce' /\ ReasonFollowsEdits'
    BY <1>1, <2>1, ReportStays
  <2>3. \A q \in Request : txn'[q] = NoTxn
    BY <1>1, <2>1 DEF OneRequest, LeadsInv, TxnInv
  <2>4. ASSUME NEW q \in Request PROVE (Reasoned(txn[q]) /\ Undoing(txn[q]))'
    BY <1>3, <2>3
  <2> QED BY <1>2, <2>2, <2>4 DEF SerialInv
<1>7. CASE UNCHANGED vars
  <2>1. UNCHANGED <<lead, timeline, changesets, txn, merged>>
    BY <1>7 DEF vars
  <2>2. ReportInv' /\ UndoneOnce' /\ ReasonFollowsEdits'
    BY <1>1, <2>1, ReportStays
  <2>3. ASSUME NEW q \in Request PROVE (Reasoned(txn[q]) /\ Undoing(txn[q]))'
    <3>1. PICK u : u = txn[q]
      OBVIOUS
    <3>2. Reasoned(u)' /\ Undoing(u)'
      BY <2>1, <3>1, StagedStays DEF SerialInv
    <3> QED BY <2>1, <3>1, <3>2
  <2> QED BY <1>2, <2>2, <2>3 DEF SerialInv
<1>8. ASSUME NEW r \in Request, Edit(r) \/ Undo(r) PROVE SerialInv'
  <2>1. PICK t : Ready(r, t) /\ Begin(r, t)
    BY <1>1, <1>8, EditReady DEF LeadsInv
  <2> QED BY <1>4, <2>1
<1> QED
  BY <1>5, <1>6, <1>7, <1>8 DEF Next

LEMMA SerialInvariant == ASSUME OneRequest PROVE Spec => []SerialInv
BY InitSerial, SerialAlways, PTL DEF Spec

(* When requests do not overlap, a changeset is marked as undone exactly    *)
(* when one changeset undoes it, and never two do (UndoService.undo).      *)
THEOREM MarkedOnce == ASSUME OneRequest PROVE Spec => []UndoneOnce
<1>1. SerialInv => UndoneOnce
  BY DEF SerialInv
<1> QED
  BY <1>1, SerialInvariant, PTL

(* When requests do not overlap, a lead whose stage was last changed by an  *)
(* edit has a lost reason exactly when it is lost (_resolve_lost_reason).   *)
THEOREM ReasonFollows == ASSUME OneRequest PROVE Spec => []ReasonFollowsEdits
<1>1. SerialInv => ReasonFollowsEdits
  BY DEF SerialInv
<1> QED
  BY <1>1, SerialInvariant, PTL

(* What a step that undoes a changeset does to a lead it changes.           *)
LEMMA UndoneLead ==
  ASSUME OneRequest, SerialInv, NEW r \in Request, NEW t, t = txn[r], Commit(r),
         NEW c \in DOMAIN changesets, Undone(c),
         NEW l \in Lead, l \notin merged, l \in DOMAIN t.write, NEW x \in Touched(c, l)
  PROVE  /\ Get(lead[l], x) = Get(changesets[c].left[l], x)
         /\ Get(lead'[l], x) = Get(changesets[c].was[l], x)
<1>1. LeadsInv /\ ReportInv /\ TimelineInv
  BY DEF SerialInv, LeadsInv
<1>2. c = t.undoes /\ c # 0
  <2>1. c # t.undoes => changesets'[c].undone = changesets[c].undone
    BY <1>1, MarkedOnly
  <2>2. c # 0
    BY <1>1 DEF TimelineInv, IsSequence
  <2> QED BY <2>1, <2>2 DEF Undone
<1>3. Undoing(t)
  BY DEF SerialInv
<1>4. l \in Reversible(c, t.viewers) /\ Get(t.write[l], x) = RevertTo(c, l, x)
  BY <1>2, <1>3 DEF Undoing
<1>5. PICK i \in DOMAIN timeline :
        /\ x \in DOMAIN timeline[i].to /\ timeline[i].cs = c /\ timeline[i].lead = l
        /\ RevertTo(c, l, x) = timeline[i].from[x]
        /\ Expected(c, l, x) = timeline[i].to[x]
  BY <1>1, SoleEntry
<1>6. /\ timeline[i].from[x] = Get(changesets[c].was[l], x)
      /\ timeline[i].to[x] = Get(changesets[c].left[l], x)
  BY <1>1, <1>5 DEF ReportInv
<1>7. Get(lead[l], x) = Expected(c, l, x)
  BY <1>4 DEF Reversible, Conflicted
<1>8. Get(lead'[l], x) = Get(t.write[l], x)
  <2>1. x \in Target
    BY <1>1, <1>5 DEF TimelineInv
  <2> QED BY <1>1, <2>1, WrittenAlone
<1> QED
  BY <1>4, <1>5, <1>6, <1>7, <1>8

(* Only a commit marks a changeset, and it is the one its request undoes.   *)
LEMMA UndoneBy ==
  ASSUME LeadsInv, ReportInv, [Next]_vars, NEW c \in DOMAIN changesets, Undone(c)
  PROVE  \E r \in Request : Commit(r) /\ c = txn[r].undoes /\ c # 0
<1>1. changesets' # changesets
  BY DEF Undone
<1>2. ASSUME NEW r \in Request, Edit(r) \/ Undo(r) \/ Abort(r)
      PROVE  changesets' = changesets
  BY <1>2 DEF Edit, Undo, Abort, BeginCreate, BeginUpdate, BeginIntake, BeginDelete,
              BeginLog, BeginMerge, BeginReassign, BeginUndo, Begin
<1>3. PICK r \in Request : Commit(r)
  BY <1>1, <1>2 DEF Next, vars
<1>4. c = txn[r].undoes
  <2>1. c # txn[r].undoes => changesets'[c].undone = changesets[c].undone
    BY <1>3, MarkedOnly
  <2> QED BY <2>1 DEF Undone
<1>5. c # 0
  BY DEF LeadsInv, TimelineInv, IsSequence
<1> QED
  BY <1>3, <1>4, <1>5

(* When requests do not overlap, an undo changes a lead only if everything  *)
(* its changeset set is still as the changeset left it, and puts all of     *)
(* that back to what it was before (_plan_for, UndoService.undo).          *)
THEOREM UndoExact == ASSUME OneRequest PROVE Spec => UndoIsExact
<1>1. SerialInv /\ [Next]_vars =>
        \A c \in DOMAIN changesets, l \in Lead \ merged :
          Undone(c) /\ lead'[l] # lead[l] =>
            \A t \in Touched(c, l) :
              /\ Get(lead[l], t) = Get(changesets[c].left[l], t)
              /\ Get(lead'[l], t) = Get(changesets[c].was[l], t)
  <2> SUFFICES ASSUME SerialInv, [Next]_vars,
                      NEW c \in DOMAIN changesets, NEW l \in Lead \ merged,
                      Undone(c), lead'[l] # lead[l], NEW x \in Touched(c, l)
               PROVE  /\ Get(lead[l], x) = Get(changesets[c].left[l], x)
                      /\ Get(lead'[l], x) = Get(changesets[c].was[l], x)
    OBVIOUS
  <2>1. PICK r \in Request : Commit(r)
    BY UndoneBy DEF SerialInv
  <2>2. PICK t : t = txn[r]
    OBVIOUS
  <2>3. \A k \in Lead : k \notin DOMAIN t.write => lead'[k] = lead[k]
    BY <2>1, <2>2, CommittedRows DEF SerialInv
  <2> QED BY <2>1, <2>2, <2>3, UndoneLead
<1> QED
  BY <1>1, SerialInvariant, PTL DEF UndoIsExact, Spec

(* When requests do not overlap, an undo by somebody who sees every lead    *)
(* leaves behind no lead of the changeset but those deleted or changed      *)
(* since: every other one is back to what it was (preview_undo).            *)
THEOREM FullyUndone == ASSUME OneRequest PROVE Spec => BatchFullyUndone
<1>1. SerialInv /\ [Next]_vars =>
        \A c \in DOMAIN changesets, l \in Lead \ merged :
          /\ Undone(c) /\ changesets'[Len(changesets')].viewers = Member
          /\ Touched(c, l) # {}
          =>
            \/ lead[l].deleted
            \/ \E t \in Touched(c, l) :
                 Get(lead[l], t) # Get(changesets[c].left[l], t)
            \/ \A t \in Touched(c, l) :
                 Get(lead'[l], t) = Get(changesets[c].was[l], t)
  <2> SUFFICES ASSUME SerialInv, [Next]_vars,
                      NEW c \in DOMAIN changesets, NEW l \in Lead, l \notin merged,
                      Undone(c), changesets'[Len(changesets')].viewers = Member,
                      Touched(c, l) # {}, ~lead[l].deleted,
                      \A x \in Touched(c, l) :
                        Get(lead[l], x) = Get(changesets[c].left[l], x),
                      NEW x \in Touched(c, l)
               PROVE  Get(lead'[l], x) = Get(changesets[c].was[l], x)
    OBVIOUS
  <2>1. PICK r \in Request : Commit(r) /\ c = txn[r].undoes /\ c # 0
    BY UndoneBy DEF SerialInv
  <2>2. PICK t : t = txn[r]
    OBVIOUS
  <2>3. t.viewers = Member
    <3>1. PICK d : d = Len(changesets')
      OBVIOUS
    <3>2. d \in DOMAIN changesets' /\ d \notin DOMAIN changesets
      BY <2>1, <2>2, <3>1, UndoOpens DEF SerialInv
    <3>3. changesets'[d].viewers = t.viewers
      BY <2>1, <2>2, <3>2, OpenedLast DEF SerialInv
    <3> QED BY <3>1, <3>3
  <2>4. ~Conflicted(c, l)
    <3> SUFFICES ASSUME NEW y \in Touched(c, l) PROVE Get(lead[l], y) = Expected(c, l, y)
      BY DEF Conflicted
    <3>1. PICK i \in DOMAIN timeline :
            /\ y \in DOMAIN timeline[i].to /\ timeline[i].cs = c /\ timeline[i].lead = l
            /\ Expected(c, l, y) = timeline[i].to[y]
      BY SoleEntry DEF SerialInv, LeadsInv
    <3>2. timeline[i].to[y] = Get(changesets[c].left[l], y)
      BY <3>1 DEF SerialInv, ReportInv
    <3> QED BY <3>1, <3>2
  <2>5. l \in DOMAIN t.write
    <3>1. DOMAIN t.write = Reversible(c, t.viewers)
      BY <2>1, <2>2 DEF SerialInv, Undoing
    <3> QED BY <2>3, <2>4, <3>1 DEF Reversible, Planned, Visible
  <2> QED BY <2>1, <2>2, <2>5, UndoneLead
<1> QED
  BY <1>1, SerialInvariant, PTL DEF BatchFullyUndone, Spec

-----------------------------------------------------------------------------
(* Sums over a finite set of indices, whatever order they are added in.     *)

IsSum(f, w, U) ==
  f = [s \in SUBSET U |->
         IF s = {} THEN 0
         ELSE LET x == CHOOSE y \in s : TRUE IN w[x] + f[s \ {x}]]

Total(w, S) == (CHOOSE f : IsSum(f, w, S))[S]

(* Of some subsets of a finite set, one contains no other: what stands in   *)
(* for induction.                                                           *)
LEMMA LeastSet ==
  ASSUME NEW U, IsFiniteSet(U), NEW Bad \in SUBSET (SUBSET U), Bad # {}
  PROVE  \E T \in Bad : \A s \in SUBSET T : s \in Bad => s = T
<1>1. Bad \subseteq FiniteSubsetsOf(U)
  BY FS_Subset DEF FiniteSubsetsOf
<1>2. IsWellFoundedOn(StrictSubsetOrdering(U), FiniteSubsetsOf(U))
  BY FS_StrictSubsetOrderingWellFounded
<1>3. PICK T \in Bad : \A s \in Bad : <<s, T>> \notin StrictSubsetOrdering(U)
  BY <1>1, <1>2, WFMin
<1>4. ASSUME NEW s \in SUBSET T, s \in Bad, s # T PROVE FALSE
  BY <1>3, <1>4 DEF StrictSubsetOrdering
<1> QED
  BY <1>4

LEMMA SumStep ==
  ASSUME NEW f, NEW w, NEW U, IsSum(f, w, U)
  PROVE  /\ f[{}] = 0
         /\ \A s \in SUBSET U :
              s # {} => \E x \in s : /\ x = CHOOSE y \in s : TRUE
                                     /\ f[s] = w[x] + f[s \ {x}]
<1>1. \A s \in SUBSET U :
        f[s] = IF s = {} THEN 0
               ELSE w[CHOOSE y \in s : TRUE] + f[s \ {CHOOSE y \in s : TRUE}]
  BY DEF IsSum
<1>2. \A s : s # {} => (CHOOSE y \in s : TRUE) \in s
  OBVIOUS
<1> QED
  BY <1>1, <1>2

(* Two sums over the same weights agree wherever both are defined.          *)
LEMMA SumsAgree ==
  ASSUME NEW w, NEW v, NEW U, NEW V, NEW f, NEW g, IsFiniteSet(U),
         IsSum(f, w, U), IsSum(g, v, V), \A x \in U \cap V : w[x] = v[x]
  PROVE  \A s \in SUBSET (U \cap V) : f[s] = g[s]
<1> DEFINE Bad == {s \in SUBSET (U \cap V) : f[s] # g[s]}
<1> SUFFICES ASSUME Bad # {} PROVE FALSE
  OBVIOUS
<1>1. IsFiniteSet(U \cap V)
  BY FS_Subset
<1>2. PICK T \in Bad : \A s \in SUBSET T : s \in Bad => s = T
  <2>1. Bad \in SUBSET (SUBSET (U \cap V))
    OBVIOUS
  <2> HIDE DEF Bad
  <2> QED BY <1>1, <2>1, LeastSet
<1>7. /\ f[{}] = 0
      /\ \A s \in SUBSET U :
           s # {} => \E x \in s : /\ x = CHOOSE y \in s : TRUE
                                  /\ f[s] = w[x] + f[s \ {x}]
  BY SumStep
<1>8. /\ g[{}] = 0
      /\ \A s \in SUBSET V :
           s # {} => \E x \in s : /\ x = CHOOSE y \in s : TRUE
                                  /\ g[s] = v[x] + g[s \ {x}]
  BY SumStep
<1>3. T # {}
  BY <1>2, <1>7, <1>8
<1>4. PICK x \in T : x = (CHOOSE y \in T : TRUE) /\ f[T] = w[x] + f[T \ {x}]
  BY <1>2, <1>3, <1>7
<1>5. g[T] = v[x] + g[T \ {x}]
  <2>1. T \in SUBSET V
    BY <1>2
  <2>2. PICK z \in T : z = (CHOOSE y \in T : TRUE) /\ g[T] = v[z] + g[T \ {z}]
    BY <1>3, <1>8, <2>1
  <2>3. z = x
    BY <1>4, <2>2
  <2> QED BY <2>2, <2>3
<1>6. f[T \ {x}] = g[T \ {x}]
  BY <1>2, <1>4
<1> QED
  BY <1>2, <1>4, <1>5, <1>6

(* There is one.                                                            *)
LEMMA SumExists ==
  ASSUME NEW w, NEW U, IsFiniteSet(U)
  PROVE  \E f : IsSum(f, w, U)
<1> DEFINE Bad == {s \in SUBSET U : ~ \E f : IsSum(f, w, s)}
<1> SUFFICES ASSUME Bad # {} PROVE FALSE
  OBVIOUS
<1>1. PICK T \in Bad : \A s \in SUBSET T : s \in Bad => s = T
  <2>1. Bad \in SUBSET (SUBSET U)
    OBVIOUS
  <2> HIDE DEF Bad
  <2> QED BY <2>1, LeastSet
<1> DEFINE F(s) == CHOOSE f : IsSum(f, w, s)
           pick(s) == CHOOSE y \in s : TRUE
           rest(s) == s \ {pick(s)}
           g == [s \in SUBSET T |-> IF s = {} THEN 0
                                    ELSE w[pick(s)] + F(rest(s))[rest(s)]]
<1>2. \A s \in SUBSET T : s # T => IsSum(F(s), w, s)
  BY <1>1
<1>3. \A s \in SUBSET T : s # {} => pick(s) \in s /\ rest(s) \in SUBSET T /\ rest(s) # T
  OBVIOUS
<1>4. ASSUME NEW u \in SUBSET T, u # T PROVE g[u] = F(u)[u]
  <2>1. IsSum(F(u), w, u)
    BY <1>2, <1>4
  <2>2. CASE u = {}
    BY <2>1, <2>2, SumStep
  <2>3. CASE u # {}
    <3>1. F(u)[u] = w[pick(u)] + F(u)[rest(u)]
      <4> HIDE DEF F
      <4>1. \A s \in SUBSET u :
              s # {} => \E x \in s : /\ x = CHOOSE y \in s : TRUE
                                     /\ F(u)[s] = w[x] + F(u)[s \ {x}]
        BY <2>1, SumStep
      <4> QED BY <2>3, <4>1
    <3>2. IsSum(F(rest(u)), w, rest(u))
      BY <1>2, <1>3, <2>3
    <3>3. IsFiniteSet(u) /\ rest(u) \in SUBSET (u \cap rest(u))
      BY <1>1, FS_Subset
    <3>4. F(u)[rest(u)] = F(rest(u))[rest(u)]
      <4> HIDE DEF F, rest
      <4> QED BY <2>1, <3>2, <3>3, SumsAgree
    <3> QED BY <2>3, <3>1, <3>4
  <2> QED BY <2>2, <2>3
<1>5. IsSum(g, w, T)
  <2>1. \A s \in SUBSET T :
          s # {} => g[s] = w[pick(s)] + g[s \ {pick(s)}]
    BY <1>3, <1>4
  <2>2. g[{}] = 0 /\ g = [s \in SUBSET T |-> g[s]]
    OBVIOUS
  <2> HIDE DEF g
  <2> QED BY <2>1, <2>2 DEF IsSum
<1> QED
  BY <1>1, <1>5

(* A total is found through any sum that covers it.                         *)
LEMMA TotalIs ==
  ASSUME NEW w, NEW v, NEW U, IsFiniteSet(U), NEW f, IsSum(f, w, U),
         NEW S \in SUBSET U, \A x \in S : w[x] = v[x]
  PROVE  Total(v, S) = f[S]
<1>1. IsFiniteSet(S)
  BY FS_Subset
<1>2. IsSum(CHOOSE g : IsSum(g, v, S), v, S)
  BY <1>1, SumExists
<1>3. PICK g : g = (CHOOSE h : IsSum(h, v, S)) /\ IsSum(g, v, S)
  BY <1>2
<1>4. f[S] = g[S]
  BY <1>3, SumsAgree
<1> QED
  BY <1>3, <1>4 DEF Total
LEMMA TotalOf ==
  ASSUME NEW w, NEW U, IsFiniteSet(U), NEW f, IsSum(f, w, U)
  PROVE  \A S \in SUBSET U : Total(w, S) = f[S]
<1> SUFFICES ASSUME NEW S \in SUBSET U PROVE Total(w, S) = f[S]
  OBVIOUS
<1>1. \A x \in S : w[x] = w[x]
  OBVIOUS
<1> QED
  BY <1>1, TotalIs

LEMMA TotalAgrees ==
  ASSUME NEW S, IsFiniteSet(S), NEW w, NEW v, \A x \in S : w[x] = v[x]
  PROVE  Total(w, S) = Total(v, S)
<1>1. PICK f : IsSum(f, w, S)
  BY SumExists
<1>2. Total(v, S) = f[S]
  BY <1>1, TotalIs
<1>3. Total(w, S) = f[S]
  BY <1>1, TotalIs
<1> QED
  BY <1>2, <1>3

LEMMA TotalEmpty ==
  ASSUME NEW w
  PROVE  Total(w, {}) = 0
<1>1. IsFiniteSet({})
  BY FS_EmptySet
<1>2. PICK f : IsSum(f, w, {})
  BY <1>1, SumExists
<1>3. Total(w, {}) = f[{}]
  BY <1>1, <1>2, TotalIs
<1> QED
  BY <1>2, <1>3, SumStep

(* A sum over the weight the order begins with ...                          *)
LEMMA TotalFirst ==
  ASSUME NEW w, NEW S, IsFiniteSet(S), S # {}
  PROVE  \E x \in S : Total(w, S) = w[x] + Total(w, S \ {x})
<1>1. PICK f : IsSum(f, w, S)
  BY SumExists
<1>2. \A s \in SUBSET S : Total(w, s) = f[s]
  BY <1>1, TotalOf
<1>3. PICK x \in S : f[S] = w[x] + f[S \ {x}]
  <2>1. \A s \in SUBSET S :
          s # {} => \E x \in s : /\ x = CHOOSE y \in s : TRUE
                                 /\ f[s] = w[x] + f[s \ {x}]
    BY <1>1, SumStep
  <2> QED BY <2>1
<1> QED
  BY <1>2, <1>3

LEMMA TotalInt ==
  ASSUME NEW w, NEW U, IsFiniteSet(U), \A x \in U : w[x] \in Int
  PROVE  Total(w, U) \in Int
<1> DEFINE Bad == {s \in SUBSET U : Total(w, s) \notin Int}
<1> SUFFICES ASSUME Bad # {} PROVE FALSE
  OBVIOUS
<1>1. PICK T \in Bad : \A s \in SUBSET T : s \in Bad => s = T
  <2>1. Bad \in SUBSET (SUBSET U)
    OBVIOUS
  <2> HIDE DEF Bad
  <2> QED BY <2>1, LeastSet
<1>5. Total(w, {}) = 0
  BY TotalEmpty
<1>2. T # {} /\ IsFiniteSet(T)
  <2>1. T \in SUBSET U /\ Total(w, T) \notin Int
    BY <1>1
  <2>2. 0 \in Int
    OBVIOUS
  <2>3. T # {}
    BY <1>5, <2>1, <2>2
  <2> QED BY <2>1, <2>3, FS_Subset
<1>3. PICK x \in T : Total(w, T) = w[x] + Total(w, T \ {x})
  BY <1>2, TotalFirst
<1>4. Total(w, T \ {x}) \in Int
  BY <1>1
<1> QED
  BY <1>1, <1>3, <1>4

(* ... is a sum over any of them first.                                     *)
LEMMA TotalTakes ==
  ASSUME NEW w, NEW U, IsFiniteSet(U), \A x \in U : w[x] \in Int
  PROVE  \A x \in U : Total(w, U) = w[x] + Total(w, U \ {x})
<1> DEFINE Takes(s) == \A x \in s : Total(w, s) = w[x] + Total(w, s \ {x})
           Bad == {s \in SUBSET U : ~Takes(s)}
<1> SUFFICES ASSUME Bad # {} PROVE FALSE
  OBVIOUS
<1>1. PICK T \in Bad : \A s \in SUBSET T : s \in Bad => s = T
  <2>1. Bad \in SUBSET (SUBSET U)
    OBVIOUS
  <2> HIDE DEF Bad
  <2> QED BY <2>1, LeastSet
<1>2. PICK x \in T : Total(w, T) # w[x] + Total(w, T \ {x})
  BY <1>1
<1>3. T # {} /\ IsFiniteSet(T)
  BY <1>1, <1>2, FS_Subset
<1>4. PICK y \in T : Total(w, T) = w[y] + Total(w, T \ {y})
  BY <1>3, TotalFirst
<1> DEFINE R == (T \ {y}) \ {x}
<1>10. x # y
  BY <1>2, <1>4
<1>11. \A s \in SUBSET T : s # T => Takes(s)
  BY <1>1
<1>5. Total(w, T \ {y}) = w[x] + Total(w, R)
  <2>1. Takes(T \ {y}) /\ x \in T \ {y}
    BY <1>4, <1>10, <1>11
  <2> QED BY <2>1
<1>6. Total(w, T \ {x}) = w[y] + Total(w, R)
  <2>1. R = (T \ {x}) \ {y}
    OBVIOUS
  <2>2. Takes(T \ {x}) /\ y \in T \ {x}
    BY <1>2, <1>10, <1>11
  <2> HIDE DEF R
  <2> QED BY <2>1, <2>2
<1>7. Total(w, R) \in Int
  <2>1. R \in SUBSET U /\ IsFiniteSet(R)
    BY <1>1, <1>3, FS_Subset
  <2> HIDE DEF R
  <2> QED BY <2>1, TotalInt
<1>8. w[x] \in Int /\ w[y] \in Int
  BY <1>1
<1> HIDE DEF R
<1> QED
  BY <1>2, <1>4, <1>5, <1>6, <1>7, <1>8

LEMMA TotalJoins ==
  ASSUME NEW w, NEW S, NEW U, IsFiniteSet(S), IsFiniteSet(U), S \cap U = {},
         \A x \in S \cup U : w[x] \in Int
  PROVE  Total(w, S \cup U) = Total(w, S) + Total(w, U)
<1> DEFINE Joins(s) == Total(w, S \cup s) = Total(w, S) + Total(w, s)
           Bad == {s \in SUBSET U : ~Joins(s)}
<1> SUFFICES ASSUME Bad # {} PROVE FALSE
  OBVIOUS
<1>1. PICK T \in Bad : \A s \in SUBSET T : s \in Bad => s = T
  <2>1. Bad \in SUBSET (SUBSET U)
    OBVIOUS
  <2> HIDE DEF Bad
  <2> QED BY <2>1, LeastSet
<1>2. \A s \in SUBSET U : /\ IsFiniteSet(s) /\ Total(w, s) \in Int
                          /\ IsFiniteSet(S \cup s)
  BY TotalInt, FS_Subset, FS_Union
<1>3. Total(w, S) \in Int
  BY TotalInt
<1>4. T # {}
  <2>1. Total(w, {}) = 0 /\ S \cup {} = S
    BY TotalEmpty
  <2>2. Joins({})
    BY <1>3, <2>1
  <2>3. ~Joins(T)
    BY <1>1
  <2> HIDE DEF Joins
  <2> QED BY <2>2, <2>3
<1>5. PICK x \in T : TRUE
  BY <1>4
<1> DEFINE R == T \ {x}
<1>6. Total(w, S \cup R) = Total(w, S) + Total(w, R)
  BY <1>1
<1>7. Total(w, T) = w[x] + Total(w, R)
  <2>1. IsFiniteSet(T) /\ \A y \in T : w[y] \in Int
    BY <1>1, <1>2
  <2> QED BY <2>1, TotalTakes
<1>8. Total(w, S \cup T) = w[x] + Total(w, S \cup R)
  <2>1. (S \cup T) \ {x} = S \cup R
    BY <1>1
  <2>2. IsFiniteSet(S \cup T) /\ \A y \in S \cup T : w[y] \in Int
    BY <1>1, <1>2
  <2> HIDE DEF R
  <2> QED BY <1>5, <2>1, <2>2, TotalTakes
<1>9. w[x] \in Int /\ Total(w, R) \in Int /\ Total(w, S \cup T) # Total(w, S) + Total(w, T)
  BY <1>1, <1>2
<1> HIDE DEF R
<1> QED
  BY <1>3, <1>6, <1>7, <1>8, <1>9

(* The score the timeline gives a lead is such a total.                     *)
LEMMA RollupIs ==
  ASSUME NEW h, IsFiniteSet(DOMAIN h), NEW w, \A i \in DOMAIN h : w[i] = h[i].score,
         NEW l
  PROVE  Rollup(h, l) = Total(w, {i \in DOMAIN h : h[i].lead = l})
<1> DEFINE S == {i \in DOMAIN h : h[i].lead = l}
           IsOwn(f) ==
             f = [s \in SUBSET S |->
                    IF s = {} THEN 0
                    ELSE LET x == CHOOSE y \in s : TRUE IN h[x].score + f[s \ {x}]]
<1>1. Rollup(h, l) = (CHOOSE f : IsOwn(f))[S]
  BY DEF Rollup, MapThenSumSet, MapThenFoldSet
<1>2. IsFiniteSet(S) /\ \A s \in SUBSET S :
        s # {} => w[CHOOSE y \in s : TRUE] = h[CHOOSE y \in s : TRUE].score
  BY FS_Subset
<1> HIDE DEF S
<1>3. ASSUME NEW f PROVE IsOwn(f) <=> IsSum(f, w, S)
  <2>1. [s \in SUBSET S |->
            IF s = {} THEN 0
            ELSE LET x == CHOOSE y \in s : TRUE IN h[x].score + f[s \ {x}]]
        = [s \in SUBSET S |->
            IF s = {} THEN 0
            ELSE LET x == CHOOSE y \in s : TRUE IN w[x] + f[s \ {x}]]
    BY <1>2
  <2> QED BY <2>1 DEF IsSum
<1>4. PICK f : f = (CHOOSE g : IsOwn(g)) /\ IsSum(f, w, S)
  <2>1. \E g : IsOwn(g)
    <3>1. PICK g : IsSum(g, w, S)
      BY <1>2, SumExists
    <3>2. IsOwn(g)
      BY <1>3, <3>1
    <3> HIDE DEF IsOwn
    <3> QED BY <3>2
  <2> HIDE DEF IsOwn
  <2> QED BY <1>3, <2>1
<1>5. Total(w, S) = f[S]
  BY <1>2, <1>4, TotalOf
<1> QED
  BY <1>1, <1>4, <1>5 DEF S

-----------------------------------------------------------------------------
(* What every request stages adds to the score what its actions score.      *)

LEMMA NoGain ==
  ASSUME NEW t, \A k \in DOMAIN t.entries : t.entries[k].score = 0, NEW l
  PROVE  Gain(t, l) = 0
<1> DEFINE K == {k \in DOMAIN t.entries : t.entries[k].lead = l}
<1>1. K # {} => (CHOOSE k \in K : TRUE) \in K
  OBVIOUS
<1> QED
  BY <1>1 DEF Gain

LEMMA NoneBrought ==
  ASSUME NEW t, NEW l, \A m \in t.moved : m.to # l
  PROVE  Brought(t, l) = 0
<1>1. {m \in t.moved : m.to = l} = {}
  OBVIOUS
<1> QED
  BY <1>1 DEF Brought

(* A request whose actions score nothing leaves the score alone.            *)
LEMMA PlainScored ==
  ASSUME NEW t, t.moved = {}, \A k \in DOMAIN t.entries : t.entries[k].score = 0,
         \A l \in DOMAIN t.write : /\ t.read[l].score \in Int
                                   /\ t.write[l].score = t.read[l].score
  PROVE  Scored(t)
<1>1. \A l : Gain(t, l) = 0 /\ Brought(t, l) = 0
  BY NoGain, NoneBrought
<1> QED
  BY <1>1 DEF Scored

BatchOf(t, S, new) ==
  /\ DOMAIN t = {"open", "read", "write", "entries", "opens", "undoes",
                 "viewers", "rejected", "moved", "since"}
  /\ t.moved = {} /\ t.write = new /\ t.read = [l \in S |-> lead[l]]
  /\ \A k \in DOMAIN t.entries : t.entries[k].score = 0

LEMMA BatchIs ==
  ASSUME NEW S \in SUBSET Lead, NEW new, DOMAIN new = S,
         NEW order \in Orders(Changed(S, new))
  PROVE  BatchOf(Batch(S, new, order), S, new)
<1> DEFINE es == [i \in DOMAIN order |-> Edited(order[i], lead[order[i]], new[order[i]])]
           t == Batch(S, new, order)
<1>1. t = Staged(S, new, es)
  BY DEF Batch
<1>2. \A k \in DOMAIN es : es[k].score = 0
  BY DEF Edited, Entry
<1> HIDE DEF es
<1>3. /\ DOMAIN t = {"open", "read", "write", "entries", "opens", "undoes",
                     "viewers", "rejected", "moved", "since"}
      /\ t.moved = {} /\ t.write = new /\ t.read = [l \in S |-> lead[l]]
      /\ t.entries = es
  BY <1>1 DEF Staged, NoTxn
<1> QED
  BY <1>2, <1>3 DEF BatchOf

LEMMA NoTxnScored == Scored(NoTxn)
<1>1. /\ NoTxn.moved = {} /\ DOMAIN NoTxn.entries = {} /\ DOMAIN NoTxn.write = {}
  BY DEF NoTxn
<1> QED
  BY <1>1 DEF Scored

LEMMA BatchScored ==
  ASSUME NEW S \in SUBSET Lead, NEW new, DOMAIN new = S,
         NEW order \in Orders(Changed(S, new)),
         \A l \in S : new[l].score = lead[l].score /\ lead[l].score \in Int
  PROVE  Scored(Batch(S, new, order))
<1>1. PICK t : t = Batch(S, new, order)
  OBVIOUS
<1>2. /\ t.moved = {} /\ t.write = new /\ t.read = [l \in S |-> lead[l]]
      /\ \A k \in DOMAIN t.entries : t.entries[k].score = 0
  <2>1. BatchOf(t, S, new)
    BY <1>1, BatchIs
  <2> QED BY <2>1 DEF BatchOf
<1>3. Scored(t)
  BY <1>2, PlainScored
<1> QED
  BY <1>1, <1>3

LEMMA EditsKeepScore ==
  ASSUME NEW row, DOMAIN row = DOMAIN Blank, NEW p
  PROVE  /\ ValuesPatched(row, p).score = row.score
         /\ Patched(row, p).score = row.score
         /\ Reverted(row, p).score = row.score
<1> DEFINE mid == ValuesPatched(row, p)
<1>1. DOMAIN mid = DOMAIN Blank /\ mid.score = row.score
  BY ColumnsOf DEF ValuesPatched
<1>2. Patched(row, p).score = mid.score
  <2> HIDE DEF mid
  <2> QED BY <1>1, ColumnsOf DEF Patched, mid
<1>3. Reverted(row, p).score = row.score
  BY ColumnsOf DEF Reverted
<1> QED
  BY <1>1, <1>2, <1>3

LEMMA UpdateScored ==
  ASSUME RowsInv, \A l \in Lead : lead[l].score \in Int,
         NEW r \in Request, NEW S \in SUBSET Lead, NEW p, BeginUpdate(r, S, p)
  PROVE  \E t : Scored(t) /\ Begin(r, t)
<1>1. PICK new : new = [l \in S |-> Patched(lead[l], p)]
  OBVIOUS
<1>2. PICK order \in Orders(Changed(S, new)) : Begin(r, Batch(S, new, order))
  BY <1>1 DEF BeginUpdate
<1>3. \A l \in S : DOMAIN lead[l] = DOMAIN Blank
  BY DEF RowsInv
<1>4. \A l \in S : new[l].score = lead[l].score
  BY <1>1, <1>3, EditsKeepScore
<1>5. DOMAIN new = S
  BY <1>1
<1>6. Scored(Batch(S, new, order))
  BY <1>2, <1>4, <1>5, BatchScored
<1> QED
  BY <1>2, <1>6

LEMMA IntakeScored ==
  ASSUME RowsInv, \A l \in Lead : lead[l].score \in Int,
         NEW r \in Request, NEW l \in Lead, NEW p, BeginIntake(r, l, p)
  PROVE  \E t : Scored(t) /\ Begin(r, t)
<1> DEFINE refused == StageRefused(lead[l], p)
           row == IF refused THEN ValuesPatched(lead[l], p) ELSE Patched(lead[l], p)
<1>1. PICK new : new = [k \in {l} |-> row]
  OBVIOUS
<1>2. PICK order \in Orders(Changed({l}, new)) :
        Begin(r, [Batch({l}, new, order) EXCEPT !.rejected = refused])
  BY <1>1 DEF BeginIntake
<1>3. row.score = lead[l].score
  <2>1. DOMAIN lead[l] = DOMAIN Blank
    BY DEF RowsInv
  <2> QED BY <2>1, EditsKeepScore
<1> HIDE DEF row, refused
<1>4. PICK s : s = Batch({l}, new, order)
  OBVIOUS
<1>5. PICK t : t = [s EXCEPT !.rejected = refused]
  OBVIOUS
<1>6. /\ DOMAIN s = {"open", "read", "write", "entries", "opens", "undoes",
                     "viewers", "rejected", "moved", "since"}
      /\ s.moved = {} /\ s.write = new /\ s.read = [k \in {l} |-> lead[k]]
      /\ \A k \in DOMAIN s.entries : s.entries[k].score = 0
  <2>1. DOMAIN new = {l} /\ {l} \in SUBSET Lead
    BY <1>1
  <2>2. BatchOf(s, {l}, new)
    BY <1>2, <1>4, <2>1, BatchIs
  <2> QED BY <2>2 DEF BatchOf
<1>7. /\ t.moved = {} /\ t.write = new /\ t.read = [k \in {l} |-> lead[k]]
      /\ \A k \in DOMAIN t.entries : t.entries[k].score = 0
  BY <1>5, <1>6
<1>8. Scored(t)
  BY <1>1, <1>3, <1>7, PlainScored
<1> QED
  BY <1>2, <1>4, <1>5, <1>8

LEMMA ReassignScored ==
  ASSUME RowsInv, \A l \in Lead : lead[l].score \in Int,
         NEW r \in Request, NEW leaver, NEW successor,
         BeginReassign(r, leaver, successor)
  PROVE  \E t : Scored(t) /\ Begin(r, t)
<1>1. PICK S \in SUBSET Lead : S = OpenLeadsOf(leaver)
  BY DEF OpenLeadsOf
<1>2. PICK new : new = [l \in S |-> [lead[l] EXCEPT !.assignee = successor]]
  OBVIOUS
<1>3. PICK order \in Orders(Changed(S, new)) : Begin(r, Batch(S, new, order))
  BY <1>1, <1>2 DEF BeginReassign
<1>4. \A l \in S : new[l].score = lead[l].score
  BY <1>2, ColumnsOf DEF RowsInv
<1>5. DOMAIN new = S
  BY <1>2
<1>6. Scored(Batch(S, new, order))
  BY <1>3, <1>4, <1>5, BatchScored
<1> QED
  BY <1>3, <1>6

LEMMA MergeScored ==
  ASSUME RowsInv, \A l \in Lead : lead[l].score \in Int, NEW r \in Request,
         NEW primary \in Lead, NEW other \in Lead, BeginMerge(r, primary, other)
  PROVE  \E t : Scored(t) /\ Begin(r, t)
<1>1. PICK filled : filled =
        [lead[primary] EXCEPT
           !.values = [f \in Field |-> IF @[f] = None THEN lead[other].values[f]
                                       ELSE @[f]],
           !.score = @ + lead[other].score]
  OBVIOUS
<1>2. PICK gone : gone = [lead[other] EXCEPT !.deleted = TRUE]
  OBVIOUS
<1>3. PICK S \in SUBSET Lead : S = {primary, other}
  OBVIOUS
<1>4. PICK new : new = [l \in S |-> IF l = primary THEN filled ELSE gone]
  OBVIOUS
<1>5. PICK m : m = [from |-> other, to |-> primary, upto |-> Len(timeline)]
  OBVIOUS
<1>6. PICK order \in Orders(Changed(S, new)) :
        Begin(r, [Batch(S, new, order) EXCEPT !.moved = {m}])
  BY <1>1, <1>2, <1>3, <1>4, <1>5 DEF BeginMerge
<1>7. primary # other
  BY DEF BeginMerge
<1>8. PICK s : s = Batch(S, new, order)
  OBVIOUS
<1>9. PICK t : t = [s EXCEPT !.moved = {m}]
  OBVIOUS
<1>10. /\ t.moved = {m} /\ t.write = new /\ t.read = [l \in S |-> lead[l]]
       /\ \A k \in DOMAIN t.entries : t.entries[k].score = 0
  <2>1. DOMAIN new = S
    BY <1>4
  <2>2. /\ DOMAIN s = {"open", "read", "write", "entries", "opens", "undoes",
                       "viewers", "rejected", "moved", "since"}
        /\ s.write = new /\ s.read = [l \in S |-> lead[l]]
        /\ \A k \in DOMAIN s.entries : s.entries[k].score = 0
    <3>1. BatchOf(s, S, new)
      BY <1>6, <1>8, <2>1, BatchIs
    <3> QED BY <3>1 DEF BatchOf
  <2> QED BY <1>9, <2>2
<1>11. /\ filled.score = lead[primary].score + lead[other].score
       /\ gone.score = lead[other].score
  <2>1. DOMAIN lead[primary] = DOMAIN Blank /\ DOMAIN lead[other] = DOMAIN Blank
    BY DEF RowsInv
  <2> QED BY <1>1, <1>2, <2>1, ColumnsOf
<1>12. m.from = other /\ m.to = primary
  BY <1>5
<1>13. \A l : Gain(t, l) = 0
  BY <1>10, NoGain
<1>14. Brought(t, other) = 0
  BY <1>7, <1>10, <1>12, NoneBrought
<1>15. Brought(t, primary) = lead[other].score
  <2>1. {n \in t.moved : n.to = primary} = {m}
    BY <1>10, <1>12
  <2>2. (CHOOSE n \in {m} : TRUE) = m /\ {m} # {}
    OBVIOUS
  <2>3. t.read[m.from] = lead[other]
    BY <1>3, <1>10, <1>12
  <2> QED BY <2>1, <2>2, <2>3 DEF Brought
<1>16. /\ DOMAIN t.write = {primary, other}
       /\ t.write[primary] = filled /\ t.write[other] = gone
       /\ t.read[primary] = lead[primary] /\ t.read[other] = lead[other]
  BY <1>3, <1>4, <1>7, <1>10
<1>17. \A l \in DOMAIN t.write :
         t.write[l].score = t.read[l].score + Gain(t, l) + Brought(t, l)
  <2>1. PICK a \in Int, b \in Int : a = lead[primary].score /\ b = lead[other].score
    OBVIOUS
  <2>2. a + b = a + 0 + b /\ b = b + 0 + 0
    BY <2>1
  <2> QED BY <1>11, <1>13, <1>14, <1>15, <1>16, <2>1, <2>2
<1>18. Scored(t)
  BY <1>7, <1>10, <1>12, <1>17 DEF Scored
<1> QED
  BY <1>6, <1>8, <1>9, <1>18

LEMMA DeleteScored ==
  ASSUME RowsInv, \A l \in Lead : lead[l].score \in Int,
         NEW r \in Request, NEW l \in Lead, BeginDelete(r, l)
  PROVE  \E t : Scored(t) /\ Begin(r, t)
<1>1. PICK row : row = [lead[l] EXCEPT !.deleted = TRUE]
  OBVIOUS
<1>2. PICK t : t = [Staged({l}, [k \in {l} |-> row], <<>>) EXCEPT !.opens = FALSE]
  OBVIOUS
<1>3. Begin(r, t)
  BY <1>1, <1>2 DEF BeginDelete
<1>4. row.score = lead[l].score
  BY <1>1, ColumnsOf DEF RowsInv
<1>5. /\ t.write = [k \in {l} |-> row] /\ t.read = [k \in {l} |-> lead[k]]
      /\ t.moved = {} /\ t.entries = <<>>
  BY <1>2 DEF Staged, NoTxn
<1>6. Scored(t)
  BY <1>4, <1>5, PlainScored
<1> QED
  BY <1>3, <1>6

LEMMA LogScored ==
  ASSUME RowsInv, \A l \in Lead : lead[l].score \in Int,
         NEW r \in Request, NEW l \in Lead, NEW score \in Score, BeginLog(r, l, score)
  PROVE  \E t : Scored(t) /\ Begin(r, t)
<1>1. PICK row : row = [lead[l] EXCEPT !.score = @ + score]
  OBVIOUS
<1>2. PICK from : from = At(row, {})
  OBVIOUS
<1>3. PICK e : e = Entry(l, from, from, score)
  OBVIOUS
<1>4. PICK t : t = Staged({l}, [k \in {l} |-> row], <<e>>)
  OBVIOUS
<1>5. Begin(r, t)
  BY <1>1, <1>2, <1>3, <1>4 DEF BeginLog
<1>6. row.score = lead[l].score + score
  BY <1>1, ColumnsOf DEF RowsInv
<1>7. /\ t.write = [k \in {l} |-> row] /\ t.read = [k \in {l} |-> lead[k]]
      /\ t.moved = {} /\ t.entries = <<e>>
  BY <1>4 DEF Staged, NoTxn
<1>8. e.lead = l /\ e.score = score
  BY <1>3 DEF Entry
<1>9. DOMAIN t.entries = {1} /\ t.entries[1] = e
  BY <1>7
<1>10. Gain(t, l) = score
  <2>1. {k \in DOMAIN t.entries : t.entries[k].lead = l} = {1}
    BY <1>8, <1>9
  <2>2. (CHOOSE k \in {1} : TRUE) = 1 /\ {1} # {}
    OBVIOUS
  <2> QED BY <1>8, <1>9, <2>1, <2>2 DEF Gain
<1>11. Brought(t, l) = 0
  BY <1>7, NoneBrought
<1>12. score \in Int
  BY SchemaAssumption
<1>13. \A k \in DOMAIN t.entries : t.entries[k].score \in Int
  BY <1>8, <1>9, <1>12
<1>14. t.write[l].score = t.read[l].score + Gain(t, l) + Brought(t, l)
  BY <1>6, <1>7, <1>10, <1>11, <1>12
<1>15. Scored(t)
  BY <1>7, <1>13, <1>14 DEF Scored
<1> QED
  BY <1>5, <1>15

LEMMA CreateScored ==
  ASSUME RowsInv, NEW r \in Request, NEW l \in Lead, NEW p, NEW member,
         BeginCreate(r, l, p, member)
  PROVE  \E t : Scored(t) /\ Begin(r, t)
<1>1. PICK row : row =
        [Blank EXCEPT
           !.exists = TRUE,
           !.ident = p[IdentityField],
           !.values = [f \in Field |-> IF f \in DOMAIN p THEN p[f] ELSE None],
           !.stage = IF "stage" \in DOMAIN p THEN p["stage"] ELSE InitialStage,
           !.assignee = member,
           !.rating = IF "rating" \in DOMAIN p THEN p["rating"] ELSE None]
  OBVIOUS
<1>2. PICK e : e = Entry(l, At(Blank, {"assignee"}), At(row, {"assignee"}), 0)
  OBVIOUS
<1>3. PICK entries : entries = IF member = None THEN <<>> ELSE <<e>>
  OBVIOUS
<1>4. PICK t : t = Staged({l}, [k \in {l} |-> row], entries)
  OBVIOUS
<1>5. Begin(r, t) /\ lead[l] = Blank
  BY <1>1, <1>2, <1>3, <1>4 DEF BeginCreate, RowsInv
<1>6. row.score = 0 /\ Blank.score = 0
  BY <1>1 DEF Blank
<1>7. /\ t.write = [k \in {l} |-> row] /\ t.read = [k \in {l} |-> lead[k]]
      /\ t.moved = {} /\ t.entries = entries
  BY <1>4 DEF Staged, NoTxn
<1>8. e.score = 0
  BY <1>2 DEF Entry
<1>9. \A k \in DOMAIN t.entries : t.entries[k].score = 0
  BY <1>3, <1>7, <1>8
<1>10. Scored(t)
  BY <1>5, <1>6, <1>7, <1>9, PlainScored
<1> QED
  BY <1>5, <1>10

LEMMA UndoScored ==
  ASSUME RowsInv, \A l \in Lead : lead[l].score \in Int,
         NEW r \in Request, NEW c, NEW viewers, NEW skip, BeginUndo(r, c, viewers, skip)
  PROVE  \E t : Scored(t) /\ Begin(r, t)
<1>1. PICK S \in SUBSET Lead : S = Reversible(c, viewers)
  BY DEF Reversible, Planned
<1>2. PICK new : new = [l \in S |-> Reverted(lead[l], Plan(c, l))]
  OBVIOUS
<1>3. PICK order \in Orders(S) :
        Begin(r, [Staged(S, new, [i \in DOMAIN order |->
                             LET l == order[i]
                             IN Entry(l, At(lead[l], Touched(c, l)), Plan(c, l), 0)])
                    EXCEPT !.undoes = c, !.viewers = viewers])
  BY <1>1, <1>2 DEF BeginUndo
<1>4. PICK es : es = [i \in DOMAIN order |->
                        Entry(order[i], At(lead[order[i]], Touched(c, order[i])),
                              Plan(c, order[i]), 0)]
  OBVIOUS
<1>5. PICK t : t = [Staged(S, new, es) EXCEPT !.undoes = c, !.viewers = viewers]
  OBVIOUS
<1>6. Begin(r, t)
  BY <1>3, <1>4, <1>5
<1>7. /\ t.write = new /\ t.read = [l \in S |-> lead[l]] /\ t.moved = {}
      /\ t.entries = es
  BY <1>5 DEF Staged, NoTxn
<1>8. \A k \in DOMAIN es : es[k].score = 0
  BY <1>4 DEF Entry
<1>9. \A l \in S : new[l].score = lead[l].score
  <2>1. \A l \in S : DOMAIN lead[l] = DOMAIN Blank
    BY DEF RowsInv
  <2>2. ASSUME NEW l \in S PROVE new[l].score = lead[l].score
    <3>1. PICK plan : plan = Plan(c, l)
      OBVIOUS
    <3>2. Reverted(lead[l], plan).score = lead[l].score
      BY <2>1, EditsKeepScore
    <3> QED BY <1>2, <3>1, <3>2
  <2> QED BY <2>2
<1>10. Scored(t)
  BY <1>2, <1>7, <1>8, <1>9, PlainScored
<1> QED
  BY <1>6, <1>10

-----------------------------------------------------------------------------
(* What a commit makes of the totals. *)

(* The weight of every action, by its place in the timeline. *)
Weighs(w, actions) ==
  IsFiniteSet(DOMAIN actions) /\ \A i \in DOMAIN actions :
    w[i] = actions[i].score /\ w[i] \in Int

LEMMA StandingTotal ==
  ASSUME LeadsInv, ScoreInv, NEW w, Weighs(w, timeline), NEW l \in Lead, ~lead[l].deleted
  PROVE  Total(w, {i \in DOMAIN timeline : timeline[i].lead = l}) = lead[l].score
<1> DEFINE S == {i \in DOMAIN timeline : timeline[i].lead = l}
<1>1. Rollup(timeline, l) = Total(w, S)
  BY RollupIs DEF Weighs
<1>2. CASE lead[l].exists
  BY <1>1, <1>2 DEF ScoreInv, ScoreIsRollup, Live
<1>3. CASE ~lead[l].exists
  <2>1. S = {}
    BY <1>3 DEF LeadsInv, TimelineInv
  <2>2. lead[l].score = 0
    BY <1>3 DEF LeadsInv, RowsInv, Blank
  <2>3. Total(w, {}) = 0
    BY TotalEmpty
  <2> HIDE DEF S
  <2>4. Total(w, S) = lead[l].score
    BY <2>1, <2>2, <2>3
  <2> QED BY <2>4 DEF S
<1> QED
  BY <1>2, <1>3

(* Of the entries moved by a merge, a lead keeps its own and gets those of   *)
(* the lead that is folded into it.                                         *)
LEMMA KeptTotal ==
  ASSUME OneRequest, LeadsInv, ScoreInv, NEW r \in Request, NEW t, t = txn[r], Commit(r),
         NEW w, Weighs(w, timeline), NEW l \in Lead, ~lead[l].deleted, ~lead'[l].deleted
  PROVE  Total(w, {i \in DOMAIN timeline : timeline'[i].lead = l})
           = lead[l].score + Brought(t, l)
<1> DEFINE Of(k) == {i \in DOMAIN timeline : timeline[i].lead = k}
           Kept == {i \in DOMAIN timeline : timeline'[i].lead = l}
<1>1. /\ Scored(t) /\ Sound(t) /\ Current(t)
      /\ l \in DOMAIN t.write /\ t.write[l].deleted => lead'[l].deleted
  <2>1. Current(t)
    BY DEF LeadsInv, CurrentInv
  <2> QED BY <2>1, CommittedRows DEF ScoreInv
<1>2. ASSUME NEW i \in DOMAIN timeline
      PROVE  \/ /\ timeline'[i].lead = timeline[i].lead
                /\ \A m \in t.moved : m.from # timeline[i].lead
             \/ \E m \in t.moved : /\ m.from = timeline[i].lead
                                   /\ timeline'[i].lead = m.to
  <2>1. PICK n \in Nat : n = Len(timeline)
    BY CommittedTimeline
  <2>2. /\ DOMAIN timeline = 1 .. n
        /\ \/ /\ timeline'[i].lead = timeline[i].lead
              /\ \A m \in t.moved : m.from = timeline[i].lead => ~(i <= m.upto)
           \/ \E m \in t.moved : /\ m.from = timeline[i].lead
                                 /\ timeline'[i].lead = m.to
    BY <2>1, CommittedTimeline
  <2>3. \A m \in t.moved : i <= m.upto
    BY <1>1, <2>1, <2>2 DEF Current
  <2> QED BY <2>2, <2>3
<1>3. \A m \in t.moved : /\ m.from # m.to /\ m.from # l /\ \A n \in t.moved : n = m
                         /\ m.from \in Lead /\ ~lead[m.from].deleted
                         /\ t.read[m.from] = lead[m.from]
  <2>1. ASSUME NEW m \in t.moved
        PROVE  m.from \in DOMAIN t.write /\ t.write[m.from].deleted = TRUE
    BY <1>1 DEF Sound
  <2> QED BY <1>1, <2>1 DEF Sound, Current, Scored
<1>4. Total(w, Of(l)) = lead[l].score /\ lead[l].score \in Int
  BY StandingTotal DEF ScoreInv
<1>5. CASE \A m \in t.moved : m.to # l
  <2>1. Kept = Of(l)
    BY <1>2, <1>3, <1>5
  <2>2. Brought(t, l) = 0
    BY <1>5, NoneBrought
  <2>3. lead[l].score + 0 = lead[l].score
    BY <1>4
  <2> QED BY <1>4, <2>1, <2>2, <2>3
<1>6. ASSUME NEW m \in t.moved, m.to = l
      PROVE  Total(w, Kept) = lead[l].score + Brought(t, l)
  <2>1. Kept = Of(l) \cup Of(m.from) /\ Of(l) \cap Of(m.from) = {}
    BY <1>2, <1>3, <1>6
  <2>2. Total(w, Of(m.from)) = lead[m.from].score
    BY <1>3, StandingTotal
  <2>3. Brought(t, l) = lead[m.from].score
    <3>1. {n \in t.moved : n.to = l} = {m}
      BY <1>3, <1>6
    <3>2. (CHOOSE n \in {m} : TRUE) = m /\ {m} # {}
      OBVIOUS
    <3> QED BY <1>3, <3>1, <3>2 DEF Brought
  <2>4. /\ IsFiniteSet(Of(l)) /\ IsFiniteSet(Of(m.from))
        /\ \A i \in Of(l) \cup Of(m.from) : w[i] \in Int
    BY FS_Subset DEF Weighs
  <2> HIDE DEF Of, Kept
  <2>5. Total(w, Of(l) \cup Of(m.from)) = Total(w, Of(l)) + Total(w, Of(m.from))
    BY <2>1, <2>4, TotalJoins
  <2> QED BY <1>4, <2>1, <2>2, <2>3, <2>5
<1> QED
  BY <1>5, <1>6

(* The entries a request adds are those it scored the lead with.            *)
LEMMA AddedTotal ==
  ASSUME LeadsInv, ScoreInv, NEW r \in Request, NEW t, t = txn[r], Commit(r),
         NEW w, Weighs(w, timeline'), NEW l \in Lead
  PROVE  LET new == (DOMAIN timeline') \ (DOMAIN timeline)
         IN /\ Total(w, {i \in new : timeline'[i].lead = l}) = Gain(t, l)
            /\ Gain(t, l) \in Int
<1> DEFINE Added == {i \in (DOMAIN timeline') \ (DOMAIN timeline) : timeline'[i].lead = l}
           K == {k \in DOMAIN t.entries : t.entries[k].lead = l}
<1>1. Scored(t) /\ Recording(t)
  BY DEF ScoreInv, LeadsInv, TxnInv, Sound
<1>2. PICK n \in Nat, e \in Nat :
        /\ DOMAIN timeline = 1 .. n /\ DOMAIN t.entries = 1 .. e
        /\ DOMAIN timeline' = 1 .. (n + e)
        /\ \A k \in 1 .. e : /\ timeline'[n + k].lead = t.entries[k].lead
                             /\ timeline'[n + k].score = t.entries[k].score
  <2>1. PICK n, e : n = Len(timeline) /\ e = Len(t.entries)
    OBVIOUS
  <2>2. /\ n \in Nat /\ e \in Nat /\ DOMAIN timeline = 1 .. n
        /\ DOMAIN t.entries = 1 .. e /\ DOMAIN timeline' = 1 .. (n + e)
    BY <2>1, CommittedTimeline
  <2>3. \A k \in 1 .. e : /\ timeline'[n + k].lead = t.entries[k].lead
                         /\ timeline'[n + k].score = t.entries[k].score
    BY <2>1, CommittedScores
  <2> QED BY <2>2, <2>3
<1>10. \A k \in 1 .. e : n + k \in (1 .. (n + e)) \ (1 .. n)
  BY <1>2
<1>3. \A i \in (1 .. (n + e)) \ (1 .. n) : i - n \in 1 .. e /\ i = n + (i - n)
  BY <1>2
<1>4. CASE K = {}
  <2>1. Added = {}
    <3> SUFFICES ASSUME NEW i \in Added PROVE FALSE
      OBVIOUS
    <3>1. PICK k \in 1 .. e : i = n + k
      BY <1>2, <1>3
    <3>2. k \in K
      BY <1>2, <3>1
    <3> QED BY <1>4, <3>2
  <2>2. Gain(t, l) = 0
    BY <1>4 DEF Gain
  <2>3. Total(w, {}) = 0
    BY TotalEmpty
  <2> HIDE DEF Added
  <2>4. Total(w, Added) = Gain(t, l) /\ Gain(t, l) \in Int
    BY <2>1, <2>2, <2>3
  <2> QED BY <2>4 DEF Added
<1>5. CASE K # {}
  <2>1. PICK k \in K : k = (CHOOSE j \in K : TRUE)
    BY <1>5
  <2>2. Gain(t, l) = t.entries[k].score /\ Gain(t, l) \in Int
    BY <1>1, <1>5, <2>1 DEF Gain, Scored
  <2>3. Added = {n + k}
    <3>1. n + k \in Added
      <4>1. k \in 1 .. e /\ t.entries[k].lead = l
        BY <1>2, <2>1
      <4> QED BY <1>2, <1>10, <4>1
    <3>2. ASSUME NEW i \in Added PROVE i = n + k
      <4>1. PICK j \in 1 .. e : i = n + j
        BY <1>2, <1>3
      <4>2. j = k
        <5>1. t.entries[j].lead = l /\ j \in DOMAIN t.entries
          BY <1>2, <4>1
        <5>2. \A a, b \in DOMAIN t.entries :
                t.entries[a].lead = t.entries[b].lead => a = b
          BY <1>1 DEF Recording
        <5>3. k \in DOMAIN t.entries /\ t.entries[k].lead = l
          BY <2>1
        <5> HIDE DEF Added, K
        <5> QED BY <5>1, <5>2, <5>3
      <4> QED BY <4>1, <4>2
    <3> QED BY <3>1, <3>2
  <2>4. w[n + k] = Gain(t, l)
    BY <1>2, <1>10, <2>1, <2>2 DEF Weighs
  <2>5. Total(w, {n + k}) = Gain(t, l)
    <3>1. PICK x : x = n + k
      OBVIOUS
    <3>2. IsFiniteSet({x}) /\ {x} # {}
      BY FS_Singleton
    <3>3. PICK y \in {x} : Total(w, {x}) = w[y] + Total(w, {x} \ {y})
      BY <3>2, TotalFirst
    <3>4. {x} \ {y} = {} /\ y = x
      OBVIOUS
    <3>5. Total(w, {}) = 0
      BY TotalEmpty
    <3>6. Total(w, {x}) = w[x] + 0
      BY <3>3, <3>4, <3>5
    <3> QED BY <2>2, <2>4, <3>1, <3>6
  <2> HIDE DEF Added
  <2>6. Total(w, Added) = Gain(t, l)
    BY <2>3, <2>5
  <2> QED BY <2>2, <2>6 DEF Added
<1> QED
  BY <1>4, <1>5

LEMMA CommitKeepsScore ==
  ASSUME OneRequest, LeadsInv, ScoreInv, NEW r \in Request, Commit(r)
  PROVE  ScoreInv'
<1>1. PICK t : t = txn[r]
  OBVIOUS
<1>2. Scored(t) /\ Recording(t) /\ Sound(t) /\ Current(t)
  BY <1>1 DEF ScoreInv, LeadsInv, TxnInv, CurrentInv, Sound
<1>3. PICK n \in Nat, e \in Nat :
        /\ DOMAIN timeline = 1 .. n /\ DOMAIN t.entries = 1 .. e
        /\ DOMAIN timeline' = 1 .. (n + e)
        /\ \A i \in 1 .. n : timeline'[i].score = timeline[i].score
        /\ \A k \in 1 .. e : timeline'[n + k].score = t.entries[k].score
  <2>1. PICK n, e : n = Len(timeline) /\ e = Len(t.entries)
    OBVIOUS
  <2>2. /\ n \in Nat /\ e \in Nat /\ DOMAIN timeline = 1 .. n
        /\ DOMAIN t.entries = 1 .. e /\ DOMAIN timeline' = 1 .. (n + e)
    BY <1>1, <2>1, CommittedTimeline
  <2>3. /\ \A i \in 1 .. n : timeline'[i].score = timeline[i].score
        /\ \A k \in 1 .. e : timeline'[n + k].score = t.entries[k].score
    <3>1. /\ \A i \in 1 .. Len(timeline) : timeline'[i].score = timeline[i].score
          /\ \A k \in 1 .. Len(t.entries) :
               timeline'[Len(timeline) + k].score = t.entries[k].score
      BY <1>1, CommittedScores
    <3> QED BY <3>1, <2>1
  <2> QED BY <2>2, <2>3
<1>4. \A i \in DOMAIN timeline' : timeline'[i].score \in Int
  <2> SUFFICES ASSUME NEW i \in 1 .. (n + e) PROVE timeline'[i].score \in Int
    BY <1>3
  <2>1. CASE i \in 1 .. n
    BY <1>3, <2>1 DEF ScoreInv
  <2>2. CASE i \notin 1 .. n
    <3>1. i - n \in 1 .. e /\ i = n + (i - n)
      BY <2>2
    <3>2. PICK k \in 1 .. e : i = n + k
      BY <3>1
    <3> QED BY <1>2, <1>3, <3>2 DEF Scored
  <2> QED BY <2>1, <2>2
<1>5. PICK w : w = [i \in DOMAIN timeline' |-> timeline'[i].score]
  OBVIOUS
<1>6. Weighs(w, timeline') /\ Weighs(w, timeline)
  <2>1. IsFiniteSet(1 .. n) /\ IsFiniteSet(1 .. (n + e))
    BY FS_Interval
  <2>2. 1 .. n \subseteq 1 .. (n + e)
    OBVIOUS
  <2>3. Weighs(w, timeline')
    BY <1>3, <1>4, <1>5, <2>1 DEF Weighs
  <2>4. Weighs(w, timeline)
    BY <1>3, <1>4, <1>5, <2>1, <2>2 DEF Weighs
  <2> QED BY <2>3, <2>4
<1>7. ASSUME NEW l \in Lead
      PROVE  /\ lead'[l].score = lead[l].score + Gain(t, l) + Brought(t, l)
             /\ lead'[l].score \in Int /\ Brought(t, l) \in Int
             /\ ~lead'[l].deleted => ~lead[l].deleted
  <2>1. lead[l].score \in Int
    BY DEF ScoreInv
  <2>2. CASE l \in DOMAIN t.write
    <3>1. /\ lead'[l].score = t.write[l].score /\ t.read[l] = lead[l]
          /\ lead[l].deleted => lead'[l].deleted
      <4>1. /\ t.read[l] = lead[l] /\ t.read[l].deleted = FALSE
            /\ lead'[l].score = t.write[l].score
        BY <1>1, <1>2, <2>2, WrittenAlone DEF Sound
      <4> QED BY <4>1
    <3>2. lead'[l].score = lead[l].score + Gain(t, l) + Brought(t, l)
      BY <1>2, <2>2, <3>1 DEF Scored
    <3>3. Gain(t, l) \in Int
      BY <1>1, <1>6, AddedTotal
    <3>4. Brought(t, l) \in Int
      <4>1. CASE \A m \in t.moved : m.to # l
        BY <4>1, NoneBrought
      <4>2. CASE \E m \in t.moved : m.to = l
        <5>1. PICK m \in t.moved : m = (CHOOSE j \in {k \in t.moved : k.to = l} : TRUE)
          BY <4>2
        <5>2. m.from \in DOMAIN t.write /\ m.from \in Lead
          BY <1>2 DEF Sound
        <5>3. t.read[m.from].score \in Int
          BY <1>2, <5>2 DEF Current, ScoreInv
        <5>4. {k \in t.moved : k.to = l} # {}
          BY <4>2
        <5> QED BY <5>1, <5>3, <5>4 DEF Brought
      <4> QED BY <4>1, <4>2
    <3> QED BY <2>1, <3>1, <3>2, <3>3, <3>4
  <2>3. CASE l \notin DOMAIN t.write
    <3>1. lead'[l] = lead[l]
      BY <1>1, <2>3, CommittedRows
    <3>2. Gain(t, l) = 0
      <4>1. {k \in DOMAIN t.entries : t.entries[k].lead = l} = {}
        BY <1>2, <2>3 DEF Recording
      <4> QED BY <4>1 DEF Gain
    <3>3. Brought(t, l) = 0
      <4>1. \A m \in t.moved : m.to # l
        BY <1>2, <2>3 DEF Sound
      <4> QED BY <4>1, NoneBrought
    <3> QED BY <2>1, <3>1, <3>2, <3>3
  <2> QED BY <2>2, <2>3
<1>8. ASSUME NEW l \in Lead, ~lead'[l].deleted
      PROVE  lead'[l].score = Rollup(timeline', l)
  <2> DEFINE Kept == {i \in DOMAIN timeline : timeline'[i].lead = l}
             Added == {i \in (DOMAIN timeline') \ (DOMAIN timeline) : timeline'[i].lead = l}
             All == {i \in DOMAIN timeline' : timeline'[i].lead = l}
  <2>1. Total(w, Kept) = lead[l].score + Brought(t, l)
    BY <1>1, <1>6, <1>7, <1>8, KeptTotal
  <2>2. Total(w, Added) = Gain(t, l) /\ Gain(t, l) \in Int
    BY <1>1, <1>6, AddedTotal
  <2>3. Rollup(timeline', l) = Total(w, All)
    <3>1. PICK h : h = timeline'
      OBVIOUS
    <3>2. Rollup(h, l) = Total(w, {i \in DOMAIN h : h[i].lead = l})
      BY <1>6, <3>1, RollupIs DEF Weighs
    <3> QED BY <3>1, <3>2
  <2>4. All = Kept \cup Added /\ Kept \cap Added = {}
    BY <1>3
  <2>5. /\ IsFiniteSet(Kept) /\ IsFiniteSet(Added)
        /\ \A i \in Kept \cup Added : w[i] \in Int
    BY <1>3, <1>6, <2>4, FS_Subset DEF Weighs
  <2> HIDE DEF Kept, Added, All
  <2>6. Total(w, All) = Total(w, Kept) + Total(w, Added)
    BY <2>4, <2>5, TotalJoins
  <2>7. Total(w, Kept) \in Int
    BY <2>5, TotalInt
  <2>8. lead'[l].score = lead[l].score + Gain(t, l) + Brought(t, l)
    BY <1>7
  <2>9. PICK a \in Int, b \in Int, g \in Int :
          a = lead[l].score /\ b = Brought(t, l) /\ g = Gain(t, l)
    BY <1>7, <2>2 DEF ScoreInv
  <2>10. lead'[l].score = a + g + b /\ Rollup(timeline', l) = (a + b) + g
    BY <2>1, <2>2, <2>3, <2>6, <2>8, <2>9
  <2> QED BY <2>9, <2>10
<1>9. \A q \in Request : txn'[q] = NoTxn
  BY DEF OneRequest, LeadsInv, TxnInv, Commit
<1>10. \A q \in Request : Scored(txn'[q])
  BY <1>9, NoTxnScored
<1> QED
  BY <1>4, <1>7, <1>8, <1>10 DEF ScoreInv, ScoreIsRollup, Live, Scored, Gain, Brought

LEMMA EditScored ==
  ASSUME RowsInv, ScoreInv, NEW r \in Request, Edit(r) \/ Undo(r)
  PROVE  \E t : Scored(t) /\ Begin(r, t)
<1>1. \A l \in Lead : lead[l].score \in Int
  BY DEF ScoreInv
<1>2. ASSUME NEW l \in Lead, NEW p \in Patch, NEW m \in Member \cup {None},
             BeginCreate(r, l, p, m)
      PROVE  \E t : Scored(t) /\ Begin(r, t)
  BY <1>2, CreateScored
<1>3. ASSUME NEW S \in SUBSET Lead, NEW p \in Patch, BeginUpdate(r, S, p)
      PROVE  \E t : Scored(t) /\ Begin(r, t)
  BY <1>1, <1>3, UpdateScored
<1>4. ASSUME NEW l \in Lead, NEW p \in Patch, BeginIntake(r, l, p)
      PROVE  \E t : Scored(t) /\ Begin(r, t)
  BY <1>1, <1>4, IntakeScored
<1>5. ASSUME NEW l \in Lead, BeginDelete(r, l)
      PROVE  \E t : Scored(t) /\ Begin(r, t)
  BY <1>1, <1>5, DeleteScored
<1>6. ASSUME NEW l \in Lead, NEW s \in Score, BeginLog(r, l, s)
      PROVE  \E t : Scored(t) /\ Begin(r, t)
  BY <1>1, <1>6, LogScored
<1>7. ASSUME NEW k \in Lead, NEW l \in Lead, BeginMerge(r, k, l)
      PROVE  \E t : Scored(t) /\ Begin(r, t)
  BY <1>1, <1>7, MergeScored
<1>8. ASSUME NEW m \in Member, NEW n \in Member, BeginReassign(r, m, n)
      PROVE  \E t : Scored(t) /\ Begin(r, t)
  BY <1>1, <1>8, ReassignScored
<1>9. ASSUME NEW c \in DOMAIN changesets, NEW viewers \in Viewers, NEW skip \in BOOLEAN,
             BeginUndo(r, c, viewers, skip)
      PROVE  \E t : Scored(t) /\ Begin(r, t)
  BY <1>1, <1>9, UndoScored
<1> QED
  BY <1>2, <1>3, <1>4, <1>5, <1>6, <1>7, <1>8, <1>9 DEF Edit, Undo

LEMMA ScoreAlways ==
  ASSUME OneRequest
  PROVE  LeadsInv /\ ScoreInv /\ [Next]_vars => ScoreInv'
<1> SUFFICES ASSUME LeadsInv, ScoreInv, [Next]_vars PROVE ScoreInv'
  OBVIOUS
<1>1. ASSUME UNCHANGED <<lead, timeline>>, \A r \in Request : Scored(txn'[r])
      PROVE  ScoreInv'
  BY <1>1 DEF ScoreInv, ScoreIsRollup, Live, Scored, Gain, Brought
<1>2. ASSUME NEW r \in Request, NEW t, Scored(t),
             UNCHANGED <<lead, timeline>>, txn' = [txn EXCEPT ![r] = t]
      PROVE  ScoreInv'
  <2>1. \A q \in Request : txn'[q] = t
    BY <1>2 DEF OneRequest, LeadsInv, TxnInv
  <2> QED BY <1>1, <1>2, <2>1
<1>3. ASSUME NEW r \in Request, Edit(r) \/ Undo(r) PROVE ScoreInv'
  <2>1. PICK t : Scored(t) /\ Begin(r, t)
    BY <1>3, EditScored DEF LeadsInv
  <2> QED BY <1>2, <2>1 DEF Begin
<1>4. ASSUME NEW r \in Request, Commit(r) PROVE ScoreInv'
  BY <1>4, CommitKeepsScore
<1>5. ASSUME NEW r \in Request, Abort(r) PROVE ScoreInv'
  BY <1>2, <1>5, NoTxnScored DEF Abort
<1>6. CASE UNCHANGED vars
  BY <1>1, <1>6 DEF vars, ScoreInv
<1> QED
  BY <1>3, <1>4, <1>5, <1>6 DEF Next

LEMMA InitScore == Init => ScoreInv
<1> SUFFICES ASSUME Init PROVE ScoreInv
  OBVIOUS
<1>1. /\ lead = [l \in Lead |-> Blank] /\ timeline = <<>>
      /\ txn = [r \in Request |-> NoTxn]
  BY DEF Init
<1>2. Blank.score = 0 /\ Blank.exists = FALSE
  BY DEF Blank
<1>3. \A r \in Request : Scored(txn[r])
  BY <1>1, NoTxnScored
<1> QED
  BY <1>1, <1>2, <1>3 DEF ScoreInv, ScoreIsRollup, Live

(* When requests do not overlap, a lead's score is the sum of what the      *)
(* actions of its timeline applied, after any edits, undos and merges       *)
(* (_accumulate_score, ExportService.merge).                                *)
THEOREM ScoreRollsUp == ASSUME OneRequest PROVE Spec => []ScoreIsRollup
<1>1. ScoreInv => ScoreIsRollup
  BY DEF ScoreInv
<1>2. LeadsInv /\ ScoreInv /\ [Next]_vars => ScoreInv'
  BY ScoreAlways
<1> QED
  BY <1>1, <1>2, InitScore, LeadsInvariant, PTL DEF Spec
=============================================================================
