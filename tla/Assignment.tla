----------------------------- MODULE Assignment -----------------------------
(***************************************************************************)
(* Who a new lead goes to: services/assignment.py, with the rule settings  *)
(* of services/routing.py and the requests that create leads               *)
(* (routers/leads.py, the batches of routers/intake.py) or preview a rule. *)
(*                                                                         *)
(* A request is one transaction.  For each of its leads it matches a rule  *)
(* (Route) and, when the rule deals round-robin, makes sure the rule's     *)
(* cursor row exists (Insert), locks it and takes the next turn (Lock).    *)
(* The locks last until the transaction ends.                              *)
(***************************************************************************)
EXTENDS Integers, Sequences, FiniteSets, FiniteSetsExt, Functions

CONSTANTS
  Member,      \* memberships
  Rule,        \* ids of the assignment rules, naturals: their order breaks ties
  Setting,     \* what a rule may be set to: condition, strategy and deal
  FirstRules,  \* the settings the workspace starts with, one per rule
  Group,       \* who may be in the sales group, by membership, weights expanded
  Request,     \* requests that may be open at the same time
  MaxBatch,    \* bound: leads in a batch
  MaxChanges,  \* bound: changes to rules, groups and the roster
  None         \* SQL NULL, and a row that is not there

ASSUME AssignmentAssumption ==
  /\ Rule \subseteq Nat
  /\ Setting \subseteq [condition : {"all", "some", "broken"},
                        strategy : {"list", "group", "direct", "nobody"},
                        deal : Seq(Member)]
  /\ FirstRules \in [Rule -> Setting]
  /\ Group \subseteq Seq(Member) /\ Group # {}
  /\ MaxBatch \in Nat \ {0} /\ MaxChanges \in Nat
  /\ None \notin Request \cup Member \cup Int

VARIABLES
  rule,     \* the committed rules; an inactive one may not have been created
  group,    \* the sales group's members, weights expanded; empty if archived
  roster,   \* members a lead may go to: active, licensed and WORKING
  cursor,   \* the committed position of each rule's cursor, or None
  lock,     \* the request that holds each cursor row, or None
  txn,      \* what each open request has read and done
  changes,  \* bounded counter
  served    \* history: how many more turns each place of a rule's deal has
            \*   had than the place with the fewest

vars == <<rule, group, roster, cursor, lock, txn, changes, served>>

NoTxn == [open |-> FALSE, kind |-> "single", left |-> 0, at |-> "route",
          rules |-> None, roster |-> None, rule |-> None, deal |-> <<>>,
          pos |-> [k \in Rule |-> None], turns |-> <<>>, given |-> {}, seen |-> {}]

-----------------------------------------------------------------------------
(* Matching and candidates. *)

(* The members a rule names, in order and as often as their weight says: in *)
(* its own config, or in the sales group it points at.                      *)
Named(s, inGroup) == IF s.strategy = "group" THEN inGroup ELSE s.deal

(* AssignmentEngine._candidates: the deal without those it may not go to. *)
DealToAnyone(s, inGroup, eligible) == Named(s, inGroup)  \* mutant: nobody is left out
Deal(s, inGroup, eligible) ==
  LET named == Named(s, inGroup)
      left[n \in 0 .. Len(named)] ==
        IF n = 0 THEN <<>>
        ELSE IF named[n] \in eligible THEN Append(left[n - 1], named[n]) ELSE left[n - 1]
  IN left[Len(named)]

Before(rules, j, k) ==
  \/ rules[j].priority < rules[k].priority
  \/ rules[j].priority = rules[k].priority /\ j < k

First(rules, S) ==
  IF S = {} THEN None ELSE CHOOSE k \in S : \A j \in S \ {k} : Before(rules, k, j)

(* AssignmentEngine.match, for a lead the conditions of hits are true of. *)
Match(rules, hits) ==
  LET active == {k \in Rule : rules[k].active}
      catchAll == First(rules, {k \in active : rules[k].condition = "all"})
      matched == {k \in active \cap hits : rules[k].condition = "some"}
  IN First(rules, matched \cup ({catchAll} \ {None}))

(* Every active rule is compiled before any is evaluated. *)
Compiles(rules) == \A k \in Rule : rules[k].active => rules[k].condition # "broken"

(* The next place of a deal of n. *)
NextPlace(position, n) == (position + 1) % n

-----------------------------------------------------------------------------
(* History: the places of the deal a rule would be dealt from now. *)
Places(deal) == 0 .. Len(deal) - 1

Level(count) ==
  IF DOMAIN count = {} THEN count
  ELSE [i \in DOMAIN count |-> count[i] - Min(Range(count))]

Unserved(rules, inGroup, eligible) ==
  [k \in Rule |-> [i \in Places(Deal(rules[k], inGroup, eligible)) |-> 0]]

(* The turns a transaction took at rule k; turns from another deal than the *)
(* current one start the count afresh.                                      *)
TurnsAt(turns, k) == {j \in DOMAIN turns : turns[j].rule = k}
Tally(turns, k, place) == Cardinality({j \in TurnsAt(turns, k) : turns[j].place = place})

Counted(count, turns, k) ==
  LET deal == Deal(rule[k], group, roster)
  IN IF \E j \in TurnsAt(turns, k) : turns[j].deal # deal
     THEN [i \in Places(deal) |-> 0]
     ELSE Level([i \in Places(deal) |-> count[i] + Tally(turns, k, i)])

Init ==
  /\ rule = [k \in Rule |->
       [active |-> TRUE, priority |-> 0, condition |-> FirstRules[k].condition,
        strategy |-> FirstRules[k].strategy, deal |-> FirstRules[k].deal]]
  /\ group \in Group
  /\ roster = Member
  /\ cursor = [k \in Rule |-> None]
  /\ lock = [k \in Rule |-> None]
  /\ txn = [r \in Request |-> NoTxn]
  /\ changes = 0
  /\ served = Unserved(rule, group, roster)

-----------------------------------------------------------------------------
(* A request that creates one lead or previews the rules for one, or the    *)
(* intake of a batch.                                                       *)
Start(r, kind) ==
  /\ ~txn[r].open
  /\ txn' = [txn EXCEPT ![r] =
               [NoTxn EXCEPT !.open = TRUE, !.kind = kind, !.seen = roster,
                             !.left = IF kind = "single" THEN 1 ELSE MaxBatch]]
  /\ UNCHANGED <<rule, group, roster, cursor, lock, changes, served>>

(* The lead has its outcome; m is the member it goes to, or None. *)
Decided(t, m) ==
  [t EXCEPT !.left = @ - 1, !.at = "route", !.rule = None, !.deal = <<>>,
            !.given = @ \cup ({m} \ {None})]

(* A lead no rule matches stays unassigned, like one a rule gives nobody. *)
StrategyOf(rules, k) == IF k = None THEN "nobody" ELSE rules[k].strategy

(* AssignmentEngine.decide, up to the cursor.  Rules and roster are read at *)
(* the first use and kept for the request, the group each time.  A batch logs the lead whose     *)
(* rules do not compile as rejected and goes on; named is who a FIXED rule  *)
(* or the lead's field value points to.                                     *)
Route(r, hits) ==
  LET t == [txn[r] EXCEPT !.rules = IF @ = None THEN rule ELSE @]
      k == Match(t.rules, hits)
      u == [t EXCEPT !.roster = IF @ = None THEN roster ELSE @, !.rule = k]
      strategy == IF Compiles(t.rules) THEN StrategyOf(t.rules, k) ELSE "broken"
      deal == Deal(t.rules[k], group, u.roster)
  IN /\ txn[r].open /\ txn[r].left > 0 /\ txn[r].at = "route"
     /\ \/ /\ strategy = "nobody" \/ (strategy = "broken" /\ t.kind = "batch")
           /\ txn' = [txn EXCEPT ![r] = Decided(t, None)]
        \/ /\ strategy = "direct"
           /\ \E named \in Range(t.rules[k].deal) :
                txn' = [txn EXCEPT ![r] =
                          Decided(u, IF named \in Range(deal) THEN named ELSE None)]
        \/ /\ strategy \in {"list", "group"}
           /\ txn' = [txn EXCEPT ![r] =
                        IF deal = <<>> THEN Decided(u, None)
                        ELSE [u EXCEPT !.deal = deal, !.at = "insert"]]
     /\ UNCHANGED <<rule, group, roster, cursor, lock, changes, served>>

FreeFor(r, k) == lock[k] \in {None, r}

(* INSERT ... ON CONFLICT DO NOTHING waits for whoever holds the row. *)
Insert(r) ==
  LET k == txn[r].rule
      missing == cursor[k] = None /\ txn[r].pos[k] = None
  IN /\ txn[r].open /\ txn[r].at = "insert"
     /\ FreeFor(r, k)
     /\ lock' = [lock EXCEPT ![k] = IF missing THEN r ELSE @]
     /\ txn' = [txn EXCEPT ![r].at = "lock",
                           ![r].pos[k] = IF missing THEN -1 ELSE @]
     /\ UNCHANGED <<rule, group, roster, cursor, changes, served>>

(* SELECT ... FOR UPDATE, and the turn it yields. *)
RowGone(r) == LET k == txn[r].rule IN cursor[k] = None /\ txn[r].pos[k] = None

AnyoneLocks(r, k) == TRUE  \* mutant: the cursor is read, not locked
MayLock(r, k) == FreeFor(r, k)

Lock(r) ==
  LET t == txn[r]
      k == t.rule
      place == NextPlace(IF t.pos[k] = None THEN cursor[k] ELSE t.pos[k], Len(t.deal))
      turn == [rule |-> k, place |-> place, deal |-> t.deal]
  IN /\ t.open /\ t.at = "lock"
     /\ MayLock(r, k) /\ ~RowGone(r)
     /\ lock' = [lock EXCEPT ![k] = r]
     /\ txn' = [txn EXCEPT ![r] = [Decided(t, t.deal[place + 1])
                                     EXCEPT !.pos[k] = place, !.turns = Append(@, turn)]]
     /\ UNCHANGED <<rule, group, roster, cursor, changes, served>>

LocksOf(r) == {k \in Rule : lock[k] = r}
Released(r) == [k \in Rule |-> IF lock[k] = r THEN None ELSE lock[k]]

Commit(r) ==
  /\ txn[r].open /\ txn[r].left = 0
  /\ cursor' = [k \in Rule |-> IF txn[r].pos[k] = None THEN cursor[k] ELSE txn[r].pos[k]]
  /\ lock' = Released(r)
  /\ txn' = [txn EXCEPT ![r] = NoTxn]
  /\ served' = [k \in Rule |-> Counted(served[k], txn[r].turns, k)]
  /\ UNCHANGED <<rule, group, roster, changes>>

RolledBack(r) ==
  /\ txn[r].open
  /\ lock' = Released(r)
  /\ txn' = [txn EXCEPT ![r] = NoTxn]
  /\ UNCHANGED <<rule, group, roster, cursor, changes, served>>

(* Anything else in the request raises, between two statements. *)
Abort(r) ==
  /\ txn[r].at = "route"
  /\ RolledBack(r)

(* What the request itself runs into: a rule that does not compile, a row   *)
(* deleted between the two statements, a deadlock the database breaks.      *)
WaitsFor(r, q) ==
  /\ q # r /\ txn[r].open
  /\ \/ txn[r].at = "insert"
     \/ txn[r].at = "lock" /\ ~RowGone(r)
  /\ lock[txn[r].rule] = q

Deadlocked(r) ==
  \E S \in SUBSET Request : r \in S /\ \A x \in S : \E y \in S : WaitsFor(x, y)

Uncompiled(r) ==
  /\ txn[r].left > 0 /\ txn[r].at = "route" /\ txn[r].kind # "batch"
  /\ ~Compiles(IF txn[r].rules = None THEN rule ELSE txn[r].rules)

Fail(r) ==
  /\ \/ Uncompiled(r)
     \/ txn[r].at = "lock" /\ RowGone(r)
     \/ Deadlocked(r)
  /\ RolledBack(r)

-----------------------------------------------------------------------------
(* The settings screen; each change is a transaction of its own. *)
Changed ==
  /\ changes < MaxChanges
  /\ <<rule', group', roster', cursor'>> # <<rule, group, roster, cursor>>
  /\ changes' = changes + 1
  /\ served' = Unserved(rule', group', roster')

SetTo(row, s) ==
  [row EXCEPT !.condition = s.condition, !.strategy = s.strategy, !.deal = s.deal]

(* AssignmentRuleService.update: a changed strategy or config deletes the   *)
(* cursor, and so waits for whoever holds it; a row not yet committed is    *)
(* not seen and not deleted.                                                *)
Configure(k, s) ==
  /\ cursor[k] # None => lock[k] = None
  /\ rule' = [rule EXCEPT ![k] = SetTo(@, s)]
  /\ cursor' = [cursor EXCEPT ![k] = None]
  /\ UNCHANGED <<group, roster, lock, txn>>
  /\ Changed

(* AssignmentRuleService.update, delete and reorder, of is_active, priority *)
(* and conditions: the cursor stays.                                        *)
Adjust(k, active, priority, condition) ==
  /\ rule' = [rule EXCEPT ![k].active = active, ![k].priority = priority,
                          ![k].condition = condition]
  /\ UNCHANGED <<group, roster, cursor, lock, txn>>
  /\ Changed

(* SalesGroupService.set_members and archive: the deal of a group's rules   *)
(* changes under their cursors.                                             *)
Regroup(members) ==
  /\ group' = members
  /\ UNCHANGED <<rule, roster, cursor, lock, txn>>
  /\ Changed

(* Licences, departures and availability: the Members module's business. *)
Roster(m) ==
  /\ roster' = IF m \in roster THEN roster \ {m} ELSE roster \cup {m}
  /\ txn' = [r \in Request |-> [txn[r] EXCEPT
               !.seen = IF txn[r].open THEN @ \cup roster' ELSE @]]
  /\ UNCHANGED <<rule, group, cursor, lock>>
  /\ Changed

Next ==
  \/ \E r \in Request :
       \/ \E kind \in {"single", "batch"} : Start(r, kind)
       \/ \E hits \in SUBSET Rule : Route(r, hits)
       \/ Insert(r)
       \/ Lock(r)
       \/ Commit(r)
       \/ Abort(r)
       \/ Fail(r)
  \/ \E k \in Rule, s \in Setting : Configure(k, s)
  \/ \E k \in Rule, active \in BOOLEAN, p \in 0 .. 1, s \in Setting :
       Adjust(k, active, p, s.condition)
  \/ \E members \in Group : Regroup(members)
  \/ \E m \in Member : Roster(m)

Spec == Init /\ [][Next]_vars

-----------------------------------------------------------------------------
(* Properties. *)

(* Every value has its type, and a request holds the row of exactly those   *)
(* cursors it has moved or created.                                         *)
TypeOK ==
  /\ \A k \in Rule :
       /\ rule[k].deal \in Seq(Member)
       /\ cursor[k] \in Nat \cup {None}
       /\ lock[k] \in Request \cup {None}
       /\ DOMAIN served[k] = Places(Deal(rule[k], group, roster))
  /\ group \in Group
  /\ roster \subseteq Member
  /\ \A r \in Request :
       /\ txn[r].left \in 0 .. MaxBatch
       /\ txn[r].at \in {"route", "insert", "lock"}
       /\ LocksOf(r) = {k \in Rule : txn[r].pos[k] # None}

(* "Both hand the lead to the fifth rep, and the sixth rep gets nothing":   *)
(* while a rule's deal stays as it is, no place in it gets two turns more   *)
(* than another, whatever requests overlap, fail or roll back.              *)
FairShare ==
  \A k \in Rule : \A i, j \in DOMAIN served[k] : served[k][i] <= served[k][j] + 1

(* "An unlicensed member cannot log in at all, so assigning to one buries   *)
(* the lead": a lead only goes to somebody who could take it at some moment *)
(* of the request.                                                          *)
NobodyUnreachable == \A r \in Request : txn[r].given \subseteq txn[r].seen

-----------------------------------------------------------------------------
(* Why they hold: the parts of an inductive invariant. *)

RuleRow == [active : BOOLEAN, priority : Nat, condition : {"all", "some", "broken"},
            strategy : {"list", "group", "direct", "nobody"}, deal : Seq(Member)]
Turn == [rule : Rule, place : Nat, deal : Seq(Member)]
TxnRow == [open : BOOLEAN, kind : {"single", "batch"}, left : 0 .. MaxBatch,
           at : {"route", "insert", "lock"}, rules : {None} \cup [Rule -> RuleRow],
           roster : {None} \cup SUBSET Member, rule : {None} \cup Rule, deal : Seq(Member),
           pos : [Rule -> {None, -1} \cup Nat], turns : Seq(Turn),
           given : SUBSET Member, seen : SUBSET Member]

ShapeInv ==
  /\ rule \in [Rule -> RuleRow] /\ group \in Group /\ roster \in SUBSET Member
  /\ cursor \in [Rule -> {None} \cup Nat] /\ lock \in [Rule -> {None} \cup Request]
  /\ txn \in [Request -> TxnRow]

(* A request holds the rows it has moved or created; one it created and not *)
(* moved is the one it is about to lock, and nobody else sees it.           *)
LockInv ==
  \A r \in Request, k \in Rule :
    /\ lock[k] = r <=> txn[r].pos[k] # None
    /\ txn[r].pos[k] = -1 => cursor[k] = None /\ txn[r].at = "lock" /\ txn[r].rule = k

(* Whom a request may give its lead to, it has seen on the roster.          *)
Reachable(t, working) ==
  /\ ~t.open => t = NoTxn
  /\ t.open => working \subseteq t.seen
  /\ t.roster # None => t.roster \subseteq t.seen
  /\ t.given \subseteq t.seen
  /\ t.at # "route" => /\ t.open /\ t.left > 0 /\ t.rule \in Rule /\ t.deal # <<>>
                       /\ \A i \in DOMAIN t.deal : t.deal[i] \in t.seen

SeenInv == \A r \in Request : Reachable(txn[r], roster)

(* The places from one to another, going round.                             *)
Arc(first, last) ==
  {i \in Nat : IF first <= last THEN first <= i /\ i <= last ELSE i <= last \/ first <= i}
InArc(i, first, last) == IF i \in Arc(first, last) THEN 1 ELSE 0

(* The turns a request took at a rule whose cursor stands at position, all   *)
(* from one deal, go round the deal from the place after it to where the    *)
(* request left the cursor: those places had one more than the others.      *)
FirstPlace(position, n) == NextPlace(IF position = None THEN -1 ELSE position, n)

GoneRound(turns, k, deal, first, last) ==
  /\ last \in Places(deal)
  /\ \A p, q \in Places(deal) :
       Tally(turns, k, p) + InArc(q, first, last) = Tally(turns, k, q) + InArc(p, first, last)

Dealt(t, k, position) ==
  /\ TurnsAt(t.turns, k) = {} => t.pos[k] \in {None, -1}
  /\ \A j \in TurnsAt(t.turns, k) :
       LET deal == t.turns[j].deal
       IN /\ t.pos[k] \in Nat /\ deal # <<>>
          /\ (\A h \in TurnsAt(t.turns, k) : t.turns[h].deal = deal) =>
               GoneRound(t.turns, k, deal, FirstPlace(position, Len(deal)), t.pos[k])

TurnsInv == \A r \in Request, k \in Rule : Dealt(txn[r], k, cursor[k])

(* Every place had as many turns, or those up to the cursor had one more.   *)
Even(count, places, position) ==
  \/ count = [i \in places |-> 0]
  \/ /\ position \in places
     /\ \E first \in places : /\ count = [i \in places |-> InArc(i, first, position)]
                              /\ \E i \in places : i \notin Arc(first, position)

ServedInv ==
  \A k \in Rule : Even(served[k], Places(Deal(rule[k], group, roster)), cursor[k])

AssignmentInv == ShapeInv /\ LockInv /\ SeenInv /\ TurnsInv /\ ServedInv
=============================================================================
