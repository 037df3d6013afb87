--------------------------- MODULE Members_proofs ---------------------------
(* Proofs about Members for any number of members, leads and seats: when   *)
(* requests do not overlap, the reporting lines stay a forest, seats are    *)
(* not overbooked and departures are clean.                                 *)
EXTENDS Members, FiniteSetTheorems, TLAPS

(* Rows that keep their manager keep the forest. *)
LEMMA SameLines ==
  ASSUME NEW S \in SUBSET Member, NEW new, Forest(member),
         \A m \in S : /\ new[m] \in Membership
                      /\ new[m].manager = member[m].manager
                      /\ new[m].exists
  PROVE  Forest(Replaced(S, new))
<1> DEFINE table == Replaced(S, new)
<1>1. \A m \in Member : table[m].manager = member[m].manager
  BY DEF Replaced
<1>2. Rows(table)
  BY <1>1 DEF Forest, Rows, Replaced, Known
<1>3. Acyclic(table)
  BY <1>1 DEF Forest, Acyclic
<1> QED
  BY <1>2, <1>3 DEF Forest

(* Above(m) is closed: going up from a member in it leads to one in it. *)
LEMMA AboveClosed ==
  ASSUME NEW m \in Member, Rows(member)
  PROVE  m \in Above(m) /\ Closed(Above(m)) /\ Above(m) \subseteq Member
<1>1. m \in Above(m) /\ Above(m) \subseteq Member
  BY DEF Above
<1>2. ASSUME NEW x \in Above(m), member[x].manager # None
      PROVE  member[x].manager \in Above(m)
  <2>1. x \in Member /\ member[x].manager \in Member
    BY <1>2, MembersAssumption DEF Above, Rows, Known
  <2>2. ASSUME NEW S \in SUBSET Member, m \in S, Closed(S)
        PROVE  member[x].manager \in S
    BY <1>2, <2>2 DEF Above, Closed
  <2> QED
    BY <2>1, <2>2 DEF Above
<1> QED
  BY <1>1, <1>2 DEF Closed

(* set_manager: the walk up from the new manager did not meet the member. *)
LEMMA SetManagerKeepsForest ==
  ASSUME Forest(member), NEW m \in Existing, NEW boss \in Existing \cup {None},
         boss # None => ~WouldCreateCycle(m, boss)
  PROVE  Forest(Replaced({m}, [x \in {m} |-> [member[m] EXCEPT !.manager = boss]]))
<1> DEFINE table == Replaced({m}, [x \in {m} |-> [member[m] EXCEPT !.manager = boss]])
<1>0. m \in Member /\ Rows(member) /\ Acyclic(member) /\ (boss # None => boss \in Member)
  BY DEF Forest, Existing
<1>1. /\ table[m].manager = boss
      /\ \A x \in Member : table[x].exists = member[x].exists
      /\ \A x \in Member \ {m} : table[x] = member[x]
      /\ table \in [Member -> Membership]
  BY <1>0 DEF Replaced, Rows, Membership, Existing
<1>2. Rows(table)
  BY <1>0, <1>1 DEF Rows, Known, Existing
<1>3. ASSUME NEW S \in SUBSET Member, S # {}
      PROVE  \E x \in S : table[x].manager \notin S
  <2>1. PICK x \in S : member[x].manager \notin S
    BY <1>0, <1>3 DEF Acyclic
  <2>2. CASE boss = None
    BY <1>1, <2>1, <2>2, MembersAssumption
  <2>3. CASE boss # None /\ S \cap Above(boss) = {}
    <3>1. boss \notin S
      BY <1>0, <2>3, AboveClosed
    <3> QED
      BY <1>1, <2>1, <3>1
  <2>4. CASE boss # None /\ S \cap Above(boss) # {}
    <3>1. PICK y \in S \cap Above(boss) : member[y].manager \notin S \cap Above(boss)
      BY <1>0, <2>4 DEF Acyclic
    <3>2. member[y].manager \in Above(boss) \cup {None}
      BY <1>0, <2>4, <3>1, AboveClosed DEF Closed
    <3>3. member[y].manager \notin S
      BY <3>1, <3>2, MembersAssumption
    <3>4. y # m
      BY <2>4, <3>1 DEF WouldCreateCycle
    <3> QED
      BY <1>1, <3>1, <3>3, <3>4
  <2> QED
    BY <2>2, <2>3, <2>4
<1> QED
  BY <1>2, <1>3 DEF Forest, Acyclic

(* deactivate: the reports move up to the leaver's own manager. *)
LEMMA DeactivateKeepsForest ==
  ASSUME Forest(member), NEW m \in Existing
  PROVE  Forest(Replaced({m} \cup Reports(m), [x \in {m} \cup Reports(m) |-> Left(m, x)]))
<1> DEFINE table == Replaced({m} \cup Reports(m), [x \in {m} \cup Reports(m) |-> Left(m, x)])
<1>0. m \in Member /\ Rows(member) /\ Acyclic(member) /\ Reports(m) \subseteq Member
  BY DEF Forest, Existing, Reports
<1>1. m \notin Reports(m)
  BY <1>0 DEF Acyclic, Reports
<1>2. /\ \A x \in Member : table[x] \in Membership /\ table[x].exists = member[x].exists
      /\ \A x \in Reports(m) : table[x].manager = member[m].manager
      /\ \A x \in Member \ Reports(m) : table[x].manager = member[x].manager
  <2>1. ASSUME NEW x \in Member
        PROVE  /\ Reparented(m, x) \in Membership
               /\ Reparented(m, x).exists = member[x].exists
               /\ Reparented(m, x).manager =
                    IF x \in Reports(m) THEN member[m].manager ELSE member[x].manager
    BY <1>0 DEF Reparented, Rows, Membership
  <2>2. ASSUME NEW x \in Member
        PROVE  /\ Left(m, x) \in Membership
               /\ Left(m, x).exists = member[x].exists
               /\ Left(m, x).manager = Reparented(m, x).manager
    BY <2>1 DEF Left, Membership
  <2> QED
    BY <1>0, <1>1, <2>1, <2>2 DEF Replaced, Rows
<1>3. Rows(table)
  <2>1. table \in [Member -> Membership]
    BY <1>2 DEF Replaced
  <2> QED
    BY <1>0, <1>2, <2>1 DEF Rows, Known
<1>4. ASSUME NEW S \in SUBSET Member, S # {}
      PROVE  \E x \in S : table[x].manager \notin S
  <2>1. PICK x \in S \cup {m} : member[x].manager \notin S \cup {m}
    BY <1>0, <1>4 DEF Acyclic
  <2>2. CASE x # m \/ m \in S
    BY <1>2, <2>1, <2>2 DEF Reports
  <2>3. CASE x = m /\ m \notin S
    <3>1. PICK y \in S : member[y].manager \notin S
      BY <1>0, <1>4 DEF Acyclic
    <3> QED
      BY <1>2, <2>1, <2>3, <3>1
  <2> QED
    BY <2>2, <2>3
<1> QED
  BY <1>3, <1>4 DEF Forest, Acyclic

(* invite and the bulk upload: nobody reported to the new members before,   *)
(* and among themselves they are acyclic.                                   *)
LEMMA JoinKeepsForest ==
  ASSUME Forest(member), NEW S \in SUBSET Member, NEW boss, Uploadable(S, boss),
         NEW new, \A m \in S : /\ new[m] \in Membership
                               /\ new[m].exists
                               /\ new[m].manager = boss[m]
  PROVE  Forest(Replaced(S, new))
<1> DEFINE table == Replaced(S, new)
<1>0. Rows(member) /\ Acyclic(member)
  BY DEF Forest
<1>1. /\ table \in [Member -> Membership]
      /\ \A m \in S : table[m].exists /\ table[m].manager = boss[m]
      /\ \A m \in Member \ S : table[m] = member[m]
  BY <1>0 DEF Replaced, Rows
<1>2. Rows(table)
  <2>1. Existing \cup S \subseteq Known(table)
    BY <1>1 DEF Known, Existing
  <2>2. \A m \in S : table[m].manager \in Known(table) \cup {None}
    BY <1>1, <2>1 DEF Uploadable
  <2>3. \A m \in Member \ S : table[m].manager \in Known(table) \cup {None}
    BY <1>0, <1>1, <2>1 DEF Rows, Known, Existing
  <2> QED
    BY <1>1, <2>2, <2>3 DEF Rows
<1>3. ASSUME NEW T \in SUBSET Member, T # {}
      PROVE  \E m \in T : table[m].manager \notin T
  <2>1. CASE T \subseteq S
    BY <1>1, <1>3, <2>1 DEF Uploadable
  <2>2. CASE T \ S # {}
    <3>1. PICK m \in T \ S : member[m].manager \notin T \ S
      BY <1>0, <2>2 DEF Acyclic
    <3>2. member[m].manager \notin S
      BY <1>0, <3>1, MembersAssumption DEF Rows, Known, Existing, Uploadable
    <3> QED
      BY <1>1, <3>1, <3>2
  <2> QED
    BY <2>1, <2>2
<1> QED
  BY <1>2, <1>3 DEF Forest, Acyclic

(* A transaction that read the rows as they are leaves what it computed. *)
LEMMA AfterStaged ==
  ASSUME Rows(member), NEW S \in SUBSET Member, NEW new, NEW t,
         \A m \in S : new[m] \in Membership,
         t.read = [m \in S |-> member[m]], t.write = new
  PROVE  After(t) = Replaced(S, new)
<1>1. ASSUME NEW x \in Membership, NEW y \in Membership
      PROVE  Flushed(x, x, y) = y
  BY DEF Flushed, Column, Membership
<1>2. \A m \in S : Flushed(member[m], t.read[m], t.write[m]) = new[m]
  BY <1>1 DEF Rows
<1> QED
  BY <1>2 DEF After, Replaced

(* A request begins with no other one open. *)
LEMMA BeginKeepsInv ==
  ASSUME NEW r, Request = {r}, SerialInv, NEW staged, Begin(r, staged),
         NEW S \in SUBSET Member, NEW new, \A m \in S : new[m] \in Membership,
         staged.read = [m \in S |-> member[m]], staged.write = new,
         Forest(Replaced(S, new))
  PROVE  SerialInv'
<1>1. member' = member /\ txn' = [txn EXCEPT ![r] = staged]
  BY DEF Begin
<1>2. txn'[r] = staged
  BY <1>1 DEF SerialInv
<1>3. After(staged) = Replaced(S, new)
  BY AfterStaged DEF SerialInv, Forest
<1>4. After(txn[r])' = After(staged)
  BY <1>1, <1>2 DEF After
<1>5. Forest(member)'
  BY <1>1 DEF SerialInv
<1> QED
  BY <1>1, <1>2, <1>3, <1>4, <1>5 DEF SerialInv

LEMMA SerialInductive ==
  ASSUME NEW r, Request = {r}, SerialInv, [Next]_vars
  PROVE  SerialInv'
<1>0. Forest(member) /\ Rows(member) /\ Existing \subseteq Member
  BY DEF SerialInv, Forest, Existing
<1>1. CASE Commit(r)
  <2>1. txn'[r] = NoTxn /\ txn' = [q \in Request |-> txn'[q]]
    BY <1>1 DEF Commit, SerialInv
  <2>2. Forest(member)'
    BY <1>1 DEF Commit, SerialInv
  <2> QED
    BY <2>1, <2>2 DEF SerialInv, NoTxn
<1>2. CASE Abort(r)
  <2>1. txn'[r] = NoTxn /\ txn' = [q \in Request |-> txn'[q]]
    BY <1>2 DEF Abort, SerialInv
  <2>2. Forest(member)'
    BY <1>2 DEF Abort, SerialInv
  <2> QED
    BY <2>1, <2>2 DEF SerialInv, NoTxn
<1>3. ASSUME NEW m \in Existing, NEW row \in Membership,
             row.exists, row.manager = member[m].manager,
             Begin(r, Staged({m}, [x \in {m} |-> row]))
      PROVE  SerialInv'
  <2> DEFINE new == [x \in {m} |-> row]
  <2>1. {m} \subseteq Member /\ \A x \in {m} : new[x] \in Membership
    BY <1>0, <1>3
  <2>2. Forest(Replaced({m}, new))
    BY <1>0, <1>3, SameLines
  <2>3. Staged({m}, new).read = [x \in {m} |-> member[x]] /\ Staged({m}, new).write = new
    BY DEF Staged, NoTxn
  <2>4. Begin(r, Staged({m}, new))
    BY <1>3
  <2> HIDE DEF new
  <2> QED
    BY <2>1, <2>2, <2>3, <2>4, BeginKeepsInv
<1>4. ASSUME NEW m \in Member, AssignLicense(r, m) PROVE SerialInv'
  <2> DEFINE row == [member[m] EXCEPT !.licensed = TRUE]
  <2>1. m \in Existing /\ Begin(r, Staged({m}, [x \in {m} |-> row]))
    BY <1>4 DEF AssignLicense
  <2>2. row \in Membership /\ row.exists /\ row.manager = member[m].manager
    BY <1>0, <2>1 DEF Rows, Membership, Existing
  <2> HIDE DEF row
  <2> QED
    BY <1>3, <2>1, <2>2
<1>5. ASSUME NEW m \in Member, RevokeLicense(r, m) PROVE SerialInv'
  <2> DEFINE row == [member[m] EXCEPT !.licensed = FALSE]
  <2>1. m \in Existing /\ Begin(r, Staged({m}, [x \in {m} |-> row]))
    BY <1>5 DEF RevokeLicense
  <2>2. row \in Membership /\ row.exists /\ row.manager = member[m].manager
    BY <1>0, <2>1 DEF Rows, Membership, Existing
  <2> HIDE DEF row
  <2> QED
    BY <1>3, <2>1, <2>2
<1>6. ASSUME NEW m \in Member, Reactivate(r, m) PROVE SerialInv'
  <2> DEFINE row == [member[m] EXCEPT !.active = TRUE, !.licensed = TRUE]
  <2>1. m \in Existing /\ Begin(r, Staged({m}, [x \in {m} |-> row]))
    BY <1>6 DEF Reactivate
  <2>2. row \in Membership /\ row.exists /\ row.manager = member[m].manager
    BY <1>0, <2>1 DEF Rows, Membership, Existing
  <2> HIDE DEF row
  <2> QED
    BY <1>3, <2>1, <2>2
<1>7. ASSUME NEW m \in Member, NEW target \in Member, Deactivate(r, m, target)
      PROVE  SerialInv'
  <2> DEFINE S == {m} \cup Reports(m)
             new == [x \in S |-> Left(m, x)]
             staged == [Staged(S, new) EXCEPT !.moved = OpenLeads(m), !.target = target]
  <2>1. m \in Existing /\ Begin(r, staged) /\ S \subseteq Member
    BY <1>7 DEF Deactivate, Existing, Reports
  <2>2. Forest(Replaced(S, new))
    BY <1>0, <2>1, DeactivateKeepsForest
  <2>3. \A x \in S : new[x] \in Membership
    BY <1>0, <2>1, ZenonT(30) DEF Left, Reparented, Rows, Membership
  <2>4. staged.read = [x \in S |-> member[x]] /\ staged.write = new
    BY DEF Staged, NoTxn
  <2> HIDE DEF S, new, staged
  <2> QED
    BY <2>1, <2>2, <2>3, <2>4, BeginKeepsInv
<1>8. ASSUME NEW m \in Member, NEW boss \in Member \cup {None}, SetManager(r, m, boss)
      PROVE  SerialInv'
  <2> DEFINE new == [x \in {m} |-> [member[m] EXCEPT !.manager = boss]]
  <2>1. /\ m \in Existing /\ boss \in Existing \cup {None}
        /\ boss # None => ~WouldCreateCycle(m, boss)
        /\ Begin(r, Staged({m}, new))
    BY <1>8 DEF SetManager
  <2>2. Forest(Replaced({m}, new))
    BY <1>0, <2>1, SetManagerKeepsForest
  <2>3. \A x \in {m} : new[x] \in Membership
    BY <1>0 DEF Rows, Membership
  <2>4. Staged({m}, new).read = [x \in {m} |-> member[x]] /\ Staged({m}, new).write = new
    BY DEF Staged, NoTxn
  <2> HIDE DEF new
  <2> QED
    BY <2>1, <2>2, <2>3, <2>4, BeginKeepsInv
<1>9. ASSUME NEW m \in Member, NEW boss \in Member \cup {None}, NEW licensed \in BOOLEAN,
             Invite(r, m, boss, licensed)
      PROVE  SerialInv'
  <2> DEFINE new == [x \in {m} |-> Joined(boss, licensed)]
             line == [x \in {m} |-> boss]
  <2>1. ~member[m].exists /\ boss \in Existing \cup {None} /\ Begin(r, Staged({m}, new))
    BY <1>9 DEF Invite
  <2>2. Uploadable({m}, line)
    <3>1. {m} \cap Existing = {} /\ boss # m
      BY <1>0, <2>1, MembersAssumption DEF Existing
    <3> QED
      BY <2>1, <3>1 DEF Uploadable
  <2>3. \A x \in {m} : new[x] \in Membership /\ new[x].exists /\ new[x].manager = line[x]
    BY DEF Joined, Membership
  <2>4. Forest(Replaced({m}, new))
    BY <1>0, <2>2, <2>3, JoinKeepsForest
  <2>5. Staged({m}, new).read = [x \in {m} |-> member[x]] /\ Staged({m}, new).write = new
    BY DEF Staged, NoTxn
  <2> HIDE DEF new, line
  <2> QED
    BY <2>1, <2>3, <2>4, <2>5, BeginKeepsInv
<1>10. ASSUME NEW limit \in Seats, SetSeatLimit(r, limit) PROVE SerialInv'
  <2>1. Begin(r, [Staged({}, <<>>) EXCEPT !.limit = limit])
    BY <1>10 DEF SetSeatLimit
  <2>2. Forest(Replaced({}, <<>>))
    BY <1>0, SameLines
  <2>3. /\ [Staged({}, <<>>) EXCEPT !.limit = limit].read = [x \in {} |-> member[x]]
        /\ [Staged({}, <<>>) EXCEPT !.limit = limit].write = <<>>
    BY DEF Staged, NoTxn
  <2> QED
    BY <2>1, <2>2, <2>3, BeginKeepsInv
<1>11. ASSUME NEW S \in SUBSET Member, NEW boss \in [S -> Member \cup {None}],
              NEW licensed \in SUBSET S, Upload(r, S, boss, licensed)
       PROVE  SerialInv'
  <2> DEFINE new == [m \in S |-> Joined(boss[m], m \in licensed)]
             staged == [Staged(S, new) EXCEPT !.upload = TRUE]
  <2>1. Uploadable(S, boss) /\ Begin(r, staged)
    BY <1>11 DEF Upload
  <2>2. \A m \in S : new[m] \in Membership /\ new[m].exists /\ new[m].manager = boss[m]
    BY DEF Joined, Membership
  <2>3. Forest(Replaced(S, new))
    BY <1>0, <2>1, <2>2, JoinKeepsForest
  <2>4. staged.read = [m \in S |-> member[m]] /\ staged.write = new
    BY DEF Staged, NoTxn
  <2> HIDE DEF new, staged
  <2> QED
    BY <2>1, <2>2, <2>3, <2>4, BeginKeepsInv
<1>12. CASE member' = member /\ txn' = txn
  <2>1. \A q \in Request : After(txn[q])' = After(txn[q])
    BY <1>12 DEF After
  <2>2. Forest(member)' /\ (txn = [q \in Request |-> txn[q]])'
    BY <1>12 DEF SerialInv
  <2>3. ASSUME NEW q \in Request, txn'[q].open PROVE Forest(After(txn[q]))'
    <3>1. Forest(After(txn[q]))
      BY <1>12, <2>3 DEF SerialInv
    <3> QED
      BY <2>1, <3>1
  <2> QED
    BY <2>2, <2>3 DEF SerialInv
<1>13. ASSUME NEW l \in Lead, NEW holder \in Member \cup {None}, NEW open \in BOOLEAN,
              WorkLead(r, l, holder, open)
       PROVE  SerialInv'
  BY <1>12, <1>13 DEF WorkLead
<1>14. CASE UNCHANGED vars
  BY <1>12, <1>14 DEF vars
<1> QED
  BY <1>1, <1>2, <1>4, <1>5, <1>6, <1>7, <1>8, <1>9, <1>10, <1>11, <1>13, <1>14 DEF Next

LEMMA SerialInit == ASSUME Init PROVE SerialInv /\ TidyInv
<1>1. PICK owner \in Member :
        member = [m \in Member |-> IF m = owner THEN Joined(None, TRUE) ELSE Absent]
  BY DEF Init
<1>2. Rows(member)
  BY <1>1 DEF Rows, Known, Joined, Absent, Membership
<1>3. \A m \in Member : member[m].manager = None
  BY <1>1 DEF Joined, Absent
<1>4. Acyclic(member)
  BY <1>3, MembersAssumption DEF Acyclic
<1>5. txn = [q \in Request |-> txn[q]] /\ \A q \in Request : ~txn[q].open
  BY DEF Init, NoTxn
<1>6. seatLimit \in Seats /\ lead \in [Lead -> [holder : Member \cup {None}, open : BOOLEAN]]
  BY DEF Init
<1> QED
  BY <1>2, <1>4, <1>5, <1>6 DEF SerialInv, TidyInv, Forest

(* As long as requests do not overlap, no sequence of invitations, uploads,  *)
(* departures, returns and reassigned managers closes a reporting cycle,     *)
(* whatever the number of members: services/members.py, set_manager.         *)
THEOREM ReportsStayAcyclic ==
  ASSUME NEW r, Request = {r}
  PROVE  Spec => []ReportsAcyclic
<1>1. Init => SerialInv
  BY SerialInit
<1>2. SerialInv /\ [Next]_vars => SerialInv'
  BY SerialInductive
<1>3. SerialInv => ReportsAcyclic
  BY DEF SerialInv, Forest, ReportsAcyclic
<1> QED
  BY <1>1, <1>2, <1>3, PTL DEF Spec

-----------------------------------------------------------------------------
(* Seats and departures. *)

(* What a staged transaction would leave behind, row by row. *)
LEMMA StagedRows ==
  ASSUME Forest(member), NEW S \in SUBSET Member, NEW new, NEW t,
         \A m \in S : new[m] \in Membership,
         t.read = [m \in S |-> member[m]], t.write = new
  PROVE  /\ After(t) = Replaced(S, new)
         /\ \A m \in S : After(t)[m] = new[m]
         /\ \A m \in Member \ S : After(t)[m] = member[m]
<1>1. After(t) = Replaced(S, new)
  BY AfterStaged DEF Forest
<1> QED
  BY <1>1 DEF Replaced

(* A request about one row that neither deactivates the member nor hands    *)
(* out a seat unless one is free.                                           *)
LEMMA RowPrepared ==
  ASSUME Forest(member), TidyInv, NEW m \in Member, NEW row \in Membership,
         member[m].active => row.active,
         row.licensed => member[m].licensed \/ SeatFree
  PROVE  Prepared(Staged({m}, [x \in {m} |-> row]))
<1> DEFINE new == [x \in {m} |-> row]
           t == Staged({m}, new)
<1>1. /\ t.read = [x \in {m} |-> member[x]] /\ t.write = new
      /\ t.loadedLimit = seatLimit /\ t.limit = seatLimit
      /\ t.moved = {}
  BY DEF Staged, NoTxn
<1>2. {m} \in SUBSET Member /\ new[m] = row
  OBVIOUS
<1> HIDE DEF new, t
<1>3. /\ After(t)[m] = row
      /\ \A x \in Member \ {m} : After(t)[x] = member[x]
  BY <1>1, <1>2, StagedRows
<1>4. SeatsFit(t)
  <2>1. CASE row.licensed => member[m].licensed
    BY <1>1, <1>3, <2>1 DEF SeatsFit, Licensed
  <2>2. CASE SeatFree
    <3>1. Licensed(After(t)) \subseteq Licensed(member) \cup {m}
      BY <1>3 DEF Licensed
    <3> QED
      BY <1>1, <2>2, <3>1 DEF SeatsFit
  <2> QED
    BY <2>1, <2>2
<1>5. KeepsActive(t)
  BY <1>1, <1>3 DEF KeepsActive
<1>6. Prepared(t)
  BY <1>1, <1>4, <1>5 DEF Prepared, TidyInv
<1> QED
  BY <1>6 DEF t, new

(* While a request is open nothing it read changes. *)
LEMMA BeginKeepsTidy ==
  ASSUME NEW r, Request = {r}, SerialInv, TidyInv, NEW staged, Begin(r, staged),
         Prepared(staged)
  PROVE  TidyInv'
<1>1. /\ txn'[r] = staged
      /\ member' = member /\ seatLimit' = seatLimit /\ lead' = lead
  BY DEF Begin, SerialInv
<1>2. Prepared(txn[r])'
  <2>1. After(txn[r])' = After(staged)
    BY <1>1 DEF After
  <2>2. SeatsFit(txn[r])'
    BY <1>1, <2>1 DEF Prepared, SeatsFit, SeatFree, SeatsUsed
  <2>3. KeepsActive(staged) => KeepsActive(txn[r])'
    BY <1>1, <2>1 DEF KeepsActive
  <2>4. ASSUME NEW m \in Existing, Departure(staged, m)
        PROVE  m \in Existing' /\ Departure(txn[r], m)'
    <3>1. /\ Reports(m)' = Reports(m) /\ OpenLeads(m)' = OpenLeads(m)
          /\ Existing' = Existing
      BY <1>1 DEF Reports, OpenLeads, Existing
    <3>2. \A x : Left(m, x)' = Left(m, x)
      BY <1>1, <3>1 DEF Left, Reparented
    <3>3. Replaced({m} \cup Reports(m), [x \in {m} \cup Reports(m) |-> Left(m, x)])'
            = Replaced({m} \cup Reports(m), [x \in {m} \cup Reports(m) |-> Left(m, x)])
      BY <1>1, <3>1, <3>2 DEF Replaced
    <3>4. TargetAccepted(m, staged.target) => TargetAccepted(m, txn[r].target)'
      BY <1>1, <3>1 DEF TargetAccepted
    <3> QED
      BY <1>1, <2>1, <2>4, <3>1, <3>3, <3>4 DEF Departure
  <2> QED
    BY <1>1, <2>2, <2>3, <2>4 DEF Prepared
<1> QED
  BY <1>1, <1>2 DEF TidyInv

LEMMA TidyInductive ==
  ASSUME NEW r, Request = {r}, SerialInv, TidyInv, [Next]_vars
  PROVE  TidyInv'
<1>0. Forest(member) /\ Rows(member) /\ Existing \subseteq Member
  BY DEF SerialInv, Forest, Existing
<1>1. CASE Commit(r)
  <2>1. txn'[r] = NoTxn /\ Prepared(txn[r])
    BY <1>1 DEF Commit, SerialInv, TidyInv
  <2>2. seatLimit' \in Seats
    BY <1>1, <2>1 DEF Commit, Prepared, Column, TidyInv
  <2>3. txn[r].moved # {} => txn[r].target \in Member
    BY <1>0, <2>1 DEF Prepared, KeepsActive, Departure, TargetAccepted
  <2>4. lead' \in [Lead -> [holder : Member \cup {None}, open : BOOLEAN]]
    BY <1>1, <2>3 DEF Commit, TidyInv
  <2> QED
    BY <2>1, <2>2, <2>4 DEF TidyInv, NoTxn
<1>2. CASE Abort(r)
  <2>1. txn'[r] = NoTxn /\ seatLimit' = seatLimit /\ lead' = lead
    BY <1>2 DEF Abort, SerialInv
  <2> QED
    BY <2>1 DEF TidyInv, NoTxn
<1>3. ASSUME NEW m \in Member, AssignLicense(r, m) PROVE TidyInv'
  <2> DEFINE row == [member[m] EXCEPT !.licensed = TRUE]
  <2>1. SeatFree /\ Begin(r, Staged({m}, [x \in {m} |-> row]))
    BY <1>3 DEF AssignLicense
  <2>2. row \in Membership /\ row.active = member[m].active
    BY <1>0 DEF Rows, Membership
  <2> HIDE DEF row
  <2> QED
    BY <1>0, <2>1, <2>2, RowPrepared, BeginKeepsTidy
<1>4. ASSUME NEW m \in Member, RevokeLicense(r, m) PROVE TidyInv'
  <2> DEFINE row == [member[m] EXCEPT !.licensed = FALSE]
  <2>1. Begin(r, Staged({m}, [x \in {m} |-> row]))
    BY <1>4 DEF RevokeLicense
  <2>2. row \in Membership /\ row.active = member[m].active /\ ~row.licensed
    BY <1>0 DEF Rows, Membership
  <2> HIDE DEF row
  <2> QED
    BY <1>0, <2>1, <2>2, RowPrepared, BeginKeepsTidy
<1>5. ASSUME NEW m \in Member, Reactivate(r, m) PROVE TidyInv'
  <2> DEFINE row == [member[m] EXCEPT !.active = TRUE, !.licensed = TRUE]
  <2>1. SeatFree /\ Begin(r, Staged({m}, [x \in {m} |-> row]))
    BY <1>5 DEF Reactivate
  <2>2. row \in Membership /\ row.active
    BY <1>0 DEF Rows, Membership
  <2> HIDE DEF row
  <2> QED
    BY <1>0, <2>1, <2>2, RowPrepared, BeginKeepsTidy
<1>6. ASSUME NEW m \in Member, NEW boss \in Member \cup {None}, SetManager(r, m, boss)
      PROVE  TidyInv'
  <2> DEFINE row == [member[m] EXCEPT !.manager = boss]
  <2>1. Begin(r, Staged({m}, [x \in {m} |-> row]))
    BY <1>6 DEF SetManager
  <2>2. /\ row \in Membership
        /\ row.active = member[m].active /\ row.licensed = member[m].licensed
    BY <1>0 DEF Rows, Membership
  <2> HIDE DEF row
  <2> QED
    BY <1>0, <2>1, <2>2, RowPrepared, BeginKeepsTidy
<1>7. ASSUME NEW m \in Member, NEW boss \in Member \cup {None}, NEW licensed \in BOOLEAN,
             Invite(r, m, boss, licensed)
      PROVE  TidyInv'
  <2> DEFINE row == Joined(boss, licensed)
  <2>1. licensed => SeatFree
    BY <1>7 DEF Invite
  <2>2. Begin(r, Staged({m}, [x \in {m} |-> row]))
    BY <1>7 DEF Invite
  <2>3. row \in Membership /\ row.active /\ row.licensed = licensed
    BY DEF Joined, Membership
  <2> HIDE DEF row
  <2> QED
    BY <1>0, <2>1, <2>2, <2>3, RowPrepared, BeginKeepsTidy
<1>8. ASSUME NEW m \in Member, NEW target \in Member, Deactivate(r, m, target)
      PROVE  TidyInv'
  <2> DEFINE S == {m} \cup Reports(m)
             new == [x \in S |-> Left(m, x)]
             staged == [Staged(S, new) EXCEPT !.moved = OpenLeads(m), !.target = target]
  <2>1. m \in Existing /\ Begin(r, staged) /\ S \in SUBSET Member
    BY <1>8 DEF Deactivate, Existing, Reports
  <2>2. OpenLeads(m) # {} => TargetAccepted(m, target)
    BY <1>8 DEF Deactivate
  <2>3. /\ staged.read = [x \in S |-> member[x]] /\ staged.write = new
        /\ staged.loadedLimit = seatLimit /\ staged.limit = seatLimit
        /\ staged.moved = OpenLeads(m) /\ staged.target = target
    BY DEF Staged, NoTxn
  <2>4. \A x \in Member : /\ Left(m, x) \in Membership
                          /\ Left(m, x).licensed => member[x].licensed
    BY <1>0, <2>1 DEF Left, Reparented, Rows, Membership
  <2>5. \A x \in S : new[x] \in Membership /\ (new[x].licensed => member[x].licensed)
    BY <2>1, <2>4
  <2> HIDE DEF staged, new, S
  <2>6. After(staged) = Replaced(S, new)
    BY <1>0, <2>1, <2>3, <2>5, StagedRows
  <2>7. Departure(staged, m)
    BY <2>2, <2>3, <2>6 DEF Departure, new, S
  <2>8. Licensed(After(staged)) \subseteq Licensed(member)
    BY <2>5, <2>6 DEF Licensed, Replaced
  <2>9. Prepared(staged)
    BY <2>1, <2>3, <2>7, <2>8 DEF Prepared, SeatsFit, TidyInv
  <2> QED
    BY <2>1, <2>9, BeginKeepsTidy
<1>9. ASSUME NEW limit \in Seats, SetSeatLimit(r, limit) PROVE TidyInv'
  <2> DEFINE staged == [Staged({}, <<>>) EXCEPT !.limit = limit]
  <2>1. SeatsUsed <= limit /\ Begin(r, staged)
    BY <1>9 DEF SetSeatLimit
  <2>2. /\ staged.read = [x \in {} |-> member[x]] /\ staged.write = <<>>
        /\ staged.loadedLimit = seatLimit /\ staged.limit = limit
        /\ staged.moved = {}
    BY DEF Staged, NoTxn
  <2> HIDE DEF staged
  <2>3. \A x \in Member : After(staged)[x] = member[x]
    BY <2>2 DEF After
  <2>4. Prepared(staged)
    BY <2>1, <2>2, <2>3 DEF Prepared, SeatsFit, Licensed, KeepsActive
  <2> QED
    BY <2>1, <2>4, BeginKeepsTidy
<1>10. ASSUME NEW S \in SUBSET Member, NEW boss \in [S -> Member \cup {None}],
              NEW licensed \in SUBSET S, Upload(r, S, boss, licensed)
       PROVE  TidyInv'
  <2> DEFINE new == [m \in S |-> Joined(boss[m], m \in licensed)]
             staged == [Staged(S, new) EXCEPT !.upload = TRUE]
  <2>1. Begin(r, staged)
    BY <1>10 DEF Upload
  <2>2. \A m \in S : new[m] \in Membership /\ new[m].active
    BY DEF Joined, Membership
  <2>3. /\ staged.read = [m \in S |-> member[m]] /\ staged.write = new
        /\ staged.loadedLimit = seatLimit /\ staged.limit = seatLimit
        /\ staged.moved = {} /\ staged.upload
    BY DEF Staged, NoTxn
  <2> HIDE DEF new, staged
  <2>4. /\ \A m \in S : After(staged)[m] = new[m]
        /\ \A m \in Member \ S : After(staged)[m] = member[m]
    BY <1>0, <2>2, <2>3, StagedRows
  <2>5. Prepared(staged)
    BY <2>2, <2>3, <2>4 DEF Prepared, SeatsFit, KeepsActive, TidyInv
  <2> QED
    BY <2>1, <2>5, BeginKeepsTidy
<1>11. ASSUME NEW l \in Lead, NEW holder \in Member \cup {None}, NEW open \in BOOLEAN,
              WorkLead(r, l, holder, open)
       PROVE  TidyInv'
  <2>1. ~txn'[r].open /\ seatLimit' = seatLimit
    BY <1>11 DEF WorkLead
  <2>2. lead' \in [Lead -> [holder : Member \cup {None}, open : BOOLEAN]]
    BY <1>11 DEF WorkLead, TidyInv
  <2> QED
    BY <2>1, <2>2 DEF TidyInv
<1>12. CASE UNCHANGED vars
  <2>1. Prepared(txn[r])' = Prepared(txn[r])
    BY <1>12 DEF vars, Prepared, SeatsFit, Licensed, After, KeepsActive, SeatFree, SeatsUsed,
                 Existing, Departure, Replaced, Reports, OpenLeads, Left, Reparented,
                 TargetAccepted
  <2> QED
    BY <1>12, <2>1 DEF vars, TidyInv
<1> QED
  BY <1>1, <1>2, <1>3, <1>4, <1>5, <1>6, <1>7, <1>8, <1>9, <1>10, <1>11, <1>12 DEF Next

LEMMA SerialAlways ==
  ASSUME NEW r, Request = {r}
  PROVE  Spec => [](SerialInv /\ TidyInv)
<1>1. Init => SerialInv /\ TidyInv
  BY SerialInit
<1>2. SerialInv /\ TidyInv /\ [Next]_vars => (SerialInv /\ TidyInv)'
  BY SerialInductive, TidyInductive
<1> QED
  BY <1>1, <1>2, PTL DEF Spec

(* Only a commit changes memberships or the limit. *)
LEMMA OnlyCommits ==
  ASSUME NEW r, Request = {r}, [Next]_vars
  PROVE  Commit(r) \/ (member' = member /\ seatLimit' = seatLimit)
<1> DEFINE Untouched == member' = member /\ seatLimit' = seatLimit
<1>1. ASSUME NEW staged, Begin(r, staged) PROVE Untouched
  BY <1>1 DEF Begin
<1>2. ASSUME NEW m \in Member
      PROVE  /\ AssignLicense(r, m) \/ RevokeLicense(r, m) \/ Reactivate(r, m) => Untouched
             /\ \A target \in Member : Deactivate(r, m, target) => Untouched
             /\ \A boss \in Member \cup {None} :
                  /\ SetManager(r, m, boss) => Untouched
                  /\ \A licensed \in BOOLEAN : Invite(r, m, boss, licensed) => Untouched
  BY <1>1 DEF AssignLicense, RevokeLicense, Reactivate, Deactivate, SetManager, Invite
<1>3. \A limit \in Seats : SetSeatLimit(r, limit) => Untouched
  BY <1>1 DEF SetSeatLimit
<1>4. \A S \in SUBSET Member :
        \A boss \in [S -> Member \cup {None}], licensed \in SUBSET S :
          Upload(r, S, boss, licensed) => Untouched
  BY <1>1 DEF Upload
<1>5. \A l, holder, open : WorkLead(r, l, holder, open) => Untouched
  BY DEF WorkLead
<1>6. Abort(r) \/ UNCHANGED vars => Untouched
  BY DEF Abort, vars
<1> HIDE DEF Untouched
<1>7. Commit(r) \/ Untouched
  BY <1>2, <1>3, <1>4, <1>5, <1>6 DEF Next
<1> QED
  BY <1>7 DEF Untouched

(* Handing out at most one more seat takes the count up by at most one. *)
LEMMA SeatsCounted ==
  ASSUME NEW S \in SUBSET Member, NEW T \in SUBSET Member
  PROVE  /\ Cardinality(S) \in Nat /\ Cardinality(T) \in Nat
         /\ T \subseteq S => Cardinality(T) <= Cardinality(S)
         /\ \A m \in Member : T \subseteq S \cup {m} => Cardinality(T) <= Cardinality(S) + 1
<1>1. IsFiniteSet(S) /\ IsFiniteSet(T)
  BY MembersAssumption, FS_Subset
<1>2. Cardinality(S) \in Nat /\ Cardinality(T) \in Nat
  BY <1>1, FS_CardinalityType
<1>3. ASSUME T \subseteq S PROVE Cardinality(T) <= Cardinality(S)
  BY <1>1, <1>3, FS_Subset
<1>4. ASSUME NEW m \in Member, T \subseteq S \cup {m}
      PROVE  Cardinality(T) <= Cardinality(S) + 1
  <2> DEFINE n == Cardinality(S)
  <2>0. /\ IsFiniteSet(S \cup {m})
        /\ Cardinality(S \cup {m}) = IF m \in S THEN n ELSE n + 1
    BY <1>1, FS_AddElement
  <2>1. IsFiniteSet(S \cup {m}) /\ Cardinality(S \cup {m}) <= n + 1
    BY <1>2, <2>0
  <2>2. Cardinality(T) <= Cardinality(S \cup {m}) /\ Cardinality(S \cup {m}) \in Nat
    BY <1>4, <2>1, FS_Subset, FS_CardinalityType
  <2> QED
    BY <1>2, <2>1, <2>2
<1> QED
  BY <1>2, <1>3, <1>4

(* A licence is a seat: when requests do not overlap, no invitation,        *)
(* licence, return or new limit takes a workspace of any size further past  *)
(* its seat limit; only a bulk upload can (_assert_seat_available,          *)
(* update_workspace, MemberImportService).                                  *)
THEOREM SeatsKept ==
  ASSUME NEW q, Request = {q}
  PROVE  Spec => SeatsRespected
<1> DEFINE Kept == \/ Overbooking' <= Overbooking \/ Overbooking' <= 0
                   \/ \E r \in Request : txn[r].upload /\ ~txn'[r].open
<1>1. SerialInv /\ TidyInv /\ [Next]_vars => Kept
  <2> SUFFICES ASSUME SerialInv, TidyInv, [Next]_vars, ~(txn[q].upload /\ ~txn'[q].open)
               PROVE  Overbooking' <= Overbooking \/ Overbooking' <= 0
    OBVIOUS
  <2> DEFINE S == Licensed(member)
             T == Licensed(member')
  <2>1. /\ SeatsUsed = Cardinality(S) /\ SeatsUsed' = Cardinality(T)
        /\ Cardinality(S) \in Nat /\ Cardinality(T) \in Nat
        /\ T \subseteq S => Cardinality(T) <= Cardinality(S)
        /\ \A m \in Member : T \subseteq S \cup {m} => Cardinality(T) <= Cardinality(S) + 1
    BY SeatsCounted DEF SeatsUsed, Licensed
  <2>2. seatLimit \in Nat
    BY MembersAssumption DEF TidyInv
  <2>3. CASE member' = member /\ seatLimit' = seatLimit
    BY <2>1, <2>2, <2>3 DEF Overbooking
  <2>4. CASE Commit(q)
    <3>1. /\ member' = After(txn[q]) /\ seatLimit' = txn[q].limit
          /\ txn[q].limit \in Nat /\ ~txn'[q].open /\ SeatsFit(txn[q])
      BY <2>4, MembersAssumption DEF Commit, Column, TidyInv, Prepared, SerialInv, NoTxn
    <3>2. CASE seatLimit' = seatLimit /\ T \subseteq S
      BY <2>1, <2>2, <3>2 DEF Overbooking
    <3>3. CASE seatLimit' = seatLimit /\ SeatFree /\ \E m \in Member : T \subseteq S \cup {m}
      <4>1. Cardinality(S) < seatLimit /\ Cardinality(T) <= Cardinality(S) + 1
        BY <2>1, <3>3 DEF SeatFree
      <4> QED
        BY <2>1, <2>2, <3>3, <4>1 DEF Overbooking
    <3>4. CASE T = S /\ SeatsUsed <= txn[q].limit
      BY <2>1, <3>1, <3>4 DEF Overbooking
    <3> QED
      BY <3>1, <3>2, <3>3, <3>4 DEF SeatsFit
  <2> QED
    BY <2>3, <2>4, OnlyCommits
<1> HIDE DEF Kept
<1>2. Spec => [](SerialInv /\ TidyInv)
  BY SerialAlways
<1>3. Spec => [][Kept]_vars
  BY <1>1, <1>2, PTL DEF Spec
<1> QED
  BY <1>3 DEF SeatsRespected, Kept

(* What happens when a member is deactivated: it was asked for, and the     *)
(* reports and the open leads are handled as things stand.                  *)
LEMMA DepartureOf ==
  ASSUME NEW r, Request = {r}, SerialInv, TidyInv, [Next]_vars,
         NEW m \in Member, member[m].active, ~member'[m].active
  PROVE  /\ Commit(r) /\ m \in Existing /\ Departure(txn[r], m)
         /\ Reports(m) \subseteq Member \ {m}
         /\ \A x \in Member :
              /\ member'[x].exists = member[x].exists
              /\ member'[x].manager =
                   IF x \in Reports(m) THEN member[m].manager ELSE member[x].manager
              /\ x # m => member'[x].active = member[x].active
<1>1. Commit(r)
  BY OnlyCommits
<1>2. member' = After(txn[r]) /\ Prepared(txn[r])
  BY <1>1 DEF Commit, TidyInv
<1>3. PICK k \in Existing : Departure(txn[r], k)
  BY <1>2 DEF Prepared, KeepsActive
<1>4. k \in Member /\ Rows(member) /\ Acyclic(member)
  BY DEF Existing, SerialInv, Forest
<1>5. k \notin Reports(k) /\ Reports(k) \subseteq Member
  BY <1>4 DEF Acyclic, Reports, Existing
<1>6. ASSUME NEW x \in Member
      PROVE  /\ member'[x].exists = member[x].exists
             /\ member'[x].manager =
                  IF x \in Reports(k) THEN member[k].manager ELSE member[x].manager
             /\ x # k => member'[x].active = member[x].active
  <2>1. member'[x] = IF x \in {k} \cup Reports(k) THEN Left(k, x) ELSE member[x]
    BY <1>2, <1>3 DEF Departure, Replaced
  <2>2. /\ Left(k, x).exists = member[x].exists
        /\ Left(k, x).manager =
             IF x \in Reports(k) THEN member[k].manager ELSE member[x].manager
        /\ x # k => Left(k, x).active = member[x].active
    BY <1>4 DEF Left, Reparented, Rows, Membership
  <2> QED
    BY <1>5, <2>1, <2>2
<1>7. k = m
  BY <1>6
<1> QED
  BY <1>1, <1>3, <1>5, <1>6, <1>7

(* Deactivation never orphans a pipeline: when requests do not overlap, a   *)
(* member who is deactivated keeps no open lead and no report, and all they *)
(* held goes to one active colleague (MemberService.deactivate,             *)
(* reassign_open_leads).                                                    *)
THEOREM CleanDeparture ==
  ASSUME NEW r, Request = {r}
  PROVE  Spec => DeactivationIsClean
<1>1. SerialInv /\ TidyInv /\ [Next]_vars =>
        \A m \in Member :
          member[m].active /\ ~member'[m].active =>
            /\ OpenLeads(m)' = {}
            /\ Reports(m)' = {}
            /\ \A l, k \in OpenLeads(m) :
                 lead'[l].holder = lead'[k].holder /\ member'[lead'[l].holder].active
  <2> SUFFICES ASSUME SerialInv, TidyInv, [Next]_vars,
                      NEW m \in Member, member[m].active, ~member'[m].active
               PROVE  /\ OpenLeads(m)' = {}
                      /\ Reports(m)' = {}
                      /\ \A l, k \in OpenLeads(m) :
                           /\ lead'[l].holder = lead'[k].holder
                           /\ member'[lead'[l].holder].active
    OBVIOUS
  <2> DEFINE t == txn[r]
  <2>1. /\ Commit(r) /\ m \in Existing /\ Departure(t, m)
        /\ Reports(m) \subseteq Member \ {m}
        /\ \A x \in Member :
             /\ member'[x].exists = member[x].exists
             /\ member'[x].manager =
                  IF x \in Reports(m) THEN member[m].manager ELSE member[x].manager
             /\ x # m => member'[x].active = member[x].active
    BY DepartureOf
  <2>2. /\ \A l \in OpenLeads(m) : lead'[l].holder = t.target
        /\ \A l \in Lead \ OpenLeads(m) : lead'[l] = lead[l]
    BY <2>1 DEF Commit, Departure, OpenLeads, TidyInv
  <2>3. OpenLeads(m) # {} => /\ t.target \in Member \ {m}
                             /\ member[t.target].active
    BY <2>1 DEF Departure, TargetAccepted, Existing
  <2>4. OpenLeads(m)' = {}
    BY <2>2, <2>3 DEF OpenLeads
  <2>5. member[m].manager # m
    BY <2>1 DEF Reports
  <2>6. Reports(m)' = {}
    BY <2>1, <2>5 DEF Reports, Existing
  <2> QED
    BY <2>1, <2>2, <2>3, <2>4, <2>6
<1> QED
  BY <1>1, SerialAlways, PTL DEF Spec, DeactivationIsClean

(* A departure hides nobody from the managers who stay: when requests do    *)
(* not overlap, whoever was below one of them still is, however deep the    *)
(* hierarchy (_reparent_reports, resolve_visible_membership_ids).           *)
THEOREM StillBelow ==
  ASSUME NEW r, Request = {r}
  PROVE  Spec => StayBelow
<1>1. SerialInv /\ TidyInv /\ [Next]_vars =>
        \A m, boss \in Member :
          member[m].active /\ ~member'[m].active /\ boss # m =>
            Below(boss) \subseteq Below(boss)'
  <2> SUFFICES ASSUME SerialInv, TidyInv, [Next]_vars,
                      NEW m \in Member, member[m].active, ~member'[m].active,
                      NEW boss \in Member, boss # m,
                      NEW x \in Below(boss)
               PROVE  x \in Below(boss)'
    OBVIOUS
  <2>1. /\ m \in Existing /\ Reports(m) \subseteq Member \ {m}
        /\ \A y \in Member :
             /\ member'[y].exists = member[y].exists
             /\ member'[y].manager =
                  IF y \in Reports(m) THEN member[m].manager ELSE member[y].manager
    BY DepartureOf
  <2>2. x \in Existing' /\ x \in Member /\ boss \in Above(x)
    BY <2>1 DEF Below, Existing
  <2>3. \A y \in Reports(m) : member[y].manager = m
    BY DEF Reports
  <2>4. ASSUME NEW S \in SUBSET Member, x \in S, Closed(S)'
        PROVE  boss \in S
    <3>1. \A y \in S : member'[y].manager \in S \cup {None}
      BY <2>4 DEF Closed
    <3>2. CASE m \in S \/ S \cap Reports(m) # {}
      <4>1. Closed(S \cup {m})
        <5>1. member[m].manager \in S \cup {None}
          BY <2>1, <3>1, <3>2
        <5>2. \A y \in S : member[y].manager \in S \cup {m, None}
          BY <2>1, <2>3, <3>1
        <5> QED
          BY <5>1, <5>2 DEF Closed
      <4> QED
        BY <2>2, <2>4, <4>1 DEF Above
    <3>3. CASE m \notin S /\ S \cap Reports(m) = {}
      <4>1. Closed(S)
        BY <2>1, <3>1, <3>3 DEF Closed
      <4> QED
        BY <2>2, <2>4, <4>1 DEF Above
    <3> QED
      BY <3>2, <3>3
  <2>5. boss \in Above(x)'
    BY <2>4 DEF Above
  <2> QED
    BY <2>2, <2>5 DEF Below
<1> QED
  BY <1>1, SerialAlways, PTL DEF Spec, StayBelow
=============================================================================
