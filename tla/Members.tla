------------------------------ MODULE Members -------------------------------
(***************************************************************************)
(* Members of a workspace: services/members.py, the bulk upload of         *)
(* services/member_import.py, the seat limit of routers/workspaces.py and  *)
(* the reporting line tenancy/scoping.py reads.                            *)
(*                                                                         *)
(* Every request is one transaction in two steps: it reads, checks and     *)
(* computes what it will write, then commits.  No row is locked, so with   *)
(* more than one Request others may commit in between.  Templates, names   *)
(* and availability decide nothing here and are left out.                  *)
(***************************************************************************)
EXTENDS Integers, FiniteSets, UnitOfWork

CONSTANTS
  Member,   \* users who may become members
  Lead,     \* leads of the workspace
  Seats,    \* values of seat_limit
  Request,  \* requests that may be open at the same time
  None      \* SQL NULL

ASSUME MembersAssumption ==
  /\ None \notin Member
  /\ Seats \subseteq Nat \ {0}
  /\ IsFiniteSet(Member)

VARIABLES
  member,     \* the committed membership of each user
  seatLimit,  \* workspaces.seat_limit
  lead,       \* who holds each lead, and whether its stage is open
  txn         \* what each open request read and will write

vars == <<member, seatLimit, lead, txn>>

Membership == [exists : BOOLEAN, active : BOOLEAN, licensed : BOOLEAN,
               manager : Member \cup {None}]

Absent == [exists |-> FALSE, active |-> FALSE, licensed |-> FALSE,
           manager |-> None]

Joined(boss, licensed) ==
  [exists |-> TRUE, active |-> TRUE, licensed |-> licensed, manager |-> boss]

NoTxn == [open |-> FALSE, upload |-> FALSE, read |-> <<>>, write |-> <<>>,
          moved |-> {}, target |-> None, loadedLimit |-> 0, limit |-> 0]

Init ==
  /\ \E owner \in Member :
       member = [m \in Member |-> IF m = owner THEN Joined(None, TRUE) ELSE Absent]
  /\ seatLimit \in Seats
  /\ lead = [l \in Lead |-> [holder |-> None, open |-> TRUE]]
  /\ txn = [r \in Request |-> NoTxn]

-----------------------------------------------------------------------------
(* Reading. *)
Existing == {m \in Member : member[m].exists}

(* Only an active, licensed member gets a request through. *)
Caller(m) == member[m].exists /\ member[m].active /\ member[m].licensed

SeatsUsed == Cardinality({m \in Member : member[m].licensed})
SeatFreeAtLimit == SeatsUsed <= seatLimit  \* mutant: the last seat twice
SeatFree == SeatsUsed < seatLimit

Closed(S) == \A m \in S : member[m].manager \in S \cup {None}

(* The member and everyone above: what the walk up the managers meets. *)
Above(m) ==
  {x \in Member : \A S \in SUBSET Member : m \in S /\ Closed(S) => x \in S}

(* The member and everyone below: resolve_visible_membership_ids. *)
Below(m) == {x \in Existing : m \in Above(x)}

DirectCycle(m, boss) == member[boss].manager = m  \* mutant: no walk
WouldCreateCycle(m, boss) == m \in Above(boss)

OpenLeads(m) == {l \in Lead : lead[l].holder = m /\ lead[l].open}

Reports(m) == {x \in Existing : member[x].manager = m}

-----------------------------------------------------------------------------
(* Requests.  Each reads the rows of S and will turn them into new. *)
Staged(S, new) ==
  [NoTxn EXCEPT !.open = TRUE, !.read = [m \in S |-> member[m]], !.write = new,
                !.loadedLimit = seatLimit, !.limit = seatLimit]

Begin(r, staged) ==
  /\ ~txn[r].open
  /\ \E c \in Member : Caller(c)
  /\ txn' = [txn EXCEPT ![r] = staged]
  /\ UNCHANGED <<member, seatLimit, lead>>

(* MemberService.invite *)
Invite(r, m, boss, licensed) ==
  /\ ~member[m].exists
  /\ boss \in Existing \cup {None}
  /\ licensed => SeatFree
  /\ Begin(r, Staged({m}, [x \in {m} |-> Joined(boss, licensed)]))

(* MemberImportService.run: the rows that are neither in error nor already  *)
(* members.  A row's manager must exist or come from an earlier row, so the *)
(* managers of the new members are acyclic among themselves.                *)
Uploadable(S, boss) ==
  /\ S \cap Existing = {}
  /\ \A m \in S : boss[m] \in Existing \cup S \cup {None}
  /\ \A T \in SUBSET S : T # {} => \E m \in T : boss[m] \notin T

Upload(r, S, boss, licensed) ==
  /\ Uploadable(S, boss)
  /\ Begin(r, [Staged(S, [m \in S |-> Joined(boss[m], m \in licensed)])
                 EXCEPT !.upload = TRUE])

(* MemberService.set_manager *)
SetManager(r, m, boss) ==
  /\ m \in Existing
  /\ boss # None => /\ boss # m
                    /\ boss \in Existing
                    /\ ~WouldCreateCycle(m, boss)
  /\ Begin(r, Staged({m}, [x \in {m} |-> [member[m] EXCEPT !.manager = boss]]))

(* MemberService.assign_license; a licensed member keeps the licence. *)
AssignLicense(r, m) ==
  /\ m \in Existing /\ ~member[m].licensed
  /\ SeatFree
  /\ Begin(r, Staged({m}, [x \in {m} |-> [member[m] EXCEPT !.licensed = TRUE]]))

(* MemberService.revoke_license *)
RevokeLicense(r, m) ==
  /\ m \in Existing
  /\ Begin(r, Staged({m}, [x \in {m} |-> [member[m] EXCEPT !.licensed = FALSE]]))

(* What deactivation does to the rows it touches: the reports move up to    *)
(* the leaver's own manager, the leaver loses the licence.                  *)
ReparentedToNobody(m, x) ==  \* mutant: the reports lose their line
  [member[x] EXCEPT !.manager = IF x \in Reports(m) THEN None ELSE @]
Reparented(m, x) ==
  IF x \in Reports(m) THEN [member[x] EXCEPT !.manager = member[m].manager]
                      ELSE member[x]

Left(m, x) ==
  IF x = m THEN [Reparented(m, x) EXCEPT !.active = FALSE, !.licensed = FALSE]
           ELSE Reparented(m, x)

AnyTargetAccepted(m, target) == target \in Existing \ {m}  \* mutant: gone too
TargetAccepted(m, target) ==
  target \in Existing /\ target # m /\ member[target].active

(* MemberService.deactivate, asked for by someone else. *)
Deactivate(r, m, target) ==
  LET S == {m} \cup Reports(m)
  IN /\ m \in Existing
     /\ \E c \in Member \ {m} : Caller(c)
     /\ OpenLeads(m) # {} => TargetAccepted(m, target)
     /\ Begin(r, [Staged(S, [x \in S |-> Left(m, x)])
                    EXCEPT !.moved = OpenLeads(m), !.target = target])

(* MemberService.reactivate *)
Reactivate(r, m) ==
  /\ m \in Existing /\ ~member[m].active
  /\ SeatFree
  /\ Begin(r, Staged({m}, [x \in {m} |->
              [member[m] EXCEPT !.active = TRUE, !.licensed = TRUE]]))

(* update_workspace: the limit may not fall below what is in use. *)
SetSeatLimit(r, limit) ==
  /\ SeatsUsed <= limit
  /\ Begin(r, [Staged({}, <<>>) EXCEPT !.limit = limit])

-----------------------------------------------------------------------------
Flushed(stored, loaded, assigned) ==
  [c \in DOMAIN stored |-> Column(stored[c], loaded[c], assigned[c])]

(* The memberships once the transaction has committed. *)
After(t) ==
  [m \in Member |->
     IF m \in DOMAIN t.read THEN Flushed(member[m], t.read[m], t.write[m])
                            ELSE member[m]]

(* uq_memberships_ws_user *)
InsertsNew(t) ==
  \A m \in DOMAIN t.read : ~t.read[m].exists => ~member[m].exists

Commit(r) ==
  /\ txn[r].open
  /\ InsertsNew(txn[r])
  /\ member' = After(txn[r])
  /\ seatLimit' = Column(seatLimit, txn[r].loadedLimit, txn[r].limit)
  /\ lead' = [l \in Lead |->
                IF l \in txn[r].moved
                THEN [lead[l] EXCEPT !.holder = txn[r].target] ELSE lead[l]]
  /\ txn' = [txn EXCEPT ![r] = NoTxn]

(* A unique violation, or a request that fails: nothing is written. *)
Abort(r) ==
  /\ txn[r].open
  /\ txn' = [txn EXCEPT ![r] = NoTxn]
  /\ UNCHANGED <<member, seatLimit, lead>>

(* A lead endpoint assigns a lead to any membership, closes or reopens it:   *)
(* a request of its own, here with its read and its commit in one step.      *)
WorkLead(r, l, holder, open) ==
  /\ ~txn[r].open
  /\ holder \in Existing \cup {None}
  /\ lead' = [lead EXCEPT ![l] = [holder |-> holder, open |-> open]]
  /\ UNCHANGED <<member, seatLimit, txn>>

Next ==
  \/ \E r \in Request :
       \/ Commit(r)
       \/ Abort(r)
       \/ \E m \in Member :
            \/ AssignLicense(r, m)
            \/ RevokeLicense(r, m)
            \/ Reactivate(r, m)
            \/ \E target \in Member : Deactivate(r, m, target)
            \/ \E boss \in Member \cup {None} :
                 \/ SetManager(r, m, boss)
                 \/ \E licensed \in BOOLEAN : Invite(r, m, boss, licensed)
       \/ \E limit \in Seats : SetSeatLimit(r, limit)
       \/ \E S \in SUBSET Member :
            \E boss \in [S -> Member \cup {None}], licensed \in SUBSET S :
              Upload(r, S, boss, licensed)
       \/ \E l \in Lead, holder \in Member \cup {None}, open \in BOOLEAN :
            WorkLead(r, l, holder, open)

Spec == Init /\ [][Next]_vars

-----------------------------------------------------------------------------
(* Properties. *)

(* Managers and holders of leads are members, and a user who never joined    *)
(* has no membership row's columns.                                          *)
TypeOK ==
  /\ member \in [Member -> Membership]
  /\ \A m \in Member : member[m].manager \in Existing \cup {None}
  /\ \A m \in Member \ Existing : member[m] = Absent
  /\ seatLimit \in Seats
  /\ lead \in [Lead -> [holder : Existing \cup {None}, open : BOOLEAN]]
  /\ \A r \in Request :
       /\ DOMAIN txn[r].read \subseteq Member
       /\ txn[r].moved # {} => txn[r].target \in Existing

(* "A cycle would make the visibility CTE in the scoping layer loop": in    *)
(* every set of members somebody reports to no one in the set, so every     *)
(* walk up the managers, and every recursive read of the reports, ends.     *)
Acyclic(table) ==
  \A S \in SUBSET Member :
    S # {} => \E m \in S : table[m].manager \notin S

ReportsAcyclic == Acyclic(member)

(* "A licence is a seat": no step takes the workspace further past          *)
(* seat_limit, whatever sequence of invitations, licences, departures,      *)
(* returns and limit changes led there.  A bulk upload never looks.         *)
Overbooking == SeatsUsed - seatLimit

SeatsRespected ==
  [][\/ Overbooking' <= Overbooking \/ Overbooking' <= 0
     \/ \E r \in Request : txn[r].upload /\ ~txn'[r].open]_vars

(* "Deactivation never orphans a pipeline": at the moment a member is       *)
(* deactivated no open lead is theirs and nobody reports to them, and what  *)
(* they held has gone to one active colleague.                              *)
DeactivationIsClean ==
  [][\A m \in Member :
       member[m].active /\ ~member'[m].active =>
         /\ OpenLeads(m)' = {}
         /\ Reports(m)' = {}
         /\ \A l, k \in OpenLeads(m) :
              lead'[l].holder = lead'[k].holder /\ member'[lead'[l].holder].active]_vars

(* A departure hides nobody from the managers who stay: whoever was below   *)
(* one of them still is.                                                    *)
StayBelow ==
  [][\A m, boss \in Member :
       member[m].active /\ ~member'[m].active /\ boss # m =>
         Below(boss) \subseteq Below(boss)']_vars

-----------------------------------------------------------------------------
(* Why they hold when requests do not overlap: the parts of an inductive    *)
(* invariant. *)

(* A table of memberships nobody in which reports to somebody unknown. *)
Known(table) == {m \in Member : table[m].exists}

Rows(table) ==
  /\ table \in [Member -> Membership]
  /\ \A m \in Member : table[m].manager \in Known(table) \cup {None}

Forest(table) == Rows(table) /\ Acyclic(table)

(* The table with the rows of S replaced. *)
Replaced(S, new) == [m \in Member |-> IF m \in S THEN new[m] ELSE member[m]]

(* Inductive: the stored table is a forest, and so is the one every open    *)
(* transaction would leave behind if it committed now.                      *)
SerialInv ==
  /\ Forest(member)
  /\ txn = [r \in Request |-> txn[r]]
  /\ \A r \in Request : txn[r].open => Forest(After(txn[r]))

(* What a transaction may do to the seats if it commits now: give none out, *)
(* give out one that was free, or set a limit the members fit under.        *)
Licensed(table) == {m \in Member : table[m].licensed}

SeatsFit(t) ==
  \/ t.upload
  \/ t.limit = seatLimit /\ Licensed(After(t)) \subseteq Licensed(member)
  \/ /\ t.limit = seatLimit /\ SeatFree
     /\ \E m \in Member : Licensed(After(t)) \subseteq Licensed(member) \cup {m}
  \/ Licensed(After(t)) = Licensed(member) /\ SeatsUsed <= t.limit

(* The transaction that deactivates m as things stand: it re-hangs every    *)
(* report and moves every open lead, to somebody who is there.              *)
Departure(t, m) ==
  /\ After(t) = Replaced({m} \cup Reports(m), [x \in {m} \cup Reports(m) |-> Left(m, x)])
  /\ t.moved = OpenLeads(m)
  /\ OpenLeads(m) # {} => TargetAccepted(m, t.target)

KeepsActive(t) ==
  /\ t.moved = {}
  /\ \A m \in Member : member[m].active => After(t)[m].active

Prepared(t) ==
  /\ t.loadedLimit = seatLimit /\ t.limit \in Seats
  /\ SeatsFit(t)
  /\ KeepsActive(t) \/ \E m \in Existing : Departure(t, m)

TidyInv ==
  /\ seatLimit \in Seats
  /\ lead \in [Lead -> [holder : Member \cup {None}, open : BOOLEAN]]
  /\ \A r \in Request : txn[r].open => Prepared(txn[r])
=============================================================================
