------------------------------ MODULE RateLimits ------------------------------
(***************************************************************************)
(* The attempt counters of auth/rate_limit.py, kept in Redis for the login   *)
(* and refresh endpoints (routers/auth.py).                                 *)
(*                                                                         *)
(* An attempt counts every key of its endpoint before it is judged.  INCR    *)
(* and TTL go in one transaction; the EXPIRE of a key that has no lifetime   *)
(* is a call of its own, and the process may end before it.                 *)
(***************************************************************************)
EXTENDS Integers, Sequences

CONSTANTS
  Endpoint,    \* "login" and "refresh"
  Keys,        \* endpoint -> the sequence of keys one attempt counts
  Limit,       \* key -> its budget
  Request,
  MaxCrashes,  \* bound on processes that end between INCR and EXPIRE
  None

Key == DOMAIN Limit

VARIABLES
  count,    \* key -> attempts in its window; 0 when it does not exist
  expires,  \* keys with a lifetime
  request,  \* what each attempt has counted
  crashes

vars == <<count, expires, request, crashes>>

(* The key counted next, and a key that is owed its lifetime. *)
Idle == [endpoint |-> None, next |-> 0, owes |-> None, over |-> FALSE]

Init ==
  /\ count = [k \in Key |-> 0]
  /\ expires = {}
  /\ request = [q \in Request |-> Idle]
  /\ crashes = 0

Arrive(q, e) ==
  /\ request[q] = Idle
  /\ request' = [request EXCEPT ![q] = [Idle EXCEPT !.endpoint = e, !.next = 1]]
  /\ UNCHANGED <<count, expires, crashes>>

(* _incr_with_window.  A count past the budget matters no further. *)
FirstHit(k) == count[k] = 0  \* mutant: only the first hit of a window sets it
LacksLifetime(k) == k \notin expires

Incr(q) ==
  LET r == request[q]
      k == Keys[r.endpoint][r.next]
  IN /\ r # Idle /\ r.owes = None /\ r.next <= Len(Keys[r.endpoint])
     /\ count' = [count EXCEPT ![k] = IF @ > Limit[k] THEN @ ELSE @ + 1]
     /\ request' = [request EXCEPT ![q] =
          [r EXCEPT !.next = @ + 1, !.owes = IF LacksLifetime(k) THEN k ELSE None,
                    !.over = @ \/ count[k] >= Limit[k]]]
     /\ UNCHANGED <<expires, crashes>>

(* EXPIRE of a key that was deleted meanwhile does nothing. *)
Expire(q) ==
  LET k == request[q].owes
  IN /\ k # None
     /\ expires' = IF count[k] > 0 THEN expires \cup {k} ELSE expires
     /\ request' = [request EXCEPT ![q].owes = None]
     /\ UNCHANGED <<count, crashes>>

(* _check refuses once everything is counted; a login that succeeds clears   *)
(* its keys, a refresh never does.                                          *)
Counted(q) == request[q].endpoint # None /\ request[q].owes = None
                /\ request[q].next = Len(Keys[request[q].endpoint]) + 1

Answer(q, succeeds) ==
  LET r == request[q]
      mine == {Keys[r.endpoint][n] : n \in DOMAIN Keys[r.endpoint]}
  IN /\ Counted(q)
     /\ IF ~r.over /\ succeeds /\ r.endpoint = "login"
        THEN /\ count' = [k \in Key |-> IF k \in mine THEN 0 ELSE count[k]]
             /\ expires' = expires \ mine
        ELSE UNCHANGED <<count, expires>>
     /\ request' = [request EXCEPT ![q] = Idle]
     /\ UNCHANGED crashes

Crash(q) ==
  /\ request[q] # Idle /\ crashes < MaxCrashes
  /\ crashes' = crashes + 1
  /\ request' = [request EXCEPT ![q] = Idle]
  /\ UNCHANGED <<count, expires>>

WindowEnds(k) ==
  /\ k \in expires
  /\ count' = [count EXCEPT ![k] = 0]
  /\ expires' = expires \ {k}
  /\ UNCHANGED <<request, crashes>>

Next ==
  \/ \E k \in Key : WindowEnds(k)
  \/ \E q \in Request :
       \/ Incr(q) \/ Expire(q) \/ Crash(q)
       \/ \E e \in Endpoint : Arrive(q, e)
       \/ \E succeeds \in BOOLEAN : Answer(q, succeeds)

Spec == Init /\ [][Next]_vars

(* Redis ends windows, a request under way goes on, and somebody goes on     *)
(* trying at every endpoint.                                                *)
Fairness ==
  /\ \A k \in Key : WF_vars(WindowEnds(k))
  /\ \A q \in Request : WF_vars(Incr(q)) /\ WF_vars(Expire(q))
                          /\ WF_vars(\E succeeds \in BOOLEAN : Answer(q, succeeds))
  /\ \A e \in Endpoint : SF_vars(\E q \in Request : Arrive(q, e))
FairSpec == Spec /\ Fairness

-----------------------------------------------------------------------------
(* Properties. *)

TypeOK ==
  /\ \A k \in Key : count[k] \in 0..(Limit[k] + 1)
  /\ \A k \in expires : count[k] > 0
  /\ \A q \in Request : request[q].owes \in Key \cup {None}

(* "Counters carry a TTL, so there is nothing to clean up": a key over its   *)
(* budget does not stay there for ever, though the process that counted its  *)
(* first hit ended before it gave the key a lifetime.                       *)
Over(k) == count[k] > Limit[k]
LockoutEnds == \A k \in Key : Over(k) ~> ~Over(k)
=============================================================================
