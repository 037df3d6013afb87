--------------------------- MODULE OutboxContract ---------------------------
(***************************************************************************)
(* What the outbox promises of each event, with no worker, claim or row:   *)
(* at-least-once delivery with a retry budget.  An event is reported       *)
(* delivered only if its consumer accepted it, is given up only after the  *)
(* whole budget of tries, and once settled stays so -- unless an operator  *)
(* redrove it or a claim on it timed out (a late worker may then overwrite *)
(* the outcome).  events/dispatcher.py's module comment states it.         *)
(***************************************************************************)
EXTENDS Naturals

CONSTANTS Event, Budget

VARIABLES state, tries, accepted, excused

vars == <<state, tries, accepted, excused>>

State == {"absent", "open", "delivered", "dead"}

Init ==
  /\ state = [e \in Event |-> "absent"]
  /\ tries = [e \in Event |-> 0]
  /\ accepted = {}
  /\ excused = {}

Queue(e) ==
  /\ state[e] = "absent"
  /\ state' = [state EXCEPT ![e] = "open"]
  /\ UNCHANGED <<tries, accepted, excused>>

(* One try reaches the consumer, or fails. *)
Try(e) ==
  /\ state[e] # "absent"
  /\ tries' = [tries EXCEPT ![e] = IF @ < Budget THEN @ + 1 ELSE @]
  /\ accepted' \in {accepted, accepted \cup {e}}
  /\ UNCHANGED <<state, excused>>

(* A try that fails and is recorded in the same step. *)
FailAndRecord(e) ==
  /\ state[e] # "absent"
  /\ tries' = [tries EXCEPT ![e] = IF @ < Budget THEN @ + 1 ELSE @]
  /\ state' \in {state, [state EXCEPT ![e] = "open"]}
  /\ state[e] \in {"delivered", "dead"} /\ state' # state => e \in excused
  /\ UNCHANGED <<accepted, excused>>

(* The outcome the queue reports. *)
Report(e) ==
  /\ state[e] # "absent"
  /\ \E outcome \in State \ {"absent"} :
       /\ outcome = "delivered" => e \in accepted
       /\ outcome = "dead" => tries[e] = Budget
       /\ state[e] \in {"delivered", "dead"} /\ outcome # state[e]
            => e \in excused
       /\ state' = [state EXCEPT ![e] = outcome]
  /\ UNCHANGED <<tries, accepted, excused>>

(* A redrive was asked for, or claims timed out and were taken over. *)
Excuse(S) ==
  /\ S \subseteq Event
  /\ excused' = excused \cup S
  /\ UNCHANGED <<state, tries, accepted>>

Next ==
  \/ \E e \in Event : Queue(e) \/ Try(e) \/ FailAndRecord(e) \/ Report(e)
  \/ \E S \in SUBSET Event : Excuse(S)

Spec == Init /\ [][Next]_vars
=============================================================================
