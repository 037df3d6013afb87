------------------------------- MODULE Outbox -------------------------------
(***************************************************************************)
(* The outbound event queue: rows of outbox_events written with the change *)
(* they describe (services/actions.py), dispatch passes that claim, send   *)
(* and record them (events/dispatcher.py), and the operator's redrive      *)
(* (routers/integrations.py).                                              *)
(*                                                                         *)
(* A pass is a Worker: arq starts one every ten seconds, so passes         *)
(* overlap, and each may die at any await.  A row's two timestamps are     *)
(* abstracted to what the claim query compares them with: due is the set   *)
(* of rows with next_attempt_at <= now, expired the set of claimed rows    *)
(* with claimed_at < now - CLAIM_TIMEOUT.                                  *)
(***************************************************************************)
EXTENDS Integers, FiniteSets, UnitOfWork

CONSTANTS
  Event,        \* outbox rows, one per event and endpoint
  Worker,       \* dispatch passes that may run at the same time
  BatchLimit,   \* run_dispatch's limit
  DeadAfter,    \* DEAD_AFTER_ATTEMPTS
  RaiseCap,     \* bound: an unexpected exception needs attempts below this
  MaxRedrives,  \* bound: redrive requests the operator makes
  MaxCrashes    \* bound: passes that die between two awaits

ASSUME LimitsAssumption ==
  /\ BatchLimit \in Nat \ {0}
  /\ DeadAfter \in Nat \ {0}
  /\ RaiseCap \in Nat
  /\ MaxRedrives \in Nat
  /\ MaxCrashes \in Nat

VARIABLES
  row,        \* the committed row of each event
  due,        \* rows with next_attempt_at <= now
  expired,    \* claimed rows whose claim is older than CLAIM_TIMEOUT
  pc,         \* where each pass stands
  todo,       \* rows the pass claimed and has not finished
  loaded,     \* the rows as the pass read them after its claim committed
  answer,     \* the event being sent and what the endpoint answered
  request,    \* the row as an unfinished redrive request read it
  redrives, crashes,            \* bounded counters
  tries, acks,                  \* history, for the properties only:
  reclaimed, redriven           \*   what was sent, acked, reclaimed, redriven

vars == <<row, due, expired, pc, todo, loaded, answer, request,
          redrives, crashes, tries, acks, reclaimed, redriven>>
passes == <<pc, todo, loaded, answer>>
history == <<tries, acks, reclaimed, redriven>>

Status == {"ABSENT", "PENDING", "DELIVERING", "DELIVERED", "FAILED", "DEAD"}
Row == [status : Status, attempts : Nat, claimed : BOOLEAN]
NoRow == [status |-> "ABSENT", attempts |-> 0, claimed |-> FALSE]
Answer == {"none", "ok", "refused"}

(* The rows, passes and requests hold what the columns and the code allow. *)
TypeOK ==
  /\ row \in [Event -> Row]
  /\ due \subseteq Event
  /\ expired \subseteq Event
  /\ pc \in [Worker -> {"idle", "claimed", "sending", "answered"}]
  /\ todo \in [Worker -> SUBSET Event]
  /\ loaded \in [Worker -> [Event -> Row]]
  /\ answer \in [Worker -> [event : SUBSET Event, result : Answer]]
  /\ request \in [Event -> Row]
  /\ redrives \in Nat
  /\ crashes \in Nat
  /\ tries \in [Event -> 0 .. DeadAfter]
  /\ acks \in [Event -> 0 .. 2]
  /\ reclaimed \subseteq Event
  /\ redriven \subseteq Event

-----------------------------------------------------------------------------
NoAnswer == [event |-> {}, result |-> "none"]
Blank == [e \in Event |-> NoRow]

Init ==
  /\ row = Blank
  /\ due = {}
  /\ expired = {}
  /\ pc = [w \in Worker |-> "idle"]
  /\ todo = [w \in Worker |-> {}]
  /\ loaded = [w \in Worker |-> Blank]
  /\ answer = [w \in Worker |-> NoAnswer]
  /\ request = Blank
  /\ redrives = 0
  /\ crashes = 0
  /\ tries = [e \in Event |-> 0]
  /\ acks = [e \in Event |-> 0]
  /\ reclaimed = {}
  /\ redriven = {}

(* Capped(n, cap) is n + 1, saturating: the properties read no further. *)
Capped(n, cap) == IF n < cap THEN n + 1 ELSE n

(* What a flush leaves in the row, column by column. *)
Flush(stored, read, assigned) ==
  [status |-> Column(stored.status, read.status, assigned.status),
   attempts |-> Column(stored.attempts, read.attempts, assigned.attempts),
   claimed |-> Column(stored.claimed, read.claimed, assigned.claimed)]

-----------------------------------------------------------------------------
(* ActionWriter._publish: the row commits with the mutation it reports. *)
Publish(e) ==
  /\ row[e].status = "ABSENT"
  /\ row' = [row EXCEPT ![e] =
               [status |-> "PENDING", attempts |-> 0, claimed |-> FALSE]]
  /\ due' = due \cup {e}
  /\ UNCHANGED <<expired, passes, request, redrives, crashes,
                 history>>

(* Three ways to get the query wrong, for the mutants: a claim without the *)
(* timeout, none of the dead workers' rows, and settled rows as well.      *)
ClaimableLive(e) ==
  e \in due /\ row[e].status \in {"PENDING", "FAILED", "DELIVERING"}
ClaimableNoReclaim(e) ==
  e \in due /\ row[e].status \in {"PENDING", "FAILED"}
ClaimableSettled(e) ==
  e \in due /\ row[e].status \in {"PENDING", "FAILED", "DELIVERED"}

(* The rows the claim query selects. *)
Claimable(e) ==
  /\ e \in due
  /\ \/ row[e].status \in {"PENDING", "FAILED"}
     \/ row[e].status = "DELIVERING" /\ e \in expired

(* _claim up to its commit: SELECT ... FOR UPDATE SKIP LOCKED, UPDATE,     *)
(* COMMIT.  The row locks make it one step; which due rows are locked, and *)
(* which are the oldest, is left open.                                     *)
Claim(w, S) ==
  /\ pc[w] = "idle"
  /\ S # {}
  /\ Cardinality(S) <= BatchLimit
  /\ \A e \in S : Claimable(e)
  /\ row' = [e \in Event |->
               IF e \in S
               THEN [status |-> "DELIVERING", attempts |-> row[e].attempts,
                     claimed |-> TRUE]
               ELSE row[e]]
  /\ expired' = expired \ S
  /\ pc' = [pc EXCEPT ![w] = "claimed"]
  /\ todo' = [todo EXCEPT ![w] = S]
  /\ reclaimed' = reclaimed \cup (S \cap expired)
  /\ UNCHANGED <<due, loaded, answer, request, redrives, crashes,
                 tries, acks, redriven>>

(* _claim's second SELECT, in a transaction of its own and without locks. *)
Reload(w) ==
  /\ pc[w] = "claimed"
  /\ loaded' = [loaded EXCEPT ![w] =
                  [e \in Event |-> IF e \in todo[w] THEN row[e] ELSE NoRow]]
  /\ pc' = [pc EXCEPT ![w] = "sending"]
  /\ UNCHANGED <<row, due, expired, todo, answer, request, redrives, crashes,
                 history>>

(* deliver_once up to the endpoint's answer.  A timeout after the consumer *)
(* took the event counts as refused: the program cannot tell.              *)
Send(w, e) ==
  /\ pc[w] = "sending"
  /\ e \in todo[w]
  /\ \E result \in {"ok", "refused"} :
       /\ answer' = [answer EXCEPT ![w] = [event |-> {e}, result |-> result]]
       /\ acks' = [acks EXCEPT ![e] = IF result = "ok" THEN Capped(@, 2) ELSE @]
  /\ pc' = [pc EXCEPT ![w] = "answered"]
  /\ tries' = [tries EXCEPT ![e] = Capped(@, DeadAfter)]
  /\ UNCHANGED <<row, due, expired, todo, loaded, request, redrives, crashes,
                 reclaimed, redriven>>

(* The pass moves to its next row, or ends. *)
Finish(w, e) ==
  /\ todo' = [todo EXCEPT ![w] = @ \ {e}]
  /\ loaded' = [loaded EXCEPT ![w][e] = NoRow]
  /\ answer' = [answer EXCEPT ![w] = NoAnswer]
  /\ pc' = [pc EXCEPT ![w] = IF todo[w] = {e} THEN "idle" ELSE "sending"]

(* Mutants of the outcome: attempts counted down, any answer taken for an  *)
(* acceptance, one try too few, and FAILED forgotten.                      *)
OutcomeCountsDown(read, result) ==
  [status |-> IF result = "ok" THEN "DELIVERED" ELSE "FAILED",
   attempts |-> read.attempts - 1, claimed |-> FALSE]
OutcomeAnyAnswer(read, result) ==
  [status |-> "DELIVERED", attempts |-> read.attempts + 1, claimed |-> FALSE]
OutcomeOneTooFew(read, result) ==
  [status |-> IF result = "ok" THEN "DELIVERED"
              ELSE IF read.attempts + 2 >= DeadAfter THEN "DEAD" ELSE "FAILED",
   attempts |-> read.attempts + 1, claimed |-> FALSE]
OutcomeStatusKept(read, result) ==
  [status |-> IF result = "ok" THEN "DELIVERED"
              ELSE IF read.attempts + 1 >= DeadAfter THEN "DEAD"
              ELSE read.status,
   attempts |-> read.attempts + 1, claimed |-> FALSE]

(* What deliver_once assigns to the row it loaded. *)
Outcome(read, result) ==
  [status   |-> IF result = "ok" THEN "DELIVERED"
                ELSE IF read.attempts + 1 >= DeadAfter THEN "DEAD" ELSE "FAILED",
   attempts |-> read.attempts + 1,
   claimed  |-> FALSE]

(* A claim that was released is not an expired one. *)
StillExpired(e) == IF row'[e].claimed THEN expired ELSE expired \ {e}

(* The rest of deliver_once and run_dispatch's commit for the row.  Only a *)
(* FAILED outcome moves next_attempt_at.                                   *)
Record(w, e) ==
  /\ pc[w] = "answered"
  /\ e \in answer[w].event
  /\ LET read == loaded[w][e]
         assigned == Outcome(read, answer[w].result)
     IN /\ row' = [row EXCEPT ![e] = Flush(row[e], read, assigned)]
        /\ due' = IF assigned.status = "FAILED" THEN due \ {e} ELSE due
  /\ expired' = StillExpired(e)
  /\ Finish(w, e)
  /\ UNCHANGED <<request, redrives, crashes, history>>

(* run_dispatch's except branch: projection, serialisation or signing      *)
(* raised before the POST.  It never looks at DEAD_AFTER_ATTEMPTS.         *)
Raise(w, e) ==
  /\ pc[w] = "sending"
  /\ e \in todo[w]
  /\ loaded[w][e].attempts < RaiseCap
  /\ LET read == loaded[w][e]
     IN row' = [row EXCEPT ![e] =
                  Flush(row[e], read, [status |-> "FAILED",
                                       attempts |-> read.attempts + 1,
                                       claimed |-> FALSE])]
  /\ due' = due \ {e}
  /\ expired' = StillExpired(e)
  /\ Finish(w, e)
  /\ tries' = [tries EXCEPT ![e] = Capped(@, DeadAfter)]
  /\ UNCHANGED <<request, redrives, crashes, acks, reclaimed, redriven>>

(* The process dies, arq cancels the job, or a commit fails: whatever the  *)
(* pass had not committed is gone, and its claims stay in the table.       *)
Crash(w) ==
  /\ pc[w] # "idle"
  /\ crashes < MaxCrashes
  /\ crashes' = crashes + 1
  /\ pc' = [pc EXCEPT ![w] = "idle"]
  /\ todo' = [todo EXCEPT ![w] = {}]
  /\ loaded' = [loaded EXCEPT ![w] = Blank]
  /\ answer' = [answer EXCEPT ![w] = NoAnswer]
  /\ UNCHANGED <<row, due, expired, request, redrives, history>>

-----------------------------------------------------------------------------
(* retry_outbox_event reads the row and refuses a delivered one ...        *)
RedriveRead(e) ==
  /\ redrives < MaxRedrives
  /\ request[e] = NoRow
  /\ row[e].status \notin {"ABSENT", "DELIVERED"}
  /\ request' = [request EXCEPT ![e] = row[e]]
  /\ redrives' = redrives + 1
  /\ redriven' = redriven \cup {e}
  /\ UNCHANGED <<row, due, expired, passes, crashes, tries, acks, reclaimed>>

(* ... and commits what it changed of it. *)
RedriveCommit(e) ==
  /\ request[e] # NoRow
  /\ row' = [row EXCEPT ![e] =
               Flush(row[e], request[e],
                     [status |-> "PENDING", attempts |-> 0, claimed |-> FALSE])]
  /\ due' = due \cup {e}
  /\ expired' = StillExpired(e)
  /\ request' = [request EXCEPT ![e] = NoRow]
  /\ UNCHANGED <<passes, redrives, crashes, history>>

-----------------------------------------------------------------------------
(* Time. *)
BackoffEnds(e) ==
  /\ row[e].status # "ABSENT"
  /\ e \notin due
  /\ due' = due \cup {e}
  /\ UNCHANGED <<row, expired, passes, request, redrives, crashes,
                 history>>

ClaimExpires(e) ==
  /\ row[e].claimed
  /\ e \notin expired
  /\ expired' = expired \cup {e}
  /\ UNCHANGED <<row, due, passes, request, redrives, crashes,
                 history>>

-----------------------------------------------------------------------------
PassStep(w) ==
  \/ \E S \in SUBSET Event : Claim(w, S)
  \/ Reload(w)
  \/ \E e \in Event : Send(w, e) \/ Record(w, e) \/ Raise(w, e)
  \/ Crash(w)

Next ==
  \/ \E w \in Worker : PassStep(w)
  \/ \E e \in Event :
       \/ Publish(e)
       \/ RedriveRead(e)
       \/ RedriveCommit(e)
       \/ BackoffEnds(e)
       \/ ClaimExpires(e)

Spec == Init /\ [][Next]_vars

(* Time passes; arq starts a pass every ten seconds and a pass takes the   *)
(* oldest due rows first, so a due row is not passed over for ever; a live *)
(* pass goes on, and the endpoint answers or times out.  Nothing is        *)
(* assumed of operators, crashes or exceptions.                            *)
Fairness ==
  /\ \A e \in Event :
       /\ WF_vars(BackoffEnds(e))
       /\ WF_vars(ClaimExpires(e))
       /\ WF_vars(\E w \in Worker, S \in SUBSET Event : e \in S /\ Claim(w, S))
  /\ \A w \in Worker :
       /\ WF_vars(Reload(w))
       /\ WF_vars(\E e \in Event : Send(w, e))
       /\ WF_vars(\E e \in Event : Record(w, e))

FairSpec == Spec /\ Fairness
-----------------------------------------------------------------------------
(* Properties. *)

Settled(e) == row[e].status \in {"DELIVERED", "DEAD"}

(* "The commit after a successful send is what makes a crash between the   *)
(* two a duplicate rather than a loss": no interleaving of passes, crashes *)
(* and redrives marks an event DELIVERED that its endpoint never accepted. *)
DeliveredWasAccepted ==
  \A e \in Event : row[e].status = "DELIVERED" => acks[e] > 0

(* An event is only given up after DEAD_AFTER_ATTEMPTS real tries, whatever *)
(* overlapping passes and redrives wrote to the attempts column meanwhile.  *)
DeadWasTried ==
  \A e \in Event : row[e].status = "DEAD" => tries[e] = DeadAfter

(* A live worker's row is not stolen: without a timed-out claim or an       *)
(* operator's redrive an endpoint accepts an event at most once.            *)
OneDeliveryUnlessTakenOver ==
  \A e \in Event : e \notin reclaimed \cup redriven => acks[e] <= 1

(* Rows stuck in DELIVERING reclaim themselves: a DELIVERING row carries the *)
(* claim the timeout needs, as long as nobody redrove the event and no      *)
(* claim on it timed out under a pass that is still alive.                  *)
ReclaimableUnlessTakenOver ==
  \A e \in Event \ (reclaimed \cup redriven) :
    row[e].status = "DELIVERING" => row[e].claimed

(* The same without exception, as the model of the table (claimed_at) and   *)
(* the runbook have it.                                                     *)
AlwaysReclaimable ==
  \A e \in Event : row[e].status = "DELIVERING" => row[e].claimed

(* "DEAD after 8 ... rather than the queue grinding forever": a row that    *)
(* will be retried has attempts left.                                       *)
RetryHasBudget ==
  \A e \in Event : row[e].status = "FAILED" => row[e].attempts < DeadAfter

(* Kill the worker mid-delivery and the event is retried, not lost: every   *)
(* queued event that nobody redrives is eventually DELIVERED or DEAD.       *)
EventuallySettled ==
  \A e \in Event :
    row[e].status = "PENDING" ~> Settled(e) \/ e \in redriven

(* The inductive forms of the two properties above, for the proofs: what a *)
(* pass holds in memory counts as much as what the table says.             *)
Sending(w, e) == pc[w] = "answered" /\ e \in answer[w].event

AcceptedInv ==
  /\ DeliveredWasAccepted
  /\ \A w \in Worker, e \in Event :
       Sending(w, e) /\ answer[w].result = "ok" => acks[e] > 0

Covered(e, attempts) == attempts <= tries[e] \/ tries[e] = DeadAfter

TriedInv ==
  /\ DeadWasTried
  /\ \A e \in Event : Covered(e, row[e].attempts)
  /\ \A w \in Worker, e \in Event :
       /\ Covered(e, loaded[w][e].attempts)
       /\ Sending(w, e) => Covered(e, loaded[w][e].attempts + 1)

(* A row that nobody took over belongs to the pass that claimed it: no other *)
(* pass holds it, the pass read what the table still says, and until the     *)
(* pass records its answer the table admits no acceptance but that one.      *)
HeldBy(w, e) ==
  /\ row[e].status = "DELIVERING" /\ row[e].claimed
  /\ pc[w] # "claimed" => loaded[w][e] = row[e]
  /\ \A v \in Worker : e \in todo[v] => v = w
  /\ acks[e] = 0 \/ (Sending(w, e) /\ answer[w].result = "ok")

Owned(e) ==
  /\ \A w \in Worker : e \in todo[w] => HeldBy(w, e)
  /\ row[e].status = "DELIVERING" => row[e].claimed
  /\ row[e].status \in {"ABSENT", "PENDING", "FAILED"} => acks[e] = 0
  /\ acks[e] <= 1

OwnedInv ==
  /\ \A e \in Event \ (reclaimed \cup redriven) : Owned(e)
  /\ \A w \in Worker, e \in Event :
       Sending(w, e) => e \in todo[w] /\ answer[w].event = {e}
  /\ \A e \in Event :
       /\ request[e] # NoRow => e \in redriven /\ row[e].status # "ABSENT"
       /\ \A w \in Worker : e \in todo[w] => row[e].status # "ABSENT"

(* The rows implement the contract. *)
AbstractState ==
  [e \in Event |->
     CASE row[e].status = "ABSENT" -> "absent"
       [] row[e].status = "DELIVERED" -> "delivered"
       [] row[e].status = "DEAD" -> "dead"
       [] OTHER -> "open"]

Contract == INSTANCE OutboxContract WITH
  Budget <- DeadAfter,
  state <- AbstractState,
  accepted <- {e \in Event : acks[e] > 0},
  excused <- reclaimed \cup redriven

(* Every step of the queue is a step the contract allows. *)
ImplementsContract == Contract!Spec
=============================================================================
