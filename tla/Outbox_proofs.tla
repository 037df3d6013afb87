---------------------------- MODULE Outbox_proofs ----------------------------
(* Proofs about Outbox for any number of events, passes, tries, redrives   *)
(* and crashes.                                                            *)
EXTENDS Outbox, TLAPS

LEMMA FlushType ==
  ASSUME NEW stored \in Row, NEW read \in Row, NEW assigned \in Row
  PROVE  /\ Flush(stored, read, assigned) \in Row
         /\ Flush(stored, read, assigned).status \in {stored.status, assigned.status}
         /\ Flush(stored, read, assigned).attempts \in {stored.attempts, assigned.attempts}
         /\ Flush(stored, read, assigned).claimed \in {stored.claimed, assigned.claimed}
BY DEF Row, Flush, Column

LEMMA OutcomeType ==
  ASSUME NEW read \in Row, NEW result \in Answer
  PROVE  Outcome(read, result) \in Row
BY DEF Row, Status, Answer, Outcome

(* The rows, passes and requests keep their types. *)
LEMMA TypeInductive == TypeOK /\ [Next]_vars => TypeOK'
<1> SUFFICES ASSUME TypeOK, [Next]_vars PROVE TypeOK'
  OBVIOUS
<1> USE LimitsAssumption
<1>1. ASSUME NEW w \in Worker, NEW S \in SUBSET Event, Claim(w, S) PROVE TypeOK'
  <2>1. row' \in [Event -> Row]
    BY <1>1 DEF TypeOK, Claim, Row, Status
  <2>2. QED
    BY <1>1, <2>1 DEF TypeOK, Claim
<1>2. ASSUME NEW w \in Worker, Reload(w) PROVE TypeOK'
  <2>1. NoRow \in Row
    BY DEF NoRow, Row, Status
  <2>2. [e \in Event |-> IF e \in todo[w] THEN row[e] ELSE NoRow] \in [Event -> Row]
    BY <2>1 DEF TypeOK
  <2>3. QED
    BY <1>2, <2>2 DEF TypeOK, Reload, passes, history
<1>3. ASSUME NEW w \in Worker, NEW e \in Event, Send(w, e) PROVE TypeOK'
  BY <1>3 DEF TypeOK, Send, Answer, Capped
<1>4. ASSUME NEW w \in Worker, NEW e \in Event, Finish(w, e)
      PROVE  /\ todo' \in [Worker -> SUBSET Event]
             /\ loaded' \in [Worker -> [Event -> Row]]
             /\ answer' \in [Worker -> [event : SUBSET Event, result : Answer]]
             /\ pc' \in [Worker -> {"idle", "claimed", "sending", "answered"}]
  <2>1. NoRow \in Row
    BY DEF NoRow, Row, Status
  <2>2. loaded' \in [Worker -> [Event -> Row]]
    BY <1>4, <2>1 DEF TypeOK, Finish
  <2>3. NoAnswer \in [event : SUBSET Event, result : Answer]
    BY DEF NoAnswer, Answer
  <2>4. QED
    BY <1>4, <2>2, <2>3 DEF TypeOK, Finish
<1>5. ASSUME NEW w \in Worker, NEW e \in Event, Record(w, e) PROVE TypeOK'
  <2>1. loaded[w][e] \in Row /\ row[e] \in Row /\ answer[w].result \in Answer
    BY DEF TypeOK
  <2>2. Outcome(loaded[w][e], answer[w].result) \in Row
    BY <2>1, OutcomeType
  <2>3. Flush(row[e], loaded[w][e], Outcome(loaded[w][e], answer[w].result)) \in Row
    BY <2>1, <2>2, FlushType
  <2>4. row' \in [Event -> Row]
    BY <1>5, <2>3 DEF TypeOK, Record
  <2>5. due' \subseteq Event /\ expired' \subseteq Event
    BY <1>5 DEF TypeOK, Record, StillExpired
  <2>6. Finish(w, e)
    BY <1>5 DEF Record
  <2>7. QED
    BY <1>4, <1>5, <2>4, <2>5, <2>6 DEF TypeOK, Record, history
<1>6. ASSUME NEW w \in Worker, NEW e \in Event, Raise(w, e) PROVE TypeOK'
  <2> DEFINE failed == [status |-> "FAILED", attempts |-> loaded[w][e].attempts + 1,
                        claimed |-> FALSE]
  <2>1. loaded[w][e] \in Row /\ row[e] \in Row
    BY DEF TypeOK
  <2>2. failed \in Row
    BY <2>1 DEF Row, Status
  <2>3. Flush(row[e], loaded[w][e], failed) \in Row
    BY <2>1, <2>2, FlushType
  <2>4. row' \in [Event -> Row]
    BY <1>6, <2>3 DEF TypeOK, Raise
  <2>5. due' \subseteq Event /\ expired' \subseteq Event
    BY <1>6 DEF TypeOK, Raise, StillExpired
  <2>6. Finish(w, e) /\ tries' \in [Event -> 0 .. DeadAfter]
    BY <1>6 DEF Raise, TypeOK, Capped
  <2>7. QED
    BY <1>4, <1>6, <2>4, <2>5, <2>6 DEF TypeOK, Raise
<1>7. ASSUME NEW w \in Worker, Crash(w) PROVE TypeOK'
  <2>1. Blank \in [Event -> Row]
    BY DEF Blank, NoRow, Row, Status
  <2>2. NoAnswer \in [event : SUBSET Event, result : Answer]
    BY DEF NoAnswer, Answer
  <2>3. QED
    BY <1>7, <2>1, <2>2 DEF TypeOK, Crash, history
<1>8. ASSUME NEW e \in Event, Publish(e) PROVE TypeOK'
  BY <1>8 DEF TypeOK, Publish, Row, Status, passes, history
<1>9. ASSUME NEW e \in Event, RedriveRead(e) PROVE TypeOK'
  BY <1>9 DEF TypeOK, RedriveRead, passes
<1>10. ASSUME NEW e \in Event, RedriveCommit(e) PROVE TypeOK'
  <2> DEFINE fresh == [status |-> "PENDING", attempts |-> 0, claimed |-> FALSE]
  <2>1. request[e] \in Row /\ row[e] \in Row /\ fresh \in Row /\ NoRow \in Row
    BY DEF TypeOK, Row, Status, NoRow
  <2>2. Flush(row[e], request[e], fresh) \in Row
    BY <2>1, FlushType
  <2>3. row' \in [Event -> Row]
    BY <1>10, <2>2 DEF TypeOK, RedriveCommit
  <2>4. expired' \subseteq Event
    BY <1>10 DEF TypeOK, RedriveCommit, StillExpired
  <2>5. QED
    BY <1>10, <2>1, <2>3, <2>4 DEF TypeOK, RedriveCommit, passes, history
<1>11. ASSUME NEW e \in Event, BackoffEnds(e) \/ ClaimExpires(e) PROVE TypeOK'
  BY <1>11 DEF TypeOK, BackoffEnds, ClaimExpires, passes, history
<1>12. CASE UNCHANGED vars
  BY <1>12 DEF TypeOK, vars
<1>13. QED
  BY <1>1, <1>2, <1>3, <1>5, <1>6, <1>7, <1>8, <1>9, <1>10, <1>11, <1>12
     DEF Next, PassStep

(* Every reachable state of the outbox is well typed. *)
THEOREM OutboxTypeCorrect == Spec => []TypeOK
<1>1. Init => TypeOK
  BY LimitsAssumption
     DEF Init, TypeOK, Blank, NoRow, NoAnswer, Row, Status, Answer
<1>2. QED
  BY <1>1, TypeInductive, PTL DEF Spec

-----------------------------------------------------------------------------
(* A flush yields a settled status only from the stored or assigned row. *)
LEMMA OutcomeStatus ==
  ASSUME NEW read \in Row, NEW result \in {"ok", "refused"}
  PROVE  /\ Outcome(read, result).status = "DELIVERED" => result = "ok"
         /\ Outcome(read, result).status = "DEAD" => read.attempts + 1 >= DeadAfter
         /\ Outcome(read, result).attempts = read.attempts + 1
BY DEF Outcome

LEMMA AcceptedInductive == TypeOK /\ AcceptedInv /\ [Next]_vars => AcceptedInv'
<1> SUFFICES ASSUME TypeOK, AcceptedInv, [Next]_vars PROVE AcceptedInv'
  OBVIOUS
<1>1. ASSUME NEW w \in Worker, NEW S \in SUBSET Event, Claim(w, S)
      PROVE AcceptedInv'
  BY <1>1 DEF TypeOK, AcceptedInv, DeliveredWasAccepted, Sending, Claim
<1>2. ASSUME NEW w \in Worker, Reload(w) PROVE AcceptedInv'
  BY <1>2 DEF TypeOK, AcceptedInv, DeliveredWasAccepted, Sending, Reload, history
<1>3. ASSUME NEW w \in Worker, NEW e \in Event, Send(w, e) PROVE AcceptedInv'
  <2> PICK result \in {"ok", "refused"} :
         /\ answer' = [answer EXCEPT ![w] = [event |-> {e}, result |-> result]]
         /\ acks' = [acks EXCEPT ![e] = IF result = "ok" THEN Capped(@, 2) ELSE @]
    BY <1>3 DEF Send
  <2>0. \A n \in 0 .. 2 : Capped(n, 2) \in 1 .. 2 /\ Capped(n, 2) >= n
    BY DEF Capped
  <2>1. /\ acks' \in [Event -> 0 .. 2]
        /\ \A f \in Event : acks[f] > 0 => acks'[f] > 0
    BY <2>0 DEF TypeOK
  <2>2. answer'[w].result = "ok" => acks'[e] > 0
    BY <2>0 DEF TypeOK
  <2>3. \A v \in Worker, f \in Event :
          Sending(v, f)' => (v = w /\ f = e) \/ (v # w /\ Sending(v, f))
    BY <1>3 DEF TypeOK, Send, Sending
  <2>4. \A v \in Worker : v # w => answer'[v] = answer[v]
    BY <1>3 DEF TypeOK, Send
  <2>5. DeliveredWasAccepted'
    BY <1>3, <2>1 DEF TypeOK, AcceptedInv, DeliveredWasAccepted, Send
  <2>6. QED
    BY <2>1, <2>2, <2>3, <2>4, <2>5 DEF TypeOK, AcceptedInv
<1>4. ASSUME NEW w \in Worker, NEW e \in Event, Finish(w, e)
      PROVE  \A v \in Worker, f \in Event :
               Sending(v, f)' => Sending(v, f) /\ answer'[v] = answer[v]
  BY <1>4 DEF TypeOK, Finish, Sending, NoAnswer
<1>5. ASSUME NEW w \in Worker, NEW e \in Event, Record(w, e) PROVE AcceptedInv'
  <2> DEFINE read == loaded[w][e]
             assigned == Outcome(read, answer[w].result)
  <2>1. /\ read \in Row /\ row[e] \in Row
        /\ answer[w].result \in Answer /\ assigned \in Row
    BY OutcomeType DEF TypeOK
  <2>2. row' = [row EXCEPT ![e] = Flush(row[e], read, assigned)] /\ acks' = acks
    BY <1>5 DEF Record, history
  <2>3. assigned.status = "DELIVERED" => acks[e] > 0
    BY <1>5 DEF Record, Outcome, AcceptedInv, Sending
  <2>4. Flush(row[e], read, assigned).status \in {row[e].status, assigned.status}
    BY <2>1, FlushType
  <2>5. DeliveredWasAccepted'
    BY <2>2, <2>3, <2>4 DEF TypeOK, AcceptedInv, DeliveredWasAccepted
  <2>6. Finish(w, e)
    BY <1>5 DEF Record
  <2>7. QED
    BY <1>4, <2>2, <2>5, <2>6 DEF AcceptedInv
<1>6. ASSUME NEW w \in Worker, NEW e \in Event, Raise(w, e) PROVE AcceptedInv'
  <2> DEFINE failed == [status |-> "FAILED", attempts |-> loaded[w][e].attempts + 1,
                        claimed |-> FALSE]
  <2>1. loaded[w][e] \in Row /\ row[e] \in Row /\ failed \in Row
    BY DEF TypeOK, Row, Status
  <2>2. row' = [row EXCEPT ![e] = Flush(row[e], loaded[w][e], failed)]
        /\ acks' = acks
    BY <1>6 DEF Raise
  <2>3. Flush(row[e], loaded[w][e], failed).status \in {row[e].status, "FAILED"}
    BY <2>1, FlushType
  <2>4. DeliveredWasAccepted'
    BY <2>2, <2>3 DEF TypeOK, AcceptedInv, DeliveredWasAccepted
  <2>5. Finish(w, e)
    BY <1>6 DEF Raise
  <2>6. QED
    BY <1>4, <2>2, <2>4, <2>5 DEF AcceptedInv
<1>7. ASSUME NEW w \in Worker, Crash(w) PROVE AcceptedInv'
  BY <1>7 DEF TypeOK, AcceptedInv, DeliveredWasAccepted, Sending, Crash,
              NoAnswer, history
<1>8. ASSUME NEW e \in Event, Publish(e) PROVE AcceptedInv'
  BY <1>8 DEF TypeOK, AcceptedInv, DeliveredWasAccepted, Sending, Publish,
              passes, history
<1>9. ASSUME NEW e \in Event, RedriveRead(e) PROVE AcceptedInv'
  BY <1>9 DEF TypeOK, AcceptedInv, DeliveredWasAccepted, Sending, RedriveRead,
              passes
<1>10. ASSUME NEW e \in Event, RedriveCommit(e) PROVE AcceptedInv'
  <2> DEFINE fresh == [status |-> "PENDING", attempts |-> 0, claimed |-> FALSE]
  <2>1. request[e] \in Row /\ row[e] \in Row /\ fresh \in Row
    BY DEF TypeOK, Row, Status
  <2>2. Flush(row[e], request[e], fresh).status \in {row[e].status, "PENDING"}
    BY <2>1, FlushType
  <2>3. DeliveredWasAccepted'
    BY <1>10, <2>2 DEF TypeOK, AcceptedInv, DeliveredWasAccepted, RedriveCommit,
                       history
  <2>4. QED
    BY <1>10, <2>3 DEF AcceptedInv, Sending, RedriveCommit, passes, history
<1>11. ASSUME NEW e \in Event, BackoffEnds(e) \/ ClaimExpires(e) PROVE AcceptedInv'
  BY <1>11 DEF AcceptedInv, DeliveredWasAccepted, Sending, BackoffEnds,
               ClaimExpires, passes, history
<1>12. CASE UNCHANGED vars
  BY <1>12 DEF AcceptedInv, DeliveredWasAccepted, Sending, vars
<1>13. QED
  BY <1>1, <1>2, <1>3, <1>5, <1>6, <1>7, <1>8, <1>9, <1>10, <1>11, <1>12
     DEF Next, PassStep

LEMMA AcceptedAlways == Spec => []AcceptedInv
<1>1. Init => AcceptedInv
  BY DEF Init, AcceptedInv, DeliveredWasAccepted, Sending, Blank, NoRow
<1>2. QED
  BY <1>1, AcceptedInductive, OutboxTypeCorrect, PTL DEF Spec

(* However passes overlap, crash and overwrite each other, and whenever an *)
(* operator redrives, a DELIVERED row's event was accepted by its endpoint. *)
THEOREM DeliveredIsAccepted == Spec => []DeliveredWasAccepted
<1>1. AcceptedInv => DeliveredWasAccepted
  BY DEF AcceptedInv
<1>2. QED
  BY <1>1, AcceptedAlways, PTL

-----------------------------------------------------------------------------
(* A flush carries over or assigns the attempts and the status together    *)
(* with what covers them.                                                  *)
LEMMA TriedFlush ==
  ASSUME TypeOK, TriedInv, NEW e \in Event, NEW read \in Row, NEW assigned \in Row,
         row' = [row EXCEPT ![e] = Flush(row[e], read, assigned)],
         tries' \in [Event -> 0 .. DeadAfter],
         \A f \in Event : tries'[f] >= tries[f],
         assigned.attempts <= tries'[e] \/ tries'[e] = DeadAfter,
         assigned.status = "DEAD" => assigned.attempts >= DeadAfter
  PROVE  DeadWasTried' /\ \A f \in Event : Covered(f, row[f].attempts)'
<1> USE LimitsAssumption
<1>1. row[e] \in Row
  BY DEF TypeOK
<1>2. /\ Flush(row[e], read, assigned).status \in {row[e].status, assigned.status}
      /\ Flush(row[e], read, assigned).attempts \in {row[e].attempts, assigned.attempts}
  BY <1>1, FlushType
<1>3. \A f \in Event : row[f].attempts \in Nat /\ tries[f] \in 0 .. DeadAfter
  BY DEF TypeOK, Row
<1>4. \A f \in Event : f # e => row'[f] = row[f]
  BY DEF TypeOK
<1>5. row'[e] = Flush(row[e], read, assigned)
  BY DEF TypeOK
<1>6. assigned.attempts \in Nat
  BY DEF Row
<1>7. ASSUME NEW f \in Event PROVE Covered(f, row[f].attempts)'
  BY <1>2, <1>3, <1>4, <1>5, <1>6 DEF TriedInv, Covered
<1>8. assigned.status = "DEAD" => tries'[e] = DeadAfter
  BY <1>6 DEF Covered
<1>9. ASSUME NEW f \in Event, row'[f].status = "DEAD" PROVE tries'[f] = DeadAfter
  <2>1. CASE f # e
    BY <1>3, <1>4, <1>9, <2>1 DEF TriedInv, DeadWasTried
  <2>2. CASE f = e
    BY <1>2, <1>3, <1>5, <1>8, <1>9, <2>2 DEF TriedInv, DeadWasTried
  <2>3. QED
    BY <2>1, <2>2
<1>10. QED
  BY <1>7, <1>9 DEF DeadWasTried

(* Tries only grow, so what covered an attempts column keeps covering it. *)
LEMMA CoveredGrows ==
  ASSUME TypeOK, NEW e \in Event, NEW n \in Nat, Covered(e, n),
         tries' \in [Event -> 0 .. DeadAfter],
         \A f \in Event : tries'[f] >= tries[f]
  PROVE  Covered(e, n)'
BY LimitsAssumption DEF TypeOK, Covered

LEMMA CappedGrows ==
  \A n \in 0 .. DeadAfter :
    /\ Capped(n, DeadAfter) \in 0 .. DeadAfter
    /\ Capped(n, DeadAfter) >= n
    /\ Capped(n, DeadAfter) = n + 1 \/ Capped(n, DeadAfter) = DeadAfter
BY LimitsAssumption DEF Capped

LEMMA TriedInductive == TypeOK /\ TriedInv /\ [Next]_vars => TriedInv'
<1> SUFFICES ASSUME TypeOK, TriedInv, [Next]_vars PROVE TriedInv'
  OBVIOUS
<1> USE LimitsAssumption
<1> DEFINE HeldInv == \A w \in Worker, e \in Event :
                        /\ Covered(e, loaded[w][e].attempts)
                        /\ Sending(w, e) => Covered(e, loaded[w][e].attempts + 1)
           RowInv == DeadWasTried /\ \A e \in Event : Covered(e, row[e].attempts)
<1>0. /\ \A w \in Worker, e \in Event : loaded[w][e] \in Row
      /\ \A e \in Event : row[e] \in Row /\ tries[e] \in 0 .. DeadAfter
      /\ \A r \in Row : r.attempts \in Nat
      /\ NoRow.attempts = 0
  BY DEF TypeOK, Row, NoRow
<1>a. RowInv' /\ HeldInv' => TriedInv'
  BY DEF TriedInv
<1>b. UNCHANGED <<loaded, pc, answer, tries>> => HeldInv'
  BY DEF TriedInv, Covered, Sending
<1>1. ASSUME NEW w \in Worker, NEW S \in SUBSET Event, Claim(w, S) PROVE TriedInv'
  <2>1. /\ tries' = tries /\ loaded' = loaded /\ answer' = answer
        /\ \A e \in Event : row'[e].attempts = row[e].attempts
        /\ \A e \in Event : row'[e].status = "DEAD" => row[e].status = "DEAD"
    BY <1>1 DEF TypeOK, Claim
  <2>2. \A v \in Worker, e \in Event : Sending(v, e)' => Sending(v, e)
    BY <1>1 DEF TypeOK, Claim, Sending
  <2>3. QED
    BY <2>1, <2>2 DEF TriedInv, DeadWasTried, Covered
<1>2. ASSUME NEW w \in Worker, Reload(w) PROVE TriedInv'
  <2>1. /\ tries' = tries /\ row' = row /\ answer' = answer
        /\ \A v \in Worker, e \in Event :
             loaded'[v][e] \in {loaded[v][e], row[e], NoRow}
    BY <1>2 DEF TypeOK, Reload, history
  <2>2. \A v \in Worker, e \in Event : Sending(v, e)' => Sending(v, e) /\ v # w
    BY <1>2 DEF TypeOK, Reload, Sending
  <2>3. \A v \in Worker : v # w => loaded'[v] = loaded[v]
    BY <1>2 DEF TypeOK, Reload
  <2>4. \A e \in Event : Covered(e, 0)
    BY <1>0 DEF Covered
  <2>5. \A v \in Worker, e \in Event : Covered(e, loaded'[v][e].attempts)
    BY <1>0, <2>1, <2>4 DEF TriedInv
  <2>6. \A e \in Event : \A n : Covered(e, n)' <=> Covered(e, n)
    BY <2>1 DEF Covered
  <2>7. RowInv'
    BY <2>1 DEF TriedInv, DeadWasTried, Covered
  <2>8. HeldInv'
    BY <2>2, <2>3, <2>5, <2>1 DEF TriedInv, Covered
  <2>9. QED
    BY <1>a, <2>7, <2>8
<1>3. ASSUME NEW w \in Worker, NEW e \in Event, Send(w, e) PROVE TriedInv'
  <2>1. /\ row' = row /\ loaded' = loaded
        /\ tries' = [tries EXCEPT ![e] = Capped(@, DeadAfter)]
    BY <1>3 DEF Send
  <2>2. /\ tries' \in [Event -> 0 .. DeadAfter]
        /\ \A f \in Event : tries'[f] >= tries[f]
        /\ tries'[e] = tries[e] + 1 \/ tries'[e] = DeadAfter
    BY <2>1, CappedGrows DEF TypeOK
  <2>3. \A v \in Worker, f \in Event :
          Sending(v, f)' => (v = w /\ f = e) \/ (v # w /\ Sending(v, f))
    BY <1>3 DEF TypeOK, Send, Sending
  <2>4. \A f \in Event : DeadAfter <= tries[f] => tries'[f] = DeadAfter
    BY <1>0, <2>2
  <2>5. RowInv'
    BY <1>0, <2>1, <2>2, <2>4, CoveredGrows DEF TriedInv, DeadWasTried
  <2>6. ASSUME NEW v \in Worker, NEW f \in Event
        PROVE  Covered(f, loaded[v][f].attempts)'
    BY <1>0, <2>1, <2>2, CoveredGrows DEF TriedInv, Covered
  <2>7. ASSUME NEW v \in Worker, NEW f \in Event, Sending(v, f)'
        PROVE  Covered(f, loaded[v][f].attempts + 1)'
    <3>1. CASE v = w /\ f = e
      BY <1>0, <2>1, <2>2, <3>1 DEF TriedInv, Covered
    <3>2. CASE v # w /\ Sending(v, f)
      BY <1>0, <2>1, <2>2, <3>2 DEF TriedInv, Covered
    <3>3. QED
      BY <2>3, <2>7, <3>1, <3>2
  <2>8. QED
    BY <1>a, <2>5, <2>6, <2>7
<1>4. ASSUME NEW w \in Worker, NEW e \in Event, Finish(w, e),
             tries' \in [Event -> 0 .. DeadAfter],
             \A f \in Event : tries'[f] >= tries[f]
      PROVE  HeldInv'
  <2>1. \A v \in Worker, f \in Event :
          /\ loaded'[v][f] \in {loaded[v][f], NoRow}
          /\ Sending(v, f)' => Sending(v, f) /\ loaded'[v][f] = loaded[v][f]
    BY <1>4 DEF TypeOK, Finish, Sending, NoAnswer
  <2>2. \A f \in Event : Covered(f, 0)'
    BY <1>4 DEF Covered
  <2>3. ASSUME NEW v \in Worker, NEW f \in Event
        PROVE  Covered(f, loaded[v][f].attempts)'
    <3>1. Covered(f, loaded[v][f].attempts) /\ loaded[v][f].attempts \in Nat
      BY <1>0 DEF TriedInv
    <3>2. CASE loaded'[v][f] = loaded[v][f]
      BY <1>0, <1>4, <3>1, <3>2 DEF Covered
    <3>3. CASE loaded'[v][f] = NoRow
      BY <1>0, <2>2, <3>3 DEF Covered
    <3>4. QED
      BY <2>1, <3>2, <3>3
  <2>4. ASSUME NEW v \in Worker, NEW f \in Event, Sending(v, f)'
        PROVE  Covered(f, loaded[v][f].attempts + 1)'
    <3>1. Sending(v, f) /\ loaded'[v][f] = loaded[v][f]
      BY <2>1, <2>4
    <3>2. Covered(f, loaded[v][f].attempts + 1) /\ loaded[v][f].attempts \in Nat
      BY <1>0, <3>1 DEF TriedInv
    <3>3. QED
      BY <1>0, <1>4, <3>1, <3>2 DEF Covered
  <2>5. QED
    BY <2>3, <2>4
<1>5. ASSUME NEW w \in Worker, NEW e \in Event, Record(w, e) PROVE TriedInv'
  <2> DEFINE read == loaded[w][e]
             assigned == Outcome(read, answer[w].result)
  <2>1. /\ read \in Row /\ answer[w].result \in Answer /\ assigned \in Row
    BY OutcomeType DEF TypeOK
  <2>2. /\ row' = [row EXCEPT ![e] = Flush(row[e], read, assigned)]
        /\ tries' = tries /\ Sending(w, e) /\ Finish(w, e)
    BY <1>5 DEF Record, history, Sending
  <2>3. assigned.attempts = read.attempts + 1
    BY DEF Outcome
  <2>4. assigned.attempts <= tries'[e] \/ tries'[e] = DeadAfter
    BY <2>2, <2>3 DEF TriedInv, Covered
  <2>5. assigned.status = "DEAD" => assigned.attempts >= DeadAfter
    BY DEF Outcome
  <2>6. tries' \in [Event -> 0 .. DeadAfter] /\ \A f \in Event : tries'[f] >= tries[f]
    BY <2>2 DEF TypeOK
  <2> HIDE DEF read, assigned
  <2>7. RowInv'
    BY <2>1, <2>2, <2>4, <2>5, <2>6, TriedFlush
  <2>8. QED
    BY <1>4, <1>a, <2>2, <2>6, <2>7
<1>6. ASSUME NEW w \in Worker, NEW e \in Event, Raise(w, e) PROVE TriedInv'
  <2> DEFINE read == loaded[w][e]
             failed == [status |-> "FAILED", attempts |-> read.attempts + 1,
                        claimed |-> FALSE]
  <2>1. read \in Row /\ failed \in Row /\ failed.attempts = read.attempts + 1
        /\ failed.status # "DEAD"
    BY DEF TypeOK, Row, Status
  <2>2. /\ row' = [row EXCEPT ![e] = Flush(row[e], read, failed)]
        /\ tries' = [tries EXCEPT ![e] = Capped(@, DeadAfter)] /\ Finish(w, e)
    BY <1>6 DEF Raise
  <2>3. /\ tries' \in [Event -> 0 .. DeadAfter]
        /\ \A f \in Event : tries'[f] >= tries[f]
        /\ tries'[e] = tries[e] + 1 \/ tries'[e] = DeadAfter
    BY <2>2, CappedGrows DEF TypeOK
  <2>4. failed.attempts <= tries'[e] \/ tries'[e] = DeadAfter
    BY <1>0, <2>1, <2>3 DEF TriedInv, Covered
  <2> HIDE DEF read, failed
  <2>5. RowInv'
    BY <2>1, <2>2, <2>3, <2>4, TriedFlush
  <2>6. QED
    BY <1>4, <1>a, <2>2, <2>3, <2>5
<1>7. ASSUME NEW w \in Worker, Crash(w) PROVE TriedInv'
  <2>1. /\ row' = row /\ tries' = tries
        /\ \A v \in Worker, f \in Event : loaded'[v][f] \in {loaded[v][f], NoRow}
        /\ \A v \in Worker, f \in Event :
             Sending(v, f)' => Sending(v, f) /\ loaded'[v][f] = loaded[v][f]
    BY <1>7 DEF TypeOK, Crash, Sending, NoAnswer, Blank, history
  <2>2. RowInv'
    BY <2>1 DEF TriedInv, DeadWasTried, Covered
  <2>3. ASSUME NEW v \in Worker, NEW f \in Event
        PROVE  Covered(f, loaded[v][f].attempts)'
    BY <1>0, <2>1 DEF TriedInv, Covered
  <2>4. ASSUME NEW v \in Worker, NEW f \in Event, Sending(v, f)'
        PROVE  Covered(f, loaded[v][f].attempts + 1)'
    BY <2>1, <2>4 DEF TriedInv, Covered
  <2>5. QED
    BY <1>a, <2>2, <2>3, <2>4
<1>8. ASSUME NEW e \in Event, Publish(e) PROVE TriedInv'
  <2>1. /\ tries' = tries
        /\ \A f \in Event : row'[f].attempts \in {row[f].attempts, 0}
        /\ \A f \in Event : row'[f].status = "DEAD" => row[f].status = "DEAD"
    BY <1>8 DEF TypeOK, Publish, history
  <2>2. RowInv'
    BY <1>0, <2>1 DEF TriedInv, DeadWasTried, Covered
  <2>3. QED
    BY <1>8, <1>a, <1>b, <2>2 DEF Publish, passes, history
<1>9. ASSUME NEW e \in Event, RedriveRead(e) PROVE TriedInv'
  <2>1. UNCHANGED <<row, loaded, pc, answer, tries>>
    BY <1>9 DEF RedriveRead, passes
  <2>2. RowInv'
    BY <2>1 DEF TriedInv, DeadWasTried, Covered
  <2>3. QED
    BY <1>a, <1>b, <2>1, <2>2
<1>10. ASSUME NEW e \in Event, RedriveCommit(e) PROVE TriedInv'
  <2> DEFINE fresh == [status |-> "PENDING", attempts |-> 0, claimed |-> FALSE]
  <2>1. request[e] \in Row /\ fresh \in Row /\ fresh.attempts = 0
        /\ fresh.status # "DEAD"
    BY DEF TypeOK, Row, Status
  <2>2. /\ row' = [row EXCEPT ![e] = Flush(row[e], request[e], fresh)]
        /\ UNCHANGED <<loaded, pc, answer, tries>>
    BY <1>10 DEF RedriveCommit, passes, history
  <2>3. tries' \in [Event -> 0 .. DeadAfter] /\ \A f \in Event : tries'[f] >= tries[f]
    BY <2>2 DEF TypeOK
  <2>4. fresh.attempts <= tries'[e] \/ tries'[e] = DeadAfter
    BY <2>1, <2>3
  <2> HIDE DEF fresh
  <2>5. RowInv'
    BY <2>1, <2>2, <2>3, <2>4, TriedFlush
  <2>6. QED
    BY <1>a, <1>b, <2>2, <2>5
<1>11. ASSUME NEW e \in Event, BackoffEnds(e) \/ ClaimExpires(e) PROVE TriedInv'
  <2>1. UNCHANGED <<row, loaded, pc, answer, tries>>
    BY <1>11 DEF BackoffEnds, ClaimExpires, passes, history
  <2>2. RowInv'
    BY <2>1 DEF TriedInv, DeadWasTried, Covered
  <2>3. QED
    BY <1>a, <1>b, <2>1, <2>2
<1>12. CASE UNCHANGED vars
  <2>1. RowInv'
    BY <1>12 DEF TriedInv, DeadWasTried, Covered, vars
  <2>2. QED
    BY <1>12, <1>a, <1>b, <2>1 DEF vars
<1>13. QED
  BY <1>1, <1>2, <1>3, <1>5, <1>6, <1>7, <1>8, <1>9, <1>10, <1>11, <1>12
     DEF Next, PassStep

LEMMA TriedAlways == Spec => []TriedInv
<1>1. Init => TriedInv
  BY LimitsAssumption
     DEF Init, TriedInv, DeadWasTried, Covered, Sending, Blank, NoRow
<1>2. QED
  BY <1>1, TriedInductive, OutboxTypeCorrect, PTL DEF Spec

(* No event is declared DEAD before the whole budget of tries was spent on *)
(* it, even when overlapping passes and redrives lose attempt counts.      *)
THEOREM DeadIsTried == Spec => []DeadWasTried
<1>1. TriedInv => DeadWasTried
  BY DEF TriedInv
<1>2. QED
  BY <1>1, TriedAlways, PTL

-----------------------------------------------------------------------------
(* The next two lemmas: a row keeps its owner through a step that leaves   *)
(* it alone, and a pass that finishes a row leaves the others alone.       *)
LEMMA OwnedKept ==
  ASSUME NEW e \in Event, Owned(e),
         row'[e] = row[e], acks'[e] = acks[e],
         \A w \in Worker : e \in todo'[w] =>
           /\ e \in todo[w] /\ loaded'[w][e] = loaded[w][e]
           /\ pc[w] = "claimed" => pc'[w] = "claimed"
           /\ Sending(w, e) => Sending(w, e)' /\ answer'[w] = answer[w]
  PROVE  Owned(e)'
BY DEF Owned, HeldBy

LEMMA FinishKeeps ==
  ASSUME TypeOK, NEW w \in Worker, NEW e \in Event, Finish(w, e),
         pc[w] # "claimed", \A f \in Event : Sending(w, f) => f = e,
         \A v \in Worker, f \in Event :
           Sending(v, f) => f \in todo[v] /\ answer[v].event = {f}
  PROVE  /\ \A v \in Worker, f \in Event : f \in todo'[v] =>
              /\ f \in todo[v] /\ <<v, f>> # <<w, e>>
              /\ loaded'[v][f] = loaded[v][f]
              /\ pc[v] = "claimed" => pc'[v] = "claimed"
              /\ Sending(v, f) => Sending(v, f)' /\ answer'[v] = answer[v]
         /\ \A v \in Worker, f \in Event :
              Sending(v, f)' => f \in todo'[v] /\ answer'[v].event = {f}
<1>1. \A v \in Worker : v # w => /\ pc'[v] = pc[v] /\ answer'[v] = answer[v]
                                 /\ todo'[v] = todo[v] /\ loaded'[v] = loaded[v]
  BY DEF TypeOK, Finish
<1>2. /\ todo'[w] = todo[w] \ {e} /\ pc'[w] # "answered"
      /\ \A f \in Event : f # e => loaded'[w][f] = loaded[w][f]
  BY DEF TypeOK, Finish
<1>3. \A f \in Event : ~Sending(w, f)'
  BY <1>2 DEF Sending
<1>4. \A v \in Worker, f \in Event : v # w => (Sending(v, f)' <=> Sending(v, f))
  BY <1>1 DEF Sending
<1>5. ASSUME NEW v \in Worker, NEW f \in Event, f \in todo'[v]
      PROVE  /\ f \in todo[v] /\ <<v, f>> # <<w, e>>
             /\ loaded'[v][f] = loaded[v][f]
             /\ pc[v] = "claimed" => pc'[v] = "claimed"
             /\ Sending(v, f) => Sending(v, f)' /\ answer'[v] = answer[v]
  <2>1. CASE v = w
    BY <1>2, <1>5, <2>1
  <2>2. CASE v # w
    BY <1>1, <1>4, <1>5, <2>2
  <2>3. QED
    BY <2>1, <2>2
<1>6. \A v \in Worker, f \in Event :
        Sending(v, f)' => f \in todo'[v] /\ answer'[v].event = {f}
  BY <1>1, <1>3, <1>4
<1>7. QED
  BY <1>5, <1>6

(* The parts of OwnedInv that speak of every row, taken over or not.       *)
LEMMA OwnedFrame ==
  ASSUME OwnedInv,
         \A v \in Worker, f \in Event :
           Sending(v, f)' => f \in todo'[v] /\ answer'[v].event = {f},
         \A f \in Event : row[f].status # "ABSENT" => row'[f].status # "ABSENT",
         \A f \in Event : request'[f] # NoRow =>
           f \in redriven' /\ row'[f].status # "ABSENT",
         \A v \in Worker, f \in Event :
           f \in todo'[v] => f \in todo[v] \/ row'[f].status # "ABSENT",
         \A f \in Event \ (reclaimed' \cup redriven') : Owned(f)'
  PROVE  OwnedInv'
BY DEF OwnedInv

LEMMA OwnedInductive == TypeOK /\ OwnedInv /\ [Next]_vars => OwnedInv'
<1> SUFFICES ASSUME TypeOK, OwnedInv, [Next]_vars PROVE OwnedInv'
  OBVIOUS
<1> DEFINE Free == Event \ (reclaimed \cup redriven)
           Free2 == Event \ (reclaimed' \cup redriven')
<1>a. /\ \A e \in Free : Owned(e)
      /\ \A w \in Worker, e \in Event :
           Sending(w, e) => e \in todo[w] /\ answer[w].event = {e}
      /\ \A e \in Event : request[e] # NoRow => e \in redriven /\ row[e].status # "ABSENT"
      /\ \A w \in Worker, e \in Event : e \in todo[w] => row[e].status # "ABSENT"
  BY DEF OwnedInv
<1>1. ASSUME NEW w \in Worker, NEW S \in SUBSET Event, Claim(w, S) PROVE OwnedInv'
  <2>1. /\ \A e \in S : row'[e].status = "DELIVERING" /\ row'[e].claimed
        /\ \A e \in Event \ S : row'[e] = row[e]
        /\ acks' = acks /\ loaded' = loaded /\ answer' = answer
        /\ request' = request /\ redriven' = redriven
        /\ reclaimed' = reclaimed \cup (S \cap expired)
        /\ todo'[w] = S /\ pc'[w] = "claimed"
        /\ \A v \in Worker : v # w => todo'[v] = todo[v] /\ pc'[v] = pc[v]
        /\ \A v \in Worker : v # w => \A e \in Event : Sending(v, e)' <=> Sending(v, e)
        /\ \A e \in Event : ~Sending(w, e)'
    BY <1>1 DEF TypeOK, Claim, Sending
  <2>2. ASSUME NEW e \in Free2, e \in S PROVE Owned(e)'
    <3>1. e \in Free /\ row[e].status \in {"PENDING", "FAILED"}
      BY <1>1, <2>1, <2>2 DEF Claim, Claimable
    <3>2. acks[e] = 0 /\ \A v \in Worker : e \notin todo[v]
      BY <1>a, <3>1 DEF Owned, HeldBy
    <3>3. \A v \in Worker : e \in todo'[v] => v = w
      BY <2>1, <3>2
    <3>4. QED
      BY <2>1, <2>2, <3>2, <3>3 DEF Owned, HeldBy
  <2>3. ASSUME NEW e \in Free2, e \notin S PROVE Owned(e)'
    BY <1>a, <2>1, <2>3, OwnedKept
  <2>4. \A v \in Worker, e \in Event :
          Sending(v, e)' => e \in todo'[v] /\ answer'[v].event = {e}
    BY <1>a, <2>1
  <2>5. QED
    BY <1>a, <2>1, <2>2, <2>3, <2>4, OwnedFrame
<1>2. ASSUME NEW w \in Worker, Reload(w) PROVE OwnedInv'
  <2>1. /\ row' = row /\ acks' = acks /\ todo' = todo /\ answer' = answer
        /\ request' = request /\ redriven' = redriven /\ reclaimed' = reclaimed
        /\ pc[w] = "claimed" /\ pc'[w] = "sending"
        /\ \A e \in todo[w] : loaded'[w][e] = row[e]
        /\ \A v \in Worker : v # w => loaded'[v] = loaded[v] /\ pc'[v] = pc[v]
        /\ \A v \in Worker : v # w => \A e \in Event : Sending(v, e)' <=> Sending(v, e)
        /\ \A e \in Event : ~Sending(w, e) /\ ~Sending(w, e)'
    BY <1>2 DEF TypeOK, Reload, Sending, history
  <2>2. ASSUME NEW e \in Free2 PROVE Owned(e)'
    <3>1. Owned(e)
      BY <1>a, <2>1
    <3>2. ASSUME NEW v \in Worker, e \in todo'[v] PROVE HeldBy(v, e)'
      BY <2>1, <3>1, <3>2 DEF Owned, HeldBy
    <3>3. QED
      BY <2>1, <3>1, <3>2 DEF Owned
  <2>3. \A v \in Worker, e \in Event :
          Sending(v, e)' => e \in todo'[v] /\ answer'[v].event = {e}
    BY <1>a, <2>1
  <2>4. QED
    BY <1>a, <2>1, <2>2, <2>3, OwnedFrame
<1>3. ASSUME NEW w \in Worker, NEW e \in Event, Send(w, e) PROVE OwnedInv'
  <2> PICK result \in {"ok", "refused"} :
         /\ answer' = [answer EXCEPT ![w] = [event |-> {e}, result |-> result]]
         /\ acks' = [acks EXCEPT ![e] = IF result = "ok" THEN Capped(@, 2) ELSE @]
    BY <1>3 DEF Send
  <2>1. /\ row' = row /\ todo' = todo /\ loaded' = loaded
        /\ request' = request /\ redriven' = redriven /\ reclaimed' = reclaimed
        /\ pc[w] = "sending" /\ pc'[w] = "answered" /\ e \in todo[w]
        /\ answer'[w].result = result /\ answer'[w].event = {e} /\ Sending(w, e)'
        /\ \A f \in Event : f # e => acks'[f] = acks[f] /\ ~Sending(w, f)'
        /\ \A f \in Event : ~Sending(w, f)
        /\ \A v \in Worker : v # w => answer'[v] = answer[v] /\ pc'[v] = pc[v]
        /\ \A v \in Worker : v # w => \A f \in Event : Sending(v, f)' <=> Sending(v, f)
    BY <1>3 DEF TypeOK, Send, Sending
  <2>2. ASSUME NEW f \in Free2, f # e PROVE Owned(f)'
    BY <1>a, <2>1, <2>2, OwnedKept
  <2>3. ASSUME e \in Free2 PROVE Owned(e)'
    <3>1. Owned(e) /\ HeldBy(w, e) /\ acks[e] = 0
      BY <1>a, <2>1, <2>3 DEF Owned, HeldBy
    <3>2. acks'[e] = IF result = "ok" THEN 1 ELSE 0
      BY <3>1 DEF TypeOK, Capped
    <3>3. \A v \in Worker : e \in todo'[v] => v = w
      BY <2>1, <3>1 DEF HeldBy
    <3>4. HeldBy(w, e)'
      BY <2>1, <3>1, <3>2, <3>3 DEF HeldBy
    <3>5. QED
      BY <2>1, <3>1, <3>2, <3>3, <3>4 DEF Owned, HeldBy
  <2>4. \A v \in Worker, f \in Event :
          Sending(v, f)' => f \in todo'[v] /\ answer'[v].event = {f}
    BY <1>a, <2>1
  <2>5. QED
    BY <1>a, <2>1, <2>2, <2>3, <2>4, OwnedFrame
<1>4. ASSUME NEW w \in Worker, NEW e \in Event, Record(w, e) PROVE OwnedInv'
  <2> DEFINE read == loaded[w][e]
             assigned == Outcome(read, answer[w].result)
  <2>1. /\ row' = [row EXCEPT ![e] = Flush(row[e], read, assigned)]
        /\ acks' = acks /\ Finish(w, e) /\ Sending(w, e) /\ pc[w] # "claimed"
        /\ request' = request /\ redriven' = redriven /\ reclaimed' = reclaimed
    BY <1>4 DEF Record, Sending, history
  <2>2. \A f \in Event : Sending(w, f) => f = e
    BY <1>a, <2>1
  <2>3. /\ \A v \in Worker, f \in Event : f \in todo'[v] =>
             /\ f \in todo[v] /\ <<v, f>> # <<w, e>>
             /\ loaded'[v][f] = loaded[v][f]
             /\ pc[v] = "claimed" => pc'[v] = "claimed"
             /\ Sending(v, f) => Sending(v, f)' /\ answer'[v] = answer[v]
        /\ \A v \in Worker, f \in Event :
             Sending(v, f)' => f \in todo'[v] /\ answer'[v].event = {f}
    BY <1>a, <2>1, <2>2, FinishKeeps
  <2>4. /\ read \in Row /\ row[e] \in Row /\ answer[w].result \in Answer
        /\ assigned \in Row
    BY OutcomeType DEF TypeOK
  <2>5. assigned.status \in {"DELIVERED", "DEAD", "FAILED"} /\ ~assigned.claimed
        /\ (assigned.status = "DELIVERED" <=> answer[w].result = "ok")
    BY DEF Outcome
  <2> HIDE DEF read, assigned
  <2>6. /\ row'[e] = Flush(row[e], read, assigned)
        /\ \A f \in Event : f # e => row'[f] = row[f]
    BY <2>1 DEF TypeOK
  <2>7. row'[e].status \in {row[e].status, "DELIVERED", "DEAD", "FAILED"}
    BY <2>4, <2>5, <2>6, FlushType
  <2>8. ASSUME NEW f \in Free2, f # e PROVE Owned(f)'
    BY <1>a, <2>1, <2>3, <2>6, <2>8, OwnedKept
  <2>9. ASSUME e \in Free2 PROVE Owned(e)'
    <3>1. Owned(e) /\ HeldBy(w, e)
      BY <1>a, <2>1, <2>9 DEF Owned
    <3>2. row[e] = read /\ row[e].status = "DELIVERING" /\ acks[e] <= 1
          /\ (acks[e] = 0 \/ answer[w].result = "ok")
      BY <2>1, <3>1 DEF HeldBy, Owned, read
    <3>3. row'[e].status = assigned.status
      BY <2>5, <2>6, <3>2 DEF Flush, Column
    <3>4. \A v \in Worker : e \notin todo'[v]
      BY <2>3, <3>1 DEF HeldBy
    <3>5. QED
      BY <2>1, <2>5, <3>2, <3>3, <3>4 DEF Owned
  <2>10. QED
    BY <1>a, <2>1, <2>3, <2>6, <2>7, <2>8, <2>9, OwnedFrame
<1>5. ASSUME NEW w \in Worker, NEW e \in Event, Raise(w, e) PROVE OwnedInv'
  <2> DEFINE read == loaded[w][e]
             failed == [status |-> "FAILED", attempts |-> read.attempts + 1,
                        claimed |-> FALSE]
  <2>1. /\ row' = [row EXCEPT ![e] = Flush(row[e], read, failed)]
        /\ acks' = acks /\ Finish(w, e) /\ pc[w] = "sending" /\ e \in todo[w]
        /\ request' = request /\ redriven' = redriven /\ reclaimed' = reclaimed
    BY <1>5 DEF Raise
  <2>2. \A f \in Event : ~Sending(w, f)
    BY <2>1 DEF Sending
  <2>3. /\ \A v \in Worker, f \in Event : f \in todo'[v] =>
             /\ f \in todo[v] /\ <<v, f>> # <<w, e>>
             /\ loaded'[v][f] = loaded[v][f]
             /\ pc[v] = "claimed" => pc'[v] = "claimed"
             /\ Sending(v, f) => Sending(v, f)' /\ answer'[v] = answer[v]
        /\ \A v \in Worker, f \in Event :
             Sending(v, f)' => f \in todo'[v] /\ answer'[v].event = {f}
    BY <1>a, <2>1, <2>2, FinishKeeps
  <2>4. read \in Row /\ row[e] \in Row /\ failed \in Row
    BY DEF TypeOK, Row, Status
  <2>5. failed.status = "FAILED"
    OBVIOUS
  <2> HIDE DEF read, failed
  <2>6. /\ row'[e] = Flush(row[e], read, failed)
        /\ \A f \in Event : f # e => row'[f] = row[f]
    BY <2>1 DEF TypeOK
  <2>7. row'[e].status \in {row[e].status, "FAILED"}
    BY <2>4, <2>5, <2>6, FlushType
  <2>8. ASSUME NEW f \in Free2, f # e PROVE Owned(f)'
    BY <1>a, <2>1, <2>3, <2>6, <2>8, OwnedKept
  <2>9. ASSUME e \in Free2 PROVE Owned(e)'
    <3>1. Owned(e) /\ HeldBy(w, e)
      BY <1>a, <2>1, <2>9 DEF Owned
    <3>2. row[e] = read /\ row[e].status = "DELIVERING" /\ acks[e] = 0
      BY <2>1, <2>2, <3>1 DEF HeldBy, read
    <3>3. row'[e].status = "FAILED"
      BY <2>5, <2>6, <3>2 DEF Flush, Column
    <3>4. \A v \in Worker : e \notin todo'[v]
      BY <2>3, <3>1 DEF HeldBy
    <3>5. QED
      BY <2>1, <3>2, <3>3, <3>4 DEF Owned
  <2>10. QED
    BY <1>a, <2>1, <2>3, <2>6, <2>7, <2>8, <2>9, OwnedFrame
<1>6. ASSUME NEW w \in Worker, Crash(w) PROVE OwnedInv'
  <2>1. /\ row' = row /\ acks' = acks /\ request' = request
        /\ redriven' = redriven /\ reclaimed' = reclaimed
        /\ todo'[w] = {} /\ pc'[w] = "idle"
        /\ \A v \in Worker : v # w => /\ pc'[v] = pc[v] /\ answer'[v] = answer[v]
                                      /\ todo'[v] = todo[v] /\ loaded'[v] = loaded[v]
    BY <1>6 DEF TypeOK, Crash, history
  <2>2. /\ \A f \in Event : ~Sending(w, f)'
        /\ \A v \in Worker, f \in Event : v # w => (Sending(v, f)' <=> Sending(v, f))
    BY <2>1 DEF Sending
  <2>3. ASSUME NEW f \in Free2 PROVE Owned(f)'
    BY <1>a, <2>1, <2>2, OwnedKept
  <2>4. \A v \in Worker, f \in Event :
          Sending(v, f)' => f \in todo'[v] /\ answer'[v].event = {f}
    BY <1>a, <2>1, <2>2
  <2>5. QED
    BY <1>a, <2>1, <2>3, <2>4, OwnedFrame
<1>7. ASSUME UNCHANGED <<passes, acks, reclaimed>>,
             \A f \in Event \ (reclaimed' \cup redriven') :
               f \in Free /\ (Owned(f) => Owned(f)'),
             \A f \in Event : row[f].status # "ABSENT" => row'[f].status # "ABSENT",
             \A f \in Event : request'[f] # NoRow =>
               f \in redriven' /\ row'[f].status # "ABSENT"
      PROVE  OwnedInv'
  <2>1. \A v \in Worker, f \in Event :
          Sending(v, f)' => f \in todo'[v] /\ answer'[v].event = {f}
    BY <1>a, <1>7 DEF passes, Sending
  <2>2. QED
    BY <1>a, <1>7, <2>1, OwnedFrame DEF passes
<1>8. ASSUME NEW e \in Event, UNCHANGED <<passes, acks>>, row'[e] = row[e], Owned(e)
      PROVE  Owned(e)'
  BY <1>8 DEF Owned, HeldBy, Sending, passes
<1>9. ASSUME NEW e \in Event, Publish(e) PROVE OwnedInv'
  <2>1. /\ UNCHANGED <<passes, acks, reclaimed, redriven, request>>
        /\ row[e].status = "ABSENT" /\ row'[e].status = "PENDING"
        /\ \A f \in Event : f # e => row'[f] = row[f]
    BY <1>9 DEF TypeOK, Publish, history, passes
  <2>2. ASSUME Owned(e) PROVE Owned(e)'
    BY <2>1, <2>2 DEF Owned, HeldBy, passes
  <2>3. QED
    BY <1>a, <1>7, <1>8, <2>1, <2>2
<1>10. ASSUME NEW e \in Event, RedriveRead(e) PROVE OwnedInv'
  <2>1. /\ UNCHANGED <<passes, acks, reclaimed, row>>
        /\ redriven' = redriven \cup {e} /\ row[e].status # "ABSENT"
        /\ \A f \in Event : f # e => request'[f] = request[f]
    BY <1>10 DEF TypeOK, RedriveRead
  <2>2. QED
    BY <1>a, <1>7, <1>8, <2>1
<1>11. ASSUME NEW e \in Event, RedriveCommit(e) PROVE OwnedInv'
  <2> DEFINE fresh == [status |-> "PENDING", attempts |-> 0, claimed |-> FALSE]
  <2>1. request[e] \in Row /\ row[e] \in Row /\ fresh \in Row
    BY DEF TypeOK, Row, Status
  <2>2. /\ UNCHANGED <<passes, acks, reclaimed, redriven>>
        /\ row'[e] = Flush(row[e], request[e], fresh)
        /\ \A f \in Event : f # e => row'[f] = row[f] /\ request'[f] = request[f]
        /\ request[e] # NoRow /\ request'[e] = NoRow
    BY <1>11 DEF TypeOK, RedriveCommit, history
  <2>3. row'[e].status \in {row[e].status, "PENDING"}
    BY <2>1, <2>2, FlushType
  <2>4. e \in redriven /\ row[e].status # "ABSENT"
    BY <1>a, <2>2
  <2>5. \A f \in Event \ (reclaimed' \cup redriven') :
          f \in Free /\ (Owned(f) => Owned(f)')
    BY <1>8, <2>2, <2>4
  <2>6. QED
    BY <1>a, <1>7, <2>2, <2>3, <2>4, <2>5
<1>12. ASSUME NEW e \in Event, BackoffEnds(e) \/ ClaimExpires(e) PROVE OwnedInv'
  <2>1. UNCHANGED <<passes, acks, reclaimed, redriven, request, row>>
    BY <1>12 DEF BackoffEnds, ClaimExpires, history
  <2>2. QED
    BY <1>a, <1>7, <1>8, <2>1
<1>13. CASE UNCHANGED vars
  <2>1. UNCHANGED <<passes, acks, reclaimed, redriven, request, row>>
    BY <1>13 DEF vars, passes
  <2>2. QED
    BY <1>a, <1>7, <1>8, <2>1
<1>14. QED
  BY <1>1, <1>2, <1>3, <1>4, <1>5, <1>6, <1>9, <1>10, <1>11, <1>12, <1>13
     DEF Next, PassStep

(* A row that nobody took over has one owner in every reachable state.     *)
LEMMA OwnedAlways == Spec => []OwnedInv
<1>1. Init => OwnedInv
  BY DEF Init, OwnedInv, Owned, HeldBy, Sending, Blank, NoRow
<1>2. QED
  BY <1>1, OwnedInductive, OutboxTypeCorrect, PTL DEF Spec

(* However passes overlap and crash, an endpoint accepts an event twice    *)
(* only if a claim on it timed out or an operator redrove it.              *)
THEOREM OneDelivery == Spec => []OneDeliveryUnlessTakenOver
<1>1. OwnedInv => OneDeliveryUnlessTakenOver
  BY DEF OwnedInv, Owned, OneDeliveryUnlessTakenOver
<1>2. QED
  BY <1>1, OwnedAlways, PTL

(* A DELIVERING row that nobody took over still carries the claim that the *)
(* timeout needs, so the row of a dead pass is claimed again.              *)
THEOREM Reclaimable == Spec => []ReclaimableUnlessTakenOver
<1>1. OwnedInv => ReclaimableUnlessTakenOver
  BY DEF OwnedInv, Owned, ReclaimableUnlessTakenOver
<1>2. QED
  BY <1>1, OwnedAlways, PTL

-----------------------------------------------------------------------------
(* The rows implement OutboxContract: every step is one of the contract's  *)
(* or leaves what the contract sees as it is.                              *)
LEMMA AbstractFrame ==
  ASSUME TypeOK, NEW e \in Event, NEW r \in Row, row' = [row EXCEPT ![e] = r]
  PROVE  AbstractState' = [AbstractState EXCEPT ![e] = AbstractState'[e]]
BY DEF TypeOK, AbstractState

LEMMA AbstractType ==
  ASSUME TypeOK
  PROVE  \A e \in Event :
           /\ AbstractState[e] \in Contract!State
           /\ AbstractState[e] = "absent" <=> row[e].status = "ABSENT"
           /\ AbstractState[e] = "delivered" <=> row[e].status = "DELIVERED"
           /\ AbstractState[e] = "dead" <=> row[e].status = "DEAD"
BY DEF TypeOK, Row, Status, AbstractState, Contract!State

(* What the table says of a row becomes an outcome the contract may report *)
(* when the tries and acceptances are there and nobody owned the outcome.  *)
LEMMA ReportStep ==
  ASSUME TypeOK, TypeOK', DeliveredWasAccepted', DeadWasTried',
         NEW e \in Event, NEW r \in Row, row' = [row EXCEPT ![e] = r],
         UNCHANGED <<tries, acks, reclaimed, redriven>>,
         row[e].status # "ABSENT", row'[e].status # "ABSENT",
         e \notin reclaimed \cup redriven => row[e].status = "DELIVERING"
  PROVE  Contract!Report(e)
<1>1. AbstractState' = [AbstractState EXCEPT ![e] = AbstractState'[e]]
  BY AbstractFrame
<1>2. /\ AbstractState[e] # "absent"
      /\ e \notin reclaimed \cup redriven => AbstractState[e] \notin {"delivered", "dead"}
  BY AbstractType
<1>3. /\ AbstractState'[e] \in Contract!State \ {"absent"}
      /\ AbstractState'[e] = "delivered" => acks[e] > 0
      /\ AbstractState'[e] = "dead" => tries[e] = DeadAfter
  <2>1. AbstractState'[e] \in {"absent", "open", "delivered", "dead"}
        /\ (AbstractState'[e] = "absent" => row'[e].status = "ABSENT")
        /\ (AbstractState'[e] = "delivered" => row'[e].status = "DELIVERED")
        /\ (AbstractState'[e] = "dead" => row'[e].status = "DEAD")
    BY DEF AbstractState
  <2>2. QED
    BY <2>1 DEF DeliveredWasAccepted, DeadWasTried, Contract!State
<1>4. UNCHANGED <<tries, {f \in Event : acks[f] > 0}, reclaimed \cup redriven>>
  OBVIOUS
<1>5. QED
  BY <1>1, <1>2, <1>3, <1>4 DEF Contract!Report

LEMMA ContractStep ==
  TypeOK /\ TypeOK' /\ AcceptedInv' /\ TriedInv' /\ OwnedInv /\ [Next]_vars
    => [Contract!Next]_Contract!vars
<1> SUFFICES ASSUME TypeOK, TypeOK', AcceptedInv', TriedInv', OwnedInv, [Next]_vars
             PROVE  [Contract!Next]_Contract!vars
  OBVIOUS
<1> DEFINE Excused == reclaimed \cup redriven
<1>0. DeliveredWasAccepted' /\ DeadWasTried'
  BY DEF AcceptedInv, TriedInv
<1>a. ASSUME UNCHANGED <<row, tries, acks, reclaimed, redriven>>
      PROVE  UNCHANGED Contract!vars
  BY <1>a DEF Contract!vars, AbstractState
<1>1. ASSUME NEW w \in Worker, NEW S \in SUBSET Event, Claim(w, S)
      PROVE  Contract!Excuse(S \cap expired)
  <2>1. AbstractState' = AbstractState
    BY <1>1 DEF TypeOK, Claim, Claimable, AbstractState
  <2>2. QED
    BY <1>1, <2>1 DEF Claim, Contract!Excuse
<1>2. ASSUME NEW w \in Worker, Reload(w) PROVE UNCHANGED Contract!vars
  BY <1>2, <1>a DEF Reload, history
<1>3. ASSUME NEW w \in Worker, NEW e \in Event, Send(w, e) PROVE Contract!Try(e)
  <2>1. row[e].status # "ABSENT"
    BY <1>3 DEF Send, OwnedInv
  <2>2. AbstractState' = AbstractState /\ AbstractState[e] # "absent"
    BY <1>3, <2>1, AbstractType DEF Send, AbstractState
  <2>3. PICK result \in {"ok", "refused"} :
          acks' = [acks EXCEPT ![e] = IF result = "ok" THEN Capped(@, 2) ELSE @]
    BY <1>3 DEF Send
  <2>4. \A n \in 0 .. 2 : Capped(n, 2) \in 1 .. 2
    BY DEF Capped
  <2>5. acks \in [Event -> 0 .. 2]
    BY DEF TypeOK
  <2>6. {f \in Event : acks'[f] > 0} \in
          {{f \in Event : acks[f] > 0}, {f \in Event : acks[f] > 0} \cup {e}}
    <3>1. CASE result = "ok"
      <4>1. \A f \in Event : acks'[f] > 0 <=> acks[f] > 0 \/ f = e
        BY <2>3, <2>4, <2>5, <3>1
      <4>2. QED
        BY <4>1
    <3>2. CASE result # "ok"
      <4>1. \A f \in Event : acks'[f] = acks[f]
        BY <2>3, <2>5, <3>2
      <4>2. QED
        BY <4>1
    <3>3. QED
      BY <3>1, <3>2
  <2>7. UNCHANGED <<AbstractState, Excused>>
        /\ tries' = [tries EXCEPT ![e] = IF @ < DeadAfter THEN @ + 1 ELSE @]
    BY <1>3, <2>2 DEF Send, Capped
  <2>8. QED
    BY <2>2, <2>6, <2>7 DEF Contract!Try
<1>4. ASSUME NEW w \in Worker, NEW e \in Event, Record(w, e) PROVE Contract!Report(e)
  <2> DEFINE read == loaded[w][e]
             assigned == Outcome(read, answer[w].result)
  <2>1. /\ read \in Row /\ row[e] \in Row /\ answer[w].result \in Answer
        /\ assigned \in Row
    BY OutcomeType DEF TypeOK
  <2>2. assigned.status # "ABSENT"
    BY DEF Outcome
  <2>3. /\ row' = [row EXCEPT ![e] = Flush(row[e], read, assigned)]
        /\ UNCHANGED <<tries, acks, reclaimed, redriven>> /\ Sending(w, e)
    BY <1>4 DEF Record, Sending, history
  <2>4. e \in todo[w] /\ row[e].status # "ABSENT"
    BY <2>3 DEF OwnedInv
  <2>5. e \notin Excused => row[e].status = "DELIVERING"
    BY <2>4 DEF OwnedInv, Owned, HeldBy
  <2> HIDE DEF read, assigned
  <2>6. Flush(row[e], read, assigned) \in Row
        /\ Flush(row[e], read, assigned).status # "ABSENT"
    BY <2>1, <2>2, <2>4, FlushType
  <2>7. row'[e].status # "ABSENT"
    BY <2>3, <2>6 DEF TypeOK
  <2>8. QED
    BY <1>0, <2>3, <2>4, <2>5, <2>6, <2>7, ReportStep
<1>5. ASSUME NEW w \in Worker, NEW e \in Event, Raise(w, e)
      PROVE  Contract!FailAndRecord(e)
  <2> DEFINE read == loaded[w][e]
             failed == [status |-> "FAILED", attempts |-> read.attempts + 1,
                        claimed |-> FALSE]
  <2>1. read \in Row /\ row[e] \in Row /\ failed \in Row
    BY DEF TypeOK, Row, Status
  <2>2. failed.status = "FAILED"
    OBVIOUS
  <2>3. /\ row' = [row EXCEPT ![e] = Flush(row[e], read, failed)]
        /\ UNCHANGED <<acks, reclaimed, redriven>> /\ e \in todo[w]
        /\ tries' = [tries EXCEPT ![e] = Capped(@, DeadAfter)]
    BY <1>5 DEF Raise
  <2>4. row[e].status # "ABSENT"
    BY <2>3 DEF OwnedInv
  <2>5. e \notin Excused => row[e].status = "DELIVERING"
    BY <2>3 DEF OwnedInv, Owned, HeldBy
  <2> HIDE DEF read, failed
  <2>6. Flush(row[e], read, failed) \in Row
        /\ Flush(row[e], read, failed).status \in {row[e].status, "FAILED"}
    BY <2>1, <2>2, FlushType
  <2>7. AbstractState' = [AbstractState EXCEPT ![e] = AbstractState'[e]]
    BY <2>3, <2>6, AbstractFrame
  <2>8. AbstractState'[e] \in {AbstractState[e], "open"}
    <3>1. row'[e].status \in {row[e].status, "FAILED"}
      BY <2>3, <2>6 DEF TypeOK
    <3>2. QED
      BY <3>1 DEF AbstractState
  <2>9. AbstractState' \in {AbstractState, [AbstractState EXCEPT ![e] = "open"]}
    <3>1. AbstractState = [f \in Event |-> AbstractState[f]]
      BY DEF AbstractState
    <3>2. QED
      BY <2>7, <2>8, <3>1
  <2>10. /\ AbstractState[e] # "absent"
         /\ e \notin Excused => AbstractState[e] \notin {"delivered", "dead"}
    BY <2>4, <2>5, AbstractType
  <2>11. UNCHANGED <<{f \in Event : acks[f] > 0}, Excused>>
         /\ tries' = [tries EXCEPT ![e] = IF @ < DeadAfter THEN @ + 1 ELSE @]
    BY <2>3 DEF Capped
  <2>12. QED
    BY <2>9, <2>10, <2>11 DEF Contract!FailAndRecord
<1>6. ASSUME NEW w \in Worker, Crash(w) PROVE UNCHANGED Contract!vars
  BY <1>6, <1>a DEF Crash, history
<1>7. ASSUME NEW e \in Event, Publish(e) PROVE Contract!Queue(e)
  <2> DEFINE fresh == [status |-> "PENDING", attempts |-> 0, claimed |-> FALSE]
  <2>1. /\ row' = [row EXCEPT ![e] = fresh] /\ row[e].status = "ABSENT"
        /\ UNCHANGED <<tries, acks, reclaimed, redriven>>
    BY <1>7 DEF Publish, history
  <2>2. AbstractState' = [AbstractState EXCEPT ![e] = "open"]
    BY <2>1 DEF TypeOK, AbstractState
  <2>3. AbstractState[e] = "absent"
    BY <2>1, AbstractType
  <2>4. QED
    BY <2>1, <2>2, <2>3 DEF Contract!Queue
<1>8. ASSUME NEW e \in Event, RedriveRead(e) PROVE Contract!Excuse({e})
  <2>1. UNCHANGED AbstractState
    BY <1>8 DEF RedriveRead, AbstractState
  <2>2. QED
    BY <1>8, <2>1 DEF RedriveRead, Contract!Excuse
<1>9. ASSUME NEW e \in Event, RedriveCommit(e) PROVE Contract!Report(e)
  <2> DEFINE fresh == [status |-> "PENDING", attempts |-> 0, claimed |-> FALSE]
  <2>1. request[e] \in Row /\ row[e] \in Row /\ fresh \in Row
    BY DEF TypeOK, Row, Status
  <2>2. /\ row' = [row EXCEPT ![e] = Flush(row[e], request[e], fresh)]
        /\ UNCHANGED <<tries, acks, reclaimed, redriven>> /\ request[e] # NoRow
    BY <1>9 DEF RedriveCommit, history
  <2>3. e \in Excused /\ row[e].status # "ABSENT"
    BY <2>2 DEF OwnedInv
  <2>4. Flush(row[e], request[e], fresh) \in Row
        /\ Flush(row[e], request[e], fresh).status # "ABSENT"
    BY <2>1, <2>3, FlushType
  <2>5. row'[e].status # "ABSENT"
    BY <2>2, <2>4 DEF TypeOK
  <2>6. QED
    BY <1>0, <2>2, <2>3, <2>4, <2>5, ReportStep
<1>10. ASSUME NEW e \in Event, BackoffEnds(e) \/ ClaimExpires(e)
       PROVE  UNCHANGED Contract!vars
  BY <1>10, <1>a DEF BackoffEnds, ClaimExpires, history
<1>11. CASE UNCHANGED vars
  BY <1>11, <1>a DEF vars
<1>12. QED
  BY <1>1, <1>2, <1>3, <1>4, <1>5, <1>6, <1>7, <1>8, <1>9, <1>10, <1>11
     DEF Next, PassStep, Contract!Next

(* The outbox implements the at-least-once contract for any number of      *)
(* events, passes and crashes: through the refinement mapping, no settled  *)
(* event moves again unless a redrive or a timed-out claim excuses it.     *)
THEOREM OutboxImplementsContract == Spec => ImplementsContract
<1>1. Init => Contract!Init
  BY DEF Init, Contract!Init, AbstractState, Blank, NoRow
<1>2. QED
  BY <1>1, ContractStep, OutboxTypeCorrect, AcceptedAlways, TriedAlways,
     OwnedAlways, PTL DEF Spec, ImplementsContract, Contract!Spec

=============================================================================
