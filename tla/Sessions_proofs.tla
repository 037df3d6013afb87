--------------------------- MODULE Sessions_proofs ---------------------------
(* Proofs about Sessions for any set of users, tokens, links and requests,  *)
(* about Imports for any members, sheets, runs and requests, and about      *)
(* Recurrence for any starts, intervals and windows.                        *)
EXTENDS Sessions, Imports, Recurrence, FiniteSetTheorems, SequenceTheorems, WellFoundedInduction,
        TLAPS

(* Nothing issued is taken back, no revocation and no use is undone.       *)
GrowOnly ==
  /\ \A t \in Token : Issued(t) =>
       /\ Issued(t)' /\ tokens'[t].user = tokens[t].user
       /\ tokens'[t].family = tokens[t].family
       /\ tokens[t].revoked => tokens'[t].revoked
  /\ \A l \in Link : links[l] # None =>
       /\ links'[l] # None /\ links'[l].user = links[l].user
       /\ links[l].used => links'[l].used
  /\ ended \subseteq ended' /\ late \subseteq late'

LEMMA RowFacts ==
  ASSUME SessionsAssumption, RowsInv
  PROVE  /\ \A t \in Token : Issued(t) <=> tokens[t] \in TokenRow
         /\ \A l \in Link : links[l] # None <=> links[l] \in LinkRow
         /\ \A t \in Token : Issued(t) =>
              tokens[t].user \in User /\ tokens[t].family \in Token
         /\ \A l \in Link : links[l] # None => links[l].user \in User
BY DEF SessionsAssumption, RowsInv, Issued, TokenRow, LinkRow

(* What ending the families of a set of issued tokens leaves in the table. *)
LEMMA EndShape ==
  ASSUME SessionsAssumption, RowsInv, NEW S \in SUBSET Token,
         \A x \in S : Issued(x), End(S)
  PROVE  /\ tokens' \in [Token -> {None} \cup TokenRow]
         /\ ended' = ended \cup Families(S) /\ Families(S) \subseteq Token
         /\ \A x \in Token : Issued(x) =>
              /\ tokens'[x].user = tokens[x].user
              /\ tokens'[x].family = tokens[x].family
              /\ tokens'[x].revoked = (tokens[x].revoked \/ x \in S)
         /\ \A x \in Token : Issued(x)' <=> Issued(x)
<1>1. \A x \in Token : Issued(x) => tokens[x] \in TokenRow
  BY RowFacts
<1>2. tokens' = Revoked(S) /\ ended' = ended \cup Families(S)
  BY DEF End
<1>3. \A x \in S : /\ tokens'[x] = [tokens[x] EXCEPT !.revoked = TRUE]
                   /\ tokens'[x] \in TokenRow
                   /\ tokens'[x].user = tokens[x].user
                   /\ tokens'[x].family = tokens[x].family /\ tokens'[x].revoked
  BY <1>1, <1>2, ZenonT(30) DEF Revoked, TokenRow
<1>4. \A x \in Token \ S : tokens'[x] = tokens[x]
  BY <1>2 DEF Revoked
<1>5. tokens' = [x \in Token |-> tokens'[x]]
  BY <1>2 DEF Revoked
<1>6. \A x \in Token : tokens'[x] \in {None} \cup TokenRow
  BY <1>3, <1>4 DEF RowsInv
<1>7. tokens' \in [Token -> {None} \cup TokenRow]
  BY <1>5, <1>6
<1>8. \A x \in Token : Issued(x)' <=> Issued(x)
  BY <1>3, <1>4 DEF Issued, SessionsAssumption
<1>9. Families(S) \subseteq Token
  BY <1>1 DEF Families, TokenRow
<1>10. \A x \in Token : Issued(x) => tokens[x].revoked \in BOOLEAN
  BY <1>1 DEF TokenRow
<1>11. QED
  BY <1>2, <1>3, <1>4, <1>7, <1>8, <1>9, <1>10

(* A request reads and writes nothing but itself when it begins or is      *)
(* abandoned.                                                              *)
LEMMA RequestShape ==
  ASSUME RowsInv, NEW q \in Request, NEW r, request' = [request EXCEPT ![q] = r]
  PROVE  request'[q] = r /\ \A p \in Request : p # q => request'[p] = request[p]
BY DEF RowsInv

RequestRow ==
  [op : {None} \cup Op, user : {None} \cup User, item : {None} \cup Token \cup Link,
   under : 0..MaxPasswords, seen : SUBSET Link, over : BOOLEAN]

LEMMA RequestTyped ==
  ASSUME SessionsAssumption, RowsInv, NEW q \in Request, NEW r \in RequestRow,
         request' = [request EXCEPT ![q] = r]
  PROVE  request' \in [Request -> RequestRow]
BY DEF RowsInv, RequestRow

LEMMA NoRequestTyped ==
  ASSUME SessionsAssumption PROVE NoRequest \in RequestRow
BY DEF SessionsAssumption, NoRequest, RequestRow

LEMMA RowsInductive ==
  ASSUME SessionsAssumption, SessionsInv, [Next]_vars PROVE RowsInv' /\ GrowOnly
<1> USE DEF RequestRow
<1>0. /\ RowsInv /\ \A q \in Request : RequestKnows(request[q])
      /\ password \in [User -> 1..MaxPasswords]
      /\ tokens \in [Token -> {None} \cup TokenRow]
      /\ links \in [Link -> {None} \cup LinkRow]
      /\ request \in [Request -> RequestRow]
      /\ ended \subseteq Token /\ late \subseteq Token \cup Link
      /\ MaxPasswords \in Nat \ {0}
  BY DEF SessionsInv, RowsInv, SessionsAssumption
<1> HIDE DEF RequestRow
<1>a. ASSUME UNCHANGED <<password, tokens, links, ended, late>>,
             request' \in [Request -> RequestRow]
      PROVE  RowsInv' /\ GrowOnly
  <2>1. RowsInv'
    BY <1>0, <1>a DEF RowsInv, RequestRow
  <2>2. QED
    BY <1>a, <2>1 DEF GrowOnly, Issued
<1>b. ASSUME NEW q \in Request, NEW r \in RequestRow, Begin(q, r)
      PROVE  RowsInv' /\ GrowOnly
  BY <1>0, <1>a, <1>b, RequestTyped DEF Begin, Rows
<1>c. ASSUME NEW q \in Request, Done(q) PROVE request' \in [Request -> RequestRow]
  BY <1>0, <1>c, RequestTyped, NoRequestTyped DEF Done
<1>1. ASSUME NEW q \in Request, NEW u \in User, BeginLogin(q, u)
      PROVE  RowsInv' /\ GrowOnly
  <2> DEFINE r == [NoRequest EXCEPT !.op = "login", !.user = u, !.under = password[u],
                                    !.over = u \in weak]
  <2>1. \A o \in BOOLEAN : [NoRequest EXCEPT !.op = "login", !.user = u, !.under = password[u],
                                    !.over = o] \in RequestRow
    <3>1. password[u] \in 0..MaxPasswords
      BY <1>0
    <3>2. QED
      BY <3>1, NoRequestTyped DEF RequestRow, Op
  <2>2. (u \in weak) \in BOOLEAN
    OBVIOUS
  <2>3. r \in RequestRow
    BY <2>1, <2>2
  <2>4. QED
    BY <1>1, <1>b, <2>3 DEF BeginLogin
<1>2. ASSUME NEW q \in Request, NEW t \in Token, BeginRotate(q, t)
      PROVE  RowsInv' /\ GrowOnly
  <2> DEFINE r == [NoRequest EXCEPT !.op = "rotate", !.user = tokens[t].user, !.item = t,
                                    !.over = tokens[t].family \in ended]
  <2>1. \A o \in BOOLEAN : [NoRequest EXCEPT !.op = "rotate", !.user = tokens[t].user, !.item = t,
                                    !.over = o] \in RequestRow
    BY <1>0, <1>2, RowFacts, NoRequestTyped DEF RequestRow, Op, BeginRotate, Accepted, Usable
  <2>2. (tokens[t].family \in ended) \in BOOLEAN
    OBVIOUS
  <2>3. r \in RequestRow
    BY <2>1, <2>2
  <2>4. QED
    BY <1>2, <1>b, <2>3 DEF BeginRotate
<1>3. ASSUME NEW q \in Request, NEW u \in User, BeginChange(q, u)
      PROVE  RowsInv' /\ GrowOnly
  <2> DEFINE r == [NoRequest EXCEPT !.op = "change", !.user = u]
  <2>1. r \in RequestRow
    BY <1>0, NoRequestTyped DEF RequestRow, Op
  <2>2. QED
    BY <1>3, <1>b, <2>1 DEF BeginChange
<1>4. ASSUME NEW q \in Request, NEW l \in Link, BeginRedeem(q, l)
      PROVE  RowsInv' /\ GrowOnly
  <2> DEFINE r == [NoRequest EXCEPT !.op = "redeem", !.user = links[l].user, !.item = l]
  <2>1. r \in RequestRow
    BY <1>0, <1>4, RowFacts, NoRequestTyped DEF RequestRow, Op, BeginRedeem
  <2>2. QED
    BY <1>4, <1>b, <2>1 DEF BeginRedeem
<1>5. ASSUME NEW q \in Request, NEW u \in User, BeginIssue(q, u)
      PROVE  RowsInv' /\ GrowOnly
  <2> DEFINE r == [NoRequest EXCEPT !.op = "issue", !.user = u, !.seen = Superseded(u)]
  <2>1. r \in RequestRow
    BY <1>0, NoRequestTyped DEF RequestRow, Op, Superseded, Outstanding, LinksOf
  <2>2. QED
    BY <1>5, <1>b, <2>1 DEF BeginIssue
<1>6. ASSUME NEW q \in Request, NEW t \in Token, CommitLogin(q, t)
      PROVE  RowsInv' /\ GrowOnly
  <2> DEFINE r == request[q]
             n == [user |-> r.user, family |-> t, revoked |-> FALSE]
  <2>1. r.user \in User /\ r.under \in 1..MaxPasswords
    BY <1>0, <1>6 DEF CommitLogin, RequestKnows, Op, RequestRow
  <2>2. /\ tokens' = [tokens EXCEPT ![t] = n] /\ ~Issued(t) /\ Done(q)
        /\ UNCHANGED <<links, ended, late>>
        /\ \/ password' = [password EXCEPT ![r.user] = r.under]
           \/ password' = password
    BY <1>6 DEF CommitLogin
  <2>3. n \in TokenRow /\ password' \in [User -> 1..MaxPasswords]
    BY <1>0, <2>1, <2>2 DEF TokenRow
  <2> HIDE DEF n, r
  <2>4. tokens' \in [Token -> {None} \cup TokenRow]
    BY <1>0, <2>2, <2>3
  <2>5. \A x \in Token : Issued(x) => x # t /\ tokens'[x] = tokens[x]
    BY <1>0, <2>2
  <2>6. RowsInv'
    BY <1>0, <1>c, <2>2, <2>3, <2>4 DEF RowsInv, RequestRow
  <2>7. GrowOnly
    BY <2>2, <2>5 DEF GrowOnly, Issued
  <2>8. QED
    BY <2>6, <2>7
<1>7. ASSUME NEW q \in Request, NEW n \in Token, CommitRotate(q, n)
      PROVE  RowsInv' /\ GrowOnly
  <2> DEFINE r == request[q]
             new == [user |-> r.user, family |-> tokens[r.item].family, revoked |-> FALSE]
             old == [tokens[r.item] EXCEPT !.revoked = TRUE]
  <2>1. /\ r.user \in User /\ r.item \in Token /\ Issued(r.item)
        /\ tokens[r.item] \in TokenRow
    BY <1>0, <1>7, RowFacts DEF CommitRotate, RequestKnows, Op
  <2>2. /\ tokens' = [tokens EXCEPT ![r.item].revoked = TRUE, ![n] = new]
        /\ ~Issued(n) /\ Done(q) /\ UNCHANGED <<password, links, ended>>
        /\ late' = late \/ late' = late \cup {tokens[r.item].family}
    BY <1>7 DEF CommitRotate
  <2>3. /\ new \in TokenRow /\ old \in TokenRow /\ n # r.item
        /\ old.user = tokens[r.item].user /\ old.family = tokens[r.item].family /\ old.revoked
    BY <2>1, <2>2 DEF TokenRow
  <2>4. tokens' = [x \in Token |-> IF x = n THEN new
                                   ELSE IF x = r.item THEN old ELSE tokens[x]]
    BY <1>0, <2>1, <2>2, <2>3
  <2>5. tokens[r.item].family \in Token
    BY <2>1 DEF TokenRow
  <2> HIDE DEF new, old, r
  <2>6. tokens' \in [Token -> {None} \cup TokenRow]
    BY <1>0, <2>3, <2>4
  <2>7. RowsInv'
    BY <1>0, <1>c, <2>2, <2>5, <2>6 DEF RowsInv, RequestRow
  <2>8. old # None
    BY <2>3 DEF SessionsAssumption
  <2>9. GrowOnly
    BY <2>1, <2>2, <2>3, <2>4, <2>8 DEF GrowOnly, Issued
  <2>10. QED
    BY <2>7, <2>9
<1>8. ASSUME NEW t \in Token, Replay(t) \/ Logout(t)
      PROVE  RowsInv' /\ GrowOnly
  <2>1. /\ End(FamilyOf(t)) /\ UNCHANGED <<password, links, request, late>>
        /\ \A x \in FamilyOf(t) : Issued(x) /\ FamilyOf(t) \subseteq Token
    BY <1>8 DEF Replay, Logout, FamilyOf
  <2>2. FamilyOf(t) \in SUBSET Token
    BY DEF FamilyOf
  <2> DEFINE S == FamilyOf(t)
  <2> HIDE DEF S
  <2>3. /\ tokens' \in [Token -> {None} \cup TokenRow]
        /\ ended' = ended \cup Families(S) /\ Families(S) \subseteq Token
        /\ \A x \in Token : Issued(x) =>
              /\ tokens'[x].user = tokens[x].user
              /\ tokens'[x].family = tokens[x].family
              /\ tokens'[x].revoked = (tokens[x].revoked \/ x \in S)
        /\ \A x \in Token : Issued(x)' <=> Issued(x)
    BY <1>0, <2>1, <2>2, EndShape DEF S
  <2>4. QED
    BY <1>0, <2>1, <2>3 DEF RowsInv, GrowOnly, RequestRow
<1>9. ASSUME NEW q \in Request, SetPassword(q) PROVE RowsInv' /\ GrowOnly
  <2> DEFINE r == request[q]
             S == SessionsOf(r.user)
  <2>1. /\ r.user \in User
        /\ r.op = "redeem" => r.item \in Link /\ links[r.item] # None
    BY <1>0, <1>9 DEF SetPassword, RequestKnows, Op
  <2>2. /\ password[r.user] < MaxPasswords
        /\ password' = [password EXCEPT ![r.user] = @ + 1]
        /\ End(S) /\ Done(q) /\ late' = late
        /\ links' = IF r.op = "redeem" THEN [links EXCEPT ![r.item].used = TRUE] ELSE links
    BY <1>9 DEF SetPassword
  <2>3. S \in SUBSET Token /\ \A x \in S : Issued(x)
    BY DEF SessionsOf
  <2> HIDE DEF S, r
  <2>4. /\ tokens' \in [Token -> {None} \cup TokenRow]
        /\ ended' = ended \cup Families(S) /\ Families(S) \subseteq Token
        /\ \A x \in Token : Issued(x) =>
              /\ tokens'[x].user = tokens[x].user
              /\ tokens'[x].family = tokens[x].family
              /\ tokens'[x].revoked = (tokens[x].revoked \/ x \in S)
        /\ \A x \in Token : Issued(x)' <=> Issued(x)
    BY <1>0, <2>2, <2>3, EndShape
  <2>5. password' \in [User -> 1..MaxPasswords]
    BY <1>0, <2>1, <2>2
  <2>6. /\ links' \in [Link -> {None} \cup LinkRow]
        /\ \A l \in Link : links[l] # None =>
             /\ links'[l] # None /\ links'[l].user = links[l].user
             /\ links[l].used => links'[l].used
    <3>1. CASE r.op = "redeem"
      <4> DEFINE new == [links[r.item] EXCEPT !.used = TRUE]
      <4>1. links[r.item] \in LinkRow
        BY <1>0, <2>1, <3>1, RowFacts
      <4>2. new \in LinkRow /\ new.user = links[r.item].user /\ new.used
        BY <4>1 DEF LinkRow
      <4>3. links' = [links EXCEPT ![r.item] = new]
        BY <2>2, <3>1
      <4>4. new # None
        BY <4>2 DEF SessionsAssumption
      <4> HIDE DEF new
      <4>5. QED
        BY <1>0, <2>1, <3>1, <4>2, <4>3, <4>4
    <3>2. CASE r.op # "redeem"
      BY <1>0, <2>2, <3>2
    <3>3. QED
      BY <3>1, <3>2
  <2>7. RowsInv'
    BY <1>0, <1>c, <2>2, <2>4, <2>5, <2>6 DEF RowsInv, RequestRow
  <2>8. QED
    BY <2>2, <2>4, <2>6, <2>7 DEF GrowOnly
<1>10. ASSUME NEW q \in Request, NEW n \in Link, CommitIssue(q, n)
       PROVE  RowsInv' /\ GrowOnly
  <2> DEFINE r == request[q]
             new == [user |-> r.user, used |-> FALSE]
             others == {p \in Request \ {q} : request[p].op = "issue" /\ request[p].user = r.user}
  <2>1. r.user \in User /\ r.seen \subseteq LinksOf(r.user)
    BY <1>0, <1>10 DEF CommitIssue, RequestKnows, Op
  <2>2. /\ links[n] = None
        /\ links' = [l \in Link |->
             IF l = n THEN new
             ELSE IF l \in r.seen THEN [links[l] EXCEPT !.used = TRUE] ELSE links[l]]
        /\ request' = [p \in Request |->
             IF p = q THEN NoRequest
             ELSE IF p \in others THEN [request[p] EXCEPT !.over = TRUE] ELSE request[p]]
        /\ late' = late \/ late' = late \cup {n}
        /\ UNCHANGED <<password, tokens, ended>>
    BY <1>10 DEF CommitIssue
  <2>3. new \in LinkRow /\ new # None
    <3>1. new \in LinkRow
      BY <2>1 DEF LinkRow
    <3>2. QED
      BY <3>1 DEF SessionsAssumption
  <2>4. \A l \in r.seen : /\ links[l] \in LinkRow /\ [links[l] EXCEPT !.used = TRUE] \in LinkRow
                          /\ [links[l] EXCEPT !.used = TRUE].user = links[l].user
                          /\ [links[l] EXCEPT !.used = TRUE].used
    <3>1. \A l \in r.seen : links[l] \in LinkRow
      BY <1>0, <2>1, RowFacts DEF LinksOf
    <3>2. QED
      BY <3>1 DEF LinkRow
  <2>5. \A p \in Request : [request[p] EXCEPT !.over = TRUE] \in RequestRow
    BY <1>0 DEF RequestRow
  <2>6. request' \in [Request -> RequestRow]
    BY <1>0, <2>2, <2>5, NoRequestTyped
  <2> HIDE DEF new, others, r
  <2>7. links' \in [Link -> {None} \cup LinkRow]
    BY <1>0, <2>2, <2>3, <2>4
  <2>8. RowsInv'
    BY <1>0, <2>2, <2>6, <2>7 DEF RowsInv, RequestRow
  <2>9. ASSUME NEW l \in Link, links[l] # None
        PROVE  /\ links'[l] # None /\ links'[l].user = links[l].user
               /\ links[l].used => links'[l].used
    <3>1. l # n
      BY <2>2, <2>9
    <3>2. CASE l \in r.seen
      BY <2>2, <2>4, <3>1, <3>2 DEF SessionsAssumption
    <3>3. CASE l \notin r.seen
      BY <2>2, <2>9, <3>1, <3>3
    <3>4. QED
      BY <3>2, <3>3
  <2>10. GrowOnly
    BY <2>2, <2>9 DEF GrowOnly, Issued
  <2>11. QED
    BY <2>8, <2>10
<1>11. ASSUME NEW u \in User, Gate(u) PROVE RowsInv' /\ GrowOnly
  BY <1>0, <1>11, <1>a DEF Gate
<1>12. ASSUME NEW q \in Request, Abandon(q) PROVE RowsInv' /\ GrowOnly
  BY <1>12, <1>a, <1>c DEF Abandon, Rows
<1>13. CASE UNCHANGED vars
  BY <1>0, <1>13, <1>a DEF vars
<1>14. QED
  BY <1>1, <1>2, <1>3, <1>4, <1>5, <1>6, <1>7, <1>8, <1>9, <1>10, <1>11, <1>12, <1>13
     DEF Next

-----------------------------------------------------------------------------
(* What a request knows stays true while its user gets no link behind its  *)
(* back.                                                                   *)
LEMMA KnowledgeKept ==
  ASSUME SessionsAssumption, SessionsInv, GrowOnly, NEW r \in RequestRow, RequestKnows(r),
         r.op = "issue" /\ ~r.over => Outstanding(r.user)' \subseteq Outstanding(r.user)
  PROVE  RequestKnows(r)'
<1>1. r.op = "rotate" =>
        /\ r.item \in Token /\ Issued(r.item)' /\ tokens'[r.item].user = r.user
        /\ r.over => tokens'[r.item].family \in late'
  BY DEF RequestKnows, GrowOnly
<1>2. r.op = "redeem" => r.item \in Link /\ links'[r.item] # None
  BY DEF RequestKnows, GrowOnly
<1>3. r.op = "issue" => r.seen \subseteq LinksOf(r.user)'
  BY DEF RequestKnows, GrowOnly, LinksOf
<1>4. r.op = "issue" /\ ~r.over => Outstanding(r.user)' \subseteq r.seen
  BY DEF RequestKnows
<1>5. QED
  BY <1>1, <1>2, <1>3, <1>4 DEF RequestKnows

(* Ending whole families leaves none of their tokens usable, and the other *)
(* families as they were.                                                  *)
LEMMA EndStep ==
  ASSUME SessionsAssumption, SessionsInv, NEW S \in SUBSET Token, End(S), late' = late,
         \A x \in S : Issued(x),
         \A x \in Token, y \in S :
           Issued(x) /\ tokens[x].family = tokens[y].family => x \in S
  PROVE  FamiliesInv' /\ \A t \in Token : Usable(t)' => tokens'[t].family \notin ended' \ late'
<1>1. RowsInv /\ FamiliesInv /\ \A t \in Token : Usable(t) => tokens[t].family \notin ended \ late
  BY DEF SessionsInv, EndedStaysEnded
<1>2. /\ ended' = ended \cup Families(S) /\ Families(S) \subseteq Token
      /\ \A x \in Token : Issued(x) =>
            /\ tokens'[x].user = tokens[x].user
            /\ tokens'[x].family = tokens[x].family
            /\ tokens'[x].revoked = (tokens[x].revoked \/ x \in S)
      /\ \A x \in Token : Issued(x)' <=> Issued(x)
  BY <1>1, EndShape
<1>3. \A x \in Token : Issued(x) => tokens[x].family \in Token
  BY <1>1, RowFacts
<1>4. \A f \in Families(S) : Issued(f)
  BY <1>1 DEF Families, FamiliesInv
<1>5. FamiliesInv'
  <2>1. ASSUME NEW t \in Token, Issued(t)'
        PROVE  /\ Issued(tokens[t].family)'
               /\ tokens'[tokens'[t].family].user = tokens'[t].user
    <3>1. Issued(t) /\ tokens'[t].family = tokens[t].family /\ tokens[t].family \in Token
      BY <1>2, <1>3, <2>1
    <3>2. Issued(tokens[t].family) /\ tokens[tokens[t].family].user = tokens[t].user
      BY <1>1, <3>1 DEF FamiliesInv
    <3>3. Issued(tokens[t].family)' <=> tokens'[tokens'[t].family] # None
      BY DEF Issued
    <3>4. tokens'[tokens[t].family] # None
      BY <1>2, <3>1, <3>2 DEF Issued
    <3>5. QED
      BY <1>2, <3>1, <3>2, <3>3, <3>4
  <2>2. \A t \in ended' : Issued(t)'
    BY <1>1, <1>2, <1>4 DEF FamiliesInv, RowsInv
  <2>3. QED
    BY <2>1, <2>2 DEF FamiliesInv
<1>6. ASSUME NEW t \in Token, Usable(t)' PROVE tokens'[t].family \notin ended' \ late'
  <2>1. Issued(t) /\ ~tokens'[t].revoked
    BY <1>2, <1>6 DEF Usable
  <2>2. t \notin S /\ Usable(t)
    BY <1>2, <2>1 DEF Usable
  <2>3. tokens[t].family \notin Families(S)
    BY <2>1, <2>2 DEF Families
  <2>4. QED
    BY <1>1, <1>2, <2>1, <2>2, <2>3
<1>7. QED
  BY <1>5, <1>6

(* A family is one user's, so that ending a user's sessions ends families. *)
LEMMA FamiliesOfOneUser ==
  ASSUME SessionsAssumption, RowsInv, FamiliesInv, NEW x \in Token, NEW y \in Token,
         Issued(x), Issued(y), tokens[x].family = tokens[y].family
  PROVE  tokens[x].user = tokens[y].user
BY DEF FamiliesInv

LEMMA SessionsInductive ==
  ASSUME SessionsAssumption, SessionsInv, [Next]_vars PROVE SessionsInv'
<1> DEFINE EndedTokens == \A t \in Token : Usable(t) => tokens[t].family \notin ended \ late
           OneLink == \A u \in User : \A k, l \in Outstanding(u) : k # l => {k, l} \cap late # {}
           Knowledge == \A q \in Request : RequestKnows(request[q])
<1>0. /\ RowsInv /\ RowsInv' /\ GrowOnly /\ FamiliesInv /\ Knowledge
      /\ EndedTokens /\ OneLink
  BY RowsInductive DEF SessionsInv, EndedStaysEnded
<1>1. /\ request \in [Request -> RequestRow] /\ request' \in [Request -> RequestRow]
      /\ tokens \in [Token -> {None} \cup TokenRow]
      /\ ended \subseteq Token
  BY <1>0 DEF RowsInv, RequestRow
<1>2. FamiliesInv' /\ EndedTokens' /\ OneLink' /\ Knowledge' => SessionsInv'
  BY <1>0 DEF SessionsInv, EndedStaysEnded
<1>3. ASSUME UNCHANGED <<tokens, ended>>, late \subseteq late' PROVE FamiliesInv' /\ EndedTokens'
  BY <1>0, <1>3 DEF FamiliesInv, Usable, Issued
<1>4. ASSUME UNCHANGED links PROVE OneLink' /\ \A u \in User : Outstanding(u)' = Outstanding(u)
  <2>1. \A u \in User : Outstanding(u)' = Outstanding(u)
    BY <1>4 DEF Outstanding, LinksOf
  <2>2. QED
    BY <1>0, <2>1 DEF GrowOnly
<1>5. ASSUME NEW q \in Request, RequestKnows(request[q])',
             \A p \in Request : p # q => request'[p] = request[p],
             \A u \in User : Outstanding(u)' \subseteq Outstanding(u)
      PROVE  Knowledge'
  <2>1. SUFFICES ASSUME NEW p \in Request, p # q PROVE RequestKnows(request[p])'
    BY <1>5
  <2>2. request[p] \in RequestRow /\ request'[p] = request[p] /\ RequestKnows(request[p])
    BY <1>0, <1>1, <1>5, <2>1
  <2>3. PICK r \in RequestRow : r = request[p]
    BY <2>2
  <2>4. r.op = "issue" /\ ~r.over => Outstanding(r.user)' \subseteq Outstanding(r.user)
    BY <1>5, <2>2, <2>3 DEF RequestKnows, Op
  <2>5. RequestKnows(r)'
    BY <1>0, <2>2, <2>3, <2>4, KnowledgeKept
  <2>6. QED
    BY <2>2, <2>3, <2>5
<1>6. RequestKnows(NoRequest)'
  BY DEF RequestKnows, NoRequest, SessionsAssumption, Op
<1>7. ASSUME NEW q \in Request, Done(q), \A u \in User : Outstanding(u)' \subseteq Outstanding(u)
      PROVE  Knowledge'
  <2>1. request'[q] = NoRequest /\ \A p \in Request : p # q => request'[p] = request[p]
    BY <1>1, <1>7 DEF Done
  <2>2. QED
    BY <1>5, <1>6, <1>7, <2>1
<1>8. ASSUME NEW q \in Request, NEW r, Begin(q, r), RequestKnows(r)
      PROVE  SessionsInv'
  <2>1. UNCHANGED <<tokens, links, ended, late>> /\ request' = [request EXCEPT ![q] = r]
    BY <1>8 DEF Begin, Rows
  <2>2. /\ request'[q] = r /\ r \in RequestRow
        /\ \A p \in Request : p # q => request'[p] = request[p]
    BY <1>1, <2>1
  <2>3. \A u \in User : Outstanding(u)' = Outstanding(u)
    BY <1>4, <2>1
  <2>4. r.op = "issue" => r.user \in User
    BY <1>8 DEF RequestKnows, Op
  <2>5. RequestKnows(r)'
    BY <1>0, <1>8, <2>2, <2>3, <2>4, KnowledgeKept
  <2>6. QED
    BY <1>2, <1>3, <1>4, <1>5, <2>1, <2>2, <2>3, <2>5
<1>9. ASSUME NEW q \in Request, NEW u \in User, BeginLogin(q, u) PROVE SessionsInv'
  <2> DEFINE r == [NoRequest EXCEPT !.op = "login", !.user = u, !.under = password[u],
                                    !.over = u \in weak]
  <2>1. r.op = "login" /\ r.user = u /\ r.under > 0
    BY <1>0 DEF NoRequest, RowsInv
  <2>2. RequestKnows(r)
    BY <2>1 DEF RequestKnows
  <2>3. QED
    BY <1>8, <1>9, <2>2 DEF BeginLogin
<1>10. ASSUME NEW q \in Request, NEW t \in Token, BeginRotate(q, t) PROVE SessionsInv'
  <2> DEFINE r == [NoRequest EXCEPT !.op = "rotate", !.user = tokens[t].user, !.item = t,
                                    !.over = tokens[t].family \in ended]
  <2>1. r.op = "rotate" /\ r.user = tokens[t].user /\ r.item = t
        /\ (r.over <=> tokens[t].family \in ended)
    BY DEF NoRequest
  <2>2. Usable(t) /\ Issued(t) /\ tokens[t].user \in User
    BY <1>0, <1>10, RowFacts DEF BeginRotate, Accepted, Usable
  <2>3. r.over => tokens[t].family \in late
    BY <1>0, <2>1, <2>2
  <2>4. RequestKnows(r)
    BY <2>1, <2>2, <2>3 DEF RequestKnows
  <2>5. QED
    BY <1>8, <1>10, <2>4 DEF BeginRotate
<1>11. ASSUME NEW q \in Request, NEW u \in User, BeginChange(q, u) PROVE SessionsInv'
  <2> DEFINE r == [NoRequest EXCEPT !.op = "change", !.user = u]
  <2>1. r.op = "change" /\ r.user = u
    BY DEF NoRequest
  <2>2. RequestKnows(r)
    BY <2>1 DEF RequestKnows
  <2>3. QED
    BY <1>8, <1>11, <2>2 DEF BeginChange
<1>12. ASSUME NEW q \in Request, NEW l \in Link, BeginRedeem(q, l) PROVE SessionsInv'
  <2> DEFINE r == [NoRequest EXCEPT !.op = "redeem", !.user = links[l].user, !.item = l]
  <2>1. r.op = "redeem" /\ r.user = links[l].user /\ r.item = l
    BY DEF NoRequest
  <2>2. links[l] # None /\ links[l].user \in User
    BY <1>0, <1>12, RowFacts DEF BeginRedeem
  <2>3. RequestKnows(r)
    BY <2>1, <2>2 DEF RequestKnows
  <2>4. QED
    BY <1>8, <1>12, <2>3 DEF BeginRedeem
<1>13. ASSUME NEW q \in Request, NEW u \in User, BeginIssue(q, u) PROVE SessionsInv'
  <2> DEFINE r == [NoRequest EXCEPT !.op = "issue", !.user = u, !.seen = Superseded(u)]
  <2>1. r.op = "issue" /\ r.user = u /\ r.seen = Outstanding(u)
    BY DEF NoRequest, Superseded
  <2>2. Outstanding(u) \subseteq LinksOf(u)
    BY DEF Outstanding
  <2>3. RequestKnows(r)
    BY <2>1, <2>2 DEF RequestKnows
  <2>4. QED
    BY <1>8, <1>13, <2>3 DEF BeginIssue
<1>14. ASSUME NEW q \in Request, NEW t \in Token, CommitLogin(q, t) PROVE SessionsInv'
  <2> DEFINE new == [user |-> request[q].user, family |-> t, revoked |-> FALSE]
  <2>1. /\ tokens' = [tokens EXCEPT ![t] = new] /\ ~Issued(t)
        /\ UNCHANGED <<links, ended, late>> /\ Done(q)
    BY <1>14 DEF CommitLogin
  <2>2. /\ tokens'[t] = new /\ \A x \in Token : x # t => tokens'[x] = tokens[x]
    BY <1>1, <2>1
  <2>3. new.family = t /\ new.user = request[q].user /\ t \notin ended
    BY <1>0, <2>1 DEF FamiliesInv
  <2> HIDE DEF new
  <2>4. \A x \in Token : Issued(x) => x # t /\ tokens[x].family # t /\ tokens[x].family \in Token
    BY <1>0, <2>1, RowFacts DEF FamiliesInv
  <2>5. new # None
    <3>1. request[q].user \in User
      BY <1>0, <1>14 DEF CommitLogin, RequestKnows, Op
    <3>2. new \in TokenRow
      BY <3>1 DEF new, TokenRow
    <3>3. QED
      BY <3>2 DEF SessionsAssumption
  <2>6. FamiliesInv'
    <3>1. ASSUME NEW x \in Token, Issued(x)'
          PROVE  /\ tokens'[tokens'[x].family] # None
                 /\ tokens'[tokens'[x].family].user = tokens'[x].user
      <4>1. CASE x = t
        BY <2>2, <2>3, <2>5, <4>1
      <4>2. CASE x # t
        <5>1. Issued(x) /\ tokens'[x] = tokens[x]
          BY <2>2, <3>1, <4>2 DEF Issued
        <5>2. tokens[x].family # t /\ tokens'[tokens[x].family] = tokens[tokens[x].family]
          BY <2>2, <2>4, <5>1
        <5>3. QED
          BY <1>0, <5>1, <5>2 DEF FamiliesInv, Issued
      <4>3. QED
        BY <4>1, <4>2
    <3>2. \A x \in ended' : tokens'[x] # None
      BY <1>0, <1>1, <2>1, <2>2, <2>3 DEF FamiliesInv, Issued
    <3>3. QED
      BY <3>1, <3>2 DEF FamiliesInv, Issued
  <2>7. EndedTokens'
    <3>1. ASSUME NEW x \in Token, Usable(x)' PROVE tokens'[x].family \notin ended' \ late'
      <4>1. CASE x = t
        BY <2>1, <2>2, <2>3, <4>1
      <4>2. CASE x # t
        <5>1. Usable(x) /\ tokens'[x] = tokens[x]
          BY <2>2, <3>1, <4>2 DEF Usable, Issued
        <5>2. QED
          BY <1>0, <2>1, <5>1
      <4>3. QED
        BY <4>1, <4>2
    <3>2. QED
      BY <3>1
  <2>8. QED
    BY <1>2, <1>4, <1>7, <2>1, <2>6, <2>7
<1>15. ASSUME NEW q \in Request, NEW n \in Token, CommitRotate(q, n) PROVE SessionsInv'
  <2>0. PICK i \in Token, f \in Token, u \in User :
          /\ i = request[q].item /\ f = tokens[i].family /\ u = request[q].user
          /\ Issued(i) /\ tokens[i].user = u
          /\ request[q].over => f \in late
    BY <1>0, <1>15, RowFacts DEF CommitRotate, RequestKnows, Op
  <2> DEFINE new == [user |-> u, family |-> f, revoked |-> FALSE]
  <2>1. /\ tokens' = [tokens EXCEPT ![i].revoked = TRUE, ![n] = new] /\ ~Issued(n)
        /\ UNCHANGED <<links, ended>> /\ Done(q)
        /\ late' = IF f \in ended /\ ~request[q].over THEN late \cup {f} ELSE late
    BY <1>15, <2>0 DEF CommitRotate
  <2>2. /\ n # i /\ tokens'[n] = new
        /\ \A x \in Token : x # n /\ x # i => tokens'[x] = tokens[x]
    BY <1>1, <2>0, <2>1
  <2>3. new.family = f /\ new.user = u /\ (f \in ended => f \in late') /\ late \subseteq late'
    BY <2>0, <2>1
  <2> HIDE DEF new
  <2>4. new # None
    <3>1. new \in TokenRow
      BY DEF new, TokenRow
    <3>2. QED
      BY <3>1 DEF SessionsAssumption
  <2>5. \A x \in Token : x # n => /\ Issued(x)' <=> Issued(x)
                                  /\ Usable(x)' => Usable(x)
                                  /\ Issued(x) => /\ tokens'[x].user = tokens[x].user
                                                  /\ tokens'[x].family = tokens[x].family
    BY <1>0, <2>0, <2>2 DEF GrowOnly, Issued, Usable
  <2>6. \A x \in Token : Issued(x) => x # n /\ tokens[x].family # n /\ tokens[x].family \in Token
    BY <1>0, <2>1, RowFacts DEF FamiliesInv
  <2>7. FamiliesInv'
    <3>1. ASSUME NEW x \in Token, Issued(x)'
          PROVE  /\ tokens'[tokens'[x].family] # None
                 /\ tokens'[tokens'[x].family].user = tokens'[x].user
      <4>1. CASE x = n
        <5>1. Issued(f) /\ tokens[f].user = u /\ f # n
          BY <1>0, <2>0, <2>6 DEF FamiliesInv
        <5>2. tokens'[f] # None /\ tokens'[f].user = u
          BY <2>5, <5>1 DEF Issued
        <5>3. QED
          BY <2>2, <2>3, <4>1, <5>2
      <4>2. CASE x # n
        <5>1. Issued(x) /\ tokens'[x].family = tokens[x].family /\ tokens'[x].user = tokens[x].user
          BY <2>5, <3>1, <4>2
        <5>2. PICK g \in Token : g = tokens[x].family /\ Issued(g) /\ g # n
                                 /\ tokens[g].user = tokens[x].user
          BY <1>0, <2>6, <5>1 DEF FamiliesInv
        <5>3. tokens'[g] # None /\ tokens'[g].user = tokens[g].user
          BY <2>5, <5>2 DEF Issued
        <5>4. QED
          BY <5>1, <5>2, <5>3
      <4>3. QED
        BY <4>1, <4>2
    <3>2. \A x \in ended' : tokens'[x] # None
      BY <1>0, <1>1, <2>1, <2>5, <2>6 DEF FamiliesInv, Issued
    <3>3. QED
      BY <3>1, <3>2 DEF FamiliesInv, Issued
  <2>8. EndedTokens'
    <3>1. ASSUME NEW x \in Token, Usable(x)' PROVE tokens'[x].family \notin ended' \ late'
      <4>1. CASE x = n
        BY <2>1, <2>2, <2>3, <4>1
      <4>2. CASE x # n
        <5>1. Usable(x) /\ tokens'[x].family = tokens[x].family
          BY <2>5, <3>1, <4>2 DEF Usable
        <5>2. QED
          BY <1>0, <2>1, <2>3, <5>1
      <4>3. QED
        BY <4>1, <4>2
    <3>2. QED
      BY <3>1
  <2>9. QED
    BY <1>2, <1>4, <1>7, <2>1, <2>7, <2>8
<1>16. ASSUME NEW t \in Token, Replay(t) \/ Logout(t) PROVE SessionsInv'
  <2>1. /\ Issued(t) /\ End(FamilyOf(t)) /\ UNCHANGED <<links, request, late>>
    BY <1>16 DEF Replay, Logout
  <2>2. /\ FamilyOf(t) \in SUBSET Token /\ \A x \in FamilyOf(t) : Issued(x)
        /\ \A x \in Token, y \in FamilyOf(t) :
             Issued(x) /\ tokens[x].family = tokens[y].family => x \in FamilyOf(t)
    BY DEF FamilyOf
  <2>3. FamiliesInv' /\ EndedTokens'
    BY <2>1, <2>2, EndStep
  <2>4. \A u \in User : Outstanding(u)' = Outstanding(u)
    BY <1>4, <2>1
  <2>5. ASSUME NEW p \in Request PROVE RequestKnows(request[p])'
    <3>1. PICK r \in RequestRow : r = request[p] /\ r = request'[p] /\ RequestKnows(r)
      BY <1>0, <1>1, <2>1
    <3>2. RequestKnows(r)'
      BY <1>0, <2>4, <3>1, KnowledgeKept DEF RequestKnows, Op
    <3>3. QED
      BY <3>1, <3>2
  <2>6. QED
    BY <1>2, <1>4, <2>1, <2>3, <2>5
<1>17. ASSUME NEW q \in Request, SetPassword(q) PROVE SessionsInv'
  <2>0. PICK u \in User : /\ u = request[q].user
                          /\ request[q].op = "redeem" =>
                               request[q].item \in Link /\ links[request[q].item] # None
    BY <1>0, <1>17 DEF SetPassword, RequestKnows, Op
  <2>1. /\ End(SessionsOf(u)) /\ late' = late /\ Done(q)
        /\ \/ links' = links
           \/ request[q].op = "redeem" /\ links' = [links EXCEPT ![request[q].item].used = TRUE]
    BY <1>17, <2>0 DEF SetPassword
  <2>2. /\ SessionsOf(u) \in SUBSET Token /\ \A x \in SessionsOf(u) : Issued(x)
        /\ \A x \in Token, y \in SessionsOf(u) :
             Issued(x) /\ tokens[x].family = tokens[y].family => x \in SessionsOf(u)
    BY <1>0, FamiliesOfOneUser DEF SessionsOf
  <2>3. FamiliesInv' /\ EndedTokens'
    BY <2>1, <2>2, EndStep
  <2>4. \A l \in Link : links[l] = None => links'[l] = None
    BY <1>0, <2>0, <2>1 DEF RowsInv
  <2>5. \A v \in User : Outstanding(v)' \subseteq Outstanding(v)
    BY <1>0, <2>4 DEF Outstanding, LinksOf, GrowOnly
  <2>6. OneLink'
    BY <1>0, <2>1, <2>5
  <2>7. QED
    BY <1>2, <1>7, <2>1, <2>3, <2>5, <2>6
<1>18. ASSUME NEW q \in Request, NEW n \in Link, CommitIssue(q, n) PROVE SessionsInv'
  <2>0. PICK u \in User : /\ u = request[q].user /\ request[q].op = "issue"
                          /\ request[q].seen \subseteq LinksOf(u)
                          /\ ~request[q].over => Outstanding(u) \subseteq request[q].seen
    BY <1>0, <1>18 DEF CommitIssue, RequestKnows, Op
  <2> DEFINE new == [user |-> u, used |-> FALSE]
             others == {p \in Request \ {q} : request[p].op = "issue" /\ request[p].user = u}
  <2>1. /\ links[n] = None
        /\ links' = [l \in Link |->
             IF l = n THEN new
             ELSE IF l \in request[q].seen THEN [links[l] EXCEPT !.used = TRUE] ELSE links[l]]
        /\ request' = [p \in Request |->
             IF p = q THEN NoRequest
             ELSE IF p \in others THEN [request[p] EXCEPT !.over = TRUE] ELSE request[p]]
        /\ late' = IF request[q].over THEN late \cup {n} ELSE late
        /\ UNCHANGED <<tokens, ended>>
    BY <1>18, <2>0 DEF CommitIssue
  <2>2. links'[n] = new /\ new.user = u
    BY <2>1
  <2> HIDE DEF new
  <2>3. \A l \in Link \ {n} : links[l] = None => links'[l] = None
    BY <2>0, <2>1 DEF LinksOf
  <2>4. \A l \in request[q].seen : l # n => links'[l].used
    <3>1. ASSUME NEW l \in request[q].seen, l # n PROVE links'[l].used
      <4>1. l \in Link /\ links[l] \in LinkRow
        BY <1>0, <2>0, <3>1, RowFacts DEF LinksOf
      <4>2. links'[l] = [links[l] EXCEPT !.used = TRUE]
        BY <2>1, <3>1, <4>1
      <4>3. QED
        BY <4>1, <4>2 DEF LinkRow
    <3>2. QED
      BY <3>1
  <2>5. \A v \in User : Outstanding(v)' \subseteq Outstanding(v) \cup {n}
    BY <1>0, <2>3 DEF Outstanding, LinksOf, GrowOnly
  <2>6. \A v \in User : v # u => Outstanding(v)' \subseteq Outstanding(v)
    BY <2>2, <2>5 DEF Outstanding, LinksOf
  <2>7. ~request[q].over => Outstanding(u)' \subseteq {n}
    BY <2>0, <2>4, <2>5 DEF Outstanding
  <2>8. OneLink'
    <3>1. ASSUME NEW v \in User, NEW k \in Outstanding(v)', NEW l \in Outstanding(v)', k # l
          PROVE  {k, l} \cap late' # {}
      <4>1. CASE k \in Outstanding(v) /\ l \in Outstanding(v)
        BY <1>0, <3>1, <4>1 DEF GrowOnly
      <4>2. CASE k = n \/ l = n
        <5>1. v = u /\ request[q].over
          BY <2>2, <2>7, <3>1, <4>2 DEF Outstanding, LinksOf
        <5>2. QED
          BY <2>1, <4>2, <5>1
      <4>3. QED
        BY <2>5, <4>1, <4>2
    <3>2. QED
      BY <3>1
  <2>9. ASSUME NEW p \in Request PROVE RequestKnows(request[p])'
    <3>1. CASE p = q
      <4>1. request'[p] = NoRequest
        BY <2>1, <3>1
      <4>2. QED
        BY <1>6, <4>1
    <3>2. CASE p \in others
      <4> DEFINE r == [request[p] EXCEPT !.over = TRUE]
      <4>1. request'[p] = r /\ request[p] \in RequestRow /\ RequestKnows(request[p])
        BY <1>0, <1>1, <2>1, <3>2
      <4>2. /\ r \in RequestRow /\ r.over /\ r.op = "issue" /\ r.user = u
            /\ r.seen = request[p].seen
        BY <3>2, <4>1 DEF RequestRow
      <4>3. request[p].seen \subseteq LinksOf(u)
        BY <3>2, <4>1 DEF RequestKnows
      <4> HIDE DEF r
      <4>4. RequestKnows(r)
        BY <4>2, <4>3 DEF RequestKnows
      <4>5. PICK x \in RequestRow : x = r
        BY <4>2
      <4>6. RequestKnows(x)'
        BY <1>0, <4>2, <4>4, <4>5, KnowledgeKept
      <4>7. QED
        BY <4>1, <4>5, <4>6
    <3>3. CASE p # q /\ p \notin others
      <4>1. PICK r \in RequestRow : r = request[p] /\ r = request'[p] /\ RequestKnows(r)
        BY <1>0, <1>1, <2>1, <3>3
      <4>2. r.op = "issue" => r.user \in User /\ r.user # u
        BY <3>3, <4>1 DEF RequestKnows, Op
      <4>3. RequestKnows(r)'
        BY <1>0, <2>6, <4>1, <4>2, KnowledgeKept
      <4>4. QED
        BY <4>1, <4>3
    <3>4. QED
      BY <3>1, <3>2, <3>3
  <2>10. late \subseteq late' /\ FamiliesInv' /\ EndedTokens'
    BY <1>0, <1>3, <2>1 DEF GrowOnly
  <2>11. QED
    BY <1>2, <2>8, <2>9, <2>10
<1>19. ASSUME NEW u \in User, Gate(u) PROVE SessionsInv'
  <2>1. UNCHANGED <<tokens, links, request, ended, late>>
    BY <1>19 DEF Gate
  <2>2. \A v \in User : Outstanding(v)' = Outstanding(v)
    BY <1>4, <2>1
  <2>3. Knowledge'
    <3>1. ASSUME NEW p \in Request PROVE RequestKnows(request[p])'
      <4>1. PICK r \in RequestRow : r = request[p] /\ r = request'[p] /\ RequestKnows(r)
        BY <1>0, <1>1, <2>1
      <4>2. RequestKnows(r)'
        BY <1>0, <2>2, <4>1, KnowledgeKept DEF RequestKnows, Op
      <4>3. QED
        BY <4>1, <4>2
    <3>2. QED
      BY <3>1
  <2>4. QED
    BY <1>2, <1>3, <1>4, <2>1, <2>3
<1>20. ASSUME NEW q \in Request, Abandon(q) PROVE SessionsInv'
  <2>1. UNCHANGED <<tokens, links, ended, late>> /\ Done(q)
    BY <1>20 DEF Abandon, Rows
  <2>2. QED
    BY <1>2, <1>3, <1>4, <1>7, <2>1
<1>21. CASE UNCHANGED vars
  BY <1>0, <1>21 DEF vars, SessionsInv, FamiliesInv, RequestKnows, EndedStaysEnded, Usable,
                     Issued, Outstanding, LinksOf
<1>22. QED
  BY <1>9, <1>10, <1>11, <1>12, <1>13, <1>14, <1>15, <1>16, <1>17, <1>18, <1>19, <1>20,
     <1>21 DEF Next

LEMMA SessionsAlways ==
  ASSUME SessionsAssumption PROVE Spec => []SessionsInv
<1>1. Init => SessionsInv
  <2> SUFFICES ASSUME Init PROVE SessionsInv
    OBVIOUS
  <2>1. \A t \in Token : ~Issued(t)
    BY DEF Init, Issued
  <2>2. \A u \in User : Outstanding(u) = {}
    BY DEF Init, Outstanding, LinksOf
  <2>3. NoRequest \in RequestRow /\ RequestKnows(NoRequest)
    <3>1. NoRequest.op = None
      BY DEF NoRequest
    <3>2. RequestKnows(NoRequest)
      BY <3>1 DEF RequestKnows, SessionsAssumption, Op
    <3>3. QED
      BY <3>2, NoRequestTyped
  <2>4. RowsInv
    BY <2>3 DEF Init, RowsInv, SessionsAssumption, RequestRow
  <2>5. \A q \in Request : RequestKnows(request[q])
    BY <2>3 DEF Init
  <2>6. EndedStaysEnded /\ FamiliesInv
    BY <2>1, <2>2 DEF Init, EndedStaysEnded, FamiliesInv, Usable
  <2>7. QED
    BY <2>4, <2>5, <2>6 DEF SessionsInv
<1>2. SessionsInv /\ [Next]_vars => SessionsInv'
  BY SessionsInductive
<1>3. QED
  BY <1>1, <1>2, PTL DEF Spec

(* Passwords, tokens and links stay type-correct: a token's family is one  *)
(* that was issued.                                                        *)
THEOREM SessionsTypeCorrect ==
  ASSUME SessionsAssumption PROVE Spec => []TypeOK
<1>1. SessionsInv => TypeOK
  BY RowFacts DEF SessionsInv, RowsInv, FamiliesInv, TypeOK
<1>2. QED
  BY <1>1, SessionsAlways, PTL

(* However rotations, replays, log-outs, new passwords and issues overlap: *)
(* an ended family has no usable token but what a rotation under way       *)
(* brought in, and two links are outstanding only if one issue overtook    *)
(* another.                                                                *)
THEOREM EndedForGood ==
  ASSUME SessionsAssumption PROVE Spec => []EndedStaysEnded
<1>1. SessionsInv => EndedStaysEnded
  BY DEF SessionsInv
<1>2. QED
  BY <1>1, SessionsAlways, PTL

-----------------------------------------------------------------------------
(* Sheet imports: any sheet, members, weights and requests.                *)

(* Every set of naturals has a least one: what stands in for induction.      *)
LEMMA NatLeast ==
  ASSUME NEW S \in SUBSET Nat, S # {}
  PROVE  \E n \in S : \A m \in S : n <= m
<1> DEFINE Below == {0 .. n : n \in S}
<1>1. Below \subseteq FiniteSubsetsOf(Nat)
  <2>1. \A n \in S : IsFiniteSet(0 .. n) /\ 0 .. n \subseteq Nat
    BY FS_Interval
  <2>2. QED
    BY <2>1 DEF FiniteSubsetsOf
<1>2. Below # {} /\ IsWellFoundedOn(StrictSubsetOrdering(Nat), FiniteSubsetsOf(Nat))
  BY FS_StrictSubsetOrderingWellFounded
<1>3. PICK low \in Below : \A other \in Below : <<other, low>> \notin StrictSubsetOrdering(Nat)
  <2> HIDE DEF Below
  <2> QED
    BY <1>1, <1>2, WFMin
<1>4. PICK n \in S : low = 0 .. n
  BY <1>3
<1>5. ASSUME NEW m \in S, m < n
      PROVE  FALSE
  <2>1. 0 .. m \in Below /\ 0 .. m \subseteq 0 .. n /\ 0 .. m # 0 .. n
    BY <1>5
  <2>2. <<0 .. m, 0 .. n>> \in StrictSubsetOrdering(Nat)
    BY <2>1 DEF StrictSubsetOrdering
  <2>3. QED
    BY <2>1, <2>2, <1>3, <1>4
<1>6. QED
  BY <1>5

(* One more row: the quotient and the remainder of the turns by the number *)
(* of targets.                                                             *)
LEMMA OneTurnMore ==
  ASSUME NEW L \in Nat \ {0}, NEW k \in Nat
  PROVE  /\ k \div L \in Nat /\ k % L \in 0 .. L - 1
         /\ IF (k % L) + 1 = L
            THEN (k + 1) \div L = (k \div L) + 1 /\ (k + 1) % L = 0
            ELSE (k + 1) \div L = k \div L /\ (k + 1) % L = (k % L) + 1
<1>1. k \div L \in Nat /\ k % L \in 0 .. L - 1
  BY SMTT(30)
<1>2. k = L * (k \div L) + (k % L)
  BY SMTT(30)
<1>3. ASSUME NEW q \in Nat, NEW r \in 0 .. L - 1, NEW x \in Nat, x = L * q + r
      PROVE  x \div L = q /\ x % L = r
  BY <1>3, SMTT(30)
<1>4. CASE (k % L) + 1 = L
  <2> DEFINE q == k \div L
  <2>1. L * (q + 1) = L * q + L
    BY <1>1
  <2>2. k + 1 = L * (q + 1) + 0
    BY <1>1, <1>2, <1>4, <2>1
  <2>3. q + 1 \in Nat /\ 0 \in 0 .. L - 1 /\ k + 1 \in Nat
    BY <1>1
  <2> HIDE DEF q
  <2>4. (k + 1) \div L = q + 1 /\ (k + 1) % L = 0
    BY <1>3, <2>2, <2>3
  <2>5. QED
    BY <1>1, <1>4, <2>4 DEF q
<1>5. CASE (k % L) + 1 # L
  <2> DEFINE q == k \div L
             r == k % L
  <2>1. q \in Nat /\ r + 1 \in 0 .. L - 1 /\ k + 1 \in Nat
    BY <1>1, <1>5
  <2>2. k + 1 = L * q + (r + 1)
    BY <1>1, <1>2
  <2>3. (k + 1) \div L = q /\ (k + 1) % L = r + 1
    <3> HIDE DEF q, r
    <3> QED
      BY <1>3, <2>1, <2>2
  <2>4. QED
    BY <1>1, <1>5, <2>3
<1>6. QED
  BY <1>4, <1>5

(* The members of S that are at most k places from the first. *)
UpTo(S, k) == {i \in 1 .. k : i \in S}

(* How many of the places up to n hold, when one more place is looked at.  *)
LEMMA CountNext ==
  ASSUME NEW S \in SUBSET Nat, NEW n \in Nat
  PROVE  /\ IsFiniteSet(UpTo(S, n)) /\ Cardinality(UpTo(S, n)) \in 0 .. n
         /\ Cardinality(UpTo(S, 0)) = 0
         /\ Cardinality(UpTo(S, n + 1)) =
              IF n + 1 \in S THEN Cardinality(UpTo(S, n)) + 1 ELSE Cardinality(UpTo(S, n))
<1>1. IsFiniteSet(1 .. n) /\ Cardinality(1 .. n) = n
  BY FS_Interval
<1>2. UpTo(S, n) \in SUBSET (1 .. n)
  BY DEF UpTo
<1>3. IsFiniteSet(UpTo(S, n)) /\ Cardinality(UpTo(S, n)) <= n
  BY <1>1, <1>2, FS_Subset
<1>4. Cardinality(UpTo(S, n)) \in 0 .. n
  BY <1>3, FS_CardinalityType
<1>5. UpTo(S, 0) = {} /\ Cardinality({}) = 0
  BY FS_EmptySet DEF UpTo
<1>6. CASE n + 1 \in S
  <2>1. UpTo(S, n + 1) = UpTo(S, n) \cup {n + 1} /\ n + 1 \notin UpTo(S, n)
    BY <1>6 DEF UpTo
  <2>2. Cardinality(UpTo(S, n) \cup {n + 1}) = Cardinality(UpTo(S, n)) + 1
    BY <1>3, <2>1, FS_AddElement
  <2>3. QED
    BY <1>3, <1>4, <1>5, <1>6, <2>1, <2>2
<1>7. CASE n + 1 \notin S
  <2>1. UpTo(S, n + 1) = UpTo(S, n)
    BY <1>7 DEF UpTo
  <2>2. QED
    BY <1>3, <1>4, <1>5, <1>7, <2>1
<1>8. QED
  BY <1>6, <1>7

(* The rows up to n that are not in error and go to m, and the places m has  *)
(* among the first r targets.                                               *)
Dealt(outcome, T, L, m, n) ==
  Cardinality({i \in 1 .. n :
                 outcome[i] # "error" /\ T[((Turn(outcome, i) - 1) % L) + 1] = m})
Places(T, m, r) == Cardinality({i \in 1 .. r : T[i] = m})

(* After any number of rows a member has its weight for every full round of *)
(* the targets, and its places among the targets of the round under way.    *)
LEMMA DealtByRounds ==
  ASSUME NEW N \in Nat, NEW outcome, NEW T, NEW L \in Nat \ {0}, NEW m
  PROVE  \A n \in 0 .. N :
           LET K == Turn(outcome, n)
           IN /\ K \in Nat
              /\ Dealt(outcome, T, L, m, n) =
                   Places(T, m, L) * (K \div L) + Places(T, m, K % L)
<1> DEFINE Good == {i \in Nat : outcome[i] # "error"}
           Mine == {i \in Nat : outcome[i] # "error"
                                  /\ T[((Turn(outcome, i) - 1) % L) + 1] = m}
           Held == {i \in Nat : T[i] = m}
           K(n) == Cardinality(UpTo(Good, n))
           share(n) == Cardinality(UpTo(Mine, n))
           places(r) == Cardinality(UpTo(Held, r))
           P(n) == share(n) = places(L) * (K(n) \div L) + places(K(n) % L)
           Broken == {n \in 0 .. N : ~P(n)}
<1>1. \A S \in SUBSET Nat : \A n \in Nat :
        /\ Cardinality(UpTo(S, n)) \in Nat /\ Cardinality(UpTo(S, 0)) = 0
        /\ Cardinality(UpTo(S, n + 1)) =
             IF n + 1 \in S THEN Cardinality(UpTo(S, n)) + 1 ELSE Cardinality(UpTo(S, n))
  BY CountNext
<1>2. Good \in SUBSET Nat /\ Mine \in SUBSET Nat /\ Held \in SUBSET Nat
  OBVIOUS
<1>3. \A n \in Nat :
        /\ K(n) \in Nat /\ K(n + 1) = IF n + 1 \in Good THEN K(n) + 1 ELSE K(n)
        /\ share(n) \in Nat
        /\ share(n + 1) = IF n + 1 \in Mine THEN share(n) + 1 ELSE share(n)
        /\ places(n) \in Nat
        /\ places(n + 1) = IF n + 1 \in Held THEN places(n) + 1 ELSE places(n)
  <2> HIDE DEF Good, Mine, Held
  <2> QED
    BY <1>1, <1>2
<1>4. K(0) = 0 /\ share(0) = 0 /\ places(0) = 0
  <2> HIDE DEF Good, Mine, Held
  <2> QED
    BY <1>1, <1>2
<1>5. \A n \in Nat : Turn(outcome, n) = K(n)
  <2> TAKE n \in Nat
  <2>1. {k \in 1 .. n : outcome[k] # "error"} = UpTo(Good, n)
    BY DEF UpTo
  <2>2. QED
    BY <2>1 DEF Turn
<1>6. \A n \in Nat : n + 1 \in Mine <=>
                        n + 1 \in Good /\ ((K(n + 1) - 1) % L) + 1 \in Held
  <2> TAKE n \in Nat
  <2>1. n + 1 \in Nat /\ Turn(outcome, n + 1) = K(n + 1)
    BY <1>5
  <2>2. n + 1 \in Good => K(n + 1) - 1 = K(n)
    <3> HIDE DEF K, Good, Mine, Held, share, places
    <3> QED
      BY <1>3, <2>1
  <2>3. n + 1 \in Good => ((K(n + 1) - 1) % L) + 1 \in Nat
    <3> HIDE DEF K, Good, Mine, Held, share, places
    <3>1. K(n) \in Nat
      BY <1>3
    <3>2. K(n) % L \in 0 .. L - 1
      BY <3>1, OneTurnMore
    <3>3. QED
      BY <2>2, <3>2
  <2>4. QED
    BY <2>1, <2>3
<1>7. P(0)
  <2>1. 0 \div L = 0 /\ 0 % L = 0
    OBVIOUS
  <2>2. places(L) \in Nat
    BY <1>3
  <2> HIDE DEF places, K, share
  <2>3. QED
    BY <1>4, <2>1, <2>2
<1>8. ASSUME NEW n \in Nat, P(n)
      PROVE  P(n + 1)
  <2> HIDE DEF K, share, places, Good, Mine, Held
  <2> DEFINE q == K(n) \div L
             r == K(n) % L
             w == places(L)
  <2>1. w \in Nat /\ q \in Nat /\ r \in 0 .. L - 1 /\ K(n) \in Nat /\ share(n) \in Nat
    BY <1>3, OneTurnMore
  <2>2. CASE n + 1 \notin Good
    <3>1. K(n + 1) = K(n) /\ share(n + 1) = share(n)
      BY <1>3, <1>6, <2>2
    <3>2. QED
      BY <1>8, <3>1
  <2>3. CASE n + 1 \in Good
    <3>1. K(n + 1) = K(n) + 1 /\ K(n + 1) - 1 = K(n)
      BY <1>3, <2>1, <2>3
    <3>2. share(n + 1) = IF r + 1 \in Held THEN share(n) + 1 ELSE share(n)
      BY <1>3, <1>6, <2>3, <3>1
    <3>3. places(r + 1) = IF r + 1 \in Held THEN places(r) + 1 ELSE places(r)
      <4> HIDE DEF q, r, w
      <4>1. r \in Nat
        BY <2>1
      <4>2. QED
        BY <1>3, <4>1
    <3>4. places(r) \in Nat /\ places(r + 1) \in Nat
      <4> HIDE DEF q, r, w
      <4>1. r \in Nat /\ r + 1 \in Nat
        BY <2>1
      <4>2. QED
        BY <1>3, <4>1
    <3>5. share(n + 1) = w * q + places(r + 1)
      <4>1. share(n) = w * q + places(r) /\ w * q \in Nat
        BY <1>8, <2>1
      <4> HIDE DEF w, q, r
      <4>2. QED
        BY <3>2, <3>3, <3>4, <4>1
    <3>6. CASE r + 1 = L
      <4>1. K(n + 1) \div L = q + 1 /\ K(n + 1) % L = 0
        BY <2>1, <3>1, <3>6, OneTurnMore
      <4>2. w * (q + 1) = w * q + w
        BY <2>1
      <4>3. share(n + 1) = w * (q + 1) + 0
        BY <2>1, <3>5, <3>6, <4>2
      <4>4. QED
        BY <1>4, <4>1, <4>3
    <3>7. CASE r + 1 # L
      <4>1. K(n + 1) \div L = q /\ K(n + 1) % L = r + 1
        BY <2>1, <3>1, <3>7, OneTurnMore
      <4>2. QED
        BY <3>5, <4>1
    <3>8. QED
      BY <3>6, <3>7
  <2>4. QED
    BY <2>2, <2>3
<1>9. Broken = {}
  <2>1. SUFFICES ASSUME Broken # {} PROVE FALSE
    OBVIOUS
  <2> HIDE DEF P
  <2>2. PICK low \in Broken : \A other \in Broken : low <= other
    <3>1. Broken \in SUBSET Nat
      OBVIOUS
    <3> HIDE DEF Broken
    <3>2. QED
      BY <2>1, <3>1, NatLeast
  <2>3. low \in Nat /\ low # 0 /\ low <= N
    BY <1>7
  <2>4. low - 1 \in Nat /\ low - 1 \in 0 .. N /\ low - 1 \notin Broken
    BY <2>2, <2>3
  <2>5. P(low - 1) /\ (low - 1) + 1 = low
    BY <2>3, <2>4
  <2>6. P(low)
    BY <1>8, <2>4, <2>5
  <2>7. QED
    BY <2>6
<1>10. ASSUME NEW n \in 0 .. N
       PROVE  LET K1 == Turn(outcome, n)
              IN /\ K1 \in Nat
                 /\ Dealt(outcome, T, L, m, n) =
                      Places(T, m, L) * (K1 \div L) + Places(T, m, K1 % L)
  <2>1. P(n) /\ n \in Nat
    BY <1>9
  <2>2. Dealt(outcome, T, L, m, n) = share(n)
    <3>1. {i \in 1 .. n : outcome[i] # "error" /\ T[((Turn(outcome, i) - 1) % L) + 1] = m}
            = UpTo(Mine, n)
      BY DEF UpTo
    <3>2. QED
      BY <3>1 DEF Dealt
  <2>3. \A r \in Nat : Places(T, m, r) = places(r)
    <3> TAKE r \in Nat
    <3>1. {i \in 1 .. r : T[i] = m} = UpTo(Held, r)
      BY DEF UpTo
    <3>2. QED
      BY <3>1 DEF Places
  <2>4. Turn(outcome, n) = K(n) /\ K(n) \in Nat
    BY <1>3, <1>5, <2>1
  <2>5. K(n) % L \in Nat /\ L \in Nat
    <3> HIDE DEF K
    <3> QED
      BY <2>4, OneTurnMore
  <2> HIDE DEF K, share, places
  <2>6. QED
    BY <2>1, <2>2, <2>3, <2>4, <2>5
<1>11. QED
  BY <1>10, Zenon

(* Owners that go round the targets share the rows by weight.              *)
LEMMA RoundsAreEven ==
  ASSUME ImportAssumption, NEW owner, NEW targets \in Seq(Member), targets # <<>>,
         GoRound(owner, targets), NEW m
  PROVE  LET share == Cardinality({n \in DOMAIN owner : owner[n] = m})
             weight == Cardinality({n \in DOMAIN targets : targets[n] = m})
             turns == Cardinality(DOMAIN owner) \div Len(targets)
         IN share \in weight * turns .. weight * (turns + 1)
<1> DEFINE L == Len(targets)
           places(r) == Places(targets, m, r)
           share == Cardinality({n \in DOMAIN owner : owner[n] = m})
<1>1. L \in Nat \ {0} /\ DOMAIN targets = 1 .. L
  BY EmptySeq
<1>2. PICK sheet \in Sheets : \E outcome \in [DOMAIN sheet -> Outcomes] :
         owner = [n \in {k \in DOMAIN sheet : outcome[k] # "error"} |->
                    targets[((Turn(outcome, n) - 1) % Len(targets)) + 1]]
  BY DEF GoRound
<1>3. PICK outcome \in [DOMAIN sheet -> Outcomes] :
         owner = [n \in {k \in DOMAIN sheet : outcome[k] # "error"} |->
                    targets[((Turn(outcome, n) - 1) % Len(targets)) + 1]]
  BY <1>2
<1> DEFINE N == Len(sheet)
           K == Turn(outcome, N)
<1>4. N \in Nat /\ DOMAIN sheet = 1 .. N
  BY DEF ImportAssumption
<1>5. DOMAIN owner = {k \in 1 .. N : outcome[k] # "error"}
  BY <1>3, <1>4
<1>6. Cardinality(DOMAIN owner) = K
  BY <1>5 DEF Turn
<1>7. {n \in DOMAIN owner : owner[n] = m} =
        {i \in 1 .. N : outcome[i] # "error" /\ targets[((Turn(outcome, i) - 1) % L) + 1] = m}
  BY <1>3, <1>5
<1>8. K \in Nat /\ share = places(L) * (K \div L) + places(K % L)
  <2>1. N \in 0 .. N
    BY <1>4
  <2>2. \A n \in 0 .. N :
           LET K1 == Turn(outcome, n)
           IN /\ K1 \in Nat
              /\ Dealt(outcome, targets, L, m, n) =
                   Places(targets, m, L) * (K1 \div L) + Places(targets, m, K1 % L)
    <3> HIDE DEF L, N
    <3> QED
      BY <1>1, <1>4, DealtByRounds
  <2>3. share = Dealt(outcome, targets, L, m, N)
    BY <1>7 DEF Dealt
  <2> HIDE DEF L, N, share
  <2>4. QED
    BY <2>1, <2>2, <2>3
<1>9. K \div L \in Nat /\ K % L \in 0 .. L - 1
  <2> HIDE DEF K, L
  <2> QED
    BY <1>1, <1>8, OneTurnMore
<1>10. places(K % L) \in 0 .. places(L) /\ places(L) \in Nat
  <2> DEFINE some == {i \in 1 .. (K % L) : targets[i] = m}
             all == {i \in 1 .. L : targets[i] = m}
  <2>1. some \subseteq all
    <3> HIDE DEF K, L
    <3> QED
      BY <1>1, <1>9
  <2>2. IsFiniteSet(all)
    <3>1. IsFiniteSet(1 .. L) /\ all \in SUBSET (1 .. L)
      BY <1>1, FS_Interval
    <3> HIDE DEF all
    <3>2. QED
      BY <3>1, FS_Subset
  <2>3. IsFiniteSet(some) /\ Cardinality(some) <= Cardinality(all)
    <3> HIDE DEF some, all
    <3> QED
      BY <2>1, <2>2, FS_Subset
  <2>4. Cardinality(some) \in Nat /\ Cardinality(all) \in Nat
    <3> HIDE DEF some, all
    <3> QED
      BY <2>2, <2>3, FS_CardinalityType
  <2> HIDE DEF K, L
  <2>5. QED
    BY <2>3, <2>4 DEF Places
<1>11. places(L) = Cardinality({n \in DOMAIN targets : targets[n] = m})
  BY <1>1 DEF Places
<1>12. ASSUME NEW w \in Nat, NEW q \in Nat, NEW p \in 0 .. w
       PROVE  w * q + p \in w * q .. w * (q + 1)
  <2>1. w * (q + 1) = w * q + w /\ w * q \in Nat
    BY SMTT(30)
  <2>2. QED
    BY <2>1
<1>13. share \in places(L) * (K \div L) .. places(L) * ((K \div L) + 1)
  <2> HIDE DEF share, places, K, L
  <2>1. places(L) * (K \div L) + places(K % L)
          \in places(L) * (K \div L) .. places(L) * ((K \div L) + 1)
    BY <1>9, <1>10, <1>12
  <2>2. QED
    BY <1>8, <2>1
<1>14. QED
  BY <1>6, <1>11, <1>13

-----------------------------------------------------------------------------
(* Whom a run may deal to. *)

(* What going through the members and copying each as often as the table    *)
(* says leaves.                                                             *)
Copied(members, times, n, f) ==
  f = [i \in 0 .. n |->
         IF i = 0 THEN <<>>
         ELSE f[i - 1] \o [k \in 1 .. times[members[i]] |-> members[i]]]

LEMMA CopiedExists ==
  ASSUME NEW members, NEW times, NEW N \in Nat
  PROVE  \E f : Copied(members, times, N, f)
<1> DEFINE Without == {n \in 0 .. N : ~ \E f : Copied(members, times, n, f)}
           some(i) == [k \in 1 .. times[members[i]] |-> members[i]]
<1>1. SUFFICES ASSUME Without # {}
               PROVE  FALSE
  OBVIOUS
<1>2. PICK n \in Without : \A m \in Without : n <= m
  <2>1. Without \in SUBSET Nat
    OBVIOUS
  <2>2. QED
    BY <1>1, <2>1, NatLeast
<1>3. n # 0
  <2>1. Copied(members, times, 0, [i \in 0 .. 0 |-> <<>>])
    BY DEF Copied
  <2>2. QED
    BY <1>2, <2>1
<1>4. PICK f : Copied(members, times, n - 1, f)
  <2>1. n - 1 \in 0 .. N /\ n - 1 \notin Without
    BY <1>2, <1>3
  <2>2. QED
    BY <2>1
<1> DEFINE more == [i \in 0 .. n |-> IF i < n THEN f[i] ELSE f[n - 1] \o some(n)]
<1>5. Copied(members, times, n, more)
  <2>1. n \in Nat \ {0}
    BY <1>2, <1>3
  <2>2. ASSUME NEW i \in 0 .. n
        PROVE  more[i] = IF i = 0 THEN <<>> ELSE more[i - 1] \o some(i)
    <3>1. CASE i < n
      <4>1. i \in 0 .. n - 1 /\ (i # 0 => i - 1 \in 0 .. n /\ i - 1 < n)
        BY <2>1, <3>1
      <4>2. f[i] = IF i = 0 THEN <<>> ELSE f[i - 1] \o some(i)
        BY <4>1, <1>4 DEF Copied
      <4>3. more[i] = f[i] /\ (i # 0 => more[i - 1] = f[i - 1])
        BY <4>1, <3>1
      <4>4. QED
        BY <4>2, <4>3
    <3>2. CASE i = n
      <4>1. n - 1 \in 0 .. n /\ n - 1 < n /\ ~ (n < n) /\ n # 0
        BY <2>1
      <4>2. more[n - 1] = f[n - 1]
        BY <4>1
      <4>3. more[n] = f[n - 1] \o some(n)
        <5> HIDE DEF some
        <5> QED
          BY <4>1, <2>1
      <4>4. QED
        BY <4>1, <4>2, <4>3, <3>2
    <3>3. QED
      BY <3>1, <3>2, <2>1
  <2> HIDE DEF more
  <2>3. more = [i \in 0 .. n |-> more[i]]
    BY DEF more
  <2>4. QED
    BY <2>2, <2>3 DEF Copied
<1>6. QED
  BY <1>2, <1>5

LEMMA CopiedTyped ==
  ASSUME NEW members \in Seq(Member), NEW times \in [Member -> Nat], NEW f,
         Copied(members, times, Len(members), f)
  PROVE  f[Len(members)] \in Seq(Member)
<1> DEFINE N == Len(members)
           some(i) == [k \in 1 .. times[members[i]] |-> members[i]]
           Bad1 == {n \in 0 .. N : f[n] \notin Seq(Member)}
<1>1. SUFFICES ASSUME Bad1 # {}
               PROVE  FALSE
  OBVIOUS
<1>2. PICK n \in Bad1 : \A m \in Bad1 : n <= m
  <2>1. Bad1 \in SUBSET Nat
    OBVIOUS
  <2>2. QED
    BY <1>1, <2>1, NatLeast
<1>3. n # 0
  <2>1. <<>> \in Seq(Member) /\ 0 \in 0 .. N
    BY EmptySeq
  <2>2. f[0] = <<>>
    BY <2>1 DEF Copied
  <2>3. QED
    BY <1>2, <2>1, <2>2
<1>4. n \in 1 .. N /\ f[n - 1] \in Seq(Member)
  <2>1. n \in 1 .. N /\ n - 1 \in 0 .. N /\ n - 1 \notin Bad1
    BY <1>2, <1>3
  <2>2. QED
    BY <2>1
<1>5. some(n) \in Seq(Member)
  <2>1. members[n] \in Member /\ times[members[n]] \in Nat
    BY <1>4
  <2>2. \A m \in Member, t \in Nat : [k \in 1 .. t |-> m] \in Seq(Member)
    OBVIOUS
  <2>3. QED
    BY <2>1, <2>2
<1>6. f[n] = f[n - 1] \o some(n)
  <2>1. n \in 0 .. N /\ n # 0
    BY <1>4
  <2>2. QED
    BY <2>1 DEF Copied
<1>7. f[n] \in Seq(Member)
  <2> HIDE DEF some
  <2> QED
    BY <1>4, <1>5, <1>6, ConcatProperties
<1>8. QED
  BY <1>2, <1>7

(* The members of a sequence, each as often as the table says.              *)
LEMMA RepeatedMembers ==
  ASSUME NEW members \in Seq(Member), NEW times \in [Member -> Nat]
  PROVE  Repeated(members, times) \in Seq(Member)
<1> DEFINE f == CHOOSE g : Copied(members, times, Len(members), g)
<1>1. Len(members) \in Nat
  OBVIOUS
<1>2. Repeated(members, times) = f[Len(members)]
  BY DEF Repeated, Copied
<1>3. Copied(members, times, Len(members), f)
  BY <1>1, CopiedExists
<1>4. f[Len(members)] \in Seq(Member)
  <2> HIDE DEF f
  <2> QED
    BY <1>3, CopiedTyped
<1>5. QED
  BY <1>2, <1>4

(* Whoever is active and whoever is at work, a run deals to members.        *)
LEMMA TargetsAreMembers ==
  ASSUME ImportAssumption, NEW strategy, NEW active \in SUBSET Member, NEW working
  PROVE  Targets(strategy, active, working) \in Seq(Member)
<1> DEFINE wanted == Only(Wanted, active)
           chosen == IF wanted = <<>> THEN SetToSeq(active) ELSE wanted
<1>1. \A s \in Seq(Member) : \A kept : Only(s, kept) \in Seq(Member)
  <2> TAKE s \in Seq(Member)
  <2> TAKE kept
  <2>1. [m \in Member |-> IF m \in kept THEN 1 ELSE 0] \in [Member -> Nat]
    OBVIOUS
  <2>2. QED
    BY <2>1, RepeatedMembers DEF Only
<1>2. SetToSeq(active) \in Seq(Member)
  <2>1. IsFiniteSet(active)
    BY FS_Subset DEF ImportAssumption
  <2>2. Cardinality(active) \in Nat /\ ExistsBijection(1 .. Cardinality(active), active)
    BY <2>1, FS_CardinalityType
  <2>3. \E f \in [1 .. Cardinality(active) -> active] : IsInjective(f)
    BY <2>2 DEF ExistsBijection, Bijection, Injection, IsInjective
  <2>4. SetToSeq(active) \in [1 .. Cardinality(active) -> active]
    BY <2>3 DEF SetToSeq
  <2>5. SetToSeq(active) \in [1 .. Cardinality(active) -> Member]
    BY <2>4
  <2>6. QED
    BY <2>2, <2>5, SeqDef
<1>3. chosen \in Seq(Member)
  BY <1>1, <1>2 DEF ImportAssumption
<1>4. Repeated(chosen, Weight) \in Seq(Member)
  <2>1. Weight \in [Member -> Nat]
    BY DEF ImportAssumption
  <2> HIDE DEF chosen
  <2>2. QED
    BY <1>3, <2>1, RepeatedMembers
<1>5. Only(chosen, working) \in Seq(Member)
  BY <1>1, <1>3
<1> HIDE DEF chosen
<1>6. Targets(strategy, active, working) =
        CASE strategy = "AVAILABILITY" -> Only(chosen, working)
          [] strategy = "WEIGHTED" -> Repeated(chosen, Weight)
          [] OTHER -> chosen
  BY Zenon DEF Targets, chosen
<1>7. QED
  BY <1>3, <1>4, <1>5, <1>6, Zenon

-----------------------------------------------------------------------------
(* The tables, the runs and the requests. *)

(* A row of a sheet has one of three fates, whatever leads were read.       *)
LEMMA EvaluateTyped ==
  ASSUME NEW kind, NEW rows, NEW seen, NEW commit
  PROVE  Evaluate(kind, rows, seen, commit) \in [DOMAIN rows -> Outcomes]
<1>1. \A row : OutcomeOfLead(kind, row, seen) \in Outcomes
  BY DEF OutcomeOfLead, Outcomes
<1>2. \A row : OutcomeOfAction(row, seen, commit) \in Outcomes
  BY DEF OutcomeOfAction, Outcomes
<1>3. QED
  BY <1>1, <1>2 DEF Evaluate

(* A run that was uploaded stays, with its sheet and its kind, and so does a *)
(* lead.                                                                    *)
Stay ==
  /\ \A j \in Job : job[j].status # Nil =>
       job'[j].status # Nil /\ job'[j].sheet = job[j].sheet /\ job'[j].kind = job[j].kind
  /\ Existing \subseteq Existing'

LEMMA CallStays ==
  ASSUME ImportInv, Stay, NEW q \in Call, txn'[q] = txn[q],
         txn[q].op = "commit" /\ txn[q].read # <<>> => lock'[txn[q].job] = q
  PROVE  CallInv(q)'
<1>1. CallInv(q)
  BY DEF ImportInv
<1>2. txn[q].seen \subseteq Existing'
  BY <1>1 DEF CallInv, Stay
<1>3. txn[q].op # Nil => job'[txn[q].job].status # Nil
  BY <1>1 DEF CallInv, Stay
<1>4. (txn[q] = NoTxn)' <=> txn[q] = NoTxn
  BY DEF NoTxn, NoBasis
<1>5. \A owner, targets : GoRound(owner, targets)' <=> GoRound(owner, targets)
  BY DEF GoRound, Turn
<1>6. QED
  BY <1>1, <1>2, <1>3, <1>4, <1>5 DEF CallInv

LEMMA IdleCall ==
  ASSUME ImportAssumption, NEW q \in Call, txn'[q] = NoTxn
  PROVE  CallInv(q)'
BY DEF CallInv, NoTxn, NoBasis, ImportAssumption

(* Whoever holds the row of a run is committing the run. *)
LEMMA Holder ==
  ASSUME ImportInv, NEW q \in Call, NEW j \in Job, lock[j] = q, ImportAssumption
  PROVE  txn[q].op = "commit" /\ txn[q].job = j
BY DEF ImportInv, JobInv, ImportAssumption

(* What a step of one request has to show.                                  *)
LEMMA StepHolds ==
  ASSUME ImportAssumption, ImportInv, NEW q \in Call, TablesInv', Stay, CallInv(q)',
         \A i \in Identity : ~lead'[i].exists => lead'[i] = NoLead,
         \A r \in Call \ {q} : txn'[r] = txn[r],
         \A k \in Job :
           /\ job'[k].sheet = job[k].sheet /\ job'[k].kind = job[k].kind
           /\ job'[k].mapping \in Mapping \cup {job[k].mapping}
           /\ \/ job'[k].status = job[k].status /\ job'[k].result = job[k].result
              \/ /\ job[k].status # Nil
                 /\ job'[k].status \in {"UPLOADED", "MAPPED", "PREVIEWED", "COMPLETED", job[k].status}
           /\ lock'[k] \in {Nil, q, lock[k]} /\ (lock[k] \in {Nil, q} \/ lock'[k] = lock[k])
           /\ lock'[k] = q => txn'[q].op = "commit" /\ txn'[q].job = k
  PROVE  ImportInv'
<1>1. ASSUME NEW k \in Job
      PROVE  JobInv(k)'
  <2>1. JobInv(k) /\ lock[k] \in Call \cup {Nil}
    BY DEF ImportInv, TablesInv
  <2>2. lock'[k] # Nil => txn'[lock'[k]].op = "commit" /\ txn'[lock'[k]].job = k
    <3>1. CASE lock'[k] = q
      BY <3>1
    <3>2. CASE lock'[k] = lock[k] /\ lock[k] # q /\ lock[k] # Nil
      <4>1. txn'[lock[k]] = txn[lock[k]]
        BY <2>1, <3>2
      <4>2. QED
        BY <2>1, <3>2, <4>1 DEF JobInv
    <3>3. QED
      BY <3>1, <3>2
  <2>3. /\ job'[k].status \in {Nil, "UPLOADED", "MAPPED", "PREVIEWED", "COMPLETED"}
        /\ job'[k].mapping \in Mapping \cup {Nil}
    BY <2>1 DEF JobInv
  <2>4. IF job'[k].status = Nil THEN job'[k].result = <<>> ELSE job'[k].sheet \in Sheets
    BY <2>1 DEF JobInv, ImportAssumption
  <2>5. QED
    BY <2>2, <2>3, <2>4 DEF JobInv
<1>2. ASSUME NEW r \in Call \ {q}
      PROVE  CallInv(r)'
  <2>1. CallInv(r) /\ txn'[r] = txn[r]
    BY DEF ImportInv
  <2>2. ASSUME txn[r].op = "commit", txn[r].read # <<>>
        PROVE  lock'[txn[r].job] = r
    <3>1. lock[txn[r].job] = r /\ txn[r].job \in Job /\ r # Nil
      BY <2>1, <2>2 DEF CallInv, ImportAssumption
    <3>2. QED
      BY <3>1
  <2>3. QED
    BY <2>1, <2>2, CallStays
<1>3. NoLead' = NoLead
  BY DEF NoLead
<1>4. QED
  BY <1>1, <1>2, <1>3 DEF ImportInv

LEMMA InitHolds ==
  ASSUME ImportAssumption, ImportInit
  PROVE  ImportInv
<1>1. TablesInv
  <2>1. \A i \in Identity : DOMAIN lead[i] = DOMAIN NoLead
    BY DEF ImportInit, NoLead
  <2>2. \A j \in Job : DOMAIN job[j] = DOMAIN NoJob
    BY DEF ImportInit
  <2>3. \A q \in Call : DOMAIN txn[q] = DOMAIN NoTxn
    BY DEF ImportInit
  <2>4. QED
    BY <2>1, <2>2, <2>3 DEF TablesInv, ImportInit
<1>2. \A i \in Identity : ~lead[i].exists => lead[i] = NoLead
  BY DEF ImportInit, NoLead
<1>3. \A j \in Job : JobInv(j)
  BY DEF ImportInit, JobInv, NoJob
<1>4. \A q \in Call : CallInv(q)
  BY DEF ImportInit, CallInv, NoTxn, NoBasis, ImportAssumption
<1>5. QED
  BY <1>1, <1>2, <1>3, <1>4 DEF ImportInv

LEMMA UploadHolds ==
  ASSUME ImportAssumption, ImportInv, NEW j \in Job, NEW kind \in Kind, NEW sheet \in Sheets,
         Upload(j, kind, sheet)
  PROVE  ImportInv'
<1>1. job[j].status = Nil /\ UNCHANGED <<lead, lock, txn, applied, basis, tangled>>
  BY DEF Upload
<1>2. /\ job' = [k \in Job |-> job'[k]] /\ \A k \in Job \ {j} : job'[k] = job[k]
      /\ job'[j].status = "UPLOADED" /\ job'[j].sheet = sheet /\ job'[j].result = job[j].result
      /\ job'[j].mapping = job[j].mapping /\ DOMAIN job'[j] = DOMAIN NoJob
  BY DEF Upload, ImportInv, TablesInv, NoJob
<1>3. TablesInv'
  BY <1>1, <1>2 DEF ImportInv, TablesInv, NoJob, NoLead, NoTxn
<1>4. \A i \in Identity : ~lead'[i].exists => lead'[i] = NoLead'
  BY <1>1 DEF ImportInv, NoLead
<1>5. Stay
  BY <1>1, <1>2 DEF Stay, Existing
<1>6. ASSUME NEW k \in Job
      PROVE  JobInv(k)'
  <2>1. CASE k = j
    BY <1>1, <1>2, <2>1 DEF ImportInv, JobInv, ImportAssumption
  <2>2. CASE k # j
    BY <1>1, <1>2, <2>2 DEF ImportInv, JobInv
  <2>3. QED
    BY <2>1, <2>2
<1>7. ASSUME NEW q \in Call
      PROVE  CallInv(q)'
  <2>1. CallInv(q)
    BY DEF ImportInv
  <2>2. QED
    BY <1>1, <1>5, <2>1, CallStays DEF CallInv
<1>8. QED
  BY <1>3, <1>4, <1>6, <1>7 DEF ImportInv

LEMMA OpenHolds ==
  ASSUME ImportAssumption, ImportInv, NEW q \in Call,
         NEW op \in {"map", "preview", "commit"}, NEW j \in Job, Open(q, op, j)
  PROVE  ImportInv'
<1>1. /\ txn[q].op = Nil /\ job[j].status # Nil
      /\ op \in {"preview", "commit"} => job[j].mapping # Nil
      /\ UNCHANGED <<lead, job, lock, applied, basis>>
  BY DEF Open, MayOpen
<1>2. /\ txn' = [r \in Call |-> txn'[r]] /\ \A r \in Call \ {q} : txn'[r] = txn[r]
      /\ DOMAIN txn'[q] = DOMAIN NoTxn
      /\ txn'[q].op = op /\ txn'[q].job = j /\ txn'[q].mapping = job[j].mapping
      /\ txn'[q].seen = {} /\ txn'[q].read = <<>> /\ txn'[q].targets = <<>>
  <2>1. txn' = [txn EXCEPT ![q] =
                  [NoTxn EXCEPT !.op = op, !.job = j, !.status = job[j].status,
                                !.mapping = job[j].mapping, !.strategy = job[j].strategy,
                                !.shown = job[j].result, !.basis = basis[j]]]
    BY DEF Open
  <2>2. txn = [r \in Call |-> txn[r]]
    BY DEF ImportInv, TablesInv
  <2>3. QED
    BY <2>1, <2>2 DEF NoTxn
<1>3. TablesInv'
  BY <1>1, <1>2 DEF ImportInv, TablesInv, NoJob, NoLead, NoTxn
<1>4. \A i \in Identity : ~lead'[i].exists => lead'[i] = NoLead
  BY <1>1 DEF ImportInv, NoLead
<1>5. Stay
  BY <1>1 DEF Stay, Existing
<1>6. CallInv(q)'
  <2>1. JobInv(j)
    BY DEF ImportInv
  <2>2. QED
    BY <1>1, <1>2, <2>1 DEF CallInv, JobInv, ImportAssumption
<1>7. \A k \in Job : lock[k] # q
  BY <1>1, Holder DEF ImportAssumption
<1>8. QED
  BY <1>1, <1>2, <1>3, <1>4, <1>5, <1>6, <1>7, StepHolds

(* A request that has ended leaves nothing behind but what it wrote.        *)
LEMMA EndHolds ==
  ASSUME ImportAssumption, ImportInv, NEW q \in Call, Stay,
         txn' = [txn EXCEPT ![q] = NoTxn],
         lead' = [i \in Identity |-> lead'[i]],
         \A i \in Identity : /\ ~lead'[i].exists => lead'[i] = NoLead
                             /\ DOMAIN lead'[i] = DOMAIN NoLead,
         job' = [k \in Job |-> job'[k]], \A k \in Job : DOMAIN job'[k] = DOMAIN NoJob,
         basis' = [k \in Job |-> basis'[k]], applied' \in [Job -> Nat],
         lock' \in [Job -> Call \cup {Nil}],
         \A k \in Job :
           /\ job'[k].sheet = job[k].sheet /\ job'[k].kind = job[k].kind
           /\ job'[k].mapping \in Mapping \cup {job[k].mapping}
           /\ \/ job'[k].status = job[k].status /\ job'[k].result = job[k].result
              \/ /\ job[k].status # Nil
                 /\ job'[k].status \in {"UPLOADED", "MAPPED", "PREVIEWED", "COMPLETED", job[k].status}
           /\ lock'[k] = IF lock[k] = q THEN Nil ELSE lock[k]
  PROVE  ImportInv'
<1>1. /\ txn' = [r \in Call |-> txn'[r]] /\ \A r \in Call \ {q} : txn'[r] = txn[r]
      /\ txn'[q] = NoTxn
  BY DEF ImportInv, TablesInv
<1>2. CallInv(q)'
  BY <1>1, IdleCall
<1>3. NoLead' = NoLead /\ NoJob' = NoJob /\ NoTxn' = NoTxn
  BY DEF NoLead, NoJob, NoTxn, NoBasis
<1>4. \A r \in Call : DOMAIN txn'[r] = DOMAIN NoTxn
  BY <1>1 DEF ImportInv, TablesInv
<1>5. TablesInv'
  BY <1>1, <1>3, <1>4 DEF TablesInv
<1>6. \A k \in Job : lock'[k] # q
  BY DEF ImportAssumption
<1>7. QED
  BY <1>1, <1>2, <1>5, <1>6, StepHolds

(* A request to map a run replaces columns of the run, never the sheet.     *)
LEMMA MapsColumns ==
  ASSUME ImportInv, NEW q \in Call, NEW j \in Job, j = txn[q].job, NEW mapping, NEW strategy,
         SetMapping(q, mapping, strategy)
  PROVE  /\ job' = [k \in Job |-> job'[k]] /\ \A k \in Job \ {j} : job'[k] = job[k]
         /\ job'[j].sheet = job[j].sheet /\ job'[j].kind = job[j].kind
         /\ job'[j].result = job[j].result /\ DOMAIN job'[j] = DOMAIN NoJob
         /\ job'[j].status = IF txn[q].status = "MAPPED" THEN job[j].status ELSE "MAPPED"
         /\ job'[j].mapping \in {job[j].mapping, mapping}
<1>1. PICK status, columns, deals :
         /\ job' = [job EXCEPT ![j].status = status, ![j].mapping = columns, ![j].strategy = deals]
         /\ status = IF txn[q].status = "MAPPED" THEN job[j].status ELSE "MAPPED"
         /\ columns \in {job[j].mapping, mapping}
  <2> DEFINE status == Column(job[j].status, txn[q].status, "MAPPED")
             columns == Column(job[j].mapping, txn[q].mapping, mapping)
             deals == Column(job[j].strategy, txn[q].strategy, strategy)
  <2>1. job' = [job EXCEPT ![j].status = status, ![j].mapping = columns, ![j].strategy = deals]
    BY Zenon DEF SetMapping
  <2>2. /\ status = IF txn[q].status = "MAPPED" THEN job[j].status ELSE "MAPPED"
        /\ columns \in {job[j].mapping, mapping}
    BY DEF Column
  <2> HIDE DEF status, columns, deals
  <2>3. QED
    BY <2>1, <2>2
<1>2. job = [k \in Job |-> job[k]] /\ DOMAIN job[j] = DOMAIN NoJob
  BY DEF ImportInv, TablesInv
<1>3. QED
  BY <1>1, <1>2 DEF NoJob

LEMMA SetMappingHolds ==
  ASSUME ImportAssumption, ImportInv, NEW q \in Call, NEW mapping \in Mapping, NEW strategy,
         SetMapping(q, mapping, strategy)
  PROVE  ImportInv'
<1> DEFINE t == txn[q]
           j == t.job
<1>1. /\ t.op = "map" /\ lock[j] = Nil /\ txn' = [txn EXCEPT ![q] = NoTxn]
      /\ UNCHANGED <<lead, lock, applied, basis, tangled>>
  BY DEF SetMapping
<1>2. CallInv(q) /\ j \in Job /\ job[j].status # Nil
  BY <1>1 DEF ImportInv, CallInv, ImportAssumption
<1>3. /\ job' = [k \in Job |-> job'[k]] /\ \A k \in Job \ {j} : job'[k] = job[k]
      /\ job'[j].sheet = job[j].sheet /\ job'[j].kind = job[j].kind
      /\ job'[j].result = job[j].result /\ DOMAIN job'[j] = DOMAIN NoJob
      /\ job'[j].status \in {job[j].status, "MAPPED"}
      /\ job'[j].mapping \in {job[j].mapping, mapping}
  BY <1>2, MapsColumns
<1>4. Stay
  BY <1>1, <1>2, <1>3 DEF Stay, Existing, ImportAssumption
<1>5. \A k \in Job : DOMAIN job'[k] = DOMAIN NoJob
  BY <1>3 DEF ImportInv, TablesInv
<1>6. \A k \in Job : lock[k] # q
  <2> HIDE DEF j
  <2> QED
    BY <1>1, Holder
<1>7. \A k \in Job :
           /\ job'[k].sheet = job[k].sheet /\ job'[k].kind = job[k].kind
           /\ job'[k].mapping \in Mapping \cup {job[k].mapping}
           /\ \/ job'[k].status = job[k].status /\ job'[k].result = job[k].result
              \/ /\ job[k].status # Nil
                 /\ job'[k].status \in {"UPLOADED", "MAPPED", "PREVIEWED", "COMPLETED", job[k].status}
           /\ lock'[k] = IF lock[k] = q THEN Nil ELSE lock[k]
  BY <1>1, <1>2, <1>3, <1>6
<1>8. QED
  <2> HIDE DEF j, t
  <2>1. TablesInv /\ \A i \in Identity : ~lead[i].exists => lead[i] = NoLead
    BY DEF ImportInv
  <2>2. /\ lead' = [i \in Identity |-> lead'[i]] /\ basis' = [k \in Job |-> basis'[k]]
        /\ applied' \in [Job -> Nat] /\ lock' \in [Job -> Call \cup {Nil}]
        /\ \A i \in Identity : /\ ~lead'[i].exists => lead'[i] = NoLead
                               /\ DOMAIN lead'[i] = DOMAIN NoLead
    BY <1>1, <2>1 DEF TablesInv
  <2>3. QED
    BY <1>1, <1>3, <1>4, <1>5, <1>7, <2>2, EndHolds

(* What reading the leads settles: whom the run deals to, and how.          *)
LEMMA ReadDeals ==
  ASSUME ImportAssumption, ImportInv, NEW q \in Call,
         NEW active \in SUBSET Member, NEW working, Read(q, active, working),
         txn'[q].targets # <<>>
  PROVE  txn'[q].targets \in Seq(Member) /\ GoRound(txn'[q].owner, txn'[q].targets)
<1> DEFINE t == txn[q]
           kind == job[t.job].kind
           deals == t.strategy \in Dealing /\ kind # "ACTION_IMPORT"
           targets == IF deals THEN Targets(t.strategy, active, working) ELSE <<>>
           sheet == job[t.job].sheet
           rows == RowsRead(t)
           outcome == Evaluate(kind, rows, Existing, TRUE)
           owner == Owners(kind, rows, t.strategy, outcome, targets)
<1>1. t.op # Nil
  BY DEF Read, ImportAssumption
<1>2. /\ txn'[q].targets \in {targets, <<>>}
      /\ txn'[q].targets # <<>> => txn'[q].owner = owner
  <2>1. DOMAIN txn[q] = DOMAIN NoTxn /\ DOMAIN txn = Call
    BY DEF ImportInv, TablesInv
  <2>2. PICK found : txn' = [txn EXCEPT
           ![q].seen = Existing, ![q].read = found,
           ![q].targets = IF t.op = "commit" THEN targets ELSE <<>>,
           ![q].owner = IF t.op = "commit" THEN owner ELSE <<>>]
    BY Zenon DEF Read
  <2> HIDE DEF targets, owner
  <2>3. QED
    BY <2>1, <2>2 DEF NoTxn
<1>3. targets # <<>> /\ txn'[q].targets = targets /\ txn'[q].owner = owner
  BY <1>2
<1>4. deals
  BY <1>3
<1>5. targets \in Seq(Member)
  BY <1>4, TargetsAreMembers
<1>6. sheet \in Sheets
  <2>1. CallInv(q) /\ t.job \in Job /\ job[t.job].status # Nil
    BY <1>1 DEF ImportInv, CallInv
  <2>2. QED
    BY <2>1 DEF ImportInv, JobInv
<1>7. outcome \in [DOMAIN sheet -> Outcomes] /\ DOMAIN outcome = DOMAIN sheet
  <2>1. outcome \in [DOMAIN rows -> Outcomes]
    <3> HIDE DEF kind, rows
    <3> QED
      BY EvaluateTyped
  <2>2. DOMAIN rows = DOMAIN sheet
    BY DEF RowsRead, Reading
  <2> HIDE DEF outcome, rows, sheet
  <2>3. QED
    BY <2>1, <2>2
<1>8. GoRound(owner, targets)
  <2>1. kind # "ACTION_IMPORT" /\ t.strategy # "NONE" /\ t.strategy # "COLUMN"
    BY <1>4 DEF Dealing
  <2> HIDE DEF outcome, targets, sheet, rows, kind
  <2>2. \A n : (CASE kind = "ACTION_IMPORT" \/ t.strategy = "NONE" -> Nil
                  [] t.strategy = "COLUMN" -> rows[n].owner
                  [] OTHER -> targets[((Turn(outcome, n) - 1) % Len(targets)) + 1])
                = targets[((Turn(outcome, n) - 1) % Len(targets)) + 1]
    BY <2>1, Zenon
  <2>3. owner = [n \in {k \in DOMAIN sheet : outcome[k] # "error"} |->
                   targets[((Turn(outcome, n) - 1) % Len(targets)) + 1]]
    BY <1>7, <2>2, Zenon DEF Owners
  <2> HIDE DEF owner
  <2>4. QED
    BY <1>6, <1>7, <2>3 DEF GoRound
<1>9. QED
  <2> HIDE DEF owner, targets
  <2> QED
    BY <1>3, <1>5, <1>8

LEMMA ReadHolds ==
  ASSUME ImportAssumption, ImportInv, NEW q \in Call,
         NEW active \in SUBSET Member, NEW working, Read(q, active, working)
  PROVE  ImportInv'
<1> DEFINE t == txn[q]
<1>1. /\ t.op \in {"preview", "commit"} /\ t.read = <<>>
      /\ UNCHANGED <<lead, job, applied, basis, tangled>>
      /\ t.op = "commit" => lock[t.job] = Nil
      /\ lock' = [lock EXCEPT ![t.job] = IF t.op = "commit" THEN q ELSE @]
  BY DEF Read
<1>2. /\ txn' = [r \in Call |-> txn'[r]] /\ \A r \in Call \ {q} : txn'[r] = txn[r]
      /\ DOMAIN txn'[q] = DOMAIN NoTxn
      /\ txn'[q].op = t.op /\ txn'[q].job = t.job /\ txn'[q].mapping = t.mapping
      /\ txn'[q].seen = Existing
  <2>1. DOMAIN txn[q] = DOMAIN NoTxn /\ txn = [r \in Call |-> txn[r]]
    BY DEF ImportInv, TablesInv
  <2>2. PICK found, targets, owner :
          txn' = [txn EXCEPT ![q].seen = Existing, ![q].read = found,
                             ![q].targets = targets, ![q].owner = owner]
    BY DEF Read
  <2>3. QED
    BY <2>1, <2>2 DEF NoTxn
<1>3. CallInv(q) /\ t.op # Nil /\ t.job \in Job /\ job[t.job].status # Nil
  BY <1>1 DEF ImportInv, CallInv, ImportAssumption
<1>4. /\ lock' \in [Job -> Call \cup {Nil}]
      /\ \A k \in Job : lock'[k] = IF k = t.job /\ t.op = "commit" THEN q ELSE lock[k]
  BY <1>1 DEF ImportInv, TablesInv
<1>5. TablesInv'
  BY <1>1, <1>2, <1>4 DEF ImportInv, TablesInv, NoJob, NoLead, NoTxn
<1>6. \A i \in Identity : ~lead'[i].exists => lead'[i] = NoLead
  BY <1>1 DEF ImportInv, NoLead
<1>7. Stay
  BY <1>1 DEF Stay, Existing
<1>8. CallInv(q)'
  <2>1. Existing' = Existing
    BY <1>1 DEF Existing
  <2>2. \A owner, targets : GoRound(owner, targets)' <=> GoRound(owner, targets)
    BY DEF GoRound, Turn
  <2>3. txn'[q].targets # <<>> =>
          txn'[q].targets \in Seq(Member) /\ GoRound(txn'[q].owner, txn'[q].targets)
    BY ReadDeals
  <2>4. t.op = "commit" => lock'[t.job] = q
    BY <1>3, <1>4
  <2>5. QED
    BY <1>1, <1>2, <1>3, <2>1, <2>2, <2>3, <2>4 DEF CallInv
<1>9. \A k \in Job : lock'[k] = q => txn'[q].op = "commit" /\ txn'[q].job = k
  <2>1. \A k \in Job : lock[k] = q => t.op = "commit" /\ t.job = k
    BY Holder
  <2>2. QED
    BY <1>2, <1>4, <2>1
<1>10. \A k \in Job :
           /\ job'[k].sheet = job[k].sheet /\ job'[k].kind = job[k].kind
           /\ job'[k].mapping \in Mapping \cup {job[k].mapping}
           /\ \/ job'[k].status = job[k].status /\ job'[k].result = job[k].result
              \/ /\ job[k].status # Nil
                 /\ job'[k].status \in {"UPLOADED", "MAPPED", "PREVIEWED", "COMPLETED", job[k].status}
           /\ lock'[k] \in {Nil, q, lock[k]} /\ (lock[k] \in {Nil, q} \/ lock'[k] = lock[k])
           /\ lock'[k] = q => txn'[q].op = "commit" /\ txn'[q].job = k
  BY <1>1, <1>4, <1>9
<1>11. QED
  <2> HIDE DEF t
  <2> QED
    BY <1>2, <1>5, <1>6, <1>7, <1>8, <1>10, StepHolds

(* What a preview or a commit puts on show touches no other run.            *)
Shows(t, found, status) ==
  LET j == t.job
  IN /\ job' = [k \in Job |-> job'[k]] /\ \A k \in Job \ {j} : job'[k] = job[k]
     /\ basis' = [k \in Job |-> basis'[k]] /\ \A k \in Job \ {j} : basis'[k] = basis[k]
     /\ job'[j].sheet = job[j].sheet /\ job'[j].kind = job[j].kind
     /\ job'[j].mapping = job[j].mapping /\ job'[j].status = status
     /\ job'[j].result = Column(job[j].result, t.shown, found)
     /\ basis'[j] = IF job'[j].result = found
                    THEN [seen |-> t.seen, mapping |-> t.mapping] ELSE basis[j]
     /\ \A k \in Job : DOMAIN job'[k] = DOMAIN NoJob

LEMMA ShowTyped ==
  ASSUME ImportInv, NEW q \in Call, txn[q].job \in Job, NEW found, NEW status,
         Show(txn[q], found, status)
  PROVE  Shows(txn[q], found, status)
<1> DEFINE t == txn[q]
           j == t.job
           value == Column(job[j].result, t.shown, found)
<1>1. /\ job' = [job EXCEPT ![j].status = status, ![j].result = value]
      /\ basis' = [basis EXCEPT ![j] = IF job'[j].result = found
                                       THEN [seen |-> t.seen, mapping |-> t.mapping] ELSE @]
  BY DEF Show
<1>2. TablesInv
  BY DEF ImportInv
<1> HIDE DEF value
<1>3. /\ job' = [k \in Job |-> job'[k]] /\ \A k \in Job \ {j} : job'[k] = job[k]
      /\ job'[j].sheet = job[j].sheet /\ job'[j].kind = job[j].kind
      /\ job'[j].mapping = job[j].mapping /\ job'[j].status = status /\ job'[j].result = value
      /\ \A k \in Job : DOMAIN job'[k] = DOMAIN NoJob
  BY <1>1, <1>2 DEF TablesInv, NoJob
<1>4. /\ basis' = [k \in Job |-> basis'[k]] /\ \A k \in Job \ {j} : basis'[k] = basis[k]
      /\ basis'[j] = IF job'[j].result = found
                     THEN [seen |-> t.seen, mapping |-> t.mapping] ELSE basis[j]
  BY <1>1, <1>2 DEF TablesInv
<1>5. QED
  BY <1>3, <1>4 DEF value, Shows

LEMMA FinishPreviewHolds ==
  ASSUME ImportAssumption, ImportInv, NEW q \in Call, FinishPreview(q)
  PROVE  ImportInv'
<1> DEFINE t == txn[q]
           j == t.job
           found == Evaluate(job[j].kind, RowsRead(t), t.seen, FALSE)
           status == Column(job[j].status, t.status, "PREVIEWED")
<1>1. /\ t.op = "preview" /\ lock[j] = Nil /\ UNCHANGED <<lead, lock, applied, tangled>>
      /\ txn' = [txn EXCEPT ![q] = NoTxn] /\ Show(t, found, status)
  BY DEF FinishPreview
<1>2. CallInv(q) /\ j \in Job /\ job[j].status # Nil
  BY <1>1 DEF ImportInv, CallInv, ImportAssumption
<1>3. status \in {job[j].status, "PREVIEWED"}
  BY DEF Column
<1> HIDE DEF found, status
<1>4. /\ job' = [k \in Job |-> job'[k]] /\ \A k \in Job \ {j} : job'[k] = job[k]
      /\ basis' = [k \in Job |-> basis'[k]]
      /\ job'[j].sheet = job[j].sheet /\ job'[j].kind = job[j].kind
      /\ job'[j].mapping = job[j].mapping /\ job'[j].status = status
      /\ \A k \in Job : DOMAIN job'[k] = DOMAIN NoJob
  <2>1. PICK what, stands : Show(t, what, stands) /\ what = found /\ stands = status
    BY <1>1
  <2>2. Shows(t, what, stands)
    BY <1>2, <2>1, ShowTyped
  <2>3. QED
    BY <2>1, <2>2 DEF Shows
<1>5. Stay
  BY <1>1, <1>2, <1>3, <1>4 DEF Stay, Existing, ImportAssumption
<1>6. \A k \in Job : lock[k] # q
  <2> HIDE DEF j
  <2> QED
    BY <1>1, Holder
<1>7. \A k \in Job :
           /\ job'[k].sheet = job[k].sheet /\ job'[k].kind = job[k].kind
           /\ job'[k].mapping \in Mapping \cup {job[k].mapping}
           /\ \/ job'[k].status = job[k].status /\ job'[k].result = job[k].result
              \/ /\ job[k].status # Nil
                 /\ job'[k].status \in {"UPLOADED", "MAPPED", "PREVIEWED", "COMPLETED", job[k].status}
           /\ lock'[k] = IF lock[k] = q THEN Nil ELSE lock[k]
  BY <1>1, <1>2, <1>3, <1>4, <1>6
<1>8. QED
  <2> HIDE DEF j, t
  <2>1. TablesInv /\ \A i \in Identity : ~lead[i].exists => lead[i] = NoLead
    BY DEF ImportInv
  <2>2. /\ lead' = [i \in Identity |-> lead'[i]]
        /\ applied' \in [Job -> Nat] /\ lock' \in [Job -> Call \cup {Nil}]
        /\ \A i \in Identity : /\ ~lead'[i].exists => lead'[i] = NoLead
                               /\ DOMAIN lead'[i] = DOMAIN NoLead
    BY <1>1, <2>1 DEF TablesInv
  <2>3. QED
    BY <1>1, <1>4, <1>5, <1>7, <2>2, EndHolds

LEMMA FailHolds ==
  ASSUME ImportAssumption, ImportInv, NEW q \in Call, Fail(q)
  PROVE  ImportInv'
<1>1. /\ UNCHANGED <<lead, job, applied, basis, tangled>> /\ txn' = [txn EXCEPT ![q] = NoTxn]
      /\ lock' = [k \in Job |-> IF lock[k] = q THEN Nil ELSE lock[k]]
  BY DEF Fail
<1>2. Stay
  BY <1>1 DEF Stay, Existing
<1>3. TablesInv /\ \A i \in Identity : ~lead[i].exists => lead[i] = NoLead
  BY DEF ImportInv
<1>4. /\ lead' = [i \in Identity |-> lead'[i]] /\ basis' = [k \in Job |-> basis'[k]]
      /\ job' = [k \in Job |-> job'[k]] /\ \A k \in Job : DOMAIN job'[k] = DOMAIN NoJob
      /\ applied' \in [Job -> Nat] /\ lock' \in [Job -> Call \cup {Nil}]
      /\ \A i \in Identity : /\ ~lead'[i].exists => lead'[i] = NoLead
                             /\ DOMAIN lead'[i] = DOMAIN NoLead
  BY <1>1, <1>3 DEF TablesInv
<1>5. QED
  BY <1>1, <1>2, <1>4, EndHolds

LEMMA CreateLeadHolds ==
  ASSUME ImportAssumption, ImportInv, NEW i \in Identity, NEW v, CreateLead(i, v)
  PROVE  ImportInv'
<1>1. UNCHANGED <<job, lock, txn, applied, basis, tangled>>
  BY DEF CreateLead
<1>2. /\ lead' = [k \in Identity |-> lead'[k]] /\ \A k \in Identity \ {i} : lead'[k] = lead[k]
      /\ lead'[i].exists /\ DOMAIN lead'[i] = DOMAIN NoLead
  BY DEF CreateLead, ImportInv, TablesInv, NoLead
<1>3. TablesInv'
  BY <1>1, <1>2 DEF ImportInv, TablesInv, NoJob, NoLead, NoTxn
<1>4. \A k \in Identity : ~lead'[k].exists => lead'[k] = NoLead'
  BY <1>2 DEF ImportInv, NoLead
<1>5. Stay
  BY <1>1, <1>2 DEF Stay, Existing
<1>6. ASSUME NEW k \in Job
      PROVE  JobInv(k)'
  BY <1>1 DEF ImportInv, JobInv
<1>7. ASSUME NEW q \in Call
      PROVE  CallInv(q)'
  <2>1. CallInv(q)
    BY DEF ImportInv
  <2>2. QED
    BY <1>1, <1>5, <2>1, CallStays DEF CallInv
<1>8. QED
  BY <1>3, <1>4, <1>6, <1>7 DEF ImportInv

(* A row that is not in error and makes no lead is about a lead there was.  *)
LEMMA FateTells ==
  ASSUME NEW kind, NEW rows, NEW seen, NEW commit, NEW n \in DOMAIN rows,
         Evaluate(kind, rows, seen, commit)[n] # "error"
  PROVE  /\ kind = "ACTION_IMPORT" =>
              rows[n].id \in seen /\ Evaluate(kind, rows, seen, commit)[n] = "create"
         /\ kind # "ACTION_IMPORT" => rows[n].id # Nil
         /\ Evaluate(kind, rows, seen, commit)[n] = "update" => rows[n].id \in seen
<1>1. kind = "ACTION_IMPORT" =>
        Evaluate(kind, rows, seen, commit)[n] = OutcomeOfAction(rows[n], seen, commit)
  BY DEF Evaluate
<1>2. kind # "ACTION_IMPORT" =>
        Evaluate(kind, rows, seen, commit)[n] = OutcomeOfLead(kind, rows[n], seen)
  BY DEF Evaluate
<1>3. QED
  BY <1>1, <1>2 DEF OutcomeOfAction, OutcomeOfLead

(* What a commit finds for the rows of its run. *)
FoundBy(t) == Evaluate(job[t.job].kind, RowsRead(t), t.seen, TRUE)

(* What a commit writes to one lead. *)
LEMMA CommitWrites ==
  ASSUME ImportAssumption, ImportInv, NEW q \in Call, FinishCommit(q), NEW i \in Identity
  PROVE  /\ lead[i].exists => lead'[i].exists
         /\ ~lead'[i].exists => lead'[i] = NoLead
         /\ DOMAIN lead'[i] = DOMAIN NoLead
         /\ /\ job[txn[q].job].kind # "ACTION_IMPORT"
            /\ RowsOf(RowsRead(txn[q]), FoundBy(txn[q]), i, {"create", "update"}) # {}
            => lead'[i].exists
<1> DEFINE t == txn[q]
           kind == job[t.job].kind
           rows == RowsRead(t)
           outcome == Evaluate(kind, rows, t.seen, TRUE)
           named == RowsOf(rows, outcome, i, {"create", "update"})
<1>1. lead'[i] = Written(t, outcome, i) /\ FoundBy(t) = outcome
  BY DEF FinishCommit, FoundBy
<1>2. DOMAIN lead[i] = DOMAIN NoLead /\ (~lead[i].exists => lead[i] = NoLead)
  BY DEF ImportInv, TablesInv
<1>3. CASE named = {}
  <2>1. lead'[i] = lead[i]
    BY <1>1, <1>3 DEF Written
  <2>2. RowsOf(RowsRead(txn[q]), FoundBy(txn[q]), i, {"create", "update"}) = {}
    BY <1>1, <1>3
  <2>3. QED
    BY <1>2, <2>1, <2>2
<1>4. CASE named # {} /\ kind = "ACTION_IMPORT"
  <2>1. PICK n \in DOMAIN outcome : rows[n].id = i /\ outcome[n] # "error"
    BY <1>4 DEF RowsOf
  <2>2. n \in DOMAIN rows
    BY <2>1 DEF Evaluate
  <2>3. i \in t.seen
    <3> HIDE DEF kind, rows, t
    <3> QED
      BY <1>4, <2>1, <2>2, FateTells
  <2>4. lead[i].exists
    BY <2>3 DEF ImportInv, CallInv, Existing
  <2>5. lead'[i] = [lead[i] EXCEPT !.history = @ + Cardinality(named)]
    BY <1>1, <1>4, Zenon DEF Written
  <2>6. lead'[i].exists /\ DOMAIN lead'[i] = DOMAIN NoLead
    <3> HIDE DEF named
    <3> QED
      BY <1>2, <2>4, <2>5 DEF NoLead
  <2>7. QED
    BY <1>4, <2>6
<1>5. CASE named # {} /\ kind # "ACTION_IMPORT"
  <2>1. PICK v, o : lead'[i] = [lead[i] EXCEPT !.exists = TRUE, !.value = v, !.owner = o]
    <3>1. lead'[i] = LET owned == {n \in named : t.owner[n] # Nil}
                         owner == IF owned = {} THEN t.read[i].owner ELSE t.owner[LastOf(owned)]
                     IN [lead[i] EXCEPT !.exists = TRUE,
                           !.value = Column(@, t.read[i].value, rows[LastOf(named)].value),
                           !.owner = Column(@, t.read[i].owner, owner)]
      BY <1>1, <1>5, Zenon DEF Written
    <3>2. QED
      BY <3>1
  <2>2. lead'[i].exists /\ DOMAIN lead'[i] = DOMAIN NoLead
    BY <1>2, <2>1 DEF NoLead
  <2>3. QED
    BY <2>2
<1>6. QED
  BY <1>3, <1>4, <1>5

LEMMA FinishCommitHolds ==
  ASSUME ImportAssumption, ImportInv, NEW q \in Call, FinishCommit(q)
  PROVE  ImportInv'
<1> DEFINE t == txn[q]
           j == t.job
           found == FoundBy(t)
<1>1. /\ t.op = "commit" /\ t.read # <<>> /\ Show(t, found, "COMPLETED")
      /\ txn' = [txn EXCEPT ![q] = NoTxn] /\ lock' = [lock EXCEPT ![j] = Nil]
      /\ applied' = [applied EXCEPT ![j] = @ + 1]
      /\ lead' = [i \in Identity |-> lead'[i]]
  BY DEF FinishCommit, FoundBy
<1>2. CallInv(q) /\ j \in Job /\ job[j].status # Nil /\ lock[j] = q
  BY <1>1 DEF ImportInv, CallInv, ImportAssumption
<1> HIDE DEF found
<1>3. PICK what : Shows(t, what, "COMPLETED")
  BY <1>1, <1>2, ShowTyped
<1>4. /\ job' = [k \in Job |-> job'[k]] /\ \A k \in Job \ {j} : job'[k] = job[k]
      /\ basis' = [k \in Job |-> basis'[k]]
      /\ job'[j].sheet = job[j].sheet /\ job'[j].kind = job[j].kind
      /\ job'[j].mapping = job[j].mapping /\ job'[j].status = "COMPLETED"
      /\ \A k \in Job : DOMAIN job'[k] = DOMAIN NoJob
  BY <1>3 DEF Shows
<1>5. /\ lock' \in [Job -> Call \cup {Nil}]
      /\ \A k \in Job : lock'[k] = IF k = j THEN Nil ELSE lock[k]
  BY <1>1 DEF ImportInv, TablesInv
<1>6. applied' \in [Job -> Nat]
  BY <1>1, <1>2 DEF ImportInv, TablesInv
<1>7. \A i \in Identity : /\ ~lead'[i].exists => lead'[i] = NoLead
                          /\ DOMAIN lead'[i] = DOMAIN NoLead
                          /\ lead[i].exists => lead'[i].exists
  BY CommitWrites
<1>8. Stay
  BY <1>2, <1>4, <1>7 DEF Stay, Existing, ImportAssumption
<1>9. \A k \in Job : lock[k] = q => k = j
  BY Holder
<1>10. \A k \in Job :
           /\ job'[k].sheet = job[k].sheet /\ job'[k].kind = job[k].kind
           /\ job'[k].mapping \in Mapping \cup {job[k].mapping}
           /\ \/ job'[k].status = job[k].status /\ job'[k].result = job[k].result
              \/ /\ job[k].status # Nil
                 /\ job'[k].status \in {"UPLOADED", "MAPPED", "PREVIEWED", "COMPLETED", job[k].status}
           /\ lock'[k] = IF lock[k] = q THEN Nil ELSE lock[k]
  BY <1>2, <1>4, <1>5, <1>9
<1>11. QED
  <2>1. /\ txn' = [txn EXCEPT ![q] = NoTxn] /\ lead' = [i \in Identity |-> lead'[i]]
        /\ job' = [k \in Job |-> job'[k]] /\ basis' = [k \in Job |-> basis'[k]]
        /\ \A k \in Job : DOMAIN job'[k] = DOMAIN NoJob
        /\ lock' \in [Job -> Call \cup {Nil}]
        /\ \A i \in Identity : /\ ~lead'[i].exists => lead'[i] = NoLead
                               /\ DOMAIN lead'[i] = DOMAIN NoLead
    BY <1>1, <1>4, <1>5, <1>7
  <2>2. QED
    BY <1>6, <1>8, <1>10, <2>1, EndHolds

LEMMA AskedTyped ==
  ASSUME ImportAssumption, NEW asked \in Asked
  PROVE  asked[1] \in Mapping
BY DEF ImportAssumption

LEMMA ImportHolds ==
  ASSUME ImportAssumption, ImportInv, [ImportNext]_importVars
  PROVE  ImportInv'
<1>1. ASSUME NEW j \in Job, NEW kind \in Kind, NEW sheet \in Sheets, Upload(j, kind, sheet)
      PROVE  ImportInv'
  BY <1>1, UploadHolds
<1>2. ASSUME NEW q \in Call, NEW asked \in Asked, SetMapping(q, asked[1], asked[2])
      PROVE  ImportInv'
  BY <1>2, AskedTyped, SetMappingHolds
<1>3. ASSUME NEW q \in Call, NEW op \in {"map", "preview", "commit"}, NEW j \in Job, Open(q, op, j)
      PROVE  ImportInv'
  BY <1>3, OpenHolds
<1>4. ASSUME NEW q \in Call, NEW active \in SUBSET Member, NEW working \in SUBSET active,
             Read(q, active, working)
      PROVE  ImportInv'
  BY <1>4, ReadHolds
<1>5. ASSUME NEW q \in Call, FinishPreview(q) \/ FinishCommit(q) \/ Fail(q)
      PROVE  ImportInv'
  BY <1>5, FinishPreviewHolds, FinishCommitHolds, FailHolds
<1>6. ASSUME NEW i \in Identity, NEW v \in Value, CreateLead(i, v)
      PROVE  ImportInv'
  BY <1>6, CreateLeadHolds
<1>7. CASE UNCHANGED importVars
  <2>1. ASSUME NEW j \in Job
        PROVE  JobInv(j)'
    BY <1>7 DEF importVars, ImportInv, JobInv
  <2>2. Stay
    BY <1>7 DEF importVars, Stay, Existing
  <2>3. ASSUME NEW q \in Call
        PROVE  CallInv(q)'
    <3>1. CallInv(q)
      BY DEF ImportInv
    <3>2. QED
      BY <1>7, <2>2, <3>1, CallStays DEF CallInv, importVars
  <2>4. TablesInv' /\ \A i \in Identity : ~lead'[i].exists => lead'[i] = NoLead'
    BY <1>7 DEF importVars, ImportInv, TablesInv, NoLead, NoJob, NoTxn
  <2>5. QED
    BY <2>1, <2>3, <2>4 DEF ImportInv
<1>8. QED
  BY <1>1, <1>2, <1>3, <1>4, <1>5, <1>6, <1>7 DEF ImportNext

-----------------------------------------------------------------------------
(* What is on show was found, and with what.                                *)

(* What a request loaded, and what it is for. *)
Loaded(r) == <<txn[r].op, txn[r].job, txn[r].status, txn[r].mapping, txn[r].shown, txn[r].basis>>

LEMMA ShownStays ==
  ASSUME NEW j \in Job, ShownInv(j), tangled \subseteq tangled', basis'[j] = basis[j],
         job'[j].sheet = job[j].sheet, job'[j].kind = job[j].kind,
         job'[j].mapping = job[j].mapping, job'[j].status = job[j].status,
         job'[j].result = job[j].result
  PROVE  ShownInv(j)'
BY DEF ShownInv, FoundWith

LEMMA LoadedStays ==
  ASSUME NEW r \in Call, LoadedInv(r), tangled \subseteq tangled',
         Loaded(r)' = Loaded(r), txn[r].op # Nil, NEW j \in Job, j = txn[r].job,
         job'[j].sheet = job[j].sheet, job'[j].kind = job[j].kind,
         \/ job'[j].result = job[j].result /\ basis'[j] = basis[j]
         \/ FoundWith(job'[j].result, job'[j], basis'[j]),
         j \notin tangled' /\ txn[r].op # "map" =>
           /\ job'[j].mapping = job[j].mapping
           /\ \/ job'[j].result = job[j].result /\ basis'[j] = basis[j]
              \/ basis'[j].mapping = job'[j].mapping,
         j \notin tangled' /\ txn[r].op = "map" =>
           /\ \A p \in Call : txn'[p].op # Nil /\ txn'[p].job = j => txn'[p].op = "map"
           /\ job'[j].status \in {"PREVIEWED", "COMPLETED"} => job'[j].status = job[j].status
  PROVE  LoadedInv(r)'
<1> DEFINE t == txn[r]
           u == txn'[r]
<1>1. /\ u.op = t.op /\ u.job = j /\ t.job = j /\ u.status = t.status
      /\ u.mapping = t.mapping /\ u.shown = t.shown /\ u.basis = t.basis
  BY DEF Loaded
<1>2. \A result, with : FoundWith(result, job'[j], with) <=> FoundWith(result, job[j], with)
  BY DEF FoundWith
<1>3. t.status = "PREVIEWED" => FoundWith(t.shown, job[j], t.basis)
  BY <1>1 DEF LoadedInv
<1>4. job[j].result = t.shown \/ FoundWith(job[j].result, job[j], basis[j])
  BY <1>1 DEF LoadedInv
<1>5. j \notin tangled =>
        /\ t.status = "PREVIEWED" => t.basis.mapping = t.mapping
        /\ t.op # "map" =>
             /\ t.mapping = job[j].mapping
             /\ job[j].result = t.shown \/ basis[j].mapping = job[j].mapping
        /\ t.op = "map" /\ job[j].status \in {"PREVIEWED", "COMPLETED"} =>
             t.status = job[j].status
  BY <1>1 DEF LoadedInv
<1> HIDE DEF t
<1>6. u.status = "PREVIEWED" => FoundWith(u.shown, job'[j], u.basis)
  BY <1>1, <1>2, <1>3
<1>7. job'[j].result = u.shown \/ FoundWith(job'[j].result, job'[j], basis'[j])
  BY <1>1, <1>2, <1>4
<1>8. j \notin tangled' =>
        /\ u.status = "PREVIEWED" => u.basis.mapping = u.mapping
        /\ u.op # "map" =>
             /\ u.mapping = job'[j].mapping
             /\ job'[j].result = u.shown \/ basis'[j].mapping = job'[j].mapping
        /\ u.op = "map" =>
             /\ \A p \in Call : txn'[p].op # Nil /\ txn'[p].job = j => txn'[p].op = "map"
             /\ job'[j].status \in {"PREVIEWED", "COMPLETED"} => u.status = job'[j].status
  BY <1>1, <1>5 DEF t
<1>9. QED
  BY <1>1, <1>6, <1>7, <1>8 DEF LoadedInv

LEMMA LoadedIdle ==
  ASSUME NEW r \in Call, txn'[r].op = Nil
  PROVE  LoadedInv(r)'
BY DEF LoadedInv

(* A step that leaves every run as it is, and opens no request.             *)
LEMMA RunsStay ==
  ASSUME ImportInv, ForetellInv, UNCHANGED <<job, basis, tangled>>,
         \A r \in Call : txn'[r].op # Nil => txn[r].op # Nil /\ Loaded(r)' = Loaded(r)
  PROVE  ForetellInv'
<1>1. ASSUME NEW j \in Job
      PROVE  ShownInv(j)'
  BY ShownStays DEF ForetellInv
<1>2. ASSUME NEW r \in Call, txn'[r].op # Nil
      PROVE  LoadedInv(r)'
  <2>1. txn[r].op # Nil /\ Loaded(r)' = Loaded(r)
    BY <1>2
  <2>2. LoadedInv(r) /\ CallInv(r)
    BY DEF ForetellInv, ImportInv
  <2>3. PICK j \in Job : j = txn[r].job
    BY <2>1, <2>2 DEF CallInv
  <2>4. ASSUME j \notin tangled, txn[r].op = "map", NEW p \in Call,
               txn'[p].op # Nil, txn'[p].job = j
        PROVE  txn'[p].op = "map"
    <3>1. txn[p].op # Nil /\ txn[p].job = j /\ txn'[p].op = txn[p].op
      BY <2>4 DEF Loaded
    <3>2. QED
      BY <2>1, <2>2, <2>3, <2>4, <3>1 DEF LoadedInv
  <2>5. QED
    BY <2>1, <2>2, <2>3, <2>4, LoadedStays
<1>3. QED
  BY <1>1, <1>2, LoadedIdle DEF ForetellInv

LEMMA InitForetells ==
  ASSUME ImportAssumption, ImportInit
  PROVE  ForetellInv
<1>1. \A j \in Job : ShownInv(j)
  BY DEF ImportInit, ShownInv, NoJob, ImportAssumption
<1>2. \A q \in Call : LoadedInv(q)
  BY DEF ImportInit, LoadedInv, NoTxn
<1>3. QED
  BY <1>1, <1>2 DEF ForetellInv

(* A run without a row has no request. *)
LEMMA UploadForetells ==
  ASSUME ImportAssumption, ImportInv, ForetellInv, NEW j \in Job, NEW kind \in Kind,
         NEW sheet \in Sheets, Upload(j, kind, sheet)
  PROVE  ForetellInv'
<1>1. job[j].status = Nil /\ UNCHANGED <<lead, lock, txn, applied, basis, tangled>>
  BY DEF Upload
<1>2. /\ \A k \in Job \ {j} : job'[k] = job[k]
      /\ job'[j].status = "UPLOADED" /\ job'[j].result = job[j].result
  BY DEF Upload, ImportInv, TablesInv, NoJob
<1>3. ASSUME NEW k \in Job
      PROVE  ShownInv(k)'
  <2>1. CASE k = j
    <3>1. job[j].result = <<>>
      BY <1>1 DEF ImportInv, JobInv
    <3>2. QED
      BY <1>2, <2>1, <3>1 DEF ShownInv
  <2>2. CASE k # j
    BY <1>1, <1>2, <2>2, ShownStays DEF ForetellInv
  <2>3. QED
    BY <2>1, <2>2
<1>4. ASSUME NEW r \in Call, txn[r].op # Nil
      PROVE  LoadedInv(r)'
  <2>1. LoadedInv(r) /\ CallInv(r)
    BY DEF ForetellInv, ImportInv
  <2>2. PICK k \in Job : k = txn[r].job /\ k # j
    BY <1>1, <1>4, <2>1 DEF CallInv
  <2>3. job'[k] = job[k] /\ Loaded(r)' = Loaded(r)
    BY <1>1, <1>2, <2>2 DEF Loaded
  <2>4. k \notin tangled /\ txn[r].op = "map" =>
          \A p \in Call : txn'[p].op # Nil /\ txn'[p].job = k => txn'[p].op = "map"
    BY <1>1, <1>4, <2>1, <2>2 DEF LoadedInv
  <2>5. QED
    BY <1>1, <1>4, <2>1, <2>2, <2>3, <2>4, LoadedStays
<1>5. ASSUME NEW r \in Call, txn[r].op = Nil
      PROVE  LoadedInv(r)'
  BY <1>1, <1>5, LoadedIdle
<1>6. QED
  BY <1>3, <1>4, <1>5 DEF ForetellInv

(* A request loads what is on show; one that maps the run beside any other,  *)
(* or any other beside one that maps it, tangles the run.                   *)
LEMMA OpenForetells ==
  ASSUME ImportAssumption, ImportInv, ForetellInv, NEW q \in Call,
         NEW op \in {"map", "preview", "commit"}, NEW j \in Job, Open(q, op, j)
  PROVE  ForetellInv'
<1> DEFINE others == {txn[p].op : p \in {p \in Call : txn[p].job = j}}
<1>1. /\ txn[q].op = Nil /\ UNCHANGED <<lead, job, lock, applied, basis>>
      /\ tangled' = IF "map" \in others \cup {op} /\ others \ {op} # {}
                    THEN tangled \cup {j} ELSE tangled
  BY DEF Open
<1>2. /\ \A r \in Call \ {q} : txn'[r] = txn[r]
      /\ txn'[q].op = op /\ txn'[q].job = j /\ txn'[q].status = job[j].status
      /\ txn'[q].mapping = job[j].mapping /\ txn'[q].shown = job[j].result
      /\ txn'[q].basis = basis[j]
  BY DEF Open, ImportInv, TablesInv, NoTxn
<1>3. tangled \subseteq tangled'
  BY <1>1
<1>4. ASSUME j \notin tangled', NEW p \in Call, txn[p].op # Nil, txn[p].job = j
      PROVE  /\ op = "map" => txn[p].op = "map"
             /\ txn[p].op = "map" => op = "map"
  <2>1. txn[p].op \in others
    BY <1>4
  <2>2. ~ ("map" \in others \cup {op} /\ others \ {op} # {})
    BY <1>1, <1>4
  <2>3. QED
    BY <2>1, <2>2
<1> HIDE DEF others
<1>5. ASSUME NEW k \in Job
      PROVE  ShownInv(k)'
  BY <1>1, <1>3, ShownStays DEF ForetellInv
<1>6. ASSUME NEW r \in Call \ {q}, txn[r].op # Nil
      PROVE  LoadedInv(r)'
  <2>1. LoadedInv(r) /\ CallInv(r)
    BY DEF ForetellInv, ImportInv
  <2>2. PICK k \in Job : k = txn[r].job
    BY <1>6, <2>1 DEF CallInv
  <2>3. Loaded(r)' = Loaded(r)
    BY <1>2 DEF Loaded
  <2>4. ASSUME k \notin tangled', txn[r].op = "map", NEW p \in Call,
               txn'[p].op # Nil, txn'[p].job = k
        PROVE  txn'[p].op = "map"
    <3>1. CASE p = q
      BY <1>2, <1>4, <1>6, <2>2, <2>4, <3>1
    <3>2. CASE p # q
      <4>1. txn'[p] = txn[p] /\ k \notin tangled
        BY <1>2, <1>3, <2>4, <3>2
      <4>2. QED
        BY <1>6, <2>1, <2>2, <2>4, <4>1 DEF LoadedInv
    <3>3. QED
      BY <3>1, <3>2
  <2>5. QED
    BY <1>1, <1>3, <1>6, <2>1, <2>2, <2>3, <2>4, LoadedStays
<1>7. LoadedInv(q)'
  <2>1. ShownInv(j)
    BY DEF ForetellInv
  <2>2. txn'[q].status = "PREVIEWED" => FoundWith(txn'[q].shown, job'[j], txn'[q].basis)
    BY <1>1, <1>2, <2>1 DEF ShownInv
  <2>3. j \notin tangled' /\ txn'[q].status = "PREVIEWED" =>
          txn'[q].basis.mapping = txn'[q].mapping
    BY <1>2, <1>3, <2>1 DEF ShownInv
  <2>4. j \notin tangled' /\ op = "map" =>
          \A p \in Call : txn'[p].op # Nil /\ txn'[p].job = j => txn'[p].op = "map"
    BY <1>2, <1>4
  <2>5. QED
    BY <1>1, <1>2, <2>2, <2>3, <2>4 DEF LoadedInv
<1>8. ASSUME NEW r \in Call \ {q}, txn[r].op = Nil
      PROVE  LoadedInv(r)'
  BY <1>2, <1>8, LoadedIdle
<1>9. QED
  BY <1>5, <1>6, <1>7, <1>8 DEF ForetellInv

(* Mapping an untangled run again leaves it MAPPED: a request that found it  *)
(* MAPPED finds no preview and no commit has changed that meanwhile.         *)
LEMMA SetMappingForetells ==
  ASSUME ImportAssumption, ImportInv, ForetellInv, NEW q \in Call, NEW mapping, NEW strategy,
         SetMapping(q, mapping, strategy)
  PROVE  ForetellInv'
<1> DEFINE t == txn[q]
           j == t.job
<1>1. /\ t.op = "map" /\ txn' = [txn EXCEPT ![q] = NoTxn]
      /\ UNCHANGED <<lead, lock, applied, basis, tangled>>
  BY DEF SetMapping
<1>2. CallInv(q) /\ j \in Job /\ LoadedInv(q) /\ ShownInv(j) /\ t.op # Nil
  BY <1>1 DEF ImportInv, CallInv, ForetellInv, ImportAssumption
<1>3. /\ \A k \in Job \ {j} : job'[k] = job[k]
      /\ job'[j].sheet = job[j].sheet /\ job'[j].kind = job[j].kind
      /\ job'[j].result = job[j].result
      /\ job'[j].status = IF t.status = "MAPPED" THEN job[j].status ELSE "MAPPED"
  BY <1>2, MapsColumns
<1>4. /\ \A r \in Call \ {q} : txn'[r] = txn[r] /\ Loaded(r)' = Loaded(r)
      /\ txn'[q].op = Nil
  BY <1>1 DEF ImportInv, TablesInv, NoTxn, Loaded
<1>5. j \notin tangled => job'[j].status \notin {"PREVIEWED", "COMPLETED"}
  BY <1>1, <1>2, <1>3 DEF LoadedInv
<1>6. ASSUME NEW k \in Job
      PROVE  ShownInv(k)'
  <2>1. CASE k = j
    <3>1. /\ job'[j].status \in {"PREVIEWED", "COMPLETED"}
                => job[j].status \in {"PREVIEWED", "COMPLETED"}
          /\ job'[j].result = job[j].result /\ basis'[j] = basis[j]
      BY <1>1, <1>3
    <3>2. \A result, with : FoundWith(result, job'[j], with) <=> FoundWith(result, job[j], with)
      BY <1>3 DEF FoundWith
    <3>3. QED
      BY <1>1, <1>2, <1>5, <2>1, <3>1, <3>2 DEF ShownInv
  <2>2. CASE k # j
    BY <1>1, <1>3, <2>2, ShownStays DEF ForetellInv
  <2>3. QED
    BY <2>1, <2>2
<1>7. ASSUME NEW r \in Call \ {q}, txn[r].op # Nil
      PROVE  LoadedInv(r)'
  <2>1. LoadedInv(r) /\ CallInv(r)
    BY DEF ForetellInv, ImportInv
  <2>2. PICK k \in Job : k = txn[r].job
    BY <1>7, <2>1 DEF CallInv
  <2>3. /\ job'[k].sheet = job[k].sheet /\ job'[k].kind = job[k].kind
        /\ job'[k].result = job[k].result /\ basis'[k] = basis[k]
    BY <1>1, <1>3
  <2>4. ASSUME k \notin tangled, txn[r].op # "map"
        PROVE  job'[k].mapping = job[k].mapping
    <3>1. k # j
      BY <1>1, <1>2, <1>7, <2>2, <2>4 DEF LoadedInv
    <3>2. QED
      BY <1>3, <3>1
  <2>5. ASSUME k \notin tangled, job'[k].status \in {"PREVIEWED", "COMPLETED"}
        PROVE  job'[k].status = job[k].status
    BY <1>3, <1>5, <2>5
  <2>6. ASSUME k \notin tangled, txn[r].op = "map", NEW p \in Call,
               txn'[p].op # Nil, txn'[p].job = k
        PROVE  txn'[p].op = "map"
    <3>1. p # q /\ txn'[p] = txn[p]
      BY <1>4, <2>6
    <3>2. QED
      BY <1>7, <2>1, <2>2, <2>6, <3>1 DEF LoadedInv
  <2>7. QED
    BY <1>1, <1>4, <1>7, <2>1, <2>2, <2>3, <2>4, <2>5, <2>6, LoadedStays
<1>8. ASSUME NEW r \in Call, r = q \/ txn[r].op = Nil
      PROVE  LoadedInv(r)'
  BY <1>4, <1>8, LoadedIdle
<1>9. QED
  BY <1>6, <1>7, <1>8 DEF ForetellInv

(* A preview or a commit shows what it found, or leaves what another showed. *)
LEMMA ShowForetells ==
  ASSUME ImportAssumption, ImportInv, ForetellInv, NEW q \in Call,
         txn[q].op \in {"preview", "commit"}, NEW found, NEW status, NEW commit \in BOOLEAN,
         found = Evaluate(job[txn[q].job].kind, RowsRead(txn[q]), txn[q].seen, commit),
         Show(txn[q], found, status),
         txn' = [txn EXCEPT ![q] = NoTxn], UNCHANGED tangled
  PROVE  ForetellInv'
<1> DEFINE t == txn[q]
           j == t.job
           with == [seen |-> t.seen, mapping |-> t.mapping]
<1>1. CallInv(q) /\ j \in Job /\ LoadedInv(q) /\ t.op # Nil /\ t.op # "map"
  BY DEF ImportInv, CallInv, ForetellInv, ImportAssumption
<1>2. Shows(t, found, status)
  BY <1>1, ShowTyped
<1>3. /\ \A k \in Job \ {j} : job'[k] = job[k] /\ basis'[k] = basis[k]
      /\ job'[j].sheet = job[j].sheet /\ job'[j].kind = job[j].kind
      /\ job'[j].mapping = job[j].mapping
      /\ job'[j].result = (IF found = t.shown THEN job[j].result ELSE found)
      /\ basis'[j] = (IF job'[j].result = found THEN with ELSE basis[j])
  BY <1>2 DEF Shows, Column
<1>4. FoundWith(found, job[j], with)
  BY DEF FoundWith, RowsRead
<1>5. \A result, from : FoundWith(result, job'[j], from) <=> FoundWith(result, job[j], from)
  BY <1>3 DEF FoundWith
<1>6. /\ job[j].result = t.shown \/ FoundWith(job[j].result, job[j], basis[j])
      /\ j \notin tangled =>
           /\ t.mapping = job[j].mapping
           /\ job[j].result = t.shown \/ basis[j].mapping = job[j].mapping
  BY <1>1 DEF LoadedInv
<1>7. FoundWith(job'[j].result, job'[j], basis'[j])
  <2> HIDE DEF with, j, t
  <2>1. CASE job'[j].result = found
    BY <1>3, <1>4, <1>5, <2>1
  <2>2. CASE job'[j].result # found
    BY <1>3, <1>5, <1>6, <2>2
  <2>3. QED
    BY <2>1, <2>2
<1>8. j \notin tangled => basis'[j].mapping = job'[j].mapping
  BY <1>3, <1>6
<1>9. /\ \A r \in Call \ {q} : txn'[r] = txn[r] /\ Loaded(r)' = Loaded(r)
      /\ txn'[q].op = Nil
  BY DEF ImportInv, TablesInv, NoTxn, Loaded
<1>10. ASSUME NEW k \in Job
       PROVE  ShownInv(k)'
  <2>1. CASE k = j
    BY <1>7, <1>8, <2>1 DEF ShownInv
  <2>2. CASE k # j
    BY <1>3, <2>2, ShownStays DEF ForetellInv
  <2>3. QED
    BY <2>1, <2>2
<1>11. ASSUME NEW r \in Call \ {q}, txn[r].op # Nil
       PROVE  LoadedInv(r)'
  <2>1. LoadedInv(r) /\ CallInv(r)
    BY DEF ForetellInv, ImportInv
  <2>2. PICK k \in Job : k = txn[r].job
    BY <1>11, <2>1 DEF CallInv
  <2>3. ASSUME k \notin tangled, txn[r].op = "map"
        PROVE  /\ k # j
               /\ \A p \in Call : txn'[p].op # Nil /\ txn'[p].job = k => txn'[p].op = "map"
    <3>1. \A p \in Call : txn[p].op # Nil /\ txn[p].job = k => txn[p].op = "map"
      BY <1>11, <2>1, <2>2, <2>3 DEF LoadedInv
    <3>2. QED
      BY <1>1, <1>9, <3>1
  <2>4. CASE k = j
    <3>1. /\ job'[k].sheet = job[k].sheet /\ job'[k].kind = job[k].kind
          /\ job'[k].mapping = job[k].mapping
          /\ FoundWith(job'[k].result, job'[k], basis'[k])
          /\ k \notin tangled => basis'[k].mapping = job'[k].mapping /\ txn[r].op # "map"
      BY <1>3, <1>7, <1>8, <2>3, <2>4
    <3> HIDE DEF with, j, t
    <3>2. QED
      BY <1>9, <1>11, <2>1, <2>2, <3>1, LoadedStays
  <2>5. CASE k # j
    <3>1. job'[k] = job[k] /\ basis'[k] = basis[k]
      BY <1>3, <2>5
    <3>2. QED
      BY <1>9, <1>11, <2>1, <2>2, <2>3, <3>1, LoadedStays
  <2>6. QED
    BY <2>4, <2>5
<1>12. ASSUME NEW r \in Call, r = q \/ txn[r].op = Nil
       PROVE  LoadedInv(r)'
  BY <1>9, <1>12, LoadedIdle
<1>13. QED
  BY <1>10, <1>11, <1>12 DEF ForetellInv

LEMMA FinishForetells ==
  ASSUME ImportAssumption, ImportInv, ForetellInv, NEW q \in Call,
         FinishPreview(q) \/ FinishCommit(q)
  PROVE  ForetellInv'
<1>1. PICK commit, found, status :
         /\ commit \in BOOLEAN /\ txn[q].op \in {"preview", "commit"} /\ Show(txn[q], found, status)
         /\ found = Evaluate(job[txn[q].job].kind, RowsRead(txn[q]), txn[q].seen, commit)
         /\ txn' = [txn EXCEPT ![q] = NoTxn] /\ UNCHANGED tangled
  <2>1. CASE FinishPreview(q)
    <3> DEFINE found == Evaluate(job[txn[q].job].kind, RowsRead(txn[q]), txn[q].seen, FALSE)
               status == Column(job[txn[q].job].status, txn[q].status, "PREVIEWED")
    <3>1. /\ txn[q].op = "preview" /\ Show(txn[q], found, status)
          /\ txn' = [txn EXCEPT ![q] = NoTxn] /\ UNCHANGED tangled
      BY <2>1 DEF FinishPreview
    <3>2. QED
      BY <3>1
  <2>2. CASE FinishCommit(q)
    <3> DEFINE found == Evaluate(job[txn[q].job].kind, RowsRead(txn[q]), txn[q].seen, TRUE)
    <3>1. /\ txn[q].op = "commit" /\ Show(txn[q], found, "COMPLETED")
          /\ txn' = [txn EXCEPT ![q] = NoTxn] /\ UNCHANGED tangled
      BY <2>2 DEF FinishCommit
    <3>2. QED
      BY <3>1
  <2>3. QED
    BY <2>1, <2>2
<1>2. QED
  BY <1>1, ShowForetells

LEMMA ForetellHolds ==
  ASSUME ImportAssumption, ImportInv, ForetellInv, [ImportNext]_importVars
  PROVE  ForetellInv'
<1>1. ASSUME NEW j \in Job, NEW kind \in Kind, NEW sheet \in Sheets, Upload(j, kind, sheet)
      PROVE  ForetellInv'
  BY <1>1, UploadForetells
<1>2. ASSUME NEW q \in Call, NEW asked \in Asked, SetMapping(q, asked[1], asked[2])
      PROVE  ForetellInv'
  BY <1>2, SetMappingForetells
<1>3. ASSUME NEW q \in Call, NEW op \in {"map", "preview", "commit"}, NEW j \in Job, Open(q, op, j)
      PROVE  ForetellInv'
  BY <1>3, OpenForetells
<1>4. ASSUME NEW q \in Call, NEW active \in SUBSET Member, NEW working \in SUBSET active,
             Read(q, active, working)
      PROVE  ForetellInv'
  <2>1. txn[q].op # Nil /\ UNCHANGED <<job, basis, tangled>>
    BY <1>4 DEF Read, ImportAssumption
  <2>2. PICK found, targets, owner :
          txn' = [txn EXCEPT ![q].seen = Existing, ![q].read = found,
                             ![q].targets = targets, ![q].owner = owner]
    BY <1>4 DEF Read
  <2>3. DOMAIN txn[q] = DOMAIN NoTxn /\ txn = [r \in Call |-> txn[r]]
    BY DEF ImportInv, TablesInv
  <2>4. \A r \in Call : Loaded(r)' = Loaded(r) /\ txn'[r].op = txn[r].op
    BY <2>2, <2>3 DEF Loaded, NoTxn
  <2>5. QED
    BY <2>1, <2>4, RunsStay
<1>5. ASSUME NEW q \in Call, FinishPreview(q) \/ FinishCommit(q)
      PROVE  ForetellInv'
  BY <1>5, FinishForetells
<1>6. ASSUME NEW q \in Call, Fail(q)
      PROVE  ForetellInv'
  <2>1. UNCHANGED <<job, basis, tangled>> /\ txn' = [txn EXCEPT ![q] = NoTxn]
    BY <1>6 DEF Fail
  <2>2. \A r \in Call : txn'[r].op # Nil => txn[r].op # Nil /\ Loaded(r)' = Loaded(r)
    BY <2>1 DEF ImportInv, TablesInv, NoTxn, Loaded
  <2>3. QED
    BY <2>1, <2>2, RunsStay
<1>7. ASSUME NEW i \in Identity, NEW v \in Value, CreateLead(i, v)
      PROVE  ForetellInv'
  BY <1>7, RunsStay DEF CreateLead, Loaded
<1>8. CASE UNCHANGED importVars
  BY <1>8, RunsStay DEF importVars, Loaded
<1>9. QED
  BY <1>1, <1>2, <1>3, <1>4, <1>5, <1>6, <1>7, <1>8 DEF ImportNext

LEMMA ImportInvariant ==
  ASSUME ImportAssumption
  PROVE  ImportSpec => [](ImportInv /\ ForetellInv)
<1>1. ImportInit => ImportInv /\ ForetellInv
  BY InitHolds, InitForetells
<1>2. (ImportInv /\ ForetellInv) /\ [ImportNext]_importVars => (ImportInv /\ ForetellInv)'
  BY ImportHolds, ForetellHolds
<1>3. QED
  BY <1>1, <1>2, PTL DEF ImportSpec

(* An import keeps its tables in shape: the result of a run covers its      *)
(* sheet, and only a commit of the run holds its row.                       *)
THEOREM ImportTypeCorrect ==
  ASSUME ImportAssumption
  PROVE  ImportSpec => []ImportTypeOK
<1>1. ASSUME ImportInv, ForetellInv
      PROVE  ImportTypeOK
  <2>1. ASSUME NEW j \in Job, job[j].result # <<>>
        PROVE  job[j].result \in [DOMAIN job[j].sheet -> Outcomes]
    <3>1. PICK commit \in BOOLEAN : job[j].result =
            Evaluate(job[j].kind, Reading(job[j].sheet, basis[j].mapping), basis[j].seen, commit)
      BY <1>1, <2>1 DEF ForetellInv, ShownInv, FoundWith
    <3>2. DOMAIN Reading(job[j].sheet, basis[j].mapping) = DOMAIN job[j].sheet
      BY DEF Reading
    <3>3. QED
      BY <3>1, <3>2, EvaluateTyped
  <2>2. QED
    BY <1>1, <2>1 DEF ImportInv, JobInv, ImportTypeOK
<1>2. QED
  BY <1>1, ImportInvariant, PTL

(* Whoever is active and at work, and whichever rows are in error, a run    *)
(* deals its rows by weight, to a turn.                                     *)
THEOREM BatchesSplitEvenly ==
  ASSUME ImportAssumption
  PROVE  ImportSpec => []EvenSplit
<1>1. ASSUME ImportInv
      PROVE  EvenSplit
  <2>1. ASSUME NEW q \in Call, txn[q].targets # <<>>, NEW m \in Member
        PROVE  LET t == txn[q]
                   share == Cardinality({n \in DOMAIN t.owner : t.owner[n] = m})
                   weight == Cardinality({n \in DOMAIN t.targets : t.targets[n] = m})
                   turns == Cardinality(DOMAIN t.owner) \div Len(t.targets)
               IN share \in weight * turns .. weight * (turns + 1)
    <3>1. txn[q].targets \in Seq(Member) /\ GoRound(txn[q].owner, txn[q].targets)
      BY <1>1, <2>1 DEF ImportInv, CallInv
    <3>2. QED
      BY <2>1, <3>1, RoundsAreEven
  <2>2. QED
    BY <2>1, Zenon DEF EvenSplit
<1>2. QED
  BY <1>1, ImportInvariant, PTL

(* A step that applies a run is a commit of it by whoever holds its row.    *)
LEMMA AppliedByCommit ==
  ASSUME ImportAssumption, ImportInv, [ImportNext]_importVars, NEW k \in Job, applied'[k] > applied[k]
  PROVE  \E q \in Call : FinishCommit(q) /\ k = txn[q].job /\ lock[k] = q
<1>1. ~UNCHANGED applied
  BY DEF ImportInv, TablesInv
<1>2. PICK q \in Call : FinishCommit(q)
  <2>1. \A j \in Job, kind \in Kind, sheet \in Sheets : ~Upload(j, kind, sheet)
    BY <1>1 DEF Upload
  <2>2. \A q \in Call, asked \in Asked : ~SetMapping(q, asked[1], asked[2])
    BY <1>1 DEF SetMapping
  <2>3. \A q \in Call, op \in {"map", "preview", "commit"}, j \in Job : ~Open(q, op, j)
    BY <1>1 DEF Open
  <2>4. \A q \in Call : \A active, working : ~Read(q, active, working)
    BY <1>1 DEF Read
  <2>5. \A q \in Call : ~FinishPreview(q) /\ ~Fail(q)
    BY <1>1 DEF FinishPreview, Fail
  <2>6. \A i \in Identity, v \in Value : ~CreateLead(i, v)
    BY <1>1 DEF CreateLead
  <2>7. ImportNext
    BY <1>1 DEF importVars
  <2>8. QED
    BY <2>1, <2>2, <2>3, <2>4, <2>5, <2>6, <2>7 DEF ImportNext
<1>3. applied' = [applied EXCEPT ![txn[q].job] = @ + 1]
  BY <1>2 DEF FinishCommit
<1>4. k = txn[q].job
  BY <1>3 DEF ImportInv, TablesInv
<1>5. lock[txn[q].job] = q
  BY <1>2 DEF FinishCommit, ImportInv, CallInv
<1>6. QED
  BY <1>2, <1>4, <1>5

(* What a commit does to a row that is not in error, and what was foretold. *)
LEMMA CommitDoes ==
  ASSUME ImportAssumption, ImportInv, ForetellInv, NEW q \in Call, FinishCommit(q),
         NEW n \in DOMAIN RowsRead(txn[q])
  PROVE  LET t == txn[q]
             j == t.job
             row == RowsRead(t)[n]
             outcome == FoundBy(t)[n]
             actions == job[j].kind = "ACTION_IMPORT"
         IN /\ t.status = "PREVIEWED" /\ t.basis.seen = t.seen
               /\ (j \in tangled => t.basis.mapping = t.mapping)
                 => outcome = t.shown[n] \/ (actions /\ row.value = Odd)
            /\ outcome = "create" /\ ~actions => ~lead[row.id].exists /\ lead'[row.id].exists
            /\ outcome = "update" \/ (outcome = "create" /\ actions) => lead[row.id].exists
<1> DEFINE t == txn[q]
           j == t.job
           kind == job[j].kind
           rows == RowsRead(t)
           row == rows[n]
           outcome == FoundBy(t)
<1>1. t.op = "commit" /\ t.read # <<>> /\ Insertable(kind, rows, outcome)
  BY DEF FinishCommit, FoundBy
<1>2. CallInv(q) /\ LoadedInv(q) /\ j \in Job /\ t.seen \subseteq Existing
      /\ job[j].status # Nil /\ t.op # Nil /\ t.mapping \in Mapping
  BY <1>1 DEF ImportInv, ForetellInv, CallInv, ImportAssumption
<1>3. outcome = Evaluate(kind, rows, t.seen, TRUE)
  BY DEF FoundBy
<1>4. DOMAIN outcome = DOMAIN rows /\ outcome[n] \in Outcomes
  <2> HIDE DEF kind, rows, t, outcome
  <2>1. outcome \in [DOMAIN rows -> Outcomes]
    BY <1>3, EvaluateTyped
  <2>2. n \in DOMAIN rows
    BY DEF rows, t
  <2>3. QED
    BY <2>1, <2>2
<1>5. row.id \in Identity \cup {Nil}
  <2> DEFINE Row == [id : Identity \cup {Nil}, value : Value \cup {Bad, Odd},
                     owner : Member \cup {Nil}]
  <2>1. job[j].sheet \in Seq([Mapping -> Row])
    BY <1>2 DEF ImportInv, JobInv, ImportAssumption
  <2>2. n \in DOMAIN job[j].sheet /\ row = job[j].sheet[n][t.mapping]
    BY DEF RowsRead, Reading
  <2>3. row \in Row
    <3> HIDE DEF Row, row, j, t
    <3>1. job[j].sheet[n] \in [Mapping -> Row]
      BY <2>1, <2>2
    <3>2. QED
      BY <1>2, <2>2, <3>1
  <2>4. QED
    BY <2>3
<1>6. ASSUME t.status = "PREVIEWED", t.basis.seen = t.seen,
             j \in tangled => t.basis.mapping = t.mapping,
             ~(kind = "ACTION_IMPORT" /\ row.value = Odd)
      PROVE  outcome[n] = t.shown[n]
  <2>1. t.basis.mapping = t.mapping
    BY <1>2, <1>6 DEF LoadedInv
  <2>2. PICK commit \in BOOLEAN : t.shown = Evaluate(kind, rows, t.seen, commit)
    BY <1>2, <1>6, <2>1 DEF LoadedInv, FoundWith, RowsRead
  <2>3. Evaluate(kind, rows, t.seen, commit)[n] = Evaluate(kind, rows, t.seen, TRUE)[n]
    <3> HIDE DEF rows, kind
    <3>1. n \in DOMAIN rows
      BY DEF rows
    <3>2. QED
      BY <1>6, <3>1 DEF Evaluate, OutcomeOfAction
  <2>4. QED
    BY <1>3, <2>2, <2>3
<1>7. ASSUME outcome[n] # "error"
      PROVE  /\ kind = "ACTION_IMPORT" => row.id \in t.seen
             /\ kind # "ACTION_IMPORT" => row.id # Nil
             /\ outcome[n] = "update" => row.id \in t.seen
  <2> HIDE DEF rows, kind, t, outcome
  <2>1. n \in DOMAIN rows /\ Evaluate(kind, rows, t.seen, TRUE)[n] # "error"
    BY <1>3, <1>7 DEF rows, t
  <2>2. /\ kind = "ACTION_IMPORT" => rows[n].id \in t.seen
        /\ kind # "ACTION_IMPORT" => rows[n].id # Nil
        /\ Evaluate(kind, rows, t.seen, TRUE)[n] = "update" => rows[n].id \in t.seen
    BY <2>1 DEF Evaluate, OutcomeOfLead, OutcomeOfAction
  <2>3. QED
    BY <1>3, <2>2 DEF row
<1>8. ASSUME outcome[n] = "create", kind # "ACTION_IMPORT"
      PROVE  ~lead[row.id].exists /\ lead'[row.id].exists
  <2>1. row.id \in Identity
    BY <1>5, <1>7, <1>8
  <2>2. /\ n \in RowsOf(rows, outcome, row.id, {"create"})
        /\ n \in RowsOf(rows, outcome, row.id, {"create", "update"})
    BY <1>4, <1>8 DEF RowsOf
  <2>3. ~lead[row.id].exists
    <3> HIDE DEF outcome, row, rows, kind
    <3> QED
      BY <1>1, <1>8, <2>1, <2>2 DEF Insertable
  <2>4. lead'[row.id].exists
    <3>1. RowsOf(RowsRead(txn[q]), FoundBy(txn[q]), row.id, {"create", "update"}) # {}
      BY <2>2
    <3>2. job[txn[q].job].kind # "ACTION_IMPORT"
      BY <1>8
    <3> HIDE DEF row
    <3>3. QED
      BY <2>1, <3>1, <3>2, CommitWrites
  <2>5. QED
    BY <2>3, <2>4
<1>9. outcome[n] = "update" \/ (outcome[n] = "create" /\ kind = "ACTION_IMPORT")
        => lead[row.id].exists
  BY <1>2, <1>7 DEF Existing
<1>10. QED
  <2> HIDE DEF outcome, row
  <2> QED
    BY <1>6, <1>8, <1>9 DEF row, outcome

(* A commit that finds the leads the dry run found does to every row what   *)
(* the dry run on show said of it, whatever was mapped, previewed and        *)
(* committed before and meanwhile, except an action of a type that does not  *)
(* exist and, in a run mapped during a preview or commit of it, a dry run    *)
(* under another mapping; a row it reports as created made a lead.          *)
THEOREM CommitsAreForetold ==
  ASSUME ImportAssumption
  PROVE  ImportSpec => PreviewForetells
<1>1. ASSUME ImportInv, ForetellInv, [ImportNext]_importVars
      PROVE  CommitAsForetold
  <2>1. ASSUME NEW k \in Job, applied'[k] > applied[k], NEW n \in DOMAIN RowsRead(txn[lock[k]])
        PROVE  LET t == txn[lock[k]]
                   row == RowsRead(t)[n]
                   outcome == Evaluate(job[k].kind, RowsRead(t), t.seen, TRUE)[n]
                   actions == job[k].kind = "ACTION_IMPORT"
               IN /\ t.status = "PREVIEWED" /\ t.basis.seen = t.seen
                     /\ (k \in tangled => t.basis.mapping = t.mapping)
                       => outcome = t.shown[n] \/ (actions /\ row.value = Odd)
                  /\ outcome = "create" /\ ~actions =>
                       ~lead[row.id].exists /\ lead'[row.id].exists
                  /\ outcome = "update" \/ (outcome = "create" /\ actions) => lead[row.id].exists
    <3>1. PICK q \in Call : FinishCommit(q) /\ k = txn[q].job /\ lock[k] = q
      BY <1>1, <2>1, AppliedByCommit
    <3>2. n \in DOMAIN RowsRead(txn[q])
      BY <2>1, <3>1
    <3>3. FoundBy(txn[q]) = Evaluate(job[k].kind, RowsRead(txn[lock[k]]), txn[lock[k]].seen, TRUE)
      BY <3>1 DEF FoundBy
    <3>4. QED
      BY <1>1, <3>1, <3>2, <3>3, CommitDoes
  <2>2. QED
    BY <2>1, Zenon DEF CommitAsForetold
<1>2. QED
  BY <1>1, ImportInvariant, PTL DEF ImportSpec, PreviewForetells

-----------------------------------------------------------------------------
(* The calendar.  Months are counted from the January of year 0.            *)

MonthStart(t) == Ordinal(t \div 12, (t % 12) + 1, 1)
LengthAt(t) == MonthLength(t \div 12, (t % 12) + 1)
MonthsTo(start) == 12 * start.year + start.month - 1

(* A first date of a recurrence: a date there is. *)
Dates == {start \in [year : Nat, month : 1..12, day : 1..31] :
            start.day <= MonthLength(start.year, start.month)}

(* The months that precede one in its year, and its days. *)
LEMMA MonthFacts ==
  ASSUME NEW y \in Nat, NEW m \in 1..12
  PROVE  /\ DaysBefore(m) = CASE m = 1 -> 0 [] m = 2 -> 31 [] m = 3 -> 59 [] m = 4 -> 90
                              [] m = 5 -> 120 [] m = 6 -> 151 [] m = 7 -> 181 [] m = 8 -> 212
                              [] m = 9 -> 243 [] m = 10 -> 273 [] m = 11 -> 304 [] m = 12 -> 334
         /\ DaysBefore(m) \in Nat /\ MonthLength(y, m) \in 28..31
<1>1. m = 1 \/ m = 2 \/ m = 3 \/ m = 4 \/ m = 5 \/ m = 6 \/ m = 7 \/ m = 8 \/ m = 9
      \/ m = 10 \/ m = 11 \/ m = 12
  OBVIOUS
<1>2. DaysBefore(m) \in Nat
  BY <1>1 DEF DaysBefore
<1>3. MonthLength(y, m) \in 28..31
  BY <1>1 DEF MonthLength
<1>4. QED
  BY <1>1, <1>2, <1>3 DEF DaysBefore

(* A year has 365 days, and one more every fourth. *)
LEMMA YearLength ==
  ASSUME NEW y \in Nat
  PROVE  /\ Ordinal(y, 1, 1) = 365 * y + ((y + 3) \div 4) /\ Ordinal(y, 1, 1) \in Nat
         /\ Ordinal(y + 1, 1, 1) = Ordinal(y, 1, 1) + 365 + (IF Leap(y) THEN 1 ELSE 0)
<1>1. DaysBefore(1) = 0
  BY DEF DaysBefore
<1>2. (y + 4) \div 4 = ((y + 3) \div 4) + (IF y % 4 = 0 THEN 1 ELSE 0)
  OBVIOUS
<1>3. QED
  BY <1>1, <1>2 DEF Ordinal, Leap

LEMMA YearsApart ==
  ASSUME NEW y \in Nat, NEW z \in Nat, y < z
  PROVE  Ordinal(z, 1, 1) >= Ordinal(y, 1, 1) + 365 * (z - y)
                               + (IF Leap(y) THEN 1 ELSE 0)
<1>1. ((z + 3) \div 4) >= ((y + 3) \div 4) + (IF y % 4 = 0 THEN 1 ELSE 0)
  OBVIOUS
<1>2. /\ Ordinal(y, 1, 1) = 365 * y + ((y + 3) \div 4)
      /\ Ordinal(z, 1, 1) = 365 * z + ((z + 3) \div 4)
  BY YearLength
<1>3. 365 * z - 365 * y = 365 * (z - y)
  OBVIOUS
<1>4. QED
  BY <1>1, <1>2, <1>3 DEF Leap

(* The months of a year follow each other and end with it. *)
LEMMA MonthsOfYear ==
  ASSUME NEW y \in Nat, NEW m \in 1..12
  PROVE  /\ Ordinal(y, m, 1) \in Nat /\ Ordinal(y, 1, 1) <= Ordinal(y, m, 1)
         /\ Ordinal(y, m, 1) + MonthLength(y, m) <= Ordinal(y + 1, 1, 1)
         /\ m = 12 => Ordinal(y, m, 1) + MonthLength(y, m) = Ordinal(y + 1, 1, 1)
         /\ m < 12 => Ordinal(y, m, 1) + MonthLength(y, m) = Ordinal(y, m + 1, 1)
         /\ \A n \in 1..12 : m < n => Ordinal(y, m, 1) + MonthLength(y, m) <= Ordinal(y, n, 1)
<1> DEFINE leap == IF Leap(y) THEN 1 ELSE 0
           base == Ordinal(y, 1, 1)
<1>1. base = 365 * y + ((y + 3) \div 4) /\ base \in Nat /\ Ordinal(y + 1, 1, 1) = base + 365 + leap
  BY YearLength
<1>2. leap \in {0, 1} /\ (Leap(y) <=> leap = 1)
  OBVIOUS
<1>3. \A n \in 1..12 : Ordinal(y, n, 1) = base + DaysBefore(n) + (IF n > 2 THEN leap ELSE 0)
  BY <1>1, MonthFacts DEF Ordinal
<1>4. \A n \in 1..12 : MonthLength(y, n) =
        CASE n = 2 -> 28 + leap [] n \in {4, 6, 9, 11} -> 30 [] n \in {1, 3, 5, 7, 8, 10, 12} -> 31
  BY <1>2 DEF MonthLength
<1> HIDE DEF leap, base
<1>5. QED
  BY <1>1, <1>2, <1>3, <1>4, MonthFacts

LEMMA DayOfMonth ==
  ASSUME NEW y \in Nat, NEW m \in 1..12, NEW d \in 1..31
  PROVE  Ordinal(y, m, d) = Ordinal(y, m, 1) - 1 + d
BY MonthFacts DEF Ordinal

(* Months counted from the January of year 0 follow each other. *)
LEMMA MonthIndex ==
  ASSUME NEW y \in Nat, NEW m \in 1..12
  PROVE  /\ (12 * y + m - 1) \div 12 = y /\ ((12 * y + m - 1) % 12) + 1 = m
         /\ MonthStart(12 * y + m - 1) = Ordinal(y, m, 1)
         /\ LengthAt(12 * y + m - 1) = MonthLength(y, m)
<1>1. (12 * y + m - 1) \div 12 = y /\ (12 * y + m - 1) % 12 = m - 1
  OBVIOUS
<1>2. QED
  BY <1>1 DEF MonthStart, LengthAt

LEMMA YearAndMonth ==
  ASSUME NEW t \in Nat
  PROVE  \E y \in Nat, m \in 1..12 : t = 12 * y + m - 1
<1>1. t \div 12 \in Nat /\ t % 12 \in 0..11 /\ t = 12 * (t \div 12) + (t % 12)
  OBVIOUS
<1>2. QED
  BY <1>1

LEMMA MonthsApart ==
  ASSUME NEW t \in Nat, NEW u \in Nat, t < u
  PROVE  /\ MonthStart(t) + LengthAt(t) <= MonthStart(u)
         /\ MonthStart(u) >= MonthStart(t) + (u - t) + 3
         /\ MonthStart(t) \in Nat /\ MonthStart(u) \in Nat
         /\ LengthAt(t) \in 28..31 /\ LengthAt(u) \in 28..31
<1>1. PICK y \in Nat, m \in 1..12 : t = 12 * y + m - 1
  BY YearAndMonth
<1>2. PICK z \in Nat, n \in 1..12 : u = 12 * z + n - 1
  BY YearAndMonth
<1>3. /\ MonthStart(t) = Ordinal(y, m, 1) /\ LengthAt(t) = MonthLength(y, m)
      /\ MonthStart(u) = Ordinal(z, n, 1) /\ LengthAt(u) = MonthLength(z, n)
  BY <1>1, <1>2, MonthIndex
<1>4. y < z \/ (y = z /\ m < n)
  BY <1>1, <1>2
<1>5. /\ MonthStart(t) \in Nat /\ MonthStart(u) \in Nat
      /\ LengthAt(t) \in 28..31 /\ LengthAt(u) \in 28..31
  BY <1>3, MonthsOfYear, MonthFacts
<1>6. MonthStart(t) + LengthAt(t) <= MonthStart(u)
  <2>1. CASE y = z /\ m < n
    BY <1>3, <2>1, MonthsOfYear
  <2>2. CASE y < z
    <3>1. Ordinal(y, m, 1) + MonthLength(y, m) <= Ordinal(y + 1, 1, 1)
      BY MonthsOfYear
    <3>0. Ordinal(z, 1, 1) \in Nat /\ Ordinal(y + 1, 1, 1) \in Nat
      <4>1. y + 1 \in Nat
        OBVIOUS
      <4>2. QED
        BY <4>1, YearLength
    <3>2. Ordinal(y + 1, 1, 1) <= Ordinal(z, 1, 1)
      <4>1. CASE y + 1 < z
        <5>1. Ordinal(z, 1, 1) >= Ordinal(y + 1, 1, 1) + 365 * (z - (y + 1))
                                    + (IF Leap(y + 1) THEN 1 ELSE 0)
          BY <4>1, YearsApart
        <5>3. 365 * (z - (y + 1)) \in Nat
          BY <4>1
        <5>4. (IF Leap(y + 1) THEN 1 ELSE 0) \in Nat
          OBVIOUS
        <5>5. QED
          BY <3>0, <5>1, <5>3, <5>4
      <4>2. CASE y + 1 = z
        BY <4>2, YearLength
      <4>3. QED
        BY <2>2, <4>1, <4>2
    <3>3. Ordinal(z, 1, 1) <= Ordinal(z, n, 1)
      BY MonthsOfYear
    <3>4. QED
      BY <1>3, <1>5, <3>0, <3>1, <3>2, <3>3
  <2>3. QED
    BY <1>4, <2>1, <2>2
<1>7. MonthStart(u) >= MonthStart(t) + (u - t) + 3
  <2> DEFINE leap == IF m > 2 /\ Leap(y) THEN 1 ELSE 0
             other == IF n > 2 /\ Leap(z) THEN 1 ELSE 0
  <2>1. /\ MonthStart(t) = 365 * y + ((y + 3) \div 4) + DaysBefore(m) + leap
        /\ MonthStart(u) = 365 * z + ((z + 3) \div 4) + DaysBefore(n) + other
    <3>1. DaysBefore(m) \in Nat /\ DaysBefore(n) \in Nat
      BY MonthFacts
    <3>2. QED
      BY <1>3, <3>1 DEF Ordinal
  <2>2. leap \in {0, 1} /\ other \in {0, 1} /\ (y = z /\ m < n => leap <= other)
    OBVIOUS
  <2>3. /\ DaysBefore(m) \in Nat /\ DaysBefore(n) \in Nat /\ DaysBefore(m) <= 334
        /\ m < n => DaysBefore(n) >= DaysBefore(m) + 28 * (n - m)
        /\ m >= n => DaysBefore(m) <= DaysBefore(n) + 31 * (m - n)
    <3>1. \A k \in 1..12 : \/ (k = 1 /\ DaysBefore(k) = 0) \/ (k = 2 /\ DaysBefore(k) = 31)
                           \/ (k = 3 /\ DaysBefore(k) = 59) \/ (k = 4 /\ DaysBefore(k) = 90)
                           \/ (k = 5 /\ DaysBefore(k) = 120) \/ (k = 6 /\ DaysBefore(k) = 151)
                           \/ (k = 7 /\ DaysBefore(k) = 181) \/ (k = 8 /\ DaysBefore(k) = 212)
                           \/ (k = 9 /\ DaysBefore(k) = 243) \/ (k = 10 /\ DaysBefore(k) = 273)
                           \/ (k = 11 /\ DaysBefore(k) = 304) \/ (k = 12 /\ DaysBefore(k) = 334)
      BY DEF DaysBefore
    <3>2. QED
      BY <3>1
  <2> HIDE DEF leap, other
  <2>4. CASE y = z /\ m < n
    BY <1>1, <1>2, <2>1, <2>2, <2>3, <2>4
  <2>5. CASE y < z
    <3>1. ((z + 3) \div 4) >= ((y + 3) \div 4) /\ (z + 3) \div 4 \in Nat /\ (y + 3) \div 4 \in Nat
      BY <2>5
    <3>2. u - t = 12 * (z - y) + n - m
      BY <1>1, <1>2
    <3>3. 365 * z - 365 * y = 365 * (z - y) /\ z - y >= 1
      BY <2>5
    <3>4. QED
      BY <2>1, <2>2, <2>3, <3>1, <3>2, <3>3
  <2>6. QED
    BY <1>4, <2>4, <2>5
<1>8. QED
  BY <1>5, <1>6, <1>7

(* Adding months lands in the month that many later, on the day of the      *)
(* start or the last one there is.                                          *)
LEMMA AddedMonths ==
  ASSUME NEW start \in Dates, NEW k \in Nat
  PROVE  LET t == MonthsTo(start) + k
         IN /\ t \in Nat /\ LengthAt(t) \in 28..31
            /\ AddMonths(start, k) = MonthStart(t) - 1
                 + (IF start.day <= LengthAt(t) THEN start.day ELSE LengthAt(t))
<1> DEFINE t == MonthsTo(start) + k
           total == start.month - 1 + k
<1>1. start.year \in Nat /\ start.month \in 1..12 /\ start.day \in 1..31
  BY DEF Dates
<1>2. t = 12 * start.year + total /\ total \in Nat /\ t \in Nat
  BY <1>1 DEF MonthsTo
<1>3. start.year + total \div 12 = t \div 12 /\ total % 12 = t % 12
  BY <1>1, <1>2
<1>4. t \div 12 \in Nat /\ (t % 12) + 1 \in 1..12
  BY <1>2
<1>5. LengthAt(t) \in 28..31
  BY <1>4, MonthFacts DEF LengthAt
<1>6. \A d \in 1..31 : Ordinal(t \div 12, (t % 12) + 1, d) = MonthStart(t) - 1 + d
  BY <1>4, DayOfMonth DEF MonthStart
<1>7. AddMonths(start, k) = Ordinal(t \div 12, (t % 12) + 1,
         IF start.day <= LengthAt(t) THEN start.day ELSE LengthAt(t))
  BY <1>3 DEF AddMonths, LengthAt
<1> HIDE DEF t
<1>8. AddMonths(start, k) = MonthStart(t) - 1
         + (IF start.day <= LengthAt(t) THEN start.day ELSE LengthAt(t))
  BY <1>1, <1>5, <1>6, <1>7
<1>9. QED
  BY <1>2, <1>5, <1>8 DEF t

(* The first date is that of no months added. *)
LEMMA FirstDate ==
  ASSUME NEW start \in Dates
  PROVE  /\ DayOf(start) = MonthStart(MonthsTo(start)) - 1 + start.day
         /\ AddMonths(start, 0) = DayOf(start) /\ DayOf(start) \in Nat
         /\ MonthsTo(start) \in Nat /\ start.day <= LengthAt(MonthsTo(start))
<1>1. start.year \in Nat /\ start.month \in 1..12 /\ start.day \in 1..31
      /\ start.day <= MonthLength(start.year, start.month)
  BY DEF Dates
<1>2. MonthsTo(start) \in Nat /\ MonthsTo(start) + 0 = MonthsTo(start)
  BY <1>1 DEF MonthsTo
<1>3. /\ MonthStart(MonthsTo(start)) = Ordinal(start.year, start.month, 1)
      /\ LengthAt(MonthsTo(start)) = MonthLength(start.year, start.month)
  BY <1>1, MonthIndex DEF MonthsTo
<1>4. Ordinal(start.year, start.month, 1) \in Nat
  BY <1>1, MonthsOfYear
<1>5. DayOf(start) = Ordinal(start.year, start.month, 1) - 1 + start.day
  BY <1>1, DayOfMonth DEF DayOf
<1>6. AddMonths(start, 0) = MonthStart(MonthsTo(start)) - 1
         + (IF start.day <= LengthAt(MonthsTo(start)) THEN start.day ELSE LengthAt(MonthsTo(start)))
  BY <1>2, AddedMonths
<1>7. QED
  BY <1>1, <1>2, <1>3, <1>4, <1>5, <1>6

(* Later months give later dates, and a date is within its month. *)
LEMMA DatesOfMonths ==
  ASSUME NEW start \in Dates, NEW j \in Nat, NEW k \in Nat
  PROVE  /\ AddMonths(start, k) \in Nat
         /\ MonthStart(MonthsTo(start) + k) <= AddMonths(start, k)
         /\ AddMonths(start, k) < MonthStart(MonthsTo(start) + k) + LengthAt(MonthsTo(start) + k)
         /\ j < k => AddMonths(start, j) < AddMonths(start, k)
         /\ AddMonths(start, k) >= DayOf(start) + k
<1> DEFINE t(i) == MonthsTo(start) + i
<1>1. start.day \in 1..31 /\ MonthsTo(start) \in Nat
  BY FirstDate DEF Dates
<1>2. \A i \in Nat : /\ t(i) \in Nat /\ LengthAt(t(i)) \in 28..31
                    /\ AddMonths(start, i) = MonthStart(t(i)) - 1
                         + (IF start.day <= LengthAt(t(i)) THEN start.day ELSE LengthAt(t(i)))
  BY AddedMonths
<1>3. \A i \in Nat : MonthStart(t(i)) \in Nat
  <2>1. \A i \in Nat : t(i) \in Nat /\ t(i) < t(i) + 1 /\ t(i) + 1 \in Nat
    BY <1>1
  <2> HIDE DEF t
  <2>2. QED
    BY <2>1, MonthsApart
<1>4. ASSUME NEW i \in Nat
      PROVE  /\ AddMonths(start, i) \in Nat
             /\ MonthStart(t(i)) <= AddMonths(start, i)
             /\ AddMonths(start, i) < MonthStart(t(i)) + LengthAt(t(i))
             /\ AddMonths(start, i) >= MonthStart(t(i)) - 4 + start.day
  <2> DEFINE d == IF start.day <= LengthAt(t(i)) THEN start.day ELSE LengthAt(t(i))
  <2> HIDE DEF t
  <2>1. d \in 1..31 /\ d <= LengthAt(t(i)) /\ d >= start.day - 3
    BY <1>1, <1>2
  <2>2. AddMonths(start, i) = MonthStart(t(i)) - 1 + d
    BY <1>2
  <2>3. MonthStart(t(i)) \in Nat /\ LengthAt(t(i)) \in Nat
    BY <1>2, <1>3
  <2> HIDE DEF d
  <2>4. QED
    BY <1>1, <2>1, <2>2, <2>3
<1>5. j < k => AddMonths(start, j) < AddMonths(start, k)
  <2>1. j < k => t(j) < t(k)
    BY <1>1
  <2>2. j < k => MonthStart(t(j)) + LengthAt(t(j)) <= MonthStart(t(k))
    <3> HIDE DEF t
    <3> QED
      BY <1>2, <2>1, MonthsApart
  <2> HIDE DEF t
  <2>3. /\ AddMonths(start, j) \in Nat /\ AddMonths(start, k) \in Nat
        /\ MonthStart(t(j)) \in Nat /\ MonthStart(t(k)) \in Nat /\ LengthAt(t(j)) \in Nat
        /\ AddMonths(start, j) < MonthStart(t(j)) + LengthAt(t(j))
        /\ MonthStart(t(k)) <= AddMonths(start, k)
    <3>1. MonthStart(t(j)) \in Nat /\ MonthStart(t(k)) \in Nat
      BY <1>3
    <3>2. LengthAt(t(j)) \in Nat
      BY <1>2
    <3>3. AddMonths(start, j) \in Nat /\ AddMonths(start, j) < MonthStart(t(j)) + LengthAt(t(j))
      BY <1>4
    <3>4. AddMonths(start, k) \in Nat /\ MonthStart(t(k)) <= AddMonths(start, k)
      BY <1>4
    <3>5. QED
      BY <3>1, <3>2, <3>3, <3>4
  <2>4. QED
    BY <2>2, <2>3
<1>6. AddMonths(start, k) >= DayOf(start) + k
  <2>1. CASE k = 0
    BY <2>1, FirstDate
  <2>2. CASE k > 0
    <3>1. MonthStart(t(k)) >= MonthStart(MonthsTo(start)) + k + 3
      <4>1. MonthsTo(start) < t(k) /\ t(k) - MonthsTo(start) = k
        BY <1>1, <2>2
      <4> HIDE DEF t
      <4>2. MonthStart(t(k)) >= MonthStart(MonthsTo(start)) + (t(k) - MonthsTo(start)) + 3
        BY <1>1, <1>2, <4>1, MonthsApart
      <4>3. QED
        BY <4>1, <4>2
    <3>2. MonthStart(MonthsTo(start)) \in Nat
      BY <1>1, <1>3
    <3> HIDE DEF t
    <3>3. AddMonths(start, k) >= MonthStart(t(k)) - 4 + start.day /\ AddMonths(start, k) \in Nat
      BY <1>4
    <3>4. MonthStart(t(k)) \in Nat
      BY <1>3
    <3>5. DayOf(start) = MonthStart(MonthsTo(start)) - 1 + start.day
      BY FirstDate
    <3>6. QED
      BY <1>1, <3>1, <3>2, <3>3, <3>4, <3>5
  <2>3. QED
    BY <2>1, <2>2
<1> HIDE DEF t
<1>7. QED
  BY <1>4, <1>5, <1>6 DEF t

(* The year and the month that a day is in. *)
LEMMA MonthOfDay ==
  ASSUME NEW day \in Nat
  PROVE  LET t == 12 * YearOf(day) + MonthOf(day) - 1
         IN /\ YearOf(day) \in Nat /\ MonthOf(day) \in 1..12 /\ t \in Nat
            /\ MonthStart(t) <= day /\ day < MonthStart(t) + LengthAt(t)
<1> DEFINE y == YearOf(day)
           z == (4 * day) \div 1461
<1>1. /\ z \in 0..(day \div 365) /\ Ordinal(z, 1, 1) <= day /\ day < Ordinal(z + 1, 1, 1)
  <2>1. z \in Nat /\ 1461 * z <= 4 * day /\ 4 * day < 1461 * z + 1461
    OBVIOUS
  <2>2. z <= day \div 365
    <3>1. 365 * z <= day
      BY <2>1
    <3>2. QED
      BY <2>1, <3>1
  <2>3. Ordinal(z, 1, 1) = 365 * z + ((z + 3) \div 4)
        /\ Ordinal(z + 1, 1, 1) = 365 * (z + 1) + ((z + 4) \div 4)
    <3>1. z + 1 \in Nat /\ (z + 1) + 3 = z + 4
      BY <2>1
    <3> HIDE DEF z
    <3>2. QED
      BY <2>1, <3>1, YearLength
  <2> HIDE DEF z
  <2>4. Ordinal(z, 1, 1) <= day /\ day < Ordinal(z + 1, 1, 1)
    BY <2>1, <2>3
  <2>5. QED
    BY <2>1, <2>2, <2>4
<1>2. y \in 0..(day \div 365) /\ Ordinal(y, 1, 1) <= day /\ day < Ordinal(y + 1, 1, 1)
  <2> HIDE DEF z
  <2> QED
    BY <1>1 DEF YearOf
<1>3. y \in Nat
  BY <1>2
<1> HIDE DEF y, z
<1>4. \E m \in 1..12 : Ordinal(y, m, 1) <= day /\ day < Ordinal(y, m, 1) + MonthLength(y, m)
  <2>1. \A m \in 1..12 : /\ Ordinal(y, m, 1) \in Nat /\ MonthLength(y, m) \in 28..31
                         /\ m = 12 => Ordinal(y, m, 1) + MonthLength(y, m) = Ordinal(y + 1, 1, 1)
                         /\ m < 12 => Ordinal(y, m, 1) + MonthLength(y, m) = Ordinal(y, m + 1, 1)
    BY <1>3, MonthsOfYear, MonthFacts
  <2>2. QED
    BY <1>2, <2>1
<1>5. /\ MonthOf(day) \in 1..12 /\ Ordinal(y, MonthOf(day), 1) <= day
      /\ day < Ordinal(y, MonthOf(day), 1) + MonthLength(y, MonthOf(day))
  BY <1>4, Zenon DEF MonthOf, y
<1>6. /\ MonthStart(12 * y + MonthOf(day) - 1) = Ordinal(y, MonthOf(day), 1)
      /\ LengthAt(12 * y + MonthOf(day) - 1) = MonthLength(y, MonthOf(day))
  BY <1>3, <1>5, MonthIndex
<1>7. QED
  BY <1>3, <1>5, <1>6 DEF y

LEMMA Multiples ==
  ASSUME NEW i \in Nat, NEW j \in Nat, NEW interval \in 1..365
  PROVE  /\ i * interval \in Nat /\ i * interval >= i
         /\ i < j => i * interval + interval <= j * interval
<1>1. i * interval \in Nat /\ i * interval >= i
  OBVIOUS
<1>2. ASSUME i < j PROVE i * interval + interval <= j * interval
  <2>1. PICK d \in Nat : j = i + 1 + d
    <3>1. j - i - 1 \in Nat /\ j = i + 1 + (j - i - 1)
      BY <1>2
    <3>2. QED
      BY <3>1
  <2>2. j * interval = i * interval + interval + d * interval /\ d * interval \in Nat
    BY <2>1
  <2>3. QED
    BY <1>1, <2>2
<1>3. QED
  BY <1>1, <1>2

LEMMA Quotients ==
  ASSUME NEW a \in Nat, NEW b \in Nat \ {0}
  PROVE  /\ a \div b \in Nat /\ (a \div b) * b <= a
         /\ a < (a \div b) * b + b
<1>1. a = b * (a \div b) + (a % b) /\ a % b \in 0..(b - 1) /\ a \div b \in Int
  OBVIOUS
<1>2. (a \div b) * b = b * (a \div b)
  BY <1>1
<1>3. a \div b >= 0
  <2>1. SUFFICES ASSUME a \div b <= -1 PROVE FALSE
    BY <1>1
  <2>2. b * (a \div b) <= -b
    BY <1>1, <2>1
  <2>3. QED
    BY <1>1, <2>2
<1>4. QED
  BY <1>1, <1>2, <1>3

(* The dates of a recurrence rise, at least a day at a step. *)
LEMMA DatesRise ==
  ASSUME NEW start \in Dates, NEW frequency \in Frequency, NEW interval \in 1..365,
         NEW i \in Nat, NEW j \in Nat
  PROVE  /\ Occurrence(start, frequency, interval, j) \in Nat
         /\ Occurrence(start, frequency, interval, j) >= DayOf(start) + j
         /\ Occurrence(start, frequency, interval, 0) = DayOf(start)
         /\ i < j => Occurrence(start, frequency, interval, i) < Occurrence(start, frequency, interval, j)
<1>1. /\ i * interval \in Nat /\ j * interval \in Nat /\ j * interval >= j
      /\ i < j => i * interval < j * interval
  BY Multiples
<1>2. /\ 7 * i * interval = 7 * (i * interval) /\ 7 * j * interval = 7 * (j * interval)
      /\ 12 * i * interval = 12 * (i * interval) /\ 12 * j * interval = 12 * (j * interval)
      /\ 0 * interval = 0 /\ 7 * 0 * interval = 0 /\ 12 * 0 * interval = 0
  OBVIOUS
<1>3. DayOf(start) \in Nat /\ AddMonths(start, 0) = DayOf(start)
  BY FirstDate
<1>4. CASE frequency = "DAILY"
  BY <1>1, <1>2, <1>3, <1>4 DEF Occurrence
<1>5. CASE frequency = "WEEKLY"
  BY <1>1, <1>2, <1>3, <1>5 DEF Occurrence
<1>6. CASE frequency = "MONTHLY"
  <2>1. /\ AddMonths(start, j * interval) \in Nat
        /\ AddMonths(start, j * interval) >= DayOf(start) + j * interval
        /\ i < j => AddMonths(start, i * interval) < AddMonths(start, j * interval)
    BY <1>1, DatesOfMonths
  <2>2. QED
    BY <1>1, <1>2, <1>3, <1>6, <2>1 DEF Occurrence
<1>7. CASE frequency = "YEARLY"
  <2>1. /\ 12 * i * interval \in Nat /\ 12 * j * interval \in Nat /\ 12 * j * interval >= j
        /\ i < j => 12 * i * interval < 12 * j * interval
    BY <1>1, <1>2
  <2>2. /\ AddMonths(start, 12 * j * interval) \in Nat
        /\ AddMonths(start, 12 * j * interval) >= DayOf(start) + 12 * j * interval
        /\ i < j => AddMonths(start, 12 * i * interval) < AddMonths(start, 12 * j * interval)
    BY <2>1, DatesOfMonths
  <2>3. QED
    BY <1>2, <1>3, <1>7, <2>1, <2>2 DEF Occurrence
<1>8. QED
  BY <1>4, <1>5, <1>6, <1>7 DEF Frequency

(* A date is before a day when its month is, and after it when its month is. *)
LEMMA MonthDecides ==
  ASSUME NEW start \in Dates, NEW day \in Nat, NEW k \in Nat
  PROVE  LET s == 12 * YearOf(day) + MonthOf(day) - 1
         IN /\ MonthsTo(start) + k < s => AddMonths(start, k) < day
            /\ MonthsTo(start) + k > s => AddMonths(start, k) > day
            /\ DayOf(start) < day => MonthsTo(start) <= s
<1> DEFINE s == 12 * YearOf(day) + MonthOf(day) - 1
           u(i) == MonthsTo(start) + i
<1>1. s \in Nat /\ MonthStart(s) <= day /\ day < MonthStart(s) + LengthAt(s)
  BY MonthOfDay
<1>2. MonthsTo(start) \in Nat /\ u(0) = MonthsTo(start)
  BY FirstDate
<1>3. \A i \in Nat : u(i) \in Nat
  BY <1>2
<1> HIDE DEF s, u
<1>4. ASSUME NEW i \in Nat
      PROVE  /\ AddMonths(start, i) \in Nat /\ MonthStart(u(i)) <= AddMonths(start, i)
             /\ AddMonths(start, i) < MonthStart(u(i)) + LengthAt(u(i))
  BY DatesOfMonths DEF u
<1>5. ASSUME NEW i \in Nat
      PROVE  /\ u(i) < s => AddMonths(start, i) < day
             /\ s < u(i) => day < AddMonths(start, i)
  <2>1. u(i) \in Nat
    BY <1>3
  <2>2. ASSUME u(i) < s PROVE AddMonths(start, i) < day
    <3>1. /\ MonthStart(u(i)) + LengthAt(u(i)) <= MonthStart(s)
          /\ MonthStart(u(i)) \in Nat /\ LengthAt(u(i)) \in 28..31 /\ MonthStart(s) \in Nat
      BY <1>1, <2>1, <2>2, MonthsApart
    <3>2. AddMonths(start, i) \in Nat /\ AddMonths(start, i) < MonthStart(u(i)) + LengthAt(u(i))
      BY <1>4
    <3>3. QED
      BY <1>1, <3>1, <3>2
  <2>3. ASSUME s < u(i) PROVE day < AddMonths(start, i)
    <3>1. /\ MonthStart(s) + LengthAt(s) <= MonthStart(u(i))
          /\ MonthStart(s) \in Nat /\ LengthAt(s) \in 28..31 /\ MonthStart(u(i)) \in Nat
      BY <1>1, <2>1, <2>3, MonthsApart
    <3>2. AddMonths(start, i) \in Nat /\ MonthStart(u(i)) <= AddMonths(start, i)
      BY <1>4
    <3>3. QED
      BY <1>1, <3>1, <3>2
  <2>4. QED
    BY <2>2, <2>3
<1>6. AddMonths(start, 0) = DayOf(start) /\ DayOf(start) \in Nat
  BY FirstDate
<1>7. DayOf(start) < day => MonthsTo(start) <= s
  <2>1. s < u(0) => day < AddMonths(start, 0)
    BY <1>5
  <2>2. QED
    BY <1>1, <1>2, <1>6, <2>1
<1>8. /\ u(k) < s => AddMonths(start, k) < day
      /\ s < u(k) => day < AddMonths(start, k)
  BY <1>5
<1>9. AddMonths(start, k) \in Nat /\ u(k) \in Nat
  BY <1>3, <1>4
<1>10. /\ u(k) < s => AddMonths(start, k) < day
       /\ u(k) > s => AddMonths(start, k) > day
       /\ DayOf(start) < day => MonthsTo(start) <= s
  BY <1>1, <1>7, <1>8, <1>9
<1>11. QED
  BY <1>10 DEF s, u

(* The search starts at a step with nothing due before it, and needs to     *)
(* look at two at most.                                                     *)
LEMMA SearchStarts ==
  ASSUME NEW start \in Dates, NEW frequency \in Frequency, NEW interval \in 1..365,
         NEW day \in Nat, DayOf(start) < day
  PROVE  LET first == FirstStep(start, frequency, interval, day)
         IN /\ first \in Nat
            /\ \A k \in Nat : k < first => Occurrence(start, frequency, interval, k) < day
            /\ Occurrence(start, frequency, interval, first + 1) >= day
<1> DEFINE first == FirstStep(start, frequency, interval, day)
           at(k) == Occurrence(start, frequency, interval, k)
           elapsed == day - DayOf(start)
           years == YearOf(day) - start.year
           months == years * 12 + (MonthOf(day) - start.month)
           s == 12 * YearOf(day) + MonthOf(day) - 1
<1>1. DayOf(start) \in Nat /\ elapsed \in Nat /\ elapsed > 0
  BY FirstDate
<1>2. /\ start.year \in Nat /\ start.month \in 1..12 /\ YearOf(day) \in Nat
      /\ MonthOf(day) \in 1..12
  BY MonthOfDay DEF Dates
<1>3. s \in Nat /\ MonthsTo(start) \in Nat /\ MonthsTo(start) <= s
  BY MonthDecides, MonthOfDay, FirstDate
<1>4. months \in Nat /\ s = MonthsTo(start) + months /\ years \in Nat
  <2>1. MonthsTo(start) = 12 * start.year + start.month - 1
    BY DEF MonthsTo
  <2>2. years \in Int /\ months = 12 * years + MonthOf(day) - start.month
    BY <1>2
  <2>3. 12 * years = 12 * YearOf(day) - 12 * start.year
    BY <1>2
  <2> HIDE DEF years, months
  <2>4. months \in Nat /\ s = MonthsTo(start) + months
    BY <1>2, <1>3, <2>1, <2>2, <2>3
  <2>5. years \in Nat
    BY <1>2, <2>2, <2>4
  <2>6. QED
    BY <2>4, <2>5
<1>5. \A k \in Nat : k * interval \in Nat /\ k * interval >= k
  BY Multiples
<1>6. CASE frequency = "DAILY"
  <2>1. first = (elapsed + interval - 1) \div interval
    BY <1>6 DEF FirstStep
  <2>2. /\ first \in Nat /\ first * interval <= elapsed + interval - 1
        /\ elapsed + interval - 1 < first * interval + interval
    <3> DEFINE a == elapsed + interval - 1
    <3>1. a \in Nat /\ interval \in Nat \ {0} /\ first = a \div interval
      BY <1>1, <2>1
    <3> HIDE DEF first, a
    <3>2. first \in Nat /\ first * interval <= a /\ a < first * interval + interval
      BY <3>1, Quotients
    <3>3. QED
      BY <3>2 DEF a
  <2>3. \A k \in Nat : at(k) = DayOf(start) + k * interval
    BY <1>6 DEF Occurrence
  <2> HIDE DEF first, at
  <2>4. \A k \in Nat : k < first => at(k) < day
    <3>1. ASSUME NEW k \in Nat, k < first PROVE at(k) < day
      <4>1. k * interval + interval <= first * interval
        BY <2>2, <3>1, Multiples
      <4>2. k * interval \in Nat /\ first * interval \in Nat
        BY <1>5, <2>2
      <4>3. at(k) = DayOf(start) + k * interval
        BY <2>3
      <4>4. k * interval < elapsed
        <5> HIDE DEF elapsed
        <5> QED
          BY <1>1, <2>2, <4>1, <4>2
      <4>5. QED
        BY <1>1, <4>2, <4>3, <4>4
    <3>2. QED
      BY <3>1
  <2>5. at(first + 1) >= day
    <3>1. (first + 1) * interval = first * interval + interval /\ first * interval \in Nat
      BY <1>5, <2>2
    <3>2. at(first + 1) = DayOf(start) + (first * interval + interval)
      BY <2>2, <2>3, <3>1
    <3>3. QED
      BY <1>1, <2>2, <3>1, <3>2
  <2>6. QED
    BY <2>2, <2>4, <2>5 DEF first, at
<1>7. CASE frequency = "WEEKLY"
  <2> DEFINE w == (elapsed * 1000) \div 7
             b == interval * 1000
  <2>1. w \in Nat /\ 7 * w <= 1000 * elapsed /\ 1000 * elapsed < 7 * w + 7 /\ b \in Nat \ {0}
    BY <1>1
  <2>2. first = (w + b - 1) \div b
    BY <1>7 DEF FirstStep
  <2> HIDE DEF w
  <2>3. /\ first \in Nat /\ first * b <= w + b - 1 /\ w + b - 1 < first * b + b
    <3> DEFINE a == w + b - 1
    <3>1. a \in Nat /\ first = a \div b
      BY <2>1, <2>2
    <3> HIDE DEF first, a, b
    <3>2. first \in Nat /\ first * b <= a /\ a < first * b + b
      BY <2>1, <3>1, Quotients
    <3>3. QED
      BY <3>2 DEF a
  <2>4. \A k \in Nat : k * b = 1000 * (k * interval)
    OBVIOUS
  <2>5. \A k \in Nat : at(k) = DayOf(start) + 7 * (k * interval)
    <3>1. \A k \in Nat : 7 * k * interval = 7 * (k * interval)
      OBVIOUS
    <3>2. QED
      BY <1>7, <3>1 DEF Occurrence
  <2>6. b = 1000 * interval
    OBVIOUS
  <2> HIDE DEF first, at, b
  <2>7. \A k \in Nat : k < first => at(k) < day
    <3>1. ASSUME NEW k \in Nat, k < first PROVE at(k) < day
      <4>1. k * interval + interval <= first * interval
        BY <2>3, <3>1, Multiples
      <4>2. k * interval \in Nat /\ first * interval \in Nat /\ first * b = 1000 * (first * interval)
        BY <1>5, <2>3, <2>4
      <4>3. 7 * (k * interval) < elapsed
        <5> HIDE DEF elapsed
        <5> QED
          BY <1>1, <2>1, <2>3, <2>6, <4>1, <4>2
      <4>4. at(k) = DayOf(start) + 7 * (k * interval)
        BY <2>5
      <4>5. QED
        BY <1>1, <4>2, <4>3, <4>4
    <3>2. QED
      BY <3>1
  <2>8. at(first + 1) >= day
    <3>1. (first + 1) * interval = first * interval + interval /\ first * interval \in Nat
      BY <1>5, <2>3
    <3>2. at(first + 1) = DayOf(start) + 7 * (first * interval + interval)
      BY <2>3, <2>5, <3>1
    <3>3. first * b = 1000 * (first * interval)
      BY <2>3, <2>4
    <3>4. 7 * (first * interval + interval) >= elapsed
      <4> HIDE DEF elapsed
      <4> QED
        BY <1>1, <2>1, <2>3, <2>6, <3>1, <3>3
    <3>5. QED
      BY <1>1, <3>1, <3>2, <3>4
  <2>9. QED
    BY <2>3, <2>7, <2>8 DEF first, at
<1>8. CASE frequency = "MONTHLY"
  <2>1. first = months \div interval
    BY <1>8 DEF FirstStep
  <2> HIDE DEF months
  <2>2. first \in Nat /\ first * interval <= months /\ months < first * interval + interval
    <3> HIDE DEF first
    <3> QED
      BY <1>4, <2>1, Quotients
  <2>3. \A k \in Nat : at(k) = AddMonths(start, k * interval)
    BY <1>8 DEF Occurrence
  <2>4. \A i \in Nat : /\ MonthsTo(start) + i < s => AddMonths(start, i) < day
                       /\ MonthsTo(start) + i > s => AddMonths(start, i) > day
    BY MonthDecides
  <2> HIDE DEF first, at, s
  <2>5. \A k \in Nat : k < first => at(k) < day
    <3>1. ASSUME NEW k \in Nat, k < first PROVE at(k) < day
      <4>1. k * interval + interval <= first * interval
        BY <2>2, <3>1, Multiples
      <4>2. k * interval \in Nat /\ first * interval \in Nat
        BY <1>5, <2>2
      <4> DEFINE n == k * interval
      <4>3. n \in Nat /\ MonthsTo(start) + n < s
        BY <1>3, <1>4, <2>2, <4>1, <4>2
      <4>4. at(k) = AddMonths(start, n)
        BY <2>3
      <4> HIDE DEF n
      <4>5. AddMonths(start, n) < day
        BY <2>4, <4>3
      <4>6. QED
        BY <4>4, <4>5, Zenon
    <3>2. QED
      BY <3>1
  <2>6. at(first + 1) >= day
    <3>1. (first + 1) * interval = first * interval + interval /\ first * interval \in Nat
      BY <1>5, <2>2
    <3> DEFINE n == (first + 1) * interval
    <3>2. n \in Nat /\ MonthsTo(start) + n > s
      BY <1>3, <1>4, <2>2, <3>1
    <3>3. at(first + 1) = AddMonths(start, n)
      BY <2>2, <2>3
    <3> HIDE DEF n
    <3>4. AddMonths(start, n) > day
      BY <1>3, <2>4, <3>2
    <3>5. AddMonths(start, n) \in Nat
      BY <3>2, DatesOfMonths
    <3>6. QED
      BY <3>3, <3>4, <3>5
  <2>7. QED
    BY <2>2, <2>5, <2>6 DEF first, at
<1>9. CASE frequency = "YEARLY"
  <2>1. first = years \div interval
    BY <1>9 DEF FirstStep
  <2>2. s = 12 * YearOf(day) + MonthOf(day) - 1 /\ YearOf(day) = start.year + years
        /\ MonthsTo(start) = 12 * start.year + start.month - 1
    BY <1>2 DEF MonthsTo
  <2> HIDE DEF years
  <2>3. first \in Nat /\ first * interval <= years /\ years < first * interval + interval
    <3> HIDE DEF first
    <3> QED
      BY <1>4, <2>1, Quotients
  <2>4. \A k \in Nat : at(k) = AddMonths(start, 12 * (k * interval))
    <3>1. \A k \in Nat : 12 * k * interval = 12 * (k * interval)
      OBVIOUS
    <3>2. QED
      BY <1>9, <3>1 DEF Occurrence
  <2>5. \A i \in Nat : /\ MonthsTo(start) + i < s => AddMonths(start, i) < day
                       /\ MonthsTo(start) + i > s => AddMonths(start, i) > day
    BY MonthDecides
  <2> HIDE DEF first, at, s
  <2>6. \A k \in Nat : k < first => at(k) < day
    <3>1. ASSUME NEW k \in Nat, k < first PROVE at(k) < day
      <4>1. k * interval + interval <= first * interval
        BY <2>3, <3>1, Multiples
      <4>2. k * interval \in Nat /\ first * interval \in Nat /\ 12 * (k * interval) \in Nat
        BY <1>5, <2>3
      <4> DEFINE n == 12 * (k * interval)
      <4>3. n \in Nat /\ MonthsTo(start) + n < s
        BY <1>2, <1>4, <2>2, <2>3, <4>1, <4>2
      <4>4. at(k) = AddMonths(start, n)
        BY <2>4
      <4> HIDE DEF n
      <4>5. AddMonths(start, n) < day
        BY <2>5, <4>3
      <4>6. QED
        BY <4>4, <4>5, Zenon
    <3>2. QED
      BY <3>1
  <2>7. at(first + 1) >= day
    <3> DEFINE n == 12 * ((first + 1) * interval)
    <3>1. (first + 1) * interval = first * interval + interval /\ first * interval \in Nat
      BY <1>5, <2>3
    <3>2. n \in Nat /\ MonthsTo(start) + n > s
      BY <1>2, <1>4, <2>2, <2>3, <3>1
    <3>3. at(first + 1) = AddMonths(start, n)
      BY <2>3, <2>4
    <3> HIDE DEF n
    <3>4. AddMonths(start, n) > day
      BY <1>3, <2>5, <3>2
    <3>5. AddMonths(start, n) \in Nat
      BY <3>2, DatesOfMonths
    <3>6. QED
      BY <3>3, <3>4, <3>5
  <2>8. QED
    BY <2>3, <2>6, <2>7 DEF first, at
<1>10. QED
  BY <1>6, <1>7, <1>8, <1>9 DEF Frequency

(* The search finds the first date on or after a day: it is a date of the   *)
(* recurrence, and every earlier one is before that day.                    *)
LEMMA NextIsFirst ==
  ASSUME NEW start \in Dates, NEW frequency \in Frequency, NEW interval \in 1..365,
         NEW day \in Nat
  PROVE  LET next == NextOccurrence(start, frequency, interval, day)
         IN /\ next \in Nat /\ next >= day /\ next >= DayOf(start)
            /\ \E n \in Nat : /\ next = Occurrence(start, frequency, interval, n)
                              /\ \A k \in Nat : k < n => Occurrence(start, frequency, interval, k) < day
<1> DEFINE next == NextOccurrence(start, frequency, interval, day)
           at(k) == Occurrence(start, frequency, interval, k)
<1>1. DayOf(start) \in Nat /\ at(0) = DayOf(start)
  BY FirstDate, DatesRise
<1>2. CASE DayOf(start) >= day
  <2>1. next = at(0)
    BY <1>1, <1>2 DEF NextOccurrence
  <2> HIDE DEF next, at
  <2>2. /\ next \in Nat /\ next >= day /\ next >= DayOf(start)
        /\ \E n \in Nat : next = at(n) /\ \A k \in Nat : k < n => at(k) < day
    BY <1>1, <1>2, <2>1
  <2>3. QED
    BY <2>2 DEF next, at
<1>3. CASE DayOf(start) < day
  <2> DEFINE first == FirstStep(start, frequency, interval, day)
             Least(n) == /\ at(n) >= day
                         /\ \A k \in first..(n - 1) : at(k) < day
             step == CHOOSE n \in first..(first + 2) : Least(n)
  <2>1. /\ first \in Nat /\ (\A k \in Nat : k < first => at(k) < day)
        /\ at(first + 1) >= day
    BY <1>3, SearchStarts
  <2>2. next = at(step)
    BY <1>1, <1>3 DEF NextOccurrence
  <2>3. \A k \in Nat : at(k) \in Nat /\ at(k) >= DayOf(start) + k
    BY DatesRise
  <2> HIDE DEF next, at, first
  <2>4. \E n \in first..(first + 2) : Least(n)
    <3>1. CASE at(first) >= day
      <4>1. first \in first..(first + 2) /\ first..(first - 1) = {}
        BY <2>1
      <4>2. QED
        BY <3>1, <4>1
    <3>2. CASE at(first) < day
      <4>1. first + 1 \in first..(first + 2) /\ \A k \in first..((first + 1) - 1) : k = first
        BY <2>1
      <4>2. Least(first + 1)
        BY <2>1, <3>2, <4>1
      <4>3. QED
        BY <4>1, <4>2
    <3>3. QED
      BY <2>1, <2>3, <3>1, <3>2
  <2>5. step \in first..(first + 2) /\ Least(step)
    <3> HIDE DEF Least
    <3> QED
      BY <2>4
  <2> HIDE DEF step
  <2>6. step \in Nat /\ \A k \in Nat : k < step => at(k) < day
    <3>1. step \in Nat
      BY <2>1, <2>5
    <3>2. ASSUME NEW k \in Nat, k < step PROVE at(k) < day
      <4>1. k < first \/ k \in first..(step - 1)
        BY <2>1, <2>5, <3>1, <3>2
      <4>2. QED
        BY <2>1, <2>5, <4>1
    <3>3. QED
      BY <3>1, <3>2
  <2>7. next \in Nat /\ next >= day /\ next >= DayOf(start)
    <3>1. at(step) \in Nat /\ at(step) >= DayOf(start) + step
      BY <2>3, <2>6
    <3>2. QED
      BY <1>1, <2>2, <2>5, <2>6, <3>1
  <2>8. QED
    BY <2>2, <2>6, <2>7 DEF next, at
<1>4. QED
  BY <1>1, <1>2, <1>3

LEMMA RecurConstants ==
  ASSUME RecurAssumption
  PROVE  /\ Starts \subseteq Dates /\ FirstDay \in Nat /\ LastDay \in Nat /\ Span \in Nat
         /\ FirstDay <= LastDay /\ Intervals \subseteq 1..365
BY DEF RecurAssumption, Dates

(* What is stored is a rule, whatever was asked for. *)
LEMMA NormalRecurs ==
  ASSUME RecurAssumption, today \in FirstDay..LastDay, NEW start \in Starts,
         NEW frequency \in Frequency, NEW interval \in 1..365, NEW next
  PROVE  /\ Normal([kind |-> "date", start |-> start]) = Recurs(start, "YEARLY", 1, DayOf(start))
         /\ Normal(Recurs(start, frequency, interval, next)) =
              Recurs(start, frequency, interval, NextOccurrence(start, frequency, interval, today))
BY DEF Normal, NormRecurring, Recurs, Null

LEMMA RecurInitial ==
  ASSUME RecurAssumption, RecurInit
  PROVE  RecurInv
<1>1. today \in FirstDay..LastDay /\ today \in Nat
  BY RecurConstants DEF RecurInit
<1>2. PICK raw \in Raw : stored = Normal(raw)
  BY DEF RecurInit
<1>3. ASSUME NEW start \in Starts, NEW frequency \in Frequency, NEW interval \in 1..365,
             NEW next \in Nat, next >= DayOf(start),
             stored = Recurs(start, frequency, interval, next)
      PROVE  RecurInv
  BY <1>1, <1>3 DEF RecurInv, Recurs
<1>4. CASE \E start \in Starts : raw = [kind |-> "date", start |-> start]
  <2>1. PICK start \in Starts : raw = [kind |-> "date", start |-> start]
    BY <1>4
  <2>2. "YEARLY" \in Frequency /\ 1 \in 1..365
    BY DEF Frequency
  <2>3. stored = Recurs(start, "YEARLY", 1, DayOf(start))
    BY <1>1, <1>2, <2>1, <2>2, NormalRecurs
  <2>4. DayOf(start) \in Nat /\ DayOf(start) >= DayOf(start)
    BY RecurConstants, FirstDate
  <2>5. QED
    BY <1>3, <2>2, <2>3, <2>4
<1>5. CASE \E start \in Starts, frequency \in Frequency, interval \in Intervals :
             raw = Recurs(start, frequency, interval, 0)
  <2>1. PICK start \in Starts, frequency \in Frequency, interval \in Intervals :
               raw = Recurs(start, frequency, interval, 0)
    BY <1>5
  <2>2. interval \in 1..365 /\ start \in Dates
    BY RecurConstants
  <2> DEFINE next == NextOccurrence(start, frequency, interval, today)
  <2>3. stored = Recurs(start, frequency, interval, next)
    BY <1>1, <1>2, <2>1, <2>2, NormalRecurs
  <2>4. next \in Nat /\ next >= DayOf(start)
    BY <1>1, <2>2, NextIsFirst
  <2> HIDE DEF next
  <2>5. QED
    BY <1>3, <2>2, <2>3, <2>4
<1>6. QED
  BY <1>4, <1>5 DEF Raw

LEMMA RecurStep ==
  ASSUME RecurAssumption, RecurInv, [RecurNext]_recurVars
  PROVE  RecurInv'
<1>1. today \in FirstDay..LastDay /\ today \in Nat
  BY RecurConstants DEF RecurInv
<1>2. PICK start \in Starts, frequency \in Frequency, interval \in 1..365 :
        /\ stored = Recurs(start, frequency, interval, stored.next)
        /\ stored.next \in Nat /\ stored.next >= DayOf(start)
  BY DEF RecurInv
<1>3. CASE Write
  <2>0. PICK before : stored = Recurs(start, frequency, interval, before)
    BY <1>2
  <2> DEFINE next == NextOccurrence(start, frequency, interval, today)
  <2>1. stored' = Recurs(start, frequency, interval, next)
    BY <1>1, <1>3, <2>0, NormalRecurs DEF Write
  <2>2. next \in Nat /\ next >= DayOf(start)
    BY <1>1, RecurConstants, NextIsFirst
  <2> HIDE DEF next
  <2>3. stored'.next = next
    BY <2>1 DEF Recurs
  <2>4. today' = today
    BY <1>3 DEF Write
  <2>5. QED
    BY <1>1, <2>1, <2>2, <2>3, <2>4 DEF RecurInv
<1>4. CASE Advance
  <2>1. today' \in FirstDay..LastDay /\ stored' = stored
    BY <1>1, <1>4, RecurConstants DEF Advance
  <2>2. QED
    BY <1>2, <2>1 DEF RecurInv
<1>5. CASE UNCHANGED recurVars
  BY <1>5 DEF RecurInv, recurVars
<1>6. QED
  BY <1>3, <1>4, <1>5 DEF RecurNext

LEMMA RecurInvariant ==
  ASSUME RecurAssumption
  PROVE  RecurSpec => []RecurInv
<1>1. RecurInit => RecurInv
  BY RecurInitial
<1>2. RecurInv /\ [RecurNext]_recurVars => RecurInv'
  BY RecurStep
<1>3. QED
  BY <1>1, <1>2, PTL DEF RecurSpec

(* What is stored is a rule whose next date is not before its start.        *)
THEOREM RecurTypeCorrect ==
  ASSUME RecurAssumption
  PROVE  RecurSpec => []RecurTypeOK
<1>1. RecurInv => RecurTypeOK
  <2>1. SUFFICES ASSUME RecurInv PROVE RecurTypeOK
    OBVIOUS
  <2>2. PICK start \in Starts, frequency \in Frequency, interval \in 1..365 :
          /\ stored = Recurs(start, frequency, interval, stored.next)
          /\ stored.next \in Nat /\ stored.next >= DayOf(start)
    BY <2>1 DEF RecurInv
  <2>3. stored.start = start
    BY <2>2 DEF Recurs
  <2>4. QED
    BY <2>1, <2>2, <2>3 DEF RecurInv, RecurTypeOK
<1>2. QED
  BY <1>1, RecurInvariant, PTL

(* Of the dates a recurrence has, a window names the first that falls in it *)
(* and no other, for any start, frequency, interval and window: the search  *)
(* of _next_occurrence skips none where months are short, and stops at none *)
(* too early.                                                               *)
THEOREM ListingNamesFirst ==
  ASSUME RecurAssumption
  PROVE  RecurSpec => []FirstInWindow
<1>1. RecurInv => FirstInWindow
  <2>1. SUFFICES ASSUME RecurInv PROVE FirstInWindow
    OBVIOUS
  <2>2. PICK start \in Starts, frequency \in Frequency, interval \in 1..365 :
          stored = Recurs(start, frequency, interval, stored.next)
    BY <2>1 DEF RecurInv
  <2>3. /\ stored.start \in Dates /\ stored.frequency \in Frequency
        /\ stored.interval \in 1..365
    BY <2>2, RecurConstants DEF Recurs
  <2>4. /\ today \in Nat /\ today <= LastDay /\ LastDay \in Nat
        /\ Span \in Nat /\ DayOf(stored.start) \in Nat
    BY <2>1, <2>3, RecurConstants, FirstDate DEF RecurInv
  <2> DEFINE at(n) == Occurrence(stored.start, stored.frequency, stored.interval, n)
             next == NextOccurrence(stored.start, stored.frequency, stored.interval, today)
             last == LastDay + Span - DayOf(stored.start)
             dates == {at(n) : n \in 0..last}
  <2>5. \A n \in Nat : at(n) \in Nat /\ at(n) >= DayOf(stored.start) + n
    BY <2>3, DatesRise
  <2>6. \A i, j \in Nat : i < j => at(i) < at(j)
    BY <2>3, DatesRise
  <2>7. /\ next \in Nat /\ next >= today
        /\ \E n \in Nat : next = at(n) /\ \A k \in Nat : k < n => at(k) < today
    BY <2>3, <2>4, NextIsFirst
  <2> HIDE DEF at, next
  <2>8. PICK n \in Nat : next = at(n) /\ \A k \in Nat : k < n => at(k) < today
    BY <2>7
  <2>9. ASSUME NEW length \in {0, Span}
        PROVE  LET inside == {d \in dates : today <= d /\ d <= today + length}
               IN {day \in {next} : today <= day /\ day <= today + length}
                    = {d \in inside : \A e \in inside : d <= e}
    <3> DEFINE inside == {d \in dates : today <= d /\ d <= today + length}
    <3>1. length \in Nat /\ length <= Span
      BY <2>4
    <3>2. \A e \in inside : e \in Nat /\ next <= e
      <4>1. ASSUME NEW e \in inside PROVE e \in Nat /\ next <= e
        <5>1. PICK k \in 0..last : e = at(k)
          OBVIOUS
        <5>2. k \in Nat /\ today <= e
          BY <2>4
        <5>3. ~(k < n)
          BY <2>4, <2>5, <2>8, <5>1, <5>2
        <5>4. k = n \/ n < k
          BY <5>2, <5>3
        <5>5. QED
          BY <2>5, <2>6, <2>8, <5>1, <5>2, <5>4
      <4>2. QED
        BY <4>1
    <3>3. next <= today + length => next \in inside
      <4>1. SUFFICES ASSUME next <= today + length PROVE next \in inside
        OBVIOUS
      <4>2. at(n) >= DayOf(stored.start) + n /\ at(n) \in Nat
        BY <2>5
      <4>3. n \in 0..last
        BY <2>4, <2>8, <3>1, <4>1, <4>2
      <4>4. QED
        BY <2>7, <2>8, <4>1, <4>3
    <3>4. \A e \in inside : e <= today + length
      OBVIOUS
    <3> HIDE DEF inside
    <3>5. ASSUME next <= today + length
          PROVE  {day \in {next} : today <= day /\ day <= today + length}
                   = {d \in inside : \A e \in inside : d <= e}
      BY <2>4, <2>7, <3>1, <3>2, <3>3, <3>5
    <3>6. ASSUME ~(next <= today + length)
          PROVE  {day \in {next} : today <= day /\ day <= today + length}
                   = {d \in inside : \A e \in inside : d <= e}
      <4>1. inside = {}
        BY <2>4, <2>7, <3>1, <3>2, <3>4, <3>6
      <4>2. QED
        BY <3>6, <4>1
    <3>7. QED
      BY <3>5, <3>6 DEF inside
  <2>10. \A length \in {0, Span} : Listed(today, today + length)
           = {day \in {next} : today <= day /\ day <= today + length}
    BY DEF Listed, next
  <2>11. QED
    BY <2>9, <2>10, Zenon DEF FirstInWindow, at
<1>2. QED
  BY <1>1, RecurInvariant, PTL
=============================================================================
