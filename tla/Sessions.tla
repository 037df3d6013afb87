------------------------------- MODULE Sessions -------------------------------
(***************************************************************************)
(* Sign-in, refresh-token rotation and the links that set a password        *)
(* (services/auth.py, services/credentials.py, auth/tokens.py,              *)
(* models/user.py, routers/auth.py).                                        *)
(*                                                                         *)
(* A request that reads a row and later commits what follows from it is two *)
(* actions: no row is locked in between.  Replay and log-out read only what *)
(* never changes again, and stay one action each.  Tokens are unguessable   *)
(* names.  An expiry date only ever refuses, so none is kept: what is shown  *)
(* holds for tokens and links of any age.  An access token is checked        *)
(* against the clock and the user alone, and outlives its family by up to    *)
(* its half hour.                                                           *)
(***************************************************************************)
EXTENDS Integers, FiniteSets

CONSTANTS
  User,
  Token,         \* refresh tokens; the first of a family names it
  Link,          \* password-set tokens, of an invitation or of a reset
  Request,       \* requests that may be half way through
  MaxPasswords,  \* bound on passwords chosen per user
  None

VARIABLES
  password,  \* the password each user's hash verifies
  weak,      \* users whose hash has outdated parameters
  admitted,  \* users who are active with an active, licensed membership
  tokens,    \* refresh_tokens rows; None before they are issued
  links,     \* password_reset_tokens rows
  request,   \* what each request read
  ended,     \* families somebody ended
  late       \* families and links that a request begun before completed after

vars == <<password, weak, admitted, tokens, links, request, ended, late>>
Rows == <<password, weak, admitted, tokens, links>>

NoRequest == [op |-> None, user |-> None, item |-> None, under |-> 0, seen |-> {}, over |-> FALSE]

Issued(t) == tokens[t] # None
OnlyPresented(t) == {t}  \* mutant: the row, not the family
FamilyOf(t) == {x \in Token : Issued(x) /\ tokens[x].family = tokens[t].family}
SessionsOf(u) == {x \in Token : Issued(x) /\ tokens[x].user = u}
Families(S) == {tokens[x].family : x \in S}
Usable(t) == Issued(t) /\ ~tokens[t].revoked

LinksOf(u) == {l \in Link : links[l] # None /\ links[l].user = u}
Outstanding(u) == {l \in LinksOf(u) : ~links[l].used}

Init ==
  /\ password = [u \in User |-> 1]
  /\ weak \in SUBSET User
  /\ admitted = User
  /\ tokens = [t \in Token |-> None]
  /\ links = [l \in Link |-> None]
  /\ request = [q \in Request |-> NoRequest]
  /\ ended = {} /\ late = {}

(* UPDATE refresh_tokens SET revoked_at, and the families it ends. *)
Revoked(S) == [x \in Token |-> IF x \in S THEN [tokens[x] EXCEPT !.revoked = TRUE] ELSE tokens[x]]
End(S) == tokens' = Revoked(S) /\ ended' = ended \cup Families(S)

Begin(q, r) ==
  /\ request[q].op = None
  /\ request' = [request EXCEPT ![q] = r]
  /\ UNCHANGED <<Rows, ended, late>>

Done(q) == request' = [request EXCEPT ![q] = NoRequest]

-----------------------------------------------------------------------------
(* authenticate and the membership gates, then issue_tokens. *)
BeginLogin(q, u) ==
  /\ u \in admitted
  /\ Begin(q, [NoRequest EXCEPT !.op = "login", !.user = u, !.under = password[u], !.over = u \in weak])

(* A hash with outdated parameters is replaced by one of the password that   *)
(* was verified, whatever the row holds by now.                             *)
CommitLogin(q, t) ==
  LET r == request[q]
  IN /\ r.op = "login" /\ ~Issued(t)
     /\ tokens' = [tokens EXCEPT ![t] = [user |-> r.user, family |-> t, revoked |-> FALSE]]
     /\ password' = IF r.over THEN [password EXCEPT ![r.user] = r.under] ELSE password
     /\ weak' = IF r.over THEN weak \ {r.user} ELSE weak
     /\ Done(q)
     /\ UNCHANGED <<admitted, links, ended, late>>

(* rotate, on a token nobody has rotated. *)
AcceptRevoked(t) == Issued(t)  \* mutant: revoked_at is not looked at
Accepted(t) == Usable(t)

BeginRotate(q, t) ==
  /\ Accepted(t) /\ tokens[t].user \in admitted
  /\ Begin(q, [NoRequest EXCEPT !.op = "rotate", !.user = tokens[t].user, !.item = t,
                                !.over = tokens[t].family \in ended])

CommitRotate(q, n) ==
  LET r == request[q]
      family == tokens[r.item].family
  IN /\ r.op = "rotate" /\ ~Issued(n)
     /\ tokens' = [tokens EXCEPT ![r.item].revoked = TRUE,
                                 ![n] = [user |-> r.user, family |-> family, revoked |-> FALSE]]
     /\ late' = IF family \in ended /\ ~r.over THEN late \cup {family} ELSE late
     /\ Done(q)
     /\ UNCHANGED <<password, weak, admitted, links, ended>>

(* rotate, on one that somebody has: the family ends, committed on the spot. *)
Replay(t) ==
  /\ Issued(t) /\ tokens[t].revoked
  /\ End(FamilyOf(t))
  /\ UNCHANGED <<password, weak, admitted, links, request, late>>

Logout(t) ==
  /\ Issued(t)
  /\ End(FamilyOf(t))
  /\ UNCHANGED <<password, weak, admitted, links, request, late>>

-----------------------------------------------------------------------------
(* A new password: change_password with the current one, redeem with a link. *)
BeginChange(q, u) ==
  /\ u \in admitted
  /\ Begin(q, [NoRequest EXCEPT !.op = "change", !.user = u])

BeginRedeem(q, l) ==
  /\ links[l] # None /\ ~links[l].used
  /\ Begin(q, [NoRequest EXCEPT !.op = "redeem", !.user = links[l].user, !.item = l])

SetPassword(q) ==
  LET r == request[q]
  IN /\ r.op \in {"change", "redeem"}
     /\ password[r.user] < MaxPasswords
     /\ password' = [password EXCEPT ![r.user] = @ + 1]
     /\ weak' = weak \ {r.user}
     /\ End(SessionsOf(r.user))
     /\ links' = IF r.op = "redeem" THEN [links EXCEPT ![r.item].used = TRUE] ELSE links
     /\ Done(q)
     /\ UNCHANGED <<admitted, late>>

(* issue: one UPDATE spends what is outstanding, then the new link. *)
Nothing(u) == {}  \* mutant: an issue supersedes nothing
Superseded(u) == Outstanding(u)

BeginIssue(q, u) ==
  Begin(q, [NoRequest EXCEPT !.op = "issue", !.user = u, !.seen = Superseded(u)])

CommitIssue(q, n) ==
  LET r == request[q]
      others == {p \in Request \ {q} : request[p].op = "issue" /\ request[p].user = r.user}
  IN /\ r.op = "issue" /\ links[n] = None
     /\ links' = [l \in Link |->
          IF l = n THEN [user |-> r.user, used |-> FALSE]
          ELSE IF l \in r.seen THEN [links[l] EXCEPT !.used = TRUE] ELSE links[l]]
     /\ late' = IF r.over THEN late \cup {n} ELSE late
     /\ request' = [p \in Request |->
          IF p = q THEN NoRequest
          ELSE IF p \in others THEN [request[p] EXCEPT !.over = TRUE] ELSE request[p]]
     /\ UNCHANGED <<password, weak, admitted, tokens, ended>>

-----------------------------------------------------------------------------
(* A member is deactivated or loses the licence, or gets them back. *)
Gate(u) ==
  /\ admitted' = IF u \in admitted THEN admitted \ {u} ELSE admitted \cup {u}
  /\ UNCHANGED <<password, weak, tokens, links, request, ended, late>>

(* The client is gone, or the transaction fails. *)
Abandon(q) ==
  /\ request[q].op # None
  /\ Done(q)
  /\ UNCHANGED <<Rows, ended, late>>

Next ==
  \/ \E q \in Request :
       \/ SetPassword(q) \/ Abandon(q)
       \/ \E u \in User : BeginLogin(q, u) \/ BeginChange(q, u) \/ BeginIssue(q, u)
       \/ \E t \in Token : BeginRotate(q, t) \/ CommitLogin(q, t) \/ CommitRotate(q, t)
       \/ \E l \in Link : BeginRedeem(q, l) \/ CommitIssue(q, l)
  \/ \E t \in Token : Replay(t) \/ Logout(t)
  \/ \E u \in User : Gate(u)

Spec == Init /\ [][Next]_vars

-----------------------------------------------------------------------------
(* Properties. *)

TypeOK ==
  /\ password \in [User -> 1..MaxPasswords]
  /\ \A t \in Token : Issued(t) => tokens[t].user \in User /\ Issued(tokens[t].family)
  /\ \A l \in Link : links[l] # None => links[l].user \in User
  /\ ended \subseteq {t \in Token : Issued(t)} /\ late \subseteq Token \cup Link

(* "The whole family is revoked rather than just the presented row", "end    *)
(* every existing session", "superseding any outstanding one": a family that *)
(* was logged out, replayed, or ended by a new password has no token that    *)
(* can be rotated, however often it had been rotated before; only a rotation *)
(* already under way at that moment can bring one in.  Likewise a user has   *)
(* one outstanding link, unless two were being issued at the same time.      *)
EndedStaysEnded ==
  /\ \A t \in Token : Usable(t) => tokens[t].family \notin ended \ late
  /\ \A u \in User : \A k, l \in Outstanding(u) : k # l => {k, l} \cap late # {}

-----------------------------------------------------------------------------
(* For the proofs: what keeps EndedStaysEnded.                              *)
Op == {"login", "rotate", "change", "redeem", "issue"}
TokenRow == [user : User, family : Token, revoked : BOOLEAN]
LinkRow == [user : User, used : BOOLEAN]

SessionsAssumption ==
  /\ None \notin Op \cup TokenRow \cup LinkRow
  /\ MaxPasswords \in Nat \ {0}

RowsInv ==
  /\ password \in [User -> 1..MaxPasswords]
  /\ tokens \in [Token -> {None} \cup TokenRow]
  /\ links \in [Link -> {None} \cup LinkRow]
  /\ request \in [Request ->
       [op : {None} \cup Op, user : {None} \cup User, item : {None} \cup Token \cup Link,
        under : 0..MaxPasswords, seen : SUBSET Link, over : BOOLEAN]]
  /\ ended \subseteq Token /\ late \subseteq Token \cup Link

(* A family is named by its first token, and is one user's. *)
FamiliesInv ==
  /\ \A t \in Token : Issued(t) =>
       LET first == tokens[t].family
       IN Issued(first) /\ tokens[first].user = tokens[t].user
  /\ \A t \in ended : Issued(t)

(* What a request half way through knows.  A rotation that began after its   *)
(* family had ended began with a token some earlier rotation brought in; an  *)
(* issue nobody overtook has seen every outstanding link of its user.        *)
RequestKnows(r) ==
  /\ r.op \in Op => r.user \in User
  /\ r.op = "login" => r.under > 0
  /\ r.op = "rotate" =>
       /\ r.item \in Token /\ Issued(r.item) /\ tokens[r.item].user = r.user
       /\ r.over => tokens[r.item].family \in late
  /\ r.op = "redeem" => r.item \in Link /\ links[r.item] # None
  /\ r.op = "issue" =>
       /\ r.seen \subseteq LinksOf(r.user)
       /\ ~r.over => Outstanding(r.user) \subseteq r.seen

SessionsInv ==
  /\ RowsInv
  /\ FamiliesInv
  /\ \A q \in Request : RequestKnows(request[q])
  /\ EndedStaysEnded
=============================================================================
