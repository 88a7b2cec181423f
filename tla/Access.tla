------------------------------- MODULE Access -------------------------------
(***************************************************************************)
(* Who may use a deployment: the users, invites, sessions and API tokens   *)
(* of tenant-auth-db.ts, as the handlers of router.ts ask for them.        *)
(*                                                                         *)
(* A deployment is one tenant.  Every row is in D1, and a handler is a     *)
(* sequence of queries with an await between any two of them: a request is *)
(* a process, and each query that another request can tell from its        *)
(* neighbours is an action.  Queries that read what never changes (the     *)
(* tenant's id, a user's row once it exists) are read with the query that  *)
(* needs them.  Passwords, names, scopes and the times at which something  *)
(* was last used are left out: whoever signs in knows the password.        *)
(***************************************************************************)
EXTENDS Naturals, Sequences, FiniteSets

CONSTANTS
  Emails,       \* of the people who have or get an account
  NoOne,        \* no email
  Requests,     \* requests handled at a time
  MaxInvites,   \* bound: invites written
  MaxSessions,  \* bound: sessions opened
  MaxTokens,    \* bound: API tokens made
  MaxInputs     \* bound: requests, failures, expiries and seedings together

ASSUME AccessAssumption ==
    NoOne \notin Emails /\ {MaxInvites, MaxSessions, MaxTokens, MaxInputs} \subseteq Nat

VARIABLES
  role,       \* users: the role of each email's row, "none" where there is no row
  invites,    \* rows of invites, in the order written
  sessions,   \* rows of user_sessions; one that is deleted or expired is not live
  tokens,     \* rows of user_api_tokens; one that is revoked or expired is not live
  request,    \* what each handler is doing
  inputs,
  seeded,     \* history: the emails the bootstrap script made owners
  founders    \* history: the accounts asked for before there was any

vars == <<role, invites, sessions, tokens, request, inputs, seeded, founders>>

-----------------------------------------------------------------------------
Roles == {"owner", "member"}
None  == [of |-> "none", row |-> 0]

(* invite: the row it accepts or wrote; cred: what it signs in with; token:  *)
(* the API token to revoke; early: no account existed when it began.         *)
Idle == [at |-> "idle", does |-> "nothing", email |-> NoOne, role |-> "member",
         invite |-> 0, cred |-> None, token |-> 0, early |-> FALSE]

Steps == {"idle", "find", "count", "insert", "open", "resolve", "select", "batch",
          "auth", "touch", "logout", "newToken", "revoke", "owner", "pending",
          "invite", "audit"}

TypeOK ==
    /\ role \in [Emails -> Roles \cup {"none"}]
    /\ invites \in Seq([email: Emails, role: Roles, status: {"pending", "accepted"},
                        expired: BOOLEAN, sent: BOOLEAN])
    /\ sessions \in Seq([user: Emails, live: BOOLEAN])
    /\ tokens \in Seq([user: Emails, live: BOOLEAN])
    /\ inputs \in 0..MaxInputs
    /\ seeded \subseteq Emails /\ founders \subseteq Emails
    /\ \A q \in Requests :
          /\ request[q].at \in Steps
          /\ request[q].email \in Emails \cup {NoOne}
          /\ request[q].invite \in 0..Len(invites)
          /\ request[q].token \in 0..Len(tokens)
          /\ request[q].at \in {"insert", "open"} => request[q].email # NoOne
          /\ request[q].at \in {"select", "batch"} =>
                role[invites[request[q].invite].email] # "none"
    /\ \A c \in {sessions[j].user : j \in DOMAIN sessions} \cup
                {tokens[t].user : t \in DOMAIN tokens} : role[c] # "none"

HasSeat(e) == role[e] # "none"
IsOwner(e) == role[e] = "owner"
NoUsers == \A e \in Emails : ~HasSeat(e)

(* A deployment that the bootstrap script has given an owner, or one whose   *)
(* first account is still to be asked for.                                   *)
Init ==
    /\ seeded \in {{}} \cup {{e} : e \in Emails}
    /\ role = [e \in Emails |-> IF e \in seeded THEN "owner" ELSE "none"]
    /\ invites = <<>> /\ sessions = <<>> /\ tokens = <<>>
    /\ request = [q \in Requests |-> Idle]
    /\ inputs = 0
    /\ founders = {}

Count == inputs < MaxInputs /\ inputs' = inputs + 1
Goes(q, step) == request' = [request EXCEPT ![q].at = step]
Ends(q) == request' = [request EXCEPT ![q] = Idle]

-----------------------------------------------------------------------------
(* Requests.                                                                 *)

Begin(q, record) ==
    /\ request[q].at = "idle"
    /\ Count
    /\ request' = [request EXCEPT ![q] = [record EXCEPT !.early = NoUsers]]
    /\ UNCHANGED <<role, invites, sessions, tokens, seeded, founders>>

AskSignup(q, e) ==
    Begin(q, [Idle EXCEPT !.at = "find", !.does = "signup", !.email = e])
AskLogin(q, e) ==
    Begin(q, [Idle EXCEPT !.at = "open", !.does = "login", !.email = e])
(* With a link that an owner was given and passed on. *)
AskAccept(q, i) ==
    invites[i].sent /\ Begin(q, [Idle EXCEPT !.at = "resolve", !.does = "accept", !.invite = i])

(* A session token or an API token, live or not. *)
Credentials == [of: {"session"}, row: DOMAIN sessions] \cup [of: {"token"}, row: DOMAIN tokens]

AskAs(q, c, does) ==
    Begin(q, [Idle EXCEPT !.at = "auth", !.does = does, !.cred = c])
(* What only reads, or is refused to everybody: a second tenant, a seat that *)
(* is given or changed without an invite.                                    *)
AskRead(q, c) == AskAs(q, c, "read")
AskInvite(q, c, e, r) ==
    Begin(q, [Idle EXCEPT !.at = "auth", !.does = "owner", !.cred = c, !.email = e, !.role = r])
AskRevoke(q, c, t) ==
    Begin(q, [Idle EXCEPT !.at = "auth", !.does = "revoke", !.cred = c, !.token = t])

-----------------------------------------------------------------------------
(* signup, and the login it ends with.                                       *)

(* Mutant: somebody who has an account is let through. *)
FindNobody(q) ==
    /\ request[q].at = "find"
    /\ Goes(q, IF role[request[q].email] # "none" THEN "open" ELSE "count")
    /\ UNCHANGED <<role, invites, sessions, tokens, inputs, seeded, founders>>

Find(q) ==
    /\ request[q].at = "find"
    /\ IF HasSeat(request[q].email) THEN Ends(q) ELSE Goes(q, "count")
    /\ UNCHANGED <<role, invites, sessions, tokens, inputs, seeded, founders>>

FirstRole == IF NoUsers THEN "owner" ELSE "member"

CountUsers(q) ==
    /\ request[q].at = "count"
    /\ request' = [request EXCEPT ![q].at = "insert", ![q].role = FirstRole]
    /\ UNCHANGED <<role, invites, sessions, tokens, inputs, seeded, founders>>

(* Mutant: an account that was made meanwhile is taken for one's own. *)
AdoptUser(q) ==
    /\ request[q].at = "insert"
    /\ LET e == request[q].email IN
       /\ role' = IF role[e] # "none" THEN role ELSE [role EXCEPT ![e] = request[q].role]
       /\ founders' = IF role[e] = "none" /\ request[q].early THEN founders \cup {e} ELSE founders
    /\ Goes(q, "open")
    /\ UNCHANGED <<invites, sessions, tokens, inputs, seeded>>

(* The email is unique: a second row for it is an error. *)
InsertUser(q) ==
    /\ request[q].at = "insert"
    /\ LET e == request[q].email IN
       IF HasSeat(e)
       THEN Ends(q) /\ UNCHANGED <<role, founders>>
       ELSE /\ role' = [role EXCEPT ![e] = request[q].role]
            /\ founders' = IF request[q].early THEN founders \cup {e} ELSE founders
            /\ Goes(q, "open")
    /\ UNCHANGED <<invites, sessions, tokens, inputs, seeded>>

OpenSession(q) ==
    /\ request[q].at = "open"
    /\ IF ~HasSeat(request[q].email)
       THEN Ends(q) /\ UNCHANGED sessions
       ELSE /\ Len(sessions) < MaxSessions
            /\ sessions' = Append(sessions, [user |-> request[q].email, live |-> TRUE])
            /\ IF request[q].does = "accept" THEN Goes(q, "select") ELSE Ends(q)
    /\ UNCHANGED <<role, invites, tokens, inputs, seeded, founders>>

-----------------------------------------------------------------------------
(* An invite is accepted by making its account.                              *)

Pending(i) == invites[i].status = "pending" /\ ~invites[i].expired

Resolve(q) ==
    /\ request[q].at = "resolve"
    /\ LET i == request[q].invite IN
       IF Pending(i)
       THEN request' = [request EXCEPT ![q].at = "find", ![q].email = invites[i].email]
       ELSE Ends(q)
    /\ UNCHANGED <<role, invites, sessions, tokens, inputs, seeded, founders>>

Select(q) ==
    /\ request[q].at = "select"
    /\ IF Pending(request[q].invite) THEN Goes(q, "batch") ELSE Ends(q)
    /\ UNCHANGED <<role, invites, sessions, tokens, inputs, seeded, founders>>

(* Both rows in one batch.  What comes after it, the audit entry and the     *)
(* answer, changes none of the rows.                                         *)
Batch(q) ==
    /\ request[q].at = "batch"
    /\ LET i == request[q].invite IN
       /\ role' = [role EXCEPT ![request[q].email] = invites[i].role]
       /\ invites' = [invites EXCEPT ![i].status = "accepted"]
    /\ Ends(q)
    /\ UNCHANGED <<sessions, tokens, inputs, seeded, founders>>

-----------------------------------------------------------------------------
(* Requests of somebody who is signed in.                                    *)

LiveCredential(c) ==
    \/ c.of = "session" /\ sessions[c.row].live
    \/ c.of = "token" /\ tokens[c.row].live

End(c) ==
    /\ sessions' = IF c.of = "session" THEN [sessions EXCEPT ![c.row].live = FALSE] ELSE sessions
    /\ tokens' = IF c.of = "token" THEN [tokens EXCEPT ![c.row].live = FALSE] ELSE tokens

UserOf(c) == IF c.of = "session" THEN sessions[c.row].user ELSE tokens[c.row].user

Authenticate(q) ==
    /\ request[q].at = "auth"
    /\ IF LiveCredential(request[q].cred) THEN Goes(q, "touch") ELSE Ends(q)
    /\ UNCHANGED <<role, invites, sessions, tokens, inputs, seeded, founders>>

AfterTouch(q) == IF request[q].does = "read" THEN Ends(q) ELSE Goes(q, request[q].does)

(* Mutant: the row that was read is written back. *)
TouchRow(q) ==
    /\ request[q].at = "touch"
    /\ AfterTouch(q)
    /\ LET c == request[q].cred IN
       /\ sessions' = IF c.of = "session" THEN [sessions EXCEPT ![c.row].live = TRUE] ELSE sessions
       /\ tokens' = IF c.of = "token" THEN [tokens EXCEPT ![c.row].live = TRUE] ELSE tokens
    /\ UNCHANGED <<role, invites, inputs, seeded, founders>>

(* The time of last use is written, by the row's id and nothing else; then   *)
(* the seat is looked up, which every user has.                              *)
Touch(q) ==
    /\ request[q].at = "touch"
    /\ AfterTouch(q)
    /\ UNCHANGED <<role, invites, sessions, tokens, inputs, seeded, founders>>

(* A request signed with an API token has no session to delete. *)
Logout(q) ==
    /\ request[q].at = "logout"
    /\ LET c == request[q].cred IN
       sessions' = IF c.of = "session" THEN [sessions EXCEPT ![c.row].live = FALSE] ELSE sessions
    /\ Ends(q)
    /\ UNCHANGED <<role, invites, tokens, inputs, seeded, founders>>

CreateToken(q) ==
    /\ request[q].at = "newToken"
    /\ Len(tokens) < MaxTokens
    /\ tokens' = Append(tokens, [user |-> UserOf(request[q].cred), live |-> TRUE])
    /\ Ends(q)
    /\ UNCHANGED <<role, invites, sessions, inputs, seeded, founders>>

RevokeToken(q) ==
    /\ request[q].at = "revoke"
    /\ LET t == request[q].token IN
       tokens' = IF tokens[t].user = UserOf(request[q].cred)
                 THEN [tokens EXCEPT ![t].live = FALSE] ELSE tokens
    /\ Ends(q)
    /\ UNCHANGED <<role, invites, sessions, inputs, seeded, founders>>

(* requireOwnerTenantAccess, and assertOwner again. *)
CheckOwner(q) ==
    /\ request[q].at = "owner"
    /\ IF IsOwner(UserOf(request[q].cred)) THEN Goes(q, "pending") ELSE Ends(q)
    /\ UNCHANGED <<role, invites, sessions, tokens, inputs, seeded, founders>>

CheckPending(q) ==
    /\ request[q].at = "pending"
    /\ IF \E i \in DOMAIN invites : invites[i].email = request[q].email /\ Pending(i)
       THEN Ends(q) ELSE Goes(q, "invite")
    /\ UNCHANGED <<role, invites, sessions, tokens, inputs, seeded, founders>>

InsertInvite(q) ==
    /\ request[q].at = "invite"
    /\ Len(invites) < MaxInvites
    /\ invites' = Append(invites, [email |-> request[q].email, role |-> request[q].role,
                                   status |-> "pending", expired |-> FALSE, sent |-> FALSE])
    /\ request' = [request EXCEPT ![q].at = "audit", ![q].invite = Len(invites')]
    /\ UNCHANGED <<role, sessions, tokens, inputs, seeded, founders>>

(* The audit entry is written and the owner is answered with the token,      *)
(* which is not kept.                                                        *)
AnswerInvite(q) ==
    /\ request[q].at = "audit"
    /\ invites' = [invites EXCEPT ![request[q].invite].sent = TRUE]
    /\ Ends(q)
    /\ UNCHANGED <<role, sessions, tokens, inputs, seeded, founders>>

-----------------------------------------------------------------------------
(* A query fails or the worker dies: what was written stays. *)
Fail(q) ==
    /\ request[q].at # "idle"
    /\ Count
    /\ Ends(q)
    /\ UNCHANGED <<role, invites, sessions, tokens, seeded, founders>>

(* Thirty days pass, or what an API token was given. *)
ExpireInvite(i) ==
    /\ Pending(i)
    /\ Count
    /\ invites' = [invites EXCEPT ![i].expired = TRUE]
    /\ UNCHANGED <<role, sessions, tokens, request, seeded, founders>>

Expire(c) ==
    /\ LiveCredential(c)
    /\ Count
    /\ End(c)
    /\ UNCHANGED <<role, invites, request, seeded, founders>>

(* The bootstrap script, run on a deployment that is in use: one transaction *)
(* that makes the emails it lists owners, whether they have an account.      *)
Bootstrap(e) ==
    /\ Count
    /\ role' = [role EXCEPT ![e] = "owner"]
    /\ seeded' = seeded \cup {e}
    /\ UNCHANGED <<invites, sessions, tokens, request, founders>>

-----------------------------------------------------------------------------
Asks(q) ==
    \/ \E e \in Emails : AskSignup(q, e) \/ AskLogin(q, e)
    \/ \E i \in DOMAIN invites : AskAccept(q, i)
    \/ \E c \in Credentials :
          \/ AskRead(q, c)
          \/ \E does \in {"logout", "newToken"} : AskAs(q, c, does)
          \/ \E e \in Emails, r \in Roles : AskInvite(q, c, e, r)
          \/ \E t \in DOMAIN tokens : AskRevoke(q, c, t)

Works(q) ==
    \/ Find(q) \/ CountUsers(q) \/ InsertUser(q) \/ OpenSession(q)
    \/ Resolve(q) \/ Select(q) \/ Batch(q)
    \/ Authenticate(q) \/ Touch(q) \/ Logout(q) \/ CreateToken(q) \/ RevokeToken(q)
    \/ CheckOwner(q) \/ CheckPending(q) \/ InsertInvite(q) \/ AnswerInvite(q)

Next ==
    \/ \E q \in Requests : Asks(q) \/ Works(q) \/ Fail(q)
    \/ \E i \in DOMAIN invites : ExpireInvite(i)
    \/ \E c \in Credentials : Expire(c)
    \/ \E e \in Emails : Bootstrap(e)

Spec == Init /\ [][Next]_vars

-----------------------------------------------------------------------------
(* A deployment that has users has an owner, who alone can invite others:    *)
(* no order of signups, invites (an owner may be invited as a member) and    *)
(* failures leaves it with members only.                                     *)
AnOwnerRemains == ~NoUsers => \E e \in Emails : IsOwner(e)

(* An invite that counts as accepted gave its account the role it offered,   *)
(* and no other invite to that email was accepted, though two may have been  *)
(* sent and followed at the same time.  Only the bootstrap script changes    *)
(* the role afterwards.                                                      *)
InvitesAreKept ==
    \A i \in DOMAIN invites :
        invites[i].status = "accepted" =>
            /\ role[invites[i].email] = invites[i].role \/ invites[i].email \in seeded
            /\ \A j \in DOMAIN invites \ {i} :
                  invites[j].email = invites[i].email => invites[j].status = "pending"

(* Nobody becomes an owner but by the bootstrap script, by an invite as an   *)
(* owner, or by asking for an account before the deployment had one.         *)
OwnersAreAppointed ==
    \A e \in Emails :
        IsOwner(e) =>
            \/ e \in seeded \cup founders
            \/ \E i \in DOMAIN invites : /\ invites[i].email = e
                                         /\ invites[i].role = "owner"
                                         /\ invites[i].status = "accepted"

(* However signups, invites and failures interleave: whoever has a session   *)
(* or a token has an account, a deployment with accounts has an owner, and   *)
(* nobody is one who was not appointed.                                      *)
OwnersStand == TypeOK /\ AnOwnerRemains /\ OwnersAreAppointed

(* A session that was closed or ran out, and a token that was revoked, stay  *)
(* so, whatever requests that were let in before are still writing.          *)
EndedStaysEnded ==
    [][/\ \A j \in DOMAIN sessions : ~sessions[j].live => ~sessions'[j].live
       /\ \A t \in DOMAIN tokens : ~tokens[t].live => ~tokens'[t].live]_vars
=============================================================================
