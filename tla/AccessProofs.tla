---------------------------- MODULE AccessProofs ----------------------------
(***************************************************************************)
(* Proofs about Access, for any emails, any number of requests at a time   *)
(* and any bounds.                                                         *)
(***************************************************************************)
EXTENDS Access, SequenceTheorems, TLAPS

Signed == {"read", "logout", "newToken", "owner", "revoke"}
Doings == {"nothing", "signup", "login", "accept"} \cup Signed

Invite  == [email: Emails, role: Roles, status: {"pending", "accepted"},
            expired: BOOLEAN, sent: BOOLEAN]
Live    == [user: Emails, live: BOOLEAN]
Cred    == [of: {"none", "session", "token"}, row: Nat]
Request == [at: Steps, does: Doings, email: Emails \cup {NoOne}, role: Roles,
            invite: Nat, cred: Cred, token: Nat, early: BOOLEAN]

Types ==
    /\ role \in [Emails -> Roles \cup {"none"}]
    /\ invites \in Seq(Invite)
    /\ sessions \in Seq(Live)
    /\ tokens \in Seq(Live)
    /\ request \in [Requests -> Request]
    /\ inputs \in 0..MaxInputs
    /\ seeded \subseteq Emails /\ founders \subseteq Emails

(* An accept that knows its account, and one that has made it. *)
Accepting(r) == r.does = "accept" /\ r.at \in {"find", "count", "insert", "open", "select", "batch"}
InFlight(r)  == r.does = "accept" /\ r.at \in {"open", "select", "batch"}

(* What a request knows of the rows it is about. *)
Fits(r, is, ss, ts) ==
    /\ r.invite \in 0..Len(is)
    /\ r.token \in 0..Len(ts)
    /\ r.at \in {"find", "count", "insert", "open"} => r.email \in Emails
    /\ r.at \in {"resolve", "select", "batch"} => r.does = "accept"
    /\ r.does = "accept" \/ r.at = "audit" => r.invite # 0
    /\ Accepting(r) => r.email = is[r.invite].email
    /\ r.at \in {"auth", "touch"} => r.does \in Signed
    /\ r.at \in {"owner", "pending", "invite"} => r.does = "owner"
    /\ r.does = "owner" => r.email \in Emails
    /\ r.at = "revoke" => r.does = "revoke"
    /\ r.does = "revoke" => r.token # 0
    /\ r.at \in {"auth", "touch", "logout", "newToken", "revoke", "owner"} =>
          \/ r.cred.of = "session" /\ r.cred.row \in 1..Len(ss)
          \/ r.cred.of = "token" /\ r.cred.row \in 1..Len(ts)

AllFit == \A q \in Requests : Fits(request[q], invites, sessions, tokens)

(* Whoever has a session or a token has a seat, and an accepted invite has   *)
(* given one.                                                                *)
Seats ==
    /\ \A j \in 1..Len(sessions) : HasSeat(sessions[j].user)
    /\ \A t \in 1..Len(tokens) : HasSeat(tokens[t].user)
    /\ \A i \in 1..Len(invites) : invites[i].status = "accepted" => HasSeat(invites[i].email)

(* While there is no account there is no invite and nobody to write one, and *)
(* whoever makes the first becomes an owner.                                 *)
BeforeFirst ==
    NoUsers => /\ Len(invites) = 0
               /\ \A q \in Requests :
                     /\ request[q].at \notin {"pending", "invite"}
                     /\ request[q].at # "idle" => request[q].early
                     /\ request[q].at = "insert" => request[q].role = "owner"

EarlyOwners ==
    \A q \in Requests :
        request[q].at = "insert" /\ request[q].role = "owner" => request[q].early

(* An account is made once: one accept of an email comes past it, and finds  *)
(* its role to be set as the invite says.                                    *)
OneInFlight ==
    \A q \in Requests : InFlight(request[q]) =>
       /\ HasSeat(request[q].email)
       /\ \A p \in Requests \ {q} : InFlight(request[p]) => request[p].email # request[q].email
       /\ \A i \in 1..Len(invites) :
             invites[i].email = request[q].email => invites[i].status = "pending"

(* An owner whose role no accept under way will set. *)
SettledOwner ==
    ~NoUsers => \E e \in Emails :
       /\ IsOwner(e)
       /\ \A q \in Requests : InFlight(request[q]) => request[q].email # e

Safe == /\ Seats /\ BeforeFirst /\ EarlyOwners /\ OneInFlight /\ SettledOwner
        /\ InvitesAreKept /\ OwnersAreAppointed

IInv == Types /\ AllFit /\ Safe

-----------------------------------------------------------------------------
(* How the rows move.                                                        *)

(* A row is added. *)
LEMMA RowAdded ==
  ASSUME NEW S, NEW s \in Seq(S), NEW e \in S
  PROVE  LET t == Append(s, e) IN
         /\ t \in Seq(S) /\ Len(t) = Len(s) + 1
         /\ \A j \in 1..Len(s) : t[j] = s[j]
         /\ t[Len(s) + 1] = e
BY AppendProperties

(* A row is changed. *)
LEMMA RowChanged ==
  ASSUME NEW S, NEW s \in Seq(S), NEW i \in 1..Len(s), NEW e \in S
  PROVE  LET t == [s EXCEPT ![i] = e] IN
         /\ t \in Seq(S) /\ Len(t) = Len(s)
         /\ \A j \in 1..Len(s) : t[j] = IF j = i THEN e ELSE s[j]
BY ExceptSeq

LEMMA Rows ==
  ASSUME Types
  PROVE  /\ Len(invites) \in Nat /\ Len(sessions) \in Nat /\ Len(tokens) \in Nat
         /\ DOMAIN invites = 1..Len(invites)
         /\ DOMAIN sessions = 1..Len(sessions)
         /\ DOMAIN tokens = 1..Len(tokens)
         /\ \A i \in 1..Len(invites) : invites[i] \in Invite
         /\ \A j \in 1..Len(sessions) : sessions[j] \in Live
         /\ \A t \in 1..Len(tokens) : tokens[t] \in Live
BY LenProperties, ElementOfSeq DEF Types

(* A session or a token ends: nothing else about it changes. *)
LEMMA RowEnds ==
  ASSUME NEW s \in Seq(Live), NEW i \in 1..Len(s)
  PROVE  LET t == [s EXCEPT ![i].live = FALSE] IN
         /\ t \in Seq(Live) /\ Len(t) = Len(s)
         /\ \A j \in 1..Len(s) : t[j].user = s[j].user /\ (~s[j].live => ~t[j].live)
<1> DEFINE e == [s[i] EXCEPT !.live = FALSE]
<1>1. s[i] \in Live
  BY ElementOfSeq
<1>2. e \in Live /\ e.user = s[i].user /\ ~e.live
  BY <1>1 DEF Live
<1> DEFINE t == [s EXCEPT ![i] = e]
<1>3. [s EXCEPT ![i].live = FALSE] = t
  OBVIOUS
<1> HIDE DEF e
<1>4. t \in Seq(Live) /\ Len(t) = Len(s) /\ \A j \in 1..Len(s) : t[j] = IF j = i THEN e ELSE s[j]
  BY <1>2, RowChanged
<1> HIDE DEF t
<1> QED BY <1>2, <1>3, <1>4

(* An invite is marked: its email and its role stay. *)
LEMMA InviteMarked ==
  ASSUME NEW s \in Seq(Invite), NEW i \in 1..Len(s), NEW e \in Invite, NEW t,
         t = [s EXCEPT ![i] = e], e.email = s[i].email, e.role = s[i].role
  PROVE  /\ t \in Seq(Invite) /\ Len(t) = Len(s)
         /\ \A j \in 1..Len(s) : /\ t[j].email = s[j].email /\ t[j].role = s[j].role
                                 /\ t[j] = IF j = i THEN e ELSE s[j]
BY RowChanged

LEMMA MarkedInvite ==
  ASSUME NEW r \in Invite,
         NEW e \in {[r EXCEPT !.sent = TRUE], [r EXCEPT !.expired = TRUE],
                    [r EXCEPT !.status = "accepted"]}
  PROVE  e \in Invite /\ e.email = r.email /\ e.role = r.role
BY DEF Invite

(* It is sent, or runs out. *)
Marked(s, i, t) ==
    t = [s EXCEPT ![i].sent = TRUE] \/ t = [s EXCEPT ![i].expired = TRUE]

LEMMA InviteSent ==
  ASSUME NEW s \in Seq(Invite), NEW i \in 1..Len(s), NEW t, Marked(s, i, t)
  PROVE  /\ t \in Seq(Invite) /\ Len(t) = Len(s)
         /\ \A j \in 1..Len(s) : /\ t[j].email = s[j].email /\ t[j].role = s[j].role
                                 /\ t[j].status = s[j].status
<1>1. s[i] \in Invite
  BY ElementOfSeq
<1>2. PICK e \in {[s[i] EXCEPT !.sent = TRUE], [s[i] EXCEPT !.expired = TRUE]} :
         t = [s EXCEPT ![i] = e]
  BY DEF Marked
<1>3. e \in Invite /\ e.email = s[i].email /\ e.role = s[i].role
  BY <1>1, MarkedInvite
<1>4. e.status = s[i].status
  BY <1>1 DEF Invite
<1>5. /\ t \in Seq(Invite) /\ Len(t) = Len(s)
      /\ \A j \in 1..Len(s) : /\ t[j].email = s[j].email /\ t[j].role = s[j].role
                              /\ t[j] = IF j = i THEN e ELSE s[j]
  BY <1>2, <1>3, InviteMarked
<1> QED BY <1>4, <1>5

Accepted(s, i, t) == t = [s EXCEPT ![i].status = "accepted"]

LEMMA InviteAccepted ==
  ASSUME NEW s \in Seq(Invite), NEW i \in 1..Len(s), NEW t, Accepted(s, i, t)
  PROVE  /\ t \in Seq(Invite) /\ Len(t) = Len(s)
         /\ \A j \in 1..Len(s) : /\ t[j].email = s[j].email /\ t[j].role = s[j].role
                                 /\ t[j].status = IF j = i THEN "accepted" ELSE s[j].status
<1>1. s[i] \in Invite
  BY ElementOfSeq
<1>2. PICK e \in {[s[i] EXCEPT !.status = "accepted"]} : t = [s EXCEPT ![i] = e]
  BY DEF Accepted
<1>3. e \in Invite /\ e.email = s[i].email /\ e.role = s[i].role
  BY <1>1, MarkedInvite
<1>4. e.status = "accepted"
  BY <1>1 DEF Invite
<1>5. /\ t \in Seq(Invite) /\ Len(t) = Len(s)
      /\ \A j \in 1..Len(s) : /\ t[j].email = s[j].email /\ t[j].role = s[j].role
                              /\ t[j] = IF j = i THEN e ELSE s[j]
  BY <1>2, <1>3, InviteMarked
<1> QED BY <1>4, <1>5

-----------------------------------------------------------------------------
(* How the requests move.                                                    *)

(* The rows only grow, and keep whose they are. *)
Grown ==
    /\ Len(invites) \in 0..Len(invites')
    /\ Len(sessions) \in 0..Len(sessions')
    /\ Len(tokens) \in 0..Len(tokens')
    /\ \A i \in 1..Len(invites) : invites'[i].email = invites[i].email

LEMMA StillFits ==
  ASSUME NEW q \in Requests, Types, Types', Grown, AllFit, request'[q] = request[q]
  PROVE  Fits(request'[q], invites', sessions', tokens')
<1>1. Len(invites') \in Nat /\ Len(sessions') \in Nat /\ Len(tokens') \in Nat
  BY LenProperties DEF Types
<1>2. request[q] \in Request
  BY DEF Types
<1> DEFINE r == request[q]
<1>3. Fits(r, invites, sessions, tokens)
  BY DEF AllFit
<1>4. r.invite \in Nat /\ r.token \in Nat /\ r.cred.row \in Nat
  BY <1>2 DEF Request, Cred
<1>5. r.invite \in 0..Len(invites') /\ r.token \in 0..Len(tokens')
  BY <1>1, <1>3, <1>4, Rows DEF Fits, Grown
<1>6. \/ r.cred.row \notin 1..Len(sessions) \/ r.cred.row \in 1..Len(sessions')
  BY <1>1, <1>4, Rows DEF Grown
<1>7. \/ r.cred.row \notin 1..Len(tokens) \/ r.cred.row \in 1..Len(tokens')
  BY <1>1, <1>4, Rows DEF Grown
<1>8. Accepting(r) => r.email = invites'[r.invite].email
  <2>1. Accepting(r) => r.invite \in 1..Len(invites)
    BY <1>3, <1>4, Rows DEF Fits, Accepting
  <2> QED BY <1>3, <2>1 DEF Fits, Grown
<1> HIDE DEF r
<1>9. Fits(r, invites', sessions', tokens')
  BY <1>3, <1>5, <1>6, <1>7, <1>8 DEF Fits
<1> QED BY <1>9 DEF r

(* A request goes on to another step with what it has. *)
LEMMA Going ==
  ASSUME NEW q \in Requests, NEW step \in Steps, Types, Goes(q, step)
  PROVE  /\ request' \in [Requests -> Request]
         /\ request'[q] = [request[q] EXCEPT !.at = step]
         /\ request'[q].at = step
         /\ request'[q].does = request[q].does /\ request'[q].email = request[q].email
         /\ request'[q].role = request[q].role /\ request'[q].invite = request[q].invite
         /\ request'[q].cred = request[q].cred /\ request'[q].token = request[q].token
         /\ request'[q].early = request[q].early
         /\ \A p \in Requests \ {q} : request'[p] = request[p]
<1>1. request[q] \in Request
  BY DEF Types
<1>2. request'[q] = [request[q] EXCEPT !.at = step]
  BY DEF Goes, Types
<1>3. request'[q] \in Request
  BY <1>1, <1>2 DEF Request
<1>4. request' = [request EXCEPT ![q] = request'[q]]
  BY <1>2 DEF Goes, Types
<1>5. request' \in [Requests -> Request]
  BY <1>3, <1>4 DEF Types
<1> QED BY <1>1, <1>2, <1>5 DEF Goes, Types, Request

LEMMA IdleIsRequest == Idle \in Request /\ Idle.at = "idle" /\ Idle.does = "nothing"
                       /\ Idle.invite = 0 /\ Idle.token = 0 /\ Idle.cred = None
                       /\ Idle.email = NoOne /\ Idle.role = "member" /\ Idle.early = FALSE
BY DEF Idle, Request, Cred, None, Steps, Doings, Signed, Roles

LEMMA Ending ==
  ASSUME NEW q \in Requests, Types, Ends(q)
  PROVE  /\ request' \in [Requests -> Request]
         /\ request'[q] = Idle
         /\ \A p \in Requests \ {q} : request'[p] = request[p]
BY IdleIsRequest DEF Ends, Types

LEMMA IdleFits ==
  ASSUME NEW q \in Requests, Types', request'[q] = Idle
  PROVE  Fits(request'[q], invites', sessions', tokens')
<1>1. Len(invites') \in Nat /\ Len(sessions') \in Nat /\ Len(tokens') \in Nat
  BY LenProperties DEF Types
<1> QED BY <1>1, IdleIsRequest DEF Fits, Accepting, Signed
-----------------------------------------------------------------------------
(* Requests that begin. *)

LEMMA BeginFits ==
  ASSUME NEW q \in Requests, NEW r \in Request, Types, AllFit, Begin(q, r),
         r.at # "idle", Fits(r, invites, sessions, tokens)
  PROVE  /\ Types' /\ AllFit'
         /\ request'[q] = [r EXCEPT !.early = NoUsers]
         /\ \A p \in Requests \ {q} : request'[p] = request[p]
<1> DEFINE new == [r EXCEPT !.early = NoUsers]
<1>1. NoUsers \in BOOLEAN
  BY DEF NoUsers
<1>2. new \in Request
  BY <1>1 DEF Request
<1>3. /\ request' = [request EXCEPT ![q] = new] /\ inputs < MaxInputs /\ inputs' = inputs + 1
      /\ UNCHANGED <<role, invites, sessions, tokens, seeded, founders>>
  BY DEF Begin, Count
<1>4. Fits(new, invites, sessions, tokens)
  BY DEF Request, Fits, Accepting
<1> HIDE DEF new
<1>5. inputs' \in 0..MaxInputs
  BY <1>3, AccessAssumption DEF Types
<1>6. Types' /\ request'[q] = new /\ \A p \in Requests \ {q} : request'[p] = request[p]
  BY <1>2, <1>3, <1>5 DEF Types
<1>7. Grown
  BY <1>3, Rows DEF Grown
<1>8. AllFit'
  BY <1>3, <1>4, <1>6, <1>7, StillFits DEF AllFit
<1> QED BY <1>6, <1>8 DEF new

(* Every request that begins is one that fits the rows. *)
LEMMA AsksFit ==
  ASSUME NEW q \in Requests, Types, Asks(q)
  PROVE  \E r \in Request : /\ Begin(q, r)
                            /\ r.at \in {"find", "open", "resolve", "auth"}
                            /\ Fits(r, invites, sessions, tokens)
                            /\ r.does = "accept" => r.at = "resolve"
<1>1. CASE \E e \in Emails : AskSignup(q, e) \/ AskLogin(q, e)
  <2>1. PICK e \in Emails : AskSignup(q, e) \/ AskLogin(q, e)
    BY <1>1
  <2>2. PICK r \in {[Idle EXCEPT !.at = "find", !.does = "signup", !.email = e],
                    [Idle EXCEPT !.at = "open", !.does = "login", !.email = e]} : Begin(q, r)
    BY <2>1 DEF AskSignup, AskLogin
  <2>3. r \in Request /\ r.at \in {"find", "open"} /\ r.does \in {"signup", "login"}
        /\ r.email = e /\ r.invite = 0 /\ r.token = 0
    BY IdleIsRequest DEF Request, Steps, Doings, Signed
  <2>4. Fits(r, invites, sessions, tokens)
    BY <2>3, Rows DEF Fits, Accepting, Signed
  <2> QED BY <2>2, <2>3, <2>4
<1>2. CASE \E i \in DOMAIN invites : AskAccept(q, i)
  <2>1. PICK i \in DOMAIN invites : AskAccept(q, i)
    BY <1>2
  <2>2. PICK r \in {[Idle EXCEPT !.at = "resolve", !.does = "accept", !.invite = i]} : Begin(q, r)
    BY <2>1 DEF AskAccept
  <2>3. i \in 1..Len(invites) /\ i \in Nat
    BY Rows
  <2>4. r \in Request /\ r.at = "resolve" /\ r.does = "accept" /\ r.invite = i /\ r.token = 0
    BY <2>3, IdleIsRequest DEF Request, Steps, Doings, Signed
  <2>5. Fits(r, invites, sessions, tokens)
    BY <2>3, <2>4, Rows DEF Fits, Accepting, Signed
  <2> QED BY <2>2, <2>4, <2>5
<1>3. CASE \E c \in Credentials :
             \/ AskRead(q, c)
             \/ \E does \in {"logout", "newToken"} : AskAs(q, c, does)
             \/ \E e \in Emails, r \in Roles : AskInvite(q, c, e, r)
             \/ \E t \in DOMAIN tokens : AskRevoke(q, c, t)
  <2>1. PICK c \in Credentials :
             \/ AskRead(q, c)
             \/ \E does \in {"logout", "newToken"} : AskAs(q, c, does)
             \/ \E e \in Emails, r \in Roles : AskInvite(q, c, e, r)
             \/ \E t \in DOMAIN tokens : AskRevoke(q, c, t)
    BY <1>3
  <2>2. c \in Cred /\ \/ c.of = "session" /\ c.row \in 1..Len(sessions)
                      \/ c.of = "token" /\ c.row \in 1..Len(tokens)
    BY Rows DEF Credentials, Cred
  <2>3. \E new \in Request :
           /\ Begin(q, new) /\ new.at = "auth" /\ new.cred = c /\ new.does \in Signed
           /\ new.invite = 0 /\ new.token \in 0..Len(tokens)
           /\ new.does = "owner" => new.email \in Emails
           /\ new.does = "revoke" => new.token # 0
    <3>1. CASE \E does \in {"read", "logout", "newToken"} : AskAs(q, c, does)
      <4>1. PICK does \in {"read", "logout", "newToken"} : AskAs(q, c, does)
        BY <3>1
      <4>2. PICK new \in {[Idle EXCEPT !.at = "auth", !.does = does, !.cred = c]} : Begin(q, new)
        BY <4>1 DEF AskAs
      <4>3. new \in Request /\ new.at = "auth" /\ new.cred = c /\ new.invite = 0
            /\ new.does = does /\ new.token = 0
        BY <2>2, Rows, IdleIsRequest DEF Request, Steps, Doings, Signed, Roles
      <4>4. /\ new.token \in 0..Len(tokens)
            /\ new.does \in Signed
            /\ new.does = "owner" => new.email \in Emails
            /\ new.does = "revoke" => new.token # 0
        BY <4>3, Rows DEF Signed
      <4> QED BY <4>2, <4>3, <4>4
    <3>2. CASE \E e \in Emails, r \in Roles : AskInvite(q, c, e, r)
      <4>1. PICK e \in Emails, r \in Roles : AskInvite(q, c, e, r)
        BY <3>2
      <4>2. PICK new \in {[Idle EXCEPT !.at = "auth", !.does = "owner", !.cred = c, !.email = e, !.role = r]} : Begin(q, new)
        BY <4>1 DEF AskInvite
      <4>3. new \in Request /\ new.at = "auth" /\ new.cred = c /\ new.invite = 0
            /\ new.does = "owner" /\ new.email = e /\ new.token = 0
        BY <2>2, Rows, IdleIsRequest DEF Request, Steps, Doings, Signed, Roles
      <4>4. /\ new.token \in 0..Len(tokens)
            /\ new.does \in Signed
            /\ new.does = "owner" => new.email \in Emails
            /\ new.does = "revoke" => new.token # 0
        BY <4>3, Rows DEF Signed
      <4> QED BY <4>2, <4>3, <4>4
    <3>3. CASE \E t \in DOMAIN tokens : AskRevoke(q, c, t)
      <4>1. PICK t \in DOMAIN tokens : AskRevoke(q, c, t)
        BY <3>3
      <4>0. t \in 1..Len(tokens) /\ t \in Nat
        BY Rows
      <4>2. PICK new \in {[Idle EXCEPT !.at = "auth", !.does = "revoke", !.cred = c, !.token = t]} : Begin(q, new)
        BY <4>1 DEF AskRevoke
      <4>3. new \in Request /\ new.at = "auth" /\ new.cred = c /\ new.invite = 0
            /\ new.does = "revoke" /\ new.token = t /\ t \in 1..Len(tokens)
        BY <2>2, <4>0, IdleIsRequest DEF Request, Steps, Doings, Signed, Roles
      <4>4. /\ new.token \in 0..Len(tokens)
            /\ new.does \in Signed
            /\ new.does = "owner" => new.email \in Emails
            /\ new.does = "revoke" => new.token # 0
        BY <4>3, Rows DEF Signed
      <4> QED BY <4>2, <4>3, <4>4
    <3> QED BY <2>1, <3>1, <3>2, <3>3 DEF AskRead
  <2>4. PICK new \in Request :
           /\ Begin(q, new) /\ new.at = "auth" /\ new.cred = c /\ new.does \in Signed
           /\ new.invite = 0 /\ new.token \in 0..Len(tokens)
           /\ new.does = "owner" => new.email \in Emails
           /\ new.does = "revoke" => new.token # 0
    BY <2>3
  <2>5. Fits(new, invites, sessions, tokens)
    BY <2>2, <2>4, Rows DEF Fits, Accepting, Signed
  <2>6. new.does # "accept"
    BY <2>4 DEF Signed
  <2> QED BY <2>4, <2>5, <2>6
<1> QED BY <1>1, <1>2, <1>3 DEF Asks
-----------------------------------------------------------------------------
(* A step that makes no account, no owner and no invite, and accepts none.   *)

(* A request may go on so: no account is as good as made by it. *)
Moves(q) ==
    /\ InFlight(request'[q]) => InFlight(request[q]) /\ request'[q].email = request[q].email
    /\ NoUsers => /\ request'[q].at \notin {"pending", "invite"}
                  /\ request'[q].at # "idle" => request'[q].early
                  /\ request'[q].at = "insert" => request'[q].role = "owner"
    /\ request'[q].at = "insert" /\ request'[q].role = "owner" => request'[q].early

SeatsAreSame ==
    /\ UNCHANGED <<role, seeded, founders>>
    /\ Len(invites') = Len(invites)
    /\ \A i \in 1..Len(invites) : /\ invites'[i].email = invites[i].email
                                  /\ invites'[i].role = invites[i].role
                                  /\ invites'[i].status = invites[i].status
    /\ Len(sessions) \in 0..Len(sessions') /\ Len(tokens) \in 0..Len(tokens')
    /\ \A j \in 1..Len(sessions') : HasSeat(sessions'[j].user)
    /\ \A j \in 1..Len(tokens') : HasSeat(tokens'[j].user)

LEMMA Same == ASSUME UNCHANGED role PROVE NoUsers' = NoUsers /\ \A e : HasSeat(e)' = HasSeat(e)
BY DEF NoUsers, HasSeat

LEMMA StillMoves ==
  ASSUME NEW q \in Requests, Safe, request'[q] = request[q]
  PROVE  Moves(q)
BY DEF Moves, Safe, BeforeFirst, EarlyOwners

LEMMA SafeStep ==
  ASSUME IInv, Types', AllFit', SeatsAreSame, \A q \in Requests : Moves(q)
  PROVE  IInv'
<1>1. Len(invites) \in Nat /\ Len(invites') = Len(invites) /\ role' = role
      /\ DOMAIN invites = 1..Len(invites) /\ DOMAIN invites' = 1..Len(invites)
  BY Rows, LenProperties DEF IInv, SeatsAreSame, Types
<1>2. Seats'
  BY <1>1 DEF IInv, Safe, Seats, SeatsAreSame, HasSeat
<1>3. BeforeFirst'
  BY <1>1, Same DEF IInv, Safe, BeforeFirst, Moves
<1>4. EarlyOwners'
  BY DEF EarlyOwners, Moves
<1>5. OneInFlight'
  <2> SUFFICES ASSUME NEW q \in Requests, InFlight(request'[q])
               PROVE  /\ role'[request'[q].email] # "none"
                      /\ \A p \in Requests \ {q} :
                            InFlight(request'[p]) => request'[p].email # request'[q].email
                      /\ \A i \in 1..Len(invites') :
                            invites'[i].email = request'[q].email => invites'[i].status = "pending"
    BY DEF OneInFlight, InFlight, HasSeat
  <2>1. InFlight(request[q]) /\ request'[q].email = request[q].email
    BY DEF Moves
  <2>2. /\ HasSeat(request[q].email)
        /\ \A p \in Requests \ {q} : InFlight(request[p]) => request[p].email # request[q].email
        /\ \A i \in 1..Len(invites) :
             invites[i].email = request[q].email => invites[i].status = "pending"
    BY <2>1 DEF IInv, Safe, OneInFlight
  <2>3. \A p \in Requests \ {q} :
            InFlight(request'[p]) => request'[p].email # request'[q].email
    BY <2>1, <2>2 DEF Moves
  <2>4. role'[request'[q].email] # "none"
    BY <1>1, <2>1, <2>2 DEF HasSeat
  <2>5. \A i \in 1..Len(invites') :
            invites'[i].email = request'[q].email => invites'[i].status = "pending"
    BY <1>1, <2>1, <2>2 DEF SeatsAreSame
  <2> QED BY <2>3, <2>4, <2>5
<1>6. SettledOwner'
  <2> SUFFICES ASSUME ~NoUsers
               PROVE  \E e \in Emails :
                         /\ role[e] = "owner"
                         /\ \A q \in Requests : InFlight(request'[q]) => request'[q].email # e
    BY <1>1, Same DEF SettledOwner, IsOwner, InFlight
  <2>1. PICK e \in Emails :
           /\ role[e] = "owner"
           /\ \A q \in Requests : InFlight(request[q]) => request[q].email # e
    BY DEF IInv, Safe, SettledOwner, IsOwner
  <2> QED BY <2>1 DEF Moves
<1>7. InvitesAreKept'
  BY <1>1 DEF IInv, Safe, InvitesAreKept, SeatsAreSame
<1>8. OwnersAreAppointed'
  <2>1. \A e \in Emails : IsOwner(e)' = IsOwner(e)
    BY <1>1 DEF IsOwner
  <2>2. ASSUME NEW e \in Emails, IsOwner(e), e \notin seeded \cup founders
        PROVE  \E i \in DOMAIN invites' : /\ invites'[i].email = e
                                          /\ invites'[i].role = "owner"
                                          /\ invites'[i].status = "accepted"
    <3>1. PICK i \in DOMAIN invites : /\ invites[i].email = e
                                      /\ invites[i].role = "owner"
                                      /\ invites[i].status = "accepted"
      BY <2>2 DEF IInv, Safe, OwnersAreAppointed
    <3> QED BY <1>1, <3>1 DEF SeatsAreSame
  <2> QED BY <2>1, <2>2 DEF OwnersAreAppointed, SeatsAreSame
<1> QED BY <1>2, <1>3, <1>4, <1>5, <1>6, <1>7, <1>8 DEF IInv, Safe

(* One request goes on, or ends. *)
LEMMA RequestStep ==
  ASSUME NEW q \in Requests, IInv, Types', SeatsAreSame, Grown,
         Fits(request'[q], invites', sessions', tokens'), Moves(q),
         \A p \in Requests \ {q} : request'[p] = request[p]
  PROVE  IInv'
<1>1. \A p \in Requests : Fits(request'[p], invites', sessions', tokens')
  BY StillFits DEF IInv
<1>2. \A p \in Requests : Moves(p)
  BY StillMoves DEF IInv
<1> QED BY <1>1, <1>2, SafeStep DEF AllFit

LEMMA EndMoves ==
  ASSUME NEW q \in Requests, request'[q] = Idle PROVE Moves(q)
BY IdleIsRequest DEF Moves, InFlight

(* The rows as they are. *)
Quiet == UNCHANGED <<role, invites, sessions, tokens, seeded, founders>>

LEMMA QuietRows ==
  ASSUME IInv, Quiet PROVE SeatsAreSame /\ Grown
BY Rows DEF IInv, Quiet, SeatsAreSame, Grown, Safe, Seats

LEMMA QuietTypes ==
  ASSUME Types, Quiet, inputs' \in 0..MaxInputs, request' \in [Requests -> Request]
  PROVE  Types'
BY DEF Types, Quiet

LEMMA QuietEnd ==
  ASSUME NEW q \in Requests, IInv, Quiet, inputs' \in 0..MaxInputs, Ends(q)
  PROVE  IInv'
<1>1. Types'
  BY Ending, QuietTypes DEF IInv
<1> QED BY <1>1, Ending, IdleFits, EndMoves, QuietRows, RequestStep DEF IInv

LEMMA QuietGo ==
  ASSUME NEW q \in Requests, NEW step \in Steps, IInv, Quiet, UNCHANGED inputs, Goes(q, step),
         Fits([request[q] EXCEPT !.at = step], invites, sessions, tokens),
         Moves(q)
  PROVE  IInv'
<1>1. inputs' \in 0..MaxInputs
  BY DEF IInv, Types
<1>2. Types'
  BY <1>1, Going, QuietTypes DEF IInv
<1>3. Fits(request'[q], invites', sessions', tokens')
  BY Going DEF Quiet, IInv
<1> QED BY <1>2, <1>3, Going, QuietRows, RequestStep DEF IInv
-----------------------------------------------------------------------------
(* What a request knows, of one that fits. *)
LEMMA Known ==
  ASSUME NEW q \in Requests, IInv
  PROVE  /\ request[q] \in Request /\ Fits(request[q], invites, sessions, tokens)
         /\ inputs \in 0..MaxInputs
BY DEF IInv, Types, AllFit

LEMMA AsksKeep ==
  ASSUME NEW q \in Requests, IInv, Asks(q) PROVE IInv'
<1>1. PICK r \in Request : /\ Begin(q, r)
                           /\ r.at \in {"find", "open", "resolve", "auth"}
                           /\ Fits(r, invites, sessions, tokens)
                           /\ r.does = "accept" => r.at = "resolve"
  BY AsksFit DEF IInv
<1>2. /\ Types' /\ AllFit'
      /\ request'[q] = [r EXCEPT !.early = NoUsers]
      /\ \A p \in Requests \ {q} : request'[p] = request[p]
  BY <1>1, BeginFits DEF IInv
<1>3. Quiet
  BY <1>1 DEF Begin, Quiet
<1>4. request'[q].at = r.at /\ request'[q].does = r.does /\ request'[q].early = NoUsers
  BY <1>2 DEF Request
<1>5. Moves(q)
  BY <1>1, <1>4 DEF Moves, InFlight
<1>6. \A p \in Requests : Moves(p)
  BY <1>2, <1>5, StillMoves DEF IInv
<1> QED BY <1>2, <1>3, <1>6, QuietRows, SafeStep

(* The steps that read. *)
LEMMA ReadsKeep ==
  ASSUME NEW q \in Requests, IInv,
         \/ Find(q) \/ Resolve(q) \/ Select(q)
         \/ Authenticate(q) \/ Touch(q) \/ CheckOwner(q) \/ CheckPending(q)
  PROVE  IInv'
<1> DEFINE to(step) == [request[q] EXCEPT !.at = step]
<1>1. Quiet /\ inputs' = inputs
  BY DEF Find, Resolve, Select, Authenticate, Touch, CheckOwner, CheckPending, Quiet
<1>2. CASE Ends(q)
  BY <1>1, <1>2, QuietEnd, Known
<1>3. \A step \in Steps :
         /\ to(step).at = step /\ to(step).does = request[q].does
         /\ to(step).email = request[q].email /\ to(step).role = request[q].role
         /\ to(step).invite = request[q].invite /\ to(step).token = request[q].token
         /\ to(step).cred = request[q].cred /\ to(step).early = request[q].early
  BY Known DEF Request
<1> HIDE DEF to
<1>4. CASE ~Ends(q) /\ Find(q)
  <2>1. request[q].at = "find" /\ Goes(q, "count")
    BY <1>4 DEF Find
  <2>2. "count" \in Steps
    BY DEF Steps
  <2>3. Fits(to("count"), invites, sessions, tokens)
    BY <1>3, <2>1, <2>2, Known DEF Fits, Accepting
  <2>4. Moves(q)
    BY <2>1, <2>2, Going DEF Moves, InFlight, IInv, Safe, BeforeFirst
  <2> QED BY <1>1, <2>1, <2>2, <2>3, <2>4, QuietGo DEF to
<1>5. CASE ~Ends(q) /\ Select(q)
  <2>1. request[q].at = "select" /\ Goes(q, "batch")
    BY <1>5 DEF Select
  <2>2. "batch" \in Steps
    BY DEF Steps
  <2>3. Fits(to("batch"), invites, sessions, tokens)
    BY <1>3, <2>1, <2>2, Known DEF Fits, Accepting
  <2>4. Moves(q)
    BY <2>1, <2>2, Going DEF Moves, InFlight, IInv, Safe, BeforeFirst
  <2> QED BY <1>1, <2>1, <2>2, <2>3, <2>4, QuietGo DEF to
<1>6. CASE ~Ends(q) /\ Authenticate(q)
  <2>1. request[q].at = "auth" /\ Goes(q, "touch")
    BY <1>6 DEF Authenticate
  <2>2. "touch" \in Steps
    BY DEF Steps
  <2>3. Fits(to("touch"), invites, sessions, tokens)
    BY <1>3, <2>1, <2>2, Known DEF Fits, Accepting
  <2>4. Moves(q)
    BY <2>1, <2>2, Going DEF Moves, InFlight, IInv, Safe, BeforeFirst
  <2> QED BY <1>1, <2>1, <2>2, <2>3, <2>4, QuietGo DEF to
<1>7. CASE ~Ends(q) /\ Touch(q)
  <2> DEFINE does == request[q].does
  <2>1. request[q].at = "touch" /\ Goes(q, does) /\ does # "read"
    BY <1>7 DEF Touch, AfterTouch
  <2>2. does \in {"logout", "newToken", "owner", "revoke"} /\ does \in Steps
    BY <2>1, Known DEF Fits, Signed, Steps
  <2>3. Fits(to(does), invites, sessions, tokens)
    BY <1>3, <2>1, <2>2, Known DEF Fits, Accepting
  <2>4. Moves(q)
    BY <2>1, <2>2, Going DEF Moves, InFlight, IInv, Safe, BeforeFirst
  <2> QED BY <1>1, <2>1, <2>2, <2>3, <2>4, QuietGo DEF to
<1>8. CASE ~Ends(q) /\ CheckOwner(q)
  <2> DEFINE c == request[q].cred
  <2>1. request[q].at = "owner" /\ Goes(q, "pending") /\ role[UserOf(c)] = "owner"
    BY <1>8 DEF CheckOwner, IsOwner
  <2>2. "pending" \in Steps
    BY DEF Steps
  <2>3. UserOf(c) \in Emails
    <3>1. \/ c.of = "session" /\ c.row \in 1..Len(sessions)
          \/ c.of = "token" /\ c.row \in 1..Len(tokens)
      BY <2>1, Known DEF Fits
    <3> QED BY <3>1, Rows DEF UserOf, Live, IInv
  <2>4. ~NoUsers
    BY <2>1, <2>3 DEF NoUsers, HasSeat
  <2>5. Fits(to("pending"), invites, sessions, tokens)
    BY <1>3, <2>1, <2>2, Known DEF Fits, Accepting
  <2>6. Moves(q)
    BY <2>1, <2>2, <2>4, Going DEF Moves, InFlight, IInv
  <2> QED BY <1>1, <2>1, <2>2, <2>5, <2>6, QuietGo DEF to
<1>9. CASE ~Ends(q) /\ CheckPending(q)
  <2>1. request[q].at = "pending" /\ Goes(q, "invite")
    BY <1>9 DEF CheckPending
  <2>2. "invite" \in Steps
    BY DEF Steps
  <2>3. Fits(to("invite"), invites, sessions, tokens)
    BY <1>3, <2>1, <2>2, Known DEF Fits, Accepting
  <2>4. Moves(q)
    BY <2>1, <2>2, Going DEF Moves, InFlight, IInv, Safe, BeforeFirst
  <2> QED BY <1>1, <2>1, <2>2, <2>3, <2>4, QuietGo DEF to
<1>10. CASE ~Ends(q) /\ Resolve(q)
  <2> DEFINE i == request[q].invite
             new == [request[q] EXCEPT !.at = "find", !.email = invites[i].email]
  <2>1. request[q].at = "resolve" /\ request' = [request EXCEPT ![q] = new]
    BY <1>10 DEF Resolve
  <2>2. i \in 1..Len(invites) /\ invites[i].email \in Emails /\ request[q].does = "accept"
    BY <2>1, Known, Rows DEF Fits, Invite, IInv
  <2>3. new \in Request /\ new.at = "find" /\ new.email = invites[i].email /\ new.does = "accept"
        /\ new.invite = i /\ new.token = request[q].token /\ new.early = request[q].early
    BY <2>2, Known DEF Request, Steps
  <2>4. Fits(new, invites, sessions, tokens)
    BY <2>2, <2>3, Known DEF Fits, Accepting
  <2> HIDE DEF new
  <2>5. request'[q] = new /\ (\A p \in Requests \ {q} : request'[p] = request[p])
        /\ request' \in [Requests -> Request]
    BY <2>1, <2>3 DEF IInv, Types
  <2>6. Moves(q)
    BY <2>1, <2>3, <2>5 DEF Moves, InFlight, IInv, Safe, BeforeFirst
  <2>7. Types'
    BY <1>1, <2>5, QuietTypes, Known DEF IInv
  <2> QED BY <1>1, <2>4, <2>5, <2>6, <2>7, QuietRows, RequestStep DEF Quiet
<1> QED BY <1>2, <1>4, <1>5, <1>6, <1>7, <1>8, <1>9, <1>10
LEMMA CountKeeps ==
  ASSUME NEW q \in Requests, IInv, CountUsers(q) PROVE IInv'
<1> DEFINE new == [request[q] EXCEPT !.at = "insert", !.role = FirstRole]
<1>1. request[q].at = "count" /\ request' = [request EXCEPT ![q] = new] /\ Quiet /\ inputs' = inputs
  BY DEF CountUsers, Quiet
<1>2. FirstRole \in Roles /\ (FirstRole = "owner" <=> NoUsers)
  BY DEF FirstRole, Roles
<1>3. new \in Request /\ new.at = "insert" /\ new.role = FirstRole /\ new.does = request[q].does
      /\ new.email = request[q].email /\ new.invite = request[q].invite
      /\ new.token = request[q].token /\ new.early = request[q].early
  BY <1>2, Known DEF Request, Steps
<1>4. Fits(new, invites, sessions, tokens)
  BY <1>1, <1>3, Known DEF Fits, Accepting
<1> HIDE DEF new
<1>5. request'[q] = new /\ (\A p \in Requests \ {q} : request'[p] = request[p])
      /\ request' \in [Requests -> Request]
  BY <1>1, <1>3 DEF IInv, Types
<1>6. NoUsers => request[q].early
  BY <1>1 DEF IInv, Safe, BeforeFirst
<1>7. Moves(q)
  BY <1>2, <1>3, <1>5, <1>6 DEF Moves, InFlight
<1>8. Types'
  BY <1>1, <1>5, QuietTypes, Known DEF IInv
<1> QED BY <1>1, <1>4, <1>5, <1>7, <1>8, QuietRows, RequestStep DEF Quiet

-----------------------------------------------------------------------------
(* Sessions and tokens.                                                      *)

(* Those of a step that changes nothing else, whether one is added for       *)
(* somebody with a seat or one ends.                                         *)
Given(s, t) ==
    /\ t \in Seq(Live) /\ Len(s) \in 0..Len(t)
    /\ \A j \in 1..Len(t) : HasSeat(t[j].user)

LEMMA GivenSame ==
  ASSUME NEW s \in Seq(Live), \A j \in 1..Len(s) : HasSeat(s[j].user) PROVE Given(s, s)
BY LenProperties DEF Given

LEMMA GivenMore ==
  ASSUME NEW s \in Seq(Live), \A j \in 1..Len(s) : HasSeat(s[j].user),
         NEW e \in Emails, HasSeat(e), NEW t, t = Append(s, [user |-> e, live |-> TRUE])
  PROVE  Given(s, t)
<1>1. PICK r \in Live : r = [user |-> e, live |-> TRUE]
  BY DEF Live
<1>2. /\ t \in Seq(Live) /\ Len(t) = Len(s) + 1
      /\ \A j \in 1..Len(s) : t[j] = s[j]
      /\ t[Len(s) + 1] = r
  BY <1>1, RowAdded
<1>3. Len(s) \in Nat /\ r.user = e
  BY <1>1, LenProperties
<1>4. \A j \in 1..Len(t) : j \in 1..Len(s) \/ j = Len(s) + 1
  BY <1>2, <1>3
<1> QED BY <1>2, <1>3, <1>4 DEF Given

LEMMA GivenLess ==
  ASSUME NEW s \in Seq(Live), \A j \in 1..Len(s) : HasSeat(s[j].user),
         NEW i \in 1..Len(s), NEW t, t = [s EXCEPT ![i].live = FALSE]
  PROVE  Given(s, t)
BY RowEnds, LenProperties DEF Given

LEMMA GivenRows ==
  ASSUME IInv, UNCHANGED <<role, invites, seeded, founders>>,
         Given(sessions, sessions'), Given(tokens, tokens'),
         inputs' \in 0..MaxInputs, request' \in [Requests -> Request]
  PROVE  Types' /\ SeatsAreSame /\ Grown
<1>1. Types'
  BY DEF IInv, Types, Given
<1> QED BY <1>1, Rows DEF IInv, SeatsAreSame, Grown, Given

LEMMA HeldRows ==
  ASSUME IInv
  PROVE  /\ sessions \in Seq(Live) /\ \A j \in 1..Len(sessions) : HasSeat(sessions[j].user)
         /\ tokens \in Seq(Live) /\ \A j \in 1..Len(tokens) : HasSeat(tokens[j].user)
         /\ Given(sessions, sessions) /\ Given(tokens, tokens)
BY GivenSame DEF IInv, Types, Safe, Seats

(* The request that changes them ends, or goes on as an accept. *)
LEMMA GivenEnd ==
  ASSUME NEW q \in Requests, IInv, UNCHANGED <<role, invites, inputs, seeded, founders>>,
         Given(sessions, sessions'), Given(tokens, tokens'), Ends(q)
  PROVE  IInv'
<1>1. Types' /\ SeatsAreSame /\ Grown
  BY Ending, GivenRows, Known DEF IInv
<1> QED BY <1>1, Ending, IdleFits, EndMoves, RequestStep DEF IInv

LEMMA OpenKeeps ==
  ASSUME NEW q \in Requests, IInv, OpenSession(q) PROVE IInv'
<1> USE DEF OpenSession
<1>1. UNCHANGED <<role, invites, tokens, inputs, seeded, founders>> /\ request[q].at = "open"
  OBVIOUS
<1>2. request[q].email \in Emails
  BY <1>1, Known DEF Fits
<1>3. Given(sessions, sessions') /\ Given(tokens, tokens')
  BY <1>2, HeldRows, GivenMore
<1>4. CASE Ends(q)
  BY <1>1, <1>3, <1>4, GivenEnd
<1>5. CASE ~Ends(q)
  <2>1. Goes(q, "select") /\ request[q].does = "accept"
    BY <1>5
  <2>2. "select" \in Steps
    BY DEF Steps
  <2>3. /\ request' \in [Requests -> Request]
        /\ request'[q].at = "select"
        /\ request'[q].does = request[q].does /\ request'[q].email = request[q].email
        /\ request'[q].invite = request[q].invite /\ request'[q].token = request[q].token
        /\ request'[q].early = request[q].early
        /\ \A p \in Requests \ {q} : request'[p] = request[p]
    BY <2>1, <2>2, Going DEF IInv
  <2>4. Types' /\ SeatsAreSame /\ Grown
    BY <1>1, <1>3, <2>3, GivenRows, Known
  <2>5. Fits(request'[q], invites', sessions', tokens')
    BY <1>1, <2>1, <2>3, Known DEF Fits, Accepting
  <2>6. Moves(q)
    BY <1>1, <2>1, <2>3 DEF Moves, InFlight, IInv, Safe, BeforeFirst, OneInFlight, NoUsers
  <2> QED BY <2>3, <2>4, <2>5, <2>6, RequestStep
<1> QED BY <1>4, <1>5

(* Whose credential a request carries. *)
LEMMA Carried ==
  ASSUME NEW q \in Requests, IInv,
         request[q].at \in {"auth", "touch", "logout", "newToken", "revoke", "owner"}
  PROVE  /\ UserOf(request[q].cred) \in Emails /\ HasSeat(UserOf(request[q].cred))
         /\ request[q].cred.of = "session" => request[q].cred.row \in 1..Len(sessions)
<1>1. \/ request[q].cred.of = "session" /\ request[q].cred.row \in 1..Len(sessions)
      \/ request[q].cred.of = "token" /\ request[q].cred.row \in 1..Len(tokens)
  BY Known DEF Fits
<1> QED BY <1>1, HeldRows, Rows DEF UserOf, Live, IInv

LEMMA SignedKeep ==
  ASSUME NEW q \in Requests, IInv, Logout(q) \/ CreateToken(q) \/ RevokeToken(q) PROVE IInv'
<1>1. CASE Logout(q)
  BY <1>1, Carried, HeldRows, GivenLess, GivenEnd DEF Logout
<1>2. CASE CreateToken(q)
  BY <1>2, Carried, HeldRows, GivenMore, GivenEnd DEF CreateToken
<1>3. CASE RevokeToken(q)
  <2>1. request[q].at = "revoke" /\ request[q].token \in 1..Len(tokens)
    BY <1>3, Known, Rows DEF RevokeToken, Fits, IInv
  <2>2. Given(tokens, tokens')
    BY <1>3, <2>1, HeldRows, GivenLess DEF RevokeToken
  <2> QED BY <1>3, <2>2, HeldRows, GivenEnd DEF RevokeToken
<1> QED BY <1>1, <1>2, <1>3

LEMMA ExpireKeeps ==
  ASSUME IInv, NEW c \in Credentials, Expire(c) PROVE IInv'
<1>1. UNCHANGED <<role, invites, request, seeded, founders>> /\ inputs < MaxInputs
      /\ inputs' = inputs + 1 /\ End(c)
  BY DEF Expire, Count
<1>2. \/ c.of = "session" /\ c.row \in 1..Len(sessions)
      \/ c.of = "token" /\ c.row \in 1..Len(tokens)
  BY Rows DEF Credentials, IInv
<1>3. Given(sessions, sessions')
  BY <1>1, <1>2, HeldRows, GivenLess DEF End
<1>4. Given(tokens, tokens')
  BY <1>1, <1>2, HeldRows, GivenLess DEF End
<1>5. inputs' \in 0..MaxInputs /\ request' \in [Requests -> Request]
  BY <1>1, AccessAssumption DEF IInv, Types
<1>6. Types' /\ SeatsAreSame /\ Grown
  BY <1>1, <1>3, <1>4, <1>5, GivenRows
<1>7. AllFit' /\ \A q \in Requests : Moves(q)
  BY <1>1, <1>6, StillFits, StillMoves DEF IInv, AllFit
<1> QED BY <1>6, <1>7, SafeStep
-----------------------------------------------------------------------------
(* Invites that are written, sent, and run out.                              *)

LEMMA AnswerKeeps ==
  ASSUME NEW q \in Requests, IInv, AnswerInvite(q) PROVE IInv'
<1>0. invites \in Seq(Invite)
  BY DEF IInv, Types
<1> DEFINE i == request[q].invite
<1>1. /\ request[q].at = "audit" /\ invites' = [invites EXCEPT ![i].sent = TRUE] /\ Ends(q)
      /\ UNCHANGED <<role, sessions, tokens, inputs, seeded, founders>>
  BY DEF AnswerInvite
<1>2. i \in 1..Len(invites)
  BY <1>1, Known, Rows DEF Fits, IInv
<1> HIDE DEF i
<1>3. /\ invites' \in Seq(Invite) /\ Len(invites') = Len(invites)
      /\ \A j \in 1..Len(invites) :
            /\ invites'[j].email = invites[j].email /\ invites'[j].role = invites[j].role
            /\ invites'[j].status = invites[j].status
  <2>1. Marked(invites, i, invites')
    BY <1>1 DEF Marked
  <2> QED BY <1>0, <1>2, <2>1, InviteSent
<1>4. Types'
  BY <1>1, <1>3, Ending DEF IInv, Types
<1>5. SeatsAreSame /\ Grown
  BY <1>1, <1>3, HeldRows, Rows DEF SeatsAreSame, Grown, IInv
<1> QED BY <1>1, <1>4, <1>5, Ending, IdleFits, EndMoves, RequestStep DEF IInv

LEMMA ExpireInviteKeeps ==
  ASSUME IInv, NEW i \in DOMAIN invites, ExpireInvite(i) PROVE IInv'
<1>0. invites \in Seq(Invite)
  BY DEF IInv, Types
<1>1. /\ invites' = [invites EXCEPT ![i].expired = TRUE]
      /\ inputs < MaxInputs /\ inputs' = inputs + 1
      /\ UNCHANGED <<role, sessions, tokens, request, seeded, founders>>
  BY DEF ExpireInvite, Count
<1>2. i \in 1..Len(invites)
  BY Rows DEF IInv
<1>3. /\ invites' \in Seq(Invite) /\ Len(invites') = Len(invites)
      /\ \A j \in 1..Len(invites) :
            /\ invites'[j].email = invites[j].email /\ invites'[j].role = invites[j].role
            /\ invites'[j].status = invites[j].status
  <2>1. Marked(invites, i, invites')
    BY <1>1 DEF Marked
  <2> QED BY <1>0, <1>2, <2>1, InviteSent
<1>4. inputs' \in 0..MaxInputs
  BY <1>1, AccessAssumption DEF IInv, Types
<1>5. Types'
  BY <1>1, <1>3, <1>4 DEF IInv, Types
<1>6. SeatsAreSame /\ Grown
  BY <1>1, <1>3, HeldRows, Rows DEF SeatsAreSame, Grown, IInv
<1>7. AllFit' /\ \A q \in Requests : Moves(q)
  BY <1>1, <1>5, <1>6, StillFits, StillMoves DEF IInv, AllFit
<1> QED BY <1>5, <1>6, <1>7, SafeStep

(* The deployment has users when an invite is written. *)
LEMMA InsertInviteKeeps ==
  ASSUME NEW q \in Requests, IInv, InsertInvite(q) PROVE IInv'
<1> DEFINE row == [email |-> request[q].email, role |-> request[q].role,
                   status |-> "pending", expired |-> FALSE, sent |-> FALSE]
           new == [request[q] EXCEPT !.at = "audit", !.invite = Len(invites')]
           n == Len(invites)
<1>1. /\ request[q].at = "invite" /\ invites' = Append(invites, row)
      /\ request' = [request EXCEPT ![q] = new]
      /\ UNCHANGED <<role, sessions, tokens, inputs, seeded, founders>>
  BY DEF InsertInvite
<1>2. request[q].email \in Emails /\ request[q].does = "owner" /\ ~NoUsers
  BY <1>1, Known DEF Fits, IInv, Safe, BeforeFirst
<1>3. row \in Invite /\ row.status = "pending"
  BY <1>2, Known DEF Invite, Request
<1> HIDE DEF row
<1>4. /\ invites' \in Seq(Invite) /\ Len(invites') = n + 1
      /\ \A j \in 1..n : invites'[j] = invites[j]
      /\ invites'[n + 1] = row
  BY <1>1, <1>3, RowAdded DEF IInv, Types
<1>5. n \in Nat /\ DOMAIN invites = 1..n /\ DOMAIN invites' = 1..(n + 1)
  BY <1>4, Rows, LenProperties DEF IInv
<1>6. new \in Request /\ new.at = "audit" /\ new.does = "owner" /\ new.invite = n + 1
      /\ new.email = request[q].email /\ new.token = request[q].token
  <2>1. n + 1 \in Nat /\ new = [request[q] EXCEPT !.at = "audit", !.invite = n + 1]
    BY <1>4, <1>5
  <2> HIDE DEF n, new
  <2> QED BY <1>2, <2>1, Known DEF Request, Steps
<1> HIDE DEF new
<1>7. request'[q] = new /\ (\A p \in Requests \ {q} : request'[p] = request[p])
      /\ request' \in [Requests -> Request]
  BY <1>1, <1>6 DEF IInv, Types
<1>8. Types'
  BY <1>1, <1>4, <1>7 DEF IInv, Types
<1>9. Grown
  BY <1>1, <1>4, <1>5, Rows DEF Grown, IInv
<1>10. Fits(new, invites', sessions', tokens')
  BY <1>1, <1>2, <1>4, <1>5, <1>6, Known DEF Fits, Accepting
<1>11. AllFit'
  BY <1>7, <1>8, <1>9, <1>10, StillFits DEF IInv, AllFit
<1> HIDE DEF n
<1>12. \A p \in Requests : InFlight(request'[p]) <=> p # q /\ InFlight(request[p])
  BY <1>6, <1>7, <1>1 DEF InFlight
<1>13. \A j \in 1..(n + 1) : j \in 1..n \/ j = n + 1
  BY <1>5
<1>14. Seats'
  BY <1>1, <1>3, <1>4, <1>5, <1>13 DEF n, IInv, Safe, Seats, HasSeat
<1>15. BeforeFirst' /\ EarlyOwners'
  BY <1>1, <1>2, <1>6, <1>7, Same DEF BeforeFirst, EarlyOwners, IInv, Safe
<1>16. OneInFlight'
  <2> SUFFICES ASSUME NEW p \in Requests, InFlight(request'[p])
               PROVE  /\ role'[request'[p].email] # "none"
                      /\ \A o \in Requests \ {p} :
                            InFlight(request'[o]) => request'[o].email # request'[p].email
                      /\ \A i \in 1..Len(invites') :
                            invites'[i].email = request'[p].email => invites'[i].status = "pending"
    BY DEF OneInFlight, InFlight, HasSeat
  <2>1. p # q /\ InFlight(request[p]) /\ request'[p] = request[p]
    BY <1>7, <1>12
  <2>2. /\ HasSeat(request[p].email)
        /\ \A o \in Requests \ {p} : InFlight(request[o]) => request[o].email # request[p].email
        /\ \A i \in 1..n : invites[i].email = request[p].email => invites[i].status = "pending"
    BY <2>1 DEF IInv, Safe, OneInFlight, n
  <2>3. role'[request'[p].email] # "none"
    BY <1>1, <2>1, <2>2 DEF HasSeat
  <2>4. \A o \in Requests \ {p} :
            InFlight(request'[o]) => request'[o].email # request'[p].email
    BY <1>7, <1>12, <2>1, <2>2
  <2>5. \A i \in 1..Len(invites') :
            invites'[i].email = request'[p].email => invites'[i].status = "pending"
    BY <1>3, <1>4, <1>13, <2>1, <2>2
  <2> QED BY <2>3, <2>4, <2>5
<1>17. SettledOwner'
  <2>1. PICK e \in Emails :
           /\ role[e] = "owner"
           /\ \A p \in Requests : InFlight(request[p]) => request[p].email # e
    BY <1>2 DEF IInv, Safe, SettledOwner, IsOwner
  <2>2. \A p \in Requests : InFlight(request'[p]) => request'[p].email # e
    BY <1>7, <1>12, <2>1
  <2> QED BY <1>1, <2>1, <2>2 DEF SettledOwner, IsOwner, InFlight
<1>18. InvitesAreKept'
  BY <1>1, <1>3, <1>4, <1>5, <1>13 DEF IInv, Safe, InvitesAreKept
<1>19. OwnersAreAppointed'
  <2> SUFFICES ASSUME NEW e \in Emails, role[e] = "owner", e \notin seeded \cup founders
               PROVE  \E i \in DOMAIN invites' : /\ invites'[i].email = e
                                                 /\ invites'[i].role = "owner"
                                                 /\ invites'[i].status = "accepted"
    BY <1>1 DEF OwnersAreAppointed, IsOwner
  <2>1. PICK i \in DOMAIN invites : /\ invites[i].email = e
                                    /\ invites[i].role = "owner"
                                    /\ invites[i].status = "accepted"
    BY DEF IInv, Safe, OwnersAreAppointed, IsOwner
  <2> QED BY <1>4, <1>5, <2>1
<1> QED BY <1>8, <1>11, <1>14, <1>15, <1>16, <1>17, <1>18, <1>19 DEF IInv, Safe
-----------------------------------------------------------------------------
(* Accounts and roles.                                                       *)

(* The first account is an owner's, and later ones are of nobody whose       *)
(* invite counts as accepted or is being accepted.                           *)
LEMMA NewAccountKeeps ==
  ASSUME NEW q \in Requests, IInv, InsertUser(q), ~HasSeat(request[q].email) PROVE IInv'
<1> DEFINE e == request[q].email
           r == request[q].role
           n == Len(invites)
<1>1. /\ request[q].at = "insert" /\ role' = [role EXCEPT ![e] = r]
      /\ founders' = IF request[q].early THEN founders \cup {e} ELSE founders
      /\ Goes(q, "open") /\ UNCHANGED <<invites, sessions, tokens, inputs, seeded>>
  BY DEF InsertUser
<1>2. e \in Emails /\ r \in Roles
  BY <1>1, Known DEF Fits, Request
<1>3. "open" \in Steps
  BY DEF Steps
<1>4. /\ request' \in [Requests -> Request]
      /\ request'[q].at = "open" /\ request'[q].does = request[q].does
      /\ request'[q].email = e /\ request'[q].invite = request[q].invite
      /\ request'[q].token = request[q].token
      /\ \A p \in Requests \ {q} : request'[p] = request[p]
  BY <1>1, <1>3, Going DEF IInv
<1>5. /\ role' \in [Emails -> Roles \cup {"none"}] /\ role'[e] = r
      /\ \A x \in Emails \ {e} : role'[x] = role[x]
      /\ role[e] = "none" /\ r # "none"
  BY <1>1, <1>2 DEF IInv, Types, HasSeat, Roles
<1>6. \A x \in Emails : role[x] # "none" => role'[x] # "none" /\ role'[x] = role[x] /\ x # e
  BY <1>5
<1>7. Types'
  BY <1>1, <1>2, <1>4, <1>5 DEF IInv, Types
<1>8. AllFit'
  <2>1. Grown
    BY <1>1, Rows DEF Grown, IInv
  <2>2. Fits(request'[q], invites', sessions', tokens')
    BY <1>1, <1>2, <1>4, Known DEF Fits, Accepting
  <2> QED BY <1>4, <1>7, <2>1, <2>2, StillFits DEF IInv, AllFit
<1>9. n \in Nat /\ DOMAIN invites = 1..n /\ \A i \in 1..n : invites[i].email \in Emails
                                                   /\ invites[i].status \in {"pending", "accepted"}
  BY Rows DEF IInv, Invite
<1>10. request[q].does = "accept" => ~NoUsers
  BY <1>9, Known DEF Fits, IInv, Safe, BeforeFirst
<1>11. \A i \in 1..n : invites[i].status = "accepted" => invites[i].email # e
  BY DEF IInv, Safe, Seats
<1>12. \A p \in Requests : InFlight(request[p]) => p # q /\ request[p].email # e
  BY <1>1 DEF IInv, Safe, OneInFlight, InFlight
<1>13. \A p \in Requests :
          InFlight(request'[p]) => \/ p = q /\ request[q].does = "accept"
                                   \/ p # q /\ InFlight(request[p]) /\ request'[p] = request[p]
  BY <1>4 DEF InFlight
<1> HIDE DEF e, r, n
<1>14. Seats'
  <2>1. /\ \A j \in 1..Len(sessions) : sessions[j].user \in Emails
        /\ \A t \in 1..Len(tokens) : tokens[t].user \in Emails
    BY Rows DEF IInv, Live
  <2> QED BY <1>1, <1>6, <1>9, <2>1 DEF n, IInv, Safe, Seats, HasSeat
<1>15. BeforeFirst' /\ EarlyOwners'
  <2>1. ~NoUsers'
    BY <1>2, <1>5 DEF NoUsers, HasSeat
  <2> QED BY <1>4, <2>1 DEF BeforeFirst, EarlyOwners, IInv, Safe
<1>16. OneInFlight'
  <2> SUFFICES ASSUME NEW p \in Requests, InFlight(request'[p])
               PROVE  /\ role'[request'[p].email] # "none"
                      /\ \A o \in Requests \ {p} :
                            InFlight(request'[o]) => request'[o].email # request'[p].email
                      /\ \A i \in 1..n :
                            invites[i].email = request'[p].email => invites[i].status = "pending"
    BY <1>1 DEF n, OneInFlight, InFlight, HasSeat
  <2>1. CASE p = q
    BY <1>4, <1>5, <1>9, <1>11, <1>12, <1>13, <2>1
  <2>2. CASE p # q
    <3>1. InFlight(request[p]) /\ request'[p] = request[p]
      BY <1>13, <2>2
    <3>2. /\ HasSeat(request[p].email)
          /\ \A o \in Requests \ {p} : InFlight(request[o]) => request[o].email # request[p].email
          /\ \A i \in 1..n : invites[i].email = request[p].email => invites[i].status = "pending"
      BY <3>1 DEF IInv, Safe, OneInFlight, n
    <3>3. request[p].email \in Emails
      BY <3>1, <1>9, Known DEF n, Fits, InFlight, Accepting
    <3>4. role'[request'[p].email] # "none"
      BY <1>6, <3>1, <3>2, <3>3 DEF HasSeat
    <3>5. \A o \in Requests \ {p} : InFlight(request'[o]) => request'[o].email # request'[p].email
      BY <1>4, <1>12, <1>13, <3>1, <3>2
    <3> QED BY <3>1, <3>2, <3>4, <3>5
  <2> QED BY <2>1, <2>2
<1>17. SettledOwner'
  <2> SUFFICES \E x \in Emails :
                  /\ role'[x] = "owner"
                  /\ \A p \in Requests : InFlight(request'[p]) => request'[p].email # x
    BY DEF SettledOwner, IsOwner, InFlight
  <2>1. CASE NoUsers
    <3>1. r = "owner"
      BY <1>1, <2>1 DEF r, IInv, Safe, BeforeFirst
    <3> QED BY <1>2, <1>5, <1>10, <1>12, <1>13, <2>1, <3>1
  <2>2. CASE ~NoUsers
    <3>1. PICK x \in Emails :
             /\ role[x] = "owner"
             /\ \A p \in Requests : InFlight(request[p]) => request[p].email # x
      BY <2>2 DEF IInv, Safe, SettledOwner, IsOwner
    <3> QED BY <1>4, <1>5, <1>13, <3>1
  <2> QED BY <2>1, <2>2
<1>18. InvitesAreKept'
  BY <1>1, <1>5, <1>9, <1>11 DEF IInv, Safe, InvitesAreKept
<1>19. OwnersAreAppointed'
  <2> SUFFICES ASSUME NEW x \in Emails, role'[x] = "owner"
               PROVE  \/ x \in seeded \cup founders'
                      \/ \E i \in DOMAIN invites : /\ invites[i].email = x
                                                   /\ invites[i].role = "owner"
                                                   /\ invites[i].status = "accepted"
    BY <1>1 DEF OwnersAreAppointed, IsOwner
  <2>1. CASE x = e
    BY <1>1, <1>5, <2>1 DEF r, e, IInv, Safe, EarlyOwners
  <2>2. CASE x # e
    BY <1>1, <1>5, <2>2 DEF IInv, Safe, OwnersAreAppointed, IsOwner
  <2> QED BY <2>1, <2>2
<1> QED BY <1>7, <1>8, <1>14, <1>15, <1>16, <1>17, <1>18, <1>19 DEF IInv, Safe

LEMMA InsertUserKeeps ==
  ASSUME NEW q \in Requests, IInv, InsertUser(q) PROVE IInv'
<1>1. CASE HasSeat(request[q].email)
  <2>1. Quiet /\ inputs' = inputs /\ Ends(q)
    BY <1>1 DEF InsertUser, Quiet
  <2> QED BY <2>1, QuietEnd, Known
<1> QED BY <1>1, NewAccountKeeps
(* Of the accepts under way only this one is of its email, and no other      *)
(* invite to it counts as accepted.                                          *)
LEMMA BatchKeeps ==
  ASSUME NEW q \in Requests, IInv, Batch(q) PROVE IInv'
<1> DEFINE i == request[q].invite
           e == request[q].email
           r == invites[i].role
           n == Len(invites)
<1>1. /\ request[q].at = "batch" /\ role' = [role EXCEPT ![e] = r]
      /\ invites' = [invites EXCEPT ![i].status = "accepted"] /\ Ends(q)
      /\ UNCHANGED <<sessions, tokens, inputs, seeded, founders>>
  BY DEF Batch
<1>2. i \in 1..n /\ e = invites[i].email /\ InFlight(request[q])
  BY <1>1, Known, Rows DEF Fits, Accepting, InFlight, IInv
<1>3. n \in Nat /\ DOMAIN invites = 1..n /\ invites \in Seq(Invite)
      /\ \A j \in 1..n : invites[j].email \in Emails /\ invites[j].role \in Roles
                         /\ invites[j].status \in {"pending", "accepted"}
  BY Rows DEF IInv, Types, Invite
<1> HIDE DEF i, n
<1>4. /\ invites' \in Seq(Invite) /\ Len(invites') = n
      /\ \A j \in 1..n : /\ invites'[j].email = invites[j].email
                         /\ invites'[j].role = invites[j].role
                         /\ invites'[j].status = IF j = i THEN "accepted" ELSE invites[j].status
  <2>1. Accepted(invites, i, invites')
    BY <1>1 DEF Accepted
  <2> QED BY <1>2, <1>3, <2>1, InviteAccepted DEF n
<1>5. DOMAIN invites' = 1..n
  BY <1>4, LenProperties
<1>6. e \in Emails /\ r \in Roles
  BY <1>2, <1>3
<1>7. /\ role' \in [Emails -> Roles \cup {"none"}] /\ role'[e] = r
      /\ (\A x \in Emails \ {e} : role'[x] = role[x]) /\ r # "none"
  BY <1>1, <1>6 DEF IInv, Types, Roles
<1>8. \A x \in Emails : role[x] # "none" => role'[x] # "none"
  BY <1>7
<1>9. request'[q] = Idle /\ (\A p \in Requests \ {q} : request'[p] = request[p])
      /\ request' \in [Requests -> Request]
  BY <1>1, Ending DEF IInv
<1>10. Types'
  BY <1>1, <1>4, <1>7, <1>9 DEF IInv, Types
<1>11. AllFit'
  <2>1. Grown
    BY <1>1, <1>3, <1>4, Rows DEF n, Grown, IInv
  <2> QED BY <1>9, <1>10, <2>1, StillFits, IdleFits DEF IInv, AllFit
<1>12. /\ role[e] # "none"
       /\ \A p \in Requests \ {q} : InFlight(request[p]) => request[p].email # e
       /\ \A j \in 1..n : invites[j].email = e => invites[j].status = "pending"
  BY <1>2 DEF n, IInv, Safe, OneInFlight, HasSeat
<1>13. \A p \in Requests : InFlight(request'[p]) =>
          /\ p # q /\ InFlight(request[p]) /\ request'[p] = request[p]
          /\ request[p].email # e
  BY <1>9, <1>12, IdleIsRequest DEF InFlight
<1>14. \A p \in Requests : InFlight(request[p]) => request[p].email \in Emails
  BY <1>3, Known DEF n, Fits, InFlight, Accepting
<1> HIDE DEF e, r
<1>15. Seats'
  <2>1. /\ \A j \in 1..Len(sessions) : sessions[j].user \in Emails
        /\ \A t \in 1..Len(tokens) : tokens[t].user \in Emails
    BY Rows DEF IInv, Live
  <2>2. \A j \in 1..n : invites'[j].status = "accepted" => role'[invites'[j].email] # "none"
    BY <1>2, <1>3, <1>4, <1>7, <1>8 DEF n, IInv, Safe, Seats, HasSeat
  <2> QED BY <1>1, <1>4, <1>8, <2>1, <2>2 DEF IInv, Safe, Seats, HasSeat
<1>16. BeforeFirst' /\ EarlyOwners'
  <2>1. ~NoUsers'
    BY <1>6, <1>7 DEF NoUsers, HasSeat
  <2> QED BY <1>9, <2>1, IdleIsRequest DEF BeforeFirst, EarlyOwners, IInv, Safe
<1>17. OneInFlight'
  <2> SUFFICES ASSUME NEW p \in Requests, InFlight(request'[p])
               PROVE  /\ role'[request'[p].email] # "none"
                      /\ \A o \in Requests \ {p} :
                            InFlight(request'[o]) => request'[o].email # request'[p].email
                      /\ \A j \in 1..n :
                            invites'[j].email = request'[p].email => invites'[j].status = "pending"
    BY <1>4 DEF OneInFlight, InFlight, HasSeat
  <2>1. InFlight(request[p]) /\ request'[p] = request[p] /\ request[p].email # e
        /\ request[p].email \in Emails
    BY <1>13, <1>14
  <2>2. /\ HasSeat(request[p].email)
        /\ \A o \in Requests \ {p} : InFlight(request[o]) => request[o].email # request[p].email
        /\ \A j \in 1..n : invites[j].email = request[p].email => invites[j].status = "pending"
    BY <2>1 DEF IInv, Safe, OneInFlight, n
  <2>3. role'[request'[p].email] # "none"
    BY <1>8, <2>1, <2>2 DEF HasSeat
  <2>4. \A o \in Requests \ {p} : InFlight(request'[o]) => request'[o].email # request'[p].email
    BY <1>13, <2>1, <2>2
  <2>5. \A j \in 1..n :
            invites'[j].email = request'[p].email => invites'[j].status = "pending"
    BY <1>2, <1>4, <2>1, <2>2
  <2> QED BY <2>3, <2>4, <2>5
<1>18. SettledOwner'
  <2>1. ~NoUsers
    BY <1>6, <1>12 DEF NoUsers, HasSeat
  <2>2. PICK x \in Emails :
           /\ role[x] = "owner"
           /\ \A p \in Requests : InFlight(request[p]) => request[p].email # x
    BY <2>1 DEF IInv, Safe, SettledOwner, IsOwner
  <2>3. x # e
    BY <1>2, <2>2 DEF e
  <2>4. role'[x] = "owner" /\ \A p \in Requests : InFlight(request'[p]) => request'[p].email # x
    BY <1>7, <1>13, <2>2, <2>3
  <2> QED BY <2>4 DEF SettledOwner, IsOwner, InFlight
<1>19. InvitesAreKept'
  <2> SUFFICES ASSUME NEW k \in 1..n, invites'[k].status = "accepted"
               PROVE  /\ role'[invites[k].email] = invites[k].role \/ invites[k].email \in seeded
                      /\ \A j \in 1..n \ {k} : invites[j].email = invites[k].email
                                               => invites'[j].status = "pending"
    BY <1>1, <1>4, <1>5 DEF InvitesAreKept
  <2>1. CASE k = i
    BY <1>2, <1>4, <1>7, <1>12, <2>1 DEF r
  <2>2. CASE k # i
    <3>1. invites[k].status = "accepted" /\ invites[k].email # e
      BY <1>4, <1>12, <2>2
    <3>2. /\ role[invites[k].email] = invites[k].role \/ invites[k].email \in seeded
          /\ \A j \in 1..n \ {k} : invites[j].email = invites[k].email
                                   => invites[j].status = "pending"
      BY <1>3, <3>1 DEF IInv, Safe, InvitesAreKept
    <3> QED BY <1>2, <1>3, <1>4, <1>7, <3>1, <3>2
  <2> QED BY <2>1, <2>2
<1>20. OwnersAreAppointed'
  <2> SUFFICES ASSUME NEW x \in Emails, role'[x] = "owner", x \notin seeded \cup founders
               PROVE  \E j \in 1..n : /\ invites'[j].email = x
                                      /\ invites'[j].role = "owner"
                                      /\ invites'[j].status = "accepted"
    BY <1>1, <1>5 DEF OwnersAreAppointed, IsOwner
  <2>1. CASE x = e
    BY <1>2, <1>4, <1>7, <2>1 DEF r
  <2>2. CASE x # e
    <3>1. PICK j \in 1..n : /\ invites[j].email = x
                            /\ invites[j].role = "owner"
                            /\ invites[j].status = "accepted"
      BY <1>3, <1>7, <2>2 DEF IInv, Safe, OwnersAreAppointed, IsOwner
    <3> QED BY <1>4, <3>1
  <2> QED BY <2>1, <2>2
<1> QED BY <1>10, <1>11, <1>15, <1>16, <1>17, <1>18, <1>19, <1>20 DEF IInv, Safe

(* The bootstrap script's owners are on record as its own. *)
LEMMA BootstrapKeeps ==
  ASSUME IInv, NEW e \in Emails, Bootstrap(e) PROVE IInv'
<1>1. /\ role' = [role EXCEPT ![e] = "owner"] /\ seeded' = seeded \cup {e}
      /\ inputs < MaxInputs /\ inputs' = inputs + 1
      /\ UNCHANGED <<invites, sessions, tokens, request, founders>>
  BY DEF Bootstrap, Count
<1>2. inputs' \in 0..MaxInputs
  BY <1>1, AccessAssumption DEF IInv, Types
<1>3. /\ role' \in [Emails -> Roles \cup {"none"}] /\ role'[e] = "owner"
      /\ \A x \in Emails \ {e} : role'[x] = role[x]
  BY <1>1 DEF IInv, Types, Roles
<1>4. \A x \in Emails : role[x] # "none" => role'[x] # "none"
  BY <1>3
<1>5. Types'
  BY <1>1, <1>2, <1>3 DEF IInv, Types
<1>6. AllFit'
  BY <1>1 DEF IInv, AllFit
<1>7. /\ \A i \in 1..Len(invites) : invites[i].email \in Emails
      /\ \A j \in 1..Len(sessions) : sessions[j].user \in Emails
      /\ \A t \in 1..Len(tokens) : tokens[t].user \in Emails
      /\ DOMAIN invites = 1..Len(invites)
  BY Rows DEF IInv, Invite, Live
<1>8. Seats'
  BY <1>1, <1>4, <1>7 DEF IInv, Safe, Seats, HasSeat
<1>9. BeforeFirst' /\ EarlyOwners'
  <2>1. ~NoUsers'
    BY <1>3 DEF NoUsers, HasSeat
  <2> QED BY <1>1, <2>1 DEF BeforeFirst, EarlyOwners, IInv, Safe
<1>10. \A q \in Requests : InFlight(request[q]) => request[q].email \in Emails
  BY <1>7, Known DEF Fits, InFlight, Accepting
<1>11. OneInFlight'
  BY <1>1, <1>4, <1>10 DEF IInv, Safe, OneInFlight, HasSeat, InFlight
<1>12. SettledOwner'
  <2> SUFFICES \E x \in Emails :
                  /\ role'[x] = "owner"
                  /\ \A p \in Requests : InFlight(request[p]) => request[p].email # x
    BY <1>1 DEF SettledOwner, IsOwner, InFlight
  <2>1. CASE NoUsers
    BY <1>3, <1>10, <2>1 DEF NoUsers, IInv, Safe, OneInFlight
  <2>2. CASE ~NoUsers
    <3>1. PICK x \in Emails :
             /\ role[x] = "owner"
             /\ \A p \in Requests : InFlight(request[p]) => request[p].email # x
      BY <2>2 DEF IInv, Safe, SettledOwner, IsOwner
    <3> QED BY <1>3, <3>1
  <2> QED BY <2>1, <2>2
<1>13. InvitesAreKept'
  BY <1>1, <1>3, <1>7 DEF IInv, Safe, InvitesAreKept
<1>14. OwnersAreAppointed'
  BY <1>1, <1>3 DEF IInv, Safe, OwnersAreAppointed, IsOwner
<1> QED BY <1>5, <1>6, <1>8, <1>9, <1>11, <1>12, <1>13, <1>14 DEF IInv, Safe

-----------------------------------------------------------------------------
LEMMA InitInv == Init => IInv
<1> SUFFICES ASSUME Init PROVE IInv
  OBVIOUS
<1>1. Len(invites) = 0 /\ Len(sessions) = 0 /\ Len(tokens) = 0
      /\ invites = <<>> /\ sessions = <<>> /\ tokens = <<>> /\ DOMAIN invites = {}
  BY DEF Init
<1>2. \A q \in Requests : request[q] = Idle
  BY DEF Init
<1>3. Types
  BY <1>1, IdleIsRequest, EmptySeq, AccessAssumption DEF Init, Types, Roles
<1>4. AllFit
  BY <1>1, <1>2, IdleIsRequest DEF AllFit, Fits, Accepting, Signed
<1>5. Seats /\ BeforeFirst /\ EarlyOwners /\ OneInFlight
  BY <1>1, <1>2, IdleIsRequest DEF Seats, BeforeFirst, EarlyOwners, OneInFlight, InFlight
<1>6. SettledOwner
  BY <1>2, IdleIsRequest DEF Init, SettledOwner, InFlight, NoUsers, HasSeat, IsOwner
<1>7. InvitesAreKept /\ OwnersAreAppointed
  BY <1>1 DEF Init, InvitesAreKept, OwnersAreAppointed, IsOwner
<1> QED BY <1>3, <1>4, <1>5, <1>6, <1>7 DEF IInv, Safe

LEMMA FailKeeps ==
  ASSUME NEW q \in Requests, IInv, Fail(q) PROVE IInv'
<1>1. Quiet /\ Ends(q) /\ inputs < MaxInputs /\ inputs' = inputs + 1
  BY DEF Fail, Quiet, Count
<1>2. inputs' \in 0..MaxInputs
  BY <1>1, AccessAssumption DEF IInv, Types
<1> QED BY <1>1, <1>2, QuietEnd

LEMMA SpecInv == Spec => []IInv
<1>1. IInv /\ [Next]_vars => IInv'
  <2> SUFFICES ASSUME IInv, [Next]_vars PROVE IInv'
    OBVIOUS
  <2>1. ASSUME NEW q \in Requests, Asks(q) \/ Works(q) \/ Fail(q) PROVE IInv'
    BY <2>1, AsksKeep, ReadsKeep, CountKeeps, InsertUserKeeps, OpenKeeps, BatchKeeps, SignedKeep,
       InsertInviteKeeps, AnswerKeeps, FailKeeps DEF Works
  <2>2. CASE Next
    BY <2>1, <2>2, ExpireInviteKeeps, ExpireKeeps, BootstrapKeeps DEF Next
  <2>3. CASE UNCHANGED vars
    BY <2>3 DEF vars, IInv, Types, AllFit, Safe, Seats, BeforeFirst, EarlyOwners, OneInFlight,
                SettledOwner, InvitesAreKept, OwnersAreAppointed, NoUsers, HasSeat, IsOwner
  <2> QED BY <2>2, <2>3
<1> QED BY InitInv, <1>1, PTL DEF Spec
-----------------------------------------------------------------------------
(* A deployment with users has an owner, however many people sign up, follow *)
(* invites and fail at once.                                                 *)
LEMMA OwnerRemains == Spec => []AnOwnerRemains
<1>1. IInv => AnOwnerRemains
  BY DEF IInv, Safe, SettledOwner, AnOwnerRemains
<1> QED BY SpecInv, <1>1, PTL

(* What an invite offered is what its account has, and no other invite to    *)
(* the email was accepted.                                                   *)
THEOREM InvitesKept == Spec => []InvitesAreKept
<1>1. IInv => InvitesAreKept
  BY DEF IInv, Safe
<1> QED BY SpecInv, <1>1, PTL

(* Every owner was made one by the script, by an invite, or by asking first. *)
LEMMA OwnersAppointed == Spec => []OwnersAreAppointed
<1>1. IInv => OwnersAreAppointed
  BY DEF IInv, Safe
<1> QED BY SpecInv, <1>1, PTL

(* The rows and the requests are what the queries take them for: whoever has *)
(* a session or an API token has a seat, and so has whoever's invite is      *)
(* being accepted.                                                           *)
LEMMA AccessTypeCorrect == Spec => []TypeOK
<1>1. IInv => TypeOK
  <2> SUFFICES ASSUME IInv PROVE TypeOK
    OBVIOUS
  <2>1. /\ role \in [Emails -> Roles \cup {"none"}] /\ invites \in Seq(Invite)
        /\ sessions \in Seq(Live) /\ tokens \in Seq(Live) /\ inputs \in 0..MaxInputs
        /\ seeded \subseteq Emails /\ founders \subseteq Emails
    BY DEF IInv, Types
  <2>2. ASSUME NEW q \in Requests
        PROVE  /\ request[q].at \in Steps
               /\ request[q].email \in Emails \cup {NoOne}
               /\ request[q].invite \in 0..Len(invites)
               /\ request[q].token \in 0..Len(tokens)
               /\ request[q].at \in {"insert", "open"} => request[q].email # NoOne
               /\ request[q].at \in {"select", "batch"} =>
                     role[invites[request[q].invite].email] # "none"
    <3>1. /\ request[q].at \in Steps /\ request[q].email \in Emails \cup {NoOne}
          /\ request[q].invite \in 0..Len(invites) /\ request[q].token \in 0..Len(tokens)
      BY Known DEF Request, Fits
    <3>2. request[q].at \in {"insert", "open"} => request[q].email # NoOne
      BY Known, AccessAssumption DEF Fits
    <3>3. ASSUME request[q].at \in {"select", "batch"}
          PROVE  role[invites[request[q].invite].email] # "none"
      <4>1. InFlight(request[q]) /\ request[q].email = invites[request[q].invite].email
        BY <3>3, Known DEF Fits, InFlight, Accepting
      <4> QED BY <4>1 DEF IInv, Safe, OneInFlight, HasSeat
    <3> QED BY <3>1, <3>2, <3>3
  <2>3. \A c \in {sessions[j].user : j \in DOMAIN sessions} \cup
                 {tokens[t].user : t \in DOMAIN tokens} : role[c] # "none"
    BY HeldRows, Rows DEF HasSeat, IInv
  <2> QED BY <2>1, <2>2, <2>3 DEF TypeOK, Invite, Live
<1> QED BY SpecInv, <1>1, PTL

(* However many people sign up, follow invites and fail at once: whoever has  *)
(* a session or a token has an account, there is an owner as soon as there    *)
(* are accounts, and nobody is one who was not appointed.                     *)
THEOREM OwnersCorrect == Spec => []OwnersStand
BY AccessTypeCorrect, OwnerRemains, OwnersAppointed, PTL DEF OwnersStand

(* A session that ended and a token that was revoked are never live again.   *)
THEOREM EndedForGood == Spec => EndedStaysEnded
<1> DEFINE Stay == /\ \A j \in DOMAIN sessions : ~sessions[j].live => ~sessions'[j].live
                   /\ \A t \in DOMAIN tokens : ~tokens[t].live => ~tokens'[t].live
<1>1. IInv /\ [Next]_vars => [Stay]_vars
  <2> SUFFICES ASSUME IInv, Next PROVE Stay
    OBVIOUS
  <2>1. DOMAIN sessions = 1..Len(sessions) /\ DOMAIN tokens = 1..Len(tokens)
    BY Rows DEF IInv
  <2>2. ASSUME NEW s \in Seq(Live), NEW t, NEW i \in 1..Len(s),
               t = [s EXCEPT ![i].live = FALSE]
        PROVE  \A j \in 1..Len(s) : ~s[j].live => ~t[j].live
    BY <2>2, RowEnds
  <2>3. ASSUME NEW s \in Seq(Live), NEW t, NEW e \in Emails,
               t = Append(s, [user |-> e, live |-> TRUE])
        PROVE  \A j \in 1..Len(s) : ~s[j].live => ~t[j].live
    BY <2>3, AppendProperties DEF Live
  <2>4. ASSUME NEW q \in Requests, Asks(q) \/ Works(q) \/ Fail(q) PROVE Stay
    <3>1. CASE UNCHANGED <<sessions, tokens>>
      BY <3>1
    <3>2. CASE OpenSession(q)
      <4>1. request[q].email \in Emails
        BY <3>2, Known DEF OpenSession, Fits
      <4> QED BY <2>1, <2>3, <3>2, <4>1, HeldRows DEF OpenSession
    <3>3. CASE Logout(q)
      BY <2>1, <2>2, <3>3, Carried, HeldRows DEF Logout
    <3>4. CASE CreateToken(q)
      BY <2>1, <2>3, <3>4, Carried, HeldRows DEF CreateToken
    <3>5. CASE RevokeToken(q)
      <4>1. request[q].token \in 1..Len(tokens)
        BY <2>1, <3>5, Known DEF RevokeToken, Fits
      <4> QED BY <2>1, <2>2, <3>5, <4>1, HeldRows DEF RevokeToken
    <3>6. CASE Asks(q) \/ Fail(q)
      BY <3>1, <3>6 DEF Asks, AskSignup, AskLogin, AskAccept, AskRead, AskAs, AskInvite, AskRevoke,
                        Begin, Fail
    <3>7. CASE Works(q) /\ ~(OpenSession(q) \/ Logout(q) \/ CreateToken(q) \/ RevokeToken(q))
      BY <3>1, <3>7 DEF Works, Find, CountUsers, InsertUser, Resolve, Select, Batch, Authenticate,
                        Touch, CheckOwner, CheckPending, InsertInvite, AnswerInvite
    <3> QED BY <2>4, <3>2, <3>3, <3>4, <3>5, <3>6, <3>7
  <2>5. ASSUME NEW c \in Credentials, Expire(c) PROVE Stay
    <3>1. \/ c.of = "session" /\ c.row \in 1..Len(sessions)
          \/ c.of = "token" /\ c.row \in 1..Len(tokens)
      BY <2>1 DEF Credentials
    <3>2. \A j \in DOMAIN sessions : ~sessions[j].live => ~sessions'[j].live
      BY <2>1, <2>2, <2>5, <3>1, HeldRows DEF Expire, End
    <3>3. \A j \in DOMAIN tokens : ~tokens[j].live => ~tokens'[j].live
      BY <2>1, <2>2, <2>5, <3>1, HeldRows DEF Expire, End
    <3> QED BY <3>2, <3>3
  <2>6. ASSUME \/ \E i \in DOMAIN invites : ExpireInvite(i)
               \/ \E e \in Emails : Bootstrap(e)
        PROVE  Stay
    BY <2>6 DEF ExpireInvite, Bootstrap
  <2> QED BY <2>4, <2>5, <2>6 DEF Next
<1> QED BY SpecInv, <1>1, PTL DEF Spec, EndedStaysEnded
=============================================================================
