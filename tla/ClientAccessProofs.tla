------------------------- MODULE ClientAccessProofs -------------------------
(***************************************************************************)
(* ClientAccess, for any number of requests, machines, licences,           *)
(* subscriptions and overlapping back-office transactions: the types and   *)
(* foreign keys hold, a session never has two refresh tokens that can      *)
(* still be exchanged, a cancelled subscription stays cancelled, a token   *)
(* that is presented again ends its session, a blacklisted device is       *)
(* listed, and a session that was not overtaken and loses its access never *)
(* gets it back.                                                           *)
(***************************************************************************)
EXTENDS ClientAccess, TLAPS

\* A request that has not been answered has issued no token and opened no
\* session yet.
Unanswered == {"new", "binding", "writing", "rotating", "marked", "revoking"}

NothingIssuedYet ==
    \A r \in Requests :
        request[r].pc \in Unanswered => ~token[r].issued /\ ~session[r].open

\* The row lock of a token that a refresh has marked: nobody else uses or
\* revokes it before the refresh commits or is rolled back.
MarkedIsLive == \A r \in Requests : request[r].pc = "marked" => Live(request[r].token)

OneMarker ==
    \A r, q \in Requests :
        /\ request[r].pc = "marked" /\ request[q].pc = "marked"
        /\ request[r].token = request[q].token
        => r = q

\* A device that was found stays in the table.
FoundDeviceExists ==
    \A r \in Requests :
        request[r].pc = "writing" /\ request[r].plan \in {"keep", "rebind"}
        => device[request[r].machine].status /= "none"

\* Only the operations on devices write devices, and those that name a device
\* name one that exists.
WritersOfDevices ==
    \A a \in Admins :
        admin[a].rows /= {} => admin[a].op \in DeviceOps \cup {"reset"}

\* The row lock of a token that a back-office transaction has revoked: no
\* refresh has marked it.
LocksExclude == \A t \in Requests : Marked(t) => ~TokenLocked(t)

IInv ==
    /\ TypeOK /\ OneLiveToken /\ NothingIssuedYet /\ MarkedIsLive /\ OneMarker
    /\ FoundDeviceExists /\ WritersOfDevices /\ LocksExclude

\* The defaults of the model are members of their types.
LEMMA Defaults == AnyMachine \in Machines /\ AnyGrant \in Grants /\ NoAdmin \in AdminState
<1>1. AnyMachine \in Machines
  BY AccessAssumption DEF AnyMachine
<1>2. AnyGrant \in Grants
  BY AccessAssumption DEF AnyGrant
<1> QED
  BY <1>1, <1>2 DEF NoAdmin, AdminState

\* The initial state satisfies the invariant.
LEMMA InitIInv == Init => IInv
<1> SUFFICES ASSUME Init PROVE IInv
  OBVIOUS
<1>1. TypeOK
  BY Defaults DEF Init, TypeOK, GrantRow, DeviceRow, SessionRow, TokenRow, RequestState
<1> QED
  BY <1>1 DEF Init, IInv, OneLiveToken, Live, NothingIssuedYet, MarkedIsLive, OneMarker,
     FoundDeviceExists, WritersOfDevices, LocksExclude, Marked, NoAdmin

\* A step that changes only the locals of a request that has not been answered
\* keeps the invariant if a token it marks is live and locked by nobody else,
\* and a device it has found exists.
LEMMA LocalStep ==
    ASSUME IInv, NEW r \in Requests,
           request[r].pc \in Unanswered,
           request' \in [Requests -> RequestState],
           \A q \in Requests \ {r} : request'[q] = request[q],
           request'[r].pc = "marked" =>
               /\ Live(request'[r].token) /\ ~Marked(request'[r].token)
               /\ ~TokenLocked(request'[r].token),
           request'[r].pc = "writing" /\ request'[r].plan \in {"keep", "rebind"} =>
               device[request'[r].machine].status /= "none",
           UNCHANGED <<grant, device, blacklist, session, token, admin, adminOps>>
    PROVE  IInv'
<1>1. TypeOK'
  BY DEF IInv, TypeOK
<1>2. OneLiveToken' /\ WritersOfDevices'
  BY DEF IInv, OneLiveToken, Live, WritersOfDevices
<1>3. NothingIssuedYet'
  BY DEF IInv, NothingIssuedYet
<1>4. MarkedIsLive'
  BY DEF IInv, MarkedIsLive, Live
<1>5. OneMarker'
  BY DEF IInv, OneMarker, Marked
<1>6. FoundDeviceExists'
  BY DEF IInv, FoundDeviceExists
<1>7. LocksExclude'
  BY DEF IInv, LocksExclude, Marked, TokenLocked
<1> QED
  BY <1>1, <1>2, <1>3, <1>4, <1>5, <1>6, <1>7 DEF IInv

\* The reads of activate and login before the transaction.
LEMMA BeginBindIInv ==
    ASSUME IInv, NEW r \in Requests, BeginBind(r)
    PROVE  IInv'
<1>1. PICK m \in Machines, g \in Grants \cup {NoGrant} :
        request' = [request EXCEPT ![r] = [pc |-> "binding", machine |-> m, grant |-> g,
                                           token |-> r, plan |-> "none"]]
  BY DEF BeginBind
<1>2. request' \in [Requests -> RequestState] /\ request'[r].pc = "binding"
  BY <1>1 DEF IInv, TypeOK, RequestState
<1> QED
  BY <1>1, <1>2, LocalStep DEF BeginBind, Unanswered, IInv, TypeOK

\* Rows and locals keep their types when some of their fields are assigned.
LEMMA TokenRows ==
    ASSUME NEW row \in TokenRow
    PROVE  /\ [row EXCEPT !.used = TRUE] \in TokenRow
           /\ [row EXCEPT !.used = TRUE].used
           /\ [row EXCEPT !.used = TRUE].issued = row.issued
           /\ [row EXCEPT !.used = TRUE].session = row.session
           /\ [row EXCEPT !.revoked = TRUE] \in TokenRow
           /\ [row EXCEPT !.revoked = TRUE].revoked
           /\ [row EXCEPT !.revoked = TRUE].issued = row.issued
           /\ [row EXCEPT !.revoked = TRUE].session = row.session
  BY DEF TokenRow

\* The session rows of AdminCommit: sessions are revoked, never reopened.
LEMMA SessionRows ==
    ASSUME NEW row \in SessionRow
    PROVE  /\ [row EXCEPT !.revoked = TRUE] \in SessionRow
           /\ [row EXCEPT !.revoked = TRUE].open = row.open
           /\ [row EXCEPT !.revoked = TRUE].device = row.device
  BY DEF SessionRow

\* What an assignment to the program counter, the token and the plan of a
\* request does.
LEMMA Assign ==
    ASSUME request \in [Requests -> RequestState], NEW r \in Requests,
           NEW X, X \in RequestState, request' = [request EXCEPT ![r] = X]
    PROVE  /\ request' \in [Requests -> RequestState]
           /\ request'[r] = X
           /\ \A q \in Requests \ {r} : request'[q] = request[q]
  OBVIOUS

\* A plan to keep or to rebind is made for a device that exists.
LEMMA BindCheckIInv ==
    ASSUME IInv, NEW r \in Requests, BindCheck(r)
    PROVE  IInv'
<1> DEFINE plan == BindPlan(request[r].machine, request[r].grant)
<1>1. /\ plan \in {"none", "keep", "rebind", "create"}
      /\ plan \in {"keep", "rebind"} => device[request[r].machine].status /= "none"
  BY DEF BindPlan
<1>2. request' = [request EXCEPT ![r].pc = IF plan = "none" THEN "ended" ELSE "writing",
                                 ![r].plan = plan]
  BY DEF BindCheck
<1>3. request \in [Requests -> RequestState]
  BY DEF IInv, TypeOK
<1>7. PICK rec \in RequestState : rec = request[r]
  BY <1>3
<1> DEFINE pc == IF plan = "none" THEN "ended" ELSE "writing"
           X  == [rec EXCEPT !.pc = pc, !.plan = plan]
<1> HIDE DEF plan
<1>4. /\ X \in RequestState /\ X.pc \in {"ended", "writing"}
      /\ X.plan = plan /\ X.machine = rec.machine
  <2>1. pc \in {"ended", "writing"}
    OBVIOUS
  <2> HIDE DEF pc
  <2> QED
    BY <1>1, <2>1 DEF RequestState
<1>5. request' = [request EXCEPT ![r] = X]
  BY <1>2, <1>7
<1> HIDE DEF X
<1>6. /\ request' \in [Requests -> RequestState] /\ request'[r] = X
      /\ \A q \in Requests \ {r} : request'[q] = request[q]
  BY <1>3, <1>4, <1>5, Assign
<1>8. request'[r].plan \in {"keep", "rebind"} => device[request'[r].machine].status /= "none"
  BY <1>1, <1>4, <1>6, <1>7
<1>9. request[r].pc \in Unanswered /\ request'[r].pc /= "marked"
  BY <1>4, <1>6 DEF BindCheck, Unanswered
<1> QED
  BY <1>6, <1>8, <1>9, LocalStep DEF BindCheck

\* Reading a token does not lock it.
LEMMA RefreshReadIInv ==
    ASSUME IInv, NEW r \in Requests, RefreshRead(r)
    PROVE  IInv'
<1>1. PICK t \in Requests, pc \in {"revoking", "rotating", "ended"} :
        request' = [request EXCEPT ![r].token = t, ![r].pc = pc]
  BY DEF RefreshRead
<1>2. request \in [Requests -> RequestState]
  BY DEF IInv, TypeOK
<1>6. PICK rec \in RequestState : rec = request[r]
  BY <1>2
<1> DEFINE X == [rec EXCEPT !.token = t, !.pc = pc]
<1>3. X \in RequestState /\ X.pc \in {"revoking", "rotating", "ended"}
  BY DEF RequestState
<1>4. request' = [request EXCEPT ![r] = X]
  BY <1>1, <1>6
<1> HIDE DEF X
<1>5. /\ request' \in [Requests -> RequestState] /\ request'[r] = X
      /\ \A q \in Requests \ {r} : request'[q] = request[q]
  BY <1>2, <1>3, <1>4, Assign
<1> QED
  BY <1>3, <1>5, LocalStep DEF RefreshRead, Unanswered

\* What changing the program counter of a request does.
LEMMA GotoStep ==
    ASSUME IInv, NEW r \in Requests,
           NEW pc \in {"ended", "marked", "revoking", "reused", "rotated"}, Goto(r, pc)
    PROVE  /\ request' \in [Requests -> RequestState]
           /\ request'[r].pc = pc /\ request'[r].token = request[r].token
           /\ \A q \in Requests \ {r} : request'[q] = request[q]
<1> DEFINE X == [request[r] EXCEPT !.pc = pc]
<1>1. request \in [Requests -> RequestState]
  BY DEF IInv, TypeOK
<1>2. X \in RequestState /\ X.pc = pc /\ X.token = request[r].token
  BY <1>1 DEF RequestState
<1>3. request' = [request EXCEPT ![r] = X]
  BY DEF Goto
<1> HIDE DEF X
<1> QED
  BY <1>1, <1>2, <1>3, Assign

\* A refresh marks a token that is live and that no other refresh has marked.
LEMMA RefreshMarkIInv ==
    ASSUME IInv, NEW r \in Requests, RefreshMark(r)
    PROVE  IInv'
<1>1. CASE Live(request[r].token)
  <2>1. Goto(r, "marked")
    BY <1>1 DEF RefreshMark
  <2> QED
    BY <1>1, <2>1, GotoStep, LocalStep DEF RefreshMark, Unanswered
<1>2. CASE ~Live(request[r].token)
  <2>1. Goto(r, "revoking")
    BY <1>2 DEF RefreshMark
  <2> QED
    BY <2>1, GotoStep, LocalStep DEF RefreshMark, Unanswered
<1> QED
  BY <1>1, <1>2

\* A request that stops gives up its mark.
LEMMA StopIInv ==
    ASSUME IInv, NEW r \in Requests, Stop(r)
    PROVE  IInv'
  BY GotoStep, LocalStep DEF Stop, Unanswered

\* A bound request issues the first token of a session of its own.
LEMMA BindCommitIInv ==
    ASSUME IInv, NEW r \in Requests, BindCommit(r)
    PROVE  IInv'
<1> DEFINE m == request[r].machine
<1>1. /\ m \in Machines /\ request[r].grant \in Grants \cup {NoGrant}
      /\ request[r].pc = "writing" /\ ~token[r].issued /\ ~session[r].open
  BY DEF IInv, TypeOK, RequestState, BindCommit, NothingIssuedYet, Unanswered
<1>2. /\ \A x \in Machines : device[x].status /= "none" => device'[x].status /= "none"
      /\ device' \in [Machines -> DeviceRow]
  BY <1>1 DEF IInv, TypeOK, BindCommit, DeviceRow
<1>3. LocksExclude'
  <2>1. request'[r].pc = "ended" /\ \A q \in Requests \ {r} : request'[q] = request[q]
    BY GotoStep DEF BindCommit
  <2>2. admin' = admin
    BY DEF BindCommit
  <2> QED
    BY <2>1, <2>2 DEF IInv, LocksExclude, Marked, TokenLocked
<1>4. CASE /\ OpenSession(r, m)
           /\ device'[m].status /= "none"
  <2>1. PICK late \in BOOLEAN : late = Overtaken(m)
    BY DEF Overtaken
  <2>2. PICK row \in SessionRow : row = [open |-> TRUE, device |-> m, revoked |-> FALSE,
                                         overtaken |-> late]
    BY <1>1 DEF SessionRow
  <2>3. session' = [session EXCEPT ![r] = row] /\ row.open /\ row.device = m
    BY <1>4, <2>1, <2>2 DEF OpenSession
  <2>4. request' \in [Requests -> RequestState]
    BY GotoStep DEF BindCommit
  <2>5. /\ session' \in [Requests -> SessionRow] /\ session'[r] = row
        /\ \A s \in Requests \ {r} : session'[s] = session[s]
    BY <2>3, <2>2 DEF IInv, TypeOK
  <2>6. /\ token' \in [Requests -> TokenRow] /\ token'[r].session = r
        /\ \A t \in Requests \ {r} : token'[t] = token[t]
    BY <1>4 DEF IInv, TypeOK, OpenSession, TokenRow
  <2>7. \A s \in Requests : session'[s].open => device'[session'[s].device].status /= "none"
    <3>1. \A s \in Requests : session[s].device \in Machines
      BY DEF IInv, TypeOK, SessionRow
    <3> QED
      BY <1>2, <1>4, <2>3, <2>5, <3>1 DEF IInv, TypeOK
  <2>8. \A t \in Requests : token'[t].issued => session'[token'[t].session].open
    <3>1. \A t \in Requests : token[t].session \in Requests
      BY DEF IInv, TypeOK, TokenRow
    <3> QED
      BY <2>3, <2>5, <2>6, <3>1 DEF IInv, TypeOK
  <2>9. TypeOK'
    BY <1>2, <2>4, <2>5, <2>6, <2>7, <2>8 DEF IInv, TypeOK, BindCommit
  <2>10. OneLiveToken'
    BY <1>1, <1>4 DEF IInv, TypeOK, OneLiveToken, Live, OpenSession, TokenRow
  <2>11. NothingIssuedYet' /\ MarkedIsLive' /\ OneMarker'
    BY <1>1, <1>4, <2>3 DEF IInv, TypeOK, BindCommit, OpenSession, Goto, NothingIssuedYet,
       MarkedIsLive, OneMarker, Live, Unanswered, RequestState, TokenRow
  <2>12. FoundDeviceExists' /\ WritersOfDevices'
    BY <1>1, <1>2 DEF IInv, TypeOK, BindCommit, Goto, FoundDeviceExists, WritersOfDevices,
       RequestState
  <2> QED
    BY <1>3, <2>9, <2>10, <2>11, <2>12 DEF IInv
<1>5. CASE UNCHANGED <<device, session, token>>
  <2>1. TypeOK'
    BY <1>1, <1>5 DEF IInv, TypeOK, BindCommit, Goto, RequestState
  <2> QED
    BY <1>1, <1>5, <1>3, <2>1 DEF BindCommit, Goto, RequestState, IInv, TypeOK, OneLiveToken, Live, NothingIssuedYet, MarkedIsLive,
     OneMarker, FoundDeviceExists, WritersOfDevices, Unanswered
<1>6. request[r].plan \in {"keep", "rebind"} => device[m].status /= "none"
  BY <1>1 DEF IInv, FoundDeviceExists
<1>7. (OpenSession(r, m) /\ device'[m].status /= "none") \/ UNCHANGED <<device, session, token>>
  BY <1>1, <1>2, <1>6 DEF BindCommit, IInv, TypeOK, DeviceRow
<1> QED
  BY <1>4, <1>5, <1>7

\* The exchange retires the only live token of the session and issues its
\* successor.
LEMMA RefreshCommitIInv ==
    ASSUME IInv, NEW r \in Requests, RefreshCommit(r)
    PROVE  IInv'
<1> DEFINE t == request[r].token
<1>1. /\ t \in Requests /\ request[r].pc = "marked" /\ Live(t) /\ ~token[r].issued
      /\ t /= r /\ token[t].session \in Requests
  BY DEF IInv, TypeOK, RequestState, TokenRow, RefreshCommit, NothingIssuedYet, MarkedIsLive,
     Live, Unanswered
<1>2. token' = [token EXCEPT ![t].used = TRUE,
                             ![r] = [issued |-> TRUE, session |-> token[t].session,
                                     used |-> FALSE, revoked |-> FALSE]]
  BY DEF RefreshCommit
<1>3. /\ \A u \in Requests \ {r, t} : token'[u] = token[u]
      /\ token'[r] = [issued |-> TRUE, session |-> token[t].session,
                      used |-> FALSE, revoked |-> FALSE]
      /\ token'[t] = [token[t] EXCEPT !.used = TRUE]
      /\ token' \in [Requests -> TokenRow]
  <2>1. token \in [Requests -> TokenRow]
    BY DEF IInv, TypeOK
  <2>2. [token[t] EXCEPT !.used = TRUE] \in TokenRow
    BY <1>1, <2>1, TokenRows
  <2>3. [issued |-> TRUE, session |-> token[t].session, used |-> FALSE,
         revoked |-> FALSE] \in TokenRow
    BY <1>1 DEF TokenRow
  <2> QED
    BY <1>1, <1>2, <2>1, <2>2, <2>3
<1>4. /\ request' \in [Requests -> RequestState] /\ request'[r].pc = "rotated"
      /\ \A q \in Requests \ {r} : request'[q] = request[q]
  BY GotoStep DEF RefreshCommit
<1>5. TypeOK'
  <2>1. UNCHANGED <<grant, device, blacklist, session, admin, adminOps>>
    BY DEF RefreshCommit
  <2>2. \A u \in Requests : token'[u].issued => session[token'[u].session].open
    BY <1>1, <1>3 DEF IInv, TypeOK, Live, TokenRow
  <2> QED
    BY <1>3, <1>4, <2>1, <2>2 DEF IInv, TypeOK
<1>6. OneLiveToken'
  <2>1. token[t] \in TokenRow
    BY <1>1 DEF IInv, TypeOK
  <2>2. token'[t].used
    BY <1>3, <2>1, TokenRows
  <2>3. token'[r].issued /\ ~token'[r].used /\ ~token'[r].revoked
        /\ token'[r].session = token[t].session
    BY <1>3
  <2> SUFFICES ASSUME NEW u \in Requests, NEW v \in Requests, Live(u)', Live(v)',
                      token'[u].session = token'[v].session
               PROVE  u = v
    BY DEF OneLiveToken
  <2>4. u /= t /\ v /= t
    BY <2>2 DEF Live
  <2>5. \A w \in Requests \ {r, t} :
          Live(w)' => Live(w) /\ token'[w].session = token[w].session
    BY <1>3 DEF Live
  <2>6. \A w \in Requests \ {t} : Live(w) => token[w].session /= token[t].session
    BY <1>1 DEF IInv, OneLiveToken
  <2>7. CASE u = r \/ v = r
    BY <2>3, <2>4, <2>5, <2>6, <2>7
  <2>8. CASE u /= r /\ v /= r
    BY <2>4, <2>5, <2>8 DEF IInv, OneLiveToken
  <2> QED
    BY <2>7, <2>8
<1>7. NothingIssuedYet'
  BY <1>1, <1>3, <1>4 DEF IInv, TypeOK, RefreshCommit, NothingIssuedYet, Unanswered, Live, TokenRow
<1>8. MarkedIsLive'
  BY <1>1, <1>3, <1>4 DEF IInv, TypeOK, RequestState, MarkedIsLive, OneMarker, Live
<1>9. OneMarker' /\ FoundDeviceExists' /\ WritersOfDevices'
  BY <1>4 DEF IInv, RefreshCommit, OneMarker, FoundDeviceExists, WritersOfDevices
<1>10. LocksExclude'
  BY <1>4 DEF IInv, RefreshCommit, LocksExclude, Marked, TokenLocked
<1> QED
  BY <1>5, <1>6, <1>7, <1>8, <1>9, <1>10 DEF IInv

\* Revoking a session leaves the tokens alone.
LEMMA RevokeSessionStep ==
    ASSUME IInv, NEW s \in Requests,
           session' = [session EXCEPT ![s].revoked = TRUE],
           UNCHANGED <<grant, device, blacklist, token, admin, adminOps>>,
           request' \in [Requests -> RequestState],
           \A q \in Requests : request'[q] = request[q] \/ request'[q].pc = "reused"
    PROVE  IInv'
<1>1. PICK row \in SessionRow : row = session[s]
  BY DEF IInv, TypeOK
<1>2. /\ session' \in [Requests -> SessionRow]
      /\ \A q \in Requests : /\ session'[q].open = session[q].open
                             /\ session'[q].device = session[q].device
  BY <1>1, SessionRows DEF IInv, TypeOK
<1>3. TypeOK'
  BY <1>2 DEF IInv, TypeOK, TokenRow
<1>4. OneLiveToken' /\ WritersOfDevices' /\ FoundDeviceExists'
  BY DEF IInv, OneLiveToken, Live, WritersOfDevices, FoundDeviceExists
<1>5. NothingIssuedYet'
  BY <1>2 DEF IInv, NothingIssuedYet, Unanswered
<1>6. MarkedIsLive' /\ OneMarker' /\ LocksExclude'
  BY DEF IInv, MarkedIsLive, OneMarker, Live, LocksExclude, Marked, TokenLocked
<1> QED
  BY <1>3, <1>4, <1>5, <1>6 DEF IInv

\* RefreshRevoke revokes a session and touches no token.
LEMMA RefreshRevokeIInv ==
    ASSUME IInv, NEW r \in Requests, RefreshRevoke(r)
    PROVE  IInv'
<1>1. token[request[r].token].session \in Requests
  BY DEF IInv, TypeOK, RequestState, TokenRow
<1>2. Goto(r, "reused")
  BY DEF RefreshRevoke
<1>3. /\ request' \in [Requests -> RequestState]
      /\ \A q \in Requests : request'[q] = request[q] \/ request'[q].pc = "reused"
  BY <1>2, GotoStep
<1> QED
  BY <1>1, <1>3, RevokeSessionStep DEF RefreshRevoke, RevokeSession

\* So does Logout.
LEMMA LogoutIInv ==
    ASSUME IInv, NEW s \in Requests, Logout(s)
    PROVE  IInv'
<1>1. request' \in [Requests -> RequestState] /\ request' = request
  BY DEF IInv, TypeOK, Logout
<1> QED
  BY <1>1, RevokeSessionStep DEF Logout, RevokeSession

\* The passing of expires_at touches neither tokens nor sessions.
LEMMA ExpireIInv ==
    ASSUME IInv, NEW g \in Grants, Expire(g)
    PROVE  IInv'
<1>1. TypeOK'
  BY DEF IInv, TypeOK, Expire, GrantRow
<1> QED
  BY <1>1 DEF Expire, IInv, TypeOK, OneLiveToken, Live, NothingIssuedYet, MarkedIsLive,
     OneMarker, FoundDeviceExists, WritersOfDevices, Unanswered, LocksExclude, Marked, TokenLocked

\* A back-office request that begins has written nothing.
LEMMA AdminBeginIInv ==
    ASSUME IInv, NEW a \in Admins, NEW op \in DeviceOps \cup StatusOps \cup {"reset"},
           NEW m \in Machines, NEW g \in Grants, NEW hit \in BOOLEAN,
           AdminBegin(a, op, m, g, hit)
    PROVE  IInv'
<1> DEFINE X == [pc |-> "begun", op |-> op, machine |-> m, grant |-> g, hit |-> hit,
                 rows |-> {}, saw |-> {}, ended |-> {}]
<1>1. admin' = [admin EXCEPT ![a] = X]
  BY DEF AdminBegin
<1>2. X \in AdminState /\ X.rows = {} /\ X.saw = {}
  BY DEF AdminState
<1> HIDE DEF X
<1>3. TypeOK'
  <2>1. /\ UNCHANGED <<grant, device, blacklist, session, token, request>>
        /\ adminOps' = adminOps + 1 /\ TypeOK
    BY DEF AdminBegin, IInv
  <2>2. admin' \in [Admins -> AdminState]
    BY <1>1, <1>2 DEF IInv, TypeOK
  <2> QED
    BY <2>1, <2>2 DEF TypeOK
<1>4. WritersOfDevices'
  BY <1>1, <1>2 DEF IInv, TypeOK, WritersOfDevices
<1>5. LocksExclude'
  <2>1. request' = request
    BY DEF AdminBegin
  <2> QED
    BY <1>1, <1>2, <2>1 DEF IInv, TypeOK, LocksExclude, Marked, TokenLocked
<1> QED
  BY <1>3, <1>4, <1>5 DEF AdminBegin, IInv, OneLiveToken, Live, NothingIssuedYet, MarkedIsLive,
     OneMarker, FoundDeviceExists

\* A transaction that ends holds nothing.
LEMMA AdminEnds ==
    ASSUME IInv, NEW a \in Admins, admin' = [admin EXCEPT ![a] = NoAdmin]
    PROVE  /\ admin' \in [Admins -> AdminState] /\ WritersOfDevices'
           /\ \A t \in Requests : TokenLocked(t)' => TokenLocked(t)
<1>1. NoAdmin \in AdminState /\ NoAdmin.rows = {} /\ NoAdmin.saw = {}
  BY Defaults DEF NoAdmin
<1>2. admin \in [Admins -> AdminState]
  BY DEF IInv, TypeOK
<1> HIDE DEF NoAdmin
<1> QED
  BY <1>1, <1>2 DEF IInv, WritersOfDevices, TokenLocked

\* A back-office transaction that is rolled back leaves every row.
LEMMA AdminStopIInv ==
    ASSUME IInv, NEW a \in Admins, AdminStop(a)
    PROVE  IInv'
<1>1. /\ admin' \in [Admins -> AdminState] /\ WritersOfDevices'
      /\ \A t \in Requests : TokenLocked(t)' => TokenLocked(t)
  BY AdminEnds DEF AdminStop
<1>2. TypeOK'
  BY <1>1 DEF IInv, TypeOK, AdminStop
<1>3. LocksExclude'
  BY <1>1 DEF IInv, LocksExclude, Marked, AdminStop
<1> QED
  BY <1>1, <1>2, <1>3 DEF AdminStop, IInv, OneLiveToken, Live, NothingIssuedYet, MarkedIsLive,
     OneMarker, FoundDeviceExists

\* A transaction that goes on takes its row locks, and has tokens to revoke only
\* if it revokes.
LEMMA WriteGoesOn ==
    ASSUME IInv, NEW a \in Admins, AdminWrite(a), admin' /= [admin EXCEPT ![a] = NoAdmin]
    PROVE  \E rows \in SUBSET Machines, saw \in SUBSET Requests, pc \in {"tokens", "audit"} :
             /\ rows /= {} => admin[a].op \in DeviceOps \cup {"reset"}
             /\ rows = IF admin[a].op \in DeviceOps THEN {admin[a].machine}
                       ELSE {x \in Machines : /\ admin[a].op = "reset"
                                              /\ device[x].grant = admin[a].grant
                                              /\ admin[a].grant \in Licenses
                                                 => device[x].status /= "unbound"}
             /\ \A x \in rows : ~DeviceLocked(x)
             /\ admin[a].op \in StatusOps => StatusMatches(admin[a].op, admin[a].grant)
             /\ pc = "audit" => saw = {} /\ admin[a].op \notin Revoking
             /\ admin' = [admin EXCEPT ![a] = [@ EXCEPT !.pc = pc, !.rows = rows, !.saw = saw]]
<1> DEFINE op   == admin[a].op
           g    == admin[a].grant
           m    == admin[a].machine
           rows == IF op \in DeviceOps THEN {m}
                   ELSE {x \in Machines : /\ op = "reset" /\ device[x].grant = g
                                          /\ g \in Licenses => device[x].status /= "unbound"}
           hits == RevokedDevices(op, g, m, Written(op, g, rows))
           saw  == {t \in Requests : /\ token[t].issued /\ ~token[t].revoked
                                     /\ session[token[t].session].device \in hits}
           pc   == IF op \in Revoking THEN "tokens" ELSE "audit"
<1>1. m \in Machines
  BY DEF IInv, TypeOK, AdminState
<1>2. /\ rows \in SUBSET Machines /\ saw \in SUBSET Requests /\ pc \in {"tokens", "audit"}
      /\ rows /= {} => op \in DeviceOps \cup {"reset"}
  BY <1>1
<1>3. pc = "audit" => saw = {} /\ op \notin Revoking
  BY DEF RevokedDevices, Revoking
<1>4. /\ \A x \in rows : ~DeviceLocked(x)
      /\ op \in StatusOps => StatusMatches(op, g)
      /\ admin' = [admin EXCEPT ![a] = [@ EXCEPT !.pc = pc, !.rows = rows, !.saw = saw]]
  BY DEF AdminWrite
<1>5. rows = IF op \in DeviceOps THEN {m}
             ELSE {x \in Machines : /\ op = "reset" /\ device[x].grant = g
                                    /\ g \in Licenses => device[x].status /= "unbound"}
  OBVIOUS
<1> HIDE DEF rows, saw, pc
<1> USE <1>2
<1> WITNESS rows \in SUBSET Machines, saw \in SUBSET Requests, pc \in {"tokens", "audit"}
<1> QED
  BY <1>2, <1>3, <1>4, <1>5

\* Taking the row locks changes no table.
LEMMA AdminWriteIInv ==
    ASSUME IInv, NEW a \in Admins, AdminWrite(a)
    PROVE  IInv'
<1>1. UNCHANGED <<grant, device, blacklist, session, token, request, adminOps>>
  BY DEF AdminWrite
<1>2. /\ admin' \in [Admins -> AdminState] /\ WritersOfDevices'
      /\ \A t \in Requests : TokenLocked(t)' => TokenLocked(t)
  <2>1. CASE admin' = [admin EXCEPT ![a] = NoAdmin]
    BY <2>1, AdminEnds
  <2>2. CASE admin' /= [admin EXCEPT ![a] = NoAdmin]
    <3>1. PICK rows \in SUBSET Machines, saw \in SUBSET Requests, pc \in {"tokens", "audit"} :
            /\ rows /= {} => admin[a].op \in DeviceOps \cup {"reset"}
            /\ pc = "audit" => saw = {}
            /\ admin' = [admin EXCEPT ![a] = [@ EXCEPT !.pc = pc, !.rows = rows, !.saw = saw]]
      BY <2>2, WriteGoesOn
    <3>2. admin \in [Admins -> AdminState]
      BY DEF IInv, TypeOK
    <3>5. PICK rec \in AdminState : rec = admin[a]
      BY <3>2
    <3> DEFINE X == [rec EXCEPT !.pc = pc, !.rows = rows, !.saw = saw]
    <3>3. X \in AdminState /\ X.rows = rows /\ X.op = rec.op /\ X.pc = pc /\ X.saw = saw
      BY DEF AdminState
    <3>4. admin' = [admin EXCEPT ![a] = X]
      BY <3>1, <3>5
    <3> HIDE DEF X
    <3> QED
      BY <3>1, <3>2, <3>3, <3>4, <3>5 DEF IInv, WritersOfDevices, TokenLocked
  <2> QED
    BY <2>1, <2>2
<1>3. TypeOK'
  BY <1>1, <1>2 DEF IInv, TypeOK
<1>4. LocksExclude'
  BY <1>1, <1>2 DEF IInv, LocksExclude, Marked
<1> QED
  BY <1>1, <1>2, <1>3, <1>4 DEF IInv, OneLiveToken, Live, NothingIssuedYet, MarkedIsLive,
     OneMarker, FoundDeviceExists

\* What a step of the revocations does to the locals of the transaction.
LEMMA RevokingStep ==
    ASSUME IInv, NEW a \in Admins, AdminRevokeTokens(a) \/ AdminRevokeSessions(a)
    PROVE  /\ admin' \in [Admins -> AdminState]
           /\ \A b \in Admins \ {a} : admin'[b] = admin[b]
           /\ admin'[a].op = admin[a].op /\ admin'[a].grant = admin[a].grant
           /\ admin'[a].machine = admin[a].machine
           /\ admin'[a].rows = admin[a].rows /\ admin'[a].saw = admin[a].saw
           /\ AdminRevokeTokens(a) =>
                /\ admin[a].pc = "tokens" /\ admin'[a].pc = "sessions"
                /\ admin'[a].ended =
                     {s \in Requests :
                        /\ session[s].open /\ ~session[s].revoked
                        /\ session[s].device \in
                             RevokedDevices(admin[a].op, admin[a].grant, admin[a].machine,
                                 Written(admin[a].op, admin[a].grant, admin[a].rows))}
           /\ AdminRevokeSessions(a) =>
                /\ admin[a].pc = "sessions" /\ admin'[a].pc = "audit"
                /\ admin'[a].ended = admin[a].ended
           /\ UNCHANGED <<grant, device, blacklist, session, token, request, adminOps>>
<1> DEFINE hits == RevokedDevices(admin[a].op, admin[a].grant, admin[a].machine,
                                  Written(admin[a].op, admin[a].grant, admin[a].rows))
           found == {s \in Requests : /\ session[s].open /\ ~session[s].revoked
                                      /\ session[s].device \in hits}
<1>1. PICK rec \in AdminState : rec = admin[a]
  BY DEF IInv, TypeOK
<1>2. admin \in [Admins -> AdminState] /\ found \subseteq Requests
  BY DEF IInv, TypeOK
<1>3. CASE AdminRevokeTokens(a)
  <2> DEFINE X == [rec EXCEPT !.pc = "sessions", !.ended = found]
  <2>1. /\ admin[a].pc = "tokens" /\ admin' = [admin EXCEPT ![a] = X]
        /\ UNCHANGED <<grant, device, blacklist, session, token, request, adminOps>>
    BY <1>1, <1>3 DEF AdminRevokeTokens
  <2> HIDE DEF found
  <2>2. /\ X \in AdminState /\ X.op = rec.op /\ X.grant = rec.grant /\ X.machine = rec.machine
        /\ X.rows = rec.rows /\ X.saw = rec.saw /\ X.pc = "sessions" /\ X.ended = found
    BY <1>2 DEF AdminState
  <2> HIDE DEF X
  <2>3. admin' \in [Admins -> AdminState] /\ admin'[a] = X /\ \A b \in Admins \ {a} : admin'[b] = admin[b]
    BY <1>2, <2>1, <2>2
  <2>4. ~AdminRevokeSessions(a)
    BY <2>1 DEF AdminRevokeSessions
  <2>5. admin'[a].ended = found
    BY <2>2, <2>3
  <2> QED
    BY <1>1, <2>1, <2>2, <2>3, <2>4, <2>5 DEF found
<1>4. CASE AdminRevokeSessions(a)
  <2> DEFINE X == [rec EXCEPT !.pc = "audit"]
  <2>1. /\ admin[a].pc = "sessions" /\ admin' = [admin EXCEPT ![a] = X]
        /\ UNCHANGED <<grant, device, blacklist, session, token, request, adminOps>>
    BY <1>1, <1>4 DEF AdminRevokeSessions
  <2>2. /\ X \in AdminState /\ X.op = rec.op /\ X.grant = rec.grant /\ X.machine = rec.machine
        /\ X.rows = rec.rows /\ X.saw = rec.saw /\ X.pc = "audit" /\ X.ended = rec.ended
    BY DEF AdminState
  <2> HIDE DEF X
  <2>3. admin' \in [Admins -> AdminState] /\ admin'[a] = X /\ \A b \in Admins \ {a} : admin'[b] = admin[b]
    BY <1>2, <2>1, <2>2
  <2>4. ~AdminRevokeTokens(a)
    BY <2>1 DEF AdminRevokeTokens
  <2> QED
    BY <1>1, <2>1, <2>2, <2>3, <2>4
<1> QED
  BY <1>3, <1>4

\* A statement that revokes waits for the refreshes that hold its tokens.
LEMMA RevokingIInv ==
    ASSUME IInv, NEW a \in Admins, AdminRevokeTokens(a) \/ AdminRevokeSessions(a)
    PROVE  IInv'
<1>1. /\ admin' \in [Admins -> AdminState]
      /\ \A b \in Admins \ {a} : admin'[b] = admin[b]
      /\ admin'[a].op = admin[a].op /\ admin'[a].rows = admin[a].rows /\ admin'[a].saw = admin[a].saw
      /\ UNCHANGED <<grant, device, blacklist, session, token, request, adminOps>>
  BY RevokingStep
<1>2. TypeOK' /\ WritersOfDevices'
  BY <1>1 DEF IInv, TypeOK, WritersOfDevices
<1>3. \A t \in Requests : Marked(t) /\ t \in admin[a].saw => ~AdminRevokeTokens(a)
  BY DEF AdminRevokeTokens
<1>4. AdminRevokeSessions(a) => admin[a].pc = "sessions"
  BY DEF AdminRevokeSessions
<1>5. LocksExclude'
  BY <1>1, <1>3, <1>4 DEF IInv, LocksExclude, Marked, TokenLocked
<1> QED
  BY <1>1, <1>2, <1>5 DEF IInv, OneLiveToken, Live, NothingIssuedYet, MarkedIsLive, OneMarker,
     FoundDeviceExists

\* The rows a back-office transaction writes are rows, and a device that exists
\* still exists.
LEMMA WrittenDevices ==
    ASSUME IInv, NEW op \in DeviceOps \cup {"reset"}, NEW g \in Grants, NEW x \in Machines
    PROVE  /\ NewDeviceRow(op, g, x) \in DeviceRow
           /\ device[x].status /= "none" => NewDeviceRow(op, g, x).status /= "none"
<1>1. PICK row \in DeviceRow : row = device[x]
  BY DEF IInv, TypeOK
<1>2. NewDeviceRow(op, g, x) \in
        {[row EXCEPT !.status = st] : st \in {"active", "unbound", "blacklisted"}}
        \cup {[row EXCEPT !.grant = NoGrant]}
  BY <1>1 DEF NewDeviceRow, DeviceOps, Grants
<1>3. ASSUME NEW st \in {"active", "unbound", "blacklisted"},
             NewDeviceRow(op, g, x) = [row EXCEPT !.status = st]
      PROVE  NewDeviceRow(op, g, x) \in DeviceRow /\ NewDeviceRow(op, g, x).status = st
  BY <1>3 DEF DeviceRow
<1>4. CASE NewDeviceRow(op, g, x) = [row EXCEPT !.grant = NoGrant]
  BY <1>1, <1>4 DEF DeviceRow
<1> QED
  BY <1>2, <1>3, <1>4

\* A commit of the back office revokes tokens and sessions, but no token that a
\* refresh has marked.
LEMMA AdminCommitIInv ==
    ASSUME IInv, NEW a \in Admins, AdminCommit(a)
    PROVE  IInv'
<1> DEFINE op == admin[a].op
           g  == admin[a].grant
           m  == admin[a].machine
<1>1. /\ op \in DeviceOps \cup StatusOps \cup {"none", "reset"}
      /\ g \in Grants /\ m \in Machines /\ admin[a].rows \subseteq Machines
  BY DEF IInv, TypeOK, AdminState
<1>2. /\ device' \in [Machines -> DeviceRow]
      /\ \A x \in Machines : device[x].status /= "none" => device'[x].status /= "none"
  <2>1. device' = [x \in Machines |-> IF x \in admin[a].rows THEN NewDeviceRow(op, g, x)
                                      ELSE device[x]]
    BY DEF AdminCommit, Written
  <2>2. admin[a].rows /= {} => op \in DeviceOps \cup {"reset"}
    BY DEF IInv, WritersOfDevices
  <2>3. device \in [Machines -> DeviceRow]
    BY DEF IInv, TypeOK
  <2>4. \A x \in Machines : /\ device'[x] \in DeviceRow
                            /\ device[x].status /= "none" => device'[x].status /= "none"
    <3> SUFFICES ASSUME NEW x \in Machines
                 PROVE  /\ device'[x] \in DeviceRow
                        /\ device[x].status /= "none" => device'[x].status /= "none"
      OBVIOUS
    <3>1. CASE x \in admin[a].rows
      <4>1. op \in DeviceOps \cup {"reset"} /\ device'[x] = NewDeviceRow(op, g, x)
        BY <2>1, <2>2, <3>1
      <4> QED
        BY <1>1, <4>1, WrittenDevices
    <3>2. CASE x \notin admin[a].rows
      BY <2>1, <2>3, <3>2
    <3> QED
      BY <3>1, <3>2
  <2> QED
    BY <2>1, <2>4
<1>3. grant' \in [Grants -> GrantRow]
  <2>1. grant \in [Grants -> GrantRow]
    BY DEF IInv, TypeOK
  <2>2. op \in StatusOps => NewGrantRow(op, g) \in GrantRow
    BY <1>1, <2>1 DEF NewGrantRow, GrantRow, StatusOf, StatusOps
  <2>3. grant' = IF op \in StatusOps THEN [grant EXCEPT ![g] = NewGrantRow(op, g)] ELSE grant
    BY DEF AdminCommit
  <2> QED
    BY <1>1, <2>1, <2>2, <2>3
<1>4. /\ token' \in [Requests -> TokenRow]
      /\ \A t \in Requests : /\ token'[t].issued = token[t].issued
                             /\ token'[t].session = token[t].session
                             /\ Live(t)' => Live(t)
                             /\ Marked(t) => token'[t] = token[t]
  <2>1. token' = [t \in Requests |-> IF t \in admin[a].saw
                                     THEN [token[t] EXCEPT !.revoked = TRUE] ELSE token[t]]
    BY DEF AdminCommit
  <2>2. \A t \in Requests : t \in admin[a].saw => ~Marked(t)
    BY DEF AdminCommit, IInv, LocksExclude, TokenLocked
  <2> SUFFICES ASSUME NEW t \in Requests
               PROVE  /\ token'[t] \in TokenRow
                      /\ token'[t].issued = token[t].issued
                      /\ token'[t].session = token[t].session
                      /\ Live(t)' => Live(t)
                      /\ Marked(t) => token'[t] = token[t]
    BY <2>1
  <2>3. PICK row \in TokenRow : row = token[t]
    BY DEF IInv, TypeOK
  <2>4. CASE t \in admin[a].saw
    <3>1. token'[t] = [row EXCEPT !.revoked = TRUE]
      BY <2>1, <2>3, <2>4
    <3> QED
      BY <2>2, <2>3, <2>4, <3>1, TokenRows DEF Live
  <2>5. CASE t \notin admin[a].saw
    BY <2>1, <2>3, <2>5 DEF Live
  <2> QED
    BY <2>4, <2>5
<1>5. /\ session' \in [Requests -> SessionRow]
      /\ \A s \in Requests : /\ session'[s].open = session[s].open
                             /\ session'[s].device = session[s].device
  <2>1. session' = [s \in Requests |-> IF s \in admin[a].ended
                                       THEN [session[s] EXCEPT !.revoked = TRUE]
                                       ELSE session[s]]
    BY DEF AdminCommit
  <2> SUFFICES ASSUME NEW s \in Requests
               PROVE  /\ session'[s] \in SessionRow
                      /\ session'[s].open = session[s].open
                      /\ session'[s].device = session[s].device
    BY <2>1
  <2>2. PICK row \in SessionRow : row = session[s]
    BY DEF IInv, TypeOK
  <2>3. session'[s] \in {row, [row EXCEPT !.revoked = TRUE]}
    BY <2>1, <2>2
  <2> QED
    BY <2>2, <2>3, SessionRows
<1>6. /\ admin' \in [Admins -> AdminState] /\ WritersOfDevices'
      /\ \A t \in Requests : TokenLocked(t)' => TokenLocked(t)
      /\ UNCHANGED <<request, adminOps>> /\ blacklist' \subseteq Machines
  BY <1>1, AdminEnds DEF AdminCommit, IInv, TypeOK
<1>7. TypeOK'
  BY <1>2, <1>3, <1>4, <1>5, <1>6 DEF IInv, TypeOK, SessionRow, TokenRow
<1>8. OneLiveToken' /\ NothingIssuedYet'
  BY <1>4, <1>5, <1>6 DEF IInv, OneLiveToken, NothingIssuedYet
<1>9. MarkedIsLive' /\ OneMarker'
  BY <1>4, <1>6 DEF IInv, TypeOK, RequestState, MarkedIsLive, OneMarker, Marked, Live
<1>10. FoundDeviceExists'
  BY <1>2, <1>6 DEF IInv, TypeOK, RequestState, FoundDeviceExists
<1>11. LocksExclude'
  BY <1>6 DEF IInv, LocksExclude, Marked
<1> QED
  BY <1>6, <1>7, <1>8, <1>9, <1>10, <1>11 DEF IInv

\* Every step keeps the invariant.
LEMMA NextIInv == IInv /\ [Next]_vars => IInv'
<1> SUFFICES ASSUME IInv, [Next]_vars PROVE IInv'
  OBVIOUS
<1>1. ASSUME NEW r \in Requests, RequestNext(r) PROVE IInv'
  BY <1>1, BeginBindIInv, BindCheckIInv, BindCommitIInv, RefreshReadIInv, RefreshMarkIInv,
     RefreshCommitIInv, RefreshRevokeIInv, StopIInv, LogoutIInv DEF RequestNext
<1>2. ASSUME NEW a \in Admins, AdminNext(a) PROVE IInv'
  <2>1. ASSUME NEW m \in Machines,
               UnbindDevice(a, m) \/ BlacklistDevice(a, m) \/ UnblacklistDevice(a, m)
        PROVE  IInv'
    <3>1. AnyGrant \in Grants
      BY Defaults
    <3>2. PICK op \in DeviceOps, hit \in BOOLEAN : AdminBegin(a, op, m, AnyGrant, hit)
      BY <2>1 DEF UnbindDevice, BlacklistDevice, UnblacklistDevice, DeviceOps
    <3> QED
      BY <3>1, <3>2, AdminBeginIInv
  <2>2. ASSUME NEW g \in Grants, NEW op \in StatusOps \cup {"reset"},
               AdminBegin(a, op, AnyMachine, g, FALSE)
        PROVE  IInv'
    BY <2>2, AdminBeginIInv, Defaults
  <2>3. ASSUME NEW l \in Licenses,
               \/ RevokeLicense(a, l) \/ SuspendLicense(a, l)
               \/ RenewLicense(a, l)  \/ ResetLicenseDevices(a, l)
        PROVE  IInv'
    BY <2>2, <2>3 DEF RevokeLicense, SuspendLicense, RenewLicense, ResetLicenseDevices,
       StatusOps, Grants
  <2>4. ASSUME NEW s \in Subscriptions,
               \/ CancelSubscription(a, s) \/ RenewSubscription(a, s)
               \/ \E op \in {"suspend", "resume"} : SuspendOrResumeSubscription(a, op, s)
               \/ ResetSubscriptionDevices(a, s)
        PROVE  IInv'
    BY <2>2, <2>4 DEF CancelSubscription, RenewSubscription, SuspendOrResumeSubscription,
       ResetSubscriptionDevices, StatusOps, Grants
  <2> QED
    BY <1>2, <2>1, <2>3, <2>4, AdminWriteIInv, RevokingIInv, AdminCommitIInv, AdminStopIInv
       DEF AdminNext
<1>3. ASSUME NEW g \in Grants, Expire(g) PROVE IInv'
  BY <1>3, ExpireIInv
<1>4. CASE UNCHANGED vars
  BY <1>4 DEF vars, IInv, TypeOK, OneLiveToken, Live, NothingIssuedYet, MarkedIsLive,
     OneMarker, FoundDeviceExists, WritersOfDevices, LocksExclude, Marked, TokenLocked
<1> QED
  BY <1>1, <1>2, <1>3, <1>4 DEF Next

\* Licences, subscriptions, devices, sessions and refresh tokens keep their
\* types, every token belongs to a session that was opened and every session to
\* a device that was registered, whatever requests and back-office transactions
\* overlap.
THEOREM TypesAndForeignKeys == Spec => []TypeOK
<1>1. IInv => TypeOK
  BY DEF IInv
<1> QED
  BY <1>1, InitIInv, NextIInv, PTL DEF Spec

\* A session never has two refresh tokens that can still be exchanged: the
\* rotation in refresh.rs and mark_refresh_token_used_in_transaction is safe for
\* any number of concurrent refreshes, stops, logouts and revocations.
THEOREM RotationIsExclusive == Spec => []OneLiveToken
<1>1. IInv => OneLiveToken
  BY DEF IInv
<1> QED
  BY <1>1, InitIInv, NextIInv, PTL DEF Spec

-----------------------------------------------------------------------------
(***************************************************************************)
(* A cancelled subscription stays cancelled.                               *)
(***************************************************************************)

Writes(a) == admin[a].pc \in {"tokens", "sessions", "audit"}

WritesStatus(a) == Writes(a) /\ admin[a].op \in StatusOps

\* The row lock of a licence or subscription: until its writer commits or is
\* rolled back, the row is the one its where clause matched.
StatusWriters ==
    \A a \in Admins : WritesStatus(a) =>
        /\ StatusMatches(admin[a].op, admin[a].grant)
        /\ \A b \in Admins : WritesStatus(b) /\ admin[b].grant = admin[a].grant => b = a

\* A step that neither starts a writer nor changes a status keeps the locks.
LEMMA NoNewWriter ==
    ASSUME StatusWriters,
           \A g \in Grants : grant'[g].status = grant[g].status,
           admin \in [Admins -> AdminState],
           \A a \in Admins : WritesStatus(a)' =>
             WritesStatus(a) /\ admin'[a].op = admin[a].op /\ admin'[a].grant = admin[a].grant
    PROVE  StatusWriters'
<1> SUFFICES ASSUME NEW a \in Admins, WritesStatus(a)'
             PROVE  /\ StatusMatches(admin[a].op, admin[a].grant)'
                    /\ \A b \in Admins : WritesStatus(b)' /\ admin'[b].grant = admin'[a].grant
                                         => b = a
  BY DEF StatusWriters
<1>1. /\ admin[a].grant \in Grants /\ WritesStatus(a)
      /\ admin'[a].op = admin[a].op /\ admin'[a].grant = admin[a].grant
  BY DEF AdminState
<1>2. StatusMatches(admin[a].op, admin[a].grant)
  BY <1>1 DEF StatusWriters
<1> QED
  BY <1>1, <1>2 DEF StatusWriters, StatusMatches

\* A transaction that ends, its status unchanged, keeps the others' locks.
LEMMA EndsLocks ==
    ASSUME IInv, StatusWriters, NEW a \in Admins,
           \A g \in Grants : grant'[g].status = grant[g].status,
           admin' = [admin EXCEPT ![a] = NoAdmin]
    PROVE  StatusWriters'
<1>1. admin \in [Admins -> AdminState]
  BY DEF IInv, TypeOK
<1>2. NoAdmin.pc = "idle"
  BY DEF NoAdmin
<1> HIDE DEF NoAdmin
<1>3. \A b \in Admins : WritesStatus(b)' => WritesStatus(b) /\ admin'[b] = admin[b]
  BY <1>1, <1>2 DEF WritesStatus, Writes
<1> QED
  BY <1>1, <1>3, NoNewWriter

\* A transaction that takes the row lock finds no other writer of the row, and
\* its where clause matches.
LEMMA AdminWriteLocks ==
    ASSUME IInv, StatusWriters, NEW a \in Admins, AdminWrite(a)
    PROVE  StatusWriters'
<1>1. admin \in [Admins -> AdminState] /\ grant' = grant
  BY DEF IInv, TypeOK, AdminWrite
<1>2. CASE admin' = [admin EXCEPT ![a] = NoAdmin]
  <2>1. \A g \in Grants : grant'[g].status = grant[g].status
    BY <1>1
  <2> QED
    BY <1>2, <2>1, EndsLocks
<1>3. CASE admin' /= [admin EXCEPT ![a] = NoAdmin]
  <2>1. PICK rec \in AdminState : rec = admin[a]
    BY <1>1
  <2>2. PICK rows \in SUBSET Machines, saw \in SUBSET Requests, pc \in {"tokens", "audit"} :
          /\ admin[a].op \in StatusOps => StatusMatches(admin[a].op, admin[a].grant)
          /\ admin' = [admin EXCEPT ![a] = [@ EXCEPT !.pc = pc, !.rows = rows, !.saw = saw]]
    BY <1>3, WriteGoesOn, Zenon
  <2> DEFINE X == [rec EXCEPT !.pc = pc, !.rows = rows, !.saw = saw]
  <2>3. X.op = rec.op /\ X.grant = rec.grant
    BY DEF AdminState
  <2>4. admin' = [admin EXCEPT ![a] = X]
    BY <2>1, <2>2
  <2> HIDE DEF X
  <2>5. /\ admin'[a].op = admin[a].op /\ admin'[a].grant = admin[a].grant
        /\ \A b \in Admins \ {a} : admin'[b] = admin[b]
    BY <1>1, <2>1, <2>3, <2>4
  <2>6. admin[a].op \in StatusOps =>
          \A b \in Admins : ~(WritesStatus(b) /\ admin[b].grant = admin[a].grant)
    BY DEF AdminWrite, WritesStatus, Writes
  <2>7. admin[a].op \in StatusOps => StatusMatches(admin[a].op, admin[a].grant)
    BY <2>2
  <2>8. ASSUME NEW b \in Admins, WritesStatus(b)'
        PROVE  /\ StatusMatches(admin[b].op, admin[b].grant)'
               /\ \A c \in Admins : WritesStatus(c)' /\ admin'[c].grant = admin'[b].grant
                                    => c = b
    <3>1. b /= a => WritesStatus(b) /\ StatusMatches(admin[b].op, admin[b].grant)
      BY <2>5, <2>8 DEF WritesStatus, Writes, StatusWriters
    <3>2. StatusMatches(admin[b].op, admin[b].grant)
      BY <2>5, <2>7, <2>8, <3>1 DEF WritesStatus, Writes
    <3>3. StatusMatches(admin[b].op, admin[b].grant)'
      BY <1>1, <2>5, <3>2 DEF StatusMatches
    <3>4. \A c \in Admins : WritesStatus(c)' /\ admin'[c].grant = admin'[b].grant => c = b
      BY <2>5, <2>6, <2>8, <3>1 DEF WritesStatus, Writes, StatusWriters
    <3> QED
      BY <3>3, <3>4
  <2> QED
    BY <2>8 DEF StatusWriters
<1> QED
  BY <1>2, <1>3

\* A commit changes the row its writer has locked and no other.
LEMMA AdminCommitLocks ==
    ASSUME IInv, StatusWriters, NEW a \in Admins, AdminCommit(a)
    PROVE  /\ StatusWriters'
           /\ \A s \in Subscriptions : grant[s].status = "cancelled" => grant'[s] = grant[s]
<1>1. /\ admin \in [Admins -> AdminState] /\ grant \in [Grants -> GrantRow]
      /\ admin' = [admin EXCEPT ![a] = NoAdmin]
      /\ admin[a].grant \in Grants
  BY DEF IInv, TypeOK, AdminCommit, AdminState
<1>2. \A b \in Admins : WritesStatus(b)' => b /= a /\ WritesStatus(b) /\ admin'[b] = admin[b]
  <2>1. NoAdmin.pc = "idle"
    BY DEF NoAdmin
  <2> HIDE DEF NoAdmin
  <2> QED
    BY <1>1, <2>1 DEF WritesStatus, Writes
<1>3. CASE admin[a].op \notin StatusOps
  <2>1. grant' = grant
    BY <1>3 DEF AdminCommit
  <2> QED
    BY <1>1, <2>1, EndsLocks
<1>4. CASE admin[a].op \in StatusOps
  <2>1. WritesStatus(a)
    BY <1>4 DEF AdminCommit, WritesStatus, Writes
  <2>2. grant' = [grant EXCEPT ![admin[a].grant] = NewGrantRow(admin[a].op, admin[a].grant)]
    BY <1>4 DEF AdminCommit
  <2>3. \A g \in Grants \ {admin[a].grant} : grant'[g] = grant[g]
    BY <1>1, <2>2
  <2>4. \A s \in Subscriptions : grant[s].status = "cancelled" => grant'[s] = grant[s]
    <3>1. admin[a].grant \in Subscriptions => grant[admin[a].grant].status /= "cancelled"
      BY <2>1 DEF StatusWriters, StatusMatches
    <3> QED
      BY <2>3, <3>1 DEF Grants
  <2>5. ASSUME NEW b \in Admins, WritesStatus(b)'
        PROVE  /\ StatusMatches(admin[b].op, admin[b].grant)'
               /\ \A c \in Admins : WritesStatus(c)' /\ admin'[c].grant = admin'[b].grant
                                    => c = b
    <3>1. WritesStatus(b) /\ admin'[b] = admin[b] /\ b /= a
      BY <1>2, <2>5
    <3>2. admin[b].grant \in Grants /\ admin[b].grant /= admin[a].grant
      BY <1>1, <2>1, <3>1 DEF StatusWriters, AdminState
    <3>3. StatusMatches(admin[b].op, admin[b].grant)
      BY <3>1 DEF StatusWriters
    <3>4. StatusMatches(admin[b].op, admin[b].grant)'
      BY <2>3, <3>1, <3>2, <3>3 DEF StatusMatches
    <3>5. \A c \in Admins : WritesStatus(c)' /\ admin'[c].grant = admin'[b].grant => c = b
      BY <1>2, <3>1 DEF StatusWriters
    <3> QED
      BY <3>4, <3>5
  <2> QED
    BY <2>4, <2>5 DEF StatusWriters
<1> QED
  BY <1>3, <1>4

\* The database clock changes no status.
LEMMA ExpireLocks ==
    ASSUME IInv, StatusWriters, NEW g \in Grants, Expire(g)
    PROVE  StatusWriters' /\ \A s \in Grants : grant'[s].status = grant[s].status
<1>1. PICK row \in GrantRow : row = grant[g]
  BY DEF IInv, TypeOK
<1>2. [row EXCEPT !.expired = TRUE].status = row.status
  BY DEF GrantRow
<1>3. grant' = [grant EXCEPT ![g] = [row EXCEPT !.expired = TRUE]]
  BY <1>1 DEF Expire
<1>4. \A s \in Grants : grant'[s].status = grant[s].status
  BY <1>1, <1>2, <1>3 DEF IInv, TypeOK
<1>5. admin' = admin /\ admin \in [Admins -> AdminState]
  BY DEF Expire, IInv, TypeOK
<1>6. \A a \in Admins : WritesStatus(a)' =>
        WritesStatus(a) /\ admin'[a].op = admin[a].op /\ admin'[a].grant = admin[a].grant
  BY <1>5 DEF WritesStatus, Writes
<1> QED
  BY <1>4, <1>5, <1>6, NoNewWriter

\* Every step keeps the locks, and no step brings a cancelled subscription back.
LEMMA NextLocks ==
    ASSUME IInv, StatusWriters, [Next]_vars
    PROVE  /\ StatusWriters'
           /\ \A s \in Subscriptions : grant[s].status = "cancelled"
                                       => grant'[s].status = "cancelled"
<1>10. admin \in [Admins -> AdminState]
  BY DEF IInv, TypeOK
<1>11. CASE grant' = grant /\ admin' = admin
  <2>1. /\ \A g \in Grants : grant'[g].status = grant[g].status
        /\ \A a \in Admins : WritesStatus(a)' =>
             WritesStatus(a) /\ admin'[a].op = admin[a].op /\ admin'[a].grant = admin[a].grant
    BY <1>11 DEF WritesStatus, Writes
  <2>2. StatusWriters'
    BY <1>10, <2>1, NoNewWriter
  <2> QED
    BY <1>11, <2>2
<1>12. ASSUME NEW r \in Requests, RequestNext(r) PROVE grant' = grant /\ admin' = admin
  BY <1>12 DEF RequestNext, BeginBind, BindCheck, BindCommit, RefreshRead, RefreshMark,
     RefreshCommit, RefreshRevoke, Stop, Logout
<1>4. ASSUME NEW a \in Admins, NEW op, NEW m, NEW g, NEW hit, AdminBegin(a, op, m, g, hit)
      PROVE  StatusWriters' /\ grant' = grant
  <2>1. grant' = grant
    BY <1>4 DEF AdminBegin
  <2>2. \A b \in Admins : WritesStatus(b)' => WritesStatus(b) /\ admin'[b] = admin[b]
    BY <1>10, <1>4 DEF AdminBegin, WritesStatus, Writes
  <2> QED
    BY <1>10, <2>1, <2>2, NoNewWriter
<1>5. ASSUME NEW a \in Admins, AdminStop(a) PROVE StatusWriters' /\ grant' = grant
  BY <1>5, EndsLocks DEF AdminStop
<1>6. ASSUME NEW a \in Admins, AdminWrite(a) PROVE StatusWriters' /\ grant' = grant
  <2>1. grant' = grant
    BY <1>6 DEF AdminWrite
  <2> QED
    BY <1>6, <2>1, AdminWriteLocks
<1>7. ASSUME NEW a \in Admins, AdminRevokeTokens(a) \/ AdminRevokeSessions(a)
      PROVE  StatusWriters' /\ grant' = grant
  <2>1. /\ grant' = grant /\ \A b \in Admins \ {a} : admin'[b] = admin[b]
        /\ admin'[a].op = admin[a].op /\ admin'[a].grant = admin[a].grant
    BY <1>7, RevokingStep
  <2>2. Writes(a)
    BY <1>7 DEF AdminRevokeTokens, AdminRevokeSessions, Writes
  <2>3. \A b \in Admins : WritesStatus(b)' =>
          WritesStatus(b) /\ admin'[b].op = admin[b].op /\ admin'[b].grant = admin[b].grant
    BY <2>1, <2>2 DEF WritesStatus, Writes
  <2> QED
    BY <1>10, <2>1, <2>3, NoNewWriter
<1>8. ASSUME NEW a \in Admins, AdminNext(a)
      PROVE  /\ StatusWriters'
             /\ \A s \in Subscriptions : grant[s].status = "cancelled"
                                         => grant'[s].status = "cancelled"
  <2>1. \/ \E op, m, g, hit : AdminBegin(a, op, m, g, hit)
        \/ AdminWrite(a) \/ AdminRevokeTokens(a) \/ AdminRevokeSessions(a)
        \/ AdminCommit(a) \/ AdminStop(a)
    BY <1>8 DEF AdminNext, UnbindDevice, BlacklistDevice, UnblacklistDevice, RevokeLicense,
       SuspendLicense, RenewLicense, ResetLicenseDevices, CancelSubscription,
       SuspendOrResumeSubscription, RenewSubscription, ResetSubscriptionDevices
  <2> QED
    BY <1>4, <1>5, <1>6, <1>7, <2>1, AdminCommitLocks
<1>9. ASSUME NEW g \in Grants, Expire(g)
      PROVE  /\ StatusWriters'
             /\ \A s \in Subscriptions : grant[s].status = "cancelled"
                                         => grant'[s].status = "cancelled"
  BY <1>9, ExpireLocks DEF Grants
<1> QED
  BY <1>11, <1>12, <1>8, <1>9 DEF Next, vars

\* A cancelled subscription never becomes active or suspended again: the checks
\* that suspend_subscription, resume_subscription and renew_subscription make
\* before their transactions may be stale, the where clauses of their updates
\* are not.
THEOREM CancellationIsFinal == Spec => CancelledIsFinal
<1>10. Init => StatusWriters
  BY DEF Init, StatusWriters, WritesStatus, Writes, NoAdmin
<1>11. IInv /\ StatusWriters /\ [Next]_vars => StatusWriters'
  BY NextLocks
<1>12. IInv /\ StatusWriters /\ [Next]_vars =>
        [\A s \in Subscriptions : grant[s].status = "cancelled"
                                  => grant'[s].status = "cancelled"]_vars
  BY NextLocks
<1> QED
  BY <1>10, <1>11, <1>12, InitIInv, NextIInv, PTL DEF Spec, CancelledIsFinal

-----------------------------------------------------------------------------
(***************************************************************************)
(* A token that is presented again ends its session.                       *)
(***************************************************************************)

\* A refresh that has read its token, and what the answers say of it: a token
\* that was exchanged is used, the session of one that was reused is revoked.
Presented == {"rotating", "marked", "revoking", "rotated", "reused"}

AnswersHold(r) ==
    /\ request[r].pc \in Presented => token[request[r].token].issued
    /\ request[r].pc = "rotated" => token[request[r].token].used
    /\ request[r].pc = "reused" => session[token[request[r].token].session].revoked

OneExchange ==
    \A r, q \in Requests :
        /\ request[r].pc = "rotated" /\ request[q].pc = "rotated"
        /\ request[r].token = request[q].token
        => r = q

Answers == (\A r \in Requests : AnswersHold(r)) /\ OneExchange

-----------------------------------------------------------------------------
(***************************************************************************)
(* The row locks on devices.                                               *)
(***************************************************************************)

\* A transaction on devices writes the device it names, or those that were, and
\* as long as it holds their locks still are, bound to the licence or
\* subscription it resets.
RowsOf(a) ==
    /\ admin[a].op \in DeviceOps => admin[a].rows = {admin[a].machine}
    /\ admin[a].op = "reset" => \A x \in admin[a].rows : device[x].grant = admin[a].grant

DeviceWriters ==
    /\ \A a \in Admins : Writes(a) => RowsOf(a)
    /\ \A a, b \in Admins : Writes(a) /\ Writes(b) /\ admin[a].rows \cap admin[b].rows /= {} => a = b
    /\ \A m \in Machines : device[m].status = "none" => device[m].grant = NoGrant

\* A session in use whose login was not overtaken is on an active device, and
\* the transaction that is about to take the device away has found it.
InUse(s) == session[s].open /\ ~session[s].revoked /\ ~session[s].overtaken

UsedDevicesActive == \A s \in Requests : InUse(s) => device[session[s].device].status = "active"

FoundBy(a) ==
    \A s \in Requests : InUse(s) /\ session[s].device \in admin[a].rows => s \in admin[a].ended

SessionsFound ==
    \A a \in Admins : TakesDevices(a) /\ admin[a].pc \in {"sessions", "audit"} => FoundBy(a)

AccessInv == UsedDevicesActive /\ SessionsFound

AInv == Answers /\ DeviceWriters /\ BlacklistedIsListed /\ AccessInv

\* A session that has been revoked stays revoked.
StaysRevoked ==
    \A s \in Requests : session[s].open /\ session[s].revoked => session'[s].revoked

\* Tokens that were issued stay with their sessions and stay used, sessions stay
\* revoked.
Grown ==
    /\ \A t \in Requests : token[t].issued =>
         /\ token'[t].issued /\ token'[t].session = token[t].session
         /\ token[t].used => token'[t].used
    /\ \A s \in Requests : session[s].open /\ session[s].revoked => session'[s].revoked

\* A step of one request, or of none, keeps what the others were answered.
LEMMA AnswersKept ==
    ASSUME IInv, Answers, Grown, NEW r \in Requests,
           \A q \in Requests \ {r} : request'[q] = request[q],
           request'[r] = request[r] \/ AnswersHold(r)',
           request'[r].pc = "rotated" =>
             request'[r] = request[r] \/ ~token[request'[r].token].used
    PROVE  Answers'
<1>1. ASSUME NEW q \in Requests, request'[q] = request[q] PROVE AnswersHold(q)'
  <2>1. PICK t \in Requests : t = request[q].token
    BY DEF IInv, TypeOK, RequestState
  <2>2. token[t].session \in Requests /\ (token[t].issued => session[token[t].session].open)
    BY DEF IInv, TypeOK, TokenRow
  <2>3. AnswersHold(q)
    BY DEF Answers
  <2> QED
    BY <1>1, <2>1, <2>2, <2>3 DEF Grown, AnswersHold, Presented
<1>2. \A q \in Requests : AnswersHold(q)'
  BY <1>1
<1>3. OneExchange'
  <2>1. \A q \in Requests : request[q].pc = "rotated" => token[request[q].token].used
    BY DEF Answers, AnswersHold
  <2> QED
    BY <2>1 DEF Answers, OneExchange
<1> QED
  BY <1>2, <1>3 DEF Answers

\* A step that leaves the tables and the back office alone.
LEMMA TablesStay ==
    ASSUME AInv, UNCHANGED <<device, blacklist, session, token, admin>>
    PROVE  DeviceWriters' /\ BlacklistedIsListed' /\ AccessInv' /\ StaysRevoked /\ Grown
<1>1. device' = device /\ blacklist' = blacklist /\ session' = session /\ token' = token /\ admin' = admin
  OBVIOUS
<1>2. DeviceWriters' /\ BlacklistedIsListed'
  BY <1>1 DEF AInv, DeviceWriters, Writes, RowsOf, BlacklistedIsListed
<1>3. StaysRevoked /\ Grown
  BY <1>1 DEF StaysRevoked, Grown
<1>4. AccessInv'
  BY <1>1 DEF AInv, AccessInv, UsedDevicesActive, SessionsFound, FoundBy, InUse, TakesDevices
<1> QED
  BY <1>2, <1>3, <1>4

\* The reads and the checks of a request.
LEMMA RequestReadKeeps ==
    ASSUME IInv, AInv, NEW r \in Requests,
           BeginBind(r) \/ BindCheck(r) \/ RefreshRead(r) \/ RefreshMark(r) \/ Stop(r)
    PROVE  AInv' /\ StaysRevoked
<1>1. UNCHANGED <<device, blacklist, session, token, admin>> /\ token' = token
  BY DEF BeginBind, BindCheck, RefreshRead, RefreshMark, Stop
<1>2. DeviceWriters' /\ BlacklistedIsListed' /\ AccessInv' /\ StaysRevoked /\ Grown
  BY <1>1, TablesStay
<1>3. request \in [Requests -> RequestState] /\ \A q \in Requests \ {r} : request'[q] = request[q]
  BY DEF BeginBind, BindCheck, RefreshRead, RefreshMark, Stop, Goto, IInv, TypeOK
<1>4. CASE BeginBind(r)
  <2>1. request'[r].pc = "binding"
    BY <1>3, <1>4 DEF BeginBind
  <2> QED
    BY <1>2, <1>3, <2>1, AnswersKept DEF AInv, AnswersHold, Presented
<1>5. CASE BindCheck(r)
  <2>1. PICK rec \in RequestState : rec = request[r]
    BY <1>3
  <2> DEFINE plan == BindPlan(request[r].machine, request[r].grant)
  <2>2. PICK pc \in {"ended", "writing"} :
          request' = [request EXCEPT ![r] = [rec EXCEPT !.pc = pc, !.plan = plan]]
    BY <1>5, <2>1 DEF BindCheck
  <2> HIDE DEF plan
  <2>3. [rec EXCEPT !.pc = pc, !.plan = plan].pc = pc
    BY DEF RequestState
  <2>4. request'[r].pc = pc
    BY <1>3, <2>2, <2>3
  <2> QED
    BY <1>2, <1>3, <2>4, AnswersKept DEF AInv, AnswersHold, Presented
<1>6. CASE RefreshRead(r)
  <2>1. PICK rec \in RequestState : rec = request[r]
    BY <1>3
  <2>2. PICK t \in Requests, pc \in {"revoking", "rotating", "ended"} :
          token[t].issued /\ request' = [request EXCEPT ![r].token = t, ![r].pc = pc]
    BY <1>6 DEF RefreshRead
  <2> DEFINE X == [rec EXCEPT !.token = t, !.pc = pc]
  <2>3. X.pc = pc /\ X.token = t
    BY DEF RequestState
  <2>4. request' = [request EXCEPT ![r] = X]
    BY <2>1, <2>2
  <2> HIDE DEF X
  <2>5. request'[r].pc = pc /\ request'[r].token = t
    BY <1>3, <2>3, <2>4
  <2> QED
    BY <1>1, <1>2, <1>3, <2>2, <2>5, AnswersKept DEF AInv, AnswersHold, Presented
<1>7. CASE RefreshMark(r)
  <2>1. PICK pc \in {"marked", "revoking"} : Goto(r, pc)
    BY <1>7 DEF RefreshMark
  <2>2. request'[r].pc = pc /\ request'[r].token = request[r].token
    BY <2>1, GotoStep
  <2>3. token[request[r].token].issued
    BY <1>7 DEF RefreshMark, AInv, Answers, AnswersHold, Presented
  <2> QED
    BY <1>1, <1>2, <1>3, <2>2, <2>3, AnswersKept DEF AInv, AnswersHold, Presented
<1>8. CASE Stop(r)
  <2>1. request'[r].pc = "ended"
    BY <1>8, GotoStep DEF Stop
  <2> QED
    BY <1>2, <1>3, <2>1, AnswersKept DEF AInv, AnswersHold, Presented
<1> QED
  BY <1>4, <1>5, <1>6, <1>7, <1>8, <1>2 DEF AInv

\* A device that is bound: nobody who holds its lock counts on its old row.
LEMMA BindDevices ==
    ASSUME IInv, AInv, NEW r \in Requests, BindCommit(r)
    PROVE  /\ DeviceWriters' /\ BlacklistedIsListed'
           /\ \A x \in Machines : device[x].status = "active" => device'[x].status = "active"
<1>1. PICK m \in Machines, g \in Grants \cup {NoGrant} :
        m = request[r].machine /\ g = request[r].grant
  BY DEF IInv, TypeOK, RequestState
<1>2. admin' = admin /\ blacklist' = blacklist /\ device \in [Machines -> DeviceRow]
  BY DEF BindCommit, IInv, TypeOK
<1>3. CASE device' = device
  BY <1>2, <1>3 DEF AInv, DeviceWriters, Writes, RowsOf, BlacklistedIsListed
<1>4. ASSUME NEW row, device' = [device EXCEPT ![m] = row],
             row.status \notin {"none", "blacklisted"} \/ row.status = device[m].status,
             row.status = "none" => row.grant = NoGrant,
             device[m].status = "active" => row.status = "active",
             \A a \in Admins : Writes(a) /\ admin[a].op = "reset" => m \notin admin[a].rows
      PROVE  /\ DeviceWriters' /\ BlacklistedIsListed'
             /\ \A x \in Machines : device[x].status = "active" => device'[x].status = "active"
  <2>1. device'[m] = row /\ \A x \in Machines \ {m} : device'[x] = device[x]
    BY <1>2, <1>4
  <2>2. \A a \in Admins : admin[a].rows \subseteq Machines
    BY DEF IInv, TypeOK, AdminState
  <2>3. \A a \in Admins : Writes(a)' => RowsOf(a)'
    BY <1>2, <1>4, <2>1, <2>2 DEF AInv, DeviceWriters, Writes, RowsOf
  <2>4. DeviceWriters'
    BY <1>2, <1>4, <2>1, <2>3 DEF AInv, DeviceWriters, Writes
  <2>5. BlacklistedIsListed'
    BY <1>2, <1>4, <2>1 DEF AInv, BlacklistedIsListed
  <2> QED
    BY <1>4, <2>1, <2>4, <2>5
<1>5. CASE device' = [device EXCEPT ![m].grant = g] /\ request[r].plan = "rebind" /\ ~DeviceLocked(m)
  <2>1. PICK old \in DeviceRow : old = device[m]
    BY <1>2
  <2> DEFINE row == [old EXCEPT !.grant = g]
  <2>2. row.status = old.status /\ device' = [device EXCEPT ![m] = row]
    BY <1>5, <2>1 DEF DeviceRow
  <2> HIDE DEF row
  <2>3. old.status /= "none"
    BY <1>1, <1>5, <2>1 DEF IInv, FoundDeviceExists, BindCommit
  <2>4. \A a \in Admins : Writes(a) => m \notin admin[a].rows
    BY <1>5 DEF DeviceLocked, Writes
  <2> QED
    BY <1>4, <2>1, <2>2, <2>3, <2>4
<1>6. CASE device' = [device EXCEPT ![m] = [status |-> "active", grant |-> g]] /\ device[m].status = "none"
  <2>1. device[m].grant = NoGrant
    BY <1>6 DEF AInv, DeviceWriters
  <2>2. \A a \in Admins : Writes(a) /\ admin[a].op = "reset" => m \notin admin[a].rows
    BY <2>1, AccessAssumption DEF AInv, DeviceWriters, RowsOf, IInv, TypeOK, AdminState
  <2>3. PICK row : row = [status |-> "active", grant |-> g]
    OBVIOUS
  <2>4. row.status = "active" /\ device' = [device EXCEPT ![m] = row]
    BY <1>6, <2>3
  <2> QED
    BY <1>4, <1>6, <2>2, <2>4
<1> QED
  BY <1>1, <1>3, <1>5, <1>6 DEF BindCommit

LEMMA BindCommitKeeps ==
    ASSUME IInv, AInv, NEW r \in Requests, BindCommit(r)
    PROVE  AInv' /\ StaysRevoked
<1>1. /\ DeviceWriters' /\ BlacklistedIsListed'
      /\ \A x \in Machines : device[x].status = "active" => device'[x].status = "active"
  BY BindDevices
<1>2. /\ request[r].pc = "writing" /\ ~token[r].issued /\ ~session[r].open
  BY DEF IInv, BindCommit, NothingIssuedYet, Unanswered
<1>3. /\ \A t \in Requests \ {r} : token'[t] = token[t]
      /\ \A s \in Requests \ {r} : session'[s] = session[s]
  BY DEF BindCommit, OpenSession, IInv, TypeOK
<1>4. Grown
  BY <1>2, <1>3 DEF Grown
<1>5. StaysRevoked
  BY <1>2, <1>3 DEF StaysRevoked
<1>6. PICK m \in Machines : m = request[r].machine
  BY DEF IInv, TypeOK, RequestState
<1>7. InUse(r)' => ~Looked(m) /\ session'[r].device = m /\ device'[m].status = "active"
  <2>1. CASE UNCHANGED <<device, session, token>>
    BY <1>2, <2>1 DEF InUse
  <2>2. CASE OpenSession(r, m)
    <3>1. PICK late \in BOOLEAN : late = Overtaken(m)
      BY DEF Overtaken
    <3>2. session'[r] = [open |-> TRUE, device |-> m, revoked |-> FALSE, overtaken |-> late]
      BY <2>2, <3>1 DEF OpenSession, IInv, TypeOK
    <3>3. session'[r].device = m /\ session'[r].overtaken = late
      BY <3>2
    <3>4. ~late => ~Looked(m) /\ device[m].status \notin {"unbound", "blacklisted"}
      BY <3>1 DEF Overtaken
    <3>5. device[m].status \in {"none", "active", "unbound", "blacklisted"}
      BY DEF IInv, TypeOK, DeviceRow
    <3>6. device[m].status = "none" => device'[m].status = "active"
      BY <1>2, <1>6 DEF BindCommit, IInv, FoundDeviceExists, TypeOK
    <3> QED
      BY <1>1, <3>3, <3>4, <3>5, <3>6 DEF InUse
  <2> QED
    BY <1>6, <2>1, <2>2 DEF BindCommit
<1>8. AccessInv'
  <2>1. admin' = admin /\ \A s \in Requests : session[s].device \in Machines
    BY DEF BindCommit, IInv, TypeOK, SessionRow
  <2>2. UsedDevicesActive'
    BY <1>1, <1>3, <1>7, <2>1 DEF AInv, AccessInv, UsedDevicesActive, InUse
  <2>3. SessionsFound'
    BY <1>3, <1>7, <2>1 DEF AInv, AccessInv, SessionsFound, FoundBy, InUse, TakesDevices, Looked
  <2> QED
    BY <2>2, <2>3 DEF AccessInv
<1>9. request'[r].pc = "ended" /\ \A q \in Requests \ {r} : request'[q] = request[q]
  BY GotoStep DEF BindCommit
<1>10. Answers'
  BY <1>4, <1>9, AnswersKept DEF AInv, AnswersHold, Presented
<1> QED
  BY <1>1, <1>5, <1>10, <1>8 DEF AInv

\* The exchange: the token was not used, so nobody else has exchanged it.
LEMMA RefreshCommitKeeps ==
    ASSUME IInv, AInv, NEW r \in Requests, RefreshCommit(r)
    PROVE  AInv' /\ StaysRevoked
<1>1. PICK t \in Requests : t = request[r].token
  BY DEF IInv, TypeOK, RequestState
<1>2. request[r].pc = "marked" /\ Live(t) /\ ~token[r].issued /\ t /= r
  BY <1>1 DEF IInv, RefreshCommit, NothingIssuedYet, MarkedIsLive, Live, Unanswered
<1>3. PICK old \in TokenRow : old = token[t]
  BY DEF IInv, TypeOK
<1>4. /\ \A u \in Requests \ {r, t} : token'[u] = token[u]
      /\ token'[t] = [old EXCEPT !.used = TRUE]
  BY <1>1, <1>2, <1>3 DEF RefreshCommit, IInv, TypeOK
<1>5. token'[t].used /\ token'[t].issued /\ token'[t].session = token[t].session
  BY <1>2, <1>3, <1>4, TokenRows DEF Live
<1>6. device' = device /\ blacklist' = blacklist /\ session' = session /\ admin' = admin
  BY DEF RefreshCommit
<1>7. Grown
  BY <1>2, <1>4, <1>5, <1>6 DEF Grown
<1>8. /\ request'[r].pc = "rotated" /\ request'[r].token = t
      /\ \A q \in Requests \ {r} : request'[q] = request[q]
  BY <1>1, GotoStep DEF RefreshCommit
<1>9. Answers'
  BY <1>2, <1>5, <1>7, <1>8, AnswersKept DEF AInv, AnswersHold, Presented, Live
<1>10. DeviceWriters' /\ BlacklistedIsListed' /\ StaysRevoked
  BY <1>6 DEF AInv, DeviceWriters, Writes, RowsOf, BlacklistedIsListed, StaysRevoked
<1>11. AccessInv'
  BY <1>6 DEF AInv, AccessInv, UsedDevicesActive, SessionsFound, FoundBy, InUse, TakesDevices
<1> QED
  BY <1>9, <1>10, <1>11 DEF AInv

\* A session is revoked, by its user or because its token was presented again.
LEMMA RevokedKeeps ==
    ASSUME IInv, AInv, NEW r \in Requests, RefreshRevoke(r) \/ Logout(r)
    PROVE  AInv' /\ StaysRevoked
<1>1. PICK s \in Requests :
        /\ session' = [session EXCEPT ![s].revoked = TRUE]
        /\ RefreshRevoke(r) => s = token[request[r].token].session
  BY DEF RefreshRevoke, Logout, RevokeSession, IInv, TypeOK, RequestState, TokenRow
<1>2. PICK old \in SessionRow : old = session[s]
  BY DEF IInv, TypeOK
<1>3. [old EXCEPT !.revoked = TRUE].revoked
  BY DEF SessionRow
<1>4. session'[s].revoked /\ \A q \in Requests \ {s} : session'[q] = session[q]
  BY <1>1, <1>2, <1>3 DEF IInv, TypeOK
<1>5. device' = device /\ blacklist' = blacklist /\ token' = token /\ admin' = admin
  BY DEF RefreshRevoke, Logout
<1>6. Grown /\ StaysRevoked
  BY <1>4, <1>5 DEF Grown, StaysRevoked
<1>7. AccessInv'
  BY <1>4, <1>5 DEF AInv, AccessInv, UsedDevicesActive, SessionsFound, FoundBy, InUse, TakesDevices
<1>8. DeviceWriters' /\ BlacklistedIsListed'
  BY <1>5 DEF AInv, DeviceWriters, Writes, RowsOf, BlacklistedIsListed
<1>9. Answers'
  <2>1. CASE Logout(r)
    <3>1. request' = request
      BY <2>1 DEF Logout
    <3> QED
      BY <1>6, <3>1, AnswersKept DEF AInv
  <2>2. CASE RefreshRevoke(r)
    <3>1. /\ request'[r].pc = "reused" /\ request'[r].token = request[r].token
          /\ \A q \in Requests \ {r} : request'[q] = request[q]
      BY <2>2, GotoStep DEF RefreshRevoke
    <3>2. token[request[r].token].issued
      BY <2>2 DEF RefreshRevoke, AInv, Answers, AnswersHold, Presented
    <3>3. session'[token[request[r].token].session].revoked
      BY <1>1, <1>4, <2>2
    <3> QED
      BY <1>5, <1>6, <3>1, <3>2, <3>3, AnswersKept DEF AInv, AnswersHold, Presented
  <2> QED
    BY <2>1, <2>2
<1> QED
  BY <1>6, <1>8, <1>9, <1>7 DEF AInv

\* A step that changes no table and lets nobody new write.
LEMMA NoNewDeviceWriter ==
    ASSUME IInv, AInv, UNCHANGED <<device, blacklist, session, token, request>>,
           \A a \in Admins : Writes(a)' => admin'[a] = admin[a]
    PROVE  AInv' /\ StaysRevoked
<1>1. device' = device /\ blacklist' = blacklist /\ session' = session /\ token' = token
      /\ request' = request
  OBVIOUS
<1>2. \A a \in Admins : Writes(a)' => Writes(a)
  BY DEF Writes
<1>3. DeviceWriters'
  BY <1>1, <1>2 DEF AInv, DeviceWriters, RowsOf
<1>4. Answers' /\ BlacklistedIsListed' /\ StaysRevoked
  BY <1>1 DEF AInv, Answers, AnswersHold, OneExchange, BlacklistedIsListed, StaysRevoked
<1>5. UsedDevicesActive'
  BY <1>1 DEF AInv, AccessInv, UsedDevicesActive, InUse
<1>6. SessionsFound'
  <2> SUFFICES ASSUME NEW a \in Admins, TakesDevices(a)', admin'[a].pc \in {"sessions", "audit"}
               PROVE  FoundBy(a)'
    BY DEF SessionsFound
  <2>1. admin'[a] = admin[a]
    BY DEF Writes
  <2>2. FoundBy(a)
    BY <2>1 DEF AInv, AccessInv, SessionsFound, TakesDevices
  <2> QED
    BY <1>1, <2>1, <2>2 DEF FoundBy, InUse
<1> QED
  BY <1>3, <1>4, <1>5, <1>6 DEF AInv, AccessInv

LEMMA AdminStopKeeps ==
    ASSUME IInv, AInv, NEW a \in Admins, admin' = [admin EXCEPT ![a] = NoAdmin],
           UNCHANGED <<device, blacklist, session, token, request>>
    PROVE  AInv' /\ StaysRevoked
<1>1. NoAdmin.pc = "idle" /\ admin \in [Admins -> AdminState]
  BY DEF NoAdmin, IInv, TypeOK
<1> HIDE DEF NoAdmin
<1>2. \A b \in Admins : Writes(b)' => admin'[b] = admin[b]
  BY <1>1 DEF Writes
<1> QED
  BY <1>2, NoNewDeviceWriter

LEMMA AdminBeginKeeps ==
    ASSUME IInv, AInv, NEW a \in Admins, NEW op, NEW m, NEW g, NEW hit, AdminBegin(a, op, m, g, hit)
    PROVE  AInv' /\ StaysRevoked
<1>1. \A b \in Admins : Writes(b)' => admin'[b] = admin[b]
  BY DEF Writes, AdminBegin, IInv, TypeOK
<1> QED
  BY <1>1, NoNewDeviceWriter DEF AdminBegin

\* A transaction locks the rows it is about to write.
LEMMA AdminWriteKeeps ==
    ASSUME IInv, AInv, NEW a \in Admins, AdminWrite(a)
    PROVE  AInv' /\ StaysRevoked
<1>1. /\ admin \in [Admins -> AdminState] /\ UNCHANGED <<device, blacklist, session, token, request>>
      /\ device' = device /\ blacklist' = blacklist
  BY DEF IInv, TypeOK, AdminWrite
<1>2. CASE admin' = [admin EXCEPT ![a] = NoAdmin]
  BY <1>1, <1>2, AdminStopKeeps
<1>3. CASE admin' /= [admin EXCEPT ![a] = NoAdmin]
  <2>1. PICK rec \in AdminState : rec = admin[a]
    BY <1>1
  <2>2. PICK rows \in SUBSET Machines, saw \in SUBSET Requests, pc \in {"tokens", "audit"} :
          /\ rows = IF admin[a].op \in DeviceOps THEN {admin[a].machine}
                    ELSE {x \in Machines : /\ admin[a].op = "reset"
                                           /\ device[x].grant = admin[a].grant
                                           /\ admin[a].grant \in Licenses
                                              => device[x].status /= "unbound"}
          /\ \A x \in rows : ~DeviceLocked(x)
          /\ pc = "audit" => saw = {} /\ admin[a].op \notin Revoking
          /\ admin' = [admin EXCEPT ![a] = [@ EXCEPT !.pc = pc, !.rows = rows, !.saw = saw]]
    BY <1>3, WriteGoesOn, Zenon
  <2> DEFINE X == [rec EXCEPT !.pc = pc, !.rows = rows, !.saw = saw]
  <2>3. /\ X.op = rec.op /\ X.grant = rec.grant /\ X.machine = rec.machine /\ X.rows = rows
        /\ X.pc = pc
    BY DEF AdminState
  <2>4. admin' = [admin EXCEPT ![a] = X]
    BY <2>1, <2>2
  <2> HIDE DEF X
  <2>5. /\ admin'[a].op = rec.op /\ admin'[a].grant = rec.grant
        /\ admin'[a].machine = rec.machine /\ admin'[a].rows = rows /\ admin'[a].pc = pc
        /\ \A b \in Admins \ {a} : admin'[b] = admin[b]
    BY <1>1, <2>3, <2>4
  <2>6. RowsOf(a)'
    <3>1. /\ rec.op \in DeviceOps => rows = {rec.machine}
          /\ rec.op = "reset" => \A x \in rows : device[x].grant = rec.grant
      BY <2>1, <2>2 DEF DeviceOps
    <3> QED
      BY <1>1, <2>5, <3>1 DEF RowsOf
  <2>7. \A b \in Admins \ {a} : Writes(b)' => Writes(b) /\ RowsOf(b)' /\ admin[b].rows \cap rows = {}
    <3> SUFFICES ASSUME NEW b \in Admins \ {a}, Writes(b)'
                 PROVE  Writes(b) /\ RowsOf(b)' /\ admin[b].rows \cap rows = {}
      OBVIOUS
    <3>1. admin'[b] = admin[b] /\ Writes(b)
      BY <2>5 DEF Writes
    <3>2. RowsOf(b)'
      BY <1>1, <3>1 DEF AInv, DeviceWriters, RowsOf
    <3>3. admin[b].rows \cap rows = {}
      BY <2>2, <3>1 DEF DeviceLocked, Writes
    <3> QED
      BY <3>1, <3>2, <3>3
  <2>8. DeviceWriters'
    <3>1. \A b \in Admins : Writes(b)' => RowsOf(b)'
      BY <2>6, <2>7
    <3>2. ASSUME NEW b \in Admins, NEW c \in Admins, Writes(b)', Writes(c)', b /= c
          PROVE  admin'[b].rows \cap admin'[c].rows = {}
      <4>1. CASE b = a
        BY <2>5, <2>7, <3>2, <4>1
      <4>2. CASE c = a
        BY <2>5, <2>7, <3>2, <4>2
      <4>3. CASE b /= a /\ c /= a
        BY <2>5, <2>7, <3>2, <4>3 DEF AInv, DeviceWriters
      <4> QED
        BY <4>1, <4>2, <4>3
    <3>3. \A m \in Machines : device'[m].status = "none" => device'[m].grant = NoGrant
      BY <1>1 DEF AInv, DeviceWriters
    <3> QED
      BY <3>1, <3>2, <3>3 DEF DeviceWriters
  <2>9. Answers' /\ BlacklistedIsListed' /\ StaysRevoked
    BY <1>1 DEF AInv, Answers, AnswersHold, OneExchange, BlacklistedIsListed, StaysRevoked
  <2>10. SessionsFound'
    <3> SUFFICES ASSUME NEW b \in Admins, TakesDevices(b)', admin'[b].pc \in {"sessions", "audit"}
                 PROVE  FoundBy(b)'
      BY DEF SessionsFound
    <3>1. CASE b = a
      <4>1. pc = "audit" /\ rec.op \notin Revoking
        BY <2>1, <2>2, <2>5, <3>1
      <4>2. rec.op \in {"unbind", "blacklist", "reset"}
        BY <2>5, <3>1 DEF TakesDevices
      <4> QED
        BY <4>1, <4>2 DEF Revoking
    <3>2. CASE b /= a
      <4>1. admin'[b] = admin[b]
        BY <2>5, <3>2
      <4>2. FoundBy(b)
        BY <4>1 DEF AInv, AccessInv, SessionsFound, TakesDevices
      <4> QED
        BY <1>1, <4>1, <4>2 DEF FoundBy, InUse
    <3> QED
      BY <3>1, <3>2
  <2>11. UsedDevicesActive'
    BY <1>1 DEF AInv, AccessInv, UsedDevicesActive, InUse
  <2> QED
    BY <2>8, <2>9, <2>10, <2>11 DEF AInv, AccessInv
<1> QED
  BY <1>2, <1>3

\* What the update of a device leaves and sets.
LEMMA DeviceUpdates ==
    ASSUME IInv, NEW g \in Grants, NEW x \in Machines
    PROVE  /\ NewDeviceRow("unbind", g, x).status = "unbound"
           /\ NewDeviceRow("blacklist", g, x).status = "blacklisted"
           /\ NewDeviceRow("unblacklist", g, x).status = "active"
           /\ NewDeviceRow("reset", g, x).status \in {device[x].status, "unbound"}
           /\ \/ NewDeviceRow("reset", g, x).status = device[x].status
              \/ NewDeviceRow("reset", g, x).grant = device[x].grant
           /\ \/ NewDeviceRow("reset", g, x).status = "unbound"
              \/ NewDeviceRow("reset", g, x).grant = NoGrant
           /\ IF g \in Licenses THEN NewDeviceRow("reset", g, x).grant = device[x].grant
              ELSE NewDeviceRow("reset", g, x).status = device[x].status
<1>1. PICK row \in DeviceRow : row = device[x]
  BY DEF IInv, TypeOK
<1>2. \A st : [row EXCEPT !.status = st].status = st /\ [row EXCEPT !.status = st].grant = row.grant
  BY DEF DeviceRow
<1>3. [row EXCEPT !.grant = NoGrant].status = row.status /\ [row EXCEPT !.grant = NoGrant].grant = NoGrant
  BY DEF DeviceRow
<1>4. /\ NewDeviceRow("unbind", g, x) = [row EXCEPT !.status = "unbound"]
      /\ NewDeviceRow("blacklist", g, x) = [row EXCEPT !.status = "blacklisted"]
      /\ NewDeviceRow("unblacklist", g, x) = [row EXCEPT !.status = "active"]
  BY <1>1 DEF NewDeviceRow
<1>5. NewDeviceRow("reset", g, x) = IF g \in Licenses THEN [row EXCEPT !.status = "unbound"]
                                    ELSE [row EXCEPT !.grant = NoGrant]
  BY <1>1, AccessAssumption DEF NewDeviceRow, Grants
<1>6. /\ NewDeviceRow("unbind", g, x).status = "unbound"
      /\ NewDeviceRow("blacklist", g, x).status = "blacklisted"
      /\ NewDeviceRow("unblacklist", g, x).status = "active"
  BY <1>2, <1>4
<1>7. CASE g \in Licenses
  BY <1>1, <1>2, <1>5, <1>6, <1>7
<1>8. CASE g \notin Licenses
  BY <1>1, <1>3, <1>5, <1>6, <1>8
<1> QED
  BY <1>7, <1>8

\* The rows are still those the transaction locked, so the sessions it selects
\* after its writes are those of the devices it takes away.
LEMMA RowsAreHit ==
    ASSUME IInv, AInv, NEW a \in Admins, Writes(a), TakesDevices(a)
    PROVE  admin[a].rows \subseteq RevokedDevices(admin[a].op, admin[a].grant, admin[a].machine,
                                Written(admin[a].op, admin[a].grant, admin[a].rows))
<1>1. RowsOf(a) /\ admin[a].rows \subseteq Machines /\ admin[a].grant \in Grants
  BY DEF AInv, DeviceWriters, IInv, TypeOK, AdminState
<1>2. CASE admin[a].op \in {"unbind", "blacklist"}
  BY <1>1, <1>2 DEF RowsOf, RevokedDevices, DeviceOps
<1>3. CASE admin[a].op = "reset" /\ admin[a].grant \in Licenses
  <2> SUFFICES ASSUME NEW x \in admin[a].rows
               PROVE  x \in RevokedDevices("reset", admin[a].grant, admin[a].machine,
                                           Written("reset", admin[a].grant, admin[a].rows))
    BY <1>3
  <2>1. x \in Machines /\ device[x].grant = admin[a].grant
    BY <1>1, <1>3 DEF RowsOf
  <2>2. NewDeviceRow("reset", admin[a].grant, x).grant = admin[a].grant
    BY <1>1, <1>3, <2>1, DeviceUpdates
  <2>3. Written("reset", admin[a].grant, admin[a].rows)[x].grant = admin[a].grant
    BY <2>1, <2>2 DEF Written
  <2> QED
    BY <2>1, <2>3 DEF RevokedDevices
<1> QED
  BY <1>2, <1>3 DEF TakesDevices

\* When the statement that revokes the sessions begins, it finds those in use.
LEMMA RevokingKeeps ==
    ASSUME IInv, AInv, NEW a \in Admins, AdminRevokeTokens(a) \/ AdminRevokeSessions(a)
    PROVE  AInv' /\ StaysRevoked
<1>1. /\ \A b \in Admins \ {a} : admin'[b] = admin[b]
      /\ admin'[a].op = admin[a].op /\ admin'[a].grant = admin[a].grant
      /\ admin'[a].machine = admin[a].machine /\ admin'[a].rows = admin[a].rows
      /\ device' = device /\ blacklist' = blacklist /\ session' = session /\ token' = token
      /\ request' = request
  BY RevokingStep
<1>2. Writes(a)
  BY DEF AdminRevokeTokens, AdminRevokeSessions, Writes
<1>3. \A b \in Admins : Writes(b)' => Writes(b)
  BY <1>1, <1>2 DEF Writes
<1>4. DeviceWriters'
  <2>1. \A b \in Admins : admin'[b].op = admin[b].op /\ admin'[b].grant = admin[b].grant
                         /\ admin'[b].machine = admin[b].machine /\ admin'[b].rows = admin[b].rows
    BY <1>1
  <2> QED
    BY <1>1, <1>3, <2>1 DEF AInv, DeviceWriters, RowsOf
<1>5. Answers' /\ BlacklistedIsListed' /\ StaysRevoked
  BY <1>1 DEF AInv, Answers, AnswersHold, OneExchange, BlacklistedIsListed, StaysRevoked
<1>6. UsedDevicesActive'
  BY <1>1 DEF AInv, AccessInv, UsedDevicesActive, InUse
<1>7. ASSUME TakesDevices(a) PROVE FoundBy(a)'
  <2>1. CASE AdminRevokeTokens(a)
    <3>1. \A s \in Requests : InUse(s) /\ session[s].device \in admin[a].rows => s \in admin'[a].ended
      BY <1>2, <1>7, <2>1, RowsAreHit, RevokingStep DEF InUse
    <3> QED
      BY <1>1, <3>1 DEF FoundBy, InUse
  <2>2. CASE AdminRevokeSessions(a)
    <3>1. admin[a].pc = "sessions" /\ admin'[a].ended = admin[a].ended
      BY <2>2, RevokingStep
    <3>2. FoundBy(a)
      BY <1>7, <3>1 DEF AInv, AccessInv, SessionsFound
    <3> QED
      BY <1>1, <3>1, <3>2 DEF FoundBy, InUse
  <2> QED
    BY <2>1, <2>2
<1>8. SessionsFound'
  <2> SUFFICES ASSUME NEW b \in Admins, TakesDevices(b)', admin'[b].pc \in {"sessions", "audit"}
               PROVE  FoundBy(b)'
    BY DEF SessionsFound
  <2>1. CASE b = a
    BY <1>1, <1>7, <2>1 DEF TakesDevices
  <2>2. CASE b /= a
    <3>1. admin'[b] = admin[b]
      BY <1>1, <2>2
    <3>2. FoundBy(b)
      BY <3>1 DEF AInv, AccessInv, SessionsFound, TakesDevices
    <3> QED
      BY <1>1, <3>1, <3>2 DEF FoundBy, InUse
  <2> QED
    BY <2>1, <2>2
<1> QED
  BY <1>4, <1>5, <1>6, <1>8 DEF AInv, AccessInv

\* A commit: the sessions in use on the devices it takes away are among those it
\* revokes.
LEMMA AdminCommitKeeps ==
    ASSUME IInv, AInv, NEW a \in Admins, AdminCommit(a)
    PROVE  AInv' /\ StaysRevoked
<1>1. PICK g \in Grants, m \in Machines, rows \in SUBSET Machines,
           op \in DeviceOps \cup StatusOps \cup {"none", "reset"} :
        admin[a].grant = g /\ admin[a].machine = m /\ admin[a].rows = rows /\ admin[a].op = op
  BY DEF IInv, TypeOK, AdminState
<1>2. /\ Writes(a) /\ admin[a].pc = "audit" /\ request' = request /\ admin' = [admin EXCEPT ![a] = NoAdmin]
      /\ device' = [x \in Machines |-> IF x \in rows THEN NewDeviceRow(op, g, x) ELSE device[x]]
      /\ blacklist' = CASE op = "blacklist"                     -> blacklist \cup {m}
                        [] op = "unblacklist" /\ admin[a].hit   -> blacklist \ {m}
                        [] OTHER                                -> blacklist
      /\ token' = [t \in Requests |-> IF t \in admin[a].saw
                                      THEN [token[t] EXCEPT !.revoked = TRUE] ELSE token[t]]
      /\ session' = [s \in Requests |-> IF s \in admin[a].ended
                                        THEN [session[s] EXCEPT !.revoked = TRUE] ELSE session[s]]
  BY <1>1 DEF AdminCommit, Writes, Written
<1>3. /\ op \in DeviceOps => rows = {m}
      /\ op = "reset" => \A x \in rows : device[x].grant = g
      /\ op \notin DeviceOps \cup {"reset"} => rows = {}
  BY <1>1, <1>2 DEF AInv, DeviceWriters, RowsOf, IInv, WritersOfDevices
<1>4. \A x \in Machines \ rows : device'[x] = device[x]
  BY <1>2
<1>5. ASSUME NEW x \in rows
      PROVE  \/ op = "unbind" /\ x = m /\ device'[x].status = "unbound"
             \/ op = "blacklist" /\ x = m /\ device'[x].status = "blacklisted"
             \/ op = "unblacklist" /\ x = m /\ device'[x].status = "active"
             \/ /\ op = "reset" /\ device'[x].status \in {device[x].status, "unbound"}
                /\ (device'[x].status = device[x].status \/ device'[x].grant = g)
                /\ (device'[x].status = "unbound" \/ device'[x].grant = NoGrant)
                /\ g \notin Licenses => device'[x].status = device[x].status
  <2>1. x \in Machines /\ device'[x] = NewDeviceRow(op, g, x)
    BY <1>2
  <2>2. op \in {"unbind", "blacklist", "unblacklist", "reset"}
    BY <1>3 DEF DeviceOps
  <2>3. op = "reset" => device[x].grant = g
    BY <1>3
  <2>4. op /= "reset" => x = m
    BY <1>3, <2>2 DEF DeviceOps
  <2> QED
    BY <2>1, <2>2, <2>3, <2>4, DeviceUpdates
<1>6. /\ \A s \in Requests : /\ session'[s].open = session[s].open
                             /\ session'[s].device = session[s].device
                             /\ session[s].revoked => session'[s].revoked
                             /\ s \in admin[a].ended => session'[s].revoked
                             /\ session'[s] = session[s] \/ session'[s].revoked
  <2> SUFFICES ASSUME NEW s \in Requests
               PROVE  /\ session'[s].open = session[s].open
                      /\ session'[s].device = session[s].device
                      /\ session[s].revoked => session'[s].revoked
                      /\ s \in admin[a].ended => session'[s].revoked
                      /\ session'[s] = session[s] \/ session'[s].revoked
    OBVIOUS
  <2>1. PICK row \in SessionRow : row = session[s]
    BY DEF IInv, TypeOK
  <2>2. /\ [row EXCEPT !.revoked = TRUE].revoked
        /\ [row EXCEPT !.revoked = TRUE].open = row.open
        /\ [row EXCEPT !.revoked = TRUE].device = row.device
    BY DEF SessionRow
  <2>3. session'[s] = IF s \in admin[a].ended THEN [row EXCEPT !.revoked = TRUE] ELSE row
    BY <1>2, <2>1
  <2> QED
    BY <2>1, <2>2, <2>3
<1>7. Grown
  <2>1. ASSUME NEW t \in Requests
        PROVE  /\ token'[t].issued = token[t].issued /\ token'[t].session = token[t].session
               /\ token'[t].used = token[t].used
    <3>1. PICK row \in TokenRow : row = token[t]
      BY DEF IInv, TypeOK
    <3>2. token'[t] \in {row, [row EXCEPT !.revoked = TRUE]}
      BY <1>2, <3>1
    <3> QED
      BY <3>1, <3>2 DEF TokenRow
  <2> QED
    BY <1>6, <2>1 DEF Grown
<1>8. Answers'
  <2>1. ASSUME NEW r \in Requests PROVE Answers'
    BY <1>2, <1>7, AnswersKept DEF AInv
  <2>2. CASE Requests = {}
    BY <2>2 DEF Answers, OneExchange
  <2> QED
    BY <2>1, <2>2
<1>9. DeviceWriters'
  <2>1. NoAdmin.pc = "idle" /\ admin \in [Admins -> AdminState]
    BY DEF NoAdmin, IInv, TypeOK
  <2>2. \A b \in Admins : Writes(b)' => b /= a /\ admin'[b] = admin[b] /\ Writes(b)
    BY <1>2, <2>1 DEF Writes
  <2>3. \A b \in Admins : Writes(b)' => admin[b].rows \cap rows = {} /\ admin[b].rows \subseteq Machines
    BY <1>1, <1>2, <2>1, <2>2 DEF AInv, DeviceWriters, AdminState
  <2>4. \A b \in Admins : Writes(b)' => RowsOf(b)'
    <3> SUFFICES ASSUME NEW b \in Admins, Writes(b)' PROVE RowsOf(b)'
      OBVIOUS
    <3>1. RowsOf(b) /\ admin'[b] = admin[b]
      BY <2>2 DEF AInv, DeviceWriters
    <3>2. \A x \in admin[b].rows : device'[x] = device[x]
      BY <1>4, <2>3
    <3> QED
      BY <3>1, <3>2 DEF RowsOf
  <2>5. \A x \in Machines : device'[x].status = "none" => device'[x].grant = NoGrant
    <3> SUFFICES ASSUME NEW x \in Machines, device'[x].status = "none" PROVE device'[x].grant = NoGrant
      OBVIOUS
    <3>1. CASE x \in rows
      BY <1>5, <3>1
    <3>2. CASE x \notin rows
      BY <1>4, <3>2 DEF AInv, DeviceWriters
    <3> QED
      BY <3>1, <3>2
  <2> QED
    BY <2>2, <2>4, <2>5 DEF AInv, DeviceWriters
<1>10. BlacklistedIsListed'
  <2> SUFFICES ASSUME NEW x \in Machines, device'[x].status = "blacklisted" PROVE x \in blacklist'
    BY DEF BlacklistedIsListed
  <2>1. CASE x \in rows
    <3>1. (op = "blacklist" /\ x = m) \/ (op = "reset" /\ device[x].status = "blacklisted")
      BY <1>5, <2>1
    <3> QED
      BY <1>2, <3>1 DEF AInv, BlacklistedIsListed
  <2>2. CASE x \notin rows
    <3>1. x \in blacklist
      BY <1>4, <2>2 DEF AInv, BlacklistedIsListed
    <3>2. op = "unblacklist" => x /= m
      BY <1>3, <2>2 DEF DeviceOps
    <3> QED
      BY <1>2, <3>1, <3>2
  <2> QED
    BY <2>1, <2>2
<1>11. StaysRevoked
  BY <1>6 DEF StaysRevoked
<1>12. \A s \in Requests : InUse(s)' => InUse(s) /\ s \notin admin[a].ended
  <2> SUFFICES ASSUME NEW s \in Requests, InUse(s)'
               PROVE  InUse(s) /\ s \notin admin[a].ended
    OBVIOUS
  <2>1. ~session'[s].revoked
    BY DEF InUse
  <2>2. session'[s] = session[s] /\ s \notin admin[a].ended
    BY <1>6, <2>1
  <2> QED
    BY <2>2 DEF InUse
<1>13. UsedDevicesActive'
  <2> SUFFICES ASSUME NEW s \in Requests, InUse(s)'
               PROVE  device'[session'[s].device].status = "active"
    BY DEF UsedDevicesActive
  <2>1. PICK x \in Machines : x = session[s].device
    BY DEF IInv, TypeOK, SessionRow
  <2>2. device[x].status = "active" /\ session'[s].device = x
    BY <1>6, <1>12, <2>1 DEF AInv, AccessInv, UsedDevicesActive
  <2>3. CASE x \in rows
    <3>1. ~TakesDevices(a)
      BY <1>1, <1>2, <1>12, <2>1, <2>3 DEF AInv, AccessInv, SessionsFound, FoundBy
    <3>2. op \notin {"unbind", "blacklist"} /\ (op = "reset" => g \notin Licenses)
      BY <1>1, <3>1 DEF TakesDevices
    <3> QED
      BY <1>5, <2>2, <2>3, <3>2
  <2>4. CASE x \notin rows
    BY <1>4, <2>2, <2>4
  <2> QED
    BY <2>3, <2>4
<1>14. SessionsFound'
  <2> SUFFICES ASSUME NEW b \in Admins, TakesDevices(b)', admin'[b].pc \in {"sessions", "audit"}
               PROVE  FoundBy(b)'
    BY DEF SessionsFound
  <2>1. NoAdmin.pc = "idle" /\ admin \in [Admins -> AdminState]
    BY DEF NoAdmin, IInv, TypeOK
  <2>2. admin'[b] = admin[b]
    BY <1>2, <2>1
  <2>3. FoundBy(b)
    BY <2>2 DEF AInv, AccessInv, SessionsFound, TakesDevices
  <2> QED
    BY <1>6, <1>12, <2>2, <2>3 DEF FoundBy
<1> QED
  BY <1>8, <1>9, <1>10, <1>11, <1>13, <1>14 DEF AInv, AccessInv

\* Every step keeps the invariant, and what is revoked.
LEMMA NextKeeps ==
    ASSUME IInv, AInv, [Next]_vars
    PROVE  AInv' /\ StaysRevoked
<1>1. ASSUME NEW r \in Requests, RequestNext(r) PROVE AInv' /\ StaysRevoked
  BY <1>1, RequestReadKeeps, BindCommitKeeps, RefreshCommitKeeps, RevokedKeeps DEF RequestNext
<1>2. ASSUME NEW a \in Admins, AdminNext(a) PROVE AInv' /\ StaysRevoked
  <2>1. \/ \E op, m, g, hit : AdminBegin(a, op, m, g, hit)
        \/ AdminWrite(a) \/ AdminRevokeTokens(a) \/ AdminRevokeSessions(a)
        \/ AdminCommit(a) \/ AdminStop(a)
    BY <1>2 DEF AdminNext, UnbindDevice, BlacklistDevice, UnblacklistDevice, RevokeLicense,
       SuspendLicense, RenewLicense, ResetLicenseDevices, CancelSubscription,
       SuspendOrResumeSubscription, RenewSubscription, ResetSubscriptionDevices
  <2>2. AdminStop(a) => AInv' /\ StaysRevoked
    BY AdminStopKeeps DEF AdminStop
  <2> QED
    BY <2>1, <2>2, AdminBeginKeeps, AdminWriteKeeps, RevokingKeeps, AdminCommitKeeps
<1>3. CASE (\E g \in Grants : Expire(g)) \/ UNCHANGED vars
  <2>1. UNCHANGED <<device, blacklist, session, token, request>> /\ admin' = admin
    BY <1>3 DEF Expire, vars
  <2> QED
    BY <2>1, NoNewDeviceWriter
<1> QED
  BY <1>1, <1>2, <1>3 DEF Next

LEMMA InitAInv == Init => AInv
  BY DEF Init, AInv, Answers, AnswersHold, Presented, OneExchange, DeviceWriters, Writes, RowsOf,
     NoAdmin, BlacklistedIsListed, AccessInv, UsedDevicesActive, SessionsFound, InUse

LEMMA AccessInvariance == Spec => [](IInv /\ AInv)
<1>1. IInv /\ AInv /\ [Next]_vars => AInv'
  BY NextKeeps
<1> QED
  BY <1>1, InitIInv, InitAInv, NextIInv, PTL DEF Spec

\* Of any number of presentations of a refresh token at most one is exchanged,
\* and once another one was answered the session is revoked (refresh.rs,
\* mark_refresh_token_used_in_transaction, revoke_session).
THEOREM ReuseIsDetected == Spec => []ReuseEndsSession
<1>1. IInv /\ AInv => ReuseEndsSession
  <2> SUFFICES ASSUME AInv, NEW r \in Requests, NEW q \in Requests,
                      r /= q, request[r].token = request[q].token,
                      request[r].pc = "rotated", request[q].pc \in {"rotated", "reused"}
               PROVE  /\ request[q].pc = "reused"
                      /\ session[token[request[r].token].session].revoked
    BY DEF ReuseEndsSession
  <2>1. request[q].pc = "reused"
    BY DEF AInv, Answers, OneExchange
  <2>2. session[token[request[q].token].session].revoked
    BY <2>1 DEF AInv, Answers, AnswersHold
  <2> QED
    BY <2>1, <2>2
<1> QED
  BY <1>1, AccessInvariance, PTL

\* A device that shows as blacklisted is listed in device_blacklist, whatever
\* transactions of the back office overlap (blacklist_device,
\* unblacklist_device, the resets).
THEOREM BlacklistIsComplete == Spec => []BlacklistedIsListed
<1>1. AInv => BlacklistedIsListed
  BY DEF AInv
<1> QED
  BY <1>1, AccessInvariance, PTL

\* A session whose login was not overtaken never gets its access back once it
\* has lost it: by the locks a transaction holds, the devices it takes away
\* (unbind_device, blacklist_device, reset_license_devices) are those whose
\* sessions its statement selects, and every session that opens later is either
\* overtaken or on a device that is still active.
THEOREM AccessIsLostForGood == Spec => LostAccessIsFinal
<1>1. IInv /\ AInv /\ [Next]_vars => StaysRevoked
  BY NextKeeps
<1>2. IInv /\ AInv /\ StaysRevoked =>
        [\A s \in Requests : session[s].open /\ ~session[s].overtaken /\ ~Authorized(s)
                             => ~Authorized(s)']_vars
  <2> SUFFICES ASSUME AInv, StaysRevoked, NEW s \in Requests,
                      session[s].open, ~session[s].overtaken, ~Authorized(s)
               PROVE  ~Authorized(s)'
    OBVIOUS
  <2>1. session[s].revoked
    BY DEF AInv, AccessInv, UsedDevicesActive, InUse, Authorized
  <2> QED
    BY <2>1 DEF StaysRevoked, Authorized
<1> QED
  BY <1>1, <1>2, AccessInvariance, PTL DEF Spec, LostAccessIsFinal
=============================================================================
