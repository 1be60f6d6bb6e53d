----------------------------- MODULE TcpSessions -----------------------------
(***************************************************************************)
(* The server's end of the client connections (services/TCPSession.cpp):   *)
(* login, numbering, caching and sending of messages, and sending again to *)
(* a client that logs in anew.                                             *)
(*                                                                         *)
(* Three kinds of threads take part.  The dispatcher handles logins.  The  *)
(* strand of TCPSessionManager numbers and caches every message and hands  *)
(* it to the sessions of its account.  Each session's network thread runs  *)
(* its strand and the completions of its one read and its one write.  A    *)
(* session is registered under the native handle of its socket, which the  *)
(* operating system gives to a new socket as soon as the old one is closed.*)
(* TCPSessionManager::TCPSessions is only counted in the log and left out. *)
(***************************************************************************)
EXTENDS Integers, Sequences, FiniteSets, Functions

CONSTANTS
    NumSessions,     \* bound on the connections of a behaviour
    Handles,         \* native handles
    Accounts,        \* AcctKey_t of the clients
    Notifications,   \* what is sent: records [acct, cmd, shouldCache]
    LoginRequests,   \* what each connection may ask: [acct, resend, algo, order, trade]
    MaxNotify,       \* bound on the notifications of a behaviour
    Clock,           \* milliseconds the wall clock may show, in any order
    IdsPerMilli,     \* how many numbers the counter makes of one: 0x10000
    NoAccount, NoSession, NoRequest, NoHandle

ASSUME SessionsAssumption ==
    /\ NumSessions \in Nat /\ NoSession \notin 1..NumSessions
    /\ NoAccount \notin Accounts /\ NoHandle \notin Handles
    /\ Notifications \subseteq [acct : Accounts, cmd : Nat, shouldCache : BOOLEAN]
    /\ \A s \in 1..NumSessions :
         /\ LoginRequests[s] \subseteq
              [acct : Accounts, resend : BOOLEAN, algo : Nat, order : Nat, trade : Nat]
         /\ NoRequest \notin LoginRequests[s]
    /\ MaxNotify \in Nat /\ Clock \subseteq Nat \ {0} /\ IdsPerMilli \in Nat \ {0}

\* Connections, numbered as they are accepted.
Sessions == 1..NumSessions

\* MsgAlgoCMD, as numbers because reSend compares them.
CMD_LoginResponse == 11
CMD_NOTIFY_AlgoExecutionInfo == 201
CMD_NOTIFY_Order == 202
CMD_NOTIFY_Trade == 203
CMD_NOTIFY_MarketDepth == 204

VARIABLES
    conn,           \* none, open or closed: m_socket.is_open()
    handle,         \* m_socketHandle
    reading,        \* an async_read is outstanding
    writing,        \* how many async_writes are outstanding
    removing,       \* sessions between closing the socket and removeTCPSession
    request,        \* the login the client sent on this connection
    logins,         \* onLoginRequest tasks on the dispatcher, by session
    loginAcctKeys,  \* accounts a session has logged in
    acctKey2TCPSessions,  \* account -> handle -> session or NoSession
    strand,         \* tasks posted to the manager's strand
    messages,       \* messageId2Pkg, and the packages that are not cached
    acctSentAcknMaxMessageId,
    posted,         \* tasks posted to each session's strand
    sendingMessageQueue,
    sent,           \* history: the packages each socket took, in order
    since,          \* history: how many messages there were when it logged in
    notified        \* how many notifications were sent

connVars == <<conn, handle, reading, request>>
managerVars == <<messages, acctSentAcknMaxMessageId>>
sendVars == <<posted, sendingMessageQueue, writing, sent>>
registryVars == <<logins, loginAcctKeys, acctKey2TCPSessions>>
loginVars == <<registryVars, since>>
vars == <<connVars, removing, loginVars, strand, managerVars, sendVars, notified>>

SendTask(session, n) == [op |-> "send", session |-> session, msg |-> n]
OffsetTask(pkg) == [op |-> "offset", pkg |-> pkg]
ResendTask(session, req) == [op |-> "resend", session |-> session, req |-> req]
Push(pkg) == [op |-> "push", pkg |-> pkg]
WriteNext == [op |-> "write"]

LoginResponse == [acct |-> NoAccount, cmd |-> CMD_LoginResponse, shouldCache |-> TRUE]

\* History: how many messages have their number.
NumMessages == Cardinality(messages)

Init ==
    /\ conn = [s \in Sessions |-> "none"]
    /\ handle = [s \in Sessions |-> NoHandle]
    /\ reading = [s \in Sessions |-> FALSE]
    /\ writing = [s \in Sessions |-> 0]
    /\ removing = {}
    /\ request = [s \in Sessions |-> NoRequest]
    /\ logins = <<>>
    /\ loginAcctKeys = [s \in Sessions |-> {}]
    /\ acctKey2TCPSessions = [a \in Accounts |-> [h \in Handles |-> NoSession]]
    /\ strand = <<>>
    /\ messages = {}
    /\ acctSentAcknMaxMessageId = [a \in Accounts |-> 0]
    /\ posted = [s \in Sessions |-> <<>>]
    /\ sendingMessageQueue = [s \in Sessions |-> <<>>]
    /\ sent = [s \in Sessions |-> <<>>]
    /\ since = [s \in Sessions |-> 0]
    /\ notified = 0

-----------------------------------------------------------------------------
(* Connecting and logging in *)

(* AlgoService::handleAccept and TCPSession::start: a free handle and the first
   read.  start() stores the handle after it starts the read; the model takes it
   that no login is handled in between.  remote_endpoint() of a client that is
   already gone throws, which nobody catches: the server ends, and so does the
   behaviour, which no fairness forbids at any point. *)
Accept(s, h) ==
    /\ conn[s] = "none" /\ \A t \in Sessions : t < s => conn[t] # "none"
    /\ \A t \in Sessions : conn[t] = "open" => handle[t] # h
    /\ conn' = [conn EXCEPT ![s] = "open"]
    /\ handle' = [handle EXCEPT ![s] = h]
    /\ reading' = [reading EXCEPT ![s] = TRUE]
    /\ UNCHANGED <<removing, request, loginVars, strand, managerVars, sendVars, notified>>

(* do_read_body with a login (one per connection here): dispatchAlgoRequest posts
   it, and the next read starts. *)
ReadLogin(s, req) ==
    /\ conn[s] = "open" /\ reading[s]
    /\ request[s] = NoRequest
    /\ request' = [request EXCEPT ![s] = req]
    /\ logins' = Append(logins, s)
    /\ UNCHANGED <<conn, handle, reading, removing, loginAcctKeys, acctKey2TCPSessions,
                   since, strand, managerVars, sendVars, notified>>

\* Wrong on purpose: only the first session of an account is registered.
RegisteredFirst(a, h, s) ==
    IF \A k \in Handles : acctKey2TCPSessions[a][k] = NoSession
    THEN [acctKey2TCPSessions EXCEPT ![a][h] = s]
    ELSE acctKey2TCPSessions

\* map::insert: a handle that is there already keeps its session.
Registered(a, h, s) ==
    IF acctKey2TCPSessions[a][h] = NoSession
    THEN [acctKey2TCPSessions EXCEPT ![a][h] = s]
    ELSE acctKey2TCPSessions

\* Wrong on purpose: the old messages are sent to every client.
ResendAlways(s, req) == <<ResendTask(s, req)>>

ResendAsked(s, req) == IF req.resend THEN <<ResendTask(s, req)>> ELSE <<>>

(* onLoginRequest on the dispatcher: login(), with its mutex held, and then the
   answer.  The session may be closed by now. *)
Login ==
    /\ logins # <<>>
    /\ LET s == Head(logins)
           req == request[s]
       IN  /\ loginAcctKeys' = [loginAcctKeys EXCEPT ![s] = @ \cup {req.acct}]
           /\ acctKey2TCPSessions' = Registered(req.acct, handle[s], s)
           /\ strand' = strand
                  \o ResendAsked(s, req) \o <<SendTask(s, LoginResponse)>>
           /\ since' = [since EXCEPT ![s] = NumMessages]
    /\ logins' = Tail(logins)
    /\ UNCHANGED <<connVars, removing, managerVars, sendVars, notified>>

-----------------------------------------------------------------------------
(* The manager's strand *)

(* sendNotify2C by a trader, an order book or a quote feed. *)
Notify(n) ==
    /\ notified < MaxNotify
    /\ notified' = notified + 1
    /\ strand' = Append(strand, SendTask(NoSession, n))
    /\ UNCHANGED <<connVars, removing, loginVars, managerVars, sendVars>>

\* queueSendMessage2C of these packages, in order, to each of these sessions.  A
\* closed one would keep them for good without sending them: they are dropped.
Queued(targets, pkgs) ==
    [s \in Sessions |->
        IF s \in targets /\ conn[s] = "open"
        THEN posted[s] \o [i \in DOMAIN pkgs |-> Push(pkgs[i])]
        ELSE posted[s]]

Task(op) == strand # <<>> /\ Head(strand).op = op /\ strand' = Tail(strand)

SessionsOf(a) ==
    {acctKey2TCPSessions[a][h] : h \in Handles} \ {NoSession}

\* NewId(), up to the type of the generator in the highest bits: milliseconds and the
\* low bits of a counter.  These wrap, inside a millisecond too, and the wall clock
\* may be set back, so a number may lie below the last one.  It is taken to be new:
\* two that are equal have the same millisecond and a multiple of IdsPerMilli
\* messages between them.
NewId ==
    {(now * 2 * IdsPerMilli) + (NumMessages % IdsPerMilli) : now \in Clock}
        \ {m.id : m \in messages}

(* The task of send(): number it, cache it, and hand it to its session or to all
   sessions of its account.  nth is history: the order in which they are sent. *)
SendMessage ==
    /\ Task("send")
    /\ \E id \in NewId :
       LET n == Head(strand).msg
           s == Head(strand).session
           pkg == [id |-> id, nth |-> NumMessages + 1, acct |-> n.acct, cmd |-> n.cmd,
                   shouldCache |-> n.shouldCache]
       IN  /\ messages' = messages \cup {pkg}
           /\ posted' = Queued(IF s # NoSession THEN {s} ELSE SessionsOf(n.acct), <<pkg>>)
    /\ UNCHANGED <<connVars, removing, loginVars, acctSentAcknMaxMessageId,
                   sendingMessageQueue, writing, sent, notified>>

(* The task of sendMessagesOffset: the last package a socket took, which need not
   be the largest number. *)
StoreOffset ==
    /\ Task("offset")
    /\ LET pkg == Head(strand).pkg
       IN  acctSentAcknMaxMessageId' = [acctSentAcknMaxMessageId EXCEPT ![pkg.acct] = pkg.id]
    /\ UNCHANGED <<connVars, removing, loginVars, messages, sendVars, notified>>

\* Where reSend starts for a kind of message: what the client named, or else the
\* server's own record.
From(named, a) == IF named > 0 THEN named ELSE acctSentAcknMaxMessageId[a]

\* The three tests of reSend's loop.  An order or a trade that fails its own test
\* goes on to the last one, which its command passes.
ToResend(m, req) ==
    \/ m.cmd = CMD_NOTIFY_Order /\ m.id >= From(req.order, req.acct)
    \/ m.cmd = CMD_NOTIFY_Trade /\ m.id >= From(req.trade, req.acct)
    \/ m.cmd >= CMD_NOTIFY_AlgoExecutionInfo /\ m.id >= From(req.algo, req.acct)

ById(pkgs) ==
    CHOOSE line \in Bijection(1..Cardinality(pkgs), pkgs) :
        \A i, j \in DOMAIN line : i < j => line[i].id < line[j].id

(* The task of reSend(): the account's cached messages, by number. *)
Resend ==
    /\ Task("resend")
    /\ LET req == Head(strand).req
           again == {m \in messages : m.shouldCache /\ m.acct = req.acct /\ ToResend(m, req)}
       IN  posted' = Queued({Head(strand).session}, ById(again))
    /\ UNCHANGED <<connVars, removing, loginVars, managerVars,
                   sendingMessageQueue, writing, sent, notified>>

-----------------------------------------------------------------------------
(* A session's network thread *)

\* While a completion waits for the manager's mutex its thread does nothing else.
Thread(s) == s \notin removing

\* Wrong on purpose: every package starts a write of its own.
NeverWait(q) == FALSE

\* Whether queueSendMessage2C leaves the package to the write in progress.
MustWait(q) == Len(q) > 1

\* _send(): nothing to send or a closed socket end the sending.
Written(s, q) ==
    IF q # <<>> /\ conn[s] = "open" THEN [writing EXCEPT ![s] = @ + 1] ELSE writing

RunPosted(s) ==
    /\ Thread(s) /\ posted[s] # <<>>
    /\ posted' = [posted EXCEPT ![s] = Tail(@)]
    /\ LET task == Head(posted[s])
           q == IF task.op = "push" THEN Append(sendingMessageQueue[s], task.pkg)
                                    ELSE sendingMessageQueue[s]
       IN  /\ sendingMessageQueue' = [sendingMessageQueue EXCEPT ![s] = q]
           /\ writing' = IF task.op = "push" /\ MustWait(q) THEN writing ELSE Written(s, q)
    /\ UNCHANGED <<connVars, removing, loginVars, strand, managerVars, sent, notified>>

\* Wrong on purpose: the last package left behind is not sent.
NextWriteOfMany(s) == IF Len(sendingMessageQueue[s]) > 2 THEN <<WriteNext>> ELSE <<>>

\* The next write is posted when something is left.
NextWrite(s) == IF Len(sendingMessageQueue[s]) > 1 THEN <<WriteNext>> ELSE <<>>

\* Every package's number is stored; that of an answer under the empty account,
\* which nobody logs in with, and the model leaves it out.
Offset(pkg) == IF pkg.acct = NoAccount THEN <<>> ELSE <<OffsetTask(pkg)>>

(* The completion of a write.  It may be in the context's queue already when the
   socket is closed, and then its package is all that is left. *)
WriteOk(s) ==
    /\ Thread(s) /\ writing[s] > 0 /\ sendingMessageQueue[s] # <<>>
    /\ LET pkg == Head(sendingMessageQueue[s])
       IN  /\ sent' = IF conn[s] = "open" THEN [sent EXCEPT ![s] = Append(@, pkg)] ELSE sent
           /\ strand' = strand \o Offset(pkg)
    /\ writing' = [writing EXCEPT ![s] = @ - 1]
    /\ posted' = [posted EXCEPT ![s] = @ \o NextWrite(s)]
    /\ sendingMessageQueue' = [sendingMessageQueue EXCEPT ![s] = Tail(@)]
    /\ UNCHANGED <<connVars, removing, loginVars, managerVars, notified>>

\* safeDisConnect up to the manager's mutex.  Closing the socket aborts the other
\* operation, whose completion disconnects once more.  Nothing but the package of
\* a write under way matters on a closed socket; the model drops the rest.
Disconnect(s, writes) ==
    /\ conn' = [conn EXCEPT ![s] = "closed"]
    /\ removing' = removing \cup {s}
    /\ writing' = [writing EXCEPT ![s] = writes]
    /\ posted' = [posted EXCEPT ![s] = <<>>]
    /\ sendingMessageQueue' =
          [sendingMessageQueue EXCEPT ![s] = IF writes > 0 THEN <<Head(@)>> ELSE <<>>]
    /\ sent' = [sent EXCEPT ![s] = <<>>] /\ since' = [since EXCEPT ![s] = 0]

WriteError(s) ==
    /\ Thread(s) /\ writing[s] > 0
    /\ Disconnect(s, writing[s] - 1)
    /\ UNCHANGED <<handle, reading, request, registryVars, strand, managerVars, notified>>

ReadError(s) ==
    /\ Thread(s) /\ reading[s]
    /\ Disconnect(s, writing[s])
    /\ reading' = [reading EXCEPT ![s] = FALSE]
    /\ UNCHANGED <<handle, request, registryVars, strand, managerVars, notified>>

(* removeTCPSession: it erases whatever is registered under its handle. *)
RemoveTCPSession(s) ==
    /\ s \in removing
    /\ removing' = removing \ {s}
    /\ acctKey2TCPSessions' =
          [a \in Accounts |-> [h \in Handles |->
              IF a \in loginAcctKeys[s] /\ h = handle[s] THEN NoSession
                                                         ELSE acctKey2TCPSessions[a][h]]]
    /\ UNCHANGED <<connVars, logins, loginAcctKeys, since, strand, managerVars,
                   sendVars, notified>>

-----------------------------------------------------------------------------
Clients ==
    \/ \E s \in Sessions, h \in Handles : Accept(s, h)
    \/ \E s \in Sessions : \E req \in LoginRequests[s] : ReadLogin(s, req)
    \/ \E s \in Sessions : ReadError(s)
    \/ \E n \in Notifications : Notify(n)

Strand == SendMessage \/ StoreOffset \/ Resend

NetThread(s) == RunPosted(s) \/ WriteOk(s) \/ WriteError(s) \/ RemoveTCPSession(s)

Next == Clients \/ Login \/ Strand \/ (\E s \in Sessions : NetThread(s))

Spec == Init /\ [][Next]_vars

-----------------------------------------------------------------------------
(* Properties *)

Packages == [id : Nat \ {0}, nth : Nat \ {0}, acct : Accounts \cup {NoAccount}, cmd : Nat,
             shouldCache : BOOLEAN]

\* Every variable has its type.
TypeOK ==
    /\ conn \in [Sessions -> {"none", "open", "closed"}]
    /\ handle \in [Sessions -> Handles \cup {NoHandle}]
    /\ reading \in [Sessions -> BOOLEAN] /\ writing \in [Sessions -> 0..1]
    /\ removing \subseteq Sessions
    /\ \A s \in Sessions : request[s] \in LoginRequests[s] \cup {NoRequest}
    /\ logins \in Seq(Sessions)
    /\ loginAcctKeys \in [Sessions -> SUBSET Accounts]
    /\ acctKey2TCPSessions \in [Accounts -> [Handles -> Sessions \cup {NoSession}]]
    /\ messages \subseteq Packages
    /\ sendingMessageQueue \in [Sessions -> Seq(messages)]
    /\ sent \in [Sessions -> Seq(messages)]

\* All that was sent to a session or is on its way to it, in order: what its socket
\* took, what is queued, and what waits for its strand, some of it writes.
Line(s) ==
    LET taken == sent[s] \o sendingMessageQueue[s]
    IN  [i \in DOMAIN taken |-> Push(taken[i])] \o posted[s]

Pushed(s) == LET line == Line(s) IN {i \in DOMAIN line : line[i].op = "push"}

StreamIds(s) == LET line == Line(s) IN {line[i].pkg.id : i \in Pushed(s)}

LoggedIn(s) == conn[s] = "open" /\ request[s] # NoRequest /\ loginAcctKeys[s] # {}

WritesPosted(s) == {i \in DOMAIN posted[s] : posted[s][i].op = "write"}

\* The write chain: on an open socket a queue that is not empty has exactly one
\* write under way or posted, and an empty one has none.  A second write would
\* overwrite the buffer of the first; none would silence the session for good.
OneWriteAtATime ==
    \A s \in Sessions : conn[s] = "open" =>
        IF sendingMessageQueue[s] = <<>>
        THEN writing[s] = 0 /\ WritesPosted(s) = {}
        ELSE \/ writing[s] = 1 /\ WritesPosted(s) = {}
             \/ writing[s] = 0 /\ \E i \in DOMAIN posted[s] : WritesPosted(s) = {i}

\* A client that did not ask for old messages receives each one once, in the order
\* in which the server sent them, whichever threads did and whatever their numbers.
NoneOvertakes ==
    \A s \in Sessions :
        (request[s] # NoRequest /\ ~request[s].resend) =>
            LET line == Line(s)
            IN  \A i, j \in Pushed(s) : i < j => line[i].pkg.nth < line[j].pkg.nth

\* No other connection ever had this session's handle.
SoleHandle(s) == \A t \in Sessions \ {s} : handle[t] # handle[s]

\* A client that is logged in misses nothing: every message of its account since
\* the login is on its way to it, and so is every cached one from the number it
\* named, unless the strand has yet to resend.  True of a session whose socket
\* handle was never used by another one.
NothingMissed ==
    \A s \in Sessions : (LoggedIn(s) /\ SoleHandle(s)) =>
        LET req == request[s]
            Named(m) ==
                \/ m.cmd = CMD_NOTIFY_Order /\ req.order > 0 /\ m.id >= req.order
                \/ m.cmd = CMD_NOTIFY_Trade /\ req.trade > 0 /\ m.id >= req.trade
                \/ m.cmd = CMD_NOTIFY_AlgoExecutionInfo /\ req.algo > 0 /\ m.id >= req.algo
            ids == StreamIds(s)
            resent == req.resend /\ ResendTask(s, req) \notin {strand[i] : i \in DOMAIN strand}
        IN  \A m \in messages : m.acct = req.acct =>
                /\ m.nth > since[s] => m.id \in ids
                /\ (resent /\ m.shouldCache /\ Named(m)) => m.id \in ids
==============================================================================
