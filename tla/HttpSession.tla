---------------------------- MODULE HttpSession ----------------------------
(***************************************************************************)
(* http_open(), http_close() of ST87M01_CellularContext and the            *)
(* ST87M01_HTTP client, over the socket_connect() of TcpConnect.           *)
(*                                                                         *)
(* One thread of the application makes the calls.  Each AT command has the *)
(* lock for itself only; the link, the server and the URCs go on between   *)
(* any two.  The variables of TcpConnect describe the socket of the        *)
(* session; the entries of earlier sessions stay in the table with their   *)
(* ids, which the modem gives out again.  A request is its number.         *)
(***************************************************************************)
EXTENDS TcpConnect

CONSTANTS
  SocketCount,   \* entries of the stack's socket table
  MaxSockets,    \* ids of the modem's sockets
  MaxRequests,   \* requests sent
  MaxRefused     \* HTTP and socket commands that fail

ASSUME SocketCountAssumption == SocketCount \in Nat \ {0}
ASSUME MaxSocketsAssumption  == MaxSockets \in Nat \ {0}
ASSUME MaxRequestsAssumption == MaxRequests \in Nat
ASSUME MaxRefusedAssumption  == MaxRefused \in Nat

Slots  == 0 .. SocketCount - 1
Ids    == 0 .. MaxSockets - 1
NoSlot == -1
NoId   == -1
Unused == -2

VARIABLES
  app,        \* the call in progress and its next command
  session,    \* _http_socket_id
  attached,   \* ST87M01_HTTP::_socket_id
  started,    \* ST87M01_HTTP::_http_started
  own,        \* history: the application attached the client itself
  table,      \* slot -> id of a session's entry, NoId before create, or Unused
  mine,       \* the slot of the session's socket
  shut,       \* slots of earlier sessions whose entry is marked closed
  assigned,   \* ids of the modem's sockets
  lost,       \* history: of these, whose #SOCKETCLOSE or #SOCKETCREATE failed
  told,       \* history: ids a #SOCKETCLOSED was handled for
  running,    \* the modem's HTTP stack
  pending,    \* requests whose response may still come and was not fetched
  sent,       \* requests sent
  got,        \* request of the response handed over last; 0 for none
  gaveUp,     \* history: a call returned an error after its #HTTPSEND
  refused

tcpvars  == vars
client   == <<session, attached, started, own>>
entries  == <<table, mine, shut>>
modem    == <<assigned, lost>>
exchange == <<pending, sent, got, gaveUp>>
allvars  == <<tcpvars, app, client, entries, modem, told, running, exchange, refused>>

Idle == [pc |-> "idle", op |-> "none"]
At(p) == app.pc = p
Do(p, o) == app' = [pc |-> p, op |-> o]
Go(p) == Do(p, app.op)
Return == app' = Idle

SessionInit ==
  /\ Init
  /\ app = Idle
  /\ session = NoId /\ attached = NoId /\ started = FALSE /\ own = FALSE
  /\ table = [e \in Slots |-> Unused] /\ mine = NoSlot /\ shut = {}
  /\ assigned = {} /\ lost = {} /\ told = {}
  /\ running = FALSE
  /\ pending = {} /\ sent = 0 /\ got = 0 /\ gaveUp = FALSE
  /\ refused = 0

\* A command is acknowledged, or fails: refused, or its answer was lost.  What
\* stands before the answer on the UART has been handled.
Acked  == ~urc /\ UNCHANGED refused
Failed == ~urc /\ refused < MaxRefused /\ refused' = refused + 1

\* The variables of TcpConnect are those of no socket.
NoSocket ==
  /\ link' = "idle" /\ urc' = FALSE /\ connected' = FALSE /\ closed' = FALSE
  /\ UNCHANGED <<pc, status, attempt, polls, faults>>

-----------------------------------------------------------------------------
(* The table and the modem's sockets.                                       *)

\* find_socket(): the first entry with the id.
Holders(i)    == {e \in Slots : table[e] = i}
FindSocket(i) == CHOOSE e \in Holders(i) : \A f \in Holders(i) : e <= f

\* An earlier session's entry stands before the session's own.
Hidden == mine # NoSlot /\ table[mine] \in Ids /\ FindSocket(table[mine]) # mine

\* The entry is marked closed: CellularSocket::closed.
MarkedClosed(e) == IF e = mine THEN closed ELSE e \in shut

ModemClose(i) ==
  \/ Acked /\ assigned' = assigned \ {i} /\ lost' = lost \ {i}
  \/ Failed /\ assigned' \in {assigned, assigned \ {i}} /\ lost' = (lost \cup {i}) \cap assigned'

\* socket_close_impl(): nothing is sent when the entry found is marked closed.
SkipsClose(i) == i = NoId \/ MarkedClosed(FindSocket(i))
SocketClose(i) ==
  \/ SkipsClose(i) /\ UNCHANGED <<modem, refused>>
  \/ ~SkipsClose(i) /\ ModemClose(i)

-----------------------------------------------------------------------------
(* stop(), and what the call that needed it does next.                      *)

Attach(i, byApp) == attached' = i /\ own' = byApp

\* A bug: http_close() does not detach the client.
AfterStopAttached(op) ==
  \/ op = "stop" /\ UNCHANGED <<attached, own>> /\ Return
  \/ op = "attach" /\ (\E i \in Ids : Attach(i, TRUE)) /\ Return
  \/ op = "detach" /\ Attach(NoId, FALSE) /\ Return
  \/ op \in {"open", "close"} /\ UNCHANGED <<attached, own>> /\ Do("close", op)
  \/ op = "session" /\ Attach(table[mine], FALSE) /\ Do("start", "open")

AfterStop(op) ==
  \/ op = "stop" /\ UNCHANGED <<attached, own>> /\ Return
  \/ op = "attach" /\ (\E i \in Ids : Attach(i, TRUE)) /\ Return
  \/ op = "detach" /\ Attach(NoId, FALSE) /\ Return
  \/ op \in {"open", "close"} /\ Attach(NoId, FALSE) /\ Do("close", op)
  \/ op = "session" /\ Attach(table[mine], FALSE) /\ Do("start", "open")

Stop(op) ==
  /\ At("idle")
  /\ IF started THEN Do("stop", op) /\ UNCHANGED <<attached, own>> ELSE AfterStop(op)
  /\ UNCHANGED <<tcpvars, session, started, entries, modem, told, running, exchange, refused>>

\* #HTTPSTOP: the client takes itself for stopped whatever the answer is.
StopDone ==
  /\ At("stop")
  /\ \/ Acked /\ running' = FALSE
     \/ Failed /\ running' \in {running, FALSE}
  /\ started' = FALSE
  /\ AfterStop(app.op)
  /\ UNCHANGED <<tcpvars, session, entries, modem, told, exchange>>

\* The application stops or detaches the client itself, or attaches it to any
\* socket id, its own or the session's.
ClientStop   == started /\ Stop("stop")
ClientDetach == attached # NoId /\ Stop("detach")
ClientAttach == Stop("attach")

-----------------------------------------------------------------------------
(* http_close().                                                            *)

HttpClose == session # NoId /\ Stop("close")

\* close_tcp_session(): the entry stays in the table, with its id.
CloseDone ==
  /\ At("close")
  /\ SocketClose(table[mine])
  /\ session' = NoId /\ mine' = NoSlot /\ NoSocket
  /\ shut' = IF closed THEN shut \cup {mine} ELSE shut
  /\ IF app.op = "open" THEN Go("dns") ELSE Return
  /\ UNCHANGED <<attached, started, own, table, told, running, exchange>>

-----------------------------------------------------------------------------
(* http_open().                                                             *)

\* An open session is closed first.
HttpOpen ==
  \/ session # NoId /\ Stop("open")
  \/ /\ session = NoId /\ At("idle")
     /\ Do("dns", "open")
     /\ UNCHANGED <<tcpvars, client, entries, modem, told, running, exchange, refused>>

\* gethostbyname(): a result counts although an error follows it, and OK without
\* a result is a failure, so that the answer alone does not tell.
NameAnswered == Acked \/ Failed

\* A bug: a full table is overwritten.
ResolveNoCheck ==
  /\ At("dns") /\ NameAnswered
  /\ mine' = (IF \E e \in Slots : table[e] = Unused
              THEN CHOOSE e \in Slots : table[e] = Unused ELSE SocketCount)
  /\ table' = [e \in Slots \cup {mine'} |-> IF e = mine' THEN NoId ELSE table[e]]
  /\ Go("create")
  /\ UNCHANGED <<tcpvars, client, shut, modem, told, running, exchange>>

\* With the address, socket_open() takes the first entry that is free; sockets of
\* the application may be in those before it.
Resolve ==
  /\ At("dns") /\ NameAnswered
  /\ \/ /\ \E e \in Slots :
             table[e] = Unused /\ mine' = e /\ table' = [table EXCEPT ![e] = NoId]
        /\ Go("create")
     \/ Return /\ UNCHANGED <<table, mine>>
  /\ UNCHANGED <<tcpvars, client, shut, modem, told, running, exchange>>

\* create_socket_impl() at the head of socket_connect().  A modem that refuses, or
\* whose answer was lost, leaves the entry without id.
CreateFails ==
  /\ \/ assigned = Ids /\ Acked /\ UNCHANGED modem
     \/ Failed /\ UNCHANGED modem
     \/ \E i \in Ids \ assigned :
          Failed /\ assigned' = assigned \cup {i} /\ lost' = lost \cup {i}
  /\ Go("abort")
  /\ UNCHANGED <<tcpvars, table>>

CreateDone ==
  /\ \E i \in Ids \ assigned :
       /\ Acked
       /\ assigned' = assigned \cup {i} /\ lost' = lost \ {i}
       /\ table' = [table EXCEPT ![mine] = i]
  /\ Call /\ Go("connect")

Create ==
  /\ At("create")
  /\ CreateDone \/ CreateFails
  /\ UNCHANGED <<client, mine, shut, told, running, exchange>>

Connecting ==
  /\ \/ FirstQuery \/ Poll \/ PollQuery \/ Issue \/ CommandEnds \/ CheckQuery \/ Unlock
  /\ UNCHANGED <<app, client, entries, modem, told, running, exchange, refused>>

\* socket_connect() has succeeded; the client is attached to the socket, and
\* stopped before, should it run on a socket of the application.
Connected ==
  /\ At("connect") /\ Mark
  /\ \/ started /\ Do("stop", "session") /\ UNCHANGED <<attached, own>>
     \/ ~started /\ AfterStop("session")
  /\ UNCHANGED <<session, started, entries, modem, told, running, exchange, refused>>

\* A bug: a socket that does not connect is created again, without limit.
NotConnectedRetries ==
  /\ At("connect") /\ Fail
  /\ Go("create")
  /\ UNCHANGED <<client, entries, modem, told, running, exchange, refused>>

NotConnected ==
  /\ At("connect") /\ Fail
  /\ Go("abort")
  /\ UNCHANGED <<client, entries, modem, told, running, exchange, refused>>

\* A bug: the entry of a failed connect goes, its socket is not closed.
AbortKeepsSocket ==
  /\ At("abort")
  /\ mine' = NoSlot /\ NoSocket
  /\ table' = [table EXCEPT ![mine] = Unused]
  /\ Return
  /\ UNCHANGED <<client, shut, modem, told, running, exchange, refused>>

\* socket_close() gives the entry back.
Abort ==
  /\ At("abort")
  /\ SocketClose(table[mine])
  /\ mine' = NoSlot /\ NoSocket
  /\ table' = [table EXCEPT ![mine] = Unused]
  /\ Return
  /\ UNCHANGED <<client, shut, told, running, exchange>>

\* #HTTPSTART; a modem whose HTTP stack still runs may refuse it.
StartAcked == Acked /\ running' = TRUE /\ started' = TRUE
StartFails ==
  /\ Failed \/ (running /\ Acked)
  /\ running' \in {running, TRUE}
  /\ UNCHANGED started

\* A bug: a session whose client did not start stays attached.
OpenStartKeeps ==
  /\ At("start")
  /\ \/ StartAcked /\ session' = table[mine] /\ Return /\ UNCHANGED <<attached, own>>
     \/ StartFails /\ Do("close", "failed") /\ UNCHANGED <<session, attached, own>>
  /\ UNCHANGED <<tcpvars, entries, modem, told, exchange>>

OpenStart ==
  /\ At("start")
  /\ \/ StartAcked /\ session' = table[mine] /\ Return /\ UNCHANGED <<attached, own>>
     \/ StartFails /\ Do("close", "failed") /\ Attach(NoId, FALSE) /\ UNCHANGED session
  /\ UNCHANGED <<tcpvars, entries, modem, told, exchange>>

-----------------------------------------------------------------------------
(* start(), get() and post().                                               *)

\* The client needs a socket id; a request starts it if it is not started.
ClientStart ==
  /\ At("idle") /\ attached # NoId /\ ~started
  /\ Do("restart", "start")
  /\ UNCHANGED <<tcpvars, client, entries, modem, told, running, exchange, refused>>

Request(op) ==
  /\ At("idle") /\ attached # NoId /\ sent < MaxRequests
  /\ Do(IF started THEN "method" ELSE "restart", op)
  /\ UNCHANGED <<tcpvars, client, entries, modem, told, running, exchange, refused>>

RequestStart ==
  /\ At("restart")
  /\ \/ StartAcked /\ app.op # "start" /\ Go("method")
     \/ StartAcked /\ app.op = "start" /\ Return
     \/ StartFails /\ Return
  /\ UNCHANGED <<tcpvars, session, attached, own, entries, modem, told, exchange>>

\* #HTTPMETHOD; post() may add a header.
Method ==
  /\ At("method")
  /\ \/ Acked /\ Go("send")
     \/ Acked /\ app.op = "post" /\ Go("header")
     \/ Failed /\ Return
  /\ UNCHANGED <<tcpvars, client, entries, modem, told, running, exchange>>

Header ==
  /\ At("header")
  /\ \/ Acked /\ Go("send")
     \/ Failed /\ Return
  /\ UNCHANGED <<tcpvars, client, entries, modem, told, running, exchange>>

Sent == sent' = sent + 1 /\ pending' = pending \cup {sent'} /\ UNCHANGED got

\* What the modem makes of #HTTPSEND: over the session's socket it depends on the
\* link; another socket the application attached may be connected or not.
MayCarry  == attached = session => link = "connected"
MayRefuse == ~(attached = session /\ link = "connected")

\* A bug: post() does not wait for the response.
SendAndForget ==
  /\ At("send")
  /\ \/ Acked /\ MayCarry /\ Sent /\ UNCHANGED gaveUp
        /\ IF app.op = "post" THEN Return ELSE Go("read")
     \/ Acked /\ MayRefuse /\ Return /\ UNCHANGED exchange
     \/ Failed /\ Return /\ UNCHANGED exchange
     \/ Failed /\ Return /\ Sent /\ gaveUp' = TRUE
  /\ UNCHANGED <<tcpvars, client, entries, modem, told, running>>

\* #HTTPSEND.
Send ==
  /\ At("send")
  /\ \/ Acked /\ MayCarry /\ Sent /\ Go("read") /\ UNCHANGED gaveUp
     \/ Acked /\ MayRefuse /\ Return /\ UNCHANGED exchange
     \/ Failed /\ Return /\ UNCHANGED exchange
     \/ Failed /\ Return /\ Sent /\ gaveUp' = TRUE
  /\ UNCHANGED <<tcpvars, client, entries, modem, told, running>>

\* One #HTTPREAD: whichever response the modem has, or nothing (TIMEOUT), or a
\* failure.  A response that gets lost is one that is never fetched.
Read ==
  /\ At("read") /\ Return
  /\ \/ Acked /\ (\E r \in pending : got' = r /\ pending' = pending \ {r}) /\ UNCHANGED gaveUp
     \/ (Acked \/ Failed) /\ UNCHANGED <<got, pending>> /\ gaveUp' = TRUE
  /\ UNCHANGED <<tcpvars, client, entries, modem, told, running, sent>>

-----------------------------------------------------------------------------
(* The network and the URCs.                                                *)

\* urc_socketclosed() finds the session's entry.
UrcToSession ==
  /\ ~Hidden /\ UrcSocketclosed
  /\ told' = told \cup {table[mine]}
  /\ UNCHANGED <<app, client, entries, modem, running, exchange, refused>>

\* It finds the entry of an earlier session, which had the id before.
UrcToOldEntry ==
  /\ Hidden /\ urc
  /\ urc' = FALSE
  /\ shut' = shut \cup {FindSocket(table[mine])}
  /\ told' = told \cup {table[mine]}
  /\ UNCHANGED <<link, pc, status, attempt, polls, connected, closed, faults>>
  /\ UNCHANGED <<app, client, table, mine, modem, running, exchange, refused>>

Network ==
  /\ Decide \/ PeerCloses \/ Gone
  /\ UNCHANGED <<app, client, entries, modem, told, running, exchange, refused>>

\* The modem may free the id of a socket whose peer has closed it.
PeerCloseFrees ==
  /\ session \in assigned /\ link = "idle"
  /\ assigned' = assigned \ {session} /\ lost' = lost \ {session}
  /\ UNCHANGED <<tcpvars, app, client, entries, told, running, exchange, refused>>

\* The peer closes a socket that a session has left behind.
LeftSocketCloses(i) ==
  /\ i \in assigned /\ (mine # NoSlot => table[mine] # i)
  /\ assigned' \in {assigned, assigned \ {i}} /\ lost' = lost \cap assigned'
  /\ shut' = (IF Holders(i) = {} THEN shut ELSE shut \cup {FindSocket(i)})
  /\ told' = told \cup {i}
  /\ UNCHANGED <<tcpvars, app, client, table, mine, running, exchange, refused>>

UrcHandled == UrcToSession \/ UrcToOldEntry

AppStep ==
  \/ StopDone \/ CloseDone
  \/ Resolve \/ Create \/ Connected \/ NotConnected \/ Abort \/ OpenStart
  \/ RequestStart \/ Method \/ Header \/ Send \/ Read

SessionNext ==
  \/ HttpOpen \/ HttpClose \/ ClientStop \/ ClientDetach \/ ClientAttach \/ ClientStart
  \/ \E op \in {"get", "post"} : Request(op)
  \/ AppStep \/ Connecting
  \/ UrcHandled \/ Network \/ PeerCloseFrees \/ \E i \in Ids : LeftSocketCloses(i)

\* The calling thread runs, commands are answered or time out, URCs are handled.
SessionFairness == WF_allvars(AppStep) /\ WF_allvars(Connecting) /\ WF_allvars(UrcHandled)

SessionSpec == SessionInit /\ [][SessionNext]_allvars /\ SessionFairness

-----------------------------------------------------------------------------
\* The state of connect(), session after session, and of the client stays in its
\* range, the session in the table.
SessionTypeOK ==
  /\ TypeOK
  /\ app \in [pc : {"idle", "stop", "close", "dns", "create", "connect", "abort",
                    "start", "restart", "method", "header", "send", "read"},
              op : {"none", "open", "close", "failed", "session", "detach", "attach",
                    "stop", "start", "get", "post"}]
  /\ session \in Ids \cup {NoId} /\ attached \in Ids \cup {NoId}
  /\ started \in BOOLEAN /\ own \in BOOLEAN
  /\ table \in [Slots -> Ids \cup {NoId, Unused}]
  /\ mine \in Slots \cup {NoSlot} /\ shut \subseteq Slots
  /\ assigned \subseteq Ids /\ lost \subseteq Ids /\ told \subseteq Ids
  /\ running \in BOOLEAN
  /\ pending \subseteq 1 .. MaxRequests
  /\ sent \in 0 .. MaxRequests /\ got \in 0 .. MaxRequests /\ gaveUp \in BOOLEAN
  /\ refused \in 0 .. MaxRefused

\* While http_is_open(), the session's entry has its id and a link that is up, or
\* whose end it was told or is about to be -- unless the entry of an earlier
\* session with the same id takes the #SOCKETCLOSED that is meant for it.
SessionHasLink ==
  session # NoId =>
    /\ mine # NoSlot /\ table[mine] = session /\ pc = "off"
    /\ link = "connected" \/ urc \/ closed \/ Hidden

\* Every command of a request, #HTTPSEND with its socket id above all, is sent by
\* a started client that has a socket: that of the open session, unless the
\* application has attached the client to another one.
RequestsUseSession ==
  app.pc \in {"method", "header", "send", "read"} =>
    /\ started /\ attached # NoId
    /\ own \/ (attached = session /\ mine # NoSlot /\ table[mine] = session)

\* Whichever command failed, between sessions no client is attached or started but
\* the application's own, and the modem's HTTP stack runs on without one only if a
\* command was refused.
NoClientLeft ==
  /\ At("idle") /\ session = NoId => (attached # NoId => own) /\ mine = NoSlot
  /\ At("idle") => (started => attached # NoId) /\ (running /\ ~started => refused > 0)

\* A session that ends, or an http_open() that fails, leaves its socket on the
\* modem only if a command about it failed, or a #SOCKETCLOSED was handled for its
\* id, which makes the driver skip AT#SOCKETCLOSE.
SocketsAccounted ==
  \A i \in assigned : (mine # NoSlot /\ table[mine] = i) \/ i \in lost \/ i \in told

\* A response that get() or post() hands over is that of their own request, unless
\* a call has returned an error after its #HTTPSEND: its response comes later.
AnswersItsRequest == [][got' # got => got' = sent \/ gaveUp]_allvars

\* A call is in progress, of the context or of the client.
Busy == ~At("idle")

\* What the call still has to do, at most: with the connect() of an http_open()
\* in full.
OpenLeft == StepsFrom(0) + 6
CallLeft ==
  CASE app.pc = "idle"                             -> 0
    [] app.pc \in {"abort", "read"}                -> 1
    [] app.pc \in {"start", "send"}                -> 2
    [] app.pc = "header"                           -> 3
    [] app.pc = "method"                           -> 4
    [] app.pc = "restart"                          -> 5
    [] app.pc = "connect"                          -> StepsLeft + 3
    [] app.pc = "create"                           -> OpenLeft - 1
    [] app.pc = "dns"                              -> OpenLeft
    [] app.pc = "close"                            -> IF app.op = "open" THEN OpenLeft + 1 ELSE 1
    [] app.pc = "stop" /\ app.op = "open"          -> OpenLeft + 2
    [] app.pc = "stop" /\ app.op = "session"       -> 3
    [] app.pc = "stop" /\ app.op = "close"         -> 2
    [] app.pc = "stop" /\ app.op \notin {"open", "session", "close"} -> 1

\* No call goes round in circles: whichever command fails, each step of the call
\* leaves less to do, and the network, the server and the URCs leave no more.
CallShortens ==
  [][Busy => CallLeft' \in 0 .. CallLeft /\ (AppStep \/ Connecting => CallLeft' # CallLeft)]_allvars

\* A session that is over has given its entry of the socket table back.
EntriesReturned == At("idle") /\ session = NoId => \A e \in Slots : table[e] = Unused
=============================================================================
