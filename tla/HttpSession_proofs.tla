------------------------- MODULE HttpSession_proofs -------------------------
(***************************************************************************)
(* Proofs for the HTTP session over connect(), for every size of the       *)
(* socket table, any number of ids, of requests and of failed commands:    *)
(* what a request may rely on, what a session leaves behind, whose response*)
(* is handed over, and that the calls end.                                 *)
(***************************************************************************)
EXTENDS HttpSession, TcpConnect_proofs, WellFoundedInduction

\* http_open() holds an entry that is not the session's yet, or not any more.
Midway ==
  \/ app.pc \in {"create", "connect", "abort", "start"}
  \/ app.pc = "close" /\ app.op = "failed"
  \/ app.pc = "stop" /\ app.op = "session"

\* Which entry the variables of TcpConnect belong to, call by call.
SlotInv ==
  /\ app.pc = "connect" <=> pc # "off"
  /\ mine # NoSlot <=> session # NoId \/ Midway
  /\ session # NoId => ~Midway /\ app.pc # "dns" /\ table[mine] = session
  /\ Midway /\ app.pc \notin {"create", "abort"} => table[mine] \in Ids
  /\ app.pc = "create" => table[mine] = NoId
  /\ app.pc = "close" => app.op \in {"open", "close", "failed"}
  /\ app.pc = "stop" => app.op \in {"open", "close", "session", "detach", "attach", "stop"}
  /\ app.pc \in {"stop", "close"} /\ app.op \in {"open", "close"} => session # NoId

\* Only a socket with an id has a link, and is told of its end.
HeldInv == link # "idle" \/ urc \/ connected \/ closed => mine # NoSlot /\ table[mine] \in Ids

\* A session begins connected; only #SOCKETCLOSED ends that.
UpInv ==
  session # NoId \/ app.pc = "start" \/ (app.pc = "stop" /\ app.op = "session")
    => connected \/ closed

\* What the client thinks, call by call.
ClientInv ==
  /\ started => attached # NoId
  /\ app.pc = "start" => ~started /\ attached = table[mine]
  /\ app.pc = "restart" => ~started /\ attached # NoId
  /\ app.pc \in {"method", "header", "send", "read"} => started
  /\ app.pc = "close" => ~started /\ attached = NoId
  /\ attached # NoId => own \/ (mine # NoSlot /\ attached = table[mine]
                                /\ (session # NoId \/ app.pc = "start"))

\* A stack of the modem that runs on has refused a command or lost its answer.
RunningInv == running /\ ~started => refused > 0

\* An entry is marked closed for an id that was told.
ToldInv ==
  /\ SocketsAccounted
  /\ \A e \in shut : table[e] \in told /\ e # mine
  /\ closed => table[mine] \in told

\* One response is due at most, that of the request in progress, until a call has
\* given up on one.
ExchangeInv ==
  ~gaveUp => pending \subseteq {sent} /\ (app.pc # "read" => pending = {})

\* A request that is on its way to #HTTPSEND is not one too many.
RoomInv ==
  app.pc \in {"method", "header", "send"} \/ (app.pc = "restart" /\ app.op # "start")
    => sent < MaxRequests

SessionInv ==
  /\ ControlInv /\ SessionTypeOK
  /\ SlotInv /\ HeldInv /\ UpInv
  /\ Hidden \/ LinkInv
  /\ ClientInv /\ RunningInv /\ ToldInv /\ ExchangeInv /\ RoomInv

-----------------------------------------------------------------------------
(* The groups of steps, and what each leaves alone.                         *)

Quiet ==
  \/ Connecting \/ UrcHandled \/ Network \/ PeerCloseFrees \/ UNCHANGED allvars
  \/ \E i \in Ids : LeftSocketCloses(i)
Stops ==
  \/ session # NoId /\ HttpOpen
  \/ HttpClose \/ ClientStop \/ ClientDetach \/ ClientAttach \/ StopDone \/ Connected
Opens ==
  \/ session = NoId /\ HttpOpen
  \/ CloseDone \/ Resolve \/ Create \/ NotConnected \/ Abort \/ OpenStart
Asks ==
  \/ ClientStart \/ \E op \in {"get", "post"} : Request(op)
  \/ RequestStart \/ Method \/ Header \/ Send \/ Read

LEMMA Steps == ASSUME [SessionNext]_allvars PROVE Quiet \/ Stops \/ Opens \/ Asks
BY DEF SessionNext, AppStep, Quiet, Stops, Opens, Asks, HttpOpen

LEMMA QuietKeeps ==
  ASSUME Quiet
  PROVE  UNCHANGED <<app, session, attached, started, own, table, mine, running,
                     pending, sent, got, gaveUp, refused>>
<1> USE DEF client, entries, exchange
<1>1. CASE Connecting \/ Network \/ UNCHANGED allvars
  BY <1>1 DEF Connecting, Network, allvars
<1>2. CASE UrcHandled
  BY <1>2 DEF UrcHandled, UrcToSession, UrcToOldEntry
<1>3. CASE PeerCloseFrees \/ \E i \in Ids : LeftSocketCloses(i)
  BY <1>3 DEF PeerCloseFrees, LeftSocketCloses
<1>4. QED
  BY <1>1, <1>2, <1>3 DEF Quiet

\* A call that stops the client first stands before the stop, or behind it.
StopOps == {"open", "close", "session", "detach", "attach", "stop"}

LEMMA StopCases ==
  ASSUME SessionTypeOK, SlotInv, Stops
  PROVE  \E op \in StopOps :
           /\ \/ started /\ Do("stop", op) /\ UNCHANGED <<attached, own, started, running, refused>>
              \/ AfterStop(op) /\ ~started' /\ (started => app.pc = "stop") /\ (Acked \/ Failed \/ refused' = refused)
           /\ op \in {"open", "close"} => session # NoId
           /\ op = "session" => app.pc = "connect" \/ (app.pc = "stop" /\ app.op = "session")
           /\ op # "session" => app.pc = "idle" \/ (app.pc = "stop" /\ app.op = op)
<1> USE DEF At, StopOps, client
<1>1. CASE StopDone
  <2>1. app.op \in StopOps /\ app.pc = "stop"
    BY <1>1 DEF StopDone, SlotInv
  <2>2. AfterStop(app.op) /\ ~started' /\ (Acked \/ Failed)
    BY <1>1 DEF StopDone
  <2>3. app.op \in {"open", "close"} => session # NoId
    BY <2>1 DEF SlotInv
  <2>4. QED
    BY <2>1, <2>2, <2>3
<1>2. CASE Connected
  <2>1. app.pc = "connect" /\ UNCHANGED <<started, running, refused>>
    BY <1>2 DEF Connected
  <2>2. \/ started /\ Do("stop", "session") /\ UNCHANGED <<attached, own>>
        \/ ~started /\ AfterStop("session")
    BY <1>2 DEF Connected
  <2>3. QED
    BY <2>1, <2>2 DEF SessionTypeOK
<1>3. ASSUME NEW op \in StopOps \ {"session"}, Stop(op), op \in {"open", "close"} => session # NoId
      PROVE  /\ app.pc = "idle" /\ UNCHANGED <<started, running, refused>>
             /\ \/ started /\ Do("stop", op) /\ UNCHANGED <<attached, own>>
                \/ ~started /\ AfterStop(op)
  BY <1>3 DEF Stop
<1>4. CASE \/ session # NoId /\ HttpOpen
           \/ HttpClose \/ ClientStop \/ ClientDetach \/ ClientAttach
  <2>1. PICK op \in StopOps \ {"session"} : Stop(op) /\ (op \in {"open", "close"} => session # NoId)
    BY <1>4 DEF HttpOpen, HttpClose, ClientStop, ClientDetach, ClientAttach
  <2>2. QED
    BY <1>3, <2>1 DEF SessionTypeOK
<1>5. QED
  BY <1>1, <1>2, <1>4 DEF Stops

LEMMA StopsKeep ==
  ASSUME Stops
  PROVE  /\ UNCHANGED <<session, table, mine, shut, assigned, lost, told>>
         /\ UNCHANGED <<pending, sent, got, gaveUp, link, urc, closed>>
         /\ Connected \/ UNCHANGED <<pc, connected>>
<1> USE DEF entries, modem, exchange, tcpvars, vars
<1>1. CASE StopDone
  BY <1>1 DEF StopDone
<1>2. CASE Connected
  BY <1>2 DEF Connected, Mark, CallEnds
<1>3. ASSUME NEW op, Stop(op)
      PROVE  UNCHANGED <<vars, session, entries, modem, told, exchange>>
  BY <1>3 DEF Stop
<1>4. QED
  BY <1>1, <1>2, <1>3 DEF Stops, HttpOpen, HttpClose, ClientStop, ClientDetach, ClientAttach

LEMMA AsksKeep ==
  ASSUME Asks
  PROVE  /\ UNCHANGED <<session, attached, own, table, mine, shut, assigned, lost, told>>
         /\ UNCHANGED vars
         /\ app'.pc \in {"idle", "restart", "method", "header", "send", "read"}
         /\ app.pc \in {"idle", "restart", "method", "header", "send", "read"}
<1> USE DEF entries, modem, tcpvars, client, Do, Go, Return, Idle, At
<1>1. CASE ClientStart
  BY <1>1 DEF ClientStart
<1>2. ASSUME NEW op \in {"get", "post"}, Request(op)
      PROVE  /\ UNCHANGED <<session, attached, own, table, mine, shut, assigned, lost, told, vars>>
             /\ app'.pc \in {"restart", "method"} /\ app.pc = "idle"
  BY <1>2 DEF Request
<1>3. CASE RequestStart
  BY <1>3 DEF RequestStart
<1>4. CASE Method \/ Header
  BY <1>4 DEF Method, Header
<1>5. CASE Send \/ Read
  BY <1>5 DEF Send, Read
<1>6. QED
  BY <1>1, <1>2, <1>3, <1>4, <1>5 DEF Asks

-----------------------------------------------------------------------------
(* The socket.                                                              *)

\* To TcpConnect, a step is one of its own, or the change to another socket, or a
\* #SOCKETCLOSED that is lost to this socket.
Missed == Hidden /\ urc' = FALSE
            /\ UNCHANGED <<link, pc, status, attempt, polls, connected, closed, faults>>

LEMMA SocketSteps ==
  ASSUME SlotInv, [SessionNext]_allvars
  PROVE  [Next]_vars \/ (NoSocket /\ pc = "off" /\ pc' = "off") \/ Missed
<1> USE DEF tcpvars
<1>1. CASE CloseDone \/ Abort
  <2>1. pc = "off" /\ NoSocket
    BY <1>1 DEF CloseDone, Abort, At, SlotInv
  <2>2. QED
    BY <2>1 DEF NoSocket
<1>2. CASE HttpOpen \/ Resolve \/ OpenStart
  BY <1>2 DEF HttpOpen, Stop, Resolve, OpenStart
<1>3. CASE Create
  BY <1>3 DEF Create, CreateDone, CreateFails, Next
<1>4. CASE NotConnected
  BY <1>4 DEF NotConnected, Next, Step
<1>5. CASE Stops
  <2>1. Connected \/ UNCHANGED vars
    BY <1>5, StopsKeep DEF Stops, HttpOpen, HttpClose, ClientStop, ClientDetach, ClientAttach, Stop,
       StopDone
  <2>2. QED
    BY <2>1 DEF Connected, Next, Step
<1>6. CASE Asks
  BY <1>6, AsksKeep
<1>7. CASE Quiet
  <2>1. CASE Connecting \/ Network \/ UNCHANGED allvars
    BY <2>1 DEF Connecting, Network, Next, Step, allvars
  <2>2. CASE UrcToSession
    BY <2>2 DEF UrcToSession, Next
  <2>3. CASE UrcToOldEntry
    BY <2>3 DEF UrcToOldEntry, Missed
  <2>4. CASE PeerCloseFrees \/ \E i \in Ids : LeftSocketCloses(i)
    BY <2>4 DEF PeerCloseFrees, LeftSocketCloses
  <2>5. QED
    BY <1>7, <2>1, <2>2, <2>3, <2>4 DEF Quiet, UrcHandled
<1>8. QED
  BY <1>1, <1>2, <1>3, <1>4, <1>5, <1>6, <1>7, Steps DEF Opens

LEMMA ControlSteps == ASSUME SessionInv, [SessionNext]_allvars PROVE ControlInv'
<1>1. ControlInv /\ SlotInv
  BY DEF SessionInv
<1>2. CASE NoSocket
  BY <1>1, <1>2 DEF NoSocket, ControlInv, TypeOK, Links
<1>3. CASE Missed
  <2>1. /\ UNCHANGED <<link, pc, status, attempt, polls, connected, closed, faults>>
        /\ urc' \in BOOLEAN
    BY <1>3 DEF Missed
  <2>2. QED
    BY <1>1, <2>1 DEF ControlInv, TypeOK, Links
<1>4. QED
  BY <1>1, <1>2, <1>3, SocketSteps, ControlStep

\* The table changes only between two sockets, when no link is there.
LEMMA TableKept ==
  ASSUME SlotInv, [SessionNext]_allvars
  PROVE  \/ UNCHANGED <<table, mine>>
         \/ mine = NoSlot /\ UNCHANGED vars
         \/ app.pc = "create" /\ UNCHANGED mine /\ Call
         \/ NoSocket /\ pc' = "off"
<1> USE DEF entries, At
<1>1. CASE Quiet \/ Stops \/ Asks
  BY <1>1, QuietKeeps, StopsKeep, AsksKeep
<1>2. CASE HttpOpen \/ NotConnected \/ OpenStart
  BY <1>2 DEF HttpOpen, Stop, NotConnected, OpenStart
<1>3. CASE CloseDone \/ Abort
  <2>1. pc = "off" /\ NoSocket
    BY <1>3 DEF CloseDone, Abort, At, SlotInv
  <2>2. QED
    BY <2>1 DEF NoSocket
<1>4. CASE Resolve
  BY <1>4 DEF Resolve, SlotInv, Midway, tcpvars
<1>5. CASE Create
  BY <1>5 DEF Create, CreateDone, CreateFails
<1>6. QED
  BY <1>1, <1>2, <1>3, <1>4, <1>5, Steps DEF Opens

LEMMA LinkSteps == ASSUME SessionInv, [SessionNext]_allvars PROVE (Hidden \/ LinkInv)'
<1>1. ControlInv /\ SlotInv /\ HeldInv /\ (Hidden \/ LinkInv)
  BY DEF SessionInv
<1>2. connected' = FALSE /\ pc' \notin {"loop", "mark"} => LinkInv'
  BY DEF LinkInv
<1>3. CASE UNCHANGED <<table, mine>>
  <2>1. Hidden' = Hidden
    BY <1>3 DEF Hidden, FindSocket, Holders
  <2>2. CASE Hidden \/ (NoSocket /\ pc' = "off")
    BY <1>2, <2>1, <2>2 DEF NoSocket
  <2>3. CASE ~Hidden /\ [Next]_vars
    BY <1>1, <2>3, LinkStep
  <2>4. Missed => Hidden
    BY DEF Missed
  <2>5. [Next]_vars \/ (NoSocket /\ pc = "off" /\ pc' = "off") \/ Missed
    BY <1>1, SocketSteps
  <2>6. QED
    BY <2>2, <2>3, <2>4, <2>5
<1>4. CASE mine = NoSlot /\ UNCHANGED vars
  <2>1. connected = FALSE /\ pc = "off"
    BY <1>1, <1>4 DEF HeldInv, SlotInv, Midway, ControlInv, TypeOK
  <2>2. QED
    BY <1>2, <1>4, <2>1 DEF vars
<1>5. CASE app.pc = "create" /\ Call
  <2>1. connected = FALSE
    BY <1>1, <1>5 DEF HeldInv, SlotInv, ControlInv, TypeOK, Ids, NoId
  <2>2. QED
    BY <1>2, <1>5, <2>1 DEF Call, sockvars
<1>6. CASE NoSocket /\ pc' = "off"
  BY <1>2, <1>6 DEF NoSocket
<1>7. QED
  BY <1>1, <1>3, <1>4, <1>5, <1>6, TableKept

-----------------------------------------------------------------------------
(* Types.                                                                   *)

Pcs == {"idle", "stop", "close", "dns", "create", "connect", "abort",
        "start", "restart", "method", "header", "send", "read"}
Ops == {"none", "open", "close", "failed", "session", "detach", "attach",
        "stop", "start", "get", "post"}

LEMMA AppIs ==
  ASSUME SessionTypeOK
  PROVE  app \in [pc : Pcs, op : Ops] /\ app.pc \in Pcs /\ app.op \in Ops
<1>1. app \in [pc : Pcs, op : Ops]
  BY DEF SessionTypeOK, Pcs, Ops
<1>2. QED
  BY <1>1

LEMMA AppSteps ==
  ASSUME SessionTypeOK, SlotInv, [SessionNext]_allvars
  PROVE  app' \in [pc : Pcs, op : Ops]
<1> USE AppIs DEF Do, Go, Return, Idle
<1>1. CASE app' = app
  BY <1>1
<1>2. ASSUME NEW p \in Pcs, app' = [pc |-> p, op |-> app.op] PROVE app' \in [pc : Pcs, op : Ops]
  BY <1>2
<1>3. ASSUME NEW p \in Pcs, NEW o \in Ops, app' = [pc |-> p, op |-> o]
      PROVE  app' \in [pc : Pcs, op : Ops]
  BY <1>3
<1>4. /\ \A p \in {"idle", "stop", "close", "dns", "create", "connect", "abort", "start",
                   "restart", "method", "header", "send", "read"} : p \in Pcs
      /\ \A o \in {"none", "open", "close", "failed", "session", "detach", "attach", "stop",
                   "start", "get", "post"} : o \in Ops
  BY DEF Pcs, Ops
<1>5. CASE Stops
  <2>1. PICK op \in StopOps : Do("stop", op) \/ AfterStop(op)
    BY <1>5, StopCases
  <2>2. QED
    BY <1>3, <1>4, <2>1 DEF AfterStop, StopOps
<1>6. CASE Opens
  <2>1. CASE HttpOpen /\ session = NoId
    BY <1>3, <1>4, <2>1 DEF HttpOpen
  <2>2. CASE CloseDone
    BY <1>2, <1>3, <1>4, <2>2 DEF CloseDone
  <2>3. CASE Resolve \/ NotConnected \/ Abort
    BY <1>2, <1>3, <1>4, <2>3 DEF Resolve, NotConnected, Abort
  <2>4. CASE Create
    BY <1>2, <1>4, <2>4 DEF Create, CreateDone, CreateFails
  <2>5. CASE OpenStart
    BY <1>3, <1>4, <2>5 DEF OpenStart
  <2>6. QED
    BY <1>6, <2>1, <2>2, <2>3, <2>4, <2>5 DEF Opens
<1>7. CASE Asks
  <2>1. ASSUME NEW op \in {"get", "post"}, Request(op) PROVE app' \in [pc : Pcs, op : Ops]
    BY <1>3, <1>4, <2>1 DEF Request
  <2>2. CASE ClientStart \/ RequestStart
    BY <1>2, <1>3, <1>4, <2>2 DEF ClientStart, RequestStart
  <2>3. CASE Method \/ Header
    BY <1>2, <1>3, <1>4, <2>3 DEF Method, Header
  <2>4. CASE Send \/ Read
    BY <1>2, <1>3, <1>4, <2>4 DEF Send, Read
  <2>5. QED
    BY <1>7, <2>1, <2>2, <2>3, <2>4 DEF Asks
<1>8. QED
  BY <1>1, <1>5, <1>6, <1>7, Steps, QuietKeeps

\* A command counts a failure at most once.
LEMMA Counted ==
  ASSUME SessionTypeOK, Acked \/ Failed \/ refused' = refused
  PROVE  refused' \in 0 .. MaxRefused /\ refused' \in {refused, refused + 1}
BY MaxRefusedAssumption DEF SessionTypeOK, Acked, Failed

LEMMA ClosesCounted ==
  ASSUME NEW i, SocketClose(i)
  PROVE  /\ Acked \/ Failed \/ refused' = refused
         /\ assigned' \subseteq assigned
         /\ lost' \subseteq assigned' \/ lost' \subseteq lost
BY DEF SocketClose, ModemClose, modem

LEMMA CountSteps ==
  ASSUME SessionTypeOK, SlotInv, [SessionNext]_allvars
  PROVE  Acked \/ Failed \/ refused' = refused
<1>1. CASE Quiet \/ Stops
  BY <1>1, QuietKeeps, StopCases
<1>2. CASE HttpOpen /\ session = NoId
  BY <1>2 DEF HttpOpen
<1>3. CASE CloseDone \/ Abort
  BY <1>3, ClosesCounted DEF CloseDone, Abort
<1>4. CASE Resolve \/ NotConnected \/ OpenStart
  BY <1>4 DEF Resolve, NameAnswered, NotConnected, OpenStart, StartAcked, StartFails
<1>5. CASE Create
  BY <1>5 DEF Create, CreateDone, CreateFails
<1>6. ASSUME NEW op \in {"get", "post"}, Request(op) PROVE refused' = refused
  BY <1>6 DEF Request
<1>7. CASE ClientStart \/ RequestStart
  BY <1>7 DEF ClientStart, RequestStart, StartAcked, StartFails
<1>8. CASE Method \/ Header \/ Send \/ Read
  BY <1>8 DEF Method, Header, Send, Read
<1>9. QED
  BY <1>1, <1>2, <1>3, <1>4, <1>5, <1>6, <1>7, <1>8, Steps DEF Opens, Asks

\* The client and the entries.
LEMMA ClientSteps ==
  ASSUME SessionInv, [SessionNext]_allvars
  PROVE  /\ session' \in Ids \cup {NoId} /\ attached' \in Ids \cup {NoId}
         /\ started' \in BOOLEAN /\ own' \in BOOLEAN /\ running' \in BOOLEAN
<1> USE DEF SessionTypeOK, SessionInv, Attach, client
<1>1. CASE Quiet
  BY <1>1, QuietKeeps
<1>2. CASE Stops
  <2>1. PICK op \in StopOps :
          \/ UNCHANGED <<attached, own, started, running, refused>>
          \/ AfterStop(op)
             /\ (op = "session" => app.pc = "connect" \/ (app.pc = "stop" /\ app.op = "session"))
    BY <1>2, StopCases
  <2>2. started' \in BOOLEAN /\ running' \in BOOLEAN
    <3>1. CASE StopDone
      BY <3>1 DEF StopDone
    <3>2. CASE ~StopDone
      BY <1>2, <3>2 DEF Stops, HttpOpen, HttpClose, ClientStop, ClientDetach, ClientAttach, Stop,
         Connected
    <3>3. QED
      BY <3>1, <3>2
  <2>3. CASE /\ AfterStop(op) /\ op = "session"
             /\ app.pc = "connect" \/ (app.pc = "stop" /\ app.op = "session")
    <3>1. table[mine] \in Ids
      BY <2>3 DEF SlotInv, Midway
    <3>2. QED
      BY <1>2, <2>2, <2>3, <3>1, StopsKeep DEF AfterStop
  <2>4. CASE AfterStop(op) /\ op # "session"
    BY <1>2, <2>2, <2>4, StopsKeep DEF AfterStop
  <2>5. QED
    BY <1>2, <2>1, <2>2, <2>3, <2>4, StopsKeep
<1>3. CASE HttpOpen /\ session = NoId
  BY <1>3 DEF HttpOpen
<1>4. CASE CloseDone \/ Resolve \/ Create \/ NotConnected \/ Abort
  BY <1>4 DEF CloseDone, Resolve, Create, NotConnected, Abort
<1>5. CASE OpenStart
  <2>1. table[mine] \in Ids
    BY <1>5 DEF OpenStart, SlotInv, Midway, At
  <2>2. started' \in BOOLEAN /\ running' \in BOOLEAN
    BY <1>5 DEF OpenStart, StartAcked, StartFails
  <2>3. QED
    BY <1>5, <2>1, <2>2 DEF OpenStart
<1>6. CASE Asks
  <2>1. CASE RequestStart
    BY <2>1 DEF RequestStart, StartAcked, StartFails
  <2>2. ASSUME NEW op \in {"get", "post"}, Request(op) PROVE UNCHANGED <<client, running>>
    BY <2>2 DEF Request
  <2>3. CASE ClientStart \/ Method \/ Header \/ Send \/ Read
    BY <2>3 DEF ClientStart, Method, Header, Send, Read
  <2>4. started' \in BOOLEAN /\ running' \in BOOLEAN
    BY <1>6, <2>1, <2>2, <2>3 DEF Asks
  <2>5. QED
    BY <1>6, <2>4, AsksKeep
<1>7. QED
  BY <1>1, <1>2, <1>3, <1>4, <1>5, <1>6, Steps DEF Opens

-----------------------------------------------------------------------------
(* The entries and the modem's sockets.                                     *)

LEMMA LeastOf ==
  ASSUME NEW T, T \subseteq Nat, T # {}
  PROVE  \E x \in T : \A y \in T : x <= y
<1> DEFINE R == OpToRel(<, Nat)
<1>1. PICK x \in T : \A y \in T : ~(<<y, x>> \in R)
  BY NatLessThanWellFounded, WFMin
<1>2. ASSUME NEW y \in T PROVE x <= y
  <2>1. x \in Nat /\ y \in Nat
    OBVIOUS
  <2>2. y < x => <<y, x>> \in R
    BY <2>1 DEF OpToRel
  <2>3. ~(y < x)
    BY <1>1, <2>2
  <2>4. QED
    BY <2>1, <2>3
<1>3. QED
  BY <1>2

\* find_socket() returns an entry with the id whenever there is one.
LEMMA FindSocketHolds ==
  ASSUME NEW i, Holders(i) # {}
  PROVE  FindSocket(i) \in Slots /\ table[FindSocket(i)] = i
<1>1. Holders(i) \subseteq Nat
  BY SocketCountAssumption DEF Holders, Slots
<1>2. \E e \in Holders(i) : \A f \in Holders(i) : e <= f
  BY <1>1, LeastOf
<1>3. FindSocket(i) \in Holders(i)
  BY <1>2 DEF FindSocket
<1>4. QED
  BY <1>3 DEF Holders

\* The entry of the session is one of those with its id.
LEMMA FindMine ==
  ASSUME SessionTypeOK, mine # NoSlot
  PROVE  FindSocket(table[mine]) \in Slots /\ table[FindSocket(table[mine])] = table[mine]
<1>1. mine \in Holders(table[mine])
  BY DEF SessionTypeOK, Holders
<1>2. QED
  BY <1>1, FindSocketHolds

LEMMA EntrySteps ==
  ASSUME SessionInv, [SessionNext]_allvars
  PROVE  /\ table' \in [Slots -> Ids \cup {NoId, Unused}] /\ mine' \in Slots \cup {NoSlot}
         /\ shut' \subseteq Slots
<1> USE DEF SessionInv, SessionTypeOK, entries
<1>1. CASE Connecting \/ Network \/ UrcToSession \/ PeerCloseFrees \/ UNCHANGED allvars
  BY <1>1 DEF Connecting, Network, UrcToSession, PeerCloseFrees, allvars
<1>2. CASE UrcToOldEntry
  <2>1. FindSocket(table[mine]) \in Slots
    BY <1>2, FindMine DEF UrcToOldEntry, Hidden
  <2>2. QED
    BY <1>2, <2>1 DEF UrcToOldEntry
<1>3. ASSUME NEW i \in Ids, LeftSocketCloses(i)
      PROVE  UNCHANGED <<table, mine>> /\ shut' \subseteq Slots
  BY <1>3, FindSocketHolds DEF LeftSocketCloses
<1>4. CASE Stops \/ Asks
  BY <1>4, StopsKeep, AsksKeep
<1>5. CASE HttpOpen \/ NotConnected \/ OpenStart
  BY <1>5 DEF HttpOpen, Stop, NotConnected, OpenStart
<1>6. CASE CloseDone
  <2>1. mine \in Slots
    BY <1>6 DEF CloseDone, At, SlotInv, Midway
  <2>2. QED
    BY <1>6, <2>1 DEF CloseDone
<1>7. CASE Resolve \/ Abort
  BY <1>7 DEF Resolve, Abort
<1>8. CASE Create
  BY <1>8 DEF Create, CreateDone, CreateFails
<1>9. QED
  BY <1>1, <1>2, <1>3, <1>4, <1>5, <1>6, <1>7, <1>8, Steps DEF Quiet, UrcHandled, Opens

LEMMA ModemSteps ==
  ASSUME SessionInv, [SessionNext]_allvars
  PROVE  assigned' \subseteq Ids /\ lost' \subseteq Ids /\ told' \subseteq Ids
<1> USE DEF SessionInv, SessionTypeOK, modem
<1>1. CASE Connecting \/ Network \/ PeerCloseFrees \/ UNCHANGED allvars
  BY <1>1 DEF Connecting, Network, PeerCloseFrees, allvars
<1>2. CASE UrcHandled
  <2>1. urc /\ told' = told \cup {table[mine]} /\ UNCHANGED modem
    BY <1>2 DEF UrcHandled, UrcToSession, UrcToOldEntry, UrcSocketclosed
  <2>2. table[mine] \in Ids
    BY <2>1 DEF HeldInv
  <2>3. QED
    BY <2>1, <2>2
<1>3. ASSUME NEW i \in Ids, LeftSocketCloses(i)
      PROVE  assigned' \subseteq Ids /\ lost' \subseteq Ids /\ told' \subseteq Ids
  BY <1>3 DEF LeftSocketCloses
<1>4. CASE Stops \/ Asks
  BY <1>4, StopsKeep, AsksKeep
<1>5. CASE HttpOpen \/ NotConnected \/ OpenStart \/ Resolve
  BY <1>5 DEF HttpOpen, Stop, NotConnected, OpenStart, Resolve
<1>6. CASE CloseDone \/ Abort
  BY <1>6, ClosesCounted DEF CloseDone, Abort
<1>7. CASE Create
  BY <1>7 DEF Create, CreateDone, CreateFails
<1>8. QED
  BY <1>1, <1>2, <1>3, <1>4, <1>5, <1>6, <1>7, Steps DEF Quiet, Opens

-----------------------------------------------------------------------------
(* The requests.                                                            *)

\* What is known of the exchange stays as it was, unless a request is sent, its
\* response is handed over, or the call gives up.
LEMMA ExchangeSteps ==
  ASSUME SessionInv, [SessionNext]_allvars
  PROVE  \/ UNCHANGED exchange /\ (app.pc = "read" => app'.pc = "read")
         \/ app.pc = "send" /\ Sent /\ (gaveUp' = TRUE \/ (gaveUp' = gaveUp /\ app'.pc = "read"))
         \/ /\ app.pc = "read" /\ app'.pc = "idle" /\ UNCHANGED <<sent, gaveUp>>
            /\ \E r \in pending : got' = r /\ pending' = pending \ {r}
         \/ UNCHANGED <<pending, sent, got>> /\ gaveUp' = TRUE
<1> USE DEF At, Do, Go, Return, Idle
<1>1. CASE Quiet
  BY <1>1, QuietKeeps DEF exchange
<1>2. CASE Stops
  <2>1. app.pc # "read"
    BY <1>2, StopCases DEF SessionInv
  <2>2. QED
    BY <1>2, <2>1, StopsKeep DEF exchange
<1>3. CASE HttpOpen /\ session = NoId
  BY <1>3 DEF HttpOpen
<1>4. CASE CloseDone \/ Resolve \/ NotConnected \/ Abort
  BY <1>4 DEF CloseDone, Resolve, NotConnected, Abort
<1>5. CASE Create \/ OpenStart
  <2>1. CASE Create
    BY <2>1 DEF Create, CreateDone, CreateFails
  <2>2. CASE OpenStart
    BY <2>2 DEF OpenStart, Attach
  <2>3. QED
    BY <1>5, <2>1, <2>2
<1>6. CASE ClientStart \/ RequestStart
  BY <1>6 DEF ClientStart, RequestStart
<1>7. ASSUME NEW op \in {"get", "post"}, Request(op)
      PROVE  UNCHANGED exchange /\ app.pc # "read"
  BY <1>7 DEF Request
<1>8. CASE Method \/ Header
  BY <1>8 DEF Method, Header
<1>9. CASE Send
  BY <1>9 DEF Send
<1>10. CASE Read
  BY <1>10 DEF Read
<1>11. QED
  BY <1>1, <1>2, <1>3, <1>4, <1>5, <1>6, <1>7, <1>8, <1>9, <1>10, Steps DEF Opens, Asks

ExchangeTyped ==
  /\ pending \subseteq 1 .. MaxRequests
  /\ sent \in 0 .. MaxRequests /\ got \in 0 .. MaxRequests /\ gaveUp \in BOOLEAN

LEMMA ExchangeTypes == ASSUME SessionInv, [SessionNext]_allvars PROVE ExchangeTyped'
<1> USE DEF SessionInv, SessionTypeOK, ExchangeTyped
<1>1. CASE UNCHANGED exchange
  BY <1>1 DEF exchange
<1>2. CASE app.pc = "send" /\ Sent /\ gaveUp' \in BOOLEAN
  BY <1>2, MaxRequestsAssumption DEF Sent, RoomInv
<1>3. ASSUME NEW r \in pending, got' = r, pending' = pending \ {r}, UNCHANGED <<sent, gaveUp>>
      PROVE  ExchangeTyped'
  BY <1>3, MaxRequestsAssumption
<1>4. CASE UNCHANGED <<pending, sent, got>> /\ gaveUp' = TRUE
  BY <1>4
<1>5. gaveUp \in BOOLEAN
  OBVIOUS
<1>6. QED
  BY <1>1, <1>2, <1>3, <1>4, <1>5, ExchangeSteps

LEMMA ExchangeKept == ASSUME SessionInv, [SessionNext]_allvars PROVE ExchangeInv'
<1> USE DEF ExchangeInv, SessionInv
<1>1. CASE UNCHANGED exchange /\ (app.pc = "read" => app'.pc = "read")
  <2>1. pending' = pending /\ sent' = sent /\ gaveUp' = gaveUp
    BY <1>1 DEF exchange
  <2>2. CASE gaveUp
    BY <2>1, <2>2
  <2>3. CASE ~gaveUp
    <3>1. pending' \subseteq {sent'}
      BY <2>1, <2>3
    <3>2. app'.pc # "read" => pending' = {}
      BY <1>1, <2>1, <2>3
    <3>3. QED
      BY <3>1, <3>2
  <2>4. QED
    BY <2>2, <2>3
<1>2. CASE app.pc = "send" /\ Sent /\ gaveUp' = gaveUp /\ app'.pc = "read"
  BY <1>2 DEF Sent
<1>3. CASE /\ app.pc = "read" /\ app'.pc = "idle" /\ UNCHANGED <<sent, gaveUp>>
           /\ \E r \in pending : got' = r /\ pending' = pending \ {r}
  BY <1>3
<1>4. CASE gaveUp' = TRUE
  BY <1>4
<1>5. QED
  BY <1>1, <1>2, <1>3, <1>4, ExchangeSteps

LEMMA AnswerStep ==
  ASSUME SessionInv, [SessionNext]_allvars, got' # got PROVE got' = sent \/ gaveUp
<1>1. PICK r \in pending : got' = r
  BY ExchangeSteps DEF exchange, Sent
<1>2. QED
  BY <1>1 DEF SessionInv, ExchangeInv

LEMMA RoomSteps == ASSUME SessionInv, [SessionNext]_allvars PROVE RoomInv'
<1> USE DEF RoomInv, SessionInv, At, Do, Go, Return, Idle, exchange
<1>1. CASE Quiet
  BY <1>1, QuietKeeps
<1>2. CASE Stops
  <2>1. PICK op \in StopOps : Do("stop", op) \/ AfterStop(op)
    BY <1>2, StopCases
  <2>2. QED
    BY <2>1 DEF AfterStop, Attach
<1>3. CASE HttpOpen /\ session = NoId
  BY <1>3 DEF HttpOpen
<1>4. CASE CloseDone \/ Resolve \/ NotConnected \/ Abort
  BY <1>4 DEF CloseDone, Resolve, NotConnected, Abort
<1>5. CASE Create \/ OpenStart
  <2>1. CASE Create
    BY <2>1 DEF Create, CreateDone, CreateFails
  <2>2. CASE OpenStart
    BY <2>2 DEF OpenStart, Attach
  <2>3. QED
    BY <1>5, <2>1, <2>2
<1>6. CASE ClientStart \/ RequestStart
  BY <1>6 DEF ClientStart, RequestStart
<1>7. ASSUME NEW op \in {"get", "post"}, Request(op)
      PROVE  sent' = sent /\ sent < MaxRequests
  BY <1>7 DEF Request
<1>8. CASE Method \/ Header
  BY <1>8 DEF Method, Header
<1>9. CASE Send \/ Read
  BY <1>9 DEF Send, Read
<1>10. QED
  BY <1>1, <1>2, <1>3, <1>4, <1>5, <1>6, <1>7, <1>8, <1>9, Steps DEF Opens, Asks

-----------------------------------------------------------------------------
(* Where the calls stand.                                                   *)

LEMMA SlotSteps == ASSUME SessionInv, [SessionNext]_allvars PROVE SlotInv'
<1> USE DEF Do, Go, Return, Idle, At
<1>1. SlotInv /\ SessionTypeOK
  BY DEF SessionInv
<1>2. CASE Quiet
  <2>1. UNCHANGED <<app, session, table, mine>>
    BY <1>2, QuietKeeps
  <2>2. (pc' = "off") <=> (pc = "off")
    <3>1. CASE Connecting
      BY <3>1 DEF Connecting, FirstQuery, Poll, PollQuery, Issue, CommandEnds, CheckQuery, Unlock
    <3>2. CASE ~Connecting
      BY <1>2, <3>2 DEF Quiet, UrcHandled, UrcToSession, UrcSocketclosed, UrcToOldEntry, Network,
         Decide, PeerCloses, Gone, PeerCloseFrees, LeftSocketCloses, allvars, tcpvars, vars
    <3>3. QED
      BY <3>1, <3>2
  <2>3. QED
    BY <1>1, <2>1, <2>2 DEF SlotInv, Midway
<1>3. CASE Stops
  <2>1. /\ UNCHANGED <<session, table, mine>>
        /\ Connected \/ UNCHANGED pc
    BY <1>3, StopsKeep
  <2>2. PICK op \in StopOps :
          /\ Do("stop", op) \/ AfterStop(op)
          /\ op \in {"open", "close"} => session # NoId
          /\ op = "session" => app.pc = "connect" \/ (app.pc = "stop" /\ app.op = "session")
          /\ op # "session" => app.pc = "idle" \/ (app.pc = "stop" /\ app.op = op)
    BY <1>1, <1>3, StopCases
  <2>3. /\ op = "session" => app' = [pc |-> "stop", op |-> op] \/ app' = [pc |-> "start", op |-> "open"]
        /\ op \in {"open", "close"} =>
             app' = [pc |-> "stop", op |-> op] \/ app' = [pc |-> "close", op |-> op]
        /\ op \in {"stop", "attach", "detach"} =>
             app' = [pc |-> "stop", op |-> op] \/ app' = Idle
    BY <2>2 DEF AfterStop, Attach, StopOps
  <2>4. pc' = "off"
    <3>1. CASE Connected
      BY <3>1 DEF Connected, Mark, CallEnds
    <3>2. CASE ~Connected
      <4>1. app.pc \in {"idle", "stop"}
        BY <1>3, <3>2 DEF Stops, HttpOpen, HttpClose, ClientStop, ClientDetach, ClientAttach, Stop,
           StopDone
      <4>2. QED
        BY <1>1, <2>1, <3>2, <4>1 DEF SlotInv
    <3>3. QED
      BY <3>1, <3>2
  <2>5. CASE op = "session"
    BY <1>1, <2>1, <2>2, <2>3, <2>4, <2>5 DEF SlotInv, Midway
  <2>6. CASE op # "session"
    <3>1. session # NoId <=> mine # NoSlot
      BY <1>1, <2>2, <2>6 DEF SlotInv, Midway
    <3>2. QED
      BY <1>1, <2>1, <2>2, <2>3, <2>4, <2>6, <3>1 DEF SlotInv, Midway, StopOps
  <2>7. QED
    BY <2>5, <2>6
<1>4. CASE HttpOpen /\ session = NoId
  <2>1. app' = [pc |-> "dns", op |-> "open"] /\ app.pc = "idle" /\ UNCHANGED <<pc, session, mine, table>>
    BY <1>4 DEF HttpOpen, client, entries, tcpvars, vars
  <2>2. QED
    BY <1>1, <1>4, <2>1 DEF SlotInv, Midway
<1>5. CASE CloseDone
  <2>1. app' = [pc |-> "dns", op |-> app.op] \/ app' = Idle
    BY <1>5 DEF CloseDone
  <2>2. pc' = "off" /\ mine' = NoSlot /\ session' = NoId
    BY <1>1, <1>5 DEF CloseDone, NoSocket, SlotInv
  <2>3. QED
    BY <2>1, <2>2 DEF SlotInv, Midway
<1>6. CASE Resolve
  <2>1. app.pc = "dns" /\ session = NoId /\ session' = NoId /\ pc' = "off" /\ mine = NoSlot
    BY <1>1, <1>6 DEF Resolve, client, tcpvars, vars, SlotInv, Midway
  <2>2. \/ /\ app' = [pc |-> "create", op |-> app.op]
           /\ mine' \in Slots /\ table' = [table EXCEPT ![mine'] = NoId]
        \/ app' = Idle /\ mine' = mine
    BY <1>6 DEF Resolve
  <2>3. CASE app' = Idle /\ mine' = mine
    BY <2>1, <2>3 DEF SlotInv, Midway
  <2>4. CASE /\ app' = [pc |-> "create", op |-> app.op]
             /\ mine' \in Slots /\ table' = [table EXCEPT ![mine'] = NoId]
    <3>1. table'[mine'] = NoId /\ mine' # NoSlot
      BY <1>1, <2>4, SocketCountAssumption DEF SessionTypeOK, Slots, NoSlot
    <3>2. QED
      BY <2>1, <2>4, <3>1 DEF SlotInv, Midway
  <2>5. QED
    BY <2>2, <2>3, <2>4
<1>7. CASE Create
  <2>1. app.pc = "create" /\ session = NoId /\ mine # NoSlot /\ UNCHANGED <<session, mine>>
    BY <1>1, <1>7 DEF Create, client, SlotInv, Midway
  <2>2. CASE CreateDone
    <3>1. PICK i \in Ids : table' = [table EXCEPT ![mine] = i]
      BY <2>2 DEF CreateDone
    <3>2. table'[mine'] \in Ids
      BY <1>1, <2>1, <3>1 DEF SessionTypeOK
    <3>3. app' = [pc |-> "connect", op |-> app.op] /\ pc' = "first"
      BY <2>2 DEF CreateDone, Call
    <3>4. QED
      BY <2>1, <3>2, <3>3 DEF SlotInv, Midway
  <2>3. CASE CreateFails
    <3>1. app' = [pc |-> "abort", op |-> app.op] /\ UNCHANGED <<pc, table>>
      BY <2>3 DEF CreateFails, tcpvars, vars
    <3>2. QED
      BY <1>1, <2>1, <3>1 DEF SlotInv, Midway
  <2>4. QED
    BY <1>7, <2>2, <2>3 DEF Create
<1>8. CASE NotConnected
  <2>1. /\ app.pc = "connect" /\ app' = [pc |-> "abort", op |-> app.op] /\ pc' = "off"
        /\ UNCHANGED <<session, mine, table>>
    BY <1>8 DEF NotConnected, Fail, CallEnds, client, entries
  <2>2. QED
    BY <1>1, <2>1 DEF SlotInv, Midway
<1>9. CASE Abort
  <2>1. app.pc = "abort" /\ app' = Idle /\ mine' = NoSlot /\ UNCHANGED <<session, pc>>
    BY <1>9 DEF Abort, client, NoSocket
  <2>2. QED
    BY <1>1, <2>1 DEF SlotInv, Midway
<1>10. CASE OpenStart
  <2>1. app.pc = "start" /\ session = NoId /\ UNCHANGED <<mine, table, pc>> /\ table[mine] \in Ids
    BY <1>1, <1>10 DEF OpenStart, entries, tcpvars, vars, SlotInv, Midway
  <2>2. \/ session' = table[mine] /\ app' = Idle
        \/ session' = session /\ app' = [pc |-> "close", op |-> "failed"]
    BY <1>10 DEF OpenStart
  <2>3. table[mine] # NoId
    BY <2>1 DEF Ids, NoId
  <2>4. QED
    BY <1>1, <2>1, <2>2, <2>3 DEF SlotInv, Midway
<1>11. CASE Asks
  <2>1. UNCHANGED <<session, mine, table, pc>>
    BY <1>11, AsksKeep DEF vars
  <2>2. QED
    BY <1>1, <1>11, <2>1, AsksKeep DEF SlotInv, Midway
<1>12. QED
  BY <1>2, <1>3, <1>4, <1>5, <1>6, <1>7, <1>8, <1>9, <1>10, <1>11, Steps DEF Opens

\* No link without an id.
LEMMA HeldSteps == ASSUME SessionInv, [SessionNext]_allvars PROVE HeldInv'
<1>1. SlotInv /\ HeldInv /\ ControlInv /\ SessionTypeOK
  BY DEF SessionInv
<1>2. link' = "idle" /\ urc' = FALSE /\ connected' = FALSE /\ closed' = FALSE => HeldInv'
  BY DEF HeldInv
<1>3. CASE UNCHANGED <<link, urc, connected, closed, table, mine>>
  BY <1>1, <1>3 DEF HeldInv
<1>4. CASE NoSocket
  BY <1>2, <1>4 DEF NoSocket
<1>5. CASE app.pc \in {"connect", "start"} /\ UNCHANGED <<table, mine>>
  BY <1>1, <1>5 DEF HeldInv, SlotInv, Midway
<1>6. CASE (urc \/ link # "idle") /\ UNCHANGED <<table, mine>>
  BY <1>1, <1>6 DEF HeldInv
<1>7. CASE Quiet
  <2>1. UNCHANGED <<table, mine>>
    BY <1>7, QuietKeeps
  <2>2. CASE Connecting
    <3>1. pc # "off"
      BY <2>2 DEF Connecting, FirstQuery, Poll, PollQuery, Issue, CommandEnds, CheckQuery, Unlock
    <3>2. QED
      BY <1>1, <1>5, <2>1, <3>1 DEF SlotInv
  <2>3. CASE UrcHandled
    BY <1>6, <2>1, <2>3 DEF UrcHandled, UrcToSession, UrcSocketclosed, UrcToOldEntry
  <2>4. CASE Network
    BY <1>6, <2>1, <2>4 DEF Network, Decide, PeerCloses, Gone
  <2>5. CASE PeerCloseFrees \/ UNCHANGED allvars \/ \E i \in Ids : LeftSocketCloses(i)
    BY <1>3, <2>1, <2>5 DEF PeerCloseFrees, LeftSocketCloses, allvars, tcpvars, vars
  <2>6. QED
    BY <1>7, <2>2, <2>3, <2>4, <2>5 DEF Quiet
<1>8. CASE Stops
  <2>1. CASE Connected
    BY <1>5, <1>8, <2>1, StopsKeep DEF Connected, At
  <2>2. CASE ~Connected
    BY <1>3, <1>8, <2>2, StopsKeep
  <2>3. QED
    BY <2>1, <2>2
<1>9. CASE Asks
  BY <1>3, <1>9, AsksKeep DEF vars
<1>10. CASE HttpOpen /\ session = NoId
  BY <1>3, <1>10 DEF HttpOpen, entries, tcpvars, vars
<1>11. CASE CloseDone \/ Abort
  BY <1>4, <1>11 DEF CloseDone, Abort
<1>12. CASE Resolve \/ Create
  <2>1. mine = NoSlot \/ table[mine] = NoId
    BY <1>1, <1>12 DEF Resolve, Create, At, SlotInv, Midway
  <2>2. link = "idle" /\ urc = FALSE /\ connected = FALSE /\ closed = FALSE
    BY <1>1, <2>1 DEF HeldInv, ControlInv, TypeOK, Ids, NoId
  <2>3. UNCHANGED <<link, urc, connected, closed>>
    BY <1>12 DEF Resolve, Create, CreateDone, CreateFails, Call, tcpvars, vars, sockvars
  <2>4. QED
    BY <1>2, <2>2, <2>3
<1>13. CASE NotConnected
  BY <1>3, <1>13 DEF NotConnected, Fail, CallEnds, sockvars, entries
<1>14. CASE OpenStart
  BY <1>3, <1>14 DEF OpenStart, entries, tcpvars, vars
<1>15. QED
  BY <1>7, <1>8, <1>9, <1>10, <1>11, <1>12, <1>13, <1>14, Steps DEF Opens

\* A session's socket is connected until it is told otherwise.
Up == session # NoId \/ app.pc = "start" \/ (app.pc = "stop" /\ app.op = "session")

LEMMA UpSteps == ASSUME SessionInv, [SessionNext]_allvars PROVE UpInv'
<1> USE DEF Do, Go, Return, Idle, At
<1>1. SlotInv /\ UpInv /\ ControlInv /\ SessionTypeOK
  BY DEF SessionInv
<1>2. CASE (Up' => Up) /\ (connected \/ closed => connected' \/ closed')
  BY <1>1, <1>2 DEF UpInv, Up
<1>3. CASE connected'
  BY <1>3 DEF UpInv
<1>4. CASE ~Up'
  BY <1>4 DEF UpInv, Up
<1>5. CASE Quiet
  <2>1. Up' <=> Up
    BY <1>5, QuietKeeps DEF Up
  <2>2. CASE Connecting
    BY <1>2, <2>1, <2>2 DEF Connecting, FirstQuery, Poll, PollQuery, Issue, CommandEnds, CheckQuery,
       Unlock, sockvars
  <2>3. CASE UrcHandled
    BY <1>2, <2>1, <2>3 DEF UrcHandled, UrcToSession, UrcSocketclosed, UrcToOldEntry
  <2>4. CASE Network
    BY <1>2, <2>1, <2>4 DEF Network, Decide, PeerCloses, Gone, sockvars
  <2>5. CASE PeerCloseFrees \/ UNCHANGED allvars \/ \E i \in Ids : LeftSocketCloses(i)
    BY <1>2, <2>1, <2>5 DEF PeerCloseFrees, LeftSocketCloses, allvars, tcpvars, vars
  <2>6. QED
    BY <1>5, <2>2, <2>3, <2>4, <2>5 DEF Quiet
<1>6. CASE Stops
  <2>1. CASE Connected
    BY <1>3, <2>1 DEF Connected, Mark, CallEnds
  <2>2. CASE ~Connected
    <3>1. UNCHANGED <<session, connected, closed>>
      BY <1>6, <2>2, StopsKeep
    <3>2. PICK op \in StopOps :
            /\ Do("stop", op) \/ AfterStop(op)
            /\ op = "session" => app.pc = "connect" \/ (app.pc = "stop" /\ app.op = "session")
      BY <1>1, <1>6, StopCases
    <3>3. app.pc # "connect"
      BY <1>6, <2>2 DEF Stops, HttpOpen, HttpClose, ClientStop, ClientDetach, ClientAttach, Stop,
         StopDone
    <3>4. op # "session" => app'.pc \in {"idle", "close"} \/ (app'.pc = "stop" /\ app'.op = op)
      BY <3>2 DEF AfterStop, Attach, StopOps
    <3>5. QED
      BY <1>2, <3>1, <3>2, <3>3, <3>4 DEF Up
  <2>3. QED
    BY <2>1, <2>2
<1>7. CASE Asks
  BY <1>2, <1>7, AsksKeep DEF Up, vars
<1>8. CASE HttpOpen /\ session = NoId
  BY <1>4, <1>8 DEF HttpOpen, client, Up
<1>9. CASE CloseDone
  BY <1>4, <1>9 DEF CloseDone, Up
<1>10. CASE Resolve \/ Create \/ NotConnected \/ Abort
  <2>1. session = NoId
    BY <1>1, <1>10 DEF Resolve, Create, NotConnected, Abort, SlotInv, Midway
  <2>2. session' = session
    BY <1>10 DEF Resolve, Create, NotConnected, Abort, client
  <2>3. app'.pc \in {"create", "idle", "connect", "abort"}
    BY <1>10 DEF Resolve, Create, CreateDone, CreateFails, NotConnected, Abort
  <2>4. QED
    BY <1>4, <2>1, <2>2, <2>3 DEF Up
<1>11. CASE OpenStart
  <2>1. Up /\ UNCHANGED <<connected, closed>>
    BY <1>11 DEF OpenStart, tcpvars, vars, Up
  <2>2. QED
    BY <1>2, <2>1
<1>12. QED
  BY <1>5, <1>6, <1>7, <1>8, <1>9, <1>10, <1>11, Steps DEF Opens

\* The client, call by call.
LEMMA ClientKept == ASSUME SessionInv, [SessionNext]_allvars PROVE ClientInv'
<1> USE DEF Do, Go, Return, Idle, At
<1>1. SlotInv /\ ClientInv /\ SessionTypeOK
  BY DEF SessionInv
<1>2. CASE Quiet
  BY <1>1, <1>2, QuietKeeps DEF ClientInv
<1>3. CASE Stops
  <2>1. UNCHANGED <<session, table, mine>>
    BY <1>3, StopsKeep
  <2>2. PICK op \in StopOps :
          /\ \/ started /\ Do("stop", op) /\ UNCHANGED <<attached, own, started>>
             \/ AfterStop(op) /\ ~started'
          /\ op \in {"open", "close"} => session # NoId
          /\ op = "session" => app.pc = "connect" \/ (app.pc = "stop" /\ app.op = "session")
          /\ op # "session" => app.pc = "idle" \/ (app.pc = "stop" /\ app.op = op)
    BY <1>1, <1>3, StopCases
  <2>3. app.pc # "start"
    BY <2>2
  <2>4. CASE started /\ Do("stop", op) /\ UNCHANGED <<attached, own, started>>
    BY <1>1, <2>1, <2>3, <2>4 DEF ClientInv
  <2>5. CASE AfterStop(op) /\ ~started' /\ op = "session"
    <3>1. attached' = table[mine] /\ app' = [pc |-> "start", op |-> "open"]
      BY <2>5 DEF AfterStop, Attach
    <3>2. mine # NoSlot
      BY <1>1, <2>2, <2>5 DEF SlotInv, Midway
    <3>3. QED
      BY <2>1, <2>5, <3>1, <3>2 DEF ClientInv
  <2>6. CASE AfterStop(op) /\ ~started' /\ op \in {"open", "close", "detach"}
    <3>1. attached' = NoId /\ app'.pc \in {"idle", "close"}
      BY <2>6 DEF AfterStop, Attach
    <3>2. QED
      BY <2>6, <3>1 DEF ClientInv
  <2>7. CASE AfterStop(op) /\ ~started' /\ op = "attach"
    <3>1. own' = TRUE /\ app'.pc = "idle"
      BY <2>7 DEF AfterStop, Attach
    <3>2. QED
      BY <2>7, <3>1 DEF ClientInv
  <2>8. CASE AfterStop(op) /\ ~started' /\ op = "stop"
    <3>1. UNCHANGED <<attached, own>> /\ app'.pc = "idle"
      BY <2>8 DEF AfterStop
    <3>2. QED
      BY <1>1, <2>1, <2>3, <2>8, <3>1 DEF ClientInv
  <2>9. QED
    BY <2>2, <2>4, <2>5, <2>6, <2>7, <2>8 DEF StopOps
<1>4. CASE HttpOpen /\ session = NoId
  <2>1. UNCHANGED <<attached, own, started, session, mine, table>> /\ app'.pc = "dns" /\ app.pc = "idle"
    BY <1>4 DEF HttpOpen, client, entries
  <2>2. QED
    BY <1>1, <2>1 DEF ClientInv
<1>5. CASE CloseDone
  <2>1. attached' = NoId /\ started' = FALSE /\ app'.pc \in {"dns", "idle"}
    BY <1>1, <1>5 DEF CloseDone, ClientInv, SessionTypeOK
  <2>2. QED
    BY <2>1 DEF ClientInv
<1>6. CASE Resolve \/ Create \/ NotConnected \/ Abort
  <2>1. UNCHANGED <<attached, own, started, session>>
    BY <1>6 DEF Resolve, Create, NotConnected, Abort, client
  <2>2. session = NoId /\ app.pc # "start"
    BY <1>1, <1>6 DEF Resolve, Create, NotConnected, Abort, SlotInv, Midway
  <2>3. app'.pc \in {"create", "idle", "connect", "abort"}
    BY <1>6 DEF Resolve, Create, CreateDone, CreateFails, NotConnected, Abort
  <2>4. attached # NoId => own
    BY <1>1, <2>2 DEF ClientInv
  <2>5. QED
    BY <1>1, <2>1, <2>3, <2>4 DEF ClientInv
<1>7. CASE OpenStart
  <2>1. /\ app.pc = "start" /\ ~started /\ attached = table[mine] /\ mine # NoSlot
        /\ table[mine] \in Ids /\ UNCHANGED <<mine, table>>
    BY <1>1, <1>7 DEF OpenStart, entries, ClientInv, SlotInv, Midway
  <2>2. table[mine] # NoId
    BY <2>1 DEF Ids, NoId
  <2>3. CASE StartAcked /\ session' = table[mine] /\ Return /\ UNCHANGED <<attached, own>>
    BY <2>1, <2>2, <2>3 DEF ClientInv
  <2>4. CASE StartFails /\ Do("close", "failed") /\ Attach(NoId, FALSE)
    <3>1. started' = started /\ attached' = NoId /\ app'.pc = "close"
      BY <2>4 DEF StartFails, Attach
    <3>2. QED
      BY <2>1, <3>1 DEF ClientInv
  <2>5. QED
    BY <1>7, <2>3, <2>4 DEF OpenStart
<1>8. CASE Asks
  <2>1. /\ UNCHANGED <<session, attached, own, table, mine>>
        /\ app'.pc \in {"idle", "restart", "method", "header", "send", "read"}
        /\ app.pc \in {"idle", "restart", "method", "header", "send", "read"}
    BY <1>8, AsksKeep
  <2>2. /\ started' => attached' # NoId
        /\ (app'.pc = "restart" => ~started' /\ attached' # NoId)
        /\ (app'.pc \in {"method", "header", "send", "read"} => started')
    <3>1. CASE ClientStart
      BY <1>1, <3>1 DEF ClientStart, client, ClientInv, SessionTypeOK
    <3>2. ASSUME NEW op \in {"get", "post"}, Request(op)
          PROVE  /\ UNCHANGED <<attached, started>> /\ attached # NoId
                 /\ app'.pc = IF started THEN "method" ELSE "restart"
      BY <3>2 DEF Request, client
    <3>3. CASE RequestStart
      <4>1. ~started /\ attached # NoId /\ attached' = attached
        BY <1>1, <3>3 DEF RequestStart, ClientInv
      <4>2. CASE StartAcked /\ (Go("method") \/ Return)
        <5>1. started' = TRUE /\ app'.pc \in {"method", "idle"}
          BY <4>2 DEF StartAcked
        <5>2. QED
          BY <4>1, <5>1
      <4>3. CASE StartFails /\ Return
        <5>1. started' = started /\ app'.pc = "idle"
          BY <4>3 DEF StartFails
        <5>2. QED
          BY <4>1, <5>1
      <4>4. QED
        BY <3>3, <4>2, <4>3 DEF RequestStart
    <3>4. CASE Method \/ Header \/ Send \/ Read
      <4>1. started /\ attached # NoId /\ app'.pc # "restart"
        BY <1>1, <3>4 DEF Method, Header, Send, Read, ClientInv
      <4>2. UNCHANGED <<started, attached>>
        BY <3>4 DEF Method, Header, Send, Read, client
      <4>3. QED
        BY <1>1, <4>1, <4>2 DEF SessionTypeOK
    <3>5. QED
      BY <1>1, <1>8, <3>1, <3>2, <3>3, <3>4 DEF Asks, SessionTypeOK, ClientInv
  <2>3. QED
    BY <1>1, <2>1, <2>2 DEF ClientInv
<1>9. QED
  BY <1>2, <1>3, <1>4, <1>5, <1>6, <1>7, <1>8, Steps DEF Opens

LEMMA RunningSteps == ASSUME SessionInv, [SessionNext]_allvars PROVE RunningInv'
<1> USE DEF RunningInv
<1>1. RunningInv /\ SessionTypeOK /\ SlotInv
  BY DEF SessionInv
<1>2. refused' \in {refused, refused + 1} /\ refused \in Nat
  BY <1>1, CountSteps, Counted DEF SessionTypeOK
<1>3. CASE UNCHANGED <<running, started>>
  BY <1>1, <1>2, <1>3
<1>4. CASE started' = TRUE
  BY <1>4
<1>5. CASE StartFails
  BY <1>1, <1>2, <1>5 DEF StartFails, Failed, Acked, SessionInv, ClientInv
<1>6. CASE Stops
  <2>1. CASE StopDone
    BY <1>2, <2>1 DEF StopDone, Acked, Failed
  <2>2. CASE ~StopDone
    BY <1>3, <1>6, <2>2 DEF Stops, HttpOpen, HttpClose, ClientStop, ClientDetach, ClientAttach, Stop,
       Connected
  <2>3. QED
    BY <2>1, <2>2
<1>7. CASE OpenStart \/ RequestStart
  BY <1>4, <1>5, <1>7 DEF OpenStart, RequestStart, StartAcked
<1>8. CASE HttpOpen /\ session = NoId
  BY <1>3, <1>8 DEF HttpOpen, client
<1>9. CASE CloseDone \/ Resolve \/ Create \/ NotConnected \/ Abort
  BY <1>3, <1>9 DEF CloseDone, Resolve, Create, NotConnected, Abort, client
<1>10. ASSUME NEW op \in {"get", "post"}, Request(op) PROVE UNCHANGED <<running, started>>
  BY <1>10 DEF Request, client
<1>11. CASE ClientStart \/ Method \/ Header \/ Send \/ Read
  BY <1>3, <1>11 DEF ClientStart, Method, Header, Send, Read, client
<1>12. QED
  BY <1>3, <1>6, <1>7, <1>8, <1>9, <1>10, <1>11, Steps, QuietKeeps DEF Opens, Asks

-----------------------------------------------------------------------------
(* The sockets a session leaves behind.                                     *)

\* What a command about a socket of the modem may do to the others.
LEMMA ClosesAccount ==
  ASSUME NEW i, SocketClose(i)
  PROVE  /\ assigned' \subseteq assigned
         /\ \A j \in assigned' : j \in lost => j \in lost'
         /\ i \in assigned' => SkipsClose(i) \/ i \in lost'
BY DEF SocketClose, ModemClose, modem, Acked, Failed

\* A socket the driver takes for closed already has been told so.
LEMMA SkippedTold ==
  ASSUME SessionInv, mine # NoSlot, SkipsClose(table[mine]), table[mine] \in Ids
  PROVE  table[mine] \in told
<1>1. FindSocket(table[mine]) \in Slots /\ table[FindSocket(table[mine])] = table[mine]
  BY FindMine DEF SessionInv
<1>2. MarkedClosed(FindSocket(table[mine]))
  BY DEF SkipsClose, Ids, NoId
<1>3. CASE FindSocket(table[mine]) = mine
  BY <1>2, <1>3 DEF MarkedClosed, SessionInv, ToldInv
<1>4. CASE FindSocket(table[mine]) # mine
  BY <1>1, <1>2, <1>4 DEF MarkedClosed, SessionInv, ToldInv
<1>5. QED
  BY <1>3, <1>4

\* The last step of a session's socket, whatever the entry becomes.
LEMMA LeavesAccounted ==
  ASSUME SessionInv, mine # NoSlot, SocketClose(table[mine]), mine' = NoSlot, told' = told
  PROVE  SocketsAccounted'
<1>1. SUFFICES ASSUME NEW j \in assigned' PROVE j \in lost' \/ j \in told'
  BY DEF SocketsAccounted
<1>2. j \in assigned /\ (j \in lost => j \in lost')
  BY ClosesAccount
<1>3. CASE j = table[mine]
  <2>1. table[mine] \in Ids
    BY <1>2, <1>3 DEF SessionInv, SessionTypeOK
  <2>2. QED
    BY <1>3, <2>1, ClosesAccount, SkippedTold
<1>4. CASE j # table[mine]
  BY <1>2, <1>4 DEF SessionInv, ToldInv, SocketsAccounted
<1>5. QED
  BY <1>3, <1>4

LEMMA ToldSteps == ASSUME SessionInv, [SessionNext]_allvars PROVE ToldInv'
<1>1. /\ SlotInv /\ HeldInv /\ SessionTypeOK /\ ControlInv
      /\ SocketsAccounted /\ (\A e \in shut : table[e] \in told /\ e # mine)
      /\ closed => table[mine] \in told
  BY DEF SessionInv, ToldInv
<1>2. CASE UNCHANGED <<table, mine, shut, assigned, lost, told, closed>>
  BY <1>1, <1>2 DEF ToldInv, SocketsAccounted
<1>3. CASE Connecting \/ Network \/ UNCHANGED allvars
  BY <1>2, <1>3 DEF Connecting, FirstQuery, Poll, PollQuery, Issue, CommandEnds, CheckQuery, Unlock,
     Network, Decide, PeerCloses, Gone, sockvars, entries, modem, allvars, tcpvars, vars
<1>4. CASE UrcToSession
  <2>1. told' = told \cup {table[mine]} /\ UNCHANGED <<table, mine, shut, assigned, lost>>
    BY <1>4 DEF UrcToSession, entries, modem
  <2>2. QED
    BY <1>1, <2>1 DEF ToldInv, SocketsAccounted
<1>5. CASE UrcToOldEntry
  <2>1. /\ told' = told \cup {table[mine]} /\ UNCHANGED <<table, mine, assigned, lost, closed>>
        /\ shut' = shut \cup {FindSocket(table[mine])}
    BY <1>5 DEF UrcToOldEntry, modem
  <2>2. FindSocket(table[mine]) # mine /\ table[FindSocket(table[mine])] = table[mine]
    BY <1>1, <1>5, FindMine DEF UrcToOldEntry, Hidden
  <2>3. QED
    BY <1>1, <2>1, <2>2 DEF ToldInv, SocketsAccounted
<1>6. CASE PeerCloseFrees
  <2>1. /\ assigned' = assigned \ {session} /\ lost' = lost \ {session}
        /\ UNCHANGED <<table, mine, shut, told, closed>>
    BY <1>6 DEF PeerCloseFrees, entries, tcpvars, vars
  <2>2. QED
    BY <1>1, <2>1 DEF ToldInv, SocketsAccounted
<1>7. ASSUME NEW i \in Ids, LeftSocketCloses(i) PROVE ToldInv'
  <2>1. /\ assigned' \subseteq assigned /\ lost' = lost \cap assigned' /\ told' = told \cup {i}
        /\ UNCHANGED <<table, mine, closed>> /\ (mine # NoSlot => table[mine] # i)
    BY <1>7 DEF LeftSocketCloses, tcpvars, vars
  <2>2. SocketsAccounted'
    BY <1>1, <2>1 DEF SocketsAccounted
  <2>3. \A e \in shut' : table'[e] \in told' /\ e # mine'
    <3>1. CASE Holders(i) = {}
      BY <1>1, <1>7, <2>1, <3>1 DEF LeftSocketCloses
    <3>2. CASE Holders(i) # {}
      <4>1. FindSocket(i) \in Slots /\ table[FindSocket(i)] = i
        BY <3>2, FindSocketHolds
      <4>2. FindSocket(i) # mine
        BY <2>1, <4>1, SocketCountAssumption DEF Slots, NoSlot
      <4>3. shut' = shut \cup {FindSocket(i)}
        BY <1>7, <3>2 DEF LeftSocketCloses
      <4>4. QED
        BY <1>1, <2>1, <4>1, <4>2, <4>3
    <3>3. QED
      BY <3>1, <3>2
  <2>4. QED
    BY <1>1, <2>1, <2>2, <2>3 DEF ToldInv
<1>8. CASE Stops
  BY <1>2, <1>8, StopsKeep
<1>9. CASE Asks
  BY <1>2, <1>9, AsksKeep DEF vars
<1>10. CASE HttpOpen /\ session = NoId
  BY <1>2, <1>10 DEF HttpOpen, entries, modem, tcpvars, vars
<1>11. CASE NotConnected
  BY <1>2, <1>11 DEF NotConnected, Fail, CallEnds, sockvars, entries, modem
<1>12. CASE OpenStart
  BY <1>2, <1>12 DEF OpenStart, entries, modem, tcpvars, vars
<1>13. CASE CloseDone
  <2>1. mine # NoSlot /\ mine \in Slots /\ NoSlot \notin Slots
    BY <1>1, <1>13, SocketCountAssumption
    DEF CloseDone, At, SlotInv, Midway, SessionTypeOK, Slots, NoSlot
  <2>2. /\ SocketClose(table[mine]) /\ mine' = NoSlot /\ closed' = FALSE
        /\ shut' = (IF closed THEN shut \cup {mine} ELSE shut) /\ UNCHANGED <<told, table>>
    BY <1>13 DEF CloseDone, NoSocket
  <2>3. SocketsAccounted'
    BY <2>1, <2>2, LeavesAccounted
  <2>4. \A e \in shut' : table'[e] \in told' /\ e # mine'
    BY <1>1, <2>1, <2>2 DEF SessionTypeOK
  <2>5. QED
    BY <2>2, <2>3, <2>4 DEF ToldInv
<1>14. CASE Abort
  <2>1. mine # NoSlot /\ mine \in Slots /\ NoSlot \notin Slots
    BY <1>1, <1>14, SocketCountAssumption
    DEF Abort, At, SlotInv, Midway, SessionTypeOK, Slots, NoSlot
  <2>2. /\ SocketClose(table[mine]) /\ mine' = NoSlot /\ closed' = FALSE
        /\ table' = [table EXCEPT ![mine] = Unused] /\ UNCHANGED <<told, shut>>
    BY <1>14 DEF Abort, NoSocket
  <2>3. SocketsAccounted'
    BY <2>1, <2>2, LeavesAccounted
  <2>4. \A e \in shut' : table'[e] \in told' /\ e # mine'
    BY <1>1, <2>1, <2>2 DEF SessionTypeOK
  <2>5. QED
    BY <2>2, <2>3, <2>4 DEF ToldInv
<1>15. CASE Resolve
  <2>1. mine = NoSlot /\ UNCHANGED <<shut, assigned, lost, told, closed>>
    BY <1>1, <1>15 DEF Resolve, At, modem, tcpvars, vars, SlotInv, Midway
  <2>2. \A j \in assigned : j \in lost \/ j \in told
    BY <1>1, <2>1 DEF SocketsAccounted
  <2>3. closed = FALSE
    BY <1>1, <2>1 DEF HeldInv, ControlInv, TypeOK
  <2>4. CASE UNCHANGED <<table, mine>>
    BY <1>2, <2>1, <2>4
  <2>5. ASSUME NEW e \in Slots, table[e] = Unused, mine' = e, table' = [table EXCEPT ![e] = NoId]
        PROVE  ToldInv'
    <3>1. e \notin shut
      BY <1>1, <2>5 DEF SessionTypeOK, Ids, Unused
    <3>2. \A f \in shut' : table'[f] \in told' /\ f # mine'
      BY <1>1, <2>1, <2>5, <3>1 DEF SessionTypeOK
    <3>3. QED
      BY <2>1, <2>2, <2>3, <3>2 DEF ToldInv, SocketsAccounted
  <2>6. QED
    BY <1>15, <2>4, <2>5 DEF Resolve
<1>16. CASE Create
  <2>1. /\ mine # NoSlot /\ mine \in Slots /\ table[mine] = NoId /\ closed = FALSE
        /\ UNCHANGED <<mine, shut, told>>
    BY <1>1, <1>16 DEF Create, At, SlotInv, Midway, SessionTypeOK, HeldInv, ControlInv, TypeOK, Ids, NoId
  <2>2. \A j \in assigned : j \in lost \/ j \in told
    BY <1>1, <2>1 DEF SocketsAccounted, SessionTypeOK, Ids, NoId
  <2>3. CASE CreateDone
    <3>1. PICK i \in Ids : /\ assigned' = assigned \cup {i} /\ lost' = lost \ {i}
                           /\ table' = [table EXCEPT ![mine] = i]
      BY <2>3 DEF CreateDone
    <3>2. closed' = closed
      BY <2>3 DEF CreateDone, Call, sockvars
    <3>3. table'[mine] = i /\ \A e \in Slots \ {mine} : table'[e] = table[e]
      BY <1>1, <2>1, <3>1 DEF SessionTypeOK
    <3>4. SocketsAccounted'
      BY <2>1, <2>2, <3>1, <3>3 DEF SocketsAccounted
    <3>5. \A e \in shut' : table'[e] \in told' /\ e # mine'
      BY <1>1, <2>1, <3>3 DEF SessionTypeOK
    <3>6. QED
      BY <2>1, <3>2, <3>4, <3>5 DEF ToldInv
  <2>4. CASE CreateFails
    <3>1. /\ UNCHANGED <<table, closed>>
          /\ \/ UNCHANGED <<assigned, lost>>
             \/ \E i \in Ids : assigned' = assigned \cup {i} /\ lost' = lost \cup {i}
      BY <2>4 DEF CreateFails, modem, tcpvars, vars
    <3>2. SocketsAccounted'
      BY <2>1, <2>2, <3>1 DEF SocketsAccounted
    <3>3. QED
      BY <1>1, <2>1, <3>1, <3>2 DEF ToldInv
  <2>5. QED
    BY <1>16, <2>3, <2>4 DEF Create
<1>17. QED
  BY <1>3, <1>4, <1>5, <1>6, <1>7, <1>8, <1>9, <1>10, <1>11, <1>12, <1>13, <1>14, <1>15, <1>16,
     Steps DEF Quiet, UrcHandled, Opens

-----------------------------------------------------------------------------
(* The theorems.                                                            *)

LEMMA SessionBegins == SessionInit => SessionInv
<1> SUFFICES ASSUME SessionInit PROVE SessionInv
  OBVIOUS
<1>1. ConnectInv
  BY ConnectInit DEF SessionInit
<1>2. SessionTypeOK
  <2>1. /\ started \in BOOLEAN /\ own \in BOOLEAN /\ running \in BOOLEAN /\ gaveUp \in BOOLEAN
        /\ session = NoId /\ attached = NoId
    BY DEF SessionInit
  <2>2. /\ sent \in 0 .. MaxRequests /\ got \in 0 .. MaxRequests /\ refused \in 0 .. MaxRefused
        /\ pending \subseteq 1 .. MaxRequests
    BY MaxRequestsAssumption, MaxRefusedAssumption DEF SessionInit
  <2>3. /\ table \in [Slots -> Ids \cup {NoId, Unused}] /\ mine \in Slots \cup {NoSlot}
        /\ shut \subseteq Slots /\ assigned \subseteq Ids /\ lost \subseteq Ids /\ told \subseteq Ids
    BY DEF SessionInit
  <2>4. app = Idle
    BY DEF SessionInit
  <2>5. QED
    BY <1>1, <2>1, <2>2, <2>3, <2>4 DEF ConnectInv, ControlInv, SessionTypeOK, Idle
<1>3. /\ app.pc = "idle" /\ pc = "off" /\ mine = NoSlot /\ session = NoId /\ attached = NoId
      /\ started = FALSE /\ running = FALSE /\ pending = {} /\ assigned = {} /\ shut = {}
      /\ link = "idle" /\ urc = FALSE /\ connected = FALSE /\ closed = FALSE
  BY DEF SessionInit, Init, Idle
<1>4. SlotInv /\ HeldInv /\ UpInv
  BY <1>3 DEF SlotInv, Midway, HeldInv, UpInv
<1>5. ClientInv /\ RunningInv /\ ToldInv /\ ExchangeInv /\ RoomInv
  BY <1>3 DEF ClientInv, RunningInv, ToldInv, SocketsAccounted, ExchangeInv, RoomInv
<1>6. QED
  BY <1>1, <1>2, <1>4, <1>5 DEF ConnectInv, SessionInv

LEMMA SessionKept == SessionInv /\ [SessionNext]_allvars => SessionInv'
<1> SUFFICES ASSUME SessionInv, [SessionNext]_allvars PROVE SessionInv'
  OBVIOUS
<1>1. SlotInv /\ SessionTypeOK
  BY DEF SessionInv
<1>2. ControlInv' /\ TypeOK'
  BY ControlSteps DEF ControlInv
<1>3. SessionTypeOK'
  <2>1. app' \in [pc : Pcs, op : Ops]
    BY <1>1, AppSteps
  <2>2. refused' \in 0 .. MaxRefused
    BY <1>1, CountSteps, Counted
  <2>3. /\ session' \in Ids \cup {NoId} /\ attached' \in Ids \cup {NoId}
        /\ started' \in BOOLEAN /\ own' \in BOOLEAN /\ running' \in BOOLEAN
    BY ClientSteps
  <2>4. ExchangeTyped'
    BY ExchangeTypes
  <2>5. QED
    BY <1>2, <2>1, <2>2, <2>3, <2>4, EntrySteps, ModemSteps
    DEF SessionTypeOK, Pcs, Ops, ExchangeTyped
<1>4. SlotInv' /\ HeldInv' /\ UpInv' /\ (Hidden \/ LinkInv)'
  BY SlotSteps, HeldSteps, UpSteps, LinkSteps
<1>5. ClientInv' /\ RunningInv' /\ ToldInv' /\ ExchangeInv' /\ RoomInv'
  BY ClientKept, RunningSteps, ToldSteps, ExchangeKept, RoomSteps
<1>6. QED
  BY <1>2, <1>3, <1>4, <1>5 DEF SessionInv

LEMMA Invariance == SessionSpec => []SessionInv
BY SessionBegins, SessionKept, PTL DEF SessionSpec

\* The calls, the entries of the table and the ids stay in their ranges: an entry
\* is never beyond the table, a request never beyond the last.
THEOREM SessionTypeCorrect == SessionSpec => []SessionTypeOK
<1>1. SessionInv => SessionTypeOK
  BY DEF SessionInv
<1>2. QED
  BY <1>1, Invariance, PTL

\* While http_is_open(), the session's entry has the session's id and a link that
\* is up, or whose end was or will be told, unless find_socket() finds an earlier
\* session's entry with the same id (open_tcp_session, close_tcp_session,
\* urc_socketclosed).
THEOREM SessionKeepsLink == SessionSpec => []SessionHasLink
<1>1. SessionInv => SessionHasLink
  <2> SUFFICES ASSUME SessionInv, session # NoId PROVE SessionHasLink
    BY DEF SessionHasLink
  <2>1. mine # NoSlot /\ table[mine] = session /\ pc = "off"
    BY DEF SessionInv, SlotInv, Midway
  <2>2. connected \/ closed
    BY DEF SessionInv, UpInv
  <2>3. Hidden \/ (connected => UpOrTold)
    BY DEF SessionInv, LinkInv
  <2>4. QED
    BY <2>1, <2>2, <2>3 DEF SessionHasLink, UpOrTold
<1>2. QED
  BY <1>1, Invariance, PTL

\* A command of a request is sent by a started client, over the socket of the open
\* session or one the application chose itself (attach_socket, start, stop,
\* http_close, get, post).
THEOREM RequestsHaveSession == SessionSpec => []RequestsUseSession
<1>1. SessionInv => RequestsUseSession
  BY DEF SessionInv, ClientInv, SlotInv, RequestsUseSession
<1>2. QED
  BY <1>1, Invariance, PTL

\* Whichever command failed, no session leaves a client attached or started, and
\* none leaves the modem's HTTP stack running but after a refusal (http_open,
\* http_close, stop, detach_socket).
THEOREM SessionLeavesNoClient == SessionSpec => []NoClientLeft
<1>1. SessionInv => NoClientLeft
  BY DEF SessionInv, SlotInv, Midway, ClientInv, RunningInv, NoClientLeft, At
<1>2. QED
  BY <1>1, Invariance, PTL

\* A socket on the modem that no session has any more is one whose command failed
\* or whose id a #SOCKETCLOSED was handled for, for every number of entries and of
\* ids (close_tcp_session, socket_close_impl, open_tcp_session).
THEOREM SocketsAreAccounted == SessionSpec => []SocketsAccounted
<1>1. SessionInv => SocketsAccounted
  BY DEF SessionInv, ToldInv
<1>2. QED
  BY <1>1, Invariance, PTL

\* As long as no call has given up on a response, the one handed over is that of
\* the request just sent (get, post, read_response).
THEOREM AnswersMatch == SessionSpec => AnswersItsRequest
<1>1. SessionInv /\ [SessionNext]_allvars => [got' # got => got' = sent \/ gaveUp]_allvars
  BY AnswerStep
<1>2. QED
  BY <1>1, Invariance, PTL DEF SessionSpec, AnswersItsRequest

-----------------------------------------------------------------------------
(* The calls end.                                                           *)

CallLeftIs ==
  /\ app.pc = "idle" => CallLeft = 0
  /\ app.pc \in {"abort", "read"} => CallLeft = 1
  /\ app.pc \in {"start", "send"} => CallLeft = 2
  /\ app.pc = "header" => CallLeft = 3
  /\ app.pc = "method" => CallLeft = 4
  /\ app.pc = "restart" => CallLeft = 5
  /\ app.pc = "connect" => CallLeft = StepsLeft + 3
  /\ app.pc = "create" => CallLeft = OpenLeft - 1
  /\ app.pc = "dns" => CallLeft = OpenLeft
  /\ app.pc = "close" => CallLeft = IF app.op = "open" THEN OpenLeft + 1 ELSE 1
  /\ app.pc = "stop" /\ app.op = "open" => CallLeft = OpenLeft + 2
  /\ app.pc = "stop" /\ app.op = "session" => CallLeft = 3
  /\ app.pc = "stop" /\ app.op = "close" => CallLeft = 2
  /\ app.pc = "stop" /\ app.op \notin {"open", "session", "close"} => CallLeft = 1

LEMMA CallLeftCases == CallLeftIs
<1>1. app.pc \in {"idle", "abort", "read", "start", "send"} => CallLeftIs
  BY DEF CallLeftIs, CallLeft
<1>2. app.pc \in {"header", "method", "restart", "connect", "create", "dns"} => CallLeftIs
  BY DEF CallLeftIs, CallLeft
<1>3. app.pc = "close" => CallLeftIs
  BY DEF CallLeftIs, CallLeft
<1>4. app.pc = "stop" => CallLeftIs
  BY DEF CallLeftIs, CallLeft
<1>5. QED
  BY <1>1, <1>2, <1>3, <1>4 DEF CallLeftIs

LEMMA OpenLeftIs == OpenLeft = StepsFrom(0) + 6 /\ StepsFrom(0) \in Nat /\ StepsFrom(0) >= 2
BY StepsPerAttempt, AttemptsAssumption DEF OpenLeft

\* Every command of a call shortens it.
LEMMA CommandShortens ==
  ASSUME SessionInv, AppStep
  PROVE  CallLeft' \in 0 .. (CallLeft - 1)
<1>1. CallLeftIs /\ CallLeftIs'
  BY CallLeftCases, PTL
<1>2. OpenLeft = StepsFrom(0) + 6 /\ OpenLeft' = OpenLeft /\ StepsFrom(0) \in Nat /\ StepsFrom(0) >= 2
  BY OpenLeftIs DEF OpenLeft, StepsFrom, StepsOfAttempt
<1> USE DEF At, Do, Go, Return, Idle
<1>3. CASE StopDone
  <2>1. app.pc = "stop" /\ app.op \in StopOps
    BY <1>3 DEF StopDone, SessionInv, SlotInv, StopOps
  <2>2. \/ app.op \in {"open", "close"} /\ app'.pc = "close" /\ app'.op = app.op
        \/ app.op = "session" /\ app'.pc = "start"
        \/ app.op \in {"stop", "attach", "detach"} /\ app'.pc = "idle"
    BY <1>3, <2>1 DEF StopDone, AfterStop, Attach
  <2>3. QED
    BY <1>1, <1>2, <2>1, <2>2 DEF CallLeftIs
<1>4. CASE CloseDone
  <2>1. \/ app'.pc = "dns" /\ app.op = "open"
        \/ app'.pc = "idle" /\ app.op # "open"
    BY <1>4 DEF CloseDone
  <2>2. app.pc = "close"
    BY <1>4 DEF CloseDone
  <2>3. QED
    BY <1>1, <1>2, <2>1, <2>2 DEF CallLeftIs
<1>5. CASE Resolve
  <2>1. app.pc = "dns" /\ app'.pc \in {"create", "idle"}
    BY <1>5 DEF Resolve
  <2>2. QED
    BY <1>1, <1>2, <2>1 DEF CallLeftIs
<1>6. CASE Create
  <2>1. app.pc = "create" /\ \/ app'.pc = "connect" /\ pc' = "first" /\ attempt' = 0
                             \/ app'.pc = "abort"
    BY <1>6 DEF Create, CreateDone, CreateFails, Call
  <2>2. pc' = "first" /\ attempt' = 0 => StepsLeft' = StepsFrom(0) + 1
    BY DEF StepsLeft, StepsFrom, StepsOfAttempt
  <2>3. QED
    BY <1>1, <1>2, <2>1, <2>2 DEF CallLeftIs
<1>7. CASE Connected
  <2>1. app.pc = "connect" /\ pc = "mark"
    BY <1>7 DEF Connected, Mark, CallEnds
  <2>2. CallLeft = 4
    BY <1>1, <2>1 DEF CallLeftIs, StepsLeft
  <2>3. app'.pc = "start" \/ (app'.pc = "stop" /\ app'.op = "session")
    BY <1>7 DEF Connected, AfterStop, Attach
  <2>4. QED
    BY <1>1, <2>2, <2>3 DEF CallLeftIs
<1>8. CASE NotConnected
  <2>1. app.pc = "connect" /\ pc # "off" /\ app'.pc = "abort"
    BY <1>8 DEF NotConnected, Fail, CallEnds
  <2>2. StepsLeft \in Nat /\ CallLeft = StepsLeft + 3 /\ CallLeft' = 1
    BY <1>1, <2>1, StepsLeftAt DEF SessionInv, CallLeftIs
  <2>3. QED
    BY <2>2
<1>9. CASE Abort \/ OpenStart
  <2>1. \/ app.pc = "abort" /\ app'.pc = "idle"
        \/ app.pc = "start" /\ app'.pc = "idle"
        \/ app.pc = "start" /\ app'.pc = "close" /\ app'.op = "failed"
    BY <1>9 DEF Abort, OpenStart, Attach
  <2>2. QED
    BY <1>1, <2>1 DEF CallLeftIs
<1>10. CASE RequestStart \/ Method \/ Header \/ Send \/ Read
  <2>1. \/ app.pc = "restart" /\ app'.pc \in {"method", "idle"}
        \/ app.pc = "method" /\ app'.pc \in {"header", "send", "idle"}
        \/ app.pc = "header" /\ app'.pc \in {"send", "idle"}
        \/ app.pc = "send" /\ app'.pc \in {"read", "idle"}
        \/ app.pc = "read" /\ app'.pc = "idle"
    BY <1>10 DEF RequestStart, Method, Header, Send, Read
  <2>2. QED
    BY <1>1, <2>1 DEF CallLeftIs
<1>11. QED
  BY <1>3, <1>4, <1>5, <1>6, <1>7, <1>8, <1>9, <1>10 DEF AppStep

LEMMA ConnectingShortens ==
  ASSUME SessionInv, SessionInv', Connecting
  PROVE  CallLeft' \in 0 .. (CallLeft - 1)
<1>1. pc # "off" /\ Step /\ app' = app
  BY DEF Connecting, FirstQuery, Poll, PollQuery, Issue, CommandEnds, CheckQuery, Unlock, Step
<1>2. app.pc = "connect" /\ app'.pc = "connect"
  BY <1>1 DEF SessionInv, SlotInv
<1>3. StepsLeft' \in 0 .. (StepsLeft - 1) /\ StepsLeft \in Nat
  BY <1>1, StepShortens, StepsLeftAt DEF SessionInv
<1>4. CallLeftIs /\ CallLeftIs'
  BY CallLeftCases, PTL
<1>5. CallLeft = StepsLeft + 3 /\ CallLeft' = StepsLeft' + 3
  BY <1>2, <1>4 DEF CallLeftIs
<1>6. \A s \in Nat : \A t \in 0 .. (s - 1) : \A c, d :
        c = s + 3 /\ d = t + 3 => d \in 0 .. (c - 1)
  OBVIOUS
<1>7. QED
  BY <1>3, <1>5, <1>6

\* During a call, nobody else calls, and what the others do is not on its path.
LEMMA OthersKeepCall ==
  ASSUME Busy, [SessionNext]_allvars, ~AppStep, ~Connecting
  PROVE  CallLeft' = CallLeft
<1>1. UrcHandled \/ Network \/ PeerCloseFrees \/ UNCHANGED allvars \/ \E i \in Ids : LeftSocketCloses(i)
  BY DEF SessionNext, HttpOpen, HttpClose, ClientStop, ClientDetach, ClientAttach, Stop,
     ClientStart, Request, At, Busy
<1>2. app' = app
  BY <1>1, QuietKeeps DEF Quiet
<1>3. UNCHANGED <<pc, attempt, polls>>
  BY <1>1 DEF UrcHandled, UrcToSession, UrcSocketclosed, UrcToOldEntry, Network, Decide, PeerCloses,
     Gone, PeerCloseFrees, LeftSocketCloses, allvars, tcpvars, vars
<1>4. StepsLeft' = StepsLeft
  BY <1>3 DEF StepsLeft, StepsFrom, StepsOfAttempt
<1>5. QED
  BY <1>2, <1>4 DEF CallLeft, OpenLeft, StepsFrom, StepsOfAttempt

LEMMA CallLeftNat == ASSUME SessionInv PROVE CallLeft \in Nat
<1>1. CallLeftIs
  BY CallLeftCases
<1>2. OpenLeft \in Nat /\ OpenLeft >= 8
  BY OpenLeftIs
<1>3. app.pc = "connect" => StepsLeft \in Nat
  BY StepsLeftAt DEF SessionInv, SlotInv
<1>4. app.pc \in Pcs /\ app.op \in Ops
  BY AppIs DEF SessionInv
<1>5. QED
  BY <1>1, <1>2, <1>3, <1>4 DEF CallLeftIs, Pcs

\* http_open(), http_close(), get(), post(), start(), stop() and attach_socket() end
\* after at most OpenLeft + 2 steps of their own, whichever of their commands fail
\* and wherever they branch.
THEOREM CallsBounded == SessionSpec => CallShortens
<1>1. ASSUME SessionInv, SessionInv', [SessionNext]_allvars, Busy
      PROVE  CallLeft' \in 0 .. CallLeft /\ (AppStep \/ Connecting => CallLeft' # CallLeft)
  <2>1. CallLeft \in Nat
    BY <1>1, CallLeftNat
  <2>2. CASE AppStep \/ Connecting
    <3>1. CallLeft' \in 0 .. (CallLeft - 1)
      BY <1>1, <2>2, CommandShortens, ConnectingShortens
    <3>2. QED
      BY <2>1, <3>1
  <2>3. CASE ~(AppStep \/ Connecting)
    <3>1. CallLeft' = CallLeft
      BY <1>1, <2>3, OthersKeepCall
    <3>2. QED
      BY <2>1, <2>3, <3>1
  <2>4. QED
    BY <2>2, <2>3
<1>2. SessionInv /\ SessionInv' /\ [SessionNext]_allvars =>
        [Busy => CallLeft' \in 0 .. CallLeft
                         /\ (AppStep \/ Connecting => CallLeft' # CallLeft)]_allvars
  BY <1>1
<1>3. QED
  BY <1>2, Invariance, PTL DEF SessionSpec, CallShortens
=============================================================================
