----------------------------- MODULE TcpConnect -----------------------------
(***************************************************************************)
(* ST87M01_CellularStack::socket_connect() on a TCP socket the modem       *)
(* already knows: the status query before, during and after each attempt,  *)
(* against a modem link that comes up, is refused or is closed by the peer *)
(* at any time.  AT#TCPCONNECT may return before the link is decided (OK,  *)
(* CME error or driver timeout), so only AT#TCPCONNECT? is believed.       *)
(* find_socket() finds the socket's own entry here; HttpSession also has   *)
(* the case that it finds an older one with the same id.                   *)
(***************************************************************************)
EXTENDS Integers

CONSTANTS
  Attempts,   \* OP_TCP_CONNECT_ATTEMPTS
  MaxPolls,   \* polls that fit the connect timeout
  MaxFaults   \* status queries that fail

ASSUME AttemptsAssumption == Attempts \in Nat \ {0}
ASSUME MaxPollsAssumption == MaxPolls \in Nat \ {0}
ASSUME FaultsAssumption   == MaxFaults \in Nat

VARIABLES
  link,       \* the modem's link: status 3, 4, 5 or 6 of AT#TCPCONNECT?
  urc,        \* a #SOCKETCLOSED line has not been handled yet
  pc,         \* where the call is; "off" between calls
  status,     \* the last answer of query_tcp_status()
  attempt,
  polls,
  connected,  \* CellularSocket::connected
  closed,     \* CellularSocket::closed
  faults

vars == <<link, urc, pc, status, attempt, polls, connected, closed, faults>>
sockvars == <<connected, closed>>

Links == {"idle", "connecting", "connected", "closing"}

Init ==
  /\ link = "idle" /\ urc = FALSE
  /\ pc = "off" /\ status = "unknown" /\ attempt = 0 /\ polls = 0
  /\ connected = FALSE /\ closed = FALSE
  /\ faults = 0

-----------------------------------------------------------------------------
(* The modem.                                                               *)

Decide ==
  /\ link = "connecting" /\ link' \in {"connected", "idle"}
  /\ UNCHANGED <<urc, pc, status, attempt, polls, sockvars, faults>>

PeerCloses ==
  /\ link = "connected" /\ link' = "closing" /\ urc' = TRUE
  /\ UNCHANGED <<pc, status, attempt, polls, sockvars, faults>>

Gone ==
  /\ link = "closing" /\ link' = "idle"
  /\ UNCHANGED <<urc, pc, status, attempt, polls, sockvars, faults>>

\* urc_socketclosed().
UrcSocketclosed ==
  /\ urc /\ urc' = FALSE
  /\ closed' = TRUE /\ connected' = FALSE
  /\ UNCHANGED <<link, pc, status, attempt, polls, faults>>

-----------------------------------------------------------------------------
(* The call.                                                                *)

\* A bug: an unanswered query is taken for success.
IsConnectedOrUnknown(st) == st \in {"connected", "unknown"}
IsConnected(st) == st = "connected"

\* A bug: an attempt in flight is not recognised.
NeverInFlight(st) == FALSE
InFlight(st) == st = "connecting"

Call ==
  /\ pc = "off"
  /\ pc' = "first" /\ attempt' = 0 /\ polls' = 0
  /\ UNCHANGED <<link, urc, status, sockvars, faults>>

\* query_tcp_status(); URCs that came before the answer are handled first.
Query ==
  /\ ~urc
  /\ \/ status' = link /\ UNCHANGED faults
     \/ faults < MaxFaults /\ faults' = faults + 1 /\ status' = "unknown"

FirstQuery ==
  /\ pc = "first" /\ Query
  /\ pc' = "loop"
  /\ UNCHANGED <<link, urc, attempt, polls, sockvars>>

Over == IsConnected(status) \/ attempt = Attempts \/ status = "closing"

Poll ==
  /\ pc = "loop" /\ ~Over /\ InFlight(status)
  /\ pc' = "poll" /\ polls' = 0
  /\ UNCHANGED <<link, urc, status, attempt, sockvars, faults>>

\* Poll until the link is decided or the deadline has passed.
PollQuery ==
  /\ pc = "poll" /\ Query
  /\ polls' = polls + 1
  /\ IF InFlight(status') /\ polls' < MaxPolls
     THEN UNCHANGED <<pc, attempt>>
     ELSE pc' = "loop" /\ attempt' = attempt + 1
  /\ UNCHANGED <<link, urc, sockvars>>

\* AT#TCPCONNECT=; the modem starts connecting an idle link, refuses any other.
Issue ==
  /\ pc = "loop" /\ ~Over /\ ~InFlight(status)
  /\ pc' = "command"
  /\ link' = IF link = "idle" THEN "connecting" ELSE link
  /\ UNCHANGED <<urc, status, attempt, polls, sockvars, faults>>

\* OK, CME error or timeout: the answer itself is ignored.
CommandEnds ==
  /\ pc = "command" /\ ~urc
  /\ pc' = "check"
  /\ UNCHANGED <<link, urc, status, attempt, polls, sockvars, faults>>

CheckQuery ==
  /\ pc = "check" /\ Query
  /\ pc' = "loop" /\ attempt' = attempt + 1
  /\ UNCHANGED <<link, urc, polls, sockvars>>

\* The locals of the call go with it.
CallEnds == pc' = "off" /\ status' = "unknown" /\ attempt' = 0 /\ polls' = 0

Fail ==
  /\ pc = "loop" /\ Over /\ ~IsConnected(status)
  /\ CallEnds
  /\ UNCHANGED <<link, urc, sockvars, faults>>

\* Success: the lock is released, then the socket is marked connected.
Unlock ==
  /\ pc = "loop" /\ IsConnected(status)
  /\ pc' = "mark"
  /\ UNCHANGED <<link, urc, status, attempt, polls, sockvars, faults>>

Mark ==
  /\ pc = "mark" /\ CallEnds
  /\ connected' = TRUE
  /\ UNCHANGED <<link, urc, closed, faults>>

Step ==
  \/ FirstQuery \/ Poll \/ PollQuery \/ Issue \/ CommandEnds \/ CheckQuery
  \/ Fail \/ Unlock \/ Mark

Next == Call \/ Step \/ Decide \/ PeerCloses \/ Gone \/ UrcSocketclosed

\* The calling thread runs, commands are answered or time out, URCs are handled.
Fairness == WF_vars(Step) /\ WF_vars(UrcSocketclosed)

Spec == Init /\ [][Next]_vars /\ Fairness

-----------------------------------------------------------------------------
TypeOK ==
  /\ link \in Links
  /\ urc \in BOOLEAN /\ connected \in BOOLEAN /\ closed \in BOOLEAN
  /\ pc \in {"off", "first", "loop", "poll", "command", "check", "mark"}
  /\ status \in Links \cup {"unknown"}
  /\ attempt \in 0 .. Attempts
  /\ polls \in 0 .. MaxPolls
  /\ faults \in 0 .. MaxFaults

\* AT#TCPCONNECT is not sent while a link of this socket is coming up, is up or
\* is closing, as long as every status query was answered.
NoDuplicateConnect ==
  [][Issue /\ faults = 0 => link = "idle"]_vars

\* A socket the driver takes for connected has a link, or its end is on the way.
UsableHasLink == connected /\ ~closed => link = "connected" \/ urc

\* What a call of connect() still has to do, at most, from where it stands.
StepsOfAttempt == MaxPolls + 3
StepsFrom(a) == 2 + (Attempts - a) * StepsOfAttempt
StepsLeft ==
  CASE pc = "off"     -> 0
    [] pc = "mark"    -> 1
    [] pc = "loop"    -> StepsFrom(attempt)
    [] pc = "check"   -> StepsFrom(attempt + 1) + 1
    [] pc = "command" -> StepsFrom(attempt + 1) + 2
    [] pc = "poll"    -> StepsFrom(attempt + 1) + (MaxPolls - polls) + 1
    [] pc = "first"   -> StepsFrom(attempt) + 1
=============================================================================
