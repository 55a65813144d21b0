-------------------------- MODULE TcpConnect_proofs --------------------------
(***************************************************************************)
(* Proof that a socket socket_connect() marked connected has a link, for   *)
(* every number of attempts, polls and failed queries.                     *)
(***************************************************************************)
EXTENDS TcpConnect, TLAPS

\* A link that was seen up is up, or its end was told or is about to be.
UpOrTold == link = "connected" \/ urc \/ closed

\* Where the call stands, whatever its socket is told.
ControlInv ==
  /\ TypeOK
  /\ pc = "mark" => IsConnected(status)
  /\ pc = "poll" => polls < MaxPolls
  /\ pc \in {"first", "poll", "command", "check"} => attempt < Attempts

LinkInv ==
  /\ connected => UpOrTold
  /\ IsConnected(status) /\ pc \in {"loop", "mark"} => UpOrTold

ConnectInv == ControlInv /\ LinkInv

LEMMA ConnectInit == Init => ConnectInv
<1> SUFFICES ASSUME Init PROVE ConnectInv
  OBVIOUS
<1>1. TypeOK
  <2>1. attempt \in 0 .. Attempts /\ polls \in 0 .. MaxPolls /\ faults \in 0 .. MaxFaults
    BY AttemptsAssumption, MaxPollsAssumption, FaultsAssumption DEF Init
  <2>2. urc \in BOOLEAN /\ connected \in BOOLEAN /\ closed \in BOOLEAN
    BY DEF Init
  <2>3. QED
    BY <2>1, <2>2 DEF Init, TypeOK, Links
<1>2. pc = "off" /\ connected = FALSE
  BY DEF Init
<1>3. QED
  BY <1>1, <1>2 DEF ConnectInv, ControlInv, LinkInv

\* An answered query tells where the link is.
LEMMA QueryTells ==
  ASSUME ControlInv, Query, UNCHANGED link
  PROVE  /\ status' \in Links \cup {"unknown"} /\ faults' \in 0 .. MaxFaults
         /\ IsConnected(status') => link = "connected"
BY FaultsAssumption DEF ControlInv, TypeOK, Query, IsConnected, Links

LEMMA ModemControl ==
  ASSUME ControlInv, Decide \/ PeerCloses \/ Gone \/ UrcSocketclosed \/ UNCHANGED vars
  PROVE  ControlInv'
<1> USE DEF ControlInv, TypeOK, Links, sockvars
<1>1. CASE Decide \/ PeerCloses \/ Gone
  BY <1>1 DEF Decide, PeerCloses, Gone
<1>2. CASE UrcSocketclosed \/ UNCHANGED vars
  BY <1>2 DEF UrcSocketclosed, vars
<1>3. QED
  BY <1>1, <1>2

LEMMA CallControl == ASSUME ControlInv, Call \/ Step PROVE ControlInv'
<1> USE DEF ControlInv, sockvars
<1>1. CASE Call
  BY <1>1, AttemptsAssumption, MaxPollsAssumption DEF Call, TypeOK
<1>2. CASE FirstQuery
  BY <1>2, QueryTells DEF FirstQuery, TypeOK
<1>3. CASE Poll
  BY <1>3, AttemptsAssumption, MaxPollsAssumption DEF Poll, Over, TypeOK
<1>4. CASE PollQuery
  <2>1. status' \in Links \cup {"unknown"} /\ faults' \in 0 .. MaxFaults
        /\ UNCHANGED <<link, urc, sockvars>>
    BY <1>4, QueryTells DEF PollQuery
  <2>2. polls' \in 1 .. MaxPolls
    BY <1>4, MaxPollsAssumption DEF PollQuery, TypeOK
  <2>3. CASE InFlight(status') /\ polls' < MaxPolls
    BY <1>4, <2>1, <2>2, <2>3 DEF PollQuery, TypeOK
  <2>4. CASE ~(InFlight(status') /\ polls' < MaxPolls)
    <3>1. pc' = "loop" /\ attempt' = attempt + 1
      BY <1>4, <2>4 DEF PollQuery
    <3>2. attempt' \in 0 .. Attempts
      BY <1>4, <3>1, AttemptsAssumption DEF PollQuery, TypeOK
    <3>3. QED
      BY <2>1, <2>2, <3>1, <3>2 DEF TypeOK
  <2>5. QED
    BY <2>3, <2>4
<1>5. CASE Issue
  BY <1>5, AttemptsAssumption DEF Issue, Over, TypeOK, Links
<1>6. CASE CommandEnds
  BY <1>6 DEF CommandEnds, TypeOK
<1>7. CASE CheckQuery
  <2>1. attempt' \in 0 .. Attempts /\ pc' = "loop"
    BY <1>7, AttemptsAssumption DEF CheckQuery, TypeOK
  <2>2. QED
    BY <1>7, <2>1, QueryTells DEF CheckQuery, TypeOK
<1>8. CASE Fail
  BY <1>8, AttemptsAssumption, MaxPollsAssumption DEF Fail, CallEnds, TypeOK
<1>9. CASE Unlock
  BY <1>9 DEF Unlock, TypeOK
<1>10. CASE Mark
  BY <1>10, AttemptsAssumption, MaxPollsAssumption DEF Mark, CallEnds, TypeOK
<1>11. QED
  BY <1>1, <1>2, <1>3, <1>4, <1>5, <1>6, <1>7, <1>8, <1>9, <1>10 DEF Step

LEMMA ControlStep == ControlInv /\ [Next]_vars => ControlInv'
BY ModemControl, CallControl DEF Next

\* A link that was seen up and is lost is told, and what the URC finds is this
\* socket.
LEMMA LinkStep == ASSUME ControlInv, LinkInv, [Next]_vars PROVE LinkInv'
<1> USE DEF LinkInv, UpOrTold, sockvars
<1>1. CASE Decide \/ PeerCloses \/ Gone \/ UrcSocketclosed \/ UNCHANGED vars
  BY <1>1 DEF Decide, PeerCloses, Gone, UrcSocketclosed, vars, ControlInv, TypeOK
<1>2. CASE FirstQuery \/ PollQuery \/ CheckQuery
  <2>1. Query /\ UNCHANGED <<link, urc, sockvars>>
    BY <1>2 DEF FirstQuery, PollQuery, CheckQuery
  <2>2. IsConnected(status') => link = "connected"
    BY <2>1, QueryTells
  <2>3. QED
    BY <2>1, <2>2
<1>3. CASE Issue
  BY <1>3 DEF Issue, Over
<1>4. CASE Call \/ Poll \/ CommandEnds \/ Fail \/ Unlock
  BY <1>4 DEF Call, Poll, CommandEnds, Fail, CallEnds, Unlock
<1>5. CASE Mark
  BY <1>5 DEF Mark, CallEnds, ControlInv
<1>6. QED
  BY <1>1, <1>2, <1>3, <1>4, <1>5 DEF Next, Step

LEMMA ConnectStep == ConnectInv /\ [Next]_vars => ConnectInv'
BY ControlStep, LinkStep DEF ConnectInv

\* No call makes more than Attempts attempts or MaxPolls polls of one attempt
\* (ST87M01_CellularStack::socket_connect).
THEOREM ConnectTypeCorrect == Spec => []TypeOK
<1>1. ConnectInv => TypeOK
  BY DEF ConnectInv, ControlInv
<1>2. QED
  BY <1>1, ConnectInit, ConnectStep, PTL DEF Spec

\* A socket marked connected has a link, or #SOCKETCLOSED is on the way, although
\* the mark is set after the AT lock was released (socket_connect,
\* urc_socketclosed).
THEOREM ConnectedHasLink == Spec => []UsableHasLink
<1>1. ConnectInv => UsableHasLink
  BY DEF ConnectInv, LinkInv, UpOrTold, UsableHasLink
<1>2. QED
  BY <1>1, ConnectInit, ConnectStep, PTL DEF Spec

\* With every query answered, the status a decision rests on is the modem's; a
\* link seen idle stays idle until this call orders it.
AnsweredInv ==
  pc = "loop" => (faults = 0 => status \in Links) /\ (status = "idle" => link = "idle")

LEMMA AnsweredStep == ASSUME ControlInv, AnsweredInv, [Next]_vars PROVE AnsweredInv'
<1> USE DEF AnsweredInv, sockvars, ControlInv, TypeOK, Links
<1>1. CASE UNCHANGED vars
  BY <1>1 DEF vars
<1>2. CASE Decide \/ PeerCloses \/ Gone \/ UrcSocketclosed
  BY <1>2 DEF Decide, PeerCloses, Gone, UrcSocketclosed
<1>3. CASE FirstQuery \/ PollQuery \/ CheckQuery
  <2>1. Query /\ link' = link
    BY <1>3 DEF FirstQuery, PollQuery, CheckQuery
  <2>2. \/ status' = link
        \/ faults' = faults + 1 /\ status' = "unknown"
    BY <2>1 DEF Query
  <2>3. QED
    BY <2>1, <2>2
<1>4. CASE Call \/ Poll \/ Issue \/ CommandEnds \/ Fail \/ Unlock \/ Mark
  BY <1>4 DEF Call, Poll, Issue, CommandEnds, Fail, CallEnds, Unlock, Mark
<1>5. QED
  BY <1>1, <1>2, <1>3, <1>4 DEF Next, Step

LEMMA IssueFromIdle == ASSUME AnsweredInv, Issue, faults = 0 PROVE link = "idle"
BY DEF AnsweredInv, Issue, Over, InFlight, IsConnected, Links

\* AT#TCPCONNECT= is not sent for a socket whose link is coming up, up or closing,
\* whatever happened since the query (socket_connect, query_tcp_status).
THEOREM ConnectNotRepeated == Spec => NoDuplicateConnect
<1>1. Init => AnsweredInv
  BY DEF Init, AnsweredInv
<1>2. AnsweredInv => (Issue /\ faults = 0 => link = "idle")
  BY IssueFromIdle
<1>3. ConnectInv /\ AnsweredInv /\ [Next]_vars => AnsweredInv'
  BY AnsweredStep DEF ConnectInv
<1>4. AnsweredInv /\ [Next]_vars => [Issue /\ faults = 0 => link = "idle"]_vars
  BY <1>2
<1>5. QED
  BY <1>1, <1>3, <1>4, ConnectInit, ConnectStep, PTL DEF Spec, NoDuplicateConnect

-----------------------------------------------------------------------------
(* How long a call can get.                                                  *)

\* A product of naturals is one; one attempt less is one term less.
LEMMA StepsPerAttempt ==
  ASSUME NEW a \in 0 .. Attempts
  PROVE  /\ StepsFrom(a) \in Nat /\ StepsFrom(a) >= 2
         /\ a < Attempts => StepsFrom(a) = StepsFrom(a + 1) + MaxPolls + 3
<1> DEFINE n == Attempts - a
           k == MaxPolls + 3
<1>1. n \in Nat /\ k \in Nat
  BY AttemptsAssumption, MaxPollsAssumption
<1>2. n * k \in Nat
  <2> HIDE DEF n, k
  <2> QED
    BY <1>1
<1>3. a < Attempts => n * k = (n - 1) * k + k
  <2>1. ASSUME NEW x \in Int, NEW y \in Int PROVE x * y = (x - 1) * y + y
    OBVIOUS
  <2> HIDE DEF n, k
  <2> QED
    BY <1>1, <2>1
<1>4. StepsFrom(a) = 2 + n * k /\ StepsFrom(a + 1) = 2 + (Attempts - (a + 1)) * k
  BY DEF StepsFrom, StepsOfAttempt
<1>5. Attempts - (a + 1) = n - 1
  BY AttemptsAssumption
<1>6. (n - 1) * k \in Int
  <2> HIDE DEF n, k
  <2> QED
    BY <1>1
<1>7. StepsFrom(a + 1) = 2 + (n - 1) * k
  BY <1>4, <1>5
<1> HIDE DEF n
<1>8. QED
  BY <1>2, <1>3, <1>4, <1>6, <1>7, MaxPollsAssumption

LEMMA StepsLeftAt ==
  ASSUME ControlInv, pc # "off"
  PROVE  /\ StepsLeft \in Nat /\ StepsLeft > 0
         /\ pc \in {"poll", "command", "check"} =>
              /\ attempt < Attempts
              /\ StepsFrom(attempt + 1) \in Nat /\ StepsFrom(attempt + 1) >= 2
<1>1. attempt \in 0 .. Attempts /\ polls \in 0 .. MaxPolls
  BY DEF ControlInv, TypeOK
<1>2. StepsFrom(attempt) \in Nat /\ StepsFrom(attempt) >= 2
  BY <1>1, StepsPerAttempt
<1>3. ASSUME pc \in {"poll", "command", "check"}
      PROVE  /\ attempt < Attempts
             /\ StepsFrom(attempt + 1) \in Nat /\ StepsFrom(attempt + 1) >= 2
  <2>1. attempt < Attempts
    BY <1>3 DEF ControlInv
  <2>2. attempt + 1 \in 0 .. Attempts
    BY <1>1, <2>1, AttemptsAssumption
  <2>3. QED
    BY <2>1, <2>2, StepsPerAttempt
<1>4. pc \in {"first", "loop", "poll", "command", "check", "mark"}
  BY DEF ControlInv, TypeOK
<1>5. QED
  BY <1>1, <1>2, <1>3, <1>4, MaxPollsAssumption DEF StepsLeft

\* Each step of the call, from where it stands.
LEMMA StepShortens == ASSUME ControlInv, ControlInv', pc # "off", Step PROVE StepsLeft' \in 0 .. (StepsLeft - 1)
<1>1. /\ attempt \in 0 .. Attempts /\ polls \in 0 .. MaxPolls /\ attempt' \in 0 .. Attempts
      /\ polls' \in 0 .. MaxPolls
  BY DEF ControlInv, TypeOK
<1>2. /\ StepsFrom(attempt) \in Nat /\ StepsFrom(attempt) >= 2
      /\ attempt < Attempts =>
           /\ StepsFrom(attempt) = StepsFrom(attempt + 1) + MaxPolls + 3
           /\ StepsFrom(attempt + 1) \in Nat /\ StepsFrom(attempt + 1) >= 2
  <2>1. attempt < Attempts => attempt + 1 \in 0 .. Attempts
    BY <1>1, AttemptsAssumption
  <2>2. QED
    BY <1>1, <2>1, StepsPerAttempt
<1>3. /\ StepsFrom(attempt)' = StepsFrom(attempt')
      /\ StepsFrom(attempt + 1)' = StepsFrom(attempt' + 1)
  BY DEF StepsFrom, StepsOfAttempt
<1> USE MaxPollsAssumption
<1>4. CASE FirstQuery
  BY <1>1, <1>2, <1>3, <1>4 DEF FirstQuery, StepsLeft
<1>5. CASE Poll
  <2>1. attempt < Attempts
    BY <1>1, <1>5, AttemptsAssumption DEF Poll, Over
  <2>2. QED
    BY <1>1, <1>2, <1>3, <1>5, <2>1 DEF Poll, StepsLeft
<1>6. CASE PollQuery
  <2>1. attempt < Attempts /\ polls < MaxPolls /\ pc = "poll" /\ polls' = polls + 1
    BY <1>6 DEF PollQuery, ControlInv
  <2>2. (pc' = "poll" /\ attempt' = attempt) \/ (pc' = "loop" /\ attempt' = attempt + 1)
    BY <1>6, <2>1 DEF PollQuery
  <2>3. QED
    BY <1>1, <1>2, <1>3, <2>1, <2>2 DEF StepsLeft
<1>7. CASE Issue
  <2>1. attempt < Attempts
    BY <1>1, <1>7, AttemptsAssumption DEF Issue, Over
  <2>2. QED
    BY <1>1, <1>2, <1>3, <1>7, <2>1 DEF Issue, StepsLeft
<1>8. CASE CommandEnds
  <2>1. attempt < Attempts
    BY <1>8 DEF CommandEnds, ControlInv
  <2>2. QED
    BY <1>1, <1>2, <1>3, <1>8, <2>1 DEF CommandEnds, StepsLeft
<1>9. CASE CheckQuery
  <2>1. attempt < Attempts
    BY <1>9 DEF CheckQuery, ControlInv
  <2>2. QED
    BY <1>1, <1>2, <1>3, <1>9, <2>1 DEF CheckQuery, StepsLeft
<1>10. CASE Fail
  BY <1>2, <1>10 DEF Fail, CallEnds, StepsLeft
<1>11. CASE Unlock
  BY <1>2, <1>3, <1>11 DEF Unlock, StepsLeft
<1>12. CASE Mark
  BY <1>12 DEF Mark, CallEnds, StepsLeft
<1>13. QED
  BY <1>4, <1>5, <1>6, <1>7, <1>8, <1>9, <1>10, <1>11, <1>12 DEF Step

\* The modem and the peer do not touch the counters of the call.
LEMMA OthersKeepSteps ==
  ASSUME Decide \/ PeerCloses \/ Gone \/ UrcSocketclosed \/ UNCHANGED vars
  PROVE  StepsLeft' = StepsLeft
<1>1. UNCHANGED <<pc, attempt, polls>>
  BY DEF Decide, PeerCloses, Gone, UrcSocketclosed, vars
<1>2. QED
  BY <1>1 DEF StepsLeft, StepsFrom, StepsOfAttempt

LEMMA ConnectShorter ==
  ASSUME ControlInv, [Next]_vars, pc # "off"
  PROVE  StepsLeft' \in 0 .. StepsLeft /\ (Step => StepsLeft' # StepsLeft)
<1>1. StepsLeft \in Nat
  BY StepsLeftAt
<1>2. CASE Step
  <2>1. StepsLeft' \in 0 .. (StepsLeft - 1)
    BY <1>2, ControlStep, StepShortens
  <2>2. QED
    BY <1>1, <2>1
<1>3. CASE ~Step
  <2>1. Decide \/ PeerCloses \/ Gone \/ UrcSocketclosed \/ UNCHANGED vars
    BY <1>3 DEF Next, Call
  <2>2. QED
    BY <1>1, <1>3, <2>1, OthersKeepSteps
<1>4. QED
  BY <1>2, <1>3

\* Attempts and polls together are bounded: nothing the modem or the network does
\* makes a running connect() longer, and each of its own steps makes it shorter.
ConnectShortens ==
  [][pc # "off" => StepsLeft' \in 0 .. StepsLeft /\ (Step => StepsLeft' # StepsLeft)]_vars

\* A call of connect() has at most 3 + Attempts * (MaxPolls + 3) steps: each step
\* brings it nearer to its end and nothing the network does takes it back
\* (socket_connect).
THEOREM ConnectBounded == Spec => ConnectShortens
<1>1. ConnectInv /\ [Next]_vars =>
        [pc # "off" => StepsLeft' \in 0 .. StepsLeft /\ (Step => StepsLeft' # StepsLeft)]_vars
  BY ConnectShorter DEF ConnectInv
<1>2. QED
  BY <1>1, ConnectInit, ConnectStep, PTL DEF Spec, ConnectShortens
=============================================================================
