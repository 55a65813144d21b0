----------------------------- MODULE PdpContext -----------------------------
(***************************************************************************)
(* Which PDP context the driver works on: get_context() of                 *)
(* ST87M01_CellularContext selects one the modem has, and the stack        *)
(* follows with its CID and the IP configuration its sockets need.         *)
(*                                                                         *)
(* Two threads: connect()/disconnect(), which hold the AT lock from the    *)
(* first command of get_context() to the activation, and an application    *)
(* thread that gets the stack and creates sockets.  Meanwhile the modem    *)
(* activates CID 5 and 6 by itself, and the network drops contexts.        *)
(***************************************************************************)
EXTENDS Integers, FiniteSets

CONSTANTS
  Cids,        \* contexts the modem may have
  HasApn,      \* is an APN configured?
  MaxEvents,   \* times the modem activates or the network drops contexts
  MaxFaults    \* commands that fail

\* "ST87M01 supports CIDs 1-6 only; CID 5 is usually auto-activated."
AutoCids == {5, 6}

ASSUME CidsAssumption   == AutoCids \subseteq Cids /\ Cids \subseteq 1 .. 6 /\ Cids # AutoCids
ASSUME ApnAssumption    == HasApn \in BOOLEAN
ASSUME BoundsAssumption == MaxEvents \in Nat /\ MaxFaults \in Nat

NoCid   == -1
NoStack == -2

VARIABLES
  defined,   \* cid -> "none", or whose APN the modem's definition has
  active,    \* cids of the active contexts
  ip,        \* cids on which the modem's IP stack runs
  cid,       \* _cid of the context
  conn,      \* connect(): next command, answer of +CGACT?, lines to come, chosen cid
  stack,     \* _cid of the stack, or NoStack
  ipcfg,     \* _ip_configured, and (history) the cid whose IP stack it is about
  user,      \* the application thread: next command, cid it has read
  events,
  faults

modem == <<defined, active, ip>>
host  == <<cid, stack, ipcfg>>
vars  == <<modem, host, conn, user, events, faults>>

Connecting == conn.pc \notin {"off", "up"}
Creating   == user.pc \in {"ipcfg?", "cgpaddr", "ipcfg="}

Idle(p) == [pc |-> p, found |-> {}, todo |-> {}, cid |-> NoCid]

Ok    == UNCHANGED faults
Fault == faults < MaxFaults /\ faults' = faults + 1

Init ==
  /\ defined \in [Cids -> {"none", "own", "other"}]
  /\ active \in SUBSET {c \in Cids : defined[c] # "none"}
  /\ ip \in SUBSET active
  /\ cid = NoCid
  /\ conn = Idle("off")
  /\ stack = NoStack
  /\ ipcfg = [set |-> FALSE, cid |-> NoCid]
  /\ user = [pc |-> "idle", cid |-> NoCid]
  /\ events = 0 /\ faults = 0

-----------------------------------------------------------------------------
(* The modem and the network.                                               *)

\* On attach the modem activates CID 5 or 6, with or without its IP stack.
Attach(c) ==
  /\ events < MaxEvents /\ events' = events + 1
  /\ c \notin active
  /\ active' = active \cup {c}
  /\ ip' \in {ip, ip \cup {c}}
  /\ defined' = [defined EXCEPT ![c] = IF @ = "none" THEN "other" ELSE @]
  /\ UNCHANGED <<host, conn, user, faults>>

\* A context goes down, and its IP stack with it.
GoDown(C) ==
  /\ active' = active \ C /\ ip' = ip \ C
  /\ ipcfg' = IF ipcfg.cid \in C THEN [ipcfg EXCEPT !.cid = NoCid] ELSE ipcfg

\* The network drops contexts; a reboot of the modem drops all.
Drop(C) ==
  /\ events < MaxEvents /\ events' = events + 1
  /\ C # {} /\ GoDown(C)
  /\ UNCHANGED <<defined, cid, conn, stack, user, faults>>

-----------------------------------------------------------------------------
(* get_context().                                                           *)

\* prefer_rank(): for any context it compares the APN of the current line.
Rank(c, line) ==
  CASE c \in conn.found -> IF c = 5 THEN 0 ELSE IF c = 6 THEN 1 ELSE 2
    [] c \notin conn.found -> IF HasApn /\ defined[line] = "own" THEN 3 ELSE 10

\* A bug: the first line counts, whatever its rank.
ChooseNoLimit(chosen, c) ==
  IF chosen = NoCid \/ Rank(c, c) < Rank(chosen, c) THEN c ELSE chosen

\* While nothing is chosen the rank to beat is 7: rank 10 is never taken.
Choose(chosen, c) ==
  IF Rank(c, c) < (IF chosen = NoCid THEN 7 ELSE Rank(chosen, c)) THEN c ELSE chosen

Listed == {c \in Cids : defined[c] # "none"}

Command(p)   == conn' = [conn EXCEPT !.pc = p]
Select(p, c) == conn' = [conn EXCEPT !.pc = p, !.cid = c]
Return(p)    == conn' = Idle(p)

GetContext ==
  /\ ~Connecting /\ ~Creating
  /\ Command("cgact?")
  /\ UNCHANGED <<modem, host, user, events, faults>>

\* select_existing_cid() fails, or has chosen nothing.
Reuse == conn' = [conn EXCEPT !.pc = "reuse?", !.todo = {}]

ActiveListed ==
  /\ conn.pc = "cgact?"
  /\ \/ Ok /\ conn' = [conn EXCEPT !.pc = "cgdcont?", !.found = active]
     \/ Fault /\ Reuse
  /\ UNCHANGED <<modem, host, user, events>>

ContextsListed ==
  /\ conn.pc = "cgdcont?"
  /\ \/ Ok /\ conn' = [conn EXCEPT !.pc = "line", !.todo = Listed]
     \/ Fault /\ Reuse
  /\ UNCHANGED <<modem, host, user, events>>

\* One line of the answer; the answer may break off.
LineRead ==
  /\ conn.pc = "line"
  /\ \/ /\ Ok
        /\ \E c \in conn.todo :
             /\ \A d \in conn.todo : c <= d
             /\ conn' = [conn EXCEPT !.todo = @ \ {c}, !.cid = Choose(@, c)]
     \/ conn.todo # {} /\ Fault /\ Reuse
  /\ UNCHANGED <<modem, host, user, events>>

\* A bug: nothing chosen is taken for a choice.
LinesEndUnchecked ==
  /\ conn.pc = "line" /\ conn.todo = {}
  /\ Command("active?")
  /\ UNCHANGED <<modem, host, user, events, faults>>

\* A bug: CID 5 or 6 is reused whatever was chosen.
LinesEndForNothing ==
  /\ conn.pc = "line" /\ conn.todo = {}
  /\ Reuse
  /\ UNCHANGED <<modem, host, user, events, faults>>

LinesEnd ==
  /\ conn.pc = "line" /\ conn.todo = {}
  /\ IF conn.cid = NoCid THEN Reuse ELSE Command("active?")
  /\ UNCHANGED <<modem, host, user, events, faults>>

\* CID 5 if the modem has it, else 6; a failed answer may end before either.
ReuseListed ==
  /\ conn.pc = "reuse?" /\ Listed \cap AutoCids # {}
  /\ \/ Ok /\ Select("cgdcont=", IF 5 \in Listed THEN 5 ELSE 6)
     \/ Fault /\ \E c \in Listed \cap AutoCids : Select("cgdcont=", c)
  /\ UNCHANGED <<modem, host, user, events>>

Own == IF HasApn THEN "own" ELSE "other"

SetCid(c) == stack' = IF stack = NoStack THEN stack ELSE c

\* A bug: without CID 5 and 6 get_context() gives up.
BaseGetContextNot ==
  /\ conn.pc = "reuse?" /\ Listed \cap AutoCids = {} /\ Ok
  /\ Return("off")
  /\ UNCHANGED <<modem, host, user, events>>

\* get_context() of the base class defines a context of its own.
Define(c) ==
  /\ defined' = [defined EXCEPT ![c] = Own]
  /\ Select("cgact=", c) /\ cid' = c /\ SetCid(c)

\* Neither is listed, or the answer failed before either: the base class goes on,
\* after a failed answer without knowing what the modem has.
BaseGetContext ==
  /\ conn.pc = "reuse?"
  /\ \/ Ok /\ Listed \cap AutoCids = {} /\ \E c \in Cids \ AutoCids : Define(c)
     \/ Fault /\ \E c \in Cids : Define(c)
     \/ Fault /\ Return("off") /\ UNCHANGED <<defined, cid, stack>>
  /\ UNCHANGED <<active, ip, ipcfg, user, events>>

Reconfigured ==
  /\ conn.pc = "cgdcont="
  /\ \/ Ok /\ Command("active?") /\ defined' = [defined EXCEPT ![conn.cid] = Own]
     \/ Fault /\ Return("off") /\ defined' \in {defined, [defined EXCEPT ![conn.cid] = Own]}
  /\ UNCHANGED <<active, ip, host, user, events>>

Chosen ==
  /\ conn.pc = "active?"
  /\ \/ Ok /\ conn.cid \in active /\ Return("up")
     \/ Ok /\ conn.cid \notin active /\ Command("cgact=")
     \/ Fault /\ Command("cgact=")

\* A bug: an existing stack keeps its CID.
SelectedOnly ==
  /\ Chosen /\ cid' = conn.cid
  /\ UNCHANGED <<modem, stack, ipcfg, user, events>>

\* is_active_context(), then the end of get_context().
Selected ==
  /\ Chosen /\ cid' = conn.cid /\ SetCid(conn.cid)
  /\ UNCHANGED <<modem, ipcfg, user, events>>

\* activate_context() of the base class.
Activated ==
  /\ conn.pc = "cgact="
  /\ \/ Ok /\ active' = active \cup {cid} /\ Return("up")
     \/ Fault /\ active' \in {active, active \cup {cid}} /\ Return("off")
  /\ UNCHANGED <<defined, ip, host, user, events>>

-----------------------------------------------------------------------------
(* deactivate_context().                                                    *)

Disconnect ==
  /\ conn.pc = "up" /\ ~Creating
  /\ Command("cgact=0")
  /\ UNCHANGED <<modem, host, user, events, faults>>

\* The last active context stays up (CME 171), which counts as success.
Deactivated ==
  /\ conn.pc = "cgact=0" /\ Return("off")
  /\ \/ Ok /\ active # {cid} /\ GoDown({cid})
     \/ Ok /\ active = {cid} /\ UNCHANGED <<active, ip, ipcfg>>
     \/ Fault /\ (GoDown({cid}) \/ UNCHANGED <<active, ip, ipcfg>>)
  /\ UNCHANGED <<defined, cid, stack, user, events>>

-----------------------------------------------------------------------------
(* The stack.                                                               *)

\* get_stack(), get_ip_address(): _cid is read without a lock.
GetStack ==
  /\ user.pc = "idle"
  /\ user' = [pc |-> "stack", cid |-> cid]
  /\ UNCHANGED <<modem, host, conn, events, faults>>

\* The constructor, which waits for the lock to reap orphans, or set_cid().
StackGot ==
  /\ user.pc = "stack"
  /\ stack = NoStack => ~Connecting
  /\ stack' = user.cid
  /\ user' = [pc |-> "idle", cid |-> NoCid]
  /\ UNCHANGED <<modem, cid, ipcfg, conn, events, faults>>

UserGo(p) == user' = [user EXCEPT !.pc = p]

\* create_socket_impl() starts with ensure_ip_configured().
CreateSocket ==
  /\ user.pc = "idle" /\ ~Connecting
  /\ stack \in Cids /\ ~ipcfg.set
  /\ UserGo("ipcfg?")
  /\ UNCHANGED <<modem, host, conn, events, faults>>

Configured == ipcfg' = [set |-> TRUE, cid |-> stack] /\ UserGo("idle")

\* A failed query that has not shown the IP stack counts as "not active".
IpQueried ==
  /\ user.pc = "ipcfg?"
  /\ \/ Ok /\ stack \in ip /\ Configured
     \/ Ok /\ stack \notin ip /\ UserGo("cgpaddr") /\ UNCHANGED ipcfg
     \/ Fault /\ UserGo("cgpaddr") /\ UNCHANGED ipcfg
  /\ UNCHANGED <<modem, cid, stack, conn, events>>

\* Without an address there is nothing to configure.
AddressQueried ==
  /\ user.pc = "cgpaddr"
  /\ \/ Ok /\ UserGo(IF stack \in active THEN "ipcfg=" ELSE "idle")
     \/ Fault /\ UserGo("idle")
  /\ UNCHANGED <<modem, host, conn, events>>

\* A bug: the answer of #IPCFG= is not looked at.
IpSetUnchecked ==
  /\ user.pc = "ipcfg="
  /\ ip' \in {ip, ip \cup ({stack} \cap active)}
  /\ Configured /\ Ok
  /\ UNCHANGED <<defined, active, cid, stack, conn, events>>

\* AT#IPCFG=; the modem refuses it for a context that has gone down.
IpSet ==
  /\ user.pc = "ipcfg="
  /\ \/ Ok /\ stack \in active /\ ip' = ip \cup {stack} /\ Configured
     \/ Ok /\ stack \notin active /\ UserGo("idle") /\ UNCHANGED <<ip, ipcfg>>
     \/ /\ Fault /\ ip' \in {ip, ip \cup ({stack} \cap active)}
        /\ UserGo("idle") /\ UNCHANGED ipcfg
  /\ UNCHANGED <<defined, active, cid, stack, conn, events>>

-----------------------------------------------------------------------------
ContextStep ==
  \/ ActiveListed \/ ContextsListed \/ LineRead \/ LinesEnd
  \/ ReuseListed \/ BaseGetContext \/ Reconfigured \/ Selected \/ Activated \/ Deactivated

StackStep == StackGot \/ IpQueried \/ AddressQueried \/ IpSet

Next ==
  \/ GetContext \/ Disconnect \/ ContextStep
  \/ GetStack \/ CreateSocket \/ StackStep
  \/ \E c \in AutoCids : Attach(c)
  \/ \E C \in SUBSET active : Drop(C)

\* Commands are answered or time out; a connect() that failed is called again,
\* and gets the AT lock among the other thread's uses of it.
Fairness ==
  /\ WF_vars(ContextStep) /\ WF_vars(StackStep)
  /\ SF_vars(conn.pc = "off" /\ GetContext)

Spec == Init /\ [][Next]_vars /\ Fairness

-----------------------------------------------------------------------------
Cid == Cids \cup {NoCid}

ModemTypeOK ==
  /\ defined \in [Cids -> {"none", "own", "other"}]
  /\ active \in SUBSET Cids /\ ip \in SUBSET active

ConnTypeOK ==
  /\ conn \in [pc : {"off", "cgact?", "cgdcont?", "line", "reuse?", "cgdcont=", "active?",
                     "cgact=", "up", "cgact=0"},
               found : SUBSET Cids, todo : SUBSET Cids, cid : Cid]
  /\ conn.pc \in {"cgdcont=", "active?"} => conn.cid \in Cids

HostTypeOK ==
  /\ cid \in Cid /\ stack \in Cid \cup {NoStack}
  /\ conn.pc \in {"cgact=", "up", "cgact=0"} => cid \in Cids
  /\ ipcfg \in [set : BOOLEAN, cid : Cid]
  /\ user \in [pc : {"idle", "stack", "ipcfg?", "cgpaddr", "ipcfg="}, cid : Cid]

\* Types; and a command that names a context has one to name.
TypeOK ==
  /\ ModemTypeOK /\ ConnTypeOK /\ HostTypeOK
  /\ events \in 0 .. MaxEvents /\ faults \in 0 .. MaxFaults

\* The best contexts of S as the comment on the ranking has it: active CID 5,
\* active CID 6, the first active one, the first with the configured APN.
Best(S) ==
  LET Active   == S \cap conn.found
      Same     == {c \in S : HasApn /\ defined[c] = "own"}
      First(T) == {c \in T : \A d \in T : c <= d}
  IN  CASE Active \cap AutoCids # {} -> First(Active \cap AutoCids)
        [] Active \cap AutoCids = {} /\ Active # {} -> First(Active)
        [] Active = {} -> First(Same)

\* The pass over the lines, which compares the chosen context by the APN of
\* another line, has the best of those it has read, and none if there is none.
SelectionIsBest ==
  conn.pc = "line" =>
    IF Best(Listed \ conn.todo) = {}
    THEN conn.cid = NoCid
    ELSE conn.cid \in Best(Listed \ conn.todo)

\* While every query is answered, connect() does not overwrite the definition of
\* a context that is active, unless it became active after +CGACT?.
NeverRedefinesActive ==
  conn.pc = "cgdcont=" /\ faults = 0 => conn.cid \notin active \cap conn.found

\* The stack leaves the context's CID only by a get_stack() that had read _cid
\* before get_context() on another thread changed it.
StackFollowsContext ==
  [][(stack \in {cid, NoStack} /\ stack' \notin {cid', NoStack}) =>
       (StackGot /\ user.cid # cid)]_vars

\* _ip_configured means that the modem's IP stack runs on the stack's CID, as
\* long as the stack has not moved and the context was not dropped since.
IpFlagHonest == ipcfg.set /\ ipcfg.cid = stack /\ stack \in Cids => stack \in ip

\* When commands stop failing and the network lets be, connect() succeeds.
ConnectSucceeds == <>(conn.pc = "up")
=============================================================================
