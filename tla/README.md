# A TLA+ verification of the ST87M01 driver

The repository is an mbed driver for the ST87M01 NB-IoT modem: a set of classes
that derive from mbed's AT-command cellular framework and turn socket, HTTP and
TLS calls into AT commands, and the modem's unsolicited result codes (URCs) back
into state and callbacks. This directory holds TLA+ models of the parts where
several threads, the modem and the network meet, the TLC runs that check them,
and TLAPS proofs about them.

## 1. Inventory

Paths are relative to the repository. "Base class" is mbed's `AT_CellularStack`,
`AT_CellularContext`, `AT_CellularDevice`, `ATHandler`, `InternetSocket`; it is
not part of the repository and is modelled only from how this code uses it.

| Component | State it keeps | Operations |
|---|---|---|
| `ST87M01_CellularStack`, socket table | the base class's table of 6 `CellularSocket` (id, proto, connected, closed, pending_bytes, txfull_event); `_rx_buf[]` and its pool; `_socket_sslctxID[]`; `_ip_ver_sendto` | `create_socket_impl`, `socket_close_impl`, `open_tcp_session`, `close_tcp_session`, `close_all_sockets`, `reap_orphan_sockets`, URC `#SOCKETCLOSED` |
| ... receive path | `SocketRxBuffer` head and tail, `pending_bytes` | `socket_recvfrom_impl`, URC `#IPRECV` |
| ... transmit path | `txfull_event` per socket, one `_txfull_event_id` | `socket_sendto_impl`, `txfull_event_timeout`, destructor |
| ... connect | `connected`, `closed` | `socket_connect`, `query_tcp_status` |
| ... addresses | `_ip_configured`, `_cid` | `get_ip_address`, `gethostbyname`, `ensure_ip_configured` |
| `ST87M01` device | `_configured`; on the modem: bands, IP preference, `+CFUN`, key and certificates, each in RAM and in NVM | `init`, `configure`, `wait_for_app_ready`, `soft_reset`, `ensure_cfun1`, `init_tls`, `get_sim_state`, `reset`, `set_baud_rate` |
| `ST87M01_TlsProvisioning` | none in the driver | `generate_key`, `add_key`, `delete_key`, `add_certificate_impl`, `delete_certificate`, `check_profile`, `save_to_nvm`, PEM/hex/DER conversions |
| `ST87M01_CellularContext` | `_cid`, `_http_socket_id`, `_http_client`, `_stack` | `get_context`, `select_existing_cid`, `deactivate_context`, `get_stack`, `get_ip_address`, `http_open`, `http_close` |
| `ST87M01_HTTP` | `_http_started`, attached socket, `_cid` | attach, start, stop, get, post, `read_response` |
| `ST87M01_CellularNetwork` | `_op_act` | registration, signal quality |
| `ST87M01_CellularInformation` | none | identity queries |

**How they interact.** The application calls sockets of mbed, which call the
stack; `http_open()` takes a socket of the stack behind the application's back.
Every AT command runs under one recursive lock of `ATHandler`. A URC that arrived
before an answer is handled while that answer is awaited, on the thread that
waits: `#IPRECV` and `#SOCKETCLOSED` change the table in the middle of another
call. `_socket_mutex` protects `pending_bytes` and the TX-full state; the TX-full
timeout runs on the event queue's thread. Callbacks set the READ/WRITE flag of a
socket, on which blocked callers wait. mbed's state machine calls `init()` again
after a failure and for later connections. Its `connect()` holds the AT lock from
the first command of `get_context()` to the activation of the context it chose;
the stack has its own copy of the CID, which `get_context()`, `get_stack()` and
`get_ip_address()` refresh, the last two without the lock. An HTTP session is one
socket of the stack, one client object and the modem's HTTP stack, which
`http_open()` sets up one after the other; each command of a request has the lock
for itself only.

**What is hard.** Modem ids are reused, and the driver learns of it by URCs in flight,
or not at all where an older entry has the id. Commands may take effect and lose their
answer. The host restarts while the modem keeps its sockets, and the modem reboots
while the host keeps its flags. One timeout is shared by all sockets. Credentials take
several commands and a reboot to become persistent. Connecting outlasts its own
command. The modem activates contexts by itself while the driver looks for one. A
response may come after the request that asked for it was given up.

**What makes each part correct.**

* Socket table: a modem socket has one owner; a URC and a close reach that owner;
  buffers match open sockets; nothing is orphaned by a restart; the AT lock is
  always given back.
* Receive: bytes in order, once; a waiting reader is woken; the counter of
  pending segments agrees with the modem.
* Transmit: a congested sender is woken; a mark has its timeout; the destructor
  leaves none in the queue.
* Connect: no second AT#TCPCONNECT over a live one; success means a link; it ends.
* Boot: success means provisioned, saved and online; no needless reboot; what a
  failed call left behind does not stop or deceive the next.
* Context: the best context is chosen, an active one is not redefined, the stack
  works on the CID the context chose, `_ip_configured` tells the truth, connecting
  gets there.
* HTTP: an open session has a link or learns of its end; a request is sent by a
  started client on the session's own socket; a session that ends or fails leaves
  neither socket, table entry nor client behind; a response belongs to the request
  that gets it; every call returns.

PROJECT.json lists the hazards with their lines.

## 2. Modules

| Module | Models | Read first |
|---|---|---|
| `CellularStack` | the socket table, from AT#SOCKETCREATE to AT#SOCKETCLOSE | `CreateDone`, `CloseDone`, `Dispatch`, `SweepNext`, `ReapList` |
| `ByteChannel` | abstract: what receiving on a socket promises | `Deliver` |
| `SocketRx` | the receive path of one socket; implements `ByteChannel` | `ReadTcp`, `StopOk`, `UrcIprecv` |
| `SocketTx` | all senders of a stack and the shared timeout | `TcpCongested`, `Timeout`, `Destroy` |
| `TcpConnect` | the loop of `socket_connect()` | `PollQuery`, `Issue`, `Mark` |
| `HttpSession` | sessions, the entries they leave and requests, over `TcpConnect` | `SocketClose`, `OpenStart`, `StopDone`, `UrcToOldEntry` |
| `PdpContext` | which context the driver, its stack and its IP flag work on | `Choose`, `ReuseListed`, `StackGot`, `IpSet` |
| `DeviceBoot` | `init()` against the modem's RAM and NVM | `QueryIp`, `KeyBlock`, `AddKey`, `Save` |
| `*_proofs` | theorems about the module of that name | the invariant before the lemmas |

### CellularStack
`sock`, `rxbuf`, `pool`, `ipver` are the driver's fields; `modem` and `urcs` are
the modem's sockets and the lines on the UART. `at` is the AT lock together with
the program counter of its holder: a command is one action that acquires the lock
and issues it, and another that reads the answer (`CreateDone` or `CreateFails`,
`CloseDone`, ...), so that the network acts in between. An answer is read only
when `urcs` is empty, because the handler dispatches what stands before it.
`Features` selects what the application and the network do: HTTP sessions,
`close_all_sockets()`, remote closes. `RemoteCloseFrees` is a choice the
repository does not settle, whether the modem frees the id of a socket its peer
closed; runs and theorems say which they need. `faults` counts commands that are
refused or lose their answer, with or without effect; `crashes` counts restarts
of the host, after which the constructor (`Init`, `Crash`) reaps.
Each operation that UDP and TCP share is one action; the profile of a socket, its
address and its data are left out.

### SocketRx and ByteChannel
A byte is its position in the stream of the peer; `buf` holds the base, head and
tail of the scratch buffer, `queue` the lengths of the segments the modem holds.
`RecvStep` serves from the buffer or issues AT#IPREAD; `ReadTcp`, `ReadUdp`,
`ReadBreaks`, `ReadNothing` are what the response may look like, `StopOk` and
`StopFails` the end of it. A URC is handled before the answer. Truncation
of a segment above the buffer size is in the model. `lossy` is a history variable:
bytes the modem had and nobody will get. `Channel == INSTANCE ByteChannel` needs
no mapping, the variables have the same names.

### SocketTx
Each socket has one sending thread. `Acquire`, `Sent`, `UdpCongested`, `Resend`,
`TcpCongested`, `Leave` are the parts of `socket_sendto_impl()` between the points
where it can be interrupted; the UDP retries keep the AT lock, as in the code.
`armed` is `_txfull_event_id`, `queued` what the event queue really holds. The
timeout leaves the queue in one step (`DispatchTimeout`, `running`) and does its
work under `_socket_mutex` in another (`Timeout`); the destructor takes no mutex and
may come between the two, after which the callback runs on the deleted stack
(`TimeoutOnDeleted`, whose effect is undefined and not followed). A close is two
steps as well: mbed first takes the callback away (`Detach`), which makes the
timeout pass over the mark, and then closes (`Reopen`, with the next socket of the
slot).
`call_in` failing for lack of memory is fatal in the code and not modelled.

### TcpConnect
`link` is the modem's state of the connection, `status` the last answer of
`query_tcp_status()`, `pc` the place in the loop. The answer to AT#TCPCONNECT is
not used by the code and not in the model. `Unlock` and `Mark` are separate: the
code sets `connected` after it has released the lock. The module has no run of its
own: its steps are those of `Connecting`, `Connected` and `NotConnected` in
`HttpSession`, whose `SessionHasLink` is `UsableHasLink` session after session.

### HttpSession
`HttpSession` EXTENDS `TcpConnect`, whose variables describe the session's socket,
from its creation to its close. `app` is the call of `http_open()`, `http_close()`,
the client's `start()`, `stop()`, `attach_socket()`, `detach_socket()`, `get()` or
`post()` in progress and its next command. `session` is `_http_socket_id`, `attached`
and `started` are the client's `_socket_id` and `_http_started`; `running` is the
modem's HTTP stack, which a lost answer makes differ from `started`. `own` remembers
that the application attached the client itself, to any id. `table` holds the ids of
the sessions' entries, `mine` the slot of the present one, `shut` the older ones that
are marked closed; `assigned` are the modem's sockets. `FindSocket` finds the first
entry with an id, so that an older one may hide the session's (`Hidden`):
`#SOCKETCLOSED` then goes to that entry (`UrcToOldEntry`) and the close may be skipped
(`SkipsClose`). `PeerCloseFrees` lets the modem free the id of a socket whose peer has
closed it, as `RemoteCloseFrees` does in `CellularStack`; the modem may also keep it.
`lost` and `told` are history: sockets about which a command failed, and ids for which
a `#SOCKETCLOSED` was handled. Every command is acknowledged (`Acked`) or not
(`Failed`), and an unacknowledged one may have taken effect. A request is its number;
`pending` are those whose response may still come: `Read` gets any of them, or
nothing. One thread of the application makes the calls: two of them in one client
would share `_http_started` and the modem's one exchange without any lock, and the
repository does not say that they may. Sweeps (`close_all_sockets()`) during a session
are `CellularStack`'s concern. Response parsing is left out, the destructors are
`http_close()` and `stop()` again.

### PdpContext
`defined`, `active` and `ip` are the modem's contexts: whether one is listed by
`+CGDCONT?` and with the configured APN, whether it is active, whether its IP
stack runs. `conn` is the call of `get_context()` or `deactivate_context()` in
progress; `LineRead` is one line of the list, `Rank` and `Choose` its ranking as
written, which takes the APN of the current line also for the context chosen
before. `stack` is the CID of the stack, `ipcfg` its `_ip_configured` with, as
history, the CID it was set for. `user` is an application thread in `get_stack()`,
`get_ip_address()` or at the head of `create_socket_impl()`. Two threads: what
`connect()` does is atomic to the other, except for what does not take the lock.
`get_context()` of the base class is the fallback: it defines a context of its own,
after a failed query without knowing which. Its deletion of a failed new context
is left out, PDP types are, and so are NON-IP contexts.

### DeviceBoot
`work` and `nvm` are the modem's settings in use and those it boots with. `pc` is
the next command, named after it (`"cfun?"` is the query, `"bands="` the write);
every command is acknowledged (`Acked`) or not (`NotAcked`), and an unacknowledged
write may have taken effect. While the application processor boots any command
may fail, and AT#SIMST does (CME 1120). `PowerLoss` may keep or drop each unsaved
item on its own (a key in flash may survive where a certificate does not), and
the radio may come up on or off. `Crash` restarts the host only. The options of
the build are a variable that never changes, so that one run covers several
builds; it is assumed that `bands` is configured, as the shipped configuration
does. The parsing of certificates, which fails the same way at every call, is
left out. `MissingKey`, `MissingCa` and `MissingDev` say what the build asks for and
the modem does not have; what the driver learns of it is in `CheckKey` and `CheckCert`:
whether there is a certificate, not which. `complete` and `since` are history variables
of the running call, `misled` of all calls: whether an AT#TLSCERTLIST failed, the power
was lost, or the modem came with a device certificate alone.
One caller is modelled: mbed's state machine calls `init()` from its own thread.

## 3. Runs

| Run | Configuration | Shows |
|---|---|---|
| `sockets_tcp` | 2 slots, 3 ids, TCP, remote closes that keep the id, 1 fault, 1 restart | `UniqueIds`, `OpenTracked`, `HasBuffer`, `ClosedIsShut` hold (15 351 states) |
| `sockets_all` | 2 slots, 2 ids, TCP and UDP, two IP versions, every feature, 1 fault | `TypeOK`, `PoolAccounting`, `LockReleased` hold (367 485 states) |
| `close_all` | TCP, sweeps | finding: `SweepLeavesNone` |
| `rx` | TCP or UDP, buffer of 3, segments of 1, 2, 4, reads of 1 and 3, 3 segments, 1 failed read | `PendingCounts`, `NoLostWakeup`, `OrderedDelivery`, `ReaderWoken` hold (81 835 states) |
| `rx_leftover` | TCP, segments that fit | finding: `LeftoverKept` |
| `tx` | 2 TCP and 1 UDP sender | `MarkHasTimeout`, `NoTimeoutStartsOnDeleted`, `HoldShortens`, `MarkedSenderWoken` hold (146 483 states) |
| `tx_blocked` | 2 TCP senders | finding: `BlockedSenderWoken` |
| `http` | 2 table entries, 2 ids, 2 attempts and 1 poll of `connect()`, 2 requests, 1 failed command, 1 unanswered query | `SessionHasLink`, `RequestsUseSession`, `NoClientLeft`, `SocketsAccounted`, `NoDuplicateConnect`, `AnswersItsRequest`, `CallShortens` hold (4 292 022 states) |
| `http_entries` | 2 entries, 2 ids, nothing fails | finding: `EntriesReturned` |
| `context` | CIDs 1, 5 and 6 with every listed, active and IP state of the modem, an APN, 2 activations or drops, 1 failed command | `SelectionIsBest`, `NeverRedefinesActive`, `IpFlagHonest`, `StackFollowsContext`, `ConnectSucceeds` hold (2 581 827 states) |
| `boot` | 4 builds, every initial state of the modem, 1 fault, 1 power loss, 1 restart | `ProvisionedWhenOk`, `OnlineWhenOk`, `ConfiguredIsSet`, `NoNeedlessSave`, `ProvisionedKeyKept`, `InitShortens`, `InitSucceeds` hold (1 817 559 states) |
| `boot_saved` | CA certificate, 1 fault, 1 restart | finding: `CaCertSaved` |

**Why the bounds are enough.** Two slots let two sockets meet; three ids over two
slots leave one free, so that an id is reused while its former owner is still in the
table, and the modem can also run out (two ids in `sockets_all`). One fault reaches
every error path from every state; one restart reaches every leftover. In `rx` the
buffer is smaller than the largest segment and larger than the others, reads are
smaller and as large as the buffer, three segments let one be buffered, one be on the
modem and one be on the way. In `tx` two TCP senders are the least that share the
timeout; the UDP sender competes for the lock. In `http` two attempts let the loop of
`connect()` repeat and end, and a link that is still coming up after the one poll
meets the next attempt. Two requests are the least that can be confused; two entries
and two ids let a session follow a session, with the same id or another, and then find
the table full; one failed command breaks each call at each of its commands. In
`context` three CIDs are the two the modem activates and one it does not, and two
events let a context come and go during one call. In `boot` one fault, one power loss
and one restart combine into three broken calls in a row. The safety properties named
in section 5 are proved for every bound.

**How long a call takes.** `CallShortens` (connect() and sessions), `HoldShortens`
(a send) and `InitShortens` (the boot) are action properties about a measure: what
a call still has to do, at most, from the command it stands at. Each step of the
call makes it smaller, and nothing that the modem, the network, another thread or
a fault does makes it larger. They need no fairness, unlike the liveness property
next to them, and say more: that the number of retries, polls and rounds is
bounded together, and by what. The proof modules state and prove three more of
the kind, each next to its measure: `HoldShortens` of `CellularStack_proofs`
(`AnswersLeft`; its run checks `LockReleased`), `ConnectShortens` of
`PdpContext_proofs` (`CommandsLeft`) and of `TcpConnect_proofs` (`StepsLeft`, which
is also part of the measure of `CallShortens`).

**Deadlock** is checked except in `SocketRx` (a peer that has sent everything and
a reader at end of stream are done) and `SocketTx` (a deleted stack is the end).

**Fairness.** Weak fairness, with one exception below. AT commands end, because
`ATHandler` gives each a timeout; a thread that holds the AT lock runs on, and one
that waits gets it eventually (mbed's mutexes wake waiters by priority and in order);
URCs that are on the UART are handled, because the handler reads whatever arrives;
timers fire. The modem finishes its boot, and the host calls `init()` again after a
failure (the retries of mbed's state machine, unbounded in the model). The network is
never fair: links need not come up, peers need not send. Fault, loss and restart
counters are bounded, which is the usual "eventually they stop". The exception is
`GetContext` in `PdpContext`, strongly fair: mbed calls `connect()` again and again,
but the AT lock it needs is taken by the other thread in between, so that the step is
enabled again and again and not all the time. `InitSucceeds` leaves out a build with a
device certificate and without `tls_generate_key`: there a failed query followed by a
failed AT#TLSKEYADD can leave a profile with a certificate and no key, which no later
call repairs. The success it promises does not say that the CA certificate is on the
modem (see the observations on `init_tls()` in section 4).

## 4. Findings

1. `close_all`: a second sweep skips a live socket. The first sweep marks entries
   closed and keeps their ids; the modem hands the id out again; `find_socket()`
   and the sweep stop at the older entry.
2. `rx_leftover`: `#SOCKETCLOSED` discards bytes the application has not read yet,
   although they are in the host's own buffer.
3. `tx_blocked`: a sender that is congested while another's timeout is running is
   not marked and not woken by it.
   It takes no second socket at a time: a close clears the mark but not the timeout,
   and the next socket in the slot is congested while it runs.
4. `http_entries`: `close_tcp_session()` never returns the table entry that
   `open_tcp_session()` took: each session that connected costs one of the six for good.
5. `boot_saved`: a call of `init()` that breaks off after AT#TLSCERTADD leaves a
   certificate that the next call reports as provisioned and never saves.

Each run's trace is the evidence; PROJECT.json quotes the text it contradicts. What
does hold in their place is proved: `SweepClosesVisible` for 1, `BytesKept` for 2
and `SuccessIsSaved` for 5.

Seen while modelling, without a run of their own, because a property that holds
already says what is left of the promise, or because no text of the repository
promises more:

* The destructor of the stack takes no mutex, and a TX-full timeout that the event
  queue has already dispatched runs on the deleted object (`TimeoutOnDeleted`;
  `NoTimeoutStartsOnDeleted` is what the destructor achieves).
* A session whose entry is hidden by an older one with the same id does not hear of
  its `#SOCKETCLOSED`: it stays open, for the driver, without a link (`SessionHasLink`
  has this one exception).
* The same entry, once it is marked closed, makes `http_close()` skip AT#SOCKETCLOSE
  and report success; the connected socket stays on the modem (`told` in
  `SocketsAccounted`). Both need a modem that frees the id of a socket its peer
  has closed.
* After a failed AT#TLSCERTLIST `init_tls()` deletes the CA certificate; when it
  cannot be added again, the next `init()` finds the device certificate, takes it for
  the CA certificate and succeeds without one, as all later calls do. A modem that
  comes with a device certificate alone never gets the CA certificate either
  (`misled` in `ProvisionedWhenOk` names these cases, and a power loss; that there are
  no others is `SuccessIsProvisioned`).
* With a device certificate in the build every `init()` adds it again, writes the NVM
  and reboots the modem (`NoNeedlessSave` is about the other builds).
* A pre-provisioned key is replaced by the placeholder that adding a CA certificate
  generates, although `tls_generate_key` is false (`ProvisionedKeyKept` is about builds
  that add none).
* When AT#SOCKETCLOSE fails, `http_close()` reports it and forgets the socket, which
  stays on the modem (`SocketsAccounted`).
* `_ip_configured` is never reset: after the context was dropped, or the stack has
  moved to another CID, sockets are created without an IP stack (`IpFlagHonest` is
  what does hold).
* The rank "other" of `select_existing_cid()` is never chosen: 10 is not below 7.
* After a failed `+CGACT?` or `+CGDCONT?`, `get_context()` redefines CID 5 although
  it is active (`NeverRedefinesActive` needs answered queries).
* `get_stack()` reads `_cid` before it waits for the lock; a `get_context()` in between
  leaves the stack on the old CID (`StackFollowsContext` has this one exception).
* `create_socket_impl()` does not reset `closed`: a UDP socket whose `#SOCKETCLOSED` is
  handled during the close of a reopen is marked closed with a new modem socket,
  and its own close then sends nothing (`Attributed` in the proofs leaves this out).
* The HTTP client keeps the CID of its creation, -1 if that was before `connect()`.
* A response that comes after `read_response()` gave up may be returned by the next
  request, and each later one may then get its predecessor's (`AnswersItsRequest`
  holds until a call has given up).
* `set_registration()` takes CME 3 with any registration for success, on whichever
  operator; `get_sim_state()` repeats after every CME error (`&&` for `||`).

## 5. Proofs

Proved with TLAPS for every value of the constants (`tlapm <module>`), with the
named assumptions of each module only.

* `CellularStack_proofs`: `TypeCorrect`, `PoolAccounted`, `RxAllocationSucceeds`,
  `HoldBounded`, `SweepClosesVisible`. The invariant adds to the types where each
  program counter of `at` may point and that `pool` is the cardinality of the buffers
  given out; the pool has a block for every id, therefore an allocation for an id
  without buffer finds one. `HoldBounded` needs no more than the types: a close may be
  followed by a create, that by a connect, a sweep looks at each id once, and the list
  of the reaper only gets shorter. `SweepClosesVisible` says what finding 1 leaves of
  the sweep's promise, with no assumption on the mix of operations: `SweepInv` is that
  while no command failed each id the sweep has passed is closed on the modem or
  hidden from `find_socket()` by an older entry that is marked closed. It rests on the
  lemma that `find_socket()` finds an entry when there is one (the least element of a
  set of indices), and on what each other action may do to an entry during the sweep.
* `CellularStack_ids_proofs`: `IdsUnique`, `OpenHasBuffer` under `Disciplined` (no
  sweep, no HTTP session, a remote close keeps the id, and no fault where UDP
  sockets are reopened), `ClosedMeansShut` and `NoOrphans` under `Attributed`
  (`Disciplined`, and no UDP where the network closes sockets). The assumptions are
  needed: without them TLC refutes the properties, which is how finding 1, the
  leak of table entries and the mark that outlives a reopen came up. `UniqueIds` is
  not inductive: the modem may hand out an id only while no entry has it, so the
  strengthening says that every id of an entry is assigned on the modem, except
  for the one being reopened right now, that the call in progress owns what it works
  on, and which ids the reaper has still to look at.
* `SocketRx_proofs`: `RxTypeCorrect`, `PendingIsCounted`, `WakeupsReachReader`,
  `BytesKept`, `NoGapWhileOpen` and `DeliveryInOrder`, the refinement of
  `ByteChannel`. The invariant places the
  buffer's range after everything delivered and before everything on the modem;
  each step maps to `Send`, `Lose`, `Deliver` or a stutter. The count needs that a
  read in progress has bytes to hand over, and two lemmas on the cardinality of
  the #IPRECV lines when one is appended or handled (a bijection of the rest). For
  the wake-ups, `WakeInv` says what a reader that goes to wait has seen: an empty
  buffer and a count of zero, so that with `PendingCounts` every segment on the
  modem has its line still to come, or its event set since. `BytesKept` is what holds
  where finding 2 breaks `LeftoverKept`: under `Fits` (a segment fits `_rx_buf`, a
  datagram the caller's buffer) only an AT error or a close drops bytes. Its
  invariant says that the modem's segments, one behind the other, have the sizes
  the peer sends, so that #IPREAD copies each one whole. With the refinement,
  `NoGapWhileOpen` follows: until then the returns of `recv()` have no gap.
* `SocketTx_proofs`: `TxTypeCorrect`, `MarksTimeOut`, `TimeoutsCancelled`,
  `HoldBounded`. One invariant ties `armed`, `queued`, `running`, `alive` and the marks
  together: one timeout at most is under way, queued or dispatched;
  `HolderInv` says that the lock is held by exactly the thread that sends or pauses.
* `TcpConnect_proofs`: `ConnectTypeCorrect`, `ConnectedHasLink`,
  `ConnectNotRepeated`, `ConnectBounded`. A link that was seen up is up, or its end
  was told or is about to be: an invariant (`LinkInv`) of the answer as much as of the
  flag, because the answer is old when it is used; `ControlInv` says that a link seen
  idle stays idle until this call orders it, and holds whoever gets the URC. The
  measure multiplies attempts by polls, and the lemmas that it is a natural and what
  one attempt takes off it are stated once.
* `HttpSession_proofs`: `SessionTypeCorrect`, `SessionKeepsLink`,
  `RequestsHaveSession`, `SessionLeavesNoClient`, `SocketsAreAccounted`, `AnswersMatch`,
  `CallsBounded`. A step of the session is, to the socket, one of `TcpConnect`, the
  change to another socket, or a URC that an older entry took; `LinkInv` is needed
  only while the session's entry is not hidden. The invariant says where the session's
  entry and id are at each command of a call, what the client thinks, when the modem's
  HTTP stack may run on, that a modem socket is the session's or one of those the
  history names, and that, before any call gave up, the only response pending is that
  of the request in progress. `find_socket()` is the least element of a set of
  slots, which exists because `<` is well-founded on the naturals (a theorem of the
  library). The measure of a call contains that of its `connect()`.
* `PdpContext_proofs`: `ContextTypeCorrect`, `SelectionCorrect`, `ActiveKept`,
  `IpFlagTrue`, `StackOnContext`, `ConnectBounded`. For the selection, that the
  chosen context is the best of the lines read so far, for any list: the
  comparison by the wrong APN does no harm, because lines come in the order of CIDs
  and rank 10 is never chosen. The bound counts the lines of the list, a set of
  CIDs that each line makes smaller.
* `DeviceBoot_proofs`: `BootTypeCorrect`, `ConfiguredStaysSet`,
  `SuccessIsProvisioned`, `SuccessIsOnline`, `SavedOnlyWhenNeeded`, `SuccessIsSaved`,
  `KeyKept`, `InitBounded`. `ConfigureInv` says what each step of `configure()` has
  already written or seen; `StageInv` what is known of the key before each command of
  `init_tls()`, provided the modem kept its power; `CaInv` that, as long as nothing
  could mislead `init()`, a device certificate is never there without the CA
  certificate, so that "some certificate" means the right one; `BlockInv` which item a
  command is about; `LeftAlone` at which commands a call can be that found nothing
  missing and met no fault. `SuccessIsSaved` bounds finding 5: a call that added
  anything and succeeds has saved it all (`SavedInv`: once `need` is set, the call is
  at a command from which only the save leads to success). For `KeyKept`, `KeyInv`
  says that where neither a key is generated nor a CA certificate added, the commands
  that delete and add keys are not reached, and the saved key is the one at work.
  `InitBounded` counts the commands of the model: those of the preamble are one, and
  AT#BANDCFG and AT#SCAN, whose answers change nothing, none.

**Only model-checked:** what is temporal under fairness (`LockReleased`,
`ReaderWoken`, `MarkedSenderWoken`, `ConnectSucceeds`, `InitSucceeds`): liveness and
ENABLED are outside what the prover does. Its safety core is proved. `LockReleased`
follows from the bounded measures once each command is answered; of `ReaderWoken` and
`MarkedSenderWoken` the part a program can get wrong is that a wake-up is lost
(`WakeupsReachReader`) or has no timeout (`MarksTimeOut`). For `ConnectSucceeds` and
`InitSucceeds` the theorems say that each call ends and what its success means; that
some later call succeeds rests on TLC. Every other property of a passing run is stated
by a theorem, the ids of `CellularStack` under the assumptions named above. Nothing
here needs induction over data or RECURSIVE operators.

## 6. Not modelled

* `CellularInformation` and the single queries of the device have no state;
  `get_sim_state()` repeats one query ten times at most.
* `CellularNetwork`: `set_registration()` is a query and up to two commands whose
  outcome is returned and not kept. Properties of it would repeat its conditions.
* The conversions of `TlsProvisioning` (PEM, hex, DER length, RSA bits) are parsers
  over bytes; `add_key()` and calls of the class by the application are the
  commands that `DeviceBoot` has, in the application's order.
* Sockets that were created on one CID while the stack is on another: whether the
  modem accepts their ids then is not known from the repository. `CellularStack` has
  one CID, `PdpContext` no sockets; hence also not that a stack built before the
  context has a CID reaps nothing.
* The TLS profile of a socket (`set_sslctxid`, `setsockopt`; `create_tls_socket` is
  not called).
* UART framing, timing in milliseconds, logging and the strings of commands are
  below these models. Memory exhaustion of the host (`new` in an embedded build)
  ends the program.

## 7. Plan

Done: `CellularStack`, `ByteChannel`, `SocketRx`, `SocketTx`, `TcpConnect`,
`DeviceBoot`, `HttpSession`, `PdpContext`, and their proofs. What
could follow:

1. That `init()` implements an abstract "provision or fail".
2. `CellularStack` with the CID of `PdpContext`, once it is known what the modem does
   with sockets of another CID.
3. TLS provisioning by the application, next to `init()`; `add_key()`.
