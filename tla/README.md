# A TLA+ model of openvpn3-go

The repository is a Go package around the OpenVPN 3 core. A Go program makes a
`Client`, runs `Connect` on it and stops it from other goroutines; on Windows a
process-wide engine wraps one such client behind `Connect`, `Disconnect` and
`Status`. Below a C shim runs the C++ core: a connection controller, a protocol
session, key contexts with a control channel over a reliability layer, and a
data channel with packet ids and epoch keys.

This directory models the parts of that system where order, failure and limits
matter, checks them with TLC on small instances and proves their main
properties with TLAPS for every instance. `PROJECT.json` has the exact
correspondence of definitions and source lines, the runs, the hazards and the
theorems.

## 1. Inventory

| Component | State | Operations | Interacts with |
|---|---|---|---|
| **Client** (`client.go`, `callbacks.go`, `shim/`, `ovpncli.cpp`) | `mu`, `running`, `freed`, `c`, `handle`; the C++ object; `attach_called`, `foreign_thread_ready` | New, Connect, Stop, TransportStats, finish, free; attach, setup, run in the core | Engine and the command line call it; the core calls back through the handle |
| **Engine** (`engine_windows.go`, `tunnel.go`) | `client`, `configPath`, `connectDone`, the atomics `connected`, `fatal`, `lastErr` | connect, disconnect, status, teardownLocked, event sink | owns one Client at a time; sessions report by events |
| **Reliability layer** (`reliable/`, `msgwin.hpp`, `protostack.hpp`) | send, receive and ACK windows, write queues, `re_acks` | send, receive, ack, retransmit, flush | between TLS and the network, one per key context |
| **Packet ids** (`packet_id_control.hpp`, `packet_id_data.hpp`) | counter and time of the sender; replay ring of the receiver | next, test, add | control channel (with tls-auth or tls-crypt) and data channel |
| **Epoch keys** (`data_epoch.*`, `crypto_aead_epoch.hpp`) | send key; current, retiring and future receive keys | encrypt, decrypt, iterate, lookup, replace | data channel of a key context; uses packet ids |
| **Key contexts** (`proto.hpp`) | primary, secondary, `upcoming_key_id`; per key: state, current and next event | start, renegotiate, housekeeping, flush, process events, key limits | the session's callbacks drive it; each key has a reliability layer and a data channel |
| **Connection controller** (`cliconnect.hpp`) | generation, `halt`, `paused`, `client_finalized`, three timers, the bulk resolve, the client session | start, stop, pause, resume, reconnect, timer callbacks, the client's callbacks up to terminate | Client's thread runs it; other threads post to it; makes one session after the other |
| **Protocol session** (`cliproto.hpp`, `clicreds.hpp`, `continuation.hpp`) | `halt`, received options, tun, three timers, held INFO, the credentials all sessions share | authentication, push request, the messages of the server, timer callbacks, stop | made by the controller and reports to it, drives the key contexts |
| **Tun bridge** (`tunspec.go`, `tunbridge_windows.go`) | collected tun spec, `applied` | tun builder verbs, Establish, Teardown | called from the core; asks a privileged helper |
| **Remote list** (`remotelist.hpp`) | list of remotes, index, cached addresses | next, resolve, reset | controller and transports |

The first eight are modelled. The rest, with options, events, transports, tun
setup, ciphers, TLS, the command line, engines of other platforms, build tools
and server code, is listed in section 8.

What is hard here:

- **Interleavings.** `Client` and `engine` drop their locks around C calls and
  drains, and act afterwards on what they read before. Stop, cancellation, the
  end of the session and the release of the object meet in any order.
- **Late callbacks.** Cancelling an Asio timer does not take back a handler
  that is already queued; one handler may bring several control messages, and
  what follows the one that ended the session is handled all the same.
- **Lost calls.** The core ignores a stop before its foreign-thread gate opens.
- **The network.** Packets and ACKs are lost, repeated and reordered, across
  windows, replay rings, epochs and key contexts that all move on.
- **Time.** Handshake windows, renegotiation, expiry and drains race the events
  they wait for.
- **Edges.** Packet ids wrap, epochs end at 65535, key ids recycle, rings turn.

What makes each component correct: the client is released once, after its last
use, and an accepted stop ends it; the engine loses no session and reports the
one it holds; control messages go up once, in order, and in the end all of
them; no packet id is accepted twice and none refused without a reason; no
nonce is used twice and the key of an epoch is found; keys expire in time, the
sender never goes back to an older one, and a flush ends; until it is stopped
the controller has a client or something that will make one, and a late restart
or server-poll callback spares a client that is up; a session reports its connection and its end once, runs its tun
in between, and after a stop leaves nothing that keeps the thread waiting.

## 2. Modules

Every component module has its state, one action per operation and its
properties; the `MC` module instantiates it for TLC; the `Proofs` module holds
the theorems. Operators marked *Mutant* in a comment are faulty variants of the
definition that follows them. They are not part of any specification: each
shows a fault of the code that a property would detect.

**Client** and **ClientContract.** A critical section of `mu` that makes no C call is one action.
`TransportStats` keeps `mu` across its C call, so `mu` is a variable; the
pointer that Stop copies out and uses after unlocking is the step from
`StopBegin` to `StopCall`. The goroutine that Connect spawns goes through
`EnterC`, `Attach`, `Setup`, `EnableForeign` and the run, as `ovpncli.cpp` does;
`CoreStop` is `OpenVPNClient::stop` with its silent return before the gate is
open. Calls into a deleted object are undefined behaviour: they set `dangling`
and go on as if the memory were intact. `ClientContract` is the client as its
user sees it: the stage of its one session (`none`, `new`, `setup`, `up`,
`stopping`, `released`, `ended`) and whether a Stop has acted yet. `Stage` reads
that stage off the control points, the gate and `freed`, `Call` the progress of
a Stop; `ServesEngine` is the refinement. It holds as long as at most one
Connect goes past its checks, which is how the engine uses a client.

**Engine.** Callers run connect (`ConnectSame`, `ConnectFresh`, or
`ConnectSwitch` - drain - `ConnectResume`) and disconnect (`DisconnectIdle`, or
`DisconnectBegin` - `DisconnectStop` - drain - `DisconnectClear`). A session is
what `ClientContract` promises: a Stop before Connect began releases it, a Stop
during setup is dropped, a later one ends it in time, and it may end by itself.
`ConnectStarts` and `GateOpens` are the contract's, `SessionEnds` is its
`WindsDown`, `SessionStops` its `ConnectReturns`, and `Stopped` is a call of
Stop at the point where it acts (`StopActs`, with `StopReleases` for a client
that did not connect). The atomics are kept as the session that set them. `overlapped` and
`abandoned` are history: a call began during another; a drain timed out.

**Reliable** and **ReliableChannel.** Two peers, a network as a set of packets
that may be received any number of times in any order, and lost when `Lossy`.
A handler runs to the end of its flush before the next one, so it is one
action. `ReliableChannel` is the abstract promise: a channel in which messages
go up in the order they were sent. `FifoDelivery` is the refinement of
`Reliable` to it. With tls-auth or tls-crypt (`Modes`) packets carry ids that
can fail their check or expire. The message ids of both peers start at
`StartAt`.

**PacketID.** The sender's counter and the receiver's ring of both channels;
`data` says which. The ring is the set of bits that are set, moved by `Shift`
and `Add` as the code moves `base`, `extent` and the bits. `Receive` is one
call: the data channel always adds, the control channel tests first and adds
only when the message goes into the receive window (`keep`).

**DataEpoch.** Both peers with their send key and their current, retiring and
future receive keys; a key is its epoch and a replay window is the set of ids
it took, which is what `PacketID` shows of the ring. `Encrypt` includes
`check_send_iterate`, `Decrypt` the lookup, the replay test and
`replace_update_recv_key` with the regeneration of the future keys.

**KeyRollover.** One endpoint, in the client's role. A callback of the session
moves the clock, hands over one input (the housekeeping timer, traffic, a
handshake that completes, a soft reset of the peer, a key limit, an error) and
then flushes. The flush runs in turns at the primary and the secondary
(`TurnPrimary`, `TurnSecondary`) until no event is pending, and no input is taken
meanwhile. Only the callback of the housekeeping timer looks at `invalidated()`,
and after its flush and the keepalive check (`Keepalive`): there the session of a
dead primary is stopped (phase `"over"`). Until then every callback flushes a
dead primary as it does a live one. `Stuck` is the state in which such a flush
does not end: the primary is dead, its KEV_EXPIRE due, and there is no live
secondary. `bs64` is a session
with a 64-bit-block cipher, where promotion waits for data on the new key. The
peer is assumed to negotiate one key at a time: only the newest key's handshake
completes, and not after the key was invalidated (an invalidated stack takes no
packet).

**ConnectionController.** All handlers of one `io_context`, one at a time:
`queue` holds the commands that other threads posted and the expired waits.
`Expire` moves a running wait into the queue, `RunHandler` runs the head of it
with the guards of its callback. A cancelled wait leaves `timer`, a handler in
`queue` stays. The code only ever compares a generation with the current one
and with 0, so a wait or handler is `Current` or `Old`; `Aged` is the increment.
`Terminate` takes the kind of error: one that is retried, a failed
authentication, or one that stops. `asked` is history: a reconnect was asked for
since the client was made.

**ClientSession** and **SessionContract.** One session after the other, with
`token`, `password` and `needUser` of the credentials that outlive them.
`Receive` is a handler that decrypts one or more control messages, which
`ControlRecv` then handles one by one; nothing else runs until `batch` is empty,
and an exception drops the rest of it. `TunStarts` and `ReplyFails` are the ways
from a complete reply to the Connected event or to the end. `End` is
`stop(true)`, with the controller's decision to go on or not. `late` records
that a reply was handled after the session had stopped. `SessionContract` is
what the controller may expect: connected at most once, terminated at most once,
after its end only the one connection it had not reported before
(`LateConnect`), silence once the controller has stopped it; `ContractKept` is
the refinement to it. `Connected` and `Terminate` of `ConnectionController` are
its steps seen from the other side: `after` of `Terminate(code, after)` is
what the client reports in the same handler behind its end, a late connection or
an extension of the timeout. The server is assumed to send the parts of a PUSH_UPDATE in a
row.

How they fit together: `ConnectionController` uses `ClientSession` through
`SessionContract`, `ClientSession` takes from it only whether it goes on;
`Client` has the controller as its blocking call, of which it knows that a stop
ends it (`StopReturns`, `RunsDry`); `Engine` uses `Client` through
`ClientContract`; `DataEpoch` replaces the ring of `PacketID` by the set it implements;
`Reliable` runs inside a key of `KeyRollover`, where it appears as the moment a
handshake completes or fails; `Reliable`'s packet id checks are those of
`PacketID`, reduced to seen and expired.

## 3. Runs

| Run | Instance | Shows |
|---|---|---|
| `client_lifetime` | 2 Connects, 1 looping Stop, 1 reader | `IndInv`; the object and handle are released once and never under TransportStats (`ReleasedOnce`); a Connect that made its C call returns only after it and with the release taken on (`ConnectReleases`); with stops by the context alone nothing is used after release (`NoUseAfterRelease`); with one Connect, the client keeps `ClientContract` (`ServesEngine`); an accepted stop makes Connect return, a release that began completes |
| `client_free_race` | 1 Connect, 1 Stop | **violated:** `NeverFreedUnderConnect` |
| `client_lost_stop` | 1 Connect | **violated:** `CancelReturns` |
| `engine_serial` | 2 callers, 2 sessions, 2 profiles | `IndInv`; while calls do not overlap, no session is lost and the flags behind Status are the current client's; every call returns, overlapping or not |
| `engine_two` | the same | **violated:** `OneSession` |
| `reliable_windows` | windows of 2, 4 client and 2 server messages, with and without packet ids | `IndInv`, `FifoDelivery`; without packet ids, an acknowledged message was received (part of `IndInv`) and no packet falls beyond the receive window (`NeverBeyondWindow`) |
| `reliable_settles` | windows of 1, lossy | every message sent is read and acknowledged in the end |
| `packetid_replay` | ring of 4, ids to 7, 2 seconds | `IndInv`; no id accepted twice (`NoReplay`), refusals exactly for replays and ids below the window, its floor or its time (`AcceptsExactly`), no id given twice (`FreshIds`) |
| `epoch_keys` | 3 future keys, epochs to 8 | `IndInv`; no IV twice (`FreshNonce`), no packet passed on twice (`DecryptOnce`), the key of an epoch in range is found (`LookupMatches`) as long as no packet came under the last future key |
| `key_rollover` | 6 keys, 9 ticks | `IndInv`; no key past its lifetime, but for one over its limit or waiting for data (`KeyExpires`), key ids distinguish live keys until they recycle (`IdsApart`), a limit leads to a renegotiation unless it was queued (`LimitHeeded`), the sender never goes back (`NeverRollsBack`), an old key is kept until its end (`OldKeyKept`), every callback returns from its flush unless it came upon `Stuck` (`FlushReturns`) |
| `controller` | 2 commands, 4 configurations | `IndInv`: once halted nothing runs or waits, a client is finalized when it is down and not before, and `conn_timer_pending` tells the truth and is set while a client connects under a timeout; until halted there is a client, a way to one, or a pause (`NeverStranded`); late callbacks spare a client that is up (`StaleTimersSpareClient`); a settled pause holds (`PauseSettled`); a stop ends the run (`StopReturns`); a connection timeout is enforced across clients (`ConnectionTimeoutHolds`), unless the server holds it off again and again (`ServerHoldsOff`) |
| `session` | handlers of 1 or 2 messages, 4 configurations | `IndInv`: the tun runs exactly while the session is connected, it asks for its options until it hears some, INFO waits for the connection, and its wait runs as long as any is held; refusals end the run (`RefusalsEnd`); the controller's contract (`ContractKept`); held INFO is delivered (`HeldInfoDelivered`); after a stop the io_context runs dry (`RunsDry`) |

### Disagreements with what the code says of itself

- `client.go:131` drains the blocking call "so we never free the C client while
  connect() is still touching it". `Stop` decides on a copy of `running`; a
  Connect that begins after the copy is freed under (`client_free_race`).
- `client.go:92` promises that a cancellation is followed by a stop that
  unwinds the call. Issued before `enable_foreign_thread_access`, the stop is
  dropped, and nobody repeats it (`client_lost_stop`).
- `engine_windows.go:44`: "the host owns exactly one OpenVPN3 session".
  Overlapping calls can drop a client that another call has just installed
  (`engine_two`).

## 4. Bounds, and why they are enough

- *Client*: two Connects are enough for one to run and one to be refused or to
  follow; Stop repeats without bound.
- *Engine*: an old and a new session, and two callers to interleave; both
  profiles occur in both orders.
- *Reliable*: four client messages through windows of two make the window slide
  past its first contents, with two held back; with two messages the server's
  first record overtakes its reset; a window of one with one re-ACK
  is the tightest configuration for progress. `MaxPid` bounds the packets sent
  when ids are checked.
- *PacketID*: a ring of four and ids to seven allow jumps within, of exactly and
  beyond the ring; two seconds allow a new time and an expiration; starts at 0
  and 3 stand for a fresh counter and one whose upper bits hold an epoch.
- *DataEpoch*: epochs to eight with three future keys allow skips, a full
  renewal of the vector and the edge where fewer keys are left than the vector
  holds. One id per key: a packet can be repeated and be overtaken by those of
  later keys.
- *KeyRollover*: a lifetime of two renegotiation intervals, as by default, so
  that a retiring key and its successor overlap; callbacks up to three
  ticks apart, so that two deadlines pass unnoticed together and the expiry of a
  dead primary can come due before the next callback (`Stuck` is reached); key ids up to 3, so that
  six keys recycle them; nine ticks cover one lifetime and half of the next.

- *ConnectionController*: two commands, so that each kind meets each other kind
  in both orders, with every number of clients, timers and errors in between;
  one ready handler of a timer at a time, which is enough for it to be late
  (`MaxReady`). The four configurations are those of a default profile with and
  without the first resolve, of an application that pauses on a timeout, and of
  one without timers. The number of clients has no bound.
- *ClientSession*: every message alone and every pair in one handler; longer
  batches only repeat what a pair does, since each message sees only the state
  the one before it left. One held INFO and one posted handler stand for any
  number. The number of sessions and of handlers has no bound.

No symmetry is used where a temporal property is checked. Deadlock is checked
where the system never stops (Engine, PacketID, Reliable's windows, ConnectionController and ClientSession,
where the end of the run is a step of its own); elsewhere
a released client, a session out of ids, an empty network or a bound ends the
behaviour.

## 5. Fairness

- *Client*: weak fairness for a goroutine that can run (Connect, the blocked
  goroutine, StopCall, the end of TransportStats). Release steps compete for
  `mu` with readers that come again and again; Go's mutex hands itself to a
  waiter that has starved, hence strong fairness. A session need not end by
  itself.
- *Engine*: weak fairness for sessions and calls; a drain has a timeout of ten
  seconds, so it always ends.
- *Reliable*: weak fairness for the start and for the retransmit timer; strong
  fairness for receiving each message id and each ACK: the network may lose any
  packet, but not all that carry the same one. Without it nothing can be
  promised over UDP.
- *ConnectionController*: weak fairness for the head of the queue, for the end of
  a resolve (it has answers or errors) and for each running wait, since time
  passes. Nothing is assumed of the clients, the network or other threads.
- *ClientSession*: the same for the messages of a batch and the timers; strong
  fairness for the posted handlers and the info-hold callback, because new
  batches disable them again and again while the `io_context` serves its queue
  in order. No message has to come.
- *KeyRollover*: weak fairness for the turns of a flush and the keepalive check
  behind it: they are code of one callback on one thread. Inputs need not come.

## 6. Proofs

Theorems are of the form `Spec => []P`, for every value of the constants that
meets the module's `ASSUME`, or of a refinement or action property; each rests
on one inductive invariant `IndInv`, which the runs check first.

- **ClientProofs.** `LifeInv` ties the stages of object and handle to `freed`,
  `c` and the control points (`Life`), says that at most one goroutine is past the
  test in `free` (`OneReleases`), that a reader in C holds `mu` and that
  `freed` is not set then (`LockHeld`), and where Connect and its goroutine can
  be (`Control`). Without `Life` a state with the flag set and nobody to delete
  the object would be allowed. `Gate` adds where the blocking call is when the
  foreign-thread gate is open and when a stop was accepted. `IndInv` is both.
  `ServesEngineThm` goes from the control points to the stage (`StageIs`,
  `CallIs`) and then by kind of step (`ConnectServes`, `StopServes`,
  `NewServes`); `Gate` is what excludes a stop that is accepted during the setup
  and one that is dropped during the run. Results: `ReleasedOnceThm`,
  `ConnectReleasesThm`, `CancelOnlyIsSafe`, `ServesEngineThm`.
- **EngineProofs.** While calls do not overlap there is one call (`OneCall`),
  its target is what the engine holds or just gave up (`CallOwns`) and every
  live session is reachable from the engine, a call or the abandoned ones
  (`Reachable`). Results: `OneSessionThm`, `DisconnectedMeansDownThm`,
  `FlagsAboutClientThm` (the last two are consequences of `IndInv`, which the
  run checks).
- **ReliableProofs.** A packet carries the message of its id (`Faithful`), what
  went up is a prefix of what was sent (`InOrder`), the unacknowledged ids lie
  in the window (`SendWindow`), and, without packet id checks, every ACK in
  flight is for a message received (`AcksTrue`). The windows must satisfy
  `SendSpan <= RecvSpan`, as the code's constants do. Results: `FifoThm` (the
  refinement), `AckedWasReceivedThm`, `NeverBeyondWindowThm`.
- **PacketIDProofs.** `Deque`: bit `Index(d)` behind the newest id is set
  exactly if the id `d` below it was accepted, for all `d` in the extent. It is
  what makes a turn of the ring correct; `NoReplay` alone says nothing about
  the bits. Results: `NoReplayThm`, `AcceptsExactlyThm`, `FreshIdsThm`.
- **DataEpochProofs.** Packets lie below the sender's counter (`SendOrder`),
  receive keys are in order (`KeyOrder`) and, without a mismatch, consecutive
  (`KeyRing`), accepted packets are in the window of their key as long as that
  key is held (`Remembered`), and no epoch passes the limit (`BelowLimit`).
  Results: `FreshNonceThm`, `DecryptOnceThm`, `LookupMatchesThm`.
- **KeyRolloverProofs.** Each key is either dead or has a next event, within its
  lifetime unless a limit moved it (`KeyOK`), between callbacks no due event is left (`Settled`), and a
  live secondary older than the primary only waits to expire (`Retiring`); these
  are `ScheduleInv`. `IdInv` says how the id of a slot stands to
  `upcoming_key_id`: as far apart as the keys in the order of creation, less at
  most one round (`IdLink`). `IdsApart` alone says nothing of the next key and is
  not inductive. `FlushInv` is about the one way in which a flush runs on for ever:
  KEV_EXPIRE of a primary that is already invalidated leaves the event in place
  (`invalidate` returns at once), and comes up again. It says that no flush makes
  this state (`Stuck`) itself, though KEV_ACTIVE of a secondary schedules an
  expiry for a primary that has just died: that expiry is not due yet, or a live
  secondary is there to take over. So `Stuck` holds throughout a flush or not at
  all. If it does not, every turn lowers `Rank`, which counts the events still
  ahead: a due promotion brings up a renegotiation, which makes a key, and each
  is worth less than what it came from. If it does, the next turn is there and
  `Stuck` stays. `FlushEnds` states both, with the bound of 75 turns. The
  assumption is that a handshake window, the become-primary time and the longest
  delay of a callback fit into the lifetime of a key; the defaults (60, 60 and
  7200 seconds) leave room for it. Results: `IdsApartThm`, `FlushEnds`,
  `KeyExpiresThm`, `NeverRollsBackThm`, `OldKeyKeptThm`, `LimitHeededThm`.

- **ConnectionControllerProofs.** `IndInv` says besides the named properties
  that a running wait carries the current generation, that no poll wait runs
  without a live client, and that a restart is under way for a live client only
  if a reconnect was asked for: without the last one a restart handler that is
  ready could replace a client that is up. Results: `NeverStrandedThm`,
  `StaleTimersThm`, `PauseSettledThm`, `StopAdvancesThm`. The lemmas on `queue`
  say what is ready after a handler was taken, added, or aged, and
  (`HandlerTakesPlace`) that a handler takes one place and leaves the order.
- **ClientSessionProofs.** `IndInv` adds that a refusal leaves no token, that
  the info timer runs only after a connection, that a run that has stopped has
  no live session, and that an update in the batch
  is met only by a connected session with its parts in a row: without that a
  reply could start a second tun. Results: `RefusalsEndThm` and `ContractThm`,
  the refinement of `SessionContract`, by one lemma per kind of step
  (`EndRefines`, `SilentRefines`, `StepRefines`). `DryProgressThm` is about
  what is left after a stop (`Undone`): a posted handler counts twice, since it
  may start the inactivity timer of a session that has stopped.

Only model-checked: liveness (`AcceptedStopReturns`, `ReleaseCompletes`,
`CallsReturn`, `Settles`, `FlushReturns`, `StopReturns`,
`ConnectionTimeoutHolds`, `HeldInfoDelivered`, `RunsDry`), which needs fairness
and ENABLED, and the violated properties. Of `FlushReturns` the part that needs
no fairness, that a flush that is not stuck has a bounded number of turns, is `FlushEnds`; what is
left to TLC is that a turn is always possible. `StopAdvances` is that part of
`StopReturns` (a posted stop moves up with every handler, and a halted
controller only empties its queue), `DryProgress` that of `RunsDry`. Of
`HeldInfoDelivered` and `ConnectionTimeoutHolds` it is in the invariants: as
long as INFO is held in a connected session the wait that sends it runs
(`InfoWaits`), and with a timeout a client that is connecting always has a
connection timer that runs or is ready (`ConnTimerBacked`). `FlushProgress`,
`StopAdvances` and `DryProgress` are not properties of the runs, which check the
liveness they are steps of.

## 7. Observations

Met while modelling. The first three contradict a comment; they are part of the
models, and the properties say where they are excluded:

- A packet under the last of the future keys makes their regeneration throw:
  `replace_update_recv_key` empties the moved key (`data_epoch.cpp:278`) before
  `generate_future_receive_keys` reads its epoch. From then on lookups of later
  epochs return contexts of other ones, while `data_epoch.hpp:211` says that
  lookup retrieves a context "that matches that epoch". `mismatched` in
  `DataEpoch` is this state, and `LookupMatches` is stated up to it.
- `proto.hpp:2593`: "If primary, renegotiate now". A primary that still waits
  for KEV_BECOME_PRIMARY is taken for a secondary: its request is queued,
  ignored and never repeated. `queued` in `KeyRollover` is this state, and
  `LimitHeeded` leaves it out.
- A flush can go on for ever. When the first primary's KEV_NEGOTIATE and the
  completion of a secondary fall into one flush, both keys are invalidated and
  KEV_ACTIVE of the secondary, which does not look at `invalidated()`, sets
  KEV_EXPIRE on the dead primary (`proto.hpp:4692`). The session is stopped by the
  next housekeeping, but that flushes first (`cliproto.hpp:1407`): if the expiry
  has come due by then, `process_events` returns true every time. The comment
  at `proto.hpp:1741` says of KEV_NEGOTIATE on the first primary that it "is
  fatal to the session and will trigger a disconnect/reconnect". Housekeeping is
  due at once, so it takes a thread that is held up until the end of the key's
  life (a suspended machine). `Stuck` is this state; `FlushReturns` and
  `FlushEnds` say that it is the only one.
- A callback that comes before that housekeeping goes on with a dead primary: a
  live secondary that becomes primary in its flush revives the session.

Of the controller and the session:

- A pause during the first resolve, or with a server-poll callback ready, does
  not hold: `bulk_resolve_done` (`cliconnect.hpp:314`) and
  `server_poll_callback` (`:343`) make a client without looking at `paused`,
  and `pause` does not cancel the resolve. The controller then has a live client
  and `paused` set, and a later pause returns at once. `PauseSettled` is stated
  from the moment both are over. (The Go package does not export pause.)
- A connection-timer handler that was ready when Connected cancelled the timer
  still stops or pauses the controller, whose client is up: `conn_timer_callback`
  (`:350`) looks neither at its generation nor at `conn_timer_pending`. The model
  has it; `StaleTimersSpareClient` is about the two other timers.
- The connection timer of a controller paused by such a pause halts it instead
  of pausing it again (`:355`).
- `control_recv` does not look at `halt` (`cliproto.hpp:936`). A complete
  PUSH_REPLY in the same handler behind a message that ended the session starts
  a tun and reports Connected in a session that has stopped; nothing stops that
  tun before the session object goes. The history variable `late` marks it,
  `LateConnect` of `SessionContract` is its report, and the controller, which
  has already scheduled a restart, cancels its connection timer by it.
- `recv_push_update` resets the completion of the options first (`:911`): a
  PUSH_REPLY between two parts of an update would be taken for the first reply
  and start a second tun. The model assumes parts in a row.
- `send_push_request_callback` starts its timer again after a failed send has
  stopped the session (`:1304`), and the handler posted by
  `reset_inactive_timer` starts the inactivity timer of a stopped session
  (`:1511`): `connect` then returns only when they have expired. `RunsDry` shows
  that they end.
- With `auth-nocache` and no token from the server, the first renegotiation ends
  the run with NEED_CREDS (`:1231`).
- `prune_uncached` (`remotelist.hpp:871`) does not move the index when the item
  in use is removed.

Others, not contradicted by a comment or a test:

- `Disconnect` leaves `fatal` and `lastErr` set (`engine_windows.go:193`), and a
  session that ended by itself is reported as connected until the next call
  (`:143`). An event of a session being torn down can set the flags after they
  were reset (`:224`).
- A control packet whose packet id has expired is acknowledged though its
  message was not received (`proto.hpp:3174`); the sender then waits for
  nothing. `AckedWasReceived` and `Settles` are therefore stated without packet
  id checks.
- The server leaves S_WAIT_RESET_ACK before its own reset has been sent
  (`proto.hpp:2839`; the state diagram at `:103` reads otherwise). A reset that
  a server initiates leaves both peers waiting (`:2783`).
- `data_limit_add` returns when the conversion *is* safe (`proto.hpp:2612`): it
  counts nothing, and a key of a 64-bit-block cipher other than the first one
  never turns green.
- After `KEY_ID_MASK` failed renegotiations the secondary has the primary's key
  id, and its packets are taken for the primary's (`proto.hpp:4744`, `:1377`).
- KEV_EXPIRE of the primary promotes a secondary that is still negotiating.
- In `check_send_iterate` the branch for `at_limit` is never taken: `next()` has
  thrown by then.

## 8. Not modelled

- **Remote list**: next in the plan below. The controller does not depend on
  which remote is next.
- **Tun bridge**: never reached. The core on Windows is built without
  USE_TUN_BUILDER (`doc.go:24`, `tunbridge_windows.go:4`).
- **Options and profile, events and observers**: parsing and text with little
  state that lasts.
- **Transports, tun setup**: calls of Asio and of the operating system. TCP,
  where the network loses nothing and retransmissions are dropped, is not a
  case of its own.
- **Ciphers, TLS, PKI**: primitives; a record or packet opens under its own key
  and no other.
- **Data limit**: only its effect, see section 7.
- **Command line, stub engines, build tools, server and agent code, bundled
  dependencies**: sequential, without state, or not in the Go package.
- The larger part of the source (the TLS contexts, option parsing, HTTP client,
  buffers, servers) is such code; what is modelled is what keeps state across
  callbacks in a client built from the Go package.
- Within the modelled components: a PUSH_UPDATE in the same handler as the
  PUSH_REPLY before it, custom control messages, the certificate
  check, echo, challenges and kernel data channels (ClientSession); the
  lifecycle object and the messages passed on to the client
  (ConnectionController); event contents, log text and tun builder
  verbs (Client); exceptions of TLS that invalidate a key context (Reliable);
  `rekey` of kernel data channels, key wrapping, the cookie start of a server, and a
  packet that both completes a handshake and breaks TLS, which would activate an
  invalidated key (KeyRollover).

## 9. Plan

1. `RemoteList`: every remote is tried before one is tried again, with resolved
   addresses, their cache and the pruning of unresolved items, under the
   controller's `next` and the bulk resolve of a renegotiation.
2. `ConnectionController` and `ClientSession` composed in one module, with the
   leftover handlers of a replaced session in it.

`DataEpoch` remembers accepted ids in a set where the code has the ring of
`PacketID`; what it takes from the ring, that an id is accepted once and every
fresh one in the window is, are `NoReplayThm` and `AcceptsExactlyThm`.
