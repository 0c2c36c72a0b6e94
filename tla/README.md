# RelayProxy: TLA+ models and proofs

RelayProxy connects **Clients** to **Exits** through a relay **Server**. An agent (desktop or
Android) keeps one authenticated tunnel (QUIC, or TLS with yamux) to the Server; as a Client it
opens TCP and UDP streams that leave the network at an Exit, as an Exit it dials their targets.
Streams travel through the Server or, when the two agents can reach each other, over a direct
path (a public endpoint of the Exit, or a hole punched with the Server's help), and a TCP stream
may move from one path to another without breaking.

This directory holds TLA+ specifications of the parts of that system where the order of steps
decides whether it is correct, TLC configurations that check them on small instances, and proofs
for every value of their constants. Paths below are relative to the repository root.

Contents: [inventory](#inventory), [plan](#plan), [modules](#the-modules-and-the-code),
[runs](#the-runs), [noticed](#noticed-while-modelling), [bounds](#bounds), [fairness](#fairness), [proofs](#proofs),
[only model-checked](#only-model-checked), [not modelled](#not-modelled).

## Inventory

### Components with protocol state

**Resumable TCP stream** (`internal/p2p/resume`).
*State:* per endpoint the replay buffer, the acknowledged and expected offsets, the FIN flags, the
generation and the transport bound to it, the inbound buffer, the one-slot ACK queue.
*Operations:* `Read`, `Write`, `CloseWrite`, `Close`, `Abort`, `Bind`, write deadlines, one
`readLoop` per transport, `activateTransport`, `ackLoop`.
*Interacts with* the Client's recovery loop (`agent/client/resumable_tcp.go`) and the Exit's session
registry (`agent/exit/resume_registry.go`), which negotiate offsets and bind transports.
*Hard:* the read loop of a replaced transport runs on next to its successor; an ACK is dropped with
its transport; the offsets of a request are read before its answer is awaited; writes run into
deadlines after the chunk was retained.
*Correct when* every chunk is accepted in order, once, nothing is released before the peer accepted
it, a recovery is never refused for offsets that moved meanwhile, and everything arrives once a
transport stays.

**Session registry and handshake of the Server** (`server/session`, `server/gateway`,
`server/repository/identity.go`, `server/api/identity.go`).
*State:* one session per device, the exit indexes, `authorizationMu`, the rows of device and
identity, the challenge of each handshake, the closing flags.
*Operations:* hello, challenge, proof, `AuthorizeIdentityDevice`, `RegisterVerified`, displacement,
heartbeat recheck, `UnregisterSession`, `RevokeDevice`, capability change, move between identities,
grants, disabling of an identity, `Gateway.Close`.
*Hard:* rows are read before the gate is taken and committed outside it; a displaced tunnel is
closed after it left the registry; the old handler of a reconnected device unwinds late; a
handshake passes the closed flag while the Gateway closes.
*Correct when* only an approved device, under the identity it is bound to, is registered, an
approval change ends its session in the same step, what leaves the registry is closed, the indexes
agree, and locks are released.

**Tunnel manager** (`internal/tunnel/manager.go`, `network_change.go`, `quic_recovery.go`,
`quic_race.go`).
*State:* `state` and `session` under `mu`, `connectMu`, `stateEvents`, `connectCancel`,
`networkAvailable` and the change counter, the wake-up and notification tokens.
*Operations:* `Connect` with the QUIC/TLS race, `StartAutoReconnect` with `waitConnected` and the
QUIC retry, `promoteQUIC`, `MarkSessionLost`, `NetworkChanged`, `WakeReconnect`, `Close`.
*Interacts with* the agent through a listener that is called with `mu` released.
*Hard:* two callers of `Connect`, a promotion and `MarkSessionLost` interleave between locks; a dial
may succeed after its attempt was canceled; tokens may be stale; `Close` may come anywhere.
*Correct when* one session is given up before another is announced, no transport stays open with
nobody to close it, nothing brings a closed manager back, a change of the network is not slept
through, and `Close` returns.

**Agent session and exit inventory** (`agent/app/agent.go`, `public_direct.go`; the Gateway's
`notifyProxyExits` and pongs).
*State:* `epoch`, `readySession`, `proxyExits` and its revision, the inventory of the public direct
client, goroutines per session; at the Server the revision counter and pushes under way.
*Operations:* `onTunnelStateChange`, `serveSession` (authenticate, serve, end), heartbeat,
`refreshProxyExits`, `clearPublicDirectState`, `closeRuntime`.
*Hard:* sessions are replaced while the previous one authenticates, serves or ends; lists and their
revisions are read at different moments; pushes are lost and overtaken; the Server restarts.
*Correct when* only the active session is approved, only its lists are used, heartbeats make the
list converge, and a failed session is given up.

**Public direct client** (`agent/direct/client_manager.go`, `agent/client/dialer.go`).
*State:* one entry per Exit with its ticket, attempt, session and cooldown; a watcher per session.
*Operations:* `UpdateInventory`, `EnsureClient`, `connect`, `finishFailure`, `watchSession`,
`FailReadyForExit`, `Close`, and the dialer's requests that use a path and report its failure.
*Hard:* an inventory removes and restores an entry while its attempt is in flight; a failure is
reported by exit id after the session was replaced; each end of an attempt may find another entry or
another ticket in its place. *Correct when* a ticket is used once, a session belongs to the entry
that has it, none is forgotten, and an entry does not stay "starting".

**Public direct exit** (`agent/direct/runtime.go`, `server/direct/registry.go`, `control.go`,
`verifier.go`, hooks of `cmd/relay-server/main.go`).
*State:* records of the endpoints and their verifications; epoch and signature of each runtime.
*Operations:* registration, refresh, the network watch, `Verify` with its four critical sections,
invalidation by welcome, disconnection and a later registration.
*Hard:* a verification ends after the endpoint was registered again; a request is served after its
caller gave up; the hook of a session runs after the next one has registered. *Correct when* nothing
is published on the word of a probe for something else, and the endpoint of a session that stays
is published in the end.

**Server P2P coordinator** (`server/p2p/coordinator.go`).
*State:* leases between a Client and an Exit, leases per device. *Operations:* connect, answer,
candidate update, renew, close, the sweep, `CloseDevice`, `RevokeDevice`, `Close`.
*Hard:* authorization and sessions are looked at before the lease is inserted; a lease is renewed
whether or not it has expired; the disconnect hook runs when a new session may already be there.
*Correct when* the counts agree, peers do not meet without a grant and two sessions, and a lease that
lost either goes.

**Agent P2P manager** (`agent/p2p/manager.go`, `failure_policy.go`, `maintenance.go`).
*State:* the sessions with their endpoint, path and state, attempts, cooldowns, early answers, the
network epoch. *Operations:* `EnsureClient`, `StartClient`, offers and answers, `establish`,
`failDirect`, idle reaping and limits, network changes, `Close`.
*Hard:* sockets change hands between goroutines; the Exit's answer overtakes the reply to the
request; a session is failed, dropped and established at the same time. *Correct when* every open
socket has an owner, there is one path per Exit, no early answer is lost, and sessions of an old
network go.

**UDP datagram multiplexer** (`internal/tunnel/datagram.go`, `datagram_budget.go`,
`udp_datagram.go`).
*State:* the table of channels, their queues, the send queue, packets being put together, the byte
budget, the reaper's flag and token. *Operations:* open, receive, send, read, deadlines, three ways
to close, the send and the reap loop.
*Hard:* every queue has a producer, a consumer and a drain; Close takes three steps; the reaper
sleeps without a timer. *Correct when* the budget is exact, nothing is queued for what has cleaned
up, what is due is reaped, and a read ends at its deadline.

**RDP** (`server/rdp`, `agent/rdp`): the coordinator and the agent's manager are the P2P protocol
again. **Browser synchronisation** (`server/browser_sync`, `internal/browser_sync`) and **file
sharing** (`agent/fileshare`): deliveries with receipts and limits; staged uploads that survive a
restart.

### Components without protocol state of their own

Stream routing, transports (wrappers of quic-go and yamux), congestion control, policy routing and
DNS, traffic capture, local proxies, access lists, repository and API as such, messages,
configuration, user interfaces and packaging. `PROJECT.json` lists each with the reason it is left
out; the hazards found while reading are listed there with the properties that cover them.

### How the components interact

The tunnel manager announces sessions to the agent. The agent authenticates each with the Gateway,
which registers it. The registry's sessions are what the Server's coordinators and its stream router
look up; what follows the end of one is a hook, which P2PLeases and DirectRegistry model as a step of
its own. Inventories travel from the Gateway to the agent's direct managers, which provide the
transports the resumable streams are moved to. The modules follow these seams: **TunnelEvents** is
both what TunnelManager implements and what AgentSession is built on, **DeviceAdmission** is what
GatewaySessions implements, **ReliableStream** what ResumeEndpoint implements.

## Plan

Built, in this order: the resumable stream, the session registry, the tunnel manager, the agent
session, the coordinator's leases, the public direct client, the agent's P2P manager, the registry of
public endpoints, the UDP multiplexer. What remains, in order:

1. **ResumeRegistry**: the grace timer against a rebind that arrives late, the limit on sessions, and
   the removal of a session whose first bind failed. It takes the place of the simple registry inside
   ResumeEndpoint only if the composition stays small.
2. **RDP coordinator**: P2PLeases without a budget, with its own hooks; a module only if it shares
   most of P2PLeases.
3. **Browser deliveries**: quotas and receipts across restarts of the Server.
4. **Composition** of AgentSession with TunnelManager is by refinement (it uses TunnelEvents, which
   TunnelManager is proved to implement); a direct run of both is too large for TLC. P2PLeases with
   P2PManager at both ends would show that a lease and the two sessions made for it end together.

The runs are kept to a dozen: a component gets one run, which asks all it has to say.

## The modules and the code

| Module | Models | Source |
| --- | --- | --- |
| ReliableStream | the promise of one resumable stream | comments and tests of `internal/p2p/resume` |
| ResumeEndpoint | both endpoints, their transports and rebinds | `internal/p2p/resume`, `agent/client/resumable_tcp.go`, `agent/exit/resume_registry.go` |
| DeviceAdmission | who is admitted, without locks and indexes | comments of `server/session/manager.go` |
| GatewaySessions | handshakes, registry, administrator requests, shutdown | `server/session`, `server/gateway`, `server/repository`, `server/api` |
| TunnelEvents | what the listener of a tunnel manager may rely on | `internal/tunnel/manager.go` |
| TunnelManager | Connect, reconnect loop, promotion, network changes, Close | `internal/tunnel` |
| AgentSession | approval of sessions, inventories, heartbeats, Close | `agent/app`, `server/gateway` |
| P2PLeases | leases against control requests, sessions, grants and the sweep | `server/p2p`, `cmd/relay-server` |
| DirectClient | entries, attempts, tickets, sessions and the requests that use them | `agent/direct`, `agent/client/dialer.go`, `agent/app/public_direct.go` |
| DirectRegistry | endpoints of an Exit: registration, verification, network changes | `server/direct`, `agent/direct/runtime.go`, `cmd/relay-server` |
| P2PManager | attempts and offers of a device, their sessions and sockets | `agent/p2p` |
| UDPDatagrams | channels, associations, queues and budget of one QUIC session | `internal/tunnel` |

A module `MC*` instantiates one of them for TLC, a module `*_proofs` holds its proofs. An operator
below a comment `FAULT` is a plausible mistake in the definition that follows it; a property is
listed with the fault it detects in `PROJECT.json`, which also maps every definition to its lines.

**ResumeEndpoint.** A chunk is what one iteration of `Endpoint.Write` retains and sends as one DATA
frame, so offsets count chunks and chunk *n* needs no payload. `Write` and `CloseWrite` retain, a
later `Send` writes (between the two the deadline, a bind or a loss may come, which is where the
code releases its locks). `Activate` is the replay under `writeMu`, `AckTake` and `AckSend` are
`ackLoop`. `ReadData`, `ReadFin`, `ReadAck`, `ReadFatal`, `ReadError` and `Deliver` are one
`readLoop` per transport; `Deliver` is separate because `inbound.Write` may block and the replaced
loop is not waited for. Transports keep each direction in order; a transport that breaks loses what
is written afterwards, and what was written before a graceful close can still be read. `OpenTransport` to
`ClientReject` are the negotiation: `snap` is the Client's offsets in the request, read before the
answer is awaited.

**GatewaySessions.** One handler per tunnel goes through `Hello`, `Authorize` (or `Refuse`), `Verify`
(or `Rejected`), `Register`, `CloseDisplaced`, `Welcome` and `Unregister`. `Verify` to `Register`
holds `authorizationMu` and the Gateway's `mu`, as `RegisterVerified` does; an administrator's change
of a device holds the same gate from `LockForChange` to `InvalidateDevice`. The status of an identity
is committed without the gate (`UpdateIdentity`) and its sessions are removed later
(`InvalidateIdentity`). `Manager.mu` never spans a step.

**TunnelManager.** `attempt` is the `Connect` in progress, between the points where `mu` is released:
entered, dialing, dialed, checked (after `ctx.Err()`), failed. `race` are its two dials, `late` the
sessions a decided race may still deliver. `loop` is where `reconnectLoop` stands, including
`waitConnected` ("waiting"), the join of its retry ("joining") and a promotion with both locks held
("promoting"). The listener is called in the step that changes the state, and `heard` records it: in
the code the call comes after `mu` is released, under `stateEvents`, which keeps the calls in the order
of the changes. The moment at which a session is active and the listener not yet told is not in this
module; AgentSession, on the listener's side, has the call as a step of its own.
`changer` is a `NetworkChanged` between its unlock and the calls that follow it. Session names are
used again once nothing refers to them.

**AgentSession.** The manager is TunnelEvents with the listener call as a step of its own (`calling`).
`phase[s]` is the goroutine that authenticates and serves *s*; the first four phases are the
Gateway's side of the handshake, where the welcome's list and its revision are read apart. A list
is the value of `truth` when it was made; `of` and `from` remember it and the session it went to. A
pong or push that has passed the revision test is applied to the direct client in a later step, since
the code unlocks in between. The epoch is represented by the session whose goroutine was started
with it: the code only compares epochs for equality.

**P2PLeases.** A control stream's handler is where `connect` or a lease request has got to between
two takings of `Coordinator.mu`: `ConnectChecked` (rate, sessions, grant), `ConnectInsert`, `Offer`,
`ConnectReplies`, or `RequestFound`, `PeersChecked` (or `PeersRefused`), `Apply`, `CloseSession`. `Remove` is
`removeLocked` for a set of leases, which keeps `sessionCounts`. `hook` are the devices whose
`OnDeviceDisconnected` is still to run, `admin` is the administrator who has committed the withdrawal
of a grant (`GrantChanges`) and goes on to `Invalidate` the session and `RevokeDevice`. Time is one
bit per lease: `expired`.

**DirectClient.** An entry is a `clientEntry`; the ticket hash is a number that grows with each
inventory. `attempt[a]` is a goroutine of `EnsureClient`, its session is named after it, `watcher[a]`
is its `watchSession`. What a critical section gives up is put into `closing` and closed in a later
step, as the code does after the unlock. Operations that look at `closed` before they take `mu` have
two steps (`InventoryArrives` and `InventoryApplies`, `Select` and `Ensure`), so that Close comes
between. A request is "using" the session it chose until it ends or fails it by the exit's id.

**DirectRegistry.** A record is `Registry.records` of one endpoint; `probed` is not in the code and
remembers which registration the successful probe was for, by session and epoch as the code tells
registrations apart: the same session and epoch registered again is the same registration.
`check[c]` is a goroutine of `Controller.verify`: `LookUp`, `MarkVerifying`, then the probe, then `MarkVerified` or `MarkFailed`,
each of which looks the record up again. A request is an element of `inflight`, served by `Register`,
`RegisterUnanswered` (it is recorded, but its answer cannot be written, and `HandleControl` then starts
no verification) or `Refuse`. `Started`, `Refresh`, `NetworkTick` and `Returned` are the two goroutines of
the Exit's runtime, which wait for one call at a time; after `TimesOut` a request may still be on its way
while the next one overtakes it.

**P2PManager.** `establish[s]` is where `handleOffer` and then `Session.establish` are, `attempt[a]` where
the goroutine of `EnsureClient` is, `todo` is what other goroutines still owe a session after a
critical section: to fail it, to note the failure, to remove it, to close it. `Drop` takes a session out
of the map and leaves it to `CloseDropped` to close, as `Manager.remove` does after the unlock. `Released`
clears the fields of sessions under their mutex and closes what was in them. An answer without a
session waits in `pendingAnswers`, at most `AnswerLimit` of them: for a further one any other is thrown
out (`MakesRoom`, remembered in `evicted`), and the session it was for ends by `expireUnanswered`.
A network is its signature; the epoch is the network it began with. `Reap` stands for the idle timer and the limit on paths, both of which
drop ready sessions without streams.

**UDPDatagrams.** `channel[c]` goes from "open" over "closed" and "cleaned" to "gone", the three steps
of `DatagramChannel.Close`; `MuxClosed` and `CloseConn` are the other two ways there. `Prepare` and
`Enqueue` are the two halves of a send (the reservation is made before the queue's lock is taken);
`Queued` pushes, or drops the oldest packet or the new one when the queue is full;
`Dequeue`, `Sent` and `Release` the send loop, `Read`, `Look`, `Block` and `Take` one `ReadFrom`,
`TakeToken`, `Reap` and `EndScan` the reap loop. A fragment counts one towards every budget.

## The runs

| Run | Question | Result |
| --- | --- | --- |
| resume_recovery | The Client writes two chunks and a FIN over two transports that may break anywhere. Are frames refused, chunks lost, doubled or overtaken, rebinds refused? | no; ReliableStream is implemented, and once a transport stays everything arrives |
| resume_wide | Both sides write, replays cross, writes run into deadlines, either side closes or aborts | acknowledgements and delivery stay consistent |
| resume_replaced | Does the application read one continuous stream? | **violated** |
| sessions_one_device | Two tunnels of a device, two identities, two administrator requests, shutdown | what leaves the registry is closed, a disabled identity is swept, late handlers spare their successors, DeviceAdmission is implemented |
| sessions_live | Do dead and revoked sessions go? | yes |
| tunnel_manager | Loop, another caller, promotion, two network changes, Close | TunnelEvents is implemented, nothing leaks, the loop recovers, Close returns |
| agent_session | Two sessions replace each other while exits change, pongs and pushes cross, the Server restarts, the agent closes | approval, lists and their convergence hold; the agent ends only where Close does |
| p2p_leases | Two control requests race with sessions that come and go, late hooks, a withdrawn grant and the sweep | the counts agree, nobody meets without a grant, a lease that lost a peer goes |
| direct_client | Two requests, inventories, dials, dead sessions, reported failures, Close | tickets are used once, no session is left or belongs to another entry, attempts end |
| p2p_manager | Attempts and an offer meet early answers, failures, a network change, full queues, Close | sockets have owners, one path per Exit, early answers arrive as long as there is room for them, sessions of the old network go |
| direct_registry | Two sessions of an Exit, a moving network, lost, late and unanswered requests, late hooks, overlapping verifications | published is what was probed; the endpoint of a session that stays comes back |
| udp_datagrams | Two associations under one id or one after the other; loops, readers, writers, deadlines, every Close | the budget is exact, stages hold, what is due is reaped, reads end |

### What the violation shows

*resume_replaced.* `readLoop` acknowledges a chunk before it puts it into `inbound`, and `Bind` does
not wait for the loop it replaces. The loop of the new transport can deliver a later chunk, or the
end of the stream, before the old one delivers the chunk it holds. `ContinuousUntilReplaced` says how
much of the promise holds: all of it until a second transport is opened.

## Noticed while modelling

Behaviour that no document of the repository speaks against, or whose promise is too loose to check,
but which a reader of the code should know; the models contain all of it.

- *GatewaySessions.* The recheck under the gate compares approval, binding and identity
  (`server/session/manager.go:242`, `server/repository/identity.go:1022`), not capabilities: a handshake
  that read them before a change registers with the old ones.
- *ResumeEndpoint.* A write deadline that expires between retaining and sending leaves a chunk that
  `Write` reports as written and that nobody sends on that transport; the next `Write` sends its
  successor, which the peer answers with a sequence gap and a reset (`endpoint.go:278`).
- *TunnelManager.* A change of the network between `ctx.Err()` and `setState` in `Connect`
  (`manager.go:289`) finds no attempt that still reads its context and no session to drop, so that a
  session dialled on the old path may become active. `OldAttemptsCanceled` is what holds instead.
- *AgentSession.* The loss callback moves the epoch on before the goroutine of the lost session clears
  the public direct inventory, so that the clear is skipped (`agent.go:2122`) and the next session is
  approved with the inventory of the previous one.
- *DirectClient.* `FailReadyForExit` is told an exit's id only (`client_manager.go:449`): a request
  that times out on a dead session can close its healthy replacement. An `UpdateInventory` that passed
  the closed flag adds entries after Close has cleared them, which nobody uses. A session that died
  before Close and whose watcher notices the context first is not closed by it.
- *DirectRegistry.* When a registration under the next epoch was applied but its answer was lost, and
  the network returns to its old signature before the next try, the runtime keeps the old epoch and
  every refresh is refused as stale. This is the exception `Behind` in `EndpointReturns`.
- *P2PManager.* A punch that ends late may overwrite the state "closed" of a session that was dropped.
  The timer that looks for a change of the network is armed only while there are sessions or attempts;
  a change during a mere cooldown goes unnoticed until the next attempt, although
  `docs/proxy-p2p-direct-path-design.md:1004` says that network changes should reset the cooldown; and a
  change that took place while the manager was idle is noticed, and the sessions dropped, after the first
  session of the new network has been made. Offers are not compared with the epoch.
- *UDPDatagrams.* The reaper looks at the connections of channels in the table: one whose channel a
  failed `SendDatagram` has closed stays until its owner reads or closes it.

## Bounds

Every bound is a constant with an assumption; a guard stops the counter it limits.

- *ResumeEndpoint:* `MaxWrites` chunks per side (two for order, one each for crossing directions),
  `MaxTransports = 2` (an old and a new transport meet; a third only repeats this), a replay buffer
  of one or two chunks and an inbound buffer of one or two, so that both limits are reached. `HalfClosers`,
  `Closers` and `Deadlines` name the sides that use an operation in a run.
- *GatewaySessions:* one device, two tunnels (displacement), two identities (moves), two concurrent
  requests and two changes. Devices interact only through locks; the theorems cover any number. Tunnels
  and requests are symmetric in the safety run, which has no liveness property.
- *TunnelManager:* one QUIC and one TLS session, each used again once nobody refers to it, so that any
  number of connections follow each other; one caller of `Connect` next to the loop; two network
  changes (one that cancels and one that meets its aftermath). The proofs are for any numbers.
- *AgentSession:* two sessions that replace each other without limit, one change of the exits, the
  gaps reduced to `DISCONNECTED` (the agent treats the states without a session alike). `Granted`
  names the sessions authenticated while the device holds the client grant: one with and one without
  it in the main run.

- *P2PLeases:* two control handlers, one Client and one Exit: what a handler has checked can be taken
  back by the other, by a session that ends or by an administrator.
- *DirectClient:* one Exit, two requests that use it, an entry removed and added again.
- *P2PManager:* `MaxAttempts = 2`, `MaxNetworks = 2` and `MaxEvents = 2`: an event is an attempt, an
  offer, a change of the network or Close, so that a run combines any two of them and never three; the
  theorems cover any number. `AnswerLimit = 1` (128 in the code), so that an early answer can throw out another.
- *DirectRegistry:* two sessions of which the first ends and the second may stay (`Ends`), one change
  of the network, two requests on their way at once (`MaxRequests`), so that a late one is overtaken, and
  two verifications. With `MaxMoves = 2` and `MaxRequests = 1`, where the network can return to its
  old signature, the same properties hold too (1.6 million states); both at once are too large, and the
  two invariants are proved for any bounds.
- *UDPDatagrams:* two associations of one id, so that in the run the second opens after the first has
  left the table; with two ids TLC does not end within minutes, and the theorems cover any `Ids`. Four
  fragments arrive: a packet of two, one of another packet, and one whose count contradicts the first.
  Every queue and limit is one or two, so that each is reached.

`CHECK_DEADLOCK FALSE` is set where the system may stop: streams and gateways whose actors have
nothing left to do. TunnelManager and AgentSession state their end as an action (`Ended`, `Closed`)
and are checked for deadlock.

## Fairness

Only steps a running goroutine or handler takes by itself are fair. No application has to write, close
or connect, no network has to fail or to stay, no administrator has to act, no push has to arrive.

- *ResumeEndpoint:* read loops, ACK loop, activation, sends and the handshake handlers; `OpenTransport`
  because recovery dials again; the applications read (`Pipe` does). The property assumes that both
  endpoints stay on one transport.
- *GatewaySessions:* registration, closing of what was displaced, unregistration and the rest of an
  accepted request. Strong fairness for `InvalidateIdentity`, which competes for `authorizationMu`:
  Go's `sync.Mutex` hands over to a waiter in starvation mode.
- *TunnelManager:* the steps of `Connect`, the loop, `NetworkChanged`, `Close` and the serving
  goroutines. A dial is strongly fair (`DialWins`): it may fail, but attempts follow each other and
  one succeeds in the end, which is what "recovers" can mean at all. A session the manager has given
  up dies: the application or the Server ends it. `ServeEnds` is strongly fair because it waits for
  `stateEvents`.
- *AgentSession:* goroutines of both sides, heartbeats included (they tick while a session is served),
  the listener call, and `Reports`, strongly, because it waits for `stateEvents`. `ListConverges`
  assumes that session and exits stay.
- *P2PLeases:* handlers (a send has a timeout of five seconds), the sweeper's ticker, the time of a lease,
  hooks and the rest of a withdrawal. Devices and administrators do what they like.
- *DirectClient:* goroutines; a dial, a request and a cooldown end within their timeouts.
- *DirectRegistry:* each runtime and each verification goes on, and a call ends. Strong fairness for one of
  the requests that are sent again and again to be served and answered, and for an endpoint that is probed
  again and again to be reached: without it nothing can be published at all. Hooks and welcomes may be
  as late as they like.
- *P2PManager:* weak fairness of the program as a whole, not of each goroutine, because everything an old
  session waits for is bounded; timers of `expireUnanswered` and `watchNetworkLoop` fire.
- *UDPDatagrams:* the loops, a timer that is set, the close that follows the end of the session, the
  passing of time for an incomplete packet.

## Proofs

Nine components are proved about in eight proof modules, for every value of their constants, from the
named assumption on those constants only (`ResumeAssumption`, `SessionsAssumption`, `TunnelAssumption`,
`AgentAssumption`, `LeasesAssumption`, `DirectAssumption`, `RegistryAssumption`, `ManagerAssumption`,
`DatagramsAssumption`). Every theorem of the form `Spec => []P` follows from an inductive invariant
`IInv`. All the safety the runs check is stated by a theorem. Some theorems state what no run checks,
mostly what a component leaves behind when it has been closed; such definitions are in the proof module.

**ResumeEndpoint_proofs.** `TypeInvariant`, `AcknowledgedIsAccepted`, `RebindsAreAccepted`,
`NoFalseProtocolError`, `AcceptedOnce`, `FirstTransportIsContinuous`, `EndpointsImplementReliableStream`:
all the safety the runs check.
`AckedAccepted` relates the ledgers of both sides, but a step of one side depends on frames stamped
long before by the other. `IInv` adds `TruthfulFrames`: every frame on a transport, in a pending write
or in the ACK loop claims no more than its sender has accepted and written. Offsets only grow, so a
truthful frame stays truthful however late it is read, which is all the replacement of transports
needs. The refinement then maps each step to one step of ReliableStream for a direction together
with a release in the other.

Four more theorems use `IInv` with an invariant of their own. What a step does to the frames of one
direction is said once (`ChanMove`: nothing, cut off, the first one taken, some appended), and so is
what it does to transports (`BindMoves`, `UpMoves`) and to chunks on their way to the application
(`DeliveryMove`).

- *No rebind is refused*: while the Client negotiates it has no transport to write to, so no frame on any
  old transport carries a chunk beyond the offset in the request (`OfferStands`), and what the Exit goes on
  accepting stays below it.
- *No false protocol error*: between the receive offset of a reader and a chunk on a transport, every
  chunk is carried by an earlier frame of that transport (`GapFree`). `activateTransport` replays from an
  acknowledged offset on, which is why `AckedAccepted` is needed, and once the transport is ready it holds
  everything but the pending frame (`AllSent`). A write deadline breaks exactly this: the chunk that
  timed out is in the replay buffer and not on the transport.
- *Accepted once*: an accepted chunk is in inbound or with one readLoop (`OnceEach`), because a readLoop
  starts on a transport that no readLoop of the same side has read (`LoopBound`).
- *Continuous on the first transport*: the only readLoop puts a chunk into inbound before it takes the
  next frame (`InLine`).

**GatewaySessions_proofs.** `TypeCorrect`, `RegistrationRespectsApproval`, `DisabledIdentityIsSwept`,
`AdmissionRefined`. `IInv` adds who holds the authorization gate (`GateHolders`), that what a handshake
rechecked still stands while it holds the gate (`RecheckStands`: the identity may have been disabled,
but then its sweep is still to come), and that a registered tunnel is one that authenticated as that
device (`RegistryKnows`). Without the second an approval could change between the recheck and the
insertion. In the refinement a change of approval is the commit: the abstract admission ends there,
and the removal of the session from the registry is a stutter. `ExitIndexesAgree` is about the exit
indexes, which are kept by hand: a step either removes sessions (`IndexRemove`, for every set of
leavers) or registers one (`IndexRegister`), and both keep them. `RemovedSessionsAreClosed`,
`ClosedGatewayIsEmpty` and `HandlersSpareSuccessors` need two more facts: what a goroutine has still to
close it remembers until it has (`DebtsArePaid`), and Gateway.mu spans a registration, so that the closed
flag finds none under way (`ClosedForGood`).

Three theorems combine these for whoever runs a Server. `RevokedTunnelsAreBeingClosed`: an open tunnel
past its registration is of an approved device, bound to the active identity it authenticated as, unless
its close is due or the request that changed one of them has yet to invalidate it. `OneTunnelPerDevice`:
of two open tunnels a device has registered, one is about to be closed. `LocksAreHeldByWorkers`: who holds
authorizationMu or Gateway.mu is at a step of its critical section, so that no error path keeps a lock
(it needs the holder of Gateway.mu, `GatewayLock`).

**TunnelManager_proofs.** `TypeCorrect`, `NoTransportLeaks`, `ChangeCancelsAttempts`,
`ManagerImplementsTunnelEvents`, `SessionsGivenUpAreClosed`. `IInv` adds what `connectMu` protects
(`LockProtects`: an attempt and a promotion exclude each other, and while either is under way no
session is active that it could displace), where a dialled session can be (`ResultsHeld`), that an open
active session has its goroutine (`ActiveIsServed`), and that an attempt under an older path is canceled
or about to be (`OldAttemptsEnd`, which covers the time between the unlock of `NetworkChanged` and the
cancel). What `setState` and `MarkSessionLost` do is proved once (`SetStateDown`, `SetStateUp`,
`LostDown`) and cited by every action that calls them.

`CloseLeavesNothing` and `ClosedManagerIsQuiet` need what each step of Close leaves behind
(`CloseStages`: the state is CLOSED before connectMu is waited for, nobody holds it after, the loop ends
last). When Close has returned there is no session, attempt or loop, and a transport that is still open
is with a goroutine that closes it and that Close does not wait for; from then on nothing is opened,
made active or served, although callers of Connect, network changes and the first start of the loop may
come.

**Session_proofs**, about AgentSession and UDPDatagrams, the control side of a session and the
datagrams it carries.

- *AgentSession* (`AgentSpec`, `AgentInvariant`): `AgentTypeCorrect`, `ApprovedIsActive`,
  `ListIsOfReadySession`. `AgentInv` adds what the listener was told last (`Heard`): it describes the
  manager until Close has shut that down. Approval compares with the epoch of what was heard, so without
  it nothing ties the approved session to the active one.
- *UDPDatagrams*: `BudgetExact`, `Stages`, `ClosedSessionGivesBack`. `IInv` adds that table and channels
  name each other (`Registered`), that a connection can hold something only once its cleanup is a hook of
  the channel (`CleanupFirst`), where a reader's frame came from (`TookFrame`) and that a packet has one
  entry in `pending` (`OnePerPacket`: otherwise the assembly of one would release another's bytes).
  The budget is a sum over channels; `TotalChange` says how it moves when one of them does, and every
  step is then shown to move what is reserved and what is held alike. That a closed session gives
  everything back needs two more: mux.close has on its list whatever is still in the table
  (`CloserOwes`), and a channel that was not opened has nothing (`NewHoldsNothing`). What is left is what
  a sender has prepared or a reader has in hand at that moment.

**P2PLeases_proofs.** `TypeCorrect`, `CountsAgreeAlways`, `NoPeersMeetUnauthorized`. `IInv` adds that
the id of a lease about to be inserted is nobody else's (`Reserved`), that a request is about the peers
of the lease it found (`RequestsMatch`), and that peers and grant, once looked at, stand as long as the
lease does or are being acted upon (`ChecksStand`). The last is why `connect` may look before it
inserts: it does not make peers meet, and the request that does looks again while the lease is there
to be removed by whoever changes the answer.

**DirectClient_proofs.** `TypeCorrect`, `TicketsArePresentedOnce`, `SessionsBelong`, `NoSessionLeaks`.
`IInv` adds that tickets are numbered in the order of the inventories (`Issued`), that the ticket of an
entry that was not attempted is unused (`Unspent`), and what a watcher knows (`Watched`).
`ClosedManagerGivesBack`: once Close has cleared the entries no entry has a session again
(`ClearedOwnsNothing`, although an inventory past its look at `closed` makes new entries), so that a
session still open is with its dialler, who will not place it, or about to be closed.

**DirectRegistry_proofs.** `TypeCorrect`, `OnlyProbedIsPublished`, `VerificationIsUnderWay`. `IInv` adds
only `Announced` to them: each end of a verification compares session and epoch under the lock, and
that is enough.

**P2PManager_proofs.** `TypeCorrect`, `NoSocketLeaks`, `EarlyAnswersArrive`, `PathsAreUnique`. What the
invariant says of one session (`Sound`) is kept session by session: a step leaves a session alone
(`SameTo`), drops it, fails it or edits it, and a lemma for each of these is cited by the actions that do
it. `Unborn` says that nothing is owed to a session before it is made, `InMap` that a closed one has no
endpoint left. For attempts, `EpochsGrow`, `EarlyWaits` (an answer that came too early is in
`pendingAnswers` or was thrown out of it), `InFlight` and `OneIsOver`: of two attempts for an Exit on one network, one has ended
with its session gone or about to be removed. `ClosedManagerIsEmpty`: once Close has taken the sessions
none is registered again, and an open socket is that of a session about to be closed, or the endpoint of a
request or an offer under way, which `newSessionWithEndpoint` refuses. (It does not extend to the paths inside a session: `setState` overwrites
"closed", so a session closed while it punches may still adopt a path, over a socket that is closed.)

## Only model-checked

- Liveness (`StableDelivery`, `DeadSessionLeaves`, `RevokedIsClosed`, `Recovers`, `CloseCompletes`,
  `ListConverges`, `ApprovedOrGivenUp`, `LeaseNeedsBoth`, `AttemptsEnd`, `OldNetworkLeaves`,
  `EndpointReturns`, `DueIsReaped`, `ReadEnds`): fairness and ENABLED are outside the prover's reach.
- The violated property of resume_replaced: TLC's counterexample is all there is to show.

## Not modelled

- *Data.* Bytes of a stream and the segments of the replay buffer, keys and proofs of the handshake,
  the contents of inventories. Nothing the properties say depends on them.
- *Time.* Timers fire in any order with everything else; the lengths of backoff, heartbeat and
  cooldown are left out. `WakeReconnect` is left out because the backoff timer can fire whenever it could.
- *The fixed transport modes* of the tunnel manager, which are a race of one; the legacy handshake,
  enrollment of new devices and the owner index of the Server.
- *Unused operations:* `Manager.Register`, `Unregister` and `ReapStaleSessions` of the session registry
  have no caller outside tests.
- *Two full replay buffers that wait for each other:* the run that asks for delivery writes one way.
- *The selects of one queue operation* of the datagram multiplexer, and the whole of `drainLocked`, are one
  step each: that `drainLocked` may change the order of other channels' packets while the send loop takes
  one out is left out.
- *The lock `writeMu` during a blocked write*: writes are single steps, so how long a dead transport
  delays its replacement is not examined.
- *Of the components that are modelled:* streams over a P2P path, reports and candidates of the
  coordinator, the rendezvous over UDP, the listener of an Exit and the nonces of tickets, the Relay's
  forwarding of datagrams between sessions, other sessions' share of the byte budget.
- The components the plan lists, until they are built, and those `PROJECT.json` gives a reason for.
