--------------------------- MODULE GatewaySessions ---------------------------
(*****************************************************************************)
(* Authenticated device tunnels on the Server: the handshake of              *)
(* Gateway.handleSession, the session registry (session.Manager) with its    *)
(* exit indexes, the authorization rows of the database the handshake reads, *)
(* the administrator requests that change those rows, and Gateway.Close.     *)
(*                                                                           *)
(* Threads: one handler per tunnel (handler and control loop of a tunnel     *)
(* share the tunnel's fate and are one thread here), any number of HTTP      *)
(* requests in Admins, and the closing goroutine.  A step is what happens    *)
(* between two points where another thread can run: the Manager's mu is held *)
(* within one step, authorizationMu and the Gateway's mu across several.     *)
(*                                                                           *)
(* Only the identity handshake (protocol v5) is modelled.                    *)
(*****************************************************************************)
EXTENDS FiniteSets, Naturals

CONSTANTS
  Devices,      \* device records that have completed enrollment
  Identities,   \* identities devices are bound to
  Tunnels,      \* transport sessions accepted during a run
  Admins,       \* concurrent HTTP requests and the grant expiry loop
  Caps,         \* capabilities an administrator can approve
  ExitCap,      \* protocol.CapabilityProxyExit
  Nobody,       \* no session, no lock holder
  MaxChanges    \* bound: administrator requests served during a run

ASSUME SessionsAssumption ==
  /\ ExitCap \in Caps
  /\ MaxChanges \in Nat
  /\ Nobody \notin Tunnels \cup Admins \cup Devices \cup Identities
  /\ Tunnels \cap Admins = {}

VARIABLES
  (* database *)
  approved,     \* approved[d]: devices.approval_state is approved
  boundTo,      \* boundTo[d]: devices.identity_id
  granted,      \* granted[d]: devices.approved_capabilities
  active,       \* active[i]: identities.status is active
  (* session.Manager *)
  sessions,     \* sessions[d]: the registered tunnel or Nobody
  exits,        \* exits[d]: the indexed exit session or Nobody
  exitsByIdentity, \* exitsByIdentity[i][d]
  authMu,       \* holder of Manager.authorizationMu
  (* Gateway *)
  gwMu,         \* tunnel whose handler holds Gateway.mu for registration
  closing,      \* "running", "closed" (flag set), "closeall", "stopped"
  (* per tunnel *)
  pc,           \* where handleSession stands
  dev,          \* dev[c], ident[c]: device and identity of the hello
  ident,
  caps,         \* capabilities the handshake was granted
  alive,        \* the transport is open
  oldTunnel,    \* the displaced tunnel register returned, or Nobody
  (* per administrator request *)
  step,         \* where the request stands
  target,       \* the device it changes
  previous,     \* the binding it loaded before it took the gate
  sweep,        \* identities it has still to invalidate
  toClose,      \* tunnels it has still to close
  changes       \* requests started so far

dbVars    == <<approved, boundTo, granted, active>>
regVars   == <<sessions, exits, exitsByIdentity>>
whoVars   == <<dev, ident, caps>>
tunVars   == <<pc, whoVars, alive, oldTunnel>>
reqVars   == <<step, target, previous, sweep, toClose>>
adminVars == <<reqVars, changes>>
vars == <<dbVars, regVars, authMu, gwMu, closing, tunVars, adminVars>>

-----------------------------------------------------------------------------
(* Session registry operations, all under Manager.mu.                       *)

IsExit(c) == ExitCap \in caps[c]

\* Manager.unindexExitLocked for every tunnel of gone, then
\* Manager.indexExitLocked for come (Nobody: nothing to index).
Reindexed(gone, come) ==
  LET leaves(d) == \E c \in gone : dev[c] = d
      leavesBucket(d, i) ==
        \E c \in gone : dev[c] = d /\ ident[c] = i
      joins(d) == come # Nobody /\ dev[come] = d /\ IsExit(come)
      joinsBucket(d, i) == joins(d) /\ ident[come] = i
  IN  /\ exits' = [d \in Devices |->
           IF joins(d) THEN come ELSE IF leaves(d) THEN Nobody ELSE exits[d]]
      /\ exitsByIdentity' = [i \in Identities |-> [d \in Devices |->
           IF joinsBucket(d, i) THEN come
           ELSE IF leavesBucket(d, i) THEN Nobody ELSE exitsByIdentity[i][d]]]

\* The registered tunnels of a set of devices, and Manager.removeLocked.
Registered(ds) == {sessions[d] : d \in ds} \ {Nobody}
RemoveLocked(ds) ==
  /\ sessions' = [d \in Devices |-> IF d \in ds THEN Nobody ELSE sessions[d]]
  /\ Reindexed(Registered(ds), Nobody)

\* The transports to close for the removed sessions of ds.
Transports(ds) == Registered(ds)

-----------------------------------------------------------------------------
(* The handshake: ResolveIdentity, challenge, proof, AuthorizeIdentityDevice *)

BindingStands(d, i) == approved[d] /\ boundTo[d] = i

\* DB.IsIdentityDeviceAuthorized
IdentityDeviceAuthorized(d, i) == approved[d] /\ boundTo[d] = i /\ active[i]

\* A tunnel arrives; track refuses it once the Gateway is closed (it takes
\* Gateway.mu).  The hello names the device's key and an active identity.
Hello(c, d, i) ==
  /\ pc[c] = "new" /\ closing = "running" /\ gwMu = Nobody
  /\ active[i]
  /\ pc' = [pc EXCEPT ![c] = "challenged"]
  /\ dev' = [dev EXCEPT ![c] = d]
  /\ ident' = [ident EXCEPT ![c] = i]
  /\ alive' = [alive EXCEPT ![c] = TRUE]
  /\ UNCHANGED <<dbVars, regVars, authMu, gwMu, closing, caps, oldTunnel,
                 adminVars>>

\* The proof is verified and ObserveIdentityDevice reads the device in one
\* transaction: this is where the session's grants come from.
Authorize(c) ==
  /\ pc[c] = "challenged" /\ alive[c]
  /\ IdentityDeviceAuthorized(dev[c], ident[c])
  /\ pc' = [pc EXCEPT ![c] = "authorized"]
  /\ caps' = [caps EXCEPT ![c] = granted[dev[c]]]
  /\ UNCHANGED <<dbVars, regVars, authMu, gwMu, closing, dev, ident, alive,
                 oldTunnel, adminVars>>

\* Revoked, another identity's, disabled identity, failed proof or a dead
\* transport: handleSession returns and closes the transport.
Refuse(c) ==
  /\ pc[c] = "challenged"
  /\ pc' = [pc EXCEPT ![c] = "done"]
  /\ alive' = [alive EXCEPT ![c] = FALSE]
  /\ UNCHANGED <<dbVars, regVars, authMu, gwMu, closing, whoVars, oldTunnel,
                 adminVars>>

\* FAULT: the closed flag is not looked at.
GateIgnoringClose(c) == pc[c] = "authorized" /\ gwMu = Nobody

\* The gate of registration: the closed flag under Gateway.mu.
GateOpen(c) == pc[c] = "authorized" /\ gwMu = Nobody /\ closing = "running"

\* FAULT: the recheck is made before the authorization gate is taken.
VerifyBeforeGate(c) ==
  /\ GateOpen(c)
  /\ IdentityDeviceAuthorized(dev[c], ident[c])
  /\ pc' = [pc EXCEPT ![c] = "verified"]
  /\ gwMu' = c
  /\ UNCHANGED <<dbVars, regVars, authMu, closing, whoVars, alive, oldTunnel,
                 adminVars>>

\* authorizationMu, under which RecheckIdentityDevice reads the database.
Verify(c) ==
  /\ GateOpen(c) /\ authMu = Nobody
  /\ IdentityDeviceAuthorized(dev[c], ident[c])
  /\ pc' = [pc EXCEPT ![c] = "verified"]
  /\ authMu' = c
  /\ gwMu' = c
  /\ UNCHANGED <<dbVars, regVars, closing, whoVars, alive, oldTunnel, adminVars>>

\* The recheck fails, or the Gateway has been closed.
Rejected(c) ==
  /\ pc[c] = "authorized" /\ gwMu = Nobody
  /\ \/ closing # "running"
     \/ /\ authMu = Nobody
        /\ ~IdentityDeviceAuthorized(dev[c], ident[c])
  /\ pc' = [pc EXCEPT ![c] = "done"]
  /\ alive' = [alive EXCEPT ![c] = FALSE]
  /\ UNCHANGED <<dbVars, regVars, authMu, gwMu, closing, whoVars, oldTunnel,
                 adminVars>>

\* Manager.register, then the authorization gate is released.  Gateway.mu is
\* kept until the displaced tunnel has been closed.
Register(c) ==
  LET d == dev[c]
  IN  /\ pc[c] = "verified"
      /\ sessions' = [sessions EXCEPT ![d] = c]
      /\ Reindexed(Registered({d}), c)
      /\ oldTunnel' = [oldTunnel EXCEPT ![c] = sessions[d]]
      /\ authMu' = Nobody
      /\ pc' = [pc EXCEPT ![c] = "registered"]
      /\ UNCHANGED <<dbVars, gwMu, closing, whoVars, alive, adminVars>>

\* FAULT: the displaced tunnel is left to its own fate.
ForgetDisplaced(c) ==
  /\ pc[c] = "registered"
  /\ oldTunnel' = [oldTunnel EXCEPT ![c] = Nobody]
  /\ gwMu' = Nobody
  /\ pc' = [pc EXCEPT ![c] = "welcoming"]
  /\ UNCHANGED <<dbVars, regVars, authMu, closing, whoVars, alive, adminVars>>

\* The rest of RegisterAuthenticated: close the displaced tunnel outside the
\* Manager's locks, then return and release Gateway.mu.
CloseDisplaced(c) ==
  /\ pc[c] = "registered"
  /\ alive' = [t \in Tunnels |-> alive[t] /\ t # oldTunnel[c]]
  /\ oldTunnel' = [oldTunnel EXCEPT ![c] = Nobody]
  /\ gwMu' = Nobody
  /\ pc' = [pc EXCEPT ![c] = "welcoming"]
  /\ UNCHANGED <<dbVars, regVars, authMu, closing, whoVars, adminVars>>

\* The acceptance is written; the session serves streams.
Welcome(c) ==
  /\ pc[c] = "welcoming" /\ alive[c]
  /\ pc' = [pc EXCEPT ![c] = "serving"]
  /\ UNCHANGED <<dbVars, regVars, authMu, gwMu, closing, whoVars, alive,
                 oldTunnel, adminVars>>

\* handleControlChannel: a ping whose recheck fails closes the tunnel.
HeartbeatRefused(c) ==
  /\ pc[c] = "serving" /\ alive[c]
  /\ ~IdentityDeviceAuthorized(dev[c], ident[c])
  /\ alive' = [alive EXCEPT ![c] = FALSE]
  /\ UNCHANGED <<dbVars, regVars, authMu, gwMu, closing, pc, whoVars, oldTunnel,
                 adminVars>>

\* FAULT: the device's session, whoever registered it; and only a session
\* whose welcome was delivered.
RemovedByDevice(c) == {dev[c]}
RemovedIfServing(c) ==
  {d \in Devices : d = dev[c] /\ sessions[d] = c /\ pc[c] = "serving"}

\* The deferred UnregisterSession removes this session only.
RemovedByItself(c) ==
  {d \in Devices : d = dev[c] /\ sessions[d] = c}

\* A failed acceptance write, an AcceptStream error or a missed heartbeat:
\* the deferred UnregisterSession and the transport's Close.
Unregister(c) ==
  /\ pc[c] \in {"welcoming", "serving"} /\ ~alive[c]
  /\ RemoveLocked(RemovedByItself(c))
  /\ pc' = [pc EXCEPT ![c] = "done"]
  /\ UNCHANGED <<dbVars, authMu, gwMu, closing, whoVars, alive, oldTunnel,
                 adminVars>>

\* External: the peer or the network ends the transport.
Break(c) ==
  /\ alive[c]
  /\ alive' = [alive EXCEPT ![c] = FALSE]
  /\ UNCHANGED <<dbVars, regVars, authMu, gwMu, closing, pc, whoVars, oldTunnel,
                 adminVars>>

-----------------------------------------------------------------------------
(* Administrator requests.  A device change runs inside                     *)
(* ChangeDeviceAuthorization: database commit and removal of the session    *)
(* under authorizationMu, tunnel closed after it.  An identity change       *)
(* commits first and invalidates the identity's sessions afterwards.        *)

\* The handler looks the device up first, outside the gate.
LoadDevice(a, d) ==
  /\ step[a] = "idle" /\ changes < MaxChanges
  /\ changes' = changes + 1
  /\ step' = [step EXCEPT ![a] = "loaded"]
  /\ target' = [target EXCEPT ![a] = d]
  /\ previous' = [previous EXCEPT ![a] = boundTo[d]]
  /\ UNCHANGED <<dbVars, regVars, authMu, gwMu, closing, tunVars, sweep,
                 toClose>>

LockForChange(a) ==
  /\ step[a] = "loaded" /\ authMu = Nobody
  /\ authMu' = a
  /\ step' = [step EXCEPT ![a] = "locked"]
  /\ UNCHANGED <<dbVars, regVars, gwMu, closing, tunVars, target, previous,
                 sweep, toClose, changes>>

Committed(a, affected) ==
  /\ step' = [step EXCEPT ![a] = "committed"]
  /\ sweep' = [sweep EXCEPT ![a] = affected]
  /\ UNCHANGED <<active, regVars, authMu, gwMu, closing, tunVars, target,
                 previous, toClose, changes>>

\* DB.RevokeDevice and DB.DeleteDevice
RevokeDevice(a) ==
  /\ step[a] = "locked" /\ approved[target[a]]
  /\ approved' = [approved EXCEPT ![target[a]] = FALSE]
  /\ UNCHANGED <<boundTo, granted>>
  /\ Committed(a, {})

\* DB.UpdateDeviceCapabilities (and an incremental approval)
UpdateDeviceCapabilities(a, chosen) ==
  /\ step[a] = "locked" /\ approved[target[a]]
  /\ chosen # {}
  /\ granted' = [granted EXCEPT ![target[a]] = chosen]
  /\ UNCHANGED <<approved, boundTo>>
  /\ Committed(a, {})

\* DB.SetDeviceIdentity; a real move, by the binding loaded before the gate,
\* also invalidates both identities.  (Grantees of the device are left out.)
SetDeviceIdentity(a, i) ==
  LET d == target[a]
  IN  /\ step[a] = "locked"
      /\ boundTo' = [boundTo EXCEPT ![d] = i]
      /\ UNCHANGED <<approved, granted>>
      /\ Committed(a, IF i = previous[a] THEN {} ELSE {i, previous[a]})

\* The change fails: nothing is invalidated.
ChangeFails(a) ==
  /\ step[a] = "locked"
  /\ authMu' = Nobody
  /\ step' = [step EXCEPT ![a] = "idle"]
  /\ UNCHANGED <<dbVars, regVars, gwMu, closing, tunVars, target, previous,
                 sweep, toClose, changes>>

\* FAULT: the removed tunnel is dropped instead of closed.
InvalidateWithoutClose(a) ==
  /\ step[a] = "committed"
  /\ RemoveLocked({target[a]})
  /\ authMu' = Nobody
  /\ step' = [step EXCEPT ![a] = "closing"]
  /\ UNCHANGED <<dbVars, gwMu, closing, tunVars, target, previous, sweep,
                 toClose, changes>>

\* removeLocked and the release of authorizationMu
InvalidateDevice(a) ==
  LET d == target[a]
  IN  /\ step[a] = "committed"
      /\ RemoveLocked({d})
      /\ authMu' = Nobody
      /\ step' = [step EXCEPT ![a] = "closing"]
      /\ toClose' = [toClose EXCEPT ![a] = Transports({d})]
      /\ UNCHANGED <<dbVars, gwMu, closing, tunVars, target, previous, sweep,
                     changes>>

\* Tunnels are closed one after the other, outside all locks.
CloseRemoved(a) ==
  /\ step[a] = "closing"
  /\ \/ \E c \in toClose[a] :
          /\ alive' = [alive EXCEPT ![c] = FALSE]
          /\ toClose' = [toClose EXCEPT ![a] = @ \ {c}]
          /\ UNCHANGED step
     \/ /\ toClose[a] = {}
        /\ step' = [step EXCEPT ![a] =
                       IF sweep[a] = {} THEN "idle" ELSE "sweeping"]
        /\ UNCHANGED <<alive, toClose>>
  /\ UNCHANGED <<dbVars, regVars, authMu, gwMu, closing, pc, whoVars, oldTunnel,
                 target, previous, sweep, changes>>

\* DB.UpdateIdentity commits outside the gate ...
UpdateIdentity(a, i, status) ==
  /\ step[a] = "idle" /\ changes < MaxChanges
  /\ changes' = changes + 1
  /\ active' = [active EXCEPT ![i] = status]
  /\ step' = [step EXCEPT ![a] = "sweeping"]
  /\ sweep' = [sweep EXCEPT ![a] = {i}]
  /\ UNCHANGED <<approved, boundTo, granted, regVars, authMu, gwMu, closing,
                 tunVars, target, previous, toClose>>

\* ... a created, changed or expired grant is committed likewise ...
ChangeGrant(a, i) ==
  /\ step[a] = "idle" /\ changes < MaxChanges
  /\ changes' = changes + 1
  /\ step' = [step EXCEPT ![a] = "sweeping"]
  /\ sweep' = [sweep EXCEPT ![a] = {i}]
  /\ UNCHANGED <<dbVars, regVars, authMu, gwMu, closing, tunVars, target,
                 previous, toClose>>

\* FAULT: the identity's exits instead of all its sessions.
ExitsOf(i) == {d \in Devices : exitsByIdentity[i][d] # Nobody}

\* The devices registered under an identity.
DevicesOf(i) == {d \in Devices : sessions[d] # Nobody
                                  /\ ident[sessions[d]] = i}

\* ... and Manager.InvalidateIdentity removes its sessions afterwards, under
\* both locks, and closes their tunnels after releasing them.
InvalidateIdentity(a, i) ==
  /\ step[a] = "sweeping" /\ i \in sweep[a] /\ authMu = Nobody
  /\ RemoveLocked(DevicesOf(i))
  /\ step' = [step EXCEPT ![a] = "closing"]
  /\ sweep' = [sweep EXCEPT ![a] = @ \ {i}]
  /\ toClose' = [toClose EXCEPT ![a] = Transports(DevicesOf(i))]
  /\ UNCHANGED <<dbVars, authMu, gwMu, closing, tunVars, target, previous,
                 changes>>

-----------------------------------------------------------------------------
(* Gateway.Close                                                            *)

BeginClose ==
  /\ closing = "running" /\ gwMu = Nobody
  /\ closing' = "closed"
  /\ UNCHANGED <<dbVars, regVars, authMu, gwMu, tunVars, adminVars>>

\* Every tracked transport, authenticated or not.
CloseTransports ==
  /\ closing = "closed"
  /\ closing' = "closeall"
  /\ alive' = [c \in Tunnels |-> FALSE]
  /\ UNCHANGED <<dbVars, regVars, authMu, gwMu, pc, whoVars, oldTunnel, adminVars>>

\* Manager.CloseAll forgets every session and closes what it had.
CloseAll ==
  /\ closing = "closeall"
  /\ closing' = "stopped"
  /\ alive' = [c \in Tunnels |-> alive[c] /\ c \notin Registered(Devices)]
  /\ RemoveLocked(Devices)
  /\ UNCHANGED <<dbVars, authMu, gwMu, pc, whoVars, oldTunnel, adminVars>>

-----------------------------------------------------------------------------
Init ==
  /\ approved = [d \in Devices |-> TRUE]
  /\ boundTo \in [Devices -> Identities]
  /\ granted = [d \in Devices |-> Caps]
  /\ active = [i \in Identities |-> TRUE]
  /\ sessions = [d \in Devices |-> Nobody]
  /\ exits = [d \in Devices |-> Nobody]
  /\ exitsByIdentity = [i \in Identities |-> [d \in Devices |-> Nobody]]
  /\ authMu = Nobody /\ gwMu = Nobody /\ closing = "running"
  /\ pc = [c \in Tunnels |-> "new"]
  /\ dev = [c \in Tunnels |-> Nobody]
  /\ ident = [c \in Tunnels |-> Nobody]
  /\ caps = [c \in Tunnels |-> {}]
  /\ alive = [c \in Tunnels |-> FALSE]
  /\ oldTunnel = [c \in Tunnels |-> Nobody]
  /\ step = [a \in Admins |-> "idle"]
  /\ target = [a \in Admins |-> Nobody]
  /\ previous = [a \in Admins |-> Nobody]
  /\ sweep = [a \in Admins |-> {}]
  /\ toClose = [a \in Admins |-> {}]
  /\ changes = 0

Handler(c) ==
  \/ Authorize(c) \/ Refuse(c) \/ Verify(c) \/ Rejected(c) \/ Register(c)
  \/ CloseDisplaced(c) \/ Welcome(c) \/ HeartbeatRefused(c) \/ Unregister(c)

DeviceChange(a) ==
  \/ RevokeDevice(a) \/ ChangeFails(a)
  \/ \E chosen \in SUBSET Caps : UpdateDeviceCapabilities(a, chosen)
  \/ \E i \in Identities : SetDeviceIdentity(a, i)

Teardown(a) ==
  \/ InvalidateDevice(a) \/ CloseRemoved(a)
  \/ \E i \in Identities : InvalidateIdentity(a, i)

Next ==
  \/ \E c \in Tunnels, d \in Devices, i \in Identities : Hello(c, d, i)
  \/ \E c \in Tunnels : Handler(c) \/ Break(c)
  \/ \E a \in Admins :
       \/ \E d \in Devices : LoadDevice(a, d)
       \/ LockForChange(a)
       \/ \E i \in Identities :
            ChangeGrant(a, i) \/ \E s \in BOOLEAN : UpdateIdentity(a, i, s)
       \/ DeviceChange(a) \/ Teardown(a)
  \/ BeginClose \/ CloseTransports \/ CloseAll

Spec == Init /\ [][Next]_vars

\* Handlers and requests run to their end; nobody has to connect, to break a
\* transport, to send a request or to close the Gateway.  A mutex is granted
\* to each waiter eventually (Go's sync.Mutex does not starve): strong
\* fairness for the steps that take authorizationMu.
Fairness ==
  /\ \A c \in Tunnels :
       /\ WF_vars(Register(c)) /\ WF_vars(CloseDisplaced(c))
       /\ WF_vars(Unregister(c))
  /\ \A a \in Admins :
       /\ WF_vars(DeviceChange(a))
       /\ WF_vars(InvalidateDevice(a) \/ CloseRemoved(a))
       /\ \A i \in Identities : SF_vars(InvalidateIdentity(a, i))

LiveSpec == Spec /\ Fairness

-----------------------------------------------------------------------------
(* Properties                                                               *)

Maybe(S) == S \cup {Nobody}

\* Variable ranges.
TypeOK ==
  /\ approved \in [Devices -> BOOLEAN]
  /\ boundTo \in [Devices -> Identities]
  /\ granted \in [Devices -> SUBSET Caps]
  /\ active \in [Identities -> BOOLEAN]
  /\ sessions \in [Devices -> Maybe(Tunnels)]
  /\ exits \in [Devices -> Maybe(Tunnels)]
  /\ exitsByIdentity \in [Identities -> [Devices -> Maybe(Tunnels)]]
  /\ authMu \in Maybe(Tunnels \cup Admins)
  /\ gwMu \in Maybe(Tunnels)
  /\ closing \in {"running", "closed", "closeall", "stopped"}
  /\ pc \in [Tunnels -> {"new", "challenged", "authorized", "verified",
                         "registered", "welcoming", "serving", "done"}]
  /\ dev \in [Tunnels -> Maybe(Devices)]
  /\ ident \in [Tunnels -> Maybe(Identities)]
  /\ caps \in [Tunnels -> SUBSET Caps]
  /\ alive \in [Tunnels -> BOOLEAN]
  /\ oldTunnel \in [Tunnels -> Maybe(Tunnels)]
  /\ step \in [Admins -> {"idle", "loaded", "locked", "committed", "closing",
                           "sweeping"}]
  /\ target \in [Admins -> Maybe(Devices)]
  /\ previous \in [Admins -> Maybe(Identities)]
  /\ sweep \in [Admins -> SUBSET Identities]
  /\ toClose \in [Admins -> SUBSET Tunnels]
  /\ changes \in 0 .. MaxChanges

\* A committed change of d whose session has not been removed yet.
ChangePending(d) ==
  \E a \in Admins : step[a] = "committed" /\ target[a] = d

SweepPending(i) ==
  \E a \in Admins : i \in sweep[a]

\* "A verified handshake cannot register after approval is revoked": whoever
\* is registered is approved and bound to the identity it authenticated with,
\* but for the instant in which the change holds the authorization gate.
RegisteredIsApproved ==
  \A d \in Devices : sessions[d] # Nobody =>
    \/ ChangePending(d)
    \/ /\ approved[d] /\ boundTo[d] = ident[sessions[d]]
       /\ dev[sessions[d]] = d

\* An identity is disabled in the database before its sessions are removed
\* and outside the gate.  No handshake slips between the two: a session of a
\* disabled identity always has an invalidation on its way.
DisabledIsBeingSwept ==
  \A d \in Devices : sessions[d] # Nobody =>
    LET i == ident[sessions[d]] IN active[i] \/ SweepPending(i)

\* exits and exitsByIdentity hold exactly the registered exit sessions, after
\* any order of replacement, removal, invalidation and closing.
IndexesAgree ==
  /\ \A d \in Devices :
       exits[d] = IF sessions[d] # Nobody /\ IsExit(sessions[d])
                  THEN sessions[d] ELSE Nobody
  /\ \A i \in Identities, d \in Devices :
       exitsByIdentity[i][d] =
         IF exits[d] # Nobody /\ ident[exits[d]] = i
         THEN exits[d] ELSE Nobody

\* Somebody is about to close the transport of c.
BeingClosed(c) ==
  \/ \E t \in Tunnels : oldTunnel[t] = c
  \/ \E a \in Admins : c \in toClose[a]
  \/ closing \in {"closed", "closeall"}

\* A session that was displaced or removed does not keep serving streams: a
\* live transport past registration is the registered one or being closed.
UnregisteredIsClosed ==
  \A c \in Tunnels :
    alive[c] /\ pc[c] \in {"registered", "welcoming", "serving"} =>
      sessions[dev[c]] = c \/ BeingClosed(c)

\* After CloseAll nothing registers again: "All control handlers, request
\* handlers and their audit producers finish before the caller is allowed to
\* close its audit channel or database" relies on it.
NothingAfterStop ==
  closing = "stopped" =>
    /\ \A d \in Devices : sessions[d] = Nobody
    /\ \A c \in Tunnels : ~alive[c]

\* What a tunnel's own end removes is that tunnel's session: a device that
\* has reconnected stays registered while its old handler unwinds.
UnwindingHandlerSparesOthers ==
  [][\A c \in Tunnels : pc[c] # "done" /\ pc'[c] = "done" =>
       \A d \in Devices : sessions[d] # c => sessions'[d] = sessions[d]]_vars

\* The session of a dead transport leaves the registry.
DeadSessionLeaves ==
  \A c \in Tunnels, d \in Devices :
    (sessions[d] = c /\ ~alive[c]) ~> sessions[d] # c

\* Revocation ends every session of the device and closes its transport.
\* (Revoked is final for a device record.)
RevokedIsClosed ==
  \A d \in Devices :
    ~approved[d] ~> [](\A c \in Tunnels :
                         dev[c] = d /\ pc[c] \in {"registered",
                           "welcoming", "serving"} => ~alive[c])

-----------------------------------------------------------------------------
(* Refinement: approval and admission change in one step.                   *)

AllowedNow == [d \in Devices |-> IF approved[d] THEN boundTo[d] ELSE Nobody]
AdmittedNow == [d \in Devices |->
  IF ChangePending(d) \/ sessions[d] = Nobody
  THEN [tunnel |-> Nobody, identity |-> Nobody]
  ELSE [tunnel |-> sessions[d], identity |-> ident[sessions[d]]]]

Admission == INSTANCE DeviceAdmission WITH
  allowed <- AllowedNow, admitted <- AdmittedNow

\* "makes an approval mutation and its session invalidation indivisible with
\* respect to authenticated registration" (manager.go:257)
ImplementsDeviceAdmission == Admission!AbsSpec
=============================================================================
