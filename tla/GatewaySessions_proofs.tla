----------------------- MODULE GatewaySessions_proofs -----------------------
(*****************************************************************************)
(* Proofs about GatewaySessions: type correctness, that registration and     *)
(* revocation exclude each other (RegisteredIsApproved,                      *)
(* DisabledIsBeingSwept), that the indexes hold the registered exits         *)
(* (IndexesAgree), that transports of removed sessions are closed            *)
(* (UnregisteredIsClosed, NothingAfterStop), and that the registry           *)
(* implements DeviceAdmission.                                               *)
(*                                                                           *)
(* The inductive invariant IInv adds to the two safety properties who holds  *)
(* authorizationMu, that the holder's recheck still stands, and that the     *)
(* registry knows a tunnel under the device it authenticated as.             *)
(*****************************************************************************)
EXTENDS GatewaySessions, TLAPS

-----------------------------------------------------------------------------
(* The inductive invariant                                                  *)

\* authorizationMu is held between the recheck and the registration of one
\* handshake, or between the start and the invalidation of one change.
GateHolders ==
  /\ \A c \in Tunnels : pc[c] = "verified" <=> authMu = c
  /\ \A a \in Admins : step[a] \in {"locked", "committed"} <=> authMu = a

\* Identifiers are present where a step uses them.
Named ==
  /\ \A c \in Tunnels : pc[c] # "new" => /\ dev[c] \in Devices
                                         /\ ident[c] \in Identities
  /\ \A a \in Admins : step[a] \in {"loaded", "locked", "committed"} =>
                         target[a] \in Devices /\ previous[a] \in Identities
  /\ \A a \in Admins : step[a] \in {"idle", "loaded", "locked"} =>
                         sweep[a] = {}

\* What the recheck read still holds when the session is inserted, except
\* that the identity may have been disabled with its sweep still to come.
RecheckStands ==
  \A c \in Tunnels : pc[c] = "verified" =>
    /\ approved[dev[c]]
    /\ boundTo[dev[c]] = ident[c]
    /\ active[ident[c]] \/ SweepPending(ident[c])

\* A registered tunnel is past registration, under its own device.
RegistryKnows ==
  \A d \in Devices : sessions[d] # Nobody =>
    /\ dev[sessions[d]] = d
    /\ pc[sessions[d]] \in {"registered", "welcoming", "serving"}

IInv == /\ TypeOK /\ GateHolders /\ Named /\ RecheckStands /\ RegistryKnows
        /\ RegisteredIsApproved /\ DisabledIsBeingSwept

-----------------------------------------------------------------------------
(* Type correctness                                                         *)

\* Reindexing leaves both indexes well-typed.
LEMMA ReindexedType ==
  ASSUME TypeOK, NEW gone, NEW come \in Maybe(Tunnels), Reindexed(gone, come)
  PROVE  /\ exits' \in [Devices -> Maybe(Tunnels)]
         /\ exitsByIdentity' \in [Identities -> [Devices -> Maybe(Tunnels)]]
BY DEF TypeOK, Reindexed, Maybe

\* Removing sessions leaves the registry well-typed.
LEMMA RemoveType ==
  ASSUME TypeOK, NEW ds \in SUBSET Devices, RemoveLocked(ds)
  PROVE  /\ sessions' \in [Devices -> Maybe(Tunnels)]
         /\ exits' \in [Devices -> Maybe(Tunnels)]
         /\ exitsByIdentity' \in [Identities -> [Devices -> Maybe(Tunnels)]]
         /\ Registered(ds) \in SUBSET Tunnels
<1>1. Nobody \in Maybe(Tunnels)
  BY DEF Maybe
<1>2. /\ exits' \in [Devices -> Maybe(Tunnels)]
      /\ exitsByIdentity' \in [Identities -> [Devices -> Maybe(Tunnels)]]
  BY <1>1, ReindexedType DEF RemoveLocked
<1>3. sessions' \in [Devices -> Maybe(Tunnels)]
  BY DEF TypeOK, RemoveLocked, Maybe
<1>4. Registered(ds) \in SUBSET Tunnels
  BY DEF TypeOK, Registered, Maybe
<1>. QED  BY <1>2, <1>3, <1>4

\* Every handler step keeps the types.
LEMMA HandlerType ==
  ASSUME TypeOK, Named, NEW c \in Tunnels, Handler(c) \/ Break(c)
  PROVE  TypeOK'
<1>. USE DEF TypeOK, dbVars, regVars, tunVars, whoVars, adminVars, reqVars
<1>1. CASE Authorize(c)
  <2>1. granted[dev[c]] \in SUBSET Caps
    BY <1>1 DEF Authorize, Named
  <2>. QED  BY <1>1, <2>1 DEF Authorize
<1>2. CASE Refuse(c)
  BY <1>2 DEF Refuse
<1>3. CASE Verify(c)
  BY <1>3 DEF Verify, GateOpen, Maybe
<1>4. CASE Rejected(c)
  BY <1>4 DEF Rejected
<1>5. CASE Register(c)
  <2>1. /\ exits' \in [Devices -> Maybe(Tunnels)]
        /\ exitsByIdentity' \in [Identities -> [Devices -> Maybe(Tunnels)]]
    BY <1>5, ReindexedType DEF Register, Maybe
  <2>2. sessions[dev[c]] \in Maybe(Tunnels)
    BY <1>5 DEF Register, Named
  <2>. QED  BY <1>5, <2>1, <2>2 DEF Register, Maybe
<1>6. CASE CloseDisplaced(c)
  BY <1>6 DEF CloseDisplaced, Maybe
<1>7. CASE Welcome(c)
  BY <1>7 DEF Welcome
<1>8. CASE HeartbeatRefused(c)
  BY <1>8 DEF HeartbeatRefused
<1>9. CASE Unregister(c)
  <2>1. RemovedByItself(c) \in SUBSET Devices
    BY DEF RemovedByItself
  <2>2. /\ sessions' \in [Devices -> Maybe(Tunnels)]
        /\ exits' \in [Devices -> Maybe(Tunnels)]
        /\ exitsByIdentity' \in [Identities -> [Devices -> Maybe(Tunnels)]]
    BY <1>9, <2>1, RemoveType DEF Unregister
  <2>. QED  BY <1>9, <2>2 DEF Unregister
<1>10. CASE Break(c)
  BY <1>10 DEF Break
<1>. QED  BY <1>1, <1>2, <1>3, <1>4, <1>5, <1>6, <1>7, <1>8, <1>9, <1>10
          DEF Handler

\* Every administrator step keeps the types.
LEMMA AdminType ==
  ASSUME TypeOK, Named, NEW a \in Admins,
         \/ (\E d \in Devices : LoadDevice(a, d)) \/ LockForChange(a)
         \/ \E i \in Identities :
              ChangeGrant(a, i) \/ \E s \in BOOLEAN : UpdateIdentity(a, i, s)
         \/ DeviceChange(a) \/ Teardown(a)
  PROVE  TypeOK'
<1>. USE SessionsAssumption
     DEF TypeOK, dbVars, regVars, tunVars, whoVars, adminVars, reqVars
<1>0. ASSUME NEW d \in Devices, LoadDevice(a, d)  PROVE TypeOK'
  BY <1>0 DEF LoadDevice, Maybe
<1>1. CASE LockForChange(a)
  BY <1>1 DEF LockForChange, Maybe
<1>2. ASSUME NEW i \in Identities, ChangeGrant(a, i)  PROVE TypeOK'
  BY <1>2 DEF ChangeGrant, Maybe
<1>3. ASSUME NEW i \in Identities, NEW s \in BOOLEAN, UpdateIdentity(a, i, s)
      PROVE  TypeOK'
  BY <1>3 DEF UpdateIdentity, Maybe
<1>4. CASE RevokeDevice(a)
  BY <1>4 DEF RevokeDevice, Committed
<1>5. ASSUME NEW chosen \in SUBSET Caps, UpdateDeviceCapabilities(a, chosen)
      PROVE  TypeOK'
  BY <1>5 DEF UpdateDeviceCapabilities, Committed
<1>6. ASSUME NEW i \in Identities, SetDeviceIdentity(a, i)  PROVE TypeOK'
  <2>1. target[a] \in Devices /\ previous[a] \in Identities
    BY <1>6 DEF SetDeviceIdentity, Named
  <2>. QED  BY <1>6, <2>1 DEF SetDeviceIdentity, Committed
<1>7. CASE ChangeFails(a)
  BY <1>7 DEF ChangeFails, Maybe
<1>8. CASE InvalidateDevice(a)
  <2>1. {target[a]} \in SUBSET Devices
    BY <1>8 DEF InvalidateDevice, Named
  <2>2. /\ sessions' \in [Devices -> Maybe(Tunnels)]
        /\ exits' \in [Devices -> Maybe(Tunnels)]
        /\ exitsByIdentity' \in [Identities -> [Devices -> Maybe(Tunnels)]]
        /\ Transports({target[a]}) \in SUBSET Tunnels
    BY <1>8, <2>1, RemoveType DEF InvalidateDevice, Transports
  <2>. QED  BY <1>8, <2>2 DEF InvalidateDevice, Maybe
<1>9. CASE CloseRemoved(a)
  <2>1. toClose' \in [Admins -> SUBSET Tunnels]
    <3>1. CASE UNCHANGED toClose
      BY <3>1
    <3>2. ASSUME NEW c \in toClose[a],
                 toClose' = [toClose EXCEPT ![a] = @ \ {c}]
          PROVE  toClose' \in [Admins -> SUBSET Tunnels]
      BY <3>2
    <3>. QED  BY <1>9, <3>1, <3>2 DEF CloseRemoved
  <2>2. alive' \in [Tunnels -> BOOLEAN]
    BY <1>9 DEF CloseRemoved
  <2>4. step' \in [Admins -> {"idle", "loaded", "locked", "committed",
                              "closing", "sweeping"}]
    BY <1>9 DEF CloseRemoved
  <2>3. UNCHANGED <<dbVars, regVars, authMu, gwMu, closing, pc, whoVars,
                    oldTunnel, target, previous, sweep, changes>>
    BY <1>9 DEF CloseRemoved
  <2>. QED  BY <2>1, <2>2, <2>3, <2>4
<1>10. ASSUME NEW i \in Identities, InvalidateIdentity(a, i)  PROVE TypeOK'
  <2>1. DevicesOf(i) \in SUBSET Devices
    BY DEF DevicesOf
  <2>2. /\ sessions' \in [Devices -> Maybe(Tunnels)]
        /\ exits' \in [Devices -> Maybe(Tunnels)]
        /\ exitsByIdentity' \in [Identities -> [Devices -> Maybe(Tunnels)]]
    BY <1>10, <2>1, RemoveType DEF InvalidateIdentity
  <2>6. Transports(DevicesOf(i)) \in SUBSET Tunnels
    BY <1>10, <2>1, RemoveType DEF InvalidateIdentity, Transports
  <2>3. sweep[a] \ {i} \in SUBSET Identities
    OBVIOUS
  <2>4. /\ sweep' \in [Admins -> SUBSET Identities]
        /\ toClose' \in [Admins -> SUBSET Tunnels]
        /\ step' \in [Admins -> {"idle", "loaded", "locked", "committed",
                                  "closing", "sweeping"}]
    BY <1>10, <2>6, <2>3 DEF InvalidateIdentity
  <2>5. UNCHANGED <<dbVars, authMu, gwMu, closing, tunVars, target, previous,
                    changes>>
    BY <1>10 DEF InvalidateIdentity
  <2>. QED  BY <2>2, <2>4, <2>5
<1>. HIDE DEF TypeOK
<1>. QED  BY <1>0, <1>1, <1>2, <1>3, <1>4, <1>5, <1>6, <1>7, <1>8, <1>9,
             <1>10 DEF DeviceChange, Teardown

\* Every step of Gateway.Close keeps the types.
LEMMA CloseType ==
  ASSUME TypeOK, BeginClose \/ CloseTransports \/ CloseAll
  PROVE  TypeOK'
<1>. USE DEF TypeOK, dbVars, regVars, tunVars, whoVars, adminVars, reqVars
<1>1. CASE BeginClose
  BY <1>1 DEF BeginClose
<1>2. CASE CloseTransports
  BY <1>2 DEF CloseTransports
<1>3. CASE CloseAll
  <2>1. /\ sessions' \in [Devices -> Maybe(Tunnels)]
        /\ exits' \in [Devices -> Maybe(Tunnels)]
        /\ exitsByIdentity' \in [Identities -> [Devices -> Maybe(Tunnels)]]
    BY <1>3, RemoveType DEF CloseAll
  <2>. QED  BY <1>3, <2>1 DEF CloseAll
<1>. QED  BY <1>1, <1>2, <1>3

\* Every step keeps the types.
LEMMA TypeStep ==
  ASSUME TypeOK, Named, [Next]_vars
  PROVE  TypeOK'
<1>1. ASSUME NEW c \in Tunnels, NEW d \in Devices, NEW i \in Identities,
             Hello(c, d, i)
      PROVE  TypeOK'
  BY <1>1 DEF Hello, TypeOK, Maybe, dbVars, regVars, adminVars, reqVars
<1>2. CASE UNCHANGED vars
  BY <1>2 DEF TypeOK, vars, dbVars, regVars, tunVars, whoVars, adminVars, reqVars
<1>. QED  BY <1>1, <1>2, HandlerType, AdminType, CloseType DEF Next

-----------------------------------------------------------------------------
(* Steps that only move a handler or end transports: they leave the         *)
(* database, the registry, the gate and every request alone.                *)

Quiet ==
  \/ \E c \in Tunnels :
       \/ Authorize(c) \/ Refuse(c) \/ Rejected(c) \/ CloseDisplaced(c)
       \/ Welcome(c) \/ HeartbeatRefused(c) \/ Break(c)
  \/ BeginClose \/ CloseTransports \/ UNCHANGED vars

\* All of it that the invariants look at.
QuietEffect ==
  /\ UNCHANGED <<approved, boundTo, active, sessions, authMu>>
  /\ UNCHANGED <<dev, ident>>
  /\ UNCHANGED <<step, target, previous, sweep>>
  /\ \A c \in Tunnels :
       /\ pc'[c] = "verified" <=> pc[c] = "verified"
       /\ pc'[c] # "new" => pc[c] # "new"
       /\ pc[c] \in {"registered", "welcoming", "serving"} =>
            pc'[c] \in {"registered", "welcoming", "serving"}

\* A quiet step has only the quiet effect.
LEMMA QuietFrame ==
  ASSUME TypeOK, Quiet
  PROVE  QuietEffect
<1>. USE DEF TypeOK, dbVars, regVars, tunVars, whoVars, adminVars, reqVars
<1>1. CASE UNCHANGED vars
  BY <1>1 DEF vars, QuietEffect
<1>2. CASE BeginClose
  BY <1>2 DEF BeginClose, QuietEffect
<1>3. CASE CloseTransports
  BY <1>3 DEF CloseTransports, QuietEffect
<1>4. ASSUME NEW c \in Tunnels, Authorize(c)
      PROVE  QuietEffect
  BY <1>4 DEF Authorize, QuietEffect
<1>5. ASSUME NEW c \in Tunnels, Refuse(c)
      PROVE  QuietEffect
  BY <1>5 DEF Refuse, QuietEffect
<1>6. ASSUME NEW c \in Tunnels, Rejected(c)
      PROVE  QuietEffect
  BY <1>6 DEF Rejected, QuietEffect
<1>7. ASSUME NEW c \in Tunnels, CloseDisplaced(c)
      PROVE  QuietEffect
  BY <1>7 DEF CloseDisplaced, QuietEffect
<1>8. ASSUME NEW c \in Tunnels, Welcome(c)
      PROVE  QuietEffect
  BY <1>8 DEF Welcome, QuietEffect
<1>9. ASSUME NEW c \in Tunnels, HeartbeatRefused(c)
      PROVE  QuietEffect
  BY <1>9 DEF HeartbeatRefused, QuietEffect
<1>10. ASSUME NEW c \in Tunnels, Break(c)
      PROVE  QuietEffect
  BY <1>10 DEF Break, QuietEffect
<1>. HIDE DEF TypeOK
<1>. QED  BY <1>1, <1>2, <1>3, <1>4, <1>5, <1>6, <1>7, <1>8, <1>9, <1>10 DEF Quiet

\* What the registry holds is a tunnel past its handshake.
LEMMA RegisteredTunnel ==
  ASSUME TypeOK, Named, RegistryKnows, NEW e \in Devices, sessions[e] # Nobody
  PROVE  /\ sessions[e] \in Tunnels
         /\ pc[sessions[e]] \in {"registered", "welcoming", "serving"}
         /\ ident[sessions[e]] \in Identities
<1>1. sessions[e] \in Tunnels
  BY DEF TypeOK, Maybe
<1>2. pc[sessions[e]] \in {"registered", "welcoming", "serving"}
  BY DEF RegistryKnows
<1>. QED  BY <1>1, <1>2 DEF Named

\* The gate has one holder at a time.
LEMMA GateStep ==
  ASSUME TypeOK, GateHolders, [Next]_vars
  PROVE  GateHolders'
<1>. USE SessionsAssumption
     DEF TypeOK, dbVars, regVars, tunVars, whoVars, adminVars, reqVars, Maybe,
         GateHolders, Committed, GateOpen
<1>1. CASE Quiet
  BY <1>1, QuietFrame DEF QuietEffect
<1>2. ASSUME NEW c \in Tunnels, NEW d \in Devices,
             NEW i \in Identities,
             Hello(c, d, i)
      PROVE  GateHolders'
  BY <1>2 DEF Hello
<1>3. ASSUME NEW c \in Tunnels, Verify(c)
      PROVE  GateHolders'
  BY <1>3 DEF Verify
<1>4. ASSUME NEW c \in Tunnels, Register(c)
      PROVE  GateHolders'
  BY <1>4 DEF Register
<1>5. ASSUME NEW c \in Tunnels, Unregister(c)
      PROVE  GateHolders'
  BY <1>5 DEF Unregister
<1>6. ASSUME NEW a \in Admins, LockForChange(a)
      PROVE  GateHolders'
  BY <1>6 DEF LockForChange
<1>7. ASSUME NEW a \in Admins, RevokeDevice(a)
      PROVE  GateHolders'
  BY <1>7 DEF RevokeDevice
<1>8. ASSUME NEW a \in Admins, NEW chosen, UpdateDeviceCapabilities(a, chosen)
      PROVE  GateHolders'
  BY <1>8 DEF UpdateDeviceCapabilities
<1>9. ASSUME NEW a \in Admins, NEW i \in Identities, SetDeviceIdentity(a, i)
      PROVE  GateHolders'
  BY <1>9 DEF SetDeviceIdentity
<1>10. ASSUME NEW a \in Admins, ChangeFails(a)
      PROVE  GateHolders'
  BY <1>10 DEF ChangeFails
<1>11. ASSUME NEW a \in Admins, InvalidateDevice(a)
      PROVE  GateHolders'
  BY <1>11 DEF InvalidateDevice
<1>12. ASSUME NEW a \in Admins, CloseRemoved(a)
      PROVE  GateHolders'
  BY <1>12 DEF CloseRemoved
<1>13. ASSUME NEW a \in Admins, NEW i \in Identities,
             NEW s \in BOOLEAN,
             UpdateIdentity(a, i, s)
      PROVE  GateHolders'
  BY <1>13 DEF UpdateIdentity
<1>14. ASSUME NEW a \in Admins, NEW i \in Identities, ChangeGrant(a, i)
      PROVE  GateHolders'
  BY <1>14 DEF ChangeGrant
<1>15. ASSUME NEW a \in Admins, NEW i \in Identities, InvalidateIdentity(a, i)
      PROVE  GateHolders'
  BY <1>15 DEF InvalidateIdentity
<1>16. CASE CloseAll
  BY <1>16 DEF CloseAll
<1>17. ASSUME NEW a \in Admins, NEW d \in Devices, LoadDevice(a, d)
      PROVE  GateHolders'
  BY <1>17 DEF LoadDevice
<1>. HIDE DEF TypeOK, GateHolders
<1>. QED
  BY <1>1, <1>2, <1>3, <1>4, <1>5, <1>6, <1>7, <1>8, <1>9, <1>10, <1>11,
     <1>12, <1>13, <1>14, <1>15, <1>16, <1>17
  DEF Next, Quiet, Handler, DeviceChange, Teardown

\* Identifiers are set before they are used.
LEMMA NamedStep ==
  ASSUME TypeOK, Named, [Next]_vars
  PROVE  Named'
<1>. USE SessionsAssumption
     DEF TypeOK, dbVars, regVars, tunVars, whoVars, adminVars, reqVars, Maybe,
         Named, Committed, GateOpen
<1>1. CASE Quiet
  BY <1>1, QuietFrame DEF QuietEffect
<1>2. ASSUME NEW c \in Tunnels, NEW d \in Devices,
             NEW i \in Identities,
             Hello(c, d, i)
      PROVE  Named'
  BY <1>2 DEF Hello
<1>3. ASSUME NEW c \in Tunnels, Verify(c)
      PROVE  Named'
  BY <1>3 DEF Verify
<1>4. ASSUME NEW c \in Tunnels, Register(c)
      PROVE  Named'
  BY <1>4 DEF Register
<1>5. ASSUME NEW c \in Tunnels, Unregister(c)
      PROVE  Named'
  BY <1>5 DEF Unregister
<1>6. ASSUME NEW a \in Admins, LockForChange(a)
      PROVE  Named'
  BY <1>6 DEF LockForChange
<1>7. ASSUME NEW a \in Admins, RevokeDevice(a)
      PROVE  Named'
  BY <1>7 DEF RevokeDevice
<1>8. ASSUME NEW a \in Admins, NEW chosen, UpdateDeviceCapabilities(a, chosen)
      PROVE  Named'
  BY <1>8 DEF UpdateDeviceCapabilities
<1>9. ASSUME NEW a \in Admins, NEW i \in Identities, SetDeviceIdentity(a, i)
      PROVE  Named'
  BY <1>9 DEF SetDeviceIdentity
<1>10. ASSUME NEW a \in Admins, ChangeFails(a)
      PROVE  Named'
  BY <1>10 DEF ChangeFails
<1>11. ASSUME NEW a \in Admins, InvalidateDevice(a)
      PROVE  Named'
  BY <1>11 DEF InvalidateDevice
<1>12. ASSUME NEW a \in Admins, CloseRemoved(a)
      PROVE  Named'
  BY <1>12 DEF CloseRemoved
<1>13. ASSUME NEW a \in Admins, NEW i \in Identities,
             NEW s \in BOOLEAN,
             UpdateIdentity(a, i, s)
      PROVE  Named'
  BY <1>13 DEF UpdateIdentity
<1>14. ASSUME NEW a \in Admins, NEW i \in Identities, ChangeGrant(a, i)
      PROVE  Named'
  BY <1>14 DEF ChangeGrant
<1>15. ASSUME NEW a \in Admins, NEW i \in Identities, InvalidateIdentity(a, i)
      PROVE  Named'
  BY <1>15 DEF InvalidateIdentity
<1>16. CASE CloseAll
  BY <1>16 DEF CloseAll
<1>17. ASSUME NEW a \in Admins, NEW d \in Devices, LoadDevice(a, d)
      PROVE  Named'
  BY <1>17 DEF LoadDevice
<1>. HIDE DEF TypeOK, Named
<1>. QED
  BY <1>1, <1>2, <1>3, <1>4, <1>5, <1>6, <1>7, <1>8, <1>9, <1>10, <1>11,
     <1>12, <1>13, <1>14, <1>15, <1>16, <1>17
  DEF Next, Quiet, Handler, DeviceChange, Teardown

\* Nothing the recheck read changes while the gate is held, but for an
\* identity's status, whose change leaves a sweep behind.
LEMMA RecheckStep ==
  ASSUME TypeOK, GateHolders, Named, RecheckStands, [Next]_vars
  PROVE  RecheckStands'
<1>. USE SessionsAssumption
     DEF TypeOK, dbVars, regVars, tunVars, whoVars, adminVars, reqVars, Maybe,
         RecheckStands, GateHolders, Named, SweepPending, Committed,
         GateOpen, IdentityDeviceAuthorized
<1>1. CASE Quiet
  BY <1>1, QuietFrame DEF QuietEffect
<1>2. ASSUME NEW c \in Tunnels, NEW d \in Devices,
             NEW i \in Identities,
             Hello(c, d, i)
      PROVE  RecheckStands'
  BY <1>2 DEF Hello
<1>3. ASSUME NEW c \in Tunnels, Verify(c)
      PROVE  RecheckStands'
  BY <1>3 DEF Verify
<1>4. ASSUME NEW c \in Tunnels, Register(c)
      PROVE  RecheckStands'
  BY <1>4 DEF Register
<1>5. ASSUME NEW c \in Tunnels, Unregister(c)
      PROVE  RecheckStands'
  BY <1>5 DEF Unregister
<1>6. ASSUME NEW a \in Admins, LockForChange(a)
      PROVE  RecheckStands'
  BY <1>6 DEF LockForChange
<1>7. ASSUME NEW a \in Admins, RevokeDevice(a)
      PROVE  RecheckStands'
  BY <1>7 DEF RevokeDevice
<1>8. ASSUME NEW a \in Admins, NEW chosen, UpdateDeviceCapabilities(a, chosen)
      PROVE  RecheckStands'
  BY <1>8 DEF UpdateDeviceCapabilities
<1>9. ASSUME NEW a \in Admins, NEW i \in Identities, SetDeviceIdentity(a, i)
      PROVE  RecheckStands'
  BY <1>9 DEF SetDeviceIdentity
<1>10. ASSUME NEW a \in Admins, ChangeFails(a)
      PROVE  RecheckStands'
  BY <1>10 DEF ChangeFails
<1>11. ASSUME NEW a \in Admins, InvalidateDevice(a)
      PROVE  RecheckStands'
  BY <1>11 DEF InvalidateDevice
<1>12. ASSUME NEW a \in Admins, CloseRemoved(a)
      PROVE  RecheckStands'
  BY <1>12 DEF CloseRemoved
<1>13. ASSUME NEW a \in Admins, NEW i \in Identities,
             NEW s \in BOOLEAN,
             UpdateIdentity(a, i, s)
      PROVE  RecheckStands'
  BY <1>13 DEF UpdateIdentity
<1>14. ASSUME NEW a \in Admins, NEW i \in Identities, ChangeGrant(a, i)
      PROVE  RecheckStands'
  BY <1>14 DEF ChangeGrant
<1>15. ASSUME NEW a \in Admins, NEW i \in Identities, InvalidateIdentity(a, i)
      PROVE  RecheckStands'
  BY <1>15 DEF InvalidateIdentity
<1>16. CASE CloseAll
  BY <1>16 DEF CloseAll
<1>17. ASSUME NEW a \in Admins, NEW d \in Devices, LoadDevice(a, d)
      PROVE  RecheckStands'
  BY <1>17 DEF LoadDevice
<1>. HIDE DEF TypeOK, RecheckStands
<1>. QED
  BY <1>1, <1>2, <1>3, <1>4, <1>5, <1>6, <1>7, <1>8, <1>9, <1>10, <1>11,
     <1>12, <1>13, <1>14, <1>15, <1>16, <1>17
  DEF Next, Quiet, Handler, DeviceChange, Teardown

\* The registry follows registration, displacement and removal.
LEMMA KnowsStep ==
  ASSUME TypeOK, Named, RegistryKnows, [Next]_vars
  PROVE  RegistryKnows'
<1>. USE SessionsAssumption
     DEF TypeOK, dbVars, regVars, tunVars, whoVars, adminVars, reqVars, Maybe,
         RegistryKnows, Named, Committed, GateOpen, RemoveLocked,
         RemovedByItself
<1>1. CASE Quiet
  BY <1>1, QuietFrame DEF QuietEffect
<1>2. ASSUME NEW c \in Tunnels, NEW d \in Devices,
             NEW i \in Identities,
             Hello(c, d, i)
      PROVE  RegistryKnows'
  BY <1>2 DEF Hello
<1>3. ASSUME NEW c \in Tunnels, Verify(c)
      PROVE  RegistryKnows'
  BY <1>3 DEF Verify
<1>4. ASSUME NEW c \in Tunnels, Register(c)
      PROVE  RegistryKnows'
  BY <1>4 DEF Register
<1>5. ASSUME NEW c \in Tunnels, Unregister(c)
      PROVE  RegistryKnows'
  BY <1>5 DEF Unregister
<1>6. ASSUME NEW a \in Admins, LockForChange(a)
      PROVE  RegistryKnows'
  BY <1>6 DEF LockForChange
<1>7. ASSUME NEW a \in Admins, RevokeDevice(a)
      PROVE  RegistryKnows'
  BY <1>7 DEF RevokeDevice
<1>8. ASSUME NEW a \in Admins, NEW chosen, UpdateDeviceCapabilities(a, chosen)
      PROVE  RegistryKnows'
  BY <1>8 DEF UpdateDeviceCapabilities
<1>9. ASSUME NEW a \in Admins, NEW i \in Identities, SetDeviceIdentity(a, i)
      PROVE  RegistryKnows'
  BY <1>9 DEF SetDeviceIdentity
<1>10. ASSUME NEW a \in Admins, ChangeFails(a)
      PROVE  RegistryKnows'
  BY <1>10 DEF ChangeFails
<1>11. ASSUME NEW a \in Admins, InvalidateDevice(a)
      PROVE  RegistryKnows'
  BY <1>11 DEF InvalidateDevice
<1>12. ASSUME NEW a \in Admins, CloseRemoved(a)
      PROVE  RegistryKnows'
  BY <1>12 DEF CloseRemoved
<1>13. ASSUME NEW a \in Admins, NEW i \in Identities,
             NEW s \in BOOLEAN,
             UpdateIdentity(a, i, s)
      PROVE  RegistryKnows'
  BY <1>13 DEF UpdateIdentity
<1>14. ASSUME NEW a \in Admins, NEW i \in Identities, ChangeGrant(a, i)
      PROVE  RegistryKnows'
  BY <1>14 DEF ChangeGrant
<1>15. ASSUME NEW a \in Admins, NEW i \in Identities, InvalidateIdentity(a, i)
      PROVE  RegistryKnows'
  BY <1>15 DEF InvalidateIdentity
<1>16. CASE CloseAll
  BY <1>16 DEF CloseAll
<1>17. ASSUME NEW a \in Admins, NEW d \in Devices, LoadDevice(a, d)
      PROVE  RegistryKnows'
  BY <1>17 DEF LoadDevice
<1>. HIDE DEF TypeOK, RegistryKnows
<1>. QED
  BY <1>1, <1>2, <1>3, <1>4, <1>5, <1>6, <1>7, <1>8, <1>9, <1>10, <1>11,
     <1>12, <1>13, <1>14, <1>15, <1>16, <1>17
  DEF Next, Quiet, Handler, DeviceChange, Teardown

\* A change and a registration exclude each other.
LEMMA ApprovedStep ==
  ASSUME TypeOK, GateHolders, Named, RecheckStands, RegistryKnows, RegisteredIsApproved, [Next]_vars
  PROVE  RegisteredIsApproved'
<1>. USE SessionsAssumption
     DEF TypeOK, dbVars, regVars, tunVars, whoVars, adminVars, reqVars, Maybe,
         RegisteredIsApproved, RegistryKnows, RecheckStands, GateHolders,
         Named, ChangePending, Committed, GateOpen, RemoveLocked
<1>1. CASE Quiet
  BY <1>1, QuietFrame DEF QuietEffect
<1>2. ASSUME NEW c \in Tunnels, NEW d \in Devices,
             NEW i \in Identities,
             Hello(c, d, i)
      PROVE  RegisteredIsApproved'
  <2>1. UNCHANGED <<approved, boundTo, sessions, step, target>>
    BY <1>2 DEF Hello
  <2>2. ASSUME NEW e \in Devices, sessions[e] # Nobody
        PROVE  /\ dev'[sessions[e]] = dev[sessions[e]]
               /\ ident'[sessions[e]] = ident[sessions[e]]
    <3>1. sessions[e] \in Tunnels /\ sessions[e] # c
      BY <1>2, <2>2, RegisteredTunnel DEF Hello
    <3>2. /\ dev' = [dev EXCEPT ![c] = d] /\ ident' = [ident EXCEPT ![c] = i]
          /\ DOMAIN dev = Tunnels /\ DOMAIN ident = Tunnels
      BY <1>2 DEF Hello
    <3>. HIDE DEF TypeOK, RegisteredIsApproved, RegistryKnows, RecheckStands,
                  GateHolders, Named
    <3>. QED  BY <3>1, <3>2
  <2>. QED  BY <2>1, <2>2
<1>3. ASSUME NEW c \in Tunnels, Verify(c)
      PROVE  RegisteredIsApproved'
  BY <1>3 DEF Verify
<1>4. ASSUME NEW c \in Tunnels, Register(c)
      PROVE  RegisteredIsApproved'
  BY <1>4 DEF Register
<1>5. ASSUME NEW c \in Tunnels, Unregister(c)
      PROVE  RegisteredIsApproved'
  BY <1>5 DEF Unregister
<1>6. ASSUME NEW a \in Admins, LockForChange(a)
      PROVE  RegisteredIsApproved'
  BY <1>6 DEF LockForChange
<1>7. ASSUME NEW a \in Admins, RevokeDevice(a)
      PROVE  RegisteredIsApproved'
  BY <1>7 DEF RevokeDevice
<1>8. ASSUME NEW a \in Admins, NEW chosen, UpdateDeviceCapabilities(a, chosen)
      PROVE  RegisteredIsApproved'
  BY <1>8 DEF UpdateDeviceCapabilities
<1>9. ASSUME NEW a \in Admins, NEW i \in Identities, SetDeviceIdentity(a, i)
      PROVE  RegisteredIsApproved'
  BY <1>9 DEF SetDeviceIdentity
<1>10. ASSUME NEW a \in Admins, ChangeFails(a)
      PROVE  RegisteredIsApproved'
  BY <1>10 DEF ChangeFails
<1>11. ASSUME NEW a \in Admins, InvalidateDevice(a)
      PROVE  RegisteredIsApproved'
  BY <1>11 DEF InvalidateDevice
<1>12. ASSUME NEW a \in Admins, CloseRemoved(a)
      PROVE  RegisteredIsApproved'
  BY <1>12 DEF CloseRemoved
<1>13. ASSUME NEW a \in Admins, NEW i \in Identities,
             NEW s \in BOOLEAN,
             UpdateIdentity(a, i, s)
      PROVE  RegisteredIsApproved'
  BY <1>13 DEF UpdateIdentity
<1>14. ASSUME NEW a \in Admins, NEW i \in Identities, ChangeGrant(a, i)
      PROVE  RegisteredIsApproved'
  BY <1>14 DEF ChangeGrant
<1>15. ASSUME NEW a \in Admins, NEW i \in Identities, InvalidateIdentity(a, i)
      PROVE  RegisteredIsApproved'
  BY <1>15 DEF InvalidateIdentity
<1>16. CASE CloseAll
  BY <1>16 DEF CloseAll
<1>17. ASSUME NEW a \in Admins, NEW d \in Devices, LoadDevice(a, d)
      PROVE  RegisteredIsApproved'
  BY <1>17 DEF LoadDevice
<1>. HIDE DEF TypeOK, RegisteredIsApproved
<1>. QED
  BY <1>1, <1>2, <1>3, <1>4, <1>5, <1>6, <1>7, <1>8, <1>9, <1>10, <1>11,
     <1>12, <1>13, <1>14, <1>15, <1>16, <1>17
  DEF Next, Quiet, Handler, DeviceChange, Teardown

\* A status change leaves a sweep behind, and a sweep removes every session.
LEMMA SweptStep ==
  ASSUME TypeOK, GateHolders, Named, RecheckStands, RegistryKnows, DisabledIsBeingSwept, [Next]_vars
  PROVE  DisabledIsBeingSwept'
<1>. USE SessionsAssumption
     DEF TypeOK, dbVars, regVars, tunVars, whoVars, adminVars, reqVars, Maybe,
         DisabledIsBeingSwept, RegistryKnows, RecheckStands, GateHolders,
         Named, SweepPending, Committed, GateOpen, RemoveLocked, DevicesOf
<1>1. CASE Quiet
  <2>1. UNCHANGED <<active, sessions, ident, sweep>>
    BY <1>1, QuietFrame DEF QuietEffect
  <2>. QED  BY <2>1
<1>2. ASSUME NEW c \in Tunnels, NEW d \in Devices,
             NEW i \in Identities,
             Hello(c, d, i)
      PROVE  DisabledIsBeingSwept'
  BY <1>2 DEF Hello
<1>3. ASSUME NEW c \in Tunnels, Verify(c)
      PROVE  DisabledIsBeingSwept'
  BY <1>3 DEF Verify
<1>4. ASSUME NEW c \in Tunnels, Register(c)
      PROVE  DisabledIsBeingSwept'
  <2>1. UNCHANGED <<active, ident, sweep>>
    BY <1>4 DEF Register
  <2>2. \A e \in Devices : sessions'[e] \in {sessions[e], c}
    BY <1>4 DEF Register
  <2>3. active[ident[c]] \/ SweepPending(ident[c])
    BY <1>4 DEF Register
  <2>. QED  BY <2>1, <2>2, <2>3
<1>5. ASSUME NEW c \in Tunnels, Unregister(c)
      PROVE  DisabledIsBeingSwept'
  <2>1. UNCHANGED <<active, ident, sweep>>
    BY <1>5 DEF Unregister
  <2>2. \A e \in Devices : sessions'[e] \in {sessions[e], Nobody}
    BY <1>5 DEF Unregister
  <2>3. ASSUME NEW j, SweepPending(j)  PROVE SweepPending(j)'
    BY <2>1, <2>3
  <2>. HIDE DEF SweepPending
  <2>. QED  BY <2>1, <2>2, <2>3
<1>6. ASSUME NEW a \in Admins, LockForChange(a)
      PROVE  DisabledIsBeingSwept'
  <2>1. UNCHANGED <<active, sessions, ident, sweep>>
    BY <1>6 DEF LockForChange
  <2>. QED  BY <2>1
<1>7. ASSUME NEW a \in Admins, RevokeDevice(a)
      PROVE  DisabledIsBeingSwept'
  <2>1. UNCHANGED <<active, sessions, ident>>
    BY <1>7 DEF RevokeDevice
  <2>2. sweep[a] = {} /\ \A b \in Admins : b # a => sweep'[b] = sweep[b]
    BY <1>7 DEF RevokeDevice
  <2>3. ASSUME NEW j, SweepPending(j)  PROVE SweepPending(j)'
    BY <2>2, <2>3
  <2>. HIDE DEF SweepPending
  <2>. QED  BY <2>1, <2>3
<1>8. ASSUME NEW a \in Admins, NEW chosen, UpdateDeviceCapabilities(a, chosen)
      PROVE  DisabledIsBeingSwept'
  <2>1. ASSUME NEW j, SweepPending(j)  PROVE SweepPending(j)'
    BY <1>8, <2>1 DEF UpdateDeviceCapabilities
  <2>. QED  BY <1>8, <2>1 DEF UpdateDeviceCapabilities
<1>9. ASSUME NEW a \in Admins, NEW i \in Identities, SetDeviceIdentity(a, i)
      PROVE  DisabledIsBeingSwept'
  <2>1. UNCHANGED <<active, sessions, ident>>
    BY <1>9 DEF SetDeviceIdentity
  <2>2. sweep[a] = {} /\ \A b \in Admins : b # a => sweep'[b] = sweep[b]
    BY <1>9 DEF SetDeviceIdentity
  <2>3. ASSUME NEW j, SweepPending(j)  PROVE SweepPending(j)'
    BY <2>2, <2>3
  <2>. HIDE DEF SweepPending
  <2>. QED  BY <2>1, <2>3
<1>10. ASSUME NEW a \in Admins, ChangeFails(a)
      PROVE  DisabledIsBeingSwept'
  BY <1>10 DEF ChangeFails
<1>11. ASSUME NEW a \in Admins, InvalidateDevice(a)
      PROVE  DisabledIsBeingSwept'
  BY <1>11 DEF InvalidateDevice
<1>12. ASSUME NEW a \in Admins, CloseRemoved(a)
      PROVE  DisabledIsBeingSwept'
  BY <1>12 DEF CloseRemoved
<1>13. ASSUME NEW a \in Admins, NEW i \in Identities,
             NEW s \in BOOLEAN,
             UpdateIdentity(a, i, s)
      PROVE  DisabledIsBeingSwept'
  <2>1. ASSUME NEW j, SweepPending(j)  PROVE SweepPending(j)'
    BY <1>13, <2>1 DEF UpdateIdentity
  <2>2. SweepPending(i)'
    BY <1>13 DEF UpdateIdentity
  <2>3. \A j \in Identities : j # i => active'[j] = active[j]
    BY <1>13 DEF UpdateIdentity
  <2>4. UNCHANGED <<sessions, ident>>
    BY <1>13 DEF UpdateIdentity
  <2>5. ASSUME NEW j \in Identities, active[j] \/ SweepPending(j)
        PROVE  (active[j] \/ SweepPending(j))'
    <3>1. CASE j = i
      BY <3>1, <2>2
    <3>2. CASE j # i
      <4>. HIDE DEF SweepPending
      <4>. QED  BY <3>2, <2>1, <2>3, <2>5
    <3>. QED  BY <3>1, <3>2
  <2>6. \A e \in Devices : sessions[e] # Nobody =>
          ident[sessions[e]] \in Identities
    BY RegisteredTunnel
  <2>. HIDE DEF SweepPending
  <2>. QED  BY <2>4, <2>5, <2>6
<1>14. ASSUME NEW a \in Admins, NEW i \in Identities, ChangeGrant(a, i)
      PROVE  DisabledIsBeingSwept'
  <2>1. UNCHANGED <<active, sessions, ident>>
    BY <1>14 DEF ChangeGrant
  <2>2. sweep[a] = {} /\ \A b \in Admins : b # a => sweep'[b] = sweep[b]
    BY <1>14 DEF ChangeGrant
  <2>3. ASSUME NEW j, SweepPending(j)  PROVE SweepPending(j)'
    BY <2>2, <2>3
  <2>. HIDE DEF SweepPending
  <2>. QED  BY <2>1, <2>3
<1>15. ASSUME NEW a \in Admins, NEW i \in Identities, InvalidateIdentity(a, i)
      PROVE  DisabledIsBeingSwept'
  <2>1. UNCHANGED <<active, ident>>
    BY <1>15 DEF InvalidateIdentity
  <2>2. \A e \in Devices : \/ sessions'[e] = Nobody
                            \/ /\ sessions'[e] = sessions[e]
                               /\ ident[sessions[e]] # i
    BY <1>15 DEF InvalidateIdentity
  <2>3. ASSUME NEW j, j # i, SweepPending(j)  PROVE SweepPending(j)'
    BY <1>15, <2>3 DEF InvalidateIdentity
  <2>. HIDE DEF SweepPending
  <2>. QED  BY <2>1, <2>2, <2>3
<1>16. CASE CloseAll
  <2>1. UNCHANGED <<active, ident, sweep>>
    BY <1>16 DEF CloseAll
  <2>2. \A e \in Devices : sessions'[e] \in {sessions[e], Nobody}
    BY <1>16 DEF CloseAll
  <2>3. ASSUME NEW j, SweepPending(j)  PROVE SweepPending(j)'
    BY <2>1, <2>3
  <2>. HIDE DEF SweepPending
  <2>. QED  BY <2>1, <2>2, <2>3
<1>17. ASSUME NEW a \in Admins, NEW d \in Devices, LoadDevice(a, d)
      PROVE  DisabledIsBeingSwept'
  <2>1. UNCHANGED <<active, sessions, ident, sweep>>
    BY <1>17 DEF LoadDevice
  <2>. QED  BY <2>1
<1>. HIDE DEF TypeOK, DisabledIsBeingSwept
<1>. QED
  BY <1>1, <1>2, <1>3, <1>4, <1>5, <1>6, <1>7, <1>8, <1>9, <1>10, <1>11,
     <1>12, <1>13, <1>14, <1>15, <1>16, <1>17
  DEF Next, Quiet, Handler, DeviceChange, Teardown

-----------------------------------------------------------------------------
(* The invariant and the safety theorems                                    *)

\* The initial state satisfies the invariant: nothing is registered yet.
LEMMA InitInv ==
  ASSUME Init
  PROVE  IInv
<1>1. TypeOK
  BY SessionsAssumption DEF Init, TypeOK, Maybe
<1>2. GateHolders /\ Named /\ RecheckStands
  BY SessionsAssumption DEF Init, GateHolders, Named, RecheckStands
<1>3. RegistryKnows /\ RegisteredIsApproved /\ DisabledIsBeingSwept
  BY DEF Init, RegistryKnows, RegisteredIsApproved, DisabledIsBeingSwept
<1>. QED  BY <1>1, <1>2, <1>3 DEF IInv

\* Every step keeps the invariant.
LEMMA InvStep ==
  ASSUME IInv, [Next]_vars
  PROVE  IInv'
BY TypeStep, GateStep, NamedStep, RecheckStep, KnowsStep, ApprovedStep,
   SweptStep DEF IInv

\* The invariant holds in every reachable state.
THEOREM Invariant == Spec => []IInv
BY InitInv, InvStep, PTL DEF Spec

\* Every variable of the session registry, of the handshakes and of the
\* administrator requests stays in its range.
THEOREM TypeCorrect == Spec => []TypeOK
<1>1. IInv => TypeOK
  BY DEF IInv
<1>. QED  BY <1>1, Invariant, PTL

\* No interleaving of handshakes, reconnections, revocations and moves leaves
\* a session registered for a device whose approval or binding has changed.
THEOREM RegistrationRespectsApproval == Spec => []RegisteredIsApproved
<1>1. IInv => RegisteredIsApproved
  BY DEF IInv
<1>. QED  BY <1>1, Invariant, PTL

\* A handshake that rechecked before an identity was disabled is caught by
\* the sweep that the disabling request still has to make.
THEOREM DisabledIdentityIsSwept == Spec => []DisabledIsBeingSwept
<1>1. IInv => DisabledIsBeingSwept
  BY DEF IInv
<1>. QED  BY <1>1, Invariant, PTL

-----------------------------------------------------------------------------
(* The exit indexes                                                         *)

\* What neither touches the registry nor what a registered session is.
LEMMA IndexFrame ==
  ASSUME IndexesAgree, UNCHANGED regVars,
         \A d \in Devices : sessions[d] # Nobody =>
           /\ caps'[sessions[d]] = caps[sessions[d]]
           /\ ident'[sessions[d]] = ident[sessions[d]]
  PROVE  IndexesAgree'
<1>. USE DEF regVars
<1>1. \A d \in Devices :
        exits[d] = IF sessions[d] # Nobody /\ (IsExit(sessions[d]))'
                   THEN sessions[d] ELSE Nobody
  BY DEF IndexesAgree, IsExit
<1>2. \A i \in Identities, d \in Devices :
        exitsByIdentity[i][d] =
          IF exits[d] # Nobody /\ ident'[exits[d]] = i THEN exits[d] ELSE Nobody
  BY DEF IndexesAgree
<1>. QED  BY <1>1, <1>2 DEF IndexesAgree, IsExit

\* The sessions that leave do so from the devices they are registered for.
LEMMA Leavers ==
  ASSUME RegistryKnows, NEW ds \in SUBSET Devices, NEW d \in Devices
  PROVE  /\ (\E c \in Registered(ds) : dev[c] = d) <=>
              d \in ds /\ sessions[d] # Nobody
         /\ \A i : (\E c \in Registered(ds) : dev[c] = d /\ ident[c] = i) <=>
              d \in ds /\ sessions[d] # Nobody /\ ident[sessions[d]] = i
BY DEF Registered, RegistryKnows

\* Removal takes a session out of both indexes.
LEMMA IndexRemove ==
  ASSUME RegistryKnows, IndexesAgree, NEW ds \in SUBSET Devices,
         RemoveLocked(ds), UNCHANGED <<ident, caps>>
  PROVE  IndexesAgree'
<1>1. /\ exits' = [d \in Devices |->
           IF \E c \in Registered(ds) : dev[c] = d THEN Nobody ELSE exits[d]]
      /\ exitsByIdentity' = [i \in Identities |-> [d \in Devices |->
           IF \E c \in Registered(ds) : dev[c] = d /\ ident[c] = i
           THEN Nobody ELSE exitsByIdentity[i][d]]]
      /\ sessions' = [d \in Devices |-> IF d \in ds THEN Nobody ELSE sessions[d]]
  BY DEF RemoveLocked, Reindexed
<1>2. ASSUME NEW d \in Devices
      PROVE  exits'[d] = IF sessions'[d] # Nobody /\ IsExit(sessions'[d])
                         THEN sessions'[d] ELSE Nobody
  BY <1>1, Leavers DEF IndexesAgree
<1>3. ASSUME NEW i \in Identities, NEW d \in Devices
      PROVE  exitsByIdentity'[i][d] =
               IF exits'[d] # Nobody /\ ident[exits'[d]] = i
               THEN exits'[d] ELSE Nobody
  <2>0. (\E c \in Registered(ds) : dev[c] = d /\ ident[c] = i) <=>
          d \in ds /\ sessions[d] # Nobody /\ ident[sessions[d]] = i
    BY Leavers
  <2>1. exitsByIdentity'[i][d] =
          IF d \in ds /\ sessions[d] # Nobody /\ ident[sessions[d]] = i
          THEN Nobody ELSE exitsByIdentity[i][d]
    BY <1>1, <2>0
  <2>2. exits'[d] = IF d \in ds /\ sessions[d] # Nobody THEN Nobody ELSE exits[d]
    BY <1>1, Leavers
  <2>3. /\ exitsByIdentity[i][d] = IF exits[d] # Nobody /\ ident[exits[d]] = i
                                  THEN exits[d] ELSE Nobody
        /\ exits[d] = IF sessions[d] # Nobody /\ IsExit(sessions[d])
                      THEN sessions[d] ELSE Nobody
    BY DEF IndexesAgree
  <2>. QED  BY <2>1, <2>2, <2>3
<1>. QED  BY <1>2, <1>3 DEF IndexesAgree, IsExit

\* Registration replaces a session in both indexes.
LEMMA IndexRegister ==
  ASSUME TypeOK, Named, RegistryKnows, IndexesAgree, NEW c \in Tunnels, Register(c)
  PROVE  IndexesAgree'
<1>. DEFINE d0 == dev[c]
            gone == Registered({d0})
<1>0. /\ c # Nobody
      /\ d0 \in Devices
      /\ UNCHANGED <<dev, ident, caps>>
      /\ sessions' = [sessions EXCEPT ![d0] = c]
      /\ sessions \in [Devices -> Maybe(Tunnels)]
  BY SessionsAssumption DEF Register, Named, whoVars, TypeOK
<1>1. /\ exits' = [d \in Devices |->
           IF d0 = d /\ IsExit(c) THEN c
           ELSE IF \E t \in gone : dev[t] = d THEN Nobody ELSE exits[d]]
      /\ exitsByIdentity' = [i \in Identities |-> [d \in Devices |->
           IF d0 = d /\ IsExit(c) /\ ident[c] = i THEN c
           ELSE IF \E t \in gone : dev[t] = d /\ ident[t] = i
           THEN Nobody ELSE exitsByIdentity[i][d]]]
  BY <1>0 DEF Register, Reindexed
<1>2. ASSUME NEW d \in Devices
      PROVE  exits'[d] = IF sessions'[d] # Nobody /\ IsExit(sessions'[d])
                         THEN sessions'[d] ELSE Nobody
  <2>1. (\E t \in gone : dev[t] = d) <=> d = d0 /\ sessions[d] # Nobody
    BY <1>0, Leavers
  <2>. HIDE DEF gone, d0
  <2>. QED  BY <1>0, <1>1, <2>1 DEF IndexesAgree
<1>3. ASSUME NEW i \in Identities, NEW d \in Devices
      PROVE  exitsByIdentity'[i][d] =
               IF exits'[d] # Nobody /\ ident[exits'[d]] = i
               THEN exits'[d] ELSE Nobody
  <2>1. (\E t \in gone : dev[t] = d /\ ident[t] = i) <=>
          d = d0 /\ sessions[d] # Nobody /\ ident[sessions[d]] = i
    BY <1>0, Leavers
  <2>2. (\E t \in gone : dev[t] = d) <=> d = d0 /\ sessions[d] # Nobody
    BY <1>0, Leavers
  <2>. HIDE DEF gone, d0
  <2>. QED  BY <1>0, <1>1, <2>1, <2>2 DEF IndexesAgree
<1>. QED  BY <1>0, <1>2, <1>3 DEF IndexesAgree, IsExit

\* Every step keeps the indexes.
LEMMA IndexStep ==
  ASSUME TypeOK, Named, RegistryKnows, IndexesAgree, [Next]_vars
  PROVE  IndexesAgree'
<1>. USE DEF dbVars, tunVars, whoVars, adminVars, reqVars, regVars
<1>0. ASSUME UNCHANGED <<sessions, exits, exitsByIdentity, ident, caps>>
      PROVE  IndexesAgree'
  BY <1>0, IndexFrame
<1>1. ASSUME NEW c \in Tunnels, NEW d \in Devices, NEW i \in Identities,
             Hello(c, d, i)
      PROVE  IndexesAgree'
  <2>1. \A e \in Devices : sessions[e] # Nobody => sessions[e] # c
    BY <1>1 DEF Hello, RegistryKnows
  <2>2. \A e \in Devices : sessions[e] # Nobody =>
          ident'[sessions[e]] = ident[sessions[e]]
    BY <1>1, <2>1 DEF Hello, TypeOK, Maybe
  <2>. QED  BY <1>1, <2>2, IndexFrame DEF Hello
<1>2. ASSUME NEW c \in Tunnels, Authorize(c)
      PROVE  IndexesAgree'
  <2>1. \A e \in Devices : sessions[e] # Nobody => sessions[e] # c
    BY <1>2 DEF Authorize, RegistryKnows
  <2>2. \A e \in Devices : sessions[e] # Nobody =>
          caps'[sessions[e]] = caps[sessions[e]]
    BY <1>2, <2>1 DEF Authorize, TypeOK, Maybe
  <2>. QED  BY <1>2, <2>2, IndexFrame DEF Authorize
<1>3. ASSUME NEW c \in Tunnels, Register(c)
      PROVE  IndexesAgree'
  BY <1>3, IndexRegister
<1>4. ASSUME NEW c \in Tunnels, Unregister(c)
      PROVE  IndexesAgree'
  <2>1. RemovedByItself(c) \in SUBSET Devices
    BY DEF RemovedByItself
  <2>. QED  BY <1>4, <2>1, IndexRemove DEF Unregister
<1>5. ASSUME NEW a \in Admins, InvalidateDevice(a)
      PROVE  IndexesAgree'
  <2>1. target[a] \in Devices
    BY <1>5 DEF InvalidateDevice, Named
  <2>. QED  BY <1>5, <2>1, IndexRemove DEF InvalidateDevice
<1>6. ASSUME NEW a \in Admins, NEW i \in Identities, InvalidateIdentity(a, i)
      PROVE  IndexesAgree'
  <2>1. DevicesOf(i) \in SUBSET Devices
    BY DEF DevicesOf
  <2>. QED  BY <1>6, <2>1, IndexRemove DEF InvalidateIdentity
<1>7. CASE CloseAll
  BY <1>7, IndexRemove DEF CloseAll
<1>8. CASE BeginClose \/ CloseTransports \/ UNCHANGED vars
  BY <1>8, <1>0 DEF BeginClose, CloseTransports, vars
<1>9. ASSUME NEW c \in Tunnels,
             \/ Refuse(c) \/ Verify(c) \/ Rejected(c) \/ CloseDisplaced(c)
             \/ Welcome(c) \/ HeartbeatRefused(c) \/ Break(c)
      PROVE  IndexesAgree'
  BY <1>9, <1>0 DEF Refuse, Verify, Rejected, CloseDisplaced, Welcome,
                    HeartbeatRefused, Break
<1>10. ASSUME NEW a \in Admins,
              \/ \E d \in Devices : LoadDevice(a, d)
              \/ LockForChange(a) \/ CloseRemoved(a)
              \/ \E i \in Identities :
                   ChangeGrant(a, i) \/ \E s \in BOOLEAN : UpdateIdentity(a, i, s)
       PROVE  IndexesAgree'
  BY <1>10, <1>0 DEF LoadDevice, LockForChange, CloseRemoved, ChangeGrant,
                     UpdateIdentity
<1>11. ASSUME NEW a \in Admins, DeviceChange(a)
       PROVE  IndexesAgree'
  BY <1>11, <1>0 DEF DeviceChange, RevokeDevice, ChangeFails,
                     UpdateDeviceCapabilities, SetDeviceIdentity, Committed
<1>. QED
  BY <1>1, <1>2, <1>3, <1>4, <1>5, <1>6, <1>7, <1>8, <1>9, <1>10, <1>11
  DEF Next, Handler, Teardown

\* exits and exitsByIdentity hold exactly the registered exit sessions, for
\* any order of registration, displacement, removal and closing.
THEOREM ExitIndexesAgree == Spec => []IndexesAgree
<1>1. Init => IndexesAgree
  BY DEF Init, IndexesAgree
<1>2. IInv /\ IndexesAgree /\ [Next]_vars => IndexesAgree'
  BY IndexStep DEF IInv
<1>. QED  BY <1>1, <1>2, Invariant, PTL DEF Spec

-----------------------------------------------------------------------------
(* Transports of sessions that left the registry, and the end of the        *)
(* Gateway: what a goroutine still has to close, it remembers.              *)

\* A handler knows the displaced tunnel, and a request the removed ones, only
\* until they have been closed.
DebtsArePaid ==
  /\ \A c \in Tunnels : oldTunnel[c] # Nobody => pc[c] = "registered"
  /\ \A a \in Admins : toClose[a] # {} => step[a] = "closing"

\* Gateway.mu spans a registration, so that none is under way once the closed
\* flag is set, and nothing comes alive any more.
ClosedForGood ==
  /\ \A c \in Tunnels : pc[c] \in {"verified", "registered"} => gwMu = c
  /\ closing # "running" => gwMu = Nobody
  /\ closing \in {"closeall", "stopped"} => \A c \in Tunnels : ~alive[c]
  /\ closing = "stopped" => \A d \in Devices : sessions[d] = Nobody

\* Every step keeps what is still to be closed.
LEMMA DebtsStep ==
  ASSUME TypeOK, DebtsArePaid, [Next]_vars
  PROVE  DebtsArePaid'
<1>. USE SessionsAssumption
     DEF TypeOK, DebtsArePaid, dbVars, regVars, tunVars, whoVars, adminVars,
         reqVars
<1>1. ASSUME NEW c \in Tunnels, NEW d \in Devices, NEW i \in Identities,
             Hello(c, d, i)
      PROVE  DebtsArePaid'
  BY <1>1 DEF Hello
<1>2. ASSUME NEW c \in Tunnels,
             \/ Authorize(c) \/ Refuse(c) \/ Verify(c) \/ Rejected(c)
             \/ Welcome(c)
      PROVE  DebtsArePaid'
  BY <1>2 DEF Authorize, Refuse, Verify, GateOpen, Rejected, Welcome
<1>3. ASSUME NEW c \in Tunnels,
             Register(c) \/ CloseDisplaced(c) \/ Unregister(c)
      PROVE  DebtsArePaid'
  <2>1. UNCHANGED <<step, toClose>>
    BY <1>3 DEF Register, CloseDisplaced, Unregister
  <2>2. CASE Register(c)
    BY <2>1, <2>2 DEF Register
  <2>3. CASE CloseDisplaced(c)
    BY <2>1, <2>3 DEF CloseDisplaced
  <2>4. CASE Unregister(c)
    BY <2>1, <2>4 DEF Unregister
  <2>. QED  BY <1>3, <2>2, <2>3, <2>4
<1>4. ASSUME NEW c \in Tunnels, HeartbeatRefused(c) \/ Break(c)
      PROVE  DebtsArePaid'
  BY <1>4 DEF HeartbeatRefused, Break
<1>5. ASSUME NEW a \in Admins, NEW d \in Devices, LoadDevice(a, d)
      PROVE  DebtsArePaid'
  BY <1>5 DEF LoadDevice
<1>6. ASSUME NEW a \in Admins, LockForChange(a)
      PROVE  DebtsArePaid'
  BY <1>6 DEF LockForChange
<1>7. ASSUME NEW a \in Admins, NEW i \in Identities,
             ChangeGrant(a, i) \/ \E s \in BOOLEAN : UpdateIdentity(a, i, s)
      PROVE  DebtsArePaid'
  BY <1>7 DEF ChangeGrant, UpdateIdentity
<1>8. ASSUME NEW a \in Admins, DeviceChange(a)
      PROVE  DebtsArePaid'
  BY <1>8 DEF DeviceChange, RevokeDevice, ChangeFails,
              UpdateDeviceCapabilities, SetDeviceIdentity, Committed
<1>9. ASSUME NEW a \in Admins, InvalidateDevice(a)
      PROVE  DebtsArePaid'
  BY <1>9 DEF InvalidateDevice
<1>10. ASSUME NEW a \in Admins, CloseRemoved(a)
       PROVE  DebtsArePaid'
  <2>1. UNCHANGED <<pc, oldTunnel>>
    BY <1>10 DEF CloseRemoved
  <2>2. ASSUME NEW c \in toClose[a],
               toClose' = [toClose EXCEPT ![a] = @ \ {c}], UNCHANGED step
        PROVE  DebtsArePaid'
    BY <1>10, <2>1, <2>2 DEF CloseRemoved
  <2>3. CASE /\ toClose[a] = {}
             /\ step' = [step EXCEPT ![a] =
                            IF sweep[a] = {} THEN "idle" ELSE "sweeping"]
             /\ UNCHANGED toClose
    BY <2>1, <2>3
  <2>. QED  BY <1>10, <2>2, <2>3 DEF CloseRemoved
<1>11. ASSUME NEW a \in Admins, NEW i \in Identities, InvalidateIdentity(a, i)
       PROVE  DebtsArePaid'
  BY <1>11 DEF InvalidateIdentity
<1>12. CASE BeginClose \/ CloseTransports \/ CloseAll
  BY <1>12 DEF BeginClose, CloseTransports, CloseAll
<1>13. CASE UNCHANGED vars
  BY <1>13 DEF vars
<1>. HIDE DEF TypeOK, DebtsArePaid
<1>. QED
  BY <1>1, <1>2, <1>3, <1>4, <1>5, <1>6, <1>7, <1>8, <1>9, <1>10, <1>11,
     <1>12, <1>13
  DEF Next, Handler, Teardown

\* A step that takes no gate, opens no transport and registers nobody keeps a
\* closed Gateway closed.
LEMMA StaysClosed ==
  ASSUME ClosedForGood, UNCHANGED <<gwMu, closing>>,
         \A c \in Tunnels :
           pc'[c] \in {"verified", "registered"} =>
             pc[c] \in {"verified", "registered"},
         \A c \in Tunnels : alive'[c] => alive[c] \/ closing = "running",
         closing = "stopped" => \A d \in Devices : sessions'[d] = Nobody
  PROVE  ClosedForGood'
BY DEF ClosedForGood

\* A tunnel leaves the handshake by a step of its own.
LEMMA StepTo ==
  ASSUME TypeOK, NEW c \in Tunnels,
         NEW p \in {"challenged", "authorized", "welcoming", "serving", "done"},
         pc' = [pc EXCEPT ![c] = p]
  PROVE  \A x \in Tunnels :
           pc'[x] \in {"verified", "registered"} =>
             x # c /\ pc'[x] = pc[x]
<1>1. pc'[c] = p /\ \A x \in Tunnels : x # c => pc'[x] = pc[x]
  BY DEF TypeOK
<1>. QED  BY <1>1

\* Its transport may be closed by the same step.
LEMMA OnlyDies ==
  ASSUME TypeOK, NEW c \in Tunnels, alive' = [alive EXCEPT ![c] = FALSE]
  PROVE  \A x \in Tunnels : alive'[x] => alive[x]
BY DEF TypeOK

\* No step of a closed Gateway registers anything or revives a transport.
LEMMA ClosedStep ==
  ASSUME TypeOK, Named, ClosedForGood, [Next]_vars
  PROVE  ClosedForGood'
<1>. USE SessionsAssumption
     DEF dbVars, regVars, tunVars, whoVars, adminVars, reqVars
<1>0. ASSUME NEW ds, RemoveLocked(ds), closing = "stopped"
      PROVE  \A d \in Devices : sessions'[d] = Nobody
  BY <1>0 DEF RemoveLocked, ClosedForGood
<1>s. closing = "stopped" => \A d \in Devices : sessions[d] = Nobody
  BY DEF ClosedForGood
<1>1. ASSUME NEW c \in Tunnels, NEW d \in Devices, NEW i \in Identities,
             Hello(c, d, i)
      PROVE  ClosedForGood'
  <2>1. UNCHANGED <<gwMu, closing, sessions>> /\ closing = "running"
    BY <1>1 DEF Hello
  <2>2. pc' = [pc EXCEPT ![c] = "challenged"]
    BY <1>1 DEF Hello
  <2>3. \A x \in Tunnels :
          pc'[x] \in {"verified", "registered"} => x # c /\ pc'[x] = pc[x]
    BY <2>2, StepTo
  <2>. QED  BY <1>s, <2>1, <2>3, StaysClosed
<1>2. ASSUME NEW c \in Tunnels,
             \/ Authorize(c) \/ Refuse(c) \/ Rejected(c) \/ Welcome(c)
      PROVE  ClosedForGood'
  <2>1. UNCHANGED <<gwMu, closing, sessions>>
    BY <1>2 DEF Authorize, Refuse, Rejected, Welcome
  <2>2. UNCHANGED alive \/ alive' = [alive EXCEPT ![c] = FALSE]
    BY <1>2 DEF Authorize, Refuse, Rejected, Welcome
  <2>3. \E p \in {"challenged", "authorized", "welcoming", "serving", "done"} :
          pc' = [pc EXCEPT ![c] = p]
    BY <1>2 DEF Authorize, Refuse, Rejected, Welcome
  <2>4. \A x \in Tunnels :
          pc'[x] \in {"verified", "registered"} => x # c /\ pc'[x] = pc[x]
    BY <2>3, StepTo
  <2>5. \A x \in Tunnels : alive'[x] => alive[x]
    BY <2>2, OnlyDies
  <2>. QED  BY <1>s, <2>1, <2>4, <2>5, StaysClosed
<1>3. ASSUME NEW c \in Tunnels, Verify(c)
      PROVE  ClosedForGood'
  <2>1. closing' = "running" /\ gwMu = Nobody /\ gwMu' = c
    BY <1>3 DEF Verify, GateOpen
  <2>2. pc' = [pc EXCEPT ![c] = "verified"]
    BY <1>3 DEF Verify
  <2>3. \A x \in Tunnels : x # c => pc'[x] = pc[x]
    BY <2>2 DEF TypeOK
  <2>4. \A x \in Tunnels : pc[x] \notin {"verified", "registered"}
    BY <2>1 DEF ClosedForGood
  <2>. QED  BY <2>1, <2>3, <2>4 DEF ClosedForGood
<1>4. ASSUME NEW c \in Tunnels, Register(c)
      PROVE  ClosedForGood'
  <2>1. UNCHANGED <<gwMu, closing, alive>> /\ pc[c] = "verified"
    BY <1>4 DEF Register
  <2>2. pc' = [pc EXCEPT ![c] = "registered"]
    BY <1>4 DEF Register
  <2>3. \A x \in Tunnels : x # c => pc'[x] = pc[x]
    BY <2>2 DEF TypeOK
  <2>4. gwMu = c /\ closing = "running"
    <3>1. gwMu = c
      BY <2>1 DEF ClosedForGood
    <3>2. gwMu # Nobody
      BY <3>1
    <3>. QED  BY <3>1, <3>2 DEF ClosedForGood
  <2>. QED  BY <2>1, <2>3, <2>4, StaysClosed
<1>5. ASSUME NEW c \in Tunnels, CloseDisplaced(c)
      PROVE  ClosedForGood'
  <2>1. /\ UNCHANGED <<closing, sessions>>
        /\ gwMu' = Nobody
        /\ pc[c] = "registered"
    BY <1>5 DEF CloseDisplaced
  <2>2. pc' = [pc EXCEPT ![c] = "welcoming"]
    BY <1>5 DEF CloseDisplaced
  <2>3. alive' = [t \in Tunnels |-> alive[t] /\ t # oldTunnel[c]]
    BY <1>5 DEF CloseDisplaced
  <2>4. \A x \in Tunnels :
          pc'[x] \in {"verified", "registered"} => x # c /\ pc'[x] = pc[x]
    BY <2>2, StepTo
  <2>5. gwMu = c
    BY <2>1 DEF ClosedForGood
  <2>6. \A x \in Tunnels : pc'[x] \notin {"verified", "registered"}
    BY <2>4, <2>5 DEF ClosedForGood
  <2>7. \A x \in Tunnels : alive'[x] => alive[x]
    BY <2>3
  <2>. QED  BY <2>1, <2>6, <2>7 DEF ClosedForGood
<1>6. ASSUME NEW c \in Tunnels, HeartbeatRefused(c) \/ Break(c)
      PROVE  ClosedForGood'
  <2>1. UNCHANGED <<gwMu, closing, sessions, pc>>
    BY <1>6 DEF HeartbeatRefused, Break
  <2>2. alive' = [alive EXCEPT ![c] = FALSE]
    BY <1>6 DEF HeartbeatRefused, Break
  <2>3. \A x \in Tunnels : alive'[x] => alive[x]
    BY <2>2, OnlyDies
  <2>. QED  BY <1>s, <2>1, <2>3, StaysClosed
<1>7. ASSUME NEW c \in Tunnels, Unregister(c)
      PROVE  ClosedForGood'
  <2>1. UNCHANGED <<gwMu, closing, alive>>
    BY <1>7 DEF Unregister
  <2>2. closing = "stopped" => \A d \in Devices : sessions'[d] = Nobody
    BY <1>7, <1>0 DEF Unregister
  <2>3. pc' = [pc EXCEPT ![c] = "done"]
    BY <1>7 DEF Unregister
  <2>4. \A x \in Tunnels :
          pc'[x] \in {"verified", "registered"} => x # c /\ pc'[x] = pc[x]
    BY <2>3, StepTo
  <2>. QED  BY <2>1, <2>2, <2>4, StaysClosed
<1>8. ASSUME NEW a \in Admins,
             \/ \E d \in Devices : LoadDevice(a, d)
             \/ LockForChange(a)
             \/ \E i \in Identities :
                  ChangeGrant(a, i) \/ \E s \in BOOLEAN : UpdateIdentity(a, i, s)
      PROVE  ClosedForGood'
  <2>1. UNCHANGED <<pc, gwMu, closing, alive, sessions>>
    BY <1>8 DEF LoadDevice, LockForChange, ChangeGrant, UpdateIdentity
  <2>. QED  BY <1>s, <2>1, StaysClosed
<1>9. ASSUME NEW a \in Admins, DeviceChange(a)
      PROVE  ClosedForGood'
  <2>1. UNCHANGED <<pc, gwMu, closing, alive, sessions>>
    BY <1>9 DEF DeviceChange, RevokeDevice, ChangeFails,
                UpdateDeviceCapabilities, SetDeviceIdentity, Committed
  <2>. QED  BY <1>s, <2>1, StaysClosed
<1>10. ASSUME NEW a \in Admins, InvalidateDevice(a)
       PROVE  ClosedForGood'
  <2>1. UNCHANGED <<pc, gwMu, closing, alive>> /\ RemoveLocked({target[a]})
    BY <1>10 DEF InvalidateDevice
  <2>2. closing = "stopped" => \A d \in Devices : sessions'[d] = Nobody
    BY <1>0, <2>1
  <2>. QED  BY <2>1, <2>2, StaysClosed
<1>11. ASSUME NEW a \in Admins, CloseRemoved(a)
       PROVE  ClosedForGood'
  <2>1. /\ UNCHANGED <<pc, gwMu, closing, sessions>>
        /\ UNCHANGED alive \/ \E c : alive' = [alive EXCEPT ![c] = FALSE]
    BY <1>11 DEF CloseRemoved
  <2>2. \A c \in Tunnels : alive'[c] => alive[c]
    BY <2>1 DEF TypeOK
  <2>. QED  BY <1>s, <2>1, <2>2, StaysClosed
<1>12. ASSUME NEW a \in Admins, NEW i \in Identities, InvalidateIdentity(a, i)
       PROVE  ClosedForGood'
  <2>1. UNCHANGED <<pc, gwMu, closing, alive>>
    BY <1>12 DEF InvalidateIdentity
  <2>2. closing = "stopped" => \A d \in Devices : sessions'[d] = Nobody
    BY <1>0, <1>12 DEF InvalidateIdentity
  <2>. QED  BY <2>1, <2>2, StaysClosed
<1>13. CASE BeginClose
  BY <1>13 DEF BeginClose, ClosedForGood
<1>14. CASE CloseTransports
  BY <1>14 DEF CloseTransports, ClosedForGood
<1>15. CASE CloseAll
  BY <1>15 DEF CloseAll, RemoveLocked, ClosedForGood
<1>16. CASE UNCHANGED vars
  BY <1>16 DEF vars, ClosedForGood
<1>. QED
  BY <1>1, <1>2, <1>3, <1>4, <1>5, <1>6, <1>7, <1>8, <1>9, <1>10, <1>11,
     <1>12, <1>13, <1>14, <1>15, <1>16
  DEF Next, Handler, Teardown

\* A step that removes nothing from the registry and forgets nobody's debts
\* loses track of no transport.
LEMMA TrackKept ==
  ASSUME TypeOK, UnregisteredIsClosed, UNCHANGED sessions,
         \A c \in Tunnels : BeingClosed(c) /\ alive'[c] => BeingClosed(c)',
         \A c \in Tunnels :
           alive'[c] /\ pc'[c] \in {"registered", "welcoming", "serving"} =>
             /\ alive[c] /\ pc[c] \in {"registered", "welcoming", "serving"}
             /\ dev'[c] = dev[c]
  PROVE  UnregisteredIsClosed'
<1>. HIDE DEF BeingClosed
<1>. QED  BY DEF UnregisteredIsClosed

\* Every step that lets go of a session closes it or leaves that to somebody.
LEMMA TrackStep ==
  ASSUME TypeOK, Named, RegistryKnows, DebtsArePaid, ClosedForGood,
         UnregisteredIsClosed, [Next]_vars
  PROVE  UnregisteredIsClosed'
<1>. USE SessionsAssumption
     DEF dbVars, regVars, tunVars, whoVars, adminVars, reqVars
<1>1. ASSUME NEW c \in Tunnels, NEW d \in Devices, NEW i \in Identities,
             Hello(c, d, i)
      PROVE  UnregisteredIsClosed'
  BY <1>1, TrackKept DEF Hello, BeingClosed, TypeOK
<1>2. ASSUME NEW c \in Tunnels,
             \/ Authorize(c) \/ Refuse(c) \/ Verify(c) \/ Rejected(c)
             \/ Welcome(c) \/ HeartbeatRefused(c) \/ Break(c)
      PROVE  UnregisteredIsClosed'
  <2>1. UNCHANGED <<sessions, oldTunnel, toClose, closing, dev>>
    BY <1>2 DEF Authorize, Refuse, Verify, Rejected, Welcome,
                HeartbeatRefused, Break
  <2>2. \A t \in Tunnels :
          alive'[t] /\ pc'[t] \in {"registered", "welcoming", "serving"} =>
            alive[t] /\ pc[t] \in {"registered", "welcoming", "serving"}
    BY <1>2 DEF Authorize, Refuse, Verify, GateOpen, Rejected, Welcome,
                HeartbeatRefused, Break, TypeOK
  <2>. QED  BY <2>1, <2>2, TrackKept DEF BeingClosed
<1>3. ASSUME NEW c \in Tunnels, Register(c)
      PROVE  UnregisteredIsClosed'
  <2>1. dev[c] \in Devices /\ pc[c] = "verified" /\ oldTunnel[c] = Nobody
    BY <1>3 DEF Register, Named, DebtsArePaid
  <2>2. /\ sessions' = [sessions EXCEPT ![dev[c]] = c]
        /\ oldTunnel' = [oldTunnel EXCEPT ![c] = sessions[dev[c]]]
        /\ pc' = [pc EXCEPT ![c] = "registered"]
        /\ UNCHANGED <<toClose, closing, dev, alive>>
    BY <1>3 DEF Register
  <2>3. ASSUME NEW t \in Tunnels, t # c, alive'[t],
               pc'[t] \in {"registered", "welcoming", "serving"}
        PROVE  sessions'[dev'[t]] = t \/ BeingClosed(t)'
    <3>1. sessions[dev[t]] = t \/ BeingClosed(t)
      BY <2>2, <2>3 DEF UnregisteredIsClosed, TypeOK
    <3>2. CASE sessions[dev[t]] = t /\ dev[t] # dev[c]
      BY <2>1, <2>2, <3>2 DEF TypeOK
    <3>3. CASE sessions[dev[t]] = t /\ dev[t] = dev[c]
      <4>1. oldTunnel'[c] = t
        BY <2>2, <3>3 DEF TypeOK
      <4>. QED  BY <4>1 DEF BeingClosed
    <3>4. CASE BeingClosed(t)
      <4>1. ASSUME NEW u \in Tunnels, oldTunnel[u] = t
            PROVE  oldTunnel'[u] = t
        BY <2>1, <2>2, <4>1 DEF TypeOK
      <4>. QED  BY <2>2, <3>4, <4>1 DEF BeingClosed
    <3>. QED  BY <3>1, <3>2, <3>3, <3>4
  <2>4. sessions'[dev'[c]] = c
    BY <2>1, <2>2 DEF TypeOK
  <2>. QED  BY <2>3, <2>4 DEF UnregisteredIsClosed
<1>4. ASSUME NEW c \in Tunnels, CloseDisplaced(c)
      PROVE  UnregisteredIsClosed'
  <2>1. /\ pc[c] = "registered"
        /\ pc' = [pc EXCEPT ![c] = "welcoming"]
        /\ alive' = [t \in Tunnels |-> alive[t] /\ t # oldTunnel[c]]
        /\ oldTunnel' = [oldTunnel EXCEPT ![c] = Nobody]
        /\ UNCHANGED <<sessions, toClose, closing, dev>>
    BY <1>4 DEF CloseDisplaced
  <2>2. ASSUME NEW t \in Tunnels, BeingClosed(t), alive'[t]
        PROVE  BeingClosed(t)'
    <3>1. ASSUME NEW u \in Tunnels, oldTunnel[u] = t
          PROVE  oldTunnel'[u] = t
      BY <2>1, <2>2, <3>1 DEF TypeOK
    <3>. QED  BY <2>1, <2>2, <3>1 DEF BeingClosed
  <2>3. \A t \in Tunnels :
          alive'[t] /\ pc'[t] \in {"registered", "welcoming", "serving"} =>
            alive[t] /\ pc[t] \in {"registered", "welcoming", "serving"}
    BY <2>1 DEF TypeOK
  <2>. QED  BY <2>1, <2>2, <2>3, TrackKept
<1>5. ASSUME NEW c \in Tunnels, Unregister(c)
      PROVE  UnregisteredIsClosed'
  <2>1. /\ ~alive[c]
        /\ pc' = [pc EXCEPT ![c] = "done"]
        /\ sessions' = [d \in Devices |-> IF d \in RemovedByItself(c)
                                          THEN Nobody ELSE sessions[d]]
        /\ UNCHANGED <<toClose, oldTunnel, closing, dev, alive>>
    BY <1>5 DEF Unregister, RemoveLocked
  <2>2. ASSUME NEW t \in Tunnels, alive'[t],
               pc'[t] \in {"registered", "welcoming", "serving"}
        PROVE  sessions'[dev'[t]] = t \/ BeingClosed(t)'
    <3>1. t # c /\ alive[t] /\ pc[t] \in {"registered", "welcoming", "serving"}
      BY <2>1, <2>2 DEF TypeOK
    <3>2. dev[t] \in Devices
      BY <3>1 DEF Named
    <3>3. CASE sessions[dev[t]] = t
      BY <2>1, <3>1, <3>2, <3>3 DEF RemovedByItself
    <3>4. CASE BeingClosed(t)
      BY <2>1, <3>4 DEF BeingClosed
    <3>. QED  BY <3>1, <3>3, <3>4 DEF UnregisteredIsClosed
  <2>. QED  BY <2>2 DEF UnregisteredIsClosed
<1>6. ASSUME NEW a \in Admins, NEW ds \in SUBSET Devices, toClose[a] = {},
             RemoveLocked(ds),
             toClose' = [toClose EXCEPT ![a] = Registered(ds)],
             UNCHANGED <<oldTunnel, closing, dev, alive, pc>>
      PROVE  UnregisteredIsClosed'
  <2>1. ASSUME NEW t \in Tunnels, alive[t],
               pc[t] \in {"registered", "welcoming", "serving"}
        PROVE  sessions'[dev[t]] = t \/ BeingClosed(t)'
    <3>1. dev[t] \in Devices
      BY <2>1 DEF Named
    <3>2. CASE sessions[dev[t]] = t /\ dev[t] \in ds
      <4>1. t \in toClose'[a]
        BY <1>6, <3>1, <3>2 DEF Registered, TypeOK
      <4>. QED  BY <4>1 DEF BeingClosed
    <3>3. CASE sessions[dev[t]] = t /\ dev[t] \notin ds
      BY <1>6, <3>1, <3>3 DEF RemoveLocked
    <3>4. CASE BeingClosed(t)
      <4>1. ASSUME NEW b \in Admins, t \in toClose[b]
            PROVE  t \in toClose'[b]
        BY <1>6, <4>1 DEF TypeOK
      <4>. QED  BY <1>6, <3>4, <4>1 DEF BeingClosed
    <3>. QED  BY <2>1, <3>2, <3>3, <3>4 DEF UnregisteredIsClosed
  <2>. QED  BY <1>6, <2>1 DEF UnregisteredIsClosed
<1>7. ASSUME NEW a \in Admins, InvalidateDevice(a)
      PROVE  UnregisteredIsClosed'
  <2>1. {target[a]} \in SUBSET Devices /\ toClose[a] = {}
    BY <1>7 DEF InvalidateDevice, Named, DebtsArePaid
  <2>. QED  BY <1>6, <1>7, <2>1 DEF InvalidateDevice, Transports
<1>8. ASSUME NEW a \in Admins, NEW i \in Identities, InvalidateIdentity(a, i)
      PROVE  UnregisteredIsClosed'
  <2>1. DevicesOf(i) \in SUBSET Devices /\ toClose[a] = {}
    BY <1>8 DEF InvalidateIdentity, DevicesOf, DebtsArePaid
  <2>. QED  BY <1>6, <1>8, <2>1 DEF InvalidateIdentity, Transports
<1>9. ASSUME NEW a \in Admins, CloseRemoved(a)
      PROVE  UnregisteredIsClosed'
  <2>1. /\ UNCHANGED sessions
        /\ UNCHANGED <<oldTunnel, closing, dev, pc>>
    BY <1>9 DEF CloseRemoved
  <2>2. ASSUME NEW t \in Tunnels, alive'[t]
        PROVE  /\ alive[t]
               /\ \A b \in Admins : t \in toClose[b] => t \in toClose'[b]
    <3>1. CASE UNCHANGED <<alive, toClose>>
      BY <2>2, <3>1
    <3>2. ASSUME NEW c \in toClose[a],
                 alive' = [alive EXCEPT ![c] = FALSE],
                 toClose' = [toClose EXCEPT ![a] = @ \ {c}]
          PROVE  /\ alive[t]
                 /\ \A b \in Admins : t \in toClose[b] => t \in toClose'[b]
      BY <2>2, <3>2 DEF TypeOK
    <3>. QED  BY <1>9, <3>1, <3>2 DEF CloseRemoved
  <2>3. \A t \in Tunnels : BeingClosed(t) /\ alive'[t] => BeingClosed(t)'
    BY <2>1, <2>2 DEF BeingClosed
  <2>4. \A t \in Tunnels : alive'[t] => alive[t]
    BY <2>2
  <2>. HIDE DEF UnregisteredIsClosed
  <2>. QED  BY <2>1, <2>3, <2>4, TrackKept
<1>10. ASSUME NEW a \in Admins,
              \/ \E d \in Devices : LoadDevice(a, d)
              \/ LockForChange(a) \/ DeviceChange(a)
              \/ \E i \in Identities :
                   ChangeGrant(a, i) \/ \E s \in BOOLEAN : UpdateIdentity(a, i, s)
       PROVE  UnregisteredIsClosed'
  <2>1. UNCHANGED <<sessions, oldTunnel, toClose, closing, dev, pc, alive>>
    BY <1>10 DEF LoadDevice, LockForChange, ChangeGrant, UpdateIdentity,
                 DeviceChange, RevokeDevice, ChangeFails,
                 UpdateDeviceCapabilities, SetDeviceIdentity, Committed
  <2>. QED  BY <2>1, TrackKept DEF BeingClosed
<1>11. CASE BeginClose
  BY <1>11, TrackKept DEF BeginClose, BeingClosed
<1>12. CASE CloseTransports \/ CloseAll
  <2>1. \A t \in Tunnels : ~alive'[t]
    BY <1>12 DEF CloseTransports, CloseAll, ClosedForGood, TypeOK
  <2>. QED  BY <2>1 DEF UnregisteredIsClosed
<1>13. CASE UNCHANGED vars
  BY <1>13, TrackKept DEF vars, BeingClosed
<1>. QED
  BY <1>1, <1>2, <1>3, <1>4, <1>5, <1>7, <1>8, <1>9, <1>10, <1>11, <1>12,
     <1>13
  DEF Next, Handler, Teardown

\* The registry, what is still to be closed and the end of the Gateway.
LEMMA TransportsInv ==
  Spec => [](DebtsArePaid /\ ClosedForGood /\ UnregisteredIsClosed)
<1>1. Init => DebtsArePaid /\ ClosedForGood /\ UnregisteredIsClosed
  BY DEF Init, DebtsArePaid, ClosedForGood, UnregisteredIsClosed
<1>2. IInv /\ DebtsArePaid /\ ClosedForGood /\ UnregisteredIsClosed
        /\ [Next]_vars
      => (DebtsArePaid /\ ClosedForGood /\ UnregisteredIsClosed)'
  BY DebtsStep, ClosedStep, TrackStep DEF IInv
<1>. QED  BY <1>1, <1>2, Invariant, PTL DEF Spec

\* A session that was displaced, removed or invalidated does not go on
\* serving: its transport is the registered one, dead, or about to be closed
\* by whoever took it out of the registry (Manager.RegisterAuthenticated,
\* ChangeDeviceAuthorization, InvalidateIdentity, CloseAll).
THEOREM RemovedSessionsAreClosed == Spec => []UnregisteredIsClosed
BY TransportsInv, PTL

\* After Gateway.Close nothing is registered and no transport is open, with
\* any number of handshakes and requests under way when it was called.
THEOREM ClosedGatewayIsEmpty == Spec => []NothingAfterStop
<1>1. ClosedForGood => NothingAfterStop
  BY DEF ClosedForGood, NothingAfterStop
<1>. QED  BY <1>1, TransportsInv, PTL

-----------------------------------------------------------------------------
(* What the invariants say together of an open tunnel, and of the locks     *)

\* The device's approval and binding and the identity's status allow the tunnel,
\* or somebody is on the way to close it: the request that changed them holds the
\* gate or has its sweep to do, or the removal was made and the close is due.
OpenTunnelIsAllowed ==
  \A c \in Tunnels : alive[c] /\ pc[c] \in {"registered", "welcoming", "serving"} =>
    \/ BeingClosed(c) \/ ChangePending(dev[c]) \/ SweepPending(ident[c])
    \/ IdentityDeviceAuthorized(dev[c], ident[c])

\* Of two open tunnels a device has registered, one is about to be closed.
OneOpenTunnel ==
  \A c, t \in Tunnels :
    (/\ alive[c] /\ pc[c] \in {"registered", "welcoming", "serving"}
     /\ alive[t] /\ pc[t] \in {"registered", "welcoming", "serving"}
     /\ c # t /\ dev[c] = dev[t])
    => BeingClosed(c) \/ BeingClosed(t)

\* Whoever holds a lock is at a step that takes no other: the handler at the
\* registration and at the close of the displaced tunnel, the request at its
\* change and at the invalidation.  A rejected recheck, a failed change and a
\* closed Gateway leave neither lock behind.
LocksAreHeld ==
  /\ gwMu # Nobody => pc[gwMu] \in {"verified", "registered"}
  /\ authMu # Nobody =>
       \/ authMu \in Tunnels /\ gwMu = authMu /\ pc[authMu] = "verified"
       \/ authMu \in Admins /\ step[authMu] \in {"locked", "committed"}

\* No tunnel outlives what allowed it, whichever of a revocation, a change of
\* binding or a disabled identity races with its handshake and with the tunnel
\* it displaces (ChangeDeviceAuthorization, InvalidateIdentity).
THEOREM RevokedTunnelsAreBeingClosed == Spec => []OpenTunnelIsAllowed
<1>1. IInv /\ UnregisteredIsClosed => OpenTunnelIsAllowed
  <2>. SUFFICES ASSUME IInv, UnregisteredIsClosed, NEW c \in Tunnels, alive[c],
                       pc[c] \in {"registered", "welcoming", "serving"},
                       ~BeingClosed(c)
                PROVE  \/ ChangePending(dev[c]) \/ SweepPending(ident[c])
                       \/ IdentityDeviceAuthorized(dev[c], ident[c])
    BY DEF OpenTunnelIsAllowed
  <2>1. dev[c] \in Devices /\ c # Nobody
    BY SessionsAssumption DEF IInv, Named
  <2>2. sessions[dev[c]] = c
    BY DEF UnregisteredIsClosed
  <2>3. \/ ChangePending(dev[c])
        \/ approved[dev[c]] /\ boundTo[dev[c]] = ident[c]
    BY <2>1, <2>2 DEF IInv, RegisteredIsApproved
  <2>4. active[ident[c]] \/ SweepPending(ident[c])
    BY <2>1, <2>2 DEF IInv, DisabledIsBeingSwept
  <2>. QED  BY <2>3, <2>4 DEF IdentityDeviceAuthorized
<1>. QED  BY <1>1, Invariant, TransportsInv, PTL

\* A device is served over one tunnel: the earlier one of a reconnect is being
\* closed as soon as the later one is registered (Manager.register).
THEOREM OneTunnelPerDevice == Spec => []OneOpenTunnel
<1>1. UnregisteredIsClosed => OneOpenTunnel
  BY DEF UnregisteredIsClosed, OneOpenTunnel
<1>. QED  BY <1>1, TransportsInv, PTL

\* Gateway.mu is held by the handler that registers, and by no other.
LEMMA GatewayLock ==
  ASSUME TypeOK, [Next]_vars,
         gwMu # Nobody => pc[gwMu] \in {"verified", "registered"}
  PROVE  gwMu' # Nobody => pc'[gwMu'] \in {"verified", "registered"}
<1>. USE DEF TypeOK, Maybe, dbVars, regVars, tunVars, whoVars, adminVars, reqVars
<1>1. CASE UNCHANGED <<pc, gwMu>>
  BY <1>1
<1>2. ASSUME NEW c \in Tunnels, NEW d \in Devices, NEW i \in Identities,
             Hello(c, d, i)
      PROVE  gwMu' = Nobody
  BY <1>2 DEF Hello
<1>3. ASSUME NEW c \in Tunnels, Verify(c) \/ Register(c)
      PROVE  gwMu' # Nobody => pc'[gwMu'] \in {"verified", "registered"}
  BY <1>3 DEF Verify, Register
<1>4. ASSUME NEW c \in Tunnels, CloseDisplaced(c)
      PROVE  gwMu' = Nobody
  BY <1>4 DEF CloseDisplaced
<1>5. ASSUME NEW c \in Tunnels,
             Authorize(c) \/ Refuse(c) \/ Rejected(c) \/ Welcome(c) \/ Unregister(c)
      PROVE  gwMu' # Nobody => pc'[gwMu'] \in {"verified", "registered"}
  <2>1. /\ UNCHANGED gwMu /\ pc[c] \notin {"verified", "registered"}
        /\ \E to : pc' = [pc EXCEPT ![c] = to]
    BY <1>5 DEF Authorize, Refuse, Rejected, Welcome, Unregister
  <2>. QED  BY <2>1
<1>6. ASSUME NEW c \in Tunnels, HeartbeatRefused(c) \/ Break(c)
      PROVE  UNCHANGED <<pc, gwMu>>
  BY <1>6 DEF HeartbeatRefused, Break
<1>7. ASSUME NEW a \in Admins, DeviceChange(a) \/ Teardown(a) \/ LockForChange(a)
      PROVE  UNCHANGED <<pc, gwMu>>
  BY <1>7 DEF DeviceChange, Teardown, LockForChange, RevokeDevice, ChangeFails,
              UpdateDeviceCapabilities, SetDeviceIdentity, Committed,
              InvalidateDevice, CloseRemoved, InvalidateIdentity
<1>8. ASSUME NEW a \in Admins, NEW d \in Devices, LoadDevice(a, d)
      PROVE  UNCHANGED <<pc, gwMu>>
  BY <1>8 DEF LoadDevice
<1>9. ASSUME NEW a \in Admins, NEW i \in Identities,
             ChangeGrant(a, i) \/ \E st \in BOOLEAN : UpdateIdentity(a, i, st)
      PROVE  UNCHANGED <<pc, gwMu>>
  BY <1>9 DEF ChangeGrant, UpdateIdentity
<1>10. CASE BeginClose \/ CloseTransports \/ CloseAll \/ UNCHANGED vars
  BY <1>10 DEF BeginClose, CloseTransports, CloseAll, vars
<1>. QED  BY <1>1, <1>2, <1>3, <1>4, <1>5, <1>6, <1>7, <1>8, <1>9, <1>10
          DEF Next, Handler

\* Every path through a registration and through a change gives its locks back:
\* one that is held is held by somebody who needs nothing more to release it
\* (Manager.register's verify queries the database under both).
THEOREM LocksAreHeldByWorkers == Spec => []LocksAreHeld
<1>. DEFINE GwInv == gwMu # Nobody => pc[gwMu] \in {"verified", "registered"}
<1>1. Init => GwInv
  BY DEF Init
<1>2. IInv /\ GwInv /\ [Next]_vars => GwInv'
  BY GatewayLock DEF IInv
<1>3. IInv /\ GwInv /\ ClosedForGood => LocksAreHeld
  BY SessionsAssumption DEF IInv, TypeOK, GateHolders, ClosedForGood, LocksAreHeld,
     Maybe
<1>. HIDE DEF GwInv
<1>4. Spec => []GwInv
  BY <1>1, <1>2, Invariant, PTL DEF Spec
<1>. QED  BY <1>3, <1>4, Invariant, TransportsInv, PTL

\* The deferred UnregisterSession of a handler takes its own session out of
\* the registry and nobody else's.
THEOREM HandlersSpareSuccessors == Spec => UnwindingHandlerSparesOthers
<1>1. ASSUME TypeOK, Named, [Next]_vars, NEW c \in Tunnels, pc[c] # "done",
             pc'[c] = "done", NEW d \in Devices, sessions[d] # c
      PROVE  sessions'[d] = sessions[d]
  <2>. USE DEF TypeOK, dbVars, regVars, tunVars, whoVars, adminVars, reqVars
  <2>1. CASE UNCHANGED pc
    BY <2>1, <1>1
  <2>2. ASSUME NEW t \in Tunnels, Unregister(t)
        PROVE  sessions'[d] = sessions[d]
    <3>1. t = c
      BY <2>2, <1>1 DEF Unregister
    <3>. QED  BY <2>2, <3>1, <1>1 DEF Unregister, RemoveLocked, RemovedByItself
  <2>3. ASSUME NEW t \in Tunnels, Refuse(t) \/ Rejected(t)
        PROVE  sessions'[d] = sessions[d]
    BY <2>3 DEF Refuse, Rejected
  <2>4. ASSUME NEW t \in Tunnels,
               \/ Authorize(t) \/ Verify(t) \/ Register(t) \/ CloseDisplaced(t)
               \/ Welcome(t)
        PROVE  FALSE
    BY <2>4, <1>1 DEF Authorize, Verify, Register, CloseDisplaced, Welcome
  <2>5. ASSUME NEW t \in Tunnels, NEW e \in Devices, NEW i \in Identities,
               Hello(t, e, i)
        PROVE  FALSE
    BY <2>5, <1>1 DEF Hello
  <2>6. ASSUME NEW t \in Tunnels, HeartbeatRefused(t) \/ Break(t)
        PROVE  UNCHANGED pc
    BY <2>6 DEF HeartbeatRefused, Break
  <2>7. ASSUME NEW a \in Admins,
               \/ \E e \in Devices : LoadDevice(a, e)
               \/ LockForChange(a) \/ DeviceChange(a) \/ Teardown(a)
               \/ \E i \in Identities :
                    ChangeGrant(a, i) \/ \E s \in BOOLEAN : UpdateIdentity(a, i, s)
        PROVE  UNCHANGED pc
    BY <2>7 DEF LoadDevice, LockForChange, ChangeGrant, UpdateIdentity,
                DeviceChange, RevokeDevice, ChangeFails,
                UpdateDeviceCapabilities, SetDeviceIdentity, Committed,
                Teardown, InvalidateDevice, CloseRemoved, InvalidateIdentity
  <2>8. CASE BeginClose \/ CloseTransports \/ CloseAll \/ UNCHANGED vars
    <3>1. UNCHANGED pc
      BY <2>8 DEF BeginClose, CloseTransports, CloseAll, vars
    <3>. QED  BY <2>1, <3>1
  <2>. HIDE DEF TypeOK
  <2>. QED
    BY <1>1, <2>1, <2>2, <2>3, <2>4, <2>5, <2>6, <2>7, <2>8 DEF Next, Handler
<1>2. IInv /\ [Next]_vars =>
        [\A c \in Tunnels : pc[c] # "done" /\ pc'[c] = "done" =>
           \A d \in Devices : sessions[d] # c => sessions'[d] = sessions[d]]_vars
  BY <1>1 DEF IInv
<1>. QED  BY <1>2, Invariant, PTL DEF Spec, UnwindingHandlerSparesOthers

-----------------------------------------------------------------------------
(* Refinement of DeviceAdmission                                            *)

\* What the refinement mapping reads.
MappedVars == <<AllowedNow, AdmittedNow>>

\* A step that leaves rows, registry and pending changes alone is a stutter.
LEMMA Stutter ==
  ASSUME UNCHANGED <<approved, boundTo, sessions>>,
         \A e \in Devices : ChangePending(e)' <=> ChangePending(e),
         \A e \in Devices : sessions[e] # Nobody =>
                             ident'[sessions[e]] = ident[sessions[e]]
  PROVE  UNCHANGED MappedVars
<1>1. AllowedNow' = AllowedNow
  BY DEF AllowedNow
<1>2. AdmittedNow' = AdmittedNow
  <2>. HIDE DEF ChangePending
  <2>. QED  BY DEF AdmittedNow
<1>. QED  BY <1>1, <1>2 DEF MappedVars

\* Removing sessions while rows and pending changes stay is a Drop.
LEMMA Removal ==
  ASSUME NEW ds \in SUBSET Devices, RemoveLocked(ds),
         UNCHANGED <<approved, boundTo, ident>>,
         \A e \in Devices : ChangePending(e)' <=> ChangePending(e)
  PROVE  Admission!Drop(ds)
<1>1. AllowedNow' = AllowedNow
  BY DEF AllowedNow
<1>2. AdmittedNow' = [d \in Devices |->
                       IF d \in ds THEN Admission!Outside ELSE AdmittedNow[d]]
  BY DEF AdmittedNow, RemoveLocked, Admission!Outside
<1>. QED  BY <1>1, <1>2 DEF Admission!Drop

\* A committed change of the target's row, under the gate, is a Change.
LEMMA Commit ==
  ASSUME NEW d \in Devices, NEW who,
         ChangePending(d)',
         \A e \in Devices \ {d} : ChangePending(e)' <=> ChangePending(e),
         AllowedNow' = [AllowedNow EXCEPT ![d] = who],
         UNCHANGED <<sessions, ident>>
  PROVE  Admission!Change(d, who)
<1>1. AdmittedNow' = [AdmittedNow EXCEPT ![d] = Admission!Outside]
  BY DEF AdmittedNow, Admission!Outside
<1>. QED  BY <1>1 DEF Admission!Change

\* Locking, sweeping and closing touch no pending change.
LEMMA RequestStutter ==
  ASSUME TypeOK, NEW a \in Admins,
         \/ (\E d \in Devices : LoadDevice(a, d)) \/ LockForChange(a)
         \/ ChangeFails(a) \/ CloseRemoved(a)
         \/ \E i \in Identities :
              ChangeGrant(a, i) \/ \E s \in BOOLEAN : UpdateIdentity(a, i, s)
  PROVE  UNCHANGED MappedVars
<1>. USE DEF TypeOK, dbVars, regVars, tunVars, whoVars, adminVars, reqVars
<1>1. UNCHANGED <<approved, boundTo, sessions, ident>>
  BY DEF LoadDevice, LockForChange, ChangeFails, CloseRemoved, ChangeGrant,
       UpdateIdentity
<1>2. ASSUME NEW e \in Devices
      PROVE  ChangePending(e)' <=> ChangePending(e)
  <2>1. \A b \in Admins : step'[b] = "committed" <=> step[b] = "committed"
    BY DEF LoadDevice, LockForChange, ChangeFails, CloseRemoved, ChangeGrant,
       UpdateIdentity
  <2>2. \A b \in Admins : step[b] = "committed" => target'[b] = target[b]
    BY DEF LoadDevice, LockForChange, ChangeFails, CloseRemoved, ChangeGrant,
       UpdateIdentity
  <2>. QED  BY <2>1, <2>2 DEF ChangePending
<1>. HIDE DEF TypeOK
<1>. QED  BY <1>1, <1>2, Stutter

\* The commit of a device change maps to Change.
LEMMA CommitMaps ==
  ASSUME TypeOK, Named, NEW a \in Admins, DeviceChange(a), ~ChangeFails(a)
  PROVE  Admission!AbsNext
<1>1. PICK d \in Devices : d = target[a]
  BY DEF Named, DeviceChange, RevokeDevice, UpdateDeviceCapabilities,
         SetDeviceIdentity
<1>2. /\ step' = [step EXCEPT ![a] = "committed"]
      /\ UNCHANGED <<target, sessions, ident>>
  BY DEF DeviceChange, RevokeDevice, UpdateDeviceCapabilities,
         SetDeviceIdentity, Committed, regVars, tunVars, whoVars
<1>3. ChangePending(d)'
  BY <1>1, <1>2 DEF TypeOK, ChangePending
<1>4. \A e \in Devices \ {d} : ChangePending(e)' <=> ChangePending(e)
  BY <1>1, <1>2 DEF TypeOK, ChangePending
<1>5. PICK who \in Identities \cup {Nobody} :
        AllowedNow' = [AllowedNow EXCEPT ![d] = who]
  <2>1. CASE RevokeDevice(a)
    BY <2>1, <1>1 DEF RevokeDevice, AllowedNow, TypeOK
  <2>2. CASE \E chosen \in SUBSET Caps : UpdateDeviceCapabilities(a, chosen)
    <3>1. AllowedNow' = [AllowedNow EXCEPT ![d] = boundTo[d]]
      BY <2>2, <1>1 DEF UpdateDeviceCapabilities, AllowedNow, TypeOK
    <3>. QED  BY <3>1, <1>1 DEF TypeOK
  <2>3. ASSUME NEW i \in Identities, SetDeviceIdentity(a, i)
        PROVE  \E who \in Identities \cup {Nobody} :
                 AllowedNow' = [AllowedNow EXCEPT ![d] = who]
    <3>1. /\ boundTo' = [boundTo EXCEPT ![d] = i]
          /\ approved' = approved
      BY <2>3, <1>1 DEF SetDeviceIdentity
    <3>2. CASE approved[d]
      <4>1. AllowedNow' = [AllowedNow EXCEPT ![d] = i]
        BY <3>1, <3>2, <1>1 DEF AllowedNow, TypeOK
      <4>. QED  BY <4>1
    <3>3. CASE ~approved[d]
      <4>1. AllowedNow' = [AllowedNow EXCEPT ![d] = Nobody]
        BY <3>1, <3>3, <1>1 DEF AllowedNow, TypeOK
      <4>. QED  BY <4>1
    <3>. QED  BY <3>2, <3>3
  <2>. QED  BY <2>1, <2>2, <2>3 DEF DeviceChange
<1>6. Admission!Change(d, who)
  BY <1>2, <1>3, <1>4, <1>5, Commit
<1>. QED  BY <1>6 DEF Admission!AbsNext

\* Registration maps to Admit: the gate rules out a pending change of the
\* device, and what the recheck read is still what the rows say.
LEMMA RegisterMaps ==
  ASSUME IInv, NEW c \in Tunnels, Register(c)
  PROVE  Admission!AbsNext
<1>. DEFINE d == dev[c]
<1>1. d \in Devices /\ pc[c] = "verified"
  BY DEF IInv, Named, Register
<1>2. /\ sessions' = [sessions EXCEPT ![d] = c]
      /\ UNCHANGED <<approved, boundTo, ident, step, target>>
  BY DEF Register, dbVars, whoVars, adminVars, reqVars
<1>3. ~ChangePending(d)
  BY <1>1, SessionsAssumption DEF IInv, GateHolders, ChangePending
<1>4. \A e \in Devices : ChangePending(e)' <=> ChangePending(e)
  BY <1>2 DEF ChangePending
<1>5. approved[d] /\ boundTo[d] = ident[c]
  BY <1>1 DEF IInv, RecheckStands
<1>6. AllowedNow' = AllowedNow /\ AllowedNow[d] = ident[c]
  BY <1>1, <1>2, <1>5 DEF AllowedNow
<1>7. ident[c] \in Identities /\ ident[c] # Nobody /\ c # Nobody
  BY <1>1, SessionsAssumption DEF IInv, Named
<1>8. AdmittedNow' = [AdmittedNow EXCEPT
                        ![d] = [tunnel |-> c, identity |-> ident[c]]]
  <2>1. DOMAIN sessions = Devices
    BY DEF IInv, TypeOK
  <2>. HIDE DEF ChangePending, d
  <2>. QED  BY <2>1, <1>1, <1>2, <1>3, <1>4, <1>7 DEF AdmittedNow
<1>9. Admission!Admit(d, c)
  <2>. HIDE DEF d
  <2>. QED  BY <1>6, <1>7, <1>8 DEF Admission!Admit
<1>. QED  BY <1>1, <1>9 DEF Admission!AbsNext

\* Removing sessions under unchanged rows maps to Drop.
LEMMA DropMaps ==
  ASSUME TypeOK,
         \/ \E c \in Tunnels : Unregister(c)
         \/ \E a \in Admins, i \in Identities : InvalidateIdentity(a, i)
         \/ CloseAll
  PROVE  Admission!AbsNext
<1>. USE DEF dbVars, tunVars, whoVars, adminVars, reqVars
<1>1. UNCHANGED <<approved, boundTo, ident>>
  BY DEF Unregister, InvalidateIdentity, CloseAll
<1>2. ASSUME NEW e \in Devices
      PROVE  ChangePending(e)' <=> ChangePending(e)
  <2>1. /\ \A b \in Admins : step'[b] = "committed" <=> step[b] = "committed"
        /\ UNCHANGED target
    BY DEF Unregister, InvalidateIdentity, CloseAll, TypeOK
  <2>. QED  BY <2>1 DEF ChangePending
<1>3. PICK ds \in SUBSET Devices : RemoveLocked(ds)
  BY DEF Unregister, InvalidateIdentity, CloseAll, RemovedByItself, DevicesOf
<1>4. Admission!Drop(ds)
  BY <1>1, <1>2, <1>3, Removal
<1>. QED  BY <1>4 DEF Admission!AbsNext

\* The change ends with the removal of a session nobody saw as admitted.
LEMMA InvalidateMaps ==
  ASSUME TypeOK, GateHolders, Named, NEW a \in Admins, InvalidateDevice(a)
  PROVE  UNCHANGED MappedVars
<1>. DEFINE d == target[a]
<1>1. /\ UNCHANGED <<approved, boundTo, ident, target>>
      /\ step[a] = "committed"
      /\ step' = [step EXCEPT ![a] = "closing"]
      /\ sessions' = [e \in Devices |-> IF e \in {d} THEN Nobody
                                         ELSE sessions[e]]
  BY DEF InvalidateDevice, RemoveLocked, dbVars, tunVars, whoVars
<1>2. d \in Devices /\ ChangePending(d)
  BY <1>1 DEF Named, ChangePending
<1>3. ASSUME NEW e \in Devices \ {d}
      PROVE  ChangePending(e)' <=> ChangePending(e)
  BY <1>1 DEF TypeOK, ChangePending
<1>4. AllowedNow' = AllowedNow
  BY <1>1 DEF AllowedNow
<1>5. AdmittedNow' = AdmittedNow
  <2>. HIDE DEF ChangePending, d
  <2>. QED  BY <1>1, <1>2, <1>3 DEF AdmittedNow
<1>. QED  BY <1>4, <1>5 DEF MappedVars

\* Every step maps to an abstract step or to a stutter.
LEMMA StepMaps ==
  ASSUME IInv, [Next]_vars
  PROVE  Admission!AbsNext \/ UNCHANGED MappedVars
<1>. USE DEF IInv
<1>1. CASE Quiet
  <2>1. UNCHANGED <<approved, boundTo, sessions, ident, step, target>>
    BY <1>1, QuietFrame DEF QuietEffect
  <2>2. \A e \in Devices : ChangePending(e)' <=> ChangePending(e)
    BY <2>1 DEF ChangePending
  <2>. QED  BY <2>1, <2>2, Stutter
<1>2. ASSUME NEW c \in Tunnels, NEW d \in Devices, NEW i \in Identities,
             Hello(c, d, i)
      PROVE  UNCHANGED MappedVars
  <2>1. UNCHANGED <<approved, boundTo, sessions, step, target>>
    BY <1>2 DEF Hello, dbVars, regVars, adminVars, reqVars
  <2>2. \A e \in Devices : ChangePending(e)' <=> ChangePending(e)
    BY <2>1 DEF ChangePending
  <2>3. ASSUME NEW e \in Devices, sessions[e] # Nobody
        PROVE  ident'[sessions[e]] = ident[sessions[e]]
    <3>1. sessions[e] \in Tunnels /\ sessions[e] # c
      BY <1>2, <2>3, RegisteredTunnel DEF Hello
    <3>2. ident' = [ident EXCEPT ![c] = i] /\ DOMAIN ident = Tunnels
      BY <1>2 DEF Hello, TypeOK
    <3>. HIDE DEF IInv
    <3>. QED  BY <3>1, <3>2
  <2>. HIDE DEF IInv
  <2>. QED  BY <2>1, <2>2, <2>3, Stutter
<1>3. ASSUME NEW c \in Tunnels, Verify(c)
      PROVE  UNCHANGED MappedVars
  <2>1. UNCHANGED <<approved, boundTo, sessions, ident, step, target>>
    BY <1>3 DEF Verify, dbVars, regVars, whoVars, adminVars, reqVars
  <2>2. \A e \in Devices : ChangePending(e)' <=> ChangePending(e)
    BY <2>1 DEF ChangePending
  <2>. QED  BY <2>1, <2>2, Stutter
<1>4. ASSUME NEW a \in Admins, DeviceChange(a)
      PROVE  Admission!AbsNext \/ UNCHANGED MappedVars
  BY <1>4, CommitMaps, RequestStutter
<1>5. ASSUME NEW a \in Admins, Teardown(a)
      PROVE  Admission!AbsNext \/ UNCHANGED MappedVars
  BY <1>5, InvalidateMaps, RequestStutter, DropMaps DEF Teardown
<1>6. ASSUME NEW c \in Tunnels, Handler(c) \/ Break(c)
      PROVE  Admission!AbsNext \/ UNCHANGED MappedVars
  <2>. HIDE DEF IInv
  <2>1. TypeOK
    BY DEF IInv
  <2>. QED  BY <1>1, <1>3, <1>6, <2>1, RegisterMaps, DropMaps DEF Handler, Quiet
<1>7. CASE BeginClose \/ CloseTransports \/ CloseAll
  BY <1>1, <1>7, DropMaps DEF Quiet
<1>. HIDE DEF IInv
<1>8. TypeOK
  BY DEF IInv
<1>. QED
  BY <1>1, <1>2, <1>4, <1>5, <1>6, <1>7, <1>8, RequestStutter DEF Next, Quiet

\* Nothing is admitted at first.
LEMMA InitMaps ==
  ASSUME Init
  PROVE  Admission!AbsInit
BY DEF Init, Admission!AbsInit, Admission!Outside, AllowedNow, AdmittedNow

\* The handshake, the registry and the administrator requests, with all
\* their locks and threads, implement indivisible admission: "an approval
\* mutation and its session invalidation [are] indivisible with respect to
\* authenticated registration" (manager.go, ChangeDeviceAuthorization).
THEOREM AdmissionRefined == Spec => ImplementsDeviceAdmission
<1>1. Init => Admission!AbsInit
  BY InitMaps
<1>2. IInv /\ [Next]_vars => [Admission!AbsNext]_(Admission!absVars)
  BY StepMaps DEF MappedVars, Admission!absVars
<1>. QED
  BY <1>1, <1>2, Invariant, PTL
  DEF Spec, ImplementsDeviceAdmission, Admission!AbsSpec
=============================================================================
