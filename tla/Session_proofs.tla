---------------------------- MODULE Session_proofs ----------------------------
(*****************************************************************************)
(* Proofs about an agent's session (AgentSession) and about the UDP          *)
(* datagrams that a session carries (UDPDatagrams), for any number of        *)
(* sessions, channels, ids, fragments and events and any limits.             *)
(*                                                                           *)
(* AgentSession: the approved session is the manager's active one            *)
(* (ReadyIsActive), and only a list of the approved session replaces the one *)
(* in use (ListOfReadySession).  AgentInv adds what the listener knows of    *)
(* the manager (Heard): the arguments of its last call describe the manager  *)
(* until Close has shut it.                                                  *)
(*                                                                           *)
(* UDPDatagrams: the session's budget is exactly what the session holds      *)
(* (BudgetIsExact), and a channel's stages agree with the table, its         *)
(* connection and its hooks (StagesHold).  IInv adds that the table and the  *)
(* channels name each other (Registered), that nothing is received before    *)
(* its cleanup can give it back (CleanupFirst), that a frame in a reader's   *)
(* hand came from a queue (TookFrame) and that pending is a map              *)
(* (OnePerPacket): without the last the assembly of one fragment could       *)
(* release the bytes of two packets.                                         *)
(*****************************************************************************)
EXTENDS AgentSession, UDPDatagrams, FiniteSetTheorems, SequenceTheorems, TLAPS

-----------------------------------------------------------------------------
(* The agent's inductive invariant                                          *)

\* Only Close changes the manager without a call of the listener.
Heard ==
  /\ closing \in {"tunnel", "closed"} \/ heard = <<state, session>>
  /\ session # Nobody => state = "CONNECTED"

AgentInv == AgentTypeOK /\ Heard /\ ReadyIsActive

-----------------------------------------------------------------------------
(* The agent's type correctness                                             *)

\* A session is somebody.
LEMMA SessionType == \A s \in Sessions : s # Nobody
BY AgentAssumption

\* Gaps are states the manager is in without a session.
LEMMA GapsType == \A new \in Gaps : new \in ev!Idle
BY AgentAssumption DEF ev!Idle

\* The steps of the manager and of the network keep the types.
LEMMA ManagerType ==
  ASSUME AgentTypeOK,
         \/ \E s \in Sessions : ManagerConnects(s) \/ Dies(s) \/ Reports(s)
         \/ \E new \in Gaps : ManagerGivesUp(new)
         \/ OnTunnelStateChange
  PROVE  AgentTypeOK'
<1>. USE DEF AgentTypeOK, eventVars, agentVars, wireVars, serverVars
<1>1. ASSUME NEW s \in Sessions, ManagerConnects(s)  PROVE AgentTypeOK'
  BY <1>1 DEF ManagerConnects, ev!Up
<1>2. ASSUME NEW s \in Sessions, Dies(s)  PROVE AgentTypeOK'
  BY <1>2 DEF Dies
<1>3. ASSUME NEW s \in Sessions, Reports(s)  PROVE AgentTypeOK'
  <2>1. phase' \in [Sessions -> Phases]
    BY <1>3 DEF Reports, GoTo, Phases
  <2>2. CASE Reported(s)
    BY <1>3, <2>1, <2>2 DEF Reports, ev!Down, ev!Idle
  <2>3. CASE ~Reported(s)
    BY <1>3, <2>1, <2>3 DEF Reports
  <2>. QED  BY <2>2, <2>3
<1>4. ASSUME NEW new \in Gaps, ManagerGivesUp(new)  PROVE AgentTypeOK'
  BY <1>4, GapsType DEF ManagerGivesUp, ev!Down
<1>5. CASE OnTunnelStateChange
  BY <1>5 DEF OnTunnelStateChange, Phases, Handshake
<1>. QED  BY <1>1, <1>2, <1>3, <1>4, <1>5

\* The handshake keeps the types.
LEMMA HandshakeType ==
  ASSUME AgentTypeOK, NEW s \in Sessions, HandshakeStep(s)
  PROVE  AgentTypeOK'
<1>. USE AgentAssumption
     DEF AgentTypeOK, eventVars, agentVars, wireVars, serverVars, GoTo, Phases,
         Handshake, Working, NoWelcome
<1>1. ASSUME NEW has \in BOOLEAN, WelcomeLists(s, has)  PROVE AgentTypeOK'
  BY <1>1 DEF WelcomeLists
<1>2. CASE WelcomeStamps(s)
  <2>1. revision \in 0..(MaxTruth + 1)
    OBVIOUS
  <2>. QED  BY <1>2, <2>1 DEF WelcomeStamps
<1>3. CASE WelcomeSent(s)
  BY <1>3 DEF WelcomeSent
<1>4. CASE HandshakeFails(s)
  BY <1>4 DEF HandshakeFails
<1>5. CASE Accept(s)
  BY <1>5 DEF Accept
<1>6. CASE AcceptRefused(s)
  BY <1>6 DEF AcceptRefused
<1>7. CASE StartServing(s)
  <2>1. [of |-> welcome[s].of, from |-> s]
          \in [of: 0..MaxTruth, from: Sessions \cup {Nobody}]
    OBVIOUS
  <2>. QED  BY <1>7, <2>1 DEF StartServing, UpdateInventory
<1>. QED  BY <1>1, <1>2, <1>3, <1>4, <1>5, <1>6, <1>7 DEF HandshakeStep

\* Heartbeats keep the types.
LEMMA BeatType ==
  ASSUME AgentTypeOK, NEW s \in Sessions, BeatStep(s)
  PROVE  AgentTypeOK'
<1>. USE AgentAssumption
     DEF AgentTypeOK, eventVars, agentVars, wireVars, serverVars, NoBeat
<1>0. [of |-> beat[s].of, from |-> s]
        \in [of: 0..MaxTruth, from: Sessions \cup {Nobody}]
  OBVIOUS
<1>1. CASE PongLists(s)
  BY <1>1 DEF PongLists
<1>2. CASE PongSent(s)
  <2>1. revision \in 0..(MaxTruth + 1)
    OBVIOUS
  <2>. DEFINE Steps == {"idle", "listed", "sent", "applying"}
              Lists == 0..MaxTruth
              Revs == 0..(MaxTruth + 1)
              Beats == [step: Steps, of: Lists, rev: Revs]
              b == [beat[s] EXCEPT !.step = "sent", !.rev = revision]
  <2>2. beat \in [Sessions -> Beats] /\ "sent" \in Steps /\ revision \in Revs
    BY <2>1
  <2>3. b \in Beats
    <3>. HIDE DEF AgentTypeOK, Steps, Lists, Revs
    <3>. QED  BY <2>2
  <2>4. beat' \in [Sessions -> Beats]
    <3>1. beat' = [beat EXCEPT ![s] = b]
      BY <1>2 DEF PongSent
    <3>. HIDE DEF Beats, b, AgentTypeOK
    <3>. QED  BY <2>2, <2>3, <3>1
  <2>5. UNCHANGED <<eventVars, live, agentVars, phase, welcome, pushes, serverVars>>
    BY <1>2 DEF PongSent
  <2>. QED  BY <2>4, <2>5
<1>3. CASE PongArrives(s)
  BY <1>0, <1>3 DEF PongArrives, RefreshProxyExits
<1>4. CASE PongApplied(s)
  BY <1>0, <1>4 DEF PongApplied, UpdateInventory
<1>. QED  BY <1>1, <1>2, <1>3, <1>4 DEF BeatStep

Pushes == [step: {"new", "sent", "applying"}, of: 0..MaxTruth, rev: 2..(MaxTruth + 1)]

\* Pushes keep the types.
LEMMA PushType ==
  ASSUME AgentTypeOK, NEW s \in Sessions, NEW p \in pushes[s],
         PushLists(s, p) \/ PushArrives(s, p) \/ PushApplied(s, p)
  PROVE  AgentTypeOK'
<1>. USE AgentAssumption
<1>0. /\ p \in Pushes /\ pushes \in [Sessions -> SUBSET Pushes]
      /\ truth \in 0..MaxTruth
  BY DEF AgentTypeOK, Pushes
<1>1. ASSUME NEW now \in SUBSET Pushes, PushStep(s, p, now)
      PROVE  pushes' \in [Sessions -> SUBSET Pushes]
  BY <1>0, <1>1 DEF PushStep
<1>2. CASE PushLists(s, p)
  <2>1. [p EXCEPT !.step = "sent", !.of = truth] \in Pushes
    BY <1>0 DEF Pushes
  <2>2. pushes' \in [Sessions -> SUBSET Pushes]
    BY <1>1, <1>2, <2>1 DEF PushLists
  <2>. QED  BY <1>2, <2>2
            DEF PushLists, AgentTypeOK, eventVars, agentVars, serverVars, Pushes
<1>3. CASE PushArrives(s, p)
  <2>1. [p EXCEPT !.step = "applying"] \in Pushes
    BY <1>0 DEF Pushes
  <2>2. pushes' \in [Sessions -> SUBSET Pushes]
    BY <1>1, <1>3, <2>1 DEF PushArrives
  <2>3. /\ list' \in [of: 0..MaxTruth, from: Sessions \cup {Nobody}]
        /\ rev' \in 0..(MaxTruth + 1)
    BY <1>0, <1>3 DEF PushArrives, RefreshProxyExits, AgentTypeOK, Pushes
  <2>. QED  BY <1>3, <2>2, <2>3
            DEF PushArrives, AgentTypeOK, eventVars, serverVars, Pushes
<1>4. CASE PushApplied(s, p)
  <2>1. pushes' \in [Sessions -> SUBSET Pushes]
    BY <1>1, <1>4 DEF PushApplied
  <2>2. direct' \in [of: 0..MaxTruth, from: Sessions \cup {Nobody}]
    BY <1>0, <1>4 DEF PushApplied, UpdateInventory, AgentTypeOK, Pushes
  <2>. QED  BY <1>4, <2>1, <2>2
            DEF PushApplied, AgentTypeOK, eventVars, serverVars, Pushes
<1>. QED  BY <1>2, <1>3, <1>4

\* The Server's steps keep the types.
LEMMA ServerType ==
  ASSUME AgentTypeOK, TruthChanges \/ Announce \/ ServerRestarts
  PROVE  AgentTypeOK'
<1>. USE AgentAssumption
<1>1. CASE TruthChanges
  BY <1>1 DEF TruthChanges, AgentTypeOK, eventVars, agentVars, wireVars
<1>2. CASE Announce
  <2>1. /\ unannounced' \in 0..truth' /\ revision' \in 1..(truth' + 1 - unannounced')
        /\ truth' = truth
        /\ revision + 1 \in 2..(MaxTruth + 1)
    BY <1>2 DEF Announce, NextRevision, AgentTypeOK
  <2>2. [step |-> "new", of |-> 0, rev |-> revision + 1] \in Pushes
    BY <2>1 DEF Pushes
  <2>3. pushes \in [Sessions -> SUBSET Pushes]
    BY DEF AgentTypeOK, Pushes
  <2>4. pushes' \in [Sessions -> SUBSET Pushes]
    BY <1>2, <2>2, <2>3 DEF Announce
  <2>. QED  BY <1>2, <2>1, <2>4
            DEF Announce, AgentTypeOK, eventVars, agentVars, Pushes
<1>3. CASE ServerRestarts
  BY <1>3 DEF ServerRestarts, AgentTypeOK, eventVars, agentVars, wireVars
<1>. QED  BY <1>1, <1>2, <1>3

\* The end of a session keeps the types.
LEMMA EndType ==
  ASSUME AgentTypeOK, NEW s \in Sessions, EndStep(s)
  PROVE  AgentTypeOK'
<1>. USE AgentAssumption
     DEF AgentTypeOK, eventVars, agentVars, wireVars, serverVars, GoTo, Phases,
         Working, NoBeat, Nothing
<1>1. CASE Stops(s)
  BY <1>1 DEF Stops
<1>2. CASE Clears(s)
  BY <1>2 DEF Clears, UpdateInventory
<1>3. CASE Ends(s)
  BY <1>3 DEF Ends
<1>. QED  BY <1>1, <1>2, <1>3 DEF EndStep

\* Close keeps the types.
LEMMA CloseType ==
  ASSUME AgentTypeOK, CloseCancels \/ CloseStep \/ Closed
  PROVE  AgentTypeOK'
<1>. USE AgentAssumption
     DEF AgentTypeOK, eventVars, agentVars, wireVars, serverVars, Nothing, CloseStep
<1>1. CASE CloseCancels
  BY <1>1 DEF CloseCancels
<1>2. CASE CloseDirect
  BY <1>2 DEF CloseDirect
<1>3. CASE CloseTunnel
  BY <1>3 DEF CloseTunnel, ev!Shut
<1>4. CASE CloseReturns
  BY <1>4 DEF CloseReturns
<1>5. CASE Closed
  BY <1>5 DEF Closed, allVars
<1>. QED  BY <1>1, <1>2, <1>3, <1>4, <1>5

\* Every step keeps the types.
LEMMA TypeStep ==
  ASSUME AgentTypeOK, [AgentNext]_allVars
  PROVE  AgentTypeOK'
<1>1. CASE UNCHANGED allVars
  BY <1>1 DEF AgentTypeOK, allVars, eventVars, agentVars, wireVars, serverVars
<1>. QED
  BY <1>1, ManagerType, HandshakeType, BeatType, PushType, ServerType, EndType,
     CloseType DEF AgentNext

-----------------------------------------------------------------------------
(* The approved session                                                     *)

\* A step of the rest of the system may only move the approved session's
\* goroutine among the phases of an approved session.
LEMMA Aside ==
  ASSUME AgentTypeOK, Heard, ReadyIsActive,
         UNCHANGED <<eventVars, calling, epoch, closing>>,
         ready' \in {ready, Nobody},
         \A s \in Sessions : phase'[s] = phase[s] \/ s # ready'
                             \/ phase'[s] \in {"accepted", "ended"} \cup Working
  PROVE  Heard' /\ ReadyIsActive'
BY DEF Heard, ReadyIsActive, eventVars, AgentTypeOK

\* Every step keeps what is known of the manager and of the approved session.
LEMMA ReadyStep ==
  ASSUME AgentTypeOK, Heard, ReadyIsActive, [AgentNext]_allVars
  PROVE  Heard' /\ ReadyIsActive'
<1>. USE DEF agentVars, wireVars, serverVars, GoTo
<1>1. ASSUME NEW s \in Sessions, ManagerConnects(s)
      PROVE  Heard' /\ ReadyIsActive'
  BY <1>1 DEF ManagerConnects, ev!Up, Heard, ReadyIsActive
<1>2. ASSUME NEW new \in ev!Idle, ~calling, ev!Down(new), calling' = (heard' # heard),
             UNCHANGED <<epoch, ready, closing>>,
             ready # Nobody => phase'[ready] = phase[ready]
      PROVE  Heard' /\ ReadyIsActive'
  <2>1. /\ session' = Nobody /\ state' = new
        /\ heard' = IF state = new THEN heard ELSE <<new, Nobody>>
    BY <1>2 DEF ev!Down
  <2>2. Heard'
    <3>1. state = new => session = Nobody
      BY DEF Heard, ev!Idle
    <3>. QED  BY <1>2, <2>1, <3>1 DEF Heard
  <2>3. ASSUME ready # Nobody
        PROVE  calling'
    <3>1. session = ready /\ closing = "open"
      BY <1>2, <2>3 DEF ReadyIsActive
    <3>2. heard = <<"CONNECTED", ready>> /\ state = "CONNECTED"
      BY <2>3, <3>1 DEF Heard
    <3>3. heard' = <<new, Nobody>>
      BY <2>1, <3>2 DEF ev!Idle
    <3>. QED  BY <1>2, <2>3, <3>2, <3>3
  <2>4. ReadyIsActive'
    BY <1>2, <2>3 DEF ReadyIsActive
  <2>. QED  BY <2>2, <2>4
<1>3. ASSUME NEW new \in Gaps, ManagerGivesUp(new)
      PROVE  Heard' /\ ReadyIsActive'
  BY <1>2, <1>3, GapsType DEF ManagerGivesUp
<1>4. ASSUME NEW s \in Sessions, Reports(s)
      PROVE  Heard' /\ ReadyIsActive'
  <2>1. s # ready
    BY <1>4, SessionType DEF Reports, ReadyIsActive, Working
  <2>2. phase' = [phase EXCEPT ![s] = "none"]
    BY <1>4 DEF Reports
  <2>3. CASE Reported(s)
    <3>1. "DISCONNECTED" \in ev!Idle
      BY DEF ev!Idle
    <3>2. ready # Nobody => phase'[ready] = phase[ready]
      BY <2>1, <2>2 DEF AgentTypeOK
    <3>. QED  BY <1>2, <1>4, <2>3, <3>1, <3>2 DEF Reports
  <2>4. CASE ~Reported(s)
    BY <1>4, <2>1, <2>2, <2>4, Aside DEF Reports, AgentTypeOK, eventVars
  <2>. QED  BY <2>3, <2>4
<1>5. CASE OnTunnelStateChange
  <2>1. CASE closing # "open" \/ heard # <<state, session>>
    BY <1>5, <2>1 DEF OnTunnelStateChange, Heard, ReadyIsActive
  <2>2. CASE ~(closing # "open" \/ heard # <<state, session>>)
    BY <1>5, <2>2 DEF OnTunnelStateChange, Heard, ReadyIsActive
  <2>. QED  BY <2>1, <2>2
<1>6. ASSUME NEW s \in Sessions, Accept(s)
      PROVE  Heard' /\ ReadyIsActive'
  <2>1. /\ ready' = s /\ epoch = s /\ session = s /\ closing = "open"
        /\ phase'[s] = "accepted"
        /\ UNCHANGED <<eventVars, epoch, closing>>
    BY <1>6 DEF Accept, Superseded, AgentTypeOK
  <2>. QED  BY <2>1 DEF Heard, ReadyIsActive, eventVars
<1>7. ASSUME NEW s \in Sessions,
             \/ \E has \in BOOLEAN : WelcomeLists(s, has)
             \/ WelcomeStamps(s) \/ WelcomeSent(s)
             \/ HandshakeFails(s) \/ AcceptRefused(s)
      PROVE  Heard' /\ ReadyIsActive'
  <2>1. phase[s] \in Handshake
    BY <1>7 DEF WelcomeLists, WelcomeStamps, WelcomeSent, HandshakeFails,
                AcceptRefused, Handshake
  <2>2. s # ready \/ ready = Nobody
    BY <2>1 DEF ReadyIsActive, Handshake, Working
  <2>3. /\ UNCHANGED <<eventVars, epoch, closing, ready>>
        /\ \A t \in Sessions : t # s => phase'[t] = phase[t]
    BY <1>7 DEF WelcomeLists, WelcomeStamps, WelcomeSent, HandshakeFails,
                AcceptRefused, AgentTypeOK
  <2>4. s # Nobody
    BY SessionType
  <2>. QED  BY <2>2, <2>3, <2>4, Aside DEF eventVars
<1>8. ASSUME NEW s \in Sessions, StartServing(s) \/ Stops(s) \/ Clears(s)
      PROVE  Heard' /\ ReadyIsActive'
  <2>1. /\ UNCHANGED <<eventVars, epoch, closing, ready>>
        /\ \A t \in Sessions : t # s => phase'[t] = phase[t]
        /\ phase'[s] \in {"accepted", "ended"} \cup Working
    BY <1>8 DEF StartServing, Stops, Clears, AgentTypeOK, Working
  <2>. QED  BY <2>1, Aside DEF eventVars
<1>9. ASSUME NEW s \in Sessions, Ends(s)
      PROVE  Heard' /\ ReadyIsActive'
  <2>1. /\ UNCHANGED <<eventVars, epoch, closing>>
        /\ \A t \in Sessions : t # s => phase'[t] = phase[t]
        /\ ready' \in {ready, Nobody}
    BY <1>9 DEF Ends, AgentTypeOK
  <2>2. s # ready'
    BY <1>9, AgentAssumption DEF Ends, EndsOwn, ReadyIsActive
  <2>. QED  BY <2>1, <2>2, Aside DEF eventVars
<1>10. CASE CloseTunnel
  BY <1>10 DEF CloseTunnel, ev!Shut, Heard, ReadyIsActive
<1>11. CASE CloseCancels \/ CloseDirect \/ CloseReturns
  BY <1>11 DEF CloseCancels, CloseDirect, CloseReturns, Heard, ReadyIsActive, eventVars
<1>12. CASE \/ \E s \in Sessions : Dies(s) \/ BeatStep(s)
            \/ \E s \in Sessions : \E p \in pushes[s] :
                 PushLists(s, p) \/ PushArrives(s, p) \/ PushApplied(s, p)
            \/ TruthChanges \/ Announce \/ ServerRestarts
  <2>1. UNCHANGED <<eventVars, epoch, closing, ready, phase>>
    BY <1>12 DEF Dies, BeatStep, PongLists, PongSent, PongArrives, PongApplied,
                 PushLists, PushArrives, PushApplied, TruthChanges, Announce,
                 ServerRestarts
  <2>. QED  BY <2>1, Aside DEF eventVars
<1>13. CASE Closed \/ UNCHANGED allVars
  BY <1>13, Aside DEF Closed, allVars, eventVars
<1>. QED
  BY <1>1, <1>3, <1>4, <1>5, <1>6, <1>7, <1>8, <1>9, <1>10, <1>11, <1>12, <1>13
  DEF AgentNext, HandshakeStep, EndStep, CloseStep

-----------------------------------------------------------------------------
(* The agent's theorems                                                     *)

\* Nothing is connected or approved to begin with.
LEMMA AgentInitInv ==
  ASSUME AgentInit
  PROVE  AgentInv
<1>0. 0 \in 0..MaxTruth /\ 0 \in 0..(MaxTruth + 1) /\ MaxTruth \in Nat
  BY AgentAssumption
<1>a. /\ NoWelcome \in [has: BOOLEAN, of: 0..MaxTruth, rev: 0..(MaxTruth + 1)]
      /\ NoBeat \in [step: {"idle", "listed", "sent", "applying"},
                     of: 0..MaxTruth, rev: 0..(MaxTruth + 1)]
      /\ Nothing \in [of: 0..MaxTruth, from: Sessions \cup {Nobody}]
      /\ "none" \in Phases
  BY <1>0 DEF NoWelcome, NoBeat, Nothing, Phases
<1>1. AgentTypeOK
  <2>1. state \in ev!Idle /\ session = Nobody
    BY DEF AgentInit, ev!EventsInit, ev!Idle
  <2>2. /\ truth \in 0..MaxTruth /\ unannounced \in 0..truth
        /\ revision \in 1..(truth + 1 - unannounced)
    BY <1>0 DEF AgentInit
  <2>3. /\ phase \in [Sessions -> Phases]
        /\ welcome \in [Sessions ->
             [has: BOOLEAN, of: 0..MaxTruth, rev: 0..(MaxTruth + 1)]]
        /\ beat \in [Sessions -> [step: {"idle", "listed", "sent", "applying"},
                                  of: 0..MaxTruth, rev: 0..(MaxTruth + 1)]]
        /\ pushes \in [Sessions -> SUBSET
             [step: {"new", "sent", "applying"}, of: 0..MaxTruth,
              rev: 2..(MaxTruth + 1)]]
    BY <1>a DEF AgentInit
  <2>4. /\ calling \in BOOLEAN /\ live \subseteq Sessions
        /\ epoch = Nobody /\ ready = Nobody
        /\ list = Nothing /\ rev = 0 /\ direct = Nothing /\ closing = "open"
    BY DEF AgentInit
  <2>. QED  BY <1>0, <1>a, <2>1, <2>2, <2>3, <2>4 DEF AgentTypeOK
<1>2. Heard /\ ReadyIsActive
  BY DEF AgentInit, Heard, ReadyIsActive, ev!EventsInit
<1>. QED  BY <1>1, <1>2 DEF AgentInv

\* The invariant holds in every reachable state.
THEOREM AgentInvariant == AgentSpec => []AgentInv
<1>1. AgentInv /\ [AgentNext]_allVars => AgentInv'
  BY TypeStep, ReadyStep DEF AgentInv
<1>. QED  BY AgentInitInv, <1>1, PTL DEF AgentSpec

\* The agent's, the manager's and the Gateway's variables stay in their ranges.
THEOREM AgentTypeCorrect == AgentSpec => []AgentTypeOK
<1>1. AgentInv => AgentTypeOK
  BY DEF AgentInv
<1>. QED  BY <1>1, AgentInvariant, PTL

\* However callbacks, handshakes, heartbeats and Close overlap, the approved
\* session is the active one until the manager says that it is not.
THEOREM ApprovedIsActive == AgentSpec => []ReadyIsActive
<1>1. AgentInv => ReadyIsActive
  BY DEF AgentInv
<1>. QED  BY <1>1, AgentInvariant, PTL

ListStep == list' # list => list'.from = ready' /\ ready' # Nobody

\* No snapshot of a session that was replaced becomes the agent's list.
THEOREM ListIsOfReadySession == AgentSpec => ListOfReadySession
<1>1. ASSUME [AgentNext]_allVars
      PROVE  ListStep
  <2>. USE AgentAssumption DEF ListStep, agentVars, wireVars, serverVars
  <2>1. ASSUME NEW s \in Sessions, Accept(s)
        PROVE  ListStep
    BY <2>1 DEF Accept
  <2>2. ASSUME NEW s \in Sessions, NEW of, NEW r, RefreshProxyExits(s, of, r),
               UNCHANGED ready
        PROVE  ListStep
    BY <2>2 DEF RefreshProxyExits, Taken
  <2>3. ASSUME NEW s \in Sessions, PongArrives(s)
        PROVE  ListStep
    BY <2>2, <2>3 DEF PongArrives
  <2>4. ASSUME NEW s \in Sessions, NEW p \in pushes[s], PushArrives(s, p)
        PROVE  ListStep
    BY <2>2, <2>4 DEF PushArrives
  <2>5. CASE UNCHANGED list
    BY <2>5
  <2>6. ASSUME NEW s \in Sessions, HandshakeStep(s), ~Accept(s)
        PROVE  UNCHANGED list
    BY <2>6 DEF HandshakeStep, WelcomeLists, WelcomeStamps, WelcomeSent,
                HandshakeFails, AcceptRefused, StartServing
  <2>7. ASSUME NEW s \in Sessions, BeatStep(s), ~PongArrives(s)
        PROVE  UNCHANGED list
    BY <2>7 DEF BeatStep, PongLists, PongSent, PongApplied
  <2>8. ASSUME NEW s \in Sessions,
               ManagerConnects(s) \/ Dies(s) \/ EndStep(s) \/ Reports(s)
        PROVE  UNCHANGED list
    BY <2>8 DEF ManagerConnects, Dies, EndStep, Stops, Clears, Ends, Reports
  <2>9. ASSUME NEW s \in Sessions, NEW p \in pushes[s],
               PushLists(s, p) \/ PushApplied(s, p)
        PROVE  UNCHANGED list
    BY <2>9 DEF PushLists, PushApplied
  <2>10. CASE \/ \E new \in Gaps : ManagerGivesUp(new)
              \/ OnTunnelStateChange \/ TruthChanges \/ Announce \/ ServerRestarts
    BY <2>5, <2>10 DEF ManagerGivesUp, OnTunnelStateChange, TruthChanges, Announce,
                       ServerRestarts
  <2>11. CASE CloseCancels \/ CloseStep \/ Closed \/ UNCHANGED allVars
    BY <2>5, <2>11 DEF CloseCancels, CloseStep, CloseDirect, CloseTunnel,
                       CloseReturns, Closed, allVars
  <2>. QED
    BY <1>1, <2>1, <2>3, <2>4, <2>5, <2>6, <2>7, <2>8, <2>9, <2>10, <2>11 DEF AgentNext
<1>2. ASSUME UNCHANGED allVars
      PROVE  ListStep
  BY <1>2 DEF ListStep, allVars, agentVars
<1>. QED  BY <1>1, PTL DEF AgentSpec, ListOfReadySession, ListStep

-----------------------------------------------------------------------------
(* The multiplexer's inductive invariant                                    *)

\* The table has the channels between their opening and their removal, each
\* under its own id.
Registered ==
  /\ \A i \in Ids : table[i] # None =>
       id[table[i]] = i /\ channel[table[i]] \in {"open", "closed", "cleaned"}
  /\ \A c \in Channels : channel[c] \in {"open", "closed", "cleaned"} =>
       id[c] \in Ids /\ table[id[c]] = c

\* A connection is open, read and written to only once its cleanup is the
\* channel's.
CleanupFirst ==
  \A c \in Channels :
    /\ conn[c] \in {"made", "open"} => "cleanup" \in hooks[c]
    /\ "cleanup" \notin hooks[c] => pending[c] = {} /\ reader[c].at = "idle"

\* A reader that has a frame took it from a queue.
TookFrame ==
  \A c \in Channels : reader[c].at = "took" => reader[c].frame \in Fragments

\* pending is a map from the packet's number.
OnePerPacket ==
  \A c \in Channels : \A p, q \in pending[c] : p.packet = q.packet => p = q

IInv == /\ TypeOK /\ Registered /\ ClosedHoldsNothing /\ CleanupFirst /\ TookFrame
        /\ OnePerPacket /\ BudgetIsExact

-----------------------------------------------------------------------------
(* Sums                                                                     *)

\* The places that Total counts, an element's and all.
Row(x, n) == {x} \X (1..n)
Places(f) == UNION {Row(x, f[x]) : x \in DOMAIN f}

\* Total counts them.
LEMMA TotalPlaces ==
  ASSUME NEW f
  PROVE  Total(f) = Cardinality(Places(f))
BY DEF Total, Places, Row

\* The numbers up to n.
LEMMA Interval ==
  ASSUME NEW n \in Nat
  PROVE  IsFiniteSet(1..n) /\ Cardinality(1..n) = n
<1>1. n \in Int /\ 1 \in Int
  OBVIOUS
<1>2. /\ IsFiniteSet(1..n)
      /\ Cardinality(1..n) = IF 1 > n THEN 0 ELSE n - 1 + 1
  BY <1>1, FS_Interval
<1>. QED  BY <1>2

\* A place is an element of the domain and one of its units.
LEMMA InPlaces ==
  ASSUME NEW S, NEW f \in [S -> Nat]
  PROVE  /\ \A x \in S : \A k \in 1..f[x] : <<x, k>> \in Places(f)
         /\ \A z \in Places(f) : \E x \in S : \E k \in 1..f[x] : z = <<x, k>>
BY DEF Places, Row

\* An element's places.
LEMMA RowSize ==
  ASSUME NEW x, NEW n \in Nat
  PROVE  IsFiniteSet(Row(x, n)) /\ Cardinality(Row(x, n)) = n
<1>. USE DEF Row
<1>1. IsFiniteSet(1..n) /\ Cardinality(1..n) = n
  BY Interval
<1>2. IsFiniteSet({x}) /\ Cardinality({x}) = 1
  BY FS_Singleton
<1>3. /\ IsFiniteSet({x} \X (1..n))
      /\ Cardinality({x} \X (1..n)) = Cardinality({x}) * Cardinality(1..n)
  BY <1>1, <1>2, FS_Product
<1>4. Cardinality({x} \X (1..n)) = 1 * n
  BY <1>1, <1>2, <1>3
<1>. QED  BY <1>3, <1>4

\* A finite function has finitely many places.
LEMMA PlacesFinite ==
  ASSUME NEW S, IsFiniteSet(S), NEW f \in [S -> Nat]
  PROVE  IsFiniteSet(Places(f))
<1>. DEFINE B == {Row(x, f[x]) : x \in S}
            g == [x \in S |-> Row(x, f[x])]
<1>1. g \in Surjection(S, B)
  BY DEF Surjection
<1>2. IsFiniteSet(B)
  BY <1>1, FS_Surjection
<1>3. \A T \in B : IsFiniteSet(T)
  <2>1. ASSUME NEW x \in S  PROVE IsFiniteSet(Row(x, f[x]))
    <3>1. f[x] \in Nat
      OBVIOUS
    <3>. QED  BY <3>1, RowSize
  <2>. QED  BY <2>1
<1>. QED  BY <1>2, <1>3, FS_UNION DEF Places

\* A sum of natural numbers is one.
LEMMA TotalType ==
  ASSUME NEW S, IsFiniteSet(S), NEW f \in [S -> Nat]
  PROVE  Total(f) \in Nat
BY PlacesFinite, FS_CardinalityType, TotalPlaces

\* A sum over a set is the sum over a part and over the rest.
LEMMA TotalSplit ==
  ASSUME NEW S, IsFiniteSet(S), NEW T \in SUBSET S, NEW f \in [S -> Nat]
  PROVE  Total(f) = Total([x \in T |-> f[x]]) + Total([x \in S \ T |-> f[x]])
<1>. DEFINE g == [x \in T |-> f[x]]
            h == [x \in S \ T |-> f[x]]
<1>1. g \in [T -> Nat] /\ h \in [S \ T -> Nat]
  OBVIOUS
<1>2. IsFiniteSet(T) /\ IsFiniteSet(S \ T)
  BY FS_Subset
<1>3. IsFiniteSet(Places(g)) /\ IsFiniteSet(Places(h))
  BY <1>1, <1>2, PlacesFinite
<1>4. Places(f) = Places(g) \cup Places(h)
  BY DEF Places
<1>5. Places(g) \cap Places(h) = {}
  <2>. SUFFICES ASSUME NEW z \in Places(g), z \in Places(h)  PROVE FALSE
    OBVIOUS
  <2>1. PICK x \in T : \E k \in 1..g[x] : z = <<x, k>>
    BY <1>1, InPlaces
  <2>2. PICK y \in S \ T : \E l \in 1..h[y] : z = <<y, l>>
    BY <1>1, InPlaces
  <2>. QED  BY <2>1, <2>2
<1>6. Cardinality(Places(g) \cap Places(h)) = 0
  BY <1>5, FS_EmptySet
<1>7. Cardinality(Places(g)) \in Nat /\ Cardinality(Places(h)) \in Nat
  BY <1>3, FS_CardinalityType
<1>8. Cardinality(Places(f)) = Cardinality(Places(g)) + Cardinality(Places(h))
  <2>. HIDE DEF g, h
  <2>1. Cardinality(Places(g) \cup Places(h))
          = Cardinality(Places(g)) + Cardinality(Places(h))
              - Cardinality(Places(g) \cap Places(h))
    BY <1>3, FS_Union, Zenon
  <2>. QED  BY <1>4, <1>6, <1>7, <2>1
<1>. QED  BY <1>8, TotalPlaces

\* A sum over one element.
LEMMA TotalOne ==
  ASSUME NEW x, NEW f \in [{x} -> Nat]
  PROVE  Total(f) = f[x]
<1>1. Places(f) = Row(x, f[x]) /\ f[x] \in Nat
  BY DEF Places
<1>. QED  BY <1>1, RowSize, TotalPlaces

\* A sum over nothing.
LEMMA TotalNone ==
  ASSUME NEW f \in [{} -> Nat]
  PROVE  Total(f) = 0
<1>1. Places(f) = {}
  BY DEF Places
<1>. QED  BY <1>1, FS_EmptySet, TotalPlaces

\* One element counts for what it counts for, the others count as they did.
LEMMA TotalChange ==
  ASSUME NEW S, IsFiniteSet(S), NEW f \in [S -> Nat], NEW g \in [S -> Nat],
         NEW x \in S, \A y \in S \ {x} : g[y] = f[y]
  PROVE  /\ Total(f) \in Nat /\ f[x] <= Total(f)
         /\ Total(g) = Total(f) - f[x] + g[x]
<1>. DEFINE One(k) == [y \in {x} |-> k[y]]
            Rest(k) == [y \in S \ {x} |-> k[y]]
<1>1. {x} \in SUBSET S /\ IsFiniteSet(S \ {x})
  BY FS_RemoveElement
<1>2. Total(f) = Total(One(f)) + Total(Rest(f))
  BY <1>1, TotalSplit
<1>3. Total(g) = Total(One(g)) + Total(Rest(g))
  BY <1>1, TotalSplit
<1>4. Total(One(f)) = f[x] /\ Total(One(g)) = g[x]
  <2>1. One(f) \in [{x} -> Nat] /\ One(g) \in [{x} -> Nat]
    OBVIOUS
  <2>. QED  BY <2>1, TotalOne
<1>5. Rest(g) = Rest(f)
  OBVIOUS
<1>6. Total(Rest(f)) \in Nat
  <2>1. Rest(f) \in [S \ {x} -> Nat]
    OBVIOUS
  <2>. QED  BY <1>1, <2>1, TotalType
<1>7. f[x] \in Nat /\ g[x] \in Nat
  OBVIOUS
<1>. HIDE DEF One, Rest
<1>. QED  BY <1>2, <1>3, <1>4, <1>5, <1>6, <1>7

-----------------------------------------------------------------------------
(* What is pending                                                          *)

\* Pending packets reserve what they count.
LEMMA Counts ==
  ASSUME NEW ps \in SUBSET Pendings
  PROVE  [p \in ps |-> Reserved(p)] \in [ps -> Nat]
BY DEF Pendings, Reserved

\* What packets hold is what some of them and the others hold.
LEMMA HeldSplit ==
  ASSUME NEW ps \in SUBSET Pendings, IsFiniteSet(ps), NEW qs \in SUBSET ps
  PROVE  /\ Held(ps) = Held(qs) + Held(ps \ qs)
         /\ Held(qs) \in Nat /\ Held(ps \ qs) \in Nat /\ Held(ps) \in Nat
<1>. DEFINE f == [p \in ps |-> Reserved(p)]
<1>1. f \in [ps -> Nat]
  BY Counts
<1>2. Total(f) = Total([p \in qs |-> f[p]]) + Total([p \in ps \ qs |-> f[p]])
  BY <1>1, TotalSplit
<1>3. /\ [p \in qs |-> f[p]] = [p \in qs |-> Reserved(p)]
      /\ [p \in ps \ qs |-> f[p]] = [p \in ps \ qs |-> Reserved(p)]
  OBVIOUS
<1>4. Held(ps) = Held(qs) + Held(ps \ qs)
  BY <1>2, <1>3 DEF Held
<1>5. \A rs \in SUBSET ps : Held(rs) \in Nat
  <2>. SUFFICES ASSUME NEW rs \in SUBSET ps  PROVE Held(rs) \in Nat
    OBVIOUS
  <2>1. IsFiniteSet(rs) /\ [p \in rs |-> Reserved(p)] \in [rs -> Nat]
    BY FS_Subset, Counts
  <2>. QED  BY <2>1, TotalType DEF Held
<1>. QED  BY <1>4, <1>5

\* A packet more, or a packet less.
LEMMA HeldOne ==
  ASSUME NEW ps \in SUBSET Pendings, IsFiniteSet(ps), NEW p \in ps
  PROVE  Held(ps) = Held(ps \ {p}) + Reserved(p) /\ Reserved(p) \in Nat
<1>1. {p} \in SUBSET ps /\ {p} \in SUBSET Pendings
  OBVIOUS
<1>2. [q \in {p} |-> Reserved(q)] \in [{p} -> Nat]
  BY <1>1, Counts
<1>3. Held({p}) = Reserved(p)
  BY <1>2, TotalOne DEF Held
<1>4. Held(ps) = Held({p}) + Held(ps \ {p}) /\ Held({p}) \in Nat /\ Held(ps \ {p}) \in Nat
  BY <1>1, HeldSplit
<1>. QED  BY <1>3, <1>4

\* Nothing holds nothing.
LEMMA HeldNone == Held({}) = 0
<1>1. [p \in {} |-> Reserved(p)] \in [{} -> Nat]
  OBVIOUS
<1>. QED  BY <1>1, TotalNone DEF Held

-----------------------------------------------------------------------------
(* Draining                                                                 *)

\* A finite set of numbers has an element at each place.
LEMMA PlaceInSet ==
  ASSUME NEW S \in SUBSET Nat, IsFiniteSet(S), NEW n \in 1..Cardinality(S)
  PROVE  Place(S, n) \in S
<1>. DEFINE UpTo(k) == {j \in S : j <= k}
            T == 1..Cardinality(S)
            r == [k \in S |-> Cardinality(UpTo(k))]
<1>0. Cardinality(S) \in Nat
  BY FS_CardinalityType
<1>1. \A k \in S : IsFiniteSet(UpTo(k)) /\ Cardinality(UpTo(k)) \in T
  <2>. SUFFICES ASSUME NEW k \in S
                PROVE  IsFiniteSet(UpTo(k)) /\ Cardinality(UpTo(k)) \in T
    OBVIOUS
  <2>1. UpTo(k) \in SUBSET S /\ k \in UpTo(k)
    OBVIOUS
  <2>2. IsFiniteSet(UpTo(k)) /\ Cardinality(UpTo(k)) <= Cardinality(S)
    BY <2>1, FS_Subset
  <2>3. Cardinality(UpTo(k)) \in Nat /\ Cardinality(UpTo(k)) # 0
    BY <2>1, <2>2, FS_CardinalityType, FS_EmptySet
  <2>. QED  BY <1>0, <2>2, <2>3
<1>2. \A k, l \in S : k < l => Cardinality(UpTo(k)) # Cardinality(UpTo(l))
  <2>. SUFFICES ASSUME NEW k \in S, NEW l \in S, k < l
                PROVE  Cardinality(UpTo(k)) # Cardinality(UpTo(l))
    OBVIOUS
  <2>0. k \in Nat /\ l \in Nat /\ \A j \in S : j \in Nat
    OBVIOUS
  <2>1. UpTo(k) \in SUBSET UpTo(l) /\ l \in UpTo(l) /\ l \notin UpTo(k)
    <3>1. \A j \in S : j <= k => j <= l
      BY <2>0
    <3>2. l <= l /\ ~(l <= k)
      BY <2>0
    <3>. QED  BY <3>1, <3>2
  <2>. QED  BY <1>1, <2>1, FS_Subset
<1>3. r \in Injection(S, T)
  <2>1. r \in [S -> T]
    BY <1>1
  <2>2. ASSUME NEW k \in S, NEW l \in S, r[k] = r[l]  PROVE k = l
    <3>1. ~(k < l) /\ ~(l < k)
      BY <1>2, <2>2
    <3>2. k \in Nat /\ l \in Nat
      OBVIOUS
    <3>. QED  BY <3>1, <3>2
  <2>. HIDE DEF r
  <2>. QED  BY <2>1, <2>2 DEF Injection, IsInjective
<1>4. IsFiniteSet(T) /\ Cardinality(T) = Cardinality(S)
  BY <1>0, Interval
<1>5. r \in Surjection(S, T)
  <2>. HIDE DEF r, T
  <2>. QED  BY <1>3, <1>4, FS_Injection
<1>6. PICK k \in S : r[k] = n
  BY <1>5 DEF Surjection
<1>7. Cardinality({j \in S : j <= k}) = n
  BY <1>6
<1>. QED  BY <1>7 DEF Place

\* What is left of a queue without c's elements.
LEMMA WithoutQueue ==
  ASSUME NEW X, NEW q \in Seq(X), NEW c
  PROVE  /\ Without(q, c) \in Seq(X)
         /\ Len(Without(q, c)) <= Len(q)
         /\ \A k \in 1..Len(Without(q, c)) : Without(q, c)[k] # c
<1>. DEFINE S == Others(q, c)
            n == Cardinality(S)
            w == [k \in 1..n |-> q[Place(S, k)]]
<1>1. /\ Len(q) \in Nat /\ DOMAIN q = 1..Len(q)
      /\ \A k \in 1..Len(q) : q[k] \in X
  BY LenProperties, ElementOfSeq
<1>2. IsFiniteSet(1..Len(q)) /\ Cardinality(1..Len(q)) = Len(q)
  BY <1>1, Interval
<1>3. S \in SUBSET (1..Len(q)) /\ \A k \in S : q[k] \in X /\ q[k] # c
  BY <1>1 DEF Others
<1>4. IsFiniteSet(S) /\ n <= Len(q) /\ n \in Nat
  BY <1>2, <1>3, FS_Subset, FS_CardinalityType
<1>5. S \in SUBSET Nat
  BY <1>1, <1>3
<1>6. \A k \in 1..n : Place(S, k) \in S
  BY <1>4, <1>5, PlaceInSet
<1>7. w \in [1..n -> X] /\ \A k \in 1..n : w[k] # c
  BY <1>3, <1>6
<1>. HIDE DEF w, n
<1>8. w \in Seq(X)
  <2>1. w \in [1..n -> X] /\ n \in Nat
    BY <1>4, <1>7
  <2>. QED  BY <2>1, SeqDef
<1>9. Len(w) = n
  <2>1. Len(w) \in Nat /\ DOMAIN w = 1..Len(w)
    BY <1>8, LenProperties, Zenon
  <2>. QED  BY <1>4, <1>7, <2>1
<1>10. Without(q, c) = w
  BY DEF Without, w, n
<1>. QED  BY <1>4, <1>7, <1>8, <1>9, <1>10

-----------------------------------------------------------------------------
(* Which steps change what                                                  *)

\* What is done to a channel and its connection.
OfChannel(c) ==
  \/ \E i \in Ids : Open(c, i)
  \/ Prepare(c) \/ Enqueue(c)
  \/ Close(c) \/ Cleanup(c) \/ Remove(c) \/ MuxClosed(c)
  \/ SetCleanup(c) \/ SetReaper(c) \/ CloseConn(c) \/ ConnClosed(c)
  \/ GrowsIdle(c) \/ GrowsOld(c)
  \/ Read(c) \/ Reading(c) \/ SetDeadline(c) \/ DeadlinePasses(c)

\* A step is one of a channel, of the receive loop, of the session, of its
\* close, of the send loop or of the reaper.
LEMMA NextSplit ==
  ASSUME Next
  PROVE  \/ \E c \in Channels : OfChannel(c)
         \/ \E i \in Ids, f \in Fragments : Deliver(i, f)
         \/ SessionEnds \/ CloseMux
         \/ Sending
         \/ Reaping \/ Fire
BY DEF Next, OfChannel

\* A channel is opened, closed and removed in four steps.
LEMMA TableChange ==
  ASSUME Next
  PROVE  \/ UNCHANGED <<table, channel, id>>
         \/ \E c \in Channels : (\E i \in Ids : Open(c, i)) \/ Close(c)
                                \/ Cleanup(c) \/ Remove(c)
<1>. DEFINE Kept == UNCHANGED <<table, channel, id>>
<1>1. ASSUME NEW c \in Channels, OfChannel(c)
      PROVE  Kept \/ (\E i \in Ids : Open(c, i)) \/ Close(c) \/ Cleanup(c)
             \/ Remove(c)
  BY <1>1 DEF OfChannel, Reading, Prepare, Enqueue, MuxClosed, SetCleanup,
              SetReaper, CloseConn, ConnClosed, GrowsIdle, GrowsOld, Read,
              Look, Block, Unblock, Assemble, SetDeadline, DeadlinePasses,
              muxVars, channelVars, queueVars, connVars, readVars, reapVars
<1>2. ASSUME NEW i \in Ids, NEW f \in Fragments, Deliver(i, f)
      PROVE  Kept
  BY <1>2 DEF Deliver, muxVars, channelVars, queueVars, connVars, readVars,
              reapVars
<1>3. ASSUME SessionEnds \/ CloseMux
      PROVE  Kept
  BY <1>3 DEF SessionEnds, CloseMux, muxVars, channelVars, queueVars,
              connVars, readVars, reapVars
<1>4. ASSUME Sending
      PROVE  Kept
  BY <1>4 DEF Sending, Dequeue, Release, Sent, SenderGoesOn, SenderEnds,
              senderOnly, muxVars, channelVars, queueVars, connVars, readVars,
              reapVars
<1>5. ASSUME Reaping \/ Fire
      PROVE  Kept
  BY <1>5 DEF Reaping, TakeToken, Reaped, EndScan, ReaperEnds, Reap, Fire,
              reaperOnly, muxVars, channelVars, queueVars, connVars, readVars,
              reapVars
<1>. HIDE DEF Kept
<1>. QED  BY <1>1, <1>2, <1>3, <1>4, <1>5, NextSplit DEF Kept

\* The steps of the mux and its channels.
LEMMA MuxChange ==
  ASSUME Next
  PROVE  \/ UNCHANGED <<alive, closed, toClose, hooks>>
         \/ \E c \in Channels : MuxClosed(c) \/ SetCleanup(c) \/ SetReaper(c)
         \/ SessionEnds \/ CloseMux
<1>. DEFINE Kept == UNCHANGED <<alive, closed, toClose, hooks>>
<1>1. ASSUME NEW c \in Channels, OfChannel(c)
      PROVE  Kept \/ MuxClosed(c) \/ SetCleanup(c) \/ SetReaper(c)
  BY <1>1 DEF OfChannel, Reading, Open, Prepare, Enqueue, Close, Cleanup,
              Remove, CloseConn, ConnClosed, GrowsIdle, GrowsOld, Read, Look,
              Block, Unblock, Assemble, SetDeadline, DeadlinePasses, muxVars,
              channelVars, queueVars, connVars, readVars, reapVars
<1>2. ASSUME NEW i \in Ids, NEW f \in Fragments, Deliver(i, f)
      PROVE  Kept
  BY <1>2 DEF Deliver, muxVars, channelVars, queueVars, connVars, readVars,
              reapVars
<1>3. ASSUME Sending
      PROVE  Kept
  BY <1>3 DEF Sending, Dequeue, Release, Sent, SenderGoesOn, SenderEnds,
              senderOnly, muxVars, channelVars, queueVars, connVars, readVars,
              reapVars
<1>4. ASSUME Reaping \/ Fire
      PROVE  Kept
  BY <1>4 DEF Reaping, TakeToken, Reaped, EndScan, ReaperEnds, Reap, Fire,
              reaperOnly, muxVars, channelVars, queueVars, connVars, readVars,
              reapVars
<1>. HIDE DEF Kept
<1>. QED  BY <1>1, <1>2, <1>3, <1>4, NextSplit DEF Kept

\* The steps that queue and take packets.
LEMMA QueueChange ==
  ASSUME Next
  PROVE  \/ UNCHANGED <<frames, send, prepared, sender>>
         \/ \E c \in Channels : Prepare(c) \/ Enqueue(c) \/ Close(c)
                                \/ Look(c) \/ Unblock(c)
         \/ \E i \in Ids, f \in Fragments : Deliver(i, f)
         \/ Dequeue \/ Release \/ Sent \/ SenderGoesOn \/ SenderEnds
<1>. DEFINE Kept == UNCHANGED <<frames, send, prepared, sender>>
<1>1. ASSUME NEW c \in Channels, OfChannel(c)
      PROVE  Kept \/ Prepare(c) \/ Enqueue(c) \/ Close(c) \/ Look(c)
             \/ Unblock(c)
  BY <1>1 DEF OfChannel, Reading, Open, Cleanup, Remove, MuxClosed,
              SetCleanup, SetReaper, CloseConn, ConnClosed, GrowsIdle,
              GrowsOld, Read, Block, Assemble, SetDeadline, DeadlinePasses,
              muxVars, channelVars, queueVars, connVars, readVars, reapVars
<1>2. ASSUME SessionEnds \/ CloseMux
      PROVE  Kept
  BY <1>2 DEF SessionEnds, CloseMux, muxVars, channelVars, queueVars,
              connVars, readVars, reapVars
<1>3. ASSUME Reaping \/ Fire
      PROVE  Kept
  BY <1>3 DEF Reaping, TakeToken, Reaped, EndScan, ReaperEnds, Reap, Fire,
              reaperOnly, muxVars, channelVars, queueVars, connVars, readVars,
              reapVars
<1>. HIDE DEF Kept
<1>. QED  BY <1>1, <1>2, <1>3, NextSplit DEF Sending, Kept

\* The steps of connections, but for their packets.
LEMMA ConnChange ==
  ASSUME Next
  PROVE  \/ UNCHANGED <<conn, idle>>
         \/ \E c \in Channels : Enqueue(c) \/ SetCleanup(c) \/ SetReaper(c)
                                \/ CloseConn(c) \/ ConnClosed(c)
                                \/ GrowsIdle(c) \/ Assemble(c)
         \/ \E c \in Channels : Reap(c)
<1>. DEFINE Kept == UNCHANGED <<conn, idle>>
<1>1. ASSUME NEW c \in Channels, OfChannel(c)
      PROVE  Kept \/ Enqueue(c) \/ SetCleanup(c) \/ SetReaper(c)
             \/ CloseConn(c) \/ ConnClosed(c) \/ GrowsIdle(c) \/ Assemble(c)
  BY <1>1 DEF OfChannel, Reading, Open, Prepare, Close, Cleanup, Remove,
              MuxClosed, GrowsOld, Read, Look, Block, Unblock, SetDeadline,
              DeadlinePasses, muxVars, channelVars, queueVars, connVars,
              readVars, reapVars
<1>2. ASSUME NEW i \in Ids, NEW f \in Fragments, Deliver(i, f)
      PROVE  Kept
  BY <1>2 DEF Deliver, muxVars, channelVars, queueVars, connVars, readVars,
              reapVars
<1>3. ASSUME SessionEnds \/ CloseMux
      PROVE  Kept
  BY <1>3 DEF SessionEnds, CloseMux, muxVars, channelVars, queueVars,
              connVars, readVars, reapVars
<1>4. ASSUME Sending
      PROVE  Kept
  BY <1>4 DEF Sending, Dequeue, Release, Sent, SenderGoesOn, SenderEnds,
              senderOnly, muxVars, channelVars, queueVars, connVars, readVars,
              reapVars
<1>5. ASSUME Reaping \/ Fire
      PROVE  Kept \/ \E c \in Channels : Reap(c)
  BY <1>5 DEF Reaping, TakeToken, Reaped, EndScan, ReaperEnds, Fire,
              reaperOnly, muxVars, channelVars, queueVars, connVars, readVars,
              reapVars
<1>. HIDE DEF Kept
<1>. QED  BY <1>1, <1>2, <1>3, <1>4, <1>5, NextSplit DEF Kept

\* The steps that put packets together or drop them.
LEMMA PendingChange ==
  ASSUME Next
  PROVE  \/ UNCHANGED pending
         \/ \E c \in Channels : Cleanup(c) \/ ConnClosed(c) \/ GrowsOld(c)
                                \/ Assemble(c)
         \/ \E c \in Channels : Reap(c)
<1>. DEFINE Kept == UNCHANGED pending
<1>1. ASSUME NEW c \in Channels, OfChannel(c)
      PROVE  Kept \/ Cleanup(c) \/ ConnClosed(c) \/ GrowsOld(c) \/ Assemble(c)
  BY <1>1 DEF OfChannel, Reading, Open, Prepare, Enqueue, Close, Remove,
              MuxClosed, SetCleanup, SetReaper, CloseConn, GrowsIdle, Read,
              Look, Block, Unblock, SetDeadline, DeadlinePasses, muxVars,
              channelVars, queueVars, connVars, readVars, reapVars
<1>2. ASSUME NEW i \in Ids, NEW f \in Fragments, Deliver(i, f)
      PROVE  Kept
  BY <1>2 DEF Deliver, muxVars, channelVars, queueVars, connVars, readVars,
              reapVars
<1>3. ASSUME SessionEnds \/ CloseMux
      PROVE  Kept
  BY <1>3 DEF SessionEnds, CloseMux, muxVars, channelVars, queueVars,
              connVars, readVars, reapVars
<1>4. ASSUME Sending
      PROVE  Kept
  BY <1>4 DEF Sending, Dequeue, Release, Sent, SenderGoesOn, SenderEnds,
              senderOnly, muxVars, channelVars, queueVars, connVars, readVars,
              reapVars
<1>5. ASSUME Reaping \/ Fire
      PROVE  Kept \/ \E c \in Channels : Reap(c)
  BY <1>5 DEF Reaping, TakeToken, Reaped, EndScan, ReaperEnds, Fire,
              reaperOnly, muxVars, channelVars, queueVars, connVars, readVars,
              reapVars
<1>. HIDE DEF Kept
<1>. QED  BY <1>1, <1>2, <1>3, <1>4, <1>5, NextSplit DEF Kept

\* The steps that reserve and release.
LEMMA BudgetChange ==
  ASSUME Next
  PROVE  \/ UNCHANGED budget
         \/ \E c \in Channels : (\E i \in Ids : Open(c, i)) \/ Prepare(c)
                                \/ Enqueue(c) \/ Close(c) \/ Cleanup(c)
                                \/ Remove(c) \/ ConnClosed(c) \/ Assemble(c)
         \/ \E i \in Ids, f \in Fragments : Deliver(i, f)
         \/ \E c \in Channels : Reap(c)
         \/ Release
<1>. DEFINE Kept == UNCHANGED budget
<1>1. ASSUME NEW c \in Channels, OfChannel(c)
      PROVE  Kept \/ (\E i \in Ids : Open(c, i)) \/ Prepare(c) \/ Enqueue(c)
             \/ Close(c) \/ Cleanup(c) \/ Remove(c) \/ ConnClosed(c)
             \/ Assemble(c)
  BY <1>1 DEF OfChannel, Reading, MuxClosed, SetCleanup, SetReaper, CloseConn,
              GrowsIdle, GrowsOld, Read, Look, Block, Unblock, SetDeadline,
              DeadlinePasses, muxVars, channelVars, queueVars, connVars,
              readVars, reapVars
<1>2. ASSUME SessionEnds \/ CloseMux
      PROVE  Kept
  BY <1>2 DEF SessionEnds, CloseMux, muxVars, channelVars, queueVars,
              connVars, readVars, reapVars
<1>3. ASSUME Sending
      PROVE  Kept \/ Release
  BY <1>3 DEF Sending, Dequeue, Sent, SenderGoesOn, SenderEnds, senderOnly,
              muxVars, channelVars, queueVars, connVars, readVars, reapVars
<1>4. ASSUME Reaping \/ Fire
      PROVE  Kept \/ \E c \in Channels : Reap(c)
  BY <1>4 DEF Reaping, TakeToken, Reaped, EndScan, ReaperEnds, Fire,
              reaperOnly, muxVars, channelVars, queueVars, connVars, readVars,
              reapVars
<1>. HIDE DEF Kept
<1>. QED  BY <1>1, <1>2, <1>3, <1>4, NextSplit DEF Kept

\* The steps of readers and of their deadlines.
LEMMA ReadChange ==
  ASSUME Next
  PROVE  \/ UNCHANGED <<reader, deadline>>
         \/ \E c \in Channels : Read(c) \/ Look(c) \/ Block(c) \/ Unblock(c)
                                \/ Assemble(c) \/ SetDeadline(c)
                                \/ DeadlinePasses(c)
<1>. DEFINE Kept == UNCHANGED <<reader, deadline>>
<1>1. ASSUME NEW c \in Channels, OfChannel(c)
      PROVE  Kept \/ Read(c) \/ Look(c) \/ Block(c) \/ Unblock(c)
             \/ Assemble(c) \/ SetDeadline(c) \/ DeadlinePasses(c)
  BY <1>1 DEF OfChannel, Reading, Open, Prepare, Enqueue, Close, Cleanup,
              Remove, MuxClosed, SetCleanup, SetReaper, CloseConn, ConnClosed,
              GrowsIdle, GrowsOld, muxVars, channelVars, queueVars, connVars,
              readVars, reapVars
<1>2. ASSUME NEW i \in Ids, NEW f \in Fragments, Deliver(i, f)
      PROVE  Kept
  BY <1>2 DEF Deliver, muxVars, channelVars, queueVars, connVars, readVars,
              reapVars
<1>3. ASSUME SessionEnds \/ CloseMux
      PROVE  Kept
  BY <1>3 DEF SessionEnds, CloseMux, muxVars, channelVars, queueVars,
              connVars, readVars, reapVars
<1>4. ASSUME Sending
      PROVE  Kept
  BY <1>4 DEF Sending, Dequeue, Release, Sent, SenderGoesOn, SenderEnds,
              senderOnly, muxVars, channelVars, queueVars, connVars, readVars,
              reapVars
<1>5. ASSUME Reaping \/ Fire
      PROVE  Kept
  BY <1>5 DEF Reaping, TakeToken, Reaped, EndScan, ReaperEnds, Reap, Fire,
              reaperOnly, muxVars, channelVars, queueVars, connVars, readVars,
              reapVars
<1>. HIDE DEF Kept
<1>. QED  BY <1>1, <1>2, <1>3, <1>4, <1>5, NextSplit DEF Kept

\* The steps of the reaper, and those that wake it.
LEMMA ReapChange ==
  ASSUME Next
  PROVE  \/ UNCHANGED <<reaper, wake>>
         \/ \E c \in Channels : Remove(c) \/ SetReaper(c) \/ Assemble(c)
         \/ \E c \in Channels : Reap(c)
         \/ TakeToken \/ Reaped \/ EndScan \/ ReaperEnds \/ Fire
<1>. DEFINE Kept == UNCHANGED <<reaper, wake>>
<1>1. ASSUME NEW c \in Channels, OfChannel(c)
      PROVE  Kept \/ Remove(c) \/ SetReaper(c) \/ Assemble(c)
  BY <1>1 DEF OfChannel, Reading, Open, Prepare, Enqueue, Close, Cleanup,
              MuxClosed, SetCleanup, CloseConn, ConnClosed, GrowsIdle,
              GrowsOld, Read, Look, Block, Unblock, SetDeadline,
              DeadlinePasses, muxVars, channelVars, queueVars, connVars,
              readVars, reapVars
<1>2. ASSUME NEW i \in Ids, NEW f \in Fragments, Deliver(i, f)
      PROVE  Kept
  BY <1>2 DEF Deliver, muxVars, channelVars, queueVars, connVars, readVars,
              reapVars
<1>3. ASSUME SessionEnds \/ CloseMux
      PROVE  Kept
  BY <1>3 DEF SessionEnds, CloseMux, muxVars, channelVars, queueVars,
              connVars, readVars, reapVars
<1>4. ASSUME Sending
      PROVE  Kept
  BY <1>4 DEF Sending, Dequeue, Release, Sent, SenderGoesOn, SenderEnds,
              senderOnly, muxVars, channelVars, queueVars, connVars, readVars,
              reapVars
<1>. HIDE DEF Kept
<1>. QED  BY <1>1, <1>2, <1>3, <1>4, NextSplit DEF Reaping, Kept


-----------------------------------------------------------------------------
(* Queues                                                                   *)

\* What a push does to a queue of at most n.
LEMMA PushedQueue ==
  ASSUME NEW X, NEW q \in Seq(X), NEW x \in X, NEW n \in Nat \ {0}, Len(q) <= n
  PROVE  /\ Pushed(q, x, n) \in Seq(X)
         /\ Len(Pushed(q, x, n)) <= n
         /\ Len(Pushed(q, x, n)) = Len(q) + 1 - Dropped(q, n)
         /\ Dropped(q, n) \in {0, 1}
<1>1. Len(q) \in Nat
  BY LenProperties
<1>2. CASE Len(q) < n
  <2>1. Append(q, x) \in Seq(X) /\ Len(Append(q, x)) = Len(q) + 1
    BY AppendProperties
  <2>. QED  BY <1>1, <1>2, <2>1 DEF Pushed, Dropped
<1>3. CASE ~(Len(q) < n)
  <2>1. q # <<>>
    BY <1>1, <1>3
  <2>2. Tail(q) \in Seq(X) /\ Len(Tail(q)) = Len(q) - 1
    BY <2>1, HeadTailProperties
  <2>3. /\ Append(Tail(q), x) \in Seq(X)
        /\ Len(Append(Tail(q), x)) = Len(Tail(q)) + 1
    BY <2>2, AppendProperties
  <2>. QED  BY <1>1, <1>3, <2>2, <2>3 DEF Pushed, Dropped
<1>. QED  BY <1>2, <1>3

\* A queue without c's elements is a queue of others.
LEMMA QueueOfOthers ==
  ASSUME NEW q \in Seq(Channels), NEW c
  PROVE  (\A k \in DOMAIN q : q[k] # c) <=> q \in Seq(Channels \ {c})
<1>1. /\ Len(q) \in Nat /\ DOMAIN q = 1..Len(q) /\ q \in [1..Len(q) -> Channels]
      /\ \A k \in 1..Len(q) : q[k] \in Channels
  BY LenProperties, ElementOfSeq
<1>2. ASSUME \A k \in DOMAIN q : q[k] # c
      PROVE  q \in Seq(Channels \ {c})
  <2>1. q \in [1..Len(q) -> Channels \ {c}]
    BY <1>1, <1>2
  <2>. QED  BY <1>1, <2>1, SeqDef
<1>3. ASSUME q \in Seq(Channels \ {c}), NEW k \in DOMAIN q
      PROVE  q[k] # c
  BY <1>1, <1>3, ElementOfSeq
<1>. QED  BY <1>2, <1>3

-----------------------------------------------------------------------------
(* Type correctness, one group of variables at a time                       *)

MuxTypes ==
  /\ alive \in BOOLEAN /\ closed \in BOOLEAN /\ toClose \in SUBSET Channels
  /\ hooks \in [Channels -> SUBSET {"cleanup", "reaper"}]

TableTypes ==
  /\ table \in [Ids -> Channels \cup {None}]
  /\ channel \in [Channels -> {"new", "open", "closed", "cleaned", "gone"}]
  /\ id \in [Channels -> Ids \cup {0}]

QueueTypes ==
  /\ frames \in [Channels -> Seq(Fragments)]
  /\ \A c \in Channels : Len(frames[c]) <= FrameQueue
  /\ send \in Seq(Channels) /\ Len(send) <= SendQueue
  /\ prepared \in SUBSET Channels
  /\ sender \in [at : {"idle", "held", "sending", "closing", "over"},
                 job : Channels \cup {None}]

BudgetTypes ==
  budget \in [associations : 0..AssociationLimit, queue : 0..QueueLimit,
              reassembly : 0..ReassemblyLimit]

ConnTypes ==
  /\ conn \in [Channels -> {"none", "made", "open", "closing", "closed"}]
  /\ idle \in SUBSET (Channels \ Lifetime)

PendingTypes ==
  /\ pending \in [Channels -> SUBSET Pendings]
  /\ \A c \in Channels : /\ IsFiniteSet(pending[c])
                         /\ Cardinality(pending[c]) <= MaxPending

ReadTypes ==
  /\ reader \in [Channels -> Readers]
  /\ deadline \in [Channels -> {"none", "armed", "passed"}]

ReapTypes ==
  /\ reaper \in Reapers
  /\ wake \in [requested : BOOLEAN, token : BOOLEAN]

\* Together they are the type invariant.
LEMMA TypeParts ==
  /\ TypeOK <=> /\ MuxTypes /\ TableTypes /\ QueueTypes /\ BudgetTypes /\ ConnTypes
                /\ PendingTypes /\ ReadTypes /\ ReapTypes /\ events \in 0..MaxEvents
  /\ TypeOK' <=> /\ MuxTypes' /\ TableTypes' /\ QueueTypes' /\ BudgetTypes'
                 /\ ConnTypes' /\ PendingTypes' /\ ReadTypes' /\ ReapTypes'
                 /\ events' \in 0..MaxEvents
<1>. USE DEF TypeOK, MuxTypes, TableTypes, QueueTypes, BudgetTypes, ConnTypes,
             PendingTypes, ReadTypes, ReapTypes
<1>1. TypeOK <=> /\ MuxTypes /\ TableTypes /\ QueueTypes /\ BudgetTypes /\ ConnTypes
                 /\ PendingTypes /\ ReadTypes /\ ReapTypes /\ events \in 0..MaxEvents
  OBVIOUS
<1>2. TypeOK' <=> /\ MuxTypes' /\ TableTypes' /\ QueueTypes' /\ BudgetTypes'
                  /\ ConnTypes' /\ PendingTypes' /\ ReadTypes' /\ ReapTypes'
                  /\ events' \in 0..MaxEvents
  OBVIOUS
<1>. QED  BY <1>1, <1>2

\* The mux and the channels' hooks keep their types.
LEMMA MuxTypeStep ==
  ASSUME MuxTypes, Next
  PROVE  MuxTypes'
<1>. USE DEF MuxTypes
<1>1. CASE UNCHANGED <<alive, closed, toClose, hooks>>
  BY <1>1
<1>2. ASSUME NEW c \in Channels, MuxClosed(c)
      PROVE  MuxTypes'
  BY <1>2 DEF MuxClosed, channelVars
<1>3. ASSUME NEW c \in Channels, SetCleanup(c) \/ SetReaper(c)
      PROVE  MuxTypes'
  <2>1. /\ UNCHANGED <<alive, closed, toClose>>
        /\ \/ UNCHANGED hooks
           \/ \E h \in {"cleanup", "reaper"} :
                hooks' = [hooks EXCEPT ![c] = @ \cup {h}]
    BY <1>3 DEF SetCleanup, SetReaper, muxVars
  <2>. QED  BY <2>1
<1>4. CASE SessionEnds
  BY <1>4 DEF SessionEnds, channelVars
<1>5. CASE CloseMux
  BY <1>5 DEF CloseMux, channelVars
<1>. QED  BY <1>1, <1>2, <1>3, <1>4, <1>5, MuxChange

\* A channel is in the table from its opening to its removal.
LEMMA TableStep ==
  ASSUME TableTypes, Registered, Next
  PROVE  TableTypes' /\ Registered'
<1>. USE DEF TableTypes
<1>0. None \notin Channels /\ 0 \notin Ids
  BY DatagramsAssumption
<1>1. CASE UNCHANGED <<table, channel, id>>
  BY <1>1 DEF Registered
<1>2. ASSUME NEW c \in Channels, NEW i \in Ids, Open(c, i)
      PROVE  TableTypes' /\ Registered'
  <2>1. /\ channel[c] = "new" /\ table[i] = None
        /\ channel' = [channel EXCEPT ![c] = "open"]
        /\ id' = [id EXCEPT ![c] = i]
        /\ table' = [table EXCEPT ![i] = c]
    BY <1>2 DEF Open
  <2>2. TableTypes'
    BY <2>1
  <2>3. ASSUME NEW j \in Ids, table'[j] # None
        PROVE  /\ id'[table'[j]] = j
               /\ channel'[table'[j]] \in {"open", "closed", "cleaned"}
    BY <1>0, <2>1, <2>3 DEF Registered
  <2>4. ASSUME NEW d \in Channels, channel'[d] \in {"open", "closed", "cleaned"}
        PROVE  id'[d] \in Ids /\ table'[id'[d]] = d
    BY <1>0, <2>1, <2>4 DEF Registered
  <2>. QED  BY <2>2, <2>3, <2>4 DEF Registered
<1>3. ASSUME NEW c \in Channels, Close(c) \/ Cleanup(c)
      PROVE  TableTypes' /\ Registered'
  <2>1. /\ UNCHANGED <<table, id>>
        /\ channel[c] \in {"open", "closed"}
        /\ \E to \in {"closed", "cleaned"} : channel' = [channel EXCEPT ![c] = to]
    BY <1>3 DEF Close, Cleanup, muxVars
  <2>. QED  BY <1>0, <2>1 DEF Registered
<1>4. ASSUME NEW c \in Channels, Remove(c)
      PROVE  TableTypes' /\ Registered'
  <2>1. /\ channel[c] = "cleaned"
        /\ channel' = [channel EXCEPT ![c] = "gone"]
        /\ table' = [table EXCEPT ![id[c]] = None]
        /\ UNCHANGED id
    BY <1>4 DEF Remove
  <2>2. TableTypes'
    BY <2>1
  <2>3. id[c] \in Ids /\ table[id[c]] = c
    BY <2>1 DEF Registered
  <2>4. ASSUME NEW j \in Ids, table'[j] # None
        PROVE  /\ id'[table'[j]] = j
               /\ channel'[table'[j]] \in {"open", "closed", "cleaned"}
    BY <1>0, <2>1, <2>3, <2>4 DEF Registered
  <2>5. ASSUME NEW d \in Channels, channel'[d] \in {"open", "closed", "cleaned"}
        PROVE  id'[d] \in Ids /\ table'[id'[d]] = d
    BY <1>0, <2>1, <2>3, <2>5 DEF Registered
  <2>. QED  BY <2>2, <2>4, <2>5 DEF Registered
<1>. QED  BY <1>1, <1>2, <1>3, <1>4, TableChange

\* So an open channel is found.
LEMMA Found ==
  ASSUME Registered
  PROVE  OpenIsFound
BY DEF Registered, OpenIsFound

\* The queues and the send loop keep their types.
LEMMA QueueTypeStep ==
  ASSUME TableTypes, QueueTypes, Next
  PROVE  QueueTypes'
<1>. USE DEF QueueTypes
<1>0. /\ FrameQueue \in Nat \ {0} /\ SendQueue \in Nat \ {0} /\ None \notin Channels
      /\ \A c \in Channels : Len(frames[c]) \in Nat
      /\ Len(send) \in Nat
  BY DatagramsAssumption, LenProperties
<1>1. CASE UNCHANGED <<frames, send, prepared, sender>>
  BY <1>1
<1>2. ASSUME NEW c \in Channels, Prepare(c)
      PROVE  QueueTypes'
  BY <1>2 DEF Prepare
<1>3. ASSUME NEW c \in Channels, Enqueue(c)
      PROVE  QueueTypes'
  <2>1. /\ prepared' = prepared \ {c} /\ UNCHANGED <<frames, sender>>
        /\ send' = Pushed(send, c, SendQueue) \/ UNCHANGED send
    BY <1>3 DEF Enqueue, Queued
  <2>2. send' \in Seq(Channels) /\ Len(send') <= SendQueue
    BY <1>0, <2>1, PushedQueue
  <2>. QED  BY <2>1, <2>2
<1>4. ASSUME NEW c \in Channels, Close(c)
      PROVE  QueueTypes'
  <2>1. /\ frames' = [frames EXCEPT ![c] = <<>>] /\ send' = Without(send, c)
        /\ UNCHANGED <<prepared, sender>>
    BY <1>4 DEF Close, Drained
  <2>2. <<>> \in Seq(Fragments) /\ Len(<<>>) = 0
    BY EmptySeq
  <2>3. /\ frames' \in [Channels -> Seq(Fragments)]
        /\ \A d \in Channels : Len(frames'[d]) <= FrameQueue
    BY <1>0, <2>1, <2>2
  <2>4. send' \in Seq(Channels) /\ Len(send') <= SendQueue
    <3>1. /\ Without(send, c) \in Seq(Channels)
          /\ Len(Without(send, c)) <= Len(send)
      BY WithoutQueue
    <3>2. Len(Without(send, c)) \in Nat
      BY <3>1, LenProperties
    <3>. QED  BY <1>0, <2>1, <3>1, <3>2
  <2>. QED  BY <2>1, <2>3, <2>4
<1>5. ASSUME NEW c \in Channels, Look(c) \/ Unblock(c)
      PROVE  QueueTypes'
  <2>1. /\ \/ UNCHANGED frames
           \/ frames[c] # <<>> /\ frames' = [frames EXCEPT ![c] = Tail(@)]
        /\ UNCHANGED <<send, prepared, sender>>
    BY <1>5 DEF Look, Unblock, Take
  <2>2. CASE frames[c] # <<>> /\ frames' = [frames EXCEPT ![c] = Tail(@)]
    <3>1. Tail(frames[c]) \in Seq(Fragments) /\ Len(Tail(frames[c])) = Len(frames[c]) - 1
      BY <2>2, HeadTailProperties
    <3>2. \A d \in Channels : Len(frames'[d]) <= FrameQueue
      BY <1>0, <2>2, <3>1
    <3>. QED  BY <2>1, <2>2, <3>1, <3>2
  <2>. QED  BY <2>1, <2>2
<1>6. ASSUME NEW i \in Ids, NEW f \in Fragments, Deliver(i, f)
      PROVE  QueueTypes'
  <2>1. PICK c \in Channels :
             /\ frames' = [frames EXCEPT ![c] = Pushed(@, f, FrameQueue)]
             /\ UNCHANGED <<send, prepared, sender>>
    BY <1>6 DEF Deliver, TableTypes
  <2>2. /\ Pushed(frames[c], f, FrameQueue) \in Seq(Fragments)
        /\ Len(Pushed(frames[c], f, FrameQueue)) <= FrameQueue
    BY <1>0, PushedQueue
  <2>. QED  BY <2>1, <2>2
<1>7. CASE Dequeue
  <2>1. /\ send # <<>> /\ send' = Tail(send)
        /\ sender' = [at |-> "held", job |-> Head(send)]
        /\ UNCHANGED <<frames, prepared>>
    BY <1>7 DEF Dequeue, senderOnly
  <2>2. /\ Head(send) \in Channels /\ Tail(send) \in Seq(Channels)
        /\ Len(Tail(send)) = Len(send) - 1
    BY <2>1, HeadTailProperties
  <2>. QED  BY <1>0, <2>1, <2>2
<1>8. CASE Release \/ Sent \/ SenderGoesOn \/ SenderEnds
  BY <1>8 DEF Release, Sent, SenderGoesOn, SenderEnds, senderOnly
<1>. QED  BY <1>1, <1>2, <1>3, <1>4, <1>5, <1>6, <1>7, <1>8, QueueChange

-----------------------------------------------------------------------------
(* A closed channel holds nothing                                           *)

ClosedStages == {"closed", "cleaned", "gone"}

\* Nothing is queued for c.
NothingQueued(c) == frames[c] = <<>> /\ send \in Seq(Channels \ {c})

\* A channel is closed by Close alone, and stays closed.
LEMMA ClosedBefore ==
  ASSUME TableTypes, Next, NEW c \in Channels, channel'[c] \in ClosedStages
  PROVE  channel[c] \in ClosedStages \/ Close(c)
<1>. USE DEF TableTypes, ClosedStages
<1>1. CASE UNCHANGED channel
  BY <1>1
<1>2. ASSUME NEW d \in Channels, NEW i \in Ids, Open(d, i)
      PROVE  channel[c] \in ClosedStages
  BY <1>2 DEF Open
<1>3. ASSUME NEW d \in Channels, Close(d)
      PROVE  channel[c] \in ClosedStages \/ d = c
  BY <1>3 DEF Close
<1>4. ASSUME NEW d \in Channels, Cleanup(d) \/ Remove(d)
      PROVE  channel[c] \in ClosedStages
  BY <1>4 DEF Cleanup, Remove
<1>. QED  BY <1>1, <1>2, <1>3, <1>4, TableChange

\* Who races with Close finds the channel closed: nothing is queued for a channel
\* that is not open.
LEMMA StaysEmpty ==
  ASSUME TableTypes, QueueTypes, Next, NEW c \in Channels, channel[c] # "open",
         NothingQueued(c)
  PROVE  NothingQueued(c)'
<1>. USE DEF QueueTypes, NothingQueued
<1>0. frames[c] = <<>> /\ send \in Seq(Channels \ {c})
  OBVIOUS
<1>1. CASE UNCHANGED <<frames, send>>
  BY <1>0, <1>1
<1>2. ASSUME NEW d \in Channels, Enqueue(d)
      PROVE  NothingQueued(c)'
  <2>1. /\ UNCHANGED frames
        /\ \/ UNCHANGED send
           \/ channel[d] = "open" /\ send' = Pushed(send, d, SendQueue)
    BY <1>2 DEF Enqueue, Queued, Usable
  <2>2. CASE channel[d] = "open" /\ send' = Pushed(send, d, SendQueue)
    <3>1. d \in Channels \ {c}
      BY <2>2
    <3>2. SendQueue \in Nat \ {0}
      BY DatagramsAssumption
    <3>3. Pushed(send, d, SendQueue) \in Seq(Channels \ {c})
      BY <1>0, <3>1, <3>2, PushedQueue
    <3>. QED  BY <1>0, <2>1, <2>2, <3>3
  <2>. QED  BY <1>0, <2>1, <2>2
<1>3. ASSUME NEW d \in Channels, Close(d)
      PROVE  NothingQueued(c)'
  <2>1. frames' = [frames EXCEPT ![d] = <<>>] /\ send' = Without(send, d)
    BY <1>3 DEF Close, Drained
  <2>2. Without(send, d) \in Seq(Channels \ {c})
    BY <1>0, WithoutQueue
  <2>. QED  BY <1>0, <2>1, <2>2
<1>4. ASSUME NEW d \in Channels, Look(d) \/ Unblock(d)
      PROVE  NothingQueued(c)'
  <2>1. /\ UNCHANGED send
        /\ \/ UNCHANGED frames
           \/ frames[d] # <<>> /\ frames' = [frames EXCEPT ![d] = Tail(@)]
    BY <1>4 DEF Look, Unblock, Take
  <2>. QED  BY <1>0, <2>1
<1>5. ASSUME NEW i \in Ids, NEW f \in Fragments, Deliver(i, f)
      PROVE  NothingQueued(c)'
  <2>1. PICK d \in Channels : /\ channel[d] = "open" /\ UNCHANGED send
                              /\ frames' = [frames EXCEPT ![d] = Pushed(@, f, FrameQueue)]
    BY <1>5 DEF Deliver, Usable, TableTypes
  <2>2. d # c
    BY <2>1
  <2>. QED  BY <1>0, <2>1, <2>2
<1>6. CASE Dequeue
  <2>1. send # <<>> /\ send' = Tail(send) /\ UNCHANGED frames
    BY <1>6 DEF Dequeue, senderOnly
  <2>2. Tail(send) \in Seq(Channels \ {c})
    BY <1>0, <2>1, HeadTailProperties
  <2>. QED  BY <1>0, <2>1, <2>2
<1>7. ASSUME NEW d \in Channels, Prepare(d)
      PROVE  NothingQueued(c)'
  BY <1>0, <1>7 DEF Prepare
<1>8. CASE Release \/ Sent \/ SenderGoesOn \/ SenderEnds
  BY <1>0, <1>8 DEF Release, Sent, SenderGoesOn, SenderEnds, senderOnly
<1>. QED  BY <1>1, <1>2, <1>3, <1>4, <1>5, <1>6, <1>7, <1>8, QueueChange

\* Close empties the queues, and they stay empty.
LEMMA DrainedStep ==
  ASSUME TableTypes, QueueTypes, Next,
         \A c \in Channels : channel[c] \in ClosedStages => NothingQueued(c),
         NEW c \in Channels, channel'[c] \in ClosedStages
  PROVE  NothingQueued(c)'
<1>. USE DEF QueueTypes, NothingQueued
<1>1. CASE Close(c)
  <2>1. frames' = [frames EXCEPT ![c] = <<>>] /\ send' = Without(send, c)
    BY <1>1 DEF Close, Drained
  <2>2. /\ Without(send, c) \in Seq(Channels)
        /\ \A k \in 1..Len(Without(send, c)) : Without(send, c)[k] # c
    BY WithoutQueue
  <2>3. Without(send, c) \in Seq(Channels \ {c})
    <3>1. DOMAIN Without(send, c) = 1..Len(Without(send, c))
      BY <2>2, LenProperties
    <3>. QED  BY <2>2, <3>1, QueueOfOthers
  <2>. QED  BY <2>1, <2>3
<1>2. CASE channel[c] \in ClosedStages
  BY <1>2, StaysEmpty DEF ClosedStages
<1>. QED  BY <1>1, <1>2, ClosedBefore

-----------------------------------------------------------------------------
(* Packets being put together                                               *)

\* What a connection may have pending.
Proper(ps) ==
  /\ ps \in SUBSET Pendings /\ IsFiniteSet(ps) /\ Cardinality(ps) <= MaxPending
  /\ \A p, q \in ps : p.packet = q.packet => p = q

\* What is pending of c becomes ps, and the budget follows.
PendingBecomes(c, ps) ==
  /\ pending' = [pending EXCEPT ![c] = ps]
  /\ budget'.reassembly = budget.reassembly - Held(pending[c]) + Held(ps)

\* A part of what is proper is proper, and the rest is given back.
LEMMA ProperPart ==
  ASSUME NEW ps, Proper(ps), NEW qs \in SUBSET ps
  PROVE  /\ Proper(qs)
         /\ Held(ps) = Held(qs) + Held(ps \ qs)
         /\ Held(qs) \in Nat /\ Held(ps \ qs) \in Nat /\ Held(ps) \in Nat
<1>1. ps \in SUBSET Pendings /\ IsFiniteSet(ps)
  BY DEF Proper
<1>2. IsFiniteSet(qs) /\ Cardinality(qs) <= Cardinality(ps)
  BY <1>1, FS_Subset
<1>3. Cardinality(qs) \in Nat /\ Cardinality(ps) \in Nat /\ MaxPending \in Nat
  BY <1>1, <1>2, FS_CardinalityType, DatagramsAssumption
<1>4. Cardinality(qs) <= MaxPending
  BY <1>2, <1>3 DEF Proper
<1>5. Proper(qs)
  BY <1>1, <1>2, <1>4 DEF Proper
<1>. QED  BY <1>1, <1>5, HeldSplit

\* A packet nobody has yet is added below the limit.
LEMMA ProperMore ==
  ASSUME NEW ps, Proper(ps), NEW p \in Pendings,
         \A q \in ps : q.packet # p.packet, Cardinality(ps) < MaxPending
  PROVE  /\ Proper(ps \cup {p})
         /\ Held(ps \cup {p}) = Held(ps) + Reserved(p)
         /\ Held(ps) \in Nat /\ Reserved(p) \in Nat
<1>1. /\ ps \in SUBSET Pendings /\ IsFiniteSet(ps)
      /\ \A q, r \in ps : q.packet = r.packet => q = r
  BY DEF Proper
<1>2. p \notin ps
  OBVIOUS
<1>3. /\ IsFiniteSet(ps \cup {p}) /\ Cardinality(ps \cup {p}) = Cardinality(ps) + 1
      /\ Cardinality(ps) \in Nat /\ MaxPending \in Nat
  BY <1>1, <1>2, FS_AddElement, FS_CardinalityType, DatagramsAssumption
<1>4. ps \cup {p} \in SUBSET Pendings
  BY <1>1
<1>5. Cardinality(ps \cup {p}) <= MaxPending
  BY <1>3
<1>6. \A q, r \in ps \cup {p} : q.packet = r.packet => q = r
  BY <1>1
<1>7. Proper(ps \cup {p})
  BY <1>3, <1>4, <1>5, <1>6 DEF Proper
<1>8. (ps \cup {p}) \ {p} = ps
  BY <1>2
<1>9. /\ Held(ps \cup {p}) = Held((ps \cup {p}) \ {p}) + Reserved(p)
      /\ Reserved(p) \in Nat
  BY <1>3, <1>4, HeldOne
<1>10. Held(ps) \in Nat
  BY ProperPart
<1>. QED  BY <1>7, <1>8, <1>9, <1>10

\* A packet is replaced by another state of it, as large.
LEMMA ProperNext ==
  ASSUME NEW ps, Proper(ps), NEW p \in ps, NEW q \in Pendings,
         q.packet = p.packet, Reserved(q) = Reserved(p)
  PROVE  /\ Proper((ps \ {p}) \cup {q})
         /\ Held((ps \ {p}) \cup {q}) = Held(ps)
<1>. DEFINE rest == ps \ {p}
<1>1. /\ ps \in SUBSET Pendings /\ IsFiniteSet(ps)
      /\ \A r, s \in ps : r.packet = s.packet => r = s
      /\ Cardinality(ps) \in Nat /\ MaxPending \in Nat /\ Cardinality(ps) <= MaxPending
  BY FS_CardinalityType, DatagramsAssumption DEF Proper
<1>2. Proper(rest)
  BY ProperPart
<1>3. \A r \in rest : r.packet # q.packet
  BY <1>1
<1>4. Cardinality(rest) < MaxPending
  <2>1. Cardinality(rest) = Cardinality(ps) - 1
    BY <1>1, FS_RemoveElement
  <2>. QED  BY <1>1, <2>1
<1>. HIDE DEF rest
<1>5. /\ Proper(rest \cup {q})
      /\ Held(rest \cup {q}) = Held(rest) + Reserved(q)
  BY <1>2, <1>3, <1>4, ProperMore
<1>6. Held(ps) = Held(rest) + Reserved(p)
  BY <1>1, HeldOne DEF rest
<1>. QED  BY <1>5, <1>6 DEF rest

\* The budget is a record.
LEMMA BudgetFields ==
  ASSUME BudgetTypes
  PROVE  /\ budget = [associations |-> budget.associations, queue |-> budget.queue,
                      reassembly |-> budget.reassembly]
         /\ budget.associations \in Nat /\ budget.associations <= AssociationLimit
         /\ budget.queue \in Nat /\ budget.queue <= QueueLimit
         /\ budget.reassembly \in Nat /\ budget.reassembly <= ReassemblyLimit
BY DatagramsAssumption DEF BudgetTypes

\* An update of one field is an update of that field.
LEMMA BudgetUpdate ==
  ASSUME BudgetTypes, NEW a, NEW q, NEW r
  PROVE  /\ [budget EXCEPT !.associations = a]
              = [associations |-> a, queue |-> budget.queue,
                 reassembly |-> budget.reassembly]
         /\ [budget EXCEPT !.queue = q]
              = [associations |-> budget.associations, queue |-> q,
                 reassembly |-> budget.reassembly]
         /\ [budget EXCEPT !.reassembly = r]
              = [associations |-> budget.associations, queue |-> budget.queue,
                 reassembly |-> r]
         /\ [budget EXCEPT !.queue = q, !.reassembly = r]
              = [associations |-> budget.associations, queue |-> q,
                 reassembly |-> r]
<1>1. budget = [associations |-> budget.associations, queue |-> budget.queue,
                reassembly |-> budget.reassembly]
  BY DEF BudgetTypes
<1>. DEFINE b == [associations |-> budget.associations, queue |-> budget.queue,
                  reassembly |-> budget.reassembly]
<1>2. [b EXCEPT !.associations = a]
        = [associations |-> a, queue |-> budget.queue, reassembly |-> budget.reassembly]
  OBVIOUS
<1>3. [b EXCEPT !.queue = q]
        = [associations |-> budget.associations, queue |-> q,
           reassembly |-> budget.reassembly]
  OBVIOUS
<1>4. [b EXCEPT !.reassembly = r]
        = [associations |-> budget.associations, queue |-> budget.queue,
           reassembly |-> r]
  OBVIOUS
<1>5. [[associations |-> budget.associations, queue |-> q,
         reassembly |-> budget.reassembly] EXCEPT !.reassembly = r]
        = [associations |-> budget.associations, queue |-> q, reassembly |-> r]
  OBVIOUS
<1>6. [budget EXCEPT !.queue = q, !.reassembly = r]
        = [[budget EXCEPT !.queue = q] EXCEPT !.reassembly = r]
  OBVIOUS
<1>7. budget = b
  BY <1>1
<1>. HIDE DEF b
<1>. QED  BY <1>2, <1>3, <1>4, <1>5, <1>6, <1>7

\* What a connection has pending is proper.
LEMMA PendingProper ==
  ASSUME PendingTypes, OnePerPacket, NEW c \in Channels
  PROVE  Proper(pending[c])
BY DEF PendingTypes, OnePerPacket, Proper

\* The readers that have a frame in hand.
Holders == {c \in Channels : reader[c].at = "took"}

\* A frame taken is released, whatever becomes of it.
HandEmpties(c) ==
  \E r \in {NoReader, [NoReader EXCEPT !.at = "looking"]} :
    reader' = [reader EXCEPT ![c] = r]

\* What assemble does to the budget, and to the reader.
LEMMA AssembledEffect ==
  ASSUME BudgetTypes, NEW c, NEW kept, NEW amount, NEW done,
         Assembled(c, kept, amount, done)
  PROVE  /\ pending' = [pending EXCEPT ![c] = kept]
         /\ budget' = [associations |-> budget.associations,
                       queue |-> budget.queue - 1, reassembly |-> amount]
         /\ HandEmpties(c)
BY BudgetUpdate DEF Assembled, HandEmpties

\* The first fragment of a packet.
LEMMA FirstEffect ==
  ASSUME BudgetTypes, PendingTypes, OnePerPacket, NEW c \in Channels,
         NEW f \in Fragments, FirstOfPacket(c, f)
  PROVE  \E ps : /\ Proper(ps) /\ PendingBecomes(c, ps) /\ HandEmpties(c)
                 /\ budget'.reassembly <= ReassemblyLimit
                 /\ budget'.queue = budget.queue - 1
                 /\ budget'.associations = budget.associations
<1>. DEFINE p == [packet |-> f.packet, count |-> f.count, seen |-> {f.index},
                  old |-> FALSE]
<1>1. Proper(pending[c]) /\ Held(pending[c]) \in Nat
  BY PendingProper, ProperPart
<1>2. /\ f \in [packet : Nat, index : Nat, count : Nat \ {0}]
      /\ f.packet \in Packets
  BY DatagramsAssumption DEF Packets
<1>3. p \in Pendings
  BY <1>2 DEF Pendings
<1>4. /\ budget.reassembly \in Nat /\ budget.reassembly <= ReassemblyLimit
      /\ budget.queue \in Nat
  BY BudgetFields
<1>5. Same(c, f) = {}
  BY DEF FirstOfPacket
<1>6. \A q \in pending[c] : q.packet # p.packet
  BY <1>5 DEF Same
<1>. HIDE DEF p
<1>7. CASE /\ Cardinality(pending[c]) < MaxPending
           /\ budget.reassembly + Reserved(p) <= ReassemblyLimit
           /\ Assembled(c, pending[c] \cup {p}, budget.reassembly + Reserved(p), FALSE)
  <2>1. /\ Proper(pending[c] \cup {p})
        /\ Held(pending[c] \cup {p}) = Held(pending[c]) + Reserved(p)
        /\ Reserved(p) \in Nat
    BY <1>1, <1>3, <1>6, <1>7, ProperMore
  <2>2. /\ pending' = [pending EXCEPT ![c] = pending[c] \cup {p}]
        /\ budget'.reassembly = budget.reassembly + Reserved(p)
        /\ budget'.queue = budget.queue - 1
        /\ budget'.associations = budget.associations
        /\ HandEmpties(c)
    <3>1. PICK done :
            Assembled(c, pending[c] \cup {p}, budget.reassembly + Reserved(p), done)
      BY <1>7, Zenon
    <3>. QED  BY <3>1, AssembledEffect
  <2>3. PendingBecomes(c, pending[c] \cup {p})
    BY <1>1, <1>4, <2>1, <2>2 DEF PendingBecomes
  <2>. QED  BY <1>7, <2>1, <2>2, <2>3
<1>8. CASE Assembled(c, pending[c], budget.reassembly, FALSE)
  <2>1. /\ pending' = [pending EXCEPT ![c] = pending[c]]
        /\ budget'.reassembly = budget.reassembly
        /\ budget'.queue = budget.queue - 1
        /\ budget'.associations = budget.associations
        /\ HandEmpties(c)
    <3>1. PICK done : Assembled(c, pending[c], budget.reassembly, done)
      BY <1>8, Zenon
    <3>. QED  BY <3>1, AssembledEffect
  <2>2. PendingBecomes(c, pending[c])
    BY <1>1, <1>4, <2>1 DEF PendingBecomes
  <2>. QED  BY <1>1, <1>4, <2>1, <2>2
<1>. QED  BY <1>7, <1>8 DEF FirstOfPacket, p

\* Another fragment of a packet completes it, contradicts it or is kept.
LEMMA NextEffect ==
  ASSUME BudgetTypes, PendingTypes, OnePerPacket, NEW c \in Channels,
         NEW f \in Fragments, NextOfPacket(c, f)
  PROVE  \E ps : /\ Proper(ps) /\ PendingBecomes(c, ps) /\ HandEmpties(c)
                 /\ budget'.reassembly <= ReassemblyLimit
                 /\ budget'.queue = budget.queue - 1
                 /\ budget'.associations = budget.associations
<1>1. Proper(pending[c]) /\ Held(pending[c]) \in Nat
  BY PendingProper, ProperPart
<1>2. /\ budget.reassembly \in Nat /\ budget.reassembly <= ReassemblyLimit
      /\ budget.queue \in Nat /\ ReassemblyLimit \in Nat
  BY BudgetFields, DatagramsAssumption
<1>3. f.index \in Nat
  BY DatagramsAssumption
<1>4. PICK p \in Same(c, f) :
        \E done : \/ Assembled(c, pending[c] \ {p}, budget.reassembly - Reserved(p), done)
                  \/ Assembled(c, (pending[c] \ {p})
                                    \cup {[p EXCEPT !.seen = @ \cup {f.index}]},
                               budget.reassembly, done)
  BY DEF NextOfPacket
<1>. DEFINE q == [p EXCEPT !.seen = @ \cup {f.index}]
<1>5. p \in pending[c] /\ p \in Pendings
  BY <1>1 DEF Same, Proper
<1>6. q \in Pendings /\ q.packet = p.packet /\ Reserved(q) = Reserved(p)
  BY <1>3, <1>5 DEF Pendings, Reserved
<1>. HIDE DEF q
<1>7. /\ Proper(pending[c] \ {p}) /\ Held(pending[c] \ {p}) \in Nat
      /\ Held(pending[c]) = Held(pending[c] \ {p}) + Reserved(p)
      /\ Reserved(p) \in Nat
  <2>1. pending[c] \in SUBSET Pendings /\ IsFiniteSet(pending[c])
    BY <1>1 DEF Proper
  <2>2. /\ Held(pending[c]) = Held(pending[c] \ {p}) + Reserved(p)
        /\ Reserved(p) \in Nat
    BY <1>5, <2>1, HeldOne
  <2>. QED  BY <1>1, <2>2, ProperPart
<1>8. /\ Proper((pending[c] \ {p}) \cup {q})
      /\ Held((pending[c] \ {p}) \cup {q}) = Held(pending[c])
  BY <1>1, <1>5, <1>6, ProperNext
<1>9. ASSUME NEW done,
             Assembled(c, pending[c] \ {p}, budget.reassembly - Reserved(p), done)
      PROVE  \E ps : /\ Proper(ps) /\ PendingBecomes(c, ps) /\ HandEmpties(c)
                     /\ budget'.reassembly <= ReassemblyLimit
                     /\ budget'.queue = budget.queue - 1
                     /\ budget'.associations = budget.associations
  <2>1. /\ pending' = [pending EXCEPT ![c] = pending[c] \ {p}]
        /\ budget'.reassembly = budget.reassembly - Reserved(p)
        /\ budget'.queue = budget.queue - 1
        /\ budget'.associations = budget.associations
        /\ HandEmpties(c)
    BY <1>9, AssembledEffect
  <2>2. PendingBecomes(c, pending[c] \ {p})
    BY <1>1, <1>2, <1>7, <2>1 DEF PendingBecomes
  <2>3. budget'.reassembly <= ReassemblyLimit
    BY <1>2, <1>7, <2>1
  <2>. QED  BY <1>7, <2>1, <2>2, <2>3
<1>10. ASSUME NEW done,
              Assembled(c, (pending[c] \ {p}) \cup {q}, budget.reassembly, done)
       PROVE  \E ps : /\ Proper(ps) /\ PendingBecomes(c, ps) /\ HandEmpties(c)
                      /\ budget'.reassembly <= ReassemblyLimit
                      /\ budget'.queue = budget.queue - 1
                      /\ budget'.associations = budget.associations
  <2>1. /\ pending' = [pending EXCEPT ![c] = (pending[c] \ {p}) \cup {q}]
        /\ budget'.reassembly = budget.reassembly
        /\ budget'.queue = budget.queue - 1
        /\ budget'.associations = budget.associations
        /\ HandEmpties(c)
    BY <1>10, AssembledEffect
  <2>2. PendingBecomes(c, (pending[c] \ {p}) \cup {q})
    BY <1>1, <1>2, <1>8, <2>1 DEF PendingBecomes
  <2>. QED  BY <1>2, <1>8, <2>1, <2>2
<1>. QED  BY <1>4, <1>9, <1>10 DEF q

\* What becomes of a frame: its bytes are released, and what is pending stays
\* within the limits; it grows only while the channel is open.
LEMMA AssembleEffect ==
  ASSUME BudgetTypes, PendingTypes, OnePerPacket, TookFrame, NEW c \in Channels,
         Assemble(c)
  PROVE  \E ps : /\ Proper(ps) /\ PendingBecomes(c, ps) /\ HandEmpties(c)
                 /\ budget'.reassembly <= ReassemblyLimit
                 /\ budget'.queue = budget.queue - 1
                 /\ budget'.associations = budget.associations
                 /\ ps = pending[c] \/ ~Ended(c)
<1>. DEFINE f == reader[c].frame
<1>1. Proper(pending[c]) /\ Held(pending[c]) \in Nat
  BY PendingProper, ProperPart
<1>2. /\ budget.reassembly \in Nat /\ budget.reassembly <= ReassemblyLimit
      /\ budget.queue \in Nat
  BY BudgetFields
<1>3. f \in Fragments
  BY DEF Assemble, TookFrame
<1>4. CASE Ended(c)
  <2>1. /\ budget' = [budget EXCEPT !.queue = budget.queue - 1]
        /\ reader' = [reader EXCEPT ![c] = NoReader] /\ UNCHANGED pending
    BY <1>4 DEF Assemble
  <2>2. /\ budget'.reassembly = budget.reassembly
        /\ budget'.queue = budget.queue - 1
        /\ budget'.associations = budget.associations
    BY <2>1, BudgetUpdate
  <2>3. pending' = [pending EXCEPT ![c] = pending[c]]
    BY <2>1 DEF PendingTypes
  <2>4. PendingBecomes(c, pending[c])
    BY <1>1, <1>2, <2>2, <2>3 DEF PendingBecomes
  <2>5. HandEmpties(c)
    BY <2>1 DEF HandEmpties
  <2>. QED  BY <1>1, <1>2, <2>2, <2>4, <2>5
<1>5. CASE ~Ended(c) /\ f.count = 1
  <2>1. PICK done : Assembled(c, pending[c], budget.reassembly, done)
    BY <1>5, Zenon DEF Assemble
  <2>2. /\ pending' = [pending EXCEPT ![c] = pending[c]]
        /\ budget'.reassembly = budget.reassembly
        /\ budget'.queue = budget.queue - 1
        /\ budget'.associations = budget.associations
        /\ HandEmpties(c)
    BY <2>1, AssembledEffect
  <2>3. PendingBecomes(c, pending[c])
    BY <1>1, <1>2, <2>2 DEF PendingBecomes
  <2>. QED  BY <1>1, <1>2, <2>2, <2>3
<1>6. CASE ~Ended(c) /\ f.count # 1
  <2>1. FirstOfPacket(c, f) \/ NextOfPacket(c, f)
    BY <1>6 DEF Assemble
  <2>. HIDE DEF f
  <2>2. \E ps : /\ Proper(ps) /\ PendingBecomes(c, ps) /\ HandEmpties(c)
                /\ budget'.reassembly <= ReassemblyLimit
                /\ budget'.queue = budget.queue - 1
                /\ budget'.associations = budget.associations
    BY <1>3, <2>1, FirstEffect, NextEffect
  <2>. QED  BY <1>6, <2>2
<1>. QED  BY <1>4, <1>5, <1>6

\* What expires, is dropped or given back leaves the rest.
LEMMA PendingShrinks ==
  ASSUME BudgetTypes, PendingTypes, OnePerPacket, NEW c \in Channels,
         NEW ps \in SUBSET pending[c],
         pending' = [pending EXCEPT ![c] = ps],
         budget' = [budget EXCEPT !.reassembly = @ - Held(pending[c] \ ps)]
  PROVE  /\ Proper(ps) /\ PendingBecomes(c, ps)
         /\ budget'.reassembly <= ReassemblyLimit
         /\ budget'.queue = budget.queue
         /\ budget'.associations = budget.associations
<1>1. /\ Proper(ps) /\ Held(pending[c]) = Held(ps) + Held(pending[c] \ ps)
      /\ Held(ps) \in Nat /\ Held(pending[c] \ ps) \in Nat
  BY PendingProper, ProperPart
<1>2. /\ budget.reassembly \in Nat /\ budget.reassembly <= ReassemblyLimit
      /\ ReassemblyLimit \in Nat
  BY BudgetFields, DatagramsAssumption
<1>3. /\ budget'.reassembly = budget.reassembly - Held(pending[c] \ ps)
      /\ budget'.queue = budget.queue
      /\ budget'.associations = budget.associations
  BY BudgetUpdate
<1>4. PendingBecomes(c, ps)
  BY <1>1, <1>2, <1>3 DEF PendingBecomes
<1>5. budget'.reassembly <= ReassemblyLimit
  BY <1>1, <1>2, <1>3
<1>. QED  BY <1>1, <1>3, <1>4, <1>5

\* All of it is given back.
LEMMA PendingDropped ==
  ASSUME BudgetTypes, PendingTypes, OnePerPacket, NEW c \in Channels,
         pending' = [pending EXCEPT ![c] = {}],
         budget' = [budget EXCEPT !.reassembly = @ - Held(pending[c])]
  PROVE  /\ Proper({}) /\ PendingBecomes(c, {})
         /\ budget'.reassembly <= ReassemblyLimit
         /\ budget'.queue = budget.queue
         /\ budget'.associations = budget.associations
<1>1. pending[c] \ {} = pending[c] /\ {} \in SUBSET pending[c]
  OBVIOUS
<1>. QED  BY <1>1, PendingShrinks

\* A packet that grows old stays.
LEMMA GrowsOldEffect ==
  ASSUME BudgetTypes, PendingTypes, OnePerPacket, NEW c \in Channels, GrowsOld(c)
  PROVE  /\ \E ps : Proper(ps) /\ PendingBecomes(c, ps)
         /\ UNCHANGED budget /\ pending[c] # {}
<1>1. PICK p \in pending[c] :
        pending' = [pending EXCEPT ![c] = (@ \ {p}) \cup {[p EXCEPT !.old = TRUE]}]
  BY DEF GrowsOld
<1>. DEFINE q == [p EXCEPT !.old = TRUE]
<1>2. Proper(pending[c]) /\ Held(pending[c]) \in Nat
  BY PendingProper, ProperPart
<1>3. p \in Pendings
  BY <1>2 DEF Proper
<1>4. q \in Pendings /\ q.packet = p.packet /\ Reserved(q) = Reserved(p)
  BY <1>3 DEF Pendings, Reserved
<1>. HIDE DEF q
<1>5. /\ Proper((pending[c] \ {p}) \cup {q})
      /\ Held((pending[c] \ {p}) \cup {q}) = Held(pending[c])
  BY <1>2, <1>4, ProperNext
<1>6. UNCHANGED budget
  BY DEF GrowsOld
<1>7. budget.reassembly \in Nat
  BY BudgetFields
<1>8. pending' = [pending EXCEPT ![c] = (pending[c] \ {p}) \cup {q}]
  BY <1>1 DEF q
<1>9. PendingBecomes(c, (pending[c] \ {p}) \cup {q})
  BY <1>2, <1>5, <1>6, <1>7, <1>8 DEF PendingBecomes
<1>. QED  BY <1>1, <1>5, <1>6, <1>9

\* What any step does to what is pending: nothing, or one connection's becomes
\* something proper, and the budget follows.
LEMMA PendingEffect ==
  ASSUME BudgetTypes, PendingTypes, OnePerPacket, TookFrame, Next
  PROVE  /\ budget'.reassembly <= ReassemblyLimit
         /\ \/ UNCHANGED <<pending, budget.reassembly>>
            \/ \E c \in Channels : \E ps : Proper(ps) /\ PendingBecomes(c, ps)
<1>. DEFINE Effect == /\ budget'.reassembly <= ReassemblyLimit
                      /\ \/ UNCHANGED <<pending, budget.reassembly>>
                         \/ \E c \in Channels : \E ps :
                              Proper(ps) /\ PendingBecomes(c, ps)
<1>. SUFFICES Effect
  OBVIOUS
<1>0. budget.reassembly <= ReassemblyLimit
  BY BudgetFields
<1>1. CASE UNCHANGED pending /\ UNCHANGED budget
  BY <1>0, <1>1
<1>2. ASSUME NEW c \in Channels, Assemble(c)
      PROVE  Effect
  BY <1>2, AssembleEffect
<1>3. ASSUME NEW c \in Channels, ConnClosed(c)
      PROVE  Effect
  BY <1>3, PendingDropped DEF ConnClosed
<1>4. ASSUME NEW c \in Channels, Cleanup(c)
      PROVE  Effect
  <2>1. CASE "cleanup" \in hooks[c]
    BY <1>4, <2>1, PendingDropped DEF Cleanup
  <2>2. CASE "cleanup" \notin hooks[c]
    BY <1>0, <1>4, <2>2 DEF Cleanup
  <2>. QED  BY <2>1, <2>2
<1>5. ASSUME NEW c \in Channels, Reap(c)
      PROVE  Effect
  <2>. DEFINE fresh == {p \in pending[c] : ~p.old}
  <2>1. \/ UNCHANGED <<pending, budget>>
        \/ /\ pending' = [pending EXCEPT ![c] = fresh]
           /\ budget' = [budget EXCEPT !.reassembly = @ - Held(pending[c] \ fresh)]
    BY <1>5 DEF Reap
  <2>2. fresh \in SUBSET pending[c]
    OBVIOUS
  <2>. HIDE DEF fresh
  <2>. QED  BY <1>1, <2>1, <2>2, PendingShrinks
<1>6. ASSUME NEW c \in Channels, GrowsOld(c)
      PROVE  Effect
  BY <1>0, <1>6, GrowsOldEffect
<1>7. ASSUME NEW a, NEW q,
             \/ budget' = [budget EXCEPT !.associations = a]
             \/ budget' = [budget EXCEPT !.queue = q]
      PROVE  budget'.reassembly = budget.reassembly
  BY <1>7, BudgetUpdate
<1>8. ASSUME NEW c \in Channels,
             \/ \E i \in Ids : Open(c, i)
             \/ Prepare(c) \/ Enqueue(c) \/ Close(c) \/ Remove(c)
      PROVE  Effect
  <2>1. /\ UNCHANGED pending
        /\ \/ \E a : budget' = [budget EXCEPT !.associations = a]
           \/ \E q : budget' = [budget EXCEPT !.queue = q]
    BY <1>8 DEF Open, Prepare, Enqueue, Queued, Close, Drained, Remove, connVars
  <2>. QED  BY <1>0, <1>7, <2>1
<1>9. ASSUME NEW i \in Ids, NEW f \in Fragments, Deliver(i, f)
      PROVE  Effect
  <2>1. /\ UNCHANGED pending
        /\ \E q : budget' = [budget EXCEPT !.queue = q]
    BY <1>9 DEF Deliver, connVars
  <2>. QED  BY <1>0, <1>7, <2>1
<1>10. CASE Release
  <2>1. /\ UNCHANGED pending
        /\ \E q : budget' = [budget EXCEPT !.queue = q]
    BY <1>10 DEF Release, senderOnly, connVars
  <2>. QED  BY <1>0, <1>7, <2>1
<1>. HIDE DEF Effect
<1>11. \/ UNCHANGED pending
       \/ \E c \in Channels : Assemble(c) \/ ConnClosed(c) \/ Cleanup(c) \/ Reap(c)
                             \/ GrowsOld(c)
  BY PendingChange
<1>12. CASE UNCHANGED pending
  <2>1. CASE UNCHANGED budget
    BY <1>1, <1>12, <2>1
  <2>2. ASSUME NEW c \in Channels,
               \/ \E i \in Ids : Open(c, i)
               \/ Prepare(c) \/ Enqueue(c) \/ Close(c) \/ Remove(c)
               \/ Cleanup(c) \/ ConnClosed(c) \/ Assemble(c)
        PROVE  Effect
    BY <1>2, <1>3, <1>4, <1>8, <2>2, Zenon
  <2>. QED  BY <1>5, <1>9, <1>10, <2>1, <2>2, BudgetChange
<1>. QED  BY <1>2, <1>3, <1>4, <1>5, <1>6, <1>11, <1>12

\* What is pending is proper, and exactly what is reserved for reassembly.
LEMMA PendingStep ==
  ASSUME BudgetTypes, PendingTypes, OnePerPacket, TookFrame, Next,
         budget.reassembly = Total([c \in Channels |-> Held(pending[c])])
  PROVE  /\ PendingTypes' /\ OnePerPacket'
         /\ budget'.reassembly = Total([c \in Channels |-> Held(pending'[c])])
         /\ budget'.reassembly \in 0..ReassemblyLimit
<1>. DEFINE held == [c \in Channels |-> Held(pending[c])]
            new == [c \in Channels |-> Held(pending'[c])]
<1>0. /\ budget.reassembly \in Nat /\ budget.reassembly <= ReassemblyLimit
      /\ budget'.reassembly <= ReassemblyLimit
      /\ IsFiniteSet(Channels) /\ ReassemblyLimit \in Nat
  BY BudgetFields, PendingEffect, DatagramsAssumption
<1>1. CASE UNCHANGED <<pending, budget.reassembly>>
  BY <1>0, <1>1 DEF PendingTypes, OnePerPacket
<1>2. ASSUME NEW c \in Channels, NEW ps, Proper(ps), PendingBecomes(c, ps)
      PROVE  /\ PendingTypes' /\ OnePerPacket'
             /\ budget'.reassembly = Total(new)
             /\ budget'.reassembly \in 0..ReassemblyLimit
  <2>1. pending' = [pending EXCEPT ![c] = ps]
    BY <1>2 DEF PendingBecomes
  <2>2. PendingTypes' /\ OnePerPacket'
    BY <1>2, <2>1 DEF PendingTypes, OnePerPacket, Proper
  <2>3. \A d \in Channels : pending'[d] = IF d = c THEN ps ELSE pending[d]
    BY <2>1 DEF PendingTypes
  <2>4. Held(ps) \in Nat /\ \A d \in Channels : Held(pending[d]) \in Nat
    BY <1>2, PendingProper, ProperPart
  <2>5. held \in [Channels -> Nat] /\ new \in [Channels -> Nat]
    BY <2>3, <2>4
  <2>6. \A d \in Channels \ {c} : new[d] = held[d]
    BY <2>3
  <2>7. held[c] = Held(pending[c]) /\ new[c] = Held(ps)
    BY <2>3
  <2>. HIDE DEF held, new
  <2>8. Total(held) \in Nat /\ held[c] <= Total(held)
        /\ Total(new) = Total(held) - held[c] + new[c]
    BY <1>0, <2>5, <2>6, TotalChange
  <2>9. budget'.reassembly = budget.reassembly - Held(pending[c]) + Held(ps)
    BY <1>2 DEF PendingBecomes
  <2>10. budget.reassembly = Total(held)
    BY DEF held
  <2>11. /\ budget'.reassembly = Total(new)
         /\ budget'.reassembly \in 0..ReassemblyLimit
    BY <1>0, <2>4, <2>7, <2>8, <2>9, <2>10
  <2>. QED  BY <2>2, <2>11
<1>. QED  BY <1>1, <1>2, PendingEffect

\* Connections, readers and the reaper keep their types.
LEMMA ConnTypeStep ==
  ASSUME ConnTypes, Next
  PROVE  ConnTypes'
<1>. USE DEF ConnTypes
<1>1. CASE UNCHANGED <<conn, idle>>
  BY <1>1
<1>2. ASSUME NEW c \in Channels, Enqueue(c)
      PROVE  ConnTypes'
  BY <1>2 DEF Enqueue, Touched
<1>3. ASSUME NEW c \in Channels,
             SetCleanup(c) \/ SetReaper(c) \/ CloseConn(c) \/ ConnClosed(c)
      PROVE  ConnTypes'
  <2>1. /\ idle' \in SUBSET idle
        /\ \E to \in {"made", "open", "closing", "closed"} : conn' = [conn EXCEPT ![c] = to]
    BY <1>3 DEF SetCleanup, SetReaper, CloseConn, ConnClosed
  <2>. QED  BY <2>1
<1>4. ASSUME NEW c \in Channels, GrowsIdle(c)
      PROVE  ConnTypes'
  BY <1>4 DEF GrowsIdle
<1>5. ASSUME NEW c \in Channels, Assemble(c)
      PROVE  ConnTypes'
  <2>1. idle' \in SUBSET idle
    BY <1>5 DEF Assemble, FirstOfPacket, NextOfPacket, Assembled, Touched
  <2>2. UNCHANGED conn
    BY <1>5 DEF Assemble
  <2>. QED  BY <2>1, <2>2
<1>6. ASSUME NEW c \in Channels, Reap(c)
      PROVE  ConnTypes'
  <2>1. /\ UNCHANGED idle
        /\ conn' = conn \/ conn' = [conn EXCEPT ![c] = "closing"]
    BY <1>6 DEF Reap
  <2>. QED  BY <2>1
<1>. QED  BY <1>1, <1>2, <1>3, <1>4, <1>5, <1>6, ConnChange

\* A reader goes elsewhere, with the deadline it has read.
LEMMA ReaderUpdate ==
  ASSUME NEW r \in Readers, NEW a \in {"idle", "looking", "empty", "blocked"},
         NEW d \in {"none", "armed"}
  PROVE  /\ [r EXCEPT !.at = a, !.deadline = d] \in Readers
         /\ [r EXCEPT !.at = a, !.deadline = d].at # "took"
BY DEF Readers

\* What a reader's step makes of it.
LEMMA ReaderEffect ==
  ASSUME QueueTypes, ReadTypes, NEW c \in Channels,
         Read(c) \/ Look(c) \/ Block(c) \/ Unblock(c) \/ Assemble(c) \/ SetDeadline(c)
  PROVE  \E r \in Readers : /\ reader' = [reader EXCEPT ![c] = r]
                            /\ r.at = "took" =>
                                 \/ r.frame \in Fragments
                                 \/ reader[c].at = "took" /\ r.frame = reader[c].frame
<1>. USE DEF ReadTypes
<1>0. /\ NoReader \in Readers /\ NoReader.at # "took"
      /\ [NoReader EXCEPT !.at = "looking"] \in Readers
      /\ [NoReader EXCEPT !.at = "looking"].at # "took"
  BY DEF NoReader, Readers
<1>1. reader[c] \in Readers
  OBVIOUS
<1>2. CASE Read(c)
  BY <1>0, <1>2 DEF Read
<1>3. ASSUME Take(c)
      PROVE  \E r \in Readers : /\ reader' = [reader EXCEPT ![c] = r]
                                /\ r.frame \in Fragments
  <2>1. Head(frames[c]) \in Fragments
    BY <1>3, HeadTailProperties DEF Take, QueueTypes
  <2>2. /\ [NoReader EXCEPT !.at = "took", !.frame = Head(frames[c])] \in Readers
        /\ [NoReader EXCEPT !.at = "took", !.frame = Head(frames[c])].frame
             = Head(frames[c])
    BY <2>1 DEF NoReader, Readers
  <2>. QED  BY <1>3, <2>1, <2>2 DEF Take
<1>4. CASE Look(c)
  <2>1. CASE reader' = [reader EXCEPT ![c] = NoReader]
    BY <1>0, <2>1
  <2>2. CASE Take(c)
    BY <1>3, <2>2
  <2>3. CASE /\ deadline[c] # "passed"
             /\ reader' = [reader EXCEPT ![c].at = "empty", ![c].deadline = deadline[c]]
    <3>1. deadline[c] \in {"none", "armed"}
      BY <2>3
    <3>2. reader' = [reader EXCEPT ![c] =
                      [reader[c] EXCEPT !.at = "empty", !.deadline = deadline[c]]]
      BY <2>3
    <3>. QED  BY <1>1, <3>1, <3>2, ReaderUpdate
  <2>. QED  BY <1>4, <2>1, <2>2, <2>3 DEF Look
<1>5. CASE Block(c)
  <2>1. CASE deadline[c] = "passed"
    BY <1>0, <1>5, <2>1 DEF Block
  <2>2. CASE deadline[c] # "passed"
    <3>1. deadline[c] \in {"none", "armed"}
      BY <2>2
    <3>2. reader' = [reader EXCEPT ![c] =
                      [reader[c] EXCEPT !.at = "blocked", !.deadline = deadline[c]]]
      BY <1>5, <2>2 DEF Block
    <3>. QED  BY <1>1, <3>1, <3>2, ReaderUpdate
  <2>. QED  BY <2>1, <2>2
<1>6. CASE Unblock(c)
  <2>1. CASE Take(c)
    BY <1>3, <2>1
  <2>2. CASE reader' = [reader EXCEPT ![c] = NoReader]
    BY <1>0, <2>2
  <2>3. CASE reader' = [reader EXCEPT ![c] = [NoReader EXCEPT !.at = "looking"]]
    BY <1>0, <2>3
  <2>. QED  BY <1>6, <2>1, <2>2, <2>3 DEF Unblock
<1>7. CASE Assemble(c)
  <2>1. \E r \in {NoReader, [NoReader EXCEPT !.at = "looking"]} :
          reader' = [reader EXCEPT ![c] = r]
    BY <1>7 DEF Assemble, FirstOfPacket, NextOfPacket, Assembled
  <2>. QED  BY <1>0, <2>1
<1>8. CASE SetDeadline(c)
  <2>1. reader' = [reader EXCEPT ![c] =
          [reader[c] EXCEPT !.changed = reader[c].changed \/ (reader[c].at = "blocked")]]
    BY <1>8 DEF SetDeadline
  <2>2. [reader[c] EXCEPT !.changed = reader[c].changed \/ (reader[c].at = "blocked")]
          \in Readers
    BY <1>1 DEF Readers
  <2>. QED  BY <1>1, <2>1, <2>2 DEF Readers
<1>. QED  BY <1>2, <1>4, <1>5, <1>6, <1>7, <1>8

\* Readers keep their types, and what they have taken is a frame.
LEMMA ReadTypeStep ==
  ASSUME QueueTypes, ReadTypes, TookFrame, Next
  PROVE  ReadTypes' /\ TookFrame'
<1>1. CASE UNCHANGED <<reader, deadline>>
  BY <1>1 DEF ReadTypes, TookFrame
<1>2. ASSUME NEW c \in Channels,
             Read(c) \/ Look(c) \/ Block(c) \/ Unblock(c) \/ Assemble(c) \/ SetDeadline(c)
      PROVE  ReadTypes' /\ TookFrame'
  <2>1. PICK r \in Readers : /\ reader' = [reader EXCEPT ![c] = r]
                             /\ r.at = "took" =>
                                  \/ r.frame \in Fragments
                                  \/ reader[c].at = "took" /\ r.frame = reader[c].frame
    BY <1>2, ReaderEffect
  <2>2. deadline' \in [Channels -> {"none", "armed", "passed"}]
    <3>1. UNCHANGED deadline \/ \E d \in {"none", "armed"} :
                                  deadline' = [deadline EXCEPT ![c] = d]
      BY <1>2 DEF Read, Look, Block, Unblock, Assemble, SetDeadline
    <3>. QED  BY <3>1 DEF ReadTypes
  <2>3. \A d \in Channels : reader'[d] = IF d = c THEN r ELSE reader[d]
    BY <2>1 DEF ReadTypes
  <2>4. ReadTypes'
    BY <2>1, <2>2 DEF ReadTypes
  <2>5. TookFrame'
    BY <2>1, <2>3 DEF TookFrame
  <2>. QED  BY <2>4, <2>5
<1>3. ASSUME NEW c \in Channels, DeadlinePasses(c)
      PROVE  ReadTypes' /\ TookFrame'
  BY <1>3 DEF DeadlinePasses, ReadTypes, TookFrame
<1>. QED  BY <1>1, <1>2, <1>3, ReadChange

\* The reaper keeps its type.
LEMMA ReapTypeStep ==
  ASSUME ReapTypes, Next
  PROVE  ReapTypes'
<1>. USE DEF ReapTypes
<1>1. CASE UNCHANGED <<reaper, wake>>
  BY <1>1
<1>2. ASSUME NEW c \in Channels, Remove(c) \/ SetReaper(c) \/ Assemble(c)
      PROVE  ReapTypes'
  <2>1. UNCHANGED reaper /\ (UNCHANGED wake \/ WakeReaper)
    BY <1>2 DEF Remove, SetReaper, Assemble, FirstOfPacket, NextOfPacket
  <2>2. [requested |-> TRUE, token |-> TRUE] \in [requested : BOOLEAN, token : BOOLEAN]
    OBVIOUS
  <2>3. wake' = wake \/ wake' = [requested |-> TRUE, token |-> TRUE]
    BY <2>1, Zenon DEF WakeReaper
  <2>. QED  BY <2>1, <2>2, <2>3
<1>3. CASE TakeToken
  <2>1. reaper' = [reaper EXCEPT !.timer = TRUE]
    BY <1>3 DEF TakeToken
  <2>2. reaper' \in Reapers
    BY <2>1 DEF Reapers
  <2>. QED  BY <1>3, <2>2 DEF TakeToken
<1>4. CASE Fire
  <2>. DEFINE S == {c \in Channels : channel[c] = "open" /\ "reaper" \in hooks[c]}
  <2>1. reaper' = [reaper EXCEPT !.at = "scanning", !.timer = FALSE, !.left = S]
    BY <1>4 DEF Fire
  <2>2. S \in SUBSET Channels
    OBVIOUS
  <2>. HIDE DEF S
  <2>3. reaper' \in Reapers
    BY <2>1, <2>2 DEF Reapers
  <2>. QED  BY <1>4, <2>3 DEF Fire
<1>5. ASSUME NEW c \in Channels, Reap(c)
      PROVE  ReapTypes'
  <2>1. PICK at \in {"scanning", "closing"}, current \in {c, None}, next \in BOOLEAN :
          reaper' = [reaper EXCEPT !.left = @ \ {c}, !.at = at, !.current = current,
                                   !.next = next]
    BY <1>5 DEF Reap, Reapers
  <2>2. reaper' \in Reapers
    BY <2>1 DEF Reapers
  <2>. QED  BY <1>5, <2>2 DEF Reap
<1>6. CASE Reaped
  <2>1. reaper' = [reaper EXCEPT !.at = "scanning", !.current = None]
    BY <1>6 DEF Reaped
  <2>2. reaper' \in Reapers
    BY <2>1 DEF Reapers
  <2>. QED  BY <1>6, <2>2 DEF Reaped
<1>7. CASE EndScan \/ ReaperEnds
  <2>1. reaper.next \in BOOLEAN
    BY DEF Reapers
  <2>2. reaper' \in Reapers
    BY <1>7, <2>1 DEF EndScan, ReaperEnds, Asleep, Reapers
  <2>. QED  BY <1>7, <2>2 DEF EndScan, ReaperEnds
<1>. QED  BY <1>1, <1>2, <1>3, <1>4, <1>5, <1>6, <1>7, ReapChange

\* Events are counted up to the bound.
LEMMA EventStep ==
  ASSUME events \in 0..MaxEvents, Next
  PROVE  events' \in 0..MaxEvents
<1>. DEFINE Counted == UNCHANGED events \/ Event
<1>0. MaxEvents \in Nat
  BY DatagramsAssumption
<1>1. ASSUME NEW c \in Channels,
             \/ \E i \in Ids : Open(c, i)
             \/ Prepare(c) \/ Enqueue(c) \/ Close(c) \/ Cleanup(c) \/ Remove(c)
             \/ MuxClosed(c) \/ SetCleanup(c) \/ SetReaper(c) \/ CloseConn(c)
      PROVE  Counted
  BY <1>1 DEF Open, Prepare, Enqueue, Close, Cleanup, Remove, MuxClosed,
              SetCleanup, SetReaper, CloseConn
<1>2. ASSUME NEW c \in Channels,
             \/ ConnClosed(c) \/ GrowsIdle(c) \/ GrowsOld(c) \/ Read(c) \/ Reading(c)
             \/ SetDeadline(c) \/ DeadlinePasses(c)
      PROVE  Counted
  BY <1>2
     DEF ConnClosed, GrowsIdle, GrowsOld, Read, Reading, Look, Block, Unblock,
              Assemble, SetDeadline, DeadlinePasses
<1>3. ASSUME NEW i \in Ids, NEW f \in Fragments, Deliver(i, f)
      PROVE  Counted
  BY <1>3 DEF Deliver
<1>4. ASSUME SessionEnds \/ CloseMux
      PROVE  Counted
  BY <1>4 DEF SessionEnds, CloseMux
<1>5. ASSUME Sending
      PROVE  Counted
  BY <1>5
     DEF Sending, Dequeue, Release, Sent, SenderGoesOn, SenderEnds, senderOnly
<1>6. ASSUME Reaping \/ Fire
      PROVE  Counted
  BY <1>6
     DEF Reaping, TakeToken, Reaped, EndScan, ReaperEnds, Reap, Fire, reaperOnly
<1>7. ASSUME Counted
      PROVE  events' \in 0..MaxEvents
  BY <1>0, <1>7 DEF Event
<1>. HIDE DEF Counted
<1>8. ASSUME NEW c \in Channels, OfChannel(c)
      PROVE  Counted
  BY <1>1, <1>2, <1>8 DEF OfChannel
<1>. QED  BY <1>3, <1>4, <1>5, <1>6, <1>7, <1>8, NextSplit

-----------------------------------------------------------------------------
(* Cleaning up                                                              *)

\* Only an open channel's pending packets become more than none.
LEMMA PendingGrows ==
  ASSUME PendingTypes, Next, NEW c \in Channels, pending'[c] # {}
  PROVE  \/ pending[c] # {} /\ ~(Cleanup(c) /\ "cleanup" \in hooks[c])
         \/ UNCHANGED <<channel, conn, hooks>> /\ conn[c] = "open" /\ channel[c] = "open"
<1>. DEFINE Kept == pending[c] # {} /\ ~(Cleanup(c) /\ "cleanup" \in hooks[c])
            Open1 == /\ UNCHANGED <<channel, conn, hooks>>
                     /\ conn[c] = "open" /\ channel[c] = "open"
<1>. SUFFICES Kept \/ Open1
  OBVIOUS
<1>0. ASSUME Cleanup(c), "cleanup" \in hooks[c]
      PROVE  FALSE
  BY <1>0 DEF Cleanup, PendingTypes
<1>1. CASE UNCHANGED pending
  BY <1>0, <1>1
<1>2. ASSUME NEW d \in Channels, Cleanup(d) \/ ConnClosed(d) \/ GrowsOld(d) \/ Reap(d)
      PROVE  pending[c] # {}
  <2>1. \/ UNCHANGED pending
        \/ \E ps : /\ pending' = [pending EXCEPT ![d] = ps]
                   /\ ps # {} => pending[d] # {}
    BY <1>2 DEF Cleanup, ConnClosed, GrowsOld, Reap
  <2>. QED  BY <2>1 DEF PendingTypes
<1>3. ASSUME NEW d \in Channels, Assemble(d)
      PROVE  pending[c] # {} \/ Open1
  <2>1. \/ UNCHANGED pending
        \/ ~Ended(d) /\ \E ps : pending' = [pending EXCEPT ![d] = ps]
    BY <1>3 DEF Assemble, FirstOfPacket, NextOfPacket, Assembled
  <2>2. UNCHANGED <<channel, conn, hooks>>
    BY <1>3 DEF Assemble, channelVars
  <2>. QED  BY <2>1, <2>2 DEF PendingTypes, Ended
<1>. HIDE DEF Open1
<1>. QED  BY <1>0, <1>1, <1>2, <1>3, PendingChange

\* A channel that has cleaned up has nothing pending.
LEMMA CleanedStep ==
  ASSUME TableTypes, PendingTypes, CleanupFirst, Next,
         \A c \in Channels : channel[c] \in {"cleaned", "gone"} => pending[c] = {},
         NEW c \in Channels, channel'[c] \in {"cleaned", "gone"}
  PROVE  pending'[c] = {}
<1>1. channel[c] \in {"cleaned", "gone"} \/ Cleanup(c)
  <2>. USE DEF TableTypes
  <2>1. ASSUME NEW d \in Channels, NEW i \in Ids, Open(d, i)
        PROVE  channel[c] \in {"cleaned", "gone"}
    BY <2>1 DEF Open
  <2>2. ASSUME NEW d \in Channels, Close(d) \/ Remove(d)
        PROVE  channel[c] \in {"cleaned", "gone"}
    BY <2>2 DEF Close, Remove
  <2>3. ASSUME NEW d \in Channels, Cleanup(d)
        PROVE  channel[c] \in {"cleaned", "gone"} \/ d = c
    BY <2>3 DEF Cleanup
  <2>. QED  BY <2>1, <2>2, <2>3, TableChange
<1>2. ASSUME pending'[c] # {}
      PROVE  FALSE
  <2>1. CASE pending[c] # {} /\ ~(Cleanup(c) /\ "cleanup" \in hooks[c])
    BY <1>1, <2>1 DEF CleanupFirst
  <2>2. CASE UNCHANGED channel /\ channel[c] = "open"
    BY <2>2
  <2>. QED  BY <1>2, <2>1, <2>2, PendingGrows
<1>. QED  BY <1>2

\* The cleanup is set before anything is there to be cleaned up.
LEMMA CleanupFirstStep ==
  ASSUME MuxTypes, ConnTypes, PendingTypes, ReadTypes, CleanupFirst, Next
  PROVE  CleanupFirst'
<1>1. ASSUME NEW c \in Channels
      PROVE  hooks[c] \in SUBSET hooks'[c]
  <2>1. ASSUME NEW d \in Channels, SetCleanup(d) \/ SetReaper(d)
        PROVE  hooks[c] \in SUBSET hooks'[c]
    <3>1. UNCHANGED hooks \/ \E h : hooks' = [hooks EXCEPT ![d] = @ \cup {h}]
      BY <2>1 DEF SetCleanup, SetReaper
    <3>. QED  BY <3>1 DEF MuxTypes
  <2>2. ASSUME NEW d \in Channels, MuxClosed(d)
        PROVE  UNCHANGED hooks
    BY <2>2 DEF MuxClosed, channelVars
  <2>3. ASSUME SessionEnds \/ CloseMux
        PROVE  UNCHANGED hooks
    BY <2>3 DEF SessionEnds, CloseMux, channelVars
  <2>. QED  BY <2>1, <2>2, <2>3, MuxChange
<1>2. ASSUME NEW c \in Channels, conn'[c] \in {"made", "open"}
      PROVE  "cleanup" \in hooks'[c]
  <2>. USE DEF ConnTypes
  <2>1. ASSUME NEW d \in Channels, SetCleanup(d)
        PROVE  conn[c] \in {"made", "open"} \/ "cleanup" \in hooks'[c]
    BY <1>2, <2>1 DEF SetCleanup, MuxTypes
  <2>2. ASSUME NEW d \in Channels,
               SetReaper(d) \/ CloseConn(d) \/ ConnClosed(d) \/ GrowsIdle(d)
               \/ Assemble(d) \/ Enqueue(d) \/ Reap(d)
        PROVE  conn[c] \in {"made", "open"}
    BY <1>2, <2>2
       DEF SetReaper, CloseConn, ConnClosed, GrowsIdle, Assemble, Enqueue,
                      Reap
  <2>3. conn[c] \in {"made", "open"} \/ "cleanup" \in hooks'[c]
    BY <1>2, <2>1, <2>2, ConnChange
  <2>. QED  BY <1>1, <2>3 DEF CleanupFirst
<1>3. ASSUME NEW c \in Channels, "cleanup" \notin hooks'[c]
      PROVE  pending'[c] = {} /\ reader'[c].at = "idle"
  <2>1. /\ pending[c] = {} /\ reader[c].at = "idle"
        /\ conn[c] # "open"
    BY <1>1, <1>3 DEF CleanupFirst
  <2>2. pending'[c] = {}
    BY <2>1, PendingGrows
  <2>3. ASSUME NEW d \in Channels,
               Read(d) \/ Look(d) \/ Block(d) \/ Unblock(d) \/ Assemble(d) \/ SetDeadline(d)
        PROVE  reader'[c].at = "idle"
    <3>1. d # c
      BY <2>1, <2>3 DEF Read, Look, Block, Unblock, Assemble, SetDeadline
    <3>2. \E r : reader' = [reader EXCEPT ![d] = r]
      BY <2>3 DEF Read, Look, Block, Unblock, Take, Assemble, FirstOfPacket,
                  NextOfPacket, Assembled, SetDeadline, ReadTypes
    <3>. QED  BY <2>1, <3>1, <3>2 DEF ReadTypes
  <2>4. ASSUME NEW d \in Channels, DeadlinePasses(d)
        PROVE  UNCHANGED reader
    BY <2>4 DEF DeadlinePasses
  <2>. QED  BY <2>1, <2>2, <2>3, <2>4, ReadChange
<1>. QED  BY <1>2, <1>3 DEF CleanupFirst

-----------------------------------------------------------------------------
(* What is queued is what is reserved                                       *)

FrameLens == [c \in Channels |-> Len(frames[c])]
SenderHolds == IF sender.at = "held" THEN 1 ELSE 0

QueueExact ==
  budget.queue = Total(FrameLens) + Len(send) + Cardinality(prepared) + SenderHolds
                   + Cardinality(Holders)

AssociationsExact ==
  budget.associations = Cardinality({c \in Channels : channel[c] \notin {"new", "gone"}})

ReassemblyExact == budget.reassembly = Total([c \in Channels |-> Held(pending[c])])

\* The three budgets are exact.
LEMMA ExactParts ==
  /\ BudgetIsExact <=> QueueExact /\ ReassemblyExact /\ AssociationsExact
  /\ BudgetIsExact' <=> QueueExact' /\ ReassemblyExact' /\ AssociationsExact'
<1>1. BudgetIsExact <=> QueueExact /\ ReassemblyExact /\ AssociationsExact
  BY DEF BudgetIsExact, QueueExact, ReassemblyExact, AssociationsExact, FrameLens,
         SenderHolds, Holders
<1>2. BudgetIsExact' <=> QueueExact' /\ ReassemblyExact' /\ AssociationsExact'
  BY DEF BudgetIsExact, QueueExact, ReassemblyExact, AssociationsExact, FrameLens,
         SenderHolds, Holders
<1>. QED  BY <1>1, <1>2

\* What the terms of the sum are.
LEMMA QueueTerms ==
  ASSUME QueueTypes
  PROVE  /\ Total(FrameLens) \in Nat /\ Len(send) \in Nat
         /\ IsFiniteSet(prepared) /\ Cardinality(prepared) \in Nat
         /\ IsFiniteSet(Holders) /\ Cardinality(Holders) \in Nat
         /\ SenderHolds \in Nat
         /\ IsFiniteSet(Channels)
<1>1. IsFiniteSet(Channels)
  BY DatagramsAssumption
<1>2. IsFiniteSet(prepared) /\ IsFiniteSet(Holders)
  BY <1>1, FS_Subset DEF QueueTypes, Holders
<1>3. Cardinality(prepared) \in Nat /\ Cardinality(Holders) \in Nat
  BY <1>2, FS_CardinalityType
<1>4. FrameLens \in [Channels -> Nat]
  BY LenProperties DEF QueueTypes, FrameLens
<1>5. Total(FrameLens) \in Nat
  BY <1>1, <1>4, TotalType
<1>6. Len(send) \in Nat
  BY LenProperties DEF QueueTypes
<1>. QED  BY <1>1, <1>2, <1>3, <1>5, <1>6 DEF SenderHolds

\* One channel's frames change.
LEMMA FramesChange ==
  ASSUME QueueTypes, NEW c \in Channels, NEW q \in Seq(Fragments),
         frames' = [frames EXCEPT ![c] = q]
  PROVE  /\ Total(FrameLens') = Total(FrameLens) - Len(frames[c]) + Len(q)
         /\ Len(frames[c]) \in Nat /\ Len(frames[c]) <= Total(FrameLens)
         /\ Len(q) \in Nat
<1>1. \A d \in Channels : frames'[d] = IF d = c THEN q ELSE frames[d]
  BY DEF QueueTypes
<1>2. Len(q) \in Nat /\ \A d \in Channels : Len(frames[d]) \in Nat
  BY LenProperties DEF QueueTypes
<1>3. FrameLens \in [Channels -> Nat] /\ FrameLens' \in [Channels -> Nat]
  BY <1>1, <1>2 DEF FrameLens
<1>4. /\ \A d \in Channels \ {c} : FrameLens'[d] = FrameLens[d]
      /\ FrameLens[c] = Len(frames[c]) /\ FrameLens'[c] = Len(q)
  BY <1>1 DEF FrameLens
<1>5. /\ Total(FrameLens) \in Nat /\ FrameLens[c] <= Total(FrameLens)
      /\ Total(FrameLens') = Total(FrameLens) - FrameLens[c] + FrameLens'[c]
  <2>. DEFINE f == FrameLens
              g == FrameLens'
  <2>1. IsFiniteSet(Channels)
    BY DatagramsAssumption
  <2>2. /\ f \in [Channels -> Nat] /\ g \in [Channels -> Nat]
        /\ \A d \in Channels \ {c} : g[d] = f[d]
    BY <1>3, <1>4
  <2>. HIDE DEF f, g
  <2>3. /\ Total(f) \in Nat /\ f[c] <= Total(f)
        /\ Total(g) = Total(f) - f[c] + g[c]
    BY <2>1, <2>2, TotalChange
  <2>. QED  BY <2>3 DEF f, g
<1>. QED  BY <1>2, <1>4, <1>5

\* A reader takes a frame, gives it up, or does neither.
LEMMA HandsChange ==
  ASSUME QueueTypes, ReadTypes, NEW c \in Channels, NEW r,
         reader' = [reader EXCEPT ![c] = r]
  PROVE  /\ reader[c].at # "took" /\ r.at = "took" =>
              Cardinality(Holders') = Cardinality(Holders) + 1
         /\ reader[c].at = "took" /\ r.at # "took" =>
              Cardinality(Holders') = Cardinality(Holders) - 1
         /\ (reader[c].at = "took" <=> r.at = "took") => Holders' = Holders
<1>1. \A d \in Channels : reader'[d] = IF d = c THEN r ELSE reader[d]
  BY DEF ReadTypes
<1>2. ASSUME reader[c].at # "took", r.at = "took"
      PROVE  Cardinality(Holders') = Cardinality(Holders) + 1
  <2>1. Holders' = Holders \cup {c} /\ c \notin Holders
    BY <1>1, <1>2 DEF Holders
  <2>. QED  BY <2>1, QueueTerms, FS_AddElement
<1>3. ASSUME reader[c].at = "took", r.at # "took"
      PROVE  Cardinality(Holders') = Cardinality(Holders) - 1
  <2>1. Holders' = Holders \ {c} /\ c \in Holders
    BY <1>1, <1>3 DEF Holders
  <2>. QED  BY <2>1, QueueTerms, FS_RemoveElement
<1>4. ASSUME reader[c].at = "took" <=> r.at = "took"
      PROVE  Holders' = Holders
  BY <1>1, <1>4 DEF Holders
<1>. QED  BY <1>2, <1>3, <1>4

QueueKept == QueueExact' /\ budget'.queue \in 0..QueueLimit

\* Five terms and the budget change by the same amount.
LEMMA SumOfChanges ==
  ASSUME NEW b \in Int, NEW f \in Int, NEW l \in Int, NEW m \in Int, NEW s \in Int,
         NEW v \in Int, NEW bb \in Int, NEW ff \in Int, NEW ll \in Int, NEW mm \in Int,
         NEW ss \in Int, NEW vv \in Int,
         b = f + l + m + s + v,
         bb - b = (ff - f) + (ll - l) + (mm - m) + (ss - s) + (vv - v)
  PROVE  bb = ff + ll + mm + ss + vv
OBVIOUS

\* A step whose terms add up keeps the sum.
LEMMA Balanced ==
  ASSUME QueueTypes, QueueTypes', BudgetTypes, QueueExact,
         budget'.queue - budget.queue =
           (Total(FrameLens') - Total(FrameLens)) + (Len(send') - Len(send))
             + (Cardinality(prepared') - Cardinality(prepared))
             + (SenderHolds' - SenderHolds)
             + (Cardinality(Holders') - Cardinality(Holders)),
         budget'.queue \in Int, budget'.queue <= QueueLimit
  PROVE  QueueKept
<1>1. /\ Total(FrameLens) \in Nat /\ Len(send) \in Nat /\ Cardinality(prepared) \in Nat
      /\ Cardinality(Holders) \in Nat /\ SenderHolds \in Nat
      /\ IsFiniteSet(Channels)
  BY QueueTerms
<1>2. /\ Total(FrameLens') \in Nat /\ Len(send') \in Nat /\ Cardinality(prepared') \in Nat
      /\ Cardinality(Holders') \in Nat /\ SenderHolds' \in Nat
  <2>1. FrameLens' \in [Channels -> Nat]
    BY LenProperties DEF QueueTypes, FrameLens
  <2>2. IsFiniteSet(prepared') /\ IsFiniteSet(Holders')
    BY <1>1, FS_Subset DEF QueueTypes, Holders
  <2>3. Len(send') \in Nat
    BY LenProperties DEF QueueTypes
  <2>. QED  BY <1>1, <2>1, <2>2, <2>3, TotalType, FS_CardinalityType
               DEF SenderHolds
<1>3. budget.queue \in Nat /\ QueueLimit \in Nat
  BY BudgetFields, DatagramsAssumption
<1>4. budget'.queue =
        Total(FrameLens') + Len(send') + Cardinality(prepared') + SenderHolds'
          + Cardinality(Holders')
  <2>. DEFINE b == budget.queue
              bb == budget'.queue
              f == Total(FrameLens)
              ff == Total(FrameLens')
              l == Len(send)
              ll == Len(send')
              m == Cardinality(prepared)
              mm == Cardinality(prepared')
              s == SenderHolds
              ss == SenderHolds'
              v == Cardinality(Holders)
              vv == Cardinality(Holders')
  <2>1. b = f + l + m + s + v
    BY DEF QueueExact
  <2>2. bb - b = (ff - f) + (ll - l) + (mm - m) + (ss - s) + (vv - v)
    OBVIOUS
  <2>3. b \in Int /\ f \in Int /\ l \in Int /\ m \in Int /\ s \in Int /\ v \in Int
    BY <1>1, <1>3
  <2>4. /\ bb \in Int /\ ff \in Int /\ ll \in Int /\ mm \in Int /\ ss \in Int
        /\ vv \in Int
    BY <1>2
  <2>. HIDE DEF b, bb, f, ff, l, ll, m, mm, s, ss, v, vv
  <2>5. bb = ff + ll + mm + ss + vv
    BY <2>1, <2>2, <2>3, <2>4, SumOfChanges
  <2>. QED  BY <2>5 DEF bb, ff, ll, mm, ss, vv
<1>5. budget'.queue \in 0..QueueLimit
  BY <1>2, <1>3, <1>4
<1>. QED  BY <1>4, <1>5 DEF QueueKept, QueueExact

\* A datagram arrives.
LEMMA DeliverKeeps ==
  ASSUME TableTypes, QueueTypes, QueueTypes', BudgetTypes, QueueExact, NEW i \in Ids,
         NEW f \in Fragments, Deliver(i, f)
  PROVE  QueueKept
<1>1. PICK c \in Channels :
        /\ frames' = [frames EXCEPT ![c] = Pushed(frames[c], f, FrameQueue)]
        /\ budget' = [budget EXCEPT
                        !.queue = budget.queue + 1 - Dropped(frames[c], FrameQueue)]
        /\ budget.queue < QueueLimit
        /\ UNCHANGED <<send, prepared, sender, reader>>
  BY DEF Deliver, TableTypes, readVars
<1>2. /\ Pushed(frames[c], f, FrameQueue) \in Seq(Fragments)
      /\ Len(Pushed(frames[c], f, FrameQueue))
           = Len(frames[c]) + 1 - Dropped(frames[c], FrameQueue)
      /\ Dropped(frames[c], FrameQueue) \in {0, 1}
  BY DatagramsAssumption, PushedQueue DEF QueueTypes
<1>3. budget'.queue = budget.queue + 1 - Dropped(frames[c], FrameQueue)
  BY <1>1, BudgetUpdate
<1>4. budget.queue \in Nat /\ QueueLimit \in Nat
  BY BudgetFields, DatagramsAssumption
<1>5. /\ Total(FrameLens') = Total(FrameLens) - Len(frames[c])
                               + Len(Pushed(frames[c], f, FrameQueue))
      /\ Len(frames[c]) \in Nat
  BY <1>1, <1>2, FramesChange
<1>6. SenderHolds' = SenderHolds /\ Holders' = Holders
  BY <1>1 DEF SenderHolds, Holders
<1>7. /\ Len(send) \in Nat /\ Cardinality(prepared) \in Nat /\ Total(FrameLens) \in Nat
      /\ Cardinality(Holders) \in Nat /\ SenderHolds \in Nat
  BY QueueTerms
<1>8. budget'.queue - budget.queue =
        (Total(FrameLens') - Total(FrameLens)) + (Len(send') - Len(send))
          + (Cardinality(prepared') - Cardinality(prepared))
          + (SenderHolds' - SenderHolds)
          + (Cardinality(Holders') - Cardinality(Holders))
  <2>1. /\ Total(FrameLens') - Total(FrameLens) = 1 - Dropped(frames[c], FrameQueue)
        /\ budget'.queue - budget.queue = 1 - Dropped(frames[c], FrameQueue)
        /\ 1 - Dropped(frames[c], FrameQueue) \in Int
    BY <1>2, <1>3, <1>4, <1>5, <1>7
  <2>2. /\ Len(send') - Len(send) = 0 /\ SenderHolds' - SenderHolds = 0
        /\ Cardinality(prepared') - Cardinality(prepared) = 0
        /\ Cardinality(Holders') - Cardinality(Holders) = 0
    BY <1>1, <1>6, <1>7
  <2>. QED  BY <2>1, <2>2
<1>9. budget'.queue \in Int /\ budget'.queue <= QueueLimit
  BY <1>1, <1>2, <1>3, <1>4
<1>. QED  BY <1>8, <1>9, Balanced

\* A packet is reserved for.
LEMMA PrepareKeeps ==
  ASSUME QueueTypes, QueueTypes', BudgetTypes, QueueExact, NEW c \in Channels, Prepare(c)
  PROVE  QueueKept
<1>1. /\ c \notin prepared /\ prepared' = prepared \cup {c}
      /\ budget' = [budget EXCEPT !.queue = budget.queue + 1]
      /\ budget.queue < QueueLimit
      /\ UNCHANGED <<frames, send, sender, reader>>
  BY DEF Prepare, readVars
<1>2. budget'.queue = budget.queue + 1
  BY <1>1, BudgetUpdate
<1>3. budget.queue \in Nat /\ QueueLimit \in Nat
  BY BudgetFields, DatagramsAssumption
<1>4. SenderHolds' = SenderHolds /\ Holders' = Holders /\ FrameLens' = FrameLens
  BY <1>1 DEF SenderHolds, Holders, FrameLens
<1>5. /\ Len(send) \in Nat /\ Cardinality(prepared) \in Nat /\ Total(FrameLens) \in Nat
      /\ Cardinality(Holders) \in Nat /\ SenderHolds \in Nat
  BY QueueTerms
<1>6. Cardinality(prepared') = Cardinality(prepared) + 1
  BY <1>1, QueueTerms, FS_AddElement
<1>7. budget'.queue - budget.queue =
        (Total(FrameLens') - Total(FrameLens)) + (Len(send') - Len(send))
          + (Cardinality(prepared') - Cardinality(prepared))
          + (SenderHolds' - SenderHolds)
          + (Cardinality(Holders') - Cardinality(Holders))
  BY <1>1, <1>2, <1>3, <1>4, <1>5, <1>6
<1>8. budget'.queue \in Int /\ budget'.queue <= QueueLimit
  BY <1>1, <1>2, <1>3
<1>. QED  BY <1>7, <1>8, Balanced

\* It is queued, in the place of the oldest if need be, or given up.
LEMMA EnqueueKeeps ==
  ASSUME QueueTypes, QueueTypes', BudgetTypes, QueueExact, NEW c \in Channels, Enqueue(c)
  PROVE  QueueKept
<1>1. /\ c \in prepared /\ prepared' = prepared \ {c}
      /\ UNCHANGED <<frames, sender, reader>>
      /\ \/ /\ send' = Pushed(send, c, SendQueue)
            /\ budget' = [budget EXCEPT !.queue = budget.queue - Dropped(send, SendQueue)]
         \/ /\ UNCHANGED send
            /\ budget' = [budget EXCEPT !.queue = budget.queue - 1]
  BY DEF Enqueue, Queued, readVars
<1>2. /\ Len(Pushed(send, c, SendQueue)) = Len(send) + 1 - Dropped(send, SendQueue)
      /\ Dropped(send, SendQueue) \in {0, 1}
  BY DatagramsAssumption, PushedQueue DEF QueueTypes
<1>3. \/ /\ Len(send') = Len(send) + 1 - Dropped(send, SendQueue)
         /\ budget'.queue = budget.queue - Dropped(send, SendQueue)
      \/ Len(send') = Len(send) /\ budget'.queue = budget.queue - 1
  BY <1>1, <1>2, BudgetUpdate
<1>4. budget.queue \in Nat /\ budget.queue <= QueueLimit /\ QueueLimit \in Nat
  BY BudgetFields, DatagramsAssumption
<1>5. SenderHolds' = SenderHolds /\ Holders' = Holders /\ FrameLens' = FrameLens
  BY <1>1 DEF SenderHolds, Holders, FrameLens
<1>6. /\ Len(send) \in Nat /\ Cardinality(prepared) \in Nat /\ Total(FrameLens) \in Nat
      /\ Cardinality(Holders) \in Nat /\ SenderHolds \in Nat
  BY QueueTerms
<1>7. Cardinality(prepared') = Cardinality(prepared) - 1
  BY <1>1, QueueTerms, FS_RemoveElement
<1>8. budget'.queue - budget.queue =
        (Total(FrameLens') - Total(FrameLens)) + (Len(send') - Len(send))
          + (Cardinality(prepared') - Cardinality(prepared))
          + (SenderHolds' - SenderHolds)
          + (Cardinality(Holders') - Cardinality(Holders))
  BY <1>2, <1>3, <1>4, <1>5, <1>6, <1>7
<1>9. budget'.queue \in Int /\ budget'.queue <= QueueLimit
  BY <1>2, <1>3, <1>4
<1>. QED  BY <1>8, <1>9, Balanced

\* A channel's queues are drained.
LEMMA CloseKeeps ==
  ASSUME QueueTypes, QueueTypes', BudgetTypes, QueueExact, NEW c \in Channels, Close(c)
  PROVE  QueueKept
<1>1. /\ frames' = [frames EXCEPT ![c] = <<>>] /\ send' = Without(send, c)
      /\ budget' = [budget EXCEPT
           !.queue = budget.queue - Len(frames[c]) - (Len(send) - Len(send'))]
      /\ UNCHANGED <<prepared, sender, reader>>
  BY DEF Close, Drained, readVars
<1>2. /\ Len(send') <= Len(send) /\ Len(send') \in Int /\ Len(send) \in Int
  <2>1. Without(send, c) \in Seq(Channels) /\ Len(Without(send, c)) <= Len(send)
    BY WithoutQueue DEF QueueTypes
  <2>. QED  BY <1>1, <2>1, LenProperties DEF QueueTypes
<1>3. budget'.queue = budget.queue - Len(frames[c]) - (Len(send) - Len(send'))
  BY <1>1, BudgetUpdate
<1>4. budget.queue \in Int /\ budget.queue <= QueueLimit /\ QueueLimit \in Int
  BY BudgetFields, DatagramsAssumption
<1>5. /\ Total(FrameLens') = Total(FrameLens) - Len(frames[c])
      /\ Len(frames[c]) \in Int /\ Len(frames[c]) >= 0
  <2>1. <<>> \in Seq(Fragments) /\ Len(<<>>) = 0
    BY EmptySeq
  <2>2. /\ Total(FrameLens') = Total(FrameLens) - Len(frames[c]) + Len(<<>>)
        /\ Len(frames[c]) \in Nat
    BY <1>1, <2>1, FramesChange
  <2>3. Total(FrameLens) \in Nat
    BY QueueTerms
  <2>. QED  BY <2>1, <2>2, <2>3
<1>6. SenderHolds' = SenderHolds /\ Holders' = Holders
  BY <1>1 DEF SenderHolds, Holders
<1>7. /\ Cardinality(prepared) \in Int /\ Total(FrameLens) \in Int
      /\ Cardinality(Holders) \in Int /\ SenderHolds \in Int
  BY QueueTerms
<1>8. budget'.queue - budget.queue =
        (Total(FrameLens') - Total(FrameLens)) + (Len(send') - Len(send))
          + (Cardinality(prepared') - Cardinality(prepared))
          + (SenderHolds' - SenderHolds)
          + (Cardinality(Holders') - Cardinality(Holders))
  <2>1. budget'.queue - budget.queue =
          (Total(FrameLens') - Total(FrameLens)) + (Len(send') - Len(send))
    BY <1>2, <1>3, <1>4, <1>5, <1>7
  <2>2. /\ SenderHolds' - SenderHolds = 0
        /\ Cardinality(prepared') - Cardinality(prepared) = 0
        /\ Cardinality(Holders') - Cardinality(Holders) = 0
    BY <1>1, <1>6, <1>7
  <2>3. (Total(FrameLens') - Total(FrameLens)) + (Len(send') - Len(send)) \in Int
    BY <1>2, <1>5, <1>7
  <2>. QED  BY <2>1, <2>2, <2>3
<1>9. budget'.queue \in Int /\ budget'.queue <= QueueLimit
  BY <1>2, <1>3, <1>4, <1>5
<1>. QED  BY <1>8, <1>9, Balanced

\* A frame goes from a queue into a reader's hands, and stays reserved.
LEMMA TakeKeeps ==
  ASSUME QueueTypes, QueueTypes', BudgetTypes, ReadTypes, QueueExact,
         NEW c \in Channels, reader[c].at # "took", Take(c),
         UNCHANGED <<send, prepared, sender, budget>>
  PROVE  QueueKept
<1>. DEFINE r == [NoReader EXCEPT !.at = "took", !.frame = Head(frames[c])]
<1>1. /\ frames[c] # <<>> /\ frames' = [frames EXCEPT ![c] = Tail(frames[c])]
      /\ reader' = [reader EXCEPT ![c] = r]
  BY DEF Take
<1>2. r.at = "took"
  BY DEF NoReader
<1>. HIDE DEF r
<1>3. Cardinality(Holders') = Cardinality(Holders) + 1
  BY <1>1, <1>2, HandsChange
<1>4. Total(FrameLens') = Total(FrameLens) - 1
  <2>1. Tail(frames[c]) \in Seq(Fragments) /\ Len(Tail(frames[c])) = Len(frames[c]) - 1
    BY <1>1, HeadTailProperties DEF QueueTypes
  <2>2. /\ Total(FrameLens') = Total(FrameLens) - Len(frames[c]) + Len(Tail(frames[c]))
        /\ Len(frames[c]) \in Nat
    BY <1>1, <2>1, FramesChange
  <2>3. Total(FrameLens) \in Nat
    BY QueueTerms
  <2>. QED  BY <2>1, <2>2, <2>3
<1>5. /\ Len(send) \in Int /\ Cardinality(prepared) \in Int /\ Total(FrameLens) \in Int
      /\ Cardinality(Holders) \in Int /\ SenderHolds \in Int
  BY QueueTerms
<1>6. /\ budget'.queue = budget.queue /\ budget.queue \in Int
      /\ budget.queue <= QueueLimit
  BY BudgetFields
<1>7. SenderHolds' = SenderHolds
  BY DEF SenderHolds
<1>8. budget'.queue - budget.queue =
        (Total(FrameLens') - Total(FrameLens)) + (Len(send') - Len(send))
          + (Cardinality(prepared') - Cardinality(prepared))
          + (SenderHolds' - SenderHolds)
          + (Cardinality(Holders') - Cardinality(Holders))
  <2>1. /\ Total(FrameLens') - Total(FrameLens) = 0 - 1
        /\ Cardinality(Holders') - Cardinality(Holders) = 1
    BY <1>3, <1>4, <1>5
  <2>2. /\ Len(send') - Len(send) = 0 /\ SenderHolds' - SenderHolds = 0
        /\ Cardinality(prepared') - Cardinality(prepared) = 0
        /\ budget'.queue - budget.queue = 0
    BY <1>5, <1>6, <1>7
  <2>. QED  BY <2>1, <2>2
<1>. QED  BY <1>6, <1>8, Balanced

\* The send loop takes a packet, which stays reserved until the loop has looked
\* at its channel.
LEMMA SendKeeps ==
  ASSUME QueueTypes, QueueTypes', BudgetTypes, QueueExact, Dequeue \/ Release
  PROVE  QueueKept
<1>0. UNCHANGED <<frames, prepared, reader>>
  BY DEF Dequeue, Release, senderOnly, readVars
<1>1. FrameLens' = FrameLens /\ Holders' = Holders
  BY <1>0 DEF FrameLens, Holders
<1>2. /\ Len(send) \in Int /\ Cardinality(prepared) \in Int /\ Total(FrameLens) \in Int
      /\ Cardinality(Holders) \in Int /\ SenderHolds \in Int
  BY QueueTerms
<1>3. budget.queue \in Int /\ budget.queue <= QueueLimit /\ QueueLimit \in Int
  BY BudgetFields, DatagramsAssumption
<1>4. /\ Total(FrameLens') - Total(FrameLens) = 0
      /\ Cardinality(prepared') - Cardinality(prepared) = 0
      /\ Cardinality(Holders') - Cardinality(Holders) = 0
  BY <1>0, <1>1, <1>2
<1>5. CASE Dequeue
  <2>1. /\ send # <<>> /\ send' = Tail(send) /\ UNCHANGED budget
        /\ sender.at = "idle" /\ sender'.at = "held"
    BY <1>5 DEF Dequeue
  <2>2. Len(send') = Len(send) - 1
    BY <2>1, HeadTailProperties DEF QueueTypes
  <2>3. /\ Len(send') - Len(send) = 0 - 1 /\ SenderHolds' - SenderHolds = 1
        /\ budget'.queue - budget.queue = 0
    BY <1>2, <1>3, <2>1, <2>2 DEF SenderHolds
  <2>4. budget'.queue - budget.queue =
          (Total(FrameLens') - Total(FrameLens)) + (Len(send') - Len(send))
            + (Cardinality(prepared') - Cardinality(prepared))
            + (SenderHolds' - SenderHolds)
            + (Cardinality(Holders') - Cardinality(Holders))
    BY <1>4, <2>3
  <2>. QED  BY <1>3, <2>1, <2>4, Balanced
<1>6. CASE Release
  <2>1. /\ UNCHANGED send /\ sender.at = "held" /\ sender'.at # "held"
        /\ budget' = [budget EXCEPT !.queue = budget.queue - 1]
    BY <1>6 DEF Release, QueueTypes
  <2>2. budget'.queue = budget.queue - 1
    BY <2>1, BudgetUpdate
  <2>3. /\ Len(send') - Len(send) = 0 /\ SenderHolds' - SenderHolds = 0 - 1
        /\ budget'.queue - budget.queue = 0 - 1
    BY <1>2, <1>3, <2>1, <2>2 DEF SenderHolds
  <2>4. budget'.queue - budget.queue =
          (Total(FrameLens') - Total(FrameLens)) + (Len(send') - Len(send))
            + (Cardinality(prepared') - Cardinality(prepared))
            + (SenderHolds' - SenderHolds)
            + (Cardinality(Holders') - Cardinality(Holders))
    BY <1>4, <2>3
  <2>5. budget'.queue \in Int /\ budget'.queue <= QueueLimit
    BY <1>3, <2>2
  <2>. QED  BY <2>4, <2>5, Balanced
<1>. QED  BY <1>5, <1>6

\* A frame in a reader's hands is released.
LEMMA AssembleKeeps ==
  ASSUME QueueTypes, QueueTypes', BudgetTypes, ReadTypes, PendingTypes, OnePerPacket,
         TookFrame, QueueExact, NEW c \in Channels, Assemble(c)
  PROVE  QueueKept
<1>1. budget'.queue = budget.queue - 1 /\ HandEmpties(c)
  BY AssembleEffect
<1>2. UNCHANGED <<frames, send, prepared, sender>> /\ reader[c].at = "took"
  BY DEF Assemble, queueVars
<1>3. FrameLens' = FrameLens /\ SenderHolds' = SenderHolds
  BY <1>2 DEF FrameLens, SenderHolds
<1>4. Cardinality(Holders') = Cardinality(Holders) - 1
  <2>1. PICK r : r.at # "took" /\ reader' = [reader EXCEPT ![c] = r]
    BY <1>1 DEF HandEmpties, NoReader
  <2>. QED  BY <1>2, <2>1, HandsChange
<1>5. /\ Len(send) \in Int /\ Cardinality(prepared) \in Int /\ Total(FrameLens) \in Int
      /\ Cardinality(Holders) \in Int /\ SenderHolds \in Int
  BY QueueTerms
<1>6. budget.queue \in Int /\ budget.queue <= QueueLimit /\ QueueLimit \in Int
  BY BudgetFields, DatagramsAssumption
<1>7. /\ Total(FrameLens') - Total(FrameLens) = 0 /\ Len(send') - Len(send) = 0
      /\ Cardinality(prepared') - Cardinality(prepared) = 0
      /\ SenderHolds' - SenderHolds = 0
      /\ Cardinality(Holders') - Cardinality(Holders) = 0 - 1
      /\ budget'.queue - budget.queue = 0 - 1
  BY <1>1, <1>2, <1>3, <1>4, <1>5, <1>6
<1>8. budget'.queue - budget.queue =
        (Total(FrameLens') - Total(FrameLens)) + (Len(send') - Len(send))
          + (Cardinality(prepared') - Cardinality(prepared))
          + (SenderHolds' - SenderHolds)
          + (Cardinality(Holders') - Cardinality(Holders))
  BY <1>7
<1>9. budget'.queue \in Int /\ budget'.queue <= QueueLimit
  BY <1>1, <1>6
<1>. QED  BY <1>8, <1>9, Balanced

\* The steps that move what is reserved.
Moves == \/ \E i \in Ids, f \in Fragments : Deliver(i, f)
         \/ \E c \in Channels : \/ Prepare(c) \/ Enqueue(c) \/ Close(c) \/ Assemble(c)
                                \/ reader[c].at # "took" /\ Take(c)
                                   /\ UNCHANGED <<send, prepared, sender, budget>>
         \/ Dequeue \/ Release

\* A look at the queue, or a wait for it, may take a frame and does nothing else
\* to what is reserved.
LEMMA LookOrUnblock ==
  ASSUME ReadTypes, NEW c \in Channels, Look(c) \/ Unblock(c)
  PROVE  \/ Moves
         \/ /\ UNCHANGED <<frames, send, prepared, sender, budget>>
            /\ reader[c].at # "took"
            /\ \E r : r.at # "took" /\ reader' = [reader EXCEPT ![c] = r]
<1>1. /\ UNCHANGED <<send, prepared, sender, budget>>
      /\ reader[c].at \in {"looking", "blocked"}
  BY DEF Look, Unblock
<1>2. CASE Take(c)
  BY <1>1, <1>2 DEF Moves
<1>3. ASSUME ~Take(c)
      PROVE  /\ UNCHANGED frames
             /\ \E r : r.at # "took" /\ reader' = [reader EXCEPT ![c] = r]
  <2>1. NoReader.at # "took" /\ [NoReader EXCEPT !.at = "looking"].at # "took"
    BY DEF NoReader
  <2>2. UNCHANGED frames
    BY <1>3 DEF Look, Unblock
  <2>3. \/ reader' = [reader EXCEPT ![c] = NoReader]
        \/ reader' = [reader EXCEPT ![c] = [NoReader EXCEPT !.at = "looking"]]
        \/ reader' = [reader EXCEPT ![c] =
                        [reader[c] EXCEPT !.at = "empty", !.deadline = deadline[c]]]
    BY <1>3 DEF Look, Unblock
  <2>4. [reader[c] EXCEPT !.at = "empty", !.deadline = deadline[c]].at # "took"
    BY DEF ReadTypes, Readers
  <2>. QED  BY <2>1, <2>2, <2>3, <2>4
<1>. QED  BY <1>1, <1>2, <1>3

\* The other steps leave what is reserved where it is.
LEMMA OthersQuiet ==
  ASSUME QueueTypes, BudgetTypes, ReadTypes, Next, ~Moves
  PROVE  /\ UNCHANGED <<frames, send, prepared>>
         /\ (sender'.at = "held") <=> (sender.at = "held")
         /\ budget'.queue = budget.queue
         /\ \A d \in Channels : (reader'[d].at = "took") <=> (reader[d].at = "took")
<1>1. /\ UNCHANGED <<frames, send, prepared>>
      /\ (sender'.at = "held") <=> (sender.at = "held")
  <2>1. CASE UNCHANGED <<frames, send, prepared, sender>>
    BY <2>1
  <2>2. ASSUME NEW c \in Channels, Look(c) \/ Unblock(c)
        PROVE  UNCHANGED <<frames, send, prepared, sender>>
    BY <2>2, LookOrUnblock
  <2>3. CASE Sent \/ SenderGoesOn \/ SenderEnds
    BY <2>3 DEF Sent, SenderGoesOn, SenderEnds, senderOnly, QueueTypes
  <2>4. ASSUME NEW c \in Channels, Prepare(c) \/ Enqueue(c) \/ Close(c)
        PROVE  FALSE
    BY <2>4 DEF Moves
  <2>5. ASSUME \/ \E i \in Ids, f \in Fragments : Deliver(i, f)
               \/ Dequeue \/ Release
        PROVE  FALSE
    BY <2>5 DEF Moves
  <2>. QED  BY <2>1, <2>2, <2>3, <2>4, <2>5, QueueChange
<1>2. budget'.queue = budget.queue
  <2>1. ASSUME NEW a, NEW b,
               \/ budget' = [budget EXCEPT !.associations = a]
               \/ budget' = [budget EXCEPT !.reassembly = b]
        PROVE  budget'.queue = budget.queue
    BY <2>1, BudgetUpdate
  <2>2. ASSUME NEW c \in Channels,
               \/ \E i \in Ids : Open(c, i)
               \/ Cleanup(c) \/ Remove(c) \/ ConnClosed(c) \/ Reap(c)
        PROVE  budget'.queue = budget.queue
    <3>1. \/ UNCHANGED budget
          \/ \E a : budget' = [budget EXCEPT !.associations = a]
          \/ \E b : budget' = [budget EXCEPT !.reassembly = b]
      BY <2>2 DEF Open, Cleanup, Remove, ConnClosed, Reap
    <3>. QED  BY <2>1, <3>1
  <2>3. ASSUME NEW c \in Channels, Prepare(c) \/ Enqueue(c) \/ Close(c) \/ Assemble(c)
        PROVE  FALSE
    BY <2>3 DEF Moves
  <2>4. ASSUME (\E i \in Ids, f \in Fragments : Deliver(i, f)) \/ Release
        PROVE  FALSE
    BY <2>4 DEF Moves
  <2>. QED  BY <2>2, <2>3, <2>4, BudgetChange
<1>3. ASSUME NEW d \in Channels
      PROVE  (reader'[d].at = "took") <=> (reader[d].at = "took")
  <2>. USE DEF ReadTypes
  <2>1. CASE UNCHANGED reader
    BY <2>1
  <2>2. ASSUME NEW c \in Channels, Look(c) \/ Unblock(c)
        PROVE  (reader'[d].at = "took") <=> (reader[d].at = "took")
    <3>1. PICK r : /\ reader[c].at # "took" /\ r.at # "took"
                   /\ reader' = [reader EXCEPT ![c] = r]
      BY <2>2, LookOrUnblock
    <3>. QED  BY <3>1
  <2>3. ASSUME NEW c \in Channels, Read(c)
        PROVE  (reader'[d].at = "took") <=> (reader[d].at = "took")
    <3>1. /\ reader[c].at = "idle"
          /\ reader' = [reader EXCEPT ![c] = [NoReader EXCEPT !.at = "looking"]]
      BY <2>3 DEF Read
    <3>. QED  BY <3>1 DEF NoReader
  <2>4. ASSUME NEW c \in Channels, Block(c)
        PROVE  (reader'[d].at = "took") <=> (reader[d].at = "took")
    <3>1. /\ reader[c].at = "empty"
          /\ \/ reader' = [reader EXCEPT ![c] = NoReader]
             \/ reader' = [reader EXCEPT ![c] =
                             [reader[c] EXCEPT !.at = "blocked", !.deadline = deadline[c]]]
      BY <2>4 DEF Block
    <3>2. /\ NoReader.at # "took"
          /\ [reader[c] EXCEPT !.at = "blocked", !.deadline = deadline[c]].at # "took"
      BY DEF NoReader, Readers
    <3>. QED  BY <3>1, <3>2
  <2>5. ASSUME NEW c \in Channels, SetDeadline(c)
        PROVE  (reader'[d].at = "took") <=> (reader[d].at = "took")
    <3>1. \E x : reader' = [reader EXCEPT ![c] = [reader[c] EXCEPT !.changed = x]]
      BY <2>5 DEF SetDeadline
    <3>2. \A x : [reader[c] EXCEPT !.changed = x].at = reader[c].at
      BY DEF Readers
    <3>. QED  BY <3>1, <3>2
  <2>6. ASSUME NEW c \in Channels, DeadlinePasses(c)
        PROVE  UNCHANGED reader
    BY <2>6 DEF DeadlinePasses
  <2>7. ASSUME NEW c \in Channels, Assemble(c)
        PROVE  FALSE
    BY <2>7 DEF Moves
  <2>. QED  BY <2>1, <2>2, <2>3, <2>4, <2>5, <2>6, <2>7, ReadChange
<1>. QED  BY <1>1, <1>2, <1>3

\* What is queued or in somebody's hands is what is reserved, after every step.
LEMMA QueueStep ==
  ASSUME TableTypes, QueueTypes, QueueTypes', BudgetTypes, ReadTypes, PendingTypes,
         OnePerPacket, TookFrame, QueueExact, Next
  PROVE  QueueKept
<1>1. CASE ~Moves
  <2>1. /\ UNCHANGED <<frames, send, prepared>>
        /\ (sender'.at = "held") <=> (sender.at = "held")
        /\ budget'.queue = budget.queue
        /\ \A d \in Channels : (reader'[d].at = "took") <=> (reader[d].at = "took")
    BY <1>1, OthersQuiet
  <2>2. FrameLens' = FrameLens /\ SenderHolds' = SenderHolds /\ Holders' = Holders
    BY <2>1 DEF FrameLens, SenderHolds, Holders
  <2>3. budget.queue \in 0..QueueLimit
    BY DEF BudgetTypes
  <2>. QED  BY <2>1, <2>2, <2>3 DEF QueueKept, QueueExact
<1>2. ASSUME NEW c \in Channels, reader[c].at # "took", Take(c),
             UNCHANGED <<send, prepared, sender, budget>>
      PROVE  QueueKept
  BY <1>2, TakeKeeps
<1>3. ASSUME NEW c \in Channels, Prepare(c) \/ Enqueue(c) \/ Close(c) \/ Assemble(c)
      PROVE  QueueKept
  BY <1>3, PrepareKeeps, EnqueueKeeps, CloseKeeps, AssembleKeeps
<1>4. ASSUME NEW i \in Ids, NEW f \in Fragments, Deliver(i, f)
      PROVE  QueueKept
  BY <1>4, DeliverKeeps
<1>5. CASE Dequeue \/ Release
  BY <1>5, SendKeeps
<1>. QED  BY <1>1, <1>2, <1>3, <1>4, <1>5 DEF Moves

-----------------------------------------------------------------------------
(* Associations                                                             *)

Associated == {c \in Channels : channel[c] \notin {"new", "gone"}}

\* An association is counted from its opening to its removal.
LEMMA AssociationStep ==
  ASSUME TableTypes, QueueTypes, BudgetTypes, PendingTypes, OnePerPacket, TookFrame,
         AssociationsExact, Next
  PROVE  AssociationsExact' /\ budget'.associations \in 0..AssociationLimit
<1>. USE DEF TableTypes
<1>0. /\ IsFiniteSet(Associated) /\ Cardinality(Associated) \in Nat
      /\ AssociationLimit \in Nat
      /\ budget.associations \in 0..AssociationLimit
      /\ budget.associations = Cardinality(Associated)
  <2>1. IsFiniteSet(Associated)
    BY DatagramsAssumption, FS_Subset DEF Associated
  <2>. QED
    BY <2>1, DatagramsAssumption, FS_CardinalityType
    DEF BudgetTypes, AssociationsExact, Associated
<1>1. ASSUME Associated' = Associated, budget'.associations = budget.associations
      PROVE  AssociationsExact' /\ budget'.associations \in 0..AssociationLimit
  BY <1>0, <1>1 DEF AssociationsExact, Associated
<1>2. ASSUME NEW q, NEW r,
             \/ UNCHANGED budget
             \/ budget' = [budget EXCEPT !.queue = q]
             \/ budget' = [budget EXCEPT !.reassembly = r]
      PROVE  budget'.associations = budget.associations
  BY <1>2, BudgetUpdate
<1>3. ASSUME NEW c \in Channels, NEW i \in Ids, Open(c, i)
      PROVE  AssociationsExact' /\ budget'.associations \in 0..AssociationLimit
  <2>1. /\ channel[c] = "new" /\ channel' = [channel EXCEPT ![c] = "open"]
        /\ budget.associations < AssociationLimit
        /\ budget' = [budget EXCEPT !.associations = budget.associations + 1]
    BY <1>3 DEF Open
  <2>2. Associated' = Associated \cup {c} /\ c \notin Associated
    BY <2>1 DEF Associated
  <2>3. Cardinality(Associated') = Cardinality(Associated) + 1
    BY <1>0, <2>2, FS_AddElement
  <2>4. budget'.associations = budget.associations + 1
    BY <2>1, BudgetUpdate
  <2>5. /\ budget'.associations = Cardinality(Associated')
        /\ budget'.associations \in 0..AssociationLimit
    BY <1>0, <2>1, <2>3, <2>4
  <2>. QED  BY <2>5 DEF AssociationsExact, Associated
<1>4. ASSUME NEW c \in Channels, Remove(c)
      PROVE  AssociationsExact' /\ budget'.associations \in 0..AssociationLimit
  <2>1. /\ channel[c] = "cleaned" /\ channel' = [channel EXCEPT ![c] = "gone"]
        /\ budget' = [budget EXCEPT !.associations = budget.associations - 1]
    BY <1>4 DEF Remove
  <2>2. Associated' = Associated \ {c} /\ c \in Associated
    BY <2>1 DEF Associated
  <2>3. /\ Cardinality(Associated') = Cardinality(Associated) - 1
        /\ IsFiniteSet(Associated')
    BY <1>0, <2>2, FS_RemoveElement
  <2>4. budget'.associations = budget.associations - 1
    BY <2>1, BudgetUpdate
  <2>5. Cardinality(Associated') \in Nat
    BY <2>3, FS_CardinalityType
  <2>6. /\ budget'.associations = Cardinality(Associated')
        /\ budget'.associations \in 0..AssociationLimit
    BY <1>0, <2>3, <2>4, <2>5
  <2>. QED  BY <2>6 DEF AssociationsExact, Associated
<1>5. ASSUME NEW c \in Channels, Close(c) \/ Cleanup(c)
      PROVE  AssociationsExact' /\ budget'.associations \in 0..AssociationLimit
  <2>1. /\ channel[c] \in {"open", "closed"}
        /\ \E to \in {"closed", "cleaned"} : channel' = [channel EXCEPT ![c] = to]
        /\ \/ UNCHANGED budget
           \/ \E q : budget' = [budget EXCEPT !.queue = q]
           \/ \E r : budget' = [budget EXCEPT !.reassembly = r]
    BY <1>5 DEF Close, Drained, Cleanup
  <2>2. Associated' = Associated
    BY <2>1 DEF Associated
  <2>. QED  BY <1>1, <1>2, <2>1, <2>2
<1>6. ASSUME UNCHANGED channel
      PROVE  budget'.associations = budget.associations
  <2>1. ASSUME NEW c \in Channels, (\E i \in Ids : Open(c, i)) \/ Close(c) \/ Cleanup(c)
                                   \/ Remove(c)
        PROVE  FALSE
    BY <1>6, <2>1 DEF Open, Close, Cleanup, Remove
  <2>2. ASSUME NEW c \in Channels, Prepare(c) \/ Enqueue(c) \/ ConnClosed(c) \/ Reap(c)
        PROVE  budget'.associations = budget.associations
    <3>1. \/ UNCHANGED budget
          \/ \E q : budget' = [budget EXCEPT !.queue = q]
          \/ \E r : budget' = [budget EXCEPT !.reassembly = r]
      BY <2>2 DEF Prepare, Enqueue, Queued, ConnClosed, Reap
    <3>. QED  BY <1>2, <3>1
  <2>3. ASSUME NEW c \in Channels, Assemble(c)
        PROVE  budget'.associations = budget.associations
    BY <2>3, AssembleEffect
  <2>4. ASSUME NEW i \in Ids, NEW f \in Fragments, Deliver(i, f)
        PROVE  budget'.associations = budget.associations
    <3>1. \E q : budget' = [budget EXCEPT !.queue = q]
      BY <2>4 DEF Deliver
    <3>. QED  BY <1>2, <3>1
  <2>5. ASSUME Release
        PROVE  budget'.associations = budget.associations
    <3>1. \E q : budget' = [budget EXCEPT !.queue = q]
      BY <2>5 DEF Release
    <3>. QED  BY <1>2, <3>1
  <2>. QED  BY <1>2, <2>1, <2>2, <2>3, <2>4, <2>5, BudgetChange
<1>7. CASE UNCHANGED channel
  BY <1>1, <1>6, <1>7 DEF Associated
<1>. QED  BY <1>3, <1>4, <1>5, <1>7, TableChange

-----------------------------------------------------------------------------
(* The invariant                                                            *)

\* A closed channel has nothing queued, a cleaned up one nothing pending.
LEMMA ClosedParts ==
  ASSUME QueueTypes
  PROVE  ClosedHoldsNothing <=>
           \A c \in Channels :
             /\ channel[c] \in ClosedStages => NothingQueued(c)
             /\ channel[c] \in {"cleaned", "gone"} => pending[c] = {}
<1>1. ASSUME NEW c \in Channels
      PROVE  NothingQueued(c) <=>
               frames[c] = <<>> /\ \A k \in DOMAIN send : send[k] # c
  BY QueueOfOthers DEF NothingQueued, QueueTypes
<1>. QED  BY <1>1 DEF ClosedHoldsNothing, ClosedStages

\* To begin with nothing is open, queued or reserved.
LEMMA InitInv ==
  ASSUME Init
  PROVE  IInv
<1>. USE DEF Init
<1>0. /\ IsFiniteSet(Channels) /\ FrameQueue \in Nat /\ SendQueue \in Nat
      /\ AssociationLimit \in Nat /\ QueueLimit \in Nat /\ ReassemblyLimit \in Nat
      /\ MaxPending \in Nat /\ MaxEvents \in Nat /\ None \notin Channels
      /\ IsFiniteSet({}) /\ Cardinality({}) = 0
      /\ \A X : <<>> \in Seq(X)
      /\ Len(<<>>) = 0 /\ DOMAIN <<>> = {}
  BY DatagramsAssumption, FS_EmptySet, EmptySeq
<1>1. TypeOK
  <2>1. MuxTypes /\ TableTypes
    BY DEF MuxTypes, TableTypes
  <2>2. QueueTypes
    BY <1>0 DEF QueueTypes
  <2>3. BudgetTypes /\ ConnTypes
    BY <1>0 DEF BudgetTypes, ConnTypes
  <2>4. PendingTypes
    BY <1>0 DEF PendingTypes
  <2>5. ReadTypes
    BY DEF ReadTypes, Readers, NoReader
  <2>6. ReapTypes /\ events \in 0..MaxEvents
    BY <1>0 DEF ReapTypes, Reapers, Asleep
  <2>. QED  BY <2>1, <2>2, <2>3, <2>4, <2>5, <2>6, TypeParts
<1>2. Registered
  BY DEF Registered
<1>3. ClosedHoldsNothing /\ CleanupFirst /\ TookFrame /\ OnePerPacket
  BY DEF ClosedHoldsNothing, CleanupFirst, TookFrame, OnePerPacket, NoReader
<1>4. BudgetIsExact
  <2>1. ASSUME NEW f, f = [c \in Channels |-> 0]
        PROVE  Total(f) = 0
    <3>1. f \in [Channels -> Nat] /\ \A c \in Channels : 1..f[c] = {}
      BY <2>1
    <3>2. Places(f) = {}
      BY <3>1, InPlaces
    <3>. QED  BY <1>0, <3>2, TotalPlaces
  <2>2. FrameLens = [c \in Channels |-> 0]
    BY <1>0 DEF FrameLens
  <2>3. [c \in Channels |-> Held(pending[c])] = [c \in Channels |-> 0]
    BY HeldNone
  <2>4. Holders = {} /\ {c \in Channels : channel[c] \notin {"new", "gone"}} = {}
    BY DEF Holders, NoReader
  <2>5. QueueExact
    BY <1>0, <2>1, <2>2, <2>4 DEF QueueExact, SenderHolds
  <2>6. ReassemblyExact /\ AssociationsExact
    BY <1>0, <2>1, <2>3, <2>4 DEF ReassemblyExact, AssociationsExact
  <2>. QED  BY <2>5, <2>6, ExactParts
<1>. QED  BY <1>1, <1>2, <1>3, <1>4 DEF IInv

\* The budget stays a record.
LEMMA BudgetRecord ==
  ASSUME BudgetTypes, PendingTypes, OnePerPacket, TookFrame, Next
  PROVE  \E a, q, r : budget' = [associations |-> a, queue |-> q, reassembly |-> r]
<1>. DEFINE Record ==
       \E a, q, r : budget' = [associations |-> a, queue |-> q, reassembly |-> r]
<1>1. ASSUME NEW a, NEW q, NEW r,
             \/ UNCHANGED budget
             \/ budget' = [budget EXCEPT !.associations = a]
             \/ budget' = [budget EXCEPT !.queue = q]
             \/ budget' = [budget EXCEPT !.reassembly = r]
             \/ budget' = [budget EXCEPT !.queue = q, !.reassembly = r]
      PROVE  Record
  <2>1. budget = [associations |-> budget.associations, queue |-> budget.queue,
                  reassembly |-> budget.reassembly]
    BY BudgetFields
  <2>2. CASE UNCHANGED budget
    BY <2>1, <2>2
  <2>3. CASE ~UNCHANGED budget
    BY <1>1, <2>3, BudgetUpdate, Zenon
  <2>. QED  BY <2>2, <2>3
<1>. HIDE DEF Record
<1>2. ASSUME NEW c \in Channels,
             \/ \E i \in Ids : Open(c, i)
             \/ Prepare(c) \/ Enqueue(c) \/ Close(c) \/ Cleanup(c) \/ Remove(c)
             \/ ConnClosed(c) \/ Reap(c)
      PROVE  Record
  <2>1. \/ UNCHANGED budget
        \/ \E a : budget' = [budget EXCEPT !.associations = a]
        \/ \E q : budget' = [budget EXCEPT !.queue = q]
        \/ \E r : budget' = [budget EXCEPT !.reassembly = r]
    BY <1>2 DEF Open, Prepare, Enqueue, Queued, Close, Drained, Cleanup, Remove,
           ConnClosed, Reap
  <2>. QED  BY <1>1, <2>1
<1>3. ASSUME NEW c \in Channels, Assemble(c)
      PROVE  Record
  <2>1. CASE budget' = [budget EXCEPT !.queue = @ - 1]
    <3>1. budget' = [budget EXCEPT !.queue = budget.queue - 1]
      BY <2>1
    <3>. QED  BY <1>1, <3>1
  <2>2. ASSUME \E kept, amount, done : Assembled(c, kept, amount, done)
        PROVE  Record
    <3>1. PICK kept, amount, done : Assembled(c, kept, amount, done)
      BY <2>2
    <3>. QED  BY <3>1, AssembledEffect DEF Record
  <2>3. ASSUME FirstOfPacket(c, reader[c].frame)
        PROVE  \E kept, amount, done : Assembled(c, kept, amount, done)
    BY <2>3, Zenon DEF FirstOfPacket
  <2>4. ASSUME NextOfPacket(c, reader[c].frame)
        PROVE  \E kept, amount, done : Assembled(c, kept, amount, done)
    BY <2>4, Zenon DEF NextOfPacket
  <2>5. \/ budget' = [budget EXCEPT !.queue = @ - 1]
        \/ \E kept, amount, done : Assembled(c, kept, amount, done)
    BY <1>3, <2>3, <2>4, Zenon DEF Assemble
  <2>. QED  BY <2>1, <2>2, <2>5
<1>4. ASSUME (\E i \in Ids, f \in Fragments : Deliver(i, f)) \/ Release
      PROVE  Record
  <2>1. \E q : budget' = [budget EXCEPT !.queue = q]
    BY <1>4 DEF Deliver, Release
  <2>. QED  BY <1>1, <2>1
<1>. QED  BY <1>1, <1>2, <1>3, <1>4, BudgetChange DEF Record

\* Every step keeps the invariant.
LEMMA InvStep ==
  ASSUME IInv, Next
  PROVE  IInv'
<1>1. /\ MuxTypes /\ TableTypes /\ QueueTypes /\ BudgetTypes /\ ConnTypes
      /\ PendingTypes /\ ReadTypes /\ ReapTypes /\ events \in 0..MaxEvents
  BY TypeParts DEF IInv
<1>2. /\ Registered /\ CleanupFirst /\ TookFrame /\ OnePerPacket
      /\ QueueExact /\ ReassemblyExact /\ AssociationsExact
  BY ExactParts DEF IInv
<1>3. MuxTypes' /\ TableTypes' /\ Registered' /\ QueueTypes'
  BY <1>1, <1>2, MuxTypeStep, TableStep, QueueTypeStep
<1>4. /\ PendingTypes' /\ OnePerPacket' /\ ReassemblyExact'
      /\ budget'.reassembly \in 0..ReassemblyLimit
  BY <1>1, <1>2, PendingStep DEF ReassemblyExact
<1>5. ConnTypes' /\ ReadTypes' /\ TookFrame' /\ ReapTypes' /\ events' \in 0..MaxEvents
  BY <1>1, <1>2, ConnTypeStep, ReadTypeStep, ReapTypeStep, EventStep
<1>6. CleanupFirst'
  BY <1>1, <1>2, CleanupFirstStep
<1>7. QueueExact' /\ budget'.queue \in 0..QueueLimit
  BY <1>1, <1>2, <1>3, QueueStep DEF QueueKept
<1>8. AssociationsExact' /\ budget'.associations \in 0..AssociationLimit
  BY <1>1, <1>2, AssociationStep
<1>9. BudgetTypes'
  <2>1. \E a, q, r : budget' = [associations |-> a, queue |-> q, reassembly |-> r]
    BY <1>1, <1>2, BudgetRecord
  <2>. QED  BY <1>4, <1>7, <1>8, <2>1 DEF BudgetTypes
<1>10. TypeOK'
  BY <1>3, <1>4, <1>5, <1>9, TypeParts
<1>11. BudgetIsExact'
  BY <1>4, <1>7, <1>8, ExactParts
<1>12. ClosedHoldsNothing'
  <2>1. \A c \in Channels :
          /\ channel[c] \in ClosedStages => NothingQueued(c)
          /\ channel[c] \in {"cleaned", "gone"} => pending[c] = {}
    BY <1>1, ClosedParts DEF IInv
  <2>2. \A c \in Channels :
          /\ channel'[c] \in ClosedStages => NothingQueued(c)'
          /\ channel'[c] \in {"cleaned", "gone"} => pending'[c] = {}
    BY <1>1, <1>2, <2>1, DrainedStep, CleanedStep
  <2>3. ASSUME NEW c \in Channels
        PROVE  NothingQueued(c)' =>
                 frames'[c] = <<>> /\ \A k \in DOMAIN send' : send'[k] # c
    BY <1>3, QueueOfOthers DEF NothingQueued, QueueTypes
  <2>. QED  BY <2>2, <2>3 DEF ClosedHoldsNothing, ClosedStages
<1>. QED  BY <1>3, <1>4, <1>5, <1>6, <1>10, <1>11, <1>12 DEF IInv

\* A step that changes nothing keeps it.
LEMMA StutterInv ==
  ASSUME IInv, UNCHANGED vars
  PROVE  IInv'
<1>. USE DEF vars, muxVars, channelVars, queueVars, connVars, readVars, reapVars
<1>1. TypeOK'
  BY DEF IInv, TypeOK
<1>2. /\ Registered' /\ ClosedHoldsNothing' /\ CleanupFirst' /\ TookFrame'
      /\ OnePerPacket'
  BY DEF IInv, Registered, ClosedHoldsNothing, CleanupFirst, TookFrame,
              OnePerPacket
<1>3. BudgetIsExact'
  BY DEF IInv, BudgetIsExact
<1>. QED  BY <1>1, <1>2, <1>3 DEF IInv

\* The invariant holds in every reachable state.
THEOREM Invariant == Spec => []IInv
<1>1. IInv /\ [Next]_vars => IInv'
  BY StutterInv, InvStep
<1>. QED  BY InitInv, <1>1, PTL DEF Spec

\* What the process has reserved is what its sessions' queues, senders and
\* readers hold: over dropped oldest elements, draining, expiry and every Close
\* no reservation is lost or released twice.
THEOREM BudgetExact == Spec => []BudgetIsExact
<1>1. IInv => BudgetIsExact
  BY DEF IInv
<1>. QED  BY <1>1, Invariant, PTL

\* The variables stay in their ranges, budgets, queues and pending packets within
\* their limits among them; an open channel is found under its id, a closed one
\* holds nothing.
THEOREM Stages == Spec => []StagesHold
<1>1. IInv => StagesHold
  BY Found DEF IInv, StagesHold
<1>. QED  BY <1>1, Invariant, PTL
-----------------------------------------------------------------------------
(* What a closed session gives back                                         *)

\* The mux's close has on its list whatever is still in the table: nothing is
\* registered once closed is set.
CloserOwes ==
  closed => \A i \in Ids : table[i] # None => table[i] \in toClose

\* A channel that was not opened has nothing.
NewHoldsNothing ==
  \A c \in Channels : channel[c] = "new" => NothingQueued(c) /\ pending[c] = {}

\* When the close of the session is done, the budget it shares with the process's
\* other sessions has everything back but what a sender has prepared or a reader
\* has in hand at that moment, which they release on finding the session closed.
SessionGivesBack ==
  closed /\ toClose = {} =>
    /\ budget.associations = 0 /\ budget.reassembly = 0
    /\ budget.queue = Cardinality(prepared) + SenderHolds + Cardinality(Holders)

\* A step that is not the close's takes nothing off its list.
LEMMA CloserStep ==
  ASSUME MuxTypes, TableTypes, Registered, CloserOwes, Next
  PROVE  CloserOwes'
<1>. USE DEF MuxTypes, TableTypes
<1>0. None \notin Channels
  BY DatagramsAssumption
<1>1. CASE CloseMux
  <2>1. table' = table /\ toClose' = {c \in Channels : \E i \in Ids : table[i] = c}
    BY <1>1 DEF CloseMux
  <2>. QED  BY <2>1 DEF CloserOwes
<1>2. ASSUME NEW c \in Channels, MuxClosed(c)
      PROVE  CloserOwes'
  <2>1. /\ UNCHANGED <<closed, table>> /\ channel[c] = "gone"
        /\ toClose' = toClose \ {c}
    BY <1>2 DEF MuxClosed
  <2>2. \A i \in Ids : table[i] # None => table[i] # c
    BY <2>1 DEF Registered
  <2>. QED  BY <2>1, <2>2 DEF CloserOwes
<1>3. ASSUME NEW c \in Channels, NEW i \in Ids, Open(c, i)
      PROVE  CloserOwes'
  BY <1>3 DEF Open, CloserOwes
<1>4. ASSUME NEW c \in Channels, SetCleanup(c) \/ SetReaper(c)
      PROVE  CloserOwes'
  BY <1>4 DEF SetCleanup, SetReaper, muxVars, CloserOwes
<1>5. CASE SessionEnds
  BY <1>5 DEF SessionEnds, CloserOwes
<1>6. ASSUME UNCHANGED <<closed, toClose>>, NEW c \in Channels,
             Close(c) \/ Cleanup(c) \/ Remove(c)
      PROVE  CloserOwes'
  BY <1>6 DEF Close, Cleanup, Remove, muxVars, CloserOwes
<1>7. CASE UNCHANGED <<closed, toClose, table>>
  BY <1>7 DEF CloserOwes
<1>. QED  BY <1>1, <1>2, <1>3, <1>4, <1>5, <1>6, <1>7, MuxChange, TableChange

\* Who sends, delivers or reads needs an open channel.
LEMMA NewStep ==
  ASSUME TableTypes, QueueTypes, PendingTypes, NewHoldsNothing, Next
  PROVE  NewHoldsNothing'
<1>. SUFFICES ASSUME NEW c \in Channels, channel'[c] = "new"
              PROVE  NothingQueued(c)' /\ pending'[c] = {}
  BY DEF NewHoldsNothing
<1>1. channel[c] = "new"
  <2>. USE DEF TableTypes
  <2>1. ASSUME NEW d \in Channels, NEW i \in Ids, Open(d, i)
        PROVE  channel[c] = "new"
    BY <2>1 DEF Open
  <2>2. ASSUME NEW d \in Channels, Close(d) \/ Cleanup(d) \/ Remove(d)
        PROVE  channel[c] = "new"
    BY <2>2 DEF Close, Cleanup, Remove
  <2>. QED  BY <2>1, <2>2, TableChange
<1>2. NothingQueued(c) /\ pending[c] = {}
  BY <1>1 DEF NewHoldsNothing
<1>3. NothingQueued(c)'
  BY <1>1, <1>2, StaysEmpty
<1>4. pending'[c] = {}
  BY <1>1, <1>2, PendingGrows
<1>. QED  BY <1>3, <1>4

\* Nothing in the table, nothing held.
LEMMA EmptyTable ==
  ASSUME IInv, CloserOwes, NewHoldsNothing, closed, toClose = {}
  PROVE  \A c \in Channels : /\ channel[c] \in {"new", "gone"}
                             /\ frames[c] = <<>> /\ pending[c] = {}
                             /\ send \in Seq(Channels \ {c})
<1>. SUFFICES ASSUME NEW c \in Channels
              PROVE  /\ channel[c] \in {"new", "gone"}
                     /\ frames[c] = <<>> /\ pending[c] = {}
                     /\ send \in Seq(Channels \ {c})
  OBVIOUS
<1>1. None \notin Channels /\ TableTypes /\ QueueTypes /\ Registered
  BY DatagramsAssumption, TypeParts DEF IInv
<1>2. \A i \in Ids : table[i] = None
  BY DEF CloserOwes
<1>3. channel[c] \in {"new", "gone"}
  BY <1>1, <1>2 DEF Registered, TableTypes
<1>4. CASE channel[c] = "new"
  BY <1>4 DEF NewHoldsNothing, NothingQueued
<1>5. CASE channel[c] = "gone"
  <2>1. NothingQueued(c) /\ pending[c] = {}
    BY <1>1, <1>5, ClosedParts DEF IInv, ClosedStages
  <2>. QED  BY <1>3, <2>1 DEF NothingQueued
<1>. QED  BY <1>3, <1>4, <1>5

\* A sum of nothing but zeros.
LEMMA TotalZero ==
  ASSUME NEW f, \A x \in DOMAIN f : f[x] = 0
  PROVE  Total(f) = 0
<1>1. Places(f) = {}
  BY DEF Places, Row
<1>. QED  BY <1>1, FS_EmptySet, TotalPlaces

\* A queue for nobody is empty.
LEMMA QueueForNobody ==
  ASSUME NEW q \in Seq(Channels), \A c \in Channels : q \in Seq(Channels \ {c})
  PROVE  Len(q) = 0
<1>. SUFFICES ASSUME Len(q) # 0
              PROVE  FALSE
  OBVIOUS
<1>1. Len(q) \in Nat /\ 1 \in 1..Len(q)
  BY LenProperties
<1>2. q[1] \in Channels
  BY <1>1, ElementOfSeq
<1>3. q[1] \in Channels \ {q[1]}
  BY <1>1, <1>2, ElementOfSeq
<1>. QED  BY <1>3

\* A session that is closed has given back all it held of the process's budget,
\* whoever was sending, delivering, reading, expiring or closing beside its end.
THEOREM ClosedSessionGivesBack == Spec => []SessionGivesBack
<1>. DEFINE Inv == IInv /\ CloserOwes /\ NewHoldsNothing
<1>1. Init => CloserOwes /\ NewHoldsNothing
  BY EmptySeq DEF Init, CloserOwes, NewHoldsNothing, NothingQueued
<1>2. ASSUME Inv, Next
      PROVE  Inv'
  <2>1. /\ MuxTypes /\ TableTypes /\ QueueTypes /\ PendingTypes /\ Registered
    BY <1>2, TypeParts DEF IInv
  <2>. QED  BY <1>2, <2>1, InvStep, CloserStep, NewStep
<1>3. ASSUME Inv, UNCHANGED vars
      PROVE  CloserOwes' /\ NewHoldsNothing'
  BY <1>3 DEF vars, muxVars, channelVars, queueVars, connVars, CloserOwes,
              NewHoldsNothing, NothingQueued
<1>4. Inv => SessionGivesBack
  <2>. SUFFICES ASSUME Inv, closed, toClose = {}
                PROVE  SessionGivesBack
    BY DEF SessionGivesBack
  <2>1. \A c \in Channels : /\ channel[c] \in {"new", "gone"}
                            /\ frames[c] = <<>> /\ pending[c] = {}
                            /\ send \in Seq(Channels \ {c})
    BY EmptyTable
  <2>2. QueueTypes /\ QueueExact /\ ReassemblyExact /\ AssociationsExact
    BY TypeParts, ExactParts DEF IInv
  <2>3. budget.associations = 0
    <3>1. {c \in Channels : channel[c] \notin {"new", "gone"}} = {}
      BY <2>1
    <3>. QED  BY <2>2, <3>1, FS_EmptySet DEF AssociationsExact
  <2>4. budget.reassembly = 0
    <3>1. \A c \in Channels : Held(pending[c]) = 0
      BY <2>1, HeldNone
    <3>2. Total([c \in Channels |-> Held(pending[c])]) = 0
      BY <3>1, TotalZero
    <3>. QED  BY <2>2, <3>2 DEF ReassemblyExact
  <2>5. Total(FrameLens) = 0
    <3>1. \A c \in Channels : Len(frames[c]) = 0
      BY <2>1, EmptySeq
    <3>. QED  BY <3>1, TotalZero DEF FrameLens
  <2>6. Len(send) = 0
    BY <2>1, <2>2, QueueForNobody DEF QueueTypes
  <2>7. /\ Cardinality(prepared) \in Nat /\ SenderHolds \in Nat
        /\ Cardinality(Holders) \in Nat
    BY <2>2, QueueTerms
  <2>8. budget.queue = Cardinality(prepared) + SenderHolds + Cardinality(Holders)
    BY <2>2, <2>5, <2>6, <2>7 DEF QueueExact
  <2>. QED  BY <2>3, <2>4, <2>8 DEF SessionGivesBack
<1>. HIDE DEF Inv
<1>5. Inv /\ [Next]_vars => Inv'
  <2>1. ASSUME Inv, UNCHANGED vars
        PROVE  Inv'
    BY <1>3, <2>1, StutterInv DEF Inv
  <2>. QED  BY <1>2, <2>1
<1>6. Init => Inv
  BY <1>1, InitInv DEF Inv
<1>. QED  BY <1>4, <1>5, <1>6, PTL DEF Spec
=============================================================================
