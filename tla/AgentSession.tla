----------------------------- MODULE AgentSession -----------------------------
(*****************************************************************************)
(* The agent's approved session (agent/app): the listener of the tunnel      *)
(* manager, the goroutine that authenticates and serves each session, its    *)
(* heartbeat and inventory streams, Close, and the Gateway's side of the     *)
(* exit inventory: the list in the welcome and in every pong, and the pushes *)
(* after a change, each stamped with a revision.                             *)
(*                                                                           *)
(* The tunnel manager is TunnelEvents, which TunnelManager implements.  What *)
(* the Gateway lists is the value of truth at that moment; an inventory      *)
(* remembers it in "of" and the session it was sent to in "from".  The agent *)
(* compares epochs for equality only, so epoch is the session whose          *)
(* goroutine was started with the current one.                               *)
(*****************************************************************************)
EXTENDS FiniteSets, Naturals

CONSTANTS
  Sessions,    \* transport sessions to the Server
  Granted,     \* those authenticated while the device holds the client grant
  Nobody,      \* no session
  Gaps,        \* bound: the states the manager goes through without a session
  MaxTruth     \* bound: changes of the exits the agent may use

ASSUME AgentAssumption ==
  /\ Nobody \notin Sessions /\ Granted \subseteq Sessions
  /\ Gaps \subseteq {"DISCONNECTED", "CONNECTING", "RECONNECTING"}
  /\ MaxTruth \in Nat

VARIABLES
  state, session, heard,  \* the tunnel manager, see TunnelEvents
  calling,     \* the manager calls onTunnelStateChange, with arguments heard
  live,        \* sessions whose transport is open
  epoch,       \* Agent.epoch
  ready,       \* readySession
  phase,       \* phase[s]: where the goroutine of s stands
  list,        \* proxyExits
  rev,         \* proxyExitRevision
  direct,      \* the inventory the ClientManager of public direct holds
  closing,     \* where closeRuntime stands
  welcome,     \* welcome[s]: the DeviceAccepted of s, as far as it is made
  beat,        \* beat[s]: the heartbeat in progress
  pushes,      \* pushes[s]: inventory pushes under way
  truth,       \* the exits the agent may use, at the Server
  unannounced, \* changes whose revision is not taken yet
  revision     \* Gateway.proxyExitRevision

ev == INSTANCE TunnelEvents

eventVars  == <<state, session, heard, calling>>
agentVars  == <<epoch, ready, list, rev, direct, closing>>
wireVars   == <<welcome, beat, pushes>>
serverVars == <<truth, unannounced, revision>>
allVars == <<eventVars, live, agentVars, phase, wireVars, serverVars>>

Handshake == {"hello", "listed", "stamped", "welcomed"}
Working   == {"serving", "stopping"}
Phases    == {"none", "accepted", "ended", "reporting"} \cup Handshake \cup Working

Nothing   == [of |-> 0, from |-> Nobody]
NoWelcome == [has |-> FALSE, of |-> 0, rev |-> 0]
NoBeat    == [step |-> "idle", of |-> 0, rev |-> 0]

AgentInit ==
  /\ ev!EventsInit
  /\ calling = FALSE /\ live = {}
  /\ epoch = Nobody /\ ready = Nobody
  /\ list = Nothing /\ rev = 0 /\ direct = Nothing
  /\ closing = "open"
  /\ phase = [s \in Sessions |-> "none"]
  /\ welcome = [s \in Sessions |-> NoWelcome]
  /\ beat = [s \in Sessions |-> NoBeat]
  /\ pushes = [s \in Sessions |-> {}]
  /\ truth = 0 /\ unannounced = 0 /\ revision = 1

GoTo(s, p) == phase' = [phase EXCEPT ![s] = p]

-----------------------------------------------------------------------------
(* The tunnel manager.                                                      *)

\* Callbacks are serialized.
ManagerConnects(s) ==
  /\ ~calling
  /\ s \notin live /\ phase[s] = "none"
  /\ ev!Up(s)
  /\ calling' = TRUE
  /\ live' = live \cup {s}
  /\ UNCHANGED <<agentVars, phase, wireVars, serverVars>>

ManagerGivesUp(new) ==
  /\ ~calling
  /\ ev!Down(new)
  /\ calling' = (heard' # heard)
  /\ UNCHANGED <<live, agentVars, phase, wireVars, serverVars>>

\* A transport ends, by the network, the Server, the manager or Close.
Dies(s) ==
  /\ s \in live
  /\ live' = live \ {s}
  /\ UNCHANGED <<eventVars, agentVars, phase, wireVars, serverVars>>

\* onTunnelStateChange; a callback that comes late changes nothing.
OnTunnelStateChange ==
  /\ calling
  /\ calling' = FALSE
  /\ IF closing # "open" \/ heard # <<state, session>>
     THEN UNCHANGED <<epoch, ready, phase>>
     ELSE /\ epoch' = session
          /\ ready' = Nobody
          /\ phase' = [s \in Sessions |->
                         IF s = session THEN "hello" ELSE phase[s]]
  /\ UNCHANGED <<state, session, heard, live, list, rev, direct, closing>>
  /\ UNCHANGED <<wireVars, serverVars>>

-----------------------------------------------------------------------------
(* Authentication: handleSession of the Gateway, then serveSession.         *)

\* The exits are listed; without the grant, or on an error, there are none.
WelcomeLists(s, has) ==
  /\ phase[s] = "hello" /\ s \in live
  /\ has => s \in Granted
  /\ welcome' = [welcome EXCEPT ![s] =
                   [has |-> has, of |-> IF has THEN truth ELSE 0, rev |-> 0]]
  /\ GoTo(s, "listed")
  /\ UNCHANGED <<eventVars, live, agentVars, beat, pushes, serverVars>>

WelcomeStamps(s) ==
  /\ phase[s] = "listed" /\ s \in live
  /\ welcome' = [welcome EXCEPT ![s].rev = revision]
  /\ GoTo(s, "stamped")
  /\ UNCHANGED <<eventVars, live, agentVars, beat, pushes, serverVars>>

\* The session is registered and the welcome written.
WelcomeSent(s) ==
  /\ phase[s] = "stamped" /\ s \in live
  /\ GoTo(s, "welcomed")
  /\ UNCHANGED <<eventVars, live, agentVars, wireVars, serverVars>>

\* Sessions the Gateway notifies of a change.
Notified == {s \in Granted \cap live : phase[s] \in {"welcomed", "accepted"} \cup Working}

HandshakeFails(s) ==
  /\ phase[s] \in Handshake
  /\ s \notin live \/ closing # "open"
  /\ live' = live \ {s}
  /\ GoTo(s, "ended")
  /\ welcome' = [welcome EXCEPT ![s] = NoWelcome]
  /\ UNCHANGED <<eventVars, agentVars, beat, pushes, serverVars>>

\* FAULT: only Close is noticed.
SupersededByClose(s) == closing # "open"

\* A newer session, or Close, came while s authenticated.
Superseded(s) == closing # "open" \/ epoch # s \/ session # s

Accept(s) ==
  /\ phase[s] = "welcomed"
  /\ ~Superseded(s)
  /\ ready' = s
  /\ rev' = welcome[s].rev
  /\ list' = IF welcome[s].has THEN [of |-> welcome[s].of, from |-> s] ELSE list
  /\ GoTo(s, "accepted")
  /\ UNCHANGED <<eventVars, live, epoch, direct, closing, wireVars, serverVars>>

AcceptRefused(s) ==
  /\ phase[s] = "welcomed"
  /\ Superseded(s)
  /\ live' = live \ {s}
  /\ GoTo(s, "ended")
  /\ welcome' = [welcome EXCEPT ![s] = NoWelcome]
  /\ UNCHANGED <<eventVars, agentVars, beat, pushes, serverVars>>

\* ClientManager.UpdateInventory, which does nothing once the manager is closed.
DirectOpen == closing \in {"open", "canceled"}
UpdateInventory(inventory) ==
  direct' = IF DirectOpen THEN inventory ELSE direct

\* After the unlock: the inventory is applied and the workers start.
StartServing(s) ==
  /\ phase[s] = "accepted"
  /\ IF welcome[s].has
     THEN UpdateInventory([of |-> welcome[s].of, from |-> s])
     ELSE UNCHANGED direct
  /\ welcome' = [welcome EXCEPT ![s] = NoWelcome]
  /\ GoTo(s, "serving")
  /\ UNCHANGED <<eventVars, live, epoch, ready, list, rev, closing>>
  /\ UNCHANGED <<beat, pushes, serverVars>>

-----------------------------------------------------------------------------
(* The exit inventory.                                                      *)

\* FAULT: a recovery copy of the current revision is rejected too.
FreshOnly(r) == r > rev

\* Only strictly older snapshots are rejected.
Acceptable(r) == r >= rev

\* FAULT: snapshots of a session that was replaced are taken.
TakenFromAny(s, r) == Acceptable(r)

\* refreshProxyExits up to its unlock.
Taken(s, r) == epoch = s /\ ready = s /\ Acceptable(r)
RefreshProxyExits(s, of, r) ==
  IF Taken(s, r) THEN /\ list' = [of |-> of, from |-> s]
                      /\ rev' = r
                 ELSE UNCHANGED <<list, rev>>

\* A ping: the Gateway lists ...
PongLists(s) ==
  /\ phase[s] = "serving" /\ s \in Granted \cap live
  /\ beat[s].step = "idle"
  /\ beat' = [beat EXCEPT ![s] = [step |-> "listed", of |-> truth, rev |-> 0]]
  /\ UNCHANGED <<eventVars, live, agentVars, phase, welcome, pushes, serverVars>>

\* ... and stamps the pong with the revision it finds then.
PongSent(s) ==
  /\ beat[s].step = "listed" /\ s \in live
  /\ beat' = [beat EXCEPT ![s].step = "sent", ![s].rev = revision]
  /\ UNCHANGED <<eventVars, live, agentVars, phase, welcome, pushes, serverVars>>

PongArrives(s) ==
  /\ beat[s].step = "sent" /\ phase[s] = "serving"
  /\ RefreshProxyExits(s, beat[s].of, beat[s].rev)
  /\ beat' = [beat EXCEPT ![s] = IF Taken(s, beat[s].rev)
                                 THEN [beat[s] EXCEPT !.step = "applying"]
                                 ELSE NoBeat]
  /\ UNCHANGED <<eventVars, live, epoch, ready, direct, closing, phase>>
  /\ UNCHANGED <<welcome, pushes, serverVars>>

PongApplied(s) ==
  /\ beat[s].step = "applying"
  /\ UpdateInventory([of |-> beat[s].of, from |-> s])
  /\ beat' = [beat EXCEPT ![s] = NoBeat]
  /\ UNCHANGED <<eventVars, live, epoch, ready, list, rev, closing, phase>>
  /\ UNCHANGED <<welcome, pushes, serverVars>>

\* A grant, an exit or its session comes or goes.
TruthChanges ==
  /\ truth < MaxTruth
  /\ truth' = truth + 1
  /\ unannounced' = unannounced + 1
  /\ UNCHANGED <<eventVars, live, agentVars, phase, wireVars, revision>>

NextRevision == revision' = revision + 1

\* The revision is taken, and one push is started for each session.
Announce ==
  /\ unannounced > 0
  /\ unannounced' = unannounced - 1
  /\ NextRevision
  /\ pushes' = [s \in Sessions |->
                  IF s \in Notified
                  THEN pushes[s] \cup {[step |-> "new", of |-> 0, rev |-> revision + 1]}
                  ELSE pushes[s]]
  /\ UNCHANGED <<eventVars, live, agentVars, phase, welcome, beat, truth>>

PushStep(s, p, now) == pushes' = [pushes EXCEPT ![s] = (@ \ {p}) \cup now]

PushLists(s, p) ==
  /\ p \in pushes[s] /\ p.step = "new" /\ s \in live
  /\ PushStep(s, p, {[p EXCEPT !.step = "sent", !.of = truth]})
  /\ UNCHANGED <<eventVars, live, agentVars, phase, welcome, beat, serverVars>>

\* A push that is lost is one that never arrives.
PushArrives(s, p) ==
  /\ p \in pushes[s] /\ p.step = "sent" /\ phase[s] = "serving"
  /\ RefreshProxyExits(s, p.of, p.rev)
  /\ PushStep(s, p, IF Taken(s, p.rev) THEN {[p EXCEPT !.step = "applying"]}
                                       ELSE {})
  /\ UNCHANGED <<eventVars, live, epoch, ready, direct, closing, phase>>
  /\ UNCHANGED <<welcome, beat, serverVars>>

PushApplied(s, p) ==
  /\ p \in pushes[s] /\ p.step = "applying"
  /\ UpdateInventory([of |-> p.of, from |-> s])
  /\ PushStep(s, p, {})
  /\ UNCHANGED <<eventVars, live, epoch, ready, list, rev, closing, phase>>
  /\ UNCHANGED <<welcome, beat, serverVars>>

\* The Server is restarted: revisions start over and every session ends.
ServerRestarts ==
  /\ revision > 1
  /\ revision' = 1 /\ unannounced' = 0
  /\ live' = {}
  /\ UNCHANGED <<eventVars, agentVars, phase, wireVars, truth>>

-----------------------------------------------------------------------------
(* The end of a session, and of the agent.                                  *)

\* The streams are canceled; what refreshProxyExits has taken is still applied.
Stops(s) ==
  /\ phase[s] = "serving"
  /\ s \notin live \/ closing # "open"
  /\ live' = live \ {s}
  /\ GoTo(s, "stopping")
  /\ beat' = [beat EXCEPT ![s] = IF @.step = "applying" THEN @ ELSE NoBeat]
  /\ pushes' = [pushes EXCEPT ![s] = {p \in @ : p.step = "applying"}]
  /\ UNCHANGED <<eventVars, agentVars, welcome, serverVars>>

\* workers.Wait returns; clearPublicDirectState.
Clears(s) ==
  /\ phase[s] = "stopping"
  /\ beat[s].step # "applying" /\ \A p \in pushes[s] : p.step # "applying"
  /\ IF epoch = s /\ ready = s THEN UpdateInventory(Nothing) ELSE UNCHANGED direct
  /\ GoTo(s, "ended")
  /\ UNCHANGED <<eventVars, live, epoch, ready, list, rev, closing>>
  /\ UNCHANGED <<wireVars, serverVars>>

\* FAULT: the end of any goroutine withdraws the approval.
EndsAny(s) == TRUE

EndsOwn(s) == epoch = s /\ ready = s

Ends(s) ==
  /\ phase[s] = "ended"
  /\ ready' = IF EndsOwn(s) THEN Nobody ELSE ready
  /\ GoTo(s, "reporting")
  /\ pushes' = [pushes EXCEPT ![s] = {}]
  /\ UNCHANGED <<eventVars, live, epoch, list, rev, direct, closing>>
  /\ UNCHANGED <<welcome, beat, serverVars>>

\* MarkSessionLost, for the active session only.
Reported(s) == session = s

Reports(s) ==
  /\ phase[s] = "reporting"
  /\ ~calling
  /\ IF Reported(s)
     THEN /\ ev!Down("DISCONNECTED")
          /\ calling' = (heard' # heard)
          /\ live' = live \ {s}
     ELSE UNCHANGED <<eventVars, live>>
  /\ GoTo(s, "none")
  /\ UNCHANGED <<agentVars, wireVars, serverVars>>

CloseCancels ==
  /\ closing = "open"
  /\ closing' = "canceled"
  /\ epoch' = Nobody /\ ready' = Nobody
  /\ UNCHANGED <<eventVars, live, list, rev, direct, phase, wireVars, serverVars>>

\* closePublicDirectClient.
CloseDirect ==
  /\ closing = "canceled"
  /\ closing' = "direct"
  /\ direct' = Nothing
  /\ UNCHANGED <<eventVars, live, epoch, ready, list, rev, phase>>
  /\ UNCHANGED <<wireVars, serverVars>>

CloseTunnel ==
  /\ closing = "direct"
  /\ closing' = "tunnel"
  /\ ev!Shut
  /\ live' = live \ {session}
  /\ UNCHANGED <<calling, epoch, ready, list, rev, direct, phase>>
  /\ UNCHANGED <<wireVars, serverVars>>

CloseReturns ==
  /\ closing = "tunnel"
  /\ ~calling /\ \A s \in Sessions : phase[s] = "none"
  /\ closing' = "closed"
  /\ UNCHANGED <<eventVars, live, epoch, ready, list, rev, direct, phase>>
  /\ UNCHANGED <<wireVars, serverVars>>

\* Nothing is left to do.
Closed == closing = "closed" /\ UNCHANGED allVars

CloseStep == CloseDirect \/ CloseTunnel \/ CloseReturns

HandshakeStep(s) ==
  \/ \E has \in BOOLEAN : WelcomeLists(s, has)
  \/ WelcomeStamps(s) \/ WelcomeSent(s)
  \/ HandshakeFails(s) \/ Accept(s) \/ AcceptRefused(s) \/ StartServing(s)

BeatStep(s) == PongLists(s) \/ PongSent(s) \/ PongArrives(s) \/ PongApplied(s)

EndStep(s) == Stops(s) \/ Clears(s) \/ Ends(s)

AgentNext ==
  \/ \E s \in Sessions : ManagerConnects(s) \/ Dies(s)
  \/ \E new \in Gaps : ManagerGivesUp(new)
  \/ OnTunnelStateChange
  \/ \E s \in Sessions : HandshakeStep(s) \/ BeatStep(s) \/ EndStep(s) \/ Reports(s)
  \/ \E s \in Sessions : \E p \in pushes[s] :
       PushLists(s, p) \/ PushArrives(s, p) \/ PushApplied(s, p)
  \/ TruthChanges \/ Announce \/ ServerRestarts
  \/ CloseCancels \/ CloseStep \/ Closed

AgentSpec == AgentInit /\ [][AgentNext]_allVars

\* Goroutines on both sides take their next step; MarkSessionLost gets
\* stateEvents in the end, however often the manager takes it; a session the
\* manager gave up ends.  A push may always be lost.
AgentFairSpec ==
  /\ AgentSpec
  /\ WF_allVars(OnTunnelStateChange) /\ WF_allVars(Announce) /\ WF_allVars(CloseStep)
  /\ \A s \in Sessions :
       /\ WF_allVars(HandshakeStep(s)) /\ WF_allVars(BeatStep(s)) /\ WF_allVars(EndStep(s))
       /\ SF_allVars(Reports(s))
       /\ WF_allVars(\E p \in pushes[s] : PushApplied(s, p))
       /\ WF_allVars(s # session /\ Dies(s))

-----------------------------------------------------------------------------
(* Properties.                                                              *)

AgentTypeOK ==
  /\ state \in ev!Idle \cup {"CONNECTED", "CLOSED"}
  /\ session \in Sessions \cup {Nobody}
  /\ calling \in BOOLEAN /\ live \subseteq Sessions
  /\ epoch \in Sessions \cup {Nobody} /\ ready \in Sessions \cup {Nobody}
  /\ phase \in [Sessions -> Phases]
  /\ list \in [of: 0..MaxTruth, from: Sessions \cup {Nobody}]
  /\ direct \in [of: 0..MaxTruth, from: Sessions \cup {Nobody}]
  /\ rev \in 0..(MaxTruth + 1)
  /\ closing \in {"open", "canceled", "direct", "tunnel", "closed"}
  /\ welcome \in [Sessions -> [has: BOOLEAN, of: 0..MaxTruth, rev: 0..(MaxTruth + 1)]]
  /\ beat \in [Sessions -> [step: {"idle", "listed", "sent", "applying"},
                            of: 0..MaxTruth, rev: 0..(MaxTruth + 1)]]
  /\ pushes \in [Sessions -> SUBSET
       [step: {"new", "sent", "applying"}, of: 0..MaxTruth, rev: 2..(MaxTruth + 1)]]
  /\ truth \in 0..MaxTruth /\ unannounced \in 0..truth
  /\ revision \in 1..(truth + 1 - unannounced)

\* The approved session is the manager's active one, served by a running
\* goroutine, unless the manager is about to announce that it is not.
ReadyIsActive ==
  ready # Nobody =>
    /\ closing = "open" /\ epoch = ready
    /\ phase[ready] \in {"accepted", "ended"} \cup Working
    /\ session = ready \/ calling

\* The agent uses what one approved session listed: once the session has sent
\* a list, no inventory of an earlier session comes back (comment at
\* onTunnelStateChange: the next welcome, heartbeat or push replaces it).
ListOfReadySession ==
  [][list' # list => list'.from = ready' /\ ready' # Nobody]_allVars

\* Heartbeats repair a lost push and a snapshot stamped with the revision of the
\* next one: when the session and the truth stay, the agent ends up with it.
ListConverges ==
  (<>[](ready \in Granted /\ truth = MaxTruth))
    => <>[](list.of = truth /\ direct.of = truth)

\* An active session is approved, or given up so that the manager reconnects.
ApprovedOrGivenUp == []<>(session \in {ready, Nobody})
=============================================================================
