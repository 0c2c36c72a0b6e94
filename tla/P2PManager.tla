----------------------------- MODULE P2PManager -----------------------------
(* A device's P2P paths: p2p.Manager and its Sessions, as a Client that asks *)
(* for a path to an Exit (EnsureClient, StartClient) and as an Exit that is  *)
(* offered one (handleOffer).                                                *)
(*                                                                           *)
(* A step is one critical section of Manager.mu or Session.mu, or the end of *)
(* something slow done outside both: the request to the coordinator, the     *)
(* punch, the QUIC handshake, the closing of an endpoint.  What a goroutine  *)
(* still owes a session after a critical section is an element of todo; the  *)
(* goroutine's own next step does not wait for it, so that a session that    *)
(* has left the map may be closed later than in the code.                    *)
(*                                                                           *)
(* A session is named by the attempt or the offer it is made for: the        *)
(* coordinator gives every lease a fresh id.  Left out: reports and other    *)
(* messages whose answer changes nothing, the streams of a path (whether one *)
(* is busy is a choice), and whether the ready channel is full (a choice).   *)
(*****************************************************************************)
EXTENDS Naturals, FiniteSets

CONSTANTS
  Exits,
  Offers,       \* leases this device is the Exit of
  AnswerLimit,  \* how many early answers pendingAnswers keeps, 128 in the code
  MaxAttempts,  \* bound: attempts as a Client
  MaxNetworks,  \* bound: networks the device is on, one after the other
  MaxEvents     \* bound: attempts, offers, moves and Close together

ASSUME ManagerAssumption ==
  /\ MaxAttempts \in Nat /\ MaxEvents \in Nat /\ MaxNetworks \in Nat \ {0}
  /\ AnswerLimit \in Nat \ {0}
  /\ Offers \cap (1..MaxAttempts) = {}

VARIABLES
  sessions,     \* Manager.sessions: the ids in the map
  session,      \* the Session objects
  socket,       \* the UDP socket of a session's endpoint
  path,         \* the QUIC connection over it is up
  establish,    \* where handleOffer and Session.establish are
  todo,         \* <<what, s>>: what some goroutine is about to do
  attempt,      \* the goroutines of EnsureClient
  starting,     \* Manager.starting: the attempt in flight, None if absent
  cooldown,     \* Manager.cooldowns: the network it was noted on, or None
  pending,      \* Manager.pendingAnswers
  evicted,      \* answers that pendingAnswers had no room for (not in the code)
  answered,     \* attempts whose connect answer was delivered
  network,      \* the network the device is on
  signature,    \* Manager.networkSig: the network last seen
  epoch,        \* Manager.networkEpoch, as the network it began with
  invalidating, \* a change was seen, invalidateNetwork is about to take mu
  closer        \* Close: "open", "closed" (flag and context), "cleared"

sessionVars == <<session, socket, path>>
mapVars == <<starting, cooldown, pending, evicted, answered>>
netVars == <<network, signature, epoch, invalidating>>
vars == <<sessions, sessionVars, establish, todo, attempt, mapVars,
          netVars, closer>>

None == 0
Attempts == 1..MaxAttempts
Networks == 1..MaxNetworks
Sessions == Attempts \cup Offers

States == {"rendezvous", "punching", "handshake", "ready", "degraded", "closed"}

(* answer: the peer's candidates and fingerprint are known; endpoint and     *)
(* direct: the fields are not nil; closed: the channel closeLocal closes.    *)
(* A session is answered once, so that establish runs once and the flag      *)
(* establishing is left out.                                                 *)
Records == [state : States, client : BOOLEAN, answer : BOOLEAN,
            endpoint : BOOLEAN, direct : BOOLEAN, closed : BOOLEAN]
NewSession == [state |-> "rendezvous", client |-> FALSE, answer |-> FALSE,
               endpoint |-> TRUE, direct |-> FALSE, closed |-> FALSE]

AttemptSteps == {"starting", "preparing", "asking", "registering", "returned",
                 "failed", "dropping", "recording", "clearing",
                 "ended"}
Attempting == [at : AttemptSteps, exit : Exits, epoch : Networks]
Unused == [at |-> "unused", exit |-> "", epoch |-> None]

EstablishSteps == {"none", "offered", "registered", "answering", "spawned",
                   "punching", "dialing", "dialed", "resetting", "queueing",
                   "watching", "over"}

TypeOK ==
  /\ sessions \in SUBSET Sessions
  /\ session \in [Sessions -> Records]
  /\ socket \in [Sessions -> {"none", "open", "closed"}]
  /\ path \in [Sessions -> BOOLEAN]
  /\ establish \in [Sessions -> EstablishSteps]
  /\ todo \in SUBSET ({"close", "fail", "record", "remove"} \X Sessions)
  /\ attempt \in [Attempts -> Attempting \cup {Unused}]
  /\ starting \in [Exits -> Attempts \cup {None}]
  /\ cooldown \in [Exits -> Networks \cup {None}]
  /\ pending \in SUBSET Attempts
  /\ evicted \in SUBSET Attempts
  /\ answered \in SUBSET Attempts
  /\ network \in Networks
  /\ signature \in Networks
  /\ epoch \in Networks
  /\ invalidating \in BOOLEAN
  /\ closer \in {"open", "closed", "cleared"}

Init ==
  /\ sessions = {}
  /\ session = [s \in Sessions |-> NewSession]
  /\ socket = [s \in Sessions |-> "none"]
  /\ path = [s \in Sessions |-> FALSE]
  /\ establish = [s \in Sessions |-> "none"]
  /\ todo = {}
  /\ attempt = [a \in Attempts |-> Unused]
  /\ starting = [e \in Exits |-> None]
  /\ cooldown = [e \in Exits |-> None]
  /\ pending = {}
  /\ evicted = {}
  /\ answered = {}
  /\ network = 1
  /\ signature = 1
  /\ epoch = 1
  /\ invalidating = FALSE
  /\ closer = "open"

Closed == closer # "open"

Events ==
  Cardinality({a \in Attempts : attempt[a] # Unused})
  + Cardinality({o \in Offers : establish[o] # "none"})
  + (network - 1) + (IF Closed THEN 1 ELSE 0)
MayHappen == Events < MaxEvents

SessionsFor(e) == {a \in sessions \cap Attempts : attempt[a].exit = e}

ReadyClients ==
  {s \in sessions : session[s].client /\ session[s].state = "ready"}

At(a, step) == attempt' = [attempt EXCEPT ![a].at = step]
Move(s, step) == establish' = [establish EXCEPT ![s] = step]

Owe(work) == todo' = todo \cup work
Owed(what, s) == <<what, s>> \in todo
Done(what, s) == todo' = todo \ {<<what, s>>}

-----------------------------------------------------------------------------
(* What ends a session *)

(* The fields are cleared and the state set under Session.mu; the path and   *)
(* the endpoint that were in them are closed next.  Endpoint.Close takes the *)
(* port mapping back from the router before it closes the socket, so that a  *)
(* punch or a handshake on a "closed" one may still go through.              *)
Released(s, new) ==
  /\ session' = [session EXCEPT ![s] = new]
  /\ path' = [path EXCEPT ![s] = @ /\ ~session[s].direct]
  /\ socket' = [socket EXCEPT ![s] = IF session[s].endpoint THEN "closed" ELSE @]

Emptied(s) == [session[s] EXCEPT !.direct = FALSE, !.endpoint = FALSE]

(* closeLocal, once for each.                                                *)
CloseLocal(s) ==
  IF session[s].closed THEN UNCHANGED sessionVars
  ELSE Released(s, [Emptied(s) EXCEPT !.state = "closed", !.closed = TRUE])

(* Sessions leave the map: who took them out has to close them.              *)
Orphans(S) == {"close"} \X (S \cap sessions)
Drop(S) == sessions' = sessions \ S /\ Owe(Orphans(S))

CloseDropped(s) ==
  /\ Owed("close", s)
  /\ Done("close", s)
  /\ CloseLocal(s)
  /\ UNCHANGED <<sessions, establish, attempt, mapVars, netVars, closer>>

(* The other side, the network or the closing of its socket ends the path.   *)
PathEnds(s) ==
  /\ path[s]
  /\ path' = [path EXCEPT ![s] = FALSE]
  /\ UNCHANGED <<sessions, session, socket, establish, todo, attempt, mapVars,
                 netVars, closer>>

(* What follows a failure: a Client notes it; then the session is removed.   *)
Aftermath(s) == {<<IF session[s].client THEN "record" ELSE "remove", s>>}

(* The critical section of failDirect.                                       *)
Fails(s) ==
  LET state == IF session[s].state = "closed" THEN "closed" ELSE "degraded"
  IN  Released(s, [Emptied(s) EXCEPT !.state = state])

(* failDirect, called by a goroutine other than establish.                   *)
FailDirect(s) ==
  /\ Owed("fail", s)
  /\ todo' = (todo \ {<<"fail", s>>}) \cup Aftermath(s)
  /\ Fails(s)
  /\ UNCHANGED <<sessions, establish, attempt, mapVars, netVars, closer>>

(* recordFailureError: nothing is noted after Close.                         *)
Noted(e) ==
  cooldown' = IF Closed THEN cooldown ELSE [cooldown EXCEPT ![e] = network]

RecordFailure(s) ==
  /\ Owed("record", s)
  /\ todo' = (todo \ {<<"record", s>>}) \cup {<<"remove", s>>}
  /\ Noted(attempt[s].exit)
  /\ UNCHANGED <<sessions, sessionVars, establish, attempt, starting, pending,
                 evicted, answered, netVars, closer>>

(* removeFailedSession *)
RemoveFailed(s) ==
  /\ Owed("remove", s)
  /\ sessions' = sessions \ {s}
  /\ todo' = (todo \ {<<"remove", s>>}) \cup Orphans({s})
  /\ UNCHANGED <<sessionVars, establish, attempt, mapVars, netVars, closer>>

(* remove: the coordinator closes or revokes the lease or refuses to renew   *)
(* it.                                                                       *)
Remove(s) ==
  /\ s \in sessions
  /\ Drop({s})
  /\ UNCHANGED <<sessionVars, establish, attempt, mapVars, netVars, closer>>

(* expireUnanswered: the timer fires.                                        *)
Expire(s) ==
  /\ s \in sessions \/ session[s].client
  /\ ~session[s].closed /\ ~Closed
  /\ session[s].state = "rendezvous" /\ ~session[s].answer
  /\ Owe({<<"fail", s>>})
  /\ UNCHANGED <<sessions, sessionVars, establish, attempt, mapVars,
                 netVars, closer>>

(* FailReadyForExit: a stream on the path to e failed.                       *)
FailReadyForExit(e) ==
  /\ ReadyClients \cap SessionsFor(e) # {}
  /\ Owe({"fail"} \X (ReadyClients \cap SessionsFor(e)))
  /\ UNCHANGED <<sessions, sessionVars, establish, attempt, mapVars,
                 netVars, closer>>

(* Paths without streams are dropped: idle for long enough (reapIdleLoop), or*)
(* more than the limit (enforceClientLimit, also called by establish).       *)
(* Neither the time nor the count is kept, nor whether the device is         *)
(* power-constrained, when an Exit's paths go too.                           *)
Reap(S) ==
  /\ S # {} /\ ~Closed
  /\ \A s \in S : s \in sessions /\ session[s].state = "ready"
  /\ Drop(S)
  /\ UNCHANGED <<sessionVars, establish, attempt, mapVars, netVars, closer>>

-----------------------------------------------------------------------------
(* EnsureClient and StartClient *)

ActiveStates == {"rendezvous", "punching", "handshake", "ready"}

(* FAULT: an attempt in flight does not keep a second one from starting.     *)
StartableTwice(e) ==
  /\ cooldown[e] = None
  /\ \A s \in SessionsFor(e) : session[s].state \notin ActiveStates

Startable(e) ==
  /\ cooldown[e] = None
  /\ starting[e] = None
  /\ \A s \in SessionsFor(e) : session[s].state \notin ActiveStates

(* EnsureClient, called by a request or PrewarmClient (which                 *)
(* invalidateNetwork, a candidate update and ObserveExits call too).  It     *)
(* looks at closed before it takes mu; StartClient looks again.              *)
EnsureClient(e) ==
  /\ MayHappen
  /\ ~Closed
  /\ Startable(e)
  /\ \E a \in Attempts :
       /\ attempt[a] = Unused
       /\ \A b \in Attempts : attempt[b] = Unused => a <= b
       /\ attempt' = [attempt EXCEPT
            ![a] = [at |-> "starting", exit |-> e, epoch |-> epoch]]
       /\ starting' = [starting EXCEPT ![e] = a]
  /\ UNCHANGED <<sessions, sessionVars, establish, todo, cooldown, pending,
                 evicted, answered, netVars, closer>>

Stale(e) ==
  {s \in SessionsFor(e) : session[s].state \in {"degraded", "closed"}}

(* StartClient looks at closed; pruneExit.                                   *)
PruneExit(a) ==
  /\ attempt[a].at = "starting"
  /\ IF Closed THEN At(a, "failed") /\ UNCHANGED <<sessions, todo>>
               ELSE At(a, "preparing") /\ Drop(Stale(attempt[a].exit))
  /\ UNCHANGED <<sessionVars, establish, mapVars, netVars, closer>>

(* The endpoint of prepareLocal.                                             *)
Opens(s) == socket' = [socket EXCEPT ![s] = "open"]

(* prepareLocal; the request goes out.                                       *)
PrepareLocal(a) ==
  /\ attempt[a].at = "preparing"
  /\ \/ Opens(a) /\ At(a, "asking")
     \/ UNCHANGED socket /\ At(a, "failed")
  /\ UNCHANGED <<sessions, session, path, establish, todo, mapVars,
                 netVars, closer>>

(* newSessionWithEndpoint *)
Registers(s) == sessions' = sessions \cup {s} /\ UNCHANGED socket
NotRegistered(s) ==
  sessions' = sessions /\ socket' = [socket EXCEPT ![s] = "closed"]

(* The coordinator granted the lease.                                        *)
ConnectGranted(a) ==
  /\ attempt[a].at = "asking"
  /\ IF Closed THEN NotRegistered(a) /\ At(a, "failed")
               ELSE Registers(a) /\ At(a, "registering")
  /\ UNCHANGED <<session, path, establish, todo, mapVars, netVars, closer>>

(* FAULT: the endpoint of a request that failed is forgotten.                *)
FailsOpen(a) ==
  /\ attempt[a].at = "asking"
  /\ At(a, "failed")
  /\ UNCHANGED <<sessions, sessionVars, establish, todo, mapVars, netVars,
                 closer>>

(* It refused, the request failed or ran out of time.                        *)
ConnectFails(a) ==
  /\ attempt[a].at = "asking"
  /\ NotRegistered(a)
  /\ At(a, "failed")
  /\ UNCHANGED <<session, path, establish, todo, mapVars, netVars, closer>>

(* applyConnectAnswer; establish runs in a goroutine of its own.             *)
AnswerApplies(a, client) ==
  /\ session' = [session EXCEPT ![a].answer = TRUE, ![a].client = client]
  /\ IF session[a].endpoint THEN Move(a, "spawned") ELSE UNCHANGED establish

(* FAULT: the early answer stays where it is.                                *)
ConsumeNothing(a) ==
  /\ attempt[a].at = "registering"
  /\ At(a, "returned")
  /\ session' = [session EXCEPT ![a].client = TRUE]
  /\ UNCHANGED <<sessions, socket, path, establish, todo, mapVars, netVars,
                 closer>>

(* The session is made the Client's; an answer that came before              *)
(* connect_request returned is consumed.                                     *)
ConsumePending(a) ==
  /\ attempt[a].at = "registering"
  /\ At(a, "returned")
  /\ pending' = pending \ {a}
  /\ IF a \in pending THEN AnswerApplies(a, TRUE)
     ELSE session' = [session EXCEPT ![a].client = TRUE] /\ UNCHANGED establish
  /\ UNCHANGED <<sessions, socket, path, todo, starting, cooldown, evicted,
                 answered, netVars, closer>>

(* The table of early answers is full: any one of them makes room.           *)
MakesRoom(lost) ==
  IF Cardinality(pending) < AnswerLimit THEN lost = {}
  ELSE \E b \in pending : lost = {b}

(* HandleControl, connect_answer: it and the reply to the request are not    *)
(* delivered in order, and the answer comes once the request is out, perhaps *)
(* after the attempt has been given up.                                      *)
AnswerArrives(a) ==
  /\ ~Closed
  /\ attempt[a].at \notin {"unused", "starting", "preparing"}
  /\ socket[a] # "none" /\ a \notin answered
  /\ answered' = answered \cup {a}
  /\ IF a \in sessions
     THEN AnswerApplies(a, session[a].client) /\ UNCHANGED <<pending, evicted>>
     ELSE /\ UNCHANGED <<session, establish>>
          /\ \E lost \in SUBSET pending :
               /\ MakesRoom(lost)
               /\ pending' = (pending \ lost) \cup {a}
               /\ evicted' = evicted \cup lost
  /\ UNCHANGED <<sessions, socket, path, todo, attempt, starting, cooldown,
                 netVars, closer>>

(* The goroutine compares the epoch, then drops the session or notes the     *)
(* failure, and takes its own entry out of starting.                         *)
CheckEpoch(a) ==
  /\ attempt[a].at \in {"returned", "failed"}
  /\ At(a, CASE attempt[a].epoch # epoch /\ attempt[a].at = "returned" -> "dropping"
             [] attempt[a].epoch = epoch /\ attempt[a].at = "failed" -> "recording"
             [] OTHER -> "clearing")
  /\ UNCHANGED <<sessions, sessionVars, establish, todo, mapVars,
                 netVars, closer>>

DropOld(a) ==
  /\ attempt[a].at = "dropping"
  /\ Drop({a})
  /\ At(a, "clearing")
  /\ UNCHANGED <<sessionVars, establish, mapVars, netVars, closer>>

NoteFailure(a) ==
  /\ attempt[a].at = "recording"
  /\ Noted(attempt[a].exit)
  /\ At(a, "clearing")
  /\ UNCHANGED <<sessions, sessionVars, establish, todo, starting, pending,
                 evicted, answered, netVars, closer>>

ClearStarting(a) ==
  /\ attempt[a].at = "clearing"
  /\ starting' = [e \in Exits |-> IF starting[e] = a THEN None ELSE starting[e]]
  /\ At(a, "ended")
  /\ UNCHANGED <<sessions, sessionVars, establish, todo, cooldown, pending,
                 evicted, answered, netVars, closer>>

(* The time of a cooldown is over, or a candidate update or ObserveExits     *)
(* lifts it.  It matters as long as the bound allows another attempt.        *)
CooldownEnds(e) ==
  /\ MayHappen
  /\ cooldown[e] # None
  /\ cooldown' = [cooldown EXCEPT ![e] = None]
  /\ UNCHANGED <<sessions, sessionVars, establish, todo, attempt, starting,
                 pending, evicted, answered, netVars, closer>>

-----------------------------------------------------------------------------
(* handleOffer and Session.establish *)

OfferArrives(o) ==
  /\ MayHappen
  /\ establish[o] = "none"
  /\ ~Closed
  /\ \/ Move(o, "offered") /\ Opens(o)
     \/ Move(o, "over") /\ UNCHANGED socket
  /\ UNCHANGED <<sessions, session, path, todo, attempt, mapVars,
                 netVars, closer>>

OfferRegisters(o) ==
  /\ establish[o] = "offered"
  /\ IF Closed THEN NotRegistered(o) /\ Move(o, "over")
               ELSE Registers(o) /\ Move(o, "registered")
  /\ UNCHANGED <<session, path, todo, attempt, mapVars, netVars, closer>>

(* The peer's description is stored and the state set, whatever it is.       *)
OfferAccepted(o) ==
  /\ establish[o] = "registered"
  /\ session' = [session EXCEPT ![o].answer = TRUE, ![o].state = "rendezvous"]
  /\ Move(o, "answering")
  /\ UNCHANGED <<sessions, socket, path, todo, attempt, mapVars, netVars,
                 closer>>

OfferAnswered(o) ==
  /\ establish[o] = "answering"
  /\ Move(o, IF session[o].endpoint THEN "spawned" ELSE "over")
  /\ UNCHANGED <<sessions, sessionVars, todo, attempt, mapVars, netVars,
                 closer>>

(* The policy is not valid or the answer did not reach the coordinator.      *)
OfferFails(o) ==
  /\ establish[o] = "answering"
  /\ Drop({o})
  /\ Move(o, "over")
  /\ UNCHANGED <<sessionVars, attempt, mapVars, netVars, closer>>

Establish(s) ==
  /\ establish[s] = "spawned"
  /\ IF \/ session[s].state = "closed"
        \/ session[s].direct \/ ~session[s].endpoint
     THEN Move(s, "over") /\ UNCHANGED session
     ELSE /\ Move(s, "punching")
          /\ session' = [session EXCEPT ![s].state = "punching"]
  /\ UNCHANGED <<sessions, socket, path, todo, attempt, mapVars, netVars,
                 closer>>

(* The punch went through: the state is set whatever became of the session   *)
(* in the meantime.                                                          *)
Punched(s) ==
  /\ establish[s] = "punching"
  /\ ~Closed
  /\ session' = [session EXCEPT ![s].state = "handshake"]
  /\ Move(s, "dialing")
  /\ UNCHANGED <<sessions, socket, path, todo, attempt, mapVars, netVars,
                 closer>>

Dialed(s) ==
  /\ establish[s] = "dialing"
  /\ ~Closed
  /\ path' = [path EXCEPT ![s] = TRUE]
  /\ Move(s, "dialed")
  /\ UNCHANGED <<sessions, session, socket, todo, attempt, mapVars,
                 netVars, closer>>

(* The punch or the handshake failed: failDirect.                            *)
EstablishFails(s) ==
  /\ establish[s] \in {"punching", "dialing"}
  /\ Fails(s)
  /\ Owe(Aftermath(s))
  /\ Move(s, "over")
  /\ UNCHANGED <<sessions, attempt, mapVars, netVars, closer>>

(* A session that was closed in the meantime gives the path up.              *)
Adopt(s) ==
  /\ establish[s] = "dialed"
  /\ IF session[s].state = "closed"
     THEN /\ session' = session
          /\ path' = [path EXCEPT ![s] = FALSE]
          /\ Move(s, "over")
     ELSE /\ session' = [session EXCEPT
               ![s].direct = TRUE, ![s].client = (s \in Attempts),
               ![s].state = "ready"]
          /\ path' = path
          /\ Move(s, IF s \in Attempts THEN "resetting" ELSE "queueing")
  /\ UNCHANGED <<sessions, socket, todo, attempt, mapVars, netVars,
                 closer>>

ResetFailure(s) ==
  /\ establish[s] = "resetting"
  /\ cooldown' = [cooldown EXCEPT ![attempt[s].exit] = None]
  /\ Move(s, "queueing")
  /\ UNCHANGED <<sessions, sessionVars, todo, attempt, starting, pending,
                 evicted, answered, netVars, closer>>

(* enqueueReady: the ready channel has room,                                 *)
Enqueue(s) ==
  /\ establish[s] = "queueing"
  /\ Move(s, "watching")
  /\ UNCHANGED <<sessions, sessionVars, todo, attempt, mapVars, netVars, closer>>

(* or it is full.                                                            *)
QueueFull(s) ==
  /\ establish[s] = "queueing"
  /\ Move(s, "over")
  /\ IF session[s].direct /\ session[s].state # "closed"
     THEN /\ session' = [session EXCEPT ![s].state = "degraded"]
          /\ Owe({<<"remove", s>>})
          /\ path' = path
     ELSE /\ path' = [path EXCEPT ![s] = FALSE]
          /\ UNCHANGED <<session, todo>>
  /\ UNCHANGED <<sessions, socket, attempt, mapVars, netVars, closer>>

(* watchDirect ends with the session or the manager,                         *)
WatchEnds(s) ==
  /\ establish[s] = "watching"
  /\ session[s].closed \/ Closed
  /\ Move(s, "over")
  /\ UNCHANGED <<sessions, sessionVars, todo, attempt, mapVars, netVars,
                 closer>>

(* or with the path.                                                         *)
PathLost(s) ==
  /\ establish[s] = "watching"
  /\ ~path[s]
  /\ Move(s, "over")
  /\ IF session[s].direct /\ session[s].state # "closed"
     THEN Fails(s) /\ Owe(Aftermath(s))
     ELSE UNCHANGED <<sessionVars, todo>>
  /\ UNCHANGED <<sessions, attempt, mapVars, netVars, closer>>

-----------------------------------------------------------------------------
(* Networks, and Close *)

NetworkMoves ==
  /\ MayHappen
  /\ network < MaxNetworks
  /\ network' = network + 1
  /\ UNCHANGED <<sessions, sessionVars, establish, todo, attempt, mapVars,
                 signature, epoch, invalidating, closer>>

(* FAULT: the timer counts attempts only.                                    *)
MaintainedByAttempts == \E e \in Exits : starting[e] # None

(* maintainWhileActive: only these keep the timer of watchNetworkLoop armed. *)
Maintained == sessions # {} \/ \E e \in Exits : starting[e] # None

(* watchNetworkLoop looks at the network.                                    *)
CheckNetwork ==
  /\ Maintained /\ ~Closed
  /\ ~invalidating
  /\ signature # network
  /\ signature' = network
  /\ invalidating' = TRUE
  /\ UNCHANGED <<sessions, sessionVars, establish, todo, attempt, mapVars,
                 network, epoch, closer>>

(* invalidateNetwork; every session is closed, which the PrewarmClient of    *)
(* the exits concerned follows.                                              *)
InvalidateNetwork ==
  /\ invalidating
  /\ invalidating' = FALSE
  /\ IF Closed THEN UNCHANGED <<sessions, todo, starting, cooldown, pending, epoch>>
     ELSE /\ epoch' = signature
          /\ Drop(sessions)
          /\ pending' = {}
          /\ cooldown' = [e \in Exits |-> None]
          /\ starting' = [e \in Exits |-> None]
  /\ UNCHANGED <<sessionVars, establish, attempt, evicted, answered, network,
                 signature, closer>>

(* Close sets the flag and cancels the context,                              *)
Close ==
  /\ MayHappen
  /\ closer = "open"
  /\ closer' = "closed"
  /\ UNCHANGED <<sessions, sessionVars, establish, todo, attempt, mapVars,
                 netVars>>

(* and then takes every session.                                             *)
CloseSessions ==
  /\ closer = "closed"
  /\ closer' = "cleared"
  /\ Drop(sessions)
  /\ pending' = {}
  /\ UNCHANGED <<sessionVars, establish, attempt, starting, cooldown, evicted,
                 answered, netVars>>

Running(s) ==
  \/ FailDirect(s) \/ RecordFailure(s)
  \/ RemoveFailed(s) \/ CloseDropped(s) \/ OfferRegisters(s) \/ OfferAccepted(s)
  \/ OfferAnswered(s) \/ OfferFails(s) \/ Establish(s) \/ Punched(s)
  \/ Dialed(s) \/ EstablishFails(s) \/ Adopt(s) \/ ResetFailure(s)
  \/ Enqueue(s) \/ QueueFull(s) \/ WatchEnds(s) \/ PathLost(s)

Attempted(a) ==
  \/ PruneExit(a) \/ PrepareLocal(a) \/ ConnectGranted(a) \/ ConnectFails(a)
  \/ ConsumePending(a) \/ CheckEpoch(a) \/ DropOld(a)
  \/ NoteFailure(a) \/ ClearStarting(a)

Next ==
  \/ \E s \in Sessions :
       \/ Running(s) \/ PathEnds(s) \/ Remove(s) \/ Expire(s)
  \/ \E S \in SUBSET Sessions : Reap(S)
  \/ \E a \in Attempts : Attempted(a) \/ AnswerArrives(a)
  \/ \E o \in Offers : OfferArrives(o)
  \/ \E e \in Exits : EnsureClient(e) \/ FailReadyForExit(e)
                      \/ CooldownEnds(e)
  \/ NetworkMoves \/ CheckNetwork \/ InvalidateNetwork \/ Close \/ CloseSessions

Spec == Init /\ [][Next]_vars

(* What the program does by itself once it has been started.                 *)
Program ==
  \/ \E s \in Sessions : Running(s) \/ Expire(s)
  \/ \E a \in Attempts : Attempted(a)
  \/ CheckNetwork \/ InvalidateNetwork \/ CloseSessions

(* Fairness: it does not stand still; requests and handshakes end by their   *)
(* timeouts, and the timers of expireUnanswered and watchNetworkLoop fire.   *)
(* Nothing is assumed of the coordinator, the peer, the users and the idle   *)
(* timer, nor in which order goroutines run.                                 *)
Fairness == WF_vars(Program)

FairSpec == Spec /\ Fairness

-----------------------------------------------------------------------------
(* Properties *)

(* An open socket has an owner that will close it: the attempt or offer that *)
(* has not handed it over yet, a session in the map, or a goroutine that is  *)
(* about to close a session that left the map (StartClient's error paths,    *)
(* newSessionWithEndpoint after Close, failDirect, closeLocal).              *)
NothingLeaks ==
  \A s \in Sessions : socket[s] = "open" =>
    \/ s \in Attempts /\ attempt[s].at = "asking"
    \/ establish[s] = "offered"
    \/ (s \in sessions \/ Owed("close", s)) /\ session[s].endpoint

(* Two attempts for one Exit on one network never both end in a usable path: *)
(* starting and the look at the sessions in EnsureClient see to it.  A path  *)
(* that a goroutine is about to remove does not count.                       *)
OnePathPerExit ==
  \A a, b \in ReadyClients :
    /\ a # b /\ attempt[a].exit = attempt[b].exit
    /\ attempt[a].epoch = epoch /\ attempt[b].epoch = epoch
    => {"record", "remove"} \X {a, b} \cap todo # {}

(* The Exit's answer may overtake the reply to connect_request; whichever    *)
(* comes first, a session that StartClient returned has it - unless the      *)
(* table of early answers had no room for it (128 answers of attempts that   *)
(* failed on this network, or that arrive together).                         *)
AnswerIsNotLost ==
  \A a \in (sessions \cap answered) \ evicted :
    /\ attempt[a].at \in {"returned", "clearing", "ended"}
    /\ attempt[a].epoch = epoch /\ closer # "cleared"
    => session[a].answer

(* A Client's session made on a network the device has left is noticed and   *)
(* closed, since a session keeps the timer of watchNetworkLoop armed.        *)
OldNetworkLeaves ==
  (\E a \in sessions \cap Attempts : attempt[a].epoch # network)
    ~> (\A a \in sessions \cap Attempts : attempt[a].epoch = network)
=============================================================================
