---------------------------- MODULE TunnelManager ----------------------------
(*****************************************************************************)
(* The client's tunnel manager (internal/tunnel): Connect and its race of    *)
(* QUIC against TLS, the reconnect loop with the QUIC recovery it runs over  *)
(* a TLS session, MarkSessionLost, NetworkChanged and Close, in mode auto.   *)
(*                                                                           *)
(* Goroutines: the reconnect loop, the Callers of Connect, the goroutines    *)
(* that serve an announced session and report its loss, the platform's       *)
(* network callbacks (one executor thread, so one at a time), and the caller *)
(* of Close.  TunnelManager.mu is held within one step.  connectMu is held   *)
(* across several; stateEvents too, but only by a promotion.  A call of the  *)
(* listener belongs to the step that changes the state, although it comes    *)
(* after mu is unlocked: stateEvents keeps the calls in the order of the     *)
(* changes, and AgentSession has the call as a step of its own.              *)
(*****************************************************************************)
EXTENDS FiniteSets, Naturals

CONSTANTS
  Quic, Tls,   \* transport sessions a QUIC dial and a TLS dial can return
  Callers,     \* goroutines that call Connect next to the reconnect loop
  Loop,        \* the reconnect loop, as the holder of connectMu
  Nobody,      \* no session, no lock holder
  MaxChanges   \* bound: calls of NetworkChanged

Sessions == Quic \cup Tls

ASSUME TunnelAssumption ==
  /\ MaxChanges \in Nat
  /\ Quic \cap Tls = {}
  /\ Nobody \notin Sessions \cup Callers \cup {Loop}
  /\ Loop \notin Callers

VARIABLES
  state, session, heard,  \* see TunnelEvents
  available,   \* networkAvailable
  changes,     \* metrics.NetworkChanges, the generation of the network path
  wake,        \* networkWake holds a token
  notify,      \* notifyChan holds a token
  live,        \* sessions whose transport is open
  path,        \* the generation the active session was dialled under
  serving,     \* sessions whose goroutine has not reported their loss yet
  connectMu,   \* holder of connectMu
  attempt,     \* the Connect in progress
  race,        \* race[t]: the dial of that attempt over transport t
  late,        \* sessions of lost races, to be closed
  caller,      \* caller[p]: "idle", "calling", "returned"
  loop,        \* where reconnectLoop stands
  watched,     \* the session waitConnected watches
  retry,       \* its QUIC retry
  changer,     \* the NetworkChanged in progress
  closing      \* where Close stands

ev       == INSTANCE TunnelEvents
regVars  == <<state, session, path, heard, notify>>
tunVars  == <<regVars, live, serving>>
netVars  == <<available, changes, wake>>
dialVars == <<attempt, race, late>>
lockVars == <<connectMu, dialVars, caller>>
loopVars == <<loop, watched, retry>>
endVars  == <<changer, closing>>
vars == <<tunVars, netVars, lockVars, loopVars, endVars>>

Transports == {"quic", "tls"}
Dialled(t) == IF t = "quic" THEN Quic ELSE Tls
NoAttempt  == [step |-> "none", path |-> 0, canceled |-> FALSE, result |-> Nobody]
NoRace     == [t \in Transports |-> "idle"]
NoRetry    == [step |-> "none", path |-> 0, result |-> Nobody]
NoChange   == [step |-> "idle", cancel |-> FALSE, lost |-> Nobody]

Init ==
  /\ state = "DISCONNECTED" /\ session = Nobody
  /\ heard = <<"DISCONNECTED", Nobody>>
  /\ available = TRUE /\ changes = 0 /\ wake = FALSE /\ notify = FALSE
  /\ live = {} /\ serving = {} /\ late = {}
  /\ path = 0
  /\ connectMu = Nobody /\ attempt = NoAttempt /\ race = NoRace
  /\ caller = [p \in Callers |-> "idle"]
  /\ loop = "unstarted" /\ watched = Nobody /\ retry = NoRetry
  /\ changer = NoChange
  /\ closing = "open"

-----------------------------------------------------------------------------
(* Shared operations.                                                       *)

\* The manager's context is canceled, and with it every context below it.
Stopping == closing # "open"

\* stateEvents is free.
Quiet == loop # "promoting"

\* A dial returns a session nobody refers to yet.
Referenced == {session, attempt.result, watched, retry.result, changer.lost}
                \cup live \cup serving \cup late
Unused == Sessions \ Referenced

\* setState; it closes the session if the manager is closed.
SetState(new, s, dialledUnder) ==
  IF state = "CLOSED"
  THEN /\ live' = live \ {s}
       /\ UNCHANGED <<regVars, serving>>
  ELSE /\ state' = new
       /\ session' = s
       /\ path' = dialledUnder
       /\ heard' = IF state = new THEN heard ELSE <<new, s>>
       /\ serving' = IF state # new /\ new = "CONNECTED" THEN serving \cup {s}
                                                         ELSE serving
       /\ notify' = (notify \/ new = "DISCONNECTED")
       /\ UNCHANGED live

\* MarkSessionLost.
Lost(s, served) ==
  IF session # s \/ s = Nobody
  THEN /\ serving' = served
       /\ UNCHANGED <<regVars, live>>
  ELSE /\ state' = "DISCONNECTED"
       /\ session' = Nobody
       /\ path' = 0
       /\ heard' = IF state = "DISCONNECTED" THEN heard
                                             ELSE <<"DISCONNECTED", Nobody>>
       /\ notify' = TRUE
       /\ live' = live \ {s}
       /\ serving' = served

\* FAULT: a session that never became active is forgotten.
Forget(s) == UNCHANGED live

\* A session that never became active is closed.
Discard(s) == live' = live \ {s}

-----------------------------------------------------------------------------
(* Connect.                                                                 *)

Calls(p) == IF p = Loop THEN loop = "connect" ELSE caller[p] = "idle"

\* p goes on after Connect has returned.
Returns(p) ==
  IF p = Loop THEN /\ loop' = "top" /\ UNCHANGED caller
              ELSE /\ caller' = [caller EXCEPT ![p] = "returned"]
                   /\ UNCHANGED loop

\* The end of Connect: the deferred functions, then p goes on.  The cancel
\* function a NetworkChanged copied has no effect from now on.
Release ==
  /\ connectMu' = Nobody
  /\ attempt' = NoAttempt
  /\ race' = NoRace
  /\ changer' = [changer EXCEPT !.cancel = FALSE]
  /\ Returns(connectMu)

\* Connect returns at once: the manager stops, or a session is up.
ConnectNotNeeded(p) ==
  /\ Calls(p)
  /\ connectMu = Nobody
  /\ Stopping \/ state = "CLOSED" \/ session \in live
  /\ Returns(p)
  /\ UNCHANGED <<tunVars, netVars, dialVars, endVars, connectMu, watched, retry>>

\* connectMu is taken; a dead session is given up.
ConnectEnters(p) ==
  /\ Calls(p)
  /\ connectMu = Nobody
  /\ ~Stopping /\ state # "CLOSED" /\ session \notin live
  /\ connectMu' = p
  /\ attempt' = [NoAttempt EXCEPT !.step = "entered"]
  /\ IF p = Loop THEN UNCHANGED caller
                 ELSE caller' = [caller EXCEPT ![p] = "calling"]
  /\ Lost(session, serving)
  /\ UNCHANGED <<netVars, loopVars, endVars, race, late>>

ConnectOffline ==
  /\ attempt.step = "entered"
  /\ ~available
  /\ Release
  /\ UNCHANGED <<tunVars, netVars, late, watched, retry, closing>>

\* connectCancel is published, the state becomes CONNECTING and QUIC is dialled.
ConnectDials ==
  /\ attempt.step = "entered"
  /\ available
  /\ attempt' = [attempt EXCEPT !.step = "dialing", !.path = changes]
  /\ race' = [race EXCEPT !["quic"] = "pending"]
  /\ SetState("CONNECTING", Nobody, 0)
  /\ UNCHANGED <<netVars, loopVars, endVars, connectMu, late, caller>>

\* dialAuto: QUIC's head start is over.
HeadStartEnds ==
  /\ attempt.step = "dialing"
  /\ race["tls"] = "idle"
  /\ race' = [race EXCEPT !["tls"] = "pending"]
  /\ UNCHANGED <<tunVars, netVars, loopVars, endVars, connectMu, attempt, late, caller>>

\* A dial fails; TLS is started when QUIC fails first, and the attempt is over
\* when no dial is left.
DialFails(t) ==
  /\ attempt.step = "dialing"
  /\ race[t] = "pending"
  /\ race' = [u \in Transports |->
                IF u = t THEN "failed"
                ELSE IF race[u] = "idle" THEN "pending" ELSE race[u]]
  /\ attempt' = IF \E u \in Transports : race'[u] = "pending"
                THEN attempt ELSE [attempt EXCEPT !.step = "failed"]
  /\ UNCHANGED <<tunVars, netVars, loopVars, endVars, connectMu, late, caller>>

\* Sessions the dials in ts may still deliver after the race is decided.
LateResults(free, ts) ==
  {l \in SUBSET (free \cap UNION {Dialled(t) : t \in ts}) :
     \A t \in ts : Cardinality(l \cap Dialled(t)) <= 1}

\* The first dial to succeed wins; closeLateTransportResults awaits the other.
DialWins(t, s) ==
  LET others == {u \in Transports \ {t} : race[u] = "pending"}
  IN  /\ attempt.step = "dialing"
      /\ race[t] = "pending"
      /\ s \in Unused \cap Dialled(t)
      /\ \E more \in LateResults(Unused \ {s}, others) :
           /\ live' = live \cup {s} \cup more
           /\ late' = late \cup more
      /\ attempt' = [attempt EXCEPT !.step = "dialed", !.result = s]
      /\ race' = NoRace
      /\ UNCHANGED <<regVars, netVars, loopVars, endVars, serving, connectMu, caller>>

\* The attempt's context ends: canceled, or its timeout.
DialEnds ==
  LET pending == {u \in Transports : race[u] = "pending"}
  IN  /\ attempt.step = "dialing"
      /\ \E more \in LateResults(Unused, pending) :
           /\ live' = live \cup more
           /\ late' = late \cup more
      /\ attempt' = [attempt EXCEPT !.step = "failed"]
      /\ race' = NoRace
      /\ UNCHANGED <<regVars, netVars, loopVars, endVars, serving, connectMu, caller>>

LateCloses(s) ==
  /\ s \in late
  /\ late' = late \ {s}
  /\ live' = live \ {s}
  /\ UNCHANGED <<regVars, netVars, loopVars, endVars, serving>>
  /\ UNCHANGED <<connectMu, attempt, race, caller>>

ConnectFails ==
  /\ attempt.step = "failed"
  /\ SetState("DISCONNECTED", Nobody, 0)
  /\ Release
  /\ UNCHANGED <<netVars, late, watched, retry, closing>>

\* ctx.Err() is read after a successful dial.
ConnectChecks ==
  /\ attempt.step = "dialed"
  /\ IF attempt.canceled \/ Stopping
     THEN /\ Discard(attempt.result)
          /\ attempt' = [attempt EXCEPT !.step = "failed", !.result = Nobody]
     ELSE /\ attempt' = [attempt EXCEPT !.step = "checked"]
          /\ UNCHANGED live
  /\ UNCHANGED <<regVars, netVars, loopVars, endVars, serving>>
  /\ UNCHANGED <<connectMu, race, late, caller>>

ConnectInstalls ==
  /\ attempt.step = "checked"
  /\ SetState("CONNECTED", attempt.result, attempt.path)
  /\ Release
  /\ UNCHANGED <<netVars, late, watched, retry, closing>>

-----------------------------------------------------------------------------
(* reconnectLoop and waitConnected.                                         *)

StartAutoReconnect ==
  /\ loop = "unstarted"
  /\ loop' = IF state = "CLOSED" THEN "done" ELSE "top"
  /\ UNCHANGED <<tunVars, netVars, lockVars, endVars, watched, retry>>

\* FAULT: the loop does not look at its context before it starts over.
LoopReadsOn ==
  /\ loop = "top"
  /\ loop' = IF session # Nobody THEN "waiting" ELSE "sessionless"
  /\ watched' = session
  /\ retry' = NoRetry
  /\ UNCHANGED <<tunVars, netVars, lockVars, endVars>>

\* The loop reads the session; what it does next may find another one.
LoopReads ==
  /\ loop = "top"
  /\ loop' = IF Stopping THEN "done"
             ELSE IF session # Nobody THEN "waiting" ELSE "sessionless"
  /\ watched' = IF loop' = "waiting" THEN session ELSE Nobody
  /\ retry' = NoRetry
  /\ UNCHANGED <<tunVars, netVars, lockVars, endVars>>

LoopGoesOffline ==
  /\ loop = "sessionless"
  /\ ~available
  /\ loop' = "offline"
  /\ UNCHANGED <<tunVars, netVars, lockVars, endVars, watched, retry>>

LoopReconnects ==
  /\ loop = "sessionless"
  /\ available
  /\ SetState("RECONNECTING", Nobody, 0)
  /\ loop' = "backoff"
  /\ UNCHANGED <<netVars, lockVars, endVars, watched, retry>>

\* Offline, the loop waits for a token of networkWake and for nothing else.
LoopWakes ==
  /\ loop = "offline"
  /\ wake
  /\ wake' = FALSE
  /\ loop' = "top"
  /\ UNCHANGED <<tunVars, lockVars, endVars, available, changes, watched, retry>>

\* The backoff timer fires, or a token of networkWake shortens the wait.
BackoffEnds(woken) ==
  /\ loop = "backoff"
  /\ woken => wake
  /\ wake' = (wake /\ ~woken)
  /\ loop' = "connect"
  /\ UNCHANGED <<tunVars, lockVars, endVars, available, changes, watched, retry>>

LoopStops ==
  /\ loop \in {"offline", "backoff"}
  /\ Stopping
  /\ loop' = "done"
  /\ UNCHANGED <<tunVars, netVars, lockVars, endVars, watched, retry>>

\* waitConnected ends; its deferred function joins a retry in flight.
WaitReturns ==
  /\ loop' = IF retry.step = "none" THEN "top" ELSE "joining"
  /\ watched' = Nobody

WaitStops ==
  /\ loop = "waiting"
  /\ Stopping
  /\ WaitReturns
  /\ UNCHANGED <<tunVars, netVars, lockVars, endVars, retry>>

WaitSeesLoss ==
  /\ loop = "waiting"
  /\ watched \notin live
  /\ Lost(watched, serving)
  /\ WaitReturns
  /\ UNCHANGED <<netVars, lockVars, endVars, retry>>

WaitNotified ==
  /\ loop = "waiting"
  /\ notify
  /\ notify' = FALSE
  /\ WaitReturns
  /\ UNCHANGED <<netVars, lockVars, endVars, retry>>
  /\ UNCHANGED <<state, session, path, heard, live, serving>>

\* Over TLS the retry timer starts one QUIC dial, under the generation it reads.
RetryStarts ==
  /\ loop = "waiting"
  /\ retry.step = "none"
  /\ watched \in Tls
  /\ retry' = [NoRetry EXCEPT !.step = "dialing", !.path = changes]
  /\ UNCHANGED <<tunVars, netVars, lockVars, endVars, loop, watched>>

RetryFails ==
  /\ loop = "waiting"
  /\ retry.step = "dialing"
  /\ retry' = NoRetry
  /\ UNCHANGED <<tunVars, netVars, lockVars, endVars, loop, watched>>

RetrySucceeds(s) ==
  /\ loop \in {"waiting", "joining"}
  /\ retry.step = "dialing"
  /\ s \in Unused \cap Quic
  /\ live' = live \cup {s}
  /\ retry' = [retry EXCEPT !.step = "ready", !.result = s]
  /\ UNCHANGED <<regVars, netVars, lockVars, endVars, serving, loop, watched>>

\* The retry's result has come, if only an error; a late session is closed.
RetryJoined ==
  /\ loop = "joining"
  /\ Discard(retry.result)
  /\ retry' = NoRetry
  /\ loop' = "top"
  /\ UNCHANGED <<regVars, netVars, lockVars, endVars, serving, watched>>

\* promoteQUIC refuses the candidate: it is closed and the TLS session stays.
PromoteRefused ==
  /\ loop = "waiting" /\ retry.step = "ready"
  /\ connectMu = Nobody
  /\ \/ Stopping \/ state # "CONNECTED" \/ session # watched \/ ~available
     \/ changes # retry.path \/ watched \notin live \/ retry.result \notin live
  /\ Discard(retry.result)
  /\ loop' = "top" /\ watched' = Nobody /\ retry' = NoRetry
  /\ UNCHANGED <<regVars, netVars, lockVars, endVars, serving>>

PromoteLocks == connectMu' = Loop

\* The TLS session is given up, announced and closed; both locks stay taken.
PromoteBegins ==
  /\ loop = "waiting" /\ retry.step = "ready"
  /\ connectMu = Nobody
  /\ ~Stopping /\ state = "CONNECTED" /\ session = watched /\ available
  /\ changes = retry.path /\ watched \in live /\ retry.result \in live
  /\ state' = "RECONNECTING" /\ session' = Nobody /\ path' = 0
  /\ heard' = <<"RECONNECTING", Nobody>>
  /\ live' = live \ {watched}
  /\ loop' = "promoting" /\ watched' = Nobody
  /\ PromoteLocks
  /\ UNCHANGED <<netVars, dialVars, endVars, notify, serving, caller, retry>>

\* FAULT: only the network is checked again.
PromotableOnline == available /\ changes = retry.path /\ retry.result \in live

\* The state is checked again after the listener ran.
Promotable ==
  /\ ~Stopping /\ state # "CLOSED" /\ available
  /\ changes = retry.path /\ retry.result \in live

PromoteEnds ==
  /\ loop = "promoting"
  /\ IF Promotable
     THEN /\ state' = "CONNECTED" /\ session' = retry.result
          /\ path' = retry.path
          /\ heard' = <<"CONNECTED", retry.result>>
          /\ serving' = serving \cup {retry.result}
          /\ UNCHANGED live
     ELSE /\ Discard(retry.result)
          /\ UNCHANGED <<state, session, path, heard, serving>>
  /\ loop' = "top" /\ retry' = NoRetry
  /\ connectMu' = Nobody
  /\ UNCHANGED <<netVars, dialVars, endVars, notify, caller, watched>>

-----------------------------------------------------------------------------
(* Loss of a session, change of the network, Close.                         *)

\* The remote end, the network or the application ends the transport.
SessionDies(s) ==
  /\ s \in live
  /\ live' = live \ {s}
  /\ UNCHANGED <<regVars, netVars, lockVars, loopVars, endVars, serving>>

\* The goroutine the listener started for s ends: MarkSessionLost(s).
ServeEnds(s) ==
  /\ s \in serving \ live
  /\ Quiet
  /\ Lost(s, serving \ {s})
  /\ UNCHANGED <<netVars, lockVars, loopVars, endVars>>

\* FAULT: only going offline cancels a connection attempt.
CancelsOffline(up) == ~up /\ attempt.step \notin {"none", "entered"}

\* connectCancel is set.
Cancels(up) == attempt.step \notin {"none", "entered"}

\* NetworkChanged, under mu: it copies the cancel function and the session.
NetworkChanges(up) ==
  /\ changer.step = "idle"
  /\ state # "CLOSED"
  /\ changes < MaxChanges
  /\ available' = up
  /\ changes' = changes + 1
  /\ changer' = [step |-> "changed", lost |-> session,
                 cancel |-> Cancels(up)]
  /\ UNCHANGED <<tunVars, lockVars, loopVars, wake, closing>>

\* FAULT: the loop is not woken.
WakesNobody == UNCHANGED wake

WakesLoop == wake' = TRUE

\* After the unlock: cancel the attempt, drop the session, wake the loop.
NetworkApplied ==
  /\ changer.step = "changed"
  /\ changer.lost # Nobody => Quiet
  /\ attempt' = [attempt EXCEPT !.canceled = @ \/ changer.cancel]
  /\ Lost(changer.lost, serving)
  /\ WakesLoop
  /\ changer' = NoChange
  /\ UNCHANGED <<loopVars, available, changes, connectMu, race, late, caller, closing>>

CloseCancels ==
  /\ closing = "open"
  /\ closing' = "canceled"
  /\ UNCHANGED <<tunVars, netVars, lockVars, loopVars, changer>>

CloseMarks ==
  /\ closing = "canceled"
  /\ state' = "CLOSED" /\ session' = Nobody /\ path' = 0
  /\ live' = live \ {session}
  /\ closing' = "marked"
  /\ UNCHANGED <<netVars, lockVars, loopVars, heard, notify, serving, changer>>

\* An attempt in progress is awaited through connectMu.
CloseJoins ==
  /\ closing = "marked"
  /\ connectMu = Nobody
  /\ closing' = "joined"
  /\ UNCHANGED <<tunVars, netVars, lockVars, loopVars, changer>>

CloseReturns ==
  /\ closing = "joined"
  /\ loop \in {"unstarted", "done"}
  /\ closing' = "returned"
  /\ UNCHANGED <<tunVars, netVars, lockVars, loopVars, changer>>

\* Everything has ended.
Ended ==
  /\ closing = "returned" /\ loop = "done" /\ live = {} /\ serving = {}
  /\ changer.step = "idle" /\ \A p \in Callers : caller[p] = "returned"
  /\ UNCHANGED vars

ConnectStep ==
  \/ ConnectOffline \/ ConnectDials \/ ConnectFails \/ ConnectChecks
  \/ ConnectInstalls

LoopStep ==
  \/ LoopReads \/ LoopGoesOffline \/ LoopReconnects \/ LoopWakes
  \/ BackoffEnds(FALSE) \/ LoopStops \/ WaitStops \/ WaitSeesLoss
  \/ WaitNotified \/ RetryJoined \/ PromoteRefused \/ PromoteBegins
  \/ PromoteEnds

CloseStep == CloseMarks \/ CloseJoins \/ CloseReturns

Next ==
  \/ \E p \in Callers \cup {Loop} : ConnectNotNeeded(p) \/ ConnectEnters(p)
  \/ ConnectStep \/ HeadStartEnds \/ DialEnds
  \/ \E t \in Transports : DialFails(t)
  \/ \E t \in Transports, s \in Sessions : DialWins(t, s)
  \/ \E s \in Sessions : LateCloses(s)
  \/ StartAutoReconnect \/ LoopStep \/ BackoffEnds(TRUE)
  \/ RetryStarts \/ RetryFails \/ (\E s \in Sessions : RetrySucceeds(s))
  \/ \E s \in Sessions : SessionDies(s) \/ ServeEnds(s)
  \/ \E up \in BOOLEAN : NetworkChanges(up)
  \/ NetworkApplied
  \/ CloseCancels \/ CloseStep
  \/ Ended

Spec == Init /\ [][Next]_vars

\* The application or the Server ends a session the manager has given up.
GivenUpDies(s) == s \in serving \ {session} /\ SessionDies(s)

\* Every goroutine takes its next step.  A dial ends by its timeout, and when
\* attempt follows attempt one of them succeeds in the end.
FairSpec ==
  /\ Spec
  /\ \A p \in Callers \cup {Loop} :
       WF_vars(Calls(p) /\ (ConnectNotNeeded(p) \/ ConnectEnters(p)))
  /\ WF_vars(ConnectStep) /\ WF_vars(DialEnds)
  /\ SF_vars(\E t \in Transports, s \in Sessions : DialWins(t, s))
  /\ WF_vars(LoopStep)
  /\ WF_vars(NetworkApplied)
  /\ WF_vars(CloseStep)
  /\ \A s \in Sessions :
       WF_vars(LateCloses(s)) /\ SF_vars(ServeEnds(s)) /\ WF_vars(GivenUpDies(s))

-----------------------------------------------------------------------------
(* Properties.                                                              *)

Attempts == [step: {"none", "entered", "dialing", "dialed", "checked", "failed"},
             path: 0..MaxChanges, canceled: BOOLEAN, result: Sessions \cup {Nobody}]
Retries  == [step: {"none", "dialing", "ready"}, path: 0..MaxChanges,
             result: Sessions \cup {Nobody}]
Changes  == [step: {"idle", "changed"}, cancel: BOOLEAN,
             lost: Sessions \cup {Nobody}]

\* Types, and who holds connectMu: the attempt in progress or a promotion.
TypeOK ==
  /\ state \in ev!Idle \cup {"CONNECTED", "CLOSED"}
  /\ session \in Sessions \cup {Nobody}
  /\ heard \in (ev!Idle \cup {"CONNECTED"}) \X (Sessions \cup {Nobody})
  /\ available \in BOOLEAN /\ wake \in BOOLEAN /\ notify \in BOOLEAN
  /\ changes \in 0..MaxChanges
  /\ live \subseteq Sessions /\ serving \subseteq Sessions /\ late \subseteq Sessions
  /\ path \in 0..MaxChanges
  /\ attempt \in Attempts
  /\ race \in [Transports -> {"idle", "pending", "failed"}]
  /\ caller \in [Callers -> {"idle", "calling", "returned"}]
  /\ loop \in {"unstarted", "top", "sessionless", "offline", "backoff", "connect",
               "waiting", "joining", "promoting", "done"}
  /\ watched \in Sessions \cup {Nobody}
  /\ retry \in Retries /\ changer \in Changes
  /\ closing \in {"open", "canceled", "marked", "joined", "returned"}
  /\ connectMu \in Callers \cup {Loop, Nobody}
  /\ connectMu = Nobody <=> attempt.step = "none" /\ loop # "promoting"

\* Observers hear of every session that becomes active, one at a time, and a
\* closed manager is never resurrected (TestManagerCloseCancelsInFlightConnect)
\* although Connect, a promotion and MarkSessionLost may be halfway when Close
\* runs.
ImplementsTunnelEvents == ev!EventsSpec

\* A transport that is open is the active one or is in the hands of a goroutine
\* that will close it: a race that was lost, a candidate that was refused, a
\* dial that was canceled too late leave no open socket behind.
NothingLeaks ==
  live \subseteq {session, attempt.result, retry.result} \cup late \cup serving

\* Once NetworkChanged is done, a connection attempt begun on the previous path
\* is canceled, whatever it was doing when the change came.
OldAttemptsCanceled ==
  (changer.step = "idle" /\ attempt.step \notin {"none", "entered", "failed"}
     /\ attempt.path # changes) => attempt.canceled

\* An open session that stops being the active one is closed in the same step.
\* The exception is the state change of the reconnect loop: between its reading
\* of a nil session and setState another Connect may install one.
GivenUpIsClosed ==
  [][(session \in live /\ session' # session /\ session \in live')
        => LoopReconnects]_vars

\* The reconnect loop never sleeps through a change: without a session and with
\* a network, a session is installed, unless the network goes or Close comes.
Recovers ==
  (session = Nobody /\ available /\ closing = "open" /\ loop # "unstarted")
    ~> (session # Nobody \/ ~available \/ closing # "open")

\* Close returns, and no transport stays open but those of serving goroutines.
CloseCompletes ==
  closing = "canceled" ~> (closing = "returned" /\ live \subseteq serving)
=============================================================================
