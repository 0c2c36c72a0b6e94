------------------------- MODULE TunnelManager_proofs -------------------------
(*****************************************************************************)
(* Proofs about TunnelManager, for any number of sessions, callers of        *)
(* Connect and network changes.                                              *)
(*                                                                           *)
(* The inductive invariant IInv adds to type correctness what connectMu      *)
(* protects: an attempt and a promotion exclude each other, and while either *)
(* is under way there is no active session that its own could displace.      *)
(*****************************************************************************)
EXTENDS TunnelManager, TLAPS

-----------------------------------------------------------------------------
(* The inductive invariant                                                  *)

\* A session is active in the state CONNECTED and in no other.
ActiveIsConnected == state = "CONNECTED" <=> session # Nobody

\* What the holder of connectMu may rely on.
LockProtects ==
  /\ loop = "promoting" => /\ attempt.step = "none" /\ connectMu = Loop
                           /\ session = Nobody
  /\ attempt.step # "none" => session = Nobody
  /\ attempt.step # "none" /\ connectMu = Loop => loop = "connect"

\* A session in the hands of Connect or of waitConnected is there in these
\* steps and in no other.
ResultsHeld ==
  /\ attempt.step \in {"dialed", "checked"} => attempt.result \in Sessions
  /\ attempt.step \notin {"dialed", "checked"} => attempt.result = Nobody
  /\ retry.step # "ready" => retry.result = Nobody
  /\ loop \notin {"waiting", "joining", "promoting"} => retry.result = Nobody

\* The active session has a goroutine, as long as its transport is open.
ActiveIsServed == session \in live => session \in serving

\* An attempt under an older path is canceled, or about to be.
OldAttemptsEnd ==
  attempt.step \in {"dialing", "dialed", "checked"} /\ attempt.path # changes
    => attempt.canceled \/ (changer.step = "changed" /\ changer.cancel)

\* The types of the variables that setState and MarkSessionLost assign.
RegTypes ==
  /\ state \in ev!Idle \cup {"CONNECTED", "CLOSED"}
  /\ session \in Sessions \cup {Nobody}
  /\ heard \in (ev!Idle \cup {"CONNECTED"}) \X (Sessions \cup {Nobody})
  /\ notify \in BOOLEAN /\ path \in 0..MaxChanges
  /\ live \subseteq Sessions /\ serving \subseteq Sessions

IInv == /\ TypeOK /\ ActiveIsConnected /\ LockProtects /\ ResultsHeld
        /\ ActiveIsServed /\ OldAttemptsEnd /\ NothingLeaks

-----------------------------------------------------------------------------
(* Helpers                                                                  *)

\* Late results are among the sessions that were free.
LEMMA LateAreFree ==
  \A free, ts : \A l \in LateResults(free, ts) : l \subseteq free
BY DEF LateResults

\* A free session is a session, and nobody holds it.
LEMMA UnusedIsFree ==
  /\ Unused \subseteq Sessions
  /\ \A s \in Unused : s \notin {session, attempt.result, retry.result} \cup live
                                  \cup late \cup serving
BY DEF Unused, Referenced

\* The records of nothing in progress.
LEMMA EmptyRecords ==
  /\ NoAttempt \in Attempts /\ NoAttempt.step = "none" /\ NoAttempt.result = Nobody
  /\ NoRetry \in Retries /\ NoRetry.step = "none" /\ NoRetry.result = Nobody
  /\ NoChange \in Changes /\ NoChange.step = "idle" /\ NoChange.lost = Nobody
  /\ NoRace \in [Transports -> {"idle", "pending", "failed"}]
BY TunnelAssumption
   DEF NoAttempt, Attempts, NoRetry, Retries, NoChange, Changes, NoRace

\* The fields of an attempt are in their ranges.
LEMMA AttemptFields ==
  \A a \in Attempts :
     /\ a.step \in {"none", "entered", "dialing", "dialed", "checked", "failed"}
     /\ a.path \in 0..MaxChanges /\ a.canceled \in BOOLEAN
     /\ a.result \in Sessions \cup {Nobody}
BY DEF Attempts

\* An attempt that moves to another step keeps its other fields.
LEMMA AttemptMoves ==
  ASSUME NEW a \in Attempts,
         NEW st \in {"none", "entered", "dialing", "dialed", "checked", "failed"}
  PROVE  LET b == [a EXCEPT !.step = st]
         IN  /\ b \in Attempts /\ b.step = st /\ b.path = a.path
             /\ b.canceled = a.canceled /\ b.result = a.result
BY DEF Attempts

\* The invariant holds initially.
LEMMA InitInv == Init => IInv
<1> SUFFICES ASSUME Init PROVE IInv
  OBVIOUS
<1>1. TypeOK
  <2>1. heard \in (ev!Idle \cup {"CONNECTED"}) \X (Sessions \cup {Nobody})
    BY DEF ev!Idle, Init
  <2>2. attempt \in Attempts /\ retry \in Retries /\ changer \in Changes
    BY EmptyRecords DEF Init
  <2>3. race \in [Transports -> {"idle", "pending", "failed"}]
    BY EmptyRecords DEF Init
  <2>4. connectMu = Nobody <=> attempt.step = "none" /\ loop # "promoting"
    BY EmptyRecords DEF Init
  <2>5. path \in 0..MaxChanges /\ changes \in 0..MaxChanges
    BY TunnelAssumption DEF Init
  <2>6. caller \in [Callers -> {"idle", "calling", "returned"}]
    BY DEF Init
  <2> QED
    BY <2>1, <2>2, <2>3, <2>4, <2>5, <2>6 DEF TypeOK, ev!Idle, Init
<1>2. ActiveIsConnected /\ LockProtects /\ ResultsHeld
  BY EmptyRecords DEF ActiveIsConnected, LockProtects, ResultsHeld, Init
<1>3. ActiveIsServed /\ OldAttemptsEnd /\ NothingLeaks
  BY EmptyRecords DEF ActiveIsServed, OldAttemptsEnd, NothingLeaks, Init
<1> QED
  BY <1>1, <1>2, <1>3 DEF IInv

-----------------------------------------------------------------------------
(* What the shared operations do to the active session                      *)

\* setState of a state without a session: none is active afterwards, and no
\* transport is closed.
LEMMA SetStateDown ==
  ASSUME IInv, NEW new \in ev!Idle, SetState(new, Nobody, 0)
  PROVE  /\ RegTypes' /\ ActiveIsConnected' /\ session' = Nobody
         /\ live' = live /\ serving' = serving
<1>1. session \in Sessions \cup {Nobody} /\ live \subseteq Sessions
  BY DEF IInv, TypeOK
<1>2. CASE state = "CLOSED"
  <2>1. session = Nobody
    BY <1>2 DEF IInv, ActiveIsConnected
  <2>2. UNCHANGED regVars /\ live' = live \ {Nobody} /\ serving' = serving
    BY <1>2 DEF SetState
  <2>3. Nobody \notin live
    BY <1>1, TunnelAssumption
  <2>4. RegTypes
    BY DEF IInv, TypeOK, RegTypes
  <2>5. live' = live
    BY <2>2, <2>3
  <2> QED
    BY <1>2, <2>1, <2>2, <2>4, <2>5 DEF ActiveIsConnected, RegTypes, regVars
<1>3. CASE state # "CLOSED"
  <2>1. heard' \in (ev!Idle \cup {"CONNECTED"}) \X (Sessions \cup {Nobody})
    BY <1>3 DEF IInv, TypeOK, SetState, ev!Idle
  <2>2. notify' \in BOOLEAN
    BY <1>3 DEF IInv, TypeOK, SetState
  <2> QED
    BY <1>3, <2>1, <2>2, TunnelAssumption
       DEF IInv, TypeOK, ActiveIsConnected, RegTypes, SetState, ev!Idle
<1> QED
  BY <1>2, <1>3

\* setState of CONNECTED where no session is active: s becomes active and is
\* served, or the manager is closed and so is s.
LEMMA SetStateUp ==
  ASSUME IInv, session = Nobody, NEW s \in Sessions, NEW g \in 0..MaxChanges,
         SetState("CONNECTED", s, g)
  PROVE  /\ RegTypes' /\ ActiveIsConnected'
         /\ \/ session' = s /\ live' = live /\ serving' = serving \cup {s}
            \/ session' = Nobody /\ live' = live \ {s} /\ serving' = serving
<1>1. s # Nobody /\ state # "CONNECTED"
  BY TunnelAssumption DEF IInv, ActiveIsConnected
<1>2. CASE state = "CLOSED"
  BY <1>1, <1>2 DEF IInv, TypeOK, ActiveIsConnected, RegTypes, SetState, regVars, ev!Idle
<1>3. CASE state # "CLOSED"
  <2>1. heard' \in (ev!Idle \cup {"CONNECTED"}) \X (Sessions \cup {Nobody})
    BY <1>1, <1>3 DEF SetState
  <2>2. notify' = notify
    BY <1>3, Zenon DEF SetState, IInv, TypeOK
  <2> QED
    BY <1>1, <1>3, <2>1, <2>2 DEF IInv, TypeOK, ActiveIsConnected, RegTypes, SetState
<1> QED
  BY <1>2, <1>3

\* MarkSessionLost gives up and closes the session it names, or does nothing.
LEMMA LostDown ==
  ASSUME IInv, NEW s, NEW served \in SUBSET serving, Lost(s, served)
  PROVE  /\ RegTypes' /\ ActiveIsConnected' /\ serving' = served
         /\ \/ session' = session /\ live' = live
            \/ session' = Nobody /\ session = s /\ live' = live \ {s}
<1>1. CASE session # s \/ s = Nobody
  BY <1>1 DEF IInv, TypeOK, ActiveIsConnected, RegTypes, Lost, regVars
<1>2. CASE ~(session # s \/ s = Nobody)
  <2>1. heard' \in (ev!Idle \cup {"CONNECTED"}) \X (Sessions \cup {Nobody})
    BY <1>2 DEF IInv, TypeOK, Lost, ev!Idle
  <2> QED
    BY <1>2, <2>1, TunnelAssumption
       DEF IInv, TypeOK, ActiveIsConnected, RegTypes, Lost, ev!Idle
<1> QED
  BY <1>1, <1>2

\* The end of Connect frees connectMu and leaves no attempt behind; the loop is
\* where it was, or starts over without a retry.
LEMMA ReleaseEnds ==
  ASSUME IInv, attempt.step # "none", Release
  PROVE  /\ attempt' = NoAttempt /\ connectMu' = Nobody
         /\ race' \in [Transports -> {"idle", "pending", "failed"}]
         /\ caller' \in [Callers -> {"idle", "calling", "returned"}]
         /\ changer' \in Changes
         /\ loop' = loop \/ (loop' = "top" /\ retry.result = Nobody)
         /\ loop # "promoting"
<1>1. attempt' = NoAttempt /\ connectMu' = Nobody /\ race' = NoRace
  BY DEF Release
<1>2. caller' \in [Callers -> {"idle", "calling", "returned"}]
  BY DEF Release, Returns, IInv, TypeOK
<1>3. changer' \in Changes
  BY DEF Release, Changes, IInv, TypeOK
<1>4. loop' = loop \/ (loop' = "top" /\ retry.result = Nobody)
  BY DEF Release, Returns, IInv, LockProtects, ResultsHeld
<1>5. loop # "promoting"
  BY DEF IInv, LockProtects
<1> QED
  BY <1>1, <1>2, <1>3, <1>4, <1>5, EmptyRecords

-----------------------------------------------------------------------------
(* Connect                                                                  *)

\* Connect that returns at once.
LEMMA ConnectNotNeededInv ==
  ASSUME IInv, NEW p \in Callers \cup {Loop}, ConnectNotNeeded(p)
  PROVE  IInv'
<1> USE DEF ConnectNotNeeded, tunVars, regVars, netVars, dialVars, endVars
<1>1. caller' \in [Callers -> {"idle", "calling", "returned"}]
  BY DEF Returns, IInv, TypeOK
<1>2. loop' = loop \/ (loop' = "top" /\ loop = "connect")
  BY DEF Returns, Calls
<1>3. TypeOK'
  BY <1>1, <1>2 DEF IInv, TypeOK
<1>4. ActiveIsConnected' /\ ActiveIsServed' /\ OldAttemptsEnd' /\ NothingLeaks'
  BY DEF IInv, ActiveIsConnected, ActiveIsServed, OldAttemptsEnd, NothingLeaks
<1>5. LockProtects'
  BY <1>2, TunnelAssumption DEF IInv, TypeOK, LockProtects
<1>6. ResultsHeld'
  BY <1>2 DEF IInv, ResultsHeld
<1> QED
  BY <1>3, <1>4, <1>5, <1>6 DEF IInv

\* Connect takes connectMu and gives up a dead session.
LEMMA ConnectEntersInv ==
  ASSUME IInv, NEW p \in Callers \cup {Loop}, ConnectEnters(p)
  PROVE  IInv'
<1> DEFINE entered == [NoAttempt EXCEPT !.step = "entered"]
<1> USE DEF netVars, loopVars, endVars
<1>1. /\ attempt' = entered /\ entered \in Attempts /\ entered.step = "entered"
      /\ entered.result = Nobody
  BY EmptyRecords, AttemptMoves DEF ConnectEnters
<1>2. /\ RegTypes' /\ ActiveIsConnected' /\ serving' = serving
      /\ \/ session' = session /\ live' = live
         \/ session' = Nobody /\ live' = live \ {session}
  BY LostDown DEF ConnectEnters
<1>3. session' = Nobody /\ live' = live
  <2>1. session \notin live /\ Lost(session, serving)
    BY DEF ConnectEnters
  <2>2. CASE session = Nobody
    BY <2>1, <2>2 DEF Lost, regVars
  <2>3. CASE session # Nobody
    BY <2>1, <2>3 DEF Lost
  <2> QED
    BY <2>2, <2>3
<1>4. loop' = loop /\ loop # "promoting" /\ connectMu' = p /\ p # Nobody
  <2>1. loop' = loop /\ connectMu' = p /\ connectMu = Nobody
    BY DEF ConnectEnters, loopVars
  <2>2. Nobody \notin Callers \cup {Loop}
    BY TunnelAssumption
  <2>3. p # Nobody
    BY <2>2
  <2>4. LockProtects
    BY DEF IInv
  <2>5. loop # "promoting"
    BY <2>1, <2>2, <2>4 DEF LockProtects
  <2> QED
    BY <2>1, <2>3, <2>5
<1>5. TypeOK'
  <2>1. caller' \in [Callers -> {"idle", "calling", "returned"}]
    BY DEF ConnectEnters, IInv, TypeOK
  <2>2. connectMu' \in Callers \cup {Loop, Nobody}
    BY <1>4
  <2> HIDE DEF entered
  <2> QED
    BY <1>1, <1>2, <1>4, <2>1, <2>2 DEF ConnectEnters, IInv, TypeOK, RegTypes
<1>6. LockProtects'
  BY <1>1, <1>3, <1>4, TunnelAssumption DEF ConnectEnters, Calls, LockProtects
<1>7. ResultsHeld' /\ OldAttemptsEnd'
  BY <1>1, <1>4 DEF ConnectEnters, IInv, ResultsHeld, OldAttemptsEnd
<1>8. ActiveIsServed' /\ NothingLeaks'
  <2>1. attempt.result = Nobody
    BY DEF ConnectEnters, IInv, TypeOK, ResultsHeld
  <2> QED
    BY <1>1, <1>2, <1>3, <2>1, TunnelAssumption
       DEF ConnectEnters, IInv, TypeOK, ActiveIsServed, NothingLeaks
<1> QED
  BY <1>2, <1>5, <1>6, <1>7, <1>8 DEF IInv

\* Connect returns without a network.
LEMMA ConnectOfflineInv == IInv /\ ConnectOffline => IInv'
<1> SUFFICES ASSUME IInv, ConnectOffline PROVE IInv'
  OBVIOUS
<1> USE DEF ConnectOffline, tunVars, regVars, netVars
<1>1. /\ attempt' = NoAttempt /\ connectMu' = Nobody
      /\ race' \in [Transports -> {"idle", "pending", "failed"}]
      /\ caller' \in [Callers -> {"idle", "calling", "returned"}]
      /\ changer' \in Changes
      /\ loop' = loop \/ (loop' = "top" /\ retry.result = Nobody)
      /\ loop # "promoting"
  BY ReleaseEnds
<1>2. TypeOK'
  BY <1>1, EmptyRecords DEF IInv, TypeOK
<1>3. LockProtects' /\ ResultsHeld' /\ OldAttemptsEnd'
  BY <1>1, EmptyRecords DEF IInv, LockProtects, ResultsHeld, OldAttemptsEnd
<1>4. ActiveIsConnected' /\ ActiveIsServed' /\ NothingLeaks'
  BY <1>1, EmptyRecords
     DEF IInv, ResultsHeld, ActiveIsConnected, ActiveIsServed, NothingLeaks
<1> QED
  BY <1>2, <1>3, <1>4 DEF IInv

\* CONNECTING is announced and QUIC is dialled.
LEMMA ConnectDialsInv == IInv /\ ConnectDials => IInv'
<1> SUFFICES ASSUME IInv, ConnectDials PROVE IInv'
  OBVIOUS
<1> USE DEF netVars, loopVars, endVars
<1>1. /\ RegTypes' /\ ActiveIsConnected' /\ session' = Nobody
      /\ live' = live /\ serving' = serving
  BY SetStateDown DEF ConnectDials, ev!Idle
<1>2. /\ attempt' \in Attempts /\ attempt'.step = "dialing"
      /\ attempt'.path = changes /\ attempt'.result = attempt.result
  BY DEF ConnectDials, IInv, TypeOK, Attempts
<1>3. attempt.result = Nobody /\ session = Nobody /\ loop # "promoting"
  BY DEF ConnectDials, IInv, ResultsHeld, LockProtects
<1>4. TypeOK'
  <2>1. race' \in [Transports -> {"idle", "pending", "failed"}]
    BY DEF ConnectDials, IInv, TypeOK
  <2> QED
    BY <1>1, <1>2, <1>3, <2>1 DEF ConnectDials, IInv, TypeOK, RegTypes
<1>5. LockProtects' /\ ResultsHeld' /\ OldAttemptsEnd'
  BY <1>1, <1>2, <1>3
     DEF ConnectDials, IInv, LockProtects, ResultsHeld, OldAttemptsEnd
<1>6. ActiveIsServed' /\ NothingLeaks'
  BY <1>1, <1>2, <1>3, TunnelAssumption
     DEF ConnectDials, IInv, TypeOK, ActiveIsServed, NothingLeaks
<1> QED
  BY <1>1, <1>4, <1>5, <1>6 DEF IInv

\* The attempt has failed: DISCONNECTED is announced.
LEMMA ConnectFailsInv == IInv /\ ConnectFails => IInv'
<1> SUFFICES ASSUME IInv, ConnectFails PROVE IInv'
  OBVIOUS
<1> USE DEF netVars
<1>1. /\ RegTypes' /\ ActiveIsConnected' /\ session' = Nobody
      /\ live' = live /\ serving' = serving
  BY SetStateDown DEF ConnectFails, ev!Idle
<1>2. /\ attempt' = NoAttempt /\ connectMu' = Nobody
      /\ race' \in [Transports -> {"idle", "pending", "failed"}]
      /\ caller' \in [Callers -> {"idle", "calling", "returned"}]
      /\ changer' \in Changes
      /\ loop' = loop \/ (loop' = "top" /\ retry.result = Nobody)
      /\ loop # "promoting"
  BY ReleaseEnds DEF ConnectFails
<1>3. attempt.result = Nobody /\ session = Nobody
  BY DEF ConnectFails, IInv, ResultsHeld, LockProtects
<1>4. TypeOK'
  BY <1>1, <1>2, EmptyRecords DEF ConnectFails, IInv, TypeOK, RegTypes
<1>5. LockProtects' /\ ResultsHeld' /\ OldAttemptsEnd'
  BY <1>1, <1>2, EmptyRecords
     DEF ConnectFails, IInv, LockProtects, ResultsHeld, OldAttemptsEnd
<1>6. ActiveIsServed' /\ NothingLeaks'
  BY <1>1, <1>2, <1>3, TunnelAssumption
     DEF ConnectFails, IInv, TypeOK, ActiveIsServed, NothingLeaks
<1> QED
  BY <1>1, <1>4, <1>5, <1>6 DEF IInv

\* A canceled attempt closes the session it dialled.
LEMMA ConnectChecksInv == IInv /\ ConnectChecks => IInv'
<1> SUFFICES ASSUME IInv, ConnectChecks PROVE IInv'
  OBVIOUS
<1> USE DEF regVars, netVars, loopVars, endVars
<1>1. /\ attempt' \in Attempts /\ attempt'.path = attempt.path
      /\ attempt'.canceled = attempt.canceled
      /\ \/ attempt'.step = "failed" /\ attempt'.result = Nobody
            /\ live' = live \ {attempt.result}
         \/ attempt'.step = "checked" /\ attempt'.result = attempt.result
            /\ live' = live /\ ~attempt.canceled
  <2>1. attempt \in Attempts /\ attempt.canceled \in BOOLEAN
    BY DEF IInv, TypeOK, Attempts
  <2>2. CASE attempt.canceled \/ Stopping
    BY <2>1, <2>2 DEF ConnectChecks, Discard, Attempts
  <2>3. CASE ~(attempt.canceled \/ Stopping)
    BY <2>1, <2>3 DEF ConnectChecks, Attempts
  <2> QED
    BY <2>2, <2>3
<1>2. loop # "promoting" /\ attempt.step = "dialed"
  BY DEF ConnectChecks, IInv, LockProtects
<1>3. TypeOK'
  BY <1>1, <1>2 DEF ConnectChecks, IInv, TypeOK
<1>4. LockProtects' /\ ResultsHeld' /\ OldAttemptsEnd'
  BY <1>1, <1>2 DEF ConnectChecks, IInv, LockProtects, ResultsHeld, OldAttemptsEnd
<1>5. ActiveIsConnected' /\ ActiveIsServed' /\ NothingLeaks'
  BY <1>1, <1>2
     DEF ConnectChecks, IInv, ActiveIsConnected, ActiveIsServed, NothingLeaks
<1> QED
  BY <1>3, <1>4, <1>5 DEF IInv

\* The session that was dialled becomes the active one.
LEMMA ConnectInstallsInv == IInv /\ ConnectInstalls => IInv'
<1> SUFFICES ASSUME IInv, ConnectInstalls PROVE IInv'
  OBVIOUS
<1> USE DEF netVars
<1> DEFINE s == attempt.result
<1>1. session = Nobody /\ s \in Sessions /\ attempt.path \in 0..MaxChanges
  BY AttemptFields DEF ConnectInstalls, IInv, TypeOK, LockProtects, ResultsHeld
<1>2. /\ RegTypes' /\ ActiveIsConnected'
      /\ \/ session' = s /\ live' = live /\ serving' = serving \cup {s}
         \/ session' = Nobody /\ live' = live \ {s} /\ serving' = serving
  <2>1. SetState("CONNECTED", s, attempt.path)
    BY DEF ConnectInstalls
  <2> HIDE DEF s
  <2> QED
    BY <1>1, <2>1, SetStateUp
<1>3. /\ attempt' = NoAttempt /\ connectMu' = Nobody
      /\ race' \in [Transports -> {"idle", "pending", "failed"}]
      /\ caller' \in [Callers -> {"idle", "calling", "returned"}]
      /\ changer' \in Changes
      /\ loop' = loop \/ (loop' = "top" /\ retry.result = Nobody)
      /\ loop # "promoting"
  BY ReleaseEnds DEF ConnectInstalls
<1>4. TypeOK'
  BY <1>2, <1>3, EmptyRecords DEF ConnectInstalls, IInv, TypeOK, RegTypes
<1>5. LockProtects' /\ ResultsHeld' /\ OldAttemptsEnd'
  BY <1>3, EmptyRecords
     DEF ConnectInstalls, IInv, LockProtects, ResultsHeld, OldAttemptsEnd
<1>6. ActiveIsServed' /\ NothingLeaks'
  BY <1>1, <1>2, <1>3, TunnelAssumption
     DEF ConnectInstalls, IInv, TypeOK, ActiveIsServed, NothingLeaks
<1> QED
  BY <1>2, <1>4, <1>5, <1>6 DEF IInv

-----------------------------------------------------------------------------
(* The race of the dials                                                    *)

\* TLS is dialled next to QUIC, or a dial fails.
LEMMA RaceInv ==
  ASSUME IInv, HeadStartEnds \/ \E t \in Transports : DialFails(t)
  PROVE  IInv'
<1> USE DEF tunVars, regVars, netVars, loopVars, endVars
<1>1. /\ race' \in [Transports -> {"idle", "pending", "failed"}]
      /\ attempt' = attempt \/ attempt' = [attempt EXCEPT !.step = "failed"]
      /\ attempt.step = "dialing"
  BY DEF HeadStartEnds, DialFails, IInv, TypeOK
<1>2. /\ attempt' \in Attempts /\ attempt'.step \in {"dialing", "failed"}
      /\ attempt'.path = attempt.path /\ attempt'.canceled = attempt.canceled
      /\ attempt'.result = attempt.result
  <2>1. attempt \in Attempts
    BY DEF IInv, TypeOK
  <2>2. CASE attempt' = attempt
    BY <1>1, <2>1, <2>2
  <2>3. CASE attempt' = [attempt EXCEPT !.step = "failed"]
    BY <2>1, <2>3, AttemptMoves
  <2> QED
    BY <1>1, <2>2, <2>3
<1>3. /\ UNCHANGED <<tunVars, netVars, loopVars, endVars, connectMu, late, caller>>
      /\ attempt.result = Nobody /\ loop # "promoting"
  BY <1>1 DEF HeadStartEnds, DialFails, IInv, ResultsHeld, LockProtects
<1> HIDE DEF tunVars, regVars, netVars, loopVars, endVars
<1>4. TypeOK'
  BY <1>1, <1>2, <1>3
     DEF IInv, TypeOK, tunVars, regVars, netVars, loopVars, endVars
<1>5. LockProtects' /\ ResultsHeld' /\ OldAttemptsEnd'
  BY <1>1, <1>2, <1>3
     DEF IInv, LockProtects, ResultsHeld, OldAttemptsEnd,
         tunVars, regVars, netVars, loopVars, endVars
<1>6. ActiveIsConnected' /\ ActiveIsServed' /\ NothingLeaks'
  BY <1>2, <1>3 DEF IInv, ActiveIsConnected, ActiveIsServed, NothingLeaks,
                    tunVars, regVars, loopVars
<1> QED
  BY <1>4, <1>5, <1>6 DEF IInv

\* A dial wins; what the other may still deliver is to be closed.
LEMMA DialWinsInv ==
  ASSUME IInv, NEW t \in Transports, NEW s \in Sessions, DialWins(t, s)
  PROVE  IInv'
<1> USE DEF regVars, netVars, loopVars, endVars
<1>1. PICK more \in SUBSET Unused : live' = live \cup {s} \cup more
                                    /\ late' = late \cup more
  BY LateAreFree DEF DialWins
<1>2. s \in Unused /\ more \subseteq Sessions /\ session \notin more \cup {s}
  BY <1>1, UnusedIsFree DEF DialWins
<1>3. /\ attempt' \in Attempts /\ attempt'.step = "dialed"
      /\ attempt'.path = attempt.path /\ attempt'.canceled = attempt.canceled
      /\ attempt'.result = s
  BY DEF DialWins, IInv, TypeOK, Attempts
<1>4. attempt.step = "dialing" /\ attempt.result = Nobody /\ loop # "promoting"
  BY DEF DialWins, IInv, ResultsHeld, LockProtects
<1>5. /\ UNCHANGED <<regVars, netVars, loopVars, endVars, serving, connectMu, caller>>
      /\ race' = NoRace
  BY DEF DialWins
<1>6. TypeOK'
  BY <1>1, <1>2, <1>3, <1>4, <1>5, EmptyRecords DEF IInv, TypeOK
<1>7. LockProtects' /\ ResultsHeld' /\ OldAttemptsEnd'
  BY <1>3, <1>4, <1>5 DEF IInv, LockProtects, ResultsHeld, OldAttemptsEnd
<1>8. ActiveIsConnected' /\ ActiveIsServed' /\ NothingLeaks'
  BY <1>1, <1>2, <1>3, <1>4, <1>5, TunnelAssumption
     DEF IInv, TypeOK, ActiveIsConnected, ActiveIsServed, NothingLeaks
<1> QED
  BY <1>6, <1>7, <1>8 DEF IInv

\* The context of the attempt ends while dials are pending.
LEMMA DialEndsInv == IInv /\ DialEnds => IInv'
<1> SUFFICES ASSUME IInv, DialEnds PROVE IInv'
  OBVIOUS
<1> USE DEF regVars, netVars, loopVars, endVars
<1>1. PICK more \in SUBSET Unused : live' = live \cup more /\ late' = late \cup more
  BY LateAreFree DEF DialEnds
<1>2. more \subseteq Sessions /\ session \notin more
  BY <1>1, UnusedIsFree
<1>3. /\ attempt' \in Attempts /\ attempt'.step = "failed"
      /\ attempt'.path = attempt.path /\ attempt'.canceled = attempt.canceled
      /\ attempt'.result = attempt.result
  BY AttemptMoves DEF DialEnds, IInv, TypeOK
<1>4. attempt.step = "dialing" /\ attempt.result = Nobody /\ loop # "promoting"
  BY DEF DialEnds, IInv, ResultsHeld, LockProtects
<1>5. /\ UNCHANGED <<regVars, netVars, loopVars, endVars, serving, connectMu, caller>>
      /\ race' = NoRace
  BY DEF DialEnds
<1>6. TypeOK'
  BY <1>1, <1>2, <1>3, <1>4, <1>5, EmptyRecords DEF IInv, TypeOK
<1>7. LockProtects' /\ ResultsHeld' /\ OldAttemptsEnd'
  BY <1>3, <1>4, <1>5 DEF IInv, LockProtects, ResultsHeld, OldAttemptsEnd
<1>8. ActiveIsConnected' /\ ActiveIsServed' /\ NothingLeaks'
  BY <1>1, <1>2, <1>3, <1>4, <1>5
     DEF IInv, ActiveIsConnected, ActiveIsServed, NothingLeaks
<1> QED
  BY <1>6, <1>7, <1>8 DEF IInv

\* The session of a lost race is closed.
LEMMA LateClosesInv ==
  ASSUME IInv, NEW s \in Sessions, LateCloses(s)
  PROVE  IInv'
<1> USE DEF LateCloses, regVars, netVars, loopVars, endVars
<1>1. TypeOK'
  BY DEF IInv, TypeOK
<1>2. LockProtects' /\ ResultsHeld' /\ OldAttemptsEnd'
  BY DEF IInv, LockProtects, ResultsHeld, OldAttemptsEnd
<1>3. ActiveIsConnected' /\ ActiveIsServed' /\ NothingLeaks'
  BY DEF IInv, ActiveIsConnected, ActiveIsServed, NothingLeaks
<1> QED
  BY <1>1, <1>2, <1>3 DEF IInv

-----------------------------------------------------------------------------
(* The reconnect loop                                                       *)

\* Steps of the loop that change nothing but where it stands, what it watches
\* and the token of networkWake; a retry that may hold a session stays.
LEMMA LoopMovesInv ==
  ASSUME IInv, UNCHANGED <<tunVars, lockVars, endVars, available, changes>>,
         wake' \in BOOLEAN, watched' \in Sessions \cup {Nobody},
         retry' \in Retries, retry'.result = Nobody,
         loop' \in {"top", "sessionless", "offline", "backoff", "connect", "waiting",
                    "joining", "done"},
         loop # "promoting", retry.result = Nobody,
         loop = "connect" => loop' = "connect"
  PROVE  IInv'
<1> USE DEF tunVars, regVars, lockVars, dialVars, endVars
<1>1. TypeOK'
  BY DEF IInv, TypeOK
<1>2. LockProtects' /\ ResultsHeld' /\ OldAttemptsEnd'
  BY DEF IInv, LockProtects, ResultsHeld, OldAttemptsEnd
<1>3. ActiveIsConnected' /\ ActiveIsServed' /\ NothingLeaks'
  BY DEF IInv, ActiveIsConnected, ActiveIsServed, NothingLeaks
<1> QED
  BY <1>1, <1>2, <1>3 DEF IInv

\* The loop reads the session, waits or stops, outside waitConnected.
LEMMA LoopInv ==
  ASSUME IInv,
         \/ StartAutoReconnect \/ LoopReads \/ LoopGoesOffline \/ LoopWakes
         \/ BackoffEnds(TRUE) \/ BackoffEnds(FALSE) \/ LoopStops
  PROVE  IInv'
<1>1. UNCHANGED <<tunVars, lockVars, endVars, available, changes>>
  BY DEF StartAutoReconnect, LoopReads, LoopGoesOffline, LoopWakes, BackoffEnds,
         LoopStops, netVars
<1>2. wake' \in BOOLEAN /\ watched' \in Sessions \cup {Nobody}
  BY DEF StartAutoReconnect, LoopReads, LoopGoesOffline, LoopWakes, BackoffEnds,
         LoopStops, netVars, IInv, TypeOK
<1>3. loop \in {"unstarted", "top", "sessionless", "offline", "backoff"}
  BY DEF StartAutoReconnect, LoopReads, LoopGoesOffline, LoopWakes, BackoffEnds,
         LoopStops
<1>4. retry.result = Nobody
  BY <1>3 DEF IInv, ResultsHeld
<1>5. retry' \in Retries /\ retry'.result = Nobody
  BY <1>4, EmptyRecords
     DEF StartAutoReconnect, LoopReads, LoopGoesOffline, LoopWakes, BackoffEnds,
         LoopStops, IInv, TypeOK
<1>6. loop' \in {"top", "sessionless", "offline", "backoff", "connect", "waiting",
                 "joining", "done"}
  BY DEF StartAutoReconnect, LoopReads, LoopGoesOffline, LoopWakes, BackoffEnds,
         LoopStops
<1> QED
  BY <1>1, <1>2, <1>3, <1>4, <1>5, <1>6, LoopMovesInv

\* RECONNECTING is announced.  A session another Connect installed meanwhile is
\* given up here; its goroutine still serves it.
LEMMA LoopReconnectsInv == IInv /\ LoopReconnects => IInv'
<1> SUFFICES ASSUME IInv, LoopReconnects PROVE IInv'
  OBVIOUS
<1> USE DEF LoopReconnects, netVars, lockVars, dialVars, endVars
<1>1. /\ RegTypes' /\ ActiveIsConnected' /\ session' = Nobody
      /\ live' = live /\ serving' = serving
  BY SetStateDown DEF ev!Idle
<1>2. TypeOK'
  BY <1>1 DEF IInv, TypeOK, RegTypes
<1>3. LockProtects' /\ ResultsHeld' /\ OldAttemptsEnd'
  BY <1>1 DEF IInv, LockProtects, ResultsHeld, OldAttemptsEnd
<1>4. ActiveIsServed' /\ NothingLeaks'
  BY <1>1, TunnelAssumption DEF IInv, TypeOK, ActiveIsServed, NothingLeaks
<1> QED
  BY <1>1, <1>2, <1>3, <1>4 DEF IInv

-----------------------------------------------------------------------------
(* waitConnected and the QUIC retry                                         *)

\* waitConnected ends, on a stop, a loss or a notification; the sessions that
\* are open stay open, except the one that was lost.
LEMMA WaitInv ==
  ASSUME IInv, WaitStops \/ WaitSeesLoss \/ WaitNotified
  PROVE  IInv'
<1>1. /\ RegTypes' /\ ActiveIsConnected' /\ serving' = serving
      /\ \/ session' = session /\ live' = live
         \/ session' = Nobody /\ live' = live \ {session}
  <2>1. CASE WaitSeesLoss
    BY <2>1, LostDown DEF WaitSeesLoss
  <2>2. CASE WaitStops \/ WaitNotified
    BY <2>2 DEF WaitStops, WaitNotified, tunVars, regVars, IInv, TypeOK, RegTypes,
                ActiveIsConnected
  <2> QED
    BY <2>1, <2>2
<1>2. /\ loop = "waiting" /\ loop' \in {"top", "joining"} /\ watched' = Nobody
      /\ retry.result # Nobody => loop' = "joining"
  BY DEF WaitStops, WaitSeesLoss, WaitNotified, WaitReturns, IInv, ResultsHeld
<1>3. UNCHANGED <<netVars, lockVars, endVars, retry>>
  BY DEF WaitStops, WaitSeesLoss, WaitNotified
<1> USE DEF netVars, lockVars, dialVars, endVars
<1>4. TypeOK'
  BY <1>1, <1>2, <1>3 DEF IInv, TypeOK, RegTypes
<1>5. LockProtects' /\ ResultsHeld' /\ OldAttemptsEnd'
  BY <1>1, <1>2, <1>3 DEF IInv, LockProtects, ResultsHeld, OldAttemptsEnd
<1>6. ActiveIsServed' /\ NothingLeaks'
  BY <1>1, <1>3, TunnelAssumption DEF IInv, TypeOK, ActiveIsServed, NothingLeaks
<1> QED
  BY <1>1, <1>4, <1>5, <1>6 DEF IInv

\* A retry begins or fails.
LEMMA RetryMovesInv == IInv /\ (RetryStarts \/ RetryFails) => IInv'
<1> SUFFICES ASSUME IInv, RetryStarts \/ RetryFails PROVE IInv'
  OBVIOUS
<1>1. retry' \in Retries /\ retry'.result = Nobody
  BY EmptyRecords DEF RetryStarts, RetryFails, IInv, TypeOK, NoRetry, Retries
<1>2. retry.result = Nobody /\ loop = "waiting" /\ loop' = loop
  BY DEF RetryStarts, RetryFails, IInv, ResultsHeld
<1>3. UNCHANGED <<tunVars, netVars, lockVars, endVars, watched>>
  BY DEF RetryStarts, RetryFails
<1>4. UNCHANGED <<tunVars, lockVars, endVars, available, changes, wake, watched>>
  BY <1>3 DEF netVars
<1>5. wake' \in BOOLEAN /\ watched' \in Sessions \cup {Nobody}
  BY <1>4 DEF IInv, TypeOK
<1> QED
  BY <1>1, <1>2, <1>4, <1>5, LoopMovesInv

\* The QUIC dial of a retry succeeds.
LEMMA RetrySucceedsInv ==
  ASSUME IInv, NEW s \in Sessions, RetrySucceeds(s)
  PROVE  IInv'
<1> USE DEF regVars, netVars, lockVars, dialVars, endVars
<1>1. s \in Unused /\ session # s /\ live' = live \cup {s}
  BY UnusedIsFree DEF RetrySucceeds
<1>2. retry' \in Retries /\ retry'.step = "ready" /\ retry'.result = s
  BY DEF RetrySucceeds, IInv, TypeOK, Retries
<1>3. retry.result = Nobody /\ loop \in {"waiting", "joining"}
  BY DEF RetrySucceeds, IInv, ResultsHeld
<1>4. UNCHANGED <<regVars, netVars, lockVars, endVars, serving, loop, watched>>
  BY DEF RetrySucceeds
<1>5. TypeOK'
  BY <1>1, <1>2, <1>4 DEF IInv, TypeOK
<1>6. LockProtects' /\ ResultsHeld' /\ OldAttemptsEnd'
  BY <1>2, <1>3, <1>4 DEF IInv, LockProtects, ResultsHeld, OldAttemptsEnd
<1>7. ActiveIsConnected' /\ ActiveIsServed' /\ NothingLeaks'
  BY <1>1, <1>2, <1>3, <1>4, TunnelAssumption
     DEF IInv, TypeOK, ActiveIsConnected, ActiveIsServed, NothingLeaks
<1> QED
  BY <1>5, <1>6, <1>7 DEF IInv

\* A retry's session is closed, by waitConnected or by promoteQUIC.
LEMMA RetryEndsInv == IInv /\ (RetryJoined \/ PromoteRefused) => IInv'
<1> SUFFICES ASSUME IInv, RetryJoined \/ PromoteRefused PROVE IInv'
  OBVIOUS
<1> USE DEF regVars, netVars, lockVars, dialVars, endVars
<1>1. /\ live' = live \ {retry.result} /\ retry' = NoRetry /\ loop' = "top"
      /\ watched' \in Sessions \cup {Nobody}
      /\ loop \in {"waiting", "joining"}
  BY DEF RetryJoined, PromoteRefused, Discard, IInv, TypeOK
<1>2. UNCHANGED <<regVars, netVars, lockVars, endVars, serving>>
  BY DEF RetryJoined, PromoteRefused
<1>3. TypeOK'
  BY <1>1, <1>2, EmptyRecords DEF IInv, TypeOK
<1>4. LockProtects' /\ ResultsHeld' /\ OldAttemptsEnd'
  BY <1>1, <1>2, EmptyRecords DEF IInv, LockProtects, ResultsHeld, OldAttemptsEnd
<1>5. ActiveIsConnected' /\ ActiveIsServed' /\ NothingLeaks'
  BY <1>1, <1>2 DEF IInv, ActiveIsConnected, ActiveIsServed, NothingLeaks
<1> QED
  BY <1>3, <1>4, <1>5 DEF IInv

\* The TLS session is given up for the QUIC one.
LEMMA PromoteBeginsInv == IInv /\ PromoteBegins => IInv'
<1> SUFFICES ASSUME IInv, PromoteBegins PROVE IInv'
  OBVIOUS
<1> USE DEF PromoteBegins, PromoteLocks, netVars, dialVars, endVars
<1>1. heard' \in (ev!Idle \cup {"CONNECTED"}) \X (Sessions \cup {Nobody})
  BY DEF ev!Idle
<1>2. TypeOK'
  BY <1>1, TunnelAssumption DEF IInv, TypeOK, ev!Idle
<1>3. attempt.step = "none" /\ loop = "waiting"
  BY DEF IInv, TypeOK
<1>4. LockProtects' /\ ResultsHeld' /\ OldAttemptsEnd'
  BY <1>3 DEF IInv, LockProtects, ResultsHeld, OldAttemptsEnd
<1>5. ActiveIsConnected' /\ ActiveIsServed' /\ NothingLeaks'
  BY TunnelAssumption
     DEF IInv, TypeOK, ActiveIsConnected, ActiveIsServed, NothingLeaks
<1> QED
  BY <1>2, <1>4, <1>5 DEF IInv

\* The QUIC session becomes the active one, or is closed.
LEMMA PromoteEndsInv == IInv /\ PromoteEnds => IInv'
<1> SUFFICES ASSUME IInv, PromoteEnds PROVE IInv'
  OBVIOUS
<1> USE DEF netVars, dialVars, endVars
<1>1. /\ loop = "promoting" /\ loop' = "top" /\ retry' = NoRetry
      /\ connectMu' = Nobody
      /\ UNCHANGED <<netVars, dialVars, endVars, notify, caller, watched>>
  BY DEF PromoteEnds
<1>2. attempt.step = "none" /\ session = Nobody /\ state # "CONNECTED"
  BY <1>1 DEF IInv, LockProtects, ActiveIsConnected
<1>3. CASE Promotable
  <2> DEFINE s == retry.result
  <2>1. /\ state' = "CONNECTED" /\ session' = s /\ path' = retry.path
        /\ heard' = <<"CONNECTED", s>> /\ serving' = serving \cup {s} /\ live' = live
    BY <1>3 DEF PromoteEnds
  <2>2. s \in Sessions /\ s # Nobody /\ retry.path \in 0..MaxChanges
    BY <1>3, TunnelAssumption DEF Promotable, IInv, TypeOK, Retries
  <2> HIDE DEF s
  <2>3. heard' \in (ev!Idle \cup {"CONNECTED"}) \X (Sessions \cup {Nobody})
    BY <2>1, <2>2
  <2>4. TypeOK'
    BY <1>1, <1>2, <2>1, <2>2, <2>3, EmptyRecords DEF IInv, TypeOK
  <2>5. LockProtects' /\ ResultsHeld' /\ OldAttemptsEnd'
    BY <1>1, <1>2, EmptyRecords DEF IInv, LockProtects, ResultsHeld, OldAttemptsEnd
  <2>6. ActiveIsConnected' /\ ActiveIsServed'
    BY <2>1, <2>2 DEF ActiveIsConnected, ActiveIsServed
  <2>7. NothingLeaks'
    BY <1>1, <1>2, <2>1, TunnelAssumption DEF s, IInv, TypeOK, NothingLeaks
  <2> QED
    BY <2>4, <2>5, <2>6, <2>7 DEF IInv
<1>4. CASE ~Promotable
  <2>1. /\ live' = live \ {retry.result}
        /\ UNCHANGED <<state, session, path, heard, serving>>
    BY <1>4 DEF PromoteEnds, Discard
  <2>2. TypeOK'
    BY <1>1, <1>2, <2>1, EmptyRecords DEF IInv, TypeOK
  <2>3. LockProtects' /\ ResultsHeld' /\ OldAttemptsEnd'
    BY <1>1, <1>2, <2>1, EmptyRecords
       DEF IInv, LockProtects, ResultsHeld, OldAttemptsEnd
  <2>4. ActiveIsConnected' /\ ActiveIsServed' /\ NothingLeaks'
    BY <1>1, <2>1 DEF IInv, ActiveIsConnected, ActiveIsServed, NothingLeaks
  <2> QED
    BY <2>2, <2>3, <2>4 DEF IInv
<1> QED
  BY <1>3, <1>4

-----------------------------------------------------------------------------
(* Loss of a session, change of the network, Close                          *)

\* A transport dies.
LEMMA SessionDiesInv ==
  ASSUME IInv, NEW s \in Sessions, SessionDies(s)
  PROVE  IInv'
<1> USE DEF SessionDies, regVars, netVars, lockVars, dialVars, loopVars, endVars
<1>1. TypeOK'
  BY DEF IInv, TypeOK
<1>2. LockProtects' /\ ResultsHeld' /\ OldAttemptsEnd'
  BY DEF IInv, LockProtects, ResultsHeld, OldAttemptsEnd
<1>3. ActiveIsConnected' /\ ActiveIsServed' /\ NothingLeaks'
  BY DEF IInv, ActiveIsConnected, ActiveIsServed, NothingLeaks
<1> QED
  BY <1>1, <1>2, <1>3 DEF IInv

\* A serving goroutine reports the loss of its session.
LEMMA ServeEndsInv ==
  ASSUME IInv, NEW s \in Sessions, ServeEnds(s)
  PROVE  IInv'
<1>1. s \notin live /\ UNCHANGED <<netVars, lockVars, loopVars, endVars>>
  BY DEF ServeEnds
<1>2. /\ RegTypes' /\ ActiveIsConnected' /\ serving' = serving \ {s}
      /\ \/ session' = session /\ live' = live
         \/ session' = Nobody /\ session = s /\ live' = live \ {s}
  <2>1. Lost(s, serving \ {s}) /\ serving \ {s} \in SUBSET serving
    BY DEF ServeEnds
  <2> QED
    BY <2>1, LostDown
<1> USE DEF netVars, lockVars, dialVars, loopVars, endVars
<1>3. TypeOK'
  BY <1>1, <1>2 DEF IInv, TypeOK, RegTypes
<1>4. LockProtects' /\ ResultsHeld' /\ OldAttemptsEnd'
  BY <1>1, <1>2 DEF IInv, LockProtects, ResultsHeld, OldAttemptsEnd
<1>5. ActiveIsServed' /\ NothingLeaks'
  BY <1>1, <1>2, TunnelAssumption DEF IInv, TypeOK, ActiveIsServed, NothingLeaks
<1> QED
  BY <1>2, <1>3, <1>4, <1>5 DEF IInv

\* The network changes: the path of an attempt under way is now an old one, and
\* its cancel function has been copied.
LEMMA NetworkChangesInv ==
  ASSUME IInv, NEW up \in BOOLEAN, NetworkChanges(up)
  PROVE  IInv'
<1> USE DEF NetworkChanges, tunVars, regVars, lockVars, dialVars, loopVars
<1>1. changes' \in 0..MaxChanges
  BY TunnelAssumption DEF IInv, TypeOK
<1>2. /\ changer' \in Changes /\ changer'.step = "changed"
      /\ changer'.cancel = (attempt.step \notin {"none", "entered"})
  BY DEF Cancels, Changes, IInv, TypeOK
<1>3. TypeOK'
  BY <1>1, <1>2 DEF IInv, TypeOK
<1>4. LockProtects' /\ ResultsHeld'
  BY DEF IInv, LockProtects, ResultsHeld
<1>5. OldAttemptsEnd'
  BY <1>2 DEF OldAttemptsEnd
<1>6. ActiveIsConnected' /\ ActiveIsServed' /\ NothingLeaks'
  BY DEF IInv, ActiveIsConnected, ActiveIsServed, NothingLeaks
<1> QED
  BY <1>3, <1>4, <1>5, <1>6 DEF IInv

\* NetworkChanged cancels the attempt and gives up the session it copied.
LEMMA NetworkAppliedInv == IInv /\ NetworkApplied => IInv'
<1> SUFFICES ASSUME IInv, NetworkApplied PROVE IInv'
  OBVIOUS
<1>1. /\ attempt' \in Attempts /\ attempt'.step = attempt.step
      /\ attempt'.path = attempt.path /\ attempt'.result = attempt.result
      /\ attempt'.canceled = (attempt.canceled \/ changer.cancel)
  BY DEF NetworkApplied, IInv, TypeOK, Attempts, Changes
<1>2. /\ RegTypes' /\ ActiveIsConnected' /\ serving' = serving
      /\ \/ session' = session /\ live' = live
         \/ session' = Nobody /\ live' = live \ {session}
  BY LostDown DEF NetworkApplied
<1>3. /\ UNCHANGED <<loopVars, available, changes, connectMu, race, late, caller,
                     closing>>
      /\ wake' = TRUE /\ changer' = NoChange /\ changer.step = "changed"
  BY DEF NetworkApplied, WakesLoop
<1> USE DEF loopVars
<1>4. TypeOK'
  BY <1>1, <1>2, <1>3, EmptyRecords DEF IInv, TypeOK, RegTypes
<1>5. LockProtects' /\ ResultsHeld'
  BY <1>1, <1>2, <1>3 DEF IInv, LockProtects, ResultsHeld
<1>6. OldAttemptsEnd'
  BY <1>1, <1>3 DEF IInv, OldAttemptsEnd
<1>7. ActiveIsServed' /\ NothingLeaks'
  BY <1>1, <1>2, <1>3, TunnelAssumption
     DEF IInv, TypeOK, ActiveIsServed, NothingLeaks
<1> QED
  BY <1>2, <1>4, <1>5, <1>6, <1>7 DEF IInv

\* Close.
LEMMA CloseInv ==
  ASSUME IInv, CloseCancels \/ CloseStep
  PROVE  IInv'
<1> USE DEF netVars, lockVars, dialVars, loopVars
<1>1. CASE CloseMarks
  <2> USE <1>1 DEF CloseMarks
  <2>1. TypeOK'
    BY TunnelAssumption DEF IInv, TypeOK
  <2>2. LockProtects' /\ ResultsHeld' /\ OldAttemptsEnd'
    BY DEF IInv, LockProtects, ResultsHeld, OldAttemptsEnd
  <2>3. ActiveIsConnected' /\ ActiveIsServed' /\ NothingLeaks'
    BY TunnelAssumption
       DEF IInv, TypeOK, ActiveIsConnected, ActiveIsServed, NothingLeaks
  <2> QED
    BY <2>1, <2>2, <2>3 DEF IInv
<1>2. CASE CloseCancels \/ CloseJoins \/ CloseReturns
  <2>1. /\ closing' \in {"canceled", "joined", "returned"}
        /\ UNCHANGED <<tunVars, netVars, lockVars, loopVars, changer>>
    BY <1>2 DEF CloseCancels, CloseJoins, CloseReturns
  <2> USE DEF tunVars, regVars
  <2>2. TypeOK'
    BY <2>1 DEF IInv, TypeOK
  <2>3. LockProtects' /\ ResultsHeld' /\ OldAttemptsEnd'
    BY <2>1 DEF IInv, LockProtects, ResultsHeld, OldAttemptsEnd
  <2>4. ActiveIsConnected' /\ ActiveIsServed' /\ NothingLeaks'
    BY <2>1 DEF IInv, ActiveIsConnected, ActiveIsServed, NothingLeaks
  <2> QED
    BY <2>2, <2>3, <2>4 DEF IInv
<1> QED
  BY <1>1, <1>2 DEF CloseStep

\* Nothing changes.
LEMMA StutterInv == IInv /\ UNCHANGED vars => IInv'
<1> SUFFICES ASSUME IInv, UNCHANGED vars PROVE IInv'
  OBVIOUS
<1> USE DEF vars, tunVars, regVars, netVars, lockVars, dialVars, loopVars, endVars
<1>1. TypeOK'
  BY DEF IInv, TypeOK
<1>2. LockProtects' /\ ResultsHeld' /\ OldAttemptsEnd'
  BY DEF IInv, LockProtects, ResultsHeld, OldAttemptsEnd
<1>3. ActiveIsConnected' /\ ActiveIsServed' /\ NothingLeaks'
  BY DEF IInv, ActiveIsConnected, ActiveIsServed, NothingLeaks
<1> QED
  BY <1>1, <1>2, <1>3 DEF IInv

-----------------------------------------------------------------------------
(* The theorems                                                             *)

\* Every step keeps the invariant.
LEMMA InductiveStep == IInv /\ [Next]_vars => IInv'
<1> SUFFICES ASSUME IInv, [Next]_vars PROVE IInv'
  OBVIOUS
<1>1. ASSUME NEW p \in Callers \cup {Loop}, ConnectNotNeeded(p) \/ ConnectEnters(p)
      PROVE  IInv'
  BY <1>1, ConnectNotNeededInv, ConnectEntersInv
<1>2. CASE ConnectStep
  BY <1>2, ConnectOfflineInv, ConnectDialsInv, ConnectFailsInv, ConnectChecksInv,
     ConnectInstallsInv DEF ConnectStep
<1>3. CASE HeadStartEnds \/ DialEnds \/ \E t \in Transports : DialFails(t)
  BY <1>3, RaceInv, DialEndsInv
<1>4. CASE \/ \E t \in Transports, s \in Sessions : DialWins(t, s)
           \/ \E s \in Sessions : LateCloses(s)
  BY <1>4, DialWinsInv, LateClosesInv
<1>5. CASE StartAutoReconnect \/ LoopStep \/ BackoffEnds(TRUE)
  BY <1>5, LoopInv, LoopReconnectsInv, WaitInv, RetryEndsInv, PromoteBeginsInv,
     PromoteEndsInv DEF LoopStep
<1>6. CASE RetryStarts \/ RetryFails \/ \E s \in Sessions : RetrySucceeds(s)
  BY <1>6, RetryMovesInv, RetrySucceedsInv
<1>7. CASE \E s \in Sessions : SessionDies(s) \/ ServeEnds(s)
  BY <1>7, SessionDiesInv, ServeEndsInv
<1>8. CASE NetworkApplied \/ \E up \in BOOLEAN : NetworkChanges(up)
  BY <1>8, NetworkAppliedInv, NetworkChangesInv
<1>9. CASE CloseCancels \/ CloseStep
  BY <1>9, CloseInv
<1>10. CASE Ended \/ UNCHANGED vars
  BY <1>10, StutterInv DEF Ended
<1> QED
  BY <1>1, <1>2, <1>3, <1>4, <1>5, <1>6, <1>7, <1>8, <1>9, <1>10 DEF Next

\* The invariant holds in every behaviour of the manager.
LEMMA Invariant == Spec => []IInv
<1> QED
  BY InitInv, InductiveStep, PTL DEF Spec

\* Every variable keeps its type, and connectMu is held by an attempt or by a
\* promotion and by nothing else.
THEOREM TypeCorrect == Spec => []TypeOK
<1>1. IInv => TypeOK
  BY DEF IInv
<1> QED
  BY <1>1, Invariant, PTL

\* Every open transport is the active one or in the hands of a goroutine that
\* closes it: lost races, refused candidates and dials canceled too late leave
\* nothing open.
THEOREM NoTransportLeaks == Spec => []NothingLeaks
<1>1. IInv => NothingLeaks
  BY DEF IInv
<1> QED
  BY <1>1, Invariant, PTL

\* Whatever a connection attempt does when the network changes, it is canceled
\* by the time NetworkChanged is done.
THEOREM ChangeCancelsAttempts == Spec => []OldAttemptsCanceled
<1>1. IInv => OldAttemptsCanceled
  BY AttemptFields DEF IInv, TypeOK, OldAttemptsEnd, OldAttemptsCanceled
<1> QED
  BY <1>1, Invariant, PTL

-----------------------------------------------------------------------------
(* TunnelManager implements TunnelEvents                                    *)

\* setState without a session is a Down, or nothing once the manager is closed.
LEMMA SetStateDownEvent ==
  ASSUME IInv, NEW new \in ev!Idle, SetState(new, Nobody, 0)
  PROVE  [ev!EventsNext]_(ev!eventVars)
<1>1. CASE state = "CLOSED"
  BY <1>1 DEF SetState, regVars, ev!eventVars
<1>2. CASE state # "CLOSED"
  <2>1. ev!Down(new)
    BY <1>2 DEF SetState, ev!Down
  <2> QED
    BY <2>1 DEF ev!EventsNext
<1> QED
  BY <1>1, <1>2

\* setState of CONNECTED where no session is active is an Up.
LEMMA SetStateUpEvent ==
  ASSUME IInv, session = Nobody, NEW s \in Sessions, NEW g, SetState("CONNECTED", s, g)
  PROVE  [ev!EventsNext]_(ev!eventVars)
<1>1. CASE state = "CLOSED"
  BY <1>1 DEF SetState, regVars, ev!eventVars
<1>2. CASE state # "CLOSED"
  <2>1. state \in ev!Idle
    BY <1>2 DEF IInv, TypeOK, ActiveIsConnected
  <2>2. ev!Up(s)
    BY <1>2, <2>1 DEF SetState, ev!Up, ev!Idle
  <2> QED
    BY <2>2 DEF ev!EventsNext
<1> QED
  BY <1>1, <1>2

\* MarkSessionLost is a Down, or nothing.
LEMMA LostEvent ==
  ASSUME IInv, NEW s, NEW served, Lost(s, served)
  PROVE  [ev!EventsNext]_(ev!eventVars)
<1>1. CASE session # s \/ s = Nobody
  BY <1>1 DEF Lost, regVars, ev!eventVars
<1>2. CASE ~(session # s \/ s = Nobody)
  <2>1. state = "CONNECTED"
    BY <1>2 DEF IInv, ActiveIsConnected
  <2>2. ev!Down("DISCONNECTED")
    BY <1>2, <2>1 DEF Lost, ev!Down
  <2> QED
    BY <2>2 DEF ev!EventsNext, ev!Idle
<1> QED
  BY <1>1, <1>2

\* A promotion is a Down and then an Up, unless it gives up between the two.
LEMMA PromotionEvents ==
  ASSUME IInv, PromoteBegins \/ PromoteEnds
  PROVE  [ev!EventsNext]_(ev!eventVars)
<1>1. CASE PromoteBegins
  <2>1. ev!Down("RECONNECTING")
    BY <1>1 DEF PromoteBegins, ev!Down
  <2> QED
    BY <2>1 DEF ev!EventsNext, ev!Idle
<1>2. CASE PromoteEnds /\ Promotable
  <2>1. session = Nobody /\ state \in ev!Idle
    BY <1>2 DEF PromoteEnds, Promotable, IInv, TypeOK, LockProtects, ActiveIsConnected
  <2>2. retry.result \in Sessions
    BY <1>2 DEF Promotable, IInv, TypeOK
  <2>3. ev!Up(retry.result)
    BY <1>2, <2>1 DEF PromoteEnds, ev!Up
  <2> QED
    BY <2>2, <2>3 DEF ev!EventsNext
<1>3. CASE PromoteEnds /\ ~Promotable
  BY <1>3 DEF PromoteEnds, ev!eventVars
<1> QED
  BY <1>1, <1>2, <1>3

\* Steps that leave the active session alone.
LEMMA QuietSteps ==
  ASSUME \/ \E p \in Callers \cup {Loop} : ConnectNotNeeded(p)
         \/ ConnectOffline \/ ConnectChecks \/ HeadStartEnds \/ DialEnds
         \/ \E t \in Transports : DialFails(t)
         \/ \E t \in Transports, s \in Sessions : DialWins(t, s)
         \/ \E s \in Sessions : LateCloses(s) \/ RetrySucceeds(s) \/ SessionDies(s)
         \/ StartAutoReconnect \/ LoopReads \/ LoopGoesOffline \/ LoopWakes
         \/ BackoffEnds(TRUE) \/ BackoffEnds(FALSE) \/ LoopStops
         \/ WaitStops \/ WaitNotified \/ RetryStarts \/ RetryFails \/ RetryJoined
         \/ PromoteRefused \/ (\E up \in BOOLEAN : NetworkChanges(up))
         \/ CloseCancels \/ CloseJoins \/ CloseReturns \/ Ended \/ UNCHANGED vars
  PROVE  UNCHANGED <<state, session, heard>>
<1> USE DEF vars, tunVars, regVars
<1>1. CASE \/ \E p \in Callers \cup {Loop} : ConnectNotNeeded(p)
           \/ ConnectOffline \/ ConnectChecks \/ HeadStartEnds \/ DialEnds
           \/ \E t \in Transports : DialFails(t)
           \/ \E t \in Transports, s \in Sessions : DialWins(t, s)
  BY <1>1 DEF ConnectNotNeeded, ConnectOffline, ConnectChecks, HeadStartEnds,
              DialEnds, DialFails, DialWins
<1>2. CASE \E s \in Sessions : LateCloses(s) \/ RetrySucceeds(s) \/ SessionDies(s)
  BY <1>2 DEF LateCloses, RetrySucceeds, SessionDies
<1>3. CASE \/ StartAutoReconnect \/ LoopReads \/ LoopGoesOffline \/ LoopWakes
           \/ BackoffEnds(TRUE) \/ BackoffEnds(FALSE) \/ LoopStops
  BY <1>3 DEF StartAutoReconnect, LoopReads, LoopGoesOffline, LoopWakes,
              BackoffEnds, LoopStops
<1>4. CASE \/ WaitStops \/ WaitNotified \/ RetryStarts \/ RetryFails \/ RetryJoined
           \/ PromoteRefused
  BY <1>4 DEF WaitStops, WaitNotified, RetryStarts, RetryFails, RetryJoined,
              PromoteRefused
<1>5. CASE \/ \E up \in BOOLEAN : NetworkChanges(up)
           \/ CloseCancels \/ CloseJoins \/ CloseReturns \/ Ended \/ UNCHANGED vars
  BY <1>5 DEF NetworkChanges, CloseCancels, CloseJoins, CloseReturns, Ended
<1> QED
  BY <1>1, <1>2, <1>3, <1>4, <1>5

\* Every step of the manager is a step of TunnelEvents or none.
LEMMA EventsStep == IInv /\ [Next]_vars => [ev!EventsNext]_(ev!eventVars)
<1> SUFFICES ASSUME IInv, [Next]_vars PROVE [ev!EventsNext]_(ev!eventVars)
  OBVIOUS
<1>1. CASE \E p \in Callers \cup {Loop} : ConnectEnters(p)
  BY <1>1, LostEvent DEF ConnectEnters
<1>2. CASE ConnectDials \/ ConnectFails
  BY <1>2, SetStateDownEvent DEF ConnectDials, ConnectFails, ev!Idle
<1>3. CASE ConnectInstalls
  <2>1. session = Nobody /\ attempt.result \in Sessions
    BY <1>3 DEF ConnectInstalls, IInv, LockProtects, ResultsHeld
  <2> QED
    BY <1>3, <2>1, SetStateUpEvent DEF ConnectInstalls
<1>4. CASE LoopReconnects
  BY <1>4, SetStateDownEvent DEF LoopReconnects, ev!Idle
<1>5. CASE WaitSeesLoss \/ NetworkApplied \/ \E s \in Sessions : ServeEnds(s)
  BY <1>5, LostEvent DEF WaitSeesLoss, NetworkApplied, ServeEnds
<1>6. CASE PromoteBegins \/ PromoteEnds
  BY <1>6, PromotionEvents
<1>7. CASE CloseMarks
  <2>1. ev!Shut
    BY <1>7 DEF CloseMarks, ev!Shut
  <2> QED
    BY <2>1 DEF ev!EventsNext
<1>8. CASE UNCHANGED <<state, session, heard>>
  BY <1>8 DEF ev!eventVars
<1> QED
  BY <1>1, <1>2, <1>3, <1>4, <1>5, <1>6, <1>7, <1>8, QuietSteps
     DEF Next, ConnectStep, LoopStep, CloseStep

\* The manager implements TunnelEvents: the listener hears of every session that
\* becomes active, one session is given up before the next is announced, and a
\* closed manager stays closed whatever was halfway.
THEOREM ManagerImplementsTunnelEvents == Spec => ImplementsTunnelEvents
<1>1. Init => ev!EventsInit
  BY DEF Init, ev!EventsInit
<1> QED
  BY <1>1, EventsStep, Invariant, PTL DEF Spec, ImplementsTunnelEvents, ev!EventsSpec

-----------------------------------------------------------------------------
(* A session that is given up is closed                                     *)

\* Every step but the loop's setState closes the session it takes away.
LEMMA GivenUpStep ==
  ASSUME IInv, [Next]_vars, session \in live, session' # session, session \in live'
  PROVE  LoopReconnects
<1>1. session # Nobody /\ state = "CONNECTED" /\ attempt.step = "none"
      /\ loop # "promoting"
  BY TunnelAssumption DEF IInv, TypeOK, ActiveIsConnected, LockProtects
<1>2. ~\E p \in Callers \cup {Loop} : ConnectEnters(p)
  BY DEF ConnectEnters
<1>3. ~(ConnectDials \/ ConnectFails \/ ConnectInstalls)
  BY <1>1 DEF ConnectDials, ConnectFails, ConnectInstalls
<1>4. ASSUME NEW s, NEW served, Lost(s, served)
      PROVE  FALSE
  BY <1>4 DEF Lost, regVars
<1>5. ~(WaitSeesLoss \/ NetworkApplied \/ \E s \in Sessions : ServeEnds(s))
  BY <1>4 DEF WaitSeesLoss, NetworkApplied, ServeEnds
<1>6. ~(PromoteBegins \/ PromoteEnds \/ CloseMarks)
  BY <1>1 DEF PromoteBegins, PromoteEnds, CloseMarks
<1> QED
  BY <1>2, <1>3, <1>5, <1>6, QuietSteps DEF Next, ConnectStep, LoopStep, CloseStep

\* An open session that stops being the active one is closed in the same step,
\* but for the session another Connect installs while the loop is about to
\* announce RECONNECTING.
THEOREM SessionsGivenUpAreClosed == Spec => GivenUpIsClosed
<1>1. IInv /\ [Next]_vars
      => [(session \in live /\ session' # session /\ session \in live')
             => LoopReconnects]_vars
  BY GivenUpStep
<1> QED
  BY <1>1, Invariant, PTL DEF Spec, GivenUpIsClosed

-----------------------------------------------------------------------------
(* What Close leaves behind                                                 *)

\* How far Close has got: from the mark on the manager is closed, from the join
\* on no Connect and no promotion is under way, and when Close returns the
\* reconnect loop has ended.  None of it can be undone, because every goroutine
\* that could is refused by the canceled context before it takes connectMu.
CloseStages ==
  /\ closing \in {"marked", "joined", "returned"} => state = "CLOSED"
  /\ closing \in {"joined", "returned"} => connectMu = Nobody
  /\ closing = "returned" => loop \in {"unstarted", "done"}

\* When Close has returned there is no session, no attempt and no loop, and a
\* transport that is still open is a late result of a lost race or is being
\* served: each in the hands of a goroutine Close does not wait for.
ClosedLeavesNothing ==
  closing = "returned" =>
    /\ session = Nobody /\ attempt.step = "none" /\ loop \in {"unstarted", "done"}
    /\ live \subseteq late \cup serving

\* After Close no transport is opened, no session becomes active and no
\* goroutine is started to serve one.
NothingStartsAfterClose ==
  [][closing = "returned" =>
       /\ live' \subseteq live /\ late' \subseteq late /\ serving' \subseteq serving
       /\ UNCHANGED <<state, session, retry>> /\ attempt'.step = "none"]_vars

\* setState does not leave CLOSED.
LEMMA SetStateClosed ==
  ASSUME state = "CLOSED", NEW new, NEW s, NEW p, SetState(new, s, p)
  PROVE  UNCHANGED <<state, session, heard, serving>> /\ live' \subseteq live
BY DEF SetState, regVars

\* MarkSessionLost finds no session in CLOSED.
LEMMA LostClosed ==
  ASSUME IInv, state = "CLOSED", NEW s, NEW served, Lost(s, served)
  PROVE  UNCHANGED <<state, session, heard, live>> /\ serving' = served
<1>1. session = Nobody
  BY DEF IInv, ActiveIsConnected
<1> QED
  BY <1>1 DEF Lost, regVars

\* The canceled context keeps everyone from connectMu.
LEMMA NobodyEnters ==
  ASSUME [Next]_vars, closing # "open", connectMu = Nobody
  PROVE  connectMu' = Nobody
<1>1. ~(PromoteBegins \/ \E p \in Callers \cup {Loop} : ConnectEnters(p))
  BY DEF PromoteBegins, ConnectEnters, Stopping
<1>2. CASE \E p \in Callers \cup {Loop} : ConnectNotNeeded(p)
  BY <1>2 DEF ConnectNotNeeded
<1>3. CASE ConnectStep
  BY <1>3 DEF ConnectStep, ConnectOffline, ConnectDials, ConnectFails,
              ConnectChecks, ConnectInstalls, Release
<1>4. CASE \/ HeadStartEnds \/ DialEnds \/ \E t \in Transports : DialFails(t)
           \/ \E t \in Transports, s \in Sessions : DialWins(t, s)
           \/ \E s \in Sessions : LateCloses(s)
  BY <1>4 DEF HeadStartEnds, DialEnds, DialFails, DialWins, LateCloses
<1>5. CASE LoopStep \/ StartAutoReconnect \/ BackoffEnds(TRUE)
  BY <1>1, <1>5 DEF LoopStep, StartAutoReconnect, BackoffEnds, LoopReads,
     LoopGoesOffline, LoopReconnects, LoopWakes, LoopStops, WaitStops, WaitSeesLoss,
     WaitNotified, RetryJoined, PromoteRefused, PromoteEnds, lockVars
<1>6. CASE RetryStarts \/ RetryFails \/ \E s \in Sessions : RetrySucceeds(s)
  BY <1>6 DEF RetryStarts, RetryFails, RetrySucceeds, lockVars
<1>7. CASE \/ \E s \in Sessions : SessionDies(s) \/ ServeEnds(s)
           \/ NetworkApplied \/ \E up \in BOOLEAN : NetworkChanges(up)
  BY <1>7 DEF SessionDies, ServeEnds, NetworkApplied, NetworkChanges, lockVars
<1>8. CASE CloseCancels \/ CloseStep \/ Ended \/ UNCHANGED vars
  BY <1>8 DEF CloseCancels, CloseStep, CloseMarks, CloseJoins, CloseReturns, Ended,
              vars, lockVars
<1> QED
  BY <1>1, <1>2, <1>3, <1>4, <1>5, <1>6, <1>7, <1>8 DEF Next

\* Only Close moves `closing`, stage by stage.
LEMMA ClosingMoves ==
  ASSUME [Next]_vars
  PROVE  closing' = closing \/ CloseCancels \/ CloseMarks \/ CloseJoins \/ CloseReturns
<1>1. CASE ConnectStep \/ \E p \in Callers \cup {Loop} :
                            ConnectNotNeeded(p) \/ ConnectEnters(p)
  BY <1>1 DEF ConnectNotNeeded, ConnectEnters, ConnectStep, ConnectOffline,
              ConnectDials, ConnectFails, ConnectChecks, ConnectInstalls, endVars
<1>2. CASE \/ HeadStartEnds \/ DialEnds \/ \E t \in Transports : DialFails(t)
           \/ \E t \in Transports, s \in Sessions : DialWins(t, s)
           \/ \E s \in Sessions : LateCloses(s)
  BY <1>2 DEF HeadStartEnds, DialEnds, DialFails, DialWins, LateCloses, endVars
<1>3. CASE LoopStep \/ StartAutoReconnect \/ BackoffEnds(TRUE)
  BY <1>3 DEF LoopStep, StartAutoReconnect, BackoffEnds, LoopReads,
     LoopGoesOffline, LoopReconnects, LoopWakes, LoopStops, WaitStops, WaitSeesLoss,
     WaitNotified, RetryJoined, PromoteRefused, PromoteBegins, PromoteEnds, endVars
<1>4. CASE RetryStarts \/ RetryFails \/ \E s \in Sessions : RetrySucceeds(s)
  BY <1>4 DEF RetryStarts, RetryFails, RetrySucceeds, endVars
<1>5. CASE \/ \E s \in Sessions : SessionDies(s) \/ ServeEnds(s)
           \/ NetworkApplied \/ \E up \in BOOLEAN : NetworkChanges(up)
  BY <1>5 DEF SessionDies, ServeEnds, NetworkApplied, NetworkChanges, endVars
<1>6. CASE Ended \/ UNCHANGED vars
  BY <1>6 DEF Ended, vars, endVars
<1> QED
  BY <1>1, <1>2, <1>3, <1>4, <1>5, <1>6 DEF Next, CloseStep

\* A loop that is not running at the end of Close stays so.
LEMMA LoopStaysEnded ==
  ASSUME [Next]_vars, state = "CLOSED", connectMu = Nobody, IInv,
         loop \in {"unstarted", "done"}
  PROVE  loop' \in {"unstarted", "done"} /\ retry' = retry
<1>1. attempt.step = "none" /\ Loop # Nobody
  BY TunnelAssumption DEF IInv, TypeOK
<1>2. CASE ConnectStep
  BY <1>1, <1>2 DEF ConnectStep, ConnectOffline, ConnectDials, ConnectFails,
                    ConnectChecks, ConnectInstalls
<1>3. ASSUME NEW p \in Callers \cup {Loop}, ConnectNotNeeded(p) \/ ConnectEnters(p)
      PROVE  UNCHANGED <<loop, retry>>
  BY <1>3 DEF ConnectNotNeeded, ConnectEnters, Calls, Returns, loopVars
<1>4. CASE \/ HeadStartEnds \/ DialEnds \/ \E t \in Transports : DialFails(t)
           \/ \E t \in Transports, s \in Sessions : DialWins(t, s)
           \/ \E s \in Sessions : LateCloses(s)
  BY <1>4 DEF HeadStartEnds, DialEnds, DialFails, DialWins, LateCloses, loopVars
<1>5. CASE LoopStep \/ StartAutoReconnect \/ BackoffEnds(TRUE)
  BY <1>5 DEF LoopStep, StartAutoReconnect, BackoffEnds, LoopReads,
     LoopGoesOffline, LoopReconnects, LoopWakes, LoopStops, WaitStops, WaitSeesLoss,
     WaitNotified, RetryJoined, PromoteRefused, PromoteBegins, PromoteEnds
<1>6. CASE RetryStarts \/ RetryFails \/ \E s \in Sessions : RetrySucceeds(s)
  BY <1>6 DEF RetryStarts, RetryFails, RetrySucceeds
<1>7. CASE \/ \E s \in Sessions : SessionDies(s) \/ ServeEnds(s)
           \/ NetworkApplied \/ \E up \in BOOLEAN : NetworkChanges(up)
  BY <1>7 DEF SessionDies, ServeEnds, NetworkApplied, NetworkChanges, loopVars
<1>8. CASE CloseCancels \/ CloseStep \/ Ended \/ UNCHANGED vars
  BY <1>8 DEF CloseCancels, CloseStep, CloseMarks, CloseJoins, CloseReturns, Ended,
              vars, loopVars
<1> QED
  BY <1>2, <1>3, <1>4, <1>5, <1>6, <1>7, <1>8 DEF Next

\* A closed manager does not change its state.
LEMMA ClosedStep ==
  ASSUME IInv, [Next]_vars, state = "CLOSED"
  PROVE  UNCHANGED <<state, session, heard>>
<1>1. session = Nobody
  BY DEF IInv, ActiveIsConnected
<1>2. CASE ev!EventsNext
  BY <1>1, <1>2 DEF ev!EventsNext, ev!Up, ev!Down, ev!Shut, ev!Idle
<1> QED
  BY <1>2, EventsStep DEF ev!eventVars

\* Every step keeps the stages of Close.
LEMMA CloseStagesStep == IInv /\ CloseStages /\ [Next]_vars => CloseStages'
<1> SUFFICES ASSUME IInv, CloseStages, [Next]_vars PROVE CloseStages'
  OBVIOUS
<1>1. state = "CLOSED" => state' = "CLOSED"
  BY ClosedStep
<1>2. closing \in {"joined", "returned"} => connectMu' = Nobody
  BY NobodyEnters DEF CloseStages
<1>3. closing = "returned" => loop' \in {"unstarted", "done"}
  BY LoopStaysEnded DEF CloseStages
<1>4. CASE closing' = closing
  BY <1>1, <1>2, <1>3, <1>4 DEF CloseStages
<1>5. CASE CloseCancels
  BY <1>5 DEF CloseCancels, CloseStages
<1>6. CASE CloseMarks
  BY <1>6 DEF CloseMarks, CloseStages
<1>7. CASE CloseJoins
  BY <1>1, <1>7 DEF CloseJoins, CloseStages, lockVars
<1>8. CASE CloseReturns
  BY <1>1, <1>2, <1>8 DEF CloseReturns, CloseStages, loopVars
<1> QED
  BY <1>4, <1>5, <1>6, <1>7, <1>8, ClosingMoves

\* Close has got as far as it says, in every behaviour.
LEMMA StagesOfClose == Spec => [](IInv /\ CloseStages)
<1>1. Init => CloseStages
  BY DEF Init, CloseStages
<1> QED
  BY <1>1, InitInv, InductiveStep, CloseStagesStep, PTL DEF Spec

\* When Close returns, whatever is still open belongs to a goroutine that closes
\* it: an attempt, a promotion or a QUIC retry that Close overtook at any point
\* has given its session back.
THEOREM CloseLeavesNothing == Spec => []ClosedLeavesNothing
<1>1. IInv /\ CloseStages => ClosedLeavesNothing
  <2> SUFFICES ASSUME IInv, CloseStages, closing = "returned"
               PROVE  ClosedLeavesNothing
    BY DEF ClosedLeavesNothing
  <2>1. session = Nobody
    BY DEF CloseStages, IInv, ActiveIsConnected
  <2>2. attempt.step = "none" /\ loop \in {"unstarted", "done"}
    BY DEF CloseStages, IInv, TypeOK
  <2>3. attempt.result = Nobody /\ retry.result = Nobody
    BY <2>2 DEF IInv, ResultsHeld
  <2>4. Nobody \notin live
    BY TunnelAssumption DEF IInv, TypeOK
  <2> QED
    BY <2>1, <2>2, <2>3, <2>4 DEF ClosedLeavesNothing, IInv, NothingLeaks
<1> QED
  BY <1>1, StagesOfClose, PTL

\* A step after the end of Close opens nothing.
LEMMA StepAfterClose ==
  ASSUME IInv, CloseStages, [Next]_vars, closing = "returned"
  PROVE  /\ live' \subseteq live /\ late' \subseteq late /\ serving' \subseteq serving
         /\ UNCHANGED <<state, session, retry>> /\ attempt'.step = "none"
<1> DEFINE Shrinks == /\ live' \subseteq live /\ late' \subseteq late
                      /\ serving' \subseteq serving
<1>1. /\ state = "CLOSED" /\ connectMu = Nobody /\ loop \in {"unstarted", "done"}
      /\ attempt.step = "none" /\ session = Nobody
  BY DEF CloseStages, IInv, TypeOK, ActiveIsConnected
<1>2. UNCHANGED <<state, session, retry>>
  BY <1>1, ClosedStep, LoopStaysEnded
<1>3. attempt'.step = "none"
  <2>1. IInv' /\ CloseStages'
    BY InductiveStep, CloseStagesStep
  <2>2. connectMu' = Nobody /\ loop' \in {"unstarted", "done"}
    BY <1>1, NobodyEnters, LoopStaysEnded
  <2> QED
    BY <2>1, <2>2 DEF IInv, TypeOK
<1>4. ASSUME ConnectStep
      PROVE  Shrinks
  BY <1>1, <1>4 DEF ConnectStep, ConnectOffline, ConnectDials, ConnectFails,
                    ConnectChecks, ConnectInstalls
<1>5. ASSUME NEW p \in Callers \cup {Loop}, ConnectNotNeeded(p) \/ ConnectEnters(p)
      PROVE  Shrinks
  BY <1>1, <1>5 DEF ConnectNotNeeded, ConnectEnters, tunVars, dialVars
<1>6. ASSUME \/ HeadStartEnds \/ DialEnds \/ \E t \in Transports : DialFails(t)
             \/ \E t \in Transports, s \in Sessions : DialWins(t, s)
             \/ \E s \in Sessions : LateCloses(s)
      PROVE  Shrinks
  BY <1>1, <1>6 DEF HeadStartEnds, DialEnds, DialFails, DialWins, LateCloses
<1>7. ASSUME LoopStep \/ StartAutoReconnect \/ BackoffEnds(TRUE)
      PROVE  Shrinks
  BY <1>1, <1>7 DEF LoopStep, StartAutoReconnect, BackoffEnds, LoopReads,
     LoopGoesOffline, LoopReconnects, LoopWakes, LoopStops, WaitStops, WaitSeesLoss,
     WaitNotified, RetryJoined, PromoteRefused, PromoteBegins, PromoteEnds, tunVars,
     lockVars, dialVars
<1>8. ASSUME RetryStarts \/ RetryFails \/ \E s \in Sessions : RetrySucceeds(s)
      PROVE  Shrinks
  BY <1>1, <1>8 DEF RetryStarts, RetryFails, RetrySucceeds
<1>9. ASSUME NEW s \in Sessions, ServeEnds(s)
      PROVE  Shrinks
  BY <1>1, <1>9, LostClosed DEF ServeEnds, lockVars, dialVars
<1>10. ASSUME NetworkApplied
       PROVE  Shrinks
  BY <1>1, <1>10, LostClosed DEF NetworkApplied
<1>11. ASSUME \/ \E s \in Sessions : SessionDies(s)
              \/ \E up \in BOOLEAN : NetworkChanges(up)
       PROVE  Shrinks
  BY <1>11 DEF SessionDies, NetworkChanges, tunVars, lockVars, dialVars
<1>12. ASSUME CloseCancels \/ CloseStep \/ Ended \/ UNCHANGED vars
       PROVE  Shrinks
  BY <1>12 DEF CloseCancels, CloseStep, CloseMarks, CloseJoins, CloseReturns, Ended,
               vars, tunVars, lockVars, dialVars
<1>13. Shrinks
  BY <1>4, <1>5, <1>6, <1>7, <1>8, <1>9, <1>10, <1>11, <1>12 DEF Next
<1> QED
  BY <1>2, <1>3, <1>13

\* After Close has returned nothing is opened, made active or served, although
\* callers of Connect, a network change and the loop's first start may still
\* come.  (A listener call that was on its way may still be made.)
THEOREM ClosedManagerIsQuiet == Spec => NothingStartsAfterClose
<1>1. IInv /\ CloseStages /\ [Next]_vars
      => [closing = "returned" =>
            /\ live' \subseteq live /\ late' \subseteq late /\ serving' \subseteq serving
            /\ UNCHANGED <<state, session, retry>>
            /\ attempt'.step = "none"]_vars
  BY StepAfterClose
<1> QED
  BY <1>1, StagesOfClose, PTL DEF Spec, NothingStartsAfterClose

===============================================================================
