-------------------------- MODULE P2PManager_proofs --------------------------
(*****************************************************************************)
(* Proofs about P2PManager: type correctness, that no socket is forgotten    *)
(* (NothingLeaks), that an early answer there was room for is not lost       *)
(* (AnswerIsNotLost), and that there is one path per Exit (OnePathPerExit).  *)
(*                                                                           *)
(* IInv adds what is true of a session nobody has registered yet and of one  *)
(* that is in the map (Unborn, InMap), that epochs only grow (EpochsGrow),   *)
(* that an answer waits for the attempt it came before unless it was thrown  *)
(* out (EarlyWaits), and                                                     *)
(* that of two attempts for one Exit one is over, its session gone or about  *)
(* to be removed (InFlight, Doomed, OneIsOver).                              *)
(*****************************************************************************)
EXTENDS P2PManager, TLAPS

-----------------------------------------------------------------------------
(* The inductive invariant                                                  *)

Begun(a) == attempt[a] \in Attempting

\* What newSessionWithEndpoint has not made a session of is as it was made,
\* and nobody owes it anything.
NotYet(s) ==
  \/ s \in Attempts /\ attempt[s].at \in {"unused", "starting", "preparing", "asking"}
  \/ s \in Offers /\ establish[s] \in {"none", "offered"}

Unborn ==
  /\ \A s \in Sessions : NotYet(s) =>
       /\ s \notin sessions
       /\ session[s] = NewSession
       /\ \A what \in {"close", "fail", "record", "remove"} : ~Owed(what, s)
       /\ s \in Attempts => establish[s] = "none"
  /\ \A s \in Attempts : establish[s] \notin {"offered", "registered", "answering"}

\* A session in the map is neither closed nor about to be, and a closed one
\* has no endpoint.
InMap ==
  \A s \in Sessions :
    /\ s \in sessions => session[s].state # "closed" /\ ~Owed("close", s)
    /\ session[s].closed => s \notin sessions /\ ~session[s].endpoint
    /\ session[s].client => s \in Attempts

EpochsGrow ==
  /\ epoch <= signature /\ signature <= network
  /\ invalidating => epoch < signature
  /\ \A a \in Attempts : Begun(a) => attempt[a].epoch <= epoch

\* An answer that came before the session waits in pendingAnswers; an attempt
\* that failed has no session.
EarlyWaits ==
  \A a \in Attempts :
    /\ attempt[a].at \in {"unused", "starting", "preparing"} => a \notin answered
    /\ /\ attempt[a].at \in {"asking", "registering"}
       /\ a \in answered /\ ~session[a].answer
       /\ attempt[a].epoch = epoch /\ closer # "cleared"
       => a \in pending \cup evicted
    /\ attempt[a].at \in {"failed", "recording"} => a \notin sessions

\* On the present network, starting knows the attempt in flight.
InFlight ==
  \A a \in Attempts :
    Begun(a) /\ attempt[a].epoch = epoch /\ attempt[a].at # "ended" =>
      starting[attempt[a].exit] = a

\* Somebody is about to remove the session.
ToGo(s) == Owed("record", s) \/ Owed("remove", s)

Doomed == \A s \in sessions : session[s].state = "degraded" => ToGo(s)

Over(a) == attempt[a].at = "ended" /\ (a \in sessions => ToGo(a))

OneIsOver ==
  \A a, b \in Attempts :
    /\ a # b /\ Begun(a) /\ Begun(b) /\ attempt[a].exit = attempt[b].exit
    /\ attempt[a].epoch = epoch /\ attempt[b].epoch = epoch
    => Over(a) \/ Over(b)

IInv == /\ TypeOK /\ Unborn /\ InMap /\ NothingLeaks /\ EpochsGrow
        /\ EarlyWaits /\ AnswerIsNotLost /\ InFlight /\ Doomed /\ OneIsOver

-----------------------------------------------------------------------------
(* One session at a time                                                    *)

Debts == {"close", "fail", "record", "remove"}

\* What the invariant says of one session.
Sound(s) ==
  /\ NotYet(s) =>
       /\ s \notin sessions
       /\ session[s] = NewSession
       /\ \A what \in Debts : ~Owed(what, s)
       /\ s \in Attempts => establish[s] = "none"
  /\ s \in Attempts => establish[s] \notin {"offered", "registered", "answering"}
  /\ s \in sessions => session[s].state # "closed" /\ ~Owed("close", s)
  /\ session[s].closed => s \notin sessions /\ ~session[s].endpoint
  /\ session[s].client => s \in Attempts
  /\ socket[s] = "open" =>
       \/ s \in Attempts /\ attempt[s].at = "asking"
       \/ establish[s] = "offered"
       \/ (s \in sessions \/ Owed("close", s)) /\ session[s].endpoint
  /\ s \in sessions /\ session[s].state = "degraded" => ToGo(s)

AllSound == \A s \in Sessions : Sound(s)

LEMMA SoundIs ==
  ASSUME TypeOK
  PROVE  AllSound <=> Unborn /\ InMap /\ NothingLeaks /\ Doomed
<1>1. sessions \subseteq Sessions /\ Attempts \subseteq Sessions
  BY DEF TypeOK, Sessions
<1>. QED  BY <1>1 DEF AllSound, Sound, Unborn, InMap, NothingLeaks, Doomed, Debts

\* What no step takes back.
Ages(s) ==
  /\ session[s].answer => session'[s].answer
  /\ s \in sessions' /\ ToGo(s) => ToGo(s)'
  /\ s \in sessions' /\ s \notin sessions => NotYet(s)

\* A step that has nothing to do with a session.
SameTo(s) ==
  /\ session'[s] = session[s]
  /\ socket'[s] = socket[s]
  /\ establish'[s] = establish[s]
  /\ s \in sessions' <=> s \in sessions
  /\ \A what \in Debts : Owed(what, s)' <=> Owed(what, s)
  /\ NotYet(s)' => NotYet(s)
  /\ s \in Attempts /\ attempt[s].at = "asking" => attempt'[s].at = "asking"

LEMMA SameIsSound ==
  ASSUME NEW s \in Sessions, Sound(s), SameTo(s)
  PROVE  Sound(s)' /\ Ages(s)
<1>1. ToGo(s)' <=> ToGo(s)
  BY DEF SameTo, ToGo, Debts
<1>2. Owed("close", s)' <=> Owed("close", s)
  BY DEF SameTo, Debts
<1>. QED  BY <1>1, <1>2 DEF Sound, SameTo, Ages

LEMMA OneTouched ==
  ASSUME AllSound, NEW s \in Sessions, Sound(s)', Ages(s),
         \A t \in Sessions : t # s => SameTo(t)
  PROVE  AllSound' /\ \A t \in Sessions : Ages(t)
<1>1. ASSUME NEW t \in Sessions PROVE Sound(t)' /\ Ages(t)
  BY SameIsSound DEF AllSound
<1>. QED  BY <1>1 DEF AllSound

LEMMA NoneTouched ==
  ASSUME AllSound, \A t \in Sessions : SameTo(t)
  PROVE  AllSound' /\ \A t \in Sessions : Ages(t)
<1>1. ASSUME NEW t \in Sessions PROVE Sound(t)' /\ Ages(t)
  BY SameIsSound DEF AllSound
<1>. QED  BY <1>1 DEF AllSound

-----------------------------------------------------------------------------
(* What ends a session                                                      *)

\* Sessions that leave the map are owed their closing.
LEMMA Orphaned ==
  ASSUME TypeOK, NEW S \in SUBSET Sessions, Drop(S)
  PROVE  /\ sessions' \in SUBSET Sessions
         /\ todo' \in SUBSET ({"close", "fail", "record", "remove"} \X Sessions)
         /\ sessions' = sessions \ S
         /\ \A s \in S \cap sessions : Owed("close", s)'
         /\ \A s \in Sessions \ (S \cap sessions) :
              \A what \in Debts : Owed(what, s)' <=> Owed(what, s)
<1>1. /\ sessions' = sessions \ S
      /\ todo' = todo \cup Orphans(S)
  BY DEF Drop, Owe
<1>2. sessions' \in SUBSET Sessions
  BY <1>1 DEF TypeOK
<1>3. todo' \in SUBSET ({"close", "fail", "record", "remove"} \X Sessions)
  BY <1>1 DEF Orphans, TypeOK
<1>4. \A s \in S \cap sessions : Owed("close", s)'
  BY <1>1 DEF Orphans, Owed
<1>5. \A s \in Sessions \ (S \cap sessions) :
        \A what \in Debts : Owed(what, s)' <=> Owed(what, s)
  BY <1>1 DEF Orphans, Owed
<1>. QED  BY <1>1, <1>2, <1>3, <1>4, <1>5

\* A session that has been made stays sound when it leaves the map.
LEMMA DropSound ==
  ASSUME TypeOK, AllSound, NEW s \in sessions, s \in Sessions, s \notin sessions',
         Owed("close", s)', UNCHANGED sessionVars,
         s \in Attempts => establish'[s] \notin {"offered", "registered", "answering"},
         ~NotYet(s)'
  PROVE  Sound(s)' /\ Ages(s)
<1>1. Sound(s) /\ ~NotYet(s)
  BY DEF AllSound, Sound
<1>2. session'[s] = session[s] /\ socket'[s] = socket[s]
  BY DEF sessionVars
<1>3. socket[s] = "open" => session[s].endpoint
  BY <1>1 DEF Sound, NotYet, Sessions
<1>4. ~session[s].closed
  BY <1>1 DEF Sound
<1>. QED  BY <1>1, <1>2, <1>3, <1>4 DEF Sound, Ages

\* Sessions leave the map, and nothing else happens to the others.
LEMMA DropStep ==
  ASSUME TypeOK, AllSound, NEW S \in SUBSET Sessions, sessions' = sessions \ S,
         UNCHANGED sessionVars,
         \A s \in S \cap sessions :
           /\ ~NotYet(s)'
           /\ Owed("close", s)'
           /\ s \in Attempts => establish'[s] \notin {"offered", "registered", "answering"},
         \A s \in Sessions \ (S \cap sessions) :
           /\ establish'[s] = establish[s]
           /\ \A what \in Debts : Owed(what, s)' <=> Owed(what, s)
           /\ NotYet(s)' => NotYet(s)
           /\ s \in Attempts /\ attempt[s].at = "asking" => attempt'[s].at = "asking"
  PROVE  AllSound' /\ \A s \in Sessions : Ages(s)
<1>1. ASSUME NEW s \in Sessions PROVE Sound(s)' /\ Ages(s)
  <2>1. CASE s \in S \cap sessions
    BY <2>1, DropSound
  <2>2. CASE s \notin S \cap sessions
    <3>1. SameTo(s)
      BY <2>2 DEF SameTo, sessionVars
    <3>. QED  BY <3>1, SameIsSound DEF AllSound
  <2>. QED  BY <2>1, <2>2
<1>. QED  BY <1>1 DEF AllSound

\* What a session's fields held is closed, and nothing happens to the others.
LEMMA ReleasedStep ==
  ASSUME TypeOK, NEW s \in Sessions, NEW new \in Records, Released(s, new)
  PROVE  /\ session' \in [Sessions -> Records]
         /\ path' \in [Sessions -> BOOLEAN]
         /\ socket' \in [Sessions -> {"none", "open", "closed"}]
         /\ session'[s] = new
         /\ socket'[s] = IF session[s].endpoint THEN "closed" ELSE socket[s]
         /\ \A t \in Sessions : t # s =>
              session'[t] = session[t] /\ socket'[t] = socket[t]
<1>1. /\ session' \in [Sessions -> Records] /\ session'[s] = new
      /\ \A t \in Sessions : t # s => session'[t] = session[t]
  BY DEF Released, TypeOK
<1>2. /\ socket' \in [Sessions -> {"none", "open", "closed"}]
      /\ socket'[s] = IF session[s].endpoint THEN "closed" ELSE socket[s]
      /\ \A t \in Sessions : t # s => socket'[t] = socket[t]
  BY DEF Released, TypeOK
<1>3. path' \in [Sessions -> BOOLEAN]
  BY DEF Released, TypeOK
<1>. QED  BY <1>1, <1>2, <1>3

\* The failure of one session: its fields are cleared, its socket is closed.
LEMMA FailsCleared ==
  ASSUME TypeOK, NEW s \in Sessions, Fails(s)
  PROVE  /\ session' \in [Sessions -> Records]
         /\ path' \in [Sessions -> BOOLEAN]
         /\ socket' \in [Sessions -> {"none", "open", "closed"}]
         /\ ~session'[s].endpoint
         /\ session'[s].closed = session[s].closed
         /\ session'[s].answer = session[s].answer
         /\ session'[s].client = session[s].client
         /\ session'[s].state =
              IF session[s].state = "closed" THEN "closed" ELSE "degraded"
         /\ socket'[s] = IF session[s].endpoint THEN "closed" ELSE socket[s]
         /\ \A t \in Sessions : t # s =>
              session'[t] = session[t] /\ socket'[t] = socket[t]
<1>. DEFINE state == IF session[s].state = "closed" THEN "closed" ELSE "degraded"
            new == [Emptied(s) EXCEPT !.state = state]
<1>1. session[s] \in Records
  BY DEF TypeOK
<1>2. /\ new \in Records
      /\ ~new.endpoint /\ new.state = state
      /\ new.closed = session[s].closed /\ new.answer = session[s].answer
      /\ new.client = session[s].client
  BY <1>1 DEF Emptied, Records, States
<1>3. Released(s, new)
  BY DEF Fails
<1>. HIDE DEF new
<1>. QED  BY <1>2, <1>3, ReleasedStep

\* One goroutine finds that a session has failed, and owes it the rest.
LEMMA FailsStep ==
  ASSUME TypeOK, AllSound, NEW s \in Sessions, Fails(s), ~NotYet(s), ~NotYet(s)',
         sessions' = sessions, ToGo(s)', Owed("close", s)' <=> Owed("close", s),
         s \in Attempts => establish'[s] \notin {"offered", "registered", "answering"},
         \A t \in Sessions : t # s =>
           /\ establish'[t] = establish[t]
           /\ \A what \in Debts : Owed(what, t)' <=> Owed(what, t),
         attempt' = attempt
  PROVE  AllSound' /\ \A t \in Sessions : Ages(t)
<1>1. Sound(s)
  BY DEF AllSound
<1>2. socket'[s] # "open"
  BY <1>1, FailsCleared DEF Sound, NotYet, Sessions
<1>3. Sound(s)' /\ Ages(s)
  BY <1>1, <1>2, FailsCleared DEF Sound, Ages
<1>4. \A t \in Sessions : t # s => SameTo(t)
  BY FailsCleared DEF SameTo, NotYet
<1>. QED  BY <1>3, <1>4, OneTouched

-----------------------------------------------------------------------------
(* Attempts                                                                 *)

\* An attempt gets on.
LEMMA AtStep ==
  ASSUME TypeOK, NEW a \in Attempts, attempt[a].at # "unused",
         NEW step \in AttemptSteps, At(a, step)
  PROVE  /\ attempt' \in [Attempts -> Attempting \cup {Unused}]
         /\ Begun(a) /\ Begun(a)'
         /\ attempt'[a].at = step
         /\ attempt'[a].exit = attempt[a].exit
         /\ attempt'[a].epoch = attempt[a].epoch
         /\ \A b \in Attempts : b # a => attempt'[b] = attempt[b]
<1>0. Unused.at = "unused"
  BY DEF Unused
<1>1. attempt[a] \in Attempting
  BY <1>0 DEF TypeOK
<1>2. /\ [attempt[a] EXCEPT !.at = step] \in Attempting
      /\ [attempt[a] EXCEPT !.at = step].at = step
      /\ [attempt[a] EXCEPT !.at = step].exit = attempt[a].exit
      /\ [attempt[a] EXCEPT !.at = step].epoch = attempt[a].epoch
  BY <1>1 DEF Attempting
<1>3. /\ attempt'[a] = [attempt[a] EXCEPT !.at = step]
      /\ \A b \in Attempts : b # a => attempt'[b] = attempt[b]
  BY DEF At, TypeOK
<1>4. attempt' \in [Attempts -> Attempting \cup {Unused}]
  BY <1>2 DEF At, TypeOK
<1>. QED  BY <1>1, <1>2, <1>3, <1>4 DEF Begun

\* Absent attempts have begun nothing.
LEMMA Absent ==
  /\ Unused \notin Attempting
  /\ None \notin Attempts /\ None \notin Networks
  /\ \A a \in Attempts : a \notin Offers
  /\ Networks \subseteq Nat
BY ManagerAssumption DEF Unused, Attempting, None, Attempts, Networks, AttemptSteps

\* Offers are nobody's attempt.
LEMMA Kinds ==
  /\ Attempts \subseteq Sessions /\ Offers \subseteq Sessions
  /\ \A s \in Sessions : s \in Attempts <=> s \notin Offers
BY Absent DEF Sessions

-----------------------------------------------------------------------------
(* Every step keeps the sessions sound                                      *)

Kept == TypeOK' /\ AllSound' /\ \A s \in Sessions : Ages(s)

\* recordFailureError, of whatever exit.
LEMMA NotedType ==
  ASSUME TypeOK, NEW e, Noted(e)
  PROVE  cooldown' \in [Exits -> Networks \cup {None}]
<1>. DEFINE new == [cooldown EXCEPT ![e] = network]
<1>1. new = [f \in Exits |-> IF f = e THEN network ELSE cooldown[f]]
  BY DEF TypeOK
<1>2. new \in [Exits -> Networks \cup {None}]
  BY <1>1 DEF TypeOK
<1>. HIDE DEF new
<1>3. cooldown' = cooldown \/ cooldown' = new
  BY DEF Noted, new
<1>. QED  BY <1>2, <1>3 DEF TypeOK

\* What one goroutine after a failure does.
LEMMA KeptFailDirect ==
  ASSUME TypeOK, AllSound, NEW s \in Sessions, FailDirect(s)
  PROVE  Kept
<1>1. Sound(s) /\ Owed("fail", s)
  BY DEF AllSound, FailDirect
<1>2. ~NotYet(s)
  BY <1>1 DEF Sound, Debts
<1>3. /\ Fails(s) /\ sessions' = sessions /\ establish' = establish /\ attempt' = attempt
      /\ todo' = (todo \ {<<"fail", s>>}) \cup Aftermath(s)
  BY DEF FailDirect
<1>4. ToGo(s)' /\ (Owed("close", s)' <=> Owed("close", s))
  BY <1>3 DEF ToGo, Owed, Aftermath
<1>5. \A t \in Sessions : t # s => \A what \in Debts : Owed(what, t)' <=> Owed(what, t)
  BY <1>3 DEF Owed, Aftermath
<1>6. ~NotYet(s)'
  BY <1>2, <1>3 DEF NotYet
<1>7. s \in Attempts => establish'[s] \notin {"offered", "registered", "answering"}
  BY <1>1, <1>3 DEF Sound
<1>8. AllSound' /\ \A t \in Sessions : Ages(t)
  BY <1>2, <1>3, <1>4, <1>5, <1>6, <1>7, FailsStep
<1>9. todo' \in SUBSET ({"close", "fail", "record", "remove"} \X Sessions)
  BY <1>3 DEF Aftermath, TypeOK
<1>10. TypeOK'
  BY <1>3, <1>9, FailsCleared DEF FailDirect, mapVars, netVars, TypeOK
<1>. QED  BY <1>8, <1>10 DEF Kept

LEMMA KeptRecordFailure ==
  ASSUME TypeOK, AllSound, NEW s \in Sessions, RecordFailure(s)
  PROVE  Kept
<1>1. Sound(s) /\ Owed("record", s)
  BY DEF AllSound, RecordFailure
<1>2. todo' = (todo \ {<<"record", s>>}) \cup {<<"remove", s>>}
  BY DEF RecordFailure
<1>3. /\ ToGo(s)' /\ ~NotYet(s) /\ ~NotYet(s)'
      /\ Owed("close", s)' <=> Owed("close", s)
  BY <1>1, <1>2 DEF RecordFailure, ToGo, Owed, Sound, Debts, NotYet
<1>4. Sound(s)' /\ Ages(s)
  BY <1>1, <1>3 DEF RecordFailure, sessionVars, Sound, Ages
<1>5. \A t \in Sessions : t # s => SameTo(t)
  <2>1. \A t \in Sessions : t # s => \A what \in Debts : Owed(what, t)' <=> Owed(what, t)
    BY <1>2 DEF Owed
  <2>2. \A t \in Sessions : NotYet(t)' <=> NotYet(t)
    BY DEF RecordFailure, NotYet
  <2>. QED  BY <2>1, <2>2 DEF RecordFailure, sessionVars, SameTo
<1>6. AllSound' /\ \A t \in Sessions : Ages(t)
  BY <1>4, <1>5, OneTouched
<1>7. cooldown' \in [Exits -> Networks \cup {None}]
  BY NotedType DEF RecordFailure
<1>8. todo' \in SUBSET ({"close", "fail", "record", "remove"} \X Sessions)
  BY <1>2 DEF TypeOK
<1>9. TypeOK'
  BY <1>7, <1>8 DEF RecordFailure, sessionVars, netVars, TypeOK
<1>. QED  BY <1>6, <1>9 DEF Kept

LEMMA KeptRemoveFailed ==
  ASSUME TypeOK, AllSound, NEW s \in Sessions, RemoveFailed(s)
  PROVE  Kept
<1>1. Sound(s) /\ Owed("remove", s)
  BY DEF AllSound, RemoveFailed
<1>2. /\ sessions' = sessions \ {s}
      /\ todo' = (todo \ {<<"remove", s>>}) \cup Orphans({s})
      /\ UNCHANGED sessionVars
      /\ establish' = establish /\ attempt' = attempt
  BY DEF RemoveFailed
<1>3. ~NotYet(s) /\ ~NotYet(s)'
  BY <1>1, <1>2 DEF Sound, Debts, NotYet
<1>4. /\ \A t \in Sessions : t # s =>
           \A what \in Debts : Owed(what, t)' <=> Owed(what, t)
      /\ s \in sessions => Owed("close", s)'
      /\ s \notin sessions => (Owed("close", s)' <=> Owed("close", s))
  BY <1>2 DEF Owed, Orphans
<1>5. \A t \in Sessions : t # s => SameTo(t)
  BY <1>2, <1>4 DEF SameTo, NotYet, sessionVars
<1>6. Sound(s)' /\ Ages(s)
  <2>1. CASE s \in sessions
    BY <1>1, <1>2, <1>3, <1>4, <2>1, DropSound DEF Sound
  <2>2. CASE s \notin sessions
    <3>1. session'[s] = session[s] /\ socket'[s] = socket[s] /\ s \notin sessions'
      BY <1>2, <2>2 DEF sessionVars
    <3>. QED  BY <1>1, <1>2, <1>3, <1>4, <2>2, <3>1 DEF Sound, Ages
  <2>. QED  BY <2>1, <2>2
<1>7. AllSound' /\ \A t \in Sessions : Ages(t)
  BY <1>5, <1>6, OneTouched
<1>8. /\ sessions' \in SUBSET Sessions
      /\ todo' \in SUBSET ({"close", "fail", "record", "remove"} \X Sessions)
  BY <1>2 DEF Orphans, TypeOK
<1>9. TypeOK'
  BY <1>2, <1>8 DEF RemoveFailed, sessionVars, mapVars, netVars, TypeOK
<1>. QED  BY <1>7, <1>9 DEF Kept

\* A session that has left the map is closed, and its socket with it.
LEMMA KeptCloseDropped ==
  ASSUME TypeOK, AllSound, NEW s \in Sessions, CloseDropped(s)
  PROVE  Kept
<1>. DEFINE new == [Emptied(s) EXCEPT !.state = "closed", !.closed = TRUE]
<1>1. /\ Owed("close", s) /\ todo' = todo \ {<<"close", s>>} /\ CloseLocal(s)
      /\ UNCHANGED <<sessions, establish, attempt, mapVars, netVars, closer>>
  BY DEF CloseDropped, Done
<1>2. Sound(s) /\ s \notin sessions /\ ~NotYet(s) /\ ~NotYet(s)'
  BY <1>1 DEF AllSound, Sound, Debts, NotYet
<1>3. session[s] \in Records
  BY DEF TypeOK
<1>4. /\ new \in Records
      /\ new.closed /\ ~new.endpoint
      /\ new.answer = session[s].answer /\ new.client = session[s].client
  BY <1>3 DEF Emptied, Records, States
<1>5. \/ session[s].closed /\ UNCHANGED sessionVars
      \/ Released(s, new)
  BY <1>1 DEF CloseLocal
<1>6. socket[s] = "open" => session[s].endpoint
  BY <1>2 DEF Sound, NotYet, Sessions
<1>. HIDE DEF new
<1>7. /\ session' \in [Sessions -> Records]
      /\ path' \in [Sessions -> BOOLEAN]
      /\ socket' \in [Sessions -> {"none", "open", "closed"}]
      /\ session'[s].closed /\ ~session'[s].endpoint
      /\ session'[s].answer = session[s].answer /\ session'[s].client = session[s].client
      /\ socket'[s] # "open"
      /\ \A t \in Sessions : t # s =>
           session'[t] = session[t] /\ socket'[t] = socket[t]
  <2>1. CASE session[s].closed /\ UNCHANGED sessionVars
    BY <1>2, <1>6, <2>1 DEF sessionVars, TypeOK, Sound
  <2>2. CASE Released(s, new)
    BY <1>4, <1>6, <2>2, ReleasedStep
  <2>. QED  BY <1>5, <2>1, <2>2
<1>8. \A t \in Sessions : t # s => \A what \in Debts : Owed(what, t)' <=> Owed(what, t)
  BY <1>1 DEF Owed
<1>9. Sound(s)' /\ Ages(s)
  BY <1>1, <1>2, <1>7 DEF Sound, Ages
<1>10. \A t \in Sessions : t # s => SameTo(t)
  BY <1>1, <1>7, <1>8 DEF SameTo, NotYet
<1>11. AllSound' /\ \A t \in Sessions : Ages(t)
  BY <1>9, <1>10, OneTouched
<1>12. todo' \in SUBSET ({"close", "fail", "record", "remove"} \X Sessions)
  BY <1>1 DEF TypeOK
<1>13. TypeOK'
  BY <1>1, <1>7, <1>12 DEF mapVars, netVars, TypeOK
<1>. QED  BY <1>11, <1>13 DEF Kept

\* Sessions are dropped by whoever owes them nothing.
LEMMA DropOnly ==
  ASSUME TypeOK, AllSound, NEW S \in SUBSET Sessions, Drop(S),
         UNCHANGED <<sessionVars, establish, attempt>>
  PROVE  /\ AllSound'
         /\ \A s \in Sessions : Ages(s)
<1>1. \A s \in Sessions : NotYet(s)' <=> NotYet(s)
  BY DEF NotYet
<1>2. \A s \in S \cap sessions : Sound(s) /\ ~NotYet(s)
  BY DEF AllSound, Sound
<1>3. \A s \in S \cap sessions : s \in Attempts =>
        establish'[s] \notin {"offered", "registered", "answering"}
  BY <1>2 DEF Sound
<1>. QED  BY <1>1, <1>2, <1>3, Orphaned, DropStep

LEMMA KeptRemove ==
  ASSUME TypeOK, AllSound, NEW s \in Sessions, Remove(s)
  PROVE  Kept
<1>1. Drop({s}) /\ UNCHANGED <<sessionVars, establish, attempt>>
  BY DEF Remove
<1>2. AllSound' /\ \A t \in Sessions : Ages(t)
  BY <1>1, DropOnly
<1>3. TypeOK'
  BY <1>1, Orphaned DEF Remove, sessionVars, mapVars, netVars, TypeOK
<1>. QED  BY <1>2, <1>3 DEF Kept

LEMMA KeptReap ==
  ASSUME TypeOK, AllSound, NEW S \in SUBSET Sessions, Reap(S)
  PROVE  Kept
<1>1. Drop(S) /\ UNCHANGED <<sessionVars, establish, attempt>>
  BY DEF Reap
<1>2. AllSound' /\ \A t \in Sessions : Ages(t)
  BY <1>1, DropOnly
<1>3. TypeOK'
  BY <1>1, Orphaned DEF Reap, sessionVars, mapVars, netVars, TypeOK
<1>. QED  BY <1>2, <1>3 DEF Kept

\* A failure is owed to sessions that have been made.
LEMMA OweFailures ==
  ASSUME TypeOK, AllSound, NEW S \in SUBSET Sessions, Owe({"fail"} \X S),
         \A s \in S : s \in sessions \/ session[s].client,
         UNCHANGED <<sessions, sessionVars, establish, attempt>>
  PROVE  /\ AllSound'
         /\ \A s \in Sessions : Ages(s)
         /\ todo' \in SUBSET ({"close", "fail", "record", "remove"} \X Sessions)
<1>1. todo' = todo \cup ({"fail"} \X S)
  BY DEF Owe
<1>2. \A s \in Sessions : NotYet(s)' <=> NotYet(s)
  BY DEF NotYet
<1>3. \A s \in Sessions : \A what \in Debts :
        Owed(what, s)' <=> Owed(what, s) \/ (what = "fail" /\ s \in S)
  BY <1>1 DEF Owed
<1>4. ASSUME NEW s \in Sessions PROVE Sound(s)' /\ Ages(s)
  <2>1. Sound(s)
    BY DEF AllSound
  <2>2. CASE s \notin S
    <3>1. SameTo(s)
      BY <1>2, <1>3, <2>2 DEF SameTo, sessionVars
    <3>. QED  BY <2>1, <3>1, SameIsSound
  <2>3. CASE s \in S
    <3>1. NewSession.client = FALSE
      BY DEF NewSession
    <3>2. ~NotYet(s)
      BY <2>1, <2>3, <3>1 DEF Sound
    <3>3. /\ ToGo(s)' <=> ToGo(s)
          /\ Owed("close", s)' <=> Owed("close", s)
      BY <1>3 DEF ToGo, Debts
    <3>. QED  BY <1>2, <2>1, <3>2, <3>3 DEF Sound, Ages, sessionVars
  <2>. QED  BY <2>2, <2>3
<1>5. todo' \in SUBSET ({"close", "fail", "record", "remove"} \X Sessions)
  BY <1>1 DEF TypeOK
<1>. QED  BY <1>4, <1>5 DEF AllSound

LEMMA KeptExpire ==
  ASSUME TypeOK, AllSound, NEW s \in Sessions, Expire(s)
  PROVE  Kept
<1>1. {<<"fail", s>>} = {"fail"} \X {s}
  OBVIOUS
<1>2. /\ AllSound' /\ \A t \in Sessions : Ages(t)
      /\ todo' \in SUBSET ({"close", "fail", "record", "remove"} \X Sessions)
  <2>1. Owe({"fail"} \X {s})
    BY <1>1 DEF Expire
  <2>2. /\ {s} \in SUBSET Sessions
        /\ \A t \in {s} : t \in sessions \/ session[t].client
        /\ UNCHANGED <<sessions, sessionVars, establish, attempt>>
    BY DEF Expire
  <2>. QED  BY <2>1, <2>2, OweFailures
<1>3. TypeOK'
  BY <1>2 DEF Expire, sessionVars, mapVars, netVars, TypeOK
<1>. QED  BY <1>2, <1>3 DEF Kept

LEMMA KeptFailReady ==
  ASSUME TypeOK, AllSound, NEW e \in Exits, FailReadyForExit(e)
  PROVE  Kept
<1>. DEFINE S == ReadyClients \cap SessionsFor(e)
<1>1. S \in SUBSET Sessions /\ \A s \in S : s \in sessions
  BY DEF ReadyClients, TypeOK
<1>2. Owe({"fail"} \X S) /\ UNCHANGED <<sessions, sessionVars, establish, attempt>>
  BY DEF FailReadyForExit
<1>. HIDE DEF S
<1>3. /\ AllSound' /\ \A t \in Sessions : Ages(t)
      /\ todo' \in SUBSET ({"close", "fail", "record", "remove"} \X Sessions)
  BY <1>1, <1>2, OweFailures
<1>4. TypeOK'
  BY <1>3 DEF FailReadyForExit, sessionVars, mapVars, netVars, TypeOK
<1>. QED  BY <1>3, <1>4 DEF Kept

\* Steps that no session takes part in.
LEMMA Apart ==
  ASSUME AllSound, UNCHANGED <<sessions, session, socket, establish, todo>>,
         \A s \in Attempts : attempt'[s] = attempt[s]
  PROVE  /\ AllSound'
         /\ \A s \in Sessions : Ages(s)
<1>1. \A s \in Sessions : SameTo(s)
  BY DEF SameTo, Owed, NotYet
<1>. QED  BY <1>1, NoneTouched

LEMMA KeptPathEnds ==
  ASSUME TypeOK, AllSound, NEW s \in Sessions, PathEnds(s)
  PROVE  Kept
<1>1. AllSound' /\ \A t \in Sessions : Ages(t)
  BY Apart DEF PathEnds
<1>2. TypeOK'
  BY DEF PathEnds, mapVars, netVars, TypeOK
<1>. QED  BY <1>1, <1>2 DEF Kept

\* An attempt gets on, without anything happening to its session.
LEMMA AtOnly ==
  ASSUME TypeOK, AllSound, NEW a \in Attempts, attempt[a].at # "unused",
         attempt[a].at # "asking",
         NEW step \in AttemptSteps, At(a, step),
         step \in {"unused", "starting", "preparing", "asking"} => NotYet(a),
         UNCHANGED <<sessions, session, socket, establish, todo>>
  PROVE  /\ AllSound'
         /\ \A s \in Sessions : Ages(s)
         /\ attempt' \in [Attempts -> Attempting \cup {Unused}]
<1>1. attempt'[a].at = step /\ \A b \in Attempts : b # a => attempt'[b] = attempt[b]
  BY AtStep
<1>2. \A s \in Sessions : NotYet(s)' => NotYet(s)
  BY <1>1 DEF NotYet
<1>3. \A s \in Sessions : SameTo(s)
  BY <1>1, <1>2 DEF SameTo, Owed
<1>. QED  BY <1>3, NoneTouched, AtStep

LEMMA KeptEnsureClient ==
  ASSUME TypeOK, AllSound, NEW e \in Exits, EnsureClient(e)
  PROVE  Kept
<1>1. PICK a \in Attempts :
        /\ attempt[a] = Unused
        /\ attempt' = [attempt EXCEPT
             ![a] = [at |-> "starting", exit |-> e, epoch |-> epoch]]
        /\ starting' = [starting EXCEPT ![e] = a]
  BY DEF EnsureClient
<1>. DEFINE new == [at |-> "starting", exit |-> e, epoch |-> epoch]
<1>2. new \in Attempting /\ new.at = "starting"
  BY DEF Attempting, AttemptSteps, TypeOK
<1>. HIDE DEF new
<1>3. attempt' = [attempt EXCEPT ![a] = new]
  BY <1>1 DEF new
<1>4. /\ attempt'[a] = new
      /\ \A b \in Attempts : b # a => attempt'[b] = attempt[b]
      /\ attempt' \in [Attempts -> Attempting \cup {Unused}]
  BY <1>2, <1>3 DEF TypeOK
<1>5. Unused.at = "unused"
  BY DEF Unused
<1>6. \A s \in Sessions : NotYet(s)' => NotYet(s)
  BY <1>1, <1>4, <1>5 DEF NotYet, EnsureClient
<1>7. \A s \in Sessions : SameTo(s)
  BY <1>1, <1>2, <1>4, <1>5, <1>6 DEF SameTo, Owed, EnsureClient, sessionVars
<1>8. AllSound' /\ \A t \in Sessions : Ages(t)
  BY <1>7, NoneTouched
<1>9. starting' \in [Exits -> Attempts \cup {None}]
  BY <1>1 DEF TypeOK
<1>10. TypeOK'
  BY <1>4, <1>9 DEF EnsureClient, sessionVars, netVars, TypeOK
<1>. QED  BY <1>8, <1>10 DEF Kept

LEMMA KeptPruneExit ==
  ASSUME TypeOK, AllSound, NEW a \in Attempts, PruneExit(a)
  PROVE  Kept
<1>1. attempt[a].at = "starting" /\ NotYet(a)
  BY DEF PruneExit, NotYet
<1>2. CASE Closed
  <2>1. At(a, "failed") /\ UNCHANGED <<sessions, sessionVars, establish, todo>>
    BY <1>2 DEF PruneExit
  <2>2. /\ AllSound' /\ \A t \in Sessions : Ages(t)
        /\ attempt' \in [Attempts -> Attempting \cup {Unused}]
    BY <1>1, <2>1, AtOnly DEF AttemptSteps, sessionVars
  <2>3. TypeOK'
    BY <2>1, <2>2 DEF PruneExit, sessionVars, mapVars, netVars, TypeOK
  <2>. QED  BY <2>2, <2>3 DEF Kept
<1>3. CASE ~Closed
  <2>. DEFINE S == Stale(attempt[a].exit)
  <2>1. /\ At(a, "preparing") /\ Drop(S)
        /\ UNCHANGED <<sessionVars, establish, mapVars, netVars, closer>>
    BY <1>3 DEF PruneExit
  <2>2. S \in SUBSET Sessions /\ S \subseteq sessions
    BY DEF Stale, SessionsFor, TypeOK
  <2>. HIDE DEF S
  <2>3. /\ attempt'[a].at = "preparing"
        /\ \A b \in Attempts : b # a => attempt'[b] = attempt[b]
        /\ attempt' \in [Attempts -> Attempting \cup {Unused}]
    BY <1>1, <2>1, AtStep DEF AttemptSteps
  <2>4. \A s \in Sessions : NotYet(s)' <=> NotYet(s)
    BY <1>1, <2>1, <2>3 DEF NotYet
  <2>5. \A s \in S \cap sessions : Sound(s) /\ ~NotYet(s)
    BY <2>2 DEF AllSound, Sound
  <2>6. \A s \in S \cap sessions : s \in Attempts =>
          establish'[s] \notin {"offered", "registered", "answering"}
    BY <2>1, <2>5 DEF Sound
  <2>7. \A s \in Sessions \ (S \cap sessions) :
          /\ establish'[s] = establish[s]
          /\ s \in Attempts /\ attempt[s].at = "asking" => attempt'[s].at = "asking"
    BY <1>1, <2>1, <2>3
  <2>8. AllSound' /\ \A t \in Sessions : Ages(t)
    BY <2>1, <2>2, <2>4, <2>5, <2>6, <2>7, Orphaned, DropStep
  <2>9. TypeOK'
    BY <2>1, <2>2, <2>3, Orphaned DEF sessionVars, mapVars, netVars, TypeOK
  <2>. QED  BY <2>8, <2>9 DEF Kept
<1>. QED  BY <1>2, <1>3

\* The session of an attempt is made, or given up before it is.
LEMMA Unmade ==
  ASSUME TypeOK, AllSound, NEW s \in Sessions, NotYet(s), sessions' \in SUBSET Sessions,
         sessions' \subseteq sessions \cup {s}, sessions \subseteq sessions',
         UNCHANGED <<session, todo>>,
         \A t \in Sessions : t # s => socket'[t] = socket[t] /\ establish'[t] = establish[t],
         \A t \in Attempts : t # s => attempt'[t] = attempt[t],
         s \in Attempts => establish'[s] = establish[s],
         NotYet(s)' => s \notin sessions',
         socket'[s] = "open" =>
           \/ s \in Attempts /\ attempt'[s].at = "asking"
           \/ establish'[s] = "offered"
           \/ s \in sessions'
  PROVE  /\ AllSound'
         /\ \A t \in Sessions : Ages(t)
<1>1. /\ s \notin sessions /\ session[s] = NewSession
      /\ \A what \in Debts : ~Owed(what, s)
      /\ s \in Attempts => establish[s] = "none"
  BY DEF AllSound, Sound
<1>2. /\ NewSession.state = "rendezvous" /\ ~NewSession.closed
      /\ NewSession.endpoint /\ ~NewSession.client /\ ~NewSession.answer
  BY DEF NewSession
<1>3. \A t \in Sessions : \A what \in Debts : Owed(what, t)' <=> Owed(what, t)
  BY DEF Owed
<1>4. Sound(s)' /\ Ages(s)
  BY <1>1, <1>2, <1>3 DEF Sound, Ages, ToGo, Debts
<1>5. \A t \in Sessions : t # s => SameTo(t)
  BY <1>3 DEF SameTo, NotYet
<1>. QED  BY <1>4, <1>5, OneTouched

LEMMA KeptPrepareLocal ==
  ASSUME TypeOK, AllSound, NEW a \in Attempts, PrepareLocal(a)
  PROVE  Kept
<1>1. attempt[a].at = "preparing" /\ NotYet(a) /\ a \in Sessions
  BY Kinds DEF PrepareLocal, NotYet
<1>2. PICK step \in {"asking", "failed"} :
        /\ At(a, step)
        /\ socket' = IF step = "asking" THEN [socket EXCEPT ![a] = "open"] ELSE socket
  BY DEF PrepareLocal, Opens
<1>3. /\ attempt'[a].at = step
      /\ \A b \in Attempts : b # a => attempt'[b] = attempt[b]
      /\ attempt' \in [Attempts -> Attempting \cup {Unused}]
  BY <1>1, <1>2, AtStep DEF AttemptSteps
<1>4. /\ socket' \in [Sessions -> {"none", "open", "closed"}]
      /\ \A t \in Sessions : t # a => socket'[t] = socket[t]
      /\ step # "asking" => socket'[a] = socket[a]
  BY <1>1, <1>2 DEF TypeOK
<1>5. UNCHANGED <<sessions, session, establish, todo, path>>
  BY DEF PrepareLocal
<1>6. a \notin sessions /\ socket[a] # "open"
  BY <1>1, Kinds DEF AllSound, Sound, Debts
<1>7. sessions' \in SUBSET Sessions
  BY <1>5 DEF TypeOK
<1>8. AllSound' /\ \A t \in Sessions : Ages(t)
  BY <1>1, <1>2, <1>3, <1>4, <1>5, <1>6, <1>7, Unmade
<1>9. TypeOK'
  BY <1>3, <1>4 DEF PrepareLocal, mapVars, netVars, TypeOK
<1>. QED  BY <1>8, <1>9 DEF Kept

\* newSessionWithEndpoint either makes the session or closes the socket.
LEMMA Registering ==
  ASSUME TypeOK, NEW s \in Sessions, Registers(s) \/ NotRegistered(s)
  PROVE  /\ socket' \in [Sessions -> {"none", "open", "closed"}]
         /\ sessions' \in SUBSET Sessions
         /\ sessions \subseteq sessions' /\ sessions' \subseteq sessions \cup {s}
         /\ \A t \in Sessions : t # s => socket'[t] = socket[t]
         /\ socket'[s] # "closed" => s \in sessions'
BY DEF Registers, NotRegistered, TypeOK

LEMMA KeptConnect ==
  ASSUME TypeOK, AllSound, NEW a \in Attempts, ConnectGranted(a) \/ ConnectFails(a)
  PROVE  Kept
<1>1. attempt[a].at = "asking" /\ NotYet(a) /\ a \in Sessions
  BY Kinds DEF ConnectGranted, ConnectFails, NotYet
<1>2. /\ Registers(a) \/ NotRegistered(a)
      /\ \E step \in {"registering", "failed"} : At(a, step)
      /\ UNCHANGED <<session, path, establish, todo, mapVars, netVars, closer>>
  BY DEF ConnectGranted, ConnectFails
<1>3. PICK step \in {"registering", "failed"} : At(a, step)
  BY <1>2
<1>4. /\ attempt'[a].at = step
      /\ \A b \in Attempts : b # a => attempt'[b] = attempt[b]
      /\ attempt' \in [Attempts -> Attempting \cup {Unused}]
  BY <1>1, <1>3, AtStep DEF AttemptSteps
<1>5. ~NotYet(a)'
  BY <1>4, Kinds DEF NotYet
<1>6. AllSound' /\ \A t \in Sessions : Ages(t)
  BY <1>1, <1>2, <1>4, <1>5, Registering, Unmade
<1>7. TypeOK'
  BY <1>1, <1>2, <1>4, Registering DEF mapVars, netVars, TypeOK
<1>. QED  BY <1>6, <1>7 DEF Kept

\* A session that has been made is changed, not ended.
LEMMA Edited ==
  ASSUME TypeOK, AllSound, NEW s \in Sessions, ~NotYet(s), ~NotYet(s)',
         UNCHANGED <<sessions, socket, todo>>,
         \A t \in Sessions : t # s =>
           session'[t] = session[t] /\ establish'[t] = establish[t],
         \A t \in Attempts : t # s => attempt'[t] = attempt[t],
         s \in Attempts => establish'[s] \notin {"offered", "registered", "answering"},
         session'[s].closed = session[s].closed,
         session'[s].endpoint = session[s].endpoint,
         session'[s].client => s \in Attempts,
         session[s].answer => session'[s].answer,
         s \in sessions => \/ session'[s].state = session[s].state
                           \/ session'[s].state \notin {"closed", "degraded"}
  PROVE  /\ AllSound'
         /\ \A t \in Sessions : Ages(t)
<1>1. \A t \in Sessions : \A what \in Debts : Owed(what, t)' <=> Owed(what, t)
  BY DEF Owed
<1>2. Sound(s)
  BY DEF AllSound
<1>3. ToGo(s)' <=> ToGo(s)
  BY <1>1 DEF ToGo, Debts
<1>4. socket[s] = "open" =>
        (s \in sessions \/ Owed("close", s)) /\ session[s].endpoint
  BY <1>2 DEF Sound, NotYet, Sessions
<1>5. Owed("close", s)' <=> Owed("close", s)
  BY <1>1 DEF Debts
<1>7. Sound(s)' /\ Ages(s)
  BY <1>2, <1>3, <1>4, <1>5 DEF Sound, Ages
<1>6. \A t \in Sessions : t # s => SameTo(t)
  BY <1>1 DEF SameTo, NotYet
<1>. QED  BY <1>7, <1>6, OneTouched

\* establish gets on.
LEMMA MoveStep ==
  ASSUME TypeOK, NEW s \in Sessions, NEW step \in EstablishSteps, Move(s, step)
  PROVE  /\ establish' \in [Sessions -> EstablishSteps]
         /\ establish'[s] = step
         /\ \A t \in Sessions : t # s => establish'[t] = establish[t]
BY DEF Move, TypeOK

\* The peer's description reaches the session.
LEMMA AnswerStep ==
  ASSUME TypeOK, NEW a \in Attempts, NEW client \in BOOLEAN, AnswerApplies(a, client)
  PROVE  /\ session' \in [Sessions -> Records]
         /\ establish' \in [Sessions -> EstablishSteps]
         /\ \A t \in Sessions : t # a =>
              session'[t] = session[t] /\ establish'[t] = establish[t]
         /\ establish'[a] \in {"spawned", establish[a]}
         /\ session'[a].answer /\ session'[a].client = client
         /\ session'[a].closed = session[a].closed
         /\ session'[a].endpoint = session[a].endpoint
         /\ session'[a].state = session[a].state
<1>. DEFINE new == [session[a] EXCEPT !.answer = TRUE, !.client = client]
<1>0. a \in Sessions
  BY Kinds
<1>1. session[a] \in Records
  BY <1>0 DEF TypeOK
<1>2. /\ new \in Records /\ new.answer /\ new.client = client
      /\ new.closed = session[a].closed /\ new.endpoint = session[a].endpoint
      /\ new.state = session[a].state
  BY <1>1 DEF Records
<1>3. session' = [session EXCEPT ![a] = new]
  BY <1>0, <1>1 DEF AnswerApplies, Records, TypeOK
<1>. HIDE DEF new
<1>4. /\ session' \in [Sessions -> Records] /\ session'[a] = new
      /\ \A t \in Sessions : t # a => session'[t] = session[t]
  BY <1>0, <1>2, <1>3 DEF TypeOK
<1>5. /\ establish' \in [Sessions -> EstablishSteps]
      /\ \A t \in Sessions : t # a => establish'[t] = establish[t]
      /\ establish'[a] \in {"spawned", establish[a]}
  BY <1>0, MoveStep DEF AnswerApplies, EstablishSteps, TypeOK
<1>. QED  BY <1>2, <1>4, <1>5

\* An attempt is never in the steps of an offer.
LEMMA Answerable ==
  ASSUME AllSound, NEW a \in Attempts
  PROVE  establish[a] \notin {"offered", "registered", "answering"}
BY Kinds DEF AllSound, Sound

LEMMA KeptConsumePending ==
  ASSUME TypeOK, AllSound, NEW a \in Attempts, ConsumePending(a)
  PROVE  Kept
<1>1. /\ attempt[a].at = "registering" /\ At(a, "returned") /\ a \in Sessions
      /\ UNCHANGED <<sessions, socket, path, todo, starting, cooldown, evicted,
                     answered, netVars, closer>>
      /\ pending' = pending \ {a}
  BY Kinds DEF ConsumePending
<1>2. /\ attempt'[a].at = "returned"
      /\ \A b \in Attempts : b # a => attempt'[b] = attempt[b]
      /\ attempt' \in [Attempts -> Attempting \cup {Unused}]
  BY <1>1, AtStep DEF AttemptSteps
<1>3. ~NotYet(a) /\ ~NotYet(a)'
  BY <1>1, <1>2, Kinds DEF NotYet
<1>4. /\ session' \in [Sessions -> Records]
      /\ establish' \in [Sessions -> EstablishSteps]
      /\ \A t \in Sessions : t # a =>
           session'[t] = session[t] /\ establish'[t] = establish[t]
      /\ establish'[a] \in {"spawned", establish[a]}
      /\ session[a].answer => session'[a].answer
      /\ session'[a].closed = session[a].closed
      /\ session'[a].endpoint = session[a].endpoint
      /\ session'[a].state = session[a].state
  <2>1. CASE a \in pending
    <3>1. AnswerApplies(a, TRUE)
      BY <2>1 DEF ConsumePending
    <3>. QED  BY <3>1, AnswerStep
  <2>2. CASE a \notin pending
    <3>1. session' = [session EXCEPT ![a].client = TRUE] /\ establish' = establish
      BY <2>2 DEF ConsumePending
    <3>2. session[a] \in Records
      BY <1>1 DEF TypeOK
    <3>. QED  BY <1>1, <3>1, <3>2 DEF Records, TypeOK
  <2>. QED  BY <2>1, <2>2
<1>5. AllSound' /\ \A t \in Sessions : Ages(t)
  BY <1>1, <1>2, <1>3, <1>4, Edited, Answerable
<1>6. TypeOK'
  BY <1>1, <1>2, <1>4 DEF netVars, TypeOK
<1>. QED  BY <1>5, <1>6 DEF Kept

LEMMA KeptAnswerArrives ==
  ASSUME TypeOK, AllSound, NEW a \in Attempts, AnswerArrives(a)
  PROVE  Kept
<1>1. /\ UNCHANGED <<sessions, socket, path, todo, attempt, starting, cooldown,
                     netVars, closer>>
      /\ answered' = answered \cup {a}
  BY DEF AnswerArrives
<1>2. CASE a \in sessions
  <2>1. AnswerApplies(a, session[a].client) /\ UNCHANGED <<pending, evicted>>
    BY <1>2 DEF AnswerArrives
  <2>2. session[a].client \in BOOLEAN /\ a \in Sessions
    BY Kinds DEF TypeOK, Records
  <2>3. ~NotYet(a) /\ ~NotYet(a)'
    BY <1>1, <1>2, <2>2, Kinds DEF AllSound, Sound, NotYet
  <2>4. AllSound' /\ \A t \in Sessions : Ages(t)
    BY <1>1, <2>1, <2>2, <2>3, Edited, AnswerStep, Answerable
  <2>5. TypeOK'
    BY <1>1, <2>1, <2>2, AnswerStep DEF netVars, TypeOK
  <2>. QED  BY <2>4, <2>5 DEF Kept
<1>3. CASE a \notin sessions
  <2>1. /\ UNCHANGED <<session, establish>>
        /\ \E lost \in SUBSET pending :
             pending' = (pending \ lost) \cup {a} /\ evicted' = evicted \cup lost
    BY <1>3 DEF AnswerArrives
  <2>2. AllSound' /\ \A t \in Sessions : Ages(t)
    BY <1>1, <2>1, Apart
  <2>3. TypeOK'
    BY <1>1, <2>1 DEF netVars, TypeOK
  <2>. QED  BY <2>2, <2>3 DEF Kept
<1>. QED  BY <1>2, <1>3

LEMMA KeptCheckEpoch ==
  ASSUME TypeOK, AllSound, NEW a \in Attempts, CheckEpoch(a)
  PROVE  Kept
<1>1. /\ attempt[a].at \in {"returned", "failed"}
      /\ \E step \in {"dropping", "recording", "clearing"} : At(a, step)
      /\ UNCHANGED <<sessions, sessionVars, establish, todo, mapVars, netVars, closer>>
  BY DEF CheckEpoch
<1>2. /\ AllSound' /\ \A t \in Sessions : Ages(t)
      /\ attempt' \in [Attempts -> Attempting \cup {Unused}]
  BY <1>1, AtOnly DEF AttemptSteps, sessionVars
<1>3. TypeOK'
  BY <1>1, <1>2 DEF sessionVars, mapVars, netVars, TypeOK
<1>. QED  BY <1>2, <1>3 DEF Kept

LEMMA KeptNoteFailure ==
  ASSUME TypeOK, AllSound, NEW a \in Attempts, NoteFailure(a)
  PROVE  Kept
<1>1. /\ attempt[a].at = "recording" /\ At(a, "clearing") /\ Noted(attempt[a].exit)
      /\ UNCHANGED <<sessions, sessionVars, establish, todo, starting, pending,
                     evicted, answered, netVars, closer>>
  BY DEF NoteFailure
<1>2. /\ AllSound' /\ \A t \in Sessions : Ages(t)
      /\ attempt' \in [Attempts -> Attempting \cup {Unused}]
  BY <1>1, AtOnly DEF AttemptSteps, sessionVars
<1>3. cooldown' \in [Exits -> Networks \cup {None}]
  BY <1>1, NotedType
<1>4. TypeOK'
  BY <1>1, <1>2, <1>3 DEF sessionVars, netVars, TypeOK
<1>. QED  BY <1>2, <1>4 DEF Kept

LEMMA KeptClearStarting ==
  ASSUME TypeOK, AllSound, NEW a \in Attempts, ClearStarting(a)
  PROVE  Kept
<1>1. /\ attempt[a].at = "clearing" /\ At(a, "ended")
      /\ starting' = [e \in Exits |-> IF starting[e] = a THEN None ELSE starting[e]]
      /\ UNCHANGED <<sessions, sessionVars, establish, todo, cooldown, pending,
                     evicted, answered, netVars, closer>>
  BY DEF ClearStarting
<1>2. /\ AllSound' /\ \A t \in Sessions : Ages(t)
      /\ attempt' \in [Attempts -> Attempting \cup {Unused}]
  BY <1>1, AtOnly DEF AttemptSteps, sessionVars
<1>3. starting' \in [Exits -> Attempts \cup {None}]
  BY <1>1 DEF TypeOK
<1>4. TypeOK'
  BY <1>1, <1>2, <1>3 DEF sessionVars, netVars, TypeOK
<1>. QED  BY <1>2, <1>4 DEF Kept

LEMMA KeptDropOld ==
  ASSUME TypeOK, AllSound, NEW a \in Attempts, DropOld(a)
  PROVE  Kept
<1>1. /\ attempt[a].at = "dropping" /\ At(a, "clearing") /\ Drop({a})
      /\ UNCHANGED <<sessionVars, establish, mapVars, netVars, closer>>
      /\ {a} \in SUBSET Sessions
  BY Kinds DEF DropOld
<1>2. /\ attempt'[a].at = "clearing"
      /\ \A b \in Attempts : b # a => attempt'[b] = attempt[b]
      /\ attempt' \in [Attempts -> Attempting \cup {Unused}]
  BY <1>1, AtStep DEF AttemptSteps
<1>3. /\ \A s \in Sessions : NotYet(s)' => NotYet(s)
      /\ ~NotYet(a)'
  BY <1>1, <1>2, Kinds DEF NotYet
<1>4. \A s \in {a} \cap sessions : s \in Attempts =>
        establish'[s] \notin {"offered", "registered", "answering"}
  BY <1>1, Answerable
<1>5. \A s \in Sessions :
        /\ establish'[s] = establish[s]
        /\ s \in Attempts /\ attempt[s].at = "asking" => attempt'[s].at = "asking"
  BY <1>1, <1>2
<1>6. AllSound' /\ \A t \in Sessions : Ages(t)
  BY <1>1, <1>3, <1>4, <1>5, Orphaned, DropStep
<1>7. TypeOK'
  BY <1>1, <1>2, Orphaned DEF sessionVars, mapVars, netVars, TypeOK
<1>. QED  BY <1>6, <1>7 DEF Kept

LEMMA KeptCooldownEnds ==
  ASSUME TypeOK, AllSound, NEW e \in Exits, CooldownEnds(e)
  PROVE  Kept
<1>1. AllSound' /\ \A t \in Sessions : Ages(t)
  BY Apart DEF CooldownEnds, sessionVars
<1>2. TypeOK'
  BY DEF CooldownEnds, sessionVars, netVars, TypeOK
<1>. QED  BY <1>1, <1>2 DEF Kept

\* What belongs to offers is no attempt's.
LEMMA OffersOnly ==
  ASSUME AllSound, NEW o \in Sessions, establish[o] \in {"offered", "registered", "answering"}
  PROVE  o \in Offers /\ o \notin Attempts
BY Kinds DEF AllSound, Sound

LEMMA KeptOfferArrives ==
  ASSUME TypeOK, AllSound, NEW o \in Offers, OfferArrives(o)
  PROVE  Kept
<1>1. /\ establish[o] = "none" /\ NotYet(o) /\ o \in Sessions /\ o \notin Attempts
      /\ UNCHANGED <<sessions, session, path, todo, attempt, mapVars, netVars, closer>>
  BY Kinds DEF OfferArrives, NotYet
<1>2. PICK step \in {"offered", "over"} :
        /\ Move(o, step)
        /\ socket' = IF step = "offered" THEN [socket EXCEPT ![o] = "open"] ELSE socket
  BY DEF OfferArrives, Opens
<1>3. /\ establish'[o] = step
      /\ \A t \in Sessions : t # o => establish'[t] = establish[t]
      /\ establish' \in [Sessions -> EstablishSteps]
  BY <1>1, <1>2, MoveStep DEF EstablishSteps
<1>4. /\ socket' \in [Sessions -> {"none", "open", "closed"}]
      /\ \A t \in Sessions : t # o => socket'[t] = socket[t]
      /\ step # "offered" => socket'[o] = socket[o]
  BY <1>1, <1>2 DEF TypeOK
<1>5. o \notin sessions /\ socket[o] # "open"
  BY <1>1 DEF AllSound, Sound, Debts
<1>6. sessions' \in SUBSET Sessions
  BY <1>1 DEF TypeOK
<1>7. AllSound' /\ \A t \in Sessions : Ages(t)
  BY <1>1, <1>3, <1>4, <1>5, <1>6, Unmade
<1>8. TypeOK'
  BY <1>1, <1>3, <1>4 DEF mapVars, netVars, TypeOK
<1>. QED  BY <1>7, <1>8 DEF Kept

LEMMA KeptOfferRegisters ==
  ASSUME TypeOK, AllSound, NEW o \in Sessions, OfferRegisters(o)
  PROVE  Kept
<1>1. establish[o] = "offered" /\ NotYet(o) /\ o \notin Attempts
  BY OffersOnly DEF OfferRegisters, NotYet
<1>2. /\ Registers(o) \/ NotRegistered(o)
      /\ \E step \in {"registered", "over"} : Move(o, step)
      /\ UNCHANGED <<session, path, todo, attempt, mapVars, netVars, closer>>
  BY DEF OfferRegisters
<1>3. PICK step \in {"registered", "over"} : Move(o, step)
  BY <1>2
<1>4. /\ establish'[o] = step
      /\ \A t \in Sessions : t # o => establish'[t] = establish[t]
      /\ establish' \in [Sessions -> EstablishSteps]
  BY <1>3, MoveStep DEF EstablishSteps
<1>5. ~NotYet(o)'
  BY <1>1, <1>4 DEF NotYet
<1>6. AllSound' /\ \A t \in Sessions : Ages(t)
  BY <1>1, <1>2, <1>4, <1>5, Registering, Unmade
<1>7. TypeOK'
  BY <1>2, <1>4, Registering DEF mapVars, netVars, TypeOK
<1>. QED  BY <1>6, <1>7 DEF Kept

LEMMA KeptOfferAccepted ==
  ASSUME TypeOK, AllSound, NEW o \in Sessions, OfferAccepted(o)
  PROVE  Kept
<1>. DEFINE new == [session[o] EXCEPT !.answer = TRUE, !.state = "rendezvous"]
<1>1. /\ establish[o] = "registered" /\ Move(o, "answering")
      /\ UNCHANGED <<sessions, socket, path, todo, attempt, mapVars, netVars, closer>>
      /\ o \notin Attempts
  BY OffersOnly DEF OfferAccepted
<1>2. session[o] \in Records
  BY DEF TypeOK
<1>3. /\ new \in Records /\ new.answer /\ new.state = "rendezvous"
      /\ new.client = session[o].client /\ new.closed = session[o].closed
      /\ new.endpoint = session[o].endpoint
  BY <1>2 DEF Records, States
<1>4. session' = [session EXCEPT ![o] = new]
  BY <1>2 DEF OfferAccepted, Records, TypeOK
<1>. HIDE DEF new
<1>5. /\ session'[o] = new
      /\ \A t \in Sessions : t # o => session'[t] = session[t]
      /\ session' \in [Sessions -> Records]
  BY <1>3, <1>4 DEF TypeOK
<1>6. /\ establish'[o] = "answering"
      /\ \A t \in Sessions : t # o => establish'[t] = establish[t]
      /\ establish' \in [Sessions -> EstablishSteps]
  BY <1>1, MoveStep DEF EstablishSteps
<1>7. ~NotYet(o) /\ ~NotYet(o)' /\ (session[o].client => o \in Attempts)
  BY <1>1, <1>6 DEF NotYet, AllSound, Sound
<1>8. AllSound' /\ \A t \in Sessions : Ages(t)
  BY <1>1, <1>3, <1>5, <1>6, <1>7, Edited
<1>9. TypeOK'
  BY <1>1, <1>5, <1>6 DEF mapVars, netVars, TypeOK
<1>. QED  BY <1>8, <1>9 DEF Kept

\* What establish has been called for has been made, and stays so.
Early == {"none", "offered", "registered", "answering"}

LEMMA Made ==
  ASSUME TypeOK, AllSound, NEW s \in Sessions, establish[s] \notin {"none", "offered"},
         NEW step \in EstablishSteps \ Early, Move(s, step), attempt' = attempt
  PROVE  /\ ~NotYet(s) /\ ~NotYet(s)'
         /\ establish' \in [Sessions -> EstablishSteps]
         /\ establish'[s] = step
         /\ \A t \in Sessions : t # s => establish'[t] = establish[t]
<1>1. ~NotYet(s)
  BY DEF AllSound, Sound, NotYet
<1>2. /\ establish' \in [Sessions -> EstablishSteps]
      /\ establish'[s] = step
      /\ \A t \in Sessions : t # s => establish'[t] = establish[t]
  BY MoveStep
<1>. QED  BY <1>1, <1>2 DEF NotYet, Early

LEMMA MoveOnly ==
  ASSUME TypeOK, AllSound, NEW s \in Sessions, establish[s] \notin {"none", "offered"},
         NEW step \in EstablishSteps \ Early, Move(s, step),
         UNCHANGED <<sessions, session, socket, todo, attempt>>
  PROVE  /\ AllSound'
         /\ \A t \in Sessions : Ages(t)
         /\ establish' \in [Sessions -> EstablishSteps]
<1>1. session[s].client => s \in Attempts
  BY DEF AllSound, Sound
<1>. QED  BY <1>1, Made, Edited DEF Early

\* The state of a session is set, and the owner of its path.
LEMMA StateStep ==
  ASSUME TypeOK, AllSound, NEW s \in Sessions, establish[s] \notin {"none", "offered"},
         NEW step \in EstablishSteps \ Early, Move(s, step),
         UNCHANGED <<sessions, socket, todo, attempt>>,
         NEW new \in Records, session' = [session EXCEPT ![s] = new],
         new.closed = session[s].closed, new.endpoint = session[s].endpoint,
         new.answer = session[s].answer, new.client => s \in Attempts,
         new.state \notin {"closed", "degraded"}
  PROVE  /\ AllSound'
         /\ \A t \in Sessions : Ages(t)
         /\ establish' \in [Sessions -> EstablishSteps]
         /\ session' \in [Sessions -> Records]
<1>1. /\ session'[s] = new
      /\ \A t \in Sessions : t # s => session'[t] = session[t]
      /\ session' \in [Sessions -> Records]
  BY DEF TypeOK
<1>. QED  BY <1>1, Made, Edited DEF Early

LEMMA KeptOfferAnswered ==
  ASSUME TypeOK, AllSound, NEW o \in Sessions, OfferAnswered(o)
  PROVE  Kept
<1>1. /\ establish[o] = "answering"
      /\ \E step \in {"spawned", "over"} : Move(o, step)
      /\ UNCHANGED <<sessions, sessionVars, todo, attempt, mapVars, netVars, closer>>
  BY DEF OfferAnswered
<1>2. /\ AllSound' /\ \A t \in Sessions : Ages(t)
      /\ establish' \in [Sessions -> EstablishSteps]
  BY <1>1, MoveOnly DEF EstablishSteps, Early, sessionVars
<1>3. TypeOK'
  BY <1>1, <1>2 DEF sessionVars, mapVars, netVars, TypeOK
<1>. QED  BY <1>2, <1>3 DEF Kept

LEMMA KeptOfferFails ==
  ASSUME TypeOK, AllSound, NEW o \in Sessions, OfferFails(o)
  PROVE  Kept
<1>1. /\ establish[o] = "answering" /\ Move(o, "over") /\ Drop({o}) /\ o \notin Attempts
      /\ UNCHANGED <<sessionVars, attempt, mapVars, netVars, closer>>
  BY OffersOnly DEF OfferFails
<1>2. /\ ~NotYet(o) /\ ~NotYet(o)'
      /\ establish' \in [Sessions -> EstablishSteps]
      /\ establish'[o] = "over"
      /\ \A t \in Sessions : t # o => establish'[t] = establish[t]
  BY <1>1, Made DEF EstablishSteps, Early
<1>3. \A t \in Sessions : t # o => SameTo(t)
  BY <1>1, <1>2, Orphaned DEF SameTo, NotYet, sessionVars
<1>4. Sound(o)' /\ Ages(o)
  <2>1. CASE o \in sessions
    BY <1>1, <1>2, <2>1, Orphaned, DropSound
  <2>2. CASE o \notin sessions
    <3>1. /\ Sound(o) /\ session'[o] = session[o] /\ socket'[o] = socket[o]
          /\ o \notin sessions'
          /\ \A what \in Debts : Owed(what, o)' <=> Owed(what, o)
      BY <1>1, <2>2, Orphaned DEF AllSound, sessionVars
    <3>2. Owed("close", o)' <=> Owed("close", o)
      BY <3>1 DEF Debts
    <3>3. socket[o] = "open" => Owed("close", o) /\ session[o].endpoint
      BY <1>1, <2>2, <3>1 DEF Sound
    <3>. QED  BY <1>1, <1>2, <3>1, <3>2, <3>3 DEF Sound, Ages
  <2>. QED  BY <2>1, <2>2
<1>5. AllSound' /\ \A t \in Sessions : Ages(t)
  BY <1>3, <1>4, OneTouched
<1>6. TypeOK'
  BY <1>1, <1>2, Orphaned DEF sessionVars, mapVars, netVars, TypeOK
<1>. QED  BY <1>5, <1>6 DEF Kept

LEMMA KeptEstablish ==
  ASSUME TypeOK, AllSound, NEW s \in Sessions, Establish(s)
  PROVE  Kept
<1>. DEFINE new == [session[s] EXCEPT !.state = "punching"]
<1>1. /\ establish[s] = "spawned"
      /\ UNCHANGED <<sessions, socket, path, todo, attempt, mapVars, netVars, closer>>
      /\ \/ Move(s, "over") /\ session' = session
         \/ Move(s, "punching") /\ session' = [session EXCEPT ![s].state = "punching"]
  BY DEF Establish
<1>2. session[s] \in Records
  BY DEF TypeOK
<1>3. /\ new \in Records /\ new.answer = session[s].answer /\ new.state = "punching"
      /\ new.client = session[s].client /\ new.closed = session[s].closed
      /\ new.endpoint = session[s].endpoint
      /\ [session EXCEPT ![s].state = "punching"] = [session EXCEPT ![s] = new]
  BY <1>2 DEF Records, States, TypeOK
<1>4. session[s].client => s \in Attempts
  BY DEF AllSound, Sound
<1>. HIDE DEF new
<1>5. /\ AllSound' /\ \A t \in Sessions : Ages(t)
      /\ establish' \in [Sessions -> EstablishSteps]
      /\ session' \in [Sessions -> Records]
  <2>1. CASE Move(s, "over") /\ session' = session
    <3>1. session' \in [Sessions -> Records]
      BY <2>1 DEF TypeOK
    <3>. QED  BY <1>1, <2>1, <3>1, MoveOnly DEF EstablishSteps, Early
  <2>2. CASE Move(s, "punching") /\ session' = [session EXCEPT ![s] = new]
    BY <1>1, <1>3, <1>4, <2>2, StateStep DEF EstablishSteps, Early
  <2>. QED  BY <1>1, <1>3, <2>1, <2>2
<1>6. TypeOK'
  BY <1>1, <1>5 DEF mapVars, netVars, TypeOK
<1>. QED  BY <1>5, <1>6 DEF Kept

LEMMA KeptPunched ==
  ASSUME TypeOK, AllSound, NEW s \in Sessions, Punched(s)
  PROVE  Kept
<1>. DEFINE new == [session[s] EXCEPT !.state = "handshake"]
<1>1. /\ establish[s] = "punching" /\ Move(s, "dialing")
      /\ UNCHANGED <<sessions, socket, path, todo, attempt, mapVars, netVars, closer>>
      /\ session' = [session EXCEPT ![s].state = "handshake"]
  BY DEF Punched
<1>2. session[s] \in Records
  BY DEF TypeOK
<1>3. /\ new \in Records /\ new.answer = session[s].answer /\ new.state = "handshake"
      /\ new.client = session[s].client /\ new.closed = session[s].closed
      /\ new.endpoint = session[s].endpoint
      /\ [session EXCEPT ![s].state = "handshake"] = [session EXCEPT ![s] = new]
  BY <1>2 DEF Records, States, TypeOK
<1>4. session[s].client => s \in Attempts
  BY DEF AllSound, Sound
<1>. HIDE DEF new
<1>5. /\ AllSound' /\ \A t \in Sessions : Ages(t)
      /\ establish' \in [Sessions -> EstablishSteps]
      /\ session' \in [Sessions -> Records]
  BY <1>1, <1>3, <1>4, StateStep DEF EstablishSteps, Early
<1>6. TypeOK'
  BY <1>1, <1>5 DEF mapVars, netVars, TypeOK
<1>. QED  BY <1>5, <1>6 DEF Kept

LEMMA KeptAdopt ==
  ASSUME TypeOK, AllSound, NEW s \in Sessions, Adopt(s)
  PROVE  Kept
<1>. DEFINE new == [session[s] EXCEPT !.direct = TRUE, !.client = (s \in Attempts),
                                      !.state = "ready"]
<1>1. /\ establish[s] = "dialed"
      /\ UNCHANGED <<sessions, socket, todo, attempt, mapVars, netVars, closer>>
      /\ path' \in [Sessions -> BOOLEAN]
  BY DEF Adopt, TypeOK
<1>2. session[s] \in Records
  BY DEF TypeOK
<1>3. /\ new \in Records /\ new.answer = session[s].answer /\ new.state = "ready"
      /\ (new.client => s \in Attempts) /\ new.closed = session[s].closed
      /\ new.endpoint = session[s].endpoint
  <2>. DEFINE mine == (s \in Attempts)
              with(m) == [session[s] EXCEPT !.direct = TRUE, !.client = m, !.state = "ready"]
  <2>1. \A m \in BOOLEAN :
          /\ with(m) \in Records /\ with(m).answer = session[s].answer
          /\ with(m).state = "ready" /\ with(m).client = m
          /\ with(m).closed = session[s].closed
          /\ with(m).endpoint = session[s].endpoint
    BY <1>2 DEF Records, States
  <2>2. mine \in BOOLEAN /\ (mine <=> s \in Attempts) /\ new = with(mine)
    OBVIOUS
  <2>. HIDE DEF mine, with, new
  <2>. QED  BY <2>1, <2>2
<1>4. \/ Move(s, "over") /\ session' = session
      \/ /\ \E step \in {"resetting", "queueing"} : Move(s, step)
         /\ session' = [session EXCEPT ![s] = new]
  BY <1>2 DEF Adopt, Records, TypeOK
<1>. HIDE DEF new
<1>5. /\ AllSound' /\ \A t \in Sessions : Ages(t)
      /\ establish' \in [Sessions -> EstablishSteps]
      /\ session' \in [Sessions -> Records]
  <2>1. CASE Move(s, "over") /\ session' = session
    <3>1. session' \in [Sessions -> Records]
      BY <2>1 DEF TypeOK
    <3>. QED  BY <1>1, <2>1, <3>1, MoveOnly DEF EstablishSteps, Early
  <2>2. CASE /\ \E step \in {"resetting", "queueing"} : Move(s, step)
             /\ session' = [session EXCEPT ![s] = new]
    BY <1>1, <1>3, <2>2, StateStep DEF EstablishSteps, Early
  <2>. QED  BY <1>4, <2>1, <2>2
<1>6. TypeOK'
  BY <1>1, <1>5 DEF mapVars, netVars, TypeOK
<1>. QED  BY <1>5, <1>6 DEF Kept

\* These touch nothing of the session but the path.
LEMMA KeptQuiet ==
  ASSUME TypeOK, AllSound, NEW s \in Sessions,
         Dialed(s) \/ ResetFailure(s) \/ Enqueue(s) \/ WatchEnds(s)
  PROVE  Kept
<1>1. /\ establish[s] \in {"dialing", "resetting", "queueing", "watching"}
      /\ \E step \in {"dialed", "queueing", "watching", "over"} : Move(s, step)
      /\ UNCHANGED <<sessions, session, socket, todo, attempt, starting, pending,
                     evicted, answered, netVars, closer>>
  BY DEF Dialed, ResetFailure, Enqueue, WatchEnds, sessionVars, mapVars
<1>2. path' \in [Sessions -> BOOLEAN]
  BY DEF Dialed, ResetFailure, Enqueue, WatchEnds, sessionVars, TypeOK
<1>3. cooldown' \in [Exits -> Networks \cup {None}]
  <2>1. CASE cooldown' = cooldown
    BY <2>1 DEF TypeOK
  <2>2. CASE ResetFailure(s)
    <3>1. cooldown' = [f \in Exits |-> IF f = attempt[s].exit THEN None ELSE cooldown[f]]
      BY <2>2 DEF ResetFailure, TypeOK
    <3>. QED  BY <3>1 DEF TypeOK
  <2>. QED  BY <2>1, <2>2 DEF Dialed, Enqueue, WatchEnds, mapVars
<1>4. /\ AllSound' /\ \A t \in Sessions : Ages(t)
      /\ establish' \in [Sessions -> EstablishSteps]
  BY <1>1, MoveOnly DEF EstablishSteps, Early
<1>5. TypeOK'
  BY <1>1, <1>2, <1>3, <1>4 DEF netVars, TypeOK
<1>. QED  BY <1>4, <1>5 DEF Kept

\* establish ends with failDirect.
LEMMA EstablishEnds ==
  ASSUME TypeOK, AllSound, NEW s \in Sessions, establish[s] \notin {"none", "offered"},
         Fails(s), Owe(Aftermath(s)), Move(s, "over"),
         UNCHANGED <<sessions, attempt, mapVars, netVars, closer>>
  PROVE  Kept
<1>1. /\ ~NotYet(s) /\ ~NotYet(s)'
      /\ establish' \in [Sessions -> EstablishSteps]
      /\ establish'[s] = "over"
      /\ \A t \in Sessions : t # s => establish'[t] = establish[t]
  BY Made DEF EstablishSteps, Early
<1>2. todo' = todo \cup Aftermath(s)
  BY DEF Owe
<1>3. ToGo(s)' /\ (Owed("close", s)' <=> Owed("close", s))
  BY <1>2 DEF ToGo, Owed, Aftermath
<1>4. \A t \in Sessions : t # s => \A what \in Debts : Owed(what, t)' <=> Owed(what, t)
  BY <1>2 DEF Owed, Aftermath
<1>5. AllSound' /\ \A t \in Sessions : Ages(t)
  BY <1>1, <1>3, <1>4, FailsStep
<1>6. todo' \in SUBSET ({"close", "fail", "record", "remove"} \X Sessions)
  BY <1>2 DEF Aftermath, TypeOK
<1>7. TypeOK'
  BY <1>1, <1>6, FailsCleared DEF mapVars, netVars, TypeOK
<1>. QED  BY <1>5, <1>7 DEF Kept

LEMMA KeptEstablishFails ==
  ASSUME TypeOK, AllSound, NEW s \in Sessions, EstablishFails(s)
  PROVE  Kept
<1>1. /\ establish[s] \notin {"none", "offered"}
      /\ Fails(s) /\ Owe(Aftermath(s)) /\ Move(s, "over")
      /\ UNCHANGED <<sessions, attempt, mapVars, netVars, closer>>
  BY DEF EstablishFails
<1>. QED  BY <1>1, EstablishEnds

LEMMA KeptPathLost ==
  ASSUME TypeOK, AllSound, NEW s \in Sessions, PathLost(s)
  PROVE  Kept
<1>1. /\ establish[s] = "watching" /\ Move(s, "over")
      /\ UNCHANGED <<sessions, attempt, mapVars, netVars, closer>>
  BY DEF PathLost
<1>2. CASE Fails(s) /\ Owe(Aftermath(s))
  BY <1>1, <1>2, EstablishEnds
<1>3. CASE UNCHANGED <<sessionVars, todo>>
  <2>1. /\ AllSound' /\ \A t \in Sessions : Ages(t)
        /\ establish' \in [Sessions -> EstablishSteps]
    BY <1>1, <1>3, MoveOnly DEF EstablishSteps, Early, sessionVars
  <2>2. TypeOK'
    BY <1>1, <1>3, <2>1 DEF sessionVars, mapVars, netVars, TypeOK
  <2>. QED  BY <2>1, <2>2 DEF Kept
<1>. QED  BY <1>2, <1>3 DEF PathLost

LEMMA KeptQueueFull ==
  ASSUME TypeOK, AllSound, NEW s \in Sessions, QueueFull(s)
  PROVE  Kept
<1>1. /\ establish[s] = "queueing" /\ Move(s, "over")
      /\ UNCHANGED <<sessions, socket, attempt, mapVars, netVars, closer>>
  BY DEF QueueFull
<1>2. /\ ~NotYet(s) /\ ~NotYet(s)'
      /\ establish' \in [Sessions -> EstablishSteps]
      /\ establish'[s] = "over"
      /\ \A t \in Sessions : t # s => establish'[t] = establish[t]
  BY <1>1, Made DEF EstablishSteps, Early
<1>3. CASE session[s].direct /\ session[s].state # "closed"
  <2>. DEFINE new == [session[s] EXCEPT !.state = "degraded"]
  <2>1. /\ session' = [session EXCEPT ![s].state = "degraded"]
        /\ todo' = todo \cup {<<"remove", s>>} /\ path' = path
    BY <1>3 DEF QueueFull, Owe
  <2>2. session[s] \in Records
    BY DEF TypeOK
  <2>3. /\ new \in Records /\ new.answer = session[s].answer /\ new.state = "degraded"
        /\ new.client = session[s].client /\ new.closed = session[s].closed
        /\ new.endpoint = session[s].endpoint
        /\ [session EXCEPT ![s].state = "degraded"] = [session EXCEPT ![s] = new]
    BY <2>2 DEF Records, States, TypeOK
  <2>. HIDE DEF new
  <2>4. /\ session'[s] = new
        /\ \A t \in Sessions : t # s => session'[t] = session[t]
        /\ session' \in [Sessions -> Records]
    BY <2>1, <2>3 DEF TypeOK
  <2>5. ToGo(s)'
    BY <2>1 DEF ToGo, Owed
  <2>6. \A t \in Sessions : t # s => \A what \in Debts : Owed(what, t)' <=> Owed(what, t)
    BY <2>1 DEF Owed
  <2>7. Sound(s)
    BY DEF AllSound
  <2>8. /\ Owed("close", s)' <=> Owed("close", s)
        /\ socket[s] = "open" =>
             (s \in sessions \/ Owed("close", s)) /\ session[s].endpoint
    BY <1>1, <1>2, <2>1, <2>7 DEF Sound, NotYet, Sessions, Owed
  <2>9. Sound(s)' /\ Ages(s)
    BY <1>1, <1>2, <2>3, <2>4, <2>5, <2>7, <2>8 DEF Sound, Ages
  <2>10. \A t \in Sessions : t # s => SameTo(t)
    BY <1>1, <1>2, <2>4, <2>6 DEF SameTo, NotYet
  <2>11. AllSound' /\ \A t \in Sessions : Ages(t)
    BY <2>9, <2>10, OneTouched
  <2>12. todo' \in SUBSET ({"close", "fail", "record", "remove"} \X Sessions)
    BY <2>1 DEF TypeOK
  <2>13. TypeOK'
    BY <1>1, <1>2, <2>1, <2>4, <2>12 DEF mapVars, netVars, TypeOK
  <2>. QED  BY <2>11, <2>13 DEF Kept
<1>4. CASE ~(session[s].direct /\ session[s].state # "closed")
  <2>1. /\ UNCHANGED <<session, todo>>
        /\ path' \in [Sessions -> BOOLEAN]
    BY <1>4 DEF QueueFull, TypeOK
  <2>2. /\ AllSound' /\ \A t \in Sessions : Ages(t)
    BY <1>1, <2>1, MoveOnly DEF EstablishSteps, Early
  <2>3. TypeOK'
    BY <1>1, <1>2, <2>1 DEF mapVars, netVars, TypeOK
  <2>. QED  BY <2>2, <2>3 DEF Kept
<1>. QED  BY <1>3, <1>4

LEMMA KeptNetwork ==
  ASSUME TypeOK, AllSound, NetworkMoves \/ CheckNetwork \/ Close
  PROVE  Kept
<1>1. /\ UNCHANGED <<sessions, sessionVars, establish, todo, attempt, mapVars, epoch>>
      /\ network' \in Networks /\ signature' \in Networks /\ invalidating' \in BOOLEAN
      /\ closer' \in {"open", "closed", "cleared"}
  <2>1. CASE NetworkMoves
    <3>1. network + 1 \in Networks
      BY <2>1, ManagerAssumption DEF NetworkMoves, Networks, TypeOK
    <3>. QED  BY <2>1, <3>1 DEF NetworkMoves, TypeOK
  <2>2. CASE CheckNetwork
    BY <2>2 DEF CheckNetwork, TypeOK
  <2>3. CASE Close
    BY <2>3 DEF Close, netVars, TypeOK
  <2>. QED  BY <2>1, <2>2, <2>3
<1>2. AllSound' /\ \A t \in Sessions : Ages(t)
  BY <1>1, Apart DEF sessionVars
<1>3. TypeOK'
  BY <1>1 DEF sessionVars, mapVars, TypeOK
<1>. QED  BY <1>2, <1>3 DEF Kept

LEMMA KeptInvalidate ==
  ASSUME TypeOK, AllSound, InvalidateNetwork
  PROVE  Kept
<1>1. /\ UNCHANGED <<sessionVars, establish, attempt, evicted, answered, network,
                     signature, closer>>
      /\ invalidating' = FALSE
  BY DEF InvalidateNetwork
<1>2. CASE Closed
  <2>1. UNCHANGED <<sessions, todo, starting, cooldown, pending, epoch>>
    BY <1>2 DEF InvalidateNetwork
  <2>2. AllSound' /\ \A t \in Sessions : Ages(t)
    BY <1>1, <2>1, Apart DEF sessionVars
  <2>3. TypeOK'
    BY <1>1, <2>1 DEF sessionVars, TypeOK
  <2>. QED  BY <2>2, <2>3 DEF Kept
<1>3. CASE ~Closed
  <2>1. /\ epoch' = signature /\ Drop(sessions) /\ pending' = {}
        /\ cooldown' = [e \in Exits |-> None]
        /\ starting' = [e \in Exits |-> None]
    BY <1>3 DEF InvalidateNetwork
  <2>2. sessions \in SUBSET Sessions
    BY DEF TypeOK
  <2>3. AllSound' /\ \A t \in Sessions : Ages(t)
    BY <1>1, <2>1, <2>2, DropOnly
  <2>4. TypeOK'
    BY <1>1, <2>1, <2>2, Orphaned DEF sessionVars, TypeOK
  <2>. QED  BY <2>3, <2>4 DEF Kept
<1>. QED  BY <1>2, <1>3

LEMMA KeptCloseSessions ==
  ASSUME TypeOK, AllSound, CloseSessions
  PROVE  Kept
<1>1. /\ Drop(sessions) /\ sessions \in SUBSET Sessions
      /\ closer' = "cleared" /\ pending' = {}
      /\ UNCHANGED <<sessionVars, establish, attempt, starting, cooldown, evicted,
                     answered, netVars>>
  BY DEF CloseSessions, TypeOK
<1>2. AllSound' /\ \A t \in Sessions : Ages(t)
  BY <1>1, DropOnly
<1>3. TypeOK'
  BY <1>1, Orphaned DEF sessionVars, netVars, TypeOK
<1>. QED  BY <1>2, <1>3 DEF Kept

LEMMA KeptStep ==
  ASSUME TypeOK, AllSound, [Next]_vars
  PROVE  Kept
<1>1. ASSUME NEW s \in Sessions, Running(s) PROVE Kept
  BY <1>1, KeptFailDirect, KeptRecordFailure, KeptRemoveFailed, KeptCloseDropped, KeptOfferRegisters,
     KeptOfferAccepted, KeptOfferAnswered, KeptOfferFails, KeptEstablish, KeptPunched,
     KeptEstablishFails, KeptAdopt, KeptQuiet, KeptQueueFull, KeptPathLost
     DEF Running
<1>2. ASSUME NEW s \in Sessions, PathEnds(s) \/ Remove(s) \/ Expire(s) PROVE Kept
  BY <1>2, KeptPathEnds, KeptRemove, KeptExpire
<1>3. ASSUME NEW S \in SUBSET Sessions, Reap(S) PROVE Kept
  BY <1>3, KeptReap
<1>4. ASSUME NEW a \in Attempts, Attempted(a) \/ AnswerArrives(a) PROVE Kept
  BY <1>4, KeptPruneExit, KeptPrepareLocal, KeptConnect, KeptConsumePending,
     KeptCheckEpoch, KeptDropOld, KeptNoteFailure, KeptClearStarting, KeptAnswerArrives
     DEF Attempted
<1>5. ASSUME NEW o \in Offers, OfferArrives(o) PROVE Kept
  BY <1>5, KeptOfferArrives
<1>6. ASSUME NEW e \in Exits, EnsureClient(e) \/ FailReadyForExit(e) \/ CooldownEnds(e)
      PROVE  Kept
  BY <1>6, KeptEnsureClient, KeptFailReady, KeptCooldownEnds
<1>7. CASE NetworkMoves \/ CheckNetwork \/ InvalidateNetwork \/ Close \/ CloseSessions
  BY <1>7, KeptNetwork, KeptInvalidate, KeptCloseSessions
<1>8. CASE UNCHANGED vars
  <2>1. AllSound' /\ \A t \in Sessions : Ages(t)
    BY <1>8, Apart DEF vars, sessionVars
  <2>2. TypeOK'
    BY <1>8 DEF vars, sessionVars, mapVars, netVars, TypeOK
  <2>. QED  BY <2>1, <2>2 DEF Kept
<1>. QED  BY <1>1, <1>2, <1>3, <1>4, <1>5, <1>6, <1>7, <1>8 DEF Next

-----------------------------------------------------------------------------
(* Attempts, answers and epochs                                             *)

AttemptsAgree == EpochsGrow /\ EarlyWaits /\ AnswerIsNotLost /\ InFlight /\ OneIsOver

\* Most steps leave the attempts and what belongs to them alone.
Aside == UNCHANGED <<attempt, starting, pending, evicted, answered, netVars, closer>>

LEMMA AttemptChange ==
  ASSUME [Next]_vars
  PROVE  \/ Aside
         \/ \E a \in Attempts : Attempted(a) \/ AnswerArrives(a)
         \/ \E e \in Exits : EnsureClient(e)
         \/ NetworkMoves \/ CheckNetwork \/ InvalidateNetwork \/ Close \/ CloseSessions
<1>1. ASSUME NEW s \in Sessions, Running(s) PROVE Aside
  <2>1. ASSUME \/ FailDirect(s) \/ RecordFailure(s) \/ RemoveFailed(s)
               \/ CloseDropped(s)
        PROVE  Aside
    BY <2>1 DEF FailDirect, RecordFailure, RemoveFailed, CloseDropped, Aside, mapVars
  <2>2. ASSUME \/ OfferRegisters(s) \/ OfferAccepted(s) \/ OfferAnswered(s)
               \/ OfferFails(s)
        PROVE  Aside
    BY <2>2 DEF OfferRegisters, OfferAccepted, OfferAnswered, OfferFails, Aside, mapVars
  <2>3. ASSUME \/ Establish(s) \/ Punched(s) \/ Dialed(s) \/ EstablishFails(s)
               \/ Adopt(s)
        PROVE  Aside
    BY <2>3 DEF Establish, Punched, Dialed, EstablishFails, Adopt, Aside, mapVars
  <2>4. ASSUME \/ ResetFailure(s) \/ Enqueue(s) \/ QueueFull(s) \/ WatchEnds(s)
               \/ PathLost(s)
        PROVE  Aside
    BY <2>4 DEF ResetFailure, Enqueue, QueueFull, WatchEnds, PathLost, Aside, mapVars
  <2>. QED  BY <1>1, <2>1, <2>2, <2>3, <2>4 DEF Running
<1>2. ASSUME NEW s \in Sessions, PathEnds(s) \/ Remove(s) \/ Expire(s) PROVE Aside
  BY <1>2 DEF PathEnds, Remove, Expire, Aside, mapVars
<1>3. ASSUME NEW S \in SUBSET Sessions, Reap(S) PROVE Aside
  BY <1>3 DEF Reap, Aside, mapVars
<1>4. ASSUME NEW o \in Offers, OfferArrives(o) PROVE Aside
  BY <1>4 DEF OfferArrives, Aside, mapVars
<1>5. ASSUME NEW e \in Exits, FailReadyForExit(e) \/ CooldownEnds(e) PROVE Aside
  BY <1>5 DEF FailReadyForExit, CooldownEnds, Aside, mapVars
<1>6. CASE UNCHANGED vars
  BY <1>6 DEF vars, Aside, mapVars
<1>. QED  BY <1>1, <1>2, <1>3, <1>4, <1>5, <1>6 DEF Next

\* What the invariant says of one attempt's answer.
Answers(a) ==
  /\ attempt[a].at \in {"unused", "starting", "preparing"} => a \notin answered
  /\ /\ attempt[a].at \in {"asking", "registering"}
     /\ a \in answered /\ ~session[a].answer
     /\ attempt[a].epoch = epoch /\ closer # "cleared"
     => a \in pending \cup evicted
  /\ attempt[a].at \in {"failed", "recording"} => a \notin sessions
  /\ /\ a \in (sessions \cap answered) \ evicted
     /\ attempt[a].at \in {"returned", "clearing", "ended"}
     /\ attempt[a].epoch = epoch /\ closer # "cleared"
     => session[a].answer

LEMMA AnswersIs ==
  (\A a \in Attempts : Answers(a)) /\ answered \subseteq Attempts
    <=> EarlyWaits /\ AnswerIsNotLost /\ answered \subseteq Attempts
BY DEF Answers, EarlyWaits, AnswerIsNotLost

\* An attempt that is over stays so, and one that is left alone keeps its
\* answer.
LEMMA OverStays ==
  ASSUME Kept, NEW a \in Attempts, Over(a), attempt'[a] = attempt[a]
  PROVE  Over(a)'
<1>1. Ages(a)
  BY Kinds DEF Kept
<1>2. ~NotYet(a)
  BY Kinds DEF Over, NotYet
<1>. QED  BY <1>1, <1>2 DEF Over, Ages

LEMMA AnswersStay ==
  ASSUME Kept, NEW a \in Attempts, Answers(a), attempt'[a] = attempt[a],
         a \in pending \cup evicted => a \in pending' \cup evicted',
         a \in evicted => a \in evicted', a \in answered' => a \in answered,
         epoch' = epoch, closer' # "cleared" => closer # "cleared"
  PROVE  Answers(a)'
<1>1. Ages(a)
  BY Kinds DEF Kept
<1>2. a \in sessions' /\ a \notin sessions =>
        attempt[a].at \in {"unused", "starting", "preparing", "asking"}
  BY <1>1, Kinds DEF Ages, NotYet
<1>. QED  BY <1>1, <1>2 DEF Answers, Ages

LEMMA AsideAgrees ==
  ASSUME TypeOK, Kept, AttemptsAgree, Aside
  PROVE  AttemptsAgree'
<1>1. EpochsGrow' /\ InFlight'
  BY DEF AttemptsAgree, Aside, netVars, EpochsGrow, InFlight, Begun
<1>2. \A a \in Attempts : Answers(a)
  BY AnswersIs DEF AttemptsAgree, TypeOK
<1>3. \A a \in Attempts : Answers(a)'
  BY <1>2, AnswersStay DEF Aside, netVars
<1>4. answered' \subseteq Attempts
  BY DEF Aside, TypeOK
<1>5. EarlyWaits' /\ AnswerIsNotLost'
  BY <1>3, <1>4 DEF Answers, EarlyWaits, AnswerIsNotLost
<1>6. OneIsOver'
  BY OverStays DEF AttemptsAgree, Aside, netVars, OneIsOver, Begun
<1>. QED  BY <1>1, <1>5, <1>6 DEF AttemptsAgree

\* One attempt takes a step: the others, and what is over, stay.
LEMMA AttemptedMoves ==
  ASSUME TypeOK, NEW a \in Attempts, Attempted(a)
  PROVE  /\ Begun(a) /\ Begun(a)' /\ attempt[a].at # "ended" /\ attempt[a].at # "unused"
         /\ attempt'[a].exit = attempt[a].exit
         /\ attempt'[a].epoch = attempt[a].epoch
         /\ \A b \in Attempts : b # a => attempt'[b] = attempt[b]
         /\ UNCHANGED <<evicted, answered, netVars, closer>>
         /\ \A b \in pending : b # a => b \in pending'
         /\ \A e \in Exits : starting[e] # a => starting'[e] = starting[e]
         /\ attempt'[a].at # "ended" => starting' = starting
<1>1. /\ attempt[a].at # "ended" /\ attempt[a].at # "unused"
      /\ \E step \in AttemptSteps :
           At(a, step) /\ (step # "ended" => starting' = starting)
  BY DEF Attempted, PruneExit, PrepareLocal, ConnectGranted, ConnectFails,
         ConsumePending, CheckEpoch, DropOld, NoteFailure, ClearStarting,
         AttemptSteps, mapVars
<1>2. /\ UNCHANGED <<evicted, answered, netVars, closer>>
      /\ \A b \in pending : b # a => b \in pending'
  BY DEF Attempted, PruneExit, PrepareLocal, ConnectGranted, ConnectFails,
         ConsumePending, CheckEpoch, DropOld, NoteFailure, ClearStarting,
         mapVars
<1>3. \A e \in Exits : starting[e] # a => starting'[e] = starting[e]
  BY DEF Attempted, PruneExit, PrepareLocal, ConnectGranted, ConnectFails,
         ConsumePending, CheckEpoch, DropOld, NoteFailure, ClearStarting,
         mapVars
<1>. QED  BY <1>1, <1>2, <1>3, AtStep

\* The answer of the attempt that takes a step.
LEMMA AttemptedAnswers ==
  ASSUME TypeOK, AllSound, Kept, NEW a \in Attempts, Answers(a), Attempted(a)
  PROVE  Answers(a)'
<1>. USE DEF Answers
<1>0. /\ Ages(a) /\ Sound(a) /\ a \in Sessions
      /\ answered' = answered /\ evicted' = evicted
      /\ epoch' = epoch /\ closer' = closer
      /\ attempt'[a].epoch = attempt[a].epoch /\ attempt[a].at # "unused"
  BY AttemptedMoves, Kinds DEF Kept, AllSound, netVars
<1>00. NotYet(a) <=> attempt[a].at \in {"unused", "starting", "preparing", "asking"}
  BY Kinds DEF NotYet
<1>1. CASE PruneExit(a)
  <2>1. attempt[a].at = "starting" /\ \E step \in {"failed", "preparing"} : At(a, step)
    BY <1>1 DEF PruneExit
  <2>2. attempt'[a].at \in {"failed", "preparing"}
    BY <2>1, AtStep DEF AttemptSteps
  <2>3. a \notin sessions' /\ a \notin answered
    BY <1>0, <1>00, <1>1, <2>1 DEF PruneExit, Drop, Sound
  <2>. QED  BY <1>0, <2>2, <2>3
<1>2. CASE PrepareLocal(a)
  <2>1. attempt[a].at = "preparing" /\ \E step \in {"failed", "asking"} : At(a, step)
    BY <1>2 DEF PrepareLocal
  <2>2. attempt'[a].at \in {"failed", "asking"}
    BY <2>1, AtStep DEF AttemptSteps
  <2>3. a \notin sessions' /\ a \notin answered
    BY <1>0, <1>00, <1>2, <2>1 DEF PrepareLocal, Sound
  <2>. QED  BY <1>0, <2>2, <2>3
<1>3. CASE ConnectGranted(a)
  <2>1. /\ attempt[a].at = "asking"
        /\ \/ At(a, "registering") /\ UNCHANGED <<session, pending>>
           \/ At(a, "failed") /\ sessions' = sessions
    BY <1>3 DEF ConnectGranted, NotRegistered, mapVars
  <2>2. \/ attempt'[a].at = "registering" /\ UNCHANGED <<session, pending>>
        \/ attempt'[a].at = "failed" /\ sessions' = sessions
    BY <2>1, AtStep DEF AttemptSteps
  <2>3. a \notin sessions
    BY <1>0, <1>00, <2>1 DEF Sound
  <2>. QED  BY <1>0, <2>1, <2>2, <2>3
<1>4. CASE ConnectFails(a)
  <2>1. attempt[a].at = "asking" /\ At(a, "failed") /\ sessions' = sessions
    BY <1>4 DEF ConnectFails, NotRegistered
  <2>2. attempt'[a].at = "failed"
    BY <2>1, AtStep DEF AttemptSteps
  <2>3. a \notin sessions
    BY <1>0, <1>00, <2>1 DEF Sound
  <2>. QED  BY <1>0, <2>1, <2>2, <2>3
<1>5. CASE ConsumePending(a)
  <2>1. attempt[a].at = "registering" /\ At(a, "returned")
    BY <1>5 DEF ConsumePending
  <2>2. attempt'[a].at = "returned"
    BY <2>1, AtStep DEF AttemptSteps
  <2>3. a \in pending => session'[a].answer
    BY <1>5, AnswerStep DEF ConsumePending
  <2>. QED  BY <1>0, <2>1, <2>2, <2>3 DEF Ages
<1>6. CASE CheckEpoch(a)
  <2>1. /\ UNCHANGED <<sessions, session>>
        /\ \/ attempt[a].at = "returned" /\ (At(a, "dropping") \/ At(a, "clearing"))
           \/ attempt[a].at = "failed" /\ (At(a, "recording") \/ At(a, "clearing"))
    BY <1>6 DEF CheckEpoch, sessionVars
  <2>2. \/ attempt[a].at = "returned" /\ attempt'[a].at \in {"dropping", "clearing"}
        \/ attempt[a].at = "failed" /\ attempt'[a].at \in {"recording", "clearing"}
    BY <2>1, AtStep DEF AttemptSteps
  <2>. QED  BY <1>0, <2>1, <2>2
<1>7. CASE DropOld(a)
  <2>1. attempt[a].at = "dropping" /\ At(a, "clearing") /\ a \notin sessions'
    BY <1>7 DEF DropOld, Drop
  <2>2. attempt'[a].at = "clearing"
    BY <2>1, AtStep DEF AttemptSteps
  <2>. QED  BY <2>1, <2>2
<1>8. CASE NoteFailure(a)
  <2>1. attempt[a].at = "recording" /\ At(a, "clearing") /\ sessions' = sessions
    BY <1>8 DEF NoteFailure
  <2>2. attempt'[a].at = "clearing"
    BY <2>1, AtStep DEF AttemptSteps
  <2>. QED  BY <2>1, <2>2
<1>9. CASE ClearStarting(a)
  <2>1. /\ attempt[a].at = "clearing" /\ At(a, "ended")
        /\ UNCHANGED <<sessions, session>>
    BY <1>9 DEF ClearStarting, sessionVars
  <2>2. attempt'[a].at = "ended"
    BY <2>1, AtStep DEF AttemptSteps
  <2>. QED  BY <1>0, <2>1, <2>2
<1>. QED  BY <1>1, <1>2, <1>3, <1>4, <1>5, <1>6, <1>7, <1>8, <1>9 DEF Attempted

LEMMA AttemptedAgrees ==
  ASSUME TypeOK, AllSound, Kept, AttemptsAgree, NEW a \in Attempts, Attempted(a)
  PROVE  AttemptsAgree'
<1>1. /\ Begun(a) /\ Begun(a)' /\ attempt[a].at # "ended"
      /\ attempt'[a].exit = attempt[a].exit /\ attempt'[a].epoch = attempt[a].epoch
      /\ \A b \in Attempts : b # a => attempt'[b] = attempt[b]
      /\ answered' = answered /\ evicted' = evicted
      /\ closer' = closer /\ epoch' = epoch
      /\ network' = network /\ signature' = signature /\ invalidating' = invalidating
      /\ \A b \in pending : b # a => b \in pending'
      /\ \A e \in Exits : starting[e] # a => starting'[e] = starting[e]
      /\ attempt'[a].at # "ended" => starting' = starting
  BY AttemptedMoves DEF netVars
<1>2. \A b \in Attempts : /\ Begun(b)' <=> Begun(b)
                          /\ attempt'[b].exit = attempt[b].exit
                          /\ attempt'[b].epoch = attempt[b].epoch
  BY <1>1 DEF Begun
<1>3. EpochsGrow'
  BY <1>1, <1>2 DEF AttemptsAgree, EpochsGrow
<1>4. InFlight'
  <2>1. \A b \in Attempts : Begun(b) => attempt[b].exit \in Exits
    BY DEF Begun, Attempting
  <2>. QED  BY <1>1, <1>2, <2>1 DEF AttemptsAgree, InFlight
<1>5. \A b \in Attempts : Answers(b)
  BY AnswersIs DEF AttemptsAgree, TypeOK
<1>6. \A b \in Attempts : Answers(b)'
  BY <1>1, <1>5, AnswersStay, AttemptedAnswers
<1>7. EarlyWaits' /\ AnswerIsNotLost'
  BY <1>6, <1>1 DEF Answers, EarlyWaits, AnswerIsNotLost, TypeOK
<1>8. \A b \in Attempts : Over(b) => Over(b)'
  BY <1>1, OverStays DEF Over
<1>9. OneIsOver'
  BY <1>1, <1>2, <1>8 DEF AttemptsAgree, OneIsOver
<1>. QED  BY <1>3, <1>4, <1>7, <1>9 DEF AttemptsAgree

LEMMA AnswerArrivesAgrees ==
  ASSUME TypeOK, AllSound, Kept, AttemptsAgree, NEW a \in Attempts, AnswerArrives(a)
  PROVE  AttemptsAgree'
<1>1. /\ UNCHANGED <<attempt, starting, netVars, closer, sessions>>
      /\ answered' = answered \cup {a}
      /\ attempt[a].at \notin {"unused", "starting", "preparing"}
      /\ pending \cup evicted \subseteq pending' \cup evicted'
      /\ evicted \subseteq evicted'
      /\ (a \in sessions /\ session'[a].answer) \/ (a \notin sessions /\ a \in pending')
  <2>1. CASE a \in sessions
    BY <2>1, AnswerStep, Kinds DEF AnswerArrives, TypeOK, Records
  <2>2. CASE a \notin sessions
    <3>1. \E lost \in SUBSET pending :
            pending' = (pending \ lost) \cup {a} /\ evicted' = evicted \cup lost
      BY <2>2 DEF AnswerArrives
    <3>. QED  BY <2>2, <3>1 DEF AnswerArrives
  <2>. QED  BY <2>1, <2>2
<1>2. EpochsGrow' /\ InFlight'
  BY <1>1 DEF AttemptsAgree, netVars, EpochsGrow, InFlight, Begun
<1>3. OneIsOver'
  BY <1>1, OverStays DEF AttemptsAgree, netVars, OneIsOver, Begun
<1>4. \A b \in Attempts : Answers(b)
  BY AnswersIs DEF AttemptsAgree, TypeOK
<1>5. Answers(a)'
  BY <1>1, <1>4 DEF Answers, netVars
<1>6. \A b \in Attempts : b # a => Answers(b)'
  BY <1>1, <1>4, AnswersStay DEF netVars
<1>7. EarlyWaits' /\ AnswerIsNotLost'
  BY <1>1, <1>5, <1>6 DEF Answers, EarlyWaits, AnswerIsNotLost, TypeOK
<1>. QED  BY <1>2, <1>3, <1>7 DEF AttemptsAgree

\* A new attempt begins when those before it, if any, are over.
LEMMA EnsureClientAgrees ==
  ASSUME TypeOK, AllSound, Kept, AttemptsAgree, NEW e \in Exits, EnsureClient(e)
  PROVE  AttemptsAgree'
<1>1. PICK a \in Attempts :
        /\ attempt[a] = Unused
        /\ attempt' = [attempt EXCEPT
             ![a] = [at |-> "starting", exit |-> e, epoch |-> epoch]]
        /\ starting' = [starting EXCEPT ![e] = a]
  BY DEF EnsureClient
<1>2. /\ UNCHANGED <<sessions, session, pending, evicted, answered, closer>>
      /\ epoch' = epoch /\ network' = network /\ signature' = signature
      /\ invalidating' = invalidating
      /\ Startable(e)
  BY DEF EnsureClient, sessionVars, netVars
<1>3. /\ attempt'[a] = [at |-> "starting", exit |-> e, epoch |-> epoch]
      /\ \A b \in Attempts : b # a => attempt'[b] = attempt[b]
      /\ starting'[e] = a
      /\ \A f \in Exits : f # e => starting'[f] = starting[f]
  BY <1>1 DEF TypeOK
<1>4. Unused.at = "unused" /\ ~Begun(a)
  BY <1>1, Absent DEF Unused, Begun
<1>5. \A b \in Attempts : b # a => (Begun(b)' <=> Begun(b))
  BY <1>3 DEF Begun
<1>6. ASSUME NEW b \in Attempts, Begun(b), attempt[b].epoch = epoch, attempt[b].exit = e
      PROVE  Over(b)
  <2>1. starting[e] = None
    BY <1>2 DEF Startable
  <2>2. attempt[b].at = "ended"
    BY <1>6, <2>1, Absent DEF AttemptsAgree, InFlight
  <2>3. ASSUME b \in sessions PROVE ToGo(b)
    <3>1. session[b].state \notin ActiveStates
      BY <1>2, <1>6, <2>3 DEF Startable, SessionsFor
    <3>2. session[b].state \in States /\ b \in Sessions
      BY <2>3, Kinds DEF TypeOK, Records
    <3>3. session[b].state = "degraded"
      BY <2>3, <3>1, <3>2 DEF ActiveStates, States, AllSound, Sound
    <3>. QED  BY <2>3, <3>2, <3>3 DEF AllSound, Sound
  <2>. QED  BY <2>2, <2>3 DEF Over
<1>7. EpochsGrow'
  <2>1. epoch \in Nat
    BY Absent DEF TypeOK
  <2>2. attempt'[a].epoch <= epoch
    BY <1>3, <2>1
  <2>. QED  BY <1>2, <1>3, <1>5, <2>2 DEF AttemptsAgree, EpochsGrow
<1>8. InFlight'
  <2>1. ASSUME NEW b \in Attempts, Begun(b)', attempt'[b].epoch = epoch', attempt'[b].at # "ended"
        PROVE  starting'[attempt'[b].exit] = b
    <3>1. CASE b = a
      BY <1>3, <3>1
    <3>2. CASE b # a
      <4>1. Begun(b) /\ starting[attempt[b].exit] = b /\ attempt[b].exit \in Exits
        BY <1>2, <1>3, <1>5, <2>1, <3>2 DEF AttemptsAgree, InFlight, Begun, Attempting
      <4>2. attempt[b].exit # e
        BY <1>2, <4>1, Absent DEF Startable
      <4>. QED  BY <1>3, <3>2, <4>1, <4>2
    <3>. QED  BY <3>1, <3>2
  <2>. QED  BY <2>1 DEF InFlight
<1>9. \A b \in Attempts : Answers(b)
  BY AnswersIs DEF AttemptsAgree, TypeOK
<1>10. \A b \in Attempts : Answers(b)'
  <2>1. a \notin answered
    BY <1>1, <1>4, <1>9 DEF Answers
  <2>2. Answers(a)'
    BY <1>2, <1>3, <2>1 DEF Answers
  <2>. QED  BY <1>2, <1>3, <1>9, <2>2, AnswersStay
<1>11. EarlyWaits' /\ AnswerIsNotLost'
  BY <1>2, <1>10 DEF Answers, EarlyWaits, AnswerIsNotLost, TypeOK
<1>12. OneIsOver'
  <2>1. ASSUME NEW b \in Attempts, NEW c \in Attempts, b # c, Begun(b)', Begun(c)',
               attempt'[b].exit = attempt'[c].exit,
               attempt'[b].epoch = epoch', attempt'[c].epoch = epoch'
        PROVE  Over(b)' \/ Over(c)'
    <3>1. CASE b = a
      <4>1. Over(c)
        BY <1>2, <1>3, <1>5, <1>6, <2>1, <3>1
      <4>. QED  BY <1>3, <2>1, <3>1, <4>1, OverStays
    <3>2. CASE c = a
      <4>1. Over(b)
        BY <1>2, <1>3, <1>5, <1>6, <2>1, <3>2
      <4>. QED  BY <1>3, <2>1, <3>2, <4>1, OverStays
    <3>3. CASE b # a /\ c # a
      <4>1. Over(b) \/ Over(c)
        BY <1>2, <1>3, <1>5, <2>1, <3>3 DEF AttemptsAgree, OneIsOver
      <4>. QED  BY <1>3, <3>3, <4>1, OverStays
    <3>. QED  BY <3>1, <3>2, <3>3
  <2>. QED  BY <2>1 DEF OneIsOver
<1>. QED  BY <1>7, <1>8, <1>11, <1>12 DEF AttemptsAgree

\* A later epoch is nobody's yet.
LEMMA InvalidateAgrees ==
  ASSUME TypeOK, AllSound, Kept, AttemptsAgree, InvalidateNetwork
  PROVE  AttemptsAgree'
<1>1. /\ UNCHANGED <<attempt, evicted, answered, network, signature, closer>>
      /\ ~invalidating' /\ invalidating
  BY DEF InvalidateNetwork
<1>2. CASE Closed
  <2>1. UNCHANGED <<sessions, session, starting, pending, epoch>>
    BY <1>2 DEF InvalidateNetwork, sessionVars
  <2>2. EpochsGrow' /\ InFlight'
    BY <1>1, <2>1 DEF AttemptsAgree, EpochsGrow, InFlight, Begun
  <2>3. EarlyWaits' /\ AnswerIsNotLost'
    BY <1>1, <2>1 DEF AttemptsAgree, EarlyWaits, AnswerIsNotLost
  <2>4. OneIsOver'
    BY <1>1, <2>1, OverStays DEF AttemptsAgree, OneIsOver, Begun
  <2>. QED  BY <2>2, <2>3, <2>4 DEF AttemptsAgree
<1>3. CASE ~Closed
  <2>1. epoch' = signature /\ sessions' \subseteq sessions
    BY <1>3 DEF InvalidateNetwork, Drop
  <2>2. epoch \in Nat /\ signature \in Nat /\ network \in Nat
    BY Absent DEF TypeOK
  <2>3. \A a \in Attempts : Begun(a) => /\ attempt[a].epoch \in Nat
                                        /\ attempt[a].epoch < epoch'
    <3>1. \A a \in Attempts : Begun(a) => attempt[a].epoch \in Nat
      BY Absent DEF Begun, Attempting
    <3>. QED  BY <1>1, <2>1, <2>2, <3>1 DEF AttemptsAgree, EpochsGrow
  <2>4. \A a \in Attempts : Begun(a)' <=> Begun(a)
    BY <1>1 DEF Begun
  <2>5. \A a \in Attempts : Begun(a)' => attempt'[a].epoch # epoch'
    BY <1>1, <2>1, <2>2, <2>3, <2>4
  <2>6. EpochsGrow'
    BY <1>1, <2>1, <2>2, <2>3, <2>4 DEF AttemptsAgree, EpochsGrow
  <2>7. InFlight' /\ OneIsOver'
    BY <2>5 DEF InFlight, OneIsOver
  <2>8. \A a \in Attempts : attempt'[a].at # "unused" => Begun(a)'
    <3>1. Unused.at = "unused"
      BY DEF Unused
    <3>. QED  BY <1>1, <3>1 DEF TypeOK, Begun
  <2>9. EarlyWaits'
    BY <1>1, <2>1, <2>5, <2>8 DEF AttemptsAgree, EarlyWaits
  <2>10. AnswerIsNotLost'
    <3>1. sessions' \cap answered' \subseteq Attempts
      BY <1>1 DEF TypeOK
    <3>. QED  BY <2>5, <2>8, <3>1 DEF AnswerIsNotLost
  <2>. QED  BY <2>6, <2>7, <2>9, <2>10 DEF AttemptsAgree
<1>. QED  BY <1>2, <1>3

LEMMA OthersAgree ==
  ASSUME TypeOK, AllSound, Kept, AttemptsAgree,
         NetworkMoves \/ CheckNetwork \/ Close \/ CloseSessions
  PROVE  AttemptsAgree'
<1>1. /\ UNCHANGED <<attempt, evicted, answered, starting, epoch>>
      /\ closer = "cleared" => closer' = "cleared"
      /\ closer' # "cleared" => pending' = pending
  BY DEF NetworkMoves, CheckNetwork, Close, CloseSessions, mapVars, netVars
<1>2. /\ epoch <= signature' /\ signature' <= network'
      /\ invalidating' => epoch < signature'
  <2>1. epoch \in Nat /\ signature \in Nat /\ network \in Nat
    BY Absent DEF TypeOK
  <2>. QED  BY <2>1 DEF NetworkMoves, CheckNetwork, Close, CloseSessions, netVars,
                        AttemptsAgree, EpochsGrow
<1>3. EpochsGrow' /\ InFlight'
  BY <1>1, <1>2 DEF AttemptsAgree, EpochsGrow, InFlight, Begun
<1>4. OneIsOver'
  BY <1>1, OverStays DEF AttemptsAgree, OneIsOver, Begun
<1>5. \A a \in Attempts : Answers(a)
  BY AnswersIs DEF AttemptsAgree, TypeOK
<1>6. CASE closer' # "cleared"
  <2>1. \A a \in Attempts : Answers(a)'
    BY <1>1, <1>5, <1>6, AnswersStay
  <2>. QED  BY <1>1, <1>3, <1>4, <2>1 DEF Answers, EarlyWaits, AnswerIsNotLost,
                                          TypeOK, AttemptsAgree
<1>7. CASE closer' = "cleared"
  <2>1. \A a \in Attempts : attempt[a].at \in {"failed", "recording"} => a \notin sessions'
    <3>1. ASSUME NEW a \in Attempts, attempt[a].at \in {"failed", "recording"}
          PROVE  a \notin sessions'
      <4>1. Ages(a) /\ a \notin sessions
        BY <1>5, <3>1, Kinds DEF Kept, Answers
      <4>. QED  BY <3>1, <4>1, Kinds DEF Ages, NotYet
    <3>. QED  BY <3>1
  <2>2. EarlyWaits' /\ AnswerIsNotLost'
    BY <1>1, <1>5, <1>7, <2>1 DEF Answers, EarlyWaits, AnswerIsNotLost
  <2>. QED  BY <1>3, <1>4, <2>2 DEF AttemptsAgree
<1>. QED  BY <1>6, <1>7

-----------------------------------------------------------------------------
(* Theorems                                                                 *)

LEMMA IInvIs ==
  IInv <=> TypeOK /\ AllSound /\ AttemptsAgree
BY SoundIs DEF IInv, AttemptsAgree

LEMMA InitInv ==
  ASSUME Init
  PROVE  IInv
<1>1. TypeOK
  <2>1. NewSession \in Records
    BY DEF NewSession, Records, States
  <2>2. 1 \in Networks
    BY ManagerAssumption DEF Networks
  <2>. QED  BY <2>1, <2>2 DEF Init, TypeOK, EstablishSteps
<1>2. AllSound
  <2>1. ~NewSession.closed /\ ~NewSession.client
    BY DEF NewSession
  <2>. QED  BY <2>1 DEF Init, AllSound, Sound, Owed
<1>3. \A a \in Attempts : ~Begun(a) /\ attempt[a].at = "unused"
  BY Absent DEF Init, Begun, Unused
<1>4. AttemptsAgree
  BY <1>3 DEF Init, AttemptsAgree, EpochsGrow, EarlyWaits, AnswerIsNotLost, InFlight,
              OneIsOver
<1>. QED  BY <1>1, <1>2, <1>4, IInvIs

LEMMA NextInv ==
  ASSUME IInv, [Next]_vars
  PROVE  IInv'
<1>1. TypeOK /\ AllSound /\ AttemptsAgree
  BY IInvIs
<1>2. Kept
  BY <1>1, KeptStep
<1>3. AttemptsAgree'
  BY <1>1, <1>2, AttemptChange, AsideAgrees, AttemptedAgrees, AnswerArrivesAgrees,
     EnsureClientAgrees, InvalidateAgrees, OthersAgree
<1>4. (AllSound <=> Unborn /\ InMap /\ NothingLeaks /\ Doomed)'
  <2>1. TypeOK'
    BY <1>2 DEF Kept
  <2>2. sessions' \subseteq Sessions /\ Attempts \subseteq Sessions
    BY <2>1, Kinds DEF TypeOK
  <2>. QED  BY <2>2 DEF AllSound, Sound, Unborn, InMap, NothingLeaks, Doomed, Debts
<1>. QED  BY <1>2, <1>3, <1>4 DEF Kept, IInv, AttemptsAgree

\* What the theorems rest on.
THEOREM Invariant == Spec => []IInv
<1>. QED  BY InitInv, NextInv, PTL DEF Spec

\* Every variable of the manager keeps its type: no goroutine finds a session,
\* an attempt or a socket in a state the code has no name for.
THEOREM TypeCorrect == Spec => []TypeOK
<1>1. IInv => TypeOK
  BY DEF IInv
<1>. QED  BY <1>1, Invariant, PTL

\* Whatever fails, is closed, dropped or refused in whatever order, an open
\* UDP socket has somebody who will close it.
THEOREM NoSocketLeaks == Spec => []NothingLeaks
<1>1. IInv => NothingLeaks
  BY DEF IInv
<1>. QED  BY <1>1, Invariant, PTL

\* An answer that overtakes the reply to connect_request is not lost, unless
\* pendingAnswers threw it out for want of room: for any AnswerLimit and however
\* many attempts and answers there are.
THEOREM EarlyAnswersArrive == Spec => []AnswerIsNotLost
<1>1. IInv => AnswerIsNotLost
  BY DEF IInv
<1>. QED  BY <1>1, Invariant, PTL

\* EnsureClient never ends in two usable paths to an Exit on one network.
THEOREM PathsAreUnique == Spec => []OnePathPerExit
<1>1. ASSUME IInv PROVE OnePathPerExit
  <2>1. ASSUME NEW a \in ReadyClients, NEW b \in ReadyClients,
               a # b, attempt[a].exit = attempt[b].exit,
               attempt[a].epoch = epoch, attempt[b].epoch = epoch
        PROVE  {"record", "remove"} \X {a, b} \cap todo # {}
    <3>1. a \in sessions /\ b \in sessions /\ a \in Attempts /\ b \in Attempts
      BY <1>1 DEF IInv, InMap, ReadyClients, TypeOK
    <3>2. epoch # None
      BY <1>1, Absent DEF IInv, TypeOK
    <3>3. Begun(a) /\ Begun(b)
      <4>1. Unused.epoch = None
        BY DEF Unused
      <4>. QED  BY <1>1, <2>1, <3>1, <3>2, <4>1 DEF IInv, TypeOK, Begun
    <3>4. ToGo(a) \/ ToGo(b)
      BY <1>1, <2>1, <3>1, <3>3 DEF IInv, OneIsOver, Over
    <3>. QED  BY <3>4 DEF ToGo, Owed
  <2>. QED  BY <2>1 DEF OnePathPerExit
<1>. QED  BY <1>1, Invariant, PTL
-----------------------------------------------------------------------------
(* What Close leaves behind                                                 *)

\* Once Close has taken the sessions there are none, and an open socket is that
\* of a session somebody has taken out and is about to close, or the endpoint of
\* a request or an offer under way, which newSessionWithEndpoint will refuse and
\* close.
ClosedIsEmpty ==
  closer = "cleared" =>
    /\ sessions = {}
    /\ \A s \in Sessions : socket[s] = "open" =>
         \/ s \in Attempts /\ attempt[s].at = "asking"
         \/ establish[s] = "offered"
         \/ Owed("close", s)

\* A closed manager registers nothing.
LEMMA NoneRegistered ==
  ASSUME [Next]_vars, Closed
  PROVE  /\ sessions' \subseteq sessions
         /\ closer' = closer \/ CloseSessions
<1>. DEFINE Fewer == sessions' \subseteq sessions /\ closer' = closer
<1>1. ASSUME NEW s \in Sessions, Running(s) PROVE Fewer
  <2>1. ASSUME \/ FailDirect(s) \/ RecordFailure(s) \/ RemoveFailed(s)
               \/ CloseDropped(s)
        PROVE  Fewer
    BY <2>1 DEF FailDirect, RecordFailure, RemoveFailed, CloseDropped
  <2>2. ASSUME \/ OfferRegisters(s) \/ OfferAccepted(s) \/ OfferAnswered(s)
               \/ OfferFails(s)
        PROVE  Fewer
    BY <2>2 DEF OfferRegisters, OfferAccepted, OfferAnswered, OfferFails, Drop,
                NotRegistered
  <2>3. ASSUME \/ Establish(s) \/ Punched(s) \/ Dialed(s) \/ EstablishFails(s)
               \/ Adopt(s)
        PROVE  Fewer
    BY <2>3 DEF Establish, Punched, Dialed, EstablishFails, Adopt
  <2>4. ASSUME \/ ResetFailure(s) \/ Enqueue(s) \/ QueueFull(s) \/ WatchEnds(s)
               \/ PathLost(s)
        PROVE  Fewer
    BY <2>4 DEF ResetFailure, Enqueue, QueueFull, WatchEnds, PathLost
  <2>. HIDE DEF Fewer
  <2>. QED  BY <1>1, <2>1, <2>2, <2>3, <2>4 DEF Running
<1>2. ASSUME NEW s \in Sessions, PathEnds(s) \/ Remove(s) \/ Expire(s) PROVE Fewer
  BY <1>2 DEF PathEnds, Remove, Expire, Drop
<1>3. ASSUME NEW S \in SUBSET Sessions, Reap(S) PROVE Fewer
  BY <1>3 DEF Reap, Drop
<1>4. ASSUME NEW a \in Attempts, Attempted(a) PROVE Fewer
  <2>1. ASSUME \/ PruneExit(a) \/ PrepareLocal(a) \/ ConnectGranted(a)
               \/ ConnectFails(a) \/ DropOld(a)
        PROVE  Fewer
    BY <2>1 DEF PruneExit, PrepareLocal, ConnectGranted, ConnectFails, DropOld, Drop,
                NotRegistered
  <2>2. ASSUME ConsumePending(a) \/ CheckEpoch(a) \/ NoteFailure(a) \/ ClearStarting(a)
        PROVE  Fewer
    BY <2>2 DEF ConsumePending, CheckEpoch, NoteFailure, ClearStarting
  <2>. HIDE DEF Fewer
  <2>. QED  BY <1>4, <2>1, <2>2 DEF Attempted
<1>5. ASSUME NEW a \in Attempts, AnswerArrives(a) PROVE Fewer
  BY <1>5 DEF AnswerArrives
<1>6. ASSUME NEW o \in Offers, OfferArrives(o) PROVE Fewer
  BY <1>6 DEF OfferArrives
<1>7. ASSUME NEW e \in Exits, EnsureClient(e) \/ FailReadyForExit(e) \/ CooldownEnds(e)
      PROVE  Fewer
  BY <1>7 DEF EnsureClient, FailReadyForExit, CooldownEnds
<1>8. ASSUME NetworkMoves \/ CheckNetwork \/ InvalidateNetwork PROVE Fewer
  BY <1>8 DEF NetworkMoves, CheckNetwork, InvalidateNetwork, Drop
<1>9. CASE CloseSessions
  BY <1>9 DEF CloseSessions, Drop
<1>10. CASE UNCHANGED vars
  BY <1>10 DEF vars
<1>11. ~Close
  BY DEF Close, Closed
<1>. HIDE DEF Fewer
<1>12. Fewer \/ CloseSessions \/ UNCHANGED vars
  BY <1>1, <1>2, <1>3, <1>4, <1>5, <1>6, <1>7, <1>8, <1>11 DEF Next
<1>. QED  BY <1>9, <1>10, <1>12 DEF Fewer

\* Close sets the flag before it takes the sessions.
LEMMA OpenStaysOpen ==
  ASSUME [Next]_vars, ~Closed
  PROVE  closer' # "cleared"
<1>. DEFINE Still == closer' = closer
<1>0. ASSUME Still PROVE closer' # "cleared"
  BY <1>0 DEF Closed
<1>1. CASE Aside
  BY <1>0, <1>1 DEF Aside
<1>2. ASSUME NEW a \in Attempts, Attempted(a) \/ AnswerArrives(a) PROVE Still
  BY <1>2 DEF Attempted, PruneExit, PrepareLocal, ConnectGranted, ConnectFails, DropOld,
              ConsumePending, CheckEpoch, NoteFailure, ClearStarting, AnswerArrives
<1>3. ASSUME NEW e \in Exits, EnsureClient(e) PROVE Still
  BY <1>3 DEF EnsureClient
<1>4. ASSUME NetworkMoves \/ CheckNetwork \/ InvalidateNetwork PROVE Still
  BY <1>4 DEF NetworkMoves, CheckNetwork, InvalidateNetwork
<1>5. CASE Close
  BY <1>5 DEF Close
<1>6. ~CloseSessions
  BY DEF CloseSessions, Closed
<1>. HIDE DEF Still
<1>. QED  BY <1>0, <1>1, <1>2, <1>3, <1>4, <1>5, <1>6, AttemptChange

\* After Close nothing is registered any more, though attempts, offers, answers
\* and failures of the sessions it took go on: no session is established for a
\* manager that is gone.
THEOREM ClosedManagerIsEmpty == Spec => []ClosedIsEmpty
<1>. DEFINE Cleared == closer = "cleared" => sessions = {}
<1>1. Init => Cleared
  BY DEF Init
<1>2. ASSUME IInv, Cleared, [Next]_vars
      PROVE  Cleared'
  <2>1. CASE Closed
    <3>1. CASE CloseSessions
      BY <3>1 DEF CloseSessions, Drop
    <3>. QED  BY <1>2, <2>1, <3>1, NoneRegistered
  <2>2. CASE ~Closed
    <3>1. closer' # "cleared"
      BY <1>2, <2>2, OpenStaysOpen
    <3>. QED  BY <3>1
  <2>. QED  BY <2>1, <2>2
<1>3. IInv /\ Cleared => ClosedIsEmpty
  BY DEF IInv, NothingLeaks, ClosedIsEmpty
<1>. HIDE DEF Cleared
<1>4. IInv /\ Cleared /\ [Next]_vars => Cleared'
  BY <1>2
<1>. QED  BY <1>1, <1>3, <1>4, Invariant, PTL DEF Spec
=============================================================================
