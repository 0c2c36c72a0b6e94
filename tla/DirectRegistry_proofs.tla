------------------------ MODULE DirectRegistry_proofs ------------------------
(*****************************************************************************)
(* Proofs about DirectRegistry: type correctness, that a published endpoint  *)
(* was reached by a probe for the registration it is published under         *)
(* (PublishedWasProbed), and that an endpoint that is being verified has a   *)
(* probe whose result it will take (VerifyingHasCheck).                      *)
(*                                                                           *)
(* IInv adds that a runtime announces the next epoch only within the bound   *)
(* on network changes (Announced).                                           *)
(*****************************************************************************)
EXTENDS DirectRegistry, TLAPS

-----------------------------------------------------------------------------
(* The inductive invariant                                                  *)

\* The epoch that a request under way announces is within the bound.
Announced ==
  \A s \in Sessions : runtime[s].move => runtime[s].epoch + 1 \in Epochs

IInv == TypeOK /\ Announced /\ PublishedWasProbed /\ VerifyingHasCheck

-----------------------------------------------------------------------------
(* Type correctness                                                         *)

\* Absent values are none of what they stand in for.
LEMMA Absent ==
  /\ None \notin Sessions /\ None \notin Epochs
  /\ Offline \in Networks
  /\ NoRecord \notin Records
BY RegistryAssumption DEF None, Sessions, Epochs, Networks, Offline, NoRecord,
                          Records

\* The step of a session of the Exit or of a hook keeps the types.
LEMMA SessionType ==
  ASSUME TypeOK, NEW s \in Sessions,
         \/ Connects(s) \/ Welcome(s) \/ WelcomeFails(s) \/ Disconnects(s)
         \/ DisconnectHook(s)
  PROVE  TypeOK'
<1>. USE DEF TypeOK, serverVars, InvalidateDevice
<1>1. CASE Connects(s)
  BY <1>1 DEF Connects
<1>2. CASE Welcome(s)
  BY <1>2 DEF Welcome
<1>3. CASE WelcomeFails(s)
  BY <1>3 DEF WelcomeFails
<1>4. CASE Disconnects(s)
  BY <1>4 DEF Disconnects
<1>5. CASE DisconnectHook(s)
  BY <1>5 DEF DisconnectHook
<1>. QED  BY <1>1, <1>2, <1>3, <1>4, <1>5

\* A request that is sent is one.
LEMMA SendType ==
  ASSUME TypeOK, NEW s \in Sessions, NEW epoch \in Epochs, Send(s, epoch)
  PROVE  inflight' \in SUBSET Requests
<1>1. Candidates[network] \in SUBSET Addresses
  BY RegistryAssumption DEF TypeOK
<1>2. [session |-> s, epoch |-> epoch, addresses |-> Candidates[network],
       awaited |-> TRUE] \in Requests
  BY <1>1 DEF Requests
<1>. QED  BY <1>2 DEF Send, TypeOK

\* The runtime of a session that is given up is one.
LEMMA GivenUpType == GivenUp \in Runtimes /\ NoRuntime \in Runtimes
<1>1. 1 \in Epochs /\ Offline \in Networks
  BY RegistryAssumption DEF Epochs, Networks, Offline
<1>2. NoRuntime \in Runtimes
  BY <1>1 DEF NoRuntime, Runtimes
<1>3. GivenUp \in Runtimes
  BY <1>1 DEF GivenUp, NoRuntime, Runtimes
<1>. QED  BY <1>2, <1>3

\* The step of a runtime keeps the types.
LEMMA RuntimeType ==
  ASSUME TypeOK, Announced, NEW s \in Sessions,
         \/ Start(s) \/ Started(s) \/ Refresh(s) \/ NetworkTick(s)
         \/ Returned(s) \/ TimesOut(s) \/ Stop(s)
  PROVE  TypeOK'
<1>. DEFINE Rest == /\ UNCHANGED <<serverVars, record, check, network, moves>>
                    /\ inflight' \in SUBSET Requests
                    /\ runtime' \in [Sessions -> Runtimes]
<1>0. SUFFICES Rest
  BY DEF TypeOK, serverVars
<1>a. /\ runtime[s] \in Runtimes /\ network \in Networks
      /\ inflight \in SUBSET Requests
      /\ runtime \in [Sessions -> Runtimes]
      /\ Offline \in Networks
  BY Absent DEF TypeOK
<1>b. \A move \in BOOLEAN : Calling(s, move) \in Runtimes
  BY <1>a DEF Calling, Runtimes
<1>1. CASE Start(s)
  <2>1. 1 \in Epochs
    BY RegistryAssumption DEF Epochs
  <2>2. [Calling(s, FALSE) EXCEPT !.at = "starting"] \in Runtimes
    BY <1>b DEF Runtimes
  <2>. QED  BY <1>1, <1>a, <2>1, <2>2, SendType DEF Start
<1>2. CASE Started(s)
  <2>1. [NoRuntime EXCEPT !.at = "running", !.previous = network] \in Runtimes
    BY <1>a, GivenUpType DEF Runtimes
  <2>. QED  BY <1>2, <1>a, <2>1 DEF Started
<1>3. CASE Refresh(s)
  <2>1. runtime[s].epoch \in Epochs
    BY <1>a DEF Runtimes
  <2>. QED  BY <1>3, <1>a, <1>b, <2>1, SendType DEF Refresh
<1>4. CASE NetworkTick(s)
  <2>1. CASE network = Offline \/ runtime[s].previous = Offline
    <3>1. [runtime[s] EXCEPT !.previous = network] \in Runtimes
      BY <1>a DEF Runtimes
    <3>. QED  BY <1>4, <1>a, <2>1, <3>1 DEF NetworkTick
  <2>2. CASE ~(network = Offline \/ runtime[s].previous = Offline)
    <3>1. runtime[s].epoch + 1 \in Epochs /\ Send(s, runtime[s].epoch + 1)
          /\ runtime' = [runtime EXCEPT ![s] = Calling(s, TRUE)]
      BY <1>4, <2>2 DEF NetworkTick
    <3>. QED  BY <1>4, <1>a, <1>b, <3>1, SendType DEF NetworkTick
  <2>. QED  BY <2>1, <2>2
<1>5. CASE Returned(s)
  <2>. DEFINE moved == runtime[s].move /\ runtime[s].call = "accepted"
              next == [runtime[s] EXCEPT
                         !.call = "none", !.of = Offline, !.move = FALSE,
                         !.epoch = IF moved THEN @ + 1 ELSE @,
                         !.previous = IF moved THEN runtime[s].of ELSE @]
  <2>1. runtime' = [runtime EXCEPT ![s] = next]
    BY <1>5 DEF Returned
  <2>2. next \in Runtimes
    BY <1>a DEF Runtimes, Announced
  <2>. QED  BY <1>5, <1>a, <2>1, <2>2 DEF Returned
<1>6. CASE TimesOut(s)
  <2>. DEFINE waited == {q \in inflight : q.session = s /\ q.awaited}
              late == {[q EXCEPT !.awaited = FALSE] : q \in waited}
  <2>1. \E kept \in {{}, late} : inflight' = (inflight \ waited) \cup kept
    BY <1>6 DEF TimesOut
  <2>2. late \in SUBSET Requests
    BY <1>a DEF Requests
  <2>3. inflight' \in SUBSET Requests
    <3>. HIDE DEF waited, late
    <3>. QED  BY <1>a, <2>1, <2>2
  <2>4. [runtime[s] EXCEPT !.call = "none", !.of = Offline, !.move = FALSE]
          \in Runtimes
    BY <1>a DEF Runtimes
  <2>. QED  BY <1>6, <1>a, <2>3, <2>4, GivenUpType DEF TimesOut
<1>7. CASE Stop(s)
  <2>1. \A q \in inflight : [q EXCEPT !.awaited = FALSE] \in Requests
    BY <1>a DEF Requests
  <2>. QED  BY <1>7, <1>a, <2>1, GivenUpType DEF Stop
<1>. QED  BY <1>1, <1>2, <1>3, <1>4, <1>5, <1>6, <1>7

\* The records that a registration makes are well-typed.
LEMMA ReplacedType ==
  ASSUME TypeOK, NEW q \in Requests
  PROVE  Replaced(q) \in [Addresses -> Records \cup {NoRecord}]
<1>1. NewRecord(q) \in Records
  BY DEF Requests, NewRecord, Records
<1>2. ASSUME NEW a \in Addresses, Kept(q, a)
      PROVE  [record[a] EXCEPT !.epoch = q.epoch] \in Records
  <2>1. record[a] \in Records \cup {NoRecord}
    BY DEF TypeOK
  <2>2. record[a] # NoRecord
    BY <1>2, Absent DEF Kept, NoRecord, Requests
  <2>. QED  BY <2>1, <2>2 DEF Records, Requests
<1>. QED  BY <1>1, <1>2 DEF Replaced

\* The checks it starts are, and take the place of none.
LEMMA VerifiesType ==
  ASSUME TypeOK, NEW q \in Requests, Verifies(q)
  PROVE  /\ check' \in [Checks -> Checking \cup {NoCheck}]
         /\ \A c \in Checks : check[c] # NoCheck => check'[c] = check[c]
<1>. DEFINE due == Due(q)
            free == {c \in Checks : check[c] = NoCheck}
<1>1. PICK f \in [due -> free] :
        check' = [c \in Checks |->
             IF \E a \in due : f[a] = c
             THEN [at |-> "queued", session |-> q.session,
                   address |-> CHOOSE a \in due : f[a] = c, epoch |-> None]
             ELSE check[c]]
  BY DEF Verifies
<1>2. due \subseteq Addresses
  BY DEF Due, Requests
<1>3. ASSUME NEW c \in Checks
      PROVE  check'[c] \in Checking \cup {NoCheck}
  <2>1. CASE \E a \in due : f[a] = c
    <3>1. (CHOOSE a \in due : f[a] = c) \in Addresses
      BY <1>2, <2>1
    <3>. QED  BY <1>1, <2>1, <3>1 DEF Checking, Requests
  <2>2. CASE ~\E a \in due : f[a] = c
    BY <1>1, <2>2 DEF TypeOK
  <2>. QED  BY <2>1, <2>2
<1>4. \A c \in Checks : check[c] # NoCheck => check'[c] = check[c]
  BY <1>1
<1>. QED  BY <1>1, <1>3, <1>4

\* The Server's handling of a request keeps the types.
LEMMA RequestType ==
  ASSUME TypeOK, NEW q \in inflight,
         Register(q) \/ RegisterUnanswered(q) \/ Refuse(q)
  PROVE  TypeOK'
<1>1. q \in Requests
  BY DEF TypeOK
<1>2. ASSUME NEW result \in {"accepted", "refused"}, Answer(q, result)
      PROVE  runtime' \in [Sessions -> Runtimes]
  <2>1. [runtime[q.session] EXCEPT !.call = result] \in Runtimes
    BY <1>1 DEF TypeOK, Runtimes, Requests
  <2>. QED  BY <1>1, <1>2, <2>1 DEF Answer, TypeOK, Requests
<1>3. CASE Register(q)
  BY <1>1, <1>2, <1>3, ReplacedType, VerifiesType
     DEF Register, Recorded, TypeOK, serverVars
<1>4. CASE RegisterUnanswered(q)
  BY <1>1, <1>4, ReplacedType DEF RegisterUnanswered, Recorded, TypeOK, serverVars
<1>5. CASE Refuse(q)
  BY <1>1, <1>2, <1>5 DEF Refuse, TypeOK, serverVars
<1>. QED  BY <1>3, <1>4, <1>5

\* A record that is looked up for a session is there.
LEMMA FoundType ==
  ASSUME TypeOK, NEW a \in Addresses, record[a].session \in Sessions
  PROVE  record[a] \in Records
BY Absent DEF TypeOK, NoRecord

\* A check that is under way has an address and a session.
LEMMA CheckType ==
  ASSUME TypeOK, NEW c \in Checks, check[c].at # "none"
  PROVE  /\ check[c] \in Checking
         /\ check[c].address \in Addresses
         /\ check[c].session \in Sessions
<1>0. NoCheck.at = "none"
  BY DEF NoCheck
<1>1. check[c] # NoCheck
  BY <1>0
<1>2. check[c] \in Checking
  BY <1>1 DEF TypeOK
<1>. QED  BY <1>2 DEF Checking

\* The steps of a verification keep the types.
LEMMA VerifyType ==
  ASSUME TypeOK, NEW c \in Checks, Verify(c)
  PROVE  TypeOK'
<1>. DEFINE a == check[c].address
<1>0. check[c] \in Checking /\ a \in Addresses /\ check[c].session \in Sessions
  BY CheckType DEF Verify, LookUp, MarkVerifying, MarkVerified, MarkFailed
<1>1. SameRegistration(c) => record[a] \in Records /\ check[c].epoch = record[a].epoch
  BY <1>0, FoundType DEF SameRegistration
<1>2. SUFFICES /\ record' \in [Addresses -> Records \cup {NoRecord}]
               /\ check' \in [Checks -> Checking \cup {NoCheck}]
  BY DEF TypeOK, serverVars, Verify, LookUp, MarkVerifying, MarkVerified, MarkFailed
<1>3. CheckEnds(c) => check' \in [Checks -> Checking \cup {NoCheck}]
  BY DEF CheckEnds, TypeOK
<1>4. ASSUME NEW state \in {"verified", "failed"}, NEW probed, Update(c, state, probed),
             SameRegistration(c) => probed \in (Sessions \X Epochs) \cup {<<>>}
      PROVE  record' \in [Addresses -> Records \cup {NoRecord}]
  <2>1. SameRegistration(c) =>
          [record[a] EXCEPT !.state = state, !.verified = (probed # <<>>),
                            !.probed = probed] \in Records
    BY <1>1, <1>4 DEF Records
  <2>. QED  BY <1>0, <1>4, <2>1 DEF Update, TypeOK
<1>5. CASE LookUp(c)
  <2>1. CASE record[a].session = check[c].session
    <3>1. record[a] \in Records
      BY <1>0, <2>1, FoundType
    <3>2. [check[c] EXCEPT !.at = "found", !.epoch = record[a].epoch] \in Checking
      BY <1>0, <3>1 DEF Checking, Records
    <3>. QED  BY <1>5, <2>1, <3>2 DEF LookUp, TypeOK
  <2>2. CASE record[a].session # check[c].session
    BY <1>3, <1>5, <2>2 DEF LookUp, TypeOK
  <2>. QED  BY <2>1, <2>2
<1>6. CASE MarkVerifying(c)
  <2>1. CASE SameRegistration(c)
    <3>1. [record[a] EXCEPT !.state = "verifying"] \in Records
      BY <1>1, <2>1 DEF Records
    <3>2. [check[c] EXCEPT !.at = "probing"] \in Checking
      BY <1>0 DEF Checking
    <3>. QED  BY <1>6, <2>1, <3>1, <3>2 DEF MarkVerifying, TypeOK
  <2>2. CASE ~SameRegistration(c)
    BY <1>3, <1>6, <2>2 DEF MarkVerifying, TypeOK
  <2>. QED  BY <2>1, <2>2
<1>7. CASE MarkVerified(c)
  <2>1. SameRegistration(c) =>
          <<check[c].session, check[c].epoch>> \in (Sessions \X Epochs) \cup {<<>>}
    BY <1>0, <1>1 DEF Records
  <2>. QED  BY <1>3, <1>4, <1>7, <2>1 DEF MarkVerified
<1>8. CASE MarkFailed(c)
  BY <1>3, <1>4, <1>8 DEF MarkFailed
<1>. QED  BY <1>5, <1>6, <1>7, <1>8 DEF Verify

\* The end of a verification's time keeps the types.
LEMMA LapseType ==
  ASSUME TypeOK, NEW a \in Addresses, Lapse(a)
  PROVE  TypeOK'
<1>1. record[a] \in Records
  BY DEF Lapse, TypeOK, NoRecord
<1>2. [record[a] EXCEPT !.state = "expired", !.verified = FALSE, !.probed = <<>>]
        \in Records
  BY <1>1 DEF Records
<1>. QED  BY <1>2 DEF Lapse, TypeOK, serverVars

\* Every step keeps the types.
LEMMA TypeStep ==
  ASSUME TypeOK, Announced, [Next]_vars
  PROVE  TypeOK'
<1>1. CASE UNCHANGED vars
  BY <1>1 DEF TypeOK, vars, serverVars
<1>2. CASE NetworkMoves
  BY <1>2, RegistryAssumption DEF NetworkMoves, TypeOK, serverVars
<1>. QED
  BY <1>1, <1>2, SessionType, RuntimeType, RequestType, VerifyType, LapseType DEF Next

-----------------------------------------------------------------------------
(* The invariant's other parts                                              *)

\* A runtime announces an epoch only within the bound.
LEMMA AnnouncedStep ==
  ASSUME TypeOK, Announced, [Next]_vars
  PROVE  Announced'
<1>. USE DEF serverVars
<1>1. ASSUME UNCHANGED runtime
      PROVE  Announced'
  BY <1>1 DEF Announced
<1>2. ASSUME NEW s \in Sessions, NEW next,
             runtime' = [runtime EXCEPT ![s] = next],
             next.move => next.epoch + 1 \in Epochs
      PROVE  Announced'
  BY <1>2 DEF Announced, TypeOK
<1>3. ASSUME NEW s \in Sessions, Start(s)
      PROVE  Announced'
  <2>1. [Calling(s, FALSE) EXCEPT !.at = "starting"].move = FALSE
    BY DEF Calling, TypeOK, Runtimes
  <2>. QED  BY <1>2, <1>3, <2>1 DEF Start
<1>4. ASSUME NEW s \in Sessions, Started(s)
      PROVE  Announced'
  BY <1>2, <1>4 DEF Started, NoRuntime
<1>5. ASSUME NEW s \in Sessions, Refresh(s)
      PROVE  Announced'
  <2>1. Calling(s, FALSE).move = FALSE
    BY DEF Calling, TypeOK, Runtimes
  <2>. QED  BY <1>2, <1>5, <2>1 DEF Refresh
<1>6. ASSUME NEW s \in Sessions, NetworkTick(s)
      PROVE  Announced'
  <2>1. /\ Calling(s, TRUE).epoch = runtime[s].epoch
        /\ runtime[s] \in Runtimes
    BY DEF Calling, TypeOK, Runtimes
  <2>2. CASE runtime' = [runtime EXCEPT ![s].previous = network]
    BY <2>1, <2>2 DEF Announced, TypeOK, Runtimes
  <2>. QED  BY <1>2, <1>6, <2>1, <2>2 DEF NetworkTick
<1>7. ASSUME NEW s \in Sessions, Returned(s)
      PROVE  Announced'
  <2>. DEFINE moved == runtime[s].move /\ runtime[s].call = "accepted"
              next == [runtime[s] EXCEPT
                         !.call = "none", !.of = Offline, !.move = FALSE,
                         !.epoch = IF moved THEN @ + 1 ELSE @,
                         !.previous = IF moved THEN runtime[s].of ELSE @]
  <2>1. runtime' = [runtime EXCEPT ![s] = next]
    BY <1>7 DEF Returned
  <2>2. next.move = FALSE
    BY DEF TypeOK, Runtimes
  <2>. QED  BY <1>2, <2>1, <2>2
<1>8. ASSUME NEW s \in Sessions, TimesOut(s)
      PROVE  Announced'
  <2>1. [runtime[s] EXCEPT !.call = "none", !.of = Offline, !.move = FALSE].move
          = FALSE
    BY DEF TypeOK, Runtimes
  <2>2. GivenUp.move = FALSE
    BY DEF GivenUp, NoRuntime
  <2>. QED  BY <1>2, <1>8, <2>1, <2>2 DEF TimesOut
<1>9. ASSUME NEW s \in Sessions, Stop(s)
      PROVE  Announced'
  BY <1>2, <1>9 DEF Stop, GivenUp, NoRuntime
<1>10. ASSUME NEW q \in inflight,
              Register(q) \/ RegisterUnanswered(q) \/ Refuse(q)
       PROVE  Announced'
  <2>1. CASE runtime' = runtime
    BY <1>1, <2>1
  <2>2. ASSUME NEW result, runtime' = [runtime EXCEPT ![q.session].call = result]
        PROVE  Announced'
    BY <2>2 DEF Announced, TypeOK, Runtimes
  <2>. QED  BY <1>10, <2>1, <2>2 DEF Register, RegisterUnanswered, Refuse, Answer
<1>11. ASSUME NEW s \in Sessions,
              \/ Connects(s) \/ Welcome(s) \/ WelcomeFails(s) \/ Disconnects(s)
              \/ DisconnectHook(s)
       PROVE  Announced'
  BY <1>1, <1>11 DEF Connects, Welcome, WelcomeFails, Disconnects, DisconnectHook
<1>12. ASSUME NEW c \in Checks, Verify(c)
       PROVE  Announced'
  BY <1>1, <1>12 DEF Verify, LookUp, MarkVerifying, MarkVerified, MarkFailed
<1>13. CASE NetworkMoves \/ (\E a \in Addresses : Lapse(a)) \/ UNCHANGED vars
  BY <1>1, <1>13 DEF NetworkMoves, Lapse, vars
<1>. QED
  BY <1>3, <1>4, <1>5, <1>6, <1>7, <1>8, <1>9, <1>10, <1>11, <1>12, <1>13 DEF Next

\* Steps that leave records and checks alone, and those that forget records.
LEMMA Aside ==
  ASSUME TypeOK, PublishedWasProbed, VerifyingHasCheck,
         record' \in {record, [a \in Addresses |-> NoRecord]},
         UNCHANGED check
  PROVE  PublishedWasProbed' /\ VerifyingHasCheck'
<1>1. CASE record' = record
  BY <1>1 DEF PublishedWasProbed, VerifyingHasCheck, SameRegistration
<1>2. CASE record' = [a \in Addresses |-> NoRecord]
  BY <1>2 DEF PublishedWasProbed, VerifyingHasCheck, NoRecord
<1>. QED  BY <1>1, <1>2

\* A probe that ends takes nobody else's record out of verification.
LEMMA OtherChecks ==
  ASSUME TypeOK, VerifyingHasCheck, NEW c \in Checks, CheckEnds(c),
         NEW a \in Addresses,
         record[a].state = "verifying",
         record'[a].session = record[a].session,
         record'[a].epoch = record[a].epoch,
         ~(check[c].at = "probing" /\ check[c].address = a /\ SameRegistration(c))
  PROVE  \E d \in Checks : /\ check'[d].at = "probing"
                           /\ check'[d].address = a
                           /\ SameRegistration(d)'
<1>1. PICK d \in Checks : /\ check[d].at = "probing"
                          /\ check[d].address = a
                          /\ SameRegistration(d)
  BY DEF VerifyingHasCheck
<1>2. d # c
  BY <1>1
<1>3. check'[d] = check[d]
  BY <1>2 DEF CheckEnds, TypeOK
<1>. QED  BY <1>1, <1>3 DEF SameRegistration

\* A registration keeps what a probe has found out about the same one,
\* whether it is answered or not.
LEMMA RegisterStep ==
  ASSUME TypeOK, PublishedWasProbed, VerifyingHasCheck,
         NEW q \in inflight, Register(q) \/ RegisterUnanswered(q)
  PROVE  PublishedWasProbed' /\ VerifyingHasCheck'
<1>1. q \in Requests
  BY DEF TypeOK
<1>a. record' = Replaced(q)
  BY DEF Register, RegisterUnanswered, Recorded
<1>2. ASSUME NEW a \in Addresses, record'[a].verified \/ record'[a].state = "verifying"
      PROVE  record'[a] = record[a]
  <2>1. a \in q.addresses /\ Kept(q, a)
    BY <1>2, <1>a DEF Replaced, NewRecord, NoRecord
  <2>2. record[a] \in Records
    BY <1>1, <2>1, FoundType DEF Kept, Requests
  <2>3. record'[a] = [record[a] EXCEPT !.epoch = q.epoch]
    BY <1>a, <2>1 DEF Replaced
  <2>. QED  BY <2>1, <2>2, <2>3 DEF Kept, Records
<1>3. PublishedWasProbed'
  BY <1>2 DEF PublishedWasProbed
<1>4. ASSUME NEW a \in Addresses, record'[a].state = "verifying"
      PROVE  \E c \in Checks : /\ check'[c].at = "probing"
                               /\ check'[c].address = a
                               /\ SameRegistration(c)'
  <2>1. record'[a] = record[a]
    BY <1>2, <1>4
  <2>2. PICK c \in Checks : /\ check[c].at = "probing"
                            /\ check[c].address = a
                            /\ SameRegistration(c)
    BY <1>4, <2>1 DEF VerifyingHasCheck
  <2>3. check[c] # NoCheck
    <3>1. NoCheck.at = "none"
      BY DEF NoCheck
    <3>. QED  BY <2>2, <3>1
  <2>4. check'[c] = check[c]
    BY <1>1, <2>3, VerifiesType DEF Register, RegisterUnanswered
  <2>. QED  BY <2>1, <2>2, <2>4 DEF SameRegistration
<1>5. VerifyingHasCheck'
  BY <1>4 DEF VerifyingHasCheck
<1>. QED  BY <1>3, <1>5

\* The end of a probe is written to the record of its own registration only.
LEMMA ResultStep ==
  ASSUME TypeOK, PublishedWasProbed, VerifyingHasCheck, NEW c \in Checks,
         check[c].at = "probing", CheckEnds(c),
         \/ Update(c, "verified", <<check[c].session, check[c].epoch>>)
         \/ Update(c, "failed", <<>>)
  PROVE  PublishedWasProbed' /\ VerifyingHasCheck'
<1>. DEFINE a == check[c].address
<1>0. check[c].address \in Addresses /\ check[c].session \in Sessions
  BY CheckType
<1>1. CASE ~SameRegistration(c)
  <2>1. record' = record
    BY <1>1 DEF Update
  <2>2. PublishedWasProbed'
    BY <2>1 DEF PublishedWasProbed
  <2>3. VerifyingHasCheck'
    BY <1>1, <2>1, OtherChecks DEF VerifyingHasCheck
  <2>. QED  BY <2>2, <2>3
<1>2. CASE SameRegistration(c)
  <2>1. record[a] \in Records
    BY <1>0, <1>2, FoundType DEF SameRegistration
  <2>2. /\ record'[a].state # "verifying"
        /\ record'[a].verified =>
             record'[a].probed = <<record'[a].session, record'[a].epoch>>
    <3>1. ASSUME NEW state, NEW probed, Update(c, state, probed)
          PROVE  /\ record'[a].state = state
                 /\ record'[a].verified = (probed # <<>>)
                 /\ record'[a].probed = probed
                 /\ record'[a].session = record[a].session
                 /\ record'[a].epoch = record[a].epoch
      <4>1. record'[a] = [record[a] EXCEPT !.state = state,
                            !.verified = (probed # <<>>), !.probed = probed]
        BY <1>0, <1>2, <3>1 DEF Update, TypeOK
      <4>. QED  BY <2>1, <4>1 DEF Records
    <3>2. CASE Update(c, "verified", <<check[c].session, check[c].epoch>>)
      BY <1>2, <3>1, <3>2 DEF SameRegistration
    <3>3. CASE Update(c, "failed", <<>>)
      <4>1. record'[a].state = "failed" /\ record'[a].verified = (<<>> # <<>>)
        BY <3>1, <3>3, Zenon
      <4>. QED  BY <4>1
    <3>. QED  BY <3>2, <3>3
  <2>3. \A b \in Addresses : b # a => record'[b] = record[b]
    BY <1>2 DEF Update, TypeOK
  <2>4. PublishedWasProbed'
    BY <2>2, <2>3 DEF PublishedWasProbed
  <2>5. VerifyingHasCheck'
    BY <2>2, <2>3, OtherChecks DEF VerifyingHasCheck
  <2>. QED  BY <2>4, <2>5
<1>. QED  BY <1>1, <1>2

\* The steps of a verification.
LEMMA VerifyStep ==
  ASSUME TypeOK, PublishedWasProbed, VerifyingHasCheck, NEW c \in Checks, Verify(c)
  PROVE  PublishedWasProbed' /\ VerifyingHasCheck'
<1>. DEFINE a == check[c].address
<1>0. check[c] \in Checking /\ a \in Addresses /\ check[c].session \in Sessions
  BY CheckType DEF Verify, LookUp, MarkVerifying, MarkVerified, MarkFailed
<1>1. ASSUME UNCHANGED record, check[c].at # "probing",
             \A d \in Checks : d # c => check'[d] = check[d]
      PROVE  PublishedWasProbed' /\ VerifyingHasCheck'
  <2>1. PublishedWasProbed'
    BY <1>1 DEF PublishedWasProbed
  <2>2. VerifyingHasCheck'
    BY <1>1 DEF VerifyingHasCheck, SameRegistration
  <2>. QED  BY <2>1, <2>2
<1>2. CASE LookUp(c)
  BY <1>1, <1>2 DEF LookUp, CheckEnds, TypeOK
<1>3. CASE MarkVerifying(c)
  <2>1. CASE ~SameRegistration(c)
    BY <1>1, <1>3, <2>1 DEF MarkVerifying, CheckEnds, TypeOK
  <2>2. CASE SameRegistration(c)
    <3>1. record[a] \in Records
      BY <1>0, <2>2, FoundType DEF SameRegistration
    <3>2. record'[a] = [record[a] EXCEPT !.state = "verifying"]
          /\ \A b \in Addresses : b # a => record'[b] = record[b]
      BY <1>0, <1>3, <2>2 DEF MarkVerifying, TypeOK
    <3>3. check'[c] = [check[c] EXCEPT !.at = "probing"]
          /\ \A d \in Checks : d # c => check'[d] = check[d]
      BY <1>3, <2>2 DEF MarkVerifying, TypeOK
    <3>4. /\ record'[a].verified = record[a].verified
          /\ record'[a].probed = record[a].probed
          /\ record'[a].session = record[a].session
          /\ record'[a].epoch = record[a].epoch
      BY <3>1, <3>2 DEF Records
    <3>5. PublishedWasProbed'
      <4>1. \A b \in Addresses :
              /\ record'[b].verified = record[b].verified
              /\ record'[b].probed = record[b].probed
              /\ record'[b].session = record[b].session
              /\ record'[b].epoch = record[b].epoch
        BY <3>2, <3>4
      <4>. QED  BY <4>1 DEF PublishedWasProbed
    <3>6. /\ check'[c].at = "probing" /\ check'[c].address = a
          /\ check'[c].session = check[c].session
          /\ check'[c].epoch = check[c].epoch
      BY <1>0, <3>3 DEF Checking
    <3>7. SameRegistration(c)'
      BY <2>2, <3>4, <3>6 DEF SameRegistration
    <3>8. check[c].at = "found"
      BY <1>3 DEF MarkVerifying
    <3>9. ASSUME NEW b \in Addresses, b # a, record'[b].state = "verifying"
          PROVE  \E d \in Checks : /\ check'[d].at = "probing"
                                   /\ check'[d].address = b
                                   /\ SameRegistration(d)'
      <4>1. record[b].state = "verifying" /\ record'[b] = record[b]
        BY <3>2, <3>9
      <4>2. PICK d \in Checks : /\ check[d].at = "probing"
                                /\ check[d].address = b
                                /\ SameRegistration(d)
        BY <4>1 DEF VerifyingHasCheck
      <4>3. check'[d] = check[d]
        BY <3>3, <3>8, <4>2
      <4>. QED  BY <4>1, <4>2, <4>3 DEF SameRegistration
    <3>10. VerifyingHasCheck'
      BY <3>6, <3>7, <3>9 DEF VerifyingHasCheck
    <3>. QED  BY <3>5, <3>10
  <2>. QED  BY <2>1, <2>2
<1>4. CASE MarkVerified(c) \/ MarkFailed(c)
  BY <1>4, ResultStep DEF MarkVerified, MarkFailed
<1>. QED  BY <1>2, <1>3, <1>4 DEF Verify

\* An endpoint whose time is over is neither published nor being verified.
LEMMA LapseStep ==
  ASSUME TypeOK, PublishedWasProbed, VerifyingHasCheck, NEW a \in Addresses, Lapse(a)
  PROVE  PublishedWasProbed' /\ VerifyingHasCheck'
<1>1. record[a] \in Records
  BY DEF Lapse, TypeOK, NoRecord
<1>2. /\ record'[a] = [record[a] EXCEPT !.state = "expired", !.verified = FALSE,
                                        !.probed = <<>>]
      /\ \A b \in Addresses : b # a => record'[b] = record[b]
      /\ UNCHANGED check
  BY DEF Lapse, TypeOK
<1>3. ~record'[a].verified /\ record'[a].state = "expired"
  BY <1>1, <1>2 DEF Records
<1>4. PublishedWasProbed'
  BY <1>2, <1>3 DEF PublishedWasProbed
<1>5. ASSUME NEW b \in Addresses, record'[b].state = "verifying"
      PROVE  \E c \in Checks : /\ check'[c].at = "probing"
                               /\ check'[c].address = b
                               /\ SameRegistration(c)'
  <2>1. record'[b] = record[b]
    BY <1>2, <1>3, <1>5
  <2>. QED  BY <1>2, <1>5, <2>1 DEF VerifyingHasCheck, SameRegistration
<1>6. VerifyingHasCheck'
  BY <1>5 DEF VerifyingHasCheck
<1>. QED  BY <1>4, <1>6

\* Every step keeps both.
LEMMA ProbeStep ==
  ASSUME TypeOK, PublishedWasProbed, VerifyingHasCheck, [Next]_vars
  PROVE  PublishedWasProbed' /\ VerifyingHasCheck'
<1>. USE DEF serverVars, InvalidateDevice
<1>1. ASSUME NEW s \in Sessions,
             \/ Connects(s) \/ Welcome(s) \/ WelcomeFails(s) \/ Disconnects(s)
             \/ DisconnectHook(s)
      PROVE  PublishedWasProbed' /\ VerifyingHasCheck'
  BY <1>1, Aside
     DEF Connects, Welcome, WelcomeFails, Disconnects, DisconnectHook
<1>2. ASSUME NEW s \in Sessions,
             \/ Start(s) \/ Started(s) \/ Refresh(s) \/ NetworkTick(s)
             \/ Returned(s) \/ TimesOut(s) \/ Stop(s)
      PROVE  PublishedWasProbed' /\ VerifyingHasCheck'
  BY <1>2, Aside
     DEF Start, Started, Refresh, NetworkTick, Returned, TimesOut, Stop
<1>3. ASSUME NEW q \in inflight,
             Register(q) \/ RegisterUnanswered(q) \/ Refuse(q)
      PROVE  PublishedWasProbed' /\ VerifyingHasCheck'
  BY <1>3, RegisterStep, Aside DEF Refuse
<1>4. CASE NetworkMoves \/ UNCHANGED vars
  BY <1>4, Aside DEF NetworkMoves, vars
<1>. QED  BY <1>1, <1>2, <1>3, <1>4, VerifyStep, LapseStep DEF Next

-----------------------------------------------------------------------------
(* The theorems                                                             *)

\* Nothing is registered, and nothing is verified, to begin with.
LEMMA InitInv ==
  ASSUME Init
  PROVE  IInv
<1>1. TypeOK
  BY GivenUpType, RegistryAssumption DEF Init, TypeOK, Networks
<1>2. Announced
  BY DEF Init, Announced, NoRuntime
<1>3. PublishedWasProbed /\ VerifyingHasCheck
  BY DEF Init, PublishedWasProbed, VerifyingHasCheck, NoRecord
<1>. QED  BY <1>1, <1>2, <1>3 DEF IInv

\* The invariant holds in every reachable state.
THEOREM Invariant == Spec => []IInv
<1>1. IInv /\ [Next]_vars => IInv'
  BY TypeStep, AnnouncedStep, ProbeStep DEF IInv
<1>. QED  BY InitInv, <1>1, PTL DEF Spec

\* Records, checks, runtimes and requests stay in their ranges.
THEOREM TypeCorrect == Spec => []TypeOK
<1>1. IInv => TypeOK
  BY DEF IInv
<1>. QED  BY <1>1, Invariant, PTL

\* However verifications overlap with registrations of the same addresses,
\* what is published was probed for the registration it is published under.
THEOREM OnlyProbedIsPublished == Spec => []PublishedWasProbed
<1>1. IInv => PublishedWasProbed
  BY DEF IInv
<1>. QED  BY <1>1, Invariant, PTL

\* No record waits for a verification that is not under way.
THEOREM VerificationIsUnderWay == Spec => []VerifyingHasCheck
<1>1. IInv => VerifyingHasCheck
  BY DEF IInv
<1>. QED  BY <1>1, Invariant, PTL
=============================================================================
