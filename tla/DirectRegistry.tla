---------------------------- MODULE DirectRegistry ----------------------------
(* The public direct endpoints of one Exit: the Exit's runtime, which        *)
(* registers the addresses it listens on and registers them again as its     *)
(* network changes (agent/direct/runtime.go), and the Server's registry with *)
(* its verifications (server/direct), next to the sessions of the Exit and   *)
(* the hooks of main.go that invalidate what was registered.                 *)
(*                                                                           *)
(* A step is one critical section of Registry.mu, one message between Exit   *)
(* and Server, or the end of a probe.  A control request whose caller has    *)
(* run out of time may still be served, after its session has ended too.     *)
(*                                                                           *)
(* A record that is past ExpiresAt is expired by whoever looks at it next    *)
(* (expireLocked, Register), so that Lapse does both.  The fingerprint is    *)
(* the session's: each runtime generates an identity.  The validation of     *)
(* addresses, the notification of Clients and Controller.Close are not       *)
(* modelled.                                                                 *)
(*****************************************************************************)
EXTENDS Naturals, FiniteSets

CONSTANTS
  Addresses,
  Candidates,   \* the addresses discovered on each network
  Checks,       \* bound: verifications under way at the same time
  MaxSessions,  \* bound: sessions of the Exit, one after the other
  Ends,         \* bound: the sessions that end while they are registered
  MaxMoves,     \* bound: changes of the Exit's network
  MaxRequests   \* bound: requests on their way at the same time

None == 0
Sessions == 1..MaxSessions
Epochs == 1..(MaxMoves + 1)

(* A network is represented by its signature; Offline has none.              *)
Offline == 0
Networks == 0..2

ASSUME RegistryAssumption ==
  /\ MaxSessions \in Nat /\ MaxMoves \in Nat /\ MaxRequests \in Nat
  /\ Candidates \in [Networks -> SUBSET Addresses]
  /\ IsFiniteSet(Checks)

VARIABLES
  session,      \* the Exit's session the Server has registered, or None
  handler,      \* where the Gateway's handler of each session is
  hook,         \* sessions whose OnDeviceDisconnected is still to run
  record,       \* Registry.records of the device
  check,        \* the goroutines of Controller.verify
  runtime,      \* the ExitRuntime of each session
  inflight,     \* requests that the Server has still to serve
  network,      \* the signature of the Exit's network
  moves         \* changes of the network so far

serverVars == <<session, handler, hook>>
vars == <<serverVars, record, check, runtime, inflight, network, moves>>

(* probed (not in the code): session and epoch of the registration that the  *)
(* probe was for by whose success the endpoint is verified.                  *)
Records == [session : Sessions, epoch : Epochs,
            state : {"unknown", "verifying", "verified", "failed", "expired"},
            verified : BOOLEAN, probed : (Sessions \X Epochs) \cup {<<>>}]
NoRecord == [session |-> None, epoch |-> None, state |-> "unknown",
             verified |-> FALSE, probed |-> <<>>]

(* found, probing: the registration Verify has looked up is that of epoch.   *)
Checking == [at : {"queued", "found", "probing"}, session : Sessions,
             address : Addresses, epoch : Epochs \cup {None}]
NoCheck == [at |-> "none", session |-> None, address |-> "", epoch |-> None]

(* call: what became of the request sent last, which was made on the network *)
(* of; move: it announces the next epoch.                                    *)
Runtimes == [at : {"none", "starting", "running", "over"}, epoch : Epochs,
             previous : Networks, call : {"none", "waiting", "accepted", "refused"},
             of : Networks, move : BOOLEAN]
NoRuntime == [at |-> "none", epoch |-> 1, previous |-> Offline, call |-> "none",
              of |-> Offline, move |-> FALSE]
GivenUp == [NoRuntime EXCEPT !.at = "over"]

Requests == [session : Sessions, epoch : Epochs, addresses : SUBSET Addresses,
             awaited : BOOLEAN]

TypeOK ==
  /\ session \in Sessions \cup {None}
  /\ handler \in [Sessions -> {"none", "registered", "serving", "ended"}]
  /\ hook \in SUBSET Sessions
  /\ record \in [Addresses -> Records \cup {NoRecord}]
  /\ check \in [Checks -> Checking \cup {NoCheck}]
  /\ runtime \in [Sessions -> Runtimes]
  /\ inflight \in SUBSET Requests
  /\ network \in Networks
  /\ moves \in 0..MaxMoves

Init ==
  /\ session = None
  /\ handler = [s \in Sessions |-> "none"]
  /\ hook = {}
  /\ record = [a \in Addresses |-> NoRecord]
  /\ check = [c \in Checks |-> NoCheck]
  /\ runtime = [s \in Sessions |-> NoRuntime]
  /\ inflight = {}
  /\ network = 1
  /\ moves = 0

-----------------------------------------------------------------------------
(* Sessions of the Exit, and the hooks *)

InvalidateDevice == record' = [a \in Addresses |-> NoRecord]

(* A session is registered; it displaces the one that was.                   *)
Connects(s) ==
  /\ handler[s] = "none"
  /\ \A t \in 1..(s - 1) : handler[t] # "none"
  /\ session' = s
  /\ handler' = [t \in Sessions |->
       IF t = s THEN "registered"
       ELSE IF t = session /\ handler[t] = "serving" THEN "ended"
       ELSE handler[t]]
  /\ UNCHANGED <<hook, record, check, runtime, inflight, network, moves>>

(* The welcome was written: OnDeviceConnected, and then streams are          *)
(* accepted, unless the session was displaced in the meantime.               *)
Welcome(s) ==
  /\ handler[s] = "registered"
  /\ handler' = [handler EXCEPT ![s] = IF session = s THEN "serving" ELSE "ended"]
  /\ InvalidateDevice
  /\ UNCHANGED <<session, hook, check, runtime, inflight, network, moves>>

(* The welcome cannot be written: no hook was run, and none will be.         *)
WelcomeFails(s) ==
  /\ handler[s] = "registered"
  /\ handler' = [handler EXCEPT ![s] = "ended"]
  /\ session' = IF session = s THEN None ELSE session
  /\ UNCHANGED <<hook, record, check, runtime, inflight, network, moves>>

(* The handler of the registered session unregisters it.                     *)
Disconnects(s) ==
  /\ session = s /\ handler[s] = "serving" /\ s \in Ends
  /\ session' = None
  /\ handler' = [handler EXCEPT ![s] = "ended"]
  /\ hook' = hook \cup {s}
  /\ UNCHANGED <<record, check, runtime, inflight, network, moves>>

(* OnDeviceDisconnected, whoever is registered by now.                       *)
DisconnectHook(s) ==
  /\ s \in hook
  /\ hook' = hook \ {s}
  /\ InvalidateDevice
  /\ UNCHANGED <<session, handler, check, runtime, inflight, network, moves>>

-----------------------------------------------------------------------------
(* The Exit's runtime *)

(* registerExitEndpoints sends a request on its session.  After the session  *)
(* has ended it would be lost, and is left out.                              *)
Send(s, epoch) ==
  LET request == [session |-> s, epoch |-> epoch,
                  addresses |-> Candidates[network], awaited |-> TRUE]
  IN  /\ handler[s] # "ended" /\ Cardinality(inflight) < MaxRequests
      /\ inflight' = inflight \cup {request}

Calling(s, move) ==
  [runtime[s] EXCEPT !.call = "waiting", !.of = network, !.move = move]

(* StartExitRuntime: the first registration.                                 *)
Start(s) ==
  /\ handler[s] = "serving"
  /\ runtime[s].at = "none"
  /\ Send(s, 1)
  /\ runtime' = [runtime EXCEPT ![s] = [Calling(s, FALSE) EXCEPT !.at = "starting"]]
  /\ UNCHANGED <<serverVars, record, check, network, moves>>

(* It was accepted: watchNetwork begins with the network of this moment.     *)
Started(s) ==
  /\ runtime[s].at = "starting"
  /\ runtime[s].call = "accepted"
  /\ runtime' = [runtime EXCEPT ![s] =
       [NoRuntime EXCEPT !.at = "running", !.previous = network]]
  /\ UNCHANGED <<serverVars, record, check, inflight, network, moves>>

Idle(s) == runtime[s].at = "running" /\ runtime[s].call = "none"

(* The refresh ticker.                                                       *)
Refresh(s) ==
  /\ Idle(s)
  /\ Send(s, runtime[s].epoch)
  /\ runtime' = [runtime EXCEPT ![s] = Calling(s, FALSE)]
  /\ UNCHANGED <<serverVars, record, check, network, moves>>

(* The network ticker: a signature that is missing, now or before, is only   *)
(* remembered; a new one is announced under the next epoch.                  *)
NetworkTick(s) ==
  /\ Idle(s)
  /\ runtime[s].previous # network
  /\ IF network = Offline \/ runtime[s].previous = Offline
     THEN /\ runtime' = [runtime EXCEPT ![s].previous = network]
          /\ UNCHANGED inflight
     ELSE /\ runtime[s].epoch + 1 \in Epochs
          /\ Send(s, runtime[s].epoch + 1)
          /\ runtime' = [runtime EXCEPT ![s] = Calling(s, TRUE)]
  /\ UNCHANGED <<serverVars, record, check, network, moves>>

(* The response arrives; after a refusal watchNetwork tries again later.     *)
Returned(s) ==
  /\ runtime[s].at = "running"
  /\ runtime[s].call \in {"accepted", "refused"}
  /\ LET moved == runtime[s].move /\ runtime[s].call = "accepted" IN
     runtime' = [runtime EXCEPT
       ![s].call = "none", ![s].of = Offline, ![s].move = FALSE,
       ![s].epoch = IF moved THEN @ + 1 ELSE @,
       ![s].previous = IF moved THEN runtime[s].of ELSE @]
  /\ UNCHANGED <<serverVars, record, check, inflight, network, moves>>

(* The request or its response does not arrive in time: a request may be     *)
(* lost, or be served later.  A runtime that was starting is given up.       *)
TimesOut(s) ==
  /\ runtime[s].call # "none"
  /\ runtime' = [runtime EXCEPT ![s] =
       IF @.at = "starting" THEN GivenUp
       ELSE [@ EXCEPT !.call = "none", !.of = Offline, !.move = FALSE]]
  /\ LET waited == {q \in inflight : q.session = s /\ q.awaited}
         late == {[q EXCEPT !.awaited = FALSE] : q \in waited}
     IN  \E kept \in {{}, late} : inflight' = (inflight \ waited) \cup kept
  /\ UNCHANGED <<serverVars, record, check, network, moves>>

(* The session is over: the runtime is closed.                               *)
Stop(s) ==
  /\ handler[s] = "ended"
  /\ runtime[s].at \in {"starting", "running"}
  /\ runtime' = [runtime EXCEPT ![s] = GivenUp]
  /\ inflight' = {IF q.session = s THEN [q EXCEPT !.awaited = FALSE] ELSE q :
                  q \in inflight}
  /\ UNCHANGED <<serverVars, record, check, network, moves>>

NetworkMoves ==
  /\ moves < MaxMoves
  /\ moves' = moves + 1
  /\ \E n \in Networks \ {network} : network' = n
  /\ UNCHANGED <<serverVars, record, check, runtime, inflight>>

-----------------------------------------------------------------------------
(* Controller.HandleControl and Registry.Register *)

(* The epoch the session has registered last.                                *)
CurrentEpoch(s) ==
  LET epochs == {record[a].epoch : a \in {b \in Addresses : record[b].session = s}}
  IN  IF epochs = {} THEN None ELSE CHOOSE e \in epochs : \A f \in epochs : f <= e

(* FAULT: what was found out about an address outlives the epoch.            *)
KeptBySession(q, a) == record[a].session = q.session

(* The same registration was there before: its state is kept.                *)
Kept(q, a) == record[a].session = q.session /\ record[a].epoch = q.epoch

NewRecord(q) == [session |-> q.session, epoch |-> q.epoch, state |-> "unknown",
                 verified |-> FALSE, probed |-> <<>>]

(* The records that take the place of all there were.                        *)
Replaced(q) ==
  [a \in Addresses |->
     IF a \in q.addresses
     THEN IF Kept(q, a) THEN [record[a] EXCEPT !.epoch = q.epoch] ELSE NewRecord(q)
     ELSE NoRecord]

(* FAULT: what has been verified before is not verified again.               *)
DueIfUnknown(q) == {a \in q.addresses : Replaced(q)[a].state = "unknown"}

Due(q) == {a \in q.addresses : Replaced(q)[a].state # "verifying"}

(* One verification for each address that none is under way for.             *)
Verifies(q) ==
  LET due == Due(q)
      free == {c \in Checks : check[c] = NoCheck}
  IN  \E f \in [due -> free] :
        /\ \A a, b \in due : f[a] = f[b] => a = b
        /\ check' = [c \in Checks |->
             IF \E a \in due : f[a] = c
             THEN [at |-> "queued", session |-> q.session,
                   address |-> CHOOSE a \in due : f[a] = c, epoch |-> None]
             ELSE check[c]]

Answer(q, result) ==
  runtime' = IF q.awaited THEN [runtime EXCEPT ![q.session].call = result]
             ELSE runtime

(* Registry.Register: the request's records take the place of all there were.*)
Recorded(q) ==
  /\ q \in inflight
  /\ handler[q.session] \in {"serving", "ended"}
  /\ q.addresses # {} /\ q.epoch >= CurrentEpoch(q.session)
  /\ inflight' = inflight \ {q}
  /\ record' = Replaced(q)

(* The request is registered, and after the answer its addresses are         *)
(* verified.                                                                 *)
Register(q) ==
  /\ Recorded(q)
  /\ Verifies(q)
  /\ Answer(q, "accepted")
  /\ UNCHANGED <<serverVars, network, moves>>

(* It is registered, but the answer cannot be written: nothing is verified,  *)
(* and the runtime waits until its call times out.                           *)
RegisterUnanswered(q) ==
  /\ Recorded(q)
  /\ UNCHANGED <<serverVars, check, runtime, network, moves>>

(* It is refused: it has no address, or its epoch is stale.                  *)
Refuse(q) ==
  /\ q \in inflight
  /\ handler[q.session] \in {"serving", "ended"}
  /\ q.addresses = {} \/ q.epoch < CurrentEpoch(q.session)
  /\ inflight' = inflight \ {q}
  /\ Answer(q, "refused")
  /\ UNCHANGED <<serverVars, record, check, network, moves>>

-----------------------------------------------------------------------------
(* Verifier.Verify *)

CheckEnds(c) == check' = [check EXCEPT ![c] = NoCheck]

(* Lookup finds the session's registration of the address.                   *)
LookUp(c) ==
  /\ check[c].at = "queued"
  /\ LET found == record[check[c].address] IN
     IF found.session = check[c].session
     THEN check' = [check EXCEPT ![c].at = "found", ![c].epoch = found.epoch]
     ELSE CheckEnds(c)
  /\ UNCHANGED <<serverVars, record, runtime, inflight, network, moves>>

(* FAULT: an endpoint is told by its session and address.                    *)
SameSession(c) == record[check[c].address].session = check[c].session

(* sameRegistration: the registration that was looked up is still the one.   *)
SameRegistration(c) ==
  /\ record[check[c].address].session = check[c].session
  /\ record[check[c].address].epoch = check[c].epoch

(* beginVerification; an endpoint that is published stays so.                *)
MarkVerifying(c) ==
  /\ check[c].at = "found"
  /\ IF SameRegistration(c)
     THEN /\ record' = [record EXCEPT ![check[c].address].state = "verifying"]
          /\ check' = [check EXCEPT ![c].at = "probing"]
     ELSE CheckEnds(c) /\ UNCHANGED record
  /\ UNCHANGED <<serverVars, runtime, inflight, network, moves>>

(* updateRegistration, if the registration is still the one looked up.       *)
Update(c, state, probed) ==
  record' = IF SameRegistration(c)
            THEN [record EXCEPT ![check[c].address] =
                   [@ EXCEPT !.state = state, !.verified = (probed # <<>>),
                             !.probed = probed]]
            ELSE record

(* The probe reached the listener of this session.                           *)
MarkVerified(c) ==
  /\ check[c].at = "probing"
  /\ runtime[check[c].session].at \in {"starting", "running"}
  /\ Update(c, "verified", <<check[c].session, check[c].epoch>>)
  /\ CheckEnds(c)
  /\ UNCHANGED <<serverVars, runtime, inflight, network, moves>>

(* It did not.                                                               *)
MarkFailed(c) ==
  /\ check[c].at = "probing"
  /\ Update(c, "failed", <<>>)
  /\ CheckEnds(c)
  /\ UNCHANGED <<serverVars, runtime, inflight, network, moves>>

(* The time of a verification is over.                                       *)
Lapse(a) ==
  /\ record[a].verified
  /\ record' = [record EXCEPT ![a] =
       [@ EXCEPT !.state = "expired", !.verified = FALSE, !.probed = <<>>]]
  /\ UNCHANGED <<serverVars, check, runtime, inflight, network, moves>>

-----------------------------------------------------------------------------
Verify(c) == LookUp(c) \/ MarkVerifying(c) \/ MarkVerified(c) \/ MarkFailed(c)

Next ==
  \/ \E s \in Sessions :
       \/ Connects(s) \/ Welcome(s) \/ WelcomeFails(s) \/ Disconnects(s)
       \/ DisconnectHook(s)
       \/ Start(s) \/ Started(s) \/ Refresh(s) \/ NetworkTick(s)
       \/ Returned(s) \/ TimesOut(s) \/ Stop(s)
  \/ NetworkMoves
  \/ \E q \in inflight : Register(q) \/ RegisterUnanswered(q) \/ Refuse(q)
  \/ \E c \in Checks : Verify(c)
  \/ \E a \in Addresses : Lapse(a)

Spec == Init /\ [][Next]_vars

(* Tickers and verifications run, and a call ends.  Of the requests that are *)
(* sent again and again one is answered in the end, and an endpoint that is  *)
(* probed again and again is reached: how it comes to be published then is   *)
(* what the liveness property is about.                                      *)
Fairness ==
  /\ \A s \in Sessions :
       WF_vars(Started(s) \/ Refresh(s) \/ NetworkTick(s) \/ Returned(s) \/ TimesOut(s))
  /\ \A c \in Checks : WF_vars(Verify(c))
  /\ SF_vars(\E q \in inflight : Register(q) \/ Refuse(q))
  /\ SF_vars(\E c \in Checks : MarkVerified(c))

FairSpec == Spec /\ Fairness

-----------------------------------------------------------------------------
(* Properties *)

(* A verification takes seconds, and the endpoint may be registered again    *)
(* meanwhile, under a new epoch or a new session: what is published was      *)
(* reached by a probe for that very registration, never on the word of a     *)
(* probe that was made for an earlier one.                                   *)
PublishedWasProbed ==
  \A a \in Addresses :
    record[a].verified => record[a].probed = <<record[a].session, record[a].epoch>>

(* HandleControl starts no verification for a record that is being verified: *)
(* there is always one whose result that record will take.                   *)
VerifyingHasCheck ==
  \A a \in Addresses :
    record[a].state = "verifying" =>
      \E c \in Checks : /\ check[c].at = "probing"
                        /\ check[c].address = a
                        /\ SameRegistration(c)

Stays(s) == session = s /\ runtime[s].at = "running"

(* The Server has a later epoch of the session than the runtime: an answer   *)
(* was lost.                                                                 *)
Behind(s) == CurrentEpoch(s) > runtime[s].epoch

(* Hooks of an earlier session that run late, requests of it that are served *)
(* late, probes that fail, changes of the network: the endpoint of a session *)
(* that stays is published again all the same - unless the runtime is left   *)
(* behind, when every refresh is refused as stale.                           *)
EndpointReturns ==
  \A s \in Sessions :
    <>[]Stays(s) => []<>(Behind(s) \/ \E a \in Addresses :
                           record[a].session = s /\ record[a].verified)
=============================================================================
