---------------------------- MODULE DirectClient ----------------------------
(* A Client's public direct paths: direct.ClientManager, the dialer's        *)
(* requests that use and fail them (client.TunnelDialer), and the callbacks  *)
(* that join them (app/public_direct.go).                                    *)
(*                                                                           *)
(* A step is one critical section of ClientManager.mu, or one thing done     *)
(* without it: an early look at the closed flag, a dial that ends, a session *)
(* that is closed.  Whether a ticket is still valid and an endpoint usable   *)
(* is not modelled: a step they could prevent is one that need not happen.   *)
(*                                                                           *)
(* A session is named by the attempt that dialled it.  It is "dead" once its *)
(* Done channel is closed by the other side or the network, and "released"   *)
(* once Close gave its UDP socket back.                                      *)
(*****************************************************************************)
EXTENDS Naturals, FiniteSets

CONSTANTS
  Exits,
  Requests,     \* proxy requests that choose a path at the same time
  MaxAttempts,  \* bound: connection attempts
  MaxTickets    \* bound: inventories, each with a ticket of its own per exit

ASSUME DirectAssumption == MaxAttempts \in Nat /\ MaxTickets \in Nat

VARIABLES
  entry,        \* ClientManager.entries: entry[e], NoEntry when absent
  attempt,      \* the goroutines of EnsureClient
  session,      \* what became of the session an attempt dialled
  watcher,      \* its watchSession goroutine
  closing,      \* sessions given up with the lock held, to be closed now
  tickets,      \* how many tickets the Server has issued for each exit
  inventory,    \* the inventory past UpdateInventory's look at closed
  request,      \* what each request is doing
  closer        \* Close: "open", "closed" (flag and context), "cleared", "done"

vars == <<entry, attempt, session, watcher, closing, tickets, inventory,
          request, closer>>

Attempts == 1..MaxAttempts
Tickets == 1..MaxTickets
None == 0

(* since: the ticket the entry was made with, for the properties only.       *)
Entries == [ticket : Tickets, attempted : BOOLEAN, starting : BOOLEAN,
            session : Attempts \cup {None}, cooling : BOOLEAN,
            since : Tickets]
NewEntry == [ticket |-> None, attempted |-> FALSE, starting |-> FALSE,
             session |-> None, cooling |-> FALSE, since |-> None]
NoEntry == [NewEntry EXCEPT !.attempted = TRUE]

(* at: "dialing", "won" (the session is there), "failed", "ended".           *)
AttemptSteps == {"dialing", "won", "failed", "ended"}
Attempting == [at : AttemptSteps, exit : Exits, ticket : Tickets]
Unused == [at |-> "unused", exit |-> "", ticket |-> None]

(* at: "ensuring" (past EnsureClient's look at closed), "using" a session,   *)
(* "failing" (its stream failed: past FailReadyForExit's look at closed).    *)
(* timeout: the request ran out of its own time.                             *)
Requesting == [at : {"ensuring", "using", "failing"}, exit : Exits,
               session : Attempts \cup {None}, timeout : BOOLEAN]
Resting == [at |-> "resting", exit |-> "", session |-> None, timeout |-> FALSE]

NoInventory == [pending |-> FALSE, exits |-> {}]

TypeOK ==
  /\ entry \in [Exits -> Entries \cup {NoEntry}]
  /\ attempt \in [Attempts -> Attempting \cup {Unused}]
  /\ session \in [Attempts -> {"none", "open", "dead", "released"}]
  /\ watcher \in [Attempts -> {"none", "watching", "reporting", "done"}]
  /\ closing \in SUBSET Attempts
  /\ tickets \in 0..MaxTickets
  /\ inventory \in [pending : BOOLEAN, exits : SUBSET Exits]
  /\ request \in [Requests -> Requesting \cup {Resting}]
  /\ closer \in {"open", "closed", "cleared", "done"}

Init ==
  /\ entry = [e \in Exits |-> NoEntry]
  /\ attempt = [a \in Attempts |-> Unused]
  /\ session = [a \in Attempts |-> "none"]
  /\ watcher = [a \in Attempts |-> "none"]
  /\ closing = {}
  /\ tickets = 0
  /\ inventory = NoInventory
  /\ request = [r \in Requests |-> Resting]
  /\ closer = "open"

Known(e) == entry[e] # NoEntry
Closed == closer # "open"

SessionsOf(S) == {entry[e].session : e \in S} \ {None}

(* sessionDone is false.                                                     *)
Alive(a) == a # None /\ session[a] = "open"

-----------------------------------------------------------------------------
(* UpdateInventory *)

InventoryArrives(S) ==
  /\ ~Closed
  /\ ~inventory.pending
  /\ tickets < MaxTickets
  /\ inventory' = [pending |-> TRUE, exits |-> S]
  /\ tickets' = tickets + 1
  /\ UNCHANGED <<entry, attempt, session, watcher, closing, request, closer>>

(* FAULT: the session of an exit that is gone is not closed.                 *)
InventoryForgets ==
  /\ inventory.pending
  /\ entry' = [e \in Exits |->
       IF e \notin inventory.exits THEN NoEntry
       ELSE [(IF Known(e) THEN entry[e]
              ELSE [NewEntry EXCEPT !.since = tickets]) EXCEPT
               !.ticket = tickets, !.attempted = FALSE]]
  /\ inventory' = NoInventory
  /\ UNCHANGED <<attempt, session, watcher, closing, tickets, request, closer>>

(* The inventory replaces the previous one: an exit that is gone from it     *)
(* takes its session along, and the others get a ticket to be used once.     *)
InventoryApplies ==
  /\ inventory.pending
  /\ entry' = [e \in Exits |->
       IF e \notin inventory.exits THEN NoEntry
       ELSE [(IF Known(e) THEN entry[e]
              ELSE [NewEntry EXCEPT !.since = tickets]) EXCEPT
               !.ticket = tickets, !.attempted = FALSE]]
  /\ closing' = closing \cup SessionsOf(Exits \ inventory.exits)
  /\ inventory' = NoInventory
  /\ UNCHANGED <<attempt, session, watcher, tickets, request, closer>>

-----------------------------------------------------------------------------
(* EnsureClient and connect *)

(* entry.session is dropped when a look at it finds it done.                 *)
Refreshed(e) ==
  IF Alive(entry[e].session) THEN entry[e]
  ELSE [entry[e] EXCEPT !.session = None]

(* FAULT: the ticket is not consumed by an attempt that failed.              *)
StartableAgain(e) == Known(e) /\ ~entry[e].starting /\ ~entry[e].cooling

Startable(e) ==
  /\ Known(e)
  /\ ~entry[e].starting
  /\ ~entry[e].attempted
  /\ ~entry[e].cooling

(* The critical section of EnsureClient: at most one attempt per ticket.     *)
(* An attempt is numbered when it starts.                                    *)
Ensure(r) ==
  /\ request[r].at = "ensuring"
  /\ LET e == request[r].exit IN
     \/ /\ Startable(e)
        /\ ~Alive(entry[e].session)
        /\ \E a \in Attempts :
             /\ attempt[a] = Unused
             /\ \A b \in Attempts : attempt[b] = Unused => a <= b
             /\ attempt' = [attempt EXCEPT ![a] =
                  [at |-> "dialing", exit |-> e, ticket |-> entry[e].ticket]]
        /\ entry' = [entry EXCEPT ![e] =
             [Refreshed(e) EXCEPT !.starting = TRUE, !.attempted = TRUE]]
     \/ /\ ~Startable(e) \/ Alive(entry[e].session)
        /\ UNCHANGED <<entry, attempt>>
  /\ request' = [request EXCEPT ![r] = Resting]
  /\ UNCHANGED <<session, watcher, closing, tickets, inventory, closer>>

(* The dial ends: with an authenticated session, ...                         *)
DialSucceeds(a) ==
  /\ attempt[a].at = "dialing"
  /\ attempt' = [attempt EXCEPT ![a].at = "won"]
  /\ session' = [session EXCEPT ![a] = "open"]
  /\ UNCHANGED <<entry, watcher, closing, tickets, inventory, request, closer>>

(* ... or with an error, the attempt's timeout or Close at the latest.       *)
DialFails(a) ==
  /\ attempt[a].at = "dialing"
  /\ attempt' = [attempt EXCEPT ![a].at = "failed"]
  /\ UNCHANGED <<entry, session, watcher, closing, tickets, inventory,
                 request, closer>>

Ticketed(a) == entry[attempt[a].exit].ticket = attempt[a].ticket

(* FAULT: any session for the exit will do.                                  *)
AdoptableForExit(a) ==
  /\ ~Closed
  /\ Known(attempt[a].exit)
  /\ ~Alive(entry[attempt[a].exit].session)

(* The session is adopted under the ticket it was dialled with.              *)
Adoptable(a) ==
  /\ ~Closed
  /\ Known(attempt[a].exit)
  /\ Ticketed(a)
  /\ ~Alive(entry[attempt[a].exit].session)

Adopt(a) ==
  /\ attempt[a].at = "won"
  /\ attempt' = [attempt EXCEPT ![a].at = "ended"]
  /\ LET e == attempt[a].exit IN
     IF Adoptable(a)
     THEN /\ entry' = [entry EXCEPT ![e].starting = FALSE, ![e].session = a,
                                    ![e].cooling = FALSE]
          /\ watcher' = [watcher EXCEPT ![a] = "watching"]
          /\ UNCHANGED closing
     ELSE /\ entry' = IF ~Closed /\ Known(e)
                      THEN [entry EXCEPT ![e].starting = FALSE] ELSE entry
          /\ closing' = closing \cup {a}
          /\ UNCHANGED watcher
  /\ UNCHANGED <<session, tickets, inventory, request, closer>>

(* FAULT: the failure of another ticket's attempt is ignored.                *)
FinishTicketedFailure(a) ==
  /\ attempt[a].at = "failed"
  /\ attempt' = [attempt EXCEPT ![a].at = "ended"]
  /\ LET e == attempt[a].exit IN
     entry' = IF Known(e) /\ Ticketed(a)
              THEN [entry EXCEPT ![e].starting = FALSE, ![e].cooling = TRUE]
              ELSE entry
  /\ UNCHANGED <<session, watcher, closing, tickets, inventory, request, closer>>

FinishFailure(a) ==
  /\ attempt[a].at = "failed"
  /\ attempt' = [attempt EXCEPT ![a].at = "ended"]
  /\ LET e == attempt[a].exit IN
     entry' = IF Known(e)
              THEN [entry EXCEPT ![e].starting = FALSE,
                                 ![e].cooling = @ \/ Ticketed(a)]
              ELSE entry
  /\ UNCHANGED <<session, watcher, closing, tickets, inventory, request, closer>>

-----------------------------------------------------------------------------
(* Sessions *)

SessionDies(a) ==
  /\ session[a] = "open"
  /\ session' = [session EXCEPT ![a] = "dead"]
  /\ UNCHANGED <<entry, attempt, watcher, closing, tickets, inventory,
                 request, closer>>

CloseSession(a) ==
  /\ a \in closing
  /\ session' = [session EXCEPT ![a] = "released"]
  /\ closing' = closing \ {a}
  /\ UNCHANGED <<entry, attempt, watcher, tickets, inventory, request, closer>>

(* watchSession: a session that is done is closed, so that its socket is     *)
(* released, ...                                                             *)
WatchSeesDone(a) ==
  /\ watcher[a] = "watching"
  /\ session[a] # "open"
  /\ session' = [session EXCEPT ![a] = "released"]
  /\ watcher' = [watcher EXCEPT ![a] = IF Closed THEN "done" ELSE "reporting"]
  /\ UNCHANGED <<entry, attempt, closing, tickets, inventory, request, closer>>

(* ... and reported if it is still the session of its exit.                  *)
WatchReports(a) ==
  /\ watcher[a] = "reporting"
  /\ watcher' = [watcher EXCEPT ![a] = "done"]
  /\ LET e == attempt[a].exit IN
     entry' = IF Known(e) /\ entry[e].session = a
              THEN [entry EXCEPT ![e].session = None, ![e].cooling = TRUE]
              ELSE entry
  /\ UNCHANGED <<attempt, session, closing, tickets, inventory, request, closer>>

(* The manager's context ends first, or at the same time.                    *)
WatchCanceled(a) ==
  /\ watcher[a] = "watching"
  /\ Closed
  /\ watcher' = [watcher EXCEPT ![a] = "done"]
  /\ UNCHANGED <<entry, attempt, session, closing, tickets, inventory,
                 request, closer>>

CooldownEnds(e) ==
  /\ Known(e)
  /\ entry[e].cooling
  /\ entry' = [entry EXCEPT ![e].cooling = FALSE]
  /\ UNCHANGED <<attempt, session, watcher, closing, tickets, inventory,
                 request, closer>>

-----------------------------------------------------------------------------
(* Requests *)

(* selectedSessionForExit: the ready session, or, when there is none, an     *)
(* EnsureClient for the requests to come.                                    *)
Select(r, e) ==
  /\ request[r] = Resting
  /\ ~Closed
  /\ LET ready == Known(e) /\ Alive(entry[e].session) IN
     /\ request' = [request EXCEPT ![r] =
          [at |-> IF ready THEN "using" ELSE "ensuring", exit |-> e,
           session |-> IF ready THEN entry[e].session ELSE None,
           timeout |-> FALSE]]
     /\ entry' = IF Known(e) THEN [entry EXCEPT ![e] = Refreshed(e)] ELSE entry
  /\ UNCHANGED <<attempt, session, watcher, closing, tickets, inventory, closer>>

(* Its stream is open, or the target refused it: no fault of the path.       *)
Succeeds(r) ==
  /\ request[r].at = "using"
  /\ request' = [request EXCEPT ![r] = Resting]
  /\ UNCHANGED <<entry, attempt, session, watcher, closing, tickets,
                 inventory, closer>>

(* recordHandshakeFailure: a stream that ran out of time is the fault of the *)
(* path only if the session is done by now.                                  *)
IsPathFailure(r, timeout) == ~timeout \/ session[request[r].session] # "open"

Fails(r, timeout) ==
  /\ request[r].at = "using"
  /\ request' = [request EXCEPT ![r] =
       IF ~Closed /\ IsPathFailure(r, timeout)
       THEN [@ EXCEPT !.at = "failing", !.timeout = timeout] ELSE Resting]
  /\ UNCHANGED <<entry, attempt, session, watcher, closing, tickets,
                 inventory, closer>>

(* FailReadyForExit, which is told the exit and not the session.             *)
FailReadyForExit(r) ==
  /\ request[r].at = "failing"
  /\ LET e == request[r].exit IN
     IF Known(e)
     THEN /\ entry' = [entry EXCEPT ![e].session = None, ![e].starting = FALSE,
                                    ![e].cooling = TRUE]
          /\ closing' = closing \cup SessionsOf({e})
     ELSE UNCHANGED <<entry, closing>>
  /\ request' = [request EXCEPT ![r] = Resting]
  /\ UNCHANGED <<attempt, session, watcher, tickets, inventory, closer>>

-----------------------------------------------------------------------------
(* Close *)

CloseCancels ==
  /\ closer = "open"
  /\ closer' = "closed"
  /\ UNCHANGED <<entry, attempt, session, watcher, closing, tickets,
                 inventory, request>>

CloseClears ==
  /\ closer = "closed"
  /\ closer' = "cleared"
  /\ entry' = [e \in Exits |-> NoEntry]
  /\ closing' = closing \cup SessionsOf(Exits)
  /\ UNCHANGED <<attempt, session, watcher, tickets, inventory, request>>

(* wg.Wait: attempts and watchers.                                           *)
CloseReturns ==
  /\ closer = "cleared"
  /\ \A a \in Attempts : attempt[a].at \in {"unused", "ended"}
                         /\ watcher[a] \in {"none", "done"}
  /\ closer' = "done"
  /\ UNCHANGED <<entry, attempt, session, watcher, closing, tickets,
                 inventory, request>>

-----------------------------------------------------------------------------
Connect(a) ==
  \/ DialSucceeds(a) \/ DialFails(a) \/ Adopt(a) \/ FinishFailure(a)
Watch(a) == WatchSeesDone(a) \/ WatchReports(a) \/ WatchCanceled(a)
Request(r) ==
  \/ Ensure(r) \/ Succeeds(r) \/ FailReadyForExit(r)
  \/ \E timeout \in BOOLEAN : Fails(r, timeout)
Close == CloseClears \/ CloseReturns

Next ==
  \/ \E S \in SUBSET Exits : InventoryArrives(S)
  \/ InventoryApplies
  \/ \E a \in Attempts :
       Connect(a) \/ Watch(a) \/ SessionDies(a) \/ CloseSession(a)
  \/ \E e \in Exits : CooldownEnds(e) \/ \E r \in Requests : Select(r, e)
  \/ \E r \in Requests : Request(r)
  \/ CloseCancels \/ Close

Spec == Init /\ [][Next]_vars

(* Goroutines run, a dial ends within the attempt's timeout, a request and a *)
(* cooldown within theirs.  Nothing is assumed of the Server, of the sessions *)
(* or of who makes requests.                                                 *)
Fairness ==
  /\ WF_vars(InventoryApplies)
  /\ \A a \in Attempts :
       WF_vars(Connect(a)) /\ WF_vars(Watch(a)) /\ WF_vars(CloseSession(a))
  /\ \A r \in Requests : WF_vars(Request(r))
  /\ \A e \in Exits : WF_vars(CooldownEnds(e))
  /\ WF_vars(Close)

FairSpec == Spec /\ Fairness

-----------------------------------------------------------------------------
(* Properties *)

(* A ticket is presented to an exit once, whatever became of the attempt,    *)
(* and although entries come, go and change their ticket while one is in     *)
(* flight and FailReadyForExit forgets that it is.                           *)
TicketOnce ==
  \A a, b \in Attempts :
    /\ a # b
    /\ attempt[a] # Unused
    /\ attempt[a].exit = attempt[b].exit
    => attempt[a].ticket # attempt[b].ticket

Owned(a) == \E e \in Exits : entry[e].session = a

(* A session is the session of an exit, or the one who dialled it or took it *)
(* out of the entry is about to close it; one that died by itself is at      *)
(* least being watched.                                                      *)
NothingLeaks ==
  \A a \in Attempts :
    LET held == Owned(a) \/ attempt[a].at = "won" \/ a \in closing IN
    /\ session[a] = "open" => held
    /\ session[a] = "dead" /\ ~Closed => held \/ watcher[a] = "watching"

(* Removing an exit from the inventory ends its direct path: what was        *)
(* dialled before the exit came back does not become, or stay, its session.  *)
SessionIsOfEntry ==
  \A e \in Exits : LET a == entry[e].session IN
    a # None => /\ attempt[a].exit = e
                /\ attempt[a].ticket >= entry[e].since

(* An entry does not stay in the state that keeps P2P from being tried,      *)
(* although the attempt that put it there may find another entry or ticket   *)
(* in its place.                                                             *)
AttemptsEnd == \A e \in Exits : []<>(Closed \/ ~entry[e].starting)
=============================================================================
