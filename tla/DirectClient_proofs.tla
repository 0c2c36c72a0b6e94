------------------------- MODULE DirectClient_proofs -------------------------
(*****************************************************************************)
(* Proofs about DirectClient: type correctness, that a ticket is presented   *)
(* once (TicketOnce), that a session belongs to the entry that has it        *)
(* (SessionIsOfEntry), that no session is forgotten (NothingLeaks), and that *)
(* a closed manager keeps none (ClosedGivesBack).                            *)
(*                                                                           *)
(* IInv adds that tickets are issued in order and that an entry that may     *)
(* start an attempt has a ticket no attempt was made with (Issued, Unspent), *)
(* and what a watcher's state says about its session (Watched).              *)
(*****************************************************************************)
EXTENDS DirectClient, TLAPS

-----------------------------------------------------------------------------
(* The inductive invariant                                                  *)

Used(a) == attempt[a] \in Attempting

\* Tickets that are out were issued, those of a pending inventory after them.
Issued ==
  /\ inventory.pending => tickets \in Tickets
  /\ \A e \in Exits : Known(e) =>
       /\ entry[e].since <= entry[e].ticket
       /\ entry[e].ticket <= tickets
       /\ inventory.pending => entry[e].ticket < tickets
  /\ \A a \in Attempts : Used(a) =>
       /\ attempt[a].ticket <= tickets
       /\ inventory.pending => attempt[a].ticket < tickets

\* The ticket of an entry that was not attempted was not used by any attempt.
Unspent ==
  \A e \in Exits, a \in Attempts :
    Known(e) /\ ~entry[e].attempted /\ Used(a) /\ attempt[a].exit = e =>
      attempt[a].ticket # entry[e].ticket

\* A session of an entry is watched; its watcher gives up only sessions that
\* are closed, or when the manager is.
Watched ==
  \A a \in Attempts :
    /\ Owned(a) => watcher[a] # "none"
    /\ watcher[a] # "none" => attempt[a].at = "ended"
    /\ watcher[a] = "reporting" => session[a] = "released"
    /\ watcher[a] = "done" => session[a] = "released" \/ Closed

IInv == /\ TypeOK /\ Issued /\ Unspent /\ TicketOnce /\ SessionIsOfEntry
        /\ Watched /\ NothingLeaks

-----------------------------------------------------------------------------
(* Entries and attempts                                                     *)

\* Absent values are none of what they stand in for.
LEMMA Absent ==
  /\ NoEntry \notin Entries
  /\ Unused \notin Attempting
  /\ None \notin Attempts
  /\ NoEntry.session = None
<1>1. None \notin Tickets /\ None \notin Attempts
  BY DirectAssumption DEF None, Tickets, Attempts
<1>2. NoEntry.ticket = None /\ NoEntry.session = None
  BY DEF NoEntry, NewEntry
<1>3. Unused.ticket = None
  BY DEF Unused
<1>. QED  BY <1>1, <1>2, <1>3 DEF Entries, Attempting

\* What is known of an entry is what its record says.
LEMMA KnownType ==
  ASSUME TypeOK
  PROVE  /\ \A e \in Exits : Known(e) <=> entry[e] \in Entries
         /\ \A a \in Attempts : Used(a) <=> attempt[a] # Unused
         /\ \A a \in Attempts : attempt[a].at # "unused" => Used(a)
<1>1. Unused.at = "unused"
  BY DEF Unused
<1>. QED  BY <1>1, Absent DEF TypeOK, Known, Used

\* An entry that changes keeps its tickets, and an attempt its own.
Same(e) ==
  \/ entry'[e] = entry[e]
  \/ /\ entry[e] \in Entries /\ entry'[e] \in Entries
     /\ entry'[e].ticket = entry[e].ticket
     /\ entry'[e].attempted = entry[e].attempted
     /\ entry'[e].since = entry[e].since
     /\ entry'[e].session \in {entry[e].session, None}

SameAttempt(a) ==
  \/ attempt'[a] = attempt[a]
  \/ /\ attempt[a] \in Attempting /\ attempt'[a] \in Attempting
     /\ attempt'[a].exit = attempt[a].exit
     /\ attempt'[a].ticket = attempt[a].ticket

\* One entry changes in fields that do not matter to its tickets.
LEMMA OneEntry ==
  ASSUME TypeOK, NEW e \in Exits, Known(e),
         NEW st \in BOOLEAN, NEW co \in BOOLEAN, NEW se \in {entry[e].session, None},
         entry' = [entry EXCEPT ![e] =
           [entry[e] EXCEPT !.starting = st, !.cooling = co, !.session = se]]
  PROVE  /\ entry' \in [Exits -> Entries \cup {NoEntry}]
         /\ \A f \in Exits : Same(f)
<1>. DEFINE x == [entry[e] EXCEPT !.starting = st, !.cooling = co, !.session = se]
<1>1. entry[e] \in Entries
  BY KnownType
<1>2. /\ x \in Entries
      /\ x.ticket = entry[e].ticket /\ x.attempted = entry[e].attempted
      /\ x.since = entry[e].since /\ x.session \in {entry[e].session, None}
  BY <1>1 DEF Entries
<1>3. entry'[e] = x /\ \A f \in Exits : f # e => entry'[f] = entry[f]
  BY DEF TypeOK
<1>. HIDE DEF x
<1>4. \A f \in Exits : Same(f)
  BY <1>1, <1>2, <1>3 DEF Same
<1>. QED  BY <1>2, <1>3, <1>4 DEF TypeOK

\* A look at an entry drops a session that is done.
LEMMA RefreshedType ==
  ASSUME TypeOK, NEW e \in Exits, Known(e)
  PROVE  /\ entry[e] \in Entries
         /\ Refreshed(e) \in Entries
         /\ Refreshed(e).ticket = entry[e].ticket
         /\ Refreshed(e).attempted = entry[e].attempted
         /\ Refreshed(e).since = entry[e].since
         /\ Refreshed(e).starting = entry[e].starting
         /\ Refreshed(e).cooling = entry[e].cooling
         /\ Refreshed(e).session =
              IF Alive(entry[e].session) THEN entry[e].session ELSE None
<1>1. entry[e] \in Entries
  BY KnownType
<1>. QED  BY <1>1 DEF Refreshed, Entries

\* One attempt gets one step further.
LEMMA OneAttempt ==
  ASSUME TypeOK, NEW a \in Attempts, Used(a), NEW at \in AttemptSteps,
         attempt' = [attempt EXCEPT ![a].at = at]
  PROVE  /\ attempt' \in [Attempts -> Attempting \cup {Unused}]
         /\ \A b \in Attempts : SameAttempt(b)
         /\ attempt'[a].at = at
         /\ \A b \in Attempts : b # a => attempt'[b] = attempt[b]
<1>1. attempt[a] \in Attempting
  BY DEF Used
<1>2. /\ [attempt[a] EXCEPT !.at = at] \in Attempting
      /\ [attempt[a] EXCEPT !.at = at].exit = attempt[a].exit
      /\ [attempt[a] EXCEPT !.at = at].ticket = attempt[a].ticket
      /\ [attempt[a] EXCEPT !.at = at].at = at
  BY <1>1 DEF Attempting
<1>3. /\ attempt'[a] = [attempt[a] EXCEPT !.at = at]
      /\ \A b \in Attempts : b # a => attempt'[b] = attempt[b]
  BY DEF TypeOK
<1>4. \A b \in Attempts : SameAttempt(b)
  BY <1>1, <1>2, <1>3 DEF SameAttempt
<1>. QED  BY <1>2, <1>3, <1>4 DEF TypeOK
-----------------------------------------------------------------------------
(* Type correctness, and what most steps keep                               *)

Keeps ==
  /\ \A e \in Exits : Same(e)
  /\ \A a \in Attempts : SameAttempt(a)
  /\ UNCHANGED <<tickets, inventory>>

\* The exit of an attempt that was made is one.
LEMMA ExitType ==
  ASSUME TypeOK, NEW a \in Attempts, attempt[a].at # "unused"
  PROVE  Used(a) /\ attempt[a].exit \in Exits
<1>1. Used(a)
  BY KnownType
<1>. QED  BY <1>1 DEF Used, Attempting

\* The steps of sessions, watchers and cooldowns.
LEMMA WatchKeeps ==
  ASSUME TypeOK, Watched,
         \/ \E a \in Attempts : Watch(a) \/ SessionDies(a) \/ CloseSession(a)
         \/ \E e \in Exits : CooldownEnds(e)
  PROVE  TypeOK' /\ Keeps
<1>1. ASSUME NEW a \in Attempts,
             \/ WatchSeesDone(a) \/ WatchCanceled(a) \/ SessionDies(a)
             \/ CloseSession(a)
      PROVE  TypeOK' /\ Keeps
  BY <1>1 DEF WatchSeesDone, WatchCanceled, SessionDies, CloseSession,
              TypeOK, Keeps, Same, SameAttempt
<1>2. ASSUME NEW a \in Attempts, WatchReports(a)
      PROVE  TypeOK' /\ Keeps
  <2>. DEFINE e == attempt[a].exit
  <2>1. e \in Exits
    <3>1. attempt[a].at = "ended"
      BY <1>2 DEF Watched, WatchReports
    <3>. QED  BY <3>1, ExitType
  <2>2. CASE Known(e) /\ entry[e].session = a
    <3>1. entry' = [entry EXCEPT ![e] =
                      [entry[e] EXCEPT !.starting = entry[e].starting,
                                       !.cooling = TRUE, !.session = None]]
      <4>1. entry[e] \in Entries
        BY <2>1, <2>2, KnownType
      <4>2. [entry[e] EXCEPT !.session = None, !.cooling = TRUE]
              = [entry[e] EXCEPT !.starting = entry[e].starting, !.cooling = TRUE,
                                 !.session = None]
        BY <4>1 DEF Entries
      <4>. QED  BY <1>2, <2>2, <4>2 DEF WatchReports
    <3>2. entry[e].starting \in BOOLEAN
      BY <2>1, <2>2, KnownType DEF Entries
    <3>3. entry' \in [Exits -> Entries \cup {NoEntry}] /\ \A f \in Exits : Same(f)
      BY <2>1, <2>2, <3>1, <3>2, OneEntry
    <3>. QED  BY <1>2, <3>3 DEF WatchReports, TypeOK, Keeps, SameAttempt
  <2>3. CASE ~(Known(e) /\ entry[e].session = a)
    BY <1>2, <2>3 DEF WatchReports, TypeOK, Keeps, Same, SameAttempt
  <2>. QED  BY <2>2, <2>3
<1>3. ASSUME NEW e \in Exits, CooldownEnds(e)
      PROVE  TypeOK' /\ Keeps
  <2>0. entry[e] \in Entries /\ Known(e)
    BY <1>3, KnownType DEF CooldownEnds
  <2>1. [entry[e] EXCEPT !.cooling = FALSE]
          = [entry[e] EXCEPT !.starting = entry[e].starting, !.cooling = FALSE,
                             !.session = entry[e].session]
    BY <2>0 DEF Entries
  <2>2. entry[e].starting \in BOOLEAN
    BY <2>0 DEF Entries
  <2>3. entry' \in [Exits -> Entries \cup {NoEntry}] /\ \A f \in Exits : Same(f)
    BY <1>3, <2>0, <2>1, <2>2, OneEntry DEF CooldownEnds
  <2>. QED  BY <1>3, <2>3 DEF CooldownEnds, TypeOK, Keeps, SameAttempt
<1>. QED  BY <1>1, <1>2, <1>3 DEF Watch

\* The steps of an attempt, but for the adoption of its session.
LEMMA DialKeeps ==
  ASSUME TypeOK, NEW a \in Attempts,
         \/ DialSucceeds(a) \/ DialFails(a) \/ FinishFailure(a)
         \/ Adopt(a) /\ ~Adoptable(a)
  PROVE  TypeOK' /\ Keeps
<1>0. Used(a) /\ attempt[a].exit \in Exits
  BY ExitType DEF DialSucceeds, DialFails, FinishFailure, Adopt
<1>. DEFINE e == attempt[a].exit
<1>1. CASE DialSucceeds(a)
  <2>1. /\ attempt' \in [Attempts -> Attempting \cup {Unused}]
        /\ \A b \in Attempts : SameAttempt(b)
    BY <1>0, <1>1, OneAttempt DEF DialSucceeds, AttemptSteps
  <2>. QED  BY <1>1, <2>1 DEF DialSucceeds, TypeOK, Keeps, Same
<1>2. CASE DialFails(a)
  <2>1. /\ attempt' \in [Attempts -> Attempting \cup {Unused}]
        /\ \A b \in Attempts : SameAttempt(b)
    BY <1>0, <1>2, OneAttempt DEF DialFails, AttemptSteps
  <2>. QED  BY <1>2, <2>1 DEF DialFails, TypeOK, Keeps, Same
<1>3. ASSUME attempt' = [attempt EXCEPT ![a].at = "ended"],
             NEW st \in BOOLEAN, NEW co \in BOOLEAN,
             Known(e),
             entry' = [entry EXCEPT ![e] = [@ EXCEPT !.starting = st, !.cooling = co]]
      PROVE  /\ entry' \in [Exits -> Entries \cup {NoEntry}]
             /\ \A f \in Exits : Same(f)
  <2>1. entry[e] \in Entries
    BY <1>0, <1>3, KnownType
  <2>2. [entry[e] EXCEPT !.starting = st, !.cooling = co]
          = [entry[e] EXCEPT !.starting = st, !.cooling = co,
                             !.session = entry[e].session]
    BY <2>1 DEF Entries
  <2>. QED  BY <1>0, <1>3, <2>2, OneEntry
<1>4. CASE FinishFailure(a)
  <2>1. /\ attempt' \in [Attempts -> Attempting \cup {Unused}]
        /\ \A b \in Attempts : SameAttempt(b)
    BY <1>0, <1>4, OneAttempt DEF FinishFailure, AttemptSteps
  <2>2. CASE Known(e)
    <3>1. (entry[e].cooling \/ Ticketed(a)) \in BOOLEAN
      BY <1>0, <2>2, KnownType DEF Entries
    <3>2. entry' = [entry EXCEPT ![e] = [@ EXCEPT !.starting = FALSE,
                      !.cooling = entry[e].cooling \/ Ticketed(a)]]
      <4>1. entry' = [entry EXCEPT ![e].starting = FALSE,
                                   ![e].cooling = @ \/ Ticketed(a)]
        BY <1>4, <2>2 DEF FinishFailure
      <4>. QED  BY <1>0, <2>2, <4>1, KnownType DEF TypeOK, Entries
    <3>3. attempt' = [attempt EXCEPT ![a].at = "ended"]
      BY <1>4 DEF FinishFailure
    <3>. QED  BY <1>3, <1>4, <2>1, <2>2, <3>1, <3>2, <3>3
              DEF FinishFailure, TypeOK, Keeps
  <2>3. CASE ~Known(e)
    BY <1>4, <2>1, <2>3 DEF FinishFailure, TypeOK, Keeps, Same
  <2>. QED  BY <2>2, <2>3
<1>5. CASE Adopt(a) /\ ~Adoptable(a)
  <2>1. /\ attempt' \in [Attempts -> Attempting \cup {Unused}]
        /\ \A b \in Attempts : SameAttempt(b)
    BY <1>0, <1>5, OneAttempt DEF Adopt, AttemptSteps
  <2>2. CASE ~Closed /\ Known(e)
    <3>1. entry[e] \in Entries
      BY <1>0, <2>2, KnownType
    <3>2. entry' = [entry EXCEPT ![e] =
                      [@ EXCEPT !.starting = FALSE, !.cooling = entry[e].cooling]]
      <4>1. entry' = [entry EXCEPT ![e].starting = FALSE]
        BY <1>5, <2>2 DEF Adopt
      <4>2. [entry[e] EXCEPT !.starting = FALSE]
              = [entry[e] EXCEPT !.starting = FALSE, !.cooling = entry[e].cooling]
        BY <3>1 DEF Entries
      <4>. QED  BY <4>1, <4>2
    <3>3. entry[e].cooling \in BOOLEAN
      BY <3>1 DEF Entries
    <3>4. attempt' = [attempt EXCEPT ![a].at = "ended"]
      BY <1>5 DEF Adopt
    <3>5. entry' \in [Exits -> Entries \cup {NoEntry}] /\ \A f \in Exits : Same(f)
      BY <1>3, <2>2, <3>2, <3>3, <3>4
    <3>6. /\ closing' = closing \cup {a} /\ watcher' = watcher
          /\ UNCHANGED <<session, tickets, inventory, request, closer>>
      BY <1>5 DEF Adopt
    <3>. QED  BY <2>1, <3>5, <3>6 DEF TypeOK, Keeps
  <2>3. CASE ~(~Closed /\ Known(e))
    BY <1>5, <2>1, <2>3 DEF Adopt, TypeOK, Keeps, Same
  <2>. QED  BY <2>2, <2>3
<1>. QED  BY <1>1, <1>2, <1>4, <1>5

\* A request that is doing something has an exit.
LEMMA RequestExit ==
  ASSUME TypeOK, NEW r \in Requests, request[r].at # "resting"
  PROVE  request[r] \in Requesting /\ request[r].exit \in Exits
<1>1. Resting.at = "resting"
  BY DEF Resting
<1>2. request[r] \in Requesting
  BY <1>1 DEF TypeOK
<1>. QED  BY <1>2 DEF Requesting

\* The steps of requests, but for the start of an attempt.
LEMMA RequestKeeps ==
  ASSUME TypeOK, NEW r \in Requests,
         \/ \E e \in Exits : Select(r, e)
         \/ Succeeds(r) \/ FailReadyForExit(r)
         \/ \E timeout \in BOOLEAN : Fails(r, timeout)
         \/ Ensure(r) /\ UNCHANGED <<entry, attempt>>
  PROVE  TypeOK' /\ Keeps
<1>1. ASSUME NEW e \in Exits, Select(r, e)
      PROVE  TypeOK' /\ Keeps
  <2>. DEFINE ready == Known(e) /\ Alive(entry[e].session)
  <2>1. [at |-> IF ready THEN "using" ELSE "ensuring", exit |-> e,
         session |-> IF ready THEN entry[e].session ELSE None,
         timeout |-> FALSE] \in Requesting
    <3>1. ready => entry[e].session \in Attempts
      BY KnownType DEF Entries, Alive
    <3>. QED  BY <3>1 DEF Requesting
  <2>2. request' \in [Requests -> Requesting \cup {Resting}]
    BY <1>1, <2>1 DEF Select, TypeOK
  <2>3. entry' \in [Exits -> Entries \cup {NoEntry}] /\ \A f \in Exits : Same(f)
    <3>1. CASE Known(e)
      <4>1. entry' = [entry EXCEPT ![e] = Refreshed(e)]
        BY <1>1, <3>1 DEF Select
      <4>. QED  BY <3>1, <4>1, RefreshedType DEF TypeOK, Same
    <3>2. CASE ~Known(e)
      BY <1>1, <3>2 DEF Select, TypeOK, Same
    <3>. QED  BY <3>1, <3>2
  <2>. QED  BY <1>1, <2>2, <2>3 DEF Select, TypeOK, Keeps, SameAttempt
<1>2. CASE Succeeds(r)
  BY <1>2 DEF Succeeds, TypeOK, Keeps, Same, SameAttempt
<1>3. ASSUME NEW timeout \in BOOLEAN, Fails(r, timeout)
      PROVE  TypeOK' /\ Keeps
  <2>1. request[r] \in Requesting
    BY <1>3, RequestExit DEF Fails
  <2>2. [request[r] EXCEPT !.at = "failing", !.timeout = timeout] \in Requesting
    BY <2>1 DEF Requesting
  <2>. QED  BY <1>3, <2>2 DEF Fails, TypeOK, Keeps, Same, SameAttempt
<1>4. CASE FailReadyForExit(r)
  <2>. DEFINE e == request[r].exit
  <2>0. e \in Exits
    BY <1>4, RequestExit DEF FailReadyForExit
  <2>1. CASE Known(e)
    <3>0. entry[e] \in Entries
      BY <2>0, <2>1, KnownType
    <3>1. entry' = [entry EXCEPT ![e] = [entry[e] EXCEPT
                      !.starting = FALSE, !.cooling = TRUE, !.session = None]]
      <4>1. entry' = [entry EXCEPT ![e] = [entry[e] EXCEPT
                        !.session = None, !.starting = FALSE, !.cooling = TRUE]]
        BY <1>4, <2>0, <2>1 DEF FailReadyForExit, TypeOK
      <4>2. [entry[e] EXCEPT !.session = None, !.starting = FALSE, !.cooling = TRUE]
              = [entry[e] EXCEPT !.starting = FALSE, !.cooling = TRUE, !.session = None]
        BY <3>0 DEF Entries
      <4>. QED  BY <4>1, <4>2
    <3>2. entry' \in [Exits -> Entries \cup {NoEntry}] /\ \A f \in Exits : Same(f)
      BY <2>0, <2>1, <3>1, OneEntry
    <3>3. SessionsOf({e}) \in SUBSET Attempts
      BY <3>0 DEF SessionsOf, Entries
    <3>4. closing' = closing \cup SessionsOf({e})
      BY <1>4, <2>1 DEF FailReadyForExit
    <3>. QED  BY <1>4, <3>2, <3>3, <3>4
              DEF FailReadyForExit, TypeOK, Keeps, SameAttempt
  <2>2. CASE ~Known(e)
    BY <1>4, <2>2 DEF FailReadyForExit, TypeOK, Keeps, Same, SameAttempt
  <2>. QED  BY <2>1, <2>2
<1>5. CASE Ensure(r) /\ UNCHANGED <<entry, attempt>>
  BY <1>5 DEF Ensure, TypeOK, Keeps, Same, SameAttempt
<1>. QED  BY <1>1, <1>2, <1>3, <1>4, <1>5

\* Entries' sessions are attempts.
LEMMA SessionsType ==
  ASSUME TypeOK, NEW S \in SUBSET Exits
  PROVE  SessionsOf(S) \in SUBSET Attempts
<1>1. \A e \in Exits : entry[e].session \in Attempts \cup {None}
  BY Absent DEF TypeOK, Entries
<1>. QED  BY <1>1 DEF SessionsOf

\* The steps that do more than that: a new ticket, ...
LEMMA ArrivesType ==
  ASSUME TypeOK, NEW S \in SUBSET Exits, InventoryArrives(S)
  PROVE  TypeOK'
BY DirectAssumption DEF InventoryArrives, TypeOK, Tickets

\* ... a new inventory, ...
LEMMA AppliesType ==
  ASSUME TypeOK, Issued, InventoryApplies
  PROVE  /\ TypeOK'
         /\ \A e \in Exits : e \notin inventory.exits => entry'[e] = NoEntry
         /\ \A e \in inventory.exits :
              /\ entry'[e] \in Entries
              /\ entry'[e].ticket = tickets
              /\ ~entry'[e].attempted
              /\ Known(e) => /\ entry'[e].since = entry[e].since
                             /\ entry'[e].session = entry[e].session
              /\ ~Known(e) => /\ entry'[e].since = tickets
                              /\ entry'[e].session = None
<1>1. tickets \in Tickets /\ inventory.exits \in SUBSET Exits
  BY DEF Issued, InventoryApplies, TypeOK
<1>. DEFINE x(e) == [(IF Known(e) THEN entry[e]
                      ELSE [NewEntry EXCEPT !.since = tickets]) EXCEPT
                       !.ticket = tickets, !.attempted = FALSE]
<1>2. entry' = [e \in Exits |-> IF e \notin inventory.exits THEN NoEntry ELSE x(e)]
  BY DEF InventoryApplies
<1>3. ASSUME NEW e \in Exits
      PROVE  /\ x(e) \in Entries
             /\ x(e).ticket = tickets /\ ~x(e).attempted
             /\ Known(e) => /\ x(e).since = entry[e].since
                            /\ x(e).session = entry[e].session
             /\ ~Known(e) => x(e).since = tickets /\ x(e).session = None
  <2>1. CASE Known(e)
    BY <1>1, <2>1, KnownType DEF Entries
  <2>2. CASE ~Known(e)
    BY <1>1, <2>2 DEF NewEntry, Entries
  <2>. QED  BY <2>1, <2>2
<1>. HIDE DEF x
<1>4. SessionsOf(Exits \ inventory.exits) \in SUBSET Attempts
  BY SessionsType
<1>5. NoInventory \in [pending : BOOLEAN, exits : SUBSET Exits]
  BY DEF NoInventory
<1>6. entry' \in [Exits -> Entries \cup {NoEntry}]
  BY <1>2, <1>3
<1>7. /\ closing' = closing \cup SessionsOf(Exits \ inventory.exits)
      /\ inventory' = NoInventory
      /\ UNCHANGED <<attempt, session, watcher, tickets, request, closer>>
  BY DEF InventoryApplies
<1>8. TypeOK'
  BY <1>4, <1>5, <1>6, <1>7 DEF TypeOK
<1>. QED  BY <1>1, <1>2, <1>3, <1>8

\* ... an attempt, ...
LEMMA EnsureType ==
  ASSUME TypeOK, NEW r \in Requests, Ensure(r), ~UNCHANGED <<entry, attempt>>
  PROVE  /\ TypeOK'
         /\ \E e \in Exits, a \in Attempts :
              /\ Known(e) /\ ~entry[e].attempted /\ ~Alive(entry[e].session)
              /\ ~Used(a)
              /\ attempt' = [attempt EXCEPT ![a] =
                   [at |-> "dialing", exit |-> e, ticket |-> entry[e].ticket]]
              /\ attempt'[a] \in Attempting
              /\ \A f \in Exits : f # e => entry'[f] = entry[f]
              /\ entry'[e] \in Entries
              /\ entry'[e].ticket = entry[e].ticket
              /\ entry'[e].since = entry[e].since
              /\ entry'[e].attempted
              /\ entry'[e].session = None
<1>. DEFINE e == request[r].exit
<1>0. e \in Exits
  BY RequestExit DEF Ensure
<1>1. /\ Startable(e)
      /\ ~Alive(entry[e].session)
      /\ entry' = [entry EXCEPT ![e] =
             [Refreshed(e) EXCEPT !.starting = TRUE, !.attempted = TRUE]]
  BY DEF Ensure
<1>2. PICK a \in Attempts :
        /\ attempt[a] = Unused
        /\ attempt' = [attempt EXCEPT ![a] =
             [at |-> "dialing", exit |-> e, ticket |-> entry[e].ticket]]
  BY DEF Ensure
<1>3. Known(e) /\ ~entry[e].attempted
  BY <1>1 DEF Startable
<1>4. [at |-> "dialing", exit |-> e, ticket |-> entry[e].ticket] \in Attempting
  BY <1>0, <1>3, KnownType DEF Entries, Attempting, AttemptSteps
<1>. DEFINE x == [Refreshed(e) EXCEPT !.starting = TRUE, !.attempted = TRUE]
<1>5. /\ x \in Entries
      /\ x.ticket = entry[e].ticket /\ x.since = entry[e].since
      /\ x.attempted /\ x.session = None
  <2>1. /\ Refreshed(e) \in Entries /\ Refreshed(e).session = None
        /\ Refreshed(e).ticket = entry[e].ticket
        /\ Refreshed(e).since = entry[e].since
    BY <1>0, <1>1, <1>3, RefreshedType
  <2>. QED  BY <2>1 DEF Entries
<1>6. entry' = [entry EXCEPT ![e] = x]
  BY <1>1
<1>7. /\ entry'[e] = x /\ \A f \in Exits : f # e => entry'[f] = entry[f]
      /\ entry' \in [Exits -> Entries \cup {NoEntry}]
  BY <1>0, <1>5, <1>6 DEF TypeOK
<1>8. attempt' \in [Attempts -> Attempting \cup {Unused}] /\ attempt'[a] \in Attempting
  BY <1>2, <1>4 DEF TypeOK
<1>9. TypeOK'
  BY <1>7, <1>8 DEF Ensure, TypeOK
<1>10. ~Used(a)
  BY <1>2, KnownType
<1>. HIDE DEF x, e
<1>. QED  BY <1>0, <1>1, <1>2, <1>3, <1>5, <1>7, <1>8, <1>9, <1>10

\* ... a session, ...
LEMMA AdoptType ==
  ASSUME TypeOK, NEW a \in Attempts, Adopt(a), Adoptable(a)
  PROVE  /\ TypeOK'
         /\ \A b \in Attempts : SameAttempt(b)
         /\ Used(a)
         /\ attempt[a].exit \in Exits
         /\ LET e == attempt[a].exit IN
            /\ Known(e) /\ Ticketed(a) /\ ~Alive(entry[e].session)
            /\ \A f \in Exits : f # e => entry'[f] = entry[f]
            /\ entry'[e] \in Entries
            /\ entry'[e].ticket = entry[e].ticket
            /\ entry'[e].attempted = entry[e].attempted
            /\ entry'[e].since = entry[e].since
            /\ entry'[e].session = a
<1>0. Used(a) /\ attempt[a].exit \in Exits
  BY ExitType DEF Adopt
<1>. DEFINE e == attempt[a].exit
            x == [entry[e] EXCEPT !.starting = FALSE, !.session = a, !.cooling = FALSE]
<1>1. Known(e) /\ Ticketed(a) /\ ~Alive(entry[e].session) /\ entry[e] \in Entries
  BY <1>0, KnownType DEF Adoptable
<1>2. /\ x \in Entries
      /\ x.ticket = entry[e].ticket /\ x.attempted = entry[e].attempted
      /\ x.since = entry[e].since /\ x.session = a
  BY <1>1 DEF Entries
<1>3. entry' = [entry EXCEPT ![e] = x]
  <2>1. entry' = [entry EXCEPT ![e].starting = FALSE, ![e].session = a,
                               ![e].cooling = FALSE]
    BY DEF Adopt
  <2>. QED  BY <1>0, <2>1 DEF TypeOK
<1>. HIDE DEF x
<1>4. /\ entry'[e] = x /\ \A f \in Exits : f # e => entry'[f] = entry[f]
      /\ entry' \in [Exits -> Entries \cup {NoEntry}]
  BY <1>0, <1>2, <1>3 DEF TypeOK
<1>5. /\ attempt' \in [Attempts -> Attempting \cup {Unused}]
      /\ \A b \in Attempts : SameAttempt(b)
  BY <1>0, OneAttempt DEF Adopt, AttemptSteps
<1>6. watcher' = [watcher EXCEPT ![a] = "watching"] /\ UNCHANGED closing
  BY DEF Adopt
<1>7. TypeOK'
  BY <1>4, <1>5, <1>6 DEF Adopt, TypeOK
<1>. QED  BY <1>0, <1>1, <1>2, <1>4, <1>5, <1>7

\* ... and Close.
LEMMA CloseType ==
  ASSUME TypeOK, CloseCancels \/ CloseClears \/ CloseReturns
  PROVE  TypeOK'
<1>1. SessionsOf(Exits) \in SUBSET Attempts
  BY SessionsType
<1>. QED  BY <1>1 DEF CloseCancels, CloseClears, CloseReturns, TypeOK

-----------------------------------------------------------------------------
(* Tickets, and the sessions of entries                                     *)

Tied == Issued /\ Unspent /\ TicketOnce /\ SessionIsOfEntry

\* A step that keeps entries and attempts keeps what ties them.
LEMMA KeepsTied ==
  ASSUME TypeOK, TypeOK', Tied, Keeps
  PROVE  Tied'
<1>1. \A e \in Exits :
        /\ Known(e)' <=> Known(e)
        /\ entry'[e].ticket = entry[e].ticket
        /\ entry'[e].attempted = entry[e].attempted
        /\ entry'[e].since = entry[e].since
        /\ entry'[e].session \in {entry[e].session, None}
  BY Absent DEF Keeps, Same, Known
<1>2. \A a \in Attempts :
        /\ Used(a)' <=> Used(a)
        /\ attempt'[a].exit = attempt[a].exit
        /\ attempt'[a].ticket = attempt[a].ticket
        /\ attempt'[a] # Unused <=> attempt[a] # Unused
  BY Absent DEF Keeps, SameAttempt, Used
<1>3. Issued'
  BY <1>1, <1>2 DEF Tied, Keeps, Issued
<1>4. Unspent'
  BY <1>1, <1>2 DEF Tied, Unspent
<1>5. TicketOnce'
  BY <1>2 DEF Tied, TicketOnce
<1>6. SessionIsOfEntry'
  <2>1. \A e \in Exits : entry'[e].session # None => entry'[e].session \in Attempts
    BY Absent DEF TypeOK, Entries
  <2>. QED  BY <1>1, <1>2, <2>1 DEF Tied, SessionIsOfEntry
<1>. QED  BY <1>3, <1>4, <1>5, <1>6 DEF Tied

\* A new ticket is later than all there are.
LEMMA ArrivesTied ==
  ASSUME TypeOK, Tied, NEW S \in SUBSET Exits, InventoryArrives(S)
  PROVE  Tied'
<1>1. /\ UNCHANGED <<entry, attempt>>
      /\ tickets' = tickets + 1 /\ tickets' \in Tickets /\ tickets \in Nat
      /\ ~inventory.pending
  BY DirectAssumption DEF InventoryArrives, TypeOK, Tickets
<1>2. /\ \A e \in Exits : Known(e) => entry[e].ticket \in Nat
      /\ \A a \in Attempts : Used(a) => attempt[a].ticket \in Nat
  BY KnownType DEF Entries, Used, Attempting, Tickets
<1>3. Issued'
  BY <1>1, <1>2 DEF Tied, Issued, Known, Used
<1>4. Unspent' /\ TicketOnce' /\ SessionIsOfEntry'
  BY <1>1 DEF Tied, Unspent, TicketOnce, SessionIsOfEntry, Known, Used
<1>. QED  BY <1>3, <1>4 DEF Tied

\* A new inventory's tickets are used by no attempt.
LEMMA AppliesTied ==
  ASSUME TypeOK, Tied, InventoryApplies
  PROVE  Tied'
<1>0. Issued /\ inventory.pending /\ tickets \in Tickets /\ tickets \in Nat
  <2>1. inventory.pending /\ Issued
    BY DEF InventoryApplies, Tied
  <2>2. tickets \in Tickets
    BY <2>1 DEF Issued
  <2>. QED  BY <2>1, <2>2, DirectAssumption DEF Tickets
<1>1. /\ \A e \in Exits : e \notin inventory.exits => entry'[e] = NoEntry
      /\ \A e \in inventory.exits :
           /\ entry'[e] \in Entries
           /\ entry'[e].ticket = tickets
           /\ ~entry'[e].attempted
           /\ Known(e) => /\ entry'[e].since = entry[e].since
                          /\ entry'[e].session = entry[e].session
           /\ ~Known(e) => /\ entry'[e].since = tickets
                           /\ entry'[e].session = None
      /\ UNCHANGED <<attempt, tickets>> /\ inventory' = NoInventory
      /\ inventory.exits \in SUBSET Exits
  BY <1>0, AppliesType DEF InventoryApplies, TypeOK
<1>2. \A e \in Exits : Known(e)' <=> e \in inventory.exits
  BY <1>1, Absent DEF Known
<1>3. \A a \in Attempts : Used(a) =>
        attempt[a].ticket < tickets /\ attempt[a].ticket \in Nat
  BY <1>0 DEF Issued, Used, Attempting, Tickets
<1>4. \A e \in Exits : Known(e) =>
        entry[e].since <= tickets /\ entry[e].since \in Nat
  <2>1. \A e \in Exits : Known(e) => entry[e].since \in Nat /\ entry[e].ticket \in Nat
    BY KnownType DEF Entries, Tickets
  <2>. QED  BY <1>0, <2>1 DEF Issued
<1>5. ~NoInventory.pending
  BY DEF NoInventory
<1>6. Issued'
  <2>1. \A e \in Exits : Known(e)' =>
          entry'[e].since <= entry'[e].ticket /\ entry'[e].ticket <= tickets
    BY <1>0, <1>1, <1>2, <1>4
  <2>2. \A a \in Attempts : Used(a)' => attempt'[a].ticket <= tickets
    BY <1>0, <1>1, <1>3 DEF Used
  <2>. QED  BY <1>1, <1>5, <2>1, <2>2 DEF Issued
<1>7. Unspent'
  <2>1. \A a \in Attempts : Used(a)' => attempt'[a].ticket # tickets
    BY <1>0, <1>1, <1>3 DEF Used
  <2>. QED  BY <1>1, <1>2, <2>1 DEF Unspent
<1>8. TicketOnce'
  BY <1>1 DEF Tied, TicketOnce
<1>9. SessionIsOfEntry'
  <2>1. ASSUME NEW e \in Exits, entry'[e].session # None
        PROVE  /\ entry'[e].session = entry[e].session
               /\ entry'[e].since = entry[e].since
    BY <1>1, <2>1, Absent
  <2>. QED  BY <1>1, <2>1 DEF Tied, SessionIsOfEntry
<1>. QED  BY <1>6, <1>7, <1>8, <1>9 DEF Tied

\* An attempt is made with a ticket no other was made with.
LEMMA EnsureTied ==
  ASSUME TypeOK, Tied, NEW r \in Requests, Ensure(r), ~UNCHANGED <<entry, attempt>>
  PROVE  Tied'
<1>1. PICK e \in Exits, a \in Attempts :
              /\ Known(e) /\ ~entry[e].attempted /\ ~Alive(entry[e].session)
              /\ ~Used(a)
              /\ attempt' = [attempt EXCEPT ![a] =
                   [at |-> "dialing", exit |-> e, ticket |-> entry[e].ticket]]
              /\ attempt'[a] \in Attempting
              /\ \A f \in Exits : f # e => entry'[f] = entry[f]
              /\ entry'[e] \in Entries
              /\ entry'[e].ticket = entry[e].ticket
              /\ entry'[e].since = entry[e].since
              /\ entry'[e].attempted
              /\ entry'[e].session = None
  BY EnsureType
<1>2. /\ attempt'[a].exit = e /\ attempt'[a].ticket = entry[e].ticket
      /\ Used(a)'
      /\ \A b \in Attempts : b # a => attempt'[b] = attempt[b]
      /\ UNCHANGED <<tickets, inventory>>
  BY <1>1 DEF TypeOK, Used, Ensure
<1>3. \A f \in Exits : Known(f)' <=> Known(f)
  BY <1>1, Absent DEF Known
<1>4. Issued'
  <2>1. \A f \in Exits : Known(f)' =>
          /\ entry'[f].since = entry[f].since
          /\ entry'[f].ticket = entry[f].ticket
    BY <1>1
  <2>2. \A f \in Exits : Known(f)' =>
          /\ entry'[f].since <= entry'[f].ticket
          /\ entry'[f].ticket <= tickets
          /\ inventory.pending => entry'[f].ticket < tickets
    BY <1>3, <2>1 DEF Tied, Issued
  <2>3. \A b \in Attempts : Used(b)' =>
          /\ attempt'[b].ticket <= tickets
          /\ inventory.pending => attempt'[b].ticket < tickets
    BY <1>1, <1>2 DEF Tied, Issued, Used
  <2>. QED  BY <1>2, <2>2, <2>3 DEF Tied, Issued
<1>5. Unspent'
  <2>1. ASSUME NEW f \in Exits, NEW b \in Attempts,
               Known(f)', ~entry'[f].attempted, Used(b)', attempt'[b].exit = f
        PROVE  attempt'[b].ticket # entry'[f].ticket
    <3>1. f # e /\ entry'[f] = entry[f]
      BY <1>1, <2>1
    <3>2. b # a
      BY <1>2, <2>1, <3>1
    <3>. QED  BY <1>2, <1>3, <2>1, <3>1, <3>2 DEF Tied, Unspent, Used
  <2>. QED  BY <2>1 DEF Unspent
<1>6. TicketOnce'
  <2>1. \A b \in Attempts : b # a /\ attempt[b] # Unused /\ attempt[b].exit = e =>
          attempt[b].ticket # entry[e].ticket
    BY <1>1, KnownType DEF Tied, Unspent
  <2>2. ASSUME NEW b \in Attempts, NEW c \in Attempts, b # c,
               attempt'[b] # Unused, attempt'[b].exit = attempt'[c].exit
        PROVE  attempt'[b].ticket # attempt'[c].ticket
    <3>1. CASE b = a
      <4>1. attempt'[c] = attempt[c] /\ attempt[c].exit = e
        BY <1>2, <2>2, <3>1
      <4>2. CASE attempt[c] # Unused
        BY <1>2, <2>1, <2>2, <3>1, <4>1, <4>2
      <4>3. CASE attempt[c] = Unused
        <5>1. Unused.ticket \notin Tickets
          BY DirectAssumption DEF Unused, None, Tickets
        <5>2. attempt'[a].ticket \in Tickets
          BY <1>1 DEF Attempting
        <5>. QED  BY <3>1, <4>1, <4>3, <5>1, <5>2
      <4>. QED  BY <4>2, <4>3
    <3>2. CASE c = a
      BY <1>2, <2>1, <2>2, <3>2
    <3>3. CASE b # a /\ c # a
      BY <1>2, <2>2, <3>3 DEF Tied, TicketOnce
    <3>. QED  BY <3>1, <3>2, <3>3
  <2>. QED  BY <2>2 DEF TicketOnce
<1>7. SessionIsOfEntry'
  <2>1. ASSUME NEW f \in Exits, entry'[f].session # None
        PROVE  /\ entry'[f] = entry[f]
               /\ entry[f].session \in Attempts
               /\ entry[f].session # a
    <3>1. f # e /\ entry'[f] = entry[f]
      BY <1>1, <2>1
    <3>2. Known(f) /\ entry[f] \in Entries /\ entry[f].session \in Attempts
      BY <2>1, <3>1, KnownType, Absent DEF Known, Entries
    <3>3. attempt[entry[f].session].ticket >= entry[f].since /\ entry[f].since >= 1
      BY <2>1, <3>1, <3>2 DEF Tied, SessionIsOfEntry, Entries, Tickets
    <3>4. attempt[a].ticket = 0
      <4>1. attempt[a] = Unused
        BY <1>1, KnownType
      <4>2. Unused.ticket = 0
        BY DEF Unused, None
      <4>. QED  BY <4>1, <4>2
    <3>5. entry[f].since \in Nat
      BY <3>2 DEF Entries, Tickets
    <3>. QED  BY <3>1, <3>2, <3>3, <3>4, <3>5
  <2>. QED  BY <1>2, <2>1 DEF Tied, SessionIsOfEntry
<1>. QED  BY <1>4, <1>5, <1>6, <1>7 DEF Tied

\* A session is adopted under the ticket of its entry.
LEMMA AdoptTied ==
  ASSUME TypeOK, Tied, NEW a \in Attempts, Adopt(a), Adoptable(a)
  PROVE  Tied'
<1>. DEFINE e == attempt[a].exit
<1>1. /\ \A b \in Attempts : SameAttempt(b)
      /\ Used(a)
      /\ e \in Exits
      /\ Known(e) /\ Ticketed(a)
      /\ \A f \in Exits : f # e => entry'[f] = entry[f]
      /\ entry'[e] \in Entries
      /\ entry'[e].ticket = entry[e].ticket
      /\ entry'[e].attempted = entry[e].attempted
      /\ entry'[e].since = entry[e].since
      /\ entry'[e].session = a
      /\ UNCHANGED <<tickets, inventory>>
  BY AdoptType DEF Adopt
<1>. HIDE DEF e
<1>2. \A b \in Attempts :
        /\ Used(b)' <=> Used(b)
        /\ attempt'[b].exit = attempt[b].exit
        /\ attempt'[b].ticket = attempt[b].ticket
        /\ attempt'[b] # Unused <=> attempt[b] # Unused
  BY <1>1, Absent DEF SameAttempt, Used
<1>3. \A f \in Exits :
        /\ Known(f)' <=> Known(f)
        /\ entry'[f].ticket = entry[f].ticket
        /\ entry'[f].attempted = entry[f].attempted
        /\ entry'[f].since = entry[f].since
  BY <1>1, Absent DEF Known
<1>4. Issued'
  BY <1>1, <1>2, <1>3 DEF Tied, Issued
<1>5. Unspent'
  BY <1>2, <1>3 DEF Tied, Unspent
<1>6. TicketOnce'
  BY <1>2 DEF Tied, TicketOnce
<1>7. SessionIsOfEntry'
  <2>1. attempt'[a].exit = e /\ attempt'[a].ticket >= entry'[e].since
    <3>1. attempt[a].ticket = entry[e].ticket
      BY <1>1 DEF Ticketed, e
    <3>2. entry[e].since <= entry[e].ticket
      BY <1>1 DEF Tied, Issued
    <3>3. entry[e].since \in Nat /\ entry[e].ticket \in Nat
      BY <1>1, KnownType DEF Entries, Tickets
    <3>. QED  BY <1>1, <1>2, <3>1, <3>2, <3>3 DEF e
  <2>2. ASSUME NEW f \in Exits, f # e, entry'[f].session # None
        PROVE  /\ entry'[f] = entry[f]
               /\ entry[f].session \in Attempts
    BY <1>1, <2>2, KnownType, Absent DEF Known, Entries
  <2>. QED  BY <1>1, <1>2, <2>1, <2>2 DEF Tied, SessionIsOfEntry
<1>. QED  BY <1>4, <1>5, <1>6, <1>7 DEF Tied

\* Close only removes entries.
LEMMA CloseTied ==
  ASSUME TypeOK, Tied, CloseCancels \/ CloseClears \/ CloseReturns
  PROVE  Tied'
<1>1. UNCHANGED <<attempt, tickets, inventory>>
      /\ entry' \in {entry, [e \in Exits |-> NoEntry]}
  BY DEF CloseCancels, CloseClears, CloseReturns
<1>2. CASE entry' = entry
  BY <1>1, <1>2
     DEF Tied, Issued, Unspent, TicketOnce, SessionIsOfEntry, Known, Used
<1>3. CASE entry' = [e \in Exits |-> NoEntry]
  <2>1. \A e \in Exits : ~Known(e)' /\ entry'[e].session = None
    BY <1>3, Absent DEF Known
  <2>2. Issued'
    BY <1>1, <2>1 DEF Tied, Issued, Used
  <2>3. Unspent' /\ TicketOnce' /\ SessionIsOfEntry'
    BY <1>1, <2>1 DEF Tied, Unspent, TicketOnce, SessionIsOfEntry
  <2>. QED  BY <2>2, <2>3 DEF Tied
<1>. QED  BY <1>1, <1>2, <1>3

-----------------------------------------------------------------------------
(* Sessions and their watchers                                              *)

\* The session an entry loses is done, or about to be closed.
Loses ==
  \A e \in Exits :
    \/ entry'[e].session = entry[e].session
    \/ /\ entry'[e].session = None
       /\ ~Alive(entry[e].session) \/ entry[e].session \in closing'

\* A step that leaves sessions and watchers alone forgets none.
LEMMA WatchedFrame ==
  ASSUME TypeOK, Watched, NothingLeaks, Loses,
         UNCHANGED <<session, watcher>>,
         Closed => Closed',
         closing \subseteq closing',
         \A a \in Attempts :
           /\ attempt[a].at = "ended" => attempt'[a].at = "ended"
           /\ attempt[a].at = "won" => attempt'[a].at = "won" \/ a \in closing'
  PROVE  Watched' /\ NothingLeaks'
<1>1. \A a \in Attempts : Owned(a)' => Owned(a)
  BY Absent DEF Owned, Loses
<1>2. ASSUME NEW a \in Attempts, Owned(a)
      PROVE  Owned(a)' \/ session[a] # "open" \/ a \in closing'
  <2>1. PICK e \in Exits : entry[e].session = a
    BY <1>2 DEF Owned
  <2>. QED  BY <2>1, Absent DEF Owned, Loses, Alive
<1>3. ASSUME NEW a \in Attempts, Owned(a), session[a] = "dead", ~Closed
      PROVE  watcher[a] = "watching"
  BY <1>3 DEF Watched, TypeOK
<1>4. Watched'
  BY <1>1 DEF Watched
<1>5. ASSUME NEW a \in Attempts
      PROVE  LET held == Owned(a)' \/ attempt'[a].at = "won" \/ a \in closing' IN
             /\ session[a] = "open" => held
             /\ session[a] = "dead" /\ ~Closed' => held \/ watcher[a] = "watching"
  BY <1>2, <1>3 DEF NothingLeaks
<1>6. NothingLeaks'
  BY <1>5 DEF NothingLeaks
<1>. QED  BY <1>4, <1>6

\* The steps of inventories and requests.
LEMMA RequestWatched ==
  ASSUME TypeOK, Tied, Watched, NothingLeaks,
         \/ \E S \in SUBSET Exits : InventoryArrives(S)
         \/ InventoryApplies
         \/ \E r \in Requests : Request(r) \/ \E e \in Exits : Select(r, e)
  PROVE  Watched' /\ NothingLeaks'
<1>1. ASSUME NEW S \in SUBSET Exits, InventoryArrives(S)
      PROVE  Watched' /\ NothingLeaks'
  BY <1>1, WatchedFrame DEF InventoryArrives, Loses, Closed
<1>2. CASE InventoryApplies
  <2>1. ASSUME NEW e \in Exits, e \in inventory.exits
        PROVE  entry'[e].session = entry[e].session
    BY <1>2, <2>1, AppliesType, Absent DEF Tied, Known
  <2>2. ASSUME NEW e \in Exits, e \notin inventory.exits
        PROVE  \/ entry'[e].session = entry[e].session
               \/ entry'[e].session = None /\ entry[e].session \in closing'
    <3>1. entry'[e].session = None
      BY <1>2, <2>2, AppliesType, Absent DEF Tied
    <3>2. closing' = closing \cup SessionsOf(Exits \ inventory.exits)
      BY <1>2 DEF InventoryApplies
    <3>. QED  BY <2>2, <3>1, <3>2 DEF SessionsOf
  <2>3. Loses
    BY <2>1, <2>2 DEF Loses
  <2>. QED  BY <1>2, <2>3, WatchedFrame DEF InventoryApplies, Closed
<1>3. ASSUME NEW r \in Requests, NEW e \in Exits, Select(r, e)
      PROVE  Watched' /\ NothingLeaks'
  <2>1. CASE Known(e)
    <3>1. entry' = [entry EXCEPT ![e] = Refreshed(e)]
      BY <1>3, <2>1 DEF Select
    <3>2. Loses
      BY <2>1, <3>1, RefreshedType DEF Loses, TypeOK
    <3>. QED  BY <1>3, <3>2, WatchedFrame DEF Select, Closed
  <2>2. CASE ~Known(e)
    BY <1>3, <2>2, WatchedFrame DEF Select, Loses, Closed
  <2>. QED  BY <2>1, <2>2
<1>4. ASSUME NEW r \in Requests, Ensure(r)
      PROVE  Watched' /\ NothingLeaks'
  <2>1. CASE UNCHANGED <<entry, attempt>>
    BY <1>4, <2>1, WatchedFrame DEF Ensure, Loses, Closed
  <2>2. CASE ~UNCHANGED <<entry, attempt>>
    <3>1. PICK e \in Exits, a \in Attempts :
            /\ ~Alive(entry[e].session)
            /\ ~Used(a)
            /\ attempt' = [attempt EXCEPT ![a] =
                 [at |-> "dialing", exit |-> e, ticket |-> entry[e].ticket]]
            /\ \A f \in Exits : f # e => entry'[f] = entry[f]
            /\ entry'[e].session = None
      BY <1>4, <2>2, EnsureType
    <3>2. Loses
      BY <3>1 DEF Loses
    <3>3. attempt[a].at = "unused"
      <4>1. Unused.at = "unused"
        BY DEF Unused
      <4>. QED  BY <3>1, <4>1, KnownType
    <3>4. \A b \in Attempts : b # a => attempt'[b] = attempt[b]
      BY <3>1 DEF TypeOK
    <3>. QED  BY <1>4, <3>2, <3>3, <3>4, WatchedFrame DEF Ensure, Closed
  <2>. QED  BY <2>1, <2>2
<1>5. ASSUME NEW r \in Requests,
             Succeeds(r) \/ \E timeout \in BOOLEAN : Fails(r, timeout)
      PROVE  Watched' /\ NothingLeaks'
  BY <1>5, WatchedFrame DEF Succeeds, Fails, Loses, Closed
<1>6. ASSUME NEW r \in Requests, FailReadyForExit(r)
      PROVE  Watched' /\ NothingLeaks'
  <2>. DEFINE e == request[r].exit
  <2>1. CASE Known(e)
    <3>1. entry[e] \in Entries /\ e \in Exits
      BY <1>6, <2>1, RequestExit, KnownType DEF FailReadyForExit
    <3>2. entry' = [entry EXCEPT ![e] = [entry[e] EXCEPT
                      !.session = None, !.starting = FALSE, !.cooling = TRUE]]
      BY <1>6, <2>1, <3>1 DEF FailReadyForExit, TypeOK
    <3>3. /\ entry'[e].session = None
          /\ \A f \in Exits : f # e => entry'[f] = entry[f]
      BY <3>1, <3>2 DEF TypeOK, Entries
    <3>4. closing' = closing \cup SessionsOf({e})
      BY <1>6, <2>1 DEF FailReadyForExit
    <3>5. entry[e].session = None \/ entry[e].session \in closing'
      BY <3>4 DEF SessionsOf
    <3>. HIDE DEF e
    <3>6. Loses
      BY <3>3, <3>5 DEF Loses
    <3>. QED  BY <1>6, <3>4, <3>6, WatchedFrame DEF FailReadyForExit, Closed
  <2>2. CASE ~Known(e)
    BY <1>6, <2>2, WatchedFrame DEF FailReadyForExit, Loses, Closed
  <2>. QED  BY <2>1, <2>2
<1>. QED  BY <1>1, <1>2, <1>3, <1>4, <1>5, <1>6 DEF Request

\* The steps of attempts.
LEMMA DialWatched ==
  ASSUME TypeOK, Tied, Watched, NothingLeaks, NEW a \in Attempts, Connect(a)
  PROVE  Watched' /\ NothingLeaks'
<1>. DEFINE e == attempt[a].exit
<1>0. /\ Used(a) /\ e \in Exits
      /\ Known(e) => entry[e] \in Entries
  BY ExitType, KnownType DEF Connect, DialSucceeds, DialFails, Adopt, FinishFailure
<1>1. CASE DialSucceeds(a)
  <2>1. /\ attempt'[a].at = "won" /\ session'[a] = "open"
        /\ attempt[a].at = "dialing"
        /\ \A b \in Attempts : b # a =>
             attempt'[b] = attempt[b] /\ session'[b] = session[b]
        /\ UNCHANGED <<entry, watcher, closing, closer>>
    BY <1>0, <1>1, OneAttempt DEF DialSucceeds, AttemptSteps, TypeOK
  <2>2. watcher[a] = "none"
    BY <2>1 DEF Watched
  <2>3. Watched'
    BY <2>1, <2>2 DEF Watched, Owned, Closed
  <2>4. NothingLeaks'
    BY <2>1 DEF NothingLeaks, Owned, Closed
  <2>. QED  BY <2>3, <2>4
<1>2. CASE DialFails(a)
  <2>1. /\ attempt[a].at = "dialing"
        /\ \A b \in Attempts : b # a => attempt'[b] = attempt[b]
        /\ UNCHANGED <<entry, session, watcher, closing, closer>>
    BY <1>2 DEF DialFails, TypeOK
  <2>. QED  BY <2>1, WatchedFrame DEF Loses, Closed
<1>3. CASE FinishFailure(a)
  <2>1. /\ attempt[a].at = "failed"
        /\ attempt'[a].at = "ended"
        /\ \A b \in Attempts : b # a => attempt'[b] = attempt[b]
        /\ UNCHANGED <<session, watcher, closing, closer>>
    BY <1>0, <1>3, OneAttempt DEF FinishFailure, AttemptSteps
  <2>2. \A f \in Exits : entry'[f].session = entry[f].session
    BY <1>0, <1>3 DEF FinishFailure, TypeOK, Entries
  <2>. QED  BY <2>1, <2>2, WatchedFrame DEF Loses, Closed
<1>4. CASE Adopt(a) /\ ~Adoptable(a)
  <2>1. /\ attempt[a].at = "won"
        /\ attempt'[a].at = "ended"
        /\ \A b \in Attempts : b # a => attempt'[b] = attempt[b]
        /\ closing' = closing \cup {a}
        /\ UNCHANGED <<session, watcher, closer>>
    BY <1>0, <1>4, OneAttempt DEF Adopt, AttemptSteps
  <2>2. \A f \in Exits : entry'[f].session = entry[f].session
    BY <1>0, <1>4 DEF Adopt, TypeOK, Entries
  <2>. QED  BY <2>1, <2>2, WatchedFrame DEF Loses, Closed
<1>5. CASE Adopt(a) /\ Adoptable(a)
  <2>1. /\ ~Alive(entry[e].session)
        /\ \A f \in Exits : f # e => entry'[f] = entry[f]
        /\ entry'[e].session = a
    BY <1>5, AdoptType
  <2>2. /\ attempt[a].at = "won" /\ attempt'[a].at = "ended"
        /\ \A b \in Attempts : b # a => attempt'[b] = attempt[b]
        /\ watcher'[a] = "watching"
        /\ \A b \in Attempts : b # a => watcher'[b] = watcher[b]
        /\ UNCHANGED <<session, closing, closer>>
        /\ ~Closed
    BY <1>0, <1>5, OneAttempt DEF Adopt, AttemptSteps, TypeOK, Adoptable
  <2>. HIDE DEF e
  <2>3. Owned(a)' /\ \A b \in Attempts : b # a /\ Owned(b)' => Owned(b)
    BY <1>0, <2>1 DEF Owned
  <2>4. ASSUME NEW b \in Attempts, b # a, Owned(b), ~Owned(b)'
        PROVE  session[b] # "open" /\ (session[b] = "dead" => watcher[b] = "watching")
    <3>1. entry[e].session = b
      BY <1>0, <2>1, <2>4 DEF Owned
    <3>2. session[b] # "open"
      BY <2>1, <3>1, Absent DEF Alive
    <3>. QED  BY <2>2, <2>4, <3>2 DEF Watched, TypeOK
  <2>5. Watched'
    BY <2>2, <2>3 DEF Watched, Closed
  <2>6. NothingLeaks'
    BY <2>2, <2>3, <2>4 DEF NothingLeaks, Closed
  <2>. QED  BY <2>5, <2>6
<1>. QED  BY <1>1, <1>2, <1>3, <1>4, <1>5 DEF Connect

\* The steps of sessions, watchers and cooldowns.
LEMMA SessionWatched ==
  ASSUME TypeOK, Watched, NothingLeaks,
         \/ \E a \in Attempts : Watch(a) \/ SessionDies(a) \/ CloseSession(a)
         \/ \E e \in Exits : CooldownEnds(e)
  PROVE  Watched' /\ NothingLeaks'
<1>1. ASSUME NEW a \in Attempts, SessionDies(a)
      PROVE  Watched' /\ NothingLeaks'
  <2>1. /\ session[a] = "open" /\ session'[a] = "dead"
        /\ \A b \in Attempts : b # a => session'[b] = session[b]
        /\ UNCHANGED <<entry, attempt, watcher, closing, closer>>
    BY <1>1 DEF SessionDies, TypeOK
  <2>. QED  BY <2>1 DEF Watched, NothingLeaks, Owned, Closed
<1>2. ASSUME NEW a \in Attempts, CloseSession(a)
      PROVE  Watched' /\ NothingLeaks'
  <2>1. /\ session'[a] = "released"
        /\ \A b \in Attempts : b # a =>
             session'[b] = session[b] /\ (b \in closing' <=> b \in closing)
        /\ UNCHANGED <<entry, attempt, watcher, closer>>
    BY <1>2 DEF CloseSession, TypeOK
  <2>. QED  BY <2>1 DEF Watched, NothingLeaks, Owned, Closed
<1>3. ASSUME NEW a \in Attempts, WatchSeesDone(a)
      PROVE  Watched' /\ NothingLeaks'
  <2>1. /\ session'[a] = "released" /\ watcher[a] = "watching"
        /\ watcher'[a] \in {"done", "reporting"}
        /\ \A b \in Attempts : b # a =>
             session'[b] = session[b] /\ watcher'[b] = watcher[b]
        /\ UNCHANGED <<entry, attempt, closing, closer>>
    BY <1>3 DEF WatchSeesDone, TypeOK
  <2>. QED  BY <2>1 DEF Watched, NothingLeaks, Owned, Closed
<1>4. ASSUME NEW a \in Attempts, WatchCanceled(a)
      PROVE  Watched' /\ NothingLeaks'
  <2>1. /\ watcher[a] = "watching" /\ watcher'[a] = "done" /\ Closed
        /\ \A b \in Attempts : b # a => watcher'[b] = watcher[b]
        /\ UNCHANGED <<entry, attempt, session, closing, closer>>
    BY <1>4 DEF WatchCanceled, TypeOK
  <2>. QED  BY <2>1 DEF Watched, NothingLeaks, Owned, Closed
<1>5. ASSUME NEW a \in Attempts, WatchReports(a)
      PROVE  Watched' /\ NothingLeaks'
  <2>. DEFINE e == attempt[a].exit
  <2>1. /\ watcher[a] = "reporting" /\ watcher'[a] = "done"
        /\ session[a] = "released"
        /\ attempt[a].at = "ended"
        /\ \A b \in Attempts : b # a => watcher'[b] = watcher[b]
        /\ UNCHANGED <<attempt, session, closing, closer>>
    BY <1>5 DEF WatchReports, TypeOK, Watched
  <2>2. e \in Exits /\ (Known(e) => entry[e] \in Entries)
    BY <2>1, ExitType, KnownType
  <2>3. \A f \in Exits : \/ entry'[f].session = entry[f].session
                         \/ entry[f].session = a /\ entry'[f].session = None
    BY <1>5, <2>2 DEF WatchReports, TypeOK, Entries
  <2>4. \A b \in Attempts : /\ Owned(b)' => Owned(b)
                            /\ b # a => (Owned(b)' <=> Owned(b))
    BY <2>3, Absent DEF Owned
  <2>5. Watched'
    BY <2>1, <2>4 DEF Watched, Closed
  <2>6. NothingLeaks'
    BY <2>1, <2>4 DEF NothingLeaks, Closed
  <2>. QED  BY <2>5, <2>6
<1>6. ASSUME NEW e \in Exits, CooldownEnds(e)
      PROVE  Watched' /\ NothingLeaks'
  <2>1. entry[e] \in Entries
    BY <1>6, KnownType DEF CooldownEnds
  <2>2. \A f \in Exits : entry'[f].session = entry[f].session
    BY <1>6, <2>1 DEF CooldownEnds, TypeOK, Entries
  <2>. QED  BY <1>6, <2>2, WatchedFrame DEF CooldownEnds, Loses, Closed
<1>. QED  BY <1>1, <1>2, <1>3, <1>4, <1>5, <1>6 DEF Watch

\* The steps of Close.
LEMMA CloseWatched ==
  ASSUME TypeOK, Watched, NothingLeaks, CloseCancels \/ CloseClears \/ CloseReturns
  PROVE  Watched' /\ NothingLeaks'
<1>1. CASE CloseCancels \/ CloseReturns
  BY <1>1, WatchedFrame DEF CloseCancels, CloseReturns, Loses, Closed
<1>2. CASE CloseClears
  <2>1. Loses
    <3>1. \A e \in Exits : entry'[e].session = None
      BY <1>2, Absent DEF CloseClears
    <3>2. closing' = closing \cup SessionsOf(Exits)
      BY <1>2 DEF CloseClears
    <3>. QED  BY <3>1, <3>2 DEF Loses, SessionsOf
  <2>. QED  BY <1>2, <2>1, WatchedFrame DEF CloseClears, Closed
<1>. QED  BY <1>1, <1>2

-----------------------------------------------------------------------------
(* What Close leaves behind                                                 *)

\* Once Close has cleared the entries, no entry has a session again, although
\* an inventory that got past its look at closed may still make new ones.
ClearedOwnsNothing ==
  closer \in {"cleared", "done"} => \A e \in Exits : entry[e].session = None

\* Every session that is open then is with the attempt that dialled it, which
\* will not be able to place it, or about to be closed.
ClosedGivesBack ==
  closer \in {"cleared", "done"} =>
    \A a \in Attempts :
      session[a] = "open" => attempt[a].at = "won" \/ a \in closing

\* A step that places no session leaves the entries of a closed manager empty.
LEMMA KeepsCleared ==
  ASSUME ClearedOwnsNothing, closer' = closer,
         \A e \in Exits : entry'[e].session \in {entry[e].session, None}
  PROVE  ClearedOwnsNothing'
BY DEF ClearedOwnsNothing

\* Entries that are the same up to a lost session place none.
LEMMA SamePlaces ==
  ASSUME Keeps
  PROVE  \A e \in Exits : entry'[e].session \in {entry[e].session, None}
BY DEF Keeps, Same

\* Only an attempt that finds the manager open places a session.
LEMMA ClearedStep ==
  ASSUME IInv, ClearedOwnsNothing, [Next]_vars
  PROVE  ClearedOwnsNothing'
<1>0. TypeOK /\ Issued /\ Watched
  BY DEF IInv
<1>1. CASE UNCHANGED vars
  BY <1>1 DEF vars, ClearedOwnsNothing
<1>2. ASSUME NEW S \in SUBSET Exits, InventoryArrives(S)
      PROVE  ClearedOwnsNothing'
  BY <1>2, KeepsCleared DEF InventoryArrives
<1>3. CASE InventoryApplies
  <2>1. \A e \in Exits : entry'[e].session \in {entry[e].session, None}
    BY <1>0, <1>3, AppliesType, Absent
  <2>2. closer' = closer
    BY <1>3 DEF InventoryApplies
  <2>. QED  BY <2>1, <2>2, KeepsCleared
<1>4. ASSUME NEW a \in Attempts, Connect(a)
      PROVE  ClearedOwnsNothing'
  <2>1. closer' = closer
    BY <1>4 DEF Connect, DialSucceeds, DialFails, Adopt, FinishFailure
  <2>2. CASE Adopt(a) /\ Adoptable(a)
    BY <2>1, <2>2 DEF Adoptable, Closed, ClearedOwnsNothing
  <2>3. CASE ~(Adopt(a) /\ Adoptable(a))
    BY <1>0, <1>4, <2>1, <2>3, DialKeeps, SamePlaces, KeepsCleared DEF Connect
  <2>. QED  BY <2>2, <2>3
<1>5. ASSUME \/ \E a \in Attempts : Watch(a) \/ SessionDies(a) \/ CloseSession(a)
             \/ \E e \in Exits : CooldownEnds(e)
      PROVE  ClearedOwnsNothing'
  <2>1. closer' = closer
    BY <1>5 DEF Watch, WatchSeesDone, WatchReports, WatchCanceled,
                SessionDies, CloseSession, CooldownEnds
  <2>. QED  BY <1>0, <1>5, <2>1, WatchKeeps, SamePlaces, KeepsCleared
<1>6. ASSUME NEW r \in Requests, Request(r) \/ \E e \in Exits : Select(r, e)
      PROVE  ClearedOwnsNothing'
  <2>1. closer' = closer
    BY <1>6 DEF Request, Ensure, Succeeds, FailReadyForExit, Fails, Select
  <2>2. CASE Ensure(r) /\ ~UNCHANGED <<entry, attempt>>
    <3>1. \E f \in Exits :
            /\ entry'[f].session = None
            /\ \A e \in Exits : e # f => entry'[e] = entry[e]
      BY <1>0, <2>2, EnsureType
    <3>. QED  BY <2>1, <3>1, KeepsCleared
  <2>3. CASE ~(Ensure(r) /\ ~UNCHANGED <<entry, attempt>>)
    BY <1>0, <1>6, <2>1, <2>3, RequestKeeps, SamePlaces, KeepsCleared DEF Request
  <2>. QED  BY <2>2, <2>3
<1>7. CASE CloseCancels
  BY <1>7 DEF CloseCancels, ClearedOwnsNothing
<1>8. CASE CloseClears
  BY <1>8, Absent DEF CloseClears, ClearedOwnsNothing
<1>9. CASE CloseReturns
  BY <1>9 DEF CloseReturns, ClearedOwnsNothing
<1>. QED
  BY <1>1, <1>2, <1>3, <1>4, <1>5, <1>6, <1>7, <1>8, <1>9 DEF Next, Close

-----------------------------------------------------------------------------
(* The theorems                                                             *)

\* There is no entry and no session to begin with.
LEMMA InitInv ==
  ASSUME Init
  PROVE  IInv
<1>1. TypeOK
  BY DirectAssumption DEF Init, TypeOK, NoInventory
<1>2. /\ \A e \in Exits : ~Known(e) /\ entry[e].session = None
      /\ \A a \in Attempts : ~Used(a) /\ attempt[a] = Unused
      /\ ~inventory.pending
  BY Absent DEF Init, Known, Used, NoInventory
<1>3. Issued /\ Unspent /\ TicketOnce /\ SessionIsOfEntry
  BY <1>2 DEF Issued, Unspent, TicketOnce, SessionIsOfEntry
<1>4. Watched /\ NothingLeaks
  BY <1>2, Absent DEF Init, Watched, NothingLeaks, Owned
<1>. QED  BY <1>1, <1>3, <1>4 DEF IInv

\* Every step keeps the invariant.
LEMMA InvStep ==
  ASSUME IInv, [Next]_vars
  PROVE  IInv'
<1>0. TypeOK /\ Tied /\ Watched /\ NothingLeaks
  BY DEF IInv, Tied
<1>. SUFFICES TypeOK' /\ Tied' /\ Watched' /\ NothingLeaks'
  BY DEF IInv, Tied
<1>1. CASE UNCHANGED vars
  BY <1>0, <1>1 DEF vars, TypeOK, Tied, Issued, Unspent, TicketOnce,
     SessionIsOfEntry, Watched, NothingLeaks, Owned, Known, Used, Closed
<1>2. ASSUME NEW S \in SUBSET Exits, InventoryArrives(S)
      PROVE  TypeOK' /\ Tied' /\ Watched' /\ NothingLeaks'
  BY <1>0, <1>2, ArrivesType, ArrivesTied, RequestWatched
<1>3. CASE InventoryApplies
  BY <1>0, <1>3, AppliesType, AppliesTied, RequestWatched DEF Tied
<1>4. ASSUME NEW a \in Attempts, Connect(a)
      PROVE  TypeOK' /\ Tied' /\ Watched' /\ NothingLeaks'
  <2>1. CASE Adopt(a) /\ Adoptable(a)
    BY <1>0, <1>4, <2>1, AdoptType, AdoptTied, DialWatched
  <2>2. CASE ~(Adopt(a) /\ Adoptable(a))
    BY <1>0, <1>4, <2>2, DialKeeps, KeepsTied, DialWatched DEF Connect
  <2>. QED  BY <2>1, <2>2
<1>5. CASE \/ \E a \in Attempts : Watch(a) \/ SessionDies(a) \/ CloseSession(a)
           \/ \E e \in Exits : CooldownEnds(e)
  BY <1>0, <1>5, WatchKeeps, KeepsTied, SessionWatched
<1>6. ASSUME NEW r \in Requests, Request(r) \/ \E e \in Exits : Select(r, e)
      PROVE  TypeOK' /\ Tied' /\ Watched' /\ NothingLeaks'
  <2>1. Watched' /\ NothingLeaks'
    BY <1>0, <1>6, RequestWatched
  <2>2. CASE Ensure(r) /\ ~UNCHANGED <<entry, attempt>>
    BY <1>0, <2>1, <2>2, EnsureType, EnsureTied
  <2>3. CASE ~(Ensure(r) /\ ~UNCHANGED <<entry, attempt>>)
    BY <1>0, <1>6, <2>1, <2>3, RequestKeeps, KeepsTied DEF Request
  <2>. QED  BY <2>2, <2>3
<1>7. CASE CloseCancels \/ Close
  BY <1>0, <1>7, CloseType, CloseTied, CloseWatched DEF Close
<1>. QED  BY <1>1, <1>2, <1>3, <1>4, <1>5, <1>6, <1>7 DEF Next

\* The invariant holds in every reachable state.
THEOREM Invariant == Spec => []IInv
BY InitInv, InvStep, PTL DEF Spec

\* Entries, attempts, sessions, watchers and requests stay in their ranges.
THEOREM TypeCorrect == Spec => []TypeOK
<1>1. IInv => TypeOK
  BY DEF IInv
<1>. QED  BY <1>1, Invariant, PTL

\* No interleaving of inventories, attempts, failures and requests presents a
\* ticket to its exit twice.
THEOREM TicketsArePresentedOnce == Spec => []TicketOnce
<1>1. IInv => TicketOnce
  BY DEF IInv
<1>. QED  BY <1>1, Invariant, PTL

\* An exit that left the inventory and came back does not get a session that
\* was dialled for it before.
THEOREM SessionsBelong == Spec => []SessionIsOfEntry
<1>1. IInv => SessionIsOfEntry
  BY DEF IInv
<1>. QED  BY <1>1, Invariant, PTL

\* Whoever takes a session out of its entry closes it; no session is lost.
THEOREM NoSessionLeaks == Spec => []NothingLeaks
<1>1. IInv => NothingLeaks
  BY DEF IInv
<1>. QED  BY <1>1, Invariant, PTL

\* A closed manager keeps no session: what is still open when the entries have
\* been cleared is on its way to being closed.
THEOREM ClosedManagerGivesBack == Spec => []ClosedGivesBack
<1>1. Init => ClearedOwnsNothing
  BY DEF Init, ClearedOwnsNothing
<1>2. Spec => []ClearedOwnsNothing
  BY <1>1, Invariant, ClearedStep, PTL DEF Spec
<1>3. IInv /\ ClearedOwnsNothing => ClosedGivesBack
  BY Absent DEF IInv, NothingLeaks, Owned, ClearedOwnsNothing, ClosedGivesBack
<1>. QED  BY <1>2, <1>3, Invariant, PTL

=============================================================================
