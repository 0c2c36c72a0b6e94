-------------------------- MODULE P2PLeases_proofs --------------------------
(*****************************************************************************)
(* Proofs about P2PLeases: type correctness, that sessionCounts agrees with  *)
(* active (CountsAgree), and that an answered lease has its grant and both   *)
(* sessions (AnsweredIsAuthorized).                                          *)
(*                                                                           *)
(* The inductive invariant IInv adds that an id which a connect has reserved *)
(* is nobody else's, that a request remembers the peers of the lease it has  *)
(* found, and that an authorization that was looked at without the lock is   *)
(* still standing, or being enforced, as long as the lease is there.         *)
(*****************************************************************************)
EXTENDS P2PLeases, FiniteSetTheorems, TLAPS

-----------------------------------------------------------------------------
(* The inductive invariant                                                  *)

\* The id of a connect that has not inserted its lease is not in active, and
\* no other request is about it.
Reserved ==
  \A h \in Handlers : handler[h].at = "authorized" =>
    /\ handler[h].client # handler[h].exit
    /\ handler[h].id # Idle.id
    /\ ~Active(handler[h].id)
    /\ \A g \in Handlers : g # h => handler[g].id # handler[h].id

\* The lease of a request on a lease is the one it found, if it still is.
RequestsMatch ==
  \A h \in Handlers :
    handler[h].at \in {"found", "checked"} /\ Active(handler[h].id) =>
      /\ lease[handler[h].id].client = handler[h].client
      /\ lease[handler[h].id].exit = handler[h].exit

Protected(c, e) ==
  /\ <<c, e>> \in allowed \/ Enforcing(c)
  /\ Present(c)
  /\ Present(e)

\* What peersOnline and authorize have seen stands while the lease does, or
\* what removes the lease is on its way.
ChecksStand ==
  \A h \in Handlers :
    handler[h].at = "checked" /\ Active(handler[h].id) =>
      Protected(handler[h].client, handler[h].exit)

IInv == /\ TypeOK /\ CountsAgree /\ Reserved /\ RequestsMatch /\ ChecksStand
        /\ AnsweredIsAuthorized

-----------------------------------------------------------------------------
(* Leases                                                                   *)

\* No lease of two peers is the absent one.
LEMMA LeaseIsNoLease ==
  ASSUME NEW l \in Leases
  PROVE  l # NoLease
<1>1. l.client \in Clients
  BY DEF Leases
<1>2. NoLease.client \notin Clients
  BY LeasesAssumption DEF NoLease
<1>. QED  BY <1>1, <1>2

\* The leases of a device can be counted.
LEMMA LeasesAreFinite ==
  ASSUME NEW d
  PROVE  /\ IsFiniteSet(LeasesOf(d))
         /\ Cardinality(LeasesOf(d)) \in Nat
<1>1. LeasesOf(d) \in SUBSET Ids
  BY DEF LeasesOf, ActiveIds
<1>. QED  BY <1>1, LeasesAssumption, FS_Subset, FS_CardinalityType

\* Removing leases takes each from the counts of its two peers once.
LEMMA RemoveCounts ==
  ASSUME TypeOK, CountsAgree, NEW S \in SUBSET ActiveIds, Remove(S)
  PROVE  /\ lease' \in [Ids -> Leases \cup {NoLease}]
         /\ count' \in [Devices -> Nat]
         /\ CountsAgree'
         /\ \A i \in Ids : Active(i)' => Active(i) /\ i \notin S /\ lease'[i] = lease[i]
<1>1. lease' \in [Ids -> Leases \cup {NoLease}]
  BY DEF TypeOK, Remove
<1>2. \A i \in Ids : Active(i)' => Active(i) /\ i \notin S /\ lease'[i] = lease[i]
  BY DEF TypeOK, Remove, Active
<1>3. \A i \in Ids : Active(i) /\ i \notin S => Active(i)' /\ lease'[i] = lease[i]
  BY DEF TypeOK, Remove, Active
<1>4. ASSUME NEW d \in Devices
      PROVE  /\ count'[d] = Cardinality(LeasesOf(d)')
             /\ count'[d] <= MaxPerDevice
             /\ count'[d] \in Nat
  <2>. DEFINE G == {i \in S : IsPeer(d, lease[i])}
  <2>1. S \subseteq Ids
    BY DEF ActiveIds
  <2>2. LeasesOf(d)' = LeasesOf(d) \ S
    BY <1>2, <1>3, <2>1 DEF LeasesOf, ActiveIds, IsPeer
  <2>3. G = LeasesOf(d) \cap S
    BY <2>1 DEF LeasesOf
  <2>4. Cardinality(LeasesOf(d) \ S)
          = Cardinality(LeasesOf(d)) - Cardinality(LeasesOf(d) \cap S)
    BY LeasesAreFinite, FS_Difference
  <2>5. Cardinality(LeasesOf(d) \cap S) \in Nat
    BY LeasesAreFinite, FS_Intersection, FS_CardinalityType
  <2>6. Cardinality(LeasesOf(d)') \in Nat
    BY <2>2, LeasesAreFinite, FS_Difference, FS_CardinalityType
  <2>7. count'[d] = count[d] - Cardinality(G)
    BY DEF Remove
  <2>8. count[d] = Cardinality(LeasesOf(d)) /\ count[d] <= MaxPerDevice
        /\ count[d] \in Nat
    BY DEF CountsAgree, TypeOK
  <2>9. count'[d] = Cardinality(LeasesOf(d)')
    BY <2>2, <2>3, <2>4, <2>7, <2>8
  <2>10. count'[d] = count[d] - Cardinality(LeasesOf(d) \cap S)
    BY <2>3, <2>7
  <2>11. count'[d] \in Nat
    BY <2>6, <2>9
  <2>12. MaxPerDevice \in Nat
    BY LeasesAssumption
  <2>13. count'[d] <= MaxPerDevice
    BY <2>5, <2>8, <2>10, <2>12
  <2>. QED  BY <2>9, <2>11, <2>13
<1>5. count' \in [Devices -> Nat]
  BY <1>4 DEF Remove
<1>6. CountsAgree'
  BY <1>4 DEF CountsAgree
<1>. QED  BY <1>1, <1>2, <1>5, <1>6

\* A step that leaves lease and count alone, or changes only what the counts
\* do not depend on, leaves the counts right.
LEMMA CountsKept ==
  ASSUME TypeOK, CountsAgree, count' = count,
         \A i \in Ids : /\ Active(i)' <=> Active(i)
                        /\ lease'[i].client = lease[i].client
                        /\ lease'[i].exit = lease[i].exit
  PROVE  CountsAgree'
<1>1. ASSUME NEW d \in Devices
      PROVE  LeasesOf(d)' = LeasesOf(d)
  BY DEF LeasesOf, ActiveIds, IsPeer
<1>. QED  BY <1>1 DEF CountsAgree

-----------------------------------------------------------------------------
(* Type correctness                                                         *)

LeaseTable == [Ids -> Leases \cup {NoLease}]
HandlerTable == [Handlers -> Handling \cup {Idle}]

\* A request under way can move to any other step.
LEMMA RequestMoves ==
  ASSUME TypeOK, NEW h \in Handlers, handler[h].at # "idle"
  PROVE  /\ handler[h] \in Handling
         /\ \A s \in Steps : [handler EXCEPT ![h].at = s] \in HandlerTable
<1>1. handler[h] \in Handling
  <2>1. handler[h] \in Handling \cup {Idle}
    BY DEF TypeOK
  <2>2. Idle.at = "idle"
    BY DEF Idle
  <2>. QED  BY <2>1, <2>2
<1>2. ASSUME NEW s \in Steps
      PROVE  [handler[h] EXCEPT !.at = s] \in Handling
  BY <1>1 DEF Handling
<1>. QED  BY <1>1, <1>2 DEF TypeOK, HandlerTable

\* A request can end.
LEMMA RequestEnds ==
  ASSUME TypeOK, NEW h \in Handlers
  PROVE  [handler EXCEPT ![h] = Idle] \in HandlerTable
BY DEF TypeOK, HandlerTable

\* A lease that is there can be told to a peer, be answered, expire, be renewed.
LEMMA LeaseChanges ==
  ASSUME TypeOK, NEW i \in Ids, Active(i)
  PROVE  /\ lease[i] \in Leases
         /\ \A d \in Devices : [lease EXCEPT ![i].told = @ \cup {d}] \in LeaseTable
         /\ \A b, c \in BOOLEAN :
              [lease EXCEPT ![i].answered = b, ![i].expired = c] \in LeaseTable
         /\ \A b \in BOOLEAN : [lease EXCEPT ![i].expired = b] \in LeaseTable
<1>1. lease[i] \in Leases
  BY DEF TypeOK, Active
<1>2. \A d \in Devices : [lease[i] EXCEPT !.told = @ \cup {d}] \in Leases
  BY <1>1 DEF Leases
<1>3. \A b, c \in BOOLEAN :
        [lease[i] EXCEPT !.answered = b, !.expired = c] \in Leases
  BY <1>1 DEF Leases
<1>4. \A b \in BOOLEAN : [lease[i] EXCEPT !.expired = b] \in Leases
  BY <1>1 DEF Leases
<1>5. \A d \in Devices : [lease EXCEPT ![i].told = @ \cup {d}] \in LeaseTable
  BY <1>2 DEF TypeOK, LeaseTable
<1>6. \A b, c \in BOOLEAN :
        [lease EXCEPT ![i].answered = b, ![i].expired = c] \in LeaseTable
  BY <1>3 DEF TypeOK, LeaseTable
<1>7. \A b \in BOOLEAN : [lease EXCEPT ![i].expired = b] \in LeaseTable
  BY <1>4 DEF TypeOK, LeaseTable
<1>. QED  BY <1>1, <1>5, <1>6, <1>7

\* A peer can be told.
LEMMA TellType ==
  ASSUME TypeOK, NEW i \in Ids, NEW d \in Devices, Tell(d, i)
  PROVE  lease' \in LeaseTable /\ count' = count
<1>1. CASE Active(i)
  BY <1>1, LeaseChanges DEF Tell
<1>2. CASE ~Active(i)
  BY <1>2 DEF Tell, TypeOK, LeaseTable
<1>. QED  BY <1>1, <1>2 DEF Tell

\* Everything a handler does keeps the types.
LEMMA ServeType ==
  ASSUME TypeOK, CountsAgree, NEW h \in Handlers, Serve(h)
  PROVE  TypeOK'
<1>. USE DEF Environment, KeepLeases
<1>1. CASE ConnectInsert(h)
  <2>. DEFINE r == handler[h]
              l == [client |-> r.client, exit |-> r.exit, expired |-> FALSE,
                    answered |-> FALSE, told |-> {}]
  <2>1. r \in Handling
    BY <1>1, RequestMoves DEF ConnectInsert
  <2>2. l \in Leases
    BY <2>1 DEF Handling, Leases
  <2>3. r.id \in Ids /\ r.client \in Devices /\ r.exit \in Devices
    BY <2>1 DEF Handling, Devices
  <2>4. lease' = [lease EXCEPT ![r.id] = l]
    BY <1>1 DEF ConnectInsert
  <2>. HIDE DEF l
  <2>5. lease' \in LeaseTable
    BY <2>2, <2>3, <2>4 DEF TypeOK, LeaseTable
  <2>6. count' \in [Devices -> Nat]
    BY <1>1, <2>3 DEF ConnectInsert, TypeOK
  <2>7. handler' \in HandlerTable
    BY <1>1, RequestMoves DEF ConnectInsert, Goto, Steps
  <2>. QED  BY <1>1, <2>5, <2>6, <2>7 DEF ConnectInsert, TypeOK, LeaseTable, HandlerTable
<1>2. CASE ConnectRefused(h)
  BY <1>2, RequestEnds DEF ConnectRefused, Finish, TypeOK, HandlerTable
<1>3. CASE Offer(h)
  <2>1. handler[h].exit \in Devices /\ handler[h].id \in Ids
    BY <1>3, RequestMoves DEF Offer, Handling, Devices
  <2>2. lease' \in LeaseTable /\ count' = count
    BY <1>3, <2>1, TellType DEF Offer
  <2>3. handler' \in HandlerTable
    BY <1>3, RequestMoves DEF Offer, Goto, Steps
  <2>. QED  BY <1>3, <2>2, <2>3 DEF Offer, Tell, TypeOK, LeaseTable, HandlerTable
<1>4. CASE OfferFails(h)
  <2>1. {handler[h].id} \cap ActiveIds \in SUBSET ActiveIds
    OBVIOUS
  <2>2. lease' \in LeaseTable /\ count' \in [Devices -> Nat]
    BY <1>4, <2>1, RemoveCounts DEF OfferFails, LeaseTable
  <2>. QED  BY <1>4, <2>2, RequestEnds
            DEF OfferFails, Finish, TypeOK, LeaseTable, HandlerTable
<1>5. CASE ConnectReplies(h)
  <2>1. handler[h].client \in Devices /\ handler[h].id \in Ids
    BY <1>5, RequestMoves DEF ConnectReplies, Handling, Devices
  <2>2. lease' \in LeaseTable /\ count' = count
    BY <1>5, <2>1, TellType DEF ConnectReplies, TypeOK, LeaseTable
  <2>. QED  BY <1>5, <2>2, RequestEnds
            DEF ConnectReplies, Finish, TypeOK, LeaseTable, HandlerTable
<1>6. CASE PeersChecked(h)
  <2>1. handler' \in HandlerTable
    BY <1>6, RequestMoves DEF PeersChecked, Goto, Steps
  <2>. QED  BY <1>6, <2>1 DEF PeersChecked, TypeOK, HandlerTable
<1>7. CASE PeersRefused(h)
  BY <1>7, RequestEnds DEF PeersRefused, Finish, TypeOK, HandlerTable
<1>8. CASE Apply(h)
  <2>1. handler[h].id \in Ids
    BY <1>8, RequestMoves DEF Apply, Handling
  <2>2. lease' \in LeaseTable
    <3>1. CASE Active(handler[h].id)
      <4>1. /\ lease[handler[h].id].answered \in BOOLEAN
            /\ lease[handler[h].id].expired \in BOOLEAN
        BY <2>1, <3>1, LeaseChanges DEF Leases
      <4>. QED  BY <1>8, <2>1, <3>1, <4>1, LeaseChanges DEF Apply
    <3>2. CASE ~Active(handler[h].id)
      BY <1>8, <3>2 DEF Apply, TypeOK, LeaseTable
    <3>. QED  BY <3>1, <3>2
  <2>. QED  BY <1>8, <2>2, RequestEnds
            DEF Apply, Finish, TypeOK, LeaseTable, HandlerTable
<1>9. CASE CloseSession(h)
  <2>1. {handler[h].id} \cap ActiveIds \in SUBSET ActiveIds
    OBVIOUS
  <2>2. lease' \in LeaseTable /\ count' \in [Devices -> Nat]
    BY <1>9, <2>1, RemoveCounts DEF CloseSession, LeaseTable
  <2>. QED  BY <1>9, <2>2, RequestEnds
            DEF CloseSession, Finish, TypeOK, LeaseTable, HandlerTable
<1>. QED  BY <1>1, <1>2, <1>3, <1>4, <1>5, <1>6, <1>7, <1>8, <1>9 DEF Serve

\* So does the arrival of a request.
LEMMA ReceiveType ==
  ASSUME TypeOK, NEW h \in Handlers, Receive(h)
  PROVE  TypeOK'
<1>. USE DEF Environment, KeepLeases
<1>1. ASSUME NEW c \in Clients, NEW e \in Exits, NEW i \in Ids,
             ConnectChecked(h, c, e, i)
      PROVE  TypeOK'
  <2>1. [at |-> "authorized", op |-> "connect", id |-> i, client |-> c,
         exit |-> e] \in Handling
    BY DEF Handling, Steps, Requests
  <2>. QED  BY <1>1, <2>1 DEF ConnectChecked, TypeOK
<1>2. ASSUME NEW d \in Devices, NEW op \in Requests, NEW i \in Ids,
             RequestFound(h, d, op, i)
      PROVE  TypeOK'
  <2>1. lease[i].client \in Clients /\ lease[i].exit \in Exits
    BY <1>2, LeaseChanges DEF RequestFound, Leases
  <2>2. [at |-> IF op = "close" THEN "closing" ELSE "found", op |-> op,
         id |-> i, client |-> lease[i].client, exit |-> lease[i].exit]
          \in Handling
    BY <2>1 DEF Handling, Steps
  <2>. QED  BY <1>2, <2>2 DEF RequestFound, TypeOK
<1>. QED  BY <1>1, <1>2 DEF Receive

\* What happens without a request keeps the types.
LEMMA OutsideType ==
  ASSUME TypeOK, CountsAgree,
         \/ \E i \in Ids : DropExpired(i) \/ Lapse(i)
         \/ Sweep \/ Close
         \/ \E d \in Devices : Connects(d) \/ Disconnects(d) \/ DisconnectHook(d)
         \/ \E c \in Clients, e \in Exits : GrantChanges(c, e)
         \/ Invalidate \/ RevokeDevice
  PROVE  TypeOK'
<1>. USE DEF Environment, KeepLeases
<1>1. ASSUME NEW S \in SUBSET ActiveIds, Remove(S)
      PROVE  lease' \in LeaseTable /\ count' \in [Devices -> Nat]
  BY <1>1, RemoveCounts DEF LeaseTable
<1>2. ASSUME NEW i \in Ids, DropExpired(i)
      PROVE  TypeOK'
  <2>1. {i} \in SUBSET ActiveIds
    BY <1>2 DEF DropExpired, ActiveIds
  <2>. QED  BY <1>1, <1>2, <2>1 DEF DropExpired, TypeOK, LeaseTable
<1>3. ASSUME NEW i \in Ids, Lapse(i)
      PROVE  TypeOK'
  BY <1>3, LeaseChanges DEF Lapse, TypeOK, LeaseTable
<1>4. CASE Sweep
  <2>1. Expired \in SUBSET ActiveIds
    BY DEF Expired
  <2>. QED  BY <1>1, <1>4, <2>1 DEF Sweep, TypeOK, LeaseTable
<1>5. CASE Close
  BY <1>1, <1>5 DEF Close, TypeOK, LeaseTable
<1>6. ASSUME NEW d \in Devices, Connects(d)
      PROVE  TypeOK'
  BY <1>6 DEF Connects, TypeOK
<1>7. ASSUME NEW d \in Devices, Disconnects(d)
      PROVE  TypeOK'
  BY <1>7 DEF Disconnects, TypeOK
<1>8. ASSUME NEW d \in Devices, DisconnectHook(d)
      PROVE  TypeOK'
  <2>1. LeasesOf(d) \in SUBSET ActiveIds
    BY DEF LeasesOf
  <2>. QED  BY <1>1, <1>8, <2>1 DEF DisconnectHook, TypeOK, LeaseTable
<1>9. ASSUME NEW c \in Clients, NEW e \in Exits, GrantChanges(c, e)
      PROVE  TypeOK'
  BY <1>9 DEF GrantChanges, TypeOK, Changes
<1>10. CASE Invalidate
  <2>1. admin \in Changes
    <3>1. admin \in Changes \cup {NoChange} /\ admin.at = "committed"
      BY <1>10 DEF Invalidate, TypeOK
    <3>2. NoChange.at = "idle"
      BY DEF NoChange
    <3>. QED  BY <3>1, <3>2
  <2>2. [admin EXCEPT !.at = "invalidated"] \in Changes
    BY <2>1 DEF Changes
  <2>. QED  BY <1>10, <2>2 DEF Invalidate, TypeOK
<1>11. CASE RevokeDevice
  <2>1. LeasesOf(admin.client) \in SUBSET ActiveIds
    BY DEF LeasesOf
  <2>. QED  BY <1>1, <1>11, <2>1 DEF RevokeDevice, TypeOK, LeaseTable
<1>. QED  BY <1>2, <1>3, <1>4, <1>5, <1>6, <1>7, <1>8, <1>9, <1>10, <1>11

-----------------------------------------------------------------------------
(* The counts                                                               *)

\* An insertion charges both peers for one more lease.
LEMMA InsertCounts ==
  ASSUME TypeOK, CountsAgree, Reserved, NEW h \in Handlers, ConnectInsert(h)
  PROVE  CountsAgree'
<1>. DEFINE r == handler[h]
            l == [client |-> r.client, exit |-> r.exit, expired |-> FALSE,
                  answered |-> FALSE, told |-> {}]
<1>1. r \in Handling /\ r.id \in Ids /\ r.client \in Devices /\ r.exit \in Devices
  BY RequestMoves DEF ConnectInsert, Handling, Devices
<1>2. r.client # r.exit /\ ~Active(r.id)
  BY DEF ConnectInsert, Reserved
<1>3. l \in Leases
  BY <1>1 DEF Handling, Leases
<1>4. l # NoLease
  BY <1>3, LeaseIsNoLease
<1>5. lease' = [lease EXCEPT ![r.id] = l]
  BY DEF ConnectInsert
<1>6. l.client = r.client /\ l.exit = r.exit
  OBVIOUS
<1>. HIDE DEF l
<1>7. ASSUME NEW d \in Devices
      PROVE  LeasesOf(d)' = IF d \in {r.client, r.exit}
                            THEN LeasesOf(d) \cup {r.id} ELSE LeasesOf(d)
  <2>1. \A i \in Ids : Active(i)' <=> (Active(i) \/ i = r.id)
    BY <1>1, <1>4, <1>5 DEF Active, TypeOK
  <2>2. \A i \in Ids : lease'[i] = IF i = r.id THEN l ELSE lease[i]
    BY <1>5 DEF TypeOK
  <2>. QED  BY <1>1, <1>2, <1>6, <2>1, <2>2 DEF LeasesOf, ActiveIds, IsPeer
<1>8. ASSUME NEW d \in Devices
      PROVE  r.id \notin LeasesOf(d)
  BY <1>2 DEF LeasesOf, ActiveIds
<1>9. ASSUME NEW d \in Devices
      PROVE  Cardinality(LeasesOf(d)') = IF d \in {r.client, r.exit}
                             THEN Cardinality(LeasesOf(d)) + 1
                             ELSE Cardinality(LeasesOf(d))
  BY <1>7, <1>8, LeasesAreFinite, FS_AddElement
<1>10. ASSUME NEW d \in Devices
       PROVE  count'[d] = IF d \in {r.client, r.exit} THEN count[d] + 1 ELSE count[d]
  BY <1>1, <1>2 DEF ConnectInsert, TypeOK
<1>11. count[r.client] < MaxPerDevice /\ count[r.exit] < MaxPerDevice
  BY DEF ConnectInsert, HasRoom
<1>12. ASSUME NEW d \in Devices
       PROVE  count'[d] = Cardinality(LeasesOf(d)') /\ count'[d] <= MaxPerDevice
  <2>1. count[d] = Cardinality(LeasesOf(d)) /\ count[d] <= MaxPerDevice
        /\ count[d] \in Nat
    BY DEF CountsAgree, TypeOK
  <2>2. MaxPerDevice \in Nat
    BY LeasesAssumption
  <2>. QED  BY <1>9, <1>10, <1>11, <2>1, <2>2
<1>. QED  BY <1>12 DEF CountsAgree

\* So does a step that changes a lease, but not its peers.
LEMMA CountsKeptIn ==
  ASSUME TypeOK, CountsAgree, count' = count, NEW k \in Ids,
         lease[k] \in Leases, lease'[k] \in Leases,
         lease'[k].client = lease[k].client, lease'[k].exit = lease[k].exit,
         \A j \in Ids \ {k} : lease'[j] = lease[j]
  PROVE  CountsAgree'
<1>1. \A j \in Ids : /\ Active(j)' <=> Active(j)
                      /\ lease'[j].client = lease[j].client
                      /\ lease'[j].exit = lease[j].exit
  BY LeaseIsNoLease DEF Active
<1>. QED  BY <1>1, CountsKept

\* Whatever happens, the counts agree.
LEMMA CountsStep ==
  ASSUME TypeOK, CountsAgree, Reserved, Next
  PROVE  CountsAgree'
<1>. USE DEF Environment, KeepLeases
<1>1. ASSUME NEW S \in SUBSET ActiveIds, Remove(S)
      PROVE  CountsAgree'
  BY <1>1, RemoveCounts
<1>2. ASSUME UNCHANGED <<lease, count>>
      PROVE  CountsAgree'
  BY <1>2, CountsKept DEF Active
<1>3. ASSUME NEW h \in Handlers, Receive(h)
      PROVE  CountsAgree'
  BY <1>2, <1>3 DEF Receive, ConnectChecked, RequestFound
<1>4. ASSUME NEW i \in Ids, NEW d \in Devices, Tell(d, i)
      PROVE  CountsAgree'
  <2>1. CASE Active(i)
    <3>1. lease[i] \in Leases
      BY <2>1, LeaseChanges
    <3>2. /\ lease'[i].client = lease[i].client
          /\ lease'[i].exit = lease[i].exit
          /\ lease'[i] \in Leases
          /\ \A j \in Ids \ {i} : lease'[j] = lease[j]
      BY <1>4, <2>1, <3>1 DEF Tell, Leases, TypeOK
    <3>3. count' = count
      BY <1>4 DEF Tell
    <3>. QED  BY <3>1, <3>2, <3>3, CountsKeptIn
  <2>2. CASE ~Active(i)
    BY <1>2, <1>4, <2>2 DEF Tell
  <2>. QED  BY <2>1, <2>2
<1>5. ASSUME NEW h \in Handlers, Serve(h)
      PROVE  CountsAgree'
  <2>1. CASE ConnectInsert(h)
    BY <2>1, InsertCounts
  <2>2. CASE ConnectRefused(h) \/ PeersChecked(h) \/ PeersRefused(h)
    BY <1>2, <2>2 DEF ConnectRefused, PeersChecked, PeersRefused
  <2>3. CASE Offer(h)
    <3>1. handler[h].exit \in Devices /\ handler[h].id \in Ids
      BY <2>3, RequestMoves DEF Offer, Handling, Devices
    <3>. QED  BY <1>4, <2>3, <3>1 DEF Offer
  <2>4. CASE OfferFails(h) \/ CloseSession(h)
    <3>1. {handler[h].id} \cap ActiveIds \in SUBSET ActiveIds
      OBVIOUS
    <3>. QED  BY <1>1, <2>4, <3>1 DEF OfferFails, CloseSession
  <2>5. CASE ConnectReplies(h)
    <3>1. handler[h].client \in Devices /\ handler[h].id \in Ids
      BY <2>5, RequestMoves DEF ConnectReplies, Handling, Devices
    <3>. QED  BY <1>2, <1>4, <2>5, <3>1 DEF ConnectReplies
  <2>6. CASE Apply(h)
    <3>. DEFINE k == handler[h].id
    <3>1. k \in Ids
      BY <2>6, RequestMoves DEF Apply, Handling
    <3>2. CASE Active(k)
      <4>1. lease[k] \in Leases
        BY <3>1, <3>2, LeaseChanges
      <4>2. /\ lease'[k].client = lease[k].client
            /\ lease'[k].exit = lease[k].exit
            /\ lease'[k] \in Leases
        BY <2>6, <3>1, <3>2, <4>1 DEF Apply, Leases, TypeOK
      <4>3. \A j \in Ids \ {k} : lease'[j] = lease[j]
        BY <2>6, <3>1, <3>2 DEF Apply, TypeOK
      <4>4. count' = count
        BY <2>6 DEF Apply
      <4>. HIDE DEF k
      <4>. QED  BY <3>1, <4>1, <4>2, <4>3, <4>4, CountsKeptIn
    <3>3. CASE ~Active(k)
      BY <1>2, <2>6, <3>3 DEF Apply
    <3>. QED  BY <3>2, <3>3
  <2>. QED  BY <1>5, <2>1, <2>2, <2>3, <2>4, <2>5, <2>6 DEF Serve
<1>6. ASSUME NEW i \in Ids, DropExpired(i)
      PROVE  CountsAgree'
  <2>1. {i} \in SUBSET ActiveIds
    BY <1>6 DEF DropExpired, ActiveIds
  <2>. QED  BY <1>1, <1>6, <2>1 DEF DropExpired
<1>7. ASSUME NEW i \in Ids, Lapse(i)
      PROVE  CountsAgree'
  <2>1. lease[i] \in Leases /\ lease'[i] \in Leases
    BY <1>7, LeaseChanges DEF Lapse, Leases, TypeOK
  <2>2. /\ lease'[i].client = lease[i].client
        /\ lease'[i].exit = lease[i].exit
        /\ \A j \in Ids \ {i} : lease'[j] = lease[j]
    BY <1>7, <2>1 DEF Lapse, Leases, TypeOK
  <2>3. count' = count
    BY <1>7 DEF Lapse
  <2>. QED  BY <2>1, <2>2, <2>3, CountsKeptIn
<1>8. CASE Sweep \/ Close \/ RevokeDevice
  <2>1. Expired \in SUBSET ActiveIds /\ LeasesOf(admin.client) \in SUBSET ActiveIds
    BY DEF Expired, LeasesOf
  <2>. QED  BY <1>1, <1>8, <2>1 DEF Sweep, Close, RevokeDevice
<1>9. ASSUME NEW d \in Devices, Connects(d) \/ Disconnects(d) \/ DisconnectHook(d)
      PROVE  CountsAgree'
  <2>1. LeasesOf(d) \in SUBSET ActiveIds
    BY DEF LeasesOf
  <2>. QED  BY <1>1, <1>2, <1>9, <2>1 DEF Connects, Disconnects, DisconnectHook
<1>10. CASE Invalidate \/ \E c \in Clients, e \in Exits : GrantChanges(c, e)
  BY <1>2, <1>10 DEF Invalidate, GrantChanges
<1>. QED  BY <1>3, <1>5, <1>6, <1>7, <1>8, <1>9, <1>10 DEF Next

-----------------------------------------------------------------------------
(* Requests and leases                                                      *)

\* A lease that is there afterwards was there before, between the same peers,
\* and was answered before if it is now.
NoNewLease ==
  \A i \in Ids : Active(i)' =>
    /\ Active(i)
    /\ lease'[i].client = lease[i].client
    /\ lease'[i].exit = lease[i].exit
    /\ lease'[i].answered => lease[i].answered

\* A request ends, stays, or moves where it needs no lease.
NoNewCheck ==
  \A h \in Handlers :
    \/ handler'[h] = handler[h]
    \/ handler'[h] = Idle
    \/ /\ handler[h] \in Handling /\ handler'[h] \in Handling
       /\ handler'[h].id = handler[h].id
       /\ handler'[h].at \in {"offered", "closing"}

\* Two peers that have a lease keep what protects it.
ProtectionStays ==
  \A i \in Ids : Active(i)' =>
    \A c, e : c = lease[i].client /\ e = lease[i].exit /\ Protected(c, e)
               => Protected(c, e)'

\* The absent request is at no step.
LEMMA IdleIsNowhere ==
  /\ Idle.at = "idle" /\ Idle.id = ""
  /\ Idle.at \notin Steps
BY DEF Idle, Steps

\* AnsweredIsAuthorized in terms of Protected.
LEMMA AnsweredMeans ==
  AnsweredIsAuthorized <=>
    \A i \in Ids : Active(i) /\ lease[i].answered =>
                    Protected(lease[i].client, lease[i].exit)
BY DEF AnsweredIsAuthorized, ActiveIds, Protected

\* The same of the next state.
LEMMA AnsweredMeansNext ==
  AnsweredIsAuthorized' <=>
    \A i \in Ids : Active(i)' /\ lease'[i].answered =>
                    Protected(lease[i].client, lease[i].exit)'
BY DEF AnsweredIsAuthorized, ActiveIds, Protected

\* A step that makes no new lease and no new check keeps what is known of
\* requests and leases.
LEMMA Carried ==
  ASSUME IInv, NoNewLease, NoNewCheck, ProtectionStays, TypeOK'
  PROVE  Reserved' /\ RequestsMatch' /\ ChecksStand' /\ AnsweredIsAuthorized'
<1>1. ASSUME NEW h \in Handlers, handler'[h].at \in {"authorized", "found", "checked"}
      PROVE  handler'[h] = handler[h] /\ handler[h].id \in Ids
  <2>1. handler'[h] = handler[h]
    BY <1>1, IdleIsNowhere DEF NoNewCheck, Steps
  <2>2. handler[h].at # "idle"
    BY <1>1, <2>1
  <2>. QED  BY <2>1, <2>2, RequestMoves DEF IInv, Handling
<1>2. ASSUME NEW g \in Handlers, NEW i, i # Idle.id, handler[g].id # i
      PROVE  handler'[g].id # i
  BY <1>2 DEF NoNewCheck
<1>3. Reserved'
  <2>1. ASSUME NEW h \in Handlers, handler'[h].at = "authorized"
        PROVE  /\ handler'[h].client # handler'[h].exit
               /\ handler'[h].id # Idle.id
               /\ ~Active(handler[h].id)'
               /\ \A g \in Handlers : g # h => handler'[g].id # handler'[h].id
    <3>1. handler'[h] = handler[h] /\ handler[h].id \in Ids
      BY <1>1, <2>1
    <3>2. /\ handler[h].client # handler[h].exit
          /\ handler[h].id # Idle.id
          /\ ~Active(handler[h].id)
          /\ \A g \in Handlers : g # h => handler[g].id # handler[h].id
      BY <2>1, <3>1 DEF IInv, Reserved
    <3>3. ~Active(handler[h].id)'
      BY <3>1, <3>2 DEF NoNewLease, Active
    <3>. QED  BY <1>2, <3>1, <3>2, <3>3 DEF Active
  <2>. QED  BY <2>1 DEF Reserved, Active, Idle
<1>4. RequestsMatch'
  <2>1. ASSUME NEW h \in Handlers, handler'[h].at \in {"found", "checked"},
               Active(handler[h].id)'
        PROVE  /\ lease'[handler'[h].id].client = handler'[h].client
               /\ lease'[handler'[h].id].exit = handler'[h].exit
    BY <1>1, <2>1 DEF NoNewLease, IInv, RequestsMatch, Active
  <2>. QED  BY <2>1 DEF RequestsMatch, Active
<1>5. ChecksStand'
  <2>1. ASSUME NEW h \in Handlers, handler'[h].at = "checked",
               Active(handler[h].id)'
        PROVE  Protected(handler[h].client, handler[h].exit)'
    <3>1. handler'[h] = handler[h] /\ handler[h].id \in Ids
      BY <1>1, <2>1
    <3>2. Active(handler[h].id)' /\ Active(handler[h].id)
      BY <2>1, <3>1 DEF NoNewLease, Active
    <3>3. Protected(handler[h].client, handler[h].exit)
      BY <2>1, <3>1, <3>2 DEF IInv, ChecksStand
    <3>4. /\ lease[handler[h].id].client = handler[h].client
          /\ lease[handler[h].id].exit = handler[h].exit
      BY <2>1, <3>1, <3>2 DEF IInv, RequestsMatch
    <3>5. ASSUME NEW c, NEW e, c = handler[h].client, e = handler[h].exit
          PROVE  Protected(c, e)'
      <4>1. c = lease[handler[h].id].client /\ e = lease[handler[h].id].exit
        BY <3>4, <3>5
      <4>2. Protected(c, e)
        BY <3>3, <3>5
      <4>3. \E i \in Ids : /\ Active(i)'
                           /\ c = lease[i].client /\ e = lease[i].exit
        BY <3>1, <3>2, <4>1 DEF Active
      <4>. QED  BY <4>2, <4>3 DEF ProtectionStays
    <3>. QED  BY <3>1, <3>5 DEF Protected, Present, Enforcing, Revoking
  <2>. QED  BY <2>1 DEF ChecksStand, Active
<1>6. AnsweredIsAuthorized'
  <2>1. ASSUME NEW i \in Ids, Active(i)', lease'[i].answered
        PROVE  Protected(lease[i].client, lease[i].exit)'
    <3>1. Active(i) /\ lease[i].answered
      BY <2>1 DEF NoNewLease
    <3>2. Protected(lease[i].client, lease[i].exit)
      BY <3>1, AnsweredMeans DEF IInv
    <3>3. ASSUME NEW c, NEW e, c = lease[i].client, e = lease[i].exit
          PROVE  Protected(c, e)'
      BY <2>1, <3>2, <3>3 DEF ProtectionStays
    <3>4. lease'[i].client = lease[i].client /\ lease'[i].exit = lease[i].exit
      BY <2>1 DEF NoNewLease
    <3>. QED  BY <3>3, <3>4 DEF Protected, Present, Enforcing, Revoking
  <2>. QED  BY <2>1, AnsweredMeansNext
<1>. QED  BY <1>3, <1>4, <1>5, <1>6

-----------------------------------------------------------------------------
(* Steps of requests                                                        *)

\* While the environment stands still, so does every protection.
LEMMA StillProtected ==
  ASSUME UNCHANGED Environment
  PROVE  /\ ProtectionStays
         /\ \A c, e : Protected(c, e)' <=> Protected(c, e)
<1>1. /\ online' = online /\ hook' = hook /\ allowed' = allowed /\ admin' = admin
  BY DEF Environment
<1>. QED  BY <1>1 DEF Protected, Present, Enforcing, Revoking, ProtectionStays

Relations == Reserved /\ RequestsMatch /\ ChecksStand /\ AnsweredIsAuthorized

\* A connect that has passed its checks has an id of its own.
LEMMA ConnectCheckedStep ==
  ASSUME IInv, NEW h \in Handlers, NEW c \in Clients, NEW e \in Exits,
         NEW i \in Ids, ConnectChecked(h, c, e, i)
  PROVE  Relations'
<1>. DEFINE r == [at |-> "authorized", op |-> "connect", id |-> i,
                  client |-> c, exit |-> e]
<1>1. /\ lease' = lease /\ UNCHANGED Environment
      /\ \A g \in Handlers \ {h} : handler'[g] = handler[g]
      /\ handler'[h] = r
  BY DEF ConnectChecked, KeepLeases, IInv, TypeOK
<1>2. /\ handler[h] = Idle /\ c # e /\ ~Active(i)
      /\ \A g \in Handlers : handler[g].id # i
  BY DEF ConnectChecked, Fresh
<1>3. r.at = "authorized" /\ r.id = i /\ r.client = c /\ r.exit = e
  OBVIOUS
<1>. HIDE DEF r
<1>4. \A j : Active(j)' <=> Active(j)
  BY <1>1 DEF Active
<1>5. Reserved'
  <2>1. ASSUME NEW g \in Handlers, handler'[g].at = "authorized"
        PROVE  /\ handler'[g].client # handler'[g].exit
               /\ handler'[g].id # Idle.id
               /\ lease'[handler'[g].id] = NoLease
               /\ \A k \in Handlers : k # g => handler'[k].id # handler'[g].id
    <3>1. CASE g = h
      BY <1>1, <1>2, <1>3, <3>1 DEF Active
    <3>2. CASE g # h
      BY <1>1, <1>2, <1>3, <2>1, <3>2 DEF IInv, Reserved, Active
    <3>. QED  BY <3>1, <3>2
  <2>. QED  BY <2>1 DEF Reserved, Active, Idle
<1>6. RequestsMatch'
  BY <1>1, <1>3 DEF IInv, RequestsMatch, Active
<1>7. ChecksStand'
  <2>1. ASSUME NEW g \in Handlers, handler'[g].at = "checked",
               lease'[handler'[g].id] # NoLease
        PROVE  Protected(handler[g].client, handler[g].exit)'
    <3>1. handler'[g] = handler[g]
      BY <1>1, <1>3, <2>1
    <3>2. Protected(handler[g].client, handler[g].exit)
      BY <1>1, <2>1, <3>1 DEF IInv, ChecksStand, Active
    <3>. QED  BY <1>1, <3>1, <3>2
              DEF Protected, Present, Enforcing, Revoking, Environment
  <2>. QED  BY <2>1 DEF ChecksStand, Active
<1>8. AnsweredIsAuthorized'
  BY <1>1 DEF IInv, AnsweredIsAuthorized, ActiveIds, Active, Present, Enforcing,
              Revoking, Environment
<1>. QED  BY <1>5, <1>6, <1>7, <1>8 DEF Relations

\* The new lease is nobody's but the handler's that inserts it.
LEMMA ConnectInsertStep ==
  ASSUME IInv, NEW h \in Handlers, ConnectInsert(h)
  PROVE  Relations'
<1>. DEFINE r == handler[h]
            l == [client |-> r.client, exit |-> r.exit, expired |-> FALSE,
                  answered |-> FALSE, told |-> {}]
<1>1. /\ r \in Handling /\ r.id \in Ids /\ r.at = "authorized"
      /\ \A g \in Handlers : g # h => handler[g].id # r.id
  BY RequestMoves DEF ConnectInsert, IInv, Reserved, Handling
<1>2. /\ UNCHANGED Environment
      /\ \A g \in Handlers \ {h} : handler'[g] = handler[g]
      /\ handler'[h] = [r EXCEPT !.at = "inserted"]
  BY DEF ConnectInsert, Goto, IInv, TypeOK
<1>3. handler'[h].at = "inserted" /\ handler'[h].id = r.id
  BY <1>1, <1>2 DEF Handling
<1>4. \A i \in Ids : lease'[i] = IF i = r.id THEN l ELSE lease[i]
  BY <1>1 DEF ConnectInsert, IInv, TypeOK
<1>5. l.answered = FALSE
  OBVIOUS
<1>6. ASSUME NEW g \in Handlers, g # h, handler[g].at \in Steps
      PROVE  /\ handler[g].id \in Ids /\ handler'[g] = handler[g]
             /\ lease'[handler[g].id] = lease[handler[g].id]
  <2>1. handler[g].id \in Ids
    BY <1>6, RequestMoves DEF IInv, Handling, Steps
  <2>. QED  BY <1>1, <1>2, <1>4, <1>6, <2>1
<1>. HIDE DEF l
<1>7. Reserved'
  <2>1. ASSUME NEW g \in Handlers, handler'[g].at = "authorized"
        PROVE  /\ handler'[g].client # handler'[g].exit
               /\ handler'[g].id # Idle.id
               /\ lease'[handler'[g].id] = NoLease
               /\ \A k \in Handlers : k # g => handler'[k].id # handler'[g].id
    <3>1. g # h
      BY <1>3, <2>1
    <3>2. handler'[g] = handler[g] /\ lease'[handler[g].id] = lease[handler[g].id]
      BY <1>2, <1>6, <2>1, <3>1 DEF Steps
    <3>3. \A k \in Handlers : handler'[k].id = handler[k].id
      BY <1>2, <1>3
    <3>. QED  BY <2>1, <3>2, <3>3 DEF IInv, Reserved, Active
  <2>. QED  BY <2>1 DEF Reserved, Active, Idle
<1>8. RequestsMatch'
  <2>1. ASSUME NEW g \in Handlers, handler'[g].at \in {"found", "checked"},
               lease'[handler'[g].id] # NoLease
        PROVE  /\ lease'[handler'[g].id].client = handler'[g].client
               /\ lease'[handler'[g].id].exit = handler'[g].exit
    <3>1. g # h
      BY <1>3, <2>1
    <3>2. handler'[g] = handler[g] /\ lease'[handler[g].id] = lease[handler[g].id]
      BY <1>2, <1>6, <2>1, <3>1 DEF Steps
    <3>. QED  BY <2>1, <3>2 DEF IInv, RequestsMatch, Active
  <2>. QED  BY <2>1 DEF RequestsMatch, Active
<1>9. ChecksStand'
  <2>1. ASSUME NEW g \in Handlers, handler'[g].at = "checked",
               lease'[handler'[g].id] # NoLease
        PROVE  Protected(handler[g].client, handler[g].exit)'
    <3>1. g # h
      BY <1>3, <2>1
    <3>2. handler'[g] = handler[g] /\ lease'[handler[g].id] = lease[handler[g].id]
      BY <1>2, <1>6, <2>1, <3>1 DEF Steps
    <3>3. Protected(handler[g].client, handler[g].exit)
      BY <2>1, <3>2 DEF IInv, ChecksStand, Active
    <3>. QED  BY <1>2, <3>2, <3>3
              DEF Protected, Present, Enforcing, Revoking, Environment
  <2>. QED  BY <2>1 DEF ChecksStand, Active
<1>10. AnsweredIsAuthorized'
  <2>1. ASSUME NEW i \in Ids, Active(i)', lease'[i].answered
        PROVE  Protected(lease[i].client, lease[i].exit)'
    <3>1. lease'[i] = lease[i]
      BY <1>4, <1>5, <2>1
    <3>2. Protected(lease[i].client, lease[i].exit)
      BY <2>1, <3>1, AnsweredMeans DEF IInv, Active
    <3>. QED  BY <1>2, <3>1, <3>2
              DEF Protected, Present, Enforcing, Revoking, Environment
  <2>. QED  BY <2>1, AnsweredMeansNext
<1>. QED  BY <1>7, <1>8, <1>9, <1>10 DEF Relations

\* A request that moves to another step on the lease it has, or finds one.
LEMMA RequestStep ==
  ASSUME IInv, lease' = lease, UNCHANGED Environment, NEW h \in Handlers,
         \A g \in Handlers \ {h} : handler'[g] = handler[g],
         handler'[h].at # "authorized",
         \A g \in Handlers : handler[g].at = "authorized" =>
                             g # h /\ handler'[h].id # handler[g].id,
         handler'[h].at \in {"found", "checked"} /\ lease[handler'[h].id] # NoLease =>
           /\ lease[handler'[h].id].client = handler'[h].client
           /\ lease[handler'[h].id].exit = handler'[h].exit,
         handler'[h].at = "checked" /\ lease[handler'[h].id] # NoLease =>
           Protected(handler[h].client, handler[h].exit)'
  PROVE  Relations'
<1>1. Reserved'
  <2>1. \A g \in Handlers : handler'[g].at = "authorized" =>
                            g # h /\ handler'[g] = handler[g]
    OBVIOUS
  <2>2. ASSUME NEW g \in Handlers, handler'[g].at = "authorized"
        PROVE  /\ handler[g].client # handler[g].exit
               /\ handler[g].id # Idle.id
               /\ lease[handler[g].id] = NoLease
               /\ \A k \in Handlers : k # g => handler[k].id # handler[g].id
    BY <2>1, <2>2 DEF IInv, Reserved, Active
  <2>3. ASSUME NEW g \in Handlers, handler'[g].at = "authorized",
               NEW k \in Handlers, k # g
        PROVE  handler'[k].id # handler'[g].id
    <3>1. CASE k = h
      BY <2>1, <2>3, <3>1
    <3>2. CASE k # h
      BY <2>1, <2>2, <2>3, <3>2
    <3>. QED  BY <3>1, <3>2
  <2>. QED  BY <2>1, <2>2, <2>3 DEF Reserved, Active
<1>2. RequestsMatch'
  <2>1. ASSUME NEW g \in Handlers, handler'[g].at \in {"found", "checked"},
               lease[handler'[g].id] # NoLease
        PROVE  /\ lease[handler'[g].id].client = handler'[g].client
               /\ lease[handler'[g].id].exit = handler'[g].exit
    <3>1. CASE g = h
      BY <2>1, <3>1
    <3>2. CASE g # h
      <4>1. handler'[g] = handler[g]
        BY <3>2
      <4>. QED  BY <2>1, <4>1 DEF IInv, RequestsMatch, Active
    <3>. QED  BY <3>1, <3>2
  <2>. QED  BY <2>1 DEF RequestsMatch, Active
<1>3. ChecksStand'
  <2>1. ASSUME NEW g \in Handlers, handler'[g].at = "checked",
               lease'[handler'[g].id] # NoLease
        PROVE  Protected(handler[g].client, handler[g].exit)'
    <3>1. CASE g = h
      BY <2>1, <3>1
    <3>2. CASE g # h
      <4>1. Protected(handler[g].client, handler[g].exit)
        BY <2>1, <3>2 DEF IInv, ChecksStand, Active
      <4>. QED  BY <3>2, <4>1
                DEF Protected, Present, Enforcing, Revoking, Environment
    <3>. QED  BY <3>1, <3>2
  <2>. QED  BY <2>1 DEF ChecksStand, Active
<1>4. AnsweredIsAuthorized'
  BY DEF IInv, AnsweredIsAuthorized, ActiveIds, Active, Present, Enforcing,
         Revoking, Environment
<1>. QED  BY <1>1, <1>2, <1>3, <1>4 DEF Relations

\* The first critical section finds the lease of its peers.
LEMMA RequestFoundStep ==
  ASSUME IInv, NEW h \in Handlers, NEW d \in Devices, NEW op \in Requests,
         NEW i \in Ids, RequestFound(h, d, op, i)
  PROVE  Relations'
<1>. DEFINE r == [at |-> IF op = "close" THEN "closing" ELSE "found", op |-> op,
                  id |-> i, client |-> lease[i].client, exit |-> lease[i].exit]
<1>1. /\ lease' = lease /\ UNCHANGED Environment
      /\ \A g \in Handlers \ {h} : handler'[g] = handler[g]
      /\ handler'[h] = r
  BY DEF RequestFound, KeepLeases, IInv, TypeOK
<1>2. handler[h] = Idle /\ Active(i)
  BY DEF RequestFound
<1>3. /\ r.at \in {"closing", "found"} /\ r.id = i
      /\ r.client = lease[i].client /\ r.exit = lease[i].exit
  OBVIOUS
<1>. HIDE DEF r
<1>4. handler[h].at # "authorized"
  BY <1>2, IdleIsNowhere
<1>5. \A g \in Handlers : handler[g].at = "authorized" =>
                          g # h /\ handler'[h].id # handler[g].id
  BY <1>1, <1>2, <1>3, <1>4 DEF IInv, Reserved
<1>6. handler'[h].at # "authorized" /\ handler'[h].at # "checked"
  BY <1>1, <1>3
<1>7. /\ lease[handler'[h].id].client = handler'[h].client
      /\ lease[handler'[h].id].exit = handler'[h].exit
  BY <1>1, <1>3
<1>. QED  BY <1>1, <1>5, <1>6, <1>7, RequestStep

\* Both peers were online and the pair authorized at this moment.
LEMMA PeersCheckedStep ==
  ASSUME IInv, NEW h \in Handlers, PeersChecked(h)
  PROVE  Relations'
<1>1. /\ lease' = lease /\ UNCHANGED Environment
      /\ \A g \in Handlers \ {h} : handler'[g] = handler[g]
  BY DEF PeersChecked, KeepLeases, Goto, IInv, TypeOK
<1>2. handler[h].at = "found" /\ handler[h] \in Handling
  BY RequestMoves DEF PeersChecked, IInv
<1>3. /\ handler'[h].at \in {"checked", "closing"}
      /\ handler'[h].id = handler[h].id
      /\ handler'[h].client = handler[h].client
      /\ handler'[h].exit = handler[h].exit
      /\ handler'[h].at = "checked" => <<handler[h].client, handler[h].exit>> \in allowed
  BY <1>2 DEF PeersChecked, Goto, IInv, TypeOK, Handling
<1>4. \A g \in Handlers : handler[g].at = "authorized" =>
                          g # h /\ handler'[h].id # handler[g].id
  BY <1>2, <1>3 DEF IInv, Reserved
<1>5. lease[handler'[h].id] # NoLease =>
        /\ lease[handler'[h].id].client = handler'[h].client
        /\ lease[handler'[h].id].exit = handler'[h].exit
  BY <1>2, <1>3 DEF IInv, RequestsMatch, Active
<1>6. handler'[h].at = "checked" => Protected(handler[h].client, handler[h].exit)'
  BY <1>1, <1>3 DEF PeersChecked, BothOnline, Protected, Present, Environment
<1>7. handler'[h].at # "authorized"
  BY <1>3
<1>. QED  BY <1>1, <1>4, <1>5, <1>6, <1>7, RequestStep

\* An answer reaches a lease whose check stands.
LEMMA ApplyStep ==
  ASSUME IInv, NEW h \in Handlers, Apply(h)
  PROVE  Relations'
<1>. DEFINE k == handler[h].id
<1>1. /\ handler[h].at = "checked" /\ handler[h] \in Handling /\ k \in Ids
      /\ UNCHANGED Environment
  BY RequestMoves DEF Apply, IInv, Handling
<1>2. \A g \in Handlers : handler'[g] = IF g = h THEN Idle ELSE handler[g]
  BY DEF Apply, Finish, IInv, TypeOK
<1>3. \A i \in Ids \ {k} : lease'[i] = lease[i]
  BY DEF Apply, IInv, TypeOK
<1>4. ~Active(k) => lease' = lease
  BY DEF Apply
<1>5. Active(k) => /\ lease[k] \in Leases /\ lease'[k] \in Leases
                   /\ lease'[k].client = lease[k].client
                   /\ lease'[k].exit = lease[k].exit
  <2>1. CASE Active(k)
    <3>1. lease[k] \in Leases
      BY <1>1, <2>1, LeaseChanges DEF IInv
    <3>. QED  BY <1>1, <2>1, <3>1 DEF Apply, Leases, IInv, TypeOK
  <2>. QED  BY <2>1
<1>6. \A i \in Ids : /\ Active(i)' <=> Active(i)
                      /\ lease'[i].client = lease[i].client
                      /\ lease'[i].exit = lease[i].exit
  BY <1>1, <1>3, <1>4, <1>5, LeaseIsNoLease DEF Active
<1>7. \A g \in Handlers : handler'[g].at \in Steps =>
                          g # h /\ handler'[g] = handler[g] /\ handler[g].id \in Ids
  <2>1. ASSUME NEW g \in Handlers, handler'[g].at \in Steps
        PROVE  g # h /\ handler'[g] = handler[g] /\ handler[g].id \in Ids
    <3>1. g # h /\ handler'[g] = handler[g]
      BY <1>2, <2>1, IdleIsNowhere
    <3>2. handler[g].at # "idle"
      BY <2>1, <3>1 DEF Steps
    <3>. QED  BY <3>1, <3>2, RequestMoves DEF IInv, Handling
  <2>. QED  BY <2>1
<1>8. Reserved'
  <2>1. ASSUME NEW g \in Handlers, handler'[g].at = "authorized"
        PROVE  /\ handler'[g].client # handler'[g].exit
               /\ handler'[g].id # Idle.id
               /\ lease'[handler'[g].id] = NoLease
               /\ \A j \in Handlers : j # g => handler'[j].id # handler'[g].id
    <3>1. g # h /\ handler'[g] = handler[g] /\ handler[g].id \in Ids
      BY <1>7, <2>1 DEF Steps
    <3>2. /\ handler[g].client # handler[g].exit
          /\ handler[g].id # Idle.id
          /\ ~Active(handler[g].id)
          /\ \A j \in Handlers : j # g => handler[j].id # handler[g].id
      BY <2>1, <3>1 DEF IInv, Reserved
    <3>3. lease'[handler[g].id] = NoLease
      BY <1>6, <3>1, <3>2 DEF Active
    <3>. QED  BY <1>2, <3>1, <3>2, <3>3
  <2>. QED  BY <2>1 DEF Reserved, Active, Idle
<1>9. RequestsMatch'
  <2>1. ASSUME NEW g \in Handlers, handler'[g].at \in {"found", "checked"},
               lease'[handler'[g].id] # NoLease
        PROVE  /\ lease'[handler'[g].id].client = handler'[g].client
               /\ lease'[handler'[g].id].exit = handler'[g].exit
    <3>1. g # h /\ handler'[g] = handler[g] /\ handler[g].id \in Ids
      BY <1>7, <2>1 DEF Steps
    <3>. QED  BY <1>6, <2>1, <3>1 DEF IInv, RequestsMatch, Active
  <2>. QED  BY <2>1 DEF RequestsMatch, Active
<1>10. ChecksStand'
  <2>1. ASSUME NEW g \in Handlers, handler'[g].at = "checked",
               lease'[handler'[g].id] # NoLease
        PROVE  Protected(handler[g].client, handler[g].exit)'
    <3>1. g # h /\ handler'[g] = handler[g] /\ handler[g].id \in Ids
      BY <1>7, <2>1 DEF Steps
    <3>2. Protected(handler[g].client, handler[g].exit)
      BY <1>6, <2>1, <3>1 DEF IInv, ChecksStand, Active
    <3>. QED  BY <1>1, <3>1, <3>2
              DEF Protected, Present, Enforcing, Revoking, Environment
  <2>. QED  BY <2>1 DEF ChecksStand, Active
<1>11. AnsweredIsAuthorized'
  <2>1. ASSUME NEW i \in Ids, Active(i)', lease'[i].answered
        PROVE  Protected(lease[i].client, lease[i].exit)'
    <3>1. Active(i) /\ lease'[i].client = lease[i].client /\ lease'[i].exit = lease[i].exit
      BY <1>6, <2>1
    <3>2. Protected(lease[i].client, lease[i].exit)
      <4>1. CASE i = k
        <5>1. Protected(handler[h].client, handler[h].exit)
          BY <1>1, <3>1, <4>1 DEF IInv, ChecksStand
        <5>2. lease[k].client = handler[h].client /\ lease[k].exit = handler[h].exit
          BY <1>1, <3>1, <4>1 DEF IInv, RequestsMatch
        <5>. QED  BY <4>1, <5>1, <5>2
      <4>2. CASE i # k
        BY <1>3, <2>1, <3>1, <4>2, AnsweredMeans DEF IInv
      <4>. QED  BY <4>1, <4>2
    <3>. QED  BY <1>1, <3>1, <3>2
              DEF Protected, Present, Enforcing, Revoking, Environment
  <2>. QED  BY <2>1, AnsweredMeansNext
<1>. QED  BY <1>8, <1>9, <1>10, <1>11 DEF Relations

\* A step of a request that only ends it or moves it where it needs no lease.
LEMMA RequestCarried ==
  ASSUME IInv, TypeOK', UNCHANGED Environment, NoNewLease, NoNewCheck
  PROVE  Relations'
BY StillProtected, Carried DEF Relations

\* Telling a peer makes no lease.
LEMMA TellMakesNone ==
  ASSUME TypeOK, NEW i \in Ids, NEW d \in Devices, Tell(d, i)
  PROVE  NoNewLease
<1>1. CASE Active(i)
  <2>1. lease[i] \in Leases
    BY <1>1, LeaseChanges
  <2>2. /\ lease'[i].client = lease[i].client
        /\ lease'[i].exit = lease[i].exit
        /\ lease'[i].answered = lease[i].answered
        /\ \A j \in Ids \ {i} : lease'[j] = lease[j]
    BY <1>1, <2>1 DEF Tell, Leases, TypeOK
  <2>. QED  BY <1>1, <2>2 DEF NoNewLease, Active
<1>2. CASE ~Active(i)
  BY <1>2 DEF Tell, NoNewLease, Active
<1>. QED  BY <1>1, <1>2

\* Removing leases makes none.
LEMMA RemoveMakesNone ==
  ASSUME TypeOK, CountsAgree, NEW S \in SUBSET ActiveIds, Remove(S)
  PROVE  NoNewLease /\ \A i \in Ids : Active(i)' => i \notin S
BY RemoveCounts DEF NoNewLease

\* A request's handler moves or finishes.
LEMMA MovesAreNoChecks ==
  ASSUME TypeOK, NEW h \in Handlers, handler[h].at # "idle",
         \/ Finish(h) \/ Goto(h, "offered") \/ Goto(h, "closing")
  PROVE  NoNewCheck
<1>1. handler[h] \in Handling
  BY RequestMoves
<1>2. \A s \in Steps : [handler[h] EXCEPT !.at = s] \in Handling
  BY <1>1 DEF Handling
<1>3. \A g \in Handlers \ {h} : handler'[g] = handler[g]
  BY DEF Finish, Goto, TypeOK
<1>4. CASE Finish(h)
  BY <1>3, <1>4 DEF Finish, TypeOK, NoNewCheck
<1>5. ASSUME NEW s \in {"offered", "closing"}, Goto(h, s)
      PROVE  NoNewCheck
  <2>1. handler'[h] = [handler[h] EXCEPT !.at = s] /\ s \in Steps
    BY <1>5 DEF Goto, TypeOK, Steps
  <2>2. handler'[h] \in Handling /\ handler'[h].id = handler[h].id
        /\ handler'[h].at = s
    BY <1>1, <1>2, <2>1 DEF Handling
  <2>. QED  BY <1>1, <1>3, <2>2 DEF NoNewCheck
<1>. QED  BY <1>4, <1>5

\* Every step of a request keeps what is known.
LEMMA ServeStep ==
  ASSUME IInv, NEW h \in Handlers, Serve(h)
  PROVE  Relations'
<1>1. TypeOK'
  BY ServeType DEF IInv
<1>2. ASSUME lease' = lease
      PROVE  NoNewLease
  BY <1>2 DEF NoNewLease, Active
<1>3. CASE ConnectInsert(h)
  BY <1>3, ConnectInsertStep
<1>4. CASE ConnectRefused(h) \/ PeersRefused(h)
  <2>1. NoNewCheck
    BY <1>4, MovesAreNoChecks DEF ConnectRefused, PeersRefused, IInv
  <2>. QED  BY <1>1, <1>2, <1>4, <2>1, RequestCarried
            DEF ConnectRefused, PeersRefused, KeepLeases
<1>5. CASE Offer(h)
  <2>1. NoNewCheck
    BY <1>5, MovesAreNoChecks DEF Offer, IInv
  <2>2. handler[h].exit \in Devices /\ handler[h].id \in Ids
    BY <1>5, RequestMoves DEF Offer, Handling, Devices, IInv
  <2>3. NoNewLease
    BY <1>5, <2>2, TellMakesNone DEF Offer, IInv
  <2>. QED  BY <1>1, <1>5, <2>1, <2>3, RequestCarried DEF Offer
<1>6. CASE OfferFails(h) \/ CloseSession(h)
  <2>1. NoNewCheck
    BY <1>6, MovesAreNoChecks DEF OfferFails, CloseSession, IInv
  <2>2. {handler[h].id} \cap ActiveIds \in SUBSET ActiveIds
    OBVIOUS
  <2>3. NoNewLease
    BY <1>6, <2>2, RemoveMakesNone DEF OfferFails, CloseSession, IInv
  <2>. QED  BY <1>1, <1>6, <2>1, <2>3, RequestCarried DEF OfferFails, CloseSession
<1>7. CASE ConnectReplies(h)
  <2>1. NoNewCheck
    BY <1>7, MovesAreNoChecks DEF ConnectReplies, IInv
  <2>2. handler[h].client \in Devices /\ handler[h].id \in Ids
    BY <1>7, RequestMoves DEF ConnectReplies, Handling, Devices, IInv
  <2>3. NoNewLease
    BY <1>2, <1>7, <2>2, TellMakesNone DEF ConnectReplies, KeepLeases, IInv
  <2>. QED  BY <1>1, <1>7, <2>1, <2>3, RequestCarried DEF ConnectReplies
<1>8. CASE PeersChecked(h)
  BY <1>8, PeersCheckedStep
<1>9. CASE Apply(h)
  BY <1>9, ApplyStep
<1>. QED  BY <1>3, <1>4, <1>5, <1>6, <1>7, <1>8, <1>9 DEF Serve

-----------------------------------------------------------------------------
(* The other steps                                                          *)

\* Leases that expire, or are swept, and the end of the coordinator.
LEMMA TimeStep ==
  ASSUME IInv, \/ \E i \in Ids : DropExpired(i) \/ Lapse(i)
               \/ Sweep \/ Close
  PROVE  Relations'
<1>1. TypeOK'
  BY OutsideType DEF IInv
<1>2. NoNewCheck
  BY DEF DropExpired, Lapse, Sweep, Close, NoNewCheck
<1>3. ProtectionStays
  BY DEF DropExpired, Lapse, Sweep, Close, Environment, ProtectionStays,
         Protected, Present, Enforcing, Revoking
<1>4. NoNewLease
  <2>1. ASSUME NEW S \in SUBSET ActiveIds, Remove(S)
        PROVE  NoNewLease
    BY <2>1, RemoveMakesNone DEF IInv
  <2>2. ASSUME NEW i \in Ids, DropExpired(i)
        PROVE  NoNewLease
    <3>1. {i} \in SUBSET ActiveIds
      BY <2>2 DEF DropExpired, ActiveIds
    <3>. QED  BY <2>1, <2>2, <3>1 DEF DropExpired
  <2>3. ASSUME NEW i \in Ids, Lapse(i)
        PROVE  NoNewLease
    <3>1. lease[i] \in Leases /\ Active(i)
      BY <2>3, LeaseChanges DEF Lapse, IInv
    <3>2. /\ lease'[i].client = lease[i].client
          /\ lease'[i].exit = lease[i].exit
          /\ lease'[i].answered = lease[i].answered
          /\ \A j \in Ids \ {i} : lease'[j] = lease[j]
      BY <2>3, <3>1 DEF Lapse, Leases, IInv, TypeOK
    <3>. QED  BY <3>1, <3>2 DEF NoNewLease, Active
  <2>4. CASE Sweep \/ Close
    <3>1. Expired \in SUBSET ActiveIds
      BY DEF Expired
    <3>. QED  BY <2>1, <2>4, <3>1 DEF Sweep, Close
  <2>. QED  BY <2>2, <2>3, <2>4
<1>. QED  BY <1>1, <1>2, <1>3, <1>4, Carried DEF Relations

\* A device comes, or goes and leaves its hook.
LEMMA PresenceStep ==
  ASSUME IInv, NEW d \in Devices, Connects(d) \/ Disconnects(d)
  PROVE  Relations'
<1>1. TypeOK'
  BY OutsideType DEF IInv
<1>2. NoNewCheck /\ NoNewLease
  BY DEF Connects, Disconnects, KeepLeases, NoNewCheck, NoNewLease, Active
<1>3. ProtectionStays
  BY DEF Connects, Disconnects, ProtectionStays, Protected, Present, Enforcing,
         Revoking
<1>. QED  BY <1>1, <1>2, <1>3, Carried DEF Relations

\* The hook takes the leases of its device along, whose protection ends.
LEMMA HookStep ==
  ASSUME IInv, NEW d \in Devices, DisconnectHook(d)
  PROVE  Relations'
<1>1. TypeOK'
  BY OutsideType DEF IInv
<1>2. LeasesOf(d) \in SUBSET ActiveIds
  BY DEF LeasesOf
<1>3. NoNewLease /\ \A i \in Ids : Active(i)' => i \notin LeasesOf(d)
  BY <1>2, RemoveMakesNone DEF DisconnectHook, IInv
<1>4. NoNewCheck
  BY DEF DisconnectHook, NoNewCheck
<1>5. ProtectionStays
  <2>1. ASSUME NEW i \in Ids, Active(i)'
        PROVE  lease[i].client # d /\ lease[i].exit # d
    BY <1>3, <2>1 DEF NoNewLease, LeasesOf, ActiveIds, IsPeer
  <2>2. \A x : x # d => (Revoking(x)' <=> Revoking(x))
    BY DEF DisconnectHook, Revoking
  <2>. QED  BY <2>1, <2>2
            DEF DisconnectHook, ProtectionStays, Protected, Present, Enforcing
<1>. QED  BY <1>1, <1>3, <1>4, <1>5, Carried DEF Relations

\* A grant changes: its client is being dealt with from then on.
LEMMA GrantStep ==
  ASSUME IInv, NEW c \in Clients, NEW e \in Exits, GrantChanges(c, e)
  PROVE  Relations'
<1>1. TypeOK'
  BY OutsideType DEF IInv
<1>2. NoNewCheck /\ NoNewLease
  BY DEF GrantChanges, KeepLeases, NoNewCheck, NoNewLease, Active
<1>3. admin.client = "" /\ admin.at = "idle" /\ admin'.client = c
  BY DEF GrantChanges, NoChange
<1>4. \A i \in Ids : Active(i)' => lease[i] \in Leases
  BY <1>2, LeaseChanges DEF NoNewLease, IInv
<1>5. \A i \in Ids : Active(i)' => lease[i].client # "" 
  BY <1>4, LeasesAssumption DEF Leases
<1>6. \A x : Revoking(x) => Revoking(x)'
  BY <1>3 DEF GrantChanges, Revoking
<1>7. \A x, y : <<x, y>> \in allowed /\ <<x, y>> \notin allowed' => x = c
  BY DEF GrantChanges
<1>8. online' = online
  BY DEF GrantChanges
<1>9. ProtectionStays
  BY <1>3, <1>5, <1>6, <1>7, <1>8 DEF ProtectionStays, Protected, Present, Enforcing
<1>. QED  BY <1>1, <1>2, <1>9, Carried DEF Relations

\* The session of the grant's client is invalidated, and its leases are next;
\* if it had none, its presence never rested on the change.
LEMMA InvalidateStep ==
  ASSUME IInv, Invalidate
  PROVE  Relations'
<1>1. TypeOK'
  BY OutsideType DEF IInv
<1>2. NoNewCheck /\ NoNewLease
  BY DEF Invalidate, KeepLeases, NoNewCheck, NoNewLease, Active
<1>3. admin.at = "committed" /\ hook' = hook /\ allowed' = allowed
  BY DEF Invalidate
<1>4. CASE admin.client \in online
  <2>1. admin'.at = "invalidated" /\ admin'.client = admin.client
    <3>1. admin \in Changes \cup {NoChange} /\ NoChange.at = "idle"
      BY DEF IInv, TypeOK, NoChange
    <3>2. admin \in Changes
      BY <1>3, <3>1
    <3>. QED  BY <1>4, <3>2 DEF Invalidate, Changes
  <2>2. online' = online \ {admin.client}
    BY DEF Invalidate
  <2>3. ProtectionStays
    BY <1>3, <2>1, <2>2 DEF ProtectionStays, Protected, Present, Enforcing, Revoking
  <2>. QED  BY <1>1, <1>2, <2>3, Carried DEF Relations
<1>5. CASE admin.client \notin online
  <2>1. online' = online
    BY <1>5 DEF Invalidate
  <2>2. \A x : Revoking(x) => Revoking(x)'
    BY <1>3 DEF Revoking
  <2>3. \A x : Present(x) => Present(x)'
    BY <2>1, <2>2 DEF Present
  <2>4. \A x : Enforcing(x) /\ Present(x) => Enforcing(x)'
    BY <1>3, <1>5, <2>2 DEF Enforcing, Present, Revoking
  <2>5. ProtectionStays
    BY <1>3, <2>3, <2>4 DEF ProtectionStays, Protected
  <2>. QED  BY <1>1, <1>2, <2>5, Carried DEF Relations
<1>. QED  BY <1>4, <1>5

\* The revocation takes the leases of its device along.
LEMMA RevokeStep ==
  ASSUME IInv, RevokeDevice
  PROVE  Relations'
<1>1. TypeOK'
  BY OutsideType DEF IInv
<1>. DEFINE d == admin.client
<1>2. LeasesOf(d) \in SUBSET ActiveIds
  BY DEF LeasesOf
<1>3. NoNewLease /\ \A i \in Ids : Active(i)' => i \notin LeasesOf(d)
  BY <1>2, RemoveMakesNone DEF RevokeDevice, IInv
<1>4. NoNewCheck
  BY DEF RevokeDevice, NoNewCheck
<1>5. ProtectionStays
  <2>1. ASSUME NEW i \in Ids, Active(i)'
        PROVE  lease[i].client # d /\ lease[i].exit # d
    BY <1>3, <2>1 DEF NoNewLease, LeasesOf, ActiveIds, IsPeer
  <2>2. \A x : x # d => (Revoking(x) => Revoking(x)')
    BY DEF RevokeDevice, Revoking
  <2>3. online' = online /\ allowed' = allowed
    BY DEF RevokeDevice
  <2>. HIDE DEF d
  <2>4. \A x : x # d => (Enforcing(x) => Enforcing(x)')
    BY <2>2 DEF Enforcing, d
  <2>. QED  BY <2>1, <2>2, <2>3, <2>4 DEF ProtectionStays, Protected, Present
<1>. QED  BY <1>1, <1>3, <1>4, <1>5, Carried DEF Relations

-----------------------------------------------------------------------------
(* The theorems                                                             *)

\* There is no lease to begin with.
LEMMA InitInv == Init => IInv
<1>. SUFFICES ASSUME Init PROVE IInv
  OBVIOUS
<1>1. ActiveIds = {}
  BY DEF Init, ActiveIds, Active
<1>2. TypeOK
  BY DEF Init, TypeOK, Pairs
<1>3. CountsAgree
  <2>1. \A d \in Devices : LeasesOf(d) = {} /\ count[d] = 0
    BY <1>1 DEF LeasesOf, Init
  <2>2. Cardinality({}) = 0
    BY FS_EmptySet
  <2>3. MaxPerDevice \in Nat
    BY LeasesAssumption
  <2>4. ASSUME NEW d \in Devices
        PROVE  count[d] = Cardinality(LeasesOf(d)) /\ count[d] <= MaxPerDevice
    <3>1. count[d] = 0 /\ LeasesOf(d) = {}
      BY <2>1
    <3>. QED  BY <2>2, <2>3, <3>1
  <2>. QED  BY <2>4 DEF CountsAgree
<1>4. Reserved /\ RequestsMatch /\ ChecksStand
  BY IdleIsNowhere DEF Init, Reserved, RequestsMatch, ChecksStand, Idle
<1>5. AnsweredIsAuthorized
  BY <1>1 DEF AnsweredIsAuthorized
<1>. QED  BY <1>2, <1>3, <1>4, <1>5 DEF IInv

\* Every step keeps the invariant.
LEMMA InvStep == IInv /\ [Next]_vars => IInv'
<1>. SUFFICES ASSUME IInv, [Next]_vars PROVE IInv'
  OBVIOUS
<1>1. CASE Next
  <2>1. TypeOK'
    BY <1>1, ReceiveType, ServeType, OutsideType DEF Next, IInv
  <2>2. CountsAgree'
    BY <1>1, CountsStep DEF IInv
  <2>3. Relations'
    <3>1. ASSUME NEW h \in Handlers, Receive(h)
          PROVE  Relations'
      BY <3>1, ConnectCheckedStep, RequestFoundStep DEF Receive
    <3>2. ASSUME NEW h \in Handlers, Serve(h)
          PROVE  Relations'
      BY <3>2, ServeStep
    <3>. QED  BY <1>1, <3>1, <3>2, TimeStep, PresenceStep, HookStep, GrantStep,
                 InvalidateStep, RevokeStep DEF Next
  <2>. QED  BY <2>1, <2>2, <2>3 DEF IInv, Relations
<1>2. CASE UNCHANGED vars
  <2>1. TypeOK'
    BY <1>2 DEF vars, IInv, TypeOK
  <2>2. CountsAgree'
    BY <1>2 DEF vars, IInv, CountsAgree, LeasesOf, ActiveIds, Active, IsPeer
  <2>3. Reserved' /\ RequestsMatch'
    BY <1>2 DEF vars, IInv, Reserved, RequestsMatch, Active
  <2>4. \A c, e : Protected(c, e)' = Protected(c, e)
    BY <1>2 DEF vars, Protected, Present, Enforcing, Revoking
  <2>5. ChecksStand'
    BY <1>2, <2>4 DEF vars, IInv, ChecksStand, Active
  <2>6. AnsweredIsAuthorized'
    BY <1>2 DEF vars, IInv, AnsweredIsAuthorized, ActiveIds, Active, Present,
                Enforcing, Revoking
  <2>. QED  BY <2>1, <2>2, <2>3, <2>5, <2>6 DEF IInv
<1>. QED  BY <1>1, <1>2

\* The inductive invariant holds in every reachable state.
THEOREM Invariant == Spec => []IInv
BY InitInv, InvStep, PTL DEF Spec

\* Every variable of the coordinator and its surroundings keeps its type.
THEOREM TypeCorrect == Spec => []TypeOK
<1>1. IInv => TypeOK
  BY DEF IInv
<1>. QED  BY <1>1, Invariant, PTL

\* sessionCounts is kept in step with active by every insertion and on every
\* way a lease can go, and no limit per device is exceeded.
THEOREM CountsAgreeAlways == Spec => []CountsAgree
<1>1. IInv => CountsAgree
  BY DEF IInv
<1>. QED  BY <1>1, Invariant, PTL

\* connect and the lease requests look at sessions and grants without the
\* lock; still no lease is answered without both, or while nothing removes it.
THEOREM NoPeersMeetUnauthorized == Spec => []AnsweredIsAuthorized
<1>1. IInv => AnsweredIsAuthorized
  BY DEF IInv
<1>. QED  BY <1>1, Invariant, PTL
=============================================================================
