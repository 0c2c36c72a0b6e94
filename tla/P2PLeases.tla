------------------------------ MODULE P2PLeases ------------------------------
(*****************************************************************************)
(* The Server's P2P coordinator (p2p.Coordinator): the leases two peers hold *)
(* a direct path under, the control requests that create, answer, renew and  *)
(* close them, the sweeper, and what runs around them - device sessions that *)
(* come and go, the disconnect hook of main.go, which closes the leases of a *)
(* device after its session has left the registry, and administrators who    *)
(* change a grant, invalidate the Client's session and revoke its leases.    *)
(*                                                                           *)
(* A step is one critical section of Coordinator.mu, one look at the session *)
(* registry and the database, or one message to a peer.  A request that      *)
(* finds no lease, or is not a peer's, changes nothing and is left out.      *)
(*                                                                           *)
(* Time: a lease is past its ExpiresAt once Lapse took place.  Candidates,   *)
(* fingerprints, reports and rates are not modelled; the connect rate limit  *)
(* is a refusal that may always happen.                                      *)
(*****************************************************************************)
EXTENDS FiniteSets, Naturals

CONSTANTS
  Clients,      \* devices with the proxy_client grant
  Exits,        \* devices with the proxy_exit grant
  Ids,          \* session ids: random, fresh as long as nobody holds them
  Handlers,     \* control streams the Server serves at the same time
  MaxPerDevice, \* Coordinator.maxPerDevice
  MaxActive     \* maxActiveSessions

ASSUME LeasesAssumption ==
  /\ MaxPerDevice \in Nat
  /\ MaxActive \in Nat
  /\ IsFiniteSet(Ids)
  /\ "" \notin Clients

VARIABLES
  lease,        \* Coordinator.active: lease[i], NoLease when absent
  count,        \* Coordinator.sessionCounts
  running,      \* the sweeper runs: Close has not been called
  handler,      \* what each control stream's handler has got to
  online,       \* devices with a registered session
  hook,         \* devices whose unregistered session has its
                \* OnDeviceDisconnected still to run
  allowed,      \* pairs the database authorizes
  admin         \* the grant change in progress

vars == <<lease, count, running, handler, online, hook, allowed, admin>>

Devices == Clients \cup Exits
Pairs == {p \in Clients \X Exits : p[1] # p[2]}

(* told: the peers that have learned the id and the token of the lease.      *)
Leases == [client : Clients, exit : Exits, expired : BOOLEAN,
           answered : BOOLEAN, told : SUBSET Devices]
NoLease == [client |-> "", exit |-> "", expired |-> FALSE, answered |-> FALSE,
            told |-> {}]

(* at: "idle"; "authorized" (connect passed its checks), "inserted" (the     *)
(* lease is in active), "offered" (the exit has it); "found" (a lease request *)
(* passed the first lock), "checked" (both peers and the grant looked at),   *)
(* "closing" (closeSession next).                                            *)
Requests == {"connect", "answer", "update", "renew", "close"}
Steps == {"authorized", "inserted", "offered", "found", "checked", "closing"}
Handling == [at : Steps, op : Requests, id : Ids, client : Clients,
             exit : Exits]
Idle == [at |-> "idle", op |-> "", id |-> "", client |-> "", exit |-> ""]

Changes == [at : {"committed", "invalidated"}, client : Clients]
NoChange == [at |-> "idle", client |-> ""]

Active(i) == lease[i] # NoLease
ActiveIds == {i \in Ids : Active(i)}
IsPeer(d, l) == d = l.client \/ d = l.exit
LeasesOf(d) == {i \in ActiveIds : IsPeer(d, lease[i])}

TypeOK ==
  /\ lease \in [Ids -> Leases \cup {NoLease}]
  /\ count \in [Devices -> Nat]
  /\ running \in BOOLEAN
  /\ handler \in [Handlers -> Handling \cup {Idle}]
  /\ online \in SUBSET Devices
  /\ hook \in SUBSET Devices
  /\ allowed \in SUBSET Pairs
  /\ admin \in Changes \cup {NoChange}

Init ==
  /\ lease = [i \in Ids |-> NoLease]
  /\ count = [d \in Devices |-> 0]
  /\ running = TRUE
  /\ handler = [h \in Handlers |-> Idle]
  /\ online = Devices
  /\ hook = {}
  /\ allowed = Pairs
  /\ admin = NoChange

-----------------------------------------------------------------------------
(* Removal *)

(* FAULT: the Exit keeps being charged.                                      *)
RemoveForClient(S) ==
  /\ lease' = [i \in Ids |-> IF i \in S THEN NoLease ELSE lease[i]]
  /\ count' = [d \in Devices |->
                 count[d] - Cardinality({i \in S : d = lease[i].client})]

(* removeLocked for every lease in S: out of active, both counts down.       *)
Remove(S) ==
  /\ lease' = [i \in Ids |-> IF i \in S THEN NoLease ELSE lease[i]]
  /\ count' = [d \in Devices |->
                 count[d] - Cardinality({i \in S : IsPeer(d, lease[i])})]

KeepLeases == UNCHANGED <<lease, count>>

(* Nobody holds the id any more: the next random id may as well be it.       *)
Fresh(i) == ~Active(i) /\ \A h \in Handlers : handler[h].id # i

Goto(h, step) == handler' = [handler EXCEPT ![h].at = step]
Finish(h) == handler' = [handler EXCEPT ![h] = Idle]

Environment == <<running, online, hook, allowed, admin>>

-----------------------------------------------------------------------------
(* connect *)

(* connect up to the random id: the exit is online and the pair authorized.  *)
ConnectChecked(h, c, e, i) ==
  /\ handler[h] = Idle
  /\ c # e
  /\ e \in online
  /\ <<c, e>> \in allowed
  /\ Fresh(i)
  /\ handler' = [handler EXCEPT ![h] =
       [at |-> "authorized", op |-> "connect", id |-> i, client |-> c,
        exit |-> e]]
  /\ KeepLeases /\ UNCHANGED Environment

HasRoom(c, e) ==
  /\ Cardinality(ActiveIds) < MaxActive
  /\ count[c] < MaxPerDevice
  /\ count[e] < MaxPerDevice

(* The critical section that inserts the lease.                              *)
ConnectInsert(h) ==
  /\ handler[h].at = "authorized"
  /\ LET r == handler[h] IN
     /\ HasRoom(r.client, r.exit)
     /\ lease' = [lease EXCEPT ![r.id] =
          [client |-> r.client, exit |-> r.exit, expired |-> FALSE,
           answered |-> FALSE, told |-> {}]]
     /\ count' = [count EXCEPT ![r.client] = @ + 1, ![r.exit] = @ + 1]
  /\ Goto(h, "inserted")
  /\ UNCHANGED Environment

(* Rate limited, or no room.                                                 *)
ConnectRefused(h) ==
  /\ handler[h].at = "authorized"
  /\ Finish(h)
  /\ KeepLeases /\ UNCHANGED Environment

(* d learns the id and the token, if the lease is still there to be used.    *)
Tell(d, i) ==
  /\ lease' = IF Active(i)
              THEN [lease EXCEPT ![i].told = @ \cup {d}] ELSE lease
  /\ UNCHANGED count

(* The offer goes to the session the exit had then.                          *)
Offer(h) ==
  /\ handler[h].at = "inserted"
  /\ Tell(handler[h].exit, handler[h].id)
  /\ Goto(h, "offered")
  /\ UNCHANGED Environment

(* It cannot be delivered: the lease is removed, and nobody is told.         *)
OfferFails(h) ==
  /\ handler[h].at = "inserted"
  /\ Remove({handler[h].id} \cap ActiveIds)
  /\ Finish(h)
  /\ UNCHANGED Environment

(* The response to the Client, which may be gone.                            *)
ConnectReplies(h) ==
  /\ handler[h].at = "offered"
  /\ \/ Tell(handler[h].client, handler[h].id)
     \/ KeepLeases
  /\ Finish(h)
  /\ UNCHANGED Environment

-----------------------------------------------------------------------------
(* Requests on a lease: connect_answer, candidate_update, lease_renew, close *)

(* The first critical section: the lease is there, not expired, and the      *)
(* device is one of its peers and knows the token.  validPeer for a close.   *)
RequestFound(h, d, op, i) ==
  /\ handler[h] = Idle
  /\ op # "connect"
  /\ Active(i)
  /\ ~lease[i].expired
  /\ d \in lease[i].told
  /\ op = "answer" => d = lease[i].exit
  /\ handler' = [handler EXCEPT ![h] =
       [at |-> IF op = "close" THEN "closing" ELSE "found", op |-> op,
        id |-> i, client |-> lease[i].client, exit |-> lease[i].exit]]
  /\ KeepLeases /\ UNCHANGED Environment

(* A request or a path report that finds the lease expired removes it; the   *)
(* peers are not told.                                                       *)
DropExpired(i) ==
  /\ Active(i)
  /\ lease[i].expired
  /\ Remove({i})
  /\ UNCHANGED handler /\ UNCHANGED Environment

BothOnline(c, e) == c \in online /\ e \in online

(* FAULT: the grant was looked at by connect.                                *)
PeersOnline(h) ==
  /\ handler[h].at = "found"
  /\ BothOnline(handler[h].client, handler[h].exit)
  /\ Goto(h, "checked")
  /\ KeepLeases /\ UNCHANGED Environment

(* Without the lock: both sessions are registered and the pair is still      *)
(* authorized.  A pair that is not has its lease revoked; while a peer is    *)
(* offline, or the database cannot be asked, the request is only refused.    *)
PeersChecked(h) ==
  /\ handler[h].at = "found"
  /\ BothOnline(handler[h].client, handler[h].exit)
  /\ Goto(h, IF <<handler[h].client, handler[h].exit>> \in allowed
             THEN "checked" ELSE "closing")
  /\ KeepLeases /\ UNCHANGED Environment

PeersRefused(h) ==
  /\ handler[h].at = "found"
  /\ Finish(h)
  /\ KeepLeases /\ UNCHANGED Environment

(* The second critical section: the lease must still be the one found.  An   *)
(* answer or candidates then go to the other peer, which may fail and leaves *)
(* the lease as it is.                                                       *)
Apply(h) ==
  /\ handler[h].at = "checked"
  /\ LET i == handler[h].id op == handler[h].op IN
     lease' = IF Active(i)
              THEN [lease EXCEPT ![i].answered = @ \/ op = "answer",
                                 ![i].expired = @ /\ op # "renew"]
              ELSE lease
  /\ Finish(h)
  /\ UNCHANGED count
  /\ UNCHANGED Environment

(* closeSession: by a peer, or because the authorization was revoked.        *)
CloseSession(h) ==
  /\ handler[h].at = "closing"
  /\ Remove({handler[h].id} \cap ActiveIds)
  /\ Finish(h)
  /\ UNCHANGED Environment

-----------------------------------------------------------------------------
(* The clock, the sweeper, Close *)

Lapse(i) ==
  /\ Active(i)
  /\ ~lease[i].expired
  /\ lease' = [lease EXCEPT ![i].expired = TRUE]
  /\ UNCHANGED <<count, handler>> /\ UNCHANGED Environment

(* FAULT: a lease without an answer is left to its connect.                  *)
ExpiredAnswered == {i \in ActiveIds : lease[i].expired /\ lease[i].answered}

Expired == {i \in ActiveIds : lease[i].expired}

Sweep ==
  /\ running
  /\ Expired # {}
  /\ Remove(Expired)
  /\ UNCHANGED handler /\ UNCHANGED Environment

Close ==
  /\ running
  /\ running' = FALSE
  /\ Remove(ActiveIds)
  /\ UNCHANGED <<handler, online, hook, allowed, admin>>

-----------------------------------------------------------------------------
(* Device sessions *)

(* A new session, which closes the one it replaces; that one's handler finds *)
(* itself unregistered and runs no hook.                                     *)
Connects(d) ==
  /\ online' = online \cup {d}
  /\ KeepLeases /\ UNCHANGED <<running, handler, hook, allowed, admin>>

(* The handler of the registered session unregisters it.  Bound: one         *)
(* OnDeviceDisconnected outstanding per device.                              *)
Disconnects(d) ==
  /\ d \in online
  /\ d \notin hook
  /\ online' = online \ {d}
  /\ hook' = hook \cup {d}
  /\ KeepLeases /\ UNCHANGED <<running, handler, allowed, admin>>

(* OnDeviceDisconnected: CloseDevice, whoever is registered by now.          *)
DisconnectHook(d) ==
  /\ d \in hook
  /\ hook' = hook \ {d}
  /\ Remove(LeasesOf(d))
  /\ UNCHANGED <<running, handler, online, allowed, admin>>

-----------------------------------------------------------------------------
(* Grants *)

(* A grant is given, withdrawn or runs out: the row is committed, ...        *)
GrantChanges(c, e) ==
  /\ admin = NoChange
  /\ <<c, e>> \in Pairs
  /\ allowed' = IF <<c, e>> \in allowed THEN allowed \ {<<c, e>>}
                ELSE allowed \cup {<<c, e>>}
  /\ admin' = [at |-> "committed", client |-> c]
  /\ KeepLeases /\ UNCHANGED <<running, handler, online, hook>>

(* ... InvalidateIdentity takes the grantee's session out of the registry,   *)
(* and names the devices that had one ...                                    *)
Invalidate ==
  /\ admin.at = "committed"
  /\ LET c == admin.client IN
     /\ online' = online \ {c}
     /\ admin' = IF c \in online THEN [admin EXCEPT !.at = "invalidated"]
                 ELSE NoChange
  /\ KeepLeases /\ UNCHANGED <<running, handler, hook, allowed>>

(* ... whose leases are revoked.                                             *)
RevokeDevice ==
  /\ admin.at = "invalidated"
  /\ Remove(LeasesOf(admin.client))
  /\ admin' = NoChange
  /\ UNCHANGED <<running, handler, online, hook, allowed>>

-----------------------------------------------------------------------------
Serve(h) ==
  \/ ConnectInsert(h) \/ ConnectRefused(h) \/ Offer(h) \/ OfferFails(h)
  \/ ConnectReplies(h) \/ PeersChecked(h) \/ PeersRefused(h) \/ Apply(h)
  \/ CloseSession(h)

Receive(h) ==
  \/ \E c \in Clients, e \in Exits, i \in Ids : ConnectChecked(h, c, e, i)
  \/ \E d \in Devices, op \in Requests, i \in Ids : RequestFound(h, d, op, i)

Next ==
  \/ \E h \in Handlers : Receive(h) \/ Serve(h)
  \/ \E i \in Ids : DropExpired(i) \/ Lapse(i)
  \/ Sweep \/ Close
  \/ \E d \in Devices : Connects(d) \/ Disconnects(d) \/ DisconnectHook(d)
  \/ \E c \in Clients, e \in Exits : GrantChanges(c, e)
  \/ Invalidate \/ RevokeDevice

Spec == Init /\ [][Next]_vars

(* Goroutines run, a send ends after five seconds at the latest, a second    *)
(* passes and the sweeper's ticker fires, the time of a lease runs out.      *)
(* Nothing is assumed of devices and administrators.                         *)
Fairness ==
  /\ \A h \in Handlers : WF_vars(Serve(h))
  /\ \A i \in Ids : WF_vars(Lapse(i))
  /\ WF_vars(Sweep)
  /\ \A d \in Devices : WF_vars(DisconnectHook(d))
  /\ WF_vars(Invalidate) /\ WF_vars(RevokeDevice)

FairSpec == Spec /\ Fairness

-----------------------------------------------------------------------------
(* Properties *)

(* sessionCounts is kept by hand next to active, at every insertion and on   *)
(* every way a lease can go: each device is charged for exactly the leases   *)
(* it is a peer of, so that no limit is exceeded and no capacity leaks.      *)
CountsAgree ==
  \A d \in Devices :
    /\ count[d] = Cardinality(LeasesOf(d))
    /\ count[d] <= MaxPerDevice

(* A session of d is registered, or what follows the end of its last one has *)
(* still to run: OnDeviceDisconnected, or the revocation after               *)
(* InvalidateIdentity.                                                       *)
Revoking(d) == d \in hook \/ (admin.at = "invalidated" /\ admin.client = d)
Present(d) == d \in online \/ Revoking(d)

(* A withdrawn grant is being acted upon.                                    *)
Enforcing(c) == admin.client = c \/ Revoking(c)

(* connect looks at the sessions and the grant long before it inserts the    *)
(* lease, and CloseDevice or a revocation may have come and gone by then.    *)
(* Nevertheless no lease is answered - no two peers meet - without a grant   *)
(* and two sessions, except while what removes the lease is on its way.      *)
AnsweredIsAuthorized ==
  \A i \in ActiveIds :
    LET l == lease[i] IN
    l.answered => /\ <<l.client, l.exit>> \in allowed \/ Enforcing(l.client)
                  /\ Present(l.client)
                  /\ Present(l.exit)

(* renew extends a lease whether or not it has expired, but only of two      *)
(* peers that are online and authorized: a lease that lost a peer or its     *)
(* grant, and was missed by every CloseDevice, does not outlive its time.    *)
Deserved(i) ==
  /\ <<lease[i].client, lease[i].exit>> \in allowed
  /\ BothOnline(lease[i].client, lease[i].exit)

LeaseNeedsBoth ==
  \A i \in Ids : []<>(~running \/ ~Active(i) \/ Deserved(i))
=============================================================================
