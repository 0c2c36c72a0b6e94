---------------------------- MODULE UDPDatagrams ----------------------------
(* Native UDP over one QUIC session: the datagramMux with its channels       *)
(* (internal/tunnel/datagram.go), the UDPDatagramConn of an association      *)
(* (udp_datagram.go) and the budget both are accounted in                    *)
(* (datagram_budget.go).                                                     *)
(*                                                                           *)
(* A step is one critical section of datagramMux.mu or assemblyMu, one       *)
(* operation on a queue, or a point where a goroutine waits.  A fragment     *)
(* stands for its bytes, so that the budgets count fragments.  Of time there *)
(* is only that it passes: an incomplete packet grows old, an association    *)
(* idle, a deadline passes, and the reaper's timer fires at any moment once  *)
(* it is set, too early included.  Other sessions that share the budget are  *)
(* not modelled: a reservation they make fail is a datagram lost.  A Relay's *)
(* channel has no connection; that it forwards what it receives to another   *)
(* session is not modelled.                                                  *)
(*****************************************************************************)
EXTENDS Naturals, Sequences, FiniteSets

CONSTANTS
  Channels,          \* the DatagramChannels ever opened, with their connections
  Ids,               \* association ids
  Lifetime,          \* channels whose association has no idle timeout
  Fragments,         \* what may arrive: packet, index and count
  FrameQueue,        \* datagramQueueSize
  SendQueue,         \* datagramSendQueueSize
  AssociationLimit,  \* maxDatagramAssociations
  QueueLimit,        \* budget.queueLimit
  ReassemblyLimit,   \* maxSessionReassemblyBytes
  MaxPending,        \* maxPendingUDPPackets
  MaxEvents          \* bound: what users and the network do, taken together

None == "none"

ASSUME DatagramsAssumption ==
  /\ IsFiniteSet(Channels) /\ None \notin Channels
  /\ FrameQueue \in Nat \ {0} /\ SendQueue \in Nat \ {0}
  /\ AssociationLimit \in Nat /\ QueueLimit \in Nat /\ ReassemblyLimit \in Nat
  /\ MaxPending \in Nat /\ MaxEvents \in Nat
  /\ Fragments \subseteq [packet : Nat, index : Nat, count : Nat \ {0}]
  /\ Lifetime \subseteq Channels
  /\ Ids \subseteq Nat \ {0}

VARIABLES
  alive,      \* the session's context is not done
  closed,     \* datagramMux.closed
  toClose,    \* channels the mux's close has still to close
  table,      \* datagramMux.channels
  channel,    \* where each channel is between its opening and its removal
  id,         \* DatagramChannel.ID
  hooks,      \* onClose and reaper of a channel
  frames,     \* DatagramChannel.frames
  send,       \* datagramMux.send: the channels of the queued packets
  budget,     \* datagramBudget
  prepared,   \* channels with a packet reserved but not queued
  sender,     \* sendLoop
  conn,       \* the UDPDatagramConn of each channel
  idle,       \* connections whose idle timeout has passed
  pending,    \* UDPDatagramConn.pending
  reader,     \* ReadFrom
  deadline,   \* the read deadline
  reaper,     \* reapLoop
  wake,       \* reapRequested, and the token in reapWake
  events      \* events so far

muxVars == <<alive, closed, toClose, table>>
channelVars == <<channel, id, hooks>>
queueVars == <<frames, send, prepared, sender>>
connVars == <<conn, idle, pending>>
readVars == <<reader, deadline>>
reapVars == <<reaper, wake>>
vars == <<muxVars, channelVars, queueVars, budget, connVars, readVars, reapVars,
          events>>

(* pendingUDP; old: reassemblyTimeout has passed.                            *)
Packets == {f.packet : f \in Fragments}
Pendings == [packet : Packets, count : Nat, seen : SUBSET Nat, old : BOOLEAN]

NoFrame == [packet |-> 0, index |-> 0, count |-> 0]

(* idle: nobody reads; looking: at the top of the loop; empty: nothing was   *)
(* queued; blocked: in the select; took: a frame was taken, its bytes are    *)
(* still reserved.                                                           *)
(* deadline: the one read last; changed: deadlineChanged was closed since.   *)
Readers == [at : {"idle", "looking", "empty", "blocked", "took"},
            deadline : {"none", "armed"}, changed : BOOLEAN,
            frame : Fragments \cup {NoFrame}]
NoReader == [at |-> "idle", deadline |-> "none", changed |-> FALSE, frame |-> NoFrame]

(* next: an association has something left that will expire.                 *)
Reapers == [at : {"waiting", "scanning", "closing", "over"},
            left : SUBSET Channels, current : Channels \cup {None},
            next : BOOLEAN, timer : BOOLEAN]
Asleep == [at |-> "waiting", left |-> {}, current |-> None, next |-> FALSE,
           timer |-> FALSE]

TypeOK ==
  /\ alive \in BOOLEAN /\ closed \in BOOLEAN
  /\ toClose \in SUBSET Channels
  /\ table \in [Ids -> Channels \cup {None}]
  /\ channel \in [Channels -> {"new", "open", "closed", "cleaned", "gone"}]
  /\ id \in [Channels -> Ids \cup {0}]
  /\ hooks \in [Channels -> SUBSET {"cleanup", "reaper"}]
  /\ frames \in [Channels -> Seq(Fragments)]
  /\ \A c \in Channels : Len(frames[c]) <= FrameQueue
  /\ send \in Seq(Channels) /\ Len(send) <= SendQueue
  /\ budget \in [associations : 0..AssociationLimit, queue : 0..QueueLimit,
                 reassembly : 0..ReassemblyLimit]
  /\ prepared \in SUBSET Channels
  /\ sender \in [at : {"idle", "held", "sending", "closing", "over"},
                 job : Channels \cup {None}]
  /\ conn \in [Channels -> {"none", "made", "open", "closing", "closed"}]
  /\ idle \in SUBSET (Channels \ Lifetime)
  /\ pending \in [Channels -> SUBSET Pendings]
  /\ \A c \in Channels : /\ IsFiniteSet(pending[c])
                         /\ Cardinality(pending[c]) <= MaxPending
  /\ reader \in [Channels -> Readers]
  /\ deadline \in [Channels -> {"none", "armed", "passed"}]
  /\ reaper \in Reapers
  /\ wake \in [requested : BOOLEAN, token : BOOLEAN]
  /\ events \in 0..MaxEvents

Init ==
  /\ alive = TRUE /\ closed = FALSE /\ toClose = {}
  /\ table = [i \in Ids |-> None]
  /\ channel = [c \in Channels |-> "new"]
  /\ id = [c \in Channels |-> 0]
  /\ hooks = [c \in Channels |-> {}]
  /\ frames = [c \in Channels |-> <<>>]
  /\ send = <<>> /\ prepared = {}
  /\ sender = [at |-> "idle", job |-> None]
  /\ budget = [associations |-> 0, queue |-> 0, reassembly |-> 0]
  /\ conn = [c \in Channels |-> "none"]
  /\ idle = {}
  /\ pending = [c \in Channels |-> {}]
  /\ reader = [c \in Channels |-> NoReader]
  /\ deadline = [c \in Channels |-> "none"]
  /\ reaper = Asleep
  /\ wake = [requested |-> FALSE, token |-> FALSE]
  /\ events = 0

-----------------------------------------------------------------------------
(* Queues and budget *)

(* A full queue gives up its oldest element for the newest.                  *)
Pushed(q, x, n) == Append(IF Len(q) < n THEN q ELSE Tail(q), x)

(* FAULT: what is given up is still accounted for.                           *)
DroppedForFree(q, n) == 0

(* What a push gives up, to be released.                                     *)
Dropped(q, n) == IF Len(q) < n THEN 0 ELSE 1

(* The sum of what f gives, as many places counted one by one.               *)
Total(f) == Cardinality(UNION {{x} \X (1..f[x]) : x \in DOMAIN f})

Reserved(p) == p.count

Held(ps) == Total([p \in ps |-> Reserved(p)])

(* wakeReaper: requests coalesce until a scan starts.                        *)
WakeReaper ==
  wake' = IF wake.requested THEN wake ELSE [requested |-> TRUE, token |-> TRUE]

Event == events < MaxEvents /\ events' = events + 1

Usable(c) == channel[c] = "open" /\ ~closed

-----------------------------------------------------------------------------
(* Channels *)

(* openChannel: a duplicate, an id too many and a closed session fail.       *)
Open(c, i) ==
  /\ Event
  /\ channel[c] = "new" /\ table[i] = None
  /\ ~closed /\ alive
  /\ budget.associations < AssociationLimit
  /\ channel' = [channel EXCEPT ![c] = "open"]
  /\ id' = [id EXCEPT ![c] = i]
  /\ table' = [table EXCEPT ![i] = c]
  /\ budget' = [budget EXCEPT !.associations = @ + 1]
  /\ UNCHANGED <<alive, closed, toClose, hooks, queueVars, connVars, readVars,
                 reapVars>>

(* deliver.                                                                  *)
Deliver(i, f) ==
  LET c == table[i] IN
  /\ c # None /\ Usable(c)
  /\ Event
  /\ budget.queue < QueueLimit
  /\ frames' = [frames EXCEPT ![c] = Pushed(@, f, FrameQueue)]
  /\ budget' = [budget EXCEPT !.queue = @ + 1 - Dropped(frames[c], FrameQueue)]
  /\ UNCHANGED <<muxVars, channelVars, send, prepared, sender, connVars, readVars,
                 reapVars>>

(* preparePacket reserves, before it is known whether the channel is open.   *)
Prepare(c) ==
  /\ channel[c] # "new" /\ conn[c] \in {"none", "open"}
  /\ c \notin prepared
  /\ Event
  /\ budget.queue < QueueLimit
  /\ prepared' = prepared \cup {c}
  /\ budget' = [budget EXCEPT !.queue = @ + 1]
  /\ UNCHANGED <<muxVars, channelVars, frames, send, sender, connVars, readVars,
                 reapVars>>

Touched(c) == IF conn[c] = "open" THEN idle \ {c} ELSE idle

(* The packet is queued; or another writer, who also holds mu for reading,   *)
(* took the place that was made for it, and it is dropped itself.            *)
Queued(c) ==
  \/ /\ send' = Pushed(send, c, SendQueue)
     /\ budget' = [budget EXCEPT !.queue = @ - Dropped(send, SendQueue)]
  \/ /\ Len(send) = SendQueue
     /\ UNCHANGED send
     /\ budget' = [budget EXCEPT !.queue = @ - 1]

(* FAULT: only the session is looked at.                                     *)
EnqueueOnSession(c) ==
  /\ c \in prepared
  /\ prepared' = prepared \ {c}
  /\ IF ~closed /\ alive
     THEN Queued(c) /\ idle' = Touched(c)
     ELSE /\ budget' = [budget EXCEPT !.queue = @ - 1]
          /\ UNCHANGED <<send, idle>>
  /\ UNCHANGED <<muxVars, channelVars, frames, sender, conn, pending, readVars,
                 reapVars, events>>

(* queuePreparedPacket.                                                      *)
Enqueue(c) ==
  /\ c \in prepared
  /\ prepared' = prepared \ {c}
  /\ IF Usable(c) /\ alive
     THEN Queued(c) /\ idle' = Touched(c)
     ELSE /\ budget' = [budget EXCEPT !.queue = @ - 1]
          /\ UNCHANGED <<send, idle>>
  /\ UNCHANGED <<muxVars, channelVars, frames, sender, conn, pending, readVars,
                 reapVars, events>>

(* Somebody waits in Close for the channel to be gone.                       *)
Awaited(c) ==
  \/ conn[c] = "closing"
  \/ sender = [at |-> "closing", job |-> c]
  \/ c \in toClose

(* What a queue holds of others than c, in its order.                        *)
Others(q, c) == {k \in DOMAIN q : q[k] # c}
Place(S, n) == CHOOSE k \in S : Cardinality({j \in S : j <= k}) = n
Without(q, c) ==
  [n \in 1..Cardinality(Others(q, c)) |-> q[Place(Others(q, c), n)]]

Drained(c) ==
  /\ frames' = [frames EXCEPT ![c] = <<>>]
  /\ send' = Without(send, c)
  /\ budget' = [budget EXCEPT !.queue = @ - Len(frames[c]) - (Len(send) - Len(send'))]

(* DatagramChannel.Close, whoever calls it: the queues are drained,          *)
Close(c) ==
  /\ channel[c] = "open"
  /\ IF Awaited(c) THEN UNCHANGED events ELSE Event
  /\ channel' = [channel EXCEPT ![c] = "closed"]
  /\ UNCHANGED table
  /\ Drained(c)
  /\ UNCHANGED <<alive, closed, toClose, id, hooks, prepared, sender, connVars, readVars,
                 reapVars>>

(* onClose is run,                                                           *)
Cleanup(c) ==
  /\ channel[c] = "closed"
  /\ channel' = [channel EXCEPT ![c] = "cleaned"]
  /\ IF "cleanup" \in hooks[c]
     THEN /\ pending' = [pending EXCEPT ![c] = {}]
          /\ budget' = [budget EXCEPT !.reassembly = @ - Held(pending[c])]
     ELSE UNCHANGED <<pending, budget>>
  /\ UNCHANGED <<muxVars, id, hooks, queueVars, conn, idle, readVars, reapVars, events>>

(* and the channel is removed by its id.                                     *)
Remove(c) ==
  /\ channel[c] = "cleaned"
  /\ channel' = [channel EXCEPT ![c] = "gone"]
  /\ table' = [table EXCEPT ![id[c]] = None]
  /\ budget' = [budget EXCEPT !.associations = @ - 1]
  /\ IF "reaper" \in hooks[c] THEN WakeReaper ELSE UNCHANGED wake
  /\ UNCHANGED <<alive, closed, toClose, id, hooks, queueVars, connVars, readVars,
                 reaper, events>>

-----------------------------------------------------------------------------
(* The session: its end, close and sendLoop *)

SessionEnds ==
  /\ Event
  /\ alive
  /\ alive' = FALSE
  /\ UNCHANGED <<closed, toClose, table, channelVars, queueVars, budget, connVars,
                 readVars, reapVars>>

(* A loop that ends closes the mux.                                          *)
CloseMux ==
  /\ ~alive /\ ~closed
  /\ closed' = TRUE
  /\ toClose' = {c \in Channels : \E i \in Ids : table[i] = c}
  /\ UNCHANGED <<alive, table, channelVars, queueVars, budget, connVars, readVars,
                 reapVars, events>>

MuxClosed(c) ==
  /\ c \in toClose /\ channel[c] = "gone"
  /\ toClose' = toClose \ {c}
  /\ UNCHANGED <<alive, closed, table, channelVars, queueVars, budget, connVars,
                 readVars, reapVars, events>>

senderOnly == <<muxVars, channelVars, frames, prepared, connVars, readVars, reapVars,
                events>>

Dequeue ==
  /\ sender.at = "idle" /\ send # <<>>
  /\ sender' = [at |-> "held", job |-> Head(send)]
  /\ send' = Tail(send)
  /\ UNCHANGED <<senderOnly, budget>>

(* The reservation is released under mu, which tells whether to send.        *)
Release ==
  /\ sender.at = "held"
  /\ budget' = [budget EXCEPT !.queue = @ - 1]
  /\ sender' = IF closed \/ ~alive THEN [at |-> "over", job |-> None]
               ELSE IF channel[sender.job] # "open" THEN [at |-> "idle", job |-> None]
               ELSE [sender EXCEPT !.at = "sending"]
  /\ UNCHANGED <<senderOnly, send>>

(* SendDatagram; an error closes the channel.                                *)
Sent ==
  /\ sender.at = "sending"
  /\ \/ sender' = [at |-> "idle", job |-> None]
     \/ sender' = [sender EXCEPT !.at = "closing"]
  /\ UNCHANGED <<senderOnly, send, budget>>

SenderGoesOn ==
  /\ sender.at = "closing" /\ channel[sender.job] = "gone"
  /\ sender' = [at |-> "idle", job |-> None]
  /\ UNCHANGED <<senderOnly, send, budget>>

SenderEnds ==
  /\ sender.at = "idle" /\ (closed \/ ~alive)
  /\ sender' = [at |-> "over", job |-> None]
  /\ UNCHANGED <<senderOnly, send, budget>>

-----------------------------------------------------------------------------
(* Connections *)

(* NewUDPDatagramConn registers the cleanup,                                 *)
SetCleanup(c) ==
  /\ Event
  /\ conn[c] = "none" /\ channel[c] # "new"
  /\ IF Usable(c)
     THEN /\ hooks' = [hooks EXCEPT ![c] = @ \cup {"cleanup"}]
          /\ conn' = [conn EXCEPT ![c] = "made"]
     ELSE conn' = [conn EXCEPT ![c] = "closing"] /\ UNCHANGED hooks
  /\ UNCHANGED <<muxVars, channel, id, queueVars, budget, idle, pending, readVars,
                 reapVars>>

(* and itself with the reaper.                                               *)
SetReaper(c) ==
  /\ conn[c] = "made"
  /\ IF Usable(c)
     THEN /\ hooks' = [hooks EXCEPT ![c] = @ \cup {"reaper"}]
          /\ conn' = [conn EXCEPT ![c] = "open"]
          /\ WakeReaper
     ELSE conn' = [conn EXCEPT ![c] = "closing"] /\ UNCHANGED <<hooks, wake>>
  /\ UNCHANGED <<muxVars, channel, id, queueVars, budget, idle, pending, readVars,
                 reaper, events>>

(* UDPDatagramConn.Close: its owner's, or the end of the lifetime stream,    *)
(* which ends with the session.                                              *)
CloseConn(c) ==
  /\ IF alive THEN Event ELSE UNCHANGED events
  /\ conn[c] = "open"
  /\ conn' = [conn EXCEPT ![c] = "closing"]
  /\ UNCHANGED <<muxVars, channelVars, queueVars, budget, idle, pending, readVars,
                 reapVars>>

(* It ends when the channel is closed.                                       *)
ConnClosed(c) ==
  /\ conn[c] = "closing" /\ channel[c] = "gone"
  /\ conn' = [conn EXCEPT ![c] = "closed"]
  /\ pending' = [pending EXCEPT ![c] = {}]
  /\ budget' = [budget EXCEPT !.reassembly = @ - Held(pending[c])]
  /\ idle' = idle \ {c}
  /\ UNCHANGED <<muxVars, channelVars, queueVars, readVars, reapVars, events>>

(* Time passes.                                                              *)
GrowsIdle(c) ==
  /\ Event
  /\ conn[c] = "open" /\ c \notin Lifetime
  /\ idle' = idle \cup {c}
  /\ UNCHANGED <<muxVars, channelVars, queueVars, budget, conn, pending, readVars,
                 reapVars>>

GrowsOld(c) ==
  /\ \E p \in pending[c] : ~p.old
  /\ \E p \in pending[c] :
       /\ ~p.old
       /\ pending' = [pending EXCEPT ![c] = (@ \ {p}) \cup {[p EXCEPT !.old = TRUE]}]
  /\ UNCHANGED <<muxVars, channelVars, queueVars, budget, conn, idle, readVars,
                 reapVars, events>>

-----------------------------------------------------------------------------
(* ReadFrom *)

Ended(c) == conn[c] # "open" \/ channel[c] # "open" \/ ~alive

Read(c) ==
  /\ Event
  /\ conn[c] = "open" /\ reader[c].at = "idle"
  /\ reader' = [reader EXCEPT ![c] = [NoReader EXCEPT !.at = "looking"]]
  /\ UNCHANGED <<muxVars, channelVars, queueVars, budget, connVars, deadline,
                 reapVars>>

Take(c) ==
  /\ frames[c] # <<>>
  /\ frames' = [frames EXCEPT ![c] = Tail(@)]
  /\ reader' = [reader EXCEPT ![c] =
                 [NoReader EXCEPT !.at = "took", !.frame = Head(frames[c])]]

(* The top of the loop.                                                      *)
Look(c) ==
  /\ reader[c].at = "looking"
  /\ IF Ended(c) \/ deadline[c] = "passed"
     THEN reader' = [reader EXCEPT ![c] = NoReader] /\ UNCHANGED frames
     ELSE \/ Take(c)
          \/ /\ frames[c] = <<>>
             /\ reader' = [reader EXCEPT ![c].at = "empty", ![c].deadline = deadline[c]]
             /\ UNCHANGED frames
  /\ UNCHANGED <<muxVars, channelVars, send, prepared, sender, budget, connVars,
                 deadline, reapVars, events>>

(* FAULT: it blocks with the deadline it saw at the top.                     *)
BlockAsSeen(c) ==
  /\ reader[c].at = "empty"
  /\ reader' = [reader EXCEPT ![c].at = "blocked"]
  /\ UNCHANGED <<muxVars, channelVars, queueVars, budget, connVars, deadline,
                 reapVars, events>>

(* Deadline and deadlineChanged are read together, then it blocks.           *)
Block(c) ==
  /\ reader[c].at = "empty"
  /\ reader' = [reader EXCEPT ![c] =
       IF deadline[c] = "passed" THEN NoReader
       ELSE [@ EXCEPT !.at = "blocked", !.deadline = deadline[c]]]
  /\ UNCHANGED <<muxVars, channelVars, queueVars, budget, connVars, deadline,
                 reapVars, events>>

(* The select: whichever case is ready.                                      *)
Unblock(c) ==
  /\ reader[c].at = "blocked"
  /\ \/ /\ \/ Ended(c)
           \/ /\ reader[c].deadline = "armed"
              /\ deadline[c] = "passed" \/ reader[c].changed
        /\ reader' = [reader EXCEPT ![c] = NoReader]
        /\ UNCHANGED frames
     \/ /\ reader[c].changed
        /\ reader' = [reader EXCEPT ![c] = [NoReader EXCEPT !.at = "looking"]]
        /\ UNCHANGED frames
     \/ Take(c)
  /\ UNCHANGED <<muxVars, channelVars, send, prepared, sender, budget, connVars,
                 deadline, reapVars, events>>

Same(c, f) == {p \in pending[c] : p.packet = f.packet}

(* assemble for a fragment of several, and what it does to the reservation.  *)
Assembled(c, kept, amount, done) ==
  /\ pending' = [pending EXCEPT ![c] = kept]
  /\ budget' = [budget EXCEPT !.queue = @ - 1,
                              !.reassembly = amount]
  /\ reader' = [reader EXCEPT ![c] =
                 IF done THEN NoReader ELSE [NoReader EXCEPT !.at = "looking"]]
  /\ idle' = IF done THEN Touched(c) ELSE idle

FirstOfPacket(c, f) ==
  LET p == [packet |-> f.packet, count |-> f.count, seen |-> {f.index}, old |-> FALSE]
      fits == /\ Cardinality(pending[c]) < MaxPending
              /\ budget.reassembly + Reserved(p) <= ReassemblyLimit
  IN  /\ Same(c, f) = {}
      /\ IF fits
         THEN /\ Assembled(c, pending[c] \cup {p}, budget.reassembly + Reserved(p), FALSE)
              /\ IF pending[c] = {} THEN WakeReaper ELSE UNCHANGED wake
         ELSE /\ Assembled(c, pending[c], budget.reassembly, FALSE)
              /\ UNCHANGED wake

NextOfPacket(c, f) ==
  \E p \in Same(c, f) :
    LET q == [p EXCEPT !.seen = @ \cup {f.index}]
        whole == Cardinality(q.seen) = q.count
    IN  /\ IF p.count # f.count \/ whole
           THEN Assembled(c, pending[c] \ {p}, budget.reassembly - Reserved(p),
                          p.count = f.count)
           ELSE Assembled(c, (pending[c] \ {p}) \cup {q}, budget.reassembly, FALSE)
        /\ UNCHANGED wake

(* The frame's bytes are released, and it is put together with the others.   *)
Assemble(c) ==
  LET f == reader[c].frame IN
  /\ reader[c].at = "took"
  /\ IF Ended(c)
     THEN /\ budget' = [budget EXCEPT !.queue = @ - 1]
          /\ reader' = [reader EXCEPT ![c] = NoReader]
          /\ UNCHANGED <<pending, idle, wake>>
     ELSE IF f.count = 1
     THEN Assembled(c, pending[c], budget.reassembly, TRUE) /\ UNCHANGED wake
     ELSE FirstOfPacket(c, f) \/ NextOfPacket(c, f)
  /\ UNCHANGED <<muxVars, channelVars, queueVars, conn, deadline, reaper, events>>

(* SetReadDeadline wakes a reader that blocks.                               *)
SetDeadline(c) ==
  /\ Event
  /\ conn[c] = "open"
  /\ \E d \in {"none", "armed"} : deadline' = [deadline EXCEPT ![c] = d]
  /\ reader' = [reader EXCEPT ![c].changed = @ \/ (reader[c].at = "blocked")]
  /\ UNCHANGED <<muxVars, channelVars, queueVars, budget, connVars, reapVars>>

DeadlinePasses(c) ==
  /\ deadline[c] = "armed"
  /\ deadline' = [deadline EXCEPT ![c] = "passed"]
  /\ UNCHANGED <<muxVars, channelVars, queueVars, budget, connVars, reader, reapVars,
                 events>>

-----------------------------------------------------------------------------
(* reapLoop *)

reaperOnly == <<muxVars, channelVars, queueVars, readVars, events>>

TakeToken ==
  /\ reaper.at = "waiting" /\ wake.token
  /\ wake' = [wake EXCEPT !.token = FALSE]
  /\ reaper' = [reaper EXCEPT !.timer = TRUE]
  /\ UNCHANGED <<reaperOnly, budget, connVars>>

(* The timer: a request is coalesced with this scan until here.              *)
Fire ==
  /\ reaper.at = "waiting" /\ reaper.timer
  /\ reaper' = [reaper EXCEPT !.at = "scanning", !.timer = FALSE,
       !.left = {c \in Channels : channel[c] = "open" /\ "reaper" \in hooks[c]}]
  /\ wake' = [wake EXCEPT !.requested = FALSE]
  /\ UNCHANGED <<reaperOnly, budget, connVars>>

(* UDPDatagramConn.reap: what is old is dropped, an idle association closed. *)
Reap(c) ==
  LET fresh == {p \in pending[c] : ~p.old}
      skipped == conn[c] # "open"
      ended == channel[c] # "open" \/ ~alive
      closes == ~skipped /\ (ended \/ c \in idle)
  IN
  /\ reaper.at = "scanning" /\ c \in reaper.left
  /\ IF skipped \/ ended THEN UNCHANGED <<pending, budget>>
     ELSE /\ pending' = [pending EXCEPT ![c] = fresh]
          /\ budget' = [budget EXCEPT !.reassembly = @ - Held(pending[c] \ fresh)]
  /\ conn' = IF closes THEN [conn EXCEPT ![c] = "closing"] ELSE conn
  /\ reaper' = [reaper EXCEPT
       !.left = @ \ {c},
       !.at = IF closes THEN "closing" ELSE @,
       !.current = IF closes THEN c ELSE None,
       !.next = @ \/ (~skipped /\ ~closes /\ (fresh # {} \/ c \notin Lifetime))]
  /\ UNCHANGED <<reaperOnly, idle, wake>>

(* It waits for the connection to be closed.                                 *)
Reaped ==
  /\ reaper.at = "closing" /\ conn[reaper.current] = "closed"
  /\ reaper' = [reaper EXCEPT !.at = "scanning", !.current = None]
  /\ UNCHANGED <<reaperOnly, budget, connVars, wake>>

(* FAULT: wake-ups that came during the scan are done with.                  *)
EndScanClears ==
  /\ reaper.at = "scanning" /\ reaper.left = {}
  /\ reaper' = [Asleep EXCEPT !.timer = reaper.next]
  /\ wake' = [requested |-> FALSE, token |-> FALSE]
  /\ UNCHANGED <<reaperOnly, budget, connVars>>

EndScan ==
  /\ reaper.at = "scanning" /\ reaper.left = {}
  /\ reaper' = [Asleep EXCEPT !.timer = reaper.next]
  /\ UNCHANGED <<reaperOnly, budget, connVars, wake>>

ReaperEnds ==
  /\ reaper.at = "waiting" /\ (closed \/ ~alive)
  /\ reaper' = [Asleep EXCEPT !.at = "over"]
  /\ UNCHANGED <<reaperOnly, budget, connVars, wake>>

-----------------------------------------------------------------------------
Reading(c) == Look(c) \/ Block(c) \/ Unblock(c) \/ Assemble(c)

Closing(c) == (Awaited(c) /\ Close(c)) \/ Cleanup(c) \/ Remove(c)

Sending == Dequeue \/ Release \/ Sent \/ SenderGoesOn \/ SenderEnds

Reaping ==
  \/ TakeToken \/ Reaped \/ EndScan \/ ReaperEnds
  \/ \E c \in Channels : Reap(c)

Next ==
  \/ \E c \in Channels :
       \/ \E i \in Ids : Open(c, i)
       \/ Prepare(c) \/ Enqueue(c)
       \/ Close(c) \/ Cleanup(c) \/ Remove(c) \/ MuxClosed(c)
       \/ SetCleanup(c) \/ SetReaper(c) \/ CloseConn(c) \/ ConnClosed(c)
       \/ GrowsIdle(c) \/ GrowsOld(c)
       \/ Read(c) \/ Reading(c) \/ SetDeadline(c) \/ DeadlinePasses(c)
  \/ \E i \in Ids, f \in Fragments : Deliver(i, f)
  \/ SessionEnds \/ CloseMux
  \/ Sending
  \/ Reaping \/ Fire

Spec == Init /\ [][Next]_vars

(* Goroutines run, a timer that is set fires, what is pending grows old and  *)
(* the session's end ends its streams.  Nobody has to open, read, write or   *)
(* close anything.                                                           *)
Fairness ==
  /\ \A c \in Channels :
       /\ WF_vars(Enqueue(c)) /\ WF_vars(Closing(c)) /\ WF_vars(MuxClosed(c))
       /\ WF_vars(SetReaper(c)) /\ WF_vars(ConnClosed(c))
       /\ WF_vars(~alive /\ CloseConn(c))
       /\ WF_vars(GrowsOld(c)) /\ WF_vars(Reading(c))
  /\ WF_vars(CloseMux) /\ WF_vars(Sending) /\ WF_vars(Reaping) /\ WF_vars(Fire)

FairSpec == Spec /\ Fairness

-----------------------------------------------------------------------------
(* Properties *)

(* The budget is the process's: what is reserved is what somebody holds, in  *)
(* a queue, in his hands or as a packet being put together, over dropped     *)
(* oldest elements, draining, expiry and every kind of Close.                *)
BudgetIsExact ==
  /\ budget.queue =
       Total([c \in Channels |-> Len(frames[c])]) + Len(send)
         + Cardinality(prepared) + (IF sender.at = "held" THEN 1 ELSE 0)
         + Cardinality({c \in Channels : reader[c].at = "took"})
  /\ budget.reassembly = Total([c \in Channels |-> Held(pending[c])])
  /\ budget.associations =
       Cardinality({c \in Channels : channel[c] \notin {"new", "gone"}})

(* A channel is removed by its id some time after it was closed; meanwhile   *)
(* nobody may open another one under that id, which the removal would take.  *)
OpenIsFound ==
  \A c \in Channels : channel[c] = "open" => \E i \in Ids : table[i] = c

(* Writers, the receive loop and readers race with Close: nothing is queued  *)
(* for a channel that has drained its queues, nothing is pending for one     *)
(* that has cleaned up.                                                      *)
ClosedHoldsNothing ==
  \A c \in Channels :
    /\ channel[c] \in {"closed", "cleaned", "gone"} =>
         frames[c] = <<>> /\ \A k \in DOMAIN send : send[k] # c
    /\ channel[c] \in {"cleaned", "gone"} => pending[c] = {}

(* What a channel leaves to its next stage, however Close's three steps fall *)
(* between the steps of those who use it: an open one is in the table, and a *)
(* closed one holds nothing.                                                 *)
StagesHold == TypeOK /\ OpenIsFound /\ ClosedHoldsNothing

(* The reaper sleeps without a timer when nothing is due.  An incomplete     *)
(* packet is dropped all the same, whenever it comes; so is an association   *)
(* that stays idle closed, as long as its channel is in the table: the       *)
(* reaper does not see the connection of a channel that a failed             *)
(* SendDatagram has closed.                                                  *)
DueIsReaped ==
  \A c \in Channels : /\ []<>(pending[c] = {})
                      /\ []<>(c \notin idle \/ channel[c] # "open")

(* No read goes on after its deadline has passed, even if the deadline was   *)
(* set while the read was about to block.                                    *)
ReadEnds ==
  \A c \in Channels : []<>(deadline[c] # "passed" \/ reader[c].at = "idle")
=============================================================================
