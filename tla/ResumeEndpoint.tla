--------------------------- MODULE ResumeEndpoint ---------------------------
(***************************************************************************)
(* The resumable TCP stream of internal/p2p/resume: two Endpoints (the     *)
(* Client's and the Exit's) carry one full-duplex byte stream over a       *)
(* sequence of replaceable transports.  StreamState (state.go, replay.go)  *)
(* keeps the byte offsets, Endpoint (endpoint.go) the transport, the       *)
(* application writer, the replay after a bind, the ACK loop and one read   *)
(* loop per transport.  Transports are offered by the Client's recovery    *)
(* loop (agent/client/resumable_tcp.go) and accepted by the Exit's session *)
(* registry (agent/exit), which are modelled here only as far as they      *)
(* decide which transport is bound at which generation.                    *)
(*                                                                         *)
(* Offsets count chunks: one chunk is what one iteration of Endpoint.Write *)
(* retains and sends as one DATA frame, so chunk n of a side is its n-th   *)
(* frame and needs no payload.  The segments of replay.go, which split and *)
(* join frames, are not modelled.                                          *)
(***************************************************************************)
EXTENDS Naturals, Sequences, FiniteSets

CONSTANTS
  MaxWrites,      \* bound: number of chunks each side's application writes
  MaxTransports,  \* bound: number of transports the Client ever opens
  HalfClosers,    \* sides whose application may call CloseWrite
  Closers,        \* sides that may call Close
  Deadlines,      \* sides whose writes may run into a write deadline
  ReplayLimit,    \* chunks one side may retain unacknowledged
  InboundLimit    \* chunks the inbound streamBuffer holds

Side == {"client", "exit"}
Peer(s) == IF s = "client" THEN "exit" ELSE "client"
Transport == 1 .. MaxTransports

ASSUME ResumeAssumption ==
  /\ MaxWrites \in [Side -> Nat]
  /\ MaxTransports \in Nat
  /\ HalfClosers \subseteq Side
  /\ Closers \subseteq Side
  /\ Deadlines \subseteq Side
  /\ ReplayLimit \in Nat \ {0}
  /\ InboundLimit \in Nat \ {0}

VARIABLES
  next, acked,    \* ReplayBuffer: chunks retained so far, chunks released
  lfin, lfinAck,  \* StreamState.localFIN, localFINAck
  expected, rfin, \* Receiver.expected, StreamState.remoteFIN
  pend,           \* the frame a Write or CloseWrite still has to send
  gen, cur, ready, \* Endpoint.generation, transport (0 is nil), ready
  closed,         \* Endpoint.closed, with what closed it ("no" while open)
  ackTok, ackHeld, \* the slot of Endpoint.acks; the ACK ackLoop is sending
  loop, hold,     \* each transport's readLoop, and the chunk it is delivering
  stream, nread,  \* what was put into inbound, how much the application read
  inEnd,          \* streamBuffer.closed: "open", "eof" (nil error) or "err"
  chan,           \* chan[t][s]: frames s wrote to t that the peer may still read
  open, broken,   \* open[t][s]: s has not closed its end; t lost its network
  tgen, st, snap, \* generation, handshake state and request offsets of t
  retry,          \* resumeRegistry.rebind took t as a retry of its generation
  offer, xgen     \* transport being negotiated; resumeTargetSession.generation

sendVars  == <<next, acked, lfin, lfinAck>>
recvVars  == <<expected, rfin>>
bindVars  == <<gen, cur, ready>>
ackVars   == <<ackTok, ackHeld>>
inVars    == <<stream, inEnd>>
netVars   == <<chan, open>>
shakeVars == <<tgen, st, snap, retry, offer, xgen>>
vars == <<sendVars, recvVars, pend, bindVars, closed, ackVars, loop, hold,
          inVars, nread, netVars, broken, shakeVars>>

-----------------------------------------------------------------------------
(* Frames.  ack and finAck are StreamState.receiveState at creation time.   *)

Frame == [type : {"data", "ack", "fin", "rst"}, seq : Nat, ack : Nat,
          finAck : BOOLEAN]
NoFrame == [type |-> "none", seq |-> 0, ack |-> 0, finAck |-> FALSE]
NoAck == [t |-> 0, frame |-> NoFrame]

Stamp(s, type, seq) ==
  [type |-> type, seq |-> seq, ack |-> expected[s], finAck |-> rfin[s]]

\* FAULT: acked read as the last acknowledged chunk, not the next one to be.
ReplayAfterAcked(s) ==
  [i \in 1 .. next[s] - acked[s] - 1 |-> Stamp(s, "data", acked[s] + i)]
    \o (IF lfin[s] /\ ~lfinAck[s] THEN <<Stamp(s, "fin", next[s])>> ELSE << >>)

\* StreamState.ReplayFrames: every unacknowledged chunk, then an
\* unacknowledged FIN, all with the newest receive offset.
ReplayFrames(s) ==
  [i \in 1 .. next[s] - acked[s] |-> Stamp(s, "data", acked[s] + i - 1)]
    \o (IF lfin[s] /\ ~lfinAck[s] THEN <<Stamp(s, "fin", next[s])>> ELSE << >>)

\* The offsets StreamState.Binding puts into a request.  FAULT: the
\* acknowledged offset.
OffsetsOfAcked(s) == [send |-> acked[s], receive |-> expected[s]]
Offsets(s) == [send |-> next[s], receive |-> expected[s]]

NoHold == 0

-----------------------------------------------------------------------------
(* Transports.  A write on a transport that is no longer up either fails   *)
(* or is lost in local buffers; a close is graceful, so what was written   *)
(* before it can still be read by the peer.                                *)

Up(t) == ~broken[t] /\ open[t]["client"] /\ open[t]["exit"]

Sent(t, s, frames) ==
  IF Up(t) THEN [chan EXCEPT ![t][s] = @ \o frames] ELSE chan

\* s closes its end: its readLoop handles at most the frame it had already
\* taken from the transport and the chunk it is delivering, then its read fails.
InHand(s, t) ==
  IF loop[s][t] = "read" /\ chan[t][Peer(s)] # << >>
  THEN <<Head(chan[t][Peer(s)])>> ELSE << >>

CloseEnd(s, t) ==
  IF t = 0 THEN UNCHANGED netVars
  ELSE /\ open' = [open EXCEPT ![t][s] = FALSE]
       /\ chan' = [chan EXCEPT ![t][Peer(s)] = InHand(s, t)]

LoopClosed(s, t) ==
  IF t = 0 THEN loop
  ELSE [loop EXCEPT ![s][t] =
          IF @ = "read" /\ InHand(s, t) = << >> THEN "off" ELSE @]

\* Endpoint.loseTransport for the current transport.
Lose(s) ==
  /\ cur' = [cur EXCEPT ![s] = 0]
  /\ ready' = [ready EXCEPT ![s] = FALSE]
  /\ CloseEnd(s, cur[s])
  /\ loop' = LoopClosed(s, cur[s])
  /\ UNCHANGED gen

\* What fail, Abort and Close share: the endpoint is closed for good, its
\* transport and its inbound buffer too, and nothing reads for it any more.
\* A stream the Client still negotiates is closed with it, as are those the
\* caller names.  (A frame a reader handles after this changes nothing an
\* application or the peer can see.)
Shut(s, why, farewell, streams) ==
  /\ closed' = [closed EXCEPT ![s] = why]
  /\ cur' = [cur EXCEPT ![s] = 0]
  /\ ready' = [ready EXCEPT ![s] = FALSE]
  /\ open' = [t \in Transport |->
                [open[t] EXCEPT ![s] =
                   /\ @
                   /\ t # cur[s] /\ t \notin streams
                   /\ s = "client" => t # offer]]
  /\ chan' = LET c == IF cur[s] = 0 THEN chan ELSE Sent(cur[s], s, farewell)
             IN  [t \in Transport |-> [c[t] EXCEPT ![Peer(s)] = << >>]]
  /\ inEnd' = [inEnd EXCEPT ![s] = IF @ = "open" THEN "err" ELSE @]
  /\ loop' = [loop EXCEPT ![s] = [t \in Transport |-> "off"]]
  /\ hold' = [hold EXCEPT ![s] = [t \in Transport |-> NoHold]]
  /\ pend' = [pend EXCEPT ![s] = NoFrame]
  /\ ackTok' = [ackTok EXCEPT ![s] = FALSE]
  /\ ackHeld' = [ackHeld EXCEPT ![s] = NoAck]
  /\ UNCHANGED gen

-----------------------------------------------------------------------------
(* The application side: Write, CloseWrite, Close, Read.                   *)

\* The Client's application gets the connection once it is bound; the Exit's
\* bridge to the target runs as soon as the session is registered.
Started(s) == IF s = "client" THEN gen[s] > 0 ELSE xgen > 0

\* FAULT: the check of localFIN is missing.
WritableAfterFIN(s) == closed[s] = "no" /\ pend[s] = NoFrame

\* No write is in progress (appWriteMu) and the stream is open for one.
Writable(s) == closed[s] = "no" /\ pend[s] = NoFrame /\ ~lfin[s]

\* Endpoint.Write up to dataRetained: the chunk enters the replay buffer.
Write(s) ==
  /\ Started(s) /\ Writable(s)
  /\ next[s] - acked[s] < ReplayLimit
  /\ next[s] < MaxWrites[s]
  /\ pend' = [pend EXCEPT ![s] = Stamp(s, "data", next[s])]
  /\ next' = [next EXCEPT ![s] = @ + 1]
  /\ UNCHANGED <<acked, lfin, lfinAck, recvVars, bindVars, closed, ackVars,
                 loop, hold, inVars, nread, netVars, broken, shakeVars>>

\* Endpoint.CloseWrite up to StreamState.FIN.
CloseWrite(s) ==
  /\ s \in HalfClosers
  /\ Started(s) /\ Writable(s)
  /\ pend' = [pend EXCEPT ![s] = Stamp(s, "fin", next[s])]
  /\ lfin' = [lfin EXCEPT ![s] = TRUE]
  /\ UNCHANGED <<next, acked, lfinAck, recvVars, bindVars, closed, ackVars,
                 loop, hold, inVars, nread, netVars, broken, shakeVars>>

\* Endpoint.sendBuffered once waitTransport has returned the transport.
Send(s) ==
  /\ closed[s] = "no" /\ pend[s] # NoFrame /\ cur[s] # 0 /\ ready[s]
  /\ chan' = Sent(cur[s], s, <<pend[s]>>)
  /\ pend' = [pend EXCEPT ![s] = NoFrame]
  /\ UNCHANGED <<sendVars, recvVars, bindVars, closed, ackVars, loop, hold,
                 inVars, nread, open, broken, shakeVars>>

\* waitTransport runs into the write deadline: the chunk stays in the replay
\* buffer, Write reports it as written and nobody sends it on this transport.
WriteTimeout(s) ==
  /\ s \in Deadlines
  /\ closed[s] = "no" /\ pend[s] # NoFrame
  /\ pend' = [pend EXCEPT ![s] = NoFrame]
  /\ UNCHANGED <<sendVars, recvVars, bindVars, closed, ackVars, loop, hold,
                 inVars, nread, netVars, broken, shakeVars>>

\* The write of sendBuffered or of activateTransport fails.
WriteError(s) ==
  /\ closed[s] = "no" /\ cur[s] # 0 /\ ~Up(cur[s])
  /\ pend[s] # NoFrame \/ (~ready[s] /\ ReplayFrames(s) # << >>)
  /\ Lose(s)
  /\ UNCHANGED <<sendVars, recvVars, pend, closed, ackVars, hold, inVars,
                 nread, broken, shakeVars>>

\* Endpoint.Close: by the application, by Pipe when it stops, and by
\* resumeRegistry.expire.  The RST is best effort: it is skipped when the
\* transport is not ready or another writer owns writeMu.
Close(s) ==
  /\ s \in Closers
  /\ Started(s) /\ closed[s] = "no"
  /\ \E farewell \in {<< >>} \cup
          (IF ready[s] THEN {<<Stamp(s, "rst", next[s])>>} ELSE {}) :
        Shut(s, "local", farewell, {})
  /\ UNCHANGED <<sendVars, recvVars, stream, nread, broken, shakeVars>>

\* streamBuffer.Read by the application.  All it does to the stream is make
\* room, so reading before inbound is full would be no different.
AppRead(s) ==
  /\ Len(stream[s]) - nread[s] = InboundLimit
  /\ nread' = [nread EXCEPT ![s] = @ + 1]
  /\ UNCHANGED <<sendVars, recvVars, pend, bindVars, closed, ackVars, loop,
                 hold, inVars, netVars, broken, shakeVars>>

-----------------------------------------------------------------------------
(* bind, activateTransport, ackLoop.                                       *)

\* Endpoint.bind: the new transport replaces and closes the old one; its
\* readLoop starts at once, the old one is not waited for.
Install(s, t) ==
  /\ gen' = [gen EXCEPT ![s] = tgen[t]]
  /\ cur' = [cur EXCEPT ![s] = t]
  /\ ready' = [ready EXCEPT ![s] = FALSE]
  /\ loop' = [LoopClosed(s, cur[s]) EXCEPT ![s][t] = "read"]
  /\ CloseEnd(s, cur[s])

\* Endpoint.activateTransport: under writeMu the replay is written and then
\* ready is published.
Activate(s) ==
  /\ closed[s] = "no" /\ cur[s] # 0 /\ ~ready[s]
  /\ chan' = Sent(cur[s], s, ReplayFrames(s))
  /\ ready' = [ready EXCEPT ![s] = TRUE]
  /\ UNCHANGED <<sendVars, recvVars, pend, gen, cur, closed, ackVars, loop,
                 hold, inVars, nread, open, broken, shakeVars>>

\* ackLoop takes the token, looks up the transport and builds the ACK.
AckTake(s) ==
  /\ closed[s] = "no" /\ ackTok[s] /\ ackHeld[s] = NoAck
  /\ ackTok' = [ackTok EXCEPT ![s] = FALSE]
  /\ ackHeld' = IF cur[s] = 0 THEN ackHeld
                ELSE [ackHeld EXCEPT ![s] =
                        [t |-> cur[s], frame |-> Stamp(s, "ack", 0)]]
  /\ UNCHANGED <<sendVars, recvVars, pend, bindVars, closed, loop, hold,
                 inVars, nread, netVars, broken, shakeVars>>

\* sendControlCurrent: the ACK is dropped when its transport was replaced.
AckSend(s) ==
  /\ closed[s] = "no" /\ ackHeld[s] # NoAck
  /\ ackHeld' = [ackHeld EXCEPT ![s] = NoAck]
  /\ \/ /\ chan' = IF cur[s] = ackHeld[s].t
                   THEN Sent(cur[s], s, <<ackHeld[s].frame>>) ELSE chan
        /\ UNCHANGED <<bindVars, open, loop>>
     \/ /\ cur[s] = ackHeld[s].t /\ ~Up(cur[s])
        /\ Lose(s)
  /\ UNCHANGED <<sendVars, recvVars, pend, closed, ackTok, hold, inVars,
                 nread, broken, shakeVars>>

-----------------------------------------------------------------------------
(* readLoop and StreamState.handleBorrowed.                                *)

Incoming(s, t) == Head(chan[t][Peer(s)])

\* FAULT: chunks go to inbound in the background, the loop reads on meanwhile.
ReadingOn(s, t) ==
  closed[s] = "no" /\ loop[s][t] # "off" /\ chan[t][Peer(s)] # << >>

Reading(s, t) ==
  closed[s] = "no" /\ loop[s][t] = "read" /\ chan[t][Peer(s)] # << >>

\* handleBorrowed applies the acknowledgement first and only then looks at
\* the receive half; it rejects an ACK beyond what was ever sent, and a FIN
\* acknowledgement that does not cover the whole stream.
AckValid(s, f) ==
  /\ f.ack <= next[s]
  /\ f.finAck => lfin[s] /\ f.ack = next[s]

\* A gap, a FIN that is not at the expected offset, or new data after a FIN.
ReceiveValid(s, f) ==
  CASE f.type = "data" -> /\ f.seq <= expected[s]
                          /\ rfin[s] => f.seq + 1 <= expected[s]
    [] f.type = "fin"  -> f.seq = expected[s]
    [] OTHER           -> TRUE

AckApplied(s, f) ==
  /\ acked' = [acked EXCEPT ![s] = IF f.ack > @ THEN f.ack ELSE @]
  /\ lfinAck' = [lfinAck EXCEPT ![s] = @ \/ f.finAck]
  /\ UNCHANGED <<next, lfin>>

Taken(s, t) == chan' = [chan EXCEPT ![t][Peer(s)] = Tail(@)]

\* Receiver.acceptBorrowedLocked: is the chunk new?  FAULT: duplicates are.
FreshTwice(s, f) == f.seq <= expected[s]
Fresh(s, f) == f.seq = expected[s]

\* queueAck after a DATA frame.  FAULT: not after a duplicate.
QueueAckIfFresh(s, f) == ackTok' = [ackTok EXCEPT ![s] = @ \/ Fresh(s, f)]
QueueAck(s, f) == ackTok' = [ackTok EXCEPT ![s] = TRUE]

\* A DATA frame: a chunk that is new is handed to inbound.Write by a later
\* step of this loop, a duplicate is dropped; both queue an ACK.
ReadData(s, t) ==
  LET f == Incoming(s, t) IN
  /\ Reading(s, t) /\ f.type = "data" /\ AckValid(s, f) /\ ReceiveValid(s, f)
  /\ Taken(s, t) /\ AckApplied(s, f) /\ QueueAck(s, f)
  /\ IF Fresh(s, f)
     THEN /\ expected' = [expected EXCEPT ![s] = @ + 1]
          /\ loop' = [loop EXCEPT ![s][t] = "hold"]
          /\ hold' = [hold EXCEPT ![s][t] = f.seq]
     ELSE UNCHANGED <<expected, loop, hold>>
  /\ UNCHANGED <<rfin, pend, bindVars, closed, ackHeld, inVars, nread, open,
                 broken, shakeVars>>

\* A FIN closes inbound with a nil error (EOF) once it is drained.
ReadFin(s, t) ==
  LET f == Incoming(s, t) IN
  /\ Reading(s, t) /\ f.type = "fin" /\ AckValid(s, f) /\ ReceiveValid(s, f)
  /\ Taken(s, t) /\ AckApplied(s, f) /\ QueueAck(s, f)
  /\ rfin' = [rfin EXCEPT ![s] = TRUE]
  /\ inEnd' = [inEnd EXCEPT ![s] = IF @ = "open" THEN "eof" ELSE @]
  /\ UNCHANGED <<expected, pend, bindVars, closed, ackHeld, loop, hold,
                 stream, nread, open, broken, shakeVars>>

ReadAck(s, t) ==
  LET f == Incoming(s, t) IN
  /\ Reading(s, t) /\ f.type = "ack" /\ AckValid(s, f)
  /\ Taken(s, t) /\ AckApplied(s, f)
  /\ UNCHANGED <<recvVars, pend, bindVars, closed, ackVars, loop, hold,
                 inVars, nread, open, broken, shakeVars>>

\* An RST, or a frame handleBorrowed rejects, ends the logical stream.
ReadFatal(s, t) ==
  LET f == Incoming(s, t) IN
  /\ Reading(s, t)
  /\ \/ /\ f.type = "rst" /\ AckValid(s, f)
        /\ Shut(s, "reset", << >>, {})
     \/ /\ ~(AckValid(s, f) /\ ReceiveValid(s, f))
        /\ Shut(s, "protocol", << >>, {})
  /\ IF AckValid(s, f) THEN AckApplied(s, f) ELSE UNCHANGED sendVars
  /\ UNCHANGED <<recvVars, stream, nread, broken, shakeVars>>

\* The read fails, at the latest when the peer has closed and everything it
\* wrote is read: loseTransport, which ignores a transport already replaced.
ReadError(s, t) ==
  /\ closed[s] = "no" /\ loop[s][t] = "read" /\ ~Up(t)
  /\ loop' = [loop EXCEPT ![s][t] = "off"]
  /\ chan' = [chan EXCEPT ![t][Peer(s)] = << >>]
  /\ open' = [open EXCEPT ![t][s] = FALSE]
  /\ IF cur[s] = t
     THEN /\ cur' = [cur EXCEPT ![s] = 0]
          /\ ready' = [ready EXCEPT ![s] = FALSE]
          /\ UNCHANGED gen
     ELSE UNCHANGED bindVars
  /\ UNCHANGED <<sendVars, recvVars, pend, closed, ackVars, hold, inVars,
                 nread, broken, shakeVars>>

\* The chunk this loop accepted can still be written to inbound.
Deliverable(s, t) == inEnd[s] = "open"

\* streamBuffer.Write of the chunk this loop accepted: it waits for room,
\* and drops the chunk when the buffer was closed meanwhile.
Deliver(s, t) ==
  /\ closed[s] = "no" /\ loop[s][t] = "hold"
  /\ IF ~Deliverable(s, t)
     THEN /\ loop' = [loop EXCEPT ![s][t] = "off"]
          /\ UNCHANGED stream
     ELSE /\ Len(stream[s]) - nread[s] < InboundLimit
          /\ stream' = [stream EXCEPT ![s] = Append(@, hold[s][t])]
          /\ loop' = [loop EXCEPT ![s][t] = IF open[t][s] THEN "read" ELSE "off"]
  /\ hold' = [hold EXCEPT ![s][t] = NoHold]
  /\ UNCHANGED <<sendVars, recvVars, pend, bindVars, closed, ackVars, inEnd,
                 nread, netVars, broken, shakeVars>>

-----------------------------------------------------------------------------
(* Negotiation of a transport (external to Endpoint): the Client's dialer  *)
(* and recovery loop, the Exit's registry and stream handler, the network. *)

Requested == {t \in Transport : st[t] # "unused"}

\* The Exit's handler is at work on t; its response may have been read already.
Handling(t) == st[t] \in {"accepted", "answered"}

\* dialTCPOnSession for generation 1, tryRelayRebind for the next ones: the
\* request carries the offsets of StreamState.Binding.
OpenTransport(t) ==
  /\ t = Cardinality(Requested) + 1
  /\ closed["client"] = "no" /\ cur["client"] = 0 /\ offer = 0
  /\ offer' = t
  /\ tgen' = [tgen EXCEPT ![t] = gen["client"] + 1]
  /\ snap' = [snap EXCEPT ![t] = Offsets("client")]
  /\ st' = [st EXCEPT ![t] = "request"]
  /\ open' = [open EXCEPT ![t] = [s \in Side |-> TRUE]]
  /\ UNCHANGED <<sendVars, recvVars, pend, bindVars, closed, ackVars, loop,
                 hold, inVars, nread, chan, broken, retry, xgen>>

\* ValidateRebind on the offsets of the request.
OffsetsAgree(t) ==
  /\ snap[t].send >= expected["exit"]
  /\ snap[t].receive <= next["exit"]

\* The current generation has no transport and no handler working on one:
\* that is when resumeTargetSession.detachedAt gets set.
Detached ==
  /\ \A t \in Transport : ~Handling(t)
  /\ gen["exit"] = xgen => cur["exit"] = 0

\* resumeRegistry.registerLogical or rebind, up to the response.
Accept(t) ==
  /\ st[t] = "request" /\ closed["exit"] = "no" /\ OffsetsAgree(t)
  /\ \/ tgen[t] = xgen + 1
     \/ tgen[t] = xgen /\ xgen > 0 /\ Detached
  /\ st' = [st EXCEPT ![t] = "accepted"]
  /\ retry' = [retry EXCEPT ![t] = tgen[t] = xgen]
  /\ xgen' = tgen[t]
  /\ UNCHANGED <<sendVars, recvVars, pend, bindVars, closed, ackVars, loop,
                 hold, inVars, nread, netVars, broken, tgen, snap, offer>>

\* rebind refuses: a closed session, a generation out of order, offsets that
\* disagree, a retry before detachedAt is set; or the target cannot be dialled.
Reject(t) ==
  /\ st[t] = "request"
  /\ \/ closed["exit"] # "no"
     \/ tgen[t] # xgen + 1
     \/ ~OffsetsAgree(t)
     \/ xgen = 0
  /\ st' = [st EXCEPT ![t] = "rejected"]
  /\ open' = [open EXCEPT ![t]["exit"] = FALSE]
  /\ UNCHANGED <<sendVars, recvVars, pend, bindVars, closed, ackVars, loop,
                 hold, inVars, nread, chan, broken, tgen, snap, retry, offer,
                 xgen>>

\* What Endpoint.bind demands of the generation in each of its two modes.
Bindable(t) ==
  IF retry[t] THEN tgen[t] = gen["exit"] /\ cur["exit"] = 0
              ELSE tgen[t] > gen["exit"]

\* The response is written; bindTransportMode, whose failure closes the stream.
ExitBind(t) ==
  /\ Handling(t)
  /\ IF closed["exit"] = "no" /\ tgen[t] = xgen /\ Bindable(t)
     THEN /\ Install("exit", t)
          /\ st' = [st EXCEPT ![t] = "bound"]
     ELSE /\ CloseEnd("exit", t)
          /\ st' = [st EXCEPT ![t] = "dead"]
          /\ UNCHANGED <<bindVars, loop>>
  /\ UNCHANGED <<sendVars, recvVars, pend, closed, ackVars, hold, inVars,
                 nread, broken, tgen, snap, retry, offer, xgen>>

\* The response is not written.  For the first transport the handler removes
\* the session, for a later one it detaches it and keeps the endpoint.
ExitDrop(t) ==
  /\ st[t] = "accepted" /\ (~Up(t) \/ closed["exit"] # "no")
  /\ st' = [st EXCEPT ![t] = "dropped"]
  /\ IF tgen[t] = 1 /\ closed["exit"] = "no"
     THEN Shut("exit", "local", << >>, {t})
     ELSE /\ open' = [open EXCEPT ![t]["exit"] = FALSE]
          /\ UNCHANGED <<bindVars, closed, ackVars, loop, hold, inEnd, pend,
                         chan>>
  /\ UNCHANGED <<sendVars, recvVars, stream, nread, broken, tgen, snap, retry,
                 offer, xgen>>

\* The success response, written by now, arrives: Endpoint.Bind.  ValidateRebindResponse
\* compares the same offsets as OffsetsAgree (invariant OfferAgrees).
ClientBind ==
  /\ offer # 0 /\ closed["client"] = "no" /\ ~broken[offer]
  /\ st[offer] \in {"accepted", "bound", "dead"}
  /\ Install("client", offer)
  /\ offer' = 0
  /\ st' = [st EXCEPT ![offer] = IF @ = "accepted" THEN "answered" ELSE @]
  /\ UNCHANGED <<sendVars, recvVars, pend, closed, ackVars, hold, inVars,
                 nread, broken, tgen, snap, retry, xgen>>

\* No response arrives in time and the Client closes the stream.  Recovery
\* tries another one; the dialer gives up when it was the first.
ClientDrop ==
  /\ offer # 0 /\ closed["client"] = "no"
  /\ offer' = 0
  /\ IF gen["client"] = 0
     THEN Shut("client", "abort", << >>, {})
     ELSE /\ CloseEnd("client", offer)
          /\ UNCHANGED <<bindVars, closed, ackVars, loop, hold, inEnd, pend>>
  /\ UNCHANGED <<sendVars, recvVars, stream, nread, broken, tgen, st, snap,
                 retry, xgen>>

\* A RelayError response ends recovery, and with it the connection.
ClientReject ==
  /\ offer # 0 /\ closed["client"] = "no"
  /\ st[offer] = "rejected" /\ ~broken[offer]
  /\ offer' = 0
  /\ Shut("client", "abort", << >>, {})
  /\ UNCHANGED <<sendVars, recvVars, stream, nread, broken, tgen, st, snap,
                 retry, xgen>>

\* A transport fails: from now on writes are lost or fail, reads may fail.
Break(t) ==
  /\ Up(t)
  /\ broken' = [broken EXCEPT ![t] = TRUE]
  /\ UNCHANGED <<sendVars, recvVars, pend, bindVars, closed, ackVars, loop,
                 hold, inVars, nread, netVars, shakeVars>>

-----------------------------------------------------------------------------
Init ==
  /\ next = [s \in Side |-> 0] /\ acked = [s \in Side |-> 0]
  /\ lfin = [s \in Side |-> FALSE] /\ lfinAck = [s \in Side |-> FALSE]
  /\ expected = [s \in Side |-> 0] /\ rfin = [s \in Side |-> FALSE]
  /\ pend = [s \in Side |-> NoFrame]
  /\ gen = [s \in Side |-> 0] /\ cur = [s \in Side |-> 0]
  /\ ready = [s \in Side |-> FALSE] /\ closed = [s \in Side |-> "no"]
  /\ ackTok = [s \in Side |-> FALSE]
  /\ ackHeld = [s \in Side |-> NoAck]
  /\ loop = [s \in Side |-> [t \in Transport |-> "off"]]
  /\ hold = [s \in Side |-> [t \in Transport |-> NoHold]]
  /\ stream = [s \in Side |-> << >>] /\ nread = [s \in Side |-> 0]
  /\ inEnd = [s \in Side |-> "open"]
  /\ chan = [t \in Transport |-> [s \in Side |-> << >>]]
  /\ open = [t \in Transport |-> [s \in Side |-> FALSE]]
  /\ broken = [t \in Transport |-> FALSE]
  /\ tgen = [t \in Transport |-> 0]
  /\ st = [t \in Transport |-> "unused"]
  /\ snap = [t \in Transport |-> [send |-> 0, receive |-> 0]]
  /\ retry = [t \in Transport |-> FALSE]
  /\ offer = 0 /\ xgen = 0

\* readLoop of one transport.
ReadLoop(s, t) ==
  \/ ReadData(s, t) \/ ReadFin(s, t) \/ ReadAck(s, t) \/ ReadFatal(s, t)
  \/ ReadError(s, t) \/ Deliver(s, t)

AckLoop(s) == AckTake(s) \/ AckSend(s)

Local(s) ==
  \/ Write(s) \/ CloseWrite(s) \/ Send(s) \/ WriteTimeout(s)
  \/ WriteError(s) \/ Close(s)
  \/ AppRead(s) \/ Activate(s) \/ AckLoop(s)

Negotiate(t) ==
  \/ OpenTransport(t) \/ Accept(t) \/ Reject(t) \/ ExitBind(t) \/ ExitDrop(t)
  \/ Break(t)

Next ==
  \/ \E s \in Side : Local(s)
  \/ \E s \in Side, t \in Transport : ReadLoop(s, t)
  \/ \E t \in Transport : Negotiate(t)
  \/ ClientBind \/ ClientDrop \/ ClientReject

\* Every goroutine of the two processes keeps running; the applications keep
\* reading (Pipe and the proxies do) but need not write, close or half-close,
\* and the network need not fail.
Fairness ==
  /\ \A s \in Side :
       /\ WF_vars(Send(s)) /\ WF_vars(Activate(s)) /\ WF_vars(AckLoop(s))
       /\ WF_vars(AppRead(s)) /\ WF_vars(WriteError(s))
       /\ \A t \in Transport : WF_vars(ReadLoop(s, t))
  /\ \A t \in Transport :
       /\ WF_vars(OpenTransport(t)) /\ WF_vars(ExitBind(t))
       /\ WF_vars(Accept(t) \/ Reject(t))
  /\ WF_vars(ClientBind \/ ClientReject)

Spec == Init /\ [][Next]_vars
FairSpec == Spec /\ Fairness

-----------------------------------------------------------------------------
(* Properties.                                                             *)

LedgerType ==
  /\ next \in [Side -> Nat] /\ acked \in [Side -> Nat]
  /\ lfin \in [Side -> BOOLEAN] /\ lfinAck \in [Side -> BOOLEAN]
  /\ expected \in [Side -> Nat] /\ rfin \in [Side -> BOOLEAN]

FrameType ==
  /\ pend \in [Side -> Frame \cup {NoFrame}]
  /\ ackTok \in [Side -> BOOLEAN]
  /\ ackHeld \in [Side -> [t : Transport, frame : Frame] \cup {NoAck}]
  /\ chan \in [Transport -> [Side -> Seq(Frame)]]

BindType ==
  /\ gen \in [Side -> Nat] /\ cur \in [Side -> Transport \cup {0}]
  /\ ready \in [Side -> BOOLEAN]
  /\ closed \in [Side -> {"no", "local", "reset", "protocol", "abort"}]
  /\ open \in [Transport -> [Side -> BOOLEAN]]
  /\ broken \in [Transport -> BOOLEAN]

ReadType ==
  /\ loop \in [Side -> [Transport -> {"off", "read", "hold"}]]
  /\ hold \in [Side -> [Transport -> Nat]]
  /\ stream \in [Side -> Seq(Nat)] /\ nread \in [Side -> Nat]
  /\ inEnd \in [Side -> {"open", "eof", "err"}]

ShakeType ==
  /\ tgen \in [Transport -> Nat]
  /\ st \in [Transport -> {"unused", "request", "accepted", "answered",
                          "rejected", "dropped", "bound", "dead"}]
  /\ snap \in [Transport -> [send : Nat, receive : Nat]]
  /\ retry \in [Transport -> BOOLEAN]
  /\ offer \in Transport \cup {0} /\ xgen \in Nat

\* Every variable holds what the field or local of the code it stands for may.
TypeOK == LedgerType /\ FrameType /\ BindType /\ ReadType /\ ShakeType

\* However transports are lost and replaced, the frames of a peer whose writes
\* run into no deadline are never taken for a protocol violation:
\* handleBorrowed sees no gap, no impossible acknowledgement, no byte after the
\* FIN, and so never ends the stream.
NoProtocolError ==
  \A s \in Side : Peer(s) \notin Deadlines => closed[s] # "protocol"

\* ReplayBuffer.Ack never releases what the peer has not accepted, and a FIN
\* stops being replayed only once the peer has recorded it.
AckedAccepted ==
  \A s \in Side :
    /\ acked[s] <= expected[Peer(s)] /\ expected[Peer(s)] <= next[s]
    /\ lfinAck[s] => rfin[Peer(s)]
    /\ rfin[Peer(s)] => lfin[s] /\ expected[Peer(s)] = next[s]

\* ValidateRebind accepts the offsets of the rebind being negotiated, on the
\* Exit and for the response on the Client: no recovery is refused because
\* frames of the lost transport were still being handled.
OfferAgrees == offer # 0 => OffsetsAgree(offer)

\* Of the chunks Receiver.accept has acknowledged none is delivered twice and,
\* while inbound is open, none is lost, also those accepted by the readLoop of
\* a transport that was replaced meanwhile.
Held(s) == {t \in Transport : loop[s][t] = "hold"}
ExactlyOnce ==
  \A s \in Side :
    LET delivered == {stream[s][i] : i \in DOMAIN stream[s]}
        held == {hold[s][t] : t \in Held(s)}
    IN  /\ Cardinality(delivered) = Len(stream[s])
        /\ delivered \cap held = {} /\ Cardinality(held) = Cardinality(Held(s))
        /\ inEnd[s] = "open" =>
              delivered \cup held = {n \in 0 .. next[Peer(s)] : n < expected[s]}

\* "Endpoint exposes one continuous application byte stream": what Read
\* returns is a prefix of what the peer's application wrote.
InOrder ==
  \A s \in Side : \A i \in DOMAIN stream[s] : stream[s][i] = i - 1

\* Read returns io.EOF only after everything the peer wrote before its FIN.
CleanEOF ==
  \A s \in Side :
    inEnd[s] = "eof" => lfin[Peer(s)] /\ Len(stream[s]) = next[Peer(s)]

\* "Endpoint exposes one continuous application byte stream while its framed
\* transport may be replaced with a newer generation" (endpoint.go:26).
Continuous == InOrder /\ CleanEOF

\* What holds of it: on the first transport the application reads the chunks
\* in order and an EOF only after the last one.
ContinuousUntilReplaced == Cardinality(Requested) <= 1 => Continuous

\* The endpoints implement the reliable stream: StreamState.handleBorrowed
\* accepts the peer's bytes in order, once each, its FIN last, and
\* ReplayBuffer.Ack drops only accepted bytes, over any sequence of transports.
Reliable == INSTANCE ReliableStream WITH
  Direction <- Side, written <- next, finished <- lfin,
  accepted <- [s \in Side |-> expected[Peer(s)]],
  ended <- [s \in Side |-> rfin[Peer(s)]],
  released <- acked, settled <- lfinAck
ImplementsReliableStream == Reliable!Spec

\* Both endpoints on the same, working transport.
Attached ==
  /\ cur["client"] # 0 /\ cur["exit"] = cur["client"] /\ Up(cur["client"])

\* Once the two endpoints stay on one transport, everything either side ever
\* wrote, and its FIN, is accepted and acknowledged, whatever was lost with
\* earlier transports and whichever ACK was dropped at a replacement.
StableDelivery ==
  <>[]Attached =>
    <>[](\A s \in Side : acked[s] = next[s] /\ (lfin[s] => lfinAck[s]))

=============================================================================
