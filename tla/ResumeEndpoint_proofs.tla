------------------------ MODULE ResumeEndpoint_proofs ------------------------
(***************************************************************************)
(* Proofs about ResumeEndpoint, for every value of the constants: its       *)
(* safety properties and the refinement of ReliableStream.                 *)
(*                                                                         *)
(* Each group of variables has a Change lemma (only these actions touch    *)
(* the group) and a Step lemma (they keep it well typed).  Section two      *)
(* follows the frames, section three the inductive invariant IInv, section  *)
(* four how a step moves frames and transports and that no rebind is        *)
(* refused, section five that no reader ever sees a gap, section six what   *)
(* the application reads, section seven the refinement.                     *)
(***************************************************************************)
EXTENDS ResumeEndpoint, TLAPS, SequenceTheorems, FiniteSetTheorems

\* A stream has two ends, each the peer of the other.
LEMMA PeerIsOther == \A s \in Side : Peer(s) \in Side /\ Peer(Peer(s)) = s /\ Peer(s) # s
  BY DEF Side, Peer

\* 0 stands for a nil Endpoint.transport and is not a transport.
LEMMA TransportIsNat == 0 \notin Transport /\ \A t \in Transport : t \in Nat
  BY ResumeAssumption DEF Transport

\* What a readLoop takes from its transport is a frame.
LEMMA IncomingIsFrame ==
  ASSUME FrameType, NEW s \in Side, NEW t \in Transport, Reading(s, t)
  PROVE  Incoming(s, t) \in Frame
<1>1. chan[t][Peer(s)] \in Seq(Frame) /\ chan[t][Peer(s)] # << >>
  BY PeerIsOther DEF FrameType, Reading
<1> QED
  BY <1>1, HeadTailProperties DEF Incoming

\* Assigning one element of a two-dimensional table keeps its type.
LEMMA TwoLevelExcept ==
  ASSUME NEW A, NEW B, NEW C, NEW f \in [A -> [B -> C]],
         NEW a \in A, NEW b \in B, NEW c \in C
  PROVE  [f EXCEPT ![a][b] = c] \in [A -> [B -> C]]
<1>1. [f[a] EXCEPT ![b] = c] \in [B -> C]
  OBVIOUS
<1> QED
  BY <1>1

\* loseTransport leaves every readLoop in one of its three states.
LEMMA LoopClosedType ==
  ASSUME ReadType, NEW s \in Side, NEW t \in Transport \cup {0}
  PROVE  LoopClosed(s, t) \in [Side -> [Transport -> {"off", "read", "hold"}]]
<1>1. CASE t = 0
  BY <1>1 DEF LoopClosed, ReadType
<1>2. CASE t # 0
  <2>1. loop[s][t] \in {"off", "read", "hold"} /\ t \in Transport
    BY <1>2 DEF ReadType
  <2>2. PICK v \in {"off", "read", "hold"} :
          LoopClosed(s, t) = [loop EXCEPT ![s][t] = v]
    BY <1>2, <2>1 DEF LoopClosed, ReadType
  <2> QED
    BY <2>1, <2>2, TwoLevelExcept DEF ReadType
<1> QED
  BY <1>1, <1>2

\* Closing an end keeps the table of open ends well typed.
LEMMA CloseEndOpen ==
  ASSUME BindType, NEW s \in Side, NEW t \in Transport \cup {0}, CloseEnd(s, t)
  PROVE  open' \in [Transport -> [Side -> BOOLEAN]]
<1>1. CASE t = 0
  BY <1>1 DEF CloseEnd, BindType, netVars
<1>2. CASE t # 0
  <2>1. t \in Transport /\ open' = [open EXCEPT ![t][s] = FALSE]
    BY <1>2 DEF CloseEnd
  <2> QED
    BY <2>1, TwoLevelExcept DEF BindType
<1> QED
  BY <1>1, <1>2

\* fail, Abort and Close leave transport, generation and closed well typed.
LEMMA ShutBind ==
  ASSUME BindType, NEW s \in Side, NEW why \in {"local", "reset", "protocol", "abort"},
         NEW farewell, NEW streams, Shut(s, why, farewell, streams), broken' = broken
  PROVE  BindType'
<1>1. open' \in [Transport -> [Side -> BOOLEAN]]
  BY DEF Shut, BindType
<1>2. closed' \in [Side -> {"no", "local", "reset", "protocol", "abort"}]
  BY DEF Shut, BindType
<1>3. cur' \in [Side -> Transport \cup {0}] /\ ready' \in [Side -> BOOLEAN] /\ gen' = gen
  BY DEF Shut, BindType
<1> QED
  BY <1>1, <1>2, <1>3 DEF BindType

\* fail, Abort and Close leave the readers and inbound well typed.
LEMMA ShutRead ==
  ASSUME ReadType, NEW s \in Side, NEW why, NEW farewell, NEW streams,
         Shut(s, why, farewell, streams), UNCHANGED <<stream, nread>>
  PROVE  ReadType'
<1>1. loop' \in [Side -> [Transport -> {"off", "read", "hold"}]]
  BY DEF Shut, ReadType
<1>2. hold' \in [Side -> [Transport -> Nat]]
  BY DEF Shut, ReadType, NoHold
<1>3. inEnd' \in [Side -> {"open", "eof", "err"}]
  BY DEF Shut, ReadType
<1> QED
  BY <1>1, <1>2, <1>3 DEF ReadType

\* loseTransport leaves transport and generation well typed.
LEMMA LoseBind ==
  ASSUME BindType, NEW s \in Side, Lose(s), UNCHANGED <<closed, broken>>
  PROVE  BindType'
<1>1. cur[s] \in Transport \cup {0}
  BY DEF BindType
<1>2. open' \in [Transport -> [Side -> BOOLEAN]]
  BY <1>1, CloseEndOpen DEF Lose
<1> QED
  BY <1>2 DEF Lose, BindType

\* loseTransport leaves the readers well typed.
LEMMA LoseLoop ==
  ASSUME BindType, ReadType, NEW s \in Side, Lose(s)
  PROVE  loop' \in [Side -> [Transport -> {"off", "read", "hold"}]]
<1>1. cur[s] \in Transport \cup {0}
  BY DEF BindType
<1> QED
  BY <1>1, LoopClosedType DEF Lose

\* Endpoint.bind leaves transport and generation well typed.
LEMMA InstallBind ==
  ASSUME BindType, ShakeType, NEW s \in Side, NEW t \in Transport, Install(s, t),
         UNCHANGED <<closed, broken>>
  PROVE  BindType'
<1>1. cur[s] \in Transport \cup {0}
  BY DEF BindType
<1>2. open' \in [Transport -> [Side -> BOOLEAN]]
  BY <1>1, CloseEndOpen DEF Install
<1> QED
  BY <1>2 DEF Install, BindType, ShakeType

\* Endpoint.bind leaves the readers well typed.
LEMMA InstallLoop ==
  ASSUME BindType, ReadType, NEW s \in Side, NEW t \in Transport, Install(s, t)
  PROVE  loop' \in [Side -> [Transport -> {"off", "read", "hold"}]]
<1>1. cur[s] \in Transport \cup {0}
  BY DEF BindType
<1>2. LoopClosed(s, cur[s]) \in [Side -> [Transport -> {"off", "read", "hold"}]]
  BY <1>1, LoopClosedType
<1> QED
  BY <1>2 DEF Install

\* The two ends of a stream.
LEMMA SidesExist == "client" \in Side /\ "exit" \in Side
  BY DEF Side

\* Only Write, CloseWrite and the handling of a frame change StreamState.
LEMMA LedgerChange ==
  ASSUME Next, ~(UNCHANGED <<sendVars, recvVars>>)
  PROVE  \/ \E s \in Side : Write(s) \/ CloseWrite(s)
         \/ \E s \in Side, t \in Transport : ReadData(s, t) \/ ReadFin(s, t) \/
                                          ReadAck(s, t) \/ ReadFatal(s, t)
<1>. DEFINE Same == UNCHANGED <<sendVars, recvVars>>
<1>1. ASSUME NEW s \in Side, Local(s)
      PROVE  Same \/ Write(s) \/ CloseWrite(s)
  BY <1>1 DEF Local, AckLoop, Send, WriteTimeout, WriteError, Close,
              AppRead, Activate, AckTake, AckSend, sendVars, recvVars,
              bindVars, ackVars, inVars, netVars, shakeVars
<1>2. ASSUME NEW s \in Side, NEW t \in Transport, ReadLoop(s, t)
      PROVE  Same \/ ReadData(s, t) \/ ReadFin(s, t) \/ ReadAck(s, t) \/ ReadFatal(s, t)
  BY <1>2 DEF ReadLoop, ReadError, Deliver, sendVars, recvVars, bindVars,
              ackVars, inVars, netVars, shakeVars
<1>3. ASSUME NEW t \in Transport, Negotiate(t)
      PROVE  Same
  BY <1>3 DEF Negotiate, OpenTransport, Accept, Reject, ExitBind, ExitDrop,
              Break, sendVars, recvVars, bindVars, ackVars, inVars,
              netVars, shakeVars
<1>4. ASSUME ClientBind \/ ClientDrop \/ ClientReject
      PROVE  Same
  BY <1>4 DEF ClientBind, ClientDrop, ClientReject, sendVars, recvVars,
              bindVars, ackVars, inVars, netVars, shakeVars
<1> QED
  BY <1>1, <1>2, <1>3, <1>4 DEF Next, Same

\* Every step keeps the offsets and FIN flags of StreamState well typed.
LEMMA LedgerStep ==
  ASSUME TypeOK, Next
  PROVE  LedgerType'
<1>. USE DEF TypeOK
<1>1. CASE UNCHANGED <<sendVars, recvVars>>
  BY <1>1 DEF LedgerType, sendVars, recvVars
<1>2. ASSUME NEW s \in Side, Write(s) PROVE LedgerType'
  BY <1>2 DEF Write, LedgerType, recvVars
<1>3. ASSUME NEW s \in Side, CloseWrite(s) PROVE LedgerType'
  BY <1>3 DEF CloseWrite, LedgerType, recvVars
<1>4. ASSUME NEW s \in Side, NEW t \in Transport, ReadData(s, t) PROVE LedgerType'
  <2>1. Incoming(s, t) \in Frame
    BY <1>4, IncomingIsFrame DEF ReadData
  <2> QED
    BY <1>4, <2>1 DEF ReadData, LedgerType, AckApplied, Frame, sendVars, recvVars
<1>5. ASSUME NEW s \in Side, NEW t \in Transport, ReadFin(s, t) PROVE LedgerType'
  <2>1. Incoming(s, t) \in Frame
    BY <1>5, IncomingIsFrame DEF ReadFin
  <2> QED
    BY <1>5, <2>1 DEF ReadFin, LedgerType, AckApplied, Frame, sendVars, recvVars
<1>6. ASSUME NEW s \in Side, NEW t \in Transport, ReadAck(s, t) PROVE LedgerType'
  <2>1. Incoming(s, t) \in Frame
    BY <1>6, IncomingIsFrame DEF ReadAck
  <2> QED
    BY <1>6, <2>1 DEF ReadAck, LedgerType, AckApplied, Frame, sendVars, recvVars
<1>7. ASSUME NEW s \in Side, NEW t \in Transport, ReadFatal(s, t) PROVE LedgerType'
  <2>1. Incoming(s, t) \in Frame
    BY <1>7, IncomingIsFrame DEF ReadFatal
  <2>2. UNCHANGED recvVars
    BY <1>7 DEF ReadFatal
  <2>3. AckApplied(s, Incoming(s, t)) \/ UNCHANGED sendVars
    BY <1>7 DEF ReadFatal
  <2> QED
    BY <2>1, <2>2, <2>3 DEF LedgerType, AckApplied, Frame, sendVars, recvVars
<1>. HIDE DEF TypeOK
<1> QED
  BY <1>1, <1>2, <1>3, <1>4, <1>5, <1>6, <1>7, LedgerChange

\* The steps that can bind, lose or close a transport or an endpoint.
LEMMA BindChange ==
  ASSUME Next, ~(UNCHANGED <<bindVars, closed, open, broken>>)
  PROVE  \/ \E s \in Side : WriteError(s) \/ Close(s) \/ Activate(s) \/
                         AckSend(s)
         \/ \E s \in Side, t \in Transport : ReadFatal(s, t) \/ ReadError(s, t)
         \/ \E t \in Transport : OpenTransport(t) \/ Reject(t) \/ ExitBind(t) \/
                              ExitDrop(t) \/ Break(t)
         \/ ClientBind \/ ClientDrop \/ ClientReject
<1>. DEFINE Same == UNCHANGED <<bindVars, closed, open, broken>>
<1>1. ASSUME NEW s \in Side, Local(s)
      PROVE  Same \/ WriteError(s) \/ Close(s) \/ Activate(s) \/ AckSend(s)
  BY <1>1 DEF Local, AckLoop, Write, CloseWrite, Send, WriteTimeout,
              AppRead, AckTake, sendVars, recvVars, bindVars, ackVars,
              inVars, netVars, shakeVars
<1>2. ASSUME NEW s \in Side, NEW t \in Transport, ReadLoop(s, t)
      PROVE  Same \/ ReadFatal(s, t) \/ ReadError(s, t)
  BY <1>2 DEF ReadLoop, ReadData, ReadFin, ReadAck, Deliver, sendVars,
              recvVars, bindVars, ackVars, inVars, netVars, shakeVars
<1>3. ASSUME NEW t \in Transport, Negotiate(t)
      PROVE  Same \/ OpenTransport(t) \/ Reject(t) \/ ExitBind(t) \/ ExitDrop(t) \/ Break(t)
  BY <1>3 DEF Negotiate, Accept, sendVars, recvVars, bindVars, ackVars,
              inVars, netVars, shakeVars
<1> QED
  BY <1>1, <1>2, <1>3 DEF Next, Same

\* Every step keeps the state of transports and endpoints well typed.
LEMMA BindStep ==
  ASSUME TypeOK, Next
  PROVE  BindType'
<1>. USE DEF TypeOK
<1>1. CASE UNCHANGED <<bindVars, closed, open, broken>>
  BY <1>1 DEF BindType, bindVars
<1>2. ASSUME NEW s \in Side, WriteError(s) PROVE BindType'
  BY <1>2, LoseBind DEF WriteError, BindType, ShakeType, bindVars, netVars
<1>3. ASSUME NEW s \in Side, Close(s) PROVE BindType'
  BY <1>3, ShutBind DEF Close, BindType, ShakeType, bindVars, netVars
<1>4. ASSUME NEW s \in Side, Activate(s) PROVE BindType'
  BY <1>4 DEF Activate, BindType, ShakeType, bindVars, netVars
<1>5. ASSUME NEW s \in Side, AckSend(s) PROVE BindType'
  BY <1>5, LoseBind DEF AckSend, BindType, ShakeType, bindVars, netVars
<1>6. ASSUME NEW s \in Side, NEW t \in Transport, ReadFatal(s, t) PROVE BindType'
  BY <1>6, ShutBind DEF ReadFatal, BindType, ShakeType, bindVars, netVars
<1>7. ASSUME NEW s \in Side, NEW t \in Transport, ReadError(s, t) PROVE BindType'
  BY <1>7 DEF ReadError, BindType, ShakeType, bindVars, netVars
<1>8. ASSUME NEW t \in Transport, OpenTransport(t) PROVE BindType'
  BY <1>8 DEF OpenTransport, BindType, ShakeType, bindVars, netVars
<1>9. ASSUME NEW t \in Transport, Reject(t) PROVE BindType'
  BY <1>9 DEF Reject, BindType, ShakeType, bindVars, netVars
<1>10. ASSUME NEW t \in Transport, ExitBind(t) PROVE BindType'
  <2>1. broken' = broken /\ closed' = closed
    BY <1>10 DEF ExitBind
  <2>2. CASE Install("exit", t)
    BY <2>1, <2>2, InstallBind, SidesExist
  <2>3. CASE CloseEnd("exit", t) /\ UNCHANGED bindVars
    BY <2>1, <2>3, CloseEndOpen, SidesExist DEF BindType, bindVars
  <2> QED
    BY <1>10, <2>2, <2>3 DEF ExitBind
<1>11. ASSUME NEW t \in Transport, ExitDrop(t) PROVE BindType'
  <2>1. broken' = broken
    BY <1>11 DEF ExitDrop
  <2>2. CASE Shut("exit", "local", << >>, {t})
    BY <2>1, <2>2, ShutBind, SidesExist
  <2>3. CASE open' = [open EXCEPT ![t]["exit"] = FALSE] /\ UNCHANGED <<bindVars, closed>>
    BY <2>1, <2>3, TwoLevelExcept, SidesExist DEF BindType, bindVars
  <2> QED
    BY <1>11, <2>2, <2>3 DEF ExitDrop
<1>12. ASSUME ClientBind PROVE BindType'
  BY <1>12, InstallBind, SidesExist DEF ClientBind, BindType, ShakeType, bindVars, netVars
<1>13. ASSUME ClientDrop PROVE BindType'
  BY <1>13, ShutBind, CloseEndOpen, SidesExist DEF ClientDrop, BindType, ShakeType, bindVars, netVars
<1>14. ASSUME ClientReject PROVE BindType'
  BY <1>14, ShutBind, SidesExist DEF ClientReject, BindType, ShakeType, bindVars, netVars
<1>15. ASSUME NEW t \in Transport, Break(t) PROVE BindType'
  BY <1>15 DEF Break, BindType, ShakeType, bindVars, netVars
<1> QED
  BY <1>1, <1>2, <1>3, <1>4, <1>5, <1>6, <1>7, <1>8, <1>9, <1>10, <1>11, <1>12, <1>13, <1>14, <1>15, BindChange

\* The steps that can start, stop or advance a readLoop or fill inbound.
LEMMA ReadChange ==
  ASSUME Next, ~(UNCHANGED <<loop, hold, inVars, nread>>)
  PROVE  \/ \E s \in Side : WriteError(s) \/ Close(s) \/ AppRead(s) \/ AckSend(s)
         \/ \E s \in Side, t \in Transport : ReadData(s, t) \/ ReadFin(s, t) \/
                                          ReadFatal(s, t) \/ ReadError(s, t)
                                          \/ Deliver(s, t)
         \/ \E t \in Transport : ExitBind(t) \/ ExitDrop(t)
         \/ ClientBind \/ ClientDrop \/ ClientReject
<1>. DEFINE Same == UNCHANGED <<loop, hold, inVars, nread>>
<1>1. ASSUME NEW s \in Side, Local(s)
      PROVE  Same \/ WriteError(s) \/ Close(s) \/ AppRead(s) \/ AckSend(s)
  BY <1>1 DEF Local, AckLoop, Write, CloseWrite, Send, WriteTimeout,
              Activate, AckTake, sendVars, recvVars, bindVars, ackVars,
              inVars, netVars, shakeVars
<1>2. ASSUME NEW s \in Side, NEW t \in Transport, ReadLoop(s, t)
      PROVE  Same \/ ReadData(s, t) \/ ReadFin(s, t) \/ ReadFatal(s, t) \/ ReadError(s, t) \/ Deliver(s, t)
  BY <1>2 DEF ReadLoop, ReadAck, sendVars, recvVars, bindVars, ackVars,
              inVars, netVars, shakeVars
<1>3. ASSUME NEW t \in Transport, Negotiate(t)
      PROVE  Same \/ ExitBind(t) \/ ExitDrop(t)
  BY <1>3 DEF Negotiate, OpenTransport, Accept, Reject, Break, sendVars,
              recvVars, bindVars, ackVars, inVars, netVars, shakeVars
<1> QED
  BY <1>1, <1>2, <1>3 DEF Next, Same

\* Every step keeps readLoop and streamBuffer well typed.
LEMMA ReadStep ==
  ASSUME TypeOK, Next
  PROVE  ReadType'
<1>. USE DEF TypeOK
<1>1. CASE UNCHANGED <<loop, hold, inVars, nread>>
  BY <1>1 DEF ReadType, inVars
<1>2. ASSUME NEW s \in Side, WriteError(s) PROVE ReadType'
  BY <1>2, LoseLoop DEF WriteError, ReadType, BindType, ShakeType, inVars
<1>3. ASSUME NEW s \in Side, Close(s) PROVE ReadType'
  BY <1>3, ShutRead DEF Close, ReadType, BindType, ShakeType, inVars
<1>4. ASSUME NEW s \in Side, AppRead(s) PROVE ReadType'
  BY <1>4 DEF AppRead, ReadType, BindType, ShakeType, inVars
<1>5. ASSUME NEW s \in Side, AckSend(s) PROVE ReadType'
  BY <1>5, LoseLoop DEF AckSend, ReadType, BindType, ShakeType, inVars
<1>6. ASSUME NEW s \in Side, NEW t \in Transport, ReadData(s, t) PROVE ReadType'
  <2>1. Incoming(s, t).seq \in Nat
    BY <1>6, IncomingIsFrame DEF ReadData, Frame
  <2>2. hold' = hold \/ hold' = [hold EXCEPT ![s][t] = Incoming(s, t).seq]
    BY <1>6 DEF ReadData
  <2>3. loop' = loop \/ loop' = [loop EXCEPT ![s][t] = "hold"]
    BY <1>6 DEF ReadData
  <2>4. [hold EXCEPT ![s][t] = Incoming(s, t).seq] \in [Side -> [Transport -> Nat]]
    BY <2>1, TwoLevelExcept DEF ReadType
  <2>5. [loop EXCEPT ![s][t] = "hold"] \in [Side -> [Transport -> {"off", "read", "hold"}]]
    BY TwoLevelExcept DEF ReadType
  <2> QED
    BY <1>6, <2>2, <2>3, <2>4, <2>5 DEF ReadData, ReadType, inVars
<1>7. ASSUME NEW s \in Side, NEW t \in Transport, ReadFin(s, t) PROVE ReadType'
  BY <1>7 DEF ReadFin, ReadType, BindType, ShakeType, inVars
<1>8. ASSUME NEW s \in Side, NEW t \in Transport, ReadFatal(s, t) PROVE ReadType'
  BY <1>8, ShutRead DEF ReadFatal, ReadType, BindType, ShakeType, inVars
<1>9. ASSUME NEW s \in Side, NEW t \in Transport, ReadError(s, t) PROVE ReadType'
  BY <1>9, TwoLevelExcept DEF ReadError, ReadType, BindType, ShakeType, inVars
<1>10. ASSUME NEW s \in Side, NEW t \in Transport, Deliver(s, t) PROVE ReadType'
  <2>1. hold' = [hold EXCEPT ![s][t] = 0]
    BY <1>10 DEF Deliver, NoHold
  <2>2. PICK v \in {"off", "read"} : loop' = [loop EXCEPT ![s][t] = v]
    BY <1>10 DEF Deliver
  <2>3. hold' \in [Side -> [Transport -> Nat]]
    BY <2>1, TwoLevelExcept DEF ReadType
  <2>4. loop' \in [Side -> [Transport -> {"off", "read", "hold"}]]
    BY <2>2, TwoLevelExcept DEF ReadType
  <2>5. stream[s] \in Seq(Nat) /\ hold[s][t] \in Nat
    BY DEF ReadType
  <2>6. Append(stream[s], hold[s][t]) \in Seq(Nat)
    BY <2>5, AppendProperties
  <2>7. stream' \in [Side -> Seq(Nat)]
    BY <1>10, <2>6 DEF Deliver, ReadType
  <2> QED
    BY <1>10, <2>3, <2>4, <2>7 DEF Deliver, ReadType
<1>11. ASSUME NEW t \in Transport, ExitBind(t) PROVE ReadType'
  BY <1>11, InstallLoop, SidesExist DEF ExitBind, ReadType, BindType, ShakeType, inVars
<1>12. ASSUME NEW t \in Transport, ExitDrop(t) PROVE ReadType'
  BY <1>12, ShutRead, SidesExist DEF ExitDrop, ReadType, BindType, ShakeType, inVars
<1>13. ASSUME ClientBind PROVE ReadType'
  BY <1>13, InstallLoop, SidesExist DEF ClientBind, ReadType, BindType, ShakeType, inVars
<1>14. ASSUME ClientDrop PROVE ReadType'
  BY <1>14, ShutRead, SidesExist DEF ClientDrop, ReadType, BindType, ShakeType, inVars
<1>15. ASSUME ClientReject PROVE ReadType'
  BY <1>15, ShutRead, SidesExist DEF ClientReject, ReadType, BindType, ShakeType, inVars
<1> QED
  BY <1>1, <1>2, <1>3, <1>4, <1>5, <1>6, <1>7, <1>8, <1>9, <1>10, <1>11, <1>12, <1>13, <1>14, <1>15, ReadChange

\* The steps that take part in the negotiation of a transport.
LEMMA ShakeChange ==
  ASSUME Next, ~(UNCHANGED <<shakeVars>>)
  PROVE  \/ \E t \in Transport : OpenTransport(t) \/ Accept(t) \/ Reject(t) \/
                              ExitBind(t) \/ ExitDrop(t)
         \/ ClientBind \/ ClientDrop \/ ClientReject
<1>. DEFINE Same == UNCHANGED <<shakeVars>>
<1>1. ASSUME NEW s \in Side, Local(s)
      PROVE  Same
  BY <1>1 DEF Local, AckLoop, Write, CloseWrite, Send, WriteTimeout,
              WriteError, Close, AppRead, Activate, AckTake, AckSend,
              sendVars, recvVars, bindVars, ackVars, inVars, netVars,
              shakeVars
<1>2. ASSUME NEW s \in Side, NEW t \in Transport, ReadLoop(s, t)
      PROVE  Same
  BY <1>2 DEF ReadLoop, ReadData, ReadFin, ReadAck, ReadFatal, ReadError,
              Deliver, sendVars, recvVars, bindVars, ackVars, inVars,
              netVars, shakeVars
<1>3. ASSUME NEW t \in Transport, Negotiate(t)
      PROVE  Same \/ OpenTransport(t) \/ Accept(t) \/ Reject(t) \/ ExitBind(t) \/ ExitDrop(t)
  BY <1>3 DEF Negotiate, Break, sendVars, recvVars, bindVars, ackVars,
              inVars, netVars, shakeVars
<1> QED
  BY <1>1, <1>2, <1>3 DEF Next, Same

\* Every step keeps the negotiation state well typed.
LEMMA ShakeStep ==
  ASSUME TypeOK, Next
  PROVE  ShakeType'
<1>. USE DEF TypeOK
<1>1. CASE UNCHANGED <<shakeVars>>
  BY <1>1 DEF ShakeType, shakeVars
<1>2. ASSUME NEW t \in Transport, OpenTransport(t) PROVE ShakeType'
  BY <1>2, SidesExist, TransportIsNat DEF OpenTransport, ShakeType, LedgerType, BindType, Offsets
<1>3. ASSUME NEW t \in Transport, Accept(t) PROVE ShakeType'
  BY <1>3, SidesExist, TransportIsNat DEF Accept, ShakeType, LedgerType, BindType
<1>4. ASSUME NEW t \in Transport, Reject(t) PROVE ShakeType'
  BY <1>4, SidesExist, TransportIsNat DEF Reject, ShakeType, LedgerType, BindType
<1>5. ASSUME NEW t \in Transport, ExitBind(t) PROVE ShakeType'
  BY <1>5, SidesExist, TransportIsNat DEF ExitBind, ShakeType, LedgerType, BindType
<1>6. ASSUME NEW t \in Transport, ExitDrop(t) PROVE ShakeType'
  BY <1>6, SidesExist, TransportIsNat DEF ExitDrop, ShakeType, LedgerType, BindType
<1>7. ASSUME ClientBind PROVE ShakeType'
  BY <1>7, SidesExist, TransportIsNat DEF ClientBind, ShakeType, LedgerType, BindType
<1>8. ASSUME ClientDrop PROVE ShakeType'
  BY <1>8, SidesExist, TransportIsNat DEF ClientDrop, ShakeType, LedgerType, BindType
<1>9. ASSUME ClientReject PROVE ShakeType'
  BY <1>9, SidesExist, TransportIsNat DEF ClientReject, ShakeType, LedgerType, BindType
<1> QED
  BY <1>1, <1>2, <1>3, <1>4, <1>5, <1>6, <1>7, <1>8, <1>9, ShakeChange

-----------------------------------------------------------------------------
(* Frames under way: on the wire, still to be sent, in the hands of ackLoop. *)
(* F gives the frames each side may have sent.                              *)

Wire(c, F) ==
  /\ c \in [Transport -> [Side -> Seq(Frame)]]
  /\ \A t \in Transport, s \in Side : c[t][s] \in Seq(F[s])

\* Sequences of length 0 and 1.
LEMMA ShortSeq ==
  ASSUME NEW S
  PROVE  << >> \in Seq(S) /\ \A x \in S : <<x>> \in Seq(S)
<1>1. << >> \in Seq(S)
  BY EmptySeq
<1>2. ASSUME NEW x \in S PROVE <<x>> \in Seq(S)
  OBVIOUS
<1> QED
  BY <1>1, <1>2

\* The absence of a frame is not a frame.
LEMMA NoFrameIsNone == NoFrame \notin Frame
  BY DEF NoFrame, Frame

\* Replacing the contents of one direction of one transport.
LEMMA WireExcept ==
  ASSUME NEW F \in [Side -> SUBSET Frame], NEW c, Wire(c, F),
         NEW t \in Transport, NEW s \in Side, NEW q \in Seq(F[s])
  PROVE  Wire([c EXCEPT ![t][s] = q], F)
<1>1. q \in Seq(Frame)
  BY SeqMonotonic
<1>2. [c EXCEPT ![t][s] = q] \in [Transport -> [Side -> Seq(Frame)]]
  BY <1>1, TwoLevelExcept DEF Wire
<1>3. ASSUME NEW u \in Transport, NEW r \in Side
      PROVE  [c EXCEPT ![t][s] = q][u][r] \in Seq(F[r])
  BY <1>3 DEF Wire
<1> QED
  BY <1>2, <1>3 DEF Wire

\* What a write adds to a transport is one of the frames it may carry.
LEMMA SentWire ==
  ASSUME NEW F \in [Side -> SUBSET Frame], Wire(chan, F),
         NEW t \in Transport, NEW s \in Side, NEW q \in Seq(F[s])
  PROVE  Wire(Sent(t, s, q), F)
<1>1. chan[t][s] \o q \in Seq(F[s])
  BY ConcatProperties DEF Wire
<1> QED
  BY <1>1, WireExcept DEF Sent

\* The frame a readLoop has taken from a closing transport is one of
\* those the transport carried.
LEMMA InHandSeq ==
  ASSUME NEW F \in [Side -> SUBSET Frame], Wire(chan, F),
         NEW t \in Transport, NEW s \in Side
  PROVE  InHand(s, t) \in Seq(F[Peer(s)])
<1>1. chan[t][Peer(s)] \in Seq(F[Peer(s)])
  BY PeerIsOther DEF Wire
<1>2. CASE chan[t][Peer(s)] = << >>
  BY <1>2 DEF InHand
<1>3. CASE chan[t][Peer(s)] # << >>
  <2>1. Head(chan[t][Peer(s)]) \in F[Peer(s)]
    BY <1>1, <1>3, HeadTailProperties
  <2>2. <<Head(chan[t][Peer(s)])>> \in Seq(F[Peer(s)]) /\ << >> \in Seq(F[Peer(s)])
    BY <2>1, ShortSeq
  <2> QED
    BY <2>2 DEF InHand
<1> QED
  BY <1>2, <1>3

\* Closing an end puts nothing new on the wire.
LEMMA CloseEndWire ==
  ASSUME NEW F \in [Side -> SUBSET Frame], Wire(chan, F),
         NEW t \in Transport \cup {0}, NEW s \in Side, CloseEnd(s, t)
  PROVE  Wire(chan', F)
<1>1. CASE t = 0
  BY <1>1 DEF CloseEnd, netVars
<1>2. CASE t # 0
  <2>1. t \in Transport /\ chan' = [chan EXCEPT ![t][Peer(s)] = InHand(s, t)]
    BY <1>2 DEF CloseEnd
  <2> QED
    BY <2>1, InHandSeq, WireExcept, PeerIsOther
<1> QED
  BY <1>1, <1>2

\* Ending the stream puts at most the RST on the wire.
LEMMA ShutWire ==
  ASSUME NEW F \in [Side -> SUBSET Frame], Wire(chan, F), NEW s \in Side,
         cur[s] \in Transport \cup {0}, NEW farewell \in Seq(F[s]),
         NEW why, NEW streams, Shut(s, why, farewell, streams)
  PROVE  Wire(chan', F)
<1>. DEFINE c == IF cur[s] = 0 THEN chan ELSE Sent(cur[s], s, farewell)
<1>1. Wire(c, F)
  BY SentWire
<1>2. chan' = [t \in Transport |-> [c[t] EXCEPT ![Peer(s)] = << >>]]
  BY DEF Shut
<1>3. ASSUME NEW t \in Transport
      PROVE  /\ [c[t] EXCEPT ![Peer(s)] = << >>] \in [Side -> Seq(Frame)]
             /\ \A r \in Side : [c[t] EXCEPT ![Peer(s)] = << >>][r] \in Seq(F[r])
  <2>1. c[t] \in [Side -> Seq(Frame)] /\ \A r \in Side : c[t][r] \in Seq(F[r])
    BY <1>1 DEF Wire
  <2>2. << >> \in Seq(Frame) /\ \A r \in Side : << >> \in Seq(F[r])
    BY EmptySeq
  <2> HIDE DEF c
  <2> QED
    BY <2>1, <2>2, PeerIsOther
<1> HIDE DEF c
<1> QED
  BY <1>2, <1>3 DEF Wire

\* StreamState.ReplayFrames consists of stamped DATA frames below the send
\* offset and at most one stamped FIN.
LEMMA ReplaySeq ==
  ASSUME LedgerType, NEW s \in Side, NEW S,
         \A n \in Nat : n < next[s] => Stamp(s, "data", n) \in S,
         lfin[s] => Stamp(s, "fin", next[s]) \in S
  PROVE  ReplayFrames(s) \in Seq(S)
<1>. DEFINE n == next[s] - acked[s]
            k == IF n < 0 THEN 0 ELSE n
            data == [i \in 1 .. n |-> Stamp(s, "data", acked[s] + i - 1)]
            fin == IF lfin[s] /\ ~lfinAck[s] THEN <<Stamp(s, "fin", next[s])>> ELSE << >>
<1>1. n \in Int /\ k \in Nat /\ 1 .. n = 1 .. k
  BY DEF LedgerType
<1>2. ASSUME NEW i \in 1 .. k
      PROVE  Stamp(s, "data", acked[s] + i - 1) \in S
  BY <1>1 DEF LedgerType
<1>3. data \in [1 .. k -> S]
  BY <1>1, <1>2
<1>4. data \in Seq(S)
  BY <1>1, <1>3, SeqDef
<1>5. fin \in Seq(S)
  BY EmptySeq
<1>6. data \o fin \in Seq(S)
  BY <1>4, <1>5, ConcatProperties
<1> QED
  BY <1>6 DEF ReplayFrames

\* The only frames a step puts on a transport are the pending frame, the
\* replay, an RST and the ACK that ackLoop holds: if all of these are in F, so
\* is everything on the wire afterwards.
LEMMA WireStepLemma ==
  ASSUME TypeOK, NEW F \in [Side -> SUBSET Frame], Wire(chan, F), Next,
         \A s \in Side :
           /\ ReplayFrames(s) \in Seq(F[s]) /\ Stamp(s, "rst", next[s]) \in F[s]
           /\ pend[s] \in F[s] \cup {NoFrame}
           /\ ackHeld[s].frame \in F[s] \cup {NoFrame}
  PROVE  Wire(chan', F)
<1>1. CASE UNCHANGED chan
  BY <1>1 DEF Wire
<1>. USE DEF TypeOK
<1>2. ASSUME NEW s \in Side, Send(s) PROVE Wire(chan', F)
  <2>1. cur[s] \in Transport /\ <<pend[s]>> \in Seq(F[s])
    BY <1>2 DEF Send, BindType
  <2> QED
    BY <1>2, <2>1, SentWire DEF Send
<1>3. ASSUME NEW s \in Side, Lose(s) PROVE Wire(chan', F)
  BY <1>3, CloseEndWire DEF Lose, BindType
<1>4. ASSUME NEW s \in Side, Close(s) PROVE Wire(chan', F)
  <2>1. PICK farewell \in {<< >>, <<Stamp(s, "rst", next[s])>>} :
          Shut(s, "local", farewell, {})
    BY <1>4 DEF Close
  <2>2. farewell \in Seq(F[s])
    BY ShortSeq
  <2> QED
    BY <2>1, <2>2, ShutWire DEF BindType
<1>5. ASSUME NEW s \in Side, Activate(s) PROVE Wire(chan', F)
  BY <1>5, SentWire DEF Activate, BindType
<1>6. ASSUME NEW s \in Side, AckSend(s) PROVE Wire(chan', F)
  <2>1. CASE UNCHANGED chan \/ Lose(s)
    BY <1>1, <1>3, <2>1
  <2>2. CASE cur[s] = ackHeld[s].t /\ chan' = Sent(cur[s], s, <<ackHeld[s].frame>>)
    <3>1. ackHeld[s] \in [t : Transport, frame : Frame]
      BY <1>6 DEF AckSend, FrameType
    <3>2. <<ackHeld[s].frame>> \in Seq(F[s])
      BY <3>1, NoFrameIsNone, ShortSeq
    <3> QED
      BY <2>2, <3>1, <3>2, SentWire
  <2> QED
    BY <1>6, <2>1, <2>2 DEF AckSend
<1>7. ASSUME NEW s \in Side, NEW t \in Transport, Reading(s, t), Taken(s, t)
      PROVE  Wire(chan', F)
  <2>1. chan[t][Peer(s)] \in Seq(F[Peer(s)]) /\ chan[t][Peer(s)] # << >>
    BY <1>7, PeerIsOther DEF Wire, Reading
  <2>2. Tail(chan[t][Peer(s)]) \in Seq(F[Peer(s)])
    BY <2>1, HeadTailProperties
  <2>3. chan' = [chan EXCEPT ![t][Peer(s)] = Tail(chan[t][Peer(s)])]
    BY <1>7, PeerIsOther DEF Taken, FrameType
  <2> QED
    BY <2>2, <2>3, WireExcept, PeerIsOther
<1>8. ASSUME NEW s \in Side, NEW t \in Transport, ReadFatal(s, t) PROVE Wire(chan', F)
  BY <1>8, ShutWire, EmptySeq DEF ReadFatal, BindType
<1>9. ASSUME NEW s \in Side, NEW t \in Transport, ReadError(s, t) PROVE Wire(chan', F)
  BY <1>9, WireExcept, EmptySeq, PeerIsOther DEF ReadError
<1>10. ASSUME NEW s \in Side, NEW t \in Transport, Install(s, t) PROVE Wire(chan', F)
  BY <1>10, CloseEndWire DEF Install, BindType
<1>11. ASSUME NEW t \in Transport, ExitBind(t) PROVE Wire(chan', F)
  BY <1>10, <1>11, CloseEndWire, SidesExist DEF ExitBind
<1>12. ASSUME NEW t \in Transport, ExitDrop(t) PROVE Wire(chan', F)
  BY <1>1, <1>12, ShutWire, EmptySeq, SidesExist DEF ExitDrop, BindType
<1>13. ASSUME ClientBind PROVE Wire(chan', F)
  BY <1>10, <1>13, SidesExist DEF ClientBind, ShakeType
<1>14. ASSUME ClientDrop PROVE Wire(chan', F)
  BY <1>14, ShutWire, CloseEndWire, EmptySeq, SidesExist DEF ClientDrop, BindType, ShakeType
<1>15. ASSUME ClientReject PROVE Wire(chan', F)
  BY <1>15, ShutWire, EmptySeq, SidesExist DEF ClientReject, BindType
<1> QED
  <2>1. ASSUME NEW s \in Side, Local(s) PROVE Wire(chan', F)
    BY <2>1, <1>1, <1>2, <1>3, <1>4, <1>5, <1>6
       DEF Local, Write, CloseWrite, WriteTimeout, WriteError, AppRead, AckLoop, AckTake, netVars
  <2>2. ASSUME NEW s \in Side, NEW t \in Transport, ReadLoop(s, t) PROVE Wire(chan', F)
    BY <2>2, <1>1, <1>7, <1>8, <1>9
       DEF ReadLoop, ReadData, ReadFin, ReadAck, Deliver, netVars
  <2>3. ASSUME NEW t \in Transport, Negotiate(t) PROVE Wire(chan', F)
    BY <2>3, <1>1, <1>11, <1>12
       DEF Negotiate, OpenTransport, Accept, Reject, Break, netVars
  <2> QED
    BY <2>1, <2>2, <2>3, <1>13, <1>14, <1>15 DEF Next

\* The frames Write and CloseWrite have still to send, and those ackLoop holds.
Pending(p, F) ==
  /\ p \in [Side -> Frame \cup {NoFrame}]
  /\ \A s \in Side : p[s] \in F[s] \cup {NoFrame}

Acking(held, token, F) ==
  /\ held \in [Side -> [t : Transport, frame : Frame] \cup {NoAck}]
  /\ token \in [Side -> BOOLEAN]
  /\ \A s \in Side : held[s].frame \in F[s] \cup {NoFrame}

\* The steps that change the frame a Write or CloseWrite has to send.
LEMMA PendChange ==
  ASSUME Next, ~(UNCHANGED pend)
  PROVE  \/ \E s \in Side : Write(s) \/ CloseWrite(s) \/ Send(s) \/
                         WriteTimeout(s) \/ Close(s)
         \/ \E s \in Side, t \in Transport : ReadFatal(s, t)
         \/ \E t \in Transport : ExitDrop(t)
         \/ ClientDrop \/ ClientReject
<1>. DEFINE Same == UNCHANGED pend
<1>1. ASSUME NEW s \in Side, Local(s)
      PROVE  Same \/ Write(s) \/ CloseWrite(s) \/ Send(s) \/ WriteTimeout(s) \/ Close(s)
  BY <1>1 DEF Local, AckLoop, WriteError, AppRead, Activate, AckTake,
              AckSend, sendVars, recvVars, bindVars, ackVars, inVars,
              netVars, shakeVars
<1>2. ASSUME NEW s \in Side, NEW t \in Transport, ReadLoop(s, t)
      PROVE  Same \/ ReadFatal(s, t)
  BY <1>2 DEF ReadLoop, ReadData, ReadFin, ReadAck, ReadError, Deliver,
              sendVars, recvVars, bindVars, ackVars, inVars, netVars,
              shakeVars
<1>3. ASSUME NEW t \in Transport, Negotiate(t)
      PROVE  Same \/ ExitDrop(t)
  BY <1>3 DEF Negotiate, OpenTransport, Accept, Reject, ExitBind, Break,
              sendVars, recvVars, bindVars, ackVars, inVars, netVars,
              shakeVars
<1>4. ASSUME ClientBind
      PROVE  Same
  BY <1>4 DEF ClientBind, sendVars, recvVars, bindVars, ackVars, inVars,
              netVars, shakeVars
<1> QED
  BY <1>1, <1>2, <1>3, <1>4 DEF Next, Same

\* The pending frame is one that Write or CloseWrite stamped, or none.
LEMMA PendStep ==
  ASSUME FrameType, NEW F \in [Side -> SUBSET Frame], Next,
         \A s \in Side :
           /\ pend[s] \in F[s] \cup {NoFrame}
           /\ Write(s) => Stamp(s, "data", next[s]) \in F[s]
           /\ CloseWrite(s) => Stamp(s, "fin", next[s]) \in F[s]
  PROVE  Pending(pend', F)
<1>1. CASE UNCHANGED pend
  BY <1>1 DEF FrameType, Pending
<1>2. ASSUME NEW s \in Side, NEW f \in F[s] \cup {NoFrame}, pend' = [pend EXCEPT ![s] = f]
      PROVE  Pending(pend', F)
  BY <1>2 DEF FrameType, Pending
<1>3. ASSUME NEW s \in Side, pend' = [pend EXCEPT ![s] = NoFrame] PROVE Pending(pend', F)
  BY <1>2, <1>3
<1>4. ASSUME NEW s \in Side, Write(s) PROVE Pending(pend', F)
  BY <1>2, <1>4 DEF Write
<1>5. ASSUME NEW s \in Side, CloseWrite(s) PROVE Pending(pend', F)
  BY <1>2, <1>5 DEF CloseWrite
<1>6. ASSUME NEW s \in Side, Send(s) \/ WriteTimeout(s) \/ Close(s) PROVE Pending(pend', F)
  BY <1>3, <1>6 DEF Send, WriteTimeout, Close, Shut
<1>7. ASSUME NEW s \in Side, NEW t \in Transport, ReadFatal(s, t) PROVE Pending(pend', F)
  BY <1>3, <1>7 DEF ReadFatal, Shut
<1>8. ASSUME NEW t \in Transport, ExitDrop(t) PROVE Pending(pend', F)
  <2>1. pend' = [pend EXCEPT !["exit"] = NoFrame] \/ UNCHANGED pend
    BY <1>8 DEF ExitDrop, Shut
  <2> QED
    BY <1>1, <1>3, <2>1, SidesExist
<1>9. ASSUME ClientDrop PROVE Pending(pend', F)
  <2>1. pend' = [pend EXCEPT !["client"] = NoFrame] \/ UNCHANGED pend
    BY <1>9 DEF ClientDrop, Shut
  <2> QED
    BY <1>1, <1>3, <2>1, SidesExist
<1>10. ASSUME ClientReject PROVE Pending(pend', F)
  BY <1>3, <1>10, SidesExist DEF ClientReject, Shut
<1> QED
  <2>1. CASE UNCHANGED pend
    BY <1>1, <2>1
  <2>2. CASE ~(UNCHANGED pend)
    BY <1>4, <1>5, <1>6, <1>7, <1>8, <1>9, <1>10, <2>2, PendChange
  <2> QED
    BY <2>1, <2>2

\* The steps that touch Endpoint.acks or the ACK that ackLoop holds.
LEMMA AckChange ==
  ASSUME Next, ~(UNCHANGED ackVars)
  PROVE  \/ \E s \in Side : AckTake(s) \/ AckSend(s) \/ Close(s)
         \/ \E s \in Side, t \in Transport : ReadData(s, t) \/ ReadFin(s, t) \/
                                          ReadFatal(s, t)
         \/ \E t \in Transport : ExitDrop(t)
         \/ ClientDrop \/ ClientReject
<1>. DEFINE Same == UNCHANGED ackVars
<1>1. ASSUME NEW s \in Side, Local(s)
      PROVE  Same \/ Close(s) \/ AckTake(s) \/ AckSend(s)
  BY <1>1 DEF Local, AckLoop, Write, CloseWrite, Send, WriteTimeout,
              WriteError, AppRead, Activate, sendVars, recvVars, bindVars,
              ackVars, inVars, netVars, shakeVars
<1>2. ASSUME NEW s \in Side, NEW t \in Transport, ReadLoop(s, t)
      PROVE  Same \/ ReadData(s, t) \/ ReadFin(s, t) \/ ReadFatal(s, t)
  BY <1>2 DEF ReadLoop, ReadAck, ReadError, Deliver, sendVars, recvVars,
              bindVars, ackVars, inVars, netVars, shakeVars
<1>3. ASSUME NEW t \in Transport, Negotiate(t)
      PROVE  Same \/ ExitDrop(t)
  BY <1>3 DEF Negotiate, OpenTransport, Accept, Reject, ExitBind, Break,
              sendVars, recvVars, bindVars, ackVars, inVars, netVars,
              shakeVars
<1>4. ASSUME ClientBind
      PROVE  Same
  BY <1>4 DEF ClientBind, sendVars, recvVars, bindVars, ackVars, inVars,
              netVars, shakeVars
<1> QED
  BY <1>1, <1>2, <1>3, <1>4 DEF Next, Same

\* The ACK that ackLoop holds is one it stamped, or none.
LEMMA AckHeldStep ==
  ASSUME TypeOK, NEW F \in [Side -> SUBSET Frame], Next,
         \A s \in Side :
           /\ ackHeld[s].frame \in F[s] \cup {NoFrame}
           /\ Stamp(s, "ack", 0) \in F[s]
  PROVE  Acking(ackHeld', ackTok', F)
<1>. USE DEF TypeOK
<1>1. CASE ackHeld' = ackHeld /\ ackTok' \in [Side -> BOOLEAN]
  BY <1>1 DEF FrameType, Acking
<1>2. ASSUME NEW s \in Side, ackHeld' = [ackHeld EXCEPT ![s] = NoAck],
             ackTok' \in [Side -> BOOLEAN]
      PROVE  Acking(ackHeld', ackTok', F)
  BY <1>2 DEF FrameType, NoAck, Acking
<1>3. ASSUME NEW s \in Side, AckTake(s) PROVE Acking(ackHeld', ackTok', F)
  <2>1. ackTok' \in [Side -> BOOLEAN]
    BY <1>3 DEF AckTake, FrameType
  <2>2. CASE cur[s] = 0
    BY <1>1, <1>3, <2>1, <2>2 DEF AckTake
  <2>3. CASE cur[s] # 0
    <3>. DEFINE a == [t |-> cur[s], frame |-> Stamp(s, "ack", 0)]
    <3>1. ackHeld' = [ackHeld EXCEPT ![s] = a]
      BY <1>3, <2>3 DEF AckTake
    <3>2. a \in [t : Transport, frame : Frame] /\ a.frame \in F[s]
      BY <2>3 DEF BindType
    <3> HIDE DEF a
    <3> QED
      BY <2>1, <3>1, <3>2 DEF FrameType, Acking
  <2> QED
    BY <2>2, <2>3
<1>4. ASSUME NEW s \in Side, AckSend(s) PROVE Acking(ackHeld', ackTok', F)
  BY <1>2, <1>4 DEF AckSend, FrameType
<1>5. ASSUME NEW s \in Side, NEW why, NEW farewell, NEW streams,
             Shut(s, why, farewell, streams)
      PROVE  Acking(ackHeld', ackTok', F)
  BY <1>2, <1>5 DEF Shut, FrameType
<1>6. ASSUME NEW s \in Side, Close(s) PROVE Acking(ackHeld', ackTok', F)
  BY <1>5, <1>6 DEF Close
<1>7. ASSUME NEW s \in Side, NEW t \in Transport, ReadData(s, t) \/ ReadFin(s, t)
      PROVE  Acking(ackHeld', ackTok', F)
  <2>1. ackHeld' = ackHeld /\ ackTok' = [ackTok EXCEPT ![s] = TRUE]
    BY <1>7 DEF ReadData, ReadFin, QueueAck
  <2>2. ackTok' \in [Side -> BOOLEAN]
    BY <2>1 DEF FrameType
  <2> QED
    BY <1>1, <2>1, <2>2
<1>8. ASSUME NEW s \in Side, NEW t \in Transport, ReadFatal(s, t) PROVE Acking(ackHeld', ackTok', F)
  BY <1>5, <1>8 DEF ReadFatal
<1>9. CASE UNCHANGED ackVars
  BY <1>1, <1>9 DEF ackVars, FrameType
<1>10. ASSUME NEW t \in Transport, ExitDrop(t) PROVE Acking(ackHeld', ackTok', F)
  <2>1. Shut("exit", "local", << >>, {t}) \/ UNCHANGED ackVars
    BY <1>10 DEF ExitDrop
  <2> QED
    BY <1>5, <1>9, <2>1, SidesExist
<1>11. ASSUME ClientDrop PROVE Acking(ackHeld', ackTok', F)
  <2>1. Shut("client", "abort", << >>, {}) \/ UNCHANGED ackVars
    BY <1>11 DEF ClientDrop
  <2> QED
    BY <1>5, <1>9, <2>1, SidesExist
<1>12. ASSUME ClientReject PROVE Acking(ackHeld', ackTok', F)
  BY <1>5, <1>12, SidesExist DEF ClientReject
<1> QED
  <2>1. CASE ~(UNCHANGED ackVars)
    BY <1>3, <1>4, <1>6, <1>7, <1>8, <1>10, <1>11, <1>12, <2>1, AckChange
  <2> QED
    BY <1>9, <2>1

\* Every step keeps pending frames, ACKs and transports well typed.
LEMMA FrameStep ==
  ASSUME TypeOK, Next
  PROVE  FrameType'
<1>. DEFINE F == [s \in Side |-> Frame]
<1>1. ASSUME NEW s \in Side, NEW type \in {"data", "ack", "fin", "rst"}, NEW q \in Nat
      PROVE  Stamp(s, type, q) \in Frame
  BY DEF Stamp, Frame, TypeOK, LedgerType
<1>2. F \in [Side -> SUBSET Frame] /\ \A s \in Side : F[s] = Frame
  OBVIOUS
<1>3. Wire(chan, F)
  BY DEF Wire, TypeOK, FrameType
<1> HIDE DEF F
<1>4. \A s \in Side :
        /\ ReplayFrames(s) \in Seq(Frame)
        /\ Stamp(s, "data", next[s]) \in Frame /\ Stamp(s, "fin", next[s]) \in Frame
        /\ Stamp(s, "rst", next[s]) \in Frame /\ Stamp(s, "ack", 0) \in Frame
  BY <1>1, ReplaySeq DEF TypeOK, LedgerType
<1>5. \A s \in Side : /\ pend[s] \in Frame \cup {NoFrame}
                      /\ ackHeld[s].frame \in Frame \cup {NoFrame}
  BY DEF TypeOK, FrameType, NoAck
<1>6. Wire(chan', F)
  BY <1>2, <1>3, <1>4, <1>5, WireStepLemma
<1>7. Pending(pend', F)
  BY <1>2, <1>4, <1>5, PendStep DEF TypeOK
<1>8. Acking(ackHeld', ackTok', F)
  BY <1>2, <1>4, <1>5, AckHeldStep
<1> QED
  BY <1>6, <1>7, <1>8 DEF Wire, Pending, Acking, FrameType

-----------------------------------------------------------------------------
\* A new pair of endpoints is well typed.
LEMMA TypeInit == Init => TypeOK
<1>. SUFFICES ASSUME Init PROVE TypeOK
  OBVIOUS
<1>1. LedgerType
  BY DEF Init, LedgerType
<1>2. FrameType
  BY ShortSeq DEF Init, FrameType
<1>3. BindType
  BY DEF Init, BindType
<1>4. ReadType
  BY ShortSeq DEF Init, ReadType, NoHold
<1>5. ShakeType
  BY DEF Init, ShakeType
<1> QED
  BY <1>1, <1>2, <1>3, <1>4, <1>5 DEF TypeOK

\* Every step of the two endpoints and of the negotiation keeps the types.
LEMMA TypeStep == TypeOK /\ [Next]_vars => TypeOK'
<1>. SUFFICES ASSUME TypeOK, [Next]_vars PROVE TypeOK'
  OBVIOUS
<1>1. CASE Next
  BY <1>1, LedgerStep, FrameStep, BindStep, ReadStep, ShakeStep DEF TypeOK
<1>2. CASE UNCHANGED vars
  BY <1>2 DEF vars, sendVars, recvVars, bindVars, ackVars, inVars, netVars,
              shakeVars, TypeOK, LedgerType, FrameType, BindType, ReadType, ShakeType
<1> QED
  BY <1>1, <1>2

\* For any bounds, any number of transports and any buffer limits, every
\* field keeps holding what its Go type and its meaning allow: in particular an
\* offset is never computed below zero and only frames are on the wire.
THEOREM TypeInvariant == Spec => []TypeOK
BY TypeInit, TypeStep, PTL DEF Spec

-----------------------------------------------------------------------------

(* The inductive invariant.  AckedAccepted relates the ledgers of the two    *)
(* sides, but what a side does next depends on frames that were stamped     *)
(* long ago, so the invariant also says that every frame under way is true  *)
(* of its sender's ledger.  Offsets only grow, so it remains true.          *)

\* Frames that claim no more than their sender s has accepted and written.
Truthful(s) ==
  {f \in Frame :
     /\ f.ack <= expected[s]
     /\ f.finAck => rfin[s] /\ f.ack = expected[s]
     /\ f.type = "data" => f.seq < next[s]
     /\ f.type = "fin" => lfin[s] /\ f.seq = next[s]}

\* All frames under way are truthful.
TruthfulFrames ==
  /\ Wire(chan, [s \in Side |-> Truthful(s)])
  /\ \A s \in Side : /\ pend[s] \in Truthful(s) \cup {NoFrame}
                     /\ ackHeld[s].frame \in Truthful(s) \cup {NoFrame}

IInv == TypeOK /\ AckedAccepted /\ TruthfulFrames

\* What a readLoop is about to handle tells the truth about its sender.
LEMMA IncomingIsTruthful ==
  ASSUME IInv, NEW s \in Side, NEW t \in Transport, Reading(s, t)
  PROVE  Incoming(s, t) \in Truthful(Peer(s))
<1>1. chan[t][Peer(s)] \in Seq(Truthful(Peer(s))) /\ chan[t][Peer(s)] # << >>
  BY PeerIsOther DEF IInv, TruthfulFrames, Wire, Reading
<1> QED
  BY <1>1, HeadTailProperties DEF Incoming

\* The inductive invariant holds before anything is sent.
LEMMA InitInductive == Init => IInv
<1>. SUFFICES ASSUME Init PROVE IInv
  OBVIOUS
<1>1. AckedAccepted
  BY PeerIsOther DEF Init, AckedAccepted
<1>2. Wire(chan, [s \in Side |-> Truthful(s)])
  BY ShortSeq DEF Init, Wire
<1>3. \A s \in Side : /\ pend[s] \in Truthful(s) \cup {NoFrame}
                      /\ ackHeld[s].frame \in Truthful(s) \cup {NoFrame}
  BY DEF Init, NoAck
<1> QED
  BY <1>1, <1>2, <1>3, TypeInit DEF IInv, TruthfulFrames

\* handleBorrowed on the ledgers: the acknowledgement, then nothing new, the
\* next chunk, or the FIN.
Taking(s, f) ==
  /\ AckApplied(s, f)
  /\ \/ UNCHANGED recvVars
     \/ /\ f.type = "data" /\ f.seq = expected[s] /\ ~rfin[s]
        /\ expected' = [expected EXCEPT ![s] = @ + 1] /\ rfin' = rfin
     \/ /\ f.type = "fin" /\ f.seq = expected[s]
        /\ rfin' = [rfin EXCEPT ![s] = TRUE] /\ expected' = expected

\* The ledgers change only when an application writes or half-closes, or
\* when a truthful frame is taken: handleBorrowed in three cases.
LEMMA LedgerMove ==
  ASSUME IInv, Next
  PROVE  \/ UNCHANGED <<sendVars, recvVars>>
         \/ \E s \in Side : Write(s) \/ CloseWrite(s)
         \/ \E s \in Side : \E f \in Truthful(Peer(s)) : Taking(s, f)
<1>1. ASSUME NEW s \in Side, NEW t \in Transport, Reading(s, t), Taking(s, Incoming(s, t))
      PROVE  \E f \in Truthful(Peer(s)) : Taking(s, f)
  BY <1>1, IncomingIsTruthful
<1>2. ASSUME NEW s \in Side, NEW t \in Transport, ReadData(s, t)
      PROVE  \E f \in Truthful(Peer(s)) : Taking(s, f)
  <2>1. Incoming(s, t) \in Frame /\ expected[s] \in Nat
    BY <1>2, IncomingIsFrame DEF IInv, TypeOK, LedgerType, ReadData
  <2>2. Taking(s, Incoming(s, t))
    BY <1>2, <2>1 DEF ReadData, Taking, ReceiveValid, Fresh, recvVars, Frame
  <2> QED
    BY <1>1, <1>2, <2>2 DEF ReadData
<1>3. ASSUME NEW s \in Side, NEW t \in Transport, ReadFin(s, t)
      PROVE  \E f \in Truthful(Peer(s)) : Taking(s, f)
  BY <1>1, <1>3 DEF ReadFin, Taking, ReceiveValid
<1>4. ASSUME NEW s \in Side, NEW t \in Transport, ReadAck(s, t)
      PROVE  \E f \in Truthful(Peer(s)) : Taking(s, f)
  BY <1>1, <1>4 DEF ReadAck, Taking
<1>5. ASSUME NEW s \in Side, NEW t \in Transport, ReadFatal(s, t)
      PROVE  \/ UNCHANGED <<sendVars, recvVars>>
             \/ \E f \in Truthful(Peer(s)) : Taking(s, f)
  <2>1. Reading(s, t) /\ UNCHANGED recvVars
        /\ (AckApplied(s, Incoming(s, t)) \/ UNCHANGED sendVars)
    BY <1>5 DEF ReadFatal
  <2> QED
    BY <1>1, <2>1 DEF Taking
<1> QED
  BY <1>2, <1>3, <1>4, <1>5, LedgerChange

\* A truthful acknowledgement releases only accepted chunks, and a chunk or
\* FIN at the expected offset is one the peer wrote.
LEMMA AckedStep ==
  ASSUME IInv, Next
  PROVE  AckedAccepted'
<1>. USE DEF IInv, TypeOK
<1>1. CASE UNCHANGED <<sendVars, recvVars>>
  BY <1>1 DEF AckedAccepted, sendVars, recvVars
<1>2. ASSUME NEW s \in Side, Write(s) PROVE AckedAccepted'
  BY <1>2, PeerIsOther DEF Write, Writable, recvVars, AckedAccepted, LedgerType
<1>3. ASSUME NEW s \in Side, CloseWrite(s) PROVE AckedAccepted'
  BY <1>3, PeerIsOther DEF CloseWrite, Writable, recvVars, AckedAccepted, LedgerType
<1>4. ASSUME NEW s \in Side, NEW f \in Truthful(Peer(s)), Taking(s, f)
      PROVE  AckedAccepted'
  <2>1. f.ack \in Nat /\ f.seq \in Nat
    BY DEF Truthful, Frame
  <2>2. UNCHANGED <<next, lfin>>
    BY <1>4 DEF Taking, AckApplied
  <2>3. acked'[s] <= expected[Peer(s)] /\ (lfinAck'[s] => rfin[Peer(s)])
    BY <1>4, <2>1 DEF Taking, AckApplied, Truthful, AckedAccepted, LedgerType
  <2>4. acked'[Peer(s)] = acked[Peer(s)] /\ lfinAck'[Peer(s)] = lfinAck[Peer(s)]
    BY <1>4, PeerIsOther DEF Taking, AckApplied, LedgerType
  <2>5. expected'[Peer(s)] = expected[Peer(s)] /\ rfin'[Peer(s)] = rfin[Peer(s)]
    BY <1>4, PeerIsOther DEF Taking, LedgerType, recvVars
  <2>6. /\ expected[s] <= expected'[s] /\ expected'[s] <= next[Peer(s)]
        /\ rfin[s] => rfin'[s]
        /\ rfin'[s] => lfin[Peer(s)] /\ expected'[s] = next[Peer(s)]
    BY <1>4, <2>1, PeerIsOther DEF Taking, LedgerType, Truthful, AckedAccepted, recvVars
  <2>7. \A r \in Side : r = s \/ r = Peer(s)
    BY DEF Side, Peer
  <2>8. acked'[s] \in Nat /\ acked[Peer(s)] \in Nat /\ expected'[s] \in Nat /\ expected[s] \in Nat
    BY LedgerStep, PeerIsOther DEF LedgerType
  <2>9. /\ acked'[Peer(s)] <= expected'[s] /\ expected'[s] <= next'[Peer(s)]
        /\ lfinAck'[Peer(s)] => rfin'[s]
        /\ rfin'[s] => lfin'[Peer(s)] /\ expected'[s] = next'[Peer(s)]
    BY <2>2, <2>4, <2>6, <2>8, PeerIsOther DEF AckedAccepted
  <2>10. /\ acked'[s] <= expected'[Peer(s)] /\ expected'[Peer(s)] <= next'[s]
         /\ lfinAck'[s] => rfin'[Peer(s)]
         /\ rfin'[Peer(s)] => lfin'[s] /\ expected'[Peer(s)] = next'[s]
    BY <2>2, <2>3, <2>5 DEF AckedAccepted
  <2> QED
    BY <2>7, <2>9, <2>10, PeerIsOther DEF AckedAccepted
<1> QED
  BY <1>1, <1>2, <1>3, <1>4, LedgerMove

\* Offsets only grow and nothing is written after CloseWrite, so what was
\* once true of a sender stays true.
LEMMA LedgerGrows ==
  ASSUME IInv, Next, NEW s \in Side
  PROVE  /\ next[s] <= next'[s] /\ expected[s] <= expected'[s]
         /\ rfin[s] => rfin'[s] /\ expected'[s] = expected[s]
         /\ lfin[s] => lfin'[s] /\ next'[s] = next[s]
<1>. USE DEF IInv, TypeOK, LedgerType
<1>1. CASE UNCHANGED <<sendVars, recvVars>>
  BY <1>1 DEF sendVars, recvVars
<1>2. ASSUME NEW r \in Side, Write(r) \/ CloseWrite(r)
      PROVE  /\ next[s] <= next'[s] /\ expected[s] <= expected'[s]
             /\ rfin[s] => rfin'[s] /\ expected'[s] = expected[s]
             /\ lfin[s] => lfin'[s] /\ next'[s] = next[s]
  BY <1>2 DEF Write, CloseWrite, Writable, recvVars
<1>3. ASSUME NEW r \in Side, NEW f \in Truthful(Peer(r)), Taking(r, f)
      PROVE  /\ next[s] <= next'[s] /\ expected[s] <= expected'[s]
             /\ rfin[s] => rfin'[s] /\ expected'[s] = expected[s]
             /\ lfin[s] => lfin'[s] /\ next'[s] = next[s]
  BY <1>3 DEF Taking, AckApplied, recvVars
<1> QED
  BY <1>1, <1>2, <1>3, LedgerMove

\* A frame that told the truth when it was stamped still does when a later
\* step finds it on a lost or replaced transport.
LEMMA TruthfulGrows ==
  ASSUME IInv, Next, NEW s \in Side
  PROVE  Truthful(s) \subseteq Truthful(s)'
<1>. SUFFICES ASSUME NEW f \in Truthful(s) PROVE f \in Truthful(s)'
  OBVIOUS
<1>1. f \in Frame /\ f.ack \in Nat /\ f.seq \in Nat
  BY DEF Truthful, Frame
<1>2. LedgerType /\ LedgerType'
  BY LedgerStep DEF IInv, TypeOK
<1> QED
  BY <1>1, <1>2, LedgerGrows DEF Truthful, LedgerType

\* StreamState.receiveState stamps the truth on DATA, FIN, ACK and RST.
LEMMA StampTruthful ==
  ASSUME IInv, Next, NEW s \in Side
  PROVE  /\ \A n \in Nat : n < next[s] => Stamp(s, "data", n) \in Truthful(s)
         /\ lfin[s] => Stamp(s, "fin", next[s]) \in Truthful(s)
         /\ Stamp(s, "rst", next[s]) \in Truthful(s)
         /\ Stamp(s, "ack", 0) \in Truthful(s)
         /\ Write(s) => Stamp(s, "data", next[s]) \in Truthful(s)'
         /\ CloseWrite(s) => Stamp(s, "fin", next[s]) \in Truthful(s)'
<1>1. /\ next[s] \in Nat /\ expected[s] \in Nat /\ rfin[s] \in BOOLEAN
      /\ next'[s] \in Nat
  BY LedgerStep DEF IInv, TypeOK, LedgerType
<1>2. ASSUME NEW type \in {"data", "ack", "fin", "rst"}, NEW n \in Nat
      PROVE  /\ Stamp(s, type, n) \in Frame
             /\ Stamp(s, type, n).ack = expected[s]
             /\ Stamp(s, type, n).finAck = rfin[s]
             /\ Stamp(s, type, n).seq = n /\ Stamp(s, type, n).type = type
  BY <1>1 DEF Stamp, Frame
<1>3. \A n \in Nat : n < next[s] => Stamp(s, "data", n) \in Truthful(s)
  BY <1>1, <1>2 DEF Truthful
<1>4. lfin[s] => Stamp(s, "fin", next[s]) \in Truthful(s)
  BY <1>1, <1>2 DEF Truthful
<1>5. Stamp(s, "rst", next[s]) \in Truthful(s) /\ Stamp(s, "ack", 0) \in Truthful(s)
  BY <1>1, <1>2 DEF Truthful
<1>6. ASSUME Write(s) PROVE Stamp(s, "data", next[s]) \in Truthful(s)'
  <2>1. next'[s] = next[s] + 1 /\ expected' = expected /\ rfin' = rfin
    BY <1>6 DEF Write, recvVars, IInv, TypeOK, LedgerType
  <2> QED
    BY <1>1, <1>2, <2>1 DEF Truthful
<1>7. ASSUME CloseWrite(s) PROVE Stamp(s, "fin", next[s]) \in Truthful(s)'
  <2>1. next' = next /\ lfin'[s] /\ expected' = expected /\ rfin' = rfin
    BY <1>7 DEF CloseWrite, recvVars, IInv, TypeOK, LedgerType
  <2> QED
    BY <1>1, <1>2, <2>1 DEF Truthful
<1> QED
  BY <1>3, <1>4, <1>5, <1>6, <1>7

\* Every frame that a step sends, keeps or replays is truthful.
LEMMA TruthfulStep ==
  ASSUME IInv, Next
  PROVE  TruthfulFrames'
<1>. DEFINE F == [s \in Side |-> Truthful(s)']
<1>1. F \in [Side -> SUBSET Frame] /\ \A s \in Side : F[s] = Truthful(s)'
  BY DEF Truthful
<1>2. \A s \in Side : Truthful(s) \subseteq F[s]
  BY <1>1, TruthfulGrows
<1>3. Wire(chan, F)
  <2>1. ASSUME NEW t \in Transport, NEW s \in Side PROVE chan[t][s] \in Seq(F[s])
    <3>1. chan[t][s] \in Seq(Truthful(s))
      BY DEF IInv, TruthfulFrames, Wire
    <3> QED
      BY <1>2, <3>1, SeqMonotonic
  <2> QED
    BY <2>1 DEF Wire, IInv, TypeOK, FrameType
<1> HIDE DEF F
<1>4. \A s \in Side :
        /\ ReplayFrames(s) \in Seq(F[s]) /\ Stamp(s, "rst", next[s]) \in F[s]
        /\ Stamp(s, "ack", 0) \in F[s]
        /\ Write(s) => Stamp(s, "data", next[s]) \in F[s]
        /\ CloseWrite(s) => Stamp(s, "fin", next[s]) \in F[s]
  <2>1. ASSUME NEW s \in Side PROVE ReplayFrames(s) \in Seq(F[s])
    BY <1>2, StampTruthful, ReplaySeq DEF IInv, TypeOK
  <2> QED
    BY <1>1, <1>2, <2>1, StampTruthful
<1>5. \A s \in Side : /\ pend[s] \in F[s] \cup {NoFrame}
                      /\ ackHeld[s].frame \in F[s] \cup {NoFrame}
  BY <1>2 DEF IInv, TruthfulFrames
<1>6. Wire(chan', F)
  BY <1>1, <1>3, <1>4, <1>5, WireStepLemma DEF IInv
<1>7. Pending(pend', F)
  BY <1>1, <1>4, <1>5, PendStep DEF IInv, TypeOK
<1>8. Acking(ackHeld', ackTok', F)
  BY <1>1, <1>4, <1>5, AckHeldStep DEF IInv
<1>9. Wire(chan, [s \in Side |-> Truthful(s)])'
  BY <1>6 DEF Wire, F
<1> QED
  BY <1>1, <1>7, <1>8, <1>9 DEF TruthfulFrames, Pending, Acking

\* The invariant is inductive.
LEMMA InductiveStep == IInv /\ [Next]_vars => IInv'
<1>1. ASSUME IInv, Next PROVE IInv'
  BY <1>1, TypeStep, AckedStep, TruthfulStep DEF IInv
<1>2. ASSUME IInv, UNCHANGED vars PROVE IInv'
  <2>1. TypeOK'
    BY <1>2, TypeStep DEF IInv
  <2>2. UNCHANGED <<next, acked, lfin, lfinAck, expected, rfin, pend, ackHeld, chan>>
    BY <1>2 DEF vars, sendVars, recvVars, ackVars, netVars
  <2>3. AckedAccepted'
    BY <1>2, <2>2 DEF IInv, AckedAccepted
  <2>4. TruthfulFrames'
    BY <1>2, <2>2 DEF IInv, TruthfulFrames, Wire, Truthful
  <2> QED
    BY <2>1, <2>3, <2>4 DEF IInv
<1> QED
  BY <1>1, <1>2

\* ReplayBuffer.Ack never releases a chunk the peer has not accepted, and a
\* FIN stops being replayed only after the peer recorded it, however many
\* transports are lost and replaced, and whatever the buffer limits.
THEOREM AcknowledgedIsAccepted == Spec => []AckedAccepted
<1>1. IInv => AckedAccepted
  BY DEF IInv
<1> QED
  BY InitInductive, InductiveStep, <1>1, PTL DEF Spec

-----------------------------------------------------------------------------
(* How a step moves the frames that p wrote to t: not at all, it cuts them  *)
(* off because the reader's end closes, takes the first, or adds to them.   *)

Cut(t, p) ==
  /\ chan'[t][p] \in {<< >>, InHand(Peer(p), t)}
  /\ closed'[Peer(p)] # "no" \/ ~open'[t][Peer(p)]

Took(t, p) ==
  /\ ReadData(Peer(p), t) \/ ReadFin(Peer(p), t) \/ ReadAck(Peer(p), t)
  /\ chan'[t][p] = Tail(chan[t][p])

Wrote(t, p) ==
  /\ t = cur[p] /\ Up(t)
  /\ \/ Send(p) /\ chan'[t][p] = chan[t][p] \o <<pend[p]>>
     \/ Activate(p) /\ chan'[t][p] = chan[t][p] \o ReplayFrames(p)
     \/ \E f \in Frame : /\ f.type \in {"rst", "ack"}
                         /\ chan'[t][p] = chan[t][p] \o <<f>>

ChanMove(t, p) ==
  chan'[t][p] = chan[t][p] \/ Cut(t, p) \/ Took(t, p) \/ Wrote(t, p)

\* A write reaches its own direction of its own transport, if that is up.
LEMMA SentMove ==
  ASSUME TypeOK, NEW s \in Side, NEW u \in Transport, NEW q,
         NEW c, c = Sent(u, s, q), NEW t \in Transport, NEW p \in Side
  PROVE  \/ c[t][p] = chan[t][p]
         \/ /\ t = u /\ p = s /\ Up(t)
            /\ c[t][p] = chan[t][p] \o q
BY DEF Sent, TypeOK, FrameType

\* Closing one's end cuts the frames of the peer.
LEMMA CloseEndMove ==
  ASSUME TypeOK, NEW s \in Side, NEW u \in Transport \cup {0}, CloseEnd(s, u),
         NEW t \in Transport, NEW p \in Side
  PROVE  ChanMove(t, p)
<1>1. CASE u = 0
  BY <1>1 DEF CloseEnd, netVars, ChanMove
<1>2. CASE u # 0
  <2>1. /\ chan' = [chan EXCEPT ![u][Peer(s)] = InHand(s, u)]
        /\ open' = [open EXCEPT ![u][s] = FALSE]
        /\ u \in Transport
    BY <1>2 DEF CloseEnd
  <2>2. CASE t = u /\ p = Peer(s)
    BY <2>1, <2>2, PeerIsOther DEF TypeOK, FrameType, BindType, ChanMove, Cut
  <2>3. CASE ~(t = u /\ p = Peer(s))
    BY <2>1, <2>3, PeerIsOther DEF TypeOK, FrameType, ChanMove
  <2> QED
    BY <2>2, <2>3
<1> QED
  BY <1>1, <1>2

\* The end of an endpoint cuts the frames of the peer everywhere and adds at
\* most the RST to its own.
LEMMA ShutMove ==
  ASSUME TypeOK, NEW s \in Side, NEW farewell, NEW streams,
         NEW why \in {"local", "reset", "protocol", "abort"},
         farewell = << >> \/ \E f \in Frame : f.type = "rst" /\ farewell = <<f>>,
         Shut(s, why, farewell, streams),
         NEW t \in Transport, NEW p \in Side
  PROVE  ChanMove(t, p)
<1>. DEFINE c == IF cur[s] = 0 THEN chan ELSE Sent(cur[s], s, farewell)
<1>1. chan' = [u \in Transport |-> [c[u] EXCEPT ![Peer(s)] = << >>]]
  BY DEF Shut
<1>2. closed'[s] = why /\ why # "no"
  BY DEF Shut, TypeOK, BindType
<1>3. c[t] = [q \in Side |-> c[t][q]]
  BY DEF Sent, TypeOK, FrameType
<1>4. CASE p = Peer(s)
  <2>1. chan'[t][p] = << >>
    <3> HIDE DEF c
    <3> QED
      BY <1>1, <1>3, <1>4, PeerIsOther
  <2> QED
    BY <2>1, <1>2, <1>4, PeerIsOther DEF ChanMove, Cut
<1>5. CASE p # Peer(s)
  <2>1. chan'[t][p] = c[t][p] /\ p = s
    <3>1. p = s
      BY <1>5 DEF Side, Peer
    <3> HIDE DEF c
    <3> QED
      BY <3>1, <1>1, <1>3, <1>5
  <2>2. cur[s] \in Transport \cup {0}
    BY DEF TypeOK, BindType
  <2>3. \/ chan'[t][p] = chan[t][p]
        \/ /\ t = cur[p] /\ Up(t)
           /\ chan'[t][p] = chan[t][p] \o farewell
    <3>1. CASE cur[s] = 0
      BY <2>1, <3>1
    <3>2. CASE cur[s] # 0
      <4>1. cur[s] \in Transport /\ c = Sent(cur[s], s, farewell)
        BY <2>2, <3>2
      <4> HIDE DEF c
      <4>2. \/ c[t][p] = chan[t][p]
            \/ t = cur[s] /\ p = s /\ Up(t) /\ c[t][p] = chan[t][p] \o farewell
        BY <4>1, SentMove
      <4> QED
        BY <4>2, <2>1
    <3> QED
      BY <3>1, <3>2
  <2>4. chan[t][p] \in Seq(Frame)
    BY DEF TypeOK, FrameType
  <2>5. CASE farewell = << >>
    BY <2>3, <2>4, <2>5, ConcatProperties, EmptySeq DEF ChanMove
  <2>6. CASE \E f \in Frame : f.type = "rst" /\ farewell = <<f>>
    BY <2>3, <2>6 DEF ChanMove, Wrote
  <2> QED
    BY <2>5, <2>6
<1> QED
  BY <1>4, <1>5

\* ackLoop holds an ACK, or nothing.
AckIsAck == \A s \in Side : ackHeld[s] # NoAck => ackHeld[s].frame.type = "ack"

\* Every step moves the frames on a transport in one of the four ways.
LEMMA ChannelMoves ==
  ASSUME TypeOK, AckIsAck, Next, NEW t \in Transport, NEW p \in Side
  PROVE  ChanMove(t, p)
<1>1. CASE UNCHANGED chan
  BY <1>1 DEF ChanMove
<1>2. ASSUME NEW s \in Side, Send(s) PROVE ChanMove(t, p)
  <2>1. chan' = Sent(cur[s], s, <<pend[s]>>) /\ cur[s] \in Transport
    BY <1>2 DEF Send, TypeOK, BindType
  <2>2. \/ chan'[t][p] = chan[t][p]
        \/ t = cur[s] /\ p = s /\ Up(t) /\ chan'[t][p] = chan[t][p] \o <<pend[s]>>
    <3>. DEFINE q == <<pend[s]>>
    <3>1. chan' = Sent(cur[s], s, q) /\ cur[s] \in Transport
      BY <2>1
    <3> HIDE DEF q
    <3>2. \/ chan'[t][p] = chan[t][p]
          \/ t = cur[s] /\ p = s /\ Up(t) /\ chan'[t][p] = chan[t][p] \o q
      BY <3>1, SentMove
    <3> QED
      BY <3>2 DEF q
  <2> QED
    BY <1>2, <2>2 DEF ChanMove, Wrote
<1>3. ASSUME NEW s \in Side, Lose(s) PROVE ChanMove(t, p)
  BY <1>3, CloseEndMove DEF Lose, TypeOK, BindType
<1>4. ASSUME NEW s \in Side, Close(s) PROVE ChanMove(t, p)
  <2>1. PICK farewell \in {<< >>, <<Stamp(s, "rst", next[s])>>} :
          Shut(s, "local", farewell, {})
    BY <1>4 DEF Close
  <2>2. Stamp(s, "rst", next[s]) \in Frame /\ Stamp(s, "rst", next[s]).type = "rst"
    BY DEF Stamp, Frame, TypeOK, LedgerType
  <2> QED
    BY <2>1, <2>2, ShutMove
<1>5. ASSUME NEW s \in Side, Activate(s) PROVE ChanMove(t, p)
  <2>1. chan' = Sent(cur[s], s, ReplayFrames(s)) /\ cur[s] \in Transport
    BY <1>5 DEF Activate, TypeOK, BindType
  <2>2. \/ chan'[t][p] = chan[t][p]
        \/ t = cur[s] /\ p = s /\ Up(t) /\ chan'[t][p] = chan[t][p] \o ReplayFrames(s)
    BY <2>1, SentMove
  <2> QED
    BY <1>5, <2>2 DEF ChanMove, Wrote
<1>6. ASSUME NEW s \in Side, AckSend(s) PROVE ChanMove(t, p)
  <2>1. CASE UNCHANGED chan \/ Lose(s)
    BY <1>1, <1>3, <2>1
  <2>2. CASE cur[s] = ackHeld[s].t /\ chan' = Sent(cur[s], s, <<ackHeld[s].frame>>)
    <3>1. /\ ackHeld[s].t \in Transport /\ ackHeld[s].frame \in Frame
          /\ ackHeld[s].frame.type = "ack"
      BY <1>6 DEF AckSend, AckIsAck, TypeOK, FrameType
    <3>2. \/ chan'[t][p] = chan[t][p]
          \/ /\ t = cur[s] /\ p = s /\ Up(t)
             /\ chan'[t][p] = chan[t][p] \o <<ackHeld[s].frame>>
      <4>. DEFINE q == <<ackHeld[s].frame>>
      <4>1. chan' = Sent(cur[s], s, q) /\ cur[s] \in Transport
        BY <2>2, <3>1
      <4> HIDE DEF q
      <4>2. \/ chan'[t][p] = chan[t][p]
            \/ t = cur[s] /\ p = s /\ Up(t) /\ chan'[t][p] = chan[t][p] \o q
        BY <4>1, SentMove
      <4> QED
        BY <4>2 DEF q
    <3> QED
      BY <3>1, <3>2 DEF ChanMove, Wrote
  <2> QED
    BY <1>6, <2>1, <2>2 DEF AckSend
<1>7. ASSUME NEW s \in Side, NEW u \in Transport, Taken(s, u),
             ReadData(s, u) \/ ReadFin(s, u) \/ ReadAck(s, u)
      PROVE  ChanMove(t, p)
  <2>1. chan' = [chan EXCEPT ![u][Peer(s)] = Tail(chan[u][Peer(s)])]
    BY <1>7, PeerIsOther DEF Taken, TypeOK, FrameType
  <2>2. CASE t = u /\ p = Peer(s)
    BY <1>7, <2>1, <2>2, PeerIsOther DEF TypeOK, FrameType, ChanMove, Took
  <2>3. CASE ~(t = u /\ p = Peer(s))
    BY <2>1, <2>3, PeerIsOther DEF TypeOK, FrameType, ChanMove
  <2> QED
    BY <2>2, <2>3
<1>8. ASSUME NEW s \in Side, NEW u \in Transport, ReadFatal(s, u) PROVE ChanMove(t, p)
  BY <1>8, ShutMove DEF ReadFatal
<1>9. ASSUME NEW s \in Side, NEW u \in Transport, ReadError(s, u) PROVE ChanMove(t, p)
  <2>1. /\ chan' = [chan EXCEPT ![u][Peer(s)] = << >>]
        /\ open' = [open EXCEPT ![u][s] = FALSE]
    BY <1>9 DEF ReadError
  <2>2. CASE t = u /\ p = Peer(s)
    BY <2>1, <2>2, PeerIsOther DEF TypeOK, FrameType, BindType, ChanMove, Cut
  <2>3. CASE ~(t = u /\ p = Peer(s))
    BY <2>1, <2>3, PeerIsOther DEF TypeOK, FrameType, ChanMove
  <2> QED
    BY <2>2, <2>3
<1>10. ASSUME NEW s \in Side, NEW u \in Transport, Install(s, u) PROVE ChanMove(t, p)
  BY <1>10, CloseEndMove DEF Install, TypeOK, BindType
<1>11. ASSUME NEW u \in Transport, ExitBind(u) PROVE ChanMove(t, p)
  BY <1>10, <1>11, CloseEndMove, SidesExist DEF ExitBind
<1>12. ASSUME NEW u \in Transport, ExitDrop(u) PROVE ChanMove(t, p)
  BY <1>1, <1>12, ShutMove, SidesExist DEF ExitDrop
<1>13. ASSUME ClientBind PROVE ChanMove(t, p)
  BY <1>10, <1>13, SidesExist DEF ClientBind, TypeOK, ShakeType
<1>14. ASSUME ClientDrop PROVE ChanMove(t, p)
  BY <1>14, ShutMove, CloseEndMove, SidesExist DEF ClientDrop, TypeOK, ShakeType
<1>15. ASSUME ClientReject PROVE ChanMove(t, p)
  BY <1>15, ShutMove, SidesExist DEF ClientReject
<1> QED
  <2>1. ASSUME NEW s \in Side, Local(s) PROVE ChanMove(t, p)
    BY <2>1, <1>1, <1>2, <1>3, <1>4, <1>5, <1>6
       DEF Local, Write, CloseWrite, WriteTimeout, WriteError, AppRead, AckLoop, AckTake, netVars
  <2>2. ASSUME NEW s \in Side, NEW u \in Transport, ReadLoop(s, u) PROVE ChanMove(t, p)
    BY <2>2, <1>1, <1>7, <1>8, <1>9
       DEF ReadLoop, ReadData, ReadFin, ReadAck, Deliver, netVars
  <2>3. ASSUME NEW u \in Transport, Negotiate(u) PROVE ChanMove(t, p)
    BY <2>3, <1>1, <1>11, <1>12
       DEF Negotiate, OpenTransport, Accept, Reject, Break, netVars
  <2> QED
    BY <2>1, <2>2, <2>3, <1>13, <1>14, <1>15 DEF Next

\* A step leaves the transport of p alone, makes it ready, drops it, or
\* binds the one that was negotiated.
LEMMA BindMoves ==
  ASSUME TypeOK, Next, NEW p \in Side
  PROVE  \/ cur'[p] = cur[p] /\ (ready'[p] = ready[p] \/ Activate(p))
         \/ cur'[p] = 0
         \/ ClientBind /\ p = "client" /\ cur'[p] = offer /\ ~ready'[p]
         \/ \E t \in Transport :
              ExitBind(t) /\ p = "exit" /\ cur'[p] = t /\ ~ready'[p]
<1>. DEFINE Goal == \/ cur'[p] = cur[p] /\ (ready'[p] = ready[p] \/ Activate(p))
                    \/ cur'[p] = 0
                    \/ ClientBind /\ p = "client" /\ cur'[p] = offer /\ ~ready'[p]
                    \/ \E t \in Transport :
                         ExitBind(t) /\ p = "exit" /\ cur'[p] = t /\ ~ready'[p]
<1>. SUFFICES Goal
  OBVIOUS
<1>. USE DEF TypeOK, BindType
<1>1. CASE UNCHANGED <<cur, ready>>
  BY <1>1
<1>2. ASSUME NEW s \in Side, cur' = [cur EXCEPT ![s] = 0],
             ready' = [ready EXCEPT ![s] = FALSE]
      PROVE  Goal
  BY <1>2
<1>3. ASSUME NEW s \in Side, Lose(s) PROVE Goal
  BY <1>2, <1>3 DEF Lose
<1>4. ASSUME NEW s \in Side, NEW why, NEW farewell, NEW streams,
             Shut(s, why, farewell, streams)
      PROVE  Goal
  BY <1>2, <1>4 DEF Shut
<1>5. ASSUME NEW s \in Side, WriteError(s) \/ AckSend(s) PROVE Goal
  BY <1>1, <1>3, <1>5 DEF WriteError, AckSend, bindVars
<1>6. ASSUME NEW s \in Side, Close(s) PROVE Goal
  BY <1>4, <1>6 DEF Close
<1>7. ASSUME NEW s \in Side, Activate(s) PROVE Goal
  BY <1>7 DEF Activate
<1>8. ASSUME NEW s \in Side, NEW t \in Transport, ReadFatal(s, t) PROVE Goal
  BY <1>4, <1>8 DEF ReadFatal
<1>9. ASSUME NEW s \in Side, NEW t \in Transport, ReadError(s, t) PROVE Goal
  <2>1. CASE cur[s] = t
    BY <1>2, <1>9, <2>1 DEF ReadError
  <2>2. CASE cur[s] # t
    BY <1>1, <1>9, <2>2 DEF ReadError, bindVars
  <2> QED
    BY <2>1, <2>2
<1>10. ASSUME NEW t \in Transport,
              OpenTransport(t) \/ Reject(t) \/ Break(t)
       PROVE  Goal
  BY <1>1, <1>10 DEF OpenTransport, Reject, Break, bindVars
<1>11. ASSUME NEW t \in Transport, ExitBind(t) PROVE Goal
  <2>1. CASE Install("exit", t)
    BY <1>11, <2>1, SidesExist DEF Install
  <2>2. CASE UNCHANGED bindVars
    BY <1>1, <2>2 DEF bindVars
  <2> QED
    BY <1>11, <2>1, <2>2 DEF ExitBind
<1>12. ASSUME NEW t \in Transport, ExitDrop(t) PROVE Goal
  BY <1>1, <1>4, <1>12, SidesExist DEF ExitDrop, bindVars
<1>13. CASE ClientBind
  <2>1. Install("client", offer)
    BY <1>13 DEF ClientBind
  <2> QED
    BY <1>13, <2>1, SidesExist DEF Install
<1>14. CASE ClientDrop \/ ClientReject
  BY <1>1, <1>4, <1>14, SidesExist DEF ClientDrop, ClientReject, bindVars
<1> HIDE DEF Goal, TypeOK, BindType
<1> QED
  <2>1. CASE ~(UNCHANGED <<bindVars, closed, open, broken>>)
    BY <2>1, <1>5, <1>6, <1>7, <1>8, <1>9, <1>10, <1>11, <1>12, <1>13, <1>14,
       BindChange
  <2>2. CASE UNCHANGED <<bindVars, closed, open, broken>>
    BY <2>2, <1>1 DEF bindVars
  <2> QED
    BY <2>1, <2>2

\* A transport that is up was up before, or was opened by this step.
LEMMA UpMoves ==
  ASSUME TypeOK, Next, NEW t \in Transport, Up(t)'
  PROVE  Up(t) \/ OpenTransport(t)
<1>. USE SidesExist DEF TypeOK, BindType
<1>1. ASSUME NEW s \in Side, NEW u \in Transport \cup {0}, CloseEnd(s, u), broken' = broken
      PROVE  Up(t)
  <2>1. \A r \in Side : open'[t][r] => open[t][r]
    BY <1>1 DEF CloseEnd, netVars
  <2> QED
    BY <1>1, <2>1 DEF Up
<1>2. ASSUME NEW s \in Side, NEW why, NEW farewell, NEW streams,
             Shut(s, why, farewell, streams), broken' = broken
      PROVE  Up(t)
  <2>1. open'[t] = [open[t] EXCEPT ![s] = /\ @
                                          /\ t # cur[s] /\ t \notin streams
                                          /\ s = "client" => t # offer]
    BY <1>2 DEF Shut
  <2>2. \A r \in Side : open'[t][r] => open[t][r]
    BY <2>1
  <2> QED
    BY <1>2, <2>2 DEF Up
<1>3. ASSUME NEW s \in Side, NEW u \in Transport, broken' = broken,
             open' = [open EXCEPT ![u][s] = FALSE]
      PROVE  Up(t)
  <2>1. \A r \in Side : open'[t][r] => open[t][r]
    BY <1>3
  <2> QED
    BY <1>3, <2>1 DEF Up
<1>4. ASSUME UNCHANGED <<open, broken>> PROVE Up(t)
  BY <1>4 DEF Up
<1>5. ASSUME NEW s \in Side,
             WriteError(s) \/ Close(s) \/ Activate(s) \/ AckSend(s)
      PROVE  Up(t)
  <2>0. Lose(s) => CloseEnd(s, cur[s]) /\ cur[s] \in Transport \cup {0}
    BY DEF Lose
  <2>1. CASE WriteError(s)
    BY <1>1, <2>0, <2>1 DEF WriteError
  <2>2. CASE Close(s)
    BY <1>2, <2>2 DEF Close
  <2>3. CASE Activate(s)
    BY <1>4, <2>3 DEF Activate
  <2>4. CASE AckSend(s)
    BY <1>1, <1>4, <2>0, <2>4 DEF AckSend
  <2> QED
    BY <1>5, <2>1, <2>2, <2>3, <2>4
<1>6. ASSUME NEW s \in Side, NEW u \in Transport,
             ReadFatal(s, u) \/ ReadError(s, u)
      PROVE  Up(t)
  BY <1>2, <1>3, <1>6 DEF ReadFatal, ReadError
<1>7. ASSUME NEW u \in Transport, OpenTransport(u), u # t PROVE Up(t)
  BY <1>7 DEF OpenTransport, Up
<1>8. ASSUME NEW u \in Transport, Reject(u) \/ ExitDrop(u) PROVE Up(t)
  BY <1>2, <1>3, <1>8 DEF Reject, ExitDrop
<1>9. ASSUME NEW u \in Transport, ExitBind(u) PROVE Up(t)
  BY <1>1, <1>9 DEF ExitBind, Install
<1>10. ASSUME NEW u \in Transport, Break(u) PROVE Up(t)
  BY <1>10 DEF Break, Up, netVars
<1>11. CASE ClientBind \/ ClientDrop \/ ClientReject
  BY <1>1, <1>2, <1>11 DEF ClientBind, ClientDrop, ClientReject, Install, ShakeType
<1> QED
  <2>1. CASE ~(UNCHANGED <<bindVars, closed, open, broken>>)
    BY <2>1, <1>5, <1>6, <1>7, <1>8, <1>9, <1>10, <1>11, BindChange
  <2>2. CASE UNCHANGED <<bindVars, closed, open, broken>>
    BY <2>2, <1>4
  <2> QED
    BY <2>1, <2>2

\* Transports are used in the order of their numbers, and bound ones have
\* been used.
Numbered ==
  /\ \E k \in Nat : Requested = 1 .. k
  /\ \A s \in Side : cur[s] # 0 => st[cur[s]] # "unused"

\* A transport that is opened is not bound yet.
LEMMA OpenedIsNew ==
  ASSUME TypeOK, Numbered, NEW t \in Transport, OpenTransport(t)
  PROVE  st[t] = "unused" /\ \A s \in Side : cur[s] # t
<1>1. PICK k \in Nat : Requested = 1 .. k
  BY DEF Numbered
<1>2. Cardinality(1 .. k) = k
  BY FS_Interval
<1>3. t = k + 1 /\ t \notin Requested
  BY <1>1, <1>2 DEF OpenTransport
<1> QED
  BY <1>3, TransportIsNat DEF Requested, Numbered, TypeOK, BindType

\* OpenTransport takes the next number.
LEMMA NumberedStep ==
  ASSUME TypeOK, Numbered, Next
  PROVE  Numbered'
<1>. USE TransportIsNat DEF TypeOK, ShakeType
<1>1. \A t \in Transport : st'[t] = "unused" <=> st[t] = "unused" /\ ~OpenTransport(t)
  <2>1. CASE UNCHANGED shakeVars
    BY <2>1 DEF shakeVars, OpenTransport
  <2>2. CASE ~(UNCHANGED shakeVars)
    <3>1. CASE \E u \in Transport : OpenTransport(u)
      BY <3>1 DEF OpenTransport
    <3>2. ASSUME NEW u \in Transport, Accept(u) \/ Reject(u)
          PROVE  \A t \in Transport :
                   st'[t] = "unused" <=> st[t] = "unused" /\ ~OpenTransport(t)
      BY <3>2 DEF Accept, Reject, OpenTransport
    <3>3. ASSUME NEW u \in Transport, ExitBind(u) \/ ExitDrop(u)
          PROVE  \A t \in Transport :
                   st'[t] = "unused" <=> st[t] = "unused" /\ ~OpenTransport(t)
      <4>1. /\ offer' = offer /\ st[u] # "unused"
            /\ \E v \in {"bound", "dead", "dropped"} : st' = [st EXCEPT ![u] = v]
        BY <3>3 DEF ExitBind, ExitDrop, Handling
      <4> QED
        BY <4>1 DEF OpenTransport
    <3>4. CASE ClientBind \/ ClientDrop \/ ClientReject
      BY <3>4 DEF ClientBind, ClientDrop, ClientReject, OpenTransport
    <3> QED
      BY <2>2, <3>1, <3>2, <3>3, <3>4, ShakeChange
  <2> QED
    BY <2>1, <2>2
<1>2. PICK k \in Nat : Requested = 1 .. k
  BY DEF Numbered
<1> HIDE DEF TypeOK, ShakeType
<1>3. \E n \in Nat : Requested' = 1 .. n
  <2>1. CASE \E t \in Transport : OpenTransport(t)
    <3>1. PICK t \in Transport : OpenTransport(t)
      BY <2>1
    <3>2. t = Cardinality(Requested) + 1
      BY <3>1 DEF OpenTransport
    <3>3. Cardinality(1 .. k) = k
      BY FS_Interval
    <3>4. \A u \in Transport : OpenTransport(u) <=> u = t
      BY <3>1 DEF OpenTransport
    <3>5. Requested' = Requested \cup {t}
      BY <3>4, <1>1 DEF Requested
    <3>6. Requested' = (1 .. k) \cup {k + 1}
      BY <3>2, <3>3, <3>5, <1>2
    <3>7. (1 .. k) \cup {k + 1} = 1 .. (k + 1)
      OBVIOUS
    <3> QED
      BY <3>6, <3>7
  <2>2. CASE ~\E t \in Transport : OpenTransport(t)
    <3>1. Requested' = Requested
      BY <2>2, <1>1 DEF Requested
    <3> QED
      BY <3>1, <1>2
  <2> QED
    BY <2>1, <2>2
<1>4. ASSUME NEW s \in Side, cur'[s] # 0
      PROVE  st'[cur'[s]] # "unused"
  <2>1. CASE cur'[s] = cur[s]
    <3>1. cur[s] \in Transport /\ st[cur[s]] # "unused"
      BY <1>4, <2>1 DEF Numbered, TypeOK, BindType
    <3> QED
      BY <1>1, <2>1, <3>1
  <2>2. CASE ClientBind /\ cur'[s] = offer
    <3>1. offer \in Transport /\ st[offer] # "unused"
      BY <2>2 DEF ClientBind, TypeOK, ShakeType
    <3> QED
      BY <1>1, <2>2, <3>1
  <2>3. ASSUME NEW t \in Transport, ExitBind(t), cur'[s] = t
        PROVE  st'[cur'[s]] # "unused"
    BY <1>1, <2>3 DEF ExitBind, Handling
  <2> QED
    BY <1>4, <2>1, <2>2, <2>3, BindMoves
<1> QED
  BY <1>3, <1>4 DEF Numbered

\* ackLoop builds nothing but ACKs.
LEMMA AckIsAckStep ==
  ASSUME TypeOK, AckIsAck, Next
  PROVE  AckIsAck'
<1>. USE DEF TypeOK, FrameType
<1>1. ASSUME NEW s \in Side, NEW a, ackHeld' = [ackHeld EXCEPT ![s] = a],
             a = NoAck \/ a.frame.type = "ack"
      PROVE  AckIsAck'
  BY <1>1 DEF AckIsAck
<1>2. CASE UNCHANGED ackHeld
  BY <1>2 DEF AckIsAck
<1>3. ASSUME NEW s \in Side, NEW why, NEW farewell, NEW streams,
             Shut(s, why, farewell, streams)
      PROVE  AckIsAck'
  BY <1>1, <1>3 DEF Shut
<1>4. ASSUME NEW s \in Side, AckTake(s) PROVE AckIsAck'
  BY <1>1, <1>2, <1>4 DEF AckTake, Stamp
<1>5. ASSUME NEW s \in Side, AckSend(s) PROVE AckIsAck'
  BY <1>1, <1>5 DEF AckSend
<1>6. ASSUME NEW s \in Side, Close(s) PROVE AckIsAck'
  BY <1>3, <1>6 DEF Close
<1>7. ASSUME NEW s \in Side, NEW t \in Transport,
             ReadData(s, t) \/ ReadFin(s, t) \/ ReadFatal(s, t)
      PROVE  AckIsAck'
  BY <1>2, <1>3, <1>7 DEF ReadData, ReadFin, ReadFatal
<1>8. ASSUME NEW t \in Transport, ExitDrop(t) PROVE AckIsAck'
  BY <1>2, <1>3, <1>8, SidesExist DEF ExitDrop, ackVars
<1>9. CASE ClientDrop \/ ClientReject
  BY <1>2, <1>3, <1>9, SidesExist DEF ClientDrop, ClientReject, ackVars
<1> QED
  <2>1. CASE ~(UNCHANGED ackVars)
    BY <2>1, <1>4, <1>5, <1>6, <1>7, <1>8, <1>9, AckChange
  <2>2. CASE UNCHANGED ackVars
    BY <2>2, <1>2 DEF ackVars
  <2> QED
    BY <2>1, <2>2

\* A side accepts a chunk only by reading it from a transport.
LEMMA ExpectedMoves ==
  ASSUME TypeOK, Next, NEW s \in Side
  PROVE  \/ expected'[s] = expected[s]
         \/ \E t \in Transport :
              /\ ReadData(s, t) /\ Incoming(s, t).seq = expected[s]
              /\ expected'[s] = expected[s] + 1
<1>. USE DEF TypeOK, LedgerType
<1>1. CASE UNCHANGED <<sendVars, recvVars>>
  BY <1>1 DEF recvVars
<1>2. ASSUME NEW r \in Side, Write(r) \/ CloseWrite(r)
      PROVE  expected' = expected
  BY <1>2 DEF Write, CloseWrite, recvVars
<1>3. ASSUME NEW r \in Side, NEW t \in Transport,
             ReadFin(r, t) \/ ReadAck(r, t) \/ ReadFatal(r, t)
      PROVE  expected' = expected
  BY <1>3 DEF ReadFin, ReadAck, ReadFatal, recvVars
<1>4. ASSUME NEW r \in Side, NEW t \in Transport, ReadData(r, t)
      PROVE  \/ expected'[s] = expected[s]
             \/ /\ r = s /\ Incoming(s, t).seq = expected[s]
                /\ expected'[s] = expected[s] + 1
  BY <1>4 DEF ReadData, Fresh
<1> QED
  BY <1>1, <1>2, <1>3, <1>4, LedgerChange

\* Frames that carry no chunk from m on.
Below(m) == {f \in Frame : f.type = "data" => f.seq < m}

\* While the Client negotiates, it has no transport to write to: what the Exit
\* can still accept was written before the offsets of the request were read.
OfferStands ==
  offer # 0 =>
    /\ cur["client"] = 0
    /\ snap[offer].receive <= next["exit"]
    /\ expected["exit"] <= snap[offer].send
    /\ \A t \in Transport : chan[t]["client"] \in Seq(Below(snap[offer].send))

\* The negotiated transport and the offsets of its request change only when
\* the Client asks for one, or is done with it.
LEMMA OfferMoves ==
  ASSUME TypeOK, Next
  PROVE  \/ offer' = 0
         \/ \E t \in Transport : OpenTransport(t)
         \/ offer' = offer /\ snap' = snap
BY ShakeChange
DEF Accept, Reject, ExitBind, ExitDrop, ClientBind, ClientDrop, ClientReject,
    shakeVars

\* A request carries the truth.
LEMMA OfferOpened ==
  ASSUME IInv, NEW u \in Transport, OpenTransport(u)
  PROVE  OfferStands'
<1>. USE SidesExist, TransportIsNat DEF IInv, TypeOK, LedgerType, ShakeType, BindType
<1>1. /\ offer' = u /\ u # 0
      /\ snap'[u].send = next["client"]
      /\ snap'[u].receive = expected["client"]
      /\ UNCHANGED <<cur, next, expected, chan>> /\ cur["client"] = 0
  BY DEF OpenTransport, Offsets, sendVars, recvVars, bindVars
<1>2. /\ expected["exit"] <= next["client"]
      /\ expected["client"] <= next["exit"]
  BY DEF AckedAccepted, Peer
<1>3. ASSUME NEW t \in Transport
      PROVE  chan[t]["client"] \in Seq(Below(next["client"]))
  <2>1. chan[t]["client"] \in Seq(Truthful("client"))
    BY DEF TruthfulFrames, Wire
  <2>2. Truthful("client") \subseteq Below(next["client"])
    BY DEF Truthful, Below
  <2> QED
    BY <2>1, <2>2, SeqMonotonic
<1> QED
  BY <1>1, <1>2, <1>3 DEF OfferStands, Below

\* The Exit accepts nothing beyond the request, and nothing is written.
LEMMA OfferKept ==
  ASSUME IInv, AckIsAck, OfferStands, Next, offer' # 0,
         offer' = offer, snap' = snap
  PROVE  OfferStands'
<1>. DEFINE m == snap[offer].send
<1>. USE SidesExist
<1>0. /\ offer \in Transport /\ snap[offer].receive \in Nat /\ m \in Nat
      /\ next["exit"] \in Nat /\ expected["exit"] \in Nat /\ next'["exit"] \in Nat
  BY LedgerStep DEF IInv, TypeOK, ShakeType, LedgerType
<1>1. cur["client"] = 0 /\ expected["exit"] <= m /\ snap[offer].receive <= next["exit"]
  BY DEF OfferStands
<1>2. cur'["client"] = 0
  <2>1. ~ClientBind
    BY DEF ClientBind
  <2> QED
    BY <1>1, <2>1, BindMoves DEF IInv
<1>3. snap'[offer'].receive <= next'["exit"]
  BY <1>0, <1>1, LedgerGrows
<1>4. expected'["exit"] <= m
  <2>1. ASSUME NEW t \in Transport, ReadData("exit", t),
               Incoming("exit", t).seq = expected["exit"]
        PROVE  expected["exit"] + 1 <= m
    <3>1. Incoming("exit", t).type = "data" /\ chan[t]["client"] # << >>
      BY <2>1 DEF ReadData, Reading, Peer
    <3>2. chan[t]["client"] \in Seq(Below(m))
      BY DEF OfferStands
    <3>3. Incoming("exit", t) \in Below(m)
      BY <3>1, <3>2, HeadTailProperties DEF Incoming, Peer
    <3> QED
      BY <2>1, <3>1, <3>3, <1>0 DEF Below
  <2> QED
    BY <1>1, <2>1, ExpectedMoves DEF IInv
<1>5. ASSUME NEW t \in Transport
      PROVE  chan'[t]["client"] \in Seq(Below(m))
  <2>1. chan[t]["client"] \in Seq(Below(m)) /\ << >> \in Seq(Below(m))
    BY EmptySeq DEF OfferStands
  <2>2. ChanMove(t, "client")
    BY ChannelMoves DEF IInv
  <2>3. CASE Took(t, "client")
    <3>1. chan[t]["client"] # << >>
      BY <2>3 DEF Took, ReadData, ReadFin, ReadAck, Reading, Peer
    <3> QED
      BY <2>1, <2>3, <3>1, HeadTailProperties DEF Took
  <2>4. CASE Cut(t, "client")
    <3>1. InHand("exit", t) \in Seq(Below(m))
      <4>1. CASE chan[t]["client"] = << >>
        BY <2>1, <4>1 DEF InHand, Peer
      <4>2. CASE chan[t]["client"] # << >>
        <5>1. Head(chan[t]["client"]) \in Below(m)
          BY <2>1, <4>2, HeadTailProperties
        <5>2. <<Head(chan[t]["client"])>> \in Seq(Below(m))
          BY <5>1, ShortSeq
        <5> QED
          BY <2>1, <5>2 DEF InHand, Peer
      <4> QED
        BY <4>1, <4>2
    <3> QED
      BY <2>1, <2>4, <3>1 DEF Cut, Peer
  <2>5. ~Wrote(t, "client")
    BY <1>1, TransportIsNat DEF Wrote
  <2> QED
    BY <2>1, <2>2, <2>3, <2>4, <2>5 DEF ChanMove
<1> HIDE DEF m
<1> QED
  <2>1. snap'[offer'].send = m
    BY DEF m
  <2> QED
    BY <2>1, <1>2, <1>3, <1>4, <1>5 DEF OfferStands, Below

\* ValidateRebind accepts the offsets of every rebind that is negotiated, on
\* either side and whatever is still read from lost transports meanwhile.
THEOREM RebindsAreAccepted == Spec => []OfferAgrees
<1>1. Init => AckIsAck /\ OfferStands
  BY SidesExist DEF Init, AckIsAck, OfferStands
<1>2. IInv /\ AckIsAck /\ OfferStands /\ [Next]_vars => (AckIsAck /\ OfferStands)'
  <2>1. ASSUME IInv, AckIsAck, OfferStands, Next
        PROVE  (AckIsAck /\ OfferStands)'
    <3>1. AckIsAck'
      BY <2>1, AckIsAckStep DEF IInv
    <3>2. OfferStands'
      <4>1. CASE offer' = 0
        BY <4>1 DEF OfferStands
      <4>2. CASE offer' # 0
        BY <2>1, <4>2, OfferMoves, OfferOpened, OfferKept DEF IInv
      <4> QED
        BY <4>1, <4>2
    <3> QED
      BY <3>1, <3>2
  <2>2. ASSUME AckIsAck, OfferStands, UNCHANGED vars
        PROVE  (AckIsAck /\ OfferStands)'
    BY <2>2 DEF AckIsAck, OfferStands, Below, vars, ackVars, shakeVars, bindVars, sendVars,
                recvVars, netVars
  <2> QED
    BY <2>1, <2>2
<1>3. OfferStands => OfferAgrees
  BY DEF OfferStands, OfferAgrees, OffsetsAgree
<1> QED
  BY <1>1, <1>2, <1>3, InitInductive, InductiveStep, PTL DEF Spec

-----------------------------------------------------------------------------
(* Why handleBorrowed never sees a gap.  Between the receive offset of the  *)
(* reader and any chunk or FIN on a transport, every chunk is carried by an *)
(* earlier frame of that transport: activateTransport replays from an       *)
(* acknowledged offset on, and Write and CloseWrite send in order after it. *)

\* The first k frames of c carry every chunk from e on and below m.
Filled(c, k, e, m) ==
  \A n \in Nat : e <= n /\ n < m =>
    \E j \in DOMAIN c : j <= k /\ c[j].type = "data" /\ c[j].seq = n

\* No chunk and no FIN on c is ahead of the frames before it.
Gapless(c, e) ==
  \A i \in DOMAIN c :
    c[i].type \in {"data", "fin"} => Filled(c, i - 1, e, c[i].seq)

\* A chunk or FIN on a transport has an offset.
LEMMA FrameAt ==
  ASSUME NEW c \in Seq(Frame), NEW i \in DOMAIN c
  PROVE  c[i] \in Frame /\ c[i].seq \in Nat
<1>1. i \in 1 .. Len(c)
  BY LenProperties
<1>2. c[i] \in Frame
  BY <1>1, ElementOfSeq
<1> QED
  BY <1>2 DEF Frame

\* Accepting more, or asking for less, leaves no gap.
LEMMA FilledMono ==
  ASSUME NEW c \in Seq(Frame), NEW k \in Int, NEW e \in Nat, NEW m \in Nat,
         NEW d \in Nat, NEW n \in Nat, e <= d, n <= m, Filled(c, k, e, m)
  PROVE  Filled(c, k, d, n)
BY DEF Filled

\* What is already on a transport stays there when more is written to it.
LEMMA FilledGrows ==
  ASSUME NEW c \in Seq(Frame), NEW r \in Seq(Frame), NEW k \in Int,
         NEW l \in Int, k <= l, NEW e \in Nat, NEW m \in Nat, Filled(c, k, e, m)
  PROVE  Filled(c \o r, l, e, m)
<1>. SUFFICES ASSUME NEW n \in Nat, e <= n, n < m
              PROVE  \E j \in DOMAIN (c \o r) :
                       j <= l /\ (c \o r)[j].type = "data" /\ (c \o r)[j].seq = n
  BY DEF Filled
<1>1. PICK j \in DOMAIN c : j <= k /\ c[j].type = "data" /\ c[j].seq = n
  BY DEF Filled
<1>2. j \in 1 .. Len(c) /\ Len(c) \in Nat /\ Len(r) \in Nat
  BY LenProperties
<1>3. c \o r \in Seq(Frame) /\ DOMAIN (c \o r) = 1 .. Len(c) + Len(r)
  BY ConcatProperties, LenProperties
<1>4. (c \o r)[j] = c[j] /\ j \in DOMAIN (c \o r)
  BY <1>2, <1>3, ConcatProperties
<1> QED
  BY <1>1, <1>2, <1>4

\* The reader takes the first frame, and if that carries the chunk it expects
\* it expects the next one.
LEMMA FilledTail ==
  ASSUME NEW c \in Seq(Frame), c # << >>, NEW k \in Int, NEW e \in Nat,
         NEW m \in Nat, Head(c).type = "data" => Head(c).seq < e,
         Filled(c, k, e, m)
  PROVE  Filled(Tail(c), k - 1, e, m)
<1>. SUFFICES ASSUME NEW n \in Nat, e <= n, n < m
              PROVE  \E j \in DOMAIN Tail(c) :
                       j <= k - 1 /\ Tail(c)[j].type = "data" /\ Tail(c)[j].seq = n
  BY DEF Filled
<1>1. PICK j \in DOMAIN c : j <= k /\ c[j].type = "data" /\ c[j].seq = n
  BY DEF Filled
<1>2. j \in 1 .. Len(c) /\ Len(c) \in Nat
  BY LenProperties
<1>3. Head(c) = c[1] /\ Head(c) \in Frame
  BY HeadTailProperties
<1>4. j # 1
  BY <1>1, <1>3 DEF Frame
<1>5. Tail(c) \in Seq(Frame) /\ DOMAIN Tail(c) = 1 .. Len(c) - 1
  BY HeadTailProperties, LenProperties
<1>6. j - 1 \in DOMAIN Tail(c) /\ Tail(c)[j - 1] = c[j]
  BY <1>2, <1>4, <1>5, HeadTailProperties
<1> QED
  BY <1>1, <1>2, <1>6

\* Accepting more opens no gap.
LEMMA GaplessMono ==
  ASSUME NEW c \in Seq(Frame), NEW e \in Nat, NEW d \in Nat, e <= d, Gapless(c, e)
  PROVE  Gapless(c, d)
<1>. SUFFICES ASSUME NEW i \in DOMAIN c, c[i].type \in {"data", "fin"}
              PROVE  Filled(c, i - 1, d, c[i].seq)
  BY DEF Gapless
<1>1. i - 1 \in Int /\ c[i] \in Frame
  BY LenProperties, ElementOfSeq
<1>2. c[i].seq \in Nat /\ Filled(c, i - 1, e, c[i].seq)
  BY <1>1 DEF Frame, Gapless
<1> QED
  BY <1>1, <1>2, FilledMono

\* Taking the first frame opens no gap once it is accepted.
LEMMA GaplessTail ==
  ASSUME NEW c \in Seq(Frame), c # << >>, NEW e \in Nat,
         Head(c).type = "data" => Head(c).seq < e, Gapless(c, e)
  PROVE  Gapless(Tail(c), e)
<1>. SUFFICES ASSUME NEW i \in DOMAIN Tail(c), Tail(c)[i].type \in {"data", "fin"}
              PROVE  Filled(Tail(c), i - 1, e, Tail(c)[i].seq)
  BY DEF Gapless
<1>1. Tail(c) \in Seq(Frame) /\ DOMAIN Tail(c) = 1 .. Len(c) - 1 /\ Len(c) \in Nat
  BY HeadTailProperties, LenProperties
<1>2. i + 1 \in DOMAIN c /\ Tail(c)[i] = c[i + 1] /\ i \in Int
  BY <1>1, HeadTailProperties, LenProperties
<1>3. c[i + 1].seq \in Nat
  BY <1>2, FrameAt
<1>4. Filled(c, i, e, c[i + 1].seq)
  <2>1. Filled(c, (i + 1) - 1, e, c[i + 1].seq)
    BY <1>2 DEF Gapless
  <2>2. (i + 1) - 1 = i
    BY <1>2
  <2> QED
    BY <2>1, <2>2
<1> QED
  BY <1>2, <1>3, <1>4, FilledTail

\* What a closing end still has to read is at most the first frame.
LEMMA GaplessHead ==
  ASSUME NEW c \in Seq(Frame), NEW e \in Nat, Gapless(c, e),
         NEW d \in {<< >>, IF c # << >> THEN <<Head(c)>> ELSE << >>}
  PROVE  Gapless(d, e)
<1>1. CASE d = << >>
  BY <1>1 DEF Gapless
<1>2. CASE c # << >> /\ d = <<Head(c)>>
  <2>1. DOMAIN d = {1} /\ d[1] = Head(c) /\ Head(c) = c[1] /\ 1 \in DOMAIN c
    BY <1>2, HeadTailProperties, LenProperties, EmptySeq
  <2>2. ASSUME Head(c).type \in {"data", "fin"}
        PROVE  Filled(d, 0, e, Head(c).seq)
    <3>1. Filled(c, 0, e, Head(c).seq)
      BY <2>1, <2>2 DEF Gapless
    <3> QED
      BY <2>1, <3>1, LenProperties DEF Filled
  <2> QED
    BY <2>1, <2>2 DEF Gapless
<1> QED
  BY <1>1, <1>2

\* Frames that follow without a gap on what is there leave no gap.
LEMMA GaplessConcat ==
  ASSUME NEW c \in Seq(Frame), NEW r \in Seq(Frame), NEW e \in Nat,
         Gapless(c, e),
         \A i \in DOMAIN r : r[i].type \in {"data", "fin"} =>
            Filled(c \o r, Len(c) + i - 1, e, r[i].seq)
  PROVE  Gapless(c \o r, e)
<1>. SUFFICES ASSUME NEW i \in DOMAIN (c \o r), (c \o r)[i].type \in {"data", "fin"}
              PROVE  Filled(c \o r, i - 1, e, (c \o r)[i].seq)
  BY DEF Gapless
<1>1. DOMAIN (c \o r) = 1 .. Len(c) + Len(r) /\ Len(c) \in Nat /\ Len(r) \in Nat
  BY ConcatProperties, LenProperties
<1>2. CASE i <= Len(c)
  <2>1. (c \o r)[i] = c[i] /\ i \in DOMAIN c /\ i \in Int
    BY <1>1, <1>2, ConcatProperties, LenProperties
  <2>2. c[i].seq \in Nat
    BY <2>1, FrameAt
  <2>3. Filled(c, i - 1, e, c[i].seq)
    BY <2>1 DEF Gapless
  <2> QED
    BY <2>1, <2>2, <2>3, FilledGrows
<1>3. CASE i > Len(c)
  <2>1. (c \o r)[i] = r[i - Len(c)] /\ i - Len(c) \in DOMAIN r
    BY <1>1, <1>3, ConcatProperties, LenProperties
  <2>2. Len(c) + (i - Len(c)) - 1 = i - 1
    BY <1>1
  <2> QED
    BY <2>1, <2>2
<1> QED
  BY <1>1, <1>2, <1>3

\* StreamState.ReplayFrames are the retained chunks in order, then the FIN.
LEMMA ReplayShape ==
  ASSUME LedgerType, NEW s \in Side, acked[s] <= next[s]
  PROVE  /\ ReplayFrames(s) \in Seq(Frame)
         /\ \A i \in 1 .. next[s] - acked[s] :
              /\ i \in DOMAIN ReplayFrames(s)
              /\ ReplayFrames(s)[i].type = "data"
              /\ ReplayFrames(s)[i].seq = acked[s] + i - 1
         /\ \A i \in DOMAIN ReplayFrames(s) :
              \/ i \in 1 .. next[s] - acked[s]
              \/ i = next[s] - acked[s] + 1 /\ ReplayFrames(s)[i].seq = next[s]
<1>. DEFINE n == next[s] - acked[s]
            data == [i \in 1 .. n |-> Stamp(s, "data", acked[s] + i - 1)]
            fin == IF lfin[s] /\ ~lfinAck[s] THEN <<Stamp(s, "fin", next[s])>> ELSE << >>
<1>1. n \in Nat /\ ReplayFrames(s) = data \o fin
  BY DEF LedgerType, ReplayFrames
<1>2. ASSUME NEW i \in 1 .. n
      PROVE  /\ Stamp(s, "data", acked[s] + i - 1) \in Frame
             /\ Stamp(s, "data", acked[s] + i - 1).type = "data"
             /\ Stamp(s, "data", acked[s] + i - 1).seq = acked[s] + i - 1
  <2>1. acked[s] + i - 1 \in Nat /\ expected[s] \in Nat /\ rfin[s] \in BOOLEAN
    BY <1>1 DEF LedgerType
  <2> QED
    BY <2>1 DEF Stamp, Frame
<1>3. data \in Seq(Frame) /\ Len(data) = n
  <2>1. data \in [1 .. n -> Frame] /\ DOMAIN data = 1 .. n
    BY <1>2
  <2>. HIDE DEF data
  <2>2. data \in Seq(Frame)
    BY <1>1, <2>1, SeqDef, Zenon
  <2>3. Len(data) \in Nat /\ DOMAIN data = 1 .. Len(data)
    BY <2>2, LenProperties, Zenon
  <2> QED
    BY <1>1, <2>1, <2>2, <2>3
<1>4. /\ fin \in Seq(Frame) /\ Len(fin) \in {0, 1}
      /\ Len(fin) = 1 => fin[1].seq = next[s]
  <2>1. Stamp(s, "fin", next[s]) \in Frame /\ Stamp(s, "fin", next[s]).seq = next[s]
    BY DEF Stamp, Frame, LedgerType
  <2>2. CASE lfin[s] /\ ~lfinAck[s]
    <3>. DEFINE f == Stamp(s, "fin", next[s])
    <3>1. fin = <<f>>
      BY <2>2
    <3>2. f \in Frame /\ f.seq = next[s]
      BY <2>1
    <3> HIDE DEF fin, f
    <3> QED
      BY <3>1, <3>2, ShortSeq
  <2>3. CASE ~(lfin[s] /\ ~lfinAck[s])
    BY <2>3, EmptySeq
  <2> QED
    BY <2>2, <2>3
<1>5. /\ data \o fin \in Seq(Frame) /\ DOMAIN (data \o fin) = 1 .. n + Len(fin)
      /\ \A i \in 1 .. n + Len(fin) :
           (data \o fin)[i] = IF i <= n THEN data[i] ELSE fin[i - n]
  <2> HIDE DEF data, fin, n
  <2>1. data \o fin \in Seq(Frame) /\ Len(data \o fin) = n + Len(fin)
    BY <1>3, <1>4, ConcatProperties
  <2>2. \A i \in 1 .. n + Len(fin) :
           (data \o fin)[i] = IF i <= n THEN data[i] ELSE fin[i - n]
    BY <1>3, <1>4, ConcatProperties
  <2> QED
    BY <2>1, <2>2, LenProperties
<1>6. ASSUME NEW i \in 1 .. n
      PROVE  /\ i \in DOMAIN (data \o fin)
             /\ (data \o fin)[i].type = "data"
             /\ (data \o fin)[i].seq = acked[s] + i - 1
  <2>1. i \in 1 .. n + Len(fin) /\ i <= n
    BY <1>1, <1>4
  <2>2. (data \o fin)[i] = Stamp(s, "data", acked[s] + i - 1)
    BY <1>5, <2>1
  <2> QED
    BY <1>2, <1>5, <2>1, <2>2
<1>7. ASSUME NEW i \in DOMAIN (data \o fin), i \notin 1 .. n
      PROVE  i = n + 1 /\ (data \o fin)[i].seq = next[s]
  <2> HIDE DEF data, fin, n
  <2>1. i = n + 1 /\ Len(fin) = 1
    BY <1>1, <1>4, <1>5, <1>7
  <2>2. (data \o fin)[i] = fin[1]
    BY <1>1, <1>5, <2>1
  <2> QED
    BY <1>4, <2>1, <2>2
<1> HIDE DEF data, fin
<1> QED
  BY <1>1, <1>5, <1>6, <1>7

\* A replay that starts at an offset the reader has reached closes every gap.
LEMMA ReplayFills ==
  ASSUME LedgerType, NEW s \in Side, acked[s] <= next[s],
         NEW c \in Seq(Frame), NEW e \in Nat, acked[s] <= e, Gapless(c, e)
  PROVE  /\ Gapless(c \o ReplayFrames(s), e)
         /\ Filled(c \o ReplayFrames(s), Len(c \o ReplayFrames(s)), e, next[s])
<1>. DEFINE r == ReplayFrames(s)
            a == acked[s]
            k == next[s]
<1>1. /\ r \in Seq(Frame)
      /\ \A i \in 1 .. k - a : i \in DOMAIN r /\ r[i].type = "data" /\ r[i].seq = a + i - 1
      /\ \A i \in DOMAIN r : i \in 1 .. k - a \/ (i = k - a + 1 /\ r[i].seq = k)
  BY ReplayShape
<1>2. a \in Nat /\ k \in Nat /\ a <= k /\ a <= e
  BY DEF LedgerType
<1>. HIDE DEF r, a, k
<1>3. /\ c \o r \in Seq(Frame) /\ Len(c \o r) = Len(c) + Len(r)
      /\ DOMAIN (c \o r) = 1 .. Len(c) + Len(r)
      /\ Len(c) \in Nat /\ Len(r) \in Nat /\ DOMAIN r = 1 .. Len(r)
  BY <1>1, ConcatProperties, LenProperties
<1>4. ASSUME NEW i \in DOMAIN r
      PROVE  (c \o r)[Len(c) + i] = r[i] /\ Len(c) + i \in DOMAIN (c \o r)
  <2>1. Len(c) + i \in 1 .. Len(c) + Len(r) /\ ~(Len(c) + i <= Len(c))
        /\ (Len(c) + i) - Len(c) = i
    BY <1>3
  <2> QED
    BY <1>1, <1>3, <2>1, ConcatProperties
<1>5. ASSUME NEW m \in Nat, m <= k
      PROVE  Filled(c \o r, Len(c) + m - a, e, m)
  <2>. SUFFICES ASSUME NEW n \in Nat, e <= n, n < m
                PROVE  \E j \in DOMAIN (c \o r) :
                         /\ j <= Len(c) + m - a
                         /\ (c \o r)[j].type = "data" /\ (c \o r)[j].seq = n
    BY DEF Filled
  <2>1. n - a + 1 \in 1 .. k - a /\ a + (n - a + 1) - 1 = n
    BY <1>2, <1>5
  <2>2. n - a + 1 \in DOMAIN r /\ r[n - a + 1].type = "data" /\ r[n - a + 1].seq = n
    BY <1>1, <2>1
  <2>3. Len(c) + (n - a + 1) <= Len(c) + m - a
    BY <1>2, <1>3
  <2> QED
    BY <1>4, <2>2, <2>3
<1>6. ASSUME NEW i \in DOMAIN r
      PROVE  Filled(c \o r, Len(c) + i - 1, e, r[i].seq)
  <2>1. CASE i \in 1 .. k - a
    <3>1. a + i - 1 \in Nat /\ a + i - 1 <= k /\ Len(c) + (a + i - 1) - a = Len(c) + i - 1
      BY <1>2, <1>3, <2>1
    <3>2. r[i].seq = a + i - 1
      BY <1>1, <2>1
    <3>3. Filled(c \o r, Len(c) + (a + i - 1) - a, e, a + i - 1)
      BY <1>5, <3>1
    <3> QED
      BY <3>1, <3>2, <3>3
  <2>2. CASE i = k - a + 1 /\ r[i].seq = k
    <3>1. Len(c) + k - a = Len(c) + i - 1
      BY <1>2, <1>3, <2>2
    <3>2. Filled(c \o r, Len(c) + k - a, e, k)
      BY <1>2, <1>5
    <3> QED
      BY <2>2, <3>1, <3>2
  <2> QED
    BY <1>1, <2>1, <2>2
<1>7. Gapless(c \o r, e)
  BY <1>1, <1>6, GaplessConcat
<1>8. Filled(c \o r, Len(c \o r), e, k)
  <2>1. Filled(c \o r, Len(c) + k - a, e, k)
    BY <1>2, <1>5
  <2>2. k - a <= Len(r)
    BY <1>1, <1>2, <1>3
  <2>3. Len(c) + k - a <= Len(c \o r) /\ Len(c) + k - a \in Int /\ Len(c \o r) \in Int
    BY <1>2, <1>3, <2>2
  <2> QED
    BY <2>1, <2>3 DEF Filled
<1> QED
  BY <1>7, <1>8 DEF r, k

\* One more frame, the chunk or FIN that is next or one without an offset.
LEMMA FrameFollows ==
  ASSUME NEW c \in Seq(Frame), NEW f \in Frame, NEW e \in Nat, Gapless(c, e),
         f.type \in {"data", "fin"} => Filled(c, Len(c), e, f.seq)
  PROVE  /\ Gapless(c \o <<f>>, e)
         /\ \A m \in Nat : Filled(c, Len(c), e, m) =>
              Filled(c \o <<f>>, Len(c \o <<f>>), e, m)
         /\ f.type = "data" => Filled(c \o <<f>>, Len(c \o <<f>>), e, f.seq + 1)
<1>. DEFINE r == <<f>>
<1>1. r \in Seq(Frame) /\ Len(r) = 1 /\ DOMAIN r = {1} /\ r[1] = f
  BY ShortSeq, LenProperties
<1>. HIDE DEF r
<1>2. /\ c \o r \in Seq(Frame) /\ Len(c \o r) = Len(c) + 1 /\ Len(c) \in Nat
      /\ (c \o r)[Len(c) + 1] = f /\ Len(c) + 1 \in DOMAIN (c \o r)
      /\ f.seq \in Nat
  <2>1. Len(c) \in Nat /\ f.seq \in Nat
    BY LenProperties DEF Frame
  <2> QED
    BY <1>1, <2>1, ConcatProperties, LenProperties
<1>3. \A m \in Nat : Filled(c, Len(c), e, m) =>
         Filled(c \o r, Len(c), e, m) /\ Filled(c \o r, Len(c \o r), e, m)
  <2>1. Len(c) \in Int /\ Len(c \o r) \in Int /\ Len(c) <= Len(c) /\ Len(c) <= Len(c \o r)
    BY <1>2
  <2> QED
    BY <1>1, <2>1, FilledGrows
<1>4. Gapless(c \o r, e)
  <2>1. ASSUME NEW i \in DOMAIN r, r[i].type \in {"data", "fin"}
        PROVE  Filled(c \o r, Len(c) + i - 1, e, r[i].seq)
    <3>1. i = 1 /\ r[i] = f /\ Len(c) + i - 1 = Len(c)
      BY <1>1, <1>2
    <3> QED
      BY <1>2, <1>3, <2>1, <3>1
  <2> QED
    BY <1>1, <2>1, GaplessConcat
<1>5. ASSUME f.type = "data"
      PROVE  Filled(c \o r, Len(c \o r), e, f.seq + 1)
  <2>. SUFFICES ASSUME NEW n \in Nat, e <= n, n < f.seq + 1
                PROVE  \E j \in DOMAIN (c \o r) :
                         /\ j <= Len(c \o r)
                         /\ (c \o r)[j].type = "data" /\ (c \o r)[j].seq = n
    BY DEF Filled
  <2>1. CASE n = f.seq
    BY <1>2, <1>5, <2>1
  <2>2. CASE n # f.seq
    <3>1. n < f.seq
      BY <1>2, <2>2
    <3>2. Filled(c \o r, Len(c \o r), e, f.seq)
      BY <1>2, <1>3, <1>5
    <3> QED
      BY <3>1, <3>2 DEF Filled
  <2> QED
    BY <2>1, <2>2
<1> QED
  BY <1>3, <1>4, <1>5 DEF r

\* The first chunk p has still to put on the wire.
Unsent(p) == IF pend[p].type = "data" THEN pend[p].seq ELSE next[p]

\* Once activateTransport is done, everything up to there is on the transport.
AllSent(p) ==
  cur[p] # 0 /\ ready[p] /\ Up(cur[p]) =>
    Filled(chan[cur[p]][p], Len(chan[cur[p]][p]), expected[Peer(p)], Unsent(p))

\* Whatever p wrote to whichever transport has no gap, as long as it is read.
GapFree ==
  \A p \in Side \ Deadlines : closed[Peer(p)] = "no" =>
    /\ \A t \in Transport : Gapless(chan[t][p], expected[Peer(p)])
    /\ AllSent(p)

\* Write sends the chunk it has retained before it retains the next.
PendIsLast == \A p \in Side : pend[p].type = "data" => pend[p].seq + 1 = next[p]

\* An endpoint that was closed stays closed, and only ReadFatal ends it with a
\* protocol error.
LEMMA ClosedMoves ==
  ASSUME TypeOK, Next, NEW s \in Side
  PROVE  /\ closed'[s] = "no" => closed[s] = "no"
         /\ closed'[s] = "protocol" =>
              \/ closed[s] = "protocol"
              \/ \E t \in Transport :
                   /\ Reading(s, t)
                   /\ ~(AckValid(s, Incoming(s, t)) /\ ReceiveValid(s, Incoming(s, t)))
<1>. DEFINE Goal == /\ closed'[s] = "no" => closed[s] = "no"
                    /\ closed'[s] = "protocol" =>
                         \/ closed[s] = "protocol"
                         \/ \E t \in Transport :
                              /\ Reading(s, t)
                              /\ ~(AckValid(s, Incoming(s, t)) /\
                                   ReceiveValid(s, Incoming(s, t)))
<1>. SUFFICES Goal
  OBVIOUS
<1>1. CASE UNCHANGED closed
  BY <1>1
<1>2. ASSUME NEW r \in Side, NEW why \in {"local", "reset", "abort"},
             NEW farewell, NEW streams, Shut(r, why, farewell, streams)
      PROVE  Goal
  <2>1. closed' = [closed EXCEPT ![r] = why] /\ closed = [q \in Side |-> closed[q]]
    BY <1>2 DEF Shut, TypeOK, BindType
  <2> QED
    BY <2>1
<1>3. ASSUME NEW r \in Side, WriteError(r) \/ Close(r) \/ Activate(r) \/ AckSend(r)
      PROVE  Goal
  BY <1>1, <1>2, <1>3 DEF WriteError, Close, Activate, AckSend
<1>4. ASSUME NEW r \in Side, NEW t \in Transport, ReadFatal(r, t) PROVE Goal
  <2>1. CASE Shut(r, "reset", << >>, {})
    BY <1>2, <2>1
  <2>2. CASE /\ Shut(r, "protocol", << >>, {})
             /\ ~(AckValid(r, Incoming(r, t)) /\ ReceiveValid(r, Incoming(r, t)))
    <3>1. closed' = [closed EXCEPT ![r] = "protocol"] /\ closed = [q \in Side |-> closed[q]]
      BY <2>2 DEF Shut, TypeOK, BindType
    <3>2. Reading(r, t)
      BY <1>4 DEF ReadFatal
    <3> QED
      BY <2>2, <3>1, <3>2
  <2> QED
    BY <1>4, <2>1, <2>2 DEF ReadFatal
<1>5. ASSUME NEW r \in Side, NEW t \in Transport, ReadError(r, t) PROVE Goal
  BY <1>1, <1>5 DEF ReadError
<1>6. ASSUME NEW t \in Transport,
             OpenTransport(t) \/ Reject(t) \/ ExitBind(t) \/ ExitDrop(t) \/ Break(t)
      PROVE  Goal
  BY <1>1, <1>2, <1>6, SidesExist
     DEF OpenTransport, Reject, ExitBind, ExitDrop, Break
<1>7. CASE ClientBind \/ ClientDrop \/ ClientReject
  BY <1>1, <1>2, <1>7, SidesExist DEF ClientBind, ClientDrop, ClientReject
<1> HIDE DEF Goal
<1> QED
  <2>1. CASE ~(UNCHANGED <<bindVars, closed, open, broken>>)
    BY <2>1, <1>3, <1>4, <1>5, <1>6, <1>7, BindChange
  <2>2. CASE UNCHANGED <<bindVars, closed, open, broken>>
    BY <2>2, <1>1
  <2> QED
    BY <2>1, <2>2

\* What a step does to the frame a side has still to send.
LEMMA PendMoves ==
  ASSUME TypeOK, Next, NEW p \in Side
  PROVE  \/ pend'[p] = pend[p] /\ next'[p] = next[p]
         \/ Write(p) \/ CloseWrite(p) \/ Send(p)
         \/ p \in Deadlines /\ pend'[p] = NoFrame
         \/ cur'[p] = 0 /\ pend'[p] = NoFrame
<1>. DEFINE Goal == \/ pend'[p] = pend[p] /\ next'[p] = next[p]
                    \/ Write(p) \/ CloseWrite(p) \/ Send(p)
                    \/ p \in Deadlines /\ pend'[p] = NoFrame
                    \/ cur'[p] = 0 /\ pend'[p] = NoFrame
<1>. SUFFICES Goal
  OBVIOUS
<1>0. pend \in [Side -> Frame \cup {NoFrame}] /\ cur \in [Side -> Transport \cup {0}]
      /\ next \in [Side -> Nat]
  BY DEF TypeOK, FrameType, BindType, LedgerType
<1>1. ASSUME NEW r \in Side, Write(r) PROVE Goal
  BY <1>0, <1>1 DEF Write
<1>2. ASSUME NEW r \in Side, CloseWrite(r) PROVE Goal
  BY <1>0, <1>2 DEF CloseWrite
<1>3. next'[p] = next[p] \/ Write(p)
  <2>1. ASSUME NEW r \in Side, Write(r) PROVE next'[p] = next[p] \/ Write(p)
    BY <1>0, <2>1 DEF Write
  <2>2. CASE UNCHANGED sendVars
    BY <2>2 DEF sendVars
  <2>3. ASSUME NEW r \in Side, CloseWrite(r) PROVE next'[p] = next[p]
    BY <2>3 DEF CloseWrite
  <2>4. ASSUME NEW r \in Side, NEW t \in Transport,
               ReadData(r, t) \/ ReadFin(r, t) \/ ReadAck(r, t) \/ ReadFatal(r, t)
        PROVE  next'[p] = next[p]
    BY <2>4 DEF ReadData, ReadFin, ReadAck, ReadFatal, AckApplied, sendVars
  <2> QED
    BY <2>1, <2>2, <2>3, <2>4, LedgerChange
<1>4. ASSUME NEW r \in Side, pend' = [pend EXCEPT ![r] = NoFrame],
             Send(r) \/ r \in Deadlines \/ cur' = [cur EXCEPT ![r] = 0]
      PROVE  Goal
  <2>1. CASE r = p
    BY <1>0, <1>4, <2>1
  <2>2. CASE r # p
    BY <1>0, <1>3, <1>4, <2>2
  <2> QED
    BY <2>1, <2>2
<1>5. CASE UNCHANGED pend
  BY <1>3, <1>5
<1>6. ASSUME NEW r \in Side, NEW why, NEW farewell, NEW streams,
             Shut(r, why, farewell, streams)
      PROVE  Goal
  <2>1. pend' = [pend EXCEPT ![r] = NoFrame] /\ cur' = [cur EXCEPT ![r] = 0]
    BY <1>6 DEF Shut
  <2> QED
    BY <1>4, <2>1
<1>7. ASSUME NEW r \in Side, Send(r) \/ WriteTimeout(r) PROVE Goal
  <2>1. pend' = [pend EXCEPT ![r] = NoFrame] /\ (Send(r) \/ r \in Deadlines)
    BY <1>7 DEF Send, WriteTimeout
  <2> QED
    BY <1>4, <2>1
<1>8. ASSUME NEW r \in Side, Close(r) PROVE Goal
  BY <1>6, <1>8 DEF Close
<1>9. ASSUME NEW r \in Side, NEW t \in Transport, ReadFatal(r, t) PROVE Goal
  BY <1>6, <1>9 DEF ReadFatal
<1>10. ASSUME NEW t \in Transport, ExitDrop(t) PROVE Goal
  BY <1>5, <1>6, <1>10, SidesExist DEF ExitDrop
<1>11. CASE ClientDrop \/ ClientReject
  BY <1>5, <1>6, <1>11, SidesExist DEF ClientDrop, ClientReject
<1> HIDE DEF Goal
<1> QED
  BY <1>1, <1>2, <1>5, <1>7, <1>8, <1>9, <1>10, <1>11, PendChange

\* appWriteMu: a chunk is retained only when the one before has been sent.
LEMMA PendIsLastStep ==
  ASSUME TypeOK, PendIsLast, Next
  PROVE  PendIsLast'
<1>. SUFFICES ASSUME NEW p \in Side, pend'[p].type = "data"
              PROVE  pend'[p].seq + 1 = next'[p]
  BY DEF PendIsLast
<1>0. /\ pend \in [Side -> Frame \cup {NoFrame}]
      /\ next \in [Side -> Nat]
  BY DEF TypeOK, FrameType, LedgerType
<1>1. CASE pend'[p] = pend[p] /\ next'[p] = next[p]
  BY <1>1 DEF PendIsLast
<1>2. CASE Write(p)
  BY <1>0, <1>2 DEF Write, Stamp
<1>3. CASE CloseWrite(p)
  BY <1>0, <1>3 DEF CloseWrite, Stamp
<1>4. CASE pend'[p] = NoFrame
  BY <1>4 DEF NoFrame
<1>5. CASE Send(p)
  BY <1>0, <1>4, <1>5 DEF Send
<1> QED
  BY <1>1, <1>2, <1>3, <1>4, <1>5, PendMoves

\* Nothing but sending moves the offset from which p has to send.
LEMMA UnsentMoves ==
  ASSUME TypeOK, PendIsLast, Next, NEW p \in Side \ Deadlines, cur'[p] # 0
  PROVE  Send(p) \/ Unsent(p)' = Unsent(p)
<1>0. /\ pend \in [Side -> Frame \cup {NoFrame}]
      /\ next \in [Side -> Nat]
  BY DEF TypeOK, FrameType, LedgerType
<1>1. CASE pend'[p] = pend[p] /\ next'[p] = next[p]
  BY <1>1 DEF Unsent
<1>2. CASE Write(p)
  BY <1>0, <1>2 DEF Write, Writable, Stamp, Unsent, NoFrame
<1>3. CASE CloseWrite(p)
  BY <1>0, <1>3 DEF CloseWrite, Writable, Stamp, Unsent, NoFrame
<1> QED
  BY <1>1, <1>2, <1>3, PendMoves

\* handleBorrowed takes a chunk only if it had it or expected it.
LEMMA TookAccepts ==
  ASSUME TypeOK, Next, NEW t \in Transport, NEW p \in Side, Took(t, p)
  PROVE  /\ chan[t][p] # << >> /\ chan'[t][p] = Tail(chan[t][p])
         /\ Head(chan[t][p]).type = "data" =>
              Head(chan[t][p]).seq < expected'[Peer(p)]
<1>. DEFINE s == Peer(p)
            f == Head(chan[t][p])
<1>1. s \in Side /\ Incoming(s, t) = f
  BY PeerIsOther DEF Incoming
<1>2. chan[t][p] # << >> /\ chan'[t][p] = Tail(chan[t][p])
  BY PeerIsOther DEF Took, ReadData, ReadFin, ReadAck, Reading
<1>3. ASSUME f.type = "data" PROVE f.seq < expected'[s]
  <2>1. ReadData(s, t)
    BY <1>1, <1>3 DEF Took, ReadFin, ReadAck
  <2>2. f \in Frame
    BY <1>2, HeadTailProperties DEF TypeOK, FrameType
  <2>3. f.seq \in Nat /\ expected \in [Side -> Nat]
    BY <2>2 DEF Frame, TypeOK, LedgerType
  <2>4. /\ f.seq <= expected[s]
        /\ f.seq = expected[s] => expected' = [expected EXCEPT ![s] = @ + 1]
        /\ f.seq # expected[s] => expected' = expected
    BY <1>1, <1>3, <2>1 DEF ReadData, ReceiveValid, Fresh
  <2> QED
    BY <1>1, <2>3, <2>4
<1> QED
  BY <1>2, <1>3

\* A step leaves no gap on a transport: what is added follows on what is
\* there, and what is taken was accepted.
LEMMA GaplessStep ==
  ASSUME IInv, AckIsAck, GapFree, Next, NEW p \in Side \ Deadlines,
         closed'[Peer(p)] = "no", NEW t \in Transport
  PROVE  Gapless(chan'[t][p], expected'[Peer(p)])
<1>. DEFINE c == chan[t][p]
            e == expected[Peer(p)]
            d == expected'[Peer(p)]
<1>. SUFFICES Gapless(chan'[t][p], d)
  OBVIOUS
<1>0. /\ c \in Seq(Frame) /\ e \in Nat /\ d \in Nat /\ e <= d /\ Peer(p) \in Side
      /\ LedgerType /\ acked[p] <= e /\ e <= next[p] /\ acked[p] \in Nat
      /\ acked[p] <= next[p] /\ next[p] \in Nat
  <2>1. LedgerType /\ LedgerType' /\ Peer(p) \in Side
    BY PeerIsOther, LedgerStep DEF IInv, TypeOK
  <2>2. c \in Seq(Frame)
    BY DEF IInv, TypeOK, FrameType
  <2>3. acked[p] <= e /\ e <= next[p]
    BY DEF IInv, AckedAccepted
  <2>4. /\ acked[p] \in Nat /\ e \in Nat /\ d \in Nat /\ next[p] \in Nat
    BY <2>1 DEF LedgerType
  <2>5. e <= d
    BY <2>1, LedgerGrows
  <2> QED
    BY <2>1, <2>2, <2>3, <2>4, <2>5
<1>1. Gapless(c, e) /\ AllSent(p)
  BY <1>0, ClosedMoves DEF GapFree, IInv
<1>2. Gapless(c, d)
  BY <1>0, <1>1, GaplessMono
<1>3. CASE chan'[t][p] = c
  BY <1>2, <1>3
<1>4. CASE Cut(t, p)
  <2>1. InHand(Peer(p), t) = IF loop[Peer(p)][t] = "read" /\ c # << >>
                             THEN <<Head(c)>> ELSE << >>
    BY PeerIsOther DEF InHand
  <2>2. chan'[t][p] \in {<< >>, IF c # << >> THEN <<Head(c)>> ELSE << >>}
    BY <1>4, <2>1 DEF Cut
  <2> HIDE DEF c, d, e
  <2> QED
    BY <1>0, <1>2, <2>2, GaplessHead
<1>5. CASE Took(t, p)
  <2>1. c # << >> /\ chan'[t][p] = Tail(c) /\ (Head(c).type = "data" => Head(c).seq < d)
    BY <1>5, TookAccepts DEF IInv
  <2> HIDE DEF c, d, e
  <2> QED
    BY <1>0, <1>2, <2>1, GaplessTail
<1>6. ASSUME NEW f \in Frame, chan'[t][p] = c \o <<f>>,
             f.type \in {"data", "fin"} => Filled(c, Len(c), e, f.seq)
      PROVE  Gapless(chan'[t][p], d)
  <2>1. f.type \in {"data", "fin"} => Filled(c, Len(c), d, f.seq)
    <3>1. f.seq \in Nat /\ Len(c) \in Int
      BY <1>0, LenProperties DEF Frame
    <3> HIDE DEF c, d, e
    <3> QED
      BY <1>0, <1>6, <3>1 DEF Filled
  <2> HIDE DEF c, d, e
  <2> QED
    BY <1>0, <1>2, <1>6, <2>1, FrameFollows
<1>7. CASE Wrote(t, p)
  <2>1. t = cur[p] /\ Up(t) /\ t # 0
    BY <1>7, TransportIsNat DEF Wrote
  <2>2. CASE Send(p) /\ chan'[t][p] = c \o <<pend[p]>>
    <3>1. ready[p] /\ pend[p] # NoFrame
      BY <2>2 DEF Send
    <3>2. pend[p] \in Truthful(p)
      BY <3>1 DEF IInv, TruthfulFrames
    <3>3. pend[p] \in Frame /\ (pend[p].type = "fin" => pend[p].seq = next[p])
      BY <3>2 DEF Truthful
    <3>4. Filled(c, Len(c), e, Unsent(p))
      BY <1>1, <2>1, <3>1 DEF AllSent
    <3>5. pend[p].type \in {"data", "fin"} => Unsent(p) = pend[p].seq
      BY <3>3 DEF Unsent
    <3>6. pend[p].type \in {"data", "fin"} => Filled(c, Len(c), e, pend[p].seq)
      BY <3>4, <3>5
    <3> QED
      BY <1>6, <2>2, <3>3, <3>6
  <2>3. CASE Activate(p) /\ chan'[t][p] = c \o ReplayFrames(p)
    <3>1. acked[p] <= d
      BY <1>0
    <3> HIDE DEF c, d, e
    <3> QED
      BY <1>0, <1>2, <2>3, <3>1, ReplayFills
  <2>4. ASSUME NEW f \in Frame, f.type \in {"rst", "ack"}, chan'[t][p] = c \o <<f>>
        PROVE  Gapless(chan'[t][p], d)
    BY <1>6, <2>4
  <2> QED
    BY <1>7, <2>2, <2>3, <2>4 DEF Wrote
<1> QED
  BY <1>3, <1>4, <1>5, <1>7, ChannelMoves DEF ChanMove, IInv

\* activateTransport sends everything that is retained, and Write and
\* CloseWrite what comes next: so it stays on a transport that is ready.
LEMMA ReadyStep ==
  ASSUME IInv, AckIsAck, Numbered, PendIsLast, GapFree, Next,
         NEW p \in Side \ Deadlines, closed'[Peer(p)] = "no",
         NEW t \in Transport, cur[p] = t, cur'[p] = t,
         ready[p] \/ Activate(p), Up(t)'
  PROVE  Filled(chan'[t][p], Len(chan'[t][p]), expected'[Peer(p)], Unsent(p)')
<1>. DEFINE c == chan[t][p]
            e == expected[Peer(p)]
            d == expected'[Peer(p)]
            u == Unsent(p)'
<1>. SUFFICES Filled(chan'[t][p], Len(chan'[t][p]), d, u)
  OBVIOUS
<1>1. Up(t)
  <2>1. Up(t) \/ OpenTransport(t)
    BY UpMoves DEF IInv
  <2> QED
    BY <2>1, OpenedIsNew DEF IInv
<1>2. LedgerType /\ LedgerType' /\ Peer(p) \in Side
  BY PeerIsOther, LedgerStep DEF IInv, TypeOK
<1>3. /\ c \in Seq(Frame) /\ e \in Nat /\ d \in Nat /\ e <= d
      /\ acked[p] <= d /\ acked[p] <= next[p] /\ next[p] \in Nat /\ acked[p] \in Nat
  <2>1. c \in Seq(Frame)
    BY DEF IInv, TypeOK, FrameType
  <2>2. acked[p] <= e /\ e <= next[p]
    BY DEF IInv, AckedAccepted
  <2>3. acked[p] \in Nat /\ e \in Nat /\ d \in Nat /\ next[p] \in Nat
    BY <1>2 DEF LedgerType
  <2>4. e <= d
    BY <1>2, LedgerGrows
  <2> QED
    BY <2>1, <2>2, <2>3, <2>4
<1>4. Gapless(c, e) /\ AllSent(p)
  BY <1>2, ClosedMoves DEF GapFree, IInv
<1>5. Unsent(p) \in Nat
  <2>1. pend[p] \in Frame \cup {NoFrame}
    BY DEF IInv, TypeOK, FrameType
  <2> QED
    BY <1>3, <2>1 DEF Unsent, Frame, NoFrame
<1>6. CASE Activate(p)
  <2>1. chan' = Sent(t, p, ReplayFrames(p)) /\ next' = next /\ pend' = pend
    BY <1>6 DEF Activate, sendVars
  <2>2. chan'[t][p] = c \o ReplayFrames(p)
    BY <1>1, <2>1 DEF Sent, IInv, TypeOK, FrameType
  <2>3. u \in Nat /\ u <= next[p]
    <3>1. u = Unsent(p)
      BY <2>1 DEF Unsent
    <3>2. pend[p].type = "data" => pend[p].seq + 1 = next[p]
      BY DEF PendIsLast
    <3> QED
      BY <1>3, <1>5, <3>1, <3>2 DEF Unsent
  <2> HIDE DEF c, d, e, u
  <2>4. Gapless(c, d)
    BY <1>3, <1>4, GaplessMono
  <2>5. /\ Filled(c \o ReplayFrames(p), Len(c \o ReplayFrames(p)), d, next[p])
        /\ ReplayFrames(p) \in Seq(Frame)
    BY <1>2, <1>3, <2>4, ReplayFills, ReplayShape
  <2>6. Filled(c \o ReplayFrames(p), Len(c \o ReplayFrames(p)), d, u)
    <3>. DEFINE x == c \o ReplayFrames(p)
                l == Len(x)
    <3>1. Filled(x, l, d, next[p])
      BY <2>5
    <3> HIDE DEF x, l
    <3>2. Filled(x, l, d, u)
      BY <1>3, <2>3, <3>1 DEF Filled
    <3> QED
      BY <3>2 DEF x, l
  <2> QED
    BY <2>2, <2>6
<1>7. CASE ~Activate(p)
  <2>1. ready[p]
    BY <1>7
  <2>2. Filled(c, Len(c), e, Unsent(p)) /\ Len(c) \in Nat
    BY <1>1, <1>3, <1>4, <2>1, TransportIsNat, LenProperties DEF AllSent
  <2>3. Filled(c, Len(c), d, Unsent(p))
    <3> HIDE DEF c, d, e, u
    <3> QED
      BY <1>3, <1>5, <2>2, FilledMono
  <2>4. CASE Send(p)
    <3>1. chan'[t][p] = c \o <<pend[p]>>
      BY <1>1, <2>4 DEF Send, Sent, IInv, TypeOK, FrameType
    <3>2. pend'[p] = NoFrame /\ next'[p] = next[p] /\ pend[p] # NoFrame
      BY <2>4 DEF Send, sendVars, IInv, TypeOK, FrameType
    <3>3. pend[p] \in Truthful(p)
      BY <3>2 DEF IInv, TruthfulFrames
    <3>4. pend[p] \in Frame /\ (pend[p].type = "fin" => pend[p].seq = next[p])
      BY <3>3 DEF Truthful
    <3>5. u = next[p]
      BY <3>2 DEF Unsent, NoFrame
    <3>6. pend[p].type \in {"data", "fin"} => Unsent(p) = pend[p].seq
      BY <3>4 DEF Unsent
    <3>7. pend[p].type = "data" => pend[p].seq + 1 = next[p]
      BY DEF PendIsLast
    <3>8. pend[p].type # "data" => Unsent(p) = next[p]
      BY DEF Unsent
    <3>9. Gapless(c, d)
      <4> HIDE DEF c, d, e, u
      <4> QED
        BY <1>3, <1>4, GaplessMono
    <3>10. /\ \A m \in Nat : Filled(c, Len(c), d, m) =>
                Filled(c \o <<pend[p]>>, Len(c \o <<pend[p]>>), d, m)
           /\ pend[p].type = "data" =>
                Filled(c \o <<pend[p]>>, Len(c \o <<pend[p]>>), d, pend[p].seq + 1)
      <4> HIDE DEF c, d, e, u
      <4> QED
        BY <1>3, <2>3, <3>4, <3>6, <3>9, FrameFollows
    <3>11. Filled(c \o <<pend[p]>>, Len(c \o <<pend[p]>>), d, next[p])
      <4> HIDE DEF c, d, e, u
      <4> QED
        BY <1>5, <2>3, <3>7, <3>8, <3>10
    <3> QED
      <4> HIDE DEF c, d, e, u
      <4> QED
        BY <3>1, <3>5, <3>11
  <2>5. CASE ~Send(p)
    <3>1. u = Unsent(p)
      BY <2>5, UnsentMoves, TransportIsNat DEF IInv
    <3>2. CASE chan'[t][p] = c
      <4> HIDE DEF c, d, e, u
      <4> QED
        BY <2>3, <3>1, <3>2
    <3>3. CASE Took(t, p)
      <4>1. c # << >> /\ chan'[t][p] = Tail(c) /\ (Head(c).type = "data" => Head(c).seq < d)
        BY <3>3, TookAccepts DEF IInv
      <4> HIDE DEF c, d, e, u
      <4>2. Len(Tail(c)) = Len(c) - 1 /\ Len(c) \in Int
        BY <1>3, <2>2, <4>1, HeadTailProperties
      <4>3. Filled(Tail(c), Len(c) - 1, d, Unsent(p))
        BY <1>3, <1>5, <2>3, <4>1, <4>2, FilledTail
      <4> QED
        BY <3>1, <4>1, <4>2, <4>3
    <3>4. ASSUME NEW f \in Frame, f.type \in {"rst", "ack"}, chan'[t][p] = c \o <<f>>
          PROVE  Filled(chan'[t][p], Len(chan'[t][p]), d, u)
      <4> HIDE DEF c, d, e, u
      <4>1. Gapless(c, d)
        BY <1>3, <1>4, GaplessMono
      <4>2. Filled(c \o <<f>>, Len(c \o <<f>>), d, Unsent(p))
        BY <1>3, <1>5, <2>3, <3>4, <4>1, FrameFollows
      <4> QED
        BY <3>1, <3>4, <4>2
    <3>5. ~Cut(t, p)
      <4>1. open'[t][Peer(p)]
        BY DEF Up, Side, Peer
      <4> QED
        BY <4>1 DEF Cut
    <3>6. \/ chan'[t][p] = c \/ Took(t, p)
          \/ \E f \in Frame : f.type \in {"rst", "ack"} /\ chan'[t][p] = c \o <<f>>
      BY <1>7, <2>5, <3>5, ChannelMoves DEF ChanMove, Wrote, IInv
    <3> HIDE DEF c, d, e, u
    <3> QED
      BY <3>2, <3>3, <3>4, <3>6
  <2> QED
    BY <2>4, <2>5
<1> QED
  BY <1>6, <1>7

\* A transport that becomes ready has the replay on it, and one that stays
\* ready gets what is written.
LEMMA AllSentStep ==
  ASSUME IInv, AckIsAck, Numbered, PendIsLast, GapFree, Next,
         NEW p \in Side \ Deadlines, closed'[Peer(p)] = "no"
  PROVE  AllSent(p)'
<1>1. ASSUME cur'[p] # 0, ready'[p], Up(cur[p])'
      PROVE  Filled(chan[cur[p]][p], Len(chan[cur[p]][p]), expected[Peer(p)], Unsent(p))'
  <2>1. cur'[p] = cur[p] /\ (ready[p] \/ Activate(p))
    BY <1>1, BindMoves DEF IInv
  <2>2. PICK t \in Transport : cur[p] = t
    BY <1>1, <2>1 DEF IInv, TypeOK, BindType
  <2>3. Up(t)'
    BY <1>1, <2>1, <2>2 DEF Up
  <2>4. Filled(chan'[t][p], Len(chan'[t][p]), expected'[Peer(p)], Unsent(p)')
    BY <2>1, <2>2, <2>3, ReadyStep
  <2> QED
    BY <2>1, <2>2, <2>4
<1> QED
  BY <1>1 DEF AllSent

\* Without a gap, what is truthful is valid.
LEMMA IncomingIsValid ==
  ASSUME IInv, GapFree, NEW s \in Side, Peer(s) \notin Deadlines,
         NEW t \in Transport, Reading(s, t)
  PROVE  AckValid(s, Incoming(s, t)) /\ ReceiveValid(s, Incoming(s, t))
<1>. DEFINE p == Peer(s)
            f == Incoming(s, t)
<1>0. p \in Side \ Deadlines /\ Peer(p) = s
  BY PeerIsOther
<1>1. f \in Truthful(p) /\ f = Head(chan[t][p]) /\ chan[t][p] # << >>
  BY IncomingIsTruthful DEF Incoming, Reading
<1>2. /\ expected[p] \in Nat /\ expected[s] \in Nat /\ next[s] \in Nat /\ next[p] \in Nat
  BY <1>0 DEF IInv, TypeOK, LedgerType
<1>3. /\ expected[p] <= next[s] /\ expected[s] <= next[p]
      /\ rfin[p] => lfin[s] /\ expected[p] = next[s]
      /\ rfin[s] => lfin[p] /\ expected[s] = next[p]
  BY <1>0 DEF IInv, AckedAccepted
<1>4. /\ f \in Frame /\ f.ack \in Nat /\ f.seq \in Nat /\ f.ack <= expected[p]
      /\ f.finAck => rfin[p] /\ f.ack = expected[p]
      /\ f.type = "data" => f.seq < next[p]
      /\ f.type = "fin" => lfin[p] /\ f.seq = next[p]
  BY <1>1 DEF Truthful, Frame
<1>5. f.type \in {"data", "fin"} => f.seq <= expected[s]
  <2>1. Gapless(chan[t][p], expected[s])
    BY <1>0 DEF GapFree, Reading
  <2>2. chan[t][p] \in Seq(Frame)
    BY <1>0 DEF IInv, TypeOK, FrameType
  <2>3. 1 \in DOMAIN chan[t][p] /\ chan[t][p][1] = f
    BY <1>1, <2>2, HeadTailProperties, LenProperties, EmptySeq
  <2>4. DOMAIN chan[t][p] = 1 .. Len(chan[t][p])
    BY <2>2, LenProperties
  <2>5. f.type \in {"data", "fin"} => Filled(chan[t][p], 0, expected[s], f.seq)
    BY <2>1, <2>3 DEF Gapless
  <2>6. Filled(chan[t][p], 0, expected[s], f.seq) => f.seq <= expected[s]
    <3>1. ASSUME Filled(chan[t][p], 0, expected[s], f.seq), expected[s] < f.seq
          PROVE  FALSE
      <4>1. \E j \in DOMAIN chan[t][p] : j <= 0
        BY <1>2, <3>1 DEF Filled
      <4> QED
        BY <2>4, <4>1
    <3> QED
      BY <1>2, <1>4, <3>1
  <2> QED
    BY <2>5, <2>6
<1> HIDE DEF p, f
<1>6. AckValid(s, f)
  BY <1>2, <1>3, <1>4 DEF AckValid
<1>7. ReceiveValid(s, f)
  BY <1>2, <1>3, <1>4, <1>5 DEF ReceiveValid
<1> QED
  BY <1>6, <1>7 DEF f

\* handleBorrowed never takes the frames of a peer without write deadlines
\* for a protocol violation, however often transports are lost and replaced
\* and whichever frames are still read from the old ones.
THEOREM NoFalseProtocolError == Spec => []NoProtocolError
<1>. DEFINE Inv == AckIsAck /\ Numbered /\ PendIsLast /\ GapFree /\ NoProtocolError
<1>1. Init => Inv
  <2>. SUFFICES ASSUME Init PROVE Inv
    OBVIOUS
  <2>1. AckIsAck /\ PendIsLast
    BY DEF Init, AckIsAck, PendIsLast, NoFrame
  <2>2. Numbered
    <3>1. Requested = {} /\ 1 .. 0 = {}
      BY DEF Init, Requested
    <3> QED
      BY <3>1 DEF Init, Numbered
  <2>3. GapFree
    <3>1. \A p \in Side : AllSent(p)
      BY DEF Init, AllSent
    <3>2. \A p \in Side, t \in Transport : Gapless(chan[t][p], expected[Peer(p)])
      BY DEF Init, Gapless
    <3> QED
      BY <3>1, <3>2 DEF GapFree
  <2>4. NoProtocolError
    BY DEF Init, NoProtocolError
  <2> QED
    BY <2>1, <2>2, <2>3, <2>4
<1>2. IInv /\ Inv /\ [Next]_vars => Inv'
  <2>1. ASSUME IInv, Inv, Next PROVE Inv'
    <3>1. AckIsAck' /\ Numbered' /\ PendIsLast'
      BY <2>1, AckIsAckStep, NumberedStep, PendIsLastStep DEF IInv
    <3>2. ASSUME NEW p \in Side \ Deadlines, closed'[Peer(p)] = "no"
          PROVE  /\ \A t \in Transport : Gapless(chan'[t][p], expected'[Peer(p)])
                 /\ AllSent(p)'
      BY <2>1, <3>2, GaplessStep, AllSentStep
    <3>3. GapFree'
      <4>1. ASSUME NEW p \in Side \ Deadlines, closed'[Peer(p)] = "no"
            PROVE  \A t \in Transport : Gapless(chan[t][p], expected[Peer(p)])'
        BY <3>2, <4>1 DEF Gapless, Filled
      <4> QED
        BY <3>2, <4>1 DEF GapFree
    <3>4. NoProtocolError'
      <4>1. ASSUME NEW s \in Side, Peer(s) \notin Deadlines
            PROVE  closed'[s] # "protocol"
        <5>1. closed[s] # "protocol"
          BY <2>1, <4>1 DEF NoProtocolError
        <5>2. \A t \in Transport : Reading(s, t) =>
                AckValid(s, Incoming(s, t)) /\ ReceiveValid(s, Incoming(s, t))
          BY <2>1, <4>1, IncomingIsValid
        <5> QED
          BY <2>1, <5>1, <5>2, ClosedMoves DEF IInv
      <4> QED
        BY <4>1 DEF NoProtocolError
    <3> QED
      BY <3>1, <3>3, <3>4
  <2>2. ASSUME Inv, UNCHANGED vars PROVE Inv'
    <3>1. UNCHANGED <<ackHeld, st, cur, pend, next, closed, chan, expected, ready,
                      open, broken>>
      BY <2>2 DEF vars, sendVars, recvVars, bindVars, ackVars, netVars, shakeVars
    <3>2. AckIsAck' /\ PendIsLast' /\ NoProtocolError'
      BY <2>2, <3>1 DEF AckIsAck, PendIsLast, NoProtocolError
    <3>3. Numbered'
      BY <2>2, <3>1 DEF Numbered, Requested
    <3>4. GapFree'
      BY <2>2, <3>1 DEF GapFree, Gapless, Filled, AllSent, Unsent, Up
    <3> QED
      BY <3>2, <3>3, <3>4
  <2> QED
    BY <2>1, <2>2
<1>3. Inv => NoProtocolError
  OBVIOUS
<1> HIDE DEF Inv
<1> QED
  BY <1>1, <1>2, <1>3, InitInductive, InductiveStep, PTL DEF Spec

-----------------------------------------------------------------------------
(* What the application gets.  A chunk is accepted by one readLoop, which    *)
(* holds it until it is in inbound; readLoops of replaced transports may     *)
(* still hold theirs.                                                        *)

\* The readLoop of t starts: Endpoint.bind, on the Client or on the Exit.
Starts(s, t) ==
  /\ loop'[s][t] = "read"
  /\ \/ ClientBind /\ s = "client" /\ t = offer
     \/ ExitBind(t) /\ s = "exit" /\ st'[t] = "bound"

\* Nothing moves towards the application; readLoops may start or stop.
Waiting(s) ==
  /\ stream'[s] = stream[s] /\ inEnd'[s] = inEnd[s] /\ hold'[s] = hold[s]
  /\ \A t \in Transport :
       \/ loop'[s][t] = loop[s][t]
       \/ loop[s][t] = "read" /\ loop'[s][t] = "off"
       \/ Starts(s, t)

\* The endpoint is closed, with its inbound buffer.
Ended(s) ==
  /\ stream'[s] = stream[s]
  /\ inEnd'[s] = IF inEnd[s] = "open" THEN "err" ELSE inEnd[s]
  /\ \A t \in Transport : loop'[s][t] = "off"

Accepts(s, t) == ReadData(s, t) /\ Incoming(s, t).seq = expected[s]

DeliveryMove(s) ==
  \/ Waiting(s) \/ Ended(s)
  \/ \E t \in Transport : Accepts(s, t) \/ ReadFin(s, t) \/ Deliver(s, t)

\* Closing a transport stops at most a readLoop that has nothing in hand.
LEMMA LoopClosedMoves ==
  ASSUME ReadType, NEW s \in Side, NEW u \in Transport \cup {0},
         NEW r \in Side, NEW t \in Transport
  PROVE  \/ LoopClosed(s, u)[r][t] = loop[r][t]
         \/ loop[r][t] = "read" /\ LoopClosed(s, u)[r][t] = "off"
<1>1. CASE u = 0
  BY <1>1 DEF LoopClosed
<1>2. CASE u # 0
  <2>1. u \in Transport
    BY <1>2
  <2>2. PICK v : /\ v = loop[s][u] \/ (loop[s][u] = "read" /\ v = "off")
                 /\ LoopClosed(s, u) = [loop EXCEPT ![s][u] = v]
    BY <1>2, <2>1 DEF LoopClosed, ReadType
  <2> QED
    BY <2>1, <2>2 DEF ReadType
<1> QED
  BY <1>1, <1>2

\* A step moves chunks towards the application of s in one of these ways.
LEMMA DeliveryMoves ==
  ASSUME TypeOK, Next, NEW s \in Side
  PROVE  DeliveryMove(s)
<1>0. /\ TypeOK /\ ReadType /\ cur \in [Side -> Transport \cup {0}]
      /\ offer \in Transport \cup {0}
  BY DEF TypeOK, BindType, ShakeType
<1>1. ASSUME UNCHANGED <<hold, inVars>>,
             \A t \in Transport : \/ loop'[s][t] = loop[s][t]
                                  \/ loop[s][t] = "read" /\ loop'[s][t] = "off"
                                  \/ Starts(s, t)
      PROVE  DeliveryMove(s)
  BY <1>1 DEF DeliveryMove, Waiting, inVars
<1>2. ASSUME NEW r \in Side, Lose(r), UNCHANGED <<hold, inVars>>
      PROVE  DeliveryMove(s)
  <2>1. loop' = LoopClosed(r, cur[r])
    BY <1>2 DEF Lose
  <2> QED
    BY <1>0, <1>1, <1>2, <2>1, LoopClosedMoves
<1>3. ASSUME NEW r \in Side, NEW why, NEW farewell, NEW streams,
             Shut(r, why, farewell, streams), UNCHANGED stream
      PROVE  DeliveryMove(s)
  <2>1. /\ inEnd' = [inEnd EXCEPT ![r] = IF @ = "open" THEN "err" ELSE @]
        /\ loop' = [loop EXCEPT ![r] = [t \in Transport |-> "off"]]
        /\ hold' = [hold EXCEPT ![r] = [t \in Transport |-> NoHold]]
    BY <1>3 DEF Shut
  <2>2. CASE r = s
    <3>1. Ended(s)
      BY <1>0, <1>3, <2>1, <2>2 DEF Ended, ReadType
    <3> QED
      BY <3>1 DEF DeliveryMove
  <2>3. CASE r # s
    <3>1. Waiting(s)
      BY <1>0, <1>3, <2>1, <2>3 DEF Waiting, ReadType
    <3> QED
      BY <3>1 DEF DeliveryMove
  <2> QED
    BY <2>2, <2>3
<1>4. ASSUME NEW r \in Side, WriteError(r) \/ AckSend(r) PROVE DeliveryMove(s)
  BY <1>1, <1>2, <1>4 DEF WriteError, AckSend
<1>5. ASSUME NEW r \in Side, Close(r) \/ AppRead(r) PROVE DeliveryMove(s)
  BY <1>1, <1>3, <1>5 DEF Close, AppRead
<1>6. ASSUME NEW r \in Side, NEW t \in Transport, ReadData(r, t)
      PROVE  DeliveryMove(s)
  <2>1. CASE Incoming(r, t).seq = expected[r]
    <3>1. CASE r = s
      BY <1>6, <2>1, <3>1 DEF DeliveryMove, Accepts
    <3>2. CASE r # s
      <4>1. /\ loop' = [loop EXCEPT ![r][t] = "hold"]
            /\ hold' = [hold EXCEPT ![r][t] = Incoming(r, t).seq]
            /\ UNCHANGED inVars
        BY <1>6, <2>1 DEF ReadData, Fresh
      <4>2. Waiting(s)
        BY <1>0, <3>2, <4>1 DEF Waiting, ReadType, inVars
      <4> QED
        BY <4>2 DEF DeliveryMove
    <3> QED
      BY <3>1, <3>2
  <2>2. CASE Incoming(r, t).seq # expected[r]
    BY <1>1, <1>6, <2>2 DEF ReadData, Fresh
  <2> QED
    BY <2>1, <2>2
<1>7. ASSUME NEW r \in Side, NEW t \in Transport, ReadFin(r, t)
      PROVE  DeliveryMove(s)
  <2>1. CASE r = s
    BY <1>7, <2>1 DEF DeliveryMove
  <2>2. CASE r # s
    <3>1. /\ inEnd' = [inEnd EXCEPT ![r] = IF @ = "open" THEN "eof" ELSE @]
          /\ UNCHANGED <<loop, hold, stream>>
      BY <1>7 DEF ReadFin
    <3>2. Waiting(s)
      BY <1>0, <2>2, <3>1 DEF Waiting, ReadType
    <3> QED
      BY <3>2 DEF DeliveryMove
  <2> QED
    BY <2>1, <2>2
<1>8. ASSUME NEW r \in Side, NEW t \in Transport, ReadFatal(r, t)
      PROVE  DeliveryMove(s)
  BY <1>3, <1>8 DEF ReadFatal
<1>9. ASSUME NEW r \in Side, NEW u \in Transport, ReadError(r, u)
      PROVE  DeliveryMove(s)
  <2>1. loop[r][u] = "read" /\ loop' = [loop EXCEPT ![r][u] = "off"]
    BY <1>9 DEF ReadError
  <2>2. \A t \in Transport : \/ loop'[s][t] = loop[s][t]
                             \/ loop[s][t] = "read" /\ loop'[s][t] = "off"
    BY <1>0, <2>1 DEF ReadType
  <2> QED
    BY <1>1, <1>9, <2>2 DEF ReadError
<1>10. ASSUME NEW r \in Side, NEW u \in Transport, Deliver(r, u)
       PROVE  DeliveryMove(s)
  <2>1. CASE r = s
    BY <1>10, <2>1 DEF DeliveryMove
  <2>2. CASE r # s
    <3>1. /\ inEnd' = inEnd /\ hold' = [hold EXCEPT ![r][u] = NoHold]
          /\ stream' = stream \/ stream' = [stream EXCEPT ![r] = Append(@, hold[r][u])]
          /\ \E v \in {"off", "read"} : loop' = [loop EXCEPT ![r][u] = v]
      BY <1>10 DEF Deliver
    <3>2. Waiting(s)
      BY <1>0, <2>2, <3>1 DEF Waiting, ReadType
    <3> QED
      BY <3>2 DEF DeliveryMove
  <2> QED
    BY <2>1, <2>2
<1>11. ASSUME NEW r \in Side, NEW u \in Transport, Install(r, u),
              UNCHANGED <<hold, inVars>>,
              r = s /\ loop'[s][u] = "read" => Starts(s, u)
       PROVE  DeliveryMove(s)
  <2>1. loop' = [LoopClosed(r, cur[r]) EXCEPT ![r][u] = "read"]
    BY <1>11 DEF Install
  <2>2. LoopClosed(r, cur[r]) \in [Side -> [Transport -> {"off", "read", "hold"}]]
    BY <1>0, LoopClosedType
  <2>3. \A t \in Transport : \/ loop'[s][t] = LoopClosed(r, cur[r])[s][t]
                             \/ r = s /\ t = u /\ loop'[s][u] = "read"
    BY <2>1, <2>2
  <2>4. \A t \in Transport : \/ loop'[s][t] = loop[s][t]
                             \/ loop[s][t] = "read" /\ loop'[s][t] = "off"
                             \/ Starts(s, t)
    BY <1>0, <1>11, <2>3, LoopClosedMoves
  <2> QED
    BY <1>1, <1>11, <2>4
<1>12. ASSUME NEW u \in Transport, ExitBind(u) PROVE DeliveryMove(s)
  <2>1. CASE Install("exit", u) /\ st' = [st EXCEPT ![u] = "bound"]
    <3>1. st'[u] = "bound"
      BY <2>1 DEF TypeOK, ShakeType
    <3> QED
      BY <1>11, <1>12, <2>1, <3>1, SidesExist DEF ExitBind, Starts
  <2>2. CASE UNCHANGED loop
    BY <1>1, <1>12, <2>2 DEF ExitBind
  <2> QED
    BY <1>12, <2>1, <2>2 DEF ExitBind
<1>13. ASSUME NEW u \in Transport, ExitDrop(u) PROVE DeliveryMove(s)
  BY <1>1, <1>3, <1>13, SidesExist DEF ExitDrop, inVars
<1>14. CASE ClientBind
  <2>1. offer \in Transport /\ Install("client", offer) /\ UNCHANGED <<hold, inVars>>
    BY <1>0, <1>14 DEF ClientBind
  <2> QED
    BY <1>11, <1>14, <2>1, SidesExist DEF Starts
<1>15. CASE ClientDrop \/ ClientReject
  BY <1>1, <1>3, <1>15, SidesExist DEF ClientDrop, ClientReject, inVars
<1> QED
  <2>1. CASE ~(UNCHANGED <<loop, hold, inVars, nread>>)
    BY <2>1, <1>4, <1>5, <1>6, <1>7, <1>8, <1>9, <1>10, <1>12, <1>13, <1>14,
       <1>15, ReadChange
  <2>2. CASE UNCHANGED <<loop, hold, inVars, nread>>
    BY <2>2, <1>1
  <2> QED
    BY <2>1, <2>2

\* The Client reads from transports it is no longer negotiating, the Exit
\* from those it has bound.
LoopBound ==
  /\ \A t \in Transport : loop["client"][t] # "off" => st[t] # "unused" /\ t # offer
  /\ \A t \in Transport : loop["exit"][t] # "off" => st[t] = "bound"

\* A used transport stays used, a bound one stays bound, and only a new one is
\* negotiated.
LEMMA ShakeMoves ==
  ASSUME TypeOK, Numbered, Next, NEW t \in Transport
  PROVE  /\ st'[t] = "unused" => st[t] = "unused"
         /\ st[t] = "bound" => st'[t] = "bound"
         /\ t = offer' => t = offer \/ OpenTransport(t)
<1>. DEFINE Goal == /\ st'[t] = "unused" => st[t] = "unused"
                    /\ st[t] = "bound" => st'[t] = "bound"
                    /\ t = offer' => t = offer \/ OpenTransport(t)
<1>. SUFFICES Goal
  OBVIOUS
<1>. USE TransportIsNat DEF TypeOK, ShakeType
<1>1. ASSUME NEW u \in Transport, OpenTransport(u) PROVE Goal
  BY <1>1, OpenedIsNew DEF OpenTransport
<1>2. ASSUME NEW u \in Transport, Accept(u) \/ Reject(u) PROVE Goal
  BY <1>2 DEF Accept, Reject
<1>3. ASSUME NEW u \in Transport, ExitBind(u) \/ ExitDrop(u) PROVE Goal
  <2>1. /\ offer' = offer /\ st[u] # "bound"
        /\ \E v \in {"bound", "dead", "dropped"} : st' = [st EXCEPT ![u] = v]
    BY <1>3 DEF ExitBind, ExitDrop, Handling
  <2> QED
    BY <2>1
<1>4. CASE ClientBind
  BY <1>4 DEF ClientBind
<1>5. CASE ClientDrop \/ ClientReject
  BY <1>5 DEF ClientDrop, ClientReject
<1>6. CASE UNCHANGED shakeVars
  BY <1>6 DEF shakeVars
<1> HIDE DEF Goal, TypeOK, ShakeType
<1> QED
  BY <1>1, <1>2, <1>3, <1>4, <1>5, <1>6, ShakeChange

\* Of the steps that move chunks none starts a readLoop.
LEMMA LoopBoundStep ==
  ASSUME TypeOK, Numbered, LoopBound, Next
  PROVE  LoopBound'
<1>0. loop \in [Side -> [Transport -> {"off", "read", "hold"}]]
  BY DEF TypeOK, ReadType
<1>1. ASSUME NEW s \in Side, NEW t \in Transport, loop'[s][t] # "off"
      PROVE  loop[s][t] # "off" \/ Starts(s, t)
  <2>1. ASSUME NEW u \in Transport, Accepts(s, u) \/ ReadFin(s, u) \/ Deliver(s, u)
        PROVE  loop[s][t] # "off"
    <3>1. loop' = loop \/ (loop[s][u] # "off" /\ \E v : loop' = [loop EXCEPT ![s][u] = v])
      <4>1. CASE Accepts(s, u)
        BY <4>1 DEF Accepts, ReadData, Reading
      <4>2. CASE ReadFin(s, u)
        BY <4>2 DEF ReadFin
      <4>3. CASE Deliver(s, u)
        BY <4>3 DEF Deliver
      <4> QED
        BY <2>1, <4>1, <4>2, <4>3
    <3> QED
      BY <1>0, <1>1, <3>1
  <2> QED
    BY <1>1, <2>1, DeliveryMoves DEF DeliveryMove, Waiting, Ended
<1>2. ASSUME NEW t \in Transport, loop'["client"][t] # "off"
      PROVE  st'[t] # "unused" /\ t # offer'
  <2>1. CASE loop["client"][t] # "off"
    <3>1. st[t] # "unused" /\ t # offer
      BY <2>1 DEF LoopBound
    <3> QED
      BY <3>1, ShakeMoves, OpenedIsNew
  <2>2. CASE Starts("client", t)
    <3>1. t = offer /\ ClientBind
      BY <2>2 DEF Starts
    <3>2. offer' = 0 /\ st[t] # "unused"
      BY <3>1 DEF ClientBind
    <3> QED
      BY <3>2, ShakeMoves, TransportIsNat
  <2> QED
    BY <1>1, <1>2, <2>1, <2>2, SidesExist
<1>3. ASSUME NEW t \in Transport, loop'["exit"][t] # "off"
      PROVE  st'[t] = "bound"
  <2>1. CASE loop["exit"][t] # "off"
    BY <2>1, ShakeMoves DEF LoopBound
  <2>2. CASE Starts("exit", t)
    BY <2>2 DEF Starts
  <2> QED
    BY <1>1, <1>3, <2>1, <2>2, SidesExist
<1> QED
  BY <1>2, <1>3 DEF LoopBound

\* A readLoop that starts was not running.
LEMMA StartsFresh ==
  ASSUME TypeOK, LoopBound, NEW s \in Side, NEW t \in Transport, Starts(s, t)
  PROVE  loop[s][t] = "off"
<1>1. CASE ClientBind /\ s = "client" /\ t = offer
  BY <1>1 DEF LoopBound
<1>2. CASE ExitBind(t) /\ s = "exit"
  <2>1. st[t] # "bound"
    BY <1>2 DEF ExitBind, Handling
  <2> QED
    BY <1>2, <2>1 DEF LoopBound
<1> QED
  BY <1>1, <1>2 DEF Starts

\* Every accepted chunk of the peer is in one place: in inbound, or with one
\* of the readLoops that have still to put it there.
OnceEach(s) ==
  /\ \A i \in DOMAIN stream[s] : stream[s][i] < expected[s]
  /\ \A i, j \in DOMAIN stream[s] : stream[s][i] = stream[s][j] => i = j
  /\ \A t \in Held(s) :
       /\ hold[s][t] < expected[s]
       /\ \A i \in DOMAIN stream[s] : stream[s][i] # hold[s][t]
       /\ \A u \in Held(s) : hold[s][t] = hold[s][u] => t = u
  /\ inEnd[s] = "open" =>
       \A n \in Nat : n < expected[s] =>
         \/ \E i \in DOMAIN stream[s] : stream[s][i] = n
         \/ \E t \in Held(s) : hold[s][t] = n

\* A step that is not the acceptance of a chunk leaves the offset alone.
LEMMA ExpectedStays ==
  ASSUME TypeOK, Next, NEW s \in Side, ~\E t \in Transport : Accepts(s, t)
  PROVE  expected'[s] = expected[s]
BY ExpectedMoves DEF Accepts

\* Accepting puts the expected chunk with one readLoop; delivering takes it
\* from there to inbound, or drops it when that is closed.
LEMMA OnceStep ==
  ASSUME TypeOK, LoopBound, Next, NEW s \in Side, OnceEach(s)
  PROVE  OnceEach(s)'
<1>. DEFINE e == expected[s]
            x == stream[s]
            h == hold[s]
            y == stream'[s]
            k == hold'[s]
            d == expected'[s]
<1>0. /\ e \in Nat /\ d \in Nat /\ x \in Seq(Nat) /\ h \in [Transport -> Nat]
      /\ loop \in [Side -> [Transport -> {"off", "read", "hold"}]]
      /\ hold \in [Side -> [Transport -> Nat]] /\ stream \in [Side -> Seq(Nat)]
      /\ inEnd \in [Side -> {"open", "eof", "err"}] /\ expected \in [Side -> Nat]
  BY LedgerStep DEF TypeOK, LedgerType, ReadType
<1>1. ASSUME NEW H, H = Held(s)',
             \A i \in DOMAIN y : y[i] < d,
             \A i, j \in DOMAIN y : y[i] = y[j] => i = j,
             \A t \in H : /\ k[t] < d
                          /\ \A i \in DOMAIN y : y[i] # k[t]
                          /\ \A u \in H : k[t] = k[u] => t = u,
             inEnd'[s] = "open" =>
               \A n \in Nat : n < d =>
                 (\E i \in DOMAIN y : y[i] = n) \/ (\E t \in H : k[t] = n)
      PROVE  OnceEach(s)'
  BY <1>1 DEF OnceEach
<1>2. /\ \A i \in DOMAIN x : x[i] < e
      /\ \A i, j \in DOMAIN x : x[i] = x[j] => i = j
      /\ \A t \in Held(s) : /\ h[t] < e
                            /\ \A i \in DOMAIN x : x[i] # h[t]
                            /\ \A u \in Held(s) : h[t] = h[u] => t = u
      /\ inEnd[s] = "open" =>
           \A n \in Nat : n < e =>
             (\E i \in DOMAIN x : x[i] = n) \/ (\E t \in Held(s) : h[t] = n)
  BY DEF OnceEach
<1>3. Held(s)' = {t \in Transport : loop'[s][t] = "hold"}
  BY DEF Held
<1>4. CASE \E t \in Transport : Accepts(s, t)
  <2>1. PICK t \in Transport : Accepts(s, t)
    BY <1>4
  <2>2. /\ expected' = [expected EXCEPT ![s] = e + 1]
        /\ loop' = [loop EXCEPT ![s][t] = "hold"]
        /\ hold' = [hold EXCEPT ![s][t] = e]
        /\ UNCHANGED inVars /\ loop[s][t] = "read"
    BY <2>1 DEF Accepts, ReadData, Fresh, Reading
  <2>3. /\ d = e + 1 /\ y = x /\ inEnd'[s] = inEnd[s]
        /\ Held(s)' = Held(s) \cup {t} /\ t \notin Held(s)
        /\ k[t] = e /\ \A u \in Transport : u # t => k[u] = h[u]
    BY <1>0, <1>3, <2>2 DEF Held, inVars
  <2>4. Held(s) \subseteq Transport /\ \A i \in DOMAIN x : x[i] \in Nat
    BY <1>0, ElementOfSeq, LenProperties DEF Held
  <2> HIDE DEF e, x, h, y, k, d
  <2>5. \A i \in DOMAIN y : y[i] < d
    BY <1>0, <1>2, <2>3, <2>4
  <2>6. \A i, j \in DOMAIN y : y[i] = y[j] => i = j
    BY <1>2, <2>3
  <2>7. ASSUME NEW u \in Held(s)'
        PROVE  /\ k[u] < d
               /\ \A i \in DOMAIN y : y[i] # k[u]
               /\ \A v \in Held(s)' : k[u] = k[v] => u = v
    <3>1. \A v \in Held(s) : v # t /\ k[v] = h[v] /\ h[v] < e /\ h[v] \in Nat
      BY <1>0, <1>2, <2>3, <2>4
    <3>2. CASE u = t
      BY <1>0, <1>2, <2>3, <2>4, <3>1, <3>2
    <3>3. CASE u \in Held(s)
      BY <1>0, <1>2, <2>3, <2>4, <3>1, <3>3
    <3> QED
      BY <2>3, <3>2, <3>3
  <2>8. inEnd'[s] = "open" =>
          \A n \in Nat : n < d =>
            (\E i \in DOMAIN y : y[i] = n) \/ (\E u \in Held(s)' : k[u] = n)
    <3>1. ASSUME NEW n \in Nat, n < d, inEnd[s] = "open"
          PROVE  (\E i \in DOMAIN y : y[i] = n) \/ (\E u \in Held(s)' : k[u] = n)
      <4>1. CASE n = e
        BY <2>3, <4>1
      <4>2. CASE n # e
        <5>1. n < e
          BY <1>0, <2>3, <3>1, <4>2
        <5> QED
          BY <1>2, <2>3, <2>4, <3>1, <5>1
      <4> QED
        BY <4>1, <4>2
    <3> QED
      BY <2>3, <3>1
  <2> QED
    BY <1>1, <2>5, <2>6, <2>7, <2>8
<1>5. CASE ~\E t \in Transport : Accepts(s, t)
  <2>1. d = e
    BY <1>5, ExpectedStays
  <2>2. ASSUME y = x, Held(s)' \subseteq Held(s), \A t \in Held(s)' : k[t] = h[t],
               inEnd'[s] = "open" => inEnd[s] = "open" /\ Held(s)' = Held(s)
        PROVE  OnceEach(s)'
    <3> HIDE DEF e, x, h, y, k, d
    <3> QED
      BY <1>1, <1>2, <2>1, <2>2
  <2>3. CASE Waiting(s)
    <3>1. \A t \in Transport : loop'[s][t] = "hold" <=> loop[s][t] = "hold"
      BY <2>3, StartsFresh DEF Waiting, Starts
    <3>2. Held(s)' = Held(s)
      BY <1>3, <3>1 DEF Held
    <3> QED
      BY <2>2, <2>3, <3>2 DEF Waiting
  <2>4. CASE Ended(s)
    <3>1. Held(s)' = {} /\ inEnd'[s] # "open"
      BY <1>3, <2>4 DEF Ended
    <3> QED
      BY <2>2, <2>4, <3>1 DEF Ended
  <2>5. ASSUME NEW t \in Transport, ReadFin(s, t) PROVE OnceEach(s)'
    <3>1. /\ UNCHANGED <<loop, hold, stream>>
          /\ inEnd'[s] # "open"
      BY <1>0, <2>5 DEF ReadFin
    <3>2. Held(s)' = Held(s)
      BY <3>1 DEF Held
    <3> QED
      BY <2>2, <3>1, <3>2
  <2>6. ASSUME NEW t \in Transport, Deliver(s, t) PROVE OnceEach(s)'
    <3>1. /\ \E v \in {"off", "read"} : loop' = [loop EXCEPT ![s][t] = v]
          /\ hold' = [hold EXCEPT ![s][t] = NoHold]
          /\ inEnd' = inEnd /\ loop[s][t] = "hold"
      BY <2>6 DEF Deliver
    <3>2. /\ Held(s)' = Held(s) \ {t} /\ t \in Held(s)
          /\ \A u \in Held(s)' : k[u] = h[u]
      BY <1>0, <1>3, <3>1 DEF Held
    <3>3. CASE inEnd[s] # "open"
      <4>1. y = x
        BY <2>6, <3>3 DEF Deliver, Deliverable
      <4> QED
        BY <2>2, <3>1, <3>2, <3>3, <4>1
    <3>4. CASE inEnd[s] = "open"
      <4>1. y = Append(x, h[t])
        BY <1>0, <2>6, <3>4 DEF Deliver, Deliverable
      <4>2. h[t] \in Nat /\ \A i \in DOMAIN x : i \in 1 .. Len(x)
        BY <1>0, LenProperties
      <4> HIDE DEF e, x, h, y, k, d
      <4>3. /\ DOMAIN y = 1 .. Len(x) + 1 /\ Len(x) \in Nat /\ DOMAIN x = 1 .. Len(x)
            /\ y[Len(x) + 1] = h[t] /\ \A i \in 1 .. Len(x) : y[i] = x[i]
        BY <1>0, <4>1, <4>2, AppendProperties, LenProperties
      <4>4. /\ \A i \in DOMAIN x : i \in DOMAIN y /\ y[i] = x[i]
            /\ \A i \in DOMAIN y : i \in DOMAIN x \/ i = Len(x) + 1
            /\ Len(x) + 1 \in DOMAIN y
        BY <4>3
      <4>5. \A i \in DOMAIN y : y[i] < d
        BY <1>2, <2>1, <3>2, <4>3, <4>4
      <4>6. \A i, j \in DOMAIN y : y[i] = y[j] => i = j
        BY <1>2, <3>2, <4>3, <4>4
      <4>7. ASSUME NEW u \in Held(s)'
            PROVE  /\ k[u] < d
                   /\ \A i \in DOMAIN y : y[i] # k[u]
                   /\ \A v \in Held(s)' : k[u] = k[v] => u = v
        BY <1>2, <2>1, <3>2, <4>3, <4>4
      <4>8. ASSUME NEW n \in Nat, n < d
            PROVE  (\E i \in DOMAIN y : y[i] = n) \/ (\E u \in Held(s)' : k[u] = n)
        <5>1. (\E i \in DOMAIN x : x[i] = n) \/ (\E u \in Held(s) : h[u] = n)
          BY <1>2, <2>1, <3>4, <4>8
        <5> QED
          BY <3>2, <4>3, <4>4, <5>1
      <4> QED
        BY <1>1, <4>5, <4>6, <4>7, <4>8
    <3> QED
      BY <3>3, <3>4
  <2> QED
    BY <1>5, <2>3, <2>4, <2>5, <2>6, DeliveryMoves DEF DeliveryMove
<1> QED
  BY <1>4, <1>5

\* A function that maps no two elements to one has as many values.
LEMMA ImageSize ==
  ASSUME NEW S, IsFiniteSet(S), NEW f, \A a, b \in S : f[a] = f[b] => a = b
  PROVE  Cardinality({f[a] : a \in S}) = Cardinality(S)
<1>. DEFINE T == {f[a] : a \in S}
            g == [a \in S |-> f[a]]
<1>1. g \in Surjection(S, T)
  BY DEF Surjection
<1>2. g \in Injection(S, T)
  BY DEF Injection, IsInjective
<1> QED
  BY <1>1, <1>2, FS_Surjection

\* However many transports are replaced while their readLoops still hold a
\* chunk, each accepted chunk reaches inbound at most once, and none is lost
\* while the application can read.
THEOREM AcceptedOnce == Spec => []ExactlyOnce
<1>. DEFINE Inv == Numbered /\ LoopBound /\ \A s \in Side : OnceEach(s)
<1>1. Init => Inv
  <2>. SUFFICES ASSUME Init PROVE Inv
    OBVIOUS
  <2>1. Numbered
    <3>1. Requested = {} /\ 1 .. 0 = {}
      BY DEF Init, Requested
    <3> QED
      BY <3>1 DEF Init, Numbered
  <2>2. LoopBound
    BY SidesExist DEF Init, LoopBound
  <2>3. ASSUME NEW s \in Side PROVE OnceEach(s)
    <3>1. Held(s) = {} /\ expected[s] = 0 /\ DOMAIN stream[s] = {}
      BY DEF Init, Held
    <3> QED
      BY <3>1 DEF OnceEach
  <2> QED
    BY <2>1, <2>2, <2>3
<1>2. IInv /\ Inv /\ [Next]_vars => Inv'
  <2>1. ASSUME IInv, Inv, Next PROVE Inv'
    <3>1. Numbered' /\ LoopBound'
      BY <2>1, NumberedStep, LoopBoundStep DEF IInv
    <3>2. ASSUME NEW s \in Side PROVE OnceEach(s)'
      BY <2>1, OnceStep DEF IInv
    <3> QED
      BY <3>1, <3>2
  <2>2. ASSUME Inv, UNCHANGED vars PROVE Inv'
    <3>1. UNCHANGED <<st, cur, loop, offer, stream, hold, inEnd, expected>>
      BY <2>2 DEF vars, bindVars, shakeVars, inVars, recvVars
    <3> QED
      BY <2>2, <3>1 DEF Numbered, Requested, LoopBound, OnceEach, Held
  <2> QED
    BY <2>1, <2>2
<1>3. IInv /\ Inv => ExactlyOnce
  <2>. SUFFICES ASSUME IInv, Inv, NEW s \in Side
       PROVE  LET delivered == {stream[s][i] : i \in DOMAIN stream[s]}
                  held == {hold[s][t] : t \in Held(s)}
              IN  /\ Cardinality(delivered) = Len(stream[s])
                  /\ delivered \cap held = {}
                  /\ Cardinality(held) = Cardinality(Held(s))
                  /\ inEnd[s] = "open" =>
                       delivered \cup held = {n \in 0 .. next[Peer(s)] : n < expected[s]}
    BY DEF ExactlyOnce
  <2>. DEFINE delivered == {stream[s][i] : i \in DOMAIN stream[s]}
              held == {hold[s][t] : t \in Held(s)}
  <2>0. OnceEach(s)
    OBVIOUS
  <2>1. /\ stream[s] \in Seq(Nat) /\ DOMAIN stream[s] = 1 .. Len(stream[s])
        /\ Len(stream[s]) \in Nat /\ \A i \in DOMAIN stream[s] : stream[s][i] \in Nat
        /\ hold[s] \in [Transport -> Nat]
    <3>1. stream[s] \in Seq(Nat) /\ hold[s] \in [Transport -> Nat]
      BY DEF IInv, TypeOK, ReadType
    <3> QED
      BY <3>1, LenProperties, ElementOfSeq
  <2>2. Cardinality(delivered) = Len(stream[s])
    <3>. DEFINE x == stream[s]
                n == Len(stream[s])
    <3>1. n \in Nat /\ DOMAIN x = 1 .. n /\ \A i, j \in 1 .. n : x[i] = x[j] => i = j
      BY <2>0, <2>1 DEF OnceEach
    <3> HIDE DEF x, n
    <3>2. IsFiniteSet(1 .. n) /\ Cardinality(1 .. n) = n
      BY <3>1, FS_Interval
    <3>3. Cardinality({x[i] : i \in 1 .. n}) = n
      BY <3>1, <3>2, ImageSize
    <3> QED
      BY <3>1, <3>3 DEF x, n
  <2>3. Cardinality(held) = Cardinality(Held(s))
    <3>1. IsFiniteSet(Transport)
      BY FS_Interval, ResumeAssumption DEF Transport
    <3>2. IsFiniteSet(Held(s))
      BY <3>1, FS_Subset DEF Held
    <3> QED
      BY <2>0, <3>2, ImageSize DEF OnceEach
  <2>4. delivered \cap held = {}
    BY <2>0 DEF OnceEach
  <2>5. ASSUME inEnd[s] = "open"
        PROVE  delivered \cup held = {n \in 0 .. next[Peer(s)] : n < expected[s]}
    <3>1. expected[s] <= next[Peer(s)] /\ expected[s] \in Nat /\ next[Peer(s)] \in Nat
      BY PeerIsOther DEF IInv, AckedAccepted, TypeOK, LedgerType
    <3>2. \A n : n \in delivered \cup held <=> n \in Nat /\ n < expected[s]
      <4>1. \A n \in delivered \cup held : n \in Nat /\ n < expected[s]
        BY <2>0, <2>1 DEF OnceEach, Held
      <4>2. \A n \in Nat : n < expected[s] => n \in delivered \cup held
        BY <2>0, <2>5 DEF OnceEach
      <4> QED
        BY <4>1, <4>2
    <3> HIDE DEF delivered, held
    <3>3. \A n : n \in {m \in 0 .. next[Peer(s)] : m < expected[s]} <=> n \in Nat /\ n < expected[s]
      BY <3>1
    <3> QED
      BY <3>2, <3>3
  <2> QED
    BY <2>2, <2>3, <2>4, <2>5
<1> HIDE DEF Inv
<1> QED
  BY <1>1, <1>2, <1>3, InitInductive, InductiveStep, PTL DEF Spec

\* On the first transport the one readLoop puts a chunk into inbound before it
\* takes the next, and the FIN comes when it has nothing in hand.
InLine(s) ==
  /\ \A i \in DOMAIN stream[s] : stream[s][i] = i - 1
  /\ inEnd[s] = "open" =>
       /\ \A t \in Held(s) :
            hold[s][t] = Len(stream[s]) /\ expected[s] = Len(stream[s]) + 1
       /\ Held(s) = {} => expected[s] = Len(stream[s])
  /\ inEnd[s] = "eof" => rfin[s] /\ expected[s] = Len(stream[s])

\* As long as there is one transport, there is one readLoop.
LEMMA SoleReader ==
  ASSUME Numbered, LoopBound, Cardinality(Requested) <= 1, NEW s \in Side,
         NEW t \in Transport, NEW u \in Transport,
         loop[s][t] # "off", loop[s][u] # "off"
  PROVE  t = u
<1>1. t \in Requested /\ u \in Requested
  BY DEF LoopBound, Requested, Side
<1>2. PICK k \in Nat : Requested = 1 .. k
  BY DEF Numbered
<1>3. k <= 1
  BY <1>2, FS_Interval
<1> QED
  BY <1>1, <1>2, <1>3

\* Transports are never forgotten.
LEMMA RequestedGrows ==
  ASSUME TypeOK, Numbered, Next, Cardinality(Requested') <= 1
  PROVE  Cardinality(Requested) <= 1
<1>1. Requested \subseteq Requested'
  BY ShakeMoves DEF Requested
<1>2. PICK k \in Nat : Requested = 1 .. k
  BY DEF Numbered
<1>3. PICK n \in Nat : Requested' = 1 .. n
  BY NumberedStep DEF Numbered
<1>4. Cardinality(Requested) = k /\ Cardinality(Requested') = n
  BY <1>2, <1>3, FS_Interval
<1>5. k <= n
  BY <1>1, <1>2, <1>3
<1> QED
  BY <1>4, <1>5

\* A step on the first transport keeps the order.
LEMMA InLineStep ==
  ASSUME IInv, Numbered, LoopBound, Next, Cardinality(Requested) <= 1,
         NEW s \in Side, InLine(s)
  PROVE  InLine(s)'
<1>. DEFINE e == expected[s]
            x == stream[s]
            y == stream'[s]
            d == expected'[s]
<1>0. /\ TypeOK /\ e \in Nat /\ d \in Nat /\ x \in Seq(Nat) /\ Len(x) \in Nat
      /\ loop \in [Side -> [Transport -> {"off", "read", "hold"}]]
      /\ hold \in [Side -> [Transport -> Nat]] /\ stream \in [Side -> Seq(Nat)]
      /\ inEnd \in [Side -> {"open", "eof", "err"}] /\ expected \in [Side -> Nat]
      /\ rfin \in [Side -> BOOLEAN]
  BY LedgerStep, LenProperties DEF IInv, TypeOK, LedgerType, ReadType
<1>1. rfin[s] => rfin'[s] /\ d = e
  BY LedgerGrows
<1>2. Held(s)' = {t \in Transport : loop'[s][t] = "hold"}
  BY DEF Held
<1>3. ASSUME NEW t \in Transport, loop[s][t] = "read"
      PROVE  Held(s) = {}
  BY <1>3, SoleReader DEF Held
<1>4. ASSUME NEW t \in Transport, Accepts(s, t) PROVE InLine(s)'
  <2>1. /\ expected' = [expected EXCEPT ![s] = e + 1]
        /\ loop' = [loop EXCEPT ![s][t] = "hold"]
        /\ hold' = [hold EXCEPT ![s][t] = e]
        /\ UNCHANGED inVars /\ loop[s][t] = "read"
    BY <1>4 DEF Accepts, ReadData, Fresh, Reading
  <2>2. Held(s) = {}
    BY <1>3, <2>1
  <2>3. /\ d = e + 1 /\ y = x /\ inEnd'[s] = inEnd[s]
        /\ Held(s)' = {t} /\ hold'[s][t] = e
    BY <1>0, <1>2, <2>1, <2>2 DEF Held, inVars
  <2> QED
    BY <1>0, <1>1, <2>2, <2>3 DEF InLine
<1>5. CASE ~\E t \in Transport : Accepts(s, t)
  <2>1. d = e
    BY <1>0, <1>5, ExpectedStays
  <2>2. CASE Waiting(s)
    <3>1. \A t \in Transport : loop'[s][t] = "hold" <=> loop[s][t] = "hold"
      BY <1>0, <2>2, StartsFresh DEF Waiting, Starts
    <3>2. Held(s)' = Held(s)
      BY <1>2, <3>1 DEF Held
    <3> QED
      BY <1>1, <2>1, <2>2, <3>2 DEF InLine, Waiting
  <2>3. CASE Ended(s)
    BY <1>1, <2>1, <2>3 DEF InLine, Ended
  <2>4. ASSUME NEW t \in Transport, ReadFin(s, t) PROVE InLine(s)'
    <3>1. /\ UNCHANGED <<loop, hold, stream>> /\ loop[s][t] = "read"
          /\ rfin'[s] /\ inEnd'[s] = IF inEnd[s] = "open" THEN "eof" ELSE inEnd[s]
      BY <1>0, <2>4 DEF ReadFin, Reading
    <3>2. Held(s) = {}
      BY <1>3, <3>1
    <3> QED
      BY <1>1, <2>1, <3>1, <3>2 DEF InLine
  <2>5. ASSUME NEW t \in Transport, Deliver(s, t) PROVE InLine(s)'
    <3>1. /\ \E v \in {"off", "read"} : loop' = [loop EXCEPT ![s][t] = v]
          /\ inEnd' = inEnd /\ loop[s][t] = "hold"
      BY <2>5 DEF Deliver
    <3>2. t \in Held(s) /\ Held(s)' = {}
      <4>1. \A u \in Held(s) : u = t
        BY <3>1, SoleReader DEF Held
      <4> QED
        BY <1>0, <1>2, <3>1, <4>1 DEF Held
    <3>3. CASE inEnd[s] # "open"
      <4>1. y = x
        BY <2>5, <3>3 DEF Deliver, Deliverable
      <4> QED
        BY <1>1, <2>1, <3>1, <3>3, <4>1 DEF InLine
    <3>4. CASE inEnd[s] = "open"
      <4>1. y = Append(x, hold[s][t])
        BY <1>0, <2>5, <3>4 DEF Deliver, Deliverable
      <4>2. hold[s][t] = Len(x) /\ e = Len(x) + 1
        BY <3>2, <3>4 DEF InLine
      <4>3. \A i \in DOMAIN x : x[i] = i - 1
        BY DEF InLine
      <4>4. inEnd'[s] = "open"
        BY <3>1, <3>4
      <4>5. /\ Len(y) = Len(x) + 1
            /\ \A i \in DOMAIN y : y[i] = i - 1
        <5> HIDE DEF x, y, e, d
        <5>1. y = Append(x, Len(x))
          BY <4>1, <4>2
        <5>2. /\ DOMAIN x = 1 .. Len(x) /\ DOMAIN y = 1 .. Len(x) + 1
              /\ Len(y) = Len(x) + 1 /\ y[Len(x) + 1] = Len(x)
              /\ \A i \in 1 .. Len(x) : y[i] = x[i]
          BY <1>0, <5>1, AppendProperties, LenProperties
        <5>3. ASSUME NEW i \in DOMAIN y PROVE y[i] = i - 1
          <6>1. i \in 1 .. Len(x) \/ i = Len(x) + 1
            BY <1>0, <5>2
          <6> QED
            BY <1>0, <4>3, <5>2, <6>1
        <5> QED
          BY <5>2, <5>3
      <4>6. InLine(s)' = (/\ \A i \in DOMAIN y : y[i] = i - 1
                          /\ inEnd'[s] = "open" =>
                               /\ \A u \in Held(s)' :
                                    hold'[s][u] = Len(y) /\ d = Len(y) + 1
                               /\ Held(s)' = {} => d = Len(y)
                          /\ inEnd'[s] = "eof" => rfin'[s] /\ d = Len(y))
        BY DEF InLine
      <4> HIDE DEF x, y, e, d
      <4> QED
        BY <2>1, <3>2, <4>2, <4>4, <4>5, <4>6
    <3> QED
      BY <3>3, <3>4
  <2> QED
    BY <1>0, <1>5, <2>2, <2>3, <2>4, <2>5, DeliveryMoves DEF DeliveryMove
<1> QED
  BY <1>4, <1>5

\* Until a transport is replaced, the application reads a prefix of what the
\* peer's wrote, and io.EOF only after all of it.
THEOREM FirstTransportIsContinuous == Spec => []ContinuousUntilReplaced
<1>. DEFINE Inv == /\ Numbered /\ LoopBound
                   /\ Cardinality(Requested) <= 1 => \A s \in Side : InLine(s)
<1>1. Init => Inv
  <2>. SUFFICES ASSUME Init PROVE Inv
    OBVIOUS
  <2>1. Numbered
    <3>1. Requested = {} /\ 1 .. 0 = {}
      BY DEF Init, Requested
    <3> QED
      BY <3>1 DEF Init, Numbered
  <2>2. LoopBound
    BY SidesExist DEF Init, LoopBound
  <2>3. ASSUME NEW s \in Side PROVE InLine(s)
    <3>1. /\ Held(s) = {} /\ expected[s] = 0 /\ stream[s] = << >>
          /\ inEnd[s] = "open"
      BY DEF Init, Held
    <3> QED
      BY <3>1 DEF InLine
  <2> QED
    BY <2>1, <2>2, <2>3
<1>2. IInv /\ Inv /\ [Next]_vars => Inv'
  <2>1. ASSUME IInv, Inv, Next PROVE Inv'
    <3>1. Numbered' /\ LoopBound'
      BY <2>1, NumberedStep, LoopBoundStep DEF IInv
    <3>2. ASSUME Cardinality(Requested') <= 1, NEW s \in Side PROVE InLine(s)'
      <4>1. Cardinality(Requested) <= 1
        BY <2>1, <3>2, RequestedGrows DEF IInv
      <4> QED
        BY <2>1, <3>2, <4>1, InLineStep
    <3> QED
      BY <3>1, <3>2
  <2>2. ASSUME Inv, UNCHANGED vars PROVE Inv'
    <3>1. UNCHANGED <<st, cur, loop, offer, stream, hold, inEnd, expected, rfin>>
      BY <2>2 DEF vars, bindVars, shakeVars, inVars, recvVars
    <3>2. Requested' = Requested
      BY <3>1 DEF Requested
    <3>3. Numbered' /\ LoopBound'
      BY <2>2, <3>1, <3>2 DEF Numbered, LoopBound
    <3>4. \A s \in Side : InLine(s)' = InLine(s)
      BY <3>1 DEF InLine, Held
    <3> QED
      BY <2>2, <3>2, <3>3, <3>4
  <2> QED
    BY <2>1, <2>2
<1>3. IInv /\ Inv => ContinuousUntilReplaced
  <2>. SUFFICES ASSUME IInv, \A s \in Side : InLine(s) PROVE Continuous
    BY DEF ContinuousUntilReplaced
  <2>1. InOrder
    BY DEF InLine, InOrder
  <2>2. CleanEOF
    BY PeerIsOther DEF InLine, CleanEOF, IInv, AckedAccepted
  <2> QED
    BY <2>1, <2>2 DEF Continuous
<1> HIDE DEF Inv
<1> QED
  BY <1>1, <1>2, <1>3, InitInductive, InductiveStep, PTL DEF Spec

-----------------------------------------------------------------------------

\* Two new endpoints are a stream on which nothing was written yet.
LEMMA ReliableInit == Init => Reliable!Init
<1>. SUFFICES ASSUME Init  PROVE Reliable!Init
  OBVIOUS
<1>1. /\ next = [d \in Side |-> 0] /\ lfin = [d \in Side |-> FALSE]
      /\ acked = [d \in Side |-> 0] /\ lfinAck = [d \in Side |-> FALSE]
      /\ expected = [d \in Side |-> 0] /\ rfin = [d \in Side |-> FALSE]
  BY DEF Init
<1>2. \A d \in Side : expected[Peer(d)] = 0 /\ rfin[Peer(d)] = FALSE
  BY <1>1, PeerIsOther
<1>3. [d \in Side |-> expected[Peer(d)]] = [d \in Side |-> 0]
  BY <1>2
<1>4. [d \in Side |-> rfin[Peer(d)]] = [d \in Side |-> FALSE]
  BY <1>2
<1> QED
  BY <1>1, <1>3, <1>4 DEF Reliable!Init

\* Every step of the endpoints is a step of the reliable stream or leaves it
\* alone.
LEMMA ReliableStep ==
  ASSUME IInv, Next
  PROVE  [Reliable!Next]_(Reliable!vars)
<1>. USE DEF IInv, TypeOK
<1>1. CASE UNCHANGED <<sendVars, recvVars>>
  BY <1>1 DEF sendVars, recvVars, Reliable!vars
<1>2. ASSUME NEW s \in Side, Write(s) PROVE Reliable!Next
  <2>1. Reliable!Write(s)
    BY <1>2 DEF Write, Writable, recvVars, Reliable!Write
  <2> QED
    BY <2>1 DEF Reliable!Next, Reliable!Step
<1>3. ASSUME NEW s \in Side, CloseWrite(s) PROVE Reliable!Next
  <2>1. Reliable!Finish(s)
    BY <1>3 DEF CloseWrite, recvVars, Reliable!Finish
  <2> QED
    BY <2>1 DEF Reliable!Next, Reliable!Step
<1>4. ASSUME NEW s \in Side, NEW f \in Truthful(Peer(s)), Taking(s, f)
      PROVE  Reliable!Next
  <2>. DEFINE d == Peer(s)
              n == acked'[s]
  <2>1. d \in Side /\ d # s /\ Peer(d) = s
    BY PeerIsOther
  <2>2. AckedAccepted' /\ LedgerType'
    BY AckedStep, LedgerStep
  <2>3. n \in acked[s] .. expected[d] /\ acked' = [acked EXCEPT ![s] = n]
    BY <1>4, <2>1, <2>2 DEF Taking, AckApplied, LedgerType, Truthful, Frame, AckedAccepted
  <2>4. /\ lfinAck' \in {lfinAck, [lfinAck EXCEPT ![s] = TRUE]}
        /\ lfinAck'[s] => rfin[d]
    <3>1. lfinAck' = [lfinAck EXCEPT ![s] = @ \/ f.finAck]
      BY <1>4 DEF Taking, AckApplied
    <3>2. CASE f.finAck
      <4>1. lfinAck' = [lfinAck EXCEPT ![s] = TRUE]
        BY <3>1, <3>2
      <4> QED
        BY <3>2, <4>1 DEF Truthful
    <3>3. CASE ~f.finAck
      <4>1. lfinAck' = lfinAck
        BY <3>1, <3>3 DEF LedgerType
      <4> QED
        BY <4>1 DEF AckedAccepted
    <3> QED
      BY <3>2, <3>3
  <2>5. Reliable!Release(s)
    BY <2>1, <2>3, <2>4 DEF Reliable!Release
  <2>6. UNCHANGED <<next, lfin>>
    BY <1>4 DEF Taking, AckApplied
  <2>7. CASE UNCHANGED recvVars
    BY <2>1, <2>5, <2>6, <2>7 DEF recvVars, Reliable!Next, Reliable!Step
  <2>8. CASE /\ f.type = "data" /\ f.seq = expected[s] /\ ~rfin[s]
             /\ expected' = [expected EXCEPT ![s] = @ + 1] /\ rfin' = rfin
    <3>1. expected[s] < next[d]
      BY <2>8, <2>1 DEF Truthful
    <3>2. [r \in Side |-> expected'[Peer(r)]]
            = [[r \in Side |-> expected[Peer(r)]] EXCEPT ![d] = @ + 1]
      BY <2>1, <2>8, PeerIsOther DEF LedgerType
    <3>3. Reliable!Accept(d)
      BY <2>1, <2>6, <2>8, <3>1, <3>2 DEF Reliable!Accept
    <3> QED
      BY <2>1, <2>5, <3>3 DEF Reliable!Next, Reliable!Step
  <2>9. CASE /\ f.type = "fin" /\ f.seq = expected[s]
             /\ rfin' = [rfin EXCEPT ![s] = TRUE] /\ expected' = expected
    <3>1. lfin[d] /\ expected[s] = next[d]
      BY <2>9, <2>1 DEF Truthful
    <3>2. [r \in Side |-> rfin'[Peer(r)]]
            = [[r \in Side |-> rfin[Peer(r)]] EXCEPT ![d] = TRUE]
      BY <2>1, <2>9, PeerIsOther DEF LedgerType
    <3>3. Reliable!AcceptEnd(d)
      BY <2>1, <2>6, <2>9, <3>1, <3>2 DEF Reliable!AcceptEnd
    <3> QED
      BY <2>1, <2>5, <3>3 DEF Reliable!Next, Reliable!Step
  <2> QED
    BY <1>4, <2>7, <2>8, <2>9 DEF Taking
<1> QED
  BY <1>1, <1>2, <1>3, <1>4, LedgerMove

\* The two endpoints implement the reliable stream, for any bounds: over any
\* sequence of transports handleBorrowed accepts the chunks in order, once each,
\* the FIN last, and ReplayBuffer.Ack forgets only what was accepted.
THEOREM EndpointsImplementReliableStream == Spec => ImplementsReliableStream
<1>1. IInv /\ [Next]_vars => [Reliable!Next]_(Reliable!vars)
  <2>1. ASSUME UNCHANGED vars PROVE UNCHANGED Reliable!vars
    BY <2>1 DEF vars, sendVars, recvVars, Reliable!vars
  <2> QED
    BY <2>1, ReliableStep
<1> QED
  BY ReliableInit, InitInductive, InductiveStep, <1>1, PTL
     DEF Spec, ImplementsReliableStream, Reliable!Spec

=============================================================================
