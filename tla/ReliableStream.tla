--------------------------- MODULE ReliableStream ---------------------------
(***************************************************************************)
(* What the resumable stream of internal/p2p/resume promises each          *)
(* direction, whatever happens to its transports: the receiver accepts the *)
(* chunks the sender wrote one after the other, each once, none that was   *)
(* not written, the FIN after all of them, and the sender forgets only     *)
(* what was accepted.                                                      *)
(***************************************************************************)
EXTENDS Naturals

CONSTANT Direction   \* one stream each: identified by the sending side

VARIABLES
  written,   \* chunks the sender's application wrote
  finished,  \* the sender half-closed
  accepted,  \* chunks the receiver accepted
  ended,     \* the receiver accepted the FIN
  released,  \* chunks the sender no longer keeps for a replay
  settled    \* the sender no longer replays its FIN

vars == <<written, finished, accepted, ended, released, settled>>

Init ==
  /\ written = [d \in Direction |-> 0] /\ finished = [d \in Direction |-> FALSE]
  /\ accepted = [d \in Direction |-> 0] /\ ended = [d \in Direction |-> FALSE]
  /\ released = [d \in Direction |-> 0] /\ settled = [d \in Direction |-> FALSE]

Write(d) ==
  /\ ~finished[d]
  /\ written' = [written EXCEPT ![d] = @ + 1]
  /\ UNCHANGED <<finished, accepted, ended, released, settled>>

Finish(d) ==
  /\ finished' = [finished EXCEPT ![d] = TRUE]
  /\ UNCHANGED <<written, accepted, ended, released, settled>>

\* The next chunk, and only if there is one.
Accept(d) ==
  /\ accepted[d] < written[d] /\ ~ended[d]
  /\ accepted' = [accepted EXCEPT ![d] = @ + 1]
  /\ UNCHANGED <<written, finished, ended>>

AcceptEnd(d) ==
  /\ finished[d] /\ accepted[d] = written[d]
  /\ ended' = [ended EXCEPT ![d] = TRUE]
  /\ UNCHANGED <<written, finished, accepted>>

\* The acknowledgement that comes with a frame of the other direction, where
\* the same step may accept something.
Release(d) ==
  /\ \E n \in released[d] .. accepted[d] :
       released' = [released EXCEPT ![d] = n]
  /\ settled' \in {settled, [settled EXCEPT ![d] = TRUE]}
  /\ settled'[d] => ended[d]

Step(d, e) ==
  \/ Write(d) \/ Finish(d)
  \/ /\ d # e /\ Release(e)
     /\ \/ Accept(d) \/ AcceptEnd(d)
        \/ UNCHANGED <<written, finished, accepted, ended>>

Next == \E d, e \in Direction : Step(d, e)

Spec == Init /\ [][Next]_vars
=============================================================================
