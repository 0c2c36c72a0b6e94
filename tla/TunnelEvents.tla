----------------------------- MODULE TunnelEvents -----------------------------
(*****************************************************************************)
(* What a client may rely on when it listens to its tunnel manager: there is *)
(* at most one active session, a session is given up before another takes    *)
(* its place, the listener hears of every session that becomes active, and a *)
(* closed manager never changes again.  TunnelManager is shown to implement  *)
(* this; AgentSession is built on it.                                        *)
(*****************************************************************************)

CONSTANTS Sessions, Nobody

VARIABLES
  state,     \* TunnelManager.state
  session,   \* TunnelManager.session
  heard      \* arguments of the listener's last call: <<newState, session>>

eventVars == <<state, session, heard>>

Idle == {"DISCONNECTED", "CONNECTING", "RECONNECTING"}

EventsInit ==
  /\ state = "DISCONNECTED"
  /\ session = Nobody
  /\ heard = <<"DISCONNECTED", Nobody>>

Up(s) ==
  /\ state \in Idle
  /\ session = Nobody
  /\ state' = "CONNECTED"
  /\ session' = s
  /\ heard' = <<"CONNECTED", s>>

\* The listener is called only when the state changes.
Down(new) ==
  /\ state # "CLOSED"
  /\ state' = new
  /\ session' = Nobody
  /\ heard' = IF state = new THEN heard ELSE <<new, Nobody>>

\* Closing is not announced.
Shut ==
  /\ state' = "CLOSED"
  /\ session' = Nobody
  /\ UNCHANGED heard

EventsNext ==
  \/ \E s \in Sessions : Up(s)
  \/ \E new \in Idle : Down(new)
  \/ Shut

EventsSpec == EventsInit /\ [][EventsNext]_eventVars
===============================================================================
