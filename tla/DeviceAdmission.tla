--------------------------- MODULE DeviceAdmission ---------------------------
(*****************************************************************************)
(* What the Server promises about authenticated tunnels, without locks,      *)
(* threads or indexes: a device is admitted under at most one tunnel, only   *)
(* while its approval stands and under the identity it is bound to, and a    *)
(* change of its approval or binding ends the admission in the same step.    *)
(* GatewaySessions is shown to implement this.                               *)
(*****************************************************************************)

CONSTANTS Devices, Identities, Tunnels, Nobody

VARIABLES
  allowed,    \* allowed[d]: the identity d may enter under, or Nobody
  admitted    \* admitted[d]: the tunnel and the identity d is admitted under

absVars == <<allowed, admitted>>

Outside == [tunnel |-> Nobody, identity |-> Nobody]

AbsInit ==
  /\ allowed \in [Devices -> Identities \cup {Nobody}]
  /\ admitted = [d \in Devices |-> Outside]

\* A new tunnel of the device takes the place of the old one.
Admit(d, c) ==
  /\ allowed[d] # Nobody
  /\ admitted' = [admitted EXCEPT ![d] = [tunnel |-> c, identity |-> allowed[d]]]
  /\ UNCHANGED allowed

\* Approval mutation and invalidation, indivisible.
Change(d, who) ==
  /\ allowed' = [allowed EXCEPT ![d] = who]
  /\ admitted' = [admitted EXCEPT ![d] = Outside]

\* Tunnels end, identities are invalidated, the Gateway closes.
Drop(gone) ==
  /\ admitted' = [d \in Devices |-> IF d \in gone THEN Outside ELSE admitted[d]]
  /\ UNCHANGED allowed

AbsNext ==
  \/ \E d \in Devices, c \in Tunnels : Admit(d, c)
  \/ \E d \in Devices, who \in Identities \cup {Nobody} : Change(d, who)
  \/ \E gone \in SUBSET Devices : Drop(gone)

AbsSpec == AbsInit /\ [][AbsNext]_absVars
=============================================================================
