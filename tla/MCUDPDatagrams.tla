--------------------------- MODULE MCUDPDatagrams ---------------------------
(* Instances of UDPDatagrams for TLC: two fragments of one packet, and one   *)
(* each of two other packets that came to have the same number.              *)
EXTENDS UDPDatagrams

Arriving == {[packet |-> 1, index |-> 0, count |-> 2],
             [packet |-> 1, index |-> 1, count |-> 2],
             [packet |-> 1, index |-> 0, count |-> 1],
             [packet |-> 1, index |-> 0, count |-> 3]}
=============================================================================
