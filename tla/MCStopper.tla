------------------------------ MODULE MCStopper ------------------------------
(***************************************************************************)
(* Stopper for TLC: two sockets, with MaxRequests requests pipelined.      *)
(***************************************************************************)
EXTENDS Stopper

MCSockets == {"s1", "s2"}
=============================================================================
