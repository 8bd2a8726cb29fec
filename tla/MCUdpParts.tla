----------------------------- MODULE MCUdpParts -----------------------------
(***************************************************************************)
(* UdpParts for TLC.  The sockets, channels and send loops of the forward  *)
(* connection are interchangeable: whichever is taken for a new one, no    *)
(* state refers to it.  The temporal property and the fairness are about   *)
(* the line, which has none of them, so they lose nothing by the symmetry. *)
(***************************************************************************)
EXTENDS UdpParts, TLC

MCSymmetry == Permutations(Conns) \cup Permutations(Chans) \cup Permutations(Loops)
=============================================================================
