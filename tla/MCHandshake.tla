---------------------------- MODULE MCHandshake -----------------------------
(* Handshake for two daemons that each have a ConnectTo for the other. *)
EXTENDS Handshake

Mutual == {{<<1, 2>>, <<2, 1>>}}
=============================================================================
