----------------------------- MODULE MCOutgoing -----------------------------
(* Outgoing for two peers: 1 has an address in its host file, 2 only in      *)
(* hosts.json.  Each has a name there that does not resolve, before or after *)
(* one that does.  a, b and c are addresses.                                 *)
EXTENDS Outgoing

CONSTANTS a, b, c

Json == [p \in {1, 2} |-> IF p = 1 THEN <<<<b>>, <<>>>> ELSE <<<<>>, <<a>>>>]
File == [p \in {1, 2} |-> IF p = 1 THEN <<<<a>>>> ELSE <<>>]
Edge == [p \in {1, 2} |-> IF p = 1 THEN c ELSE a]
At == [p \in {1, 2} |-> IF p = 1 THEN {a} ELSE {a}]
=============================================================================
