----------------------------- MODULE MCTopology -----------------------------
EXTENDS Topology

OneSubnet == {<<1, 1>>}
NoSubnet == {}

(* Node 1 has the subnet; the network is symmetric otherwise. *)
AllEvents ==
  ({"connect", "lose"} \X Links) \cup {<<"purge", 3>>, <<"restart", 1>>, <<"restart", 2>>, <<"age", 2>>, <<"age", 3>>}
  \cup ({"reload"} \X Subnets)
TwoEvents == {<<"connect", {1, 3}>>, <<"lose", {1, 2}>>}
=============================================================================
