----------------------------- MODULE MCDataPath -----------------------------
(* The two ways a daemon can route, of which routing_mode is the choice.     *)
EXTENDS Routing

VARIABLES routing_mode, where, own, known, mac_cache, armed, chan, events

switchVars == <<where, own, known, mac_cache, armed, chan, events>>

S == INSTANCE Switch WITH
       Links <- {{1, 2}, {2, 3}}, Places <- {1, 3}, Stations <- {"x", "y"}, Roamers <- {"x"},
       MaxEvents <- 2, cache <- mac_cache

(* A default route, two nodes with the same subnet, and an address for       *)
(* broadcasts; every other address has the same place in the cache.          *)
Net(a, l, o) == [addr |-> a, len |-> l, weight |-> 10, owner |-> o]
MCSubnets == {Net(0, 0, 2), Net(0, 1, 2), Net(0, 1, 3), Net(3, 2, None)}
MCSlot == [a \in 0..3 |-> a % 2]
Result(U, v, h) == [up |-> U, via |-> [n \in 1..3 |-> IF n = 3 THEN v ELSE n],
                    nexthop |-> [n \in 1..3 |-> IF n = 3 THEN h ELSE n]]
MCTopologies == {Result({1, 2, 3}, 3, 2), Result({1, 2, 3}, 2, 2),
                 Result({1, 2}, 3, 3), Result({1, 3}, 3, 3)}
MCSettings == [forwarding : {"internal", "off", "kernel"}, directonly : BOOLEAN, decrement_ttl : BOOLEAN]

MCInit == Init /\ S!Init /\ routing_mode \in {"router", "switch"}
          /\ (routing_mode = "switch" => subnets = {} /\ topo = Result({1, 2, 3}, 3, 2))
          /\ (routing_mode = "router" => where["x"] = 1) /\ where["y"] = 3
MCNext == \/ routing_mode = "router" /\ Next /\ UNCHANGED <<routing_mode, switchVars>>
          \/ routing_mode = "switch" /\ S!Next /\ UNCHANGED <<routing_mode, vars>>
MCSpec == MCInit /\ [][MCNext]_<<vars, routing_mode, switchVars>> /\ S!Fairness

(* A station that stays and sends is found: in the end every other node      *)
(* sends its frames to the node it is behind (route_mac), whatever was       *)
(* learned before and wherever the cache kept a node from learning.          *)
StationFound == routing_mode = "switch" => S!StationFound
=============================================================================
