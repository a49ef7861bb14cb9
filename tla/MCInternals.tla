---------------------------- MODULE MCInternals -----------------------------
(* What the rest of the daemon is built on, each part by itself: the event   *)
(* loop, the trees, the lists, and what goes over the wire.                  *)
EXTENDS EventLoop

CONSTANTS Less, More, Conns

VARIABLES
  part,
  tree, result,
  list, alive, loop, visited, due, added, crossed, used_freed,
  masquerading, padding, packet, arrived, stream, ends, inbuf, sent, headers, received,
  json, hosts, listed, own, invite,
  file, edits, settings, as_read, removed

treeVars == <<tree, result>>
listVars == <<list, alive, loop, visited, due, added, crossed, used_freed>>
wireVars == <<masquerading, padding, packet, arrived, stream, ends, inbuf, sent, headers, received>>
hostVars == <<json, hosts, listed, own, invite>>
settingVars == <<file, edits, settings, as_read, removed>>
mcVars == <<part, vars, treeVars, listVars, wireVars, hostVars, settingVars>>

(* The listener's file descriptor is below the pipe's, a connection's above. *)
MCStarted == [i \in {Listener} \cup {CHOOSE j \in Ios : j # Listener} |-> IF i = Listener THEN 4 ELSE 6]

(* Every length around those at which the length of a header changes, and    *)
(* packets that begin like an Ethernet frame, an IP packet without one, a    *)
(* probe, a frame or padding.                                                *)
Starting(h, n) == h \o [i \in 1..n - Len(h) |-> 7]
Beginnings ==
  {<<0,0,0,0,0,0,0,0,0,0,0,0,8,0>>, <<0,0,0,0,0,0,0,0,0,0,0,0,0,0>>,
   <<2,0,0,0,0,1,2,0,0,0,0,2,8,6>>, <<0,50,0,0,0,1,2,0,0,0,0,2,8,6>>,
   <<253,0,20,0,0,1,2,0,0,0,0,2,8,6>>, <<255,255,255,255,255,255,2,0,0,0,0,2,8,6>>}
MCPackets == {Starting(h, n) : h \in Beginnings, n \in {14, 20, 60, 61, 62, 63, 64, 65, 66, 125, 127, 128, 129, 256}}

T == INSTANCE SplayTree WITH Keys <- 1..6, Generations <- 2
L == INSTANCE ConnectionList WITH MaxAdded <- 4, WorkerDeletes <- TRUE
W == INSTANCE Wire WITH Packets <- MCPackets, BufferSize <- 300, Requests <- 3, MaxHeaders <- 1, Whole <- TRUE
H == INSTANCE HostsJson WITH
  Lower <- [n \in {"alice", "ALICE", "bob", "carol", "erin"} |-> IF n = "ALICE" THEN "alice" ELSE n],
  MaxAddresses <- 2, Me <- "bob", Joiner <- "erin", Others <- {"carol"},
  Owns <- {[addresses |-> <<>>, port |-> 443, vpn_address |-> <<>>, blank |-> FALSE],
           [addresses |-> <<"d">>, port |-> 655, vpn_address |-> <<4, 24>>, blank |-> FALSE],
           [addresses |-> <<"d">>, port |-> 655, vpn_address |-> <<4, 24>>, blank |-> TRUE]},
  Befores <- {<<>>, <<[name |-> "bob", addresses |-> <<"e">>, port |-> 443, subnet |-> <<>>, vpn_address |-> <<>>]>>},
  Sizes <- {80, 104, 136, 200}
(* Settings of every kind, from the first to the last that are read. *)
S == INSTANCE Settings WITH Edits <- 3,
  Edited <- {"Proxy", "TCPOnly", "Mode", "PMTUDiscovery", "BroadcastSubnet", "MaxTimeout", "AddressFamily", "Hostnames", "AutoConnect"}

MCInit ==
  /\ part \in {"event loop", "tree", "list", "wire", "hosts", "settings"}
  /\ Init /\ T!Init /\ L!Init /\ W!Init
  /\ part # "wire" => packet = None /\ ~masquerading.sender
  /\ IF part = "hosts" THEN H!Init
     ELSE json = <<>> /\ hosts = <<>> /\ listed = {} /\ own = None /\ invite = None
  /\ IF part = "settings" THEN S!Init
     ELSE file = None /\ edits = 0 /\ settings = None /\ as_read = FALSE /\ removed = {}
MCNext ==
  /\ UNCHANGED part
  /\ \/ part = "event loop" /\ Next /\ UNCHANGED <<treeVars, listVars, wireVars, hostVars, settingVars>>
     \/ part = "tree" /\ T!Next /\ UNCHANGED <<vars, listVars, wireVars, hostVars, settingVars>>
     \/ part = "list" /\ L!Next /\ UNCHANGED <<vars, treeVars, wireVars, hostVars, settingVars>>
     \/ part = "wire" /\ W!Next /\ UNCHANGED <<vars, treeVars, listVars, hostVars, settingVars>>
     \/ part = "hosts" /\ H!Next /\ UNCHANGED <<vars, treeVars, listVars, wireVars, settingVars>>
     \/ part = "settings" /\ S!Next /\ UNCHANGED <<vars, treeVars, listVars, wireVars, hostVars>>
MCSpec == MCInit /\ [][MCNext]_mcVars /\ WF_vars(Loop)

(* A splay tree is an ordered set to its users: see SplayTree. *)
IsOrderedSet == T!IsOrderedSet
(* The list of a splay tree that splay_each walks agrees with the tree: see  *)
(* SplayTree.                                                                *)
ListIsTree == T!ListIsTree
(* A list_each over the connections reads no freed node and misses none,     *)
(* unless a worker deletes meanwhile: see ConnectionList.                    *)
EachIsSafe == L!EachIsSafe
(* receive_packet gets the packet that quic_send_packet was given, and       *)
(* receive_meta the requests that were sent, in order: see Wire.             *)
ArrivesIntact == W!DatagramIntact /\ W!MetaInOrder
(* hosts_db holds what hosts.json lists: see HostsJson. *)
FileIsParsed == H!FileIsParsed
(* A joining node learns the hosts that fit in INVITE_DATA: see HostsJson. *)
JoinerKnows == H!JoinerKnows
(* A reload gives the settings that a restart would give: see Settings. *)
ReloadIsRestart == S!ReloadIsRestart
=============================================================================
