------------------------------ MODULE Outgoing ------------------------------
(***************************************************************************)
(* The outgoing connections of one daemon: the outgoing_t of each          *)
(* ConnectTo and its retries (net_socket.c), the addresses that are tried  *)
(* for it (address_cache.c), AutoConnect (autoconnect.c), and what reload, *)
(* retry and a restart make of them (net.c).                               *)
(*                                                                         *)
(* node[p] is what the daemon has for its peer p: its outgoing_t (none if  *)
(* outgoing is FALSE), the connection_t that is being made for it (dial is *)
(* its address), the active connection, the address cache, and whether p   *)
(* has connections elsewhere.  dialled is no variable of the code: the     *)
(* addresses tried since the cache was reset.  What two connections with   *)
(* one peer do to each other is in Handshake.                              *)
(***************************************************************************)
EXTENDS Integers, Sequences, FiniteSets, FiniteSetsExt

CONSTANTS
  Peers, Addresses, None,
  HostsJson,     \* HostsJson[p], HostFile[p]: the names in hosts.json and in hosts/p, in order,
  HostFile,      \*   each the sequence of addresses it resolves to
  EdgeAddress,   \* the address of p that other nodes announce in their edges to it
  Works,         \* Works[p]: the addresses at which p answers
  ConnectTos,    \* the values that ConnectTo is given
  AutoConnect,
  EnoughConnections,   \* 3 in do_autoconnect
  MAX_CACHED_ADDRESSES, maxtimeout

ASSUME PeersAssumption == \A s \in ConnectTos : s \subseteq Peers
ASSUME AddressesAssumption ==
  \A p \in Peers :
    /\ HostsJson[p] \in Seq(Seq(Addresses)) /\ HostFile[p] \in Seq(Seq(Addresses))
    /\ EdgeAddress[p] \in Addresses /\ Works[p] \subseteq Addresses
ASSUME NoneAssumption == None \notin [outgoing : BOOLEAN, address : Addresses] /\ None \notin Addresses
ASSUME BoundsAssumption ==
  /\ AutoConnect \in BOOLEAN /\ EnoughConnections \in Nat
  /\ MAX_CACHED_ADDRESSES \in Nat \ {0} /\ maxtimeout \in Nat \ {0}

VARIABLES
  connect_to,   \* the ConnectTo in tinc.conf, as last read
  node

vars == <<connect_to, node>>

-----------------------------------------------------------------------------
(* open_address_cache: the file has the addresses of the last run, or is     *)
(* not complete.  ai says whether there is a list, aip is what is left of    *)
(* it, and config_tree and cfg are the same for the host file.               *)
open_address_cache(file) ==
  [address |-> file, tried |-> 0, ai |-> FALSE, aip |-> <<>>, json_addr_idx |-> -1,
   config_tree |-> FALSE, cfg |-> <<>>]

find_cached(cache, sa) == sa \in Range(cache.address)

(* The first of the indexes, 0 if there is none. *)
First(indexes) == IF indexes = {} THEN 0 ELSE Min(indexes)
Without(s, i) == SubSeq(s, 1, i - 1) \o SubSeq(s, i + 1, Len(s))

(* add_recent_address; the definitions called Mut... are faults a property   *)
(* must detect, the specification does not use them.                         *)
Pushed(address, sa) ==
  IF Len(address) < MAX_CACHED_ADDRESSES THEN <<sa>> \o address ELSE <<sa>> \o Without(address, Len(address))
Added(cache, sa) ==
  IF find_cached(cache, sa)
  THEN <<sa>> \o Without(cache.address,
                         First({i \in 1 .. Len(cache.address) : cache.address[i] = sa}))
  ELSE Pushed(cache.address, sa)

reset_address_cache(cache, sa) == open_address_cache(Added(cache, sa))

Returns(sa, cache) == [sa |-> sa, cache |-> cache]

(* get_recent_address, from the end: the Address statements of the host      *)
(* file, or no more addresses.                                               *)
MutExhausted(cache) == [cache EXCEPT !.ai = FALSE, !.aip = <<>>]
Exhausted(cache) ==
  [cache EXCEPT !.ai = FALSE, !.aip = <<>>, !.config_tree = FALSE, !.cfg = <<>>]
FromHostFile(cache, p) ==
  LET cfg == IF cache.config_tree THEN cache.cfg ELSE HostFile[p]
      next == First({i \in 1 .. Len(cfg) : cfg[i] # <<>>})
  IN CASE cache.aip # <<>> ->
            Returns(Head(cache.aip),
                    [cache EXCEPT !.aip = Tail(@), !.config_tree = TRUE, !.cfg = cfg])
       [] cache.aip = <<>> /\ next # 0 ->
            Returns(Head(cfg[next]),
                    [cache EXCEPT !.ai = TRUE, !.aip = Tail(cfg[next]), !.config_tree = TRUE,
                                  !.cfg = SubSeq(cfg, next + 1, Len(cfg))])
       [] OTHER -> Returns(None, Exhausted([cache EXCEPT !.config_tree = TRUE, !.cfg = <<>>]))

(* hosts.json: json_addr_idx is -1 at first and -2 when it is exhausted. *)
MutFirstJson(idx) == IF idx = -1 THEN 1 ELSE idx
FirstJson(idx) == IF idx = -1 THEN 0 ELSE idx
FromHostsJson(cache, p) ==
  LET idx == FirstJson(cache.json_addr_idx)
      list == HostsJson[p][idx + 1]
      next == [cache EXCEPT !.json_addr_idx = idx + 1, !.ai = list # <<>>, !.aip = list]
  IN CASE idx < 0 -> FromHostFile(cache, p)
       [] idx >= Len(HostsJson[p]) -> FromHostFile([cache EXCEPT !.json_addr_idx = -2], p)
       [] OTHER -> IF list # <<>> THEN Returns(Head(list), [next EXCEPT !.aip = Tail(@)])
                   ELSE FromHostFile(next, p)

(* "recently seen addresses not in our cache" *)
FromEdges(cache, p, known) ==
  LET list == IF cache.ai THEN cache.aip ELSE known
      next == First({i \in 1 .. Len(list) : ~find_cached(cache, list[i])})
  IN IF next # 0
     THEN Returns(list[next], [cache EXCEPT !.ai = TRUE,
                                            !.aip = SubSeq(list, next + 1, Len(list))])
     ELSE FromHostsJson([cache EXCEPT !.ai = FALSE, !.aip = <<>>, !.tried = @ + 1], p)

get_recent_address(cache, p, known) ==
  LET used == Len(cache.address)
  IN CASE cache.tried < used ->
            Returns(cache.address[cache.tried + 1], [cache EXCEPT !.tried = @ + 1])
       [] cache.tried = used -> FromEdges(cache, p, known)
       [] OTHER -> FromHostsJson(cache, p)

-----------------------------------------------------------------------------
(* The timeout counts in the 5 seconds that retry_outgoing adds to it. *)
Backoff(timeout) == IF timeout + 1 > maxtimeout THEN maxtimeout ELSE timeout + 1
retry_outgoing(n) == [n EXCEPT !.timeout = Backoff(@), !.ev = TRUE]

get_known_addresses(n, p) == IF n.elsewhere THEN <<EdgeAddress[p]>> ELSE <<>>

do_outgoing_connection(n, p) ==
  LET r == get_recent_address(n.cache, p, get_known_addresses(n, p))
      next == [n EXCEPT !.cache = r.cache]
  IN IF r.sa = None THEN retry_outgoing(next)
     ELSE [next EXCEPT !.dial = r.sa, !.dialled = @ \cup {r.sa}]

setup_outgoing_connection(n, p) ==
  LET next == [n EXCEPT !.ev = FALSE]
  IN CASE n.connection = None -> do_outgoing_connection(next, p)
       [] n.connection # None /\ ~n.connection.outgoing ->
            [next EXCEPT !.connection.outgoing = TRUE]
       [] OTHER -> [next EXCEPT !.outgoing = FALSE]

(* terminate_connection of the connection that is made, and of the active one. *)
TerminateDial(n, p) == do_outgoing_connection([n EXCEPT !.dial = None], p)

Terminate(n, p) ==
  LET next == [n EXCEPT !.connection = None]
  IN IF n.connection.outgoing THEN do_outgoing_connection(next, p) ELSE next

(* A new outgoing_t in outgoing_list, and free_outgoing. *)
AddOutgoing(n, p) == setup_outgoing_connection([n EXCEPT !.outgoing = TRUE, !.timeout = 0], p)
MutFreeOutgoing(n) == [n EXCEPT !.outgoing = FALSE]
FreeOutgoing(n) == [n EXCEPT !.outgoing = FALSE, !.ev = FALSE, !.timeout = 0]

HasConnection(n) == n.dial # None \/ (n.connection # None /\ n.connection.outgoing)

(* The outgoing_t of a ConnectTo that is gone: its connection is terminated, *)
(* and is not made again.                                                    *)
DropOutgoing(n) ==
  LET next == FreeOutgoing(n)
  IN IF n.connection # None /\ n.connection.outgoing
     THEN [next EXCEPT !.connection = None] ELSE [next EXCEPT !.dial = None]

(* try_outgoing_connections, what it does for p. *)
TryOutgoing(n, p, config) ==
  CASE n.outgoing /\ p \in config -> [n EXCEPT !.timeout = 0]
    [] n.outgoing /\ p \notin config -> DropOutgoing(n)
    [] ~n.outgoing /\ p \in config -> AddOutgoing(n, p)
    [] OTHER -> n

Started(p, config, file) ==
  TryOutgoing([outgoing |-> FALSE, timeout |-> 0, ev |-> FALSE, dial |-> None,
               connection |-> None, elsewhere |-> FALSE,
               cache |-> open_address_cache(file), dialled |-> {}],
              p, config)

Init ==
  /\ connect_to \in ConnectTos
  /\ node = [p \in Peers |-> Started(p, connect_to, <<>>)]

-----------------------------------------------------------------------------
Becomes(p, n) == node' = [node EXCEPT ![p] = n]

(* retry_outgoing_handler *)
Retry(p) ==
  /\ node[p].ev
  /\ Becomes(p, setup_outgoing_connection(node[p], p))
  /\ UNCHANGED connect_to

(* timeout_handler, "Timeout while connecting"; a connection that cannot be  *)
(* made at all has do_outgoing_connection begin again with the next address. *)
DialFails(p) ==
  /\ node[p].dial # None
  /\ Becomes(p, TerminateDial(node[p], p))
  /\ UNCHANGED connect_to

(* ack_h at the end of a connection that was made. *)
Connect(p) ==
  /\ node[p].dial \in Works[p]
  /\ Becomes(p, [node[p] EXCEPT !.dial = None,
                                !.connection = [outgoing |-> TRUE, address |-> node[p].dial]])
  /\ UNCHANGED connect_to

(* ack_h: the peer made the connection. *)
Incoming(p) ==
  /\ node[p].dial = None /\ node[p].connection = None
  /\ \E sa \in Works[p] :
       Becomes(p, [node[p] EXCEPT !.connection = [outgoing |-> FALSE, address |-> sa]])
  /\ UNCHANGED connect_to

(* timeout_handler, "didn't respond to PING" or "is dead". *)
Lose(p) ==
  /\ node[p].connection # None
  /\ Becomes(p, Terminate(node[p], p))
  /\ UNCHANGED connect_to

Reset(n, sa) == [n EXCEPT !.cache = reset_address_cache(@, sa), !.dialled = {}]

(* pong_h, "Successful connection, reset timeout". *)
Pong(p) ==
  LET n == node[p]
  IN /\ n.connection # None /\ n.connection.outgoing /\ n.timeout # 0
     /\ Becomes(p, [Reset(n, n.connection.address) EXCEPT !.timeout = 0])
     /\ UNCHANGED connect_to

(* udp_probe_h, a probe reply from a node that is not udp_confirmed. *)
UdpConfirmed(p) ==
  /\ node[p].connection # None \/ node[p].elsewhere
  /\ \E sa \in Works[p] : Becomes(p, Reset(node[p], sa))
  /\ UNCHANGED connect_to

(* retry: the timers expire at once, with a timeout that starts anew. *)
RetryAll ==
  /\ node' = [p \in Peers |-> IF node[p].outgoing THEN [node[p] EXCEPT !.timeout = 0] ELSE node[p]]
  /\ UNCHANGED connect_to

(* reload_configuration: ConnectTo is read again, then the connections with  *)
(* a node whose host file changed or does not exist are closed.              *)
Reload ==
  \E config \in ConnectTos, changed \in SUBSET Peers :
    LET Reloaded(p) == TryOutgoing(node[p], p, config)
        Closes(p) == p \in changed \/ HostFile[p] = <<>>
        Closed(n, p) == IF n.dial # None THEN TerminateDial(n, p)
                        ELSE IF n.connection # None THEN Terminate(n, p) ELSE n
    IN /\ connect_to' = config
       /\ node' = [p \in Peers |-> IF Closes(p) THEN Closed(Reloaded(p), p) ELSE Reloaded(p)]

(* The daemon stops, perhaps while it writes the cache of a peer, and starts *)
(* again.                                                                    *)
Restart ==
  /\ \E complete \in SUBSET Peers :
       node' = [p \in Peers |-> Started(p, connect_to, IF p \in complete
                                                       THEN node[p].cache.address ELSE <<>>)]
  /\ UNCHANGED connect_to

(* The graph changes: p gets or loses its connections with other nodes. *)
Elsewhere(p) ==
  /\ Becomes(p, [node[p] EXCEPT !.elsewhere = ~@])
  /\ UNCHANGED connect_to

-----------------------------------------------------------------------------
(* do_autoconnect.  hosts.json tells whether a node has an address. *)
has_address(p) == HostsJson[p] # <<>>
nc == Cardinality({p \in Peers : node[p].connection # None})

make_new_connection ==
  \E p \in Peers :
    /\ node[p].connection = None /\ ~node[p].outgoing
    /\ has_address(p) \/ node[p].elsewhere
    /\ Becomes(p, AddOutgoing(node[p], p))

(* drop_superfluous_outgoing_connection: p has another connection. *)
Superfluous ==
  {p \in Peers : node[p].connection # None /\ node[p].connection.outgoing /\ node[p].elsewhere}

(* drop_superfluous_pending_connections *)
DropPending(n) == IF n.outgoing /\ ~HasConnection(n) THEN FreeOutgoing(n) ELSE n

Unreachable(n, p) == n.connection = None /\ ~n.elsewhere /\ has_address(p)

(* connect_to_unreachable draws a node r; many of them need no connection. *)
DropAndConnect ==
  \E superfluous \in SUBSET Superfluous, r \in Peers \cup {None} :
    /\ Cardinality(superfluous) =
         IF nc > EnoughConnections /\ Superfluous # {} THEN 1 ELSE 0
    /\ node' = [p \in Peers |->
                  LET n == DropPending(IF p \in superfluous THEN DropOutgoing(node[p])
                                       ELSE node[p])
                  IN IF p = r /\ Unreachable(n, p) /\ ~n.outgoing THEN AddOutgoing(n, p) ELSE n]

do_autoconnect ==
  /\ AutoConnect
  /\ IF nc < EnoughConnections THEN make_new_connection ELSE DropAndConnect
  /\ UNCHANGED connect_to

Step(p) ==
  \/ Retry(p) \/ DialFails(p) \/ Connect(p) \/ Incoming(p) \/ Lose(p) \/ Pong(p)
  \/ UdpConfirmed(p) \/ Elsewhere(p)

Next == (\E p \in Peers : Step(p)) \/ RetryAll \/ Reload \/ Restart \/ do_autoconnect

(* Timers expire, an attempt ends, and one that is made again and again at   *)
(* an address where the peer answers succeeds at last.                       *)
Fairness ==
  \A p \in Peers : WF_vars(Retry(p)) /\ WF_vars(DialFails(p)) /\ SF_vars(Connect(p))

Spec == Init /\ [][Next]_vars /\ Fairness

-----------------------------------------------------------------------------
CacheType ==
  [address : Seq(Addresses), tried : Nat, ai : BOOLEAN, aip : Seq(Addresses),
   json_addr_idx : Int, config_tree : BOOLEAN, cfg : Seq(Seq(Addresses))]

(* The types of the fields; the cache never has more addresses than its      *)
(* array, tried is at most one past them, and json_addr_idx stays in         *)
(* hosts.json.                                                               *)
TypeOK ==
  /\ connect_to \subseteq Peers
  /\ \A p \in Peers :
       LET n == node[p] IN
       /\ n.outgoing \in BOOLEAN /\ n.ev \in BOOLEAN /\ n.elsewhere \in BOOLEAN
       /\ n.timeout \in 0..maxtimeout
       /\ n.dial \in Addresses \cup {None} /\ n.dialled \subseteq Addresses
       /\ n.connection = None \/ n.connection \in [outgoing : BOOLEAN, address : Addresses]
       /\ n.cache \in CacheType
       /\ Len(n.cache.address) <= MAX_CACHED_ADDRESSES
       /\ n.cache.tried <= Len(n.cache.address) + 1
       /\ n.cache.json_addr_idx \in -2..Len(HostsJson[p])

CarrierKinds == {"timer", "dial", "connection"}
Carriers(n) ==
  {x \in CarrierKinds :
     CASE x = "timer" -> n.ev
       [] x = "dial" -> n.dial # None
       [] OTHER -> n.connection # None /\ n.connection.outgoing}

(* An outgoing_t in outgoing_list has one thing that carries it on: its      *)
(* timer, the connection that is made for it, or the active one.  Nothing    *)
(* refers to an outgoing_t that free_outgoing freed, and none is forgotten,  *)
(* through reload, AutoConnect and all the ways a connection ends.           *)
OutgoingCarried ==
  \A p \in Peers : IF node[p].outgoing THEN \E x \in CarrierKinds : Carriers(node[p]) = {x}
                   ELSE Carriers(node[p]) = {}

Tried(list, D) == list # <<>> => Head(list) \in D
AllTriedFor(p) ==
  /\ Range(node[p].cache.address) \subseteq node[p].dialled
  /\ \A list \in Range(HostFile[p]) : Tried(list, node[p].dialled)
  /\ \A i \in 1 .. Len(HostsJson[p]) :
       \/ Tried(HostsJson[p][i], node[p].dialled)
       \/ \E k \in 1 .. i - 1 : HostsJson[p][k] = <<>>

(* When do_outgoing_connection gives up and waits it has tried, since the    *)
(* cache was last reset, every recent address and the first address of every *)
(* name in the host file and in hosts.json, however it was interrupted.  A   *)
(* name in hosts.json that does not resolve has get_recent_address go on     *)
(* with the host file: the names after it may be left for the next timer.    *)
AllTried ==
  \A p \in Peers : node[p].ev /\ node[p].cache.tried # 0 => AllTriedFor(p)

(* The daemon is connected again and again with a peer for which it keeps    *)
(* its outgoing_t, if the peer answers at an address in its host file, which *)
(* get_recent_address reads anew for each attempt.                           *)
Reconnects ==
  \A p \in Peers :
    /\ \E list \in Range(HostFile[p]) : list # <<>> /\ Head(list) \in Works[p]
    /\ <>[](node[p].outgoing)
    => []<>(node[p].connection # None)
=============================================================================
