-------------------------------- MODULE Mtu ---------------------------------
(* The MTU of a node: try_tx of src/net_packet.c, which send_packet calls    *)
(* for every packet and timeout_handler for every connection, with the UDP   *)
(* probes of try_udp and the path MTU discovery of try_mtu.                  *)
(*                                                                           *)
(* Nothing in src/ calls udp_probe_h any more, so a probe is never answered: *)
(* udp_confirmed stays false, udp_probe_timeout_handler is never armed, and  *)
(* minmtu never grows.  Elapsed times are kept as the intervals they are     *)
(* compared with.                                                            *)
EXTENDS Integers

CONSTANTS
  IpMtus,     \* what getsockopt(IP_MTU) may return
  PMTUs       \* the values of PMTU that ack_h may find in the host file

MTU == 1518
MIN_PROBE_SIZE == 18
None == -1

VARIABLES
  udp_discovery,   \* UDPDiscovery in tinc.conf
  reachable, mtu, minmtu, maxmtu, mtuprobes,   \* fields of the node_t
  mtu_elapsed,     \* since mtu_ping_sent: 0 below 1/3 s, 1 below 1 s, 2 below pinginterval, 3 longer
  udp_due,         \* whether udp_discovery_interval passed since udp_ping_sent
  probe,           \* the length of the shortest probe of the last call
  aborted          \* randomize was asked for a negative number of bytes

vars == <<udp_discovery, reachable, mtu, minmtu, maxmtu, mtuprobes, mtu_elapsed, udp_due, probe, aborted>>

Init ==
  /\ udp_discovery \in BOOLEAN
  /\ reachable = FALSE /\ mtu = MTU /\ minmtu = 0 /\ maxmtu = MTU /\ mtuprobes = 0
  /\ mtu_elapsed = 3 /\ udp_due = TRUE
  /\ probe = None /\ aborted = FALSE

-----------------------------------------------------------------------------
(* send_udp_probe_packet of the given lengths: 14 zeroes and random bytes.   *)
send_udp_probe_packets(lengths) ==
  /\ probe' = CHOOSE l \in lengths : \A m \in lengths : l <= m
  /\ aborted' = \E l \in lengths : l < 14

(* try_udp for a node that is not confirmed *)
try_udp ==
  LET sends == udp_discovery /\ udp_due
  IN /\ udp_due' = (udp_due /\ ~sends)
     /\ IF sends THEN send_udp_probe_packets({MIN_PROBE_SIZE}) ELSE UNCHANGED <<probe, aborted>>

(* try_fix_mtu: the minmtu, maxmtu, mtu and mtuprobes it leaves. *)
try_fix_mtu ==
  IF mtuprobes >= 0 /\ (mtuprobes = 20 \/ minmtu >= maxmtu)
  THEN LET fixed == IF minmtu > maxmtu THEN maxmtu ELSE minmtu
       IN [min |-> fixed, max |-> fixed, mtu |-> fixed, probes |-> -1]
  ELSE [min |-> minmtu, max |-> maxmtu, mtu |-> mtu, probes |-> mtuprobes]

(* choose_initial_maxmtu, where the length of the IP header is given; a      *)
(* length_t has 16 bits.                                                     *)
choose_initial_maxmtu(ip_mtu, header) ==
  LET m == (ip_mtu - header - 8) % 65536
  IN IF m < 512 \/ m > MTU THEN MTU ELSE m

(* The probe of a cycle: the exponential is 1 in the last call of a cycle of *)
(* eight, and at most the interval before.                                   *)
Probe(min, max, probes) ==
  LET low == IF min > 512 THEN min ELSE 512
  IN IF probes % 8 = 7 THEN {low + 1} ELSE {low + 1, max}

(* The early return of try_mtu: it is too early for the next probe. *)
TooEarly ==
  \/ mtuprobes > 0 /\ mtu_elapsed = 0
  \/ mtuprobes < -1 /\ mtu_elapsed < 2
  \/ mtuprobes = -1 /\ mtu_elapsed < 3

(* try_mtu after the MTU is fixed: one probe of maxmtu bytes and, the first  *)
(* time, one that is longer.                                                 *)
ProbeFixed(f) ==
  /\ send_udp_probe_packets({f.max} \cup IF f.probes = -1 /\ f.max + 1 < MTU THEN {f.max + 1} ELSE {})
  /\ maxmtu' = f.max /\ minmtu' = f.min /\ mtuprobes' = f.probes - 1

(* try_mtu while the MTU is looked for *)
ProbeUnfixed(f) ==
  \E ip_mtu \in IpMtus, header \in {20, 40} :
    LET max == IF f.probes = 0 THEN choose_initial_maxmtu(ip_mtu, header) ELSE f.max
    IN /\ \E length \in Probe(f.min, max, f.probes) : send_udp_probe_packets({length})
       /\ maxmtu' = max /\ minmtu' = f.min /\ mtuprobes' = f.probes + 1

(* try_mtu for a node with PMTUDiscovery *)
try_mtu ==
  \/ /\ udp_discovery
     /\ mtuprobes' = 0 /\ minmtu' = 0 /\ maxmtu' = MTU
     /\ UNCHANGED <<mtu, mtu_elapsed>>
  \/ /\ ~udp_discovery /\ TooEarly
     /\ UNCHANGED <<mtu, minmtu, maxmtu, mtuprobes, mtu_elapsed, probe, aborted>>
  \/ /\ ~udp_discovery /\ ~TooEarly
     /\ mtu_elapsed' = 0
     /\ LET f == try_fix_mtu
            g == IF f.probes < -3 THEN [f EXCEPT !.probes = 0, !.min = 0] ELSE f
        IN mtu' = f.mtu /\ IF g.probes < 0 THEN ProbeFixed(g) ELSE ProbeUnfixed(g)

(* try_tx(n, true), the end of send_packet *)
SendPacket ==
  /\ reachable /\ ~aborted
  /\ IF udp_discovery THEN try_udp /\ try_mtu ELSE UNCHANGED udp_due /\ try_mtu
  /\ UNCHANGED <<udp_discovery, reachable>>

(* try_tx(n, false), in timeout_handler *)
TimeoutHandler ==
  /\ reachable /\ ~aborted
  /\ try_udp
  /\ UNCHANGED <<udp_discovery, reachable, mtu, minmtu, maxmtu, mtuprobes, mtu_elapsed>>

(* check_reachability: what it resets when the node comes or goes *)
CheckReachability ==
  /\ ~aborted
  /\ reachable' = ~reachable
  /\ maxmtu' = MTU /\ minmtu' = 0 /\ mtuprobes' = 0
  /\ UNCHANGED <<udp_discovery, mtu, mtu_elapsed, udp_due, probe, aborted>>

(* ack_h: the PMTU option *)
Ack ==
  /\ ~aborted
  /\ \E pmtu \in PMTUs : pmtu < mtu /\ mtu' = pmtu
  /\ UNCHANGED <<udp_discovery, reachable, minmtu, maxmtu, mtuprobes, mtu_elapsed, udp_due, probe, aborted>>

(* Time passes. *)
Tick ==
  /\ ~aborted
  /\ mtu_elapsed < 3 \/ ~udp_due
  /\ mtu_elapsed' \in mtu_elapsed..3 /\ udp_due' = TRUE
  /\ UNCHANGED <<udp_discovery, reachable, mtu, minmtu, maxmtu, mtuprobes, probe, aborted>>

Next == SendPacket \/ TimeoutHandler \/ CheckReachability \/ Ack \/ Tick

Spec == Init /\ [][Next]_vars

-----------------------------------------------------------------------------
(* "n->minmtu will be progressively increased, and at some point, n->mtu     *)
(* will be fixed to n->minmtu": the MTU that try_fix_mtu fixes is one that   *)
(* probes have shown, and more than nothing fits in it.                      *)
FixedIsMeasured == mtuprobes < 0 => minmtu > 0
=============================================================================
