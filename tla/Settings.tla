------------------------------ MODULE Settings ------------------------------
(* The settings that a running tincd reads again when it reloads:            *)
(* setup_myself_reloadable (net_setup.c) looks the variables up one by one   *)
(* and returns at the first invalid value it does not tolerate. A daemon     *)
(* that starts then stops; reload_configuration ignores the result.          *)
EXTENDS Integers, Sequences, SequencesExt, FiniteSets

CONSTANTS
  Edited, \* variables that are edited, two of them in a behaviour
  Edits,  \* and how often
  None

VARIABLES
  file,     \* the variables that are edited, and their values in the configuration
  edits,    \* edits that can still be made
  settings, \* the daemon's settings: [value, options, broadcast, ok]
  as_read,  \* the file is as it was when it was last read
  removed   \* history: variables whose value was gone or invalid at a reload

(* The variables in the order they are read. *)
Order ==
  <<"ScriptsInterpreter", "ScriptsExtension", "Proxy", "IndirectData", "TCPOnly",
    "UDPDiscovery", "UDPDiscoveryKeepaliveInterval", "UDPDiscoveryInterval", "UDPDiscoveryTimeout",
    "MTUInfoInterval", "UDPInfoInterval", "DirectOnly", "LocalDiscovery", "Mode", "TransportMode",
    "Forwarding", "PMTUDiscovery", "ClampMSS", "PriorityInheritance", "DecrementTTL", "Broadcast",
    "BroadcastSubnet", "MACExpire", "MaxTimeout", "AddressFamily", "Hostnames", "KeyExpire",
    "AutoConnect", "DisableBuggyPeers", "InvitationExpire">>

(* Those that get their default back when they are not found, those of which *)
(* an invalid value ends the reading, and those that make a bit of           *)
(* myself->options.                                                          *)
Resets == {"ScriptsInterpreter", "ScriptsExtension", "MACExpire", "MaxTimeout", "KeyExpire", "AutoConnect", "InvitationExpire"}
Checked == {"Mode", "TransportMode", "Forwarding", "Broadcast", "AddressFamily"}
Flags == {"IndirectData", "TCPOnly", "PMTUDiscovery", "ClampMSS"}

(* What can be written for a variable, but for how it is spelt. "short" is a *)
(* proxy with a host and no port, "zero" a number that is not positive, and  *)
(* "bad" what the parser of that variable refuses.                           *)
Values(v) ==
  CASE v \in Flags -> {"yes", "no", "bad"}
    [] v = "Proxy" -> {"none", "full", "short", "bad"}
    [] v = "MaxTimeout" -> {"x", "y", "zero", "bad"}
    [] v \in {"ScriptsInterpreter", "ScriptsExtension"} -> {"x", "y"}
    [] OTHER -> {"x", "y", "bad"}
Lookup(f, v) == IF v \in DOMAIN f THEN f[v] ELSE None
Valid(v, x) == x \notin {None, "bad", "zero"}

Default == [value |-> [v \in ToSet(Order) \cup {"ProxyPort"} |-> "default"], options |-> {}, broadcast |-> {}, ok |-> TRUE]

(* The proxy's type is set before its arguments are looked at; a port that   *)
(* was given once stays.                                                     *)
ReadProxy(s, x) ==
  CASE x = None -> s
    [] x = "none" -> [s EXCEPT !.value["Proxy"] = x]
    [] x = "full" -> [s EXCEPT !.value["Proxy"] = x, !.value["ProxyPort"] = "port"]
    [] x = "short" -> [s EXCEPT !.value["Proxy"] = x, !.ok = s.value["ProxyPort"] # "default"]
    [] x = "bad" -> [s EXCEPT !.ok = FALSE]

(* A bit is only ever set. *)
ReadFlag(s, v, x) ==
  LET choice == IF x \in {"yes", "no"} THEN x = "yes"
                ELSE CASE v = "PMTUDiscovery" -> "TCPOnly" \notin s.options
                       [] v = "ClampMSS" -> TRUE
                       [] OTHER -> FALSE
      on == s.options \cup (IF choice THEN {v} ELSE {})
  IN [s EXCEPT !.options = IF "TCPOnly" \in on THEN on \cup {"IndirectData"} ELSE on]

(* A number is stored before it is refused. *)
MutReadMaxTimeout(s, x) ==
  [s EXCEPT !.value["MaxTimeout"] = IF x \in {None, "bad"} THEN @ ELSE x, !.ok = x # "zero"]
ReadMaxTimeout(s, x) ==
  [s EXCEPT !.value["MaxTimeout"] = IF x \in {None, "bad"} THEN "default" ELSE x, !.ok = x # "zero"]

(* get_config_bool, get_config_int and get_config_string leave the setting   *)
(* alone when they fail.                                                     *)
ReadValue(s, v, x) ==
  [s EXCEPT !.value[v] = IF Valid(v, x) THEN x ELSE IF v \in Resets THEN "default" ELSE @,
            !.ok = ~(v \in Checked /\ x = "bad")]

(* Subnets are added to those there are. *)
ReadSubnets(s, x) == [s EXCEPT !.broadcast = @ \cup (IF Valid("BroadcastSubnet", x) THEN {"default", x} ELSE {"default"})]

Read(s, v, x) ==
  CASE ~s.ok -> s
    [] s.ok /\ v = "Proxy" -> ReadProxy(s, x)
    [] s.ok /\ v \in Flags -> ReadFlag(s, v, x)
    [] s.ok /\ v = "MaxTimeout" -> ReadMaxTimeout(s, x)
    [] s.ok /\ v = "BroadcastSubnet" -> ReadSubnets(s, x)
    [] OTHER -> ReadValue(s, v, x)

setup_myself_reloadable(s, f) ==
  LET after[i \in 0..Len(Order)] ==
        IF i = 0 THEN [s EXCEPT !.ok = TRUE]
        ELSE LET t == after[i - 1] IN Read(t, Order[i], Lookup(f, Order[i]))
  IN after[Len(Order)]

Restarted(f) == setup_myself_reloadable(Default, f)

Init ==
  /\ \E v, w \in Edited : file = [x \in {v, w} |-> None]
  /\ settings = Restarted(file)
  /\ edits = Edits
  /\ as_read = TRUE
  /\ removed = {}

Edit(v, x) ==
  /\ edits > 0 /\ edits' = edits - 1
  /\ file' = [file EXCEPT ![v] = x]
  /\ as_read' = FALSE
  /\ UNCHANGED <<settings, removed>>

Reload ==
  /\ settings' = setup_myself_reloadable(settings, file)
  /\ as_read' = TRUE
  /\ removed' = removed \cup {v \in DOMAIN file : ~Valid(v, file[v])}
  /\ UNCHANGED <<file, edits>>

(* setup_myself fails when the reading does. *)
Restart ==
  /\ Restarted(file).ok
  /\ settings' = Restarted(file)
  /\ as_read' = TRUE
  /\ removed' = {}
  /\ UNCHANGED <<file, edits>>

Next ==
  \/ \E v \in DOMAIN file : \E x \in Values(v) \cup {None} : Edit(v, x)
  \/ Reload
  \/ Restart

(* A reload gives the settings that a restart would give, when the daemon    *)
(* would start with the file: after a reload that an invalid value cut short *)
(* as well, and whichever other variables changed meanwhile. What a restart  *)
(* alone does (reload_configuration never clears them): a variable that has  *)
(* no default of its own in setup_myself_reloadable is kept when it is       *)
(* removed, a bit of the options is never cleared, not even TCPOnly's, which *)
(* keeps PMTUDiscovery's from being set, and a broadcast subnet is never     *)
(* deleted.                                                                  *)
ReloadIsRestart ==
  LET fresh == Restarted(file) IN
  as_read /\ fresh.ok =>
    /\ settings.ok
    /\ \A v \in ToSet(Order) : v \in Resets \/ v \notin removed => settings.value[v] = fresh.value[v]
    /\ fresh.options \subseteq settings.options \cup (IF "TCPOnly" \in settings.options THEN {"PMTUDiscovery"} ELSE {})
    /\ fresh.broadcast \subseteq settings.broadcast
=============================================================================
