------------------------------- MODULE Daemon -------------------------------
(* Starting and stopping tincd.  The tincd processes of one network share a  *)
(* pid file, a UNIX socket and a port; `tinc start', `tinc stop' and        *)
(* `tinc restart' find a tincd through the two files.  Every system call on  *)
(* them is a step of its own: processes interleave between any two, and a    *)
(* process can be killed between any two.                                    *)
(*                                                                           *)
(* Sources: tincd.c (main, main2), process.c (detach), net_setup.c           *)
(* (setup_network, close_network_connections), quic.c (quic_init,            *)
(* quic_start_listener, quic_cleanup), control.c (init_control,              *)
(* exit_control, control_h), net.c (main_loop) and tincctl.c (connect_tincd, *)
(* stop_tincd, cmd_start, cmd_stop, cmd_restart).                            *)
EXTENDS Integers

CONSTANTS
  Processes,     \* how many tincd processes are started
  Tincs,         \* how many tinc processes there are at a time
  Budgets,       \* how many commands are given, and how often a tincd crashes
                 \* or gets a SIGTERM that no tinc sent: the pairs considered
  None

VARIABLES
  pc,            \* where each tincd process is
  started,       \* how many have been
  pidfile,       \* None, or the file at pidfilename and the process it names
  opened,        \* the file a process writes its pid to
  unixsocket,    \* None, or the process whose socket is at unixsocketname
  announced,     \* the processes that wrote to their umbilical
  client,        \* what each tinc process does, and knows
  commands,      \* commands that can still be given
  kills,         \* tincd processes that can still be killed
  signalled,     \* history: a tincd got such a SIGTERM
  faulty,        \* history: processes that failed for a reason of their own
  overlapped,    \* history: processes that did not have the files to themselves
  concurrent     \* history: two commands were given at the same time

vars == <<pc, started, pidfile, opened, unixsocket, announced, client, commands, kills, signalled,
          faulty, overlapped, concurrent>>
daemonVars == <<pc, pidfile, opened, unixsocket, announced, faulty>>
historyVars == <<started, commands, kills, signalled, overlapped, concurrent>>

Pids == 1..Processes
Clients == 1..Tincs
ASSUME BoundsAssumption == Processes \in Nat /\ Tincs \in Nat
ASSUME NoneAssumption == None \notin Pids \cup [ino : Pids, pid : 0..Processes]

NotYet == "not yet"
Exited == "exited"
Alive(d) == pc[d] \notin {NotYet, Exited}
AllAlive == {d \in Pids : Alive(d)}

Init ==
  /\ pc = [d \in Pids |-> NotYet] /\ started = 0
  /\ pidfile = None /\ opened = [d \in Pids |-> 0] /\ unixsocket = None
  /\ announced = {}
  /\ client = [c \in Clients |-> [at |-> "idle", cmd |-> "none", pid |-> 0, peer |-> 0, child |-> 0, ok |-> TRUE]]
  /\ (\E b \in Budgets : commands = b[1] /\ kills = b[2]) /\ signalled = FALSE
  /\ faulty = {} /\ overlapped = {} /\ concurrent = FALSE

-----------------------------------------------------------------------------
(* tincd *)
Goto(d, next) == pc' = [pc EXCEPT ![d] = next]
Step(d, from, to) == pc[d] = from /\ Goto(d, to) /\ UNCHANGED <<client, historyVars>>
Fine == UNCHANGED faulty
Fault(d) == faulty' = faulty \cup {d}

(* main, detach and mlockall: nothing is cleaned up if one of them fails.  *)
main(d) ==
  /\ Step(d, "main", Exited) /\ Fault(d)
  /\ UNCHANGED <<pidfile, opened, unixsocket, announced>>

(* setup_myself reads the configuration and opens the device.  From here on, *)
(* close_network_connections is next whatever fails.                         *)
setup_myself(d) ==
  /\ \/ Step(d, "main", "quic") /\ Fine
     \/ Step(d, "main", "closing") /\ Fault(d)
  /\ UNCHANGED <<pidfile, opened, unixsocket, announced>>

(* quic_init can fail by itself; quic_start_listener, if another tincd       *)
(* listens on the port, which may or may not be refused.                     *)
quic_init(d) ==
  /\ Step(d, "quic", "closing") /\ Fault(d)
  /\ UNCHANGED <<pidfile, opened, unixsocket, announced>>

HoldsPort(d) == pc[d] \in {"pidfile", "pid", "probe", "unlink", "bind", "enable", "ready", "run", "closing"}
quic_start_listener(d) ==
  /\ \/ Step(d, "quic", "pidfile")
     \/ (\E e \in Pids : HoldsPort(e)) /\ Step(d, "quic", "closing")
  /\ UNCHANGED <<pidfile, opened, unixsocket, announced, faulty>>

(* init_control: the pid file is opened for writing, so is emptied, and      *)
(* written when it is closed, wherever that file is by then.  Only then is   *)
(* another tincd looked for.  The definitions called Mut... are faults a     *)
(* property must detect; the specification does not use them.                *)
MutFileOpened(d) == IF pidfile = None THEN [ino |-> d, pid |-> 0] ELSE pidfile
FileOpened(d) == [ino |-> IF pidfile = None THEN d ELSE pidfile.ino, pid |-> 0]
OpenPidfile(d) ==
  /\ Step(d, "pidfile", "pid") /\ pidfile' = FileOpened(d)
  /\ opened' = [opened EXCEPT ![d] = pidfile'.ino]
  /\ UNCHANGED <<unixsocket, announced, faulty>>

WritePidfile(d) ==
  /\ Step(d, "pid", "probe")
  /\ pidfile' = IF pidfile # None /\ pidfile.pid = 0 /\ pidfile.ino = opened[d]
                THEN [pidfile EXCEPT !.pid = d] ELSE pidfile
  /\ opened' = [opened EXCEPT ![d] = 0]
  /\ UNCHANGED <<unixsocket, announced, faulty>>

Listening(d) == pc[d] \in {"enable", "ready", "run", "closing"}
Accepts == unixsocket # None /\ Listening(unixsocket)
Probe(d) ==
  /\ Step(d, "probe", IF Accepts THEN "closing" ELSE "unlink")
  /\ UNCHANGED <<pidfile, opened, unixsocket, announced, faulty>>

MutUnlinked == unixsocket
Unlinked == None
UnlinkSocket(d) ==
  /\ Step(d, "unlink", "bind") /\ unixsocket' = Unlinked
  /\ UNCHANGED <<pidfile, opened, announced, faulty>>

(* bind and listen. *)
BindSocket(d) ==
  /\ IF unixsocket = None THEN Step(d, "bind", "enable") /\ unixsocket' = d
                          ELSE Step(d, "bind", "closing") /\ UNCHANGED unixsocket
  /\ UNCHANGED <<pidfile, opened, announced, faulty>>

init_control(d) == OpenPidfile(d) \/ WritePidfile(d) \/ Probe(d) \/ UnlinkSocket(d) \/ BindSocket(d)
setup_network(d) == setup_myself(d) \/ quic_init(d) \/ quic_start_listener(d) \/ init_control(d)

(* device_enable, setpriority and drop_privs; then the umbilical is cut. *)
Ready(d) ==
  /\ \/ Step(d, "enable", "ready") /\ Fine /\ announced' = announced \cup {d}
     \/ Step(d, "enable", "closing") /\ Fault(d) /\ UNCHANGED announced
  /\ UNCHANGED <<pidfile, opened, unixsocket>>

main_loop(d) == Step(d, "ready", "run") /\ UNCHANGED <<pidfile, opened, unixsocket, announced, faulty>>

(* control_h, REQ_STOP: event_exit. *)
Stop(d) ==
  /\ \E c \in Clients : client[c].at = "stopping" /\ client[c].peer = d
  /\ Step(d, "run", "closing")
  /\ UNCHANGED <<pidfile, opened, unixsocket, announced, faulty>>

(* close_network_connections: quic_cleanup, the connections, the device, and *)
(* exit_control, which removes whatever the two names refer to.              *)
Close(d) ==
  /\ Step(d, "closing", "unpid") /\ unixsocket' = None
  /\ UNCHANGED <<pidfile, opened, announced, faulty>>
ExitPidfile(d) ==
  /\ Step(d, "unpid", "end") /\ pidfile' = None
  /\ UNCHANGED <<opened, unixsocket, announced, faulty>>
Exit(d) == Step(d, "end", Exited) /\ UNCHANGED <<pidfile, opened, unixsocket, announced, faulty>>

tincd(d) ==
  \/ main(d) \/ setup_network(d) \/ Ready(d) \/ main_loop(d) \/ Stop(d)
  \/ Close(d) \/ ExitPidfile(d) \/ Exit(d)

(* SIGTERM is handled while main_loop runs: before, and after the            *)
(* signal_dels at its end, it kills.                                         *)
Terminated(d) == IF pc[d] = "run" THEN "closing" ELSE Exited

Kill(d) ==
  /\ Alive(d) /\ kills > 0
  /\ kills' = kills - 1 /\ Fault(d)
  /\ UNCHANGED <<started, pidfile, opened, unixsocket, announced, client, commands, overlapped, concurrent>>
Crash(d) == Kill(d) /\ Goto(d, Exited) /\ UNCHANGED signalled
Signal(d) == Kill(d) /\ Goto(d, Terminated(d)) /\ signalled' = TRUE

-----------------------------------------------------------------------------
(* tinc *)
At(c, at) == client[c].at = at
Now(c, at) == client' = [client EXCEPT ![c].at = at]
Finish(c, ok) == client' = [client EXCEPT ![c].at = "idle", ![c].pid = 0, ![c].peer = 0, ![c].ok = ok]

Command(c, cmd) ==
  /\ At(c, "idle") /\ (\A o \in 1..c - 1 : ~At(o, "idle")) /\ commands > 0
  /\ commands' = commands - 1
  /\ client' = [client EXCEPT ![c] = [at |-> "pidfile", cmd |-> cmd, pid |-> 0, peer |-> 0, child |-> 0, ok |-> TRUE]]
  /\ concurrent' = (concurrent \/ \E o \in Clients : ~At(o, "idle"))
  /\ UNCHANGED <<daemonVars, started, kills, signalled, overlapped>>

(* connect_tincd: the pid file names no process, or one that is dead (both   *)
(* files are removed then), or one that is alive.                            *)
ReadPidfile(c) ==
  /\ At(c, "pidfile")
  /\ IF pidfile = None \/ pidfile.pid = 0 THEN Now(c, "failed")
     ELSE client' = [client EXCEPT ![c].pid = pidfile.pid, ![c].at = IF Alive(pidfile.pid) THEN "connect" ELSE "stale"]
  /\ UNCHANGED <<daemonVars, historyVars>>

CleanPidfile(c) ==
  /\ At(c, "stale") /\ Now(c, "stalesocket")
  /\ pidfile' = None /\ overlapped' = overlapped \cup AllAlive
  /\ UNCHANGED <<pc, opened, unixsocket, announced, faulty, started, commands, kills, signalled, concurrent>>

CleanSocket(c) ==
  /\ At(c, "stalesocket") /\ Now(c, "failed")
  /\ unixsocket' = None /\ overlapped' = overlapped \cup AllAlive
  /\ UNCHANGED <<pc, pidfile, opened, announced, faulty, started, commands, kills, signalled, concurrent>>

Connect(c) ==
  /\ At(c, "connect")
  /\ IF Accepts THEN client' = [client EXCEPT ![c].peer = unixsocket, ![c].at = "greeting"] ELSE Now(c, "failed")
  /\ UNCHANGED <<daemonVars, historyVars>>

(* The greeting comes from a tincd that runs its main loop and whose cookie  *)
(* was in the pid file; a tincd that closes its socket, or that knows        *)
(* another cookie, ends the connection.                                      *)
MutHungUp(d) == ~Alive(d) /\ d \notin announced
HungUp(d) == ~Listening(d)
Greeting(c) ==
  LET d == client[c].peer
  IN /\ At(c, "greeting")
     /\ \/ pc[d] = "run" /\ Now(c, IF client[c].pid = d THEN "connected" ELSE "failed")
        \/ HungUp(d) /\ Now(c, "failed")
     /\ UNCHANGED <<daemonVars, historyVars>>

(* stop_tincd: REQ_STOP is sent, and the end of the connection waited for.   *)
(* It comes when the process is gone, as close_network_connections leaves    *)
(* the sockets of control connections open.                                  *)
IsStop(c) == client[c].cmd \in {"stop", "restart"}
RequestStop(c) == At(c, "connected") /\ IsStop(c) /\ Now(c, "stopping") /\ UNCHANGED <<daemonVars, historyVars>>

(* cmd_restart starts a tincd afterwards, however cmd_stop ended. *)
AfterStop(c, ok) ==
  IF client[c].cmd = "restart"
  THEN client' = [client EXCEPT ![c].at = "pidfile", ![c].cmd = "start"]
  ELSE Finish(c, ok)

MutDisconnected(d) == pc[d] # "run" /\ pc[d] # "closing"
Disconnected(d) == ~Alive(d)
Stopped(c) ==
  /\ At(c, "stopping") /\ Disconnected(client[c].peer)
  /\ AfterStop(c, TRUE)
  /\ UNCHANGED <<daemonVars, historyVars>>

(* cmd_stop, if stop_tincd fails: the process in the pid file gets a SIGTERM.*)
(* waitpid returns at once, as that process is not a child.                  *)
Terminate(c) ==
  LET d == client[c].pid
  IN /\ At(c, "failed") /\ IsStop(c)
     /\ IF d # 0 /\ pc[d] # Exited
        THEN Goto(d, Terminated(d)) /\ Fault(d) /\ AfterStop(c, TRUE)
        ELSE UNCHANGED <<pc, faulty>> /\ AfterStop(c, FALSE)
     /\ UNCHANGED <<pidfile, opened, unixsocket, announced, historyVars>>

(* cmd_start: nothing is done if there is a tincd.  Otherwise one is         *)
(* started, and the other end of its umbilical read until it is closed.      *)
AlreadyRunning(c) ==
  /\ At(c, "connected") /\ client[c].cmd = "start"
  /\ Finish(c, TRUE)
  /\ UNCHANGED <<daemonVars, historyVars>>

Start(c) ==
  /\ At(c, "failed") /\ client[c].cmd = "start" /\ started < Processes
  /\ started' = started + 1
  /\ Goto(started + 1, "main")
  /\ client' = [client EXCEPT ![c].at = "umbilical", ![c].child = started + 1]
  /\ overlapped' = IF AllAlive = {} THEN overlapped ELSE overlapped \cup AllAlive \cup {started + 1}
  /\ UNCHANGED <<pidfile, opened, unixsocket, announced, faulty, commands, kills, signalled, concurrent>>

(* fork fails once as many processes were started as there can be. *)
CannotStart(c) ==
  /\ At(c, "failed") /\ client[c].cmd = "start" /\ started = Processes
  /\ Finish(c, FALSE)
  /\ UNCHANGED <<daemonVars, historyVars>>

UmbilicalCut(c) ==
  /\ At(c, "umbilical")
  /\ \/ client[c].child \in announced /\ Finish(c, TRUE)
     \/ client[c].child \notin announced /\ ~Alive(client[c].child) /\ Finish(c, FALSE)
  /\ UNCHANGED <<daemonVars, historyVars>>

connect_tincd(c) == ReadPidfile(c) \/ CleanPidfile(c) \/ CleanSocket(c) \/ Connect(c) \/ Greeting(c)
cmd_stop(c) == RequestStop(c) \/ Stopped(c) \/ Terminate(c)
cmd_start(c) == AlreadyRunning(c) \/ Start(c) \/ CannotStart(c) \/ UmbilicalCut(c)
tinc(c) == connect_tincd(c) \/ cmd_stop(c) \/ cmd_start(c)

Next ==
  \/ \E d \in Pids : tincd(d) \/ Signal(d) \/ Crash(d)
  \/ \E c \in Clients : tinc(c) \/ \E cmd \in {"start", "stop", "restart"} : Command(c, cmd)

(* Processes run; nothing makes an administrator give commands or a process  *)
(* die.                                                                      *)
Fairness == (\A d \in Pids : WF_vars(tincd(d))) /\ (\A c \in Clients : WF_vars(tinc(c)))

Spec == Init /\ [][Next]_vars /\ Fairness

-----------------------------------------------------------------------------
TypeOK ==
  /\ started \in 0..Processes /\ announced \subseteq Pids /\ overlapped \subseteq Pids
  /\ pidfile = None \/ pidfile \in [ino : Pids, pid : 0..Processes]
  /\ unixsocket \in Pids \cup {None}

(* A tincd that serves control connections is the one both files lead to,    *)
(* whatever files processes killed before it left behind, unless another     *)
(* tincd was there during its life or a tinc removed files it took for       *)
(* stale: init_control takes over the pid file and the socket of a dead one. *)
ControlIntact ==
  \A d \in Pids : pc[d] \in {"enable", "ready", "run"} /\ d \notin overlapped =>
    pidfile # None /\ pidfile.pid = d /\ unixsocket = d

(* If commands are given one after the other, and no tincd gets a SIGTERM    *)
(* from elsewhere, there are never two tincd processes at a time, so         *)
(* `tinc restart' does not start the new one before the old one is gone:     *)
(* stop_tincd waits for the connection that close_network_connections leaves *)
(* open.                                                                     *)
OneAtATime == ~concurrent /\ ~signalled => overlapped = {}

(* `tinc start' tells the truth: if it succeeds, the tincd it started came   *)
(* to its main loop; if it fails, that tincd is gone, and was killed, could  *)
(* not be set up, or met another tincd.  Files left by a crash do not make   *)
(* it fail.                                                                  *)
StartTells ==
  \A c \in Clients : At(c, "idle") /\ client[c].child # 0 =>
    IF client[c].ok THEN client[c].child \in announced
    ELSE ~Alive(client[c].child) /\ client[c].child \in faulty \cup overlapped

(* Every command ends, whatever tincd does or however it dies meanwhile. *)
CommandsEnd == \A c \in Clients : ~At(c, "idle") ~> At(c, "idle")
=============================================================================
