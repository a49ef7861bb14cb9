---------------------------- MODULE DaemonProofs ----------------------------
(* ControlIntact, StartTells and OneAtATime of Daemon hold for any number of *)
(* tincd and tinc processes, commands and crashes.                           *)
EXTENDS Daemon, TLAPS

Places ==
  {NotYet, Exited, "main", "quic", "pidfile", "pid", "probe", "unlink", "bind", "enable", "ready", "run",
   "closing", "unpid", "end"}

Types ==
  /\ pc \in [Pids -> Places]
  /\ started \in 0..Processes
  /\ pidfile \in {None} \cup [ino : Pids, pid : 0..Processes]
  /\ opened \in [Pids -> 0..Processes]

(* Where a tincd that has the files to itself is, the two files are as it    *)
(* left them.                                                                *)
Own(d) ==
  d \notin overlapped =>
    /\ pc[d] = "pid" => pidfile # None /\ pidfile.pid = 0 /\ pidfile.ino = opened[d]
    /\ pc[d] \in {"probe", "unlink", "bind", "enable", "ready", "run"} => pidfile # None /\ pidfile.pid = d
    /\ pc[d] = "bind" => unixsocket = None
    /\ pc[d] \in {"enable", "ready", "run"} => unixsocket = d

(* Two processes that are there at the same time do not have the files to    *)
(* themselves.                                                               *)
Alone == \A d, e \in Pids : d # e /\ Alive(d) /\ Alive(e) => d \in overlapped

IInv == Types /\ Alone /\ \A d \in Pids : Own(d)

-----------------------------------------------------------------------------
(* There is no process at first. *)
LEMMA InitIInv == Init => IInv
<1> SUFFICES ASSUME Init PROVE IInv
  OBVIOUS
<1>1. Types
  BY BoundsAssumption DEF Types, Init, Pids, Places
<1>2. \A d \in Pids : pc[d] = NotYet
  BY DEF Init
<1>3. Alone /\ \A d \in Pids : Own(d)
  BY Zenon, <1>2 DEF Alone, Alive, Own, NotYet
<1> QED BY <1>1, <1>3 DEF IInv

(* A step of process d, after which d still finds the files as it left them, *)
(* keeps the invariant: the other processes are not there, or overlapped.    *)
LEMMA StepKeeps ==
  ASSUME IInv, NEW d \in Pids, Alive(d), NEW v \in Places, pc' = [pc EXCEPT ![d] = v],
         overlapped' = overlapped, Types', Own(d)'
  PROVE  IInv'
<1>1. pc \in [Pids -> Places] /\ Alone /\ \A e \in Pids : Own(e)
  BY DEF IInv, Types
<1>2. pc'[d] = v /\ \A e \in Pids : e # d => pc'[e] = pc[e]
  BY <1>1
<1>3. \A e \in Pids : Alive(e)' => Alive(e)
  BY <1>2 DEF Alive
<1>4. Alone'
  BY <1>1, <1>3 DEF Alone
<1>5. ASSUME NEW e \in Pids PROVE Own(e)'
  <2>1. CASE e = d
    BY <2>1
  <2>2. CASE e # d /\ Alive(e)
    <3>1. e \in overlapped
      BY <2>2, <1>1 DEF Alone
    <3> QED BY <3>1 DEF Own
  <2>3. CASE e # d /\ ~Alive(e)
    <3>1. pc'[e] \in {NotYet, Exited}
      BY <2>3, <1>2 DEF Alive
    <3> QED BY Zenon, <3>1 DEF Own, NotYet, Exited
  <2> QED BY <2>1, <2>2, <2>3
<1> QED BY <1>4, <1>5 DEF IInv

(* A step of d to a place where it no longer or not yet counts on the files. *)
LEMMA LeavesFiles ==
  ASSUME IInv, NEW d \in Pids, Alive(d),
         NEW v \in {Exited, "quic", "pidfile", "closing", "unpid", "end"},
         pc' = [pc EXCEPT ![d] = v], overlapped' = overlapped, Types'
  PROVE  IInv'
<1>1. v \in Places
  BY DEF Places
<1>2. pc'[d] = v
  BY DEF IInv, Types
<1>3. Own(d)'
  BY <1>2 DEF Own, Exited
<1> QED BY Zenon, <1>1, <1>3, StepKeeps

(* A step of d that leaves both files alone, to a place where it counts on   *)
(* no more than where it was.                                                *)
LEMMA KeepsFiles ==
  ASSUME IInv, NEW d \in Pids, pc[d] \in {"probe", "enable", "ready"},
         NEW v \in {"unlink", "ready", "run"}, v = "unlink" <=> pc[d] = "probe",
         pc' = [pc EXCEPT ![d] = v],
         overlapped' = overlapped /\ pidfile' = pidfile /\ unixsocket' = unixsocket /\ Types'
  PROVE  IInv'
<1>1. v \in Places /\ Alive(d)
  BY Zenon DEF Places, Alive, NotYet, Exited
<1>2. pc'[d] = v
  BY DEF IInv, Types
<1>3. Own(d)
  BY DEF IInv
<1>4. Own(d)'
  BY <1>2, <1>3 DEF Own
<1> QED BY Zenon, <1>1, <1>4, StepKeeps

(* pc, where Step leads *)
LEMMA StepMoves ==
  ASSUME IInv, NEW d \in Pids, NEW from \in Places \ {NotYet, Exited}, NEW to \in Places, Step(d, from, to)
  PROVE  /\ Alive(d) /\ pc[d] = from /\ pc' = [pc EXCEPT ![d] = to]
         /\ pc' \in [Pids -> Places] /\ overlapped' = overlapped /\ started' = started
<1>1. pc[d] = from /\ pc' = [pc EXCEPT ![d] = to]
  BY DEF Step, Goto
<1>2. pc \in [Pids -> Places]
  BY DEF IInv, Types
<1>3. overlapped' = overlapped /\ started' = started
  BY DEF Step, historyVars
<1>4. Alive(d)
  BY <1>1 DEF Alive
<1> QED BY <1>1, <1>2, <1>3, <1>4

(* The steps of tincd that do not touch the two files. *)
LEMMA SetupKeeps ==
  ASSUME IInv, NEW d \in Pids,
         \/ main(d) \/ setup_myself(d) \/ quic_init(d) \/ quic_start_listener(d)
         \/ Probe(d) \/ Ready(d) \/ main_loop(d) \/ Stop(d) \/ Exit(d)
  PROVE  IInv'
<1>1. pidfile' = pidfile /\ opened' = opened /\ unixsocket' = unixsocket
  BY DEF main, setup_myself, quic_init, quic_start_listener, Probe, Ready, main_loop, Stop, Exit
<1>2. Types
  BY DEF IInv
<1>3. ASSUME NEW from \in {"main", "quic", "probe", "enable", "run", "end"},
             NEW to \in {Exited, "quic", "closing", "pidfile"}, Step(d, from, to)
      PROVE  IInv'
  <2>1. from \in Places \ {NotYet, Exited} /\ to \in Places
    BY Zenon DEF Places, NotYet, Exited
  <2>2. /\ Alive(d) /\ pc' = [pc EXCEPT ![d] = to]
        /\ pc' \in [Pids -> Places] /\ overlapped' = overlapped /\ started' = started
    BY <1>3, <2>1, StepMoves
  <2>3. Types'
    BY <1>1, <1>2, <2>2 DEF Types
  <2> QED BY Zenon, <2>2, <2>3, LeavesFiles
<1>4. ASSUME NEW from \in {"probe", "enable", "ready"}, NEW to \in {"unlink", "ready", "run"},
             to = "unlink" <=> from = "probe", Step(d, from, to)
      PROVE  IInv'
  <2>1. from \in Places \ {NotYet, Exited} /\ to \in Places
    BY Zenon DEF Places, NotYet, Exited
  <2>2. /\ pc[d] = from /\ pc' = [pc EXCEPT ![d] = to]
        /\ pc' \in [Pids -> Places] /\ overlapped' = overlapped /\ started' = started
    BY <1>4, <2>1, StepMoves
  <2>3. Types'
    BY <1>1, <1>2, <2>2 DEF Types
  <2> QED BY Zenon, <1>1, <1>4, <2>2, <2>3, KeepsFiles
<1>5. CASE main(d) \/ setup_myself(d) \/ quic_init(d) \/ quic_start_listener(d) \/ Stop(d) \/ Exit(d)
  <2>1. \/ Step(d, "main", Exited) \/ Step(d, "main", "quic") \/ Step(d, "main", "closing")
        \/ Step(d, "quic", "closing") \/ Step(d, "quic", "pidfile") \/ Step(d, "run", "closing")
        \/ Step(d, "end", Exited)
    BY <1>5 DEF main, setup_myself, quic_init, quic_start_listener, Stop, Exit
  <2> QED BY <2>1, <1>3
<1>6. CASE Probe(d)
  <2>1. Step(d, "probe", "closing") \/ Step(d, "probe", "unlink")
    BY <1>6 DEF Probe
  <2> QED BY <2>1, <1>3, <1>4
<1>7. CASE Ready(d) \/ main_loop(d)
  <2>1. Step(d, "enable", "closing") \/ Step(d, "enable", "ready") \/ Step(d, "ready", "run")
    BY <1>7 DEF Ready, main_loop
  <2> QED BY <2>1, <1>3, <1>4
<1> QED BY <1>5, <1>6, <1>7

(* The steps of tincd on the two files. *)
LEMMA FilesKeep ==
  ASSUME IInv, NEW d \in Pids,
         OpenPidfile(d) \/ WritePidfile(d) \/ UnlinkSocket(d) \/ BindSocket(d) \/ Close(d) \/ ExitPidfile(d)
  PROVE  IInv'
<1>1. Types /\ Own(d)
  BY DEF IInv
<1>2. ASSUME NEW from \in {"pidfile", "pid", "unlink", "bind", "closing", "unpid"},
             NEW to \in {"pid", "probe", "bind", "enable", "closing", "unpid", "end"}, Step(d, from, to)
      PROVE  /\ to \in Places /\ Alive(d) /\ pc[d] = from /\ pc' = [pc EXCEPT ![d] = to] /\ pc'[d] = to
             /\ pc' \in [Pids -> Places] /\ overlapped' = overlapped /\ started' = started
  <2>1. from \in Places \ {NotYet, Exited} /\ to \in Places
    BY Zenon DEF Places, NotYet, Exited
  <2>2. /\ Alive(d) /\ pc[d] = from /\ pc' = [pc EXCEPT ![d] = to]
        /\ pc' \in [Pids -> Places] /\ overlapped' = overlapped /\ started' = started
    BY <1>2, <2>1, StepMoves
  <2>3. pc'[d] = to
    BY <2>2, <1>1 DEF Types
  <2> QED BY <2>1, <2>2, <2>3
<1>3. CASE OpenPidfile(d)
  <2>1. Step(d, "pidfile", "pid") /\ pidfile' = FileOpened(d)
    BY <1>3 DEF OpenPidfile
  <2>2. opened' = [opened EXCEPT ![d] = pidfile'.ino]
    BY <1>3 DEF OpenPidfile
  <2>3. /\ Alive(d) /\ "pid" \in Places /\ pc' = [pc EXCEPT ![d] = "pid"] /\ pc'[d] = "pid"
        /\ pc' \in [Pids -> Places] /\ overlapped' = overlapped /\ started' = started
    BY <2>1, <1>2
  <2>4. pidfile' \in [ino : Pids, pid : 0..Processes] /\ pidfile'.pid = 0
    <3>1. 0 \in 0..Processes
      BY BoundsAssumption
    <3> QED BY <2>1, <3>1, <1>1 DEF FileOpened, Types
  <2>5. pidfile'.ino \in Pids /\ pidfile' # None
    BY <2>4, NoneAssumption
  <2>6. opened' \in [Pids -> 0..Processes] /\ opened'[d] = pidfile'.ino
    BY <2>2, <2>5, <1>1, BoundsAssumption DEF Types, Pids
  <2>7. Types'
    BY <2>3, <2>4, <2>6, <1>1 DEF Types
  <2>8. Own(d)'
    BY <2>3, <2>4, <2>5, <2>6 DEF Own
  <2> QED BY Zenon, <2>3, <2>7, <2>8, StepKeeps
<1>4. CASE WritePidfile(d)
  <2>1. /\ Step(d, "pid", "probe") /\ opened' = [opened EXCEPT ![d] = 0]
        /\ pidfile' = IF pidfile # None /\ pidfile.pid = 0 /\ pidfile.ino = opened[d]
                      THEN [pidfile EXCEPT !.pid = d] ELSE pidfile
    BY <1>4 DEF WritePidfile
  <2>2. /\ Alive(d) /\ "probe" \in Places /\ pc[d] = "pid" /\ pc' = [pc EXCEPT ![d] = "probe"] /\ pc'[d] = "probe"
        /\ pc' \in [Pids -> Places] /\ overlapped' = overlapped /\ started' = started
    BY <2>1, <1>2
  <2>3. opened' \in [Pids -> 0..Processes]
    BY <2>1, <1>1, BoundsAssumption DEF Types
  <2>4. d \in 0..Processes
    BY BoundsAssumption DEF Pids
  <2>5. pidfile' \in {None} \cup [ino : Pids, pid : 0..Processes]
    BY <2>1, <2>4, <1>1 DEF Types
  <2>6. Types'
    BY <2>2, <2>3, <2>5, <1>1 DEF Types
  <2>7. ASSUME d \notin overlapped PROVE pidfile' # None /\ pidfile'.pid = d
    <3>1. pidfile # None /\ pidfile.pid = 0 /\ pidfile.ino = opened[d]
      BY <2>2, <2>7, <1>1 DEF Own
    <3>2. pidfile \in [ino : Pids, pid : 0..Processes]
      BY <3>1, <1>1 DEF Types
    <3>3. pidfile' = [pidfile EXCEPT !.pid = d]
      BY <2>1, <3>1
    <3>4. pidfile' \in [ino : Pids, pid : 0..Processes] /\ pidfile'.pid = d
      BY <3>2, <3>3, <2>4
    <3> QED BY <3>4, NoneAssumption
  <2>8. Own(d)'
    BY <2>2, <2>7 DEF Own
  <2> QED BY Zenon, <2>2, <2>6, <2>8, StepKeeps
<1>5. CASE UnlinkSocket(d)
  <2>1. Step(d, "unlink", "bind") /\ unixsocket' = None /\ pidfile' = pidfile /\ opened' = opened
    BY <1>5 DEF UnlinkSocket, Unlinked
  <2>2. /\ Alive(d) /\ "bind" \in Places /\ pc[d] = "unlink" /\ pc' = [pc EXCEPT ![d] = "bind"] /\ pc'[d] = "bind"
        /\ pc' \in [Pids -> Places] /\ overlapped' = overlapped /\ started' = started
    BY <2>1, <1>2
  <2>3. Types'
    BY <2>1, <2>2, <1>1 DEF Types
  <2>4. Own(d)'
    BY <2>1, <2>2, <1>1 DEF Own
  <2> QED BY Zenon, <2>2, <2>3, <2>4, StepKeeps
<1>6. CASE BindSocket(d)
  <2>1. pidfile' = pidfile /\ opened' = opened
    BY <1>6 DEF BindSocket
  <2>2. CASE Step(d, "bind", "enable") /\ unixsocket' = d
    <3>1. /\ Alive(d) /\ "enable" \in Places /\ pc[d] = "bind" /\ pc' = [pc EXCEPT ![d] = "enable"] /\ pc'[d] = "enable"
          /\ pc' \in [Pids -> Places] /\ overlapped' = overlapped /\ started' = started
      BY <2>2, <1>2
    <3>2. Types'
      BY <2>1, <3>1, <1>1 DEF Types
    <3>3. Own(d)'
      BY <2>1, <2>2, <3>1, <1>1 DEF Own
    <3> QED BY Zenon, <3>1, <3>2, <3>3, StepKeeps
  <2>3. CASE Step(d, "bind", "closing") /\ unixsocket' = unixsocket
    <3>1. /\ Alive(d) /\ pc' = [pc EXCEPT ![d] = "closing"]
          /\ pc' \in [Pids -> Places] /\ overlapped' = overlapped /\ started' = started
      BY <2>3, <1>2
    <3>2. Types'
      BY <2>1, <3>1, <1>1 DEF Types
    <3> QED BY Zenon, <3>1, <3>2, LeavesFiles
  <2> QED BY <1>6, <2>2, <2>3 DEF BindSocket
<1>7. CASE Close(d) \/ ExitPidfile(d)
  <2>1. /\ opened' = opened /\ pidfile' \in {None, pidfile}
        /\ Step(d, "closing", "unpid") \/ Step(d, "unpid", "end")
    BY <1>7 DEF Close, ExitPidfile
  <2>2. PICK to \in {"unpid", "end"} :
          /\ Alive(d) /\ pc' = [pc EXCEPT ![d] = to]
          /\ pc' \in [Pids -> Places] /\ overlapped' = overlapped /\ started' = started
    BY <2>1, <1>2
  <2>3. Types'
    BY <2>1, <2>2, <1>1 DEF Types
  <2> QED BY Zenon, <2>2, <2>3, LeavesFiles
<1> QED BY <1>3, <1>4, <1>5, <1>6, <1>7

(* A process that is killed, crashes or gets a SIGTERM counts on nothing. *)
LEMMA DeathKeeps ==
  ASSUME IInv, NEW d, pc' = [pc EXCEPT ![d] = Terminated(d)] \/ pc' = [pc EXCEPT ![d] = Exited],
         UNCHANGED <<started, pidfile, opened, unixsocket, overlapped>>
  PROVE  IInv'
<1>1. PICK v \in {Exited, "closing"} : pc' = [pc EXCEPT ![d] = v] /\ (v = "closing" => pc[d] = "run")
  <2>1. CASE pc' = [pc EXCEPT ![d] = Exited]
    BY <2>1 DEF Exited
  <2>2. CASE pc' = [pc EXCEPT ![d] = Terminated(d)]
    BY Zenon, <2>2 DEF Terminated, Exited
  <2> QED BY <2>1, <2>2
<1>2. v \in Places
  BY DEF Places
<1>3. Types /\ Alone /\ \A e \in Pids : Own(e)
  BY DEF IInv
<1>4. pc' \in [Pids -> Places] /\ \A e \in Pids : pc'[e] = IF e = d THEN v ELSE pc[e]
  BY Zenon, <1>1, <1>2, <1>3 DEF Types
<1>5. Types'
  BY <1>3, <1>4 DEF Types
<1>6. \A e \in Pids : Alive(e)' => Alive(e)
  BY Zenon, <1>1, <1>4 DEF Alive, NotYet, Exited
<1>7. Alone'
  BY <1>3, <1>6 DEF Alone
<1>8. ASSUME NEW e \in Pids PROVE Own(e)'
  <2>1. CASE e = d
    BY <2>1, <1>4 DEF Own, Exited
  <2>2. CASE e # d
    BY <2>2, <1>3, <1>4 DEF Own
  <2> QED BY <2>1, <2>2
<1> QED BY <1>5, <1>7, <1>8 DEF IInv

(* What leaves the processes, their files and their history alone. *)
LEMMA OthersKeep ==
  ASSUME IInv, UNCHANGED <<daemonVars, started, overlapped>>
  PROVE  IInv'
  BY DEF IInv, daemonVars, Types, Alone, Own, Alive

(* A tinc that removes what it takes for stale files takes them from every   *)
(* process there is.                                                         *)
LEMMA CleanKeeps ==
  ASSUME IInv, NEW c \in Clients, CleanPidfile(c) \/ CleanSocket(c)
  PROVE  IInv'
<1>1. /\ pc' = pc /\ opened' = opened /\ started' = started /\ overlapped' = overlapped \cup AllAlive
      /\ pidfile' \in {None, pidfile}
  BY DEF CleanPidfile, CleanSocket
<1>2. Types'
  BY <1>1 DEF IInv, Types
<1>3. Alone'
  BY <1>1 DEF IInv, Alone, Alive
<1>4. ASSUME NEW d \in Pids PROVE Own(d)'
  <2>1. CASE Alive(d)
    BY <2>1, <1>1 DEF Own, AllAlive
  <2>2. CASE ~Alive(d)
    BY Zenon, <2>2, <1>1 DEF Own, Alive, NotYet, Exited
  <2> QED BY <2>1, <2>2
<1> QED BY <1>2, <1>3, <1>4 DEF IInv

(* A process that is started has no files yet; if there are others, none of  *)
(* them has the files to itself any more.                                    *)
LEMMA StartKeeps ==
  ASSUME IInv, NEW c \in Clients, Start(c)
  PROVE  IInv'
<1> DEFINE n == started + 1
<1>1. /\ started < Processes /\ started' = n /\ pc' = [pc EXCEPT ![n] = "main"]
      /\ overlapped' = IF AllAlive = {} THEN overlapped ELSE overlapped \cup AllAlive \cup {n}
      /\ pidfile' = pidfile /\ opened' = opened /\ unixsocket' = unixsocket
  BY DEF Start, Goto
<1>2. Types /\ Alone /\ \A e \in Pids : Own(e)
  BY DEF IInv
<1>3. n \in Pids /\ n \in 0..Processes
  BY <1>1, <1>2, BoundsAssumption DEF Types, Pids
<1> HIDE DEF n
<1>4. pc' \in [Pids -> Places] /\ \A e \in Pids : pc'[e] = IF e = n THEN "main" ELSE pc[e]
  BY Zenon, <1>1, <1>2 DEF Types, Places
<1>5. Types'
  BY <1>1, <1>2, <1>3, <1>4 DEF Types
<1>6. \A e \in Pids : e # n => (Alive(e)' <=> Alive(e))
  BY <1>4 DEF Alive
<1>7. Alone'
  <2> SUFFICES ASSUME NEW d \in Pids, NEW e \in Pids, d # e, Alive(d)', Alive(e)'
               PROVE  d \in overlapped'
    BY DEF Alone
  <2>1. CASE d = n \/ e = n
    <3>1. AllAlive # {}
      BY <2>1, <1>6 DEF AllAlive
    <3>2. d = n \/ d \in AllAlive
      BY <2>1, <1>6 DEF AllAlive
    <3> QED BY <3>1, <3>2, <1>1
  <2>2. CASE d # n /\ e # n
    BY <2>2, <1>1, <1>2, <1>6 DEF Alone
  <2> QED BY <2>1, <2>2
<1>8. ASSUME NEW e \in Pids PROVE Own(e)'
  <2>1. CASE e = n
    BY <2>1, <1>4 DEF Own
  <2>2. CASE e # n
    <3>1. pc'[e] = pc[e] /\ (e \notin overlapped' => e \notin overlapped)
      BY <2>2, <1>1, <1>4
    <3> QED BY <3>1, <1>1, <1>2 DEF Own
  <2> QED BY <2>1, <2>2
<1> QED BY <1>5, <1>7, <1>8 DEF IInv

(* Every step keeps the invariant. *)
LEMMA NextIInv == IInv /\ [Next]_vars => IInv'
<1> SUFFICES ASSUME IInv, [Next]_vars PROVE IInv'
  OBVIOUS
<1>1. ASSUME NEW d \in Pids, tincd(d) PROVE IInv'
  BY <1>1, SetupKeeps, FilesKeep DEF tincd, setup_network, init_control
<1>2. ASSUME NEW d \in Pids, Crash(d) \/ Signal(d) PROVE IInv'
  <2>1. /\ pc' = [pc EXCEPT ![d] = Terminated(d)] \/ pc' = [pc EXCEPT ![d] = Exited]
        /\ UNCHANGED <<started, pidfile, opened, unixsocket, overlapped>>
    BY <1>2 DEF Crash, Signal, Kill, Goto
  <2> QED BY <2>1, DeathKeeps
<1>3. ASSUME NEW c \in Clients, tinc(c) PROVE IInv'
  <2>1. CASE \/ ReadPidfile(c) \/ Connect(c) \/ Greeting(c) \/ RequestStop(c) \/ Stopped(c)
             \/ AlreadyRunning(c) \/ CannotStart(c) \/ UmbilicalCut(c)
    <3>1. UNCHANGED <<daemonVars, started, overlapped>>
      BY Zenon, <2>1 DEF ReadPidfile, Connect, Greeting, RequestStop, Stopped, AlreadyRunning, CannotStart,
                  UmbilicalCut, historyVars
    <3> QED BY <3>1, OthersKeep
  <2>2. CASE CleanPidfile(c) \/ CleanSocket(c)
    BY <2>2, CleanKeeps
  <2>3. CASE Start(c)
    BY <2>3, StartKeeps
  <2>4. CASE Terminate(c)
    <3>1. UNCHANGED <<started, pidfile, opened, unixsocket, announced, overlapped>>
      BY <2>4 DEF Terminate, historyVars
    <3>2. CASE pc' = [pc EXCEPT ![client[c].pid] = Terminated(client[c].pid)]
      BY Zenon, <3>1, <3>2, DeathKeeps
    <3>3. CASE pc' = pc /\ faulty' = faulty
      BY <3>1, <3>3, OthersKeep DEF daemonVars
    <3> QED BY Zenon, <2>4, <3>2, <3>3 DEF Terminate, Goto
  <2> QED BY <1>3, <2>1, <2>2, <2>3, <2>4 DEF tinc, connect_tincd, cmd_stop, cmd_start
<1>4. ASSUME NEW c \in Clients, NEW cmd \in {"start", "stop", "restart"}, Command(c, cmd) PROVE IInv'
  BY <1>4, OthersKeep DEF Command
<1>5. CASE UNCHANGED vars
  <2>1. UNCHANGED <<daemonVars, started, overlapped>>
    BY <1>5 DEF vars, daemonVars
  <2> QED BY <2>1, OthersKeep
<1> QED BY <1>1, <1>2, <1>3, <1>4, <1>5 DEF Next

-----------------------------------------------------------------------------
(* However many tincd and tinc processes there are, and whichever of them    *)
(* die where: a tincd that serves control connections, and that was alone    *)
(* from its start, is the one that the pid file and the socket lead to       *)
(* (init_control, exit_control, connect_tincd).                              *)
THEOREM ControlFiles == Spec => []ControlIntact
<1>1. IInv => ControlIntact
  BY Zenon DEF IInv, Own, ControlIntact
<1> QED BY <1>1, InitIInv, NextIInv, PTL DEF Spec

-----------------------------------------------------------------------------
(* What each tinc process knows of tincd processes, and what `tinc start'    *)
(* has told.                                                                 *)
Phases == {"idle", "pidfile", "failed", "stale", "stalesocket", "connect", "greeting", "connected",
           "stopping", "umbilical"}
Knowledge == [at : Phases, cmd : {"none", "start", "stop", "restart"}, pid : 0..Processes,
              peer : 0..Processes, child : 0..Processes, ok : BOOLEAN]
Serving == {"ready", "run"}
Ending == {"closing", "unpid", "end"}

(* Processes are numbered as they are started, and no file, umbilical or     *)
(* tinc names one that was not.                                              *)
Numbered ==
  /\ \A d \in Pids : pc[d] = NotYet <=> started < d
  /\ \A d \in announced : d \in Pids /\ d <= started
  /\ pidfile # None => pidfile.pid <= started
  /\ unixsocket \in Pids \cup {None}

(* A process that ends without having cut its umbilical has a fault of its   *)
(* own, or met another process.                                              *)
Told(d) ==
  /\ pc[d] \in Serving => d \in announced
  /\ pc[d] \in Ending \cup {Exited} => d \in announced \cup faulty \cup overlapped

Known(c) ==
  /\ client[c].pid <= started /\ client[c].child <= started
  /\ client[c].at \notin {"idle", "umbilical"} => client[c].child = 0
  /\ client[c].at = "umbilical" => client[c].child # 0
  /\ client[c].at \in {"greeting", "connected", "stopping"} => client[c].peer # 0
  /\ client[c].at = "idle" /\ client[c].child # 0 =>
       IF client[c].ok THEN client[c].child \in announced
       ELSE ~Alive(client[c].child) /\ client[c].child \in faulty \cup overlapped

TInv ==
  /\ client \in [Clients -> Knowledge] /\ Numbered
  /\ (\A d \in Pids : Told(d)) /\ \A c \in Clients : Known(c)

(* Where a tincd d is, given where the one tinc that is not idle is: a tinc  *)
(* that fails to reach a tincd meets none.                                   *)
Meets(c, d) ==
  /\ client[c].at \in {"pidfile", "connect", "greeting", "connected"} => pc[d] \in Serving
  /\ client[c].at \in {"connect", "greeting"} => client[c].pid = d
  /\ client[c].at \in {"greeting", "connected", "stopping"} => client[c].peer = d
  /\ client[c].at = "stopping" => pc[d] \in Serving \cup Ending
  /\ client[c].at \notin {"stale", "stalesocket", "failed"}
  /\ client[c].at = "umbilical" => client[c].child = d /\ (d \in announced => pc[d] \in Serving)

InOrder == ~concurrent /\ ~signalled
QInv ==
  InOrder =>
    /\ overlapped = {}
    /\ \A b, c \in Clients : ~At(b, "idle") /\ ~At(c, "idle") => b = c
    /\ \A d \in Pids : Alive(d) =>
         /\ (\A c \in Clients : At(c, "idle")) => pc[d] \in Serving
         /\ \A c \in Clients : ~At(c, "idle") => Meets(c, d)

(* What a step of tincd d to the place v does, as far as the other processes *)
(* can tell.                                                                 *)
Moves(d, v) ==
  /\ Alive(d) /\ v \in Places \ {NotYet} /\ pc' = [pc EXCEPT ![d] = v]
  /\ UNCHANGED <<client, started, signalled, overlapped, concurrent>>
  /\ announced' = announced \/ (announced' = announced \cup {d} /\ v = "ready")
  /\ faulty \subseteq faulty'
  /\ (pidfile' # None => pidfile'.pid <= started) /\ unixsocket' \in Pids \cup {None}
  /\ v \in Serving => d \in announced'
  /\ v \in Ending \cup {Exited} => d \in announced \cup faulty' \cup overlapped
  /\ pc[d] \in Serving /\ v \notin Serving =>
       v = "closing" /\ \E c \in Clients : client[c].at = "stopping" /\ client[c].peer = d
  /\ pc[d] \in Ending => v \in Ending \cup {Exited}

(* The numbers of processes are the positive ones up to Processes. *)
LEMMA PidNumber ==
  ASSUME NEW d \in Pids
  PROVE  d \in Nat /\ d # 0
BY BoundsAssumption DEF Pids

(* ... and each of those but 0, which stands for no process, is one. *)
LEMMA NumberPid ==
  ASSUME NEW n \in 0..Processes
  PROVE  n \in Nat /\ (n # 0 => n \in Pids)
BY BoundsAssumption DEF Pids

(* The order of those numbers. *)
LEMMA NumberOrder ==
  /\ \A m, n \in Nat : (~(m < n) <=> n <= m) /\ m <= m /\ ~(m < m)
  /\ \A m, n, o \in Nat : m <= n /\ n <= o => m <= o
OBVIOUS

(* The number of processes started so far. *)
LEMMA StartedNumber ==
  ASSUME IInv
  PROVE  Types /\ started \in 0..Processes /\ started \in Nat /\ 0 <= started
<1>1. Types /\ started \in 0..Processes
  BY Zenon DEF IInv, Types
<1>2. started \in Nat /\ 0 <= started
  BY ONLY <1>1, BoundsAssumption
<1> QED BY Zenon, <1>1, <1>2

(* What is known of the numbers a tinc holds. *)
LEMMA KnownNumbers ==
  ASSUME TInv, NEW c \in Clients
  PROVE  /\ client[c] \in Knowledge /\ Known(c) /\ client[c].pid \in Nat /\ client[c].child \in Nat
         /\ client[c].pid <= started /\ client[c].child <= started
         /\ client[c].pid \in 0..Processes /\ (client[c].child # 0 => client[c].child \in Pids)
<1>1. client[c] \in Knowledge /\ Known(c)
  BY Zenon DEF TInv
<1>2. client[c].pid \in 0..Processes /\ client[c].child \in 0..Processes
  BY Zenon, <1>1 DEF Knowledge
<1> QED BY Zenon, <1>1, <1>2, NumberPid DEF Known

(* At first there are neither processes nor commands. *)
LEMMA InitTInv == Init => TInv /\ QInv
<1> SUFFICES ASSUME Init PROVE TInv /\ QInv
  OBVIOUS
<1>0. started = 0 /\ announced = {} /\ pidfile = None /\ unixsocket = None /\ overlapped = {}
  BY DEF Init
<1>1. \A d \in Pids : pc[d] = NotYet /\ d \in Nat /\ 0 < d
  BY BoundsAssumption DEF Init, Pids
<1>2. 0 \in 0..Processes /\ 0 <= 0
  BY BoundsAssumption
<1>3. client = [c \in Clients |-> [at |-> "idle", cmd |-> "none", pid |-> 0, peer |-> 0, child |-> 0, ok |-> TRUE]]
  BY DEF Init
<1>4. client \in [Clients -> Knowledge]
  BY <1>2, <1>3 DEF Knowledge, Phases
<1>5. Numbered
  BY <1>0, <1>1 DEF Numbered
<1>6. \A d \in Pids : Told(d)
  BY Zenon, <1>1 DEF Told, Serving, Ending, NotYet, Exited
<1>7. \A c \in Clients : Known(c)
  BY <1>0, <1>2, <1>3 DEF Known
<1>8. QInv
  BY Zenon, <1>0, <1>1, <1>3 DEF QInv, Alive, At
<1> QED BY <1>4, <1>5, <1>6, <1>7, <1>8 DEF TInv


Move(from, v) ==
  /\ from \in Places \ {NotYet, Exited} /\ v \in Places \ {NotYet}
  /\ from \in Ending => v \in Ending \cup {Exited}
  /\ from \in Serving => v \in Serving \cup {"closing"}

(* The moves of tincd. *)
LEMMA TincdMove ==
  /\ Move("main", Exited) /\ Move("main", "quic") /\ Move("main", "closing")
  /\ Move("quic", "closing") /\ Move("quic", "pidfile")
  /\ Move("pidfile", "pid") /\ Move("pid", "probe") /\ Move("probe", "unlink") /\ Move("probe", "closing")
  /\ Move("unlink", "bind") /\ Move("bind", "enable") /\ Move("bind", "closing")
  /\ Move("enable", "ready") /\ Move("enable", "closing") /\ Move("ready", "run") /\ Move("run", "closing")
  /\ Move("closing", "unpid") /\ Move("unpid", "end") /\ Move("end", Exited)
BY DEF Move, Places, Serving, Ending, NotYet, Exited

(* Such a step, from its parts. *)
LEMMA StepIsMove ==
  ASSUME IInv, TInv, NEW d \in Pids, NEW from, NEW v, Step(d, from, v), Move(from, v),
         announced' = announced \/ (announced' = announced \cup {d} /\ v = "ready"),
         faulty \subseteq faulty',
         pidfile' # None => pidfile'.pid <= started, unixsocket' \in Pids \cup {None},
         v \in Serving => d \in announced',
         v \in Ending \cup {Exited} => d \in announced \cup faulty' \cup overlapped,
         v = "closing" => from \notin Serving \/ \E c \in Clients : client[c].at = "stopping" /\ client[c].peer = d
  PROVE  Moves(d, v)
<1>1. pc[d] = from /\ pc' = [pc EXCEPT ![d] = v] /\ UNCHANGED <<client, started, signalled, overlapped, concurrent>>
  BY DEF Step, Goto, historyVars
<1>2. Alive(d)
  BY <1>1 DEF Move, Alive
<1> QED BY <1>1, <1>2, Zenon DEF Moves, Move

(* The steps of tincd that do not touch the two files. *)
LEMMA SetupMoves ==
  ASSUME IInv, TInv, NEW d \in Pids,
         \/ main(d) \/ setup_myself(d) \/ quic_init(d) \/ quic_start_listener(d)
         \/ Probe(d) \/ Ready(d) \/ main_loop(d) \/ Stop(d) \/ Exit(d)
  PROVE  \E v : Moves(d, v)
<1>1. UNCHANGED <<pidfile, unixsocket>>
  BY Zenon DEF main, setup_myself, quic_init, quic_start_listener, Probe, Ready, main_loop, Stop, Exit
<1>2. (pidfile' # None => pidfile'.pid <= started) /\ unixsocket' \in Pids \cup {None}
  BY <1>1 DEF TInv, Numbered
<1>3. \A from, v : Step(d, from, v) => pc[d] = from
  BY DEF Step
<1>4. /\ pc[d] \in Serving => d \in announced
      /\ pc[d] \in Ending => d \in announced \cup faulty \cup overlapped
  BY DEF TInv, Told
<1>5. \A e \in Pids : e # d /\ Alive(e) /\ Alive(d) => d \in overlapped
  BY DEF IInv, Alone
<1>6. CASE main(d) \/ setup_myself(d) \/ quic_init(d)
  <2>1. /\ announced' = announced /\ faulty \subseteq faulty'
        /\ \/ Step(d, "main", Exited) /\ d \in faulty'
           \/ Step(d, "main", "quic")
           \/ Step(d, "main", "closing") /\ d \in faulty'
           \/ Step(d, "quic", "closing") /\ d \in faulty'
    BY Zenon, <1>6 DEF main, setup_myself, quic_init, Fault, Fine
  <2>2. CASE Step(d, "main", Exited) /\ d \in faulty'
    BY Zenon, <1>2, <2>1, <2>2, StepIsMove, TincdMove DEF Serving, Exited
  <2>3. CASE Step(d, "main", "quic")
    BY Zenon, <1>2, <2>1, <2>3, StepIsMove, TincdMove DEF Serving, Ending, Exited
  <2>4. CASE Step(d, "main", "closing") /\ d \in faulty'
    BY Zenon, <1>2, <2>1, <2>4, StepIsMove, TincdMove DEF Serving
  <2>5. CASE Step(d, "quic", "closing") /\ d \in faulty'
    BY <1>2, <2>1, <2>5, StepIsMove, TincdMove DEF Serving
  <2> QED BY Zenon, <2>1, <2>2, <2>3, <2>4, <2>5
<1>7. CASE quic_start_listener(d)
  <2>1. announced' = announced /\ faulty' = faulty
    BY Zenon, <1>7 DEF quic_start_listener
  <2>2. CASE Step(d, "quic", "pidfile")
    BY <1>2, <2>1, <2>2, StepIsMove, TincdMove DEF Serving, Ending, Exited
  <2>3. CASE (\E e \in Pids : HoldsPort(e)) /\ Step(d, "quic", "closing")
    <3>1. PICK e \in Pids : HoldsPort(e)
      BY <2>3
    <3>2. Alive(d) /\ Alive(e) /\ e # d
      BY Zenon, <1>3, <2>3, <3>1 DEF HoldsPort, Alive, NotYet, Exited
    <3>3. d \in overlapped
      BY <1>5, <3>2
    <3> QED BY <1>2, <2>1, <2>3, <3>3, StepIsMove, TincdMove DEF Serving
  <2> QED BY <1>7, <2>2, <2>3 DEF quic_start_listener
<1>8. CASE Probe(d)
  <2>1. announced' = announced /\ faulty' = faulty
    BY Zenon, <1>8 DEF Probe
  <2>2. CASE Step(d, "probe", "unlink")
    BY Zenon, <1>2, <2>1, <2>2, StepIsMove, TincdMove DEF Serving, Ending, Exited
  <2>3. CASE Accepts /\ Step(d, "probe", "closing")
    <3>1. unixsocket \in Pids /\ Alive(unixsocket) /\ Alive(d) /\ unixsocket # d
      BY Zenon, <1>1, <1>2, <1>3, <2>3 DEF Accepts, Listening, Alive, NotYet, Exited
    <3>2. d \in overlapped
      BY <1>5, <3>1
    <3> QED BY <1>2, <2>1, <2>3, <3>2, StepIsMove, TincdMove DEF Serving
  <2> QED BY <1>8, <2>2, <2>3 DEF Probe
<1>9. CASE Ready(d) \/ main_loop(d)
  <2>1. /\ faulty \subseteq faulty'
        /\ \/ Step(d, "enable", "ready") /\ announced' = announced \cup {d}
           \/ Step(d, "enable", "closing") /\ d \in faulty' /\ announced' = announced
           \/ Step(d, "ready", "run") /\ announced' = announced
    BY <1>9 DEF Ready, main_loop, Fault, Fine
  <2>2. CASE Step(d, "enable", "ready") /\ announced' = announced \cup {d}
    BY Zenon, <1>2, <2>1, <2>2, StepIsMove, TincdMove DEF Ending, Exited
  <2>3. CASE Step(d, "enable", "closing") /\ d \in faulty' /\ announced' = announced
    BY <1>2, <2>1, <2>3, StepIsMove, TincdMove DEF Serving
  <2>4. CASE Step(d, "ready", "run") /\ announced' = announced
    <3>1. d \in announced'
      BY <1>3, <1>4, <2>4 DEF Serving
    <3> QED BY Zenon, <1>2, <2>1, <2>4, <3>1, StepIsMove, TincdMove DEF Ending, Exited
  <2> QED BY <2>1, <2>2, <2>3, <2>4
<1>10. CASE Stop(d) \/ Exit(d)
  <2>1. announced' = announced /\ faulty' = faulty
    BY Zenon, <1>10 DEF Stop, Exit
  <2>2. CASE Stop(d)
    <3>1. Step(d, "run", "closing") /\ \E c \in Clients : client[c].at = "stopping" /\ client[c].peer = d
      BY Zenon, <2>2 DEF Stop
    <3>2. d \in announced
      BY Zenon, <1>3, <1>4, <3>1 DEF Serving
    <3> QED BY Zenon, <1>2, <2>1, <3>1, <3>2, StepIsMove, TincdMove DEF Serving
  <2>3. CASE Exit(d)
    <3>1. Step(d, "end", Exited)
      BY <2>3 DEF Exit
    <3>2. d \in announced \cup faulty' \cup overlapped
      BY <1>3, <1>4, <2>1, <3>1 DEF Ending
    <3> QED BY <1>2, <2>1, <3>1, <3>2, StepIsMove, TincdMove DEF Serving, Exited
  <2> QED BY <1>10, <2>2, <2>3
<1> QED BY Zenon, <1>6, <1>7, <1>8, <1>9, <1>10

(* The steps of tincd on the two files. *)
LEMMA FilesMoves ==
  ASSUME IInv, TInv, NEW d \in Pids,
         OpenPidfile(d) \/ WritePidfile(d) \/ UnlinkSocket(d) \/ BindSocket(d) \/ Close(d) \/ ExitPidfile(d)
  PROVE  \E v : Moves(d, v)
<1>1. announced' = announced /\ faulty' = faulty
  BY Zenon DEF OpenPidfile, WritePidfile, UnlinkSocket, BindSocket, Close, ExitPidfile
<1>2. (pidfile # None => pidfile.pid <= started) /\ unixsocket \in Pids \cup {None}
  BY DEF TInv, Numbered
<1>3. \A from, v : Step(d, from, v) => pc[d] = from
  BY DEF Step
<1>4. pc[d] \in Ending => d \in announced \cup faulty' \cup overlapped
  BY <1>1 DEF TInv, Told
<1>5. Types /\ Own(d) /\ started \in Nat /\ 0 <= started
  BY Zenon, StartedNumber DEF IInv
<1>6. CASE OpenPidfile(d)
  <2>1. Step(d, "pidfile", "pid") /\ pidfile'.pid = 0 /\ unixsocket' = unixsocket
    BY <1>6 DEF OpenPidfile, FileOpened
  <2>2. pidfile'.pid <= started
    BY Zenon, <1>5, <2>1
  <2> QED BY <1>1, <1>2, <2>1, <2>2, StepIsMove, TincdMove DEF Serving, Ending, Exited
<1>7. CASE WritePidfile(d)
  <2>1. /\ Step(d, "pid", "probe") /\ unixsocket' = unixsocket
        /\ pidfile' = pidfile \/ (pidfile # None /\ pidfile' = [pidfile EXCEPT !.pid = d])
    BY <1>7 DEF WritePidfile
  <2>2. d <= started
    <3>1. pc[d] # NotYet
      BY Zenon, <1>3, <2>1 DEF NotYet
    <3>2. ~(started < d)
      BY <3>1 DEF TInv, Numbered
    <3> QED BY Zenon, <1>5, <3>2, PidNumber, NumberOrder
  <2>3. CASE pidfile' = pidfile
    BY <1>1, <1>2, <2>1, <2>3, StepIsMove, TincdMove DEF Serving, Ending, Exited
  <2>4. CASE pidfile # None /\ pidfile' = [pidfile EXCEPT !.pid = d]
    <3>1. pidfile \in [ino : Pids, pid : 0..Processes]
      BY <1>5, <2>4 DEF Types
    <3>2. pidfile'.pid = d
      BY <2>4, <3>1
    <3>3. pidfile'.pid <= started
      BY Zenon, <2>2, <3>2
    <3> QED BY <1>1, <1>2, <2>1, <3>3, StepIsMove, TincdMove DEF Serving, Ending, Exited
  <2> QED BY <2>1, <2>3, <2>4
<1>8. CASE UnlinkSocket(d)
  <2>1. Step(d, "unlink", "bind") /\ pidfile' = pidfile /\ unixsocket' = None
    BY Zenon, <1>8 DEF UnlinkSocket, Unlinked
  <2> QED BY <1>1, <1>2, <2>1, StepIsMove, TincdMove DEF Serving, Ending, Exited
<1>9. CASE BindSocket(d)
  <2>1. CASE Step(d, "bind", "enable") /\ unixsocket' = d /\ pidfile' = pidfile
    BY <1>1, <1>2, <2>1, StepIsMove, TincdMove DEF Serving, Ending, Exited
  <2>2. CASE unixsocket # None /\ Step(d, "bind", "closing") /\ unixsocket' = unixsocket /\ pidfile' = pidfile
    <3>1. d \in overlapped
      BY <1>3, <1>5, <2>2 DEF Own
    <3> QED BY <1>1, <1>2, <2>2, <3>1, StepIsMove, TincdMove DEF Serving
  <2> QED BY Zenon, <1>9, <2>1, <2>2 DEF BindSocket
<1>10. CASE Close(d) \/ ExitPidfile(d)
  <2>1. (pidfile' # None => pidfile'.pid <= started) /\ unixsocket' \in Pids \cup {None}
    BY Zenon, <1>2, <1>10 DEF Close, ExitPidfile
  <2>2. CASE Step(d, "closing", "unpid")
    <3>1. d \in announced \cup faulty' \cup overlapped
      BY Zenon, <1>3, <1>4, <2>2 DEF Ending
    <3> QED BY <1>1, <2>1, <2>2, <3>1, StepIsMove, TincdMove DEF Serving
  <2>3. CASE Step(d, "unpid", "end")
    <3>1. d \in announced \cup faulty' \cup overlapped
      BY <1>3, <1>4, <2>3 DEF Ending
    <3> QED BY <1>1, <2>1, <2>3, <3>1, StepIsMove, TincdMove DEF Serving
  <2> QED BY <1>10, <2>2, <2>3 DEF Close, ExitPidfile
<1> QED BY <1>6, <1>7, <1>8, <1>9, <1>10

(* What a tinc knows stays true while it takes no step: processes announce   *)
(* themselves once, and do not come back.                                    *)
LEMMA StaysKnown ==
  ASSUME IInv, TInv, NEW c \in Clients, client'[c] = client[c], started \in Nat, started' \in Nat, started <= started',
         announced \subseteq announced', faulty \subseteq faulty', overlapped \subseteq overlapped',
         \A d \in Pids : d <= started /\ Alive(d)' => Alive(d)
  PROVE  Known(c)'
<1>1. /\ client[c] \in Knowledge /\ Known(c) /\ client[c].pid \in Nat /\ client[c].child \in Nat
      /\ client[c].pid <= started /\ client[c].child <= started
      /\ client[c].child # 0 => client[c].child \in Pids
  BY Zenon, KnownNumbers
<1>2. client[c].pid <= started' /\ client[c].child <= started'
  BY Zenon, <1>1, NumberOrder
<1>3. client[c].child # 0 /\ ~Alive(client[c].child) => ~Alive(client[c].child)'
  BY Zenon, <1>1
<1> QED BY Zenon, <1>1, <1>2, <1>3 DEF Known

(* A step of a tincd leaves what was told true. *)
LEMMA MoveTells ==
  ASSUME IInv, TInv, NEW d \in Pids, NEW v, Moves(d, v)
  PROVE  TInv'
<1>1. Types /\ Numbered /\ started \in Nat
  BY Zenon, StartedNumber DEF TInv
<1>2. client' = client /\ started' = started /\ overlapped' = overlapped
  BY Zenon DEF Moves
<1>3. pc'[d] = v /\ \A e \in Pids : e # d => pc'[e] = pc[e]
  BY Zenon, <1>1 DEF Moves, Types
<1>4. v # NotYet /\ ~(started < d)
  BY Zenon, <1>1 DEF Moves, Alive, Numbered
<1>5. Numbered'
  <2>1. \A e \in Pids : pc'[e] = NotYet <=> started < e
    BY Zenon, <1>1, <1>3, <1>4 DEF Numbered
  <2>2. d <= started
    BY Zenon, <1>1, <1>4, NumberOrder, PidNumber
  <2>3. \A e \in announced' : e \in Pids /\ e <= started
    BY Zenon, <1>1, <2>2 DEF Moves, Numbered
  <2>4. (pidfile' # None => pidfile'.pid <= started) /\ unixsocket' \in Pids \cup {None}
    BY Zenon DEF Moves
  <2> QED BY Zenon, <1>2, <2>1, <2>3, <2>4 DEF Numbered
<1>6. \A e \in Pids : Told(e)'
  BY Zenon, <1>2, <1>3 DEF Moves, Told, TInv
<1>7. announced \subseteq announced' /\ faulty \subseteq faulty' /\ overlapped \subseteq overlapped'
  BY Zenon, <1>2 DEF Moves
<1>8. \A e \in Pids : Alive(e)' => Alive(e)
  BY Zenon, <1>3 DEF Moves, Alive
<1>9. \A c \in Clients : Known(c)'
  BY Zenon, <1>1, <1>2, <1>7, <1>8, StaysKnown, NumberOrder
<1> QED BY Zenon, <1>2, <1>5, <1>6, <1>9 DEF TInv

(* ... and commands in order. *)
LEMMA MoveInOrder ==
  ASSUME IInv, TInv, QInv, NEW d \in Pids, NEW v, Moves(d, v)
  PROVE  QInv'
<1> SUFFICES ASSUME InOrder' PROVE QInv'
  BY Zenon DEF QInv
<1>1. Types /\ client' = client /\ overlapped' = overlapped /\ InOrder
  BY Zenon DEF IInv, Types, Moves, InOrder
<1>2. pc'[d] = v /\ \A e \in Pids : e # d => pc'[e] = pc[e]
  BY <1>1 DEF Moves, Types
<1>3. \A e \in Pids : Alive(e)' => Alive(e)
  BY <1>2 DEF Moves, Alive
<1>4. overlapped = {} /\ \A b, c \in Clients : ~At(b, "idle") /\ ~At(c, "idle") => b = c
  BY Zenon, <1>1 DEF QInv
<1>5. ASSUME NEW e \in Pids, Alive(e)' PROVE e = d
  BY Zenon, <1>3, <1>4, <1>5 DEF IInv, Alone, Moves
<1>6. /\ (\A c \in Clients : At(c, "idle")) => pc[d] \in Serving
      /\ \A c \in Clients : ~At(c, "idle") => Meets(c, d)
  BY Zenon, <1>1 DEF QInv, Moves
<1>7. pc[d] \in Serving /\ v \notin Serving =>
        v = "closing" /\ \E c \in Clients : client[c].at = "stopping" /\ client[c].peer = d
  BY Zenon DEF Moves
<1>8. ASSUME \A c \in Clients : At(c, "idle") PROVE v \in Serving
  BY Zenon, <1>6, <1>7, <1>8 DEF At
<1>9. ASSUME NEW c \in Clients, ~At(c, "idle"), Alive(d)' PROVE Meets(c, d)'
  <2>1. Meets(c, d)
    BY Zenon, <1>6, <1>9
  <2>2. pc[d] \in Serving /\ v \notin Serving => v = "closing" /\ client[c].at = "stopping"
    BY Zenon, <1>4, <1>7, <1>9 DEF At
  <2>3. pc[d] \in Ending => v \in Ending
    BY Zenon, <1>2, <1>9 DEF Moves, Alive
  <2>4. d \in announced' /\ d \notin announced => v \in Serving
    BY Zenon DEF Moves, Serving
  <2> QED BY <1>1, <1>2, <2>1, <2>2, <2>3, <2>4 DEF Meets, Ending
<1> QED BY <1>1, <1>2, <1>4, <1>5, <1>8, <1>9 DEF QInv, At

(* A process that dies, or is told to, has a fault. *)
LEMMA DeathTells ==
  ASSUME IInv, TInv, NEW d \in Pids, Alive(d), NEW v \in {Exited, "closing"}, pc' = [pc EXCEPT ![d] = v],
         faulty' = faulty \cup {d}, UNCHANGED <<started, pidfile, unixsocket, announced, overlapped>>
  PROVE  /\ Numbered' /\ (\A e \in Pids : Told(e)') /\ (\A e \in Pids : Alive(e)' => Alive(e))
         /\ \A c \in Clients : client'[c] = client[c] => Known(c)'
<1>1. Types /\ Numbered /\ started \in Nat
  BY Zenon, StartedNumber DEF TInv
<1>2. pc'[d] = v /\ \A e \in Pids : e # d => pc'[e] = pc[e]
  BY <1>1 DEF Types
<1>3. ~(started < d) /\ v # NotYet
  BY Zenon, <1>1 DEF Alive, Numbered, NotYet, Exited
<1>4. Numbered'
  BY Zenon, <1>1, <1>2, <1>3 DEF Numbered
<1>5. \A e \in Pids : Told(e)'
  BY <1>2 DEF Told, TInv, Serving, Exited
<1>6. \A e \in Pids : Alive(e)' => Alive(e)
  BY Zenon, <1>2 DEF Alive
<1>7. started' = started /\ started \in Nat /\ started <= started
  BY Zenon, <1>1, NumberOrder
<1>8. \A c \in Clients : client'[c] = client[c] => Known(c)'
  BY Zenon, <1>6, <1>7, StaysKnown
<1> QED BY Zenon, <1>4, <1>5, <1>6, <1>8

(* A SIGTERM is not in order; after a crash there is one process less. *)
LEMMA KillKeeps ==
  ASSUME IInv, TInv, QInv, NEW d \in Pids, Crash(d) \/ Signal(d)
  PROVE  TInv' /\ QInv'
<1>1. /\ Alive(d) /\ faulty' = faulty \cup {d} /\ client' = client /\ concurrent' = concurrent
      /\ UNCHANGED <<started, pidfile, unixsocket, announced, overlapped>>
  BY DEF Crash, Signal, Kill, Fault
<1>2. PICK v \in {Exited, "closing"} : pc' = [pc EXCEPT ![d] = v] /\ (v = Exited \/ signalled')
  BY Zenon DEF Crash, Signal, Goto, Terminated
<1>3. /\ Numbered' /\ (\A e \in Pids : Told(e)') /\ (\A e \in Pids : Alive(e)' => Alive(e))
      /\ \A c \in Clients : Known(c)'
  BY Zenon, <1>1, <1>2, DeathTells
<1>4. TInv'
  BY Zenon, <1>1, <1>3 DEF TInv
<1>5. ASSUME InOrder' PROVE QInv'
  <2>1. Crash(d)
    BY Zenon, <1>5 DEF InOrder, Signal
  <2>2. InOrder /\ pc' = [pc EXCEPT ![d] = Exited]
    BY Zenon, <1>1, <1>5, <2>1 DEF InOrder, Crash, Goto
  <2>3. pc \in [Pids -> Places]
    BY DEF IInv, Types
  <2>4. \A e \in Pids : Alive(e)' => Alive(e) /\ pc'[e] = pc[e]
    <3>1. pc'[d] = Exited /\ \A e \in Pids : e # d => pc'[e] = pc[e]
      BY Zenon, <2>2, <2>3
    <3> QED BY Zenon, <3>1 DEF Alive
  <2>5. ASSUME NEW e \in Pids, NEW c \in Clients, Alive(e)', Meets(c, e) PROVE Meets(c, e)'
    BY <1>1, <2>4, <2>5 DEF Meets
  <2>6. \A a, c : At(c, a)' <=> At(c, a)
    BY <1>1 DEF At
  <2> QED BY Zenon, <1>1, <2>2, <2>4, <2>5, <2>6 DEF QInv
<1> QED BY Zenon, <1>4, <1>5 DEF QInv

(* tinc c goes on with k. *)
Becomes(c, k) ==
  k \in Knowledge /\ client' \in [Clients -> Knowledge] /\ client'[c] = k
  /\ \A e \in Clients : e # c => client'[e] = client[e]

(* The assignments to the state of a tinc. *)
LEMMA ClientBecomes ==
  ASSUME TInv, NEW c \in Clients
  PROVE  /\ \A a \in Phases : Now(c, a) => Becomes(c, [client[c] EXCEPT !.at = a])
         /\ \A ok \in BOOLEAN : Finish(c, ok) =>
              Becomes(c, [client[c] EXCEPT !.at = "idle", !.pid = 0, !.peer = 0, !.ok = ok])
<1>1. client \in [Clients -> Knowledge] /\ client[c] \in Knowledge /\ 0 \in 0..Processes
  BY BoundsAssumption DEF TInv
<1>2. ASSUME NEW a \in Phases, Now(c, a) PROVE Becomes(c, [client[c] EXCEPT !.at = a])
  <2>1. [client[c] EXCEPT !.at = a] \in Knowledge
    BY <1>1 DEF Knowledge
  <2> QED BY <1>1, <1>2, <2>1 DEF Now, Becomes
<1>3. ASSUME NEW ok \in BOOLEAN, Finish(c, ok)
      PROVE  Becomes(c, [client[c] EXCEPT !.at = "idle", !.pid = 0, !.peer = 0, !.ok = ok])
  <2>1. [client[c] EXCEPT !.at = "idle", !.pid = 0, !.peer = 0, !.ok = ok] \in Knowledge
    BY Zenon, <1>1 DEF Knowledge, Phases
  <2> QED BY <1>1, <1>3, <2>1 DEF Finish, Becomes
<1> QED BY Zenon, <1>2, <1>3

(* A step of a tinc that starts no process. *)
LEMMA ClientTells ==
  ASSUME IInv, TInv, NEW c \in Clients, NEW k, Becomes(c, k), UNCHANGED <<pc, started, announced, faulty>>,
         pidfile' \in {None, pidfile}, unixsocket' \in {None, unixsocket}, overlapped \subseteq overlapped', Known(c)'
  PROVE  TInv'
<1>1. Numbered'
  BY Zenon DEF TInv, Numbered
<1>2. \A d \in Pids : Told(d)'
  BY Zenon DEF TInv, Told
<1>3. started \in Nat /\ started' = started /\ started <= started
  BY Zenon, StartedNumber, NumberOrder
<1>4. \A d \in Pids : Alive(d)' <=> Alive(d)
  BY Zenon DEF Alive
<1>5. announced \subseteq announced' /\ faulty \subseteq faulty'
  BY Zenon
<1>6. \A e \in Clients : Known(e)'
  BY Zenon, <1>3, <1>4, <1>5, StaysKnown DEF Becomes
<1> QED BY Zenon, <1>1, <1>2, <1>6 DEF TInv, Becomes

(* A step of the only tinc there is. *)
LEMMA ClientInOrder ==
  ASSUME TInv, QInv, NEW c \in Clients, ~At(c, "idle"), NEW k, Becomes(c, k), UNCHANGED <<concurrent, signalled>>,
         InOrder => UNCHANGED <<pc, announced, overlapped>>,
         InOrder => \A d \in Pids : Alive(d) => IF k.at = "idle" THEN pc[d] \in Serving ELSE Meets(c, d)'
  PROVE  QInv'
<1> SUFFICES ASSUME InOrder' PROVE QInv'
  BY DEF QInv
<1>1. InOrder /\ UNCHANGED <<pc, announced, overlapped>>
  BY DEF InOrder
<1>2. overlapped' = {}
  BY Zenon, <1>1 DEF QInv
<1>3. \A e \in Clients : e # c => At(e, "idle") /\ At(e, "idle")'
  BY <1>1 DEF QInv, Becomes, At
<1>4. \A b, e \in Clients : ~At(b, "idle")' /\ ~At(e, "idle")' => b = e
  BY Zenon, <1>3
<1>5. ASSUME NEW d \in Pids, Alive(d)'
      PROVE  /\ (\A e \in Clients : At(e, "idle")') => pc'[d] \in Serving
             /\ \A e \in Clients : ~At(e, "idle")' => Meets(e, d)'
  <2>1. Alive(d) /\ pc'[d] = pc[d]
    BY <1>1, <1>5 DEF Alive
  <2>2. IF k.at = "idle" THEN pc[d] \in Serving ELSE Meets(c, d)'
    BY <1>1, <2>1
  <2> QED BY Zenon, <1>3, <2>1, <2>2 DEF Becomes, At
<1> QED BY Zenon, <1>2, <1>4, <1>5 DEF QInv

(* connect_tincd. *)
LEMMA ReadPidfileTells ==
  ASSUME IInv, TInv, QInv, NEW c \in Clients, ReadPidfile(c)
  PROVE  TInv' /\ QInv'
<1>1. client[c] \in Knowledge /\ client[c].at = "pidfile" /\ Known(c) /\ Numbered /\ ~At(c, "idle")
  BY DEF TInv, ReadPidfile, At
<1>2. UNCHANGED <<pc, started, announced, faulty, pidfile, unixsocket, overlapped, concurrent, signalled>>
  BY DEF ReadPidfile, daemonVars, historyVars
<1>3. CASE (pidfile = None \/ pidfile.pid = 0) /\ Now(c, "failed")
  <2>1. PICK k : k = [client[c] EXCEPT !.at = "failed"] /\ Becomes(c, k)
    BY Zenon, <1>3, ClientBecomes DEF Phases
  <2>2. k.at = "failed" /\ k.pid = client[c].pid /\ k.child = client[c].child
    BY <1>1, <2>1 DEF Knowledge
  <2>3. Known(c)'
    BY Zenon, <1>1, <1>2, <2>1, <2>2 DEF Known, Becomes
  <2>4. InOrder => \A d \in Pids : ~Alive(d)
    BY <1>1, <1>3 DEF QInv, Meets, IInv, Own, Serving, Pids
  <2>5. QInv'
    BY <1>1, <1>2, <2>1, <2>4, ClientInOrder
  <2> QED BY <1>2, <2>1, <2>3, <2>5, ClientTells
<1>4. CASE /\ ~(pidfile = None \/ pidfile.pid = 0)
           /\ client' = [client EXCEPT ![c].pid = pidfile.pid,
                                       ![c].at = IF Alive(pidfile.pid) THEN "connect" ELSE "stale"]
  <2>0. PICK a : a = IF Alive(pidfile.pid) THEN "connect" ELSE "stale"
    OBVIOUS
  <2>1. pidfile.pid \in 0..Processes /\ pidfile.pid <= started /\ a \in {"connect", "stale"} /\ pidfile.pid \in Pids
    BY <1>1, <1>4, <2>0, BoundsAssumption DEF IInv, Types, Numbered, Pids
  <2>2. PICK k : k = [client[c] EXCEPT !.pid = pidfile.pid, !.at = a]
    OBVIOUS
  <2>3. k \in Knowledge
    BY Zenon, <1>1, <2>1, <2>2 DEF Knowledge, Phases
  <2>4. Becomes(c, k)
    BY <1>4, <2>0, <2>2, <2>3 DEF Becomes, TInv
  <2>5. k.at = a /\ k.pid = pidfile.pid /\ k.child = client[c].child
    BY Zenon, <1>1, <2>2 DEF Knowledge
  <2>6. Known(c)'
    BY <1>1, <1>2, <2>1, <2>4, <2>5 DEF Known, Becomes
  <2>7. ASSUME InOrder, NEW d \in Pids, Alive(d) PROVE Meets(c, d)'
    <3>1. pc[d] \in Serving /\ d \notin overlapped
      BY Zenon, <1>1, <2>7 DEF QInv, Meets
    <3>2. pidfile.pid = d
      BY Zenon, <3>1 DEF IInv, Own, Serving
    <3>3. k.at = "connect" /\ k.pid = d
      BY <2>0, <2>5, <2>7, <3>2
    <3> QED BY Zenon, <1>2, <2>4, <3>1, <3>3 DEF Meets, Becomes
  <2>8. QInv'
    BY Zenon, <1>1, <1>2, <2>1, <2>4, <2>5, <2>7, ClientInOrder
  <2> QED BY <1>2, <2>4, <2>6, <2>8, ClientTells
<1> QED BY <1>3, <1>4 DEF ReadPidfile

(* Files are taken for stale when there is no process, if commands are in    *)
(* order.                                                                    *)
LEMMA CleanTells ==
  ASSUME IInv, TInv, QInv, NEW c \in Clients, CleanPidfile(c) \/ CleanSocket(c)
  PROVE  TInv' /\ QInv'
<1>1. /\ client[c] \in Knowledge /\ client[c].at \in {"stale", "stalesocket"} /\ Known(c) /\ ~At(c, "idle")
  BY Zenon DEF TInv, CleanPidfile, CleanSocket, At
<1>2. /\ UNCHANGED <<pc, started, announced, faulty, concurrent, signalled>> /\ overlapped' = overlapped \cup AllAlive
      /\ pidfile' \in {None, pidfile} /\ unixsocket' \in {None, unixsocket}
  BY Zenon DEF CleanPidfile, CleanSocket
<1>3. PICK a \in {"stalesocket", "failed"} : Now(c, a)
  BY DEF CleanPidfile, CleanSocket
<1>4. PICK k : k = [client[c] EXCEPT !.at = a] /\ Becomes(c, k)
  BY Zenon, <1>3, ClientBecomes DEF Phases
<1>5. k.at = a /\ k.pid = client[c].pid /\ k.child = client[c].child
  BY <1>1, <1>4 DEF Knowledge
<1>6. Known(c)'
  BY Zenon, <1>1, <1>2, <1>4, <1>5 DEF Known, Becomes
<1>7. InOrder => \A d \in Pids : ~Alive(d)
  BY Zenon, <1>1 DEF QInv, Meets
<1>8. InOrder => overlapped' = overlapped
  BY <1>2, <1>7 DEF AllAlive
<1>9. QInv'
  BY <1>1, <1>2, <1>4, <1>7, <1>8, ClientInOrder
<1> QED BY Zenon, <1>2, <1>4, <1>6, <1>9, ClientTells

(* The socket leads to the process that the pid file names, if commands are  *)
(* in order.                                                                 *)
LEMMA ConnectTells ==
  ASSUME IInv, TInv, QInv, NEW c \in Clients, Connect(c)
  PROVE  TInv' /\ QInv'
<1>1. client[c] \in Knowledge /\ client[c].at = "connect" /\ Known(c) /\ Numbered /\ ~At(c, "idle")
  BY DEF TInv, Connect, At
<1>2. UNCHANGED <<pc, started, announced, faulty, pidfile, unixsocket, overlapped, concurrent, signalled>>
  BY Zenon DEF Connect, daemonVars, historyVars
<1>3. ASSUME InOrder, NEW d \in Pids, Alive(d)
      PROVE  pc[d] \in Serving /\ unixsocket = d /\ client[c].pid = d /\ Accepts
  <2>1. pc[d] \in Serving /\ d \notin overlapped /\ client[c].pid = d
    BY Zenon, <1>1, <1>3 DEF QInv, Meets
  <2>2. unixsocket = d
    BY <2>1 DEF IInv, Own, Serving
  <2>3. d # None
    BY NoneAssumption
  <2> QED BY Zenon, <2>1, <2>2, <2>3 DEF Accepts, Listening, Serving
<1>4. CASE ~Accepts /\ Now(c, "failed")
  <2>1. PICK k : k = [client[c] EXCEPT !.at = "failed"] /\ Becomes(c, k)
    BY Zenon, <1>4, ClientBecomes DEF Phases
  <2>2. k.at = "failed" /\ k.pid = client[c].pid /\ k.child = client[c].child
    BY <1>1, <2>1 DEF Knowledge
  <2>3. Known(c)'
    BY <1>1, <1>2, <2>1, <2>2 DEF Known, Becomes
  <2>5. QInv'
    BY <1>1, <1>2, <1>3, <1>4, <2>1, ClientInOrder
  <2> QED BY <1>2, <2>1, <2>3, <2>5, ClientTells
<1>5. CASE Accepts /\ client' = [client EXCEPT ![c].peer = unixsocket, ![c].at = "greeting"]
  <2>1. unixsocket \in Pids /\ unixsocket \in 0..Processes /\ unixsocket # 0
    BY <1>1, <1>5, BoundsAssumption DEF Numbered, Accepts, Pids
  <2>2. PICK k : k = [client[c] EXCEPT !.peer = unixsocket, !.at = "greeting"]
    OBVIOUS
  <2>3. k \in Knowledge
    BY Zenon, <1>1, <2>1, <2>2 DEF Knowledge, Phases
  <2>4. Becomes(c, k)
    BY <1>5, <2>2, <2>3 DEF Becomes, TInv
  <2>5. k.at = "greeting" /\ k.pid = client[c].pid /\ k.child = client[c].child /\ k.peer = unixsocket
    BY <1>1, <2>2 DEF Knowledge
  <2>6. Known(c)'
    BY Zenon, <1>1, <1>2, <2>1, <2>4, <2>5 DEF Known, Becomes
  <2>7. ASSUME InOrder, NEW d \in Pids, Alive(d) PROVE Meets(c, d)'
    BY Zenon, <1>2, <1>3, <2>4, <2>5, <2>7 DEF Meets, Becomes
  <2>8. QInv'
    BY <1>1, <1>2, <2>4, <2>5, <2>7, ClientInOrder
  <2> QED BY <1>2, <2>4, <2>6, <2>8, ClientTells
<1> QED BY <1>4, <1>5 DEF Connect

(* A tincd that runs answers the greeting. *)
LEMMA GreetingTells ==
  ASSUME IInv, TInv, QInv, NEW c \in Clients, Greeting(c) \/ RequestStop(c)
  PROVE  TInv' /\ QInv'
<1>1. /\ client[c] \in Knowledge /\ client[c].at \in {"greeting", "connected"} /\ Known(c) /\ ~At(c, "idle")
      /\ client[c].peer \in Pids
  <2>1. client[c] \in Knowledge /\ client[c].at \in {"greeting", "connected"} /\ Known(c) /\ ~At(c, "idle")
    BY Zenon DEF TInv, Greeting, RequestStop, At
  <2>2. client[c].peer \in 0..Processes /\ client[c].peer # 0
    BY <2>1 DEF Knowledge, Known
  <2> QED BY <2>1, <2>2, BoundsAssumption DEF Pids
<1>2. UNCHANGED <<pc, started, announced, faulty, pidfile, unixsocket, overlapped, concurrent, signalled>>
  BY Zenon DEF Greeting, RequestStop, daemonVars, historyVars
<1>3. PICK a \in {"connected", "failed", "stopping"} :
        /\ Now(c, a)
        /\ a = "connected" => client[c].at = "greeting"
        /\ a = "stopping" => client[c].at = "connected"
        /\ a = "failed" => client[c].at = "greeting" /\ (client[c].pid # client[c].peer \/ HungUp(client[c].peer))
  BY DEF Greeting, RequestStop, At
<1>4. PICK k : k = [client[c] EXCEPT !.at = a] /\ Becomes(c, k)
  BY Zenon, <1>3, ClientBecomes DEF Phases
<1>5. k.at = a /\ k.pid = client[c].pid /\ k.child = client[c].child /\ k.peer = client[c].peer
  BY <1>1, <1>4 DEF Knowledge
<1>6. Known(c)'
  BY <1>1, <1>2, <1>4, <1>5 DEF Known, Becomes
<1>7. ASSUME InOrder, NEW d \in Pids, Alive(d) PROVE Meets(c, d)'
  <2>1. pc[d] \in Serving /\ client[c].peer = d /\ (client[c].at = "greeting" => client[c].pid = d)
    BY Zenon, <1>1, <1>7 DEF QInv, Meets
  <2>2. a # "failed"
    BY <1>3, <2>1 DEF HungUp, Listening, Serving
  <2> QED BY Zenon, <1>2, <1>3, <1>4, <1>5, <2>1, <2>2 DEF Meets, Becomes
<1>8. QInv'
  BY Zenon, <1>1, <1>2, <1>4, <1>5, <1>7, ClientInOrder
<1> QED BY Zenon, <1>2, <1>4, <1>6, <1>8, ClientTells

(* cmd_restart goes on with cmd_start; cmd_stop ends. *)
LEMMA AfterStopBecomes ==
  ASSUME TInv, NEW c \in Clients, NEW ok \in BOOLEAN, AfterStop(c, ok)
  PROVE  \E k : /\ Becomes(c, k) /\ k.at \in {"pidfile", "idle"} /\ k.child = client[c].child
                /\ k.pid \in {0, client[c].pid}
<1>1. client \in [Clients -> Knowledge] /\ client[c] \in Knowledge
  BY DEF TInv
<1>2. CASE client' = [client EXCEPT ![c].at = "pidfile", ![c].cmd = "start"]
  <2>1. PICK k : k = [client[c] EXCEPT !.at = "pidfile", !.cmd = "start"]
    OBVIOUS
  <2>2. k \in Knowledge /\ k.at = "pidfile" /\ k.child = client[c].child /\ k.pid = client[c].pid
    BY Zenon, <1>1, <2>1 DEF Knowledge, Phases
  <2> QED BY Zenon, <1>1, <1>2, <2>1, <2>2 DEF Becomes
<1>3. CASE Finish(c, ok)
  <2>1. PICK k : k = [client[c] EXCEPT !.at = "idle", !.pid = 0, !.peer = 0, !.ok = ok] /\ Becomes(c, k)
    BY Zenon, <1>3, ClientBecomes
  <2>2. k.at = "idle" /\ k.child = client[c].child /\ k.pid = 0
    BY Zenon, <1>1, <2>1 DEF Knowledge
  <2> QED BY Zenon, <2>1, <2>2
<1> QED BY <1>2, <1>3 DEF AfterStop

(* stop_tincd waits until the process is gone. *)
LEMMA StoppedTells ==
  ASSUME IInv, TInv, QInv, NEW c \in Clients, Stopped(c)
  PROVE  TInv' /\ QInv'
<1>1. /\ client[c] \in Knowledge /\ client[c].at = "stopping" /\ Known(c) /\ ~At(c, "idle") /\ started \in Nat
      /\ ~Alive(client[c].peer) /\ AfterStop(c, TRUE) /\ client[c].child = 0
  <2>1. client[c].at = "stopping" /\ ~At(c, "idle") /\ ~Alive(client[c].peer) /\ AfterStop(c, TRUE)
    BY Zenon DEF Stopped, At, Disconnected
  <2>2. client[c] \in Knowledge /\ Known(c) /\ started \in Nat
    BY Zenon, KnownNumbers, StartedNumber
  <2> QED BY Zenon, <2>1, <2>2 DEF Known
<1>2. UNCHANGED <<pc, started, announced, faulty, pidfile, unixsocket, overlapped, concurrent, signalled>>
  BY DEF Stopped, daemonVars, historyVars
<1>3. PICK k : Becomes(c, k) /\ k.at \in {"pidfile", "idle"} /\ k.child = 0 /\ k.pid \in {0, client[c].pid}
  BY Zenon, <1>1, AfterStopBecomes
<1>4. Known(c)'
  BY Zenon, <1>1, <1>2, <1>3 DEF Known, Becomes
<1>5. InOrder => \A d \in Pids : ~Alive(d)
  BY Zenon, <1>1 DEF QInv, Meets
<1>6. QInv'
  BY <1>1, <1>2, <1>3, <1>5, ClientInOrder
<1> QED BY Zenon, <1>2, <1>3, <1>4, <1>6, ClientTells

(* cmd_stop, if there was no connection: a process that gets a SIGTERM here  *)
(* is one that commands in order do not leave.                               *)
LEMMA TerminateTells ==
  ASSUME IInv, TInv, QInv, NEW c \in Clients, Terminate(c)
  PROVE  TInv' /\ QInv'
<1>0. PICK d : d = client[c].pid
  BY Zenon
<1>1. /\ client[c] \in Knowledge /\ client[c].at = "failed" /\ Known(c) /\ ~At(c, "idle") /\ started \in Nat
      /\ client[c].child = 0 /\ d \in 0..Processes /\ d <= started /\ Numbered
  <2>1. client[c].at = "failed" /\ ~At(c, "idle")
    BY Zenon DEF Terminate, At
  <2>2. client[c] \in Knowledge /\ Known(c) /\ started \in Nat /\ Numbered
    BY Zenon, KnownNumbers, StartedNumber DEF TInv
  <2>3. client[c].child = 0
    BY Zenon, <2>1, <2>2 DEF Known
  <2> QED BY Zenon, <1>0, <2>1, <2>2, <2>3, KnownNumbers
<1>2. UNCHANGED <<started, announced, pidfile, unixsocket, overlapped, concurrent, signalled>>
  BY Zenon DEF Terminate, historyVars
<1>3. PICK ok \in BOOLEAN : AfterStop(c, ok)
  BY Zenon DEF Terminate
<1>4. PICK k : Becomes(c, k) /\ k.at \in {"pidfile", "idle"} /\ k.child = 0 /\ k.pid \in {0, d}
  BY Zenon, <1>0, <1>1, <1>3, AfterStopBecomes
<1>5. Known(c)'
  BY Zenon, <1>1, <1>2, <1>4 DEF Known, Becomes
<1>6. InOrder => \A e \in Pids : ~Alive(e)
  BY Zenon, <1>1 DEF QInv, Meets
<1>7. CASE pc' = pc /\ faulty' = faulty
  <2>1. QInv'
    BY Zenon, <1>1, <1>2, <1>4, <1>6, <1>7, ClientInOrder
  <2> QED BY <1>2, <1>4, <1>5, <1>7, <2>1, ClientTells
<1>8. CASE d # 0 /\ pc[d] # Exited /\ pc' = [pc EXCEPT ![d] = Terminated(d)] /\ faulty' = faulty \cup {d}
  <2>1. d \in Pids
    BY Zenon, <1>1, <1>8, NumberPid
  <2>2. Alive(d)
    <3>1. ~(started < d)
      BY Zenon, <1>1, <2>1, PidNumber, NumberOrder
    <3>2. pc[d] # NotYet
      BY Zenon, <1>1, <2>1, <3>1 DEF Numbered
    <3> QED BY Zenon, <1>8, <3>2 DEF Alive
  <2>3. Terminated(d) \in {Exited, "closing"}
    BY Zenon DEF Terminated
  <2>4. /\ Numbered' /\ (\A e \in Pids : Told(e)')
        /\ \A b \in Clients : client'[b] = client[b] => Known(b)'
    BY Zenon, <1>2, <1>8, <2>1, <2>2, <2>3, DeathTells
  <2>5. TInv'
    BY Zenon, <1>4, <1>5, <2>4 DEF TInv, Becomes
  <2>6. ~InOrder
    BY <1>6, <2>1, <2>2
  <2>7. QInv'
    BY Zenon, <1>2, <2>6 DEF QInv, InOrder
  <2> QED BY Zenon, <2>5, <2>7
<1> QED BY Zenon, <1>0, <1>7, <1>8 DEF Terminate, Goto, Fault

(* `tinc start' that finds a tincd, cannot fork, or has read its umbilical   *)
(* to the end.                                                               *)
LEMMA FinishTells ==
  ASSUME IInv, TInv, QInv, NEW c \in Clients, AlreadyRunning(c) \/ CannotStart(c) \/ UmbilicalCut(c)
  PROVE  TInv' /\ QInv'
<1>1. /\ client[c] \in Knowledge /\ Known(c) /\ started \in Nat
      /\ client[c].child # 0 => client[c].child \in Pids /\ client[c].child <= started
  BY Zenon, KnownNumbers, StartedNumber
<1>2. client[c].at \in {"connected", "failed", "umbilical"} /\ ~At(c, "idle")
  BY Zenon DEF AlreadyRunning, CannotStart, UmbilicalCut, At
<1>3. UNCHANGED <<pc, started, announced, faulty, pidfile, unixsocket, overlapped, concurrent, signalled>>
  BY Zenon DEF AlreadyRunning, CannotStart, UmbilicalCut, daemonVars, historyVars
<1>4. PICK ok \in BOOLEAN :
        /\ Finish(c, ok)
        /\ client[c].at = "umbilical" =>
             IF ok THEN client[c].child \in announced
             ELSE client[c].child \notin announced /\ ~Alive(client[c].child)
  BY Zenon DEF AlreadyRunning, CannotStart, UmbilicalCut, At
<1>5. PICK k : k = [client[c] EXCEPT !.at = "idle", !.pid = 0, !.peer = 0, !.ok = ok] /\ Becomes(c, k)
  BY Zenon, <1>4, ClientBecomes
<1>6. k.at = "idle" /\ k.child = client[c].child /\ k.pid = 0 /\ k.ok = ok
  BY Zenon, <1>1, <1>5 DEF Knowledge
<1>7. ASSUME client[c].child # 0
      PROVE  IF ok THEN client[c].child \in announced
             ELSE ~Alive(client[c].child) /\ client[c].child \in faulty \cup overlapped
  <2>1. client[c].at = "umbilical"
    BY Zenon, <1>1, <1>2, <1>7 DEF Known
  <2>2. client[c].child \in Pids /\ client[c].child <= started
    BY Zenon, <1>1, <1>7
  <2>3. pc[client[c].child] # NotYet
    <3>1. ~(started < client[c].child)
      BY Zenon, <1>1, <2>2, PidNumber, NumberOrder
    <3> QED BY Zenon, <2>2, <3>1 DEF TInv, Numbered
  <2>4. pc[client[c].child] = Exited => client[c].child \in announced \cup faulty \cup overlapped
    BY Zenon, <2>2 DEF TInv, Told
  <2>5. ~ok => ~Alive(client[c].child) /\ client[c].child \in faulty \cup overlapped
    BY Zenon, <1>4, <2>1, <2>3, <2>4 DEF Alive
  <2> QED BY Zenon, <1>4, <2>1, <2>5
<1>8. Known(c)'
  <2>1. Alive(client[c].child)' <=> Alive(client[c].child)
    BY Zenon, <1>3, <1>5, <1>6 DEF Alive, Becomes
  <2> QED BY <1>1, <1>3, <1>5, <1>6, <1>7, <2>1 DEF Known, Becomes
<1>9. ASSUME InOrder, NEW d \in Pids, Alive(d) PROVE pc[d] \in Serving
  <2>1. Meets(c, d)
    BY Zenon, <1>2, <1>9 DEF QInv
  <2>2. CASE client[c].at = "connected"
    BY Zenon, <2>1, <2>2 DEF Meets
  <2>3. CASE client[c].at = "umbilical"
    BY Zenon, <1>4, <1>9, <2>1, <2>3 DEF Meets
  <2> QED BY <1>2, <2>1, <2>2, <2>3 DEF Meets
<1>10. InOrder => \A d \in Pids : Alive(d) => IF k.at = "idle" THEN pc[d] \in Serving ELSE Meets(c, d)'
  BY <1>6, <1>9
<1>11. QInv'
  BY Zenon, <1>2, <1>3, <1>5, <1>10, ClientInOrder
<1> QED BY Zenon, <1>3, <1>5, <1>8, <1>11, ClientTells

(* `tinc start' starts a process when it has met none; it is the next in     *)
(* number, and the tinc waits for it.                                        *)
LEMMA StartTellsNext ==
  ASSUME IInv, TInv, QInv, NEW c \in Clients, Start(c)
  PROVE  TInv' /\ QInv'
<1>0. PICK n : n = started + 1
  OBVIOUS
<1>1. /\ client[c].at = "failed" /\ ~At(c, "idle") /\ started < Processes /\ started' = n
      /\ pc' = [pc EXCEPT ![n] = "main"]
      /\ client' = [client EXCEPT ![c].at = "umbilical", ![c].child = n]
      /\ overlapped' = IF AllAlive = {} THEN overlapped ELSE overlapped \cup AllAlive \cup {n}
      /\ UNCHANGED <<pidfile, unixsocket, announced, faulty, signalled, concurrent>>
  BY <1>0 DEF Start, Goto, At
<1>2. /\ client[c] \in Knowledge /\ Known(c) /\ started \in Nat /\ Numbered /\ n \in Nat
      /\ started < n /\ started <= n /\ n # 0 /\ n \in 0..Processes /\ n \in Pids
  <2>1. client[c] \in Knowledge /\ Known(c) /\ started \in Nat /\ Numbered
    BY Zenon, KnownNumbers, StartedNumber DEF TInv
  <2>2. started < Processes
    BY Zenon, <1>1
  <2>3. n \in Nat /\ started < n /\ started <= n /\ n # 0 /\ n \in 0..Processes
    BY ONLY <1>0, <2>1, <2>2, BoundsAssumption
  <2> QED BY Zenon, <2>1, <2>3, NumberPid
<1>3. pc' \in [Pids -> Places] /\ pc'[n] = "main" /\ \A d \in Pids : d # n => pc'[d] = pc[d]
  BY <1>1, <1>2 DEF IInv, Types, Places
<1>4. PICK k : k = [client[c] EXCEPT !.at = "umbilical", !.child = n]
  OBVIOUS
<1>5. k \in Knowledge /\ k.at = "umbilical" /\ k.child = n /\ k.pid = client[c].pid
  BY Zenon, <1>2, <1>4 DEF Knowledge, Phases
<1>6. Becomes(c, k)
  BY <1>1, <1>4, <1>5 DEF Becomes, TInv
<1>7. n \notin announced /\ \A d \in announced : d \in Pids /\ d <= n
  <2>1. \A d \in announced : d \in Pids /\ d <= started
    BY <1>2 DEF Numbered
  <2>2. ~(n <= started) /\ \A d \in Pids : d <= started => d <= n
    BY Zenon, <1>2, PidNumber, NumberOrder
  <2> QED BY Zenon, <2>1, <2>2
<1>8. pidfile # None => pidfile.pid <= n
  <2>1. pidfile # None => pidfile.pid \in 0..Processes
    BY Zenon, StartedNumber DEF Types
  <2>2. pidfile # None => pidfile.pid \in Nat /\ pidfile.pid <= started
    BY Zenon, <1>2, <2>1, NumberPid DEF Numbered
  <2> QED BY Zenon, <1>2, <2>2, NumberOrder
<1>9. \A d \in Pids : pc'[d] = NotYet <=> n < d
  <2>1. ASSUME NEW d \in Pids, d # n PROVE started < d <=> n < d
    <3>1. started \in Nat /\ n \in Nat /\ d \in Nat /\ d # n /\ n = started + 1
      BY Zenon, <1>0, <1>2, <2>1, PidNumber
    <3> QED BY ONLY <3>1
  <2>2. ~(n < n) /\ pc'[n] # NotYet
    BY Zenon, <1>2, <1>3, NumberOrder DEF NotYet
  <2>3. \A d \in Pids : pc[d] = NotYet <=> started < d
    BY <1>2 DEF Numbered
  <2> QED BY Zenon, <1>3, <2>1, <2>2, <2>3
<1>10. Numbered'
  BY <1>1, <1>2, <1>7, <1>8, <1>9 DEF Numbered
<1>11. \A d \in Pids : Told(d)'
  BY Zenon, <1>1, <1>3 DEF TInv, Told, Serving, Ending, Exited
<1>12. \A d \in Pids : d <= started /\ Alive(d)' => Alive(d)
  BY Zenon, <1>2, <1>3, NumberOrder DEF Alive
<1>13. \A b \in Clients : b # c => Known(b)'
  BY Zenon, <1>1, <1>2, <1>6, <1>12, StaysKnown DEF Becomes
<1>14. client[c].pid \in Nat /\ client[c].pid <= n
  BY Zenon, <1>2, KnownNumbers, NumberOrder
<1>15. Known(c)'
  <2>1. client'[c] = k /\ started' = n /\ n <= n
    BY Zenon, <1>1, <1>2, <1>6, NumberOrder DEF Becomes
  <2> QED BY Zenon, <1>2, <1>5, <1>14, <2>1 DEF Known
<1>16. TInv'
  BY <1>6, <1>10, <1>11, <1>13, <1>15 DEF TInv, Becomes
<1>17. ASSUME InOrder' PROVE QInv'
  <2>1. InOrder
    BY Zenon, <1>1, <1>17 DEF InOrder
  <2>2. \A d \in Pids : ~Alive(d)
    BY <1>1, <2>1 DEF QInv, Meets
  <2>3. overlapped' = {}
    BY <1>1, <2>1, <2>2 DEF QInv, AllAlive
  <2>4. \A e \in Clients : e # c => At(e, "idle")'
    BY Zenon, <1>1, <1>6, <2>1 DEF QInv, Becomes, At
  <2>5. \A d \in Pids : Alive(d)' => d = n
    BY <1>3, <2>2 DEF Alive
  <2>6. Meets(c, n)' /\ ~At(c, "idle")'
    BY <1>1, <1>5, <1>6, <1>7 DEF Meets, Becomes, At
  <2> QED BY Zenon, <2>3, <2>4, <2>5, <2>6 DEF QInv
<1> QED BY Zenon, <1>16, <1>17 DEF QInv

(* A new command forgets what the last one told. *)
LEMMA CommandTells ==
  ASSUME IInv, TInv, QInv, NEW c \in Clients, NEW cmd \in {"start", "stop", "restart"}, Command(c, cmd)
  PROVE  TInv' /\ QInv'
<1>1. PICK k : k = [at |-> "pidfile", cmd |-> cmd, pid |-> 0, peer |-> 0, child |-> 0, ok |-> TRUE]
  BY Zenon
<1>2. /\ client' = [client EXCEPT ![c] = k]
      /\ UNCHANGED <<pc, started, announced, faulty, pidfile, unixsocket, overlapped, signalled>>
      /\ concurrent' = (concurrent \/ \E o \in Clients : ~At(o, "idle"))
  BY Zenon, <1>1 DEF Command, daemonVars
<1>3. k \in Knowledge /\ k.at = "pidfile" /\ k.pid = 0 /\ k.child = 0
  BY <1>1, BoundsAssumption DEF Knowledge, Phases
<1>4. Becomes(c, k)
  BY <1>2, <1>3 DEF Becomes, TInv
<1>5. started \in Nat /\ 0 <= started
  BY Zenon, StartedNumber
<1>6. Known(c)'
  BY Zenon, <1>2, <1>3, <1>4, <1>5 DEF Known, Becomes
<1>7. TInv'
  BY <1>2, <1>4, <1>6, ClientTells
<1>8. ASSUME InOrder' PROVE QInv'
  <2>1. InOrder /\ \A o \in Clients : At(o, "idle")
    BY Zenon, <1>2, <1>8 DEF InOrder
  <2>2. overlapped' = {} /\ \A d \in Pids : Alive(d) => pc[d] \in Serving
    BY Zenon, <1>2, <2>1 DEF QInv
  <2>3. \A o \in Clients : o # c => At(o, "idle")'
    BY Zenon, <1>4, <2>1 DEF Becomes, At
  <2>4. ~At(c, "idle")' /\ \A d \in Pids : Alive(d)' => Meets(c, d)'
    BY Zenon, <1>2, <1>3, <1>4, <2>2 DEF Becomes, At, Meets, Alive
  <2> QED BY Zenon, <2>2, <2>3, <2>4 DEF QInv
<1> QED BY Zenon, <1>7, <1>8 DEF QInv

(* Every step keeps what tinc has told, and the order of commands. *)
LEMMA NextTInv == IInv /\ TInv /\ QInv /\ [Next]_vars => TInv' /\ QInv'
<1> SUFFICES ASSUME IInv, TInv, QInv, [Next]_vars PROVE TInv' /\ QInv'
  OBVIOUS
<1>1. ASSUME NEW d \in Pids, tincd(d) PROVE TInv' /\ QInv'
  <2>1. PICK v : Moves(d, v)
    BY <1>1, SetupMoves, FilesMoves DEF tincd, setup_network, init_control
  <2> QED BY Zenon, <2>1, MoveTells, MoveInOrder
<1>2. ASSUME NEW d \in Pids, Crash(d) \/ Signal(d) PROVE TInv' /\ QInv'
  BY Zenon, <1>2, KillKeeps
<1>3. ASSUME NEW c \in Clients, tinc(c) PROVE TInv' /\ QInv'
  BY <1>3, ReadPidfileTells, CleanTells, ConnectTells, GreetingTells, StoppedTells, TerminateTells,
     FinishTells, StartTellsNext DEF tinc, connect_tincd, cmd_stop, cmd_start
<1>4. ASSUME NEW c \in Clients, NEW cmd \in {"start", "stop", "restart"}, Command(c, cmd) PROVE TInv' /\ QInv'
  BY <1>4, CommandTells
<1>5. CASE UNCHANGED vars
  <2>1. UNCHANGED <<pc, started, pidfile, unixsocket, announced, client, signalled, faulty, overlapped, concurrent>>
    BY <1>5 DEF vars
  <2>2. TInv'
    BY Zenon, <2>1 DEF TInv, Numbered, Told, Known, Alive
  <2>3. QInv'
    BY <2>1 DEF QInv, InOrder, At, Alive, Meets
  <2> QED BY Zenon, <2>2, <2>3
<1> QED BY <1>1, <1>2, <1>3, <1>4, <1>5 DEF Next

(* Every reachable state satisfies the three invariants. *)
LEMMA DaemonInvariant == Spec => [](IInv /\ TInv /\ QInv)
BY InitIInv, InitTInv, NextIInv, NextTInv, PTL DEF Spec

(* `tinc start' tells the truth, however many tincd and tinc processes there *)
(* are and wherever they die: if it succeeds, the tincd it started has cut   *)
(* its umbilical (cmd_start, main2); if it fails, that tincd is gone, for a  *)
(* fault of its own or because it met another.                               *)
THEOREM StartIsTold == Spec => []StartTells
<1>1. TInv => StartTells
  BY DEF TInv, Known, StartTells, At
<1> QED BY <1>1, DaemonInvariant, PTL

(* Commands that are given one after the other, without a SIGTERM from       *)
(* elsewhere, never make two tincd processes meet, and no tinc takes the     *)
(* files of a tincd that is there for stale: stop_tincd waits for the end of *)
(* the process, and connect_tincd reaches the one there is.                  *)
THEOREM CommandsInOrder == Spec => []OneAtATime
<1>1. QInv => OneAtATime
  BY DEF QInv, InOrder, OneAtATime
<1> QED BY <1>1, DaemonInvariant, PTL
=============================================================================
