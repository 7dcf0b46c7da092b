----------------------------- MODULE CicapInit -----------------------------
(***************************************************************************)
(* The entrypoint of the c-icap container, c-icap/init.go: the stale pid   *)
(* file, the wait for clamd and the c-icap it execs.  Main, Execs and the  *)
(* life of the container are those of SquidInit; c-icap, clamd and podman  *)
(* are modelled from how init.go uses them.                                *)
(***************************************************************************)
EXTENDS Naturals, Sequences

CONSTANTS
  Main, Execs,   \* the init started by tini, those started by podman exec
  Pids, NoPid,   \* process numbers; content of an absent pid file
  Paths,         \* pid files
  DefaultPid,    \* the one init.go falls back on
  Configs,       \* configurations the operator may mount
  EditDuringBoot,\* may the configuration change before c-icap runs?
  MaxTries,      \* dials before the entrypoint gives up: 120
  MaxFaults      \* bound: kills, stops and edits

Procs == {Main} \cup Execs

\* A configuration file: can it be read, and the paths of its PidFile directives.
ConfigType == [readable : BOOLEAN, directives : Seq(Paths)]

AlwaysDefault(c) == DefaultPid  \* mutant: the configuration is not read

\* The init takes the first directive, c-icap the last one it reads.
PidPath(c) ==
  IF c.readable /\ c.directives # <<>> THEN c.directives[1] ELSE DefaultPid
UsedPath(c) ==
  IF c.directives # <<>> THEN c.directives[Len(c.directives)] ELSE DefaultPid

ASSUME ProcsAssumption == Main \notin Execs
ASSUME PidsAssumption == NoPid \notin Pids
ASSUME PathsAssumption == DefaultPid \in Paths
ASSUME ConfigsAssumption == Configs \subseteq ConfigType
ASSUME BootAssumption == EditDuringBoot \in BOOLEAN
ASSUME TriesAssumption == MaxTries \in Nat \ {0}
ASSUME FaultsAssumption == MaxFaults \in Nat

VARIABLES
  pc,         \* where each process is
  pidOf,      \* the number of each process in the current pid namespace
  eff,        \* the pid file each running c-icap uses
  conf,       \* the configuration file now
  pidfile,    \* content of each pid file
  runDir,     \* can the c-icap user write to /run/c-icap?
  clamd,      \* what a dial to clamd meets
  tries,      \* failed dials of each init
  elapsed,    \* seconds each init has waited
  faults      \* faults so far

waits == <<tries, elapsed>>
vars == <<pc, pidOf, eff, conf, pidfile, runDir, clamd, tries, elapsed, faults>>

Labels == {"down", "pid", "dial", "sleep", "exec", "running", "exited"}
Up(p) == pc[p] \notin {"down", "exited"}
Running(p) == pc[p] = "running"
Alive(n) == \E p \in Procs : Up(p) /\ pidOf[p] = n
Numberings == {f \in [Procs -> Pids] : \A p, q \in Procs : f[p] = f[q] => p = q}

Init ==
  /\ pc = [p \in Procs |-> "down"]
  /\ pidOf \in Numberings
  /\ conf \in Configs
  /\ eff = [p \in Procs |-> UsedPath(conf)]
  /\ pidfile = [f \in Paths |-> NoPid]
  /\ runDir \in BOOLEAN
  /\ clamd = "silent"
  /\ tries = [p \in Procs |-> 0]
  /\ elapsed = [p \in Procs |-> 0]
  /\ faults = 0

Go(p, label) == pc' = [pc EXCEPT ![p] = label]
End(p) == pc' = IF p = Main THEN [q \in Procs |-> "down"]
                            ELSE [pc EXCEPT ![p] = "exited"]
NoFault == UNCHANGED faults
Fault == faults < MaxFaults /\ faults' = faults + 1
-----------------------------------------------------------------------------
(***************************************************************************)
(* The container, its operator and clamd.                                  *)
(***************************************************************************)
StartContainer ==
  /\ pc[Main] = "down"
  /\ Go(Main, "pid")
  /\ pidOf' \in Numberings
  /\ eff' = [p \in Procs |-> UsedPath(conf)]
  /\ tries' = [p \in Procs |-> 0]
  /\ elapsed' = [p \in Procs |-> 0]
  /\ UNCHANGED <<conf, pidfile, runDir, clamd, faults>>

\* Not in the first instants of the container, when Main has yet to remove
\* the pid file: the wait for clamd lasts minutes.
PodmanExec(p) ==
  /\ p # Main
  /\ pc[p] = "down"
  /\ pc[Main] \notin {"down", "pid"}
  /\ Go(p, "pid")
  /\ UNCHANGED <<pidOf, eff, conf, pidfile, runDir, clamd, waits, faults>>

EditConfig ==
  /\ Fault
  /\ EditDuringBoot \/ pc[Main] \in {"down", "running"}
  /\ conf' \in Configs \ {conf}
  /\ UNCHANGED <<pc, pidOf, eff, pidfile, runDir, clamd, waits>>

FixRunDir ==
  /\ ~runDir
  /\ runDir' = TRUE
  /\ UNCHANGED <<pc, pidOf, eff, conf, pidfile, clamd, waits, faults>>

\* clamd's host is unreachable, refuses, or clamd accepts connections.
ClamdChanges ==
  /\ clamd' \in {"silent", "refusing", "listening"} \ {clamd}
  /\ UNCHANGED <<pc, pidOf, eff, conf, pidfile, runDir, waits, faults>>

Kill(p) ==
  /\ Up(p)
  /\ Fault
  /\ End(p)
  /\ UNCHANGED <<pidOf, eff, conf, pidfile, runDir, clamd, waits>>

\* SIGTERM: c-icap unlinks its pid file.
Stop(p) ==
  /\ Running(p)
  /\ Fault
  /\ End(p)
  /\ pidfile' = [pidfile EXCEPT ![eff[p]] = NoPid]
  /\ UNCHANGED <<pidOf, eff, conf, runDir, clamd, waits>>
-----------------------------------------------------------------------------
(***************************************************************************)
(* The entrypoint.                                                         *)
(***************************************************************************)
AnyProcess(p) == TRUE           \* mutant: no test of the parent
NoProcess(p) == FALSE           \* mutant: the file is never removed
IsMainProcess(p) == p = Main    \* os.Getppid() == 1: the parent is tini

RemoveStalePid(p) ==
  /\ pc[p] = "pid"
  /\ IF ~IsMainProcess(p)
       THEN Go(p, "dial") /\ UNCHANGED pidfile
       ELSE IF pidfile[PidPath(conf)] # NoPid /\ ~runDir
              THEN End(p) /\ UNCHANGED pidfile
              ELSE Go(p, "dial") /\ pidfile' = [pidfile EXCEPT ![PidPath(conf)] = NoPid]
  /\ UNCHANGED <<pidOf, eff, conf, runDir, clamd, waits, faults>>

\* A refused dial fails at once, an unanswered one after a second.
Dial(p) ==
  /\ pc[p] = "dial"
  /\ IF clamd = "listening"
       THEN Go(p, "exec") /\ UNCHANGED waits
       ELSE /\ Go(p, "sleep")
            /\ tries' = [tries EXCEPT ![p] = @ + 1]
            /\ elapsed' = [elapsed EXCEPT ![p] = IF clamd = "silent" THEN @ + 1 ELSE @]
  /\ UNCHANGED <<pidOf, eff, conf, pidfile, runDir, clamd, faults>>

NoPause == 0                    \* mutant: the loop without its sleep
Pause == 1

OneMoreTry(p) == tries[p] <= MaxTries     \* mutant: i <= 120
TriesLeft(p) == tries[p] < MaxTries

Sleep(p) ==
  /\ pc[p] = "sleep"
  /\ elapsed' = [elapsed EXCEPT ![p] = @ + Pause]
  /\ IF TriesLeft(p) THEN Go(p, "dial") ELSE End(p)
  /\ UNCHANGED <<pidOf, eff, conf, pidfile, runDir, clamd, tries, faults>>

\* c-icap leaves when the number in its pid file is that of a live process
\* ("c-icap server already running!"), or when it cannot write the file.
CanStart == conf.readable /\ runDir /\ ~Alive(pidfile[UsedPath(conf)])

StartCicap(p) ==
  /\ pc[p] = "exec"
  /\ CanStart
  /\ eff' = [eff EXCEPT ![p] = UsedPath(conf)]
  /\ pidfile' = [pidfile EXCEPT ![UsedPath(conf)] = pidOf[p]]
  /\ Go(p, "running")
  /\ UNCHANGED <<pidOf, conf, runDir, clamd, waits, faults>>

FailToStart(p) ==
  /\ pc[p] = "exec"
  /\ \/ ~CanStart /\ NoFault
     \/ Fault
  /\ End(p)
  /\ UNCHANGED <<pidOf, eff, conf, pidfile, runDir, clamd, waits>>
-----------------------------------------------------------------------------
Run(p) == RemoveStalePid(p) \/ Dial(p) \/ Sleep(p) \/ StartCicap(p) \/ FailToStart(p)

Next ==
  \/ StartContainer \/ EditConfig \/ FixRunDir \/ ClamdChanges
  \/ \E p \in Procs : Run(p) \/ PodmanExec(p) \/ Kill(p) \/ Stop(p)

Spec == Init /\ [][Next]_vars

\* The processes run and the restart policy starts the container again.
Fairness == WF_vars(StartContainer) /\ WF_vars(Run(Main))
-----------------------------------------------------------------------------
(***************************************************************************)
(* Properties.                                                             *)
(***************************************************************************)

\* Every variable keeps its type.
TypeOK ==
  /\ pc \in [Procs -> Labels]
  /\ pidOf \in Numberings
  /\ eff \in [Procs -> Paths]
  /\ conf \in Configs
  /\ pidfile \in [Paths -> Pids \cup {NoPid}]
  /\ runDir \in BOOLEAN
  /\ clamd \in {"silent", "refusing", "listening"}
  /\ tries \in [Procs -> 0..MaxTries]
  /\ elapsed \in [Procs -> Nat]
  /\ faults \in 0..MaxFaults

\* "already running" is never misleading (init.go:113-121, 175-177): however
\* long the wait for clamd was, a live number that the container's c-icap finds
\* in its pid file is that of a c-icap that runs on this file; unless the init
\* removed another file, which takes several PidFile directives.
SamePath(c) == PidPath(c) = UsedPath(c)
NoFalseRefusal ==
  pc[Main] = "exec" /\ SamePath(conf) /\ Alive(pidfile[UsedPath(conf)]) =>
    \E q \in Procs \ {Main} : Running(q) /\ eff[q] = UsedPath(conf)
                             /\ pidOf[q] = pidfile[UsedPath(conf)]

\* No c-icap loses its pid file while it runs, whatever other inits do.
RunningPidKept ==
  \A p \in Procs : Running(p) => pidfile[eff[p]] = pidOf[p]

\* At each dial the entrypoint has waited one to two seconds per failed dial,
\* so it gives up on clamd after 120 s at the least ("clamd injoignable apres
\* 120s", init.go:140) and 240 s at the most.
WaitBounds ==
  \A p \in Procs : pc[p] = "dial" => elapsed[p] \in tries[p] .. 2 * tries[p]

\* Once clamd listens for good, a readable configuration that leaves no doubt
\* on its pid file and a writable run directory are enough for c-icap to run for
\* good: neither an exhausted wait nor a stale pid file makes the container loop.
Recovers ==
  <>[](clamd = "listening" /\ conf.readable /\ SamePath(conf) /\ runDir) => <>[]Running(Main)

\* What the entrypoint promises of the service, ServiceLifecycle: the phase of
\* Main, and the pid file its c-icap uses or the next one would use.
LifecyclePhase ==
  CASE pc[Main] = "down"    -> "down"
    [] pc[Main] = "exec"    -> "launched"
    [] pc[Main] = "running" -> "running"
    [] OTHER                -> "preparing"

LifecycleLock ==
  LET content == pidfile[IF Running(Main) THEN eff[Main] ELSE UsedPath(conf)]
  IN  IF content = NoPid THEN "free"
      ELSE IF Running(Main) /\ content = pidOf[Main] THEN "held" ELSE "stale"

Lifecycle == INSTANCE ServiceLifecycle WITH phase <- LifecyclePhase, lock <- LifecycleLock

\* The entrypoint implements the promise.
ImplementsLifecycle == Lifecycle!Spec
=============================================================================
