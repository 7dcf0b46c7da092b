------------------------ MODULE CicapContainerProofs ------------------------
(***************************************************************************)
(* Proofs about CicapInit and about the container under its probe, for any *)
(* processes, numbers, paths and configurations, any number of dials and   *)
(* of faults.                                                              *)
(***************************************************************************)
EXTENDS CicapContainer, TLAPS

\* A process that is about to dial has tries left; one that sleeps has used one.
DialsLeft ==
  \A p \in Procs : /\ pc[p] = "dial" => tries[p] < MaxTries
                   /\ pc[p] = "sleep" => tries[p] > 0
\* Who has yet to dial has neither tried nor waited.
Unspent ==
  \A p \in Procs : pc[p] = "pid" \/ (pc[p] = "down" /\ pc[Main] # "down") =>
                     tries[p] = 0 /\ elapsed[p] = 0
\* The second of the last dial counts before its pause does.
Waits ==
  /\ WaitBounds
  /\ \A p \in Procs : pc[p] = "sleep" => elapsed[p] \in (tries[p] - 1) .. (2 * tries[p] - 1)

\* Before the container's init has dealt with the pid file nobody else is there.
Alone == pc[Main] \in {"down", "pid"} => \A p \in Procs \ {Main} : pc[p] = "down"

TypeInv == TypeOK /\ DialsLeft /\ Unspent /\ Alone

\* Both readings of the configuration name a pid file.
LEMMA ConfigPaths == ASSUME NEW c \in Configs PROVE PidPath(c) \in Paths /\ UsedPath(c) \in Paths
<1>1. c.directives \in Seq(Paths)
  BY ConfigsAssumption DEF ConfigType
<1>2. CASE c.directives # <<>>
  <2>1. Len(c.directives) \in Nat /\ Len(c.directives) > 0
    BY <1>1, <1>2
  <2>2. c.directives[1] \in Paths /\ c.directives[Len(c.directives)] \in Paths
    BY <1>1, <2>1
  <2> QED
    BY <2>2, PathsAssumption DEF PidPath, UsedPath
<1>3. CASE c.directives = <<>>
  BY <1>3, PathsAssumption DEF PidPath, UsedPath
<1> QED
  BY <1>2, <1>3

\* The steps that leave the pid files, the configuration and the numbering alone.
Plain(p) == Dial(p) \/ Sleep(p) \/ FailToStart(p) \/ Kill(p)

\* A plain step moves its process on in its wait, or ends it.
LEMMA PlainStep ==
  ASSUME NEW p \in Procs, Plain(p)
  PROVE  /\ UNCHANGED <<pidOf, eff, conf, pidfile, runDir>>
         /\ Up(p)
         /\ \/ End(p)
            \/ pc[p] \in {"dial", "sleep"} /\ \E l \in {"dial", "sleep", "exec"} : Go(p, l)
<1>1. CASE Dial(p)
  BY <1>1 DEF Dial, Up
<1>2. CASE Sleep(p)
  BY <1>2 DEF Sleep, Up
<1>3. CASE FailToStart(p) \/ Kill(p)
  BY <1>3 DEF FailToStart, Kill, Up
<1> QED
  BY <1>1, <1>2, <1>3, Plain(p) DEF Plain

\* Every variable keeps its type, the number of tries its bound.
LEMMA TypeInitially == Init => TypeInv
<1> SUFFICES ASSUME Init PROVE TypeInv
  OBVIOUS
<1>1. runDir \in BOOLEAN
  BY Zenon DEF Init
<1>2. eff \in [Procs -> Paths]
  BY ConfigPaths DEF Init
<1>3. faults \in 0..MaxFaults /\ tries \in [Procs -> 0..MaxTries]
  BY FaultsAssumption, TriesAssumption DEF Init
<1> QED
  BY <1>1, <1>2, <1>3 DEF Init, TypeInv, TypeOK, DialsLeft, Unspent, Alone, Labels, Procs

\* Every step keeps the types.
LEMMA TypeKeeps == TypeInv /\ [Next]_vars => TypeInv'
<1> SUFFICES ASSUME TypeInv, [Next]_vars PROVE TypeInv'
  OBVIOUS
<1> USE FaultsAssumption, TriesAssumption DEF TypeInv, TypeOK, DialsLeft, Unspent, Alone, waits
<1>0. Main \in Procs
  BY DEF Procs
<1> USE DEF Labels
<1>1. CASE StartContainer
  BY <1>0, <1>1, ConfigPaths DEF StartContainer, Go
<1>2. CASE EditConfig
  BY <1>2 DEF EditConfig, Fault
<1>3. CASE FixRunDir \/ ClamdChanges
  BY <1>3 DEF FixRunDir, ClamdChanges
<1>4. ASSUME NEW p \in Procs, PodmanExec(p) PROVE TypeInv'
  BY <1>0, <1>4 DEF PodmanExec, Go
<1>5. ASSUME NEW p \in Procs, Kill(p) \/ Stop(p) PROVE TypeInv'
  BY <1>0, <1>5 DEF Kill, Stop, Fault, End, Up, Running
<1>6. ASSUME NEW p \in Procs, RemoveStalePid(p) PROVE TypeInv'
  BY <1>0, <1>6 DEF RemoveStalePid, End, Go
<1>7. ASSUME NEW p \in Procs, Dial(p) PROVE TypeInv'
  BY <1>0, <1>7 DEF Dial, Go
<1>8. ASSUME NEW p \in Procs, Sleep(p) PROVE TypeInv'
  BY <1>0, <1>8 DEF Sleep, Pause, TriesLeft, End, Go
<1>9. ASSUME NEW p \in Procs, StartCicap(p) PROVE TypeInv'
  BY <1>0, <1>9, ConfigPaths DEF StartCicap, Go, Numberings
<1>10. ASSUME NEW p \in Procs, FailToStart(p) PROVE TypeInv'
  BY <1>0, <1>10 DEF FailToStart, NoFault, Fault, End
<1>11. CASE UNCHANGED vars
  BY <1>11 DEF vars
<1> QED
  BY <1>1, <1>2, <1>3, <1>4, <1>5, <1>6, <1>7, <1>8, <1>9, <1>10, <1>11 DEF Next, Run

\* The types and what they rest on hold in every state.
THEOREM TypeInvariance == Spec => []TypeInv
BY TypeInitially, TypeKeeps, PTL DEF Spec

\* Every variable keeps its type.
THEOREM TypeCorrect == Spec => []TypeOK
<1>1. TypeInv => TypeOK
  BY DEF TypeInv
<1> QED
  BY <1>1, TypeInvariance, PTL

\* A clamd that stays away is given up on after one to two seconds per dial:
\* 120 to 240 s as shipped.
THEOREM WaitsItsTime == Spec => []WaitBounds
<1>1. Init => Waits
  BY DEF Init, Waits, WaitBounds
<1>2. TypeInv /\ Waits /\ [Next]_vars => Waits'
  <2> SUFFICES ASSUME TypeInv, Waits, [Next]_vars PROVE Waits'
    OBVIOUS
  <2>0. /\ Main \in Procs /\ pc \in [Procs -> Labels]
        /\ tries \in [Procs -> Nat] /\ elapsed \in [Procs -> Nat]
    BY TriesAssumption DEF TypeInv, TypeOK, Procs
  <2> USE <2>0 DEF Waits, WaitBounds, waits
  <2>1. CASE StartContainer
    BY <2>1 DEF StartContainer, Go, TypeInv, Alone
  <2>2. CASE EditConfig \/ FixRunDir \/ ClamdChanges
    BY <2>2 DEF EditConfig, FixRunDir, ClamdChanges
  <2>3. ASSUME NEW p \in Procs, PodmanExec(p) \/ Kill(p) \/ Stop(p) PROVE Waits'
    BY <2>3 DEF PodmanExec, Kill, Stop, End, Go
  <2>4. ASSUME NEW p \in Procs, RemoveStalePid(p) PROVE Waits'
    BY <2>4 DEF RemoveStalePid, End, Go, TypeInv, Unspent
  <2>5. ASSUME NEW p \in Procs, Dial(p) PROVE Waits'
    BY <2>5 DEF Dial, Go
  <2>6. ASSUME NEW p \in Procs, Sleep(p) PROVE Waits'
    BY <2>6 DEF Sleep, Pause, End, Go
  <2>7. ASSUME NEW p \in Procs, StartCicap(p) \/ FailToStart(p) PROVE Waits'
    BY <2>7 DEF StartCicap, FailToStart, End, Go
  <2>8. CASE UNCHANGED vars
    BY <2>8 DEF vars
  <2> QED
    BY <2>1, <2>2, <2>3, <2>4, <2>5, <2>6, <2>7, <2>8 DEF Next, Run
<1>3. Waits => WaitBounds
  BY DEF Waits
<1> QED
  BY <1>1, <1>2, <1>3, TypeInvariance, PTL DEF Spec
-----------------------------------------------------------------------------
(***************************************************************************)
(* The pid file.                                                           *)
(***************************************************************************)

\* A live number is never the one an absent pid file stands for, and belongs to
\* one process.
LEMMA Numbered ==
  ASSUME TypeOK
  PROVE  /\ pidOf \in [Procs -> Pids] /\ NoPid \notin Pids
         /\ \A p, q \in Procs : pidOf[p] = pidOf[q] => p = q
  BY PidsAssumption DEF TypeOK, Numberings

\* No c-icap loses its pid file while it runs: only the container's init removes
\* one, before any c-icap runs, and none starts over a live number.
THEOREM PidKept == Spec => []RunningPidKept
<1>1. Init => RunningPidKept
  BY DEF Init, RunningPidKept, Running
<1>2. TypeInv /\ RunningPidKept /\ [Next]_vars => RunningPidKept'
  <2> SUFFICES ASSUME TypeInv, RunningPidKept, [Next]_vars PROVE RunningPidKept'
    OBVIOUS
  <2>0. /\ Main \in Procs /\ pc \in [Procs -> Labels] /\ eff \in [Procs -> Paths]
        /\ pidfile \in [Paths -> Pids \cup {NoPid}] /\ conf \in Configs
    BY DEF TypeInv, TypeOK, Procs
  <2> USE <2>0 DEF RunningPidKept, Running
  <2>1. CASE StartContainer
    BY <2>1 DEF StartContainer, Go, TypeInv, Alone
  <2>2. CASE EditConfig \/ FixRunDir \/ ClamdChanges
    BY <2>2 DEF EditConfig, FixRunDir, ClamdChanges
  <2>3. ASSUME NEW p \in Procs, PodmanExec(p) PROVE RunningPidKept'
    BY <2>3 DEF PodmanExec, Go
  <2>4. ASSUME NEW p \in Procs, Plain(p) PROVE RunningPidKept'
    BY <2>4, PlainStep DEF End, Go
  <2>5. ASSUME NEW p \in Procs, Stop(p) PROVE RunningPidKept'
    BY <2>5, Numbered DEF Stop, End, TypeInv
  <2>6. ASSUME NEW p \in Procs, RemoveStalePid(p) PROVE RunningPidKept'
    BY <2>6 DEF RemoveStalePid, IsMainProcess, End, Go, TypeInv, Alone
  <2>7. ASSUME NEW p \in Procs, StartCicap(p) PROVE RunningPidKept'
    <3>1. \A q \in Procs : Running(q) => eff[q] # UsedPath(conf)
      BY <2>7 DEF StartCicap, CanStart, Alive, Up
    <3> QED
      BY <2>7, <3>1, ConfigPaths DEF StartCicap, Go
  <2>8. CASE UNCHANGED vars
    BY <2>8 DEF vars
  <2> QED
    BY <2>1, <2>2, <2>3, <2>4, <2>5, <2>6, <2>7, <2>8 DEF Next, Run, Plain
<1> QED
  BY <1>1, <1>2, TypeInvariance, PTL DEF Spec

\* From the container's pid step to its c-icap the pid file is absent, or was
\* written by the c-icap of an exec that runs on it or has ended.
Written(n, path) ==
  n = NoPid \/ \E q \in Procs \ {Main} :
                 pidOf[q] = n /\ (pc[q] = "exited" \/ (Running(q) /\ eff[q] = path))
Cleared ==
  pc[Main] \in {"dial", "sleep", "exec"} /\ SamePath(conf) =>
    Written(pidfile[UsedPath(conf)], UsedPath(conf))

\* Only the container's init clears the file, and only its own c-icap ends the wait.
LEMMA ClearedKeeps ==
  ASSUME ~EditDuringBoot, TypeInv, Cleared, [Next]_vars PROVE Cleared'
<1>0. /\ Main \in Procs /\ pc \in [Procs -> Labels] /\ eff \in [Procs -> Paths]
      /\ pidfile \in [Paths -> Pids \cup {NoPid}] /\ conf \in Configs
  BY DEF TypeInv, TypeOK, Procs
<1> USE <1>0 DEF Cleared, Written, Running, SamePath
<1>1. CASE StartContainer
  BY <1>1 DEF StartContainer, Go
<1>2. CASE EditConfig
  BY <1>2 DEF EditConfig
<1>3. CASE FixRunDir \/ ClamdChanges
  BY <1>3 DEF FixRunDir, ClamdChanges
<1>4. ASSUME NEW p \in Procs, PodmanExec(p) PROVE Cleared'
  BY <1>4 DEF PodmanExec, Go
<1>5. ASSUME NEW p \in Procs, Plain(p) PROVE Cleared'
  BY <1>5, PlainStep DEF End, Go
<1>6. ASSUME NEW p \in Procs, Stop(p) PROVE Cleared'
  BY <1>6 DEF Stop, End
<1>7. ASSUME NEW p \in Procs, RemoveStalePid(p) PROVE Cleared'
  BY <1>7, ConfigPaths DEF RemoveStalePid, IsMainProcess, End, Go
<1>8. ASSUME NEW p \in Procs, StartCicap(p) PROVE Cleared'
  BY <1>8, ConfigPaths DEF StartCicap, Go
<1>9. CASE UNCHANGED vars
  BY <1>9 DEF vars
<1> QED
  BY <1>1, <1>2, <1>3, <1>4, <1>5, <1>6, <1>7, <1>8, <1>9 DEF Next, Run, Plain

\* The number in the pid file is accounted for in every state.
LEMMA ClearedInvariance == ASSUME ~EditDuringBoot PROVE Spec => []Cleared
<1>1. Init => Cleared
  BY DEF Init, Cleared, Procs
<1>2. TypeInv /\ Cleared /\ [Next]_vars => Cleared'
  BY ClearedKeeps
<1> QED
  BY <1>1, <1>2, TypeInvariance, PTL DEF Spec

\* When the configuration stays as it is while the container starts, c-icap is
\* never refused by a stale pid, however long it waited for clamd.
THEOREM NeverFalselyRefused == ASSUME ~EditDuringBoot PROVE Spec => []NoFalseRefusal
<1>1. TypeInv /\ Cleared => NoFalseRefusal
  <2> SUFFICES ASSUME TypeInv, Cleared, pc[Main] = "exec", SamePath(conf),
                      NEW p \in Procs, Up(p), pidOf[p] = pidfile[UsedPath(conf)]
               PROVE  \E q \in Procs \ {Main} :
                         /\ Running(q) /\ eff[q] = UsedPath(conf)
                         /\ pidOf[q] = pidfile[UsedPath(conf)]
    BY DEF NoFalseRefusal, Alive
  <2> QED
    BY Numbered DEF Cleared, Written, Up, TypeInv
<1> QED
  BY <1>1, ClearedInvariance, TypeInvariance, PTL
-----------------------------------------------------------------------------
(***************************************************************************)
(* The promise of ServiceLifecycle, in a container that nobody execs into. *)
(***************************************************************************)

\* The init and c-icap agree on the pid file, and the operator leaves the
\* configuration alone while the container starts.
Undisturbed == Execs = {} /\ ~EditDuringBoot /\ \A c \in Configs : SamePath(c)

\* The state of the promise at each label of Main.
Waiting == {"pid", "dial", "sleep"}
Abstract ==
  /\ pc[Main] = "down" => LifecyclePhase = "down"
  /\ pc[Main] \in Waiting => LifecyclePhase = "preparing"
  /\ pc[Main] = "exec" => LifecyclePhase = "launched"
  /\ pc[Main] = "running" => LifecyclePhase = "running" /\ LifecycleLock = "held"
  /\ pc[Main] # "running" =>
       LifecycleLock = IF pidfile[UsedPath(conf)] = NoPid THEN "free" ELSE "stale"
  /\ pc[Main] \in {"dial", "sleep", "exec"} => LifecycleLock = "free"

\* The state of the promise, read off the invariants.
LEMMA AbstractState ==
  ASSUME Undisturbed, TypeInv, RunningPidKept, Cleared PROVE Abstract
<1>0. Main \in Procs /\ Procs = {Main} /\ conf \in Configs /\ pidOf[Main] # NoPid
  BY Numbered DEF Procs, Undisturbed, TypeInv, TypeOK
<1>1. pc[Main] = "down" => LifecyclePhase = "down"
  BY DEF LifecyclePhase
<1>2. pc[Main] \in Waiting => LifecyclePhase = "preparing"
  BY DEF LifecyclePhase, Waiting
<1>3. pc[Main] = "exec" => LifecyclePhase = "launched"
  BY DEF LifecyclePhase
<1>4. pc[Main] = "running" => LifecyclePhase = "running" /\ LifecycleLock = "held"
  BY <1>0 DEF LifecyclePhase, LifecycleLock, RunningPidKept, Running
<1>5. pc[Main] # "running" =>
        LifecycleLock = IF pidfile[UsedPath(conf)] = NoPid THEN "free" ELSE "stale"
  BY DEF LifecycleLock, Running
<1>6. pc[Main] \in {"dial", "sleep", "exec"} => pidfile[UsedPath(conf)] = NoPid
  BY <1>0 DEF Cleared, Written, Undisturbed
<1> QED
  BY <1>1, <1>2, <1>3, <1>4, <1>5, <1>6 DEF Abstract

\* In such a container the entrypoint implements the promise: c-icap is only
\* launched once its pid file is free, and keeps it while it runs.
THEOREM Implementation == ASSUME Undisturbed PROVE Spec => ImplementsLifecycle
<1>1. Init => Lifecycle!Init
  BY ConfigPaths DEF Init, Lifecycle!Init, LifecyclePhase, LifecycleLock, Running, Procs
<1>2. TypeInv /\ Abstract /\ Abstract' /\ [Next]_vars => [Lifecycle!Next]_(Lifecycle!vars)
  <2> SUFFICES ASSUME TypeInv, Abstract, Abstract', [Next]_vars
               PROVE  Lifecycle!Next \/ UNCHANGED Lifecycle!vars
    OBVIOUS
  <2>0. /\ Procs = {Main} /\ pc \in [Procs -> Labels] /\ conf \in Configs
        /\ pidfile \in [Paths -> Pids \cup {NoPid}] /\ ~EditDuringBoot
        /\ PidPath(conf) = UsedPath(conf)
    BY DEF TypeInv, TypeOK, Procs, Undisturbed, SamePath
  <2> USE <2>0 DEF Abstract
  <2>1. CASE StartContainer
    <3>1. pc[Main] = "down" /\ pc'[Main] = "pid" /\ UNCHANGED <<conf, pidfile>>
      BY <2>1 DEF StartContainer, Go
    <3> QED
      BY <3>1 DEF Waiting, Lifecycle!Next, Lifecycle!Boot
  <2>2. CASE EditConfig
    <3>1. UNCHANGED pc /\ pc[Main] \in {"down", "running"}
      BY <2>2 DEF EditConfig
    <3>2. CASE pc[Main] = "down"
      BY <3>1, <3>2 DEF Lifecycle!Next, Lifecycle!Repoint
    <3>3. CASE pc[Main] = "running"
      BY <3>1, <3>3 DEF Lifecycle!vars
    <3> QED
      BY <3>1, <3>2, <3>3
  <2>3. CASE FixRunDir \/ ClamdChanges
    BY <2>3 DEF FixRunDir, ClamdChanges, LifecyclePhase, LifecycleLock, Running, Lifecycle!vars
  <2>4. CASE Plain(Main)
    <3>0. /\ UNCHANGED <<conf, pidfile>>
          /\ pc[Main] \in Waiting \cup {"exec", "running"}
          /\ \/ pc'[Main] = "down"
             \/ pc[Main] \in {"dial", "sleep"} /\ pc'[Main] \in {"dial", "sleep", "exec"}
      BY <2>4, PlainStep DEF Go, End, Up, Labels, Waiting
    <3>1. CASE pc'[Main] = "down"
      <4>1. CASE pc[Main] = "running"
        BY <3>1, <4>1 DEF Lifecycle!Next, Lifecycle!Finish
      <4>2. CASE pc[Main] # "running"
        BY <3>0, <3>1, <4>2 DEF Lifecycle!Next, Lifecycle!Abort
      <4> QED
        BY <4>1, <4>2
    <3>2. CASE pc[Main] \in {"dial", "sleep"} /\ pc'[Main] = "exec"
      BY <3>2 DEF Waiting, Lifecycle!Next, Lifecycle!Launch
    <3>3. CASE pc[Main] \in {"dial", "sleep"} /\ pc'[Main] \in {"dial", "sleep"}
      BY <3>3 DEF Waiting, Lifecycle!vars
    <3> QED
      BY <3>0, <3>1, <3>2, <3>3
  <2>5. CASE RemoveStalePid(Main)
    <3>0. pc[Main] = "pid" /\ UNCHANGED conf /\ pc'[Main] \in {"down", "dial"}
      BY <2>5 DEF RemoveStalePid, IsMainProcess, Go, End
    <3>1. CASE pc'[Main] = "down"
      <4>1. UNCHANGED pidfile
        BY <2>5, <3>1 DEF RemoveStalePid, IsMainProcess, Go
      <4> QED
        BY <3>0, <3>1, <4>1 DEF Waiting, Lifecycle!Next, Lifecycle!Abort
    <3>2. CASE pc'[Main] = "dial"
      BY <3>0, <3>2 DEF Waiting, Lifecycle!Next, Lifecycle!Clear
    <3> QED
      BY <3>0, <3>1, <3>2
  <2>6. CASE StartCicap(Main)
    <3>1. pc[Main] = "exec" /\ pc'[Main] = "running"
      BY <2>6 DEF StartCicap, Go
    <3> QED
      BY <3>1 DEF Lifecycle!Next, Lifecycle!Acquire
  <2>7. CASE Stop(Main)
    <3>1. pc[Main] = "running" /\ pc'[Main] = "down"
      BY <2>7 DEF Stop, Running, End
    <3> QED
      BY <3>1 DEF Lifecycle!Next, Lifecycle!Finish
  <2>8. CASE PodmanExec(Main)
    BY <2>8 DEF PodmanExec
  <2>9. CASE UNCHANGED vars
    BY <2>9 DEF vars, LifecyclePhase, LifecycleLock, Running, Lifecycle!vars
  <2> QED
    BY <2>1, <2>2, <2>3, <2>4, <2>5, <2>6, <2>7, <2>8, <2>9 DEF Next, Run, Plain
<1>3. Spec => [](TypeInv /\ RunningPidKept /\ Cleared)
  BY TypeInvariance, PidKept, ClearedInvariance, PTL DEF Undisturbed
<1>4. TypeInv /\ RunningPidKept /\ Cleared => Abstract
  BY AbstractState
<1> QED
  BY <1>1, <1>2, <1>3, <1>4, PTL DEF Spec, ImplementsLifecycle, Lifecycle!Spec
-----------------------------------------------------------------------------
(***************************************************************************)
(* The container under its probe.                                          *)
(***************************************************************************)
P == INSTANCE HealthCheckProofs WITH
  ByLine  <- TRUE,
  up      <- pc[Main] # "down",
  serving <- Running(Main)

ContainerInv == TypeInv /\ P!ProbeInv

\* The probe of CicapContainer is the one HealthCheckProofs is about.
LEMMA SameProbe ==
  /\ Probe!Init => P!Init
  /\ Probe!Docker => P!Docker
  /\ Probe!Follow => P!Follow
  /\ UNCHANGED Probe!hvars => UNCHANGED P!hvars
BY DEF Probe!Init, P!Init, Probe!Docker, P!Docker, Probe!Follow, P!Follow,
   Probe!hvars, P!hvars, Probe!Fresh, P!Fresh, Probe!Ended, P!Ended, Probe!Step, P!Step,
   Probe!AnswersChange, P!AnswersChange, Probe!GraceEnds, P!GraceEnds,
   Probe!Begin, P!Begin, Probe!Connect, P!Connect, Probe!DialFails, P!DialFails,
   Probe!Receive, P!Receive, Probe!ReadFails, P!ReadFails, Probe!Tick, P!Tick,
   Probe!Finish, P!Finish, Probe!Judge, P!Judge, Probe!Idle, P!Idle,
   Probe!dialogue, P!dialogue, Probe!verdict, P!verdict, Probe!Manners, P!Manners,
   Probe!Deadline, P!Deadline, Probe!ReadLimit, P!ReadLimit,
   Probe!DialLimit, P!DialLimit, Probe!DialError, P!DialError,
   Probe!ReadsOn, P!ReadsOn, Probe!LineEnd, P!LineEnd,
   Probe!WordEnd, P!WordEnd, Probe!Retries, P!Retries

\* The container of c-icap is one that HealthCheck allows.
LEMMA CicapIsContainer == P!Follow => P!Container
  BY Zenon DEF P!Container, Running

\* Both invariants hold of the container under its probe.
THEOREM ContainerInvariance == ContainerSpec => []ContainerInv
<1>1. ContainerInit => ContainerInv
  <2> SUFFICES ASSUME ContainerInit PROVE P!ProbeInv
    BY TypeInitially DEF ContainerInit, ContainerInv
  <2>1. P!Init
    BY SameProbe, Zenon DEF ContainerInit
  <2> QED
    BY <2>1, P!Initially DEF P!IInv
<1>2. ASSUME ContainerInv, Next, Probe!Follow PROVE ContainerInv'
  <2>1. P!Container
    BY <1>2, SameProbe, CicapIsContainer, Zenon DEF ContainerInv
  <2> QED
    BY <1>2, <2>1, TypeKeeps, P!ContainerKeepsProbe, Zenon DEF ContainerInv
<1>3. ASSUME ContainerInv, UNCHANGED vars PROVE TypeInv' /\ UNCHANGED <<pc[Main] # "down", Running(Main)>>
  <2>1. TypeInv'
    BY <1>3, TypeKeeps, Zenon DEF ContainerInv
  <2>2. UNCHANGED pc
    BY <1>3 DEF vars
  <2>3. UNCHANGED <<pc[Main] # "down", Running(Main)>>
    BY <2>2, Zenon DEF Running
  <2> QED
    BY <2>1, <2>3
<1>4. ASSUME ContainerInv, Probe!Docker, UNCHANGED vars PROVE ContainerInv'
  BY <1>3, <1>4, SameProbe, P!DockerKeepsProbe, Zenon DEF ContainerInv
<1>5. ASSUME ContainerInv, UNCHANGED <<vars, Probe!hvars>> PROVE ContainerInv'
  <2>1. TypeInv' /\ UNCHANGED <<pc[Main] # "down", Running(Main)>>
    BY <1>3, <1>5, Zenon
  <2>2. P!ProbeInv'
    BY <1>5, <2>1, SameProbe, P!Unmoved, Zenon DEF ContainerInv
  <2> QED
    BY <2>1, <2>2 DEF ContainerInv
<1>6. ContainerInv /\ [ContainerNext]_<<vars, Probe!hvars>> => ContainerInv'
  BY <1>2, <1>4, <1>5 DEF ContainerNext
<1> QED
  BY <1>1, <1>6, PTL DEF ContainerSpec

\* The probe of c-icap ends by itself before Docker's timeout would kill it.
THEOREM ProbeEnds == ContainerSpec => []ProbeOK
<1>1. ContainerInv => ProbeOK
  BY Zenon DEF ContainerInv, P!ProbeInv, ProbeOK, P!ProbeOK, Probe!ProbeOK, Probe!Manners, P!Manners,
     Probe!Timeout, P!Timeout, Probe!LineEnd, P!LineEnd, Probe!Retries, P!Retries
<1> QED
  BY <1>1, ContainerInvariance, PTL
=============================================================================
