------------------------ MODULE SquidContainerProofs ------------------------
(***************************************************************************)
(* Theorems about the three modes of squid's init: the entrypoint          *)
(* (SquidInit) for every set of processes, numbers, paths and              *)
(* configurations and every number of faults, its container under the      *)
(* health check (SquidContainer), and --setup-dirs (SetupDirs) for every   *)
(* table of directories that is sound.                                     *)
(***************************************************************************)
EXTENDS SquidContainer, SetupDirs, TLAPS

USE DEF Kinds

\* Every variable keeps its type, whatever the processes, configurations and
\* faults.
THEOREM TypeCorrect == Spec => []TypeOK
<1>1. Init => TypeOK
  <2> SUFFICES ASSUME Init PROVE TypeOK
    OBVIOUS
  <2>1. mime \in BOOLEAN
    BY DEF Init
  <2>2. faults \in 0..MaxFaults
    BY FaultsAssumption DEF Init
  <2>3. /\ pc \in [Procs -> Labels] /\ pidOf \in Numberings
        /\ loaded \in [Procs -> Configs] /\ conf \in Configs
        /\ pidfile \in [Paths -> Pids \cup {NoPid}]
    BY DEF Init, Labels
  <2>4. /\ vol \in [Volumes -> {"ok", "fixable", "denied"}]
        /\ db \in {"absent", "partial", "ready"}
        /\ spool \in [Kinds -> {"empty", "partial", "complete"}]
    BY DEF Init
  <2> QED
    BY <2>1, <2>2, <2>3, <2>4 DEF TypeOK
<1>2. TypeOK /\ [Next]_vars => TypeOK'
  <2> SUFFICES ASSUME TypeOK, [Next]_vars PROVE TypeOK'
    OBVIOUS
  <2> USE FaultsAssumption DEF TypeOK
  <2>0. /\ Main \in Procs
        /\ InitLabels \subseteq Labels /\ SquidLabels \subseteq Labels
        /\ "down" \in Labels /\ "exited" \in Labels
    BY DEF Procs, Labels
  <2>1. CASE StartContainer
    BY <2>0, <2>1 DEF StartContainer, Go, InitLabels
  <2>2. CASE EditConfig
    BY <2>2 DEF EditConfig, Fault
  <2>3. ASSUME NEW v \in Volumes, FixVolume(v) PROVE TypeOK'
    BY <2>3 DEF FixVolume
  <2>4. ASSUME NEW p \in Procs, PodmanExec(p) PROVE TypeOK'
    BY <2>0, <2>4 DEF PodmanExec, Go, InitLabels
  <2>5. ASSUME NEW p \in Procs, Kill(p) \/ Stop(p) \/ Serve(p) \/ Fatal(p) PROVE TypeOK'
    BY <2>0, <2>5 DEF Kill, Stop, Serve, Fatal, Fault, End, Go, WithoutPidFile, SquidLabels
  <2>6. ASSUME NEW p \in Procs, LinkMime(p) \/ ReadConf(p) \/ LookForDb(p) \/ LookForCache(p)
        PROVE TypeOK'
    BY <2>0, <2>6 DEF LinkMime, ReadConf, LookForDb, LookForCache, WithoutCacheInit, Go, End, InitLabels
  <2>7. ASSUME NEW p \in Procs, CheckSslDir(p) \/ CheckSpool(p) PROVE TypeOK'
    BY <2>0, <2>7 DEF CheckSslDir, CheckSpool, EnsureWritable, Go, End, InitLabels
  <2>8. ASSUME NEW p \in Procs, RemoveDb(p) \/ MakeDb(p) \/ FillDb(p) PROVE TypeOK'
    BY <2>0, <2>8 DEF RemoveDb, AfterRemoveAll, MakeDb, FillDb, NoFault, Fault, Go, End, InitLabels
  <2>9. ASSUME NEW p \in Procs, CreateCache(p) \/ FinishCache(p) PROVE TypeOK'
    BY <2>0, <2>9 DEF CreateCache, FinishCache, NoFault, Fault, Go, InitLabels
  <2>10. ASSUME NEW p \in Procs, RemoveStalePid(p) \/ ParseCheck(p) PROVE TypeOK'
    BY <2>0, <2>10 DEF RemoveStalePid, ParseCheck, Go, End, InitLabels
  <2>11. ASSUME NEW p \in Procs, StartSquid(p) \/ FailToStart(p) PROVE TypeOK'
    BY <2>0, <2>11 DEF StartSquid, FailToStart, NoFault, Fault, Go, End, SquidLabels, Numberings
  <2>12. CASE UNCHANGED vars
    BY <2>12 DEF vars
  <2> QED
    BY <2>1, <2>2, <2>3, <2>4, <2>5, <2>6, <2>7, <2>8, <2>9, <2>10, <2>11, <2>12 DEF Next, Run
<1> QED
  BY <1>1, <1>2, PTL DEF Spec
-----------------------------------------------------------------------------
(***************************************************************************)
(* The pid file.                                                           *)
(***************************************************************************)

\* The steps that leave the pid files, the configurations and the numbering
\* alone: all but the ones the proofs below look at one by one.
Plain(p) ==
  \/ LinkMime(p) \/ CheckSslDir(p) \/ LookForDb(p) \/ RemoveDb(p) \/ MakeDb(p)
  \/ FillDb(p) \/ LookForCache(p) \/ CheckSpool(p) \/ CreateCache(p)
  \/ FinishCache(p) \/ ParseCheck(p) \/ FailToStart(p) \/ Kill(p)

\* A plain step of a process moves it to a later label of the init, past the
\* parse-check only from there, or ends it.
LEMMA PlainStep ==
  ASSUME NEW p \in Procs, Plain(p)
  PROVE  /\ UNCHANGED <<pidOf, loaded, conf, pidfile>>
         /\ Up(p)
         /\ \/ End(p)
            \/ /\ pc[p] = "mime"
               /\ Go(p, "read")
            \/ /\ pc[p] \in InitLabels \ {"mime", "read", "parse", "exec"}
               /\ \E l \in InitLabels \ {"mime", "read", "parse", "exec"} : Go(p, l)
            \/ /\ pc[p] = "parse"
               /\ Go(p, "exec")
<1>1. CASE LinkMime(p) \/ LookForDb(p) \/ LookForCache(p)
  BY <1>1 DEF LinkMime, LookForDb, LookForCache, WithoutCacheInit, Up, InitLabels
<1>2. CASE CheckSslDir(p) \/ CheckSpool(p)
  BY <1>2 DEF CheckSslDir, CheckSpool, EnsureWritable, Up, InitLabels
<1>3. CASE RemoveDb(p) \/ MakeDb(p) \/ FillDb(p)
  BY <1>3 DEF RemoveDb, MakeDb, FillDb, Up, InitLabels
<1>4. CASE CreateCache(p) \/ FinishCache(p)
  BY <1>4 DEF CreateCache, FinishCache, Up, InitLabels
<1>5. CASE ParseCheck(p)
  BY <1>5 DEF ParseCheck, Up
<1>6. CASE FailToStart(p) \/ Kill(p)
  BY <1>6 DEF FailToStart, Kill, Up
<1> QED
  BY <1>1, <1>2, <1>3, <1>4, <1>5, <1>6, Plain(p) DEF Plain

\* The configurations of the states are configurations.
LEMMA ConfigFields ==
  ASSUME TypeOK
  PROVE  /\ conf.eff \in Paths \cup {NoPath}
         /\ \A p \in Procs : loaded[p].eff \in Paths \cup {NoPath}
  BY ConfigsAssumption DEF TypeOK, ConfigType

\* Execs come after the container's squid serves, and no two squids share a
\* pid file: the inductive invariant.
LEMMA PidInvariant == ASSUME ~ExecDuringBoot PROVE Spec => [](ExecsAfterServe /\ PidInv)
<1> DEFINE Inv == ExecsAfterServe /\ PidInv
<1>1. Init => Inv
  BY DEF Init, ExecsAfterServe, PidInv, MainPidKept, Holds, SquidUp, SquidLabels, Procs
<1>2. TypeOK /\ Inv /\ [Next]_vars => Inv'
  <2> SUFFICES ASSUME TypeOK, Inv, [Next]_vars PROVE Inv'
    OBVIOUS
  <2>0. Main \in Procs /\ Main \notin Execs /\ Procs = {Main} \cup Execs
    BY ProcsAssumption DEF Procs
  <2> USE <2>0 DEF TypeOK, ExecsAfterServe, PidInv, MainPidKept, Holds, SquidUp, SquidLabels
  <2>1. CASE StartContainer
    BY <2>1 DEF StartContainer, Go
  <2>2. CASE EditConfig
    BY <2>2 DEF EditConfig
  <2>3. ASSUME NEW v \in Volumes, FixVolume(v) PROVE Inv'
    BY <2>3 DEF FixVolume
  <2>4. ASSUME NEW p \in Procs, PodmanExec(p) PROVE Inv'
    BY <2>4 DEF PodmanExec, Go
  <2>5. ASSUME NEW p \in Procs, Plain(p) PROVE Inv'
    <3>1. CASE p = Main
      BY <2>5, <3>1, PlainStep DEF End, Go, Up, InitLabels
    <3>2. CASE p \in Execs
      BY <2>5, <3>2, PlainStep DEF End, Go, Up, InitLabels
    <3> QED
      BY <3>1, <3>2
  <2>6. ASSUME NEW p \in Procs, ReadConf(p) PROVE Inv'
    BY <2>6 DEF ReadConf, End, Go
  <2>7. ASSUME NEW p \in Procs, RemoveStalePid(p) PROVE Inv'
    BY <2>7 DEF RemoveStalePid, IsMainProcess, End, Go
  <2>8. ASSUME NEW p \in Procs, StartSquid(p) PROVE Inv'
    <3>1. /\ pc' = [pc EXCEPT ![p] = "boot"]
          /\ loaded' = [loaded EXCEPT ![p] = conf]
          /\ pidfile' = [f \in Paths |-> IF f = conf.eff THEN pidOf[p] ELSE pidfile[f]]
          /\ pc[p] = "exec" /\ pidOf' = pidOf
      BY <2>8 DEF StartSquid, Go
    <3>2. CASE p = Main
      BY <3>1, <3>2, ConfigFields
    <3>3. CASE p \in Execs
      <4>1. conf.eff # NoPath /\ Holds(Main) => conf.eff # loaded[Main].eff
        BY <2>8, ConfigFields DEF StartSquid, CanStart, PidInUse, Alive, Up
      <4>2. MainPidKept'
        BY <3>1, <3>3, <4>1, ConfigFields
      <4>3. ASSUME NEW e \in Execs, Holds(e)', Holds(Main)'
            PROVE  (loaded[e].eff # loaded[Main].eff)'
        BY <3>1, <3>3, <4>1, <4>3
      <4>4. ExecsAfterServe'
        BY <2>8, <3>1, <3>3
      <4> QED
        BY <4>2, <4>3, <4>4
    <3> QED
      BY <3>2, <3>3
  <2>9. ASSUME NEW p \in Procs, Serve(p) PROVE Inv'
    BY <2>9 DEF Serve, Go
  <2>10. ASSUME NEW p \in Procs, Fatal(p) \/ Stop(p) PROVE Inv'
    <3>1. CASE p = Main
      BY <2>10, <3>1 DEF Fatal, Stop, End
    <3>2. CASE p \in Execs
      <4>1. /\ pc' = [pc EXCEPT ![p] = "exited"]
            /\ loaded' = loaded /\ pidOf' = pidOf
            /\ SquidUp(p)
        BY <2>10, <3>2 DEF Fatal, Stop, End
      <4>2. pidfile' = pidfile \/ pidfile' = WithoutPidFile(p)
        BY <2>10 DEF Fatal, Stop
      <4>3. Holds(Main) => pidfile'[loaded[Main].eff] = pidfile[loaded[Main].eff]
        BY <3>2, <4>1, <4>2, ConfigFields DEF WithoutPidFile
      <4> QED
        BY <3>2, <4>1, <4>3
    <3> QED
      BY <3>1, <3>2
  <2>11. CASE UNCHANGED vars
    BY <2>11 DEF vars
  <2> QED
    BY <2>1, <2>2, <2>3, <2>4, <2>5, <2>6, <2>7, <2>8, <2>9, <2>10, <2>11
       DEF Next, Run, Plain
<1> QED
  BY <1>1, <1>2, TypeCorrect, PTL DEF Spec

\* Without podman exec during the boot, the container's squid keeps its pid
\* file, whatever the inits started later do.
THEOREM PidKept == ASSUME ~ExecDuringBoot PROVE Spec => []MainPidKept
<1>1. PidInv => MainPidKept
  BY DEF PidInv
<1> QED
  BY <1>1, PidInvariant, PTL

\* A process number is never the content of an absent pid file.
LEMMA NoPidIsDead == ASSUME TypeOK PROVE ~Alive(NoPid)
  BY PidsAssumption DEF TypeOK, Alive, Numberings

\* Past the pid step, what stands in the pid file that Main read of was written
\* since: by the squid of a podman exec, which runs on that file or has ended.
FromNow ==
  pc[Main] \in {"parse", "exec"} /\ loaded[Main].pid # NoPath =>
    \/ pidfile[loaded[Main].pid] = NoPid
    \/ \E q \in Execs : /\ pidOf[q] = pidfile[loaded[Main].pid]
                        /\ pc[q] = "exited" \/ (SquidUp(q) /\ loaded[q].eff = loaded[Main].pid)

\* It is an invariant, whatever is edited, killed or started meanwhile.
LEMMA FromNowInvariance == Spec => []FromNow
<1>1. Init => FromNow
  BY DEF Init, FromNow, Procs
<1>2. TypeOK /\ FromNow /\ [Next]_vars => FromNow'
  <2> SUFFICES ASSUME TypeOK, FromNow, [Next]_vars,
                      pc'[Main] \in {"parse", "exec"}, loaded'[Main].pid # NoPath
               PROVE  \/ pidfile'[loaded'[Main].pid] = NoPid
                      \/ \E q \in Execs :
                           /\ pidOf'[q] = pidfile'[loaded'[Main].pid]
                           /\ \/ pc'[q] = "exited"
                              \/ SquidUp(q)' /\ loaded'[q].eff = loaded'[Main].pid
    BY DEF FromNow
  <2>0. /\ Main \in Procs /\ Main \notin Execs /\ Procs = {Main} \cup Execs
        /\ pc \in [Procs -> Labels] /\ loaded \in [Procs -> Configs]
        /\ \A p \in Procs : loaded[p].pid \in Paths \cup {NoPath}
    BY ProcsAssumption, ConfigsAssumption DEF Procs, TypeOK, ConfigType
  <2> USE <2>0 DEF FromNow, SquidUp, SquidLabels
  <2>1. CASE StartContainer
    BY <2>1 DEF StartContainer, Go
  <2>2. CASE EditConfig
    BY <2>2 DEF EditConfig
  <2>3. ASSUME NEW v \in Volumes, FixVolume(v) PROVE FromNow'
    BY <2>3 DEF FixVolume
  <2>4. ASSUME NEW p \in Procs, PodmanExec(p) PROVE FromNow'
    BY <2>4 DEF PodmanExec, Go
  <2>5. ASSUME NEW p \in Procs, Plain(p) PROVE FromNow'
    <3>1. CASE p = Main
      BY <2>5, <3>1, PlainStep DEF End, Go, InitLabels
    <3>2. CASE p \in Execs
      BY <2>5, <3>2, PlainStep DEF End, Go, InitLabels
    <3> QED
      BY <3>1, <3>2
  <2>6. ASSUME NEW p \in Procs, ReadConf(p) PROVE FromNow'
    BY <2>6 DEF ReadConf, End, Go
  <2>7. ASSUME NEW p \in Procs, RemoveStalePid(p) PROVE FromNow'
    <3>1. CASE p = Main
      <4>1. loaded' = loaded /\ pidfile'[loaded[Main].pid] = NoPid
        BY <2>7, <3>1 DEF RemoveStalePid, IsMainProcess, End, TypeOK
      <4> QED
        BY <4>1
    <3>2. CASE p \in Execs
      BY <2>7, <3>2 DEF RemoveStalePid, IsMainProcess, End, Go
    <3> QED
      BY <3>1, <3>2
  <2>8. ASSUME NEW p \in Procs, StartSquid(p) PROVE FromNow'
    <3>1. /\ pc' = [pc EXCEPT ![p] = "boot"] /\ pc[p] = "exec"
          /\ loaded' = [loaded EXCEPT ![p] = conf] /\ pidOf' = pidOf
          /\ pidfile' = [f \in Paths |-> IF f = conf.eff THEN pidOf[p] ELSE pidfile[f]]
      BY <2>8 DEF StartSquid, Go
    <3>2. p \in Execs /\ loaded'[Main] = loaded[Main] /\ pc'[Main] = pc[Main]
      BY <3>1
    <3>3. CASE conf.eff = loaded[Main].pid
      BY <3>1, <3>2, <3>3
    <3>4. CASE conf.eff # loaded[Main].pid
      BY <3>1, <3>2, <3>4
    <3> QED
      BY <3>3, <3>4
  <2>9. ASSUME NEW p \in Procs, Serve(p) PROVE FromNow'
    BY <2>9 DEF Serve, Go
  <2>10. ASSUME NEW p \in Procs, Fatal(p) \/ Stop(p) PROVE FromNow'
    BY <2>10 DEF Fatal, Stop, End, WithoutPidFile
  <2>11. CASE UNCHANGED vars
    BY <2>11 DEF vars
  <2> QED
    BY <2>1, <2>2, <2>3, <2>4, <2>5, <2>6, <2>7, <2>8, <2>9, <2>10, <2>11
       DEF Next, Run, Plain
<1> QED
  BY <1>1, <1>2, TypeCorrect, PTL DEF Spec

\* When the container's squid is about to start, no stale number is in its way,
\* whatever is edited, killed or started by podman exec, during the boot too.
THEOREM NeverFalselyRefused == Spec => []NoFalseRefusal
<1>1. TypeOK /\ FromNow => NoFalseRefusal
  <2> SUFFICES ASSUME TypeOK, FromNow, pc[Main] = "exec", loaded[Main] = conf,
                      conf.pid = conf.eff, PidInUse
               PROVE  \E q \in Procs \ {Main} : /\ Holds(q) /\ loaded[q].eff = conf.eff
                                                /\ pidOf[q] = pidfile[conf.eff]
    BY DEF NoFalseRefusal
  <2>1. conf.eff # NoPath /\ pidfile[conf.eff] # NoPid
    BY NoPidIsDead DEF PidInUse
  <2>2. PICK q \in Execs :
          /\ pidOf[q] = pidfile[conf.eff]
          /\ pc[q] = "exited" \/ (SquidUp(q) /\ loaded[q].eff = conf.eff)
    BY <2>1 DEF FromNow
  <2>3. q \in Procs \ {Main}
    BY ProcsAssumption DEF Procs
  <2>4. PICK r \in Procs : Up(r) /\ pidOf[r] = pidfile[conf.eff]
    BY DEF PidInUse, Alive
  <2>5. r = q
    BY <2>2, <2>3, <2>4 DEF TypeOK, Numberings
  <2> QED
    BY <2>1, <2>2, <2>3, <2>4, <2>5 DEF Holds, Up
<1> QED
  BY <1>1, TypeCorrect, FromNowInvariance, PTL

\* With the container every process in it has ended.
EndsTogether == pc[Main] = "down" => \A p \in Procs : pc[p] = "down"

\* It is an invariant.
LEMMA TogetherInvariance == Spec => []EndsTogether
<1>1. Init => EndsTogether
  BY DEF Init, EndsTogether
<1>2. TypeOK /\ EndsTogether /\ [Next]_vars => EndsTogether'
  <2> SUFFICES ASSUME TypeOK, EndsTogether, [Next]_vars PROVE EndsTogether'
    OBVIOUS
  <2>0. Main \in Procs /\ pc \in [Procs -> Labels]
    BY DEF Procs, TypeOK
  <2> USE <2>0 DEF EndsTogether, Go, End
  <2>1. CASE StartContainer \/ EditConfig \/ (\E v \in Volumes : FixVolume(v)) \/ UNCHANGED vars
    BY <2>1 DEF StartContainer, EditConfig, FixVolume, vars
  <2>2. ASSUME NEW p \in Procs, PodmanExec(p) PROVE EndsTogether'
    BY <2>2 DEF PodmanExec, Up
  <2>3. ASSUME NEW p \in Procs, Plain(p) PROVE EndsTogether'
    BY <2>3, PlainStep DEF Up, InitLabels
  <2>4. ASSUME NEW p \in Procs, ReadConf(p) \/ RemoveStalePid(p) \/ StartSquid(p)
        PROVE  EndsTogether'
    BY <2>4 DEF ReadConf, RemoveStalePid, StartSquid
  <2>5. ASSUME NEW p \in Procs, Serve(p) \/ Fatal(p) \/ Stop(p) PROVE EndsTogether'
    BY <2>5 DEF Serve, Fatal, Stop, SquidUp, SquidLabels
  <2> QED
    BY <2>1, <2>2, <2>3, <2>4, <2>5 DEF Next, Run, Plain
<1> QED
  BY <1>1, <1>2, TypeCorrect, PTL DEF Spec

\* A squid that runs loses its pid file in the two ways PidTaken names only, the
\* container's own in one, whenever podman exec runs and whatever is edited.
THEOREM PidOnlyTaken == Spec => PidTaken
<1>1. TypeOK /\ EndsTogether /\ [Next]_vars =>
        [\A p \in Procs : OwnsPid(p) /\ SquidUp(p)' =>
           \/ OwnsPid(p)'
           \/ \E q \in Procs \ {p} : Ends(q) /\ loaded[q].eff = loaded[p].eff
           \/ p # Main /\ pc[Main] = "pid" /\ loaded[Main].pid = loaded[p].eff]_vars
  <2> DEFINE Lost(p) ==
        \/ \E q \in Procs \ {p} : Ends(q) /\ loaded[q].eff = loaded[p].eff
        \/ p # Main /\ pc[Main] = "pid" /\ loaded[Main].pid = loaded[p].eff
  <2> SUFFICES ASSUME TypeOK, EndsTogether, Next, NEW p \in Procs, OwnsPid(p), SquidUp(p)'
               PROVE  OwnsPid(p)' \/ Lost(p)
    BY Zenon
  <2>0. /\ Main \in Procs /\ pc \in [Procs -> Labels]
        /\ loaded \in [Procs -> Configs] /\ pidOf \in [Procs -> Pids]
        /\ loaded[p].eff \in Paths
        /\ SquidUp(p) /\ pidfile[loaded[p].eff] = pidOf[p] /\ loaded[p].eff # NoPath
    BY ConfigFields DEF Procs, TypeOK, Numberings, OwnsPid, Holds
  <2> USE <2>0 DEF OwnsPid, Holds, SquidUp, SquidLabels
  <2>1. CASE StartContainer
    BY <2>1 DEF StartContainer, EndsTogether
  <2>2. CASE EditConfig \/ \E v \in Volumes : FixVolume(v)
    BY <2>2 DEF EditConfig, FixVolume
  <2>3. ASSUME NEW q \in Procs, Plain(q) \/ PodmanExec(q) \/ Serve(q) PROVE OwnsPid(p)'
    BY <2>3, PlainStep DEF PodmanExec, Serve
  <2>4. ASSUME NEW q \in Procs, ReadConf(q) PROVE OwnsPid(p)'
    BY <2>4 DEF ReadConf
  <2>5. ASSUME NEW q \in Procs, StartSquid(q) PROVE OwnsPid(p)'
    <3>1. q # p /\ conf.eff # loaded[p].eff
      BY <2>5 DEF StartSquid, CanStart, PidInUse, Alive, Up
    <3> QED
      BY <2>5, <3>1 DEF StartSquid
  <2>6. ASSUME NEW q \in Procs, RemoveStalePid(q) PROVE OwnsPid(p)' \/ Lost(p)
    <3>1. pc[q] = "pid" /\ UNCHANGED <<pidOf, loaded>>
      BY <2>6 DEF RemoveStalePid
    <3>2. CASE q = Main /\ loaded[q].pid = loaded[p].eff
      BY <3>1, <3>2
    <3>3. CASE ~(q = Main /\ loaded[q].pid = loaded[p].eff)
      <4>1. pidfile'[loaded[p].eff] = pidfile[loaded[p].eff]
        BY <2>6, <3>3 DEF RemoveStalePid, IsMainProcess, TypeOK
      <4> QED
        BY <3>1, <4>1
    <3> QED
      BY <3>2, <3>3
  <2>7. ASSUME NEW q \in Procs, Fatal(q) \/ Stop(q) PROVE OwnsPid(p)' \/ Lost(p)
    <3>1. /\ SquidUp(q) /\ End(q) /\ UNCHANGED <<pidOf, loaded>>
          /\ pidfile' = pidfile \/ pidfile' = WithoutPidFile(q)
      BY <2>7 DEF Fatal, Stop
    <3>2. q # p /\ Ends(q)
      BY <3>1 DEF End, Ends
    <3>3. CASE loaded[q].eff = loaded[p].eff
      BY <3>2, <3>3, Zenon
    <3>4. CASE loaded[q].eff # loaded[p].eff
      <4>1. pidfile'[loaded[p].eff] = pidfile[loaded[p].eff]
        BY <3>1, <3>4 DEF WithoutPidFile
      <4> QED
        BY <3>1, <4>1
    <3> QED
      BY <3>3, <3>4
  <2> QED
    BY <2>1, <2>2, <2>3, <2>4, <2>5, <2>6, <2>7 DEF Next, Run, Plain
<1> QED
  BY <1>1, TypeCorrect, TogetherInvariance, PTL DEF Spec, PidTaken
-----------------------------------------------------------------------------
(***************************************************************************)
(* The container that starts alone.                                        *)
(***************************************************************************)

\* What the boot keeps: the configuration the init read is the one the program
\* will read, and past the pid step the pid file is gone.
LEMMA BootStep ==
  ASSUME QuietBoot, TypeOK, ExecsAfterServe, BootInv, [Next]_vars
  PROVE  BootInv'
<1>0. /\ Main \in Procs /\ Main \notin Execs /\ Procs = {Main} \cup Execs
      /\ conf.eff = conf.pid
  BY ProcsAssumption DEF Procs, QuietBoot, TypeOK
<1> USE <1>0 DEF TypeOK, ExecsAfterServe, BootInv, InitLabels
<1>1. CASE StartContainer
  BY <1>1 DEF StartContainer, Go
<1>2. CASE EditConfig
  BY <1>2 DEF EditConfig, QuietBoot
<1>3. CASE \E v \in Volumes : FixVolume(v)
  BY <1>3 DEF FixVolume
<1>4. ASSUME NEW p \in Procs, p # Main,
             Run(p) \/ PodmanExec(p) \/ Kill(p) \/ Stop(p)
      PROVE  BootInv'
  <2>1. pc[Main] = "serving"
    BY <1>4 DEF PodmanExec, QuietBoot, Run, LinkMime, ReadConf, CheckSslDir, LookForDb,
         RemoveDb, MakeDb, FillDb, LookForCache, CheckSpool, CreateCache, FinishCache,
         RemoveStalePid, ParseCheck, StartSquid, FailToStart, Serve, Fatal, Kill, Stop,
         Up, SquidUp, SquidLabels
  <2>2. (\E l \in Labels : Go(p, l)) \/ End(p)
    <3>1. CASE Plain(p)
      BY <3>1, PlainStep DEF Labels
    <3>2. CASE ReadConf(p) \/ RemoveStalePid(p) \/ StartSquid(p)
      BY <3>2 DEF ReadConf, RemoveStalePid, StartSquid, Labels, SquidLabels
    <3>3. CASE Serve(p) \/ Fatal(p) \/ Stop(p) \/ PodmanExec(p)
      BY <3>3 DEF Serve, Fatal, Stop, PodmanExec, Labels, SquidLabels
    <3> QED
      BY <1>4, <3>1, <3>2, <3>3 DEF Run, Plain
  <2>3. pc'[Main] = "serving"
    BY <1>4, <2>1, <2>2 DEF Go, End
  <2> QED
    BY <2>3
<1>5. CASE Plain(Main)
  BY <1>5, PlainStep DEF Go, End
<1>6. CASE ReadConf(Main)
  BY <1>6 DEF ReadConf, Go, End
<1>7. CASE RemoveStalePid(Main)
  BY <1>7, ConfigFields DEF RemoveStalePid, IsMainProcess, Go, End
<1>8. CASE StartSquid(Main) \/ Serve(Main) \/ Fatal(Main) \/ Stop(Main) \/ PodmanExec(Main)
  BY <1>8 DEF StartSquid, Serve, Fatal, Stop, PodmanExec, Go, End
<1>9. CASE UNCHANGED vars
  BY <1>9 DEF vars
<1> QED
  BY <1>1, <1>2, <1>3, <1>4, <1>5, <1>6, <1>7, <1>8, <1>9 DEF Next, Run, Plain

\* From the read of the configuration to the start of squid nothing undoes what
\* the init of a container that starts alone has done.
LEMMA BootInvariant == ASSUME QuietBoot PROVE Spec => []BootInv
<1>1. ~ExecDuringBoot
  BY DEF QuietBoot
<1>2. Init => BootInv
  BY DEF Init, BootInv, InitLabels, Procs
<1>3. TypeOK /\ ExecsAfterServe /\ BootInv /\ [Next]_vars => BootInv'
  BY BootStep
<1> QED
  BY <1>1, <1>2, <1>3, TypeCorrect, PidInvariant, PTL DEF Spec

-----------------------------------------------------------------------------
(***************************************************************************)
(* The entrypoint implements ServiceLifecycle.                             *)
(***************************************************************************)

AllInv == TypeOK /\ ExecsAfterServe /\ PidInv /\ BootInv

\* The abstract state, case by case of where Main is.
Abstract ==
  /\ pc[Main] = "down" => LifecyclePhase = "down"
  /\ pc[Main] \in InitLabels \ {"exec"} => LifecyclePhase = "preparing"
  /\ pc[Main] = "exec" => LifecyclePhase = "launched" /\ LifecycleLock = "free"
  /\ pc[Main] = "parse" => LifecycleLock = "free"
  /\ pc[Main] \in SquidLabels => LifecyclePhase = "running" /\ LifecycleLock = "held"
  /\ pc[Main] \notin SquidLabels =>
       LifecycleLock = IF conf.eff = NoPath \/ pidfile[conf.eff] = NoPid
                         THEN "free" ELSE "stale"

\* The state of the promise, read off the inductive invariant.
LEMMA AbstractState == AllInv => Abstract
  BY DEF AllInv, BootInv, PidInv, MainPidKept, Holds, SquidUp, LifecyclePhase, LifecycleLock,
         InitLabels, SquidLabels, Abstract

\* A step of a process other than Main leaves Main, which serves, where it is.
LEMMA OtherStep ==
  ASSUME ~ExecDuringBoot, AllInv, NEW p \in Procs, p # Main,
         Run(p) \/ PodmanExec(p) \/ Kill(p) \/ Stop(p)
  PROVE  pc[Main] = "serving" /\ pc'[Main] = "serving"
<1>0. p \in Execs
  BY DEF Procs
<1>1. pc[Main] = "serving"
  BY <1>0 DEF AllInv, ExecsAfterServe, PodmanExec, Run, LinkMime, ReadConf, CheckSslDir,
       LookForDb, RemoveDb, MakeDb, FillDb, LookForCache, CheckSpool, CreateCache,
       FinishCache, RemoveStalePid, ParseCheck, StartSquid, FailToStart, Serve, Fatal,
       Kill, Stop, Up, SquidUp, SquidLabels
<1>2. (\E l \in Labels : Go(p, l)) \/ End(p)
  <2>1. CASE Plain(p)
    BY <2>1, PlainStep DEF Labels, InitLabels
  <2>2. CASE ReadConf(p) \/ RemoveStalePid(p) \/ StartSquid(p)
    BY <2>2 DEF ReadConf, RemoveStalePid, StartSquid, Labels, InitLabels, SquidLabels
  <2>3. CASE Serve(p) \/ Fatal(p) \/ Stop(p) \/ PodmanExec(p)
    BY <2>3 DEF Serve, Fatal, Stop, PodmanExec, Labels, InitLabels, SquidLabels
  <2> QED
    BY <2>1, <2>2, <2>3 DEF Run, Plain
<1> QED
  BY <1>1, <1>2 DEF AllInv, TypeOK, Go, End, Procs

\* In a container that starts alone the entrypoint implements the promise.
THEOREM Implementation == ASSUME QuietBoot PROVE Spec => ImplementsLifecycle
<1>0. /\ ~ExecDuringBoot
      /\ Main \in Procs
  BY DEF QuietBoot, Procs
<1>1. Init => Lifecycle!Init
  BY <1>0, ConfigsAssumption
     DEF Init, Lifecycle!Init, LifecyclePhase, LifecycleLock, SquidUp, SquidLabels, ConfigType
<1>2. AllInv /\ Abstract /\ Abstract' /\ [Next]_vars => [Lifecycle!Next]_(Lifecycle!vars)
  <2> SUFFICES ASSUME AllInv, Abstract, Abstract', [Next]_vars
               PROVE  Lifecycle!Next \/ UNCHANGED Lifecycle!vars
    OBVIOUS
  <2>a. /\ pc \in [Procs -> Labels]
        /\ conf.eff = conf.pid /\ conf.eff \in Paths \cup {NoPath}
        /\ pidfile \in [Paths -> Pids \cup {NoPid}]
        /\ pc[Main] \in InitLabels \ {"mime", "read"} => loaded[Main] = conf
    BY ConfigFields DEF AllInv, TypeOK, QuietBoot, BootInv
  <2> USE <1>0, <2>a DEF Abstract
  <2>1. CASE StartContainer
    <3>1. pc[Main] = "down" /\ pc'[Main] = "mime"
      BY <2>1 DEF StartContainer, Go
    <3>2. LifecyclePhase = "down" /\ LifecyclePhase' = "preparing"
      BY <3>1 DEF InitLabels
    <3>3. LifecycleLock' \in {LifecycleLock, "free"}
      BY <2>1, <3>1 DEF StartContainer, SquidLabels
    <3> QED
      BY <3>2, <3>3 DEF Lifecycle!Next, Lifecycle!Boot
  <2>2. CASE EditConfig
    <3>1. pc' = pc /\ pidfile' = pidfile /\ pc[Main] \in {"down", "serving"}
      BY <2>2 DEF EditConfig, QuietBoot
    <3>2. CASE pc[Main] = "down"
      <4>1. LifecyclePhase = "down" /\ LifecyclePhase' = "down"
        BY <3>1, <3>2
      <4>2. LifecycleLock' \in {"free", "stale"}
        BY <3>1, <3>2 DEF SquidLabels
      <4> QED
        BY <4>1, <4>2 DEF Lifecycle!Next, Lifecycle!Repoint
    <3>3. CASE pc[Main] = "serving"
      BY <3>1, <3>3 DEF SquidLabels, Lifecycle!vars
    <3> QED
      BY <3>1, <3>2, <3>3
  <2>3. CASE \E v \in Volumes : FixVolume(v)
    BY <2>3 DEF FixVolume, LifecyclePhase, LifecycleLock, SquidUp, Lifecycle!vars
  <2>4. ASSUME NEW p \in Procs, p # Main,
               Run(p) \/ PodmanExec(p) \/ Kill(p) \/ Stop(p)
        PROVE  UNCHANGED Lifecycle!vars
    <3>1. pc[Main] = "serving" /\ pc'[Main] = "serving"
      BY <2>4, OtherStep
    <3> QED
      BY <3>1 DEF SquidLabels, Lifecycle!vars
  <2>5. CASE Plain(Main)
    <3>0. /\ pidfile' = pidfile /\ conf' = conf /\ Up(Main)
          /\ pc'[Main] = "down" \/ (pc[Main] \in InitLabels /\ pc'[Main] \in InitLabels)
      BY <2>5, PlainStep DEF Go, End, InitLabels
    <3>1. CASE pc'[Main] = "down"
      <4>1. CASE pc[Main] \in SquidLabels
        BY <3>0, <3>1, <4>1 DEF SquidLabels, Lifecycle!Next, Lifecycle!Finish
      <4>2. CASE pc[Main] \in InitLabels
        <5>1. LifecyclePhase \in {"preparing", "launched"} /\ LifecyclePhase' = "down"
          BY <3>1, <4>2
        <5>2. LifecycleLock' = LifecycleLock
          BY <3>0, <3>1, <4>2 DEF InitLabels, SquidLabels
        <5> QED
          BY <5>1, <5>2 DEF Lifecycle!Next, Lifecycle!Abort
      <4> QED
        BY <3>0, <4>1, <4>2 DEF Labels, Up
    <3>2. CASE pc[Main] \in InitLabels /\ pc'[Main] \in InitLabels
      <4>1. LifecycleLock' = LifecycleLock
        BY <3>0, <3>2 DEF InitLabels, SquidLabels
      <4>2. CASE pc'[Main] = "exec"
        <5>1. pc[Main] = "parse"
          BY <2>5, <3>2, <4>2, PlainStep DEF Go, End
        <5> QED
          BY <4>1, <4>2, <5>1 DEF InitLabels, Lifecycle!Next, Lifecycle!Launch
      <4>3. CASE pc'[Main] # "exec"
        <5>1. pc[Main] # "exec"
          BY <2>5, <3>2, PlainStep DEF Go, End, InitLabels
        <5> QED
          BY <3>2, <4>1, <4>3, <5>1 DEF Lifecycle!vars
      <4> QED
        BY <4>2, <4>3
    <3> QED
      BY <3>0, <3>1, <3>2
  <2>6. CASE ReadConf(Main) \/ RemoveStalePid(Main)
    <3>0. conf' = conf /\ pc[Main] \in {"read", "pid"}
      BY <2>6 DEF ReadConf, RemoveStalePid
    <3>1. CASE pc'[Main] = "down"
      <4>1. pidfile' = pidfile
        BY <2>6, <3>1 DEF ReadConf, RemoveStalePid, Go
      <4>2. LifecyclePhase = "preparing" /\ LifecyclePhase' = "down"
        BY <3>0, <3>1 DEF InitLabels
      <4>3. LifecycleLock' = LifecycleLock
        BY <3>0, <3>1, <4>1 DEF SquidLabels
      <4> QED
        BY <4>2, <4>3 DEF Lifecycle!Next, Lifecycle!Abort
    <3>2. CASE pc'[Main] # "down"
      <4>1. pc'[Main] \in {"ssl", "cache", "parse"}
        BY <2>6, <3>2 DEF ReadConf, RemoveStalePid, Go, End
      <4>2. LifecyclePhase = "preparing" /\ LifecyclePhase' = "preparing"
        BY <3>0, <4>1 DEF InitLabels
      <4>3. pc'[Main] # "parse" => pidfile' = pidfile
        BY <2>6, <3>2 DEF ReadConf, RemoveStalePid, Go, End
      <4>4. LifecycleLock' \in {LifecycleLock, "free"}
        BY <3>0, <4>1, <4>3 DEF SquidLabels
      <4> QED
        BY <4>2, <4>4 DEF Lifecycle!Next, Lifecycle!Clear, Lifecycle!vars
    <3> QED
      BY <3>1, <3>2
  <2>7. CASE StartSquid(Main)
    <3>1. pc[Main] = "exec" /\ pc'[Main] = "boot"
      BY <2>7 DEF StartSquid, Go
    <3> QED
      BY <3>1 DEF SquidLabels, Lifecycle!Next, Lifecycle!Acquire
  <2>8. CASE Serve(Main)
    <3>1. pc[Main] = "boot" /\ pc'[Main] = "serving"
      BY <2>8 DEF Serve, Go
    <3> QED
      BY <3>1 DEF SquidLabels, Lifecycle!vars
  <2>9. CASE Fatal(Main) \/ Stop(Main)
    <3>1. pc[Main] \in SquidLabels /\ pc'[Main] = "down"
      BY <2>9 DEF Fatal, Stop, SquidUp, SquidLabels, End
    <3> QED
      BY <3>1 DEF SquidLabels, Lifecycle!Next, Lifecycle!Finish
  <2>10. CASE PodmanExec(Main)
    BY <2>10 DEF PodmanExec
  <2>11. CASE UNCHANGED vars
    BY <2>11 DEF vars, LifecyclePhase, LifecycleLock, SquidUp, Lifecycle!vars
  <2> QED
    BY <2>1, <2>2, <2>3, <2>4, <2>5, <2>6, <2>7, <2>8, <2>9, <2>10, <2>11 DEF Next, Run, Plain
<1>3. Spec => []AllInv
  BY <1>0, TypeCorrect, PidInvariant, BootInvariant, PTL DEF AllInv
<1> QED
  BY <1>1, <1>2, <1>3, AbstractState, PTL DEF Spec, ImplementsLifecycle, Lifecycle!Spec
-----------------------------------------------------------------------------
(***************************************************************************)
(* The certificate database and the cache.                                 *)
(***************************************************************************)

\* The steps other than those that prepare the database and the cache, or serve.
Other ==
  \/ StartContainer \/ EditConfig \/ \E v \in Volumes : FixVolume(v)
  \/ \E p \in Procs :
       \/ LinkMime(p) \/ ReadConf(p) \/ CheckSslDir(p) \/ LookForCache(p) \/ CheckSpool(p)
       \/ RemoveStalePid(p) \/ ParseCheck(p) \/ StartSquid(p) \/ FailToStart(p)
       \/ Fatal(p) \/ PodmanExec(p) \/ Kill(p) \/ Stop(p)

\* They leave both alone, lead to no removal, and to no squid that serves.
LEMMA OtherLeaves ==
  ASSUME TypeOK, Other
  PROVE  /\ UNCHANGED <<db, spool>>
         /\ \A p \in Procs : pc'[p] = "wipe" => pc[p] = "wipe"
         /\ pc'[Main] = "serving" => pc[Main] = "serving" /\ loaded'[Main] = loaded[Main]
<1>0. Main \in Procs /\ pc \in [Procs -> Labels] /\ loaded \in [Procs -> Configs]
  BY DEF Procs, TypeOK
<1> USE <1>0 DEF Go, End
<1>1. CASE StartContainer
  BY <1>1 DEF StartContainer
<1>2. CASE EditConfig
  BY <1>2 DEF EditConfig
<1>3. ASSUME NEW v \in Volumes, FixVolume(v) PROVE UNCHANGED <<db, spool, pc, loaded>>
  BY <1>3 DEF FixVolume
<1>4. ASSUME NEW p \in Procs, LinkMime(p) \/ CheckSslDir(p) \/ LookForCache(p) \/ CheckSpool(p)
      PROVE  /\ UNCHANGED <<db, spool, loaded>>
             /\ End(p) \/ \E l \in {"read", "dbcheck", "spool", "create", "pid"} : Go(p, l)
  BY <1>4 DEF LinkMime, CheckSslDir, LookForCache, CheckSpool, EnsureWritable, WithoutCacheInit
<1>5. ASSUME NEW p \in Procs, ReadConf(p) \/ StartSquid(p)
      PROVE  /\ UNCHANGED <<db, spool>>
             /\ pc[p] # "serving" /\ \A q \in Procs \ {p} : loaded'[q] = loaded[q]
             /\ End(p) \/ \E l \in {"ssl", "cache", "boot"} : Go(p, l)
  BY <1>5 DEF ReadConf, StartSquid
<1>6. ASSUME NEW p \in Procs, RemoveStalePid(p) \/ ParseCheck(p) \/ FailToStart(p)
      PROVE  /\ UNCHANGED <<db, spool, loaded>>
             /\ End(p) \/ \E l \in {"parse", "exec"} : Go(p, l)
  BY <1>6 DEF RemoveStalePid, ParseCheck, FailToStart
<1>7. ASSUME NEW p \in Procs, Fatal(p) \/ Kill(p) \/ Stop(p)
      PROVE  UNCHANGED <<db, spool, loaded>> /\ End(p)
  BY <1>7 DEF Fatal, Kill, Stop
<1>8. ASSUME NEW p \in Procs, PodmanExec(p)
      PROVE  UNCHANGED <<db, spool, loaded>> /\ Go(p, "mime")
  BY <1>8 DEF PodmanExec
<1> QED
  BY <1>1, <1>2, <1>3, <1>4, <1>5, <1>6, <1>7, <1>8 DEF Other

\* A complete cache stays complete.
LEMMA CacheKept ==
  ASSUME TypeOK, NEW p \in Procs, CreateCache(p) \/ FinishCache(p),
         NEW k \in Kinds, spool[k] = "complete"
  PROVE  spool'[k] = "complete"
BY DEF TypeOK, CreateCache, FinishCache

\* No exec is about to remove the database of a squid that serves.
Served ==
  pc[Main] = "serving" =>
    /\ StateReady(loaded[Main])
    /\ loaded[Main].bump => \A p \in Execs : pc[p] # "wipe"

\* It is an invariant, however many are started.
LEMMA ServedInvariance == ASSUME ~ExecDuringBoot PROVE Spec => []Served
<1>1. Init => Served
  BY DEF Init, Served, Procs
<1>2. TypeOK /\ ExecsAfterServe /\ Served /\ [Next]_vars => Served'
  <2> SUFFICES ASSUME TypeOK, ExecsAfterServe, Served, [Next]_vars, pc'[Main] = "serving"
               PROVE  /\ StateReady(loaded[Main])'
                      /\ loaded'[Main].bump => \A p \in Execs : pc'[p] # "wipe"
    BY DEF Served
  <2>0. /\ Main \in Procs /\ Main \notin Execs /\ Procs = {Main} \cup Execs
        /\ pc \in [Procs -> Labels] /\ loaded \in [Procs -> Configs]
    BY ProcsAssumption DEF Procs, TypeOK
  <2>1. loaded[Main].cache \in {"none", "rock", "ufs"}
    BY <2>0, ConfigsAssumption DEF ConfigType
  <2> USE <2>0 DEF Served, StateReady
  <2>2. CASE Other
    BY <2>2, OtherLeaves
  <2>3. ASSUME NEW p \in Procs, Serve(p) PROVE Served'
    BY <2>3 DEF Serve, CanServe, Go, ExecsAfterServe
  <2>4. ASSUME NEW p \in Procs, LookForDb(p) PROVE Served'
    BY <2>4 DEF LookForDb, NeedsDb, Go
  <2>5. ASSUME NEW p \in Procs, RemoveDb(p) \/ MakeDb(p) \/ FillDb(p) PROVE Served'
    <3>1. /\ UNCHANGED <<loaded, spool>>
          /\ End(p) \/ \E l \in {"mkdb", "fill", "cache"} : Go(p, l)
          /\ db = "ready" /\ pc[p] # "wipe" => db' = "ready"
          /\ pc[p] # "serving"
      BY <2>5 DEF RemoveDb, MakeDb, FillDb
    <3>2. p \in Execs
      BY <3>1 DEF End, Go
    <3> QED
      BY <3>1, <3>2 DEF End, Go
  <2>6. ASSUME NEW p \in Procs, CreateCache(p) \/ FinishCache(p) PROVE Served'
    <3>1. UNCHANGED <<loaded, db>> /\ \E l \in Kinds \cup {"pid"} : Go(p, l)
      BY <2>6 DEF CreateCache, FinishCache
    <3>2. \A k \in Kinds : spool[k] = "complete" => spool'[k] = "complete"
      BY <2>6, CacheKept
    <3> QED
      BY <2>1, <3>1, <3>2 DEF Go
  <2>7. CASE UNCHANGED vars
    BY <2>7 DEF vars
  <2> QED
    BY <2>2, <2>3, <2>4, <2>5, <2>6, <2>7 DEF Next, Run, Other
<1> QED
  BY <1>1, <1>2, TypeCorrect, PidInvariant, PTL DEF Spec

\* The container's squid serves on a complete database and a complete cache, and
\* no init takes them away, however many are started by podman exec.
THEOREM ServesReady == ASSUME ~ExecDuringBoot PROVE Spec => []ServesOnReadyState
<1>1. Served => ServesOnReadyState
  BY DEF Served, ServesOnReadyState
<1> QED
  BY <1>1, ServedInvariance, PTL

-----------------------------------------------------------------------------
(***************************************************************************)
(* The container under its probe.                                          *)
(***************************************************************************)

\* An exec's squid never serves: the port is taken.
OnlyMainServes == \A p \in Execs : pc[p] # "serving"

\* It is an invariant, as long as podman exec waits for the container's squid.
LEMMA OnlyMain == ASSUME ~ExecDuringBoot PROVE Spec => []OnlyMainServes
<1>1. Init => OnlyMainServes
  BY DEF Init, OnlyMainServes, Procs
<1>2. TypeOK /\ ExecsAfterServe /\ OnlyMainServes /\ [Next]_vars => OnlyMainServes'
  <2> SUFFICES ASSUME TypeOK, ExecsAfterServe, OnlyMainServes, [Next]_vars
               PROVE  OnlyMainServes'
    OBVIOUS
  <2>0. /\ Main \in Procs /\ Main \notin Execs /\ Procs = {Main} \cup Execs
        /\ pc \in [Procs -> Labels]
    BY ProcsAssumption DEF Procs, TypeOK
  <2> USE <2>0 DEF OnlyMainServes, Go, End
  <2>1. ASSUME NEW p \in Procs, Serve(p) PROVE OnlyMainServes'
    BY <2>1 DEF Serve, CanServe, ExecsAfterServe
  <2>2. ASSUME NEW p \in Procs,
               \/ LinkMime(p) \/ ReadConf(p) \/ CheckSslDir(p) \/ LookForDb(p) \/ RemoveDb(p)
               \/ MakeDb(p) \/ FillDb(p) \/ LookForCache(p) \/ CheckSpool(p) \/ CreateCache(p)
        PROVE  OnlyMainServes'
    BY <2>2 DEF LinkMime, ReadConf, CheckSslDir, EnsureWritable, LookForDb, RemoveDb, MakeDb,
       FillDb, LookForCache, WithoutCacheInit, CheckSpool, CreateCache
  <2>3. ASSUME NEW p \in Procs,
               \/ FinishCache(p) \/ RemoveStalePid(p) \/ ParseCheck(p) \/ StartSquid(p)
               \/ FailToStart(p) \/ Fatal(p) \/ PodmanExec(p) \/ Kill(p) \/ Stop(p)
        PROVE  OnlyMainServes'
    BY <2>3 DEF FinishCache, RemoveStalePid, ParseCheck, StartSquid, FailToStart, Fatal,
       PodmanExec, Kill, Stop
  <2>4. CASE StartContainer \/ EditConfig \/ (\E v \in Volumes : FixVolume(v)) \/ UNCHANGED vars
    BY <2>4 DEF StartContainer, EditConfig, FixVolume, vars
  <2> QED
    BY <2>1, <2>2, <2>3, <2>4 DEF Next, Run
<1> QED
  BY <1>1, <1>2, TypeCorrect, PidInvariant, PTL DEF Spec

P == INSTANCE HealthCheckProofs WITH
  ByLine  <- TRUE,
  up      <- pc[Main] # "down",
  serving <- Listens

\* The probe of SquidContainer is the one HealthCheckProofs is about.
LEMMA SameProbe ==
  /\ Probe!Init => P!Init
  /\ Probe!Docker => P!Docker
  /\ Probe!Follow => P!Follow
  /\ UNCHANGED Probe!hvars => UNCHANGED P!hvars
BY DEF Probe!Init, P!Init, Probe!Docker, P!Docker, Probe!Follow, P!Follow,
   Probe!hvars, P!hvars, Probe!Fresh, P!Fresh, Probe!Ended, P!Ended, Probe!Step, P!Step,
   Probe!AnswersChange, P!AnswersChange, Probe!GraceEnds, P!GraceEnds,
   Probe!Begin, P!Begin, Probe!Connect, P!Connect, Probe!DialFails, P!DialFails,
   Probe!Receive, P!Receive, Probe!ReadFails, P!ReadFails, Probe!Tick, P!Tick,
   Probe!Finish, P!Finish, Probe!Judge, P!Judge, Probe!Idle, P!Idle,
   Probe!dialogue, P!dialogue, Probe!verdict, P!verdict, Probe!Manners, P!Manners,
   Probe!Deadline, P!Deadline, Probe!ReadLimit, P!ReadLimit,
   Probe!DialLimit, P!DialLimit, Probe!DialError, P!DialError,
   Probe!ReadsOn, P!ReadsOn, Probe!LineEnd, P!LineEnd,
   Probe!WordEnd, P!WordEnd, Probe!Retries, P!Retries

\* The container's squid serves until the container ends.
LEMMA ServesToTheEnd ==
  ASSUME TypeOK, Next, pc[Main] = "serving", pc'[Main] # "serving"
  PROVE  pc'[Main] = "down"
<1>0. Main \in Procs /\ pc \in [Procs -> Labels]
  BY DEF Procs, TypeOK
<1> USE <1>0 DEF Go, End
<1>1. ASSUME NEW p \in Procs,
             \/ LinkMime(p) \/ ReadConf(p) \/ CheckSslDir(p) \/ LookForDb(p) \/ RemoveDb(p)
             \/ MakeDb(p) \/ FillDb(p) \/ LookForCache(p) \/ CheckSpool(p) \/ CreateCache(p)
      PROVE  pc'[Main] = "down"
  BY <1>1 DEF LinkMime, ReadConf, CheckSslDir, EnsureWritable, LookForDb, RemoveDb, MakeDb,
     FillDb, LookForCache, CheckSpool, CreateCache
<1>2. ASSUME NEW p \in Procs,
             \/ FinishCache(p) \/ RemoveStalePid(p) \/ ParseCheck(p) \/ StartSquid(p)
             \/ FailToStart(p) \/ Serve(p) \/ Fatal(p) \/ PodmanExec(p) \/ Kill(p) \/ Stop(p)
      PROVE  pc'[Main] = "down"
  BY <1>2 DEF FinishCache, RemoveStalePid, ParseCheck, StartSquid, FailToStart, Serve, Fatal,
     PodmanExec, Kill, Stop
<1>3. CASE StartContainer \/ EditConfig \/ (\E v \in Volumes : FixVolume(v))
  BY <1>3 DEF StartContainer, EditConfig, FixVolume
<1> QED
  BY <1>1, <1>2, <1>3 DEF Next, Run

\* The steps of SquidInit are those of a container that HealthCheck allows, with a
\* service that goes on listening.
LEMMA SquidIsContainer ==
  ASSUME TypeOK, TypeOK', OnlyMainServes, OnlyMainServes', Next, P!Follow
  PROVE  P!Container /\ P!KeepsListening
<1>1. /\ Listens <=> pc[Main] = "serving"
      /\ Listens' <=> pc'[Main] = "serving"
  BY DEF Listens, OnlyMainServes, Procs
<1>2. Listens' => pc'[Main] # "down"
  BY <1>1
<1>3. Listens /\ pc'[Main] # "down" => Listens'
  BY <1>1, ServesToTheEnd
<1>4. Listens \in BOOLEAN /\ Listens' \in BOOLEAN
  BY DEF Listens
<1> QED
  BY <1>2, <1>3, <1>4, Zenon DEF P!Container, P!KeepsListening

\* The container takes the steps of its entrypoint.
LEMMA ContainerRunsInit == ContainerSpec => Spec
<1>1. ContainerInit => Init
  BY DEF ContainerInit
<1>2. [ContainerNext]_<<vars, Probe!hvars>> => [Next]_vars
  BY DEF ContainerNext
<1> QED
  BY <1>1, <1>2, PTL DEF ContainerSpec, Spec

\* What HealthCheckProofs proves of the probe holds in the squid container.
LEMMA ProbeInvariance == ASSUME ~ExecDuringBoot PROVE ContainerSpec => []P!IInv
<1>1. ContainerInit => P!IInv
  <2> SUFFICES ASSUME ContainerInit PROVE P!IInv
    OBVIOUS
  <2>1. P!Init
    BY SameProbe, Zenon DEF ContainerInit
  <2> QED
    BY <2>1, P!Initially
<1>2. ASSUME TypeOK, TypeOK', OnlyMainServes, OnlyMainServes', P!IInv, Next, Probe!Follow
      PROVE  P!IInv'
  <2>1. P!Container /\ P!KeepsListening
    BY <1>2, SameProbe, SquidIsContainer, Zenon
  <2> QED
    BY <1>2, <2>1, P!ContainerKeeps, Zenon
<1>3. ASSUME UNCHANGED vars PROVE UNCHANGED <<pc[Main] # "down", Listens>>
  <2>1. UNCHANGED pc
    BY <1>3 DEF vars
  <2> QED
    BY <2>1, Zenon DEF Listens
<1>4. ASSUME P!IInv, Probe!Docker, UNCHANGED vars PROVE P!IInv'
  BY <1>3, <1>4, SameProbe, P!DockerKeeps, Zenon
<1>5. ASSUME P!IInv, UNCHANGED <<vars, Probe!hvars>> PROVE P!IInv'
  <2>1. UNCHANGED <<pc[Main] # "down", Listens>>
    BY <1>3, <1>5, Zenon
  <2> QED
    BY <1>5, <2>1, SameProbe, P!Unmoved, Zenon
<1>6. TypeOK /\ TypeOK' /\ OnlyMainServes /\ OnlyMainServes' /\ P!IInv
        /\ [ContainerNext]_<<vars, Probe!hvars>> => P!IInv'
  BY <1>2, <1>4, <1>5 DEF ContainerNext
<1> QED
  BY <1>1, <1>6, ContainerRunsInit, TypeCorrect, OnlyMain, PTL DEF ContainerSpec

\* A container that Docker calls healthy has its own squid at work on a complete
\* database and cache, whatever is edited, killed or started by podman exec.
THEOREM HealthyIsReady == ASSUME ~ExecDuringBoot PROVE ContainerSpec => []HealthyServesReady
<1>1. P!IInv /\ OnlyMainServes /\ Served => HealthyServesReady
  BY Zenon DEF P!IInv, P!HealthyMeansServing, Listens, OnlyMainServes, Served, Procs,
     HealthyServesReady
<1> QED
  BY <1>1, ProbeInvariance, ContainerRunsInit, OnlyMain, ServedInvariance, PTL
-----------------------------------------------------------------------------
(***************************************************************************)
(* --setup-dirs.                                                           *)
(***************************************************************************)

DirType == [mode : Modes, owner : Owners]

\* What is known of a row: its table has it once, and what it asks for is in its type.
LEMMA RowFields ==
  ASSUME NEW t \in Tables, NEW i \in 1..Len(t)
  PROVE  /\ Len(t) \in Nat /\ t[i].path \in Prefixed(t[i].path)
         /\ t[i].owner \in Owners /\ t[i].mode \in Modes
         /\ Perm(t[i].mode) \in Modes /\ Created(t[i].mode) \in Modes
         /\ \A j \in 1..Len(t) : t[i].path = t[j].path => i = j
         /\ t[i].owner = "user" => \A p \in Prefixed(t[i].path) : \A j \in 1..Len(t) :
              /\ t[j].path = p => UserEnters(Dir(Perm(t[j].mode), t[j].owner))
              /\ p \in Prefixed(t[j].path) \ Named(t) => UserEnters(Dir(Created(t[j].mode), "root"))
<1>1. t \in Seq(RowType)
  BY TablesAssumption DEF Sound
<1>2. Len(t) \in Nat /\ t[i] \in RowType
  BY <1>1
<1>x. t[i].mode \in Modes /\ t[i].owner \in Owners
  BY <1>2 DEF RowType
<1>3. Perm(t[i].mode) \in Modes /\ Created(t[i].mode) \in Modes
  <2>1. t[i].mode \in {700, 750, 755, 777, 1777}
    BY <1>x DEF Modes
  <2> QED
    BY <2>1 DEF Perm, Created, Modes
<1>4. t[i].path \in Prefixed(t[i].path)
  BY DEF Prefixed
<1>5. Sound(t)
  BY TablesAssumption
<1> QED
  BY <1>2, <1>x, <1>3, <1>4, <1>5, Zenon DEF Sound

\* The layers below hold directories, of which those without a row are open.
LEMMA LayersTyped ==
  ASSUME NEW t, NEW f \in Layers(t)
  PROVE  /\ f \in [DOMAIN f -> DirType]
         /\ \A p \in DOMAIN f \ Named(t) : UserEnters(f[p])
<1>1. PICK dirs \in WithParents(t), mode \in {700, 755} :
        f = [p \in dirs |-> Dir(IF p \in Named(t) THEN mode ELSE 755, "root")]
  BY DEF Layers
<1>2. \A p \in dirs : f[p] = Dir(IF p \in Named(t) THEN mode ELSE 755, "root")
  BY <1>1
<1>3. DOMAIN f = dirs
  BY <1>1
<1>4. \A p \in dirs : f[p] \in DirType
  <2> SUFFICES ASSUME NEW p \in dirs PROVE f[p] \in DirType
    OBVIOUS
  <2>1. f[p] = Dir(mode, "root") \/ f[p] = Dir(755, "root")
    BY <1>2
  <2> QED
    BY <2>1 DEF Dir, DirType, Modes, Owners
<1>5. \A p \in dirs \ Named(t) : UserEnters(f[p])
  <2> SUFFICES ASSUME NEW p \in dirs, p \notin Named(t) PROVE UserEnters(f[p])
    OBVIOUS
  <2>1. f[p] = Dir(755, "root")
    BY <1>2
  <2> QED
    BY <2>1 DEF Dir, UserEnters, Others
<1> QED
  BY <1>1, <1>3, <1>4, <1>5

\* What the loop has done so far: the turns that are over, the one that is
\* on, and no directory without a row that keeps the user out.
TurnOver(i) == i < row \/ call = "done"
SetupInv ==
  /\ table \in Tables /\ row \in 1..Len(table)
  /\ call \in {"mkdir", "chmod", "chown", "done", "failed"}
  /\ fs \in [DOMAIN fs -> DirType]
  /\ \A i \in 1..Len(table) : TurnOver(i) =>
       /\ Prefixed(table[i].path) \subseteq DOMAIN fs
       /\ fs[table[i].path] = Dir(Perm(table[i].mode), table[i].owner)
  /\ call \in {"chmod", "chown"} => Prefixed(table[row].path) \subseteq DOMAIN fs
  /\ call = "chown" => fs[table[row].path].mode = Perm(table[row].mode)
  /\ \A i \in 1..Len(table) : table[i].owner = "user" =>
       \A p \in (DOMAIN fs \cap Prefixed(table[i].path)) \ Named(table) : UserEnters(fs[p])

\* It is inductive: a turn leaves the directories of the others alone, and makes
\* none on the way of the user's that keeps the user out.
LEMMA SetupInvariance == SetupSpec => []SetupInv
<1>1. SetupInit => SetupInv
  <2> SUFFICES ASSUME SetupInit PROVE SetupInv
    OBVIOUS
  <2>1. table \in Tables /\ table # <<>> /\ row = 1 /\ call = "mkdir" /\ fs \in Layers(table)
    BY TablesAssumption DEF SetupInit
  <2>2. row \in 1..Len(table)
    <3>1. table \in Seq(RowType)
      BY <2>1, TablesAssumption DEF Sound
    <3> QED
      BY <2>1, <3>1
  <2>3. \A i \in 1..Len(table) : ~TurnOver(i)
    BY <2>1, <2>2, RowFields DEF TurnOver
  <2> QED
    BY <2>1, <2>2, <2>3, LayersTyped DEF SetupInv, DirType
<1>2. SetupInv /\ [SetupNext]_setupVars => SetupInv'
  <2> SUFFICES ASSUME SetupInv, [SetupNext]_setupVars PROVE SetupInv'
    OBVIOUS
  <2>t. table \in Tables /\ row \in 1..Len(table) /\ Len(table) \in Nat
    BY RowFields DEF SetupInv
  <2>f. fs \in [DOMAIN fs -> DirType]
    BY DEF SetupInv, DirType
  <2>r. Path = table[row].path /\ Mode = table[row].mode /\ Owner = table[row].owner
    BY DEF Path, Mode, Owner, Rows
  <2>d. ASSUME NEW m, NEW o PROVE Dir(m, o).mode = m /\ Dir(m, o).owner = o
    BY DEF Dir
  <2>1. CASE Mkdir
    <3>1. /\ call = "mkdir" /\ call' = "chmod" /\ UNCHANGED <<table, row>>
          /\ DOMAIN fs' = DOMAIN fs \cup Prefixed(table[row].path)
          /\ \A p \in DOMAIN fs : fs'[p] = fs[p]
          /\ \A p \in Prefixed(table[row].path) \ DOMAIN fs :
               fs'[p] = Dir(Created(table[row].mode), "root")
          /\ fs' = [p \in DOMAIN fs' |-> fs'[p]]
      BY <2>1, <2>r DEF Mkdir
    <3>2. fs' \in [DOMAIN fs' -> DirType]
      <4>1. Dir(Created(table[row].mode), "root") \in DirType
        BY <2>t, RowFields DEF Dir, DirType, Owners
      <4>2. \A p \in DOMAIN fs : fs[p] \in DirType
        BY <2>f
      <4>3. \A p \in DOMAIN fs' : fs'[p] \in DirType
        BY <3>1, <4>1, <4>2
      <4> QED
        BY <3>1, <4>3, Zenon
    <3>3. ASSUME NEW i \in 1..Len(table), TurnOver(i)'
          PROVE  Prefixed(table[i].path) \subseteq DOMAIN fs' /\ fs'[table[i].path] = Dir(Perm(table[i].mode), table[i].owner)
      <4>1. TurnOver(i)
        BY <3>1, <3>3 DEF TurnOver
      <4>2. Prefixed(table[i].path) \subseteq DOMAIN fs /\ fs[table[i].path] = Dir(Perm(table[i].mode), table[i].owner)
        BY <4>1 DEF SetupInv
      <4>3. table[i].path \in DOMAIN fs
        BY <4>2, <2>t, RowFields
      <4> QED
        BY <3>1, <4>2, <4>3
    <3>4. ASSUME NEW i \in 1..Len(table), table[i].owner = "user",
                 NEW p \in (DOMAIN fs' \cap Prefixed(table[i].path)) \ Named(table)
          PROVE  UserEnters(fs'[p])
      <4>1. CASE p \in DOMAIN fs
        BY <3>1, <3>4, <4>1 DEF SetupInv
      <4>2. CASE p \notin DOMAIN fs
        <5>1. p \in Prefixed(table[row].path) \ Named(table)
          BY <3>1, <4>2
        <5>2. UserEnters(Dir(Created(table[row].mode), "root"))
          BY <2>t, <3>4, <5>1, RowFields
        <5> QED
          BY <3>1, <4>2, <5>1, <5>2
      <4> QED
        BY <4>1, <4>2
    <3>5. Prefixed(table[row].path) \subseteq DOMAIN fs'
      BY <3>1
    <3> QED
      BY <2>t, <3>1, <3>2, <3>3, <3>4, <3>5 DEF SetupInv, DirType
  <2>2. ASSUME call \in {"chmod", "chown"}, table' = table, DOMAIN fs' = DOMAIN fs,
               \A p \in DOMAIN fs \ {table[row].path} : fs'[p] = fs[p],
               fs'[table[row].path] \in DirType, fs' = [p \in DOMAIN fs' |-> fs'[p]]
        PROVE  /\ fs' \in [DOMAIN fs' -> DirType]
               /\ \A i \in 1..Len(table) : TurnOver(i) =>
                    /\ Prefixed(table[i].path) \subseteq DOMAIN fs'
                    /\ fs'[table[i].path] = Dir(Perm(table[i].mode), table[i].owner)
               /\ Prefixed(table[row].path) \subseteq DOMAIN fs'
               /\ \A i \in 1..Len(table) : table[i].owner = "user" =>
                    \A p \in (DOMAIN fs' \cap Prefixed(table[i].path)) \ Named(table) :
                      UserEnters(fs'[p])
    <3>1. fs' \in [DOMAIN fs' -> DirType]
      <4>1. \A p \in DOMAIN fs : fs[p] \in DirType
        BY <2>f
      <4>2. \A p \in DOMAIN fs' : fs'[p] \in DirType
        BY <2>2, <4>1
      <4> QED
        BY <2>2, <4>2, Zenon
    <3>2. ASSUME NEW i \in 1..Len(table), TurnOver(i)
          PROVE  /\ Prefixed(table[i].path) \subseteq DOMAIN fs'
                 /\ fs'[table[i].path] = Dir(Perm(table[i].mode), table[i].owner)
      <4>1. i # row
        BY <2>2, <2>t, <3>2 DEF TurnOver
      <4>2. table[i].path # table[row].path
        BY <4>1, <2>t, RowFields
      <4>3. Prefixed(table[i].path) \subseteq DOMAIN fs
            /\ fs[table[i].path] = Dir(Perm(table[i].mode), table[i].owner)
        BY <3>2 DEF SetupInv
      <4>4. table[i].path \in DOMAIN fs
        BY <4>3, <2>t, RowFields
      <4> QED
        BY <2>2, <4>2, <4>3, <4>4
    <3>3. table[row].path \in Named(table)
      BY <2>t DEF Named
    <3>4. Prefixed(table[row].path) \subseteq DOMAIN fs'
      BY <2>2 DEF SetupInv
    <3>5. ASSUME NEW i \in 1..Len(table), table[i].owner = "user",
                 NEW p \in (DOMAIN fs' \cap Prefixed(table[i].path)) \ Named(table)
          PROVE  UserEnters(fs'[p])
      <4>1. UserEnters(fs[p])
        BY <2>2, <3>5 DEF SetupInv
      <4>2. p # table[row].path /\ p \in DOMAIN fs
        BY <2>2, <3>3
      <4>3. fs'[p] = fs[p]
        BY <2>2, <4>2
      <4> QED
        BY <4>1, <4>3, Zenon
    <3> QED
      BY <3>1, <3>2, <3>4, <3>5
  <2>p. call \in {"chmod", "chown"} => table[row].path \in DOMAIN fs
    BY <2>t, RowFields DEF SetupInv
  <2>5. CASE Chmod
    <3>1. /\ call = "chmod" /\ call' = "chown" /\ UNCHANGED <<table, row>>
          /\ fs' = [fs EXCEPT ![table[row].path].mode = Perm(table[row].mode)]
      BY <2>5, <2>r DEF Chmod
    <3>2. table[row].path \in DOMAIN fs /\ fs[table[row].path] \in DirType
      BY <2>p, <2>f, <3>1
    <3>3. fs'[table[row].path] \in DirType /\ fs'[table[row].path].mode = Perm(table[row].mode)
      BY <2>t, <2>f, <3>1, <3>2, RowFields DEF DirType
    <3>4. DOMAIN fs' = DOMAIN fs /\ fs' = [p \in DOMAIN fs' |-> fs'[p]]
          /\ \A p \in DOMAIN fs \ {table[row].path} : fs'[p] = fs[p]
      BY <2>f, <3>1
    <3>5. \A i \in 1..Len(table) : TurnOver(i)' => TurnOver(i)
      BY <3>1 DEF TurnOver
    <3> QED
      BY <2>2, <2>t, <3>1, <3>3, <3>4, <3>5 DEF SetupInv, DirType
  <2>6. CASE Chown
    <3>1. /\ call = "chown" /\ table' = table
          /\ fs' = [fs EXCEPT ![table[row].path].owner = table[row].owner]
          /\ \/ row < Len(table) /\ row' = row + 1 /\ call' = "mkdir"
             \/ row = Len(table) /\ row' = row /\ call' = "done"
      BY <2>6, <2>r, <2>t DEF Chown, Rows
    <3>2. table[row].path \in DOMAIN fs /\ fs[table[row].path] \in DirType
      BY <2>p, <2>f, <3>1
    <3>3. fs'[table[row].path] \in DirType
          /\ fs'[table[row].path] = Dir(Perm(table[row].mode), table[row].owner)
      <4>1. fs[table[row].path].mode = Perm(table[row].mode)
        BY <3>1 DEF SetupInv
      <4> QED
        BY <2>t, <2>f, <3>1, <3>2, <4>1, RowFields DEF DirType, Dir
    <3>4. DOMAIN fs' = DOMAIN fs /\ fs' = [p \in DOMAIN fs' |-> fs'[p]]
          /\ \A p \in DOMAIN fs \ {table[row].path} : fs'[p] = fs[p]
      BY <2>f, <3>1
    <3>5. \A i \in 1..Len(table) : TurnOver(i)' => TurnOver(i) \/ i = row
      BY <3>1, <2>t DEF TurnOver
    <3>6. row' \in 1..Len(table) /\ call' \in {"mkdir", "done"}
      BY <3>1, <2>t
    <3>7. \A i \in 1..Len(table) : TurnOver(i)' =>
            /\ Prefixed(table[i].path) \subseteq DOMAIN fs'
            /\ fs'[table[i].path] = Dir(Perm(table[i].mode), table[i].owner)
      BY <2>2, <3>1, <3>3, <3>4, <3>5
    <3> QED
      BY <2>2, <2>t, <3>1, <3>3, <3>4, <3>6, <3>7 DEF SetupInv, DirType
  <2>3. CASE Fail
    BY <2>3, <2>t DEF Fail, SetupInv, TurnOver
  <2>4. CASE UNCHANGED setupVars
    BY <2>4 DEF setupVars, SetupInv, TurnOver
  <2> QED
    BY <2>1, <2>3, <2>4, <2>5, <2>6 DEF SetupNext
<1> QED
  BY <1>1, <1>2, PTL DEF SetupSpec

\* Under the same permissions others may do the same: the sticky bit is not for them.
LEMMA OthersOfPerm == ASSUME NEW m \in Modes PROVE Others(Perm(m)) = Others(m)
<1>1. m \in {700, 750, 755, 777} => Perm(m) = m
  BY DEF Perm
<1>2. m = 1777 => Perm(m) = 777
  BY DEF Perm
<1> QED
  BY <1>1, <1>2 DEF Others, Modes

\* Each image is built with its directories usable, for every sound table of them
\* and whatever the layers below left (squid/init.go:150-153): it takes no order of
\* the rows, only one for each parent that a closed row below would create.  It says
\* who may enter and write, not that /tmp is sticky.
THEOREM BuiltUsable == SetupSpec => []DirsUsable
<1>1. SetupInv => DirsUsable
  <2> SUFFICES ASSUME SetupInv, call = "done",
                      NEW i \in 1..Len(table)
               PROVE  /\ fs[table[i].path].owner = table[i].owner
                      /\ Others(fs[table[i].path].mode) = Others(table[i].mode)
                      /\ table[i].owner = "user" =>
                           \A p \in Prefixed(table[i].path) : UserEnters(fs[p])
    BY DEF DirsUsable
  <2>1. /\ Prefixed(table[i].path) \subseteq DOMAIN fs
        /\ fs[table[i].path] = Dir(Perm(table[i].mode), table[i].owner)
    BY DEF SetupInv, TurnOver
  <2>2. ASSUME table[i].owner = "user", NEW p \in Prefixed(table[i].path)
        PROVE  UserEnters(fs[p])
    <3>1. CASE p \in Named(table)
      <4>1. PICK j \in 1..Len(table) : table[j].path = p
        BY <3>1 DEF Named
      <4>2. fs[p] = Dir(Perm(table[j].mode), table[j].owner)
        BY <4>1 DEF SetupInv, TurnOver
      <4>3. table \in Tables
        BY DEF SetupInv
      <4>4. UserEnters(Dir(Perm(table[j].mode), table[j].owner))
        BY <2>2, <4>1, <4>3, RowFields, Zenon
      <4> QED
        BY <4>2, <4>4, Zenon
    <3>2. CASE p \notin Named(table)
      BY <2>1, <2>2, <3>2 DEF SetupInv
    <3> QED
      BY <3>1, <3>2
  <2>3. Others(Perm(table[i].mode)) = Others(table[i].mode)
    BY OthersOfPerm, RowFields DEF SetupInv
  <2>4. Dir(Perm(table[i].mode), table[i].owner).mode = Perm(table[i].mode)
        /\ Dir(Perm(table[i].mode), table[i].owner).owner = table[i].owner
    BY DEF Dir
  <2> QED
    BY <2>1, <2>2, <2>3, <2>4
<1> QED
  BY <1>1, SetupInvariance, PTL
=============================================================================
