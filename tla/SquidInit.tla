----------------------------- MODULE SquidInit -----------------------------
(***************************************************************************)
(* The entrypoint of the squid container, squid/init.go, from the start of *)
(* the container to the squid it execs, with what it shares with the other *)
(* processes of the container and with the containers before and after it: *)
(* the pid file, the SSL certificate database, the cache directory, the    *)
(* mounted configuration and the ownership of the volumes.                 *)
(*                                                                         *)
(* Main is the init that tini (PID 1) starts; Execs are the inits that     *)
(* `podman exec` starts in a running container.  The container lives as    *)
(* long as Main: when Main ends every process of the container ends, and   *)
(* the restart policy starts it again in a new pid namespace over the same *)
(* volumes.  squid, security_file_certgen and podman are not in the        *)
(* repository: their actions are modelled from how init.go uses them and   *)
(* from what its comments report.                                          *)
(***************************************************************************)
EXTENDS Naturals

CONSTANTS
  Main,            \* the init started by tini
  Execs,           \* the inits started by podman exec
  Pids,            \* process numbers of a pid namespace
  NoPid,           \* content of a pid file that does not exist
  Paths,           \* pid files a configuration can name
  NoPath,          \* the path of "pid_filename none"
  OnTmpfs,         \* the paths lost with the container (tmpfs, not a volume)
  Configs,         \* configurations the operator may mount
  ExecDuringBoot,  \* may podman exec run before Main's squid serves?
  EditDuringBoot,  \* may the configuration change before Main's squid serves?
  MaxFaults        \* bound: kills, stops, edits and failures of commands

Procs == {Main} \cup Execs

\* pid_filename as pidFile() finds it in the main file, the one squid ends up
\* with once the included files are read, and what else the entrypoint looks at.
ConfigType == [file  : {"good", "broken", "unreadable"},
               pid   : Paths \cup {NoPath},
               eff   : Paths \cup {NoPath},
               bump  : BOOLEAN,
               cache : {"none", "rock", "ufs"}]

Kinds == {"rock", "ufs"}    \* of caches

Volumes == {"ssl_db", "spool", "run"}

ASSUME ProcsAssumption == Main \notin Execs
ASSUME PidsAssumption  == NoPid \notin Pids
ASSUME PathsAssumption == NoPath \notin Paths /\ OnTmpfs \subseteq Paths
ASSUME ConfigsAssumption == Configs \subseteq ConfigType
ASSUME BootAssumption == ExecDuringBoot \in BOOLEAN /\ EditDuringBoot \in BOOLEAN
ASSUME FaultsAssumption == MaxFaults \in Nat

VARIABLES
  pc,       \* where each process is
  pidOf,    \* the number of each process in the current pid namespace
  loaded,   \* the configuration text each init, then its squid, works from
  conf,     \* the configuration file now
  pidfile,  \* content of each pid file
  mime,     \* does /etc/squid/mime.conf exist?
  vol,      \* can the squid user write to each volume?
  db,       \* /var/lib/ssl_db/db: a directory is "ready" with its index.txt
  spool,    \* the cache directories of each kind; "ufs" ones begin with 00
  faults    \* faults so far

vars == <<pc, pidOf, loaded, conf, pidfile, mime, vol, db, spool, faults>>

InitLabels == {"mime", "read", "ssl", "dbcheck", "wipe", "mkdb", "fill",
               "cache", "spool", "create", "pid", "parse", "exec"}
              \cup Kinds    \* `squid -z` is creating a cache of that kind
SquidLabels == {"boot", "serving"}
Labels == InitLabels \cup SquidLabels \cup {"down", "exited"}

Up(p) == pc[p] \notin {"down", "exited"}
SquidUp(p) == pc[p] \in SquidLabels
Alive(n) == \E p \in Procs : Up(p) /\ pidOf[p] = n
Holds(p) == SquidUp(p) /\ loaded[p].eff # NoPath
Numberings == {f \in [Procs -> Pids] : \A p, q \in Procs : f[p] = f[q] => p = q}

Init ==
  /\ pc = [p \in Procs |-> "down"]
  /\ pidOf \in Numberings
  /\ conf \in Configs
  /\ loaded = [p \in Procs |-> conf]
  /\ pidfile = [f \in Paths |-> NoPid]
  /\ mime = FALSE
  /\ vol \in [Volumes -> {"ok", "fixable", "denied"}]
  /\ db = "absent"
  /\ spool = [k \in Kinds |-> "empty"]
  /\ faults = 0

Go(p, label) == pc' = [pc EXCEPT ![p] = label]

\* The process ends; with Main the whole container ends.
End(p) == pc' = IF p = Main THEN [q \in Procs |-> "down"]
                            ELSE [pc EXCEPT ![p] = "exited"]

NoFault == UNCHANGED faults
Fault == faults < MaxFaults /\ faults' = faults + 1
-----------------------------------------------------------------------------
(***************************************************************************)
(* The container and its operator.                                         *)
(***************************************************************************)
StartContainer ==
  /\ pc[Main] = "down"
  /\ Go(Main, "mime")
  /\ pidOf' \in Numberings
  /\ loaded' = [p \in Procs |-> conf]    \* nothing is loaded: any value will do
  /\ pidfile' = [f \in Paths |-> IF f \in OnTmpfs THEN NoPid ELSE pidfile[f]]
  /\ UNCHANGED <<conf, mime, vol, db, spool, faults>>

PodmanExec(p) ==
  /\ p # Main
  /\ pc[p] = "down"
  /\ Up(Main)
  /\ ExecDuringBoot \/ pc[Main] = "serving"
  /\ Go(p, "mime")
  /\ UNCHANGED <<pidOf, loaded, conf, pidfile, mime, vol, db, spool, faults>>

EditConfig ==
  /\ Fault
  /\ EditDuringBoot \/ pc[Main] \in {"down", "serving"}
  /\ conf' \in Configs \ {conf}
  /\ UNCHANGED <<pc, pidOf, loaded, pidfile, mime, vol, db, spool>>

\* The chown on the host that the error message of ensureWritable asks for.
FixVolume(v) ==
  /\ vol[v] # "ok"
  /\ vol' = [vol EXCEPT ![v] = "ok"]
  /\ UNCHANGED <<pc, pidOf, loaded, conf, pidfile, mime, db, spool, faults>>

\* SIGKILL, a crash, a reboot: nothing on the volumes is cleaned up.
Kill(p) ==
  /\ Up(p)
  /\ Fault
  /\ End(p)
  /\ UNCHANGED <<pidOf, loaded, conf, pidfile, mime, vol, db, spool>>
-----------------------------------------------------------------------------
(***************************************************************************)
(* Step 0: mime.conf, hidden when /etc/squid is a volume, is linked back;  *)
(* the link is best-effort.                                                *)
(***************************************************************************)
LinkMime(p) ==
  /\ pc[p] = "mime"
  /\ mime' \in {mime, TRUE}
  /\ Go(p, "read")
  /\ UNCHANGED <<pidOf, loaded, conf, pidfile, vol, db, spool, faults>>

(***************************************************************************)
(* Step 1: the configuration and, under SSL bump, the certificate database.*)
(***************************************************************************)
ReadConf(p) ==
  /\ pc[p] = "read"
  /\ IF conf.file = "unreadable"
       THEN End(p) /\ UNCHANGED loaded
       ELSE /\ loaded' = [loaded EXCEPT ![p] = conf]
            /\ Go(p, IF conf.bump THEN "ssl" ELSE "cache")
  /\ UNCHANGED <<pidOf, conf, pidfile, mime, vol, db, spool, faults>>

\* ensureWritable: the directory is writable, or a chown makes it so, or the
\* init ends with the fix to apply on the host.
EnsureWritable(p, v, next) ==
  IF vol[v] = "denied"
    THEN End(p) /\ UNCHANGED vol
    ELSE Go(p, next) /\ vol' = [vol EXCEPT ![v] = "ok"]

CheckSslDir(p) ==
  /\ pc[p] = "ssl"
  /\ EnsureWritable(p, "ssl_db", "dbcheck")
  /\ UNCHANGED <<pidOf, loaded, conf, pidfile, mime, db, spool, faults>>

NeedsDbAlways == TRUE         \* mutant: the test of index.txt dropped
NeedsDb == db # "ready"

LookForDb(p) ==
  /\ pc[p] = "dbcheck"
  /\ Go(p, IF NeedsDb THEN "wipe" ELSE "cache")
  /\ UNCHANGED <<pidOf, loaded, conf, pidfile, mime, vol, db, spool, faults>>

OnlyEmptied == "emptied"      \* mutant: the content goes, the directory stays
AfterRemoveAll == "absent"

\* A failing RemoveAll is only warned about.
RemoveDb(p) ==
  /\ pc[p] = "wipe"
  /\ Go(p, "mkdb")
  /\ \/ NoFault /\ db' = AfterRemoveAll
     \/ Fault /\ UNCHANGED db
  /\ UNCHANGED <<pidOf, loaded, conf, pidfile, mime, vol, spool>>

\* security_file_certgen -c creates the directory itself, and fails on one
\* that exists; index.txt is the last file it writes.
MakeDb(p) ==
  /\ pc[p] = "mkdb"
  /\ \/ db = "absent" /\ NoFault /\ db' = "partial" /\ Go(p, "fill")
     \/ db # "absent" /\ NoFault /\ End(p) /\ UNCHANGED db
     \/ Fault /\ End(p) /\ UNCHANGED db
  /\ UNCHANGED <<pidOf, loaded, conf, pidfile, mime, vol, spool>>

FillDb(p) ==
  /\ pc[p] = "fill"
  /\ \/ db # "absent" /\ NoFault /\ db' = "ready" /\ Go(p, "cache")
     \/ db = "absent" /\ NoFault /\ End(p) /\ UNCHANGED db
     \/ Fault /\ End(p) /\ UNCHANGED db
  /\ UNCHANGED <<pidOf, loaded, conf, pidfile, mime, vol, spool>>
-----------------------------------------------------------------------------
(***************************************************************************)
(* Step 2: the cache directories, created by `squid -N -z` when the        *)
(* configuration has a cache_dir and the spool no 00; its failure is       *)
(* ignored.  It reads the configuration again, which may ask for another   *)
(* cache by now, and comes before the pid step: it may refuse to run over  *)
(* the number in a stale pid file.                                         *)
(***************************************************************************)
StraightToParse == "parse"    \* mutant: the pid step only after a cache step
WithoutCacheInit == "pid"

LookForCache(p) ==
  /\ pc[p] = "cache"
  /\ Go(p, IF loaded[p].cache # "none" /\ spool["ufs"] = "empty"
             THEN "spool" ELSE WithoutCacheInit)
  /\ UNCHANGED <<pidOf, loaded, conf, pidfile, mime, vol, db, spool, faults>>

CheckSpool(p) ==
  /\ pc[p] = "spool"
  /\ EnsureWritable(p, "spool", "create")
  /\ UNCHANGED <<pidOf, loaded, conf, pidfile, mime, db, spool, faults>>

PidInUse == conf.eff # NoPath /\ Alive(pidfile[conf.eff])

CreateCache(p) ==
  /\ pc[p] = "create"
  /\ \/ /\ conf.file = "good" /\ conf.cache \in Kinds /\ NoFault
        /\ Go(p, conf.cache)
        /\ spool' = [spool EXCEPT ![conf.cache] = IF @ = "empty" THEN "partial" ELSE @]
     \/ /\ conf.file = "good" => conf.cache \notin Kinds \/ PidInUse
        /\ NoFault /\ Go(p, "pid") /\ UNCHANGED spool
     \/ Fault /\ Go(p, "pid") /\ UNCHANGED spool
  /\ UNCHANGED <<pidOf, loaded, conf, pidfile, mime, vol, db>>

FinishCache(p) ==
  /\ pc[p] \in Kinds
  /\ Go(p, "pid")
  /\ \/ NoFault /\ spool' = [spool EXCEPT ![pc[p]] = "complete"]
     \/ Fault /\ UNCHANGED spool
  /\ UNCHANGED <<pidOf, loaded, conf, pidfile, mime, vol, db>>

(***************************************************************************)
(* Step 3: the pid file of the previous container.                         *)
(***************************************************************************)
AnyProcess(p) == TRUE           \* mutant: no test of the parent
NoProcess(p) == FALSE           \* mutant: the file is never removed
IsMainProcess(p) == p = Main    \* os.Getppid() == 1: the parent is tini

\* os.Remove on the file: absent is fine, present in a directory the squid
\* user cannot write to is an error.
RemoveStalePid(p) ==
  /\ pc[p] = "pid"
  /\ LET path == loaded[p].pid
         stays == ~IsMainProcess(p) \/ path = NoPath
     IN  IF stays
           THEN Go(p, "parse") /\ UNCHANGED pidfile
           ELSE IF pidfile[path] # NoPid /\ vol["run"] # "ok"
                  THEN End(p) /\ UNCHANGED pidfile
                  ELSE Go(p, "parse") /\ pidfile' = [pidfile EXCEPT ![path] = NoPid]
  /\ UNCHANGED <<pidOf, loaded, conf, mime, vol, db, spool, faults>>

(***************************************************************************)
(* Steps 4 and 5: `squid -k parse`, then exec.                             *)
(***************************************************************************)
ParseCheck(p) ==
  /\ pc[p] = "parse"
  /\ IF conf.file = "good" THEN Go(p, "exec") ELSE End(p)
  /\ UNCHANGED <<pidOf, loaded, conf, pidfile, mime, vol, db, spool, faults>>

\* squid reads the configuration again; it leaves when the number in its pid
\* file is that of a live process, or when it cannot write the file.
CanStart == /\ conf.file = "good"
            /\ conf.eff # NoPath => vol["run"] = "ok"
            /\ ~PidInUse

StartSquid(p) ==
  /\ pc[p] = "exec"
  /\ CanStart
  /\ loaded' = [loaded EXCEPT ![p] = conf]
  /\ pidfile' = [f \in Paths |-> IF f = conf.eff THEN pidOf[p] ELSE pidfile[f]]
  /\ Go(p, "boot")
  /\ UNCHANGED <<pidOf, conf, mime, vol, db, spool, faults>>

\* squid leaves at once, or the exec itself fails (command not found).
FailToStart(p) ==
  /\ pc[p] = "exec"
  /\ \/ ~CanStart /\ NoFault
     \/ Fault
  /\ End(p)
  /\ UNCHANGED <<pidOf, loaded, conf, pidfile, mime, vol, db, spool>>
-----------------------------------------------------------------------------
(***************************************************************************)
(* squid, once its pid file is written.                                    *)
(***************************************************************************)
StateReady(c) == /\ c.bump => db = "ready"
                 /\ c.cache # "none" => spool[c.cache] = "complete"

CanServe(p) == /\ StateReady(loaded[p])
               /\ \A q \in Procs : pc[q] # "serving"    \* the port is free

WithoutPidFile(p) == [f \in Paths |-> IF f = loaded[p].eff THEN NoPid ELSE pidfile[f]]

Serve(p) ==
  /\ pc[p] = "boot"
  /\ CanServe(p)
  /\ Go(p, "serving")
  /\ UNCHANGED <<pidOf, loaded, conf, pidfile, mime, vol, db, spool, faults>>

\* A fatal error during start-up; the pid file may stay.
Fatal(p) ==
  /\ pc[p] = "boot"
  /\ ~CanServe(p)
  /\ End(p)
  /\ pidfile' \in {pidfile, WithoutPidFile(p)}
  /\ UNCHANGED <<pidOf, loaded, conf, mime, vol, db, spool, faults>>

\* SIGTERM: squid unlinks the pid file it wrote.
Stop(p) ==
  /\ SquidUp(p)
  /\ Fault
  /\ End(p)
  /\ pidfile' = WithoutPidFile(p)
  /\ UNCHANGED <<pidOf, loaded, conf, mime, vol, db, spool>>
-----------------------------------------------------------------------------
\* The steps a process takes by itself.
Run(p) ==
  \/ LinkMime(p) \/ ReadConf(p)
  \/ CheckSslDir(p) \/ LookForDb(p) \/ RemoveDb(p) \/ MakeDb(p) \/ FillDb(p)
  \/ LookForCache(p) \/ CheckSpool(p) \/ CreateCache(p) \/ FinishCache(p)
  \/ RemoveStalePid(p) \/ ParseCheck(p) \/ StartSquid(p) \/ FailToStart(p)
  \/ Serve(p) \/ Fatal(p)

Next ==
  \/ StartContainer
  \/ EditConfig
  \/ \E v \in Volumes : FixVolume(v)
  \/ \E p \in Procs : Run(p) \/ PodmanExec(p) \/ Kill(p) \/ Stop(p)

Spec == Init /\ [][Next]_vars

\* The processes run, and the restart policy of the container starts it again
\* (docker-compose.yml: restart: unless-stopped).  The operator owes nothing.
FairSpec == Spec /\ WF_vars(StartContainer) /\ WF_vars(Run(Main))
-----------------------------------------------------------------------------
(***************************************************************************)
(* Properties.                                                             *)
(***************************************************************************)

\* Every variable keeps its type.
TypeOK ==
  /\ pc \in [Procs -> Labels]
  /\ pidOf \in Numberings
  /\ loaded \in [Procs -> Configs]
  /\ conf \in Configs
  /\ pidfile \in [Paths -> Pids \cup {NoPid}]
  /\ mime \in BOOLEAN
  /\ vol \in [Volumes -> {"ok", "fixable", "denied"}]
  /\ db \in {"absent", "partial", "ready"}
  /\ spool \in [Kinds -> {"empty", "partial", "complete"}]
  /\ faults \in 0..MaxFaults

\* The outage the pid step exists for (init.go:259-269): when the container's
\* squid is about to start, a live number in its pid file is that of a squid of
\* podman exec that really runs on this pid file, never a stale one: provided that
\* the init read what squid will read, and found the pid file squid will use.
NoFalseRefusal ==
  pc[Main] = "exec" /\ loaded[Main] = conf /\ conf.pid = conf.eff /\ PidInUse =>
    \E q \in Procs \ {Main} : Holds(q) /\ loaded[q].eff = conf.eff
                             /\ pidOf[q] = pidfile[conf.eff]

\* From its start to its end the container's squid finds its own number in its
\* pid file, whatever the inits started by podman exec do: losing it would
\* let a second squid start and break squid -k.
MainPidKept ==
  Holds(Main) => pidfile[loaded[Main].eff] = pidOf[Main]

\* The conditions under which a starting container is alone with its files: no
\* podman exec before its squid serves, no edit of its configuration while it
\* starts, and no pid_filename hidden in an included file.
QuietBoot == /\ ~ExecDuringBoot
             /\ ~EditDuringBoot
             /\ \A c \in Configs : c.eff = c.pid

\* The invariants the refinement below rests on.  podman exec comes
\* after the container's squid serves; two squids never share a pid file, and
\* Main's holds its number; past the pid step Main's pid file is gone, and the
\* configuration Main read is still the one squid will read.
ExecsAfterServe ==
  pc[Main] # "serving" => \A p \in Execs : pc[p] = "down"
PidInv ==
  /\ MainPidKept
  /\ \A p \in Execs : Holds(p) /\ Holds(Main) => loaded[p].eff # loaded[Main].eff
BootInv ==
  /\ pc[Main] \in InitLabels \ {"mime", "read"} => loaded[Main] = conf
  /\ pc[Main] \in {"parse", "exec"} /\ conf.eff # NoPath => pidfile[conf.eff] = NoPid

\* The serving squid of the container never loses what the init prepared for
\* it: the certificate database under SSL bump, the whole cache tree with a
\* cache_dir.
ServesOnReadyState ==
  pc[Main] = "serving" => StateReady(loaded[Main])

\* The pid file of a squid that runs, the container's own or one of podman exec,
\* whenever it was started, is lost in two ways only: to another squid that ends
\* and takes the file for its own, or, with the squid of an exec, to the container's
\* init, which takes any file it finds for stale (init.go:266-269).
OwnsPid(p) == Holds(p) /\ pidfile[loaded[p].eff] = pidOf[p]
Ends(p) == SquidUp(p) /\ ~SquidUp(p)'
PidTaken ==
  [][\A p \in Procs : OwnsPid(p) /\ SquidUp(p)' =>
       \/ OwnsPid(p)'
       \/ \E q \in Procs \ {p} : Ends(q) /\ loaded[q].eff = loaded[p].eff
       \/ p # Main /\ pc[Main] = "pid" /\ loaded[Main].pid = loaded[p].eff]_vars

\* "No other squid shares a starting container's pid namespace: the file is
\* necessarily stale" (init.go:266-267): the pid step never takes the file of a
\* squid that runs.
InitRemovesOnlyStale ==
  [][\A p, q \in Procs :
       pc[p] = "pid" /\ pc'[p] = "parse" /\ Holds(q)
         => pidfile'[loaded[q].eff] = pidfile[loaded[q].eff]]_vars

\* "Cache init (if cache_dir directive present and cache empty)"
\* (init.go:249): an empty cache is always initialised, the step is only
\* skipped when there is nothing to do.
CacheInitWhenEmpty ==
  [][\A p \in Procs :
       pc[p] = "cache" /\ pc'[p] = "pid" /\ loaded[p].cache # "none"
         => spool[loaded[p].cache] # "empty"]_vars

\* The spool has a 00, so no init will create the rest of a ufs tree left half
\* created, nor the rock file of a configuration that used to say ufs.
StuckCache == /\ conf.cache # "none"
              /\ spool["ufs"] # "empty"
              /\ spool[conf.cache] # "complete"
              /\ \A p \in Procs : pc[p] \notin Kinds

\* What only the operator can repair is in order.
Sane == /\ conf.file = "good"
        /\ \A v \in Volumes : vol[v] # "denied"
        /\ vol["run"] = "ok"
        /\ ~StuckCache

\* Once faults stop and nobody execs into it, the container serves, for good, with
\* no help but the restart policy, unless the configuration is bad, a volume is not
\* writable or a 00 hides an unfinished cache: no crash loop on a stale pid file,
\* nor on a database or a cache that interrupted inits, or two inits at once, left.
NobodyElse == \A p \in Execs : ~Up(p)
Recovers == <>[](Sane /\ NobodyElse) => <>[](pc[Main] = "serving")

\* What the entrypoint promises of the service, ServiceLifecycle: the phase of
\* Main, and the pid file its squid uses or the next one would use.
LifecyclePhase ==
  CASE pc[Main] = "down"         -> "down"
    [] pc[Main] = "exec"         -> "launched"
    [] pc[Main] \in SquidLabels -> "running"
    [] OTHER                     -> "preparing"

LifecycleLock ==
  LET path == IF SquidUp(Main) THEN loaded[Main].eff ELSE conf.eff
  IN  IF SquidUp(Main) /\ (path = NoPath \/ pidfile[path] = pidOf[Main]) THEN "held"
      ELSE IF path = NoPath \/ pidfile[path] = NoPid THEN "free" ELSE "stale"

Lifecycle == INSTANCE ServiceLifecycle WITH phase <- LifecyclePhase, lock <- LifecycleLock

\* The entrypoint implements the promise.
ImplementsLifecycle == Lifecycle!Spec
=============================================================================
