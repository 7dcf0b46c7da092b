# Verification of squid-hardened

TLA+ modules, TLC configurations and TLAPS proofs about the programs of this
repository: the Go entrypoints of the three images (squid, c-icap, clamav), the
compose stack they form, and the scripts around them.

## 1. The system

| Part | Source | State it keeps | Operations |
|---|---|---|---|
| squid entrypoint | `squid/init.go` | pid file, `/var/lib/ssl_db/db`, `/var/spool/squid`, link to `mime.conf`, ownership of the volumes | `entrypoint` (steps 0 to 5), `--healthcheck`, `--setup-dirs` |
| c-icap entrypoint | `c-icap/init.go` | pid file, the count of dials | `entrypoint` (pid file, wait for clamd, exec), `--healthcheck`, `--setup-dirs` |
| clamav entrypoint | `clamav/init.go`, `clamav/conf` | the `clamav_db` volume, the freshclam daemon it leaves behind | `entrypoint` (volume, first download, daemon, exec), `--healthcheck`, `--setup-dirs` |
| compose stack | `docker-compose.yml`, `scripts/deploy.sh` | containers, health of clamav, published ports | `up`, `down`, restarts, probes |
| EICAR test | `scripts/test-eicar.sh` | a container named `eicar-test-server`, `/tmp/eicar.out` | docker mode, external mode |
| CA generation | `scripts/generate-ca.sh` | `certs/bump.*`, `dhparam.pem` | one run, refused when `bump.pem` exists |
| version watch | `scripts/check-versions.sh`, `version-check.yml` | `versions.json`, the branch, the dispatched build | check, update, push, dispatch |
| build arguments | `scripts/versions-build-args.py` | none | a translation of `versions.json` |
| transparent redirect | `vyos/squid-redirect.service` | nftables rules in the container's network namespace | start, stop, following the container's unit |
| router configuration, images, CI | `vyos/*.config`, `*/Dockerfile`, `.gitlab-ci.yml`, workflows | none at run time | none |

How they interact:

- An entrypoint hands over to its service by `exec`; it leaves its results in
  files on volumes, which the next container finds. A container starts in a new
  pid namespace: a number in a file means nothing there, but is often alive.
- `podman exec` of the same init shares pid namespace, volumes and pid file
  with the container's own init.
- c-icap's init dials clamd for minutes; squid dials c-icap only when it serves,
  and passes unscanned what it cannot have scanned (`bypass=1`).
- `docker compose up` starts c-icap when clamav is healthy and squid when c-icap
  is started. Restarts and reboots follow no order (`restart: unless-stopped`).
- freshclam writes into the volume clamd reads, and tells clamd.

What is hard, and where it is answered (the full list, line by line, is under
`hazards` in `PROJECT.json`):

| Behaviour | Properties |
|---|---|
| the stale pid file of a killed container | `NoFalseRefusal`, `Recovers`, `ImplementsLifecycle` (squid, c-icap) |
| a second init in a running container, or one that starts | `MainPidKept`, `PidTaken`, `NoFalseRefusal`, `ServesOnReadyState`, `RunningPidKept` |
| kills and failures in the middle of a preparation | `Recovers`, `ServesOnReadyState`, `NeverWithoutSignatures`, `EndsComplete` |
| waits and time-outs | `WaitBounds`, `FirstUpCompletes`, `CicapAfterDownload` |
| restarts in any order | `Recovers` (stack) |
| concurrent jobs and builds, wrong and failed looks upstream, lost dispatches | `PinsMatch`, `EditsKept`, `Follows`, `PublishesMain` |
| shared names and files of concurrent test runs | `ServerKept`, `NoLeftServer`, `PassMeansBlocked` |
| probes: deadlines, answers in pieces, verdicts that outlive a container | `ProbeOK`, `HealthFollows`, `HealthyHasSignatures`, `HealthyServesReady`, `EndsHealthy` |
| what one part counts on and another must keep | `ImplementsService`, `ClamavAsPromised` |
| CA files written one by one and cut short | `CaSound`, `FirstUpCompletes` |
| a ruleset in a namespace that comes and goes, connections already tracked | `ActiveRedirects`, `Returns` |
| directories the layers of an image leave | `DirsUsable` |

## 2. Modules

```
ServiceLifecycle            what a pid-file guarded service is promised
   ^            ^
SquidInit   CicapInit        ClamavInit        entrypoints; the first two implement it
   ^            ^                ^
SquidContainer  CicapContainer  ClamavContainer    an entrypoint under its probe
        v          v                v      |
              HealthCheck                  |   the probe and Docker's verdict
                                           v
                                    ClamavService  what clamav promises the stack:
                                           ^       implemented by the container,
CaFiles <- Stack  -------------------------+       and what the stack counts on
SetupDirs <- CicapImage -> CicapInit       the directories of the images, and the
                                           container that runs from one of them
EicarTest                                  the script that tests the stack
VersionWatch                               the jobs that follow upstream releases
Redirect                                   the systemd unit on a VyOS router
```

(`Stack` is the containers seen from outside, with the CA that `up` generates.)

The proofs about a module are in `<Module>Proofs.tla`; those about an entrypoint that is
composed with its probe, in `SquidContainerProofs`, `CicapContainerProofs` and
`ClamavContainerProofs`; those about `SetupDirs`, the third mode of the same program, in
`SquidContainerProofs`.

`MC<Module>.tla` extends a module with the sets its configurations use; the
configurations are named after the module and, where it has several, the
question: `<Module>_<question>.cfg`.

### SquidInit

One process is the init tini starts (`Main`), the others the inits of `podman
exec` (`Execs`). `pc` says where each is: the labels `mime` to `exec` are the
steps of `entrypoint()` between two accesses to shared state, `boot` and
`serving` are squid itself. When `Main` ends, the container ends with all its
processes, and `StartContainer` starts the next one with new process numbers
over the same volumes.

| Action | Code (`squid/init.go`) |
|---|---|
| `LinkMime` | 215-219 |
| `ReadConf` | 222-228; the copy in `loaded[p]` is `confStr` |
| `CheckSslDir`, `LookForDb`, `RemoveDb`, `MakeDb` | 228-247, one action per file operation, since another init can come in between |
| `LookForCache`, `CheckSpool`, `CreateCache` | 249-257 |
| `RemoveStalePid` | 269-273 and 306-323; `Main` is the one whose parent is tini |
| `ParseCheck`, `StartSquid`, `FailToStart` | 275-283, 371-380 |

`EnsureWritable` stands for `ensureWritable` with its recursive chown: a volume is
`ok`, `fixable` by the chown, or `denied`. A configuration is a record of what
the entrypoint looks at (readable, valid, pid file, SSL bump, kind of cache); `pid`
is what `pidFile()` finds in the main file and `eff` what squid ends up with once
the included files are read. The certificate database is `absent`, `partial` (no
`index.txt`) or `ready`; a cache is `empty`, `partial` or `complete`, and only the
`ufs` kind has the directory `00` the init looks for.

squid, `security_file_certgen` and podman are outside the repository. Of squid the
module uses: it refuses to start when the number in its pid file is alive, writes
its own, unlinks the file on SIGTERM and not on SIGKILL, needs a complete
certificate database under SSL bump and a complete cache with a `cache_dir`,
and needs its port free. `squid -z` reads the configuration again: `CreateCache` creates
the cache the configuration asks for by then, and, since the pid step comes after it,
may be refused by the pid file; its failure is ignored (init.go:256). The kinds of
cache are those with and without a `00` (`Kinds`). Of `security_file_certgen -c`: it creates the directory and
fails on one that exists, and `index.txt` comes last.

### CicapInit

The same container and processes around `c-icap/init.go`: `RemoveStalePid`
(122-126, 175-189), `Dial` and `Sleep` (130-138), `StartCicap`, `FailToStart`. A
dial of a `silent` clamd takes a second, of a `refusing` one no time; `elapsed`
counts the seconds. A configuration is the list of its `PidFile` directives: the
init takes the first (`PidPath`), c-icap the last it reads (`UsedPath`), and the
default path of the init stands for an unreadable file.

### ServiceLifecycle

Two variables: the phase of the container's main process, and the pid file as
a lock, `free`, `stale` or `held`. The program is launched only when the lock is
free. `SquidInit` and `CicapInit` define both as functions of their state and state
`ImplementsLifecycle`.

### ClamavInit

`clamav/init.go` 191-248 with the freshclam it runs twice, in the foreground (the
first download) and as a daemon. Signature files arrive one by one, each
atomically; what was there before an interruption stays. `hasSignatures` is content
with any of them.

### HealthCheck

`healthcheck()` of the three `init.go`. `up` and `serving` belong to the container;
`probe`, `spent`, `limit` and `got` are the probe: `Begin`, `Connect`, `DialFails`
(squid/init.go:194-197), `Receive` and `ReadFails` (200-205), `Tick` the seconds it
spends waiting. An answer has three parts: up to the middle of the word looked
for, up to its end, up to the end of the line. `Receive` lets any number of them
come at once; a scan (`ByLine`: squid, c-icap) reads on to the end of the line, the
single read of clamav (clamav/init.go:179-181) takes what it gets. `Judge` is what
Docker makes of the exit status under the `HEALTHCHECK` of the Dockerfiles: a
start period, three failures in a row, one success.

By itself the module lets its service do anything, stop listening in a container that
lives included; `KeepsListening` says that it does not, and `HealthCheckProofs` says
what rests on that. `SquidContainer`, `CicapContainer` and
`ClamavContainer` instantiate it with `up` and `serving` defined from the state of
the entrypoint's module: a step of the entrypoint goes with `Follow`, and a step of
the probe leaves the entrypoint alone. `Follow` ends the probe with its container and
starts the verdict anew with the next one; what Docker says of a container that has
ended is left open, but for healthy.

squid's probe is c-icap's with another request, to port 3128 of the container,
whoever listens there (`Listens`): in `SquidContainer` the squids of podman exec are
among them. How a squid answers on an intercept port (squid-transparent.conf:14) is
squid's, and `answers` ranges over all manners.

### ClamavService

What the clamav container is to those who depend on it: `life` (down, up, serving),
whether there are signatures, and Docker's verdict. clamd serves only over
signatures, which no restart takes away, and a verdict of healthy comes only while
it serves. `ClamavContainer` maps its program counter and volume to it
(`ImplementsService`), `Stack` its container and what remains of the first download
(`ClamavAsPromised`): what the stack takes for granted of clamav is what the
entrypoint and its probe keep, and neither module knows of the other.

### SetupDirs

`setupDirs()` call by call: `row` is the turn of the loop, `call` its next system call
(`Mkdir`, `Chmod`, `Chown`, in the order of squid/init.go:166-177), `fs` the directories
with their modes and owners. `Fail` is any of the calls failing, which ends the build
of the image. The tables are those of the three images (`Images`); `Layers` is what
the layers below may have left of their directories, each present or not with its
parents, open or closed. `Mkdir` creates missing parents with the mode asked for the
last, less the umask; `Perm` is what an `os.FileMode` written as a number comes to: of
01777 the sticky bit is lost. `DirsUsable` speaks of owners, of what others may do
(`Others`: enter, write) and of the way to a directory, and not of that bit;
`DirsAsAsked`, which compares the whole mode, is violated (`SetupDirs_sticky.cfg`).

`CicapImage` puts it before `CicapInit`: the images are built, and c-icap's container
runs only from the image of c-icap, once that is built.

### CaFiles

`scripts/generate-ca.sh`: `Start` is the test of lines 29-33, the other actions write
one file each, in the order of lines 36-59; `OpenPem` and `FillPem` are the
redirection and the `cat` of line 52. `Cut` ends the script anywhere; `Remove` is the
operator who deletes `bump.pem`, as line 31 asks for. Of each file the module keeps
which run of openssl it comes from. File modes are left out.

### Stack

`docker-compose.yml` with `deploy.sh up` and `down`. A container is `absent`,
`refused` (its port is taken: it stays down until the next `up`), `down` (about to
be restarted), `up` or `serving`; the entrypoints' modules are what justifies
seeing it so (a container that ends is restarted, one that lives ends up
serving). `Up` looks for `bump.pem` when it is asked for a profile that reads
`certs/`, and runs `CaFiles` (`UpWithCa` goes on when the script ends); `Generate` is
the script run by hand. `proxied` is the `HTTPProxyServer` of freshclam.conf:28 set
to a squid of the stack. Time passes in health intervals of clamav (30 s): `Interval` is one
probe, `left` the intervals of the first download that remain. A clamd that has
its signatures listens before the next probe.

### EicarTest

`scripts/test-eicar.sh`, several runs at once. `FindNetwork` to `Judge` are docker
mode (32-84), `FetchExternal` and `JudgeExternal` external mode (89-113): by the body
first, then, when it holds no mark, by the status (307 or 403 of a proxy that refuses).
`Exit` is every way out under `set -e`, with the EXIT trap where it is set.

### Redirect

`vyos/squid-redirect.service`. `unit` is its state, `todo` the commands of `ExecStart`
it has still to run, `rules` the ruleset of the namespace of the container, which
every start of the container makes anew, and `tracked` says for each connection
whether its first packet met a redirection. The actions on the container are the
ways VyOS and systemd start and stop it: a boot, the two halves of a commit, `restart
container`, a crash; each has the consequences that `BindsTo`, `PartOf`, `After` and
`[Install]` give it. `Installs` has the unit as shipped and as
docs/vyos-transparent-proxy.md:384-386 gives it. systemd, podman and connection
tracking are external.

### VersionWatch

`scripts/check-versions.sh` and `version-check.yml`, several jobs at once. `Checkout`,
`Check`, `Update`, `Push` and `Dispatch` are the steps of the workflow; `Update` is the
second run of the script, from its looks upstream to the new `versions.json`.
`work[j]` is the checkout of a job and `fresh` the jobs whose checkout is still the
head of main. A version is a number; the checksum of a tarball is the version it
belongs to, or `EmptySum`. A look upstream that is not answered costs a fault and
comes to the version as it was, or to any tag. `Found` says which tarballs there are at
the address the script forms: that of c-icap holds the directory of one series, 0.6.x
(check-versions.sh:159), and the job dies on a release of another, every time and
without a fault of the network. `HumanPush` stands for whatever else is pushed
(maintainers, base-watch, cve-watch).

build-push.yml names no concurrency group, so the builds asked for run side by side:
`BuildEnds` is any of them publishing, over a newer one too. `late` counts those a newer
build has overtaken, `overtaken` says that such a build published last. Whether the
pipeline, which is of another repository, guards against it is not known here.

## 3. Runs

`cd tla; tlc -workers 2 -config <run>.cfg <module>`, where the module is
`MC<Module>`, but `MCCicapImage` for `CicapInit_pid`, `MCCicapContainer` for
`CicapInit_live`, `ClamavContainer` for `ClamavInit`, and the module itself for
`VersionWatch`.

Runs that pass:

| Run | Question | Bounds |
|---|---|---|
| `SquidInit_pid` | Can the serving squid lose its pid file, its database or its cache to an exec's init, does the entrypoint implement `ServiceLifecycle`? | one exec, once squid serves; 3 process numbers (two processes and a stale number that is not, or is, alive), 2 pid files on volumes, 4 configurations, 4 faults: enough to kill a container, edit its configuration, kill the next and stop an exec; 70,304 states |
| `SquidInit_live` | Can a stale pid file refuse squid, how can a running squid lose its pid file, does the container end up serving? | one exec, at any time, also while the container starts; edits at any time; 2 process numbers, one pid file on a tmpfs and one on a volume, rock, ufs, unreadable and cache-less configurations; 2 faults: an interrupted preparation and one of the next container's, or an edit and a kill; 1,578,750 states |
| `CicapInit_pid` | The same for c-icap's pid file, and how long does it wait? Are the directories of the images usable, whatever their base leaves? | one exec, 2 dials instead of 120 (the bounds are linear in the dials), 3 faults; the tables of directories as they are, each prefix of their paths present or not, open or closed, any call failing; 200,217 states |
| `CicapInit_live` | Does c-icap end up running, does it implement `ServiceLifecycle`, and does its probe end in time, however its answers are cut and however long they take? | no exec; a pid file at either path, and an unreadable configuration; every manner of answering at any time; 2 faults; 477,216 states |
| `SquidContainer` | Does healthy mean that the container's own squid works on a complete database and cache, and does a sane container end up healthy? | the shipped explicit configuration (SSL bump and rock), one exec, 2 faults: an interrupted preparation and a kill of what came of it; every manner of answering; 414,344 states |
| `ClamavInit` | Does clamd end up listening, with every signature? Does healthy mean that it does? Does the container implement `ClamavService`? | 3 signature files, 4 faults: two interrupted downloads, a lost mirror, a daemon that ends; every manner of answering; 132,744 states |
| `Stack` | How slow may the first download be, is c-icap spared it, do the CA files match, does everything that was started serve again, is its clamav the one of `ClamavService`? | the shipped start period and retries; downloads of 0, 8 (the last in time) and 9 intervals, by a squid of the stack or not; each of 2 squids alone and both, on one port, one of them with a CA; 2 crashes, reboots, cuts of the script, removals or `down`s: a CA cut short and removed, then made again; 555,080 states |
| `EicarTest` | Are the servers of other runs kept, and a run's own cleaned up? | 2 runs in docker mode, that compete for the server's name, and one in external mode; 2 tries; the chain changes, runs are interrupted and killed at any time; 203,136 states |
| `VersionWatch` | Does main always name and pin matching versions, keep others' edits, end up with the latest releases that can be downloaded, and do the published images end up as main has them? | a scheduled and a manual job, one component with a checksum and tags and one with neither, 2 versions, one of them outside the series the script can download, 3 faults: a release, a wrong look and an edit between checkout and push; 114,720 states |
| `Redirect` | Does an active unit mean that both redirections are there, and do connections end up redirected? | 3 connections, two to one port and one to the other; 3 faults: a command that fails half-way, a restart, a crash; both forms of `[Install]`; 2,634 states |

`CHECK_DEADLOCK` is off where the system may really stop: once the faults are used
up a container that serves has nothing left to do, and a script that has ended is
over. Process numbers are interchangeable, hence the symmetry sets of the runs
without liveness.

Runs that show where the code and what is said of it part (each checks one
property and is violated):

| Run | What is said | What happens |
|---|---|---|
| `SquidInit_ufs` | squid/init.go:249: cache init if the cache is empty | after a ufs cache, a rock cache is never created |
| `EicarTest_external` | test-eicar.sh:101: PASS, blocked | PASS on the delivered file |

Configurations beside the runs, each of one property that TLC finds violated:

| Configuration | Module | What is said | What happens |
|---|---|---|---|
| `Stack_slow` | `MCStack` | README.md:234: the first freshclam takes 5 to 15 minutes | `up` gives up before (`FirstUpNeverGivesUp`) |
| `SquidInit_early` | `MCSquidInit` | init.go:266: the file is necessarily stale | an exec during the start runs a squid, whose file the container's init removes (`InitRemovesOnlyStale`) |
| `SetupDirs_sticky` | `SetupDirs` | init.go:164-167: /tmp with mode 1777 | 0777 (`DirsAsAsked`) |
| `VersionWatch_series` | `VersionWatch` | version-check.yml:4: updates found are committed | one release outside 0.6.x stops the bump of every component (`AlwaysFollows`) |

Other disagreements, seen while the modules were written and not each given a run:

- README.md:234 says that the first freshclam takes 5 to 15 minutes; `up` gives up
  after about 270 s (docker-compose.yml:63, 74-76), a start period and three probes;
  `FirstUpCompletes` says how much time there is.
- squid/init.go:164, c-icap/init.go:67 and clamav/init.go:149 ask for `/tmp` with 01777,
  and print that mode. 01777 does not set `os.ModeSticky`: `/tmp` is 0777 (`Perm` of
  `SetupDirs`). Compose mounts a tmpfs of its own there.
- squid/init.go:290 says that the last `pid_filename` wins, as in squid; one in
  `conf.d` is not read (the exception `NoFalseRefusal` makes: `pid = eff`).
- squid/init.go:266 says that the file is necessarily stale, as no other squid shares the
  namespace of a starting container: that of a podman exec may already run (the
  exception `PidTaken` makes).
- squid/init.go:249: a rock cache has no `00`, so that `squid -z` runs at every start;
  harmless.
- c-icap/init.go:140 and docs/hardening.md:210 speak of 120 s; a clamd that does not
  answer costs a second per dial as well as the second of sleep, 240 s
  (`WaitBounds` is the bound that holds).
- README.md:144 says that the profiles run in parallel on different ports; all
  publish 3128, and the second squid is refused its port (`StartSquid`).
- test-eicar.sh: the FAIL of line 78 cannot be reached, docker mode throws the body
  away; the message of line 20 neither, `set -e` ends the script at line 18; an
  external run whose curl fails judges the `/tmp/eicar.out` of an earlier one.
- docs/vyos-transparent-proxy.md:386 gives the unit a second line,
  `WantedBy=vyos-container-squid.service`, and calls it important (397-400);
  `vyos/squid-redirect.service` lacks it. As shipped, a commit or a crash that
  starts the container again leaves it without redirections until the operator
  starts the unit (the exception `Returns` makes).
- generate-ca.sh:50 speaks of `certs/` in 0700, lines 20-27 explain why it is 0755.
- squid/init.go:149 has the parent directories first; their order does not matter, only
  that they have rows (`BuiltUsable`).
- clamav/Dockerfile:320 has a start period of 120 s, docker-compose.yml:63 one of
  180 s; the latter counts in the stack.
- version-check.yml:4-5 has every bump built. A dispatch that is lost, or a job that
  ends between push and dispatch, is not made up for: the next check finds main up
  to date. Nor when two builds run at once and the older publishes last. Both are
  exceptions `PublishesMain` makes.
- check-versions.sh:159 has the series 0.6.x in the address of every c-icap release;
  `die` in line 160 then ends the bump of squid, squidclamav and clamav too (the exception
  `Follows` makes).
- check-versions.sh:37 speaks of the highest semver among the tags; the code takes
  the first of the list (`Latest`), and `Follows` is what brings main back.

### Conditions the passing runs state

- `ExecDuringBoot = FALSE` in `SquidInit_pid` and `SquidContainer`: `podman exec` of the
  init comes once squid serves, and then `MainPidKept`, `ServesOnReadyState` and
  `HealthyServesReady` hold, and the refinement. Without it they fail: the look for
  `index.txt` and the removal of the directory are two steps, between which the other
  init may complete the database; a squid of the exec may own the pid file, or serve in
  the place of the container's. In `SquidContainer` the exec's squid therefore never
  listens before the container's. `SquidInit_live` has execs at any time, for what holds
  with them.
- `EditDuringBoot = FALSE` in the same two runs: the init reads the configuration once
  and squid reads it again. `NoFalseRefusal` is checked with edits at any time and says so
  in its premise: it is of an init that read what squid will read.
- `Recovers` of squid asks that nobody goes on with an exec (`NobodyElse`): the squid of
  an exec that stays may hold the port or the pid file.
- No exec in `CicapInit_live`: in c-icap the pid file is removed before the wait for
  clamd, during which an exec may start a c-icap that takes the file again, and the
  refinement fails.
- `Recovers` of squid makes an exception of `StuckCache`, where only an operator
  helps: a half-created ufs tree, or a rock cache hidden by a `00`.
- `EndsComplete` asks for a running freshclam daemon: nobody starts it again when
  it ends, or did not start, before the container's next start. A first download
  cut short and a daemon that does not start leave clamd with part of the
  signatures.
- `Recovers` of c-icap and its `NoFalseRefusal` ask for a configuration whose `PidFile`
  directives agree: the init removes the file of the first, c-icap uses the last.
- `Recovers` of the stack makes two exceptions, `Stuck`: a squid over a CA that was
  cut short, which `up` and the script both take for complete, and a clamav whose
  freshclam goes through a squid that waits for clamav.
- `FirstUpCompletes` and `CaSound` look at a state no fault has touched where they
  speak of the whole CA; the match of key and certificate is unconditional.
- In `CaFiles` one script runs at a time, and in `Stack` the operator runs it by hand
  only before `up` or after `down`: two at once may mix their files.
- `HealthFollows`, which is checked of clamav, speaks of a service that ends up in one
  manner of answering; answers in pieces are in neither half, since one read may or
  may not get the whole word. `EndsHealthy` has them, for the probes that read a line.
- `Returns` makes an exception of a command that failed, which the unit does not
  try again, and of the unit as shipped after a start of the container alone.
- `Follows` makes an exception of a c-icap release the script cannot download, as long as
  it is the latest; `PublishesMain` of a last build that was lost, or overtaken.
- `DirsUsable` does not speak of the sticky bit of `/tmp`.
- All external runs share `/tmp/eicar.out`, which no passing run speaks of. `ServerKept`
  holds while the temporary server does not end by
  itself: the trap goes by the container's name, and would remove another run's.

### Fairness

`WF(StartContainer)` and the like: every service has `restart: unless-stopped`
(docker-compose.yml:23). `WF(Run(Main))`, `WF(Run)`: a process that can take a step
does; which one of several outcomes (a failing command) is never promised. For
clamav, freshclam checks every hour (`Checks 24`) and notifies clamd
(`NotifyClamd`). The version watch runs every Monday (version-check.yml:12); a
manual dispatch is owed by nobody, and builds end, in any order. Docker goes on with `up`, probes and restarts, and a probe runs to its end
(`Step`: its limits see to it). generate-ca.sh runs until it is cut. systemd does the
jobs it has queued, and no connection lasts for ever. No fairness is
asked of the operator, of `podman exec`, of the mirror or of clamd as seen by
c-icap: their good behaviour is in the premise of the property that needs it.

## 4. Proofs

`tlapm <Module>Proofs.tla`, eight modules. No proof fixes a constant: each holds for all
sets and numbers that satisfy the named assumptions of the modules. What TLC found
on the instances above is proved in general, for every invariant, every action
property and every refinement of a passing run. The type invariants of `ClamavInit`,
`EicarTest` and `VersionWatch` are proved and left out of the runs.

### SquidContainerProofs

For all processes, process numbers, pid files,
configurations and numbers of faults, from the named assumptions of `SquidInit`
(`Main` is not an exec, `NoPid` is no number, `NoPath` no path, `Configs` are
configurations):

| Theorem | Under | Statement |
|---|---|---|
| `TypeCorrect` | | `Spec => []TypeOK` |
| `PidKept` | `~ExecDuringBoot` | `Spec => []MainPidKept` |
| `NeverFalselyRefused` | | `Spec => []NoFalseRefusal` |
| `PidOnlyTaken` | | `Spec => PidTaken` |
| `Implementation` | `QuietBoot` | `Spec => ImplementsLifecycle` |
| `ServesReady` | `~ExecDuringBoot` | `Spec => []ServesOnReadyState` |
| `HealthyIsReady` | `~ExecDuringBoot` | `ContainerSpec => []HealthyServesReady` |
| `BuiltUsable` | | `SetupSpec => []DirsUsable` |

`QuietBoot` adds that the configuration is not edited while the container starts
and hides no `pid_filename` in an included file.

The argument. `MainPidKept` is not inductive by itself: the file could be taken
by the pid step of another init, or by a second squid that starts on the same
file. `ExecsAfterServe` excludes the first (only `Main` removes a file, and while it
does no exec exists), and the second conjunct of `PidInv` the second (a squid
does not start on a file that holds a live number).

`NeverFalselyRefused` and `PidOnlyTaken` take no condition. For the first, `FromNow`: past
the pid step, what stands in the pid file that `Main` read of is nothing, or the number
of an exec that wrote it since, and runs on that file or has ended. So a live number
there is that of a squid that runs, process numbers being different. For the second,
a pid file changes hands in four ways (the pid step, a squid that starts, one that
stops, one that ends on a fatal error); a squid does not start over a live number, and
that a container takes all its processes with it is `EndsTogether`.

`Implementation` rests on `BootInv`: from the read of the configuration on, what the
init read is what squid will read, and past the pid step its pid file is absent, which
nothing but a squid undoes; no squid runs before `Main`'s. With `ExecsAfterServe` and
`PidInv` it gives the state of `ServiceLifecycle` in every state, and the proof goes
through the actions one by one: a step of `Main` is a step of the promise, any other is a
stutter. `ServesReady` needs that no exec is about to remove the database of a squid
that serves under SSL bump (`Served`); a complete cache is never touched
(`CacheKept`).

`HealthyIsReady` composes: the container takes the steps of its entrypoint
(`ContainerRunsInit`), so that what is proved of `Spec` holds in it; its steps are
those of a container in the sense of `HealthCheck` (`SquidIsContainer`), which needs
that no exec's squid ever serves (`OnlyMainServes`: the port is taken); so the probe's
invariant holds too, a healthy verdict means that somebody serves, that is `Main`, and
`Served` says over what.

`BuiltUsable` assumes of the tables `TablesAssumption` only, which TLC evaluates for the
shipped ones: no directory comes twice, and each directory on the way to one of the
user's has a row that lets the user pass, or no row but none below it whose mode
would close it. `SetupInv` is inductive: the turns that are over are right and stay so
(`Mkdir` leaves what is there, the other calls touch the directory of their row, and
no directory comes twice), and no directory without a row keeps the user out. What a
mode lets others do is not changed by `Perm` (`OthersOfPerm`): the sticky bit, which
`Perm` loses, is not part of what is proved. The
file systems and the tables are data without bound there, and the loop is a state
machine, so that the proof needs no induction over them.

### CicapContainerProofs

`TypeCorrect`, `WaitsItsTime` (`WaitBounds`), `PidKept` (`RunningPidKept`), and, when the
configuration is not edited while the container starts, `NeverFalselyRefused`
(`NoFalseRefusal`). The types are inductive with two more facts: an init that has yet
to dial has spent nothing (`Unspent`), and no other process exists before the
container's init has dealt with the pid file (`Alone`). `Waits` extends the bounds to
the pause after a dial. `NoFalseRefusal` needs that, past the pid step, a number in
the file c-icap will use is that of a c-icap that runs, or ran and ended with its
file, and that process numbers differ. Of the container under its probe, `ProbeEnds`
(`ProbeOK`), by an instance of `HealthCheckProofs` as below; it takes no more than that
proof does, c-icap may do what it likes.

`Implementation` (`Spec => ImplementsLifecycle`) is that of squid, under `Undisturbed`:
no exec, no edit while the container starts, and no configuration that leaves a doubt
on the pid file. There the accounted number of `NoFalseRefusal` can only be none, so
`pc[Main]` and the pid file give the state of `ServiceLifecycle` (`Abstract`), and each
action is a step of the promise or a stutter. With an exec the refinement does not
hold: its c-icap may own the file while the container's init still waits.

### HealthCheckProofs, ClamavContainerProofs

`EndsByItself` (`ProbeOK`): 2 s of dial and 2 s of dialogue stay below 5 s, since the
deadline is set at the second of the connection; the invariant says where `limit`
lies while the probe reads (`ProbeInv`). It holds of any service, one that stops
listening in the middle of a dialogue included. `HealthyServes` is of steady ones: a
service that, once it listens, goes on until its container ends (`Steady`). Of those a
healthy verdict implies that the service listens, which needs the same of a probe that
has connected (`Connected`). clamd and squid are steady in their modules: what ends
them ends the container (both are what tini runs). A service that hangs or closes its
port in a living container is healthy until three probes have failed, and nothing
better can be said of it.

`ClamavContainerProofs` takes `HealthCheckProofs` as an instance: it proves `TypeCorrect`
and `AlwaysWithSignatures` of the entrypoint, that a step of the composition is a
step of the probe's module, hence `HealthyServes`, and from both `HealthyWithSignatures`
(`HealthyHasSignatures`), what `depends_on: condition: service_healthy` rests on.

`ServiceRefined` (`ContainerSpec => ImplementsService`): every step of the container is a
step of `ClamavService` or a stutter. Signatures are never taken away and clamd
listens only over some (`SeenFromOutside`); what a probe may do to the verdict is
`DockerJudges` of `HealthCheckProofs`, for the better only on a service that listens,
and what the container's start and end do is `FollowedVerdict`. It takes that a
container that is down has no daemon, which `ClamavInv` now says.

### StackProofs

`TypeCorrect`, `StartsAfterDownload` (`CicapAfterDownload`), `FirstUpIsPatient`
(`FirstUpCompletes`) and `CaIsSound` (`CaSound`), for any squids, profiles, ports,
lengths of download, start periods and numbers of retries. For `StartsAfterDownload`: clamav
serves, or is healthy, only with nothing left to download. For `FirstUpIsPatient`: as
long as nothing failed, the intervals that have passed, `age` and then `failed`, and
those left add up to the length of the download. For `CaIsSound`: from `OpenPem` on the
key and the certificate are of one run of openssl, and nobody starts another while
`bump.pem` is there.

`ClamavRefined` (`Spec => ClamavAsPromised`): the steps of the stack that concern clamav
are those of `ClamavService`, the others leave its state alone (`Elsewhere`). A
container that is created has no verdict yet (`Unjudged`), and one that serves, or is
healthy, has nothing left to download. Together with `ServiceRefined` it replaces the
argument that the stack sees clamav as it is by a proof: both meet in one
specification.

### EicarTestProofs

`TypeCorrect`, `KeepsItsServer` and `LeavesNoServer`. The invariant ties the label of a run to
its mode, to its trap and to the server: a run past `SetTrap` that has not ended owns
the server, and a run without the trap has none.

### RedirectProofs

`ActiveMeansRedirected` (`ActiveRedirects`). While the unit runs its commands, those it has
run since the flush are what is in the namespace (`Progress`); a new namespace
comes only with a stop of the unit, a start of it, or an idle one. The lemmas
`AppendTo...` are what the prover needs of tuples.

### VersionWatchProofs

For any jobs, components and versions: `TypeCorrect`,
`MainMatches` (`[]PinsMatch`) and `NoEditUndone` (`EditsKept`). `PinsMatch` speaks of main
only; what makes it inductive is the same of every checkout, and `FreshEdits`: a
checkout that is on top of main has main's edits. `UpdateWrites` is the lemma on
which both rest: what the script writes is a well-formed file with matching
checksums and the unknown keys as they were. `Removed` is what the types need of a
build that ends out of turn.

### Only model-checked

All liveness (`Recovers`, `EndsComplete`, `HealthFollows`, `EndsHealthy`, `Returns`,
`Follows`, `PublishesMain`), which the prover does not reach: it has no fairness and
no `ENABLED`.

## 5. Not modelled

- How `pidFile`, `confPath` and `lineStartsWith` cut a line of a configuration into
  fields, `versions-build-args.py`: text in, text out, no state.
- `deploy.sh build`, `logs` and `scan`: commands that keep nothing. The profile
  `multimode` of the compose file, which `deploy.sh` does not offer in its usage: its
  squid reads `certs/`, and `up multimode` does not look for a CA.
- File modes and ownership outside `--setup-dirs` and the writable volumes of the
  entrypoints; the parameters of openssl.
- Image builds, CI templates, router configuration: static, or in other
  repositories.
- What squid, c-icap and clamd do with traffic.

## 6. Plan

What is left, in order:

1. Specifications of squid and c-icap as `ClamavService` is one of clamav, shared by
   their containers and by `Stack`.
2. What remains of squid's certificate database when an exec comes during the start: the
   pid file is done (`NeverFalselyRefused` and `PidOnlyTaken` take no condition), of the
   database only `Recovers` says something then.
