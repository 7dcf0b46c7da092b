----------------------- MODULE ClamavContainerProofs -----------------------
(***************************************************************************)
(* Proofs about ClamavInit and ClamavContainer, for any set of signature   *)
(* files and any number of faults: clamd never runs without signatures,    *)
(* and Docker calls the container healthy only while it listens with some. *)
(***************************************************************************)
EXTENDS ClamavContainer, TLAPS

USE FilesAssumption, FaultsAssumption

\* A clamd that listens works with what was there when it last loaded, and what
\* is there stays; nothing is left of a container that has ended but its volume.
ClamavInv ==
  /\ TypeOK /\ NeverWithoutSignatures
  /\ pc = "listening" => db # {}
  /\ pc = "down" => ~updater

\* The entrypoint's invariant holds at first.
LEMMA ClamavInitially == Init => ClamavInv
<1> SUFFICES ASSUME Init PROVE ClamavInv
  OBVIOUS
<1>1. updater \in BOOLEAN /\ mirror \in BOOLEAN
  BY Zenon DEF Init
<1>2. faults \in 0..MaxFaults
  BY DEF Init
<1> QED
  BY <1>1, <1>2 DEF Init, ClamavInv, TypeOK, NeverWithoutSignatures

\* Every step of the entrypoint, of freshclam and of clamd keeps it.
LEMMA ClamavKeeps == ClamavInv /\ Next => ClamavInv'
<1> SUFFICES ASSUME ClamavInv, Next PROVE ClamavInv'
  OBVIOUS
<1> USE DEF ClamavInv, NeverWithoutSignatures
<1>1. updater' \in BOOLEAN /\ mirror' \in BOOLEAN
  BY Zenon DEF TypeOK, Next, Run, EnsureWritable, LookForSignatures, Download, StartUpdater,
     StartClamd, StartContainer, FixVolume, MirrorChanges, Kill, Update, Reload, UpdaterEnds, End
<1>2. faults' \in 0..MaxFaults
  BY DEF TypeOK, Next, Run, EnsureWritable, LookForSignatures, Download, StartUpdater, StartClamd,
     StartContainer, FixVolume, MirrorChanges, Kill, Update, Reload, UpdaterEnds, Fault, NoFault
<1> USE DEF TypeOK
<1>3. CASE EnsureWritable
  BY <1>1, <1>2, <1>3 DEF EnsureWritable, End, Chowned
<1>4. CASE LookForSignatures
  BY <1>1, <1>2, <1>4 DEF LookForSignatures, HasSignatures
<1>5. CASE Download
  BY <1>1, <1>2, <1>5 DEF Download, End
<1>6. CASE StartUpdater
  BY <1>1, <1>2, <1>6 DEF StartUpdater
<1>7. CASE StartClamd
  BY <1>1, <1>2, <1>7 DEF StartClamd, End
<1>8. CASE StartContainer \/ FixVolume \/ MirrorChanges \/ UpdaterEnds
  BY <1>1, <1>2, <1>8 DEF StartContainer, FixVolume, MirrorChanges, UpdaterEnds
<1>9. CASE Kill
  BY <1>1, <1>2, <1>9 DEF Kill, End
<1>10. CASE Update
  BY <1>1, <1>2, <1>10 DEF Update
<1>11. CASE Reload
  BY <1>1, <1>2, <1>11 DEF Reload, Reloaded
<1> QED
  BY <1>3, <1>4, <1>5, <1>6, <1>7, <1>8, <1>9, <1>10, <1>11 DEF Next, Run

\* Together they make it an invariant of the entrypoint.
THEOREM ClamavInvariance == Spec => []ClamavInv
<1>1. ClamavInv /\ UNCHANGED vars => ClamavInv'
  BY DEF vars, ClamavInv, TypeOK, NeverWithoutSignatures
<1> QED
  BY ClamavInitially, ClamavKeeps, <1>1, PTL DEF Spec

\* Every variable of the entrypoint keeps its type.
THEOREM TypeCorrect == Spec => []TypeOK
<1>1. ClamavInv => TypeOK
  BY DEF ClamavInv
<1> QED
  BY <1>1, ClamavInvariance, PTL

\* clamd is only started over signatures, and listens with some, however often
\* the download is cut short.
THEOREM AlwaysWithSignatures == Spec => []NeverWithoutSignatures
<1>1. ClamavInv => NeverWithoutSignatures
  BY DEF ClamavInv
<1> QED
  BY <1>1, ClamavInvariance, PTL
-----------------------------------------------------------------------------
(***************************************************************************)
(* The container under its probe.                                          *)
(***************************************************************************)
P == INSTANCE HealthCheckProofs WITH
  ByLine  <- FALSE,
  up      <- pc # "down",
  serving <- pc = "listening"

ContainerInv == ClamavInv /\ P!IInv

\* The probe of ClamavContainer is the one HealthCheckProofs is about.
LEMMA SameProbe ==
  /\ Probe!Init => P!Init
  /\ Probe!Docker => P!Docker
  /\ Probe!Follow => P!Follow
  /\ UNCHANGED Probe!hvars => UNCHANGED P!hvars
BY DEF Probe!Init, P!Init, Probe!Docker, P!Docker, Probe!Follow, P!Follow,
   Probe!hvars, P!hvars, Probe!Fresh, P!Fresh, Probe!Ended, P!Ended, Probe!Step, P!Step,
   Probe!AnswersChange, P!AnswersChange, Probe!GraceEnds, P!GraceEnds,
   Probe!Begin, P!Begin, Probe!Connect, P!Connect, Probe!DialFails, P!DialFails,
   Probe!Receive, P!Receive, Probe!ReadFails, P!ReadFails, Probe!Tick, P!Tick,
   Probe!Finish, P!Finish, Probe!Judge, P!Judge, Probe!Idle, P!Idle,
   Probe!dialogue, P!dialogue, Probe!verdict, P!verdict, Probe!Manners, P!Manners,
   Probe!Deadline, P!Deadline, Probe!ReadLimit, P!ReadLimit,
   Probe!DialLimit, P!DialLimit, Probe!DialError, P!DialError,
   Probe!ReadsOn, P!ReadsOn, Probe!LineEnd, P!LineEnd,
   Probe!WordEnd, P!WordEnd, Probe!Retries, P!Retries

\* The steps of ClamavInit are those of a container that HealthCheck allows: clamd
\* listens until its container ends.
LEMMA ClamavIsContainer == ClamavInv /\ Next /\ P!Follow => P!Container /\ P!KeepsListening
<1> SUFFICES ASSUME ClamavInv, Next PROVE pc = "listening" => pc' \in {"listening", "down"}
  BY Zenon DEF P!Container, P!KeepsListening
<1> QED
  BY DEF Next, Run, EnsureWritable, LookForSignatures, Download, StartUpdater, StartClamd,
     StartContainer, FixVolume, MirrorChanges, Kill, Update, Reload, UpdaterEnds, End

\* Both invariants hold of the container under its probe.
THEOREM ContainerInvariance == ContainerSpec => []ContainerInv
<1>1. ContainerInit => ContainerInv
  <2> SUFFICES ASSUME ContainerInit PROVE P!IInv
    BY ClamavInitially DEF ContainerInit, ContainerInv
  <2>1. P!Init
    BY SameProbe, Zenon DEF ContainerInit
  <2> QED
    BY <2>1, P!Initially
<1>2. ASSUME ContainerInv, Next, Probe!Follow PROVE ContainerInv'
  <2>1. P!Container /\ P!KeepsListening
    BY <1>2, SameProbe, ClamavIsContainer, Zenon DEF ContainerInv
  <2> QED
    BY <1>2, <2>1, ClamavKeeps, P!ContainerKeeps, Zenon DEF ContainerInv
<1>3. ASSUME ContainerInv, Probe!Docker, UNCHANGED vars PROVE ContainerInv'
  <2>1. ClamavInv'
    BY <1>3 DEF ContainerInv, ClamavInv, TypeOK, NeverWithoutSignatures, vars
  <2>2. UNCHANGED <<pc # "down", pc = "listening">>
    BY <1>3, Zenon DEF vars
  <2> QED
    BY <1>3, <2>1, <2>2, SameProbe, P!DockerKeeps, Zenon DEF ContainerInv
<1>4. ASSUME ContainerInv, UNCHANGED <<vars, Probe!hvars>> PROVE ContainerInv'
  <2>1. ClamavInv'
    BY <1>4 DEF ContainerInv, ClamavInv, TypeOK, NeverWithoutSignatures, vars
  <2>2. UNCHANGED <<pc # "down", pc = "listening">>
    BY <1>4, Zenon DEF vars
  <2> QED
    BY <1>4, <2>1, <2>2, SameProbe, P!Unmoved, Zenon DEF ContainerInv
<1>5. ContainerInv /\ [ContainerNext]_<<vars, Probe!hvars>> => ContainerInv'
  BY <1>2, <1>3, <1>4 DEF ContainerNext
<1> QED
  BY <1>1, <1>5, PTL DEF ContainerSpec

\* A clamav that Docker calls healthy, on which docker-compose.yml:74-76 starts
\* c-icap, has a clamd that listens with signatures.
THEOREM HealthyWithSignatures == ContainerSpec => []HealthyHasSignatures
<1>1. ContainerInv => HealthyHasSignatures
  BY DEF ContainerInv, ClamavInv, NeverWithoutSignatures, HealthyHasSignatures,
     P!IInv, P!HealthyMeansServing
<1> QED
  BY <1>1, ContainerInvariance, PTL
-----------------------------------------------------------------------------
(***************************************************************************)
(* The promise of ClamavService.                                           *)
(***************************************************************************)

\* A step of the entrypoint, of freshclam or of clamd, as seen from outside: no
\* signature is lost, and only over signatures does clamd come to listen.
LEMMA SeenFromOutside ==
  ASSUME ClamavInv, Next
  PROVE  /\ db \subseteq db'
         /\ \/ pc = "down" /\ pc' \in {"down", "check"} /\ UNCHANGED db
            \/ pc # "down" /\ pc' = "down" /\ UNCHANGED db
            \/ pc \notin {"down", "listening"} /\ pc' \notin {"down", "listening"}
            \/ pc \notin {"down", "listening"} /\ pc' = "listening" /\ db # {} /\ UNCHANGED db
            \/ pc = "listening" /\ pc' = "listening"
<1> USE DEF ClamavInv, End
<1>1. CASE EnsureWritable \/ LookForSignatures
  BY <1>1 DEF EnsureWritable, LookForSignatures
<1>2. CASE Download
  BY <1>2 DEF Download
<1>3. CASE StartUpdater \/ StartClamd
  BY <1>3 DEF StartUpdater, StartClamd
<1>4. CASE StartContainer \/ FixVolume \/ MirrorChanges
  BY <1>4 DEF StartContainer, FixVolume, MirrorChanges
<1>5. CASE Kill
  BY <1>5 DEF Kill
<1>6. CASE Update \/ Reload \/ UpdaterEnds
  BY <1>6 DEF Update, Reload, UpdaterEnds
<1> QED
  BY <1>1, <1>2, <1>3, <1>4, <1>5, <1>6 DEF Next, Run

\* The verdict follows the container from one life to the next.
LEMMA FollowedVerdict ==
  ASSUME Probe!Follow
  PROVE  /\ (pc = "down") = (pc' = "down") => health' = health
         /\ pc = "down" /\ pc' # "down" => health' = "starting"
         /\ pc # "down" /\ pc' = "down" => health' \in {"starting", "unhealthy"}
BY DEF Probe!Follow, Probe!Fresh, Probe!Ended, Probe!verdict

\* Over any signature files and with its probe taken second by second, the clamav
\* container keeps the promise others depend on it for.
THEOREM ServiceRefined == ContainerSpec => ImplementsService
<1>1. ContainerInit => Service!Init
  BY DEF ContainerInit, Init, Probe!Init, Service!Init, Life
<1>2. ASSUME ContainerInv, Next, Probe!Follow PROVE Service!Next \/ UNCHANGED Service!vars
  <2>0. ClamavInv
    BY <1>2 DEF ContainerInv
  <2>1. CASE pc = "down" /\ pc' = "down" /\ UNCHANGED db
    BY <1>2, <2>1, FollowedVerdict DEF Life, Service!vars
  <2>2. CASE pc = "down" /\ pc' = "check" /\ UNCHANGED db
    <3>1. Service!Start
      BY <1>2, <2>2, FollowedVerdict DEF Life, Service!Start
    <3> QED
      BY <3>1 DEF Service!Next
  <2>3. CASE pc # "down" /\ pc' = "down" /\ UNCHANGED db
    <3>1. Service!End
      BY <1>2, <2>3, FollowedVerdict DEF Life, Service!End
    <3> QED
      BY <3>1 DEF Service!Next
  <2>4. CASE pc \notin {"down", "listening"} /\ pc' \notin {"down", "listening"}
    <3>1. Life = "up" /\ Life' = "up"
      BY <2>4 DEF Life
    <3>2. health' \in {health, "unhealthy"}
      BY <1>2, <2>4, FollowedVerdict
    <3>3. (db # {})' \in {db # {}, TRUE}
      <4>1. db # {} => db' # {}
        BY <1>2, <2>0, SeenFromOutside
      <4> QED
        BY <4>1, Zenon
    <3>4. Service!Prepare
      BY <3>1, <3>2, <3>3, Zenon DEF Service!Prepare
    <3> QED
      BY <3>4 DEF Service!Next
  <2>5. CASE pc \notin {"down", "listening"} /\ pc' = "listening" /\ db # {} /\ UNCHANGED db
    <3>1. Service!Serve
      BY <1>2, <2>5, FollowedVerdict DEF Life, Service!Serve
    <3> QED
      BY <3>1 DEF Service!Next
  <2>6. CASE pc = "listening" /\ pc' = "listening"
    <3>1. db # {} /\ db' # {}
      BY <1>2, <2>0, <2>6, SeenFromOutside DEF ClamavInv
    <3>2. health' = health
      BY <1>2, <2>6, FollowedVerdict
    <3>3. Life' = Life
      BY <2>6 DEF Life
    <3> QED
      BY <3>1, <3>2, <3>3 DEF Service!vars
  <2> QED
    BY <1>2, <2>0, <2>1, <2>2, <2>3, <2>4, <2>5, <2>6, SeenFromOutside
<1>3. ASSUME ContainerInv, Probe!Docker, UNCHANGED vars PROVE Service!Next \/ UNCHANGED Service!vars
  <2>0. P!IInv /\ P!Docker /\ UNCHANGED <<pc, db>>
    BY <1>3, SameProbe, Zenon DEF ContainerInv, vars
  <2>1. UNCHANGED <<pc # "down", pc = "listening">>
    BY <2>0, Zenon
  <2>2. \/ health' = health
        \/ pc # "down" /\ health' = "unhealthy"
        \/ pc = "listening" /\ health' = "healthy"
    BY <2>0, <2>1, P!DockerJudges, Zenon DEF P!IInv, P!Connected
  <2>3. UNCHANGED <<Life, db # {}>>
    BY <2>0, Zenon DEF Life
  <2>4. CASE health' = health
    BY <2>3, <2>4, Zenon DEF Service!vars
  <2>5. CASE pc = "listening" /\ health' \in {"healthy", "unhealthy"}
    <3>1. Service!Judge
      BY <2>3, <2>5 DEF Life, Service!Judge
    <3> QED
      BY <3>1 DEF Service!Next
  <2>6. CASE pc \notin {"down", "listening"} /\ health' = "unhealthy"
    <3>1. Life = "up"
      BY <2>6 DEF Life
    <3>2. (db # {})' \in {db # {}, TRUE}
      BY <2>3, Zenon
    <3>3. Service!Prepare
      BY <2>3, <2>6, <3>1, <3>2 DEF Service!Prepare
    <3> QED
      BY <3>3 DEF Service!Next
  <2> QED
    BY <2>2, <2>4, <2>5, <2>6
<1>4. ASSUME UNCHANGED <<vars, Probe!hvars>> PROVE UNCHANGED Service!vars
  BY <1>4 DEF vars, Probe!hvars, Service!vars, Life
<1>5. ContainerInv /\ [ContainerNext]_<<vars, Probe!hvars>> => [Service!Next]_(Service!vars)
  BY <1>2, <1>3, <1>4 DEF ContainerNext
<1> QED
  BY <1>1, <1>5, ContainerInvariance, PTL DEF ContainerSpec, ImplementsService, Service!Spec
=============================================================================
