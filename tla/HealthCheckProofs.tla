------------------------- MODULE HealthCheckProofs -------------------------
(***************************************************************************)
(* Proofs about HealthCheck, for a probe that reads a line as for one that *)
(* reads once: of the probe itself, whatever the container and its service *)
(* do; and of the verdict, over a service that listens until its container *)
(* ends.                                                                   *)
(***************************************************************************)
EXTENDS HealthCheck, TLAPS

\* How far each phase of the probe may have come.
Phases ==
  /\ serving => up
  /\ probe = "none" => spent = 0
  /\ probe = "dialing" => up /\ spent \in 0..DialLimit
  /\ probe = "reading" => up /\ limit \in 0 .. (DialLimit + ReadLimit) /\ spent <= limit

ProbeInv == ProbeOK /\ Phases

\* The connection of a probe, and a verdict that stands, are to a service that
\* listens.
Connected == probe = "reading" => serving

IInv == ProbeInv /\ Connected /\ HealthyMeansServing

USE DEF DialLimit, ReadLimit, Timeout, Retries, WordEnd, LineEnd

\* Both invariants hold at first.
LEMMA Initially == Init => IInv
<1> SUFFICES ASSUME Init PROVE IInv
  OBVIOUS
<1>1. up \in BOOLEAN /\ serving \in BOOLEAN /\ grace \in BOOLEAN /\ (serving => up)
  BY Zenon DEF Init
<1>2. /\ answers \in Manners /\ probe = "none" /\ health = "starting"
      /\ spent = 0 /\ limit = 0 /\ got = 0 /\ failed = 0
  BY Zenon DEF Init
<1> QED
  BY <1>1, <1>2 DEF IInv, ProbeInv, ProbeOK, Phases, Connected, HealthyMeansServing

\* A verdict changes to healthy on a probe that passed only, and keeps its type.
LEMMA Judged ==
  ASSUME ProbeOK, NEW ok \in BOOLEAN, Judge(ok)
  PROVE  /\ grace' \in BOOLEAN /\ failed' \in 0..Retries
         /\ health' \in {"starting", "healthy", "unhealthy"}
         /\ health' = health \/ health' = "unhealthy" \/ (ok /\ health' = "healthy")
<1>1. CASE ok
  <2>1. grace' = FALSE /\ failed' = 0 /\ health' = "healthy"
    BY <1>1, Zenon DEF Judge
  <2>2. failed' \in 0..Retries
    BY <2>1
  <2> QED
    BY <1>1, <2>1, <2>2, Zenon
<1>2. CASE ~ok /\ grace
  BY <1>2 DEF Judge, verdict, ProbeOK
<1>3. CASE ~ok /\ ~grace
  BY <1>3 DEF Judge, ProbeOK
<1> QED
  BY <1>1, <1>2, <1>3

\* What a step of the probe or of Docker may do: it goes on, or ends the probe with
\* a result, good only over a connection.
LEMMA DockerSteps ==
  ASSUME ProbeInv, Docker, UNCHANGED <<up, serving>>
  PROVE  \/ /\ health' = health
            /\ probe' = "reading" => probe = "reading" \/ serving
            /\ ProbeInv'
         \/ \E ok \in BOOLEAN : up /\ Finish(ok) /\ (ok => probe = "reading")
<1> USE DEF ProbeInv, ProbeOK, Phases, verdict, dialogue
<1>1. CASE Begin
  BY <1>1 DEF Begin
<1>2. CASE Connect
  BY <1>2 DEF Connect, Deadline
<1>3. CASE DialFails
  BY <1>3 DEF DialFails, DialError
<1>4. CASE Receive
  <2>1. PICK n \in (got + 1) .. LineEnd :
          \/ n < LineEnd /\ got' = n /\ UNCHANGED <<answers, probe, spent, limit, verdict>>
          \/ Finish(n >= WordEnd)
    BY <1>4 DEF Receive
  <2>2. CASE Finish(n >= WordEnd)
    <3>1. (n >= WordEnd) \in BOOLEAN /\ up /\ probe = "reading"
      BY <1>4, <2>1 DEF Receive
    <3> QED
      BY <2>2, <3>1, Zenon
  <2> QED
    BY <2>1, <2>2
<1>5. CASE ReadFails
  <2>1. probe = "reading" /\ up /\ Finish(ByLine /\ got >= WordEnd)
    BY <1>5 DEF ReadFails
  <2>2. (ByLine /\ got >= WordEnd) \in BOOLEAN
    BY <2>1
  <2> QED
    BY <2>1, <2>2, Zenon
<1>6. CASE Tick
  BY <1>6 DEF Tick
<1>7. CASE AnswersChange
  BY <1>7 DEF AnswersChange, Manners
<1>8. CASE GraceEnds
  BY <1>8 DEF GraceEnds
<1> QED
  BY <1>1, <1>2, <1>3, <1>4, <1>5, <1>6, <1>7, <1>8 DEF Docker, Step

\* The end of a probe, with whatever result.
LEMMA Finished ==
  ASSUME ProbeInv, NEW ok \in BOOLEAN, Finish(ok), UNCHANGED <<up, serving>>
  PROVE  ProbeInv' /\ probe' = "none"
<1>1. Idle /\ Judge(ok) /\ UNCHANGED answers
  BY DEF Finish
<1>2. ProbeOK'
  BY <1>1, Judged DEF ProbeInv, ProbeOK, Idle
<1> QED
  BY <1>1, <1>2 DEF ProbeInv, Phases, Idle

\* Every step of the probe and of Docker keeps the invariant of the probe.
LEMMA DockerKeepsProbe == ProbeInv /\ Docker /\ UNCHANGED <<up, serving>> => ProbeInv'
  BY DockerSteps, Finished, Zenon

\* The verdict that a probe changes is on a container that runs, and for the
\* better only over a connection.
LEMMA DockerJudges ==
  ASSUME ProbeInv, Docker, UNCHANGED <<up, serving>>
  PROVE  \/ health' = health
         \/ up /\ health' = "unhealthy"
         \/ probe = "reading" /\ health' = "healthy"
<1>1. ASSUME NEW ok \in BOOLEAN, Finish(ok)
      PROVE  health' = health \/ health' = "unhealthy" \/ (ok /\ health' = "healthy")
  BY <1>1, Judged DEF ProbeInv, Finish
<1> QED
  BY <1>1, DockerSteps, Zenon

\* They keep that of the verdict too, as the service listens on.
LEMMA DockerKeeps == IInv /\ Docker /\ UNCHANGED <<up, serving>> => IInv'
<1> SUFFICES ASSUME IInv, Docker, UNCHANGED <<up, serving>> PROVE IInv'
  OBVIOUS
<1>1. ProbeInv' /\ (probe' = "reading" => serving)
  BY DockerSteps, DockerKeepsProbe, Finished DEF IInv, Connected
<1>2. health' = "healthy" => serving
  BY DockerJudges DEF IInv, Connected, HealthyMeansServing
<1> QED
  BY <1>1, <1>2 DEF IInv, Connected, HealthyMeansServing

\* The probe's invariant does not care what the container does.
LEMMA ContainerKeepsProbe == ProbeInv /\ Container => ProbeInv'
<1> SUFFICES ASSUME ProbeInv, Container PROVE ProbeInv'
  OBVIOUS
<1> USE DEF ProbeInv, ProbeOK, Phases
<1>1. CASE up' = up
  BY <1>1 DEF Container, Follow, dialogue, verdict
<1>2. CASE up' # up
  <2>1. /\ up' \in BOOLEAN /\ serving' \in BOOLEAN /\ (serving' => up')
        /\ Idle /\ (Fresh \/ Ended) /\ UNCHANGED answers
    BY <1>2, Zenon DEF Container, Follow
  <2>2. grace' = TRUE /\ failed' = 0 /\ health' \in {"starting", "unhealthy"}
    BY <2>1, Zenon DEF Fresh, Ended
  <2> QED
    BY <2>1, <2>2 DEF Idle
<1> QED
  BY <1>1, <1>2

\* That of the verdict needs a service that goes on listening.
LEMMA ContainerKeeps == IInv /\ Container /\ KeepsListening => IInv'
<1> SUFFICES ASSUME IInv, Container, KeepsListening PROVE IInv'
  OBVIOUS
<1>0. ProbeInv'
  BY ContainerKeepsProbe DEF IInv
<1> USE DEF IInv, ProbeInv, Phases, Connected, HealthyMeansServing
<1>1. CASE up' = up
  BY <1>0, <1>1 DEF Container, KeepsListening, Follow, dialogue, verdict
<1>2. CASE up' # up
  <2>1. Idle /\ (Fresh \/ Ended)
    BY <1>2, Zenon DEF Container, Follow
  <2>2. health' \in {"starting", "unhealthy"} /\ probe' = "none"
    BY <2>1, Zenon DEF Idle, Fresh, Ended
  <2> QED
    BY <1>0, <2>2
<1> QED
  BY <1>1, <1>2

\* Nothing of either changes while nothing happens.
LEMMA Unmoved ==
  UNCHANGED <<up, serving, hvars>> => (ProbeInv => ProbeInv') /\ (IInv => IInv')
BY DEF hvars, IInv, ProbeInv, ProbeOK, Phases, Connected, HealthyMeansServing

\* No probe is left for Docker's timeout to kill, whatever the service does, one
\* that stops listening in the middle of the dialogue included
\* (squid/init.go:193-206, c-icap/init.go:90-103, clamav/init.go:171-185).
THEOREM EndsByItself == Spec => []ProbeOK
<1>1. Init => ProbeInv
  BY Initially DEF IInv
<1>2. ProbeInv /\ [Next]_<<up, serving, hvars>> => ProbeInv'
  BY DockerKeepsProbe, ContainerKeepsProbe, Unmoved DEF Next
<1>3. ProbeInv => ProbeOK
  BY DEF ProbeInv
<1> QED
  BY <1>1, <1>2, <1>3, PTL DEF Spec

\* A container that Docker calls healthy serves, if its service, once it listens, does so
\* until the container ends; of one that stops before, the verdict is out of date
\* until probes have failed.
THEOREM HealthyServes == Spec /\ Steady => []HealthyMeansServing
<1>1. IInv /\ [Next]_<<up, serving, hvars>> /\ [KeepsListening]_<<up, serving>> => IInv'
  <2> SUFFICES ASSUME IInv, [Next]_<<up, serving, hvars>>,
                      KeepsListening \/ UNCHANGED <<up, serving>>
               PROVE  IInv'
    OBVIOUS
  <2>1. CASE Docker /\ UNCHANGED <<up, serving>>
    BY <2>1, DockerKeeps
  <2>2. CASE Container
    <3>1. KeepsListening
      BY DEF KeepsListening
    <3> QED
      BY <2>2, <3>1, ContainerKeeps
  <2>3. CASE UNCHANGED <<up, serving, hvars>>
    BY <2>3, Unmoved
  <2> QED
    BY <2>1, <2>2, <2>3 DEF Next
<1>2. IInv => HealthyMeansServing
  BY DEF IInv
<1> QED
  BY <1>1, <1>2, Initially, PTL DEF Spec, Steady
=============================================================================
