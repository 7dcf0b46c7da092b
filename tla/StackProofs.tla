---------------------------- MODULE StackProofs ----------------------------
(***************************************************************************)
(* Proofs about Stack, for any squids, profiles, ports, lengths of the     *)
(* download and health settings, and any number of faults.                 *)
(***************************************************************************)
EXTENDS Stack, TLAPS

USE SquidsAssumption, CaAssumption, TimesAssumption, FaultsAssumption

\* The steps of generate-ca.sh and of the operator, as seen from certs/.
CaStep == Ca!Start \/ Ca!Write \/ Ca!Cut \/ Ca!Remove
-----------------------------------------------------------------------------
(***************************************************************************)
(* certs/ (CaFiles).                                                       *)
(***************************************************************************)

\* What is there at each line of the script.
Scripted ==
  /\ script \in {"key", "crt", "open"} => ~pem.there
  /\ script \in {"crt", "open", "fill"} => key # 0
  /\ script \in {"open", "fill"} => key = crt
  /\ script = "dh" => Ca!Whole

CaInv == Ca!TypeOK /\ Scripted /\ Ca!Matches

\* Every write of the script and everything the operator does keeps the files
\* matched.
LEMMA CaKeeps == CaInv /\ CaStep => CaInv'
<1> SUFFICES ASSUME CaInv, CaStep PROVE CaInv'
  OBVIOUS
<1> USE DEF CaInv, Scripted, Ca!TypeOK, Ca!Matches, Ca!Whole, Ca!Generations
<1>1. CASE Ca!Start
  BY <1>1 DEF Ca!Start, Ca!Refuses
<1>2. CASE Ca!WriteKey
  <2> DEFINE Used == {key, crt, pem.key, pem.crt}
  <2>1. \E g \in 1..5 : g \notin Used
    BY SMTT(30)
  <2>2. key' \in 1..5
    BY <1>2, <2>1 DEF Ca!WriteKey
  <2> QED
    BY <1>2, <2>2 DEF Ca!WriteKey
<1>3. CASE Ca!WriteCrt
  BY <1>3 DEF Ca!WriteCrt
<1>4. CASE Ca!OpenPem
  BY <1>4 DEF Ca!OpenPem
<1>5. CASE Ca!FillPem
  BY <1>5 DEF Ca!FillPem
<1>6. CASE Ca!WriteDh
  BY <1>6 DEF Ca!WriteDh
<1>7. CASE Ca!Cut
  BY <1>7 DEF Ca!Cut
<1>8. CASE Ca!Remove
  BY <1>8 DEF Ca!Remove
<1> QED
  BY <1>1, <1>2, <1>3, <1>4, <1>5, <1>6, <1>7, <1>8 DEF CaStep, Ca!Write

\* Seen from certs/, a step of the stack is one of these or none.
LEMMA CaSteps == Next => CaStep \/ UNCHANGED ca
<1> USE DEF CaStep, ca, Ca!cavars
<1>1. Up => CaStep \/ UNCHANGED ca
  BY Zenon DEF Up
<1>2. Reboot => CaStep \/ UNCHANGED ca
  BY Zenon DEF Reboot, Ca!Cut
<1>3. UpWithCa \/ StartCicap \/ GiveUp \/ Finish \/ Interval \/ Down => UNCHANGED ca
  BY Zenon DEF UpWithCa, StartCicap, GiveUp, Finish, Interval, Down
<1>4. Write \/ Generate \/ Cut \/ RemoveCa => CaStep
  BY Zenon DEF Write, Generate, Cut, RemoveCa
<1>5. ASSUME NEW s, StartSquid(s) \/ Serve(s) \/ End(s) \/ Restart(s) PROVE UNCHANGED ca
  BY <1>5, Zenon DEF StartSquid, Serve, End, Restart
<1> QED
  BY <1>1, <1>2, <1>3, <1>4, <1>5, Zenon DEF Next

\* certs/ keeps its invariant in the stack.
LEMMA CaInvariance == Spec => []CaInv
<1>1. Init => CaInv
  <2> SUFFICES ASSUME Ca!Init PROVE CaInv
    BY DEF Init
  <2>1. dh \in BOOLEAN
    BY Zenon DEF Ca!Init
  <2> QED
    BY <2>1 DEF Ca!Init, CaInv, Ca!TypeOK, Scripted, Ca!Matches, Ca!Whole, Ca!Generations
<1>2. CaInv /\ UNCHANGED ca => CaInv'
  BY DEF ca, CaInv, Ca!TypeOK, Scripted, Ca!Matches, Ca!Whole
<1>3. CaInv /\ UNCHANGED vars => CaInv'
  BY <1>2, Zenon DEF vars
<1> QED
  BY <1>1, <1>2, <1>3, CaKeeps, CaSteps, PTL DEF Spec
-----------------------------------------------------------------------------
(***************************************************************************)
(* The containers.                                                         *)
(***************************************************************************)

\* Every variable of the stack itself keeps its type.
Types ==
  /\ up \in {"idle", "ca", "waiting", "starting", "done", "aborted"}
  /\ asked \in Profiles \cup {{}}
  /\ box \in [Services -> {"absent", "refused", "down", "up", "serving"}]
  /\ proxied \in BOOLEAN
  /\ first \in Downloads /\ left \in 0..first
  /\ age \in 0..StartPeriod
  /\ failed \in 0..Retries
  /\ health \in {"starting", "healthy", "unhealthy"}
  /\ faults \in 0..MaxFaults

\* clamd only listens, and is only called healthy, over a database.
Downloaded == box["clamav"] = "serving" \/ health = "healthy" => left = 0

StackInv == Types /\ Downloaded

\* Every step keeps both.
LEMMA StackKeeps == StackInv /\ Next => StackInv'
<1> SUFFICES ASSUME StackInv, Next PROVE StackInv'
  OBVIOUS
<1>0. {"clamav", "c-icap"} \subseteq Services /\ Squids \subseteq Services
  BY DEF Services
<1> USE <1>0 DEF StackInv, Types, Downloaded, download, monitor, Fault
<1>1. CASE Up
  BY <1>1 DEF Up, Compose
<1>2. CASE UpWithCa
  BY <1>2 DEF UpWithCa, Compose
<1>3. CASE Write \/ Generate \/ Cut \/ RemoveCa
  BY <1>3 DEF Write, Generate, Cut, RemoveCa
<1>4. CASE StartCicap
  BY <1>4 DEF StartCicap
<1>5. CASE GiveUp \/ Finish
  BY <1>5 DEF GiveUp, Finish
<1>6. CASE Interval
  BY <1>6 DEF Interval, LeftAfter, Grace
<1>7. CASE Down \/ Reboot
  BY <1>7 DEF Down, Reboot, FreshHealth, EndedHealth, Running
<1>8. ASSUME NEW s \in Squids, StartSquid(s) PROVE StackInv'
  BY <1>8 DEF StartSquid
<1>9. ASSUME NEW s \in Services, Serve(s) PROVE StackInv'
  BY <1>9 DEF Serve, MayServe
<1>10. ASSUME NEW s \in Services, End(s) \/ Restart(s) PROVE StackInv'
  BY <1>10 DEF End, Restart, Restarted, FreshHealth, EndedHealth
<1> QED
  BY <1>1, <1>2, <1>3, <1>4, <1>5, <1>6, <1>7, <1>8, <1>9, <1>10 DEF Next

\* They are an invariant.
LEMMA StackInvariance == Spec => []StackInv
<1>1. Init => StackInv
  <2> SUFFICES ASSUME Init PROVE StackInv
    OBVIOUS
  <2>1. proxied \in BOOLEAN
    BY Zenon DEF Init
  <2> QED
    BY <2>1 DEF Init, StackInv, Types, Downloaded, Services
<1>2. StackInv /\ UNCHANGED vars => StackInv'
  BY DEF StackInv, Types, Downloaded, vars, download, monitor
<1> QED
  BY <1>1, <1>2, StackKeeps, PTL DEF Spec

\* Every variable keeps its type, those of certs/ included.
THEOREM TypeCorrect == Spec => []TypeOK
<1>1. StackInv /\ CaInv => TypeOK
  BY Zenon DEF StackInv, Types, CaInv, TypeOK
<1> QED
  BY <1>1, StackInvariance, CaInvariance, PTL

\* The one purpose of condition: service_healthy: c-icap is not started during
\* the first download, whatever fails and however often.
THEOREM StartsAfterDownload == Spec => CicapAfterDownload
<1> DEFINE Begins == box["c-icap"] = "absent" /\ box'["c-icap"] # "absent"
<1>0. {"clamav", "c-icap"} \subseteq Services /\ "c-icap" \notin Squids
  BY DEF Services
<1> USE <1>0
<1>1. ASSUME StackInv, StartCicap PROVE left = 0
  BY <1>1 DEF StackInv, Downloaded, StartCicap, ClamavIsHealthy
<1>2. ASSUME StackInv, Next, ~StartCicap, Begins PROVE FALSE
  <2>0. box \in [Services -> {"absent", "refused", "down", "up", "serving"}]
    BY <1>2 DEF StackInv, Types
  <2>1. CASE Up \/ UpWithCa
    BY <1>2, <2>0, <2>1 DEF Up, UpWithCa, Compose
  <2>2. CASE Write \/ Generate \/ Cut \/ RemoveCa \/ GiveUp \/ Finish \/ Interval
    BY <1>2, <2>2 DEF Write, Generate, Cut, RemoveCa, GiveUp, Finish, Interval
  <2>3. CASE Down \/ Reboot
    BY <1>2, <2>0, <2>3 DEF Down, Reboot, Running
  <2>4. ASSUME NEW s \in Squids, StartSquid(s) PROVE FALSE
    BY <1>2, <2>0, <2>4 DEF StartSquid
  <2>5. ASSUME NEW s \in Services, Serve(s) \/ End(s) \/ Restart(s) PROVE FALSE
    BY <1>2, <2>0, <2>5 DEF Serve, End, Restart, Restarted, Running
  <2> QED
    BY <1>2, <2>1, <2>2, <2>3, <2>4, <2>5 DEF Next
<1>3. StackInv /\ [Next]_vars => [Begins => left = 0]_vars
  BY <1>1, <1>2
<1> QED
  BY <1>3, StackInvariance, PTL DEF Spec, CicapAfterDownload
-----------------------------------------------------------------------------
(***************************************************************************)
(* clamav in the stack is the one ClamavService promises.                  *)
(***************************************************************************)

\* A container of clamav that is not there has no verdict yet.
Unjudged == box["clamav"] = "absent" => health = "starting"

\* It stays so: a verdict is only ever given to a container that is there.
LEMMA UnjudgedInvariance == Spec => []Unjudged
<1>1. Init => Unjudged
  BY DEF Init, Unjudged
<1>2. StackInv /\ Unjudged /\ [Next]_vars => Unjudged'
  <2> SUFFICES ASSUME StackInv, Unjudged, [Next]_vars PROVE Unjudged'
    OBVIOUS
  <2>0. box \in [Services -> {"absent", "refused", "down", "up", "serving"}] /\ "clamav" \in Services
    BY DEF StackInv, Types, Services
  <2> USE <2>0 DEF Unjudged, monitor
  <2>1. CASE Up \/ UpWithCa
    BY <2>1 DEF Up, UpWithCa, Compose
  <2>2. CASE Write \/ Generate \/ Cut \/ RemoveCa \/ GiveUp \/ Finish
    BY <2>2 DEF Write, Generate, Cut, RemoveCa, GiveUp, Finish
  <2>3. CASE StartCicap \/ Interval
    BY <2>3 DEF StartCicap, Interval, Services
  <2>4. CASE Down \/ Reboot
    BY <2>4 DEF Down, Reboot, FreshHealth, EndedHealth, Running
  <2>5. ASSUME NEW s \in Squids, StartSquid(s) PROVE Unjudged'
    BY <2>5 DEF StartSquid, Services
  <2>6. ASSUME NEW s \in Services, Serve(s) \/ End(s) \/ Restart(s) PROVE Unjudged'
    BY <2>6 DEF Serve, End, Restart, FreshHealth
  <2>7. CASE UNCHANGED vars
    BY <2>7 DEF vars
  <2> QED
    BY <2>1, <2>2, <2>3, <2>4, <2>5, <2>6, <2>7 DEF Next
<1> QED
  BY <1>1, <1>2, StackInvariance, PTL DEF Spec

\* The steps in which nothing happens to clamav.
LEMMA Elsewhere ==
  ASSUME Types, UNCHANGED <<box["clamav"], left, health>> PROVE UNCHANGED Clamav!vars
BY DEF Clamav!vars, ClamavLife, Running

\* Whatever fails, what the stack does to its clamav and learns of it is what
\* ClamavService allows: the stack counts on nothing else of the container, which
\* keeps it (ClamavContainerProofs).
THEOREM ClamavRefined == Spec => ClamavAsPromised
<1>1. Init => Clamav!Init
  BY DEF Init, Clamav!Init, ClamavLife, Running, Services
<1>2. StackInv /\ Unjudged /\ [Next]_vars => [Clamav!Next]_(Clamav!vars)
  <2> SUFFICES ASSUME StackInv, Unjudged, [Next]_vars
               PROVE  Clamav!Next \/ UNCHANGED Clamav!vars
    OBVIOUS
  <2>0. /\ box \in [Services -> {"absent", "refused", "down", "up", "serving"}]
        /\ {"clamav", "c-icap"} \subseteq Services /\ Squids \subseteq Services
        /\ "clamav" \notin Squids /\ Types
    BY DEF StackInv, Types, Services
  <2> USE <2>0
  <2>a. CASE UNCHANGED <<box["clamav"], left, health>>
    BY <2>a, Elsewhere
  <2>1. CASE Up \/ UpWithCa
    <3>1. CASE box["clamav"] = "absent" /\ box'["clamav"] = "up"
      <4>1. Clamav!Start
        BY <2>1, <3>1 DEF Up, UpWithCa, Clamav!Start, ClamavLife, Running, Unjudged, download, monitor
      <4> QED
        BY <4>1 DEF Clamav!Next
    <3>2. CASE box'["clamav"] = box["clamav"]
      BY <2>1, <3>2, <2>a DEF Up, UpWithCa, download, monitor
    <3> QED
      BY <2>1, <3>1, <3>2 DEF Up, UpWithCa, Compose
  <2>2. CASE Write \/ Generate \/ Cut \/ RemoveCa \/ GiveUp \/ Finish \/ StartCicap
    BY <2>2, <2>a DEF Write, Generate, Cut, RemoveCa, GiveUp, Finish, StartCicap, download, monitor
  <2>3. CASE Interval
    <3>1. CASE box["clamav"] = "serving"
      <4>1. left = 0 /\ left' = 0 /\ UNCHANGED box /\ health' = "healthy"
        BY <2>3, <3>1 DEF StackInv, Downloaded, Interval, LeftAfter
      <4>2. Clamav!Judge
        BY <3>1, <4>1 DEF Clamav!Judge, ClamavLife, Running
      <4> QED
        BY <4>2 DEF Clamav!Next
    <3>2. CASE box["clamav"] = "up"
      <4>1. UNCHANGED box /\ health' \in {health, "unhealthy"} /\ left > 0
        BY <2>3, <3>2 DEF Interval
      <4>2. ClamavLife = "up" /\ UNCHANGED ClamavLife
        BY <3>2, <4>1 DEF ClamavLife, Running
      <4>3. (left = 0)' \in {left = 0, TRUE}
        <5>1. ~(left = 0)
          BY <4>1
        <5> QED
          BY <5>1, Zenon
      <4>4. Clamav!Prepare
        BY <4>1, <4>2, <4>3, Zenon DEF Clamav!Prepare
      <4> QED
        BY <4>4 DEF Clamav!Next
    <3> QED
      BY <2>3, <3>1, <3>2 DEF Interval
  <2>4. CASE Down
    <3>1. Clamav!End
      BY <2>4 DEF Down, FreshHealth, Clamav!End, ClamavLife, Running, download
    <3> QED
      BY <3>1 DEF Clamav!Next
  <2>5. CASE Reboot
    <3>1. CASE Running("clamav")
      <4>1. Clamav!End
        BY <2>5, <3>1 DEF Reboot, EndedHealth, Clamav!End, ClamavLife, Running, download
      <4> QED
        BY <4>1 DEF Clamav!Next
    <3>2. CASE ~Running("clamav")
      BY <2>5, <3>2, <2>a DEF Reboot, download, monitor
    <3> QED
      BY <3>1, <3>2
  <2>6. ASSUME NEW s \in Squids, StartSquid(s) PROVE UNCHANGED <<box["clamav"], left, health>>
    BY <2>6 DEF StartSquid, download, monitor
  <2>7. ASSUME NEW s \in Services, s # "clamav", Serve(s) \/ End(s) \/ Restart(s)
        PROVE  UNCHANGED <<box["clamav"], left, health>>
    BY <2>7 DEF Serve, End, Restart, download, monitor
  <2>8. CASE Serve("clamav")
    <3>1. Clamav!Serve
      BY <2>8 DEF Serve, MayServe, Clamav!Serve, ClamavLife, Running, download, monitor
    <3> QED
      BY <3>1 DEF Clamav!Next
  <2>9. CASE End("clamav")
    <3>1. Clamav!End
      BY <2>9 DEF End, EndedHealth, Clamav!End, ClamavLife, Running, download
    <3> QED
      BY <3>1 DEF Clamav!Next
  <2>10. CASE Restart("clamav")
    <3>1. Clamav!Start
      BY <2>10 DEF Restart, Restarted, FreshHealth, Clamav!Start, ClamavLife, Running, download
    <3> QED
      BY <3>1 DEF Clamav!Next
  <2>11. CASE UNCHANGED vars
    BY <2>11, <2>a DEF vars, download, monitor
  <2> QED
    BY <2>a, <2>1, <2>2, <2>3, <2>4, <2>5, <2>6, <2>7, <2>8, <2>9, <2>10, <2>11 DEF Next
<1> QED
  BY <1>1, <1>2, StackInvariance, UnjudgedInvariance, PTL
     DEF Spec, ClamavAsPromised, Clamav!Spec
-----------------------------------------------------------------------------
(***************************************************************************)
(* A first `up` that nothing disturbs.                                     *)
(***************************************************************************)

\* As long as nothing has failed, bump.pem is whole or on its way, and a squid
\* that reads it waits for it.
CaFirst ==
  faults = 0 =>
    /\ pem.there => script = "fill" \/ (Ca!Whole /\ (dh \/ script = "dh"))
    /\ up = "ca" => script # "idle" \/ pem.there
    /\ up \in {"waiting", "starting"} /\ NeedsCa \cap asked # {} => pem.there
    /\ \A s \in NeedsCa : Started(s) => pem.there

\* Nor has clamav ended: its age and failures follow from what is downloaded.
Gone == first - left
Timely ==
  faults = 0 =>
    /\ box["clamav"] \in {"absent", "up", "serving"}
    /\ box["clamav"] = "absent" => left = first /\ age = 0 /\ failed = 0 /\ health = "starting"
    /\ box["clamav"] = "up" /\ InTime =>
         /\ health = "starting"
         /\ Gone <= StartPeriod => age = Gone /\ failed = 0
         /\ Gone >= StartPeriod => age = StartPeriod /\ failed = Gone - StartPeriod
    /\ box["clamav"] = "serving" /\ InTime => health # "unhealthy"

\* A fault is counted.
LEMMA Counted == ASSUME Types, Fault PROVE faults' # 0
BY DEF Types, Fault

\* The steps of the script and of the command keep what is true of certs/.
LEMMA CaFirstKeeps == StackInv /\ CaInv /\ CaFirst /\ Next => CaFirst'
<1> SUFFICES ASSUME StackInv, CaInv, CaFirst, Next, faults' = 0 PROVE CaFirst'
  BY DEF CaFirst
<1>0. Types /\ ~Fault
  BY Counted DEF StackInv
<1> USE <1>0 DEF Types, CaFirst, Started, ca, Ca!Whole, Services
<1>1. CASE Up
  BY <1>1 DEF Up, AskedForCa, Compose, Ca!Start, Ca!Refuses
<1>2. CASE UpWithCa
  BY <1>2 DEF UpWithCa, Compose
<1>3. CASE Generate
  BY <1>3 DEF Generate, Ca!Start, Ca!Refuses
<1>4. CASE Write
  BY <1>4 DEF Write, CaInv, Scripted, Ca!Write, Ca!WriteKey, Ca!WriteCrt, Ca!OpenPem, Ca!FillPem,
     Ca!WriteDh
<1>5. CASE Cut \/ RemoveCa \/ Down \/ Reboot
  BY <1>5, Zenon DEF Cut, RemoveCa, Down, Reboot
<1>6. CASE StartCicap
  BY <1>6 DEF StartCicap
<1>7. CASE GiveUp \/ Finish \/ Interval
  BY <1>7 DEF GiveUp, Finish, Interval
<1>8. ASSUME NEW s \in Squids, StartSquid(s) PROVE CaFirst'
  BY <1>8 DEF StartSquid
<1>9. ASSUME NEW s \in Services, Serve(s) \/ End(s) \/ Restart(s) PROVE CaFirst'
  BY <1>9 DEF Serve, End, Restart, Restarted, Running
<1> QED
  BY <1>1, <1>2, <1>3, <1>4, <1>5, <1>6, <1>7, <1>8, <1>9 DEF Next

\* Each interval takes one from the download and adds one to the age, then to
\* the failures.
LEMMA TimelyKeeps == StackInv /\ Timely /\ Next => Timely'
<1> SUFFICES ASSUME StackInv, Timely, Next, faults' = 0 PROVE Timely'
  BY DEF Timely
<1>0. Types /\ Downloaded /\ ~Fault /\ {"clamav", "c-icap"} \subseteq Services
  BY Counted DEF StackInv, Services
<1> USE <1>0 DEF Types, Timely, Gone, InTime, download, monitor
<1>1. CASE Up \/ UpWithCa
  BY <1>1 DEF Up, UpWithCa, Compose
<1>2. CASE Write \/ Generate \/ GiveUp \/ Finish
  BY <1>2 DEF Write, Generate, GiveUp, Finish
<1>3. CASE Cut \/ RemoveCa \/ Down \/ Reboot
  BY <1>3, Zenon DEF Cut, RemoveCa, Down, Reboot
<1>4. CASE StartCicap
  BY <1>4 DEF StartCicap
<1>5. CASE Interval
  BY <1>5 DEF Interval, Reached, LeftAfter, Grace, Downloaded
<1>6. ASSUME NEW s \in Squids, StartSquid(s) PROVE Timely'
  BY <1>6 DEF StartSquid, Services
<1>7. ASSUME NEW s \in Services, Serve(s) \/ End(s) \/ Restart(s) PROVE Timely'
  BY <1>7 DEF Serve, End, Restart, Restarted, Running
<1> QED
  BY <1>1, <1>2, <1>3, <1>4, <1>5, <1>6, <1>7 DEF Next

\* Both hold until something fails.
LEMMA FirstInvariance == Spec => [](CaFirst /\ Timely)
<1>1. Init => CaFirst /\ Timely
  BY DEF Init, Ca!Init, CaFirst, Timely, Started, Gone, Services
<1>2. CaFirst /\ Timely /\ UNCHANGED vars => CaFirst' /\ Timely'
  BY DEF CaFirst, Timely, Started, Gone, InTime, Ca!Whole, vars, ca, download, monitor
<1> QED
  BY <1>1, <1>2, CaFirstKeeps, TimelyKeeps, StackInvariance, CaInvariance, PTL DEF Spec

\* A first `up` that nothing disturbs is never given up when the download takes
\* less than start_period and the retries together, whatever their values, and
\* starts no squid over a missing CA.
THEOREM FirstUpIsPatient == Spec => []FirstUpCompletes
<1>1. StackInv /\ CaFirst /\ Timely => FirstUpCompletes
  BY DEF StackInv, Types, CaFirst, Timely, FirstUpCompletes, InTime, Gone
<1> QED
  BY <1>1, FirstInvariance, StackInvariance, PTL

\* A whole bump.pem holds one key with its own certificate, the one clients are
\* given, however often generate-ca.sh is cut short; and nothing but that leaves
\* a bump.pem that squid cannot start with.
THEOREM CaIsSound == Spec => []CaSound
<1>1. CaInv /\ CaFirst => CaSound
  BY DEF CaInv, CaFirst, CaSound, Ca!Usable
<1> QED
  BY <1>1, CaInvariance, FirstInvariance, PTL
=============================================================================
