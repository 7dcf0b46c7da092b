----------------------------- MODULE EicarTest -----------------------------
(***************************************************************************)
(* scripts/test-eicar.sh: several runs of the script that checks, with the *)
(* EICAR file, that the proxy blocks viruses, over one docker daemon, one  *)
(* proxy and one /tmp/eicar.out.  Docker, curl and the proxy are modelled  *)
(* from how the script uses them.                                          *)
(***************************************************************************)
EXTENDS Naturals

CONSTANTS
  Runs, NoRun,    \* runs of the script
  External,       \* the runs that are given a proxy (mode 2)
  Chains,         \* how the proxy may answer: see chain
  MaxTries        \* readings of the temporary server before going on: 20

ASSUME RunsAssumption == NoRun \notin Runs /\ External \subseteq Runs
ASSUME ChainsAssumption == Chains \subseteq {"scanning", "bypassing", "down", "absent"}
ASSUME TriesAssumption == MaxTries \in Nat

VARIABLES
  pc,       \* where each run is
  verdict,  \* what each run ended on, "silent" when it said nothing
  chain,    \* "scanning", "bypassing" (ICAP down, bypass=1), proxy "down", no stack
  server,   \* the run whose container is named eicar-test-server
  ready,    \* does that container answer?
  tries,    \* readings of the server by each run
  reply,    \* what the proxy answered to each run
  saved     \* /tmp/eicar.out: the body of the last answer that had one

vars == <<pc, verdict, chain, server, ready, tries, reply, saved>>

Init ==
  /\ pc = [r \in Runs |-> "idle"]
  /\ verdict = [r \in Runs |-> "none"]
  /\ chain \in Chains
  /\ server = NoRun /\ ready = FALSE
  /\ tries = [r \in Runs |-> 0]
  /\ reply = [r \in Runs |-> "none"]
  /\ saved = "none"

Go(r, label) == pc' = [pc EXCEPT ![r] = label]

\* Between the trap and the end of the script, every exit removes the server.
NeverSet(r) == FALSE              \* mutant: no trap
SetBeforeRun(r) == r \notin External /\ pc[r] # "idle"   \* mutant: trap, then docker run
TrapSet(r) == pc[r] \in {"wait", "fetch", "judge"}

\* The script ends; docker rm -f goes by the name of the container.
Exit(r, v) ==
  /\ Go(r, "ended")
  /\ verdict' = [verdict EXCEPT ![r] = v]
  /\ server' = IF TrapSet(r) THEN NoRun ELSE server
  /\ ready' = IF TrapSet(r) THEN FALSE ELSE ready

StackChanges ==
  /\ chain' \in Chains \ {chain}
  /\ UNCHANGED <<pc, verdict, server, ready, tries, reply, saved>>

ServerListens ==
  /\ server # NoRun /\ ~ready
  /\ ready' = TRUE
  /\ UNCHANGED <<pc, verdict, chain, server, tries, reply, saved>>

\* set -e and pipefail: when grep finds no network the assignment itself ends
\* the script, in either mode, before the message about it.
FindNetwork(r) ==
  /\ pc[r] = "idle"
  /\ IF chain = "absent"
       THEN Exit(r, "silent")
       ELSE /\ Go(r, IF r \in External THEN "external" ELSE "run")
            /\ UNCHANGED <<verdict, server, ready>>
  /\ UNCHANGED <<chain, tries, reply, saved>>

\* docker run fails, its output thrown away, when the name is taken.
RunServer(r) ==
  /\ pc[r] = "run"
  /\ IF server # NoRun \/ chain = "absent"
       THEN Exit(r, "silent")
       ELSE Go(r, "trap") /\ server' = r /\ ready' = FALSE /\ UNCHANGED verdict
  /\ UNCHANGED <<chain, tries, reply, saved>>

SetTrap(r) ==
  /\ pc[r] = "trap"
  /\ Go(r, "wait")
  /\ UNCHANGED <<verdict, chain, server, ready, tries, reply, saved>>

Waited(r) == ready \/ tries[r] = MaxTries

\* Going on after the last try as if the server had answered.
WaitForServer(r) ==
  /\ pc[r] = "wait"
  /\ IF Waited(r) THEN Go(r, "fetch") /\ UNCHANGED tries
                  ELSE tries' = [tries EXCEPT ![r] = @ + 1] /\ UNCHANGED pc
  /\ UNCHANGED <<verdict, chain, server, ready, reply, saved>>

Answer == CASE chain = "scanning"  -> "blocked"
            [] chain = "bypassing" -> "eicar"
            [] OTHER               -> "none"

\* Mode 1: only the header comes back, the body goes to /dev/null; a curl or
\* a docker inspect that fails ends the script.
Fetch(r) ==
  /\ pc[r] = "fetch"
  /\ LET got == IF ready \/ Answer = "none" THEN Answer ELSE "error page"
     IN  /\ reply' = [reply EXCEPT ![r] = got]
         /\ IF got = "none" THEN Exit(r, "error")
                            ELSE Go(r, "judge") /\ UNCHANGED <<verdict, server, ready>>
  /\ UNCHANGED <<chain, tries, saved>>

BlockMarks == {"blocked"}
ExternalMarks == {"blocked", "eicar"}

\* The test for the EICAR string has no body to look in: FAIL is out of reach.
Judge(r) ==
  /\ pc[r] = "judge"
  /\ Exit(r, IF reply[r] \in BlockMarks THEN "PASS" ELSE "AMBIGUOUS")
  /\ UNCHANGED <<chain, tries, reply, saved>>

\* Mode 2: a proxy may also refuse by status, 307 or 403, on a page without a mark.  A
\* curl that fails is ignored, and leaves the file as it was.
FetchExternal(r) ==
  /\ pc[r] = "external"
  /\ \E got \in IF Answer = "none" THEN {"none"} ELSE {Answer, "refused", "error page"} :
       /\ reply' = [reply EXCEPT ![r] = got]
       /\ saved' = IF got = "none" THEN saved ELSE got
  /\ Go(r, "external judge")
  /\ UNCHANGED <<verdict, chain, server, ready, tries>>

\* Without a file head ends the script.  The file is any run's, the status the run's
\* own.  "virus", looked for without case, is also in
\* EICAR-STANDARD-ANTIVIRUS-TEST-FILE: FAIL is out of reach here too.
JudgeExternal(r) ==
  /\ pc[r] = "external judge"
  /\ Exit(r, IF saved = "none" THEN "error"
             ELSE IF saved \in ExternalMarks \/ reply[r] = "refused" THEN "PASS"
             ELSE IF saved = "eicar" THEN "FAIL" ELSE "AMBIGUOUS")
  /\ UNCHANGED <<chain, tries, reply, saved>>

\* Ctrl-C or SIGTERM: the EXIT trap runs.
Interrupt(r) ==
  /\ pc[r] \notin {"idle", "trap", "ended"}
  /\ Exit(r, "interrupted")
  /\ UNCHANGED <<chain, tries, reply, saved>>

\* SIGKILL, or a signal between docker run and trap.
Kill(r) ==
  /\ pc[r] \notin {"idle", "ended"}
  /\ Go(r, "ended")
  /\ verdict' = [verdict EXCEPT ![r] = "killed"]
  /\ UNCHANGED <<chain, server, ready, tries, reply, saved>>

Script(r) ==
  \/ FindNetwork(r) \/ RunServer(r) \/ SetTrap(r) \/ WaitForServer(r)
  \/ Fetch(r) \/ Judge(r)
  \/ FetchExternal(r) \/ JudgeExternal(r)

Next == \/ StackChanges \/ ServerListens
        \/ \E r \in Runs : Script(r) \/ Interrupt(r) \/ Kill(r)

Spec == Init /\ [][Next]_vars
-----------------------------------------------------------------------------
\* Every variable keeps its type.
TypeOK ==
  /\ pc \in [Runs -> {"idle", "run", "trap", "wait", "fetch", "judge",
                      "external", "external judge", "ended"}]
  /\ verdict \in [Runs -> {"none", "PASS", "FAIL", "AMBIGUOUS", "error", "silent", "interrupted",
                        "killed"}]
  /\ chain \in Chains
  /\ server \in Runs \cup {NoRun} /\ ready \in BOOLEAN
  /\ tries \in [Runs -> 0..MaxTries]
  /\ reply \in [Runs -> {"none", "blocked", "refused", "eicar", "error page"}]
  /\ saved \in {"none", "blocked", "refused", "eicar", "error page"}

\* "PASS - Antivirus a bloque EICAR" (test-eicar.sh:73, 101), "PASS - Proxy a bloque la
\* requete" (105): a run only passes when it is itself answered by a proxy that
\* blocked the file.
PassMeansBlocked ==
  \A r \in Runs : verdict[r] = "PASS" => reply[r] \in {"blocked", "refused"}

\* A run that has its server keeps it until it ends: no other run, whichever
\* way it ends, removes the container of the same name.
ServerKept ==
  \A r \in Runs : TrapSet(r) \/ pc[r] = "trap" => server = r

\* A run that is not killed leaves no server behind, whose name would make
\* every later run fail (test-eicar.sh:42).
NoLeftServer ==
  \A r \in Runs : pc[r] = "ended" /\ verdict[r] # "killed" => server # r
=============================================================================
