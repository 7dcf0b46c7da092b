-------------------------- MODULE EicarTestProofs --------------------------
(***************************************************************************)
(* Proofs about EicarTest, for any runs in either mode, any number of      *)
(* tries and any ways the proxy may answer.                                *)
(***************************************************************************)
EXTENDS EicarTest, TLAPS

USE RunsAssumption, TriesAssumption

\* A verdict is for a run that ended, an answer for one that asked.
Sequential ==
  \A r \in Runs :
    /\ verdict[r] # "none" => pc[r] = "ended"
    /\ reply[r] # "none" => pc[r] \in {"judge", "external judge", "ended"}
    /\ pc[r] \in {"external", "external judge"} => r \in External

\* A container by the name of the server is that of a run in progress, or of one
\* that was killed.
Owned ==
  \A r \in Runs : server = r =>
    \/ pc[r] = "trap" \/ TrapSet(r)
    \/ pc[r] = "ended" /\ verdict[r] = "killed"

IInv == TypeOK /\ Sequential /\ ServerKept /\ Owned

\* Every exit before the script has a server leaves the others' alone; every
\* later one removes its own.
LEMMA ExitKeeps ==
  ASSUME IInv, NEW r \in Runs, pc[r] \notin {"trap", "ended"},
         NEW v \in {"PASS", "FAIL", "AMBIGUOUS", "error", "silent", "interrupted"}, Exit(r, v),
         NEW got \in {"none", "blocked", "refused", "eicar", "error page"},
         reply' = [reply EXCEPT ![r] = got],
         UNCHANGED <<chain, tries, saved>>
  PROVE  IInv'
<1>1. /\ pc' = [pc EXCEPT ![r] = "ended"] /\ verdict' = [verdict EXCEPT ![r] = v]
      /\ server' = IF TrapSet(r) THEN NoRun ELSE server
  BY DEF Exit, Go
<1>2. ready' \in BOOLEAN
  BY Zenon DEF Exit, IInv, TypeOK
<1>3. TypeOK'
  BY <1>1, <1>2 DEF IInv, TypeOK
<1>4. Sequential'
  BY <1>1 DEF IInv, TypeOK, Sequential
<1>5. ServerKept' /\ Owned'
  BY <1>1 DEF IInv, TypeOK, ServerKept, Owned, TrapSet
<1> QED
  BY <1>3, <1>4, <1>5 DEF IInv

\* The invariant holds at first.
LEMMA Initially == Init => IInv
<1> SUFFICES ASSUME Init PROVE IInv
  OBVIOUS
<1>1. ready \in BOOLEAN
  BY Zenon DEF Init
<1> QED
  BY <1>1 DEF Init, IInv, TypeOK, Sequential, ServerKept, Owned, TrapSet

\* The same of the exits that follow no new answer.
LEMMA ExitsKeep ==
  ASSUME IInv, NEW r \in Runs, pc[r] \notin {"trap", "ended"},
         NEW v \in {"PASS", "FAIL", "AMBIGUOUS", "error", "silent", "interrupted"}, Exit(r, v),
         UNCHANGED <<chain, tries, reply, saved>>
  PROVE  IInv'
<1>1. /\ reply[r] \in {"none", "blocked", "refused", "eicar", "error page"}
      /\ reply' = [reply EXCEPT ![r] = reply[r]]
  BY DEF IInv, TypeOK
<1> QED
  BY <1>1, ExitKeeps

\* Every step of a script keeps it.
LEMMA ScriptKeeps == ASSUME IInv, NEW r \in Runs, Script(r) PROVE IInv'
<1> DEFINE Goes(l) == Go(r, l) /\ UNCHANGED <<verdict, server, ready>>
<1>0. IInv /\ TypeOK /\ ready \in BOOLEAN
  BY Zenon DEF IInv, TypeOK
<1>1. CASE FindNetwork(r)
  <2>1. CASE Exit(r, "silent")
    BY <1>1, <2>1, ExitsKeep DEF FindNetwork
  <2>2. CASE ~Exit(r, "silent")
    <3>1. /\ pc[r] = "idle" /\ Goes(IF r \in External THEN "external" ELSE "run")
          /\ UNCHANGED <<chain, tries, reply, saved>>
      BY <1>1, <2>2, Zenon DEF FindNetwork
    <3> QED
      BY <1>0, <3>1 DEF Go, TypeOK, IInv, Sequential, ServerKept, Owned, TrapSet
  <2> QED
    BY <2>1, <2>2
<1>2. CASE RunServer(r)
  <2>1. CASE Exit(r, "silent")
    BY <1>2, <2>1, ExitsKeep DEF RunServer
  <2>2. CASE ~Exit(r, "silent")
    <3>1. ready' = FALSE /\ server = NoRun /\ server' = r /\ Go(r, "trap") /\ pc[r] = "run"
      BY <1>2, <2>2, Zenon DEF RunServer
    <3>2. ready' \in BOOLEAN
      BY <3>1, Zenon
    <3>3. UNCHANGED <<verdict, chain, tries, reply, saved>>
      BY <1>2, <2>2, Zenon DEF RunServer
    <3> QED
      BY <1>0, <3>1, <3>2, <3>3 DEF Go, TypeOK, IInv, Sequential, ServerKept, Owned, TrapSet
  <2> QED
    BY <2>1, <2>2
<1>3. CASE SetTrap(r)
  BY <1>0, <1>3 DEF SetTrap, Go, TypeOK, IInv, Sequential, ServerKept, Owned, TrapSet
<1>4. CASE WaitForServer(r)
  <2>1. pc[r] = "wait" /\ UNCHANGED <<verdict, chain, server, ready, reply, saved>>
    BY <1>4, Zenon DEF WaitForServer
  <2>2. CASE Go(r, "fetch") /\ UNCHANGED tries
    BY <1>0, <2>1, <2>2 DEF Go, TypeOK, IInv, Sequential, ServerKept, Owned, TrapSet
  <2>3. CASE tries[r] # MaxTries /\ tries' = [tries EXCEPT ![r] = tries[r] + 1] /\ UNCHANGED pc
    <3>1. tries \in [Runs -> 0..MaxTries]
      BY <1>0, Zenon DEF TypeOK
    <3>2. tries' \in [Runs -> 0..MaxTries]
      BY <2>3, <3>1
    <3> QED
      BY <1>0, <2>1, <2>3, <3>2 DEF TypeOK, IInv, Sequential, ServerKept, Owned, TrapSet
  <2> QED
    BY <1>4, <2>2, <2>3, Zenon DEF WaitForServer, Waited
<1>5. CASE Fetch(r)
  <2>1. PICK got \in {"none", "blocked", "refused", "eicar", "error page"} :
          /\ reply' = [reply EXCEPT ![r] = got]
          /\ IF got = "none" THEN Exit(r, "error") ELSE Goes("judge")
    BY <1>5 DEF Fetch, Answer
  <2>2. CASE got = "none"
    BY <1>5, <2>1, <2>2, ExitKeeps DEF Fetch
  <2>3. CASE got # "none"
    <3>1. pc[r] = "fetch" /\ Goes("judge") /\ UNCHANGED <<chain, tries, saved>>
      BY <1>5, <2>1, <2>3, Zenon DEF Fetch
    <3> QED
      BY <1>0, <2>1, <3>1 DEF Go, TypeOK, IInv, Sequential, ServerKept, Owned, TrapSet
  <2> QED
    BY <2>2, <2>3
<1>6. CASE Judge(r)
  BY <1>6, ExitsKeep DEF Judge, BlockMarks
<1>7. CASE FetchExternal(r)
  <2>1. PICK got \in {"none", "blocked", "refused", "eicar", "error page"} :
          reply' = [reply EXCEPT ![r] = got] /\ saved' = IF got = "none" THEN saved ELSE got
    BY <1>7 DEF FetchExternal, Answer
  <2> QED
    BY <1>0, <1>7, <2>1 DEF FetchExternal, Go, TypeOK, IInv, Sequential, ServerKept, Owned, TrapSet
<1>8. CASE JudgeExternal(r)
  <2>1. PICK v \in {"error", "PASS", "FAIL", "AMBIGUOUS"} : Exit(r, v)
    BY <1>8 DEF JudgeExternal
  <2> QED
    BY <1>8, <2>1, ExitsKeep DEF JudgeExternal
<1> QED
  BY <1>1, <1>2, <1>3, <1>4, <1>5, <1>6, <1>7, <1>8 DEF Script

\* So does every step of the stack and of the operator.
LEMMA Inductive == IInv /\ [Next]_vars => IInv'
<1> SUFFICES ASSUME IInv, [Next]_vars PROVE IInv'
  OBVIOUS
<1>0. TypeOK /\ ready \in BOOLEAN
  BY Zenon DEF IInv, TypeOK
<1>1. CASE StackChanges
  BY <1>0, <1>1 DEF StackChanges, TypeOK, IInv, Sequential, ServerKept, Owned, TrapSet
<1>2. CASE ServerListens
  <2>1. ready' \in BOOLEAN
    BY <1>2, Zenon DEF ServerListens
  <2> QED
    BY <1>0, <1>2, <2>1 DEF ServerListens, TypeOK, IInv, Sequential, ServerKept, Owned, TrapSet
<1>3. ASSUME NEW r \in Runs, Interrupt(r) PROVE IInv'
  BY <1>3, ExitsKeep DEF Interrupt
<1>4. ASSUME NEW r \in Runs, Kill(r) PROVE IInv'
  BY <1>0, <1>4 DEF Kill, Go, TypeOK, IInv, Sequential, ServerKept, Owned, TrapSet
<1>5. CASE UNCHANGED vars
  BY <1>0, <1>5 DEF vars, TypeOK, IInv, Sequential, ServerKept, Owned, TrapSet
<1> QED
  BY <1>1, <1>2, <1>3, <1>4, <1>5, ScriptKeeps DEF Next

\* They make it an invariant.
THEOREM Invariance == Spec => []IInv
BY Initially, Inductive, PTL DEF Spec

\* Every variable keeps its type.
THEOREM TypeCorrect == Spec => []TypeOK
<1>1. IInv => TypeOK
  BY DEF IInv
<1> QED
  BY <1>1, Invariance, PTL

\* No run removes another's server, however each of them ends.
THEOREM KeepsItsServer == Spec => []ServerKept
<1>1. IInv => ServerKept
  BY DEF IInv
<1> QED
  BY <1>1, Invariance, PTL

\* Only a run that is killed leaves its server behind.
THEOREM LeavesNoServer == Spec => []NoLeftServer
<1>1. IInv => NoLeftServer
  BY DEF IInv, Owned, NoLeftServer, TrapSet
<1> QED
  BY <1>1, Invariance, PTL
=============================================================================
