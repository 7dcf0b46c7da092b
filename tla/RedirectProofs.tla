--------------------------- MODULE RedirectProofs ---------------------------
(***************************************************************************)
(* Proofs about Redirect, for any connections and any number of faults.    *)
(***************************************************************************)
EXTENDS Redirect, Integers, SequenceTheorems, TLAPS

\* While the unit runs its commands, what it has run since the flush is what is
\* in the namespace, as long as there is one.
Holds(ruleset) == container = "running" => rules = ruleset
Progress ==
  unit = "running" =>
    \/ todo = Commands
    \/ todo = <<"table", "chain", "http", "https">> /\ Holds(<<>>)
    \/ todo = <<"chain", "http", "https">> /\ Holds(<<"table">>)
    \/ todo = <<"http", "https">> /\ Holds(<<"table", "chain">>)
    \/ todo = <<"https">> /\ Holds(<<"table", "chain", "http">>)

\* Nothing else waits for its commands.
Inv == Progress /\ ActiveRedirects

\* The sequence that an Append gives, from its elements.
LEMMA AppendIs ==
  ASSUME NEW S, NEW s \in Seq(S), NEW e \in S, NEW t \in Seq(S),
         Len(t) = Len(s) + 1, \A i \in 1..Len(s) : t[i] = s[i], t[Len(t)] = e
  PROVE  Append(s, e) = t
<1>1. Append(s, e) \in Seq(S) /\ Len(Append(s, e)) = Len(t)
  OBVIOUS
<1>2. \A i \in 1..Len(t) : Append(s, e)[i] = t[i]
  OBVIOUS
<1> QED
  BY <1>1, <1>2, SeqEqual

\* The same of the tuples that the rulesets are.
LEMMA AppendToOne ==
  ASSUME NEW a, NEW b PROVE Append(<<a>>, b) = <<a, b>>
<1>1. PICK s : s = <<a>>
  OBVIOUS
<1>2. PICK t : t = <<a, b>>
  OBVIOUS
<1>3. s \in Seq({a, b}) /\ t \in Seq({a, b})
  BY <1>1, <1>2
<1>4. Len(s) = 1 /\ s[1] = a
  BY <1>1
<1>5. Len(t) = 2 /\ t[1] = a /\ t[2] = b
  BY <1>2
<1>6. Len(t) = Len(s) + 1 /\ t[Len(t)] = b /\ \A i \in 1..Len(s) : t[i] = s[i]
  BY <1>4, <1>5
<1>7. Append(s, b) = t
  BY <1>3, <1>6, b \in {a, b}, AppendIs
<1> QED
  BY <1>1, <1>2, <1>7

LEMMA AppendToTwo ==
  ASSUME NEW a, NEW b, NEW c PROVE Append(<<a, b>>, c) = <<a, b, c>>
<1>1. PICK s : s = <<a, b>>
  OBVIOUS
<1>2. PICK t : t = <<a, b, c>>
  OBVIOUS
<1>3. s \in Seq({a, b, c}) /\ t \in Seq({a, b, c})
  BY <1>1, <1>2
<1>4. Len(s) = 2 /\ s[1] = a /\ s[2] = b
  BY <1>1
<1>5. Len(t) = 3 /\ t[1] = a /\ t[2] = b /\ t[3] = c
  BY <1>2
<1>6. Len(t) = Len(s) + 1 /\ t[Len(t)] = c /\ \A i \in 1..Len(s) : t[i] = s[i]
  BY <1>4, <1>5
<1>7. Append(s, c) = t
  BY <1>3, <1>6, c \in {a, b, c}, AppendIs
<1> QED
  BY <1>1, <1>2, <1>7

LEMMA AppendToThree ==
  ASSUME NEW a, NEW b, NEW c, NEW d PROVE Append(<<a, b, c>>, d) = <<a, b, c, d>>
<1>1. PICK s : s = <<a, b, c>>
  OBVIOUS
<1>2. PICK t : t = <<a, b, c, d>>
  OBVIOUS
<1>3. s \in Seq({a, b, c, d}) /\ t \in Seq({a, b, c, d})
  BY <1>1, <1>2
<1>4. Len(s) = 3 /\ s[1] = a /\ s[2] = b /\ s[3] = c
  BY <1>1
<1>5. Len(t) = 4 /\ t[1] = a /\ t[2] = b /\ t[3] = c /\ t[4] = d
  BY <1>2
<1>6. Len(t) = Len(s) + 1 /\ t[Len(t)] = d /\ \A i \in 1..Len(s) : t[i] = s[i]
  BY <1>4, <1>5
<1>7. Append(s, d) = t
  BY <1>3, <1>6, d \in {a, b, c, d}, AppendIs
<1> QED
  BY <1>1, <1>2, <1>7

\* Each command adds its line to the ruleset; the first empties it.
LEMMA CommandKeeps == Inv /\ RunCommand => Inv'
<1> SUFFICES ASSUME Inv, RunCommand PROVE Inv'
  OBVIOUS
<1>1. /\ unit = "running" /\ container = "running" /\ container' = "running"
      /\ rules' = IF Head(todo) = "flush" THEN <<>> ELSE Append(rules, Head(todo))
      /\ todo' = Tail(todo)
      /\ unit' = IF Len(todo) = 1 THEN "active" ELSE "running"
  BY DEF RunCommand
<1> USE DEF Inv, Progress, ActiveRedirects, Holds, Commands, Redirections
<1>2. CASE todo = Commands
  BY <1>1, <1>2
<1>3. CASE todo = <<"table", "chain", "http", "https">> /\ rules = <<>>
  BY <1>1, <1>3
<1>4. CASE todo = <<"chain", "http", "https">> /\ rules = <<"table">>
  BY <1>1, <1>4, AppendToOne
<1>5. CASE todo = <<"http", "https">> /\ rules = <<"table", "chain">>
  BY <1>1, <1>5, AppendToTwo
<1>6. CASE todo = <<"https">> /\ rules = <<"table", "chain", "http">>
  BY <1>1, <1>6, AppendToThree
<1> QED
  BY <1>1, <1>2, <1>3, <1>4, <1>5, <1>6

\* While systemd calls the unit active both redirections are there, once each,
\* whatever failed before and however the container was started again.
THEOREM ActiveMeansRedirected == Spec => []ActiveRedirects
<1>1. Init => Inv
  BY DEF Init, Inv, Progress, ActiveRedirects
<1>2. Inv /\ [Next]_vars => Inv'
  <2> SUFFICES ASSUME Inv, [Next]_vars PROVE Inv'
    OBVIOUS
  <2> USE DEF Inv, Progress, ActiveRedirects, Holds, Idle, Begin, Halt
  <2>1. CASE Reboot \/ RestartContainer
    BY <2>1 DEF Reboot, RestartContainer
  <2>2. CASE StartContainer
    BY <2>2 DEF StartContainer, BoundToContainer
  <2>3. CASE StopContainer \/ CrashContainer \/ StopBound
    BY <2>3 DEF StopContainer, CrashContainer, StopBound
  <2>4. CASE WakeUp
    BY <2>4 DEF WakeUp
  <2>5. CASE CommandFails \/ RestartUnit
    BY <2>5 DEF CommandFails, RestartUnit
  <2>6. ASSUME NEW c \in Clients, Connect(c) \/ Disconnect(c) PROVE Inv'
    BY <2>6 DEF Connect, Disconnect
  <2>7. CASE UNCHANGED vars
    BY <2>7 DEF vars
  <2> QED
    BY <2>1, <2>2, <2>3, <2>4, <2>5, <2>6, <2>7, CommandKeeps DEF Next
<1>3. Inv => ActiveRedirects
  BY DEF Inv
<1> QED
  BY <1>1, <1>2, <1>3, PTL DEF Spec
=============================================================================
