------------------------ MODULE VersionWatchProofs ------------------------
(***************************************************************************)
(* Proofs about VersionWatch, for any jobs, components and versions: what  *)
(* reaches main pins each tarball with its own checksum, and undoes        *)
(* nobody's edit.                                                          *)
(***************************************************************************)
EXTENDS VersionWatch, TLAPS

\* versions.json pins each tarball with its own checksum.
Matches(file) == \A c \in Pinned : file.sum[c] = file.ver[c]

\* Whatever a job has done to its checkout, as long as this is on top of main
\* the edits of others in it are those of main.
FreshEdits == \A j \in fresh : work[j].others = main.others

IInv == TypeOK /\ Matches(main) /\ (\A j \in Jobs : Matches(work[j])) /\ FreshEdits

\* What a look upstream finds is always a version: the one released, one of
\* the tags, or the one there was.
LEMMA LookupsAreVersions ==
  ASSUME TypeOK, NEW j \in Jobs, NEW latest \in Lookups(j)
  PROVE  latest \in [Components -> Versions]
<1>1. work[j].ver \in [Components -> Versions]
  BY DEF TypeOK, File
<1>2. ASSUME NEW c \in Components PROVE latest[c] \in Versions
  BY <1>1, <1>2 DEF TypeOK, Lookups, Latest, Unchanged
<1> QED
  BY <1>2 DEF Lookups

\* What the second run of the script writes is a well-formed versions.json that
\* pins each tarball with its own checksum and keeps the keys it does not know.
LEMMA UpdateWrites ==
  ASSUME IInv, NEW j \in Jobs, Update(j)
  PROVE  \/ UNCHANGED work
         \/ \E file \in File : /\ work' = [work EXCEPT ![j] = file]
                               /\ Matches(file) /\ file.others = work[j].others
<1>1. PICK latest \in Lookups(j), failed \in SUBSET Pinned :
        \/ UNCHANGED work
        \/ /\ ~Dies(failed)
           /\ work' = [work EXCEPT ![j] =
                         [@ EXCEPT !.ver = latest, !.sum = Sums(j, latest, failed)]]
  BY DEF Update
<1>2. CASE ~UNCHANGED work
  <2> DEFINE file == [ver |-> latest, sum |-> Sums(j, latest, failed), others |-> work[j].others]
  <2>1. failed = {} /\ latest \in [Components -> Versions]
    BY <1>1, <1>2, LookupsAreVersions DEF IInv, Dies
  <2>2. work[j] \in File /\ Matches(work[j])
    BY DEF IInv, TypeOK
  <2>3. ASSUME NEW c \in Pinned
        PROVE  Sums(j, latest, failed)[c] = latest[c] /\ latest[c] \in Versions
    BY <2>1, <2>2, ComponentsAssumption DEF Sums, Matches, File
  <2>4. file \in File
    <3>1. Sums(j, latest, failed) = [c \in Pinned |-> latest[c]]
      BY <2>3 DEF Sums
    <3> QED
      BY <2>1, <2>2, <2>3, <3>1 DEF File
  <2>5. Matches(file)
    BY <2>3 DEF Matches
  <2>6. work' = [work EXCEPT ![j] = file]
    BY <1>1, <1>2, <2>2 DEF File
  <2> QED
    BY <2>4, <2>5, <2>6
<1> QED
  BY <1>2

\* The invariant holds at first.
LEMMA Initially == Init => IInv
<1> SUFFICES ASSUME Init PROVE IInv
  OBVIOUS
<1>1. main \in File /\ Matches(main) /\ main.others = 0
  BY ComponentsAssumption DEF Init, File, Matches
<1>2. published \in [Components -> Versions] /\ builds \in Seq([Components -> Versions])
  BY DEF Init
<1>3. work \in [Jobs -> File] /\ (\A j \in Jobs : work[j] = main)
  BY <1>1 DEF Init
<1>4. faults \in 0..MaxFaults
  BY FaultsAssumption DEF Init
<1>5. late \in 0..Len(builds)
  BY DEF Init
<1>6. TypeOK
  BY <1>1, <1>2, <1>3, <1>4, <1>5 DEF Init, TypeOK
<1> QED
  BY <1>1, <1>3, <1>6 DEF Init, IInv, FreshEdits

\* A build that ends leaves the others.
LEMMA Removed ==
  ASSUME NEW S, NEW s \in Seq(S), NEW i \in DOMAIN s
  PROVE  /\ RemoveAt(s, i) \in Seq(S) /\ Len(RemoveAt(s, i)) = Len(s) - 1
         /\ s[i] \in S /\ i \in 1..Len(s)
  BY DEF RemoveAt

\* Every step of the jobs, of upstream, of a maintainer and of a build keeps it.
LEMMA Inductive == IInv /\ [Next]_vars => IInv'
<1> SUFFICES ASSUME IInv, [Next]_vars PROVE IInv'
  OBVIOUS
<1> USE FaultsAssumption
<1>0. TypeOK /\ main.ver \in [Components -> Versions]
  BY DEF IInv, TypeOK, File
<1>1. ASSUME NEW c \in Components, UpstreamChanges(c) PROVE IInv'
  BY <1>0, <1>1 DEF IInv, TypeOK, Matches, FreshEdits, image, UpstreamChanges, Fault
<1>2. CASE HumanPush
  <2> DEFINE next == [main EXCEPT !.others = @ + 1]
  <2>0. main' = next
    BY <1>2, Zenon DEF HumanPush
  <2>1. next \in File /\ Matches(next)
    <3>1. main \in File /\ Matches(main)
      BY DEF IInv, TypeOK
    <3>2. next = [ver |-> main.ver, sum |-> main.sum, others |-> main.others + 1]
      BY <3>1 DEF File
    <3>3. next \in File
      BY <3>1, <3>2 DEF File
    <3> QED
      BY <3>1, <3>2, <3>3 DEF Matches
  <2>2. builds' \in Seq([Components -> Versions]) /\ late' \in 0..Len(builds')
    BY <1>0, <1>2 DEF TypeOK, HumanPush
  <2>3. faults' \in 0..MaxFaults
    BY <1>0, <1>2 DEF TypeOK, HumanPush, Fault
  <2> QED
    BY <1>2, <2>0, <2>1, <2>2, <2>3 DEF IInv, TypeOK, Matches, FreshEdits, HumanPush
<1>3. CASE Build
  <2>1. PICK i \in DOMAIN builds : BuildEnds(i) \/ BuildFails(i)
    BY <1>3 DEF Build
  <2>2. /\ builds' \in Seq([Components -> Versions])
        /\ Len(builds') = Len(builds) - 1
        /\ builds[i] \in [Components -> Versions] /\ i \in 1..Len(builds)
    <3>1. builds \in Seq([Components -> Versions]) /\ builds' = RemoveAt(builds, i)
      BY <1>0, <2>1 DEF TypeOK, BuildEnds, BuildFails
    <3> QED
      BY <3>1, Removed
  <2>3. late' \in 0..Len(builds')
    BY <1>0, <2>1, <2>2 DEF TypeOK, BuildEnds, BuildFails
  <2>4. published' \in [Components -> Versions]
    BY <1>0, <2>1, <2>2 DEF TypeOK, BuildEnds, BuildFails
  <2>5. faults' \in 0..MaxFaults
    BY <1>0, <2>1 DEF TypeOK, BuildEnds, BuildFails, Fault, NoFault
  <2>6. lost' \in BOOLEAN /\ overtaken' \in BOOLEAN
    <3>1. CASE BuildEnds(i)
      <4>1. lost' = lost /\ overtaken' = (i <= late)
        BY <3>1 DEF BuildEnds
      <4> QED
        BY <1>0, <4>1 DEF TypeOK
    <3>2. CASE BuildFails(i)
      <4>1. overtaken' = overtaken /\ lost' = (lost \/ (i = Len(builds) /\ i > late))
        BY <3>2 DEF BuildFails
      <4> QED
        BY <1>0, <4>1 DEF TypeOK
    <3> QED
      BY <2>1, <3>1, <3>2
  <2>7. UNCHANGED <<upstream, main, pc, work, fresh>>
    BY <2>1 DEF BuildEnds, BuildFails
  <2> QED
    BY <2>2, <2>3, <2>4, <2>5, <2>6, <2>7 DEF IInv, TypeOK, Matches, FreshEdits
<1>4. ASSUME NEW j \in Jobs, Checkout(j) PROVE IInv'
  BY <1>0, <1>4 DEF IInv, TypeOK, Matches, FreshEdits, image, Checkout, Go
<1>5. ASSUME NEW j \in Jobs, Check(j) PROVE IInv'
  BY <1>0, <1>5 DEF IInv, TypeOK, Matches, FreshEdits, image, Check, Go, Fault, NoFault
<1>6. ASSUME NEW j \in Jobs, Update(j) PROVE IInv'
  <2>1. /\ pc' \in [Jobs -> {"idle", "check", "update", "push", "dispatch"}]
        /\ faults' \in 0..MaxFaults
    BY <1>0, <1>6 DEF TypeOK, Update, Go, End, Fault, NoFault
  <2>2. UNCHANGED <<upstream, main, fresh, image, lost>>
    BY <1>6 DEF Update
  <2>3. CASE UNCHANGED work
    BY <2>1, <2>2, <2>3 DEF IInv, TypeOK, Matches, FreshEdits, image
  <2>4. ASSUME NEW file \in File, work' = [work EXCEPT ![j] = file],
               Matches(file), file.others = work[j].others
        PROVE  IInv'
    BY <2>1, <2>2, <2>4 DEF IInv, TypeOK, Matches, FreshEdits, image
  <2> QED
    BY <1>6, <2>3, <2>4, UpdateWrites
<1>7. ASSUME NEW j \in Jobs, Push(j) PROVE IInv'
  BY <1>0, <1>7 DEF IInv, TypeOK, Matches, FreshEdits, image, Push, Go, End
<1>8. ASSUME NEW j \in Jobs, Dispatch(j) PROVE IInv'
  <2>1. builds' \in Seq([Components -> Versions]) /\ late' \in 0..Len(builds')
    BY <1>0, <1>8 DEF TypeOK, Dispatch, OneMore
  <2> QED
    BY <1>8, <2>1 DEF IInv, TypeOK, Matches, FreshEdits, Dispatch, Go, End
<1>9. ASSUME NEW j \in Jobs, Cancel(j) PROVE IInv'
  <2>1. lost' \in BOOLEAN
    BY <1>0, <1>9, Zenon DEF TypeOK, Cancel
  <2> QED
    BY <1>9, <2>1 DEF IInv, TypeOK, Matches, FreshEdits, image, Cancel, Go, End, Fault
<1>10. CASE UNCHANGED vars
  BY <1>10 DEF vars, image, IInv, TypeOK, Matches, FreshEdits
<1> QED
  BY <1>1, <1>2, <1>3, <1>4, <1>5, <1>6, <1>7, <1>8, <1>9, <1>10 DEF Next, Job

\* Hence it always holds.
LEMMA Always == Spec => []IInv
  BY Initially, Inductive, PTL DEF Spec

\* Every variable keeps its type, for any jobs, components and versions.
THEOREM TypeCorrect == Spec => []TypeOK
  BY Always, PTL DEF IInv

\* main never pins a tarball with the checksum of another version, or of
\* nothing (check-versions.sh:138-161).
THEOREM MainMatches == Spec => []PinsMatch
<1>1. IInv => PinsMatch
  BY DEF IInv, Matches, PinsMatch
<1> QED
  BY <1>1, Always, PTL

\* No push of the workflow undoes an edit pushed since its checkout
\* (version-check.yml:66-71).
THEOREM NoEditUndone == Spec => EditsKept
<1>1. IInv /\ [Next]_vars => [main'.others >= main.others]_vars
  <2> SUFFICES ASSUME IInv, Next PROVE main'.others >= main.others
    OBVIOUS
  <2>1. main \in File /\ main.others \in Nat
    BY DEF IInv, TypeOK, File
  <2>2. CASE HumanPush
    BY <2>1, <2>2 DEF HumanPush, File
  <2>3. ASSUME NEW j \in Jobs, Push(j) PROVE main'.others >= main.others
    BY <2>1, <2>3 DEF IInv, FreshEdits, Push, Accepted
  <2>4. CASE UNCHANGED main
    BY <2>1, <2>4
  <2> QED
    BY <2>2, <2>3, <2>4 DEF Next, Job, UpstreamChanges, Build, BuildEnds, BuildFails,
                            Checkout, Check, Update, Dispatch, Cancel
<1> QED
  BY <1>1, Always, PTL DEF Spec, EditsKept
=============================================================================
