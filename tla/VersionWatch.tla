---------------------------- MODULE VersionWatch ----------------------------
(***************************************************************************)
(* scripts/check-versions.sh and the workflow version-check.yml that runs  *)
(* it: jobs that compare versions.json with the upstream releases, push    *)
(* the newer versions to main and dispatch the build of the images.  The   *)
(* schedule and a manual dispatch may have jobs run at the same time.      *)
(* GitHub, git and the build are modelled from how the workflow uses them. *)
(* build-push.yml names no concurrency group: the builds asked for run side *)
(* by side, and publish in whatever order they end.                        *)
(***************************************************************************)
EXTENDS Naturals, SequencesExt

CONSTANTS
  Jobs,         \* runs of the workflow, again and again
  Scheduled,    \* those of the schedule: every Monday
  Components,   \* squid, c-icap, squidclamav, clamav
  Pinned,       \* those with a checksum in versions.json: c-icap, squidclamav
  WithTags,     \* those looked up in the list of tags without a release: not clamav
  Versions,     \* versions upstream may release, in their order
  OneSeries,    \* pinned components with the series in the address: c-icap
  Series,       \* the versions of that series, 0.6.x
  EmptySum,     \* the checksum of an empty stream
  MaxFaults     \* bound: events upstream, edits of main, failures

ASSUME JobsAssumption == Scheduled \subseteq Jobs
ASSUME ComponentsAssumption == Pinned \subseteq Components /\ WithTags \subseteq Components
ASSUME VersionsAssumption == Versions \subseteq Nat \ {0} /\ EmptySum \notin Versions
ASSUME SeriesAssumption == OneSeries \subseteq Pinned /\ Series \subseteq Versions
ASSUME FaultsAssumption == MaxFaults \in Nat

VARIABLES
  upstream,   \* the latest release of each component
  main,       \* versions.json on main
  pc,         \* where each job is
  work,       \* versions.json in the checkout of each job
  fresh,      \* the jobs whose checkout is the head of main
  builds,     \* the builds that run, by their versions, the oldest first
  late,       \* how many of them, from the first, a newer one has overtaken
  published,  \* the versions of the published images
  overtaken,  \* those were published by such a build
  lost,       \* the last build that main needed was never asked for, or failed
  faults      \* faults so far

image == <<builds, late, published, overtaken>>
vars == <<upstream, main, pc, work, fresh, image, lost, faults>>

\* versions.json; `others` counts the edits of the keys the script does not know.
File == [ver    : [Components -> Versions],
         sum    : [Pinned -> Versions \cup {EmptySum}],
         others : Nat]

Init ==
  /\ upstream \in [Components -> Versions]
  /\ main = [ver |-> upstream, sum |-> [c \in Pinned |-> upstream[c]], others |-> 0]
  /\ pc = [j \in Jobs |-> "idle"]
  /\ work = [j \in Jobs |-> main]
  /\ fresh = {}
  /\ builds = <<>>
  /\ late = 0
  /\ published = main.ver
  /\ overtaken = FALSE
  /\ lost = FALSE
  /\ faults = 0

NoFault == UNCHANGED faults
Fault == faults < MaxFaults /\ faults' = faults + 1

Go(j, label) == pc' = [pc EXCEPT ![j] = label]
End(j) == Go(j, "idle")
-----------------------------------------------------------------------------
\* A new release, or one that is withdrawn.
UpstreamChanges(c) ==
  /\ Fault
  /\ \E v \in Versions \ {upstream[c]} : upstream' = [upstream EXCEPT ![c] = v]
  /\ UNCHANGED <<main, pc, work, fresh, image, lost>>

\* A maintainer pushes another key of versions.json ("alpine"), on which
\* build-push runs by itself.
HumanPush ==
  /\ Fault
  /\ main' = [main EXCEPT !.others = @ + 1]
  /\ fresh' = {}
  /\ builds' = Append(builds, main.ver)
  /\ lost' = FALSE
  /\ UNCHANGED <<upstream, pc, work, late, published, overtaken>>

\* Any of the builds ends.  It publishes its images, over those of a newer
\* build too.
BuildEnds(i) ==
  /\ NoFault
  /\ builds' = RemoveAt(builds, i)
  /\ late' = IF i <= late THEN late - 1 ELSE i - 1
  /\ published' = builds[i]
  /\ overtaken' = (i <= late)
  /\ UNCHANGED <<upstream, main, pc, work, fresh, lost>>

\* It fails, publishes nothing and is not run again.
BuildFails(i) ==
  /\ Fault
  /\ builds' = RemoveAt(builds, i)
  /\ late' = IF i <= late THEN late - 1 ELSE late
  /\ lost' = (lost \/ (i = Len(builds) /\ i > late))
  /\ UNCHANGED <<upstream, main, pc, work, fresh, published, overtaken>>

Build == \E i \in DOMAIN builds : BuildEnds(i) \/ BuildFails(i)

\* The runner is lost, a step fails for want of network.
Cancel(j) ==
  /\ pc[j] # "idle" /\ Fault
  /\ End(j)
  /\ lost' = (lost \/ pc[j] = "dispatch")
  /\ UNCHANGED <<upstream, main, work, fresh, image>>
-----------------------------------------------------------------------------
Checkout(j) ==
  /\ pc[j] = "idle"
  /\ Go(j, "check")
  /\ work' = [work EXCEPT ![j] = main]
  /\ fresh' = fresh \cup {j}
  /\ UNCHANGED <<upstream, main, image, lost, faults>>

Unchanged(j, c) == work[j].ver[c]

\* What the look for the latest version of a component may come to: without an
\* answer about the releases the first tag of the list, be it the highest or
\* not, and without an answer about the tags the version as it is.
Latest(j, c) == {upstream[c], Unchanged(j, c)} \cup (IF c \in WithTags THEN Versions ELSE {})

Lookups(j) == {f \in [Components -> Versions \cup {EmptySum}] : \A c \in Components : f[c] \in Latest(j, c)}

NewerOnly(current, latest) == latest > current    \* mutant: downgrades ignored
Differs(current, latest) == current # latest

Changes(j, latest) == {c \in Components : Differs(work[j].ver[c], latest[c])}

\* The workflow runs the script twice, and each run looks upstream.
Check(j) ==
  /\ pc[j] = "check"
  /\ \E latest \in Lookups(j) :
       /\ IF latest = upstream THEN NoFault ELSE Fault
       /\ Go(j, IF Changes(j, latest) = {} THEN "idle" ELSE "update")
  /\ UNCHANGED <<upstream, main, work, fresh, image, lost>>

NeverDies(failed) == FALSE         \* mutant: curl | sha256sum
Dies(failed) == failed # {}

\* The checksum of a version that changed is that of what is downloaded now.
Sums(j, latest, failed) ==
  [c \in Pinned |-> CASE c \in failed              -> EmptySum
                      [] latest[c] # work[j].ver[c] -> latest[c]
                      [] OTHER                      -> work[j].sum[c]]

\* The address of c-icap's tarballs holds the directory of one series of
\* releases: there is no download of a version of another.
Found(c, v) == c \in OneSeries => v \in Series

NotFound(j, latest) == {c \in Pinned : latest[c] # work[j].ver[c] /\ ~Found(c, latest[c])}

\* With nothing left to change git commit fails, and the job with it.  One
\* download that fails, because the tarball is not there or for want of
\* network, ends the bump of every component.
Update(j) ==
  /\ pc[j] = "update"
  /\ \E latest \in Lookups(j), failed \in SUBSET Pinned :
       /\ NotFound(j, latest) \subseteq failed
       /\ \A c \in failed : latest[c] # work[j].ver[c]
       /\ IF latest = upstream /\ failed = NotFound(j, latest) THEN NoFault ELSE Fault
       /\ IF Changes(j, latest) = {} \/ Dies(failed)
            THEN End(j) /\ UNCHANGED work
            ELSE /\ Go(j, "push")
                 /\ work' = [work EXCEPT ![j] =
                       [@ EXCEPT !.ver = latest, !.sum = Sums(j, latest, failed)]]
  /\ UNCHANGED <<upstream, main, fresh, image, lost>>

Forced(j) == TRUE                  \* mutant: git push --force
Accepted(j) == j \in fresh

\* git refuses a push that is not on top of the head of main.
Push(j) ==
  /\ pc[j] = "push"
  /\ IF Accepted(j) THEN main' = work[j] /\ fresh' = {} /\ Go(j, "dispatch")
                    ELSE End(j) /\ UNCHANGED <<main, fresh>>
  /\ UNCHANGED <<upstream, work, image, lost, faults>>

NoneAsked == builds                \* mutant: left to the push, as the header has it
OneMore == Append(builds, main.ver)

\* gh workflow run --ref main: the head of main is built, whoever pushed it.
Dispatch(j) ==
  /\ pc[j] = "dispatch"
  /\ End(j)
  /\ builds' = OneMore
  /\ lost' = FALSE
  /\ UNCHANGED <<upstream, main, work, fresh, late, published, overtaken, faults>>

Job(j) == Check(j) \/ Update(j) \/ Push(j) \/ Dispatch(j)

Next == \/ \E c \in Components : UpstreamChanges(c)
        \/ HumanPush \/ Build
        \/ \E j \in Jobs : Checkout(j) \/ Job(j) \/ Cancel(j)

Spec == Init /\ [][Next]_vars

\* Jobs that run go on, every Monday there is one more, builds end.  Nobody
\* has to dispatch the workflow by hand.
FairSpec == /\ Spec /\ WF_vars(Build)
            /\ \A j \in Jobs : WF_vars(Job(j))
            /\ \A j \in Scheduled : WF_vars(Checkout(j))
-----------------------------------------------------------------------------
\* Every variable keeps its type.
TypeOK ==
  /\ upstream \in [Components -> Versions]
  /\ main \in File
  /\ pc \in [Jobs -> {"idle", "check", "update", "push", "dispatch"}]
  /\ work \in [Jobs -> File]
  /\ fresh \subseteq Jobs
  /\ builds \in Seq([Components -> Versions])
  /\ late \in 0..Len(builds)
  /\ published \in [Components -> Versions]
  /\ overtaken \in BOOLEAN
  /\ lost \in BOOLEAN
  /\ faults \in 0..MaxFaults

\* What reaches main always pins each tarball with the checksum of the very
\* version beside it (check-versions.sh:138-143): no mix of two jobs or of two
\* looks upstream, no checksum of a download that failed.
PinsMatch == \A c \in Pinned : main.sum[c] = main.ver[c]

\* The watch writes its own keys and pushes on what it checked out: an edit a
\* maintainer pushes meanwhile, or another job's, is never undone.
EditsKept == [][main'.others >= main.others]_vars

\* Every release of a component the script downloads is one it can download,
\* or is that of main already.
Downloadable == \A c \in Pinned : Found(c, upstream[c]) \/ main.ver[c] = upstream[c]

\* Once upstream and the network are quiet main carries the latest releases: a
\* wrong look, a failed download, a refused push, a lost runner only cost a week.
\* Not so with a release of c-icap outside the series of the address
\* (check-versions.sh:159): as long as it is the latest nothing is bumped.
Follows == <>[]Downloadable => <>[](main.ver = upstream)

\* What the header of version-check.yml (line 4) promises without exception.  It
\* fails: VersionWatch_series.cfg.
AlwaysFollows == <>[](main.ver = upstream)

\* And the images published in the end are those of main, unless the last build
\* it needed was lost (a dispatch that fails is not made up for, since the next
\* check finds main up to date, version-check.yml:73-81), or an older build
\* ended after a newer one and published over it (build-push.yml:24-51 has no
\* concurrency group).
PublishesMain == <>[](~lost /\ ~overtaken) => <>[](published = main.ver)
=============================================================================
