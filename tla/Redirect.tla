------------------------------ MODULE Redirect ------------------------------
(***************************************************************************)
(* vyos/squid-redirect.service: the systemd unit that puts two nftables    *)
(* redirections into the network namespace of the squid container, which   *)
(* every start of the container makes anew, and the connections that the   *)
(* namespace already tracks, which rules added later leave alone.          *)
(* systemd is modelled from what the unit asks of it, VyOS from the        *)
(* container unit it generates and the two ways it starts it again.        *)
(***************************************************************************)
EXTENDS Sequences, SequencesExt

CONSTANTS
  Clients,      \* connections of the clients
  Service,      \* what each of them asks for: "http" or "https"
  MaxFaults     \* bound: stops, crashes, failed commands and commands by hand

ASSUME ServiceAssumption == Service \in [Clients -> {"http", "https"}]

VARIABLES
  wantedBy,   \* the units that start this one: [Install], as enabled
  container,  \* "down" or "running"
  unit,       \* "inactive", "sleeping", "running" its commands, "active", "failed"
  todo,       \* the commands of ExecStart it has still to run
  rules,      \* the ruleset of the container's namespace
  tracked,    \* each connection: "none", "redirected" or "bypassing" squid
  faults      \* faults so far

vars == <<wantedBy, container, unit, todo, rules, tracked, faults>>

Boot == "multi-user.target"
Squid == "vyos-container-squid.service"

\* As shipped, and with the line that docs/vyos-transparent-proxy.md:386 has on top.
Installs == {{Boot}, {Boot, Squid}}

Unflushed == <<"table", "chain", "http", "https">>   \* mutant: no flush first
Commands == <<"flush", "table", "chain", "http", "https">>
Redirections == <<"table", "chain", "http", "https">>

\* The host has just booted: multi-user.target starts both.
Init ==
  /\ wantedBy \in Installs
  /\ container = "running" /\ unit = "sleeping" /\ todo = <<>> /\ rules = <<>>
  /\ tracked = [c \in Clients |-> "none"]
  /\ faults = 0

Fault == faults < MaxFaults /\ faults' = faults + 1

Begin == unit' = "sleeping" /\ todo' = <<>>
Halt(state) == unit' = state /\ todo' = <<>>
Idle == unit \in {"inactive", "failed"}
-----------------------------------------------------------------------------
(***************************************************************************)
(* The container.  A namespace begins and ends with it.                    *)
(***************************************************************************)
NewNamespace == rules' = <<>> /\ tracked' = [c \in Clients |-> "none"]

Reboot ==
  /\ Fault
  /\ container' = "running" /\ NewNamespace /\ Begin
  /\ UNCHANGED wantedBy

Unbound == FALSE                     \* mutant: no BindsTo
BoundToContainer == container = "down"

AtBootOnly == {}                     \* mutant: [Install] without the container
StartedWith == wantedBy \cap {Squid}

\* The second half of a commit, or Restart=on-failure of the container unit,
\* once the stop of this one that BindsTo asks for is over.  PartOf does not
\* start what is inactive.
StartContainer ==
  /\ container = "down" /\ (BoundToContainer => Idle)
  /\ container' = "running" /\ NewNamespace
  /\ IF StartedWith # {} THEN Begin ELSE UNCHANGED <<unit, todo>>
  /\ UNCHANGED <<wantedBy, faults>>

\* `restart container squid`: one transaction, which PartOf extends to this unit
\* if it is not idle.
RestartContainer ==
  /\ container = "running" /\ Fault
  /\ NewNamespace
  /\ IF Idle /\ StartedWith = {} THEN UNCHANGED <<unit, todo>> ELSE Begin
  /\ UNCHANGED <<wantedBy, container>>

\* The first half of a commit: this unit stops before the container does (After).
StopContainer ==
  /\ container = "running" /\ Fault
  /\ container' = "down" /\ NewNamespace
  /\ IF Idle THEN UNCHANGED <<unit, todo>> ELSE Halt("inactive")
  /\ UNCHANGED wantedBy

\* squid crashes: this unit is stopped afterwards.
CrashContainer ==
  /\ container = "running" /\ Fault
  /\ container' = "down" /\ NewNamespace
  /\ UNCHANGED <<wantedBy, unit, todo>>

StopBound ==
  /\ ~Idle /\ BoundToContainer
  /\ Halt("inactive")
  /\ UNCHANGED <<wantedBy, container, rules, tracked, faults>>
-----------------------------------------------------------------------------
(***************************************************************************)
(* The unit.  Its commands run in the namespace of the process that podman *)
(* inspect named; the first that fails ends it, and nobody tries again.    *)
(***************************************************************************)
WakeUp ==
  /\ unit = "sleeping" /\ container = "running"
  /\ unit' = "running" /\ todo' = Commands
  /\ UNCHANGED <<wantedBy, container, rules, tracked, faults>>

RunCommand ==
  /\ unit = "running" /\ container = "running"
  /\ rules' = IF Head(todo) = "flush" THEN <<>> ELSE Append(rules, Head(todo))
  /\ todo' = Tail(todo)
  /\ unit' = IF Len(todo) = 1 THEN "active" ELSE "running"
  /\ UNCHANGED <<wantedBy, container, tracked, faults>>

\* podman inspect, nsenter or nft fails; without a container they have to.
CommandFails ==
  /\ unit = "running" \/ (unit = "sleeping" /\ container = "down")
  /\ container = "running" => faults < MaxFaults
  /\ faults' = IF container = "running" THEN faults + 1 ELSE faults
  /\ Halt("failed")
  /\ UNCHANGED <<wantedBy, container, rules, tracked>>

\* systemctl restart squid-redirect: ExecStop, if there is something to stop,
\* and ExecStart.
RestartUnit ==
  /\ container = "running" /\ Fault
  /\ Begin
  /\ rules' = IF unit = "active" THEN <<>> ELSE rules
  /\ UNCHANGED <<wantedBy, container, tracked>>
-----------------------------------------------------------------------------
(***************************************************************************)
(* The clients.  The first packet decides for the whole connection.        *)
(***************************************************************************)
Connect(c) ==
  /\ container = "running" /\ tracked[c] = "none"
  /\ tracked' = [tracked EXCEPT ![c] =
       IF Service[c] \in ToSet(rules) THEN "redirected" ELSE "bypassing"]
  /\ UNCHANGED <<wantedBy, container, unit, todo, rules, faults>>

\* It ends, or its retransmissions do.
Disconnect(c) ==
  /\ tracked[c] # "none"
  /\ tracked' = [tracked EXCEPT ![c] = "none"]
  /\ UNCHANGED <<wantedBy, container, unit, todo, rules, faults>>

Next ==
  \/ Reboot \/ StartContainer \/ RestartContainer \/ StopContainer
  \/ CrashContainer \/ StopBound \/ WakeUp \/ RunCommand \/ CommandFails \/ RestartUnit
  \/ \E c \in Clients : Connect(c) \/ Disconnect(c)

Spec == Init /\ [][Next]_vars

\* systemd does what it has queued; no connection lasts for ever.
FairSpec ==
  /\ Spec
  /\ WF_vars(StartContainer) /\ WF_vars(StopBound) /\ WF_vars(WakeUp) /\ WF_vars(RunCommand)
  /\ \A c \in Clients : WF_vars(Disconnect(c))
-----------------------------------------------------------------------------
\* While systemd calls the unit active, the namespace of the container that runs
\* holds both redirections, once each: whatever was left of an earlier run that
\* failed half-way, and whatever became of the container since (BindsTo, PartOf,
\* nft flush ruleset).
ActiveRedirects == unit = "active" /\ container = "running" => rules = Redirections

\* In the end every connection is redirected, those included that began before
\* the rules were there and bypass squid as long as they last; unless a command
\* failed, or the container was started again and the unit is not enabled to
\* follow it, as shipped (docs/vyos-transparent-proxy.md:397-400).
Returns ==
  <>[](\/ unit = "active" /\ \A c \in Clients : tracked[c] # "bypassing"
       \/ unit = "failed"
       \/ unit = "inactive" /\ Squid \notin wantedBy)
=============================================================================
