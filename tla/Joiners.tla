------------------------------- MODULE Joiners -------------------------------
(***************************************************************************)
(* The SMF service of thundermuffin: the start method of                   *)
(* smf/method_script.sh, which reads the configuration of the service      *)
(* property by property and keeps one "thundermuffin server" process, a    *)
(* joiner, alive for each configured multicast group.                      *)
(*                                                                         *)
(* The sled-agent, which rewrites the configuration and restarts the       *)
(* service, and SMF itself are external: they do what the comments of the  *)
(* script and the manifest (ctrun, noorphan, startd/duration contract)     *)
(* rely on.  The binary is installed except where a fault says otherwise,  *)
(* the service is enabled, and a group is configured at most once.  What   *)
(* an interface offers to a group does not change; an interface that is    *)
(* away for a while shows as a joiner that dies.                           *)
(***************************************************************************)
EXTENDS Naturals

CONSTANTS
  Entries,    \* the non-empty entries config/multicast_group may hold, all groups
  Bad,        \* those the command line rejects with any interface and with none
  Sourced,    \* those with sources, which need an interface to be named
  Ports,      \* values of config/port
  Ifaces,     \* non-empty values of config/multicast_iface
  Unusable,   \* pairs of an entry and an interface that has nothing for its family
  None,       \* no interface configured
  MaxWrites,  \* BOUND: writes of the sled-agent
  MaxFaults   \* BOUND: joiners that die, commands of the script that fail

ASSUME JoinersAssumption ==
  /\ Bad \subseteq Entries /\ Sourced \subseteq Entries
  /\ Unusable \subseteq Entries \X Ifaces
  /\ None \notin Ifaces
  /\ MaxWrites \in Nat
  /\ MaxFaults \in Nat

VARIABLES
  config,   \* the property group "config" of the service, as it is now
  owed,     \* the sled-agent has written and not restarted the service yet
  pc,       \* where the script is; "down" when there is no script
  seen,     \* the locals of the script: groups, port and iface
  misread,  \* history: an svcprop of this script failed and was swallowed
  todo,     \* entries the spawn loop has not come to
  pids,     \* entries this script has started a joiner for
  joiner,   \* joiner[e]: "starting" until it has joined, "gone" when it is not there
  args,     \* args[e]: the port and interface joiner e was started with
  writes,
  faults

scriptVars == <<pc, seen, misread, todo, pids>>
joinerVars == <<joiner, args>>
agentVars == <<config, owed, writes>>
vars == <<scriptVars, joinerVars, agentVars, faults>>

IfaceOrNone == Ifaces \cup {None}

\* "blanks" counts the values that are the empty string.
Config == [groups : SUBSET Entries, blanks : 0 .. 2, port : Ports, iface : IfaceOrNone]
Seen == [groups : SUBSET Entries, port : Ports, iface : IfaceOrNone]
Args == [port : Ports, iface : IfaceOrNone]

TypeOK ==
  /\ config \in Config
  /\ owed \in BOOLEAN
  /\ pc \in {"down", "groups", "port", "iface", "spawn", "wait", "idle"}
  /\ seen \in Seen
  /\ misread \in BOOLEAN
  /\ todo \in SUBSET Entries
  /\ pids \in SUBSET Entries
  /\ joiner \in [Entries -> {"starting", "joined", "gone"}]
  /\ args \in [Entries -> Args]
  /\ writes \in 0 .. MaxWrites
  /\ faults \in 0 .. MaxFaults

Init ==
  /\ config \in Config
  /\ owed = FALSE
  /\ pc = "down"
  /\ seen = [groups |-> {}, port |-> config.port, iface |-> None]
  /\ misread = FALSE
  /\ todo = {}
  /\ pids = {}
  /\ joiner = [e \in Entries |-> "gone"]
  /\ args = [e \in Entries |-> [port |-> config.port, iface |-> None]]
  /\ writes = 0
  /\ faults = 0

Live(e) == joiner[e] # "gone"

\* One of the faults the run allows happens.
Fault ==
  /\ faults < MaxFaults
  /\ faults' = faults + 1

------------------------------------------------------------------------------
(***************************************************************************)
(* The start method.                                                       *)
(***************************************************************************)

\* Seeded fault: the next script does not wait for the contract to empty.
StartEarly ==
  /\ pc = "down"
  /\ pc' = "groups"
  /\ pids' = {}
  /\ misread' = FALSE
  /\ UNCHANGED <<seen, todo, joinerVars, agentVars, faults>>

\* The contract is empty, so svc.startd runs the start method (again).
Start ==
  /\ pc = "down"
  /\ \A e \in Entries : ~Live(e)
  /\ pc' = "groups"
  /\ pids' = {}
  /\ misread' = FALSE
  /\ UNCHANGED <<seen, todo, joinerVars, agentVars, faults>>

\* The script ends, with whatever status; its joiners stay for the moment.
ScriptEnds ==
  /\ pc' = "down"
  /\ todo' = {}

\* The binary is not there: exit 1.
BinaryMissing ==
  /\ pc = "groups"
  /\ Fault
  /\ ScriptEnds
  /\ UNCHANGED <<seen, misread, pids, joinerVars, agentVars>>

\* The script has the text of the groups.  A single empty value is no text, two
\* empty values are; the quotes come off in the loop.
HaveGroups(groups, blanks) ==
  /\ seen' = [seen EXCEPT !.groups = groups]
  /\ todo' = groups
  /\ pc' = IF groups = {} /\ blanks <= 1 THEN "idle" ELSE "port"

ReadGroups ==
  /\ pc = "groups"
  /\ HaveGroups(config.groups, config.blanks)
  /\ UNCHANGED <<misread, pids, joinerVars, agentVars, faults>>

\* svcprop_optional takes any failure of svcprop for an unset property.
ReadGroupsFails ==
  /\ pc = "groups"
  /\ Fault
  /\ HaveGroups({}, 0)
  /\ misread' = TRUE
  /\ UNCHANGED <<pids, joinerVars, agentVars>>

ReadPort ==
  /\ pc = "port"
  /\ seen' = [seen EXCEPT !.port = config.port]
  /\ pc' = "iface"
  /\ UNCHANGED <<misread, todo, pids, joinerVars, agentVars, faults>>

\* The port is not optional: errexit ends the script.
ReadPortFails ==
  /\ pc = "port"
  /\ Fault
  /\ ScriptEnds
  /\ UNCHANGED <<seen, misread, pids, joinerVars, agentVars>>

ReadIface ==
  /\ pc = "iface"
  /\ seen' = [seen EXCEPT !.iface = config.iface]
  /\ pc' = "spawn"
  /\ UNCHANGED <<misread, todo, pids, joinerVars, agentVars, faults>>

ReadIfaceFails ==
  /\ pc = "iface"
  /\ Fault
  /\ seen' = [seen EXCEPT !.iface = None]
  /\ misread' = TRUE
  /\ pc' = "spawn"
  /\ UNCHANGED <<todo, pids, joinerVars, agentVars>>

\* Seeded fault: the pids of the earlier rounds are lost.
SpawnForgetting(e, port, iface) ==
  /\ pc = "spawn"
  /\ e \in todo
  /\ todo' = todo \ {e}
  /\ pids' = {e}
  /\ joiner' = [joiner EXCEPT ![e] = "starting"]
  /\ args' = [args EXCEPT ![e] = [port |-> port, iface |-> iface]]
  /\ UNCHANGED <<pc, seen, misread, agentVars, faults>>

SpawnWith(e, port, iface) ==
  /\ pc = "spawn"
  /\ e \in todo
  /\ todo' = todo \ {e}
  /\ pids' = pids \cup {e}
  /\ joiner' = [joiner EXCEPT ![e] = "starting"]
  /\ args' = [args EXCEPT ![e] = [port |-> port, iface |-> iface]]
  /\ UNCHANGED <<pc, seen, misread, agentVars, faults>>

\* Seeded fault: the port is looked up for every joiner.
SpawnWithLatestPort(e) == SpawnWith(e, config.port, seen.iface)

\* One round of the loop.  The loop goes through the entries in the order of
\* the property, which is any order.
Spawn(e) == SpawnWith(e, seen.port, seen.iface)

\* Seeded fault: "wait -n" without pids, which exits with 127.
LoopEndsWaiting ==
  /\ pc = "spawn"
  /\ todo = {}
  /\ pc' = IF pids = {} THEN "down" ELSE "wait"
  /\ UNCHANGED <<seen, misread, todo, pids, joinerVars, agentVars, faults>>

\* All entries seen; with nothing started the script sleeps for ever.
LoopEnds ==
  /\ pc = "spawn"
  /\ todo = {}
  /\ pc' = IF pids = {} THEN "idle" ELSE "wait"
  /\ UNCHANGED <<seen, misread, todo, pids, joinerVars, agentVars, faults>>

\* Seeded fault: "wait" for all of them instead of "wait -n".
WaitForAll ==
  /\ pc = "wait"
  /\ \A e \in pids : ~Live(e)
  /\ ScriptEnds
  /\ UNCHANGED <<seen, misread, pids, joinerVars, agentVars, faults>>

\* "wait -n": one of the joiners has exited, be it before the wait, and the
\* script exits with its status.
WaitReturns ==
  /\ pc = "wait"
  /\ \E e \in pids : ~Live(e)
  /\ ScriptEnds
  /\ UNCHANGED <<seen, misread, pids, joinerVars, agentVars, faults>>

------------------------------------------------------------------------------
(***************************************************************************)
(* The joiners, and the contract they live in.                             *)
(***************************************************************************)

\* A joiner of entry e gets through with interface i: Server::validate admits the
\* two together, and the selector leads to an address or an index.
Serves(e, i) ==
  /\ e \notin Bad
  /\ IF i = None THEN e \notin Sourced ELSE <<e, i>> \notin Unusable

\* The joiner is through with its validation, its bind and its joins.
Joined(e) ==
  /\ joiner[e] = "starting"
  /\ Serves(e, args[e].iface)
  /\ joiner' = [joiner EXCEPT ![e] = "joined"]
  /\ UNCHANGED <<args, scriptVars, agentVars, faults>>

\* The joiner rejects its arguments, or does not find its interface, and exits.
Rejected(e) ==
  /\ joiner[e] = "starting"
  /\ ~Serves(e, args[e].iface)
  /\ joiner' = [joiner EXCEPT ![e] = "gone"]
  /\ UNCHANGED <<args, scriptVars, agentVars, faults>>

\* A joiner without --duration ends by an error of its socket or a signal.
JoinerDies(e) ==
  /\ Live(e)
  /\ Fault
  /\ joiner' = [joiner EXCEPT ![e] = "gone"]
  /\ UNCHANGED <<args, scriptVars, agentVars>>

\* ctrun's noorphan: with the script gone the survivors are killed, one by one.
KillOrphan(e) ==
  /\ pc = "down"
  /\ Live(e)
  /\ joiner' = [joiner EXCEPT ![e] = "gone"]
  /\ UNCHANGED <<args, scriptVars, agentVars, faults>>

------------------------------------------------------------------------------
(***************************************************************************)
(* The sled-agent.                                                         *)
(***************************************************************************)

\* One property is written.  A restart is owed from now on.
Write(c) ==
  /\ writes < MaxWrites
  /\ \/ \E g \in SUBSET Entries, b \in 0 .. 2 :
          c = [config EXCEPT !.groups = g, !.blanks = b]
     \/ \E p \in Ports : c = [config EXCEPT !.port = p]
     \/ \E i \in IfaceOrNone : c = [config EXCEPT !.iface = i]
  /\ config' = c
  /\ writes' = writes + 1
  /\ owed' = TRUE
  /\ UNCHANGED <<scriptVars, joinerVars, faults>>

\* Seeded fault: the service is only refreshed.
RefreshService ==
  /\ owed
  /\ owed' = FALSE
  /\ UNCHANGED <<scriptVars, joinerVars, config, writes, faults>>

\* The stop method, :kill, reaches the script first or last; its joiners die as
\* orphans.
RestartService ==
  /\ owed
  /\ owed' = FALSE
  /\ ScriptEnds
  /\ UNCHANGED <<seen, misread, pids, joinerVars, config, writes, faults>>

------------------------------------------------------------------------------

ScriptStep ==
  \/ Start \/ ReadGroups \/ ReadPort \/ ReadIface
  \/ (\E e \in Entries : Spawn(e)) \/ LoopEnds \/ WaitReturns

ScriptFault == BinaryMissing \/ ReadGroupsFails \/ ReadPortFails \/ ReadIfaceFails

JoinerStep(e) == Joined(e) \/ Rejected(e) \/ KillOrphan(e)

Next ==
  \/ ScriptStep
  \/ ScriptFault
  \/ \E e \in Entries : JoinerStep(e) \/ JoinerDies(e)
  \/ \E c \in Config : Write(c)
  \/ RestartService

Spec == Init /\ [][Next]_vars

\* The script and the joiners run, SMF restarts what has ended, a kill arrives,
\* and the sled-agent restarts the service once it has written.  It need never
\* write, and nothing needs to fail.
Fairness ==
  /\ WF_vars(ScriptStep)
  /\ \A e \in Entries : WF_vars(JoinerStep(e))
  /\ WF_vars(RestartService)

FairSpec == Spec /\ Fairness

------------------------------------------------------------------------------

Starting == {e \in Entries : joiner[e] = "starting"}
Held == {e \in Entries : joiner[e] = "joined"}

\* The memberships come in generations that never overlap, whatever dies and
\* whenever the service is restarted.
Gen == INSTANCE Generations WITH
         pending <- todo \cup Starting,
         held    <- Held,
         open    <- pc \notin {"down", "groups"}

GenerationsNeverOverlap == Gen!Spec

\* What the running script has read is what is configured, although it reads in
\* pieces while the sled-agent writes: either no write came between, or the
\* restart that repairs it is still owed.  A script that took a failed svcprop for
\* an unset property is set apart.
ReadsAreCurrent ==
  ~owed /\ ~misread =>
    /\ pc \notin {"down", "groups"} => seen.groups = config.groups
    /\ pc \in {"iface", "spawn", "wait"} => seen.port = config.port
    /\ pc \in {"spawn", "wait"} => seen.iface = config.iface

\* Every joiner under a running script is one it started, for a group it read,
\* with the port and interface it read: no two joiners of different settings.
ServesWhatItRead ==
  pc # "down" =>
    \A e \in Entries : Live(e) =>
      /\ e \in pids /\ pids \subseteq seen.groups
      /\ args[e] = [port |-> seen.port, iface |-> seen.iface]

\* Neither the script nor a joiner it waits for has anything left to do.
AtRest ==
  \/ pc = "idle"
  \/ pc = "wait" /\ \A e \in pids : joiner[e] = "joined"

\* The service never comes to rest too early: when it rests and no restart is due,
\* every configured group is joined, and nothing else, on the configured port and
\* interface, whatever was written, started or lost in between.  It follows that it
\* never rests on a configuration that has an entry its interface cannot serve.  A
\* script that took a failed svcprop for an unset property is set apart.
RestsOnlyWhenRestored ==
  AtRest /\ ~owed /\ ~misread =>
    /\ Held = config.groups
    /\ \A e \in config.groups : Serves(e, config.iface)
    /\ \A e \in Held : args[e] = [port |-> config.port, iface |-> config.iface]

\* Whatever died or was rewritten on the way, in the end every configured group
\* is joined, and nothing else, on the configured port and interface - unless one
\* of them cannot be, with the interface that is configured.
EveryMembershipIsRestored ==
  <>[](\/ misread
       \/ \E e \in config.groups : ~Serves(e, config.iface)
       \/ /\ Held = config.groups
          /\ \A e \in Held : args[e] = [port |-> config.port, iface |-> config.iface])

\* A service without groups comes to rest and does not restart in a loop, also
\* when the property holds empty values.
QuietWithoutGroups == <>[](config.groups = {} => pc = "idle")

\* The script only idles when no groups are configured, as its comment says, or
\* when a restart is due anyway.
IdleOnlyWithoutGroups == pc = "idle" /\ ~owed => config.groups = {}

------------------------------------------------------------------------------
(***************************************************************************)
(* The inductive strengthening the proofs rest on.                         *)
(***************************************************************************)

\* How far the script is with the groups it has read.
LoopInv ==
  /\ pc \in {"down", "groups", "wait", "idle"} => todo = {}
  /\ pc \in {"groups", "port", "iface", "idle"} => pids = {}
  /\ pc # "down" => pids \subseteq seen.groups /\ todo \subseteq seen.groups \ pids
  /\ pc \notin {"down", "groups"} => seen.groups = todo \cup pids

\* Only an entry that its interface serves is joined.
ServedInv == \A e \in Entries : joiner[e] = "joined" => Serves(e, args[e].iface)

\* A joiner under a running script is one of its pids.
ParentInv ==
  pc # "down" =>
    \A e \in Entries : Live(e) =>
      e \in pids /\ args[e] = [port |-> seen.port, iface |-> seen.iface]

JoinersInv == TypeOK /\ LoopInv /\ ParentInv /\ ServedInv /\ ReadsAreCurrent

==============================================================================
