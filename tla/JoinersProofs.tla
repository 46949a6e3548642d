---------------------------- MODULE JoinersProofs ----------------------------
(***************************************************************************)
(* Proofs about Joiners for every set of entries, rejected or not, every   *)
(* set of ports and interfaces, and any number of writes and faults.       *)
(***************************************************************************)
EXTENDS Joiners, TLAPS

\* The type of everything but what a step changes follows from what it leaves
\* unchanged; one step for each action.
LEMMA NextType == TypeOK /\ [Next]_vars => TypeOK'
<1> SUFFICES ASSUME TypeOK, [Next]_vars
             PROVE  TypeOK'
  OBVIOUS
<1> USE DEF TypeOK, scriptVars, joinerVars, agentVars, ScriptEnds
<1>1. /\ config \in Config /\ seen \in Seen
      /\ config.groups \in SUBSET Entries /\ config.port \in Ports
      /\ config.iface \in IfaceOrNone /\ None \in IfaceOrNone
  BY DEF Config, Seen, IfaceOrNone
<1>2. Fault => faults' \in 0 .. MaxFaults
  BY JoinersAssumption DEF Fault
<1>3. CASE Start
  BY <1>3 DEF Start
<1>4. CASE ReadGroups \/ ReadGroupsFails
  <2>1. ASSUME NEW G \in SUBSET Entries, NEW b, HaveGroups(G, b)
        PROVE  /\ seen' \in Seen /\ todo' \in SUBSET Entries
               /\ pc' \in {"idle", "port"}
    BY <1>1, <2>1 DEF HaveGroups, Seen
  <2>2. seen' \in Seen /\ todo' \in SUBSET Entries /\ pc' \in {"idle", "port"}
    BY <1>1, <1>4, <2>1 DEF ReadGroups, ReadGroupsFails
  <2>3. QED
    BY <1>2, <1>4, <2>2 DEF ReadGroups, ReadGroupsFails
<1>5. CASE ReadPort
  <2>1. seen' \in Seen
    BY <1>1, <1>5 DEF ReadPort, Seen
  <2>2. QED
    BY <1>5, <2>1 DEF ReadPort
<1>6. CASE ReadIface \/ ReadIfaceFails
  <2>1. seen' \in Seen
    BY <1>1, <1>6 DEF ReadIface, ReadIfaceFails, Seen
  <2>2. QED
    BY <1>2, <1>6, <2>1 DEF ReadIface, ReadIfaceFails
<1>7. ASSUME NEW e \in Entries, Spawn(e)
      PROVE  TypeOK'
  <2>1. [port |-> seen.port, iface |-> seen.iface] \in Args
    BY <1>1 DEF Seen, Args
  <2>2. QED
    BY <1>7, <2>1 DEF Spawn, SpawnWith
<1>8. CASE LoopEnds \/ WaitReturns
  BY <1>8 DEF LoopEnds, WaitReturns
<1>9. CASE BinaryMissing \/ ReadPortFails
  BY <1>2, <1>9 DEF BinaryMissing, ReadPortFails
<1>10. ASSUME NEW e \in Entries, JoinerStep(e) \/ JoinerDies(e)
       PROVE  TypeOK'
  <2>1. /\ joiner' \in [Entries -> {"starting", "joined", "gone"}]
        /\ UNCHANGED <<args, scriptVars, agentVars>>
        /\ faults' = faults \/ Fault
    BY <1>10 DEF JoinerStep, Joined, Rejected, KillOrphan, JoinerDies
  <2>2. QED
    BY <1>2, <2>1
<1>11. ASSUME NEW c \in Config, Write(c)
       PROVE  TypeOK'
  <2>1. config' \in Config /\ owed' \in BOOLEAN
    BY <1>11 DEF Write
  <2>2. writes' \in 0 .. MaxWrites
    <3>1. writes < MaxWrites /\ writes' = writes + 1
      BY <1>11 DEF Write
    <3>2. writes \in 0 .. MaxWrites /\ MaxWrites \in Nat
      BY JoinersAssumption
    <3>3. QED
      BY ONLY <3>1, <3>2
  <2>3. UNCHANGED <<scriptVars, joinerVars, faults>>
    BY <1>11 DEF Write
  <2> HIDE DEF ScriptEnds
  <2>4. QED
    BY <2>1, <2>2, <2>3
<1>12. CASE RestartService
  BY <1>12 DEF RestartService
<1>13. CASE UNCHANGED vars
  BY <1>13 DEF vars
<1>14. QED
  BY <1>3, <1>4, <1>5, <1>6, <1>7, <1>8, <1>9, <1>10, <1>11, <1>12, <1>13
     DEF Next, ScriptStep, ScriptFault

\* The service starts with no script, no joiners and nothing owed.
LEMMA InitInv == Init => JoinersInv
<1> SUFFICES ASSUME Init
             PROVE  JoinersInv
  OBVIOUS
<1>1. config.port \in Ports
  BY DEF Init, Config
<1>2. TypeOK
  <2>1. seen \in Seen
    BY <1>1 DEF Init, Seen, IfaceOrNone
  <2>2. args \in [Entries -> Args]
    BY <1>1 DEF Init, Args, IfaceOrNone
  <2>3. writes \in 0 .. MaxWrites /\ faults \in 0 .. MaxFaults
    BY JoinersAssumption DEF Init
  <2>4. joiner \in [Entries -> {"starting", "joined", "gone"}]
    BY DEF Init
  <2>5. QED
    BY <2>1, <2>2, <2>3, <2>4 DEF Init, TypeOK
<1>3. LoopInv /\ ParentInv /\ ServedInv /\ ReadsAreCurrent
  BY DEF Init, LoopInv, ParentInv, ServedInv, ReadsAreCurrent
<1>4. QED
  BY <1>2, <1>3 DEF JoinersInv

\* A step that ends the script leaves nothing to show for the rest.
LEMMA EndKeeps ==
  ASSUME ScriptEnds
  PROVE  LoopInv' /\ ParentInv' /\ ReadsAreCurrent'
BY DEF ScriptEnds, LoopInv, ParentInv, ReadsAreCurrent

\* A joiner that is through has arguments that serve it: it comes to that by
\* Joined alone, and the arguments stay while it lives.
LEMMA ServedStep == TypeOK /\ ServedInv /\ [Next]_vars => ServedInv'
<1> SUFFICES ASSUME TypeOK, ServedInv, [Next]_vars
             PROVE  ServedInv'
  OBVIOUS
<1>0. /\ joiner \in [Entries -> {"starting", "joined", "gone"}]
      /\ args \in [Entries -> Args]
  BY DEF TypeOK
<1> USE DEF scriptVars, joinerVars, agentVars
<1>1. ASSUME NEW e \in Entries, Spawn(e)
      PROVE  ServedInv'
  <2>1. \A d \in Entries : joiner'[d] = "joined" =>
          joiner[d] = "joined" /\ args'[d] = args[d]
    BY <1>0, <1>1 DEF Spawn, SpawnWith
  <2>2. QED
    BY <2>1 DEF ServedInv
<1>2. ASSUME NEW e \in Entries, JoinerStep(e) \/ JoinerDies(e)
      PROVE  ServedInv'
  <2>1. args' = args
    BY <1>2 DEF JoinerStep, Joined, Rejected, KillOrphan, JoinerDies
  <2>2. \A d \in Entries : joiner'[d] = "joined" =>
          joiner[d] = "joined" \/ Serves(d, args[d].iface)
    BY <1>0, <1>2 DEF JoinerStep, Joined, Rejected, KillOrphan, JoinerDies
  <2>3. QED
    BY <2>1, <2>2 DEF ServedInv
<1>3. ASSUME UNCHANGED <<joiner, args>>
      PROVE  ServedInv'
  BY <1>3 DEF ServedInv
<1>4. QED
  BY <1>1, <1>2, <1>3
     DEF Next, vars, ScriptStep, ScriptFault, Start, ReadGroups, ReadGroupsFails, ReadPort,
         ReadPortFails, ReadIface, ReadIfaceFails, LoopEnds, WaitReturns, BinaryMissing,
         Write, RestartService

\* Every step of script, joiners, SMF and sled-agent keeps the invariant.
LEMMA NextInv == JoinersInv /\ [Next]_vars => JoinersInv'
<1> SUFFICES ASSUME JoinersInv, [Next]_vars
             PROVE  JoinersInv'
  OBVIOUS
<1>0. TypeOK /\ LoopInv /\ ParentInv /\ ServedInv /\ ReadsAreCurrent
  BY DEF JoinersInv
<1>1. TypeOK' /\ ServedInv'
  BY <1>0, NextType, ServedStep
<1> SUFFICES LoopInv' /\ ParentInv' /\ ReadsAreCurrent'
  BY <1>1 DEF JoinersInv
<1> USE DEF scriptVars, joinerVars, agentVars
<1>a. seen \in Seen /\ args \in [Entries -> Args] /\ joiner \in [Entries -> {"starting", "joined", "gone"}]
  BY <1>0 DEF TypeOK
<1>2. CASE Start
  BY <1>0, <1>2 DEF Start, LoopInv, ParentInv, ReadsAreCurrent, Live
<1>3. CASE ReadGroups \/ ReadGroupsFails
  <2>1. pc = "groups" /\ pids = {} /\ UNCHANGED <<pids, joiner, args, config, owed>>
    BY <1>0, <1>3 DEF ReadGroups, ReadGroupsFails, LoopInv
  <2>2. \A e \in Entries : ~Live(e)
    BY <1>0, <2>1 DEF ParentInv
  <2>3. /\ seen'.groups = todo'
        /\ pc' = "idle" => todo' = {}
        /\ pc' \in {"idle", "port"}
    BY <1>3, <1>a DEF ReadGroups, ReadGroupsFails, HaveGroups, Seen
  <2>4. LoopInv' /\ ParentInv'
    BY <2>1, <2>2, <2>3 DEF LoopInv, ParentInv, Live
  <2>5. ~misread' => seen'.groups = config.groups
    BY <1>3, <1>a DEF ReadGroups, ReadGroupsFails, HaveGroups, Seen
  <2>6. QED
    BY <2>1, <2>3, <2>4, <2>5 DEF ReadsAreCurrent
<1>4. CASE ReadPort
  <2>1. /\ seen'.groups = seen.groups /\ seen'.port = config.port
        /\ pc = "port" /\ pc' = "iface"
        /\ UNCHANGED <<misread, todo, pids, joiner, args, config, owed>>
    BY <1>4, <1>a DEF ReadPort, Seen
  <2>2. pids = {} /\ \A e \in Entries : ~Live(e)
    BY <1>0, <2>1 DEF LoopInv, ParentInv
  <2>3. QED
    BY <1>0, <2>1, <2>2 DEF LoopInv, ParentInv, ReadsAreCurrent, Live
<1>5. CASE ReadIface \/ ReadIfaceFails
  <2>1. /\ seen'.groups = seen.groups /\ seen'.port = seen.port
        /\ ~misread' => seen'.iface = config.iface /\ ~misread
        /\ pc = "iface" /\ pc' = "spawn"
        /\ UNCHANGED <<todo, pids, joiner, args, config, owed>>
    BY <1>5, <1>a DEF ReadIface, ReadIfaceFails, Seen
  <2>2. pids = {} /\ \A e \in Entries : ~Live(e)
    BY <1>0, <2>1 DEF LoopInv, ParentInv
  <2>3. QED
    BY <1>0, <2>1, <2>2 DEF LoopInv, ParentInv, ReadsAreCurrent, Live
<1>6. ASSUME NEW e \in Entries, Spawn(e)
      PROVE  LoopInv' /\ ParentInv' /\ ReadsAreCurrent'
  <2>1. /\ pc = "spawn" /\ e \in todo /\ todo' = todo \ {e} /\ pids' = pids \cup {e}
        /\ args' = [args EXCEPT ![e] = [port |-> seen.port, iface |-> seen.iface]]
        /\ joiner' = [joiner EXCEPT ![e] = "starting"]
        /\ UNCHANGED <<pc, seen, misread, config, owed>>
    BY <1>6 DEF Spawn, SpawnWith
  <2>2. LoopInv'
    BY <1>0, <2>1 DEF LoopInv
  <2>3. ASSUME NEW d \in Entries, Live(d)'
        PROVE  d \in pids' /\ args'[d] = [port |-> seen.port, iface |-> seen.iface]
    <3>1. CASE d = e
      BY <1>a, <2>1, <3>1
    <3>2. CASE d # e
      BY <1>0, <1>a, <2>1, <2>3, <3>2 DEF ParentInv, Live
    <3>3. QED
      BY <3>1, <3>2
  <2>4. ParentInv'
    BY <2>1, <2>3 DEF ParentInv
  <2>5. ReadsAreCurrent'
    BY <1>0, <2>1 DEF ReadsAreCurrent
  <2>6. QED
    BY <2>2, <2>4, <2>5
<1>7. CASE LoopEnds
  <2>1. /\ pc = "spawn" /\ todo = {} /\ pc' \in {"idle", "wait"} /\ (pc' = "idle" => pids = {})
        /\ UNCHANGED <<seen, misread, todo, pids, joiner, args, config, owed>>
    BY <1>7 DEF LoopEnds
  <2>2. LoopInv'
    BY <1>0, <2>1 DEF LoopInv
  <2>3. ParentInv' /\ ReadsAreCurrent'
    BY <1>0, <2>1 DEF ParentInv, ReadsAreCurrent, Live
  <2>4. QED
    BY <2>2, <2>3
<1>8. CASE WaitReturns \/ BinaryMissing \/ ReadPortFails \/ RestartService
  BY <1>8, EndKeeps DEF WaitReturns, BinaryMissing, ReadPortFails, RestartService
<1>9. ASSUME NEW e \in Entries, JoinerStep(e) \/ JoinerDies(e)
      PROVE  LoopInv' /\ ParentInv' /\ ReadsAreCurrent'
  <2>1. UNCHANGED <<pc, seen, misread, todo, pids, args, config, owed>>
    BY <1>9 DEF JoinerStep, Joined, Rejected, KillOrphan, JoinerDies
  <2>2. \A d \in Entries : Live(d)' => Live(d)
    BY <1>9, <1>a DEF JoinerStep, Joined, Rejected, KillOrphan, JoinerDies, Live
  <2>3. QED
    BY <1>0, <2>1, <2>2 DEF LoopInv, ParentInv, ReadsAreCurrent
<1>10. ASSUME NEW c \in Config, Write(c)
       PROVE  LoopInv' /\ ParentInv' /\ ReadsAreCurrent'
  BY <1>0, <1>10 DEF Write, LoopInv, ParentInv, ReadsAreCurrent, Live
<1>11. CASE UNCHANGED vars
  BY <1>0, <1>11 DEF vars, LoopInv, ParentInv, ReadsAreCurrent, Live
<1>12. QED
  BY <1>2, <1>3, <1>4, <1>5, <1>6, <1>7, <1>8, <1>9, <1>10, <1>11
     DEF Next, ScriptStep, ScriptFault

\* The inductive invariant behind the theorems on the service.
LEMMA JoinersInvHolds == Spec => []JoinersInv
BY InitInv, NextInv, PTL DEF Spec

\* Every variable of the script, its joiners and the sled-agent keeps its type.
THEOREM JoinersTypeCorrect == Spec => []TypeOK
<1>1. JoinersInv => TypeOK
  BY DEF JoinersInv
<1>2. QED
  BY <1>1, JoinersInvHolds, PTL

\* A script whose configuration nobody is about to repair has read what is
\* configured, however its reads and the writes of the sled-agent interleave.
THEOREM ReadsTheorem == Spec => []ReadsAreCurrent
<1>1. JoinersInv => ReadsAreCurrent
  BY DEF JoinersInv
<1>2. QED
  BY <1>1, JoinersInvHolds, PTL

\* No joiner of an earlier script, with other settings, lives under a script.
THEOREM ServesTheorem == Spec => []ServesWhatItRead
<1>1. JoinersInv => ServesWhatItRead
  BY DEF JoinersInv, LoopInv, ParentInv, ServesWhatItRead
<1>2. QED
  BY <1>1, JoinersInvHolds, PTL

\* When the service rests and no restart is due, what it holds is what is
\* configured, and its interface serves all of it: the safety half of EveryMembershipIsRestored, for any number of
\* entries, writes and faults.
THEOREM RestsTheorem == Spec => []RestsOnlyWhenRestored
<1>1. JoinersInv => RestsOnlyWhenRestored
  <2> SUFFICES ASSUME JoinersInv, AtRest, ~owed, ~misread
               PROVE  /\ Held = config.groups
                      /\ \A e \in config.groups : Serves(e, config.iface)
                      /\ \A e \in Held : args[e] = [port |-> config.port, iface |-> config.iface]
    BY DEF RestsOnlyWhenRestored
  <2> DEFINE Configured(e) == args[e] = [port |-> config.port, iface |-> config.iface]
  <2>1. /\ todo = {} /\ seen.groups = pids /\ pids \subseteq Entries
        /\ pc \in {"idle", "wait"}
    BY DEF JoinersInv, LoopInv, AtRest, TypeOK
  <2>2. pids = config.groups
    BY <2>1 DEF JoinersInv, ReadsAreCurrent
  <2>3. Held \subseteq pids
    BY <2>1 DEF JoinersInv, ParentInv, Held, Live
  <2>4. ASSUME pc = "idle" PROVE Held = config.groups /\ \A e \in Held : Configured(e)
    <3>1. pids = {}
      BY <2>4 DEF JoinersInv, LoopInv
    <3>2. QED
      BY <2>2, <2>3, <3>1
  <2>5. ASSUME pc = "wait", \A e \in pids : joiner[e] = "joined"
        PROVE  Held = config.groups /\ \A e \in Held : Configured(e)
    <3>1. Held = config.groups
      BY <2>1, <2>2, <2>3, <2>5 DEF Held
    <3>2. seen.port = config.port /\ seen.iface = config.iface
      BY <2>5 DEF JoinersInv, ReadsAreCurrent
    <3>3. \A e \in Held : args[e] = [port |-> seen.port, iface |-> seen.iface]
      BY <2>5 DEF JoinersInv, ParentInv, Held, Live
    <3>4. QED
      BY <3>1, <3>2, <3>3
  <2>6. Held = config.groups /\ \A e \in Held : Configured(e)
    BY <2>4, <2>5 DEF AtRest
  <2>7. ASSUME NEW e \in Held PROVE Serves(e, config.iface)
    <3>1. args[e].iface = config.iface
      BY <2>6
    <3>2. Serves(e, args[e].iface)
      BY DEF JoinersInv, ServedInv, Held
    <3>3. QED
      BY <3>1, <3>2, Zenon
  <2>8. QED
    BY <2>6, <2>7
<1>2. QED
  BY <1>1, JoinersInvHolds, PTL

------------------------------------------------------------------------------
(***************************************************************************)
(* Joiners implements Generations.                                         *)
(***************************************************************************)

pendingBar == todo \cup Starting
openBar == pc \notin {"down", "groups"}

\* A service that is not running yet is an abstract one that asks for nothing.
LEMMA InitMaps == Init => Gen!Init
BY DEF Init, Gen!Init, Starting, Held

\* A step of one joiner maps to a step of one membership.
LEMMA JoinerMaps ==
  ASSUME JoinersInv, NEW e \in Entries, JoinerStep(e) \/ JoinerDies(e)
  PROVE  Gen!Join(e) \/ Gen!Lose(e)
<1>1. /\ joiner \in [Entries -> {"starting", "joined", "gone"}]
      /\ todo' = todo /\ pc' = pc
  BY DEF JoinersInv, TypeOK, JoinerStep, Joined, Rejected, KillOrphan, JoinerDies, scriptVars
<1>2. Live(e) /\ e \notin todo
  <2>1. Live(e)
    BY DEF JoinerStep, Joined, Rejected, KillOrphan, JoinerDies, Live
  <2>2. QED
    BY <2>1 DEF JoinersInv, LoopInv, ParentInv
<1>3. CASE Joined(e)
  <2>1. joiner[e] = "starting" /\ joiner' = [joiner EXCEPT ![e] = "joined"]
    BY <1>3 DEF Joined
  <2>2. Starting' = Starting \ {e} /\ Held' = Held \cup {e} /\ e \in Starting
    BY <1>1, <2>1 DEF Starting, Held
  <2>3. QED
    BY <1>1, <1>2, <2>2 DEF Gen!Join
<1>4. CASE Rejected(e) \/ KillOrphan(e) \/ JoinerDies(e)
  <2>1. joiner' = [joiner EXCEPT ![e] = "gone"]
    BY <1>4 DEF Rejected, KillOrphan, JoinerDies
  <2>2. Starting' = Starting \ {e} /\ Held' = Held \ {e} /\ e \in Starting \cup Held
    BY <1>1, <1>2, <2>1 DEF Starting, Held, Live
  <2>3. QED
    BY <1>1, <1>2, <2>2 DEF Gen!Lose
<1>5. QED
  BY <1>3, <1>4 DEF JoinerStep

\* Every step is a step of the abstract service or a stutter.
LEMMA NextMaps ==
  JoinersInv /\ JoinersInv' /\ [Next]_vars => [Gen!Next]_<<pendingBar, Held, openBar>>
<1> SUFFICES ASSUME JoinersInv, JoinersInv', [Next]_vars
             PROVE  Gen!Next \/ UNCHANGED <<pendingBar, Held, openBar>>
  BY DEF pendingBar, openBar
<1>0. TypeOK /\ LoopInv /\ ParentInv /\ todo' \in SUBSET Entries
  BY DEF JoinersInv, TypeOK
<1> USE DEF scriptVars, joinerVars, agentVars, pendingBar, openBar, Starting, Held
<1>1. CASE Start \/ BinaryMissing
  BY <1>0, <1>1 DEF Start, BinaryMissing, ScriptEnds, LoopInv
<1>2. CASE ReadGroups \/ ReadGroupsFails
  <2>1. /\ pc = "groups" /\ pc' \in {"port", "idle"} /\ joiner' = joiner
        /\ todo = {} /\ \A e \in Entries : ~Live(e)
    BY <1>0, <1>2 DEF ReadGroups, ReadGroupsFails, HaveGroups, LoopInv, ParentInv
  <2>2. Starting = {} /\ Held = {} /\ Starting' = {} /\ Held' = {}
    BY <2>1 DEF Live
  <2>3. Gen!Ask
    BY <1>0, <2>1, <2>2 DEF Gen!Ask
  <2>4. QED
    BY <2>3 DEF Gen!Next
<1>3. CASE ReadPort \/ ReadIface \/ ReadIfaceFails \/ LoopEnds
  BY <1>3 DEF ReadPort, ReadIface, ReadIfaceFails, LoopEnds
<1>4. ASSUME NEW e \in Entries, Spawn(e)
      PROVE  UNCHANGED <<pendingBar, Held, openBar>>
  <2>1. /\ e \in todo /\ todo' = todo \ {e} /\ pc' = pc /\ pc = "spawn"
        /\ joiner' = [joiner EXCEPT ![e] = "starting"]
    BY <1>4 DEF Spawn, SpawnWith
  <2>2. joiner[e] = "gone" /\ joiner \in [Entries -> {"starting", "joined", "gone"}]
    BY <1>0, <2>1 DEF LoopInv, ParentInv, TypeOK, Live
  <2>3. Starting' = Starting \cup {e} /\ Held' = Held
    BY <2>1, <2>2
  <2>4. QED
    BY <2>1, <2>3
<1>5. CASE WaitReturns \/ ReadPortFails \/ RestartService
  <2>1. pc' = "down" /\ todo' = {} /\ joiner' = joiner
    BY <1>5 DEF WaitReturns, ReadPortFails, RestartService, ScriptEnds
  <2>2. CASE pc \in {"down", "groups"}
    BY <1>0, <2>1, <2>2 DEF LoopInv
  <2>3. CASE pc \notin {"down", "groups"}
    BY <2>1, <2>3 DEF Gen!GiveUp, Gen!Next
  <2>4. QED
    BY <2>2, <2>3
<1>6. ASSUME NEW e \in Entries, JoinerStep(e) \/ JoinerDies(e)
      PROVE  Gen!Next
  BY <1>6, JoinerMaps DEF Gen!Next
<1>7. ASSUME NEW c \in Config, Write(c)
      PROVE  UNCHANGED <<pendingBar, Held, openBar>>
  BY <1>7 DEF Write
<1>8. CASE UNCHANGED vars
  BY <1>8 DEF vars
<1>9. QED
  BY <1>1, <1>2, <1>3, <1>4, <1>5, <1>6, <1>7, <1>8 DEF Next, ScriptStep, ScriptFault

\* The service implements Generations: the next script asks for no membership
\* while a joiner of the last one is alive.
THEOREM GenerationsTheorem == Spec => GenerationsNeverOverlap
<1>1. Init => Gen!Init
  BY InitMaps
<1>2. JoinersInv /\ JoinersInv' /\ [Next]_vars
        => [Gen!Next]_<<todo \cup Starting, Held, pc \notin {"down", "groups"}>>
  BY NextMaps DEF pendingBar, openBar
<1>3. QED
  BY <1>1, <1>2, JoinersInvHolds, PTL DEF Spec, GenerationsNeverOverlap, Gen!Spec

==============================================================================
