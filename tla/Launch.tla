-------------------------------- MODULE Launch --------------------------------
(***************************************************************************)
(* One run of thundermuffin from its command line to its loop: main and    *)
(* Server::validate of app/src/main.rs, and the socket set-up at the head  *)
(* of run_client and run_server in app/src/udp.rs and app/src/tcp.rs.      *)
(*                                                                         *)
(* Every system call may fail, and a failure ends the run.  Meanwhile the  *)
(* interfaces of the host may change.  The kernel is external: a join adds *)
(* to the filter of the socket, setsourcefilter sets all of it, and the    *)
(* filter goes with its interface and with the process.  That a kernel may *)
(* take up a membership again when the interface is back is left out.      *)
(***************************************************************************)
EXTENDS Interfaces, FiniteSets

CONSTANTS
  Args,       \* the command lines a run is started with
  Tables,     \* the interface tables of the host
  AnySource,  \* the source of an any-source membership
  MaxChanges  \* BOUND: changes of the interfaces during the launch

\* "addr" is the server of a client and the listen address of a server, which
\* alone has sources.  A source given twice is a call that adds nothing, or fails.
CommandLine ==
  [transport : {"Tcp", "Udp"}, role : {"Client", "Server"}, addr : Address,
   scope : Nat, sources : SUBSET Address, iface : Selector \cup {None},
   duration : BOOLEAN]

ASSUME LaunchAssumption ==
  /\ Args \subseteq CommandLine
  /\ \A a \in Args : a.role = "Client" => a.sources = {}
  /\ Tables \subseteq Table
  /\ AnySource \notin Address
  /\ MaxChanges \in Nat
  \* An interface without an IPv4 address has no entry that says 0.0.0.0.
  /\ \A t \in Tables : \A i \in DOMAIN t.entries : t.entries[i].addr # UNSPECIFIED

VARIABLES
  args,     \* the command line of this run
  pc,       \* the call that comes next, or how the launch ended
  ifname,   \* the name index() is about to look up
  iface,    \* the IPv4 address or the interface index of the selector
  scope,    \* the zone in the socket address that is bound or sent to
  out,      \* the outgoing interface of a client, None if the kernel picks
  todo,     \* the sources join_v4 has not joined yet
  members,  \* the multicast filter of the socket
  table,    \* the interfaces of the host as they are
  changes,
  lost      \* history: memberships went away with their interface

localVars == <<args, ifname, iface, scope, out, todo>>
hostVars == <<table, changes, lost>>
vars == <<pc, members, localVars, hostVars>>

Multicast == IsMulticast(args.addr)
OverV4 == IsV4(args.addr)

\* multicast_source_v4 and multicast_source_v6: those of the group's family.
FamilySources == {s \in args.sources : IsV4(s) = OverV4}

\* What a selector becomes, and a membership of the group on that interface.
Iface == {None} \cup (IF OverV4 THEN V4 ELSE Nat)
Membership == [group : {args.addr}, on : {iface}, source : args.sources \cup {AnySource}]

\* The sources of the filter that the arguments ask for.
SourcesAsked(a) ==
  IF a.transport = "Tcp" \/ a.role = "Client" \/ ~IsMulticast(a.addr) THEN {}
  ELSE IF a.sources = {} THEN {AnySource} ELSE a.sources

TypeOK ==
  /\ args \in Args
  /\ pc \in {"start", "socket", "options", "resolve", "lookup", "outif", "bind",
             "join", "timeout", "connect", "listen", "loop",
             "rejected", "unresolved", "failed", "ended"}
  /\ ifname \in Name \cup {None}
  /\ iface \in Iface
  /\ scope \in Nat
  /\ out \in Iface
  /\ todo \in SUBSET args.sources
  /\ members \in SUBSET Membership
  /\ table \in Tables
  /\ changes \in 0 .. MaxChanges
  /\ lost \in BOOLEAN

Init ==
  /\ args \in Args
  /\ pc = "start"
  /\ ifname = None
  /\ iface = None
  /\ scope = 0
  /\ out = None
  /\ todo = {}
  /\ members = {}
  /\ table \in Tables
  /\ changes = 0
  /\ lost = FALSE

------------------------------------------------------------------------------
(***************************************************************************)
(* The command line.                                                       *)
(***************************************************************************)

\* Cli::parse: each source on its own.
Parses(a) == \A s \in a.sources : ParseUnicastIpaddr(s)

\* Seeded fault: a group of the SSM range may go without sources.
ValidatesSourceless(a) ==
  /\ IsSsmMulticast(a.addr) => ValidateSsmDestination(a.addr)
  /\ a.sources # {} => /\ IsMulticast(a.addr)
                       /\ \A s \in a.sources : IsV4(s) = IsV4(a.addr)
                       /\ a.iface # None

\* Seeded fault: the interface may be left to the kernel.
ValidatesUnpinned(a) ==
  /\ IsSsmMulticast(a.addr) => ValidateSsmDestination(a.addr) /\ a.sources # {}
  /\ a.sources # {} => /\ IsMulticast(a.addr)
                       /\ \A s \in a.sources : IsV4(s) = IsV4(a.addr)

\* Server::validate: an SSM group has sources, sources have a group of their
\* family and an interface.
Validates(a) ==
  /\ IsSsmMulticast(a.addr) => ValidateSsmDestination(a.addr) /\ a.sources # {}
  /\ a.sources # {} => /\ IsMulticast(a.addr)
                       /\ \A s \in a.sources : IsV4(s) = IsV4(a.addr)
                       /\ a.iface # None

Admits(a) ==
  /\ Parses(a)
  /\ ~(a.transport = "Tcp" /\ IsMulticast(a.addr))
  /\ a.role = "Server" => Validates(a)

\* main, up to the dispatch on the transport.
Main ==
  /\ pc = "start"
  /\ pc' = IF Admits(args) THEN "socket" ELSE "rejected"
  /\ UNCHANGED <<members, localVars, hostVars>>

------------------------------------------------------------------------------
(***************************************************************************)
(* The socket.  IPv4 servers bind first and then look for the interface of *)
(* the join; IPv6 servers need its index for the address they bind.        *)
(***************************************************************************)

OpenSocket ==
  /\ pc = "socket"
  /\ pc' = CASE args.role = "Server" /\ Multicast /\ ~OverV4 -> "resolve"
             [] args.role = "Server" /\ (~Multicast \/ OverV4) -> "bind"
             [] args.role = "Client" /\ args.transport = "Udp" -> "options"
             [] args.role = "Client" /\ args.transport = "Tcp" -> "connect"
  /\ UNCHANGED <<members, localVars, hostVars>>

\* TTL or hop limit and, for groups, the loop option of a client.
SetOptions ==
  /\ pc = "options"
  /\ IF Multicast THEN pc' = "resolve" /\ UNCHANGED scope
     ELSE pc' = "loop" /\ scope' = IF OverV4 THEN 0 ELSE args.scope
  /\ UNCHANGED <<members, args, ifname, iface, out, todo, hostVars>>

\* Where a run goes once it has its interface.
Resolved == IF args.role = "Client" THEN "outif" ELSE IF OverV4 THEN "join" ELSE "bind"

HaveIface(value) ==
  /\ iface' = value
  /\ todo' = IF args.role = "Server" /\ OverV4 THEN FamilySources ELSE {}
  /\ pc' = Resolved
  /\ UNCHANGED <<members, args, ifname, scope, out, hostVars>>

\* No selector: INADDR_ANY, or index 0.
KernelsChoice == IF OverV4 THEN UNSPECIFIED ELSE 0

LeaveIfaceToKernel ==
  /\ pc = "resolve"
  /\ args.iface = None
  /\ HaveIface(KernelsChoice)

\* v4_addr: one reading of the list.
ResolveV4Addr ==
  /\ pc = "resolve"
  /\ args.iface # None /\ OverV4
  /\ V4Addr(table, args.iface) # None
  /\ HaveIface(V4Addr(table, args.iface))

\* index, first half.
ResolveName ==
  /\ pc = "resolve"
  /\ args.iface # None /\ ~OverV4
  /\ NameToLookUp(table, args.iface) \notin {None, EmptyName}
  /\ ifname' = NameToLookUp(table, args.iface)
  /\ pc' = "lookup"
  /\ UNCHANGED <<members, args, iface, scope, out, todo, hostVars>>

\* index, second half, on the interfaces as they are by now.
LookUpIndex ==
  /\ pc = "lookup"
  /\ IfnameToIndex(table, ifname) # 0
  /\ HaveIface(IfnameToIndex(table, ifname))

\* The selector leads nowhere.
Unresolved ==
  /\ \/ /\ pc = "resolve" /\ args.iface # None
        /\ IF OverV4 THEN V4Addr(table, args.iface) = None
           ELSE NameToLookUp(table, args.iface) \in {None, EmptyName}
     \/ pc = "lookup" /\ IfnameToIndex(table, ifname) = 0
  /\ pc' = "unresolved"
  /\ members' = {}
  /\ UNCHANGED <<localVars, hostVars>>

\* Whether the kernel finds the interface a call of the set-up names on a host.
HasIface(t) ==
  \/ iface = KernelsChoice
  \/ IF OverV4 THEN \E i \in DOMAIN t.entries : t.entries[i].addr = iface
     ELSE \E b \in Bases : t.index[b] = iface

\* IP_MULTICAST_IF and IPV6_MULTICAST_IF, unless the kernel is to pick: without
\* a selector the index is 0, and with one it never is.
SetOutgoing ==
  /\ pc = "outif"
  /\ HasIface(table)
  /\ out' = IF args.iface = None THEN None ELSE iface
  /\ scope' = IF OverV4 THEN 0 ELSE V6MulticastScopeId(args.addr, iface)
  /\ pc' = "loop"
  /\ UNCHANGED <<members, args, ifname, iface, todo, hostVars>>

\* SO_REUSEADDR for a group, and bind.
Bind ==
  /\ pc = "bind"
  /\ scope' = IF OverV4 THEN 0
              ELSE IF Multicast THEN V6MulticastScopeId(args.addr, iface)
              ELSE args.scope
  /\ pc' = CASE args.transport = "Tcp" -> "listen"
             [] args.transport = "Udp" /\ ~Multicast -> "timeout"
             [] args.transport = "Udp" /\ Multicast -> IF OverV4 THEN "resolve" ELSE "join"
  /\ UNCHANGED <<members, args, ifname, iface, out, todo, hostVars>>

------------------------------------------------------------------------------
(***************************************************************************)
(* The joins of a server.                                                  *)
(***************************************************************************)

Member(on, s) == [group |-> args.addr, on |-> on, source |-> s]

\* Seeded fault: the index is looked up once more for the join.
JoinAnySourceAgain ==
  /\ pc = "join"
  /\ FamilySources = {}
  /\ IF OverV4 \/ ifname = None
     THEN HasIface(table) /\ members' = {Member(iface, AnySource)}
     ELSE /\ IfnameToIndex(table, ifname) # 0
          /\ members' = {Member(IfnameToIndex(table, ifname), AnySource)}
  /\ pc' = "timeout"
  /\ UNCHANGED <<localVars, hostVars>>

\* Without sources: IP_ADD_MEMBERSHIP, IPV6_ADD_MEMBERSHIP.
JoinAnySource ==
  /\ pc = "join"
  /\ FamilySources = {}
  /\ HasIface(table)
  /\ members' = {Member(iface, AnySource)}
  /\ pc' = "timeout"
  /\ UNCHANGED <<localVars, hostVars>>

\* Seeded fault: a failed join is passed over.
JoinSourceV4Leniently(s) ==
  /\ pc = "join"
  /\ OverV4 /\ s \in todo
  /\ HasIface(table)
  /\ \/ members' = members \cup {Member(iface, s)}
     \/ UNCHANGED members
  /\ todo' = todo \ {s}
  /\ pc' = IF todo' = {} THEN "timeout" ELSE "join"
  /\ UNCHANGED <<args, ifname, iface, scope, out, hostVars>>

\* join_v4: IP_ADD_SOURCE_MEMBERSHIP for one more source.
JoinSourceV4(s) ==
  /\ pc = "join"
  /\ OverV4 /\ s \in todo
  /\ HasIface(table)
  /\ members' = members \cup {Member(iface, s)}
  /\ todo' = todo \ {s}
  /\ pc' = IF todo' = {} THEN "timeout" ELSE "join"
  /\ UNCHANGED <<args, ifname, iface, scope, out, hostVars>>

\* join_ssm_v6: setsourcefilter with the full list.
JoinSourcesV6 ==
  /\ pc = "join"
  /\ ~OverV4 /\ FamilySources # {}
  /\ HasIface(table)
  /\ members' = {Member(iface, s) : s \in FamilySources}
  /\ pc' = "timeout"
  /\ UNCHANGED <<localVars, hostVars>>

\* SO_RCVTIMEO, if a duration is given.
SetReadTimeout ==
  /\ pc = "timeout"
  /\ pc' = "loop"
  /\ UNCHANGED <<members, localVars, hostVars>>

Connect ==
  /\ pc = "connect"
  /\ pc' = "loop"
  /\ scope' = IF OverV4 THEN 0 ELSE args.scope
  /\ UNCHANGED <<members, args, ifname, iface, out, todo, hostVars>>

\* TCP_NODELAY and listen.
Listen ==
  /\ pc = "listen"
  /\ pc' = "loop"
  /\ UNCHANGED <<members, localVars, hostVars>>

------------------------------------------------------------------------------
(***************************************************************************)
(* The ways out, and the host.                                             *)
(***************************************************************************)

\* A call of the set-up fails; "timeout" without a duration and "outif" without a
\* selector make none, "resolve" reads no list without one or for an IPv4 address.
CallFails ==
  /\ pc \in {"socket", "options", "resolve", "outif", "bind", "join", "timeout",
             "connect", "listen"}
  /\ pc = "resolve" => /\ args.iface # None
                       /\ IF OverV4 THEN args.iface.addr \notin V4
                          ELSE args.iface.addr # None
  /\ pc = "outif" => args.iface # None
  /\ pc = "timeout" => args.duration
  /\ pc' = "failed"
  /\ members' = {}
  /\ UNCHANGED <<localVars, hostVars>>

\* The loop ends, in one of the ways of UdpClient, UdpServer and TcpStream.
LoopEnds ==
  /\ pc = "loop"
  /\ pc' = "ended"
  /\ members' = {}
  /\ UNCHANGED <<localVars, hostVars>>

\* The interfaces change.  The memberships go with their interface, and if the
\* kernel has picked it, that may be any; no call of the run fails for it.
HostChanges ==
  /\ changes < MaxChanges
  /\ table' \in Tables \ {table}
  /\ changes' = changes + 1
  /\ \/ /\ HasIface(table')
        /\ UNCHANGED <<members, lost>>
     \/ /\ iface = KernelsChoice \/ ~HasIface(table')
        /\ members' = {}
        /\ lost' = (lost \/ members # {})
  /\ UNCHANGED <<pc, localVars>>

LaunchStep ==
  \/ Main \/ OpenSocket \/ SetOptions
  \/ LeaveIfaceToKernel \/ ResolveV4Addr \/ ResolveName \/ LookUpIndex \/ Unresolved
  \/ SetOutgoing \/ Bind
  \/ JoinAnySource \/ (\E s \in todo : JoinSourceV4(s)) \/ JoinSourcesV6
  \/ SetReadTimeout \/ Connect \/ Listen \/ CallFails \/ LoopEnds

Next == LaunchStep \/ HostChanges

Spec == Init /\ [][Next]_vars

------------------------------------------------------------------------------

Ended == {"rejected", "unresolved", "failed", "ended"}

\* A run reads with the whole filter of its command line or not at all: not
\* with the part that was joined before a call failed and not with a filter of
\* arguments that are rejected.  Only the host takes memberships away, with the
\* interface they are on; then the run goes on with what is left, and never gets
\* more.
Whole == INSTANCE Receiver WITH
           asked  <- IF Admits(args) THEN {SourcesAsked(args)} ELSE {},
           phase  <- IF pc = "loop" THEN "reading"
                     ELSE IF pc \in Ended THEN "gone" ELSE "setup",
           filter <- IF pc = "loop" THEN {m.source : m \in members} ELSE {},
           lost   <- lost

FilterIsWholeOrNothing == Whole!Spec

\* An SSM group is never joined from any source, not even between two calls.
SsmIsNeverAnySource ==
  \A m \in members : IsSsmMulticast(m.group) => m.source # AnySource

\* A membership with a source is on an interface of the user's choice and not
\* of the kernel's.  The address 0.0.0.0 is passed on as it is, so it is a choice
\* that leaves the interface to the kernel all the same.
SourcesArePinned ==
  \A m \in members : m.source # AnySource =>
    /\ args.iface # None
    /\ IF OverV4 THEN m.on = UNSPECIFIED => args.iface.addr = UNSPECIFIED
       ELSE m.on # 0

\* As the comment in Server::validate has it: no join with sources is left to the
\* kernel, by INADDR_ANY or by index 0.  It is, with --multicast-iface 0.0.0.0.
SsmJoinsAvoidKernelChoice ==
  \A m \in members : m.source # AnySource => m.on # KernelsChoice

\* Where the socket address has a zone, an IPv6 server has joined on the
\* interface of that zone, whatever happened to the interfaces in between.
ZoneIsWhereItJoined ==
  Multicast /\ ~OverV4 /\ scope # 0 =>
    /\ \A m \in members : m.on = scope
    /\ out # None => out = scope

\* A server on an SSM group needs no zone in its socket address: the groups that
\* would are exactly among those the command line turns away.
SsmNeedsNoZone ==
  args.role = "Server" /\ IsSsmMulticast(args.addr) /\ pc # "rejected" => scope = 0

\* On a host whose interfaces do not change, the selector becomes an interface
\* it points at.
UsesSelectedInterface ==
  changes = 0 /\ iface # None /\ args.iface # None =>
    Selects(table, args.iface, OverV4, iface)

\* On such a host it leads nowhere only for the reasons v4_addr and index give: a
\* named interface has no IPv4 address or no index; no interface has the address
\* that was given; or one that has it lacks, in turn, what the group needs.
UnresolvedForCause ==
  changes = 0 /\ pc = "unresolved" => LeadsNowhere(table, args.iface, OverV4)

------------------------------------------------------------------------------
(***************************************************************************)
(* The inductive strengthening the proofs rest on, in named parts.         *)
(***************************************************************************)

\* A call is reached only by command lines that the code sends there.
PhaseInv ==
  /\ pc \notin {"start", "rejected"} => Admits(args)
  /\ pc \in {"options", "outif", "connect"} => args.role = "Client"
  /\ pc \in {"bind", "join", "timeout", "listen"} => args.role = "Server"
  /\ pc \in {"resolve", "lookup", "outif", "join"} => Multicast
  /\ pc \in {"bind", "timeout"} /\ Multicast => args.transport = "Udp"
  /\ pc \in {"resolve", "lookup", "outif", "join"} => args.transport = "Udp"
  /\ pc \in {"connect", "listen"} => args.transport = "Tcp"
  /\ pc = "lookup" => ~OverV4 /\ args.iface # None

\* The sources joined so far, all on the one interface.
SourcesJoined == {m.source : m \in members}

JoinInv ==
  /\ \A m \in members : m.group = args.addr /\ m.on = iface
  /\ pc \notin {"join", "timeout", "loop"} => members = {}
  /\ pc = "join" /\ OverV4 => /\ SourcesJoined \subseteq FamilySources \ todo
                              /\ ~lost => SourcesJoined = FamilySources \ todo
                              /\ todo \subseteq FamilySources
                              /\ FamilySources # {} => todo # {}
  /\ pc = "join" /\ ~OverV4 => members = {}
  /\ pc \in {"timeout", "loop"} => /\ SourcesJoined \subseteq SourcesAsked(args)
                                   /\ ~lost => SourcesJoined = SourcesAsked(args)

\* Without a selector the interface is the kernel's, and with one it never is.
IfaceInv ==
  /\ pc \in {"outif", "join"} \/ (pc = "bind" /\ Multicast /\ ~OverV4) => iface # None
  /\ args.iface # None => IF OverV4 THEN iface = UNSPECIFIED => args.iface.addr = UNSPECIFIED
                          ELSE iface # 0

\* The zone is taken from the index, after which the index stays.
ZoneInv ==
  Multicast /\ ~OverV4 =>
    /\ pc \in {"start", "socket", "options", "resolve", "lookup", "outif", "bind"} =>
         scope = 0 /\ out = None
    /\ scope \in {0, iface}
    /\ out \in {None, iface}

\* The interfaces did not change: what was found is still there.
HostInv ==
  changes = 0 /\ pc = "lookup" =>
    ifname = NameToLookUp(table, args.iface) /\ ifname \notin {None, EmptyName}

LaunchInv ==
  /\ TypeOK /\ PhaseInv /\ JoinInv /\ IfaceInv /\ ZoneInv /\ HostInv
  /\ SsmNeedsNoZone /\ UsesSelectedInterface /\ UnresolvedForCause

==============================================================================
