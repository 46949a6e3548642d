----------------------------- MODULE LaunchProofs -----------------------------
(***************************************************************************)
(* Proofs about Launch for every set of command lines, every set of        *)
(* interface tables and any number of changes between them.                *)
(***************************************************************************)
EXTENDS Launch, WellFoundedInduction, TLAPS

(***************************************************************************)
(* Addresses and interface tables.                                         *)
(***************************************************************************)

\* The two families are apart, and neither holds the value that stands for none.
LEMMA Families ==
  /\ UNSPECIFIED \in V4
  /\ \A a \in Address : a \in V4 <=> IsV4(a)
  /\ None \notin V4 /\ None \notin Nat
<1>1. UNSPECIFIED \in V4
  BY DEF UNSPECIFIED, V4
<1>2. \A a \in Address : a \in V4 <=> IsV4(a)
  <2> DEFINE Octets == [1 .. 4 -> 0 .. 255]
             Segments == [1 .. 8 -> 0 .. 65535]
  <2>1. V4 = [family : {"v4"}, part : Octets] /\ V6 = [family : {"v6"}, part : Segments]
    BY DEF V4, V6
  <2> HIDE DEF Octets, Segments
  <2>2. (\A a \in V4 : a.family = "v4") /\ \A a \in V6 : a.family = "v6"
    BY <2>1
  <2>3. QED
    BY <2>1, <2>2 DEF Address, IsV4
<1>3. QED
  BY <1>1, <1>2, InterfacesAssumption DEF Address

\* An IPv6 group of the SSM range is a multicast group.
LEMMA SsmIsMulticast ==
  ASSUME NEW a \in Address, IsSsmMulticast(a)
  PROVE  IsMulticast(a)
BY DEF IsSsmMulticast, IsMulticast, Ipv6SegmentsAreSsm

\* A set of positions that is not empty has a first one.
LEMMA FirstOfIn ==
  ASSUME NEW S \in SUBSET Nat, S # {}
  PROVE  FirstOf(S) \in S
<1> DEFINE R == OpToRel(<, Nat)
<1>1. \A x, y \in Nat : x < y => <<x, y>> \in R
  BY DEF OpToRel
<1>2. IsWellFoundedOn(R, Nat)
  BY NatLessThanWellFounded
<1> HIDE DEF R
<1>3. PICK x \in S : \A y \in S : ~ (<<y, x>> \in R)
  BY <1>2, WFMin
<1>4. \A y \in S : ~ (y < x)
  BY <1>1, <1>3, Zenon
<1>5. \A y \in S : x <= y
  BY <1>4
<1>6. QED
  BY <1>5 DEF FirstOf

\* The parts of an entry of a table.
LEMMA EntryType ==
  ASSUME NEW t \in Table, NEW i \in DOMAIN t.entries
  PROVE  /\ i \in Nat
         /\ t.entries[i] \in Entry
         /\ t.entries[i].name \in Name
         /\ t.entries[i].name = [base |-> t.entries[i].name.base, unit |-> t.entries[i].name.unit]
<1>1. t.entries \in Seq(Entry)
  BY DEF Table
<1>2. i \in Nat /\ t.entries[i] \in Entry
  BY <1>1
<1>3. t.entries[i].name \in Name
  BY <1>2 DEF Entry
<1>4. QED
  BY <1>2, <1>3 DEF Name

\* FirstV4 finds an IPv4 address of an entry that matches, if there is one.
LEMMA FirstV4Finds ==
  ASSUME NEW t \in Table, NEW name
  PROVE  \/ /\ FirstV4(t, name) = None
            /\ \A i \in DOMAIN t.entries :
                 t.entries[i].addr \in V4 => ~IfnameMatches(t.entries[i].name, name)
         \/ \E i \in DOMAIN t.entries :
              /\ FirstV4(t, name) = t.entries[i].addr
              /\ t.entries[i].addr \in V4
              /\ IfnameMatches(t.entries[i].name, name)
<1> DEFINE found == {i \in DOMAIN t.entries :
                       /\ t.entries[i].addr \in V4
                       /\ IfnameMatches(t.entries[i].name, name)}
<1>1. found \in SUBSET Nat
  BY EntryType
<1>2. CASE found = {}
  BY <1>2 DEF FirstV4
<1>3. CASE found # {}
  <2>1. FirstOf(found) \in found
    BY <1>1, <1>3, FirstOfIn
  <2>2. FirstV4(t, name) = t.entries[FirstOf(found)].addr
    BY <1>3 DEF FirstV4
  <2>3. QED
    BY <2>1, <2>2
<1>4. QED
  BY <1>2, <1>3

\* OwnerName names the interface of an entry with the address, unless there is
\* none or the one it looks at has no name.
LEMMA OwnerNameFinds ==
  ASSUME NEW t \in Table, NEW addr
  PROVE  \/ /\ OwnerName(t, addr) = None
            /\ \/ \A i \in DOMAIN t.entries : t.entries[i].addr # addr
               \/ \E i \in DOMAIN t.entries :
                    t.entries[i].addr = addr /\ t.entries[i].name.base = Empty
         \/ \E i \in DOMAIN t.entries :
              /\ t.entries[i].addr = addr
              /\ OwnerName(t, addr) = [base |-> t.entries[i].name.base, unit |-> 0]
              /\ OwnerName(t, addr) # None /\ OwnerName(t, addr) # EmptyName
<1> DEFINE owners == {i \in DOMAIN t.entries : t.entries[i].addr = addr}
           first == FirstOf(owners)
           owner == BaseIfname(t.entries[first].name)
<1>1. owners \in SUBSET Nat
  BY EntryType
<1>2. CASE owners = {}
  BY <1>2 DEF OwnerName
<1>3. CASE owners # {}
  <2>1. first \in owners
    BY <1>1, <1>3, FirstOfIn
  <2> HIDE DEF first
  <2>2. /\ t.entries[first].name \in Name
        /\ t.entries[first].name = [base |-> t.entries[first].name.base,
                                    unit |-> t.entries[first].name.unit]
    BY <2>1, EntryType
  <2>3. owner = [base |-> t.entries[first].name.base, unit |-> 0]
    BY <2>2 DEF BaseIfname, Name
  <2>4. owner # None
    BY <2>2, <2>3, InterfacesAssumption DEF Name
  <2>5. OwnerName(t, addr) = IF owner = EmptyName THEN None ELSE owner
    BY <1>3 DEF OwnerName, first
  <2>6. CASE owner = EmptyName
    <3>1. t.entries[first].name.base = Empty
      BY <2>3, <2>6 DEF EmptyName
    <3>2. QED
      BY <2>1, <2>5, <2>6, <3>1
  <2>7. CASE owner # EmptyName
    BY <2>1, <2>3, <2>4, <2>5, <2>7
  <2>8. QED
    BY <2>6, <2>7
<1>4. QED
  BY <1>2, <1>3

------------------------------------------------------------------------------
(***************************************************************************)
(* The selector.                                                           *)
(***************************************************************************)

\* A selector has a name or an address.
LEMMA SelectorType ==
  ASSUME NEW sel \in Selector
  PROVE  \/ sel.addr = None /\ sel.name \in Name /\ sel.name # None
         \/ sel.addr \in Address /\ sel.addr # None
<1>1. None \notin Address /\ None \notin Name
  BY InterfacesAssumption DEF Name
<1> HIDE DEF Name, Address
<1>2. QED
  BY <1>1 DEF Selector

\* An address that v4_addr returns is the one of the selector, or an address of
\* an interface it points at, which never is 0.0.0.0.
LEMMA V4AddrSelects ==
  ASSUME NEW t \in Tables, NEW sel \in Selector, V4Addr(t, sel) # None
  PROVE  /\ V4Addr(t, sel) \in V4
         /\ V4Addr(t, sel) = UNSPECIFIED => sel.addr = UNSPECIFIED
         /\ Selects(t, sel, TRUE, V4Addr(t, sel))
<1>1. t \in Table /\ \A i \in DOMAIN t.entries : t.entries[i].addr # UNSPECIFIED
  BY LaunchAssumption
<1>2. CASE sel.addr \in V4
  BY <1>2 DEF V4Addr, Selects
<1>3. CASE sel.addr = None
  <2>1. V4Addr(t, sel) = FirstV4(t, sel.name) /\ sel.name \in Name
    BY <1>3, Families, SelectorType DEF V4Addr
  <2>2. PICK i \in DOMAIN t.entries :
          /\ V4Addr(t, sel) = t.entries[i].addr
          /\ t.entries[i].addr \in V4
          /\ IfnameMatches(t.entries[i].name, sel.name)
    BY <1>1, <2>1, FirstV4Finds
  <2>3. i \in PointedAt(t, sel)
    BY <1>3, <2>2 DEF PointedAt, IfnameMatches
  <2>4. V4Addr(t, sel) \in V4OnInterface(t, i)
    BY <2>2 DEF V4OnInterface
  <2>5. QED
    BY <1>1, <2>2, <2>3, <2>4 DEF Selects
<1>4. CASE sel.addr \notin V4 /\ sel.addr # None
  <2> DEFINE owner == OwnerName(t, sel.addr)
  <2>1. owner # None /\ V4Addr(t, sel) = FirstV4(t, owner)
    BY <1>4 DEF V4Addr
  <2>2. PICK i \in DOMAIN t.entries :
          t.entries[i].addr = sel.addr /\ owner = [base |-> t.entries[i].name.base, unit |-> 0]
    BY <1>1, <2>1, OwnerNameFinds
  <2>3. PICK j \in DOMAIN t.entries :
          /\ V4Addr(t, sel) = t.entries[j].addr
          /\ t.entries[j].addr \in V4
          /\ IfnameMatches(t.entries[j].name, owner)
    BY <1>1, <2>1, FirstV4Finds
  <2>4. i \in PointedAt(t, sel)
    BY <1>4, <2>2 DEF PointedAt
  <2>5. t.entries[j].name.base = t.entries[i].name.base
    BY <2>2, <2>3 DEF IfnameMatches
  <2>6. V4Addr(t, sel) \in V4OnInterface(t, i)
    BY <2>3, <2>5 DEF V4OnInterface
  <2>7. QED
    BY <1>1, <2>3, <2>4, <2>6 DEF Selects
<1>5. QED
  BY <1>2, <1>3, <1>4

\* When v4_addr returns no address, the selector leads nowhere.
LEMMA V4AddrFails ==
  ASSUME NEW t \in Tables, NEW sel \in Selector, V4Addr(t, sel) = None
  PROVE  LeadsNowhere(t, sel, TRUE)
<1>1. t \in Table
  BY LaunchAssumption
<1>2. sel.addr \notin V4
  BY Families DEF V4Addr
<1>3. CASE sel.addr = None
  <2>1. FirstV4(t, sel.name) = None /\ sel.name \in Name
    BY <1>2, <1>3, SelectorType DEF V4Addr
  <2>2. \A i \in DOMAIN t.entries :
          t.entries[i].addr \in V4 => ~IfnameMatches(t.entries[i].name, sel.name)
    BY <1>1, <2>1, FirstV4Finds, Families
  <2>3. ASSUME NEW i \in PointedAt(t, sel), sel.name # EmptyName, t.entries[i].addr \in V4
        PROVE  FALSE
    <3>1. /\ i \in DOMAIN t.entries /\ t.entries[i].name.base = sel.name.base
          /\ sel.name.unit \in {0, t.entries[i].name.unit}
      BY <1>3, <2>3 DEF PointedAt
    <3>2. t.entries[i].name = sel.name \/ sel.name.unit = 0
      <4>1. t.entries[i].name = [base |-> t.entries[i].name.base, unit |-> t.entries[i].name.unit]
        BY <1>1, <3>1, EntryType
      <4>2. sel.name = [base |-> sel.name.base, unit |-> sel.name.unit]
        BY <2>1 DEF Name
      <4>3. QED
        BY <3>1, <4>1, <4>2
    <3>3. QED
      BY <2>2, <2>3, <3>1, <3>2 DEF IfnameMatches
  <2>4. QED
    BY <1>3, <2>3 DEF LeadsNowhere
<1>4. CASE sel.addr # None /\ OwnerName(t, sel.addr) = None
  <2>1. \/ \A i \in DOMAIN t.entries : t.entries[i].addr # sel.addr
        \/ \E i \in DOMAIN t.entries :
             t.entries[i].addr = sel.addr /\ t.entries[i].name.base = Empty
    BY <1>1, <1>4, OwnerNameFinds
  <2>2. QED
    BY <1>4, <2>1 DEF LeadsNowhere, PointedAt
<1>5. CASE sel.addr # None /\ OwnerName(t, sel.addr) # None
  <2> DEFINE owner == OwnerName(t, sel.addr)
  <2>1. FirstV4(t, owner) = None
    BY <1>2, <1>5 DEF V4Addr
  <2>2. PICK i \in DOMAIN t.entries :
          /\ t.entries[i].addr = sel.addr
          /\ owner = [base |-> t.entries[i].name.base, unit |-> 0] /\ owner # EmptyName
    BY <1>1, <1>5, OwnerNameFinds
  <2>3. \A j \in DOMAIN t.entries : t.entries[j].addr \in V4 => ~IfnameMatches(t.entries[j].name, owner)
    BY <1>1, <2>1, FirstV4Finds, Families
  <2>4. V4OnInterface(t, i) = {}
    BY <2>2, <2>3 DEF V4OnInterface, IfnameMatches
  <2>5. QED
    BY <1>5, <2>2, <2>4 DEF LeadsNowhere, PointedAt
<1>6. QED
  BY <1>3, <1>4, <1>5

\* An index that if_nametoindex returns is the one of the name that was given or
\* of an interface with the address.
LEMMA IndexSelects ==
  ASSUME NEW t \in Tables, NEW sel \in Selector,
         NameToLookUp(t, sel) # None,
         IfnameToIndex(t, NameToLookUp(t, sel)) # 0
  PROVE  Selects(t, sel, FALSE, IfnameToIndex(t, NameToLookUp(t, sel)))
<1> DEFINE name == NameToLookUp(t, sel)
<1>1. t \in Table
  BY LaunchAssumption
<1>2. IfnameToIndex(t, name) = t.index[name.base]
  BY DEF IfnameToIndex
<1>3. CASE sel.addr = None
  BY <1>2, <1>3 DEF NameToLookUp, Selects
<1>4. CASE sel.addr # None
  <2>1. PICK i \in DOMAIN t.entries :
          /\ t.entries[i].addr = sel.addr
          /\ name = [base |-> t.entries[i].name.base, unit |-> 0]
    BY <1>1, <1>4, OwnerNameFinds DEF NameToLookUp
  <2>2. i \in PointedAt(t, sel)
    BY <1>4, <2>1 DEF PointedAt
  <2>3. IfnameToIndex(t, name) = t.index[t.entries[i].name.base]
    BY <1>2, <2>1
  <2>4. QED
    BY <2>2, <2>3 DEF Selects
<1>5. QED
  BY <1>3, <1>4

\* When there is no name to look up or no index for it, the selector leads nowhere.
LEMMA IndexFails ==
  ASSUME NEW t \in Tables, NEW sel \in Selector,
         \/ NameToLookUp(t, sel) \in {None, EmptyName}
         \/ IfnameToIndex(t, NameToLookUp(t, sel)) = 0
  PROVE  LeadsNowhere(t, sel, FALSE)
<1>1. t \in Table
  BY LaunchAssumption
<1>2. CASE sel.addr = None
  <2>1. sel.name # None
    BY <1>2, SelectorType
  <2>2. QED
    BY <1>2, <2>1 DEF NameToLookUp, LeadsNowhere
<1>3. CASE sel.addr # None
  <2> DEFINE owner == OwnerName(t, sel.addr)
  <2>1. NameToLookUp(t, sel) = owner
    BY <1>3 DEF NameToLookUp
  <2>2. CASE owner = None
    BY <1>1, <1>3, <2>2, OwnerNameFinds DEF LeadsNowhere, PointedAt
  <2>3. CASE owner # None
    <3>1. PICK i \in DOMAIN t.entries :
            /\ t.entries[i].addr = sel.addr
            /\ owner = [base |-> t.entries[i].name.base, unit |-> 0] /\ owner # EmptyName
      BY <1>1, <2>3, OwnerNameFinds
    <3>2. IfnameToIndex(t, owner) = 0 /\ t.entries[i].name \in Name
      BY <1>1, <2>1, <2>3, <3>1, EntryType
    <3>3. t.entries[i].name.base = Empty \/ t.index[t.entries[i].name.base] = 0
      BY <3>1, <3>2 DEF IfnameToIndex, Name
    <3>4. QED
      BY <1>3, <3>1, <3>3 DEF LeadsNowhere, PointedAt
  <2>4. QED
    BY <2>2, <2>3
<1>4. QED
  BY <1>2, <1>3

------------------------------------------------------------------------------
(***************************************************************************)
(* What the command line and the steps give.                               *)
(***************************************************************************)

\* The parts of the command line.
LEMMA ArgsType ==
  ASSUME args \in Args
  PROVE  /\ args.transport \in {"Tcp", "Udp"} /\ args.role \in {"Client", "Server"}
         /\ args.addr \in Address /\ args.scope \in Nat /\ args.sources \subseteq Address
         /\ args.iface # None => args.iface \in Selector
         /\ args.role = "Client" => args.sources = {}
<1> HIDE DEF Address, Selector
<1>1. args \in CommandLine
  BY LaunchAssumption
<1>2. QED
  BY <1>1, LaunchAssumption DEF CommandLine

\* What main and Server::validate have made sure of.
LEMMA Admitted ==
  ASSUME args \in Args, Admits(args)
  PROVE  /\ Multicast => args.transport = "Udp"
         /\ args.role = "Server" =>
              /\ IsSsmMulticast(args.addr) => ValidateSsmDestination(args.addr) /\ args.sources # {}
              /\ args.sources # {} => Multicast /\ args.iface # None
         /\ FamilySources = args.sources
<1>1. args.role = "Client" => args.sources = {}
  BY ArgsType
<1>2. args.role \in {"Client", "Server"} /\ args.transport \in {"Tcp", "Udp"}
  BY ArgsType
<1>3. QED
  BY <1>1, <1>2 DEF Admits, Validates, FamilySources, Multicast, OverV4

\* However the interface is found, it is one of the family, not the kernel's
\* choice if there is a selector, and on unchanged interfaces the selected one.
LEMMA IfaceFound ==
  ASSUME TypeOK, PhaseInv, HostInv, LeaveIfaceToKernel \/ ResolveV4Addr \/ LookUpIndex
  PROVE  \E value \in Iface :
           /\ HaveIface(value)
           /\ pc \in {"resolve", "lookup"}
           /\ value # None
           /\ args.iface # None =>
                /\ IF OverV4 THEN value = UNSPECIFIED => args.iface.addr = UNSPECIFIED
                   ELSE value # 0
                /\ changes = 0 => Selects(table, args.iface, OverV4, value)
<1>1. /\ args.iface # None => args.iface \in Selector
      /\ table \in Tables /\ table \in Table
  BY ArgsType, LaunchAssumption DEF TypeOK
<1>2. CASE LeaveIfaceToKernel
  <2> DEFINE value == KernelsChoice
  <2>1. HaveIface(value) /\ pc = "resolve" /\ args.iface = None
    BY <1>2 DEF LeaveIfaceToKernel
  <2>2. value \in Iface /\ value # None
    BY Families DEF Iface, KernelsChoice
  <2> HIDE DEF value
  <2>3. QED
    BY <2>1, <2>2
<1>3. CASE ResolveV4Addr
  <2> DEFINE value == V4Addr(table, args.iface)
  <2>1. HaveIface(value) /\ pc = "resolve" /\ args.iface # None /\ OverV4 /\ value # None
    BY <1>3 DEF ResolveV4Addr
  <2>2. /\ value \in V4
        /\ value = UNSPECIFIED => args.iface.addr = UNSPECIFIED
        /\ Selects(table, args.iface, TRUE, value)
    BY <1>1, <2>1, V4AddrSelects
  <2> HIDE DEF value
  <2>3. value \in Iface
    BY <2>1, <2>2 DEF Iface
  <2>4. Selects(table, args.iface, OverV4, value)
    BY <2>1, <2>2 DEF Selects
  <2>5. QED
    BY <2>1, <2>2, <2>3, <2>4
<1>4. CASE LookUpIndex
  <2> DEFINE value == IfnameToIndex(table, ifname)
  <2>1. HaveIface(value) /\ pc = "lookup" /\ value # 0
    BY <1>4 DEF LookUpIndex
  <2>2. ~OverV4 /\ args.iface # None
    BY <2>1 DEF PhaseInv
  <2>3. value \in Nat
    BY <1>1 DEF IfnameToIndex, Table
  <2>4. ASSUME changes = 0
        PROVE  Selects(table, args.iface, OverV4, value)
    <3>1. ifname = NameToLookUp(table, args.iface) /\ ifname # None
      BY <2>1, <2>4 DEF HostInv
    <3>2. Selects(table, args.iface, FALSE, value)
      BY <1>1, <2>1, <2>2, <3>1, IndexSelects
    <3>3. QED
      BY <2>2, <3>2 DEF Selects
  <2> HIDE DEF value
  <2>5. value \in Iface /\ value # None
    BY <2>2, <2>3, Families DEF Iface
  <2>6. QED
    BY <2>1, <2>2, <2>4, <2>5
<1>5. QED
  BY <1>2, <1>3, <1>4

------------------------------------------------------------------------------
(***************************************************************************)
(* The inductive invariant, part by part.                                  *)
(***************************************************************************)

\* The state a run starts in.
LEMMA LaunchInit == Init => LaunchInv
<1> SUFFICES ASSUME Init PROVE LaunchInv
  OBVIOUS
<1>1. TypeOK
  <2>1. iface \in Iface /\ out \in Iface
    BY DEF Init, Iface
  <2>2. changes \in 0 .. MaxChanges
    BY LaunchAssumption DEF Init
  <2>3. QED
    BY <2>1, <2>2 DEF Init, TypeOK
<1>2. PhaseInv /\ JoinInv /\ ZoneInv /\ HostInv
  BY DEF Init, PhaseInv, JoinInv, ZoneInv, HostInv
<1>3. IfaceInv
  BY Families DEF Init, IfaceInv
<1>4. SsmNeedsNoZone /\ UsesSelectedInterface /\ UnresolvedForCause
  BY DEF Init, SsmNeedsNoZone, UsesSelectedInterface, UnresolvedForCause
<1>5. QED
  BY <1>1, <1>2, <1>3, <1>4 DEF LaunchInv

\* The arguments stay, and with them what is read off them.
LEMMA ArgsStay ==
  ASSUME [Next]_vars
  PROVE  /\ args' = args
         /\ Multicast' = Multicast /\ OverV4' = OverV4
         /\ FamilySources' = FamilySources /\ Iface' = Iface
<1>1. args' = args
  BY DEF Next, vars, localVars, LaunchStep, Main, OpenSocket, SetOptions,
         LeaveIfaceToKernel, ResolveV4Addr, ResolveName, LookUpIndex, HaveIface, Unresolved,
         SetOutgoing, Bind, JoinAnySource, JoinSourceV4, JoinSourcesV6,
         SetReadTimeout, Connect, Listen, CallFails, LoopEnds, HostChanges
<1>2. QED
  BY <1>1 DEF Multicast, OverV4, FamilySources, Iface

\* Calls are reached by the command lines the code sends there.
LEMMA PhaseStep == TypeOK /\ PhaseInv /\ [Next]_vars => PhaseInv'
<1> SUFFICES ASSUME TypeOK, PhaseInv, [Next]_vars PROVE PhaseInv'
  OBVIOUS
<1>1. /\ args \in Args /\ args' = args /\ Multicast' = Multicast /\ OverV4' = OverV4
      /\ args.role \in {"Client", "Server"} /\ args.transport \in {"Tcp", "Udp"}
      /\ pc \notin {"start", "rejected"} => (Multicast => args.transport = "Udp")
  BY ArgsStay, ArgsType, Admitted DEF TypeOK, PhaseInv
<1> USE DEF PhaseInv
<1>2. CASE Main
  BY <1>1, <1>2 DEF Main
<1>3. CASE OpenSocket
  BY <1>1, <1>3 DEF OpenSocket
<1>4. CASE SetOptions
  BY <1>1, <1>4 DEF SetOptions
<1>5. CASE LeaveIfaceToKernel \/ ResolveV4Addr \/ LookUpIndex
  <2>1. pc \in {"resolve", "lookup"} /\ pc' = Resolved
    BY <1>5 DEF LeaveIfaceToKernel, ResolveV4Addr, LookUpIndex, HaveIface
  <2>2. QED
    BY <1>1, <2>1 DEF Resolved
<1>6. CASE ResolveName
  BY <1>1, <1>6 DEF ResolveName
<1>7. CASE SetOutgoing
  BY <1>1, <1>7 DEF SetOutgoing
<1>8. CASE Bind
  BY <1>1, <1>8 DEF Bind
<1>9. CASE JoinAnySource \/ JoinSourcesV6 \/ \E s \in todo : JoinSourceV4(s)
  BY <1>1, <1>9 DEF JoinAnySource, JoinSourceV4, JoinSourcesV6
<1>10. CASE SetReadTimeout \/ Connect \/ Listen
  BY <1>1, <1>10 DEF SetReadTimeout, Connect, Listen
<1>11. CASE Unresolved \/ CallFails \/ LoopEnds
  <2>1. pc \notin {"start", "rejected"} /\ pc' \in {"unresolved", "failed", "ended"}
    BY <1>11 DEF Unresolved, CallFails, LoopEnds
  <2>2. QED
    BY <1>1, <2>1
<1>12. CASE HostChanges \/ UNCHANGED vars
  <2>1. UNCHANGED <<pc, args>>
    BY <1>12 DEF HostChanges, vars, localVars
  <2>2. QED
    BY <1>1, <2>1
<1>13. QED
  BY <1>2, <1>3, <1>4, <1>5, <1>6, <1>7, <1>8, <1>9, <1>10, <1>11, <1>12 DEF Next, LaunchStep

\* The memberships are on the one interface, and the sources are joined whole
\* before the run goes on.
LEMMA JoinStep == TypeOK /\ PhaseInv /\ HostInv /\ JoinInv /\ [Next]_vars => JoinInv'
<1> SUFFICES ASSUME TypeOK, PhaseInv, HostInv, JoinInv, [Next]_vars PROVE JoinInv'
  OBVIOUS
<1>0. \A on, s : /\ Member(on, s).group = args.addr
                 /\ Member(on, s).on = on /\ Member(on, s).source = s
  BY DEF Member
<1>1. /\ args \in Args /\ args' = args /\ OverV4' = OverV4 /\ FamilySources' = FamilySources
      /\ args.role = "Client" => args.sources = {}
      /\ pc \notin {"start", "rejected"} => FamilySources = args.sources
  BY ArgsStay, ArgsType, Admitted DEF TypeOK, PhaseInv
<1>2. SourcesAsked(args)' = SourcesAsked(args)
  BY <1>1 DEF SourcesAsked
<1>3. /\ Multicast <=> IsMulticast(args.addr)
      /\ SourcesAsked(args) =
           IF args.transport = "Tcp" \/ args.role = "Client" \/ ~Multicast THEN {}
           ELSE IF args.sources = {} THEN {AnySource} ELSE args.sources
  BY DEF Multicast, SourcesAsked
<1>4. members = {} => SourcesJoined = {}
  BY DEF SourcesJoined
<1> USE DEF JoinInv
<1>5. ASSUME UNCHANGED members, members = {}, pc' \notin {"join", "timeout", "loop"}
      PROVE  JoinInv'
  BY <1>5
<1>6. CASE Main \/ ResolveName
  BY <1>5, <1>6 DEF Main, ResolveName
<1>7. CASE OpenSocket
  <2>1. args.role \in {"Client", "Server"} /\ args.transport \in {"Tcp", "Udp"}
    BY <1>1, ArgsType
  <2>2. pc = "socket" /\ pc' \in {"resolve", "bind", "options", "connect"} /\ UNCHANGED members
    BY <1>7, <2>1 DEF OpenSocket
  <2>3. QED
    BY <1>5, <2>2
<1>8. CASE SetOptions
  <2>1. /\ UNCHANGED members /\ pc = "options" /\ pc' \in {"resolve", "loop"}
        /\ args.role = "Client" /\ members = {}
    BY <1>8 DEF SetOptions, PhaseInv
  <2>2. SourcesJoined' = {} /\ SourcesAsked(args)' = {}
    BY <1>2, <1>3, <2>1 DEF SourcesJoined
  <2>3. QED
    BY <2>1, <2>2
<1>9. CASE LeaveIfaceToKernel \/ ResolveV4Addr \/ LookUpIndex
  <2>1. PICK value \in Iface : HaveIface(value) /\ pc \in {"resolve", "lookup"}
    BY <1>9, IfaceFound
  <2>2. members = {} /\ UNCHANGED members /\ SourcesJoined' = {}
    BY <2>1 DEF HaveIface, SourcesJoined
  <2>3. pc' \in {"outif", "join", "bind"} /\ (pc' = "join" => args.role = "Server" /\ OverV4)
    <3>1. args.role \in {"Client", "Server"}
      BY <1>1, ArgsType
    <3>2. QED
      BY <2>1, <3>1 DEF HaveIface, Resolved
  <2>4. pc' = "join" => todo' = FamilySources
    BY <2>1, <2>3 DEF HaveIface
  <2>5. QED
    BY <1>1, <2>2, <2>3, <2>4
<1>10. CASE SetOutgoing \/ Connect
  <2>1. UNCHANGED members /\ pc \in {"outif", "connect"} /\ pc' = "loop"
    BY <1>10 DEF SetOutgoing, Connect
  <2>2. members = {} /\ args.role = "Client"
    BY <2>1 DEF PhaseInv
  <2>3. SourcesJoined' = {} /\ SourcesAsked(args)' = {}
    BY <1>2, <1>3, <2>1, <2>2 DEF SourcesJoined
  <2>4. QED
    BY <2>1, <2>2, <2>3
<1>11. CASE Bind
  <2>1. UNCHANGED members /\ pc = "bind" /\ members = {} /\ SourcesJoined' = {}
    BY <1>11 DEF Bind, SourcesJoined
  <2>2. /\ pc' \in {"listen", "timeout", "resolve", "join"}
        /\ pc' = "timeout" => ~Multicast
        /\ pc' = "join" => ~OverV4
    <3>1. args.transport \in {"Tcp", "Udp"}
      BY <1>1, ArgsType
    <3>2. QED
      BY <1>11, <3>1 DEF Bind
  <2>3. pc' = "timeout" => SourcesAsked(args)' = {}
    BY <1>2, <1>3, <2>2
  <2>4. QED
    BY <1>1, <2>1, <2>2, <2>3
<1>12. CASE JoinAnySource
  <2>1. /\ pc = "join" /\ pc' = "timeout" /\ FamilySources = {} /\ iface' = iface
        /\ members' = {Member(iface, AnySource)}
    BY <1>12 DEF JoinAnySource, localVars
  <2>2. args.role = "Server" /\ Multicast /\ args.transport = "Udp" /\ args.sources = {}
    BY <1>1, <2>1 DEF PhaseInv
  <2>3. SourcesAsked(args)' = {AnySource}
    BY <1>2, <1>3, <2>2
  <2>4. SourcesJoined' = {AnySource} /\ \A m \in members' : m.group = args.addr /\ m.on = iface
    BY <1>0, <2>1 DEF SourcesJoined
  <2>5. QED
    BY <1>1, <2>1, <2>3, <2>4
<1>13. ASSUME NEW s \in todo, JoinSourceV4(s) PROVE JoinInv'
  <2>1. /\ pc = "join" /\ OverV4 /\ iface' = iface
        /\ members' = members \cup {Member(iface, s)}
        /\ todo' = todo \ {s}
        /\ pc' = IF todo' = {} THEN "timeout" ELSE "join"
    BY <1>13 DEF JoinSourceV4
  <2>2. /\ SourcesJoined \subseteq FamilySources \ todo /\ todo \subseteq FamilySources
        /\ ~lost => SourcesJoined = FamilySources \ todo
        /\ lost' = lost
    BY <1>13, <2>1 DEF JoinSourceV4, hostVars
  <2>3. SourcesJoined' = SourcesJoined \cup {s}
    BY <1>0, <2>1 DEF SourcesJoined
  <2>4. /\ SourcesJoined' \subseteq FamilySources \ todo'
        /\ ~lost' => SourcesJoined' = FamilySources \ todo'
    BY <2>1, <2>2, <2>3
  <2>5. \A m \in members' : m.group = args.addr /\ m.on = iface
    BY <1>0, <2>1
  <2>6. args.role = "Server" /\ Multicast /\ args.transport = "Udp" /\ FamilySources = args.sources
    BY <1>1, <2>1 DEF PhaseInv
  <2>7. args.sources # {}
    BY <2>2, <2>6
  <2>8. SourcesAsked(args)' = FamilySources
    BY <1>2, <1>3, <2>6, <2>7
  <2>9. QED
    BY <1>1, <2>1, <2>2, <2>4, <2>5, <2>8
<1>14. CASE JoinSourcesV6
  <2>1. /\ pc = "join" /\ pc' = "timeout" /\ FamilySources # {} /\ iface' = iface
        /\ members' = {Member(iface, s) : s \in FamilySources}
    BY <1>14 DEF JoinSourcesV6, localVars
  <2>2. args.role = "Server" /\ Multicast /\ args.transport = "Udp" /\ args.sources # {}
    BY <1>1, <2>1 DEF PhaseInv
  <2>3. SourcesAsked(args)' = FamilySources
    BY <1>1, <1>2, <1>3, <2>1, <2>2
  <2>4. SourcesJoined' = FamilySources /\ \A m \in members' : m.group = args.addr /\ m.on = iface
    BY <1>0, <2>1 DEF SourcesJoined
  <2>5. QED
    BY <1>1, <2>1, <2>3, <2>4
<1>15. CASE SetReadTimeout
  <2>1. UNCHANGED <<members, iface, lost>> /\ pc = "timeout" /\ pc' = "loop"
    BY <1>15 DEF SetReadTimeout, localVars, hostVars
  <2>2. QED
    BY <1>1, <1>2, <2>1 DEF SourcesJoined
<1>16. CASE Listen
  <2>1. UNCHANGED members /\ pc = "listen" /\ pc' = "loop" /\ members = {}
    BY <1>16 DEF Listen
  <2>2. SourcesJoined' = {} /\ SourcesAsked(args)' = {}
    BY <1>2, <1>3, <2>1 DEF SourcesJoined, PhaseInv
  <2>3. QED
    BY <2>1, <2>2
<1>17. CASE Unresolved \/ CallFails \/ LoopEnds
  BY <1>17 DEF Unresolved, CallFails, LoopEnds
<1>18. CASE HostChanges \/ UNCHANGED vars
  <2>1. /\ UNCHANGED <<pc, iface, todo>>
        /\ \/ UNCHANGED <<members, lost>>
           \/ members' = {} /\ lost' = (lost \/ members # {})
    BY <1>18 DEF HostChanges, vars, localVars, hostVars
  <2>2. CASE UNCHANGED <<members, lost>>
    BY <1>1, <1>2, <2>1, <2>2 DEF SourcesJoined
  <2>3. CASE members' = {} /\ lost' = (lost \/ members # {})
    <3>1. SourcesJoined' = {}
      BY <2>3 DEF SourcesJoined
    <3>2. ~lost' => ~lost /\ SourcesJoined' = SourcesJoined
      BY <1>4, <2>3, <3>1
    <3>3. QED
      BY <1>1, <1>2, <2>1, <2>3, <3>1, <3>2
  <2>4. QED
    BY <2>1, <2>2, <2>3
<1>19. QED
  BY <1>6, <1>7, <1>8, <1>9, <1>10, <1>11, <1>12, <1>13, <1>14, <1>15, <1>16, <1>17, <1>18
     DEF Next, LaunchStep

\* The calls before the zone and the outgoing interface are known.
Early == {"start", "socket", "options", "resolve", "lookup", "outif", "bind"}

\* Most steps leave the interface, the zone and the outgoing interface alone, and
\* do not lead back.
LEMMA Elsewhere ==
  ASSUME args \in Args, [Next]_vars,
         ~(LeaveIfaceToKernel \/ ResolveV4Addr \/ LookUpIndex),
         ~(SetOptions \/ SetOutgoing \/ Bind \/ Connect)
  PROVE  /\ UNCHANGED <<iface, scope, out>>
         /\ pc' \in {"outif", "join"} => pc' = pc
         /\ pc' = "bind" => pc = "bind" \/ ~Multicast \/ OverV4
         /\ pc' \in Early => pc \in Early
         /\ pc = "rejected" => pc' = "rejected"
<1> USE DEF Early
<1>1. CASE Main
  BY <1>1 DEF Main, localVars
<1>2. CASE OpenSocket
  <2>1. args.role \in {"Client", "Server"} /\ args.transport \in {"Tcp", "Udp"}
    BY ArgsType
  <2>2. /\ pc = "socket" /\ pc' \in {"resolve", "bind", "options", "connect"}
        /\ pc' = "bind" => ~Multicast \/ OverV4
        /\ UNCHANGED <<iface, scope, out>>
    BY <1>2, <2>1 DEF OpenSocket, localVars
  <2>3. QED
    BY <2>2
<1>3. CASE ResolveName
  BY <1>3 DEF ResolveName
<1>4. CASE Unresolved \/ CallFails \/ LoopEnds
  BY <1>4 DEF Unresolved, CallFails, LoopEnds, localVars
<1>5. CASE JoinAnySource \/ JoinSourcesV6
  BY <1>5 DEF JoinAnySource, JoinSourcesV6, localVars
<1>6. ASSUME NEW s \in todo, JoinSourceV4(s)
      PROVE  /\ UNCHANGED <<iface, scope, out>>
             /\ pc = "join" /\ pc' \in {"join", "timeout"}
  BY <1>6 DEF JoinSourceV4
<1>7. CASE SetReadTimeout \/ Listen
  BY <1>7 DEF SetReadTimeout, Listen, localVars
<1>8. CASE HostChanges \/ UNCHANGED vars
  BY <1>8 DEF HostChanges, vars, localVars
<1>9. QED
  BY <1>1, <1>2, <1>3, <1>4, <1>5, <1>6, <1>7, <1>8 DEF Next, LaunchStep

\* A join or an outgoing interface always has an interface, and with a selector
\* never the kernel's choice.
LEMMA IfaceStep ==
  TypeOK /\ PhaseInv /\ HostInv /\ IfaceInv /\ [Next]_vars => IfaceInv'
<1> SUFFICES ASSUME TypeOK, PhaseInv, HostInv, IfaceInv, [Next]_vars PROVE IfaceInv'
  OBVIOUS
<1>1. /\ args \in Args /\ args' = args /\ OverV4' = OverV4 /\ Multicast' = Multicast
  BY ArgsStay DEF TypeOK
<1> USE DEF IfaceInv
<1>2. CASE LeaveIfaceToKernel \/ ResolveV4Addr \/ LookUpIndex
  <2>1. PICK value \in Iface :
          /\ HaveIface(value)
          /\ value # None
          /\ args.iface # None =>
               IF OverV4 THEN value = UNSPECIFIED => args.iface.addr = UNSPECIFIED ELSE value # 0
    BY <1>2, IfaceFound
  <2>2. iface' = value
    BY <2>1 DEF HaveIface
  <2>3. QED
    BY <1>1, <2>1, <2>2
<1>3. CASE SetOptions \/ SetOutgoing \/ Connect
  <2>1. UNCHANGED <<iface, members>> /\ pc' \in {"resolve", "loop"}
    BY <1>3 DEF SetOptions, SetOutgoing, Connect
  <2>2. QED
    BY <1>1, <2>1
<1>4. CASE Bind
  <2>1. args.transport \in {"Tcp", "Udp"}
    BY <1>1, ArgsType
  <2>2. /\ UNCHANGED <<iface, members>> /\ pc = "bind"
        /\ pc' \in {"listen", "timeout", "resolve", "join"}
        /\ pc' = "join" => Multicast /\ ~OverV4
    BY <1>4, <2>1 DEF Bind
  <2>3. QED
    BY <1>1, <2>2
<1>5. CASE ~(\/ LeaveIfaceToKernel \/ ResolveV4Addr \/ LookUpIndex
             \/ SetOptions \/ SetOutgoing \/ Bind \/ Connect)
  BY <1>1, <1>5, Elsewhere
<1>6. QED
  BY <1>2, <1>3, <1>4, <1>5

\* The zone and the outgoing interface are of the one index.
LEMMA ZoneStep ==
  TypeOK /\ PhaseInv /\ HostInv /\ ZoneInv /\ [Next]_vars => ZoneInv'
<1> SUFFICES ASSUME TypeOK, PhaseInv, HostInv, ZoneInv, [Next]_vars,
                    Multicast, ~OverV4
             PROVE  /\ pc' \in Early => scope' = 0 /\ out' = None
                    /\ scope' \in {0, iface'}
                    /\ out' \in {None, iface'}
  BY ArgsStay DEF ZoneInv, Early
<1>1. /\ args \in Args /\ args.transport \in {"Tcp", "Udp"}
      /\ pc \notin {"start", "rejected"} => args.transport = "Udp"
  BY ArgsType, Admitted DEF TypeOK, PhaseInv
<1>2. /\ pc \in Early => scope = 0 /\ out = None
      /\ scope \in {0, iface} /\ out \in {None, iface}
  BY DEF ZoneInv, Early
<1> USE DEF Early
<1>3. CASE LeaveIfaceToKernel \/ ResolveV4Addr \/ LookUpIndex
  <2>1. PICK value \in Iface : HaveIface(value) /\ pc \in {"resolve", "lookup"}
    BY <1>3, IfaceFound
  <2>2. UNCHANGED <<scope, out>>
    BY <2>1 DEF HaveIface
  <2>3. QED
    BY <1>2, <2>1, <2>2
<1>4. CASE SetOptions
  BY <1>2, <1>4 DEF SetOptions
<1>5. CASE SetOutgoing
  <2>1. V6MulticastScopeId(args.addr, iface) \in {0, iface}
    BY DEF V6MulticastScopeId
  <2>2. QED
    BY <1>2, <1>5, <2>1 DEF SetOutgoing
<1>6. CASE Bind
  <2>1. V6MulticastScopeId(args.addr, iface) \in {0, iface}
    BY DEF V6MulticastScopeId
  <2>2. /\ scope' = V6MulticastScopeId(args.addr, iface) /\ UNCHANGED <<iface, out>>
        /\ pc = "bind" /\ pc' \in {"listen", "join"}
    BY <1>1, <1>6 DEF Bind
  <2>3. QED
    BY <1>2, <2>1, <2>2
<1>7. CASE Connect
  BY <1>1, <1>7 DEF Connect, PhaseInv
<1>8. CASE ~(\/ LeaveIfaceToKernel \/ ResolveV4Addr \/ LookUpIndex
             \/ SetOptions \/ SetOutgoing \/ Bind \/ Connect)
  BY <1>1, <1>2, <1>8, Elsewhere
<1>9. QED
  BY <1>3, <1>4, <1>5, <1>6, <1>7, <1>8

\* A server on an SSM group binds without a zone.
LEMMA SsmStep == TypeOK /\ PhaseInv /\ HostInv /\ SsmNeedsNoZone /\ [Next]_vars => SsmNeedsNoZone'
<1> SUFFICES ASSUME TypeOK, PhaseInv, HostInv, SsmNeedsNoZone, [Next]_vars,
                    args.role = "Server", IsSsmMulticast(args.addr), pc' # "rejected"
             PROVE  scope' = 0
  BY ArgsStay DEF SsmNeedsNoZone
<1>1. args \in Args /\ args.addr \in Address /\ Multicast
  BY ArgsType, SsmIsMulticast DEF TypeOK, Multicast
<1>2. CASE LeaveIfaceToKernel \/ ResolveV4Addr \/ LookUpIndex
  <2>1. PICK value \in Iface : HaveIface(value) /\ pc \in {"resolve", "lookup"}
    BY <1>2, IfaceFound
  <2>2. QED
    BY <2>1 DEF HaveIface, SsmNeedsNoZone
<1>3. CASE SetOptions \/ SetOutgoing \/ Connect
  BY <1>3 DEF SetOptions, SetOutgoing, Connect, PhaseInv
<1>4. CASE Bind
  <2>1. pc = "bind" /\ ValidateSsmDestination(args.addr)
    BY <1>1, <1>4, Admitted DEF Bind, PhaseInv
  <2>2. CASE OverV4
    BY <1>4, <2>2 DEF Bind
  <2>3. CASE ~OverV4
    <3>1. LowNibble(args.addr.part[1]) \notin {0, 1, 2}
      BY <2>1, <2>3 DEF ValidateSsmDestination, OverV4
    <3>2. V6MulticastScopeId(args.addr, iface) = 0
      BY <3>1 DEF V6MulticastScopeId
    <3>3. QED
      BY <1>1, <1>4, <2>3, <3>2 DEF Bind
  <2>4. QED
    BY <2>2, <2>3
<1>5. CASE ~(\/ LeaveIfaceToKernel \/ ResolveV4Addr \/ LookUpIndex
             \/ SetOptions \/ SetOutgoing \/ Bind \/ Connect)
  BY <1>1, <1>5, Elsewhere DEF SsmNeedsNoZone
<1>6. QED
  BY <1>2, <1>3, <1>4, <1>5

\* The name that is about to be looked up is the one the list gave.
LEMMA HostStep == TypeOK /\ HostInv /\ [Next]_vars => HostInv'
<1> SUFFICES ASSUME TypeOK, HostInv, [Next]_vars, changes' = 0, pc' = "lookup"
             PROVE  ifname' = NameToLookUp(table', args.iface) /\ ifname' \notin {None, EmptyName}
  BY ArgsStay DEF HostInv
<1>1. CASE ResolveName
  BY <1>1 DEF ResolveName, hostVars
<1>2. CASE UNCHANGED vars
  BY <1>2 DEF vars, localVars, hostVars, HostInv
<1>3. CASE HostChanges
  <2>1. changes \in Nat /\ changes' = changes + 1
    BY <1>3 DEF HostChanges, TypeOK
  <2>2. QED
    BY <2>1
<1>4. CASE OpenSocket
  <2>1. args.role \in {"Client", "Server"} /\ args.transport \in {"Tcp", "Udp"}
    BY ArgsType DEF TypeOK
  <2>2. QED
    BY <1>4, <2>1 DEF OpenSocket
<1>5. CASE Bind
  <2>1. args.transport \in {"Tcp", "Udp"}
    BY ArgsType DEF TypeOK
  <2>2. QED
    BY <1>5, <2>1 DEF Bind
<1>6. CASE LeaveIfaceToKernel \/ ResolveV4Addr \/ LookUpIndex
  BY <1>6 DEF LeaveIfaceToKernel, ResolveV4Addr, LookUpIndex, HaveIface, Resolved
<1>7. CASE \/ Main \/ SetOptions \/ Unresolved \/ SetOutgoing
           \/ JoinAnySource \/ (\E s \in todo : JoinSourceV4(s)) \/ JoinSourcesV6
           \/ SetReadTimeout \/ Connect \/ Listen \/ CallFails \/ LoopEnds
  BY <1>7 DEF Main, SetOptions, Unresolved, SetOutgoing, JoinAnySource, JoinSourceV4,
              JoinSourcesV6, SetReadTimeout, Connect, Listen, CallFails, LoopEnds
<1>8. QED
  BY <1>1, <1>2, <1>3, <1>4, <1>5, <1>6, <1>7 DEF Next, LaunchStep

\* While the interfaces stay, the interface in use is one the selector points at,
\* and only a selector that leads nowhere is turned away.
LEMMA SelectStep ==
  /\ TypeOK /\ PhaseInv /\ HostInv /\ UsesSelectedInterface /\ UnresolvedForCause
  /\ [Next]_vars
  => UsesSelectedInterface' /\ UnresolvedForCause'
<1> SUFFICES ASSUME TypeOK, PhaseInv, HostInv, UsesSelectedInterface, UnresolvedForCause,
                    [Next]_vars, changes' = 0
             PROVE  UsesSelectedInterface' /\ UnresolvedForCause'
  BY DEF UsesSelectedInterface, UnresolvedForCause
<1>1. /\ args \in Args /\ args' = args /\ OverV4' = OverV4
      /\ args.iface # None => args.iface \in Selector
      /\ table \in Tables
  BY ArgsStay, ArgsType DEF TypeOK
<1>2. UNCHANGED <<table, changes>> /\ (LaunchStep \/ UNCHANGED vars)
  <2>1. ~HostChanges
    <3>1. changes \in Nat
      BY DEF TypeOK
    <3>2. QED
      BY <3>1 DEF HostChanges
  <2>2. CASE LaunchStep
    BY <2>2 DEF LaunchStep, hostVars, Main, OpenSocket, SetOptions,
         LeaveIfaceToKernel, ResolveV4Addr, ResolveName, LookUpIndex, HaveIface, Unresolved,
         SetOutgoing, Bind, JoinAnySource, JoinSourceV4, JoinSourcesV6,
         SetReadTimeout, Connect, Listen, CallFails, LoopEnds
  <2>3. QED
    BY <2>1, <2>2 DEF Next, vars, hostVars
<1>3. UsesSelectedInterface'
  <2>1. CASE LeaveIfaceToKernel \/ ResolveV4Addr \/ LookUpIndex
    <3>1. PICK value \in Iface :
            /\ HaveIface(value)
            /\ args.iface # None /\ changes = 0 => Selects(table, args.iface, OverV4, value)
      BY <2>1, IfaceFound
    <3>2. iface' = value
      BY <3>1 DEF HaveIface
    <3>3. QED
      BY <1>1, <1>2, <3>1, <3>2 DEF UsesSelectedInterface
  <2>2. CASE SetOptions \/ SetOutgoing \/ Bind \/ Connect
    <3>1. UNCHANGED iface
      BY <2>2 DEF SetOptions, SetOutgoing, Bind, Connect
    <3>2. QED
      BY <1>1, <1>2, <3>1 DEF UsesSelectedInterface
  <2>3. CASE ~(\/ LeaveIfaceToKernel \/ ResolveV4Addr \/ LookUpIndex
               \/ SetOptions \/ SetOutgoing \/ Bind \/ Connect)
    <3>1. UNCHANGED iface
      BY <1>1, <2>3, Elsewhere
    <3>2. QED
      BY <1>1, <1>2, <3>1 DEF UsesSelectedInterface
  <2>4. QED
    BY <2>1, <2>2, <2>3
<1>4. UnresolvedForCause'
  <2>1. CASE Unresolved
    <3>1. CASE pc = "resolve"
      <4>1. args.iface \in Selector
        BY <1>1, <2>1, <3>1 DEF Unresolved
      <4>2. CASE OverV4
        <5>1. V4Addr(table, args.iface) = None
          BY <2>1, <3>1, <4>2 DEF Unresolved
        <5>2. LeadsNowhere(table, args.iface, TRUE)
          BY <1>1, <4>1, <5>1, V4AddrFails
        <5>3. LeadsNowhere(table, args.iface, OverV4)
          BY <4>2, <5>2 DEF LeadsNowhere
        <5>4. QED
          BY <1>1, <1>2, <5>3 DEF UnresolvedForCause
      <4>3. CASE ~OverV4
        <5>1. NameToLookUp(table, args.iface) \in {None, EmptyName}
          BY <2>1, <3>1, <4>3 DEF Unresolved
        <5>2. LeadsNowhere(table, args.iface, FALSE)
          BY <1>1, <4>1, <5>1, IndexFails
        <5>3. LeadsNowhere(table, args.iface, OverV4)
          BY <4>3, <5>2 DEF LeadsNowhere
        <5>4. QED
          BY <1>1, <1>2, <5>3 DEF UnresolvedForCause
      <4>4. QED
        BY <4>2, <4>3
    <3>2. CASE pc = "lookup"
      <4>1. ~OverV4 /\ args.iface \in Selector
        BY <1>1, <3>2 DEF PhaseInv
      <4>2. IfnameToIndex(table, NameToLookUp(table, args.iface)) = 0
        BY <1>2, <2>1, <3>2 DEF Unresolved, HostInv
      <4>3. LeadsNowhere(table, args.iface, FALSE)
        BY <1>1, <4>1, <4>2, IndexFails
      <4>4. LeadsNowhere(table, args.iface, OverV4)
        BY <4>1, <4>3 DEF LeadsNowhere
      <4>5. QED
        BY <1>1, <1>2, <4>4 DEF UnresolvedForCause
    <3>3. QED
      BY <2>1, <3>1, <3>2 DEF Unresolved
  <2>2. CASE UNCHANGED vars
    BY <2>2 DEF vars, localVars, hostVars, UnresolvedForCause, OverV4
  <2>3. CASE LaunchStep /\ ~Unresolved
    <3>1. pc' # "unresolved"
      <4>1. /\ args.role \in {"Client", "Server"} /\ args.transport \in {"Tcp", "Udp"}
        BY <1>1, ArgsType
      <4>2. QED
        BY <2>3, <4>1 DEF LaunchStep, Main, OpenSocket, SetOptions,
             LeaveIfaceToKernel, ResolveV4Addr, ResolveName, LookUpIndex, HaveIface, Resolved,
             SetOutgoing, Bind, JoinAnySource, JoinSourceV4, JoinSourcesV6,
             SetReadTimeout, Connect, Listen, CallFails, LoopEnds
    <3>2. QED
      BY <3>1 DEF UnresolvedForCause
  <2>4. QED
    BY <1>2, <2>1, <2>2, <2>3
<1>5. QED
  BY <1>3, <1>4

\* Every step keeps the types.
LEMMA LaunchTypeStep ==
  TypeOK /\ PhaseInv /\ JoinInv /\ IfaceInv /\ HostInv /\ [Next]_vars => TypeOK'
<1> SUFFICES ASSUME TypeOK, PhaseInv, JoinInv, IfaceInv, HostInv, [Next]_vars PROVE TypeOK'
  OBVIOUS
<1>1. /\ args \in Args /\ args' = args /\ OverV4' = OverV4 /\ Iface' = Iface
      /\ args.role \in {"Client", "Server"} /\ args.transport \in {"Tcp", "Udp"}
      /\ args.scope \in Nat /\ FamilySources \in SUBSET args.sources
      /\ args.iface # None => args.iface \in Selector
  BY ArgsStay, ArgsType DEF TypeOK, FamilySources
<1>2. iface' = iface => Membership' = Membership
  BY <1>1 DEF Membership
<1>3. None \in Iface /\ (~OverV4 => Iface = {None} \cup Nat)
  BY DEF Iface
<1>4. iface # None /\ ~OverV4 => V6MulticastScopeId(args.addr, iface) \in Nat
  BY <1>3 DEF V6MulticastScopeId, TypeOK
<1> USE DEF TypeOK
<1>5. CASE Main
  BY <1>1, <1>2, <1>5 DEF Main, localVars, hostVars
<1>6. CASE OpenSocket
  <2>1. pc' \in {"resolve", "bind", "options", "connect"}
    BY <1>1, <1>6 DEF OpenSocket
  <2>2. QED
    BY <1>1, <1>2, <1>6, <2>1 DEF OpenSocket, localVars, hostVars
<1>7. CASE SetOptions
  BY <1>1, <1>2, <1>7 DEF SetOptions, hostVars
<1>8. CASE LeaveIfaceToKernel \/ ResolveV4Addr \/ LookUpIndex
  <2>1. PICK value \in Iface : HaveIface(value) /\ pc \in {"resolve", "lookup"}
    BY <1>8, IfaceFound
  <2>2. members = {} /\ pc' \in {"outif", "join", "bind"} /\ todo' \in SUBSET args.sources
    BY <1>1, <2>1 DEF JoinInv, HaveIface, Resolved
  <2>3. QED
    BY <1>1, <2>1, <2>2 DEF HaveIface, hostVars
<1>9. CASE ResolveName
  <2>1. NameToLookUp(table, args.iface) \in Name
    <3>1. args.iface \in Selector /\ table \in Table
      BY <1>1, <1>9, LaunchAssumption DEF ResolveName
    <3>2. CASE args.iface.addr = None
      BY <3>1, <3>2, SelectorType DEF NameToLookUp
    <3>3. CASE args.iface.addr # None
      <4>1. PICK i \in DOMAIN table.entries :
              NameToLookUp(table, args.iface) = [base |-> table.entries[i].name.base, unit |-> 0]
        BY <1>9, <3>1, <3>3, OwnerNameFinds DEF ResolveName, NameToLookUp
      <4>2. table.entries[i].name \in Name
        BY <3>1, EntryType
      <4>3. QED
        BY <4>1, <4>2 DEF Name
    <3>4. QED
      BY <3>2, <3>3
  <2>2. QED
    BY <1>1, <1>2, <1>9, <2>1 DEF ResolveName, hostVars
<1>10. CASE Unresolved \/ CallFails \/ LoopEnds
  BY <1>1, <1>10 DEF Unresolved, CallFails, LoopEnds, localVars, hostVars
<1>11. CASE SetOutgoing
  <2>1. scope' \in Nat /\ out' \in Iface
    BY <1>1, <1>3, <1>4, <1>11 DEF SetOutgoing, IfaceInv
  <2>2. QED
    BY <1>1, <1>2, <1>11, <2>1 DEF SetOutgoing, hostVars
<1>12. CASE Bind
  <2>1. scope' \in Nat /\ pc' \in {"listen", "timeout", "resolve", "join"}
    BY <1>1, <1>4, <1>12 DEF Bind, IfaceInv
  <2>2. QED
    BY <1>1, <1>2, <1>12, <2>1 DEF Bind, hostVars
<1>13. CASE JoinAnySource
  <2>1. members' \in SUBSET Membership
    BY <1>13 DEF JoinAnySource, Member, Membership
  <2>2. QED
    BY <1>1, <1>2, <1>13, <2>1 DEF JoinAnySource, localVars, hostVars
<1>14. ASSUME NEW s \in todo, JoinSourceV4(s) PROVE TypeOK'
  <2>1. s \in args.sources /\ Member(iface, s) \in Membership
    BY DEF Member, Membership
  <2>2. QED
    BY <1>1, <1>2, <1>14, <2>1 DEF JoinSourceV4, hostVars
<1>15. CASE JoinSourcesV6
  <2>1. \A s \in FamilySources : Member(iface, s) \in Membership
    BY <1>1 DEF Member, Membership
  <2>2. QED
    BY <1>1, <1>2, <1>15, <2>1 DEF JoinSourcesV6, localVars, hostVars
<1>16. CASE SetReadTimeout \/ Listen
  BY <1>1, <1>2, <1>16 DEF SetReadTimeout, Listen, localVars, hostVars
<1>17. CASE Connect
  BY <1>1, <1>2, <1>17 DEF Connect, hostVars
<1>18. CASE HostChanges
  <2>1. changes' \in 0 .. MaxChanges
    BY <1>18, LaunchAssumption DEF HostChanges
  <2>2. lost' \in BOOLEAN /\ members' \in SUBSET Membership /\ table' \in Tables
    BY <1>18 DEF HostChanges
  <2>3. QED
    BY <1>1, <1>2, <1>18, <2>1, <2>2 DEF HostChanges, localVars
<1>19. CASE UNCHANGED vars
  BY <1>1, <1>2, <1>19 DEF vars, localVars, hostVars
<1>20. QED
  BY <1>5, <1>6, <1>7, <1>8, <1>9, <1>10, <1>11, <1>12, <1>13, <1>14, <1>15, <1>16, <1>17,
     <1>18, <1>19 DEF Next, LaunchStep

\* The inductive invariant holds of every run.
THEOREM LaunchInvariant == Spec => []LaunchInv
<1>1. LaunchInv /\ [Next]_vars => LaunchInv'
  BY LaunchTypeStep, PhaseStep, JoinStep, IfaceStep, ZoneStep, HostStep, SsmStep, SelectStep
     DEF LaunchInv
<1>2. QED
  BY LaunchInit, <1>1, PTL DEF Spec

------------------------------------------------------------------------------
(***************************************************************************)
(* The properties of the runs.                                             *)
(***************************************************************************)

\* Whoever is a member of a group is a server that was asked to be.
LEMMA MemberFacts ==
  ASSUME LaunchInv, NEW m \in members
  PROVE  /\ args \in Args /\ Admits(args) /\ args.role = "Server"
         /\ m.group = args.addr /\ m.on = iface
         /\ m.source \in IF args.sources = {} THEN {AnySource} ELSE args.sources
<1>1. TypeOK /\ PhaseInv /\ JoinInv
  BY DEF LaunchInv
<1>2. m.source \in SourcesJoined
  BY DEF SourcesJoined
<1>3. pc \in {"join", "timeout", "loop"} /\ m.group = args.addr /\ m.on = iface
  BY <1>1 DEF JoinInv
<1>4. args \in Args /\ Admits(args) /\ FamilySources = args.sources
  BY <1>1, <1>3, Admitted DEF TypeOK, PhaseInv
<1>5. CASE pc = "join"
  <2>1. OverV4 /\ SourcesJoined \subseteq FamilySources \ todo
    BY <1>1, <1>5 DEF JoinInv
  <2>2. m.source \in args.sources
    BY <1>2, <1>4, <2>1
  <2>3. QED
    BY <1>1, <1>3, <1>4, <1>5, <2>2 DEF PhaseInv
<1>6. CASE pc \in {"timeout", "loop"}
  <2>1. m.source \in SourcesAsked(args)
    BY <1>1, <1>2, <1>6 DEF JoinInv
  <2>2. args.role \in {"Client", "Server"}
    BY <1>4, ArgsType
  <2>3. QED
    BY <1>3, <1>4, <2>1, <2>2 DEF SourcesAsked
<1>7. QED
  BY <1>3, <1>5, <1>6

\* An SSM group is never joined from any source, not even between two joins.
THEOREM SsmTheorem == Spec => []SsmIsNeverAnySource
<1>1. LaunchInv => SsmIsNeverAnySource
  <2> SUFFICES ASSUME LaunchInv, NEW m \in members, IsSsmMulticast(m.group)
               PROVE  m.source # AnySource
    BY DEF SsmIsNeverAnySource
  <2>1. args.sources # {} /\ m.source \in args.sources
    BY MemberFacts, Admitted
  <2>2. args.sources \subseteq Address
    BY MemberFacts, ArgsType
  <2>3. QED
    BY <2>1, <2>2, LaunchAssumption
<1>2. QED
  BY LaunchInvariant, <1>1, PTL

\* Sources are joined on the interface the user named, never on the kernel's choice.
THEOREM PinnedTheorem == Spec => []SourcesArePinned
<1>1. LaunchInv => SourcesArePinned
  <2> SUFFICES ASSUME LaunchInv, NEW m \in members, m.source # AnySource
               PROVE  /\ args.iface # None
                      /\ IF OverV4 THEN m.on = UNSPECIFIED => args.iface.addr = UNSPECIFIED
                         ELSE m.on # 0
    BY DEF SourcesArePinned
  <2>1. args.iface # None /\ m.on = iface
    BY MemberFacts, Admitted
  <2>2. QED
    BY <2>1 DEF LaunchInv, IfaceInv
<1>2. QED
  BY LaunchInvariant, <1>1, PTL

\* The zone of the socket address, the outgoing interface and the memberships are
\* of one index, whatever the host does meanwhile.
THEOREM ZoneTheorem == Spec => []ZoneIsWhereItJoined
<1>1. LaunchInv => ZoneIsWhereItJoined
  <2>1. LaunchInv => \A m \in members : m.on = iface
    BY MemberFacts
  <2>2. QED
    BY <2>1 DEF LaunchInv, ZoneInv, ZoneIsWhereItJoined
<1>2. QED
  BY LaunchInvariant, <1>1, PTL

\* No server on an SSM group needs a zone, for every IPv6 address there is.
THEOREM SsmZoneTheorem == Spec => []SsmNeedsNoZone
<1>1. LaunchInv => SsmNeedsNoZone
  BY DEF LaunchInv
<1>2. QED
  BY LaunchInvariant, <1>1, PTL

\* On unchanged interfaces the selector becomes one it points at, for every table.
THEOREM SelectedTheorem == Spec => []UsesSelectedInterface
<1>1. LaunchInv => UsesSelectedInterface
  BY DEF LaunchInv
<1>2. QED
  BY LaunchInvariant, <1>1, PTL

\* ... and is turned away only for a cause the table shows.
THEOREM CauseTheorem == Spec => []UnresolvedForCause
<1>1. LaunchInv => UnresolvedForCause
  BY DEF LaunchInv
<1>2. QED
  BY LaunchInvariant, <1>1, PTL

------------------------------------------------------------------------------
(***************************************************************************)
(* Launch implements Receiver.                                             *)
(***************************************************************************)

\* The abstract state, as the refinement maps it.
Asked == IF Admits(args) THEN {SourcesAsked(args)} ELSE {}
Phase == IF pc = "loop" THEN "reading" ELSE IF pc \in Ended THEN "gone" ELSE "setup"
Filter == IF pc = "loop" THEN {m.source : m \in members} ELSE {}

\* Every step begins to read with the whole filter, loses some, ends, or changes nothing that
\* a receiver promises anything about.
LEMMA ReceiverStep ==
  LaunchInv /\ LaunchInv' /\ [Next]_vars => [Whole!Next]_<<Asked, Phase, Filter, lost>>
<1> SUFFICES ASSUME LaunchInv, LaunchInv', [Next]_vars
             PROVE  Whole!Next \/ UNCHANGED <<Asked, Phase, Filter, lost>>
  OBVIOUS
<1>1. args \in Args /\ args' = args /\ Asked' = Asked
  BY ArgsStay DEF LaunchInv, TypeOK, Asked
<1>2. CASE Main
  <2>1. pc = "start" /\ pc' \in {"socket", "rejected"} /\ lost' = lost
    BY <1>2 DEF Main, hostVars
  <2>2. CASE pc' = "socket"
    BY <1>1, <2>1, <2>2 DEF Phase, Filter, Ended
  <2>3. CASE pc' = "rejected"
    <3>1. Phase = "setup" /\ Phase' = "gone" /\ Filter' = {}
      BY <2>1, <2>3 DEF Phase, Filter, Ended
    <3>2. QED
      BY <1>1, <2>1, <3>1 DEF Whole!Next, Whole!End, Asked, Phase, Filter
  <2>4. QED
    BY <2>1, <2>2, <2>3
<1>3. CASE Unresolved \/ CallFails \/ LoopEnds
  <2>1. pc \notin Ended /\ pc' \in Ended /\ pc' # "loop" /\ lost' = lost
    BY <1>3 DEF Unresolved, CallFails, LoopEnds, Ended, hostVars
  <2>2. Phase # "gone" /\ Phase' = "gone" /\ Filter' = {}
    BY <2>1 DEF Phase, Filter
  <2>3. QED
    BY <1>1, <2>1, <2>2 DEF Whole!Next, Whole!End, Asked, Phase, Filter
<1>4. ASSUME pc \notin Ended, pc # "loop", pc' = "loop", lost' = lost
      PROVE  Whole!Next
  <2>1. Phase = "setup" /\ Phase' = "reading"
    BY <1>4 DEF Phase
  <2>2. Admits(args)
    BY <1>1, <1>4 DEF LaunchInv, PhaseInv
  <2>3. /\ SourcesJoined' \subseteq SourcesAsked(args)
        /\ ~lost => SourcesJoined' = SourcesAsked(args)
    BY <1>1, <1>4 DEF LaunchInv, JoinInv
  <2>4. Filter' = SourcesJoined'
    BY <1>4 DEF Filter, SourcesJoined
  <2>5. SourcesAsked(args) \in Asked
    BY <2>2 DEF Asked
  <2>6. Filter' \in IF lost THEN SUBSET SourcesAsked(args) ELSE {SourcesAsked(args)}
    BY <2>3, <2>4
  <2>7. QED
    BY <1>1, <1>4, <2>1, <2>5, <2>6 DEF Whole!Next, Whole!Begin, Asked, Phase, Filter
<1>5. ASSUME pc \notin Ended, pc # "loop", pc' \notin Ended, pc' # "loop", lost' = lost
      PROVE  UNCHANGED <<Asked, Phase, Filter, lost>>
  BY <1>1, <1>5 DEF Phase, Filter
<1>6. CASE HostChanges \/ UNCHANGED vars
  <2>1. /\ pc' = pc
        /\ \/ UNCHANGED <<members, lost>>
           \/ members' = {} /\ lost' = (lost \/ members # {})
    BY <1>6 DEF HostChanges, vars, hostVars
  <2>2. CASE UNCHANGED <<members, lost>>
    BY <1>1, <2>1, <2>2 DEF Phase, Filter
  <2>3. CASE members' = {} /\ members = {} /\ lost' = (lost \/ members # {})
    <3>1. lost \in BOOLEAN
      BY DEF LaunchInv, TypeOK
    <3>2. QED
      BY <1>1, <2>1, <2>2, <2>3, <3>1
  <2>4. CASE members' = {} /\ members # {} /\ lost' = (lost \/ members # {})
    <3>1. pc \in {"join", "timeout", "loop"}
      BY <2>4 DEF LaunchInv, JoinInv
    <3>2. Phase # "gone" /\ Phase' = Phase /\ Filter' = {} /\ lost' = TRUE
      BY <2>1, <2>4, <3>1 DEF Phase, Filter, Ended
    <3>3. Filter' \in SUBSET Filter
      BY <3>2
    <3>4. QED
      BY <1>1, <3>2, <3>3 DEF Whole!Next, Whole!Lose, Asked, Phase, Filter
  <2>5. QED
    BY <2>1, <2>2, <2>3, <2>4
<1>7. CASE LaunchStep /\ ~(Main \/ Unresolved \/ CallFails \/ LoopEnds)
  <2>1. args.role \in {"Client", "Server"} /\ args.transport \in {"Tcp", "Udp"}
    BY <1>1, ArgsType
  <2>2. pc \notin Ended /\ pc # "loop" /\ pc' \notin Ended
    BY <1>7, <2>1 DEF LaunchStep, Ended, OpenSocket, SetOptions,
         LeaveIfaceToKernel, ResolveV4Addr, ResolveName, LookUpIndex, HaveIface, Resolved,
         SetOutgoing, Bind, JoinAnySource, JoinSourceV4, JoinSourcesV6,
         SetReadTimeout, Connect, Listen
  <2>3. lost' = lost
    BY <1>7 DEF LaunchStep, OpenSocket, SetOptions,
         LeaveIfaceToKernel, ResolveV4Addr, ResolveName, LookUpIndex, HaveIface,
         SetOutgoing, Bind, JoinAnySource, JoinSourceV4, JoinSourcesV6,
         SetReadTimeout, Connect, Listen, hostVars
  <2>4. QED
    BY <1>4, <1>5, <2>2, <2>3
<1>8. QED
  BY <1>2, <1>3, <1>6, <1>7 DEF Next, LaunchStep

\* A run reads with the whole filter of its arguments or not at all, but for what
\* the host takes away with an interface: Launch implements Receiver.
THEOREM ReceiverTheorem == Spec => FilterIsWholeOrNothing
<1>1. Init => Whole!Init
  BY DEF Init, Whole!Init, Ended
<1>2. LaunchInv /\ LaunchInv' /\ [Next]_vars
        => [Whole!Next]_<<IF Admits(args) THEN {SourcesAsked(args)} ELSE {},
                          IF pc = "loop" THEN "reading" ELSE IF pc \in Ended THEN "gone" ELSE "setup",
                          IF pc = "loop" THEN {m.source : m \in members} ELSE {},
                          lost>>
  BY ReceiverStep DEF Asked, Phase, Filter
<1>3. QED
  BY LaunchInvariant, <1>1, <1>2, PTL DEF Spec, FilterIsWholeOrNothing, Whole!Spec

==============================================================================
