------------------------------ MODULE Interfaces ------------------------------
(***************************************************************************)
(* The interface selector of app/src/util.rs: --multicast-iface is a name  *)
(* or an address, and becomes an IPv4 address for an IPv4 group, an        *)
(* interface index for an IPv6 group.                                      *)
(*                                                                         *)
(* The host is external: a table has the entries of getifaddrs in order,   *)
(* and what if_nametoindex knows.  A name is a base ("net0") and a unit,   *)
(* the number of the logical interface on it ("net0:1"), 0 without one.    *)
(* Names that are no UTF-8 or hold a NUL are left out.                     *)
(***************************************************************************)
EXTENDS Addr, Sequences

CONSTANTS
  Bases,  \* the names interfaces may have
  Empty,  \* the empty string
  None

ASSUME InterfacesAssumption ==
  /\ Empty \notin Bases
  /\ None \notin Address \cup Int
  /\ None \notin [base : Bases \cup {Empty}, unit : Nat]

Name == [base : Bases \cup {Empty}, unit : Nat]
Entry == [name : Name, addr : Address \cup {None}]
Table == [entries : Seq(Entry), index : [Bases -> Nat]]

Selector == [name : Name, addr : {None}] \cup [name : {None}, addr : Address]

EmptyName == [base |-> Empty, unit |-> 0]

\* The least element of a set of positions.
FirstOf(S) == CHOOSE i \in S : \A j \in S : i <= j

\* Seeded fault: the name is used as it is in the list.
BaseIfnameKept(name) == name

\* base_ifname: the logical-interface suffix is cut off.
BaseIfname(name) == [name EXCEPT !.unit = 0]

\* owner_name: the interface of the first entry with the address.
OwnerName(table, addr) ==
  LET owners == {i \in DOMAIN table.entries : table.entries[i].addr = addr}
      owner == BaseIfname(table.entries[FirstOf(owners)].name)
  IN  IF owners = {} \/ owner = EmptyName THEN None ELSE owner

\* Seeded fault: the names are not compared.
IfnameMatchesAny(entry, name) == name # EmptyName

\* ifname_matches: the interface itself or a logical interface on it.
IfnameMatches(entry, name) ==
  /\ name # EmptyName
  /\ entry = name \/ (entry.base = name.base /\ name.unit = 0)

\* IfAddrs::v4_addr: the first IPv4 address of the interface.
FirstV4(table, name) ==
  LET found == {i \in DOMAIN table.entries :
                  /\ table.entries[i].addr \in V4
                  /\ IfnameMatches(table.entries[i].name, name)}
  IN  IF found = {} THEN None ELSE table.entries[FirstOf(found)].addr

\* InterfaceSelector::v4_addr, from one reading of the list.
V4Addr(table, sel) ==
  IF sel.addr \in V4 THEN sel.addr
  ELSE IF sel.addr = None THEN FirstV4(table, sel.name)
  ELSE IF OwnerName(table, sel.addr) = None THEN None
  ELSE FirstV4(table, OwnerName(table, sel.addr))

\* InterfaceSelector::index, first half: the name to look up.
NameToLookUp(table, sel) ==
  IF sel.addr = None THEN sel.name ELSE OwnerName(table, sel.addr)

\* InterfaceSelector::index, second half: 0 when there is none of that name.
IfnameToIndex(table, name) ==
  IF name.base \in Bases /\ name.unit = 0 THEN table.index[name.base] ELSE 0

------------------------------------------------------------------------------
(***************************************************************************)
(* What the help text of --multicast-iface says a selector means.          *)
(***************************************************************************)

\* The entries a selector points at: of the named interface, or with the address.
PointedAt(table, sel) ==
  {i \in DOMAIN table.entries :
     LET entry == table.entries[i] IN
     IF sel.addr = None
     THEN entry.name.base = sel.name.base /\ sel.name.unit \in {0, entry.name.unit}
     ELSE entry.addr = sel.addr}

\* The IPv4 addresses on the interface of entry i.
V4OnInterface(table, i) ==
  {table.entries[j].addr : j \in {k \in DOMAIN table.entries :
      /\ table.entries[k].addr \in V4
      /\ table.entries[k].name.base = table.entries[i].name.base}}

\* The value is what the selector stands for: the address itself, the index of
\* the name itself, or what the interface it points at has.
Selects(table, sel, overV4, value) ==
  \/ sel.addr \in V4 /\ overV4 /\ value = sel.addr
  \/ sel.addr = None /\ ~overV4 /\ value = table.index[sel.name.base]
  \/ \E i \in PointedAt(table, sel) :
       IF overV4 THEN value \in V4OnInterface(table, i)
       ELSE value = table.index[table.entries[i].name.base]

\* A named interface has no IPv4 address or no index; no interface has the
\* address; or one that has it has no name, no IPv4 address or no index.
LeadsNowhere(table, sel, overV4) ==
  LET points == PointedAt(table, sel)
      base(i) == table.entries[i].name.base IN
  IF sel.addr = None
  THEN \/ sel.name = EmptyName
       \/ overV4 /\ \A i \in points : table.entries[i].addr \notin V4
       \/ ~overV4 /\ IfnameToIndex(table, sel.name) = 0
  ELSE points = {} \/ \E i \in points :
         \/ base(i) = Empty
         \/ overV4 /\ V4OnInterface(table, i) = {}
         \/ ~overV4 /\ table.index[base(i)] = 0

==============================================================================
