------------------------------- MODULE MCLaunch -------------------------------
(***************************************************************************)
(* Small instances of Launch for TLC.                                      *)
(***************************************************************************)
EXTENDS Launch

CONSTANTS net0, net1

TwoBases == {net0, net1}

Ip4(a, b, c, d) == [family |-> "v4", part |-> <<a, b, c, d>>]
Ip6(a, g, h) == [family |-> "v6", part |-> <<a, 0, 0, 0, 0, 0, g, h>>]

\* Unicast addresses: a host, its two interfaces, another host and a link-local.
Host4 == Ip4(10, 0, 0, 1)
Alias4 == Ip4(10, 0, 1, 1)
Far4 == Ip4(10, 0, 9, 9)
Far4b == Ip4(10, 0, 9, 8)
AutoConf4 == Ip4(169, 254, 0, 9)
Link6 == Ip6(65152, 0, 1)
Host6 == Ip6(64768, 0, 1)
Far6 == Ip6(64768, 9, 9)
Far6b == Ip6(64768, 9, 8)

\* Groups: any-source, source-specific, its null address; for IPv6 link-local,
\* site-wide any-source, source-specific of link and of global scope.
Groups4 == {Ip4(239, 1, 1, 1), Ip4(232, 0, 0, 1), Ip4(232, 0, 0, 0)}
Groups6 == {Ip6(65282, 0, 5), Ip6(65285, 0, 5), Ip6(65330, 32768, 1), Ip6(65342, 32768, 1),
            Ip6(65342, 16384, 0)}

ByName(base, unit) == [name |-> [base |-> base, unit |-> unit], addr |-> None]
ByAddr(addr) == [name |-> None, addr |-> addr]

Selectors == {None, ByName(net0, 0), ByName(net0, 1), ByName(Empty, 0),
              ByAddr(Host4), ByAddr(UNSPECIFIED), ByAddr(Host6), ByAddr(Link6)}

SourceSets == {{}, {Far4}, {Far4, Far4b}, {Far6, Far6b}, {Far4, Far6}, {AutoConf4}}

Line(transport, role, addr, zone, sources, selector, timed) ==
  [transport |-> transport, role |-> role, addr |-> addr, scope |-> zone,
   sources |-> sources, iface |-> selector, duration |-> timed]

McArgs ==
  {Line(t, r, a, 7, {}, None, FALSE) : t \in {"Tcp", "Udp"}, r \in {"Client", "Server"},
     a \in {Host4, Host6, Ip4(239, 1, 1, 1)}}
  \cup {Line("Udp", "Client", a, 0, {}, i, FALSE) : a \in Groups4 \cup Groups6, i \in Selectors}
  \cup {Line("Udp", "Server", a, 0, s, i, TRUE) :
          a \in Groups4 \cup Groups6 \cup {Host4}, s \in SourceSets, i \in Selectors}

Listed(base, unit, addr) == [name |-> [base |-> base, unit |-> unit], addr |-> addr]

\* The address of the host is on a logical interface of net0; the link-local
\* address is on both interfaces; net1 has no IPv4 address of its own.
Before ==
  [entries |-> <<Listed(net1, 0, Link6), Listed(net1, 0, Host4), Listed(net0, 0, None),
                 Listed(net0, 1, Alias4), Listed(net0, 1, Host6), Listed(net0, 0, Link6)>>,
   index   |-> [b \in TwoBases |-> IF b = net0 THEN 1 ELSE 2]]

\* net0 was taken away and made again: other index, other addresses.
Remade ==
  [entries |-> <<Listed(net1, 0, Link6), Listed(net0, 0, Far4b), Listed(net0, 0, Host6)>>,
   index   |-> [b \in TwoBases |-> IF b = net0 THEN 3 ELSE 2]]

\* net0 is gone, and the other one has no IPv4 address.
Unplugged ==
  [entries |-> <<Listed(net1, 0, Link6)>>,
   index   |-> [b \in TwoBases |-> IF b = net0 THEN 0 ELSE 2]]

McTables == {Before, Remade, Unplugged}

==============================================================================
