# A TLA+ model of thundermuffin

thundermuffin sends muffins from one computer to another and reports how fast
they arrive and how many are lost. It is also run, many times at once, as an SMF
service that holds multicast memberships open for a zone. This directory holds
TLA+ modules translated from the code under `app/src/`, `smf/` and `xtask/`, the
TLC runs that check them on small instances, and proofs for every value of the
constants.

    tlc -config udp_timed.cfg MCUdpStream.tla     # one run
    tlapm UdpStreamProofs.tla                     # the proofs of one component

## The system

| Part | Code | State it keeps | Operations | Modelled in |
|---|---|---|---|---|
| UDP client | `udp.rs` `run_client` | sequence number, interval and total counters | send, close an interval, finish | `UdpClient` |
| UDP server | `udp.rs` `run_server` | counters, the mark `next_expected` | read, time out, account, report, finish | `UdpServer`, `LossMeter` |
| Prefix and buffer | `util.rs` | none | `put_seq`, `get_seq`, `buffer` | `UdpWire` |
| Membership service | `smf/` | script locals, joiner processes, SMF configuration | read config, spawn, wait, restart | `Joiners`, `Generations` |
| Command line | `main.rs` | none after parsing | parse a source, validate, dispatch | `Launch`, `Addr` |
| SSM | `ssm.rs` | none | classify and admit a group, IPv6 join | `Addr`, `Launch` |
| Socket set-up and joins | `udp.rs`, `tcp.rs` | the kernel's memberships of the socket | resolve, bind, join source by source, connect | `Launch`, `Receiver` |
| Interface selector | `util.rs` | a snapshot of the interface list | name or address to index or address | `Interfaces` |
| TCP client and server | `tcp.rs` | per-connection counters | connect, send, accept, receive | `TcpStream`, `Streams` |
| Packaging | `xtask/` | files under `pkg/`, which outlive a run | a pipeline of tools | `Packaging` |
| Zone image and CI | `package/`, `.github/` | none | calls of other tools | not modelled |

How they interact. Each run of the program goes through its launch (command line,
socket, interface, joins) and then into one of four loops: a UDP or TCP client
or server. A UDP client and server share only datagrams and, each through
its own `Instant`, the wall clock. Each datagram starts with the sequence number
of its sender; there is no acknowledgement and no sender identity that the
server looks at. The service starts one server process ("joiner") for each group
in its configuration and ends when the first of them ends; SMF then clears the
contract and starts it again. The sled-agent writes the configuration, then
restarts the service; the script reads it in three separate calls of `svcprop`. A TCP client and server
share a connection, which a thread of its own serves at the server.

What is hard here:

- *ordering and loss*: loss is inferred from gaps when they are seen, so late and
  repeated datagrams disturb the books; several senders interleave in one mark;
- *time*: a deadline that must be seen with no traffic (only the read timeout
  wakes the loop) and under endless traffic (no timeout ever happens);
- *boundaries*: the wrap of the counter, buffers shorter than the prefix, the
  last interval before the deadline;
- *interleaving*: the script reads while the sled-agent writes; connections are
  closed or break while they wait for accept, and while others are served;
- *partial failure*: any call of the launch may fail between two joins; sends and
  reads on a stream are partial, and may step over the buffer size;
- *stale state*: an interface is found by one look-up and used by another;
- *failure and restart*: a joiner that dies before `wait -n`, survivors that must
  be gone before the next script starts, commands of the script that fail; a
  packaging run that is killed and leaves half of its files to the next.

`PROJECT.json` lists these hazards at their lines, with the properties that would
fail if they went wrong, and with a note where no property covers one yet.

## The UDP stream

`UdpWire` has the clock and the wire; `UdpClient` and `UdpServer` extend it;
`UdpStream` composes several clients with one server (a receiver does not affect
another one).

The *network* is external and promises nothing. `wire` is the set of all
datagrams ever sent and the server may read any member at any time, again and
again: loss is never reading it, duplication reading it twice. Starting a client
again is one more sender.

The *clock* `now` counts half seconds, because 500 ms is the read timeout;
`Tick` may come between any two steps, so also while a process is blocked. The
server's loop starts at 0; a client may start before or after the first ticks.

`client[c]` holds the locals of `run_client` under their names, plus `sends`, a
history count. One iteration of its loop is `Send` (`put_seq`, increment,
`send_to`) and `Sample` (read the clock, close the interval, test the deadline):
the clock may move in between. `PutSeqPanic` and `SendError` are the ways out of
the loop that skip the report. In the server one iteration is `Expire` or
`BeginRead` (the test of the deadline), then `Receive`, `ReadTimeout` or
`ReadError`. `Receive` contains everything up to the next test of the deadline:
the counters, `Track` and the interval report (`Meter`). `first` and `got` are
history: the first number read and all numbers read. Counters that the code
keeps in 64 bits and that follow sequence numbers wrap modulo `SeqMod` as they do
in the release build, which is what the packages ship; a debug build would panic
where `loss_count` overflows, which needs a wrapped sender. Formatting of speeds
is left out; `total` and `count` are kept because properties are about them.

`LossMeter` is what the report means: a meter that knows which numbers it is
missing and tells every arrival from the others, as in order, ahead, late or
stray, and of all this reports two numbers. `UdpServer` implements it
(`CountsLikeALossMeter`) under

    state   <- silent until a number is tracked, over once the last number of all is heard
    mark    <- next_expected,   missing <- passed over and not in got
    late    <- loss_count less the missing
    inorder <- rx_count less out_of_order_count
    stray   <- out_of_order_count less the late

so the code, which keeps two counters and no set, books each arrival as the meter
does. It cannot tell a late datagram from a stray one, and neither can a reader of
the report: the two together are its out-of-order count.

| Run | Question | Bounds |
|---|---|---|
| `udp_accounting` | Do loss, arrivals and out-of-order count account for what happened, and what does a wrap of the counter do to the types and the mark? | two senders of six numbers each, a counter that wraps at five, five reads: enough for a gap that is filled late, a duplicate, a sender that is behind the other, and a sender that wraps and goes on |
| `udp_timed` | Do both loops stop, and do the reports agree with the clock? | two seconds each and six half seconds of clock, which covers a client that starts one tick late; three sends before the deadline |
| `udp_short_buffers` | What does the exit status mean when the prefix does not fit? | a client with 4 bytes, a server with 4 bytes |
| `udp_data_mode` | *violation*: `--mode data` stops after `--duration` writes | one client |
| `udp_put_seq_contract` | *violation*: `put_seq` is called with room for the prefix | a client with 4 bytes |

What they show:

- `SpanIsAccountedFor`: mark - first = loss + (rx - out_of_order), always, until
  the last sequence number of all is read. `LossBracketsMissing`: true loss <=
  reported loss <= true loss + out_of_order. So a report is never below the
  truth, and its excess is bounded by a number it prints itself.
- `CountsLikeALossMeter`: what every arrival does to the books, not only what
  they add up to. The bracket above follows from it.
- `LossIsReal`: with several senders the report, less its out-of-order count, is
  still covered by datagrams that were sent and did not arrive. The converse does
  not hold: senders in one group can hide each other's losses. The server cannot
  tell, and no doc says that it can.
- `HighWaterNeverRecedes`: because of the `max` and only because of it, a wrap or
  a late datagram does not cause gaps to be booked again.
- `FinalReportCountsEverySend`, `ClientLinesWithinTime`, `ServerLinesWithinTime`:
  every datagram sent is in the final report (for durations of at least a
  second), and however long a send or a read stalls, the lines never outnumber the
  seconds that are over. What a line covers may be less than a second: one that
  comes half a second late leaves half a second to the next.
- `TimedServerStops`, `ClientStops`, `NoReadPastDeadline`: the loops end, with no
  traffic and under constant traffic.
- `SuccessMeansTraffic`: exit status 0 says that something arrived, which a
  sender with room for the prefix has sent, and no more; with a buffer below the
  prefix a server exits 0 and knows nothing of losses.

*Fairness* (`udp_timed` only): weak fairness of the clock, of a client's send and
of its sample, and of the server's test of the deadline and its read timeout. A
running process is scheduled; `send_to` on a datagram socket does not block for
ever; the kernel ends a read that has `SO_RCVTIMEO`. Reading a datagram is not
fair, nor is starting a client: the network owes nobody anything.

*Bounds in the guards*: `MaxTime` stops the clock, `MaxSends` holds a client back
until its deadline (never beyond, so that it can see the deadline), `MaxRx` is the
number of datagrams the network delivers, `MaxStart` the last start of a client.
`MaxTime` is large enough that every deadline of the runs lies before it.

## The membership service

`Joiners` has the script (`pc`, its locals `seen`, `todo`, `pids`), the joiners,
and, external, SMF and the sled-agent. One action per command: `Start`, three
reads, `Spawn` per entry, `LoopEnds`, `WaitReturns`. Each read can fail: the two
that go through `svcprop_optional` carry on with an empty value, the port ends
the script. A joiner starts, and then joins (`Joined`), does not get through
(`Rejected`), or dies. Which of the first two is a matter of the entry *and* of the
interface (`Serves`): some entries are rejected with any interface (`Bad`, for
instance an SSM group without sources), those with sources are rejected when no
interface is configured (`Sourced`, main.rs:230), and an interface may be
unknown or have nothing for the family of a group (`Unusable`, util.rs:99). A joiner
has no `--duration`, so nothing else ends it. A
blank value of `config/multicast_group` is counted, not an entry: one alone
reads as the empty string, two do not, and both must lead to idling.

What is taken from the comments of the script and from the manifest about SMF:
when the script ends, `ctrun -o noorphan` kills its joiners one by one
(`KillOrphan`), and only when the contract is empty does `svc.startd` run the
start method again (`Start`); `:kill` ends the script at any point
(`RestartService`). `wait -n` also returns for a joiner that exited before it was
called. The limit `svc.startd` puts on restarts that come too fast is not
modelled: the repository says nothing about it.

`Generations` is the abstract service: memberships are asked for once per
generation, each is joined at most once and may be lost, and nothing is asked for
before all of the last generation is gone. `Joiners` implements it under

    pending <- todo plus the joiners that have not joined,  held <- joined joiners,
    open    <- the script has read its groups and not ended

| Run | Question | Bounds |
|---|---|---|
| `joiners_generations` | Do memberships come in generations, each of one configuration? | two groups, two ports, an interface or none, two writes with their restarts, two faults, all initial configurations; every entry can be joined, with the interface and without |
| `joiners_restored` | Does the service come back after the last write and fault, and rest without groups? | a group, one with sources, and an entry that is always rejected; no interface or one of two, of which one has nothing for the first group; one write, one fault |
| `joiners_idle` | *violation*: the script idles only when no groups are configured | one failing `svcprop`, no writes |

`RestsOnlyWhenRestored` is the safety half of the promise of the service: when the
script idles or waits for joiners that have all joined, and no restart is due,
every configured group is held with the configured settings, and nothing else; so
it never rests on a configuration that cannot be served.
`ReadsAreCurrent` says that a script that has read a mix of two configurations is
always one whose restart is still owed. `ServesWhatItRead` says that no joiner
with other settings lives under a script. `EveryMembershipIsRestored` is the
promise at the top of the script, with the two exceptions that the code has: a
failed `svcprop` that was swallowed (see `joiners_idle`), and an entry that the
configured interface, or none, cannot serve, which takes all other groups down
with it until one of the two is rewritten. `QuietWithoutGroups` is why the script
tests for an empty `pids`.

*Fairness* (`joiners_restored` only): the script runs and SMF restarts it, each
joiner gets on with joining or with its end, and the sled-agent restarts the
service after it has written. Writes and faults are not fair and are bounded
(`MaxWrites`, `MaxFaults`), which is how "eventually nothing changes any more" is
said. One write and one fault reach every place of the script. The sled-agent
writes one property at a time, at any moment; a group is configured once.

## The launch

`Launch` is one run from its command line to its loop. `pc` names the call that
comes next; the constant `Args` is the set of command lines, each with its transport, role,
address, sources and selector. `Main` decides with `Admits`, which is
`parse_unicast_ipaddr` for each source, the test of `main` against TCP on
groups, and `Server::validate`. Then one action per call, in the order of the
code, which differs by family: an IPv4 server binds and then looks for the
interface of its join, an IPv6 server needs the index for the zone of the address
it binds. IPv4 sources are joined one by one (`JoinSourceV4`, `todo` are those
left), IPv6 sources all at once (`JoinSourcesV6`). `CallFails` is the `?` of any
of these calls. `members` is the filter the kernel holds for the socket and goes
with the process.

`Addr` has the decisions made from the bits of an address, over octets and
16-bit segments, with the masks written as division and remainder; parsing of
text is left to `std::net`. `Interfaces` has the selector: an IPv4 address is
found with one reading of the interface list, an index with two look-ups
(`ResolveName`, `LookUpIndex`), between which `HostChanges` may replace the
interface table. A change takes memberships away with the interface they are on,
also while the run reads, which notices nothing of it; a call of the set-up that
names an interface works only while the kernel has it (`HasIface`). A name is a
base and the unit of a logical interface on it. The tables of `getifaddrs` and `if_nametoindex` are external; what is assumed of them
is that no entry holds the address 0.0.0.0.

`Receiver` is what a run promises: it reads with one of the filters it was asked
for, whole, or does not read. Only the host takes from a filter (`Lose`), and what
it took does not come back. `Launch` implements it under

    asked  <- the sources of the command line, if it is admitted; none otherwise
    phase  <- setup, reading (the loop) or gone
    filter <- the sources of the memberships, while reading
    lost   <- a membership went away with its interface

| Run | Question | Bounds |
|---|---|---|
| `launch` | Does a run read with exactly its filter, on its interface, or not at all? | 1524 starts: command lines with groups of every kind the code tells apart, the sources and selectors of `MCLaunch`, three hosts, two changes of the host at any moments: an interface that goes or is made anew, and then one more |
| `launch_inaddr_any` | *violation*: no SSM join is left to the kernel | the same, on hosts at rest |

What they show:

- `FilterIsWholeOrNothing`: no failure between two joins and no family filter
  leaves a receiver with part of its sources. Only an interface that goes away
  does, and then the run reads on with what is left: the start method, which sees
  nothing of a joiner but its exit, does not learn of it.
- `SsmIsNeverAnySource`, `SourcesArePinned`: at no moment is an SSM group joined
  from any source, nor a source on an interface that the user did not choose.
- `ZoneIsWhereItJoined`: an interface that is made anew between the bind and the
  join cannot part them, since the index is looked up once.
- `SsmNeedsNoZone`: the scopes `ssm.rs` turns away include all those `udp.rs`
  would give a zone.
- `UsesSelectedInterface`, `UnresolvedForCause`: selection against what the help
  text says a selector means. They are about a host at rest; on one that changes
  nothing can be promised, and the two look-ups may see two hosts.

## The TCP stream

`TcpStream` has the clients, the accept loop and the thread of each connection.
`client[c]` and `thread[c]` hold the locals of `run_client` and of the closure
that serves the connection. A send is `Send` and then `Sample` (clock, interval,
deadline); a read is `Recv`, which takes any part of what is there, `RecvEof` (a
read of 0) or `RecvFails` (the `unwrap` that panics). The two loops of a thread
are one: the inner one ends only when the bytes add up to exactly the buffer
size, and a read of 0 leaves the inner loop and, if it was the first read of it,
the outer one as well. `accept()?` and `thread::spawn` end the process with all its
threads when they fail: by a fault of the server (`AcceptFails`), or because the
connection that accept was to return was aborted in the queue (`AcceptAborted`;
whether accept reports this or returns the connection depends on the system, so
both are steps of the model).

The kernels are external: a bounded queue for accept (`Backlog`), a bounded number of bytes
in flight (`Window`), connections that are `open`, `closed` by their client or
`reset`. Clients can be killed, connections can break. There is no clock: each
loop only compares whole seconds with the last it has seen, so a reading is any
number from there on (`Readings`); this allows every pace of two hosts.

`Streams` is the abstract service: what is heard was written, and a connection
called whole was closed by its client and heard to the end. `written` and `heard`
are the variables of the same name, `fate` is read off the connection and its
thread.

| Run | Question | Bounds |
|---|---|---|
| `tcp_stream` | Is every stream read whole or known to be broken, do the reports agree, does everybody get on who can? | two clients (one sends three bytes in buffers of two, one a byte), a server buffer of two bytes or none, a queue of one, a window of two, two seconds, a fault of one client and one of the accept loop |

Three bytes against a buffer of two are enough to step over the buffer size, to
end with part of a buffer read, and to block on the window.

- `StreamsAreWholeOrBroken`, `ReportsAgree`: partial sends and reads lose
  nothing; the total of a client is what its thread heard, and the lines of the
  thread cover all of it but its last interval, which it never prints.
- `FaultsStayWhereTheyHit`: a connection that breaks once it has its thread ends
  that thread and nothing else. One that breaks before may end the server; nothing
  else but a fault of the server does.
- `NobodyIsForgotten`: a connection that is not broken waits for accept, is served
  by a thread of its own, or was closed and heard to its end.
- `ClosedStreamsDrain`: each step of a thread on a closed connection ends it or
  lessens what is left (`Remaining`: two for each byte in flight, and one for a
  part of a buffer), and no step of anybody adds to it. The part of a buffer is
  what makes the nested loops read once more at the end of a stream.
- `ServedToTheEnd`, `NoClientIsStarved`: a closed connection is read to its end,
  and a client that is suspended with its connection open keeps no other client
  from being accepted and read.

A server with `--buffer-size 0` reads 0 bytes at once, calls every connection
finished and so breaks it; nothing says what it should do, and the properties set
it apart.

*Fairness*: weak, of accept, of each thread and of `Send`. They are scheduled,
and a send for which there is room returns. `Sample` is not fair, nor is
connecting: a client may be stopped for good between two calls. `MaxBytes` is
where a client sees its deadline, `MaxSecs` the last second that is told apart,
`MaxFaults` the number of clients that are
killed or lose their connection. A failing accept is not counted, since it
happens once at most.

## The packaging

`Packaging` is `cargo xtask package`: `pc` names the next step of `cmd_package`,
`pkg` the files under `pkg/` that one step writes and a later one reads, known by
the build, the commit count or the dependencies they hold. A step can fail or be
killed (`StepFails`), with what the tool may leave behind (`LeftBehind`, taken
from what the tools are for; they are external). The developer builds, commits
and runs it again at any moment.

| Run | Question | Bounds |
|---|---|---|
| `packaging` | Does a later run still work, and is what it publishes made of one binary? | three runs, two builds, two commits |

`SuccessPublishesOneBinary` holds although the binary may be rebuilt in between,
because dependencies are taken from the copy; `FailsOnlyForCause` holds because
everything is removed first, the repository in particular. Nothing relates the
version, which is the commit count at the time, to the build.

## Deadlock

It is not checked in any run: clients and servers with a deadline end, a launch
and a packaging run end, a TCP server without clients waits, and a service that
idles or waits has nothing to do.

## What is proved

`UdpStreamProofs`, from the named assumptions on the constants (a counter of at
least two values, buffer sizes and durations are natural numbers) and for any
set of senders:

- `TypeCorrect`, the type invariant, one lemma per component.
- `SpanTheorem`, `LossBracketTheorem`, `LossIsRealTheorem`,
  `SuccessTheorem`, all from `TrackInv`, the inductive invariant. The span law is
  not inductive as it stands. It needs that the mark is one past the largest
  number read (`MarkInv`), which holds until the last number of all is read, and
  how the set of missing numbers changes: `GapOpens` and `GapFills` count a gap
  that is opened and one that is filled. That the missing numbers were sent at
  all needs `WireInv`: each sender has sent everything below what it has sent.
  `HeardInv` relates what was counted to the wire and says that a server tracks
  from its first datagram on or never; without it the count of arrivals and the
  books would drift apart.
- `HighWaterTheorem` and `NoReadTheorem`, from the types alone.
- `LossMeterTheorem`, the implementation of `LossMeter`, from the same invariant.
  A datagram that is tracked is ahead of the mark or behind it (`TrackAhead`,
  `TrackBehind`); ahead, the missing numbers grow by exactly the gap; behind,
  they shrink by the number that came if it was missing, and stay otherwise
  (`TrackAgain`). Each case is one action of the meter.
- `ExactLossTheorem`: while the out-of-order count is 0, the reported loss is
  exactly the number of sequence numbers missing. It is the case in which the
  report is not only a bound, and a reader of the report can see that it holds.
- `FinalReportTheorem`, from `ClientBooksInv`: total plus open interval is what
  was sent, and a client that goes on has not closed the second of its deadline.

`JoinersProofs`, for any entries, whatever serves them, and any number of writes
and faults: `JoinersTypeCorrect`, `ReadsTheorem`, `ServesTheorem`, `RestsTheorem`, and
`GenerationsTheorem`, the implementation of `Generations`. They rest on
`JoinersInv`: what of the groups the loop has done and has left (`LoopInv`), that
joiners under a script are its own (`ParentInv`), and that only what an interface
serves is joined (`ServedInv`). `RestsTheorem` needs of
`LoopInv` that the groups that were read are always those left and those started,
so that none is dropped between the two; with what `ReadsAreCurrent` says of the
reads, a script at rest holds what is configured. The proof of the
implementation maps each action to a step of `Generations` or to a stutter.

`TcpStreamProofs`, for any number of clients, buffer sizes, window and queue:
`TcpTypeCorrect`, `ReportsTheorem`, `FaultsTheorem`, `NobodyTheorem`,
`DrainTheorem`, and `StreamsTheorem`, the implementation of `Streams`. They rest on `StreamInv`. That a thread that ends
has heard everything is not inductive alone: it needs that nothing is heard that
was not written (`HeardInv`), that a client which still sends has not closed its
connection (`ConnInv`), and that a connection that waits for accept has no thread
and waits once (`QueueInv`); else a second thread could take over the books of
the first. `BooksInv` is the accounting of both sides, `FaultInv` the cause of
every break and of the end of the server: while the server is there, a connection
that waits or is served has broken by its own fault, so one that accept finds
aborted is itself the cause. `NobodyIsForgotten` is inductive together with `StreamInv`; its proof
follows a connection through the queue, where accepting the first moves all
others up. `ClosedStreamsDrain` needs that nobody writes to a closed connection,
which is `ConnInv`.

`LaunchProofs`, for any command lines (all addresses, any set of sources), any
interface tables and any number of changes: `SsmTheorem`, `PinnedTheorem`,
`ZoneTheorem`, `SsmZoneTheorem`, `SelectedTheorem`, `CauseTheorem`, and `ReceiverTheorem`, the implementation of `Receiver`. The invariant is
`LaunchInv`: which command lines come to a call at all (`PhaseInv`), that,
unless the host took some, the sources joined are those of the family less those
in `todo` (`JoinInv`), where
the interface came from (`IfaceInv`, `ZoneInv`) and that on a host at rest the
name found is still there (`HostInv`). Families being equal, which only
validation ensures, is what makes the family filter harmless. Of the constants
they assume `LaunchAssumption` (among it, no interface with the address 0.0.0.0)
and `InterfacesAssumption`.

`PackagingProofs`, for any number of builds, commits and runs:
`OneBinaryTheorem` and `CleanRunTheorem`, from `PipelineInv`, which says what
each file holds when a run comes to a step.

In `UdpStreamProofs`, `ClientLinesTheorem` and `ServerLinesTheorem` rest on
`ClientLinesInv` and `LinesInv`: the interval in hand began at a second that was
over by then, and seconds do not go back.

Only model-checked: liveness, which the prover cannot treat under fairness
(`TimedServerStops`, `ClientStops`, `EveryMembershipIsRestored`,
`QuietWithoutGroups`, `ServedToTheEnd`, `NoClientIsStarved`). For two of them what
does not need fairness is proved: `RestsTheorem` says that the service never comes
to rest anywhere else than where `EveryMembershipIsRestored` says it ends, and
`NobodyTheorem` and `DrainTheorem` say that a closed connection is somewhere on its
way and that each step of its thread brings it nearer to the end that
`ServedToTheEnd` promises. What is left to TLC is that the steps are taken. The
safety properties of all passing runs are proved.

## Where code and docs disagree

- `--mode data` is parsed and never read: a run always ends by the clock, though
  the help text of `--duration` says that data values are in buffer writes.
- `put_seq` leaves it to its caller that the buffer has room for the prefix;
  `run_client` passes a buffer of any `--buffer-size`, and one below 8 panics.
- A service with groups whose `svcprop` fails once idles as if it had none.
- A comment in `Server::validate` says that joins with sources must not be left to
  the kernel by `INADDR_ANY`; only the absence of `--multicast-iface` is turned
  away, and `--multicast-iface 0.0.0.0` leads to such a join.

Each is shown by a run that expects a violation.

## Seeded faults

Operators whose comment begins with "Seeded fault:" are not used by the
specifications. Each is a way the definition after it could have been written
wrongly, and makes the property that names it in `PROJECT.json` fail.

## Not modelled

- The zone image (`package/src/main.rs`) is one call into omicron-zone-package
  for each entry of a manifest, and the CI jobs are lists of commands: neither
  keeps state, retries or takes a decision.
- Formatting of speeds, the running number of TCP report lines and the
  muffin filler of buffers: nothing reads them.
- The `setsockopt` and `sockaddr` wrappers beyond their outcome: a call that
  works or fails, in `Launch`.
- What clap checks of numbers and names, and interface names that are not UTF-8 or
  hold a NUL byte.
- The restart limit of `svc.startd`, about which the repository says nothing.
- A joiner's own set-up inside `Joiners`: `Joined`, `Rejected` and a joiner that
  dies stand for the ends of `Launch`, with `Receiver` as the link between the two.
  What `Joiners` calls held is what a joiner has joined: a membership that goes with
  its interface under a running joiner is in `Launch` and not in `Joiners`.
- A kernel that takes a membership up again when its interface is back: the
  repository says nothing about it.
- Datagrams of other programs on the port, which may be shorter than the prefix.
  Every sender of the model is a thundermuffin client.

What could come next: a composition of `Joiners` with a `Launch` for each joiner, in
place of the link by theorem.
