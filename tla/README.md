# Verification of the sponge TCP stack

TLA+ models of the user-space TCP/IP stack in `src/lab/libsponge` and of the
programs in `src/lab/apps` that drive it, the TLC runs that check them on small
instances, and TLAPS proofs that hold for every value of the constants.
`PROJECT.json` maps every definition to the lines it models and lists runs,
mutants, findings, hazards and theorems.

## The system and its parts

| Part | Source | Module |
|---|---|---|
| Sequence numbers | `wrapping_integers` | `WrappingIntegers`, `WrappingProofs` |
| ByteStream, a ring buffer | `byte_stream` | `ByteStream`, `ByteStreams`, `ByteStreamSpec`, `ByteStreamCalls`, `ByteStreamProofs` |
| StreamReassembler | `stream_reassembler` | `Reassembler`, `StreamReassembler`, `ReassemblySpec`, `ReassemblerProofs`, `StreamReassemblerProofs` |
| TCPReceiver | `tcp_receiver` | `TCPReceiver`, `TCPSegments`, `TCPReceiverProofs` |
| TCPSender, Timer | `tcp_sender` | `TCPSender`, `TCPSenderProofs` |
| TCPConnection | `tcp_connection` | `TCPConnection` |
| Two connections and a network | rules of `tcp_sponge_socket` | `TCPNetwork`, `TCPNetworkMC`, `TCPNetworkTimed` |
| TCPState | `tcp_helpers/tcp_state` | `TCPState` |
| tcp_benchmark | `apps/tcp_benchmark` | `TCPBenchmark` |
| TCPSpongeSocket | `tcp_helpers/tcp_sponge_socket` | `SpongeSocket` |
| EventLoop, FileDescriptor | `util/eventloop`, `util/file_descriptor`, `util/socket` | `EventLoop`, `FileDescriptors` |
| bidirectional_stream_copy | `apps/bidirectional_stream_copy` | `StreamCopy` |
| Packet formats | `util/parser`, `util/util`, `tcp_helpers/tcp_segment`, `tcp_header`, `ipv4_*`, `ethernet_*`, `arp_message` | `NetParsers`, `TCPPackets`, `IPv4Datagrams`, `EthernetFrames` |
| Adapters | `tcp_helpers/fd_adapter`, `lossy_fd_adapter`, `tcp_over_ip`, `tuntap_adapter` | `Adapters`, `PacketPath`, `PacketPathMC` |
| NetworkInterface, Router | `network_interface`, `router` | `NetworkInterface`, `Router`, `Internet` |
| network_simulator | `apps/network_simulator` | `NetworkSimulator`, `InternetMC` |
| lab7 and its bouncer | `apps/lab7`, `apps/bouncer` | `Lab7`, `InternetMC` |

An application writes into a TCPSpongeSocket. The socket's event loop, in a
thread of its own, passes the bytes to a TCPConnection, whose TCPSender takes
them from a ByteStream, cuts them into segments and retransmits those that are
not acknowledged. An adapter turns segments into UDP datagrams, IP datagrams or
Ethernet frames; a NetworkInterface finds out Ethernet addresses and a Router
passes datagrams on. At the other end a TCPReceiver puts the bytes in order with
a StreamReassembler and offers them to its application in a second ByteStream.
The same connection runs in the other direction, and every segment carries an
acknowledgment and a window.

## How the models are built

A class is a record with the class's members as fields (without the leading
underscore), and a method is an operator from one value of the record to the
next, calls to other methods included. The component's module has one action per
method. A class that owns another one takes its operators with `INSTANCE` or
`EXTENDS`: `Reassembler` holds the class StreamReassembler, which the module
`StreamReassembler` drives alone and `TCPReceiver` keeps in `rcv.reassembler`;
TCPConnection instantiates TCPSender and TCPReceiver, `TCPNetwork` and
`SpongeSocket` instantiate TCPConnection for either end, `SpongeSocket`
instantiates EventLoop once for each thread.

- **Bytes of a stream.** Except in `ByteStream` and in the packet formats no
  byte is ever looked at, so the byte at index *i* of a stream is the number *i*
  (`Bytes`). A byte that is lost, repeated or out of place shows.
- **Bytes of a packet** are numbers below 256. A 32-bit number is the pair of
  its halves, because TLC's integers have 32 bits.
- **Loops** are the number of their turns (`WriteCount`, `Acked`), a turn as an
  operator (`Turn`, `Take`, `Absorb`) that a recursive function applies again and
  again (`FillWindow`, `Drain`, `AbsorbAll`), or, in modules without proofs, a
  recursive operator.
- **Widths.** `M` stands for 2^32 in sequence numbers, `UIntMod` for 2^32 in the
  stream's counters. 64-bit numbers do not wrap. The advertised window fits its
  16 bits, as it does with the default capacity of 64000.
- **Undefined behaviour.** `NetworkInterface::tick` erases the entry its
  range-for stands on (`network_interface.cc:110`) and `add_route` shifts by 32
  for a default route (`router.cc:30`). Both are sets of outcomes: after an
  erasure it is open which other entries the loop visits; the shift leaves the
  prefix or clears it. The loop goes on from a node that has been freed, so that
  it may also crash, which is left out. An entry that the loop misses only stays
  longer than it should, and no property is about that.
- **Mistakes.** An operator whose comment starts with "A mistake" is a wrong form
  of the definition that follows it, and is used by no action. Each property of a
  passing run has one that makes TLC find it violated.

## The runs

### `byte_stream`

The actions are `write`, `peek_output`, `pop_output`, `read`, `end_input` and
`set_error`, in any order. With capacity 3, calls of up to 4 bytes and counters
modulo 8 the ring is filled, emptied and wrapped at every offset, more than once
before a counter wraps. `RingInv` and `CountersAgree` say what holds the members
together, for any caller.

`ByteStreamSpec` is what `byte_stream.hh` says, with the ring read from `head`: no
bytes are written once the input has ended (`byte_stream.hh:9-10`), and the totals
of the bytes written and popped (`:85`, `:88`) are numbers without a bound. The
code keeps neither by itself. `write` (`byte_stream.cc:18`) does not look at
`_end_input` and takes bytes after `end_input`; the totals are `unsigned`
(`byte_stream.hh:21-22`), returned as `size_t`, and start again at 0 after 2^32
bytes. `ImplementsFifo` is therefore claimed for a caller who does not run into
either: `kept`, which is no member, says that nothing was written after
`end_input` and less than `UIntMod` bytes in all (`Keeps`), and every step up to
there is a step of `ByteStreamSpec`. Without either half of `Keeps` TLC finds the
property violated. Beyond it, what the code does is `ByteStreamCalls`: each call
is an operator of `ByteStreams`, with the bytes after the end and the wrapped
totals, and these are the operators that all other classes use. That, and that
the members stay in range, is proved (see below).

### `reassembler`

`push_substring` is `PushSubstring`: mark the end, then either assemble and drain
(`Assemble`, `Drain`) or merge and store (`AbsorbAll`, `JoinLast`, `Store`). Substrings overlap freely and
reach up to `Overrun` = 4 past a window of 3, so that the truncation to
`store_size` happens. What is kept is merged (`Separated`), counted once
(`CountedOnce`), in place (`InPlace`), and the stream ends exactly when complete
(`EndsWhenComplete`).

Past the window the class can hold more than its capacity (`stream_reassembler.hh:32-33`
says it does not): a substring past the window may fill `_mp` while `_output` has
room of its own. TCPReceiver lets no segment start past the window and a correct
peer sends none that ends past it, so the promise is checked there.

### `receiver`

The environment sends any piece of the sequence space that fits the window, or a
one-number probe of a zero window, from any initial sequence number; `arrived`
records what fell inside the window. `AckIsFirstMissing` ties the ackno to it.
`EdgeNeverMovesLeft` is the promise that TCPSender's window arithmetic needs.
`ImplementsReassembly` is the refinement of `ReassemblySpec`, which knows only
the set of bytes that arrived. `RoundTrip` and `Nearest` are about `unwrap` at
every checkpoint that a receiver comes to: it undoes `wrap` within half the
space, and no number with the same wrapped value is nearer.

### `sender`

The owner calls `fill_window` after whatever may open the window or add to the
stream, and takes the segments away; both are part of the actions.
Acknowledgments are arbitrary. `InFlight` ties the counter that closes a
connection to the outstanding segments, `TimerRuns` the timer to there being any,
`SegmentsInPlace` the segments to the stream; `RestartsOnNewData` is what a late
or repeated acknowledgment may do to the timer. `MaxBackoff` bounds `_base_RTO`: any
acknowledgment resets the count of retransmissions, but only new data resets
`_base_RTO`, which would otherwise grow without end.

### `network`, `network_reorder`, `network_timed`

`TCPNetwork` is driven by the rules of TCPSpongeSocket's event loop. Rule 4,
which transmits, is part of every action: waiting for it is the same as being
delayed by the network. A side may write once `connect` or `listen_and_accept`
has returned. A network queue holds `MaxNet` segments, what does not fit is lost;
`MaxLost` more may be lost from it, and with `Reorder` any segment may be
delivered next. The sides in `Ticking` tick independently.

- `network` (in order, losses, the reader may be slow, a connection may give up):
  `CleanCloseIsComplete`, `NobodyLeftBehind`, `NeverStuckInOrder`. The receive
  capacity of 1 makes the window shut, so the FIN has to wait and the window has
  to be probed. `FollowsDiagram` compares every step between two of the states
  that `TCPState` names with the arrows of RFC 793; two pairs of arrows may be
  taken together, when one segment does both.
- `network_reorder` (two bytes and a capacity of 2, so that the bytes, or a byte
  and the FIN, are in flight together): `StreamIntact`, `AckedIsReceived`,
  `WithinWindow`. `MaxBackoff` 1 leaves one retransmission between two pieces of
  news, and only the client, which sends the bytes, has a running clock.
- `network_timed`: `TCPNetworkTimed` adds clocks. Time passes for both sides alike
  and only when nothing is on its way, i.e. the timeout is longer than a round
  trip. With two losses and the linger time of ten timeouts of the code,
  `BothCloseCleanly`: both connections end without an error. `TCPBenchmark`
  starts the same specification, as an alternative, in `main_loop` of the
  benchmark: all segments of x move at once, in reverse order or not, y has ended
  its stream before it hears anything, so that both sides send a SYN, and
  `StringsMatch` is what the program throws an exception about.

### `socket`

`SpongeSocket` is a socket with its two threads: the owner connects, runs
`bidirectional_stream_copy` and waits for the end, as `tcp_udp` does, or destructs
the socket instead; the TCP thread runs the event loop. A step is one poll, one
callback or one tick. The interest of a rule is evaluated before the poll and the
result used after earlier callbacks of the same pass, and the other thread may
have moved in between. The pipe holds `PipeCapacity` bytes, so that partial
writes happen. The peer is a listening TCPConnection, which may reset, or nobody.

- `EndToEnd`: what either application gets is what the other one wrote, in order;
  its end comes after the last byte or because of a reset.
- `OnlyAResetBreaksThePipe`: neither of the exceptions of the code (a write that
  takes less than it advertised, a busy wait) happens, and no SIGPIPE unless the
  peer has reset the connection. After a reset SIGPIPE is possible: rule 3 shuts
  the pipe even if a partial write left bytes over, and stays interested in them.
- `OwnerGetsAway`: the owner's calls return and the thread is joined.

### `packets`

Three programs with adapters of the same kind (UDP, TUN or Ethernet) on one
medium: a client and another program, with the same port number, write to a
server that listens. Packets are bytes, built by `write` and parsed by `read`.
The medium reorders packets, changes a byte, or cuts a packet off, and
`LossyFdAdapter` drops what is written or read.

- `Intact`: a segment that is handed up is one that the sender of the packet
  wrote, although `IPv4Datagram::parse` does not look at what the header's `parse`
  returns. When the header length is what has changed, the payload begins
  elsewhere and only the checksum of the segment is left to notice. It does for
  the segments of the run, one of which is long enough for a TCP header that
  begins four bytes late; a 16-bit sum cannot do so for every segment.
- `NoFalseAlarm`: a packet in order is not refused.
- `OnePeer`, `PeerIsKept`: the first good SYN settles the peer, for good.

### `internet`

The constants give the networks of two programs, and `program` says which one
runs.

- The simulator (`NetworkSimulator`): six hosts around a router, with the
  routes of the program. Beyond what the program does, datagrams may be sent
  at any time, a link may lose a frame, and time may pass.
- `Lab7`: client and server, each with the TCP thread's adapter, a socket pair, a
  network thread with a router, and the bouncer between them over UDP. Frames are
  bytes. The TCP connection is reduced to the segments it may write.

`OnlyExpected` compares what hosts receive with the longest matching route, found
by a definition of its own, and allows each datagram once: it is the demand of
`Host::check`. `CacheIsTrue`: what an interface learns is true.
`RequestsSpaced`: five seconds between two requests, whatever `tick` does; time
passes up to one millisecond before an entry expires, and beyond.
`NothingVanishes`: a datagram disappears only because a frame was lost, its time
was over, or the interface was asking for the same address (the code keeps one
datagram for each address, and replaces it when the question is repeated).
`WaitingEnds` and `GetsThrough` are liveness: what waits is sent, and a SYN gets
from one program through two routers and the bouncer to the other. Both excuse a
loss, and what the bouncer drops because it does not know the other side yet
(`bouncer.cc:37`) is one.

## Fairness

Fairness is written as `[]<>~Can \/ []<><<Step>>_vars`, weak fairness with the
guard of a step in the place of ENABLED.

| Run | Assumed of | Why |
|---|---|---|
| `network_timed` | ticks, arrivals, the applications, the benchmark's loop | `_tcp_loop` waits at most `TCP_TICK_MS`, `poll` reports every ready descriptor; the applications are taken to write, end and read; a loop goes on. The network need not deliver: it may lose `MaxLost` segments |
| `socket` | either thread, the peer | threads are scheduled, `poll` reports every ready descriptor; the peer reads, writes and ends |
| `socket` | time (strongly: if the loop is again and again at the end of a pass with nothing else going on, time passes at one of them) | `_tcp_loop` measures the time that has passed at every turn |
| `internet` | routing and exchanging of the simulator; the event loops of lab7 and the bouncer | `simulate` does both in turn; no rule with a ready descriptor is left out. Losses are bounded and excused in the properties |

No fairness is assumed of losses, resets, destruction or the passing of time in
`internet`. All other runs check safety only.

## Bounds

| Bound | Value | Why it is enough |
|---|---|---|
| `M` | 8 to 16 | more than twice the distance between an arriving number and the expected one, so that half the space is never ambiguous, and the initial numbers make it wrap |
| `UIntMod` | 5, 8 | above the capacity, in `byte_stream` more than twice; counters wrap within a run |
| `StreamLen`, `WriteLen`, `InputLen`, `PeerLen`, `BenchLen` | 1 to 9 | longer than the capacity where the window or a pipe has to be emptied in between |
| `PipeCapacity`, `CopyCapacity` | 1 | full after one byte: partial writes and full buffers on both sides of the pipe |
| `BenchCapacity` | 3 | bunches of up to three payloads are turned round |
| `MaxRetx` | 1, 3 | one retransmission and the giving up; in the timed run one more than the losses |
| `MaxBackoff` | 1 to 8 | one or more doublings |
| `Ticking` | both sides, the client | retransmissions of the side that sends the bytes are what reordering can upset |
| `MaxNet` | 2, 8 | two segments can overtake each other; in the timed run nothing is dropped for lack of room |
| `LingerTime` | 1, 10 | only compared with; 10 timeouts as in the code where time matters |
| `MaxLost` | 0 to 2 | a loss and the loss of what repairs it |
| `MaxSent` | 2 | two datagrams for one next hop: the second finds the first one waiting |
| `TickTimes` | 4999, 5000 or 30000 ms in the simulator; 4999 and then 1 ms, or 30000 ms, in lab7 | the two lifetimes of an entry, and the last millisecond of the shorter one; a step stands for a run of ticks |
| `MaxWrites`, `MaxFaults`, `Deltas` | 2, 1, {1, 128, 255} | two segments mixed; one byte made one more or one less, or changed in its highest bit, at every place |

Deadlock checking is off where the system may stop: when streams have ended,
connections are over, or a bound is reached.

## What the checks found

Two runs are expected to fail; each states what a comment says.

| Run | The code | Against |
|---|---|---|
| `network_close` | after an overtaken ACK a connection closes cleanly without having sent its FIN | `tcp_connection.hh:88-91` |
| `socket_destruct` | a destructed socket sends no RST: `_abort` ends the loop, and the RST that `~TCPConnection` queues is never transmitted | `tcp_sponge_socket.hh:75`, `:123-124` |

The first needs a network that reorders. Its root is `tcp_sender.cc:88`: an
acknowledgment below `_ackno` is taken and moves the window back. Without
reordering it does not happen (`CleanCloseIsComplete` and `NeverStuckInOrder` hold
in `network`).

Met while modelling, and not the subject of a run: any acknowledgment resets
the count of retransmissions (`tcp_sender.cc:33`; `note/Lab 3.md:13` says only new
data does); `IPv4Datagram::parse` ignores the verdict on the header
(`ipv4_datagram.cc:13`); a loop whose rule has no interest turns without waiting
while poll reports POLLHUP (`eventloop.cc:86`); the option `-w` of the
applications can set a receive capacity of 0, or one that does not fit the 16
bits of the window.

Two more are disagreements of `byte_stream.cc` with its header, and the reason why
`ImplementsFifo` speaks of a caller who keeps to the header:

- ByteStream takes bytes after `end_input` (`byte_stream.cc:18`), against "the
  writer can end the input, and then no more bytes can be written"
  (`byte_stream.hh:9-10`). No class of the repository writes any.
- `bytes_written` and `bytes_read` wrap after 2^32 bytes, against "Total number of
  bytes written" and "popped" (`byte_stream.hh:85`, `:88`). Only `TCPState` uses a
  total (`tcp_state.cc:103`), to tell whether the FIN has been sent.

## What is proved

Every property of the runs `byte_stream`, `reassembler`, `receiver` and `sender`
is also a theorem, for every value of the constants that the assumptions allow.

| Theorem | States | Inductive invariant |
|---|---|---|
| `ByteStreamProofs!Invariance` | always `TypeOK`, `RingInv`, `CountersAgree` | their conjunction |
| `ByteStreamProofs!CallsAreOperators` | every call is an operator of `ByteStreams`, for any caller | the same |
| `ByteStreamProofs!Refinement` | `ImplementsFifo` | the same and `TotalsExact` |
| `WrappingProofs!UnwrapUndoesWrap`, `UnwrapIsNearest` | about `wrap` and `unwrap`, for every number | |
| `ReassemblerProofs!PushSubstringInv` | what a call of `push_substring` does, in any state | `RInv` |
| `StreamReassemblerProofs!ReassemblerSafe` | always `Separated`, `CountedOnce`, `InPlace`, `EndsWhenComplete` | `AInv` |
| `TCPReceiverProofs!ReceiverSafe` | always `TypeOK`, `AckIsFirstMissing`, `AssembledInOrder`, `RoundTrip`, `Nearest` | `VInv` |
| `TCPReceiverProofs!ReceiverEdge` | `EdgeNeverMovesLeft` | `VInv` |
| `TCPReceiverProofs!ReceiverRefines` | `ImplementsReassembly` | `VInv` |
| `TCPSenderProofs!FillWindowSends` | what `fill_window` does, in any state | `SInv` |
| `TCPSenderProofs!SenderSafe` | always `InFlight`, `TimerRuns`, `SegmentsInPlace` | `SInv` |
| `TCPSenderProofs!SenderRestarts` | `RestartsOnNewData` | `SInv` |

The assumptions are those the modules declare: `UIntAssumption`,
`RingAssumption`, `MAssumption`, `ReassemblerAssumption`, `ReceiverAssumption` and
`SenderAssumption`. TLC evaluates each of them in the run of its component.

### The ring buffer

`TypeOK` and `RingInv` are inductive only together, because the guard of `write`
tells full from empty by comparing `_tail` with `_head` and `_sz` with the
capacity. The argument is the arithmetic of `(head + sz) % Capacity`
(`DataLemmas`): adding modulo the capacity in either order gives the same
remainder, and two offsets below the capacity that give the same remainder are
equal. For the refinement, `write` stores exactly
`min(data.size(), remaining_capacity())` bytes, the new contents are the old ones
with those appended, and `read` and `pop_output` drop a prefix; each is a lemma
about `Contents`, the sequence read from `head`. `CallsAreOperators` needs no more.
For `Refinement` the totals must not wrap: `TotalsExact` says that while the caller
keeps to the header `_write_bytes` is `_read_bytes + _sz` without a remainder, so
that a bound on the bytes written is one on the bytes read.

### Sequence numbers

For every even `M` of at least 4, every initial sequence number and every
checkpoint. `WrapsTo`: a number wraps to `n` exactly if it is congruent to
`n - isn` modulo `M`. `UnwrapNear`: what `unwrap` returns is congruent to
`n - isn`, a natural number, and at most half the space from the checkpoint, or
below `M`, where there is no candidate further down. Two congruent numbers that
differ are at least `M` apart (`ProductGrows`).

### Loops

The loops of the code need an induction over their turns. The induction theorems
of the library take an operator as a parameter, which the provers cannot
instantiate; but that a set of natural numbers has a least element
(`LeastNatural`) follows from a theorem about a relation, and gives induction
about the members of a set (`SetInduction`, both in `DataLemmas`). `Iteration`
derives from it that the recursion which defines the states of a loop has a
solution (`IterateFollows`); a proof about a loop instantiates `Iteration` with
the operator for one turn, supplies its hypothesis `Induction` from
`SetInduction`, and shows what a turn keeps. That a loop has stopped after as many
turns as the model takes is part of each proof: every turn of `Drain` and of
`AbsorbAll` erases an entry of `_mp`, and every turn of `fill_window` uses at least
one number of the window.

### The reassembler

`RInv` says of a record of the class: the entries of `_mp` are parts of the stream
with a gap between each two and before the first (`Stored`); `_output` holds the
bytes up to `_nidx` (`Assembled`); `_unassembled_bytes` is the cardinality of
`Held`, the set of indices that `_mp` covers (`Counted`). `LoopInv` is the part of
it that holds at every turn of the loops, where the first entry may begin at or
before `_nidx`. `PushSubstringInv` follows a substring through the code: `TakeInv`
and `DrainInv` for what is assembled, `AbsorbInv`, `JoinLastInv`, `KeepInv` and
`StoreInv` for what is merged and kept, `MarkInv` and `FinishInv` for the end. Its
conclusion has three parts: `RInv` is kept; the right edge of the window stays
where it is, and `_output` grows by exactly the bytes between the old `_nidx` and
the new one; and if old and new bytes lie within the window, none is lost.

`AInv`, the invariant of the module `StreamReassembler`, adds that the bytes belong
to a stream of length `StreamLen` and that the output has ended exactly if the end
is known and reached (`OfStream`). It puts no bound on where substrings reach.

### The receiver

`VInv` is `RecvInv` of the receiver, the peer's initial number and `arrived`:

- the reassembler satisfies `OfStream`, and what it has lies within its window
  (`Bounded`);
- once the SYN has arrived, `_isn` is the peer's and `_ackno` is `_nidx` + 1, or
  + 2 when the output has ended; before, nothing has arrived;
- `arrived` is exactly what the receiver knows (`Known`): the SYN, the bytes the
  reassembler has, and the FIN.

The last conjunct is what makes `AckIsFirstMissing` inductive: it says that no
number which arrived was dropped. To keep it, a segment that the code accepts must
fit the window of the reassembler whole, although the code compares only its first
number with the window, and although the receiver's window counts the SYN and the
FIN, which the reassembler's does not (`WindowNumbers`, `AcceptPush`). That the
segment is put where it belongs uses `UnwrapUndoesWrap` (`Synchronised`). After
that, `PushSubstringInv` gives both the invariant (`ReceiveInv`) and the step of
`ReassemblySpec` (`Follows`, `PushRefines`), whose first missing byte is `_nidx`
(`MissingIsNidx`).

The guard of the environment, that the peer sends what fits the window and nothing
half the sequence space late, is a hypothesis of these theorems as of the run.

### The sender

`SInv` says of a record of the class: `bytes_in_flight` is the distance from the
start of the first outstanding segment to `next_seqno`, and the segments are an
unbroken run up to it (`Flight`); the timer runs exactly while there are any, and
has its initial timeout when it does not run (`Timed`); every outstanding segment
says where its bytes belong, only the last may carry a FIN, and the stream goes on
where the bytes sent end (`Placed`). Acknowledgments and window sizes are
arbitrary. `AckReceivedInv` needs that the segments which an acknowledgment takes
off the queue are a prefix of it, whose lengths add up to what is subtracted from
`bytes_in_flight` (`LengthOfRun`).

### Only model-checked

- `TCPConnection` and the compositions of it (`network`, `network_reorder`,
  `network_timed`, `socket`): an invariant of two connections and the segments
  between them relates every segment on its way to both ends. `StreamIntact`,
  `AckedIsReceived` and `WithinWindow` rest on the theorems about sender and
  receiver, but the invariant that connects them is not worked out.
- The packet formats, the adapters, `NetworkInterface` and `Router` (`packets`,
  `internet`): parsing, checksums and routing are recursive operators there, and
  `tlapm` has no SMT backend in a module that reaches one.
- Liveness (in `network_timed`, `socket` and `internet`), which is out of the
  prover's reach.

## Not modelled

- **listen_and_accept of TCPSpongeSocket** beyond its conditions: its thread runs
  the loop and the rules that `socket` checks. CS144TCPSocket and FullStackSocket
  only fix their arguments.
- **lab7's TCP connection and exit path**: the connection is checked in the
  network runs; what is new in lab7 is the way of the segments.
- **Address, TunFD and most of Socket and FileDescriptor**: wrappers of system
  calls without state that a property is about. Failing system calls, which throw
  `unix_error`, are left out everywhere, as is an interrupted poll.
- **Buffer's sharing of storage and iovecs**: the modelled code cannot tell.
- **tcp_udp, tcp_ipv4, tcp_ip_ethernet, tcp_native, tun, webget, udp_tcpdump**:
  option parsing, printing, and a fixed sequence of calls.
- **Time between poll and callback** in `EventLoop`: poll's timeout is a pass with
  nothing ready. A loop that turns without waiting because of POLLHUP looks like
  one that waits.
