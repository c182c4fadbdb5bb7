# Verification of the tubus transport

tubus is a C++ library that carries a reliable, optionally obfuscated byte
stream over UDP (its own protocol) or TCP. This directory holds TLA+ models of
its core, the TLC configurations that check them, and TLAPS proofs. Paths below
are relative to the library's source directory `src/tubus/` unless they say
otherwise.

## The system

| Part | State | Operations | Interacts with |
|---|---|---|---|
| UDP connector (`udp/channel.cpp`, `connector`) | status, own and peer pin, jobs with their times, deadline, last packet time, three callbacks | connect, accept, shutdown, parse, imbue, error | called by the transport under `m_mutex`; posts handlers to the io_context |
| UDP ostreamer | queue of buffers with head and tail, flights (moves), writers, range, edge acknowledgements | append, parse, imbue, error, writable | peer's istreamer, through moves, acknowledgements and edges |
| UDP istreamer | fragments by handle, head and tail, readers, acknowledgements, edge with its timer | append, parse, imbue, transmit, error, readable | peer's ostreamer |
| UDP transport | socket, timer, remote endpoint, mutex | open, connect, accept, read, write, shutdown, close, the loops produce and consume, feed, mistake | the socket, the io_context threads, the application |
| UDP packet format (`udp/proto.h`) | none | sections, packet, invert | streamers and connector |
| TCP channel (`tcp/channel.cpp`) | socket, acceptor, timer, read and write queues | connect with retries, accept, read, write, shutdown, close | asio |
| TCP obfuscation (`tcp/proto.h`) | two cipher positions | async_read, async_write | TCP channel |
| Socket, acceptor (`socket.h`, `acceptor.h`) | a channel; a listening port | asio-like reads, writes and accepts over a channel | any channel |
| Buffers, qos (`buffer.h`, `utils.cpp`) | shared memory; environment | slices; constants | all |

What is hard here: a lossy, repeating and reordering network below a window
protocol; fragments that are cut by the window, by the packet and by the reads,
each in other places; handlers of one channel that run in several threads
(`tests/common.h` runs the io_context in as many as the machine has) and give up
the mutex between two steps; deadlines that pass while the awaited packet is on
its way; three ways to end a channel (torn by the peer, shut down, failed), each
of which must answer every handler and release the socket.

What makes each part correct:

* streamers: bytes are delivered once, in order, unchanged; the receive buffer
  is never overrun by an honest peer; a writer is told only of bytes the peer
  has; nothing in flight is forgotten; every operation is answered;
* connector: the two ends agree that they are linked and that they shut down; a
  channel never goes back; every handler is called, and none that is not set;
* transport: a finished channel ends both loops, aborts all operations and
  closes its socket;
* packet format: the receiver finds exactly the sections that were appended;
* TCP channel: a link call is answered once, its deadline never strikes a link
  that was made, the port is released, and an operation is answered unless it is
  destroyed in a queue with the channel;
* obfuscation: what is masked in the cuts of the writer is unmasked in those of
  the reader;
* socket: a call reports no more than it moved, also when an end fails in the
  middle of it, succeeds only if it moved something, returns, and does not break
  the channel.

## Modules

| Module | What it is |
|---|---|
| `ByteStream` | abstract: what one direction promises to the two applications |
| `UdpStream` | ostreamer, istreamer and the network of one direction; `ImplementsByteStream` is the refinement |
| `UdpStreamProofs` | the proofs of the invariants of `UdpStream` |
| `UdpStreamRefinement` | that `UdpStream` implements `ByteStream`, its action property and `FragmentsTile` |
| `UdpChannel` | connector and transport of both endpoints, with the network; the acceptor of `acceptor.h` |
| `UdpChannelProofs` | the proofs about `UdpChannel` |
| `PacketFormat` | the section list of a packet and the chain of `imbue` calls that writes it |
| `PacketFormatProofs` | the proofs about `PacketFormat` |
| `TcpLink` | the life of a TCP channel: connect, accept, their timers, close, shutdown, destruction |
| `TcpLinkProofs` | the proofs about `TcpLink` |
| `StreamCipher` | the position in the key stream of an obfuscated TCP stream |
| `StreamCipherProofs` | that it does not depend on how the stream is cut |
| `TcpStream` | the read and write queues of two TCP channels over the obfuscated stream; extends `StreamCipher` |
| `TcpStreamProofs` | the proofs about `TcpStream`; extends `StreamCipherProofs` |
| `StreamSocket` | `read_some` and `write_some` of `socket.h` over one direction of a UDP channel |
| `StreamSocketProofs` | the proofs about `StreamSocket` |
| `MC...` | the modules TLC is run on |

`UdpStream` identifies a byte with its position in the written stream, so a
buffer, a snippet or a stored fragment is an interval. A fragment also has the
handle it travels under; that the two agree is proved, not assumed. `oXxx`
variables are the members of the writing endpoint's ostreamer (`oHead` is
`m_buffer.m_head`, `oMoves` is `m_moves`, ...), `iXxx` those of the reading
endpoint's istreamer; `flown`, `received`, `got`, `wrote` and `confirmed` are
history. Each action is a whole critical section:

| Action | Code |
|---|---|
| `Write`, `WriteRefused` | `write()`, `ostreamer::append` |
| `Read` | `read()`, `istreamer::append`, `transmit` |
| `ProduceOut`, `ProduceBroken` | `produce()`: `ostreamer::imbue`, with the resent flights, the fresh ones and the edge acknowledgements; the second when attempts run out |
| `ProduceIn` | `produce()`: `istreamer::imbue` |
| `FeedOut`, `FeedIn` | `feed()`: `ostreamer::parse`; `istreamer::parse` and `transmit` |
| `MistakeOut`, `MistakeIn` | `mistake()`: the `error` of the streamer |
| `LoseMoves`, `LoseEcho` | the network; a packet may be delivered any number of times before it is lost |

The two directions of a channel share the room of a packet, here any value of
`Rooms`, and the channel's fate, here a `Mistake` that may strike one end when
the other is gone or, with `MayClose`, at any time.

`UdpChannel` has two endpoints, `Initiator` and `Acceptor`, each with its
connector (`status`, `remote`, `jobs`, `armed`, `onConnect`, `onShutdown`), its
socket and its two loops. The state of a loop says what it waits for: `produce`
is *ready* (its handler is queued), *waiting* (for the timer), *failed* (its
handler is queued with an error) or *done*; `consume` is *ready*, *waiting* (for
a packet), *received* (a handler with a packet is queued), *binding* (between
`feed()` and the connect of the socket), *failed* or *done*. The byte streams
are reduced to whether operations are pending. Pings only tell the time, which
is abstracted, so a ping is a packet that moves nothing. `Bind` models the
connect of the socket after the first packet; `transport::connect` leaves
`m_remote` unspecified, so the initiator goes through it too, and a
`basic_socket::connect` opens a socket that is closed. With `Listening` the
accepting side is an acceptor: `Admit` consumes the packet that announces the
peer, opens a channel on the same port and lets it accept that peer; until then
packets to the port do not bounce.

`PacketFormat` is `m_buffer` behind the packet header as a row of cells (a
header field, a handle, a value or a byte of data each), with any earlier
contents from `Stale`. `connector`, `istreamer` and `ostreamer` in turn find the
end of the list with `stub()`, append sections, and mark the new end; `Trim` cuts
the packet, and `Parse` is what the receiver finds in it. The loops look for room
as the code does: the streamers for all of a section, the connector for a header
only, also before a ping, whose value may then not fit. `fault` records that an
operation of the buffer threw, which ends the program because the functions are
`noexcept`: *write* for `set()` and `fill()`, *walk* for the `crop()` of a walk
over the list. `OstreamerBreaks` is the early return of `ostreamer::imbue` on
broken_pipe, which leaves the list without its end; `stale` is history, the
buffer as `produce()` found it, to say what follows then.

`TcpLink` splits an asynchronous operation into its outcome in the kernel
(`DialEnds`, `AdmitEnds`, `DeadlineExpires`, `RetryExpires`) and its handler
(`DialHandler`, ...). An operation is *pending* until the first; after it the
handler is queued with a result that no `cancel()` or `close()` can change, and
any other step may come before it. Each handler is one critical section of
`m_mutex`, except that of `async_accept`, which takes it twice
(`AdmitHandler`, then `AdmitAgain`) after asio has assigned the connection to
the socket (`Assign`, under no lock). `Destroy` is the destructor: the weak
pointers of the queued handlers are empty afterwards. A stranger makes
`do_accept` close the socket and wait on; with a deadline of `ptime()`, an
invalid time that expires at once, if the acceptor has to be opened again.

`TcpStream` carries cells through two pipes. A cell is a byte with the key
position that masked it; the head is a cell of its own. `StartWrite` masks a
whole chunk when its write is started, as `stream::async_write` does, and
`ReadEnds` unmasks what has come when the read ends, complete or broken. The
socket of the connecting side is open before the link, so its application may
write early: such a write fails or waits, and when it fails the head is lost
while `m_ostate` says it was sent (`spoiled`). `owed` is history: the operations
accepted and not answered, counted by `Owe` and `Answer` and not by the queues.
`Destroy`, before or after a `close()`, destroys the queues: the operation under
way holds its handler in asio, the handlers behind it are gone (`orphans`).

`StreamSocket` follows the two overloads of `post_io_method`: a call is the
buffers left, the results both overloads carry (`result`, `inner`) and the part
under way; `from` is the position of the stream it was made at, so that what it
really moved is known without the results. The channel below is the counters of
`UdpStream` that `writable()` and `readable()` look at, with `Fly`, `Arrive` and
`Echo` for the streamers and the network. Each end may leave the linked state at
any time (`WriterFails`, `ReaderFails`: close, shutdown, the tear of the peer,
silence, a broken pipe). A write part under way then ends with an error and the
count of `ostreamer::error` (`Sent`): the bytes before the first flight that is
not acknowledged, which may be fewer than have arrived. `refusals` is history: the
sizes of the parts a linked channel refused.

## Runs

| Run | Configuration | Shows |
|---|---|---|
| `stream_parts` | fair; one write of 3 bytes, window 2, packets with room for 2 fragments, reads of 1 and 2 | types, no overrun, window arithmetic, stream integrity, fragments that tile, refinement of `ByteStream`; every write and read is answered |
| `stream_reorder` | 2 flights, 2 echo packets at a time on their way, close at any time | nothing forgotten, the counts given to completed and failed writers, an old edge changes nothing, the inductive invariant |
| `channel_life` | both shut down, the initiator streams, the acceptor accepts anyone, sends may fail | handlers held, agreement on link and shutdown, operations aborted, no way back |
| `channel_live` | fair; the initiator shuts down and its sends may fail, the acceptor may close and is admitted by an acceptor | handlers are called, loops end |
| `tcp_link` | fair; 2 refusals or 2 strangers | answered once and always, a link made in time stands, causes of faults, the port is released |
| `tcp_stream` | fair; key words of 2 bytes, writes of 1 and 3, reads of 2, with and without a secret | bytes unmasked right, `readable()` true, every handler called after a close but those destroyed in a queue, reads served |
| `socket_io` | fair; writes of 2, 4 and 1+2 bytes, reads of 3 and 1+1, both buffers of 3; either end may fail | sound counts of one buffer, success moves data, which parts are refused, everything is read, writes return |
| `packet_format` | 10 cells, every stale content of ends and look-alike headers | the receiver parses what was appended; where the end mark is missing what follows, and which operations can throw |
| `stream_large_read` | violated | a read larger than the receive buffer stalls |
| `channel_connect_orphan` | violated | a connect handler that is never called when the channel is torn while connecting |
| `socket_count` | violated | a call with two buffers counts the first one twice |
| `socket_full` | violated | a `write_some` while nothing is writable fails the channel |

Deadlock is not checked: a channel may end, and the bounds on bytes and calls
end the rest.

### Bounds

* `MaxBytes` (2 or 3), `WriteSizes`, `ReadSizes`: two bytes suffice for a
  fragment that is cut, three for one that is cut twice, by the window and by a
  read, with another behind it.
* `ReceiveBuffer` 2 with a write of 3 bytes in `stream_parts`, so that the
  window closes and reopens; `SendBuffer` 4.
* `Swarm` 2 in `stream_reorder`: two flights can be acknowledged out of order; 1
  in `stream_parts`, where the cuts are the subject. `MoveAttempts` 1 or
  2: one or two repetitions, then a broken pipe. The count stops one past the
  limit.
* `Rooms` with `Overhead` 1: a packet holds one fragment and an
  acknowledgement, or two small fragments.
* `MoveCap`, `EchoCap`, `NetCap`: packets on their way. Each can be delivered
  any number of times before it is lost. Flights overtake each other when the
  packet of the first one is lost, so one packet of moves suffices; edges need
  two packets to be reordered, which `stream_reorder` gives them. A packet sent
  into a full network is lost, which the network may do anyway.
* `MaxCalls`: one `shutdown()` per endpoint.
* `MaxRefusals`, `MaxStrangers` 2: a retry that is refused again, a stranger
  after a stranger.
* `Word` 2 with 4 bytes written in chunks of 1 and 3 and read in chunks of 2:
  every chunk border falls inside and on the border of a key word.
  `MaxWrite` and `MaxRead` bound the bytes of each direction.
* `StreamSocket`: `MaxBytes` 5 with send and receive buffers of 3, equal as the
  defaults are: a call is cut into parts, the window reopens between two calls,
  and a write can be as large as the whole send buffer.
* `PacketFormat`: `MaxEach` 2 sections of each loop of the streamers and
  `MaxChunk` 2 cells of data in 10 cells. All jobs of the connector need 14, so
  the connector, too, meets the end: with no room, with the room of a header
  (where a ping does not fit), and with that of part of an end mark.
* `Unreachable` in `UdpChannel`: the endpoints whose sends may end in an error of
  the network, both in `channel_life`, the initiator in `channel_live`, where the
  acceptor may close at any time instead.

The proofs hold without any of these bounds.

### Fairness

`UdpStream!FairSpec`: the loops of both ends go on (strong fairness of a produce
step whose packet the network takes, with the first flight due), a packet sent
again and again is delivered (strong fairness of the feed steps), an old packet
does not stay in the network for ever, a posted error is run, and the
application keeps reading. The code repeats every flight and every edge each
`m_repeat` and posts errors to a running io_context.

`UdpChannel!FairSpec`: whatever handler is queued is run by some thread (weak
fairness of each loop, of the timer and of a posted error), and a deadline that
stays armed is noticed by a produce step (strong fairness of `ProduceLate` while
`armed`). The network owes nothing: handlers are called even if it loses all.

`TcpLink!FairSpec`: time passes, timers expire and queued handlers are run (weak
fairness of each). Neither the network nor the peer nor the application owes
anything. `TcpStream!FairSpec`: TCP carries what it was given while both ends
stay, and handlers are run; an operation on a socket that still connects need
not end. `StreamSocket!FairSpec`: while both ends are linked the channel carries
and repeats (what `stream_parts` shows of it); a writing end with a posted error,
or whose peer is gone, fails at last (the attempts of its moves run out, or
nothing is heard for the ping timeout); handlers are run and the application keeps
reading. Nobody else has to fail.

## Proofs

`UdpStreamProofs` proves `Spec => []IndInv` and from it `TypeOK`, `NoOverrun`,
`WindowSafety`, `StreamIntegrity`, `ConfirmedIsReceived` and `NothingForgotten`,
for all buffer sizes, swarms, rooms, write and read sizes and packet bounds. The
assumptions are those of the module: sizes are positive and rooms are natural
numbers. None of the properties is inductive alone; `IndInv` adds

* `FlowInv`: what is sent, stored or on its way lies below the sender's range,
  every edge on its way and the range lie below the receiver's edge, and the
  edge is one receive buffer above the end of the last completed read. So a
  fragment always fits, and the range never falls below the head;
* `FlightInv`: the fragments ever sent are disjoint and all that travels is one
  of them, so a repetition is equal to what it repeats;
* `CustodyInv`: a fragment arrives as a whole, and a handle is acknowledged only
  when its fragment has arrived; with it the first flight left bounds what the
  peer has, which is what the writers are told;
* `DeliveryInv` and `WriterInv`: the books of the readers and the writers.

There is one lemma per action. `PulledShape` and `PulledCovers` are about the
pieces the queue is cut into, `TransmitEffect` about what `transmit()` hands
out, `CursorBound` about the cursor the writers are compared with.

`UdpStreamRefinement` proves that `Spec` implements `ByteStream`
(`ImplementsByteStream`): the initial states agree, and every step is one
of `ByteStream` or leaves its variables alone. On the way it proves
`FragmentsTile`, and `Monotone`: no step takes back an edge, a range, a
delivery, a reception or a confirmation. `IndInv` is not enough for that;
`StrongInv` adds

* `FlownWritten`: everything ever sent was written, also when the writer has
  failed and forgotten its positions, so what arrives late is still a written
  byte;
* `TileInv`: a stored fragment is one that was sent, of which only the one at
  the head may have lost its beginning to a reader. So a repetition meets either
  the same fragment or none, and never half of one.

`UdpChannelProofs` proves `TypeOK`, `HandlersHeld`, `LinkAgreement`,
`ShutdownAgreement`, `OpsAborted` and `Forward` of `UdpChannel`, for any number
of calls and packets on their way and every choice of who closes, shuts down or
streams. The agreements say what a handler was told at the other end, so they
are not inductive; the invariant follows the message that carries the news:

* `LinkInv`: a link_echo is under way only if accept() was told success, and an
  acceptor that is linked or beyond has told it;
* `TearInv`: a tear_echo is a job or under way only if its sender was notified;
* `FreshInv` and `ToldInv`: an unused channel has told nobody anything, and a
  handler that is held was told nothing, so what it is told is final.

`TcpLinkProofs` proves `TypeOK`, `AnswerOnce`, `LinkStands` and
`FaultNeedsCause` of `TcpLink` for every number of refusals and strangers, from
`LinkInv`, which adds

* `OneOperation`: which operations can be outstanding together; a connect has an
  attempt or a wait for the next, never both, so an answer leaves nothing behind;
* `DeadlineHolds`: the deadline of a connect is queued only after its time, and
  is gone once the connect handler has run in time;
* `ConnectionHeld`: a connection whose handler is queued is still there, unless
  the application or the deadline closed it.

`LinkStep` has one step per action and under it one per conjunct.

`StreamCipherProofs` proves `CutsDoNotMatter`: `alter_data` of n bytes takes the
state after c bytes to the state after c + n bytes, for every word size. The
argument is division with rest: a chunk uses up the last key word (`OldPart`),
and `FreshCount` says that the words made for what is left are those the total
number of bytes asks for.

`TcpStreamProofs` proves `TypeOK`, `StreamIntact` and `ReadableSound` of
`TcpStream`, for every word size, all sizes of writes and reads and any number
of bytes. `Want` is the cell that belongs at a position of the stream, the head
before the first; `Run` says that cells are those behind a position. `FlowInv`
chains the places a cell can be: what the reader has got, what its read under way
holds, what TCP carries and what the write under way has left are consecutive
runs, up to the last byte the writer has masked. A failing write leaves a gap,
but only on a connection that is cut, where nothing is carried any more. `KeyInv`
puts both key streams where the bytes put them; `CutsDoNotMatter` keeps it so
through a chunk of any size. `SizeInv` says that the sizes kept beside the queues
are their sums.

`HandlersOwed` is an invariant of its own, `OwedInv`: what a channel owes is what
its queues hold and what was destroyed behind the first of them. It is the safety
half of `OpsInterrupted`: no handler is lost in any other way.

`StreamSocketProofs` proves `TypeOK`, `SingleCountSound` and `RefusalsKnown` of
`StreamSocket` for all sizes of the buffers, the equal ones included, and
`SomeMoved` under the hypothesis that no call is made with an empty buffer
sequence (such a call succeeds at once and moves nothing). The invariant has

* `ChannelInv`: the counters are ordered, and what the peer grants is its receive
  buffer beyond what was read;
* `WriteCount` and `ReadCount`: a call with one buffer counts in the inner result
  until the buffer is left and in the outer one from then on, and a part under way
  ends at the tail, so that the count of `ostreamer::error` lies below what the
  peer has; a call that has moved nothing is still at its first buffer;
* `QuietInv` and `CareInv`: on a linked end nothing is unacknowledged between two
  parts, so the only part too large is one of the whole send buffer, and a write
  that was called with room and has moved nothing has it still.

`PacketFormatProofs` proves `TypeOK`, `FormatKept` and `FaultsKnown` of
`PacketFormat`, for every size of the buffer, also one that is smaller than a
section or a header, all contents left in it and any number and length of
sections. `Laid` says that the sections lie one behind the other, each with its
type, length and value; `ListInv`, that this holds up to the cursor; `MarkInv`,
that an end is marked there or the buffer behind it is as `produce()` found it;
`JobInv`, that the connector has used no more cells than its jobs up to the last
one written need. `StubLaid` and `ParseLaid` say what the walks of `stub()` and
`parse()` find in such a buffer.

The walks, and the sum of a queue in `TcpStream`, are recursive functions. The
library's induction theorems take an operator, which the provers cannot
instantiate, so the proofs make a property a set of numbers and take a least or
greatest number missing from it (`WFMin`): `Induction` in `TcpStreamProofs`,
`Downward` in `PacketFormatProofs`. That the recursive function exists is shown
in the same way (`WalkExists`, `ParseExists`).

So every safety property of the passing runs is proved, and the bounds of the
runs matter to liveness only. Only model-checked: `WritesAnswered`,
`ReadsAnswered`, `HandlersSettled`, `ComesToRest`, `LinkAnswered`,
`ListeningEnds`, `OpsInterrupted`, `StreamServed`, `AllRead` and `WriteReturns`
(liveness under fairness is outside the prover), and the four violations.

## Disagreements

Four runs show where the code and what is said of it part; PROJECT.json quotes
the lines. The models show some more, which no run is spent on:

* `writable()` of a UDP channel offers `send_buffer_size() - (tail - head)`
  bytes, one more than `streambuf::add` accepts (`udp/channel.cpp:540`), although
  `README.md:45` of the repository calls them bytes "that can be transmitted
  immediately". A write of all of it fails the channel unless the window of the
  peer is smaller than the send buffer; by default both are 5 MB. `RefusalsKnown`
  says that this and the empty part of `socket_full` are the only refusals.
* A second `shutdown()` on a channel whose tear is being answered replaces the
  handler of the first (`udp/channel.cpp:284`).
* `close()` between `feed()` and the connect of the socket in the receive
  handler: the connect opens the socket again (`udp/channel.cpp:975`).
* `close()` of a TCP channel whose retry timer has expired, or whose accepted
  connection is queued: the handler opens or fills the socket afterwards
  (`tcp/channel.cpp:155`, `:209`).
* `shutdown()` while a TCP connect is under way cancels the deadline and leaves
  the attempt to the kernel: `LinkAnswered` excepts it.
* An early write of a TCP channel that fails takes the head of the key stream
  with it: `StreamIntact` and `StreamServed` except it. The state of the key
  streams is not reset by a second connect of the same channel either.
* The handlers of reads and writes behind the first of a TCP queue are destroyed
  without a call when the last reference to the channel goes, also if it was
  closed before (`tcp/channel.cpp:257`): `OpsInterrupted` counts exactly those.
* When `ostreamer::imbue` returns on broken_pipe behind a resent flight
  (`udp/channel.cpp:448`), the list has no end mark: the peer parses stale cells
  as sections (`FormatKept` says which), or the walk of `trim()` leaves the buffer
  and ends the program. `connector::imbue` looks for the room of a header before a
  ping (`udp/channel.cpp:201`), whose value then throws; it takes a maximal packet
  smaller than the packet header and the connector's 40 bytes of sections, and
  `TUBUS_UDP_MAX_PACKET_SIZE` has no lower bound (`utils.cpp:54`). `FaultsKnown`
  says that there are no other ways to throw.

## Not modelled

* Memory and reference counts of the buffers: a buffer is the interval of bytes
  it holds; use after free is outside the models, except for the socket of an
  accept in `TcpLink`.
* The environment variables behind `qos`: they are the constants.
* `packet::invert` and the values of the key words: masking with the same key
  twice is the identity, and what matters, that both sides are at the same key
  word, is in `StreamCipher`. A packet's key stream starts anew with it.
* A failing `connect` of a datagram socket (`mistake()` would lock `m_mutex`
  twice), and packets of an earlier channel between the same addresses.
* A second link call on a TCP channel.
* Forwarding members of `socket.h` and `acceptor.h`, options, endpoints, logging.

Next: a second incarnation of an endpoint in `UdpChannel`, with packets of the
first still on their way, and the agreements proved for it.
