---------------------------- MODULE UdpChannel ----------------------------
(***************************************************************************)
(* The life of a UDP channel at its two endpoints (udp/channel.cpp): the   *)
(* connector, which links and tears the channel with link, tear and ping   *)
(* sections, and the transport around it, with its socket, its timer, its  *)
(* two loops produce() and consume() and the mistake() that ends them all. *)
(* The Initiator's application calls connect(), the Acceptor's accept().   *)
(*                                                                         *)
(* Every action is one critical section of m_mutex.  The handlers of one   *)
(* channel may run in different threads (tests/common.h runs the           *)
(* io_context in as many as the machine has), so a handler that takes the  *)
(* mutex twice is two actions.  A handler that is posted is a fact about   *)
(* the application (told, calls) as soon as it is posted.                  *)
(*                                                                         *)
(* The byte streams are abstracted to whether operations are pending (they *)
(* are the subject of UdpStream); clocks to whether a deadline is armed    *)
(* and, when a packet is produced, has passed; so a ping, which only tells *)
(* the time, is a packet that moves nothing.                               *)
(***************************************************************************)
EXTENDS Integers, FiniteSets

CONSTANTS
    Initiator, Acceptor,    \* the endpoints; also the pins of their channels
    NoPin,                  \* a pin that is not known: 0
    AnyPeer,                \* accept() is given an unspecified endpoint
    Listening,              \* the accepting channel is made by an acceptor
    Streaming,              \* the endpoints whose application reads or writes
    Shutters, Closers,      \* ... calls shutdown(), calls close()
    Unreachable,            \* the endpoints whose network may refuse a packet
    MaxCalls,               \* bound: calls of shutdown() at an endpoint
    NetCap                  \* bound: packets on the way to an endpoint

Endpoint == {Initiator, Acceptor}

ASSUME EndpointAssumption ==
    /\ Initiator # Acceptor
    /\ NoPin \notin Endpoint
    /\ AnyPeer \in BOOLEAN /\ Listening \in BOOLEAN
    /\ Streaming \subseteq Endpoint
    /\ Shutters \subseteq Endpoint /\ Closers \subseteq Endpoint
    /\ Unreachable \subseteq Endpoint
    /\ MaxCalls \in Nat /\ NetCap \in Nat

VARIABLES
    \* the connector
    status,     \* m_status
    local,      \* m_local # 0
    remote,     \* m_remote: the pin of the peer
    jobs,       \* m_jobs: the sections to send
    armed,      \* m_dead # max_date_time
    onConnect,  \* on_connect is set
    onShutdown, \* on_shutdown: the call it belongs to, or 0
    \* the transport
    socket,     \* m_socket
    bound,      \* m_remote is specified
    produce,    \* where the loop of produce() stands
    consume,    \* where the loop of consume() stands
    inbox,      \* the packet a queued receive handler holds
    posted,     \* an on_error is posted
    ops,        \* the streamers have pending readers or writers
    \* the network
    net,        \* the packets on the way to an endpoint
    \* history
    told,       \* what the handler of connect() or accept() was told
    calls,      \* what the handlers of shutdown() were told
    notified    \* a tear of the peer was parsed

connectorVars == <<status, local, remote, jobs, armed, onConnect, onShutdown,
                   told, calls>>
transportVars == <<socket, bound, produce, consume, inbox, posted, ops>>
vars == <<connectorVars, transportVars, net, notified>>

Status == {"neither", "initial", "accepting", "connecting", "linked",
           "shutting", "tearing", "finished"}

Echo == {"link_echo", "tear_echo"}

\* The sections that move the connector.  The others, pings and the sections of
\* the streamers, are not told apart: a ping only measures the round trip.
Section == {"link", "tear"} \cup Echo

Packet == [pin : Endpoint, secs : SUBSET Section]

Peer(e) == IF e = Initiator THEN Acceptor ELSE Initiator

----------------------------------------------------------------------------
Init ==
    /\ status = [e \in Endpoint |-> "neither"]
    /\ local = [e \in Endpoint |-> FALSE]
    /\ remote = [e \in Endpoint |-> NoPin]
    /\ jobs = [e \in Endpoint |-> {}]
    /\ armed = [e \in Endpoint |-> FALSE]
    /\ onConnect = [e \in Endpoint |-> FALSE]
    /\ onShutdown = [e \in Endpoint |-> 0]
    /\ socket = [e \in Endpoint |-> "closed"]
    /\ bound = [e \in Endpoint |-> FALSE]
    /\ produce = [e \in Endpoint |-> "idle"]
    /\ consume = [e \in Endpoint |-> "idle"]
    /\ inbox = [e \in Endpoint |-> {}]
    /\ posted = [e \in Endpoint |-> FALSE]
    /\ ops = [e \in Endpoint |-> FALSE]
    /\ net = [e \in Endpoint |-> {}]
    /\ told = [e \in Endpoint |-> "nothing"]
    /\ calls = [e \in Endpoint |-> [i \in 1 .. MaxCalls |-> "none"]]
    /\ notified = [e \in Endpoint |-> FALSE]

----------------------------------------------------------------------------
(* The network, the timer and the socket.                                  *)

\* async_send of a packet to endpoint e; a full network loses it.
SendTo(e, p) ==
    net' = IF Cardinality(net[e]) < NetCap
           THEN [net EXCEPT ![e] = @ \cup {p}]
           ELSE net

Lose(e, p) ==
    /\ net' = [net EXCEPT ![e] = @ \ {p}]
    /\ UNCHANGED <<connectorVars, transportVars, notified>>

\* The port of e is held by an acceptor that waits for a first packet.
Listens(e) == Listening /\ e = Acceptor /\ status[e] = "neither"

\* A packet meets a closed port: the sender's socket reports a refused
\* connection to the receive it waits in.
Bounce(e, p) ==
    /\ socket[e] = "closed" /\ ~Listens(e)
    /\ net' = [net EXCEPT ![e] = @ \ {p}]
    /\ socket[Peer(e)] = "connected" /\ consume[Peer(e)] = "waiting"
    /\ consume' = [consume EXCEPT ![Peer(e)] = "failed"]
    /\ UNCHANGED <<connectorVars, socket, bound, produce, inbox, posted, ops,
                   notified>>

\* m_timer.cancel(): the wait of the produce loop ends.
Woken(e) == IF produce[e] = "waiting" THEN "ready" ELSE produce[e]

\* The wait of the produce loop ends by itself.
Timer(e) ==
    /\ produce[e] = "waiting"
    /\ produce' = [produce EXCEPT ![e] = "ready"]
    /\ UNCHANGED <<connectorVars, socket, bound, consume, inbox, posted, ops,
                   net, notified>>

\* Mutant: the receive goes on.
AbortedNever(e) == consume[e]

\* m_socket.close(): the receive that is under way fails.
Aborted(e) == IF consume[e] = "waiting" THEN "failed" ELSE consume[e]

----------------------------------------------------------------------------
(* mistake(): the end of a channel.                                        *)

\* Mutant: the status is left as it is.
ErrorKeeps(e) ==
    /\ told' = IF onConnect[e] THEN [told EXCEPT ![e] = "error"] ELSE told
    /\ calls' = [calls EXCEPT ![e] = [i \in 1 .. MaxCalls |->
                   IF i = onShutdown[e] THEN "error" ELSE @[i]]]
    /\ onConnect' = [onConnect EXCEPT ![e] = FALSE]
    /\ onShutdown' = [onShutdown EXCEPT ![e] = 0]
    /\ local' = [local EXCEPT ![e] = FALSE]
    /\ remote' = [remote EXCEPT ![e] = NoPin]
    /\ armed' = [armed EXCEPT ![e] = FALSE]
    /\ jobs' = [jobs EXCEPT ![e] = {}]
    /\ status' = status

\* connector::error
Error(e) ==
    /\ told' = IF onConnect[e] THEN [told EXCEPT ![e] = "error"] ELSE told
    /\ calls' = [calls EXCEPT ![e] = [i \in 1 .. MaxCalls |->
                   IF i = onShutdown[e] THEN "error" ELSE @[i]]]
    /\ onConnect' = [onConnect EXCEPT ![e] = FALSE]
    /\ onShutdown' = [onShutdown EXCEPT ![e] = 0]
    /\ local' = [local EXCEPT ![e] = FALSE]
    /\ remote' = [remote EXCEPT ![e] = NoPin]
    /\ armed' = [armed EXCEPT ![e] = FALSE]
    /\ jobs' = [jobs EXCEPT ![e] = {}]
    /\ status' = [status EXCEPT ![e] = "finished"]

\* mistake(): the connector and the streamers fail, the socket is closed and
\* the timer is cancelled.
Mistake(e) ==
    /\ Error(e)
    /\ ops' = [ops EXCEPT ![e] = FALSE]
    /\ socket' = [socket EXCEPT ![e] = "closed"]

\* close()
Close(e) ==
    /\ e \in Closers
    /\ Mistake(e)
    /\ consume' = [consume EXCEPT ![e] = Aborted(e)]
    /\ produce' = [produce EXCEPT ![e] = Woken(e)]
    /\ UNCHANGED <<bound, inbox, posted, net, notified>>

\* The on_error that a connector or a streamer has posted.
OnError(e) ==
    /\ posted[e]
    /\ posted' = [posted EXCEPT ![e] = FALSE]
    /\ Mistake(e)
    /\ consume' = [consume EXCEPT ![e] = Aborted(e)]
    /\ produce' = [produce EXCEPT ![e] = Woken(e)]
    /\ UNCHANGED <<bound, inbox, net, notified>>

\* The handler of async_send, called with an error.
ProduceFails(e) ==
    /\ produce[e] = "failed"
    /\ Mistake(e)
    /\ produce' = [produce EXCEPT ![e] = "done"]
    /\ consume' = [consume EXCEPT ![e] = Aborted(e)]
    /\ UNCHANGED <<bound, inbox, posted, net, notified>>

\* The handler of async_receive or async_wait, called with an error.
ConsumeFails(e) ==
    /\ consume[e] = "failed"
    /\ Mistake(e)
    /\ consume' = [consume EXCEPT ![e] = "done"]
    /\ produce' = [produce EXCEPT ![e] = Woken(e)]
    /\ UNCHANGED <<bound, inbox, posted, net, notified>>

----------------------------------------------------------------------------
(* The operations of the application.                                      *)

\* open(): the socket is bound; a channel is opened once.
Open(e) ==
    /\ status[e] = "neither" /\ ~Listens(e)
    /\ status' = [status EXCEPT ![e] = "initial"]
    /\ socket' = [socket EXCEPT ![e] = "open"]
    /\ UNCHANGED <<local, remote, jobs, armed, onConnect, onShutdown, told,
                   calls, bound, produce, consume, inbox, posted, ops, net,
                   notified>>

\* connect(): the link job is set and run() posts both loops.
Connect(e) ==
    /\ e = Initiator
    /\ status[e] = "initial"
    /\ socket' = [socket EXCEPT ![e] = "connected"]
    /\ local' = [local EXCEPT ![e] = TRUE]
    /\ onConnect' = [onConnect EXCEPT ![e] = TRUE]
    /\ armed' = [armed EXCEPT ![e] = TRUE]
    /\ status' = [status EXCEPT ![e] = "connecting"]
    /\ jobs' = [jobs EXCEPT ![e] = @ \cup {"link"}]
    /\ produce' = [produce EXCEPT ![e] = "ready"]
    /\ UNCHANGED <<remote, onShutdown, told, calls, bound, consume, inbox,
                   posted, ops, net, notified>>

\* accept(): the socket is connected if the peer is specified.
AcceptFrom(e, anyone) ==
    /\ bound' = [bound EXCEPT ![e] = ~anyone]
    /\ socket' = [socket EXCEPT ![e] = IF anyone THEN @ ELSE "connected"]
    /\ local' = [local EXCEPT ![e] = TRUE]
    /\ onConnect' = [onConnect EXCEPT ![e] = TRUE]
    /\ armed' = [armed EXCEPT ![e] = TRUE]
    /\ status' = [status EXCEPT ![e] = "accepting"]
    /\ produce' = [produce EXCEPT ![e] = "ready"]
    /\ UNCHANGED <<remote, jobs, onShutdown, told, calls, consume, inbox,
                   posted, ops, notified>>

Accept(e) ==
    /\ e = Acceptor
    /\ status[e] = "initial"
    /\ AcceptFrom(e, AnyPeer)
    /\ UNCHANGED net

\* acceptor::accept and async_accept: a packet tells the address of its sender
\* and is gone with that; the peer's channel is opened at the same port and
\* accepts that address.
Admit(e, p) ==
    /\ Listens(e)
    /\ net' = [net EXCEPT ![e] = @ \ {p}]
    /\ AcceptFrom(e, FALSE)

\* read() or write() on a linked channel: the operation is pended, or refused
\* by the ostreamer, which posts an error for the whole channel.
Stream(e) ==
    /\ e \in Streaming
    /\ status[e] = "linked"
    /\ \/ ops' = [ops EXCEPT ![e] = TRUE] /\ UNCHANGED posted
       \/ posted' = [posted EXCEPT ![e] = TRUE] /\ UNCHANGED ops
    /\ produce' = [produce EXCEPT ![e] = Woken(e)]
    /\ UNCHANGED <<connectorVars, socket, bound, consume, inbox, net, notified>>

\* shutdown(), the i-th call of it that is pended: in any other status the
\* handler is answered at once and nothing changes, as with a connect(),
\* accept(), read() or write() that comes in the wrong status.
Shutdown(e, i) ==
    /\ e \in Shutters
    /\ status[e] \in {"linked", "tearing"}
    /\ calls[e][i] = "none" /\ \A j \in 1 .. (i - 1) : calls[e][j] # "none"
    /\ onShutdown' = [onShutdown EXCEPT ![e] = i]
    /\ calls' = [calls EXCEPT ![e][i] = "pending"]
    /\ armed' = [armed EXCEPT ![e] = TRUE]
    /\ IF status[e] = "linked"
       THEN /\ status' = [status EXCEPT ![e] = "shutting"]
            /\ jobs' = [jobs EXCEPT ![e] = @ \cup {"tear"}]
       ELSE UNCHANGED <<status, jobs>>
    /\ produce' = [produce EXCEPT ![e] = Woken(e)]
    /\ UNCHANGED <<local, remote, onConnect, told, socket, bound, consume,
                   inbox, posted, ops, net, notified>>

----------------------------------------------------------------------------
(* produce()                                                               *)

\* After the first produce(), run() calls consume().
Started(e) == IF consume[e] = "idle" THEN "ready" ELSE consume[e]

\* Mutant: the loop ends without a word to the streamers.
ProduceEndsOnly(e) ==
    /\ produce[e] = "ready"
    /\ status[e] = "finished"
    /\ produce' = [produce EXCEPT ![e] = "done"]
    /\ socket' = [socket EXCEPT ![e] = "closed"]
    /\ consume' = [consume EXCEPT ![e] =
                     IF @ = "idle" THEN "ready" ELSE Aborted(e)]
    /\ UNCHANGED <<connectorVars, bound, inbox, posted, ops, net, notified>>

\* produce() of a finished channel: the operations are aborted, the socket is
\* closed and the loop ends.
ProduceEnds(e) ==
    /\ produce[e] = "ready"
    /\ status[e] = "finished"
    /\ produce' = [produce EXCEPT ![e] = "done"]
    /\ socket' = [socket EXCEPT ![e] = "closed"]
    /\ ops' = [ops EXCEPT ![e] = FALSE]
    /\ consume' = [consume EXCEPT ![e] =
                     IF @ = "idle" THEN "ready" ELSE Aborted(e)]
    /\ UNCHANGED <<connectorVars, bound, inbox, posted, net, notified>>

\* Mutant: a packet carries the pin of its receiver.
PinRemote(e) == remote[e]

\* The pin connector::imbue writes into a packet: m_local.
Pin(e) == e

\* The packet is sent, which may end in an error of the network and does on a
\* socket without a peer, or the loop waits for the timer if it is empty; more
\* says whether it has sections of the streamers, which are asked on a linked
\* or connecting channel, or a ping, which may be due once it was linked.
Dispatch(e, st, secs, more) ==
    /\ more => st # "accepting"
    /\ IF secs = {} /\ ~more
       THEN /\ produce' = [produce EXCEPT ![e] = "waiting"]
            /\ UNCHANGED net
       ELSE \/ /\ socket[e] = "connected"
               /\ produce' = [produce EXCEPT ![e] = "ready"]
               /\ SendTo(Peer(e), [pin |-> Pin(e), secs |-> secs])
            \/ /\ socket[e] # "connected" \/ e \in Unreachable
               /\ produce' = [produce EXCEPT ![e] = "failed"]
               /\ UNCHANGED net

\* Mutant: the answer is sent and accept() is left waiting.
AcceptsNever(e, secs) == FALSE

\* The answer to a link completes accept().
Accepts(e, secs) == status[e] = "accepting" /\ "link_echo" \in secs

\* The status after connector::imbue has put the sections into the packet: an
\* acceptor is linked by its answer to a link, anyone is finished by its
\* answer to a tear.
Answered(e, secs) ==
    IF "tear_echo" \in secs THEN "finished"
    ELSE IF Accepts(e, secs) THEN "linked"
    ELSE status[e]

\* produce() of a channel in time: connector::imbue sends every echo and the
\* other jobs that are due, then the streamers add their sections.
Produce(e, due, more) ==
    /\ produce[e] = "ready"
    /\ status[e] # "finished"
    /\ due \subseteq jobs[e] \ Echo
    /\ LET secs == due \cup (jobs[e] \cap Echo)
           links == Accepts(e, secs)
       IN  /\ status' = [status EXCEPT ![e] = Answered(e, secs)]
           /\ jobs' = [jobs EXCEPT ![e] = @ \ Echo]
           /\ armed' = [armed EXCEPT ![e] = @ /\ ~links]
           /\ onConnect' = [onConnect EXCEPT ![e] = @ /\ ~links]
           /\ told' = IF links THEN [told EXCEPT ![e] = "success"] ELSE told
           /\ IF "tear_echo" \in secs
              THEN /\ onShutdown' = [onShutdown EXCEPT ![e] = 0]
                   /\ calls' = [calls EXCEPT ![e] = [i \in 1 .. MaxCalls |->
                         IF i = onShutdown[e] THEN "success" ELSE @[i]]]
              ELSE UNCHANGED <<onShutdown, calls>>
           /\ Dispatch(e, Answered(e, secs), secs, more)
    /\ consume' = [consume EXCEPT ![e] = Started(e)]
    /\ UNCHANGED <<local, remote, socket, bound, inbox, posted, ops, notified>>

\* Mutant: only silence is looked at, not the deadline.
LateLinked(e) == status[e] = "linked"

\* The deadline may have passed, or the last packet be too long ago.
Late(e) == armed[e] \/ status[e] = "linked"

\* produce() of a channel past its deadline, or of a linked one that has not
\* heard of its peer for too long: connector::imbue posts an error instead.
ProduceLate(e, more) ==
    /\ produce[e] = "ready"
    /\ status[e] # "finished"
    /\ Late(e)
    /\ posted' = [posted EXCEPT ![e] = TRUE]
    /\ Dispatch(e, status[e], {}, more)
    /\ consume' = [consume EXCEPT ![e] = Started(e)]
    /\ UNCHANGED <<connectorVars, socket, bound, inbox, ops, notified>>

----------------------------------------------------------------------------
(* consume()                                                               *)

\* consume() of a finished channel ends the loop ...
ConsumeEnds(e) ==
    /\ consume[e] = "ready"
    /\ status[e] = "finished"
    /\ consume' = [consume EXCEPT ![e] = "done"]
    /\ ops' = [ops EXCEPT ![e] = FALSE]
    /\ UNCHANGED <<connectorVars, socket, bound, produce, inbox, posted, net,
                   notified>>

\* ... of any other one waits for a packet.
Consume(e) ==
    /\ consume[e] = "ready"
    /\ status[e] # "finished"
    /\ consume' = [consume EXCEPT ![e] = "waiting"]
    /\ UNCHANGED <<connectorVars, socket, bound, produce, inbox, posted, ops,
                   net, notified>>

\* A packet arrives, perhaps not for the last time: the handler is queued.
Receive(e, p, again) ==
    /\ consume[e] = "waiting"
    /\ consume' = [consume EXCEPT ![e] = "received"]
    /\ inbox' = [inbox EXCEPT ![e] = {p}]
    /\ net' = IF again THEN net ELSE [net EXCEPT ![e] = @ \ {p}]
    /\ UNCHANGED <<connectorVars, socket, bound, produce, posted, ops, notified>>

\* connector::valid
Valid(e, p) == local[e] /\ remote[e] \in {NoPin, p.pin}

\* Mutant: any packet is taken for the answer to a tear.
ParsedAny(e, secs) ==
    LET linked == IF "link_echo" \in secs /\ status[e] = "connecting"
                  THEN "linked" ELSE status[e]
        torn   == IF "tear" \in secs /\ linked = "linked"
                  THEN "tearing" ELSE linked
    IN  IF torn = "shutting" THEN "finished" ELSE torn

\* Mutant: a tear tears a channel that is shutting, too.
ParsedAgain(e, secs) ==
    LET linked == IF "link_echo" \in secs /\ status[e] = "connecting"
                  THEN "linked" ELSE status[e]
        torn   == IF "tear" \in secs /\ linked \in {"linked", "shutting"}
                  THEN "tearing" ELSE linked
    IN  IF "tear_echo" \in secs /\ torn = "shutting" THEN "finished" ELSE torn

\* The status after connector::parse of the sections, in the order of their
\* types: link_echo links a connecting endpoint, tear tears a linked one, and
\* tear_echo finishes a shutting one.
Parsed(e, secs) ==
    LET linked == IF "link_echo" \in secs /\ status[e] = "connecting"
                  THEN "linked" ELSE status[e]
        torn   == IF "tear" \in secs /\ linked = "linked"
                  THEN "tearing" ELSE linked
    IN  IF "tear_echo" \in secs /\ torn = "shutting" THEN "finished" ELSE torn

\* connector::parse of packet p.
Parse(e, p) ==
    LET links == status[e] = "connecting" /\ "link_echo" \in p.secs
        tears == Parsed(e, p.secs) = "tearing" /\ status[e] # "tearing"
        ends  == Parsed(e, p.secs) = "finished" /\ status[e] = "shutting"
        answers == {s \in Echo : \/ s = "link_echo" /\ "link" \in p.secs
                                 \/ s = "tear_echo" /\ "tear" \in p.secs}
        over  == (IF links THEN {"link"} ELSE {})
                   \cup (IF ends THEN {"tear"} ELSE {})
    IN  /\ status' = [status EXCEPT ![e] = Parsed(e, p.secs)]
        /\ jobs' = [jobs EXCEPT ![e] = (@ \cup answers) \ over]
        /\ remote' = [remote EXCEPT ![e] =
                        IF links \/ (status[e] = "accepting"
                                       /\ "link" \in p.secs)
                        THEN p.pin ELSE @]
        /\ armed' = [armed EXCEPT ![e] = tears \/ (@ /\ ~links)]
        /\ onConnect' = [onConnect EXCEPT ![e] = @ /\ ~links]
        /\ told' = IF links THEN [told EXCEPT ![e] = "success"] ELSE told
        /\ IF ends
           THEN /\ onShutdown' = [onShutdown EXCEPT ![e] = 0]
                /\ calls' = [calls EXCEPT ![e] = [i \in 1 .. MaxCalls |->
                      IF i = onShutdown[e] THEN "success" ELSE @[i]]]
           ELSE UNCHANGED <<onShutdown, calls>>
        /\ notified' = [notified EXCEPT ![e] = @ \/ "tear" \in p.secs]
        /\ UNCHANGED local

\* feed() of the packet in the handler, done telling whether the streamers
\* have completed their operations.  As long as m_remote is not specified,
\* which connect() leaves so too, the sender of the packet becomes the remote
\* and the handler goes on to connect the socket to it.
Feed(e, p, done) ==
    /\ consume[e] = "received"
    /\ inbox' = [inbox EXCEPT ![e] = {}]
    /\ consume' = [consume EXCEPT ![e] =
                     IF bound[e] THEN "ready" ELSE "binding"]
    /\ bound' = [bound EXCEPT ![e] = TRUE]
    /\ IF Valid(e, p)
       THEN /\ Parse(e, p)
            /\ ops' = [ops EXCEPT ![e] =
                         /\ @
                         /\ ~(done /\ status[e] = "linked")
                         /\ status'[e] \notin {"tearing", "shutting"}]
            /\ produce' = [produce EXCEPT ![e] = Woken(e)]
       ELSE UNCHANGED <<connectorVars, notified, ops, produce>>
    /\ UNCHANGED <<socket, posted, net>>

\* m_socket.connect() to the sender of the packet.  It opens a socket that is
\* closed, as basic_socket::connect does.
Bind(e) ==
    /\ consume[e] = "binding"
    /\ socket' = [socket EXCEPT ![e] = "connected"]
    /\ consume' = [consume EXCEPT ![e] = "ready"]
    /\ UNCHANGED <<connectorVars, bound, produce, inbox, posted, ops, net,
                   notified>>

----------------------------------------------------------------------------
Runs(e) ==
    \/ ProduceEnds(e) \/ ConsumeEnds(e) \/ ProduceFails(e) \/ ConsumeFails(e)
    \/ OnError(e) \/ Timer(e) \/ Consume(e) \/ Bind(e)
    \/ \E due \in SUBSET jobs[e], more \in BOOLEAN : Produce(e, due, more)
    \/ \E more \in BOOLEAN : ProduceLate(e, more)
    \/ \E p \in inbox[e], done \in BOOLEAN : Feed(e, p, done)

Next ==
    \E e \in Endpoint :
        \/ Open(e) \/ Connect(e) \/ Accept(e) \/ Stream(e) \/ Close(e)
        \/ \E i \in 1 .. MaxCalls : Shutdown(e, i)
        \/ Runs(e)
        \/ \E p \in net[e] :
              \/ Lose(e, p) \/ Bounce(e, p) \/ Admit(e, p)
              \/ \E again \in BOOLEAN : Receive(e, p, again)

Spec == Init /\ [][Next]_vars

----------------------------------------------------------------------------
(* Properties.                                                             *)

\* The type invariant.
TypeOK ==
    /\ status \in [Endpoint -> Status]
    /\ local \in [Endpoint -> BOOLEAN]
    /\ remote \in [Endpoint -> Endpoint \cup {NoPin}]
    /\ jobs \in [Endpoint -> SUBSET Section]
    /\ armed \in [Endpoint -> BOOLEAN]
    /\ onConnect \in [Endpoint -> BOOLEAN]
    /\ onShutdown \in [Endpoint -> 0 .. MaxCalls]
    /\ socket \in [Endpoint -> {"closed", "open", "connected"}]
    /\ bound \in [Endpoint -> BOOLEAN]
    /\ produce \in [Endpoint ->
                       {"idle", "ready", "waiting", "failed", "done"}]
    /\ consume \in [Endpoint -> {"idle", "ready", "waiting", "received",
                                  "binding", "failed", "done"}]
    /\ inbox \in [Endpoint -> SUBSET Packet]
    /\ posted \in [Endpoint -> BOOLEAN]
    /\ ops \in [Endpoint -> BOOLEAN]
    /\ net \in [Endpoint -> SUBSET Packet]
    /\ told \in [Endpoint -> {"nothing", "success", "error"}]
    /\ calls \in [Endpoint -> [1 .. MaxCalls ->
                     {"none", "pending", "success", "error"}]]
    /\ notified \in [Endpoint -> BOOLEAN]

\* Both loops of the channel have ended: nothing will run any more but a call
\* of the application.
AtRest(e) == produce[e] = "done" /\ consume[e] = "done"

\* connector::parse and connector::imbue post on_connect and on_shutdown
\* without a look at them: whenever they may, the callback is there.
HandlersHeld ==
    \A e \in Endpoint :
        /\ status[e] \in {"accepting", "connecting"} => onConnect[e]
        /\ status[e] = "shutting" => onShutdown[e] # 0

\* When the handler of connect() is told success, the peer's accept() has been
\* told success too, whatever link and link_echo packets were lost or repeated.
LinkAgreement == told[Initiator] = "success" => told[Acceptor] = "success"

\* A shutdown() that was pended is told success only after a tear was parsed by
\* the peer, or by this endpoint when both shut down ("with the notification of
\* the remote side", README.md:40).
ShutdownAgreement ==
    \A e \in Endpoint, i \in 1 .. MaxCalls :
        calls[e][i] = "success" => notified[Peer(e)] \/ notified[e]

\* When the produce loop has ended the channel is finished and no read() or
\* write() is left without an answer.
OpsAborted ==
    \A e \in Endpoint :
        produce[e] = "done" => status[e] = "finished" /\ ~ops[e]

\* "interrupts all pended asynchronous operations" (README.md:40): no handler of
\* connect() or accept() is left unanswered by a channel at rest.
ConnectAnswered == \A e \in Endpoint : AtRest(e) => ~onConnect[e]

\* The stages of a channel's life.
Stage(st) ==
    CASE st = "neither" -> 0
      [] st = "initial" -> 1
      [] st \in {"accepting", "connecting"} -> 2
      [] st = "linked" -> 3
      [] st \in {"shutting", "tearing"} -> 4
      [] st = "finished" -> 5

\* A channel never goes back: no late or repeated link, link_echo, tear or
\* tear_echo revives it or restarts its shutdown, and what a connect handler
\* was told is final.
Forward ==
    [][\A e \in Endpoint :
          /\ status'[e] = status[e] \/ Stage(status[e]) < Stage(status'[e])
          /\ told[e] # "nothing" => told'[e] = told[e]]_vars

----------------------------------------------------------------------------
(* Liveness: the threads of the io_context run what is ready, and a deadline *)
(* that is armed passes.                                                     *)

Fairness ==
    \A e \in Endpoint :
        /\ WF_vars(\/ ProduceEnds(e) \/ ProduceFails(e)
                   \/ \E due \in SUBSET jobs[e], more \in BOOLEAN :
                         Produce(e, due, more))
        /\ SF_vars(armed[e] /\ \E more \in BOOLEAN : ProduceLate(e, more))
        /\ WF_vars(ConsumeEnds(e) \/ ConsumeFails(e) \/ Consume(e) \/ Bind(e)
                   \/ \E p \in inbox[e], done \in BOOLEAN : Feed(e, p, done))
        /\ WF_vars(OnError(e))
        /\ WF_vars(Timer(e))

FairSpec == Spec /\ Fairness

\* A handler of connect(), accept() or shutdown() waits to be called.
Waiting(e) == onConnect[e] \/ onShutdown[e] # 0

\* Every such handler is called, even if the peer never answers: the channel is
\* linked or torn, or connect_timeout(), accept_timeout() or shutdown_timeout()
\* passes, connector::imbue posts an error and mistake() calls the handler.
HandlersSettled ==
    (\E e \in Endpoint : Waiting(e)) ~> (\A e \in Endpoint : ~Waiting(e))

\* A channel that is finished while its loops run.
Ending(e) ==
    status[e] = "finished" /\ produce[e] # "idle" /\ ~AtRest(e)

\* A finished channel comes to rest, from wherever its loops were waiting: the
\* timer and the socket are released and the receive that is under way fails.
ComesToRest ==
    (\E e \in Endpoint : Ending(e)) ~> (\A e \in Endpoint : ~Ending(e))

=============================================================================
