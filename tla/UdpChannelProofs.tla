-------------------------- MODULE UdpChannelProofs --------------------------
(***************************************************************************)
(* The proofs about UdpChannel: what connect(), accept() and shutdown()    *)
(* handlers are told, for every number of calls and packets on the way and *)
(* whatever is lost, repeated or closed in between.  Most steps leave the  *)
(* connector alone or fail it as a whole; one lemma each covers those, and *)
(* the others have a lemma of their own.                                   *)
(***************************************************************************)
EXTENDS UdpChannel, TLAPS

\* A channel that was not used yet has no pin, no job and told nobody anything.
FreshInv ==
    \A e \in Endpoint :
        status[e] \in {"neither", "initial"} =>
            ~local[e] /\ jobs[e] = {} /\ told[e] = "nothing"

\* The handler of connect() or accept() is called once: as long as the
\* connector holds it, it was told nothing.
ToldInv == \A e \in Endpoint : onConnect[e] => told[e] = "nothing"

\* A link_echo is sent by an acceptor whose accept() has been told success.
LinkInv ==
    /\ LinkAgreement
    /\ status[Initiator] # "accepting" /\ status[Acceptor] # "connecting"
    /\ status[Acceptor] \in {"linked", "shutting", "tearing"} =>
          told[Acceptor] = "success"
    /\ \A p \in net[Initiator] \cup inbox[Initiator] :
          "link_echo" \in p.secs => told[Acceptor] = "success"

\* A tear_echo is sent by an endpoint that parsed a tear.
TearInv ==
    /\ ShutdownAgreement
    /\ \A e \in Endpoint : "tear_echo" \in jobs[e] => notified[e]
    /\ \A e \in Endpoint : \A p \in net[e] \cup inbox[e] :
          "tear_echo" \in p.secs => notified[Peer(e)]

ConnectorInv == HandlersHeld /\ FreshInv /\ ToldInv /\ LinkInv /\ TearInv

IndInv == TypeOK /\ OpsAborted /\ ConnectorInv

----------------------------------------------------------------------------
\* The endpoints are each other's peers.
LEMMA Peers ==
    /\ Initiator \in Endpoint /\ Acceptor \in Endpoint
    /\ Peer(Initiator) = Acceptor /\ Peer(Acceptor) = Initiator
    /\ \A e \in Endpoint : Peer(e) \in Endpoint /\ Peer(Peer(e)) = e
                           /\ (e = Initiator \/ e = Acceptor)
  BY EndpointAssumption DEF Endpoint, Peer

\* Channels that were never opened satisfy the invariant.
LEMMA InitInv == Init => IndInv
<1> SUFFICES ASSUME Init PROVE IndInv
  OBVIOUS
<1> USE DEF Init
<1>1. TypeOK
  BY EndpointAssumption DEF TypeOK, Status
<1>2. OpsAborted
  BY DEF OpsAborted
<1>3. HandlersHeld /\ FreshInv /\ ToldInv
  BY DEF HandlersHeld, FreshInv, ToldInv
<1>4. LinkInv
  BY Peers DEF LinkInv, LinkAgreement
<1>5. TearInv
  BY DEF TearInv, ShutdownAgreement
<1> QED
  BY <1>1, <1>2, <1>3, <1>4, <1>5 DEF IndInv, ConnectorInv

----------------------------------------------------------------------------
(* Type correctness: one step per action.                                  *)

\* An update at one endpoint keeps the type of a function.
LEMMA Update ==
    ASSUME NEW S, NEW f \in [Endpoint -> S], NEW e \in Endpoint, NEW x \in S
    PROVE  [f EXCEPT ![e] = x] \in [Endpoint -> S]
  OBVIOUS

\* A dispatched packet is a packet, and leaves the loop where it may stand.
LEMMA DispatchType ==
    ASSUME TypeOK, NEW e \in Endpoint, NEW st, NEW secs \in SUBSET Section,
           NEW more \in BOOLEAN, Dispatch(e, st, secs, more)
    PROVE  /\ net' \in [Endpoint -> SUBSET Packet]
           /\ produce' \in [Endpoint ->
                               {"idle", "ready", "waiting", "failed", "done"}]
<1>1. /\ net \in [Endpoint -> SUBSET Packet]
      /\ produce \in [Endpoint ->
                         {"idle", "ready", "waiting", "failed", "done"}]
  BY DEF TypeOK
<1>2. [pin |-> Pin(e), secs |-> secs] \in Packet
  BY DEF Pin, Packet
<1> DEFINE p == [pin |-> Pin(e), secs |-> secs]
<1> HIDE DEF p
<1>3. net' = net \/ net' = [net EXCEPT ![Peer(e)] = @ \cup {p}]
  BY DEF Dispatch, SendTo, p
<1>4. p \in Packet
  BY <1>2 DEF p
<1>5. net' \in [Endpoint -> SUBSET Packet]
  BY <1>1, <1>3, <1>4, Peers
<1>6. produce' \in [Endpoint ->
                       {"idle", "ready", "waiting", "failed", "done"}]
  BY <1>1 DEF Dispatch
<1> QED
  BY <1>5, <1>6

\* shutdown() keeps the state well typed.
LEMMA ShutdownType ==
    ASSUME TypeOK, NEW e \in Endpoint, NEW i \in 1 .. MaxCalls, Shutdown(e, i)
    PROVE  TypeOK'
<1>1. calls' \in [Endpoint -> [1 .. MaxCalls ->
                    {"none", "pending", "success", "error"}]]
  <2>1. calls' = [calls EXCEPT ![e] = [calls[e] EXCEPT ![i] = "pending"]]
    BY DEF Shutdown, TypeOK
  <2>2. [calls[e] EXCEPT ![i] = "pending"] \in
           [1 .. MaxCalls -> {"none", "pending", "success", "error"}]
    BY DEF TypeOK
  <2> QED
    <3>1. calls \in [Endpoint -> [1 .. MaxCalls ->
                       {"none", "pending", "success", "error"}]]
      BY DEF TypeOK
    <3> QED
      BY <2>1, <2>2, <3>1, Update
<1>2. /\ onShutdown' \in [Endpoint -> 0 .. MaxCalls]
      /\ armed' \in [Endpoint -> BOOLEAN]
  <2>1. i \in 0 .. MaxCalls
    BY EndpointAssumption
  <2> QED
    BY <2>1 DEF Shutdown, TypeOK
<1>3. /\ status' \in [Endpoint -> Status]
      /\ jobs' \in [Endpoint -> SUBSET Section]
  <2>1. CASE status[e] = "linked"
    <3>1. /\ status' = [status EXCEPT ![e] = "shutting"]
          /\ jobs' = [jobs EXCEPT ![e] = jobs[e] \cup {"tear"}]
      BY <2>1 DEF Shutdown
    <3>2. jobs[e] \cup {"tear"} \in SUBSET Section /\ "shutting" \in Status
      BY DEF TypeOK, Section, Status
    <3>3. status \in [Endpoint -> Status] /\ jobs \in [Endpoint -> SUBSET Section]
      BY DEF TypeOK
    <3> QED
      BY <3>1, <3>2, <3>3, Update
  <2>2. CASE status[e] # "linked"
    BY <2>2 DEF Shutdown, TypeOK
  <2> QED
    BY <2>1, <2>2
<1>4. produce' \in [Endpoint ->
                      {"idle", "ready", "waiting", "failed", "done"}]
  BY DEF Shutdown, Woken, TypeOK
<1> QED
  BY <1>1, <1>2, <1>3, <1>4 DEF Shutdown, TypeOK

\* produce() of a channel in time keeps the state well typed.
LEMMA ProduceType ==
    ASSUME TypeOK, NEW e \in Endpoint, NEW due \in SUBSET jobs[e],
           NEW more \in BOOLEAN, Produce(e, due, more)
    PROVE  TypeOK'
<1> DEFINE secs == due \cup (jobs[e] \cap Echo)
           links == Accepts(e, secs)
<1>1. secs \in SUBSET Section
  BY DEF TypeOK
<1>2. links \in BOOLEAN
  BY DEF Accepts, TypeOK
<1>3. Dispatch(e, Answered(e, secs), secs, more)
  BY DEF Produce, TypeOK
<1>4. /\ status' = [status EXCEPT ![e] = Answered(e, secs)]
      /\ jobs' = [jobs EXCEPT ![e] = @ \ Echo]
      /\ armed' = [armed EXCEPT ![e] = @ /\ ~links]
      /\ onConnect' = [onConnect EXCEPT ![e] = @ /\ ~links]
      /\ told' = IF links THEN [told EXCEPT ![e] = "success"] ELSE told
      /\ \/ /\ onShutdown' = [onShutdown EXCEPT ![e] = 0]
            /\ calls' = [calls EXCEPT ![e] = [i \in 1 .. MaxCalls |->
                  IF i = onShutdown[e] THEN "success" ELSE @[i]]]
         \/ UNCHANGED <<onShutdown, calls>>
      /\ consume' = [consume EXCEPT ![e] = Started(e)]
  BY DEF Produce, TypeOK
<1>5. UNCHANGED <<local, remote, socket, bound, inbox, posted, ops, notified>>
  BY DEF Produce, TypeOK
<1> HIDE DEF secs, links
<1>6. /\ status' \in [Endpoint -> Status]
      /\ jobs' \in [Endpoint -> SUBSET Section]
      /\ told' \in [Endpoint -> {"nothing", "success", "error"}]
  BY <1>4 DEF Answered, Status, TypeOK
<1>7. armed' \in [Endpoint -> BOOLEAN] /\ onConnect' \in [Endpoint -> BOOLEAN]
  BY <1>4, <1>2, Zenon DEF TypeOK
<1>8. onShutdown' \in [Endpoint -> 0 .. MaxCalls]
  <2>1. 0 \in 0 .. MaxCalls
    BY EndpointAssumption
  <2> QED
    BY <1>4, <2>1 DEF TypeOK
<1>9. calls' \in [Endpoint -> [1 .. MaxCalls ->
                    {"none", "pending", "success", "error"}]]
  <2>1. CASE calls' = calls
    BY <2>1 DEF TypeOK
  <2>2. CASE calls' = [calls EXCEPT ![e] = [i \in 1 .. MaxCalls |->
                         IF i = onShutdown[e] THEN "success" ELSE @[i]]]
    BY <2>2 DEF TypeOK
  <2> QED
    BY <1>4, <2>1, <2>2
<1>10. consume' \in [Endpoint -> {"idle", "ready", "waiting", "received",
                                   "binding", "failed", "done"}]
  BY <1>4 DEF Started, TypeOK
<1>11. /\ net' \in [Endpoint -> SUBSET Packet]
       /\ produce' \in [Endpoint ->
                          {"idle", "ready", "waiting", "failed", "done"}]
  BY <1>1, <1>3, DispatchType
<1> QED
  BY <1>5, <1>6, <1>7, <1>8, <1>9, <1>10, <1>11 DEF TypeOK

\* produce() past a deadline keeps the state well typed.
LEMMA ProduceLateType ==
    ASSUME TypeOK, NEW e \in Endpoint, NEW more \in BOOLEAN, ProduceLate(e, more)
    PROVE  TypeOK'
<1>1. /\ net' \in [Endpoint -> SUBSET Packet]
      /\ produce' \in [Endpoint ->
                         {"idle", "ready", "waiting", "failed", "done"}]
  <2>1. Dispatch(e, status[e], {}, more) /\ {} \in SUBSET Section
    BY DEF ProduceLate
  <2> QED
    BY <2>1, DispatchType
<1>2. consume' \in [Endpoint -> {"idle", "ready", "waiting", "received",
                                  "binding", "failed", "done"}]
  BY DEF ProduceLate, Started, TypeOK
<1> QED
  BY <1>1, <1>2 DEF ProduceLate, TypeOK, connectorVars

\* feed() keeps the state well typed.
LEMMA FeedType ==
    ASSUME TypeOK, NEW e \in Endpoint, NEW p \in inbox[e], NEW done \in BOOLEAN,
           Feed(e, p, done)
    PROVE  TypeOK'
<1>1. /\ UNCHANGED <<socket, posted, net>>
      /\ inbox' = [inbox EXCEPT ![e] = {}]
      /\ bound' = [bound EXCEPT ![e] = TRUE]
      /\ consume' = [consume EXCEPT ![e] =
                        IF bound[e] THEN "ready" ELSE "binding"]
  BY DEF Feed, TypeOK
<1>2. /\ inbox' \in [Endpoint -> SUBSET Packet]
      /\ bound' \in [Endpoint -> BOOLEAN]
      /\ consume' \in [Endpoint -> {"idle", "ready", "waiting", "received",
                                     "binding", "failed", "done"}]
  BY <1>1 DEF TypeOK
<1>3. CASE UNCHANGED <<connectorVars, notified, ops, produce>>
  BY <1>1, <1>2, <1>3 DEF TypeOK, connectorVars
<1>4. CASE /\ Parse(e, p)
           /\ ops' = [ops EXCEPT ![e] =
                        /\ @
                        /\ ~(done /\ status[e] = "linked")
                        /\ status'[e] \notin {"tearing", "shutting"}]
           /\ produce' = [produce EXCEPT ![e] = Woken(e)]
  <2>1. status' \in [Endpoint -> Status]
    BY <1>4 DEF Parse, Parsed, Status, TypeOK
  <2>2. jobs' \in [Endpoint -> SUBSET Section]
    BY <1>4 DEF Parse, Section, Echo, TypeOK
  <2>3. remote' \in [Endpoint -> Endpoint \cup {NoPin}]
    BY <1>4 DEF Parse, Packet, TypeOK
  <2>4. told' \in [Endpoint -> {"nothing", "success", "error"}]
    BY <1>4 DEF Parse, TypeOK
  <2>5. armed' \in [Endpoint -> BOOLEAN] /\ onConnect' \in [Endpoint -> BOOLEAN]
    BY <1>4, Zenon DEF Parse, TypeOK
  <2>6. notified' \in [Endpoint -> BOOLEAN]
    BY <1>4, Zenon DEF Parse, TypeOK
  <2>7. onShutdown' \in [Endpoint -> 0 .. MaxCalls]
    BY <1>4, EndpointAssumption DEF Parse, TypeOK
  <2>8. calls' \in [Endpoint -> [1 .. MaxCalls ->
                      {"none", "pending", "success", "error"}]]
    <3>1. \/ calls' = calls
          \/ calls' = [calls EXCEPT ![e] = [i \in 1 .. MaxCalls |->
                           IF i = onShutdown[e] THEN "success" ELSE @[i]]]
      BY <1>4 DEF Parse
    <3>2. CASE calls' = calls
      BY <3>2 DEF TypeOK
    <3>3. CASE calls' = [calls EXCEPT ![e] = [i \in 1 .. MaxCalls |->
                           IF i = onShutdown[e] THEN "success" ELSE @[i]]]
      BY <3>3 DEF TypeOK
    <3> QED
      BY <3>1, <3>2, <3>3
  <2>9. ops' \in [Endpoint -> BOOLEAN]
    BY <1>4, Zenon DEF TypeOK
  <2>10. produce' \in [Endpoint ->
                         {"idle", "ready", "waiting", "failed", "done"}]
    BY <1>4 DEF Woken, TypeOK
  <2>11. local' = local
    BY <1>4 DEF Parse, TypeOK
  <2> QED
    BY <1>1, <1>2, <2>1, <2>2, <2>3, <2>4, <2>5, <2>6, <2>7, <2>8, <2>9,
       <2>10, <2>11 DEF TypeOK
<1> QED
  BY <1>3, <1>4 DEF Feed

\* Every step keeps the state well typed.
LEMMA TypeStep == TypeOK /\ [Next]_vars => TypeOK'
<1> SUFFICES ASSUME TypeOK, [Next]_vars PROVE TypeOK'
  OBVIOUS
<1>1. ASSUME NEW e \in Endpoint, NEW i \in 1 .. MaxCalls, Shutdown(e, i)
      PROVE  TypeOK'
  BY <1>1, ShutdownType
<1>2. ASSUME NEW e \in Endpoint, NEW due \in SUBSET jobs[e],
              NEW more \in BOOLEAN, Produce(e, due, more)
       PROVE  TypeOK'
  BY <1>2, ProduceType
<1>3. ASSUME NEW e \in Endpoint, NEW more \in BOOLEAN, ProduceLate(e, more)
       PROVE  TypeOK'
  BY <1>3, ProduceLateType
<1>4. ASSUME NEW e \in Endpoint, NEW p \in inbox[e], NEW done \in BOOLEAN,
              Feed(e, p, done)
       PROVE  TypeOK'
  BY <1>4, FeedType
<1> USE DEF TypeOK, connectorVars, transportVars
<1>5. ASSUME NEW e \in Endpoint, Open(e) PROVE TypeOK'
  BY <1>5 DEF Open, Status
<1>6. ASSUME NEW e \in Endpoint, Connect(e) PROVE TypeOK'
  BY <1>6 DEF Connect, Status, Section
<1>7. ASSUME NEW e \in Endpoint, Accept(e) PROVE TypeOK'
  BY <1>7, EndpointAssumption DEF Accept, AcceptFrom, Status
<1>8. ASSUME NEW e \in Endpoint, Stream(e) PROVE TypeOK'
  BY <1>8 DEF Stream, Woken
<1>9. ASSUME NEW e \in Endpoint, Close(e) PROVE TypeOK'
  BY <1>9, EndpointAssumption DEF Close, Mistake, Error, Aborted, Woken, Status
<1>10. ASSUME NEW e \in Endpoint, ProduceEnds(e) PROVE TypeOK'
  BY <1>10 DEF ProduceEnds, Aborted
<1>11. ASSUME NEW e \in Endpoint, ConsumeEnds(e) PROVE TypeOK'
  BY <1>11 DEF ConsumeEnds
<1>12. ASSUME NEW e \in Endpoint, ProduceFails(e) PROVE TypeOK'
  BY <1>12, EndpointAssumption DEF ProduceFails, Mistake, Error, Aborted, Status
<1>13. ASSUME NEW e \in Endpoint, ConsumeFails(e) PROVE TypeOK'
  BY <1>13, EndpointAssumption DEF ConsumeFails, Mistake, Error, Woken, Status
<1>14. ASSUME NEW e \in Endpoint, OnError(e) PROVE TypeOK'
  BY <1>14, EndpointAssumption DEF OnError, Mistake, Error, Aborted, Woken, Status
<1>15. ASSUME NEW e \in Endpoint, Timer(e) \/ Consume(e) \/ Bind(e)
       PROVE  TypeOK'
  BY <1>15 DEF Timer, Consume, Bind
<1>16. ASSUME NEW e \in Endpoint, NEW p \in net[e], Lose(e, p)
       PROVE  TypeOK'
  BY <1>16 DEF Lose
<1>17. ASSUME NEW e \in Endpoint, NEW p \in net[e], Bounce(e, p)
       PROVE  TypeOK'
  BY <1>17, Peers DEF Bounce
<1>18. ASSUME NEW e \in Endpoint, NEW p \in net[e], Admit(e, p)
       PROVE  TypeOK'
  BY <1>18 DEF Admit, AcceptFrom, Status
<1>19. ASSUME NEW e \in Endpoint, NEW p \in net[e], NEW again \in BOOLEAN,
              Receive(e, p, again)
       PROVE  TypeOK'
  BY <1>19 DEF Receive
<1>20. CASE UNCHANGED vars
  BY <1>20 DEF vars
<1> QED
  BY <1>1, <1>2, <1>3, <1>4, <1>5, <1>6, <1>7, <1>8, <1>9, <1>10, <1>11, <1>12,
     <1>13, <1>14, <1>15, <1>16, <1>17, <1>18, <1>19, <1>20 DEF Next, Runs

----------------------------------------------------------------------------
(* The operations of the streamers.                                        *)

\* No step leaves an operation to a channel whose produce loop has ended.
LEMMA OpsStep ==
    ASSUME TypeOK, OpsAborted, [Next]_vars
    PROVE  OpsAborted'
<1> USE DEF TypeOK, OpsAborted, connectorVars, transportVars
\* the channel fails: it is finished and its operations are aborted
<1>1. ASSUME NEW e \in Endpoint, Mistake(e),
             \A x \in Endpoint : x # e => produce'[x] = produce[x]
      PROVE  OpsAborted'
  BY <1>1 DEF Mistake, Error
<1>2. ASSUME NEW e \in Endpoint,
             Close(e) \/ OnError(e) \/ ProduceFails(e) \/ ConsumeFails(e)
      PROVE  OpsAborted'
  <2>1. Mistake(e)
    BY <1>2 DEF Close, OnError, ProduceFails, ConsumeFails
  <2>2. \A x \in Endpoint : x # e => produce'[x] = produce[x]
    BY <1>2 DEF Close, OnError, ProduceFails, ConsumeFails
  <2> HIDE DEF OpsAborted
  <2> QED
    BY <1>1, <2>1, <2>2
\* a loop that has ended is not restarted
<1>3. ASSUME NEW e \in Endpoint, Open(e) \/ Connect(e) PROVE OpsAborted'
  BY <1>3 DEF Open, Connect
<1>4. ASSUME NEW e \in Endpoint, Accept(e) PROVE OpsAborted'
  BY <1>4 DEF Accept, AcceptFrom
<1>5. ASSUME NEW e \in Endpoint, NEW p \in net[e], Admit(e, p)
      PROVE  OpsAborted'
  BY <1>5 DEF Admit, AcceptFrom, Listens
<1>6. ASSUME NEW e \in Endpoint, Stream(e) PROVE OpsAborted'
  BY <1>6 DEF Stream, Woken
<1>7. ASSUME NEW e \in Endpoint, NEW i \in 1 .. MaxCalls, Shutdown(e, i)
      PROVE  OpsAborted'
  BY <1>7 DEF Shutdown, Woken
<1>8. ASSUME NEW e \in Endpoint, ProduceEnds(e) PROVE OpsAborted'
  BY <1>8 DEF ProduceEnds
<1>9. ASSUME NEW e \in Endpoint, ConsumeEnds(e) PROVE OpsAborted'
  BY <1>9 DEF ConsumeEnds
<1>10. ASSUME NEW e \in Endpoint, Timer(e) \/ Consume(e) \/ Bind(e)
      PROVE  OpsAborted'
  BY <1>10 DEF Timer, Consume, Bind
<1>11. ASSUME NEW e \in Endpoint, NEW due \in SUBSET jobs[e],
              NEW more \in BOOLEAN, Produce(e, due, more)
       PROVE  OpsAborted'
  BY <1>11 DEF Produce, Dispatch
<1>12. ASSUME NEW e \in Endpoint, NEW more \in BOOLEAN, ProduceLate(e, more)
       PROVE  OpsAborted'
  BY <1>12 DEF ProduceLate, Dispatch
<1>13. ASSUME NEW e \in Endpoint, NEW p \in inbox[e], NEW done \in BOOLEAN,
              Feed(e, p, done)
       PROVE  OpsAborted'
  <2>1. /\ \A x \in Endpoint : x # e => /\ produce'[x] = produce[x]
                                        /\ status'[x] = status[x]
                                        /\ ops'[x] = ops[x]
        /\ produce'[e] = "done" => produce[e] = "done"
        /\ ops'[e] => ops[e]
        /\ status[e] = "finished" => status'[e] = "finished"
    BY <1>13 DEF Feed, Parse, Parsed, Woken
  <2> QED
    BY <2>1
<1>14. ASSUME NEW e \in Endpoint, NEW p \in net[e], Lose(e, p) \/ Bounce(e, p)
       PROVE  OpsAborted'
  BY <1>14 DEF Lose, Bounce
<1>15. ASSUME NEW e \in Endpoint, NEW p \in net[e], NEW again \in BOOLEAN,
              Receive(e, p, again)
       PROVE  OpsAborted'
  BY <1>15 DEF Receive
<1>16. CASE UNCHANGED vars
  BY <1>16 DEF vars
<1> HIDE DEF OpsAborted, TypeOK
<1> QED
  BY <1>2, <1>3, <1>4, <1>5, <1>6, <1>7, <1>8, <1>9, <1>10, <1>11, <1>12,
     <1>13, <1>14, <1>15, <1>16 DEF Next, Runs

----------------------------------------------------------------------------
(* The connector.                                                          *)

\* A step that leaves the connector alone and puts no echo on the way keeps
\* what the connectors agree on.
LEMMA QuietStep ==
    ASSUME ConnectorInv, UNCHANGED <<connectorVars, notified>>,
           \A x \in Endpoint : \A p \in net'[x] \cup inbox'[x] :
              p \in net[x] \cup inbox[x] \/ p.secs = {}
    PROVE  ConnectorInv'
<1> USE DEF ConnectorInv, connectorVars
<1>1. HandlersHeld' /\ FreshInv' /\ ToldInv'
  BY DEF HandlersHeld, FreshInv, ToldInv
<1>2. LinkInv'
  BY Peers DEF LinkInv, LinkAgreement
<1>3. TearInv'
  BY DEF TearInv, ShutdownAgreement
<1> QED
  BY <1>1, <1>2, <1>3

\* connector::error keeps it: only a handler that was told nothing is told of
\* the error, so an accept() that succeeded stays so.
LEMMA ErrorStep ==
    ASSUME TypeOK, ConnectorInv, NEW e \in Endpoint, Error(e),
           UNCHANGED <<net, inbox, notified>>
    PROVE  ConnectorInv'
<1> USE DEF ConnectorInv, TypeOK
<1>1. HandlersHeld'
  BY DEF HandlersHeld, Error
<1>2. FreshInv'
  BY DEF FreshInv, Error
<1>3. ToldInv'
  BY DEF ToldInv, Error
<1>4. LinkInv'
  BY Peers DEF LinkInv, LinkAgreement, ToldInv, Error
<1>5. TearInv'
  <2>1. ShutdownAgreement'
    BY DEF TearInv, ShutdownAgreement, Error
  <2> QED
    BY <2>1 DEF TearInv, Error
<1> QED
  BY <1>1, <1>2, <1>3, <1>4, <1>5

\* open() keeps it.
LEMMA OpenStep ==
    ASSUME TypeOK, ConnectorInv, NEW e \in Endpoint, Open(e)
    PROVE  ConnectorInv'
<1> USE DEF ConnectorInv, TypeOK, Open
<1>1. HandlersHeld' /\ FreshInv' /\ ToldInv'
  BY DEF HandlersHeld, FreshInv, ToldInv
<1>2. LinkInv'
  BY Peers DEF LinkInv, LinkAgreement
<1>3. TearInv'
  BY DEF TearInv, ShutdownAgreement
<1> QED
  BY <1>1, <1>2, <1>3

\* connect() keeps it: the handler it holds was told nothing.
LEMMA ConnectStep ==
    ASSUME TypeOK, ConnectorInv, NEW e \in Endpoint, Connect(e)
    PROVE  ConnectorInv'
<1> USE DEF ConnectorInv, TypeOK, Connect
<1>1. HandlersHeld'
  BY DEF HandlersHeld
<1>2. FreshInv' /\ ToldInv'
  BY DEF FreshInv, ToldInv
<1>3. LinkInv'
  BY Peers, EndpointAssumption DEF LinkInv, LinkAgreement
<1>4. TearInv'
  BY DEF TearInv, ShutdownAgreement
<1> QED
  BY <1>1, <1>2, <1>3, <1>4

\* accept() keeps it, called by the application or by an acceptor that was
\* sent a first packet.
LEMMA AcceptStep ==
    ASSUME TypeOK, ConnectorInv, NEW e \in Endpoint,
           Accept(e) \/ \E p \in net[e] : Admit(e, p)
    PROVE  ConnectorInv'
<1>1. /\ e = Acceptor /\ status[e] \in {"neither", "initial"}
      /\ status' = [status EXCEPT ![e] = "accepting"]
      /\ local' = [local EXCEPT ![e] = TRUE]
      /\ onConnect' = [onConnect EXCEPT ![e] = TRUE]
      /\ UNCHANGED <<jobs, onShutdown, told, calls, inbox, notified>>
  BY DEF Accept, Admit, AcceptFrom, Listens
<1>2. \A x \in Endpoint : net'[x] \subseteq net[x]
  BY DEF Accept, Admit, TypeOK
<1> USE DEF ConnectorInv, TypeOK
<1>3. HandlersHeld'
  BY <1>1 DEF HandlersHeld
<1>4. FreshInv' /\ ToldInv'
  BY <1>1 DEF FreshInv, ToldInv
<1>5. LinkInv'
  BY <1>1, <1>2, Peers, EndpointAssumption DEF LinkInv, LinkAgreement
<1>6. TearInv'
  BY <1>1, <1>2 DEF TearInv, ShutdownAgreement
<1> QED
  BY <1>3, <1>4, <1>5, <1>6

\* shutdown() keeps it: the handler is held before the status is shutting.
LEMMA ShutdownStep ==
    ASSUME TypeOK, ConnectorInv, NEW e \in Endpoint,
           NEW i \in 1 .. MaxCalls, Shutdown(e, i)
    PROVE  ConnectorInv'
<1>1. /\ onShutdown' = [onShutdown EXCEPT ![e] = i]
      /\ calls' = [calls EXCEPT ![e][i] = "pending"]
      /\ UNCHANGED <<local, onConnect, told, inbox, net, notified>>
      /\ status[e] \in {"linked", "tearing"}
      /\ \/ /\ status[e] = "linked"
            /\ status' = [status EXCEPT ![e] = "shutting"]
            /\ jobs' = [jobs EXCEPT ![e] = @ \cup {"tear"}]
         \/ UNCHANGED <<status, jobs>>
  BY DEF Shutdown
<1> USE DEF ConnectorInv, TypeOK
<1>2. HandlersHeld'
  BY <1>1, EndpointAssumption DEF HandlersHeld
<1>3. FreshInv' /\ ToldInv'
  BY <1>1 DEF FreshInv, ToldInv
<1>4. LinkInv'
  BY <1>1, Peers, EndpointAssumption DEF LinkInv, LinkAgreement
<1>5. TearInv'
  <2>1. ShutdownAgreement'
    BY <1>1 DEF TearInv, ShutdownAgreement
  <2>2. ASSUME NEW x \in Endpoint, "tear_echo" \in jobs'[x]
        PROVE  "tear_echo" \in jobs[x]
    <3>1. jobs'[x] = jobs[x] \/ jobs'[x] = jobs[x] \cup {"tear"}
      BY <1>1
    <3> QED
      BY <2>2, <3>1
  <2> QED
    BY <1>1, <2>1, <2>2 DEF TearInv
<1> QED
  BY <1>2, <1>3, <1>4, <1>5

\* What produce() does to the connector, secs being the sections it puts into
\* the packet.
Produced(e, secs) ==
    /\ status[e] # "finished"
    /\ status' = [status EXCEPT ![e] = Answered(e, secs)]
    /\ jobs' = [jobs EXCEPT ![e] = @ \ Echo]
    /\ onConnect' = [onConnect EXCEPT ![e] = @ /\ ~Accepts(e, secs)]
    /\ told' = IF Accepts(e, secs)
               THEN [told EXCEPT ![e] = "success"] ELSE told
    /\ \/ /\ "tear_echo" \in secs
          /\ onShutdown' = [onShutdown EXCEPT ![e] = 0]
          /\ calls' = [calls EXCEPT ![e] = [i \in 1 .. MaxCalls |->
                IF i = onShutdown[e] THEN "success" ELSE @[i]]]
       \/ "tear_echo" \notin secs /\ UNCHANGED <<onShutdown, calls>>
    /\ UNCHANGED <<local, inbox, notified>>
    /\ \A x \in Endpoint : \A p \in net'[x] :
          p \in net[x] \/ (x = Peer(e) /\ p.secs = secs)

\* produce() has the effect Produced for sections it had to send.
LEMMA ProduceEffect ==
    ASSUME TypeOK, NEW e \in Endpoint, NEW due \in SUBSET jobs[e],
           NEW more \in BOOLEAN, Produce(e, due, more)
    PROVE  \E secs \in SUBSET jobs[e] : Produced(e, secs)
<1> DEFINE secs == due \cup (jobs[e] \cap Echo)
<1>1. secs \in SUBSET jobs[e]
  OBVIOUS
<1>2. Dispatch(e, Answered(e, secs), secs, more)
  BY DEF Produce
<1>3. \A x \in Endpoint : \A p \in net'[x] :
         p \in net[x] \/ (x = Peer(e) /\ p.secs = secs)
  <2> HIDE DEF secs
  <2>1. \/ net' = net
        \/ net' = [net EXCEPT ![Peer(e)] = @ \cup {[pin |-> Pin(e), secs |-> secs]}]
    BY <1>2 DEF Dispatch, SendTo
  <2>2. net \in [Endpoint -> SUBSET Packet] /\ Peer(e) \in Endpoint
    BY Peers DEF TypeOK
  <2> QED
    BY <2>1, <2>2
<1> QED
  BY <1>1, <1>3 DEF Produce, Produced

\* produce() keeps it: the answer to a link is sent by an endpoint that is told
\* of success, at once or before, and the answer to a tear by one that knows of
\* the tear.
LEMMA ProduceStep ==
    ASSUME TypeOK, ConnectorInv, NEW e \in Endpoint,
           NEW due \in SUBSET jobs[e], NEW more \in BOOLEAN,
           Produce(e, due, more)
    PROVE  ConnectorInv'
<1>1. PICK secs \in SUBSET jobs[e] : Produced(e, secs)
  BY ProduceEffect
<1> USE <1>1 DEF ConnectorInv, TypeOK
<1>2. HandlersHeld'
  BY DEF Produced, HandlersHeld, Answered, Accepts
<1>3. FreshInv'
  BY DEF Produced, FreshInv, Answered, Accepts
<1>4. ToldInv'
  BY DEF Produced, ToldInv
<1>5. LinkInv'
  <2>1. "link_echo" \in secs /\ e = Acceptor => told'[Acceptor] = "success"
    <3> SUFFICES ASSUME "link_echo" \in secs, e = Acceptor
                 PROVE  told'[Acceptor] = "success"
      OBVIOUS
    <3>1. \/ status[e] = "accepting"
          \/ status[e] \in {"linked", "shutting", "tearing"}
      BY Peers DEF Produced, LinkInv, FreshInv, Status
    <3>2. CASE status[e] = "accepting"
      BY <3>2, Peers DEF Produced, Accepts
    <3>3. CASE status[e] \in {"linked", "shutting", "tearing"}
      BY <3>3, Peers DEF Produced, LinkInv, Accepts
    <3> QED
      BY <3>1, <3>2, <3>3
  <2>2. told[Acceptor] = "success" => told'[Acceptor] = "success"
    BY Peers DEF Produced
  <2>3. told'[Initiator] = told[Initiator]
    BY Peers, EndpointAssumption DEF Produced, LinkInv, Accepts
  <2>4. /\ status'[Initiator] # "accepting" /\ status'[Acceptor] # "connecting"
        /\ status'[Acceptor] \in {"linked", "shutting", "tearing"} =>
              told'[Acceptor] = "success"
    BY <2>2, Peers, EndpointAssumption DEF Produced, LinkInv, Answered, Accepts
  <2>5. \A p \in net'[Initiator] \cup inbox'[Initiator] :
           "link_echo" \in p.secs => told'[Acceptor] = "success"
    BY <2>1, <2>2, Peers, EndpointAssumption DEF Produced, LinkInv
  <2> QED
    BY <2>2, <2>3, <2>4, <2>5 DEF LinkInv, LinkAgreement
<1>6. TearInv'
  <2>1. "tear_echo" \in secs => notified[e]
    BY DEF TearInv
  <2>2. ShutdownAgreement'
    BY <2>1 DEF Produced, TearInv, ShutdownAgreement
  <2>3. \A x \in Endpoint : \A p \in net'[x] \cup inbox'[x] :
           "tear_echo" \in p.secs => notified'[Peer(x)]
    BY <2>1, Peers DEF Produced, TearInv
  <2>4. \A x \in Endpoint : "tear_echo" \in jobs'[x] => notified'[x]
    BY DEF Produced, TearInv
  <2> QED
    BY <2>2, <2>3, <2>4 DEF TearInv
<1> QED
  BY <1>2, <1>3, <1>4, <1>5, <1>6

\* connector::parse of a packet, however late or often it comes, keeps it: a
\* link_echo completes connect() and a tear_echo completes shutdown() only if
\* the peer has done its part.
LEMMA ParseStep ==
    ASSUME TypeOK, ConnectorInv, NEW e \in Endpoint, NEW p \in inbox[e],
           local[e], Parse(e, p), net' = net,
           \A x \in Endpoint : inbox'[x] \subseteq inbox[x]
    PROVE  ConnectorInv'
<1> DEFINE links == status[e] = "connecting" /\ "link_echo" \in p.secs
           ends  == Parsed(e, p.secs) = "finished" /\ status[e] = "shutting"
<1>1. /\ status' = [status EXCEPT ![e] = Parsed(e, p.secs)]
      /\ onConnect' = [onConnect EXCEPT ![e] = @ /\ ~links]
      /\ told' = IF links THEN [told EXCEPT ![e] = "success"] ELSE told
      /\ notified' = [notified EXCEPT ![e] = @ \/ "tear" \in p.secs]
      /\ local' = local
  BY DEF Parse
<1>2. /\ ends => /\ onShutdown' = [onShutdown EXCEPT ![e] = 0]
                 /\ calls' = [calls EXCEPT ![e] = [i \in 1 .. MaxCalls |->
                       IF i = onShutdown[e] THEN "success" ELSE @[i]]]
      /\ ~ends => UNCHANGED <<onShutdown, calls>>
  BY DEF Parse
<1>3. \A x \in Endpoint :
         "tear_echo" \in jobs'[x] =>
            "tear_echo" \in jobs[x] \/ (x = e /\ "tear" \in p.secs)
  BY DEF Parse, TypeOK, Echo
<1>4. \A x \in Endpoint : x # e => jobs'[x] = jobs[x]
  BY DEF Parse, TypeOK
<1>5. /\ status[e] \in Status \ {"neither", "initial"}
      /\ status[e] # "finished" => Parsed(e, p.secs) # "neither"
      /\ Parsed(e, p.secs) \in {"accepting", "connecting"} =>
            Parsed(e, p.secs) = status[e] /\ ~links
      /\ Parsed(e, p.secs) = "shutting" => status[e] = "shutting" /\ ~ends
      /\ Parsed(e, p.secs) \notin {"neither", "initial"}
      /\ ends => "tear_echo" \in p.secs
      /\ Parsed(e, p.secs) \in {"linked", "shutting", "tearing"} =>
            links \/ status[e] \in {"linked", "shutting", "tearing"}
  BY DEF Parsed, TypeOK, ConnectorInv, FreshInv, Status
<1> HIDE DEF links, ends
<1> USE DEF ConnectorInv, TypeOK
<1>6. HandlersHeld'
  BY <1>1, <1>2, <1>5 DEF HandlersHeld
<1>7. FreshInv'
  BY <1>1, <1>4, <1>5 DEF FreshInv
<1>8. ToldInv'
  BY <1>1 DEF ToldInv
<1>9. LinkInv'
  <2>1. links => e = Initiator /\ told[Acceptor] = "success"
    BY Peers DEF LinkInv, links
  <2>2. told'[Acceptor] = told[Acceptor]
    BY <1>1, <2>1, Peers, EndpointAssumption
  <2>3. told'[Initiator] = "success" => told'[Acceptor] = "success"
    BY <1>1, <2>1, <2>2, Peers DEF LinkInv, LinkAgreement
  <2>4. /\ status'[Initiator] # "accepting" /\ status'[Acceptor] # "connecting"
        /\ status'[Acceptor] \in {"linked", "shutting", "tearing"} =>
              told'[Acceptor] = "success"
    BY <1>1, <1>5, <2>1, <2>2, Peers, EndpointAssumption DEF LinkInv
  <2>5. \A q \in net'[Initiator] \cup inbox'[Initiator] :
           "link_echo" \in q.secs => told'[Acceptor] = "success"
    BY <2>2, Peers DEF LinkInv
  <2> QED
    BY <2>3, <2>4, <2>5 DEF LinkInv, LinkAgreement
<1>10. TearInv'
  <2>1. \A x \in Endpoint : notified[x] => notified'[x]
    BY <1>1
  <2>2. ends => notified[Peer(e)]
    BY <1>5 DEF TearInv
  <2>3. ShutdownAgreement'
    <3> SUFFICES ASSUME NEW x \in Endpoint, NEW i \in 1 .. MaxCalls,
                        calls'[x][i] = "success"
                 PROVE  notified'[Peer(x)] \/ notified'[x]
      BY DEF ShutdownAgreement
    <3>1. CASE calls[x][i] = "success"
      BY <2>1, <3>1, Peers DEF TearInv, ShutdownAgreement
    <3>2. CASE calls[x][i] # "success"
      <4>1. ends /\ x = e
        BY <1>2, <3>2
      <4> QED
        BY <2>1, <2>2, <4>1, Peers
    <3> QED
      BY <3>1, <3>2
  <2>4. \A x \in Endpoint : "tear_echo" \in jobs'[x] => notified'[x]
    BY <1>1, <1>3, <2>1 DEF TearInv
  <2>5. \A x \in Endpoint : \A q \in net'[x] \cup inbox'[x] :
           "tear_echo" \in q.secs => notified'[Peer(x)]
    BY <2>1, Peers DEF TearInv
  <2> QED
    BY <2>3, <2>4, <2>5 DEF TearInv
<1> QED
  BY <1>6, <1>7, <1>8, <1>9, <1>10

\* feed() keeps it: a packet with another pin is not parsed at all.
LEMMA FeedStep ==
    ASSUME TypeOK, ConnectorInv, NEW e \in Endpoint, NEW p \in inbox[e],
           NEW done \in BOOLEAN, Feed(e, p, done)
    PROVE  ConnectorInv'
<1>1. net' = net /\ \A x \in Endpoint : inbox'[x] \subseteq inbox[x]
  BY DEF Feed, TypeOK
<1>2. CASE Valid(e, p)
  <2>1. local[e] /\ Parse(e, p)
    BY <1>2 DEF Feed, Valid
  <2> QED
    BY <1>1, <2>1, ParseStep
<1>3. CASE ~Valid(e, p)
  <2>1. UNCHANGED <<connectorVars, notified>>
    BY <1>3 DEF Feed
  <2> QED
    BY <1>1, <2>1, QuietStep
<1> QED
  BY <1>2, <1>3

\* produce() past a deadline only posts an error: its packet has no section of
\* the connector.
LEMMA ProduceLateStep ==
    ASSUME TypeOK, ConnectorInv, NEW e \in Endpoint, NEW more \in BOOLEAN,
           ProduceLate(e, more)
    PROVE  ConnectorInv'
<1>1. UNCHANGED <<connectorVars, inbox, notified>>
  BY DEF ProduceLate
<1> DEFINE q == [pin |-> Pin(e), secs |-> {}]
<1>2. q.secs = {} /\ (\/ net' = net
                     \/ net' = [net EXCEPT ![Peer(e)] = @ \cup {q}])
  BY DEF ProduceLate, Dispatch, SendTo
<1> HIDE DEF q
<1>3. \A x \in Endpoint : \A p \in net'[x] : p \in net[x] \/ p.secs = {}
  <2>1. net \in [Endpoint -> SUBSET Packet] /\ Peer(e) \in Endpoint
    BY Peers DEF TypeOK
  <2> QED
    BY <1>2, <2>1
<1> QED
  BY <1>1, <1>3, QuietStep

----------------------------------------------------------------------------
\* Every step of either endpoint and of the network preserves the invariant.
LEMMA NextInv == IndInv /\ [Next]_vars => IndInv'
<1> SUFFICES ASSUME IndInv, [Next]_vars PROVE IndInv'
  OBVIOUS
<1>1. TypeOK /\ OpsAborted /\ ConnectorInv
  BY DEF IndInv
<1>2. TypeOK' /\ OpsAborted'
  BY <1>1, TypeStep, OpsStep
<1>3. ASSUME NEW e \in Endpoint,
             Open(e) \/ Connect(e) \/ Accept(e)
               \/ \E p \in net[e] : Admit(e, p)
      PROVE  ConnectorInv'
  BY <1>1, <1>3, OpenStep, ConnectStep, AcceptStep
<1>4. ASSUME NEW e \in Endpoint,
             Close(e) \/ OnError(e) \/ ProduceFails(e) \/ ConsumeFails(e)
      PROVE  ConnectorInv'
  <2>1. Error(e) /\ UNCHANGED <<net, inbox, notified>>
    BY <1>4 DEF Close, OnError, ProduceFails, ConsumeFails, Mistake
  <2> QED
    BY <1>1, <2>1, ErrorStep
<1>5. ASSUME NEW e \in Endpoint, NEW i \in 1 .. MaxCalls, Shutdown(e, i)
      PROVE  ConnectorInv'
  BY <1>1, <1>5, ShutdownStep
<1>6. ASSUME NEW e \in Endpoint, NEW due \in SUBSET jobs[e],
             NEW more \in BOOLEAN, Produce(e, due, more)
      PROVE  ConnectorInv'
  BY <1>1, <1>6, ProduceStep
<1>7. ASSUME NEW e \in Endpoint, NEW more \in BOOLEAN, ProduceLate(e, more)
      PROVE  ConnectorInv'
  BY <1>1, <1>7, ProduceLateStep
<1>8. ASSUME NEW e \in Endpoint, NEW p \in inbox[e], NEW done \in BOOLEAN,
             Feed(e, p, done)
      PROVE  ConnectorInv'
  BY <1>1, <1>8, FeedStep
\* the rest leaves the connectors alone and sends nothing
<1>9. ASSUME UNCHANGED <<connectorVars, notified>>,
             \A x \in Endpoint : net'[x] \cup inbox'[x] \subseteq
                                    net[x] \cup inbox[x]
      PROVE  ConnectorInv'
  BY <1>1, <1>9, QuietStep
<1>10. ASSUME NEW e \in Endpoint,
              \/ Stream(e) \/ ProduceEnds(e) \/ ConsumeEnds(e) \/ Timer(e)
              \/ Consume(e) \/ Bind(e)
       PROVE  ConnectorInv'
  <2>1. UNCHANGED <<connectorVars, notified, net, inbox>>
    BY <1>10 DEF Stream, ProduceEnds, ConsumeEnds, Timer, Consume, Bind
  <2> QED
    BY <1>9, <2>1
<1>11. ASSUME NEW e \in Endpoint, NEW p \in net[e], Lose(e, p) \/ Bounce(e, p)
       PROVE  ConnectorInv'
  <2>1. /\ UNCHANGED <<connectorVars, notified, inbox>>
        /\ net' = [net EXCEPT ![e] = @ \ {p}]
    BY <1>11 DEF Lose, Bounce, transportVars
  <2>2. \A x \in Endpoint : net'[x] \subseteq net[x]
    <3>1. net \in [Endpoint -> SUBSET Packet]
      BY <1>1 DEF TypeOK
    <3> QED
      BY <2>1, <3>1
  <2> QED
    BY <1>9, <2>1, <2>2
<1>12. ASSUME NEW e \in Endpoint, NEW p \in net[e], NEW again \in BOOLEAN,
              Receive(e, p, again)
       PROVE  ConnectorInv'
  <2>1. /\ UNCHANGED <<connectorVars, notified>>
        /\ inbox' = [inbox EXCEPT ![e] = {p}]
        /\ net' = net \/ net' = [net EXCEPT ![e] = @ \ {p}]
    BY <1>12 DEF Receive
  <2>2. ASSUME NEW x \in Endpoint
        PROVE  net'[x] \cup inbox'[x] \subseteq net[x] \cup inbox[x]
    <3>1. net'[x] \subseteq net[x]
      <4>1. net \in [Endpoint -> SUBSET Packet]
        BY <1>1 DEF TypeOK
      <4>2. CASE net' = net
        BY <4>2
      <4>3. CASE net' = [net EXCEPT ![e] = net[e] \ {p}]
        BY <4>1, <4>3
      <4> QED
        BY <2>1, <4>2, <4>3
    <3>2. inbox'[x] = inbox[x] \/ (inbox'[x] = {p} /\ x = e)
      BY <1>1, <2>1 DEF TypeOK
    <3> QED
      BY <1>12, <3>1, <3>2
  <2>3. \A x \in Endpoint : net'[x] \cup inbox'[x] \subseteq
                               net[x] \cup inbox[x]
    BY <2>2
  <2>4. UNCHANGED <<connectorVars, notified>>
    BY <2>1
  <2> QED
    BY <1>9, <2>3, <2>4
<1>13. ASSUME UNCHANGED vars PROVE ConnectorInv'
  <2>1. UNCHANGED <<connectorVars, notified, net, inbox>>
    BY <1>13 DEF vars, transportVars
  <2> QED
    BY <1>9, <2>1
<1>14. ConnectorInv'
  BY <1>3, <1>4, <1>5, <1>6, <1>7, <1>8, <1>10, <1>11, <1>12, <1>13
       DEF Next, Runs
<1> QED
  BY <1>2, <1>14 DEF IndInv

\* The inductive invariant of the two endpoints holds in every reachable state,
\* for every number of calls and of packets on the way.
THEOREM Inductive == Spec => []IndInv
  BY InitInv, NextInv, PTL DEF Spec

\* The state of both connectors, transports and of every packet is well typed.
THEOREM TypeCorrect == Spec => []TypeOK
<1>1. IndInv => TypeOK
  BY DEF IndInv
<1> QED
  BY <1>1, Inductive, PTL

\* connector::parse and connector::imbue never call an on_connect or on_shutdown
\* that is not there.
THEOREM HandlersThere == Spec => []HandlersHeld
<1>1. IndInv => HandlersHeld
  BY DEF IndInv, ConnectorInv
<1> QED
  BY <1>1, Inductive, PTL

\* connect() succeeds only if the peer's accept() has succeeded.
THEOREM LinkAgreed == Spec => []LinkAgreement
<1>1. IndInv => LinkAgreement
  BY DEF IndInv, ConnectorInv, LinkInv
<1> QED
  BY <1>1, Inductive, PTL

\* shutdown() succeeds only if one of the endpoints was notified by a tear.
THEOREM ShutdownAgreed == Spec => []ShutdownAgreement
<1>1. IndInv => ShutdownAgreement
  BY DEF IndInv, ConnectorInv, TearInv
<1> QED
  BY <1>1, Inductive, PTL

\* The produce loop ends only with a channel that is finished, and no read() or
\* write() is pended in it then or later.
THEOREM OpsNeverLeft == Spec => []OpsAborted
<1>1. IndInv => OpsAborted
  BY DEF IndInv
<1> QED
  BY <1>1, Inductive, PTL

----------------------------------------------------------------------------
(* The life of a channel goes forward.                                     *)

\* What a step of endpoint e may do to the status and the connect handler.
Advances(e) ==
    /\ status'[e] = status[e] \/ Stage(status[e]) < Stage(status'[e])
    /\ told[e] # "nothing" => told'[e] = told[e]

\* A step that leaves the connector alone.
LEMMA QuietAdvances ==
    ASSUME UNCHANGED connectorVars
    PROVE  \A x \in Endpoint : Advances(x)
  BY DEF Advances, connectorVars

\* The order of the stages.
LEMMA Stages ==
    /\ Stage("neither") = 0 /\ Stage("initial") = 1
    /\ Stage("accepting") = 2 /\ Stage("connecting") = 2
    /\ Stage("linked") = 3
    /\ Stage("shutting") = 4 /\ Stage("tearing") = 4
    /\ Stage("finished") = 5
  BY DEF Stage

\* connector::error finishes the channel and tells a handler that was told
\* nothing.
LEMMA ErrorAdvances ==
    ASSUME IndInv, NEW e \in Endpoint, Error(e)
    PROVE  \A x \in Endpoint : Advances(x)
<1>1. Stage(status[e]) < 5 \/ status[e] = "finished"
  <2>1. status[e] \in Status
    BY DEF IndInv, TypeOK
  <2> QED
    BY <2>1, Stages DEF Status
<1>2. status' = [status EXCEPT ![e] = "finished"]
  BY DEF Error
<1>3. \A x \in Endpoint : told[x] # "nothing" => told'[x] = told[x]
  BY DEF Error, IndInv, TypeOK, ConnectorInv, ToldInv
<1> QED
  BY <1>1, <1>2, <1>3, Stages DEF Advances, IndInv, TypeOK

\* connector::imbue links an accepting endpoint or finishes any.
LEMMA ProduceAdvances ==
    ASSUME IndInv, NEW e \in Endpoint, NEW due \in SUBSET jobs[e],
           NEW more \in BOOLEAN, Produce(e, due, more)
    PROVE  \A x \in Endpoint : Advances(x)
<1>1. TypeOK /\ HandlersHeld /\ ToldInv
  BY DEF IndInv, ConnectorInv
<1>2. PICK secs \in SUBSET jobs[e] : Produced(e, secs)
  BY <1>1, ProduceEffect
<1>3. Stage(status[e]) < 5
  <2>1. status[e] \in Status /\ status[e] # "finished"
    BY <1>1, <1>2 DEF Produced, TypeOK
  <2> QED
    BY <2>1, Stages DEF Status
<1>4. status' = [status EXCEPT ![e] = Answered(e, secs)]
  BY <1>2 DEF Produced
<1>5. \/ Answered(e, secs) = status[e] \/ Answered(e, secs) = "finished"
      \/ status[e] = "accepting" /\ Answered(e, secs) = "linked"
  BY DEF Answered, Accepts
<1>6. \A x \in Endpoint : told[x] # "nothing" => told'[x] = told[x]
  BY <1>1, <1>2 DEF Produced, Accepts, TypeOK, HandlersHeld, ToldInv
<1> QED
  BY <1>1, <1>3, <1>4, <1>5, <1>6, Stages DEF Advances, TypeOK

\* connector::parse never goes back, whatever packet comes again.
LEMMA FeedAdvances ==
    ASSUME IndInv, NEW e \in Endpoint, NEW p \in inbox[e], NEW done \in BOOLEAN,
           Feed(e, p, done)
    PROVE  \A x \in Endpoint : Advances(x)
<1>1. TypeOK /\ HandlersHeld /\ ToldInv
  BY DEF IndInv, ConnectorInv
<1>2. CASE ~Valid(e, p)
  BY <1>2, QuietAdvances DEF Feed
<1>3. CASE Valid(e, p)
  <2>1. status' = [status EXCEPT ![e] = Parsed(e, p.secs)]
    BY <1>3 DEF Feed, Parse
  <2>2. Parsed(e, p.secs) = status[e] \/
           Stage(status[e]) < Stage(Parsed(e, p.secs))
    BY Stages DEF Parsed
  <2>3. \A x \in Endpoint : told[x] # "nothing" => told'[x] = told[x]
    BY <1>1, <1>3 DEF Feed, Parse, TypeOK, HandlersHeld, ToldInv
  <2> QED
    BY <1>1, <2>1, <2>2, <2>3 DEF Advances, TypeOK
<1> QED
  BY <1>2, <1>3

\* Every step takes every channel forward.
LEMMA NextAdvances ==
    ASSUME IndInv, [Next]_vars
    PROVE  \A x \in Endpoint : Advances(x)
<1>1. ASSUME NEW e \in Endpoint,
             Close(e) \/ OnError(e) \/ ProduceFails(e) \/ ConsumeFails(e)
      PROVE  \A x \in Endpoint : Advances(x)
  <2>1. Error(e)
    BY <1>1 DEF Close, OnError, ProduceFails, ConsumeFails, Mistake
  <2> QED
    BY <2>1, ErrorAdvances
<1>2. ASSUME NEW e \in Endpoint,
             \/ Open(e) \/ Connect(e) \/ Accept(e)
             \/ \E p \in net[e] : Admit(e, p)
             \/ \E i \in 1 .. MaxCalls : Shutdown(e, i)
      PROVE  \A x \in Endpoint : Advances(x)
  <2>1. /\ told' = told
        /\ \/ status' = status
           \/ /\ status[e] = "neither"
              /\ status' = [status EXCEPT ![e] = "initial"]
           \/ /\ status[e] \in {"neither", "initial"}
              /\ \/ status' = [status EXCEPT ![e] = "connecting"]
                 \/ status' = [status EXCEPT ![e] = "accepting"]
           \/ /\ status[e] = "linked"
              /\ status' = [status EXCEPT ![e] = "shutting"]
    BY <1>2 DEF Open, Connect, Accept, Admit, AcceptFrom, Listens, Shutdown
  <2>2. status \in [Endpoint -> Status]
    BY DEF IndInv, TypeOK
  <2> QED
    BY <2>1, <2>2, Stages DEF Advances
<1>3. ASSUME NEW e \in Endpoint,
             \/ Stream(e) \/ ProduceEnds(e) \/ ConsumeEnds(e) \/ Timer(e)
             \/ Consume(e) \/ Bind(e)
             \/ \E more \in BOOLEAN : ProduceLate(e, more)
             \/ \E p \in net[e] :
                   \/ Lose(e, p) \/ Bounce(e, p)
                   \/ \E again \in BOOLEAN : Receive(e, p, again)
      PROVE  \A x \in Endpoint : Advances(x)
  <2>1. UNCHANGED connectorVars
    BY <1>3 DEF Stream, ProduceEnds, ConsumeEnds, Timer, Consume, Bind,
                ProduceLate, Lose, Bounce, Receive
  <2> QED
    BY <2>1, QuietAdvances
<1>4. CASE UNCHANGED vars
  BY <1>4, QuietAdvances DEF vars
<1> QED
  BY <1>1, <1>2, <1>3, <1>4, ProduceAdvances, FeedAdvances DEF Next, Runs

\* A channel never goes back to an earlier stage of its life, and the handler
\* of connect() or accept() is told one thing only, whatever packets come late
\* or again and whoever closes when.
THEOREM AlwaysForward == Spec => Forward
<1>1. IndInv /\ [Next]_vars =>
         [\A e \in Endpoint :
             /\ status'[e] = status[e] \/ Stage(status[e]) < Stage(status'[e])
             /\ told[e] # "nothing" => told'[e] = told[e]]_vars
  BY NextAdvances DEF Advances
<1> QED
  BY <1>1, Inductive, PTL DEF Spec, Forward

=============================================================================
