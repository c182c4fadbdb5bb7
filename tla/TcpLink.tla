------------------------------ MODULE TcpLink ------------------------------
(***************************************************************************)
(* The life of one TCP channel (transport of tcp/channel.cpp): one         *)
(* connect() or accept(), its deadline, the retries of a refused connect,  *)
(* the strangers an accept turns away, and a close(), a shutdown() or the  *)
(* end of the channel object at any moment.  A critical section of m_mutex *)
(* is one action; between two of them any thread may run.                  *)
(*                                                                         *)
(* An asynchronous operation is "pending" until it ends in the kernel or   *)
(* is cancelled; from then on its handler is queued with a result that no  *)
(* later cancel() or close() can change.                                   *)
(***************************************************************************)
EXTENDS Integers

CONSTANTS
    MaxRefusals,    \* bound: attempts that are refused
    MaxStrangers    \* bound: connections of another peer than the asked one

ASSUME LinkAssumption == MaxRefusals \in Nat /\ MaxStrangers \in Nat

VARIABLES
    role,       \* the link call that was made
    socket,     \* m_stream->socket()
    acceptor,   \* m_acceptor
    late,       \* the deadline has passed
    deadline,   \* the wait of m_timer that ends the link call
    retry,      \* the wait of m_timer before the next attempt
    dial,       \* the async_connect
    admit,      \* the async_accept and its handler
    told,       \* what the application's handler was given
    answers,    \* how often it was given something
    inTime,     \* the connect handler ran before the deadline
    released,   \* close() was called
    downed,     \* shutdown() was called
    alive,      \* the channel object exists
    gone,       \* the admitted peer has reset its connection
    fault,      \* a handler threw, or was queued on a destroyed socket
    refusals, strangers

timers == <<deadline, retry>>
user == <<released, downed, alive>>
world == <<late, gone, refusals, strangers>>
answer == <<told, answers, inTime>>
vars == <<role, socket, acceptor, timers, dial, admit, answer, user, world, fault>>

TypeOK ==
    /\ role \in {"none", "connect", "accept"}
    /\ socket \in {"closed", "open", "connected", "shut"}
    /\ acceptor \in {"closed", "open", "listening"}
    /\ deadline \in {"idle", "armed", "fired"}
    /\ retry \in {"idle", "armed", "fired", "aborted"}
    /\ dial \in {"idle", "pending", "connected", "refused", "failed", "aborted"}
    /\ admit \in {"idle", "pending", "right", "wrong", "aborted",
                  "rightIn", "wrongIn", "again"}
    /\ told \in {"nothing", "success", "error"} /\ answers \in Nat
    /\ inTime \in BOOLEAN /\ late \in BOOLEAN /\ gone \in BOOLEAN
    /\ released \in BOOLEAN /\ downed \in BOOLEAN /\ alive \in BOOLEAN
    /\ fault \in {"none", "thrown", "dangling"}
    /\ refusals \in Nat /\ strangers \in Nat

Init ==
    /\ role = "none" /\ socket = "closed" /\ acceptor = "closed"
    /\ deadline = "idle" /\ retry = "idle" /\ dial = "idle" /\ admit = "idle"
    /\ told = "nothing" /\ answers = 0 /\ inTime = FALSE
    /\ released = FALSE /\ downed = FALSE /\ alive = TRUE
    /\ late = FALSE /\ gone = FALSE /\ fault = "none"
    /\ refusals = 0 /\ strangers = 0

-----------------------------------------------------------------------------
\* Parts of the critical sections.

\* The handler is called or posted.
Answer(result) ==
    /\ told' = result
    /\ answers' = answers + 1
    /\ inTime' = (result = "success" /\ ~late)

\* Mutant: the timer is left running.
CancelNothing == UNCHANGED timers

\* Mutant: the wait of the deadline ends with an error its handler would heed.
CancelAborts ==
    /\ deadline' = IF deadline = "armed" THEN "aborted" ELSE deadline
    /\ retry' = IF retry = "armed" THEN "aborted" ELSE retry

\* m_timer.cancel(): what waits ends with an error, what is queued does not.
CancelTimer ==
    /\ deadline' = IF deadline = "armed" THEN "idle" ELSE deadline
    /\ retry' = IF retry = "armed" THEN "aborted" ELSE retry

CloseSocket ==
    /\ socket' = "closed"
    /\ dial' = IF dial = "pending" THEN "aborted" ELSE dial

CloseAcceptor ==
    /\ acceptor' = "closed"
    /\ admit' = IF admit = "pending" THEN "aborted" ELSE admit

-----------------------------------------------------------------------------
\* connect().

\* do_connect: a fresh socket, the deadline and the attempt; or an error of
\* the socket calls.
DoConnect ==
    \/ /\ socket' \in {"closed", "open"}
       /\ Answer("error")
       /\ UNCHANGED <<deadline, dial>>
    \/ /\ socket' = "open"
       /\ deadline' = "armed"
       /\ dial' = "pending"
       /\ UNCHANGED answer

Connect ==
    /\ role = "none" /\ alive
    /\ role' = "connect"
    /\ DoConnect
    /\ UNCHANGED <<acceptor, retry, admit, user, world, fault>>

\* The kernel ends the attempt.
DialEnds ==
    /\ dial = "pending"
    /\ \/ dial' = "connected" /\ socket' = "connected" /\ UNCHANGED refusals
       \/ dial' = "failed" /\ UNCHANGED <<socket, refusals>>
       \/ /\ refusals < MaxRefusals
          /\ dial' = "refused" /\ refusals' = refusals + 1
          /\ UNCHANGED socket
    /\ UNCHANGED <<role, acceptor, timers, admit, answer, user, late, gone,
                   strangers, fault>>

\* Mutant: after a refusal the application is told and the retry goes on.
DialHandlerBoth ==
    /\ dial \notin {"idle", "pending"}
    /\ dial' = "idle"
    /\ deadline' = IF deadline = "armed" THEN "idle" ELSE deadline
    /\ retry' = IF dial = "refused" /\ ~late THEN "armed" ELSE retry
    /\ Answer(IF dial = "connected" THEN "success" ELSE "error")
    /\ UNCHANGED <<role, socket, acceptor, admit, user, world, fault>>

\* The handler of async_connect.
DialHandler ==
    /\ dial \notin {"idle", "pending"}
    /\ dial' = "idle"
    /\ \/ /\ ~alive
          /\ Answer("error")
          /\ UNCHANGED timers
       \/ /\ alive
          /\ dial # "refused" \/ late
          /\ CancelTimer
          /\ Answer(IF dial = "connected" THEN "success" ELSE "error")
       \/ /\ alive
          /\ dial = "refused" /\ ~late /\ socket = "closed"
          /\ CancelTimer
          /\ Answer("error")
       \/ /\ alive
          /\ dial = "refused" /\ ~late /\ socket # "closed"
          /\ deadline' = IF deadline = "armed" THEN "idle" ELSE deadline
          /\ retry' = "armed"
          /\ UNCHANGED answer
    /\ UNCHANGED <<role, socket, acceptor, admit, user, world, fault>>

\* A second has passed since the refusal.
RetryExpires ==
    /\ retry = "armed"
    /\ retry' = "fired"
    /\ UNCHANGED <<role, socket, acceptor, deadline, dial, admit, answer, user,
                   world, fault>>

\* Mutant: a cancelled wait is dropped like that of the deadline.
RetryHandlerDrops ==
    /\ retry \in {"fired", "aborted"}
    /\ retry' = "idle"
    /\ \/ alive /\ retry = "fired" /\ DoConnect
       \/ ~alive /\ Answer("error") /\ UNCHANGED <<socket, deadline, dial>>
       \/ alive /\ retry = "aborted" /\ UNCHANGED <<answer, socket, deadline, dial>>
    /\ UNCHANGED <<role, acceptor, admit, user, world, fault>>

\* The handler of that wait.
RetryHandler ==
    /\ retry \in {"fired", "aborted"}
    /\ retry' = "idle"
    /\ \/ /\ alive /\ retry = "fired"
          /\ DoConnect
       \/ /\ ~alive \/ retry = "aborted"
          /\ Answer("error")
          /\ UNCHANGED <<socket, deadline, dial>>
    /\ UNCHANGED <<role, acceptor, admit, user, world, fault>>

-----------------------------------------------------------------------------
\* accept().

\* do_accept: an open socket holds a stranger and is closed, the acceptor
\* listens already; otherwise the acceptor is opened, with a deadline.
DoAccept(wait) ==
    \/ /\ socket # "closed"
       /\ CloseSocket
       /\ admit' = IF acceptor = "listening" THEN "pending" ELSE "aborted"
       /\ UNCHANGED <<acceptor, deadline, answer>>
    \/ /\ socket = "closed" /\ acceptor = "closed"
       /\ acceptor' = "listening"
       /\ admit' = "pending"
       /\ deadline' = wait
       /\ UNCHANGED <<socket, dial, answer>>
    \/ /\ socket = "closed"
       /\ acceptor' = IF acceptor = "closed" THEN "open" ELSE acceptor
       /\ admit' = "idle"
       /\ Answer("error")
       /\ UNCHANGED <<socket, dial, deadline>>

Accept ==
    /\ role = "none" /\ alive
    /\ role' = "accept"
    /\ DoAccept("armed")
    /\ UNCHANGED <<retry, user, world, fault>>

\* A connection arrives at the listening socket, or the kernel has an error.
AdmitEnds ==
    /\ admit = "pending"
    /\ \/ admit' \in {"right", "aborted"} /\ UNCHANGED strangers
       \/ /\ strangers < MaxStrangers
          /\ admit' = "wrong" /\ strangers' = strangers + 1
    /\ UNCHANGED <<role, socket, acceptor, timers, dial, answer, user, late,
                   gone, refusals, fault>>

\* The completion hands the connection to the socket just before it calls the
\* handler, under no lock.
Assign ==
    /\ admit \in {"right", "wrong"}
    /\ \/ /\ alive
          /\ socket' = "connected"
          /\ admit' = IF admit = "right" THEN "rightIn" ELSE "wrongIn"
          /\ UNCHANGED fault
       \/ /\ ~alive
          /\ fault' = "dangling" /\ admit' = "idle"
          /\ UNCHANGED socket
    /\ UNCHANGED <<role, acceptor, timers, dial, answer, user, world>>

\* remote_endpoint() of a closed or reset connection throws, that of one that
\* was shut down may.
Throws == socket = "closed" \/ socket = "shut" \/ gone
MustThrow == socket = "closed" \/ gone

\* The handler of async_accept after a success.
AdmitHandler ==
    /\ admit \in {"rightIn", "wrongIn"}
    /\ \/ /\ Throws
          /\ fault' = "thrown" /\ admit' = "idle"
          /\ UNCHANGED <<timers, acceptor, answer>>
       \/ /\ ~MustThrow /\ admit = "rightIn"
          /\ CancelTimer
          /\ acceptor' = "closed" /\ admit' = "idle"
          /\ Answer("success")
          /\ UNCHANGED fault
       \/ /\ ~MustThrow /\ admit = "wrongIn"
          /\ admit' = "again"
          /\ UNCHANGED <<timers, acceptor, answer, fault>>
    /\ UNCHANGED <<role, socket, dial, user, world>>

\* Mutant: expected() is called after an error, too.
AdmitFailedExpects ==
    /\ admit = "aborted"
    /\ admit' = "idle"
    /\ fault' = "thrown"
    /\ UNCHANGED <<role, socket, acceptor, timers, dial, answer, user, world>>

\* The same handler after an error.
AdmitFailed ==
    /\ admit = "aborted"
    /\ admit' = "idle"
    /\ IF alive THEN CancelTimer /\ acceptor' = "closed"
                ELSE UNCHANGED <<timers, acceptor>>
    /\ Answer("error")
    /\ UNCHANGED <<role, socket, dial, user, world, fault>>

\* A stranger: do_accept again, with the deadline ptime(), which is no time at
\* all and expires at once.
AdmitAgain ==
    /\ admit = "again"
    /\ gone' = FALSE
    /\ DoAccept("fired")
    /\ UNCHANGED <<role, retry, user, late, refusals, strangers, fault>>

-----------------------------------------------------------------------------
\* Time, the peer and the application.

Late ==
    /\ role # "none" /\ ~late
    /\ late' = TRUE
    /\ UNCHANGED <<role, socket, acceptor, timers, dial, admit, answer, user,
                   gone, refusals, strangers, fault>>

DeadlineExpires ==
    /\ deadline = "armed" /\ late
    /\ deadline' = "fired"
    /\ UNCHANGED <<role, socket, acceptor, retry, dial, admit, answer, user,
                   world, fault>>

\* Mutant: the deadline handler closes the socket of either call.
DeadlineHandlerSocket ==
    /\ deadline = "fired"
    /\ deadline' = "idle"
    /\ CloseSocket
    /\ UNCHANGED <<role, acceptor, admit, retry, answer, user, world, fault>>

\* The handler of the deadline: it closes the socket of a connect and the
\* acceptor of an accept.
DeadlineHandler ==
    /\ deadline = "fired"
    /\ deadline' = "idle"
    /\ \/ ~alive /\ UNCHANGED <<socket, dial, acceptor, admit>>
       \/ /\ alive /\ role = "connect"
          /\ CloseSocket /\ UNCHANGED <<acceptor, admit>>
       \/ /\ alive /\ role = "accept"
          /\ CloseAcceptor /\ UNCHANGED <<socket, dial>>
    /\ UNCHANGED <<role, retry, answer, user, world, fault>>

PeerResets ==
    /\ admit \in {"right", "wrong", "rightIn", "wrongIn"} /\ ~gone
    /\ gone' = TRUE
    /\ UNCHANGED <<role, socket, acceptor, timers, dial, admit, answer, user,
                   late, refusals, strangers, fault>>

Close ==
    /\ role # "none" /\ alive
    /\ released' = TRUE
    /\ CancelTimer /\ CloseAcceptor /\ CloseSocket
    /\ UNCHANGED <<role, answer, downed, alive, world, fault>>

\* The last owner lets the channel go; a running handler holds it.
Destroy ==
    /\ role # "none" /\ alive
    /\ admit \notin {"rightIn", "wrongIn", "again"}
    /\ alive' = FALSE
    /\ CancelTimer /\ CloseAcceptor /\ CloseSocket
    /\ UNCHANGED <<role, answer, released, downed, world, fault>>

\* shutdown() does not close the socket; an attempt under way may fail of it.
Shutdown ==
    /\ role # "none" /\ alive
    /\ downed' = TRUE
    /\ CancelTimer /\ CloseAcceptor
    /\ socket' = IF socket = "connected" THEN "shut" ELSE socket
    /\ dial' \in {dial} \cup (IF dial = "pending" THEN {"failed"} ELSE {})
    /\ UNCHANGED <<role, answer, released, alive, world, fault>>

Kernel == DialEnds \/ AdmitEnds \/ PeerResets
Clock == Late \/ DeadlineExpires \/ RetryExpires
Handlers == \/ DialHandler \/ RetryHandler \/ DeadlineHandler
            \/ Assign \/ AdmitHandler \/ AdmitFailed \/ AdmitAgain
User == Connect \/ Accept \/ Close \/ Shutdown \/ Destroy

Next == Kernel \/ Clock \/ Handlers \/ User

Spec == Init /\ [][Next]_vars

\* Time goes on and the threads of the io_context run what is queued; nothing
\* is asked of the network, the peer and the application.
FairSpec ==
    /\ Spec
    /\ WF_vars(Late) /\ WF_vars(DeadlineExpires) /\ WF_vars(RetryExpires)
    /\ WF_vars(DialHandler) /\ WF_vars(RetryHandler) /\ WF_vars(DeadlineHandler)
    /\ WF_vars(Assign) /\ WF_vars(AdmitHandler) /\ WF_vars(AdmitFailed)
    /\ WF_vars(AdmitAgain)

-----------------------------------------------------------------------------
\* The handler of connect() and accept() is called at most once, and when it
\* is, no attempt, no retry and no accept of that call is left behind: the
\* returns after each post in the handlers, with close(), shutdown() and the
\* deadline in between.
AnswerOnce ==
    /\ answers <= 1
    /\ answers = 1 => dial = "idle" /\ retry = "idle" /\ admit = "idle"

\* A link reported as established before its deadline is not closed by that
\* deadline: m_timer.cancel() in the connect handler, and the deadline of an
\* accept that closes the acceptor only.
LinkStands ==
    told = "success" /\ inTime /\ ~released /\ ~downed /\ alive
        => socket = "connected"

\* The accept handler throws out of the io_context, or runs on a destroyed
\* socket, only if the application closed, shut down or dropped the channel or
\* the peer reset the connection meanwhile: never because of the deadline or of
\* a stranger.
FaultNeedsCause ==
    fault # "none" => released \/ downed \/ ~alive \/ gone

\* connect() and accept() are answered though the network never answers and
\* refusals and strangers come; not after a throw, and not for a connect whose
\* deadline a shutdown() has cancelled.
LinkAnswered ==
    role # "none" ~>
        (told # "nothing" \/ fault # "none" \/ (role = "connect" /\ downed))

\* The port is not held for ever: the acceptor stops listening whatever happens
\* to the accept, a throw in its handler included.
ListeningEnds == acceptor = "listening" ~> acceptor # "listening"

=============================================================================
