--------------------------- MODULE TcpLinkProofs ---------------------------
(***************************************************************************)
(* The safety of TcpLink for every number of refusals and strangers.  None *)
(* of its invariants is inductive: each depends on which operations of the *)
(* channel can be outstanding together, and on what the deadline may still *)
(* do, which LinkInv adds.                                                 *)
(***************************************************************************)
EXTENDS TcpLink, TLAPS

\* The operations of one call at a time: a connect has an attempt or a wait for
\* the next one, never both, and no accept; an accept no attempt.
OneOperation ==
    /\ role = "none" =>
        /\ dial = "idle" /\ retry = "idle" /\ admit = "idle"
        /\ deadline = "idle" /\ answers = 0
        /\ fault = "none" /\ socket = "closed"
    /\ role = "connect" => admit = "idle" /\ fault = "none"
    /\ role = "accept" => dial = "idle" /\ retry = "idle" /\ socket # "open"
    /\ dial = "idle" \/ retry = "idle"
    /\ fault # "none" => admit = "idle"
    /\ told = "nothing" <=> answers = 0
    /\ socket = "shut" => downed

\* The deadline of a connect strikes only after its time, and not at all once
\* the connect handler has run in time.
DeadlineHolds ==
    /\ deadline = "fired" => late \/ role = "accept"
    /\ role = "connect" /\ told = "success" /\ inTime => deadline = "idle"

Undisturbed == ~released /\ ~downed /\ alive

\* A connection whose handler is about to run is there, unless it was closed
\* by the application or, for a connect, by the deadline.
ConnectionHeld ==
    /\ dial = "connected" /\ Undisturbed /\ ~late => socket = "connected"
    /\ admit \in {"rightIn", "wrongIn"} /\ Undisturbed => socket = "connected"

LinkInv ==
    /\ TypeOK /\ AnswerOnce /\ OneOperation /\ DeadlineHolds /\ ConnectionHeld
    /\ LinkStands /\ FaultNeedsCause

\* LinkInv is preserved by every step of the channel.
LEMMA LinkStep ==
    ASSUME LinkInv, [Next]_vars
    PROVE  LinkInv'
<1> USE DEF LinkInv, vars, timers, user, world, answer
<1>1. ASSUME Connect PROVE LinkInv'
  <2>1. TypeOK'
    <3>1. inTime' \in BOOLEAN
      BY <1>1, Zenon DEF Connect, DoConnect, Answer, TypeOK
    <3> QED
      BY <1>1, <3>1 DEF Connect, DoConnect, Answer, TypeOK
  <2>2. AnswerOnce'
    BY <1>1 DEF Connect, DoConnect, Answer, TypeOK, AnswerOnce, OneOperation
  <2>3. OneOperation'
    BY <1>1 DEF Connect, DoConnect, Answer, TypeOK, AnswerOnce, OneOperation
  <2>4. DeadlineHolds'
    BY <1>1 DEF Connect, DoConnect, Answer, TypeOK, AnswerOnce, OneOperation,
                DeadlineHolds
  <2>5. ConnectionHeld'
    BY <1>1 DEF Connect, DoConnect, Answer, TypeOK, OneOperation,
                DeadlineHolds, ConnectionHeld, Undisturbed
  <2>6. LinkStands'
    BY <1>1 DEF Connect, DoConnect, Answer, TypeOK, AnswerOnce, OneOperation,
                DeadlineHolds, ConnectionHeld, Undisturbed, LinkStands
  <2>7. FaultNeedsCause'
    BY <1>1 DEF Connect, DoConnect, Answer, TypeOK, OneOperation,
                ConnectionHeld, Undisturbed, FaultNeedsCause
  <2> QED
    BY <2>1, <2>2, <2>3, <2>4, <2>5, <2>6, <2>7
<1>2. ASSUME DialEnds PROVE LinkInv'
  <2>1. TypeOK'
    BY <1>2 DEF DialEnds, TypeOK
  <2>2. AnswerOnce'
    BY <1>2 DEF DialEnds, TypeOK, AnswerOnce, OneOperation
  <2>3. OneOperation'
    BY <1>2 DEF DialEnds, TypeOK, AnswerOnce, OneOperation
  <2>4. DeadlineHolds'
    BY <1>2 DEF DialEnds, TypeOK, AnswerOnce, OneOperation, DeadlineHolds
  <2>5. ConnectionHeld'
    BY <1>2 DEF DialEnds, TypeOK, OneOperation, DeadlineHolds, ConnectionHeld,
                Undisturbed
  <2>6. LinkStands'
    BY <1>2 DEF DialEnds, TypeOK, AnswerOnce, OneOperation, DeadlineHolds,
                ConnectionHeld, Undisturbed, LinkStands
  <2>7. FaultNeedsCause'
    BY <1>2 DEF DialEnds, TypeOK, OneOperation, ConnectionHeld, Undisturbed,
                FaultNeedsCause
  <2> QED
    BY <2>1, <2>2, <2>3, <2>4, <2>5, <2>6, <2>7
<1>3. ASSUME DialHandler PROVE LinkInv'
  <2>1. TypeOK'
    <3>1. inTime' \in BOOLEAN
      BY <1>3, Zenon DEF DialHandler, Answer, CancelTimer, TypeOK
    <3> QED
      BY <1>3, <3>1 DEF DialHandler, Answer, CancelTimer, TypeOK
  <2>2. AnswerOnce'
    BY <1>3 DEF DialHandler, Answer, CancelTimer, TypeOK, AnswerOnce,
                OneOperation
  <2>3. OneOperation'
    BY <1>3 DEF DialHandler, Answer, CancelTimer, TypeOK, AnswerOnce,
                OneOperation
  <2>4. DeadlineHolds'
    BY <1>3 DEF DialHandler, Answer, CancelTimer, TypeOK, AnswerOnce,
                OneOperation, DeadlineHolds
  <2>5. ConnectionHeld'
    BY <1>3 DEF DialHandler, Answer, CancelTimer, TypeOK, OneOperation,
                DeadlineHolds, ConnectionHeld, Undisturbed
  <2>6. LinkStands'
    BY <1>3 DEF DialHandler, Answer, CancelTimer, TypeOK, AnswerOnce,
                OneOperation, DeadlineHolds, ConnectionHeld, Undisturbed,
                LinkStands
  <2>7. FaultNeedsCause'
    BY <1>3 DEF DialHandler, Answer, CancelTimer, TypeOK, OneOperation,
                ConnectionHeld, Undisturbed, FaultNeedsCause
  <2> QED
    BY <2>1, <2>2, <2>3, <2>4, <2>5, <2>6, <2>7
<1>4. ASSUME RetryExpires PROVE LinkInv'
  <2>1. TypeOK'
    BY <1>4 DEF RetryExpires, TypeOK
  <2>2. AnswerOnce'
    BY <1>4 DEF RetryExpires, TypeOK, AnswerOnce, OneOperation
  <2>3. OneOperation'
    BY <1>4 DEF RetryExpires, TypeOK, AnswerOnce, OneOperation
  <2>4. DeadlineHolds'
    BY <1>4 DEF RetryExpires, TypeOK, AnswerOnce, OneOperation, DeadlineHolds
  <2>5. ConnectionHeld'
    BY <1>4 DEF RetryExpires, TypeOK, OneOperation, DeadlineHolds,
                ConnectionHeld, Undisturbed
  <2>6. LinkStands'
    BY <1>4 DEF RetryExpires, TypeOK, AnswerOnce, OneOperation, DeadlineHolds,
                ConnectionHeld, Undisturbed, LinkStands
  <2>7. FaultNeedsCause'
    BY <1>4 DEF RetryExpires, TypeOK, OneOperation, ConnectionHeld,
                Undisturbed, FaultNeedsCause
  <2> QED
    BY <2>1, <2>2, <2>3, <2>4, <2>5, <2>6, <2>7
<1>5. ASSUME RetryHandler PROVE LinkInv'
  <2>1. TypeOK'
    <3>1. inTime' \in BOOLEAN
      BY <1>5, Zenon DEF RetryHandler, DoConnect, Answer, TypeOK
    <3> QED
      BY <1>5, <3>1 DEF RetryHandler, DoConnect, Answer, TypeOK
  <2>2. AnswerOnce'
    BY <1>5 DEF RetryHandler, DoConnect, Answer, TypeOK, AnswerOnce,
                OneOperation
  <2>3. OneOperation'
    BY <1>5 DEF RetryHandler, DoConnect, Answer, TypeOK, AnswerOnce,
                OneOperation
  <2>4. DeadlineHolds'
    BY <1>5 DEF RetryHandler, DoConnect, Answer, TypeOK, AnswerOnce,
                OneOperation, DeadlineHolds
  <2>5. ConnectionHeld'
    BY <1>5 DEF RetryHandler, DoConnect, Answer, TypeOK, OneOperation,
                DeadlineHolds, ConnectionHeld, Undisturbed
  <2>6. LinkStands'
    BY <1>5 DEF RetryHandler, DoConnect, Answer, TypeOK, AnswerOnce,
                OneOperation, DeadlineHolds, ConnectionHeld, Undisturbed,
                LinkStands
  <2>7. FaultNeedsCause'
    BY <1>5 DEF RetryHandler, DoConnect, Answer, TypeOK, OneOperation,
                ConnectionHeld, Undisturbed, FaultNeedsCause
  <2> QED
    BY <2>1, <2>2, <2>3, <2>4, <2>5, <2>6, <2>7
<1>6. ASSUME Accept PROVE LinkInv'
  <2>1. TypeOK'
    <3>1. inTime' \in BOOLEAN
      BY <1>6, Zenon DEF Accept, DoAccept, Answer, CloseSocket, TypeOK
    <3> QED
      BY <1>6, <3>1 DEF Accept, DoAccept, Answer, CloseSocket, TypeOK
  <2>2. AnswerOnce'
    BY <1>6 DEF Accept, DoAccept, Answer, CloseSocket, TypeOK, AnswerOnce,
                OneOperation
  <2>3. OneOperation'
    BY <1>6 DEF Accept, DoAccept, Answer, CloseSocket, TypeOK, AnswerOnce,
                OneOperation
  <2>4. DeadlineHolds'
    BY <1>6 DEF Accept, DoAccept, Answer, CloseSocket, TypeOK, AnswerOnce,
                OneOperation, DeadlineHolds
  <2>5. ConnectionHeld'
    BY <1>6 DEF Accept, DoAccept, Answer, CloseSocket, TypeOK, OneOperation,
                DeadlineHolds, ConnectionHeld, Undisturbed
  <2>6. LinkStands'
    BY <1>6 DEF Accept, DoAccept, Answer, CloseSocket, TypeOK, AnswerOnce,
                OneOperation, DeadlineHolds, ConnectionHeld, Undisturbed,
                LinkStands
  <2>7. FaultNeedsCause'
    BY <1>6 DEF Accept, DoAccept, Answer, CloseSocket, TypeOK, OneOperation,
                ConnectionHeld, Undisturbed, FaultNeedsCause
  <2> QED
    BY <2>1, <2>2, <2>3, <2>4, <2>5, <2>6, <2>7
<1>7. ASSUME AdmitEnds PROVE LinkInv'
  <2>1. TypeOK'
    BY <1>7 DEF AdmitEnds, TypeOK
  <2>2. AnswerOnce'
    BY <1>7 DEF AdmitEnds, TypeOK, AnswerOnce, OneOperation
  <2>3. OneOperation'
    BY <1>7 DEF AdmitEnds, TypeOK, AnswerOnce, OneOperation
  <2>4. DeadlineHolds'
    BY <1>7 DEF AdmitEnds, TypeOK, AnswerOnce, OneOperation, DeadlineHolds
  <2>5. ConnectionHeld'
    BY <1>7 DEF AdmitEnds, TypeOK, OneOperation, DeadlineHolds, ConnectionHeld,
                Undisturbed
  <2>6. LinkStands'
    BY <1>7 DEF AdmitEnds, TypeOK, AnswerOnce, OneOperation, DeadlineHolds,
                ConnectionHeld, Undisturbed, LinkStands
  <2>7. FaultNeedsCause'
    BY <1>7 DEF AdmitEnds, TypeOK, OneOperation, ConnectionHeld, Undisturbed,
                FaultNeedsCause
  <2> QED
    BY <2>1, <2>2, <2>3, <2>4, <2>5, <2>6, <2>7
<1>8. ASSUME Assign PROVE LinkInv'
  <2>1. TypeOK'
    BY <1>8 DEF Assign, TypeOK
  <2>2. AnswerOnce'
    BY <1>8 DEF Assign, TypeOK, AnswerOnce, OneOperation
  <2>3. OneOperation'
    BY <1>8 DEF Assign, TypeOK, AnswerOnce, OneOperation
  <2>4. DeadlineHolds'
    BY <1>8 DEF Assign, TypeOK, AnswerOnce, OneOperation, DeadlineHolds
  <2>5. ConnectionHeld'
    BY <1>8 DEF Assign, TypeOK, OneOperation, DeadlineHolds, ConnectionHeld,
                Undisturbed
  <2>6. LinkStands'
    BY <1>8 DEF Assign, TypeOK, AnswerOnce, OneOperation, DeadlineHolds,
                ConnectionHeld, Undisturbed, LinkStands
  <2>7. FaultNeedsCause'
    BY <1>8 DEF Assign, TypeOK, OneOperation, ConnectionHeld, Undisturbed,
                FaultNeedsCause
  <2> QED
    BY <2>1, <2>2, <2>3, <2>4, <2>5, <2>6, <2>7
<1>9. ASSUME AdmitHandler PROVE LinkInv'
  <2>1. TypeOK'
    <3>1. inTime' \in BOOLEAN
      BY <1>9, Zenon DEF AdmitHandler, Throws, MustThrow, CancelTimer, Answer,
                         TypeOK
    <3> QED
      BY <1>9, <3>1 DEF AdmitHandler, Throws, MustThrow, CancelTimer, Answer,
                        TypeOK
  <2>2. AnswerOnce'
    BY <1>9 DEF AdmitHandler, Throws, MustThrow, CancelTimer, Answer, TypeOK,
                AnswerOnce, OneOperation
  <2>3. OneOperation'
    BY <1>9 DEF AdmitHandler, Throws, MustThrow, CancelTimer, Answer, TypeOK,
                AnswerOnce, OneOperation
  <2>4. DeadlineHolds'
    BY <1>9 DEF AdmitHandler, Throws, MustThrow, CancelTimer, Answer, TypeOK,
                AnswerOnce, OneOperation, DeadlineHolds
  <2>5. ConnectionHeld'
    BY <1>9 DEF AdmitHandler, Throws, MustThrow, CancelTimer, Answer, TypeOK,
                OneOperation, DeadlineHolds, ConnectionHeld, Undisturbed
  <2>6. LinkStands'
    BY <1>9 DEF AdmitHandler, Throws, MustThrow, CancelTimer, Answer, TypeOK,
                AnswerOnce, OneOperation, DeadlineHolds, ConnectionHeld,
                Undisturbed, LinkStands
  <2>7. FaultNeedsCause'
    BY <1>9 DEF AdmitHandler, Throws, MustThrow, CancelTimer, Answer, TypeOK,
                OneOperation, ConnectionHeld, Undisturbed, FaultNeedsCause
  <2> QED
    BY <2>1, <2>2, <2>3, <2>4, <2>5, <2>6, <2>7
<1>10. ASSUME AdmitFailed PROVE LinkInv'
  <2>1. TypeOK'
    BY <1>10 DEF AdmitFailed, CancelTimer, Answer, TypeOK
  <2>2. AnswerOnce'
    BY <1>10 DEF AdmitFailed, CancelTimer, Answer, TypeOK, AnswerOnce,
                 OneOperation
  <2>3. OneOperation'
    BY <1>10 DEF AdmitFailed, CancelTimer, Answer, TypeOK, AnswerOnce,
                 OneOperation
  <2>4. DeadlineHolds'
    BY <1>10 DEF AdmitFailed, CancelTimer, Answer, TypeOK, AnswerOnce,
                 OneOperation, DeadlineHolds
  <2>5. ConnectionHeld'
    BY <1>10 DEF AdmitFailed, CancelTimer, Answer, TypeOK, OneOperation,
                 DeadlineHolds, ConnectionHeld, Undisturbed
  <2>6. LinkStands'
    BY <1>10 DEF AdmitFailed, CancelTimer, Answer, TypeOK, AnswerOnce,
                 OneOperation, DeadlineHolds, ConnectionHeld, Undisturbed,
                 LinkStands
  <2>7. FaultNeedsCause'
    BY <1>10 DEF AdmitFailed, CancelTimer, Answer, TypeOK, OneOperation,
                 ConnectionHeld, Undisturbed, FaultNeedsCause
  <2> QED
    BY <2>1, <2>2, <2>3, <2>4, <2>5, <2>6, <2>7
<1>11. ASSUME AdmitAgain PROVE LinkInv'
  <2>1. TypeOK'
    <3>1. inTime' \in BOOLEAN
      BY <1>11, Zenon DEF AdmitAgain, DoAccept, Answer, CloseSocket, TypeOK
    <3>2. /\ socket' \in {"closed", "open", "connected", "shut"}
          /\ acceptor' \in {"closed", "open", "listening"}
          /\ deadline' \in {"idle", "armed", "fired"}
          /\ retry' \in {"idle", "armed", "fired", "aborted"}
          /\ dial' \in {"idle", "pending", "connected", "refused", "failed",
                        "aborted"}
          /\ admit' \in {"idle", "pending", "right", "wrong", "aborted",
                         "rightIn", "wrongIn", "again"}
      BY <1>11 DEF AdmitAgain, DoAccept, Answer, CloseSocket, TypeOK
    <3>3. /\ told' \in {"nothing", "success", "error"} /\ answers' \in Nat
      BY <1>11 DEF AdmitAgain, DoAccept, Answer, CloseSocket, TypeOK
    <3> QED
      BY <1>11, <3>1, <3>2, <3>3 DEF AdmitAgain, TypeOK
  <2>2. AnswerOnce'
    BY <1>11 DEF AdmitAgain, DoAccept, Answer, CloseSocket, TypeOK, AnswerOnce,
                 OneOperation
  <2>3. OneOperation'
    BY <1>11 DEF AdmitAgain, DoAccept, Answer, CloseSocket, TypeOK, AnswerOnce,
                 OneOperation
  <2>4. DeadlineHolds'
    BY <1>11 DEF AdmitAgain, DoAccept, Answer, CloseSocket, TypeOK, AnswerOnce,
                 OneOperation, DeadlineHolds
  <2>5. ConnectionHeld'
    BY <1>11 DEF AdmitAgain, DoAccept, Answer, CloseSocket, TypeOK,
                 OneOperation, DeadlineHolds, ConnectionHeld, Undisturbed
  <2>6. LinkStands'
    <3>1. told = "nothing"
      BY <1>11 DEF AdmitAgain, TypeOK, AnswerOnce, OneOperation
    <3>2. told' = told \/ told' = "error"
      BY <1>11 DEF AdmitAgain, DoAccept, Answer, CloseSocket
    <3> QED
      BY <3>1, <3>2 DEF LinkStands
  <2>7. FaultNeedsCause'
    BY <1>11 DEF AdmitAgain, DoAccept, Answer, CloseSocket, TypeOK,
                 OneOperation, ConnectionHeld, Undisturbed, FaultNeedsCause
  <2> QED
    BY <2>1, <2>2, <2>3, <2>4, <2>5, <2>6, <2>7
<1>12. ASSUME Late PROVE LinkInv'
  <2>1. TypeOK'
    BY <1>12 DEF Late, TypeOK
  <2>2. AnswerOnce'
    BY <1>12 DEF Late, TypeOK, AnswerOnce, OneOperation
  <2>3. OneOperation'
    BY <1>12 DEF Late, TypeOK, AnswerOnce, OneOperation
  <2>4. DeadlineHolds'
    BY <1>12 DEF Late, TypeOK, AnswerOnce, OneOperation, DeadlineHolds
  <2>5. ConnectionHeld'
    BY <1>12 DEF Late, TypeOK, OneOperation, DeadlineHolds, ConnectionHeld,
                 Undisturbed
  <2>6. LinkStands'
    BY <1>12 DEF Late, TypeOK, AnswerOnce, OneOperation, DeadlineHolds,
                 ConnectionHeld, Undisturbed, LinkStands
  <2>7. FaultNeedsCause'
    BY <1>12 DEF Late, TypeOK, OneOperation, ConnectionHeld, Undisturbed,
                 FaultNeedsCause
  <2> QED
    BY <2>1, <2>2, <2>3, <2>4, <2>5, <2>6, <2>7
<1>13. ASSUME DeadlineExpires PROVE LinkInv'
  <2>1. TypeOK'
    BY <1>13 DEF DeadlineExpires, TypeOK
  <2>2. AnswerOnce'
    BY <1>13 DEF DeadlineExpires, TypeOK, AnswerOnce, OneOperation
  <2>3. OneOperation'
    BY <1>13 DEF DeadlineExpires, TypeOK, AnswerOnce, OneOperation
  <2>4. DeadlineHolds'
    BY <1>13 DEF DeadlineExpires, TypeOK, AnswerOnce, OneOperation,
                 DeadlineHolds
  <2>5. ConnectionHeld'
    BY <1>13 DEF DeadlineExpires, TypeOK, OneOperation, DeadlineHolds,
                 ConnectionHeld, Undisturbed
  <2>6. LinkStands'
    BY <1>13 DEF DeadlineExpires, TypeOK, AnswerOnce, OneOperation,
                 DeadlineHolds, ConnectionHeld, Undisturbed, LinkStands
  <2>7. FaultNeedsCause'
    BY <1>13 DEF DeadlineExpires, TypeOK, OneOperation, ConnectionHeld,
                 Undisturbed, FaultNeedsCause
  <2> QED
    BY <2>1, <2>2, <2>3, <2>4, <2>5, <2>6, <2>7
<1>14. ASSUME DeadlineHandler PROVE LinkInv'
  <2>1. TypeOK'
    BY <1>14 DEF DeadlineHandler, CloseSocket, CloseAcceptor, TypeOK
  <2>2. AnswerOnce'
    BY <1>14 DEF DeadlineHandler, CloseSocket, CloseAcceptor, TypeOK,
                 AnswerOnce, OneOperation
  <2>3. OneOperation'
    BY <1>14 DEF DeadlineHandler, CloseSocket, CloseAcceptor, TypeOK,
                 AnswerOnce, OneOperation
  <2>4. DeadlineHolds'
    BY <1>14 DEF DeadlineHandler, CloseSocket, CloseAcceptor, TypeOK,
                 AnswerOnce, OneOperation, DeadlineHolds
  <2>5. ConnectionHeld'
    BY <1>14 DEF DeadlineHandler, CloseSocket, CloseAcceptor, TypeOK,
                 OneOperation, DeadlineHolds, ConnectionHeld, Undisturbed
  <2>6. LinkStands'
    BY <1>14 DEF DeadlineHandler, CloseSocket, CloseAcceptor, TypeOK,
                 AnswerOnce, OneOperation, DeadlineHolds, ConnectionHeld,
                 Undisturbed, LinkStands
  <2>7. FaultNeedsCause'
    BY <1>14 DEF DeadlineHandler, CloseSocket, CloseAcceptor, TypeOK,
                 OneOperation, ConnectionHeld, Undisturbed, FaultNeedsCause
  <2> QED
    BY <2>1, <2>2, <2>3, <2>4, <2>5, <2>6, <2>7
<1>15. ASSUME PeerResets PROVE LinkInv'
  <2>1. TypeOK'
    BY <1>15 DEF PeerResets, TypeOK
  <2>2. AnswerOnce'
    BY <1>15 DEF PeerResets, TypeOK, AnswerOnce, OneOperation
  <2>3. OneOperation'
    BY <1>15 DEF PeerResets, TypeOK, AnswerOnce, OneOperation
  <2>4. DeadlineHolds'
    BY <1>15 DEF PeerResets, TypeOK, AnswerOnce, OneOperation, DeadlineHolds
  <2>5. ConnectionHeld'
    BY <1>15 DEF PeerResets, TypeOK, OneOperation, DeadlineHolds,
                 ConnectionHeld, Undisturbed
  <2>6. LinkStands'
    BY <1>15 DEF PeerResets, TypeOK, AnswerOnce, OneOperation, DeadlineHolds,
                 ConnectionHeld, Undisturbed, LinkStands
  <2>7. FaultNeedsCause'
    BY <1>15 DEF PeerResets, TypeOK, OneOperation, ConnectionHeld, Undisturbed,
                 FaultNeedsCause
  <2> QED
    BY <2>1, <2>2, <2>3, <2>4, <2>5, <2>6, <2>7
<1>16. ASSUME Close PROVE LinkInv'
  <2>1. TypeOK'
    BY <1>16 DEF Close, CancelTimer, CloseSocket, CloseAcceptor, TypeOK
  <2>2. AnswerOnce'
    BY <1>16 DEF Close, CancelTimer, CloseSocket, CloseAcceptor, TypeOK,
                 AnswerOnce, OneOperation
  <2>3. OneOperation'
    BY <1>16 DEF Close, CancelTimer, CloseSocket, CloseAcceptor, TypeOK,
                 AnswerOnce, OneOperation
  <2>4. DeadlineHolds'
    BY <1>16 DEF Close, CancelTimer, CloseSocket, CloseAcceptor, TypeOK,
                 AnswerOnce, OneOperation, DeadlineHolds
  <2>5. ConnectionHeld'
    BY <1>16 DEF Close, CancelTimer, CloseSocket, CloseAcceptor, TypeOK,
                 OneOperation, DeadlineHolds, ConnectionHeld, Undisturbed
  <2>6. LinkStands'
    BY <1>16 DEF Close, CancelTimer, CloseSocket, CloseAcceptor, TypeOK,
                 AnswerOnce, OneOperation, DeadlineHolds, ConnectionHeld,
                 Undisturbed, LinkStands
  <2>7. FaultNeedsCause'
    BY <1>16 DEF Close, CancelTimer, CloseSocket, CloseAcceptor, TypeOK,
                 OneOperation, ConnectionHeld, Undisturbed, FaultNeedsCause
  <2> QED
    BY <2>1, <2>2, <2>3, <2>4, <2>5, <2>6, <2>7
<1>17. ASSUME Destroy PROVE LinkInv'
  <2>1. TypeOK'
    <3>1. alive' \in BOOLEAN
      BY <1>17, Zenon DEF Destroy, CancelTimer, CloseSocket, CloseAcceptor,
                          TypeOK
    <3>2. /\ socket' \in {"closed", "open", "connected", "shut"}
          /\ acceptor' \in {"closed", "open", "listening"}
          /\ deadline' \in {"idle", "armed", "fired"}
          /\ retry' \in {"idle", "armed", "fired", "aborted"}
          /\ dial' \in {"idle", "pending", "connected", "refused", "failed",
                        "aborted"}
          /\ admit' \in {"idle", "pending", "right", "wrong", "aborted",
                         "rightIn", "wrongIn", "again"}
      BY <1>17 DEF Destroy, CancelTimer, CloseSocket, CloseAcceptor, TypeOK
    <3>3. /\ told' \in {"nothing", "success", "error"} /\ answers' \in Nat
      BY <1>17 DEF Destroy, CancelTimer, CloseSocket, CloseAcceptor, TypeOK
    <3> QED
      BY <1>17, <3>1, <3>2, <3>3 DEF Destroy, TypeOK
  <2>2. AnswerOnce'
    BY <1>17 DEF Destroy, CancelTimer, CloseSocket, CloseAcceptor, TypeOK,
                 AnswerOnce, OneOperation
  <2>3. OneOperation'
    BY <1>17 DEF Destroy, CancelTimer, CloseSocket, CloseAcceptor, TypeOK,
                 AnswerOnce, OneOperation
  <2>4. DeadlineHolds'
    BY <1>17 DEF Destroy, CancelTimer, CloseSocket, CloseAcceptor, TypeOK,
                 AnswerOnce, OneOperation, DeadlineHolds
  <2>5. ConnectionHeld'
    BY <1>17 DEF Destroy, CancelTimer, CloseSocket, CloseAcceptor, TypeOK,
                 OneOperation, DeadlineHolds, ConnectionHeld, Undisturbed
  <2>6. LinkStands'
    BY <1>17 DEF Destroy, CancelTimer, CloseSocket, CloseAcceptor, TypeOK,
                 AnswerOnce, OneOperation, DeadlineHolds, ConnectionHeld,
                 Undisturbed, LinkStands
  <2>7. FaultNeedsCause'
    BY <1>17 DEF Destroy, CancelTimer, CloseSocket, CloseAcceptor, TypeOK,
                 OneOperation, ConnectionHeld, Undisturbed, FaultNeedsCause
  <2> QED
    BY <2>1, <2>2, <2>3, <2>4, <2>5, <2>6, <2>7
<1>18. ASSUME Shutdown PROVE LinkInv'
  <2>1. TypeOK'
    BY <1>18 DEF Shutdown, CancelTimer, CloseAcceptor, TypeOK
  <2>2. AnswerOnce'
    BY <1>18 DEF Shutdown, CancelTimer, CloseAcceptor, TypeOK, AnswerOnce,
                 OneOperation
  <2>3. OneOperation'
    BY <1>18 DEF Shutdown, CancelTimer, CloseAcceptor, TypeOK, AnswerOnce,
                 OneOperation
  <2>4. DeadlineHolds'
    BY <1>18 DEF Shutdown, CancelTimer, CloseAcceptor, TypeOK, AnswerOnce,
                 OneOperation, DeadlineHolds
  <2>5. ConnectionHeld'
    BY <1>18 DEF Shutdown, CancelTimer, CloseAcceptor, TypeOK, OneOperation,
                 DeadlineHolds, ConnectionHeld, Undisturbed
  <2>6. LinkStands'
    BY <1>18 DEF Shutdown, CancelTimer, CloseAcceptor, TypeOK, AnswerOnce,
                 OneOperation, DeadlineHolds, ConnectionHeld, Undisturbed,
                 LinkStands
  <2>7. FaultNeedsCause'
    BY <1>18 DEF Shutdown, CancelTimer, CloseAcceptor, TypeOK, OneOperation,
                 ConnectionHeld, Undisturbed, FaultNeedsCause
  <2> QED
    BY <2>1, <2>2, <2>3, <2>4, <2>5, <2>6, <2>7
<1>19. CASE UNCHANGED vars
  BY <1>19 DEF TypeOK, AnswerOnce, OneOperation, DeadlineHolds, ConnectionHeld,
               Undisturbed, LinkStands, FaultNeedsCause
<1> QED
  BY <1>1, <1>2, <1>3, <1>4, <1>5, <1>6, <1>7, <1>8, <1>9, <1>10, <1>11,
     <1>12, <1>13, <1>14, <1>15, <1>16, <1>17, <1>18, <1>19
     DEF Next, Kernel, Clock, Handlers, User

\* LinkInv is an invariant: the steps above, from a channel nobody has used.
THEOREM Inductive == Spec => []LinkInv
<1>1. Init => LinkInv
  <2> SUFFICES ASSUME Init PROVE LinkInv
    OBVIOUS
  <2>1. TypeOK
    BY DEF Init, TypeOK
  <2>2. AnswerOnce /\ OneOperation
    BY DEF Init, AnswerOnce, OneOperation
  <2>3. DeadlineHolds /\ ConnectionHeld
    BY DEF Init, DeadlineHolds, ConnectionHeld
  <2>4. LinkStands /\ FaultNeedsCause
    BY DEF Init, LinkStands, FaultNeedsCause
  <2> QED
    BY <2>1, <2>2, <2>3, <2>4 DEF LinkInv
<1>2. LinkInv /\ [Next]_vars => LinkInv'
  BY LinkStep
<1> QED
  BY <1>1, <1>2, PTL DEF Spec

\* The state of the channel is well typed whatever its timers and handlers do.
THEOREM TypeCorrect == Spec => []TypeOK
<1>1. LinkInv => TypeOK
  BY DEF LinkInv
<1> QED
  BY <1>1, Inductive, PTL

\* The handler of connect() or accept() is called at most once, and nothing of
\* that call is left behind it, after any number of refusals and strangers.
THEOREM AnsweredOnce == Spec => []AnswerOnce
<1>1. LinkInv => AnswerOnce
  BY DEF LinkInv
<1> QED
  BY <1>1, Inductive, PTL

\* A link reported in time is not closed by its own deadline.
THEOREM LinkNotCut == Spec => []LinkStands
<1>1. LinkInv => LinkStands
  BY DEF LinkInv
<1> QED
  BY <1>1, Inductive, PTL

\* The accept handler throws, or meets a destroyed socket, only through the
\* application or the peer.
THEOREM FaultsExplained == Spec => []FaultNeedsCause
<1>1. LinkInv => FaultNeedsCause
  BY DEF LinkInv
<1> QED
  BY <1>1, Inductive, PTL

=============================================================================
