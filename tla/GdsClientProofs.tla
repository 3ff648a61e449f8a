-------------------------- MODULE GdsClientProofs --------------------------
(* Safety of the session for any set of application threads, any bounds   *)
(* and any behaviour of the listener.                                      *)
EXTENDS GdsClient, TLAPS

\* The checks of the code are expanded in every proof.
USE DEF MayStart, MaySend, KeepsState, HasConnection, TimeoutIsNews, countdown

\* The threads of the model are the application threads and Ws, all distinct.
LEMMA ThreadFacts ==
    /\ Ws \in Threads
    /\ \A u \in Users : u \in Threads /\ u # Ws
  BY WsAssumption DEF Threads

\* Init without the Boolean variables.
LEMMA InitFacts ==
    ASSUME Init
    PROVE  /\ pc = [t \in Threads |-> IF t = Ws THEN "unborn" ELSE "idle"]
           /\ ret = [t \in Threads |-> IF t = Ws THEN "loop" ELSE "idle"]
           /\ m_state = "NOT_CONNECTED" /\ latch = 1 /\ link = "none"
           /\ gds = "silent" /\ fault = "none"
           /\ sent = [f \in Frames |-> 0] /\ calls = [k \in Callbacks |-> 0]
  BY Zenon DEF Init

\* The initial state of the client is of the right type.
LEMMA InitType == Init => TypeOK
<1> SUFFICES ASSUME Init PROVE TypeOK
  OBVIOUS
<1>1. mConnection \in BOOLEAN /\ tls_files \in BOOLEAN /\ alive \in BOOLEAN
  BY FlagAssumption, Zenon DEF Init
<1> QED
  BY <1>1, InitFacts, ThreadFacts DEF TypeOK, States, UserPcs, WsPcs, ClosePcs,
     Callbacks, Outcomes, Frames, Faults

\* A call of close or send by any thread keeps the types.
LEMMA CallType ==
    ASSUME TypeOK, NEW t \in Threads, close(t) \/ SendFrame(t)
    PROVE  TypeOK'
<1> USE WsAssumption DEF TypeOK, Threads, States, UserPcs, WsPcs, ClosePcs,
        Callbacks, Outcomes, Frames, Faults, At, Running, Goto, Die, session
<1>1. CASE CloseLoad(t)
  BY <1>1 DEF CloseLoad
<1>2. CASE CloseStore(t)
  BY <1>2 DEF CloseStore
<1>3. CASE CloseTest(t)
  BY <1>3 DEF CloseTest
<1>4. CASE CloseFrame(t)
  BY <1>4 DEF CloseFrame
<1>5. CASE CloseReset(t)
  <2>1. mConnection' \in BOOLEAN
    BY <1>5, Zenon DEF CloseReset
  <2>2. QED
    BY <1>5, <2>1 DEF CloseReset
<1>6. CASE SendFrame(t)
  BY <1>6 DEF SendFrame
<1> QED
  BY <1>1, <1>2, <1>3, <1>4, <1>5, <1>6 DEF close

\* The calls of application threads keep the types.
LEMMA UserType ==
    ASSUME TypeOK, NEW u \in Users, UserCalls(u) \/ FreeMembers(u)
    PROVE  TypeOK'
<1> USE ThreadFacts, WsAssumption DEF TypeOK, States, UserPcs, WsPcs, ClosePcs,
        Callbacks, Outcomes, Frames, Faults, At, Running, Free, Goto, Call,
        session
<1>1. CASE start(u)
  BY <1>1 DEF start
<1>2. CASE send(u)
  BY <1>2 DEF send
<1>3. CASE CallClose(u)
  BY <1>3 DEF CallClose
<1>4. CASE CallDestroy(u)
  BY <1>4 DEF CallDestroy
<1>5. CASE FreeMembers(u)
  <2>1. alive' \in BOOLEAN
    BY <1>5, Zenon DEF FreeMembers
  <2>2. QED
    BY <1>5, <2>1 DEF FreeMembers
<1> QED
  BY <1>1, <1>2, <1>3, <1>4, <1>5 DEF UserCalls

\* Events of the peer and of the network keep the types.
LEMMA PeerType == ASSUME TypeOK, Peer PROVE TypeOK'
<1> USE ThreadFacts DEF TypeOK, States, UserPcs, WsPcs, ClosePcs, Callbacks,
        Outcomes, Frames, Faults, At, Running, Goto, Call, Cas, session
<1>1. CASE m_on_open
  BY <1>1 DEF m_on_open
<1>2. CASE \E a \in {"accepted", "declined"} : ReplyReceived(a)
  BY <1>2 DEF ReplyReceived
<1>3. CASE DataReceived
  BY <1>3 DEF DataReceived
<1>4. CASE m_on_close
  BY <1>4 DEF m_on_close
<1>5. CASE m_on_error
  BY <1>5 DEF m_on_error
<1> QED
  BY <1>1, <1>2, <1>3, <1>4, <1>5 DEF Peer

\* The steps of the WebSocket thread itself, its calls of close and send apart.
WsOwn ==
    \/ RunThread \/ OpenConnection \/ OpenLoggingIn \/ login
    \/ LoginAccepted \/ LoginDeclined
    \/ (\E k \in Callbacks : Notify(k))
    \/ CallbackReturns \/ CallbackSends \/ CallbackCloses
    \/ LoopEnds \/ AwaitReturns \/ AwaitTimesOut \/ RemoveKeyFiles
    \/ UseAfterDestroy

\* Steps of the WebSocket thread keep the types.
LEMMA WsType == ASSUME TypeOK, WsOwn PROVE TypeOK'
<1> USE ThreadFacts DEF TypeOK, States, UserPcs, WsPcs, ClosePcs, Callbacks,
        Outcomes, Frames, Faults, At, Running, Goto, Call, Cas, session, Die
<1>1. CASE RunThread
  <2>1. mConnection' \in BOOLEAN
    BY <1>1, Zenon DEF RunThread
  <2>2. CASE m_state = "INITIALIZING"
    BY <1>1, <2>1, <2>2 DEF RunThread
  <2>3. CASE m_state # "INITIALIZING"
    BY <1>1, <2>1, <2>3 DEF RunThread
  <2>4. QED
    BY <2>2, <2>3
<1>2. CASE OpenConnection
  <2>1. mConnection' \in BOOLEAN
    BY <1>2, Zenon DEF OpenConnection
  <2>2. QED
    BY <1>2, <2>1 DEF OpenConnection
<1>3. CASE OpenLoggingIn
  <2>1. mConnection' \in BOOLEAN
    BY <1>3, Zenon DEF OpenLoggingIn
  <2>2. CASE m_state = "CONNECTED"
    BY <1>3, <2>1, <2>2 DEF OpenLoggingIn
  <2>3. CASE m_state # "CONNECTED"
    BY <1>3, <2>1, <2>3 DEF OpenLoggingIn
  <2>4. QED
    BY <2>2, <2>3
<1>4. CASE login
  <2>1. CASE mConnection
    <3>1. mConnection' \in BOOLEAN
      BY <1>4, <2>1, Zenon DEF login
    <3>2. QED
      BY <1>4, <2>1, <3>1 DEF login
  <2>2. CASE ~mConnection
    <3>1. mConnection' \in BOOLEAN
      BY <1>4, <2>2, Zenon DEF login
    <3>2. QED
      BY <1>4, <2>2, <3>1 DEF login
  <2>3. QED
    BY <2>1, <2>2
<1>5. CASE LoginAccepted
  BY <1>5 DEF LoginAccepted
<1>6. CASE LoginDeclined
  BY <1>6 DEF LoginDeclined
<1>7. CASE \E k \in Callbacks : Notify(k)
  BY <1>7 DEF Notify
<1>8. CASE CallbackReturns
  BY <1>8 DEF CallbackReturns
<1>9. CASE CallbackSends
  <2>1. CASE MaySend
    BY <1>9, <2>1 DEF CallbackSends
  <2>2. CASE ~MaySend
    <3>1. mConnection' \in BOOLEAN
      BY <1>9, <2>2, Zenon DEF CallbackSends
    <3>2. QED
      BY <1>9, <2>2, <3>1 DEF CallbackSends
  <2>3. QED
    BY <2>1, <2>2
<1>10. CASE CallbackCloses
  <2>1. mConnection' \in BOOLEAN
    BY <1>10, Zenon DEF CallbackCloses
  <2>2. QED
    BY <1>10, <2>1 DEF CallbackCloses
<1>11. CASE LoopEnds
  BY <1>11 DEF LoopEnds
<1>12. CASE AwaitReturns
  BY <1>12 DEF AwaitReturns
<1>13. CASE AwaitTimesOut
  <2>1. mConnection' \in BOOLEAN
    BY <1>13, Zenon DEF AwaitTimesOut
  <2>2. UNCHANGED <<latch, ret, link, gds, tls_files, alive, fault>>
    BY <1>13, Zenon DEF AwaitTimesOut
  <2>3. pc' = [pc EXCEPT ![Ws] = "cleanup"]
    BY <1>13, Zenon DEF AwaitTimesOut
  <2>4. /\ m_state' \in {m_state, "FAILED"}
        /\ sent' \in {sent, [sent EXCEPT !.CLOSE = 1]}
        /\ calls' \in {calls, [calls EXCEPT !.failure = @ + 1]}
    BY <1>13 DEF AwaitTimesOut
  <2>5. QED
    BY <2>1, <2>2, <2>3, <2>4
<1>14. CASE RemoveKeyFiles
  <2>1. tls_files' \in BOOLEAN
    BY <1>14, Zenon DEF RemoveKeyFiles
  <2>2. QED
    BY <1>14, <2>1 DEF RemoveKeyFiles
<1>15. CASE UseAfterDestroy
  BY <1>15 DEF UseAfterDestroy
<1> QED
  BY <1>1, <1>2, <1>3, <1>4, <1>5, <1>6, <1>7, <1>8, <1>9, <1>10, <1>11,
     <1>12, <1>13, <1>14, <1>15, Zenon DEF WsOwn

\* Next, split the way the proofs below split it.
LEMMA NextCases ==
    ASSUME Next
    PROVE  \/ \E t \in Threads : close(t) \/ SendFrame(t)
           \/ \E u \in Users : UserCalls(u) \/ FreeMembers(u)
           \/ Peer
           \/ WsOwn
  BY ThreadFacts, Zenon DEF Next, UserSteps, WsSteps, WsOwn

\* The variables keep their types in every behaviour.
THEOREM Typing == Spec => []TypeOK
<1>1. ASSUME TypeOK, [Next]_vars PROVE TypeOK'
  <2>1. CASE Next
    BY <1>1, <2>1, NextCases, CallType, UserType, PeerType, WsType, Zenon
  <2>2. CASE UNCHANGED vars
    BY <1>1, <2>2 DEF TypeOK, vars
  <2>3. QED
    BY <1>1, <2>1, <2>2
<1>2. QED
  BY <1>1, InitType, PTL DEF Spec

-----------------------------------------------------------------------------
(* What holds however the client is used.  NoUnauthenticatedTraffic and    *)
(* AwaitFindsDisconnected are not inductive: the first needs the state to  *)
(* tell the answer of the GDS, the second needs that a thread whose latch  *)
(* is still up lost its link to m_on_close, and not to m_on_error.         *)

SessionInv ==
    /\ m_state = "LOGGED_IN" => gds = "accepted"
    /\ sent.MSG > 0 => gds = "accepted"
    /\ \A t \in Threads : pc[t] = "send_frame" => gds = "accepted"
    /\ pc[Ws] = "reply" => latch = 0
    /\ pc[Ws] = "await" => link = "down"
    /\ link = "down" /\ latch > 0 => m_state = "DISCONNECTED"

(* Under ~EarlyClose: until the session is settled, by an answer of the GDS *)
(* or the loss of the link, no outcome has been notified, no application    *)
(* thread is in close, and m_state is what the WebSocket thread left there. *)

Settled == link = "down" \/ (link = "open" /\ gds # "silent")
OpeningPcs == {"unborn", "spawned", "open_conn", "open_login", "login"}

PatientInv ==
    /\ fault # "state_error"
    /\ m_state = "NOT_CONNECTED" => pc[Ws] = "unborn"
    /\ pc[Ws] = "unborn" => m_state = "NOT_CONNECTED" /\ link = "none"
    /\ pc[Ws] = "spawned" => m_state = "INITIALIZING" /\ link = "none"
    /\ pc[Ws] = "loop" /\ ~Settled =>
         \/ link = "opening" /\ m_state = "CONNECTING"
         \/ link = "open" /\ m_state = "LOGGING_IN"
    /\ pc[Ws] \in {"open_conn", "open_login"} =>
         link = "open" /\ gds = "silent" /\ m_state = "CONNECTED"
    /\ pc[Ws] = "login" =>
         link = "open" /\ gds = "silent" /\ m_state = "LOGGING_IN"
    /\ pc[Ws] = "reply" => m_state = "LOGGING_IN" /\ ~Notified
    /\ ~Settled => ~Notified /\ pc[Ws] \in OpeningPcs \cup {"loop"}
    /\ link \in {"none", "opening"} => gds = "silent"
    /\ ~Notified => \A u \in Users :
                       pc[u] \in {"idle", "send_frame"} /\ ret[u] = "idle"

\* The steps of a close or a send, by either side, keep SessionInv: none of
\* them touches gds, the latch or the link.
LEMMA CallSession ==
    ASSUME TypeOK, SessionInv, NEW t \in Threads, close(t) \/ SendFrame(t)
    PROVE  SessionInv'
<1> USE ThreadFacts DEF TypeOK, SessionInv, Threads, UserPcs, WsPcs, ClosePcs,
        Callbacks, Outcomes, Frames, At, Running, Free, Goto, Call, Cas, Die,
        session
<1>1. CASE CloseLoad(t)
  BY <1>1 DEF CloseLoad
<1>2. CASE CloseStore(t)
  BY <1>2 DEF CloseStore
<1>3. CASE CloseTest(t)
  BY <1>3 DEF CloseTest
<1>4. CASE CloseFrame(t)
  BY <1>4 DEF CloseFrame
<1>5. CASE CloseReset(t)
  BY <1>5 DEF CloseReset
<1>6. CASE SendFrame(t)
  BY <1>6 DEF SendFrame
<1> QED
  BY <1>1, <1>2, <1>3, <1>4, <1>5, <1>6, Zenon DEF close

\* The calls of application threads keep SessionInv.
LEMMA UserSession ==
    ASSUME TypeOK, SessionInv, NEW u \in Users, UserCalls(u) \/ FreeMembers(u)
    PROVE  SessionInv'
<1> USE ThreadFacts DEF TypeOK, SessionInv, Threads, UserPcs, WsPcs, ClosePcs,
        Callbacks, Outcomes, Frames, At, Running, Free, Goto, Call, Cas, Die,
        session
<1>1. CASE start(u)
  BY <1>1 DEF start
<1>2. CASE send(u)
  BY <1>2 DEF send
<1>3. CASE CallClose(u)
  BY <1>3 DEF CallClose
<1>4. CASE CallDestroy(u)
  BY <1>4 DEF CallDestroy
<1>5. CASE FreeMembers(u)
  BY <1>5 DEF FreeMembers
<1> QED
  BY <1>1, <1>2, <1>3, <1>4, <1>5, Zenon DEF UserCalls

\* What the peer does keeps SessionInv: the latch is down once the login was
\* answered or the link has failed (m_on_message, m_on_error).
LEMMA PeerSession ==
    ASSUME TypeOK, SessionInv, Peer
    PROVE  SessionInv'
<1> USE ThreadFacts DEF TypeOK, SessionInv, Threads, UserPcs, WsPcs, ClosePcs,
        Callbacks, Outcomes, Frames, At, Running, Free, Goto, Call, Cas, Die,
        session
<1>1. CASE m_on_open
  BY <1>1 DEF m_on_open
<1>2. CASE \E a \in {"accepted", "declined"} : ReplyReceived(a)
  BY <1>2 DEF ReplyReceived
<1>3. CASE DataReceived
  BY <1>3 DEF DataReceived
<1>4. CASE m_on_close
  BY <1>4 DEF m_on_close
<1>5. CASE m_on_error
  BY <1>5 DEF m_on_error
<1> QED
  BY <1>1, <1>2, <1>3, <1>4, <1>5, Zenon DEF Peer

\* The steps of the WebSocket thread keep SessionInv.
LEMMA WsSession ==
    ASSUME TypeOK, SessionInv, WsOwn
    PROVE  SessionInv'
<1> USE ThreadFacts DEF TypeOK, SessionInv, Threads, UserPcs, WsPcs, ClosePcs,
        Callbacks, Outcomes, Frames, At, Running, Free, Goto, Call, Cas, Die,
        session
<1>1. CASE RunThread
  BY <1>1 DEF RunThread
<1>2. CASE OpenConnection
  BY <1>2 DEF OpenConnection
<1>3. CASE OpenLoggingIn
  BY <1>3 DEF OpenLoggingIn
<1>4. CASE login
  BY <1>4 DEF login
<1>5. CASE LoginAccepted
  BY <1>5 DEF LoginAccepted
<1>6. CASE LoginDeclined
  BY <1>6 DEF LoginDeclined
<1>7. CASE \E k \in Callbacks : Notify(k)
  BY <1>7 DEF Notify
<1>8. CASE CallbackReturns
  BY <1>8 DEF CallbackReturns
<1>9. CASE CallbackSends
  BY <1>9 DEF CallbackSends
<1>10. CASE CallbackCloses
  BY <1>10 DEF CallbackCloses
<1>11. CASE LoopEnds
  BY <1>11 DEF LoopEnds
<1>12. CASE AwaitReturns
  BY <1>12 DEF AwaitReturns
<1>13. CASE AwaitTimesOut
  BY <1>13 DEF AwaitTimesOut
<1>14. CASE RemoveKeyFiles
  BY <1>14 DEF RemoveKeyFiles
<1>15. CASE UseAfterDestroy
  BY <1>15 DEF UseAfterDestroy
<1> QED
  BY <1>1, <1>2, <1>3, <1>4, <1>5, <1>6, <1>7, <1>8, <1>9, <1>10, <1>11,
     <1>12, <1>13, <1>14, <1>15, Zenon DEF WsOwn

\* The inductive invariant of every client, however it is used: where the
\* WebSocket thread is says what became of the link, the latch and the login.
THEOREM SessionSafe == Spec => []SessionInv
<1>1. Init => SessionInv
  <2> SUFFICES ASSUME Init PROVE SessionInv
    OBVIOUS
  <2> QED
    BY InitFacts, ThreadFacts DEF SessionInv, Frames
<1>2. ASSUME TypeOK, SessionInv, [Next]_vars PROVE SessionInv'
  <2>1. CASE Next
    BY <1>2, <2>1, NextCases, CallSession, UserSession, PeerSession, WsSession,
       Zenon
  <2>2. CASE UNCHANGED vars
    BY <1>2, <2>2 DEF SessionInv, vars
  <2>3. QED
    BY <1>2, <2>1, <2>2
<1>3. QED
  BY <1>1, <1>2, Typing, PTL DEF Spec

\* No application frame is handed to the connection before the GDS accepts.
THEOREM LoginGuards == Spec => []NoUnauthenticatedTraffic
<1>1. SessionInv => NoUnauthenticatedTraffic
  BY DEF SessionInv, NoUnauthenticatedTraffic
<1>2. QED
  BY <1>1, SessionSafe, PTL

\* The timeout report in start() is never reached.
THEOREM TimeoutUnreachable == Spec => []AwaitFindsDisconnected
<1>1. SessionInv => AwaitFindsDisconnected
  BY DEF SessionInv, AwaitFindsDisconnected
<1>2. QED
  BY <1>1, SessionSafe, PTL

\* The steps of a close or a send, by either side, keep PatientInv.
LEMMA CallPatient ==
    ASSUME TypeOK, PatientInv, ~EarlyClose,
           NEW t \in Threads, close(t) \/ SendFrame(t)
    PROVE  PatientInv'
<1> USE ThreadFacts DEF TypeOK, PatientInv, Notified, Settled, OpeningPcs, Outcomes,
        Threads, UserPcs, WsPcs, ClosePcs, Callbacks, Frames, At, Running,
        Free, CloseAllowed, Goto, Call, Cas, Die, session
<1>1. CASE CloseLoad(t)
  BY <1>1 DEF CloseLoad
<1>2. CASE CloseStore(t)
  BY <1>2 DEF CloseStore
<1>3. CASE CloseTest(t)
  BY <1>3 DEF CloseTest
<1>4. CASE CloseFrame(t)
  BY <1>4 DEF CloseFrame
<1>5. CASE CloseReset(t)
  BY <1>5 DEF CloseReset
<1>6. CASE SendFrame(t)
  BY <1>6 DEF SendFrame
<1> QED
  BY <1>1, <1>2, <1>3, <1>4, <1>5, <1>6, Zenon DEF close

\* The calls of application threads keep PatientInv: close waits for an outcome.
LEMMA UserPatient ==
    ASSUME TypeOK, PatientInv, ~EarlyClose,
           NEW u \in Users, UserCalls(u) \/ FreeMembers(u)
    PROVE  PatientInv'
<1> USE ThreadFacts DEF TypeOK, PatientInv, Notified, Settled, OpeningPcs, Outcomes,
        Threads, UserPcs, WsPcs, ClosePcs, Callbacks, Frames, At, Running,
        Free, CloseAllowed, Goto, Call, Cas, Die, session
<1>1. CASE start(u)
  BY <1>1 DEF start
<1>2. CASE send(u)
  BY <1>2 DEF send
<1>3. CASE CallClose(u)
  BY <1>3 DEF CallClose
<1>4. CASE CallDestroy(u)
  BY <1>4 DEF CallDestroy
<1>5. CASE FreeMembers(u)
  BY <1>5 DEF FreeMembers
<1> QED
  BY <1>1, <1>2, <1>3, <1>4, <1>5, Zenon DEF UserCalls

\* What the peer does keeps PatientInv.
LEMMA PeerPatient ==
    ASSUME TypeOK, PatientInv, ~EarlyClose,
           Peer
    PROVE  PatientInv'
<1> USE ThreadFacts DEF TypeOK, PatientInv, Notified, Settled, OpeningPcs, Outcomes,
        Threads, UserPcs, WsPcs, ClosePcs, Callbacks, Frames, At, Running,
        Free, CloseAllowed, Goto, Call, Cas, Die, session
<1>1. CASE m_on_open
  BY <1>1 DEF m_on_open
<1>2. CASE \E a \in {"accepted", "declined"} : ReplyReceived(a)
  BY <1>2 DEF ReplyReceived
<1>3. CASE DataReceived
  BY <1>3 DEF DataReceived
<1>4. CASE m_on_close
  BY <1>4 DEF m_on_close
<1>5. CASE m_on_error
  BY <1>5 DEF m_on_error
<1> QED
  BY <1>1, <1>2, <1>3, <1>4, <1>5, Zenon DEF Peer

\* The steps of the WebSocket thread keep PatientInv.
LEMMA WsPatient ==
    ASSUME TypeOK, PatientInv, ~EarlyClose,
           WsOwn
    PROVE  PatientInv'
<1> USE ThreadFacts DEF TypeOK, PatientInv, Notified, Settled, OpeningPcs, Outcomes,
        Threads, UserPcs, WsPcs, ClosePcs, Callbacks, Frames, At, Running,
        Free, CloseAllowed, Goto, Call, Cas, Die, session
<1>1. CASE RunThread
  BY <1>1 DEF RunThread
<1>2. CASE OpenConnection
  BY <1>2 DEF OpenConnection
<1>3. CASE OpenLoggingIn
  BY <1>3 DEF OpenLoggingIn
<1>4. CASE login
  BY <1>4 DEF login
<1>5. CASE LoginAccepted
  BY <1>5 DEF LoginAccepted
<1>6. CASE LoginDeclined
  BY <1>6 DEF LoginDeclined
<1>7. CASE \E k \in Callbacks : Notify(k)
  BY <1>7 DEF Notify
<1>8. CASE CallbackReturns
  BY <1>8 DEF CallbackReturns
<1>9. CASE CallbackSends
  BY <1>9 DEF CallbackSends
<1>10. CASE CallbackCloses
  BY <1>10 DEF CallbackCloses
<1>11. CASE LoopEnds
  BY <1>11 DEF LoopEnds
<1>12. CASE AwaitReturns
  BY <1>12 DEF AwaitReturns
<1>13. CASE AwaitTimesOut
  BY <1>13 DEF AwaitTimesOut
<1>14. CASE RemoveKeyFiles
  BY <1>14 DEF RemoveKeyFiles
<1>15. CASE UseAfterDestroy
  BY <1>15 DEF UseAfterDestroy
<1> QED
  BY <1>1, <1>2, <1>3, <1>4, <1>5, <1>6, <1>7, <1>8, <1>9, <1>10, <1>11,
     <1>12, <1>13, <1>14, <1>15, Zenon DEF WsOwn

\* The inductive invariant of clients that nobody closes before an outcome:
\* until then m_state is the state the WebSocket thread has put there itself.
THEOREM Patient == ~EarlyClose /\ Spec => []PatientInv
<1> SUFFICES ASSUME ~EarlyClose PROVE Spec => []PatientInv
  OBVIOUS
<1>1. Init => PatientInv
  <2> SUFFICES ASSUME Init PROVE PatientInv
    OBVIOUS
  <2> QED
    BY InitFacts, ThreadFacts DEF PatientInv, Notified, Settled, OpeningPcs,
       Outcomes, Callbacks
<1>2. ASSUME TypeOK, PatientInv, [Next]_vars PROVE PatientInv'
  <2>1. CASE Next
    BY <1>2, <2>1, NextCases, CallPatient, UserPatient, PeerPatient, WsPatient,
       Zenon
  <2>2. CASE UNCHANGED vars
    BY <1>2, <2>2 DEF PatientInv, Notified, Settled, vars
  <2>3. QED
    BY <1>2, <2>1, <2>2
<1>3. QED
  BY <1>1, <1>2, Typing, PTL DEF Spec

\* Applications that wait for an outcome never kill the process by closing.
THEOREM PatientNoStateError == ~EarlyClose /\ Spec => []NoStateError
<1>1. PatientInv => NoStateError
  BY DEF PatientInv, NoStateError
<1>2. QED
  BY <1>1, Patient, PTL

\* A step that does not leave the final states.
FinalStep == m_state \in FinalStates => m_state' \in FinalStates

\* The steps of a close or a send leave no final state.
LEMMA CallFinal ==
    ASSUME TypeOK, PatientInv, NEW t \in Threads, close(t) \/ SendFrame(t)
    PROVE  FinalStep
<1> USE ThreadFacts DEF TypeOK, PatientInv, FinalStep, FinalStates, States, At,
        Running, Goto, Call, Cas, Die, session
<1>1. CASE CloseLoad(t)
  BY <1>1 DEF CloseLoad
<1>2. CASE CloseStore(t)
  BY <1>2 DEF CloseStore
<1>3. CASE CloseTest(t)
  BY <1>3 DEF CloseTest
<1>4. CASE CloseFrame(t)
  BY <1>4 DEF CloseFrame
<1>5. CASE CloseReset(t)
  BY <1>5 DEF CloseReset
<1>6. CASE SendFrame(t)
  BY <1>6 DEF SendFrame
<1> QED
  BY <1>1, <1>2, <1>3, <1>4, <1>5, <1>6, Zenon DEF close

\* The calls of application threads leave no final state.
LEMMA UserFinal ==
    ASSUME TypeOK, PatientInv, NEW u \in Users, UserCalls(u) \/ FreeMembers(u)
    PROVE  FinalStep
<1> USE ThreadFacts DEF TypeOK, PatientInv, FinalStep, FinalStates, States, At,
        Running, Goto, Call, Cas, Die, session
<1>1. CASE start(u)
  BY <1>1 DEF start
<1>2. CASE send(u)
  BY <1>2 DEF send
<1>3. CASE CallClose(u)
  BY <1>3 DEF CallClose
<1>4. CASE CallDestroy(u)
  BY <1>4 DEF CallDestroy
<1>5. CASE FreeMembers(u)
  BY <1>5 DEF FreeMembers
<1> QED
  BY <1>1, <1>2, <1>3, <1>4, <1>5, Zenon DEF UserCalls

\* What the peer does leaves no final state.
LEMMA PeerFinal ==
    ASSUME TypeOK, PatientInv, Peer
    PROVE  FinalStep
<1> USE ThreadFacts DEF TypeOK, PatientInv, FinalStep, FinalStates, States, At,
        Running, Goto, Call, Cas, Die, session
<1>1. CASE m_on_open
  BY <1>1 DEF m_on_open
<1>2. CASE \E a \in {"accepted", "declined"} : ReplyReceived(a)
  BY <1>2 DEF ReplyReceived
<1>3. CASE DataReceived
  BY <1>3 DEF DataReceived
<1>4. CASE m_on_close
  BY <1>4 DEF m_on_close
<1>5. CASE m_on_error
  BY <1>5 DEF m_on_error
<1> QED
  BY <1>1, <1>2, <1>3, <1>4, <1>5, Zenon DEF Peer

\* The WebSocket thread leaves no final state.
LEMMA WsFinal ==
    ASSUME TypeOK, PatientInv, WsOwn
    PROVE  FinalStep
<1> USE ThreadFacts DEF TypeOK, PatientInv, FinalStep, FinalStates, States, At,
        Running, Goto, Call, Cas, Die, session
<1>1. CASE RunThread
  BY <1>1 DEF RunThread
<1>2. CASE OpenConnection
  BY <1>2 DEF OpenConnection
<1>3. CASE OpenLoggingIn
  BY <1>3 DEF OpenLoggingIn
<1>4. CASE login
  BY <1>4 DEF login
<1>5. CASE LoginAccepted
  BY <1>5 DEF LoginAccepted
<1>6. CASE LoginDeclined
  BY <1>6 DEF LoginDeclined
<1>7. CASE \E k \in Callbacks : Notify(k)
  BY <1>7 DEF Notify
<1>8. CASE CallbackReturns
  BY <1>8 DEF CallbackReturns
<1>9. CASE CallbackSends
  BY <1>9 DEF CallbackSends
<1>10. CASE CallbackCloses
  BY <1>10 DEF CallbackCloses
<1>11. CASE LoopEnds
  BY <1>11 DEF LoopEnds
<1>12. CASE AwaitReturns
  BY <1>12 DEF AwaitReturns
<1>13. CASE AwaitTimesOut
  BY <1>13 DEF AwaitTimesOut
<1>14. CASE RemoveKeyFiles
  BY <1>14 DEF RemoveKeyFiles
<1>15. CASE UseAfterDestroy
  BY <1>15 DEF UseAfterDestroy
<1> QED
  BY <1>1, <1>2, <1>3, <1>4, <1>5, <1>6, <1>7, <1>8, <1>9, <1>10, <1>11,
     <1>12, <1>13, <1>14, <1>15, Zenon DEF WsOwn

\* Under the same discipline a session that ended is never logged in again.
THEOREM PatientFinal == ~EarlyClose /\ Spec => FinalStateStable
<1>1. ASSUME TypeOK, PatientInv, Next PROVE FinalStep
  BY <1>1, NextCases, CallFinal, UserFinal, PeerFinal, WsFinal, Zenon
<1>2. ASSUME TypeOK, PatientInv, [Next]_vars PROVE [FinalStep]_vars
  BY <1>1, <1>2
<1>3. [FinalStep]_vars =>
        [(m_state \in FinalStates) => (m_state' \in FinalStates)]_vars
  BY DEF FinalStep
<1>4. QED
  BY <1>2, <1>3, Typing, Patient, PTL DEF Spec, FinalStateStable

-----------------------------------------------------------------------------
(* The connection pointer of a client that one thread uses, over a link    *)
(* that does not break: tested and used without a lock, never null.        *)

\* One application thread at most, which waits for an outcome before it closes; a
\* listener that calls nothing; a link that ends by close frames alone.
SingleUse ==
    /\ \A u, v \in Users : u = v
    /\ ~EarlyClose /\ ~LinkErrors
    /\ CallbackOps = {}

\* Nobody but the WebSocket thread closes before an outcome is notified, and the
\* WebSocket thread does not close after: whoever is between the test and the use
\* of mConnection is alone with it.
SingleInv ==
    /\ fault # "null"
    /\ link \in {"none", "opening"} => ~mConnection
    /\ pc[Ws] \in {"open_login", "login"} => mConnection
    /\ m_state \in {"LOGGING_IN", "LOGGED_IN"} => mConnection
    /\ pc[Ws] \in ClosePcs \cup {"failure"} =>
         ~Notified /\ gds # "accepted" /\ m_state = "FAILED"
    /\ pc[Ws] \notin {"close_store", "send_frame"}
    /\ \A t \in Threads :
         /\ pc[t] \in {"close_test", "close_frame", "close_reset"} =>
              m_state \in FinalStates
         /\ pc[t] \in {"close_frame", "close_reset", "send_frame"} => mConnection

\* A close resets what nobody else is using.
LEMMA CallSingle ==
    ASSUME SingleUse, TypeOK, SessionInv, PatientInv, SingleInv, NEW t \in Threads, close(t) \/ SendFrame(t)
    PROVE  SingleInv'
<1> USE ThreadFacts DEF TypeOK, SessionInv, PatientInv, SingleUse, SingleInv, Notified,
        Settled, OpeningPcs, FinalStates, Threads, UserPcs, WsPcs, ClosePcs,
        Callbacks, Outcomes, Frames, At, Running, Free, CloseAllowed, Goto,
        Call, Cas, Die, session
<1>1. CASE CloseLoad(t)
  BY <1>1 DEF CloseLoad
<1>2. CASE CloseStore(t)
  BY <1>2 DEF CloseStore
<1>3. CASE CloseTest(t)
  BY <1>3 DEF CloseTest
<1>4. CASE CloseFrame(t)
  BY <1>4 DEF CloseFrame
<1>5. CASE CloseReset(t)
  BY <1>5 DEF CloseReset
<1>6. CASE SendFrame(t)
  BY <1>6 DEF SendFrame
<1> QED
  BY <1>1, <1>2, <1>3, <1>4, <1>5, <1>6, Zenon DEF close

\* The calls of the application thread keep SingleInv.
LEMMA UserSingle ==
    ASSUME SingleUse, TypeOK, SessionInv, PatientInv, SingleInv, NEW u \in Users, UserCalls(u) \/ FreeMembers(u)
    PROVE  SingleInv'
<1> USE ThreadFacts DEF TypeOK, SessionInv, PatientInv, SingleUse, SingleInv, Notified,
        Settled, OpeningPcs, FinalStates, Threads, UserPcs, WsPcs, ClosePcs,
        Callbacks, Outcomes, Frames, At, Running, Free, CloseAllowed, Goto,
        Call, Cas, Die, session
<1>1. CASE start(u)
  BY <1>1 DEF start
<1>2. CASE send(u)
  BY <1>2 DEF send
<1>3. CASE CallClose(u)
  BY <1>3 DEF CallClose
<1>4. CASE CallDestroy(u)
  BY <1>4 DEF CallDestroy
<1>5. CASE FreeMembers(u)
  BY <1>5 DEF FreeMembers
<1> QED
  BY <1>1, <1>2, <1>3, <1>4, <1>5, Zenon DEF UserCalls

\* What the peer does keeps SingleInv.
LEMMA PeerSingle ==
    ASSUME SingleUse, TypeOK, SessionInv, PatientInv, SingleInv, Peer
    PROVE  SingleInv'
<1> USE ThreadFacts DEF TypeOK, SessionInv, PatientInv, SingleUse, SingleInv, Notified,
        Settled, OpeningPcs, FinalStates, Threads, UserPcs, WsPcs, ClosePcs,
        Callbacks, Outcomes, Frames, At, Running, Free, CloseAllowed, Goto,
        Call, Cas, Die, session
<1>1. CASE m_on_open
  BY <1>1 DEF m_on_open
<1>2. CASE \E a \in {"accepted", "declined"} : ReplyReceived(a)
  BY <1>2 DEF ReplyReceived
<1>3. CASE DataReceived
  BY <1>3 DEF DataReceived
<1>4. CASE m_on_close
  BY <1>4 DEF m_on_close
<1>5. CASE m_on_error
  BY <1>5 DEF m_on_error
<1> QED
  BY <1>1, <1>2, <1>3, <1>4, <1>5, Zenon DEF Peer

\* The steps of the WebSocket thread keep SingleInv.
LEMMA WsSingle ==
    ASSUME SingleUse, TypeOK, SessionInv, PatientInv, SingleInv, WsOwn
    PROVE  SingleInv'
<1> USE ThreadFacts DEF TypeOK, SessionInv, PatientInv, SingleUse, SingleInv, Notified,
        Settled, OpeningPcs, FinalStates, Threads, UserPcs, WsPcs, ClosePcs,
        Callbacks, Outcomes, Frames, At, Running, Free, CloseAllowed, Goto,
        Call, Cas, Die, session
<1>1. CASE RunThread
  BY <1>1 DEF RunThread
<1>2. CASE OpenConnection
  BY <1>2 DEF OpenConnection
<1>3. CASE OpenLoggingIn
  BY <1>3 DEF OpenLoggingIn
<1>4. CASE login
  BY <1>4 DEF login
<1>5. CASE LoginAccepted
  BY <1>5 DEF LoginAccepted
<1>6. CASE LoginDeclined
  BY <1>6 DEF LoginDeclined
<1>7. CASE \E k \in Callbacks : Notify(k)
  BY <1>7 DEF Notify
<1>8. CASE CallbackReturns
  BY <1>8 DEF CallbackReturns
<1>9. CASE CallbackSends
  BY <1>9 DEF CallbackSends
<1>10. CASE CallbackCloses
  BY <1>10 DEF CallbackCloses
<1>11. CASE LoopEnds
  BY <1>11 DEF LoopEnds
<1>12. CASE AwaitReturns
  BY <1>12 DEF AwaitReturns
<1>13. CASE AwaitTimesOut
  BY <1>13 DEF AwaitTimesOut
<1>14. CASE RemoveKeyFiles
  BY <1>14 DEF RemoveKeyFiles
<1>15. CASE UseAfterDestroy
  BY <1>15 DEF UseAfterDestroy
<1> QED
  BY <1>1, <1>2, <1>3, <1>4, <1>5, <1>6, <1>7, <1>8, <1>9, <1>10, <1>11,
     <1>12, <1>13, <1>14, <1>15, Zenon DEF WsOwn

\* The inductive invariant of clients in single use.
THEOREM Single == SingleUse /\ Spec => []SingleInv
<1> SUFFICES ASSUME SingleUse PROVE Spec => []SingleInv
  OBVIOUS
<1>1. Init => SingleInv
  <2> SUFFICES ASSUME Init PROVE SingleInv
    OBVIOUS
  <2>1. ~mConnection
    BY Zenon DEF Init
  <2>2. QED
    BY <2>1, InitFacts, ThreadFacts DEF SingleInv, ClosePcs
<1>2. ASSUME TypeOK, SessionInv, PatientInv, SingleInv, [Next]_vars
      PROVE  SingleInv'
  <2>1. CASE Next
    BY <1>2, <2>1, NextCases, CallSingle, UserSingle, PeerSingle, WsSingle, Zenon
  <2>2. CASE UNCHANGED vars
    BY <1>2, <2>2 DEF SingleInv, Notified, vars
  <2>3. QED
    BY <1>2, <2>1, <2>2
<1>3. ~EarlyClose
  BY DEF SingleUse
<1>4. QED
  BY <1>1, <1>2, <1>3, Typing, SessionSafe, Patient, PTL DEF Spec

\* In single use no close, send or login dereferences a null mConnection.
THEOREM SingleNoNull == SingleUse /\ Spec => []NoNullDeref
<1>1. SingleInv => NoNullDeref
  BY DEF SingleInv, NoNullDeref
<1>2. QED
  BY <1>1, Single, PTL

\* In single use the state that send() checks vouches for the connection.
THEOREM SingleConnected == SingleUse /\ Spec => []LoggedInHasConnection
<1>1. SingleInv => LoggedInHasConnection
  BY DEF SingleInv, LoggedInHasConnection
<1>2. QED
  BY <1>1, Single, PTL
=============================================================================
