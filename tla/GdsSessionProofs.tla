-------------------------- MODULE GdsSessionProofs --------------------------
(* GdsClient implements GdsSession, for any set of application threads, any *)
(* bounds and any behaviour of the listener.                               *)
EXTENDS GdsClientProofs

USE DEF MayStart, MaySend, KeepsState, HasConnection, TimeoutIsNews, countdown

One(b) == IF b THEN 1 ELSE 0

\* The end of a session has been seen, the listener does not know of it yet.
Pending == \/ pc[Ws] \in {"failure", "disconnect"}
           \/ pc[Ws] \in ClosePcs /\ ret[Ws] = "failure"
Owed == Pending \/ (pc[Ws] = "reply" /\ gds = "declined")

\* While the process lives, the callbacks that have been made are those that
\* the link and the login account for, less the one the WebSocket thread is on
\* its way to; and only a declined login is reported with the link still up.
LiveInv ==
    /\ m_state = "NOT_CONNECTED" => pc[Ws] = "unborn"
    /\ pc[Ws] \in {"unborn", "spawned"} => link = "none"
    /\ link \in {"none", "opening"} => gds = "silent"
    /\ pc[Ws] = "reply" => link = "open" /\ gds # "silent"
    /\ pc[Ws] \in {"success", "data"} => link = "open" /\ gds = "accepted"
    /\ pc[Ws] = "disconnect" => link = "down"
    /\ pc[Ws] = "send_frame" => ret[Ws] = "loop"
    /\ m_state = "LOGGED_IN" => link = "open" /\ pc[Ws] # "reply"
    /\ pc[Ws] \in {"open_conn", "open_login", "login"} => gds = "silent"
    /\ gds = "accepted" =>
         calls.success = One(pc[Ws] \notin {"reply", "success"})
    /\ calls.failure + calls.disconnect
         = One(link = "down") + One(gds = "declined") - One(Owed)
    /\ link = "open" /\ Pending => gds = "declined"
    /\ calls.disconnect > 0 => link = "down" /\ ~Pending

VerdictInv ==
    /\ OneVerdict
    /\ calls.data > 0 => calls.success = 1
    /\ fault = "none" => LiveInv

\* The steps of a close or a send keep VerdictInv.
LEMMA CallVerdict ==
    ASSUME TypeOK, SessionInv, VerdictInv, NEW t \in Threads, close(t) \/ SendFrame(t)
    PROVE  VerdictInv'
<1> USE ThreadFacts DEF TypeOK, SessionInv, VerdictInv, LiveInv, OneVerdict, One, Pending,
        Owed, Threads, UserPcs, WsPcs, ClosePcs, Callbacks, Outcomes, Frames,
        At, Running, Free, Goto, Call, Cas, Die, session
<1>1. CASE CloseLoad(t)
  BY <1>1 DEF CloseLoad
<1>2. CASE CloseStore(t)
  BY <1>2 DEF CloseStore
<1>3. CASE CloseTest(t)
  BY <1>3 DEF CloseTest
<1>4. CASE CloseFrame(t)
  BY <1>4 DEF CloseFrame
<1>5. CASE CloseReset(t)
  BY <1>5 DEF CloseReset
<1>6. CASE SendFrame(t)
  <2>1. CASE ~mConnection
    BY <1>6, <2>1 DEF SendFrame
  <2>2. CASE mConnection
    <3>1. /\ fault = "none" /\ pc[t] = "send_frame"
          /\ pc' = [pc EXCEPT ![t] = ret[t]]
          /\ UNCHANGED <<m_state, mConnection, latch, ret, session>>
      BY <1>6, <2>2 DEF SendFrame
    <3>2. CASE t = Ws
      <4>1. pc'[Ws] = "loop"
        BY <3>1, <3>2
      <4>2. QED
        BY <3>1, <3>2, <4>1
    <3>3. CASE t # Ws
      <4>1. pc'[Ws] = pc[Ws]
        BY <3>1, <3>3
      <4>2. QED
        BY <3>1, <3>3, <4>1
    <3>4. QED
      BY <3>2, <3>3
  <2>3. QED
    BY <2>1, <2>2
<1> QED
  BY <1>1, <1>2, <1>3, <1>4, <1>5, <1>6, Zenon DEF close

\* The calls of application threads keep VerdictInv.
LEMMA UserVerdict ==
    ASSUME TypeOK, SessionInv, VerdictInv, NEW u \in Users, UserCalls(u) \/ FreeMembers(u)
    PROVE  VerdictInv'
<1> USE ThreadFacts DEF TypeOK, SessionInv, VerdictInv, LiveInv, OneVerdict, One, Pending,
        Owed, Threads, UserPcs, WsPcs, ClosePcs, Callbacks, Outcomes, Frames,
        At, Running, Free, Goto, Call, Cas, Die, session
<1>1. CASE start(u)
  BY <1>1 DEF start
<1>2. CASE send(u)
  BY <1>2 DEF send
<1>3. CASE CallClose(u)
  BY <1>3 DEF CallClose
<1>4. CASE CallDestroy(u)
  BY <1>4 DEF CallDestroy
<1>5. CASE FreeMembers(u)
  BY <1>5 DEF FreeMembers
<1> QED
  BY <1>1, <1>2, <1>3, <1>4, <1>5, Zenon DEF UserCalls

\* What the peer does keeps VerdictInv: whatever ends a session is also owed to the
\* listener.
LEMMA PeerVerdict ==
    ASSUME TypeOK, SessionInv, VerdictInv, Peer
    PROVE  VerdictInv'
<1> USE ThreadFacts DEF TypeOK, SessionInv, VerdictInv, LiveInv, OneVerdict, One, Pending,
        Owed, Threads, UserPcs, WsPcs, ClosePcs, Callbacks, Outcomes, Frames,
        At, Running, Free, Goto, Call, Cas, Die, session
<1>1. CASE m_on_open
  BY <1>1 DEF m_on_open
<1>2. CASE \E a \in {"accepted", "declined"} : ReplyReceived(a)
  <2> PICK a \in {"accepted", "declined"} : ReplyReceived(a)
    BY <1>2
  <2>1. /\ fault = "none" /\ pc[Ws] = "loop" /\ link = "open" /\ gds = "silent"
        /\ gds' = a
        /\ UNCHANGED <<m_state, ret, link, sent, calls>>
    BY DEF ReplyReceived
  <2>2. \/ fault' = "none" /\ pc' = [pc EXCEPT ![Ws] = "reply"]
        \/ fault' = "state_error" /\ pc' = pc
    BY DEF ReplyReceived
  <2>3. calls.success = 0 /\ calls.data = 0
    BY <2>1
  <2>4. CASE fault' = "none" /\ pc' = [pc EXCEPT ![Ws] = "reply"]
    BY <2>1, <2>3, <2>4
  <2>5. CASE fault' = "state_error" /\ pc' = pc
    BY <2>1, <2>3, <2>5
  <2>6. QED
    BY <2>2, <2>4, <2>5
<1>3. CASE DataReceived
  BY <1>3 DEF DataReceived
<1>4. CASE m_on_close
  BY <1>4 DEF m_on_close
<1>5. CASE m_on_error
  BY <1>5 DEF m_on_error
<1> QED
  BY <1>1, <1>2, <1>3, <1>4, <1>5, Zenon DEF Peer

\* The steps of the WebSocket thread keep VerdictInv.
LEMMA WsVerdict ==
    ASSUME TypeOK, SessionInv, VerdictInv, WsOwn
    PROVE  VerdictInv'
<1> USE ThreadFacts DEF TypeOK, SessionInv, VerdictInv, LiveInv, OneVerdict, One, Pending,
        Owed, Threads, UserPcs, WsPcs, ClosePcs, Callbacks, Outcomes, Frames,
        At, Running, Free, Goto, Call, Cas, Die, session
<1>1. CASE RunThread
  BY <1>1 DEF RunThread
<1>2. CASE OpenConnection
  BY <1>2 DEF OpenConnection
<1>3. CASE OpenLoggingIn
  BY <1>3 DEF OpenLoggingIn
<1>4. CASE login
  BY <1>4 DEF login
<1>5. CASE LoginAccepted
  BY <1>5 DEF LoginAccepted
<1>6. CASE LoginDeclined
  BY <1>6 DEF LoginDeclined
<1>7. CASE \E k \in Callbacks : Notify(k)
  BY <1>7 DEF Notify
<1>8. CASE CallbackReturns
  BY <1>8 DEF CallbackReturns
<1>9. CASE CallbackSends
  BY <1>9 DEF CallbackSends
<1>10. CASE CallbackCloses
  BY <1>10 DEF CallbackCloses
<1>11. CASE LoopEnds
  BY <1>11 DEF LoopEnds
<1>12. CASE AwaitReturns
  BY <1>12 DEF AwaitReturns
<1>13. CASE AwaitTimesOut
  BY <1>13 DEF AwaitTimesOut
<1>14. CASE RemoveKeyFiles
  BY <1>14 DEF RemoveKeyFiles
<1>15. CASE UseAfterDestroy
  BY <1>15 DEF UseAfterDestroy
<1> QED
  BY <1>1, <1>2, <1>3, <1>4, <1>5, <1>6, <1>7, <1>8, <1>9, <1>10, <1>11,
     <1>12, <1>13, <1>14, <1>15, Zenon DEF WsOwn

\* A listener that has only been told what link and login account for has been
\* told of success at most once, and of the end as often as OneVerdict says.
THEOREM Verdict == Spec => []VerdictInv
<1>1. Init => VerdictInv
  <2> SUFFICES ASSUME Init PROVE VerdictInv
    OBVIOUS
  <2> QED
    BY InitFacts, ThreadFacts DEF VerdictInv, LiveInv, OneVerdict, One, Pending,
       Owed, Callbacks, Outcomes, ClosePcs
<1>2. ASSUME TypeOK, SessionInv, VerdictInv, [Next]_vars PROVE VerdictInv'
  <2>1. CASE Next
    BY <1>2, <2>1, NextCases, CallVerdict, UserVerdict, PeerVerdict, WsVerdict,
       Zenon
  <2>2. CASE UNCHANGED vars
    BY <1>2, <2>2 DEF VerdictInv, LiveInv, OneVerdict, Pending, Owed, vars
  <2>3. QED
    BY <1>2, <2>1, <2>2
<1>3. QED
  BY <1>1, <1>2, Typing, SessionSafe, PTL DEF Spec

\* However its threads interleave, the client reports success at most once and
\* the end of a session once, of a declined one twice.
THEOREM ReportedOnce == Spec => []OneVerdict
<1>1. VerdictInv => OneVerdict
  BY DEF VerdictInv
<1>2. QED
  BY <1>1, Verdict, PTL

-----------------------------------------------------------------------------
(* The refinement: every step of the client is a step of GdsSession or     *)
(* changes nothing that it speaks of.                                      *)

SessionStep == [Session!Next]_(Session!svars)

\* A step that makes no callback, hands over no message and hears no login reply
\* can at most put an end to send().
LEMMA Quiet ==
    ASSUME SessionInv, VerdictInv, fault = "none",
           UNCHANGED <<gds, calls, sent.MSG>>,
           m_state' = "LOGGED_IN" => m_state = "LOGGED_IN",
           gds = "accepted" =>
              fault' # "state_error" /\ (pc'[Ws] = "reply" <=> pc[Ws] = "reply")
    PROVE  SessionStep
<1>1. m_state = "LOGGED_IN" => gds = "accepted" /\ pc[Ws] # "reply"
  BY DEF SessionInv, VerdictInv, LiveInv
<1>2. CASE m_state = "LOGGED_IN" /\ m_state' # "LOGGED_IN"
  <2>1. LoginDone'
    BY <1>1, <1>2 DEF LoginDone
  <2>2. Session!Drop
    BY <1>2, <2>1 DEF Session!Drop
  <2>3. QED
    BY <2>2 DEF SessionStep, Session!Next
<1>3. CASE m_state = "LOGGED_IN" /\ m_state' = "LOGGED_IN"
  BY <1>3 DEF SessionStep, Session!svars
<1>4. CASE m_state # "LOGGED_IN"
  <2>1. LoginDone' <=> LoginDone
    BY <1>4 DEF LoginDone
  <2>2. QED
    BY <1>4, <2>1 DEF SessionStep, Session!svars
<1>5. QED
  BY <1>2, <1>3, <1>4

\* SendFrame is Send.
LEMMA FrameMaps ==
    ASSUME TypeOK, SessionInv, VerdictInv, NEW t \in Threads, SendFrame(t)
    PROVE  SessionStep
<1>1. CASE fault' # "none"
  BY <1>1, Quiet DEF SendFrame, Die, At, Running, session
<1>2. CASE fault' = "none"
  <2>1. pc[t] = "send_frame" /\ sent' = [sent EXCEPT !.MSG = @ + 1]
        /\ UNCHANGED <<m_state, gds, calls>>
    BY <1>2 DEF SendFrame, Die, At, Running, session
  <2>2. gds = "accepted" /\ sent'.MSG = sent.MSG + 1
    BY <2>1 DEF SessionInv, TypeOK, Frames
  <2>3. LoginDone' <=> LoginDone
    BY <1>2, <2>1, ThreadFacts DEF LoginDone, SendFrame, Die, Goto, At, Running,
       session, TypeOK
  <2>4. QED
    BY <2>1, <2>2, <2>3 DEF SessionStep, Session!Next, Session!Send
<1>3. QED
  BY <1>1, <1>2

\* A close makes no step of GdsSession but Drop.
LEMMA CloseMaps ==
    ASSUME TypeOK, SessionInv, VerdictInv, NEW t \in Threads, close(t)
    PROVE  SessionStep
<1> USE DEF close, CloseLoad, CloseStore, CloseTest, CloseFrame, CloseReset, At,
        Running, Goto, Die, session
<1>1. fault = "none" /\ fault' # "state_error" /\ pc[t] \in ClosePcs
  BY DEF ClosePcs
<1>2. UNCHANGED <<gds, calls, sent.MSG>>
  BY DEF TypeOK, Frames
<1>3. m_state' = "LOGGED_IN" => m_state = "LOGGED_IN"
  OBVIOUS
<1>4. pc' = pc \/ \E l \in ClosePcs \cup {ret[t]} : pc' = [pc EXCEPT ![t] = l]
  BY DEF ClosePcs
<1>5. pc'[Ws] = "reply" <=> pc[Ws] = "reply"
  BY <1>1, <1>4, ThreadFacts DEF TypeOK, ClosePcs
<1>6. QED
  BY <1>1, <1>2, <1>3, <1>5, Quiet

\* Nor do the other calls of an application.
LEMMA UserMaps ==
    ASSUME TypeOK, SessionInv, VerdictInv, NEW u \in Users,
           UserCalls(u) \/ FreeMembers(u)
    PROVE  SessionStep
<1> USE DEF UserCalls, start, send, CallClose, CallDestroy, FreeMembers, Free,
        At, Running, Goto, Call, session
<1>1. fault = "none" /\ fault' = "none" /\ UNCHANGED <<gds, calls, sent.MSG>>
  OBVIOUS
<1>2. m_state' = "LOGGED_IN" => m_state = "LOGGED_IN"
  OBVIOUS
<1>3. gds = "accepted" => pc[Ws] # "unborn"
  BY <1>1 DEF VerdictInv, LiveInv
<1>4. gds = "accepted" => (pc'[Ws] = "reply" <=> pc[Ws] = "reply")
  <2>1. CASE start(u)
    BY <1>1, <1>3, <2>1 DEF VerdictInv, LiveInv
  <2>2. CASE send(u) \/ CallClose(u) \/ CallDestroy(u) \/ FreeMembers(u)
    BY <2>2, ThreadFacts DEF TypeOK
  <2>3. QED
    BY <2>1, <2>2
<1>5. QED
  BY <1>1, <1>2, <1>4, Quiet

\* The login reply is Answer; what else the peer does shows when it is notified.
LEMMA PeerMaps ==
    ASSUME TypeOK, SessionInv, VerdictInv, Peer
    PROVE  SessionStep
<1>1. CASE \E a \in {"accepted", "declined"} : ReplyReceived(a)
  <2> PICK a \in {"accepted", "declined"} : ReplyReceived(a)
    BY <1>1
  <2>1. /\ fault = "none" /\ pc[Ws] = "loop" /\ link = "open" /\ gds = "silent"
        /\ gds' = a
        /\ UNCHANGED <<m_state, sent, calls>>
    BY DEF ReplyReceived, At, Running
  <2>2. calls.failure + calls.disconnect = 0
    BY <2>1 DEF VerdictInv, LiveInv, One, Owed, Pending, ClosePcs, TypeOK,
       Callbacks, Outcomes
  <2>3. m_state # "LOGGED_IN" /\ ~LoginDone
    BY <2>1 DEF SessionInv, VerdictInv, LiveInv, LoginDone
  <2>4. ~LoginDone'
    BY ThreadFacts DEF ReplyReceived, LoginDone, Goto, TypeOK
  <2>5. Session!Answer(a)
    BY <2>1, <2>2, <2>3, <2>4 DEF Session!Answer, Session!Ends
  <2>6. QED
    BY <2>5 DEF SessionStep, Session!Next
<1>2. CASE m_on_open
  <2>1. fault = "none" /\ gds = "silent"
        /\ UNCHANGED <<gds, calls, sent>>
        /\ (m_state' = "LOGGED_IN" => m_state = "LOGGED_IN")
    BY <1>2 DEF m_on_open, At, Running, Cas, VerdictInv, LiveInv
  <2>2. QED
    BY <2>1, Quiet
<1>3. CASE DataReceived \/ m_on_close \/ m_on_error
  <2>1. /\ fault = "none" /\ fault' = "none" /\ pc[Ws] = "loop"
        /\ UNCHANGED <<gds, calls>>
        /\ m_state' = "LOGGED_IN" => m_state = "LOGGED_IN"
    BY <1>3 DEF DataReceived, m_on_close, m_on_error, At, Running, session
  <2>2. sent'.MSG = sent.MSG
    BY <1>3 DEF DataReceived, m_on_close, m_on_error, TypeOK, Frames
  <2>3. pc'[Ws] # "reply"
    BY <1>3, ThreadFacts DEF DataReceived, m_on_close, m_on_error, Goto, Call,
       TypeOK
  <2>4. QED
    BY <2>1, <2>2, <2>3, Quiet
<1>4. QED
  BY <1>1, <1>2, <1>3, Zenon DEF Peer

\* LoginAccepted is LogIn.
LEMMA LoginMaps ==
    ASSUME TypeOK, SessionInv, VerdictInv, LoginAccepted
    PROVE  SessionStep
<1>1. /\ fault = "none" /\ pc[Ws] = "reply" /\ gds = "accepted"
      /\ m_state' = "LOGGED_IN"
      /\ UNCHANGED <<gds, sent, calls>>
  BY DEF LoginAccepted, At, Running, session
<1>2. calls.success = 0 /\ calls.failure + calls.disconnect = 0
  BY <1>1 DEF VerdictInv, LiveInv, One, Owed, Pending, ClosePcs, TypeOK,
     Callbacks, Outcomes
<1>3. m_state # "LOGGED_IN" /\ ~LoginDone
  BY <1>1 DEF VerdictInv, LiveInv, LoginDone
<1>4. Session!LogIn
  BY <1>1, <1>2, <1>3 DEF Session!LogIn, Session!Ends
<1>5. QED
  BY <1>4 DEF SessionStep, Session!Next

\* A callback is Success, Data, Failure or Disconnect.
LEMMA NotifyMaps ==
    ASSUME TypeOK, SessionInv, VerdictInv, NEW k \in Callbacks, Notify(k)
    PROVE  SessionStep
<1>1. /\ fault = "none" /\ pc[Ws] = k
      /\ calls' = [calls EXCEPT ![k] = @ + 1]
      /\ UNCHANGED <<m_state, gds, sent, fault>>
  BY DEF Notify, At, Running
<1>0. /\ LoginDone <=> gds = "accepted"
      /\ LoginDone' <=> gds = "accepted"
  BY <1>1, ThreadFacts DEF LoginDone, Callbacks, Outcomes, Notify, Goto, TypeOK
<1> USE <1>1 DEF VerdictInv, SessionInv, LiveInv, One, Owed, Pending, ClosePcs,
        TypeOK, Callbacks, Outcomes
<1>2. CASE k = "success"
  <2>1. /\ gds = "accepted" /\ calls.success = 0
        /\ calls.failure + calls.disconnect = 0
    BY <1>2
  <2>2. Session!Success
    BY <1>0, <1>2, <2>1 DEF Session!Success, Session!Ends, Session!Hear
  <2>3. QED
    BY <2>2 DEF SessionStep, Session!Next
<1>3. CASE k = "data"
  <2>1. calls.success = 1 /\ calls.failure + calls.disconnect = 0
    BY <1>3
  <2>2. Session!Data
    BY <1>0, <1>3, <2>1 DEF Session!Data, Session!Ends, Session!Hear
  <2>3. QED
    BY <2>2 DEF SessionStep, Session!Next
<1>4. CASE k = "failure"
  <2>1. /\ m_state # "LOGGED_IN"
        /\ gds = "accepted" => calls.success = 1
        /\ calls.failure + calls.disconnect < IF gds = "declined" THEN 2 ELSE 1
    BY <1>4
  <2>2. Session!Failure
    BY <1>0, <1>4, <2>1 DEF Session!Failure, Session!CanEnd, Session!Ends, Session!Hear
  <2>3. QED
    BY <2>2 DEF SessionStep, Session!Next
<1>5. CASE k = "disconnect"
  <2>1. /\ m_state # "LOGGED_IN"
        /\ gds = "accepted" => calls.success = 1
        /\ gds = "declined" => calls.failure = 1
        /\ calls.failure + calls.disconnect < IF gds = "declined" THEN 2 ELSE 1
    BY <1>5
  <2>2. Session!Disconnect
    BY <1>0, <1>5, <2>1 DEF Session!Disconnect, Session!CanEnd, Session!Ends,
       Session!Hear
  <2>3. QED
    BY <2>2 DEF SessionStep, Session!Next
<1>6. QED
  BY <1>2, <1>3, <1>4, <1>5

\* The remaining steps of the WebSocket thread are steps of its own; that the
\* timeout report is never made is what SessionInv says of the await.
LEMMA WsMaps ==
    ASSUME TypeOK, SessionInv, VerdictInv, WsOwn
    PROVE  SessionStep
<1>1. CASE LoginAccepted
  BY <1>1, LoginMaps
<1>2. CASE \E k \in Callbacks : Notify(k)
  BY <1>2, NotifyMaps
<1>3. CASE AwaitTimesOut
  <2>1. m_state = "DISCONNECTED"
    BY <1>3 DEF AwaitTimesOut, At, Running, SessionInv, TypeOK
  <2>2. fault = "none" /\ pc[Ws] = "await"
        /\ UNCHANGED <<m_state, gds, sent, calls, fault>>
    BY <1>3, <2>1 DEF AwaitTimesOut, At, Running
  <2>3. pc'[Ws] # "reply"
    BY <1>3, ThreadFacts DEF AwaitTimesOut, Goto, TypeOK
  <2>4. QED
    BY <2>2, <2>3, Quiet
<1>4. CASE RunThread \/ OpenConnection \/ OpenLoggingIn
  <2>1. fault = "none" /\ gds = "silent" /\ UNCHANGED <<gds, calls, sent>>
        /\ (m_state' = "LOGGED_IN" => m_state = "LOGGED_IN")
    BY <1>4 DEF RunThread, OpenConnection, OpenLoggingIn, At, Running, Cas,
       session, VerdictInv, LiveInv
  <2>2. QED
    BY <2>1, Quiet
<1>5. CASE login
  <2>1. fault = "none" /\ gds = "silent" /\ UNCHANGED <<m_state, gds, calls>>
        /\ sent'.MSG = sent.MSG
    BY <1>5 DEF login, At, Running, Die, session, VerdictInv, LiveInv, TypeOK,
       Frames
  <2>2. QED
    BY <2>1, Quiet
<1>6. CASE LoginDeclined
  <2>1. fault = "none" /\ gds = "declined" /\ UNCHANGED <<gds, calls, sent>>
        /\ m_state' = "FAILED"
    BY <1>6 DEF LoginDeclined, At, Running, session
  <2>2. QED
    BY <2>1, Quiet
<1>7. CASE \/ CallbackReturns \/ CallbackSends \/ CallbackCloses
           \/ LoopEnds \/ AwaitReturns \/ RemoveKeyFiles \/ UseAfterDestroy
  <2> USE <1>7 DEF CallbackReturns, CallbackSends, CallbackCloses, LoopEnds,
          AwaitReturns, RemoveKeyFiles, UseAfterDestroy, At, Running, Die,
          session
  <2>1. fault = "none" /\ fault' # "state_error"
        /\ UNCHANGED <<m_state, gds, calls, sent>>
    OBVIOUS
  <2>2. pc'[Ws] = "reply" <=> pc[Ws] = "reply"
    BY ThreadFacts DEF Goto, Call, TypeOK
  <2>3. QED
    BY <2>1, <2>2, Quiet
<1>8. QED
  BY <1>1, <1>2, <1>3, <1>4, <1>5, <1>6, <1>7, Zenon DEF WsOwn

\* Every step of a client is a step of GdsSession or none.
LEMMA StepMaps ==
    ASSUME TypeOK, SessionInv, VerdictInv, [Next]_vars
    PROVE  SessionStep
<1>1. CASE Next
  <2>1. CASE \E t \in Threads : close(t) \/ SendFrame(t)
    BY <2>1, CloseMaps, FrameMaps
  <2>2. CASE \E u \in Users : UserCalls(u) \/ FreeMembers(u)
    BY <2>2, UserMaps
  <2>3. CASE Peer
    BY <2>3, PeerMaps
  <2>4. CASE WsOwn
    BY <2>4, WsMaps
  <2>5. QED
    BY <1>1, <2>1, <2>2, <2>3, <2>4, NextCases, Zenon
<1>2. CASE UNCHANGED vars
  BY <1>2 DEF vars, LoginDone, SessionStep, Session!svars
<1>3. QED
  BY <1>1, <1>2

\* Seen through login, logged_in, calls and frames, every client is a session
\* of GdsSession.
THEOREM Refinement == Spec => ImplementsSession
<1>1. Init => Session!Init
  BY InitFacts DEF Session!Init, LoginDone, Frames, Callbacks, Outcomes
<1>2. QED
  BY <1>1, StepMaps, Typing, SessionSafe, Verdict, PTL
     DEF Spec, SessionStep, ImplementsSession, Session!Spec

\* Success comes first and everything the listener hears comes before the end:
\* a consequence of the refinement.
THEOREM Order == Spec => SuccessFirst
<1> DEFINE Step == /\ calls'.success > calls.success =>
                        calls.failure + calls.disconnect + calls.data = 0
                   /\ calls'.data > calls.data =>
                        calls.success = 1 /\ calls.failure + calls.disconnect = 0
<1>1. ASSUME TypeOK, VerdictInv, SessionStep PROVE Step
  <2> USE <1>1 DEF TypeOK, VerdictInv, OneVerdict, Callbacks, Outcomes
  <2>1. CASE UNCHANGED calls
    BY <2>1
  <2>2. CASE Session!Success \/ Session!Failure \/ Session!Disconnect
    BY <2>2 DEF Session!Success, Session!Failure, Session!Disconnect,
       Session!Ends, Session!Hear
  <2>3. CASE Session!Data
    BY <2>3 DEF Session!Data, Session!Ends, Session!Hear
  <2>4. QED
    BY <2>1, <2>2, <2>3 DEF SessionStep, Session!Next, Session!Answer,
       Session!LogIn, Session!Drop, Session!Send, Session!svars
<1>2. ASSUME TypeOK, SessionInv, VerdictInv, [Next]_vars PROVE [Step]_vars
  BY <1>1, <1>2, StepMaps
<1>3. QED
  BY <1>2, Typing, SessionSafe, Verdict, PTL DEF Spec, SuccessFirst
=============================================================================
