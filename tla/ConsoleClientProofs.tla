------------------------- MODULE ConsoleClientProofs -------------------------
(* Safety of the console client for any number of pages, any set of        *)
(* commands, and whatever the user's patience, the link and the GDS do.    *)
EXTENDS ConsoleClient, SequenceTheorems, TLAPS

USE DEF Post, Awaited, Continues, NextContext, NamedInAck, CanSend

QueryCommands == {"query", "queryall"}

\* Until the command is sent the GDS has nothing to answer; then the requests
\* are the command and, one per page, the requests for the pages that follow,
\* or the one ACK of an attachment.
AskedInv ==
    /\ main \in {"new", "run", "start", "connecting", "ready"} => asked = <<>>
    /\ asked # <<>> => asked[1] = FirstFrame
    /\ \A i \in 2..Len(asked) :
         \/ /\ command = "queryall" /\ i - 1 < LastPage
            /\ asked[i] = Frame("GET_NEXT_QUERY", i - 1)
         \/ /\ command = "attachment" /\ i = 2
            /\ asked[i] = Frame("ATTACHMENT_REPLY", 0)

\* At most one request is open, and none while a reply is being handled: the
\* page in the handler is the one asked for last.
HandlingInv ==
    /\ Len(asked) \in {answered, answered + 1}
    /\ InHandler => Len(asked) = answered /\ answered > 0
    /\ handling.type = "QUERY_REPLY" =>
         /\ command \in QueryCommands
         /\ handling.arg \in {0, answered}
    /\ handling.type = "EVENT_REPLY" => command = "event"
    /\ handling.type = "ATTACHMENT_REQUEST_REPLY" =>
         /\ command = "attachment" /\ answered = 1
         /\ handling.arg \in {"saved", "refused", "pending"}
    /\ promised => command = "attachment" /\ answered = 1 /\ Len(asked) = 1
    /\ handling.type = "ATTACHMENT" =>
         command = "attachment" /\ answered = 1 /\ ~promised

\* The pages received are those asked for, up to the one in the handler; and a
\* permit of workDone means that the work is done.
WorkInv ==
    /\ command \in QueryCommands =>
         \A p \in 1..answered :
            \/ p \in pages \/ "refused" \in result
            \/ handling.type = "QUERY_REPLY" /\ p = answered
    /\ workDone > 0 \/ outcome = "done" => Complete \/ "failure" \in result

ConsoleInv == AskedInv /\ HandlingInv /\ WorkInv

\* No page beyond LastPage is ever asked for.
LEMMA PagesExist ==
    ASSUME TypeOK, AskedInv, command \in QueryCommands
    PROVE  Len(asked) <= LastPage
<1>1. Len(asked) \in Nat
  BY DEF TypeOK
<1>2. CASE Len(asked) < 2
  BY <1>1, <1>2, PageAssumption
<1>3. CASE Len(asked) >= 2
  <2>1. Len(asked) \in 2..Len(asked)
    BY <1>1, <1>3
  <2>2. Len(asked) - 1 < LastPage
    BY <2>1 DEF AskedInv, QueryCommands
  <2>3. QED
    BY <1>1, <2>2, PageAssumption
<1>4. QED
  BY <1>1, <1>2, <1>3

\* What the client sends is a request.
LEMMA Sent ==
    ASSUME command \in Commands
    PROVE  FirstFrame \in Requests /\ Frame("ATTACHMENT_REPLY", 0) \in Requests
  BY CommandsAssumption, PageAssumption DEF FirstFrame, Frame, Requests

\* The initial state has the right types.
LEMMA InitType == ASSUME Init PROVE TypeOK
<1>1. /\ login_success \in BOOLEAN /\ mGDSInterface \in BOOLEAN
      /\ promised \in BOOLEAN
  BY Zenon DEF Init, Session!Init
<1>2. /\ command \in Commands /\ main = "new"
      /\ connectionReady = 0 /\ workDone = 0 /\ contextDescriptor = 0
      /\ login = "silent" /\ logged_in = "not_yet"
      /\ calls = [k \in {"success", "failure", "disconnect", "data"} |-> 0]
      /\ asked = <<>> /\ answered = 0
      /\ handling.type = "NONE"
      /\ pages = {} /\ result = {} /\ outcome = "none" /\ fault = "none"
  BY DEF Init, Session!Init, Nothing, Frame
<1>3. <<>> \in Seq(Requests) /\ Len(<<>>) = 0
  OBVIOUS
<1>4. QED
  BY <1>1, <1>2, <1>3, PageAssumption DEF TypeOK

\* The main thread keeps the types.
LEMMA MainType == ASSUME TypeOK, AskedInv, Main PROVE TypeOK'
<1> USE PageAssumption, CommandsAssumption DEF TypeOK, At, Goto, EndRun, args, told, session, gds, unheard, Idle,
        Serving, InHandler, Dies, Got, Handles, Send, Frame, Nothing,
        Session!Drop, Session!Send, Session!LogIn, Session!Success,
        Session!Failure, Session!Disconnect, Session!Data, Session!Answer,
        Session!Hear
<1>1. CASE Construct
  BY <1>1 DEF Construct
<1>2. CASE build
  <2>1. mGDSInterface' \in BOOLEAN
    BY <1>2, Zenon DEF build
  <2>2. QED
    BY <1>2, <2>1 DEF build
<1>3. CASE setupConnection
  BY <1>3 DEF setupConnection
<1>4. CASE ConnectionReady
  BY <1>4 DEF ConnectionReady
<1>5. CASE ConnectionTimesOut
  BY <1>5 DEF ConnectionTimesOut
<1>6. CASE NotLoggedIn
  BY <1>6 DEF NotLoggedIn
<1>7. CASE SendCommand
  <2>1. CASE ~CanSend
    BY <1>7, <2>1 DEF SendCommand
  <2>2. CASE CanSend
    <3>1. asked' = Append(asked, FirstFrame) /\ FirstFrame \in Requests
      BY <1>7, <2>2, Sent DEF SendCommand
    <3>2. asked' \in Seq(Requests) /\ Len(asked') = Len(asked) + 1
      BY <3>1
    <3>3. QED
      BY <1>7, <2>2, <3>2 DEF SendCommand
  <2>3. QED
    BY <2>1, <2>2
<1>8. CASE FileMissing
  BY <1>8 DEF FileMissing
<1>9. CASE WorkDone
  BY <1>9 DEF WorkDone
<1>10. CASE WorkTimesOut
  BY <1>10 DEF WorkTimesOut
<1>11. CASE close
  <2>1. UNCHANGED <<told, mGDSInterface, gds, fault, command, outcome>>
    BY <1>11, Zenon DEF close, Goto
  <2>2. UNCHANGED <<login, calls, asked>> /\ logged_in' \in {logged_in, "no_more"}
        /\ main' \in {"reset", "exit"}
    BY <1>11 DEF close
  <2>3. QED
    BY <2>1, <2>2
<1>12. CASE reset
  <2>1. mGDSInterface' \in BOOLEAN
    BY <1>12, Zenon DEF reset
  <2>2. main' = "exit" /\ UNCHANGED <<command, outcome, told, session, gds, fault>>
    BY <1>12, Zenon DEF reset, Goto
  <2>3. QED
    BY <2>1, <2>2
<1>13. CASE Exit
  BY <1>13 DEF Exit
<1> QED
  BY <1>1, <1>2, <1>3, <1>4, <1>5, <1>6, <1>7, <1>8, <1>9, <1>10, <1>11,
     <1>12, <1>13, Zenon DEF Main

\* The callbacks that open and end the session keep the types.
LEMMA WebSocketType == ASSUME TypeOK, WebSocket PROVE TypeOK'
<1> USE DEF TypeOK, At, Goto, EndRun, args, told, session, gds, unheard, Idle,
        Serving, InHandler, Dies, Got, Handles, Send, Frame, Nothing,
        Session!Drop, Session!Send, Session!LogIn, Session!Success,
        Session!Failure, Session!Disconnect, Session!Data, Session!Answer,
        Session!Hear
<1>1. CASE LogIn
  BY <1>1 DEF LogIn
<1>2. CASE on_connection_success
  BY <1>2 DEF on_connection_success
<1>3. CASE on_connection_failure
  BY <1>3 DEF on_connection_failure
<1>4. CASE on_disconnect
  BY <1>4 DEF on_disconnect
<1>5. CASE LinkDown
  BY <1>5 DEF LinkDown
<1>6. CASE EarlyClose
  BY <1>6 DEF EarlyClose
<1>7. CASE UseAfterReset
  BY <1>7 DEF UseAfterReset
<1>8. CASE NotOverridden
  BY <1>8 DEF NotOverridden
<1> QED
  BY <1>1, <1>2, <1>3, <1>4, <1>5, <1>6, <1>7, <1>8, Zenon DEF WebSocket

\* The handlers of messages keep the types.
LEMMA HandlersType ==
    ASSUME TypeOK, AskedInv, HandlingInv, Handlers
    PROVE  TypeOK'
<1> USE PageAssumption DEF TypeOK, At, Goto, EndRun, args, told, session, gds, unheard, Idle,
        Serving, InHandler, Dies, Got, Handles, Send, Frame, Nothing,
        Session!Drop, Session!Send, Session!LogIn, Session!Success,
        Session!Failure, Session!Disconnect, Session!Data, Session!Answer,
        Session!Hear
<1>1. CASE on_event_ack3
  BY <1>1 DEF on_event_ack3
<1>2. CASE on_attachment_request_ack5
  <2>1. handling.arg \in {"saved", "refused", "pending"}
    BY <1>2 DEF on_attachment_request_ack5, HandlingInv
  <2>2. result' = result \cup {handling.arg} /\ workDone' \in 0..1
    BY <1>2 DEF on_attachment_request_ack5
  <2>3. handling' = Nothing /\ UNCHANGED <<unheard, contextDescriptor, pages, asked, fault>>
    BY <1>2 DEF on_attachment_request_ack5
  <2>4. result' \subseteq {"failure", "ack", "saved", "refused", "pending"}
    BY <2>1, <2>2
  <2>5. QED
    BY <2>2, <2>3, <2>4
<1>3. CASE on_attachment_response6
  <2>1. CASE CanSend
    <3>1. asked' = Append(asked, Frame("ATTACHMENT_REPLY", 0))
      BY <1>3, <2>1 DEF on_attachment_response6
    <3>2. asked' \in Seq(Requests) /\ Len(asked') = Len(asked) + 1
      BY <3>1, Sent
    <3>3. QED
      BY <1>3, <2>1, <3>2 DEF on_attachment_response6
  <2>2. CASE ~CanSend
    BY <1>3, <2>2 DEF on_attachment_response6
  <2>3. QED
    BY <2>1, <2>2
<1>4. CASE on_query_request_ack11
  <2> DEFINE page == handling.arg
  <2>1. page \in {0, answered} /\ Len(asked) = answered /\ answered \in 1..LastPage
    BY <1>4, PagesExist DEF on_query_request_ack11, HandlingInv
  <2>2. /\ handling' = Nothing /\ UNCHANGED unheard
        /\ pages' \subseteq pages \cup 1..LastPage
        /\ contextDescriptor' \in 0..LastPage
        /\ result' \subseteq result \cup {"refused"}
        /\ workDone' \in 0..1
    BY <1>4, <2>1 DEF on_query_request_ack11
  <2>3. /\ asked' \in {asked, Append(asked, Frame("GET_NEXT_QUERY", page))}
        /\ fault' \in {fault, "send_error"}
    BY <1>4 DEF on_query_request_ack11
  <2>4. Frame("GET_NEXT_QUERY", page) \in Requests
    BY <2>1 DEF Requests
  <2>5. asked' \in Seq(Requests) /\ Len(asked') \in {Len(asked), Len(asked) + 1}
    <3>1. CASE asked' = asked
      BY <3>1
    <3>2. CASE asked' = Append(asked, Frame("GET_NEXT_QUERY", page))
      BY <3>2, <2>4
    <3>3. QED
      BY <2>3, <3>1, <3>2
  <2>6. QED
    BY <2>2, <2>3, <2>5
<1> QED
  BY <1>1, <1>2, <1>3, <1>4, Zenon DEF Handlers

\* The GDS keeps the types.
LEMMA GdsType == ASSUME TypeOK, Gds PROVE TypeOK'
<1> USE DEF Arrives, AnswerTo, Announces, TypeOK, At, Goto, EndRun, args, told, session, gds, unheard, Idle,
        Serving, InHandler, Dies, Got, Handles, Send, Frame, Nothing,
        Session!Drop, Session!Send, Session!LogIn, Session!Success,
        Session!Failure, Session!Disconnect, Session!Data, Session!Answer,
        Session!Hear
<1>1. CASE GdsLogin
  BY <1>1 DEF GdsLogin
<1>2. CASE GdsAnswers
  BY <1>2 DEF GdsAnswers
<1>3. CASE GdsDelivers
  <2>1. promised' \in BOOLEAN
    BY <1>3, Zenon DEF GdsDelivers
  <2>2. QED
    BY <1>3, <2>1 DEF GdsDelivers
<1> QED
  BY <1>1, <1>2, <1>3, Zenon DEF Gds

-----------------------------------------------------------------------------
\* A step that sends nothing, hears no message and posts workDone only to report
\* a failure keeps the invariant.
LEMMA Still ==
    ASSUME TypeOK, ConsoleInv,
           UNCHANGED <<command, asked, answered, promised, handling, pages>>,
           result \subseteq result',
           main' \in {"new", "run", "start", "connecting", "ready"} =>
              main \in {"new", "run", "start", "connecting", "ready"},
           workDone' > 0 \/ outcome' = "done" =>
              workDone > 0 \/ outcome = "done" \/ "failure" \in result'
    PROVE  ConsoleInv'
<1>1. AskedInv'
  BY DEF ConsoleInv, AskedInv, FirstFrame, Frame
<1>2. HandlingInv'
  BY DEF ConsoleInv, HandlingInv, InHandler
<1>3. WorkInv'
  BY DEF ConsoleInv, WorkInv, Complete
<1>4. QED
  BY <1>1, <1>2, <1>3 DEF ConsoleInv

\* The only request of the main thread is the command, and it is the first.
LEMMA CommandFirst ==
    ASSUME TypeOK, ConsoleInv, SendCommand
    PROVE  ConsoleInv'
<1>1. asked = <<>> /\ Len(asked) = 0 /\ answered = 0 /\ ~InHandler /\ ~promised
  BY DEF SendCommand, At, ConsoleInv, AskedInv, HandlingInv, TypeOK
<1>2. /\ UNCHANGED <<command, answered, promised, handling, pages, result>>
      /\ main' \in {"working", "close"} /\ outcome' \in {outcome, "not_sent"}
      /\ UNCHANGED workDone
  BY DEF SendCommand, gds, told, Goto, EndRun
<1>3. CASE asked' = asked
  BY <1>2, <1>3, Still
<1>4. CASE asked' = Append(asked, FirstFrame)
  <2>1. Len(asked') = 1 /\ asked'[1] = FirstFrame
    BY <1>1, <1>4, Sent DEF TypeOK
  <2>2. FirstFrame' = FirstFrame
    BY <1>2 DEF FirstFrame, Frame
  <2>3. AskedInv'
    BY <1>2, <2>1, <2>2 DEF AskedInv
  <2>4. HandlingInv'
    BY <1>1, <1>2, <2>1 DEF HandlingInv, InHandler, TypeOK
  <2>5. WorkInv'
    BY <1>1, <1>2 DEF ConsoleInv, WorkInv, Complete
  <2>6. QED
    BY <2>3, <2>4, <2>5 DEF ConsoleInv
<1>5. QED
  BY <1>3, <1>4 DEF SendCommand, session

\* The main thread keeps the invariant.
LEMMA MainInv == ASSUME TypeOK, ConsoleInv, Main PROVE ConsoleInv'
<1> USE DEF At, Goto, EndRun, args, told, session, gds, unheard, Idle, Serving,
        Dies, Got, Session!Drop, Session!Send, Session!LogIn, Session!Success,
        Session!Failure, Session!Disconnect, Session!Data, Session!Answer,
        Session!Hear
<1>1. CASE Construct
  BY <1>1, Still DEF Construct
<1>2. CASE build
  BY <1>2, Still DEF build
<1>3. CASE setupConnection
  BY <1>3, Still DEF setupConnection
<1>4. CASE ConnectionReady
  BY <1>4, Still DEF ConnectionReady
<1>5. CASE ConnectionTimesOut
  BY <1>5, Still DEF ConnectionTimesOut
<1>6. CASE NotLoggedIn
  BY <1>6, Still DEF NotLoggedIn
<1>7. CASE SendCommand
  BY <1>7, CommandFirst
<1>8. CASE FileMissing
  BY <1>8, Still DEF FileMissing
<1>9. CASE WorkDone
  BY <1>9, Still DEF WorkDone
<1>10. CASE WorkTimesOut
  BY <1>10, Still DEF WorkTimesOut
<1>11. CASE close
  BY <1>11, Still DEF close
<1>12. CASE reset
  BY <1>12, Still DEF reset
<1>13. CASE Exit
  BY <1>13, Still DEF Exit
<1> QED
  BY <1>1, <1>2, <1>3, <1>4, <1>5, <1>6, <1>7, <1>8, <1>9, <1>10, <1>11,
     <1>12, <1>13, Zenon DEF Main

\* The callbacks that open and end the session keep the invariant.
LEMMA WebSocketInv == ASSUME TypeOK, ConsoleInv, WebSocket PROVE ConsoleInv'
<1> USE DEF At, Goto, EndRun, args, told, session, gds, unheard, Idle, Serving,
        Dies, Got, Session!Drop, Session!Send, Session!LogIn, Session!Success,
        Session!Failure, Session!Disconnect, Session!Data, Session!Answer,
        Session!Hear
<1>1. CASE LogIn
  BY <1>1, Still DEF LogIn
<1>2. CASE on_connection_success
  BY <1>2, Still DEF on_connection_success
<1>3. CASE on_connection_failure
  BY <1>3, Still DEF on_connection_failure
<1>4. CASE on_disconnect
  BY <1>4, Still DEF on_disconnect
<1>5. CASE LinkDown
  BY <1>5, Still DEF LinkDown
<1>6. CASE EarlyClose
  BY <1>6, Still DEF EarlyClose
<1>7. CASE UseAfterReset
  BY <1>7, Still DEF UseAfterReset
<1>8. CASE NotOverridden
  BY <1>8, Still DEF NotOverridden
<1> QED
  BY <1>1, <1>2, <1>3, <1>4, <1>5, <1>6, <1>7, <1>8, Zenon DEF WebSocket

\* A request after the first is for the page that follows, or the ACK.
LEMMA Later ==
    ASSUME AskedInv, NEW i \in 2..Len(asked)
    PROVE  \/ /\ command = "queryall" /\ i - 1 < LastPage
              /\ asked[i].type = "GET_NEXT_QUERY" /\ asked[i].arg = i - 1
           \/ /\ command = "attachment" /\ i = 2
              /\ asked[i].type = "ATTACHMENT_REPLY"
<1>1. \/ /\ command = "queryall" /\ i - 1 < LastPage
         /\ asked[i] = Frame("GET_NEXT_QUERY", i - 1)
      \/ /\ command = "attachment" /\ i = 2
         /\ asked[i] = Frame("ATTACHMENT_REPLY", 0)
  BY DEF AskedInv
<1>2. QED
  BY <1>1 DEF Frame

\* A handler that sends nothing leaves the requests as they are; what it was
\* given is accounted for if its page is kept, or the query refused.
LEMMA Silent ==
    ASSUME TypeOK, ConsoleInv, InHandler,
           handling' = Nothing,
           UNCHANGED <<args, asked, answered, promised>>,
           pages \subseteq pages', result \subseteq result',
           handling.type = "QUERY_REPLY" =>
              answered \in pages' \/ "refused" \in result',
           workDone' > workDone => Complete'
    PROVE  ConsoleInv'
<1>1. AskedInv'
  BY DEF ConsoleInv, AskedInv, FirstFrame, Frame, args
<1>2. HandlingInv'
  BY DEF ConsoleInv, HandlingInv, InHandler, Nothing, Frame, args
<1>3. Complete => Complete'
  BY DEF Complete, args
<1>4. WorkInv'
  BY <1>3 DEF ConsoleInv, WorkInv, args, TypeOK
<1>5. QED
  BY <1>1, <1>2, <1>4 DEF ConsoleInv

\* The reply to an event completes it.
LEMMA EventInv == ASSUME TypeOK, ConsoleInv, on_event_ack3 PROVE ConsoleInv'
<1> USE DEF on_event_ack3, Handles, unheard
<1>1. command = "event" /\ command' = command
  BY DEF ConsoleInv, HandlingInv, args
<1>2. Complete'
  BY <1>1 DEF Complete, Got
<1>3. QED
  BY <1>2, Silent DEF InHandler, Got

\* An attachment that is announced is not yet complete, one that came or was
\* refused is.
LEMMA AttachmentReplyInv ==
    ASSUME TypeOK, ConsoleInv, on_attachment_request_ack5
    PROVE  ConsoleInv'
<1> USE DEF on_attachment_request_ack5, Handles, unheard
<1>1. /\ command = "attachment" /\ command' = command
      /\ handling.arg \in {"saved", "refused", "pending"}
  BY DEF ConsoleInv, HandlingInv, args
<1>2. workDone' > workDone => Complete'
  <2>1. CASE handling.arg = "pending"
    BY <2>1 DEF TypeOK
  <2>2. CASE handling.arg \in {"saved", "refused"}
    BY <1>1, <2>2 DEF Complete, Got
  <2>3. QED
    BY <1>1, <2>1, <2>2
<1>3. QED
  BY <1>2, Silent DEF InHandler, Got

\* An attachment that was pushed is acknowledged by one more request.
LEMMA AttachmentInv ==
    ASSUME TypeOK, ConsoleInv, on_attachment_response6
    PROVE  ConsoleInv'
<1>1. /\ handling.type = "ATTACHMENT" /\ handling' = Nothing
      /\ UNCHANGED <<command, main, outcome, answered, promised, pages>>
      /\ result' = result \cup {"saved"}
  BY DEF on_attachment_response6, Handles, unheard, args, Got
<1>2. command = "attachment" /\ answered = 1 /\ ~promised /\ Len(asked) = 1
  BY <1>1 DEF ConsoleInv, HandlingInv, InHandler
<1>3. Complete'
  BY <1>1, <1>2 DEF Complete
<1>4. CASE asked' = asked
  BY <1>1, <1>3, <1>4, Silent DEF InHandler, args
<1>5. CASE asked' = Append(asked, Frame("ATTACHMENT_REPLY", 0))
  <2>1. /\ Len(asked') = 2 /\ asked'[1] = asked[1]
        /\ asked'[2] = Frame("ATTACHMENT_REPLY", 0)
    <3>1. asked \in Seq(Requests) /\ Frame("ATTACHMENT_REPLY", 0) \in Requests
      BY Sent DEF TypeOK
    <3>2. /\ Len(asked') = Len(asked) + 1
          /\ \A i \in 1..Len(asked) : asked'[i] = asked[i]
          /\ asked'[Len(asked) + 1] = Frame("ATTACHMENT_REPLY", 0)
      BY <1>5, <3>1, AppendProperties
    <3>3. QED
      BY <1>2, <3>2
  <2>2. FirstFrame' = FirstFrame /\ asked # <<>>
    BY <1>1, <1>2 DEF FirstFrame, Frame
  <2>3. AskedInv'
    BY <1>1, <1>2, <2>1, <2>2 DEF ConsoleInv, AskedInv, Frame
  <2>4. HandlingInv'
    BY <1>1, <1>2, <2>1 DEF HandlingInv, InHandler, Nothing, Frame
  <2>5. WorkInv'
    BY <1>1, <1>2, <1>3 DEF WorkInv, QueryCommands
  <2>6. QED
    BY <2>3, <2>4, <2>5 DEF ConsoleInv
<1>6. QED
  BY <1>4, <1>5 DEF on_attachment_response6, Send

\* A page is kept and, if -queryall was given, followed by the request for the
\* next; the last one, or a refusal, completes the query.
LEMMA QueryInv ==
    ASSUME TypeOK, ConsoleInv, on_query_request_ack11
    PROVE  ConsoleInv'
<1> DEFINE page == handling.arg
<1>1. /\ handling.type = "QUERY_REPLY" /\ handling' = Nothing
      /\ UNCHANGED <<command, main, outcome, answered, promised>>
  BY DEF on_query_request_ack11, Handles, unheard, args
<1>2. /\ command \in QueryCommands /\ page \in {0, answered}
      /\ Len(asked) = answered /\ answered > 0 /\ answered <= LastPage
  BY <1>1, PagesExist DEF ConsoleInv, HandlingInv, InHandler
<1>3. \/ page = answered /\ pages' = pages \cup {page} /\ result' = result
      \/ page = 0 /\ pages' = pages /\ result' = result \cup {"refused"}
  BY <1>2 DEF on_query_request_ack11, Got, TypeOK
<1>4. \A p \in 1..answered : p \in pages' \/ "refused" \in result'
  BY <1>1, <1>2, <1>3 DEF ConsoleInv, WorkInv
<1>5. CASE ~(command = "queryall" /\ page > 0 /\ page < LastPage)
  <2>1. asked' = asked
    BY <1>5 DEF on_query_request_ack11
  <2>2. CASE command = "query"
    <3>1. answered = 1
      BY <1>2, <2>2 DEF ConsoleInv, AskedInv, TypeOK
    <3>2. Complete'
      BY <1>1, <1>4, <2>2, <3>1 DEF Complete
    <3>3. QED
      BY <1>1, <1>2, <1>3, <1>4, <2>1, <3>2, Silent DEF InHandler, args, TypeOK
  <2>3. CASE command = "queryall"
    <3>1. answered = LastPage \/ "refused" \in result'
      BY <1>2, <1>3, <1>5, <2>3, PageAssumption DEF TypeOK
    <3>2. Complete'
      BY <1>1, <1>4, <2>3, <3>1 DEF Complete
    <3>3. QED
      BY <1>1, <1>2, <1>3, <1>4, <2>1, <3>2, Silent DEF InHandler, args, TypeOK
  <2>4. QED
    BY <1>2, <2>2, <2>3 DEF QueryCommands
<1>6. CASE command = "queryall" /\ page > 0 /\ page < LastPage
  <2>1. UNCHANGED workDone
    BY <1>6 DEF on_query_request_ack11
  <2>2. CASE asked' = asked
    BY <1>1, <1>2, <1>3, <1>4, <2>1, <2>2, Silent DEF InHandler, args, TypeOK
  <2>3. CASE asked' = Append(asked, Frame("GET_NEXT_QUERY", page))
    <3>1. page = answered /\ Frame("GET_NEXT_QUERY", page) \in Requests
      BY <1>2, <1>6, PageAssumption DEF Frame, Requests, TypeOK
    <3>2. /\ Len(asked') = answered + 1 /\ asked # <<>>
          /\ asked'[answered + 1] = Frame("GET_NEXT_QUERY", answered)
          /\ \A i \in 1..answered : asked'[i] = asked[i]
      BY <1>2, <2>3, <3>1 DEF TypeOK
    <3>3. FirstFrame' = FirstFrame
      BY <1>1 DEF FirstFrame, Frame
    <3>4. AskedInv'
      <4>1. asked' # <<>> => asked'[1] = FirstFrame'
        BY <1>2, <3>2, <3>3 DEF ConsoleInv, AskedInv, TypeOK
      <4>2. ASSUME NEW i \in 2..(answered + 1)
            PROVE  /\ i - 1 < LastPage
                   /\ asked'[i] = Frame("GET_NEXT_QUERY", i - 1)
        <5>1. CASE i = answered + 1
          BY <1>6, <3>1, <3>2, <5>1 DEF TypeOK
        <5>2. CASE i # answered + 1
          <6>1. i \in 2..Len(asked) /\ i \in 1..answered
            BY <1>2, <4>2, <5>2 DEF TypeOK
          <6>2. QED
            BY <1>6, <3>2, <6>1 DEF ConsoleInv, AskedInv
        <5>3. QED
          BY <5>1, <5>2
      <4>3. QED
        BY <1>1, <1>6, <3>2, <4>1, <4>2 DEF ConsoleInv, AskedInv, Frame
    <3>5. HandlingInv'
      BY <1>1, <1>2, <1>6, <3>2
         DEF ConsoleInv, HandlingInv, InHandler, Nothing, Frame, TypeOK
    <3>6. Complete => Complete'
      BY <1>1, <1>3 DEF Complete
    <3>7. WorkInv'
      BY <1>1, <1>3, <1>4, <2>1, <3>6 DEF ConsoleInv, WorkInv
    <3>8. QED
      BY <3>4, <3>5, <3>7 DEF ConsoleInv
  <2>4. QED
    BY <1>6, <2>2, <2>3 DEF on_query_request_ack11, Send
<1>7. QED
  BY <1>5, <1>6

\* The GDS answers requests in order, one at a time.
LEMMA GdsInv == ASSUME TypeOK, ConsoleInv, Gds PROVE ConsoleInv'
<1>1. CASE GdsLogin
  BY <1>1, Still DEF GdsLogin, args, told, gds
<1>2. CASE GdsAnswers
  <2>1. PICK frame \in AnswerTo(asked[answered + 1]) :
           Arrives(frame) /\ promised' = Announces(frame)
    BY <1>2 DEF GdsAnswers
  <2>2. /\ ~InHandler /\ handling' = frame /\ answered' = answered + 1
        /\ answered < Len(asked)
        /\ UNCHANGED <<command, main, outcome, workDone, pages, result, asked>>
    BY <1>2, <2>1 DEF GdsAnswers, Arrives, Idle, args, told
  <2>3. Len(asked) = answered + 1 /\ asked # <<>> /\ answered \in Nat
    BY <2>2 DEF ConsoleInv, HandlingInv, TypeOK
  <2>4. \/ /\ command \in QueryCommands /\ frame.type = "QUERY_REPLY"
           /\ frame.arg \in {0, answered + 1}
        \/ command = "event" /\ frame.type = "EVENT_REPLY"
        \/ /\ command = "attachment" /\ answered = 0
           /\ frame.type = "ATTACHMENT_REQUEST_REPLY"
           /\ frame.arg \in {"saved", "refused", "pending"}
    <3>1. CASE answered = 0
      <4>1. asked[answered + 1] = FirstFrame
        BY <2>3, <3>1 DEF ConsoleInv, AskedInv
      <4>2. QED
        BY <2>1, <3>1, <4>1, CommandsAssumption
           DEF AnswerTo, FirstFrame, Frame, QueryCommands, TypeOK
    <3>2. CASE answered > 0
      <4>1. answered + 1 \in 2..Len(asked)
        BY <2>3, <3>2
      <4>2. QED
        BY <1>2, <2>1, <2>3, <4>1, Later
           DEF ConsoleInv, AnswerTo, Frame, QueryCommands
    <3>3. QED
      BY <2>3, <3>1, <3>2
  <2>5. AskedInv'
    BY <2>2 DEF ConsoleInv, AskedInv, FirstFrame, Frame
  <2>6. HandlingInv'
    <3>1. ~promised
      BY <2>3, <2>2 DEF ConsoleInv, HandlingInv, TypeOK
    <3>2. promised' => frame.type = "ATTACHMENT_REQUEST_REPLY"
      BY <2>1 DEF Announces
    <3>3. Len(asked') = answered' /\ answered' > 0 /\ handling' = frame
      BY <2>2, <2>3
    <3>4. QED
      BY <2>2, <2>3, <2>4, <3>2, <3>3 DEF HandlingInv, InHandler, QueryCommands
  <2>7. WorkInv'
    BY <2>2, <2>3, <2>4 DEF ConsoleInv, WorkInv, InHandler, Complete, QueryCommands
  <2>8. QED
    BY <2>5, <2>6, <2>7 DEF ConsoleInv
<1>3. CASE GdsDelivers
  <2>1. /\ promised /\ ~InHandler /\ handling' = Frame("ATTACHMENT", 1) /\ ~promised'
        /\ UNCHANGED <<command, main, outcome, workDone, pages, result, asked,
                       answered>>
    BY <1>3 DEF GdsDelivers, Arrives, Idle, args, told
  <2>2. command = "attachment" /\ answered = 1 /\ Len(asked) = 1
    BY <2>1 DEF ConsoleInv, HandlingInv
  <2>3. AskedInv'
    BY <2>1 DEF ConsoleInv, AskedInv, FirstFrame, Frame
  <2>4. HandlingInv'
    BY <2>1, <2>2 DEF HandlingInv, InHandler, Frame
  <2>5. WorkInv'
    BY <2>1, <2>2 DEF ConsoleInv, WorkInv, Complete, QueryCommands
  <2>6. QED
    BY <2>3, <2>4, <2>5 DEF ConsoleInv
<1>4. QED
  BY <1>1, <1>2, <1>3 DEF Gds

-----------------------------------------------------------------------------
\* The variables keep their types, the requests their order, and a permit of
\* workDone is worth a finished job, in every behaviour of the console client.
THEOREM Console == Spec => [](TypeOK /\ ConsoleInv)
<1>1. Init => TypeOK /\ ConsoleInv
  <2> SUFFICES ASSUME Init PROVE TypeOK /\ ConsoleInv
    OBVIOUS
  <2>1. /\ asked = <<>> /\ answered = 0 /\ ~promised /\ handling = Nothing
        /\ workDone = 0 /\ outcome = "none"
    BY Zenon DEF Init
  <2>2. QED
    BY <2>1, InitType DEF ConsoleInv, AskedInv, HandlingInv, WorkInv, InHandler,
       Nothing, Frame
<1>2. ASSUME TypeOK, ConsoleInv, [Next]_vars PROVE TypeOK' /\ ConsoleInv'
  <2>1. CASE Main
    BY <1>2, <2>1, MainType, MainInv DEF ConsoleInv
  <2>2. CASE WebSocket
    BY <1>2, <2>2, WebSocketType, WebSocketInv
  <2>3. CASE Handlers
    BY <1>2, <2>3, HandlersType, EventInv, AttachmentReplyInv, AttachmentInv,
       QueryInv DEF ConsoleInv, Handlers
  <2>4. CASE Gds
    BY <1>2, <2>4, GdsType, GdsInv
  <2>5. CASE UNCHANGED vars
    <3>1. TypeOK'
      BY <1>2, <2>5 DEF TypeOK, vars, args, told, session, gds
    <3>2. ConsoleInv'
      BY <1>2, <2>5, Still DEF vars, args, told, session, gds
    <3>3. QED
      BY <3>1, <3>2
  <2>6. QED
    BY <1>2, <2>1, <2>2, <2>3, <2>4, <2>5 DEF Next, Ended
<1>3. QED
  BY <1>1, <1>2, PTL DEF Spec

\* The types of the console client.
THEOREM ConsoleTyping == Spec => []TypeOK
  BY Console, PTL

\* Whatever the GDS and the link do, run() ends with its work done only when the
\* command has been answered in full or its failure reported.
THEOREM DoneIsDone == Spec => []DoneMeansComplete
<1>1. ConsoleInv => DoneMeansComplete
  BY DEF ConsoleInv, WorkInv, DoneMeansComplete
<1>2. QED
  BY <1>1, Console, PTL

\* For any number of pages, each is asked for once and in order.
THEOREM PagesOrdered == Spec => []PagesInOrder
<1>1. ASSUME TypeOK, ConsoleInv PROVE PagesInOrder
  <2>1. Len(asked) \in Nat /\ DOMAIN asked = 1..Len(asked)
    BY <1>1 DEF TypeOK
  <2>2. ASSUME NEW i \in DOMAIN asked, asked[i].type = "GET_NEXT_QUERY"
        PROVE  command = "queryall" /\ asked[i].arg = i - 1
    <3>1. CASE i = 1
      BY <1>1, <2>1, <2>2, <3>1, CommandsAssumption
         DEF ConsoleInv, AskedInv, FirstFrame, Frame, TypeOK
    <3>2. CASE i # 1
      <4>1. i \in 2..Len(asked)
        BY <2>1, <3>2
      <4>2. QED
        BY <1>1, <2>2, <4>1, Later DEF ConsoleInv
    <3>3. QED
      BY <3>1, <3>2
  <2>3. ASSUME NEW i \in DOMAIN asked, NEW j \in DOMAIN asked, i < j
        PROVE  asked[i] # asked[j]
    <3>1. j \in 2..Len(asked) /\ i \in Nat /\ j \in Nat
      BY <2>1, <2>3
    <3>2. CASE i = 1
      <4>1. asked[i].type \notin {"GET_NEXT_QUERY", "ATTACHMENT_REPLY"}
        BY <1>1, <2>1, <3>1, <3>2, CommandsAssumption
           DEF ConsoleInv, AskedInv, FirstFrame, Frame, TypeOK
      <4>2. QED
        BY <1>1, <3>1, <4>1, Later DEF ConsoleInv
    <3>3. CASE i # 1
      <4>1. i \in 2..Len(asked)
        BY <2>1, <3>1, <3>3
      <4>2. asked[i].arg = i - 1 /\ asked[j].arg = j - 1
        BY <1>1, <2>3, <3>1, <4>1, Later DEF ConsoleInv
      <4>3. QED
        BY <2>3, <3>1, <4>2
    <3>4. QED
      BY <3>2, <3>3
  <2>4. ASSUME NEW i \in DOMAIN asked, NEW j \in DOMAIN asked, asked[i] = asked[j]
        PROVE  i = j
    <3>1. i \in Nat /\ j \in Nat
      BY <2>1
    <3>2. ~(i < j) /\ ~(j < i)
      BY <2>3, <2>4
    <3>3. QED
      BY <3>1, <3>2
  <2>5. QED
    BY <2>2, <2>4 DEF PagesInOrder
<1>2. QED
  BY <1>1, Console, PTL

-----------------------------------------------------------------------------
(* For any number of pages and any answers of the GDS: a callback of the   *)
(* console client meets a session that main has closed only if run() gave  *)
(* up waiting; for a user who waits long enough, over a link that lasts,   *)
(* it always finds the session there.                                      *)

Patient == ~Impatient /\ ~Breaks

\* The session has ended for the listener.
Over == Session!Ends > 0

\* The GDS owes an answer.
Owed == promised \/ (answered < Len(asked) /\ asked[answered + 1].type # "ATTACHMENT_REPLY")

\* Where main is before the end of run(), and where it can be only after it has
\* waited for the login, or given that up.
Running == {"new", "run", "start", "connecting", "ready", "working"}
LoggedInPlaces == {"ready", "working", "close", "reset", "exit", "exited"}

\* As long as an answer is owed, or being handled, main waits and the session is
\* there unless the link has broken, or main has given up; so it is with the login
\* and main's first wait.  A patient user gives up what is over.
WaitingInv ==
    /\ fault = "send_error" =>
          (outcome = "timeout" \/ (Breaks /\ main = "working")) /\ ~Over
    /\ fault = "state_error" => outcome = "setup_timeout" /\ ~Over
    /\ main \in Running => outcome = "none"
    /\ ~Impatient /\ outcome \in {"timeout", "setup_timeout"} => Over
    /\ InHandler => ~Over
    /\ Owed \/ InHandler =>
          Over \/ outcome = "timeout"
               \/ (main = "working" /\ (Breaks \/ CanSend) /\ workDone = 0)
    /\ asked = <<>> => Over \/ workDone = 0
    /\ handling.type = "ATTACHMENT_REQUEST_REPLY" =>
          (promised <=> Awaited(handling.arg))
    /\ logged_in # "not_yet" => login = "accepted"
    /\ main \in {"new", "run"} => ~mGDSInterface
    /\ connectionReady > 0 => login = "accepted" \/ Over
    /\ mGDSInterface /\ main \in LoggedInPlaces =>
          login = "accepted" \/ Over \/ outcome = "setup_timeout"

\* A session that has ended does not come back.
LEMMA EndsGrow ==
    ASSUME TypeOK
    PROVE  /\ Session!Ends \in Nat
           /\ Session!Hear("failure") => Over'
           /\ Session!Hear("disconnect") => Over'
           /\ Session!Hear("success") => (Over' <=> Over)
           /\ Session!Hear("data") => (Over' <=> Over)
           /\ UNCHANGED calls => (Over' <=> Over)
<1>1. calls \in [{"success", "failure", "disconnect", "data"} -> Nat]
  BY DEF TypeOK
<1>2. calls.failure \in Nat /\ calls.disconnect \in Nat
  BY <1>1
<1>3. QED
  BY <1>1, <1>2 DEF Session!Ends, Session!Hear, Over

\* What the main thread does while it waits, and after.
LEMMA MainWaiting ==
    ASSUME TypeOK, ConsoleInv, WaitingInv, Main
    PROVE  WaitingInv'
<1>1. Over' <=> Over
  BY EndsGrow DEF Main, Construct, build, setupConnection, ConnectionReady,
     ConnectionTimesOut, NotLoggedIn, SendCommand, FileMissing, WorkDone,
     WorkTimesOut, close, reset, Exit, session, Session!Send, Session!Drop
<1> USE <1>1 DEF TypeOK, WaitingInv, Running, LoggedInPlaces, At, Goto,
        EndRun, args, told, session, gds, InHandler, Owed
<1>2. CASE Construct
  BY <1>2 DEF Construct
<1>3. CASE build
  BY <1>3 DEF build
<1>4. CASE setupConnection
  BY <1>4 DEF setupConnection
<1>5. CASE ConnectionReady
  BY <1>5 DEF ConnectionReady
<1>6. CASE ConnectionTimesOut
  BY <1>6 DEF ConnectionTimesOut, Expires, Over
<1>7. CASE NotLoggedIn
  BY <1>7 DEF NotLoggedIn
<1>8. CASE SendCommand
  <2>1. asked = <<>> /\ answered = 0 /\ ~InHandler /\ ~promised
    BY <1>8 DEF SendCommand, ConsoleInv, AskedInv, HandlingInv
  <2>2. CASE CanSend
    BY <1>8, <2>1, <2>2 DEF SendCommand, Session!Send
  <2>3. CASE ~CanSend
    BY <1>8, <2>1, <2>3 DEF SendCommand
  <2>4. QED
    BY <2>2, <2>3
<1>9. CASE FileMissing
  <2>1. asked = <<>> /\ answered = 0 /\ ~InHandler /\ ~promised
    BY <1>9 DEF FileMissing, ConsoleInv, AskedInv, HandlingInv
  <2>2. QED
    BY <1>9, <2>1 DEF FileMissing
<1>10. CASE WorkDone
  BY <1>10 DEF WorkDone
<1>11. CASE WorkTimesOut
  BY <1>11 DEF WorkTimesOut, Expires, Over
<1>12. CASE close
  BY <1>12 DEF close, Session!Drop
<1>13. CASE reset
  BY <1>13 DEF reset
<1>14. CASE Exit
  BY <1>14 DEF Exit
<1> QED
  BY <1>2, <1>3, <1>4, <1>5, <1>6, <1>7, <1>8, <1>9, <1>10, <1>11, <1>12, <1>13,
     <1>14, Zenon DEF Main

\* What the WebSocket thread does between two messages.
LEMMA WebSocketWaiting ==
    ASSUME TypeOK, ConsoleInv, WaitingInv, WebSocket
    PROVE  WaitingInv'
<1> USE DEF TypeOK, WaitingInv, Running, LoggedInPlaces, At, Idle, Serving,
        Dies, args, told, session, gds, InHandler, Owed
<1>1. CASE LogIn
  BY <1>1, EndsGrow DEF LogIn, Session!LogIn
<1>2. CASE on_connection_success
  BY <1>2, EndsGrow DEF on_connection_success, Session!Success
<1>3. CASE on_connection_failure
  BY <1>3, EndsGrow DEF on_connection_failure, Session!Failure
<1>4. CASE on_disconnect
  BY <1>4, EndsGrow DEF on_disconnect, Session!Disconnect
<1>5. CASE LinkDown
  BY <1>5, EndsGrow DEF LinkDown, Session!Drop
<1>6. CASE EarlyClose
  BY <1>6, EndsGrow DEF EarlyClose, Over
<1>7. CASE UseAfterReset
  BY <1>7, EndsGrow DEF UseAfterReset
<1>8. CASE NotOverridden
  BY <1>8, EndsGrow DEF NotOverridden
<1> QED
  BY <1>1, <1>2, <1>3, <1>4, <1>5, <1>6, <1>7, <1>8, Zenon DEF WebSocket

\* A handler finds the session there, and posts workDone only with its last answer.
LEMMA HandlersWaiting ==
    ASSUME TypeOK, ConsoleInv, WaitingInv, Handlers
    PROVE  WaitingInv'
<1>1. /\ InHandler /\ handling' = Nothing
      /\ UNCHANGED <<main, mGDSInterface, login, logged_in, calls, promised,
                     answered, connectionReady>>
  BY DEF Handlers, on_event_ack3, on_attachment_request_ack5, on_attachment_response6,
     on_query_request_ack11, Handles, InHandler, unheard, args
<1>2. ~Over' /\ ~Over /\ fault = "none"
  BY <1>1, EndsGrow DEF WaitingInv, Handlers, on_event_ack3, on_attachment_request_ack5,
     on_attachment_response6, on_query_request_ack11, Handles, Serving
<1>3. /\ Len(asked) = answered /\ answered > 0
      /\ promised => handling.type = "ATTACHMENT_REQUEST_REPLY" /\ handling.arg = "pending"
  BY <1>1 DEF ConsoleInv, HandlingInv, WaitingInv, InHandler, QueryCommands, TypeOK
<1>4. /\ asked' # <<>> /\ UNCHANGED outcome
      /\ fault' \in {"none", "send_error"} /\ (CanSend => fault' = "none")
  BY <1>2, <1>3 DEF Handlers, on_event_ack3, on_attachment_request_ack5,
     on_attachment_response6, on_query_request_ack11, Send, TypeOK, unheard, args
<1>5. CASE outcome = "timeout"
  BY <1>1, <1>2, <1>4, <1>5 DEF WaitingInv, InHandler, Nothing, Frame, Running,
     LoggedInPlaces
<1>6. CASE main = "working" /\ (Breaks \/ CanSend) /\ workDone = 0
  <2>1. ASSUME on_event_ack3 PROVE Owed' => workDone' = 0
    BY <1>3, <1>6, <2>1 DEF on_event_ack3, Handles, unheard, Owed
  <2>2. ASSUME on_attachment_request_ack5 PROVE Owed' => workDone' = 0
    BY <1>3, <1>6, <2>2 DEF on_attachment_request_ack5, Handles, unheard, Owed
  <2>3. ASSUME on_attachment_response6 PROVE Owed' => workDone' = 0
    <3>1. /\ asked' = asked \/ asked' = Append(asked, Frame("ATTACHMENT_REPLY", 0))
          /\ ~promised'
      BY <1>1, <1>3, <2>3 DEF on_attachment_response6, Send, Handles, NamedInAck
    <3>2. ~Owed'
      BY <1>1, <1>3, <3>1 DEF Owed, TypeOK, Frame
    <3>3. QED
      BY <3>2
  <2>4. ASSUME on_query_request_ack11 PROVE Owed' => workDone' = 0
    <3>1. CASE UNCHANGED workDone
      BY <1>6, <3>1
    <3>2. CASE UNCHANGED asked
      BY <1>1, <1>3, <2>4, <3>2 DEF Owed, on_query_request_ack11, Handles
    <3>3. QED
      BY <2>4, <3>1, <3>2 DEF on_query_request_ack11
  <2>5. Owed' => workDone' = 0
    BY <2>1, <2>2, <2>3, <2>4 DEF Handlers
  <2>6. QED
    BY <1>1, <1>2, <1>4, <1>6, <2>5 DEF WaitingInv, InHandler, Nothing, Frame, Running,
       LoggedInPlaces, CanSend
<1>7. QED
  BY <1>1, <1>2, <1>5, <1>6 DEF WaitingInv

\* What arrives was owed.
LEMMA GdsWaiting ==
    ASSUME TypeOK, ConsoleInv, WaitingInv, Gds
    PROVE  WaitingInv'
<1> USE DEF WaitingInv, Running, LoggedInPlaces, args, told, session, gds, Owed
<1>1. CASE GdsLogin
  BY <1>1, EndsGrow DEF GdsLogin, Session!Answer, InHandler
<1>2. CASE GdsAnswers
  <2>1. PICK frame \in AnswerTo(asked[answered + 1]) :
           Arrives(frame) /\ promised' = Announces(frame)
    BY <1>2 DEF GdsAnswers
  <2>2. /\ ~InHandler /\ handling' = frame /\ answered' = answered + 1
        /\ answered < Len(asked) /\ ~Over
        /\ UNCHANGED <<main, outcome, workDone, connectionReady, mGDSInterface,
                       login, logged_in, asked, fault>>
    BY <1>2, <2>1 DEF GdsAnswers, Arrives, Idle, Session!Data, Over
  <2>3. Over' <=> Over
    BY <2>1, EndsGrow DEF Arrives, Session!Data
  <2>4. /\ asked[answered + 1].type # "ATTACHMENT_REPLY"
        /\ frame.type # "NONE"
    BY <2>1 DEF AnswerTo, Frame
  <2>5. promised' <=> frame.type = "ATTACHMENT_REQUEST_REPLY" /\ frame.arg = "pending"
    BY <2>1 DEF Announces
  <2>6. outcome = "timeout" \/ (main = "working" /\ (Breaks \/ CanSend) /\ workDone = 0)
    BY <2>2, <2>4
  <2>7. QED
    BY <2>2, <2>3, <2>5, <2>6
<1>3. CASE GdsDelivers
  <2>1. /\ promised /\ ~promised' /\ handling' = Frame("ATTACHMENT", 1) /\ ~Over
        /\ ~InHandler
        /\ UNCHANGED <<main, outcome, workDone, connectionReady, mGDSInterface,
                       login, logged_in, asked, answered, fault>>
    BY <1>3 DEF GdsDelivers, Arrives, Idle, Session!Data, Over
  <2>2. Over' <=> Over
    BY <1>3, EndsGrow DEF GdsDelivers, Arrives, Session!Data
  <2>3. QED
    BY <2>1, <2>2 DEF Frame
<1>4. QED
  BY <1>1, <1>2, <1>3 DEF Gds

-----------------------------------------------------------------------------
\* WaitingInv holds throughout.
THEOREM Waiting == Spec => []WaitingInv
<1>1. Init => WaitingInv
  BY DEF Init, Session!Init, Session!Ends, WaitingInv, InHandler, Owed, Over, Running,
     LoggedInPlaces, Nothing, Frame
<1>2. ASSUME TypeOK, ConsoleInv, WaitingInv, [Next]_vars PROVE WaitingInv'
  <2>1. CASE UNCHANGED vars
    BY <1>2, <2>1, EndsGrow DEF vars, args, told, session, gds, WaitingInv, InHandler, Owed,
       Running, LoggedInPlaces
  <2>2. QED
    BY <1>2, <2>1, MainWaiting, WebSocketWaiting, HandlersWaiting, GdsWaiting
       DEF Next, Ended
<1>3. QED
  BY <1>1, <1>2, Console, PTL DEF Spec

\* For any timeouts and any link, main closes the session under a callback that
\* sends only when run() had given up waiting for the work, and under a login only
\* when it had given up waiting for the connection.
THEOREM TimeoutsOnly == Spec => []DiesOfTimeout
<1>1. WaitingInv => DiesOfTimeout
  BY DEF WaitingInv, DiesOfTimeout
<1>2. QED
  BY <1>1, Waiting, PTL

\* With timeouts that are long enough and a link that lasts, no callback meets a
\* closed session: nothing is left to answer when main closes.
THEOREM NoneDies == Patient /\ Spec => []NoCallbackDies
<1> SUFFICES ASSUME Patient PROVE Spec => []NoCallbackDies
  OBVIOUS
<1>1. WaitingInv => NoCallbackDies
  BY DEF WaitingInv, NoCallbackDies, Patient
<1>2. QED
  BY <1>1, Waiting, PTL
=============================================================================
