---------------------------- MODULE ConsoleClient ----------------------------
(***************************************************************************)
(* GDSConsoleClient of console_client.cpp and the part of main() that runs *)
(* it: the main thread logs in, sends one command and waits, the WebSocket *)
(* thread runs the callbacks that answer.  They share a session, which is  *)
(* what GdsSession says it is (GdsClient!ImplementsSession), and meet in   *)
(* two binary semaphores, each posted by the WebSocket thread alone: with  *)
(* one poster a semaphore is atomic (Semaphore!ImplementsBounded), so each *)
(* is a counter here.                                                      *)
(***************************************************************************)
EXTENDS Naturals, Sequences

CONSTANTS
    Commands,    \* the commands the user may give
    LastPage,    \* how many pages the GDS has for a query
    Impatient,   \* wait_for may run out although the GDS is about to answer
    Breaks,      \* the link may break, or the GDS close it, at any time
    Unasked      \* the GDS may send what the listener does not override

ASSUME CommandsAssumption ==
    Commands \subseteq {"query", "queryall", "event", "attachment"}
ASSUME PageAssumption == LastPage \in Nat /\ LastPage > 0
ASSUME FlagAssumption ==
    Impatient \in BOOLEAN /\ Breaks \in BOOLEAN /\ Unasked \in BOOLEAN

VARIABLES
    command,            \* the argument that is not an option
    main,               \* where the main thread is
    connectionReady,    \* permits of the two semaphores
    workDone,
    login_success,
    contextDescriptor,  \* the page whose context is kept, 0 before the first
    mGDSInterface,      \* TRUE while the client object exists
    login,              \* the session: see GdsSession
    logged_in,
    calls,
    asked,              \* what the GDS was sent, in order
    answered,           \* how much of it the GDS has dealt with
    promised,           \* TRUE while the GDS owes an attachment it announced
    handling,           \* the message the WebSocket thread is in a handler for
    pages,              \* pages the callbacks have received
    result,             \* what else they have been told
    outcome,            \* how run() ended
    fault               \* what killed the process

args == <<command, main, outcome>>
told == <<connectionReady, workDone, login_success, contextDescriptor, pages,
          result>>
session == <<login, logged_in, calls, asked>>
gds == <<answered, promised, handling>>
vars == <<args, told, mGDSInterface, session, gds, fault>>

Session == INSTANCE GdsSession WITH frames <- Len(asked)

\* The check of send().
CanSend == logged_in = "yes"

Frame(type, arg) == [type |-> type, arg |-> arg]
Nothing == Frame("NONE", 0)

Init ==
    /\ command \in Commands
    /\ main = "new"
    /\ connectionReady = 0 /\ workDone = 0
    /\ login_success = FALSE
    /\ contextDescriptor = 0
    /\ mGDSInterface = FALSE
    /\ asked = <<>>
    /\ Session!Init
    /\ answered = 0 /\ promised = FALSE /\ handling = Nothing
    /\ pages = {} /\ result = {}
    /\ outcome = "none" /\ fault = "none"

MutantPost(permits) == permits + 1

\* post() of a binary semaphore; at the limit it does nothing.
Post(permits) == IF permits < 1 THEN permits + 1 ELSE permits

\* The WebSocket thread serves a client that was started and still exists.
Serving == mGDSInterface /\ main # "start" /\ fault = "none"
InHandler == handling.type # "NONE"
Idle == Serving /\ ~InHandler

-----------------------------------------------------------------------------
(* The main thread.                                                        *)

At(l) == main = l /\ fault = "none"
Goto(l) == main' = l /\ UNCHANGED outcome

\* A timeout runs out with no permit there, when the user has set it too
\* short or when the session is over and nothing can come any more.
MutantExpires(permits) == FALSE
Expires(permits) ==
    permits = 0 /\ (Impatient \/ (Session!Ends > 0 /\ ~InHandler))

\* Exceptions of run() end up in main(), which goes on to close().
EndRun(how) == main' = "close" /\ outcome' = how

\* The constructor throws on a timeout that is no number: main() has no client to
\* close.
Construct ==
    /\ At("new")
    /\ \/ Goto("run")
       \/ main' = "exit" /\ outcome' = "bad_timeout"
    /\ UNCHANGED <<command, told, mGDSInterface, session, gds, fault>>

\* The url or the key files may be refused by the client's constructor.
build ==
    /\ At("run")
    /\ \/ mGDSInterface' = TRUE /\ Goto("start")
       \/ EndRun("not_built") /\ UNCHANGED mGDSInterface
    /\ UNCHANGED <<command, told, session, gds, fault>>

setupConnection ==
    /\ At("start")
    /\ Goto("connecting")
    /\ UNCHANGED <<command, told, mGDSInterface, session, gds, fault>>

ConnectionReady ==
    /\ At("connecting")
    /\ connectionReady > 0
    /\ connectionReady' = connectionReady - 1
    /\ Goto("ready")
    /\ UNCHANGED <<command, workDone, login_success, contextDescriptor, pages,
                   result, mGDSInterface, session, gds, fault>>

ConnectionTimesOut ==
    /\ At("connecting")
    /\ Expires(connectionReady)
    /\ EndRun("setup_timeout")
    /\ UNCHANGED <<command, told, mGDSInterface, session, gds, fault>>

NotLoggedIn ==
    /\ At("ready") /\ ~login_success
    /\ EndRun("declined")
    /\ UNCHANGED <<command, told, mGDSInterface, session, gds, fault>>

FirstFrame ==
    Frame(CASE command \in {"query", "queryall"} -> "QUERY"
            [] command = "event" -> "EVENT"
            [] command = "attachment" -> "ATTACHMENT_REQUEST", 0)

\* send_query, send_event or send_attachment_request; a session that is over
\* makes send() throw.
SendCommand ==
    /\ At("ready") /\ login_success
    /\ \/ /\ CanSend
          /\ asked' = Append(asked, FirstFrame)
          /\ Session!Send
          /\ Goto("working")
       \/ /\ ~CanSend
          /\ EndRun("not_sent")
          /\ UNCHANGED session
    /\ UNCHANGED <<command, told, mGDSInterface, gds, fault>>

\* An attachment that cannot be opened throws before anything is sent.
FileMissing ==
    /\ At("ready") /\ login_success
    /\ command = "event"
    /\ EndRun("no_file")
    /\ UNCHANGED <<command, told, mGDSInterface, session, gds, fault>>

WorkDone ==
    /\ At("working")
    /\ workDone > 0
    /\ workDone' = workDone - 1
    /\ EndRun("done")
    /\ UNCHANGED <<command, connectionReady, login_success, contextDescriptor,
                   pages, result, mGDSInterface, session, gds, fault>>

WorkTimesOut ==
    /\ At("working")
    /\ Expires(workDone)
    /\ EndRun("timeout")
    /\ UNCHANGED <<command, told, mGDSInterface, session, gds, fault>>

\* close(): a client that was built is closed first ...
close ==
    /\ At("close")
    /\ Goto(IF mGDSInterface THEN "reset" ELSE "exit")
    /\ UNCHANGED asked
    /\ IF CanSend THEN Session!Drop ELSE UNCHANGED session
    /\ UNCHANGED <<command, told, mGDSInterface, gds, fault>>

\* ... and destroyed at once.
reset ==
    /\ At("reset")
    /\ mGDSInterface' = FALSE
    /\ Goto("exit")
    /\ UNCHANGED <<command, told, session, gds, fault>>

\* main() returns and takes the WebSocket thread with it.
Exit ==
    /\ At("exit")
    /\ Goto("exited")
    /\ UNCHANGED <<command, told, mGDSInterface, session, gds, fault>>

Main == \/ Construct \/ build \/ setupConnection \/ ConnectionReady
        \/ ConnectionTimesOut \/ NotLoggedIn \/ SendCommand \/ FileMissing
        \/ WorkDone \/ WorkTimesOut \/ close \/ reset \/ Exit

-----------------------------------------------------------------------------
(* The WebSocket thread, outside the handlers of messages.                 *)

LogIn ==
    /\ Idle
    /\ UNCHANGED asked /\ Session!LogIn
    /\ UNCHANGED <<args, told, mGDSInterface, gds, fault>>

\* The state that send() checks is given up just before the end is notified:
\* by a link that breaks or a GDS that closes, of its own accord or to answer.
LinkDown ==
    /\ Idle /\ calls.success = 1
    /\ Breaks \/ main = "reset"
    /\ UNCHANGED asked /\ Session!Drop
    /\ UNCHANGED <<args, told, mGDSInterface, gds, fault>>

on_connection_success ==
    /\ Idle
    /\ UNCHANGED asked /\ Session!Success
    /\ login_success' = TRUE
    /\ connectionReady' = Post(connectionReady)
    /\ UNCHANGED <<args, workDone, contextDescriptor, pages, result,
                   mGDSInterface, gds, fault>>

on_connection_failure ==
    /\ Idle
    /\ UNCHANGED asked /\ Session!Failure
    /\ connectionReady' = Post(connectionReady)
    /\ workDone' = Post(workDone)
    /\ result' = result \cup {"failure"}
    /\ UNCHANGED <<args, login_success, contextDescriptor, pages,
                   mGDSInterface, gds, fault>>

\* on_disconnect is not overridden: nobody is told.
on_disconnect ==
    /\ Idle
    /\ UNCHANGED asked /\ Session!Disconnect
    /\ UNCHANGED <<args, told, mGDSInterface, gds, fault>>

Dies(f) == fault' = f /\ UNCHANGED <<args, told, mGDSInterface, session, gds>>

\* main gave up before the login was answered: a state change of the WebSocket
\* thread fails (GdsClient!NoStateError), and what it throws is not caught.
EarlyClose ==
    /\ Idle /\ main = "reset"
    /\ login = "silent" /\ Session!Ends = 0
    /\ Dies("state_error")

\* The thread goes on in a client that main has destroyed.
UseAfterReset ==
    /\ At("exit") /\ ~mGDSInterface
    /\ outcome \notin {"bad_timeout", "not_built"}
    /\ Dies("freed")

-----------------------------------------------------------------------------
(* The handlers of messages.                                               *)

Handles(type) == Serving /\ handling.type = type /\ handling' = Nothing
unheard == <<args, connectionReady, login_success, mGDSInterface, login,
             logged_in, calls, answered, promised>>

Got(x) == result' = result \cup {x}

\* mGDSInterface->send: nothing catches what it throws in a handler.
Send(frame) ==
    IF CanSend THEN asked' = Append(asked, frame) /\ UNCHANGED fault
               ELSE fault' = "send_error" /\ UNCHANGED asked

on_event_ack3 ==
    /\ Handles("EVENT_REPLY")
    /\ Got("ack")
    /\ workDone' = Post(workDone)
    /\ UNCHANGED <<unheard, contextDescriptor, pages, asked, fault>>

MutantAwaited(what) == FALSE
Awaited(what) == what = "pending"

\* The binaries, a refusal, or the announcement that they will come.
on_attachment_request_ack5 ==
    /\ Handles("ATTACHMENT_REQUEST_REPLY")
    /\ Got(handling.arg)
    /\ workDone' = IF Awaited(handling.arg) THEN workDone ELSE Post(workDone)
    /\ UNCHANGED <<unheard, contextDescriptor, pages, asked, fault>>

\* How many attachments the ACK names: "response = {}" empties the optional
\* that the next lines write to, so its body is packed as nil.
NamedInAck == 0

on_attachment_response6 ==
    /\ Handles("ATTACHMENT")
    /\ Got("saved")
    /\ Send(Frame("ATTACHMENT_REPLY", NamedInAck))
    /\ workDone' = IF CanSend THEN Post(workDone) ELSE workDone
    /\ UNCHANGED <<unheard, contextDescriptor, pages>>

MutantContinues(more) == FALSE
Continues(more) == command = "queryall" /\ more

MutantNextPage(page) == contextDescriptor
NextContext(page) == page

\* The context is kept first: the next request carries the newest.  A reply
\* without a response body, number 0, refuses the query.
on_query_request_ack11 ==
    /\ Handles("QUERY_REPLY")
    /\ LET page == handling.arg IN
          /\ IF page > 0
             THEN /\ pages' = pages \cup {page}
                  /\ contextDescriptor' = page
                  /\ UNCHANGED result
             ELSE Got("refused") /\ UNCHANGED <<pages, contextDescriptor>>
          /\ IF Continues(page > 0 /\ page < LastPage)
             THEN /\ Send(Frame("GET_NEXT_QUERY", NextContext(page)))
                  /\ UNCHANGED workDone
             ELSE /\ workDone' = Post(workDone)
                  /\ UNCHANGED <<asked, fault>>
    /\ UNCHANGED unheard

\* The default of a handler that is not overridden throws, and m_on_message
\* does not catch that.
NotOverridden ==
    /\ Idle /\ Unasked /\ calls.success = 1 /\ Session!Ends = 0
    /\ Dies("not_implemented")

WebSocket == \/ LogIn \/ on_connection_success \/ on_connection_failure
             \/ on_disconnect \/ LinkDown \/ EarlyClose \/ UseAfterReset
             \/ NotOverridden
Handlers == on_event_ack3 \/ on_attachment_request_ack5 \/ on_attachment_response6
            \/ on_query_request_ack11

-----------------------------------------------------------------------------
(* The GDS, as the callbacks expect it: it answers in order, a query with  *)
(* its first page, the context of a page with the page that follows it.    *)

AnswerTo(frame) ==
    CASE frame.type = "QUERY" -> {Frame("QUERY_REPLY", 1), Frame("QUERY_REPLY", 0)}
      [] frame.type = "GET_NEXT_QUERY" ->
            {Frame("QUERY_REPLY", frame.arg + 1), Frame("QUERY_REPLY", 0)}
      [] frame.type = "EVENT" -> {Frame("EVENT_REPLY", 0)}
      [] frame.type = "ATTACHMENT_REQUEST" ->
            {Frame("ATTACHMENT_REQUEST_REPLY", a) : a \in {"saved", "refused", "pending"}}
      [] OTHER -> {}

GdsLogin ==
    /\ Idle
    /\ UNCHANGED asked
    /\ \E a \in {"accepted", "declined"} : Session!Answer(a)
    /\ UNCHANGED <<args, told, mGDSInterface, gds, fault>>

Announces(frame) ==
    frame.type = "ATTACHMENT_REQUEST_REPLY" /\ frame.arg = "pending"

\* A message of the GDS is in a handler as soon as it arrives.
Arrives(frame) ==
    /\ Idle
    /\ UNCHANGED asked /\ Session!Data
    /\ handling' = frame
    /\ UNCHANGED <<args, told, mGDSInterface, fault>>

GdsAnswers ==
    /\ answered < Len(asked)
    /\ \E frame \in AnswerTo(asked[answered + 1]) :
          /\ Arrives(frame)
          /\ promised' = Announces(frame)
    /\ answered' = answered + 1

GdsDelivers ==
    /\ promised
    /\ Arrives(Frame("ATTACHMENT", 1))
    /\ promised' = FALSE
    /\ UNCHANGED answered

Gds == GdsLogin \/ GdsAnswers \/ GdsDelivers

Ended ==
    /\ main = "exited" \/ fault # "none"
    /\ UNCHANGED vars

Next == Main \/ WebSocket \/ Handlers \/ Gds \/ Ended

Spec == Init /\ [][Next]_vars

\* The main thread runs; nobody else owes it anything.
MainSpec == Spec /\ WF_vars(Main)

\* The other thread runs too, a login is answered or fails, the GDS answers.
LiveSpec == /\ MainSpec
            /\ WF_vars(GdsLogin \/ LogIn \/ on_connection_success
                       \/ on_connection_failure)
            /\ WF_vars(Handlers)
            /\ WF_vars(GdsAnswers \/ GdsDelivers)

-----------------------------------------------------------------------------
(* Properties.                                                             *)

Complete ==
    \/ "refused" \in result
    \/ command = "query" /\ 1 \in pages
    \/ command = "queryall" /\ 1..LastPage \subseteq pages
    \/ command = "event" /\ "ack" \in result
    \/ command = "attachment" /\ "saved" \in result

Requests == [type : {"QUERY", "GET_NEXT_QUERY", "EVENT", "ATTACHMENT_REQUEST",
                     "ATTACHMENT_REPLY"},
             arg : 0..LastPage]

TypeOK ==
    /\ command \in Commands
    /\ main \in {"new", "run", "start", "connecting", "ready", "working",
                 "close", "reset", "exit", "exited"}
    /\ connectionReady \in 0..1 /\ workDone \in 0..1
    /\ login_success \in BOOLEAN /\ mGDSInterface \in BOOLEAN
    /\ promised \in BOOLEAN
    /\ logged_in \in {"not_yet", "yes", "no_more"}
    /\ contextDescriptor \in 0..LastPage
    /\ login \in {"silent", "accepted", "declined"}
    /\ calls \in [{"success", "failure", "disconnect", "data"} -> Nat]
    /\ asked \in Seq(Requests)
    /\ answered \in 0..Len(asked)
    /\ handling.type \in {"NONE", "QUERY_REPLY", "EVENT_REPLY", "ATTACHMENT",
                          "ATTACHMENT_REQUEST_REPLY"}
    /\ pages \subseteq 1..LastPage
    /\ result \subseteq {"failure", "ack", "saved", "refused", "pending"}
    /\ outcome \in {"none", "bad_timeout", "not_built", "setup_timeout",
                    "declined", "not_sent", "no_file", "done", "timeout"}
    /\ fault \in {"none", "send_error", "state_error", "not_implemented",
                  "freed"}

\* workDone is posted for nothing but the end of the job: when run() comes to
\* its end without a timeout, everything the command asked for has been
\* received or refused, unless the listener was told that the connection failed.
DoneMeansComplete == outcome = "done" => Complete \/ "failure" \in result

\* The pages are asked for one after the other, each once, each with the
\* context of the page before it, and none unless -queryall was given.
PagesInOrder ==
    /\ \A i \in DOMAIN asked :
          asked[i].type = "GET_NEXT_QUERY" =>
              command = "queryall" /\ asked[i].arg = i - 1
    /\ \A i, j \in DOMAIN asked : asked[i] = asked[j] => i = j

\* For a user who waits long enough over a link that lasts, the session is still
\* there for whatever an answer makes a callback send, and no close overtakes the
\* login.  (A callback that is not overridden throws all the same; and that the
\* thread goes on in a client main has destroyed, UseAfterReset, can happen to
\* every user.)
NoCallbackDies == fault \notin {"send_error", "state_error"}

\* main never closes the session under a callback or a login, whatever the timeouts
\* and the link, but when it gave up waiting: a callback that cannot send has been
\* overtaken by a timeout of run(), or by the link while main still waits; and a
\* login that close() overtakes, by the timeout of setupConnection().
DiesOfTimeout ==
    /\ fault = "send_error" => outcome = "timeout" \/ (Breaks /\ main = "working")
    /\ fault = "state_error" => outcome = "setup_timeout"

\* The process comes to its end whatever the GDS does: both waits are timed.
MainEnds == <>(main = "exited" \/ fault # "none")

\* With a GDS that answers and a link that lasts, the command of a client that
\* has logged in is completed before the process ends.
CommandServed == asked # <<>> ~> Complete
=============================================================================
