------------------------------ MODULE GdsClient ------------------------------
(***************************************************************************)
(* BaseGDSClient of gds_clients.hpp: the session object an application     *)
(* shares with the detached WebSocket thread that start() spawns.          *)
(* Application threads call start, send, close and the destructor; the     *)
(* WebSocket thread runs the handlers m_on_open, m_on_message, m_on_close  *)
(* and m_on_error, one at a time, and calls the listener from them.        *)
(* m_state is atomic; mConnection is a plain shared_ptr that both sides    *)
(* test, dereference and reset without a lock, so each of these accesses   *)
(* is a step of its own.                                                   *)
(***************************************************************************)
EXTENDS Naturals

CONSTANTS
    Users,        \* application threads that share the client
    Ws,           \* the thread start() spawns
    Secure,       \* TRUE when parse_cert wrote the two temporary key files
    EarlyClose,   \* applications may close before any outcome is notified
    Destroys,     \* applications may destroy the client
    LinkErrors,   \* the link may break after it was opened
    CallbackOps,  \* what a listener does from its callbacks: send, close
    MaxSends,     \* bound: application messages
    MaxData       \* bound: messages of the GDS after its login reply

ASSUME WsAssumption == Ws \notin Users
ASSUME FlagAssumption ==
    /\ Secure \in BOOLEAN /\ EarlyClose \in BOOLEAN
    /\ Destroys \in BOOLEAN /\ LinkErrors \in BOOLEAN
    /\ CallbackOps \subseteq {"send", "close"}
ASSUME BoundAssumption == MaxSends \in Nat /\ MaxData \in Nat

VARIABLES
    m_state,      \* connection::State
    mConnection,  \* TRUE when the shared_ptr is engaged
    latch,        \* count of mCountdownlatch
    pc,           \* where each thread is
    ret,          \* where each thread continues when its close or send returns
    link,         \* the WebSocket connection under the client
    gds,          \* the login reply of the GDS, sent at most once
    sent,         \* frames handed to the connection, per kind
    calls,        \* listener callbacks invoked, per kind
    tls_files,    \* TRUE while the key files are on disk
    alive,        \* FALSE once the destructor has freed the members
    fault         \* what killed the process, "none" while it runs

vars == <<m_state, mConnection, latch, pc, ret, link, gds, sent, calls,
          tls_files, alive, fault>>

Threads == Users \cup {Ws}
States == {"NOT_CONNECTED", "INITIALIZING", "CONNECTING", "CONNECTED",
           "LOGGING_IN", "LOGGED_IN", "DISCONNECTED", "FAILED"}
ClosePcs == {"close", "close_store", "close_test", "close_frame", "close_reset"}
UserPcs == ClosePcs \cup {"idle", "send_frame", "destroy"}
Outcomes == {"success", "failure", "disconnect"}
Callbacks == Outcomes \cup {"data"}
WsPcs == ClosePcs \cup Callbacks \cup
         {"unborn", "spawned", "loop", "open_conn", "open_login", "login",
          "reply", "callback", "send_frame", "await", "cleanup", "done"}
Frames == {"LOGIN", "MSG", "CLOSE"}
Faults == {"none", "state_error", "send_error", "null", "freed"}

\* The listener has been told how the session went.
Notified == \E k \in Outcomes : calls[k] > 0
\* Some application thread is inside the destructor, or past it.
Destroying == \E u \in Users : ret[u] = "destroy"
CloseAllowed == EarlyClose \/ Notified

Init ==
    /\ m_state = "NOT_CONNECTED"
    /\ mConnection = FALSE
    /\ latch = 1
    /\ pc = [t \in Threads |-> IF t = Ws THEN "unborn" ELSE "idle"]
    /\ ret = [t \in Threads |-> IF t = Ws THEN "loop" ELSE "idle"]
    /\ link = "none"
    /\ gds = "silent"
    /\ sent = [f \in Frames |-> 0]
    /\ calls = [k \in Callbacks |-> 0]
    /\ tls_files = Secure
    /\ alive = TRUE
    /\ fault = "none"

-----------------------------------------------------------------------------
(* The checks of the code.  NoCheck, and the definitions called Mutant,    *)
(* are what a bug would make of them: no behaviour of Spec uses them, the  *)
(* properties below fail when they take the place of the definition that   *)
(* follows.                                                                *)

NoCheck == TRUE
MayStart == m_state = "NOT_CONNECTED"
MaySend == m_state = "LOGGED_IN"
KeepsState == m_state = "FAILED"
HasConnection == mConnection
TimeoutIsNews == m_state \notin {"FAILED", "DISCONNECTED"}

MutantCountdown(n) == n - 1
MutantNoCountdown(n) == n
countdown(n) == IF n > 0 THEN n - 1 ELSE 0

-----------------------------------------------------------------------------
(* Steps shared by every thread.                                           *)

Running(t) == fault = "none" /\ (t = Ws => alive)
At(t, l) == Running(t) /\ pc[t] = l
Goto(t, l) == pc' = [pc EXCEPT ![t] = l]
Call(t, op, back) == Goto(t, op) /\ ret' = [ret EXCEPT ![t] = back]
Die(f) == fault' = f /\ UNCHANGED <<m_state, mConnection, latch, pc, ret, link,
                                    gds, sent, calls, tls_files, alive>>
session == <<link, gds, calls, tls_files, alive, fault>>

\* compare_exchange_strong of m_state: a lost race throws a state_error that
\* nothing on the WebSocket thread catches.
Cas(old, new, next) ==
    \/ /\ m_state = old
       /\ m_state' = new
       /\ Goto(Ws, next)
       /\ UNCHANGED <<mConnection, latch, ret, gds, sent, calls, tls_files,
                      alive, fault>>
    \/ /\ m_state # old
       /\ fault' = "state_error"
       /\ UNCHANGED <<m_state, mConnection, latch, pc, ret, gds, sent, calls,
                      tls_files, alive>>

CloseLoad(t) ==
    /\ At(t, "close")
    /\ Goto(t, IF KeepsState THEN "close_test" ELSE "close_store")
    /\ UNCHANGED <<m_state, mConnection, latch, ret, sent, session>>

CloseStore(t) ==
    /\ At(t, "close_store")
    /\ m_state' = "DISCONNECTED"
    /\ Goto(t, "close_test")
    /\ UNCHANGED <<mConnection, latch, ret, sent, session>>

CloseTest(t) ==
    /\ At(t, "close_test")
    /\ Goto(t, IF HasConnection THEN "close_frame" ELSE ret[t])
    /\ UNCHANGED <<m_state, mConnection, latch, ret, sent, session>>

\* send_close puts the frame in the queue at most once per connection.
CloseFrame(t) ==
    /\ At(t, "close_frame")
    /\ \/ /\ mConnection
          /\ sent' = [sent EXCEPT !.CLOSE = 1]
          /\ Goto(t, "close_reset")
          /\ UNCHANGED <<m_state, mConnection, latch, ret, session>>
       \/ ~mConnection /\ Die("null")

CloseReset(t) ==
    /\ At(t, "close_reset")
    /\ mConnection' = FALSE
    /\ Goto(t, ret[t])
    /\ UNCHANGED <<m_state, latch, ret, sent, session>>

\* The frame of send(): its state check has already passed.
SendFrame(t) ==
    /\ At(t, "send_frame")
    /\ \/ /\ mConnection
          /\ sent' = [sent EXCEPT !.MSG = @ + 1]
          /\ Goto(t, ret[t])
          /\ UNCHANGED <<m_state, mConnection, latch, ret, session>>
       \/ ~mConnection /\ Die("null")

close(t) == CloseLoad(t) \/ CloseStore(t) \/ CloseTest(t) \/ CloseFrame(t)
            \/ CloseReset(t)

-----------------------------------------------------------------------------
(* Application threads.  A start or a send that the state forbids throws   *)
(* to its caller and changes nothing, so it has no action.                 *)

Free(u) == At(u, "idle") /\ ~Destroying

start(u) ==
    /\ Free(u)
    /\ MayStart
    /\ m_state' = "INITIALIZING"
    /\ Goto(Ws, "spawned")
    /\ UNCHANGED <<mConnection, latch, ret, sent, session>>

send(u) ==
    /\ Free(u)
    /\ MaySend
    /\ sent.MSG < MaxSends
    /\ Call(u, "send_frame", "idle")
    /\ UNCHANGED <<m_state, mConnection, latch, sent, session>>

CallClose(u) ==
    /\ Free(u)
    /\ CloseAllowed
    /\ Call(u, "close", "idle")
    /\ UNCHANGED <<m_state, mConnection, latch, sent, session>>

\* ~BaseGDSClient closes first; the owner destroys when no other call runs.
CallDestroy(u) ==
    /\ Free(u)
    /\ Destroys /\ CloseAllowed
    /\ \A v \in Users : pc[v] = "idle"
    /\ Call(u, "close", "destroy")
    /\ UNCHANGED <<m_state, mConnection, latch, sent, session>>

FreeMembers(u) ==
    /\ At(u, "destroy")
    /\ alive' = FALSE
    /\ Goto(u, "idle")
    /\ UNCHANGED <<m_state, mConnection, latch, ret, sent, link, gds, calls,
                   tls_files, fault>>

-----------------------------------------------------------------------------
(* The WebSocket thread.                                                   *)

\* The first step of the lambda; mWebSocket->start() then runs the io loop.
RunThread ==
    /\ At(Ws, "spawned")
    /\ Cas("INITIALIZING", "CONNECTING", "loop")
    /\ link' = IF m_state = "INITIALIZING" THEN "opening" ELSE link

MutantOpen ==
    /\ At(Ws, "loop")
    /\ link = "opening"
    /\ link' = "open"
    /\ Cas("CONNECTING", "LOGGING_IN", "open_conn")

m_on_open ==
    /\ At(Ws, "loop")
    /\ link = "opening"
    /\ link' = "open"
    /\ Cas("CONNECTING", "CONNECTED", "open_conn")

OpenConnection ==
    /\ At(Ws, "open_conn")
    /\ mConnection' = TRUE
    /\ Goto(Ws, "open_login")
    /\ UNCHANGED <<m_state, latch, ret, sent, session>>

OpenLoggingIn ==
    /\ At(Ws, "open_login")
    /\ Cas("CONNECTED", "LOGGING_IN", "login")
    /\ UNCHANGED link

login ==
    /\ At(Ws, "login")
    /\ \/ /\ mConnection
          /\ sent' = [sent EXCEPT !.LOGIN = @ + 1]
          /\ Goto(Ws, "loop")
          /\ UNCHANGED <<m_state, mConnection, latch, ret, session>>
       \/ ~mConnection /\ Die("null")

\* m_on_message, LOGIN_REPLY: count down, then read and check the state.
ReplyReceived(answer) ==
    /\ At(Ws, "loop")
    /\ link = "open" /\ gds = "silent" /\ sent.LOGIN > 0
    /\ gds' = answer
    /\ latch' = countdown(latch)
    /\ IF m_state \in {"LOGGING_IN", "FAILED", "DISCONNECTED"}
       THEN Goto(Ws, "reply") /\ UNCHANGED fault
       ELSE fault' = "state_error" /\ UNCHANGED pc
    /\ UNCHANGED <<m_state, mConnection, ret, link, sent, calls, tls_files,
                   alive>>

MutantAccepted ==
    /\ At(Ws, "reply") /\ gds = "accepted"
    /\ m_state' = "LOGGED_IN"
    /\ Goto(Ws, "loop")
    /\ UNCHANGED <<mConnection, latch, ret, sent, session>>

LoginAccepted ==
    /\ At(Ws, "reply") /\ gds = "accepted"
    /\ m_state' = "LOGGED_IN"
    /\ Goto(Ws, "success")
    /\ UNCHANGED <<mConnection, latch, ret, sent, session>>

LoginDeclined ==
    /\ At(Ws, "reply") /\ gds = "declined"
    /\ m_state' = "FAILED"
    /\ Call(Ws, "close", "failure")
    /\ UNCHANGED <<mConnection, latch, sent, session>>

\* m_on_message, any other type: straight to the listener.
DataReceived ==
    /\ At(Ws, "loop")
    /\ link = "open" /\ gds = "accepted" /\ calls.data < MaxData
    /\ Goto(Ws, "data")
    /\ UNCHANGED <<m_state, mConnection, latch, ret, sent, session>>

\* The close frame of the GDS: the library answers it, then reads no more.
m_on_close ==
    /\ At(Ws, "loop")
    /\ link = "open"
    /\ link' = "down"
    /\ sent' = [sent EXCEPT !.CLOSE = 1]
    /\ m_state' = "DISCONNECTED"
    /\ Goto(Ws, "disconnect")
    /\ UNCHANGED <<mConnection, latch, ret, gds, calls, tls_files, alive, fault>>

MutantError ==
    /\ At(Ws, "loop")
    /\ link = "opening" \/ (link = "open" /\ LinkErrors)
    /\ link' = "down"
    /\ latch' = countdown(latch)
    /\ m_state' = "FAILED"
    /\ Call(Ws, "close", "loop")
    /\ UNCHANGED <<mConnection, gds, sent, calls, tls_files, alive, fault>>

m_on_error ==
    /\ At(Ws, "loop")
    /\ link = "opening" \/ (link = "open" /\ LinkErrors)
    /\ link' = "down"
    /\ latch' = countdown(latch)
    /\ m_state' = "FAILED"
    /\ Call(Ws, "close", "failure")
    /\ UNCHANGED <<mConnection, gds, sent, calls, tls_files, alive, fault>>

Notify(k) ==
    /\ At(Ws, k)
    /\ calls' = [calls EXCEPT ![k] = @ + 1]
    /\ Goto(Ws, "callback")
    /\ UNCHANGED <<m_state, mConnection, latch, ret, link, gds, sent, tls_files,
                   alive, fault>>

CallbackReturns ==
    /\ At(Ws, "callback")
    /\ Goto(Ws, "loop")
    /\ UNCHANGED <<m_state, mConnection, latch, ret, sent, session>>

\* A listener that sends as the last thing it does: the exception of a
\* refused send leaves the handler and ends the process.
CallbackSends ==
    /\ At(Ws, "callback") /\ "send" \in CallbackOps
    /\ \/ /\ MaySend /\ sent.MSG < MaxSends
          /\ Call(Ws, "send_frame", "loop")
          /\ UNCHANGED <<m_state, mConnection, latch, sent, session>>
       \/ ~MaySend /\ Die("send_error")

CallbackCloses ==
    /\ At(Ws, "callback") /\ "close" \in CallbackOps
    /\ Call(Ws, "close", "loop")
    /\ UNCHANGED <<m_state, mConnection, latch, sent, session>>

\* Nothing is left to read: mWebSocket->start() returns.
LoopEnds ==
    /\ At(Ws, "loop") /\ link = "down"
    /\ Goto(Ws, "await")
    /\ UNCHANGED <<m_state, mConnection, latch, ret, sent, session>>

AwaitReturns ==
    /\ At(Ws, "await") /\ latch = 0
    /\ Goto(Ws, "cleanup")
    /\ UNCHANGED <<m_state, mConnection, latch, ret, sent, session>>

MutantHangs == FALSE

\* m_timeout elapses with the latch still up.
AwaitTimesOut ==
    /\ At(Ws, "await") /\ latch > 0
    /\ Goto(Ws, "cleanup")
    /\ IF TimeoutIsNews
       THEN /\ m_state' = "FAILED"
            /\ mConnection' = FALSE
            /\ sent' = IF mConnection THEN [sent EXCEPT !.CLOSE = 1] ELSE sent
            /\ calls' = [calls EXCEPT !.failure = @ + 1]
       ELSE UNCHANGED <<m_state, mConnection, sent, calls>>
    /\ UNCHANGED <<latch, ret, link, gds, tls_files, alive, fault>>

RemoveKeyFiles ==
    /\ At(Ws, "cleanup")
    /\ tls_files' = FALSE
    /\ Goto(Ws, "done")
    /\ UNCHANGED <<m_state, mConnection, latch, ret, sent, link, gds, calls,
                   alive, fault>>

\* The detached thread runs on in a client that no longer exists.
UseAfterDestroy ==
    /\ fault = "none" /\ ~alive
    /\ pc[Ws] \notin {"unborn", "done"}
    /\ Die("freed")

-----------------------------------------------------------------------------
UserCalls(u) == start(u) \/ send(u) \/ CallClose(u) \/ CallDestroy(u)
UserSteps(u) == close(u) \/ SendFrame(u) \/ FreeMembers(u)
Peer == m_on_open \/ (\E a \in {"accepted", "declined"} : ReplyReceived(a))
        \/ DataReceived \/ m_on_close \/ m_on_error
WsSteps ==
    \/ close(Ws) \/ SendFrame(Ws)
    \/ RunThread \/ OpenConnection \/ OpenLoggingIn \/ login
    \/ LoginAccepted \/ LoginDeclined
    \/ (\E k \in Callbacks : Notify(k))
    \/ CallbackReturns \/ CallbackSends \/ CallbackCloses
    \/ LoopEnds \/ AwaitReturns \/ AwaitTimesOut \/ RemoveKeyFiles
    \/ UseAfterDestroy

Next == (\E u \in Users : UserCalls(u) \/ UserSteps(u)) \/ Peer \/ WsSteps

Spec == Init /\ [][Next]_vars

\* Every thread runs to the end of what it began; m_timeout elapses.
ThreadFairness == WF_vars(WsSteps) /\ \A u \in Users : WF_vars(UserSteps(u))
FairSpec == Spec /\ ThreadFairness

\* The network also ends every attempt to open; the GDS owes nothing.
SilentGdsSpec == FairSpec /\ WF_vars(m_on_open \/ m_on_error)

\* In addition the peer or the network always comes up with something: an
\* opening ends, an open login is answered or dropped, a close is answered.
PeerFairness ==
    /\ WF_vars(m_on_open \/ m_on_error)
    /\ WF_vars(gds = "silent" /\ ((\E a \in {"accepted", "declined"} :
                            ReplyReceived(a)) \/ m_on_close \/ m_on_error))
    /\ WF_vars(sent.CLOSE > 0 /\ (m_on_close \/ m_on_error))
LiveSpec == FairSpec /\ PeerFairness

-----------------------------------------------------------------------------
(* Properties that hold however the client is used.                        *)

TypeOK ==
    /\ m_state \in States
    /\ mConnection \in BOOLEAN
    /\ latch \in 0..1
    /\ pc \in [Threads -> UserPcs \cup WsPcs]
    /\ \A u \in Users : pc[u] \in UserPcs
    /\ pc[Ws] \in WsPcs
    /\ ret \in [Threads -> {"idle", "destroy", "loop", "failure"}]
    /\ \A u \in Users : ret[u] \in {"idle", "destroy"}
    /\ ret[Ws] \in {"loop", "failure"}
    /\ link \in {"none", "opening", "open", "down"}
    /\ gds \in {"silent", "accepted", "declined"}
    /\ sent \in [Frames -> Nat]
    /\ calls \in [Callbacks -> Nat]
    /\ tls_files \in BOOLEAN
    /\ alive \in BOOLEAN
    /\ fault \in Faults

\* send() refuses until the login is done (gds_clients.hpp 351): no
\* application frame is handed to the connection, nor about to be, unless the
\* GDS has accepted the login.
NoUnauthenticatedTraffic ==
    sent.MSG > 0 \/ (\E t \in Threads : pc[t] = "send_frame")
        => gds = "accepted"

\* The thread reaches its await only when the io loop is over, so a latch that
\* is still up there means that the peer closed before it answered the login:
\* the state is DISCONNECTED and the timeout report of lines 149-156 is
\* unreachable, whatever the application does meanwhile.
AwaitFindsDisconnected ==
    pc[Ws] = "await" /\ latch > 0 => m_state = "DISCONNECTED"

\* The listener hears success at most once, and of the end of the session once:
\* a declined login, whose connection then closes or breaks, is the one case
\* that is reported twice.
OneVerdict ==
    /\ calls.success <= 1
    /\ calls.success > 0 => gds = "accepted"
    /\ calls.failure + calls.disconnect <= IF gds = "declined" THEN 2 ELSE 1

\* No listener hears success, or gets a message, after the session has ended
\* for it, and no message comes before success.
SuccessFirst ==
    [][/\ calls'.success > calls.success =>
            calls.failure + calls.disconnect + calls.data = 0
       /\ calls'.data > calls.data =>
            calls.success = 1 /\ calls.failure + calls.disconnect = 0]_vars

\* Seen from the listener, from the GDS and from the callers of send(), the
\* client is a session as GdsSession describes it.
LoginDone == gds = "accepted" /\ pc[Ws] # "reply" /\ fault # "state_error"
Session == INSTANCE GdsSession
    WITH login <- gds, frames <- sent.MSG,
         logged_in <- IF m_state = "LOGGED_IN" THEN "yes"
                      ELSE IF LoginDone THEN "no_more" ELSE "not_yet"
ImplementsSession == Session!Spec

-----------------------------------------------------------------------------
(* Properties of applications that wait for an outcome before they close.  *)

\* Opening and logging in never find the state changed under them: no
\* state_error escapes on the WebSocket thread.
NoStateError == fault # "state_error"

\* FAILED and DISCONNECTED are final: a session that ended is never logged in
\* again, so send() refuses from then on.
FinalStates == {"DISCONNECTED", "FAILED"}
FinalStateStable ==
    [][(m_state \in FinalStates) => (m_state' \in FinalStates)]_vars

(* Of those with a single thread, over a link that does not break.         *)

\* Testing and using mConnection without a lock is harmless: a close, a send
\* or a login never dereferences a connection the other side has reset.
NoNullDeref == fault # "null"

\* A client that is logged in has a connection to send on: the check of send()
\* is enough for the dereference that follows it.
LoggedInHasConnection == m_state = "LOGGED_IN" => mConnection

-----------------------------------------------------------------------------
(* Liveness.                                                               *)

\* A started session is reported to its listener.
StartReported == pc[Ws] = "spawned" ~> Notified

\* Once the client has sent its close frame the thread comes to its end and
\* the temporary key files are removed, unless the process died before.
KeyFilesRemoved == sent.CLOSE > 0 ~> ~tls_files \/ fault # "none"
=============================================================================
