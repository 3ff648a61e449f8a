----------------------------- MODULE GdsSession -----------------------------
(***************************************************************************)
(* What a client promises: what its listener hears of a session, what its  *)
(* send() lets through, and when.  GdsClient implements it, whatever its   *)
(* threads do; ConsoleClient is composed with it.                          *)
(***************************************************************************)
EXTENDS Naturals

VARIABLES
    login,      \* how the GDS has answered the login
    logged_in,  \* send() accepts messages: "not_yet", "yes", "no_more"
    calls,      \* listener callbacks invoked, per kind
    frames      \* application messages handed to the connection

svars == <<login, logged_in, calls, frames>>

Ends == calls.failure + calls.disconnect
Hear(k) == calls' = [calls EXCEPT ![k] = @ + 1]

Init ==
    /\ login = "silent"
    /\ logged_in = "not_yet"
    /\ calls = [k \in {"success", "failure", "disconnect", "data"} |-> 0]
    /\ frames = 0

\* The GDS answers a login at most once, and none that is over.
Answer(a) ==
    /\ login = "silent" /\ Ends = 0
    /\ login' = a
    /\ UNCHANGED <<logged_in, calls, frames>>

\* send() works from just before success is heard ...
LogIn ==
    /\ login = "accepted" /\ logged_in = "not_yet" /\ Ends = 0
    /\ logged_in' = "yes"
    /\ UNCHANGED <<login, calls, frames>>

\* ... to the first close, by either side, and never again.
Drop ==
    /\ logged_in = "yes"
    /\ logged_in' = "no_more"
    /\ UNCHANGED <<login, calls, frames>>

\* A message that send() has let pass may leave a little later.
Send ==
    /\ login = "accepted"
    /\ frames' = frames + 1
    /\ UNCHANGED <<login, logged_in, calls>>

\* Success is heard once, before everything else.
Success ==
    /\ logged_in # "not_yet" /\ calls.success = 0 /\ Ends = 0
    /\ Hear("success")
    /\ UNCHANGED <<login, logged_in, frames>>

\* Messages are heard in a session that has begun and has not ended.
Data ==
    /\ calls.success = 1 /\ Ends = 0
    /\ Hear("data")
    /\ UNCHANGED <<login, logged_in, frames>>

\* The session of an accepted login ends after success; one that was declined
\* fails, and its connection then closes or fails, too.
CanEnd ==
    /\ logged_in # "yes"
    /\ login = "accepted" => calls.success = 1
    /\ Ends < IF login = "declined" THEN 2 ELSE 1

Failure == CanEnd /\ Hear("failure") /\ UNCHANGED <<login, logged_in, frames>>

Disconnect ==
    /\ CanEnd
    /\ login = "declined" => calls.failure = 1
    /\ Hear("disconnect")
    /\ UNCHANGED <<login, logged_in, frames>>

Next ==
    \/ \E a \in {"accepted", "declined"} : Answer(a)
    \/ LogIn \/ Drop \/ Send \/ Success \/ Data \/ Failure \/ Disconnect

Spec == Init /\ [][Next]_svars
=============================================================================
