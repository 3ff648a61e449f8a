-------------------------- MODULE BoundedSemaphore --------------------------
(* What semaphore.hpp promises: permits that are posted one by one, never  *)
(* above LIMIT, and taken one by one, each exactly once.                   *)
EXTENDS Naturals

CONSTANT LIMIT

VARIABLES permits, taken

Init == permits = 0 /\ taken = 0

Post ==
    /\ permits < LIMIT
    /\ permits' = permits + 1
    /\ UNCHANGED taken

Take ==
    /\ permits > 0
    /\ permits' = permits - 1
    /\ taken' = taken + 1

Next == Post \/ Take

Spec == Init /\ [][Next]_<<permits, taken>>
=============================================================================
