----------------------------- MODULE Semaphore -----------------------------
(***************************************************************************)
(* Semaphore<LIMIT> of semaphore.hpp.  post() compares the counter with    *)
(* the limit before it takes the mutex, increments under the mutex and     *)
(* notifies after releasing it; wait() and wait_for() hold the mutex       *)
(* except while they sleep on the condition variable.  A step here is what *)
(* a thread does between two points where another one can come in: the     *)
(* comparison loads its two atomics one after the other, in either order,  *)
(* and other threads post, take and set the limit in between.              *)
(***************************************************************************)
EXTENDS Integers, FiniteSets

CONSTANTS
    Posters,    \* threads that call post
    Waiters,    \* threads that call wait and wait_for
    LIMIT,      \* the highest limit it has; 1 for a BinarySemaphore
    Limits,     \* the limits set_limit is given; {} for a BinarySemaphore
    MaxPosts    \* bound: permits after which no call of post begins

ASSUME LimitAssumption == LIMIT \in Nat /\ LIMIT > 0 /\ Limits \subseteq 0..LIMIT
ASSUME ThreadAssumption == IsFiniteSet(Posters) /\ Posters \cap Waiters = {}
ASSUME BoundAssumption == MaxPosts \in Nat

VARIABLES
    mCounter,   \* permits
    mLimit,     \* the limit in force, an atomic no mutex guards
    pc,         \* where each thread is
    loaded,     \* of a poster that compares: what it has loaded so far
    timed,      \* waiters whose call is a wait_for
    posted,     \* permits added so far
    taken,      \* calls of wait and wait_for that returned with a permit
    inherited   \* history: the permits there were when mLimit was set

vars == <<mCounter, mLimit, pc, loaded, timed, posted, taken, inherited>>

Threads == Posters \cup Waiters
Asleep(w) == pc[w] = "asleep"

TypeOK ==
    /\ mCounter \in Nat
    /\ mLimit \in 0..LIMIT
    /\ pc \in [Threads -> {"idle", "have_counter", "have_limit", "locking",
                           "notifying", "asleep", "awake"}]
    /\ \A p \in Posters : pc[p] \notin {"asleep", "awake"}
    /\ \A w \in Waiters : pc[w] \in {"idle", "asleep", "awake"}
    /\ loaded \in [Posters -> Nat]
    /\ \A p \in Posters : pc[p] = "have_limit" => loaded[p] <= LIMIT
    /\ timed \subseteq Waiters
    /\ posted \in Nat
    /\ taken \in Nat
    /\ inherited \in Nat

Init ==
    /\ mCounter = 0
    /\ mLimit \in {LIMIT} \cup Limits
    /\ pc = [t \in Threads |-> "idle"]
    /\ loaded = [p \in Posters |-> 0]
    /\ timed = {}
    /\ posted = 0
    /\ taken = 0
    /\ inherited = 0

Goto(t, l) == pc' = [pc EXCEPT ![t] = l]

\* The comparison of post(): what was loaded first against the other one now.
MutantBelowLimit(p) ==
    IF pc[p] = "have_counter" THEN loaded[p] <= mLimit ELSE mCounter <= loaded[p]
MutantFixedLimit(p) ==
    IF pc[p] = "have_counter" THEN loaded[p] < LIMIT ELSE mCounter < LIMIT
BelowLimit(p) ==
    IF pc[p] = "have_counter" THEN loaded[p] < mLimit ELSE mCounter < loaded[p]

\* post(): the unlocked comparison loads the counter or the limit, whichever
\* the compiler puts first ...
PostLoads(p) ==
    /\ pc[p] = "idle" /\ posted < MaxPosts
    /\ \/ loaded' = [loaded EXCEPT ![p] = mCounter] /\ Goto(p, "have_counter")
       \/ loaded' = [loaded EXCEPT ![p] = mLimit] /\ Goto(p, "have_limit")
    /\ UNCHANGED <<mCounter, mLimit, timed, posted, taken, inherited>>

\* ... then the other one: at the limit post returns false ...
PostCompares(p) ==
    /\ pc[p] \in {"have_counter", "have_limit"}
    /\ Goto(p, IF BelowLimit(p) THEN "locking" ELSE "idle")
    /\ loaded' = [loaded EXCEPT ![p] = 0]
    /\ UNCHANGED <<mCounter, mLimit, timed, posted, taken, inherited>>

\* ... ++mCounter in the scope of the lock_guard ...
PostIncrements(p) ==
    /\ pc[p] = "locking"
    /\ mCounter' = mCounter + 1
    /\ posted' = posted + 1
    /\ Goto(p, "notifying")
    /\ UNCHANGED <<mLimit, loaded, timed, taken, inherited>>

MutantForgets(p) ==
    /\ pc[p] = "notifying"
    /\ Goto(p, "idle")
    /\ UNCHANGED <<mCounter, mLimit, loaded, timed, posted, taken, inherited>>

\* ... and notify_all once it is released.
PostNotifies(p) ==
    /\ pc[p] = "notifying"
    /\ pc' = [t \in Threads |->
                IF t = p THEN "idle" ELSE IF Asleep(t) THEN "awake" ELSE pc[t]]
    /\ UNCHANGED <<mCounter, mLimit, loaded, timed, posted, taken, inherited>>

\* wait() or wait_for() with the mutex held: take a permit, or sleep.
TakeOrSleep(w) ==
    \/ /\ mCounter > 0
       /\ mCounter' = mCounter - 1
       /\ taken' = taken + 1
       /\ Goto(w, "idle")
       /\ UNCHANGED <<mLimit, loaded, posted, inherited>>
    \/ /\ mCounter = 0
       /\ Goto(w, "asleep")
       /\ UNCHANGED <<mCounter, mLimit, loaded, posted, taken, inherited>>

wait(w) ==
    /\ pc[w] = "idle"
    /\ TakeOrSleep(w)
    /\ UNCHANGED timed

wait_for(w) ==
    /\ pc[w] = "idle"
    /\ TakeOrSleep(w)
    /\ timed' = IF mCounter > 0 THEN timed ELSE timed \cup {w}

\* The condition variable wakes a sleeper for no reason, as it may.
Spurious(w) ==
    /\ Asleep(w)
    /\ Goto(w, "awake")
    /\ UNCHANGED <<mCounter, mLimit, loaded, timed, posted, taken, inherited>>

\* The predicate of the wait, re-evaluated under the mutex.
Wakes(w) ==
    /\ pc[w] = "awake"
    /\ TakeOrSleep(w)
    /\ timed' = IF mCounter > 0 THEN timed \ {w} ELSE timed

MutantTimesOut(w) ==
    /\ pc[w] \in {"asleep", "awake"} /\ w \in timed
    /\ Goto(w, "idle")
    /\ timed' = timed \ {w}
    /\ mCounter' = mCounter - 1
    /\ UNCHANGED <<mLimit, loaded, posted, taken, inherited>>

\* The duration of a wait_for is over: wait_for evaluates the predicate a
\* last time, so a permit that is there is taken and true returned.
TimesOut(w) ==
    /\ pc[w] \in {"asleep", "awake"} /\ w \in timed
    /\ Goto(w, "idle")
    /\ timed' = timed \ {w}
    /\ mCounter' = IF mCounter > 0 THEN mCounter - 1 ELSE 0
    /\ taken' = IF mCounter > 0 THEN taken + 1 ELSE taken
    /\ UNCHANGED <<mLimit, loaded, posted, inherited>>

\* set_limit() of a DynamicSemaphore: permits above the new limit stay.
set_limit(limit) ==
    /\ mLimit' = limit
    /\ inherited' = mCounter
    /\ UNCHANGED <<mCounter, pc, loaded, timed, posted, taken>>

Posting(p) == PostCompares(p) \/ PostIncrements(p) \/ PostNotifies(p)

Next ==
    \/ \E p \in Posters : PostLoads(p) \/ Posting(p)
    \/ \E w \in Waiters : wait(w) \/ wait_for(w) \/ Spurious(w) \/ Wakes(w)
                          \/ TimesOut(w)
    \/ \E limit \in Limits : set_limit(limit)

Spec == Init /\ [][Next]_vars

\* A call of post that began ends, and a thread that was woken runs.
FairSpec == /\ Spec
            /\ \A p \in Posters : WF_vars(Posting(p))
            /\ \A w \in Waiters : WF_vars(Wakes(w))

-----------------------------------------------------------------------------
Locking == {p \in Posters : pc[p] = "locking"}

\* The unlocked comparison lets posters that passed it together overshoot, but
\* by no more than one permit each: a single poster keeps the limit.
OvershootBounded ==
    mCounter + Cardinality(Locking) <= LIMIT - 1 + Cardinality(Posters)

\* The same for a limit that set_limit() changes, with comparisons half made and
\* posts on their way: permits above the new limit are those that were there
\* then, and one for each poster.
Top == IF inherited < mLimit THEN mLimit - 1 ELSE inherited
LoweredLimitHolds ==
    mCounter + Cardinality(Locking) <= Top + Cardinality(Posters)

\* Permits are neither lost nor made up, whatever wakes, sleeps or times out.
Conservation == posted = mCounter + taken

\* No wake-up is lost although notify_all comes after the unlock: while a
\* thread sleeps and a permit is there, some poster is still to notify.
NoLostWakeup ==
    mCounter > 0 /\ (\E w \in Waiters : Asleep(w))
        => \E p \in Posters : pc[p] = "notifying"

\* A sleeper gets a permit that is posted while it sleeps, and its call
\* returns, unless others have taken them all before it runs.
SleeperServed ==
    \A w \in Waiters : Asleep(w) /\ mCounter > 0 ~> pc[w] = "idle" \/ mCounter = 0

\* post, wait and wait_for are atomic, but for a limit that is one higher for
\* every poster beyond the first: with one, as the semaphores of the console
\* client have at a time, "if the semaphore counter would exceed the limit then
\* false is returned" (semaphore.hpp 44) holds to the letter.
Ceiling == LIMIT - 1 + Cardinality(Posters)
Abstract == INSTANCE BoundedSemaphore WITH permits <- mCounter, LIMIT <- Ceiling
ImplementsBounded == Abstract!Spec
=============================================================================
