-------------------------- MODULE SemaphoreProofs --------------------------
(* The semaphore for any number of posters and waiters and any limit.      *)
EXTENDS Semaphore, FiniteSetTheorems, TLAPS

\* The variables keep their types.
THEOREM Typing == Spec => []TypeOK
<1> USE LimitAssumption, ThreadAssumption DEF TypeOK, Threads
<1>1. Init => TypeOK
  BY DEF Init
<1>2. ASSUME TypeOK, [Next]_vars PROVE TypeOK'
  <2> USE <1>2 DEF Goto, TakeOrSleep, Asleep
  <2>0. ASSUME NEW p \in Posters, PostLoads(p) PROVE TypeOK'
    BY <2>0 DEF PostLoads
  <2>1. ASSUME NEW p \in Posters, PostCompares(p) PROVE TypeOK'
    BY <2>1 DEF PostCompares
  <2>2. ASSUME NEW p \in Posters, PostIncrements(p) PROVE TypeOK'
    BY <2>2 DEF PostIncrements
  <2>3. ASSUME NEW p \in Posters, PostNotifies(p) PROVE TypeOK'
    BY <2>3 DEF PostNotifies
  <2>4. ASSUME NEW w \in Waiters, wait(w) PROVE TypeOK'
    BY <2>4 DEF wait
  <2>5. ASSUME NEW w \in Waiters, wait_for(w) PROVE TypeOK'
    BY <2>5 DEF wait_for
  <2>6. ASSUME NEW w \in Waiters, Spurious(w) PROVE TypeOK'
    BY <2>6 DEF Spurious
  <2>7. ASSUME NEW w \in Waiters, Wakes(w) PROVE TypeOK'
    BY <2>7 DEF Wakes
  <2>8. ASSUME NEW w \in Waiters, TimesOut(w) PROVE TypeOK'
    BY <2>8 DEF TimesOut
  <2>9. ASSUME NEW l \in Limits, set_limit(l) PROVE TypeOK'
    BY <2>9 DEF set_limit
  <2>10. CASE UNCHANGED vars
    BY <2>10 DEF vars
  <2>11. QED
    BY <2>0, <2>1, <2>2, <2>3, <2>4, <2>5, <2>6, <2>7, <2>8, <2>9, <2>10, Zenon
       DEF Next, Posting
<1>3. QED
  BY <1>1, <1>2, PTL DEF Spec

\* No permit is lost or made up.
THEOREM PermitsConserved == Spec => []Conservation
<1>1. Init => Conservation
  BY DEF Init, Conservation
<1>2. ASSUME TypeOK, Conservation, [Next]_vars PROVE Conservation'
  BY <1>2 DEF TypeOK, Conservation, Next, vars, PostLoads, Posting,
     PostCompares, PostIncrements, PostNotifies, wait, wait_for, Spurious, Wakes, TimesOut,
     TakeOrSleep, set_limit
<1>3. QED
  BY <1>1, <1>2, Typing, PTL DEF Spec

\* A sleeper that could run is always about to be notified.
THEOREM WakeupsKept == Spec => []NoLostWakeup
<1>1. Init => NoLostWakeup
  BY DEF Init, NoLostWakeup
<1>2. ASSUME TypeOK, NoLostWakeup, [Next]_vars PROVE NoLostWakeup'
  <2> USE <1>2, ThreadAssumption
          DEF TypeOK, Threads, NoLostWakeup, Goto, TakeOrSleep, Asleep
  <2>0. ASSUME NEW p \in Posters, PostLoads(p) PROVE NoLostWakeup'
    BY <2>0 DEF PostLoads
  <2>1. ASSUME NEW p \in Posters, PostCompares(p) PROVE NoLostWakeup'
    BY <2>1 DEF PostCompares
  <2>2. ASSUME NEW p \in Posters, PostIncrements(p) PROVE NoLostWakeup'
    BY <2>2 DEF PostIncrements
  <2>3. ASSUME NEW p \in Posters, PostNotifies(p) PROVE NoLostWakeup'
    BY <2>3 DEF PostNotifies
  <2>4. ASSUME NEW w \in Waiters, wait(w) PROVE NoLostWakeup'
    BY <2>4 DEF wait
  <2>5. ASSUME NEW w \in Waiters, wait_for(w) PROVE NoLostWakeup'
    BY <2>5 DEF wait_for
  <2>6. ASSUME NEW w \in Waiters, Spurious(w) PROVE NoLostWakeup'
    BY <2>6 DEF Spurious
  <2>7. ASSUME NEW w \in Waiters, Wakes(w) PROVE NoLostWakeup'
    BY <2>7 DEF Wakes
  <2>8. ASSUME NEW w \in Waiters, TimesOut(w) PROVE NoLostWakeup'
    BY <2>8 DEF TimesOut
  <2>9. ASSUME NEW l \in Limits, set_limit(l) PROVE NoLostWakeup'
    BY <2>9 DEF set_limit
  <2>10. CASE UNCHANGED vars
    BY <2>10 DEF vars
  <2>11. QED
    BY <2>0, <2>1, <2>2, <2>3, <2>4, <2>5, <2>6, <2>7, <2>8, <2>9, <2>10, Zenon
       DEF Next, Posting
<1>3. QED
  BY <1>1, <1>2, Typing, PTL DEF Spec

\* Sets of posters are finite, and ordered by their sizes as by inclusion.
LEMMA PostersCounted ==
    ASSUME NEW A \in SUBSET Posters
    PROVE  /\ IsFiniteSet(A)
           /\ Cardinality(A) \in Nat /\ Cardinality(Posters) \in Nat
           /\ Cardinality(A) <= Cardinality(Posters)
           /\ \A B \in SUBSET A : Cardinality(B) \in Nat
                                  /\ Cardinality(B) <= Cardinality(A)
<1>1. IsFiniteSet(A)
  BY ThreadAssumption, FS_Subset
<1>2. \A B \in SUBSET A : IsFiniteSet(B) /\ Cardinality(B) <= Cardinality(A)
  BY <1>1, FS_Subset
<1>3. Cardinality(A) <= Cardinality(Posters)
  BY ThreadAssumption, FS_Subset
<1> QED
  BY <1>1, <1>2, <1>3, ThreadAssumption, FS_CardinalityType

\* The counter (c, then d) with the posters that may still add to it (A, then
\* B) stays within a bound and one for each poster: when the counter itself is
\* within the bound, when neither grows, and when a poster on its way arrives.
LEMMA BoundKept ==
    ASSUME NEW A \in SUBSET Posters, NEW B \in SUBSET Posters,
           NEW c \in Nat, NEW d \in Nat, NEW bound \in Nat,
           \/ d <= bound
           \/ /\ c + Cardinality(A) <= bound + Cardinality(Posters)
              /\ \/ d <= c /\ B \subseteq A
                 \/ d = c + 1 /\ \E p \in A : B = A \ {p}
    PROVE  d + Cardinality(B) <= bound + Cardinality(Posters)
<1> USE PostersCounted
<1>1. CASE d <= bound
  BY <1>1
<1>2. CASE /\ c + Cardinality(A) <= bound + Cardinality(Posters)
           /\ d <= c /\ B \subseteq A
  <2>1. Cardinality(B) <= Cardinality(A)
    BY <1>2
  <2>2. QED
    BY <1>2, <2>1
<1>3. ASSUME c + Cardinality(A) <= bound + Cardinality(Posters), d = c + 1,
             NEW p \in A, B = A \ {p}
      PROVE  d + Cardinality(B) <= bound + Cardinality(Posters)
  <2>1. Cardinality(B) = Cardinality(A) - 1
    BY <1>3, FS_RemoveElement
  <2>2. QED
    BY <1>3, <2>1
<1> QED
  BY <1>1, <1>2, <1>3

\* Steps that take, sleep, wake or notify leave the posters that compare or
\* lock as they are, and post nothing.
LEMMA OtherSteps ==
    ASSUME TypeOK,
           \/ \E p \in Posters : PostNotifies(p)
           \/ \E w \in Waiters : wait(w) \/ wait_for(w) \/ Spurious(w)
                                 \/ Wakes(w) \/ TimesOut(w)
           \/ UNCHANGED vars
    PROVE  /\ mCounter' <= mCounter
           /\ UNCHANGED <<mLimit, loaded, inherited>>
           /\ \A p \in Posters :
                 pc'[p] = pc[p] \/ (pc[p] = "notifying" /\ pc'[p] = "idle")
<1> USE ThreadAssumption DEF TypeOK, Threads, Goto, TakeOrSleep, Asleep
<1>1. ASSUME NEW p \in Posters, PostNotifies(p)
      PROVE  /\ mCounter' <= mCounter
             /\ UNCHANGED <<mLimit, loaded, inherited>>
             /\ \A q \in Posters :
                   pc'[q] = pc[q] \/ (pc[q] = "notifying" /\ pc'[q] = "idle")
  BY <1>1 DEF PostNotifies
<1>2. ASSUME NEW w \in Waiters,
             wait(w) \/ wait_for(w) \/ Spurious(w) \/ Wakes(w) \/ TimesOut(w)
      PROVE  /\ mCounter' <= mCounter
             /\ UNCHANGED <<mLimit, loaded, inherited>>
             /\ \A q \in Posters : pc'[q] = pc[q]
  BY <1>2 DEF wait, wait_for, Spurious, Wakes, TimesOut
<1>3. CASE UNCHANGED vars
  BY <1>3 DEF vars
<1> QED
  BY <1>1, <1>2, <1>3

\* The posters that may still add a permit under the highest limit.
Pending == {p \in Posters : \/ pc[p] = "locking"
                            \/ pc[p] = "have_counter" /\ loaded[p] < LIMIT}
PendingBounded == mCounter + Cardinality(Pending) <= LIMIT - 1 + Cardinality(Posters)

\* A comparison that can succeed has loaded a counter below the limit, or finds
\* it so: posters overshoot by no more than one permit each but one.
THEOREM Overshoot == Spec => []OvershootBounded
<1> USE LimitAssumption
<1>0. /\ Pending \in SUBSET Posters /\ Pending' \in SUBSET Posters
      /\ Locking \in SUBSET Pending /\ LIMIT - 1 \in Nat
  BY DEF Pending, Locking
<1>1. Init => PendingBounded
  <2> SUFFICES ASSUME Init PROVE PendingBounded
    OBVIOUS
  <2>1. mCounter = 0
    BY DEF Init
  <2>2. QED
    BY <1>0, <2>1, PostersCounted DEF PendingBounded
<1>2. ASSUME TypeOK, TypeOK', PendingBounded, [Next]_vars PROVE PendingBounded'
  <2> DEFINE Kept == \/ mCounter' <= LIMIT - 1
                     \/ mCounter' <= mCounter /\ Pending' \subseteq Pending
                     \/ /\ mCounter' = mCounter + 1
                        /\ \E p \in Pending : Pending' = Pending \ {p}
  <2> mCounter \in Nat /\ mCounter' \in Nat
    BY <1>2 DEF TypeOK
  <2> USE <1>2, ThreadAssumption DEF TypeOK, Threads, Pending, Goto
  <2>1. ASSUME NEW p \in Posters, PostLoads(p) PROVE Kept
    BY <2>1 DEF PostLoads
  <2>2. ASSUME NEW p \in Posters, PostCompares(p) PROVE Kept
    BY <2>2 DEF PostCompares, BelowLimit
  <2>3. ASSUME NEW p \in Posters, PostIncrements(p) PROVE Kept
    <3>1. Pending' = Pending \ {p} /\ p \in Pending
      BY <2>3 DEF PostIncrements
    <3>2. QED
      BY <2>3, <3>1 DEF PostIncrements
  <2>4. ASSUME NEW l \in Limits, set_limit(l) PROVE Kept
    BY <2>4 DEF set_limit
  <2>5. ASSUME \/ \E p \in Posters : PostNotifies(p)
               \/ \E w \in Waiters : wait(w) \/ wait_for(w) \/ Spurious(w)
                                     \/ Wakes(w) \/ TimesOut(w)
               \/ UNCHANGED vars
        PROVE  Kept
    BY <2>5, OtherSteps
  <2> HIDE DEF Kept
  <2>6. Kept
    BY <1>2, <2>1, <2>2, <2>3, <2>4, <2>5, Zenon DEF Next, Posting
  <2>7. QED
    BY <1>0, <1>2, <2>6, BoundKept DEF Kept, PendingBounded
<1>3. PendingBounded /\ TypeOK => OvershootBounded
  BY <1>0, PostersCounted DEF PendingBounded, OvershootBounded, TypeOK
<1>4. QED
  BY <1>1, <1>2, <1>3, Typing, PTL DEF Spec

\* The posters that may still add a permit under the limit in force: those that
\* have loaded a counter below it, or a limit above it.
MayAdd == {p \in Posters : \/ pc[p] = "locking"
                           \/ pc[p] = "have_counter" /\ loaded[p] < mLimit
                           \/ pc[p] = "have_limit" /\ loaded[p] > mLimit}
MayAddBounded == mCounter + Cardinality(MayAdd) <= Top + Cardinality(Posters)

\* Whatever limits are set, and whenever: above the limit in force there are no
\* more permits than there were when it was set, and one for each poster.
THEOREM LoweredLimit == Spec => []LoweredLimitHolds
<1> USE LimitAssumption
<1>0. /\ MayAdd \in SUBSET Posters /\ MayAdd' \in SUBSET Posters
      /\ Locking \in SUBSET MayAdd
      /\ TypeOK => Top \in Nat /\ mCounter \in Nat
  BY DEF MayAdd, Locking, Top, TypeOK
<1>1. Init => MayAddBounded
  <2> SUFFICES ASSUME Init PROVE MayAddBounded
    OBVIOUS
  <2>1. mCounter = 0 /\ Top \in Nat
    BY DEF Init, Top
  <2>2. QED
    BY <1>0, <2>1, PostersCounted DEF MayAddBounded
<1>2. ASSUME TypeOK, TypeOK', MayAddBounded, [Next]_vars PROVE MayAddBounded'
  <2> DEFINE Kept == \/ mCounter' <= Top'
                     \/ /\ Top' = Top
                        /\ \/ mCounter' <= mCounter /\ MayAdd' \subseteq MayAdd
                           \/ /\ mCounter' = mCounter + 1
                              /\ \E p \in MayAdd : MayAdd' = MayAdd \ {p}
  <2> /\ mCounter \in Nat /\ mLimit \in Nat /\ inherited \in Nat
      /\ mCounter' \in Nat /\ mLimit' \in Nat /\ inherited' \in Nat
    BY <1>2 DEF TypeOK
  <2>a. Top \in Nat /\ Top' \in Nat
    <3>1. \A x, y \in Nat : (IF x < y THEN y - 1 ELSE x) \in Nat
      OBVIOUS
    <3>2. QED
      BY <3>1, Zenon DEF Top
  <2> USE <1>2, ThreadAssumption DEF TypeOK, Threads, MayAdd, Top, Goto
  <2>1. ASSUME NEW p \in Posters, PostLoads(p) PROVE Kept
    BY <2>1 DEF PostLoads
  <2>2. ASSUME NEW p \in Posters, PostCompares(p) PROVE Kept
    BY <2>2 DEF PostCompares, BelowLimit
  <2>3. ASSUME NEW p \in Posters, PostIncrements(p) PROVE Kept
    <3>1. MayAdd' = MayAdd \ {p} /\ p \in MayAdd
      BY <2>3 DEF PostIncrements
    <3>2. QED
      BY <2>3, <3>1 DEF PostIncrements
  <2>4. ASSUME NEW l \in Limits, set_limit(l) PROVE Kept
    BY <2>4 DEF set_limit
  <2>5. ASSUME \/ \E p \in Posters : PostNotifies(p)
               \/ \E w \in Waiters : wait(w) \/ wait_for(w) \/ Spurious(w)
                                     \/ Wakes(w) \/ TimesOut(w)
               \/ UNCHANGED vars
        PROVE  Kept
    BY <2>5, OtherSteps
  <2> HIDE DEF Kept
  <2>6. Kept
    BY <1>2, <2>1, <2>2, <2>3, <2>4, <2>5, Zenon DEF Next, Posting
  <2>7. QED
    BY <1>0, <1>2, <2>a, <2>6, BoundKept DEF Kept, MayAddBounded
<1>3. MayAddBounded /\ TypeOK => LoweredLimitHolds
  BY <1>0, PostersCounted DEF MayAddBounded, LoweredLimitHolds
<1>4. QED
  BY <1>1, <1>2, <1>3, Typing, PTL DEF Spec

\* The semaphore implements the abstract one: the increment and the decrements
\* are its steps, every other step a stutter.
THEOREM Refinement == Spec => ImplementsBounded
<1> USE LimitAssumption DEF TypeOK
<1>1. Init => Abstract!Init
  BY DEF Init, Abstract!Init
<1>2. ASSUME TypeOK, OvershootBounded, [Next]_vars
      PROVE  [Abstract!Next]_<<mCounter, taken>>
  <2> USE <1>2 DEF Abstract!Next, Abstract!Post, Abstract!Take
  <2>1. ASSUME NEW p \in Posters, PostIncrements(p) PROVE Abstract!Post
    <3>1. p \in Locking
      BY <2>1 DEF PostIncrements, Locking
    <3>2. IsFiniteSet(Locking) /\ Cardinality(Locking) \in Nat
      BY PostersCounted DEF Locking
    <3>3. Cardinality(Locking) # 0 /\ Cardinality(Posters) \in Nat
      BY <3>1, <3>2, FS_EmptySet, PostersCounted
    <3>4. mCounter < Ceiling
      BY <3>2, <3>3 DEF OvershootBounded, Ceiling
    <3>5. QED
      BY <2>1, <3>4 DEF PostIncrements
  <2>2. ASSUME NEW p \in Posters,
               PostLoads(p) \/ PostCompares(p) \/ PostNotifies(p)
        PROVE  UNCHANGED <<mCounter, taken>>
    BY <2>2 DEF PostLoads, PostCompares, PostNotifies
  <2>3. ASSUME NEW w \in Waiters, wait(w) \/ wait_for(w) \/ Wakes(w)
        PROVE  Abstract!Take \/ UNCHANGED <<mCounter, taken>>
    BY <2>3 DEF wait, wait_for, Wakes, TakeOrSleep
  <2>4. ASSUME NEW w \in Waiters, Spurious(w)
        PROVE  UNCHANGED <<mCounter, taken>>
    BY <2>4 DEF Spurious
  <2>5. ASSUME NEW w \in Waiters, TimesOut(w)
        PROVE  Abstract!Take \/ UNCHANGED <<mCounter, taken>>
    BY <2>5 DEF TimesOut
  <2>6. ASSUME NEW l \in Limits, set_limit(l)
        PROVE  UNCHANGED <<mCounter, taken>>
    BY <2>6 DEF set_limit
  <2>7. CASE UNCHANGED vars
    BY <2>7 DEF vars
  <2>8. QED
    BY <2>1, <2>2, <2>3, <2>4, <2>5, <2>6, <2>7 DEF Next, Posting
<1>3. QED
  BY <1>1, <1>2, Typing, Overshoot, PTL DEF Spec, Abstract!Spec,
     ImplementsBounded
=============================================================================
