------------------------- MODULE EventBrokerProofs -------------------------
(***************************************************************************)
(* What EventBroker guarantees for every number of subscriptions, pullers, *)
(* notifications and every queue limit.                                    *)
(***************************************************************************)
EXTENDS EventBroker, FiniteSetTheorems, SequenceTheorems, WellFoundedInduction, TLAPS

\* What enqueueLocked leaves in a queue, element by element: at most
\* MaxEventQueue entries, the newest last, the oldest missing.
LEMMA EnqueuedShape ==
    ASSUME NEW q \in Seq(Event), NEW e \in Event
    PROVE  /\ enqueued(q, e) \in Seq(Event)
           /\ Len(enqueued(q, e)) = IF Len(q) >= MaxEventQueue THEN MaxEventQueue
                                    ELSE Len(q) + 1
           /\ enqueued(q, e)[Len(enqueued(q, e))] = e
           /\ \A i \in 1..(Len(enqueued(q, e)) - 1) :
                 enqueued(q, e)[i] = q[Len(q) - Len(enqueued(q, e)) + 1 + i]
  <1> DEFINE kept == IF Len(q) >= MaxEventQueue
                     THEN SubSeq(q, Len(q) - MaxEventQueue + 2, Len(q)) ELSE q
  <1>1. /\ kept \in Seq(Event)
        /\ Len(kept) = IF Len(q) >= MaxEventQueue THEN MaxEventQueue - 1 ELSE Len(q)
        /\ \A i \in 1..Len(kept) : kept[i] = q[Len(q) - Len(kept) + i]
    <2>1. CASE Len(q) >= MaxEventQueue
      BY <2>1, BrokerConstants
    <2>2. CASE ~(Len(q) >= MaxEventQueue)
      BY <2>2, BrokerConstants
    <2> QED BY <2>1, <2>2
  <1>2. enqueued(q, e) = Append(kept, e)
    BY DEF enqueued
  <1> HIDE DEF kept
  <1>3. /\ Append(kept, e) \in Seq(Event)
        /\ Len(Append(kept, e)) = Len(kept) + 1
        /\ Append(kept, e)[Len(kept) + 1] = e
        /\ \A i \in 1..Len(kept) : Append(kept, e)[i] = kept[i]
    BY <1>1
  <1>4. Len(kept) + 1 = IF Len(q) >= MaxEventQueue THEN MaxEventQueue ELSE Len(q) + 1
    BY <1>1, BrokerConstants
  <1>5. \A i \in 1..Len(kept) : Append(kept, e)[i] = q[Len(q) - (Len(kept) + 1) + 1 + i]
    <2> TAKE i \in 1..Len(kept)
    <2>1. Len(q) - (Len(kept) + 1) + 1 + i = Len(q) - Len(kept) + i
      BY <1>1, BrokerConstants
    <2> QED BY <1>1, <1>3, <2>1
  <1>6. (Len(kept) + 1) - 1 = Len(kept)
    BY <1>1, BrokerConstants
  <1> QED BY <1>2, <1>3, <1>4, <1>5, <1>6

\* What a pull leaves in a queue after taking the first k notifications.
LEMMA TakenShape ==
    ASSUME NEW q \in Seq(Event), NEW k \in 1..Len(q)
    PROVE  /\ SubSeq(q, k + 1, Len(q)) \in Seq(Event)
           /\ Len(SubSeq(q, k + 1, Len(q))) = Len(q) - k
           /\ \A i \in 1..(Len(q) - k) : SubSeq(q, k + 1, Len(q))[i] = q[k + i]
  OBVIOUS
\* The first k notifications of subscription t leave its queue.
Taken(t, k) ==
    /\ queue' = [queue EXCEPT ![t] = SubSeq(queue[t], k + 1, Len(queue[t]))]
    /\ delivered' = [delivered EXCEPT ![t] = queue[t][k].n]

\* pull takes at least one notification, and all of them when its limit allows.
LEMMA PullTakeShape ==
    ASSUME TypeOK, NEW p \in Pullers, pullTake(p)
    PROVE  \E k \in 1..Len(queue[pullTok[p]]) :
              /\ Taken(pullTok[p], k)
              /\ k = Len(queue[pullTok[p]]) \/ k = pullLim[p]
  <1> DEFINE q == queue[pullTok[p]]
             k == IF pullLim[p] > Len(q) THEN Len(q) ELSE pullLim[p]
  <1>1. q \in Seq(Event) /\ q # <<>>
    BY DEF TypeOK, pullTake
  <1>2. Len(q) \in Nat \ {0}
    BY <1>1
  <1>3. pullLim[p] \in Nat \ {0}
    BY BrokerConstants DEF TypeOK
  <1>4. k \in 1..Len(q)
    BY <1>2, <1>3
  <1>5. Taken(pullTok[p], k)
    BY DEF pullTake, Taken
  <1> QED BY <1>4, <1>5
-----------------------------------------------------------------------------
\* Type correctness of the broker's state.
THEOREM TypeCorrect == Spec => []TypeOK
  <1>1. Init => TypeOK
    BY BrokerConstants DEF Init, TypeOK
  <1>2. TypeOK /\ [Next]_vars => TypeOK'
    <2> SUFFICES ASSUME TypeOK, [Next]_vars PROVE TypeOK'
      OBVIOUS
    <2> USE BrokerConstants
    <2>1. ASSUME NEW S \in SUBSET Tokens, NEW loss \in BOOLEAN,
                 NEW op \in {"Changed", "Initialized"}, enqueueAllLocked(S, loss, op)
          PROVE  /\ queue' \in [Tokens -> Seq(Event)]
                 /\ signal' \in [Tokens -> BOOLEAN]
                 /\ sent' \in [Tokens -> Nat]
      <3>1. \A t \in Tokens : Notification(t, loss, op) \in Event
        BY DEF TypeOK, Notification, Event
      <3>2. \A t \in Tokens : enqueued(queue[t], Notification(t, loss, op)) \in Seq(Event)
        BY <3>1, EnqueuedShape DEF TypeOK
      <3>3. signal' \in [Tokens -> BOOLEAN]
        BY <2>1, Zenon DEF TypeOK, enqueueAllLocked
      <3>4. queue' \in [Tokens -> Seq(Event)] /\ sent' \in [Tokens -> Nat]
        BY <2>1, <3>2 DEF TypeOK, enqueueAllLocked
      <3> QED BY <3>3, <3>4
    <2>2. CASE AdvanceClock
      BY <2>2 DEF AdvanceClock, TypeOK, runVars, subVars, pullVars
    <2>3. CASE FlipReady
      BY <2>3 DEF FlipReady, TypeOK, runVars, subVars, pullVars
    <2>4. CASE TickRead
      BY <2>4 DEF TickRead, TypeOK, clockVars, subVars, pullVars
    <2>5. CASE TickApply
      <3>1. cleanupLocked(now) \in SUBSET Tokens
        BY DEF TypeOK, cleanupLocked
      <3>2. CASE current # lastReady
        BY <2>1, <2>5, <3>1, <3>2
        DEF TickApply, TypeOK, clockVars, pullVars, cleanupLocked
      <3>3. CASE current = lastReady
        BY <2>5, <3>3 DEF TickApply, TypeOK, clockVars, pullVars, cleanupLocked
      <3> QED BY <3>2, <3>3
    <2>6. ASSUME NEW t \in Tokens, NEW ttl \in TTLs, NEW t0 \in 0..now, create(t, ttl, t0)
          PROVE  TypeOK'
      BY <2>6 DEF create, TypeOK, clockVars, runVars, pullVars, cleanupLocked
    <2>7. ASSUME NEW t0 \in 0..now, createRefused(t0) PROVE TypeOK'
      BY <2>7 DEF createRefused, TypeOK, clockVars, runVars, pullVars, cleanupLocked
    <2>8. ASSUME NEW t \in Tokens, NEW ttl \in TTLs, renew(t, ttl) PROVE TypeOK'
      BY <2>8 DEF renew, TypeOK, clockVars, runVars, pullVars, cleanupLocked
    <2>9. ASSUME NEW t \in Tokens, unsubscribe(t) PROVE TypeOK'
      BY <2>9 DEF unsubscribe, TypeOK, clockVars, runVars, pullVars
    <2>10. ASSUME NEW t \in Tokens, synchronizationPoint(t) PROVE TypeOK'
      <3>1. CASE t \in subs'
        BY <2>1, <2>10, <3>1
        DEF synchronizationPoint, TypeOK, clockVars, runVars, pullVars, cleanupLocked
      <3>2. CASE t \notin subs'
        BY <2>10, <3>2
        DEF synchronizationPoint, TypeOK, clockVars, runVars, pullVars, cleanupLocked
      <3> QED BY <3>1, <3>2
    <2>11. ASSUME NEW p \in Pullers, NEW t \in Tokens, NEW l \in Limits, pull(p, t, l)
           PROVE  TypeOK'
      BY <2>11 DEF pull, TypeOK, clockVars, runVars, subVars
    <2>12. ASSUME NEW p \in Pullers, pullLocked(p) PROVE TypeOK'
      <3>1. CASE pullTake(p)
        <4>1. PICK k \in 1..Len(queue[pullTok[p]]) : Taken(pullTok[p], k)
          BY <3>1, PullTakeShape
        <4>2. queue[pullTok[p]] \in Seq(Event) /\ pullTok[p] \in Tokens
          BY DEF TypeOK
        <4>3. /\ SubSeq(queue[pullTok[p]], k + 1, Len(queue[pullTok[p]])) \in Seq(Event)
              /\ queue[pullTok[p]][k] \in Event
          BY <4>1, <4>2, TakenShape
        <4>4. queue' \in [Tokens -> Seq(Event)] /\ delivered' \in [Tokens -> Nat]
          BY <4>1, <4>2, <4>3 DEF TypeOK, Taken, Event
        <4>5. pullPc' = [pullPc EXCEPT ![p] = "idle"]
          BY <3>1 DEF pullTake
        <4> QED BY <2>12, <4>4, <4>5
            DEF pullLocked, TypeOK, clockVars, runVars, cleanupLocked
      <3>2. CASE ~pullTake(p)
        BY <2>12, <3>2 DEF pullLocked, TypeOK, clockVars, runVars, cleanupLocked
      <3> QED BY <3>1, <3>2
    <2>13. ASSUME NEW p \in Pullers, pullSignalled(p) PROVE TypeOK'
      BY <2>13 DEF pullSignalled, TypeOK, clockVars, runVars
    <2>14. ASSUME NEW p \in Pullers, pullGivesUp(p) PROVE TypeOK'
      BY <2>14 DEF pullGivesUp, TypeOK, clockVars, runVars, subVars
    <2>15. CASE UNCHANGED vars
      BY <2>15 DEF vars, TypeOK, clockVars, runVars, subVars, pullVars
    <2> QED BY <2>2, <2>3, <2>4, <2>5, <2>6, <2>7, <2>8, <2>9, <2>10, <2>11, <2>12,
               <2>13, <2>14, <2>15 DEF Next
  <1> QED BY <1>1, <1>2, PTL DEF Spec
-----------------------------------------------------------------------------
(***************************************************************************)
(* What a step does to one subscription: nothing, one notification in, or  *)
(* a batch out.                                                            *)
(***************************************************************************)
Unaffected(t) ==
    queue'[t] = queue[t] /\ sent'[t] = sent[t] /\ delivered'[t] = delivered[t]

Enqueues(t) ==
    /\ expires[t] > now
    /\ t \in subs
    /\ delivered'[t] = delivered[t]
    /\ sent'[t] = sent[t] + 1
    /\ signal'[t] = TRUE
    /\ \E e \in Event : e.n = sent[t] + 1 /\ queue'[t] = enqueued(queue[t], e)

Takes(t) ==
    /\ expires[t] > now
    /\ sent'[t] = sent[t]
    /\ \E k \in 1..Len(queue[t]) :
          /\ queue'[t] = SubSeq(queue[t], k + 1, Len(queue[t]))
          /\ delivered'[t] = queue[t][k].n

LEMMA EnqueueAllShape ==
    ASSUME TypeOK, NEW S \in SUBSET cleanupLocked(now), NEW loss \in BOOLEAN,
           NEW op \in {"Changed", "Initialized"}, enqueueAllLocked(S, loss, op),
           UNCHANGED delivered, NEW t \in Tokens
    PROVE  (t \notin S /\ Unaffected(t)) \/ (t \in S /\ Enqueues(t))
  <1>1. Notification(t, loss, op) \in Event /\ Notification(t, loss, op).n = sent[t] + 1
    BY DEF TypeOK, Notification, Event
  <1>2. CASE t \in S
    <2>1. queue'[t] = enqueued(queue[t], Notification(t, loss, op))
      BY <1>2 DEF enqueueAllLocked
    <2>2. t \in subs /\ expires[t] > now
      BY <1>2 DEF cleanupLocked
    <2>3. signal'[t] = TRUE
      BY <1>2, Zenon DEF enqueueAllLocked
    <2>4. sent'[t] = sent[t] + 1
      BY <1>2 DEF enqueueAllLocked
    <2> QED BY <1>1, <1>2, <2>1, <2>2, <2>3, <2>4 DEF Enqueues
  <1>3. CASE t \notin S
    BY <1>3 DEF enqueueAllLocked, Unaffected
  <1> QED BY <1>2, <1>3

LEMMA StepShape ==
    ASSUME TypeOK, [Next]_vars, NEW t \in Tokens
    PROVE  Unaffected(t) \/ Enqueues(t) \/ Takes(t)
  <1> USE DEF runVars, subVars, pullVars, clockVars
  <1>1. CASE TickApply
    <2>1. CASE current # lastReady
      BY <1>1, <2>1, EnqueueAllShape DEF TickApply, TypeOK
    <2>2. CASE current = lastReady
      BY <1>1, <2>2 DEF TickApply, Unaffected
    <2> QED BY <2>1, <2>2
  <1>2. ASSUME NEW s \in Tokens, synchronizationPoint(s)
        PROVE  Unaffected(t) \/ Enqueues(t)
    <2>1. CASE s \in subs'
      BY <1>2, <2>1, EnqueueAllShape DEF synchronizationPoint, TypeOK
    <2>2. CASE s \notin subs'
      BY <1>2, <2>2 DEF synchronizationPoint, Unaffected
    <2> QED BY <2>1, <2>2
  <1>3. ASSUME NEW p \in Pullers, pullLocked(p)
        PROVE  Unaffected(t) \/ Takes(t)
    <2>1. CASE pullTake(p) /\ pullTok[p] \in subs'
      <3>1. PICK k \in 1..Len(queue[pullTok[p]]) : Taken(pullTok[p], k)
        BY <2>1, PullTakeShape
      <3>2. sent' = sent
        BY <1>3 DEF pullLocked
      <3>3. expires[pullTok[p]] > now
        BY <1>3, <2>1 DEF pullLocked, cleanupLocked
      <3>4. CASE t = pullTok[p]
        BY <3>1, <3>2, <3>3, <3>4 DEF TypeOK, Taken, Takes
      <3>5. CASE t # pullTok[p]
        BY <3>1, <3>2, <3>5 DEF TypeOK, Taken, Unaffected
      <3> QED BY <3>4, <3>5
    <2>2. CASE ~(pullTake(p) /\ pullTok[p] \in subs')
      BY <1>3, <2>2 DEF pullLocked, Unaffected
    <2> QED BY <2>1, <2>2
  <1>4. CASE UNCHANGED vars \/ AdvanceClock \/ FlipReady \/ TickRead
    BY <1>4 DEF vars, AdvanceClock, FlipReady, TickRead, Unaffected
  <1>5. CASE \/ \E s \in Tokens, ttl \in TTLs, t0 \in 0..now : create(s, ttl, t0)
             \/ \E t0 \in 0..now : createRefused(t0)
             \/ \E s \in Tokens, ttl \in TTLs : renew(s, ttl)
             \/ \E s \in Tokens : unsubscribe(s)
    BY <1>5 DEF create, createRefused, renew, unsubscribe, Unaffected
  <1>6. CASE \/ \E p \in Pullers, s \in Tokens, l \in Limits : pull(p, s, l)
             \/ \E p \in Pullers : pullSignalled(p)
             \/ \E p \in Pullers : pullGivesUp(p)
    BY <1>6 DEF pull, pullSignalled, pullGivesUp, Unaffected
  <1> QED BY <1>1, <1>2, <1>3, <1>4, <1>5, <1>6 DEF Next

\* Nothing is queued for or taken from a subscription past its termination time.
THEOREM ServedAlive == Spec => ServedOnlyWhileAlive
  <1>1. TypeOK /\ [Next]_vars =>
           [\A t \in Tokens : sent'[t] # sent[t] \/ delivered'[t] # delivered[t]
                                 => expires[t] > now]_vars
    BY StepShape DEF Unaffected, Enqueues, Takes
  <1> QED BY <1>1, TypeCorrect, PTL DEF Spec, ServedOnlyWhileAlive

-----------------------------------------------------------------------------
(***************************************************************************)
(* The window invariant.  DeliveredOnce is not inductive on its own: that  *)
(* what stays queued is newer than what a pull takes rests on the numbers  *)
(* in the queue being consecutive.                                         *)
(***************************************************************************)
WindowInv == QueueIsNewestSuffix /\ DeliveredOnce

\* For every queue limit, every number of concurrent pulls and every limit
\* they ask for: a queue is the window on the newest notifications, none is
\* handed out twice and none out of order.
THEOREM Window == Spec => [](QueueIsNewestSuffix /\ DeliveredOnce)
  <1>1. Init => WindowInv
    BY BrokerConstants DEF Init, WindowInv, QueueIsNewestSuffix, DeliveredOnce
  <1>2. TypeOK /\ TypeOK' /\ WindowInv /\ [Next]_vars => WindowInv'
    <2> SUFFICES ASSUME TypeOK, TypeOK', WindowInv, [Next]_vars, NEW t \in Tokens
                 PROVE  /\ Len(queue'[t]) <= MaxEventQueue
                        /\ \A i \in 1..Len(queue'[t]) :
                              /\ queue'[t][i].n = sent'[t] - Len(queue'[t]) + i
                              /\ queue'[t][i].n > delivered'[t]
                        /\ delivered'[t] <= sent'[t]
      BY DEF WindowInv, QueueIsNewestSuffix, DeliveredOnce
    <2>0. /\ queue[t] \in Seq(Event) /\ sent[t] \in Nat /\ delivered[t] \in Nat
          /\ Len(queue[t]) \in Nat /\ MaxEventQueue \in Nat \ {0}
      BY BrokerConstants DEF TypeOK
    <2>1. /\ Len(queue[t]) <= MaxEventQueue
          /\ \A i \in 1..Len(queue[t]) : /\ queue[t][i].n = sent[t] - Len(queue[t]) + i
                                         /\ queue[t][i].n > delivered[t]
          /\ delivered[t] <= sent[t]
      BY DEF WindowInv, QueueIsNewestSuffix, DeliveredOnce
    <2>2. CASE Unaffected(t)
      BY <2>1, <2>2 DEF Unaffected
    <2>3. CASE Enqueues(t)
      <3>1. PICK e \in Event : e.n = sent[t] + 1 /\ queue'[t] = enqueued(queue[t], e)
        BY <2>3 DEF Enqueues
      <3> DEFINE L == Len(queue[t])
                 Q == enqueued(queue[t], e)
                 M == Len(queue'[t])
      <3>1a. /\ Len(Q) = IF L >= MaxEventQueue THEN MaxEventQueue ELSE L + 1
             /\ Q[Len(Q)] = e
             /\ \A i \in 1..(Len(Q) - 1) : Q[i] = queue[t][L - Len(Q) + 1 + i]
        BY <2>0, EnqueuedShape
      <3> HIDE DEF Q
      <3>1b. queue'[t] = Q
        BY <3>1 DEF Q
      <3>2. /\ M = IF L >= MaxEventQueue THEN MaxEventQueue ELSE L + 1
            /\ queue'[t][M] = e
            /\ \A i \in 1..(M - 1) : queue'[t][i] = queue[t][L - M + 1 + i]
        BY <3>1a, <3>1b
      <3>2a. L \in Nat /\ L <= MaxEventQueue
        BY <2>0, <2>1
      <3> HIDE DEF L, M
      <3>3. M <= L + 1 /\ M \in Nat \ {0} /\ M <= MaxEventQueue
        BY <2>0, <3>2, <3>2a
      <3>4. sent'[t] = sent[t] + 1 /\ delivered'[t] = delivered[t]
        BY <2>3 DEF Enqueues
      <3>5. ASSUME NEW i \in 1..M
            PROVE  /\ queue'[t][i].n = sent[t] + 1 - M + i
                   /\ queue'[t][i].n > delivered[t]
        <4>1. CASE i = M
          <5>1. queue'[t][i].n = sent[t] + 1
            BY <3>1, <3>2, <4>1
          <5>2. sent[t] + 1 - M + i = sent[t] + 1
            BY <2>0, <3>3, <4>1
          <5> QED BY <2>0, <2>1, <5>1, <5>2
        <4>2. CASE i # M
          <5> DEFINE j == L - M + 1 + i
          <5>1. i \in 1..(M - 1) /\ j \in 1..L
            BY <2>0, <3>2a, <3>3, <4>2
          <5>2. queue'[t][i] = queue[t][j]
            BY <3>2, <5>1
          <5>3. queue[t][j].n = sent[t] - L + j /\ queue[t][j].n > delivered[t]
            BY <2>1, <5>1 DEF L
          <5>4. sent[t] - L + j = sent[t] + 1 - M + i
            BY <2>0, <3>2a, <3>3
          <5> QED BY <5>2, <5>3, <5>4
        <4> QED BY <4>1, <4>2
      <3> QED BY <2>0, <2>1, <3>3, <3>4, <3>5 DEF M
    <2>4. CASE Takes(t)
      <3>1. PICK k \in 1..Len(queue[t]) :
                    /\ queue'[t] = SubSeq(queue[t], k + 1, Len(queue[t]))
                    /\ delivered'[t] = queue[t][k].n
        BY <2>4 DEF Takes
      <3> DEFINE L == Len(queue[t])
      <3>2. /\ Len(queue'[t]) = L - k
            /\ \A i \in 1..(L - k) : queue'[t][i] = queue[t][k + i]
        BY <2>0, <3>1, TakenShape
      <3>3. sent'[t] = sent[t] /\ delivered'[t] = sent[t] - L + k
        BY <2>1, <2>4, <3>1 DEF Takes
      <3>4. L \in Nat /\ L <= MaxEventQueue /\ k \in 1..L
        BY <2>0, <2>1, <3>1
      <3>5. \A i \in 1..L : queue[t][i].n = sent[t] - L + i
        BY <2>1
      <3> HIDE DEF L
      <3>6. ASSUME NEW i \in 1..(L - k)
            PROVE  queue'[t][i].n = sent[t] - L + k + i
        <4>1. k + i \in 1..L
          BY <3>4
        <4>2. queue'[t][i].n = sent[t] - L + (k + i)
          BY <3>2, <3>5, <4>1
        <4> QED BY <2>0, <3>4, <4>2
      <3> QED BY <2>0, <3>2, <3>3, <3>4, <3>6
    <2> QED BY <2>2, <2>3, <2>4, StepShape
  <1> QED BY <1>1, <1>2, TypeCorrect, PTL DEF Spec, WindowInv

\* Concurrent pulls hand no notification out twice, and none out of order.
THEOREM HandedOutOnce == Spec => []DeliveredOnce
  BY Window, PTL
-----------------------------------------------------------------------------
(***************************************************************************)
(* The subscription map.                                                   *)
(***************************************************************************)
\* subs only shrinks, except in a create that found room for one more entry.
LEMMA SubsStep ==
    ASSUME TypeOK, [Next]_vars
    PROVE  \/ subs' \subseteq subs /\ issued' = issued
           \/ \E t \in Tokens, t0 \in 0..now :
                 /\ t \notin issued
                 /\ Cardinality(cleanupLocked(t0)) < MaxPullPoints
                 /\ subs' = cleanupLocked(t0) \cup {t}
                 /\ issued' = issued \cup {t}
                 /\ UNCHANGED <<queue, signal, pullPc, pullTok>>
  <1> USE DEF runVars, subVars, pullVars, clockVars
  <1>1. CASE TickApply
    BY <1>1 DEF TickApply, cleanupLocked
  <1>2. ASSUME NEW t \in Tokens, synchronizationPoint(t)
        PROVE  subs' \subseteq subs /\ issued' = issued
    BY <1>2 DEF synchronizationPoint, cleanupLocked
  <1>3. ASSUME NEW p \in Pullers, pullLocked(p)
        PROVE  subs' \subseteq subs /\ issued' = issued
    BY <1>3 DEF pullLocked, cleanupLocked
  <1>4. CASE UNCHANGED vars \/ AdvanceClock \/ FlipReady \/ TickRead
    BY <1>4 DEF vars, AdvanceClock, FlipReady, TickRead
  <1>5. CASE \/ \E t0 \in 0..now : createRefused(t0)
             \/ \E s \in Tokens, ttl \in TTLs : renew(s, ttl)
             \/ \E s \in Tokens : unsubscribe(s)
    BY <1>5 DEF createRefused, renew, unsubscribe, cleanupLocked
  <1>6. CASE \/ \E p \in Pullers, s \in Tokens, l \in Limits : pull(p, s, l)
             \/ \E p \in Pullers : pullSignalled(p)
             \/ \E p \in Pullers : pullGivesUp(p)
    BY <1>6 DEF pull, pullSignalled, pullGivesUp
  <1>7. CASE \E s \in Tokens, ttl \in TTLs, t0 \in 0..now : create(s, ttl, t0)
    BY <1>7 DEF create
  <1> QED BY <1>1, <1>2, <1>3, <1>4, <1>5, <1>6, <1>7 DEF Next

\* create never lets the map outgrow maxPullPoints, whatever the order of
\* creations, expiries and clean-ups with an older time.
THEOREM Bounded == Spec => []SubsBounded
  <1> DEFINE B == IsFiniteSet(subs) /\ SubsBounded
  <1>1. Init => B
    BY FS_EmptySet, BrokerConstants DEF Init, SubsBounded
  <1>2. TypeOK /\ B /\ [Next]_vars => B'
    <2> SUFFICES ASSUME TypeOK, B, [Next]_vars PROVE B'
      OBVIOUS
    <2>0. MaxPullPoints \in Nat \ {0} /\ Cardinality(subs) \in Nat
      BY BrokerConstants, FS_CardinalityType
    <2>1. CASE subs' \subseteq subs
      <3>1. IsFiniteSet(subs') /\ Cardinality(subs') <= Cardinality(subs)
        BY <2>1, FS_Subset
      <3>2. Cardinality(subs') \in Nat
        BY <3>1, FS_CardinalityType
      <3> QED BY <2>0, <3>1, <3>2 DEF SubsBounded
    <2>2. ASSUME NEW t \in Tokens, NEW t0 \in 0..now,
                 Cardinality(cleanupLocked(t0)) < MaxPullPoints,
                 subs' = cleanupLocked(t0) \cup {t}
          PROVE  B'
      <3>1. IsFiniteSet(cleanupLocked(t0))
        BY FS_Subset DEF cleanupLocked
      <3>2. Cardinality(cleanupLocked(t0)) \in Nat
        BY <3>1, FS_CardinalityType
      <3>3. /\ IsFiniteSet(subs')
            /\ \/ Cardinality(subs') = Cardinality(cleanupLocked(t0))
               \/ Cardinality(subs') = Cardinality(cleanupLocked(t0)) + 1
        BY <2>2, <3>1, FS_AddElement
      <3> QED BY <2>0, <2>2, <3>2, <3>3 DEF SubsBounded
    <2> QED BY <2>1, <2>2, SubsStep
  <1> QED BY <1>1, <1>2, TypeCorrect, PTL DEF Spec
-----------------------------------------------------------------------------
(***************************************************************************)
(* Wake-ups.  That a fresh subscription starts with an empty queue is part *)
(* of the invariant: a pull may be blocked on nothing else.                *)
(***************************************************************************)
UnissuedEmpty == \A t \in Tokens : t \notin issued => queue[t] = <<>>

WakeInv == UnissuedEmpty /\ NoLostWakeup

LEMMA UnissuedStaysEmpty ==
    ASSUME TypeOK, UnissuedEmpty, [Next]_vars
    PROVE  UnissuedEmpty'
  <1> SUFFICES ASSUME NEW t \in Tokens, t \notin issued' PROVE queue'[t] = <<>>
    BY DEF UnissuedEmpty
  <1>1. t \notin issued /\ t \notin subs
    BY SubsStep DEF TypeOK
  <1>2. queue[t] = <<>> /\ Len(queue[t]) = 0
    BY <1>1 DEF UnissuedEmpty
  <1>3. ~Enqueues(t) /\ ~Takes(t)
    BY <1>1, <1>2 DEF Enqueues, Takes
  <1> QED BY <1>2, <1>3, StepShape DEF Unaffected

\* No pull sleeps on a queue that has something for it, provided clients pull
\* a subscription one at a time or ask for at least maxEventQueue messages.
THEOREM WakeupNotLost ==
    ASSUME OnePullerOrFullDrain
    PROVE  Spec => []NoLostWakeup
  <1>1. Init => WakeInv
    BY DEF Init, WakeInv, UnissuedEmpty, NoLostWakeup
  <1>2. TypeOK /\ TypeOK' /\ QueueIsNewestSuffix /\ WakeInv /\ [Next]_vars => WakeInv'
    <2> SUFFICES ASSUME TypeOK, TypeOK', QueueIsNewestSuffix, WakeInv, [Next]_vars
                 PROVE  NoLostWakeup'
      BY UnissuedStaysEmpty DEF WakeInv
    <2> SUFFICES ASSUME NEW p \in Pullers, pullPc'[p] = "select", pullTok'[p] \in subs',
                        queue'[pullTok'[p]] # <<>>, ~signal'[pullTok'[p]]
                 PROVE  \E q \in Pullers : pullPc'[q] = "lock" /\ pullTok'[q] = pullTok'[p]
      BY Zenon DEF NoLostWakeup
    <2> DEFINE t == pullTok'[p]
    <2>0. t \in Tokens /\ signal'[t] = FALSE
      BY DEF TypeOK
    <2>1. ASSUME pullPc[p] = "select", pullTok[p] = t, t \in subs, queue[t] # <<>>,
                 signal[t] = FALSE
          PROVE  \E q \in Pullers : pullPc[q] = "lock" /\ pullTok[q] = t
      BY <2>1 DEF WakeInv, NoLostWakeup
    <2> USE DEF runVars, subVars, pullVars, clockVars
    <2>2. CASE UNCHANGED <<queue, signal, pullPc, pullTok>> /\ subs' \subseteq subs
      BY <2>0, <2>1, <2>2
    <2>3. CASE \E s \in Tokens, ttl \in TTLs, t0 \in 0..now : create(s, ttl, t0)
      <3>1. PICK s \in Tokens, t0 \in 0..now :
               /\ subs' = cleanupLocked(t0) \cup {s}
               /\ s \notin issued
               /\ UNCHANGED <<queue, signal, pullPc, pullTok>>
        BY <2>3 DEF create
      <3>2. t # s
        BY <3>1 DEF WakeInv, UnissuedEmpty
      <3>3. t \in subs
        BY <3>1, <3>2 DEF cleanupLocked
      <3> QED BY <2>0, <2>1, <3>1, <3>3
    <2>4. ASSUME NEW S \in SUBSET cleanupLocked(now), NEW loss \in BOOLEAN,
                 NEW op \in {"Changed", "Initialized"}, enqueueAllLocked(S, loss, op),
                 subs' = cleanupLocked(now), UNCHANGED pullVars
          PROVE  \E q \in Pullers : pullPc'[q] = "lock" /\ pullTok'[q] = t
      <3>1. signal'[t] = (signal[t] \/ t \in S)
        BY <2>0, <2>4, Zenon DEF enqueueAllLocked
      <3>2. t \notin S /\ signal[t] = FALSE
        BY <2>0, <3>1 DEF TypeOK
      <3>3. queue'[t] = queue[t]
        BY <2>0, <2>4, <3>2 DEF enqueueAllLocked
      <3> QED BY <2>1, <2>4, <3>2, <3>3 DEF cleanupLocked
    <2>5. CASE TickApply
      <3>1. CASE current # lastReady
        BY <2>4, <2>5, <3>1 DEF TickApply, TypeOK
      <3>2. CASE current = lastReady
        BY <2>2, <2>5, <3>2 DEF TickApply, cleanupLocked
      <3> QED BY <3>1, <3>2
    <2>6. ASSUME NEW s \in Tokens, synchronizationPoint(s)
          PROVE  \E q \in Pullers : pullPc'[q] = "lock" /\ pullTok'[q] = t
      <3>1. CASE s \in subs'
        BY <2>4, <2>6, <3>1 DEF synchronizationPoint, TypeOK
      <3>2. CASE s \notin subs'
        BY <2>2, <2>6, <3>2 DEF synchronizationPoint, cleanupLocked
      <3> QED BY <3>1, <3>2
    <2>7. ASSUME NEW r \in Pullers, NEW s \in Tokens, NEW l \in Limits, pull(r, s, l)
          PROVE  \E q \in Pullers : pullPc'[q] = "lock" /\ pullTok'[q] = t
      BY <2>1, <2>7 DEF pull, TypeOK
    <2>8. ASSUME NEW r \in Pullers, pullSignalled(r)
          PROVE  \E q \in Pullers : pullPc'[q] = "lock" /\ pullTok'[q] = t
      <3>1. /\ pullPc' = [pullPc EXCEPT ![r] = "lock"] /\ pullTok' = pullTok
            /\ signal' = [signal EXCEPT ![pullTok[r]] = FALSE]
            /\ queue' = queue /\ subs' = subs
        BY <2>8 DEF pullSignalled
      <3>2. CASE pullTok[r] = t
        BY <3>1, <3>2 DEF TypeOK
      <3>3. CASE pullTok[r] # t
        <4>1. pullPc[p] = "select" /\ signal[t] = FALSE
          BY <2>0, <3>1, <3>3 DEF TypeOK
        <4>2. PICK q \in Pullers : pullPc[q] = "lock" /\ pullTok[q] = t
          BY <2>1, <3>1, <4>1
        <4> QED BY <3>1, <4>2 DEF TypeOK
      <3> QED BY <3>2, <3>3
    <2>9. ASSUME NEW r \in Pullers, pullGivesUp(r)
          PROVE  \E q \in Pullers : pullPc'[q] = "lock" /\ pullTok'[q] = t
      BY <2>1, <2>9 DEF pullGivesUp, TypeOK
    <2>10. ASSUME NEW r \in Pullers, pullLocked(r)
           PROVE  \E q \in Pullers : pullPc'[q] = "lock" /\ pullTok'[q] = t
      <3>0. subs' \subseteq subs /\ pullTok' = pullTok /\ signal' = signal
        BY <2>10 DEF pullLocked, cleanupLocked
      <3>1. CASE pullTake(r) /\ pullTok[r] \in subs'
        <4>1. PICK k \in 1..Len(queue[pullTok[r]]) :
                 /\ Taken(pullTok[r], k)
                 /\ k = Len(queue[pullTok[r]]) \/ k = pullLim[r]
          BY <3>1, PullTakeShape
        <4>2. pullPc' = [pullPc EXCEPT ![r] = "idle"]
          BY <3>1 DEF pullTake
        <4>3. p # r /\ pullPc[p] = "select"
          BY <4>2 DEF TypeOK
        <4>4. CASE pullTok[r] = t
          <5>1. \A l \in Limits : l >= MaxEventQueue
            BY <4>3 DEF OnePullerOrFullDrain
          <5>2. queue[t] \in Seq(Event) /\ Len(queue[t]) <= MaxEventQueue /\ pullLim[r] \in Limits
            BY <2>0 DEF TypeOK, QueueIsNewestSuffix
          <5>3. k = Len(queue[t])
            BY <4>1, <4>4, <5>1, <5>2, BrokerConstants
          <5>4. queue'[t] = SubSeq(queue[t], Len(queue[t]) + 1, Len(queue[t]))
            BY <2>0, <4>1, <4>4, <5>3 DEF Taken, TypeOK
          <5>5. queue'[t] = <<>>
            BY <5>2, <5>4
          <5> QED BY <5>5
        <4>5. CASE pullTok[r] # t
          <5>1. queue'[t] = queue[t]
            BY <2>0, <4>1, <4>5 DEF Taken, TypeOK
          <5>2. PICK q \in Pullers : pullPc[q] = "lock" /\ pullTok[q] = t
            BY <2>0, <2>1, <3>0, <4>3, <5>1
          <5> QED BY <3>0, <4>2, <4>5, <5>2 DEF TypeOK
        <4> QED BY <4>4, <4>5
      <3>2. CASE ~(pullTake(r) /\ pullTok[r] \in subs')
        <4>1. queue' = queue /\ pullPc[r] = "lock"
          BY <2>10, <3>2 DEF pullLocked
        <4>2. pullTok[r] \notin subs' \/ queue[pullTok[r]] = <<>>
          BY <2>10, <3>2 DEF pullLocked
        <4>3. pullTok[r] # t
          BY <4>1, <4>2
        <4>4. \A q \in Pullers : q # r => pullPc'[q] = pullPc[q]
          BY <2>10, <3>2 DEF pullLocked, TypeOK
        <4>5. p # r
          BY <3>0, <4>3
        <4>6. PICK q \in Pullers : pullPc[q] = "lock" /\ pullTok[q] = t
          BY <2>0, <2>1, <3>0, <4>1, <4>4, <4>5
        <4> QED BY <3>0, <4>3, <4>4, <4>6
      <3> QED BY <3>1, <3>2
    <2>11. CASE UNCHANGED vars \/ AdvanceClock \/ FlipReady \/ TickRead
      BY <2>2, <2>11 DEF vars, AdvanceClock, FlipReady, TickRead
    <2>12. CASE \/ \E t0 \in 0..now : createRefused(t0)
                \/ \E s \in Tokens, ttl \in TTLs : renew(s, ttl)
                \/ \E s \in Tokens : unsubscribe(s)
      BY <2>2, <2>12 DEF createRefused, renew, unsubscribe, cleanupLocked
    <2> QED BY <2>3, <2>5, <2>6, <2>7, <2>8, <2>9, <2>10, <2>11, <2>12 DEF Next
  <1> QED BY <1>1, <1>2, TypeCorrect, Window, PTL DEF Spec, WakeInv
-----------------------------------------------------------------------------
(***************************************************************************)
(* Alternation, said of neighbours: the newest Changed entry differs from  *)
(* what run last saw, two with none in between differ from each other.     *)
(***************************************************************************)
IsChange(q, i) == q[i].operation = "Changed"

Alternates(q, last) ==
    \A i \in 1..Len(q) : IsChange(q, i) =>
        /\ (\A k \in 1..Len(q) : i < k => ~IsChange(q, k)) => q[i].videoLoss # last
        /\ \A k \in 1..Len(q) :
              /\ i < k
              /\ IsChange(q, k)
              /\ \A m \in 1..Len(q) : i < m /\ m < k => ~IsChange(q, m)
              => q[k].videoLoss # q[i].videoLoss

AlternatesInv == \A t \in subs : Alternates(queue[t], lastReady)

\* Dropping the oldest entries, or handing them out, keeps the alternation.
LEMMA SuffixAlternates ==
    ASSUME NEW q \in Seq(Event), NEW s \in Seq(Event), NEW d \in Nat, NEW last,
           Len(q) = Len(s) + d, \A i \in 1..Len(s) : s[i] = q[i + d], Alternates(q, last)
    PROVE  Alternates(s, last)
  <1> SUFFICES ASSUME NEW i \in 1..Len(s), IsChange(s, i)
               PROVE  /\ (\A k \in 1..Len(s) : i < k => ~IsChange(s, k)) => s[i].videoLoss # last
                      /\ \A k \in 1..Len(s) :
                            /\ i < k
                            /\ IsChange(s, k)
                            /\ \A m \in 1..Len(s) : i < m /\ m < k => ~IsChange(s, m)
                            => s[k].videoLoss # s[i].videoLoss
    BY DEF Alternates
  <1>0. Len(s) \in Nat /\ Len(q) \in Nat
    OBVIOUS
  <1>1. \A k \in 1..Len(s) : k + d \in 1..Len(q) /\ (IsChange(s, k) = IsChange(q, k + d))
    BY <1>0 DEF IsChange
  <1>2. \A j \in 1..Len(q) : i + d < j => j - d \in 1..Len(s) /\ i < j - d /\ (j - d) + d = j
    BY <1>0
  <1>3. i + d \in 1..Len(q) /\ IsChange(q, i + d)
    BY <1>1
  <1>4. ASSUME \A k \in 1..Len(s) : i < k => ~IsChange(s, k) PROVE s[i].videoLoss # last
    <2>1. ASSUME NEW j \in 1..Len(q), i + d < j PROVE ~IsChange(q, j)
      BY <1>1, <1>2, <1>4, <2>1
    <2> QED BY <1>3, <2>1 DEF Alternates
  <1>5. ASSUME NEW k \in 1..Len(s), i < k, IsChange(s, k),
               \A m \in 1..Len(s) : i < m /\ m < k => ~IsChange(s, m)
        PROVE  s[k].videoLoss # s[i].videoLoss
    <2>1. k + d \in 1..Len(q) /\ IsChange(q, k + d) /\ i + d < k + d
      BY <1>0, <1>1, <1>5
    <2>2. ASSUME NEW j \in 1..Len(q), i + d < j, j < k + d PROVE ~IsChange(q, j)
      <3>1. j - d \in 1..Len(s) /\ i < j - d /\ j - d < k /\ (j - d) + d = j
        BY <1>0, <1>2, <2>2
      <3> QED BY <1>1, <1>5, <3>1
    <2>3. q[k + d].videoLoss # q[i + d].videoLoss
      BY <1>3, <2>1, <2>2 DEF Alternates
    <2> QED BY <2>3
  <1> QED BY <1>4, <1>5

\* A Changed entry with the value run saw before, or an Initialized one.
LEMMA AppendAlternates ==
    ASSUME NEW q \in Seq(Event), NEW e \in Event, NEW last, NEW seen, Alternates(q, last),
           \/ e.operation = "Changed" /\ e.videoLoss = last /\ e.videoLoss # seen
           \/ e.operation # "Changed" /\ seen = last
    PROVE  Alternates(Append(q, e), seen)
  <1> DEFINE s == Append(q, e)
             L == Len(q)
  <1>1. L \in Nat /\ Len(s) = L + 1 /\ s[L + 1] = e /\ \A i \in 1..L : s[i] = q[i]
    OBVIOUS
  <1> HIDE DEF s, L
  <1> SUFFICES ASSUME NEW i \in 1..(L + 1), IsChange(s, i)
               PROVE  /\ (\A k \in 1..(L + 1) : i < k => ~IsChange(s, k)) => s[i].videoLoss # seen
                      /\ \A k \in 1..(L + 1) :
                            /\ i < k
                            /\ IsChange(s, k)
                            /\ \A m \in 1..(L + 1) : i < m /\ m < k => ~IsChange(s, m)
                            => s[k].videoLoss # s[i].videoLoss
    BY <1>1 DEF Alternates, s
  <1>2. \A k \in 1..L : IsChange(s, k) = IsChange(q, k)
    BY <1>1 DEF IsChange
  <1>3. ASSUME \A k \in 1..(L + 1) : i < k => ~IsChange(s, k) PROVE s[i].videoLoss # seen
    <2>1. CASE i = L + 1
      BY <1>1, <2>1 DEF IsChange
    <2>2. CASE i # L + 1
      <3>1. i \in 1..L /\ IsChange(q, i) /\ i < L + 1 /\ L + 1 \in 1..(L + 1)
        BY <1>1, <1>2, <2>2
      <3>2. e.operation # "Changed" /\ seen = last
        BY <1>1, <1>3, <3>1 DEF IsChange
      <3>3. \A k \in 1..L : i < k => ~IsChange(q, k)
        BY <1>1, <1>2, <1>3
      <3>4. q[i].videoLoss # last
        BY <3>1, <3>3 DEF Alternates, L
      <3> QED BY <1>1, <3>1, <3>2, <3>4
    <2> QED BY <2>1, <2>2
  <1>4. ASSUME NEW k \in 1..(L + 1), i < k, IsChange(s, k),
               \A m \in 1..(L + 1) : i < m /\ m < k => ~IsChange(s, m)
        PROVE  s[k].videoLoss # s[i].videoLoss
    <2>0. i \in 1..L /\ IsChange(q, i)
      BY <1>1, <1>2, <1>4
    <2>1. CASE k = L + 1
      <3>1. e.operation = "Changed"
        BY <1>1, <1>4, <2>1 DEF IsChange
      <3>2. e.videoLoss = last
        BY <3>1
      <3>3. \A m \in 1..L : i < m => ~IsChange(q, m)
        BY <1>1, <1>2, <1>4, <2>1
      <3>4. q[i].videoLoss # last
        BY <2>0, <3>3 DEF Alternates, L
      <3> QED BY <1>1, <2>0, <2>1, <3>2, <3>4
    <2>2. CASE k # L + 1
      <3>1. k \in 1..L /\ IsChange(q, k)
        BY <1>1, <1>2, <1>4, <2>2
      <3>2. \A m \in 1..L : i < m /\ m < k => ~IsChange(q, m)
        BY <1>1, <1>2, <1>4
      <3>3. q[k].videoLoss # q[i].videoLoss
        BY <1>4, <2>0, <3>1, <3>2 DEF Alternates, L
      <3> QED BY <1>1, <2>0, <3>1, <3>3
    <2> QED BY <2>1, <2>2
  <1> QED BY <1>3, <1>4

LEMMA EnqueuedAlternates ==
    ASSUME NEW q \in Seq(Event), NEW e \in Event, NEW last, NEW seen, Alternates(q, last),
           \/ e.operation = "Changed" /\ e.videoLoss = last /\ e.videoLoss # seen
           \/ e.operation # "Changed" /\ seen = last
    PROVE  Alternates(enqueued(q, e), seen)
  <1> DEFINE s == SubSeq(q, Len(q) - MaxEventQueue + 2, Len(q))
             d == Len(q) - MaxEventQueue + 1
  <1>1. CASE Len(q) >= MaxEventQueue
    <2>1. d \in 1..Len(q) /\ d + 1 = Len(q) - MaxEventQueue + 2 /\ d \in Nat /\ Len(q) \in Nat
      BY <1>1, BrokerConstants
    <2>2. s = SubSeq(q, d + 1, Len(q))
      BY <2>1
    <2> HIDE DEF s, d
    <2>3. s \in Seq(Event) /\ Len(s) = Len(q) - d /\ \A i \in 1..(Len(q) - d) : s[i] = q[d + i]
      BY <2>1, <2>2, TakenShape
    <2>4. Len(q) = Len(s) + d /\ \A i \in 1..Len(s) : s[i] = q[i + d]
      BY <2>1, <2>3
    <2>5. Alternates(s, last)
      BY <2>1, <2>3, <2>4, SuffixAlternates
    <2>6. Alternates(Append(s, e), seen)
      BY <2>3, <2>5, AppendAlternates
    <2> QED BY <1>1, <2>6 DEF enqueued, s
  <1>2. CASE ~(Len(q) >= MaxEventQueue)
    <2>1. Alternates(Append(q, e), seen)
      BY AppendAlternates
    <2> QED BY <1>2, <2>1 DEF enqueued
  <1> QED BY <1>1, <1>2

LEMMA StepAlternates ==
    ASSUME TypeOK, UnissuedEmpty, AlternatesInv, [Next]_vars
    PROVE  AlternatesInv'
  <1> SUFFICES ASSUME NEW t \in subs' PROVE Alternates(queue'[t], lastReady')
    BY DEF AlternatesInv
  <1> USE DEF runVars, subVars, pullVars, clockVars
  <1>1. ASSUME t \in subs, queue'[t] = queue[t], lastReady' = lastReady
        PROVE  Alternates(queue'[t], lastReady')
    BY <1>1 DEF AlternatesInv
  <1>2. ASSUME NEW S \in SUBSET cleanupLocked(now), NEW loss \in BOOLEAN,
               NEW op \in {"Changed", "Initialized"}, enqueueAllLocked(S, loss, op), t \in S,
               \/ op = "Changed" /\ loss = lastReady /\ loss # lastReady'
               \/ op # "Changed" /\ lastReady' = lastReady
        PROVE  Alternates(queue'[t], lastReady')
    <2> DEFINE e == Notification(t, loss, op)
    <2>1. t \in subs /\ t \in Tokens /\ queue[t] \in Seq(Event)
      BY <1>2 DEF cleanupLocked, TypeOK
    <2>2. e \in Event /\ e.operation = op /\ e.videoLoss = loss
      BY <2>1 DEF TypeOK, Notification, Event
    <2>3. queue'[t] = enqueued(queue[t], e)
      BY <1>2, <2>1 DEF enqueueAllLocked
    <2>4. Alternates(queue[t], lastReady)
      BY <2>1 DEF AlternatesInv
    <2> HIDE DEF e
    <2> QED BY <1>2, <2>1, <2>2, <2>3, <2>4, EnqueuedAlternates
  <1>3. CASE TickApply
    <2>1. /\ subs' = cleanupLocked(now) /\ lastReady' = current
          /\ current \in BOOLEAN /\ lastReady \in BOOLEAN
      BY <1>3 DEF TickApply, TypeOK
    <2>2. CASE current # lastReady
      <3>1. enqueueAllLocked(subs', ~current, "Changed")
        BY <1>3, <2>2 DEF TickApply
      <3>2. (~current) \in BOOLEAN /\ (~current) = lastReady /\ (~current) # lastReady'
        BY <2>1, <2>2
      <3> QED BY <1>2, <2>1, <3>1, <3>2
    <2>3. CASE current = lastReady
      <3>1. t \in subs /\ queue' = queue
        BY <1>3, <2>1, <2>3 DEF TickApply, cleanupLocked
      <3> QED BY <1>1, <2>1, <2>3, <3>1
    <2> QED BY <2>2, <2>3
  <1>4. ASSUME NEW s \in Tokens, synchronizationPoint(s)
        PROVE  Alternates(queue'[t], lastReady')
    <2>1. subs' = cleanupLocked(now) /\ lastReady' = lastReady /\ t \in subs /\ t \in Tokens
      BY <1>4 DEF synchronizationPoint, cleanupLocked, TypeOK
    <2>2. CASE s \in subs' /\ s = t
      <3>1. enqueueAllLocked({t}, ~ready, "Initialized")
        BY <1>4, <2>2 DEF synchronizationPoint
      <3>2. {t} \in SUBSET cleanupLocked(now) /\ (~ready) \in BOOLEAN
        BY <2>1
      <3> QED BY <1>2, <2>1, <3>1, <3>2
    <2>3. CASE s \in subs' /\ s # t
      <3>1. enqueueAllLocked({s}, ~ready, "Initialized")
        BY <1>4, <2>3 DEF synchronizationPoint
      <3>2. queue'[t] = queue[t]
        BY <2>1, <2>3, <3>1 DEF enqueueAllLocked
      <3> QED BY <1>1, <2>1, <3>2
    <2>4. CASE s \notin subs'
      BY <1>1, <1>4, <2>1, <2>4 DEF synchronizationPoint
    <2> QED BY <2>2, <2>3, <2>4
  <1>5. ASSUME NEW p \in Pullers, pullLocked(p)
        PROVE  Alternates(queue'[t], lastReady')
    <2>1. lastReady' = lastReady /\ t \in subs /\ t \in Tokens
      BY <1>5 DEF pullLocked, cleanupLocked, TypeOK
    <2>2. CASE pullTake(p) /\ pullTok[p] = t
      <3>1. PICK k \in 1..Len(queue[t]) : Taken(t, k)
        BY <2>2, PullTakeShape
      <3>2. queue'[t] = SubSeq(queue[t], k + 1, Len(queue[t])) /\ queue[t] \in Seq(Event)
        BY <2>1, <3>1 DEF Taken, TypeOK
      <3>3. /\ queue'[t] \in Seq(Event) /\ Len(queue'[t]) = Len(queue[t]) - k
            /\ \A i \in 1..(Len(queue[t]) - k) : queue'[t][i] = queue[t][k + i]
        BY <3>2, TakenShape
      <3>4. /\ k \in Nat /\ Len(queue[t]) = Len(queue'[t]) + k
            /\ \A i \in 1..Len(queue'[t]) : queue'[t][i] = queue[t][i + k]
        BY <3>2, <3>3
      <3>5. Alternates(queue[t], lastReady)
        BY <2>1 DEF AlternatesInv
      <3> QED BY <2>1, <3>2, <3>3, <3>4, <3>5, SuffixAlternates
    <2>3. CASE pullTake(p) /\ pullTok[p] # t
      <3>1. queue'[t] = queue[t]
        BY <2>1, <2>3 DEF pullTake, TypeOK
      <3> QED BY <1>1, <2>1, <3>1
    <2>4. CASE ~pullTake(p)
      BY <1>1, <1>5, <2>1, <2>4 DEF pullLocked
    <2> QED BY <2>2, <2>3, <2>4
  \* A new subscription has an empty queue.
  <1>6. CASE \E s \in Tokens, ttl \in TTLs, t0 \in 0..now : create(s, ttl, t0)
    <2>1. PICK s \in Tokens, t0 \in 0..now :
             /\ s \notin issued /\ subs' = cleanupLocked(t0) \cup {s}
             /\ UNCHANGED <<queue, lastReady>>
      BY <1>6 DEF create
    <2>2. CASE t = s
      <3>1. queue'[t] = <<>>
        BY <2>1, <2>2 DEF UnissuedEmpty
      <3> QED BY <3>1 DEF Alternates
    <2>3. CASE t # s
      BY <1>1, <2>1, <2>3 DEF cleanupLocked
    <2> QED BY <2>2, <2>3
  <1>7. CASE \/ \E t0 \in 0..now : createRefused(t0)
             \/ \E s \in Tokens, ttl \in TTLs : renew(s, ttl)
             \/ \E s \in Tokens : unsubscribe(s)
    BY <1>1, <1>7 DEF createRefused, renew, unsubscribe, cleanupLocked
  <1>8. CASE \/ \E p \in Pullers, s \in Tokens, l \in Limits : pull(p, s, l)
             \/ \E p \in Pullers : pullSignalled(p)
             \/ \E p \in Pullers : pullGivesUp(p)
    BY <1>1, <1>8 DEF pull, pullSignalled, pullGivesUp
  <1>9. CASE UNCHANGED vars \/ AdvanceClock \/ FlipReady \/ TickRead
    BY <1>1, <1>9 DEF vars, AdvanceClock, FlipReady, TickRead
  <1> QED BY <1>3, <1>4, <1>5, <1>6, <1>7, <1>8, <1>9 DEF Next

LEMMA LeastOf ==
    ASSUME NEW S \in SUBSET Nat, S # {}
    PROVE  \E k \in S : \A m \in S : k <= m
  <1>1. PICK k \in S : \A m \in S : ~ (<<m, k>> \in OpToRel(<, Nat))
    BY WFMin, NatLessThanWellFounded, Zenon
  <1>2. \A m \in S : ~ (m < k)
    BY <1>1 DEF OpToRel
  <1> QED BY <1>2

\* No client sees a loss, or an end of a loss, reported twice in a row, and
\* the newest report is of what run saw last, however ticks, synchronisation
\* points, overflows and pulls interleave.
THEOREM NoDoubleReport == Spec => []ChangedAlternates
  <1>1. Init => UnissuedEmpty /\ AlternatesInv
    BY DEF Init, UnissuedEmpty, AlternatesInv
  <1>2. TypeOK /\ AlternatesInv => ChangedAlternates
    <2> SUFFICES ASSUME TypeOK, AlternatesInv, NEW t \in subs, NEW i \in 1..Len(queue[t]),
                        queue[t][i].operation = "Changed"
                 PROVE  LET later == {k \in (i+1)..Len(queue[t]) :
                                         queue[t][k].operation = "Changed"}
                        IN  IF later = {}
                            THEN queue[t][i].videoLoss = ~lastReady
                            ELSE \E k \in later :
                                    /\ \A m \in later : k <= m
                                    /\ queue[t][k].videoLoss = ~queue[t][i].videoLoss
      BY DEF ChangedAlternates
    <2> DEFINE q == queue[t]
               later == {k \in (i+1)..Len(q) : q[k].operation = "Changed"}
    <2>1. q \in Seq(Event) /\ Len(q) \in Nat /\ Alternates(q, lastReady)
      BY DEF TypeOK, AlternatesInv
    <2> HIDE DEF q
    <2>2. ASSUME NEW k \in 1..Len(q) PROVE q[k].videoLoss \in BOOLEAN
      <3>1. q[k] \in Event
        BY <2>1
      <3> QED BY <3>1 DEF Event
    <2>3. \A k \in 1..Len(q) : i < k => (k \in later <=> IsChange(q, k))
      BY <2>1 DEF IsChange
    <2>4. later \subseteq 1..Len(q) /\ \A k \in later : i < k
      BY <2>1
    <2>5. IsChange(q, i) /\ i \in 1..Len(q)
      BY DEF IsChange, q
    <2> HIDE DEF later
    <2>6. CASE later = {}
      <3>1. q[i].videoLoss # lastReady
        BY <2>1, <2>3, <2>5, <2>6 DEF Alternates
      <3>2. q[i].videoLoss = ~lastReady
        BY <2>2, <2>5, <3>1, Zenon DEF TypeOK
      <3> QED BY <2>6, <3>2 DEF q, later
    <2>7. CASE later # {}
      <3>1. later \in SUBSET Nat
        BY <2>1, <2>4
      <3>2. PICK k \in later : \A m \in later : k <= m
        BY <2>7, <3>1, LeastOf
      <3>3. k \in 1..Len(q) /\ i < k /\ IsChange(q, k)
        BY <2>3, <2>4, <3>2
      <3>4. \A m \in 1..Len(q) : i < m /\ m < k => ~IsChange(q, m)
        BY <2>1, <2>3, <3>2, <3>3
      <3>5. q[k].videoLoss # q[i].videoLoss
        BY <2>1, <2>5, <3>3, <3>4 DEF Alternates
      <3>6. q[k].videoLoss = ~q[i].videoLoss
        BY <2>2, <2>5, <3>3, <3>5, Zenon
      <3> QED BY <2>7, <3>2, <3>6 DEF q, later
    <2> QED BY <2>6, <2>7
  <1> QED BY <1>1, <1>2, UnissuedStaysEmpty, StepAlternates, TypeCorrect, PTL DEF Spec
-----------------------------------------------------------------------------
(***************************************************************************)
(* The broker implements EventFeed.  The state functions of the feed are   *)
(* the broker's own, so a step is mapped by dropping its clock, its locks  *)
(* and its signals.  A queue never longer than the limit (Window) makes    *)
(* enqueueLocked the feed's Put; a token that was never issued having an   *)
(* empty queue (UnissuedEmpty) makes create the feed's Open.               *)
(***************************************************************************)
\* A queue within its limit loses one entry at most when one arrives.
LEMMA EnqueuedIsPut ==
    ASSUME NEW q \in Seq(Event), NEW e \in Event, Len(q) <= MaxEventQueue
    PROVE  enqueued(q, e) = Feed!Put(q, e)
  <1>1. CASE Len(q) = MaxEventQueue
    <2>1. q # <<>> /\ Len(q) - MaxEventQueue + 2 = 2
      BY <1>1, BrokerConstants
    <2>2. Tail(q) = SubSeq(q, 2, Len(q))
      BY <2>1, TailIsSubSeq
    <2> QED BY <1>1, <2>1, <2>2, BrokerConstants DEF enqueued, Feed!Put
  <1>2. CASE Len(q) # MaxEventQueue
    <2>1. ~(Len(q) >= MaxEventQueue)
      BY <1>2, BrokerConstants
    <2> QED BY <1>2, <2>1 DEF enqueued, Feed!Put
  <1> QED BY <1>1, <1>2

LEMMA EnqueueAllIsNotify ==
    ASSUME TypeOK, QueueIsNewestSuffix, NEW S \in SUBSET Tokens, NEW loss \in BOOLEAN,
           NEW op \in {"Changed", "Initialized"}, enqueueAllLocked(S, loss, op)
    PROVE  Feed!Notify(S, loss, op)
  <1>1. ASSUME NEW t \in Tokens
        PROVE  enqueued(queue[t], Notification(t, loss, op))
                  = Feed!Put(queue[t], [videoLoss |-> loss, operation |-> op, n |-> sent[t] + 1])
    <2>1. Notification(t, loss, op) = [videoLoss |-> loss, operation |-> op, n |-> sent[t] + 1]
      BY DEF Notification
    <2>2. Notification(t, loss, op) \in Event /\ queue[t] \in Seq(Event)
      BY DEF TypeOK, Notification, Event
    <2>3. Len(queue[t]) <= MaxEventQueue
      BY DEF QueueIsNewestSuffix
    <2> QED BY <2>1, <2>2, <2>3, EnqueuedIsPut
  <1>2. queue' = [t \in Tokens |->
                     IF t \in S
                     THEN Feed!Put(queue[t], [videoLoss |-> loss, operation |-> op,
                                              n |-> sent[t] + 1])
                     ELSE queue[t]]
    BY <1>1 DEF enqueueAllLocked
  <1> QED BY <1>2 DEF enqueueAllLocked, Feed!Notify

\* Both modules count with the operator of FiniteSets.
LEMMA SameCount == \A S : Feed!Cardinality(S) = Cardinality(S)
  BY DEF Feed!Cardinality, Cardinality

\* What each of the broker's steps is to a client.
LEMMA StepFeeds ==
    ASSUME TypeOK, QueueIsNewestSuffix, UnissuedEmpty, SubsBounded', [Next]_vars
    PROVE  [Feed!Next]_Feed!vars
  <1> USE DEF runVars, subVars, pullVars, clockVars
  <1> SUFFICES Feed!Next \/ UNCHANGED Feed!vars
    OBVIOUS
  <1>0. ASSUME subs' \subseteq subs, UNCHANGED <<issued, lastReady, queue, sent, delivered>>
        PROVE  Feed!Next
    BY <1>0 DEF Feed!Next, Feed!Close, Feed!SomeEnd
  <1>1. CASE TickApply
    <2>1. /\ subs' \subseteq subs /\ subs' \subseteq Tokens /\ lastReady' = current
          /\ UNCHANGED <<issued, delivered>>
          /\ current \in BOOLEAN /\ lastReady \in BOOLEAN
      BY <1>1 DEF TickApply, TypeOK, cleanupLocked
    <2>2. CASE current # lastReady
      <3>1. lastReady' = ~lastReady /\ (~current) = ~lastReady' /\ (~lastReady') \in BOOLEAN
        BY <2>1, <2>2, Zenon
      <3>2. enqueueAllLocked(subs', ~lastReady', "Changed")
        BY <1>1, <2>2, <3>1 DEF TickApply
      <3>3. Feed!Notify(subs', ~lastReady', "Changed")
        BY <2>1, <3>1, <3>2, EnqueueAllIsNotify
      <3> QED BY <2>1, <3>1, <3>3 DEF Feed!Next, Feed!Change, Feed!SomeEnd
    <2>3. CASE current = lastReady
      BY <1>0, <1>1, <2>1, <2>3 DEF TickApply
    <2> QED BY <2>2, <2>3
  \* A new subscription's queue is empty: no token is issued twice.
  <1>2. ASSUME NEW t \in Tokens, NEW ttl \in TTLs, NEW t0 \in 0..now, create(t, ttl, t0)
        PROVE  Feed!Next
    <2>1. Feed!Open(t)
      BY <1>2, SameCount DEF create, cleanupLocked, UnissuedEmpty, SubsBounded, Feed!Open
    <2> QED BY <2>1 DEF Feed!Next
  <1>3. CASE \/ \E t0 \in 0..now : createRefused(t0)
             \/ \E s \in Tokens, ttl \in TTLs : renew(s, ttl)
             \/ \E s \in Tokens : unsubscribe(s)
    BY <1>0, <1>3 DEF createRefused, renew, unsubscribe, cleanupLocked
  <1>4. ASSUME NEW t \in Tokens, synchronizationPoint(t)
        PROVE  Feed!Next
    <2>1. subs' \subseteq subs /\ UNCHANGED <<issued, lastReady, delivered>>
      BY <1>4 DEF synchronizationPoint, cleanupLocked
    <2>2. CASE t \in subs'
      <3>1. enqueueAllLocked({t}, ~ready, "Initialized") /\ (~ready) \in BOOLEAN
        BY <1>4, <2>2 DEF synchronizationPoint
      <3>2. Feed!Notify({t}, ~ready, "Initialized")
        BY <3>1, EnqueueAllIsNotify
      <3>3. Feed!Synchronize(t)
        BY <2>1, <2>2, <3>1, <3>2 DEF Feed!Synchronize, Feed!SomeEnd
      <3> QED BY <3>3 DEF Feed!Next
    <2>3. CASE t \notin subs'
      BY <1>0, <1>4, <2>1, <2>3 DEF synchronizationPoint
    <2> QED BY <2>2, <2>3
  <1>5. ASSUME NEW p \in Pullers, pullLocked(p)
        PROVE  Feed!Next
    <2>1. subs' \subseteq subs /\ UNCHANGED <<issued, lastReady, sent>>
      BY <1>5 DEF pullLocked, cleanupLocked
    <2>2. CASE pullTake(p) /\ pullTok[p] \in subs'
      <3>1. PICK k \in 1..Len(queue[pullTok[p]]) : Taken(pullTok[p], k)
        BY <2>2, PullTakeShape
      <3>2. Feed!HandOut(pullTok[p], k)
        BY <2>1, <2>2, <3>1 DEF Taken, Feed!HandOut, Feed!SomeEnd
      <3>3. pullTok[p] \in Tokens
        BY DEF TypeOK
      <3> QED BY <3>1, <3>2, <3>3 DEF Feed!Next
    <2>3. CASE ~(pullTake(p) /\ pullTok[p] \in subs')
      BY <1>0, <1>5, <2>1, <2>3 DEF pullLocked
    <2> QED BY <2>2, <2>3
  \* Nothing a client can see.
  <1>6. CASE \/ \E p \in Pullers, s \in Tokens, l \in Limits : pull(p, s, l)
             \/ \E p \in Pullers : pullSignalled(p)
             \/ \E p \in Pullers : pullGivesUp(p)
             \/ UNCHANGED vars \/ AdvanceClock \/ FlipReady \/ TickRead
    BY <1>6 DEF pull, pullSignalled, pullGivesUp, vars, AdvanceClock, FlipReady, TickRead,
                Feed!vars
  <1> QED BY <1>1, <1>2, <1>3, <1>4, <1>5, <1>6 DEF Next

\* To a client, the broker is a feed: no open subscription misses a change of
\* the readiness, an ended one never comes back, and what leaves a queue was
\* handed out or was the oldest entry of a full one.
THEOREM ImplementsFeed == Spec => FeedSpec
  <1>1. Init => UnissuedEmpty /\ Feed!Init
    BY DEF Init, UnissuedEmpty, Feed!Init
  <1> QED BY <1>1, StepFeeds, UnissuedStaysEmpty, TypeCorrect, Window, Bounded, PTL
      DEF Spec, FeedSpec, Feed!Spec
=============================================================================
