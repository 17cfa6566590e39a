---------------------------- MODULE EventBroker ----------------------------
(***************************************************************************)
(* The PullPoint event broker of internal/onvif/events.go.                 *)
(*                                                                         *)
(* One goroutine polls the readiness callback once a second and fans a     *)
(* "Changed" VideoLoss notification out to every subscription; any number  *)
(* of HTTP handlers create, renew, synchronise, unsubscribe and long-poll. *)
(* Everything between b.mu.Lock and b.mu.Unlock is one step; what the code *)
(* does outside the lock (run's read of ready(), pull's select) is a step  *)
(* of its own.                                                             *)
(***************************************************************************)
EXTENDS Integers, Sequences, FiniteSets

CONSTANTS
    Tokens,         \* what randomEventToken can return; no token is issued twice
    Pullers,        \* HTTP handler goroutines that may be inside pull
    MaxPullPoints,  \* maxPullPoints
    MaxEventQueue,  \* maxEventQueue
    Limits,         \* values of parseMessageLimit
    TTLs,           \* values of parseTerminationDuration, in clock ticks
    MaxTime,        \* bound on the clock
    MaxFlips,       \* bound on the changes of the readiness callback
    MaxSent         \* bound on the notifications sent to one subscription by
                    \* SetSynchronizationPoint

ASSUME BrokerConstants ==
    /\ MaxPullPoints \in Nat \ {0}
    /\ MaxEventQueue \in Nat \ {0}
    /\ Limits \subseteq Nat \ {0}
    /\ TTLs \subseteq Nat \ {0}
    /\ MaxTime \in Nat
    /\ MaxFlips \in Nat
    /\ MaxSent \in Nat

VARIABLES
    now,        \* time.Now, in ticks
    ready,      \* what the readiness callback returns
    flips,      \* how often the callback's value has changed (bounds the model)
    runPc,      \* run: "wait" for the ticker, or "apply" with a value read
    current,    \* run's local variable of that name
    lastReady,  \* eventBroker.lastReady
    issued,     \* tokens handed out so far
    subs,       \* the keys of eventBroker.subs
    expires,    \* eventSubscription.expires, queue and signal of every
    queue,      \* subscription ever created: a blocked pull keeps its pointer
    signal,     \* to the signal channel after the map entry is gone
    pullPc,     \* pull: "idle", about to "lock", or blocked in "select"
    pullTok,    \* pull's token argument
    pullLim,    \* pull's limit argument
    sent,       \* history: number of the newest notification of a subscription
    delivered   \* history: number of the newest one a pull has taken

clockVars == <<now, ready, flips>>
runVars   == <<runPc, current, lastReady>>
subVars   == <<issued, subs, expires, queue, signal, sent>>
pullVars  == <<pullPc, pullTok, pullLim, delivered>>
vars      == <<clockVars, runVars, subVars, pullVars>>

Event == [videoLoss : BOOLEAN, operation : {"Changed", "Initialized"}, n : Nat]

TypeOK ==
    /\ now \in Nat /\ flips \in Nat
    /\ ready \in BOOLEAN /\ current \in BOOLEAN /\ lastReady \in BOOLEAN
    /\ runPc \in {"wait", "apply"}
    /\ issued \subseteq Tokens /\ subs \subseteq issued
    /\ expires \in [Tokens -> Nat]
    /\ queue \in [Tokens -> Seq(Event)]
    /\ signal \in [Tokens -> BOOLEAN]
    /\ pullPc \in [Pullers -> {"idle", "lock", "select"}]
    /\ pullTok \in [Pullers -> Tokens]
    /\ pullLim \in [Pullers -> Limits]
    /\ sent \in [Tokens -> Nat]
    /\ delivered \in [Tokens -> Nat]

(***************************************************************************)
(* newEventBroker: no subscriptions, lastReady read from the callback.     *)
(***************************************************************************)
Init ==
    /\ now = 0 /\ flips = 0
    /\ ready \in BOOLEAN
    /\ runPc = "wait" /\ current = ready /\ lastReady = ready
    /\ issued = {} /\ subs = {}
    /\ expires = [t \in Tokens |-> 0]
    /\ queue = [t \in Tokens |-> <<>>]
    /\ signal = [t \in Tokens |-> FALSE]
    /\ pullPc = [p \in Pullers |-> "idle"]
    /\ pullTok \in [Pullers -> Tokens]
    /\ pullLim \in [Pullers -> Limits]
    /\ sent = [t \in Tokens |-> 0]
    /\ delivered = [t \in Tokens |-> 0]

(***************************************************************************)
(* Environment: time passes, and the capture pipeline goes up and down.    *)
(***************************************************************************)
AdvanceClock ==
    /\ now < MaxTime
    /\ now' = now + 1
    /\ UNCHANGED <<ready, flips, runVars, subVars, pullVars>>

FlipReady ==
    /\ flips < MaxFlips
    /\ ready' = ~ready
    /\ flips' = flips + 1
    /\ UNCHANGED <<now, runVars, subVars, pullVars>>
-----------------------------------------------------------------------------
(***************************************************************************)
(* Helpers called with the mutex held.                                     *)
(***************************************************************************)
\* Faulty variant: an entry that expires right now is kept.
cleanupLockedKeepsNow(t) == {s \in subs : expires[s] >= t}

cleanupLocked(t) == {s \in subs : expires[s] > t}

\* The queue enqueueLocked leaves: at the limit the oldest entries make room.
enqueued(q, e) ==
    Append(IF Len(q) >= MaxEventQueue
           THEN SubSeq(q, Len(q) - MaxEventQueue + 2, Len(q)) ELSE q, e)

Notification(t, loss, op) == [videoLoss |-> loss, operation |-> op, n |-> sent[t] + 1]

\* enqueueAllLocked (and, for one subscription, enqueueLocked): append, then a
\* non-blocking send on the one-place signal channel.
enqueueAllLocked(S, loss, op) ==
    /\ queue' = [t \in Tokens |-> IF t \in S THEN enqueued(queue[t], Notification(t, loss, op))
                                  ELSE queue[t]]
    /\ signal' = [t \in Tokens |-> signal[t] \/ t \in S]
    /\ sent' = [t \in Tokens |-> IF t \in S THEN sent[t] + 1 ELSE sent[t]]
-----------------------------------------------------------------------------
(***************************************************************************)
(* run: the value is read before the mutex is taken, and may be stale when *)
(* it is applied.                                                          *)
(***************************************************************************)
TickRead ==
    /\ runPc = "wait"
    /\ current' = ready
    /\ runPc' = "apply"
    /\ UNCHANGED <<clockVars, lastReady, subVars, pullVars>>

\* Faulty variant: lastReady is not updated.
TickApplyForgets ==
    /\ runPc = "apply"
    /\ runPc' = "wait"
    /\ subs' = cleanupLocked(now)
    /\ IF current # lastReady
       THEN enqueueAllLocked(subs', ~current, "Changed")
       ELSE UNCHANGED <<queue, signal, sent>>
    /\ UNCHANGED <<clockVars, current, lastReady, issued, expires, pullVars>>

\* Faulty variant: the readiness itself is sent as the loss.
TickApplyInverted ==
    /\ runPc = "apply"
    /\ runPc' = "wait"
    /\ subs' = cleanupLocked(now)
    /\ lastReady' = current
    /\ IF current # lastReady
       THEN enqueueAllLocked(subs', current, "Changed")
       ELSE UNCHANGED <<queue, signal, sent>>
    /\ UNCHANGED <<clockVars, current, issued, expires, pullVars>>

TickApply ==
    /\ runPc = "apply"
    /\ runPc' = "wait"
    /\ subs' = cleanupLocked(now)
    /\ lastReady' = current
    /\ IF current # lastReady
       THEN enqueueAllLocked(subs', ~current, "Changed")
       ELSE UNCHANGED <<queue, signal, sent>>
    /\ UNCHANGED <<clockVars, current, issued, expires, pullVars>>
-----------------------------------------------------------------------------
(***************************************************************************)
(* create: its time is read before the mutex is taken, so it may lie in    *)
(* the past (t0) when the clean-up and the expiry use it.  Refused at the  *)
(* limit, and when no random token can be drawn.                           *)
(***************************************************************************)
create(t, ttl, t0) ==
    /\ t \notin issued
    /\ Cardinality(cleanupLocked(t0)) < MaxPullPoints
    /\ subs' = cleanupLocked(t0) \cup {t}
    /\ issued' = issued \cup {t}
    /\ expires' = [expires EXCEPT ![t] = t0 + ttl]
    /\ UNCHANGED <<clockVars, runVars, queue, signal, sent, pullVars>>

createRefused(t0) ==
    /\ subs' = cleanupLocked(t0)
    /\ UNCHANGED <<clockVars, runVars, issued, expires, queue, signal, sent, pullVars>>

renew(t, ttl) ==
    /\ subs' = cleanupLocked(now)
    /\ expires' = IF t \in subs' THEN [expires EXCEPT ![t] = now + ttl] ELSE expires
    /\ UNCHANGED <<clockVars, runVars, issued, queue, signal, sent, pullVars>>

\* No clean-up: an entry that has expired is still found and deleted.
unsubscribe(t) ==
    /\ t \in subs
    /\ subs' = subs \ {t}
    /\ UNCHANGED <<clockVars, runVars, issued, expires, queue, signal, sent, pullVars>>

\* The callback is read with the mutex held, unlike in run.
synchronizationPoint(t) ==
    /\ sent[t] < MaxSent
    /\ subs' = cleanupLocked(now)
    /\ IF t \in subs'
       THEN enqueueAllLocked({t}, ~ready, "Initialized")
       ELSE UNCHANGED <<queue, signal, sent>>
    /\ UNCHANGED <<clockVars, runVars, issued, expires, pullVars>>
-----------------------------------------------------------------------------
(***************************************************************************)
(* pull: a loop around the locked section and a select over the deadline,  *)
(* the request context and the subscription's signal channel.              *)
(***************************************************************************)
pull(p, t, l) ==
    /\ pullPc[p] = "idle"
    /\ pullPc' = [pullPc EXCEPT ![p] = "lock"]
    /\ pullTok' = [pullTok EXCEPT ![p] = t]
    /\ pullLim' = [pullLim EXCEPT ![p] = l]
    /\ UNCHANGED <<clockVars, runVars, subVars, delivered>>

\* Faulty variant: the last notification handed out also stays queued.
pullTakeKeepsOne(p) ==
    LET t == pullTok[p]
        k == IF pullLim[p] > Len(queue[t]) THEN Len(queue[t]) ELSE pullLim[p]
    IN  /\ queue[t] # <<>>
        /\ queue' = [queue EXCEPT ![t] = SubSeq(@, k, Len(@))]
        /\ delivered' = [delivered EXCEPT ![t] = queue[t][k].n]
        /\ pullPc' = [pullPc EXCEPT ![p] = "idle"]

\* Up to limit notifications leave the queue with the response.
pullTake(p) ==
    LET t == pullTok[p]
        k == IF pullLim[p] > Len(queue[t]) THEN Len(queue[t]) ELSE pullLim[p]
    IN  /\ queue[t] # <<>>
        /\ queue' = [queue EXCEPT ![t] = SubSeq(@, k + 1, Len(@))]
        /\ delivered' = [delivered EXCEPT ![t] = queue[t][k].n]
        /\ pullPc' = [pullPc EXCEPT ![p] = "idle"]

\* Unknown token: fault.  Queue not empty: respond.  Otherwise block.
pullLocked(p) ==
    /\ pullPc[p] = "lock"
    /\ subs' = cleanupLocked(now)
    /\ \/ /\ pullTok[p] \notin subs'
          /\ pullPc' = [pullPc EXCEPT ![p] = "idle"]
          /\ UNCHANGED <<queue, delivered>>
       \/ /\ pullTok[p] \in subs'
          /\ pullTake(p)
       \/ /\ pullTok[p] \in subs'
          /\ queue[pullTok[p]] = <<>>
          /\ pullPc' = [pullPc EXCEPT ![p] = "select"]
          /\ UNCHANGED <<queue, delivered>>
    /\ UNCHANGED <<clockVars, runVars, issued, expires, signal, sent,
                   pullTok, pullLim>>

\* Faulty variant: a woken pull answers at once instead of looking again.
pullSignalledReturns(p) ==
    /\ pullPc[p] = "select"
    /\ signal[pullTok[p]]
    /\ signal' = [signal EXCEPT ![pullTok[p]] = FALSE]
    /\ pullPc' = [pullPc EXCEPT ![p] = "idle"]
    /\ UNCHANGED <<clockVars, runVars, issued, subs, expires, queue, sent,
                   pullTok, pullLim, delivered>>

pullSignalled(p) ==
    /\ pullPc[p] = "select"
    /\ signal[pullTok[p]]
    /\ signal' = [signal EXCEPT ![pullTok[p]] = FALSE]
    /\ pullPc' = [pullPc EXCEPT ![p] = "lock"]
    /\ UNCHANGED <<clockVars, runVars, issued, subs, expires, queue, sent,
                   pullTok, pullLim, delivered>>

\* The deadline passes or the client goes away: an empty, successful response.
pullGivesUp(p) ==
    /\ pullPc[p] = "select"
    /\ pullPc' = [pullPc EXCEPT ![p] = "idle"]
    /\ UNCHANGED <<clockVars, runVars, subVars, pullTok, pullLim, delivered>>
-----------------------------------------------------------------------------
Next ==
    \/ AdvanceClock
    \/ FlipReady
    \/ TickRead
    \/ TickApply
    \/ \E t \in Tokens, ttl \in TTLs, t0 \in 0..now : create(t, ttl, t0)
    \/ \E t0 \in 0..now : createRefused(t0)
    \/ \E t \in Tokens, ttl \in TTLs : renew(t, ttl)
    \/ \E t \in Tokens : unsubscribe(t)
    \/ \E t \in Tokens : synchronizationPoint(t)
    \/ \E p \in Pullers, t \in Tokens, l \in Limits : pull(p, t, l)
    \/ \E p \in Pullers : pullLocked(p)
    \/ \E p \in Pullers : pullSignalled(p)
    \/ \E p \in Pullers : pullGivesUp(p)

Spec == Init /\ [][Next]_vars
-----------------------------------------------------------------------------
(***************************************************************************)
(* Safety.                                                                 *)
(***************************************************************************)
\* create's limit (maxPullPoints) holds in every interleaving, although create
\* cleans up with a time that may be older than the clean-up before it.
SubsBounded == Cardinality(subs) <= MaxPullPoints

\* enqueueLocked and pull together keep a queue a bounded window on the newest
\* notifications: no gap, no reordering, and only the oldest are ever dropped.
QueueIsNewestSuffix ==
    \A t \in Tokens :
        /\ Len(queue[t]) <= MaxEventQueue
        /\ \A i \in 1..Len(queue[t]) : queue[t][i].n = sent[t] - Len(queue[t]) + i

\* Concurrent pulls of one subscription never hand a notification out twice
\* and never one that is older than what was handed out before.
DeliveredOnce ==
    \A t \in Tokens :
        /\ delivered[t] <= sent[t]
        /\ \A i \in 1..Len(queue[t]) : queue[t][i].n > delivered[t]

\* The Changed notifications of a live queue alternate, and the newest of them
\* reports what run last saw: no transition is reported twice (run compares
\* with lastReady under the mutex, a client may synchronise in between).
ChangedAlternates ==
    \A t \in subs :
        \A i \in {k \in 1..Len(queue[t]) : queue[t][k].operation = "Changed"} :
            LET later == {k \in (i+1)..Len(queue[t]) : queue[t][k].operation = "Changed"}
            IN  IF later = {}
                THEN queue[t][i].videoLoss = ~lastReady
                ELSE \E k \in later : /\ \A m \in later : k <= m
                                      /\ queue[t][k].videoLoss = ~queue[t][i].videoLoss

\* A pull blocked in select while its live subscription has something queued
\* is about to be woken: the signal is pending, or another pull of the same
\* subscription holds it and is about to look at the queue.
NoLostWakeup ==
    \A p \in Pullers :
        /\ pullPc[p] = "select"
        /\ pullTok[p] \in subs
        /\ queue[pullTok[p]] # <<>>
        => \/ signal[pullTok[p]]
           \/ \E q \in Pullers : pullPc[q] = "lock" /\ pullTok[q] = pullTok[p]

\* NoLostWakeup needs one of these: a subscription is pulled by one client at
\* a time, or every pull's limit empties the queue.  Otherwise the pull that
\* took the signal may leave notifications behind and wake nobody.
OnePullerOrFullDrain ==
    \/ \A p, q \in Pullers : p = q
    \/ \A l \in Limits : l >= MaxEventQueue

\* A step queues a notification for, or takes one from, a subscription only
\* before its termination time: renewals, ticks and pulls that race with the
\* expiry all clean up first.
ServedOnlyWhileAlive ==
    [][\A t \in Tokens :
          sent'[t] # sent[t] \/ delivered'[t] # delivered[t] => expires[t] > now]_vars

Feed == INSTANCE EventFeed

\* Whatever ticks, polls, expiries and late times do to each other, a client
\* sees a feed: no subscription that is open misses a change, none comes back
\* after its end or is opened beyond the limit, and what leaves a queue is handed
\* out, or the oldest entry of a full one.
FeedSpec == Feed!Spec
=============================================================================
