----------------------------- MODULE EventFeed -----------------------------
(***************************************************************************)
(* What the event broker (EventBroker) promises its clients, without its   *)
(* clock, mutex, signal channels and polls: subscriptions that may end in  *)
(* any step, and for each a feed of numbered notifications that loses      *)
(* nothing but its oldest entry when it is full.  Every change of the      *)
(* readiness is told to all subscriptions that are open, at once.          *)
(***************************************************************************)
EXTENDS Integers, Sequences, FiniteSets

CONSTANTS Tokens, MaxEventQueue, MaxPullPoints   \* as in EventBroker

VARIABLES
    lastReady,   \* the readiness that was told last
    issued,      \* tokens of subscriptions that are, or were, open
    subs,        \* those that are open
    queue,       \* notifications not handed out yet
    sent,        \* number of the newest notification
    delivered    \* number of the newest one that was handed out

vars == <<lastReady, issued, subs, queue, sent, delivered>>

Init ==
    /\ lastReady \in BOOLEAN
    /\ issued = {} /\ subs = {}
    /\ queue = [t \in Tokens |-> <<>>]
    /\ sent = [t \in Tokens |-> 0] /\ delivered = [t \in Tokens |-> 0]

\* A feed with one more notification.
Put(q, e) == Append(IF Len(q) = MaxEventQueue THEN Tail(q) ELSE q, e)

Notify(S, loss, op) ==
    /\ queue' = [t \in Tokens |->
                    IF t \in S
                    THEN Put(queue[t], [videoLoss |-> loss, operation |-> op, n |-> sent[t] + 1])
                    ELSE queue[t]]
    /\ sent' = [t \in Tokens |-> IF t \in S THEN sent[t] + 1 ELSE sent[t]]

SomeEnd == subs' \subseteq subs /\ UNCHANGED issued
-----------------------------------------------------------------------------
\* A new subscription has nothing to be told yet, and finds room.
Open(t) ==
    /\ t \notin issued /\ queue[t] = <<>>
    /\ issued' = issued \cup {t}
    /\ t \in subs' /\ subs' \subseteq subs \cup {t}
    /\ Cardinality(subs') <= MaxPullPoints
    /\ UNCHANGED <<lastReady, queue, sent, delivered>>

Close == SomeEnd /\ UNCHANGED <<lastReady, queue, sent, delivered>>

Change ==
    /\ SomeEnd
    /\ lastReady' = ~lastReady
    /\ Notify(subs', ~lastReady', "Changed")
    /\ UNCHANGED delivered

Synchronize(t) ==
    /\ SomeEnd /\ t \in subs'
    /\ \E loss \in BOOLEAN : Notify({t}, loss, "Initialized")
    /\ UNCHANGED <<lastReady, delivered>>

\* The oldest k notifications, in one answer.
HandOut(t, k) ==
    /\ SomeEnd /\ t \in subs'
    /\ queue' = [queue EXCEPT ![t] = SubSeq(@, k + 1, Len(@))]
    /\ delivered' = [delivered EXCEPT ![t] = queue[t][k].n]
    /\ UNCHANGED <<lastReady, sent>>

Next ==
    \/ Close \/ Change
    \/ \E t \in Tokens : Open(t) \/ Synchronize(t)
    \/ \E t \in Tokens : \E k \in 1..Len(queue[t]) : HandOut(t, k)

Spec == Init /\ [][Next]_vars
=============================================================================
