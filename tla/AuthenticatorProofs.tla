------------------------ MODULE AuthenticatorProofs ------------------------
(***************************************************************************)
(* For any number of handlers, any requests and any delays between reading *)
(* the clock and taking the mutex: the replay cache keeps its window, and  *)
(* a Digest request with qop=auth, or a token that is not dated into the   *)
(* future, is accepted once while it is fresh.                             *)
(***************************************************************************)
EXTENDS Authenticator, TLAPS

\* A handler that is past a check holds credentials of that kind, and no time
\* it has read lies in the future.
HandlersOK ==
    \A h \in Handlers :
        /\ pc[h] \in {"http", "httpLock"} => http[h] \in HttpKeys
        /\ pc[h] = "wsseLock" => wsse[h] \in WsseKeys
        /\ at[h] <= now

\* A key that was accepted less than TTL ago is still in the cache.
CacheOK ==
    \A k \in Keys :
        last[k] # -1 => /\ last[k] \in Nat /\ last[k] <= now
                        /\ now <= last[k] + TTL => replay[k] = last[k] + TTL

CacheInv == TypeOK /\ HandlersOK /\ CacheOK

LEMMA CacheInit == Init => CacheInv
  BY AuthConstants DEF Init, CacheInv, TypeOK, HandlersOK, CacheOK, HttpKeys, WsseKeys, Keys

\* The sweep keeps every entry whose window is not over.
LEMMA SweepKeeps ==
    ASSUME CacheInv, NEW t \in Nat, t <= now, NEW k \in Keys, last[k] # -1, now <= last[k] + TTL
    PROVE  swept(t)[k] = last[k] + TTL /\ swept(t)[k] # -1
  BY AuthConstants DEF CacheInv, CacheOK, TypeOK, swept

LEMMA SweepType ==
    ASSUME TypeOK, NEW t \in Nat
    PROVE  swept(t) \in [Keys -> Int] /\ \A k \in Keys : swept(t)[k] >= -1
  BY DEF TypeOK, swept

HandlerType ==
    /\ pc \in [Handlers -> {"idle", "http", "httpLock", "wsse", "wsseLock"}]
    /\ http \in [Handlers -> HttpKeys \cup {NoKey}]
    /\ wsse \in [Handlers -> WsseKeys \cup {NoKey}]
    /\ at \in [Handlers -> Nat]

LEMMA ChallengeType ==
    ASSUME TypeOK, Challenge
    PROVE  issued' \in [0..MaxRestarts -> SUBSET (0..MaxTime)]
  <1>1. issued[secret] \cup {now} \in SUBSET (0..MaxTime)
    BY DEF TypeOK
  <1> QED BY <1>1 DEF TypeOK, Challenge

LEMMA AnswerStep ==
    ASSUME CacheInv, NEW h \in Handlers, answer(h), now' = now
    PROVE  HandlerType' /\ HandlersOK'
  <1>1. now \in Nat
    BY AuthConstants DEF CacheInv, TypeOK
  <1>2. HandlerType /\ HandlersOK
    BY DEF CacheInv, TypeOK, HandlerType
  <1>3. HandlerType'
    BY <1>2 DEF HandlerType, answer
  <1>4. \A g \in Handlers : g # h => pc'[g] = pc[g] /\ http'[g] = http[g] /\ wsse'[g] = wsse[g]
                                     /\ at'[g] = at[g]
    BY <1>2 DEF HandlerType, answer
  <1>5. pc'[h] = "idle" /\ at'[h] = 0
    BY <1>2 DEF HandlerType, answer
  <1> QED BY <1>1, <1>2, <1>3, <1>4, <1>5 DEF HandlersOK

LEMMA GotoStep ==
    ASSUME CacheInv, NEW h \in Handlers, NEW where \in {"wsse", "wsseLock"}, goto(h, where),
           at' = at \/ at' = [at EXCEPT ![h] = now], now' = now,
           where = "wsseLock" => wsse[h] \in WsseKeys
    PROVE  HandlerType' /\ HandlersOK'
  <1>1. now \in Nat
    BY AuthConstants DEF CacheInv, TypeOK
  <1>2. HandlerType /\ HandlersOK
    BY DEF CacheInv, TypeOK, HandlerType
  <1>3. HandlerType'
    BY <1>1, <1>2 DEF HandlerType, goto
  <1>4. \A g \in Handlers : at'[g] <= now
    BY <1>1, <1>2 DEF HandlerType, HandlersOK
  <1> QED BY <1>2, <1>3, <1>4 DEF HandlersOK, HandlerType, goto

\* What one visit to the cache does to the invariant.
LEMMA CacheVisit ==
    ASSUME CacheInv, NEW h \in Handlers, NEW k \in Keys,
           acceptReplayKey(h, k) \/ refuseReplayKey(h, k), now' = now
    PROVE  /\ replay' \in [Keys -> Int] /\ \A j \in Keys : replay'[j] >= -1
           /\ uses' \in [Keys -> Nat] /\ last' \in [Keys -> Int]
           /\ CacheOK'
           /\ \A j \in Keys : uses'[j] # uses[j] /\ last[j] # -1 => now > last[j] + TTL
  <1> DEFINE s == swept(at[h])
  <1>1. at[h] \in Nat /\ at[h] <= now /\ now \in Nat /\ TTL \in Nat
    BY AuthConstants DEF CacheInv, TypeOK, HandlersOK
  <1>2. s \in [Keys -> Int] /\ \A j \in Keys : s[j] >= -1
    BY <1>1, SweepType DEF CacheInv
  <1>3. \A j \in Keys : last[j] # -1 /\ now <= last[j] + TTL => s[j] = last[j] + TTL /\ s[j] # -1
    BY <1>1, SweepKeeps
  <1>4. \A j \in Keys : last[j] # -1 => last[j] \in Nat /\ last[j] <= now
    BY DEF CacheInv, CacheOK
  <1>5. uses \in [Keys -> Nat] /\ last \in [Keys -> Int]
    BY DEF CacheInv, TypeOK
  <1> HIDE DEF s
  <1>6. CASE acceptReplayKey(h, k)
    <2>1. /\ s[k] = -1
          /\ replay' = [s EXCEPT ![k] = at[h] + TTL]
          /\ uses' = [uses EXCEPT ![k] = @ + 1] /\ last' = [last EXCEPT ![k] = at[h]]
      BY <1>6 DEF acceptReplayKey, s
    <2>2. last[k] # -1 => now > last[k] + TTL
      BY <1>1, <1>3, <1>4, <2>1
    <2>3. CacheOK'
      BY <1>1, <1>2, <1>3, <1>4, <1>5, <2>1 DEF CacheOK
    <2> QED BY <1>1, <1>2, <1>5, <2>1, <2>2, <2>3
  <1>7. CASE refuseReplayKey(h, k)
    <2>1. replay' = s /\ uses' = uses /\ last' = last
      BY <1>7 DEF refuseReplayKey, s
    <2>2. CacheOK'
      BY <1>3, <1>4, <2>1 DEF CacheOK
    <2> QED BY <1>2, <1>5, <2>1, <2>2
  <1> QED BY <1>6, <1>7

LEMMA CacheStep == CacheInv /\ [Next]_vars => CacheInv'
  <1> SUFFICES ASSUME CacheInv, [Next]_vars PROVE CacheInv'
    OBVIOUS
  <1> USE AuthConstants
  <1>0. now \in Nat
    BY DEF CacheInv, TypeOK
  <1>1. CASE AdvanceClock
    BY <1>0, <1>1 DEF AdvanceClock, CacheInv, TypeOK, HandlersOK, CacheOK
  <1>2. CASE Restart
    BY <1>0, <1>2 DEF Restart, CacheInv, TypeOK, HandlersOK, CacheOK
  <1>3. ASSUME NEW h \in Handlers, NEW k \in HttpKeys \cup {NoKey}, NEW w \in WsseKeys \cup {NoKey},
               VerifyHTTP(h, k, w)
        PROVE CacheInv'
    <2>1. CacheOK'
      BY <1>3 DEF VerifyHTTP, CacheInv, CacheOK
    <2>2. TypeOK'
      <3>1. issued' \in [0..MaxRestarts -> SUBSET (0..MaxTime)]
        BY <1>3, ChallengeType DEF VerifyHTTP, CacheInv, TypeOK
      <3>2. HandlerType'
        BY <1>3 DEF VerifyHTTP, CacheInv, TypeOK, HandlerType
      <3> QED BY <1>3, <3>1, <3>2 DEF VerifyHTTP, CacheInv, TypeOK, HandlerType
    <2>3. HandlersOK'
      BY <1>3 DEF VerifyHTTP, CacheInv, HandlersOK, TypeOK
    <2> QED BY <2>1, <2>2, <2>3 DEF CacheInv
  <1>4. ASSUME NEW h \in Handlers, HTTPTime(h) PROVE CacheInv'
    BY <1>0, <1>4 DEF HTTPTime, goto, CacheInv, TypeOK, HandlersOK, CacheOK
  <1>5. ASSUME NEW h \in Handlers, VerifyWSSE(h) PROVE CacheInv'
    <2>1. CacheOK'
      BY <1>5 DEF VerifyWSSE, CacheInv, CacheOK
    <2>2. HandlerType' /\ HandlersOK'
      <3>1. wsse[h] # NoKey => wsse[h] \in WsseKeys
        BY DEF CacheInv, TypeOK
      <3> QED BY <1>5, <3>1, AnswerStep, GotoStep DEF VerifyWSSE
    <2>3. TypeOK'
      <3>1. issued' \in [0..MaxRestarts -> SUBSET (0..MaxTime)]
        BY <1>5, ChallengeType DEF VerifyWSSE, CacheInv, TypeOK
      <3> QED BY <1>5, <2>2, <3>1 DEF VerifyWSSE, CacheInv, TypeOK, HandlerType
    <2> QED BY <2>1, <2>2, <2>3 DEF CacheInv
  <1>6. ASSUME NEW h \in Handlers, HTTPLock(h) PROVE CacheInv'
    <2>1. http[h] \in Keys
      BY <1>6 DEF HTTPLock, CacheInv, HandlersOK, Keys
    <2>2. /\ replay' \in [Keys -> Int] /\ \A j \in Keys : replay'[j] >= -1
          /\ uses' \in [Keys -> Nat] /\ last' \in [Keys -> Int]
          /\ CacheOK'
      BY <1>6, <2>1, CacheVisit DEF HTTPLock
    <2>3. HandlerType' /\ HandlersOK'
      BY <1>6, AnswerStep, GotoStep DEF HTTPLock
    <2>4. TypeOK'
      BY <1>6, <2>2, <2>3 DEF HTTPLock, CacheInv, TypeOK, HandlerType
    <2> QED BY <2>2, <2>3, <2>4 DEF CacheInv
  <1>7. ASSUME NEW h \in Handlers, WSSELock(h) PROVE CacheInv'
    <2>1. wsse[h] \in Keys
      BY <1>7 DEF WSSELock, CacheInv, HandlersOK, Keys
    <2>2. /\ replay' \in [Keys -> Int] /\ \A j \in Keys : replay'[j] >= -1
          /\ uses' \in [Keys -> Nat] /\ last' \in [Keys -> Int]
          /\ CacheOK'
      BY <1>7, <2>1, CacheVisit DEF WSSELock
    <2>3. HandlerType' /\ HandlersOK'
      BY <1>7, AnswerStep DEF WSSELock
    <2>4. TypeOK'
      <3>1. issued' \in [0..MaxRestarts -> SUBSET (0..MaxTime)]
        BY <1>7, ChallengeType DEF WSSELock, CacheInv, TypeOK
      <3> QED BY <1>7, <2>2, <2>3, <3>1 DEF WSSELock, CacheInv, TypeOK, HandlerType
    <2> QED BY <2>2, <2>3, <2>4 DEF CacheInv
  <1>8. CASE UNCHANGED vars
    BY <1>8 DEF vars, CacheInv, TypeOK, HandlersOK, CacheOK
  <1>9. ASSUME NEW h \in Handlers, NEW n \in Nonces, VerifyWithoutQop(h, n) PROVE CacheInv'
    BY <1>9 DEF VerifyWithoutQop, CacheInv, TypeOK, HandlersOK, CacheOK
  <1> QED BY <1>1, <1>2, <1>3, <1>4, <1>5, <1>6, <1>7, <1>8, <1>9 DEF Next

\* The Authenticator's state keeps its type for every set of handlers,
\* requests and every TTL.
THEOREM TypeCorrect == Spec => []TypeOK
  <1>1. CacheInv => TypeOK
    BY DEF CacheInv
  <1> QED BY CacheInit, CacheStep, <1>1, PTL DEF Spec

LEMMA WindowStep ==
    CacheInv /\ [Next]_vars =>
        [\A k \in Keys : uses'[k] # uses[k] /\ last[k] # -1 => now > last[k] + TTL]_vars
  <1> SUFFICES ASSUME CacheInv, Next, NEW k \in Keys, uses'[k] # uses[k], last[k] # -1
               PROVE  now > last[k] + TTL
    OBVIOUS
  <1>1. PICK h \in Handlers : HTTPLock(h) \/ WSSELock(h)
    BY DEF Next, AdvanceClock, Restart, VerifyHTTP, VerifyWithoutQop, HTTPTime, VerifyWSSE
  <1>2. CASE HTTPLock(h)
    <2>1. http[h] \in Keys
      BY <1>2 DEF HTTPLock, CacheInv, HandlersOK, Keys
    <2> QED BY <1>2, <2>1, CacheVisit DEF HTTPLock
  <1>3. CASE WSSELock(h)
    <2>1. wsse[h] \in Keys
      BY <1>3 DEF WSSELock, CacheInv, HandlersOK, Keys
    <2> QED BY <1>3, <2>1, CacheVisit DEF WSSELock
  <1> QED BY <1>1, <1>2, <1>3

\* acceptReplayKey never accepts a key a second time within TTL, however many
\* handlers sweep the cache with whatever old times.
THEOREM WindowKept == Spec => ReplayWindow
  BY CacheInit, CacheStep, WindowStep, PTL DEF Spec, ReplayWindow

LEMMA TokenStep ==
    CacheInv /\ [Next]_vars =>
        [\A k \in WsseKeys :
            uses'[k] # uses[k] /\ last[k] # -1 /\ k.ts <= last[k] => now > k.ts + TTL]_vars
  <1> SUFFICES ASSUME CacheInv, Next, vars' # vars, NEW k \in WsseKeys,
                      uses'[k] # uses[k], last[k] # -1, k.ts <= last[k]
               PROVE  now > k.ts + TTL
    OBVIOUS
  <1>1. k \in Keys /\ k.ts \in Int
    BY AuthConstants DEF WsseKeys, Keys
  <1>2. now > last[k] + TTL
    BY <1>1, WindowStep
  <1>3. last[k] \in Int /\ now \in Int /\ TTL \in Int
    BY <1>1, AuthConstants DEF CacheInv, TypeOK
  <1> QED BY <1>1, <1>2, <1>3

\* A WS-Security token that was not dated into the future when it was accepted is
\* accepted again, within one run of the agent, only by a handler that was held up
\* until the token was too old.
THEOREM TokenAcceptedOnce == Spec => TokenOnce
  BY CacheInit, CacheStep, TokenStep, PTL DEF Spec, TokenOnce
-----------------------------------------------------------------------------
\* A handler that is past validNonce holds a nonce of this process, issued
\* before the time it has read for the cache.
DigestOK ==
    /\ \A s \in 0..MaxRestarts : \A t \in issued[s] : t <= now
    /\ \A h \in Handlers :
          pc[h] \in {"http", "httpLock"} =>
              /\ http[h].secret = secret /\ http[h].ts <= now
              /\ pc[h] = "httpLock" => http[h].ts <= at[h]

\* A Digest key that was accepted is void, or was accepted after its nonce was
\* issued.
OnceOK ==
    \A k \in HttpKeys :
        uses[k] > 0 => \/ k.secret < secret
                       \/ k.secret = secret /\ last[k] # -1 /\ k.ts <= last[k]

DigestInv == CacheInv /\ DigestOK /\ OnceOK

LEMMA DigestInit == Init => DigestInv
  BY CacheInit DEF Init, DigestInv, DigestOK, OnceOK, Keys

LEMMA KeyTypes == \A k \in HttpKeys : /\ k.ts \in Nat /\ k.secret \in 0..MaxRestarts /\ k \in Keys
  BY AuthConstants DEF HttpKeys, Keys

LEMMA DigestStep == DigestInv /\ [Next]_vars => DigestInv'
  <1> SUFFICES ASSUME DigestInv, [Next]_vars PROVE DigestInv'
    OBVIOUS
  <1> USE AuthConstants
  <1>0. /\ CacheInv /\ CacheInv' /\ DigestOK /\ OnceOK
        /\ now \in Nat /\ now \in 0..MaxTime
    BY CacheStep DEF DigestInv, CacheInv, TypeOK
  <1>1. CASE AdvanceClock
    <2>1. DigestOK'
      <3>1. \A s \in 0..MaxRestarts : \A t \in issued[s] : t \in Nat /\ t <= now
        BY <1>0 DEF DigestOK, CacheInv, TypeOK
      <3>2. \A h \in Handlers : pc[h] \in {"http", "httpLock"} =>
                http[h].ts \in Nat /\ http[h].ts <= now
        BY <1>0, KeyTypes DEF DigestOK, CacheInv, HandlersOK
      <3> QED BY <1>0, <1>1, <3>1, <3>2 DEF AdvanceClock, DigestOK
    <2>2. OnceOK'
      BY <1>0, <1>1 DEF AdvanceClock, OnceOK
    <2> QED BY <1>0, <2>1, <2>2 DEF DigestInv
  <1>2. CASE Restart
    <2>1. DigestOK'
      BY <1>0, <1>2 DEF Restart, DigestOK, CacheInv, TypeOK
    <2>2. OnceOK'
      <3>1. secret \in Nat /\ secret' = secret + 1 /\ uses' = uses
        BY <1>0, <1>2 DEF Restart, CacheInv, TypeOK
      <3>2. \A k \in HttpKeys : k.secret \in Nat
        BY KeyTypes
      <3> QED BY <1>0, <3>1, <3>2 DEF OnceOK
    <2> QED BY <1>0, <2>1, <2>2 DEF DigestInv
  <1>3. ASSUME NEW h \in Handlers, NEW k \in HttpKeys \cup {NoKey}, NEW w \in WsseKeys \cup {NoKey},
               VerifyHTTP(h, k, w)
        PROVE DigestInv'
    <2>1. \A s \in 0..MaxRestarts : \A t \in issued'[s] : t <= now
      BY <1>0, <1>3 DEF VerifyHTTP, Challenge, DigestOK, CacheInv, TypeOK
    <2>2. k # NoKey => k \in HttpKeys /\ k.ts \in Nat /\ k.ts <= now
      BY <1>0, <1>3, KeyTypes DEF VerifyHTTP, DigestOK
    <2>3. DigestOK'
      <3>1. CASE k # NoKey /\ ~validNonce(k)
        BY <1>0, <1>3, <2>1, <3>1 DEF VerifyHTTP, DigestOK
      <3>2. CASE k = NoKey
        BY <1>0, <1>3, <2>1, <3>2 DEF VerifyHTTP, DigestOK, CacheInv, TypeOK
      <3>3. CASE k # NoKey /\ validNonce(k)
        <4>1. /\ pc' = [pc EXCEPT ![h] = "http"] /\ http' = [http EXCEPT ![h] = k]
              /\ now' = now /\ secret' = secret /\ at' = at
          BY <1>3, <3>3 DEF VerifyHTTP
        <4>2. k.secret = secret /\ now <= k.ts + TTL
          BY <1>0, <2>2, <3>3 DEF validNonce
        <4> QED BY <1>0, <2>1, <2>2, <3>3, <4>1, <4>2 DEF DigestOK, CacheInv, TypeOK
      <3> QED BY <3>1, <3>2, <3>3
    <2>4. OnceOK'
      BY <1>0, <1>3 DEF VerifyHTTP, OnceOK
    <2> QED BY <1>0, <2>3, <2>4 DEF DigestInv
  <1>4. ASSUME NEW h \in Handlers, HTTPTime(h) PROVE DigestInv'
    <2>1. DigestOK'
      BY <1>0, <1>4 DEF HTTPTime, goto, DigestOK, CacheInv, TypeOK
    <2>2. OnceOK'
      BY <1>0, <1>4 DEF HTTPTime, OnceOK
    <2> QED BY <1>0, <2>1, <2>2 DEF DigestInv
  <1>5. ASSUME NEW h \in Handlers, VerifyWSSE(h) PROVE DigestInv'
    <2>1. DigestOK'
      <3>1. \A s \in 0..MaxRestarts : \A t \in issued'[s] : t <= now
        BY <1>0, <1>5 DEF VerifyWSSE, Challenge, DigestOK, CacheInv, TypeOK
      <3>2. \A g \in Handlers : pc'[g] \in {"http", "httpLock"} =>
                  g # h /\ pc'[g] = pc[g] /\ http'[g] = http[g] /\ at'[g] = at[g]
        BY <1>0, <1>5 DEF VerifyWSSE, goto, answer, CacheInv, TypeOK
      <3>3. now' = now /\ secret' = secret
        BY <1>5 DEF VerifyWSSE
      <3> QED BY <1>0, <3>1, <3>2, <3>3 DEF DigestOK
    <2>2. OnceOK'
      BY <1>0, <1>5 DEF VerifyWSSE, OnceOK
    <2> QED BY <1>0, <2>1, <2>2 DEF DigestInv
  <1>6. ASSUME NEW h \in Handlers, HTTPLock(h) PROVE DigestInv'
    <2>1. DigestOK'
      BY <1>0, <1>6 DEF HTTPLock, goto, answer, DigestOK, CacheInv, TypeOK
    <2>2. OnceOK'
      <3> DEFINE j == http[h]
      <3>1. /\ j \in HttpKeys /\ j \in Keys /\ j.ts \in Nat /\ j.secret = secret
            /\ j.ts <= at[h] /\ at[h] \in Nat
        BY <1>0, <1>6, KeyTypes DEF HTTPLock, CacheInv, TypeOK, HandlersOK, DigestOK
      <3>2. CASE acceptReplayKey(h, j)
        BY <1>0, <1>6, <3>1, <3>2, KeyTypes
           DEF HTTPLock, acceptReplayKey, OnceOK, CacheInv, TypeOK
      <3>3. CASE refuseReplayKey(h, j)
        BY <1>0, <1>6, <3>3 DEF HTTPLock, refuseReplayKey, OnceOK
      <3> QED BY <1>6, <3>2, <3>3 DEF HTTPLock
    <2> QED BY <1>0, <2>1, <2>2 DEF DigestInv
  <1>7. ASSUME NEW h \in Handlers, WSSELock(h) PROVE DigestInv'
    <2>1. DigestOK'
      BY <1>0, <1>7 DEF WSSELock, Challenge, answer, DigestOK, CacheInv, TypeOK
    <2>2. wsse[h] \in WsseKeys /\ wsse[h] \notin HttpKeys
      BY <1>0, <1>7 DEF WSSELock, CacheInv, HandlersOK, WsseKeys, HttpKeys
    <2>3. OnceOK'
      BY <1>0, <1>7, <2>2, KeyTypes
         DEF WSSELock, acceptReplayKey, refuseReplayKey, OnceOK, CacheInv, TypeOK
    <2> QED BY <1>0, <2>1, <2>3 DEF DigestInv
  <1>8. CASE UNCHANGED vars
    BY <1>0, <1>8 DEF vars, DigestInv, DigestOK, OnceOK
  <1>9. ASSUME NEW h \in Handlers, NEW n \in Nonces, VerifyWithoutQop(h, n) PROVE DigestInv'
    BY <1>0, <1>9 DEF VerifyWithoutQop, DigestInv, DigestOK, OnceOK
  <1> QED BY <1>1, <1>2, <1>3, <1>4, <1>5, <1>6, <1>7, <1>8, <1>9 DEF Next

LEMMA OnceStep ==
    DigestInv /\ [Next]_vars =>
        [\A k \in HttpKeys : uses'[k] # uses[k] /\ uses[k] > 0 => now > k.ts + TTL]_vars
  <1> SUFFICES ASSUME DigestInv, Next, NEW k \in HttpKeys, uses'[k] # uses[k], uses[k] > 0
               PROVE  now > k.ts + TTL
    OBVIOUS
  <1>0. CacheInv /\ DigestOK /\ OnceOK /\ k \in Keys /\ k.ts \in Nat /\ k.secret \in Nat
    BY KeyTypes DEF DigestInv
  <1>1. PICK h \in Handlers : HTTPLock(h) \/ WSSELock(h)
    BY DEF Next, AdvanceClock, Restart, VerifyHTTP, VerifyWithoutQop, HTTPTime, VerifyWSSE
  <1>2. HTTPLock(h) /\ http[h] = k
    <2>1. WSSELock(h) => wsse[h] \in WsseKeys /\ wsse[h] # k
      BY <1>0 DEF WSSELock, CacheInv, HandlersOK, WsseKeys, HttpKeys
    <2> QED BY <1>0, <1>1, <2>1
            DEF HTTPLock, WSSELock, acceptReplayKey, refuseReplayKey, CacheInv, TypeOK
  <1>3. last[k] # -1 /\ k.ts <= last[k]
    <2>1. k.secret = secret /\ secret \in Nat
      BY <1>0, <1>2 DEF HTTPLock, DigestOK, CacheInv, TypeOK
    <2> QED BY <1>0, <2>1 DEF OnceOK
  <1>4. now > last[k] + TTL
    BY <1>0, <1>2, <1>3, CacheVisit DEF HTTPLock
  <1>5. last[k] \in Nat /\ now \in Nat /\ TTL \in Nat
    BY <1>0, <1>3, AuthConstants DEF CacheInv, CacheOK, TypeOK
  <1> QED BY <1>0, <1>3, <1>4, <1>5

\* A Digest request with qop=auth is accepted a second time only by a handler that was held
\* up until the nonce was too old, over any number of clean-ups of the cache
\* and restarts of the agent.
THEOREM DigestAcceptedOnce == Spec => DigestOnce
  BY DigestInit, DigestStep, OnceStep, PTL DEF Spec, DigestOnce
=============================================================================
