--------------------------- MODULE Authenticator ---------------------------
(***************************************************************************)
(* The authentication of SOAP requests: readAuthorizedSOAP of              *)
(* internal/onvif/server.go, and the Authenticator of                      *)
(* internal/auth/digest.go with its one replay cache for HTTP Digest and   *)
(* WS-Security tokens.                                                     *)
(*                                                                         *)
(* Handlers run concurrently and share only the cache, under a mutex; each *)
(* reads the clock before it takes the mutex, so the time it sweeps and    *)
(* stores with may be old by then.  The cache and the nonce secret live as *)
(* long as the process.                                                    *)
(*                                                                         *)
(* Only requests with the right user name, URI and digest are modelled: no *)
(* other one is accepted.  A Digest request without qop does not reach the *)
(* cache: it is accepted as often as it comes while its nonce is valid.    *)
(***************************************************************************)
EXTENDS Integers

CONSTANTS
    Handlers,     \* HTTP handler goroutines
    HttpIds,      \* what else tells two Digest requests apart: nc, cnonce, URI
    WsseIds,      \* the nonces of WS-Security tokens, and
    Created,      \* the timestamps their clients put into them
    NoKey,        \* the request has no credentials of that kind
    TTL,          \* Authenticator.TTL, in ticks
    MaxTime,      \* bound on the clock
    MaxRestarts,  \* bound on the restarts of the agent
    MaxPlain      \* bound on accepted requests without qop

\* A Digest nonce is a timestamp and the secret that signed it.
Nonces == [ts : 0..MaxTime, secret : 0..MaxRestarts]

\* What acceptReplayKey is called with: for a Digest request with qop=auth its
\* nonce and the rest, for a token the timestamp its client put into it and the rest.
HttpKeys == [scheme : {"http"}, ts : 0..MaxTime, secret : 0..MaxRestarts, id : HttpIds]
WsseKeys == [scheme : {"wsse"}, ts : Created, secret : {0}, id : WsseIds]
Keys     == HttpKeys \cup WsseKeys

ASSUME AuthConstants ==
    /\ TTL \in Nat /\ MaxTime \in Nat /\ MaxRestarts \in Nat /\ MaxPlain \in Nat
    /\ Created \subseteq Int
    /\ NoKey \notin Keys

VARIABLES
    now,      \* time.Now
    secret,   \* which secret New has drawn, one per process
    issued,   \* timestamps Challenge has put into nonces, by secret
    replay,   \* Authenticator.replay: the expiry of a key, -1 if it has none
    pc,       \* where a handler is
    http,     \* the Digest credentials of its request
    wsse,     \* the UsernameToken of its request
    at,       \* the time it read last
    uses,     \* history: how often a key was accepted
    plain,    \* history: how many requests without qop were accepted
    last      \* history: the time acceptReplayKey of this process last accepted its
              \* key with, or -1

vars == <<now, secret, issued, replay, pc, http, wsse, at, uses, last, plain>>

TypeOK ==
    /\ now \in 0..MaxTime /\ secret \in 0..MaxRestarts
    /\ issued \in [0..MaxRestarts -> SUBSET (0..MaxTime)]
    /\ replay \in [Keys -> Int] /\ \A k \in Keys : replay[k] >= -1
    /\ pc \in [Handlers -> {"idle", "http", "httpLock", "wsse", "wsseLock"}]
    /\ http \in [Handlers -> HttpKeys \cup {NoKey}]
    /\ wsse \in [Handlers -> WsseKeys \cup {NoKey}]
    /\ at \in [Handlers -> Nat]
    /\ uses \in [Keys -> Nat] /\ last \in [Keys -> Int] /\ plain \in 0..MaxPlain

Init ==
    /\ now = 0 /\ secret = 0
    /\ issued = [s \in 0..MaxRestarts |-> {}]
    /\ replay = [k \in Keys |-> -1]
    /\ pc = [h \in Handlers |-> "idle"]
    /\ http = [h \in Handlers |-> NoKey] /\ wsse = [h \in Handlers |-> NoKey]
    /\ at = [h \in Handlers |-> 0]
    /\ uses = [k \in Keys |-> 0] /\ last = [k \in Keys |-> -1] /\ plain = 0
-----------------------------------------------------------------------------
goto(h, where) == pc' = [pc EXCEPT ![h] = where] /\ UNCHANGED <<http, wsse>>

\* The handler returns; what it knew of the request is gone.
answer(h) ==
    /\ pc' = [pc EXCEPT ![h] = "idle"]
    /\ http' = [http EXCEPT ![h] = NoKey] /\ wsse' = [wsse EXCEPT ![h] = NoKey]
    /\ at' = [at EXCEPT ![h] = 0]

AdvanceClock ==
    /\ now < MaxTime
    /\ now' = now + 1
    /\ UNCHANGED <<secret, issued, replay, pc, http, wsse, at, uses, last, plain>>

\* The agent is started again: a new secret and an empty cache.
Restart ==
    /\ secret < MaxRestarts
    /\ secret' = secret + 1
    /\ replay' = [k \in Keys |-> -1] /\ last' = [k \in Keys |-> -1]
    /\ pc' = [h \in Handlers |-> "idle"]
    /\ http' = [h \in Handlers |-> NoKey] /\ wsse' = [h \in Handlers |-> NoKey]
    /\ at' = [h \in Handlers |-> 0]
    /\ UNCHANGED <<now, issued, uses, plain>>

\* Challenge: a fresh nonce goes out with every refusal.
Challenge == issued' = [issued EXCEPT ![secret] = @ \cup {now}]

\* Faulty variant: the signature of the nonce is not checked.
validNonceUnsigned(n) == now - n.ts <= TTL /\ n.ts - now <= TTL

validNonce(n) == n.secret = secret /\ now - n.ts <= TTL /\ n.ts - now <= TTL

\* VerifyHTTP up to the cache.  A client uses a nonce it was given.  A nonce
\* that is not valid is answered with stale=true, whatever else the request
\* carries; a request without Digest credentials goes on to VerifyWSSE.
VerifyHTTP(h, k, w) ==
    /\ pc[h] = "idle"
    /\ k # NoKey => k.ts \in issued[k.secret]
    /\ \/ /\ k # NoKey => validNonce(k)
          /\ pc' = [pc EXCEPT ![h] = IF k = NoKey THEN "wsse" ELSE "http"]
          /\ http' = [http EXCEPT ![h] = k] /\ wsse' = [wsse EXCEPT ![h] = w]
          /\ UNCHANGED issued
       \/ /\ k # NoKey /\ ~validNonce(k)
          /\ Challenge
          /\ UNCHANGED <<pc, http, wsse>>
    /\ UNCHANGED <<now, secret, replay, at, uses, last, plain>>

\* VerifyHTTP with a valid nonce and no qop: the digest alone decides.
VerifyWithoutQop(h, n) ==
    /\ pc[h] = "idle"
    /\ n.ts \in issued[n.secret] /\ validNonce(n)
    /\ plain < MaxPlain
    /\ plain' = plain + 1
    /\ UNCHANGED <<now, secret, issued, replay, pc, http, wsse, at, uses, last>>

\* The clock is read again for the cache.
HTTPTime(h) ==
    /\ pc[h] = "http"
    /\ at' = [at EXCEPT ![h] = now]
    /\ goto(h, "httpLock")
    /\ UNCHANGED <<now, secret, issued, replay, uses, last, plain>>

\* VerifyWSSE up to the cache: one time for the freshness and for the cache.
VerifyWSSE(h) ==
    /\ pc[h] = "wsse"
    /\ IF wsse[h] # NoKey /\ now - wsse[h].ts <= TTL /\ wsse[h].ts - now <= TTL
       THEN at' = [at EXCEPT ![h] = now] /\ goto(h, "wsseLock") /\ UNCHANGED issued
       ELSE Challenge /\ answer(h)
    /\ UNCHANGED <<now, secret, replay, uses, last, plain>>

\* Faulty variant: an entry goes at its expiry, not after it.
sweptEarly(t) == [k \in Keys |-> IF t >= replay[k] THEN -1 ELSE replay[k]]

\* The entries that are left when acceptReplayKey has cleaned up.
swept(t) == [k \in Keys |-> IF t > replay[k] THEN -1 ELSE replay[k]]

acceptReplayKey(h, k) ==
    /\ swept(at[h])[k] = -1
    /\ replay' = [swept(at[h]) EXCEPT ![k] = at[h] + TTL]
    /\ uses' = [uses EXCEPT ![k] = @ + 1] /\ last' = [last EXCEPT ![k] = at[h]]

refuseReplayKey(h, k) ==
    /\ swept(at[h])[k] # -1
    /\ replay' = swept(at[h])
    /\ UNCHANGED <<uses, last>>

\* A replayed Digest request still has its UsernameToken, if any, to try.
HTTPLock(h) ==
    /\ pc[h] = "httpLock"
    /\ \/ acceptReplayKey(h, http[h]) /\ answer(h)
       \/ refuseReplayKey(h, http[h]) /\ goto(h, "wsse") /\ UNCHANGED at
    /\ UNCHANGED <<now, secret, issued, plain>>

WSSELock(h) ==
    /\ pc[h] = "wsseLock"
    /\ \/ acceptReplayKey(h, wsse[h]) /\ UNCHANGED issued
       \/ refuseReplayKey(h, wsse[h]) /\ Challenge
    /\ answer(h)
    /\ UNCHANGED <<now, secret, plain>>
-----------------------------------------------------------------------------
Next ==
    \/ AdvanceClock \/ Restart
    \/ \E h \in Handlers :
          \/ \E k \in HttpKeys \cup {NoKey}, w \in WsseKeys \cup {NoKey} : VerifyHTTP(h, k, w)
          \/ \E n \in Nonces : VerifyWithoutQop(h, n)
          \/ HTTPTime(h) \/ VerifyWSSE(h) \/ HTTPLock(h) \/ WSSELock(h)

Spec == Init /\ [][Next]_vars
-----------------------------------------------------------------------------
\* What the cache alone gives, although handlers sweep it with times they read
\* before they waited for the mutex: within one run of the agent it accepts a key
\* again only when more than TTL has passed since it accepted it.
ReplayWindow ==
    [][\A k \in Keys : uses'[k] # uses[k] /\ last[k] # -1 => now > last[k] + TTL]_vars

\* A Digest request with qop=auth that was accepted once is accepted again only by
\* a handler that was held up, after validNonce, until its nonce was too old:
\* otherwise the nonce is void before its entry may leave the cache, whoever
\* sweeps it with whatever time, and after a restart its signature is.
DigestOnce ==
    [][\A k \in HttpKeys :
          uses'[k] # uses[k] /\ uses[k] > 0 => now > k.ts + TTL]_vars

\* The same for a WS-Security token within one run of the agent, if it was not
\* dated into the future when it was accepted: then it is too old, for every
\* handler that is not held up, before its entry may leave the cache.
TokenOnce ==
    [][\A k \in WsseKeys :
          uses'[k] # uses[k] /\ last[k] # -1 /\ k.ts <= last[k] => now > k.ts + TTL]_vars

\* README.md: "WS-Security UsernameToken PasswordDigest compatibility with replay
\* rejection".  A token is accepted once.  One that is dated into the future when
\* it is accepted is not: it stays fresh for up to twice TTL, and its entry is
\* kept for TTL.
ReplayRejected ==
    [][\A k \in WsseKeys : uses'[k] # uses[k] => uses[k] = 0]_vars
=============================================================================
