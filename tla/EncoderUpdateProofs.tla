------------------------ MODULE EncoderUpdateProofs ------------------------
(***************************************************************************)
(* What run-time changes of the video configuration guarantee for every    *)
(* number of concurrent handlers, every set of requests and every failure  *)
(* of the file system: the configuration stays valid, a request gets what  *)
(* it asks for, and what requests were promised one at a time is kept,     *)
(* over restarts too.  The handlers with the supervisor implement its      *)
(* specification.                                                          *)
(***************************************************************************)
EXTENDS EncoderUpdate, TLAPS

\* ConfigAlwaysValid is not inductive: what a handler is about to write or to
\* assign was validated when it began, against a configuration that may have
\* changed since.  It stays valid because it is a whole configuration.
NextValid ==
    /\ pc \in [Handlers -> {"idle", "read", "open", "write", "assign", "signal"}]
    /\ next = [h \in Handlers |-> next[h]]
    /\ \A h \in Handlers : pc[h] # "idle" => Validate(next[h])

ValidInv == ConfigAlwaysValid /\ NextValid

LEMMA InitValid == Init => ValidInv
  <1> SUFFICES ASSUME Init PROVE ValidInv
    OBVIOUS
  <1>1. Validate(loaded(file)) /\ cfg = loaded(file) /\ args = cfg
    BY DEF Init, Sup!Init, Sup!InitAt, loadable, loaded
  <1>2. file \in Configs => Validate(file)
    BY UpdateConstants DEF Init, loadable
  <1>3. NextValid
    BY DEF Init, NextValid
  <1> QED BY <1>1, <1>2, <1>3 DEF ValidInv, ConfigAlwaysValid

\* The supervisor's own steps copy cfg to args and change neither otherwise.
LEMMA SuperviseKeeps ==
    Sup!Supervise \/ Sup!FFmpegExits \/ Sup!FFmpegKilled
        => cfg' = cfg /\ (args' = args \/ args' = cfg)
  BY DEF Sup!Supervise, Sup!SuperviseLoop, Sup!SupEnter, Sup!SupReset, Sup!SupSnapshot, Sup!SupStart, Sup!SupStartFails,
         Sup!SupOnline, Sup!SupRestart, Sup!SupCancelled, Sup!SupWaited, Sup!SupOffline,
         Sup!SupSlept, Sup!FFmpegExits, Sup!FFmpegKilled, Sup!updVars

LEMMA StepValid == ValidInv /\ [Next]_vars => ValidInv'
  <1> SUFFICES ASSUME ValidInv, [Next]_vars PROVE ValidInv'
    OBVIOUS
  <1> USE DEF ValidInv, ConfigAlwaysValid, NextValid, goto, handlerVars, configVars,
              captureVars, sharedVars, historyVars
  <1>1. ASSUME NEW h \in Handlers, NEW r \in Requests, Begin(h, r) PROVE ValidInv'
    <2>1. Validate(applied(cfg, r)) /\ next' = [next EXCEPT ![h] = applied(cfg, r)]
      BY <1>1 DEF Begin
    <2>2. \A g \in Handlers : g # h => pc'[g] = pc[g] /\ next'[g] = next[g]
      BY <1>1 DEF Begin
    <2>3. next'[h] = applied(cfg, r)
      BY <2>1
    <2>4. /\ pc' \in [Handlers -> {"idle", "read", "open", "write", "assign", "signal"}]
          /\ cfg' = cfg /\ args' = args /\ file' = file
      BY <1>1 DEF Begin
    <2>5. next' = [g \in Handlers |-> next'[g]]
      BY <2>1
    <2> QED BY <2>1, <2>2, <2>3, <2>4, <2>5
  <1>2. ASSUME NEW h \in Handlers, PersistRead(h) \/ PersistOpen(h) \/ PersistFails(h)
        PROVE  ValidInv'
    BY <1>2, UpdateConstants DEF PersistRead, PersistOpen, PersistFails
  <1>3. ASSUME NEW h \in Handlers, PersistWrite(h) PROVE ValidInv'
    BY <1>3, UpdateConstants DEF PersistWrite
  <1>4. ASSUME NEW h \in Handlers, Assign(h) PROVE ValidInv'
    BY <1>4 DEF Assign, Sup!Assign, Sup!supVars
  <1>5. ASSUME NEW h \in Handlers, SignalRestart(h) PROVE ValidInv'
    BY <1>5 DEF SignalRestart, Sup!Signal, Sup!supVars
  <1>6. CASE Capture
    BY <1>6, SuperviseKeeps DEF Capture
  <1>7. CASE PowerLoss
    BY <1>7 DEF PowerLoss, Sup!PowerLoss, Sup!Gone
  <1>8. CASE Boot
    BY <1>8 DEF Boot, Sup!Boot, loadable, loaded
  <1>9. CASE UNCHANGED vars
    BY <1>9 DEF vars, Sup!vars, Sup!updVars, Sup!supVars
  <1> QED BY <1>1, <1>2, <1>3, <1>4, <1>5, <1>6, <1>7, <1>8, <1>9 DEF Next, Handle

\* No interleaving of requests, failed writes, reboots and restarts makes the
\* agent run with, start FFmpeg with or load a configuration that Validate
\* refuses.
THEOREM AlwaysValid == Spec => []ConfigAlwaysValid
  <1>1. ValidInv => ConfigAlwaysValid
    BY DEF ValidInv
  <1> QED BY <1>1, InitValid, StepValid, PTL DEF Spec
-----------------------------------------------------------------------------
(***************************************************************************)
(* What a request makes of a configuration.                                *)
(***************************************************************************)
\* fps times the whole number of seconds is the group length again.
LEMMA GovExact ==
    ASSUME NEW gov \in Int, NEW fps \in Nat \ {0}, gov % fps = 0
    PROVE  fps * (gov \div fps) = gov
  OBVIOUS

LEMMA RequestedType ==
    ASSUME NEW c \in VideoSettings, NEW r \in VideoRequest
    PROVE  requested(c, r) \in [Fields -> Int]
  <1> SUFFICES ASSUME NEW f \in Fields PROVE requested(c, r)[f] \in Int
    BY SMT DEF requested
  <1>1. requested(c, r)[f] = IF r[f] # 0 THEN r[f] ELSE settings(c, r.sub)[f]
    BY SMT DEF requested
  <1>2. r[f] \in Int
    BY SMT DEF VideoRequest, Fields
  <1>3. ASSUME NEW b \in Bitrate PROVE bitrateKbps(b) \in Int
    <2> DEFINE k == IF b.unit = "m" THEN 1000 ELSE 1
    <2>1. b.n \in Int
      BY SMT DEF Bitrate
    <2>1a. k = 1000 \/ k = 1
      BY SMT
    <2>2. bitrateKbps(b) = IF b.n <= 0 THEN 4000 ELSE b.n * k
      BY SMT DEF bitrateKbps
    <2> HIDE DEF k
    <2> QED BY SMT, <2>1, <2>1a, <2>2
  <1>4. settings(c, r.sub)[f] \in Int
    BY SMT, <1>3 DEF settings, VideoSettings, Fields
  <1> QED BY SMT, <1>1, <1>2, <1>4

LEMMA AcceptableFacts ==
    ASSUME NEW c \in VideoSettings, NEW r \in VideoRequest, acceptable(c, r)
    PROVE  LET q == requested(c, r)
           IN  /\ q.fps \in 1..120
               /\ q.bitrate \in Int /\ q.bitrate >= 64
               /\ r.gov # 0 => r.gov % q.fps = 0
  BY SMT, RequestedType DEF acceptable, Fields

\* applied's result is a configuration, in which the request's stream has what
\* was requested and the other one what it had.
LEMMA AppliedSettings ==
    ASSUME NEW c \in VideoSettings, NEW r \in VideoRequest, acceptable(c, r)
    PROVE  LET a == applied(c, r)
               q == requested(c, r)
           IN  /\ \A f \in Fields : settings(a, r.sub)[f] = q[f]
               /\ \A f \in Fields : settings(a, ~r.sub)[f] = settings(c, ~r.sub)[f]
               /\ a.GOPSeconds = gopSeconds(c, r)
  <1> DEFINE q == requested(c, r)
             a == applied(c, r)
  <1>1. q.bitrate \in Int /\ q.bitrate >= 64
    BY SMT, AcceptableFacts
  <1>3. bitrateKbps(kbit(q.bitrate)) = q.bitrate
    <2>1. \A n \in Int : n >= 64 => bitrateKbps(kbit(n)) = n
      BY SMT DEF bitrateKbps, kbit
    <2> HIDE DEF q
    <2> QED BY SMT, <1>1, <2>1
  <1>4. CASE r.sub
    <2>1. /\ a.SubstreamWidth = q.width /\ a.SubstreamHeight = q.height
          /\ a.SubstreamFPS = q.fps /\ a.SubstreamBitrate = kbit(q.bitrate)
          /\ a.Width = c.Width /\ a.Height = c.Height /\ a.FPS = c.FPS
          /\ a.VideoBitrate = c.VideoBitrate /\ a.GOPSeconds = gopSeconds(c, r)
      BY <1>4 DEF applied, VideoSettings
    <2> QED BY <1>3, <1>4, <2>1 DEF settings, Fields
  <1>5. CASE ~r.sub
    <2>1. /\ a.Width = q.width /\ a.Height = q.height
          /\ a.FPS = q.fps /\ a.VideoBitrate = kbit(q.bitrate)
          /\ a.SubstreamWidth = c.SubstreamWidth /\ a.SubstreamHeight = c.SubstreamHeight
          /\ a.SubstreamFPS = c.SubstreamFPS
          /\ a.SubstreamBitrate = c.SubstreamBitrate /\ a.GOPSeconds = gopSeconds(c, r)
      BY <1>5 DEF applied, VideoSettings
    <2> QED BY <1>3, <1>5, <2>1 DEF settings, Fields
  <1> QED BY <1>4, <1>5

\* Granting a request does to a configuration's promises what it does to its own.
LEMMA AppliedPromises ==
    ASSUME NEW c \in VideoSettings, NEW r \in VideoRequest, acceptable(c, r)
    PROVE  promises(applied(c, r)) = granted(promises(c), r)
  <1> DEFINE a == applied(c, r)
             q == [f \in Fields |-> IF r[f] # 0 THEN r[f] ELSE promises(c).stream[r.sub][f]]
             streams == [s \in BOOLEAN |-> IF s = r.sub THEN q ELSE promises(c).stream[s]]
  <1>1. /\ \A f \in Fields : settings(a, r.sub)[f] = requested(c, r)[f]
        /\ \A f \in Fields : settings(a, ~r.sub)[f] = settings(c, ~r.sub)[f]
        /\ a.GOPSeconds = gopSeconds(c, r)
    BY AppliedSettings
  <1>2. r.sub \in BOOLEAN
    BY DEF VideoRequest
  <1>3. /\ promises(c).gop = c.GOPSeconds
        /\ \A s \in BOOLEAN : promises(c).stream[s] = [f \in Fields |-> settings(c, s)[f]]
    BY DEF promises
  <1>4. q = requested(c, r)
    BY <1>2, <1>3 DEF requested
  <1>5. /\ promises(a).gop = a.GOPSeconds
        /\ promises(a).stream = [s \in BOOLEAN |-> [f \in Fields |-> settings(a, s)[f]]]
        /\ promises(a) = [stream |-> promises(a).stream, gop |-> promises(a).gop]
    BY DEF promises
  <1>6. granted(promises(c), r)
          = [stream |-> streams, gop |-> IF r.gov # 0 THEN r.gov \div q.fps ELSE promises(c).gop]
    BY DEF granted
  <1> HIDE DEF a, q
  <1>7. \A s \in BOOLEAN : [f \in Fields |-> settings(a, s)[f]] = streams[s]
    <2> SUFFICES ASSUME NEW s \in BOOLEAN
                 PROVE  [f \in Fields |-> settings(a, s)[f]] = streams[s]
      OBVIOUS
    <2>1. CASE s = r.sub
      <3>1. streams[s] = q
        BY <2>1
      <3>2. requested(c, r) = [f \in Fields |-> requested(c, r)[f]]
        BY DEF requested
      <3> QED BY <1>1, <1>4, <2>1, <3>1, <3>2
    <2>2. CASE s # r.sub
      <3>1. s = ~r.sub
        BY <1>2, <2>2, Zenon
      <3>2. streams[s] = [f \in Fields |-> settings(c, s)[f]]
        BY <1>3, <2>2
      <3> QED BY <1>1, <3>1, <3>2
    <2> QED BY <2>1, <2>2
  <1>8. promises(a).stream = streams
    BY <1>5, <1>7
  <1>9. promises(a).gop = IF r.gov # 0 THEN r.gov \div q.fps ELSE promises(c).gop
    BY <1>1, <1>3, <1>4, <1>5 DEF gopSeconds
  <1> QED BY <1>5, <1>6, <1>8, <1>9 DEF a

GetsAsked(n, r) ==
    LET s == settings(n, r.sub)
    IN  /\ \A f \in Fields : r[f] # 0 => s[f] = r[f]
        /\ r.gov # 0 => s.gov = r.gov

LEMMA AppliedGranted ==
    ASSUME NEW c \in VideoSettings, NEW r \in VideoRequest, acceptable(c, r)
    PROVE  GetsAsked(applied(c, r), r)
  <1> DEFINE q == requested(c, r)
             a == applied(c, r)
  <1>1. /\ \A f \in Fields : settings(a, r.sub)[f] = q[f]
        /\ a.GOPSeconds = gopSeconds(c, r)
    BY AppliedSettings
  <1>2. \A f \in Fields : r[f] # 0 => q[f] = r[f]
    BY DEF requested, Fields
  <1>3. ASSUME r.gov # 0 PROVE q.fps * gopSeconds(c, r) = r.gov
    <2>1. q.fps \in Nat \ {0} /\ r.gov % q.fps = 0
      BY SMT, <1>3, AcceptableFacts
    <2>2. r.gov \in Int
      BY SMT DEF VideoRequest
    <2>3. q.fps * (r.gov \div q.fps) = r.gov
      BY <2>1, <2>2, GovExact
    <2> QED BY <1>3, <2>3 DEF gopSeconds
  <1>4. settings(a, r.sub).gov = q.fps * a.GOPSeconds
    <2>1. settings(a, r.sub).gov = settings(a, r.sub).fps * a.GOPSeconds
      BY DEF settings
    <2>2. settings(a, r.sub).fps = q.fps
      BY <1>1 DEF Fields
    <2> QED BY <2>1, <2>2
  <1> QED BY <1>1, <1>2, <1>3, <1>4 DEF GetsAsked
-----------------------------------------------------------------------------
(***************************************************************************)
(* The handlers' state, and the refinement of FFmpegSupervisor.            *)
(***************************************************************************)
\* What ties the handlers to the supervisor's variables: pending holds those
\* about to ask for a restart, and a reboot ends them all.
HandlerType ==
    /\ cfg \in Configs
    /\ pc \in [Handlers -> {"idle", "read", "open", "write", "assign", "signal"}]
    /\ req \in [Handlers -> Requests]
    /\ next \in [Handlers -> Configs]
    /\ file \in Configs \cup {Absent, Empty, Torn}
    /\ pending = {h \in Handlers : pc[h] = "signal"}
    /\ supPc = "down" => \A h \in Handlers : pc[h] = "idle"

LEMMA InitHandlers == Init => HandlerType
  <1> SUFFICES ASSUME Init PROVE HandlerType
    OBVIOUS
  <1>1. cfg \in Configs /\ file \in Configs \cup {Absent} /\ supPc = "boot" /\ pending = {}
    BY UpdateConstants DEF Init, Sup!Init, Sup!InitAt
  <1>2. (CHOOSE r \in Requests : TRUE) \in Requests
    BY UpdateConstants
  <1>3. /\ pc = [h \in Handlers |-> "idle"] /\ next = [h \in Handlers |-> cfg]
        /\ req \in [Handlers -> {CHOOSE r \in Requests : TRUE}]
    BY DEF Init
  <1> HIDE UpdateConstants
  <1> QED BY <1>1, <1>2, <1>3 DEF HandlerType

\* Boot takes over a configuration Load accepts.
LEMMA LoadedConfig == loadable(file) => loaded(file) \in Configs
  BY UpdateConstants DEF loadable, loaded

\* The supervisor comes back from "down" only in a Boot, and leaves pending to
\* the handlers.
LEMMA SuperviseScope ==
    Sup!Supervise \/ Sup!FFmpegExits \/ Sup!FFmpegKilled
        => /\ cfg' = cfg /\ pending' = pending
           /\ (supPc' = "down") = (supPc = "down")
  BY DEF Sup!Supervise, Sup!SuperviseLoop, Sup!SupEnter, Sup!SupReset, Sup!SupSnapshot, Sup!SupStart, Sup!SupStartFails,
         Sup!SupOnline, Sup!SupRestart, Sup!SupCancelled, Sup!SupWaited, Sup!SupOffline,
         Sup!SupSlept, Sup!FFmpegExits, Sup!FFmpegKilled, Sup!updVars

LEMMA StepHandlers == HandlerType /\ [Next]_vars => HandlerType'
  <1> SUFFICES ASSUME HandlerType, [Next]_vars PROVE HandlerType'
    OBVIOUS
  <1> USE DEF HandlerType, goto, handlerVars, configVars, captureVars, sharedVars, historyVars
  <1>1. ASSUME NEW h \in Handlers, NEW r \in Requests, Begin(h, r) PROVE HandlerType'
    <2>1. applied(cfg, r) \in Configs
      BY <1>1, UpdateConstants, Zenon DEF Begin
    <2>2. /\ req' = [req EXCEPT ![h] = r] /\ next' = [next EXCEPT ![h] = applied(cfg, r)]
          /\ pc[h] = "idle" /\ supPc # "down"
          /\ pc' = [pc EXCEPT ![h] = "read"] \/ pc' = [pc EXCEPT ![h] = "assign"]
          /\ UNCHANGED <<cfg, file, pending, supPc>>
      BY <1>1 DEF Begin
    <2> QED BY <2>1, <2>2
  <1>2. ASSUME NEW h \in Handlers, PersistRead(h) \/ PersistOpen(h) \/ PersistFails(h)
        PROVE  HandlerType'
    BY <1>2 DEF PersistRead, PersistOpen, PersistFails
  <1>3. ASSUME NEW h \in Handlers, PersistWrite(h) PROVE HandlerType'
    <2>1. file' = next[h] \/ file' = Torn
      BY <1>3 DEF PersistWrite
    <2> QED BY <1>3, <2>1 DEF PersistWrite
  <1>4. ASSUME NEW h \in Handlers, Assign(h) PROVE HandlerType'
    BY <1>4 DEF Assign, Sup!Assign, Sup!supVars
  <1>5. ASSUME NEW h \in Handlers, SignalRestart(h) PROVE HandlerType'
    BY <1>5 DEF SignalRestart, Sup!Signal, Sup!supVars
  <1>6. CASE Capture
    BY <1>6, SuperviseScope DEF Capture
  <1>7. CASE PowerLoss
    BY <1>7 DEF PowerLoss, Sup!PowerLoss, Sup!Gone
  <1>8. CASE Boot
    BY <1>8, LoadedConfig DEF Boot, Sup!Boot
  <1>9. CASE UNCHANGED vars
    BY <1>9 DEF vars
  <1> QED BY <1>1, <1>2, <1>3, <1>4, <1>5, <1>6, <1>7, <1>8, <1>9 DEF Next, Handle

LEMMA HandlersTyped == Spec => []HandlerType
  BY InitHandlers, StepHandlers, PTL DEF Spec

\* Every step is a step of the supervisor's module or leaves its state alone.
LEMMA StepSimulates == HandlerType /\ [Next]_vars => [Sup!Next]_(Sup!vars)
  <1> SUFFICES ASSUME HandlerType, [Next]_vars PROVE [Sup!Next]_(Sup!vars)
    OBVIOUS
  <1> USE DEF configVars, captureVars, sharedVars
  <1>1. ASSUME UNCHANGED sharedVars PROVE UNCHANGED Sup!vars
    BY <1>1 DEF Sup!vars, Sup!updVars, Sup!supVars
  <1>2. ASSUME NEW h \in Handlers, NEW r \in Requests, Begin(h, r) PROVE UNCHANGED Sup!vars
    BY <1>1, <1>2 DEF Begin
  <1>3. ASSUME NEW h \in Handlers,
               PersistRead(h) \/ PersistOpen(h) \/ PersistWrite(h) \/ PersistFails(h)
        PROVE  UNCHANGED Sup!vars
    BY <1>1, <1>3 DEF PersistRead, PersistOpen, PersistWrite, PersistFails
  <1>4. ASSUME NEW h \in Handlers, Assign(h) PROVE Sup!Next
    <2>1. next[h] \in Configs /\ Sup!Assign(h, next[h])
      BY <1>4 DEF Assign, HandlerType
    <2> QED BY <2>1 DEF Sup!Next
  <1>5. ASSUME NEW h \in Handlers, SignalRestart(h) PROVE Sup!Next
    BY <1>5 DEF SignalRestart, Sup!Next
  <1>6. CASE Capture
    BY <1>6 DEF Capture, Sup!Next
  <1>7. CASE PowerLoss
    BY <1>7 DEF PowerLoss, Sup!Next
  <1>8. CASE Boot
    BY <1>8, LoadedConfig DEF Boot, Sup!Next
  <1>9. CASE UNCHANGED vars
    BY <1>1, <1>9 DEF vars
  <1> QED BY <1>2, <1>3, <1>4, <1>5, <1>6, <1>7, <1>8, <1>9 DEF Next, Handle

\* The handlers, whatever they persist and however they race or fail, use the
\* supervisor as its specification allows its environment to: no lost restart
\* and a single capture hold here too.
THEOREM Implements == Spec => SupervisorSpec
  <1>1. Init => Sup!Init
    BY DEF Init
  <1> QED BY <1>1, StepSimulates, HandlersTyped, PTL DEF Spec, SupervisorSpec, Sup!Spec
-----------------------------------------------------------------------------
(***************************************************************************)
(* What a request is answered with.                                        *)
(***************************************************************************)
GrantInv == \A h \in Handlers : pc[h] # "idle" => GetsAsked(next[h], req[h])

LEMMA StepGrant == HandlerType /\ GrantInv /\ [Next]_vars => GrantInv'
  <1> SUFFICES ASSUME HandlerType, GrantInv, [Next]_vars PROVE GrantInv'
    OBVIOUS
  <1> USE DEF HandlerType, GrantInv, goto, handlerVars, configVars, captureVars, sharedVars,
              historyVars
  <1>1. ASSUME NEW h \in Handlers, NEW r \in Requests, Begin(h, r) PROVE GrantInv'
    <2>1. GetsAsked(applied(cfg, r), r)
      BY <1>1, AppliedGranted, UpdateConstants, Zenon DEF Begin
    <2>2. /\ req' = [req EXCEPT ![h] = r] /\ next' = [next EXCEPT ![h] = applied(cfg, r)]
          /\ pc' = [pc EXCEPT ![h] = "read"] \/ pc' = [pc EXCEPT ![h] = "assign"]
      BY <1>1 DEF Begin
    <2>3. req'[h] = r /\ next'[h] = applied(cfg, r)
      BY <2>2
    <2>4. \A g \in Handlers : g # h =>
            req'[g] = req[g] /\ next'[g] = next[g] /\ pc'[g] = pc[g]
      BY <2>2
    <2> QED BY <2>1, <2>3, <2>4
  <1>2. ASSUME NEW h \in Handlers,
               PersistRead(h) \/ PersistOpen(h) \/ PersistWrite(h) \/ PersistFails(h)
        PROVE  GrantInv'
    BY <1>2 DEF PersistRead, PersistOpen, PersistWrite, PersistFails
  <1>3. ASSUME NEW h \in Handlers, Assign(h) \/ SignalRestart(h) PROVE GrantInv'
    BY <1>3 DEF Assign, SignalRestart
  <1>4. CASE Capture
    BY <1>4 DEF Capture
  <1>5. CASE PowerLoss \/ Boot
    BY <1>5 DEF PowerLoss, Boot
  <1>6. CASE UNCHANGED vars
    BY <1>6 DEF vars
  <1> QED BY <1>1, <1>2, <1>3, <1>4, <1>5, <1>6 DEF Next, Handle

\* A request that goes through sets exactly what it asked for, GovLength
\* included, for any configuration it meets and any request.
THEOREM GrantsWhatIsAsked == Spec => []AskedIsGranted
  <1>1. Init => GrantInv
    BY DEF Init, GrantInv
  <1>2. GrantInv => AskedIsGranted
    BY Zenon DEF GrantInv, AskedIsGranted, GetsAsked
  <1> QED BY <1>1, <1>2, StepGrant, HandlersTyped, PTL DEF Spec
-----------------------------------------------------------------------------
(***************************************************************************)
(* Requests handled one at a time.                                         *)
(***************************************************************************)
Busy(h) == pc[h] # "idle"

\* A single handler works.  Until it assigns, the configuration keeps what has been
\* promised; what it will assign keeps what it will promise too.
KeptInv ==
    ~overlapped =>
      /\ \A g, h \in Handlers : Busy(g) /\ Busy(h) => g = h
      /\ supPc # "down" /\ (\A h \in Handlers : pc[h] # "signal") => promises(cfg) = acked
      /\ \A h \in Handlers :
            /\ Busy(h) => promises(next[h]) = granted(acked, req[h])
            /\ pc[h] = "signal" => cfg = next[h]

\* Has h's persistence reached the file, and is the answer still to come?
Committed(h) == pc[h] = "signal" \/ (pc[h] = "assign" /\ req[h].persist)

\* The file, if it can be read, has what the agent runs with until a handler
\* truncates it, and from its write on what that handler assigns.
FileInv ==
    ~overlapped =>
      /\ supPc # "down" /\ lastPersist /\ file \in Configs
            /\ (\A h \in Handlers : ~Committed(h))
            => file = cfg
      /\ \A h \in Handlers :
            /\ pc[h] \in {"read", "open", "write"} => req[h].persist
            /\ pc[h] = "write" => file = Empty
            /\ Committed(h) /\ req[h].persist => file = next[h]

\* A file that can be loaded keeps what has been saved, until a handler has written
\* it that has not answered; once the power is off, it may have what that handler
\* was about to promise.
SavedInv ==
    ~overlapped =>
      /\ supPc # "down" => cut = {}
      /\ /\ file \in Configs \cup {Absent}
         /\ \A h \in Handlers : ~(Committed(h) /\ req[h].persist)
         => promises(loaded(file)) = saved \/ promises(loaded(file)) \in cut

LEMMA InitSequential == Init => KeptInv /\ FileInv /\ SavedInv
  <1> SUFFICES ASSUME Init PROVE KeptInv /\ FileInv /\ SavedInv
    OBVIOUS
  <1>1. \A h \in Handlers : pc[h] = "idle"
    BY DEF Init
  <1>2. promises(cfg) = acked /\ saved = acked /\ cut = {} /\ cfg = loaded(file)
    BY DEF Init
  <1>3. file \in Configs => cfg = file
    BY UpdateConstants DEF Init, loaded
  <1>4. KeptInv
    BY <1>1, <1>2 DEF KeptInv, Busy
  <1>5. SavedInv
    BY <1>2 DEF SavedInv
  <1> QED BY <1>1, <1>3, <1>4, <1>5 DEF FileInv, Committed

LEMMA StepKept == HandlerType /\ KeptInv /\ SavedInv /\ [Next]_vars => KeptInv'
  <1> SUFFICES ASSUME HandlerType, KeptInv, SavedInv, [Next]_vars, ~overlapped' PROVE KeptInv'
    BY DEF KeptInv
  <1> USE DEF HandlerType, KeptInv, Busy, goto, handlerVars, configVars, captureVars,
              sharedVars, historyVars
  <1>1. ASSUME NEW h \in Handlers, NEW r \in Requests, Begin(h, r) PROVE KeptInv'
    <2>1. /\ ~overlapped /\ supPc # "down" /\ \A g \in Handlers : pc[g] = "idle"
      BY <1>1 DEF Begin
    <2>2. /\ UNCHANGED <<cfg, supPc, acked>>
          /\ \A g \in Handlers : pc'[g] = IF g = h THEN IF r.persist THEN "read" ELSE "assign"
                                          ELSE "idle"
          /\ req'[h] = r /\ next'[h] = applied(cfg, r)
      BY <1>1, <2>1 DEF Begin
    <2>3. promises(cfg) = acked
      BY <2>1
    <2>4. promises(applied(cfg, r)) = granted(acked, r)
      BY <1>1, <2>3, AppliedPromises, UpdateConstants, Zenon DEF Begin
    <2> QED BY <2>1, <2>2, <2>3, <2>4
  <1>2. ASSUME NEW h \in Handlers,
               PersistRead(h) \/ PersistOpen(h) \/ PersistWrite(h) \/ PersistFails(h)
        PROVE  KeptInv'
    <2>1. /\ pc[h] \in {"read", "open", "write"}
          /\ pc' \in {[pc EXCEPT ![h] = x] : x \in {"open", "write", "assign", "idle"}}
          /\ UNCHANGED <<cfg, supPc, acked, req, next, overlapped>>
      BY <1>2 DEF PersistRead, PersistOpen, PersistWrite, PersistFails
    <2>2. \A g \in Handlers : g # h => pc[g] = "idle"
      BY <2>1
    <2>3. \A g \in Handlers : pc'[g] # "signal" /\ (g # h => pc'[g] = "idle")
      BY <2>1, <2>2
    <2> QED BY <2>1, <2>2, <2>3
  <1>3. ASSUME NEW h \in Handlers, Assign(h) PROVE KeptInv'
    <2>1. /\ pc[h] = "assign" /\ pc' = [pc EXCEPT ![h] = "signal"] /\ cfg' = next[h]
          /\ UNCHANGED <<acked, req, next, overlapped>>
      BY <1>3 DEF Assign, Sup!Assign, Sup!supVars
    <2>2. \A g \in Handlers : pc'[g] = IF g = h THEN "signal" ELSE "idle"
      BY <2>1
    <2> QED BY <2>1, <2>2
  \* The answer: what it promises the assigned configuration keeps.
  <1>4. ASSUME NEW h \in Handlers, SignalRestart(h) PROVE KeptInv'
    <2>1. /\ pc[h] = "signal" /\ pc' = [pc EXCEPT ![h] = "idle"]
          /\ acked' = granted(acked, req[h])
          /\ UNCHANGED <<cfg, req, next, overlapped>>
      BY <1>4 DEF SignalRestart, positiveAnswer, Sup!Signal, Sup!supVars
    <2>2. \A g \in Handlers : pc'[g] = "idle"
      BY <2>1
    <2>3. cfg = next[h] /\ promises(next[h]) = granted(acked, req[h])
      BY <2>1
    <2> QED BY <2>1, <2>2, <2>3
  <1>5. CASE Capture
    BY <1>5, SuperviseScope DEF Capture
  <1>6. CASE PowerLoss
    BY <1>6 DEF PowerLoss, Sup!PowerLoss, Sup!Gone
  \* What was saved, or what was cut off, is what Load found.
  <1>7. CASE Boot
    <2>1. /\ loadable(file) /\ supPc = "down" /\ cfg' = loaded(file)
          /\ acked' = IF promises(loaded(file)) \in cut THEN promises(loaded(file)) ELSE saved
          /\ UNCHANGED <<pc, overlapped>>
      BY <1>7 DEF Boot, Sup!Boot
    <2>2. file \in Configs \cup {Absent} /\ \A h \in Handlers : pc[h] = "idle"
      BY <2>1 DEF loadable
    <2>3. promises(loaded(file)) = saved \/ promises(loaded(file)) \in cut
      BY <2>1, <2>2 DEF SavedInv, Committed
    <2>4. promises(loaded(file)) = acked'
      BY <2>1, <2>3
    <2> QED BY <2>1, <2>2, <2>4
  <1>8. CASE UNCHANGED vars
    BY <1>8 DEF vars
  <1> QED BY <1>1, <1>2, <1>3, <1>4, <1>5, <1>6, <1>7, <1>8 DEF Next, Handle

LEMMA StepFile == HandlerType /\ KeptInv /\ FileInv /\ [Next]_vars => FileInv'
  <1> SUFFICES ASSUME HandlerType, KeptInv, FileInv, [Next]_vars, ~overlapped' PROVE FileInv'
    BY DEF FileInv
  <1> USE UpdateConstants
          DEF HandlerType, FileInv, Committed, goto, handlerVars, configVars, captureVars,
              sharedVars, historyVars
  \* Whoever works, works alone.
  <1>0. ASSUME ~overlapped, NEW h \in Handlers, pc[h] # "idle"
        PROVE  \A g \in Handlers : g # h => pc[g] = "idle"
    BY <1>0 DEF KeptInv, Busy
  <1>1. ASSUME NEW h \in Handlers, NEW r \in Requests, Begin(h, r) PROVE FileInv'
    <2>1. /\ ~overlapped /\ supPc # "down" /\ \A g \in Handlers : pc[g] = "idle"
      BY <1>1 DEF Begin
    <2>2. /\ UNCHANGED <<cfg, supPc, file, lastPersist>>
          /\ \A g \in Handlers : pc'[g] = IF g = h THEN IF r.persist THEN "read" ELSE "assign"
                                          ELSE "idle"
          /\ req'[h] = r
      BY <1>1, <2>1 DEF Begin
    <2> QED BY <2>1, <2>2
  <1>2. ASSUME NEW h \in Handlers, PersistRead(h) \/ PersistOpen(h) PROVE FileInv'
    <2>1. /\ pc[h] \in {"read", "open"} /\ ~overlapped
          /\ UNCHANGED <<cfg, supPc, req, next, lastPersist>>
          /\ \/ pc' = [pc EXCEPT ![h] = "open"] /\ file' = file
             \/ pc' = [pc EXCEPT ![h] = "idle"] /\ file' = file
             \/ pc' = [pc EXCEPT ![h] = "write"] /\ file' = Empty
      BY <1>2 DEF PersistRead, PersistOpen
    <2>2. \A g \in Handlers : g # h => pc'[g] = "idle" /\ pc[g] = "idle"
      BY <1>0, <2>1
    <2> QED BY <2>1, <2>2
  \* The file was empty, so it gets one whole document.
  <1>3. ASSUME NEW h \in Handlers, PersistWrite(h) PROVE FileInv'
    <2>1. /\ pc[h] = "write" /\ pc' = [pc EXCEPT ![h] = "assign"] /\ ~overlapped
          /\ UNCHANGED <<cfg, supPc, req, next, lastPersist>>
      BY <1>3 DEF PersistWrite
    <2>2. file' = next[h] /\ req[h].persist
      BY <1>3, <2>1 DEF PersistWrite
    <2>3. \A g \in Handlers : g # h => pc'[g] = "idle" /\ pc[g] = "idle"
      BY <1>0, <2>1
    <2> QED BY <2>1, <2>2, <2>3
  \* A failed request leaves the file as it was, or nothing that can be read.
  <1>4. ASSUME NEW h \in Handlers, PersistFails(h) PROVE FileInv'
    <2>1. /\ pc' = [pc EXCEPT ![h] = "idle"] /\ ~overlapped
          /\ UNCHANGED <<cfg, supPc, req, next, lastPersist>>
          /\ \/ pc[h] = "open" /\ file' = file
             \/ pc[h] = "write" /\ file' \in {Empty, Torn}
      BY <1>4 DEF PersistFails
    <2>2. \A g \in Handlers : pc'[g] = "idle" /\ (g # h => pc[g] = "idle")
      BY <1>0, <2>1
    <2> QED BY <2>1, <2>2
  <1>5. ASSUME NEW h \in Handlers, Assign(h) PROVE FileInv'
    <2>1. /\ pc[h] = "assign" /\ pc' = [pc EXCEPT ![h] = "signal"] /\ ~overlapped
          /\ UNCHANGED <<file, supPc, req, next, lastPersist>>
      BY <1>5 DEF Assign, Sup!Assign, Sup!supVars
    <2>2. \A g \in Handlers : g # h => pc'[g] = "idle" /\ pc[g] = "idle"
      BY <1>0, <2>1
    <2> QED BY <2>1, <2>2
  <1>6. ASSUME NEW h \in Handlers, SignalRestart(h) PROVE FileInv'
    <2>1. /\ pc[h] = "signal" /\ pc' = [pc EXCEPT ![h] = "idle"] /\ ~overlapped
          /\ lastPersist' = req[h].persist
          /\ UNCHANGED <<cfg, file, supPc, req, next>>
      BY <1>6 DEF SignalRestart, positiveAnswer, Sup!Signal, Sup!supVars
    <2>2. \A g \in Handlers : pc'[g] = "idle"
      BY <1>0, <2>1
    <2>3. cfg = next[h]
      BY <2>1 DEF KeptInv
    <2> QED BY <2>1, <2>2, <2>3
  <1>7. CASE Capture
    BY <1>7, SuperviseScope DEF Capture
  <1>8. CASE PowerLoss
    BY <1>8 DEF PowerLoss, Sup!PowerLoss, Sup!Gone
  <1>9. CASE Boot
    <2>1. /\ \A g \in Handlers : pc'[g] = "idle"
          /\ file' = file /\ cfg' = loaded(file)
      BY <1>9 DEF Boot, Sup!Boot
    <2> QED BY <2>1 DEF loaded
  <1>10. CASE UNCHANGED vars
    BY <1>10 DEF vars
  <1> QED BY <1>1, <1>2, <1>3, <1>4, <1>5, <1>6, <1>7, <1>8, <1>9, <1>10 DEF Next, Handle

LEMMA StepSaved == HandlerType /\ KeptInv /\ FileInv /\ SavedInv /\ [Next]_vars => SavedInv'
  <1> SUFFICES ASSUME HandlerType, KeptInv, FileInv, SavedInv, [Next]_vars, ~overlapped'
               PROVE  SavedInv'
    BY DEF SavedInv
  <1> USE UpdateConstants
          DEF HandlerType, SavedInv, Committed, goto, handlerVars, configVars, captureVars,
              sharedVars, historyVars
  <1>0. ASSUME ~overlapped, NEW h \in Handlers, pc[h] # "idle"
        PROVE  \A g \in Handlers : g # h => pc[g] = "idle"
    BY <1>0 DEF KeptInv, Busy
  <1>1. ASSUME NEW h \in Handlers, NEW r \in Requests, Begin(h, r) PROVE SavedInv'
    <2>1. /\ ~overlapped /\ \A g \in Handlers : pc[g] = "idle"
          /\ UNCHANGED <<supPc, file, saved, cut>>
      BY <1>1 DEF Begin
    <2> QED BY <2>1
  <1>2. ASSUME NEW h \in Handlers, PersistRead(h) \/ PersistOpen(h) \/ PersistFails(h)
        PROVE  SavedInv'
    <2>1. /\ pc[h] \in {"read", "open", "write"} /\ ~overlapped
          /\ UNCHANGED <<supPc, req, saved, cut>>
          /\ file' = file \/ file' \notin Configs \cup {Absent}
      BY <1>2 DEF PersistRead, PersistOpen, PersistFails, FileInv
    <2>2. \A g \in Handlers : ~Committed(g)
      BY <1>0, <2>1
    <2> QED BY <2>1, <2>2
  <1>3. ASSUME NEW h \in Handlers, PersistWrite(h) PROVE SavedInv'
    <2>1. /\ pc'[h] = "assign" /\ req'[h].persist /\ ~overlapped
          /\ UNCHANGED <<supPc, cut>>
      BY <1>3 DEF PersistWrite, FileInv
    <2> QED BY <2>1
  <1>4. ASSUME NEW h \in Handlers, Assign(h) PROVE SavedInv'
    <2>1. /\ pc[h] = "assign" /\ pc' = [pc EXCEPT ![h] = "signal"] /\ ~overlapped
          /\ UNCHANGED <<file, supPc, req, saved, cut>>
      BY <1>4 DEF Assign, Sup!Assign, Sup!supVars
    <2>2. Committed(h) /\ req[h].persist => Committed(h)' /\ req'[h].persist
      BY <2>1
    <2> QED BY <1>0, <2>1, <2>2
  \* With ForcePersistence the file has what is promised now.
  <1>5. ASSUME NEW h \in Handlers, SignalRestart(h) PROVE SavedInv'
    <2>1. /\ pc[h] = "signal" /\ pc' = [pc EXCEPT ![h] = "idle"] /\ ~overlapped
          /\ UNCHANGED <<file, supPc, req, cut>>
          /\ saved' = IF req[h].persist THEN granted(acked, req[h]) ELSE saved
      BY <1>5 DEF SignalRestart, positiveAnswer, Sup!Signal, Sup!supVars
    <2>2. \A g \in Handlers : g # h => pc[g] = "idle"
      BY <1>0, <2>1
    <2>3. CASE req[h].persist
      <3>1. file = next[h] /\ next[h] \in Configs
        BY <2>1, <2>3 DEF FileInv
      <3>2. loaded(file) = next[h]
        BY <3>1 DEF loaded
      <3>3. promises(next[h]) = granted(acked, req[h])
        BY <2>1 DEF KeptInv, Busy
      <3> QED BY <2>1, <2>3, <3>2, <3>3
    <2>4. CASE ~req[h].persist
      BY <2>1, <2>2, <2>4
    <2> QED BY <2>3, <2>4
  <1>6. CASE Capture
    BY <1>6, SuperviseScope DEF Capture
  <1>7. CASE PowerLoss
    <2>1. /\ supPc # "down" /\ supPc' = "down" /\ ~overlapped
          /\ cut' = {granted(acked, req[h]) :
                         h \in {g \in Handlers : pc[g] # "idle" /\ req[g].persist}}
          /\ UNCHANGED <<file, saved, req, next, acked>>
      BY <1>7 DEF PowerLoss, Sup!PowerLoss, Sup!Gone
    <2>2. CASE \E h \in Handlers : Committed(h) /\ req[h].persist
      <3>1. PICK h \in Handlers : Committed(h) /\ req[h].persist
        BY <2>2
      <3>2. file = next[h] /\ next[h] \in Configs
        BY <2>1, <3>1 DEF FileInv
      <3>3. promises(loaded(file)) = granted(acked, req[h])
        BY <2>1, <3>1, <3>2 DEF KeptInv, Busy, loaded
      <3>4. pc[h] # "idle" /\ req[h].persist
        BY <3>1
      <3>5. promises(loaded(file)) \in cut'
        BY <2>1, <3>3, <3>4
      <3>6. loaded(file)' = loaded(file)
        BY <2>1 DEF loaded
      <3> QED BY <2>1, <3>5, <3>6
    <2>3. CASE ~ \E h \in Handlers : Committed(h) /\ req[h].persist
      <3>1. file \in Configs \cup {Absent} => promises(loaded(file)) = saved
        BY <2>1, <2>3
      <3> QED BY <2>1, <3>1 DEF loaded
    <2> QED BY <2>2, <2>3
  <1>8. CASE Boot
    <2>1. /\ acked' = (IF promises(loaded(file)) \in cut THEN promises(loaded(file)) ELSE saved)
          /\ saved' = acked' /\ cut' = {} /\ ~overlapped
          /\ UNCHANGED <<file, pc>> /\ supPc = "down" /\ loadable(file)
      BY <1>8 DEF Boot, Sup!Boot
    <2>2. file \in Configs \cup {Absent} /\ \A h \in Handlers : pc[h] = "idle"
      BY <2>1 DEF loadable
    <2>3. promises(loaded(file)) = saved \/ promises(loaded(file)) \in cut
      BY <2>1, <2>2
    <2>4. promises(loaded(file)) = saved' /\ file' = file
      BY <2>1, <2>3
    <2> QED BY <2>1, <2>4 DEF loaded
  <1>9. CASE UNCHANGED vars
    BY <1>9 DEF vars
  <1> QED BY <1>1, <1>2, <1>3, <1>4, <1>5, <1>6, <1>7, <1>8, <1>9 DEF Next, Handle

\* With one request at a time, no later request, failure or restart undoes what
\* an earlier one was promised, and a restart brings back what was to persist.
THEOREM Kept == Spec => []KeptWhenAlone
  <1>1. KeptInv => KeptWhenAlone
    <2> SUFFICES ASSUME KeptInv, ~overlapped, Quiet, NEW s \in BOOLEAN
                 PROVE  /\ \A f \in Fields : settings(cfg, s)[f] = acked.stream[s][f]
                        /\ settings(cfg, s).gov = acked.stream[s].fps * acked.gop
      BY DEF KeptWhenAlone, NoUpdateLost
    <2>1. acked = promises(cfg)
      BY DEF KeptInv, Quiet
    <2>2. acked.gop = cfg.GOPSeconds /\ acked.stream[s] = [f \in Fields |-> settings(cfg, s)[f]]
      BY <2>1 DEF promises
    <2>3. \A f \in Fields : acked.stream[s][f] = settings(cfg, s)[f]
      BY <2>2
    <2>4. acked.stream[s].fps = settings(cfg, s).fps
      BY <2>3 DEF Fields
    <2>5. settings(cfg, s).gov = settings(cfg, s).fps * cfg.GOPSeconds
      BY DEF settings
    <2> QED BY <2>2, <2>3, <2>4, <2>5
  <1> QED BY <1>1, InitSequential, StepKept, StepFile, StepSaved, HandlersTyped, PTL DEF Spec

\* With one request at a time, a file that can be read and that the last
\* positive answer promised is the configuration the agent runs with.
THEOREM Persisted == Spec => []PersistedWhenAlone
  <1>1. FileInv => PersistedWhenAlone
    BY DEF FileInv, Committed, PersistedWhenAlone, Quiet
  <1> QED BY <1>1, InitSequential, StepKept, StepFile, StepSaved, HandlersTyped, PTL DEF Spec
=============================================================================
