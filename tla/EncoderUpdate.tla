--------------------------- MODULE EncoderUpdate ---------------------------
(***************************************************************************)
(* Changing the video configuration at run time: HTTP handlers inside      *)
(* setVideoEncoderConfiguration and Manager.UpdateConfig, the config file  *)
(* they persist to, and superviseFFmpeg, which they restart.               *)
(*                                                                         *)
(* A handler takes its snapshot of the configuration under the mutex,      *)
(* computes and validates without it, rewrites the file without any lock   *)
(* (os.ReadFile; os.WriteFile truncates and then writes), assigns all nine *)
(* video fields under the mutex and then asks for the restart.             *)
(***************************************************************************)
EXTENDS VideoConfig, FiniteSets

CONSTANTS
    Handlers,         \* HTTP handler goroutines
    Requests,         \* requests they may receive
    Configs,          \* video configurations, with all that Requests lead to
    DefaultConfig,    \* what Default() has in the nine fields
    Absent,           \* the config file: there is none,
    Empty,            \* it was truncated and not yet written,
    Torn,             \* it holds parts of two documents or half of one
    Files,            \* what the file may be at the first start
    MetadataEnabled, MaxUpdates, MaxFaults  \* as in FFmpegSupervisor

ASSUME UpdateConstants ==
    /\ Configs \subseteq VideoSettings /\ DefaultConfig \in Configs
    /\ Requests \subseteq VideoRequest /\ Requests # {}
    /\ \A c \in Configs, r \in Requests :
          acceptable(c, r) /\ Validate(applied(c, r)) => applied(c, r) \in Configs
    /\ MetadataEnabled \in BOOLEAN /\ MaxUpdates \in Nat /\ MaxFaults \in Nat
    /\ {Absent, Empty, Torn} \cap Configs = {} /\ Absent \notin {Empty, Torn}
    /\ Files \subseteq Configs \cup {Absent}

VARIABLES
    cfg, restartCapture, pending, updates,
    supPc, args, proc, restarted, backoff, sourceReady, ready,
    cancelled, faults,   \* those of FFmpegSupervisor
    pc,                  \* where a handler is
    req,                 \* its request
    next,                \* its local variable of that name
    file,                \* the video part of the config file, or one of the above
    acked,               \* history: what the positive answers so far have promised,
    saved,               \* what they have promised to be there after a reboot, and
    cut,                 \* what a request was about to be promised when the power went
    lastPersist,         \* history: did the last positive answer promise persistence?
    overlapped           \* history: were two requests ever handled at once?

Sup == INSTANCE FFmpegSupervisor WITH Updaters <- Handlers

captureVars == <<supPc, args, proc, restarted, backoff, sourceReady, ready>>
configVars  == <<cfg, restartCapture, pending, updates>>
sharedVars  == <<configVars, captureVars, cancelled, faults>>
handlerVars == <<pc, req, next>>
historyVars == <<acked, saved, cut, lastPersist, overlapped>>
vars == <<sharedVars, handlerVars, file, historyVars>>

\* What clients may rely on: what they were granted of each stream, and the
\* length of a group of pictures in seconds, which is one for both streams.
Promises == [stream : [BOOLEAN -> [Fields -> Int]], gop : Int]

\* The promises a configuration keeps.
promises(c) ==
    [stream |-> [s \in BOOLEAN |-> [f \in Fields |-> settings(c, s)[f]]], gop |-> c.GOPSeconds]

\* What is promised once request r has been granted too.
granted(p, r) ==
    LET q == [f \in Fields |-> IF r[f] # 0 THEN r[f] ELSE p.stream[r.sub][f]]
    IN  [stream |-> [s \in BOOLEAN |-> IF s = r.sub THEN q ELSE p.stream[s]],
         gop    |-> IF r.gov # 0 THEN r.gov \div q.fps ELSE p.gop]

TypeOK ==
    /\ Sup!TypeOK
    /\ pc \in [Handlers -> {"idle", "read", "open", "write", "assign", "signal"}]
    /\ req \in [Handlers -> Requests]
    /\ next \in [Handlers -> Configs]
    /\ file \in Configs \cup {Absent, Empty, Torn}
    /\ pending = {h \in Handlers : pc[h] = "signal"}
    /\ acked \in Promises /\ saved \in Promises
    /\ \A p \in cut : p \in Promises
    /\ lastPersist \in BOOLEAN /\ overlapped \in BOOLEAN

\* Load: a missing file leaves the defaults; what does not parse or is not
\* valid ends the agent.
loadable(f) == IF f = Absent THEN Validate(DefaultConfig)
               ELSE f \in Configs /\ Validate(f)
loaded(f)   == IF f = Absent THEN DefaultConfig ELSE f

Init ==
    /\ file \in Files
    /\ loadable(file)
    /\ Sup!Init /\ cfg = loaded(file)
    /\ pc = [h \in Handlers |-> "idle"]
    /\ req \in [Handlers -> {CHOOSE r \in Requests : TRUE}]
    /\ next = [h \in Handlers |-> cfg]
    /\ acked = promises(cfg) /\ saved = acked /\ cut = {}
    /\ lastPersist = (file # Absent)
    /\ overlapped = FALSE
-----------------------------------------------------------------------------
goto(h, where) == pc' = [pc EXCEPT ![h] = where]

InFlight == {h \in Handlers : pc[h] \notin {"idle", "signal"}}

\* The snapshot, the computation and both rounds of checks.  A request that is
\* not acceptable is answered with a fault and changes nothing.
Begin(h, r) ==
    /\ pc[h] = "idle" /\ supPc # "down"
    /\ updates + Cardinality(InFlight) < MaxUpdates
    /\ acceptable(cfg, r) /\ Validate(applied(cfg, r))
    /\ req' = [req EXCEPT ![h] = r]
    /\ next' = [next EXCEPT ![h] = applied(cfg, r)]
    /\ goto(h, IF r.persist THEN "read" ELSE "assign")
    /\ overlapped' = (overlapped \/ \E g \in Handlers : pc[g] # "idle")
    /\ UNCHANGED <<sharedVars, file, acked, saved, cut, lastPersist>>

\* persistVideoConfig reads the document it will patch; a fault if it cannot.
PersistRead(h) ==
    /\ pc[h] = "read"
    /\ goto(h, IF file \in Configs THEN "open" ELSE "idle")
    /\ UNCHANGED <<sharedVars, req, next, file, historyVars>>

PersistOpen(h) ==
    /\ pc[h] = "open"
    /\ file' = Empty
    /\ goto(h, "write")
    /\ UNCHANGED <<sharedVars, req, next, historyVars>>

\* Faulty variant: the file gets the configuration from before the request.
PersistWriteStale(h) ==
    /\ pc[h] = "write"
    /\ file' \in {cfg} \cup (IF file \in {Empty, cfg} THEN {} ELSE {Torn})
    /\ goto(h, "assign")
    /\ UNCHANGED <<sharedVars, req, next, historyVars>>

\* Over what another handler wrote since this one truncated the file, a shorter
\* document leaves the other's tail.
PersistWrite(h) ==
    /\ pc[h] = "write"
    /\ file' \in {next[h]} \cup (IF file \in {Empty, next[h]} THEN {} ELSE {Torn})
    /\ goto(h, "assign")
    /\ UNCHANGED <<sharedVars, req, next, historyVars>>

\* The file cannot be opened, or not be written to the end: a fault.
PersistFails(h) ==
    /\ \/ pc[h] = "open" /\ UNCHANGED file
       \/ pc[h] = "write" /\ file' \in {file, Torn}
    /\ goto(h, "idle")
    /\ UNCHANGED <<sharedVars, req, next, historyVars>>

\* Faulty variant: only the fields of the request's own stream are assigned.
AssignOwnStream(h) ==
    /\ pc[h] = "assign"
    /\ Sup!Assign(h, IF req[h].sub
                     THEN [cfg EXCEPT !.SubstreamFPS = next[h].SubstreamFPS,
                                      !.SubstreamWidth = next[h].SubstreamWidth,
                                      !.SubstreamHeight = next[h].SubstreamHeight]
                     ELSE [cfg EXCEPT !.FPS = next[h].FPS, !.Width = next[h].Width,
                                      !.Height = next[h].Height])
    /\ goto(h, "signal")
    /\ UNCHANGED <<req, next, file, historyVars>>

\* Faulty variant: one of the nine assignments is missing.
AssignEightFields(h) ==
    /\ pc[h] = "assign"
    /\ Sup!Assign(h, [next[h] EXCEPT !.GOPSeconds = cfg.GOPSeconds])
    /\ goto(h, "signal")
    /\ UNCHANGED <<req, next, file, historyVars>>

\* All nine fields, also those of the stream the request is not about.
Assign(h) ==
    /\ pc[h] = "assign"
    /\ Sup!Assign(h, next[h])
    /\ goto(h, "signal")
    /\ UNCHANGED <<req, next, file, historyVars>>

\* A document holds all nine fields, so a persisted request also saves what was
\* granted before it without ForcePersistence.
positiveAnswer(h) ==
    /\ acked' = granted(acked, req[h])
    /\ saved' = IF req[h].persist THEN acked' ELSE saved
    /\ lastPersist' = req[h].persist
    /\ UNCHANGED <<cut, overlapped>>

\* Faulty variant: no restart is requested when the request is not persisted.
SignalPersistedOnly(h) ==
    /\ pc[h] = "signal"
    /\ restartCapture' = (restartCapture \/ req[h].persist)
    /\ pending' = pending \ {h}
    /\ goto(h, "idle")
    /\ positiveAnswer(h)
    /\ UNCHANGED <<cfg, updates, captureVars, cancelled, faults, req, next, file>>

\* The restart request and the positive answer.
SignalRestart(h) ==
    /\ pc[h] = "signal"
    /\ Sup!Signal(h)
    /\ goto(h, "idle")
    /\ positiveAnswer(h)
    /\ UNCHANGED <<req, next, file>>
-----------------------------------------------------------------------------
\* superviseFFmpeg and its process.  Shutdown is not part of this composition.
Capture ==
    /\ Sup!Supervise \/ Sup!FFmpegExits \/ Sup!FFmpegKilled
    /\ UNCHANGED <<handlerVars, file, historyVars>>

PowerLoss ==
    /\ Sup!PowerLoss
    /\ pc' = [h \in Handlers |-> "idle"]
    /\ cut' = {granted(acked, req[h]) : h \in {g \in Handlers : pc[g] # "idle" /\ req[g].persist}}
    /\ UNCHANGED <<req, next, file, acked, saved, lastPersist, overlapped>>

\* Grants without ForcePersistence end with the agent that gave them.
Boot ==
    /\ loadable(file)
    /\ Sup!Boot(loaded(file))
    /\ acked' = IF promises(loaded(file)) \in cut THEN promises(loaded(file)) ELSE saved
    /\ saved' = acked' /\ cut' = {}
    /\ lastPersist' = (file # Absent)
    /\ UNCHANGED <<handlerVars, file, overlapped>>

Handle(h) == \/ PersistRead(h) \/ PersistOpen(h) \/ PersistWrite(h)
             \/ Assign(h) \/ SignalRestart(h)

Next ==
    \/ \E h \in Handlers, r \in Requests : Begin(h, r)
    \/ \E h \in Handlers : Handle(h) \/ PersistFails(h)
    \/ Capture \/ PowerLoss \/ Boot

Spec == Init /\ [][Next]_vars

\* A handler and the supervisor keep running; the task scheduler starts the
\* agent after a reboot and again after a failed start.
LiveSpec == /\ Spec
            /\ \A h \in Handlers : WF_vars(Handle(h))
            /\ WF_vars(Capture /\ Sup!Supervise) /\ WF_vars(Capture /\ Sup!FFmpegKilled)
            /\ SF_vars(Capture /\ Sup!SupRestart)
            /\ WF_vars(Boot)
-----------------------------------------------------------------------------
(***************************************************************************)
(* Properties.                                                             *)
(***************************************************************************)
\* However requests for the two streams interleave, the agent never runs with
\* and never loads a configuration Validate would refuse: a main stream slower
\* or smaller than the substream, say.
ConfigAlwaysValid ==
    /\ Validate(cfg) /\ Validate(args)
    /\ file \in Configs => Validate(file)

\* A request that goes through sets what it asked for, the GovLength too: the
\* stream's group of pictures is exactly as many frames.
AskedIsGranted ==
    \A h \in Handlers : pc[h] # "idle" =>
        LET r == req[h]
            s == settings(next[h], r.sub)
        IN  /\ \A f \in Fields : r[f] # 0 => s[f] = r[f]
            /\ r.gov # 0 => s.gov = r.gov

Quiet == supPc # "down" /\ \A h \in Handlers : pc[h] = "idle"

\* Positive answers add up (encoder_config_test.go).  Of each stream the Get
\* operations report, field by field, what was last asked for and granted; its
\* GovLength is its rate times the group length, in seconds, of the last grant for
\* either stream that set one.
NoUpdateLost ==
    Quiet => \A s \in BOOLEAN :
                /\ \A f \in Fields : settings(cfg, s)[f] = acked.stream[s][f]
                /\ settings(cfg, s).gov = acked.stream[s].fps * acked.gop

\* As long as requests were handled one at a time, no positive answer is undone
\* by a later request for the other stream or by a failed one; and a start after a
\* power loss comes up with everything that was granted when ForcePersistence was
\* last granted, and with the request the power loss cut off at most.
KeptWhenAlone == ~overlapped => NoUpdateLost

\* As long as requests were handled one at a time: when the last positive
\* answer was to a request with ForcePersistence, a config file that can be
\* read holds what the agent runs with, and the next start comes up with it.
PersistedWhenAlone ==
    ~overlapped /\ Quiet /\ lastPersist /\ file \in Configs => file = cfg

\* docs/PRODUCTION.md: "Reboot + user logon automatically restarts the agent".
RestartComesUp == supPc = "down" ~> supPc # "down"

\* The handlers use the supervisor's state as FFmpegSupervisor says its
\* environment does, so its theorems hold of the composition.
SupervisorSpec == Sup!Spec
=============================================================================
