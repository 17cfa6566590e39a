-------------------------- MODULE FFmpegSupervisor --------------------------
(***************************************************************************)
(* superviseFFmpeg of internal/capture/capture.go, and what the rest of    *)
(* the agent does to the state it shares with it: UpdateConfig assigns     *)
(* Manager.cfg under the mutex and, after unlocking, does a non-blocking   *)
(* send on the one-place channel restartCapture; the context is cancelled; *)
(* the process ends; the machine reboots.                                  *)
(*                                                                         *)
(* A configuration is opaque here: what matters is which one FFmpeg was    *)
(* started with.  EncoderUpdate composes this module with the handlers     *)
(* that compute the configurations, MediaPipeline with MediaMTX and the    *)
(* relays, Agent with main.                                                *)
(***************************************************************************)
EXTENDS Integers

CONSTANTS
    Configs,          \* video configurations
    Updaters,         \* goroutines that may be inside UpdateConfig
    MetadataEnabled,  \* Config.MetadataEnabled: ready is then the relay's
    MaxUpdates,       \* bound on the calls of UpdateConfig
    MaxFaults         \* bound on failed starts, exits and reboots

ASSUME SupervisorConstants ==
    /\ Configs # {}
    /\ MetadataEnabled \in BOOLEAN
    /\ MaxUpdates \in Nat /\ MaxFaults \in Nat

VARIABLES
    cfg,             \* Manager.cfg
    restartCapture,  \* is the channel's one place taken?
    pending,         \* updaters between the assignment and the send
    supPc,           \* where superviseFFmpeg is
    args,            \* the configuration the latest FFmpeg was started with
    proc,            \* that process, a child of this agent: "none", "alive" or "dead"
    restarted,       \* the local variable of that name
    backoff,         \* the local variable of that name, in seconds
    sourceReady,     \* Manager.sourceReady
    ready,           \* Manager.ready
    cancelled,       \* is the context done?
    updates, faults  \* what MaxUpdates and MaxFaults bound

supVars == <<supPc, args, proc, restarted, backoff, sourceReady, ready>>
updVars == <<cfg, restartCapture, pending, updates>>
vars    == <<updVars, supVars, cancelled, faults>>

\* minDuration(backoff * 2, 30 s), starting from 1 s.
Backoffs == {1, 2, 4, 8, 16, 30}

TypeOK ==
    /\ cfg \in Configs /\ args \in Configs
    /\ restartCapture \in BOOLEAN /\ restarted \in BOOLEAN /\ cancelled \in BOOLEAN
    /\ sourceReady \in BOOLEAN /\ ready \in BOOLEAN
    /\ pending \subseteq Updaters
    /\ supPc \in {"boot", "loop", "snapshot", "start", "online", "select", "reap",
                  "offline", "sleep", "done", "down"}
    /\ proc \in {"none", "alive", "dead"}
    /\ backoff \in Backoffs
    /\ updates \in Nat /\ faults \in Nat

\* Load and New have run; Run is before superviseFFmpeg ("boot") or in it.
InitAt(where) ==
    /\ cfg \in Configs /\ args = cfg
    /\ restartCapture = FALSE /\ pending = {} /\ updates = 0
    /\ supPc = where /\ proc = "none" /\ restarted = FALSE /\ backoff = 1
    /\ sourceReady = FALSE /\ ready = FALSE
    /\ cancelled = FALSE /\ faults = 0

Init == InitAt("boot")
-----------------------------------------------------------------------------
(***************************************************************************)
(* UpdateConfig, from the assignment on.                                   *)
(***************************************************************************)
Assign(u, c) ==
    /\ u \notin pending
    /\ supPc # "down"
    /\ updates < MaxUpdates
    /\ updates' = updates + 1
    /\ cfg' = c
    /\ pending' = pending \cup {u}
    /\ UNCHANGED <<restartCapture, supVars, cancelled, faults>>

\* Faulty variant: the send is forgotten.
SignalNever(u) ==
    /\ u \in pending
    /\ pending' = pending \ {u}
    /\ UNCHANGED <<cfg, restartCapture, updates, supVars, cancelled, faults>>

Signal(u) ==
    /\ u \in pending
    /\ restartCapture' = TRUE
    /\ pending' = pending \ {u}
    /\ UNCHANGED <<cfg, updates, supVars, cancelled, faults>>
-----------------------------------------------------------------------------
(***************************************************************************)
(* Run up to superviseFFmpeg: Preflight, selectEncoder and waitTCP.  The   *)
(* HTTP server is up already, and UpdateConfig may be called.              *)
(***************************************************************************)
SupEnter ==
    /\ supPc = "boot"
    /\ supPc' = "loop"
    /\ UNCHANGED <<updVars, args, proc, restarted, backoff, sourceReady, ready, cancelled, faults>>

\* One of the three returns an error, and so does Run.
SupRefused ==
    /\ supPc = "boot"
    /\ \/ cancelled /\ UNCHANGED faults
       \/ faults < MaxFaults /\ faults' = faults + 1
    /\ supPc' = "done"
    /\ UNCHANGED <<updVars, args, proc, restarted, backoff, sourceReady, ready, cancelled>>
-----------------------------------------------------------------------------
(***************************************************************************)
(* The supervisor loop.  Neighbouring stores to sourceReady and ready are  *)
(* one step: nothing reads both.                                           *)
(***************************************************************************)
SupReset ==
    /\ supPc = "loop"
    /\ IF cancelled
       THEN supPc' = "done" /\ UNCHANGED <<sourceReady, ready>>
       ELSE supPc' = "snapshot" /\ sourceReady' = FALSE /\ ready' = FALSE
    /\ UNCHANGED <<updVars, args, proc, restarted, backoff, cancelled, faults>>

SupSnapshot ==
    /\ supPc = "snapshot"
    /\ args' = cfg
    /\ supPc' = "start"
    /\ UNCHANGED <<updVars, proc, restarted, backoff, sourceReady, ready, cancelled, faults>>

\* A command made with CommandContext does not start once the context is done.
SupStart ==
    /\ supPc = "start" /\ ~cancelled
    /\ proc' = "alive"
    /\ supPc' = "online"
    /\ UNCHANGED <<updVars, args, restarted, backoff, sourceReady, ready, cancelled, faults>>

SupStartFails ==
    /\ supPc = "start"
    /\ \/ cancelled /\ UNCHANGED faults
       \/ ~cancelled /\ faults < MaxFaults /\ faults' = faults + 1
    /\ supPc' = "sleep"
    /\ UNCHANGED <<updVars, args, proc, restarted, backoff, sourceReady, ready, cancelled>>

\* Faulty variant: the flag is stored in either mode, Store(!MetadataEnabled).
SupOnlineClears ==
    /\ supPc = "online"
    /\ sourceReady' = TRUE
    /\ ready' = ~MetadataEnabled
    /\ restarted' = FALSE
    /\ supPc' = "select"
    /\ UNCHANGED <<updVars, args, proc, backoff, cancelled, faults>>

SupOnline ==
    /\ supPc = "online"
    /\ sourceReady' = TRUE
    /\ ready' = IF MetadataEnabled THEN ready ELSE TRUE
    /\ restarted' = FALSE
    /\ supPc' = "select"
    /\ UNCHANGED <<updVars, args, proc, backoff, cancelled, faults>>

\* Faulty variant: the restart does not wait for the killed process.
SupRestartNoReap ==
    /\ supPc = "select" /\ restartCapture
    /\ restartCapture' = FALSE
    /\ restarted' = TRUE
    /\ supPc' = "offline"
    /\ UNCHANGED <<cfg, pending, updates, args, proc, backoff, sourceReady, ready,
                   cancelled, faults>>

\* case <-m.restartCapture
SupRestart ==
    /\ supPc = "select" /\ restartCapture
    /\ restartCapture' = FALSE
    /\ restarted' = TRUE
    /\ supPc' = "reap"
    /\ UNCHANGED <<cfg, pending, updates, args, proc, backoff, sourceReady, ready,
                   cancelled, faults>>

\* case <-ctx.Done()
SupCancelled ==
    /\ supPc = "select" /\ cancelled
    /\ supPc' = "reap"
    /\ UNCHANGED <<updVars, args, proc, restarted, backoff, sourceReady, ready, cancelled, faults>>

\* waitErr = <-waitCh, as a case of the select or after Process.Kill
SupWaited ==
    /\ supPc \in {"select", "reap"} /\ proc = "dead"
    /\ supPc' = "offline"
    /\ UNCHANGED <<updVars, args, proc, restarted, backoff, sourceReady, ready, cancelled, faults>>

\* Faulty variant: the flags are left set when the loop goes to sleep.
SupOfflineStillReady ==
    /\ supPc = "offline"
    /\ \/ cancelled /\ supPc' = "done" /\ UNCHANGED backoff
       \/ ~cancelled /\ restarted /\ supPc' = "loop" /\ backoff' = 1
       \/ ~cancelled /\ ~restarted /\ supPc' = "sleep" /\ backoff' \in {backoff, 1}
    /\ UNCHANGED <<updVars, args, proc, restarted, sourceReady, ready, cancelled, faults>>

\* Flags down, then return, or restart at once, or sleep; a run of more than a
\* minute has reset the backoff.
SupOffline ==
    /\ supPc = "offline"
    /\ sourceReady' = FALSE /\ ready' = FALSE
    /\ \/ cancelled /\ supPc' = "done" /\ UNCHANGED backoff
       \/ ~cancelled /\ restarted /\ supPc' = "loop" /\ backoff' = 1
       \/ ~cancelled /\ ~restarted /\ supPc' = "sleep" /\ backoff' \in {backoff, 1}
    /\ UNCHANGED <<updVars, args, proc, restarted, cancelled, faults>>

\* Faulty variant: the supervisor gives up after the longest delay.
SupSleptGivesUp ==
    /\ supPc = "sleep"
    /\ \/ (cancelled \/ backoff = 30) /\ supPc' = "done" /\ UNCHANGED backoff
       \/ /\ backoff < 30
          /\ supPc' = "loop" /\ backoff' = IF 2 * backoff < 30 THEN 2 * backoff ELSE 30
    /\ UNCHANGED <<updVars, args, proc, restarted, sourceReady, ready, cancelled, faults>>

\* sleepContext; its timer may win against a context that is done as well.
SupSlept ==
    /\ supPc = "sleep"
    /\ \/ cancelled /\ supPc' = "done" /\ UNCHANGED backoff
       \/ supPc' = "loop" /\ backoff' = IF 2 * backoff < 30 THEN 2 * backoff ELSE 30
    /\ UNCHANGED <<updVars, args, proc, restarted, sourceReady, ready, cancelled, faults>>
-----------------------------------------------------------------------------
(***************************************************************************)
(* The process, the context and the machine.                               *)
(***************************************************************************)
\* FFmpeg ends by itself.
FFmpegExits ==
    /\ proc = "alive" /\ faults < MaxFaults
    /\ proc' = "dead"
    /\ faults' = faults + 1
    /\ UNCHANGED <<updVars, supPc, args, restarted, backoff, sourceReady, ready, cancelled>>

\* FFmpeg ends because MediaMTX refused it or went away; how often that happens
\* is up to the modules with a MediaMTX.
FFmpegLosesServer ==
    /\ proc = "alive"
    /\ proc' = "dead"
    /\ UNCHANGED <<updVars, supPc, args, restarted, backoff, sourceReady, ready, cancelled, faults>>

\* FFmpeg ends because it was killed, by the supervisor or by CommandContext.
FFmpegKilled ==
    /\ proc = "alive" /\ (supPc = "reap" \/ cancelled)
    /\ proc' = "dead"
    /\ UNCHANGED <<updVars, supPc, args, restarted, backoff, sourceReady, ready, cancelled, faults>>

\* os.Interrupt, or a component returned an error: main cancels the context.
Cancel ==
    /\ ~cancelled /\ supPc # "down"
    /\ cancelled' = TRUE
    /\ UNCHANGED <<updVars, supVars, faults>>

\* The agent's process is gone, and proc is nobody's child any more.  Nothing here
\* says that it ended: Agent counts the ones that live on as orphans.
Gone ==
    /\ supPc # "down"
    /\ supPc' = "down" /\ proc' = "none"
    /\ restartCapture' = FALSE /\ pending' = {}
    /\ sourceReady' = FALSE /\ ready' = FALSE
    /\ UNCHANGED <<cfg, updates, args, restarted, backoff, cancelled>>

\* main has returned: it does not wait for anyone.
Exit == cancelled /\ Gone /\ UNCHANGED faults

\* The machine goes down.
PowerLoss == faults < MaxFaults /\ faults' = faults + 1 /\ Gone

\* The Scheduled Task starts the agent again, and Load returned c.
Boot(c) ==
    /\ supPc = "down"
    /\ cfg' = c /\ args' = c
    /\ supPc' = "boot" /\ backoff' = 1 /\ restarted' = FALSE
    /\ cancelled' = FALSE
    /\ UNCHANGED <<restartCapture, pending, updates, proc, sourceReady, ready, faults>>
-----------------------------------------------------------------------------
SuperviseLoop == \/ SupReset \/ SupSnapshot \/ SupStart \/ SupStartFails \/ SupOnline
                 \/ SupRestart \/ SupCancelled \/ SupWaited \/ SupOffline \/ SupSlept

Supervise == SupEnter \/ SuperviseLoop

Next ==
    \/ \E u \in Updaters, c \in Configs : Assign(u, c)
    \/ \E u \in Updaters : Signal(u)
    \/ Supervise \/ SupRefused
    \/ FFmpegExits \/ FFmpegLosesServer \/ FFmpegKilled
    \/ Cancel \/ Exit \/ PowerLoss \/ \E c \in Configs : Boot(c)

Spec == Init /\ [][Next]_vars
-----------------------------------------------------------------------------
\* The window between superviseFFmpeg's snapshot of the configuration and its
\* select loses no update: when FFmpeg is being started or runs with another
\* configuration than the current one, a restart is pending, or UpdateConfig
\* is about to ask for one.
NoLostRestart ==
    supPc \in {"start", "online", "select"} /\ args # cfg
        => restartCapture \/ pending # {}

\* One life of the agent runs one FFmpeg at a time: superviseFFmpeg returns, or
\* comes round to a new start, only after the process before has been waited for.
\* It says nothing of an FFmpeg that an earlier life left behind.
OneFFmpegPerLife ==
    supPc \in {"boot", "loop", "snapshot", "start", "sleep", "done"} => proc # "alive"

\* The flags that superviseFFmpeg alone writes (sourceReady; ready with metadata
\* disabled) do not claim a stream it knows to be gone: neither survives into the
\* backoff, a restart or a new start.
NotReadyWhileDown ==
    sourceReady \/ (ready /\ ~MetadataEnabled) =>
        supPc \in {"select", "reap", "offline"} /\ proc # "none"
=============================================================================
