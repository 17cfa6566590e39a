------------------------------- MODULE Agent -------------------------------
(***************************************************************************)
(* The agent's process from one start to the next: main, the goroutines it *)
(* starts (the HTTP server, WS-Discovery and the capture manager), the     *)
(* channel they report on, and the two child processes.                    *)
(*                                                                         *)
(* main waits for the context or for the first result and returns; it does *)
(* not wait for the others.  Its children are ordinary processes: the      *)
(* watchers of CommandContext kill them if they get to run before the      *)
(* process is gone, and otherwise they live on as orphans.  An orphaned    *)
(* MediaMTX keeps the RTSP port, so the next one cannot start and waitTCP  *)
(* finds the old one; an orphaned FFmpeg keeps publishing the path.        *)
(*                                                                         *)
(* The supervisor of FFmpeg is FFmpegSupervisor, whose steps are taken as  *)
(* they are; the supervisor of MediaMTX is reduced to the starts and ends  *)
(* of the process (MediaPipeline has it in full).                          *)
(***************************************************************************)
EXTENDS FFmpegSupervisor

CONSTANTS
    Override,    \* may a new publisher take a path over from another one?
    MaxMishaps   \* bound on reboots, ends of MediaMTX, failed starts, starts by hand

ASSUME AgentConstants == Override \in BOOLEAN /\ MaxMishaps \in Nat

VARIABLES
    mainPc,       \* main: "off" when there is no process, "select", "returning"
    errCh,        \* the first result of a component, the only one main receives:
                  \* "none", "nil" or "error"
    interrupted,  \* history: was the process sent os.Interrupt?
    due,          \* will the Scheduled Task start the agent by itself?
    mtx,          \* is this process's MediaMTX alive?
    session,      \* this process's FFmpeg at MediaMTX: "no", "live" or "broken"
    orphanMtx,    \* does a MediaMTX of an earlier process live on?
    orphans,      \* how many FFmpegs of earlier processes live on
    mishaps       \* what MaxMishaps bounds

mainVars   == <<mainPc, errCh, interrupted, due>>
serverVars == <<mtx, session, orphanMtx, orphans>>
agentVars  == <<vars, mainVars, serverVars, mishaps>>

AgentInit ==
    /\ Init
    /\ mainPc = "select" /\ errCh = "none"
    /\ interrupted = FALSE /\ due = FALSE
    /\ mtx = FALSE /\ session = "no" /\ orphanMtx = FALSE /\ orphans = 0
    /\ mishaps = 0
-----------------------------------------------------------------------------
(***************************************************************************)
(* main.                                                                   *)
(***************************************************************************)
\* The Scheduled Task starts one agent at a time; a user may, when none runs.
AgentBoot(c) ==
    /\ mainPc = "off"
    /\ \/ due /\ UNCHANGED mishaps
       \/ ~due /\ mishaps < MaxMishaps /\ mishaps' = mishaps + 1
    /\ Boot(c)
    /\ mainPc' = "select" /\ errCh' = "none"
    /\ interrupted' = FALSE /\ due' = FALSE
    /\ UNCHANGED serverVars

\* Load, logging.New or firstLANIPv4 failed: log.Fatalf, a failure of the task.
BootFails ==
    /\ mainPc = "off"
    /\ mishaps < MaxMishaps /\ mishaps' = mishaps + 1
    /\ due' = TRUE
    /\ UNCHANGED <<vars, mainPc, errCh, interrupted, serverVars>>

Interrupt ==
    /\ Cancel
    /\ interrupted' = TRUE
    /\ UNCHANGED <<mainPc, errCh, due, serverVars, mishaps>>

\* errCh has a place for every component; what comes second is never received.
report(result) ==
    /\ errCh' = IF errCh = "none" THEN result ELSE errCh
    /\ UNCHANGED <<mainPc, interrupted, due, serverVars, mishaps>>

\* Server.Run after Shutdown, or RunDiscovery after its connection was closed.
ServerStops ==
    /\ mainPc # "off" /\ cancelled
    /\ report("nil")
    /\ UNCHANGED vars

\* One of the two cannot listen, or no longer accept or read.
ServerFails ==
    /\ mainPc # "off" /\ ~cancelled
    /\ report("error")
    /\ UNCHANGED vars

\* Manager.Run before it enters superviseFFmpeg.
CaptureFails == SupRefused /\ report("error")

\* Manager.Run, once superviseFFmpeg has returned.
CaptureStops ==
    /\ supPc = "done"
    /\ report("nil")
    /\ UNCHANGED vars

\* Faulty variant: main waits for the context only.
MainSelectsContext ==
    /\ mainPc = "select" /\ cancelled
    /\ mainPc' = "returning"
    /\ UNCHANGED <<vars, errCh, interrupted, due, serverVars, mishaps>>

\* The select; either way the context is done when main returns.
MainSelects ==
    /\ mainPc = "select"
    /\ cancelled \/ errCh # "none"
    /\ mainPc' = "returning"
    /\ cancelled' = TRUE
    /\ UNCHANGED <<updVars, supVars, faults, errCh, interrupted, due,
                   serverVars, mishaps>>

\* The children that are left lose their parent, the goroutines just end.  The
\* exit code is 0, also after a fatal component error.
MainReturns ==
    /\ mainPc = "returning"
    /\ Exit
    /\ orphans' = orphans + IF proc = "alive" THEN 1 ELSE 0
    /\ orphanMtx' = (orphanMtx \/ mtx)
    /\ mtx' = FALSE /\ session' = "no"
    /\ mainPc' = "off" /\ errCh' = "none"
    /\ UNCHANGED <<interrupted, due, mishaps>>

\* Every process ends, and the logon starts the task again.
Reboot ==
    /\ PowerLoss
    /\ mishaps < MaxMishaps /\ mishaps' = mishaps + 1
    /\ mtx' = FALSE /\ session' = "no" /\ orphanMtx' = FALSE /\ orphans' = 0
    /\ mainPc' = "off" /\ errCh' = "none"
    /\ interrupted' = FALSE /\ due' = TRUE
-----------------------------------------------------------------------------
(***************************************************************************)
(* The child processes, and what the orphans do to them.                   *)
(***************************************************************************)
serverUp == mtx \/ orphanMtx

lost(s) == IF s = "live" THEN "broken" ELSE s

\* superviseMediaMTX: a process that finds the port taken ends at once.
MtxStarts ==
    /\ mainPc # "off" /\ ~cancelled
    /\ ~serverUp
    /\ mtx' = TRUE
    /\ UNCHANGED <<vars, mainVars, session, orphanMtx, orphans, mishaps>>

MtxKilled ==
    /\ mtx /\ cancelled
    /\ mtx' = FALSE /\ session' = lost(session)
    /\ UNCHANGED <<vars, mainVars, orphanMtx, orphans, mishaps>>

\* The MediaMTX that has the port ends by itself.
MtxEnds ==
    /\ serverUp
    /\ mishaps < MaxMishaps /\ mishaps' = mishaps + 1
    /\ mtx' = FALSE /\ orphanMtx' = FALSE /\ session' = lost(session)
    /\ UNCHANGED <<vars, mainVars, orphans>>

\* waitTCP does not tell one server from another.
Enter ==
    /\ SupEnter
    /\ serverUp
    /\ UNCHANGED <<mainVars, serverVars, mishaps>>

\* A new FFmpeg has no session yet; the end of the process ends its session.
Capture ==
    /\ SuperviseLoop \/ FFmpegExits \/ FFmpegKilled
    /\ session' = IF proc' = "alive" THEN session ELSE "no"
    /\ UNCHANGED <<mainVars, mtx, orphanMtx, orphans, mishaps>>

Publishes ==
    /\ proc = "alive" /\ session = "no" /\ serverUp
    /\ Override \/ orphans = 0
    /\ session' = "live"
    /\ UNCHANGED <<vars, mainVars, mtx, orphanMtx, orphans, mishaps>>

\* No server, a session that broke with it, or a path that is taken.
Refused ==
    /\ \/ session = "broken"
       \/ session = "no" /\ (~serverUp \/ (~Override /\ orphans > 0))
    /\ FFmpegLosesServer
    /\ session' = "no"
    /\ UNCHANGED <<mainVars, mtx, orphanMtx, orphans, mishaps>>

\* An orphaned FFmpeg ends when its server is gone or its path was taken over.
OrphanEnds ==
    /\ orphans > 0
    /\ ~serverUp \/ session = "live"
    /\ orphans' = orphans - 1
    /\ UNCHANGED <<vars, mainVars, mtx, session, orphanMtx, mishaps>>

Update ==
    /\ \/ \E u \in Updaters, c \in Configs : Assign(u, c)
       \/ \E u \in Updaters : Signal(u)
    /\ UNCHANGED <<mainVars, serverVars, mishaps>>
-----------------------------------------------------------------------------
Main == ServerStops \/ CaptureStops \/ MainSelects \/ MainReturns

AgentNext ==
    \/ \E c \in Configs : AgentBoot(c)
    \/ BootFails \/ Interrupt \/ Main \/ ServerFails \/ CaptureFails \/ Reboot
    \/ MtxStarts \/ MtxKilled \/ MtxEnds
    \/ Enter \/ Capture \/ Publishes \/ Refused \/ OrphanEnds
    \/ Update

AgentSpec == AgentInit /\ [][AgentNext]_agentVars

\* Goroutines run and timers fire, select takes a ready case sooner or later;
\* killed processes end, MediaMTX and FFmpeg react to each other; the task
\* starts the agent at logon and after a failed start.  Nothing is assumed of
\* failures, updates, interrupts and starts by hand, nor that the process
\* lives long enough for its children to be killed.
AgentFairness ==
    /\ WF_agentVars(Main)
    /\ WF_agentVars(due /\ \E c \in Configs : AgentBoot(c))
    /\ WF_agentVars(MtxStarts) /\ WF_agentVars(MtxKilled)
    /\ WF_agentVars(Enter)
    /\ WF_agentVars(Capture /\ SuperviseLoop) /\ SF_agentVars(Capture /\ SupRestart)
    /\ WF_agentVars(Capture /\ FFmpegKilled)
    /\ WF_agentVars(Publishes) /\ WF_agentVars(Refused) /\ WF_agentVars(OrphanEnds)
    /\ \A u \in Updaters : WF_agentVars(Update /\ Signal(u))

AgentLiveSpec == AgentSpec /\ AgentFairness
-----------------------------------------------------------------------------
(***************************************************************************)
(* Properties.                                                             *)
(***************************************************************************)
\* The agent never runs on with a part of it missing: when it is interrupted,
\* or its HTTP server, WS-Discovery or the capture manager has returned, for
\* whatever reason, the process ends.
NoHalfAgent ==
    mainPc # "off" /\ (cancelled \/ errCh # "none" \/ supPc = "done")
        ~> mainPc = "off"

\* main gives up for a reason only: it was interrupted, or the first component
\* that returned had an error.  No supervisor ends by itself.
EndsForAReason ==
    mainPc = "returning" => interrupted \/ errCh = "error"

=============================================================================
