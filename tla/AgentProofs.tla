---------------------------- MODULE AgentProofs ----------------------------
(***************************************************************************)
(* What superviseFFmpeg guarantees for every set of configurations, every  *)
(* number of concurrent UpdateConfig calls, failures and reboots; and the  *)
(* process around it: the agent implements FFmpegSupervisor, so the        *)
(* theorems of the first part hold of the whole agent over all its lives,  *)
(* and it ends for a reason only.                                          *)
(***************************************************************************)
EXTENDS Agent, TLAPS

(***************************************************************************)
(* superviseFFmpeg (FFmpegSupervisor).                                     *)
(***************************************************************************)
\* The process belongs to the part of the loop between Start and the flags
\* going down; needed to carry NotReadyWhileDown and OneFFmpegPerLife through it.
ProcPhase ==
    supPc \in {"online", "select", "reap", "offline"} => proc # "none"

\* The process is dead when the loop leaves the select.
WaitedFor == supPc = "offline" => proc = "dead"

\* The next life begins without a child of its own.
Childless == supPc = "down" => proc # "alive"

Inv == /\ TypeOK /\ NoLostRestart /\ OneFFmpegPerLife /\ NotReadyWhileDown
       /\ ProcPhase /\ WaitedFor /\ Childless

LEMMA InitInv == Init => Inv
  <1> SUFFICES ASSUME Init PROVE Inv
    OBVIOUS
  <1>1. TypeOK
    <2>1. updates \in Nat /\ faults \in Nat /\ backoff \in Backoffs
      BY DEF Init, InitAt, Backoffs
    <2> QED BY <2>1, Zenon DEF Init, InitAt, TypeOK
  <1>2. NotReadyWhileDown
    BY Zenon DEF Init, InitAt, NotReadyWhileDown
  <1>3. NoLostRestart /\ OneFFmpegPerLife /\ ProcPhase /\ WaitedFor /\ Childless
    BY DEF Init, InitAt, NoLostRestart, OneFFmpegPerLife, ProcPhase, WaitedFor, Childless
  <1> QED BY <1>1, <1>2, <1>3 DEF Inv

LEMMA TypeStep == TypeOK /\ [Next]_vars => TypeOK'
  <1> SUFFICES ASSUME TypeOK, [Next]_vars PROVE TypeOK'
    OBVIOUS
  <1> USE SupervisorConstants DEF TypeOK, updVars, supVars
  <1>1. ASSUME NEW u \in Updaters, NEW c \in Configs, Assign(u, c) PROVE TypeOK'
    BY <1>1 DEF Assign
  <1>2. ASSUME NEW u \in Updaters, Signal(u) PROVE TypeOK'
    BY <1>2 DEF Signal
  <1>3. CASE Supervise
    <2>1. CASE SupEnter \/ SupReset
      BY <2>1 DEF SupEnter, SupReset
    <2>2. CASE SupSnapshot
      BY <2>2 DEF SupSnapshot
    <2>3. CASE SupStart \/ SupStartFails
      BY <2>3 DEF SupStart, SupStartFails
    <2>4. CASE SupOnline
      BY <2>4 DEF SupOnline
    <2>5. CASE SupRestart \/ SupCancelled \/ SupWaited
      BY <2>5 DEF SupRestart, SupCancelled, SupWaited
    <2>6. CASE SupOffline
      BY <2>6 DEF SupOffline, Backoffs
    <2>7. CASE SupSlept
      BY <2>7 DEF SupSlept, Backoffs
    <2> QED BY <1>3, <2>1, <2>2, <2>3, <2>4, <2>5, <2>6, <2>7 DEF Supervise, SuperviseLoop
  <1>4. CASE FFmpegExits \/ FFmpegLosesServer \/ FFmpegKilled \/ Cancel
    <2>1. CASE FFmpegExits \/ FFmpegLosesServer
      BY <2>1 DEF FFmpegExits, FFmpegLosesServer
    <2>2. CASE FFmpegKilled
      BY <2>2 DEF FFmpegKilled
    <2>3. CASE Cancel
      BY <2>3 DEF Cancel
    <2> QED BY <1>4, <2>1, <2>2, <2>3
  <1>5. CASE Exit \/ PowerLoss
    <2>1. faults' \in Nat /\ updates' \in Nat
      BY <1>5 DEF Exit, PowerLoss, Gone
    <2> QED BY <1>5, <2>1, Zenon DEF Exit, PowerLoss, Gone
  <1>6. ASSUME NEW c \in Configs, Boot(c) PROVE TypeOK'
    BY <1>6 DEF Boot, Backoffs
  <1>7. CASE SupRefused
    BY <1>7 DEF SupRefused
  <1>8. CASE UNCHANGED vars
    BY <1>8 DEF vars
  <1> QED BY <1>1, <1>2, <1>3, <1>4, <1>5, <1>6, <1>7, <1>8 DEF Next

\* One case per action; the flags and the process only change in Supervise.
LEMMA InvStep == Inv /\ [Next]_vars => Inv'
  <1> SUFFICES ASSUME Inv, [Next]_vars PROVE Inv'
    OBVIOUS
  <1>0. TypeOK'
    BY TypeStep DEF Inv
  <1> SUFFICES (/\ NoLostRestart /\ OneFFmpegPerLife /\ NotReadyWhileDown
                /\ ProcPhase /\ WaitedFor /\ Childless)'
    BY <1>0 DEF Inv
  <1> USE DEF Inv, TypeOK, NoLostRestart, OneFFmpegPerLife, NotReadyWhileDown, ProcPhase,
              WaitedFor, Childless, updVars, supVars
  <1>1. ASSUME NEW u \in Updaters, NEW c \in Configs, Assign(u, c) PROVE Inv'
    BY <1>0, <1>1 DEF Assign
  <1>2. ASSUME NEW u \in Updaters, Signal(u) PROVE Inv'
    BY <1>0, <1>2 DEF Signal
  <1>3. CASE Supervise
    <2>1. CASE SupEnter \/ SupReset
      BY <1>0, <2>1 DEF SupEnter, SupReset
    <2>2. CASE SupSnapshot
      BY <1>0, <2>2 DEF SupSnapshot
    <2>3. CASE SupStart \/ SupStartFails
      BY <1>0, <2>3 DEF SupStart, SupStartFails
    <2>4. CASE SupOnline
      BY <1>0, <2>4 DEF SupOnline
    <2>5. CASE SupRestart \/ SupCancelled \/ SupWaited
      BY <1>0, <2>5 DEF SupRestart, SupCancelled, SupWaited
    <2>6. CASE SupOffline
      BY <1>0, <2>6 DEF SupOffline
    <2>7. CASE SupSlept
      BY <1>0, <2>7 DEF SupSlept
    <2> QED BY <1>3, <2>1, <2>2, <2>3, <2>4, <2>5, <2>6, <2>7 DEF Supervise, SuperviseLoop
  <1>4. CASE FFmpegExits \/ FFmpegLosesServer \/ FFmpegKilled \/ Cancel
    BY <1>0, <1>4 DEF FFmpegExits, FFmpegLosesServer, FFmpegKilled, Cancel
  <1>5. CASE Exit \/ PowerLoss
    BY <1>0, <1>5 DEF Exit, PowerLoss, Gone
  <1>6. ASSUME NEW c \in Configs, Boot(c) PROVE Inv'
    BY <1>0, <1>6 DEF Boot
  <1>7. CASE SupRefused
    BY <1>0, <1>7 DEF SupRefused
  <1>8. CASE UNCHANGED vars
    BY <1>0, <1>8 DEF vars
  <1> QED BY <1>1, <1>2, <1>3, <1>4, <1>5, <1>6, <1>7, <1>8 DEF Next

THEOREM Invariance == Spec => []Inv
  BY InitInv, InvStep, PTL DEF Spec

\* The backoff is always one of 1, 2, 4, 8, 16 and 30 s, and every other part
\* of the supervisor's state has its type.
THEOREM TypeCorrect == Spec => []TypeOK
  <1>1. Inv => TypeOK
    BY DEF Inv
  <1> QED BY <1>1, Invariance, PTL

\* No update of the configuration is lost to a snapshot taken before it,
\* however many updates race with the start of FFmpeg.
THEOREM RestartNotLost == Spec => []NoLostRestart
  <1>1. Inv => NoLostRestart
    BY DEF Inv
  <1> QED BY <1>1, Invariance, PTL

\* Within one life of the agent superviseFFmpeg starts an FFmpeg only after the one
\* before has been waited for, and a flag that only superviseFFmpeg writes
\* (sourceReady; ready with metadata disabled) is down before the backoff, the next
\* start and the return.
THEOREM OneAtATime == Spec => [](OneFFmpegPerLife /\ NotReadyWhileDown)
  <1>1. Inv => OneFFmpegPerLife /\ NotReadyWhileDown
    BY DEF Inv
  <1> QED BY <1>1, Invariance, PTL
-----------------------------------------------------------------------------
(***************************************************************************)
(* main and the processes (Agent).                                         *)
(***************************************************************************)
\* What EndsForAReason rests on while main still waits: the context is done
\* only because of an interrupt, superviseFFmpeg has returned, and a component
\* reported nil, only because the context is done.
MainInv ==
    /\ mainPc \in {"off", "select", "returning"} /\ errCh \in {"none", "nil", "error"}
    /\ mainPc = "off" <=> supPc = "down"
    /\ mainPc = "select" /\ cancelled => interrupted
    /\ mainPc = "select" /\ supPc = "done" => cancelled \/ errCh = "error"
    /\ mainPc = "select" /\ errCh = "nil" => cancelled
    /\ mainPc = "returning" => cancelled
    /\ EndsForAReason

\* Every step of the agent is a step of the supervisor's module or leaves its
\* variables alone.
LEMMA StepSimulates == TypeOK /\ MainInv /\ [AgentNext]_agentVars => [Next]_vars
  <1> SUFFICES ASSUME TypeOK, MainInv, [AgentNext]_agentVars PROVE [Next]_vars
    OBVIOUS
  <1>1. ASSUME NEW c \in Configs, AgentBoot(c) PROVE Next
    BY <1>1 DEF AgentBoot, Next
  <1>2. CASE BootFails \/ ServerFails \/ ServerStops \/ CaptureStops
    BY <1>2 DEF BootFails, ServerFails, ServerStops, CaptureStops
  <1>3. CASE Interrupt \/ CaptureFails \/ MainReturns \/ Reboot
    BY <1>3 DEF Interrupt, CaptureFails, MainReturns, Reboot, Next
  <1>4. CASE MainSelects
    <2>1. CASE cancelled
      BY <1>4, <2>1 DEF MainSelects, vars, TypeOK
    <2>2. CASE ~cancelled
      <3>1. Cancel
        BY <1>4, <2>2 DEF MainSelects, MainInv, Cancel
      <3> QED BY <3>1 DEF Next
    <2> QED BY <2>1, <2>2
  <1>5. CASE MtxStarts \/ MtxKilled \/ MtxEnds \/ Publishes \/ OrphanEnds
    BY <1>5 DEF MtxStarts, MtxKilled, MtxEnds, Publishes, OrphanEnds
  <1>6. CASE Enter \/ Capture \/ Refused
    BY <1>6 DEF Enter, Capture, Refused, Next, Supervise
  <1>7. CASE Update
    BY <1>7 DEF Update, Next
  <1>8. CASE UNCHANGED agentVars
    BY <1>8 DEF agentVars
  <1> QED BY <1>1, <1>2, <1>3, <1>4, <1>5, <1>6, <1>7, <1>8 DEF AgentNext, Main

LEMMA MainInvInit == AgentInit => MainInv
  BY DEF AgentInit, Init, InitAt, MainInv, EndsForAReason

\* The steps of superviseFFmpeg: it returns only when the context is done.
LEMMA LoopEnds ==
    SuperviseLoop => /\ cancelled' = cancelled /\ supPc # "down" /\ supPc' # "down"
                     /\ supPc' = "done" => cancelled \/ supPc = "done"
  BY DEF SuperviseLoop, SupReset, SupSnapshot, SupStart, SupStartFails, SupOnline, SupRestart,
         SupCancelled, SupWaited, SupOffline, SupSlept

LEMMA MainInvStep == MainInv /\ [AgentNext]_agentVars => MainInv'
  <1> SUFFICES ASSUME MainInv, [AgentNext]_agentVars PROVE MainInv'
    OBVIOUS
  <1> USE DEF MainInv, EndsForAReason, mainVars
  <1>1. ASSUME NEW c \in Configs, AgentBoot(c) PROVE MainInv'
    BY <1>1 DEF AgentBoot, Boot
  <1>2. CASE BootFails
    BY <1>2 DEF BootFails, vars, supVars
  <1>3. CASE ServerFails \/ ServerStops \/ CaptureStops
    BY <1>3 DEF ServerFails, ServerStops, CaptureStops, report, vars, supVars
  <1>4. CASE Interrupt
    BY <1>4 DEF Interrupt, Cancel, supVars
  <1>5. CASE CaptureFails
    <2>1. /\ mainPc' = mainPc /\ interrupted' = interrupted /\ cancelled' = cancelled
          /\ supPc = "boot" /\ supPc' = "done"
          /\ errCh' = IF errCh = "none" THEN "error" ELSE errCh
      BY <1>5 DEF CaptureFails, SupRefused, report
    <2> QED BY <2>1
  <1>6. CASE MainSelects
    BY <1>6 DEF MainSelects, supVars
  <1>7. CASE MainReturns \/ Reboot
    BY <1>7 DEF MainReturns, Exit, Reboot, PowerLoss, Gone
  <1>8. CASE MtxStarts \/ MtxKilled \/ MtxEnds \/ Publishes \/ OrphanEnds
    BY <1>8 DEF MtxStarts, MtxKilled, MtxEnds, Publishes, OrphanEnds, vars, supVars
  <1>9. CASE Enter \/ Refused
    BY <1>9 DEF Enter, SupEnter, Refused, FFmpegLosesServer
  <1>10. CASE Capture
    BY <1>10, LoopEnds DEF Capture, FFmpegExits, FFmpegKilled
  <1>11. CASE Update
    BY <1>11 DEF Update, Assign, Signal, supVars
  <1>12. CASE UNCHANGED agentVars
    BY <1>12 DEF agentVars, vars, supVars
  <1> QED BY <1>1, <1>2, <1>3, <1>4, <1>5, <1>6, <1>7, <1>8, <1>9, <1>10, <1>11, <1>12
          DEF AgentNext, Main

LEMMA AgentInvariance == AgentSpec => [](Inv /\ MainInv)
  <1>1. AgentInit => Inv /\ MainInv
    BY InitInv, MainInvInit DEF AgentInit
  <1>2. (Inv /\ MainInv) /\ [AgentNext]_agentVars => (Inv /\ MainInv)'
    <2>1. Inv => TypeOK
      BY DEF Inv
    <2> QED BY <2>1, StepSimulates, InvStep, MainInvStep
  <1> QED BY <1>1, <1>2, PTL DEF AgentSpec

\* The whole agent, over all its starts and ends, implements the specification
\* of the supervisor: main, the servers, interrupts and what earlier lives left
\* behind do nothing to its state that FFmpegSupervisor does not allow for.
THEOREM AgentImplements == AgentSpec => Spec
  <1>1. AgentInit => Init
    BY DEF AgentInit
  <1>2. Inv => TypeOK
    BY DEF Inv
  <1> QED BY <1>1, <1>2, StepSimulates, AgentInvariance, PTL DEF AgentSpec, Spec

\* main returns only after an interrupt or when the first component to return
\* had an error: superviseFFmpeg and the servers never end by themselves.
THEOREM NeverEndsAlone == AgentSpec => []EndsForAReason
  <1>1. MainInv => EndsForAReason
    BY DEF MainInv
  <1> QED BY <1>1, AgentInvariance, PTL

\* In every life of the agent, whatever main, the other components and the
\* processes of earlier lives do: no update is lost to a snapshot, superviseFFmpeg
\* never runs two FFmpegs of its own, and the flags that it alone writes are down
\* while it has none.  FFmpegs of earlier lives are not counted here: together with
\* them there may be two (orphans).
THEOREM AgentSafe == AgentSpec => [](NoLostRestart /\ OneFFmpegPerLife /\ NotReadyWhileDown)
  <1>1. Inv => NoLostRestart /\ OneFFmpegPerLife /\ NotReadyWhileDown
    BY DEF Inv
  <1> QED BY <1>1, AgentInvariance, PTL
=============================================================================
