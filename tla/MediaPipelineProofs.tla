------------------------ MODULE MediaPipelineProofs ------------------------
(***************************************************************************)
(* The readiness flag, which superviseFFmpeg and the primary relay both    *)
(* write, and the goroutines around reader.Wait: for any number of paths,  *)
(* failures, restarts and updates.                                         *)
(***************************************************************************)
EXTENDS MediaPipeline, TLAPS

\* From the theorems on superviseFFmpeg: where in its loop a process may run.
Captured ==
    /\ supPc \in {"online", "select", "reap", "offline"} => proc # "none"
    /\ supPc = "offline" => proc = "dead"
    /\ supPc \in {"loop", "snapshot", "start", "sleep", "done"} => proc # "alive"
    /\ supPc \notin {"boot", "down"}

\* Only the running FFmpeg publishes; another one takes over from "stale".
Published == \A r \in Paths : pub[r] = "live" => proc = "alive"

\* What a relay holds of its two sessions, and its error channel, by where it is.
Sessions ==
    \A r \in Paths :
        /\ relayPc[r] \in {"announce", "play", "store", "init", "select", "return", "close"}
              => src[r] # "none"
        /\ relayPc[r] \in {"play", "store", "init", "select", "return", "close"}
              => dst[r] # "none"
        /\ dst[r] = "closed" => relayPc[r] = "close"
        /\ relayPc[r] \notin {"store", "init", "select", "return", "close"} => errs[r] = 0
        /\ relayPc[r] \notin {"init", "select", "return", "close"} => ~waiting[r]

\* Before reader.Wait has returned, an error comes from the publisher; a session
\* that is left before that is left for the publisher or the context.
Errors ==
    \A r \in Paths :
        /\ relayPc[r] \in {"store", "init", "select"} /\ errs[r] > 0
           /\ (relayPc[r] = "store" \/ waiting[r]) => dst[r] = "broken"
        /\ relayPc[r] \in {"return", "close"} /\ waiting[r] => dst[r] = "broken" \/ cancelled

Inv == /\ TypeOK /\ Captured /\ Published /\ Sessions /\ Errors
       /\ ReadyKept /\ ReadyInSession
-----------------------------------------------------------------------------
USE DEF captureVars, configVars, serverVars, relayVars, relayOnly, goto, Close, Broken

LEMMA InitInv == Init => Inv
<1> SUFFICES ASSUME Init PROVE Inv
  OBVIOUS
<1>1. Sup!TypeOK
  <2>1. updates \in Nat /\ faults \in Nat /\ backoff \in Sup!Backoffs
    BY DEF Init, Sup!InitAt, Sup!Backoffs
  <2> QED  BY <2>1, Zenon DEF Init, Sup!InitAt, Sup!TypeOK
<1>2. TypeOK
  BY <1>1 DEF Init, TypeOK
<1>3. ~ready
  BY Zenon DEF Init, Sup!InitAt
<1>4. Captured
  BY DEF Init, Sup!InitAt, Captured
<1>5. Published /\ Sessions /\ Errors
  BY <1>2 DEF Init, Published, Sessions, Errors
<1>6. ReadyKept /\ ReadyInSession
  BY <1>2, <1>3, PipelineConstants DEF Init, ReadyKept, ReadyInSession
<1> QED  BY <1>2, <1>4, <1>5, <1>6 DEF Inv

\* The steps of the relays, of MediaMTX and of the FFmpeg process leave the
\* supervisor's own state alone, but for the flag.
LEMMA SupUntouched ==
    ASSUME Sup!TypeOK, ready' \in BOOLEAN, faults' \in Nat,
           UNCHANGED <<captureVars, configVars, cancelled>>
    PROVE  Sup!TypeOK'
  BY Zenon DEF Sup!TypeOK

LEMMA SupTypes ==
    Sup!TypeOK => ready \in BOOLEAN /\ faults \in Nat
  BY Zenon DEF Sup!TypeOK

\* A step of one relay or on one of its two paths.
RelayStep(r) ==
    \/ Session(r) \/ RelaySend(r) \/ RelayError(r) \/ RelayCancelled(r)
    \/ PacketError(r) \/ WaitReturns(r)
    \/ PublisherDropped(r) \/ SourceDropped(r) \/ FFmpegPublishes(r)

LEMMA RelayKeepsSupervisor ==
    ASSUME Sup!TypeOK, NEW r \in Paths, RelayStep(r)
    PROVE  Sup!TypeOK' /\ UNCHANGED <<captureVars, configVars, cancelled>>
<1>1. CASE RelayStore(r) \/ RelayReturn(r) \/ RelayEnded(r)
  <2>1. ready' \in BOOLEAN
    BY <1>1, SupTypes, Zenon DEF RelayStore, RelayReturn, RelayEnded
  <2>2. faults' = faults /\ UNCHANGED <<captureVars, configVars, cancelled>>
    BY <1>1 DEF RelayStore, RelayReturn, RelayEnded
  <2> QED  BY <2>1, <2>2, SupTypes, SupUntouched
<1>2. CASE ~(RelayStore(r) \/ RelayReturn(r) \/ RelayEnded(r))
  <2>1. ready' = ready /\ UNCHANGED <<captureVars, configVars, cancelled>>
    BY <1>2 DEF RelayStep, Session, RelayLoop, RelayDial, RelayAnnounce,
       RelayRefused, RelayPlay, RelaySend, RelayError, RelayCancelled, RelayClose, RelaySlept,
       PacketError, WaitReturns, PublisherDropped, SourceDropped,
       FFmpegPublishes
  <2>2. faults' = faults \/ faults' = faults + 1
    BY <1>2 DEF RelayStep, Session, RelayLoop, RelayDial, RelayAnnounce,
       RelayRefused, RelayPlay, RelaySend, RelayError, RelayCancelled, RelayClose, RelaySlept,
       PacketError, WaitReturns, PublisherDropped, SourceDropped,
       FFmpegPublishes
  <2> QED  BY <2>1, <2>2, SupTypes, SupUntouched
<1> QED  BY <1>1, <1>2

LEMMA RelayInv == ASSUME Inv, NEW r \in Paths, RelayStep(r) PROVE Inv'
<1> USE DEF Inv, TypeOK
<1> DEFINE Kept == Sessions' /\ Errors' /\ ReadyKept' /\ ReadyInSession'
<1> USE PipelineConstants DEF Published, Sessions, Errors, ReadyKept, ReadyInSession
<1> SUFFICES Sup!TypeOK' /\ Captured' /\ TypeOK' /\ Published' /\ Kept
  OBVIOUS
<1>1. Sup!TypeOK' /\ Captured'
  BY RelayKeepsSupervisor, Zenon DEF Captured
<1>2. CASE RelayLoop(r)
  BY <1>1, <1>2 DEF RelayLoop
<1>3. CASE RelayDial(r)
  BY <1>1, <1>3 DEF RelayDial
<1>4. CASE RelayAnnounce(r)
  BY <1>1, <1>4 DEF RelayAnnounce
<1>5. CASE RelayPlay(r)
  <2>1. CASE src[r] = "live"
    BY <1>1, <1>5, <2>1 DEF RelayPlay
  <2>2. CASE src[r] # "live"
    <3>1. /\ goto(r, "ended") /\ Close(r)
          /\ UNCHANGED <<relayOnly, ready>>
      BY <1>5, <2>2 DEF RelayPlay
    <3>2. TypeOK' /\ Published'
      BY <1>1, <3>1
    <3>3. Sessions' /\ Errors'
      BY <3>1
    <3>4. ReadyKept' /\ ReadyInSession'
      BY <1>5, <3>1 DEF RelayPlay
    <3> QED  BY <1>1, <3>2, <3>3, <3>4
  <2> QED  BY <2>1, <2>2
<1>6. CASE RelayStore(r)
  <2>1. TypeOK' /\ Published'
    BY <1>1, <1>6 DEF RelayStore
  <2>2. Sessions' /\ Errors'
    BY <1>6 DEF RelayStore
  <2>3. ReadyKept' /\ ReadyInSession'
    BY <1>6 DEF RelayStore
  <2> QED  BY <1>1, <2>1, <2>2, <2>3
<1>7. CASE RelaySend(r)
  BY <1>1, <1>7 DEF RelaySend, sendMetadata, videoLoss
<1>8. CASE RelayError(r)
  BY <1>1, <1>8 DEF RelayError
<1>9. CASE RelayCancelled(r)
  BY <1>1, <1>9 DEF RelayCancelled
<1>10. CASE RelayReturn(r)
  <2>1. TypeOK' /\ Published'
    BY <1>1, <1>10 DEF RelayReturn
  <2>2. Sessions' /\ Errors'
    BY <1>10 DEF RelayReturn
  <2>3. ReadyKept' /\ ReadyInSession'
    BY <1>10 DEF RelayReturn
  <2> QED  BY <1>1, <2>1, <2>2, <2>3
<1>11. CASE RelayClose(r)
  BY <1>1, <1>11 DEF RelayClose
<1>12. CASE RelayEnded(r)
  <2>1. TypeOK' /\ Published'
    BY <1>1, <1>12 DEF RelayEnded
  <2>2. Sessions' /\ Errors'
    BY <1>12 DEF RelayEnded
  <2>3. ReadyKept' /\ ReadyInSession'
    BY <1>12 DEF RelayEnded
  <2> QED  BY <1>1, <2>1, <2>2, <2>3
<1>13. CASE RelaySlept(r)
  BY <1>1, <1>13 DEF RelaySlept
<1>14. CASE PacketError(r)
  BY <1>1, <1>14 DEF PacketError
<1>15. CASE WaitReturns(r)
  BY <1>1, <1>15 DEF WaitReturns
<1>16. CASE PublisherDropped(r)
  BY <1>1, <1>16 DEF PublisherDropped
<1>17. CASE SourceDropped(r)
  BY <1>1, <1>17 DEF SourceDropped
<1>18. CASE FFmpegPublishes(r)
  BY <1>1, <1>18 DEF FFmpegPublishes
<1>19. CASE RelayRefused(r)
  <2>1. /\ relayPc[r] = "announce" /\ goto(r, "ended") /\ Close(r)
        /\ UNCHANGED <<captureVars, configVars, cancelled, serverVars, ready>>
    BY <1>19 DEF RelayRefused
  <2>2. TypeOK' /\ Published'
    BY <1>1, <2>1
  <2>3. Sessions' /\ Errors'
    BY <2>1
  <2>4. ReadyKept' /\ ReadyInSession'
    BY <2>1
  <2> QED  BY <1>1, <2>2, <2>3, <2>4
<1> QED  BY <1>1, <1>2, <1>3, <1>4, <1>5, <1>6, <1>7, <1>8, <1>9, <1>10, <1>11,
          <1>12, <1>13, <1>14, <1>15, <1>16, <1>17, <1>18, <1>19 DEF RelayStep, Session

LEMMA MtxInv == ASSUME Inv, Mtx PROVE Inv'
<1> USE DEF Inv, TypeOK, Mtx, MtxStart, MtxWaited, MtxSlept
<1>1. /\ faults' \in {faults, faults + 1} /\ mtx' \in BOOLEAN
      /\ mtxPc' \in {"loop", "wait", "sleep", "done"}
      /\ UNCHANGED <<captureVars, configVars, ready, cancelled, conn, pub, relayVars>>
  OBVIOUS
<1>2. Sup!TypeOK'
  BY <1>1, SupTypes, SupUntouched
<1>3. TypeOK'
  BY <1>1, <1>2
<1> QED
  BY <1>1, <1>3 DEF Captured, Published, Sessions, Errors, ReadyKept, ReadyInSession

LEMMA MtxEndsInv == ASSUME Inv, MtxEnds PROVE Inv'
<1> USE DEF Inv, TypeOK
<1>1. faults' \in {faults, faults + 1} /\ UNCHANGED <<captureVars, configVars, ready, cancelled>>
  BY DEF MtxEnds
<1>2. Sup!TypeOK'
  BY <1>1, SupTypes, SupUntouched
<1>3. TypeOK' /\ Published'
  <2>1. conn' \in {"ok", "broken"} /\ mtx' \in BOOLEAN /\ UNCHANGED <<mtxPc, relayPc, errs, waiting, reported>>
    BY DEF MtxEnds
  <2>2. /\ pub' = [r \in Paths |-> "none"]
        /\ src' \in [Paths -> {"none", "live", "broken"}]
        /\ dst' \in [Paths -> {"none", "live", "broken", "closed"}]
    BY DEF MtxEnds
  <2> QED  BY <1>2, <2>1, <2>2 DEF Published
<1>4. Captured' /\ Sessions' /\ Errors'
  BY DEF MtxEnds, Captured, Sessions, Errors
<1>5. ReadyKept' /\ ReadyInSession'
  BY PipelineConstants DEF MtxEnds, ReadyKept, ReadyInSession
<1> QED  BY <1>3, <1>4, <1>5
-----------------------------------------------------------------------------
(***************************************************************************)
(* superviseFFmpeg, its process and UpdateConfig.                          *)
(***************************************************************************)
SupStep ==
    \/ Sup!SuperviseLoop \/ Sup!FFmpegExits \/ Sup!FFmpegKilled \/ Sup!FFmpegLosesServer
    \/ \E u \in Updaters, c \in Configs : Sup!Assign(u, c)
    \/ \E u \in Updaters : Sup!Signal(u)
    \/ Sup!Cancel

LEMMA SupTypeStep == Sup!TypeOK /\ SupStep => Sup!TypeOK'
<1> SUFFICES ASSUME Sup!TypeOK, SupStep PROVE Sup!TypeOK'
  OBVIOUS
<1> USE DEF Sup!TypeOK, Sup!updVars, Sup!supVars
<1>1. ASSUME NEW u \in Updaters, NEW c \in Configs, Sup!Assign(u, c) PROVE Sup!TypeOK'
  BY <1>1 DEF Sup!Assign
<1>2. ASSUME NEW u \in Updaters, Sup!Signal(u) PROVE Sup!TypeOK'
  BY <1>2 DEF Sup!Signal
<1>3. CASE Sup!SuperviseLoop
  <2>1. CASE Sup!SupReset \/ Sup!SupSnapshot
    BY <2>1 DEF Sup!SupReset, Sup!SupSnapshot
  <2>2. CASE Sup!SupStart \/ Sup!SupStartFails
    BY <2>2 DEF Sup!SupStart, Sup!SupStartFails
  <2>3. CASE Sup!SupOnline
    BY <2>3 DEF Sup!SupOnline
  <2>4. CASE Sup!SupRestart \/ Sup!SupCancelled \/ Sup!SupWaited
    BY <2>4 DEF Sup!SupRestart, Sup!SupCancelled, Sup!SupWaited
  <2>5. CASE Sup!SupOffline
    BY <2>5 DEF Sup!SupOffline, Sup!Backoffs
  <2>6. CASE Sup!SupSlept
    BY <2>6 DEF Sup!SupSlept, Sup!Backoffs
  <2> QED  BY <1>3, <2>1, <2>2, <2>3, <2>4, <2>5, <2>6 DEF Sup!SuperviseLoop
<1>4. CASE Sup!FFmpegExits \/ Sup!FFmpegKilled \/ Sup!FFmpegLosesServer
  BY <1>4 DEF Sup!FFmpegExits, Sup!FFmpegKilled, Sup!FFmpegLosesServer
<1>5. CASE Sup!Cancel
  BY <1>5 DEF Sup!Cancel
<1> QED  BY <1>1, <1>2, <1>3, <1>4, <1>5 DEF SupStep

\* It never raises the flag, and lowers it only while no FFmpeg runs.
LEMMA SupFlag ==
    Captured /\ SupStep =>
        /\ Captured' /\ (cancelled => cancelled')
        /\ ready' => ready
        /\ ready /\ ~ready' => proc # "alive"
        /\ proc' = "alive" => proc = "alive" \/ supPc = "start"
        /\ proc = "alive" => supPc # "start"
<1> SUFFICES ASSUME Captured, SupStep
             PROVE  /\ Captured' /\ (cancelled => cancelled')
                    /\ ready' => ready
                    /\ ready /\ ~ready' => proc # "alive"
                    /\ proc' = "alive" => proc = "alive" \/ supPc = "start"
                    /\ proc = "alive" => supPc # "start"
  OBVIOUS
<1> USE DEF Captured, Sup!updVars, Sup!supVars
<1>1. CASE Sup!SuperviseLoop
  BY <1>1 DEF Sup!SuperviseLoop, Sup!SupReset, Sup!SupSnapshot, Sup!SupStart,
              Sup!SupStartFails, Sup!SupOnline, Sup!SupRestart, Sup!SupCancelled,
              Sup!SupWaited, Sup!SupOffline, Sup!SupSlept
<1>2. CASE Sup!FFmpegExits \/ Sup!FFmpegKilled \/ Sup!FFmpegLosesServer
  BY <1>2 DEF Sup!FFmpegExits, Sup!FFmpegKilled, Sup!FFmpegLosesServer
<1>3. CASE Sup!Cancel
  BY <1>3 DEF Sup!Cancel
<1>4. ASSUME NEW u \in Updaters, NEW c \in Configs, Sup!Assign(u, c)
      PROVE  UNCHANGED <<supPc, proc, ready, cancelled>>
  BY <1>4 DEF Sup!Assign
<1>5. ASSUME NEW u \in Updaters, Sup!Signal(u)
      PROVE  UNCHANGED <<supPc, proc, ready, cancelled>>
  BY <1>5 DEF Sup!Signal
<1> QED  BY <1>1, <1>2, <1>3, <1>4, <1>5 DEF SupStep

LEMMA CaptureInv == ASSUME Inv, Capture \/ FFmpegLosesServer PROVE Inv'
<1> USE DEF Inv, TypeOK
<1>1. SupStep /\ ProcessEffect /\ UNCHANGED <<mtxPc, mtx, relayVars>>
  BY Zenon DEF Capture, FFmpegLosesServer, SupStep
<1>2. Sup!TypeOK'
  BY <1>1, SupTypeStep
<1>3. /\ Captured' /\ (cancelled => cancelled') /\ (ready' => ready)
      /\ ready /\ ~ready' => proc # "alive"
  BY <1>1, SupFlag
<1>4. TypeOK' /\ Published'
  BY <1>1, <1>2 DEF ProcessEffect, Published
<1>5. Sessions' /\ Errors'
  BY <1>1, <1>3 DEF Sessions, Errors
<1>6. \A r \in Paths : pub'[r] = "live" => pub[r] = "live"
  BY <1>1 DEF ProcessEffect
<1>7. ReadyKept' /\ ReadyInSession'
  BY <1>1, <1>3, <1>6, PipelineConstants DEF ReadyKept, ReadyInSession, Published
<1> QED  BY <1>3, <1>4, <1>5, <1>7

LEMMA UpdateInv == ASSUME Inv, Update PROVE Inv'
<1> USE DEF Inv, TypeOK
<1>1. SupStep /\ UNCHANGED <<serverVars, relayVars>>
  BY Zenon DEF Update, SupStep
<1>2. Sup!TypeOK' /\ Captured' /\ (cancelled => cancelled')
  BY <1>1, SupTypeStep, SupFlag
<1>3. proc' = proc /\ ready' = ready
  BY DEF Update, Sup!Assign, Sup!Signal, Sup!Cancel, Sup!supVars
<1>4. TypeOK'
  BY <1>1, <1>2
<1> QED
  BY <1>1, <1>2, <1>3, <1>4 DEF Published, Sessions, Errors, ReadyKept, ReadyInSession
-----------------------------------------------------------------------------
LEMMA InvStep == Inv /\ [Next]_vars => Inv'
<1> SUFFICES ASSUME Inv, [Next]_vars PROVE Inv'
  OBVIOUS
<1>1. CASE UNCHANGED vars
  <2>1. UNCHANGED <<captureVars, configVars, ready, cancelled, faults, serverVars, relayVars>>
    BY <1>1 DEF vars
  <2>2. Sup!TypeOK'
    BY <2>1, SupTypes, SupUntouched DEF Inv, TypeOK
  <2> QED  BY <2>1, <2>2 DEF Inv, TypeOK, Captured, Published, Sessions, Errors, ReadyKept,
                             ReadyInSession
<1>2. CASE Next
  BY <1>2, MtxInv, MtxEndsInv, CaptureInv, UpdateInv, RelayInv DEF Next, RelayStep
<1> QED  BY <1>1, <1>2

LEMMA Invariance == Spec => []Inv
  BY InitInv, InvStep, PTL DEF Spec
-----------------------------------------------------------------------------
\* superviseFFmpeg, MediaMTX and the relays keep to their states; errCh never
\* holds more than its two places.
THEOREM TypeCorrect == Spec => []TypeOK
<1>1. Inv => TypeOK
  BY DEF Inv
<1> QED  BY <1>1, Invariance, PTL

\* superviseFFmpeg and the primary relay store to the same flag, each at its own
\* time: no order of their stores leaves it down while the relay forwards what
\* the running FFmpeg publishes.
THEOREM WorkingIsReady == Spec => []ReadyKept
<1>1. Inv => ReadyKept
  BY DEF Inv
<1> QED  BY <1>1, Invariance, PTL

\* Nor up without a session that is still to lower it.
THEOREM ReadyHasSession == Spec => []ReadyInSession
<1>1. Inv => ReadyInSession
  BY DEF Inv
<1> QED  BY <1>1, Invariance, PTL

\* Losing the source of a path costs no goroutine: one stays blocked on errCh
\* only when the publisher of that path broke, or the process is to end.
THEOREM SourceLeaksNothing == Spec => []LeaksWithPublisherOnly
<1>1. Inv => LeaksWithPublisherOnly
  BY DEF Inv, Errors, LeaksWithPublisherOnly
<1> QED  BY <1>1, Invariance, PTL
-----------------------------------------------------------------------------
(***************************************************************************)
(* What ends a session.  RelayStore starts the wait for the reader, only   *)
(* RelayError takes from errCh, and it leaves the session.                 *)
(***************************************************************************)
LEMMA NoticeStep == TypeOK /\ LossNoticed /\ [Next]_vars => LossNoticed'
<1> SUFFICES ASSUME TypeOK, LossNoticed, [Next]_vars, NEW r \in Paths,
                    relayPc'[r] \in {"init", "select"}
             PROVE  waiting'[r] \/ errs'[r] > 0
  BY DEF LossNoticed
<1> DEFINE Told == waiting[r] \/ errs[r] > 0
<1>0. errs[r] \in 0..2 /\ (relayPc[r] \in {"init", "select"} => Told)
  BY DEF TypeOK, LossNoticed
<1>1. CASE UNCHANGED <<relayPc, errs, waiting>>
  BY <1>0, <1>1
<1>2. ASSUME NEW s \in Paths, Session(s) PROVE waiting'[r] \/ errs'[r] > 0
  <2>1. CASE s # r
    BY <1>0, <1>2, <2>1 DEF TypeOK, Session, RelayLoop, RelayDial, RelayAnnounce, RelayRefused, RelayPlay,
       RelayStore, RelayReturn, RelayClose, RelayEnded, RelaySlept
  <2>2. CASE s = r
    <3>1. RelayStore(r)
      BY <1>2, <2>2 DEF TypeOK, Session, RelayLoop, RelayDial, RelayAnnounce, RelayRefused, RelayPlay,
         RelayReturn, RelayClose, RelayEnded, RelaySlept
    <3> QED  BY <3>1 DEF TypeOK, RelayStore
  <2> QED  BY <2>1, <2>2
<1>3. ASSUME NEW s \in Paths, RelaySend(s) \/ RelayCancelled(s)
      PROVE  waiting'[r] \/ errs'[r] > 0
  BY <1>0, <1>3 DEF TypeOK, RelaySend, sendMetadata, RelayCancelled
<1>4. ASSUME NEW s \in Paths, RelayError(s) PROVE waiting'[r] \/ errs'[r] > 0
  BY <1>0, <1>4 DEF TypeOK, RelayError
<1>5. ASSUME NEW s \in Paths, PacketError(s) \/ WaitReturns(s)
      PROVE  waiting'[r] \/ errs'[r] > 0
  BY <1>0, <1>5 DEF TypeOK, PacketError, WaitReturns
<1>6. ASSUME NEW s \in Paths, SourceDropped(s) \/ PublisherDropped(s) \/ FFmpegPublishes(s)
      PROVE  UNCHANGED <<relayPc, errs, waiting>>
  BY <1>6 DEF SourceDropped, PublisherDropped, FFmpegPublishes
<1>7. ASSUME Mtx \/ MtxEnds \/ Capture \/ Update \/ FFmpegLosesServer \/ UNCHANGED vars
      PROVE  UNCHANGED <<relayPc, errs, waiting>>
  BY <1>7 DEF Mtx, MtxStart, MtxWaited, MtxSlept, MtxEnds, Capture, Update,
              FFmpegLosesServer, vars
<1> QED  BY <1>1, <1>2, <1>3, <1>4, <1>5, <1>6, <1>7 DEF Next

\* Every session has something to end it when its source is lost: the waiting
\* goroutine, or an error that is still to be received.
THEOREM LossEndsSession == Spec => []LossNoticed
<1>1. Init => LossNoticed
  BY DEF Init, LossNoticed
<1> QED  BY <1>1, NoticeStep, TypeCorrect, PTL DEF Spec
=============================================================================
