--------------------------- MODULE MediaPipeline ---------------------------
(***************************************************************************)
(* The media pipeline with metadata enabled: superviseMediaMTX and the     *)
(* MediaMTX process, superviseFFmpeg (FFmpegSupervisor), and one metadata  *)
(* relay per path (internal/capture/metadata_relay.go).  FFmpeg publishes  *)
(* a raw path, the relay reads it and publishes the public path; each of   *)
(* the three is restarted on its own, and the agent counts as ready while  *)
(* the primary relay says so.                                              *)
(*                                                                         *)
(* MediaMTX and the RTSP client are external: a path loses its readers     *)
(* some time after its publisher has gone, or when another one takes it    *)
(* over; when MediaMTX ends, every session of it is broken.  The delays    *)
(* between restarts are arbitrary: no property here depends on them.       *)
(***************************************************************************)
EXTENDS Integers

CONSTANTS
    Paths,            \* the public paths: the main one, and the substream's
    Primary,          \* RTSPPath, the path whose relay keeps Manager.ready
    PayloadConflict,  \* does FFmpeg use Config.MetadataPayloadType itself?
    Configs, Updaters, MaxUpdates, MaxFaults   \* as in FFmpegSupervisor

ASSUME PipelineConstants ==
    /\ Primary \in Paths
    /\ PayloadConflict \in BOOLEAN

VARIABLES
    cfg, restartCapture, pending, updates,
    supPc, args, proc, restarted, backoff, sourceReady, ready,
    cancelled, faults,   \* those of FFmpegSupervisor
    conn,        \* "broken" when MediaMTX ended under a publishing FFmpeg
    mtxPc,       \* where superviseMediaMTX is
    mtx,         \* is the MediaMTX process alive?
    pub,         \* the raw path's publisher: "none", "live", or "stale" when the
                 \* process is gone and MediaMTX has not noticed
    relayPc,     \* where superviseMetadataRelay and runMetadataRelay are
    src, dst,    \* the relay's reader and publisher: "none", "live", "broken", and
                 \* "closed" for a publisher that was live to the end
    errs,        \* what errCh holds, a channel of two places
    waiting,     \* has the goroutine around reader.Wait yet to send?
    reported     \* lastVideoLoss as the metadata track last reported it:
                 \* "none", "ok" or "loss"

Sup == INSTANCE FFmpegSupervisor WITH MetadataEnabled <- TRUE

captureVars == <<supPc, args, proc, restarted, backoff, sourceReady>>
configVars  == <<cfg, restartCapture, pending, updates>>
serverVars  == <<conn, mtxPc, mtx, pub>>
relayVars   == <<relayPc, src, dst, errs, waiting, reported>>
vars == <<captureVars, configVars, ready, cancelled, faults, serverVars, relayVars>>

TypeOK ==
    /\ Sup!TypeOK
    /\ conn \in {"ok", "broken"}
    /\ mtxPc \in {"loop", "wait", "sleep", "done"} /\ mtx \in BOOLEAN
    /\ pub \in [Paths -> {"none", "live", "stale"}]
    /\ relayPc \in [Paths -> {"loop", "dial", "announce", "play", "store", "init",
                              "select", "return", "close", "ended", "sleep", "done"}]
    /\ src \in [Paths -> {"none", "live", "broken"}]
    /\ dst \in [Paths -> {"none", "live", "broken", "closed"}]
    /\ errs \in [Paths -> 0..2] /\ waiting \in [Paths -> BOOLEAN]
    /\ reported \in [Paths -> {"none", "ok", "loss"}]

\* Run, after waitTCP found MediaMTX answering.
Init ==
    /\ Sup!InitAt("loop")
    /\ conn = "ok" /\ mtxPc = "wait" /\ mtx = TRUE
    /\ pub = [r \in Paths |-> "none"]
    /\ relayPc = [r \in Paths |-> "loop"]
    /\ src = [r \in Paths |-> "none"] /\ dst = [r \in Paths |-> "none"]
    /\ errs = [r \in Paths |-> 0] /\ waiting = [r \in Paths |-> FALSE]
    /\ reported = [r \in Paths |-> "none"]
-----------------------------------------------------------------------------
(***************************************************************************)
(* MediaMTX and superviseMediaMTX.                                         *)
(***************************************************************************)
Broken(s) == IF s = "live" THEN "broken" ELSE s

MtxStart ==
    /\ mtxPc = "loop"
    /\ \/ cancelled /\ mtxPc' = "done" /\ UNCHANGED <<mtx, faults>>
       \/ ~cancelled /\ mtxPc' = "wait" /\ mtx' = TRUE /\ UNCHANGED faults
       \/ ~cancelled /\ mtxPc' = "sleep" /\ UNCHANGED mtx
          /\ faults < MaxFaults /\ faults' = faults + 1
    /\ UNCHANGED <<captureVars, configVars, ready, cancelled, conn, pub, relayVars>>

\* MediaMTX ends, by itself or killed by CommandContext: every session breaks.
MtxEnds ==
    /\ mtx
    /\ \/ cancelled /\ UNCHANGED faults
       \/ faults < MaxFaults /\ faults' = faults + 1
    /\ mtx' = FALSE
    /\ pub' = [r \in Paths |-> "none"]
    /\ conn' = IF \E r \in Paths : pub[r] = "live" THEN "broken" ELSE conn
    /\ src' = [r \in Paths |-> Broken(src[r])]
    /\ dst' = [r \in Paths |-> Broken(dst[r])]
    /\ UNCHANGED <<captureVars, configVars, ready, cancelled, mtxPc,
                   relayPc, errs, waiting, reported>>

MtxWaited ==
    /\ mtxPc = "wait" /\ ~mtx
    /\ mtxPc' = IF cancelled THEN "done" ELSE "sleep"
    /\ UNCHANGED <<captureVars, configVars, ready, cancelled, faults, conn, mtx, pub, relayVars>>

MtxSlept ==
    /\ mtxPc = "sleep"
    /\ mtxPc' \in {"loop"} \cup (IF cancelled THEN {"done"} ELSE {})
    /\ UNCHANGED <<captureVars, configVars, ready, cancelled, faults, conn, mtx, pub, relayVars>>

\* MediaMTX notices that the publisher of a raw path is gone.
SourceDropped(r) ==
    /\ mtx /\ pub[r] = "stale"
    /\ pub' = [pub EXCEPT ![r] = "none"]
    /\ src' = [src EXCEPT ![r] = Broken(@)]
    /\ UNCHANGED <<captureVars, configVars, ready, cancelled, faults, conn, mtxPc, mtx,
                   relayPc, dst, errs, waiting, reported>>

\* MediaMTX, or a full write queue, ends the relay's publishing session.
PublisherDropped(r) ==
    /\ mtx /\ dst[r] = "live" /\ faults < MaxFaults
    /\ faults' = faults + 1
    /\ dst' = [dst EXCEPT ![r] = "broken"]
    /\ UNCHANGED <<captureVars, configVars, ready, cancelled, serverVars,
                   relayPc, src, errs, waiting, reported>>
-----------------------------------------------------------------------------
(***************************************************************************)
(* superviseFFmpeg, its process and UpdateConfig.                          *)
(***************************************************************************)
\* What becomes of the raw paths when a step of the supervisor's module starts
\* or ends the process.
ProcessEffect ==
    /\ conn' = IF proc # "alive" /\ proc' = "alive" THEN "ok" ELSE conn
    /\ pub' = IF proc = "alive" /\ proc' # "alive"
              THEN [r \in Paths |-> IF pub[r] = "live" THEN "stale" ELSE pub[r]]
              ELSE pub

Capture ==
    /\ \/ Sup!SuperviseLoop \/ Sup!FFmpegExits \/ Sup!FFmpegKilled
    /\ ProcessEffect
    /\ UNCHANGED <<mtxPc, mtx, relayVars>>

Update ==
    /\ \/ \E u \in Updaters, c \in Configs : Sup!Assign(u, c)
       \/ \E u \in Updaters : Sup!Signal(u)
       \/ Sup!Cancel
    /\ UNCHANGED <<serverVars, relayVars>>

\* FFmpeg's session on one path: it takes over from a publisher that is gone.
FFmpegPublishes(r) ==
    /\ proc = "alive" /\ conn = "ok" /\ mtx /\ pub[r] # "live"
    /\ pub' = [pub EXCEPT ![r] = "live"]
    /\ src' = [src EXCEPT ![r] = Broken(@)]
    /\ UNCHANGED <<captureVars, configVars, ready, cancelled, faults, conn, mtxPc, mtx,
                   relayPc, dst, errs, waiting, reported>>

\* FFmpeg ends because it cannot reach MediaMTX, or was connected when it ended.
FFmpegLosesServer ==
    /\ conn = "broken" \/ ~mtx
    /\ Sup!FFmpegLosesServer
    /\ ProcessEffect
    /\ UNCHANGED <<mtxPc, mtx, relayVars>>
-----------------------------------------------------------------------------
(***************************************************************************)
(* superviseMetadataRelay and runMetadataRelay, one per path.              *)
(***************************************************************************)
goto(r, where) == relayPc' = [relayPc EXCEPT ![r] = where]

\* The session is gone, with what it held.
Close(r) ==
    /\ src' = [src EXCEPT ![r] = "none"] /\ dst' = [dst EXCEPT ![r] = "none"]
    /\ errs' = [errs EXCEPT ![r] = 0] /\ waiting' = [waiting EXCEPT ![r] = FALSE]
    /\ reported' = [reported EXCEPT ![r] = "none"]

relayOnly == <<captureVars, configVars, cancelled, faults, serverVars>>

RelayLoop(r) ==
    /\ relayPc[r] = "loop"
    /\ goto(r, IF cancelled THEN "done" ELSE "dial")
    /\ UNCHANGED <<relayOnly, ready, src, dst, errs, waiting, reported>>

\* Connect, Describe and SetupAll on the raw path; the payload type is checked.
RelayDial(r) ==
    /\ relayPc[r] = "dial"
    /\ IF mtx /\ pub[r] # "none" /\ ~PayloadConflict
       THEN goto(r, "announce") /\ src' = [src EXCEPT ![r] = "live"]
       ELSE goto(r, "ended") /\ UNCHANGED src
    /\ UNCHANGED <<relayOnly, ready, dst, errs, waiting, reported>>

\* Connect, Announce, SetupAll and Record on the public path.
RelayAnnounce(r) ==
    /\ relayPc[r] = "announce" /\ mtx
    /\ goto(r, "play") /\ dst' = [dst EXCEPT ![r] = "live"]
    /\ UNCHANGED <<relayOnly, ready, src, errs, waiting, reported>>

\* There is no MediaMTX, or it refuses: the path has another publisher, which
\* overridePublisher protects, or not yet lost the relay's previous session.
RelayRefused(r) ==
    /\ relayPc[r] = "announce"
    /\ \/ ~mtx /\ UNCHANGED faults
       \/ mtx /\ faults < MaxFaults /\ faults' = faults + 1
    /\ goto(r, "ended") /\ Close(r)
    /\ UNCHANGED <<captureVars, configVars, cancelled, serverVars, ready>>

RelayPlay(r) ==
    /\ relayPc[r] = "play"
    /\ IF src[r] = "live"
       THEN goto(r, "store") /\ UNCHANGED <<src, dst, errs, waiting, reported>>
       ELSE goto(r, "ended") /\ Close(r)
    /\ UNCHANGED <<relayOnly, ready>>

\* Play has returned: only now is the flag set, and reader.Wait waited for.
RelayStore(r) ==
    /\ relayPc[r] = "store"
    /\ ready' = (ready \/ r = Primary)
    /\ waiting' = [waiting EXCEPT ![r] = TRUE]
    /\ goto(r, "init")
    /\ UNCHANGED <<relayOnly, src, dst, errs, reported>>

videoLoss == IF sourceReady THEN "ok" ELSE "loss"

\* Faulty variant: heartbeats only, a change is not reported.
sendMetadataOnce(r) ==
    \/ /\ reported' = [reported EXCEPT ![r] = IF @ = "none" THEN videoLoss ELSE @]
       /\ goto(r, "select")
    \/ /\ dst[r] = "broken" /\ goto(r, "return") /\ UNCHANGED reported

\* sendMetadata: Initialized, Changed or a heartbeat.  On a broken session the
\* write fails, or is lost as long as the client has not noticed.
sendMetadata(r) ==
    \/ /\ reported' = [reported EXCEPT ![r] = videoLoss]
       /\ goto(r, "select")
    \/ /\ dst[r] = "broken" /\ goto(r, "return") /\ UNCHANGED reported

\* The first document before the loop, the others on the ticker.
RelaySend(r) ==
    /\ relayPc[r] \in {"init", "select"}
    /\ sendMetadata(r)
    /\ UNCHANGED <<relayOnly, ready, src, dst, errs, waiting>>

\* case err := <-errCh: a last VideoLoss document, and the session is left.
RelayError(r) ==
    /\ relayPc[r] = "select" /\ errs[r] > 0
    /\ errs' = [errs EXCEPT ![r] = @ - 1]
    /\ reported' = [reported EXCEPT ![r] = "loss"]
    /\ goto(r, "return")
    /\ UNCHANGED <<relayOnly, ready, src, dst, waiting>>

RelayCancelled(r) ==
    /\ relayPc[r] = "select" /\ cancelled
    /\ goto(r, "return")
    /\ UNCHANGED <<relayOnly, ready, src, dst, errs, waiting, reported>>

\* Faulty variant: the deferred Store(false) is forgotten.
RelayReturnStillReady(r) ==
    /\ relayPc[r] = "return"
    /\ dst' = [dst EXCEPT ![r] = IF @ = "live" THEN "closed" ELSE @]
    /\ goto(r, "close")
    /\ UNCHANGED <<relayOnly, ready, src, errs, waiting, reported>>

\* The deferred calls, the last first: the flag is lowered and the publisher
\* closed while the reader still delivers packets.
RelayReturn(r) ==
    /\ relayPc[r] = "return"
    /\ ready' = (ready /\ r # Primary)
    /\ dst' = [dst EXCEPT ![r] = IF @ = "live" THEN "closed" ELSE @]
    /\ goto(r, "close")
    /\ UNCHANGED <<relayOnly, src, errs, waiting, reported>>

\* reader.Close, which also makes reader.Wait return.
RelayClose(r) ==
    /\ relayPc[r] = "close"
    /\ Close(r)
    /\ goto(r, "ended")
    /\ UNCHANGED <<relayOnly, ready>>

RelayEnded(r) ==
    /\ relayPc[r] = "ended"
    /\ ready' = (ready /\ r # Primary)
    /\ goto(r, IF cancelled THEN "done" ELSE "sleep")
    /\ UNCHANGED <<relayOnly, src, dst, errs, waiting, reported>>

RelaySlept(r) ==
    /\ relayPc[r] = "sleep"
    /\ \E where \in {"loop"} \cup (IF cancelled THEN {"done"} ELSE {}) : goto(r, where)
    /\ UNCHANGED <<relayOnly, ready, src, dst, errs, waiting, reported>>

\* Faulty variant: the result of every write is sent, also nil.
PacketErrorOrNil(r) ==
    /\ relayPc[r] \in {"store", "init", "select", "return", "close"}
    /\ src[r] = "live"
    /\ errs[r] < 2
    /\ errs' = [errs EXCEPT ![r] = @ + 1]
    /\ UNCHANGED <<relayOnly, ready, relayPc, src, dst, waiting, reported>>

\* OnPacketRTPAny after Play: a packet that cannot be written, a non-blocking
\* send on errCh.
PacketError(r) ==
    /\ relayPc[r] \in {"store", "init", "select", "return", "close"}
    /\ src[r] = "live" /\ dst[r] \in {"broken", "closed"}
    /\ errs[r] < 2
    /\ errs' = [errs EXCEPT ![r] = @ + 1]
    /\ UNCHANGED <<relayOnly, ready, relayPc, src, dst, waiting, reported>>

\* Faulty variant: the result of Wait is logged, not sent.
WaitReturnsToNobody(r) ==
    /\ waiting[r] /\ src[r] = "broken"
    /\ waiting' = [waiting EXCEPT ![r] = FALSE]
    /\ UNCHANGED <<relayOnly, ready, relayPc, src, dst, errs, reported>>

\* go func() { errCh <- reader.Wait() }()
WaitReturns(r) ==
    /\ waiting[r] /\ src[r] = "broken" /\ errs[r] < 2
    /\ errs' = [errs EXCEPT ![r] = @ + 1]
    /\ waiting' = [waiting EXCEPT ![r] = FALSE]
    /\ UNCHANGED <<relayOnly, ready, relayPc, src, dst, reported>>
-----------------------------------------------------------------------------
Mtx == MtxStart \/ MtxWaited \/ MtxSlept

Session(r) == \/ RelayLoop(r) \/ RelayDial(r) \/ RelayAnnounce(r) \/ RelayRefused(r)
              \/ RelayPlay(r) \/ RelayStore(r) \/ RelayReturn(r) \/ RelayClose(r)
              \/ RelayEnded(r) \/ RelaySlept(r)

Next ==
    \/ Mtx \/ MtxEnds \/ Capture \/ Update \/ FFmpegLosesServer
    \/ \E r \in Paths : \/ SourceDropped(r) \/ PublisherDropped(r) \/ FFmpegPublishes(r)
                        \/ Session(r) \/ RelaySend(r) \/ RelayError(r) \/ RelayCancelled(r)
                        \/ PacketError(r) \/ WaitReturns(r)

Spec == Init /\ [][Next]_vars

\* As long as the context is not cancelled goroutines run and timers fire,
\* MediaMTX and FFmpeg react to what they are sent, frames keep coming while
\* FFmpeg publishes, killed processes end.  Once it is, main returns without
\* waiting, so nothing is assumed any more; nor of failures, updates, interrupts.
Fairness ==
    /\ WF_vars(~cancelled /\ Mtx)
    /\ WF_vars(~cancelled /\ Capture /\ Sup!SuperviseLoop)
    /\ SF_vars(~cancelled /\ Capture /\ Sup!SupRestart)
    /\ WF_vars(~cancelled /\ Capture /\ Sup!FFmpegKilled)
    /\ WF_vars(~cancelled /\ FFmpegLosesServer)
    /\ \A u \in Updaters : WF_vars(~cancelled /\ Update /\ Sup!Signal(u))
    /\ \A r \in Paths : /\ WF_vars(~cancelled /\ SourceDropped(r))
                        /\ WF_vars(~cancelled /\ FFmpegPublishes(r))
                        /\ WF_vars(~cancelled /\ Session(r))
                        /\ WF_vars(~cancelled /\ RelaySend(r))
                        /\ WF_vars(~cancelled /\ RelayError(r))
                        /\ WF_vars(~cancelled /\ PacketError(r))
                        /\ WF_vars(~cancelled /\ WaitReturns(r))

LiveSpec == Spec /\ Fairness
-----------------------------------------------------------------------------
(***************************************************************************)
(* Properties.                                                             *)
(***************************************************************************)
\* The stores to Manager.ready of superviseFFmpeg, which clear it around every
\* start, and of the relay, which sets it once per session, never cross so
\* that a working pipeline is reported as not ready: while the primary relay
\* forwards what the running FFmpeg publishes, the flag is up.
ReadyKept ==
    /\ relayPc[Primary] \in {"init", "select"}
    /\ src[Primary] = "live" /\ pub[Primary] = "live"
    => ready

\* Whatever fails and in whatever order it is restarted, a raised flag belongs
\* to a session of the primary relay on both paths that is still to be left,
\* and so still to lower it.
ReadyInSession ==
    ready => /\ relayPc[Primary] \in {"init", "select", "return"}
             /\ src[Primary] # "none" /\ dst[Primary] # "none"

\* A session that is left with errCh full leaves the goroutine around
\* reader.Wait blocked for ever.  That happens only when its publisher broke,
\* whatever packets still come in between the two deferred calls of Close, or
\* when the process is about to end: losing the source costs no goroutine.
LeaksWithPublisherOnly ==
    \A r \in Paths :
        relayPc[r] = "close" /\ waiting[r] /\ errs[r] = 2 => dst[r] = "broken" \/ cancelled

\* A session that goes on has not used up its notice: reader.Wait has yet to
\* return, or what it returned, or a failed write, lies in errCh.  No interleaving
\* of the two senders, the ticker and the select leaves a relay forwarding
\* nothing that nothing will end.
LossNoticed ==
    \A r \in Paths : relayPc[r] \in {"init", "select"} => waiting[r] \/ errs[r] > 0

\* When failures and updates stop, the pipeline comes up again by itself: every
\* relay forwards the running FFmpeg's video, its metadata track says so, and
\* the agent is ready, unless it was told to stop.
PipelineRecovers ==
    <>[](\/ cancelled
         \/ /\ ready /\ proc = "alive" /\ args = cfg
            /\ \A r \in Paths : /\ relayPc[r] = "select" /\ reported[r] = "ok"
                                /\ src[r] = "live" /\ dst[r] = "live" /\ pub[r] = "live")
=============================================================================
