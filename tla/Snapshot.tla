------------------------------ MODULE Snapshot ------------------------------
(***************************************************************************)
(* The snapshot cache of internal/onvif/server.go: snapshotLoop keeps one  *)
(* FFmpeg running that writes JPEG frames into a pipe, stores each in      *)
(* place under snapshotMu, and the /snapshot.jpg handlers copy it out.     *)
(*                                                                         *)
(* Two frames are told apart only by being consecutive: the cache holds 1, *)
(* 2, 1, 2, ... and NoFrame before the first; updated tells which frame    *)
(* the stored time belongs to.                                             *)
(***************************************************************************)
EXTENDS Naturals, Sequences

CONSTANTS
    Viewers,     \* goroutines of the /snapshot.jpg handler
    PipeSize,    \* frames the pipe holds before FFmpeg blocks
    MaxOutages   \* bound on failures and interruptions of the stream

ASSUME SnapshotConstants ==
    /\ PipeSize \in Nat \ {0} /\ MaxOutages \in Nat

NoFrame  == 0
Backoffs == {1, 2, 4, 8, 16, 32}

VARIABLES
    ready,       \* Server.ready(): the stream is there
    cancelled,   \* ctx
    loopPc,      \* where snapshotLoop is
    backoff,     \* its delay in seconds
    frames,      \* has this worker delivered a frame?
    proc,        \* the worker: "none", "running" or "exited"
    pipe,        \* the frames in the worker's standard output
    jpeg,        \* snapshotJPEG
    updated,     \* snapshotUpdated
    viewPc,      \* where a handler is
    copy,        \* the frame it has copied
    outages      \* what MaxOutages bounds

snapshotVars == <<ready, cancelled, loopPc, backoff, frames, proc, pipe, jpeg, updated,
                  viewPc, copy, outages>>

\* The backoff goes from 16 s to 32 s: it is doubled while it is below 30 s.
SnapshotTypeOK ==
    /\ ready \in BOOLEAN /\ cancelled \in BOOLEAN /\ frames \in BOOLEAN
    /\ loopPc \in {"check", "poll", "start", "read", "lock", "store", "stamp", "wait",
                  "backoff", "done"}
    /\ backoff \in Backoffs
    /\ proc \in {"none", "running", "exited"}
    /\ pipe \in Seq({"frame", "oversize"}) /\ Len(pipe) <= PipeSize
    /\ jpeg \in 0..2 /\ updated \in 0..2
    /\ viewPc \in [Viewers -> {"idle", "copy", "time"}]
    /\ copy \in [Viewers -> 0..2]
    /\ outages \in 0..MaxOutages

SnapshotInit ==
    /\ ready = FALSE /\ cancelled = FALSE
    /\ loopPc = "check" /\ backoff = 1 /\ frames = FALSE
    /\ proc = "none" /\ pipe = <<>>
    /\ jpeg = NoFrame /\ updated = NoFrame
    /\ viewPc = [h \in Viewers |-> "idle"] /\ copy = [h \in Viewers |-> NoFrame]
    /\ outages = 0

cacheVars  == <<jpeg, updated>>
viewerVars == <<viewPc, copy>>
workerVars == <<proc, pipe>>
envVars    == <<ready, cancelled, outages>>
-----------------------------------------------------------------------------
Fault == outages < MaxOutages /\ outages' = outages + 1

\* The loop's condition and the readiness.
Check ==
    /\ loopPc = "check"
    /\ loopPc' = IF cancelled THEN "done" ELSE IF ready THEN "start" ELSE "poll"
    /\ UNCHANGED <<backoff, frames, workerVars, cacheVars, viewerVars, envVars>>

\* waitSnapshot for a second, and again.
Poll ==
    /\ loopPc = "poll"
    /\ loopPc' = IF cancelled THEN "done" ELSE "check"
    /\ UNCHANGED <<backoff, frames, workerVars, cacheVars, viewerVars, envVars>>

Start ==
    /\ loopPc = "start" /\ ~cancelled
    /\ proc' = "running" /\ pipe' = <<>>
    /\ frames' = FALSE
    /\ loopPc' = "read"
    /\ UNCHANGED <<backoff, cacheVars, viewerVars, envVars>>

\* Start refuses a context that is done.
StartCancelled ==
    /\ loopPc = "start" /\ cancelled
    /\ loopPc' = "done"
    /\ UNCHANGED <<backoff, frames, workerVars, cacheVars, viewerVars, envVars>>

\* StdoutPipe fails: the delay is not doubled.
PipeFails ==
    /\ loopPc = "start" /\ Fault
    /\ loopPc' = "poll"
    /\ UNCHANGED <<ready, cancelled, backoff, frames, workerVars, cacheVars, viewerVars>>

StartFails ==
    /\ loopPc = "start" /\ Fault
    /\ loopPc' = "backoff"
    /\ UNCHANGED <<ready, cancelled, backoff, frames, workerVars, cacheVars, viewerVars>>

\* readJPEGFrame with a frame to read; ctx may end between the loop's condition
\* and here.  A frame that is too large ends the loop, and what follows it stays
\* in the pipe.
ReadFrame ==
    /\ loopPc = "read" /\ pipe # <<>>
    /\ pipe' = Tail(pipe)
    /\ loopPc' = IF Head(pipe) = "frame" THEN "lock" ELSE "wait"
    /\ UNCHANGED <<backoff, frames, proc, cacheVars, viewerVars, envVars>>

\* Faulty variant: the end of the output is not noticed.
ReadEndsOnCancelOnly ==
    /\ loopPc = "read"
    /\ cancelled
    /\ loopPc' = "wait"
    /\ UNCHANGED <<backoff, frames, workerVars, cacheVars, viewerVars, envVars>>

\* readJPEGFrame at the end of the output, or the loop's condition.
ReadEnds ==
    /\ loopPc = "read"
    /\ cancelled \/ (pipe = <<>> /\ proc = "exited")
    /\ loopPc' = "wait"
    /\ UNCHANGED <<backoff, frames, workerVars, cacheVars, viewerVars, envVars>>

\* snapshotMu.Lock waits for the handlers that hold it.
Lock ==
    /\ loopPc = "lock" /\ \A h \in Viewers : viewPc[h] = "idle"
    /\ loopPc' = "store"
    /\ UNCHANGED <<backoff, frames, workerVars, cacheVars, viewerVars, envVars>>

Store ==
    /\ loopPc = "store"
    /\ jpeg' = IF jpeg = 1 THEN 2 ELSE 1
    /\ loopPc' = "stamp"
    /\ UNCHANGED <<backoff, frames, workerVars, updated, viewerVars, envVars>>

\* The time is stored and the mutex released; the first frame of a worker
\* resets the delay.
Stamp ==
    /\ loopPc = "stamp"
    /\ updated' = jpeg
    /\ backoff' = IF frames THEN backoff ELSE 1
    /\ frames' = TRUE
    /\ loopPc' = "read"
    /\ UNCHANGED <<workerVars, jpeg, viewerVars, envVars>>

\* cmd.Wait returns when the process has ended, and closes the pipe only then.
Wait ==
    /\ loopPc = "wait" /\ proc = "exited"
    /\ proc' = "none" /\ pipe' = <<>>
    /\ loopPc' = IF cancelled THEN "done" ELSE "backoff"
    /\ UNCHANGED <<backoff, frames, cacheVars, viewerVars, envVars>>

\* waitSnapshot(backoff), and the doubling.
Slept ==
    /\ loopPc = "backoff"
    /\ IF cancelled THEN loopPc' = "done" /\ UNCHANGED backoff
       ELSE loopPc' = "check" /\ backoff' = IF backoff < 30 THEN 2 * backoff ELSE backoff
    /\ UNCHANGED <<frames, workerVars, cacheVars, viewerVars, envVars>>

Loop ==
    \/ Check \/ Poll \/ Start \/ StartCancelled \/ ReadFrame \/ ReadEnds
    \/ Lock \/ Store \/ Stamp \/ Wait \/ Slept
-----------------------------------------------------------------------------
\* The worker writes a frame, which may be larger than readJPEGFrame accepts; a
\* full pipe blocks it.
WorkerWrites ==
    /\ proc = "running" /\ ready /\ Len(pipe) < PipeSize
    /\ \E k \in {"frame", "oversize"} : pipe' = Append(pipe, k)
    /\ UNCHANGED <<loopPc, backoff, frames, proc, cacheVars, viewerVars, envVars>>

\* It ends when its stream does, unless it is blocked; CommandContext kills it
\* when ctx is done.
WorkerEnds ==
    /\ proc = "running"
    /\ cancelled \/ (~ready /\ Len(pipe) < PipeSize)
    /\ proc' = "exited"
    /\ UNCHANGED <<loopPc, backoff, frames, pipe, cacheVars, viewerVars, envVars>>

WorkerFails ==
    /\ proc = "running" /\ Fault
    /\ proc' = "exited"
    /\ UNCHANGED <<ready, cancelled, loopPc, backoff, frames, pipe, cacheVars, viewerVars>>

StreamOn ==
    /\ ~ready /\ ready' = TRUE
    /\ UNCHANGED <<cancelled, outages, loopPc, backoff, frames, workerVars, cacheVars, viewerVars>>

StreamOff ==
    /\ ready /\ Fault /\ ready' = FALSE
    /\ UNCHANGED <<cancelled, loopPc, backoff, frames, workerVars, cacheVars, viewerVars>>

Cancel ==
    /\ ~cancelled /\ cancelled' = TRUE
    /\ UNCHANGED <<ready, outages, loopPc, backoff, frames, workerVars, cacheVars, viewerVars>>
-----------------------------------------------------------------------------
\* Faulty variant: the handler takes no lock.
RLockNever(h) ==
    /\ viewPc[h] = "idle"
    /\ viewPc' = [viewPc EXCEPT ![h] = "copy"]
    /\ UNCHANGED <<copy, loopPc, backoff, frames, workerVars, cacheVars, envVars>>

\* snapshotMu.RLock: a writer that waits goes first.
RLock(h) ==
    /\ viewPc[h] = "idle" /\ loopPc \notin {"lock", "store", "stamp"}
    /\ viewPc' = [viewPc EXCEPT ![h] = "copy"]
    /\ UNCHANGED <<copy, loopPc, backoff, frames, workerVars, cacheVars, envVars>>

Copy(h) ==
    /\ viewPc[h] = "copy"
    /\ viewPc' = [viewPc EXCEPT ![h] = "time"] /\ copy' = [copy EXCEPT ![h] = jpeg]
    /\ UNCHANGED <<loopPc, backoff, frames, workerVars, cacheVars, envVars>>

\* RUnlock, and the answer: the frame, or "snapshot warming up".
Answer(h) ==
    /\ viewPc[h] = "time"
    /\ viewPc' = [viewPc EXCEPT ![h] = "idle"] /\ copy' = [copy EXCEPT ![h] = NoFrame]
    /\ UNCHANGED <<loopPc, backoff, frames, workerVars, cacheVars, envVars>>
-----------------------------------------------------------------------------
SnapshotNext ==
    \/ Loop \/ PipeFails \/ StartFails
    \/ WorkerWrites \/ WorkerEnds \/ WorkerFails
    \/ StreamOn \/ StreamOff \/ Cancel
    \/ \E h \in Viewers : RLock(h) \/ Copy(h) \/ Answer(h)

SnapshotSpec == SnapshotInit /\ [][SnapshotNext]_snapshotVars

\* As long as the context is not cancelled goroutines and processes that can run
\* do, the stream comes back, and a handler that holds the mutex releases it.
\* Once it is, main returns without waiting, and nothing is assumed any more.
SnapshotFairSpec ==
    /\ SnapshotSpec
    /\ WF_snapshotVars(~cancelled /\ Loop) /\ WF_snapshotVars(~cancelled /\ StreamOn)
    /\ WF_snapshotVars(~cancelled /\ WorkerWrites)
    /\ WF_snapshotVars(~cancelled /\ WorkerEnds)
    /\ \A h \in Viewers : /\ WF_snapshotVars(~cancelled /\ Copy(h))
                          /\ WF_snapshotVars(~cancelled /\ Answer(h))
-----------------------------------------------------------------------------
\* A handler answers with the frame that the time it reads belongs to, although
\* the next frame is stored over it in place.
ServedTogether == \A h \in Viewers : viewPc[h] = "time" => copy[h] = updated

\* However a worker ends and whatever fails, the loop neither starts another one
\* beside it nor returns without it, and nothing of an old worker's output is
\* left for the next: only while it reads, stores or waits is there a process.
OneWorker ==
    loopPc \in {"check", "poll", "start", "backoff", "done"} => proc = "none" /\ pipe = <<>>

\* A worker that waits for its pipe to be read while the loop, after a frame
\* that was too large, waits for the worker.  Only cancellation,
\* or a failure of the worker, ends this.
Jammed == loopPc = "wait" /\ proc = "running" /\ Len(pipe) = PipeSize

\* PRODUCTION.md: snapshot polling "returns fresh JPEG data".  As long as the
\* agent runs the cache is refreshed again and again, whatever failed before;
\* the one thing that stops it is a jammed worker.
KeepsRefreshing == []<>(cancelled \/ loopPc = "stamp" \/ Jammed)
=============================================================================
