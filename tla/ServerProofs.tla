---------------------------- MODULE ServerProofs ----------------------------
(***************************************************************************)
(* The state the handlers of the HTTP server share, for any number of      *)
(* handlers.  The OSD file: it always exists for FFmpeg, what FFmpeg draws *)
(* is whole, and what requests were promised one at a time is kept.  The   *)
(* snapshot cache: frames are served whole, and one worker fills it.       *)
(***************************************************************************)
EXTENDS OSD, Snapshot, TLAPS

LEMMA InitType == Init => TypeOK
  BY OSDConstants DEF Init, TypeOK

LEMMA NextType == TypeOK /\ [Next]_vars => TypeOK'
<1> SUFFICES ASSUME TypeOK, [Next]_vars PROVE TypeOK'
  OBVIOUS
<1> USE OSDConstants DEF TypeOK, handlerVars, historyVars
<1>1. CASE prepareOSD \/ prepareOSDCreate \/ Render
  BY <1>1 DEF prepareOSD, prepareOSDCreate, Render
<1>2. CASE Reboot
  BY <1>2 DEF Reboot
<1>3. ASSUME NEW h \in Handlers, NEW t \in Texts, CreateOSD(h, t) \/ SetOSD(h, t)
      PROVE  TypeOK'
  BY <1>3 DEF CreateOSD, SetOSD, Begin
<1>4. ASSUME NEW h \in Handlers, DeleteOSD(h) PROVE TypeOK'
  BY <1>4 DEF DeleteOSD, Begin
<1>5. ASSUME NEW h \in Handlers, Open(h) PROVE TypeOK'
  BY <1>5 DEF Open
<1>6. ASSUME NEW h \in Handlers, Write(h) PROVE TypeOK'
  <2>1. file' \in Texts \cup {Torn} \/ file' = file
    BY <1>6 DEF Write
  <2>2. made' \in 0..2
    BY <1>6 DEF Write
  <2> QED  BY <1>6, <2>1, <2>2 DEF Write, Return
<1>7. ASSUME NEW h \in Handlers, WriteFails(h) PROVE TypeOK'
  <2>1. intact' \in BOOLEAN /\ clean' \in BOOLEAN
    BY <1>7, Zenon DEF WriteFails
  <2>2. file' \in {file, Torn} /\ made' \in {made, 0} /\ faults' \in 0..MaxFaults
    BY <1>7 DEF WriteFails
  <2> QED  BY <1>7, <2>1, <2>2 DEF WriteFails, Return
<1>8. CASE UNCHANGED vars
  BY <1>8 DEF vars
<1> QED  BY <1>1, <1>2, <1>3, <1>4, <1>5, <1>6, <1>7, <1>8 DEF Next

\* TypeOK holds in every state, and with it: once prepareOSD has returned,
\* FFmpeg finds a file to read.
THEOREM TypeCorrect == Spec => []TypeOK
  BY InitType, NextType, PTL DEF Spec
-----------------------------------------------------------------------------
\* As long as no write failed or overlapped another one, at most one handler is
\* between the truncation and the write, and it finds the file empty.
Exclusive ==
    clean =>
      /\ file # Torn /\ rendered # Torn
      /\ \A h \in Handlers : pc[h] = "write" =>
            file = Blank /\ \A g \in Handlers : pc[g] = "write" => g = h

LEMMA InitExclusive == Init => Exclusive
  BY OSDConstants DEF Init, Exclusive

LEMMA NextExclusive == TypeOK /\ Exclusive /\ [Next]_vars => Exclusive'
<1> SUFFICES ASSUME TypeOK, Exclusive, [Next]_vars, clean' PROVE Exclusive'
  BY DEF Exclusive
<1> USE OSDConstants DEF handlerVars, historyVars
<1>0. clean
  BY DEF Next, vars, prepareOSD, prepareOSDCreate, Render, Reboot, CreateOSD, SetOSD,
         DeleteOSD, Begin, Open, Write, WriteFails, TypeOK
<1> USE <1>0 DEF TypeOK, Exclusive
<1>1. CASE prepareOSD \/ prepareOSDCreate \/ Render
  BY <1>1 DEF prepareOSD, prepareOSDCreate, Render
<1>2. CASE Reboot
  BY <1>2 DEF Reboot
<1>3. ASSUME NEW h \in Handlers, NEW t \in Texts, CreateOSD(h, t) \/ SetOSD(h, t)
      PROVE  Exclusive'
  BY <1>3 DEF CreateOSD, SetOSD, Begin
<1>4. ASSUME NEW h \in Handlers, DeleteOSD(h) PROVE Exclusive'
  BY <1>4 DEF DeleteOSD, Begin
\* Nobody is between truncation and write, or clean would end here.
<1>5. ASSUME NEW h \in Handlers, Open(h) PROVE Exclusive'
  <2>1. \A g \in Handlers : pc[g] # "write"
    BY <1>5 DEF Open
  <2> QED  BY <1>5, <2>1 DEF Open
\* The only writer finds the file empty, so nothing is left of another text.
<1>6. ASSUME NEW h \in Handlers, Write(h) PROVE Exclusive'
  <2>1. file = Blank /\ \A g \in Handlers : pc[g] = "write" => g = h
    BY <1>6 DEF Write
  <2>2. file' = text[h]
    BY <1>6, <2>1 DEF Write
  <2>3. \A g \in Handlers : pc'[g] # "write"
    BY <1>6, <2>1 DEF Write, Return
  <2> QED  BY <1>6, <2>2, <2>3 DEF Write
\* Only a handler that had not truncated the file yet may fail here.
<1>7. ASSUME NEW h \in Handlers, WriteFails(h) PROVE Exclusive'
  BY <1>7 DEF WriteFails, Return
<1>8. CASE UNCHANGED vars
  BY <1>8 DEF vars
<1> QED  BY <1>1, <1>2, <1>3, <1>4, <1>5, <1>6, <1>7, <1>8 DEF Next

\* drawtext's reload never shows a part of a text unless a write failed or two
\* handlers wrote at once: truncating and then writing is enough of an order.
THEOREM OverlayWhole == Spec => []RenderedWhole
<1>1. Exclusive => RenderedWhole
  BY DEF Exclusive, RenderedWhole
<1> QED  BY <1>1, InitType, NextType, InitExclusive, NextExclusive, PTL DEF Spec
-----------------------------------------------------------------------------
\* No handler is between the truncation and the write.
NotWriting == \A h \in Handlers : pc[h] # "write"

\* While requests come one at a time and find the file, a single handler works
\* on a file that is there; what it truncated is empty, prepareOSD is not about
\* to empty it, and outside of a write the file has what was answered last.
OneAtATime ==
    alone =>
      /\ \A g, h \in Handlers : pc[g] # "idle" /\ pc[h] # "idle" => g = h
      /\ prepPc = "create" => file = Absent
      /\ file = Absent => Quiet
      /\ \A h \in Handlers : pc[h] = "write" => file = Blank
      /\ NotWriting /\ intact => readOSDText = trim(acked)

\* A CreateOSD that was granted found no text, so none granted before it is
\* still there.
OneGranted ==
    alone =>
      /\ made <= 1
      /\ NotWriting /\ readOSDText = Blank => made = 0
      /\ \A h \in Handlers : pc[h] # "idle" =>
            /\ op[h] = "Create" => made = 0
            /\ op[h] = "Delete" => text[h] = Blank

SequentialInv == OneAtATime /\ OneGranted

LEMMA InitSequential == Init => SequentialInv
  BY OSDConstants DEF Init, SequentialInv, OneAtATime, OneGranted, NotWriting, Quiet, readOSDText, trim

LEMMA NextSequential == TypeOK /\ SequentialInv /\ [Next]_vars => SequentialInv'
<1> SUFFICES ASSUME TypeOK, SequentialInv, [Next]_vars, alone' PROVE SequentialInv'
  BY DEF SequentialInv, OneAtATime, OneGranted
<1> USE OSDConstants DEF handlerVars, historyVars
<1>0. alone
  BY DEF Next, vars, prepareOSD, prepareOSDCreate, Render, Reboot, CreateOSD, SetOSD,
         DeleteOSD, Begin, Open, Write, WriteFails, TypeOK
<1> USE <1>0 DEF TypeOK, SequentialInv, OneAtATime, OneGranted, NotWriting, Quiet,
                 readOSDText, trim
<1>1. CASE prepareOSD \/ prepareOSDCreate \/ Render
  BY <1>1 DEF prepareOSD, prepareOSDCreate, Render
<1>2. CASE Reboot
  <2>1. /\ \A g \in Handlers : pc'[g] = "idle"
        /\ prepPc' = "stat" /\ UNCHANGED <<file, acked>>
    BY <1>2 DEF Reboot
  <2>2. intact' => intact /\ \A g \in Handlers : pc[g] # "write"
    BY <1>2, Zenon DEF Reboot
  <2>3. made' = IF intact' THEN made ELSE 0
    BY <1>2 DEF Reboot
  <2> QED  BY <2>1, <2>2, <2>3
\* A request starts alone: every handler was idle, and the file is there.
<1>3. ASSUME NEW h \in Handlers, NEW o \in {"Create", "Set", "Delete"},
             NEW t \in Texts \cup {Blank}, Begin(h, o, t),
             o = "Create" => readOSDText = Blank, o = "Delete" => t = Blank
      PROVE  SequentialInv'
  <2>1. file # Absent /\ Quiet /\ UNCHANGED <<file, prepPc, acked, intact, made>>
    BY <1>3 DEF Begin
  <2>2. \A g \in Handlers : pc'[g] = (IF g = h THEN "open" ELSE "idle")
    BY <1>3, <2>1 DEF Begin
  <2>3. op'[h] = o /\ text'[h] = t
    BY <1>3 DEF Begin
  <2> QED  BY <1>3, <2>1, <2>2, <2>3
<1>4. ASSUME NEW h \in Handlers,
             DeleteOSD(h) \/ \E t \in Texts : CreateOSD(h, t) \/ SetOSD(h, t)
      PROVE  SequentialInv'
  BY <1>3, <1>4 DEF CreateOSD, SetOSD, DeleteOSD
<1>5. ASSUME NEW h \in Handlers, Open(h) PROVE SequentialInv'
  BY <1>5 DEF Open
\* The writer found an empty file, so the file gets exactly its text.
<1>6. ASSUME NEW h \in Handlers, Write(h) PROVE SequentialInv'
  <2>1. /\ file = Blank /\ file' = text[h] /\ acked' = text[h]
        /\ prepPc' = prepPc
    BY <1>6 DEF Write
  <2>2. \A g \in Handlers : pc'[g] = "idle"
    BY <1>6 DEF Write, Return
  <2>3. OneAtATime'
    BY <2>1, <2>2
  <2>4. made' <= 1 /\ (trim(text[h]) = Blank => made' = 0)
    BY <1>6 DEF Write
  <2> QED  BY <2>1, <2>2, <2>3, <2>4
<1>7. ASSUME NEW h \in Handlers, WriteFails(h) PROVE SequentialInv'
  BY <1>7 DEF WriteFails, Return
<1>8. CASE UNCHANGED vars
  BY <1>8 DEF vars
<1> QED  BY <1>1, <1>2, <1>4, <1>5, <1>6, <1>7, <1>8 DEF Next

\* What a positive answer promised is in the file, over failures and restarts.
THEOREM AnswerStored == Spec => []AckedIsStored
<1>1. SequentialInv => AckedIsStored
  BY DEF SequentialInv, OneAtATime, AckedIsStored, NotWriting, Quiet
<1> QED  BY <1>1, InitType, NextType, InitSequential, NextSequential, PTL DEF Spec

\* "Only one text OSD is supported": no second CreateOSD is granted.
THEOREM OneText == Spec => []OneOSD
<1>1. SequentialInv => OneOSD
  BY DEF SequentialInv, OneGranted, OneOSD
<1> QED  BY <1>1, InitType, NextType, InitSequential, NextSequential, PTL DEF Spec
-----------------------------------------------------------------------------
(***************************************************************************)
(* snapshotLoop and the /snapshot.jpg handlers (Snapshot), for any number  *)
(* of handlers, any size of the pipe and any number of failures.           *)
(***************************************************************************)
\* The mutex: while the loop stores a frame and its time no handler is inside,
\* and only then the two do not belong together.
CacheGuarded ==
    /\ loopPc \in {"store", "stamp"} => \A h \in Viewers : viewPc[h] = "idle"
    /\ loopPc # "stamp" => jpeg = updated
    /\ ServedTogether

SnapshotInv == SnapshotTypeOK /\ OneWorker /\ CacheGuarded

LEMMA SnapshotInitInv == SnapshotInit => SnapshotInv
<1> SUFFICES ASSUME SnapshotInit PROVE SnapshotInv
  OBVIOUS
<1> USE DEF SnapshotInit, NoFrame
<1>1. ready \in BOOLEAN /\ cancelled \in BOOLEAN /\ frames \in BOOLEAN
  BY Zenon
<1>2. SnapshotTypeOK
  BY <1>1, SnapshotConstants DEF SnapshotTypeOK, Backoffs
<1>3. OneWorker /\ CacheGuarded
  BY DEF OneWorker, CacheGuarded, ServedTogether
<1> QED  BY <1>2, <1>3 DEF SnapshotInv

LEMMA SnapshotTypeStep == SnapshotTypeOK /\ [SnapshotNext]_snapshotVars => SnapshotTypeOK'
<1> SUFFICES ASSUME SnapshotTypeOK, [SnapshotNext]_snapshotVars PROVE SnapshotTypeOK'
  OBVIOUS
<1> USE SnapshotConstants DEF SnapshotTypeOK, cacheVars, viewerVars, workerVars, envVars
<1>1. CASE Check \/ Poll \/ StartCancelled \/ ReadEnds \/ Lock
  BY <1>1 DEF Check, Poll, StartCancelled, ReadEnds, Lock
<1>2. CASE Start
  <2>1. frames' \in BOOLEAN
    BY <1>2, Zenon DEF Start
  <2> QED  BY <1>2, <2>1 DEF Start
<1>3. CASE PipeFails \/ StartFails
  BY <1>3 DEF PipeFails, StartFails, Fault
<1>4. CASE ReadFrame
  <2>1. pipe' \in Seq({"frame", "oversize"}) /\ Len(pipe') <= PipeSize
    BY <1>4 DEF ReadFrame
  <2> QED  BY <1>4, <2>1 DEF ReadFrame
<1>5. CASE Wait
  BY <1>5 DEF Wait
\* The delay is doubled while it is below 30 s: from 16 s to 32 s, and no further.
<1>6. CASE Slept
  BY <1>6 DEF Slept, Backoffs
<1>7. CASE Store
  BY <1>7 DEF Store
<1>8. CASE Stamp
  <2>1. frames' \in BOOLEAN
    BY <1>8, Zenon DEF Stamp
  <2> QED  BY <1>8, <2>1 DEF Stamp, Backoffs
<1>9. CASE WorkerWrites
  BY <1>9 DEF WorkerWrites
<1>10. CASE WorkerEnds \/ WorkerFails
  BY <1>10 DEF WorkerEnds, WorkerFails, Fault
<1>11. CASE StreamOn \/ StreamOff \/ Cancel
  <2>1. ready' \in BOOLEAN /\ cancelled' \in BOOLEAN
    BY <1>11, Zenon DEF StreamOn, StreamOff, Cancel
  <2> QED  BY <1>11, <2>1 DEF StreamOn, StreamOff, Cancel, Fault
<1>12. ASSUME NEW h \in Viewers, RLock(h) \/ Copy(h) \/ Answer(h) PROVE SnapshotTypeOK'
  BY <1>12 DEF RLock, Copy, Answer, NoFrame
<1>13. CASE UNCHANGED snapshotVars
  BY <1>13 DEF snapshotVars
<1> QED  BY <1>1, <1>2, <1>3, <1>4, <1>5, <1>6, <1>7, <1>8, <1>9, <1>10, <1>11, <1>12, <1>13
         DEF SnapshotNext, Loop

LEMMA WorkerStep ==
    SnapshotTypeOK /\ OneWorker /\ [SnapshotNext]_snapshotVars => OneWorker'
<1> SUFFICES ASSUME SnapshotTypeOK, OneWorker, [SnapshotNext]_snapshotVars PROVE OneWorker'
  OBVIOUS
<1> USE DEF OneWorker, workerVars
<1>1. CASE Check \/ Poll \/ StartCancelled \/ PipeFails \/ StartFails \/ Slept
  BY <1>1 DEF Check, Poll, StartCancelled, PipeFails, StartFails, Slept
<1>2. CASE Start \/ ReadFrame \/ ReadEnds \/ Lock \/ Store \/ Stamp
  BY <1>2 DEF Start, ReadFrame, ReadEnds, Lock, Store, Stamp
\* Only after cmd.Wait has returned does the loop go on.
<1>3. CASE Wait
  BY <1>3 DEF Wait
<1>4. CASE WorkerWrites \/ WorkerEnds \/ WorkerFails
  BY <1>4 DEF WorkerWrites, WorkerEnds, WorkerFails
<1>5. CASE \/ StreamOn \/ StreamOff \/ Cancel
           \/ \E h \in Viewers : RLock(h) \/ Copy(h) \/ Answer(h)
           \/ UNCHANGED snapshotVars
  BY <1>5 DEF StreamOn, StreamOff, Cancel, RLock, Copy, Answer, snapshotVars
<1> QED  BY <1>1, <1>2, <1>3, <1>4, <1>5 DEF SnapshotNext, Loop

LEMMA CacheStep ==
    SnapshotTypeOK /\ CacheGuarded /\ [SnapshotNext]_snapshotVars => CacheGuarded'
<1> SUFFICES ASSUME SnapshotTypeOK, CacheGuarded, [SnapshotNext]_snapshotVars
             PROVE  CacheGuarded'
  OBVIOUS
<1> USE DEF SnapshotTypeOK, CacheGuarded, ServedTogether, cacheVars, viewerVars
<1>1. CASE \/ Check \/ Poll \/ Start \/ StartCancelled \/ PipeFails \/ StartFails
           \/ ReadFrame \/ ReadEnds \/ Wait \/ Slept
  <2>1. /\ UNCHANGED <<jpeg, updated, viewPc, copy>>
        /\ loopPc # "stamp" /\ loopPc' \notin {"store", "stamp"}
    BY <1>1 DEF Check, Poll, Start, StartCancelled, PipeFails, StartFails, ReadFrame,
                ReadEnds, Wait, Slept
  <2> QED  BY <2>1
<1>2. CASE Lock \/ Store \/ Stamp
  BY <1>2 DEF Lock, Store, Stamp
<1>3. CASE \/ WorkerWrites \/ WorkerEnds \/ WorkerFails \/ StreamOn \/ StreamOff \/ Cancel
           \/ UNCHANGED snapshotVars
  BY <1>3 DEF WorkerWrites, WorkerEnds, WorkerFails, StreamOn, StreamOff, Cancel, snapshotVars
<1>4. ASSUME NEW h \in Viewers, RLock(h) PROVE CacheGuarded'
  BY <1>4 DEF RLock
<1>5. ASSUME NEW h \in Viewers, Copy(h) PROVE CacheGuarded'
  BY <1>5 DEF Copy
<1>6. ASSUME NEW h \in Viewers, Answer(h) PROVE CacheGuarded'
  BY <1>6 DEF Answer, NoFrame
<1> QED  BY <1>1, <1>2, <1>3, <1>4, <1>5, <1>6 DEF SnapshotNext, Loop

\* All of it holds of the loop, its worker and the handlers together.
LEMMA SnapshotInvariance == SnapshotSpec => []SnapshotInv
<1>1. SnapshotInv /\ [SnapshotNext]_snapshotVars => SnapshotInv'
  BY SnapshotTypeStep, WorkerStep, CacheStep DEF SnapshotInv
<1> QED  BY <1>1, SnapshotInitInv, PTL DEF SnapshotSpec

\* Type correctness of the cache: the pipe never holds more than it can, and the
\* delay between two workers never exceeds 32 s.
THEOREM SnapshotTypeCorrect == SnapshotSpec => []SnapshotTypeOK
<1>1. SnapshotInv => SnapshotTypeOK
  BY DEF SnapshotInv
<1> QED  BY <1>1, SnapshotInvariance, PTL

\* However many handlers answer while frames are stored over one another, each
\* serves a frame with its own time.
THEOREM FramesServedWhole == SnapshotSpec => []ServedTogether
<1>1. SnapshotInv => ServedTogether
  BY DEF SnapshotInv, CacheGuarded
<1> QED  BY <1>1, SnapshotInvariance, PTL

\* snapshotLoop never starts a worker beside another one, and leaves none behind
\* when it sleeps or returns.
THEOREM WorkersInTurn == SnapshotSpec => []OneWorker
<1>1. SnapshotInv => OneWorker
  BY DEF SnapshotInv
<1> QED  BY <1>1, SnapshotInvariance, PTL
=============================================================================
