----------------------------- MODULE Recording -----------------------------
(***************************************************************************)
(* Recording: the configuration the agent started with, MediaMTX writing   *)
(* segments and deleting old ones, and the agent's own guard on the disk,  *)
(* storageQuotaLoop and enforceQuota of internal/capture/capture.go.       *)
(*                                                                         *)
(* enforceQuota lists the directory, adds up the sizes and removes the     *)
(* oldest files until its total is within the limit; nothing keeps         *)
(* MediaMTX from writing, beginning and deleting segments meanwhile.  The  *)
(* listing of a file that is still open may show an earlier size and an    *)
(* earlier modification time, down to the time of its creation.            *)
(*                                                                         *)
(* Time is kept as ages, which need not be told apart once a file is older *)
(* than 2 * SegmentSeconds.  Segments are numbered as they are recorded,   *)
(* which is the order of their modification times.                         *)
(***************************************************************************)
EXTENDS MediaPaths

CONSTANTS
    Starts,          \* what config.json and the two password variables may hold
    SegmentSeconds,  \* Config.SegmentSeconds, in units of time
    GB, Word,        \* 1024 * 1024 * 1024, and 2^64, scaled down
    MaxSegments,     \* bound on the segments recorded
    MaxSize,         \* bound on the size of a segment
    MaxFaults        \* bound on removals that fail

ASSUME RecordingConstants ==
    /\ SegmentSeconds \in Nat \ {0} /\ GB \in Nat \ {0} /\ Word \in Nat \ {0}
    /\ MaxSegments \in Nat /\ MaxSize \in Nat /\ MaxFaults \in Nat
    /\ \A s \in Starts : s.file \in ConfigFile

VARIABLES
    cfg,         \* the configuration Load returned
    seg,         \* a segment's file: "none" yet, "open", "closed" or "gone"
    size,        \* its size
    born,        \* time since it was created, as long as it is open
    wrote,       \* time since it was last written
    usage,       \* the size of all files together
    pc,          \* enforceQuota: "idle", "protect" after the walk, "remove"
    todo,        \* files the pass has yet to look at
    listedSize, listedAge,   \* what the walk found
    total,       \* its local variable of that name
    failed,      \* history: files this pass could not remove
    others,      \* history: the size of what MediaMTX deleted since the walk
    written,     \* history: what it appended since, or the walk did not see
    faults       \* what MaxFaults bounds

diskVars == <<seg, size, born, wrote, usage>>
passVars == <<pc, todo, listedSize, listedAge, total, failed, others, written>>
vars     == <<cfg, diskVars, passVars, faults>>

Segments == 1..MaxSegments
Present  == {f \in Segments : seg[f] \in {"open", "closed"}}
Old      == 2 * SegmentSeconds

\* storageQuotaLoop does nothing otherwise.
guarded(c) == c.RecordingEnabled /\ c.MaxRecordingGB > 0

\* int64 arithmetic: MaxRecordingGB * 1024 * 1024 * 1024.
quota(c) == c.MaxRecordingGB * GB
fits(c)  == quota(c) < Word \div 2

\* Faulty variant: rounded up by one.
limitRoundedUp(c) == quota(c) + GB

limit(c) == ((quota(c) + Word \div 2) % Word) - Word \div 2

TypeOK ==
    /\ seg \in [Segments -> {"none", "open", "closed", "gone"}]
    /\ size \in [Segments -> Nat]
    /\ born \in [Segments -> 0..Old] /\ wrote \in [Segments -> 0..Old]
    /\ usage \in Int /\ total \in Int /\ others \in Nat /\ written \in Nat
    /\ pc \in {"idle", "protect", "remove"}
    /\ todo \subseteq Segments /\ failed \subseteq Segments
    /\ listedSize \in [Segments -> Nat] /\ listedAge \in [Segments -> 0..Old]
    /\ faults \in Nat

nothing == [f \in Segments |-> 0]

\* Load has returned a configuration.
Init ==
    /\ cfg \in {applyEnv(s.file, s.env) : s \in Starts}
    /\ validStart(cfg)
    /\ seg = [f \in Segments |-> "none"]
    /\ size = nothing /\ born = nothing /\ wrote = nothing /\ usage = 0
    /\ pc = "idle" /\ todo = {} /\ listedSize = nothing /\ listedAge = nothing
    /\ total = 0 /\ failed = {} /\ others = 0 /\ written = 0
    /\ faults = 0
-----------------------------------------------------------------------------
(***************************************************************************)
(* MediaMTX and time.                                                      *)
(***************************************************************************)
\* The next segment begins, and with it the one before ends.  What is recorded
\* is followed only where there is a guard to look at it.
Begin(f) ==
    /\ guarded(cfg)
    /\ seg[f] = "none" /\ \A g \in Segments : g < f => seg[g] # "none"
    /\ seg' = [g \in Segments |-> IF g = f THEN "open"
                                  ELSE IF seg[g] = "open" THEN "closed" ELSE seg[g]]
    /\ born' = nothing
    /\ UNCHANGED <<cfg, size, wrote, usage, passVars, faults>>

\* A part is appended.
Append1(f) ==
    /\ seg[f] = "open" /\ size[f] < MaxSize
    /\ size' = [size EXCEPT ![f] = @ + 1]
    /\ usage' = usage + 1
    /\ wrote' = [wrote EXCEPT ![f] = 0]
    /\ written' = IF pc = "idle" THEN written ELSE written + 1
    /\ UNCHANGED <<cfg, seg, born, pc, todo, listedSize, listedAge, total, failed, others, faults>>

\* The publisher or MediaMTX ends, or the segment is full.
Close(f) ==
    /\ seg[f] = "open"
    /\ seg' = [seg EXCEPT ![f] = "closed"]
    /\ born' = nothing
    /\ UNCHANGED <<cfg, size, wrote, usage, passVars, faults>>

\* recordDeleteAfter: retention days are longer than any age told apart here.
Expire(f) ==
    /\ seg[f] = "closed" /\ wrote[f] = Old
    /\ seg' = [seg EXCEPT ![f] = "gone"]
    /\ size' = [size EXCEPT ![f] = 0] /\ wrote' = [wrote EXCEPT ![f] = 0]
    /\ usage' = usage - size[f]
    /\ others' = IF pc = "idle" THEN others ELSE others + size[f]
    /\ UNCHANGED <<cfg, born, pc, todo, listedSize, listedAge, total, failed, written, faults>>

older(age) == IF age < Old THEN age + 1 ELSE Old

\* Time passes; no segment stays open longer than recordSegmentDuration.  Until
\* protectRecent is computed the listed times grow older with the others.
Tick ==
    /\ \A f \in Segments : seg[f] = "open" => born[f] < SegmentSeconds
    /\ born'  = [f \in Segments |-> IF seg[f] = "open" THEN older(born[f]) ELSE born[f]]
    /\ wrote' = [f \in Segments |-> IF f \in Present THEN older(wrote[f]) ELSE wrote[f]]
    /\ listedAge' = IF pc = "protect" THEN [f \in Segments |-> older(listedAge[f])] ELSE listedAge
    /\ UNCHANGED <<cfg, seg, size, usage, pc, todo, listedSize, total, failed, others, written,
                   faults>>
-----------------------------------------------------------------------------
(***************************************************************************)
(* enforceQuota.                                                           *)
(***************************************************************************)
\* The walk, once at the start and then on every tick of ten minutes.  Within
\* the limit the pass ends here.
Walk ==
    /\ pc = "idle"
    /\ guarded(cfg)
    /\ \E missing \in 0..MaxSize, stale \in BOOLEAN :
          LET unseen(f) == IF seg[f] = "open" THEN missing ELSE 0
          IN  /\ \E f \in Present : missing <= size[f] /\ (seg[f] = "open" \/ missing = 0)
              /\ total' = usage - missing /\ written' = missing
              /\ listedSize' = [f \in Segments |-> IF f \in Present THEN size[f] - unseen(f) ELSE 0]
              /\ listedAge' = [f \in Segments |->
                     IF seg[f] = "open" /\ stale THEN born[f]
                     ELSE IF f \in Present THEN wrote[f] ELSE 0]
    /\ total' > limit(cfg)
    /\ todo' = Present
    /\ pc' = "protect"
    /\ UNCHANGED <<cfg, diskVars, failed, others, faults>>

\* Faulty variant: one segment's duration is taken for enough.
ProtectOne ==
    /\ pc = "protect"
    /\ todo' = {f \in todo : listedAge[f] >= SegmentSeconds}
    /\ pc' = "remove"
    /\ listedAge' = nothing
    /\ UNCHANGED <<cfg, diskVars, listedSize, total, failed, others, written, faults>>

\* protectRecent; the files after it are left out here, the loop skips them.
Protect ==
    /\ pc = "protect"
    /\ todo' = {f \in todo : listedAge[f] >= 2 * SegmentSeconds}
    /\ pc' = "remove"
    /\ listedAge' = nothing
    /\ UNCHANGED <<cfg, diskVars, listedSize, total, failed, others, written, faults>>

\* Faulty variant: the newest first.
oldestLast(S) == Max(S)

oldest(S) == Min(S)

\* Faulty variant: the size of a removed file is not subtracted.
removedKeepsTotal(f) ==
    /\ seg' = [seg EXCEPT ![f] = "gone"]
    /\ size' = [size EXCEPT ![f] = 0] /\ wrote' = [wrote EXCEPT ![f] = 0]
    /\ usage' = usage - size[f]
    /\ UNCHANGED total

removed(f) ==
    /\ seg' = [seg EXCEPT ![f] = "gone"]
    /\ size' = [size EXCEPT ![f] = 0] /\ wrote' = [wrote EXCEPT ![f] = 0]
    /\ usage' = usage - size[f]
    /\ total' = total - listedSize[f]

Remove ==
    /\ pc = "remove" /\ todo # {} /\ total > limit(cfg)
    /\ LET f == oldest(todo)
       IN  /\ seg[f] = "closed"
           /\ removed(f)
           /\ todo' = todo \ {f}
    /\ UNCHANGED <<cfg, born, pc, listedSize, listedAge, failed, others, written, faults>>

\* Faulty variant: the size is subtracted whether or not the file was removed.
RemoveFailsSubtracts ==
    /\ pc = "remove" /\ todo # {} /\ total > limit(cfg)
    /\ LET f == oldest(todo)
       IN  /\ \/ seg[f] # "closed" /\ UNCHANGED faults
              \/ faults < MaxFaults /\ faults' = faults + 1
           /\ failed' = failed \cup {f}
           /\ todo' = todo \ {f}
           /\ total' = total - listedSize[f]
    /\ UNCHANGED <<cfg, diskVars, pc, listedSize, listedAge, others, written>>

\* The file is gone already, still open, or cannot be removed.
RemoveFails ==
    /\ pc = "remove" /\ todo # {} /\ total > limit(cfg)
    /\ LET f == oldest(todo)
       IN  /\ \/ seg[f] # "closed" /\ UNCHANGED faults
              \/ faults < MaxFaults /\ faults' = faults + 1
           /\ failed' = failed \cup {f}
           /\ todo' = todo \ {f}
    /\ UNCHANGED <<cfg, diskVars, pc, listedSize, listedAge, total, others, written>>

Done ==
    /\ pc = "remove" /\ (todo = {} \/ total <= limit(cfg))
    /\ pc' = "idle" /\ todo' = {} /\ listedSize' = nothing /\ listedAge' = nothing
    /\ total' = 0 /\ failed' = {} /\ others' = 0 /\ written' = 0
    /\ UNCHANGED <<cfg, diskVars, faults>>
-----------------------------------------------------------------------------
Pass == Walk \/ Protect \/ Remove \/ RemoveFails \/ Done

Next ==
    \/ \E f \in Segments : Begin(f) \/ Append1(f) \/ Close(f) \/ Expire(f)
    \/ Tick \/ Pass

Spec == Init /\ [][Next]_vars

\* The ticker fires and the pass runs, time passes, and MediaMTX ends a segment
\* in time.  Nothing is assumed of what it records and of its retention.
LiveSpec == /\ Spec
            /\ WF_vars(Pass) /\ WF_vars(Tick)
            /\ \A f \in Segments : WF_vars(Close(f))
-----------------------------------------------------------------------------
(***************************************************************************)
(* Properties.                                                             *)
(***************************************************************************)
\* Although the listing may show the segment that is being written with the
\* time of its creation, and MediaMTX goes on writing during the pass, nothing
\* is removed that was written in the last SegmentSeconds.
OnlyFinished ==
    pc = "remove" =>
        \A f \in todo \cap Present : seg[f] = "closed" /\ wrote[f] >= SegmentSeconds

\* The guard removes a file only when the disk holds more than the limit, or
\* did until MediaMTX deleted files behind the back of this very pass.
NoNeedlessRemoval ==
    pc = "remove" /\ total > limit(cfg) /\ fits(cfg) => usage + others > quota(cfg)

\* A pass that stops because its own count is within the limit has brought the
\* disk there, but for what MediaMTX wrote since the listing or the listing did
\* not show: a file that could not be removed, or was deleted by MediaMTX, does
\* not make the count smaller than the disk.
StopsWithinQuota ==
    pc = "remove" /\ total <= limit(cfg) /\ fits(cfg) => usage <= quota(cfg) + written

\* What is left is the newest part of the recording: when a pass removes a
\* file, no older one is left but those it has failed to remove.
NewestLeft ==
    [][ \A f \in Segments :
            pc = "remove" /\ todo' # todo /\ seg[f] = "closed" /\ seg'[f] = "gone"
                => \A g \in Present : g < f => g \in failed ]_vars

withinQuota == guarded(cfg) /\ fits(cfg) => usage <= quota(cfg)

\* docs/PRODUCTION.md: "disk quota never exceeds the configured threshold for
\* sustained periods".  When MediaMTX stops recording and removals stop failing,
\* the disk gets within the limit and stays there.
QuotaReached ==
    <>[]withinQuota

\* docs/PRODUCTION.md: "Only the main path is recorded by default" and "Recording
\* intentionally remains on the raw H.264 path".  Of the settings for the paths,
\* some given twice, those that count record what FFmpeg publishes of the main
\* stream and nothing else.
RecordsMainOnly ==
    wellNamed(cfg) =>
        recorded(cfg) = IF cfg.RecordingEnabled THEN {publishPath(cfg, cfg.RTSPPath)} ELSE {}

\* The URI of every profile the Media services know leads to a path that other
\* machines may read with the validated password, that carries FFmpeg's video,
\* directly or through a relay, and that is not one of the internal ones.
AdvertisedPlayable ==
    wellNamed(cfg) =>
        /\ \A t \in ProfileTokens : \A p \in streamURLForProfile(cfg, t) :
              p \in externalReads(cfg) /\ carriesVideo(cfg, p)
        /\ cfg.MetadataEnabled => externalReads(cfg) \cap ffmpegOutputs(cfg) = {}
        /\ cfg.InsecureNoAuth \/ externalUser(cfg).pass \notin {"", "short"}
=============================================================================
