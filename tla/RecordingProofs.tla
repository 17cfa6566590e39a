-------------------------- MODULE RecordingProofs --------------------------
(* What a pass of enforceQuota removes, for any number and size of         *)
(* segments, whatever MediaMTX does meanwhile; what a configuration, with  *)
(* any names of paths that can be told apart, records and advertises.      *)
EXTENDS Recording, SequenceTheorems, WellFoundedInduction, TLAPS

\* Files come in the order of their numbers, and only the last one is open.
Begun ==
    \A f \in Segments :
        /\ seg[f] = "none" => wrote[f] = 0 /\ f \notin todo
        /\ \A g \in Segments : g < f =>
              /\ seg[g] = "none" => seg[f] = "none"
              /\ f \in Present => seg[g] \in {"closed", "gone"}

\* So do the times they were written; the open one is not older than a segment.
Ages ==
    \A f \in Segments :
        /\ seg[f] = "open" => wrote[f] <= born[f] /\ born[f] <= SegmentSeconds
        /\ \A g \in Segments : g < f /\ f \in Present /\ g \in Present =>
              /\ wrote[f] <= wrote[g]
              /\ seg[f] = "open" => born[f] <= wrote[g]

\* A listed age exceeds the age of the last write by a segment at most, and by
\* nothing the age of the file that is still open.
Listing ==
    pc = "protect" =>
        /\ \A f \in todo \cap Present :
              /\ listedAge[f] <= wrote[f] + SegmentSeconds
              /\ seg[f] = "open" => listedAge[f] <= born[f]
        /\ \A f, g \in todo : g < f => listedAge[f] <= listedAge[g]

\* An older file than one the pass has yet to look at is one too, unless it
\* could not be removed.
Order ==
    pc # "idle" => \A g \in Present, f \in todo : g < f => g \in todo \cup failed

\* The sizes are right but for one file at most, the one that was open when the
\* directory was listed and may be larger now.
grown(w) == IF w \in todo \cap Present THEN size[w] - listedSize[w] ELSE 0

Counted(w) ==
    /\ \A f \in todo \cap Present : f # w => size[f] = listedSize[f] /\ seg[f] # "open"
    /\ grown(w) >= 0
    /\ total + grown(w) <= usage + others

Sizes ==
    /\ pc = "idle" => others = 0 /\ todo = {} /\ failed = {}
    /\ pc # "idle" => \E w \in 0..MaxSegments : Counted(w)

IInv ==
    /\ TypeOK /\ cfg.MaxRecordingGB \in Nat
    /\ Begun /\ Ages /\ Listing /\ Order /\ Sizes /\ OnlyFinished
-----------------------------------------------------------------------------
\* The first of a set of files is one of them: what the loop over the sorted
\* files looks at.
LEMMA OldestFirst ==
    ASSUME NEW S, S \subseteq Segments, S # {}
    PROVE  oldest(S) \in S /\ \A g \in S : oldest(S) <= g
<1> SUFFICES \E x \in S : \A y \in S : x <= y
  BY Zenon DEF oldest, Min
<1>1. S \subseteq Nat
  BY RecordingConstants DEF Segments
<1>2. PICK x \in S : \A y \in S : ~ (<<y, x>> \in OpToRel(<, Nat))
  BY <1>1, WFMin, NatLessThanWellFounded, Zenon
<1>3. \A y \in S : ~ (y < x)
  BY <1>1, <1>2 DEF OpToRel
<1> QED  BY <1>1, <1>3

\* Without overflow the limit is MaxRecordingGB.
LEMMA LimitIsQuota ==
    ASSUME NEW c, c.MaxRecordingGB \in Nat, fits(c)
    PROVE  limit(c) = quota(c) /\ quota(c) \in Nat
<1> DEFINE W == Word  q == quota(c)
<1>0. W \in Nat \ {0} /\ q \in Nat /\ q < W \div 2
  BY RecordingConstants DEF quota, fits
<1> HIDE DEF W, q
<1>1. W \div 2 \in Nat /\ 2 * (W \div 2) <= W
  BY <1>0
<1>2. q + W \div 2 \in Nat /\ q + W \div 2 < W
  BY <1>0, <1>1
<1>3. \A a \in Nat : a < W => a % W = a
  BY <1>0
<1>4. ((q + W \div 2) % W) - W \div 2 = q
  BY <1>0, <1>1, <1>2, <1>3
<1> QED  BY <1>0, <1>4 DEF W, q, limit
-----------------------------------------------------------------------------
\* What is read of a configuration is, but for the credentials, what the file says.
Paths(c) ==
    /\ c.RTSPPath \in PathName /\ c.SubstreamPath \in PathName
    /\ c.SubstreamEnabled \in BOOLEAN /\ c.MetadataEnabled \in BOOLEAN
    /\ c.RecordingEnabled \in BOOLEAN /\ c.MaxRecordingGB \in Int

LEMMA OverwrittenPaths ==
    ASSUME NEW c \in ConfigFile, NEW a, NEW b, NEW d
    PROVE  Paths([c EXCEPT !.ONVIFPassword = a, !.RTSPUsername = b, !.RTSPPassword = d])
  BY DEF ConfigFile, Paths

LEMMA LoadedPaths ==
    ASSUME NEW c \in ConfigFile, NEW env
    PROVE  Paths(applyEnv(c, env))
<1>1. PICK a, b, d : applyEnv(c, env) =
          [c EXCEPT !.ONVIFPassword = a, !.RTSPUsername = b, !.RTSPPassword = d]
  BY Zenon DEF applyEnv
<1>2. Paths([c EXCEPT !.ONVIFPassword = a, !.RTSPUsername = b, !.RTSPPassword = d])
  BY OverwrittenPaths, Zenon
<1> QED  BY <1>1, <1>2, Zenon

LEMMA InitInv == Init => IInv
<1> SUFFICES ASSUME Init PROVE IInv
  OBVIOUS
<1>1. TypeOK
  BY RecordingConstants DEF Init, TypeOK, nothing, Segments, Old
<1>2. cfg.MaxRecordingGB \in Nat
  <2>1. PICK s \in Starts : cfg = applyEnv(s.file, s.env)
    BY DEF Init
  <2>2. s.file \in ConfigFile
    BY RecordingConstants, Zenon
  <2>3. cfg.MaxRecordingGB \in Int
    BY <2>1, <2>2, LoadedPaths, Zenon DEF Paths
  <2>4. cfg.MaxRecordingGB >= 0
    BY Zenon DEF Init, validStart
  <2> QED  BY <2>3, <2>4
<1>3. Present = {}
  BY DEF Init, Present
<1> QED  BY <1>1, <1>2, <1>3 DEF Init, IInv, Begun, Ages, Listing, Order, Sizes,
                                  OnlyFinished, nothing

USE DEF Present

LEMMA OldType == Old \in Nat /\ SegmentSeconds \in Nat \ {0} /\ Old = 2 * SegmentSeconds
  BY RecordingConstants DEF Old

LEMMA BeginInv == ASSUME IInv, NEW f \in Segments, Begin(f) PROVE IInv'
<1> USE DEF IInv
<1>1. TypeOK'
  BY OldType DEF Begin, TypeOK, passVars, nothing
<1>2. /\ seg[f] = "none" /\ f \notin todo /\ wrote[f] = 0
      /\ \A g \in Segments : g > f => seg[g] = "none"
      /\ \A g \in Segments : seg'[g] = IF g = f THEN "open"
                                       ELSE IF seg[g] = "open" THEN "closed" ELSE seg[g]
      /\ born' = nothing /\ nothing \in [Segments -> {0}]
      /\ UNCHANGED <<cfg, size, wrote, usage, passVars, faults>>
  BY DEF Begin, Begun, TypeOK, nothing
<1>3. Begun' /\ Ages'
  BY <1>1, <1>2, OldType DEF Begin, Begun, Ages, TypeOK, passVars, Segments
<1>4. Listing' /\ OnlyFinished'
  BY <1>1, <1>2, OldType DEF Listing, OnlyFinished, Begun, TypeOK, passVars
<1>5. Order'
  BY <1>1, <1>2, OldType DEF Order, Begun, TypeOK, passVars
<1>6. Sizes'
  BY <1>1, <1>2 DEF Sizes, Counted, grown, TypeOK, passVars
<1> QED  BY <1>1, <1>2, <1>3, <1>4, <1>5, <1>6

LEMMA AppendInv == ASSUME IInv, NEW f \in Segments, Append1(f) PROVE IInv'
<1> USE DEF IInv
<1>1. TypeOK'
  BY OldType DEF Append1, TypeOK, passVars
<1>2. /\ seg[f] = "open"
      /\ \A g \in Segments : /\ size'[g] = IF g = f THEN size[g] + 1 ELSE size[g]
                             /\ wrote'[g] = IF g = f THEN 0 ELSE wrote[g]
      /\ UNCHANGED <<cfg, seg, born, pc, todo, listedSize, listedAge, total, failed, others, faults>>
      /\ usage' = usage + 1 /\ written' = IF pc = "idle" THEN written ELSE written + 1
  BY DEF Append1, TypeOK
<1>3. Begun'
  BY <1>2 DEF Begun, TypeOK, passVars
<1>4. Ages'
  <2>1. \A g \in Segments : g > f => g \notin Present
    BY <1>2 DEF Begun, Segments
  <2>2. ASSUME NEW a \in Segments, seg[a] = "open"
        PROVE  wrote'[a] <= born[a] /\ born[a] <= SegmentSeconds
    BY <1>2, <2>2, OldType DEF Ages, TypeOK
  <2>3. ASSUME NEW a \in Segments, NEW g \in Segments, g < a, a \in Present, g \in Present
        PROVE  wrote'[a] <= wrote'[g] /\ (seg[a] = "open" => born[a] <= wrote'[g])
    <3>1. g # f
      BY <2>1, <2>3 DEF Segments
    <3>2. wrote'[g] = wrote[g] /\ wrote[g] \in Nat /\ wrote'[a] \in {0, wrote[a]}
      BY <1>2, <3>1, OldType DEF TypeOK
    <3> QED  BY <2>3, <3>2, OldType DEF Ages, TypeOK
  <2> QED  BY <1>2, <2>2, <2>3 DEF Ages
<1>5. Listing' /\ OnlyFinished'
  BY <1>1, <1>2, OldType DEF Listing, Ages, OnlyFinished, TypeOK, passVars
<1>6. Order'
  BY <1>2 DEF Order, passVars
<1>7. Sizes'
  <2>1. ASSUME NEW w \in 0..MaxSegments, Counted(w) PROVE Counted(w)'
    BY <1>1, <1>2, <2>1 DEF Counted, grown, TypeOK, passVars
  <2> QED  BY <1>2, <2>1 DEF Sizes, passVars
<1> QED  BY <1>1, <1>2, <1>3, <1>4, <1>5, <1>6, <1>7

LEMMA CloseInv == ASSUME IInv, NEW f \in Segments, Close(f) PROVE IInv'
<1> USE DEF IInv
<1>1. TypeOK'
  BY OldType DEF Close, TypeOK, passVars, nothing
<1>2. /\ seg[f] = "open"
      /\ \A g \in Segments : seg'[g] = IF g = f THEN "closed" ELSE seg[g]
      /\ \A g \in Segments : g # f => seg[g] # "open"
      /\ UNCHANGED <<cfg, size, wrote, usage, passVars, faults>>
  BY DEF Close, Begun, TypeOK, Segments
<1>3. Begun' /\ Ages'
  BY <1>1, <1>2, OldType DEF Begun, Ages, TypeOK, passVars
<1>4. Listing' /\ OnlyFinished'
  BY <1>1, <1>2, OldType DEF Listing, OnlyFinished, TypeOK, passVars
<1>5. Order'
  BY <1>2 DEF Order, passVars
<1>6. Sizes'
  BY <1>1, <1>2 DEF Sizes, Counted, grown, TypeOK, passVars
<1> QED  BY <1>1, <1>2, <1>3, <1>4, <1>5, <1>6

\* What becomes of the disk when a closed file is deleted, by MediaMTX or by the
\* pass.
Deleted(f) ==
    /\ seg[f] = "closed"
    /\ \A g \in Segments : /\ seg'[g] = IF g = f THEN "gone" ELSE seg[g]
                           /\ size'[g] = IF g = f THEN 0 ELSE size[g]
                           /\ wrote'[g] = IF g = f THEN 0 ELSE wrote[g]
    /\ usage' = usage - size[f]
    /\ UNCHANGED <<cfg, born, listedSize, listedAge, pc, written>>

LEMMA DeletedInv ==
    ASSUME IInv, TypeOK', NEW f \in Segments, Deleted(f),
           todo' \subseteq todo
    PROVE  Begun' /\ Ages' /\ Listing' /\ OnlyFinished'
<1> USE DEF IInv
<1>1. Begun'
  BY DEF Deleted, Begun, TypeOK
<1>2. Ages'
  BY OldType DEF Deleted, Ages, TypeOK
<1>3. Listing' /\ OnlyFinished'
  BY OldType DEF Deleted, Listing, OnlyFinished, TypeOK
<1> QED  BY <1>1, <1>2, <1>3

LEMMA ExpireInv == ASSUME IInv, NEW f \in Segments, Expire(f) PROVE IInv'
<1> USE DEF IInv
<1>1. TypeOK'
  BY OldType DEF Expire, TypeOK
<1>2. /\ Deleted(f)
      /\ others' = IF pc = "idle" THEN others ELSE others + size[f]
      /\ UNCHANGED <<todo, total, failed>>
  BY DEF Expire, Deleted, TypeOK
<1>3. Begun' /\ Ages' /\ Listing' /\ OnlyFinished'
  BY <1>1, <1>2, DeletedInv
<1>4. Order'
  BY <1>2 DEF Order, Deleted
<1>5. Sizes'
  <2>1. ASSUME NEW w \in 0..MaxSegments, Counted(w), pc # "idle" PROVE Counted(w)'
    BY <1>1, <1>2, <2>1 DEF Counted, grown, TypeOK, Deleted
  <2> QED  BY <1>2, <2>1 DEF Sizes, Deleted
<1> QED  BY <1>1, <1>2, <1>3, <1>4, <1>5 DEF Deleted

LEMMA TickInv == ASSUME IInv, Tick PROVE IInv'
<1> USE DEF IInv
<1>1. TypeOK'
  BY OldType DEF Tick, TypeOK, older
<1>2. /\ \A f \in Segments : /\ seg[f] = "open" => born'[f] = born[f] + 1
                             /\ f \in Present => wrote'[f] = older(wrote[f])
                             /\ f \notin Present => wrote'[f] = wrote[f]
                             /\ pc = "protect" => listedAge'[f] = older(listedAge[f])
                             /\ seg[f] = "open" => born[f] < SegmentSeconds
      /\ UNCHANGED <<cfg, seg, size, usage, pc, todo, listedSize, total, failed, others, faults>>
  BY OldType DEF Tick, TypeOK, older
<1>3. Begun'
  BY <1>2 DEF Begun
<1>4. Ages'
  BY <1>1, <1>2, OldType DEF Ages, TypeOK, older
<1>5. Listing' /\ OnlyFinished'
  BY <1>1, <1>2, OldType DEF Listing, OnlyFinished, TypeOK, older
<1>6. Order' /\ Sizes'
  BY <1>2 DEF Order, Sizes, Counted, grown
<1> QED  BY <1>1, <1>2, <1>3, <1>4, <1>5, <1>6

LEMMA WalkInv == ASSUME IInv, Walk PROVE IInv'
<1> USE DEF IInv
<1>1. PICK missing \in 0..MaxSize, stale \in BOOLEAN, w \in Present :
        /\ missing <= size[w] /\ (seg[w] = "open" \/ missing = 0)
        /\ total' = usage - missing /\ written' = missing
        /\ listedSize' = [f \in Segments |->
              IF f \in Present THEN size[f] - (IF seg[f] = "open" THEN missing ELSE 0) ELSE 0]
        /\ listedAge' = [f \in Segments |->
              IF seg[f] = "open" /\ stale THEN born[f]
              ELSE IF f \in Present THEN wrote[f] ELSE 0]
  BY DEF Walk
<1>2. /\ todo' = Present /\ pc' = "protect" /\ pc = "idle"
      /\ UNCHANGED <<cfg, seg, size, born, wrote, usage, failed, others, faults>>
  BY DEF Walk, diskVars
<1>3. \A f \in Present : f # w /\ seg[w] = "open" => seg[f] # "open"
  BY DEF Begun, Segments
<1>4. missing \in Nat /\ missing <= MaxSize
  BY <1>1, RecordingConstants
<1>5. TypeOK'
  <2>1. listedSize' \in [Segments -> Nat]
    BY <1>1, <1>3, <1>4 DEF TypeOK
  <2>2. listedAge' \in [Segments -> 0..Old]
    BY <1>1, OldType DEF TypeOK
  <2> QED  BY <1>1, <1>2, <1>4, <2>1, <2>2 DEF TypeOK
<1>6. Begun' /\ Ages'
  BY <1>2 DEF Begun, Ages
<1>7. Listing'
  <2>1. ASSUME NEW f \in Present
        PROVE  /\ listedAge'[f] <= wrote[f] + SegmentSeconds
               /\ seg[f] = "open" => listedAge'[f] <= born[f]
    BY <1>1, OldType DEF Ages, TypeOK
  <2>2. ASSUME NEW f \in Present, NEW g \in Present, g < f
        PROVE  listedAge'[f] <= listedAge'[g]
    <3>1. seg[g] = "closed" /\ listedAge'[g] = wrote[g]
      BY <1>1, <2>2 DEF Begun
    <3>2. listedAge'[f] = wrote[f] \/ (seg[f] = "open" /\ listedAge'[f] = born[f])
      BY <1>1
    <3> QED  BY <2>2, <3>1, <3>2 DEF Ages
  <2> QED  BY <1>2, <2>1, <2>2 DEF Listing
<1>8. Order' /\ OnlyFinished'
  BY <1>2 DEF Order, OnlyFinished
<1>9. Sizes'
  <2>1. others' = 0
    BY <1>2 DEF Sizes
  <2>2. PICK v \in Present : /\ \A f \in Present : f # v => seg[f] # "open"
                             /\ seg[v] = "open" \/ missing = 0
    BY <1>1 DEF Begun, Segments
  <2>3. \A f \in Present : f # v => size'[f] = listedSize'[f] /\ seg'[f] # "open"
    BY <1>1, <1>2, <2>2 DEF TypeOK
  <2>4. size'[v] - listedSize'[v] = missing /\ v \in Present'
    BY <1>1, <1>2, <1>4, <2>2 DEF TypeOK
  <2>5. Counted(v)'
    BY <1>1, <1>2, <1>4, <2>1, <2>3, <2>4 DEF Counted, grown, TypeOK
  <2> QED  BY <1>2, <2>5 DEF Sizes, Segments
<1> QED  BY <1>2, <1>5, <1>6, <1>7, <1>8, <1>9

LEMMA ProtectInv == ASSUME IInv, Protect PROVE IInv'
<1> USE DEF IInv
<1>1. /\ pc = "protect" /\ pc' = "remove"
      /\ todo' = {f \in todo : listedAge[f] >= 2 * SegmentSeconds}
      /\ UNCHANGED <<cfg, seg, size, born, wrote, usage, listedSize, total, failed, others, faults>>
  BY DEF Protect, diskVars
<1>2. TypeOK'
  BY <1>1, OldType DEF Protect, TypeOK, nothing
<1>3. Begun' /\ Ages' /\ Listing'
  BY <1>1 DEF Begun, Ages, Listing
<1>4. Order'
  BY <1>1, OldType DEF Order, Listing, TypeOK, Segments
<1>5. OnlyFinished'
  BY <1>1, OldType DEF OnlyFinished, Listing, Ages, TypeOK
<1>6. Sizes'
  <2>1. ASSUME NEW w \in 0..MaxSegments, Counted(w) PROVE Counted(w)'
    BY <1>1, <2>1 DEF Counted, grown, TypeOK
  <2> QED  BY <1>1, <2>1 DEF Sizes
<1> QED  BY <1>1, <1>2, <1>3, <1>4, <1>5, <1>6

LEMMA RemoveInv == ASSUME IInv, Remove PROVE IInv'
<1> USE DEF IInv
<1> DEFINE f == oldest(todo)
<1>1. f \in todo /\ f \in Segments /\ \A g \in todo : f <= g
  BY OldestFirst DEF Remove, TypeOK
<1>2. /\ pc = "remove" /\ seg[f] = "closed" /\ removed(f) /\ todo' = todo \ {f}
      /\ UNCHANGED <<cfg, born, pc, listedSize, listedAge, failed, others, written, faults>>
  BY DEF Remove
<1> HIDE DEF f
<1>3. TypeOK'
  BY <1>1, <1>2, OldType DEF removed, TypeOK
<1>4. Deleted(f) /\ total' = total - listedSize[f]
  BY <1>1, <1>2 DEF Deleted, removed, TypeOK
<1>5. Begun' /\ Ages' /\ Listing' /\ OnlyFinished'
  BY <1>1, <1>2, <1>3, <1>4, DeletedInv
<1>6. Order'
  BY <1>1, <1>2, <1>4 DEF Order, Deleted
<1>7. Sizes'
  <2>1. ASSUME NEW w \in 0..MaxSegments, Counted(w) PROVE Counted(w)'
    BY <1>1, <1>2, <1>3, <1>4, <2>1 DEF Counted, grown, TypeOK, Deleted
  <2> QED  BY <1>2, <2>1 DEF Sizes
<1> QED  BY <1>2, <1>3, <1>5, <1>6, <1>7

LEMMA RemoveFailsInv == ASSUME IInv, RemoveFails PROVE IInv'
<1> USE DEF IInv
<1> DEFINE f == oldest(todo)
<1>1. f \in todo /\ f \in Segments /\ \A g \in todo : f <= g
  BY OldestFirst DEF RemoveFails, TypeOK
<1>2. /\ pc = "remove" /\ failed' = failed \cup {f} /\ todo' = todo \ {f}
      /\ faults' \in {faults, faults + 1}
      /\ UNCHANGED <<cfg, seg, size, born, wrote, usage, pc, listedSize, listedAge, total,
                     others, written>>
  BY DEF RemoveFails, diskVars
<1> HIDE DEF f
<1>3. TypeOK'
  BY <1>1, <1>2 DEF TypeOK
<1>4. Begun' /\ Ages' /\ Listing' /\ OnlyFinished'
  BY <1>1, <1>2 DEF Begun, Ages, Listing, OnlyFinished
<1>5. Order'
  BY <1>1, <1>2 DEF Order
<1>6. Sizes'
  <2>1. ASSUME NEW w \in 0..MaxSegments, Counted(w) PROVE Counted(w)'
    BY <1>1, <1>2, <2>1 DEF Counted, grown, TypeOK
  <2> QED  BY <1>2, <2>1 DEF Sizes
<1> QED  BY <1>2, <1>3, <1>4, <1>5, <1>6

LEMMA DoneInv == ASSUME IInv, Done PROVE IInv'
<1> USE DEF IInv
<1>1. TypeOK'
  BY OldType DEF Done, TypeOK, nothing, diskVars
<1>2. Begun' /\ Ages' /\ Listing' /\ Order' /\ Sizes' /\ OnlyFinished'
  BY DEF Done, diskVars, Begun, Ages, Listing, Order, Sizes, OnlyFinished
<1> QED  BY <1>1, <1>2 DEF Done

\* The bound from above on what is on the disk: the count of the pass, and what
\* it could not know of.
Accounted == pc # "idle" => usage <= total + written

LEMMA AccountedStep == IInv /\ Accounted /\ [Next]_vars => Accounted'
<1> SUFFICES ASSUME IInv, Accounted, [Next]_vars PROVE Accounted'
  OBVIOUS
<1> USE DEF Accounted
<1>0. /\ usage \in Int /\ total \in Int /\ written \in Nat
      /\ \A f \in Segments : size[f] \in Nat /\ listedSize[f] \in Nat
  BY DEF IInv, TypeOK
<1>1. ASSUME NEW f \in Segments, Append1(f) PROVE Accounted'
  BY <1>0, <1>1 DEF Append1
<1>2. ASSUME NEW f \in Segments, Expire(f) PROVE Accounted'
  BY <1>0, <1>2 DEF Expire
\* The walk finds every byte but those that are missing of the open file.
<1>3. CASE Walk
  <2>1. PICK missing \in 0..MaxSize : total' = usage - missing /\ written' = missing
    BY <1>3 DEF Walk
  <2> QED  BY <1>0, <1>3, <2>1, RecordingConstants DEF Walk, diskVars
\* A file is at least as large as it was listed, so its removal takes at least
\* as much off the disk as off the count.
<1>4. CASE Remove
  <2> DEFINE f == oldest(todo)
  <2>1. f \in todo /\ f \in Segments
    BY <1>4, OldestFirst DEF Remove, IInv, TypeOK
  <2>2. /\ pc = "remove" /\ seg[f] = "closed" /\ usage' = usage - size[f]
        /\ total' = total - listedSize[f] /\ UNCHANGED <<pc, written>>
    BY <1>4 DEF Remove, removed
  <2> HIDE DEF f
  <2>3. PICK w \in 0..MaxSegments : Counted(w)
    BY <2>2 DEF IInv, Sizes
  <2>4. size[f] >= listedSize[f]
    BY <1>0, <2>1, <2>2, <2>3 DEF Counted, grown
  <2> QED  BY <1>0, <2>1, <2>2, <2>4
<1>5. ASSUME \/ \E f \in Segments : Begin(f) \/ Close(f)
             \/ Tick \/ Protect \/ RemoveFails \/ Done \/ UNCHANGED vars
      PROVE  Accounted'
  BY <1>0, <1>5 DEF Begin, Close, Tick, Protect, RemoveFails, Done, diskVars, passVars, vars
<1> QED  BY <1>1, <1>2, <1>3, <1>4, <1>5 DEF Next, Pass

LEMMA NextInv == IInv /\ [Next]_vars => IInv'
<1> SUFFICES ASSUME IInv, [Next]_vars PROVE IInv'
  OBVIOUS
<1>1. CASE UNCHANGED vars
  BY <1>1 DEF vars, diskVars, passVars, IInv, TypeOK, Begun, Ages, Listing, Order, Sizes,
              Counted, grown, OnlyFinished
<1>2. CASE Next
  BY <1>2, BeginInv, AppendInv, CloseInv, ExpireInv, TickInv, WalkInv, ProtectInv,
     RemoveInv, RemoveFailsInv, DoneInv DEF Next, Pass
<1> QED  BY <1>1, <1>2

LEMMA Inductive == Spec => []IInv
  BY InitInv, NextInv, PTL DEF Spec
-----------------------------------------------------------------------------
\* Ages, sizes and the pass keep to their types, whatever fails.
THEOREM TypeCorrect == Spec => []TypeOK
  BY Inductive, PTL DEF IInv

\* However many segments MediaMTX writes, ends and deletes during a pass, and
\* however old the listing makes them look, enforceQuota removes nothing that
\* was written within the last SegmentSeconds.
THEOREM RemovesFinishedOnly == Spec => []OnlyFinished
  BY Inductive, PTL DEF IInv

\* It removes nothing while the disk is within the limit, but for what MediaMTX
\* deletes during the same pass.
THEOREM RemovesForTheQuota == Spec => []NoNeedlessRemoval
<1>1. IInv => NoNeedlessRemoval
  <2> SUFFICES ASSUME IInv, pc = "remove", total > limit(cfg), fits(cfg)
               PROVE  usage + others > quota(cfg)
    BY DEF NoNeedlessRemoval
  <2>1. limit(cfg) = quota(cfg) /\ quota(cfg) \in Nat
    BY LimitIsQuota DEF IInv
  <2>2. PICK w \in 0..MaxSegments : Counted(w)
    BY DEF IInv, Sizes
  <2>3. grown(w) \in Int
    BY <2>2 DEF grown, IInv, TypeOK
  <2> QED  BY <2>1, <2>2, <2>3 DEF Counted, IInv, TypeOK
<1> QED  BY <1>1, Inductive, PTL

\* When it stops before it has seen all files, the disk is within the limit, but
\* for what MediaMTX wrote in the meantime.
THEOREM StopsInTime == Spec => []StopsWithinQuota
<1>1. Init => Accounted
  BY DEF Init, Accounted
<1>2. IInv /\ Accounted => StopsWithinQuota
  <2> SUFFICES ASSUME IInv, Accounted, pc = "remove", total <= limit(cfg), fits(cfg)
               PROVE  usage <= quota(cfg) + written
    BY DEF StopsWithinQuota
  <2>1. limit(cfg) = quota(cfg) /\ quota(cfg) \in Nat
    BY LimitIsQuota DEF IInv
  <2>2. usage \in Int /\ total \in Int /\ written \in Nat /\ usage <= total + written
    BY DEF IInv, TypeOK, Accounted
  <2> QED  BY <2>1, <2>2
<1> QED  BY <1>1, <1>2, AccountedStep, Inductive, PTL DEF Spec

\* What it leaves is the newest part of the recording, but for files it could
\* not remove.
THEOREM LeavesTheNewest == Spec => NewestLeft
<1>1. IInv /\ [Next]_vars => [\A f \in Segments :
          pc = "remove" /\ todo' # todo /\ seg[f] = "closed" /\ seg'[f] = "gone"
              => \A g \in Present : g < f => g \in failed]_vars
  <2> SUFFICES ASSUME IInv, Next, NEW f \in Segments,
                      pc = "remove", todo' # todo, seg[f] = "closed", seg'[f] = "gone",
                      NEW g \in Present, g < f
               PROVE  g \in failed
    BY DEF vars, diskVars
  <2>1. Remove
    BY DEF Next, Pass, Begin, Append1, Close, Expire, Tick, Walk, Protect, RemoveFails, Done,
           passVars, diskVars
  <2>2. oldest(todo) \in todo /\ \A h \in todo : oldest(todo) <= h
    BY <2>1, OldestFirst DEF Remove, IInv, TypeOK
  <2>3. f = oldest(todo)
    BY <2>1, <2>2 DEF Remove, removed, IInv, TypeOK
  <2>4. g \notin todo
    BY <2>2, <2>3 DEF IInv, TypeOK, Segments
  <2> QED  BY <2>2, <2>3, <2>4 DEF IInv, Order
<1> QED  BY <1>1, Inductive, PTL DEF Spec, NewestLeft
-----------------------------------------------------------------------------
(***************************************************************************)
(* What is recorded and what can be played.                                *)
(***************************************************************************)
LEMMA Names ==
    ASSUME NEW p \in PathName
    PROVE  /\ rawPath(p) \in PathName /\ rawPath(p).upper = p.upper /\ rawPath(p) # p
           /\ ~p.upper => configured(pathEnvKey(p)) = p
           /\ \A q \in PathName : p # q => rawPath(p) # rawPath(q)
           /\ \A q \in PathName : p # q /\ ~p.upper /\ ~q.upper => pathEnvKey(p) # pathEnvKey(q)
<1>1. ASSUME NEW q \in PathName
      PROVE  /\ rawPath(q) = [stem |-> q.stem, upper |-> q.upper, raws |-> q.raws + 1]
             /\ pathEnvKey(q) = [stem |-> q.stem, upper |-> TRUE, raws |-> q.raws]
             /\ configured(pathEnvKey(q)) = [stem |-> q.stem, upper |-> FALSE, raws |-> q.raws]
  <2>1. rawPath(q) = [stem |-> q.stem, upper |-> q.upper, raws |-> q.raws + 1]
    BY DEF PathName, rawPath
  <2>2. \A r \in PathName, b \in BOOLEAN :
            [r EXCEPT !.upper = b] = [stem |-> r.stem, upper |-> b, raws |-> r.raws]
    BY DEF PathName
  <2>3. \A b \in BOOLEAN : [stem |-> q.stem, upper |-> b, raws |-> q.raws] \in PathName
    BY DEF PathName
  <2>4. pathEnvKey(q) = [stem |-> q.stem, upper |-> TRUE, raws |-> q.raws]
    BY <2>2, Zenon DEF pathEnvKey
  <2>5. pathEnvKey(q) \in PathName
    BY <2>3, <2>4, Zenon
  <2>6. \A b \in BOOLEAN : LET r == [stem |-> q.stem, upper |-> b, raws |-> q.raws]
                           IN  r.stem = q.stem /\ r.raws = q.raws
    OBVIOUS
  <2>7. pathEnvKey(q).stem = q.stem /\ pathEnvKey(q).raws = q.raws
    BY <2>4, <2>6, Zenon
  <2>8. configured(pathEnvKey(q)) = [stem |-> q.stem, upper |-> FALSE, raws |-> q.raws]
    BY <2>2, <2>5, <2>7, Zenon DEF configured
  <2> QED  BY <2>1, <2>4, <2>8, Zenon
<1>2. \A q \in PathName : p.stem = q.stem /\ p.upper = q.upper /\ p.raws = q.raws => p = q
  BY DEF PathName
<1>3. rawPath(p) \in PathName /\ rawPath(p).upper = p.upper /\ rawPath(p) # p
  BY <1>1 DEF PathName
<1>4. ~p.upper => configured(pathEnvKey(p)) = p
  BY <1>1 DEF PathName
<1>5. ASSUME NEW q \in PathName, rawPath(p) = rawPath(q) PROVE p = q
  <2>1. [stem |-> p.stem, upper |-> p.upper, raws |-> p.raws + 1]
        = [stem |-> q.stem, upper |-> q.upper, raws |-> q.raws + 1]
    BY <1>1, <1>5, Zenon
  <2>2. p.stem = q.stem /\ p.upper = q.upper /\ p.raws + 1 = q.raws + 1
    BY <2>1
  <2>3. p.raws = q.raws
    BY <2>2 DEF PathName
  <2> QED  BY <1>2, <2>2, <2>3, Zenon
<1>6. \A q \in PathName : p # q /\ ~p.upper /\ ~q.upper => pathEnvKey(p) # pathEnvKey(q)
  BY <1>1, <1>2 DEF PathName
<1> QED  BY <1>3, <1>4, <1>5, <1>6, Zenon

\* The settings of a sequence of which one alone is TRUE, and whose key no other
\* has.
LEMMA OneSetting ==
    ASSUME NEW s, NEW k \in DOMAIN s, DOMAIN s \subseteq Int,
           \A j \in DOMAIN s : s[j][2] => j = k,
           \A j \in DOMAIN s : s[j][1] = s[k][1] => j = k
    PROVE  {configured(s[i][1]) : i \in {j \in DOMAIN s :
                 s[j][2] /\ j = Max({i \in DOMAIN s : s[i][1] = s[j][1]})}}
           = IF s[k][2] THEN {configured(s[k][1])} ELSE {}
<1>1. {i \in DOMAIN s : s[i][1] = s[k][1]} = {k}
  OBVIOUS
<1>2. Max({k}) = k
  BY SMT DEF Max
<1>3. ASSUME NEW j \in DOMAIN s
      PROVE  (s[j][2] /\ j = Max({i \in DOMAIN s : s[i][1] = s[j][1]})) <=> (j = k /\ s[k][2])
  <2>1. CASE j = k
    <3>1. Max({i \in DOMAIN s : s[i][1] = s[k][1]}) = k
      BY <1>1, <1>2, Zenon
    <3> QED  BY <2>1, <3>1, Zenon
  <2>2. CASE j # k
    BY <2>2, Zenon
  <2> QED  BY <2>1, <2>2, Zenon
<1>4. {j \in DOMAIN s : s[j][2] /\ j = Max({i \in DOMAIN s : s[i][1] = s[j][1]})}
      = IF s[k][2] THEN {k} ELSE {}
  BY <1>3, Zenon
<1> QED  BY <1>4, Zenon

\* r is t and one more element, e.
Longer(r, t, e) ==
    /\ Len(r) = Len(t) + 1 /\ r[Len(t) + 1] = e
    /\ \A i \in 1..Len(t) : r[i] = t[i]

LEMMA OneLonger ==
    ASSUME NEW S, NEW t \in Seq(S), NEW u \in Seq(S), Len(u) = 1
    PROVE  t \o u \in Seq(S) /\ Longer(t \o u, t, u[1])
<1>1. /\ t \o u \in Seq(S) /\ Len(t \o u) = Len(t) + 1
      /\ (t \o u)[Len(t) + 1] = u[1]
      /\ \A i \in 1..Len(t) : (t \o u)[i] = t[i]
  BY ConcatProperties, LenProperties
<1> QED  BY <1>1, Zenon DEF Longer

LEMMA Second ==
    ASSUME NEW r, NEW t, NEW e, Longer(r, t, e), Len(t) = 1
    PROVE  Len(r) = 2 /\ r[1] = t[1] /\ r[2] = e
  BY DEF Longer

LEMMA Third ==
    ASSUME NEW r, NEW t, NEW e, Longer(r, t, e), Len(t) = 2
    PROVE  Len(r) = 3 /\ r[1] = t[1] /\ r[2] = t[2] /\ r[3] = e
  BY DEF Longer

LEMMA Fourth ==
    ASSUME NEW r, NEW t, NEW e, Longer(r, t, e), Len(t) = 3
    PROVE  Len(r) = 4 /\ r[1] = t[1] /\ r[2] = t[2] /\ r[3] = t[3] /\ r[4] = e
  BY DEF Longer

\* The settings without metadata or with it, without a substream or with it.
One(S, t) == t \in Seq(S) /\ Len(t) = 1

Joins(S, a, b, c, d, s) ==
    /\ s = <<>> \o c \o <<>> => s \in Seq(S) /\ Len(s) = 1 /\ s[1] = c[1]
    /\ s = <<>> \o c \o d => s \in Seq(S) /\ Len(s) = 2 /\ s[1] = c[1] /\ s[2] = d[1]
    /\ s = (a \o <<>>) \o c \o <<>> => s \in Seq(S) /\ Len(s) = 2 /\ s[1] = a[1] /\ s[2] = c[1]
    /\ s = (a \o b) \o c \o d =>
          s \in Seq(S) /\ Len(s) = 4 /\ s[1] = a[1] /\ s[2] = b[1] /\ s[3] = c[1] /\ s[4] = d[1]

LEMMA Joined ==
    ASSUME NEW S, NEW a, NEW b, NEW c, NEW d, NEW s,
           One(S, a), One(S, b), One(S, c), One(S, d)
    PROVE  Joins(S, a, b, c, d, s)
<1> USE DEF One
<1>1. \A t \in Seq(S) : t \o <<>> = t /\ <<>> \o t = t
  BY ConcatEmptySeq
<1>2. ASSUME s = <<>> \o c \o <<>> PROVE s \in Seq(S) /\ Len(s) = 1 /\ s[1] = c[1]
  <2>1. s = c
    BY <1>1, <1>2, Zenon
  <2> QED  BY <2>1
<1>3. ASSUME s = <<>> \o c \o d
      PROVE  s \in Seq(S) /\ Len(s) = 2 /\ s[1] = c[1] /\ s[2] = d[1]
  <2>1. s = c \o d
    BY <1>1, <1>3, Zenon
  <2>2. c \o d \in Seq(S) /\ Longer(c \o d, c, d[1])
    BY OneLonger
  <2>3. s \in Seq(S) /\ Longer(s, c, d[1])
    BY <2>1, <2>2, Zenon
  <2> QED  BY <2>3, Second
<1>4. ASSUME s = (a \o <<>>) \o c \o <<>>
      PROVE  s \in Seq(S) /\ Len(s) = 2 /\ s[1] = a[1] /\ s[2] = c[1]
  <2>1. a \o c \in Seq(S) /\ Longer(a \o c, a, c[1])
    BY OneLonger
  <2>2. s \in Seq(S) /\ Longer(s, a, c[1])
    BY <1>1, <1>4, <2>1, Zenon
  <2> QED  BY <2>2, Second
<1>5. ASSUME s = (a \o b) \o c \o d
      PROVE  s \in Seq(S) /\ Len(s) = 4 /\ s[1] = a[1] /\ s[2] = b[1] /\ s[3] = c[1] /\ s[4] = d[1]
  <2>1. PICK p, q, r : p = a \o b /\ q = p \o c /\ r = q \o d /\ s = r
    BY <1>5, Zenon
  <2>2. p \in Seq(S) /\ Longer(p, a, b[1])
    BY <2>1, OneLonger
  <2>3. q \in Seq(S) /\ Longer(q, p, c[1])
    BY <2>1, <2>2, OneLonger
  <2>4. r \in Seq(S) /\ Longer(r, q, d[1])
    BY <2>1, <2>3, OneLonger
  <2>5. Len(p) = 2 /\ p[1] = a[1] /\ p[2] = b[1]
    BY <2>2, Second
  <2>6. Len(q) = 3 /\ q[1] = p[1] /\ q[2] = p[2] /\ q[3] = c[1]
    BY <2>3, <2>5, Third
  <2>7. Len(r) = 4 /\ r[1] = q[1] /\ r[2] = q[2] /\ r[3] = q[3] /\ r[4] = d[1]
    BY <2>4, <2>6, Fourth
  <2> QED  BY <2>1, <2>4, <2>5, <2>6, <2>7
<1> QED  BY <1>2, <1>3, <1>4, <1>5, Zenon DEF Joins

\* Which paths count, given that no two have the same name.
LEMMA Recorded ==
    ASSUME NEW c, Paths(c), wellNamed(c), c.SubstreamEnabled => c.SubstreamPath # c.RTSPPath
    PROVE  recorded(c) = IF c.RecordingEnabled THEN {publishPath(c, c.RTSPPath)} ELSE {}
<1> DEFINE m == c.MetadataEnabled  n == c.SubstreamEnabled
           R == c.RTSPPath  T == c.SubstreamPath
           P == publishPath(c, R)  Q == publishPath(c, T)
           k1 == pathEnvKey(R)  k2 == pathEnvKey(T)  k3 == pathEnvKey(P)  k4 == pathEnvKey(Q)
           x1 == <<k1, FALSE>>  x2 == <<k2, FALSE>>
           x3 == <<k3, c.RecordingEnabled>>  x4 == <<k4, FALSE>>
           S == {x1, x2, x3, x4}
           s == recordSettings(c)
<1>1. /\ m \in BOOLEAN /\ n \in BOOLEAN /\ R \in PathName /\ T \in PathName
      /\ P \in PathName /\ Q \in PathName
  BY Names, Zenon DEF Paths, publishPath
<1>2. /\ ~R.upper /\ ~P.upper /\ (n => ~T.upper /\ ~Q.upper /\ R # T /\ P # Q)
      /\ m => P # R /\ (n => P # T)
  <2>1. R \in publicPaths(c) /\ P \in ffmpegOutputs(c)
    BY Zenon DEF publicPaths, ffmpegOutputs
  <2>2. n => T \in publicPaths(c) /\ Q \in ffmpegOutputs(c)
    BY Zenon DEF publicPaths, ffmpegOutputs
  <2>3. \A p \in publicPaths(c) \cup ffmpegOutputs(c) : ~p.upper
    BY Zenon DEF wellNamed
  <2>4. ~R.upper /\ ~P.upper /\ (n => ~T.upper /\ ~Q.upper)
    BY <2>1, <2>2, <2>3, Zenon
  <2>5. m => publicPaths(c) \cap ffmpegOutputs(c) = {}
    BY Zenon DEF wellNamed
  <2>6. m => P # R /\ (n => P # T)
    BY <2>1, <2>2, <2>5, Zenon
  <2>7. R # T => P # Q
    BY <1>1, Names, Zenon DEF publishPath
  <2>8. n => R # T
    OBVIOUS
  <2> QED  BY <2>4, <2>6, <2>7, <2>8, Zenon
<1>3. configured(k3) = P
  BY <1>1, <1>2, Names, Zenon
<1>4. /\ m => k3 # k1 /\ (n => k3 # k2)
      /\ n => k3 # k4
  BY <1>1, <1>2, Names, Zenon
<1>5. s = (IF ~m THEN <<>> ELSE <<x1>> \o IF n THEN <<x2>> ELSE <<>>)
           \o <<x3>> \o IF n THEN <<x4>> ELSE <<>>
  BY Zenon DEF recordSettings
<1>6. /\ x1[1] = k1 /\ x1[2] = FALSE /\ x2[1] = k2 /\ x2[2] = FALSE
      /\ x3[1] = k3 /\ x3[2] = c.RecordingEnabled /\ x4[1] = k4 /\ x4[2] = FALSE
  OBVIOUS
<1> HIDE DEF x1, x2, x3, x4, k1, k2, k3, k4, P, Q, R, T, m, n
<1>7. /\ s \in Seq(S)
      /\ ~m /\ ~n => Len(s) = 1 /\ s[1] = x3
      /\ ~m /\ n  => Len(s) = 2 /\ s[1] = x3 /\ s[2] = x4
      /\ m /\ ~n  => Len(s) = 2 /\ s[1] = x1 /\ s[2] = x3
      /\ m /\ n   => Len(s) = 4 /\ s[1] = x1 /\ s[2] = x2 /\ s[3] = x3 /\ s[4] = x4
  <2>1. x1 \in S /\ x2 \in S /\ x3 \in S /\ x4 \in S
    OBVIOUS
  <2> HIDE DEF S, s
  <2>2. \A x \in S : <<x>> \in Seq(S) /\ Len(<<x>>) = 1 /\ <<x>>[1] = x
    OBVIOUS
  <2> DEFINE a == <<x1>>  b == <<x2>>  d == <<x3>>  e == <<x4>>
  <2>3. /\ a \in Seq(S) /\ b \in Seq(S) /\ d \in Seq(S) /\ e \in Seq(S)
        /\ Len(a) = 1 /\ Len(b) = 1 /\ Len(d) = 1 /\ Len(e) = 1
        /\ a[1] = x1 /\ b[1] = x2 /\ d[1] = x3 /\ e[1] = x4
    BY <2>1, <2>2, Zenon
  <2>4. s = (IF ~m THEN <<>> ELSE a \o IF n THEN b ELSE <<>>) \o d \o IF n THEN e ELSE <<>>
    BY <1>5, Zenon
  <2> HIDE DEF a, b, d, e
  <2>5. Joins(S, a, b, d, e, s)
    BY <2>3, Joined, Zenon DEF One
  <2> USE DEF Joins
  <2>6. CASE ~m /\ ~n
    BY <2>3, <2>4, <2>5, <2>6, Zenon
  <2>7. CASE ~m /\ n
    BY <2>3, <2>4, <2>5, <2>7, Zenon
  <2>8. CASE m /\ ~n
    BY <2>3, <2>4, <2>5, <2>8, Zenon
  <2>9. CASE m /\ n
    BY <2>3, <2>4, <2>5, <2>9, Zenon
  <2> QED  BY <2>6, <2>7, <2>8, <2>9, Zenon
<1>8. DOMAIN s = 1..Len(s) /\ DOMAIN s \subseteq Int
  <2> HIDE DEF S, s
  <2> QED BY <1>7, LenProperties
<1> DEFINE k == IF ~m THEN 1 ELSE IF n THEN 3 ELSE 2
<1>9. k \in DOMAIN s /\ s[k] = x3
  <2> HIDE DEF S, s
  <2>1. CASE ~m /\ ~n
    BY <1>7, <1>8, <2>1
  <2>2. CASE ~m /\ n
    BY <1>7, <1>8, <2>2
  <2>3. CASE m /\ ~n
    BY <1>7, <1>8, <2>3
  <2>4. CASE m /\ n
    BY <1>7, <1>8, <2>4
  <2> QED  BY <1>1, <2>1, <2>2, <2>3, <2>4, Zenon
<1>10. ASSUME NEW j \in DOMAIN s, j # k
       PROVE  s[j][2] = FALSE /\ s[j][1] # k3
  <2> HIDE DEF S, s
  <2>1. \/ m /\ s[j] = x1
        \/ m /\ n /\ s[j] = x2
        \/ n /\ s[j] = x4
    <3>1. CASE ~m /\ ~n
      BY <1>7, <1>8, <1>10, <3>1
    <3>2. CASE ~m /\ n
      BY <1>7, <1>8, <1>10, <3>2
    <3>3. CASE m /\ ~n
      BY <1>7, <1>8, <1>10, <3>3
    <3>4. CASE m /\ n
      BY <1>7, <1>8, <1>10, <3>4
    <3> QED  BY <1>1, <3>1, <3>2, <3>3, <3>4, Zenon
  <2> QED  BY <1>4, <1>6, <2>1, Zenon
<1> HIDE DEF k, S, s
<1>11. {configured(s[i][1]) : i \in {j \in DOMAIN s :
            s[j][2] /\ j = Max({i \in DOMAIN s : s[i][1] = s[j][1]})}}
       = IF s[k][2] THEN {configured(s[k][1])} ELSE {}
  <2>1. \A j \in DOMAIN s : s[j][2] => j = k
    BY <1>10, Zenon
  <2>2. \A j \in DOMAIN s : s[j][1] = s[k][1] => j = k
    BY <1>6, <1>9, <1>10, Zenon
  <2> QED  BY <1>8, <1>9, <2>1, <2>2, OneSetting, Zenon
<1> QED  BY <1>3, <1>6, <1>9, <1>11, Zenon DEF recorded, s, P, R

\* A path in use is one MediaMTX knows under its own name and lets the machine
\* itself publish and read.
LEMMA Published ==
    ASSUME NEW c, Paths(c), wellNamed(c),
           NEW p \in publicPaths(c) \cup ffmpegOutputs(c),
           c.MetadataEnabled \/ p \in ffmpegOutputs(c)
    PROVE  mayPublish(c, p) /\ <<"read", p>> \in internalPermissions(c)
<1> DEFINE U == {publishPath(c, q) : q \in publicPaths(c)}
                \cup IF c.MetadataEnabled THEN publicPaths(c) ELSE {}
<1>1. p \in U
  BY Zenon DEF ffmpegOutputs
<1>2. p \in PathName
  <2>1. \A q \in publicPaths(c) : q \in PathName
    BY Zenon DEF Paths, publicPaths
  <2> QED  BY <2>1, Names, Zenon DEF ffmpegOutputs, publishPath
<1>3. configured(pathEnvKey(p)) = p
  BY <1>2, Names, Zenon DEF wellNamed
<1>4. p \in publisherPaths(c)
  BY <1>1, <1>3, Zenon DEF publisherPaths
<1>5. <<"publish", p>> \in internalPermissions(c) /\ <<"read", p>> \in internalPermissions(c)
  BY <1>1, Zenon DEF internalPermissions
<1> QED  BY <1>4, <1>5, Zenon DEF mayPublish

LEMMA Carried ==
    ASSUME NEW c, Paths(c), wellNamed(c), NEW p \in publicPaths(c)
    PROVE  carriesVideo(c, p)
<1>1. publishPath(c, p) \in ffmpegOutputs(c)
  BY Zenon DEF ffmpegOutputs
<1>2. mayPublish(c, publishPath(c, p)) /\ <<"read", publishPath(c, p)>> \in internalPermissions(c)
  BY <1>1, Published, Zenon
<1>3. CASE c.MetadataEnabled
  <2>1. mayPublish(c, p)
    BY <1>3, Published, Zenon
  <2> DEFINE r == <<rawPath(p), p>>
  <2>2. r \in relays(c)
    BY <1>3, Zenon DEF relays
  <2>3. r[1] = rawPath(p) /\ r[2] = p
    OBVIOUS
  <2>4. publishPath(c, p) = rawPath(p)
    BY <1>3, Zenon DEF publishPath
  <2> HIDE DEF r
  <2> QED  BY <1>1, <1>2, <2>1, <2>2, <2>3, <2>4, Zenon DEF carriesVideo
<1>4. CASE ~c.MetadataEnabled
  BY <1>1, <1>2, <1>4, Zenon DEF carriesVideo, publishPath
<1> QED  BY <1>3, <1>4, Zenon
-----------------------------------------------------------------------------
\* The configuration is the one Load returned.
Loaded == Paths(cfg) /\ validStart(cfg)

LEMMA AlwaysLoaded == Spec => []Loaded
<1>1. Init => Loaded
  <2> SUFFICES ASSUME Init PROVE Loaded
    OBVIOUS
  <2>1. PICK s \in Starts : cfg = applyEnv(s.file, s.env)
    BY Zenon DEF Init
  <2>2. s.file \in ConfigFile
    BY RecordingConstants, Zenon
  <2> QED  BY <2>1, <2>2, LoadedPaths, Zenon DEF Loaded, Init
<1>2. Loaded /\ [Next]_vars => Loaded'
  <2> SUFFICES ASSUME Loaded, [Next]_vars PROVE Loaded'
    OBVIOUS
  <2>1. cfg' = cfg
    BY Zenon DEF Next, Pass, Begin, Append1, Close, Expire, Tick, Walk, Protect, Remove, RemoveFails,
           Done, vars
  <2> QED  BY <2>1, Zenon DEF Loaded
<1> QED  BY <1>1, <1>2, PTL DEF Spec

\* Whatever paths and streams are configured, as long as their names can be told
\* apart: the settings that count record what FFmpeg publishes of the main stream.
THEOREM MainRecorded == Spec => []RecordsMainOnly
<1>1. Loaded => RecordsMainOnly
  <2> SUFFICES ASSUME Loaded, wellNamed(cfg)
               PROVE  recorded(cfg) = IF cfg.RecordingEnabled
                                      THEN {publishPath(cfg, cfg.RTSPPath)} ELSE {}
    BY Zenon DEF RecordsMainOnly
  <2>1. cfg.SubstreamEnabled => cfg.SubstreamPath # cfg.RTSPPath
    BY Zenon DEF Loaded, validStart
  <2> QED  BY <2>1, Recorded, Zenon DEF Loaded
<1> QED  BY <1>1, AlwaysLoaded, PTL

\* Every URI the Media services hand out can be played.
THEOREM ProfilesPlayable == Spec => []AdvertisedPlayable
<1>1. Loaded => AdvertisedPlayable
  <2> SUFFICES ASSUME Loaded, wellNamed(cfg)
               PROVE  /\ \A t \in ProfileTokens : \A p \in streamURLForProfile(cfg, t) :
                            p \in externalReads(cfg) /\ carriesVideo(cfg, p)
                      /\ cfg.MetadataEnabled => externalReads(cfg) \cap ffmpegOutputs(cfg) = {}
                      /\ cfg.InsecureNoAuth \/ externalUser(cfg).pass \notin {"", "short"}
    BY Zenon DEF AdvertisedPlayable
  <2>1. ASSUME NEW t \in ProfileTokens, NEW p \in streamURLForProfile(cfg, t)
        PROVE  p \in externalReads(cfg) /\ carriesVideo(cfg, p)
    <3>1. p \in publicPaths(cfg)
      BY Zenon DEF streamURLForProfile, publicPaths
    <3> QED  BY <3>1, Carried, Zenon DEF Loaded, externalReads
  <2>2. cfg.MetadataEnabled => externalReads(cfg) \cap ffmpegOutputs(cfg) = {}
    BY Zenon DEF wellNamed, externalReads
  <2>3. cfg.InsecureNoAuth \/ externalUser(cfg).pass \notin {"", "short"}
    <3>1. CASE ~cfg.InsecureNoAuth
      <4>1. cfg.RTSPPassword \notin {"", "short"}
        BY <3>1, Zenon DEF Loaded, validStart
      <4>2. \A u, q : [user |-> u, pass |-> q].pass = q
        OBVIOUS
      <4>3. externalUser(cfg).pass = cfg.RTSPPassword
        BY <3>1, <4>2, Zenon DEF externalUser
      <4> QED  BY <4>1, <4>3, Zenon
    <3> QED  BY <3>1, Zenon
  <2> QED  BY <2>1, <2>2, <2>3, Zenon
<1> QED  BY <1>1, AlwaysLoaded, PTL
=============================================================================
