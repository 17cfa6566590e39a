------------------------ MODULE RotatingWriterProofs ------------------------
(* The order of the backups, for any number of backups, any records and any *)
(* failures, and the bound on the size of the files until os.Stat fails on  *)
(* the full log.                                                            *)
EXTENDS RotatingWriter, TLAPS

\* What is needed beside the types: records in the files are no younger than the
\* current one and older than the one being written, and a rotation reaches
\* open only when the log has left slot 0, unless it could not be looked at.
Young ==
    /\ \A i \in Slots : \A x \in holds[i] : x \in Nat /\ x <= count
    /\ pc # "idle" => \A i \in Slots : \A x \in holds[i] : x < count
    /\ pc = "open" /\ ~reopened => 0 \notin exists
    /\ pc = "append" /\ ~reopened => bytes[0] = 0 \/ bytes[0] + len <= maxSize
    /\ pc \in {"remove", "rename"} => handle = "nil"

IInv == TypeOK /\ Young /\ AgeOrder /\ SizeBounded

LEMMA InitInv == Init => IInv
<1>1. Init => TypeOK
  <2>1. Init => shifted \in BOOLEAN /\ reopened \in BOOLEAN
    BY Zenon DEF Init
  <2> QED  BY <2>1, LogConstants DEF Init, TypeOK, Slots
<1>2. Init => Young /\ AgeOrder
  BY LogConstants DEF Init, Young, AgeOrder, Slots
<1>3. Init => SizeBounded
  BY LogConstants DEF Init, SizeBounded
<1> QED  BY <1>1, <1>2, <1>3 DEF IInv

LEMMA NextInv == IInv /\ [Next]_vars => IInv'
<1> SUFFICES ASSUME IInv, [Next]_vars PROVE IInv'
  OBVIOUS
<1> USE LogConstants DEF IInv, TypeOK, Young, AgeOrder, SizeBounded, Slots, diskVars
<1>1. ASSUME NEW n \in Lengths, Write(n) PROVE IInv'
  <2>1. UNCHANGED <<exists, holds, bytes, reopened>>
    BY <1>1 DEF Write, full
  <2>2. TypeOK'
    BY <1>1, <2>1 DEF Write, full
  <2>3. Young'
    BY <1>1, <2>1 DEF Write, full
  <2>4. AgeOrder' /\ SizeBounded'
    BY <2>1
  <2> QED  BY <2>2, <2>3, <2>4
<1>2. ASSUME NEW n \in Lengths, CloseFails(n) PROVE IInv'
  <2>1. UNCHANGED <<exists, holds, bytes, reopened>>
    BY <1>2 DEF CloseFails, Fault
  <2>2. TypeOK'
    BY <1>2, <2>1 DEF CloseFails, Fault
  <2>3. Young'
    BY <1>2, <2>1 DEF CloseFails, Fault
  <2>4. AgeOrder' /\ SizeBounded'
    BY <2>1
  <2> QED  BY <2>2, <2>3, <2>4
<1>3. CASE Remove
  <2>1. /\ slot + 1 \in Slots /\ slot + 1 # 0
        /\ exists' = exists \/ exists' = exists \ {slot + 1}
    BY <1>3 DEF Remove, gone
  <2>2. \A i \in Slots : \/ holds'[i] = holds[i] /\ bytes'[i] = bytes[i]
                         \/ holds'[i] = {} /\ bytes'[i] = 0
    BY <1>3, <2>1 DEF Remove, gone
  <2>3. holds' \in [Slots -> SUBSET Nat] /\ bytes' \in [Slots -> Nat]
    <3>1. CASE UNCHANGED diskVars
      BY <3>1
    <3>2. CASE gone(slot + 1)
      <4>1. holds' \in [Slots -> SUBSET Nat]
        BY <2>1, <3>2 DEF gone
      <4>2. bytes' \in [Slots -> Nat]
        BY <2>1, <3>2 DEF gone
      <4> QED  BY <4>1, <4>2
    <3> QED  BY <1>3, <3>1, <3>2 DEF Remove
  <2>4. \A i \in Slots \ exists' : holds'[i] = {} /\ bytes'[i] = 0
    BY <1>3, <2>1 DEF Remove, gone
  <2>5. faults' \in 0..MaxFaults
    BY <1>3 DEF Remove, Fault
  <2>6. TypeOK'
    BY <1>3, <2>1, <2>3, <2>4, <2>5 DEF Remove
  <2>7. Young'
    BY <1>3, <2>2 DEF Remove
  <2>8. AgeOrder'
    BY <2>2
  <2>9. SizeBounded'
    BY <1>3, <2>2 DEF Remove
  <2> QED  BY <2>6, <2>7, <2>8, <2>9
<1>4. CASE Rename
  <2> DEFINE next == slot + 1
  <2>1. next \in Slots /\ slot \in Slots /\ next # slot /\ next # 0
    OBVIOUS
  <2>4. UNCHANGED reopened
    BY <1>4 DEF Rename
  <2>2. CASE slot \in exists
    \* What was in slot is in the next slot, and nothing is in slot.
    <3>0. renamed(slot)
      BY <1>4, <2>2 DEF Rename
    <3>1. /\ exists' = (exists \ {slot}) \cup {next}
          /\ holds'[next] = holds[slot] /\ holds'[slot] = {}
          /\ \A i \in Slots : i # next /\ i # slot => holds'[i] = holds[i]
      BY <2>1, <3>0 DEF renamed
    <3>2. /\ bytes'[next] = bytes[slot] /\ bytes'[slot] = 0
          /\ \A i \in Slots : i # next /\ i # slot => bytes'[i] = bytes[i]
      BY <2>1, <3>0 DEF renamed
    <3>9. holds' \in [Slots -> SUBSET Nat] /\ bytes' \in [Slots -> Nat]
      BY <2>1, <3>0 DEF renamed
    <3> HIDE DEF next
    <3>3. \A i \in Slots \ exists' : holds'[i] = {} /\ bytes'[i] = 0
      BY <2>1, <3>1, <3>2
    <3>4. TypeOK'
      <4>1. exists' \subseteq Slots
        BY <2>1, <3>1
      <4>2. /\ slot' \in 0..backups - 1 /\ pc' \in {"open", "remove"}
            /\ handle' = "nil" /\ UNCHANGED <<size, len, count, faults, shifted, reopened>>
        BY <1>4 DEF Rename, Continue
      <4> QED  BY <3>3, <3>9, <4>1, <4>2
    <3>5. \A i \in Slots : \A x \in holds'[i] : x \in Nat /\ x < count
      <4>1. \A i \in Slots : \A x \in holds[i] : x \in Nat /\ x < count
        BY <1>4 DEF Rename
      <4> QED  BY <2>1, <3>1, <4>1
    <3>6. Young'
      BY <1>4, <2>1, <3>1, <3>5 DEF Rename, Continue
    <3>7. AgeOrder'
      <4> SUFFICES ASSUME NEW i \in Slots, NEW j \in Slots, j < i,
                          NEW x \in holds'[i], NEW y \in holds'[j]
                   PROVE  x < y
        OBVIOUS
      <4>1. i # slot /\ j # slot
        BY <3>1
      <4>2. CASE i = next
        <5>1. x \in holds[slot] /\ y \in holds[j] /\ j < slot
          BY <2>1, <3>1, <4>1, <4>2 DEF next
        <5> QED  BY <2>1, <5>1
      <4>3. CASE j = next
        <5>1. x \in holds[i] /\ y \in holds[slot] /\ slot < i
          BY <2>1, <3>1, <4>1, <4>3 DEF next
        <5> QED  BY <2>1, <5>1
      <4>4. CASE i # next /\ j # next
        BY <3>1, <4>1, <4>4
      <4> QED  BY <4>2, <4>3, <4>4
    <3>8. SizeBounded'
      <4> SUFFICES ASSUME ~reopened, NEW i \in Slots
                   PROVE  bytes'[i] <= maxSize \/ \E n \in Lengths : bytes'[i] <= n
        BY <2>4
      <4>1. bytes'[i] = 0 \/ bytes'[i] = bytes[i] \/ bytes'[i] = bytes[slot]
        BY <2>1, <3>2
      <4> QED  BY <2>1, <4>1
    <3> QED  BY <3>4, <3>6, <3>7, <3>8
  <2>3. CASE slot \notin exists
    <3>1. UNCHANGED diskVars
      BY <1>4, <2>3 DEF Rename
    <3>2. TypeOK' /\ Young'
      BY <1>4, <2>3, <3>1 DEF Rename, Continue
    <3>3. AgeOrder' /\ SizeBounded'
      BY <2>4, <3>1
    <3> QED  BY <3>2, <3>3
  <2> QED  BY <2>2, <2>3
<1>5. CASE RenameFails
  <2>1. shifted' \in BOOLEAN
    BY <1>5, Zenon DEF RenameFails
  <2> QED  BY <1>5, <2>1 DEF RenameFails, Fault, Return, Continue
<1>13. CASE StatFails
  <2>1. UNCHANGED diskVars
    BY <1>13 DEF StatFails
  <2>2. shifted' \in BOOLEAN /\ reopened' \in BOOLEAN /\ (slot = 0 => reopened')
    BY <1>13, Zenon DEF StatFails
  <2>3. TypeOK'
    BY <1>13, <2>1, <2>2 DEF StatFails, Fault, Continue
  <2>4. Young'
    BY <1>13, <2>1, <2>2 DEF StatFails, Continue
  <2>5. SizeBounded'
    <3>1. reopened' \/ reopened' = reopened
      BY <1>13, <2>2 DEF StatFails
    <3> QED  BY <2>1, <3>1
  <2>6. AgeOrder'
    BY <2>1
  <2> QED  BY <2>3, <2>4, <2>5, <2>6
<1>6. CASE Open
  <2>1. TypeOK'
    BY <1>6 DEF Open, opened
  <2>2. Young'
    BY <1>6 DEF Open, opened
  <2>3. AgeOrder'
    BY <1>6 DEF Open, opened
  <2>4. SizeBounded'
    BY <1>6 DEF Open, opened
  <2> QED  BY <2>1, <2>2, <2>3, <2>4
<1>7. CASE OpenFails
  <2>1. UNCHANGED <<holds, bytes, reopened>>
    BY <1>7 DEF OpenFails, Fault, Return
  <2>2. TypeOK'
    BY <1>7, <2>1 DEF OpenFails, Fault, Return
  <2>3. Young'
    BY <1>7, <2>1 DEF OpenFails, Fault, Return
  <2>4. AgeOrder' /\ SizeBounded'
    BY <2>1
  <2> QED  BY <2>2, <2>3, <2>4
<1>8. CASE Append
  <2>1. TypeOK'
    BY <1>8 DEF Append, Return
  <2>2. Young'
    BY <1>8 DEF Append, Return
  <2>3. AgeOrder'
    BY <1>8 DEF Append, Return
  <2>4. SizeBounded'
    BY <1>8 DEF Append, Return
  <2> QED  BY <2>1, <2>2, <2>3, <2>4
<1>9. CASE AppendFails
  <2>1. PICK n \in 0..len : n < len /\ bytes' = [bytes EXCEPT ![0] = @ + n] /\ size' = size + n
    BY <1>9 DEF AppendFails
  <2>2. TypeOK' /\ Young' /\ AgeOrder'
    BY <1>9, <2>1 DEF AppendFails, Fault, Return
  <2>3. SizeBounded'
    BY <1>9, <2>1 DEF AppendFails
  <2> QED  BY <2>2, <2>3
<1>10. CASE Close
  <2>1. UNCHANGED <<exists, holds, bytes, reopened>>
    BY <1>10 DEF Close
  <2>2. TypeOK'
    BY <1>10, <2>1 DEF Close
  <2>3. Young'
    BY <1>10, <2>1 DEF Close
  <2>4. AgeOrder' /\ SizeBounded'
    BY <2>1
  <2> QED  BY <2>2, <2>3, <2>4
<1>11. CASE Restart
  <2>1. TypeOK'
    BY <1>11 DEF Restart, Fault, opened, Return
  <2>2. Young'
    BY <1>11 DEF Restart, Fault, opened, Return
  <2>3. AgeOrder'
    BY <1>11 DEF Restart, Fault, opened, Return
  <2>4. SizeBounded'
    BY <1>11 DEF Restart, Fault, opened, Return
  <2> QED  BY <2>1, <2>2, <2>3, <2>4
<1>12. CASE UNCHANGED vars
  BY <1>12 DEF vars
<1> QED
  BY <1>1, <1>2, <1>3, <1>4, <1>5, <1>6, <1>7, <1>8, <1>9, <1>10, <1>11, <1>12, <1>13 DEF Next

\* TypeOK: in particular the size the writer keeps is the size of its file.
THEOREM TypeCorrect == Spec => []TypeOK
<1>1. IInv => TypeOK
  BY DEF IInv
<1> QED  BY <1>1, InitInv, NextInv, PTL DEF Spec

\* The backups stay in the order of their age, wherever rotate fails or ends.
THEOREM Ordered == Spec => []AgeOrder
<1>1. IInv => AgeOrder
  BY DEF IInv
<1> QED  BY <1>1, InitInv, NextInv, PTL DEF Spec

\* No log file outgrows log_max_mb, except for the one record in it, until os.Stat
\* fails on the full log.
THEOREM Bounded == Spec => []SizeBounded
<1>1. IInv => SizeBounded
  BY DEF IInv
<1> QED  BY <1>1, InitInv, NextInv, PTL DEF Spec
-----------------------------------------------------------------------------
\* The loop of rotate finds the slot it is about to remove already empty, except
\* for the oldest one, until the first rename that fails.
Cleared ==
    shifted /\ pc \in {"remove", "rename"} /\ slot + 1 < backups => slot + 1 \notin exists

LEMMA InitCleared == Init => Cleared
  BY DEF Init, Cleared

LEMMA NextCleared == IInv /\ Cleared /\ [Next]_vars => Cleared'
<1> SUFFICES ASSUME TypeOK, Cleared, [Next]_vars, shifted' PROVE Cleared'
  BY DEF IInv, Cleared
<1> USE LogConstants DEF TypeOK, Cleared, diskVars
<1>1. ASSUME NEW n \in Lengths, Write(n) \/ CloseFails(n) PROVE Cleared'
  <2>1. pc' = "remove" => slot' = backups - 1
    BY <1>1 DEF Write, CloseFails
  <2>2. pc' \in {"remove", "append", "idle"}
    BY <1>1 DEF Write, CloseFails
  <2> QED  BY <2>1, <2>2
<1>2. CASE Remove
  BY <1>2 DEF Remove, gone
<1>3. CASE Rename
  <2>1. slot \notin exists'
    BY <1>3 DEF Rename, renamed
  <2> QED  BY <1>3, <2>1 DEF Rename, Continue
<1>4. CASE RenameFails
  BY <1>4 DEF RenameFails, Return
<1>7. CASE StatFails
  BY <1>7 DEF StatFails, Continue
<1>5. CASE Open \/ OpenFails \/ Append \/ AppendFails \/ Close \/ Restart
  BY <1>5 DEF Open, OpenFails, Append, AppendFails, Close, Restart, Return
<1>6. CASE UNCHANGED vars
  BY <1>6 DEF vars
<1> QED  BY <1>1, <1>2, <1>3, <1>4, <1>5, <1>6, <1>7 DEF Next

\* A step drops records of the oldest slot only.
LEMMA StepKeepsNewest ==
  IInv /\ Cleared /\ [Next]_vars => (shifted' => \A x \in Kept \ Kept' : \A y \in Kept' : x < y)
<1> SUFFICES ASSUME IInv, Cleared, [Next]_vars, shifted',
                    NEW x \in Kept \ Kept', NEW y \in Kept'
             PROVE  x < y
  OBVIOUS
<1> USE LogConstants DEF TypeOK, Slots
<1>0. TypeOK /\ AgeOrder
  BY DEF IInv
<1>1. PICK i \in Slots : x \in holds[i]
  BY DEF Kept
<1>2. PICK j \in Slots : y \in holds'[j]
  BY DEF Kept
<1>3. \A k \in Slots : x \notin holds'[k]
  BY DEF Kept
<1>4. CASE Remove
  <2>1. holds' # holds /\ gone(slot + 1) /\ UNCHANGED shifted
    BY <1>1, <1>3, <1>4 DEF Remove, diskVars
  <2>2. i = slot + 1 /\ j # i /\ y \in holds[j]
    BY <1>0, <1>1, <1>2, <1>3, <2>1 DEF gone
  <2>3. i = backups
    BY <1>0, <1>1, <1>4, <2>1, <2>2 DEF Remove, Cleared
  <2> QED  BY <1>0, <1>1, <1>2, <2>2, <2>3 DEF AgeOrder
<1>5. CASE Rename
  <2>1. holds' # holds
    BY <1>1, <1>3
  <2>2. slot \in exists /\ renamed(slot) /\ shifted
    <3>1. UNCHANGED shifted
      BY <1>5 DEF Rename
    <3>2. ~ UNCHANGED diskVars
      BY <2>1 DEF diskVars
    <3>3. slot \in exists /\ renamed(slot)
      BY <1>5, <3>2, Zenon DEF Rename
    <3> QED  BY <3>1, <3>3
  <2>3. slot \in Slots /\ slot + 1 \in Slots /\ slot + 1 # slot
    BY <1>0
  <2>4. /\ holds'[slot + 1] = holds[slot] /\ holds'[slot] = {}
        /\ \A k \in Slots : k # slot + 1 /\ k # slot => holds'[k] = holds[k]
    BY <1>0, <2>2, <2>3 DEF renamed
  <2>5. i = slot + 1 /\ (y \in holds[slot] \/ (y \in holds[j] /\ j # i))
    <3> HIDE DEF Slots, TypeOK
    <3>1. i # slot /\ ~(i # slot + 1 /\ i # slot)
      BY <1>1, <1>3, <2>3, <2>4, Zenon
    <3>2. j # slot
      BY <1>2, <2>4
    <3>3. j = slot + 1 => y \in holds[slot]
      BY <1>2, <2>4
    <3>4. j # slot + 1 => y \in holds[j]
      BY <1>2, <2>4, <3>2
    <3> QED  BY <3>1, <3>3, <3>4
  <2>6. i = backups
    BY <1>0, <1>1, <1>5, <2>2, <2>5 DEF Rename, Cleared
  <2> QED  BY <1>0, <1>1, <1>2, <2>5, <2>6 DEF AgeOrder
<1>6. CASE Append
  BY <1>0, <1>1, <1>3, <1>6 DEF Append
<1>7. CASE ~(Remove \/ Rename \/ Append)
  <2>1. holds' = holds
    BY <1>7 DEF Next, vars, diskVars, Write, CloseFails, RenameFails, StatFails, Open,
                OpenFails, AppendFails, Close, Restart
  <2> QED  BY <1>1, <1>3, <2>1
<1> QED  BY <1>4, <1>5, <1>6, <1>7

\* Rotation drops the oldest records only, over failed removals and restarts in
\* the middle of it, until a backup cannot be looked at or renamed.
THEOREM NewestStay == Spec => NewestKept
<1>1. IInv /\ Cleared /\ [Next]_vars
        => [shifted' => \A x \in Kept \ Kept' : \A y \in Kept' : x < y]_vars
  BY StepKeepsNewest
<1> QED
  BY <1>1, InitInv, NextInv, InitCleared, NextCleared, PTL DEF Spec, NewestKept
=============================================================================
