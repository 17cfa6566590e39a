--------------------------- MODULE RotatingWriter ---------------------------
(***************************************************************************)
(* The agent's log: RotatingWriter of internal/logging/rotate.go.          *)
(*                                                                         *)
(* Slot 0 is the file the writer appends to, slot i its backup .i.  Every  *)
(* call holds the mutex from start to end, so one call runs at a time; what *)
(* may come between its steps is a failing file operation (most errors are  *)
(* ignored) or the end of the process, which may be at any point of a       *)
(* rotation.                                                               *)
(*                                                                         *)
(* Records are numbered in the order they are written; a file is the set of *)
(* the whole records in it and its size.                                   *)
(***************************************************************************)
EXTENDS Naturals

CONSTANTS
    backups,      \* RotatingWriter.backups
    maxSize,      \* RotatingWriter.maxSize
    Lengths,      \* lengths of records
    MaxRecords,   \* bound on the records
    MaxFaults     \* bound on failed operations and restarts

ASSUME LogConstants ==
    /\ backups \in Nat \ {0} /\ maxSize \in Nat
    /\ Lengths \subseteq Nat
    /\ MaxRecords \in Nat /\ MaxFaults \in Nat

Slots == 0..backups

VARIABLES
    exists,   \* the slots that have a file
    holds,    \* the whole records in each of them
    bytes,    \* and its size
    size,     \* RotatingWriter.size
    handle,   \* RotatingWriter.file: "open", "nil", or "bad" when Close failed
    pc,       \* where the call is: "idle", "remove", "rename", "open", "append"
    slot,     \* the loop variable of rotate; 0 for the steps after the loop
    len,      \* the length of the record being written
    count,    \* records begun so far; the current one has this number
    faults,   \* what MaxFaults bounds
    shifted,  \* history: has rotate moved every backup it came to?
    reopened  \* history: has rotate opened a log again that it could not move away?

vars == <<exists, holds, bytes, size, handle, pc, slot, len, count, faults, shifted, reopened>>
diskVars == <<exists, holds, bytes>>

\* The size the writer believes in is that of the file, and only files that
\* exist have a size and records.
TypeOK ==
    /\ exists \subseteq Slots
    /\ holds \in [Slots -> SUBSET Nat] /\ bytes \in [Slots -> Nat]
    /\ \A i \in Slots \ exists : holds[i] = {} /\ bytes[i] = 0
    /\ size \in Nat
    /\ handle = "open" => 0 \in exists /\ size = bytes[0]
    /\ handle \in {"open", "nil", "bad"}
    /\ pc \in {"idle", "remove", "rename", "open", "append"}
    /\ pc = "append" => handle = "open"
    /\ slot \in 0..backups - 1
    /\ len \in Lengths \cup {0}
    /\ count \in 0..MaxRecords /\ faults \in 0..MaxFaults
    /\ shifted \in BOOLEAN /\ reopened \in BOOLEAN

\* New on a directory without logs.
Init ==
    /\ exists = {0}
    /\ holds = [i \in Slots |-> {}] /\ bytes = [i \in Slots |-> 0]
    /\ size = 0 /\ handle = "open"
    /\ pc = "idle" /\ slot = 0 /\ len = 0
    /\ count = 0 /\ faults = 0 /\ shifted = TRUE /\ reopened = FALSE
-----------------------------------------------------------------------------
Fault == faults < MaxFaults /\ faults' = faults + 1

\* The call returns.
Return == pc' = "idle" /\ slot' = 0 /\ len' = 0

\* Faulty variant: the record to come is not counted.
fullLate(n) == size > maxSize

\* Must the file be rotated before n bytes are written?
full(n) == size + n > maxSize

\* Write, up to the first file operation.  Without a usable file it fails and
\* changes nothing.
Write(n) ==
    /\ pc = "idle" /\ handle = "open" /\ count < MaxRecords
    /\ count' = count + 1 /\ len' = n
    /\ IF full(n) THEN handle' = "nil" /\ pc' = "remove" /\ slot' = backups - 1
       ELSE pc' = "append" /\ UNCHANGED <<handle, slot>>
    /\ UNCHANGED <<diskVars, size, faults, shifted, reopened>>

\* rotate: a Close that fails leaves a file nobody can write to or close.
CloseFails(n) ==
    /\ pc = "idle" /\ handle = "open" /\ count < MaxRecords /\ full(n)
    /\ Fault
    /\ handle' = "bad" /\ count' = count + 1
    /\ UNCHANGED <<diskVars, size, pc, slot, len, shifted, reopened>>

\* The file in slot i is gone.
gone(i) ==
    /\ exists' = exists \ {i}
    /\ holds' = [holds EXCEPT ![i] = {}] /\ bytes' = [bytes EXCEPT ![i] = 0]

\* os.Remove of the slot the next rename goes to; its error is ignored.
Remove ==
    /\ pc = "remove"
    /\ \/ gone(slot + 1) /\ UNCHANGED faults
       \/ slot + 1 \in exists /\ Fault /\ UNCHANGED diskVars
    /\ pc' = "rename"
    /\ UNCHANGED <<size, handle, slot, len, count, shifted, reopened>>

\* The loop goes on, or the new file is opened.
Continue ==
    IF slot = 0 THEN pc' = "open" /\ UNCHANGED slot
                ELSE pc' = "remove" /\ slot' = slot - 1

\* Faulty variant: the file is copied and stays where it was.
copied(i) ==
    /\ exists' = exists \cup {i + 1}
    /\ holds' = [holds EXCEPT ![i + 1] = holds[i]]
    /\ bytes' = [bytes EXCEPT ![i + 1] = bytes[i]]

\* os.Rename replaces what is there.
renamed(i) ==
    /\ exists' = (exists \ {i}) \cup {i + 1}
    /\ holds' = [holds EXCEPT ![i + 1] = holds[i], ![i] = {}]
    /\ bytes' = [bytes EXCEPT ![i + 1] = bytes[i], ![i] = 0]

\* os.Rename, if there is a file.
Rename ==
    /\ pc = "rename"
    /\ \/ slot \in exists /\ renamed(slot)
       \/ slot \notin exists /\ UNCHANGED diskVars
    /\ Continue
    /\ UNCHANGED <<size, handle, len, count, faults, shifted, reopened>>

\* A backup that cannot be renamed is left where it is, and the next round of
\* the loop removes it; the log itself ends the rotation, and the writer is
\* left without a file.
RenameFails ==
    /\ pc = "rename" /\ slot \in exists
    /\ Fault
    /\ IF slot = 0 THEN Return /\ UNCHANGED shifted
                   ELSE Continue /\ shifted' = FALSE /\ UNCHANGED len
    /\ UNCHANGED <<diskVars, size, handle, count, reopened>>

\* A file that os.Stat cannot look at, for whatever reason, counts as none: a
\* backup stays where it is, and the full log is opened again and grows on.
StatFails ==
    /\ pc = "rename" /\ slot \in exists
    /\ Fault
    /\ Continue
    /\ IF slot = 0 THEN reopened' = TRUE /\ UNCHANGED shifted
                   ELSE shifted' = FALSE /\ UNCHANGED reopened
    /\ UNCHANGED <<diskVars, size, handle, len, count>>

\* open: creates the file, or goes on with the one that is there.
opened == size' = bytes[0] /\ handle' = "open" /\ exists' = exists \cup {0}

Open ==
    /\ pc = "open"
    /\ opened
    /\ pc' = "append"
    /\ UNCHANGED <<holds, bytes, slot, len, count, faults, shifted, reopened>>

\* The file may have been created before its size could not be read.
OpenFails ==
    /\ pc = "open"
    /\ Fault
    /\ exists' \in {exists, exists \cup {0}}
    /\ Return
    /\ UNCHANGED <<holds, bytes, size, handle, count, shifted, reopened>>

\* The record goes to the file, and Write returns.
Append ==
    /\ pc = "append"
    /\ holds' = [holds EXCEPT ![0] = @ \cup {count}]
    /\ bytes' = [bytes EXCEPT ![0] = @ + len]
    /\ size' = size + len
    /\ Return
    /\ UNCHANGED <<exists, handle, count, faults, shifted, reopened>>

\* A part of it does, or nothing.
AppendFails ==
    /\ pc = "append"
    /\ Fault
    /\ \E n \in 0..len :
          /\ n < len
          /\ bytes' = [bytes EXCEPT ![0] = @ + n]
          /\ size' = size + n
    /\ Return
    /\ UNCHANGED <<exists, holds, handle, count, shifted, reopened>>

\* main closes the log when it returns.
Close ==
    /\ pc = "idle" /\ handle # "nil"
    /\ handle' = "nil"
    /\ UNCHANGED <<diskVars, size, pc, slot, len, count, faults, shifted, reopened>>

\* Faulty variant: the log is truncated when it is opened.
RestartTruncates ==
    /\ Fault
    /\ size' = 0 /\ handle' = "open" /\ exists' = exists \cup {0}
    /\ holds' = [holds EXCEPT ![0] = {}] /\ bytes' = [bytes EXCEPT ![0] = 0]
    /\ Return
    /\ UNCHANGED <<count, shifted, reopened>>

\* The process ends, after a Close or anywhere, and is started again: New.
Restart ==
    /\ Fault
    /\ opened
    /\ Return
    /\ UNCHANGED <<holds, bytes, count, shifted, reopened>>
-----------------------------------------------------------------------------
Next ==
    \/ \E n \in Lengths : Write(n) \/ CloseFails(n)
    \/ Remove \/ Rename \/ RenameFails \/ StatFails \/ Open \/ OpenFails
    \/ Append \/ AppendFails \/ Close \/ Restart

Spec == Init /\ [][Next]_vars
-----------------------------------------------------------------------------
Kept == UNION {holds[i] : i \in Slots}

\* The backups are in the order of their age, whatever failed and wherever a
\* rotation was cut off: each record in .i is older than each in .j for j < i,
\* and no record is in two files.
AgeOrder ==
    \A i, j \in Slots : j < i => \A x \in holds[i], y \in holds[j] : x < y

\* Log rotation drops the oldest records only: of the records that were written
\* completely, those kept are the newest ones, as long as every backup could be
\* looked at and renamed; failed removals and restarts in the middle of a rotation do not
\* matter.
NewestKept ==
    [][shifted' => \A x \in Kept \ Kept' : \A y \in Kept' : x < y]_vars

\* README.md, log_max_mb: "bounded agent logging".  No file is larger than the
\* limit, or than the one record in it, whatever fails and wherever a rotation is
\* cut off, until os.Stat fails on the full log.
SizeBounded ==
    ~reopened => \A i \in Slots : bytes[i] <= maxSize \/ \E n \in Lengths : bytes[i] <= n
=============================================================================
