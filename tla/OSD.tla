-------------------------------- MODULE OSD --------------------------------
(***************************************************************************)
(* The text overlay: handleMedia2OSD of internal/onvif/osd.go keeps it in  *)
(* a text file, prepareOSD (internal/capture/capture.go) creates the file  *)
(* when the agent starts, and FFmpeg's drawtext reloads it.                *)
(*                                                                         *)
(* No lock orders them.  A handler reads the file, decides, and rewrites   *)
(* it with os.WriteFile, which truncates first and then writes from the    *)
(* start; a handler that writes after another one's write may leave the    *)
(* end of a longer text behind.                                            *)
(*                                                                         *)
(* A request that validateOSD or the token check refuses changes nothing   *)
(* and is left out.                                                        *)
(***************************************************************************)
EXTENDS Naturals

CONSTANTS
    Handlers,    \* HTTP handler goroutines
    Texts,       \* texts validateOSD accepts
    Trimmed,     \* what is left of each without its trailing line breaks
    Absent,      \* the file: there is none,
    Blank,       \* it is empty (and the empty text),
    Torn,        \* it holds parts of two texts, or a part of one
    Files,       \* what the file may be before the first start
    MaxFaults    \* bound on failed writes and restarts

ASSUME OSDConstants ==
    /\ {Absent, Blank, Torn} \cap Texts = {}
    /\ Absent # Blank /\ Torn \notin {Absent, Blank}
    /\ Trimmed \in [Texts -> Texts \cup {Blank}]
    /\ Files \subseteq Texts \cup {Absent, Blank}
    /\ MaxFaults \in Nat

VARIABLES
    file,       \* the content of OSDTextFile
    prepPc,     \* prepareOSD: about to "stat", about to "create", or "done"
    pc,         \* a handler: "idle", about to "open" the file or to "write"
    op, text,   \* its operation, and the text it will write
    rendered,   \* the text FFmpeg drew last
    faults,     \* what MaxFaults bounds
    acked,      \* history: the text the last positive answer promised
    intact,     \* history: has no write failed or been cut off since then?
    made,       \* history: CreateOSDs granted since there was no text (2: or more)
    clean,      \* history: has no write ever failed or overlapped another one?
    alone       \* history: has every request found the file and no other request in flight?

vars == <<file, prepPc, pc, op, text, rendered, faults, acked, intact, made, clean, alone>>

TypeOK ==
    /\ file \in Texts \cup {Absent, Blank, Torn}
    /\ prepPc = "done" => file # Absent
    /\ prepPc \in {"stat", "create", "done"}
    /\ pc \in [Handlers -> {"idle", "open", "write"}]
    /\ op \in [Handlers -> {"Create", "Set", "Delete"}]
    /\ text \in [Handlers -> Texts \cup {Blank}]
    /\ rendered \in Texts \cup {Blank, Torn}
    /\ faults \in 0..MaxFaults /\ made \in 0..2
    /\ acked \in Texts \cup {Blank}
    /\ intact \in BOOLEAN /\ clean \in BOOLEAN /\ alone \in BOOLEAN

trim(t) == IF t \in Texts THEN Trimmed[t] ELSE t

readOSDText == IF file = Absent THEN Blank ELSE trim(file)

Init ==
    /\ file \in Files
    /\ prepPc = "stat"
    /\ pc = [h \in Handlers |-> "idle"]
    /\ op = [h \in Handlers |-> "Delete"] /\ text = [h \in Handlers |-> Blank]
    /\ rendered = Blank /\ faults = 0
    /\ acked = (IF file = Absent THEN Blank ELSE file)
    /\ intact = TRUE /\ clean = TRUE /\ alone = TRUE
    /\ made = IF readOSDText = Blank THEN 0 ELSE 1
-----------------------------------------------------------------------------
handlerVars == <<pc, op, text>>
historyVars == <<acked, intact, made, clean, alone>>

Quiet == \A h \in Handlers : pc[h] = "idle"

\* prepareOSD, before any FFmpeg is started: os.Stat ...
prepareOSD ==
    /\ prepPc = "stat"
    /\ prepPc' = IF file = Absent THEN "create" ELSE "done"
    /\ UNCHANGED <<file, handlerVars, rendered, faults, historyVars>>

\* ... and os.WriteFile with no content when there was no file.
prepareOSDCreate ==
    /\ prepPc = "create"
    /\ file' = Blank
    /\ prepPc' = "done"
    /\ UNCHANGED <<handlerVars, rendered, faults, historyVars>>

Begin(h, o, t) ==
    /\ pc' = [pc EXCEPT ![h] = "open"]
    /\ op' = [op EXCEPT ![h] = o] /\ text' = [text EXCEPT ![h] = t]
    /\ alone' = (alone /\ file # Absent /\ Quiet)
    /\ UNCHANGED <<file, prepPc, rendered, faults, acked, intact, made, clean>>

\* Faulty variant: CreateOSD replaces the text that is there.
CreateOSDReplaces(h, t) ==
    /\ pc[h] = "idle"
    /\ Begin(h, "Create", t)

\* Refused with MaxOSDs when a text can be read.
CreateOSD(h, t) ==
    /\ pc[h] = "idle" /\ readOSDText = Blank
    /\ Begin(h, "Create", t)

\* Refused with NoConfig when there is no text.
SetOSD(h, t) ==
    /\ pc[h] = "idle" /\ readOSDText # Blank
    /\ Begin(h, "Set", t)

DeleteOSD(h) ==
    /\ pc[h] = "idle" /\ readOSDText # Blank
    /\ Begin(h, "Delete", Blank)

\* Faulty variant: the file is opened without truncating it.
OpenInPlace(h) ==
    /\ pc[h] = "open"
    /\ file' = IF file = Absent THEN Blank ELSE file
    /\ pc' = [pc EXCEPT ![h] = "write"]
    /\ clean' = (clean /\ \A g \in Handlers : pc[g] # "write")
    /\ UNCHANGED <<prepPc, op, text, rendered, faults, acked, intact, made, alone>>

\* writeOSDText opens and truncates the file ...
Open(h) ==
    /\ pc[h] = "open"
    /\ file' = Blank
    /\ pc' = [pc EXCEPT ![h] = "write"]
    /\ clean' = (clean /\ \A g \in Handlers : pc[g] # "write")
    /\ UNCHANGED <<prepPc, op, text, rendered, faults, acked, intact, made, alone>>

\* The handler returns; what it knew of the request is gone.
Return(h) ==
    /\ pc' = [pc EXCEPT ![h] = "idle"]
    /\ op' = [op EXCEPT ![h] = "Delete"] /\ text' = [text EXCEPT ![h] = Blank]

\* Faulty variant: a text is written in two pieces.
WriteInPieces(h) ==
    /\ pc[h] = "write"
    /\ \/ /\ file = Blank /\ text[h] # Blank
          /\ file' = Torn
          /\ UNCHANGED <<handlerVars, acked, intact, made>>
       \/ /\ file' = IF text[h] = Blank THEN file ELSE text[h]
          /\ Return(h)
          /\ acked' = text[h] /\ intact' = TRUE
          /\ made' = IF trim(text[h]) = Blank THEN 0 ELSE IF op[h] = "Set" THEN made ELSE 1
    /\ UNCHANGED <<prepPc, rendered, faults, clean, alone>>

\* ... writes the text over what is there, an empty text writes nothing, and
\* the request is answered positively.
Write(h) ==
    /\ pc[h] = "write"
    /\ IF text[h] = Blank THEN file' = file
       ELSE file' \in {text[h]} \cup (IF file \in {Blank, text[h]} THEN {} ELSE {Torn})
    /\ Return(h)
    /\ acked' = text[h] /\ intact' = TRUE
    /\ made' = IF trim(text[h]) = Blank THEN 0
               ELSE IF op[h] = "Set" THEN made
               ELSE IF made = 0 THEN 1 ELSE 2
    /\ UNCHANGED <<prepPc, rendered, faults, clean, alone>>

\* The file cannot be opened, or the text not be written to the end: a fault.
WriteFails(h) ==
    /\ faults < MaxFaults
    /\ faults' = faults + 1
    /\ \/ pc[h] = "open" /\ UNCHANGED <<file, intact, clean, made>>
       \/ /\ pc[h] = "write" /\ file' \in {file, Torn}
          /\ intact' = FALSE /\ clean' = FALSE /\ made' = 0
    /\ Return(h)
    /\ UNCHANGED <<prepPc, rendered, acked, alone>>

\* The machine goes down and the agent is started again.
Reboot ==
    /\ faults < MaxFaults
    /\ faults' = faults + 1
    /\ prepPc' = "stat"
    /\ pc' = [h \in Handlers |-> "idle"]
    /\ op' = [h \in Handlers |-> "Delete"] /\ text' = [h \in Handlers |-> Blank]
    /\ intact' = (intact /\ \A h \in Handlers : pc[h] # "write")
    /\ made' = IF intact' THEN made ELSE 0
    /\ rendered' = Blank
    /\ UNCHANGED <<file, acked, clean, alone>>

\* drawtext with reload=1, once prepareOSD has let FFmpeg start.
Render ==
    /\ prepPc = "done"
    /\ rendered' = file
    /\ UNCHANGED <<file, prepPc, handlerVars, faults, historyVars>>
-----------------------------------------------------------------------------
Next ==
    \/ prepareOSD \/ prepareOSDCreate \/ Render \/ Reboot
    \/ \E h \in Handlers :
          \/ \E t \in Texts : CreateOSD(h, t) \/ SetOSD(h, t)
          \/ DeleteOSD(h) \/ Open(h) \/ Write(h) \/ WriteFails(h)

Spec == Init /\ [][Next]_vars
-----------------------------------------------------------------------------
\* A positive answer to CreateOSD, SetOSD or DeleteOSD holds until the next
\* request, over failed requests and restarts too: the file has the text that
\* was asked for, without trailing line breaks, or nothing after a DeleteOSD
\* (osd_test.go).  Requests must not overlap each other or prepareOSD's
\* creation of the file, which would empty what they wrote.
AckedIsStored == alone /\ Quiet /\ intact => readOSDText = trim(acked)

\* handleMedia2OSD: "Only one text OSD is supported".  Two CreateOSDs are not
\* both granted while the text of the first is there, if they do not overlap.
OneOSD == alone => made <= 1

\* FFmpeg may reload the file between any two steps of the handlers; what it
\* draws is nothing or one whole text, as long as no write failed and no two
\* writes overlapped.
RenderedWhole == clean => rendered # Torn
=============================================================================
