-------------------------- MODULE MCEncoderUpdate --------------------------
(* EncoderUpdate with a few settings around the limits that tie the two    *)
(* streams together.                                                       *)
EXTENDS EncoderUpdate, TLC

CONSTANTS h1, h2

OneHandler  == {h1}
TwoHandlers == {h1, h2}

\* Main 5, 10 or 15 fps, substream 5 or 10 fps, GOP of 1, 2 or 5 s (5 is
\* what 55 frames would be at 10 fps), the main bitrate in kbit/s or in Mbit/s,
\* and two bitrates of the substream.
Config(fps, subFps, gop, b, subB) ==
    [FPS |-> fps, Width |-> 1920, Height |-> 1080, VideoBitrate |-> b, GOPSeconds |-> gop,
     SubstreamFPS |-> subFps, SubstreamWidth |-> 640, SubstreamHeight |-> 360,
     SubstreamBitrate |-> kbit(subB)]

FourMbit == [n |-> 4, unit |-> "m"]

SomeConfigs == {Config(f, s, g, b, sb) : f \in {5, 10, 15}, s \in {5, 10}, g \in {1, 2, 5},
                                         b \in {kbit(4000), FourMbit}, sb \in {800, 900}}

Default == Config(15, 10, 2, kbit(4000), 800)

\* The file in the installer's form with a slower substream, or none.
FewFiles   == {Config(15, 5, 2, FourMbit, 800), Absent}
OneFile    == {Default}

Request(sub, fps, gov, persist) ==
    [sub |-> sub, width |-> 0, height |-> 0, fps |-> fps, bitrate |-> 0, gov |-> gov,
     persist |-> persist, supported |-> TRUE]

\* Frame rates that fit each other one at a time only.
RateRequests == {Request(FALSE, 5, 0, FALSE), Request(FALSE, 5, 0, TRUE), Request(TRUE, 10, 0, TRUE)}

\* Two persisted changes of the main stream.
Persisted == {Request(FALSE, 10, 0, TRUE), Request(FALSE, 15, 15, TRUE)}

\* Rates that fit each other one at a time only, a GovLength at another rate
\* together with a bitrate, and requests beyond every limit.
ManyRequests ==
    RateRequests
    \cup {[Request(TRUE, 5, g, TRUE) EXCEPT !.bitrate = 900] : g \in {5, 7, 55}}
    \cup {Request(FALSE, f, 0, FALSE) : f \in {121, -1}}
    \cup {[Request(FALSE, 5, 0, TRUE) EXCEPT !.width = w] : w \in {62, 641, 320}}
    \cup {[Request(TRUE, 0, 0, FALSE) EXCEPT !.bitrate = b] : b \in {63, 200001}}
    \cup {[Request(FALSE, 5, 0, FALSE) EXCEPT !.supported = FALSE]}

Symmetry == Permutations(TwoHandlers)
=============================================================================
