---------------------------- MODULE VideoConfig ----------------------------
(***************************************************************************)
(* The video settings of a configuration and what a                        *)
(* SetVideoEncoderConfiguration request makes of them: the pure part of    *)
(* setVideoEncoderConfiguration (internal/onvif/encoder_config.go) and of  *)
(* Config.Validate (internal/config/config.go).                            *)
(*                                                                         *)
(* A configuration is a record of the nine fields UpdateConfig may change. *)
(* A bitrate string is its number and its unit, "k", "m" or none; a string *)
(* that is no such number has n = 0.                                       *)
(***************************************************************************)
EXTENDS Integers

CONSTANT SubstreamEnabled   \* Config.SubstreamEnabled, fixed at start-up

ASSUME SubstreamEnabledType == SubstreamEnabled \in BOOLEAN

Bitrate == [n : Int, unit : {"k", "m", "none"}]

VideoSettings ==
    [FPS : Int, Width : Int, Height : Int, VideoBitrate : Bitrate, GOPSeconds : Int,
     SubstreamFPS : Int, SubstreamWidth : Int, SubstreamHeight : Int,
     SubstreamBitrate : Bitrate]

\* bitrateKbps; an unusable string counts as 4000.
bitrateKbps(b) ==
    IF b.n <= 0 THEN 4000 ELSE b.n * (IF b.unit = "m" THEN 1000 ELSE 1)

\* strconv.Itoa(bitrate) + "k"
kbit(n) == [n |-> n, unit |-> "k"]

EvenFrom64(n) == n >= 64 /\ n % 2 = 0

\* Validate, as far as the nine fields go.
Validate(c) ==
    /\ c.FPS \in 1..120
    /\ EvenFrom64(c.Width) /\ EvenFrom64(c.Height)
    /\ c.GOPSeconds \in 1..10
    /\ SubstreamEnabled =>
          /\ c.SubstreamFPS \in 1..c.FPS
          /\ EvenFrom64(c.SubstreamWidth) /\ EvenFrom64(c.SubstreamHeight)
          /\ c.SubstreamWidth <= c.Width /\ c.SubstreamHeight <= c.Height

\* What the Get operations report of one stream; gov is its GovLength.
settings(c, sub) ==
    IF sub
    THEN [width |-> c.SubstreamWidth, height |-> c.SubstreamHeight,
          fps |-> c.SubstreamFPS, bitrate |-> bitrateKbps(c.SubstreamBitrate),
          gov |-> c.SubstreamFPS * c.GOPSeconds]
    ELSE [width |-> c.Width, height |-> c.Height,
          fps |-> c.FPS, bitrate |-> bitrateKbps(c.VideoBitrate),
          gov |-> c.FPS * c.GOPSeconds]

(***************************************************************************)
(* A request r: the stream (sub), its numbers with 0 for "absent", persist *)
(* for ForcePersistence, and supported when it parses, names a known token *)
(* and asks for H264 with EncodingInterval 1.                              *)
(***************************************************************************)
VideoRequest ==
    [sub : BOOLEAN, width : Int, height : Int, fps : Int, bitrate : Int, gov : Int,
     persist : BOOLEAN, supported : BOOLEAN]

Fields == {"width", "height", "fps", "bitrate"}

\* Fields the request leaves out keep their current value.
requested(c, r) ==
    [f \in Fields |-> IF r[f] # 0 THEN r[f] ELSE settings(c, r.sub)[f]]

acceptable(c, r) ==
    LET q == requested(c, r)
    IN  /\ r.supported
        /\ r.sub => SubstreamEnabled
        /\ r.gov # 0 => q.fps >= 1 /\ r.gov % q.fps = 0
        /\ EvenFrom64(q.width) /\ EvenFrom64(q.height)
        /\ q.fps \in 1..120
        /\ q.bitrate >= 64 /\ q.bitrate <= 200000

\* GovLength is in frames at the requested rate, GOPSeconds in seconds, shared
\* by both streams.
gopSeconds(c, r) == IF r.gov = 0 THEN c.GOPSeconds ELSE r.gov \div requested(c, r).fps

\* Faulty variant: the group length is converted with the rate before the request.
appliedOldRate(c, r) ==
    LET q == requested(c, r)
        g == [c EXCEPT !.GOPSeconds =
                 IF r.gov = 0 THEN @ ELSE r.gov \div settings(c, r.sub).fps]
    IN  IF r.sub
        THEN [g EXCEPT !.SubstreamWidth = q.width, !.SubstreamHeight = q.height,
                       !.SubstreamFPS = q.fps, !.SubstreamBitrate = kbit(q.bitrate)]
        ELSE [g EXCEPT !.Width = q.width, !.Height = q.height,
                       !.FPS = q.fps, !.VideoBitrate = kbit(q.bitrate)]

applied(c, r) ==
    LET q == requested(c, r)
        g == [c EXCEPT !.GOPSeconds = gopSeconds(c, r)]
    IN  IF r.sub
        THEN [g EXCEPT !.SubstreamWidth = q.width, !.SubstreamHeight = q.height,
                       !.SubstreamFPS = q.fps, !.SubstreamBitrate = kbit(q.bitrate)]
        ELSE [g EXCEPT !.Width = q.width, !.Height = q.height,
                       !.FPS = q.fps, !.VideoBitrate = kbit(q.bitrate)]
=============================================================================
