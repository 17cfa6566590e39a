----------------------------- MODULE MediaPaths -----------------------------
(***************************************************************************)
(* What a start-up configuration makes of the RTSP paths: the credentials  *)
(* Load settles on, the environment that tells MediaMTX about paths, users *)
(* and recording (mediaMTXEnv), what FFmpeg and the metadata relays do     *)
(* with the paths, and what the Media services advertise.                  *)
(*                                                                         *)
(* A path name is a stem, whether it is written in upper case, and how     *)
(* many times "_raw" was appended.  A password is "", "short" (under 12    *)
(* characters) or a longer one.  A configuration has the fields that       *)
(* matter here, under their names in config.go.                            *)
(***************************************************************************)
EXTENDS Integers, Sequences, FiniteSetsExt

CONSTANT Unset   \* an environment variable that does not exist

PathName == [stem : STRING, upper : BOOLEAN, raws : Nat]

ConfigFile ==
    [RTSPPath : PathName, SubstreamEnabled : BOOLEAN, SubstreamPath : PathName,
     MetadataEnabled : BOOLEAN, RecordingEnabled : BOOLEAN, MaxRecordingGB : Int,
     InsecureNoAuth : BOOLEAN, ONVIFUsername : STRING, ONVIFPassword : STRING,
     RTSPUsername : STRING, RTSPPassword : STRING]

Name(stem) == [stem |-> stem, upper |-> FALSE, raws |-> 0]

\* The environment replaces a password of the file, also by an empty one; what
\* RTSP lacks after that is taken from ONVIF.
applyEnv(c, env) ==
    LET over(value, v) == IF v = Unset THEN value ELSE v
        onvif == over(c.ONVIFPassword, env.onvif)
        rtsp  == over(c.RTSPPassword, env.rtsp)
    IN  [c EXCEPT !.ONVIFPassword = onvif,
                  !.RTSPUsername = IF @ = "" THEN c.ONVIFUsername ELSE @,
                  !.RTSPPassword = IF rtsp = "" THEN onvif ELSE rtsp]

\* The part of Validate that is about these fields.
validStart(c) ==
    /\ c.MaxRecordingGB >= 0
    /\ c.SubstreamEnabled => c.SubstreamPath # c.RTSPPath
    /\ \/ c.InsecureNoAuth
       \/ /\ c.ONVIFUsername # "" /\ c.RTSPUsername # ""
          /\ {c.ONVIFPassword, c.RTSPPassword} \cap {"", "short"} = {}
-----------------------------------------------------------------------------
rawPath(p) == [p EXCEPT !.raws = @ + 1]

publishPath(c, p) == IF c.MetadataEnabled THEN rawPath(p) ELSE p

publicPaths(c) == {c.RTSPPath} \cup IF c.SubstreamEnabled THEN {c.SubstreamPath} ELSE {}

\* strings.ToUpper; MediaMTX takes the name in lower case from the key.
pathEnvKey(p) == [p EXCEPT !.upper = TRUE]
configured(key) == [key EXCEPT !.upper = FALSE]

\* The permissions of user 0, who needs no password and must come from the
\* machine itself, and of user 1, everybody else.
internalPermissions(c) ==
    {"publish", "read"} \X
        ({publishPath(c, p) : p \in publicPaths(c)}
            \cup IF c.MetadataEnabled THEN publicPaths(c) ELSE {})

externalReads(c) == publicPaths(c)

externalUser(c) == IF c.InsecureNoAuth THEN [user |-> "any", pass |-> ""]
                   ELSE [user |-> c.RTSPUsername, pass |-> c.RTSPPassword]

publisherPaths(c) ==
    {configured(pathEnvKey(p)) : p \in {publishPath(c, q) : q \in publicPaths(c)}
                                        \cup IF c.MetadataEnabled THEN publicPaths(c) ELSE {}}

\* Faulty variant: the public path is recorded, as without metadata.
recordSettingsPublic(c) ==
    (IF c.SubstreamEnabled THEN <<<<pathEnvKey(publishPath(c, c.SubstreamPath)), FALSE>>>> ELSE <<>>)
    \o <<<<pathEnvKey(c.RTSPPath), c.RecordingEnabled>>>>

\* The variables _RECORD in the order they are appended: of one given twice, the
\* last counts.
recordSettings(c) ==
    (IF ~c.MetadataEnabled THEN <<>>
     ELSE <<<<pathEnvKey(c.RTSPPath), FALSE>>>>
          \o IF c.SubstreamEnabled THEN <<<<pathEnvKey(c.SubstreamPath), FALSE>>>> ELSE <<>>)
    \o <<<<pathEnvKey(publishPath(c, c.RTSPPath)), c.RecordingEnabled>>>>
    \o IF c.SubstreamEnabled THEN <<<<pathEnvKey(publishPath(c, c.SubstreamPath)), FALSE>>>> ELSE <<>>

recorded(c) ==
    LET s == recordSettings(c)
        last(key) == Max({i \in DOMAIN s : s[i][1] = key})
    IN  {configured(s[i][1]) : i \in {j \in DOMAIN s : s[j][2] /\ j = last(s[j][1])}}
-----------------------------------------------------------------------------
\* ffmpegArgsWithConfig: the outputs of the one capture.
ffmpegOutputs(c) == {publishPath(c, p) : p \in publicPaths(c)}

\* Run: the relays, from the raw path to the public one.
relays(c) == IF c.MetadataEnabled THEN {<<rawPath(p), p>> : p \in publicPaths(c)} ELSE {}

\* Faulty variant: the substream's profile is known although it is disabled.
streamURLForProfileAlways(c, token) ==
    IF token \in {"", "screen_profile"} THEN {c.RTSPPath} ELSE {c.SubstreamPath}

\* streamURLForProfile: the path of a profile's URI, {} for an unknown token.
streamURLForProfile(c, token) ==
    IF token \in {"", "screen_profile"} THEN {c.RTSPPath}
    ELSE IF c.SubstreamEnabled THEN {c.SubstreamPath} ELSE {}

ProfileTokens == {"", "screen_profile", "screen_profile_sub"}
-----------------------------------------------------------------------------
\* MediaMTX lets a publisher in from the machine itself, on a path it knows.
mayPublish(c, p) == p \in publisherPaths(c) /\ <<"publish", p>> \in internalPermissions(c)

\* Who publishes a path ends up with FFmpeg's video on it.
carriesVideo(c, p) ==
    \/ p \in ffmpegOutputs(c) /\ mayPublish(c, p)
    \/ \E r \in relays(c) : /\ r[2] = p /\ mayPublish(c, p)
                            /\ r[1] \in ffmpegOutputs(c) /\ mayPublish(c, r[1])
                            /\ <<"read", r[1]>> \in internalPermissions(c)

\* Are the names such that no two paths in use share a key, and none loses its
\* name to strings.ToUpper?  Validate does not ask for it.
wellNamed(c) ==
    LET inUse == publicPaths(c) \cup ffmpegOutputs(c)
    IN  /\ \A p \in inUse : ~p.upper
        /\ c.MetadataEnabled => publicPaths(c) \cap ffmpegOutputs(c) = {}
=============================================================================
