---------------------------- MODULE MCRecording ----------------------------
(* Recording with a few segments, and configurations around what Validate  *)
(* accepts.                                                                *)
EXTENDS Recording

main == Name("screen")
sub  == Name("screen_sub")

\* A disk guard of one unit, the default paths, a password in the file.
Base == [RTSPPath |-> main, SubstreamEnabled |-> TRUE, SubstreamPath |-> sub,
         MetadataEnabled |-> TRUE, RecordingEnabled |-> TRUE, MaxRecordingGB |-> 1,
         InsecureNoAuth |-> FALSE, ONVIFUsername |-> "admin", ONVIFPassword |-> "long",
         RTSPUsername |-> "", RTSPPassword |-> ""]

\* Without a disk guard: streams, metadata, recording and path names.
PathFiles ==
    {[Base EXCEPT !.MaxRecordingGB = 0, !.SubstreamEnabled = s, !.MetadataEnabled = m,
                  !.RecordingEnabled = r, !.SubstreamPath = p] :
        s \in BOOLEAN, m \in BOOLEAN, r \in BOOLEAN,
        p \in {sub, rawPath(main), pathEnvKey(main), main}}

\* Without recording: where the credentials come from.
CredentialFiles ==
    {[Base EXCEPT !.RecordingEnabled = FALSE, !.InsecureNoAuth = i, !.ONVIFPassword = o,
                  !.RTSPUsername = u, !.RTSPPassword = p] :
        i \in BOOLEAN, o \in {"", "short", "long"}, u \in {"", "viewer"},
        p \in {"", "short", "other"}}

\* A guard that fits, none, a negative one, and one that overflows.
GuardFiles == {[Base EXCEPT !.MaxRecordingGB = n] : n \in {1, 0, -1, 20}}

NoVariables == [onvif |-> Unset, rtsp |-> Unset]
Variables   == {[onvif |-> o, rtsp |-> r] : o \in {Unset, ""}, r \in {Unset, "", "other"}}

SomeStarts ==
    {[file |-> f, env |-> NoVariables] : f \in PathFiles \cup GuardFiles}
    \cup {[file |-> f, env |-> v] : f \in CredentialFiles, v \in Variables}
=============================================================================
