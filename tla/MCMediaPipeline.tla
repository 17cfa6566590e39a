-------------------------- MODULE MCMediaPipeline --------------------------
(* MediaPipeline with the main path and one update.                        *)
EXTENDS MediaPipeline

CONSTANTS main, c1, u1

MainPath   == {main}
OneConfig  == {c1}
OneUpdater == {u1}
=============================================================================
