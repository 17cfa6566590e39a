----------------------------- MODULE MCSnapshot -----------------------------
(* Snapshot with two handlers.                                             *)
EXTENDS Snapshot

CONSTANTS h1, h2

TwoViewers == {h1, h2}
=============================================================================
