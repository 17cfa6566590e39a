-------------------------- MODULE MCRotatingWriter --------------------------
(* RotatingWriter with three backups, files of two short records, and a    *)
(* record that is longer than a file.                                      *)
EXTENDS RotatingWriter

SomeLengths == {1, 3}
=============================================================================
