---------------------------- MODULE MCTaskStorage ----------------------------
(***************************************************************************)
(* TaskStorage for TLC.                                                    *)
(***************************************************************************)
EXTENDS TaskStorage
=============================================================================
