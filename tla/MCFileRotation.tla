--------------------------- MODULE MCFileRotation ---------------------------
(***************************************************************************)
(* A small instance of FileRotation.                                       *)
(***************************************************************************)
EXTENDS FileRotation

MCLimits == 1 .. MaxFiles
=============================================================================
