---------------------------- MODULE MCLifecycle -----------------------------
(***************************************************************************)
(* Small instances of Lifecycle: pipes of one line, so that each of them   *)
(* fills while the other end is busy.  In the run lifecycle_signal Exits   *)
(* is empty: only the kill of a signal ends the server.                    *)
(***************************************************************************)
EXTENDS Lifecycle

AllModes == {"stdio", "http", "bridge"}
=============================================================================
