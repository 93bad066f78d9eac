----------------------------- MODULE MCSandbox -----------------------------
(***************************************************************************)
(* Small instances of SandboxSession.                                      *)
(***************************************************************************)
EXTENDS SandboxSession
=============================================================================
