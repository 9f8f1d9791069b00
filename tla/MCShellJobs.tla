----------------------------- MODULE MCShellJobs -----------------------------
(* Exit codes for the run of ShellJobs. *)
EXTENDS ShellJobs

CrashCodes == {0, -1}     \* success, and what reap_once gives a crash
=============================================================================
