------------------------------- MODULE MCShell -------------------------------
(***************************************************************************)
(* What runs in the process of the shell: the login dialogue, the main     *)
(* loop with its monitor thread, and the file systems that are libraries,  *)
(* tmpfs and /dev.  They share no state (the dialogue is over before the   *)
(* main loop starts, and of what it read nothing is used there), so a      *)
(* behaviour of all of them is one of each; here each is explored while    *)
(* the others rest in their initial states.                                *)
(***************************************************************************)
EXTENDS Console, Login, TmpfsFile, TmpfsDir, Devfs

Entry(ok, u, p) == [usable |-> ok, user |-> u, pass |-> p]
Builtin         == Entry(TRUE, <<"a">>, <<"b">>)

(* no disk, an empty file, one without a usable line, one with a user who  *)
(* has another password, and two with a user twice                         *)
ShadowFiles ==
  LET ab  == Entry(TRUE, <<"a">>, <<"b">>)
      aa  == Entry(TRUE, <<"a">>, <<"a">>)
      ba  == Entry(TRUE, <<"b">>, <<"a", "b">>)
      bad == Entry(FALSE, <<"a">>, <<"a">>)
  IN  {NoFile} \cup
      {[opens |-> TRUE, lines |-> l] :
         l \in {<<>>, <<bad>>, <<ba>>, <<aa>>, <<aa, ab>>, <<bad, ab, aa>>}}

ShellInit == ConsoleInit /\ LoginInit /\ TmpfsFileInit /\ TmpfsDirInit /\ DevInit

ShellNext ==
  \/ /\ LoginInit /\ TmpfsFileInit /\ TmpfsDirInit /\ DevInit
     /\ ConsoleNext /\ UNCHANGED <<loginVars, tmpfileVars, tmpdirVars, devVars>>
  \/ /\ ConsoleInit /\ TmpfsFileInit /\ TmpfsDirInit /\ DevInit
     /\ LoginNext /\ UNCHANGED <<consoleVars, tmpfileVars, tmpdirVars, devVars>>
  \/ /\ ConsoleInit /\ LoginInit /\ TmpfsDirInit /\ DevInit
     /\ TmpfsFileNext /\ UNCHANGED <<consoleVars, loginVars, tmpdirVars, devVars>>
  \/ /\ ConsoleInit /\ LoginInit /\ TmpfsFileInit /\ DevInit
     /\ TmpfsDirNext /\ UNCHANGED <<consoleVars, loginVars, tmpfileVars, devVars>>
  \/ /\ ConsoleInit /\ LoginInit /\ TmpfsFileInit /\ TmpfsDirInit
     /\ DevNext /\ UNCHANGED <<consoleVars, loginVars, tmpfileVars, tmpdirVars>>

ShellSpec ==
  /\ ShellInit
  /\ [][ShellNext]_<<consoleVars, loginVars, tmpfileVars, tmpdirVars, devVars>>
  /\ ConsoleFairness

=============================================================================
