---------------------------- MODULE DurableStore ----------------------------
(***************************************************************************)
(* What the session store promises whoever saves in it.  Contents are told *)
(* apart by their version: every change makes the next one.  The file      *)
(* follows the memory without ever going back, a restart continues from    *)
(* the file, and what was promised to be on disk is never lost.            *)
(***************************************************************************)
EXTENDS Naturals

VARIABLES
  version,   \* contents in memory
  file,      \* contents of the file
  promised   \* newest contents a caller was told are in the file

durableVars == <<version, file, promised>>

DurableInit == version = 0 /\ file = 0 /\ promised = 0

Change == version' = version + 1 /\ UNCHANGED <<file, promised>>

\* The file catches up with some state the memory has had since.
Persist ==
  /\ \E v \in (file + 1)..version : file' = v
  /\ UNCHANGED <<version, promised>>

\* A clear or a flush returns without an error.
Promise == file = version /\ promised' = version /\ UNCHANGED <<version, file>>

\* The process ends without notice and starts again.
Restart == version' = file /\ UNCHANGED <<file, promised>>

DurableNext == Change \/ Persist \/ Promise \/ Restart

DurableSpec == DurableInit /\ [][DurableNext]_durableVars
=============================================================================
