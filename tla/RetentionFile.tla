--------------------------- MODULE RetentionFile ---------------------------
(***************************************************************************)
(* What a retention file promises to its owner: the state of QueueFile,    *)
(* changed one step at a time.  FileTake(n) of QueueFile is n times        *)
(* ReadOne, with an Erase before each of them or none; when the unread     *)
(* events run out it is an Erase of everything followed by FileClose.      *)
(***************************************************************************)
EXTENDS QueueFile

CONSTANT Chunk

Open == ~fileOpen /\ fileOpen' = TRUE /\ UNCHANGED <<disk, rd>>

ReadOne ==
  /\ fileOpen /\ rd < Len(disk)
  /\ rd' = rd + 1
  /\ UNCHANGED <<fileOpen, disk>>

\* Going past the end of the first part: what was read of the file, no more
\* and no less, is not on disk any longer.
Erase ==
  /\ fileOpen
  /\ disk' = Unread /\ rd' = 0
  /\ UNCHANGED fileOpen

FileNext ==
  \/ Open \/ ReadOne \/ Erase \/ FileClose \/ FileCrash
  \/ \E e \in Chunk : fileOpen /\ FileWrite(e)

FileSpec == FileInit /\ [][FileNext]_fileVars
=============================================================================
