----------------------------- MODULE QueueFile -----------------------------
(***************************************************************************)
(* The retention file of a muxer as the muxer sees it: persistent_file     *)
(* over the splitter (broker/core/src/persistent_file.cc, file/splitter.cc)*)
(*                                                                         *)
(* On disk the file is a succession of parts; a part is erased when the    *)
(* reader goes past its end, never before, and the read offset is not      *)
(* stored anywhere.  So what is on disk is the unread events preceded by   *)
(* the events of the first remaining part that were already read, and      *)
(* these are read a second time if the file is closed and opened again.    *)
(***************************************************************************)
EXTENDS Naturals, Sequences

VARIABLES fileOpen,   \* is there a persistent_file object (_file non-null)?
          disk,       \* the events in the remaining parts, oldest first
          rd          \* how many of them were read since the file was opened

fileVars == <<fileOpen, disk, rd>>

FileTypeOK(Event) ==
  /\ fileOpen \in BOOLEAN
  /\ disk \in Seq(Event)
  /\ rd \in 0 .. Len(disk)
  /\ ~fileOpen => rd = 0

FileInit == fileOpen = FALSE /\ disk = <<>> /\ rd = 0

Unread == SubSeq(disk, rd + 1, Len(disk))

\* How many events a reader that wants n of them gets, and which ones.
TakenCount(n) ==
  IF ~fileOpen THEN 0 ELSE IF Len(disk) - rd < n THEN Len(disk) - rd ELSE n

Taken(n) == SubSeq(disk, rd + 1, rd + TakenCount(n))

\* The parts that reading n events may erase.  The reader is in the first
\* part, so a part boundary it meets is at the events it has read so far.
Erasable(n) == {0} \cup (rd .. (rd + n - 1))

\* Mutant: going on with the next part, the reader is back at its start.
FileTakeRereads(n) ==
  IF ~fileOpen THEN UNCHANGED fileVars
  ELSE IF Len(disk) - rd < n
       THEN fileOpen' = FALSE /\ disk' = <<>> /\ rd' = 0
       ELSE /\ \E d \in Erasable(n) :
                 /\ disk' = SubSeq(disk, d + 1, Len(disk))
                 /\ rd' = IF d = 0 THEN rd + n ELSE 0
            /\ UNCHANGED fileOpen

(***************************************************************************)
(* n successive read() calls.  Meeting the end of the last part erases it  *)
(* and raises the shutdown exception, upon which the muxer drops _file.    *)
(***************************************************************************)
FileTake(n) ==
  IF ~fileOpen THEN UNCHANGED fileVars
  ELSE IF Len(disk) - rd < n
       THEN fileOpen' = FALSE /\ disk' = <<>> /\ rd' = 0
       ELSE /\ \E d \in Erasable(n) :
                 /\ disk' = SubSeq(disk, d + 1, Len(disk))
                 /\ rd' = rd + n - d
            /\ UNCHANGED fileOpen

\* Writing appends to the last part; a file that was closed is opened first,
\* to be read from the start of its first part.
FileWrite(e) ==
  /\ fileOpen' = TRUE
  /\ disk' = Append(disk, e)
  /\ UNCHANGED rd

\* Mutant: closing the file erases its parts.
FileCloseErases == fileOpen' = FALSE /\ rd' = 0 /\ disk' = <<>>

\* _file.reset(): the parts stay, the read offset is forgotten.
FileClose == fileOpen' = FALSE /\ rd' = 0 /\ UNCHANGED disk

\* The process dies: what stdio had not flushed is the tail of what was
\* written and not yet read.
FileCrash ==
  /\ fileOpen' = FALSE /\ rd' = 0
  /\ \E k \in rd .. Len(disk) : disk' = SubSeq(disk, 1, k)
=============================================================================
