-------------------------- MODULE PersistentCache --------------------------
(***************************************************************************)
(* persistent_cache (broker/core/src/persistent_cache.cc): a file of       *)
(* events that is replaced by a transaction.  The new events are written   *)
(* to FILE.new; commit() renames FILE to FILE.old, FILE.new to FILE, and   *)
(* removes FILE.old; opening the cache brings FILE.old back if FILE is     *)
(* missing.  The engine keeps the events published while it is stopped in  *)
(* such a cache, and BAM its state.                                        *)
(*                                                                         *)
(* Files are what the file system keeps: the process may die between any   *)
(* two calls, and then an object of the class is built again.              *)
(***************************************************************************)
EXTENDS Naturals, Sequences

CONSTANTS Event,        \* the events added
          NoFile,       \* a file that does not exist
          MaxLen,       \* bound on the length of a file
          MaxCrashes,   \* bound on the number of crashes
          MaxErrors     \* bound on the number of calls that fail

ASSUME PersistentCacheAssumption ==
  /\ NoFile \notin Seq(Event)
  /\ MaxLen \in Nat /\ MaxCrashes \in Nat /\ MaxErrors \in Nat

VARIABLES cacheFile, newFile, oldFile,  \* FILE, FILE.new and FILE.old
          reading, writing,             \* are _read_file and _write_file set?
          rpos,                         \* events read from _read_file
          step,                         \* progress of commit()
          crashes, errors

files == <<cacheFile, newFile, oldFile>>
object == <<reading, writing, rpos, step>>
vars == <<files, object, crashes, errors>>

File == Seq(Event) \cup {NoFile}

Content(f) == IF f = NoFile THEN <<>> ELSE f

TypeOK ==
  /\ cacheFile \in File /\ newFile \in File /\ oldFile \in File
  /\ reading \in BOOLEAN /\ writing \in BOOLEAN
  /\ rpos \in 0 .. Len(Content(cacheFile))
  /\ step \in {"idle", "closed", "moved", "replaced", "none"}
  /\ crashes \in Nat /\ errors \in Nat

\* No object, no file.
Init ==
  /\ cacheFile = NoFile /\ newFile = NoFile /\ oldFile = NoFile
  /\ reading = FALSE /\ writing = FALSE /\ rpos = 0 /\ step = "none"
  /\ crashes = 0 /\ errors = 0

\* Mutant: FILE.old is not brought back.
OpenedCacheOnly == IF cacheFile # NoFile THEN cacheFile ELSE <<>>

\* _open(): from the constructor, and from get() when _read_file was dropped.
\* Opening the file creates it.
OpenedCache == IF cacheFile # NoFile THEN cacheFile ELSE Content(oldFile)

Open ==
  /\ step \in {"none", "idle"} /\ ~reading
  /\ cacheFile' = OpenedCache
  /\ oldFile' = IF cacheFile = NoFile THEN NoFile ELSE oldFile
  /\ reading' = TRUE /\ rpos' = 0 /\ step' = "idle"
  /\ UNCHANGED <<newFile, writing, crashes, errors>>

\* get(): the next event, or none at the end of the file.
Get ==
  /\ step = "idle" /\ reading /\ rpos < Len(Content(cacheFile))
  /\ rpos' = rpos + 1
  /\ UNCHANGED <<files, reading, writing, step, crashes, errors>>

\* Mutant: the file is not opened yet.
TransactionLazy ==
  /\ step = "idle" /\ ~writing
  /\ writing' = TRUE
  /\ UNCHANGED <<files, reading, rpos, step, crashes, errors>>

\* transaction(): the file is opened in append mode, so that what an earlier
\* transaction left in it stays.
Transaction ==
  /\ step = "idle" /\ ~writing
  /\ newFile' = Content(newFile) /\ writing' = TRUE
  /\ UNCHANGED <<cacheFile, oldFile, reading, rpos, step, crashes, errors>>

Add(e) ==
  /\ step = "idle" /\ writing /\ Len(newFile) < MaxLen
  /\ newFile' = Append(newFile, e)
  /\ UNCHANGED <<cacheFile, oldFile, object, crashes, errors>>

\* commit(): both files are closed, ...
CommitClose ==
  /\ step = "idle" /\ writing
  /\ writing' = FALSE /\ reading' = FALSE /\ rpos' = 0 /\ step' = "closed"
  /\ UNCHANGED <<files, crashes, errors>>

\* ... FILE is renamed to FILE.old, unless it is missing (an exception), ...
CommitMove ==
  /\ step = "closed"
  /\ IF cacheFile = NoFile
     THEN step' = "idle" /\ UNCHANGED files
     ELSE /\ oldFile' = cacheFile /\ cacheFile' = NoFile /\ UNCHANGED newFile
          /\ step' = "moved"
  /\ UNCHANGED <<reading, writing, rpos, crashes, errors>>

\* ... FILE.new is renamed to FILE, ...
CommitReplace ==
  /\ step = "moved"
  /\ cacheFile' = newFile /\ newFile' = NoFile /\ step' = "replaced"
  /\ UNCHANGED <<oldFile, reading, writing, rpos, crashes, errors>>

\* ... and FILE.old is removed; a failure to do so is only logged.
CommitUnlink ==
  /\ step = "replaced"
  /\ \/ oldFile' = NoFile /\ UNCHANGED errors
     \/ errors < MaxErrors /\ errors' = errors + 1 /\ UNCHANGED oldFile
  /\ step' = "idle"
  /\ UNCHANGED <<cacheFile, newFile, reading, writing, rpos, crashes>>

\* A rename fails: commit() throws where it is.
CommitFails ==
  /\ step \in {"closed", "moved"} /\ errors < MaxErrors
  /\ errors' = errors + 1 /\ step' = "idle"
  /\ UNCHANGED <<files, reading, writing, rpos, crashes>>

\* The object is destroyed without commit().
Close ==
  /\ step = "idle"
  /\ reading' = FALSE /\ writing' = FALSE /\ rpos' = 0 /\ step' = "none"
  /\ UNCHANGED <<files, crashes, errors>>

\* The process dies; the end of a file that is being written may be lost.
Crash ==
  /\ step # "none" /\ crashes < MaxCrashes /\ crashes' = crashes + 1
  /\ IF writing THEN \E k \in 0 .. Len(newFile) : newFile' = SubSeq(newFile, 1, k)
                ELSE UNCHANGED newFile
  /\ reading' = FALSE /\ writing' = FALSE /\ rpos' = 0 /\ step' = "none"
  /\ UNCHANGED <<cacheFile, oldFile, errors>>

Next ==
  \/ Open \/ Get \/ Transaction \/ \E e \in Event : Add(e)
  \/ CommitClose \/ CommitMove \/ CommitReplace \/ CommitUnlink \/ CommitFails
  \/ Close \/ Crash

Spec == Init /\ [][Next]_vars

-----------------------------------------------------------------------------
(* Properties *)

\* At every point where the process may stop, the next _open() finds the old
\* content or the new one, complete: commit() replaces it in one step, the
\* second rename, and nothing else changes it.
AC == INSTANCE AtomicCache WITH content <- OpenedCache, staged <- Content(newFile)

AtomicReplacement == AC!Spec

\* While an object reads the cache the file exists, and while one writes to it
\* so does the new one; in the middle of commit() the content it replaces is
\* still there, and so is the one it brings.
FilesInPlace ==
  /\ reading => cacheFile # NoFile
  /\ writing => newFile # NoFile
  /\ step \in {"closed", "moved"} => newFile # NoFile
  /\ step = "moved" => cacheFile = NoFile /\ oldFile # NoFile
  /\ step = "replaced" => cacheFile # NoFile /\ oldFile # NoFile
=============================================================================
