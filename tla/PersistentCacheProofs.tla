----------------------- MODULE PersistentCacheProofs -----------------------
(***************************************************************************)
(* Theorems about PersistentCache, for every set of events and every       *)
(* number of crashes and errors.                                           *)
(***************************************************************************)
EXTENDS PersistentCache, SequenceTheorems, TLAPS

\* In the middle of commit(), and without an object, no file is open.
FilesClosed == step # "idle" => ~reading /\ ~writing /\ rpos = 0

\* The inductive invariant.
Inv == TypeOK /\ FilesInPlace /\ FilesClosed

\* The beginning of a sequence is a sequence.
LEMMA Prefix ==
  ASSUME NEW s \in Seq(Event), NEW k \in 0 .. Len(s)
  PROVE  SubSeq(s, 1, k) \in Seq(Event)
<1>1. Len(s) \in Nat
  OBVIOUS
<1>2. k \in Nat /\ 1 <= k + 1
  BY <1>1
<1> QED BY <1>1, <1>2, SubSeqProperties

\* The content of a file is a sequence of events.
LEMMA ContentType ==
  ASSUME NEW f \in File
  PROVE  Content(f) \in Seq(Event) /\ Content(f) # NoFile
<1>1. <<>> \in Seq(Event)
  BY EmptySeq
<1> QED BY <1>1, PersistentCacheAssumption DEF Content, File

\* The start of a file is a position in it, whether it exists or not.
LEMMA StartOffset ==
  ASSUME NEW f \in File
  PROVE  0 \in 0 .. Len(Content(f))
<1>1. Len(Content(f)) \in Nat
  BY ContentType, LenProperties
<1> QED BY <1>1

\* The inductive invariant holds at the start.
LEMMA InitInv == Init => Inv
<1> SUFFICES ASSUME Init PROVE Inv
  OBVIOUS
<1>1. TypeOK
  <2>1. NoFile \in File
    BY DEF File
  <2> QED BY <2>1, StartOffset DEF Init, TypeOK
<1>2. FilesInPlace /\ FilesClosed
  BY DEF Init, FilesInPlace, FilesClosed
<1> QED BY <1>1, <1>2 DEF Inv

\* Every step keeps it: one case per action.
LEMMA NextInv ==
  ASSUME Inv, [Next]_vars
  PROVE  Inv'
<1>i. TypeOK /\ FilesInPlace /\ FilesClosed
  BY DEF Inv
<1>a. NoFile \notin Seq(Event) /\ NoFile \in File /\ Seq(Event) \subseteq File
  BY PersistentCacheAssumption DEF File
<1>1. CASE Open
  <2>1. cacheFile' \in Seq(Event)
    <3>1. cacheFile # NoFile => cacheFile \in Seq(Event)
      BY <1>i DEF TypeOK, File
    <3>2. Content(oldFile) \in Seq(Event)
      BY <1>i, ContentType DEF TypeOK
    <3> QED BY <1>1, <3>1, <3>2 DEF Open, OpenedCache
  <2>2. oldFile' \in File /\ newFile' \in File
    BY <1>1, <1>a, <1>i DEF Open, TypeOK
  <2>3. reading' = TRUE /\ rpos' = 0 /\ step' = "idle"
        /\ UNCHANGED <<newFile, writing, crashes, errors>>
    BY <1>1 DEF Open
  <2>4. TypeOK'
    <3>1. rpos' \in 0 .. Len(Content(cacheFile'))
      BY <1>a, <2>1, <2>3, StartOffset
    <3> QED BY <1>a, <1>i, <2>1, <2>2, <2>3, <3>1 DEF TypeOK
  <2>5. (FilesInPlace /\ FilesClosed)'
    BY <1>a, <1>i, <2>1, <2>3 DEF FilesInPlace, FilesClosed
  <2> QED BY <2>4, <2>5 DEF Inv
<1>2. CASE Get
  <2>1. step = "idle" /\ reading /\ rpos < Len(Content(cacheFile))
        /\ rpos' = rpos + 1
        /\ UNCHANGED <<cacheFile, newFile, oldFile, reading, writing, step, crashes, errors>>
    BY <1>2 DEF Get, files
  <2>2. cacheFile # NoFile /\ Content(cacheFile) = cacheFile /\ cacheFile \in Seq(Event)
    BY <1>i, <2>1 DEF FilesInPlace, Content, TypeOK, File
  <2>3. Len(cacheFile) \in Nat
    BY <2>2, LenProperties
  <2>4. rpos' \in 0 .. Len(Content(cacheFile))
    BY <1>i, <2>1, <2>2, <2>3 DEF TypeOK
  <2>5. TypeOK'
    BY <1>i, <2>1, <2>4 DEF TypeOK
  <2>6. (FilesInPlace /\ FilesClosed)'
    BY <1>i, <2>1 DEF FilesInPlace, FilesClosed
  <2> QED BY <2>5, <2>6 DEF Inv
<1>3. CASE Transaction
  <2>1. newFile' \in Seq(Event)
    BY <1>3, <1>i, ContentType DEF Transaction, TypeOK
  <2>2. writing' = TRUE /\ step = "idle"
        /\ UNCHANGED <<cacheFile, oldFile, reading, rpos, step, crashes, errors>>
    BY <1>3 DEF Transaction
  <2>3. TypeOK'
    BY <1>a, <1>i, <2>1, <2>2 DEF TypeOK
  <2>4. (FilesInPlace /\ FilesClosed)'
    BY <1>a, <1>i, <2>1, <2>2 DEF FilesInPlace, FilesClosed
  <2> QED BY <2>3, <2>4 DEF Inv
<1>4. ASSUME NEW e \in Event, Add(e) PROVE Inv'
  <2>1. newFile \in Seq(Event)
    BY <1>4, <1>i DEF Add, TypeOK, FilesInPlace, File
  <2>2. newFile' \in Seq(Event)
    BY <1>4, <2>1, AppendProperties DEF Add
  <2>3. UNCHANGED <<cacheFile, oldFile, reading, writing, rpos, step, crashes, errors>>
    BY <1>4 DEF Add, object
  <2>4. TypeOK'
    BY <1>a, <1>i, <2>2, <2>3 DEF TypeOK
  <2>5. (FilesInPlace /\ FilesClosed)'
    BY <1>a, <1>i, <2>2, <2>3 DEF FilesInPlace, FilesClosed
  <2> QED BY <2>4, <2>5 DEF Inv
<1>5. CASE CommitClose
  <2>1. writing /\ writing' = FALSE /\ reading' = FALSE /\ rpos' = 0 /\ step' = "closed"
        /\ UNCHANGED <<cacheFile, newFile, oldFile, crashes, errors>>
    BY <1>5 DEF CommitClose, files
  <2>2. TypeOK'
    <3>1. rpos' \in 0 .. Len(Content(cacheFile'))
      BY <1>i, <2>1, StartOffset DEF TypeOK
    <3> QED BY <1>i, <2>1, <3>1 DEF TypeOK
  <2>3. (FilesInPlace /\ FilesClosed)'
    BY <1>i, <2>1 DEF FilesInPlace, FilesClosed
  <2> QED BY <2>2, <2>3 DEF Inv
<1>6. CASE CommitMove
  <2>1. step = "closed" /\ UNCHANGED <<newFile, reading, writing, rpos, crashes, errors>>
        /\ \/ step' = "idle" /\ UNCHANGED <<cacheFile, oldFile>>
           \/ /\ cacheFile # NoFile /\ oldFile' = cacheFile /\ cacheFile' = NoFile
              /\ step' = "moved"
    BY <1>6 DEF CommitMove, files
  <2>2. TypeOK'
    <3>1. cacheFile' \in File /\ oldFile' \in File /\ rpos = 0
      BY <1>a, <1>i, <2>1 DEF TypeOK, FilesClosed
    <3>2. rpos' \in 0 .. Len(Content(cacheFile'))
      BY <2>1, <3>1, StartOffset
    <3> QED BY <1>i, <2>1, <3>1, <3>2 DEF TypeOK
  <2>3. (FilesInPlace /\ FilesClosed)'
    BY <1>i, <2>1 DEF FilesInPlace, FilesClosed
  <2> QED BY <2>2, <2>3 DEF Inv
<1>7. CASE CommitReplace
  <2>1. /\ step = "moved" /\ step' = "replaced" /\ cacheFile' = newFile /\ newFile' = NoFile
        /\ UNCHANGED <<oldFile, reading, writing, rpos, crashes, errors>>
    BY <1>7 DEF CommitReplace
  <2>2. TypeOK'
    <3>1. cacheFile' \in File /\ newFile' \in File /\ rpos = 0
      BY <1>a, <1>i, <2>1 DEF TypeOK, FilesClosed
    <3>2. rpos' \in 0 .. Len(Content(cacheFile'))
      BY <2>1, <3>1, StartOffset
    <3> QED BY <1>i, <2>1, <3>1, <3>2 DEF TypeOK
  <2>3. (FilesInPlace /\ FilesClosed)'
    BY <1>i, <2>1 DEF FilesInPlace, FilesClosed
  <2> QED BY <2>2, <2>3 DEF Inv
<1>8. CASE CommitUnlink
  <2>1. /\ step = "replaced" /\ step' = "idle"
        /\ oldFile' = NoFile \/ oldFile' = oldFile
        /\ errors' = errors \/ errors' = errors + 1
        /\ UNCHANGED <<cacheFile, newFile, reading, writing, rpos, crashes>>
    BY <1>8 DEF CommitUnlink
  <2>2. TypeOK'
    BY <1>a, <1>i, <2>1 DEF TypeOK
  <2>3. (FilesInPlace /\ FilesClosed)'
    BY <1>i, <2>1 DEF FilesInPlace, FilesClosed
  <2> QED BY <2>2, <2>3 DEF Inv
<1>9. CASE CommitFails
  <2>1. /\ step \in {"closed", "moved"} /\ step' = "idle" /\ errors' = errors + 1
        /\ UNCHANGED <<cacheFile, newFile, oldFile, reading, writing, rpos, crashes>>
    BY <1>9 DEF CommitFails, files
  <2>2. TypeOK'
    BY <1>i, <2>1 DEF TypeOK
  <2>3. (FilesInPlace /\ FilesClosed)'
    BY <1>i, <2>1 DEF FilesInPlace, FilesClosed
  <2> QED BY <2>2, <2>3 DEF Inv
<1>10. CASE Close \/ Crash
  <2>1. newFile' \in File
    <3>1. CASE Crash /\ writing
      <4>1. newFile \in Seq(Event)
        BY <1>i, <3>1 DEF FilesInPlace, TypeOK, File
      <4> QED BY <3>1, <4>1, <1>a, Prefix DEF Crash
    <3>2. CASE ~(Crash /\ writing)
      BY <1>10, <1>i, <3>2 DEF Close, Crash, TypeOK, files
    <3> QED BY <3>1, <3>2
  <2>2. /\ reading' = FALSE /\ writing' = FALSE /\ rpos' = 0 /\ step' = "none"
        /\ UNCHANGED <<cacheFile, oldFile, errors>>
        /\ crashes' = crashes \/ crashes' = crashes + 1
    BY <1>10 DEF Close, Crash, files
  <2>3. TypeOK'
    <3>1. reading' \in BOOLEAN /\ writing' \in BOOLEAN
      BY <2>2
    <3>2. crashes' \in Nat /\ step' \in {"idle", "closed", "moved", "replaced", "none"}
      BY <1>i, <2>2 DEF TypeOK
    <3>3. rpos' \in 0 .. Len(Content(cacheFile'))
      BY <1>i, <2>2, StartOffset DEF TypeOK
    <3> QED BY <1>i, <2>1, <2>2, <3>1, <3>2, <3>3 DEF TypeOK
  <2>4. FilesInPlace'
    BY <2>2 DEF FilesInPlace
  <2>5. FilesClosed'
    BY <2>2 DEF FilesClosed
  <2> QED BY <2>3, <2>4, <2>5 DEF Inv
<1>11. CASE UNCHANGED vars
  BY <1>11, <1>i DEF vars, files, object, Inv, TypeOK, FilesInPlace, FilesClosed
<1> QED BY <1>1, <1>2, <1>3, <1>4, <1>5, <1>6, <1>7, <1>8, <1>9, <1>10, <1>11 DEF Next

\* The inductive invariant always holds.
LEMMA Invariance == Spec => []Inv
  BY InitInv, NextInv, PTL DEF Spec

\* The files that the object works on exist, at every step of commit() and
\* after any number of crashes and failed calls.
THEOREM FilesInPlaceHolds == Spec => []FilesInPlace
<1>1. Inv => FilesInPlace
  BY DEF Inv
<1> QED BY <1>1, Invariance, PTL

-----------------------------------------------------------------------------
(* The implementation of the atomic cache *)

\* Every step of the class is a step of the atomic cache or leaves it alone:
\* commit() replaces the content with its second rename.
LEMMA StepRefines ==
  ASSUME Inv, Inv', [Next]_vars
  PROVE  [AC!Next]_<<OpenedCache, Content(newFile)>>
<1> DEFINE Same == OpenedCache' = OpenedCache /\ Content(newFile)' = Content(newFile)
<1>i. TypeOK /\ FilesInPlace /\ FilesClosed /\ TypeOK' /\ FilesInPlace'
  BY DEF Inv
<1>a. NoFile \notin Seq(Event)
  BY PersistentCacheAssumption
<1>1. ASSUME Open PROVE Same
  <2>1. cacheFile' = OpenedCache /\ newFile' = newFile /\ reading' = TRUE
    BY <1>1 DEF Open
  <2>2. cacheFile' # NoFile
    BY <1>i, <2>1 DEF FilesInPlace
  <2>3. OpenedCache' = cacheFile'
    BY <2>2 DEF OpenedCache
  <2> QED BY <2>1, <2>3 DEF Content
<1>2. ASSUME Get \/ CommitClose \/ CommitFails \/ Close PROVE Same
  BY <1>2 DEF Get, CommitClose, CommitFails, Close, files, OpenedCache, Content
<1>3. ASSUME Transaction PROVE Same
  <2>1. newFile' = Content(newFile) /\ cacheFile' = cacheFile /\ oldFile' = oldFile
    BY <1>3 DEF Transaction
  <2>2. Content(newFile) # NoFile
    BY <1>i, ContentType DEF TypeOK
  <2> QED BY <2>1, <2>2 DEF OpenedCache, Content
<1>4. ASSUME NEW e \in Event, Add(e) PROVE AC!Stage(e)
  <2>1. newFile # NoFile /\ newFile' # NoFile /\ newFile' = Append(newFile, e)
        /\ cacheFile' = cacheFile /\ oldFile' = oldFile
    BY <1>4, <1>i DEF Add, object, FilesInPlace
  <2> QED BY <2>1 DEF AC!Stage, OpenedCache, Content
<1>5. ASSUME CommitMove PROVE Same
  <2>1. CASE cacheFile = NoFile
    BY <1>5, <2>1 DEF CommitMove, files, OpenedCache, Content
  <2>2. CASE cacheFile # NoFile
    BY <1>5, <2>2 DEF CommitMove, OpenedCache, Content
  <2> QED BY <2>1, <2>2
<1>6. ASSUME CommitReplace PROVE AC!Commit
  <2>1. newFile # NoFile /\ cacheFile' = newFile /\ newFile' = NoFile
    BY <1>6, <1>i DEF CommitReplace, FilesInPlace
  <2> QED BY <2>1 DEF AC!Commit, OpenedCache, Content
<1>7. ASSUME CommitUnlink PROVE Same
  <2>1. cacheFile # NoFile /\ cacheFile' = cacheFile /\ newFile' = newFile
    BY <1>7, <1>i DEF CommitUnlink, FilesInPlace
  <2> QED BY <2>1 DEF OpenedCache, Content
<1>8. ASSUME Crash PROVE AC!Truncate \/ Same
  <2>1. cacheFile' = cacheFile /\ oldFile' = oldFile
    BY <1>8 DEF Crash
  <2>2. OpenedCache' = OpenedCache
    BY <2>1 DEF OpenedCache, Content
  <2>3. CASE writing
    <3>1. newFile \in Seq(Event)
      BY <1>i, <2>3 DEF FilesInPlace, TypeOK, File
    <3>2. PICK k \in 0 .. Len(newFile) : newFile' = SubSeq(newFile, 1, k)
      BY <1>8, <2>3 DEF Crash
    <3>3. newFile' \in Seq(Event)
      BY <3>1, <3>2, Prefix
    <3>4. newFile # NoFile /\ newFile' # NoFile
      BY <1>a, <3>1, <3>3
    <3>5. Content(newFile) = newFile /\ Content(newFile)' = newFile'
      BY <3>4 DEF Content
    <3> QED BY <2>2, <3>2, <3>5 DEF AC!Truncate
  <2>4. CASE ~writing
    BY <1>8, <2>2, <2>4 DEF Crash, Content
  <2> QED BY <2>3, <2>4
<1>9. ASSUME UNCHANGED vars PROVE Same
  BY <1>9 DEF vars, files, OpenedCache, Content
<1> QED
  BY <1>1, <1>2, <1>3, <1>4, <1>5, <1>6, <1>7, <1>8, <1>9 DEF Next, AC!Next

\* persistent_cache implements the atomic cache: at every instant at which the
\* process may die, the next _open() finds the whole old content or the whole
\* new one.
THEOREM ImplementsAtomicCache == Spec => AtomicReplacement
<1>1. Init => AC!Init
  BY DEF Init, AC!Init, OpenedCache, Content
<1>2. Inv /\ Inv' /\ [Next]_vars => [AC!Next]_<<OpenedCache, Content(newFile)>>
  BY StepRefines
<1> QED BY <1>1, <1>2, Invariance, PTL DEF Spec, AtomicReplacement, AC!Spec
=============================================================================
