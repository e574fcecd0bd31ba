------------------------------ MODULE Splitter ------------------------------
(***************************************************************************)
(* file::splitter (broker/core/src/file/splitter.cc): a retention file cut *)
(* into numbered parts, appended to by a writer and read, then erased, by  *)
(* one reader; file::stream, whose write() calls the splitter until all    *)
(* was accepted; and file::disk_accessor, the process-wide account of the  *)
(* bytes that the queue files use, which refuses writes beyond a limit.    *)
(*                                                                         *)
(* The splitter is written for a reader and a writer running at the same   *)
(* time (_write_m, the atomic _wid); the muxer that owns it serializes     *)
(* them with its own mutex.  Serialized says which of the two is modelled. *)
(* A file is an inode: an erased part that is still open can be read and   *)
(* written by those who have it open.  Sizes are in units of the 8 bytes   *)
(* of a part's header.                                                     *)
(***************************************************************************)
EXTENDS Integers, SequencesExt

CONSTANTS Queue,        \* the queue files of the process
          MaxWrites,    \* how many chunks are written to each (a bound)
          Size,         \* the size of each chunk
          MaxFileSize,  \* _max_file_size
          Limits,       \* the values tried for _limit_size, 0 being unlimited
          Word,         \* size_t is computed modulo Word
          Serialized,   \* does a mutex of the owner cover read() and write()?
          MaxInodes,    \* bound on the files that exist at the same time
          MaxRestarts,  \* bound on the number of destructions per queue
          MaxCrashes    \* bound on the number of crashes

Chunk == 1 .. MaxWrites
Inode == 1 .. MaxInodes
Header == 1

ASSUME SplitterAssumption ==
  /\ MaxWrites \in Nat /\ Size \in [Chunk -> Nat \ {0}]
  /\ MaxFileSize \in Nat /\ Limits \subseteq Nat /\ Word \in Nat \ {0}
  /\ Serialized \in BOOLEAN /\ MaxInodes \in Nat
  /\ MaxRestarts \in Nat /\ MaxCrashes \in Nat

VARIABLES node,     \* the files: is the header written, and the chunks
          dir,      \* per queue, the parts that have a name: part -> inode
          limit, current,     \* the disk accessor
          alive,    \* per queue, is there a splitter object?
          rid, wid, \* _rid, _wid
          wf, rf,   \* _wfile, _rfile: an inode, 0 when null
          shared,   \* are _rfile and _wfile one FILE object?
          roff,     \* _roffset: how many chunks of the part were read
          rpc,      \* where a read() is
          wr,       \* the chunk that stream::write() is writing, or 0
          written, seen, lost,  \* history: chunks written, read, lost in a crash
          restarts, crashes

diskVars == <<node, dir, limit, current>>
readVars == <<rid, rf, shared, roff, rpc>>
vars == <<diskVars, alive, readVars, wid, wf, wr, written, seen, lost,
          restarts, crashes>>

NoFile == [hdr |-> FALSE, data |-> <<>>]

FileSize(f) == (IF f.hdr THEN Header ELSE 0)
               + SumFunction([i \in DOMAIN f.data |-> Size[f.data[i]]])

\* The bytes of the named files of a queue.
DirSize(q) == SumFunction([p \in DOMAIN dir[q] |-> FileSize(node[dir[q][p]])])

TypeOK ==
  /\ node \in [Inode -> [hdr : BOOLEAN, data : Seq(Chunk)]]
  /\ \A q \in Queue : DOMAIN dir[q] \subseteq Nat /\ \A p \in DOMAIN dir[q] : dir[q][p] \in Inode
  /\ limit \in Limits /\ current \in 0 .. Word - 1
  /\ alive \in [Queue -> BOOLEAN]
  /\ rid \in [Queue -> Nat] /\ wid \in [Queue -> Nat]
  /\ \A q \in Queue : rid[q] <= wid[q]
  /\ wf \in [Queue -> Inode \cup {0}] /\ rf \in [Queue -> Inode \cup {0}]
  /\ shared \in [Queue -> BOOLEAN] /\ roff \in [Queue -> Nat]
  /\ rpc \in [Queue -> {"idle", "open", "fopen", "check", "locked", "unlocked"}]
  /\ wr \in [Queue -> Chunk \cup {0}] /\ written \in [Queue -> 0 .. MaxWrites]
  /\ seen \in [Queue -> SUBSET Chunk] /\ lost \in [Queue -> SUBSET Chunk]
  /\ restarts \in [Queue -> Nat] /\ crashes \in Nat

EmptyDir == [p \in {} |-> 0]

Init ==
  /\ node = [i \in Inode |-> NoFile] /\ dir = [q \in Queue |-> EmptyDir]
  /\ limit \in Limits /\ current = 0
  /\ alive = [q \in Queue |-> FALSE]
  /\ rid = [q \in Queue |-> 0] /\ wid = [q \in Queue |-> 0]
  /\ wf = [q \in Queue |-> 0] /\ rf = [q \in Queue |-> 0]
  /\ shared = [q \in Queue |-> FALSE] /\ roff = [q \in Queue |-> 0]
  /\ rpc = [q \in Queue |-> "idle"] /\ wr = [q \in Queue |-> 0]
  /\ written = [q \in Queue |-> 0] /\ seen = [q \in Queue |-> {}]
  /\ lost = [q \in Queue |-> {}]
  /\ restarts = [q \in Queue |-> 0] /\ crashes = 0

Named(d) == UNION {{d[q][p] : p \in DOMAIN d[q]} : q \in Queue}

\* The inodes no name, in d either, and no open file refers to.
FreeInodes(d) == {i \in Inode : /\ i \notin Named(dir) \cup Range(d)
                                /\ \A q \in Queue : wf[q] # i /\ rf[q] # i}
FreeInode(d) == Min(FreeInodes(d))

\* The bound MaxInodes: an operation creates two parts at most.
InodesLeft == \E i, j \in FreeInodes(EmptyDir) : i # j

\* The files once those that nothing refers to are gone.
Live(n, d, w, r) ==
  [i \in Inode |-> IF i \in Named(d) \/ \E q \in Queue : w[q] = i \/ r[q] = i
                   THEN n[i] ELSE NoFile]

-----------------------------------------------------------------------------
(* disk_accessor *)

\* Mutant: the limit is compared with what is used before the write.
FitsUsed(cur, n) == limit = 0 \/ cur <= limit

\* fwrite(): is the write accepted?
Fits(cur, n) == limit = 0 \/ (cur + n) % Word <= limit

\* Mutant: the account is left as it is.
ReleasedNothing(n) == current

\* remove(): the account once a file of n bytes was removed.
Released(n) == (current - n) % Word

-----------------------------------------------------------------------------
(***************************************************************************)
(* write().  An attempt is a record of the writer's state: files, names,   *)
(* account, number of the part, file open for writing, and whether the     *)
(* attempt can go on.                                                      *)
(***************************************************************************)
\* _open_write_file(): the part is created if need be, its header written if
\* it has none; when the limit forbids that, the empty part stays.
OpenWriteFile(q, s) ==
  LET i == IF s.wid \in DOMAIN s.dir THEN s.dir[s.wid] ELSE FreeInode(s.dir)
      d == [p \in DOMAIN s.dir \cup {s.wid} |-> IF p = s.wid THEN i ELSE s.dir[p]]
      t == [s EXCEPT !.dir = d]
  IN CASE s.node[i].hdr -> [t EXCEPT !.wf = i]
       [] ~s.node[i].hdr /\ Fits(s.current, Header) ->
            [t EXCEPT !.wf = i, !.node[i].hdr = TRUE,
                      !.current = (@ + Header) % Word]
       [] OTHER -> [t EXCEPT !.wf = 0, !.ok = FALSE]

Attempt(q) ==
  [node |-> node, dir |-> dir[q], current |-> current, wid |-> wid[q],
   wf |-> wf[q], ok |-> TRUE]

\* (_woffset + size) > _max_file_size
NeedsPart(s, n) == FileSize(s.node[s.wf]) + n > MaxFileSize

\* Mutant: the next part is opened, its number is not the writer's.
NextPartUnnumbered(q, s) == [OpenWriteFile(q, [s EXCEPT !.wid = @ + 1]) EXCEPT !.wid = s.wid]

NextPart(q, s) == OpenWriteFile(q, [s EXCEPT !.wid = @ + 1])

Written(q, c) ==
  LET s0 == Attempt(q)
      s1 == IF s0.wf = 0 THEN OpenWriteFile(q, s0) ELSE s0
      s2 == IF s1.ok /\ NeedsPart(s1, Size[c]) THEN NextPart(q, s1) ELSE s1
  IN IF s2.ok /\ Fits(s2.current, Size[c])
     THEN [s2 EXCEPT !.node[s2.wf].data = Append(@, c),
                     !.current = (@ + Size[c]) % Word]
     ELSE [s2 EXCEPT !.ok = FALSE]

\* stream::write() is called.
WriteStart(q) ==
  /\ alive[q] /\ wr[q] = 0 /\ written[q] < MaxWrites
  /\ Serialized => rpc[q] = "idle"
  /\ wr' = [wr EXCEPT ![q] = written[q] + 1]
  /\ UNCHANGED <<diskVars, alive, readVars, wid, wf, written, seen, lost,
                 restarts, crashes>>

\* One turn of its loop, that is one splitter::write().
WriteTurn(q) ==
  /\ wr[q] # 0 /\ InodesLeft
  /\ \E s \in {Written(q, wr[q])} :
       /\ dir' = [dir EXCEPT ![q] = s.dir] /\ wf' = [wf EXCEPT ![q] = s.wf]
       /\ wid' = [wid EXCEPT ![q] = s.wid] /\ current' = s.current
       /\ node' = Live(s.node, dir', wf', rf)
       /\ shared' = [shared EXCEPT ![q] = @ /\ s.wf = wf[q]]
       /\ IF s.ok THEN /\ wr' = [wr EXCEPT ![q] = 0]
                       /\ written' = [written EXCEPT ![q] = wr[q]]
                  ELSE UNCHANGED <<wr, written>>
  /\ UNCHANGED <<limit, alive, rid, rf, roff, rpc, seen, lost, restarts, crashes>>

-----------------------------------------------------------------------------
(* read() *)

ReadCall(q) ==
  /\ alive[q] /\ rpc[q] = "idle"
  /\ Serialized => wr[q] = 0
  /\ rpc' = [rpc EXCEPT ![q] = IF rf[q] = 0 THEN "open" ELSE "check"]
  /\ UNCHANGED <<diskVars, alive, rid, rf, shared, roff, wid, wf, wr, written,
                 seen, lost, restarts, crashes>>

\* _open_read_file(), under _write_m: the file being written is shared.
OpenShared(q) ==
  /\ rpc[q] = "open"
  /\ IF rid[q] = wid[q] /\ wf[q] # 0
     THEN /\ rf' = [rf EXCEPT ![q] = wf[q]] /\ shared' = [shared EXCEPT ![q] = TRUE]
          /\ roff' = [roff EXCEPT ![q] = 0]
          /\ rpc' = [rpc EXCEPT ![q] = "check"]
     ELSE rpc' = [rpc EXCEPT ![q] = "fopen"] /\ UNCHANGED <<rf, shared, roff>>
  /\ UNCHANGED <<diskVars, alive, rid, wid, wf, wr, written, seen, lost,
                 restarts, crashes>>

\* The rest of it, without the mutex; read() returns 0 if there is no file.
OpenByName(q) ==
  /\ rpc[q] = "fopen"
  /\ IF rid[q] \in DOMAIN dir[q]
     THEN /\ rf' = [rf EXCEPT ![q] = dir[q][rid[q]]]
          /\ shared' = [shared EXCEPT ![q] = FALSE]
          /\ roff' = [roff EXCEPT ![q] = 0]
          /\ rpc' = [rpc EXCEPT ![q] = "check"]
     ELSE rpc' = [rpc EXCEPT ![q] = "idle"] /\ UNCHANGED <<rf, shared, roff>>
  /\ UNCHANGED <<diskVars, alive, rid, wid, wf, wr, written, seen, lost,
                 restarts, crashes>>

\* if (_rid == _wid) lck.lock()
ReadCheck(q) ==
  /\ rpc[q] = "check"
  /\ rpc' = [rpc EXCEPT ![q] = IF rid[q] = wid[q] THEN "locked" ELSE "unlocked"]
  /\ UNCHANGED <<diskVars, alive, rid, rf, shared, roff, wid, wf, wr, written,
                 seen, lost, restarts, crashes>>

\* The chunks that fread() can see: the writer's last ones may be in the
\* buffer of its FILE, which only a reader that shares it sees.
Visible(q) ==
  LET n == Len(node[rf[q]].data)
  IN IF wf[q] = rf[q] /\ ~shared[q] THEN roff[q] .. n ELSE {n}

ReadData(q) ==
  /\ rpc[q] \in {"locked", "unlocked"}
  /\ \E n \in Visible(q) : n > roff[q]
  /\ seen' = [seen EXCEPT ![q] = @ \cup {node[rf[q]].data[roff[q] + 1]}]
  /\ roff' = [roff EXCEPT ![q] = @ + 1]
  /\ rpc' = [rpc EXCEPT ![q] = "idle"]
  /\ UNCHANGED <<diskVars, alive, rid, rf, shared, wid, wf, wr, written, lost,
                 restarts, crashes>>

\* lck.owns_lock() && _wfile == _rfile
ClosesWrite(q) == rpc[q] = "locked" /\ shared[q] /\ wf[q] = rf[q]

Erased(q) == [p \in DOMAIN dir[q] \ {rid[q]} |-> dir[q][p]]

\* Mutant: the part after the last one is read too.
HasNextPartInclusive(q) == rid[q] <= wid[q]

\* _rid < _wid
HasNextPart(q) == rid[q] < wid[q]

\* The end of the part: the part is closed and erased, and reading goes on
\* with the next one.  Without a next one, the shutdown exception is thrown.
ReadEnd(q) ==
  /\ rpc[q] \in {"locked", "unlocked"}
  /\ roff[q] \in Visible(q)
  /\ rf' = [rf EXCEPT ![q] = 0]
  /\ wf' = IF ClosesWrite(q) THEN [wf EXCEPT ![q] = 0] ELSE wf
  /\ dir' = [dir EXCEPT ![q] = Erased(q)]
  /\ node' = Live(node, dir', wf', rf')
  /\ current' = IF rid[q] \in DOMAIN dir[q]
                THEN Released(FileSize(node[dir[q][rid[q]]])) ELSE current
  /\ shared' = [shared EXCEPT ![q] = FALSE] /\ roff' = [roff EXCEPT ![q] = 0]
  /\ IF HasNextPart(q)
     THEN rid' = [rid EXCEPT ![q] = @ + 1] /\ rpc' = [rpc EXCEPT ![q] = "open"]
     ELSE rpc' = [rpc EXCEPT ![q] = "idle"] /\ UNCHANGED rid
  /\ UNCHANGED <<limit, alive, wid, wr, written, seen, lost, restarts, crashes>>

-----------------------------------------------------------------------------
(* Construction, destruction, crash *)

\* Mutant: the parts are numbered from 0 again.
FirstPartZero(q) == 0

\* _rid, then _wid, from the names of the parts.
FirstPart(q) == IF DOMAIN dir[q] = {} THEN 0 ELSE Min(DOMAIN dir[q])
LastPart(q) == IF DOMAIN dir[q] = {} THEN 0 ELSE Max(DOMAIN dir[q])

\* The constructor: set_current_size() is given the size of the parts of
\* this queue, whatever the others use.
Create(q) ==
  /\ ~alive[q] /\ InodesLeft
  /\ LET s == OpenWriteFile(q, [Attempt(q) EXCEPT !.wid = LastPart(q),
                                                  !.current = DirSize(q) % Word])
     IN /\ node' = s.node /\ dir' = [dir EXCEPT ![q] = s.dir]
        /\ current' = s.current /\ wf' = [wf EXCEPT ![q] = s.wf]
        /\ wid' = [wid EXCEPT ![q] = s.wid]
  /\ alive' = [alive EXCEPT ![q] = TRUE]
  /\ rid' = [rid EXCEPT ![q] = FirstPart(q)]
  /\ UNCHANGED <<limit, rf, shared, roff, rpc, wr, written, seen, lost,
                 restarts, crashes>>

\* The destructor.  The read offset is forgotten.
Destroy(q) ==
  /\ alive[q] /\ rpc[q] = "idle" /\ wr[q] = 0
  /\ restarts[q] < MaxRestarts /\ restarts' = [restarts EXCEPT ![q] = @ + 1]
  /\ alive' = [alive EXCEPT ![q] = FALSE]
  /\ wf' = [wf EXCEPT ![q] = 0] /\ rf' = [rf EXCEPT ![q] = 0]
  /\ shared' = [shared EXCEPT ![q] = FALSE] /\ roff' = [roff EXCEPT ![q] = 0]
  /\ node' = Live(node, dir, wf', rf')
  /\ UNCHANGED <<dir, limit, current, rid, rpc, wid, wr, written, seen, lost,
                 crashes>>

\* The files a crash may leave of queue q: the end of the file being written
\* was not flushed, as far as nobody read it.
CrashLeft(q) ==
  LET f == node[wf[q]]
      read == IF rf[q] = wf[q] THEN roff[q] ELSE 0
  IN IF wf[q] = 0 THEN {NoFile}
     ELSE {[f EXCEPT !.data = SubSeq(@, 1, k)] : k \in read .. Len(f.data)}
          \cup (IF read = 0 THEN {NoFile} ELSE {})

ChunksOf(n, d) == UNION {Range(n[d[p]].data) : p \in DOMAIN d}

Crash ==
  /\ crashes < MaxCrashes /\ crashes' = crashes + 1
  /\ \E left \in [Queue -> UNION {CrashLeft(q) : q \in Queue}] :
       /\ \A q \in Queue : left[q] \in CrashLeft(q)
       /\ node' = Live([i \in Inode |->
                         IF \E q \in Queue : wf[q] = i
                         THEN left[CHOOSE q \in Queue : wf[q] = i] ELSE node[i]],
                       dir, [q \in Queue |-> 0], [q \in Queue |-> 0])
  /\ lost' = [q \in Queue |-> lost[q] \cup
                ((1 .. written[q]) \ (seen[q] \cup ChunksOf(node', dir[q])))]
  /\ current' = 0
  /\ alive' = [q \in Queue |-> FALSE]
  /\ wf' = [q \in Queue |-> 0] /\ rf' = [q \in Queue |-> 0]
  /\ shared' = [q \in Queue |-> FALSE] /\ roff' = [q \in Queue |-> 0]
  /\ rpc' = [q \in Queue |-> "idle"] /\ wr' = [q \in Queue |-> 0]
  /\ UNCHANGED <<dir, limit, rid, wid, written, seen, restarts>>

-----------------------------------------------------------------------------
Read(q) ==
  \/ ReadCall(q) \/ OpenShared(q) \/ OpenByName(q) \/ ReadCheck(q)
  \/ ReadData(q) \/ ReadEnd(q)

Next ==
  \/ \E q \in Queue : \/ WriteStart(q) \/ WriteTurn(q) \/ Read(q)
                      \/ Create(q) \/ Destroy(q)
  \/ Crash

Spec == Init /\ [][Next]_vars

(***************************************************************************)
(* Fairness: the loop of stream::write() goes on, the owner keeps reading  *)
(* as long as there is something to read, and a queue is opened again.     *)
(***************************************************************************)
LiveSpec ==
  /\ Spec
  /\ \A q \in Queue : /\ WF_vars(WriteTurn(q)) /\ SF_vars(Read(q))
                      /\ WF_vars(Create(q))

-----------------------------------------------------------------------------
(* Properties *)

\* The chunks of the named parts, oldest part first.
Disk(q) ==
  LET data(p) == IF p \in DOMAIN dir[q] THEN node[dir[q][p]].data ELSE <<>>
  IN FlattenSeq([i \in 1 .. LastPart(q) + 1 |-> data(i - 1)])

\* What a muxer relies on (module QueueFile): parts, names and open files
\* amount to one sequence of chunks, appended to, read in order, whose read
\* part alone is erased, and which a crash cuts at its end at most.
AnyQueue == CHOOSE q \in Queue : TRUE

File == INSTANCE RetentionFile
        WITH fileOpen <- alive[AnyQueue], disk <- Disk(AnyQueue),
             rd <- roff[AnyQueue]

ImplementsFile == File!FileSpec

\* Without a limit, every chunk accepted by write() is read in the end,
\* unless a crash took it: no part is skipped by the reader, erased under the
\* writer or left behind by a restart.
EveryChunkRead ==
  \A q \in Queue, c \in Chunk :
    (limit = 0 /\ c <= written[q]) ~> (c \in seen[q] \cup lost[q])

\* The bytes that the queue files of the process use.
Used == SumFunction([q \in Queue |-> DirSize(q)])

\* "If there are already files created by previous instances of cbd, we must
\* take them into account": once a splitter was constructed the account is
\* the size of the queue files.
Accounted == (\E q \in Queue : alive[q]) => current = Used % Word

\* The queue files never use more than the limit that fwrite() of the disk
\* accessor enforces, whatever was erased, closed or left by a crash before.
WithinLimit == limit # 0 => Used <= limit
=============================================================================
