--------------------------- MODULE SplitterProofs ---------------------------
(***************************************************************************)
(* What file::splitter keeps, for any number of queue files, chunks, parts *)
(* and restarts, any part size and any limit.                              *)
(*                                                                         *)
(* Types hold whether or not the reader and the writer of a queue run at   *)
(* the same time (TypeInv).  The rest is about an owner that serializes    *)
(* them, as the muxer does: Place says which file each of them has open    *)
(* and that a file has one name; from it follow that the parts, end to     *)
(* end, are the retention file of module RetentionFile (FileImplemented),  *)
(* and that the disk accessor's account is the size of the parts           *)
(* (AccountExact) and its limit is kept (LimitKept).                       *)
(***************************************************************************)
EXTENDS Splitter, SequenceFacts

-----------------------------------------------------------------------------
(* Types *)

FileRecord == [hdr : BOOLEAN, data : Seq(Chunk)]
Files == [Inode -> FileRecord]

\* A directory: finitely many numbered parts, each a file.
IsDir(d) == IsFiniteSet(DOMAIN d) /\ DOMAIN d \subseteq Nat /\ d \in [DOMAIN d -> Inode]

Opened == {"check", "locked", "unlocked"}

\* The type invariant, made inductive: names are functions of finite domain,
\* and read() that goes on to read has a file open.
TypeInv ==
  /\ TypeOK
  /\ dir = [q \in Queue |-> dir[q]] /\ \A q \in Queue : IsDir(dir[q])
  /\ \A q \in Queue : rpc[q] \in Opened => rf[q] # 0

-----------------------------------------------------------------------------
(* Sizes *)

\* The bytes of the parts that directory d names.
PartsSize(n, d) == SumFunction([p \in DOMAIN d |-> FileSize(n[d[p]])])

LEMMA FileSizeType ==
  ASSUME NEW f \in FileRecord
  PROVE  FileSize(f) \in Nat
<1> DEFINE D == DOMAIN f.data
           g == [i \in D |-> Size[f.data[i]]]
<1>1. D = 1 .. Len(f.data) /\ Len(f.data) \in Nat /\ f.data \in Seq(Chunk) /\ f.hdr \in BOOLEAN
  BY DEF FileRecord
<1>2. IsFiniteSet(D)
  BY <1>1, FS_Interval
<1>3. DOMAIN g = D /\ \A i \in D : g[i] \in Nat
  BY <1>1, SplitterAssumption
<1> HIDE DEF g, D
<1>4. SumFunctionOnSet(g, D) \in Nat
  <2>1. \A i \in D : g[i] <= g[i]
    BY <1>3
  <2> QED BY <1>2, <1>3, <2>1, SumBounds
<1>5. SumFunction(g) \in Nat
  BY <1>3, <1>4 DEF SumFunction
<1>6. FileSize(f) = (IF f.hdr THEN Header ELSE 0) + SumFunction(g)
  BY DEF FileSize, g, D
<1> QED BY <1>1, <1>5, <1>6 DEF Header

LEMMA PartsSizeType ==
  ASSUME NEW n \in Files, NEW d, IsDir(d)
  PROVE  PartsSize(n, d) \in Nat
<1> DEFINE g == [p \in DOMAIN d |-> FileSize(n[d[p]])]
<1>1. \A p \in DOMAIN d : n[d[p]] \in FileRecord
  BY DEF IsDir, Files
<1>2. DOMAIN g = DOMAIN d /\ \A p \in DOMAIN d : g[p] \in Nat /\ g[p] <= g[p]
  BY <1>1, FileSizeType
<1> HIDE DEF g
<1>3. SumFunctionOnSet(g, DOMAIN d) \in Nat
  BY <1>2, SumBounds DEF IsDir
<1> QED BY <1>2, <1>3 DEF PartsSize, SumFunction, g

-----------------------------------------------------------------------------
(* _open_write_file() *)

\* A state of the writer, as Attempt and the steps of write() build it.
Attempts(s) ==
  /\ s = [node |-> s.node, dir |-> s.dir, current |-> s.current, wid |-> s.wid,
          wf |-> s.wf, ok |-> s.ok]
  /\ s.node \in Files /\ IsDir(s.dir) /\ s.current \in 0 .. Word - 1
  /\ s.wid \in Nat /\ s.wf \in Inode \cup {0} /\ s.ok \in BOOLEAN

LEMMA FreeInodeFacts ==
  ASSUME NEW d, FreeInodes(d) # {}
  PROVE  FreeInode(d) \in FreeInodes(d) /\ FreeInode(d) \in Inode
<1>1. FreeInodes(d) \subseteq Nat /\ FreeInodes(d) \subseteq Inode
  BY DEF FreeInodes, Inode
<1> QED BY <1>1, MinFacts DEF FreeInode

LEMMA OpenFacts ==
  ASSUME NEW q, NEW s, Attempts(s), s.ok, s.wid \notin DOMAIN s.dir => FreeInodes(s.dir) # {},
         NEW t, t = OpenWriteFile(q, s), NEW i, i = t.dir[s.wid]
  PROVE  /\ Attempts(t) /\ t.wid = s.wid /\ i \in Inode
         /\ DOMAIN t.dir = DOMAIN s.dir \cup {s.wid}
         /\ \A p \in DOMAIN s.dir : t.dir[p] = s.dir[p]
         /\ s.wid \notin DOMAIN s.dir => i \in FreeInodes(s.dir)
         /\ t.ok => t.wf = i /\ t.node[i].hdr
         /\ ~t.ok => t.wf = 0 /\ ~t.node[i].hdr
         /\ \A j \in Inode : j # i => t.node[j] = s.node[j]
         /\ t.node[i].data = s.node[i].data
         /\ \/ t.node = s.node /\ t.current = s.current
            \/ /\ ~s.node[i].hdr /\ t.node[i].hdr /\ Fits(s.current, Header)
               /\ t.current = (s.current + Header) % Word
<1> DEFINE k == IF s.wid \in DOMAIN s.dir THEN s.dir[s.wid] ELSE FreeInode(s.dir)
           d == [p \in DOMAIN s.dir \cup {s.wid} |-> IF p = s.wid THEN k ELSE s.dir[p]]
           u == [s EXCEPT !.dir = d]
<1>1. k \in Inode /\ (s.wid \notin DOMAIN s.dir => k \in FreeInodes(s.dir))
  BY FreeInodeFacts DEF Attempts, IsDir
<1>2. /\ DOMAIN d = DOMAIN s.dir \cup {s.wid} /\ d[s.wid] = k
      /\ \A p \in DOMAIN s.dir : d[p] = s.dir[p]
  OBVIOUS
<1>3. IsDir(d)
  <2>1. IsFiniteSet(DOMAIN d)
    BY <1>2, FS_AddElement DEF Attempts, IsDir
  <2> QED BY <1>1, <2>1 DEF Attempts, IsDir
<1> HIDE DEF k, d
<1>4. s.node[k].hdr \in BOOLEAN /\ s.node[k] \in FileRecord
  BY <1>1 DEF Attempts, Files, FileRecord
<1>5. t = CASE s.node[k].hdr -> [u EXCEPT !.wf = k]
            [] ~s.node[k].hdr /\ Fits(s.current, Header) ->
                 [u EXCEPT !.wf = k, !.node[k].hdr = TRUE, !.current = (@ + Header) % Word]
            [] OTHER -> [u EXCEPT !.wf = 0, !.ok = FALSE]
  BY DEF OpenWriteFile, k, d
<1>6. u = [node |-> s.node, dir |-> d, current |-> s.current, wid |-> s.wid,
           wf |-> s.wf, ok |-> s.ok]
  <2>1. PICK n, e, c, w, f, o :
          s = [node |-> n, dir |-> e, current |-> c, wid |-> w, wf |-> f, ok |-> o]
    BY DEF Attempts
  <2> QED BY ONLY <2>1 DEF u
<1>7. CASE s.node[k].hdr
  <2>1. t = [node |-> s.node, dir |-> d, current |-> s.current, wid |-> s.wid,
             wf |-> k, ok |-> s.ok]
    BY <1>5, <1>6, <1>7
  <2> QED BY <1>1, <1>2, <1>3, <1>7, <2>1 DEF Attempts
<1>8. CASE ~s.node[k].hdr /\ Fits(s.current, Header)
  <2> DEFINE n == [s.node EXCEPT ![k].hdr = TRUE]
             c == (s.current + Header) % Word
  <2>1. t = [node |-> n, dir |-> d, current |-> c, wid |-> s.wid, wf |-> k, ok |-> s.ok]
    BY <1>5, <1>6, <1>8
  <2>2. c \in 0 .. Word - 1
    BY ModType, SplitterAssumption DEF Attempts, Header
  <2>3. n \in Files /\ n[k].hdr /\ n[k].data = s.node[k].data /\ \A j \in Inode : j # k => n[j] = s.node[j]
    BY <1>1, <1>4 DEF Files, FileRecord, Attempts
  <2> HIDE DEF n, c
  <2>4. /\ t.node = n /\ t.dir = d /\ t.current = c /\ t.wid = s.wid /\ t.wf = k /\ t.ok = s.ok
    BY <2>1
  <2>5. Attempts(t)
    BY <1>1, <1>3, <2>1, <2>2, <2>3, <2>4 DEF Attempts
  <2>6. i = k
    BY <1>2, <2>4
  <2>7. t.current = (s.current + Header) % Word
    BY <2>4 DEF c
  <2> QED BY <1>1, <1>2, <1>8, <2>3, <2>4, <2>5, <2>6, <2>7
<1>9. CASE ~s.node[k].hdr /\ ~Fits(s.current, Header)
  <2>1. t = [node |-> s.node, dir |-> d, current |-> s.current, wid |-> s.wid,
             wf |-> 0, ok |-> FALSE]
    BY <1>5, <1>6, <1>9
  <2> QED BY <1>1, <1>2, <1>3, <1>9, <2>1 DEF Attempts
<1> QED BY <1>7, <1>8, <1>9

\* The three stages of write(): a file to write to, another one if the chunk
\* does not fit in it, the chunk.
First(q) == IF Attempt(q).wf = 0 THEN OpenWriteFile(q, Attempt(q)) ELSE Attempt(q)
Numbered(s) == [s EXCEPT !.wid = @ + 1]
Second(q, c) ==
  IF First(q).ok /\ NeedsPart(First(q), Size[c])
  THEN OpenWriteFile(q, Numbered(First(q))) ELSE First(q)
Third(s, c) ==
  IF s.ok /\ Fits(s.current, Size[c])
  THEN [s EXCEPT !.node[s.wf].data = Append(@, c), !.current = (@ + Size[c]) % Word]
  ELSE [s EXCEPT !.ok = FALSE]

LEMMA WrittenStages ==
  ASSUME NEW q, NEW c
  PROVE  Written(q, c) = Third(Second(q, c), c)
  BY DEF Written, Third, Second, First, Numbered, NextPart

LEMMA NumberedFacts ==
  ASSUME NEW s, Attempts(s)
  PROVE  /\ Attempts(Numbered(s)) /\ Numbered(s).wid = s.wid + 1
         /\ Numbered(s).node = s.node /\ Numbered(s).dir = s.dir
         /\ Numbered(s).current = s.current /\ Numbered(s).wf = s.wf /\ Numbered(s).ok = s.ok
<1>1. PICK n, e, c, w, f, o :
        s = [node |-> n, dir |-> e, current |-> c, wid |-> w, wf |-> f, ok |-> o]
  BY DEF Attempts
<1>2. Numbered(s) = [node |-> n, dir |-> e, current |-> c, wid |-> w + 1, wf |-> f, ok |-> o]
  BY ONLY <1>1 DEF Numbered
<1> QED BY <1>1, <1>2 DEF Attempts

LEMMA ThirdFacts ==
  ASSUME NEW s, Attempts(s), s.ok => s.wf # 0, NEW c \in Chunk, NEW t, t = Third(s, c)
  PROVE  /\ Attempts(t) /\ t.dir = s.dir /\ t.wid = s.wid /\ t.wf = s.wf
         /\ t.ok => /\ s.ok /\ Fits(s.current, Size[c])
                    /\ t.current = (s.current + Size[c]) % Word
                    /\ t.node = [s.node EXCEPT ![s.wf].data = Append(@, c)]
         /\ ~t.ok => t.node = s.node /\ t.current = s.current
<1>1. PICK n, e, x, w, f, o :
        s = [node |-> n, dir |-> e, current |-> x, wid |-> w, wf |-> f, ok |-> o]
  BY DEF Attempts
<1>2. CASE s.ok /\ Fits(s.current, Size[c])
  <2> DEFINE m == [n EXCEPT ![f].data = Append(@, c)]
             y == (x + Size[c]) % Word
  <2>1. t = [node |-> m, dir |-> e, current |-> y, wid |-> w, wf |-> f, ok |-> o]
    BY <1>1, <1>2 DEF Third
  <2>2. Size[c] \in Nat
    BY SplitterAssumption
  <2>3. y \in 0 .. Word - 1
    BY <1>1, <2>2, ModType, SplitterAssumption DEF Attempts
  <2>4. n \in Files /\ f \in Inode
    BY <1>1, <1>2 DEF Attempts
  <2>5. Append(n[f].data, c) \in Seq(Chunk)
    BY <2>4 DEF Files, FileRecord
  <2>6. m \in Files
    BY <2>4, <2>5 DEF Files, FileRecord
  <2> HIDE DEF m, y
  <2>7. Attempts(t)
    BY <1>1, <2>1, <2>3, <2>6 DEF Attempts
  <2>8. /\ t.dir = s.dir /\ t.wid = s.wid /\ t.wf = s.wf /\ t.node = m /\ t.current = y
        /\ f = s.wf /\ n = s.node /\ x = s.current /\ t.ok = s.ok
    BY <1>1, <2>1
  <2> QED BY <1>2, <2>7, <2>8 DEF m, y
<1>3. CASE ~(s.ok /\ Fits(s.current, Size[c]))
  <2>1. t = [node |-> n, dir |-> e, current |-> x, wid |-> w, wf |-> f, ok |-> FALSE]
    BY <1>1, <1>3 DEF Third
  <2>2. /\ t.dir = s.dir /\ t.wid = s.wid /\ t.wf = s.wf /\ t.node = s.node
        /\ t.current = s.current /\ t.ok = FALSE
    BY <1>1, <2>1
  <2>3. /\ n \in Files /\ IsDir(e) /\ x \in 0 .. Word - 1
        /\ w \in Nat /\ f \in Inode \cup {0}
    BY <1>1 DEF Attempts
  <2>4. Attempts(t)
    BY ONLY <2>1, <2>3 DEF Attempts
  <2> QED BY <2>2, <2>4
<1> QED BY <1>2, <1>3

LEMMA FreeInodesLess ==
  ASSUME NEW q \in Queue, TypeInv, InodesLeft
  PROVE  /\ FreeInodes(dir[q]) # {}
         /\ \A d, i : Range(d) \subseteq Range(dir[q]) \cup {i} => FreeInodes(d) # {}
<1>1. PICK i, j \in FreeInodes(EmptyDir) : i # j
  BY DEF InodesLeft
<1>2. Range(dir[q]) \subseteq Named(dir)
  BY DEF Range, Named
<1>3. ASSUME NEW d, NEW k, Range(d) \subseteq Range(dir[q]) \cup {k} PROVE FreeInodes(d) # {}
  <2>1. \A x \in FreeInodes(EmptyDir) : x # k => x \in FreeInodes(d)
    BY <1>2, <1>3 DEF FreeInodes
  <2> QED BY <1>1, <2>1
<1>4. FreeInodes(dir[q]) # {}
  <2>1. Range(dir[q]) \subseteq Range(dir[q]) \cup {0}
    OBVIOUS
  <2> QED BY <1>3, <2>1
<1> QED BY <1>3, <1>4

LEMMA AttemptType ==
  ASSUME NEW q \in Queue, TypeInv
  PROVE  Attempts(Attempt(q)) /\ Attempt(q).ok
  BY DEF Attempts, Attempt, TypeInv, TypeOK, Files, FileRecord

LEMMA FirstFacts ==
  ASSUME NEW q \in Queue, TypeInv, InodesLeft
  PROVE  /\ Attempts(First(q)) /\ First(q).wid = wid[q] /\ (First(q).ok => First(q).wf # 0)
         /\ FreeInodes(First(q).dir) # {}
<1> DEFINE s == Attempt(q)
           t == OpenWriteFile(q, s)
<1>1. Attempts(s) /\ s.ok
  BY AttemptType
<1>2. s.dir = dir[q] /\ s.wid = wid[q] /\ s.wf = wf[q]
  BY DEF Attempt
<1>3. FreeInodes(s.dir) # {}
  BY <1>2, FreeInodesLess
<1>4. CASE s.wf = 0
  <2>1. First(q) = t
    BY <1>4 DEF First
  <2>2. /\ Attempts(t) /\ t.wid = s.wid /\ t.dir[s.wid] \in Inode
        /\ DOMAIN t.dir = DOMAIN s.dir \cup {s.wid}
        /\ \A p \in DOMAIN s.dir : t.dir[p] = s.dir[p]
        /\ t.ok => t.wf = t.dir[s.wid]
    <3> HIDE DEF s, t
    <3> QED BY <1>1, <1>3, OpenFacts DEF t
  <2>3. Range(t.dir) \subseteq Range(dir[q]) \cup {t.dir[s.wid]}
    <3> HIDE DEF s, t
    <3> QED BY <1>2, <2>2 DEF Range
  <2>4. 0 \notin Inode
    BY DEF Inode
  <2> HIDE DEF s, t
  <2> QED BY <1>2, <2>1, <2>2, <2>3, <2>4, FreeInodesLess
<1>5. CASE s.wf # 0
  BY <1>1, <1>2, <1>3, <1>5 DEF First
<1> QED BY <1>4, <1>5

LEMMA SecondFacts ==
  ASSUME NEW q \in Queue, TypeInv, InodesLeft, NEW c
  PROVE  /\ Attempts(Second(q, c)) /\ Second(q, c).wid \in {wid[q], wid[q] + 1}
         /\ Second(q, c).ok => Second(q, c).wf # 0
<1> DEFINE s == First(q)
           r == Numbered(s)
           t == OpenWriteFile(q, r)
<1>1. Attempts(s) /\ s.wid = wid[q] /\ (s.ok => s.wf # 0) /\ FreeInodes(s.dir) # {}
  BY FirstFacts
<1> HIDE DEF s
<1>2. CASE s.ok /\ NeedsPart(s, Size[c])
  <2>1. Second(q, c) = t
    BY <1>2 DEF Second, s
  <2>2. Attempts(r) /\ r.wid = wid[q] + 1 /\ r.dir = s.dir /\ r.ok
    BY <1>1, <1>2, NumberedFacts
  <2>3. /\ Attempts(t) /\ t.wid = r.wid /\ t.dir[r.wid] \in Inode
        /\ t.ok => t.wf = t.dir[r.wid]
    <3> HIDE DEF r, t
    <3> QED BY <1>1, <2>2, OpenFacts DEF t
  <2>4. 0 \notin Inode
    BY DEF Inode
  <2> HIDE DEF r, t
  <2> QED BY <2>1, <2>2, <2>3, <2>4
<1>3. CASE ~(s.ok /\ NeedsPart(s, Size[c]))
  <2>1. Second(q, c) = s
    BY <1>3 DEF Second, s
  <2> QED BY <1>1, <2>1
<1> QED BY <1>2, <1>3

LEMMA WrittenType ==
  ASSUME NEW q \in Queue, TypeInv, InodesLeft, NEW c \in Chunk
  PROVE  Attempts(Written(q, c)) /\ Written(q, c).wid \in {wid[q], wid[q] + 1}
<1>1. /\ Attempts(Second(q, c)) /\ Second(q, c).wid \in {wid[q], wid[q] + 1}
      /\ Second(q, c).ok => Second(q, c).wf # 0
  BY SecondFacts
<1> DEFINE s == Second(q, c)
           t == Third(s, c)
<1>2. Attempts(t) /\ t.wid = s.wid
  <2> HIDE DEF s, t
  <2> QED BY <1>1, ThirdFacts DEF t, s
<1> QED BY <1>1, <1>2, WrittenStages

-----------------------------------------------------------------------------
(* Type correctness, whatever the queues and whether they are serialized *)

LEMMA LiveType ==
  ASSUME NEW n \in Files, NEW d, NEW w, NEW r
  PROVE  Live(n, d, w, r) \in Files
<1>1. NoFile \in FileRecord
  BY DEF NoFile, FileRecord
<1> QED BY <1>1 DEF Live, Files

LEMMA ErasedType ==
  ASSUME NEW q \in Queue, TypeInv
  PROVE  /\ IsDir(Erased(q)) /\ DOMAIN Erased(q) = DOMAIN dir[q] \ {rid[q]}
         /\ \A p \in DOMAIN Erased(q) : Erased(q)[p] = dir[q][p]
<1>1. /\ DOMAIN Erased(q) = DOMAIN dir[q] \ {rid[q]}
      /\ Erased(q) \in [DOMAIN dir[q] \ {rid[q]} -> Inode]
      /\ \A p \in DOMAIN Erased(q) : Erased(q)[p] = dir[q][p]
  BY DEF Erased, TypeInv, IsDir
<1>2. IsFiniteSet(DOMAIN dir[q] \ {rid[q]})
  BY FS_Subset DEF TypeInv, IsDir
<1> QED BY <1>1, <1>2 DEF TypeInv, IsDir

\* The numbers of the parts.
LEMMA PartNumbers ==
  ASSUME NEW q \in Queue, TypeInv
  PROVE  /\ FirstPart(q) \in Nat /\ LastPart(q) \in Nat /\ FirstPart(q) <= LastPart(q)
         /\ DOMAIN dir[q] \subseteq FirstPart(q) .. LastPart(q)
         /\ DOMAIN dir[q] # {} => LastPart(q) \in DOMAIN dir[q]
<1>1. DOMAIN dir[q] \subseteq Nat /\ IsFiniteSet(DOMAIN dir[q])
  BY DEF TypeInv, IsDir
<1>2. CASE DOMAIN dir[q] = {}
  BY <1>2 DEF FirstPart, LastPart
<1>3. CASE DOMAIN dir[q] # {}
  <2>1. /\ FirstPart(q) \in DOMAIN dir[q] /\ \A p \in DOMAIN dir[q] : FirstPart(q) <= p
    BY <1>1, <1>3, MinFacts DEF FirstPart
  <2>2. /\ LastPart(q) \in DOMAIN dir[q] /\ \A p \in DOMAIN dir[q] : p <= LastPart(q)
    BY <1>1, <1>3, MaxFacts DEF LastPart
  <2> QED BY <1>1, <2>1, <2>2
<1> QED BY <1>2, <1>3

LEMMA InitType == Init => TypeInv
<1> SUFFICES ASSUME Init PROVE TypeInv
  OBVIOUS
<1>1. NoFile \in FileRecord
  BY DEF NoFile, FileRecord
<1>2. IsDir(EmptyDir)
  BY FS_EmptySet DEF IsDir, EmptyDir
<1>3. dir = [q \in Queue |-> dir[q]] /\ \A q \in Queue : IsDir(dir[q])
  BY <1>2 DEF Init
<1>4. TypeOK
  <2>1. node \in [Inode -> [hdr : BOOLEAN, data : Seq(Chunk)]]
    BY <1>1 DEF Init, FileRecord
  <2>2. \A q \in Queue : DOMAIN dir[q] \subseteq Nat /\ \A p \in DOMAIN dir[q] : dir[q][p] \in Inode
    BY <1>3 DEF IsDir
  <2>3. current \in 0 .. Word - 1
    BY SplitterAssumption DEF Init
  <2>4. \A q \in Queue : rid[q] <= wid[q]
    BY DEF Init
  <2>5. 0 \in 0 .. MaxWrites
    BY SplitterAssumption
  <2> QED BY <2>1, <2>2, <2>3, <2>4, <2>5 DEF Init, TypeOK
<1>5. \A q \in Queue : rpc[q] \in Opened => rf[q] # 0
  BY DEF Init, Opened
<1> QED BY <1>3, <1>4, <1>5 DEF TypeInv

Steps == {"idle", "open", "fopen", "check", "locked", "unlocked"}

\* The parts of TypeInv that one action after the other changes.
DiskType(n, d, l, c) ==
  /\ n \in Files /\ d = [q \in Queue |-> d[q]] /\ (\A q \in Queue : IsDir(d[q]))
  /\ l \in Limits /\ c \in 0 .. Word - 1
ReadType(r, w, f, s, o, c) ==
  /\ r \in [Queue -> Nat] /\ w \in [Queue -> Nat] /\ (\A q \in Queue : r[q] <= w[q])
  /\ f \in [Queue -> Inode \cup {0}] /\ s \in [Queue -> BOOLEAN] /\ o \in [Queue -> Nat]
  /\ c \in [Queue -> Steps] /\ (\A q \in Queue : c[q] \in Opened => f[q] # 0)
RestType(a, f, x, w, s, l, r, c) ==
  /\ a \in [Queue -> BOOLEAN] /\ f \in [Queue -> Inode \cup {0}]
  /\ x \in [Queue -> Chunk \cup {0}] /\ w \in [Queue -> 0 .. MaxWrites]
  /\ s \in [Queue -> SUBSET Chunk] /\ l \in [Queue -> SUBSET Chunk]
  /\ r \in [Queue -> Nat] /\ c \in Nat

LEMMA TypeSplit ==
  TypeInv <=> /\ DiskType(node, dir, limit, current)
              /\ ReadType(rid, wid, rf, shared, roff, rpc)
              /\ RestType(alive, wf, wr, written, seen, lost, restarts, crashes)
<1>1. (\A q \in Queue : IsDir(dir[q])) =>
        \A q \in Queue : DOMAIN dir[q] \subseteq Nat /\ \A p \in DOMAIN dir[q] : dir[q][p] \in Inode
  BY DEF IsDir
<1> QED BY <1>1 DEF TypeInv, TypeOK, DiskType, ReadType, RestType, Files, FileRecord, Steps

LEMMA TypeJoin ==
  ASSUME DiskType(node', dir', limit', current'),
         ReadType(rid', wid', rf', shared', roff', rpc'),
         RestType(alive', wf', wr', written', seen', lost', restarts', crashes')
  PROVE  TypeInv'
<1>1. \A q \in Queue : DOMAIN dir'[q] \subseteq Nat /\ \A p \in DOMAIN dir'[q] : dir'[q][p] \in Inode
  BY DEF IsDir, DiskType
<1> QED BY <1>1 DEF TypeInv, TypeOK, DiskType, ReadType, RestType, Files, FileRecord, Steps

\* Steps of read() that neither write nor erase.
LEMMA ReadStepType ==
  ASSUME TypeInv, NEW q \in Queue,
         ReadCall(q) \/ OpenShared(q) \/ OpenByName(q) \/ ReadCheck(q)
  PROVE  TypeInv'
<1>1. /\ DiskType(node, dir, limit, current)
      /\ ReadType(rid, wid, rf, shared, roff, rpc)
      /\ RestType(alive, wf, wr, written, seen, lost, restarts, crashes)
  BY TypeSplit
<1>2. DiskType(node', dir', limit', current')
  BY <1>1 DEF ReadCall, OpenShared, OpenByName, ReadCheck, diskVars, DiskType
<1>3. RestType(alive', wf', wr', written', seen', lost', restarts', crashes')
  BY <1>1 DEF ReadCall, OpenShared, OpenByName, ReadCheck, RestType
<1>4. ReadType(rid', wid', rf', shared', roff', rpc')
  <2>1. CASE ReadCall(q)
    BY <1>1, <2>1 DEF ReadCall, ReadType, Opened, Steps
  <2>2. CASE OpenShared(q)
    <3>1. CASE rid[q] = wid[q] /\ wf[q] # 0
      <4>1. /\ rf' = [rf EXCEPT ![q] = wf[q]] /\ shared' = [shared EXCEPT ![q] = TRUE]
            /\ roff' = [roff EXCEPT ![q] = 0] /\ rpc' = [rpc EXCEPT ![q] = "check"]
            /\ UNCHANGED <<rid, wid>>
        BY <2>2, <3>1 DEF OpenShared
      <4> QED BY <1>1, <3>1, <4>1 DEF ReadType, RestType, Opened, Steps
    <3>2. CASE ~(rid[q] = wid[q] /\ wf[q] # 0)
      <4>1. rpc' = [rpc EXCEPT ![q] = "fopen"] /\ UNCHANGED <<rf, shared, roff, rid, wid>>
        BY <2>2, <3>2 DEF OpenShared
      <4> QED BY <1>1, <4>1 DEF ReadType, Opened, Steps
    <3> QED BY <3>1, <3>2
  <2>3. CASE OpenByName(q)
    <3>1. rid[q] \in DOMAIN dir[q] => dir[q][rid[q]] \in Inode
      BY <1>1 DEF DiskType, IsDir
    <3>2. 0 \notin Inode
      BY DEF Inode
    <3>3. CASE rid[q] \in DOMAIN dir[q]
      <4> DEFINE i == dir[q][rid[q]]
      <4>1. /\ rf' = [rf EXCEPT ![q] = i] /\ shared' = [shared EXCEPT ![q] = FALSE]
            /\ roff' = [roff EXCEPT ![q] = 0] /\ rpc' = [rpc EXCEPT ![q] = "check"]
            /\ UNCHANGED <<rid, wid>>
        BY <2>3, <3>3 DEF OpenByName
      <4>2. i \in Inode
        BY <3>1, <3>3
      <4> HIDE DEF i
      <4> QED BY <1>1, <3>2, <4>1, <4>2 DEF ReadType, Opened, Steps
    <3>4. CASE rid[q] \notin DOMAIN dir[q]
      <4>1. rpc' = [rpc EXCEPT ![q] = "idle"] /\ UNCHANGED <<rf, shared, roff, rid, wid>>
        BY <2>3, <3>4 DEF OpenByName
      <4> QED BY <1>1, <4>1 DEF ReadType, Opened, Steps
    <3> QED BY <3>3, <3>4
  <2>4. CASE ReadCheck(q)
    BY <1>1, <2>4 DEF ReadCheck, ReadType, Opened, Steps
  <2> QED BY <2>1, <2>2, <2>3, <2>4
<1> QED BY <1>2, <1>3, <1>4, TypeJoin

LEMMA ReadDataType ==
  ASSUME TypeInv, NEW q \in Queue, ReadData(q)
  PROVE  TypeInv'
<1>1. /\ DiskType(node, dir, limit, current)
      /\ ReadType(rid, wid, rf, shared, roff, rpc)
      /\ RestType(alive, wf, wr, written, seen, lost, restarts, crashes)
  BY TypeSplit
<1>2. DiskType(node', dir', limit', current')
  BY <1>1 DEF ReadData, diskVars, DiskType
<1>3. node[rf[q]].data[roff[q] + 1] \in Chunk
  <2>1. rf[q] \in Inode
    BY <1>1 DEF ReadData, ReadType, Opened
  <2>2. node[rf[q]].data \in Seq(Chunk)
    BY <1>1, <2>1 DEF DiskType, Files, FileRecord
  <2>3. roff[q] \in Nat
    BY <1>1 DEF ReadType
  <2> DEFINE m == Len(node[rf[q]].data)
  <2>4. PICK n \in Visible(q) : n > roff[q]
    BY DEF ReadData
  <2>5. Visible(q) \subseteq (roff[q] .. m) \cup {m} /\ m \in Nat
    BY <2>2 DEF Visible
  <2>6. roff[q] + 1 \in 1 .. m
    <3> HIDE DEF m
    <3> QED BY <2>3, <2>4, <2>5
  <2> QED BY <2>2, <2>6
<1>4. RestType(alive', wf', wr', written', seen', lost', restarts', crashes')
  <2>1. seen' \in [Queue -> SUBSET Chunk]
    BY <1>1, <1>3 DEF ReadData, RestType
  <2> QED BY <1>1, <2>1 DEF ReadData, RestType
<1>5. ReadType(rid', wid', rf', shared', roff', rpc')
  BY <1>1 DEF ReadData, ReadType, Opened, Steps
<1> QED BY <1>2, <1>4, <1>5, TypeJoin

LEMMA ReadEndType ==
  ASSUME TypeInv, NEW q \in Queue, ReadEnd(q)
  PROVE  TypeInv'
<1>1. /\ DiskType(node, dir, limit, current)
      /\ ReadType(rid, wid, rf, shared, roff, rpc)
      /\ RestType(alive, wf, wr, written, seen, lost, restarts, crashes)
  BY TypeSplit
<1>2. DiskType(node', dir', limit', current')
  <2>1. node' \in Files
    BY <1>1, LiveType DEF ReadEnd, DiskType
  <2>2. dir' = [r \in Queue |-> dir'[r]]
    BY <1>1 DEF ReadEnd, DiskType
  <2>3. \A r \in Queue : IsDir(dir'[r])
    BY <1>1, ErasedType DEF ReadEnd, DiskType
  <2>4. current' \in 0 .. Word - 1
    <3>1. CASE rid[q] \in DOMAIN dir[q]
      <4>1. node[dir[q][rid[q]]] \in FileRecord
        BY <1>1, <3>1 DEF DiskType, IsDir, Files
      <4>2. FileSize(node[dir[q][rid[q]]]) \in Nat
        BY <4>1, FileSizeType
      <4>3. current' = (current - FileSize(node[dir[q][rid[q]]])) % Word
        BY <3>1 DEF ReadEnd, Released
      <4>4. current - FileSize(node[dir[q][rid[q]]]) \in Int
        BY <1>1, <4>2 DEF DiskType
      <4> QED BY <4>3, <4>4, ModType, SplitterAssumption
    <3>2. CASE rid[q] \notin DOMAIN dir[q]
      BY <1>1, <3>2 DEF ReadEnd, DiskType
    <3> QED BY <3>1, <3>2
  <2> QED BY <1>1, <2>1, <2>2, <2>3, <2>4 DEF ReadEnd, DiskType
<1>3. RestType(alive', wf', wr', written', seen', lost', restarts', crashes')
  BY <1>1 DEF ReadEnd, RestType
<1>4. ReadType(rid', wid', rf', shared', roff', rpc')
  BY <1>1 DEF ReadEnd, ReadType, Opened, Steps, HasNextPart
<1> QED BY <1>2, <1>3, <1>4, TypeJoin

LEMMA WriteType ==
  ASSUME TypeInv, NEW q \in Queue, WriteStart(q) \/ WriteTurn(q)
  PROVE  TypeInv'
<1>1. /\ DiskType(node, dir, limit, current)
      /\ ReadType(rid, wid, rf, shared, roff, rpc)
      /\ RestType(alive, wf, wr, written, seen, lost, restarts, crashes)
  BY TypeSplit
<1>2. CASE WriteStart(q)
  <2>1. wr' \in [Queue -> Chunk \cup {0}]
    BY <1>1, <1>2, SplitterAssumption DEF WriteStart, RestType, Chunk
  <2>2. RestType(alive', wf', wr', written', seen', lost', restarts', crashes')
    BY <1>1, <1>2, <2>1 DEF WriteStart, RestType
  <2>3. DiskType(node', dir', limit', current')
    BY <1>1, <1>2 DEF WriteStart, diskVars, DiskType
  <2>4. ReadType(rid', wid', rf', shared', roff', rpc')
    BY <1>1, <1>2 DEF WriteStart, readVars, ReadType
  <2> QED BY <2>2, <2>3, <2>4, TypeJoin
<1>3. CASE WriteTurn(q)
  <2> DEFINE s == Written(q, wr[q])
  <2>1. /\ wr[q] # 0 /\ InodesLeft
        /\ dir' = [dir EXCEPT ![q] = s.dir] /\ wf' = [wf EXCEPT ![q] = s.wf]
        /\ wid' = [wid EXCEPT ![q] = s.wid] /\ current' = s.current
        /\ node' = Live(s.node, dir', wf', rf)
        /\ shared' = [shared EXCEPT ![q] = @ /\ s.wf = wf[q]]
        /\ IF s.ok THEN /\ wr' = [wr EXCEPT ![q] = 0]
                        /\ written' = [written EXCEPT ![q] = wr[q]]
                   ELSE UNCHANGED <<wr, written>>
    BY <1>3 DEF WriteTurn
  <2>2. UNCHANGED <<limit, alive, rid, rf, roff, rpc, seen, lost, restarts, crashes>>
    BY <1>3 DEF WriteTurn
  <2>3. wr[q] \in Chunk
    BY <1>1, <2>1 DEF RestType
  <2>4. Attempts(s) /\ s.wid \in {wid[q], wid[q] + 1}
    BY <2>1, <2>3, WrittenType
  <2> HIDE DEF s
  <2>5. DiskType(node', dir', limit', current')
    <3>1. node' \in Files
      BY <2>1, <2>4, LiveType DEF Attempts
    <3>2. dir' = [r \in Queue |-> dir'[r]]
      BY <1>1, <2>1 DEF DiskType
    <3>3. \A r \in Queue : IsDir(dir'[r])
      BY <1>1, <2>1, <2>4 DEF Attempts, DiskType
    <3> QED BY <1>1, <2>1, <2>2, <2>4, <3>1, <3>2, <3>3 DEF DiskType, Attempts
  <2>6. ReadType(rid', wid', rf', shared', roff', rpc')
    <3>1. wid' \in [Queue -> Nat] /\ \A r \in Queue : rid'[r] <= wid'[r]
      BY <1>1, <2>1, <2>2, <2>4 DEF ReadType, Attempts
    <3>2. shared' \in [Queue -> BOOLEAN]
      BY <1>1, <2>1 DEF ReadType
    <3> QED BY <1>1, <2>2, <3>1, <3>2 DEF ReadType
  <2>7. RestType(alive', wf', wr', written', seen', lost', restarts', crashes')
    <3>1. wf' \in [Queue -> Inode \cup {0}]
      BY <1>1, <2>1, <2>4 DEF RestType, Attempts
    <3>2. wr' \in [Queue -> Chunk \cup {0}]
      BY <1>1, <2>1 DEF RestType
    <3>3. written' \in [Queue -> 0 .. MaxWrites]
      BY <1>1, <2>1, <2>3 DEF RestType, Chunk
    <3> QED BY <1>1, <2>2, <3>1, <3>2, <3>3 DEF RestType
  <2> QED BY <2>5, <2>6, <2>7, TypeJoin
<1> QED BY <1>2, <1>3

Renumbered(a, l, x) == [a EXCEPT !.wid = l, !.current = x]

LEMMA RenumberedFacts ==
  ASSUME NEW a, Attempts(a), NEW l \in Nat, NEW x \in 0 .. Word - 1,
         NEW z, z = Renumbered(a, l, x)
  PROVE  /\ Attempts(z) /\ z.node = a.node /\ z.dir = a.dir /\ z.wf = a.wf /\ (a.ok => z.ok)
         /\ z.wid = l /\ z.current = x
<1>1. PICK n, e, y, w, f, o :
        a = [node |-> n, dir |-> e, current |-> y, wid |-> w, wf |-> f, ok |-> o]
  BY DEF Attempts
<1>2. z = [node |-> n, dir |-> e, current |-> x, wid |-> l, wf |-> f, ok |-> o]
  BY <1>1 DEF Renumbered
<1> QED BY <1>1, <1>2 DEF Attempts

LEMMA CreateType ==
  ASSUME TypeInv, NEW q \in Queue, Create(q)
  PROVE  TypeInv'
<1>1. /\ DiskType(node, dir, limit, current)
      /\ ReadType(rid, wid, rf, shared, roff, rpc)
      /\ RestType(alive, wf, wr, written, seen, lost, restarts, crashes)
  BY TypeSplit
<1> DEFINE s == Renumbered(Attempt(q), LastPart(q), DirSize(q) % Word)
           t == OpenWriteFile(q, s)
<1>2. /\ InodesLeft /\ node' = t.node /\ dir' = [dir EXCEPT ![q] = t.dir]
      /\ current' = t.current /\ wf' = [wf EXCEPT ![q] = t.wf]
      /\ wid' = [wid EXCEPT ![q] = t.wid] /\ alive' = [alive EXCEPT ![q] = TRUE]
      /\ rid' = [rid EXCEPT ![q] = FirstPart(q)]
  BY DEF Create, Renumbered
<1>3. UNCHANGED <<limit, rf, shared, roff, rpc, wr, written, seen, lost, restarts, crashes>>
  BY DEF Create
<1>4. Attempts(s) /\ s.ok /\ s.wid = LastPart(q) /\ s.dir = dir[q]
  <2>1. DirSize(q) \in Nat
    BY <1>1, PartsSizeType DEF DiskType, DirSize, PartsSize
  <2> DEFINE c == DirSize(q) % Word
             a == Attempt(q)
             l == LastPart(q)
  <2>2. c \in 0 .. Word - 1
    BY <2>1, ModType, SplitterAssumption
  <2>3. s = Renumbered(a, l, c)
    OBVIOUS
  <2>4. Attempts(Attempt(q)) /\ Attempt(q).ok /\ Attempt(q).dir = dir[q] /\ LastPart(q) \in Nat
    BY AttemptType, PartNumbers DEF Attempt
  <2>5. Attempts(a) /\ a.ok /\ a.dir = dir[q] /\ l \in Nat
    BY <2>4
  <2> HIDE DEF s, c, a, l
  <2>6. Attempts(s) /\ s.ok /\ s.wid = l /\ s.dir = a.dir
    BY <2>2, <2>3, <2>5, RenumberedFacts
  <2> QED BY <2>5, <2>6 DEF l
<1>5. FreeInodes(s.dir) # {}
  BY <1>2, <1>4, FreeInodesLess
<1> HIDE DEF s
<1>6. Attempts(t) /\ t.wid = LastPart(q)
  <2> HIDE DEF t
  <2> QED BY <1>4, <1>5, OpenFacts DEF t
<1> HIDE DEF t
<1>7. DiskType(node', dir', limit', current')
  BY <1>1, <1>2, <1>3, <1>6 DEF DiskType, Attempts
<1>8. ReadType(rid', wid', rf', shared', roff', rpc')
  BY <1>1, <1>2, <1>3, <1>6, PartNumbers DEF ReadType
<1>9. RestType(alive', wf', wr', written', seen', lost', restarts', crashes')
  BY <1>1, <1>2, <1>3, <1>6 DEF RestType, Attempts
<1> QED BY <1>7, <1>8, <1>9, TypeJoin

LEMMA DestroyType ==
  ASSUME TypeInv, NEW q \in Queue, Destroy(q)
  PROVE  TypeInv'
<1>1. /\ DiskType(node, dir, limit, current)
      /\ ReadType(rid, wid, rf, shared, roff, rpc)
      /\ RestType(alive, wf, wr, written, seen, lost, restarts, crashes)
  BY TypeSplit
<1>2. DiskType(node', dir', limit', current')
  BY <1>1, LiveType DEF Destroy, DiskType
<1>3. ReadType(rid', wid', rf', shared', roff', rpc')
  BY <1>1 DEF Destroy, ReadType, Opened
<1>4. RestType(alive', wf', wr', written', seen', lost', restarts', crashes')
  BY <1>1 DEF Destroy, RestType
<1> QED BY <1>2, <1>3, <1>4, TypeJoin

\* What a crash leaves of the file that is written.
LEMMA CrashLeftType ==
  ASSUME TypeInv, NEW q \in Queue
  PROVE  CrashLeft(q) \subseteq FileRecord
<1>1. NoFile \in FileRecord
  BY DEF NoFile, FileRecord
<1>2. CASE wf[q] = 0
  BY <1>1, <1>2 DEF CrashLeft
<1>3. CASE wf[q] # 0
  <2> DEFINE f == node[wf[q]]
             m == IF rf[q] = wf[q] THEN roff[q] ELSE 0
  <2>1. f \in FileRecord /\ f.data \in Seq(Chunk) /\ m \in Nat
    BY <1>3 DEF TypeInv, TypeOK, FileRecord
  <2>2. ASSUME NEW k \in m .. Len(f.data) PROVE [f EXCEPT !.data = SubSeq(@, 1, k)] \in FileRecord
    <3>1. SubSeq(f.data, 1, k) \in Seq(Chunk)
      <4> HIDE DEF f, m
      <4> QED BY <2>1, SubSeqProperties
    <3> HIDE DEF f, m
    <3> QED BY <2>1, <3>1 DEF FileRecord
  <2>3. CrashLeft(q) = {[f EXCEPT !.data = SubSeq(@, 1, k)] : k \in m .. Len(f.data)}
                       \cup (IF m = 0 THEN {NoFile} ELSE {})
    BY <1>3 DEF CrashLeft
  <2> HIDE DEF f, m
  <2> QED BY <1>1, <2>2, <2>3
<1> QED BY <1>2, <1>3

LEMMA CrashType ==
  ASSUME TypeInv, Crash
  PROVE  TypeInv'
<1>1. /\ DiskType(node, dir, limit, current)
      /\ ReadType(rid, wid, rf, shared, roff, rpc)
      /\ RestType(alive, wf, wr, written, seen, lost, restarts, crashes)
  BY TypeSplit
<1>2. PICK left \in [Queue -> UNION {CrashLeft(q) : q \in Queue}] :
        /\ \A q \in Queue : left[q] \in CrashLeft(q)
        /\ node' = Live([i \in Inode |->
                          IF \E q \in Queue : wf[q] = i
                          THEN left[CHOOSE q \in Queue : wf[q] = i] ELSE node[i]],
                        dir, [q \in Queue |-> 0], [q \in Queue |-> 0])
  BY DEF Crash
<1>3. node' \in Files
  <2> DEFINE n == [i \in Inode |-> IF \E q \in Queue : wf[q] = i
                                   THEN left[CHOOSE q \in Queue : wf[q] = i] ELSE node[i]]
  <2>1. ASSUME NEW i \in Inode PROVE n[i] \in FileRecord
    <3>1. CASE \E q \in Queue : wf[q] = i
      <4> DEFINE r == CHOOSE q \in Queue : wf[q] = i
      <4>1. r \in Queue
        BY <3>1
      <4>2. n[i] = left[r]
        BY <3>1
      <4> HIDE DEF r, n
      <4> QED BY <1>2, <4>1, <4>2, CrashLeftType
    <3>2. CASE ~\E q \in Queue : wf[q] = i
      BY <1>1, <3>2 DEF DiskType, Files
    <3> QED BY <3>1, <3>2
  <2>2. n = [i \in Inode |-> n[i]]
    OBVIOUS
  <2>3. node' = Live(n, dir, [q \in Queue |-> 0], [q \in Queue |-> 0])
    BY <1>2
  <2> HIDE DEF n
  <2>4. n \in Files
    BY <2>1, <2>2 DEF Files
  <2> QED BY <2>3, <2>4, LiveType
<1>4. DiskType(node', dir', limit', current')
  <2>1. 0 \in 0 .. Word - 1
    BY SplitterAssumption
  <2> QED BY <1>1, <1>3, <2>1 DEF Crash, DiskType
<1>5. ReadType(rid', wid', rf', shared', roff', rpc')
  BY <1>1 DEF Crash, ReadType, Opened, Steps
<1>6. RestType(alive', wf', wr', written', seen', lost', restarts', crashes')
  <2>1. lost' \in [Queue -> SUBSET Chunk]
    <3>1. ASSUME NEW q \in Queue, NEW T
          PROVE  lost[q] \cup ((1 .. written[q]) \ T) \in SUBSET Chunk
      <4>1. lost[q] \in SUBSET Chunk /\ written[q] \in 0 .. MaxWrites
        BY <1>1 DEF RestType
      <4> QED BY <4>1, SplitterAssumption DEF Chunk
    <3>2. lost' = [q \in Queue |-> lost[q] \cup
                    ((1 .. written[q]) \ (seen[q] \cup ChunksOf(node', dir[q])))]
      BY DEF Crash
    <3> QED BY <3>1, <3>2
  <2>2. crashes' \in Nat
    BY <1>1 DEF Crash, RestType
  <2> QED BY <1>1, <2>1, <2>2 DEF Crash, RestType
<1> QED BY <1>4, <1>5, <1>6, TypeJoin

LEMMA NextType ==
  ASSUME TypeInv, [Next]_vars
  PROVE  TypeInv'
<1>1. CASE UNCHANGED vars
  BY <1>1 DEF vars, diskVars, readVars, TypeInv, TypeOK
<1>2. CASE Next
  BY <1>2, WriteType, ReadStepType, ReadDataType, ReadEndType, CreateType, DestroyType, CrashType
     DEF Next, Read
<1> QED BY <1>1, <1>2

\* For any number of queues, read and written at the same time or not, every
\* variable keeps its type: in particular the part being read never passes
\* the part being written, an offset in an open part is never used when no
\* file is open (splitter::read(), splitter::write()), and the account of the
\* disk accessor stays within its word.
THEOREM TypeCorrect == Spec => []TypeOK
<1>1. TypeInv => TypeOK
  BY DEF TypeInv
<1> QED BY <1>1, InitType, NextType, PTL DEF Spec

-----------------------------------------------------------------------------
(***************************************************************************)
(* Where the reader and the writer are, when the owner serializes them.    *)
(***************************************************************************)
\* The chunks of part p.
Part(n, d, p) == IF p \in DOMAIN d THEN n[d[p]].data ELSE <<>>

\* A file has one name.
NoAlias == \A q, r \in Queue : \A p \in DOMAIN dir[q], s \in DOMAIN dir[r] :
             dir[q][p] = dir[r][s] => q = r /\ p = s

\* A file without a name is no file: none is open after it was erased.
NoGarbage == \A i \in Inode : i \notin Named(dir) => node[i] = NoFile

HeaderFirst == \A i \in Inode : ~node[i].hdr => node[i].data = <<>>

Closed(q) == /\ wf[q] = 0 /\ rf[q] = 0 /\ ~shared[q] /\ roff[q] = 0
             /\ rpc[q] = "idle" /\ wr[q] = 0

\* The writer has the last part open, or that part holds nothing.
Writer(q) ==
  /\ wf[q] # 0 => wid[q] \in DOMAIN dir[q] /\ wf[q] = dir[q][wid[q]] /\ node[wf[q]].hdr
  /\ wf[q] = 0 => Part(node, dir[q], wid[q]) = <<>>
  /\ wr[q] # 0 => rpc[q] = "idle"

\* The reader has the first part open, or none; when that is the last part it
\* shares the file of the writer, unless the part is empty and about to be
\* erased.
Reader(q) ==
  /\ rf[q] = 0 => roff[q] = 0 /\ ~shared[q]
  /\ rf[q] # 0 => /\ rid[q] \in DOMAIN dir[q] /\ rf[q] = dir[q][rid[q]]
                  /\ roff[q] <= Len(node[rf[q]].data)
                  /\ shared[q] <=> rf[q] = wf[q]
                  /\ rid[q] = wid[q] /\ ~shared[q] => rpc[q] # "idle" /\ wf[q] = 0
  /\ rpc[q] \in {"open", "fopen"} => rf[q] = 0
  /\ rpc[q] = "fopen" => rid[q] # wid[q] \/ wf[q] = 0
  /\ rpc[q] = "locked" => rid[q] = wid[q]
  /\ rpc[q] = "unlocked" => rid[q] # wid[q]

QueueOK(q) ==
  /\ ~alive[q] => Closed(q)
  /\ alive[q] => DOMAIN dir[q] \subseteq rid[q] .. wid[q] /\ Writer(q) /\ Reader(q)

\* The inductive invariant of a queue whose owner serializes it.
Place == NoAlias /\ NoGarbage /\ HeaderFirst /\ \A q \in Queue : QueueOK(q)

\* The files of the other queues.
Others(q) == UNION {Range(dir[r]) : r \in Queue \ {q}}

\* What an attempt to write keeps: it adds empty parts at the end.
Base(q, s, lo) ==
  /\ Attempts(s)
  /\ \A p, o \in DOMAIN s.dir : s.dir[p] = s.dir[o] => p = o
  /\ \A p \in DOMAIN s.dir : s.dir[p] \notin Others(q)
  /\ \A i \in Inode : i \notin Range(s.dir) \cup Others(q) => s.node[i] = NoFile
  /\ \A i \in Inode : ~s.node[i].hdr => s.node[i].data = <<>>
  /\ \A i \in Others(q) : s.node[i] = node[i]
  /\ DOMAIN s.dir \subseteq lo .. s.wid /\ lo \in Nat /\ lo <= s.wid
  /\ \A p \in DOMAIN dir[q] : p \in DOMAIN s.dir /\ s.dir[p] = dir[q][p]
  /\ \A p \in Nat : Part(s.node, s.dir, p) = Part(node, dir[q], p)

\* The writer has the last part open with its header, or that part is empty.
Ready(s) ==
  /\ s.wf # 0 => s.wid \in DOMAIN s.dir /\ s.wf = s.dir[s.wid] /\ s.node[s.wf].hdr
  /\ s.wf = 0 => Part(s.node, s.dir, s.wid) = <<>>

LEMMA OthersFacts ==
  ASSUME TypeInv, NEW q \in Queue
  PROVE  /\ Others(q) \subseteq Inode
         /\ \A d : FreeInodes(d) \cap (Others(q) \cup Range(d)) = {}
         /\ Named(dir) = Range(dir[q]) \cup Others(q)
<1>1. Named(dir) = UNION {Range(dir[r]) : r \in Queue}
  BY DEF Named, Range
<1>2. Named(dir) = Range(dir[q]) \cup Others(q)
  BY <1>1 DEF Others
<1>3. Others(q) \subseteq Inode
  BY DEF Others, Range, TypeInv, IsDir
<1>4. \A d : FreeInodes(d) \cap (Others(q) \cup Range(d)) = {}
  BY <1>2 DEF FreeInodes
<1> QED BY <1>2, <1>3, <1>4

LEMMA OpenBase ==
  ASSUME TypeInv, NEW q \in Queue, NEW lo, NEW s, Base(q, s, lo), s.ok,
         s.wid \notin DOMAIN s.dir => FreeInodes(s.dir) # {},
         NEW t, t = OpenWriteFile(q, s)
  PROVE  Base(q, t, lo) /\ Ready(t) /\ (t.ok => t.wf # 0) /\ t.wid = s.wid
<1> DEFINE i == t.dir[s.wid]
<1>1. /\ Attempts(t) /\ t.wid = s.wid /\ i \in Inode
      /\ DOMAIN t.dir = DOMAIN s.dir \cup {s.wid}
      /\ \A p \in DOMAIN s.dir : t.dir[p] = s.dir[p]
      /\ s.wid \notin DOMAIN s.dir => i \in FreeInodes(s.dir)
      /\ t.ok => t.wf = i /\ t.node[i].hdr
      /\ ~t.ok => t.wf = 0 /\ ~t.node[i].hdr
      /\ \A j \in Inode : j # i => t.node[j] = s.node[j]
      /\ t.node[i].data = s.node[i].data
      /\ \/ t.node = s.node
         \/ ~s.node[i].hdr /\ t.node[i].hdr
  <2>1. Attempts(s)
    BY DEF Base
  <2> HIDE DEF i
  <2> QED BY <2>1, OpenFacts DEF i
<1>2. s.wid \notin DOMAIN s.dir => i \notin Others(q) \cup Range(s.dir)
  BY <1>1, OthersFacts
<1>3. s.wid \notin DOMAIN s.dir => s.node[i] = NoFile
  BY <1>1, <1>2 DEF Base
<1> HIDE DEF i
<1>4. \A p, o \in DOMAIN t.dir : t.dir[p] = t.dir[o] => p = o
  <2>1. \A p \in DOMAIN s.dir : s.dir[p] \in Range(s.dir)
    BY DEF Range
  <2>2. \A p, o \in DOMAIN s.dir : s.dir[p] = s.dir[o] => p = o
    BY DEF Base
  <2> QED BY <1>1, <1>2, <2>1, <2>2 DEF i
<1>5. \A p \in DOMAIN t.dir : t.dir[p] \notin Others(q)
  BY <1>1, <1>2 DEF Base, i
<1>6. Range(t.dir) = Range(s.dir) \cup {i}
  BY <1>1 DEF Range, i
<1>7. \A j \in Inode : j \notin Range(t.dir) \cup Others(q) => t.node[j] = NoFile
  BY <1>1, <1>6 DEF Base
<1>8. \A j \in Inode : ~t.node[j].hdr => t.node[j].data = <<>>
  <2>1. t.node \in Files /\ s.node \in Files
    BY <1>1 DEF Attempts, Base
  <2>2. ~t.node[i].hdr => ~s.node[i].hdr
    BY <1>1
  <2> QED BY <1>1, <2>2 DEF Base
<1>9. \A j \in Others(q) : t.node[j] = node[j]
  <2>1. i \notin Others(q)
    BY <1>1, <1>5 DEF i
  <2> QED BY <1>1, <2>1, OthersFacts DEF Base
<1>10. DOMAIN t.dir \subseteq lo .. t.wid /\ lo \in Nat /\ lo <= t.wid
  <2>1. s.wid \in Nat
    BY DEF Base, Attempts
  <2> QED BY <1>1, <2>1 DEF Base
<1>11. \A p \in DOMAIN dir[q] : p \in DOMAIN t.dir /\ t.dir[p] = dir[q][p]
  BY <1>1 DEF Base
<1>12. ASSUME NEW p \in Nat PROVE Part(t.node, t.dir, p) = Part(s.node, s.dir, p)
  <2>1. CASE p \in DOMAIN s.dir
    <3>1. s.dir[p] \in Inode /\ t.dir[p] = s.dir[p] /\ p \in DOMAIN t.dir
      BY <1>1, <2>1 DEF Base, Attempts, IsDir
    <3>2. t.node[s.dir[p]].data = s.node[s.dir[p]].data
      BY <1>1, <3>1
    <3> QED BY <2>1, <3>1, <3>2 DEF Part
  <2>2. CASE p \notin DOMAIN s.dir /\ p = s.wid
    <3>1. p \in DOMAIN t.dir /\ t.dir[p] = i
      BY <1>1, <2>2 DEF i
    <3>2. t.node[i].data = <<>>
      BY <1>1, <1>3, <2>2 DEF NoFile
    <3> QED BY <2>2, <3>1, <3>2 DEF Part
  <2>3. CASE p \notin DOMAIN s.dir /\ p # s.wid
    BY <1>1, <2>3 DEF Part
  <2> QED BY <2>1, <2>2, <2>3
<1>13. \A p \in Nat : Part(t.node, t.dir, p) = Part(node, dir[q], p)
  BY <1>12 DEF Base
<1>14. Base(q, t, lo)
  BY <1>1, <1>4, <1>5, <1>7, <1>8, <1>9, <1>10, <1>11, <1>13 DEF Base
<1>15. 0 \notin Inode
  BY DEF Inode
<1>16. t.wid \in DOMAIN t.dir /\ t.dir[t.wid] = i
  BY <1>1 DEF i
<1>17. CASE t.ok
  BY <1>1, <1>14, <1>15, <1>16, <1>17 DEF Ready
<1>18. CASE ~t.ok
  <2>1. t.node[i].data = <<>>
    BY <1>1, <1>8, <1>18
  <2> QED BY <1>1, <1>14, <1>15, <1>16, <1>18, <2>1 DEF Ready, Part
<1> QED BY <1>17, <1>18

LEMMA AttemptBase ==
  ASSUME TypeInv, Place, NEW q \in Queue, NEW s, Attempts(s), s.node = node, s.dir = dir[q],
         NEW lo \in Nat, lo <= s.wid, DOMAIN s.dir \subseteq lo .. s.wid
  PROVE  Base(q, s, lo)
<1>1. \A p, o \in DOMAIN s.dir : s.dir[p] = s.dir[o] => p = o
  BY DEF Place, NoAlias
<1>2. \A p \in DOMAIN s.dir : s.dir[p] \notin Others(q)
  BY DEF Place, NoAlias, Others, Range
<1>3. \A i \in Inode : i \notin Range(s.dir) \cup Others(q) => s.node[i] = NoFile
  BY OthersFacts DEF Place, NoGarbage
<1>4. \A i \in Inode : ~s.node[i].hdr => s.node[i].data = <<>>
  BY DEF Place, HeaderFirst
<1> QED BY <1>1, <1>2, <1>3, <1>4 DEF Base

LEMMA FirstBase ==
  ASSUME TypeInv, Place, InodesLeft, NEW q \in Queue, alive[q]
  PROVE  Base(q, First(q), rid[q]) /\ Ready(First(q)) /\ (First(q).ok => First(q).wf # 0)
<1> DEFINE s == Attempt(q)
           t == OpenWriteFile(q, s)
<1>1. Attempts(s) /\ s.ok /\ s.node = node /\ s.dir = dir[q] /\ s.wid = wid[q] /\ s.wf = wf[q]
  <2>1. s.node = node /\ s.dir = dir[q] /\ s.wid = wid[q] /\ s.wf = wf[q]
    BY DEF Attempt
  <2> QED BY <2>1, AttemptType
<1>2. QueueOK(q)
  BY DEF Place
<1>3. FreeInodes(s.dir) # {}
  BY <1>1, FreeInodesLess
<1> HIDE DEF s
<1>4. Base(q, s, rid[q])
  <2>1. rid[q] \in Nat /\ rid[q] <= s.wid
    BY <1>1 DEF TypeInv, TypeOK
  <2>2. DOMAIN s.dir \subseteq rid[q] .. s.wid
    BY <1>1, <1>2 DEF QueueOK
  <2> QED BY <1>1, <2>1, <2>2, AttemptBase
<1>5. CASE s.wf = 0
  <2>1. First(q) = t
    BY <1>5 DEF First, s
  <2> HIDE DEF t
  <2>2. Base(q, t, rid[q]) /\ Ready(t) /\ (t.ok => t.wf # 0)
    BY <1>1, <1>3, <1>4, OpenBase DEF t
  <2> QED BY <2>1, <2>2
<1>6. CASE s.wf # 0
  <2>1. First(q) = s
    BY <1>6 DEF First, s
  <2>2. Ready(s)
    BY <1>1, <1>2, <1>6 DEF Ready, QueueOK, Writer
  <2> QED BY <1>4, <1>6, <2>1, <2>2
<1> QED BY <1>5, <1>6

LEMMA SecondBase ==
  ASSUME TypeInv, Place, InodesLeft, NEW q \in Queue, alive[q], NEW c
  PROVE  /\ Base(q, Second(q, c), rid[q]) /\ Ready(Second(q, c))
         /\ Second(q, c).ok => Second(q, c).wf # 0
<1> DEFINE s == First(q)
           r == Numbered(s)
           t == OpenWriteFile(q, r)
<1>1. Base(q, s, rid[q]) /\ Ready(s) /\ (s.ok => s.wf # 0) /\ FreeInodes(s.dir) # {}
  BY FirstBase, FirstFacts
<1> HIDE DEF s
<1>2. CASE s.ok /\ NeedsPart(s, Size[c])
  <2>1. Second(q, c) = t
    BY <1>2 DEF Second, s
  <2>2. /\ Attempts(r) /\ r.wid = s.wid + 1 /\ r.node = s.node /\ r.dir = s.dir /\ r.ok
        /\ s.wid \in Nat
    BY <1>1, <1>2, NumberedFacts DEF Base, Attempts
  <2> HIDE DEF r
  <2>3. Base(q, r, rid[q])
    <3>1. DOMAIN r.dir \subseteq rid[q] .. r.wid /\ rid[q] \in Nat /\ rid[q] <= r.wid
      <4>1. DOMAIN s.dir \subseteq rid[q] .. s.wid /\ rid[q] \in Nat /\ rid[q] <= s.wid
        BY <1>1 DEF Base
      <4> QED BY <2>2, <4>1
    <3> QED BY <1>1, <2>2, <3>1 DEF Base
  <2> HIDE DEF t
  <2>4. Base(q, t, rid[q]) /\ Ready(t) /\ (t.ok => t.wf # 0)
    BY <1>1, <2>2, <2>3, OpenBase DEF t
  <2> QED BY <2>1, <2>4
<1>3. CASE ~(s.ok /\ NeedsPart(s, Size[c]))
  <2>1. Second(q, c) = s
    BY <1>3 DEF Second, s
  <2> QED BY <1>1, <2>1
<1> QED BY <1>2, <1>3

LEMMA LiveSame ==
  ASSUME NEW n \in Files, NEW d, NEW w, NEW r, \A i \in Inode : i \notin Named(d) => n[i] = NoFile
  PROVE  Live(n, d, w, r) = n
<1>1. \A i \in Inode : Live(n, d, w, r)[i] = n[i]
  BY DEF Live
<1> QED BY <1>1 DEF Live, Files

\* Names once the directory of queue q is d.
LEMMA NamedExcept ==
  ASSUME NEW q \in Queue, NEW d, NEW e, e[q] = d, \A r \in Queue \ {q} : e[r] = dir[r]
  PROVE  Named(e) = Range(d) \cup Others(q)
<1>3. Named(e) = UNION {Range(e[r]) : r \in Queue}
  BY DEF Named, Range
<1>4. ASSUME NEW i PROVE i \in Named(e) <=> i \in Range(d) \cup Others(q)
  <2>1. i \in Named(e) <=> \E r \in Queue : i \in Range(e[r])
    BY <1>3
  <2>2. i \in Others(q) <=> \E r \in Queue \ {q} : i \in Range(dir[r])
    BY DEF Others
  <2> QED BY <2>1, <2>2
<1> QED BY <1>4

\* The three stages of WriteTurn.
\* What a call of splitter::write() does: s is the state in which it appends,
\* t the one it ends in.
WriteDid(q, s, t) ==
  /\ alive[q] /\ wr[q] \in Chunk /\ InodesLeft
  /\ Base(q, s, rid[q]) /\ Ready(s) /\ (s.ok => s.wf # 0)
  /\ Attempts(t) /\ t.dir = s.dir /\ t.wid = s.wid /\ t.wf = s.wf
  /\ t.ok => /\ s.ok /\ Fits(s.current, Size[wr[q]])
             /\ t.current = (s.current + Size[wr[q]]) % Word
             /\ t.node = [s.node EXCEPT ![s.wf].data = Append(@, wr[q])]
  /\ ~t.ok => t.node = s.node /\ t.current = s.current
  /\ node' = t.node /\ dir' = [dir EXCEPT ![q] = t.dir] /\ wf' = [wf EXCEPT ![q] = t.wf]
  /\ wid' = [wid EXCEPT ![q] = t.wid] /\ current' = t.current
  /\ shared' = [shared EXCEPT ![q] = @ /\ t.wf = wf[q]]
  /\ IF t.ok THEN /\ wr' = [wr EXCEPT ![q] = 0]
                  /\ written' = [written EXCEPT ![q] = wr[q]]
             ELSE UNCHANGED <<wr, written>>
  /\ UNCHANGED <<limit, alive, rid, rf, roff, rpc, seen, lost, restarts, crashes>>

LEMMA WriteStages ==
  ASSUME TypeInv, Place, NEW q \in Queue, WriteTurn(q),
         NEW s, s = Second(q, wr[q]), NEW t, t = Third(s, wr[q])
  PROVE  WriteDid(q, s, t)
<1>1. t = Written(q, wr[q])
  BY WrittenStages
<1>2. /\ wr[q] # 0 /\ InodesLeft
      /\ dir' = [dir EXCEPT ![q] = t.dir] /\ wf' = [wf EXCEPT ![q] = t.wf]
      /\ wid' = [wid EXCEPT ![q] = t.wid] /\ current' = t.current
      /\ node' = Live(t.node, dir', wf', rf)
      /\ shared' = [shared EXCEPT ![q] = @ /\ t.wf = wf[q]]
      /\ IF t.ok THEN /\ wr' = [wr EXCEPT ![q] = 0]
                      /\ written' = [written EXCEPT ![q] = wr[q]]
                 ELSE UNCHANGED <<wr, written>>
  BY <1>1 DEF WriteTurn
<1>3. UNCHANGED <<limit, alive, rid, rf, roff, rpc, seen, lost, restarts, crashes>>
  BY DEF WriteTurn
<1>4. alive[q] /\ wr[q] \in Chunk
  BY <1>2 DEF Place, QueueOK, Closed, TypeInv, TypeOK
<1>5. Base(q, s, rid[q]) /\ Ready(s) /\ (s.ok => s.wf # 0)
  BY <1>2, <1>4, SecondBase
<1>6. /\ Attempts(t) /\ t.dir = s.dir /\ t.wid = s.wid /\ t.wf = s.wf
      /\ t.ok => /\ s.ok /\ Fits(s.current, Size[wr[q]])
                 /\ t.current = (s.current + Size[wr[q]]) % Word
                 /\ t.node = [s.node EXCEPT ![s.wf].data = Append(@, wr[q])]
      /\ ~t.ok => t.node = s.node /\ t.current = s.current
  <2>1. Attempts(s)
    BY <1>5 DEF Base
  <2> QED BY <1>4, <1>5, <2>1, ThirdFacts
<1>7. node' = t.node
  <2>1. t.node \in Files
    BY <1>6 DEF Attempts
  <2>2. Named(dir') = Range(s.dir) \cup Others(q)
    <3>1. dir'[q] = s.dir /\ \A r \in Queue \ {q} : dir'[r] = dir[r]
      BY <1>2, <1>6 DEF TypeInv
    <3> QED BY <3>1, NamedExcept
  <2>3. ASSUME NEW i \in Inode, i \notin Named(dir') PROVE t.node[i] = NoFile
    <3>1. s.node[i] = NoFile
      BY <1>5, <2>2, <2>3 DEF Base
    <3>2. t.ok => i # s.wf
      <4>1. t.ok => s.wf \in Range(s.dir)
        BY <1>5, <1>6 DEF Ready, Range
      <4> QED BY <2>2, <2>3, <4>1
    <3>3. s.node \in Files
      BY <1>5 DEF Base, Attempts
    <3> QED BY <1>6, <3>1, <3>2, <3>3 DEF Files
  <2>4. Live(t.node, dir', wf', rf) = t.node
    BY <2>1, <2>3, LiveSame
  <2> QED BY <1>2, <2>4
<1> QED BY <1>2, <1>3, <1>4, <1>5, <1>6, <1>7 DEF WriteDid

LEMMA OpenWid ==
  ASSUME NEW q, NEW s, Attempts(s), s.ok, FreeInodes(s.dir) # {}
  PROVE  OpenWriteFile(q, s).wid = s.wid
<1> DEFINE t == OpenWriteFile(q, s)
<1>1. t = OpenWriteFile(q, s)
  OBVIOUS
<1> HIDE DEF t
<1>2. t.wid = s.wid /\ t.dir[s.wid] \in Inode
  BY <1>1, OpenFacts
<1> QED BY <1>1, <1>2

LEMMA SecondSame ==
  ASSUME TypeInv, InodesLeft, NEW q \in Queue, wf[q] # 0, NEW c, Second(q, c).wid = wid[q]
  PROVE  Second(q, c).wf = wf[q]
<1>1. First(q) = Attempt(q) /\ Attempt(q).wf = wf[q] /\ Attempt(q).wid = wid[q] /\ Attempts(Attempt(q))
  <2>1. Attempt(q).wf = wf[q] /\ Attempt(q).wid = wid[q]
    BY DEF Attempt
  <2> QED BY <2>1, AttemptType DEF First
<1> DEFINE s == Attempt(q)
           r == Numbered(s)
           t == OpenWriteFile(q, r)
<1>2. CASE s.ok /\ NeedsPart(s, Size[c])
  <2>1. Second(q, c) = t
    BY <1>1, <1>2 DEF Second
  <2> HIDE DEF s
  <2>2. Attempts(r) /\ r.wid = s.wid + 1 /\ r.dir = s.dir /\ r.ok
    BY <1>1, <1>2, NumberedFacts DEF s
  <2>3. FreeInodes(s.dir) # {}
    BY <1>1, FirstFacts DEF s
  <2>4. t.wid = r.wid
    <3> HIDE DEF r
    <3> QED BY <2>2, <2>3, OpenWid
  <2>5. wid[q] \in Nat
    BY DEF TypeInv, TypeOK
  <2> QED BY <1>1, <2>1, <2>2, <2>4, <2>5 DEF s
<1>3. CASE ~(s.ok /\ NeedsPart(s, Size[c]))
  BY <1>1, <1>3 DEF Second
<1> QED BY <1>2, <1>3

LEMMA FrameQueue ==
  ASSUME TypeInv, NEW r \in Queue, QueueOK(r), dir'[r] = dir[r], alive'[r] = alive[r],
         rid'[r] = rid[r], wid'[r] = wid[r], wf'[r] = wf[r], rf'[r] = rf[r],
         shared'[r] = shared[r], roff'[r] = roff[r], rpc'[r] = rpc[r], wr'[r] = wr[r],
         \A i \in Range(dir[r]) : node'[i] = node[i]
  PROVE  QueueOK(r)'
<1>1. \A p \in DOMAIN dir[r] : node'[dir[r][p]] = node[dir[r][p]]
  BY DEF Range
<1>2. CASE ~alive[r]
  BY <1>2 DEF QueueOK, Closed
<1>3. CASE alive[r]
  <2>1. DOMAIN dir'[r] \subseteq rid'[r] .. wid'[r]
    BY <1>3 DEF QueueOK
  <2>2. Writer(r)'
    <3>1. Writer(r)
      BY <1>3 DEF QueueOK
    <3>2. Part(node', dir[r], wid[r]) = Part(node, dir[r], wid[r])
      BY <1>1 DEF Part
    <3> QED BY <1>1, <3>1, <3>2 DEF Writer
  <2>3. Reader(r)'
    <3>1. Reader(r)
      BY <1>3 DEF QueueOK
    <3> QED BY <1>1, <3>1 DEF Reader
  <2> QED BY <1>3, <2>1, <2>2, <2>3 DEF QueueOK
<1> QED BY <1>2, <1>3

LEMMA AliasExcept ==
  ASSUME NoAlias, NEW q \in Queue, \A r \in Queue \ {q} : dir'[r] = dir[r],
         \A p, o \in DOMAIN dir'[q] : dir'[q][p] = dir'[q][o] => p = o,
         \A p \in DOMAIN dir'[q] : dir'[q][p] \notin Others(q)
  PROVE  NoAlias'
<1>1. \A r \in Queue \ {q} : \A s \in DOMAIN dir[r] : dir[r][s] \in Others(q)
  BY DEF Others, Range
<1>2. ASSUME NEW a \in Queue, NEW r \in Queue, NEW p \in DOMAIN dir'[a], NEW s \in DOMAIN dir'[r],
             dir'[a][p] = dir'[r][s]
      PROVE  a = r /\ p = s
  <2>1. CASE a = q /\ r = q
    BY <1>2, <2>1
  <2>2. CASE a = q /\ r # q
    BY <1>1, <1>2, <2>2
  <2>3. CASE a # q /\ r = q
    BY <1>1, <1>2, <2>3
  <2>4. CASE a # q /\ r # q
    BY <1>2, <2>4 DEF NoAlias
  <2> QED BY <2>1, <2>2, <2>3, <2>4
<1> QED BY <1>2 DEF NoAlias

\* What WriteTurn leaves of the queues that do not write.
LEMMA OthersKept ==
  ASSUME TypeInv, Place, NEW q \in Queue,
         \A r \in Queue \ {q} : /\ dir'[r] = dir[r] /\ alive'[r] = alive[r]
                                /\ rid'[r] = rid[r] /\ wid'[r] = wid[r] /\ wf'[r] = wf[r]
                                /\ rf'[r] = rf[r] /\ shared'[r] = shared[r]
                                /\ roff'[r] = roff[r] /\ rpc'[r] = rpc[r] /\ wr'[r] = wr[r],
         \A i \in Others(q) : node'[i] = node[i]
  PROVE  \A r \in Queue \ {q} : QueueOK(r)'
<1> SUFFICES ASSUME NEW r \in Queue \ {q} PROVE QueueOK(r)'
  OBVIOUS
<1>1. \A i \in Range(dir[r]) : node'[i] = node[i]
  BY DEF Others
<1>2. QueueOK(r)
  BY DEF Place
<1> QED BY <1>1, <1>2, FrameQueue

LEMMA WriteTurnPlace ==
  ASSUME TypeInv, TypeInv', Place, NEW q \in Queue, WriteTurn(q)
  PROVE  Place'
<1> DEFINE c == wr[q]
           s == Second(q, c)
           t == Third(s, c)
<1>0. s = Second(q, wr[q]) /\ t = Third(s, wr[q])
  OBVIOUS
<1>1. s.wid \in {wid[q], wid[q] + 1} /\ (s.wid = wid[q] /\ wf[q] # 0 => s.wf = wf[q])
  <2>1. InodesLeft
    BY DEF WriteTurn
  <2> QED BY <2>1, SecondFacts, SecondSame
<1> HIDE DEF s, t
<1>2. /\ alive[q] /\ c \in Chunk
      /\ Base(q, s, rid[q]) /\ Ready(s) /\ (s.ok => s.wf # 0)
      /\ Attempts(t) /\ t.dir = s.dir /\ t.wid = s.wid /\ t.wf = s.wf
      /\ t.ok => s.ok /\ t.node = [s.node EXCEPT ![s.wf].data = Append(@, c)]
      /\ ~t.ok => t.node = s.node
      /\ node' = t.node /\ dir' = [dir EXCEPT ![q] = t.dir] /\ wf' = [wf EXCEPT ![q] = t.wf]
      /\ wid' = [wid EXCEPT ![q] = t.wid]
      /\ shared' = [shared EXCEPT ![q] = @ /\ t.wf = wf[q]]
      /\ wr' = [wr EXCEPT ![q] = 0] \/ wr' = wr
      /\ UNCHANGED <<alive, rid, rf, roff, rpc>>
  <2> HIDE DEF c
  <2>1. WriteDid(q, s, t)
    BY <1>0, WriteStages
  <2> QED BY <2>1 DEF c, WriteDid
<1>3. QueueOK(q) /\ NoAlias /\ c # 0
  BY DEF Place, WriteTurn
<1> HIDE DEF c
<1>4. /\ dir'[q] = s.dir /\ wf'[q] = s.wf /\ wid'[q] = s.wid /\ alive'[q] = TRUE
      /\ shared'[q] = (shared[q] /\ s.wf = wf[q])
      /\ wr'[q] \in {0, wr[q]} /\ rid'[q] = rid[q] /\ rf'[q] = rf[q] /\ roff'[q] = roff[q]
      /\ rpc'[q] = rpc[q]
  BY <1>2 DEF TypeInv, TypeOK
<1>5. s.node \in Files /\ (s.wf # 0 => s.wf \in Range(s.dir) /\ s.wf \in Inode)
  BY <1>2 DEF Base, Ready, Range, Attempts
<1>6. /\ \A i \in Inode : i # s.wf => node'[i] = s.node[i]
      /\ \A i \in Inode : node'[i].hdr = s.node[i].hdr
      /\ \A i \in Inode : Len(node'[i].data) >= Len(s.node[i].data)
      /\ s.wf = 0 => node' = s.node
  <2>1. CASE t.ok
    <3>1. s.wf \in Inode /\ node' = [s.node EXCEPT ![s.wf].data = Append(@, c)]
      BY <1>2, <1>5, <2>1
    <3>2. \A i \in Inode : s.node[i] \in FileRecord /\ s.node[i].data \in Seq(Chunk)
      BY <1>5 DEF Files, FileRecord
    <3>3. node'[s.wf].data = Append(s.node[s.wf].data, c) /\ node'[s.wf].hdr = s.node[s.wf].hdr
      BY <1>5, <3>1, <3>2 DEF Files, FileRecord
    <3>4. \A i \in Inode : i # s.wf => node'[i] = s.node[i]
      BY <1>5, <3>1 DEF Files
    <3>5. Len(node'[s.wf].data) >= Len(s.node[s.wf].data)
      BY <1>2, <3>1, <3>2, <3>3
    <3>6. \A i \in Inode : Len(s.node[i].data) \in Nat
      BY <3>2
    <3>7. \A i \in Inode : Len(node'[i].data) >= Len(s.node[i].data)
      BY <3>4, <3>5, <3>6
    <3>8. s.wf # 0
      BY <1>2, <2>1
    <3> QED BY <3>3, <3>4, <3>7, <3>8
  <2>2. CASE ~t.ok
    <3>1. node' = s.node
      BY <1>2, <2>2
    <3>2. \A i \in Inode : Len(s.node[i].data) \in Nat
      BY <1>5 DEF Files, FileRecord
    <3> QED BY <3>1, <3>2
  <2> QED BY <2>1, <2>2
<1>7. NoAlias'
  <2>1. /\ \A r \in Queue \ {q} : dir'[r] = dir[r]
        /\ \A p, o \in DOMAIN dir'[q] : dir'[q][p] = dir'[q][o] => p = o
        /\ \A p \in DOMAIN dir'[q] : dir'[q][p] \notin Others(q)
    BY <1>2, <1>4 DEF Base, TypeInv
  <2> QED BY <1>3, <2>1, AliasExcept
<1>8. NoGarbage'
  <2>1. Named(dir') = Range(s.dir) \cup Others(q)
    <3>1. dir'[q] = s.dir /\ \A r \in Queue \ {q} : dir'[r] = dir[r]
      BY <1>2, <1>4 DEF TypeInv
    <3> QED BY <3>1, NamedExcept
  <2>2. \A i \in Inode : i \notin Range(s.dir) \cup Others(q) => s.node[i] = NoFile
    BY <1>2 DEF Base
  <2>3. \A i \in Inode : i \notin Range(s.dir) => i # s.wf
    BY <1>5 DEF Inode
  <2> QED BY <1>6, <2>1, <2>2, <2>3 DEF NoGarbage
<1>9. HeaderFirst'
  <2>1. \A i \in Inode : ~s.node[i].hdr => s.node[i].data = <<>>
    BY <1>2 DEF Base
  <2>2. s.wf # 0 => s.node[s.wf].hdr
    BY <1>2 DEF Ready
  <2>3. 0 \notin Inode
    BY DEF Inode
  <2> QED BY <1>6, <2>1, <2>2, <2>3 DEF HeaderFirst
<1>10. \A r \in Queue \ {q} : QueueOK(r)'
  <2>1. \A i \in Others(q) : node'[i] = node[i]
    <3>1. s.wf # 0 => s.wf \notin Others(q)
      BY <1>2 DEF Base, Ready
    <3>2. 0 \notin Inode /\ Others(q) \subseteq Inode
      BY OthersFacts DEF Inode
    <3>3. \A i \in Others(q) : s.node[i] = node[i]
      BY <1>2 DEF Base
    <3> QED BY <1>6, <3>1, <3>2, <3>3
  <2>2. \A r \in Queue \ {q} : /\ dir'[r] = dir[r] /\ alive'[r] = alive[r]
                               /\ rid'[r] = rid[r] /\ wid'[r] = wid[r] /\ wf'[r] = wf[r]
                               /\ rf'[r] = rf[r] /\ shared'[r] = shared[r]
                               /\ roff'[r] = roff[r] /\ rpc'[r] = rpc[r] /\ wr'[r] = wr[r]
    BY <1>2 DEF TypeInv, TypeOK
  <2> QED BY <2>1, <2>2, OthersKept
<1>11. Writer(q)'
  <2>1. wr'[q] # 0 => rpc'[q] = "idle"
    BY <1>2, <1>3, <1>4 DEF QueueOK, Writer
  <2>2. CASE wf'[q] # 0
    <3>1. s.wid \in DOMAIN s.dir /\ s.wf = s.dir[s.wid] /\ s.node[s.wf].hdr
      BY <1>2, <1>4, <2>2 DEF Ready
    <3>2. node'[s.wf].hdr
      BY <1>4, <1>5, <1>6, <2>2, <3>1
    <3> QED BY <1>4, <2>1, <2>2, <3>1, <3>2 DEF Writer
  <2>3. CASE wf'[q] = 0
    <3>1. node' = s.node /\ Part(s.node, s.dir, s.wid) = <<>>
      BY <1>2, <1>4, <1>6, <2>3 DEF Ready
    <3> QED BY <1>4, <2>1, <2>3, <3>1 DEF Writer
  <2> QED BY <2>2, <2>3
<1>12. Reader(q)'
  <2>1. Reader(q) /\ rpc[q] = "idle"
    <3>1. wr[q] # 0
      BY DEF WriteTurn
    <3> QED BY <1>2, <1>3, <3>1 DEF QueueOK, Writer
  <2>2. CASE rf[q] = 0
    BY <1>4, <2>1, <2>2 DEF Reader
  <2>3. CASE rf[q] # 0
    <3>1. /\ rid[q] \in DOMAIN dir[q] /\ rf[q] = dir[q][rid[q]]
          /\ roff[q] <= Len(node[rf[q]].data)
          /\ shared[q] <=> rf[q] = wf[q]
          /\ rid[q] # wid[q] \/ shared[q]
      BY <2>1, <2>3 DEF Reader
    <3>2. rid[q] \in DOMAIN s.dir /\ rf[q] = s.dir[rid[q]]
      BY <1>2, <3>1 DEF Base
    <3>3. roff[q] <= Len(node'[rf[q]].data)
      <4>1. rid[q] \in Nat /\ rf[q] \in Inode /\ roff[q] \in Nat
        BY <2>3 DEF TypeInv, TypeOK
      <4>2. Part(s.node, s.dir, rid[q]) = Part(node, dir[q], rid[q])
        BY <1>2, <4>1 DEF Base
      <4>3. s.node[rf[q]].data = node[rf[q]].data
        BY <3>1, <3>2, <4>2 DEF Part
      <4>4. Len(node'[rf[q]].data) >= Len(node[rf[q]].data)
        BY <1>6, <4>1, <4>3
      <4>5. Len(node'[rf[q]].data) \in Nat /\ Len(node[rf[q]].data) \in Nat
        BY <4>1 DEF TypeInv, TypeOK
      <4> DEFINE x == Len(node'[rf[q]].data)
                 y == Len(node[rf[q]].data)
                 z == roff[q]
      <4>6. x >= y /\ z <= y /\ x \in Nat /\ y \in Nat /\ z \in Nat
        BY <3>1, <4>1, <4>4, <4>5
      <4> HIDE DEF x, y, z
      <4>7. z <= x
        BY <4>6
      <4> QED BY <4>7 DEF x, z
    <3>4. rid[q] = s.wid => shared[q] /\ s.wf = wf[q] /\ wf[q] = rf[q]
      <4>1. rid[q] \in Nat /\ wid[q] \in Nat /\ rid[q] <= wid[q]
        BY DEF TypeInv, TypeOK
      <4>2. rid[q] = s.wid => rid[q] = wid[q] /\ s.wid = wid[q]
        BY <1>1, <4>1
      <4> QED BY <1>1, <2>3, <3>1, <4>2
    <3>5. (shared[q] /\ s.wf = wf[q]) <=> rf[q] = s.wf
      <4>1. ASSUME rf[q] = s.wf PROVE shared[q] /\ s.wf = wf[q]
        <5>1. s.wid \in DOMAIN s.dir /\ s.dir[s.wid] = s.dir[rid[q]]
          BY <1>2, <2>3, <3>2, <4>1 DEF Ready
        <5>2. s.wid = rid[q]
          BY <1>2, <3>2, <5>1 DEF Base
        <5> QED BY <3>4, <5>2
      <4> QED BY <3>1, <4>1
    <3> QED BY <1>4, <2>1, <2>3, <3>2, <3>3, <3>4, <3>5 DEF Reader
  <2> QED BY <2>2, <2>3
<1>13. QueueOK(q)'
  <2>1. DOMAIN s.dir \subseteq rid[q] .. s.wid
    BY <1>2 DEF Base
  <2> QED BY <1>4, <1>11, <1>12, <2>1 DEF QueueOK
<1> QED BY <1>7, <1>8, <1>9, <1>10, <1>13 DEF Place

\* Steps that leave the files and their names as they are.
LEMMA LocalPlace ==
  ASSUME TypeInv, Place, NEW q \in Queue, UNCHANGED <<node, dir>>,
         \A r \in Queue \ {q} : /\ alive'[r] = alive[r]
                                /\ rid'[r] = rid[r] /\ wid'[r] = wid[r] /\ wf'[r] = wf[r]
                                /\ rf'[r] = rf[r] /\ shared'[r] = shared[r]
                                /\ roff'[r] = roff[r] /\ rpc'[r] = rpc[r] /\ wr'[r] = wr[r],
         QueueOK(q)'
  PROVE  Place'
<1>1. NoAlias' /\ NoGarbage' /\ HeaderFirst'
  BY DEF Place, NoAlias, NoGarbage, HeaderFirst, Named
<1>2. \A r \in Queue \ {q} : QueueOK(r)'
  BY OthersKept
<1> QED BY <1>1, <1>2 DEF Place

LEMMA WriteStartPlace ==
  ASSUME TypeInv, Place, Serialized, NEW q \in Queue, WriteStart(q)
  PROVE  Place'
<1>1. QueueOK(q) /\ alive[q] /\ rpc[q] = "idle"
  BY DEF Place, WriteStart
<1>2. QueueOK(q)'
  <2>1. /\ UNCHANGED <<node, dir, alive, rid, rf, shared, roff, rpc, wid, wf>>
    BY DEF WriteStart, diskVars, readVars
  <2>2. Writer(q)'
    BY <1>1, <2>1 DEF Writer, Part, QueueOK
  <2>3. Reader(q)'
    BY <1>1, <2>1 DEF Reader, QueueOK
  <2> QED BY <1>1, <2>1, <2>2, <2>3 DEF QueueOK
<1> QED BY <1>2, LocalPlace DEF WriteStart, diskVars, readVars, TypeInv, TypeOK

LEMMA ReadStepPlace ==
  ASSUME TypeInv, Place, Serialized, NEW q \in Queue,
         ReadCall(q) \/ OpenShared(q) \/ OpenByName(q) \/ ReadCheck(q)
  PROVE  Place'
<1>1. QueueOK(q) /\ alive[q]
  BY DEF Place, QueueOK, Closed, ReadCall, OpenShared, OpenByName, ReadCheck
<1>2. Writer(q) /\ Reader(q) /\ DOMAIN dir[q] \subseteq rid[q] .. wid[q]
  BY <1>1 DEF QueueOK
<1>3. UNCHANGED <<node, dir, alive, rid, wid, wf, wr>>
  BY DEF ReadCall, OpenShared, OpenByName, ReadCheck, diskVars
<1>4. wr[q] = 0
  BY <1>2 DEF Writer, ReadCall, OpenShared, OpenByName, ReadCheck
<1>5. Writer(q)'
  BY <1>2, <1>3, <1>4 DEF Writer, Part
<1>6. Reader(q)'
  <2>1. CASE ReadCall(q)
    <3>1. /\ rpc'[q] = IF rf[q] = 0 THEN "open" ELSE "check"
          /\ rf' = rf /\ shared' = shared /\ roff' = roff
      BY <2>1 DEF ReadCall, TypeInv, TypeOK
    <3> QED BY <1>2, <1>3, <3>1 DEF Reader
  <2>2. CASE OpenShared(q)
    <3>0. rpc[q] = "open" /\ rf[q] = 0
      BY <1>2, <2>2 DEF OpenShared, Reader
    <3>1. CASE rid[q] = wid[q] /\ wf[q] # 0
      <4>1. rf'[q] = wf[q] /\ shared'[q] = TRUE /\ roff'[q] = 0 /\ rpc'[q] = "check"
        BY <2>2, <3>1 DEF OpenShared, TypeInv, TypeOK
      <4>2. rid[q] \in DOMAIN dir[q] /\ wf[q] = dir[q][rid[q]]
        BY <1>2, <3>1 DEF Writer
      <4>3. 0 <= Len(node[wf[q]].data)
        <5>1. node[wf[q]].data \in Seq(Chunk)
          BY <3>1 DEF TypeInv, TypeOK
        <5> QED BY <5>1
      <4> QED BY <1>3, <3>1, <4>1, <4>2, <4>3 DEF Reader
    <3>2. CASE ~(rid[q] = wid[q] /\ wf[q] # 0)
      <4>1. rpc'[q] = "fopen" /\ rf' = rf /\ shared' = shared /\ roff' = roff
        BY <2>2, <3>2 DEF OpenShared, TypeInv, TypeOK
      <4> QED BY <1>2, <1>3, <3>0, <3>2, <4>1 DEF Reader
    <3> QED BY <3>1, <3>2
  <2>3. CASE OpenByName(q)
    <3>0. /\ rpc[q] = "fopen" /\ rf[q] = 0 /\ (rid[q] # wid[q] \/ wf[q] = 0)
      BY <1>2, <2>3 DEF OpenByName, Reader
    <3>1. CASE rid[q] \in DOMAIN dir[q]
      <4> DEFINE i == dir[q][rid[q]]
      <4>1. rf'[q] = i /\ shared'[q] = FALSE /\ roff'[q] = 0 /\ rpc'[q] = "check"
        BY <2>3, <3>1 DEF OpenByName, TypeInv, TypeOK
      <4>2. i \in Inode /\ 0 \notin Inode
        BY <3>1 DEF TypeInv, TypeOK, Inode
      <4>3. i # wf[q]
        <5>1. ASSUME i = wf[q] PROVE FALSE
          <6>1. wid[q] \in DOMAIN dir[q] /\ dir[q][wid[q]] = dir[q][rid[q]]
            BY <1>2, <4>2, <5>1 DEF Writer
          <6>2. wid[q] = rid[q]
            BY <3>1, <6>1 DEF Place, NoAlias
          <6> QED BY <3>0, <4>2, <5>1, <6>2
        <5> QED BY <5>1
      <4>4. 0 <= Len(node[i].data)
        <5>1. node[i].data \in Seq(Chunk)
          BY <4>2 DEF TypeInv, TypeOK
        <5> QED BY <5>1
      <4> QED BY <1>3, <3>0, <3>1, <4>1, <4>2, <4>3, <4>4 DEF Reader
    <3>2. CASE rid[q] \notin DOMAIN dir[q]
      <4>1. rpc'[q] = "idle" /\ rf' = rf /\ shared' = shared /\ roff' = roff
        BY <2>3, <3>2 DEF OpenByName, TypeInv, TypeOK
      <4> QED BY <1>2, <1>3, <3>0, <4>1 DEF Reader
    <3> QED BY <3>1, <3>2
  <2>4. CASE ReadCheck(q)
    <3>1. /\ rpc[q] = "check" /\ rpc'[q] = IF rid[q] = wid[q] THEN "locked" ELSE "unlocked"
          /\ rf' = rf /\ shared' = shared /\ roff' = roff
      BY <2>4 DEF ReadCheck, TypeInv, TypeOK
    <3> QED BY <1>2, <1>3, <3>1 DEF Reader
  <2> QED BY <2>1, <2>2, <2>3, <2>4
<1>7. QueueOK(q)'
  BY <1>1, <1>2, <1>3, <1>5, <1>6 DEF QueueOK
<1>8. \A r \in Queue \ {q} : rf'[r] = rf[r] /\ shared'[r] = shared[r] /\ roff'[r] = roff[r] /\ rpc'[r] = rpc[r]
  BY DEF ReadCall, OpenShared, OpenByName, ReadCheck, TypeInv, TypeOK
<1> QED BY <1>3, <1>7, <1>8, LocalPlace

\* What read() sees of the part it has open.
LEMMA ReaderSees ==
  ASSUME TypeInv, Place, NEW q \in Queue, rpc[q] \in {"locked", "unlocked"}
  PROVE  /\ alive[q] /\ wr[q] = 0 /\ rf[q] # 0 /\ rf[q] \in Inode
         /\ rid[q] \in DOMAIN dir[q] /\ rf[q] = dir[q][rid[q]]
         /\ node[rf[q]].data \in Seq(Chunk)
         /\ Visible(q) = {Len(node[rf[q]].data)}
         /\ Part(node, dir[q], rid[q]) = node[rf[q]].data
         /\ rid[q] = wid[q] /\ ~shared[q] => wf[q] = 0 /\ node[rf[q]].data = <<>>
<1>1. alive[q] /\ QueueOK(q) /\ rf[q] # 0
  BY DEF Place, QueueOK, Closed, TypeInv, Opened
<1>2. Writer(q) /\ Reader(q)
  BY <1>1 DEF QueueOK
<1>3. rf[q] \in Inode
  BY <1>1 DEF TypeInv, TypeOK
<1>4. rid[q] \in DOMAIN dir[q] /\ rf[q] = dir[q][rid[q]] /\ (shared[q] <=> rf[q] = wf[q])
  BY <1>1, <1>2 DEF Reader
<1>5. Part(node, dir[q], rid[q]) = node[rf[q]].data
  BY <1>4 DEF Part
<1>6. rid[q] = wid[q] /\ ~shared[q] => wf[q] = 0 /\ node[rf[q]].data = <<>>
  BY <1>1, <1>2, <1>5 DEF Reader, Writer
<1>7. Visible(q) = {Len(node[rf[q]].data)}
  BY <1>4 DEF Visible
<1>8. wr[q] = 0
  BY <1>2 DEF Writer
<1>9. node[rf[q]].data \in Seq(Chunk)
  BY <1>3 DEF TypeInv, TypeOK
<1> QED BY <1>1, <1>3, <1>4, <1>5, <1>6, <1>7, <1>8, <1>9

LEMMA ReadDataPlace ==
  ASSUME TypeInv, Place, NEW q \in Queue, ReadData(q)
  PROVE  Place'
<1> DEFINE m == Len(node[rf[q]].data)
<1>1. /\ alive[q] /\ wr[q] = 0 /\ rf[q] # 0 /\ node[rf[q]].data \in Seq(Chunk)
      /\ Visible(q) = {m}
      /\ rid[q] = wid[q] /\ ~shared[q] => wf[q] = 0 /\ node[rf[q]].data = <<>>
  BY ReaderSees DEF ReadData
<1>2. roff[q] \in Nat /\ m \in Nat /\ m > roff[q]
  <2>1. roff[q] \in Nat
    BY DEF TypeInv, TypeOK
  <2>2. m > roff[q]
    BY <1>1 DEF ReadData
  <2> QED BY <1>1, <2>1, <2>2
<1>3. /\ UNCHANGED <<node, dir, alive, rid, rf, shared, wid, wf, wr>>
      /\ rpc'[q] = "idle" /\ roff'[q] = roff[q] + 1
  BY DEF ReadData, diskVars, TypeInv, TypeOK
<1>4. Writer(q) /\ Reader(q) /\ DOMAIN dir[q] \subseteq rid[q] .. wid[q]
  BY <1>1 DEF Place, QueueOK
<1>5. Writer(q)'
  BY <1>3, <1>4 DEF Writer, Part
<1>6. rid[q] = wid[q] => shared[q]
  <2>1. node[rf[q]].data = <<>> => m = 0
    BY <1>1
  <2> HIDE DEF m
  <2> QED BY <1>1, <1>2, <2>1
<1>7. roff[q] + 1 <= m
  <2> HIDE DEF m
  <2> QED BY <1>2
<1>8. Reader(q)'
  BY <1>1, <1>3, <1>4, <1>6, <1>7 DEF Reader
<1>9. QueueOK(q)'
  BY <1>1, <1>3, <1>4, <1>5, <1>8 DEF QueueOK
<1>10. \A r \in Queue \ {q} : rpc'[r] = rpc[r] /\ roff'[r] = roff[r]
  BY DEF ReadData, TypeInv, TypeOK
<1> QED BY <1>3, <1>9, <1>10, LocalPlace

LEMMA NamesFacts ==
  ASSUME NoAlias, NEW q \in Queue
  PROVE  /\ \A p, o \in DOMAIN dir[q] : dir[q][p] = dir[q][o] => p = o
         /\ \A p \in DOMAIN dir[q] : dir[q][p] \notin Others(q)
  BY DEF NoAlias, Others, Range

\* The file of the part being read.
ReadFile(q) == dir[q][rid[q]]

\* The end of a part: its file is gone, the writer's only if it was this one.
LEMMA ReadEndFacts ==
  ASSUME TypeInv, Place, NEW q \in Queue, ReadEnd(q)
  PROVE  /\ \A j \in Inode : node'[j] = IF j = ReadFile(q) THEN NoFile ELSE node[j]
         /\ ReadFile(q) \in Inode /\ ReadFile(q) = rf[q] /\ ReadFile(q) \notin Others(q)
         /\ dir'[q] = Erased(q) /\ wf'[q] = IF rid[q] = wid[q] THEN 0 ELSE wf[q]
         /\ rid[q] # wid[q] => wf[q] # ReadFile(q)
         /\ roff[q] = Len(node[ReadFile(q)].data)
         /\ rf'[q] = 0 /\ shared'[q] = FALSE /\ roff'[q] = 0
         /\ rid'[q] = IF rid[q] < wid[q] THEN rid[q] + 1 ELSE rid[q]
         /\ rpc'[q] \in {"open", "idle"}
         /\ UNCHANGED <<limit, alive, wid, wr, written, seen, lost, restarts, crashes>>
         /\ \A r \in Queue \ {q} : /\ dir'[r] = dir[r] /\ rid'[r] = rid[r] /\ wf'[r] = wf[r]
                                   /\ rf'[r] = rf[r] /\ shared'[r] = shared[r]
                                   /\ roff'[r] = roff[r] /\ rpc'[r] = rpc[r]
<1> DEFINE i == ReadFile(q)
<1>0. i = dir[q][rid[q]]
  BY DEF ReadFile
<1> HIDE DEF i
<1>1. /\ alive[q] /\ wr[q] = 0 /\ i = rf[q] /\ i \in Inode /\ i # 0
      /\ rid[q] \in DOMAIN dir[q] /\ Visible(q) = {Len(node[rf[q]].data)}
      /\ rid[q] = wid[q] /\ ~shared[q] => wf[q] = 0
  BY <1>0, ReaderSees DEF ReadEnd, Inode
<1>2. /\ Writer(q) /\ Reader(q) /\ NoAlias
  BY <1>1 DEF Place, QueueOK
<1>3. rid[q] # wid[q] => wf[q] # i
  <2>1. ASSUME rid[q] # wid[q], wf[q] = i PROVE FALSE
    <3>1. wid[q] \in DOMAIN dir[q] /\ dir[q][wid[q]] = i
      BY <1>1, <1>2, <2>1 DEF Writer
    <3> QED BY <1>0, <1>1, <1>2, <2>1, <3>1, NamesFacts
  <2> QED BY <2>1
<1>4. wf'[q] = IF rid[q] = wid[q] THEN 0 ELSE wf[q]
  <2>1. wf' = IF ClosesWrite(q) THEN [wf EXCEPT ![q] = 0] ELSE wf
    BY DEF ReadEnd
  <2>2. (shared[q] <=> rf[q] = wf[q]) /\ (rpc[q] = "locked" <=> rid[q] = wid[q])
    BY <1>1, <1>2 DEF Reader, ReadEnd
  <2>3. CASE rid[q] = wid[q] /\ shared[q]
    BY <2>1, <2>2, <2>3 DEF ClosesWrite, TypeInv, TypeOK
  <2>4. CASE rid[q] = wid[q] /\ ~shared[q]
    BY <1>1, <2>1, <2>4 DEF ClosesWrite
  <2>5. CASE rid[q] # wid[q]
    BY <2>1, <2>2, <2>5 DEF ClosesWrite
  <2> QED BY <2>3, <2>4, <2>5
<1>5. /\ dir'[q] = Erased(q) /\ rf'[q] = 0 /\ shared'[q] = FALSE /\ roff'[q] = 0
      /\ rid'[q] = IF rid[q] < wid[q] THEN rid[q] + 1 ELSE rid[q]
      /\ rpc'[q] \in {"open", "idle"}
      /\ UNCHANGED <<limit, alive, wid, wr, written, seen, lost, restarts, crashes>>
  BY DEF ReadEnd, HasNextPart, TypeInv, TypeOK
<1>6. \A r \in Queue \ {q} : /\ dir'[r] = dir[r] /\ rid'[r] = rid[r] /\ wf'[r] = wf[r]
                             /\ rf'[r] = rf[r] /\ shared'[r] = shared[r]
                             /\ roff'[r] = roff[r] /\ rpc'[r] = rpc[r]
  BY DEF ReadEnd, HasNextPart, TypeInv, TypeOK
<1>7. i \notin Others(q)
  <2>1. dir[q][rid[q]] \notin Others(q)
    BY <1>1, <1>2, NamesFacts
  <2> QED BY <1>0, <2>1
<1>8. Named(dir') = Range(Erased(q)) \cup Others(q)
  BY <1>5, <1>6, NamedExcept
<1>9. Range(Erased(q)) = Range(dir[q]) \ {i}
  <2>1. /\ DOMAIN Erased(q) = DOMAIN dir[q] \ {rid[q]}
        /\ \A p \in DOMAIN Erased(q) : Erased(q)[p] = dir[q][p]
    BY ErasedType
  <2>2. \A p \in DOMAIN dir[q] : dir[q][p] = i => p = rid[q]
    BY <1>0, <1>1, <1>2, NamesFacts
  <2> QED BY <1>0, <1>1, <2>1, <2>2 DEF Range
<1>10. \A r \in Queue : wf'[r] # i /\ rf'[r] # i
  <2>1. wf'[q] # i /\ rf'[q] # i
    BY <1>1, <1>3, <1>4, <1>5
  <2>2. ASSUME NEW r \in Queue \ {q} PROVE wf[r] # i /\ rf[r] # i
    <3>1. QueueOK(r)
      BY DEF Place
    <3>2. Range(dir[r]) \subseteq Others(q)
      BY DEF Others
    <3>3. wf[r] = 0 \/ wf[r] \in Range(dir[r])
      BY <3>1 DEF QueueOK, Closed, Writer, Range
    <3>4. rf[r] = 0 \/ rf[r] \in Range(dir[r])
      BY <3>1 DEF QueueOK, Closed, Reader, Range
    <3> QED BY <1>1, <1>7, <3>2, <3>3, <3>4
  <2> QED BY <1>6, <2>1, <2>2
<1>11. ASSUME NEW j \in Inode PROVE node'[j] = IF j = i THEN NoFile ELSE node[j]
  <2>1. node' = Live(node, dir', wf', rf')
    BY DEF ReadEnd
  <2>2. node'[j] = IF j \in Named(dir') \/ \E r \in Queue : wf'[r] = j \/ rf'[r] = j
                   THEN node[j] ELSE NoFile
    BY <2>1 DEF Live
  <2>3. CASE j = i
    <3>1. j \notin Named(dir')
      BY <1>7, <1>8, <1>9, <2>3
    <3> QED BY <1>10, <2>2, <2>3, <3>1
  <2>4. CASE j # i /\ j \in Named(dir)
    <3>1. j \in Named(dir')
      BY <1>8, <1>9, <2>4, OthersFacts
    <3> QED BY <2>2, <2>4, <3>1
  <2>5. CASE j # i /\ j \notin Named(dir)
    <3>1. node[j] = NoFile
      BY <2>5 DEF Place, NoGarbage
    <3> QED BY <2>2, <2>5, <3>1
  <2> QED BY <2>3, <2>4, <2>5
<1>12. roff[q] = Len(node[i].data)
  BY <1>1 DEF ReadEnd
<1> QED BY <1>1, <1>3, <1>4, <1>5, <1>6, <1>7, <1>11, <1>12 DEF i

LEMMA ReadEndPlace ==
  ASSUME TypeInv, TypeInv', Place, NEW q \in Queue, ReadEnd(q)
  PROVE  Place'
<1> DEFINE i == ReadFile(q)
<1>0. i = dir[q][rid[q]]
  BY DEF ReadFile
<1>1. /\ \A j \in Inode : node'[j] = IF j = i THEN NoFile ELSE node[j]
      /\ i \in Inode /\ i = rf[q] /\ i \notin Others(q)
      /\ dir'[q] = Erased(q) /\ wf'[q] = IF rid[q] = wid[q] THEN 0 ELSE wf[q]
      /\ rid[q] # wid[q] => wf[q] # i
      /\ roff[q] = Len(node[i].data)
      /\ rf'[q] = 0 /\ shared'[q] = FALSE /\ roff'[q] = 0
      /\ rid'[q] = IF rid[q] < wid[q] THEN rid[q] + 1 ELSE rid[q]
      /\ rpc'[q] \in {"open", "idle"}
      /\ UNCHANGED <<limit, alive, wid, wr, written, seen, lost, restarts, crashes>>
      /\ \A r \in Queue \ {q} : /\ dir'[r] = dir[r] /\ rid'[r] = rid[r] /\ wf'[r] = wf[r]
                                /\ rf'[r] = rf[r] /\ shared'[r] = shared[r]
                                /\ roff'[r] = roff[r] /\ rpc'[r] = rpc[r]
  BY ReadEndFacts
<1> HIDE DEF i
<1>2. /\ alive[q] /\ wr[q] = 0 /\ rid[q] \in DOMAIN dir[q]
  BY ReaderSees DEF ReadEnd
<1>3. Writer(q) /\ NoAlias /\ DOMAIN dir[q] \subseteq rid[q] .. wid[q]
  BY <1>2 DEF Place, QueueOK
<1>4. /\ DOMAIN Erased(q) = DOMAIN dir[q] \ {rid[q]}
      /\ \A p \in DOMAIN Erased(q) : Erased(q)[p] = dir[q][p]
  BY ErasedType
<1>5. NoAlias'
  <2>1. \A p \in DOMAIN dir[q] : dir[q][p] \notin Others(q)
    BY <1>3 DEF NoAlias, Others, Range
  <2>2. /\ \A p, o \in DOMAIN dir'[q] : dir'[q][p] = dir'[q][o] => p = o
        /\ \A p \in DOMAIN dir'[q] : dir'[q][p] \notin Others(q)
    BY <1>1, <1>3, <1>4, <2>1 DEF NoAlias
  <2> QED BY <1>1, <1>3, <2>2, AliasExcept
<1>6. NoGarbage'
  <2>1. Named(dir') = Range(Erased(q)) \cup Others(q)
    BY <1>1, NamedExcept
  <2>2. Range(dir[q]) \subseteq Range(Erased(q)) \cup {i}
    BY <1>0, <1>4 DEF Range
  <2>3. \A j \in Inode : j \notin Named(dir') /\ j # i => j \notin Named(dir)
    BY <2>1, <2>2, OthersFacts
  <2> QED BY <1>1, <2>3 DEF NoGarbage, Place
<1>7. HeaderFirst'
  BY <1>1 DEF HeaderFirst, Place, NoFile
<1>8. \A r \in Queue \ {q} : QueueOK(r)'
  <2>1. \A j \in Others(q) : node'[j] = node[j]
    BY <1>1, OthersFacts
  <2> QED BY <1>1, <2>1, OthersKept
<1>9. rid[q] \in Nat /\ wid[q] \in Nat /\ rid[q] <= wid[q]
  BY DEF TypeInv, TypeOK
<1>10. DOMAIN dir'[q] \subseteq rid'[q] .. wid'[q]
  BY <1>1, <1>3, <1>4, <1>9
<1>11. Writer(q)'
  <2>1. CASE rid[q] = wid[q]
    <3>1. wid'[q] \notin DOMAIN dir'[q]
      BY <1>1, <1>4, <2>1
    <3> QED BY <1>1, <1>2, <2>1, <3>1 DEF Writer, Part
  <2>2. CASE rid[q] # wid[q]
    <3>1. /\ wid[q] \in DOMAIN dir[q] => /\ wid[q] \in DOMAIN dir'[q]
                                         /\ dir'[q][wid[q]] = dir[q][wid[q]]
          /\ wid[q] \notin DOMAIN dir[q] => wid[q] \notin DOMAIN dir'[q]
      BY <1>1, <1>4, <2>2
    <3>2. wid[q] \in DOMAIN dir[q] => dir[q][wid[q]] # i /\ dir[q][wid[q]] \in Inode
      BY <1>0, <1>2, <1>3, <2>2, NamesFacts DEF TypeInv, TypeOK
    <3>3. wf'[q] = wf[q] /\ wid'[q] = wid[q] /\ wr'[q] = 0
      BY <1>1, <1>2, <2>2
    <3>4. Part(node', dir'[q], wid[q]) = Part(node, dir[q], wid[q])
      BY <1>1, <3>1, <3>2 DEF Part
    <3> QED BY <1>1, <1>3, <3>1, <3>2, <3>3, <3>4 DEF Writer
  <2> QED BY <2>1, <2>2
<1>12. Reader(q)'
  BY <1>1 DEF Reader
<1>13. QueueOK(q)'
  BY <1>1, <1>2, <1>10, <1>11, <1>12 DEF QueueOK
<1> QED BY <1>5, <1>6, <1>7, <1>8, <1>13 DEF Place

\* What the constructor opens the last part with.
Recounted(q) == Renumbered(Attempt(q), LastPart(q), DirSize(q) % Word)

\* What the constructor does: s is the state it opens the last part in, t the
\* one it ends in.
CreateDid(q, s, t) ==
  /\ Attempts(s) /\ s.ok /\ s.wid = LastPart(q) /\ s.node = node /\ s.dir = dir[q]
  /\ s.current = DirSize(q) % Word /\ FreeInodes(s.dir) # {} /\ DirSize(q) \in Nat
  /\ Base(q, s, FirstPart(q))
  /\ Base(q, t, FirstPart(q)) /\ Ready(t) /\ t.wid = s.wid
  /\ node' = t.node /\ dir'[q] = t.dir /\ current' = t.current /\ wf'[q] = t.wf
  /\ wid'[q] = t.wid /\ alive'[q] = TRUE /\ rid'[q] = FirstPart(q)
  /\ UNCHANGED <<limit, rf, shared, roff, rpc, wr, written, seen, lost, restarts, crashes>>
  /\ Closed(q) /\ ~alive[q]
  /\ \A r \in Queue \ {q} : /\ dir'[r] = dir[r] /\ alive'[r] = alive[r]
                            /\ rid'[r] = rid[r] /\ wid'[r] = wid[r] /\ wf'[r] = wf[r]

LEMMA CreateStages ==
  ASSUME TypeInv, Place, NEW q \in Queue, Create(q),
         NEW s, s = Recounted(q),
         NEW t, t = OpenWriteFile(q, s)
  PROVE  CreateDid(q, s, t)
<1>1. /\ ~alive[q] /\ InodesLeft
      /\ node' = t.node /\ dir' = [dir EXCEPT ![q] = t.dir]
      /\ current' = t.current /\ wf' = [wf EXCEPT ![q] = t.wf]
      /\ wid' = [wid EXCEPT ![q] = t.wid] /\ alive' = [alive EXCEPT ![q] = TRUE]
      /\ rid' = [rid EXCEPT ![q] = FirstPart(q)]
      /\ UNCHANGED <<limit, rf, shared, roff, rpc, wr, written, seen, lost, restarts, crashes>>
  BY DEF Create, Renumbered, Recounted
<1>2. DirSize(q) \in Nat
  BY PartsSizeType DEF TypeInv, TypeOK, DirSize, PartsSize, Files, FileRecord
<1>3. DirSize(q) % Word \in 0 .. Word - 1
  BY <1>2, ModType, SplitterAssumption
<1>4. /\ Attempts(Attempt(q)) /\ Attempt(q).ok /\ Attempt(q).dir = dir[q] /\ Attempt(q).node = node
      /\ LastPart(q) \in Nat
  BY AttemptType, PartNumbers DEF Attempt
<1> DEFINE a == Attempt(q)
           l == LastPart(q)
           x == DirSize(q) % Word
<1>5. /\ Attempts(s) /\ s.node = a.node /\ s.dir = a.dir /\ s.ok
      /\ s.wid = l /\ s.current = x
  <2>1. s = Renumbered(a, l, x) /\ Attempts(a) /\ a.ok /\ l \in Nat /\ x \in 0 .. Word - 1
    BY <1>3, <1>4 DEF Recounted
  <2> HIDE DEF a, l, x
  <2> QED BY <2>1, RenumberedFacts
<1>6. /\ Attempts(s) /\ s.ok /\ s.wid = LastPart(q) /\ s.node = node /\ s.dir = dir[q]
      /\ s.current = DirSize(q) % Word
  BY <1>4, <1>5
<1>7. FreeInodes(s.dir) # {}
  BY <1>1, <1>6, FreeInodesLess
<1>8. Base(q, s, FirstPart(q))
  BY <1>6, PartNumbers, AttemptBase
<1>9. Base(q, t, FirstPart(q)) /\ Ready(t) /\ t.wid = s.wid
  BY <1>6, <1>7, <1>8, OpenBase
<1>10. Closed(q)
  BY <1>1 DEF Place, QueueOK
<1>11. /\ node' = t.node /\ dir'[q] = t.dir /\ current' = t.current /\ wf'[q] = t.wf
       /\ wid'[q] = t.wid /\ alive'[q] = TRUE /\ rid'[q] = FirstPart(q)
  BY <1>1 DEF TypeInv, TypeOK
<1>12. \A r \in Queue \ {q} : /\ dir'[r] = dir[r] /\ alive'[r] = alive[r]
                              /\ rid'[r] = rid[r] /\ wid'[r] = wid[r] /\ wf'[r] = wf[r]
  BY <1>1 DEF TypeInv, TypeOK
<1> QED BY <1>1, <1>2, <1>6, <1>7, <1>8, <1>9, <1>10, <1>11, <1>12 DEF CreateDid

LEMMA CreatePlace ==
  ASSUME TypeInv, TypeInv', Place, NEW q \in Queue, Create(q)
  PROVE  Place'
<1> DEFINE s == Recounted(q)
           t == OpenWriteFile(q, s)
<1>0. s = Recounted(q) /\ t = OpenWriteFile(q, s)
  OBVIOUS
<1> HIDE DEF s, t
<1>1. CreateDid(q, s, t)
  BY <1>0, CreateStages
<1> USE DEF CreateDid
<1>2. NoAlias'
  BY <1>1, AliasExcept DEF Base, Place
<1>3. NoGarbage'
  <2>1. Named(dir') = Range(t.dir) \cup Others(q)
    BY <1>1, NamedExcept
  <2> QED BY <1>1, <2>1 DEF NoGarbage, Base
<1>4. HeaderFirst'
  BY <1>1 DEF HeaderFirst, Base
<1>5. \A r \in Queue \ {q} : QueueOK(r)'
  <2>1. \A i \in Others(q) : node'[i] = node[i]
    BY <1>1 DEF Base
  <2> QED BY <1>1, <2>1, OthersKept
<1>6. Writer(q)'
  BY <1>1 DEF Writer, Closed, Ready
<1>7. Reader(q)'
  BY <1>1 DEF Reader, Closed
<1>8. QueueOK(q)'
  BY <1>1, <1>6, <1>7 DEF QueueOK, Base
<1> QED BY <1>2, <1>3, <1>4, <1>5, <1>8 DEF Place

LEMMA DestroyPlace ==
  ASSUME TypeInv, Place, NEW q \in Queue, Destroy(q)
  PROVE  Place' /\ node' = node
<1>1. node' = node
  <2>1. node \in Files
    BY DEF TypeInv, TypeOK, Files, FileRecord
  <2>2. Live(node, dir, wf', rf') = node
    BY <2>1, LiveSame DEF Place, NoGarbage
  <2> QED BY <2>2 DEF Destroy
<1>2. /\ alive'[q] = FALSE /\ wf'[q] = 0 /\ rf'[q] = 0 /\ shared'[q] = FALSE /\ roff'[q] = 0
      /\ rpc'[q] = "idle" /\ wr'[q] = 0 /\ UNCHANGED dir
  BY DEF Destroy, TypeInv, TypeOK
<1>3. QueueOK(q)'
  BY <1>2 DEF QueueOK, Closed
<1>4. \A r \in Queue \ {q} : /\ alive'[r] = alive[r]
                             /\ rid'[r] = rid[r] /\ wid'[r] = wid[r] /\ wf'[r] = wf[r]
                             /\ rf'[r] = rf[r] /\ shared'[r] = shared[r]
                             /\ roff'[r] = roff[r] /\ rpc'[r] = rpc[r] /\ wr'[r] = wr[r]
  BY DEF Destroy, TypeInv, TypeOK
<1> QED BY <1>1, <1>2, <1>3, <1>4, LocalPlace

\* What a crash leaves: each file being written is cut, the others stay.
LEMMA CrashFacts ==
  ASSUME TypeInv, Place, Crash
  PROVE  /\ \A q \in Queue : wf[q] # 0 => node'[wf[q]] \in CrashLeft(q)
         /\ \A i \in Inode : (\A q \in Queue : wf[q] # i) => node'[i] = node[i]
<1>1. PICK left \in [Queue -> UNION {CrashLeft(q) : q \in Queue}] :
        /\ \A q \in Queue : left[q] \in CrashLeft(q)
        /\ node' = Live([i \in Inode |->
                          IF \E q \in Queue : wf[q] = i
                          THEN left[CHOOSE q \in Queue : wf[q] = i] ELSE node[i]],
                        dir, [q \in Queue |-> 0], [q \in Queue |-> 0])
  BY DEF Crash
<1> DEFINE n == [i \in Inode |-> IF \E q \in Queue : wf[q] = i
                                 THEN left[CHOOSE q \in Queue : wf[q] = i] ELSE node[i]]
<1>2. \A q \in Queue : wf[q] # 0 => wf[q] \in Inode /\ wf[q] \in Range(dir[q]) /\ wf[q] \in Named(dir)
  <2>1. \A q \in Queue : wf[q] # 0 => wid[q] \in DOMAIN dir[q] /\ wf[q] = dir[q][wid[q]]
    BY DEF Place, QueueOK, Closed, Writer
  <2>2. \A q \in Queue : wf[q] # 0 => wf[q] \in Range(dir[q])
    BY <2>1 DEF Range
  <2>3. \A q \in Queue : wf[q] # 0 => wf[q] \in Named(dir)
    BY <2>2, OthersFacts
  <2>4. \A q \in Queue : wf[q] # 0 => wf[q] \in Inode
    BY DEF TypeInv, TypeOK
  <2> QED BY <2>2, <2>3, <2>4
<1>3. ASSUME NEW q \in Queue, NEW r \in Queue, wf[q] # 0, wf[q] = wf[r] PROVE q = r
  <2>1. wf[r] \in Range(dir[r]) /\ wf[q] \in Range(dir[q])
    BY <1>2, <1>3
  <2> QED BY <1>3, <2>1 DEF Place, NoAlias, Range
<1>4. ASSUME NEW q \in Queue, wf[q] # 0 PROVE n[wf[q]] = left[q]
  <2> DEFINE r == CHOOSE p \in Queue : wf[p] = wf[q]
  <2>1. r \in Queue /\ wf[r] = wf[q]
    OBVIOUS
  <2>2. r = q
    <3> HIDE DEF r
    <3> QED BY <1>3, <1>4, <2>1
  <2>3. n[wf[q]] = left[r]
    BY <1>2, <1>4
  <2> HIDE DEF r, n
  <2> QED BY <2>2, <2>3
<1>5. \A i \in Inode : (\A q \in Queue : wf[q] # i) => n[i] = node[i]
  OBVIOUS
<1>6. ASSUME NEW i \in Inode, i \in Named(dir) PROVE node'[i] = n[i]
  <2>1. node' = Live(n, dir, [q \in Queue |-> 0], [q \in Queue |-> 0])
    BY <1>1
  <2> HIDE DEF n
  <2> QED BY <1>6, <2>1 DEF Live
<1>7. ASSUME NEW i \in Inode, i \notin Named(dir) PROVE node'[i] = NoFile
  <2>1. node' = Live(n, dir, [q \in Queue |-> 0], [q \in Queue |-> 0])
    BY <1>1
  <2>2. i # 0
    BY DEF Inode
  <2> HIDE DEF n
  <2> QED BY <1>7, <2>1, <2>2 DEF Live
<1> HIDE DEF n
<1>8. \A q \in Queue : wf[q] # 0 => node'[wf[q]] \in CrashLeft(q)
  BY <1>1, <1>2, <1>4, <1>6
<1>9. ASSUME NEW i \in Inode, \A q \in Queue : wf[q] # i PROVE node'[i] = node[i]
  <2>1. CASE i \in Named(dir)
    BY <1>5, <1>6, <1>9, <2>1
  <2>2. CASE i \notin Named(dir)
    BY <1>7, <2>2 DEF Place, NoGarbage
  <2> QED BY <2>1, <2>2
<1> QED BY <1>8, <1>9

\* The file being written after the crash.
LEMMA CrashedFile ==
  ASSUME TypeInv, Place, NEW q \in Queue, wf[q] # 0, NEW f, f \in CrashLeft(q)
  PROVE  \E k \in 0 .. Len(node[wf[q]].data) :
            /\ f.data = SubSeq(node[wf[q]].data, 1, k)
            /\ f.hdr \/ f = NoFile
            /\ rf[q] = wf[q] => roff[q] <= k
<1> DEFINE g == node[wf[q]]
           m == IF rf[q] = wf[q] THEN roff[q] ELSE 0
<1>1. g \in FileRecord /\ g.data \in Seq(Chunk) /\ m \in Nat /\ roff[q] \in Nat
  BY DEF TypeInv, TypeOK, FileRecord
<1>2. g.hdr
  BY DEF Place, QueueOK, Closed, Writer
<1>3. CrashLeft(q) = {[g EXCEPT !.data = SubSeq(@, 1, k)] : k \in m .. Len(g.data)}
                     \cup (IF m = 0 THEN {NoFile} ELSE {})
  BY DEF CrashLeft
<1> HIDE DEF g
<1>4. CASE \E k \in m .. Len(g.data) : f = [g EXCEPT !.data = SubSeq(@, 1, k)]
  <2>1. PICK k \in m .. Len(g.data) : f = [g EXCEPT !.data = SubSeq(@, 1, k)]
    BY <1>4
  <2>2. f.data = SubSeq(g.data, 1, k) /\ f.hdr
    BY <1>1, <1>2, <2>1 DEF FileRecord
  <2>3. k \in 0 .. Len(g.data) /\ m <= k
    <3> HIDE DEF m
    <3> QED BY <1>1, <2>1
  <2>4. rf[q] = wf[q] => roff[q] <= k
    BY <2>3
  <2> QED BY <2>2, <2>3, <2>4 DEF g
<1>5. CASE m = 0 /\ f = NoFile
  <2>1. 0 \in 0 .. Len(g.data) /\ SubSeq(g.data, 1, 0) = <<>>
    BY <1>1
  <2>2. f.data = <<>>
    BY <1>5 DEF NoFile
  <2>3. rf[q] = wf[q] => roff[q] <= 0
    BY <1>5
  <2> QED BY <1>5, <2>1, <2>2, <2>3 DEF g
<1>6. f \in {[g EXCEPT !.data = SubSeq(@, 1, k)] : k \in m .. Len(g.data)} \/ (m = 0 /\ f = NoFile)
  BY <1>3
<1> QED BY <1>4, <1>5, <1>6

LEMMA CrashPlace ==
  ASSUME TypeInv, TypeInv', Place, Crash
  PROVE  Place'
<1>1. UNCHANGED dir /\ \A q \in Queue : /\ alive'[q] = FALSE /\ wf'[q] = 0 /\ rf'[q] = 0
                                        /\ shared'[q] = FALSE /\ roff'[q] = 0
                                        /\ rpc'[q] = "idle" /\ wr'[q] = 0
  BY DEF Crash
<1>2. \A q \in Queue : QueueOK(q)'
  BY <1>1 DEF QueueOK, Closed
<1>3. NoAlias'
  BY <1>1 DEF Place, NoAlias
<1>4. \A q \in Queue : wf[q] # 0 => wf[q] \in Named(dir)
  BY DEF Place, QueueOK, Closed, Writer, Named
<1>5. NoGarbage'
  <2>1. \A i \in Inode : i \notin Named(dir) => \A q \in Queue : wf[q] # i
    BY <1>4 DEF Inode
  <2>2. \A i \in Inode : i \notin Named(dir) => node'[i] = node[i]
    BY <2>1, CrashFacts
  <2>3. Named(dir') = Named(dir)
    BY <1>1 DEF Named
  <2> QED BY <2>2, <2>3 DEF Place, NoGarbage
<1>6. HeaderFirst'
  <2> SUFFICES ASSUME NEW i \in Inode, ~node'[i].hdr PROVE node'[i].data = <<>>
    BY DEF HeaderFirst
  <2>1. CASE \A q \in Queue : wf[q] # i
    BY <2>1, CrashFacts DEF Place, HeaderFirst
  <2>2. ASSUME NEW q \in Queue, wf[q] = i PROVE node'[i].data = <<>>
    <3>1. wf[q] # 0
      BY <2>2 DEF Inode
    <3>2. node'[i] \in CrashLeft(q)
      BY <2>2, <3>1, CrashFacts
    <3>3. node'[i].hdr \/ node'[i] = NoFile
      BY <3>1, <3>2, CrashedFile
    <3> QED BY <3>3 DEF NoFile
  <2> QED BY <2>1, <2>2
<1> QED BY <1>2, <1>3, <1>5, <1>6 DEF Place

LEMMA InitPlace == Init => Place
<1> SUFFICES ASSUME Init PROVE Place
  OBVIOUS
<1>1. \A q \in Queue : DOMAIN dir[q] = {}
  BY DEF Init, EmptyDir
<1>2. NoAlias
  BY <1>1 DEF NoAlias
<1>3. NoGarbage /\ HeaderFirst
  BY DEF Init, NoGarbage, HeaderFirst, NoFile
<1>4. \A q \in Queue : ~alive[q] /\ Closed(q)
  BY DEF Init, Closed
<1> QED BY <1>2, <1>3, <1>4 DEF Place, QueueOK

LEMMA NextPlace ==
  ASSUME Serialized, TypeInv, TypeInv', Place, [Next]_vars
  PROVE  Place'
<1>1. CASE UNCHANGED vars
  BY <1>1 DEF vars, diskVars, readVars, Place, NoAlias, NoGarbage, HeaderFirst, QueueOK, Closed,
              Writer, Reader, Part, Named
<1>2. CASE Next
  BY <1>2, WriteStartPlace, WriteTurnPlace, ReadStepPlace, ReadDataPlace, ReadEndPlace,
     CreatePlace, DestroyPlace, CrashPlace DEF Next, Read
<1> QED BY <1>1, <1>2

\* Types and places hold together.
SplitterInv == TypeInv /\ Place

LEMMA SplitterInvInductive ==
  ASSUME Serialized
  PROVE  Spec => []SplitterInv
<1>1. Init => SplitterInv
  BY InitType, InitPlace DEF SplitterInv
<1>2. SplitterInv /\ [Next]_vars => SplitterInv'
  BY NextType, NextPlace DEF SplitterInv
<1> QED BY <1>1, <1>2, PTL DEF Spec

-----------------------------------------------------------------------------
(* The parts of a queue, end to end *)

\* The chunks of each part.
Parts(n, d) == [p \in Nat |-> Part(n, d, p)]

LEMMA PartsType ==
  ASSUME NEW n \in Files, NEW d, IsDir(d)
  PROVE  \A p \in Nat : Parts(n, d)[p] = Part(n, d, p) /\ Parts(n, d)[p] \in Seq(Chunk)
<1> SUFFICES ASSUME NEW p \in Nat PROVE Part(n, d, p) \in Seq(Chunk)
  BY DEF Parts
<1>1. CASE p \in DOMAIN d
  BY <1>1 DEF Part, IsDir, Files, FileRecord
<1>2. CASE p \notin DOMAIN d
  BY <1>2 DEF Part
<1> QED BY <1>1, <1>2

\* As many parts may be joined as one wants: those after the last are empty.
DiskJoined ==
  TypeInv => \A q \in Queue : \A n \in Nat \ {0} :
    DOMAIN dir[q] \subseteq 0 .. n - 1 => Disk(q) = Joined(Parts(node, dir[q]), n)

LEMMA DiskIsJoined == DiskJoined
<1> SUFFICES ASSUME TypeInv, NEW q \in Queue, NEW n \in Nat \ {0},
                    DOMAIN dir[q] \subseteq 0 .. n - 1
             PROVE  Disk(q) = Joined(Parts(node, dir[q]), n)
  BY DEF DiskJoined
<1> DEFINE l == LastPart(q)
           f == Parts(node, dir[q])
<1>1. node \in Files /\ IsDir(dir[q])
  BY DEF TypeInv, TypeOK, Files, FileRecord
<1>2. l \in Nat /\ l + 1 <= n /\ DOMAIN dir[q] \subseteq 0 .. l
  <2>1. CASE DOMAIN dir[q] = {}
    BY <2>1 DEF LastPart
  <2>2. CASE DOMAIN dir[q] # {}
    BY <2>2, PartNumbers
  <2> QED BY <2>1, <2>2
<1> HIDE DEF l
<1>3. Disk(q) = Joined(f, l + 1)
  <2>1. Disk(q) = FlattenSeq([i \in 1 .. l + 1 |->
                     IF i - 1 \in DOMAIN dir[q] THEN node[dir[q][i - 1]].data ELSE <<>>])
    BY DEF Disk, l
  <2>2. \A i \in 1 .. l + 1 :
          f[i - 1] = IF i - 1 \in DOMAIN dir[q] THEN node[dir[q][i - 1]].data ELSE <<>>
    BY <1>2 DEF Parts, Part
  <2> HIDE DEF f
  <2>3. [i \in 1 .. l + 1 |-> IF i - 1 \in DOMAIN dir[q] THEN node[dir[q][i - 1]].data ELSE <<>>]
        = [i \in 1 .. l + 1 |-> f[i - 1]]
    BY <2>2
  <2> QED BY <2>1, <2>3 DEF Joined
<1>4. \A p \in Nat : f[p] \in Seq(Chunk) /\ f[p] = Part(node, dir[q], p)
  BY <1>1, PartsType
<1>5. \A i \in l + 1 .. n - 1 : f[i] = <<>>
  BY <1>2, <1>4 DEF Part
<1>6. \A i \in 0 .. n - 1 : f[i] \in Seq(Chunk)
  BY <1>4
<1> HIDE DEF f
<1>7. Joined(f, n) = Joined(f, l + 1)
  BY <1>2, <1>5, <1>6, JoinedTail
<1> QED BY <1>3, <1>7 DEF f

LEMMA DiskIsJoinedNext == DiskJoined'
  BY DiskIsJoined, PTL

PartsNumbered ==
  TypeInv => \A q \in Queue : LastPart(q) \in Nat /\ DOMAIN dir[q] \subseteq 0 .. LastPart(q)

LEMMA PartNumbersNext == PartsNumbered'
<1>1. PartsNumbered
  BY PartNumbers DEF PartsNumbered
<1> QED BY <1>1, PTL

\* Where no part changes, the disk does not.
LEMMA DiskSame ==
  ASSUME TypeInv, TypeInv', NEW q \in Queue,
         \A p \in Nat : Part(node', dir'[q], p) = Part(node, dir[q], p)
  PROVE  Disk(q)' = Disk(q)
<1>1. /\ IsDir(dir[q]) /\ IsDir(dir'[q])
      /\ DOMAIN dir[q] \subseteq 0 .. LastPart(q) /\ DOMAIN dir'[q] \subseteq 0 .. LastPart(q)'
      /\ LastPart(q) \in Nat /\ LastPart(q)' \in Nat
  <2>1. /\ LastPart(q) \in Nat /\ DOMAIN dir[q] \subseteq 0 .. LastPart(q)
        /\ IsDir(dir[q])
    BY PartNumbers DEF TypeInv
  <2>2. /\ LastPart(q)' \in Nat /\ DOMAIN dir'[q] \subseteq 0 .. LastPart(q)'
    BY PartNumbersNext DEF PartsNumbered
  <2> QED BY <2>1, <2>2 DEF TypeInv
<1> DEFINE n == LastPart(q) + LastPart(q)' + 1
<1>2. n \in Nat \ {0} /\ DOMAIN dir[q] \subseteq 0 .. n - 1 /\ DOMAIN dir'[q] \subseteq 0 .. n - 1
  BY <1>1
<1> HIDE DEF n
<1>3. Disk(q) = Joined(Parts(node, dir[q]), n)
  BY <1>2, DiskIsJoined DEF DiskJoined
<1>4. Disk(q)' = Joined(Parts(node', dir'[q]), n)
  BY <1>2, DiskIsJoinedNext DEF DiskJoined
<1>5. Parts(node', dir'[q]) = Parts(node, dir[q])
  BY DEF Parts
<1> QED BY <1>3, <1>4, <1>5

\* The part being read is at the head of the disk.
LEMMA HeadOfDisk ==
  ASSUME TypeInv, NEW q \in Queue, DOMAIN dir[q] \subseteq rid[q] .. wid[q],
         NEW n, NEW d, n \in Files, IsDir(d), DOMAIN d \subseteq 0 .. wid[q],
         \A p \in Nat : Part(n, d, p) = IF p = rid[q] THEN <<>> ELSE Part(node, dir[q], p)
  PROVE  /\ Disk(q) = Part(node, dir[q], rid[q]) \o Joined(Parts(n, d), wid[q] + 1)
         /\ Part(node, dir[q], rid[q]) \in Seq(Chunk)
         /\ Joined(Parts(n, d), wid[q] + 1) \in Seq(Chunk)
<1> DEFINE f == Parts(node, dir[q])
           g == Parts(n, d)
           m == wid[q] + 1
<1>1. node \in Files /\ IsDir(dir[q]) /\ rid[q] \in Nat /\ wid[q] \in Nat /\ rid[q] <= wid[q]
  BY DEF TypeInv, TypeOK, Files, FileRecord
<1>2. \A p \in Nat : f[p] \in Seq(Chunk) /\ f[p] = Part(node, dir[q], p)
  BY <1>1, PartsType
<1>3. \A p \in Nat : g[p] \in Seq(Chunk) /\ g[p] = Part(n, d, p)
  BY PartsType
<1>4. m \in Nat \ {0} /\ rid[q] \in 0 .. m - 1 /\ DOMAIN dir[q] \subseteq 0 .. m - 1
  BY <1>1
<1>5. \A i \in 0 .. rid[q] - 1 : f[i] = <<>>
  BY <1>1, <1>2 DEF Part
<1>6. \A i \in 0 .. m - 1 : g[i] = IF i = rid[q] THEN <<>> ELSE f[i]
  BY <1>2, <1>3, <1>4
<1>7. \A i \in 0 .. m - 1 : f[i] \in Seq(Chunk) /\ g[i] \in Seq(Chunk)
  BY <1>2, <1>3, <1>4
<1>8. f[rid[q]] = Part(node, dir[q], rid[q]) /\ f[rid[q]] \in Seq(Chunk)
  BY <1>1, <1>2
<1> HIDE DEF f, g, m
<1>9. Joined(f, m) = f[rid[q]] \o Joined(g, m)
  <2> DEFINE k == rid[q]
  <2>1. Beheaded(Chunk, f, g, m, k)
    BY <1>4, <1>5, <1>6, <1>7 DEF Beheaded
  <2> HIDE DEF k
  <2>2. Joined(f, m) = f[k] \o Joined(g, m)
    BY <2>1, JoinedHead
  <2> QED BY <2>2 DEF k
<1>10. Joined(g, m) \in Seq(Chunk)
  BY <1>4, <1>7, JoinedType
<1>11. Disk(q) = Joined(f, m)
  BY <1>4, DiskIsJoined DEF DiskJoined, f
<1> QED BY <1>8, <1>9, <1>10, <1>11 DEF g, m

\* read() goes past the end of a part: what was read, no more and no less, is
\* not on disk any longer.
LEMMA ReadEndDisk ==
  ASSUME TypeInv, TypeInv', Place, NEW q \in Queue, ReadEnd(q)
  PROVE  /\ Disk(q)' = SubSeq(Disk(q), roff[q] + 1, Len(Disk(q)))
         /\ alive[q] /\ alive'[q] = alive[q] /\ roff'[q] = 0
<1> DEFINE i == ReadFile(q)
           a == Part(node, dir[q], rid[q])
           b == Joined(Parts(node', dir'[q]), wid[q] + 1)
<1>1. /\ \A j \in Inode : node'[j] = IF j = i THEN NoFile ELSE node[j]
      /\ i \in Inode /\ dir'[q] = Erased(q) /\ roff[q] = Len(node[i].data)
      /\ roff'[q] = 0 /\ UNCHANGED alive
  <2> HIDE DEF i
  <2> QED BY ReadEndFacts DEF i
<1>2. alive[q] /\ rid[q] \in DOMAIN dir[q] /\ i = dir[q][rid[q]]
  BY ReaderSees DEF ReadEnd, ReadFile
<1>3. DOMAIN dir[q] \subseteq rid[q] .. wid[q] /\ rid[q] \in Nat /\ wid[q] \in Nat
  BY <1>2 DEF Place, QueueOK, TypeInv, TypeOK
<1>4. DOMAIN dir'[q] = DOMAIN dir[q] \ {rid[q]} /\ \A p \in DOMAIN dir'[q] : dir'[q][p] = dir[q][p]
  BY <1>1 DEF Erased
<1>5. node' \in Files /\ IsDir(dir'[q]) /\ DOMAIN dir'[q] \subseteq 0 .. wid[q]
  BY <1>3, <1>4 DEF TypeInv, TypeOK, Files, FileRecord
<1>6. ASSUME NEW p \in Nat
      PROVE  Part(node', dir'[q], p) = IF p = rid[q] THEN <<>> ELSE Part(node, dir[q], p)
  <2>1. CASE p = rid[q]
    BY <1>4, <2>1 DEF Part
  <2>2. CASE p # rid[q] /\ p \in DOMAIN dir[q]
    <3>1. dir[q][p] # i /\ dir[q][p] \in Inode /\ p \in DOMAIN dir'[q] /\ dir'[q][p] = dir[q][p]
      BY <1>2, <1>4, <2>2, NamesFacts DEF Place, TypeInv, TypeOK
    <3> QED BY <1>1, <2>2, <3>1 DEF Part
  <2>3. CASE p # rid[q] /\ p \notin DOMAIN dir[q]
    BY <1>4, <2>3 DEF Part
  <2> QED BY <2>1, <2>2, <2>3
<1>7. Disk(q) = a \o b /\ a \in Seq(Chunk) /\ b \in Seq(Chunk)
  BY <1>3, <1>5, <1>6, HeadOfDisk
<1>8. Len(a) = roff[q]
  BY <1>1, <1>2 DEF Part
<1>9. Disk(q)' = b
  <2>1. wid[q] + 1 \in Nat \ {0} /\ DOMAIN dir'[q] \subseteq 0 .. (wid[q] + 1) - 1
    BY <1>3, <1>5
  <2> QED BY <2>1, DiskIsJoinedNext DEF DiskJoined
<1> HIDE DEF a, b
<1>10. SubSeq(a \o b, Len(a) + 1, Len(a \o b)) = b
  BY <1>7
<1> QED BY <1>1, <1>2, <1>7, <1>8, <1>9, <1>10

\* An open part is no longer than the disk.
LEMMA OffsetOnDisk ==
  ASSUME TypeInv, Place, NEW q \in Queue
  PROVE  /\ Disk(q) \in Seq(Chunk) /\ roff[q] \in Nat /\ roff[q] <= Len(Disk(q))
         /\ rf[q] # 0 => Len(node[rf[q]].data) <= Len(Disk(q))
<1> DEFINE d == [p \in DOMAIN dir[q] \ {rid[q]} |-> dir[q][p]]
<1>0. roff[q] \in Nat /\ node \in Files /\ IsDir(dir[q]) /\ LastPart(q) \in Nat
  BY PartNumbers DEF TypeInv, TypeOK, Files, FileRecord
<1>1. Disk(q) \in Seq(Chunk)
  <2> DEFINE f == Parts(node, dir[q])
             n == LastPart(q) + 1
  <2>1. n \in Nat \ {0} /\ DOMAIN dir[q] \subseteq 0 .. n - 1
    BY <1>0, PartNumbers
  <2>2. \A p \in 0 .. n - 1 : f[p] \in Seq(Chunk)
    BY <1>0, PartsType
  <2> HIDE DEF f, n
  <2>3. Joined(f, n) \in Seq(Chunk)
    BY <2>1, <2>2, JoinedType
  <2> QED BY <2>1, <2>3, DiskIsJoined DEF DiskJoined, f
<1>2. CASE rf[q] = 0
  <2>1. roff[q] = 0
    BY <1>2 DEF Place, QueueOK, Closed, Reader
  <2> QED BY <1>0, <1>1, <1>2, <2>1
<1>3. CASE rf[q] # 0
  <2>1. /\ DOMAIN dir[q] \subseteq rid[q] .. wid[q] /\ rid[q] \in DOMAIN dir[q]
        /\ rf[q] = dir[q][rid[q]] /\ roff[q] <= Len(node[rf[q]].data)
    BY <1>3 DEF Place, QueueOK, Closed, Reader
  <2>2. rid[q] \in Nat /\ wid[q] \in Nat
    BY DEF TypeInv, TypeOK
  <2>3. IsDir(d) /\ DOMAIN d \subseteq 0 .. wid[q]
    <3>1. IsFiniteSet(DOMAIN dir[q] \ {rid[q]})
      BY <1>0, FS_Subset DEF IsDir
    <3> QED BY <1>0, <2>1, <2>2, <3>1 DEF IsDir
  <2>4. \A p \in Nat : Part(node, d, p) = IF p = rid[q] THEN <<>> ELSE Part(node, dir[q], p)
    BY DEF Part
  <2> HIDE DEF d
  <2>5. /\ Disk(q) = Part(node, dir[q], rid[q]) \o Joined(Parts(node, d), wid[q] + 1)
        /\ Part(node, dir[q], rid[q]) \in Seq(Chunk)
        /\ Joined(Parts(node, d), wid[q] + 1) \in Seq(Chunk)
    BY <1>0, <2>1, <2>3, <2>4, HeadOfDisk
  <2>6. Part(node, dir[q], rid[q]) = node[rf[q]].data
    BY <2>1 DEF Part
  <2> DEFINE a == node[rf[q]].data
             b == Joined(Parts(node, d), wid[q] + 1)
  <2>7. Disk(q) = a \o b /\ a \in Seq(Chunk) /\ b \in Seq(Chunk) /\ roff[q] <= Len(a)
    BY <2>1, <2>5, <2>6
  <2> HIDE DEF a, b
  <2>8. Len(a) <= Len(Disk(q)) /\ Len(a) \in Nat /\ Len(Disk(q)) \in Nat
    BY <2>7
  <2> QED BY <1>0, <1>1, <2>7, <2>8 DEF a
<1> QED BY <1>2, <1>3

LEMMA ReadDataDisk ==
  ASSUME TypeInv, TypeInv', Place, NEW q \in Queue, ReadData(q)
  PROVE  /\ alive[q] /\ roff[q] < Len(Disk(q)) /\ roff'[q] = roff[q] + 1
         /\ UNCHANGED alive /\ Disk(q)' = Disk(q)
<1>1. alive[q] /\ rf[q] # 0 /\ Visible(q) = {Len(node[rf[q]].data)} /\ node[rf[q]].data \in Seq(Chunk)
  BY ReaderSees DEF ReadData
<1>2. Len(node[rf[q]].data) > roff[q]
  BY <1>1 DEF ReadData
<1>3. Disk(q) \in Seq(Chunk) /\ roff[q] \in Nat /\ Len(node[rf[q]].data) <= Len(Disk(q))
  BY <1>1, OffsetOnDisk
<1>4. roff[q] < Len(Disk(q))
  BY <1>1, <1>2, <1>3
<1>5. UNCHANGED <<node, dir, alive>> /\ roff'[q] = roff[q] + 1
  BY DEF ReadData, diskVars, TypeInv, TypeOK
<1>6. Disk(q)' = Disk(q)
  BY <1>5, DiskSame
<1> QED BY <1>1, <1>4, <1>5, <1>6

\* Files that differ in part w at most.
DifferAt(w, n, d, m, e) ==
  /\ w \in Nat /\ n \in Files /\ IsDir(d) /\ m \in Files /\ IsDir(e)
  /\ \A p \in Nat : p # w => Part(m, e, p) = Part(n, d, p)

\* The part being written is at the end of the disk.
LEMMA EndOfDisk ==
  ASSUME NEW n, NEW d, NEW e, NEW m, NEW w, DifferAt(w, n, d, m, e)
  PROVE  /\ Joined(Parts(n, d), w + 1) = Joined(Parts(n, d), w) \o Part(n, d, w)
         /\ Joined(Parts(m, e), w + 1) = Joined(Parts(n, d), w) \o Part(m, e, w)
         /\ Joined(Parts(n, d), w) \in Seq(Chunk)
         /\ Part(n, d, w) \in Seq(Chunk) /\ Part(m, e, w) \in Seq(Chunk)
<1> DEFINE f == Parts(n, d)
           g == Parts(m, e)
<1>0. w \in Nat
  BY DEF DifferAt
<1>1. \A p \in Nat : f[p] \in Seq(Chunk) /\ f[p] = Part(n, d, p)
  BY PartsType DEF DifferAt
<1>2. \A p \in Nat : g[p] \in Seq(Chunk) /\ g[p] = Part(m, e, p)
  BY PartsType DEF DifferAt
<1> HIDE DEF f, g
<1>3. /\ \A i \in 0 .. w : f[i] \in Seq(Chunk)
      /\ \A i \in 0 .. w : g[i] \in Seq(Chunk)
      /\ \A i \in 0 .. w - 1 : f[i] \in Seq(Chunk)
      /\ \A i \in 0 .. w - 1 : f[i] = g[i]
  BY <1>0, <1>1, <1>2 DEF DifferAt
<1>4. Joined(f, w + 1) = Joined(f, w) \o f[w]
  BY <1>0, <1>3, JoinedNext
<1>5. Joined(g, w + 1) = Joined(g, w) \o g[w]
  BY <1>0, <1>3, JoinedNext
<1>6. Joined(f, w) = Joined(g, w)
  BY <1>0, <1>3, JoinedSame
<1>7. Joined(f, w) \in Seq(Chunk)
  BY <1>0, <1>3, JoinedType
<1> QED BY <1>0, <1>1, <1>2, <1>4, <1>5, <1>6, <1>7 DEF f, g

\* One call of splitter::write(): the chunk is added at the end of the disk,
\* whatever parts were created for it, or the disk is as it was.
LEMMA WriteTurnDisk ==
  ASSUME TypeInv, TypeInv', Place, NEW q \in Queue, WriteTurn(q)
  PROVE  /\ alive[q] /\ UNCHANGED <<alive, roff>> /\ wr[q] \in Chunk
         /\ Disk(q)' = Append(Disk(q), wr[q]) \/ Disk(q)' = Disk(q)
<1> DEFINE s == Second(q, wr[q])
           t == Third(s, wr[q])
<1>0. s = Second(q, wr[q]) /\ t = Third(s, wr[q])
  OBVIOUS
<1> HIDE DEF s, t
<1>1. WriteDid(q, s, t)
  BY <1>0, WriteStages
<1> USE DEF WriteDid
<1> DEFINE c == wr[q]
           w == s.wid
<1>2. dir'[q] = s.dir
  BY <1>1 DEF TypeInv
<1>3. /\ \A p \in Nat : Part(s.node, s.dir, p) = Part(node, dir[q], p)
      /\ \A p, o \in DOMAIN s.dir : s.dir[p] = s.dir[o] => p = o
      /\ DOMAIN s.dir \subseteq 0 .. w /\ w \in Nat
      /\ s.node \in Files /\ IsDir(s.dir)
      /\ \A p \in DOMAIN dir[q] : p \in DOMAIN s.dir
  <2>1. Attempts(s)
    BY <1>1 DEF Base
  <2> QED BY <1>1, <2>1 DEF Base, Attempts
<1>4. CASE ~t.ok
  <2>1. \A p \in Nat : Part(node', dir'[q], p) = Part(node, dir[q], p)
    BY <1>1, <1>2, <1>3, <1>4
  <2>2. Disk(q)' = Disk(q)
    BY <2>1, DiskSame
  <2> QED BY <1>1, <2>2
<1>5. CASE t.ok
  <2>1. /\ node' = [s.node EXCEPT ![s.wf].data = Append(@, c)]
        /\ s.wf = s.dir[w] /\ w \in DOMAIN s.dir /\ s.wf \in Inode
    BY <1>1, <1>3, <1>5 DEF Ready, IsDir
  <2>2. node'[s.wf].data = Append(s.node[s.wf].data, c)
    <3>1. s.node[s.wf] \in FileRecord
      BY <1>3, <2>1 DEF Files
    <3>2. node'[s.wf] = [s.node[s.wf] EXCEPT !.data = Append(@, c)]
      BY <1>3, <2>1 DEF Files
    <3> HIDE DEF c
    <3> QED BY <3>1, <3>2 DEF FileRecord
  <2>3. \A j \in Inode : j # s.wf => node'[j] = s.node[j]
    BY <1>3, <2>1 DEF Files
  <2>4. ASSUME NEW p \in Nat, p # w PROVE Part(node', dir'[q], p) = Part(node, dir[q], p)
    <3>1. Part(node', dir'[q], p) = Part(s.node, s.dir, p)
      <4>1. CASE p \in DOMAIN s.dir
        <5>1. s.dir[p] # s.wf /\ s.dir[p] \in Inode
          BY <1>3, <2>1, <2>4, <4>1 DEF IsDir
        <5> QED BY <1>2, <2>3, <4>1, <5>1 DEF Part
      <4>2. CASE p \notin DOMAIN s.dir
        BY <1>2, <4>2 DEF Part
      <4> QED BY <4>1, <4>2
    <3> QED BY <1>3, <3>1
  <2>5. Part(node', dir'[q], w) = Append(Part(node, dir[q], w), c)
    <3>1. Part(node', dir'[q], w) = Append(Part(s.node, s.dir, w), c)
      BY <1>2, <2>1, <2>2 DEF Part
    <3> QED BY <1>3, <3>1
  <2>6. node \in Files /\ IsDir(dir[q]) /\ node' \in Files /\ IsDir(dir'[q])
    BY DEF TypeInv, TypeOK, Files, FileRecord
  <2> DEFINE a == Joined(Parts(node, dir[q]), w)
             b == Part(node, dir[q], w)
  <2>7. /\ Joined(Parts(node, dir[q]), w + 1) = a \o b
        /\ Joined(Parts(node', dir'[q]), w + 1) = a \o Part(node', dir'[q], w)
        /\ a \in Seq(Chunk) /\ b \in Seq(Chunk)
    <3>1. DifferAt(w, node, dir[q], node', dir'[q])
      BY <1>3, <2>4, <2>6 DEF DifferAt
    <3> HIDE DEF w
    <3> QED BY <3>1, EndOfDisk
  <2>8. /\ w + 1 \in Nat \ {0} /\ DOMAIN dir[q] \subseteq 0 .. (w + 1) - 1
        /\ DOMAIN dir'[q] \subseteq 0 .. (w + 1) - 1
    BY <1>2, <1>3
  <2>9. Disk(q) = a \o b
    BY <2>7, <2>8, DiskIsJoined DEF DiskJoined
  <2>10. Disk(q)' = a \o Append(b, c)
    BY <2>5, <2>7, <2>8, DiskIsJoinedNext DEF DiskJoined
  <2>11. a \o Append(b, c) = Append(a \o b, c)
    <3>1. c \in Chunk
      BY <1>1
    <3> HIDE DEF a, b, c
    <3> QED BY <2>7, <3>1
  <2> QED BY <1>1, <2>9, <2>10, <2>11
<1> QED BY <1>4, <1>5

LEMMA CreateDisk ==
  ASSUME TypeInv, TypeInv', Place, NEW q \in Queue, Create(q)
  PROVE  ~alive[q] /\ alive'[q] = TRUE /\ UNCHANGED roff /\ Disk(q)' = Disk(q)
<1> DEFINE s == Recounted(q)
           t == OpenWriteFile(q, s)
<1>0. s = Recounted(q) /\ t = OpenWriteFile(q, s)
  OBVIOUS
<1> HIDE DEF s, t
<1>1. CreateDid(q, s, t)
  BY <1>0, CreateStages
<1> USE DEF CreateDid
<1>2. \A p \in Nat : Part(node', dir'[q], p) = Part(node, dir[q], p)
  BY <1>1 DEF Base
<1>3. Disk(q)' = Disk(q)
  BY <1>2, DiskSame
<1> QED BY <1>1, <1>3

\* The parts of queue q after the crash: the one being written is cut.
LEMMA CrashParts ==
  ASSUME TypeInv, Place, Crash, NEW q \in Queue, NEW p \in Nat
  PROVE  wf[q] = 0 \/ p # wid[q] => Part(node', dir'[q], p) = Part(node, dir[q], p)
<1> SUFFICES ASSUME wf[q] = 0 \/ p # wid[q]
             PROVE  Part(node', dir'[q], p) = Part(node, dir[q], p)
  OBVIOUS
<1>0. UNCHANGED dir
  BY DEF Crash
<1>1. CASE p \in DOMAIN dir[q]
  <2>1. dir[q][p] \in Inode /\ dir[q][p] # 0
    BY <1>1 DEF TypeInv, TypeOK, Inode
  <2>2. ASSUME NEW r \in Queue, wf[r] = dir[q][p] PROVE FALSE
    <3>1. wid[r] \in DOMAIN dir[r] /\ wf[r] = dir[r][wid[r]]
      BY <2>1, <2>2 DEF Place, QueueOK, Closed, Writer
    <3>2. r = q /\ wid[r] = p
      <4>1. NoAlias /\ dir[q][p] = dir[r][wid[r]]
        BY <2>2, <3>1 DEF Place
      <4> QED BY <1>1, <3>1, <4>1 DEF NoAlias
    <3> QED BY <2>1, <2>2, <3>2
  <2>3. node'[dir[q][p]] = node[dir[q][p]]
    BY <2>1, <2>2, CrashFacts
  <2> QED BY <1>0, <1>1, <2>3 DEF Part
<1>2. CASE p \notin DOMAIN dir[q]
  BY <1>0, <1>2 DEF Part
<1> QED BY <1>1, <1>2

\* A crash cuts the disk at its end, not before what was read.
LEMMA CrashDisk ==
  ASSUME TypeInv, TypeInv', Place, Crash, NEW q \in Queue
  PROVE  /\ alive'[q] = FALSE /\ roff'[q] = 0
         /\ \E k \in roff[q] .. Len(Disk(q)) : Disk(q)' = SubSeq(Disk(q), 1, k)
<1>1. alive'[q] = FALSE /\ roff'[q] = 0 /\ UNCHANGED dir
  BY DEF Crash
<1>2. Disk(q) \in Seq(Chunk) /\ roff[q] \in Nat /\ roff[q] <= Len(Disk(q))
  BY OffsetOnDisk
<1>3. CASE wf[q] = 0
  <2>1. \A p \in Nat : Part(node', dir'[q], p) = Part(node, dir[q], p)
    BY <1>3, CrashParts
  <2>2. Disk(q)' = Disk(q)
    BY <2>1, DiskSame
  <2>3. Disk(q) = SubSeq(Disk(q), 1, Len(Disk(q))) /\ Len(Disk(q)) \in roff[q] .. Len(Disk(q))
    BY <1>2
  <2> QED BY <1>1, <2>2, <2>3
<1>4. CASE wf[q] # 0
  <2> DEFINE w == wid[q]
             a == Joined(Parts(node, dir[q]), w)
             b == Part(node, dir[q], w)
  <2>1. /\ alive[q] /\ Reader(q) /\ DOMAIN dir[q] \subseteq rid[q] .. w
        /\ w \in DOMAIN dir[q] /\ wf[q] = dir[q][w]
    BY <1>4 DEF Place, QueueOK, Closed, Writer
  <2>2. w \in Nat /\ rid[q] \in Nat /\ rid[q] <= w
    BY DEF TypeInv, TypeOK
  <2>3. DifferAt(w, node, dir[q], node', dir'[q])
    BY <2>2, CrashParts DEF DifferAt, TypeInv, TypeOK, Files, FileRecord
  <2>4. /\ Joined(Parts(node, dir[q]), w + 1) = a \o b
        /\ Joined(Parts(node', dir'[q]), w + 1) = a \o Part(node', dir'[q], w)
        /\ a \in Seq(Chunk) /\ b \in Seq(Chunk)
    <3> HIDE DEF w
    <3> QED BY <2>3, EndOfDisk
  <2>5. /\ w + 1 \in Nat \ {0} /\ DOMAIN dir[q] \subseteq 0 .. (w + 1) - 1
        /\ DOMAIN dir'[q] \subseteq 0 .. (w + 1) - 1
    BY <1>1, <2>1, <2>2
  <2>6. Disk(q) = a \o b
    BY <2>4, <2>5, DiskIsJoined DEF DiskJoined
  <2>7. Disk(q)' = a \o Part(node', dir'[q], w)
    BY <2>4, <2>5, DiskIsJoinedNext DEF DiskJoined
  <2>8. node'[wf[q]] \in CrashLeft(q)
    BY <1>4, CrashFacts
  <2>9. PICK j \in 0 .. Len(node[wf[q]].data) :
          /\ node'[wf[q]].data = SubSeq(node[wf[q]].data, 1, j)
          /\ rf[q] = wf[q] => roff[q] <= j
    BY <1>4, <2>8, CrashedFile
  <2>10. /\ b = node[wf[q]].data
         /\ Part(node', dir'[q], w) = SubSeq(b, 1, j) /\ j \in 0 .. Len(b)
    BY <1>1, <2>1, <2>9 DEF Part
  <2>11. roff[q] <= Len(a) + j
    <3>1. CASE rf[q] = wf[q]
      BY <1>2, <2>4, <2>9, <3>1
    <3>2. CASE rf[q] = 0
      <4>1. roff[q] = 0
        BY <2>1, <3>2 DEF Reader
      <4> QED BY <2>4, <2>9, <4>1
    <3>3. CASE rf[q] # 0 /\ rf[q] # wf[q]
      <4>1. rid[q] \in DOMAIN dir[q] /\ rf[q] = dir[q][rid[q]] /\ roff[q] <= Len(node[rf[q]].data)
        BY <2>1, <3>3 DEF Reader
      <4>2. rid[q] < w
        BY <2>1, <2>2, <3>3, <4>1
      <4> DEFINE k == rid[q]
                 f == Parts(node, dir[q])
                 h == [p \in Nat |-> IF p = k THEN <<>> ELSE f[p]]
      <4>3. \A p \in Nat : f[p] \in Seq(Chunk) /\ f[p] = Part(node, dir[q], p)
        BY PartsType DEF TypeInv, TypeOK, Files, FileRecord
      <4>4. f[k] = node[rf[q]].data
        BY <2>2, <4>1, <4>3 DEF Part
      <4>5. \A i \in 0 .. k - 1 : f[i] = <<>>
        BY <2>1, <2>2, <4>3 DEF Part
      <4>0. a = Joined(f, w)
        OBVIOUS
      <4> HIDE DEF f
      <4>6. Beheaded(Chunk, f, h, w, k)
        BY <2>2, <4>2, <4>3, <4>5 DEF Beheaded
      <4>7. \A i \in 0 .. w - 1 : h[i] \in Seq(Chunk)
        BY <4>3
      <4> HIDE DEF h, k
      <4>8. a = f[k] \o Joined(h, w)
        <5> HIDE DEF a, b, w
        <5>1. Joined(f, w) = f[k] \o Joined(h, w)
          BY <4>6, JoinedHead
        <5> QED BY <4>0, <5>1
      <4>9. Joined(h, w) \in Seq(Chunk)
        BY <2>2, <4>7, JoinedType
      <4>10. f[k] \in Seq(Chunk) /\ Len(f[k]) >= roff[q]
        BY <2>2, <4>1, <4>3, <4>4 DEF k
      <4> HIDE DEF a
      <4>11. Len(a) >= Len(f[k])
        <5> DEFINE x == f[k]
                   y == Joined(h, w)
        <5>1. a = x \o y /\ x \in Seq(Chunk) /\ y \in Seq(Chunk)
          BY <4>8, <4>9, <4>10
        <5> HIDE DEF x, y
        <5>2. Len(a) = Len(x) + Len(y) /\ Len(x) \in Nat /\ Len(y) \in Nat
          BY <5>1
        <5> QED BY <5>2 DEF x
      <4> QED BY <1>2, <2>4, <2>9, <4>10, <4>11
    <3> QED BY <3>1, <3>2, <3>3
  <2> HIDE DEF a, b, w
  <2>12. a \o SubSeq(b, 1, j) = SubSeq(a \o b, 1, Len(a) + j) /\ Len(a) + j <= Len(a \o b)
    <3>1. Len(a) \in Nat /\ Len(b) \in Nat /\ j \in Nat /\ j <= Len(b)
      BY <2>4, <2>10
    <3>2. Len(a \o b) = Len(a) + Len(b)
      BY <2>4
    <3> QED BY <2>4, <3>1, <3>2
  <2>13. Len(a) + j \in roff[q] .. Len(Disk(q))
    BY <1>2, <2>4, <2>6, <2>10, <2>11, <2>12
  <2> QED BY <1>1, <2>6, <2>7, <2>10, <2>12, <2>13
<1> QED BY <1>3, <1>4

\* What the others have is not touched by a write or a construction.
LEMMA WriteTurnOthers ==
  ASSUME TypeInv, Place, NEW q \in Queue, WriteTurn(q)
  PROVE  \A i \in Others(q) : node'[i] = node[i]
<1> DEFINE s == Second(q, wr[q])
           t == Third(s, wr[q])
<1>0. s = Second(q, wr[q]) /\ t = Third(s, wr[q])
  OBVIOUS
<1> HIDE DEF s, t
<1>1. WriteDid(q, s, t)
  BY <1>0, WriteStages
<1> USE DEF WriteDid
<1>2. /\ s.node \in Files /\ Others(q) \subseteq Inode
      /\ \A i \in Others(q) : s.node[i] = node[i]
      /\ \A p \in DOMAIN s.dir : s.dir[p] \notin Others(q)
  BY <1>1, OthersFacts DEF Base, Attempts
<1>3. t.ok => s.wf \notin Others(q)
  BY <1>1, <1>2 DEF Ready
<1>4. CASE t.ok
  <2>1. \A i \in Inode : i # s.wf => node'[i] = s.node[i]
    BY <1>1, <1>2, <1>4 DEF Files
  <2> QED BY <1>2, <1>3, <1>4, <2>1
<1>5. CASE ~t.ok
  BY <1>1, <1>2, <1>5
<1> QED BY <1>4, <1>5

LEMMA CreateOthers ==
  ASSUME TypeInv, Place, NEW q \in Queue, Create(q)
  PROVE  \A i \in Others(q) : node'[i] = node[i]
<1> DEFINE s == Recounted(q)
           t == OpenWriteFile(q, s)
<1>0. s = Recounted(q) /\ t = OpenWriteFile(q, s)
  OBVIOUS
<1> HIDE DEF s, t
<1>1. CreateDid(q, s, t)
  BY <1>0, CreateStages
<1> USE DEF CreateDid
<1> QED BY <1>1 DEF Base

\* What is read, written, opened or closed in queue q is not seen in another.
LEMMA OtherDisk ==
  ASSUME TypeInv, TypeInv', Place, NEW q \in Queue, NEW r \in Queue, r # q,
         WriteTurn(q) \/ ReadEnd(q) \/ Create(q)
  PROVE  alive'[r] = alive[r] /\ roff'[r] = roff[r] /\ Disk(r)' = Disk(r)
<1>1. \A i \in Others(q) : node'[i] = node[i]
  <2>1. CASE WriteTurn(q)
    BY <2>1, WriteTurnOthers
  <2>2. CASE ReadEnd(q)
    <3>1. /\ \A j \in Inode : node'[j] = IF j = ReadFile(q) THEN NoFile ELSE node[j]
          /\ ReadFile(q) \notin Others(q)
      BY <2>2, ReadEndFacts
    <3> QED BY <3>1, OthersFacts
  <2>3. CASE Create(q)
    BY <2>3, CreateOthers
  <2> QED BY <2>1, <2>2, <2>3
<1>2. dir'[r] = dir[r] /\ alive'[r] = alive[r] /\ roff'[r] = roff[r]
  BY DEF WriteTurn, ReadEnd, Create, TypeInv, TypeOK
<1>3. \A p \in DOMAIN dir[r] : dir[r][p] \in Others(q)
  BY DEF Others, Range
<1>4. \A p \in Nat : Part(node', dir'[r], p) = Part(node, dir[r], p)
  BY <1>1, <1>2, <1>3 DEF Part
<1>5. Disk(r)' = Disk(r)
  BY <1>4, DiskSame
<1> QED BY <1>2, <1>5

\* The other steps leave every disk as it is.
LEMMA QuietDisk ==
  ASSUME TypeInv, TypeInv', Place, NEW q \in Queue, NEW r \in Queue,
         WriteStart(q) \/ ReadCall(q) \/ OpenShared(q) \/ OpenByName(q) \/ ReadCheck(q)
  PROVE  alive'[r] = alive[r] /\ roff'[r] = roff[r] /\ Disk(r)' = Disk(r)
<1>1. UNCHANGED <<node, dir, alive>>
  BY DEF WriteStart, ReadCall, OpenShared, OpenByName, ReadCheck, diskVars
<1>2. Disk(r)' = Disk(r)
  BY <1>1, DiskSame
<1>3. roff'[r] = roff[r]
  <2>1. rpc[q] \in {"open", "fopen"} => roff[q] = 0
    BY DEF Place, QueueOK, Closed, Reader
  <2>2. CASE WriteStart(q) \/ ReadCall(q) \/ ReadCheck(q)
    BY <2>2 DEF WriteStart, ReadCall, ReadCheck, readVars
  <2>3. CASE OpenShared(q)
    BY <2>1, <2>3 DEF OpenShared, TypeInv, TypeOK
  <2>4. CASE OpenByName(q)
    BY <2>1, <2>4 DEF OpenByName, TypeInv, TypeOK
  <2> QED BY <2>2, <2>3, <2>4
<1> QED BY <1>1, <1>2, <1>3

\* The destructor, seen from queue r; a chunk read in another queue.
LEMMA DestroyDisk ==
  ASSUME TypeInv, TypeInv', Place, NEW q \in Queue, NEW r \in Queue, Destroy(q)
  PROVE  /\ Disk(r)' = Disk(r)
         /\ r = q => alive'[r] = FALSE /\ roff'[r] = 0
         /\ r # q => alive'[r] = alive[r] /\ roff'[r] = roff[r]
<1>1. node' = node /\ dir' = dir
  BY DestroyPlace DEF Destroy
<1>2. Disk(r)' = Disk(r)
  BY <1>1, DiskSame
<1>3. alive' = [alive EXCEPT ![q] = FALSE] /\ roff' = [roff EXCEPT ![q] = 0]
  BY DEF Destroy
<1>4. alive \in [Queue -> BOOLEAN] /\ roff \in [Queue -> Nat]
  BY DEF TypeInv, TypeOK
<1>5. r = q => alive'[r] = FALSE /\ roff'[r] = 0
  BY <1>3, <1>4
<1>6. r # q => alive'[r] = alive[r] /\ roff'[r] = roff[r]
  BY <1>3, <1>4
<1> QED BY <1>2, <1>5, <1>6

LEMMA ReadDataOther ==
  ASSUME TypeInv, TypeInv', Place, NEW q \in Queue, NEW r \in Queue, r # q, ReadData(q)
  PROVE  alive'[r] = alive[r] /\ roff'[r] = roff[r] /\ Disk(r)' = Disk(r)
<1>1. UNCHANGED <<node, dir, alive>> /\ roff'[r] = roff[r]
  BY DEF ReadData, diskVars, TypeInv, TypeOK
<1>2. Disk(r)' = Disk(r)
  BY <1>1, DiskSame
<1> QED BY <1>1, <1>2

\* Every step of the splitters is a step of the file of queue r, or leaves it.
LEMMA NextFile ==
  ASSUME Queue # {}, TypeInv, TypeInv', Place, [Next]_vars
  PROVE  [File!FileNext]_<<alive[AnyQueue], Disk(AnyQueue), roff[AnyQueue]>>
<1> DEFINE r == AnyQueue
           Same == alive'[r] = alive[r] /\ roff'[r] = roff[r] /\ Disk(r)' = Disk(r)
<1>0. r \in Queue
  BY DEF AnyQueue
<1> HIDE DEF r
<1> SUFFICES [File!FileNext]_<<alive[r], Disk(r), roff[r]>>
  BY DEF r
<1>1. Same => [File!FileNext]_<<alive[r], Disk(r), roff[r]>>
  OBVIOUS
<1> HIDE DEF Same
<1> USE DEF File!FileNext
<1>2. CASE UNCHANGED vars
  <2>1. UNCHANGED <<node, dir, alive, roff>>
    BY <1>2 DEF vars, diskVars, readVars
  <2>2. Disk(r)' = Disk(r)
    BY <1>0, <2>1, DiskSame
  <2> QED BY <1>1, <2>1, <2>2 DEF Same
<1>3. CASE Crash
  <2>1. File!FileCrash
    BY <1>0, <1>3, CrashDisk DEF File!FileCrash, r
  <2> QED BY <2>1
<1>4. ASSUME NEW q \in Queue, Destroy(q) PROVE [File!FileNext]_<<alive[r], Disk(r), roff[r]>>
  <2>1. CASE q = r
    <3>1. File!FileClose
      BY <1>0, <1>4, <2>1, DestroyDisk DEF File!FileClose, r
    <3> QED BY <3>1
  <2>2. CASE q # r
    BY <1>0, <1>1, <1>4, <2>2, DestroyDisk DEF Same
  <2> QED BY <2>1, <2>2
<1>5. ASSUME NEW q \in Queue, Create(q) PROVE [File!FileNext]_<<alive[r], Disk(r), roff[r]>>
  <2>1. CASE q = r
    <3>1. File!Open
      BY <1>0, <1>5, <2>1, CreateDisk DEF File!Open, r
    <3> QED BY <3>1
  <2>2. CASE q # r
    BY <1>0, <1>1, <1>5, <2>2, OtherDisk DEF Same
  <2> QED BY <2>1, <2>2
<1>6. ASSUME NEW q \in Queue, WriteTurn(q) PROVE [File!FileNext]_<<alive[r], Disk(r), roff[r]>>
  <2>1. CASE q = r
    <3>1. /\ alive[r] /\ UNCHANGED <<alive, roff>> /\ wr[r] \in Chunk
          /\ Disk(r)' = Append(Disk(r), wr[r]) \/ Disk(r)' = Disk(r)
      BY <1>0, <1>6, <2>1, WriteTurnDisk
    <3>2. CASE Disk(r)' = Disk(r)
      BY <1>1, <3>1, <3>2 DEF Same
    <3>3. CASE Disk(r)' = Append(Disk(r), wr[r])
      <4>1. alive[r] = TRUE
        BY <1>0, <3>1 DEF TypeInv, TypeOK
      <4>2. alive[r] /\ File!FileWrite(wr[r])
        BY <3>1, <3>3, <4>1 DEF File!FileWrite, r
      <4> QED BY <3>1, <4>2 DEF r
    <3> QED BY <3>1, <3>2, <3>3
  <2>2. CASE q # r
    BY <1>0, <1>1, <1>6, <2>2, OtherDisk DEF Same
  <2> QED BY <2>1, <2>2
<1>7. ASSUME NEW q \in Queue, ReadData(q) PROVE [File!FileNext]_<<alive[r], Disk(r), roff[r]>>
  <2>1. CASE q = r
    <3>1. File!ReadOne
      BY <1>0, <1>7, <2>1, ReadDataDisk DEF File!ReadOne, r
    <3> QED BY <3>1
  <2>2. CASE q # r
    BY <1>0, <1>1, <1>7, <2>2, ReadDataOther DEF Same
  <2> QED BY <2>1, <2>2
<1>8. ASSUME NEW q \in Queue, ReadEnd(q) PROVE [File!FileNext]_<<alive[r], Disk(r), roff[r]>>
  <2>1. CASE q = r
    <3>1. File!Erase
      BY <1>0, <1>8, <2>1, ReadEndDisk DEF File!Erase, File!Unread, r
    <3> QED BY <3>1
  <2>2. CASE q # r
    BY <1>0, <1>1, <1>8, <2>2, OtherDisk DEF Same
  <2> QED BY <2>1, <2>2
<1>9. ASSUME NEW q \in Queue,
             WriteStart(q) \/ ReadCall(q) \/ OpenShared(q) \/ OpenByName(q) \/ ReadCheck(q)
      PROVE  [File!FileNext]_<<alive[r], Disk(r), roff[r]>>
  BY <1>0, <1>1, <1>9, QuietDisk DEF Same
<1> HIDE DEF File!FileNext
<1> QED BY <1>2, <1>3, <1>4, <1>5, <1>6, <1>7, <1>8, <1>9 DEF Next, Read

LEMMA InitFile ==
  ASSUME Queue # {}, Init
  PROVE  File!FileInit
<1> DEFINE r == AnyQueue
           f == Parts(node, dir[r])
<1>1. r \in Queue
  BY DEF AnyQueue
<1> HIDE DEF r
<1>2. alive[r] = FALSE /\ roff[r] = 0 /\ DOMAIN dir[r] = {}
  BY <1>1 DEF Init, EmptyDir
<1>3. TypeInv
  BY InitType
<1>4. Disk(r) = Joined(f, 1)
  BY <1>1, <1>2, <1>3, DiskIsJoined DEF DiskJoined
<1>5. f[0] = <<>>
  BY <1>2 DEF Parts, Part
<1>6. Joined(f, 1) = Joined(f, 0)
  <2> HIDE DEF f
  <2>1. \A i \in 0 .. 1 - 1 : f[i] = <<>>
    BY <1>5
  <2>2. <<>> \in Seq(Chunk)
    OBVIOUS
  <2>3. \A i \in 0 .. 1 - 1 : f[i] \in Seq(Chunk)
    BY <2>1, <2>2
  <2> QED BY <2>1, <2>3, JoinedTail
<1>7. Disk(r) = <<>>
  BY <1>4, <1>6, JoinedZero
<1> QED BY <1>2, <1>7 DEF File!FileInit, r

\* When the owner serializes reads and writes, the parts, names, open files
\* and offsets of a queue amount to the file that a muxer relies on: written
\* chunks are appended, chunks are read in order, what was read of it and
\* nothing else is erased, and a crash cuts it at its end at most
\* (splitter::read(), splitter::write(), the constructor and the destructor).
\* For any number of queues, chunks, part size, limit, restarts and crashes.
THEOREM FileImplemented ==
  ASSUME Serialized, Queue # {}
  PROVE  Spec => ImplementsFile
<1>1. Init => SplitterInv /\ File!FileInit
  BY InitType, InitPlace, InitFile DEF SplitterInv
<1>2. SplitterInv /\ [Next]_vars => SplitterInv'
  BY NextType, NextPlace DEF SplitterInv
<1>3. SplitterInv /\ SplitterInv' /\ [Next]_vars =>
        [File!FileNext]_<<alive[AnyQueue], Disk(AnyQueue), roff[AnyQueue]>>
  BY NextFile DEF SplitterInv
<1>4. SplitterInv /\ SplitterInv' /\ [Next]_vars => [File!FileNext]_(File!fileVars)
  BY <1>3 DEF File!fileVars
<1> QED BY <1>1, <1>2, <1>4, PTL DEF Spec, ImplementsFile, File!FileSpec

-----------------------------------------------------------------------------
(***************************************************************************)
(* The account of the disk accessor, in a process with one queue file:     *)
(* set_current_size() is given the size of one queue, so with several of   *)
(* them the account is not theirs.                                         *)
(***************************************************************************)
\* The size of a sequence of chunks.
DataSize(s) == SumFunction([i \in DOMAIN s |-> Size[s[i]]])

LEMMA DataSizeFacts ==
  ASSUME NEW s \in Seq(Chunk)
  PROVE  /\ DataSize(s) \in Nat
         /\ \A c \in Chunk : DataSize(Append(s, c)) = DataSize(s) + Size[c]
         /\ \A k \in 0 .. Len(s) : /\ DataSize(SubSeq(s, 1, k)) \in Nat
                                   /\ DataSize(SubSeq(s, 1, k)) <= DataSize(s)
<1> DEFINE D == 1 .. Len(s)
           g == [i \in D |-> Size[s[i]]]
<1>1. Len(s) \in Nat /\ DOMAIN s = D /\ \A i \in D : s[i] \in Chunk
  OBVIOUS
<1>2. IsFiniteSet(D)
  BY <1>1, FS_Interval
<1>3. \A c \in Chunk : Size[c] \in Nat
  BY SplitterAssumption
<1>4. DOMAIN g = D /\ (\A i \in D : g[i] = Size[s[i]] /\ g[i] \in Nat /\ g[i] <= g[i] /\ g[i] \in Int)
  BY <1>1, <1>3
<1>5. DataSize(s) = SumFunctionOnSet(g, D)
  BY <1>1 DEF DataSize, SumFunction
<1>6. DataSize(s) \in Nat
  <2> HIDE DEF g, D
  <2> QED BY <1>2, <1>4, <1>5, SumBounds
<1>7. ASSUME NEW c \in Chunk PROVE DataSize(Append(s, c)) = DataSize(s) + Size[c]
  <2> DEFINE t == Append(s, c)
             E == D \cup {Len(s) + 1}
             h == [i \in E |-> Size[t[i]]]
  <2>1. DOMAIN t = E /\ Len(s) + 1 \notin D
    BY <1>1
  <2>2. DataSize(t) = SumFunctionOnSet(h, E)
    BY <2>1 DEF DataSize, SumFunction
  <2>3. h[Len(s) + 1] = Size[c] /\ \A i \in D : h[i] = g[i]
    BY <1>1
  <2>4. \A i \in D \cup {Len(s) + 1} : h[i] \in Int
    BY <1>3, <1>4, <2>3
  <2> HIDE DEF g, D, h, t
  <2>5. SumFunctionOnSet(h, D \cup {Len(s) + 1}) = h[Len(s) + 1] + SumFunctionOnSet(h, D)
    BY <1>2, <2>1, <2>4, SumAdd
  <2>6. SumFunctionOnSet(h, D) = SumFunctionOnSet(g, D)
    BY <1>2, <2>3, SumEqual
  <2> QED BY <1>3, <1>5, <1>6, <2>2, <2>3, <2>5, <2>6 DEF t
<1>8. ASSUME NEW k \in 0 .. Len(s)
      PROVE  DataSize(SubSeq(s, 1, k)) \in Nat /\ DataSize(SubSeq(s, 1, k)) <= DataSize(s)
  <2> DEFINE t == SubSeq(s, 1, k)
             E == 1 .. k
             h == [i \in E |-> Size[t[i]]]
  <2>1. DOMAIN t = E /\ E \in SUBSET D /\ \A i \in E : t[i] = s[i]
    BY <1>1
  <2>2. DataSize(t) = SumFunctionOnSet(h, E)
    BY <2>1 DEF DataSize, SumFunction
  <2>3. \A i \in E : h[i] = g[i]
    BY <1>1, <2>1
  <2>4. IsFiniteSet(E)
    BY <1>1, FS_Interval
  <2> HIDE DEF g, D, h, E, t
  <2>5. SumFunctionOnSet(h, E) = SumFunctionOnSet(g, E)
    BY <2>3, <2>4, SumEqual
  <2>6. SumFunctionOnSet(g, E) <= SumFunctionOnSet(g, D)
    BY <1>2, <1>4, <2>1, SumSubset
  <2>7. SumFunctionOnSet(g, E) \in Nat
    BY <1>2, <1>4, <2>1, SumBounds
  <2> QED BY <1>5, <2>2, <2>5, <2>6, <2>7 DEF t
<1> QED BY <1>6, <1>7, <1>8

\* How the size of a file follows its header and its chunks.
LEMMA FileSizeFacts ==
  ASSUME NEW f \in FileRecord
  PROVE  /\ FileSize(f) \in Nat /\ FileSize(NoFile) = 0
         /\ \A g \in FileRecord : (~f.hdr /\ g.hdr /\ g.data = f.data) => FileSize(g) = FileSize(f) + Header
         /\ \A g \in FileRecord : \A c \in Chunk :
              (g.hdr = f.hdr /\ g.data = Append(f.data, c)) => FileSize(g) = FileSize(f) + Size[c]
         /\ \A g \in FileRecord : \A k \in 0 .. Len(f.data) :
              (f.hdr /\ g.data = SubSeq(f.data, 1, k)) => FileSize(g) <= FileSize(f)
<1>1. \A g \in FileRecord : /\ g.data \in Seq(Chunk) /\ g.hdr \in BOOLEAN
                       /\ FileSize(g) = (IF g.hdr THEN 1 ELSE 0) + DataSize(g.data)
  BY DEF FileRecord, FileSize, DataSize, Header
<1>2. \A g \in FileRecord : DataSize(g.data) \in Nat
  BY <1>1, DataSizeFacts
<1>3. FileSize(NoFile) = 0
  <2> DEFINE h == [i \in DOMAIN <<>> |-> Size[<<>>[i]]]
  <2>1. DOMAIN h = {}
    OBVIOUS
  <2>2. FileSize(NoFile) = 0 + SumFunction(h)
    BY DEF FileSize, NoFile
  <2> HIDE DEF h
  <2>3. SumFunction(h) = 0
    BY <2>1, SumEmpty DEF SumFunction
  <2> QED BY <2>2, <2>3
<1>4. \A g \in FileRecord : (~f.hdr /\ g.hdr /\ g.data = f.data) => FileSize(g) = FileSize(f) + Header
  BY <1>1, <1>2 DEF Header
<1>5. ASSUME NEW g \in FileRecord, NEW c \in Chunk, g.hdr = f.hdr, g.data = Append(f.data, c)
      PROVE  FileSize(g) = FileSize(f) + Size[c]
  <2>1. DataSize(g.data) = DataSize(f.data) + Size[c]
    BY <1>1, <1>5, DataSizeFacts
  <2>2. Size[c] \in Nat
    BY SplitterAssumption
  <2> DEFINE x == DataSize(f.data)
             y == DataSize(g.data)
             h == IF f.hdr THEN 1 ELSE 0
  <2>3. FileSize(f) = h + x /\ FileSize(g) = h + y /\ x \in Nat /\ y \in Nat /\ h \in Nat
    BY <1>1, <1>2, <1>5
  <2> HIDE DEF x, y, h
  <2>4. y = x + Size[c]
    BY <2>1 DEF x, y
  <2> QED BY <2>2, <2>3, <2>4
<1>6. ASSUME NEW g \in FileRecord, NEW k \in 0 .. Len(f.data), f.hdr, g.data = SubSeq(f.data, 1, k)
      PROVE  FileSize(g) <= FileSize(f)
  <2>1. DataSize(g.data) <= DataSize(f.data)
    BY <1>1, <1>6, DataSizeFacts
  <2> DEFINE x == DataSize(f.data)
             y == DataSize(g.data)
             h == IF g.hdr THEN 1 ELSE 0
  <2>2. FileSize(f) = 1 + x /\ FileSize(g) = h + y /\ x \in Nat /\ y \in Nat /\ h \in {0, 1}
    BY <1>1, <1>2, <1>6
  <2>3. y <= x
    BY <2>1
  <2> HIDE DEF x, y, h
  <2> QED BY <2>2, <2>3
<1> QED BY <1>3, <1>4, <1>5, <1>6, FileSizeType

\* The bytes of the parts other than w.
Rest(n, d, w) == SumFunctionOnSet([p \in DOMAIN d |-> FileSize(n[d[p]])], DOMAIN d \ {w})

LEMMA RestFacts ==
  ASSUME NEW n \in Files, NEW d, IsDir(d), NEW w
  PROVE  /\ Rest(n, d, w) \in Nat
         /\ w \in DOMAIN d => PartsSize(n, d) = FileSize(n[d[w]]) + Rest(n, d, w)
         /\ w \notin DOMAIN d => PartsSize(n, d) = Rest(n, d, w)
<1> DEFINE g == [p \in DOMAIN d |-> FileSize(n[d[p]])]
           D == DOMAIN d
<1>1. \A p \in D : n[d[p]] \in FileRecord
  BY DEF IsDir, Files
<1>2. \A p \in D : g[p] = FileSize(n[d[p]]) /\ g[p] \in Nat /\ g[p] <= g[p] /\ g[p] \in Int
  BY <1>1, FileSizeType
<1>3. IsFiniteSet(D)
  BY DEF IsDir
<1>4. PartsSize(n, d) = SumFunctionOnSet(g, D) /\ Rest(n, d, w) = SumFunctionOnSet(g, D \ {w})
  BY DEF PartsSize, SumFunction, Rest
<1> HIDE DEF g, D
<1>5. SumFunctionOnSet(g, D \ {w}) \in Nat
  <2>1. D \ {w} \in SUBSET D
    OBVIOUS
  <2> QED BY <1>2, <1>3, <2>1, SumBounds
<1>6. w \in D => SumFunctionOnSet(g, D) = g[w] + SumFunctionOnSet(g, D \ {w})
  <2>1. D \in SUBSET D
    OBVIOUS
  <2> QED BY <1>2, <1>3, <2>1, SumTake
<1>7. w \notin D => D \ {w} = D
  OBVIOUS
<1> QED BY <1>2, <1>4, <1>5, <1>6, <1>7 DEF D

LEMMA RestSame ==
  ASSUME NEW n \in Files, NEW d, IsDir(d), NEW m \in Files, NEW e, IsDir(e), NEW w,
         DOMAIN e \ {w} = DOMAIN d \ {w},
         \A p \in DOMAIN d \ {w} : m[e[p]] = n[d[p]]
  PROVE  Rest(m, e, w) = Rest(n, d, w)
<1> DEFINE g == [p \in DOMAIN d |-> FileSize(n[d[p]])]
           h == [p \in DOMAIN e |-> FileSize(m[e[p]])]
           D == DOMAIN d \ {w}
<1>1. \A p \in D : h[p] = g[p]
  OBVIOUS
<1>2. IsFiniteSet(D)
  BY FS_Subset DEF IsDir
<1>3. Rest(m, e, w) = SumFunctionOnSet(h, D) /\ Rest(n, d, w) = SumFunctionOnSet(g, D)
  BY DEF Rest
<1> HIDE DEF g, h, D
<1> QED BY <1>1, <1>2, <1>3, SumEqual

\* No sum that the disk accessor compares with its limit overflows.
NoOverflow == \A l \in Limits : l + Header < Word /\ \A c \in Chunk : l + Size[c] < Word

\* x is the account of n bytes.
Counted(x, n) == x = n % Word /\ (limit # 0 /\ NoOverflow => n <= limit)

LEMMA CountedAdd ==
  ASSUME TypeInv, NEW n \in Nat, NEW x, Counted(x, n), NEW k \in Nat, Fits(x, k),
         NoOverflow => limit + k < Word, NEW y, y = (x + k) % Word
  PROVE  Counted(y, n + k)
<1>1. Word \in Nat \ {0} /\ limit \in Nat
  BY SplitterAssumption DEF TypeInv, TypeOK
<1>2. x = n % Word
  BY DEF Counted
<1>3. y = (n + k) % Word
  <2>1. n \in Int /\ k \in Int
    OBVIOUS
  <2>2. Wrapped(n, k, Word) = WrappedSum(n, k, Word)
    BY <1>1, <2>1, WrappedAdd
  <2> QED BY <1>2, <2>2 DEF Wrapped, WrappedSum
<1>4. ASSUME limit # 0, NoOverflow PROVE n + k <= limit
  <2>1. n <= limit /\ limit + k < Word
    BY <1>4 DEF Counted
  <2>2. n + k \in 0 .. Word - 1
    BY <1>1, <2>1
  <2>3. (n + k) % Word = n + k
    BY <1>1, <2>2, ModSmall
  <2>4. y <= limit
    BY <1>4 DEF Fits
  <2> QED BY <1>3, <2>3, <2>4
<1> QED BY <1>3, <1>4 DEF Counted

\* The file that is opened for writing is accounted for.
LEMMA OpenSize ==
  ASSUME TypeInv, NEW q \in Queue, NEW lo, NEW s, Base(q, s, lo), s.ok,
         s.wid \notin DOMAIN s.dir => FreeInodes(s.dir) # {},
         NEW t, t = OpenWriteFile(q, s), Counted(s.current, PartsSize(s.node, s.dir))
  PROVE  Counted(t.current, PartsSize(t.node, t.dir))
<1> DEFINE i == t.dir[s.wid]
           w == s.wid
<1>1. /\ Attempts(t) /\ t.wid = s.wid /\ i \in Inode
      /\ DOMAIN t.dir = DOMAIN s.dir \cup {s.wid}
      /\ \A p \in DOMAIN s.dir : t.dir[p] = s.dir[p]
      /\ s.wid \notin DOMAIN s.dir => i \in FreeInodes(s.dir)
      /\ t.ok => t.wf = i /\ t.node[i].hdr
      /\ ~t.ok => t.wf = 0 /\ ~t.node[i].hdr
      /\ \A j \in Inode : j # i => t.node[j] = s.node[j]
      /\ t.node[i].data = s.node[i].data
      /\ \/ t.node = s.node /\ t.current = s.current
         \/ /\ ~s.node[i].hdr /\ t.node[i].hdr /\ Fits(s.current, Header)
            /\ t.current = (s.current + Header) % Word
  <2>1. Attempts(s)
    BY DEF Base
  <2> HIDE DEF i
  <2> QED BY <2>1, OpenFacts DEF i
<1>2. Base(q, t, lo)
  BY OpenBase
<1>3. s.wid \notin DOMAIN s.dir => s.node[i] = NoFile
  <2>1. s.wid \notin DOMAIN s.dir => i \notin Others(q) \cup Range(s.dir)
    BY <1>1, OthersFacts
  <2> QED BY <1>1, <2>1 DEF Base
<1>4. s.node \in Files /\ IsDir(s.dir) /\ t.node \in Files /\ IsDir(t.dir)
  BY <1>1 DEF Base, Attempts
<1>5. s.node[i] \in FileRecord /\ t.node[i] \in FileRecord
  BY <1>1, <1>4 DEF Files
<1>6. w \in DOMAIN t.dir /\ DOMAIN t.dir \ {w} = DOMAIN s.dir \ {w} /\ t.dir[w] = i
  BY <1>1
<1>7. ASSUME NEW p \in DOMAIN s.dir \ {w} PROVE t.node[t.dir[p]] = s.node[s.dir[p]]
  <2>1. t.dir[p] = s.dir[p] /\ p \in DOMAIN t.dir /\ p # w
    BY <1>1
  <2>2. t.dir[p] # i /\ t.dir[p] \in Inode
    BY <1>2, <1>4, <1>6, <2>1 DEF Base, IsDir
  <2> QED BY <1>1, <2>1, <2>2
<1>8. w \in DOMAIN s.dir => s.dir[w] = i
  BY <1>1
<1> DEFINE r == Rest(s.node, s.dir, w)
           a == FileSize(s.node[i])
           b == FileSize(t.node[i])
<1> HIDE DEF i, w
<1>9. Rest(t.node, t.dir, w) = r
  BY <1>4, <1>6, <1>7, RestSame
<1>10. r \in Nat /\ a \in Nat /\ b \in Nat
  BY <1>4, <1>5, RestFacts, FileSizeFacts
<1>11. PartsSize(t.node, t.dir) = b + r
  BY <1>4, <1>6, <1>9, RestFacts
<1>12. PartsSize(s.node, s.dir) = a + r
  <2>1. CASE w \in DOMAIN s.dir
    BY <1>4, <1>8, <2>1, RestFacts
  <2>2. CASE w \notin DOMAIN s.dir
    <3>1. a = 0
      BY <1>3, <1>5, <2>2, FileSizeFacts DEF w
    <3>2. PartsSize(s.node, s.dir) = r
      BY <1>4, <2>2, RestFacts
    <3> HIDE DEF a, r
    <3> QED BY <1>10, <3>1, <3>2
  <2> QED BY <2>1, <2>2
<1>13. CASE t.node = s.node /\ t.current = s.current
  BY <1>11, <1>12, <1>13
<1>14. CASE ~s.node[i].hdr /\ t.node[i].hdr /\ Fits(s.current, Header)
            /\ t.current = (s.current + Header) % Word
  <2>1. b = a + Header
    BY <1>1, <1>5, <1>14, FileSizeFacts DEF i
  <2>2. NoOverflow => limit + Header < Word
    BY DEF NoOverflow, TypeInv, TypeOK
  <2> HIDE DEF a, b, r
  <2>3. PartsSize(t.node, t.dir) = (a + r) + Header /\ a + r \in Nat /\ Header \in Nat
    BY <1>10, <1>11, <2>1 DEF Header
  <2>4. Counted(s.current, a + r)
    BY <1>12
  <2>5. Counted(t.current, (a + r) + Header)
    BY <1>14, <2>2, <2>3, <2>4, CountedAdd
  <2> QED BY <2>3, <2>5
<1> QED BY <1>1, <1>13, <1>14 DEF i

LEMMA NumberedBase ==
  ASSUME NEW q, NEW s, NEW lo, Base(q, s, lo)
  PROVE  Base(q, Numbered(s), lo)
<1> DEFINE r == Numbered(s)
<1>1. /\ Attempts(r) /\ r.wid = s.wid + 1 /\ r.node = s.node /\ r.dir = s.dir /\ s.wid \in Nat
  BY NumberedFacts DEF Base, Attempts
<1> HIDE DEF r
<1>2. DOMAIN r.dir \subseteq lo .. r.wid /\ lo \in Nat /\ lo <= r.wid
  <2>1. DOMAIN s.dir \subseteq lo .. s.wid /\ lo \in Nat /\ lo <= s.wid
    BY DEF Base
  <2> QED BY <1>1, <2>1
<1>3. Base(q, r, lo)
  BY <1>1, <1>2 DEF Base
<1> QED BY <1>3 DEF r

LEMMA FirstSize ==
  ASSUME TypeInv, Place, InodesLeft, NEW q \in Queue, alive[q],
         Counted(current, PartsSize(node, dir[q]))
  PROVE  Counted(First(q).current, PartsSize(First(q).node, First(q).dir))
<1> DEFINE s == Attempt(q)
           t == OpenWriteFile(q, s)
<1>1. /\ Attempts(s) /\ s.ok /\ s.node = node /\ s.dir = dir[q] /\ s.wid = wid[q]
      /\ s.current = current
  <2>1. s.node = node /\ s.dir = dir[q] /\ s.wid = wid[q] /\ s.current = current
    BY DEF Attempt
  <2> QED BY <2>1, AttemptType
<1>2. FreeInodes(s.dir) # {}
  BY <1>1, FreeInodesLess
<1>3. Base(q, s, rid[q])
  <2>1. rid[q] \in Nat /\ rid[q] <= s.wid
    BY <1>1 DEF TypeInv, TypeOK
  <2>2. DOMAIN s.dir \subseteq rid[q] .. s.wid
    BY <1>1 DEF Place, QueueOK
  <2> HIDE DEF s
  <2> QED BY <1>1, <2>1, <2>2, AttemptBase
<1>4. Counted(s.current, PartsSize(s.node, s.dir))
  BY <1>1
<1>5. First(q) = t \/ First(q) = s
  BY DEF First
<1> HIDE DEF s
<1>6. t = OpenWriteFile(q, s)
  OBVIOUS
<1> HIDE DEF t
<1>7. Counted(t.current, PartsSize(t.node, t.dir))
  BY <1>1, <1>2, <1>3, <1>4, <1>6, OpenSize
<1> QED BY <1>4, <1>5, <1>7

LEMMA SecondSize ==
  ASSUME TypeInv, Place, InodesLeft, NEW q \in Queue, alive[q], NEW c,
         Counted(current, PartsSize(node, dir[q]))
  PROVE  Counted(Second(q, c).current, PartsSize(Second(q, c).node, Second(q, c).dir))
<1> DEFINE s == First(q)
           r == Numbered(s)
           t == OpenWriteFile(q, r)
<1>1. /\ Base(q, s, rid[q]) /\ FreeInodes(s.dir) # {} /\ Attempts(s)
      /\ Counted(s.current, PartsSize(s.node, s.dir))
  <2>1. Base(q, s, rid[q]) /\ FreeInodes(s.dir) # {} /\ Counted(s.current, PartsSize(s.node, s.dir))
    BY FirstBase, FirstFacts, FirstSize
  <2> QED BY <2>1 DEF Base
<1>2. Second(q, c) = IF s.ok /\ NeedsPart(s, Size[c]) THEN t ELSE s
  BY DEF Second
<1> HIDE DEF s
<1>3. Base(q, r, rid[q])
  BY <1>1, NumberedBase
<1>4. r.node = s.node /\ r.dir = s.dir /\ r.current = s.current /\ r.ok = s.ok
  BY <1>1, NumberedFacts
<1>5. t = OpenWriteFile(q, r)
  OBVIOUS
<1> HIDE DEF r, t
<1>6. ASSUME s.ok PROVE Counted(t.current, PartsSize(t.node, t.dir))
  BY <1>1, <1>3, <1>4, <1>5, <1>6, OpenSize
<1> QED BY <1>1, <1>2, <1>6

\* The inductive invariant of the account.
CountInv(q) ==
  /\ limit # 0 /\ NoOverflow => DirSize(q) <= limit
  /\ alive[q] => current = DirSize(q) % Word

LEMMA CountedNow ==
  ASSUME NEW q, alive[q]
  PROVE  Counted(current, PartsSize(node, dir[q])) <=> CountInv(q)
  BY DEF Counted, CountInv, DirSize, PartsSize

\* The chunk that is written is accounted for.
LEMMA WriteTurnSize ==
  ASSUME TypeInv, TypeInv', Place, NEW q \in Queue, WriteTurn(q), CountInv(q)
  PROVE  CountInv(q)'
<1> DEFINE s == Second(q, wr[q])
           t == Third(s, wr[q])
<1>0. s = Second(q, wr[q]) /\ t = Third(s, wr[q])
  OBVIOUS
<1>1. WriteDid(q, s, t)
  <2> HIDE DEF s, t
  <2> QED BY <1>0, WriteStages
<1>2. Counted(s.current, PartsSize(s.node, s.dir))
  BY <1>1, CountedNow, SecondSize DEF WriteDid
<1> HIDE DEF s, t
<1> USE DEF WriteDid
<1>3. dir'[q] = t.dir /\ node' = t.node /\ current' = t.current /\ t.dir = s.dir /\ limit' = limit
  BY <1>1 DEF TypeInv
<1>4. s.node \in Files /\ IsDir(s.dir) /\ t.node \in Files /\ Attempts(s)
  BY <1>1 DEF Base, Attempts
<1>5. Counted(t.current, PartsSize(t.node, t.dir))
  <2>1. CASE ~t.ok
    BY <1>1, <1>2, <2>1
  <2>2. CASE t.ok
    <3> DEFINE i == s.wf
               w == s.wid
               c == wr[q]
               r == Rest(s.node, s.dir, w)
               a == FileSize(s.node[i])
    <3>1. /\ i \in Inode /\ w \in DOMAIN s.dir /\ i = s.dir[w] /\ c \in Chunk
          /\ Fits(s.current, Size[c]) /\ t.current = (s.current + Size[c]) % Word
          /\ t.node = [s.node EXCEPT ![i].data = Append(@, c)]
      BY <1>1, <1>4, <2>2 DEF Ready, IsDir
    <3>2. s.node[i] \in FileRecord /\ t.node[i] \in FileRecord
      BY <1>4, <3>1 DEF Files
    <3>3. t.node[i].hdr = s.node[i].hdr /\ t.node[i].data = Append(s.node[i].data, c)
      <4>1. t.node[i] = [s.node[i] EXCEPT !.data = Append(@, c)]
        BY <1>4, <3>1 DEF Files
      <4> HIDE DEF c
      <4> QED BY <3>2, <4>1 DEF FileRecord
    <3>4. ASSUME NEW p \in DOMAIN s.dir \ {w} PROVE t.node[s.dir[p]] = s.node[s.dir[p]]
      <4>1. s.dir[p] # i /\ s.dir[p] \in Inode
        BY <1>1, <1>4, <3>1 DEF Base, IsDir
      <4> QED BY <1>4, <3>1, <4>1 DEF Files
    <3>5. FileSize(t.node[i]) = a + Size[c]
      BY <3>1, <3>2, <3>3, FileSizeFacts
    <3>6. NoOverflow => limit + Size[c] < Word
      BY <3>1 DEF NoOverflow, TypeInv, TypeOK
    <3>7. Size[c] \in Nat
      BY <3>1, SplitterAssumption
    <3>8. Rest(t.node, s.dir, w) = r
      <4> HIDE DEF i, w
      <4> QED BY <1>4, <3>4, RestSame
    <3>9. r \in Nat /\ a \in Nat
      BY <1>4, <3>2, RestFacts, FileSizeFacts
    <3>10. PartsSize(s.node, s.dir) = a + r /\ PartsSize(t.node, s.dir) = (a + Size[c]) + r
      <4>1. w \in DOMAIN s.dir /\ s.dir[w] = i
        BY <3>1
      <4> HIDE DEF i, w, c
      <4>2. PartsSize(s.node, s.dir) = FileSize(s.node[s.dir[w]]) + Rest(s.node, s.dir, w)
        BY <1>4, <4>1, RestFacts
      <4>3. PartsSize(t.node, s.dir) = FileSize(t.node[s.dir[w]]) + Rest(t.node, s.dir, w)
        BY <1>4, <4>1, RestFacts
      <4> QED BY <3>5, <3>8, <4>1, <4>2, <4>3
    <3> HIDE DEF a, r, i, w, c
    <3>11. PartsSize(t.node, t.dir) = (a + r) + Size[c] /\ a + r \in Nat
      BY <1>3, <3>7, <3>9, <3>10
    <3>12. Counted(s.current, a + r)
      BY <1>2, <3>10
    <3>13. Counted(t.current, (a + r) + Size[c])
      BY <3>1, <3>6, <3>7, <3>11, <3>12, CountedAdd
    <3> QED BY <3>11, <3>13
  <2> QED BY <2>1, <2>2
<1> HIDE DEF WriteDid
<1>6. limit # 0 /\ NoOverflow => PartsSize(node', dir'[q]) <= limit
  BY <1>3, <1>5 DEF Counted
<1>7. current' = PartsSize(node', dir'[q]) % Word
  BY <1>3, <1>5 DEF Counted
<1> QED BY <1>3, <1>6, <1>7 DEF CountInv, DirSize, PartsSize

\* The part that is erased is no longer accounted for.
LEMMA ReadEndSize ==
  ASSUME TypeInv, TypeInv', Place, NEW q \in Queue, ReadEnd(q), CountInv(q)
  PROVE  CountInv(q)'
<1> DEFINE i == ReadFile(q)
           w == rid[q]
           a == FileSize(node[i])
           r == Rest(node, dir[q], w)
<1>1. /\ \A j \in Inode : node'[j] = IF j = i THEN NoFile ELSE node[j]
      /\ i \in Inode /\ dir'[q] = Erased(q) /\ UNCHANGED <<limit, alive>>
  <2> HIDE DEF i
  <2> QED BY ReadEndFacts DEF i
<1>2. alive[q] /\ w \in DOMAIN dir[q] /\ i = dir[q][w]
  BY ReaderSees DEF ReadEnd, ReadFile
<1>3. current' = (current - a) % Word
  BY <1>2 DEF ReadEnd, Released
<1>4. node \in Files /\ IsDir(dir[q]) /\ node' \in Files /\ IsDir(dir'[q])
  BY DEF TypeInv, TypeOK, Files, FileRecord
<1>5. DOMAIN dir'[q] = DOMAIN dir[q] \ {w} /\ \A p \in DOMAIN dir'[q] : dir'[q][p] = dir[q][p]
  BY <1>1 DEF Erased
<1>6. ASSUME NEW p \in DOMAIN dir[q] \ {w} PROVE node'[dir'[q][p]] = node[dir[q][p]]
  <2>1. dir[q][p] # i /\ dir[q][p] \in Inode /\ dir'[q][p] = dir[q][p]
    BY <1>2, <1>4, <1>5, NamesFacts DEF Place, IsDir
  <2> QED BY <1>1, <2>1
<1>7. node[i] \in FileRecord
  BY <1>1, <1>4 DEF Files
<1> HIDE DEF i, w
<1>8. Rest(node', dir'[q], w) = r
  <2>1. DOMAIN dir'[q] \ {w} = DOMAIN dir[q] \ {w}
    BY <1>5
  <2> QED BY <1>4, <1>6, <2>1, RestSame
<1>9. PartsSize(node', dir'[q]) = r
  BY <1>4, <1>5, <1>8, RestFacts
<1>10. PartsSize(node, dir[q]) = a + r
  BY <1>2, <1>4, RestFacts
<1>11. a \in Nat /\ r \in Nat
  BY <1>4, <1>7, RestFacts, FileSizeFacts
<1>12. /\ current = PartsSize(node, dir[q]) % Word
       /\ limit # 0 /\ NoOverflow => PartsSize(node, dir[q]) <= limit
  BY <1>2 DEF CountInv, DirSize, PartsSize
<1>13. current = (a + r) % Word
  BY <1>10, <1>12
<1> HIDE DEF a, r
<1>14. current' = r % Word
  <2>1. Word \in Nat \ {0} /\ a + r \in Int /\ -a \in Int
    BY <1>11, SplitterAssumption
  <2>2. Wrapped(a + r, -a, Word) = WrappedSum(a + r, -a, Word)
    BY <2>1, WrappedAdd
  <2>3. Wrapped(a + r, -a, Word) = (current + (-a)) % Word
    BY <1>13 DEF Wrapped
  <2>4. current \in Int
    BY SplitterAssumption DEF TypeInv, TypeOK
  <2>5. current + (-a) = current - a
    BY <1>11, <2>4
  <2>6. (a + r) + (-a) = r
    BY <1>11
  <2> QED BY <1>3, <2>2, <2>3, <2>5, <2>6 DEF WrappedSum
<1>15. limit # 0 /\ NoOverflow => PartsSize(node', dir'[q]) <= limit
  <2>1. limit \in Nat
    BY SplitterAssumption DEF TypeInv, TypeOK
  <2> QED BY <1>9, <1>10, <1>11, <1>12, <2>1
<1>16. current' = PartsSize(node', dir'[q]) % Word
  BY <1>9, <1>14
<1> QED BY <1>1, <1>15, <1>16 DEF CountInv, DirSize, PartsSize

\* The constructor measures the parts; the header that it writes is added.
LEMMA CreateSize ==
  ASSUME TypeInv, TypeInv', Place, NEW q \in Queue, Create(q), CountInv(q)
  PROVE  CountInv(q)'
<1> DEFINE s == Recounted(q)
           t == OpenWriteFile(q, s)
<1>0. s = Recounted(q) /\ t = OpenWriteFile(q, s)
  OBVIOUS
<1> HIDE DEF s, t
<1>1. CreateDid(q, s, t)
  BY <1>0, CreateStages
<1> USE DEF CreateDid
<1>2. s.current = PartsSize(s.node, s.dir) % Word
  BY <1>1 DEF DirSize, PartsSize
<1>3. limit # 0 /\ NoOverflow => PartsSize(s.node, s.dir) <= limit
  BY <1>1 DEF CountInv, DirSize, PartsSize
<1>4. Counted(s.current, PartsSize(s.node, s.dir))
  BY <1>2, <1>3 DEF Counted
<1>5. Counted(t.current, PartsSize(t.node, t.dir))
  BY <1>0, <1>1, <1>4, OpenSize
<1>6. node' = t.node /\ dir'[q] = t.dir /\ current' = t.current /\ limit' = limit
  BY <1>1
<1> HIDE DEF CreateDid
<1>7. limit # 0 /\ NoOverflow => PartsSize(node', dir'[q]) <= limit
  BY <1>5, <1>6 DEF Counted
<1>8. current' = PartsSize(node', dir'[q]) % Word
  BY <1>5, <1>6 DEF Counted
<1> QED BY <1>6, <1>7, <1>8 DEF CountInv, DirSize, PartsSize

\* What a crash leaves is no larger than what was there.
LEMMA CrashSize ==
  ASSUME TypeInv, TypeInv', Place, Crash, NEW q \in Queue, CountInv(q)
  PROVE  CountInv(q)'
<1> DEFINE D == DOMAIN dir[q]
           f == [p \in D |-> FileSize(node'[dir[q][p]])]
           g == [p \in D |-> FileSize(node[dir[q][p]])]
<1>1. UNCHANGED <<dir, limit>> /\ alive'[q] = FALSE
  BY DEF Crash
<1>2. node \in Files /\ node' \in Files /\ IsDir(dir[q])
  BY DEF TypeInv, TypeOK, Files, FileRecord
<1>3. ASSUME NEW i \in Inode
      PROVE  /\ FileSize(node'[i]) \in Nat /\ FileSize(node[i]) \in Nat
             /\ FileSize(node'[i]) <= FileSize(node[i])
  <2>1. node[i] \in FileRecord /\ node'[i] \in FileRecord
    BY <1>2 DEF Files
  <2>2. FileSize(node'[i]) \in Nat /\ FileSize(node[i]) \in Nat
    BY <2>1, FileSizeType
  <2>3. CASE \A u \in Queue : wf[u] # i
    BY <2>2, <2>3, CrashFacts
  <2>4. ASSUME NEW u \in Queue, wf[u] = i PROVE FileSize(node'[i]) <= FileSize(node[i])
    <3>1. wf[u] # 0 /\ node[i].hdr
      BY <2>4 DEF Inode, Place, QueueOK, Closed, Writer
    <3>2. node'[i] \in CrashLeft(u)
      BY <2>4, <3>1, CrashFacts
    <3>3. \E k \in 0 .. Len(node[i].data) : node'[i].data = SubSeq(node[i].data, 1, k)
      BY <2>4, <3>1, <3>2, CrashedFile
    <3> QED BY <2>1, <3>1, <3>3, FileSizeFacts
  <2> QED BY <2>2, <2>3, <2>4
<1>4. \A p \in D : f[p] \in Nat /\ g[p] \in Nat /\ f[p] <= g[p]
  BY <1>2, <1>3 DEF IsDir
<1>5. PartsSize(node', dir'[q]) = SumFunctionOnSet(f, D) /\ PartsSize(node, dir[q]) = SumFunctionOnSet(g, D)
  BY <1>1 DEF PartsSize, SumFunction
<1>6. IsFiniteSet(D) /\ D \in SUBSET D
  BY <1>2 DEF IsDir
<1> HIDE DEF D, f, g
<1>7. SumFunctionOnSet(f, D) <= SumFunctionOnSet(g, D) /\ SumFunctionOnSet(f, D) \in Nat
  BY <1>4, <1>6, SumBounds
<1>8. PartsSize(node', dir'[q]) <= PartsSize(node, dir[q]) /\ PartsSize(node', dir'[q]) \in Nat
      /\ PartsSize(node, dir[q]) \in Nat
  BY <1>2, <1>5, <1>7, PartsSizeType
<1>9. limit # 0 /\ NoOverflow => PartsSize(node, dir[q]) <= limit
  BY DEF CountInv, DirSize, PartsSize
<1>10. limit \in Nat
  BY SplitterAssumption DEF TypeInv, TypeOK
<1>11. limit # 0 /\ NoOverflow => PartsSize(node', dir'[q]) <= limit
  BY <1>8, <1>9, <1>10
<1> QED BY <1>1, <1>11 DEF CountInv, DirSize, PartsSize

\* The other steps change neither the files nor the account.
LEMMA QuietSize ==
  ASSUME TypeInv, Place, NEW q \in Queue, CountInv(q),
         \/ WriteStart(q) \/ ReadCall(q) \/ OpenShared(q) \/ OpenByName(q) \/ ReadCheck(q)
         \/ ReadData(q) \/ Destroy(q)
  PROVE  CountInv(q)'
<1>1. UNCHANGED <<node, dir, limit, current>>
  BY DestroyPlace DEF WriteStart, ReadCall, OpenShared, OpenByName, ReadCheck, ReadData, diskVars,
                      Destroy
<1>2. alive'[q] => alive[q]
  BY DEF WriteStart, ReadCall, OpenShared, OpenByName, ReadCheck, ReadData, Destroy, TypeInv, TypeOK
<1> QED BY <1>1, <1>2 DEF CountInv, DirSize

LEMMA InitSize ==
  ASSUME Init, NEW q \in Queue
  PROVE  CountInv(q)
<1> DEFINE g == [p \in DOMAIN dir[q] |-> FileSize(node[dir[q][p]])]
<1>1. DOMAIN g = {} /\ ~alive[q]
  BY DEF Init, EmptyDir
<1>2. DirSize(q) = SumFunctionOnSet(g, DOMAIN g)
  BY DEF DirSize, SumFunction
<1> HIDE DEF g
<1>3. DirSize(q) = 0
  BY <1>1, <1>2, SumEmpty
<1>4. limit \in Nat
  BY SplitterAssumption DEF Init
<1> QED BY <1>1, <1>3, <1>4 DEF CountInv

LEMMA NextSize ==
  ASSUME TypeInv, TypeInv', Place, NEW q, Queue = {q}, CountInv(q), [Next]_vars
  PROVE  CountInv(q)'
<1>1. q \in Queue
  OBVIOUS
<1>2. CASE UNCHANGED vars
  BY <1>2 DEF vars, diskVars, CountInv, DirSize
<1>3. CASE Next
  <2>1. \A r \in Queue : r = q
    OBVIOUS
  <2> QED BY <1>1, <1>3, <2>1, WriteTurnSize, ReadEndSize, CreateSize, CrashSize, QuietSize
             DEF Next, Read
<1> QED BY <1>2, <1>3

LEMMA UsedByOne ==
  ASSUME TypeInv, NEW q, Queue = {q}
  PROVE  Used = DirSize(q)
<1> DEFINE g == [r \in Queue |-> DirSize(r)]
<1>1. q \in Queue /\ node \in Files /\ IsDir(dir[q])
  BY DEF TypeInv, TypeOK, Files, FileRecord
<1>2. DirSize(q) \in Nat
  BY <1>1, PartsSizeType DEF DirSize, PartsSize
<1>3. DOMAIN g = {q} /\ g[q] = DirSize(q)
  BY <1>1
<1>4. Used = SumFunctionOnSet(g, DOMAIN g)
  BY DEF Used, SumFunction
<1> HIDE DEF g
<1> QED BY <1>2, <1>3, <1>4, SumOne

LEMMA AccountInductive ==
  ASSUME Serialized, NEW q, Queue = {q}
  PROVE  Spec => [](TypeInv /\ CountInv(q))
<1>1. Init => SplitterInv /\ CountInv(q)
  BY InitType, InitPlace, InitSize DEF SplitterInv
<1>2. SplitterInv /\ CountInv(q) /\ [Next]_vars => SplitterInv' /\ CountInv(q)'
  BY NextType, NextPlace, NextSize DEF SplitterInv
<1>3. SplitterInv => TypeInv
  BY DEF SplitterInv
<1> QED BY <1>1, <1>2, <1>3, PTL DEF Spec

\* In a process with one queue file, whose owner serializes reads and writes,
\* the account of the disk accessor is the size of the parts on disk, modulo
\* the word, as long as there is a splitter (disk_accessor::fwrite(), remove()
\* and set_current_size(), called by the splitter).
THEOREM AccountExact ==
  ASSUME Serialized, \E q : Queue = {q}
  PROVE  Spec => []Accounted
<1>1. PICK q : Queue = {q}
  OBVIOUS
<1>2. TypeInv /\ CountInv(q) => Accounted
  BY <1>1, UsedByOne DEF CountInv, Accounted
<1>3. Spec => [](TypeInv /\ CountInv(q))
  BY <1>1, AccountInductive
<1> QED BY <1>2, <1>3, PTL

\* There, and if no sum that fwrite() compares with the limit overflows, the
\* parts never use more than the limit: not after parts were erased, not after
\* a crash, and not while a new splitter takes over what an earlier one left.
THEOREM LimitKept ==
  ASSUME Serialized, \E q : Queue = {q}, NoOverflow
  PROVE  Spec => []WithinLimit
<1>1. PICK q : Queue = {q}
  OBVIOUS
<1>2. TypeInv /\ CountInv(q) => WithinLimit
  BY <1>1, UsedByOne DEF CountInv, WithinLimit
<1>3. Spec => [](TypeInv /\ CountInv(q))
  BY <1>1, AccountInductive
<1> QED BY <1>2, <1>3, PTL
=============================================================================
