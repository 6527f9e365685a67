------------------------------- MODULE FsProofs -------------------------------
(***************************************************************************)
(* The calls of src/fs.c, for any number of processes, any trees, files    *)
(* and contents, and whichever C library calls fail: nothing they open     *)
(* stays open, and, where fclose does not fail, a file is copied, read or  *)
(* written whole or the call says otherwise; and a call on directories     *)
(* that nothing has come between does what fs.h promises or fails for a    *)
(* reason.                                                                 *)
(***************************************************************************)
EXTENDS MCFs, SequenceTheorems, WellFoundedInduction, TLAPS

-----------------------------------------------------------------------------
(* Contents and disks                                                      *)

IsDisk(d) == DOMAIN d \subseteq Files /\ d \in [DOMAIN d -> Seq(Bytes)]

LEMMA BytesAt == ASSUME NEW s \in Seq(Bytes), NEW m \in Nat, NEW n \in Int, n <= Len(s)
                 PROVE  /\ SubSeq(s, m + 1, n) \in Seq(Bytes)
                        /\ Len(SubSeq(s, m + 1, n)) = IF m < n THEN n - m ELSE 0
<1>1. /\ m + 1 \in Int /\ Len(s) \in Nat
      /\ \A i \in (m + 1) .. n : i \in 1 .. Len(s)
  OBVIOUS
<1>2. \A i \in (m + 1) .. n : s[i] \in Bytes
  BY <1>1, ElementOfSeq
<1> QED
  BY <1>1, <1>2, SubSeqProperties

LEMMA Prefixed == ASSUME NEW s \in Seq(Bytes), NEW n \in 0 .. Len(s)
                  PROVE  Prefix(s, n) \in Seq(Bytes) /\ Len(Prefix(s, n)) = n
<1>1. n \in Int /\ n <= Len(s) /\ 0 \in Nat /\ 0 + 1 = 1 /\ (0 < n => n - 0 = n) /\ (~(0 < n) => n = 0)
  OBVIOUS
<1> QED
  BY <1>1, BytesAt DEF Prefix

LEMMA Associates == \A s, t, u \in Seq(Bytes) : (s \o t) \o u = s \o (t \o u)
<1> SUFFICES ASSUME NEW s \in Seq(Bytes), NEW t \in Seq(Bytes), NEW u \in Seq(Bytes)
             PROVE  (s \o t) \o u = s \o (t \o u)
  OBVIOUS
<1> QED
  BY ConcatAssociative

\* What has been passed on and what is kept is what there was.
LEMMA PassedOn == ASSUME NEW d \in Seq(Bytes), NEW s \in Seq(Bytes), NEW n \in 0 .. Len(s)
                  PROVE  /\ d \o Prefix(s, n) \in Seq(Bytes)
                         /\ SubSeq(s, n + 1, Len(s)) \in Seq(Bytes)
                         /\ (d \o Prefix(s, n)) \o SubSeq(s, n + 1, Len(s)) = d \o s
<1>1. Prefix(s, n) \in Seq(Bytes)
  BY Prefixed
<1>2. n \in Nat /\ Len(s) \in Int /\ Len(s) <= Len(s)
  OBVIOUS
<1>3. SubSeq(s, n + 1, Len(s)) \in Seq(Bytes)
  BY <1>2, BytesAt
<1>4. Prefix(s, n) \o SubSeq(s, n + 1, Len(s)) = SubSeq(s, 1, Len(s))
  <2>1. 1 \in 1 .. Len(s) + 1 /\ n \in 1 - 1 .. Len(s) /\ Len(s) \in n .. Len(s)
    OBVIOUS
  <2> QED
    BY <2>1, ConcatAdjacentSubSeq DEF Prefix
<1>5. Prefix(s, n) \o SubSeq(s, n + 1, Len(s)) = s
  BY <1>4, SubSeqFull
<1>6. d \o Prefix(s, n) \in Seq(Bytes)
  BY <1>1, ConcatProperties
<1>7. (d \o Prefix(s, n)) \o SubSeq(s, n + 1, Len(s))
        = d \o (Prefix(s, n) \o SubSeq(s, n + 1, Len(s)))
  BY <1>1, <1>3, Associates
<1> QED
  BY <1>3, <1>5, <1>6, <1>7

LEMMA Extended == ASSUME NEW s \in Seq(Bytes), NEW m \in 0 .. Len(s), NEW n \in m .. Len(s)
                  PROVE  Prefix(s, m) \o SubSeq(s, m + 1, n) = Prefix(s, n)
<1>1. 1 \in 1 .. Len(s) + 1 /\ m \in 1 - 1 .. Len(s)
  OBVIOUS
<1> QED
  BY <1>1, ConcatAdjacentSubSeq DEF Prefix

LEMMA PutOnDisk == ASSUME NEW d, IsDisk(d), NEW f \in Files, NEW s \in Seq(Bytes)
                   PROVE  IsDisk(Put(d, f, s))
BY DEF IsDisk, Put

LEMMA PutAgain == ASSUME NEW d, NEW f, NEW s, NEW t
                  PROVE  /\ Put(Put(d, f, s), f, t) = Put(d, f, t)
                         /\ Unlink(Put(d, f, s), f) = Unlink(d, f)
BY DEF Put, Unlink

LEMMA UnlinkFromDisk == ASSUME NEW d, IsDisk(d), NEW f
                        PROVE  IsDisk(Unlink(d, f))
BY DEF IsDisk, Unlink

-----------------------------------------------------------------------------
(* Whole files: where a call is tells what it has open                     *)

Fresh == pos = 0 /\ eof = FALSE /\ pending = <<>> /\ sz = 0

IOCalls ==
  [op : {"none"}] \cup [op : {"copy"}, src : Files, dst : Files]
  \cup [op : {"read_all"}, src : Files, buf_size : BufSizes]
  \cup [op : {"write_all"}, dst : Files, data : Contents]

InRead  == {"measure", "check_size", "read_all"}
Writing == {"read", "write", "close", "remove"}

IOTypes ==
  /\ IsDisk(disk) /\ IsDisk(before)
  /\ io \in IOCalls
  /\ pos \in Nat /\ eof \in BOOLEAN /\ pending \in Seq(Bytes) /\ buf \in Seq(Bytes) /\ sz \in Nat
  /\ ioret \in BOOLEAN /\ created \in BOOLEAN /\ leftover \in BOOLEAN /\ disturbed \in BOOLEAN

InPlace ==
  /\ iopc \in {"idle", "open_in", "open_out"} \cup Writing \cup InRead
  /\ iopc # "idle" => io.op # "none" /\ ~leftover
  /\ iopc \in {"open_out"} \cup Writing => io.op \in {"copy", "write_all"}
  /\ iopc \in {"read", "remove"} => io.op = "copy"
  /\ iopc = "open_in" => io.op \in {"copy", "read_all"}
  /\ iopc \in InRead => io.op = "read_all"
  /\ iopc \in {"open_in", "open_out"} \cup InRead => ~created
  /\ iopc \in Writing => created /\ io.dst \in DOMAIN disk
  /\ (io.op = "copy" /\ iopc \in {"open_out"} \cup Writing) \/ iopc \in InRead
       => io.src \in DOMAIN disk
  /\ iopc \in {"idle", "open_in", "open_out", "measure"} => Fresh

Open ==
  IF iopc = "read" \/ (io.op = "copy" /\ iopc \in {"write", "close"}) THEN 2
  ELSE IF \/ iopc \in InRead
          \/ io.op = "copy" /\ iopc = "open_out"
          \/ io.op = "write_all" /\ iopc \in {"write", "close"} THEN 1
  ELSE 0

FilesInv == IOTypes /\ InPlace /\ opened = Open

LEMMA FilesInit == IOInit => FilesInv
<1> SUFFICES ASSUME IOInit PROVE FilesInv
  OBVIOUS
<1>1. IsDisk(disk)
  BY FileIOAssumption DEF IOInit, IsDisk
<1>2. io \in IOCalls
  BY DEF IOInit, IOCalls
<1> QED
  BY <1>1, <1>2, FileIOAssumption
  DEF IOInit, FilesInv, IOTypes, InPlace, Fresh, Open, InRead, Writing

LEMMA CallArguments ==
  ASSUME io \in IOCalls
  PROVE  /\ io.op \in {"none", "copy", "read_all", "write_all"}
         /\ io.op = "copy" => io.src \in Files /\ io.dst \in Files
         /\ io.op = "read_all" => io.src \in Files /\ io.buf_size \in BufSizes
         /\ io.op = "write_all" => io.dst \in Files /\ io.data \in Contents
BY DEF IOCalls

\* What fread finds in a file, as far as it reaches.
LEMMA Found ==
  ASSUME NEW s \in Seq(Bytes), NEW p \in Nat, NEW n \in Nat
  PROVE  LET r == SubSeq(s, p + 1, Least(p + n, Len(s))) IN
           /\ r \in Seq(Bytes) /\ Len(r) \in Nat /\ Len(r) <= n
           /\ p <= Len(s) => Len(r) = Least(n, Len(s) - p)
<1>1. Len(s) \in Nat /\ Least(p + n, Len(s)) \in Int /\ Least(p + n, Len(s)) <= Len(s)
      /\ Least(p + n, Len(s)) <= p + n
  BY DEF Least
<1> DEFINE e == Least(p + n, Len(s))
<1>2. SubSeq(s, p + 1, e) \in Seq(Bytes) /\ Len(SubSeq(s, p + 1, e)) = IF p < e THEN e - p ELSE 0
  BY <1>1, BytesAt
<1>3. (IF p < e THEN e - p ELSE 0) \in Nat /\ (IF p < e THEN e - p ELSE 0) <= n
  BY <1>1
<1>4. p <= Len(s) => (IF p < e THEN e - p ELSE 0) = Least(n, Len(s) - p)
  BY <1>1 DEF Least
<1> QED
  BY <1>2, <1>3, <1>4

\* What the output file and the stream hold together grows by what was taken.
LEMMA Taken ==
  ASSUME FilesInv, iopc = "write", NEW m \in 0 .. Len(buf), NEW k \in Nat, fwrite(m, k)
  PROVE  /\ IsDisk(disk') /\ disk' = Put(disk, io.dst, disk'[io.dst])
         /\ DOMAIN disk' = DOMAIN disk
         /\ pending' \in Seq(Bytes) /\ disk'[io.dst] \in Seq(Bytes)
         /\ disk'[io.dst] \o pending' = (disk[io.dst] \o pending) \o Prefix(buf, m)
<1> DEFINE a == pending \o Prefix(buf, m)
           d == disk[io.dst]
<1>1. io.dst \in Files /\ io.dst \in DOMAIN disk /\ d \in Seq(Bytes) /\ IsDisk(disk)
  BY CallArguments DEF FilesInv, IOTypes, InPlace, Writing, IsDisk
<1>2. Prefix(buf, m) \in Seq(Bytes) /\ pending \in Seq(Bytes)
  BY Prefixed DEF FilesInv, IOTypes
<1>3. a \in Seq(Bytes)
  BY <1>2, ConcatProperties
<1>4. /\ disk' = Put(disk, io.dst, d \o Prefix(a, k))
      /\ pending' = SubSeq(a, k + 1, Len(a)) /\ k \in 0 .. Len(a)
  BY <1>3 DEF fwrite
<1>5. d \o a = (d \o pending) \o Prefix(buf, m)
  BY <1>1, <1>2, Associates
<1> HIDE DEF a, d
<1>6. /\ d \o Prefix(a, k) \in Seq(Bytes) /\ SubSeq(a, k + 1, Len(a)) \in Seq(Bytes)
      /\ (d \o Prefix(a, k)) \o SubSeq(a, k + 1, Len(a)) = d \o a
  BY <1>1, <1>3, <1>4, PassedOn
<1>7. /\ IsDisk(disk') /\ DOMAIN disk' = DOMAIN disk \cup {io.dst}
      /\ disk'[io.dst] = d \o Prefix(a, k)
  <2>1. IsDisk(disk')
    BY <1>1, <1>4, <1>6, PutOnDisk
  <2>2. DOMAIN disk' = DOMAIN disk \cup {io.dst} /\ disk'[io.dst] = d \o Prefix(a, k)
    BY <1>4 DEF Put
  <2> QED
    BY <2>1, <2>2
<1>8. DOMAIN disk' = DOMAIN disk
  BY <1>1, <1>7
<1>9. disk'[io.dst] \o pending' = (disk[io.dst] \o pending) \o Prefix(buf, m)
  BY <1>4, <1>5, <1>6, <1>7 DEF d
<1> QED
  BY <1>4, <1>6, <1>7, <1>8, <1>9

\* What fclose passes on, which is all unless it fails.
LEMMA Closed ==
  ASSUME FilesInv, iopc = "close", NEW k \in 0 .. Len(pending),
         disk' = Put(disk, io.dst, disk[io.dst] \o Prefix(pending, k))
  PROVE  /\ IsDisk(disk') /\ disk' = Put(disk, io.dst, disk'[io.dst])
         /\ DOMAIN disk' = DOMAIN disk
         /\ k = Len(pending) => disk'[io.dst] = disk[io.dst] \o pending
<1> DEFINE d == disk[io.dst]
<1>1. io.dst \in Files /\ io.dst \in DOMAIN disk /\ d \in Seq(Bytes) /\ IsDisk(disk)
      /\ pending \in Seq(Bytes)
  BY CallArguments DEF FilesInv, IOTypes, InPlace, Writing, IsDisk
<1> HIDE DEF d
<1>2. d \o Prefix(pending, k) \in Seq(Bytes)
  BY <1>1, PassedOn
<1>3. disk' = Put(disk, io.dst, d \o Prefix(pending, k))
  BY DEF d
<1>4. /\ IsDisk(disk') /\ DOMAIN disk' = DOMAIN disk \cup {io.dst}
      /\ disk'[io.dst] = d \o Prefix(pending, k)
  <2>1. IsDisk(disk')
    BY <1>1, <1>2, <1>3, PutOnDisk
  <2>2. DOMAIN disk' = DOMAIN disk \cup {io.dst} /\ disk'[io.dst] = d \o Prefix(pending, k)
    BY <1>3 DEF Put
  <2> QED
    BY <2>1, <2>2
<1>5. k = Len(pending) => Prefix(pending, k) = pending
  BY <1>1, SubSeqFull DEF Prefix
<1> QED
  BY <1>1, <1>3, <1>4, <1>5 DEF d

LEMMA StreamTyped ==
  ASSUME IOTypes, UNCHANGED stream \/ (Fresh' /\ UNCHANGED buf)
  PROVE  pos' \in Nat /\ eof' \in BOOLEAN /\ pending' \in Seq(Bytes) /\ buf' \in Seq(Bytes) /\ sz' \in Nat
<1>1. CASE UNCHANGED stream
  BY <1>1 DEF stream, IOTypes
<1>2. CASE Fresh' /\ UNCHANGED buf
  BY <1>2, EmptySeq DEF Fresh, IOTypes
<1> QED
  BY <1>1, <1>2

LEMMA FilesStep == FilesInv /\ [IONext]_iovars => FilesInv'
<1> SUFFICES ASSUME FilesInv, [IONext]_iovars PROVE FilesInv'
  OBVIOUS
<1> USE DEF FilesInv
<1>0. /\ io.op \in {"none", "copy", "read_all", "write_all"}
      /\ io.op = "copy" => io.src \in Files /\ io.dst \in Files
      /\ io.op = "read_all" => io.src \in Files /\ io.buf_size \in BufSizes
      /\ io.op = "write_all" => io.dst \in Files /\ io.data \in Contents
      /\ <<>> \in Seq(Bytes)
  BY CallArguments, EmptySeq DEF IOTypes
<1>1. ASSUME NEW src \in Files, NEW dst \in Files, copy(src, dst) PROVE FilesInv'
  <2>1. io' \in IOCalls /\ io'.op = "copy" /\ io'.src \in Files /\ io'.dst \in Files
    BY <1>1 DEF copy, Enter, IOCalls
  <2> QED
    BY <1>0, <1>1, <2>1 DEF copy, Enter, IOTypes, InPlace, Open, Fresh, InRead, Writing
<1>2. ASSUME NEW path \in Files, NEW buf_size \in BufSizes, read_file_all(path, buf_size)
      PROVE  FilesInv'
  <2>1. io' \in IOCalls /\ io'.op = "read_all"
    BY <1>2 DEF read_file_all, Enter, IOCalls
  <2> QED
    BY <1>0, <1>2, <2>1 DEF read_file_all, Enter, IOTypes, InPlace, Open, Fresh, InRead, Writing
<1>3. ASSUME NEW path \in Files, NEW data \in Contents, write_file_all(path, data)
      PROVE  FilesInv'
  <2>1. io' \in IOCalls /\ io'.op = "write_all"
    BY <1>3 DEF write_file_all, Enter, IOCalls
  <2>2. data \in Seq(Bytes)
    BY FileIOAssumption
  <2> QED
    BY <1>0, <1>3, <2>1, <2>2
    DEF write_file_all, Enter, IOTypes, InPlace, Open, Fresh, InRead, Writing
<1>4. ASSUME NEW f \in Files, NEW content \in Contents, other_write(f, content)
      PROVE  FilesInv'
  <2>1. IsDisk(disk') /\ DOMAIN disk' = DOMAIN disk \cup {f}
    <3>1. content \in Seq(Bytes) /\ IsDisk(disk) /\ disk' = Put(disk, f, content)
      BY <1>4, FileIOAssumption DEF other_write, IOTypes
    <3>2. IsDisk(disk')
      BY <3>1, PutOnDisk
    <3>3. DOMAIN disk' = DOMAIN disk \cup {f}
      BY <3>1 DEF Put
    <3> QED
      BY <3>2, <3>3
  <2>2. UNCHANGED <<io, iopc, stream, ioret, opened, created, leftover, before>> /\ disturbed' = TRUE
    BY <1>4 DEF other_write
  <2> QED
    BY <1>0, <2>1, <2>2 DEF IOTypes, InPlace, Open, Fresh, stream
<1>5. CASE open_in
  <2>1. IOTypes'
    <3>1. UNCHANGED stream \/ (Fresh' /\ UNCHANGED buf)
      BY <1>5 DEF open_in, Finish, Fresh
    <3>2. UNCHANGED <<disk, io, created, leftover, before, disturbed>> /\ ioret' \in BOOLEAN
      BY <1>5 DEF open_in, Finish, ghosts, IOTypes
    <3> QED
      BY <3>1, <3>2, StreamTyped DEF IOTypes
  <2>2. InPlace' /\ opened' = Open'
    BY <1>0, <1>5 DEF open_in, InPlace, Open, Fresh, Finish, InRead, Writing, Exists, stream, ghosts
  <2> QED
    BY <2>1, <2>2
<1>6. CASE open_out
  <2>1. io.dst \in Files /\ IsDisk(disk)
    BY <1>0, <1>6 DEF open_out, InPlace, IOTypes, Writing
  <2>2. disk' = disk \/ disk' = Put(disk, io.dst, <<>>)
    BY <1>6 DEF open_out
  <2>3. /\ IsDisk(Put(disk, io.dst, <<>>))
        /\ DOMAIN Put(disk, io.dst, <<>>) = DOMAIN disk \cup {io.dst}
    <3>1. IsDisk(Put(disk, io.dst, <<>>))
      BY <1>0, <2>1, PutOnDisk
    <3>2. DOMAIN Put(disk, io.dst, <<>>) = DOMAIN disk \cup {io.dst}
      BY DEF Put
    <3> QED
      BY <3>1, <3>2
  <2>4. iopc' # "idle" => disk' = Put(disk, io.dst, <<>>)
    BY <1>6 DEF open_out, Finish
  <2>5. IsDisk(disk') /\ DOMAIN disk \subseteq DOMAIN disk' /\ (iopc' # "idle" => io.dst \in DOMAIN disk')
    BY <2>1, <2>2, <2>3, <2>4
  <2>6. IOTypes'
    <3>1. UNCHANGED stream \/ (Fresh' /\ UNCHANGED buf)
      BY <1>6 DEF open_out, Finish, Fresh
    <3>2. UNCHANGED <<io, leftover, before, disturbed>> /\ ioret' \in BOOLEAN /\ created' \in BOOLEAN
      BY <1>6 DEF open_out, Finish, IOTypes
    <3> QED
      BY <2>5, <3>1, <3>2, StreamTyped DEF IOTypes
  <2>7. InPlace' /\ opened' = Open'
    BY <1>0, <1>6, <2>5 DEF open_out, InPlace, Open, Fresh, Finish, InRead, Writing, stream
  <2> QED
    BY <2>6, <2>7
<1>7. CASE read_chunk
  <2>1. io.src \in DOMAIN disk /\ disk[io.src] \in Seq(Bytes) /\ Chunk \in Nat
    BY <1>7, FileIOAssumption DEF read_chunk, InPlace, IOTypes, IsDisk, Writing
  <2>2. ASSUME NEW n \in Nat PROVE NextBytes(n) \in Seq(Bytes) /\ Len(NextBytes(n)) \in Nat
    BY <2>1, Found DEF NextBytes, IOTypes
  <2>3. buf' \in Seq(Bytes) /\ pos' \in Nat /\ eof' \in BOOLEAN
    <3>1. CASE fread(Chunk)
      BY <2>1, <2>2, <3>1 DEF fread, IOTypes
    <3>2. CASE fread_fails(Chunk)
      BY <2>1, <2>2, <3>2 DEF fread_fails, IOTypes
    <3> QED
      BY <1>7, <3>1, <3>2 DEF read_chunk
  <2> QED
    BY <1>0, <1>7, <2>3
    DEF read_chunk, IOTypes, InPlace, Open, Fresh, InRead, Writing, ghosts
<1>8. CASE write
  <2>1. PICK m \in 0 .. Len(buf), k \in 0 .. Len(pending) + Len(buf) :
          /\ fwrite(m, k) /\ ioret' = (m = Len(buf))
          /\ iopc' = IF ioret' /\ io.op = "copy" THEN "read" ELSE "close"
    BY <1>8 DEF write
  <2>2. iopc = "write"
    BY <1>8 DEF write
  <2>3. k \in Nat
    BY DEF IOTypes
  <2>4. IsDisk(disk') /\ DOMAIN disk' = DOMAIN disk /\ pending' \in Seq(Bytes)
    BY <2>1, <2>2, <2>3, Taken
  <2>5. IOTypes'
    BY <1>8, <2>1, <2>4 DEF write, IOTypes, ghosts
  <2>6. InPlace' /\ opened' = Open'
    BY <1>0, <1>8, <2>1, <2>2, <2>4
    DEF write, InPlace, Open, Fresh, InRead, Writing, ghosts
  <2> QED
    BY <2>5, <2>6
<1>9. CASE close
  <2>1. PICK k \in 0 .. Len(pending) : disk' = Put(disk, io.dst, disk[io.dst] \o Prefix(pending, k))
    BY <1>9 DEF close
  <2>2. IsDisk(disk') /\ DOMAIN disk' = DOMAIN disk
    BY <1>9, <2>1, Closed DEF close
  <2>3. IOTypes'
    <3>1. UNCHANGED stream \/ (Fresh' /\ UNCHANGED buf)
      BY <1>9 DEF close, Finish, Fresh
    <3>2. UNCHANGED <<io, created, leftover, before, disturbed>> /\ ioret' \in BOOLEAN
      BY <1>9 DEF close, Finish, ghosts, IOTypes
    <3> QED
      BY <2>2, <3>1, <3>2, StreamTyped DEF IOTypes
  <2>4. InPlace' /\ opened' = Open'
    BY <1>0, <1>9, <2>2
    DEF close, InPlace, Open, Fresh, Finish, InRead, Writing, ghosts, stream
  <2> QED
    BY <2>3, <2>4
<1>10. CASE remove
  <2>1. IsDisk(disk')
    BY <1>10, UnlinkFromDisk DEF remove, IOTypes
  <2> QED
    BY <1>0, <1>10, <2>1 DEF remove, IOTypes, InPlace, Open, Fresh, Finish, InRead, Writing
<1>11. CASE measure
  <2>1. io.src \in DOMAIN disk /\ Len(disk[io.src]) \in Nat
    BY <1>11 DEF measure, InPlace, IOTypes, IsDisk, InRead
  <2>2. IOTypes'
    <3>1. \/ UNCHANGED stream \/ (Fresh' /\ UNCHANGED buf)
          \/ sz' \in Nat /\ pos' \in Nat /\ UNCHANGED <<eof, pending, buf>>
      BY <1>11, <2>1 DEF measure, Finish, Fresh, IOTypes
    <3>2. UNCHANGED <<disk, io, created, leftover, before, disturbed>> /\ ioret' \in BOOLEAN
      BY <1>11 DEF measure, Finish, ghosts, IOTypes
    <3>3. /\ pos' \in Nat /\ eof' \in BOOLEAN /\ pending' \in Seq(Bytes)
          /\ buf' \in Seq(Bytes) /\ sz' \in Nat
      BY <3>1, StreamTyped DEF IOTypes
    <3> QED
      BY <3>2, <3>3 DEF IOTypes
  <2>3. InPlace' /\ opened' = Open'
    BY <1>0, <1>11, <2>1 DEF measure, InPlace, Open, Fresh, Finish, InRead, Writing, ghosts
  <2> QED
    BY <2>2, <2>3
<1>12. CASE check_size
  <2>1. IOTypes'
    <3>1. UNCHANGED stream \/ (Fresh' /\ UNCHANGED buf)
      BY <1>12 DEF check_size, Finish, Fresh
    <3>2. UNCHANGED <<disk, io, created, leftover, before, disturbed>> /\ ioret' \in BOOLEAN
      BY <1>12 DEF check_size, Finish, ghosts, IOTypes
    <3> QED
      BY <3>1, <3>2, StreamTyped DEF IOTypes
  <2>2. InPlace' /\ opened' = Open'
    BY <1>0, <1>12 DEF check_size, InPlace, Open, Fresh, Finish, InRead, Writing, ghosts, stream
  <2> QED
    BY <2>1, <2>2
<1>13. CASE read_all
  <2>1. io.src \in DOMAIN disk /\ disk[io.src] \in Seq(Bytes)
    BY <1>13 DEF read_all, InPlace, IOTypes, IsDisk, InRead
  <2>2. ASSUME NEW n \in Nat PROVE NextBytes(n) \in Seq(Bytes) /\ Len(NextBytes(n)) \in Nat
    BY <2>1, Found DEF NextBytes, IOTypes
  <2>3. sz \in Nat /\ Len(NextBytes(sz)) \in Nat
    BY <2>2 DEF IOTypes
  <2>4. \E n \in Nat : buf' = NextBytes(n)
    BY <1>13, <2>3 DEF read_all
  <2>5. buf' \in Seq(Bytes)
    BY <2>2, <2>4
  <2>6. IOTypes'
    BY <1>0, <1>13, <2>5 DEF read_all, IOTypes, Finish, ghosts
  <2>7. InPlace' /\ opened' = Open'
    BY <1>0, <1>13 DEF read_all, InPlace, Open, Fresh, Finish, InRead, Writing, ghosts
  <2> QED
    BY <2>6, <2>7
<1>14. CASE UNCHANGED iovars
  BY <1>14 DEF iovars, stream, ghosts, IOTypes, InPlace, Open, Fresh
<1> QED
  BY <1>1, <1>2, <1>3, <1>4, <1>5, <1>6, <1>7, <1>8, <1>9, <1>10, <1>11, <1>12, <1>13, <1>14
  DEF IONext, IOStep

LEMMA FilesInvariant == IOSpec => []FilesInv
<1>1. IOInit => FilesInv
  BY FilesInit
<1>2. FilesInv /\ [IONext]_iovars => FilesInv'
  BY FilesStep
<1> QED
  BY <1>1, <1>2, PTL DEF IOSpec

LEMMA CountedFilesClose == FilesInv => FilesClosed
BY DEF FilesInv, FilesClosed, Open, InRead

-----------------------------------------------------------------------------
(* Copying, step by step: how much of src has come, and where it is        *)

In  == before[io.src]
Out == disk[io.dst]

Begins(r, s) == \E k \in 0 .. Len(s) : r = Prefix(s, k)

\* The first part of what s begins with is what s begins with.
LEMMA FirstPart ==
  ASSUME NEW s \in Seq(Bytes), NEW a \in Seq(Bytes), NEW b \in Seq(Bytes),
         Begins(a \o b, s), NEW m \in 0 .. Len(b)
  PROVE  Begins(a \o Prefix(b, m), s)
<1>1. PICK n \in 0 .. Len(s) : a \o b = Prefix(s, n)
  BY DEF Begins
<1>2. Len(s) \in Nat /\ Len(a) \in Nat /\ Len(b) \in Nat /\ n \in Nat /\ m \in Nat
  OBVIOUS
<1>3. Prefix(s, n) \in Seq(Bytes) /\ Len(Prefix(s, n)) = n /\ (\A i \in 1 .. n : Prefix(s, n)[i] = s[i])
  BY <1>2, SubSeqProperties DEF Prefix
<1>4. Prefix(b, m) \in Seq(Bytes) /\ Len(Prefix(b, m)) = m /\ (\A i \in 1 .. m : Prefix(b, m)[i] = b[i])
  BY <1>2, SubSeqProperties DEF Prefix
<1> DEFINE k == Len(a) + m
           c == Prefix(b, m)
<1>5. Len(a \o b) = Len(a) + Len(b)
  BY ConcatProperties
<1>6. k \in 0 .. Len(s) /\ k <= n
  BY <1>1, <1>2, <1>3, <1>5
<1>7. Prefix(s, k) \in Seq(Bytes) /\ Len(Prefix(s, k)) = k /\ (\A i \in 1 .. k : Prefix(s, k)[i] = s[i])
  BY <1>2, <1>6, SubSeqProperties DEF Prefix
<1>8. \A i \in 1 .. Len(a) + Len(b) : (a \o b)[i] = IF i <= Len(a) THEN a[i] ELSE b[i - Len(a)]
  BY ConcatProperties
<1> HIDE DEF c
<1>9. a \o c \in Seq(Bytes) /\ Len(a \o c) = k
      /\ (\A i \in 1 .. k : (a \o c)[i] = IF i <= Len(a) THEN a[i] ELSE c[i - Len(a)])
  <2>1. c \in Seq(Bytes) /\ Len(c) = m
    BY <1>4 DEF c
  <2> QED
    BY <2>1, ConcatProperties
<1>10. ASSUME NEW i \in 1 .. k PROVE (a \o c)[i] = Prefix(s, k)[i]
  <2>1. i \in 1 .. n /\ i \in 1 .. Len(a) + Len(b)
    BY <1>2, <1>6
  <2>2. Prefix(s, k)[i] = (a \o b)[i]
    BY <1>1, <1>3, <1>7, <2>1
  <2>3. i > Len(a) => i - Len(a) \in 1 .. m
    BY <1>2
  <2> QED
    BY <1>4, <1>8, <1>9, <2>1, <2>2, <2>3 DEF c
<1>11. a \o c = Prefix(s, k)
  BY <1>7, <1>9, <1>10, SeqEqual
<1> QED
  BY <1>6, <1>11 DEF Begins, c

CopySoFar ==
  /\ iopc \in {"open_in", "open_out"} => disk = before
  /\ iopc \in Writing => io.src \in DOMAIN before /\ disk = Put(before, io.dst, Out)
  /\ iopc = "read" => Out \o pending = Prefix(In, pos)
  /\ iopc = "write" => (Out \o pending) \o buf = Prefix(In, pos)
  /\ iopc \in {"read", "write"} => pos <= Len(In) /\ (eof => pos = Len(In))
  /\ iopc = "close" => (ioret => Out \o pending = In) /\ Begins(Out \o pending, In)
  /\ iopc = "remove" => Begins(Out, In)

CopyInv ==
  io.op = "copy" =>
    /\ iopc \in {"open_in", "open_out", "read", "write"} => ioret = TRUE
    /\ io.src # io.dst /\ ~disturbed => CopySoFar
    /\ CopyIsAllOrNothing

\* r is what the next read of n bytes may get of s after p of them.
ReadsOn(s, p, n, r) ==
  /\ Len(r) \in Nat /\ p + Len(r) <= Len(s)
  /\ Len(r) < n => p + Len(r) = Len(s)
  /\ n <= Len(s) - p => Len(r) = n
  /\ Prefix(s, p) \o r = Prefix(s, p + Len(r))
  /\ r = <<>> => Len(r) = 0

\* Reading n bytes on from p takes the rest of the file, or n bytes of it.
LEMMA ReadOn ==
  ASSUME NEW s \in Seq(Bytes), NEW p \in Nat, p <= Len(s), NEW n \in Nat
  PROVE  ReadsOn(s, p, n, SubSeq(s, p + 1, Least(p + n, Len(s))))
<1> DEFINE e == Least(p + n, Len(s))
           r == SubSeq(s, p + 1, e)
<1>1. Len(s) \in Nat /\ e \in p .. Len(s) /\ e = Least(n, Len(s) - p) + p
  BY DEF Least
<1>2. Len(r) = Least(n, Len(s) - p) /\ Len(r) \in Nat
  BY Found
<1>3. p + Len(r) = e
  BY <1>1, <1>2
<1>4. Prefix(s, p) \o r = Prefix(s, e)
  <2>0. p \in 0 .. Len(s)
    BY <1>1
  <2>1. \A x \in p .. Len(s) : Prefix(s, p) \o SubSeq(s, p + 1, x) = Prefix(s, x)
    BY <2>0, Extended
  <2> HIDE DEF e
  <2> QED
    BY <1>1, <2>1
<1>5. /\ Least(n, Len(s) - p) <= Len(s) - p
      /\ Least(n, Len(s) - p) < n => Least(n, Len(s) - p) = Len(s) - p
      /\ n <= Len(s) - p => Least(n, Len(s) - p) = n
  BY <1>1 DEF Least
<1> HIDE DEF e, r
<1>6. p + Len(r) <= Len(s) /\ (Len(r) < n => p + Len(r) = Len(s)) /\ (n <= Len(s) - p => Len(r) = n)
  BY <1>1, <1>2, <1>5
<1>7. r = <<>> => Len(r) = 0
  BY EmptySeq
<1>8. ReadsOn(s, p, n, r)
  BY <1>2, <1>3, <1>4, <1>6, <1>7 DEF ReadsOn
<1> QED
  BY <1>8 DEF e, r

LEMMA CopyInit == IOInit => CopyInv
BY DEF IOInit, CopyInv

LEMMA OpenOutCopies ==
  ASSUME FilesInv, CopyInv, open_out, io.op = "copy", io.src # io.dst, ~disturbed
  PROVE  CopySoFar' /\ CopyIsAllOrNothing'
<1>1. /\ disk = before /\ Fresh /\ io.src \in DOMAIN disk /\ iopc = "open_out" /\ ~created
      /\ IsDisk(disk) /\ io.src \in Files /\ io.dst \in Files
  BY CallArguments DEF open_out, FilesInv, IOTypes, InPlace, CopyInv, CopySoFar
<1>2. UNCHANGED <<io, before, disturbed>>
  BY DEF open_out
<1>3. CASE /\ disk' = Put(disk, io.dst, <<>>) /\ iopc' = "read" /\ UNCHANGED stream
  <2>1. disk'[io.dst] = <<>>
    BY <1>3 DEF Put
  <2>2. pos' = 0 /\ eof' = FALSE /\ pending' = <<>>
    BY <1>1, <1>3 DEF stream, Fresh
  <2>3. before[io.src] \in Seq(Bytes)
    BY <1>1 DEF IsDisk
  <2>4. Prefix(before[io.src], 0) = <<>> /\ <<>> \o <<>> = <<>> /\ Len(before[io.src]) \in Nat
    <3>1. Prefix(before[io.src], 0) = <<>>
      BY SubSeqEmpty DEF Prefix
    <3>2. <<>> \o <<>> = <<>>
      BY EmptySeq, ConcatEmptySeq
    <3> QED
      BY <2>3, <3>1, <3>2, LenProperties
  <2>5. CopySoFar'
    BY <1>1, <1>2, <1>3, <2>1, <2>2, <2>4 DEF CopySoFar, In, Out, Writing
  <2>6. CopyIsAllOrNothing'
    BY <1>3 DEF CopyIsAllOrNothing, Quietly, Returned
  <2> QED
    BY <2>5, <2>6
<1>4. CASE /\ disk' \in {disk, Put(disk, io.dst, <<>>)} /\ iopc' = "idle" /\ ioret' = FALSE
           /\ UNCHANGED created
  BY <1>1, <1>2, <1>4 DEF CopySoFar, CopyIsAllOrNothing, Writing
<1> QED
  BY <1>1, <1>3, <1>4 DEF open_out, Finish

LEMMA ReadChunkCopies ==
  ASSUME FilesInv, CopyInv, read_chunk, io.op = "copy", io.src # io.dst, ~disturbed
  PROVE  CopySoFar' /\ CopyIsAllOrNothing'
<1>1. /\ iopc = "read" /\ Chunk \in Nat \ {0} /\ CopySoFar /\ ioret = TRUE
      /\ io.src \in DOMAIN before /\ disk = Put(before, io.dst, Out)
      /\ Out \o pending = Prefix(In, pos)
      /\ pos \in Nat /\ pos <= Len(In) /\ (eof => pos = Len(In))
  BY FileIOAssumption DEF read_chunk, CopyInv, CopySoFar, Writing, FilesInv, IOTypes
<1>2. In \in Seq(Bytes) /\ disk[io.src] = In
  <2>1. In \in Seq(Bytes)
    BY <1>1 DEF FilesInv, IOTypes, IsDisk, In
  <2>2. disk[io.src] = In
    BY <1>1 DEF Put, In
  <2> QED
    BY <2>1, <2>2
<1>3. /\ UNCHANGED <<disk, io, pending, before, disturbed>>
      /\ iopc' = IF buf' # <<>> THEN "write" ELSE "close"
      /\ ioret' = (buf' # <<>> \/ eof')
  BY DEF read_chunk, ghosts
<1>4. In' = In /\ Out' = Out
  BY <1>3 DEF In, Out
<1>5. /\ pos' \in Nat /\ pos' <= Len(In) /\ (eof' => pos' = Len(In))
      /\ Prefix(In, pos) \o buf' = Prefix(In, pos')
      /\ buf' = <<>> => pos' = pos
  <2>1. CASE fread(Chunk)
    <3>1. /\ buf' = SubSeq(In, pos + 1, Least(pos + Chunk, Len(In)))
          /\ pos' = pos + Len(buf') /\ eof' = (eof \/ Len(buf') < Chunk)
      BY <1>2, <2>1 DEF fread, NextBytes
    <3>2. /\ Len(buf') \in Nat /\ pos + Len(buf') <= Len(In)
          /\ Len(buf') < Chunk => pos + Len(buf') = Len(In)
          /\ Prefix(In, pos) \o buf' = Prefix(In, pos + Len(buf'))
          /\ buf' = <<>> => Len(buf') = 0
      <4> DEFINE r == SubSeq(In, pos + 1, Least(pos + Chunk, Len(In)))
      <4>1. Chunk \in Nat /\ pos \in Nat /\ pos <= Len(In) /\ In \in Seq(Bytes)
        BY <1>1, <1>2
      <4>2. ReadsOn(In, pos, Chunk, r)
        BY <4>1, ReadOn
      <4>3. buf' = r
        BY <3>1
      <4> HIDE DEF r
      <4> QED
        BY <4>2, <4>3 DEF ReadsOn
    <3>3. Len(In) \in Nat
      BY <1>2
    <3>4. pos' \in Nat /\ pos' <= Len(In) /\ (buf' = <<>> => pos' = pos) /\ pos <= pos'
      <4> DEFINE l == Len(buf')
      <4>1. pos' = pos + l /\ l \in Nat /\ pos + l <= Len(In) /\ (buf' = <<>> => l = 0)
        BY <3>1, <3>2
      <4> HIDE DEF l
      <4> QED
        BY <1>1, <4>1
    <3>5. CASE eof
      <4>1. pos = Len(In)
        BY <1>1, <3>5
      <4>2. pos' = Len(In)
        BY <3>3, <3>4, <4>1
      <4> QED
        BY <3>1, <3>2, <3>4, <4>2
    <3>6. CASE ~eof
      <4>1. eof' => Len(buf') < Chunk
        BY <3>1, <3>6
      <4> QED
        BY <3>1, <3>2, <3>4, <4>1
    <3> QED
      BY <3>5, <3>6
  <2>2. CASE fread_fails(Chunk)
    <3>1. PICK k \in 0 .. Len(NextBytes(Chunk)) : buf' = NextBytes(k) /\ pos' = pos + k
      BY <2>2 DEF fread_fails
    <3>2. NextBytes(k) = SubSeq(In, pos + 1, Least(pos + k, Len(In)))
      BY <1>2 DEF NextBytes
    <3>3. NextBytes(Chunk) = SubSeq(In, pos + 1, Least(pos + Chunk, Len(In)))
      BY <1>2 DEF NextBytes
    <3>4. Len(NextBytes(Chunk)) \in Nat /\ pos + Len(NextBytes(Chunk)) <= Len(In) /\ Len(In) \in Nat
      <4> DEFINE c == NextBytes(Chunk)
      <4>1. c = SubSeq(In, pos + 1, Least(pos + Chunk, Len(In))) /\ Chunk \in Nat
        BY <1>1, <3>3
      <4> HIDE DEF c
      <4>2. Len(c) \in Nat /\ pos + Len(c) <= Len(In)
        BY <1>1, <1>2, <4>1, ReadOn DEF ReadsOn
      <4> QED
        BY <1>2, <4>2 DEF c
    <3>5. k \in Nat /\ k <= Len(In) - pos
      BY <1>1, <3>4
    <3>6. /\ Len(buf') = k
          /\ Prefix(In, pos) \o buf' = Prefix(In, pos + Len(buf'))
          /\ buf' = <<>> => Len(buf') = 0
      BY <1>1, <1>2, <3>1, <3>2, <3>5, ReadOn, ZenonT(20) DEF ReadsOn
    <3>7. eof' = eof
      BY <2>2 DEF fread_fails
    <3>8. pos' \in Nat /\ pos' <= Len(In) /\ (eof' => pos' = Len(In)) /\ (buf' = <<>> => pos' = pos)
      BY <1>1, <3>1, <3>4, <3>5, <3>6, <3>7
    <3> QED
      BY <3>1, <3>6, <3>8
  <2> QED
    BY <2>1, <2>2 DEF read_chunk
<1>6. Prefix(In, Len(In)) = In
  BY <1>2, SubSeqFull DEF Prefix
<1>7. buf' = <<>> => Begins(Out \o pending, In)
  BY <1>1, <1>2 DEF Begins
<1>8. CopySoFar'
  BY <1>1, <1>3, <1>4, <1>5, <1>6, <1>7 DEF CopySoFar, Writing
<1> QED
  BY <1>3, <1>8 DEF CopyIsAllOrNothing, Quietly, Returned

\* A write takes all of buf, or fails after a part of it.
LEMMA WriteTakes ==
  ASSUME FilesInv, write
  PROVE  \E m \in 0 .. Len(buf) :
           /\ IsDisk(disk') /\ disk' = Put(disk, io.dst, Out')
           /\ Out' \o pending' = (Out \o pending) \o Prefix(buf, m)
           /\ ioret' = (m = Len(buf)) /\ (m = Len(buf) => Prefix(buf, m) = buf)
<1>1. iopc = "write" /\ io' = io /\ buf \in Seq(Bytes)
  BY DEF write, FilesInv, IOTypes
<1>2. PICK m \in 0 .. Len(buf), k \in 0 .. Len(pending) + Len(buf) :
        fwrite(m, k) /\ ioret' = (m = Len(buf))
  BY DEF write
<1>3. k \in Nat
  BY DEF FilesInv, IOTypes
<1>4. /\ IsDisk(disk') /\ disk' = Put(disk, io.dst, disk'[io.dst])
      /\ disk'[io.dst] \o pending' = (disk[io.dst] \o pending) \o Prefix(buf, m)
  BY <1>1, <1>2, <1>3, Taken
<1>5. m = Len(buf) => Prefix(buf, m) = buf
  BY <1>1, SubSeqFull DEF Prefix
<1> QED
  BY <1>1, <1>2, <1>4, <1>5 DEF Out

LEMMA WriteCopies ==
  ASSUME FilesInv, CopyInv, write, io.op = "copy", io.src # io.dst, ~disturbed
  PROVE  CopySoFar' /\ CopyIsAllOrNothing'
<1>1. /\ iopc = "write" /\ io.src \in DOMAIN before /\ disk = Put(before, io.dst, Out)
      /\ (Out \o pending) \o buf = Prefix(In, pos)
      /\ pos <= Len(In) /\ (eof => pos = Len(In))
  BY DEF write, CopyInv, CopySoFar, Writing
<1>2. UNCHANGED <<io, pos, eof, buf, before, disturbed>>
  BY DEF write, ghosts
<1>3. In' = In
  BY <1>2 DEF In
<1>4. iopc' = IF ioret' /\ io.op = "copy" THEN "read" ELSE "close"
  BY DEF write
<1>5. PICK m \in 0 .. Len(buf) :
        /\ disk' = Put(disk, io.dst, Out')
        /\ Out' \o pending' = (Out \o pending) \o Prefix(buf, m)
        /\ ioret' = (m = Len(buf)) /\ (m = Len(buf) => Prefix(buf, m) = buf)
  BY WriteTakes
<1>6. disk' = Put(before, io.dst, Out')
  BY <1>1, <1>5, PutAgain
<1>7. ioret' => Out' \o pending' = Prefix(In, pos)
  BY <1>1, <1>5
<1>8. Begins(Out' \o pending', In)
  <2>1. /\ In \in Seq(Bytes) /\ Out \in Seq(Bytes) /\ pending \in Seq(Bytes)
        /\ buf \in Seq(Bytes) /\ pos \in Nat
    BY <1>1 DEF In, Out, FilesInv, IOTypes, InPlace, IsDisk, Writing
  <2>2. Out \o pending \in Seq(Bytes)
    BY <2>1
  <2>3. Begins((Out \o pending) \o buf, In)
    BY <1>1, <2>1 DEF Begins
  <2> QED
    BY ONLY <1>5, <2>1, <2>2, <2>3, FirstPart
<1>9. CopySoFar'
  BY <1>1, <1>2, <1>3, <1>4, <1>6, <1>7, <1>8 DEF CopySoFar, Writing
<1> QED
  BY <1>4, <1>9 DEF CopyIsAllOrNothing, Quietly, Returned

\* Where fclose does not fail, nothing is lost when the output is closed.
LEMMA CloseFlushes ==
  ASSUME "close" \notin IOFaults, FilesInv, close
  PROVE  disk' = Put(disk, io.dst, Out \o pending)
<1>1. PICK k \in 0 .. Len(pending) :
        /\ k < Len(pending) => May("close")
        /\ disk' = Put(disk, io.dst, disk[io.dst] \o Prefix(pending, k))
  BY DEF close
<1>2. Len(pending) \in Nat
  BY DEF FilesInv, IOTypes
<1>3. k = Len(pending)
  BY <1>1, <1>2 DEF May
<1>4. Prefix(pending, k) = pending
  BY <1>3, SubSeqFull DEF Prefix, FilesInv, IOTypes
<1> QED
  BY <1>1, <1>4 DEF Out

LEMMA CloseCopies ==
  ASSUME "close" \notin IOFaults,
         FilesInv, CopyInv, close, io.op = "copy", io.src # io.dst, ~disturbed
  PROVE  CopySoFar' /\ CopyIsAllOrNothing'
<1>1. /\ iopc = "close" /\ io.src \in DOMAIN before /\ disk = Put(before, io.dst, Out)
      /\ (ioret => Out \o pending = In) /\ created /\ Begins(Out \o pending, In)
  BY DEF close, CopyInv, CopySoFar, Writing, FilesInv, InPlace
<1>2. UNCHANGED <<io, created, leftover, before, disturbed>>
  BY DEF close, ghosts
<1>3. disk' = Put(disk, io.dst, Out \o pending)
  BY CloseFlushes
<1>4. disk' = Put(before, io.dst, Out \o pending)
  BY <1>1, <1>3, PutAgain
<1>5. disk' = Put(before, io.dst, Out') /\ Begins(Out', In') /\ In' = In
  <2>1. Out' = Out \o pending /\ In' = In
    BY <1>2, <1>3 DEF Put, Out, In
  <2> QED
    BY <1>1, <1>4, <2>1
<1>6. CASE ioret
  <2>1. iopc' = "idle" /\ ioret' = ioret
    BY <1>6 DEF close, Finish
  <2>2. disk' = Put(before, io.dst, before[io.src])
    BY <1>1, <1>4, <1>6 DEF In
  <2>3. CopyIsAllOrNothing'
    BY <1>2, <1>6, <2>1, <2>2 DEF CopyIsAllOrNothing
  <2> QED
    BY <2>1, <2>3 DEF CopySoFar, Writing
<1>7. CASE ~ioret
  <2>1. iopc' = "remove" /\ ioret' = ioret
    BY <1>7 DEF close
  <2> QED
    BY <1>1, <1>2, <1>5, <2>1 DEF CopySoFar, Writing, CopyIsAllOrNothing, Quietly, Returned
<1> QED
  BY <1>6, <1>7

LEMMA CopyStep ==
  ASSUME "close" \notin IOFaults, FilesInv, CopyInv, [IONext]_iovars
  PROVE  CopyInv'
<1>1. ASSUME NEW src \in Files, NEW dst \in Files, copy(src, dst) PROVE CopyInv'
  BY <1>1 DEF copy, Enter, CopyInv, CopySoFar, Writing, CopyIsAllOrNothing, Quietly, Returned
<1>2. ASSUME NEW path \in Files, NEW buf_size \in BufSizes, read_file_all(path, buf_size)
      PROVE  CopyInv'
  BY <1>2 DEF read_file_all, Enter, CopyInv
<1>3. ASSUME NEW path \in Files, NEW data \in Contents, write_file_all(path, data)
      PROVE  CopyInv'
  BY <1>3 DEF write_file_all, Enter, CopyInv
<1>4. ASSUME NEW f \in Files, NEW content \in Contents, other_write(f, content)
      PROVE  CopyInv'
  BY <1>4 DEF other_write, CopyInv, CopyIsAllOrNothing, Quietly, Returned
<1>5. CASE open_in
  BY <1>5 DEF open_in, FilesInv, InPlace, CopyInv, CopySoFar, Writing, Finish, Exists, ghosts,
              CopyIsAllOrNothing, Quietly, Returned
<1>6. CASE open_out
  <2>1. UNCHANGED <<io, disturbed>>
    BY <1>6 DEF open_out
  <2>2. io.op = "copy" /\ iopc' # "idle" => iopc' = "read" /\ ioret' = TRUE
    BY <1>6 DEF open_out, CopyInv, Finish
  <2>3. iopc' \in {"idle", "read", "write"}
    BY <1>6 DEF open_out, Finish
  <2>4. disturbed \/ io.src = io.dst => CopyIsAllOrNothing'
    BY <2>1 DEF CopyIsAllOrNothing, Quietly
  <2> QED
    BY <1>6, <2>1, <2>2, <2>3, <2>4, OpenOutCopies DEF CopyInv
<1>7. CASE read_chunk
  <2>1. UNCHANGED <<io, disturbed>> /\ ((iopc' = "write" /\ ioret' = TRUE) \/ iopc' = "close")
    BY <1>7 DEF read_chunk, ghosts
  <2>2. disturbed \/ io.src = io.dst => CopyIsAllOrNothing'
    BY <2>1 DEF CopyIsAllOrNothing, Quietly
  <2> QED
    BY <1>7, <2>1, <2>2, ReadChunkCopies DEF CopyInv
<1>8. CASE write
  <2>1. UNCHANGED <<io, disturbed>>
    BY <1>8 DEF write, ghosts
  <2>2. (iopc' = "read" /\ ioret' = TRUE) \/ iopc' = "close"
    BY <1>8 DEF write
  <2>3. disturbed \/ io.src = io.dst => CopyIsAllOrNothing'
    BY <2>1 DEF CopyIsAllOrNothing, Quietly
  <2> QED
    BY <1>8, <2>1, <2>2, <2>3, WriteCopies DEF CopyInv
<1>9. CASE close
  <2>1. UNCHANGED <<io, disturbed>> /\ iopc' \in {"idle", "remove"}
    BY <1>9 DEF close, ghosts, Finish
  <2>2. disturbed \/ io.src = io.dst => CopyIsAllOrNothing'
    BY <2>1 DEF CopyIsAllOrNothing, Quietly
  <2> QED
    BY <1>9, <2>1, <2>2, CloseCopies DEF CopyInv
<1>10. CASE remove
  <2>1. UNCHANGED <<io, created, before, disturbed>> /\ iopc' = "idle" /\ ioret' = FALSE
        /\ iopc = "remove" /\ created
    BY <1>10 DEF remove, Finish, FilesInv, InPlace, Writing
  <2>2. \/ disk' = Unlink(disk, io.dst) /\ ~leftover'
        \/ leftover' /\ disk' = disk
    BY <1>10 DEF remove, FilesInv, InPlace
  <2>3. ASSUME io.op = "copy", io.src # io.dst, ~disturbed
        PROVE  \/ disk' = Unlink(before, io.dst) /\ ~leftover'
               \/ leftover' /\ \E k \in 0 .. Len(In) : disk' = Put(before, io.dst, Prefix(In, k))
    <3>1. disk = Put(before, io.dst, Out) /\ Begins(Out, In)
      BY <2>1, <2>3 DEF CopyInv, CopySoFar, Writing
    <3> QED
      BY <2>2, <3>1, PutAgain DEF Begins
  <2> QED
    BY <2>1, <2>3 DEF CopyInv, CopySoFar, Writing, CopyIsAllOrNothing, Quietly, Returned, In
<1>11. CASE measure \/ check_size \/ read_all
  BY <1>11 DEF measure, check_size, read_all, FilesInv, InPlace, InRead, CopyInv
<1>12. CASE UNCHANGED iovars
  BY <1>12 DEF iovars, stream, ghosts, CopyInv, CopySoFar, In, Out, CopyIsAllOrNothing, Quietly,
               Returned
<1> QED
  BY <1>1, <1>2, <1>3, <1>4, <1>5, <1>6, <1>7, <1>8, <1>9, <1>10, <1>11, <1>12
  DEF IONext, IOStep

-----------------------------------------------------------------------------
(* Writing and reading a file at once                                      *)

WriteSoFar ==
  /\ iopc = "open_out" => disk = before /\ buf = io.data
  /\ iopc = "write" => disk = Put(before, io.dst, <<>>) /\ pending = <<>> /\ buf = io.data
  /\ iopc = "close" =>
       /\ disk = Put(before, io.dst, Out)
       /\ ioret => Out \o pending = io.data
       /\ \E m \in 0 .. Len(io.data) : Out \o pending = Prefix(io.data, m)

WriteInv ==
  io.op = "write_all" => (~disturbed => WriteSoFar) /\ WriteAllIsFaithful

ReadSoFar ==
  /\ iopc \in {"open_in", "measure", "check_size"} => buf = <<>>
  /\ iopc = "read_all" => sz <= io.buf_size
  /\ ~disturbed =>
       /\ iopc # "idle" => disk = before
       /\ iopc \in {"check_size", "read_all"} => sz = Len(disk[io.src]) /\ pos \in {0, sz}

ReadInv == io.op = "read_all" => ReadSoFar /\ ReadAllIsFaithful

LEMMA NothingWritten == \A s : Prefix(s, 0) = <<>>
BY SubSeqEmpty DEF Prefix

LEMMA WriteInit == IOInit => WriteInv
BY DEF IOInit, WriteInv

LEMMA WriteWrites ==
  ASSUME FilesInv, WriteInv, write, io.op = "write_all", ~disturbed
  PROVE  WriteSoFar'
<1>1. disk = Put(before, io.dst, <<>>) /\ pending = <<>> /\ buf = io.data /\ buf \in Seq(Bytes)
  BY DEF write, WriteInv, WriteSoFar, FilesInv, IOTypes
<1>2. UNCHANGED <<io, before>> /\ iopc' = "close"
  BY DEF write, ghosts
<1>3. PICK m \in 0 .. Len(buf) :
        /\ disk' = Put(disk, io.dst, Out')
        /\ Out' \o pending' = (Out \o pending) \o Prefix(buf, m)
        /\ ioret' = (m = Len(buf)) /\ (m = Len(buf) => Prefix(buf, m) = buf)
  BY WriteTakes
<1>4. Out = <<>>
  BY <1>1 DEF Out, Put
<1>5. (Out \o pending) \o Prefix(buf, m) = Prefix(buf, m)
  <2>1. Prefix(buf, m) \in Seq(Bytes)
    BY <1>1, Prefixed
  <2>2. <<>> \o <<>> = <<>> /\ <<>> \o Prefix(buf, m) = Prefix(buf, m)
    BY <2>1, EmptySeq, ConcatEmptySeq
  <2> QED
    BY <1>1, <1>4, <2>2
<1>6. Out' \o pending' = Prefix(io.data, m) /\ m \in 0 .. Len(io.data)
  BY <1>1, <1>3, <1>5
<1>7. ioret' => Out' \o pending' = io.data
  BY <1>1, <1>3, <1>5
<1>8. disk' = Put(before, io.dst, Out')
  BY <1>1, <1>3, PutAgain
<1> QED
  BY <1>2, <1>6, <1>7, <1>8 DEF WriteSoFar

LEMMA CloseWrites ==
  ASSUME "close" \notin IOFaults, FilesInv, WriteInv, close, io.op = "write_all"
  PROVE  WriteAllIsFaithful' /\ iopc' = "idle"
<1>1. iopc = "close" /\ iopc' = "idle" /\ UNCHANGED <<io, ioret, before, disturbed>>
  BY DEF close, Finish, ghosts
<1>2. disk' = Put(disk, io.dst, Out \o pending)
  BY CloseFlushes
<1>3. ~disturbed =>
        /\ disk' = Put(before, io.dst, Out \o pending)
        /\ ioret => Out \o pending = io.data
        /\ \E m \in 0 .. Len(io.data) : Out \o pending = Prefix(io.data, m)
  BY <1>1, <1>2, PutAgain, SMTT(20) DEF WriteInv, WriteSoFar
<1> QED
  BY <1>1, <1>3 DEF WriteAllIsFaithful, Quietly, Returned

LEMMA WriteStep ==
  ASSUME "close" \notin IOFaults, FilesInv, WriteInv, [IONext]_iovars
  PROVE  WriteInv'
<1>1. ASSUME NEW src \in Files, NEW dst \in Files, copy(src, dst) PROVE WriteInv'
  BY <1>1 DEF copy, Enter, WriteInv
<1>2. ASSUME NEW path \in Files, NEW buf_size \in BufSizes, read_file_all(path, buf_size)
      PROVE  WriteInv'
  BY <1>2 DEF read_file_all, Enter, WriteInv
<1>3. ASSUME NEW path \in Files, NEW data \in Contents, write_file_all(path, data)
      PROVE  WriteInv'
  BY <1>3 DEF write_file_all, Enter, WriteInv, WriteSoFar, WriteAllIsFaithful, Quietly, Returned
<1>4. ASSUME NEW f \in Files, NEW content \in Contents, other_write(f, content)
      PROVE  WriteInv'
  BY <1>4 DEF other_write, WriteInv, WriteAllIsFaithful, Quietly, Returned
<1>5. CASE open_in
  BY <1>5 DEF open_in, FilesInv, InPlace, WriteInv, ghosts
<1>6. CASE open_out
  <2>1. /\ iopc = "open_out" /\ UNCHANGED <<io, before, disturbed, buf>>
        /\ pending = <<>>
    BY <1>6 DEF open_out, stream, FilesInv, InPlace, Fresh
  <2>2. CASE disk' = Put(disk, io.dst, <<>>) /\ iopc' # "idle" /\ UNCHANGED stream
    <3>1. io.op = "write_all" => iopc' = "write"
      BY <1>6, <2>2 DEF open_out, Finish
    <3> QED
      BY <2>1, <2>2, <3>1
      DEF stream, WriteInv, WriteSoFar, WriteAllIsFaithful, Quietly, Returned
  <2>3. CASE disk' \in {disk, Put(disk, io.dst, <<>>)} /\ iopc' = "idle" /\ ioret' = FALSE
    <3>1. ASSUME io.op = "write_all"
          PROVE  0 \in 0 .. Len(io.data) /\ Prefix(io.data, 0) = <<>>
      <4>1. io.data \in Seq(Bytes)
        BY <3>1, CallArguments, FileIOAssumption DEF FilesInv, IOTypes
      <4> QED
        BY <4>1, NothingWritten
    <3> QED
      BY <2>1, <2>3, <3>1 DEF WriteInv, WriteSoFar, WriteAllIsFaithful, Quietly, Returned
  <2> QED
    BY <1>6, <2>2, <2>3 DEF open_out, Finish
<1>7. CASE read_chunk
  BY <1>7 DEF read_chunk, FilesInv, InPlace, WriteInv
<1>8. CASE write
  <2>1. UNCHANGED <<io, disturbed>> /\ iopc' # "idle"
    BY <1>8 DEF write, ghosts
  <2> QED
    BY <1>8, <2>1, WriteWrites DEF WriteInv, WriteAllIsFaithful, Quietly, Returned
<1>9. CASE close
  <2>1. UNCHANGED io
    BY <1>9 DEF close
  <2> QED
    BY <1>9, <2>1, CloseWrites DEF WriteInv, WriteSoFar
<1>10. CASE remove \/ measure \/ check_size \/ read_all
  BY <1>10 DEF remove, measure, check_size, read_all, FilesInv, InPlace, InRead, WriteInv
<1>11. CASE UNCHANGED iovars
  BY <1>11 DEF iovars, stream, ghosts, WriteInv, WriteSoFar, Out, WriteAllIsFaithful, Quietly, Returned
<1> QED
  BY <1>1, <1>2, <1>3, <1>4, <1>5, <1>6, <1>7, <1>8, <1>9, <1>10, <1>11 DEF IONext, IOStep

LEMMA ReadInit == IOInit => ReadInv
BY DEF IOInit, ReadInv

LEMMA ReadStep ==
  ASSUME FilesInv, ReadInv, [IONext]_iovars
  PROVE  ReadInv'
<1> USE DEF Quietly, Returned
<1>0. /\ Len(<<>>) = 0
      /\ io.op = "read_all" => io.buf_size \in Nat
  BY EmptySeq, CallArguments, FileIOAssumption DEF FilesInv, IOTypes
<1>1. ASSUME NEW src \in Files, NEW dst \in Files, copy(src, dst) PROVE ReadInv'
  BY <1>1 DEF copy, Enter, ReadInv
<1>2. ASSUME NEW path \in Files, NEW buf_size \in BufSizes, read_file_all(path, buf_size)
      PROVE  ReadInv'
  BY <1>2 DEF read_file_all, Enter, ReadInv, ReadSoFar, ReadAllIsFaithful
<1>3. ASSUME NEW path \in Files, NEW data \in Contents, write_file_all(path, data)
      PROVE  ReadInv'
  BY <1>3 DEF write_file_all, Enter, ReadInv
<1>4. ASSUME NEW f \in Files, NEW content \in Contents, other_write(f, content)
      PROVE  ReadInv'
  BY <1>4 DEF other_write, stream, ReadInv, ReadSoFar, ReadAllIsFaithful
<1>5. CASE open_in
  <2>1. UNCHANGED <<disk, io, buf, before, disturbed>> /\ iopc = "open_in"
    BY <1>5 DEF open_in, stream, ghosts
  <2>2. io.op = "read_all" => iopc' = "measure" \/ (iopc' = "idle" /\ ioret' = FALSE)
    BY <1>5 DEF open_in, Finish
  <2> QED
    BY <1>0, <2>1, <2>2 DEF ReadInv, ReadSoFar, ReadAllIsFaithful
<1>6. CASE open_out \/ read_chunk \/ write \/ close \/ remove
  BY <1>6 DEF open_out, read_chunk, write, close, remove, FilesInv, InPlace, Writing, ReadInv
<1>7. CASE measure
  <2>1. UNCHANGED <<disk, io, buf, before, disturbed>> /\ iopc = "measure" /\ pos = 0
    BY <1>7 DEF measure, ghosts, FilesInv, InPlace, Fresh
  <2>2. \/ iopc' = "check_size" /\ sz' = Len(disk[io.src]) /\ pos' \in {pos, sz'}
        \/ iopc' = "idle" /\ ioret' = FALSE
    BY <1>7 DEF measure, Finish
  <2> QED
    BY <1>0, <2>1, <2>2 DEF ReadInv, ReadSoFar, ReadAllIsFaithful
<1>8. CASE check_size
  <2>1. UNCHANGED <<disk, io, buf, before, disturbed>> /\ iopc = "check_size" /\ sz \in Nat
    BY <1>8 DEF check_size, stream, ghosts, FilesInv, IOTypes
  <2>2. \/ iopc' = "idle" /\ ioret' = FALSE
        \/ ~(sz > io.buf_size) /\ iopc' = "read_all" /\ sz' = sz /\ pos' = pos
    BY <1>8 DEF check_size, stream, Finish
  <2> QED
    BY <1>0, <2>1, <2>2 DEF ReadInv, ReadSoFar, ReadAllIsFaithful
<1>9. CASE read_all
  <2>1. /\ UNCHANGED <<disk, io, before, disturbed>> /\ iopc = "read_all" /\ io.op = "read_all"
        /\ iopc' = "idle" /\ ioret' = (Len(buf') = sz)
        /\ pos \in Nat /\ sz \in Nat /\ disk[io.src] \in Seq(Bytes)
        /\ sz <= io.buf_size
    BY <1>9 DEF read_all, Finish, ghosts, FilesInv, IOTypes, InPlace, InRead, IsDisk, ReadInv, ReadSoFar
  <2>2. ASSUME NEW n \in Nat PROVE Len(NextBytes(n)) \in Nat /\ Len(NextBytes(n)) <= n
    BY <2>1, Found DEF NextBytes
  <2>3. PICK n \in 0 .. sz : buf' = NextBytes(n)
    <3>1. Len(NextBytes(sz)) \in Nat /\ Len(NextBytes(sz)) <= sz
      BY <2>1, <2>2
    <3>2. \/ buf' = NextBytes(sz)
          \/ \E k \in 0 .. Len(NextBytes(sz)) : buf' = NextBytes(k)
      BY <1>9 DEF read_all
    <3> QED
      BY <2>1, <3>1, <3>2
  <2>4. Len(buf') \in Nat /\ Len(buf') <= n
    BY <2>2, <2>3
  <2>5. Len(buf') <= io.buf_size
    BY <1>0, <2>1, <2>4
  <2>6. ASSUME ~disturbed, ioret' PROVE buf' = before[io.src]
    <3>1. disk = before /\ sz = Len(disk[io.src]) /\ pos \in {0, sz}
      BY <2>1, <2>6 DEF ReadInv, ReadSoFar
    <3>2. Len(buf') = sz /\ n = sz
      <4>1. Len(buf') = sz
        BY <2>1, <2>6
      <4>2. sz <= n
        BY <2>4, <4>1
      <4> QED
        BY <2>1, <4>1, <4>2
    <3>3. buf' = SubSeq(disk[io.src], pos + 1, Least(pos + sz, Len(disk[io.src])))
      BY <2>3, <3>2 DEF NextBytes
    <3>4. CASE pos = 0
      <4>1. pos + 1 = 1 /\ Least(pos + sz, Len(disk[io.src])) = Len(disk[io.src])
        BY <2>1, <3>1, <3>4 DEF Least
      <4> QED
        BY <2>1, <3>1, <3>3, <4>1, SubSeqFull
    <3>5. CASE pos = sz
      <4>1. pos <= Len(disk[io.src]) /\ Least(sz, Len(disk[io.src]) - pos) = 0
        BY <2>1, <3>1, <3>5 DEF Least
      <4>2. Len(buf') = 0
        BY <2>1, <3>3, <4>1, Found
      <4>3. sz = 0
        BY <3>2, <4>2
      <4> QED
        BY <3>4, <3>5, <4>3
    <3> QED
      BY <3>1, <3>4, <3>5
  <2> QED
    BY <2>1, <2>5, <2>6 DEF ReadInv, ReadSoFar, ReadAllIsFaithful
<1>10. CASE UNCHANGED iovars
  BY <1>10 DEF iovars, stream, ghosts, ReadInv, ReadSoFar, ReadAllIsFaithful
<1> QED
  BY <1>1, <1>2, <1>3, <1>4, <1>5, <1>6, <1>7, <1>8, <1>9, <1>10 DEF IONext, IOStep

(***************************************************************************)
(* fs.h 109, "Copies a file from `src_path` to `dst_path`": whatever is    *)
(* copied where, in chunks of whatever size, and whichever call but fclose *)
(* fails, cpr_fs_copy returns true only when dst holds all of src.  When   *)
(* it returns false it leaves no part of it behind, unless the unlink that *)
(* fs.c 625 does not look at fails as well: then it leaves a first part of *)
(* src, and nothing else.  cpr_close_file does not report what fclose      *)
(* lost, so that without the hypothesis the theorem would not hold.        *)
(***************************************************************************)
THEOREM CopiesAreWhole ==
  ASSUME "close" \notin IOFaults
  PROVE  IOSpec => []CopyIsAllOrNothing
<1>1. CopyInv => CopyIsAllOrNothing
  BY DEF CopyInv, CopyIsAllOrNothing, Quietly, Returned
<1>2. IOInit => CopyInv
  BY CopyInit
<1>3. FilesInv /\ CopyInv /\ [IONext]_iovars => CopyInv'
  BY CopyStep
<1> QED
  BY <1>1, <1>2, <1>3, FilesInvariant, PTL DEF IOSpec

(***************************************************************************)
(* fs.h 170 and 175: what cpr_write_file_all reports written is there,     *)
(* what it does not is at most a beginning of it, and what                 *)
(* cpr_read_file_all reports read is the file as it was, and fits.         *)
(***************************************************************************)
THEOREM WholeFilesAreKept ==
  ASSUME "close" \notin IOFaults
  PROVE  IOSpec => []WholeFilesAreFaithful
<1>1. WriteInv /\ ReadInv => WholeFilesAreFaithful
  BY DEF WriteInv, ReadInv, WholeFilesAreFaithful, WriteAllIsFaithful, ReadAllIsFaithful, Quietly,
         Returned
<1>2. IOInit => WriteInv /\ ReadInv
  BY WriteInit, ReadInit
<1>3. FilesInv /\ WriteInv /\ [IONext]_iovars => WriteInv'
  BY WriteStep
<1>4. FilesInv /\ ReadInv /\ [IONext]_iovars => ReadInv'
  BY ReadStep
<1> QED
  BY <1>1, <1>2, <1>3, <1>4, FilesInvariant, PTL DEF IOSpec

-----------------------------------------------------------------------------
(* Induction, and what a path names                                        *)

Smaller == {ss \in Nat \X Nat : ss[1] < ss[2]}

LEMMA SmallerIsWellFounded == IsWellFoundedOn(Smaller, Nat)
<1>1. OpToRel(<, Nat) = Smaller
  BY Zenon DEF OpToRel, Smaller
<1> QED
  BY ONLY <1>1, NatLessThanWellFounded, Zenon

\* A set of naturals has a least element: what induction there is rests on it.
LEMMA LeastElement == ASSUME NEW T, T \subseteq Nat, T # {} PROVE \E x \in T : \A y \in T : x <= y
<1>1. \E x \in T : \A y \in T : ~(<<y, x>> \in Smaller)
  BY SmallerIsWellFounded, WFMin
<1>2. \A x, y \in Nat : ~(<<y, x>> \in Smaller) => x <= y
  BY DEF Smaller
<1> QED
  BY <1>1, <1>2

LEMMA MaxOf == ASSUME NEW n \in Nat, NEW s \in SUBSET (1 .. n), s # {}
               PROVE  Max(s) \in s /\ \A y \in s : y <= Max(s)
<1> DEFINE T == {n - x : x \in s}
<1>1. T \subseteq Nat /\ T # {}
  <2>1. \A x \in s : n - x \in Nat
    OBVIOUS
  <2> QED
    BY <2>1
<1>2. PICK x \in s : \A y \in s : n - x <= n - y
  <2>1. PICK d \in T : \A e \in T : d <= e
    BY <1>1, LeastElement
  <2> QED
    BY <2>1
<1>3. \A y \in s : y <= x
  BY <1>2
<1> QED
  BY <1>3 DEF Max

\* The walk along a path, as the folds of the library compute it.
Steps(L, g, p, iter) ==
  [s \in SUBSET (DOMAIN p) |->
     IF s = {} THEN <<>> ELSE Go(L, g, Append(iter[s \ {Max(s)}], p[Max(s)]))]

LEMMA ThroughIsAFold ==
  \A L, g, p : Through(L, g, p) = (CHOOSE iter : iter = Steps(L, g, p, iter))[DOMAIN p]
BY DEF Through, FoldLeft, MapThenFoldSet, Steps

Upto(L, g, p, k, iter) ==
  iter = [s \in SUBSET (1 .. k) |->
            IF s = {} THEN <<>> ELSE Go(L, g, Append(iter[s \ {Max(s)}], p[Max(s)]))]

LEMMA OneFurther ==
  ASSUME NEW L, NEW g, NEW p, NEW k \in Nat \ {0}, NEW e, Upto(L, g, p, k - 1, e)
  PROVE  \E h : Upto(L, g, p, k, h)
<1> DEFINE step(f, s) == IF s = {} THEN <<>> ELSE Go(L, g, Append(f[s \ {Max(s)}], p[Max(s)]))
           h == [s \in SUBSET (1 .. k) |-> IF s \in SUBSET (1 .. k - 1) THEN e[s] ELSE step(e, s)]
<1>1. ASSUME NEW s \in SUBSET (1 .. k), s # {}
      PROVE  /\ Max(s) \in s /\ s \ {Max(s)} \in SUBSET (1 .. k - 1)
             /\ s \ {Max(s)} \in SUBSET (1 .. k)
  <2>1. Max(s) \in s /\ \A y \in s : y <= Max(s)
    BY <1>1, MaxOf
  <2>2. ASSUME NEW y \in s, y # Max(s) PROVE y \in 1 .. k - 1
    <3>1. y \in 1 .. k /\ Max(s) \in 1 .. k /\ y <= Max(s)
      BY <2>1
    <3> QED
      BY <2>2, <3>1
  <2> QED
    BY <2>1, <2>2
<1>2. ASSUME NEW s \in SUBSET (1 .. k) PROVE h[s] = step(h, s)
  <2>1. s \in SUBSET (1 .. k - 1) => e[s] = step(e, s)
    BY DEF Upto
  <2>2. h[s] = step(e, s)
    BY <2>1
  <2>3. s # {} => h[s \ {Max(s)}] = e[s \ {Max(s)}]
    BY <1>1
  <2> QED
    BY <2>2, <2>3
<1>3. h = [s \in SUBSET (1 .. k) |-> step(h, s)]
  <2>1. h = [s \in SUBSET (1 .. k) |-> h[s]]
    OBVIOUS
  <2> HIDE DEF h
  <2> QED
    BY <1>2, <2>1
<1> QED
  BY <1>3 DEF Upto

LEMMA FoldExists == ASSUME NEW L, NEW g, NEW p, NEW n \in Nat PROVE \E iter : Upto(L, g, p, n, iter)
<1> DEFINE Bad == {k \in Nat : ~\E iter : Upto(L, g, p, k, iter)}
<1>1. ASSUME Bad # {} PROVE FALSE
  <2>1. PICK k \in Bad : \A j \in Bad : k <= j
    BY <1>1, LeastElement
  <2>2. CASE k = 0
    <3>1. Upto(L, g, p, 0, [s \in SUBSET (1 .. 0) |-> <<>>])
      BY DEF Upto
    <3> QED
      BY <2>1, <2>2, <3>1
  <2>3. CASE k # 0
    <3>1. k - 1 \in Nat /\ k - 1 \notin Bad /\ k \in Nat \ {0}
      BY <2>1, <2>3
    <3>2. PICK e : Upto(L, g, p, k - 1, e)
      BY <3>1
    <3>3. \E h : Upto(L, g, p, k, h)
      BY <3>1, <3>2, OneFurther
    <3> QED
      BY <2>1, <3>3
  <2> QED
    BY <2>2, <2>3
<1> QED
  BY <1>1

LEMMA IsASequence == ASSUME NEW S, NEW s \in Seq(S) PROVE IsSequence(s)
<1>1. Len(s) \in Nat /\ DOMAIN s = 1 .. Len(s) /\ s \in [1 .. Len(s) -> S]
  BY LenProperties
<1>2. s \in [1 .. Len(s) -> Range(s)]
  BY <1>1 DEF Range
<1> QED
  BY <1>1, <1>2, SeqDef DEF IsSequence

LEMMA Pushed == ASSUME NEW s, IsSequence(s), NEW e
                PROVE  /\ IsSequence(Append(s, e)) /\ Append(s, e) # <<>>
                       /\ Len(Append(s, e)) = Len(s) + 1 /\ Len(s) \in Nat
<1> DEFINE S == Range(s) \cup {e}
<1>1. s \in Seq(S) /\ e \in S
  BY SeqMonotonic DEF IsSequence
<1> HIDE DEF S
<1>2. /\ Append(s, e) \in Seq(S) /\ Append(s, e) # <<>>
      /\ Len(Append(s, e)) = Len(s) + 1 /\ Len(s) \in Nat
  BY <1>1, AppendProperties, LenProperties
<1> QED
  BY <1>2, IsASequence

LEMMA NoFrames == IsSequence(<<>>) /\ Len(<<>>) = 0
BY EmptySeq, IsASequence

LEMMA FoldIsASequence ==
  ASSUME NEW L, NEW g, \A q \in L : IsSequence(g[q]),
         NEW p, NEW n \in Nat, NEW iter, Upto(L, g, p, n, iter)
  PROVE  \A s \in SUBSET (1 .. n) : IsSequence(iter[s])
<1> DEFINE Bad == {k \in Nat : k <= n /\ \E s \in SUBSET (1 .. k) : ~IsSequence(iter[s])}
<1>1. ASSUME Bad # {} PROVE FALSE
  <2>1. PICK k \in Bad : \A j \in Bad : k <= j
    BY <1>1, LeastElement
  <2>2. PICK s \in SUBSET (1 .. k) : ~IsSequence(iter[s])
    BY <2>1
  <2>3. k \in Nat /\ k <= n /\ s \in SUBSET (1 .. n)
    BY <2>1
  <2>4. iter[s] = IF s = {} THEN <<>> ELSE Go(L, g, Append(iter[s \ {Max(s)}], p[Max(s)]))
    BY <2>3 DEF Upto
  <2>5. s # {}
    BY <2>2, <2>4, NoFrames
  <2>6. Max(s) \in s /\ \A y \in s : y <= Max(s)
    BY <2>3, <2>5, MaxOf
  <2>7. k - 1 \in Nat /\ k - 1 <= n /\ ~(k <= k - 1)
    <3>1. \E y \in s : y \in 1 .. k
      BY <2>5
    <3> QED
      BY <2>3, <3>1
  <2>8. s \ {Max(s)} \in SUBSET (1 .. k - 1)
    <3>1. ASSUME NEW y \in s, y # Max(s) PROVE y \in 1 .. k - 1
      <4>1. y \in 1 .. k /\ Max(s) \in 1 .. k /\ y <= Max(s)
        BY <2>6
      <4> QED
        BY <2>3, <3>1, <4>1
    <3> QED
      BY <3>1
  <2>9. IsSequence(iter[s \ {Max(s)}])
    BY <2>1, <2>7, <2>8
  <2>10. IsSequence(Append(iter[s \ {Max(s)}], p[Max(s)]))
    BY <2>9, Pushed
  <2> QED
    BY <2>2, <2>4, <2>5, <2>10 DEF Go
<1>2. n \notin Bad
  BY <1>1
<1> QED
  BY <1>2

LEMMA ThroughIsASequence ==
  ASSUME NEW L, NEW g, \A q \in L : IsSequence(g[q]), NEW p, IsSequence(p)
  PROVE  IsSequence(Through(L, g, p))
<1>1. Len(p) \in Nat /\ DOMAIN p = 1 .. Len(p)
  BY LenProperties DEF IsSequence
<1> DEFINE n == Len(p)
           iter == CHOOSE f : f = Steps(L, g, p, f)
<1>2. \A f : f = Steps(L, g, p, f) <=> Upto(L, g, p, n, f)
  BY <1>1 DEF Steps, Upto
<1>3. \E f : f = Steps(L, g, p, f)
  BY <1>1, <1>2, FoldExists
<1>4. iter = Steps(L, g, p, iter)
  BY <1>3
<1>5. Through(L, g, p) = iter[DOMAIN p]
  BY ThroughIsAFold
<1> HIDE DEF iter
<1>6. Upto(L, g, p, n, iter)
  BY <1>2, <1>4
<1>7. IsSequence(iter[1 .. n])
  BY <1>1, <1>6, FoldIsASequence
<1> QED
  BY <1>1, <1>5, <1>7

\* Ends, k links deep.
Ending(links, k, e) ==
  e = [n \in 0 .. k |->
         [q \in DOMAIN links |->
            IF n = 0 THEN q ELSE Through(DOMAIN links, e[n - 1], links[q])]]

LEMMA OneDeeper ==
  ASSUME NEW links, NEW k \in Nat \ {0}, NEW e, Ending(links, k - 1, e)
  PROVE  \E h : Ending(links, k, h)
<1> DEFINE L == DOMAIN links
           step(f, n) == [q \in L |-> IF n = 0 THEN q ELSE Through(L, f[n - 1], links[q])]
           h == [n \in 0 .. k |-> IF n \in 0 .. k - 1 THEN e[n] ELSE step(e, n)]
<1> HIDE DEF L
<1>1. ASSUME NEW n \in 0 .. k PROVE h[n] = step(h, n)
  <2>1. n \in 0 .. k - 1 => e[n] = step(e, n)
    BY DEF Ending, L
  <2>2. h[n] = step(e, n)
    BY <2>1
  <2>3. n # 0 => n - 1 \in 0 .. k - 1 /\ n - 1 \in 0 .. k
    OBVIOUS
  <2>4. n # 0 => h[n - 1] = e[n - 1]
    BY <2>3
  <2> HIDE DEF h
  <2> QED
    BY <2>2, <2>4
<1>2. h = [n \in 0 .. k |-> step(h, n)]
  <2>1. h = [n \in 0 .. k |-> h[n]]
    OBVIOUS
  <2> HIDE DEF h
  <2> QED
    BY <1>1, <2>1
<1> QED
  BY <1>2 DEF Ending, L

LEMMA LinksEnd == ASSUME NEW links, NEW k \in Nat PROVE \E e : Ending(links, k, e)
<1> DEFINE Bad == {n \in Nat : ~\E e : Ending(links, n, e)}
<1>1. ASSUME Bad # {} PROVE FALSE
  <2>1. PICK n \in Bad : \A m \in Bad : n <= m
    BY <1>1, LeastElement
  <2>2. CASE n = 0
    <3>1. Ending(links, 0, [m \in 0 .. 0 |-> [q \in DOMAIN links |-> q]])
      BY DEF Ending
    <3> QED
      BY <2>1, <2>2, <3>1
  <2>3. CASE n # 0
    <3>1. n - 1 \in Nat /\ n - 1 \notin Bad /\ n \in Nat \ {0}
      BY <2>1, <2>3
    <3>2. PICK e : Ending(links, n - 1, e)
      BY <3>1
    <3>3. \E h : Ending(links, n, h)
      BY <3>1, <3>2, OneDeeper
    <3> QED
      BY <2>1, <3>3
  <2> QED
    BY <2>2, <2>3
<1> QED
  BY <1>1

LEMMA EndsAreChosen ==
  \A links : Ends(links) = (CHOOSE e : Ending(links, MaxLinks, e))[MaxLinks]
BY DEF Ends, Ending

\* Some such function gives where the links lead.
LEMMA EndsBy ==
  ASSUME NEW links
  PROVE  \E e : Ending(links, MaxLinks, e) /\ Ends(links) = e[MaxLinks]
<1> DEFINE e == CHOOSE f : Ending(links, MaxLinks, f)
<1>1. Ending(links, MaxLinks, e)
  BY FsTreeAssumption, LinksEnd
<1>2. Ends(links) = e[MaxLinks]
  BY EndsAreChosen
<1> QED
  BY <1>1, <1>2

\* Of links that are sequences, so is what they lead to.
LEMMA EndingIsSequences ==
  ASSUME NEW links, \A q \in DOMAIN links : IsSequence(q) /\ IsSequence(links[q]),
         NEW k \in Nat, NEW e, Ending(links, k, e)
  PROVE  \A n \in 0 .. k : \A q \in DOMAIN links : IsSequence(e[n][q])
<1> DEFINE L == DOMAIN links
           Bad == {n \in 0 .. k : \E q \in L : ~IsSequence(e[n][q])}
<1> HIDE DEF L
<1>1. ASSUME Bad # {} PROVE FALSE
  <2>1. PICK n \in Bad : \A m \in Bad : n <= m
    <3>1. Bad \subseteq Nat
      OBVIOUS
    <3> QED
      BY <1>1, <3>1, LeastElement
  <2>2. PICK q \in L : ~IsSequence(e[n][q])
    BY <2>1
  <2>3. e[n][q] = IF n = 0 THEN q ELSE Through(L, e[n - 1], links[q])
    BY <2>1 DEF Ending, L
  <2>4. n # 0
    BY <2>2, <2>3 DEF L
  <2>5. n - 1 \in 0 .. k /\ ~(n <= n - 1)
    BY <2>1, <2>4
  <2>6. \A r \in L : IsSequence(e[n - 1][r])
    BY <2>1, <2>5
  <2>7. PICK g : g = e[n - 1]
    OBVIOUS
  <2>8. IsSequence(Through(L, g, links[q]))
    BY <2>6, <2>7, ThroughIsASequence DEF L
  <2> QED
    BY <2>2, <2>3, <2>4, <2>7, <2>8
<1> QED
  BY <1>1 DEF L

LEMMA EndsAreSequences ==
  ASSUME NEW t, IsTree(t)
  PROVE  \A q \in DOMAIN t.links : IsSequence(Ends(t.links)[q])
<1>1. PICK e : Ending(t.links, MaxLinks, e) /\ Ends(t.links) = e[MaxLinks]
  BY EndsBy
<1>2. MaxLinks \in Nat /\ MaxLinks \in 0 .. MaxLinks
  BY FsTreeAssumption
<1>3. \A q \in DOMAIN t.links : IsSequence(q) /\ IsSequence(t.links[q])
  BY DEF IsTree, Entries
<1>4. PICK links : links = t.links
  OBVIOUS
<1>5. \A n \in 0 .. MaxLinks : \A q \in DOMAIN links : IsSequence(e[n][q])
  BY <1>1, <1>2, <1>3, <1>4, EndingIsSequences
<1> QED
  BY <1>1, <1>2, <1>4, <1>5

\* In a tree, every path leads to one.
LEMMA ResolveIsASequence ==
  ASSUME NEW t, IsTree(t), NEW p, IsSequence(p)
  PROVE  IsSequence(Resolve(t, p))
BY EndsAreSequences, ThroughIsASequence DEF Resolve

LEMMA FrontOf == ASSUME NEW s, IsSequence(s), s # <<>>
                 PROVE  IsSequence(Front(s)) /\ Len(s) \in Nat \ {0} /\ Len(Front(s)) = Len(s) - 1
<1>1. s \in Seq(Range(s))
  BY DEF IsSequence
<1>2. Len(s) \in Nat \ {0}
  BY <1>1, EmptySeq
<1>3. \A i \in 1 .. Len(s) - 1 : s[i] \in Range(s)
  BY <1>1, <1>2, ElementOfSeq
<1> DEFINE r == SubSeq(s, 1, Len(s) - 1)
<1>4. r \in Seq(Range(s)) /\ Len(r) = IF 1 <= Len(s) - 1 THEN Len(s) - 1 - 1 + 1 ELSE 0
  BY <1>2, <1>3, SubSeqProperties
<1>5. r = Front(s)
  BY DEF Front
<1> HIDE DEF r
<1>6. \A l \in Nat \ {0} : (IF 1 <= l - 1 THEN l - 1 - 1 + 1 ELSE 0) = l - 1
  OBVIOUS
<1> QED
  BY <1>2, <1>4, <1>5, <1>6, IsASequence

LEMMA ItselfIsASequence ==
  ASSUME NEW t, IsTree(t), NEW p, IsSequence(p), p # <<>>
  PROVE  IsSequence(Itself(t, p)) /\ Itself(t, p) # <<>>
<1>1. IsSequence(Front(p))
  BY FrontOf
<1>2. IsSequence(Resolve(t, Front(p)))
  BY <1>1, ResolveIsASequence DEF IsTree
<1> QED
  BY <1>2, Pushed DEF Itself

LEMMA PartsOf == ASSUME NEW t, IsTree(t)
                PROVE  /\ t.links = [q \in DOMAIN t.links |-> t.links[q]]
                       /\ t = [dirs |-> t.dirs, files |-> t.files, links |-> t.links]
<1>1. t = [dirs |-> t.dirs, files |-> t.files, links |-> [q \in DOMAIN t.links |-> t.links[q]]]
  BY DEF IsTree
<1> DEFINE links == [q \in DOMAIN t.links |-> t.links[q]]
<1> HIDE DEF links
<1>2. t = [dirs |-> t.dirs, files |-> t.files, links |-> links]
  BY <1>1 DEF links
<1>3. t.links = links
  BY <1>2
<1> QED
  BY <1>2, <1>3 DEF links

LEMMA MkdirKeepsTree ==
  ASSUME NEW t, IsTree(t), NEW p, IsSequence(p), p # <<>>, CanMkdir(t, p)
  PROVE  /\ IsTree(mkdir(t, p))
         /\ mkdir(t, p) = [dirs |-> t.dirs \cup {Itself(t, p)}, files |-> t.files, links |-> t.links]
<1> DEFINE e == Itself(t, p)
           u == mkdir(t, p)
<1>1. IsSequence(e) /\ e \notin Entries(t) /\ Front(e) \in t.dirs
  BY ItselfIsASequence DEF CanMkdir
<1>2. u = [dirs |-> t.dirs \cup {e}, files |-> t.files, links |-> t.links]
  <2>1. t = [dirs |-> t.dirs, files |-> t.files, links |-> t.links]
    BY PartsOf
  <2>2. u = [t EXCEPT !.dirs = t.dirs \cup {e}]
    BY DEF mkdir
  <2> HIDE DEF u, e
  <2> QED
    BY <2>1, <2>2
<1> HIDE DEF e, u
<1>3. u.dirs = t.dirs \cup {e} /\ u.files = t.files /\ u.links = t.links
  BY <1>2
<1>4. u = [dirs |-> u.dirs, files |-> u.files, links |-> [q \in DOMAIN u.links |-> u.links[q]]]
  BY ONLY <1>2, <1>3, PartsOf, IsTree(t)
<1>5. IsTree(u)
  BY <1>1, <1>3, <1>4 DEF IsTree, Entries
<1> QED
  BY <1>2, <1>5 DEF e, u

LEMMA UnlinkKeepsTree ==
  ASSUME NEW t, IsTree(t), NEW p, CanUnlink(t, p)
  PROVE  IsTree(unlink(t, p)) /\ unlink(t, p) = Without(t, {Itself(t, p)})
<1> DEFINE e == Itself(t, p)
           u == unlink(t, p)
           links == [q \in DOMAIN t.links \ {e} |-> t.links[q]]
<1>1. e \notin t.dirs
  BY DEF CanUnlink, IsTree
<1>2. u = [dirs |-> t.dirs, files |-> t.files \ {e}, links |-> links]
  <2>1. t = [dirs |-> t.dirs, files |-> t.files, links |-> t.links]
    BY PartsOf
  <2>2. u = [t EXCEPT !.files = t.files \ {e}, !.links = links]
    BY DEF unlink
  <2> HIDE DEF u, e, links
  <2> QED
    BY <2>1, <2>2
<1>3. DOMAIN links = DOMAIN t.links \ {e} /\ \A q \in DOMAIN links : links[q] = t.links[q]
  OBVIOUS
<1>4. links = [q \in DOMAIN links |-> links[q]]
  OBVIOUS
<1>5. t.dirs = t.dirs \ {e}
  BY <1>1
<1>6. Without(t, {e}) = [dirs |-> t.dirs \ {e}, files |-> t.files \ {e}, links |-> links]
  BY DEF Without
<1> HIDE DEF e, u, links
<1>7. u.dirs = t.dirs /\ u.files = t.files \ {e} /\ u.links = links
  BY <1>2
<1>8. u = [dirs |-> u.dirs, files |-> u.files, links |-> [q \in DOMAIN u.links |-> u.links[q]]]
  BY ONLY <1>2, <1>4, <1>7
<1>9. u = Without(t, {e})
  BY ONLY <1>2, <1>5, <1>6
<1>10. IsTree(u)
  BY <1>1, <1>3, <1>7, <1>8 DEF IsTree, Entries
<1> QED
  BY <1>9, <1>10 DEF e, u

\* A directory that anything is in is not empty.
LEMMA InsideIsBelow ==
  ASSUME NEW t, IsTree(t), NEW q \in Entries(t), q # <<>>
  PROVE  q \in Below(t, Front(q))
<1>1. IsSequence(q) /\ IsSequence(Front(q))
  BY FrontOf DEF IsTree
<1>2. Len(q) \in Nat \ {0} /\ Len(Front(q)) = Len(q) - 1
  BY <1>1, FrontOf
<1>3. q # Front(q)
  BY <1>2
<1>4. SubSeq(Front(q), 1, Len(Front(q))) = Front(q)
  BY <1>1, SubSeqFull DEF IsSequence
<1>5. SubSeq(q, 1, Len(Front(q))) = Front(q)
  BY <1>2 DEF Front
<1> QED
  BY <1>2, <1>3, <1>4, <1>5 DEF Below, IsPrefix

LEMMA RmdirKeepsTree ==
  ASSUME NEW t, IsTree(t), NEW p, IsSequence(p), p # <<>>, CanRmdir(t, p)
  PROVE  IsTree(rmdir(t, p)) /\ rmdir(t, p) = Without(t, {Itself(t, p)})
<1> DEFINE e == Itself(t, p)
           u == rmdir(t, p)
<1>1. e # <<>> /\ e \in t.dirs /\ Below(t, e) = {}
  BY ItselfIsASequence DEF CanRmdir
<1>2. u = [dirs |-> t.dirs \ {e}, files |-> t.files, links |-> t.links]
  <2>1. t = [dirs |-> t.dirs, files |-> t.files, links |-> t.links]
    BY PartsOf
  <2>2. u = [t EXCEPT !.dirs = t.dirs \ {e}]
    BY DEF rmdir
  <2> HIDE DEF u, e
  <2> QED
    BY <2>1, <2>2
<1>3. e \notin t.files /\ e \notin DOMAIN t.links
  BY <1>1 DEF IsTree
<1>4. t.links = [q \in DOMAIN t.links \ {e} |-> t.links[q]]
  <2>1. DOMAIN t.links \ {e} = DOMAIN t.links
    BY <1>3
  <2> QED
    BY <2>1, PartsOf
<1>5. u = Without(t, {e})
  <2>1. t.files \ {e} = t.files
    BY <1>3
  <2> HIDE DEF u, e
  <2> QED
    BY <1>2, <1>4, <2>1 DEF Without
<1> HIDE DEF e, u
<1>6. u.dirs = t.dirs \ {e} /\ u.files = t.files /\ u.links = t.links
  BY <1>2
<1>7. u = [dirs |-> u.dirs, files |-> u.files, links |-> [q \in DOMAIN u.links |-> u.links[q]]]
  BY ONLY <1>2, <1>6, PartsOf, IsTree(t)
<1>8. ASSUME NEW q \in Entries(t), q # <<>> PROVE Front(q) # e
  BY <1>1, <1>8, InsideIsBelow
<1>9. Entries(u) \subseteq Entries(t)
  BY <1>6 DEF Entries
<1>10. \A q \in Entries(u) : IsSequence(q) /\ (q # <<>> => Front(q) \in u.dirs)
  BY <1>6, <1>8, <1>9 DEF IsTree
<1>11. IsTree(u)
  BY <1>1, <1>6, <1>7, <1>10 DEF IsTree
<1> QED
  BY <1>5, <1>11 DEF e, u

-----------------------------------------------------------------------------
(* Iterators                                                               *)

\* Where a process is tells how many iterators it holds: one for each of its
\* activations, but for the innermost when its directory is being removed.
Counted(place, inner, held) ==
  /\ IsSequence(inner) /\ held \in Nat
  /\ place \in {"idle", "check", "mkdir", "open", "next", "unlink", "rmdir", "unwind"}
  /\ place \in {"idle", "check", "mkdir"} => inner = <<>> /\ held = 0
  /\ place = "open" => held = Len(inner)
  /\ place \in {"next", "unlink", "unwind"} => inner # <<>> /\ held = Len(inner)
  /\ place = "rmdir" => held = IF inner = <<>> THEN 0 ELSE Len(inner) - 1

TreeInv ==
  /\ pc = [p \in Procs |-> pc[p]] /\ frames = [p \in Procs |-> frames[p]]
  /\ handles = [p \in Procs |-> handles[p]]
  /\ \A p \in Procs : Counted(pc[p], frames[p], handles[p])

LEMMA Popped == ASSUME NEW s, IsSequence(s), s # <<>>
                PROVE  /\ IsSequence(Front(s)) /\ Len(Front(s)) = Len(s) - 1
                       /\ Len(s) \in Nat \ {0}
                       /\ Len(s) <= 1 => Front(s) = <<>>
                       /\ ~(Len(s) <= 1) => Front(s) # <<>>
<1>1. IsSequence(Front(s)) /\ Len(s) \in Nat \ {0} /\ Len(Front(s)) = Len(s) - 1
  BY FrontOf
<1>2. Len(s) <= 1 => Front(s) = <<>>
  BY <1>1, SubSeqEmpty DEF Front
<1>3. ~(Len(s) <= 1) => Front(s) # <<>>
  BY <1>1, EmptySeq
<1> QED
  BY <1>1, <1>2, <1>3

LEMMA Renewed == ASSUME NEW s, IsSequence(s), s # <<>>, NEW e
                 PROVE  LET t == [s EXCEPT ![Len(s)] = e] IN
                          IsSequence(t) /\ t # <<>> /\ Len(t) = Len(s)
<1> DEFINE S == {s[i] : i \in DOMAIN s} \cup {e}
           t == [s EXCEPT ![Len(s)] = e]
<1>1. s \in Seq(S) /\ e \in S
  <2>1. s \in Seq({s[i] : i \in DOMAIN s}) /\ {s[i] : i \in DOMAIN s} \subseteq S
    BY DEF IsSequence
  <2> QED
    BY <2>1, SeqMonotonic
<1> HIDE DEF S
<1>2. Len(s) \in 1 .. Len(s) /\ Len(s) # 0
  BY <1>1, EmptySeq
<1>3. t \in Seq(S) /\ Len(t) = Len(s)
  BY <1>1, <1>2, ExceptSeq
<1> HIDE DEF t
<1>4. IsSequence(t) /\ t # <<>>
  BY <1>2, <1>3, EmptySeq, IsASequence
<1> QED
  BY <1>3, <1>4 DEF t

LEMMA OneMoves ==
  ASSUME TreeInv, NEW p \in Procs, NEW place, NEW inner, NEW held,
         pc' = [pc EXCEPT ![p] = place], frames' = [frames EXCEPT ![p] = inner],
         handles' = [handles EXCEPT ![p] = held], Counted(place, inner, held)
  PROVE  TreeInv'
<1>1. ASSUME NEW q \in Procs PROVE Counted(pc'[q], frames'[q], handles'[q])
  BY DEF TreeInv
<1>2. /\ pc' = [q \in Procs |-> pc'[q]] /\ frames' = [q \in Procs |-> frames'[q]]
      /\ handles' = [q \in Procs |-> handles'[q]]
  BY DEF TreeInv
<1> QED
  BY <1>1, <1>2 DEF TreeInv

LEMMA TreeInit == Init => TreeInv
<1> SUFFICES ASSUME Init PROVE TreeInv
  OBVIOUS
<1>1. ASSUME NEW p \in Procs PROVE Counted(pc[p], frames[p], handles[p])
  BY NoFrames DEF Init, Counted
<1> QED
  BY <1>1 DEF Init, TreeInv

LEMMA KeepsFrames ==
  ASSUME TreeInv, NEW p \in Procs
  PROVE  /\ frames = [frames EXCEPT ![p] = frames[p]] /\ handles = [handles EXCEPT ![p] = handles[p]]
         /\ pc = [pc EXCEPT ![p] = pc[p]] /\ Counted(pc[p], frames[p], handles[p])
BY DEF TreeInv

\* Leaving an activation, whose iterator is closed by then.
LEMMA Leaves ==
  ASSUME TreeInv, NEW p \in Procs, NEW result \in BOOLEAN, Leave(p, result),
         handles' = [handles EXCEPT ![p] = IF frames[p] = <<>> THEN 0 ELSE Len(frames[p]) - 1]
  PROVE  TreeInv'
<1> DEFINE inner == IF frames[p] = <<>> THEN frames[p] ELSE Front(frames[p])
           held == IF frames[p] = <<>> THEN 0 ELSE Len(frames[p]) - 1
<1>1. IsSequence(frames[p])
  BY KeepsFrames DEF Counted
<1>2. frames' = [frames EXCEPT ![p] = inner] /\ handles' = [handles EXCEPT ![p] = held]
  BY DEF Leave, TreeInv
<1>3. CASE Len(frames[p]) <= 1
  <2>1. pc' = [pc EXCEPT ![p] = "idle"]
    BY <1>3 DEF Leave, Return, Goto
  <2>2. inner = <<>> /\ held = 0
    BY <1>1, <1>3, Popped, NoFrames
  <2>3. Counted("idle", inner, held)
    BY <2>2, NoFrames DEF Counted
  <2> QED
    BY <1>2, <2>1, <2>3, OneMoves
<1>4. CASE ~(Len(frames[p]) <= 1)
  <2> DEFINE place == IF result THEN "next" ELSE "unwind"
  <2>1. pc' = [pc EXCEPT ![p] = place]
    BY <1>4 DEF Leave, Goto
  <2>2. frames[p] # <<>>
    BY <1>4, NoFrames
  <2>3. IsSequence(inner) /\ inner # <<>> /\ held = Len(inner) /\ held \in Nat
    BY <1>1, <1>4, <2>2, Popped
  <2>4. place \in {"next", "unwind"}
    OBVIOUS
  <2> HIDE DEF inner, held, place
  <2>5. Counted(place, inner, held)
    BY <2>3, <2>4 DEF Counted
  <2> QED
    BY <1>2, <2>1, <2>5, OneMoves
<1> QED
  BY <1>3, <1>4

LEMMA FailsToOpen ==
  ASSUME TreeInv, NEW p \in Procs, pc[p] = "open", FailToOpen(p), UNCHANGED <<frames, handles>>
  PROVE  TreeInv'
<1>1. Counted(pc[p], frames[p], handles[p])
  BY DEF TreeInv
<1> DEFINE place == IF frames[p] = <<>> THEN "idle" ELSE "unwind"
<1>2. pc' = [pc EXCEPT ![p] = place]
  BY DEF FailToOpen, Return, Goto
<1>3. Counted(place, frames[p], handles[p])
  BY <1>1, NoFrames DEF Counted
<1>4. frames' = [frames EXCEPT ![p] = frames[p]] /\ handles' = [handles EXCEPT ![p] = handles[p]]
  BY KeepsFrames
<1> HIDE DEF place
<1> QED
  BY <1>2, <1>3, <1>4, OneMoves

\* Only the place of a process changes.
LEMMA OnlyMoves ==
  ASSUME TreeInv, NEW p \in Procs, NEW place, pc' = [pc EXCEPT ![p] = place],
         UNCHANGED <<frames, handles>>, Counted(place, frames[p], handles[p])
  PROVE  TreeInv'
<1>1. frames' = [frames EXCEPT ![p] = frames[p]] /\ handles' = [handles EXCEPT ![p] = handles[p]]
  BY KeepsFrames
<1> QED
  BY <1>1, OneMoves

LEMMA MkdirMoves ==
  ASSUME TreeInv, NEW p \in Procs, check(p) \/ make(p)
  PROVE  TreeInv'
<1>1. PICK place \in {"idle", "check", "mkdir"} : pc' = [pc EXCEPT ![p] = place]
  BY DEF check, make, NextComponent, Return, Goto
<1>2. pc[p] \in {"check", "mkdir"} /\ UNCHANGED <<frames, handles>>
  BY DEF check, make
<1>3. Counted(place, frames[p], handles[p])
  BY <1>2, KeepsFrames DEF Counted
<1> QED
  BY <1>1, <1>2, <1>3, OnlyMoves

LEMMA OpenDirCounts == ASSUME TreeInv, NEW p \in Procs, open_dir(p) PROVE TreeInv'
<1>1. pc[p] = "open" /\ Counted("open", frames[p], handles[p])
  BY KeepsFrames DEF open_dir
<1>2. CASE is_dir(tree, child[p])
  <2> DEFINE f == [path |-> child[p], left |-> Listing(tree, Resolve(tree, child[p]))]
  <2>1. /\ frames' = [frames EXCEPT ![p] = Append(frames[p], f)]
        /\ handles' = [handles EXCEPT ![p] = handles[p] + 1]
        /\ pc' = [pc EXCEPT ![p] = "next"]
    BY <1>2 DEF open_dir, Goto
  <2> HIDE DEF f
  <2>2. /\ IsSequence(Append(frames[p], f)) /\ Append(frames[p], f) # <<>>
        /\ Len(Append(frames[p], f)) = Len(frames[p]) + 1 /\ Len(frames[p]) \in Nat
    BY <1>1, Pushed DEF Counted
  <2>3. handles[p] = Len(frames[p])
    BY <1>1 DEF Counted
  <2>4. Counted("next", Append(frames[p], f), handles[p] + 1)
    BY <2>2, <2>3 DEF Counted
  <2> QED
    BY <2>1, <2>4, OneMoves
<1>3. CASE ~is_dir(tree, child[p])
  BY <1>1, <1>3, FailsToOpen DEF open_dir
<1> QED
  BY <1>2, <1>3

LEMMA NextDirCounts == ASSUME TreeInv, NEW p \in Procs, next_dir(p) PROVE TreeInv'
<1>1. pc[p] = "next" /\ Counted("next", frames[p], handles[p]) /\ UNCHANGED handles
  BY KeepsFrames DEF next_dir
<1>2. PICK entry \in Top(p).left :
        LET path == Append(Top(p).path, entry.name) IN
          IF Len(path) > MaxLen
          THEN Goto(p, "unwind") /\ UNCHANGED <<frames, child>>
          ELSE /\ frames' = [frames EXCEPT ![p][Len(frames[p])].left = @ \ {entry}]
               /\ child' = [child EXCEPT ![p] = path]
               /\ Goto(p, IF IsDirEntry(tree, Top(p).path, entry) THEN "open" ELSE "unlink")
  BY DEF next_dir
<1>3. CASE Goto(p, "unwind") /\ UNCHANGED frames
  <2>1. Counted("unwind", frames[p], handles[p])
    BY <1>1 DEF Counted
  <2> QED
    BY <1>1, <1>3, <2>1, OnlyMoves DEF Goto
<1>4. CASE /\ frames' = [frames EXCEPT ![p][Len(frames[p])].left = @ \ {entry}]
           /\ Goto(p, IF IsDirEntry(tree, Top(p).path, entry) THEN "open" ELSE "unlink")
  <2> DEFINE s == frames[p]
             inner == [s EXCEPT ![Len(s)] = [s[Len(s)] EXCEPT !.left = @ \ {entry}]]
             place == IF IsDirEntry(tree, Top(p).path, entry) THEN "open" ELSE "unlink"
  <2>1. frames' = [frames EXCEPT ![p] = inner] /\ pc' = [pc EXCEPT ![p] = place]
    BY <1>4 DEF Goto
  <2>2. handles' = [handles EXCEPT ![p] = handles[p]]
    BY <1>1, KeepsFrames
  <2>3. IsSequence(inner) /\ inner # <<>> /\ Len(inner) = Len(s)
    BY <1>1, Renewed DEF Counted
  <2>4. place \in {"open", "unlink"}
    OBVIOUS
  <2> HIDE DEF inner, place
  <2>5. Counted(place, inner, handles[p])
    BY <1>1, <2>3, <2>4 DEF Counted
  <2> QED
    BY <2>1, <2>2, <2>5, OneMoves
<1> QED
  BY <1>2, <1>3, <1>4

LEMMA EndOfDirCounts ==
  ASSUME TreeInv, NEW p \in Procs, end_of_dir(p) \/ read_dir_fault(p)
  PROVE  TreeInv'
<1>1. /\ pc[p] = "next" /\ Counted("next", frames[p], handles[p]) /\ UNCHANGED frames
      /\ pc' = [pc EXCEPT ![p] = "rmdir"] /\ handles' = [handles EXCEPT ![p] = handles[p] - 1]
  BY KeepsFrames DEF end_of_dir, read_dir_fault, close_dir, Goto
<1>2. Len(frames[p]) \in Nat \ {0}
  BY <1>1, Popped DEF Counted
<1>3. Counted("rmdir", frames[p], handles[p] - 1)
  BY <1>1, <1>2 DEF Counted
<1>4. frames' = [frames EXCEPT ![p] = frames[p]]
  BY <1>1, KeepsFrames
<1> QED
  BY <1>1, <1>3, <1>4, OneMoves

LEMMA TreeStep == TreeInv /\ [Next]_vars => TreeInv'
<1> SUFFICES ASSUME TreeInv, [Next]_vars PROVE TreeInv'
  OBVIOUS
<1>1. ASSUME NEW p \in Procs, NEW path \in MkdirPaths, mkdir_all(p, path) PROVE TreeInv'
  <2>1. PICK place \in {"idle", "check"} : pc' = [pc EXCEPT ![p] = place]
    BY <1>1 DEF mkdir_all, Goto, Return
  <2>2. pc[p] = "idle" /\ UNCHANGED <<frames, handles>>
    BY <1>1 DEF mkdir_all, Begin
  <2>3. Counted(place, frames[p], handles[p])
    BY <2>2, KeepsFrames DEF Counted
  <2> QED
    BY <2>1, <2>2, <2>3, OnlyMoves
<1>2. ASSUME NEW p \in Procs, NEW path \in RemovePaths, NEW force \in BOOLEAN,
             remove_dir(p, path, force)
      PROVE  TreeInv'
  <2>1. PICK place \in {"open", "rmdir"} : pc' = [pc EXCEPT ![p] = place]
    BY <1>2 DEF remove_dir, Goto
  <2>2. pc[p] = "idle" /\ UNCHANGED <<frames, handles>>
    BY <1>2 DEF remove_dir, Begin
  <2>3. Counted(place, frames[p], handles[p])
    BY <2>2, KeepsFrames, NoFrames DEF Counted
  <2> QED
    BY <2>1, <2>2, <2>3, OnlyMoves
<1>3. ASSUME NEW p \in Procs, open_dir_fault(p) PROVE TreeInv'
  BY <1>3, FailsToOpen DEF open_dir_fault
<1>4. ASSUME NEW p \in Procs, remove_file(p) PROVE TreeInv'
  <2>1. PICK place \in {"next", "unwind"} : pc' = [pc EXCEPT ![p] = place]
    BY <1>4 DEF remove_file, Goto
  <2>2. pc[p] = "unlink" /\ UNCHANGED <<frames, handles>>
    BY <1>4 DEF remove_file
  <2>3. Counted(place, frames[p], handles[p])
    BY <2>2, KeepsFrames DEF Counted
  <2> QED
    BY <2>1, <2>2, <2>3, OnlyMoves
<1>5. ASSUME NEW p \in Procs, remove_empty(p) PROVE TreeInv'
  <2>1. pc[p] = "rmdir" /\ UNCHANGED handles /\ Counted("rmdir", frames[p], handles[p])
    BY <1>5, KeepsFrames DEF remove_empty
  <2>2. \E result \in BOOLEAN : Leave(p, result)
    BY <1>5 DEF remove_empty
  <2>3. handles' = [handles EXCEPT ![p] = IF frames[p] = <<>> THEN 0 ELSE Len(frames[p]) - 1]
    BY <2>1, KeepsFrames DEF Counted
  <2> QED
    BY <2>2, <2>3, Leaves
<1>6. ASSUME NEW p \in Procs, unwind(p) PROVE TreeInv'
  <2>1. pc[p] = "unwind" /\ Counted("unwind", frames[p], handles[p])
        /\ handles' = [handles EXCEPT ![p] = handles[p] - 1]
    BY <1>6, KeepsFrames DEF unwind, close_dir
  <2>2. Leave(p, FALSE)
    BY <1>6 DEF unwind
  <2>3. handles' = [handles EXCEPT ![p] = IF frames[p] = <<>> THEN 0 ELSE Len(frames[p]) - 1]
    BY <2>1 DEF Counted
  <2> QED
    BY <2>2, <2>3, Leaves
<1>7. CASE UNCHANGED vars
  BY <1>7 DEF vars, local, TreeInv
<1> QED
  BY <1>1, <1>2, <1>3, <1>4, <1>5, <1>6, <1>7,
     MkdirMoves, OpenDirCounts, NextDirCounts, EndOfDirCounts
  DEF Next, InCall

(***************************************************************************)
(* fs.c 527-543: however a removal or a directory's making ends, and from  *)
(* whatever depth, every iterator that was opened has been closed.         *)
(***************************************************************************)
THEOREM IteratorsAreClosed == Spec => []IteratorsClosed
<1>1. TreeInv => IteratorsClosed
  BY DEF TreeInv, Counted, IteratorsClosed
<1> QED
  BY <1>1, TreeInit, TreeStep, PTL DEF Spec

(***************************************************************************)
(* Whatever process calls what, and whichever step of it fails, neither an *)
(* iterator nor a file stays open when the calls have returned.            *)
(***************************************************************************)
THEOREM NothingLeaks == MCSpec => []NothingLeftOpen
<1>1. MCInit => TreeInv /\ FilesInv
  BY TreeInit, FilesInit DEF MCInit
<1>2. TreeInv /\ [MCNext]_mcvars => TreeInv'
  <2>1. [MCNext]_mcvars => [Next]_vars
    BY DEF MCNext, RunsTree, RunsFiles, mcvars
  <2> QED
    BY <2>1, TreeStep
<1>3. FilesInv /\ [MCNext]_mcvars => FilesInv'
  <2>1. [MCNext]_mcvars => [IONext]_iovars
    BY DEF MCNext, RunsTree, RunsFiles, mcvars
  <2> QED
    BY <2>1, FilesStep
<1>4. TreeInv /\ FilesInv => NothingLeftOpen
  BY CountedFilesClose DEF TreeInv, Counted, IteratorsClosed, NothingLeftOpen
<1> QED
  BY <1>1, <1>2, <1>3, <1>4, PTL DEF MCSpec

-----------------------------------------------------------------------------
(* The tree stays one, and paths stay paths                                *)

IsPath(s) == IsSequence(s) /\ s # <<>>

ArePaths(inner) == \A i \in DOMAIN inner : IsPath(inner[i].path) /\ "left" \in DOMAIN inner[i]

\* What a process at a place holds: its call, how far mkdir_all has come, the
\* path at hand and the activations.
Holds(place, c, n, kid, inner) ==
  /\ IsSequence(c.path) /\ n \in 0 .. Len(c.path)
  /\ IF place \in {"check", "mkdir"} THEN n # 0 ELSE n = 0
  /\ place \in {"open", "next", "unlink", "rmdir", "unwind"} => c.path # <<>>
  /\ place \in {"open", "unlink"} => IsPath(kid)
  /\ ArePaths(inner)

TypesInv ==
  /\ IsTree(tree) /\ ok \in [Procs -> BOOLEAN]
  /\ call = [p \in Procs |-> call[p]] /\ at = [p \in Procs |-> at[p]]
  /\ child = [p \in Procs |-> child[p]]
  /\ \A p \in Procs : Holds(pc[p], call[p], at[p], child[p], frames[p])

LEMMA TypesInit == Init => TypesInv
<1> SUFFICES ASSUME Init PROVE TypesInv
  OBVIOUS
<1>1. IsTree(tree)
  BY FsTreeAssumption DEF Init
<1>2. ASSUME NEW p \in Procs PROVE Holds(pc[p], call[p], at[p], child[p], frames[p])
  BY NoFrames DEF Init, NoCall, Holds, ArePaths
<1> QED
  BY <1>1, <1>2 DEF Init, TypesInv

LEMMA Steady ==
  ASSUME TreeInv, TypesInv, NEW p \in Procs
  PROVE  /\ call = [call EXCEPT ![p] = call[p]] /\ at = [at EXCEPT ![p] = at[p]]
         /\ child = [child EXCEPT ![p] = child[p]] /\ frames = [frames EXCEPT ![p] = frames[p]]
         /\ Holds(pc[p], call[p], at[p], child[p], frames[p])
         /\ Counted(pc[p], frames[p], handles[p]) /\ IsTree(tree)
BY DEF TypesInv, TreeInv

LEMMA OneHolds ==
  ASSUME TreeInv, TypesInv, NEW p \in Procs, NEW place, NEW c, NEW n, NEW kid, NEW inner,
         pc' = [pc EXCEPT ![p] = place], call' = [call EXCEPT ![p] = c],
         at' = [at EXCEPT ![p] = n], child' = [child EXCEPT ![p] = kid],
         frames' = [frames EXCEPT ![p] = inner], Holds(place, c, n, kid, inner),
         IsTree(tree'), ok' \in [Procs -> BOOLEAN]
  PROVE  TypesInv'
<1>1. ASSUME NEW q \in Procs PROVE Holds(pc'[q], call'[q], at'[q], child'[q], frames'[q])
  BY DEF TypesInv, TreeInv
<1>2. /\ call' = [q \in Procs |-> call'[q]] /\ at' = [q \in Procs |-> at'[q]]
      /\ child' = [q \in Procs |-> child'[q]]
  BY DEF TypesInv
<1> QED
  BY <1>1, <1>2 DEF TypesInv

LEMMA TmpIsAPath ==
  ASSUME TreeInv, TypesInv, NEW p \in Procs, pc[p] \in {"check", "mkdir"}
  PROVE  IsPath(tmp(p))
<1> DEFINE path == call[p].path
           n == at[p]
<1>1. path \in Seq(Range(path)) /\ n \in 1 .. Len(path) /\ Len(path) \in Nat
  BY Steady, LenProperties DEF Holds, IsSequence
<1>2. \A i \in 1 .. n : path[i] \in Range(path)
  BY <1>1, ElementOfSeq
<1> HIDE DEF path, n
<1>3. SubSeq(path, 1, n) \in Seq(Range(path)) /\ Len(SubSeq(path, 1, n)) = IF 1 <= n THEN n - 1 + 1 ELSE 0
  BY <1>1, <1>2, SubSeqProperties
<1>4. (IF 1 <= n THEN n - 1 + 1 ELSE 0) # 0
  BY <1>1
<1> DEFINE s == SubSeq(path, 1, n)
<1>5. s = tmp(p)
  BY DEF tmp, path, n
<1> HIDE DEF s
<1>6. s # <<>>
  BY <1>3, <1>4, EmptySeq DEF s
<1> QED
  BY <1>3, <1>5, <1>6, IsASequence DEF IsPath, s

LEMMA MkdirHolds ==
  ASSUME TreeInv, TypesInv, NEW p \in Procs, check(p) \/ make(p)
  PROVE  TypesInv'
<1>1. /\ pc[p] \in {"check", "mkdir"} /\ UNCHANGED <<call, child, frames>>
      /\ Holds(pc[p], call[p], at[p], child[p], frames[p])
  BY Steady DEF check, make
<1>2. \/ UNCHANGED tree
      \/ CanMkdir(tree, tmp(p)) /\ tree' = mkdir(tree, tmp(p))
  BY DEF check, make, Replace
<1>3. IsTree(tree')
  BY <1>1, <1>2, TmpIsAPath, Steady, MkdirKeepsTree DEF IsPath
<1>4. PICK place, n :
        /\ pc' = [pc EXCEPT ![p] = place] /\ at' = [at EXCEPT ![p] = n]
        /\ \/ place = "idle" /\ n = 0
           \/ place = "check" /\ n = at[p] + 1 /\ at[p] # Len(call[p].path)
           \/ place = "mkdir" /\ n = at[p]
  <2>1. \/ NextComponent(p)
        \/ Goto(p, "mkdir") /\ UNCHANGED at
        \/ Return(p, FALSE) /\ at' = [at EXCEPT ![p] = 0]
    BY DEF check, make
  <2>2. CASE NextComponent(p)
    BY <2>2 DEF NextComponent, Goto, Return
  <2>3. CASE Goto(p, "mkdir") /\ UNCHANGED at
    BY <2>3, Steady DEF Goto
  <2>4. CASE Return(p, FALSE) /\ at' = [at EXCEPT ![p] = 0]
    BY <2>4 DEF Return, Goto
  <2> QED
    BY <2>1, <2>2, <2>3, <2>4
<1>5. ok' \in [Procs -> BOOLEAN]
  BY DEF check, make, NextComponent, Return, TypesInv
<1>6. Len(call[p].path) \in Nat
  BY <1>1, LenProperties DEF Holds, IsSequence
<1>7. Holds(place, call[p], n, child[p], frames[p])
  BY <1>1, <1>4, <1>6 DEF Holds
<1>8. /\ call' = [call EXCEPT ![p] = call[p]] /\ child' = [child EXCEPT ![p] = child[p]]
      /\ frames' = [frames EXCEPT ![p] = frames[p]]
  BY <1>1, Steady
<1> QED
  BY <1>3, <1>4, <1>5, <1>7, <1>8, OneHolds

LEMMA BeginHolds ==
  ASSUME TreeInv, TypesInv, NEW p \in Procs,
         \/ \E path \in MkdirPaths : mkdir_all(p, path)
         \/ \E path \in RemovePaths, force \in BOOLEAN : remove_dir(p, path, force)
  PROVE  TypesInv'
<1>1. CASE \E path \in MkdirPaths : mkdir_all(p, path)
  <2>1. PICK path \in MkdirPaths : mkdir_all(p, path)
    BY <1>1
  <2>2. IsSequence(path) /\ Len(path) \in Nat
    BY FsTreeAssumption, LenProperties DEF IsSequence
  <2>3. PICK c : call' = [call EXCEPT ![p] = c] /\ c.path = path
    <3> DEFINE c == [op |-> "mkdir_all", path |-> path]
    <3>1. call' = [call EXCEPT ![p] = c] /\ c.path = path
      BY <2>1 DEF mkdir_all, Begin
    <3> HIDE DEF c
    <3> QED
      BY <3>1
  <2>4. pc[p] = "idle" /\ UNCHANGED <<tree, child, frames>> /\ Holds("idle", call[p], at[p], child[p], frames[p])
    BY <2>1, Steady DEF mkdir_all, Begin
  <2>5. PICK place, n :
          /\ pc' = [pc EXCEPT ![p] = place] /\ at' = [at EXCEPT ![p] = n]
          /\ (place = "check" /\ n = 1 /\ Len(path) \in 1 .. MaxLen) \/ (place = "idle" /\ n = 0)
    <3>1. at[p] = 0
      BY <2>4 DEF Holds
    <3> QED
      BY <2>1, <3>1, Steady DEF mkdir_all, Goto, Return
  <2>6. Holds(place, c, n, child[p], frames[p])
    BY <2>2, <2>3, <2>4, <2>5 DEF Holds
  <2>7. ok' \in [Procs -> BOOLEAN]
    BY <2>1 DEF mkdir_all, Return, TypesInv
  <2>8. /\ child' = [child EXCEPT ![p] = child[p]] /\ frames' = [frames EXCEPT ![p] = frames[p]]
        /\ IsTree(tree')
    BY <2>4, Steady
  <2> QED
    BY <2>3, <2>5, <2>6, <2>7, <2>8, OneHolds
<1>2. CASE \E path \in RemovePaths, force \in BOOLEAN : remove_dir(p, path, force)
  <2>1. PICK path \in RemovePaths, force \in BOOLEAN : remove_dir(p, path, force)
    BY <1>2
  <2>2. IsPath(path) /\ Len(path) \in Nat
    BY FsTreeAssumption, LenProperties DEF IsSequence, IsPath
  <2>3. PICK c : call' = [call EXCEPT ![p] = c] /\ c.path = path
    <3> DEFINE c == [op |-> IF force THEN "remove_dir_force" ELSE "remove_dir", path |-> path]
    <3>1. call' = [call EXCEPT ![p] = c] /\ c.path = path
      BY <2>1 DEF remove_dir, Begin
    <3> HIDE DEF c
    <3> QED
      BY <3>1
  <2>4. /\ pc[p] = "idle" /\ UNCHANGED <<tree, at, frames, ok>>
        /\ Holds("idle", call[p], at[p], child[p], frames[p])
    BY <2>1, Steady DEF remove_dir, Begin
  <2>5. PICK place, kid :
          /\ pc' = [pc EXCEPT ![p] = place] /\ child' = [child EXCEPT ![p] = kid]
          /\ (place = "open" /\ kid = path) \/ place = "rmdir"
    BY <2>1 DEF remove_dir, Goto
  <2>6. Holds(place, c, at[p], kid, frames[p])
    BY <2>2, <2>3, <2>4, <2>5 DEF Holds, IsPath
  <2>7. ok' \in [Procs -> BOOLEAN]
    BY <2>4 DEF TypesInv
  <2>8. /\ at' = [at EXCEPT ![p] = at[p]] /\ frames' = [frames EXCEPT ![p] = frames[p]]
        /\ IsTree(tree')
    BY <2>4, Steady
  <2> QED
    BY <2>3, <2>5, <2>6, <2>7, <2>8, OneHolds
<1> QED
  BY <1>1, <1>2

LEMMA PathsPushed ==
  ASSUME NEW s, IsSequence(s), ArePaths(s), NEW f, IsPath(f.path), "left" \in DOMAIN f
  PROVE  ArePaths(Append(s, f))
<1> DEFINE S == Range(s) \cup {f}
           t == Append(s, f)
<1>1. s \in Seq(S) /\ f \in S
  BY SeqMonotonic DEF IsSequence
<1> HIDE DEF S
<1>2. /\ t \in Seq(S) /\ Len(t) = Len(s) + 1 /\ t[Len(s) + 1] = f
      /\ \A i \in 1 .. Len(s) : t[i] = s[i]
  BY <1>1, AppendProperties
<1>3. DOMAIN t = 1 .. Len(s) + 1 /\ DOMAIN s = 1 .. Len(s) /\ Len(s) \in Nat
  BY <1>1, <1>2, LenProperties
<1> HIDE DEF t
<1>4. ASSUME NEW i \in DOMAIN t PROVE IsPath(t[i].path) /\ "left" \in DOMAIN t[i]
  <2>1. CASE i = Len(s) + 1
    BY <1>2, <2>1
  <2>2. CASE i # Len(s) + 1
    <3>1. i \in 1 .. Len(s)
      BY <1>3, <2>2
    <3> QED
      BY <1>2, <1>3, <3>1 DEF ArePaths
  <2> QED
    BY <2>1, <2>2
<1> QED
  BY <1>4 DEF ArePaths, t

LEMMA PathsPopped ==
  ASSUME NEW s, IsSequence(s), s # <<>>, ArePaths(s)
  PROVE  ArePaths(Front(s)) /\ IsPath(Last(s).path) /\ "left" \in DOMAIN Last(s)
<1>1. /\ Len(s) \in Nat \ {0} /\ Len(Front(s)) = Len(s) - 1 /\ IsSequence(Front(s))
      /\ DOMAIN s = 1 .. Len(s)
  BY FrontOf, LenProperties DEF IsSequence
<1>2. DOMAIN Front(s) = 1 .. Len(s) - 1
  BY <1>1, LenProperties DEF IsSequence
<1>3. ASSUME NEW i \in 1 .. Len(s) - 1 PROVE Front(s)[i] = s[i] /\ i \in DOMAIN s
  <2>1. \A j \in 1 .. Len(s) - 1 : s[j] \in Range(s)
    BY <1>1, ElementOfSeq DEF IsSequence
  <2>2. 1 \in Int /\ Len(s) - 1 \in Int /\ i \in 1 .. Len(s) - 1 - 1 + 1 /\ 1 + i - 1 = i
    BY <1>1
  <2>3. Front(s)[i] = s[1 + i - 1]
    BY <2>1, <2>2, SubSeqProperties DEF Front
  <2> QED
    BY <1>1, <2>2, <2>3
<1>4. Len(s) \in DOMAIN s
  BY <1>1
<1> QED
  BY <1>2, <1>3, <1>4 DEF ArePaths, Last

LEMMA PathsRenewed ==
  ASSUME NEW s, IsSequence(s), s # <<>>, ArePaths(s), NEW e, e.path = Last(s).path,
         "left" \in DOMAIN e
  PROVE  ArePaths([s EXCEPT ![Len(s)] = e])
BY PathsPopped DEF ArePaths

LEMMA LeavesHolding ==
  ASSUME TreeInv, TypesInv, NEW p \in Procs, NEW result \in BOOLEAN, Leave(p, result),
         pc[p] \in {"rmdir", "unwind"}, UNCHANGED <<call, at, child>>, IsTree(tree')
  PROVE  TypesInv'
<1> DEFINE inner == IF frames[p] = <<>> THEN frames[p] ELSE Front(frames[p])
<1>1. Holds(pc[p], call[p], at[p], child[p], frames[p]) /\ IsSequence(frames[p])
  BY Steady DEF Counted
<1>2. frames' = [frames EXCEPT ![p] = inner]
  BY DEF Leave, TreeInv
<1>3. ArePaths(inner)
  BY <1>1, PathsPopped DEF Holds
<1> HIDE DEF inner
<1>4. PICK place \in {"idle", "next", "unwind"} : pc' = [pc EXCEPT ![p] = place]
  BY DEF Leave, Return, Goto
<1>5. Holds(place, call[p], at[p], child[p], inner)
  BY <1>1, <1>3, <1>4 DEF Holds
<1>6. /\ call' = [call EXCEPT ![p] = call[p]] /\ at' = [at EXCEPT ![p] = at[p]]
      /\ child' = [child EXCEPT ![p] = child[p]]
  BY Steady
<1>7. ok' \in [Procs -> BOOLEAN]
  BY DEF Leave, Return, TypesInv
<1> QED
  BY <1>2, <1>4, <1>5, <1>6, <1>7, OneHolds

\* What a process holds when only its place, and perhaps the path at hand, changes.
LEMMA Moves ==
  ASSUME TreeInv, TypesInv, NEW p \in Procs, NEW place \in {"next", "rmdir", "unwind", "idle"}, NEW kid,
         pc[p] \in {"open", "next", "unlink"}
  PROVE  Holds(place, call[p], at[p], kid, frames[p])
BY Steady DEF Holds

LEMMA OpenHolds ==
  ASSUME TreeInv, TypesInv, NEW p \in Procs, open_dir(p) \/ open_dir_fault(p)
  PROVE  TypesInv'
<1>1. /\ pc[p] = "open" /\ Holds("open", call[p], at[p], child[p], frames[p]) /\ IsTree(tree)
      /\ Counted("open", frames[p], handles[p])
  BY Steady DEF open_dir, open_dir_fault
<1>2. /\ UNCHANGED <<tree, call, at>> /\ child' = [child EXCEPT ![p] = <<>>]
  BY DEF open_dir, open_dir_fault
<1>3. CASE FailToOpen(p) /\ UNCHANGED frames
  <2>1. PICK place \in {"idle", "unwind"} : pc' = [pc EXCEPT ![p] = place]
    BY <1>3 DEF FailToOpen, Goto, Return
  <2>2. ok' \in [Procs -> BOOLEAN]
    BY <1>3 DEF FailToOpen, Return, TypesInv
  <2>5. IsTree(tree')
    BY <1>1, <1>2
  <2>3. Holds(place, call[p], at[p], <<>>, frames[p])
    BY <1>1, <2>1, Moves
  <2>4. /\ call' = [call EXCEPT ![p] = call[p]] /\ at' = [at EXCEPT ![p] = at[p]]
        /\ frames' = [frames EXCEPT ![p] = frames[p]]
    BY <1>2, <1>3, Steady
  <2> QED
    BY <1>1, <1>2, <2>1, <2>2, <2>5, <2>3, <2>4, OneHolds
<1>4. CASE open_dir(p) /\ is_dir(tree, child[p])
  <2> DEFINE f == [path |-> child[p], left |-> Listing(tree, Resolve(tree, child[p]))]
  <2>1. /\ frames' = [frames EXCEPT ![p] = Append(frames[p], f)]
        /\ pc' = [pc EXCEPT ![p] = "next"] /\ UNCHANGED ok
    BY <1>4 DEF open_dir, Goto
  <2>2. IsPath(f.path) /\ "left" \in DOMAIN f
    BY <1>1 DEF Holds
  <2> HIDE DEF f
  <2>3. ArePaths(Append(frames[p], f))
    BY <1>1, <2>2, PathsPushed DEF Holds, Counted
  <2>4. Holds("next", call[p], at[p], <<>>, Append(frames[p], f))
    BY <1>1, <2>3 DEF Holds
  <2>5. call' = [call EXCEPT ![p] = call[p]] /\ at' = [at EXCEPT ![p] = at[p]]
    BY <1>2, Steady
  <2>6. ok' \in [Procs -> BOOLEAN] /\ IsTree(tree')
    BY <1>1, <1>2, <2>1 DEF TypesInv
  <2> QED
    BY <1>2, <2>1, <2>4, <2>5, <2>6, OneHolds
<1> QED
  BY <1>3, <1>4 DEF open_dir, open_dir_fault

LEMMA NextHolds == ASSUME TreeInv, TypesInv, NEW p \in Procs, next_dir(p) PROVE TypesInv'
<1>1. /\ pc[p] = "next" /\ Holds("next", call[p], at[p], child[p], frames[p]) /\ IsTree(tree)
      /\ Counted("next", frames[p], handles[p])
  BY Steady DEF next_dir
<1>2. UNCHANGED <<tree, call, at, ok>>
  BY DEF next_dir
<1>3. ok' \in [Procs -> BOOLEAN] /\ IsTree(tree')
  BY <1>1, <1>2 DEF TypesInv
<1>4. PICK entry \in Top(p).left :
        LET path == Append(Top(p).path, entry.name) IN
          IF Len(path) > MaxLen
          THEN Goto(p, "unwind") /\ UNCHANGED <<frames, child>>
          ELSE /\ frames' = [frames EXCEPT ![p][Len(frames[p])].left = @ \ {entry}]
               /\ child' = [child EXCEPT ![p] = path]
               /\ Goto(p, IF IsDirEntry(tree, Top(p).path, entry) THEN "open" ELSE "unlink")
  BY DEF next_dir
<1>5. CASE Goto(p, "unwind") /\ UNCHANGED <<frames, child>>
  <2> DEFINE place == "unwind"
  <2>1. child' = [child EXCEPT ![p] = child[p]] /\ pc' = [pc EXCEPT ![p] = place]
    BY <1>5, Steady DEF Goto
  <2>2. Holds(place, call[p], at[p], child[p], frames[p])
    BY <1>1, Moves
  <2>3. /\ call' = [call EXCEPT ![p] = call[p]] /\ at' = [at EXCEPT ![p] = at[p]]
        /\ frames' = [frames EXCEPT ![p] = frames[p]]
    BY <1>2, <1>5, Steady
  <2> QED
    BY <1>3, <2>1, <2>2, <2>3, OneHolds
<1>6. CASE /\ frames' = [frames EXCEPT ![p][Len(frames[p])].left = @ \ {entry}]
           /\ child' = [child EXCEPT ![p] = Append(Top(p).path, entry.name)]
           /\ Goto(p, IF IsDirEntry(tree, Top(p).path, entry) THEN "open" ELSE "unlink")
  <2> DEFINE s == frames[p]
             e == [s[Len(s)] EXCEPT !.left = @ \ {entry}]
             inner == [s EXCEPT ![Len(s)] = e]
             place == IF IsDirEntry(tree, Top(p).path, entry) THEN "open" ELSE "unlink"
             kid == Append(Top(p).path, entry.name)
  <2>1. /\ frames' = [frames EXCEPT ![p] = inner] /\ pc' = [pc EXCEPT ![p] = place]
        /\ child' = [child EXCEPT ![p] = kid]
    BY <1>6 DEF Goto
  <2>2. IsSequence(s) /\ s # <<>> /\ ArePaths(s)
    BY <1>1 DEF Counted, Holds
  <2>3. e.path = Last(s).path /\ "left" \in DOMAIN e
    BY <2>2, PathsPopped DEF Last
  <2>4. ArePaths(inner)
    <3> HIDE DEF e
    <3> QED
      BY <2>2, <2>3, PathsRenewed
  <2>5. IsPath(kid)
    BY <2>2, PathsPopped, Pushed DEF Top, IsPath
  <2>6. place \in {"open", "unlink"}
    OBVIOUS
  <2> HIDE DEF inner, place, kid
  <2>7. Holds(place, call[p], at[p], kid, inner)
    BY <1>1, <2>4, <2>5, <2>6 DEF Holds
  <2>8. call' = [call EXCEPT ![p] = call[p]] /\ at' = [at EXCEPT ![p] = at[p]]
    BY <1>2, Steady
  <2> QED
    BY <1>3, <2>1, <2>7, <2>8, OneHolds
<1> QED
  BY <1>4, <1>5, <1>6

LEMMA EndHolds ==
  ASSUME TreeInv, TypesInv, NEW p \in Procs, end_of_dir(p) \/ read_dir_fault(p)
  PROVE  TypesInv'
<1>1. PICK place \in {"rmdir"} :
        pc[p] = "next" /\ pc' = [pc EXCEPT ![p] = place] /\ UNCHANGED <<tree, call, at, frames, ok, child>>
  BY DEF end_of_dir, read_dir_fault, Goto
<1>2. Holds(place, call[p], at[p], child[p], frames[p])
  BY <1>1, Moves
<1>3. IsTree(tree') /\ ok' \in [Procs -> BOOLEAN]
  BY <1>1 DEF TypesInv
<1>4. /\ call' = [call EXCEPT ![p] = call[p]] /\ at' = [at EXCEPT ![p] = at[p]]
      /\ child' = [child EXCEPT ![p] = child[p]] /\ frames' = [frames EXCEPT ![p] = frames[p]]
  BY <1>1, Steady
<1>5. pc' = [pc EXCEPT ![p] = place]
  BY <1>1
<1> QED
  BY <1>2, <1>3, <1>4, <1>5, OneHolds

LEMMA RemoveFileHolds ==
  ASSUME TreeInv, TypesInv, NEW p \in Procs, remove_file(p)
  PROVE  TypesInv'
<1>1. PICK place \in {"next", "unwind"} : pc' = [pc EXCEPT ![p] = place]
  BY DEF remove_file, Goto
<1>2. pc[p] = "unlink" /\ UNCHANGED <<call, at, frames, ok>>
  BY DEF remove_file
<1>3. child' = [child EXCEPT ![p] = <<>>]
  BY DEF remove_file
<1>4. \/ UNCHANGED tree
      \/ CanUnlink(tree, child[p]) /\ tree' = unlink(tree, child[p])
  BY DEF remove_file, Replace
<1>5. IsTree(tree') /\ ok' \in [Procs -> BOOLEAN]
  BY <1>2, <1>4, UnlinkKeepsTree DEF TypesInv
<1>6. Holds(place, call[p], at[p], <<>>, frames[p])
  BY <1>1, <1>2, Moves
<1>7. /\ call' = [call EXCEPT ![p] = call[p]] /\ at' = [at EXCEPT ![p] = at[p]]
      /\ frames' = [frames EXCEPT ![p] = frames[p]]
  BY <1>2, Steady
<1> QED
  BY <1>1, <1>3, <1>5, <1>6, <1>7, OneHolds

LEMMA TypesStep == TreeInv /\ TypesInv /\ [Next]_vars => TypesInv'
<1> SUFFICES ASSUME TreeInv, TypesInv, [Next]_vars PROVE TypesInv'
  OBVIOUS
<1>1. ASSUME NEW p \in Procs, end_of_dir(p) \/ read_dir_fault(p) PROVE TypesInv'
  BY <1>1, EndHolds
<1>2. ASSUME NEW p \in Procs, remove_file(p) PROVE TypesInv'
  BY <1>2, RemoveFileHolds
<1>3. ASSUME NEW p \in Procs, remove_empty(p) PROVE TypesInv'
  <2> DEFINE path == IF frames[p] = <<>> THEN call[p].path ELSE Top(p).path
  <2>1. /\ pc[p] = "rmdir" /\ UNCHANGED <<call, at, child>>
        /\ \E result \in BOOLEAN : Leave(p, result)
        /\ \/ UNCHANGED tree
           \/ CanRmdir(tree, path) /\ tree' = rmdir(tree, path)
    BY <1>3 DEF remove_empty, Replace
  <2>2. Holds("rmdir", call[p], at[p], child[p], frames[p]) /\ IsSequence(frames[p]) /\ IsTree(tree)
    BY <2>1, Steady DEF Counted
  <2>3. IsPath(path)
    BY <2>2, PathsPopped DEF Holds, Top, IsPath
  <2> HIDE DEF path
  <2>4. IsTree(tree')
    BY <2>1, <2>2, <2>3, RmdirKeepsTree DEF IsPath
  <2> QED
    BY <2>1, <2>4, LeavesHolding
<1>4. ASSUME NEW p \in Procs, unwind(p) PROVE TypesInv'
  <2>1. pc[p] = "unwind" /\ UNCHANGED <<tree, call, at, child>> /\ Leave(p, FALSE)
    BY <1>4 DEF unwind
  <2>2. IsTree(tree')
    BY <2>1, Steady
  <2> QED
    BY <2>1, <2>2, LeavesHolding
<1>5. CASE UNCHANGED vars
  BY <1>5 DEF vars, local, TypesInv
<1> QED
  BY <1>1, <1>2, <1>3, <1>4, <1>5, BeginHolds, MkdirHolds, OpenHolds, NextHolds
  DEF Next, InCall

(***************************************************************************)
(* Whatever trees the processes begin with and however their system calls  *)
(* interleave, the tree stays one: nothing is ever left, made or found     *)
(* outside a directory, and the root stays.                                *)
(***************************************************************************)
THEOREM TreesStayTrees == Spec => []TypeOK
<1>1. TreeInv /\ TypesInv => TypeOK
  <2> SUFFICES ASSUME TreeInv, TypesInv PROVE TypeOK
    OBVIOUS
  <2>1. \A p \in Procs : at[p] \in 0 .. Len(call[p].path)
    BY DEF TypesInv, Holds
  <2>2. pc \in [Procs -> {"idle", "check", "mkdir", "open", "next", "unlink", "rmdir", "unwind"}]
    BY DEF TreeInv, Counted
  <2>3. handles \in [Procs -> Nat]
    BY DEF TreeInv, Counted
  <2> QED
    BY <2>1, <2>2, <2>3 DEF TypesInv, TypeOK
<1> QED
  BY <1>1, TreeInit, TreeStep, TypesInit, TypesStep, PTL DEF Spec
-----------------------------------------------------------------------------
(* Paths and what they name                                                *)

LEMMA Appended == ASSUME NEW s, IsSequence(s), NEW e
                  PROVE  /\ IsPath(Append(s, e)) /\ Len(Append(s, e)) = Len(s) + 1
                         /\ Front(Append(s, e)) = s /\ Last(Append(s, e)) = e
                         /\ \A i \in 1 .. Len(s) : Append(s, e)[i] = s[i]
<1> DEFINE S == Range(s) \cup {e}
           t == Append(s, e)
           n == Len(s)
<1>1. s \in Seq(S) /\ e \in S
  BY SeqMonotonic DEF IsSequence
<1> HIDE DEF S
<1>2. /\ t \in Seq(S) /\ t # <<>> /\ Len(t) = n + 1 /\ t[n + 1] = e
      /\ \A i \in 1 .. n : t[i] = s[i]
  BY <1>1, AppendProperties
<1> HIDE DEF t
<1>3. n \in Nat /\ n + 1 - 1 = n /\ IsSequence(t)
  <2>1. n \in Nat
    BY <1>1, LenProperties
  <2>2. IsSequence(t)
    BY <1>2, IsASequence
  <2> QED
    BY <2>1, <2>2
<1>4. IsSequence(Front(t)) /\ Len(Front(t)) = n
  BY <1>2, <1>3, FrontOf
<1>5. \A i \in 1 .. n : Front(t)[i] = t[i]
  <2>1. \A j \in 1 .. n : t[j] \in S
    BY <1>2, <1>3, ElementOfSeq
  <2>2. Front(t) = SubSeq(t, 1, n)
    BY <1>2, <1>3 DEF Front
  <2>3. \A i \in 1 .. n - 1 + 1 : SubSeq(t, 1, n)[i] = t[1 + i - 1]
    BY <1>3, <2>1, SubSeqProperties
  <2> QED
    BY <1>3, <2>2, <2>3
<1>6. Front(t) = s
  <2>1. Front(t) \in Seq(Range(Front(t)) \cup S) /\ s \in Seq(Range(Front(t)) \cup S)
    BY <1>1, <1>4, SeqMonotonic DEF IsSequence
  <2>2. \A i \in 1 .. n : Front(t)[i] = s[i]
    BY <1>2, <1>5
  <2> QED
    BY <1>4, <2>1, <2>2, SeqEqual
<1> QED
  BY <1>2, <1>3, <1>6 DEF t, Last, IsPath

\* A path is its parent's and one more component.
LEMMA Rejoined == ASSUME NEW s, IsPath(s)
                  PROVE  /\ s = Append(Front(s), Last(s)) /\ IsSequence(Front(s))
                         /\ Len(Front(s)) = Len(s) - 1 /\ Len(s) \in Nat \ {0}
<1>1. s \in Seq(Range(s)) /\ s # <<>>
  BY DEF IsPath, IsSequence
<1>2. PICK r \in Seq(Range(s)), e \in Range(s) : s = Append(r, e)
  BY <1>1, SequenceEmptyOrAppend
<1>3. IsSequence(r)
  BY IsASequence
<1>4. Front(s) = r /\ Last(s) = e
  BY <1>2, <1>3, Appended
<1>5. Len(Front(s)) = Len(s) - 1 /\ Len(s) \in Nat \ {0}
  BY FrontOf DEF IsPath
<1> QED
  BY <1>2, <1>3, <1>4, <1>5

\* f folds the first n components of p, h the first m of q, n of them the same.
GoesOn(L, g, p, n, f, q, m, h) ==
  /\ n \in Nat /\ m \in Nat /\ n <= m /\ \A i \in 1 .. n : p[i] = q[i]
  /\ Upto(L, g, p, n, f) /\ Upto(L, g, q, m, h)

LEMMA FoldsAgree ==
  ASSUME NEW L, NEW g, NEW p, NEW n, NEW f, NEW q, NEW m, NEW h, GoesOn(L, g, p, n, f, q, m, h)
  PROVE  f[1 .. n] = h[1 .. n]
<1> DEFINE Bad == {k \in Nat : k <= n /\ \E s \in SUBSET (1 .. k) : f[s] # h[s]}
<1>0. /\ n \in Nat /\ m \in Nat /\ n <= m /\ \A i \in 1 .. n : p[i] = q[i]
      /\ Upto(L, g, p, n, f) /\ Upto(L, g, q, m, h)
  BY DEF GoesOn
<1>1. ASSUME Bad # {} PROVE FALSE
  <2>1. PICK k \in Bad : \A j \in Bad : k <= j
    BY <1>1, LeastElement
  <2>2. PICK s \in SUBSET (1 .. k) : f[s] # h[s]
    BY <2>1
  <2>3. k \in Nat /\ k <= n /\ s \in SUBSET (1 .. n) /\ s \in SUBSET (1 .. m)
    BY <1>0, <2>1
  <2>4. /\ f[s] = IF s = {} THEN <<>> ELSE Go(L, g, Append(f[s \ {Max(s)}], p[Max(s)]))
        /\ h[s] = IF s = {} THEN <<>> ELSE Go(L, g, Append(h[s \ {Max(s)}], q[Max(s)]))
    BY <1>0, <2>3 DEF Upto
  <2>5. s # {}
    BY <2>2, <2>4
  <2>6. Max(s) \in s /\ \A y \in s : y <= Max(s)
    BY <1>0, <2>3, <2>5, MaxOf
  <2>7. k - 1 \in Nat /\ k - 1 <= n /\ ~(k <= k - 1)
    <3>1. \E y \in s : y \in 1 .. k
      BY <2>5
    <3> QED
      BY <1>0, <2>3, <3>1
  <2>8. s \ {Max(s)} \in SUBSET (1 .. k - 1)
    <3>1. ASSUME NEW y \in s, y # Max(s) PROVE y \in 1 .. k - 1
      <4>1. y \in 1 .. k /\ Max(s) \in 1 .. k /\ y <= Max(s)
        BY <2>6
      <4> QED
        BY <2>3, <3>1, <4>1
    <3> QED
      BY <3>1
  <2>9. f[s \ {Max(s)}] = h[s \ {Max(s)}]
    BY <2>1, <2>7, <2>8
  <2>10. p[Max(s)] = q[Max(s)]
    BY <1>0, <2>3, <2>6
  <2> QED
    BY <2>2, <2>4, <2>5, <2>9, <2>10
<1>2. n \notin Bad
  BY <1>1
<1> QED
  BY <1>0, <1>2

\* Some fold gives where a walk ends.
LEMMA ThroughBy ==
  ASSUME NEW L, NEW g, NEW p, IsSequence(p)
  PROVE  \E f : Upto(L, g, p, Len(p), f) /\ Through(L, g, p) = f[1 .. Len(p)] /\ Len(p) \in Nat
<1>1. Len(p) \in Nat /\ DOMAIN p = 1 .. Len(p)
  BY LenProperties DEF IsSequence
<1> DEFINE n == Len(p)
           iter == CHOOSE f : f = Steps(L, g, p, f)
<1>2. \A f : f = Steps(L, g, p, f) <=> Upto(L, g, p, n, f)
  BY <1>1 DEF Steps, Upto
<1>3. \E f : f = Steps(L, g, p, f)
  BY <1>1, <1>2, FoldExists
<1>4. iter = Steps(L, g, p, iter)
  BY <1>3
<1>5. Through(L, g, p) = iter[DOMAIN p]
  BY ThroughIsAFold
<1> HIDE DEF iter
<1>6. Upto(L, g, p, n, iter)
  BY <1>2, <1>4
<1> QED
  BY <1>1, <1>5, <1>6

LEMMA ThroughRoot == ASSUME NEW L, NEW g PROVE Through(L, g, <<>>) = <<>>
<1>1. PICK f : Upto(L, g, <<>>, 0, f) /\ Through(L, g, <<>>) = f[1 .. 0]
  BY NoFrames, ThroughBy
<1> QED
  BY <1>1 DEF Upto

LEMMA LastOfAll ==
  ASSUME NEW n \in Nat
  PROVE  Max(1 .. n + 1) = n + 1 /\ (1 .. n + 1) \ {n + 1} = 1 .. n /\ 1 .. n + 1 # {}
<1>1. n + 1 \in Nat /\ n + 1 \in 1 .. n + 1
  OBVIOUS
<1>2. Max(1 .. n + 1) \in 1 .. n + 1 /\ n + 1 <= Max(1 .. n + 1)
  BY <1>1, MaxOf
<1>3. (1 .. n + 1) \ {n + 1} = 1 .. n
  OBVIOUS
<1> QED
  BY <1>1, <1>2, <1>3

\* A walk ends where its last component leads to from the parent's end.
LEMMA ThroughAppend ==
  ASSUME NEW L, NEW g, NEW p, IsSequence(p), NEW e
  PROVE  Through(L, g, Append(p, e)) = Go(L, g, Append(Through(L, g, p), e))
<1> DEFINE q == Append(p, e)
           n == Len(p)
<1>1. /\ IsSequence(q) /\ Len(q) = n + 1 /\ q[n + 1] = e
      /\ \A i \in 1 .. n : p[i] = q[i]
  BY Appended DEF IsPath
<1>2. PICK f : Upto(L, g, p, n, f) /\ Through(L, g, p) = f[1 .. n] /\ n \in Nat
  BY ThroughBy
<1> HIDE DEF q, n
<1>3. PICK h : Upto(L, g, q, n + 1, h) /\ Through(L, g, q) = h[1 .. n + 1]
  BY <1>1, ThroughBy
<1>4. Max(1 .. n + 1) = n + 1 /\ (1 .. n + 1) \ {n + 1} = 1 .. n /\ 1 .. n + 1 # {}
  BY <1>2, LastOfAll
<1>5. h[1 .. n + 1] = Go(L, g, Append(h[1 .. n], q[n + 1]))
  BY <1>3, <1>4 DEF Upto
<1>6. f[1 .. n] = h[1 .. n]
  <2>1. PICK m : m = n + 1 /\ m \in Nat /\ n <= m
    BY <1>2
  <2>2. GoesOn(L, g, p, n, f, q, m, h)
    BY <1>1, <1>2, <1>3, <2>1 DEF GoesOn
  <2> QED
    BY <2>2, FoldsAgree
<1> QED
  BY <1>1, <1>2, <1>3, <1>5, <1>6 DEF q

LEMMA ResolveRoot == ASSUME NEW t PROVE Resolve(t, <<>>) = <<>>
BY ThroughRoot DEF Resolve

\* A path names what its last component leads to from what its parent names.
LEMMA ResolveAppend ==
  ASSUME NEW t, NEW p, IsSequence(p), NEW e
  PROVE  /\ Resolve(t, Append(p, e)) = Follow(t, Append(Resolve(t, p), e))
         /\ Itself(t, Append(p, e)) = Append(Resolve(t, p), e)
<1>1. Front(Append(p, e)) = p /\ Last(Append(p, e)) = e
  BY Appended
<1> QED
  BY <1>1, ThroughAppend DEF Resolve, Follow, Itself

\* Likewise for a path that is at hand whole.
LEMMA ResolveStep ==
  ASSUME NEW t, IsTree(t), NEW p, IsPath(p)
  PROVE  /\ Resolve(t, p) = Follow(t, Itself(t, p)) /\ IsPath(Itself(t, p))
         /\ Front(Itself(t, p)) = Resolve(t, Front(p)) /\ Last(Itself(t, p)) = Last(p)
         /\ IsSequence(Front(p)) /\ IsSequence(Resolve(t, p)) /\ IsSequence(Resolve(t, Front(p)))
<1>1. p = Append(Front(p), Last(p)) /\ IsSequence(Front(p))
  BY Rejoined
<1>2. Resolve(t, p) = Follow(t, Append(Resolve(t, Front(p)), Last(p)))
  <2>1. PICK r, e : r = Front(p) /\ e = Last(p)
    OBVIOUS
  <2>2. Resolve(t, Append(r, e)) = Follow(t, Append(Resolve(t, r), e))
    BY <1>1, <2>1, ResolveAppend
  <2> QED
    BY <1>1, <2>1, <2>2
<1>3. IsSequence(Resolve(t, p)) /\ IsSequence(Resolve(t, Front(p)))
  BY <1>1, ResolveIsASequence DEF IsTree, IsPath
<1>4. /\ IsPath(Append(Resolve(t, Front(p)), Last(p)))
      /\ Front(Append(Resolve(t, Front(p)), Last(p))) = Resolve(t, Front(p))
      /\ Last(Append(Resolve(t, Front(p)), Last(p))) = Last(p)
  BY <1>3, Appended
<1> QED
  BY <1>1, <1>2, <1>3, <1>4 DEF Itself
-----------------------------------------------------------------------------
(* What a call that nothing has come between has done so far               *)

\* What a directory holds directly, and how readdir returns it.
Kids(t, d) == {q \in Entries(t) : q # <<>> /\ Front(q) = d}
AsEntry(t, q) == [name |-> Last(q), type |-> IF q \in t.dirs THEN "dir"
                                             ELSE IF q \in t.files THEN "file" ELSE "link"]
Unread(t, d) == {AsEntry(t, q) : q \in Kids(t, d)}
UnreadBut(t, d, e) == {AsEntry(t, q) : q \in Kids(t, d) \ {e}}

WithoutOne(t, e) == Without(t, {e})

\* mkdir_all has come to component n: it has made what was missing before it.
\* Once something was missing, so was everything below it.
Made(t, tr, q) ==
  /\ ~InTheWay(t, q) /\ tr = WithParents(t, q)
  /\ IF Resolve(t, q) \in t.dirs THEN tr = t ELSE Resolve(t, q) \notin Entries(t)

Making(t, tr, path, n, place) ==
  /\ place \in {"check", "mkdir"} /\ Len(path) <= MaxLen
  /\ Made(t, tr, SubSeq(path, 1, n - 1))
  /\ place = "mkdir" => ~is_dir(tr, SubSeq(path, 1, n))

\* Of tree t, something at or below the argument has gone, and it had a path
\* that fits.
Fits(t, path, q) == (Len(q) - Len(Itself(t, path))) + Len(path) <= MaxLen
PartlyGone(t, tr, path) ==
  \E gone \in SUBSET ContentsAt(t, path) :
    tr = Without(t, gone) /\ \A q \in gone : Fits(t, path, q)

\* Activation i is at a directory i - 1 levels below the argument, which is
\* still there; the one it called is at an entry that it has taken.
Activation(t, tr, path, inner, i) ==
  LET f == inner[i]  d == Resolve(tr, f.path)  top == Itself(t, path) IN
    /\ d \in tr.dirs /\ d = Itself(tr, f.path) /\ IsPrefix(top, d)
    /\ Len(d) = (Len(top) + i) - 1 /\ Len(f.path) = (Len(path) + i) - 1
    /\ IF i = 1 THEN f.path = path /\ d = top ELSE Len(f.path) <= MaxLen
    /\ i # Len(inner) =>
         \E e \in Kids(tr, d) : e = Resolve(tr, inner[i + 1].path) /\ f.left = UnreadBut(tr, d, e)

\* Where the innermost activation is in its directory.
Innermost(t, tr, path, f, kid, place) ==
  LET d == Resolve(tr, f.path) IN
    \/ place = "next" /\ f.left = Unread(tr, d)
    \/ /\ place \in {"open", "unlink"} /\ Len(kid) <= MaxLen
       /\ \E e \in Kids(tr, d) :
            /\ kid = Append(f.path, Last(e)) /\ f.left = UnreadBut(tr, d, e)
            /\ place = "open" <=> e \in tr.dirs
    \/ place = "rmdir" /\ Kids(tr, d) = {}
    \/ place = "unwind" /\ ~PathsFit(t, path)

Emptying(t, tr, path, inner, kid, place) ==
  IF inner = <<>> THEN place = "open" /\ kid = path /\ tr = t
  ELSE /\ Itself(t, path) \in t.dirs /\ PartlyGone(t, tr, path)
       /\ \A i \in 1 .. Len(inner) : Activation(t, tr, path, inner, i)
       /\ Innermost(t, tr, path, Last(inner), kid, place)

\* What a call that began at tree t has done when it has returned.
HasMade(t, tr, path, result) ==
  IF result THEN ~InTheWay(t, path) /\ tr = WithParents(t, path)
  ELSE /\ InTheWay(t, path) \/ Len(path) \notin 1 .. MaxLen
       /\ tr.files = t.files /\ tr.links = t.links
       /\ t.dirs \subseteq tr.dirs /\ tr.dirs \subseteq WithParents(t, path).dirs
HasRemoved(t, tr, path) == tr = Without(t, ContentsAt(t, path) \cup {Itself(t, path)})
HasEmptied(t, tr, path, result) ==
  IF CanRemove(t, path, TRUE) THEN result /\ HasRemoved(t, tr, path)
  ELSE ~result /\ Without(t, ContentsAt(t, path)) = Without(tr, ContentsAt(t, path))

Job(t, tr, c, n, kid, inner, result, place) ==
  /\ IsTree(t) /\ c.op \in {"mkdir_all", "remove_dir", "remove_dir_force"}
  /\ c.op = "mkdir_all" =>
       IF place = "idle" THEN HasMade(t, tr, c.path, result)
       ELSE Making(t, tr, c.path, n, place)
  /\ c.op = "remove_dir" =>
       IF place = "idle"
       THEN IF CanRemove(t, c.path, FALSE) THEN result /\ HasRemoved(t, tr, c.path)
            ELSE ~result /\ tr = t
       ELSE place = "rmdir" /\ inner = <<>> /\ tr = t
  /\ c.op = "remove_dir_force" /\ DirLinksAt(t, c.path) = {} =>
       IF place = "idle" THEN HasEmptied(t, tr, c.path, result)
       ELSE Emptying(t, tr, c.path, inner, kid, place)

JobInv ==
  /\ start = [p \in Procs |-> start[p]]
  /\ \A p \in Procs :
       start[p] # Unknown =>
         Job(start[p], tree, call[p], at[p], child[p], frames[p], ok[p], pc[p])

\* Only links tell what a path names.
LEMMA SameLinks ==
  ASSUME NEW t, NEW u, t.links = u.links, NEW p
  PROVE  Resolve(t, p) = Resolve(u, p) /\ Itself(t, p) = Itself(u, p)
BY DEF Resolve, Itself

\* The part of a path that mkdir_all has come to, component by component.
LEMMA PartsOfAPath ==
  ASSUME NEW path, IsSequence(path), NEW k \in 0 .. Len(path)
  PROVE  /\ IsSequence(SubSeq(path, 1, k)) /\ Len(SubSeq(path, 1, k)) = k
         /\ Prefixes(SubSeq(path, 1, k)) = {SubSeq(path, 1, l) : l \in 0 .. k}
         /\ k # 0 => SubSeq(path, 1, k) = Append(SubSeq(path, 1, k - 1), path[k])
         /\ k = 0 => SubSeq(path, 1, k) = <<>>
         /\ k = Len(path) => SubSeq(path, 1, k) = path
         /\ \A l \in 0 .. k : SubSeq(SubSeq(path, 1, k), 1, l) = SubSeq(path, 1, l)
<1>1. path \in Seq(Range(path)) /\ Len(path) \in Nat
  BY LenProperties DEF IsSequence
<1> DEFINE S == Range(path)
<1> HIDE DEF S
<1>2. path \in Seq(S)
  BY <1>1 DEF S
<1>3. ASSUME NEW l \in 0 .. Len(path)
      PROVE  SubSeq(path, 1, l) \in Seq(S) /\ Len(SubSeq(path, 1, l)) = l
  <2>1. 1 \in Int /\ l \in Int /\ (IF 1 <= l THEN l - 1 + 1 ELSE 0) = l /\ \A i \in 1 .. l : i \in 1 .. Len(path)
    BY <1>1
  <2>2. \A i \in 1 .. l : path[i] \in S
    BY <1>2, <2>1, ElementOfSeq
  <2> QED
    BY <2>1, <2>2, SubSeqProperties
<1>4. ASSUME NEW l \in 0 .. k PROVE SubSeq(SubSeq(path, 1, k), 1, l) = SubSeq(path, 1, l)
  <2>1. CASE l = 0
    <3>1. 0 \in Int /\ 1 \in Int /\ 0 < 1
      OBVIOUS
    <3> QED
      BY <2>1, <3>1, SubSeqEmpty
  <2>2. CASE l # 0
    <3>1. /\ 1 \in 1 .. Len(path) /\ k \in 1 .. Len(path)
          /\ 1 \in 1 .. k - 1 + 1 /\ l \in 1 .. k - 1 + 1 /\ 1 + 1 - 1 = 1 /\ 1 + l - 1 = l
      BY <1>1, <2>2
    <3>2. SubSeq(SubSeq(path, 1, k), 1, l) = SubSeq(path, 1 + 1 - 1, 1 + l - 1)
      BY ONLY <1>2, <3>1, SubSeqOfSubSeq
    <3> QED
      BY <3>1, <3>2
  <2> QED
    BY <2>1, <2>2
<1>5. Prefixes(SubSeq(path, 1, k)) = {SubSeq(path, 1, l) : l \in 0 .. k}
  <2>1. Len(SubSeq(path, 1, k)) = k
    BY <1>3
  <2>2. Prefixes(SubSeq(path, 1, k)) = {SubSeq(SubSeq(path, 1, k), 1, l) : l \in 0 .. k}
    BY <2>1 DEF Prefixes
  <2> QED
    BY <1>4, <2>2
<1>6. k # 0 => SubSeq(path, 1, k) = Append(SubSeq(path, 1, k - 1), path[k])
  <2> SUFFICES ASSUME k # 0 PROVE SubSeq(path, 1, k) = Append(SubSeq(path, 1, k - 1), path[k])
    OBVIOUS
  <2>1. 1 \in 1 .. Len(path) /\ k \in 1 .. Len(path) /\ k - 1 \in 0 .. Len(path)
    BY <1>1
  <2>2. SubSeq(path, 1, k) = SubSeq(path, 1, k - 1) \o <<path[k]>>
    BY <1>2, <2>1, SubSeqRecursiveSecond
  <2>3. SubSeq(path, 1, k - 1) \in Seq(S) /\ path[k] \in S
    BY <1>2, <1>3, <2>1, ElementOfSeq
  <2> QED
    BY <2>2, <2>3, AppendIsConcat
<1>7. k = Len(path) => SubSeq(path, 1, k) = path
  BY <1>2, SubSeqFull
<1>8. k = 0 => SubSeq(path, 1, k) = <<>>
  <2>1. 0 \in Int /\ 1 \in Int /\ 0 < 1
    OBVIOUS
  <2> QED
    BY <2>1, SubSeqEmpty
<1> QED
  BY <1>3, <1>4, <1>5, <1>6, <1>7, <1>8, IsASequence

LEMMA ParentsOf ==
  ASSUME NEW path, IsSequence(path), NEW k \in 1 .. Len(path)
  PROVE  /\ Parents(SubSeq(path, 1, k)) = Parents(SubSeq(path, 1, k - 1)) \cup {SubSeq(path, 1, k)}
         /\ Parents(SubSeq(path, 1, k)) \subseteq Parents(path)
         /\ Parents(SubSeq(path, 1, k - 1)) \subseteq Parents(path)
<1>0. Len(path) \in Nat
  BY LenProperties DEF IsSequence
<1>1. /\ k \in 0 .. Len(path) /\ k - 1 \in 0 .. Len(path) /\ Len(path) \in 0 .. Len(path)
      /\ 0 .. k = 0 .. k - 1 \cup {k} /\ 0 .. k \subseteq 0 .. Len(path)
  BY <1>0
<1>2. /\ Prefixes(SubSeq(path, 1, k)) = {SubSeq(path, 1, l) : l \in 0 .. k}
      /\ Prefixes(SubSeq(path, 1, k - 1)) = {SubSeq(path, 1, l) : l \in 0 .. k - 1}
  BY <1>1, PartsOfAPath
<1>4. Prefixes(path) = {SubSeq(path, 1, l) : l \in 0 .. Len(path)}
  BY DEF Prefixes
<1>3. SubSeq(path, 1, k) # <<>>
  <2>1. Len(SubSeq(path, 1, k)) = k /\ k # 0
    BY <1>0, <1>1, PartsOfAPath
  <2> QED
    BY <2>1, EmptySeq
<1> QED
  BY <1>1, <1>2, <1>3, <1>4 DEF Parents

LEMMA NoParents == Parents(<<>>) = {}
<1>1. Len(<<>>) = 0 /\ 0 .. 0 = {0}
  BY EmptySeq
<1>2. SubSeq(<<>>, 1, 0) = <<>>
  BY SubSeqEmpty
<1> QED
  BY <1>1, <1>2 DEF Parents, Prefixes

-----------------------------------------------------------------------------
(* mkdir_all                                                               *)

LEMMA WithParentsIs ==
  ASSUME NEW t, IsTree(t), NEW path
  PROVE  WithParents(t, path) = [dirs |-> t.dirs \cup {Resolve(t, q) : q \in Parents(path)},
                                 files |-> t.files, links |-> t.links]
<1> DEFINE more == t.dirs \cup {Resolve(t, q) : q \in Parents(path)}
<1>1. WithParents(t, path) = [t EXCEPT !.dirs = more]
  BY DEF WithParents
<1>2. t = [dirs |-> t.dirs, files |-> t.files, links |-> t.links]
  BY PartsOf
<1> HIDE DEF more
<1>3. WithParents(t, path) = [dirs |-> more, files |-> t.files, links |-> t.links]
  BY ONLY <1>1, <1>2
<1> QED
  BY <1>3 DEF more

LEMMA MadeNothing == ASSUME NEW t, IsTree(t) PROVE Made(t, t, <<>>)
<1>1. Parents(<<>>) = {} /\ Resolve(t, <<>>) = <<>>
  BY NoParents, ResolveRoot
<1>2. t = [dirs |-> t.dirs, files |-> t.files, links |-> t.links]
  BY PartsOf
<1>3. WithParents(t, <<>>) = [dirs |-> t.dirs \cup {Resolve(t, q) : q \in Parents(<<>>)},
                              files |-> t.files, links |-> t.links]
  BY WithParentsIs
<1>4. t.dirs \cup {Resolve(t, q) : q \in Parents(<<>>)} = t.dirs
  BY <1>1
<1>5. WithParents(t, <<>>) = t
  BY ONLY <1>2, <1>3, <1>4
<1>6. ~InTheWay(t, <<>>) /\ Resolve(t, <<>>) \in t.dirs
  BY <1>1 DEF InTheWay, IsTree
<1> QED
  BY <1>5, <1>6 DEF Made

\* What is known of a tree that mkdir_all has worked on.
LEMMA MadeIs ==
  ASSUME NEW t, IsTree(t), NEW tr, IsTree(tr), NEW q, IsSequence(q), Made(t, tr, q)
  PROVE  /\ tr.files = t.files /\ tr.links = t.links
         /\ tr.dirs = t.dirs \cup {Resolve(t, r) : r \in Parents(q)}
         /\ Resolve(tr, q) = Resolve(t, q) /\ Resolve(t, q) \in tr.dirs
<1>1. /\ tr.files = t.files /\ tr.links = t.links
      /\ tr.dirs = t.dirs \cup {Resolve(t, r) : r \in Parents(q)}
  <2>1. WithParents(t, q) = [dirs |-> t.dirs \cup {Resolve(t, r) : r \in Parents(q)},
                             files |-> t.files, links |-> t.links]
    BY WithParentsIs
  <2>2. tr = WithParents(t, q)
    BY DEF Made
  <2> QED
    BY ONLY <2>1, <2>2
<1>2. Resolve(tr, q) = Resolve(t, q)
  BY <1>1, SameLinks
<1>3. Resolve(t, q) \in tr.dirs
  <2>1. CASE q = <<>>
    BY <1>1, <2>1, ResolveRoot DEF IsTree
  <2>2. CASE q # <<>>
    <3>1. Len(q) \in 0 .. Len(q) /\ SubSeq(q, 1, Len(q)) = q
      BY LenProperties, SubSeqFull DEF IsSequence
    <3>2. q \in Parents(q)
      BY <2>2, <3>1 DEF Parents, Prefixes
    <3> QED
      BY <1>1, <3>2
  <2> QED
    BY <2>1, <2>2
<1> QED
  BY <1>1, <1>2, <1>3

\* One component further: it is there, it is made, or something is in the way.
LEMMA MadeFurther ==
  ASSUME NEW t, IsTree(t), NEW tr, IsTree(tr), NEW q, IsSequence(q), Made(t, tr, q),
         NEW e, NEW r, r = Append(q, e), Parents(r) = Parents(q) \cup {r}
  PROVE  /\ is_dir(tr, r) => Made(t, tr, r)
         /\ ~is_dir(tr, r) /\ CanMkdir(tr, r) => Made(t, mkdir(tr, r), r)
         /\ ~is_dir(tr, r) /\ ~CanMkdir(tr, r) => InTheWay(t, r)
<1> DEFINE D == Resolve(t, q)
           I == Itself(t, r)
           W == WithParents(t, r)
<1>1. /\ tr.files = t.files /\ tr.links = t.links /\ D \in tr.dirs
      /\ tr.dirs = t.dirs \cup {Resolve(t, s) : s \in Parents(q)}
  BY MadeIs
<1>2. /\ IsPath(r) /\ IsPath(I) /\ Front(I) = D
      /\ Resolve(t, r) = Follow(t, I) /\ Resolve(tr, r) = Resolve(t, r) /\ Itself(tr, r) = I
  <2>1. IsPath(r) /\ Resolve(t, r) = Follow(t, Append(D, e)) /\ I = Append(D, e)
    BY Appended, ResolveAppend
  <2>2. IsSequence(D)
    BY ResolveIsASequence DEF IsTree
  <2>3. IsPath(I) /\ Front(I) = D
    BY <2>1, <2>2, Appended
  <2>4. Resolve(tr, r) = Resolve(t, r) /\ Itself(tr, r) = I
    BY <1>1, <2>1, SameLinks DEF IsPath
  <2> QED
    BY <2>1, <2>3, <2>4
<1>3. W = [dirs |-> t.dirs \cup {Resolve(t, s) : s \in Parents(r)}, files |-> t.files, links |-> t.links]
  BY WithParentsIs
<1>4. InTheWay(t, r) <=> (I \in Entries(t) /\ Resolve(t, r) \notin t.dirs)
  BY DEF InTheWay, is_dir, Made
<1>5. {Resolve(t, s) : s \in Parents(r)} = {Resolve(t, s) : s \in Parents(q)} \cup {Resolve(t, r)}
  OBVIOUS
<1>6. tr = [dirs |-> tr.dirs, files |-> tr.files, links |-> tr.links]
  BY PartsOf
<1> HIDE DEF D, I, W
<1>7. I \notin Entries(t) => Resolve(t, r) = I /\ I \notin t.dirs
  BY <1>2 DEF Follow, Go, Entries
<1>8. ASSUME is_dir(tr, r) PROVE Made(t, tr, r)
  <2>1. Resolve(t, r) \in tr.dirs
    BY <1>2, <1>8 DEF is_dir
  <2>2. tr.dirs = t.dirs \cup {Resolve(t, s) : s \in Parents(r)}
    BY <1>1, <1>5, <2>1
  <2>3. tr = W
    BY ONLY <1>1, <1>3, <1>6, <2>2
  <2>4. CASE D \in t.dirs
    <3>1. tr = t
      BY <2>4 DEF Made, D
    <3> QED
      BY <1>4, <2>1, <2>3, <3>1 DEF Made, W
  <2>5. CASE D \notin t.dirs
    <3>1. I \notin Entries(t)
      BY <1>2, <2>5 DEF IsTree, IsPath
    <3> QED
      BY <1>4, <1>7, <2>3, <3>1 DEF Made, W
  <2> QED
    BY <2>4, <2>5
<1>9. ASSUME ~is_dir(tr, r), CanMkdir(tr, r) PROVE Made(t, mkdir(tr, r), r)
  <2>1. I \notin Entries(t)
    BY <1>1, <1>2, <1>9 DEF CanMkdir, Entries
  <2>2. mkdir(tr, r) = [dirs |-> tr.dirs \cup {I}, files |-> tr.files, links |-> tr.links]
    BY <1>2, <1>9, MkdirKeepsTree DEF IsPath
  <2>3. tr.dirs \cup {I} = t.dirs \cup {Resolve(t, s) : s \in Parents(r)}
    BY <1>1, <1>5, <1>7, <2>1
  <2>4. mkdir(tr, r) = W
    BY ONLY <1>1, <1>3, <2>2, <2>3
  <2> QED
    BY <1>4, <1>7, <2>1, <2>4 DEF Made, W
<1>10. ASSUME ~is_dir(tr, r), ~CanMkdir(tr, r) PROVE InTheWay(t, r)
  <2>1. Resolve(t, r) \notin tr.dirs /\ I \in Entries(tr)
    BY <1>1, <1>2, <1>10 DEF is_dir, CanMkdir
  <2>2. I \in Entries(t)
    <3>1. I \notin Entries(t) => I \notin tr.dirs
      BY <1>7, <2>1
    <3> QED
      BY <1>1, <2>1, <3>1 DEF Entries
  <2> QED
    BY <1>1, <1>4, <2>1, <2>2
<1> QED
  BY <1>8, <1>9, <1>10

LEMMA WayOfAPart ==
  ASSUME NEW t, IsTree(t), NEW path, IsSequence(path), NEW k \in 1 .. Len(path)
  PROVE  /\ InTheWay(t, SubSeq(path, 1, k)) => InTheWay(t, path)
         /\ WithParents(t, SubSeq(path, 1, k - 1)).dirs \subseteq WithParents(t, path).dirs
<1>1. /\ Parents(SubSeq(path, 1, k)) \subseteq Parents(path)
      /\ Parents(SubSeq(path, 1, k - 1)) \subseteq Parents(path)
  BY ParentsOf
<1>2. \A q : WithParents(t, q).dirs = t.dirs \cup {Resolve(t, r) : r \in Parents(q)}
  BY WithParentsIs
<1>3. InTheWay(t, SubSeq(path, 1, k)) => InTheWay(t, path)
  BY <1>1 DEF InTheWay
<1>4. {Resolve(t, r) : r \in Parents(SubSeq(path, 1, k - 1))} \subseteq {Resolve(t, r) : r \in Parents(path)}
  BY <1>1
<1> QED
  BY <1>2, <1>3, <1>4

-----------------------------------------------------------------------------
(* One process moves; whether another one's call stays undisturbed depends *)
(* on whether the tree changes.                                            *)

JobOf(p) == start[p] # Unknown =>
              Job(start[p], tree, call[p], at[p], child[p], frames[p], ok[p], pc[p])

Others(p) ==
  /\ start' = [q \in Procs |-> start'[q]]
  /\ \A q \in Procs \ {p} :
       /\ pc'[q] = pc[q] /\ call'[q] = call[q] /\ at'[q] = at[q] /\ child'[q] = child[q]
       /\ frames'[q] = frames[q] /\ ok'[q] = ok[q]
       /\ start'[q] = Unknown \/ (start'[q] = start[q] /\ tree' = tree)

LEMMA OneJob == ASSUME JobInv, NEW p \in Procs, Others(p), JobOf(p)' PROVE JobInv'
<1>1. ASSUME NEW q \in Procs \ {p} PROVE JobOf(q)'
  <2>1. JobOf(q)
    BY DEF JobInv, JobOf
  <2>2. CASE start'[q] = Unknown
    BY <2>2 DEF JobOf
  <2>3. CASE start'[q] = start[q] /\ tree' = tree
    BY <2>1, <2>3 DEF JobOf, Others
  <2> QED
    BY <2>2, <2>3 DEF Others
<1>2. ASSUME NEW q \in Procs PROVE JobOf(q)'
  BY <1>1
<1> QED
  BY <1>2 DEF JobInv, JobOf, Others

LEMMA Functions ==
  ASSUME TreeInv, TypesInv, JobInv
  PROVE  /\ DOMAIN pc = Procs /\ DOMAIN frames = Procs /\ DOMAIN call = Procs /\ DOMAIN at = Procs
         /\ DOMAIN child = Procs /\ DOMAIN ok = Procs /\ DOMAIN start = Procs
         /\ start = [q \in Procs |-> start[q]]
<1>1. pc = [p \in Procs |-> pc[p]] /\ frames = [p \in Procs |-> frames[p]]
  BY DEF TreeInv
<1>2. /\ call = [p \in Procs |-> call[p]] /\ at = [p \in Procs |-> at[p]]
      /\ child = [p \in Procs |-> child[p]] /\ ok \in [Procs -> BOOLEAN]
  BY DEF TypesInv
<1>3. start = [p \in Procs |-> start[p]]
  BY DEF JobInv
<1> QED
  BY <1>1, <1>2, <1>3

LEMMA Replaced ==
  ASSUME DOMAIN start = Procs, start = [q \in Procs |-> start[q]], NEW p \in Procs,
         \/ \E t : Replace(p, t)
         \/ UNCHANGED <<tree, start>>
         \/ UNCHANGED tree /\ Fault(p)
         \/ UNCHANGED tree /\ start' = [start EXCEPT ![p] = tree]
  PROVE  /\ start' = [q \in Procs |-> start'[q]]
         /\ \A q \in Procs \ {p} : start'[q] = Unknown \/ (start'[q] = start[q] /\ tree' = tree)
<1>1. CASE \E t : Replace(p, t)
  BY <1>1 DEF Replace
<1>2. CASE UNCHANGED <<tree, start>>
  BY <1>2
<1>3. CASE UNCHANGED tree /\ Fault(p)
  BY <1>3 DEF Fault
<1>4. CASE UNCHANGED tree /\ start' = [start EXCEPT ![p] = tree]
  BY <1>4
<1> QED
  BY <1>1, <1>2, <1>3, <1>4

LEMMA OthersWait ==
  ASSUME TreeInv, TypesInv, JobInv, NEW p \in Procs,
         \/ \E path \in MkdirPaths : mkdir_all(p, path)
         \/ \E path \in RemovePaths, force \in BOOLEAN : remove_dir(p, path, force)
         \/ InCall(p) \/ open_dir_fault(p) \/ read_dir_fault(p)
  PROVE  Others(p)
<1> DEFINE Same == \A q \in Procs \ {p} :
             /\ pc'[q] = pc[q] /\ call'[q] = call[q] /\ at'[q] = at[q] /\ child'[q] = child[q]
             /\ frames'[q] = frames[q] /\ ok'[q] = ok[q]
           Known == \/ \E t : Replace(p, t)
                    \/ UNCHANGED <<tree, start>>
                    \/ UNCHANGED tree /\ Fault(p)
                    \/ UNCHANGED tree /\ start' = [start EXCEPT ![p] = tree]
<1>0. /\ DOMAIN pc = Procs /\ DOMAIN frames = Procs /\ DOMAIN call = Procs /\ DOMAIN at = Procs
      /\ DOMAIN child = Procs /\ DOMAIN ok = Procs /\ DOMAIN start = Procs
      /\ start = [q \in Procs |-> start[q]]
  BY Functions
<1>1. SUFFICES Same /\ Known
  BY <1>0, Replaced DEF Others
<1>2. CASE \E path \in MkdirPaths : mkdir_all(p, path)
  BY <1>0, <1>2 DEF mkdir_all, Begin, Goto, Return
<1>3. CASE \E path \in RemovePaths, force \in BOOLEAN : remove_dir(p, path, force)
  BY <1>0, <1>3 DEF remove_dir, Begin, Goto
<1>4. CASE check(p) \/ make(p)
  <2>1. Same
    BY <1>0, <1>4 DEF check, make, NextComponent, Goto, Return
  <2>2. Known
    BY <1>4 DEF check, make
  <2> QED
    BY <2>1, <2>2
<1>5. CASE open_dir(p) \/ open_dir_fault(p)
  <2>1. Same
    BY <1>0, <1>5 DEF open_dir, open_dir_fault, FailToOpen, Goto, Return
  <2>2. Known
    BY <1>5 DEF open_dir, open_dir_fault
  <2> QED
    BY <2>1, <2>2
<1>6. CASE next_dir(p)
  BY <1>0, <1>6 DEF next_dir, Goto
<1>7. CASE end_of_dir(p) \/ read_dir_fault(p)
  BY <1>0, <1>7 DEF end_of_dir, read_dir_fault, Goto
<1>8. CASE remove_file(p)
  BY <1>0, <1>8 DEF remove_file, Goto
<1>9. CASE remove_empty(p) \/ unwind(p)
  <2>1. Same
    BY <1>0, <1>9 DEF remove_empty, unwind, Leave, Goto, Return
  <2>2. Known
    BY <1>9 DEF remove_empty, unwind
  <2> QED
    BY <2>1, <2>2
<1> QED
  BY <1>2, <1>3, <1>4, <1>5, <1>6, <1>7, <1>8, <1>9 DEF InCall

-----------------------------------------------------------------------------
(* The job of mkdir_all                                                    *)

LEMMA MkdirAllJob ==
  ASSUME TreeInv, TypesInv, JobInv, NEW p \in Procs, NEW path \in MkdirPaths, mkdir_all(p, path)
  PROVE  JobOf(p)'
<1>1. /\ start'[p] = tree /\ tree' = tree /\ IsTree(tree) /\ IsSequence(path)
      /\ call'[p].op = "mkdir_all" /\ call'[p].path = path
  BY Functions, FsTreeAssumption DEF mkdir_all, Begin, TypesInv
<1>2. CASE Len(path) \in 1 .. MaxLen
  <2>1. pc'[p] = "check" /\ at'[p] = 1
    BY <1>2, Functions DEF mkdir_all, Goto
  <2>2. SubSeq(path, 1, 1 - 1) = <<>> /\ Len(path) <= MaxLen
    <3>1. 0 \in 0 .. Len(path) /\ 1 - 1 = 0 /\ Len(path) <= MaxLen
      BY <1>2
    <3> QED
      BY <1>1, <3>1, PartsOfAPath
  <2>3. Making(tree, tree, path, 1, "check")
    BY <1>1, <2>2, MadeNothing DEF Making
  <2> QED
    BY <1>1, <2>1, <2>3 DEF JobOf, Job
<1>3. CASE Len(path) \notin 1 .. MaxLen
  <2>1. pc'[p] = "idle" /\ ok'[p] = FALSE
    BY <1>3, Functions DEF mkdir_all, Return, Goto
  <2>2. tree.dirs \subseteq WithParents(tree, path).dirs
    <3>1. WithParents(tree, path) = [dirs |-> tree.dirs \cup {Resolve(tree, q) : q \in Parents(path)},
                                     files |-> tree.files, links |-> tree.links]
      BY <1>1, WithParentsIs
    <3> QED
      BY <3>1
  <2>3. HasMade(tree, tree, path, FALSE)
    BY <1>3, <2>2 DEF HasMade
  <2> QED
    BY <1>1, <2>1, <2>3 DEF JobOf, Job
<1> QED
  BY <1>2, <1>3

\* Of an undisturbed mkdir_all that has done its component, what follows.
LEMMA MadeNext ==
  ASSUME TreeInv, TypesInv, JobInv, NEW p \in Procs, NextComponent(p), NEW t,
         call[p].op = "mkdir_all", IsTree(t), Len(call[p].path) <= MaxLen, at[p] \in 1 .. Len(call[p].path),
         Made(t, tree', tmp(p)), IsSequence(call[p].path)
  PROVE  Job(t, tree', call[p], at'[p], child[p], frames[p], ok'[p], pc'[p])
<1> DEFINE path == call[p].path
           n == at[p]
<1>1. n \in 0 .. Len(path) /\ Len(path) \in 0 .. Len(path) /\ (n + 1) - 1 = n
  BY LenProperties DEF IsSequence
<1>2. CASE n = Len(path)
  <2>1. pc'[p] = "idle" /\ ok'[p] = TRUE
    BY <1>2, Functions DEF NextComponent, Return, Goto
  <2>2. tmp(p) = path
    BY <1>1, <1>2, PartsOfAPath DEF tmp
  <2>3. HasMade(t, tree', path, TRUE)
    BY <2>2 DEF HasMade, Made
  <2> QED
    BY <2>1, <2>3 DEF Job
<1>3. CASE n # Len(path)
  <2>1. pc'[p] = "check" /\ at'[p] = n + 1
    BY <1>3, Functions DEF NextComponent, Goto
  <2>2. Made(t, tree', SubSeq(path, 1, (n + 1) - 1))
    BY <1>1 DEF tmp
  <2>3. Making(t, tree', path, n + 1, "check")
    BY <2>2 DEF Making
  <2> QED
    BY <2>1, <2>3 DEF Job
<1> QED
  BY <1>2, <1>3

LEMMA MakingJob ==
  ASSUME TreeInv, TypesInv, JobInv, NEW p \in Procs, check(p) \/ make(p)
  PROVE  JobOf(p)'
<1>1. /\ start'[p] = start[p] /\ call'[p] = call[p] /\ child'[p] = child[p] /\ frames'[p] = frames[p]
      /\ pc[p] \in {"check", "mkdir"}
  BY Functions DEF check, make, Replace
<1> SUFFICES ASSUME start[p] # Unknown
             PROVE  Job(start[p], tree', call[p], at'[p], child[p], frames[p], ok'[p], pc'[p])
  BY <1>1 DEF JobOf
<1> DEFINE t == start[p]
           path == call[p].path
           n == at[p]
           q == SubSeq(path, 1, n - 1)
           r == tmp(p)
<1>2. Job(t, tree, call[p], n, child[p], frames[p], ok[p], pc[p])
  BY DEF JobInv
<1>3. IsTree(t) /\ call[p].op \in {"mkdir_all", "remove_dir", "remove_dir_force"}
  BY <1>2 DEF Job
<1>4. CASE call[p].op = "mkdir_all"
  <2>1. Making(t, tree, path, n, pc[p])
    BY <1>1, <1>2, <1>4 DEF Job
  <2>2. /\ IsSequence(path) /\ n \in 1 .. Len(path) /\ IsTree(tree) /\ Len(path) \in Nat
        /\ n \in 0 .. Len(path) /\ n - 1 \in 0 .. Len(path) /\ n # 0
    <3>1. IsSequence(path) /\ n \in 0 .. Len(path) /\ n # 0 /\ IsTree(tree)
      BY <1>1, Steady DEF Holds
    <3>2. Len(path) \in Nat
      BY <3>1, LenProperties DEF IsSequence
    <3> QED
      BY <3>1, <3>2
  <2>3. IsSequence(q) /\ r = Append(q, path[n]) /\ Parents(r) = Parents(q) \cup {r}
    BY <2>2, PartsOfAPath, ParentsOf DEF tmp
  <2>4. Made(t, tree, q) /\ Len(path) <= MaxLen /\ (pc[p] = "mkdir" => ~is_dir(tree, r))
    BY <2>1 DEF Making, tmp
  <2> HIDE DEF q, r
  <2>5. /\ is_dir(tree, r) => Made(t, tree, r)
        /\ ~is_dir(tree, r) /\ CanMkdir(tree, r) => Made(t, mkdir(tree, r), r)
        /\ ~is_dir(tree, r) /\ ~CanMkdir(tree, r) => InTheWay(t, r)
    BY <1>3, <2>2, <2>3, <2>4, MadeFurther
  <2>6. CASE Made(t, tree', r) /\ NextComponent(p)
    BY <1>3, <1>4, <2>2, <2>4, <2>6, MadeNext DEF r
  <2>7. CASE check(p) /\ ~is_dir(tree, r)
    <3>1. pc'[p] = "mkdir" /\ at'[p] = n /\ tree' = tree
      BY <2>7, Functions DEF check, Goto, r
    <3>2. Making(t, tree, path, n, "mkdir")
      BY <2>4, <2>7 DEF Making, q, r, tmp
    <3> QED
      BY <1>3, <1>4, <3>1, <3>2 DEF Job
  <2>8. CASE make(p) /\ ~CanMkdir(tree, r)
    <3>1. pc'[p] = "idle" /\ ok'[p] = FALSE /\ tree' = tree
      BY <2>8, Functions DEF make, Return, Goto, r
    <3>2. pc[p] = "mkdir"
      BY <2>8 DEF make
    <3>3. InTheWay(t, path)
      <4>1. InTheWay(t, r)
        BY <2>4, <2>5, <2>8, <3>2
      <4> QED
        BY <1>3, <2>2, <4>1, WayOfAPart DEF r, tmp
    <3>4. /\ tree.files = t.files /\ tree.links = t.links /\ t.dirs \subseteq tree.dirs
      BY <1>3, <2>2, <2>3, <2>4, MadeIs
    <3>5. tree.dirs \subseteq WithParents(t, path).dirs
      <4>1. tree = WithParents(t, q)
        BY <2>4 DEF Made
      <4> QED
        BY <1>3, <2>2, <4>1, WayOfAPart DEF q
    <3>6. HasMade(t, tree, path, FALSE)
      BY <3>3, <3>4, <3>5 DEF HasMade
    <3> QED
      BY <1>3, <1>4, <3>1, <3>6 DEF Job
  <2>9. CASE check(p) /\ is_dir(tree, r)
    <3>1. NextComponent(p) /\ tree' = tree
      BY <2>9 DEF check, r
    <3> QED
      BY <2>5, <2>6, <2>9, <3>1
  <2>10. CASE make(p) /\ CanMkdir(tree, r)
    <3>1. NextComponent(p) /\ tree' = mkdir(tree, r) /\ pc[p] = "mkdir"
      BY <2>10 DEF make, Replace, r
    <3> QED
      BY <2>4, <2>5, <2>6, <2>10, <3>1
  <2> QED
    BY <2>7, <2>8, <2>9, <2>10
<1>5. CASE call[p].op = "remove_dir"
  BY <1>1, <1>2, <1>5 DEF Job
<1>6. CASE call[p].op = "remove_dir_force"
  <2>1. DirLinksAt(t, path) # {}
    BY <1>1, <1>2, <1>6 DEF Job, Emptying, Innermost
  <2> QED
    BY <1>3, <1>6, <2>1 DEF Job
<1> QED
  BY <1>3, <1>4, <1>5, <1>6

-----------------------------------------------------------------------------
(* What is in a directory, and a tree that something has gone from         *)

LEMMA Ancestors ==
  ASSUME NEW a, IsSequence(a), NEW e, IsPath(e), Len(a) < Len(e)
  PROVE  IsPrefix(a, e) <=> IsPrefix(a, Front(e))
<1>1. /\ Len(Front(e)) = Len(e) - 1 /\ Len(e) \in Nat \ {0} /\ Len(a) \in Nat
      /\ Front(e) = SubSeq(e, 1, Len(e) - 1) /\ IsSequence(e)
  BY Rejoined, LenProperties DEF IsPath, IsSequence, Front
<1>2. Len(e) - 1 \in 0 .. Len(e) /\ Len(a) \in 0 .. Len(e) - 1
  BY <1>1
<1>3. SubSeq(SubSeq(e, 1, Len(e) - 1), 1, Len(a)) = SubSeq(e, 1, Len(a))
  BY <1>1, <1>2, PartsOfAPath
<1>4. Len(a) <= Len(e) /\ Len(a) <= Len(Front(e))
  BY <1>1, <1>2
<1> QED
  BY <1>1, <1>3, <1>4 DEF IsPrefix

LEMMA KidIs ==
  ASSUME NEW t, IsTree(t), NEW d, IsSequence(d), NEW e \in Kids(t, d)
  PROVE  /\ IsPath(e) /\ e \in Entries(t) /\ Front(e) = d /\ e = Append(d, Last(e))
         /\ Len(d) \in Nat /\ Len(e) = Len(d) + 1 /\ e \in Below(t, d) /\ d \in t.dirs
<1>1. IsPath(e) /\ e \in Entries(t) /\ Front(e) = d /\ e # <<>>
  BY DEF Kids, IsTree, IsPath
<1>2. e = Append(d, Last(e)) /\ Len(d) = Len(e) - 1 /\ Len(e) \in Nat \ {0}
  BY <1>1, Rejoined
<1>3. e \in Below(t, d)
  BY <1>1, InsideIsBelow
<1>4. d \in t.dirs
  BY <1>1 DEF IsTree
<1> QED
  BY <1>1, <1>2, <1>3, <1>4

LEMMA ListingIs ==
  ASSUME NEW t, IsTree(t), NEW d, IsSequence(d)
  PROVE  Listing(t, d) = Unread(t, d)
<1>1. ASSUME NEW q, q \in Below(t, d), Len(q) = Len(d) + 1 PROVE q \in Kids(t, d)
  <2>1. IsSequence(q) /\ q \in Entries(t) /\ IsPrefix(d, q) /\ Len(d) \in Nat
    BY <1>1, LenProperties DEF Below, IsTree, IsSequence
  <2>2. q # <<>>
    <3>1. Len(q) # 0
      BY <1>1, <2>1
    <3> QED
      BY <3>1, EmptySeq
  <2>3. Len(q) - 1 = Len(d)
    BY <1>1, <2>1
  <2>4. Front(q) = SubSeq(d, 1, Len(d))
    BY <2>1, <2>3 DEF Front, IsPrefix
  <2>5. Front(q) = d
    BY <2>4, SubSeqFull DEF IsSequence
  <2> QED
    BY <2>1, <2>2, <2>5 DEF Kids
<1>2. {q \in Below(t, d) : Len(q) = Len(d) + 1} = Kids(t, d)
  BY <1>1, KidIs
<1> QED
  BY <1>2 DEF Listing, Unread, AsEntry

\* No two entries of a directory have one name.
LEMMA TakesOne ==
  ASSUME NEW t, IsTree(t), NEW d, IsSequence(d), NEW entry \in Unread(t, d)
  PROVE  \E e \in Kids(t, d) : entry = AsEntry(t, e) /\ Unread(t, d) \ {entry} = UnreadBut(t, d, e)
<1>1. PICK e \in Kids(t, d) : entry = AsEntry(t, e)
  BY DEF Unread
<1>2. ASSUME NEW q \in Kids(t, d), AsEntry(t, q) = entry PROVE q = e
  <2>1. Last(q) = Last(e)
    BY <1>1, <1>2 DEF AsEntry
  <2>2. q = Append(d, Last(q)) /\ e = Append(d, Last(e))
    BY KidIs
  <2> QED
    BY <2>1, <2>2
<1>3. Unread(t, d) \ {entry} = UnreadBut(t, d, e)
  BY <1>1, <1>2 DEF Unread, UnreadBut
<1> QED
  BY <1>1, <1>3

\* A directory that holds nothing directly holds nothing.
LEMMA NothingBelow ==
  ASSUME NEW t, IsTree(t), NEW d, IsSequence(d), Kids(t, d) = {}
  PROVE  Below(t, d) = {}
<1> DEFINE T == {Len(q) : q \in Below(t, d)}
<1>1. ASSUME NEW q \in Below(t, d) PROVE IsPath(q) /\ Len(q) \in Nat /\ Len(d) < Len(q)
  <2>1. IsSequence(q) /\ q # d /\ IsPrefix(d, q) /\ Len(q) \in Nat /\ Len(d) \in Nat
    BY LenProperties DEF Below, IsTree, IsSequence
  <2>2. Len(q) # Len(d)
    <3>1. SubSeq(d, 1, Len(d)) = d /\ SubSeq(q, 1, Len(q)) = q
      BY <2>1, SubSeqFull DEF IsSequence
    <3> QED
      BY <2>1, <3>1 DEF IsPrefix
  <2>3. Len(d) < Len(q)
    BY <2>1, <2>2 DEF IsPrefix
  <2>4. q # <<>>
    <3>1. Len(q) # 0
      BY <2>1, <2>3
    <3> QED
      BY <3>1, EmptySeq
  <2> QED
    BY <2>1, <2>3, <2>4 DEF IsPath
<1>2. SUFFICES ASSUME T # {} PROVE FALSE
  OBVIOUS
<1>3. T \subseteq Nat
  BY <1>1
<1>4. PICK n \in T : \A m \in T : n <= m
  BY <1>2, <1>3, LeastElement
<1>5. PICK q \in Below(t, d) : n = Len(q)
  BY <1>4
<1>6. IsPath(q) /\ q \in Entries(t) /\ Front(q) \in t.dirs /\ q # <<>>
  BY <1>1 DEF Below, IsTree, IsPath
<1>7. Front(q) # d
  BY <1>6 DEF Kids
<1>8. IsPrefix(d, Front(q))
  BY <1>1, <1>6, Ancestors DEF Below
<1>9. Front(q) \in Below(t, d)
  BY <1>6, <1>7, <1>8 DEF Below, Entries
<1>10. Len(Front(q)) = n - 1 /\ n \in Nat
  BY <1>5, <1>6, Rejoined
<1>11. n - 1 \in T /\ ~(n <= n - 1)
  BY <1>9, <1>10
<1> QED
  BY <1>4, <1>11

LEMMA WithoutIs ==
  ASSUME NEW t, NEW gone
  PROVE  LET u == Without(t, gone) IN
           /\ u.dirs = t.dirs \ gone /\ u.files = t.files \ gone
           /\ DOMAIN u.links = DOMAIN t.links \ gone
           /\ \A q \in DOMAIN u.links : u.links[q] = t.links[q]
           /\ Entries(u) = Entries(t) \ gone
BY DEF Without, Entries

LEMMA WithoutTwice ==
  ASSUME NEW t, NEW gone, NEW more
  PROVE  Without(Without(t, gone), more) = Without(t, gone \cup more)
BY DEF Without

LEMMA WithoutNothing == ASSUME NEW t, IsTree(t) PROVE Without(t, {}) = t
<1>1. /\ t.dirs \ {} = t.dirs /\ t.files \ {} = t.files /\ DOMAIN t.links \ {} = DOMAIN t.links
  OBVIOUS
<1> QED
  BY <1>1 DEF Without, IsTree

LEMMA KidsLess ==
  ASSUME NEW tr, NEW e, NEW d, NEW q
  PROVE  q \in Kids(WithoutOne(tr, e), d) <=> q \in Kids(tr, d) /\ q # e
<1> DEFINE u == WithoutOne(tr, e)
<1>1. Entries(u) = Entries(tr) \ {e}
  BY WithoutIs DEF WithoutOne
<1> HIDE DEF u
<1>2. q \in Kids(u, d) <=> q \in Kids(tr, d) /\ q # e
  BY <1>1 DEF Kids
<1> QED
  BY <1>2 DEF u

LEMMA ReadAsBefore ==
  ASSUME NEW tr, NEW e, NEW q, q # e
  PROVE  AsEntry(WithoutOne(tr, e), q) = AsEntry(tr, q)
<1> DEFINE u == WithoutOne(tr, e)
<1>1. u.dirs = tr.dirs \ {e} /\ u.files = tr.files \ {e}
  BY WithoutIs DEF WithoutOne
<1> HIDE DEF u
<1>2. AsEntry(u, q) = AsEntry(tr, q)
  BY <1>1 DEF AsEntry
<1> QED
  BY <1>2 DEF u

LEMMA UnreadLess ==
  ASSUME NEW tr, NEW e, NEW d
  PROVE  Unread(WithoutOne(tr, e), d) = UnreadBut(tr, d, e)
<1> DEFINE u == WithoutOne(tr, e)
<1>1. Kids(u, d) = Kids(tr, d) \ {e}
  BY KidsLess
<1>2. \A q \in Kids(tr, d) \ {e} : AsEntry(u, q) = AsEntry(tr, q)
  BY ReadAsBefore
<1> QED
  BY <1>1, <1>2 DEF Unread, UnreadBut

LEMMA UnreadKept ==
  ASSUME NEW tr, NEW e, NEW d, e \notin Kids(tr, d), NEW k
  PROVE  UnreadBut(WithoutOne(tr, e), d, k) = UnreadBut(tr, d, k)
<1> DEFINE u == WithoutOne(tr, e)
<1>1. Kids(u, d) \ {k} = Kids(tr, d) \ {k}
  BY KidsLess
<1>2. \A q \in Kids(tr, d) \ {k} : AsEntry(u, q) = AsEntry(tr, q)
  BY ReadAsBefore
<1> QED
  BY <1>1, <1>2 DEF UnreadBut

\* Links that lead into the directories of D under g lead to the same ones
\* under h, and each of these is reached through directories only.
Agrees(L, g, K, h, D) ==
  /\ \A q \in L : IsSequence(g[q])
  /\ \A q \in D \cup L : q # <<>> => Front(q) \in D
  /\ D \cap K = {}
  /\ \A q \in L : g[q] \in D => q \in K /\ h[q] = g[q]

LEMMA SameWalk ==
  ASSUME NEW L, NEW g, NEW K, NEW h, NEW D, Agrees(L, g, K, h, D),
         NEW p, IsSequence(p), Through(L, g, p) \in D
  PROVE  Through(K, h, p) = Through(L, g, p)
<1> DEFINE Bad == {n \in Nat : \E q : /\ IsSequence(q) /\ Len(q) = n /\ Through(L, g, q) \in D
                                    /\ Through(K, h, q) # Through(L, g, q)}
<1>1. ASSUME Bad # {} PROVE FALSE
  <2>1. PICK n \in Bad : \A m \in Bad : n <= m
    <3>1. Bad \subseteq Nat
      OBVIOUS
    <3> QED
      BY <1>1, <3>1, LeastElement
  <2>2. PICK q : /\ IsSequence(q) /\ Len(q) = n /\ Through(L, g, q) \in D
                 /\ Through(K, h, q) # Through(L, g, q)
    BY <2>1
  <2>3. q # <<>>
    BY <2>2, ThroughRoot
  <2>4. PICK r, l : q = Append(r, l) /\ IsSequence(r) /\ Len(r) = n - 1 /\ n \in Nat \ {0}
    BY <2>2, <2>3, Rejoined DEF IsPath
  <2>5. PICK d : d = Through(L, g, r) /\ IsSequence(d)
    BY <2>4, ThroughIsASequence DEF Agrees
  <2>6. PICK i : i = Append(d, l) /\ i # <<>> /\ Front(i) = d
    BY <2>5, Appended DEF IsPath
  <2>7. Through(L, g, q) = Go(L, g, i) /\ Through(K, h, q) = Go(K, h, Append(Through(K, h, r), l))
    BY <2>4, <2>5, <2>6, ThroughAppend
  <2>8. i \in D \cup L
    BY <2>2, <2>7 DEF Go
  <2>9. d \in D
    BY <2>6, <2>8 DEF Agrees
  <2>10. Through(K, h, r) = d
    <3>1. n - 1 \in Nat /\ ~(n <= n - 1)
      BY <2>4
    <3>2. n - 1 \notin Bad
      BY <2>1, <3>1
    <3> QED
      BY <2>4, <2>5, <2>9, <3>1, <3>2
  <2>11. Go(K, h, i) = Go(L, g, i)
    BY <2>2, <2>7, <2>8 DEF Go, Agrees
  <2> QED
    BY <2>2, <2>6, <2>7, <2>10, <2>11
<1>2. Len(p) \in Nat
  BY LenProperties DEF IsSequence
<1> QED
  BY <1>1, <1>2

LEMMA EndingIs ==
  ASSUME NEW links, NEW k \in Nat, NEW e, Ending(links, k, e), NEW n \in 0 .. k, NEW q \in DOMAIN links
  PROVE  e[n][q] = IF n = 0 THEN q ELSE Through(DOMAIN links, e[n - 1], links[q])
BY DEF Ending

\* A link that leads to a directory n deep leads there at any greater depth.
LEMMA OneMoreIsTheSame ==
  ASSUME NEW t, IsTree(t), NEW k \in Nat, NEW e, Ending(t.links, k, e)
  PROVE  \A n \in Nat : n < k => \A q \in DOMAIN t.links : e[n][q] \in t.dirs => e[n + 1][q] = e[n][q]
<1> DEFINE L == DOMAIN t.links
           Bad == {n \in Nat : n < k /\ \E q \in L : e[n][q] \in t.dirs /\ e[n + 1][q] # e[n][q]}
<1>1. ASSUME Bad # {} PROVE FALSE
  <2>1. PICK n \in Bad : \A m \in Bad : n <= m
    <3>1. Bad \subseteq Nat
      OBVIOUS
    <3> QED
      BY <1>1, <3>1, LeastElement
  <2>2. PICK q \in L : e[n][q] \in t.dirs /\ e[n + 1][q] # e[n][q]
    BY <2>1
  <2>3. n \in 0 .. k /\ n + 1 \in 0 .. k /\ n + 1 # 0 /\ (n + 1) - 1 = n /\ n \in Nat
    BY <2>1
  <2>4. /\ e[n][q] = IF n = 0 THEN q ELSE Through(L, e[n - 1], t.links[q])
        /\ e[n + 1][q] = Through(L, e[n], t.links[q])
    BY <2>3, EndingIs
  <2>5. t.dirs \cap L = {}
    BY DEF IsTree
  <2>6. n # 0
    BY <2>2, <2>4, <2>5
  <2>7. n - 1 \in Nat /\ n - 1 < k /\ ~(n <= n - 1) /\ (n - 1) + 1 = n /\ n - 1 \in 0 .. k
    BY <2>1, <2>3, <2>6
  <2>8. \A r \in L : e[n - 1][r] \in t.dirs => e[n][r] = e[n - 1][r]
    <3>1. n - 1 \notin Bad
      BY <2>1, <2>7
    <3> QED
      BY <2>7, <3>1
  <2>9. PICK g, h : g = e[n - 1] /\ h = e[n]
    OBVIOUS
  <2>10. Agrees(L, g, L, h, t.dirs)
    <3>1. \A r \in L : IsSequence(g[r])
      <4>1. \A r \in DOMAIN t.links : IsSequence(r) /\ IsSequence(t.links[r])
        BY DEF IsTree, Entries
      <4>2. PICK links : links = t.links
        OBVIOUS
      <4>3. \A m \in 0 .. k : \A r \in DOMAIN links : IsSequence(e[m][r])
        BY <4>1, <4>2, EndingIsSequences
      <4> QED
        BY <2>7, <2>9, <4>2, <4>3
    <3>2. \A r \in t.dirs \cup L : r # <<>> => Front(r) \in t.dirs
      BY DEF IsTree, Entries
    <3> QED
      BY <2>5, <2>8, <2>9, <3>1, <3>2 DEF Agrees
  <2>11. IsSequence(t.links[q])
    BY DEF IsTree
  <2>12. Through(L, h, t.links[q]) = Through(L, g, t.links[q])
    BY <2>2, <2>4, <2>6, <2>9, <2>10, <2>11, SameWalk
  <2> QED
    BY <2>2, <2>4, <2>6, <2>9, <2>12
<1> QED
  BY <1>1

LEMMA DeeperIsTheSame ==
  ASSUME NEW t, IsTree(t), NEW k \in Nat, NEW e, Ending(t.links, k, e)
  PROVE  \A n \in 0 .. k : \A q \in DOMAIN t.links : e[n][q] \in t.dirs => e[k][q] = e[n][q]
<1> DEFINE L == DOMAIN t.links
           Bad == {j \in 0 .. k : \E q \in L : e[k - j][q] \in t.dirs /\ e[k][q] # e[k - j][q]}
<1> HIDE DEF L
<1>1. ASSUME Bad # {} PROVE FALSE
  <2>1. PICK j \in Bad : \A m \in Bad : j <= m
    <3>1. Bad \subseteq Nat
      OBVIOUS
    <3> QED
      BY <1>1, <3>1, LeastElement
  <2>2. PICK q \in L : e[k - j][q] \in t.dirs /\ e[k][q] # e[k - j][q]
    BY <2>1
  <2>3. PICK n : n = k - j /\ n \in 0 .. k
    BY <2>1
  <2>4. j # 0
    <3>1. j = 0 => k - j = k
      OBVIOUS
    <3> QED
      BY <2>2, <3>1
  <2>5. /\ j - 1 \in 0 .. k /\ ~(j <= j - 1) /\ k - (j - 1) = n + 1 /\ n \in Nat /\ n < k
    BY <2>1, <2>3, <2>4
  <2>6. e[n + 1][q] = e[n][q]
    BY <2>2, <2>3, <2>5, OneMoreIsTheSame DEF L
  <2>7. j - 1 \notin Bad
    BY <2>1, <2>5
  <2>8. e[n + 1][q] \in t.dirs => e[k][q] = e[n + 1][q]
    BY <2>5, <2>7
  <2> QED
    BY <2>2, <2>3, <2>6, <2>8
<1>2. ASSUME NEW n \in 0 .. k PROVE k - n \in 0 .. k /\ k - (k - n) = n
  OBVIOUS
<1>3. ASSUME NEW n \in 0 .. k, NEW q \in L, e[n][q] \in t.dirs PROVE e[k][q] = e[n][q]
  <2>1. PICK j : j = k - n /\ j \in 0 .. k /\ k - j = n
    BY <1>2
  <2>2. j \notin Bad
    BY <1>1
  <2> QED
    BY <1>3, <2>1, <2>2
<1> QED
  BY <1>3 DEF L

\* The links of t that lead to a directory are in u as well.
KeepsWays(t, u) ==
  /\ t.dirs \cap DOMAIN u.links = {}
  /\ \A q \in DOMAIN t.links :
       Follow(t, q) \in t.dirs => q \in DOMAIN u.links /\ u.links[q] = t.links[q]

LEMMA EndsTheSame ==
  ASSUME NEW t, IsTree(t), NEW u, KeepsWays(t, u)
  PROVE  Agrees(DOMAIN t.links, Ends(t.links), DOMAIN u.links, Ends(u.links), t.dirs)
<1> DEFINE L == DOMAIN t.links
           K == DOMAIN u.links
<1>1. PICK e : Ending(t.links, MaxLinks, e) /\ Ends(t.links) = e[MaxLinks]
  BY EndsBy
<1>2. PICK h : Ending(u.links, MaxLinks, h) /\ Ends(u.links) = h[MaxLinks]
  BY EndsBy
<1>3. MaxLinks \in Nat /\ MaxLinks \in 0 .. MaxLinks
  BY FsTreeAssumption
<1>4. ASSUME NEW n \in 0 .. MaxLinks, NEW q \in L, e[n][q] \in t.dirs
      PROVE  q \in K /\ u.links[q] = t.links[q]
  <2>1. e[MaxLinks][q] \in t.dirs
    BY <1>1, <1>3, <1>4, DeeperIsTheSame
  <2>2. Follow(t, q) \in t.dirs
    BY <1>1, <2>1 DEF Follow, Go
  <2> QED
    BY <2>2 DEF KeepsWays
<1>5. \A n \in 0 .. MaxLinks : \A q \in L : IsSequence(e[n][q])
  <2>1. \A r \in DOMAIN t.links : IsSequence(r) /\ IsSequence(t.links[r])
    BY DEF IsTree, Entries
  <2>2. PICK links : links = t.links
    OBVIOUS
  <2> QED
    BY <1>1, <1>3, <2>1, <2>2, EndingIsSequences
<1>6. /\ \A r \in t.dirs \cup L : r # <<>> => Front(r) \in t.dirs
      /\ t.dirs \cap K = {} /\ t.dirs \cap L = {}
  BY DEF IsTree, Entries, KeepsWays
<1> DEFINE Bad == {n \in 0 .. MaxLinks : \E q \in L : e[n][q] \in t.dirs /\ h[n][q] # e[n][q]}
<1>7. ASSUME Bad # {} PROVE FALSE
  <2>1. PICK n \in Bad : \A m \in Bad : n <= m
    <3>1. Bad \subseteq Nat
      OBVIOUS
    <3> QED
      BY <1>7, <3>1, LeastElement
  <2>2. PICK q \in L : e[n][q] \in t.dirs /\ h[n][q] # e[n][q]
    BY <2>1
  <2>3. q \in K /\ u.links[q] = t.links[q]
    BY <1>4, <2>1, <2>2
  <2>4. /\ e[n][q] = IF n = 0 THEN q ELSE Through(L, e[n - 1], t.links[q])
        /\ h[n][q] = IF n = 0 THEN q ELSE Through(K, h[n - 1], u.links[q])
    BY <1>1, <1>2, <1>3, <2>1, <2>3, EndingIs
  <2>5. n # 0
    BY <2>2, <2>4
  <2>6. n - 1 \in 0 .. MaxLinks /\ ~(n <= n - 1)
    BY <1>3, <2>1, <2>5
  <2>7. PICK f, g : f = e[n - 1] /\ g = h[n - 1]
    OBVIOUS
  <2>8. \A r \in L : f[r] \in t.dirs => r \in K /\ g[r] = f[r]
    <3>1. n - 1 \notin Bad
      BY <2>1, <2>6
    <3> QED
      BY <1>4, <2>6, <2>7, <3>1
  <2>9. Agrees(L, f, K, g, t.dirs)
    <3>1. \A r \in L : IsSequence(f[r])
      BY <1>5, <2>6, <2>7
    <3> QED
      BY <1>6, <2>8, <3>1 DEF Agrees
  <2>10. IsSequence(t.links[q])
    BY DEF IsTree
  <2>11. Through(K, g, t.links[q]) = Through(L, f, t.links[q])
    BY <2>2, <2>4, <2>5, <2>7, <2>9, <2>10, SameWalk
  <2> QED
    BY <2>2, <2>3, <2>4, <2>5, <2>7, <2>11
<1>8. \A q \in L : Ends(t.links)[q] \in t.dirs => q \in K /\ Ends(u.links)[q] = Ends(t.links)[q]
  BY <1>1, <1>2, <1>3, <1>4, <1>7
<1>9. \A q \in L : IsSequence(Ends(t.links)[q])
  BY <1>1, <1>3, <1>5
<1> QED
  BY <1>6, <1>8, <1>9 DEF Agrees

LEMMA SameWays ==
  ASSUME NEW t, IsTree(t), NEW u, KeepsWays(t, u)
  PROVE  /\ \A p : IsSequence(p) /\ Resolve(t, p) \in t.dirs => Resolve(u, p) = Resolve(t, p)
         /\ \A q \in DOMAIN t.links : Follow(t, q) \in t.dirs => Follow(u, q) = Follow(t, q)
<1>1. Agrees(DOMAIN t.links, Ends(t.links), DOMAIN u.links, Ends(u.links), t.dirs)
  BY EndsTheSame
<1>2. \A p : IsSequence(p) /\ Resolve(t, p) \in t.dirs => Resolve(u, p) = Resolve(t, p)
  BY <1>1, SameWalk DEF Resolve
<1>3. \A q \in DOMAIN t.links : Follow(t, q) \in t.dirs => Follow(u, q) = Follow(t, q)
  BY <1>1 DEF Follow, Go, Agrees
<1> QED
  BY <1>2, <1>3

\* A path to a directory leads there as long as no link to a directory goes.
LEMMA StillNamed ==
  ASSUME NEW tr, IsTree(tr), NEW e, e \in DOMAIN tr.links => Follow(tr, e) \notin tr.dirs,
         NEW p, IsPath(p), Resolve(tr, p) \in tr.dirs
  PROVE  /\ Resolve(WithoutOne(tr, e), p) = Resolve(tr, p)
         /\ Itself(WithoutOne(tr, e), p) = Itself(tr, p)
<1> DEFINE u == WithoutOne(tr, e)
           I == Itself(tr, p)
<1>1. DOMAIN u.links = DOMAIN tr.links \ {e} /\ \A q \in DOMAIN u.links : u.links[q] = tr.links[q]
  BY WithoutIs DEF WithoutOne
<1>2. /\ Resolve(tr, p) = Follow(tr, I) /\ IsPath(I) /\ Front(I) = Resolve(tr, Front(p))
      /\ IsSequence(Front(p)) /\ IsSequence(p)
  BY ResolveStep DEF IsPath
<1> HIDE DEF u, I
<1>3. KeepsWays(tr, u)
  BY <1>1 DEF KeepsWays, IsTree
<1>4. I \in Entries(tr)
  BY <1>2 DEF Follow, Go, Entries
<1>5. Resolve(tr, Front(p)) \in tr.dirs
  BY <1>2, <1>4 DEF IsTree, IsPath
<1>6. Resolve(u, p) = Resolve(tr, p) /\ Resolve(u, Front(p)) = Resolve(tr, Front(p))
  BY <1>2, <1>3, <1>5, SameWays
<1> QED
  BY <1>6 DEF Itself, u

-----------------------------------------------------------------------------
(* The job of remove_dir: the activations of one call                      *)

\* Where no link to a directory is removed, the argument is the directory.
LEMMA RootOf ==
  ASSUME NEW t, IsTree(t), NEW path, IsPath(path), DirLinksAt(t, path) = {}
  PROVE  /\ is_dir(t, path) <=> Itself(t, path) \in t.dirs
         /\ is_dir(t, path) => Resolve(t, path) = Itself(t, path)
<1> DEFINE R == Itself(t, path)
<1>1. Resolve(t, path) = Follow(t, R)
  BY ResolveStep
<1>2. R \in DOMAIN t.links => Follow(t, R) \notin t.dirs
  BY DEF DirLinksAt
<1>3. R \in t.dirs => R \notin DOMAIN t.links
  BY DEF IsTree
<1> HIDE DEF R
<1>4. is_dir(t, path) => R \notin DOMAIN t.links
  BY <1>1, <1>2 DEF is_dir
<1> QED
  BY <1>1, <1>3, <1>4 DEF is_dir, Follow, Go, R

LEMMA PartIs ==
  ASSUME NEW t, NEW tr, NEW path, PartlyGone(t, tr, path)
  PROVE  /\ tr.dirs \subseteq t.dirs /\ Entries(tr) \subseteq Entries(t)
         /\ DOMAIN tr.links \subseteq DOMAIN t.links
         /\ \A q \in DOMAIN tr.links : tr.links[q] = t.links[q]
<1>1. PICK gone : tr = Without(t, gone)
  BY DEF PartlyGone
<1> QED
  BY <1>1, WithoutIs

LEMMA PartsOfEmptying ==
  ASSUME NEW t, NEW tr, NEW path, NEW inner, NEW kid, NEW place, inner # <<>>,
         Emptying(t, tr, path, inner, kid, place), IsTree(t), IsTree(tr), IsPath(path),
         IsSequence(inner), ArePaths(inner)
  PROVE  /\ Itself(t, path) \in t.dirs /\ IsPath(Itself(t, path)) /\ PartlyGone(t, tr, path)
         /\ \A i \in 1 .. Len(inner) : Activation(t, tr, path, inner, i) /\ IsPath(inner[i].path)
         /\ Innermost(t, tr, path, inner[Len(inner)], kid, place)
         /\ Len(inner) \in Nat \ {0} /\ Len(path) \in Nat /\ Len(Itself(t, path)) \in Nat
         /\ Len(inner) \in 1 .. Len(inner)
<1>1. Len(inner) \in Nat \ {0} /\ DOMAIN inner = 1 .. Len(inner)
  BY FrontOf, LenProperties DEF IsSequence
<1>2. IsPath(Itself(t, path)) /\ Len(path) \in Nat /\ Len(Itself(t, path)) \in Nat
  BY ResolveStep, LenProperties DEF IsPath, IsSequence
<1> QED
  BY <1>1, <1>2 DEF Emptying, ArePaths, Last

\* An entry of the directory at hand is one of the contents to be removed.
LEMMA EntryIs ==
  ASSUME NEW t, NEW tr, NEW path, IsTree(t), IsTree(tr), IsPath(path),
         PartlyGone(t, tr, path), IsPath(Itself(t, path)), NEW inner, NEW i \in Nat \ {0},
         Activation(t, tr, path, inner, i), IsPath(inner[i].path),
         NEW e \in Kids(tr, Resolve(tr, inner[i].path))
  PROVE  /\ e \in ContentsAt(t, path) /\ IsPath(e) /\ e \in Entries(tr) /\ IsPrefix(Itself(t, path), e)
         /\ Len(e) = Len(Itself(t, path)) + i
         /\ Front(e) = Resolve(tr, inner[i].path)
         /\ Resolve(tr, Append(inner[i].path, Last(e))) = Follow(tr, e)
         /\ Itself(tr, Append(inner[i].path, Last(e))) = e
         /\ Len(Append(inner[i].path, Last(e))) = Len(path) + i
         /\ Fits(t, path, e) <=> Len(Append(inner[i].path, Last(e))) <= MaxLen
<1> DEFINE R == Itself(t, path)
           P == inner[i].path
           d == Resolve(tr, P)
<1>1. /\ d \in tr.dirs /\ IsPrefix(R, d) /\ Len(d) = (Len(R) + i) - 1
      /\ Len(P) = (Len(path) + i) - 1
  BY DEF Activation
<1>2. IsSequence(d) /\ Len(R) \in Nat /\ Len(path) \in Nat /\ IsPath(P)
  BY <1>1, LenProperties DEF IsTree, Entries, IsPath, IsSequence
<1> HIDE DEF R, P, d
<1>3. e \in Kids(tr, d)
  BY DEF d, P
<1>4. /\ IsPath(e) /\ e \in Entries(tr) /\ Front(e) = d /\ e = Append(d, Last(e))
      /\ Len(e) = Len(d) + 1
  BY <1>2, <1>3, KidIs
<1>5. Len(e) = Len(R) + i /\ Len(R) < Len(e)
  BY <1>1, <1>2, <1>4
<1>6. IsPrefix(R, e)
  BY <1>1, <1>4, <1>5, Ancestors DEF IsPath, R
<1>7. e \in ContentsAt(t, path)
  <2>1. e # R
    BY <1>2, <1>5
  <2>2. e \in Entries(t)
    BY <1>4, PartIs
  <2> QED
    BY <1>6, <2>1, <2>2 DEF ContentsAt, Below, R
<1>8. PICK l : l = Last(e)
  OBVIOUS
<1>9. /\ Resolve(tr, Append(P, l)) = Follow(tr, Append(d, l)) /\ Itself(tr, Append(P, l)) = Append(d, l)
      /\ Len(Append(P, l)) = Len(P) + 1
  BY <1>2, ResolveAppend, Appended DEF d, IsPath
<1>10. /\ Resolve(tr, Append(P, l)) = Follow(tr, e) /\ Itself(tr, Append(P, l)) = e
       /\ Len(Append(P, l)) = Len(path) + i
  <2>1. e = Append(d, l)
    BY <1>4, <1>8
  <2>2. Len(P) + 1 = Len(path) + i
    BY <1>1, <1>2
  <2> QED
    BY <1>9, <2>1, <2>2
<1>11. Fits(t, path, e) <=> Len(path) + i <= MaxLen
  <2>1. (Len(e) - Len(R)) + Len(path) = Len(path) + i
    BY <1>2, <1>5
  <2> QED
    BY <2>1 DEF Fits, R
<1> QED
  BY <1>4, <1>5, <1>6, <1>7, <1>8, <1>10, <1>11 DEF R, P, d

LEMMA NoDirLink ==
  ASSUME NEW t, IsTree(t), NEW tr, IsTree(tr), NEW path, PartlyGone(t, tr, path),
         DirLinksAt(t, path) = {}, NEW e \in ContentsAt(t, path) \cup {Itself(t, path)}
  PROVE  e \in DOMAIN tr.links => Follow(tr, e) \notin tr.dirs
<1> SUFFICES ASSUME e \in DOMAIN tr.links, Follow(tr, e) \in tr.dirs PROVE FALSE
  OBVIOUS
<1>1. /\ tr.dirs \subseteq t.dirs /\ DOMAIN tr.links \subseteq DOMAIN t.links
      /\ \A q \in DOMAIN tr.links : tr.links[q] = t.links[q]
  BY PartIs
<1>2. KeepsWays(tr, t)
  BY <1>1 DEF KeepsWays, IsTree
<1>3. Follow(t, e) = Follow(tr, e)
  BY <1>2, SameWays
<1> QED
  BY <1>1, <1>3 DEF DirLinksAt

\* Only its path, and what it has not taken while it waits, make an activation.
LEMMA SameActivations ==
  ASSUME NEW t, NEW tr, NEW path, NEW inner, NEW other,
         Len(inner) \in Nat, Len(other) \in Nat, Len(other) <= Len(inner),
         \A i \in 1 .. Len(inner) : Activation(t, tr, path, inner, i),
         \A i \in 1 .. Len(other) : other[i].path = inner[i].path,
         \A i \in 1 .. Len(other) : i # Len(other) => other[i] = inner[i]
  PROVE  \A i \in 1 .. Len(other) : Activation(t, tr, path, other, i)
<1> SUFFICES ASSUME NEW i \in 1 .. Len(other) PROVE Activation(t, tr, path, other, i)
  OBVIOUS
<1>1. i \in 1 .. Len(inner) /\ Activation(t, tr, path, inner, i) /\ other[i].path = inner[i].path
  OBVIOUS
<1>2. CASE i = Len(other)
  BY <1>1, <1>2 DEF Activation
<1>3. CASE i # Len(other)
  <2>1. i # Len(inner) /\ i + 1 \in 1 .. Len(other)
    BY <1>3
  <2>2. other[i] = inner[i] /\ other[i + 1].path = inner[i + 1].path
    BY <1>3, <2>1
  <2> QED
    BY <1>1, <2>1, <2>2 DEF Activation
<1> QED
  BY <1>2, <1>3

\* An entry of the innermost directory goes: the others stay as they are.
LEMMA ActivationsStay ==
  ASSUME NEW t, NEW tr, NEW path, IsTree(t), IsTree(tr), IsPath(path),
         PartlyGone(t, tr, path), IsPath(Itself(t, path)), DirLinksAt(t, path) = {},
         NEW inner, Len(inner) \in Nat \ {0},
         \A i \in 1 .. Len(inner) : Activation(t, tr, path, inner, i) /\ IsPath(inner[i].path),
         NEW e \in Kids(tr, Resolve(tr, inner[Len(inner)].path)),
         NEW u, u = WithoutOne(tr, e)
  PROVE  /\ \A i \in 1 .. Len(inner) :
              Activation(t, u, path, inner, i) /\ Resolve(u, inner[i].path) = Resolve(tr, inner[i].path)
<1> DEFINE R == Itself(t, path)
           n == Len(inner)
<1>1. n \in Nat \ {0} /\ n \in 1 .. n /\ Len(R) \in Nat
  BY LenProperties DEF IsPath, IsSequence
<1>2. e \in ContentsAt(t, path) /\ Len(e) = Len(R) + n /\ Front(e) = Resolve(tr, inner[n].path)
  BY <1>1, EntryIs
<1>3. e \in DOMAIN tr.links => Follow(tr, e) \notin tr.dirs
  BY <1>2, NoDirLink
<1>4. u.dirs = tr.dirs \ {e}
  BY WithoutIs DEF WithoutOne
<1>5. ASSUME NEW i \in 1 .. n
      PROVE  /\ Resolve(u, inner[i].path) = Resolve(tr, inner[i].path)
             /\ Itself(u, inner[i].path) = Itself(tr, inner[i].path)
  <2>1. IsPath(inner[i].path) /\ Resolve(tr, inner[i].path) \in tr.dirs
    BY DEF Activation
  <2> QED
    BY <1>3, <2>1, StillNamed
<1>6. ASSUME NEW i \in 1 .. n PROVE Activation(t, u, path, inner, i)
  <2> DEFINE f == inner[i]
             d == Resolve(tr, f.path)
  <2>1. Activation(t, tr, path, inner, i)
    OBVIOUS
  <2>2. d \in tr.dirs /\ Len(d) = (Len(R) + i) - 1
    BY <2>1 DEF Activation
  <2>3. d # e
    BY <1>1, <1>2, <2>2
  <2>4. ASSUME i # n
        PROVE  \E k \in Kids(u, d) : k = Resolve(u, inner[i + 1].path) /\ f.left = UnreadBut(u, d, k)
    <3>1. PICK k \in Kids(tr, d) : k = Resolve(tr, inner[i + 1].path) /\ f.left = UnreadBut(tr, d, k)
      BY <2>1, <2>4 DEF Activation
    <3>2. i + 1 \in 1 .. n
      BY <1>1, <2>4
    <3>3. k = Resolve(u, inner[i + 1].path)
      BY <1>5, <3>1, <3>2
    <3>4. Front(e) # d
      <4>1. Len(Front(e)) = (Len(R) + n) - 1
        BY <1>1, <1>2 DEF Activation
      <4> QED
        BY <1>1, <2>2, <2>4, <4>1
    <3>5. e \notin Kids(tr, d)
      BY <3>4 DEF Kids
    <3>6. k \in Kids(u, d)
      BY <3>1, <3>5, KidsLess
    <3>7. UnreadBut(u, d, k) = UnreadBut(tr, d, k)
      BY <3>5, UnreadKept
    <3> QED
      BY <3>1, <3>3, <3>6, <3>7
  <2>5. Resolve(u, f.path) = d /\ Itself(u, f.path) = Itself(tr, f.path)
    BY <1>5
  <2> HIDE DEF d
  <2>6. d \in u.dirs
    BY <1>4, <2>2, <2>3
  <2> QED
    BY <2>1, <2>4, <2>5, <2>6 DEF Activation, d
<1> QED
  BY <1>5, <1>6

LEMMA OneMoreGone ==
  ASSUME NEW t, NEW tr, NEW path, PartlyGone(t, tr, path),
         NEW e \in ContentsAt(t, path), Fits(t, path, e)
  PROVE  PartlyGone(t, WithoutOne(tr, e), path)
<1>1. PICK gone \in SUBSET ContentsAt(t, path) :
        tr = Without(t, gone) /\ \A q \in gone : Fits(t, path, q)
  BY DEF PartlyGone
<1>2. WithoutOne(tr, e) = Without(t, gone \cup {e})
  BY <1>1, WithoutTwice DEF WithoutOne
<1>3. gone \cup {e} \in SUBSET ContentsAt(t, path) /\ \A q \in gone \cup {e} : Fits(t, path, q)
  BY <1>1
<1> QED
  BY <1>2, <1>3 DEF PartlyGone

\* A call that has failed, with nothing lost but contents.
LEMMA FailedFor ==
  ASSUME NEW t, NEW tr, NEW path, IsTree(t), PartlyGone(t, tr, path), ~CanRemove(t, path, TRUE)
  PROVE  HasEmptied(t, tr, path, FALSE)
<1> DEFINE C == ContentsAt(t, path)
<1>1. PICK gone \in SUBSET C : tr = Without(t, gone)
  BY DEF PartlyGone
<1>2. gone \cup C = C
  OBVIOUS
<1> HIDE DEF C
<1>3. Without(tr, C) = Without(t, C)
  BY <1>1, <1>2, WithoutTwice
<1> QED
  BY <1>3 DEF HasEmptied, C

LEMMA NoneGone == ASSUME NEW t, IsTree(t), NEW path PROVE PartlyGone(t, t, path)
<1>1. t = Without(t, {})
  BY WithoutNothing
<1>2. {} \in SUBSET ContentsAt(t, path) /\ \A q \in {} : Fits(t, path, q)
  OBVIOUS
<1> QED
  BY <1>1, <1>2 DEF PartlyGone

LEMMA NotAllFit ==
  ASSUME NEW t, NEW path, ~PathsFit(t, path)
  PROVE  ~CanRemove(t, path, TRUE)
BY DEF PathsFit, CanRemove

\* opendir on the argument.
LEMMA FirstOpened ==
  ASSUME NEW t, IsTree(t), NEW path, IsPath(path), DirLinksAt(t, path) = {}
  PROVE  /\ is_dir(t, path) =>
              LET f == [path |-> path, left |-> Listing(t, Resolve(t, path))] IN
                Emptying(t, t, path, Append(<<>>, f), <<>>, "next")
         /\ ~is_dir(t, path) => HasEmptied(t, t, path, FALSE)
<1> DEFINE R == Itself(t, path)
           f == [path |-> path, left |-> Listing(t, Resolve(t, path))]
           inner == Append(<<>>, f)
<1>1. IsPath(R) /\ Len(R) \in Nat /\ Len(path) \in Nat
  BY ResolveStep, LenProperties DEF IsPath, IsSequence
<1>2. is_dir(t, path) <=> R \in t.dirs
  BY RootOf
<1>3. ASSUME is_dir(t, path) PROVE Emptying(t, t, path, inner, <<>>, "next")
  <2>1. Resolve(t, path) = R /\ R \in t.dirs
    BY <1>2, <1>3, RootOf
  <2>2. Listing(t, R) = Unread(t, R)
    BY <1>1, ListingIs DEF IsPath
  <2>3. f.path = path /\ f.left = Unread(t, R)
    BY <2>1, <2>2
  <2> HIDE DEF f
  <2>4. /\ Len(inner) = 1 /\ Last(inner) = f /\ inner # <<>> /\ inner[1] = f
    <3>1. Len(Append(<<>>, f)) = 0 + 1 /\ Last(Append(<<>>, f)) = f /\ Append(<<>>, f) # <<>>
      BY NoFrames, Appended DEF IsPath
    <3> QED
      BY <3>1 DEF Last
  <2> HIDE DEF inner
  <2>5. IsPrefix(R, R) /\ Len(R) = (Len(R) + 1) - 1 /\ Len(path) = (Len(path) + 1) - 1
    BY <1>1 DEF IsPrefix
  <2>6. Activation(t, t, path, inner, 1)
    BY <2>1, <2>3, <2>4, <2>5 DEF Activation
  <2>7. Innermost(t, t, path, f, <<>>, "next")
    BY <2>1, <2>3 DEF Innermost
  <2>8. \A i \in 1 .. Len(inner) : i = 1
    BY <2>4
  <2> QED
    BY <2>1, <2>4, <2>6, <2>7, <2>8, NoneGone DEF Emptying
<1>4. ASSUME ~is_dir(t, path) PROVE HasEmptied(t, t, path, FALSE)
  BY <1>2, <1>4, NoneGone, FailedFor DEF CanRemove
<1> QED
  BY <1>3, <1>4

\* opendir on a directory found in another one.
LEMMA InnerOpened ==
  ASSUME NEW t, NEW tr, NEW path, NEW inner, NEW kid, inner # <<>>,
         Emptying(t, tr, path, inner, kid, "open"), IsTree(t), IsTree(tr), IsPath(path),
         IsSequence(inner), ArePaths(inner), NEW f, f.path = kid, f.left = Listing(tr, Resolve(tr, kid))
  PROVE  is_dir(tr, kid) /\ Emptying(t, tr, path, Append(inner, f), <<>>, "next")
<1> DEFINE n == Len(inner)
           d == Resolve(tr, inner[n].path)
           more == Append(inner, f)
           R == Itself(t, path)
<1>1. /\ R \in t.dirs /\ IsPath(R) /\ PartlyGone(t, tr, path)
      /\ \A i \in 1 .. n : Activation(t, tr, path, inner, i) /\ IsPath(inner[i].path)
      /\ Innermost(t, tr, path, inner[n], kid, "open")
      /\ n \in Nat \ {0} /\ Len(path) \in Nat /\ Len(R) \in Nat /\ n \in 1 .. n
  BY PartsOfEmptying
<1>2. PICK e \in Kids(tr, d) :
        /\ kid = Append(inner[n].path, Last(e)) /\ inner[n].left = UnreadBut(tr, d, e)
        /\ e \in tr.dirs /\ Len(kid) <= MaxLen
  BY <1>1 DEF Innermost
<1>3. /\ IsPath(e) /\ IsPrefix(R, e) /\ Len(e) = Len(R) + n
      /\ Resolve(tr, kid) = Follow(tr, e) /\ Itself(tr, kid) = e /\ Len(kid) = Len(path) + n
  BY <1>1, <1>2, EntryIs
<1>4. Resolve(tr, kid) = e
  BY <1>2, <1>3 DEF Follow, Go, IsTree
<1>5. f.left = Unread(tr, e)
  BY <1>3, <1>4, ListingIs DEF IsPath
<1>6. /\ Len(more) = n + 1 /\ more[n + 1] = f /\ more # <<>> /\ Last(more) = f
      /\ \A i \in 1 .. n : more[i] = inner[i]
  BY Appended DEF Last, IsPath
<1> HIDE DEF more
<1>7. ASSUME NEW i \in 1 .. n + 1 PROVE Activation(t, tr, path, more, i)
  <2>1. CASE i = n + 1
    <3>1. Len(e) = (Len(R) + i) - 1 /\ Len(kid) = (Len(path) + i) - 1 /\ i # 1
      BY <1>1, <1>3, <2>1
    <3>2. more[i].path = kid
      BY <1>6, <2>1
    <3> QED
      BY <1>2, <1>3, <1>4, <1>6, <2>1, <3>1, <3>2 DEF Activation
  <2>2. CASE i = n
    <3>1. i # Len(more) /\ more[i] = inner[i] /\ more[i + 1].path = kid
      BY <1>1, <1>6, <2>2
    <3>2. \E s \in Kids(tr, d) : s = Resolve(tr, more[i + 1].path) /\ more[i].left = UnreadBut(tr, d, s)
      BY <1>2, <1>4, <2>2, <3>1
    <3>3. Activation(t, tr, path, inner, i) /\ Resolve(tr, more[i].path) = d
      BY <1>1, <2>2, <3>1
    <3> QED
      BY <3>1, <3>2, <3>3 DEF Activation
  <2>3. CASE i # n + 1 /\ i # n
    <3>1. i \in 1 .. n /\ i + 1 \in 1 .. n /\ i # Len(more) /\ i # n
      BY <1>1, <1>6, <2>3
    <3>2. more[i] = inner[i] /\ more[i + 1] = inner[i + 1] /\ Activation(t, tr, path, inner, i)
      BY <1>1, <1>6, <3>1
    <3> QED
      BY <3>1, <3>2 DEF Activation
  <2> QED
    BY <2>1, <2>2, <2>3
<1>8. Innermost(t, tr, path, f, <<>>, "next")
  BY <1>4, <1>5 DEF Innermost
<1> QED
  BY <1>1, <1>2, <1>4, <1>6, <1>7, <1>8 DEF Emptying, is_dir, more

\* Of the activations, only the innermost is another one: g.
OnlyInnermost(inner, g, other) ==
  /\ IsSequence(other) /\ other # <<>> /\ Len(other) = Len(inner) /\ other[Len(inner)] = g
  /\ \A i \in 1 .. Len(inner) : i # Len(inner) => other[i] = inner[i]

\* The innermost activation takes an entry, whose path fits or does not.
LEMMA TookEntry ==
  ASSUME NEW t, NEW tr, NEW path, NEW inner, NEW kid, inner # <<>>,
         Emptying(t, tr, path, inner, kid, "next"), IsTree(t), IsTree(tr), IsPath(path),
         IsSequence(inner), ArePaths(inner), DirLinksAt(t, path) = {},
         NEW f, f = Last(inner), NEW entry \in f.left, NEW k, k = Append(f.path, entry.name),
         NEW g, g.path = f.path, g.left = f.left \ {entry},
         NEW other, OnlyInnermost(inner, g, other)
  PROVE  /\ ~(Len(k) <= MaxLen) => Emptying(t, tr, path, inner, kid, "unwind")
         /\ Len(k) <= MaxLen =>
              Emptying(t, tr, path, other, k, IF IsDirEntry(tr, f.path, entry) THEN "open" ELSE "unlink")
<1> DEFINE n == Len(inner)
           d == Resolve(tr, inner[n].path)
           R == Itself(t, path)
<1>1. /\ R \in t.dirs /\ IsPath(R) /\ PartlyGone(t, tr, path)
      /\ \A i \in 1 .. n : Activation(t, tr, path, inner, i) /\ IsPath(inner[i].path)
      /\ Innermost(t, tr, path, inner[n], kid, "next")
      /\ n \in Nat \ {0} /\ Len(path) \in Nat /\ Len(R) \in Nat /\ n \in 1 .. n
  BY PartsOfEmptying
<1>2. f = inner[n] /\ f.left = Unread(tr, d) /\ d \in tr.dirs
  BY <1>1 DEF Innermost, Activation, Last
<1>3. IsSequence(d)
  BY <1>2 DEF IsTree, Entries
<1>4. PICK e \in Kids(tr, d) : entry = AsEntry(tr, e) /\ f.left \ {entry} = UnreadBut(tr, d, e)
  <2>1. entry \in Unread(tr, d)
    BY <1>2
  <2> HIDE DEF d
  <2>2. \E e \in Kids(tr, d) : entry = AsEntry(tr, e) /\ Unread(tr, d) \ {entry} = UnreadBut(tr, d, e)
    BY ONLY IsTree(tr), <1>3, <2>1, TakesOne
  <2> QED
    BY <1>2, <2>2
<1>5. entry.name = Last(e) /\ k = Append(inner[n].path, Last(e))
  BY <1>2, <1>4 DEF AsEntry
<1>6. /\ e \in ContentsAt(t, path) /\ e \in Entries(tr) /\ Resolve(tr, k) = Follow(tr, e)
      /\ Fits(t, path, e) <=> Len(k) <= MaxLen
  <2>1. /\ e \in ContentsAt(t, path) /\ e \in Entries(tr)
        /\ Resolve(tr, Append(inner[n].path, Last(e))) = Follow(tr, e)
        /\ Fits(t, path, e) <=> Len(Append(inner[n].path, Last(e))) <= MaxLen
    BY <1>1, EntryIs
  <2> QED
    BY ONLY <1>5, <2>1
<1>7. ASSUME ~(Len(k) <= MaxLen) PROVE Emptying(t, tr, path, inner, kid, "unwind")
  <2>1. ~PathsFit(t, path)
    BY <1>6, <1>7 DEF PathsFit, Fits
  <2>2. Innermost(t, tr, path, Last(inner), kid, "unwind")
    BY <2>1 DEF Innermost
  <2> QED
    BY <1>1, <2>2 DEF Emptying
<1>8. ASSUME Len(k) <= MaxLen
      PROVE  Emptying(t, tr, path, other, k, IF IsDirEntry(tr, f.path, entry) THEN "open" ELSE "unlink")
  <2> DEFINE place == IF IsDirEntry(tr, f.path, entry) THEN "open" ELSE "unlink"
  <2>1. \A i \in 1 .. Len(other) : Activation(t, tr, path, other, i)
    <3>1. /\ \A i \in 1 .. n : other[i].path = inner[i].path
          /\ \A i \in 1 .. n : i # Len(other) => other[i] = inner[i]
          /\ Len(other) = n
      BY <1>2 DEF OnlyInnermost
    <3> QED
      BY <1>1, <3>1, SameActivations
  <2>2. IsDirEntry(tr, f.path, entry) <=> e \in tr.dirs
    <3>1. e \in DOMAIN tr.links => Follow(tr, e) \notin tr.dirs
      BY <1>1, <1>6, NoDirLink
    <3>2. entry.type = IF e \in tr.dirs THEN "dir" ELSE IF e \in tr.files THEN "file" ELSE "link"
      BY <1>4 DEF AsEntry
    <3>3. Append(f.path, entry.name) = k
      OBVIOUS
    <3>4. e \notin tr.dirs => ~is_dir(tr, k)
      BY <1>6, <3>1 DEF is_dir, Follow, Go
    <3> QED
      BY <3>2, <3>3, <3>4 DEF IsDirEntry
  <2>3. place \in {"open", "unlink"} /\ (place = "open" <=> e \in tr.dirs)
    BY <2>2
  <2> HIDE DEF place
  <2>4. Last(other) = g
    BY DEF Last, OnlyInnermost
  <2>5. Innermost(t, tr, path, g, k, place)
    BY <1>2, <1>4, <1>5, <1>8, <2>3 DEF Innermost
  <2> QED
    BY <1>1, <2>1, <2>4, <2>5 DEF Emptying, place, OnlyInnermost
<1> QED
  BY <1>7, <1>8

LEMMA FrontIs ==
  ASSUME NEW s, IsSequence(s), s # <<>>
  PROVE  /\ Len(Front(s)) = Len(s) - 1 /\ Len(s) \in Nat \ {0}
         /\ \A i \in 1 .. Len(s) - 1 : Front(s)[i] = s[i]
<1>1. /\ s = Append(Front(s), Last(s)) /\ IsSequence(Front(s)) /\ Len(Front(s)) = Len(s) - 1
      /\ Len(s) \in Nat \ {0}
  BY Rejoined DEF IsPath
<1>2. PICK r, l : r = Front(s) /\ l = Last(s)
  OBVIOUS
<1>3. \A i \in 1 .. Len(r) : Append(r, l)[i] = r[i]
  BY <1>1, <1>2, Appended
<1>4. s = Append(r, l) /\ Len(r) = Len(s) - 1
  BY <1>1, <1>2
<1> QED
  BY <1>1, <1>2, <1>3, <1>4

LEMMA EndReached ==
  ASSUME NEW t, NEW tr, NEW path, NEW inner, NEW kid, inner # <<>>,
         Emptying(t, tr, path, inner, kid, "next"), Last(inner).left = {}
  PROVE  Emptying(t, tr, path, inner, kid, "rmdir")
<1> DEFINE d == Resolve(tr, Last(inner).path)
<1>1. Unread(tr, d) = {}
  BY DEF Emptying, Innermost
<1>2. Kids(tr, d) = {}
  BY <1>1 DEF Unread
<1> QED
  BY <1>2 DEF Emptying, Innermost

\* unlink of an entry that is no directory.
LEMMA FileGone ==
  ASSUME NEW t, NEW tr, NEW path, NEW inner, NEW kid, inner # <<>>,
         Emptying(t, tr, path, inner, kid, "unlink"), IsTree(t), IsTree(tr), IsPath(path),
         IsSequence(inner), ArePaths(inner), DirLinksAt(t, path) = {}
  PROVE  CanUnlink(tr, kid) /\ Emptying(t, unlink(tr, kid), path, inner, <<>>, "next")
<1> DEFINE n == Len(inner)
           d == Resolve(tr, inner[n].path)
           R == Itself(t, path)
<1>1. /\ R \in t.dirs /\ IsPath(R) /\ PartlyGone(t, tr, path)
      /\ \A i \in 1 .. n : Activation(t, tr, path, inner, i) /\ IsPath(inner[i].path)
      /\ Innermost(t, tr, path, inner[n], kid, "unlink")
      /\ n \in Nat \ {0} /\ Len(path) \in Nat /\ Len(R) \in Nat /\ n \in 1 .. n
  BY PartsOfEmptying
<1>2. PICK e \in Kids(tr, d) :
        /\ kid = Append(inner[n].path, Last(e)) /\ inner[n].left = UnreadBut(tr, d, e)
        /\ e \notin tr.dirs /\ Len(kid) <= MaxLen
  BY <1>1 DEF Innermost
<1>3. /\ e \in ContentsAt(t, path) /\ e \in Entries(tr) /\ Itself(tr, kid) = e
      /\ Fits(t, path, e)
  <2>1. /\ e \in ContentsAt(t, path) /\ e \in Entries(tr)
        /\ Itself(tr, Append(inner[n].path, Last(e))) = e
        /\ Fits(t, path, e) <=> Len(Append(inner[n].path, Last(e))) <= MaxLen
    BY <1>1, EntryIs
  <2> QED
    BY <1>2, <2>1
<1>4. CanUnlink(tr, kid)
  BY <1>2, <1>3 DEF CanUnlink, Entries
<1>5. PICK u : u = WithoutOne(tr, e)
  OBVIOUS
<1>6. unlink(tr, kid) = u
  BY <1>3, <1>4, <1>5, UnlinkKeepsTree DEF WithoutOne
<1>7. \A i \in 1 .. n : Activation(t, u, path, inner, i) /\ Resolve(u, inner[i].path) = Resolve(tr, inner[i].path)
  BY <1>1, <1>5, ActivationsStay
<1>8. PartlyGone(t, u, path)
  BY <1>1, <1>3, <1>5, OneMoreGone
<1>9. Innermost(t, u, path, Last(inner), <<>>, "next")
  <2>1. inner[n].left = Unread(u, d)
    BY <1>2, <1>5, UnreadLess
  <2>2. Resolve(u, inner[n].path) = d
    BY <1>1, <1>7
  <2> HIDE DEF d
  <2> QED
    BY <2>1, <2>2 DEF Innermost, Last
<1> QED
  BY <1>1, <1>4, <1>6, <1>7, <1>8, <1>9 DEF Emptying

\* rmdir of the argument, when all that was in it has gone.
LEMMA AllGone ==
  ASSUME NEW t, IsTree(t), NEW tr, NEW path, PartlyGone(t, tr, path),
         Itself(t, path) \in t.dirs, Below(tr, Itself(t, path)) = {}
  PROVE  HasEmptied(t, WithoutOne(tr, Itself(t, path)), path, TRUE)
<1> DEFINE R == Itself(t, path)
           C == ContentsAt(t, path)
<1>1. PICK gone \in SUBSET C : tr = Without(t, gone) /\ \A q \in gone : Fits(t, path, q)
  BY DEF PartlyGone
<1>2. Entries(tr) = Entries(t) \ gone
  BY <1>1, WithoutIs
<1>3. gone = C
  BY <1>1, <1>2 DEF ContentsAt, Below
<1>4. PathsFit(t, path)
  BY <1>1, <1>3 DEF PathsFit, Fits
<1>5. CanRemove(t, path, TRUE)
  BY <1>4 DEF CanRemove
<1>6. WithoutOne(tr, R) = Without(t, C \cup {R})
  BY <1>1, <1>3, WithoutTwice DEF WithoutOne
<1> QED
  BY <1>5, <1>6 DEF HasEmptied, HasRemoved

\* rmdir of the innermost activation's directory.
LEMMA DirGone ==
  ASSUME NEW t, NEW tr, NEW path, NEW inner, NEW kid, inner # <<>>,
         Emptying(t, tr, path, inner, kid, "rmdir"), IsTree(t), IsTree(tr), IsPath(path),
         IsSequence(inner), ArePaths(inner), DirLinksAt(t, path) = {}
  PROVE  /\ CanRmdir(tr, Last(inner).path)
         /\ Len(inner) <= 1 => HasEmptied(t, rmdir(tr, Last(inner).path), path, TRUE)
         /\ ~(Len(inner) <= 1) =>
              Emptying(t, rmdir(tr, Last(inner).path), path, Front(inner), kid, "next")
<1> DEFINE n == Len(inner)
           P == inner[n].path
           d == Resolve(tr, P)
           R == Itself(t, path)
<1>1. /\ R \in t.dirs /\ IsPath(R) /\ PartlyGone(t, tr, path)
      /\ \A i \in 1 .. n : Activation(t, tr, path, inner, i) /\ IsPath(inner[i].path)
      /\ Innermost(t, tr, path, inner[n], kid, "rmdir")
      /\ n \in Nat \ {0} /\ Len(path) \in Nat /\ Len(R) \in Nat /\ n \in 1 .. n
  BY PartsOfEmptying
<1>2. /\ d \in tr.dirs /\ d = Itself(tr, P) /\ Kids(tr, d) = {} /\ Last(inner).path = P /\ IsPath(P)
      /\ Len(P) = (Len(path) + n) - 1
      /\ IF n = 1 THEN P = path /\ d = R ELSE Len(P) <= MaxLen
  BY <1>1 DEF Activation, Innermost, Last
<1>3. IsSequence(d) /\ d # <<>>
  BY <1>2, ItselfIsASequence DEF IsPath
<1> HIDE DEF d, P
<1>4. Below(tr, d) = {}
  BY <1>2, <1>3, NothingBelow
<1>5. CanRmdir(tr, P)
  BY <1>2, <1>4 DEF CanRmdir
<1>6. rmdir(tr, P) = WithoutOne(tr, d)
  BY <1>2, <1>5, RmdirKeepsTree DEF WithoutOne, IsPath
<1>7. ASSUME n <= 1 PROVE HasEmptied(t, rmdir(tr, P), path, TRUE)
  <2>1. n = 1
    <3>1. n \in Nat \ {0} /\ n <= 1
      BY <1>1, <1>7
    <3> HIDE DEF n
    <3> QED
      BY <3>1
  <2>2. d = R
    BY <1>2, <2>1
  <2> QED
    BY <1>1, <1>4, <1>6, <2>2, AllGone
<1>8. ASSUME ~(n <= 1) PROVE Emptying(t, rmdir(tr, P), path, Front(inner), kid, "next")
  <2> DEFINE other == Front(inner)
             m == n - 1
  <2>1. /\ Len(other) = m /\ m \in Nat \ {0} /\ m + 1 = n /\ m # n /\ m \in 1 .. n /\ m \in 1 .. m
        /\ \A i \in 1 .. m : other[i] = inner[i] /\ i \in 1 .. n
    BY <1>1, <1>8, FrontIs
  <2> HIDE DEF other, m
  <2>2. \A i \in 1 .. m : Activation(t, tr, path, other, i) /\ IsPath(other[i].path)
    <3>1. \A i \in 1 .. Len(other) : Activation(t, tr, path, other, i)
      BY <1>1, <2>1, SameActivations
    <3> QED
      BY <1>1, <2>1, <3>1
  <2>3. Activation(t, tr, path, inner, m) /\ IsPath(inner[m].path) /\ other[m] = inner[m]
    BY <1>1, <2>1
  <2>4. PICK c : c = Resolve(tr, inner[m].path)
    OBVIOUS
  <2>5. d \in Kids(tr, c) /\ inner[m].left = UnreadBut(tr, c, d)
    <3>1. \E e \in Kids(tr, c) : e = Resolve(tr, inner[m + 1].path) /\ inner[m].left = UnreadBut(tr, c, e)
      BY <2>1, <2>3, <2>4 DEF Activation
    <3>2. Resolve(tr, inner[m + 1].path) = d
      BY <2>1 DEF d, P
    <3> QED
      BY <3>1, <3>2
  <2>6. d \in ContentsAt(t, path) /\ Fits(t, path, d)
    <3>1. d \in Kids(tr, Resolve(tr, inner[m].path)) /\ m \in Nat \ {0} /\ Activation(t, tr, path, inner, m)
          /\ IsPath(inner[m].path) /\ PartlyGone(t, tr, path)
      BY <1>1, <2>1, <2>3, <2>4, <2>5
    <3>2. IsPath(R)
      BY <1>1
    <3> HIDE DEF n, R
    <3>4. /\ d \in ContentsAt(t, path)
          /\ Len(Append(inner[m].path, Last(d))) = Len(path) + m
          /\ Fits(t, path, d) <=> Len(Append(inner[m].path, Last(d))) <= MaxLen
      BY <3>1, <3>2, EntryIs DEF R
    <3>3. Len(P) = Len(path) + m /\ Len(P) <= MaxLen
      BY <1>1, <1>2, <1>8, <2>1
    <3> QED
      BY <3>3, <3>4
  <2>7. PICK u : u = WithoutOne(tr, d)
    OBVIOUS
  <2>8. PartlyGone(t, u, path)
    BY <1>1, <2>6, <2>7, OneMoreGone
  <2>9. \A i \in 1 .. m : Activation(t, u, path, other, i) /\ Resolve(u, other[i].path) = Resolve(tr, other[i].path)
    <3>1. d \in Kids(tr, Resolve(tr, other[Len(other)].path)) /\ Len(other) \in Nat \ {0}
      BY <2>1, <2>3, <2>4, <2>5
    <3>2. \A i \in 1 .. Len(other) : Activation(t, tr, path, other, i) /\ IsPath(other[i].path)
      BY <2>1, <2>2
    <3>3. \A i \in 1 .. Len(other) : Activation(t, u, path, other, i) /\ Resolve(u, other[i].path) = Resolve(tr, other[i].path)
      BY <1>1, <2>7, <3>1, <3>2, ActivationsStay
    <3> QED
      BY <2>1, <3>3
  <2>10. Innermost(t, u, path, Last(other), kid, "next")
    <3>1. Last(other) = other[m]
      BY <2>1 DEF Last
    <3>2. other[m].left = Unread(u, c)
      BY <2>3, <2>5, <2>7, UnreadLess
    <3>3. Resolve(u, other[m].path) = c
      BY <2>1, <2>3, <2>4, <2>9
    <3> QED
      BY <3>1, <3>2, <3>3 DEF Innermost
  <2>11. other # <<>>
    BY <2>1, NoFrames
  <2>12. Emptying(t, u, path, other, kid, "next")
    BY <1>1, <2>1, <2>8, <2>9, <2>10, <2>11 DEF Emptying
  <2> QED
    BY <1>6, <2>7, <2>12 DEF other
<1> QED
  BY <1>2, <1>5, <1>7, <1>8

LEMMA Unwound ==
  ASSUME NEW t, NEW tr, NEW path, NEW inner, NEW kid, inner # <<>>,
         Emptying(t, tr, path, inner, kid, "unwind"), IsTree(t), IsTree(tr), IsPath(path),
         IsSequence(inner), ArePaths(inner)
  PROVE  /\ Len(inner) <= 1 => HasEmptied(t, tr, path, FALSE)
         /\ ~(Len(inner) <= 1) => Emptying(t, tr, path, Front(inner), kid, "unwind")
<1> DEFINE n == Len(inner)
           other == Front(inner)
<1>1. /\ Itself(t, path) \in t.dirs /\ PartlyGone(t, tr, path)
      /\ \A i \in 1 .. n : Activation(t, tr, path, inner, i)
      /\ Innermost(t, tr, path, inner[n], kid, "unwind") /\ n \in Nat \ {0}
  BY PartsOfEmptying
<1>2. ~PathsFit(t, path)
  BY <1>1 DEF Innermost
<1>3. HasEmptied(t, tr, path, FALSE)
  BY <1>1, <1>2, NotAllFit, FailedFor
<1>4. ASSUME ~(n <= 1) PROVE Emptying(t, tr, path, other, kid, "unwind")
  <2>1. /\ Len(other) = n - 1 /\ n - 1 \in Nat \ {0} /\ n - 1 <= n
        /\ \A i \in 1 .. n - 1 : other[i] = inner[i]
    BY <1>1, <1>4, FrontIs
  <2> HIDE DEF other
  <2>2. \A i \in 1 .. Len(other) : Activation(t, tr, path, other, i)
    <3>1. /\ Len(other) \in Nat /\ Len(inner) \in Nat /\ Len(other) <= Len(inner)
          /\ \A i \in 1 .. Len(inner) : Activation(t, tr, path, inner, i)
          /\ \A i \in 1 .. Len(other) : other[i].path = inner[i].path
          /\ \A i \in 1 .. Len(other) : i # Len(other) => other[i] = inner[i]
      BY <1>1, <2>1
    <3> QED
      BY <3>1, SameActivations
  <2>3. other # <<>>
    BY <2>1, NoFrames
  <2>4. Innermost(t, tr, path, Last(other), kid, "unwind")
    BY <1>2 DEF Innermost
  <2> QED
    BY <1>1, <2>2, <2>3, <2>4 DEF Emptying
<1> QED
  BY <1>3, <1>4

-----------------------------------------------------------------------------
(* The job of remove_dir: each of its steps                                *)

Empties(p) ==
  start[p] # Unknown /\ call[p].op = "remove_dir_force" /\ DirLinksAt(start[p], call[p].path) = {}

LEMMA WhatEmpties ==
  ASSUME TreeInv, TypesInv, JobInv, NEW p \in Procs, Empties(p),
         pc[p] \in {"open", "next", "unlink", "rmdir", "unwind"}
  PROVE  /\ Emptying(start[p], tree, call[p].path, frames[p], child[p], pc[p])
         /\ IsTree(start[p]) /\ IsTree(tree) /\ IsPath(call[p].path)
         /\ IsSequence(frames[p]) /\ ArePaths(frames[p]) /\ DirLinksAt(start[p], call[p].path) = {}
<1>1. Job(start[p], tree, call[p], at[p], child[p], frames[p], ok[p], pc[p])
  BY DEF JobInv, Empties
<1>2. /\ Holds(pc[p], call[p], at[p], child[p], frames[p]) /\ IsTree(tree)
      /\ Counted(pc[p], frames[p], handles[p])
  BY Steady
<1>3. /\ Emptying(start[p], tree, call[p].path, frames[p], child[p], pc[p]) /\ IsTree(start[p])
  BY <1>1 DEF Job, Empties
<1>4. IsPath(call[p].path) /\ ArePaths(frames[p]) /\ IsSequence(frames[p])
  BY <1>2 DEF Holds, IsPath, Counted
<1> QED
  BY <1>2, <1>3, <1>4 DEF Empties

LEMMA StillEmpties ==
  ASSUME TreeInv, TypesInv, JobInv, NEW p \in Procs,
         pc[p] \in {"open", "next", "unlink", "rmdir", "unwind"}, pc[p] = "rmdir" => frames[p] # <<>>,
         start'[p] = start[p], call'[p] = call[p],
         Empties(p) =>
           IF pc'[p] = "idle" THEN HasEmptied(start[p], tree', call[p].path, ok'[p])
           ELSE Emptying(start[p], tree', call[p].path, frames'[p], child'[p], pc'[p])
  PROVE  JobOf(p)'
<1> SUFFICES ASSUME start[p] # Unknown
             PROVE  Job(start[p], tree', call[p], at'[p], child'[p], frames'[p], ok'[p], pc'[p])
  BY DEF JobOf
<1>1. Job(start[p], tree, call[p], at[p], child[p], frames[p], ok[p], pc[p])
  BY DEF JobInv
<1>2. call[p].op = "remove_dir_force" /\ IsTree(start[p])
  BY <1>1 DEF Job, Making
<1>3. CASE DirLinksAt(start[p], call[p].path) = {}
  BY <1>2, <1>3 DEF Job, Empties
<1>4. CASE DirLinksAt(start[p], call[p].path) # {}
  BY <1>2, <1>4 DEF Job
<1> QED
  BY <1>3, <1>4

LEMMA RemoveDirJob ==
  ASSUME TreeInv, TypesInv, JobInv, NEW p \in Procs, NEW path \in RemovePaths, NEW force \in BOOLEAN,
         remove_dir(p, path, force)
  PROVE  JobOf(p)'
<1>1. /\ start'[p] = tree /\ tree' = tree /\ IsTree(tree) /\ call'[p].path = path
      /\ call'[p].op = IF force THEN "remove_dir_force" ELSE "remove_dir"
      /\ pc'[p] = IF force THEN "open" ELSE "rmdir"
      /\ child'[p] = IF force THEN path ELSE <<>>
      /\ frames'[p] = frames[p] /\ pc[p] = "idle"
  BY Functions DEF remove_dir, Begin, TypesInv, Goto
<1>2. frames'[p] = <<>>
  BY <1>1, Steady DEF Counted
<1>3. CASE force = TRUE
  <2>1. Emptying(tree, tree, path, <<>>, path, "open")
    BY DEF Emptying
  <2>2. call'[p].op = "remove_dir_force" /\ pc'[p] = "open" /\ child'[p] = path
    BY <1>1, <1>3
  <2> QED
    BY <1>1, <1>2, <2>1, <2>2 DEF JobOf, Job
<1>4. CASE force = FALSE
  <2>1. call'[p].op = "remove_dir" /\ pc'[p] = "rmdir"
    BY <1>1, <1>4
  <2> QED
    BY <1>1, <1>2, <2>1 DEF JobOf, Job
<1> QED
  BY <1>3, <1>4

LEMMA OpenJob == ASSUME TreeInv, TypesInv, JobInv, NEW p \in Procs, open_dir(p) PROVE JobOf(p)'
<1> DEFINE t == start[p]
           path == call[p].path
           f == [path |-> child[p], left |-> Listing(tree, Resolve(tree, child[p]))]
<1>1. /\ pc[p] = "open" /\ start'[p] = t /\ call'[p] = call[p] /\ tree' = tree /\ child'[p] = <<>>
      /\ is_dir(tree, child[p]) => pc'[p] = "next" /\ frames'[p] = Append(frames[p], f)
      /\ ~is_dir(tree, child[p]) /\ frames[p] = <<>> => pc'[p] = "idle" /\ ok'[p] = FALSE
  BY Functions DEF open_dir, Goto, FailToOpen, Return
<1>2. ASSUME Empties(p)
      PROVE  IF pc'[p] = "idle" THEN HasEmptied(t, tree', path, ok'[p])
             ELSE Emptying(t, tree', path, frames'[p], child'[p], pc'[p])
  <2>1. /\ Emptying(t, tree, path, frames[p], child[p], "open") /\ DirLinksAt(t, path) = {}
        /\ IsTree(t) /\ IsTree(tree) /\ IsPath(path) /\ IsSequence(frames[p]) /\ ArePaths(frames[p])
    BY <1>1, <1>2, WhatEmpties
  <2>2. CASE frames[p] = <<>>
    <3>1. child[p] = path /\ tree = t
      BY <2>1, <2>2 DEF Emptying
    <3>2. CASE is_dir(tree, child[p])
      <4>1. Emptying(t, t, path, Append(<<>>, f), <<>>, "next")
        BY <2>1, <3>1, <3>2, FirstOpened
      <4> HIDE DEF f, t, path
      <4> QED
        BY <1>1, <2>2, <3>1, <3>2, <4>1
    <3>3. CASE ~is_dir(tree, child[p])
      <4>1. HasEmptied(t, t, path, FALSE)
        BY <2>1, <3>1, <3>3, FirstOpened
      <4> HIDE DEF f, t, path
      <4> QED
        BY <1>1, <2>2, <3>1, <3>3, <4>1
    <3> QED
      BY <3>2, <3>3
  <2>3. CASE frames[p] # <<>>
    <3>1. f.path = child[p] /\ f.left = Listing(tree, Resolve(tree, child[p]))
      OBVIOUS
    <3> HIDE DEF f, t, path
    <3>2. is_dir(tree, child[p]) /\ Emptying(t, tree, path, Append(frames[p], f), <<>>, "next")
      BY <2>1, <2>3, <3>1, InnerOpened
    <3> QED
      BY <1>1, <3>2
  <2> QED
    BY <2>2, <2>3
<1> QED
  BY <1>1, <1>2, StillEmpties

LEMMA BigPath == ASSUME NEW s, IsSequence(s) PROVE (Len(s) <= MaxLen) <=> ~(Len(s) > MaxLen)
BY FsTreeAssumption, LenProperties DEF IsSequence

LEMMA NextDirJob == ASSUME TreeInv, TypesInv, JobInv, NEW p \in Procs, next_dir(p) PROVE JobOf(p)'
<1> DEFINE t == start[p]
           path == call[p].path
           s == frames[p]
<1>1. pc[p] = "next" /\ start'[p] = t /\ call'[p] = call[p] /\ tree' = tree
  BY Functions DEF next_dir
<1>2. ASSUME Empties(p)
      PROVE  pc'[p] # "idle" /\ Emptying(t, tree', path, frames'[p], child'[p], pc'[p])
  <2>1. /\ Emptying(t, tree, path, s, child[p], "next") /\ DirLinksAt(t, path) = {}
        /\ IsTree(t) /\ IsTree(tree) /\ IsPath(path) /\ IsSequence(s) /\ ArePaths(s)
    BY <1>1, <1>2, WhatEmpties
  <2>2. s # <<>> /\ Len(s) \in Nat \ {0} /\ DOMAIN s = 1 .. Len(s)
    <3>1. s # <<>>
      BY <2>1 DEF Emptying
    <3> QED
      BY <2>1, <3>1, FrontOf, LenProperties DEF IsSequence
  <2>3. PICK f : f = Last(s)
    OBVIOUS
  <2>4. PICK entry \in f.left :
          IF Len(Append(f.path, entry.name)) > MaxLen
          THEN Goto(p, "unwind") /\ UNCHANGED <<frames, child>>
          ELSE /\ frames' = [frames EXCEPT ![p][Len(s)].left = @ \ {entry}]
               /\ child' = [child EXCEPT ![p] = Append(f.path, entry.name)]
               /\ Goto(p, IF IsDirEntry(tree, f.path, entry) THEN "open" ELSE "unlink")
    BY <2>3 DEF next_dir, Top
  <2>5. PICK k : k = Append(f.path, entry.name)
    OBVIOUS
  <2>10. IsSequence(k)
    BY <2>1, <2>2, <2>3, <2>5, PathsPopped, Appended DEF IsPath
  <2> DEFINE g == [s[Len(s)] EXCEPT !.left = f.left \ {entry}]
             other == [s EXCEPT ![Len(s)] = g]
  <2>6. s[Len(s)] = f /\ "left" \in DOMAIN f
    BY <2>1, <2>2, <2>3, PathsPopped DEF Last
  <2>7. g.path = f.path /\ g.left = f.left \ {entry}
    BY <2>6
  <2>8. CASE Len(k) <= MaxLen
    <3>1. /\ frames' = [frames EXCEPT ![p] = [s EXCEPT ![Len(s)].left = @ \ {entry}]]
          /\ child'[p] = k /\ pc'[p] = IF IsDirEntry(tree, f.path, entry) THEN "open" ELSE "unlink"
      <4>1. ~(Len(k) > MaxLen)
        BY <2>8, <2>10, BigPath
      <4> QED
        BY <2>4, <2>5, <4>1, Functions DEF Goto
    <3>2. frames'[p] = other
      BY <2>6, <3>1, Functions
    <3> HIDE DEF g
    <3>3. OnlyInnermost(s, g, other)
      BY <2>1, <2>2, Renewed DEF OnlyInnermost
    <3> HIDE DEF other, t, path, s
    <3>4. Emptying(t, tree, path, other, k, IF IsDirEntry(tree, f.path, entry) THEN "open" ELSE "unlink")
      BY <2>1, <2>2, <2>3, <2>5, <2>7, <2>8, <3>3, TookEntry
    <3> QED
      BY <1>1, <3>1, <3>2, <3>4
  <2>9. CASE ~(Len(k) <= MaxLen)
    <3>1. pc'[p] = "unwind" /\ frames'[p] = s /\ child'[p] = child[p]
      <4>1. Len(k) > MaxLen
        BY <2>9, <2>10, BigPath
      <4> QED
        BY <2>4, <2>5, <4>1, Functions DEF Goto
    <3>2. OnlyInnermost(s, g, other)
      <4> HIDE DEF g
      <4> QED
        BY <2>1, <2>2, Renewed DEF OnlyInnermost
    <3> HIDE DEF g, other, t, path, s
    <3>3. Emptying(t, tree, path, s, child[p], "unwind")
      BY <2>1, <2>2, <2>3, <2>5, <2>7, <2>9, <3>2, TookEntry
    <3> QED
      BY <1>1, <3>1, <3>3
  <2> QED
    BY <2>8, <2>9
<1> QED
  BY <1>1, <1>2, StillEmpties

LEMMA EndOfDirJob == ASSUME TreeInv, TypesInv, JobInv, NEW p \in Procs, end_of_dir(p) PROVE JobOf(p)'
<1>1. /\ pc[p] = "next" /\ start'[p] = start[p] /\ call'[p] = call[p] /\ tree' = tree
      /\ pc'[p] = "rmdir" /\ child'[p] = child[p] /\ frames'[p] = frames[p] /\ Last(frames[p]).left = {}
  BY Functions DEF end_of_dir, Goto, Top
<1>2. ASSUME Empties(p)
      PROVE  Emptying(start[p], tree, call[p].path, frames[p], child[p], "rmdir")
  BY <1>1, <1>2, WhatEmpties, EndReached DEF Emptying
<1> QED
  BY <1>1, <1>2, StillEmpties

LEMMA RemoveFileJob == ASSUME TreeInv, TypesInv, JobInv, NEW p \in Procs, remove_file(p) PROVE JobOf(p)'
<1> DEFINE t == start[p]
           path == call[p].path
<1>1. /\ pc[p] = "unlink" /\ call'[p] = call[p] /\ child'[p] = <<>> /\ frames'[p] = frames[p]
      /\ start'[p] = t
      /\ CanUnlink(tree, child[p]) => tree' = unlink(tree, child[p]) /\ pc'[p] = "next"
  BY Functions DEF remove_file, Goto, Replace
<1>2. ASSUME Empties(p)
      PROVE  pc'[p] # "idle" /\ Emptying(t, tree', path, frames'[p], child'[p], pc'[p])
  <2>1. /\ Emptying(t, tree, path, frames[p], child[p], "unlink") /\ DirLinksAt(t, path) = {}
        /\ IsTree(t) /\ IsTree(tree) /\ IsPath(path) /\ IsSequence(frames[p]) /\ ArePaths(frames[p])
    BY <1>1, <1>2, WhatEmpties
  <2>2. frames[p] # <<>>
    BY <2>1 DEF Emptying
  <2> HIDE DEF t, path
  <2>3. CanUnlink(tree, child[p]) /\ Emptying(t, unlink(tree, child[p]), path, frames[p], <<>>, "next")
    BY <2>1, <2>2, FileGone
  <2> QED
    BY <1>1, <2>3
<1> QED
  BY <1>1, <1>2, StillEmpties

\* remove_dir without force is one rmdir.
LEMMA JustRemoved ==
  ASSUME TreeInv, TypesInv, JobInv, NEW p \in Procs, remove_empty(p), frames[p] = <<>>
  PROVE  JobOf(p)'
<1> DEFINE t == start[p]
           path == call[p].path
<1>1. /\ pc[p] = "rmdir" /\ call'[p] = call[p] /\ start'[p] = t /\ pc'[p] = "idle"
      /\ IF CanRmdir(tree, path) THEN tree' = rmdir(tree, path) /\ ok'[p] = TRUE
         ELSE tree' = tree /\ ok'[p] = FALSE
  <2>1. Len(frames[p]) <= 1
    BY NoFrames
  <2> QED
    BY <2>1, Functions DEF remove_empty, Replace, Leave, Return, Goto
<1> SUFFICES ASSUME t # Unknown
             PROVE  Job(t, tree', call[p], at'[p], child'[p], frames'[p], ok'[p], "idle")
  BY <1>1 DEF JobOf
<1>2. Job(t, tree, call[p], at[p], child[p], <<>>, ok[p], "rmdir")
  BY <1>1 DEF JobInv
<1>3. IsTree(t) /\ call[p].op \in {"remove_dir", "remove_dir_force"}
  BY <1>2 DEF Job, Making
<1>4. CASE call[p].op = "remove_dir_force"
  <2>1. DirLinksAt(t, path) # {}
    BY <1>2, <1>4 DEF Job, Emptying
  <2> QED
    BY <1>3, <1>4, <2>1 DEF Job
<1>5. CASE call[p].op = "remove_dir"
  <2>1. tree = t
    BY <1>2, <1>5 DEF Job
  <2>2. CanRemove(t, path, FALSE) <=> CanRmdir(t, path)
    BY DEF CanRemove, CanRmdir, ContentsAt
  <2>3. CASE CanRmdir(t, path)
    <3>1. IsPath(path)
      BY <1>1, Steady DEF Holds, IsPath
    <3>2. rmdir(t, path) = Without(t, {Itself(t, path)})
      BY <1>3, <2>3, <3>1, RmdirKeepsTree DEF IsPath
    <3>3. ContentsAt(t, path) \cup {Itself(t, path)} = {Itself(t, path)}
      BY <2>3 DEF CanRmdir, ContentsAt
    <3>4. HasRemoved(t, rmdir(t, path), path)
      BY <3>2, <3>3 DEF HasRemoved
    <3> QED
      BY <1>1, <1>3, <1>5, <2>1, <2>2, <2>3, <3>4 DEF Job
  <2>4. CASE ~CanRmdir(t, path)
    BY <1>1, <1>3, <1>5, <2>1, <2>2, <2>4 DEF Job
  <2> QED
    BY <2>3, <2>4
<1> QED
  BY <1>3, <1>4, <1>5

LEMMA RemoveEmptyJob ==
  ASSUME TreeInv, TypesInv, JobInv, NEW p \in Procs, remove_empty(p), frames[p] # <<>>
  PROVE  JobOf(p)'
<1> DEFINE t == start[p]
           path == call[p].path
           inner == frames[p]
           P == Last(inner).path
<1>1. /\ pc[p] = "rmdir" /\ call'[p] = call[p] /\ start'[p] = t /\ child'[p] = child[p]
      /\ frames'[p] = Front(inner)
  BY Functions DEF remove_empty, Replace, Leave
<1>2. CanRmdir(tree, P) =>
        /\ tree' = rmdir(tree, P)
        /\ IF Len(inner) <= 1 THEN pc'[p] = "idle" /\ ok'[p] = TRUE ELSE pc'[p] = "next"
  BY Functions DEF remove_empty, Replace, Leave, Return, Goto, Top
<1>3. ASSUME Empties(p)
      PROVE  IF pc'[p] = "idle" THEN HasEmptied(t, tree', path, ok'[p])
             ELSE Emptying(t, tree', path, frames'[p], child'[p], pc'[p])
  <2>1. /\ Emptying(t, tree, path, inner, child[p], "rmdir") /\ DirLinksAt(t, path) = {}
        /\ IsTree(t) /\ IsTree(tree) /\ IsPath(path) /\ IsSequence(inner) /\ ArePaths(inner)
    BY <1>1, <1>3, WhatEmpties
  <2>2. inner # <<>>
    OBVIOUS
  <2> HIDE DEF t, path, inner
  <2>3. /\ CanRmdir(tree, P)
        /\ Len(inner) <= 1 => HasEmptied(t, rmdir(tree, P), path, TRUE)
        /\ ~(Len(inner) <= 1) => Emptying(t, rmdir(tree, P), path, Front(inner), child[p], "next")
    BY <2>1, <2>2, DirGone
  <2> QED
    BY <1>1, <1>2, <2>3
<1> QED
  BY <1>1, <1>3, StillEmpties

LEMMA UnwindJob == ASSUME TreeInv, TypesInv, JobInv, NEW p \in Procs, unwind(p) PROVE JobOf(p)'
<1> DEFINE t == start[p]
           path == call[p].path
           inner == frames[p]
<1>1. inner # <<>> /\ pc[p] = "unwind"
  BY Steady DEF Counted, unwind
<1>2. /\ call'[p] = call[p] /\ start'[p] = t /\ child'[p] = child[p] /\ tree' = tree
      /\ frames'[p] = Front(inner)
      /\ IF Len(inner) <= 1 THEN pc'[p] = "idle" /\ ok'[p] = FALSE ELSE pc'[p] = "unwind"
  BY <1>1, Functions DEF unwind, Leave, Return, Goto
<1>3. ASSUME Empties(p)
      PROVE  IF pc'[p] = "idle" THEN HasEmptied(t, tree', path, ok'[p])
             ELSE Emptying(t, tree', path, frames'[p], child'[p], pc'[p])
  <2>1. /\ Emptying(t, tree, path, inner, child[p], "unwind")
        /\ IsTree(t) /\ IsTree(tree) /\ IsPath(path) /\ IsSequence(inner) /\ ArePaths(inner)
    BY <1>1, <1>3, WhatEmpties
  <2> HIDE DEF t, path, inner
  <2>2. /\ Len(inner) <= 1 => HasEmptied(t, tree, path, FALSE)
        /\ ~(Len(inner) <= 1) => Emptying(t, tree, path, Front(inner), child[p], "unwind")
    BY <1>1, <2>1, Unwound
  <2> QED
    BY <1>2, <2>2
<1> QED
  BY <1>1, <1>2, <1>3, StillEmpties

LEMMA FaultJob ==
  ASSUME TreeInv, TypesInv, JobInv, NEW p \in Procs, open_dir_fault(p) \/ read_dir_fault(p)
  PROVE  JobOf(p)'
<1>1. start'[p] = Unknown
  BY Functions DEF open_dir_fault, read_dir_fault, Fault
<1> QED
  BY <1>1 DEF JobOf

LEMMA JobStep == TreeInv /\ TypesInv /\ JobInv /\ [Next]_vars => JobInv'
<1> SUFFICES ASSUME TreeInv, TypesInv, JobInv, [Next]_vars PROVE JobInv'
  OBVIOUS
<1>1. ASSUME NEW p \in Procs,
             \/ \E path \in MkdirPaths : mkdir_all(p, path)
             \/ \E path \in RemovePaths, force \in BOOLEAN : remove_dir(p, path, force)
             \/ InCall(p) \/ open_dir_fault(p) \/ read_dir_fault(p)
      PROVE  JobInv'
  <2>1. JobOf(p)'
    BY <1>1, MkdirAllJob, RemoveDirJob, MakingJob, OpenJob, NextDirJob, EndOfDirJob, RemoveFileJob,
       JustRemoved, RemoveEmptyJob, UnwindJob, FaultJob DEF InCall
  <2>2. Others(p)
    BY <1>1, OthersWait
  <2> QED
    BY <2>1, <2>2, OneJob
<1>2. CASE UNCHANGED vars
  BY <1>2 DEF vars, local, JobInv
<1> QED
  BY <1>1, <1>2 DEF Next

LEMMA JobInit == Init => JobInv
BY DEF Init, JobInv

(***************************************************************************)
(* Whatever the tree and the path, of any size, and wherever the links in  *)
(* the tree lead, through up to MaxLinks others: as long as no other       *)
(* process changes the tree and no system call fails for a reason that is  *)
(* not in it, cpr_mkdir_all makes all of the missing directories and       *)
(* nothing else, or fails because something that is no directory is in the *)
(* way or the path is empty or too long; and cpr_remove_dir removes all it *)
(* should and nothing else, or fails because it cannot (fs.h 97 and 104,   *)
(* fs.c 432-472 and 502-560).  Left out is a removal with force where a    *)
(* link to a directory is at the path or below it: there the code does     *)
(* not do this (ForcedRemovalSucceeds).                                    *)
(***************************************************************************)
THEOREM UndisturbedCallsAreRight == Spec => []UndisturbedCallsDoTheirJob
<1>1. TypesInv /\ JobInv => UndisturbedCallsDoTheirJob
  <2> SUFFICES ASSUME TypesInv, JobInv, NEW p \in Procs
               PROVE  LET t == start[p]  path == call[p].path IN
                        /\ Undisturbed(p, "mkdir_all") => MkdirAllDone(p, t, path)
                        /\ Undisturbed(p, "remove_dir") =>
                             IF CanRemove(t, path, FALSE) THEN Removed(p, t, path) ELSE ~ok[p] /\ tree = t
                        /\ Undisturbed(p, "remove_dir_force") /\ DirLinksAt(t, path) = {} =>
                             IF CanRemove(t, path, TRUE) THEN Removed(p, t, path)
                             ELSE ~ok[p] /\ Without(t, ContentsAt(t, path)) = Without(tree, ContentsAt(t, path))
    BY DEF UndisturbedCallsDoTheirJob
  <2>1. start[p] # Unknown =>
          Job(start[p], tree, call[p], at[p], child[p], frames[p], ok[p], pc[p])
    BY DEF JobInv
  <2>2. Undisturbed(p, "mkdir_all") => MkdirAllDone(p, start[p], call[p].path)
    BY <2>1 DEF Undisturbed, Job, HasMade, MkdirAllDone
  <2>3. Undisturbed(p, "remove_dir") =>
          IF CanRemove(start[p], call[p].path, FALSE) THEN Removed(p, start[p], call[p].path)
          ELSE ~ok[p] /\ tree = start[p]
    BY <2>1 DEF Undisturbed, Job, HasRemoved, Removed
  <2>4. Undisturbed(p, "remove_dir_force") /\ DirLinksAt(start[p], call[p].path) = {} =>
          IF CanRemove(start[p], call[p].path, TRUE) THEN Removed(p, start[p], call[p].path)
          ELSE ~ok[p] /\ Without(start[p], ContentsAt(start[p], call[p].path))
                           = Without(tree, ContentsAt(start[p], call[p].path))
    BY <2>1 DEF Undisturbed, Job, HasEmptied, HasRemoved, Removed
  <2> QED
    BY <2>2, <2>3, <2>4
<1> QED
  BY <1>1, TreeInit, TreeStep, TypesInit, TypesStep, JobInit, JobStep, PTL DEF Spec
=============================================================================
