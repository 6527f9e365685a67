-------------------------------- MODULE FileIO --------------------------------
(***************************************************************************)
(* The calls of src/fs.c that move whole files: cpr_fs_copy,               *)
(* cpr_read_file_all and cpr_write_file_all, over the C library's streams. *)
(* A call opens, measures, reads, writes and closes in steps of its own;   *)
(* any of them may fail, and another process may rewrite a file that the   *)
(* call only reads.                                                        *)
(*                                                                         *)
(* What fwrite has taken and not yet given to the system is `pending'; the *)
(* library passes on as much of it as it likes with each write, and the    *)
(* rest when the stream is closed.                                         *)
(***************************************************************************)
EXTENDS Integers, Sequences, SequencesExt

CONSTANTS
  Files,
  Contents,   \* what files hold at first, what is written to them
  Chunk,      \* bytes of copy's buffer, 8192 in the code
  BufSizes,   \* sizes of the caller's buffers for read_file_all
  IOFaults    \* "open", "seek", "read", "write", "close", "unlink": calls of
              \* the C library that may fail

Bytes == 0 .. 255

ASSUME FileIOAssumption ==
  /\ Chunk \in Nat \ {0} /\ BufSizes \subseteq Nat
  /\ <<>> \in Contents /\ Contents \subseteq Seq(Bytes)
  /\ IOFaults \subseteq {"open", "seek", "read", "write", "close", "unlink"}

VARIABLES
  disk,       \* a partial function from files to sequences of bytes
  io,         \* the current or last call: op and its arguments
  iopc,
  pos, eof,   \* the input stream
  pending,    \* the output stream's buffer
  buf,        \* copy's buf; read_file_all's and write_file_all's data
  sz,         \* read_file_all's sz
  ioret,      \* copy's ok; once the call has returned, its result
  opened,     \* CprFile objects allocated and not freed
  created,    \* has the call got an output stream?
  leftover,   \* has copy's own unlink failed?
  before,     \* the disk when the call began
  disturbed   \* has another process written since?

stream == <<pos, eof, pending, buf, sz>>
ghosts == <<created, leftover, before, disturbed>>
iovars == <<disk, io, iopc, stream, ioret, opened, ghosts>>

\* Disks
Exists(d, f) == f \in DOMAIN d
Put(d, f, content) == [g \in DOMAIN d \cup {f} |-> IF g = f THEN content ELSE d[g]]
Unlink(d, f) == [g \in DOMAIN d \ {f} |-> d[g]]

Least(m, n) == IF m <= n THEN m ELSE n
Prefix(s, n) == SubSeq(s, 1, n)
NextBytes(n) == SubSeq(disk[io.src], pos + 1, Least(pos + n, Len(disk[io.src])))

IOInit ==
  /\ disk \in UNION {[present -> Contents] : present \in SUBSET Files}
  /\ io = [op |-> "none"] /\ iopc = "idle"
  /\ pos = 0 /\ eof = FALSE /\ pending = <<>> /\ buf = <<>> /\ sz = 0
  /\ ioret = TRUE /\ opened = 0
  /\ created = FALSE /\ leftover = FALSE /\ before = disk /\ disturbed = FALSE

Enter(c, place) ==
  /\ iopc = "idle" /\ io' = c /\ iopc' = place
  /\ created' = FALSE /\ leftover' = FALSE /\ before' = disk /\ disturbed' = FALSE
  /\ UNCHANGED disk

copy(src, dst) ==
  /\ Enter([op |-> "copy", src |-> src, dst |-> dst], "open_in")
  /\ ioret' = TRUE /\ buf' = <<>>
  /\ UNCHANGED <<pos, eof, pending, sz, opened>>

read_file_all(path, buf_size) ==
  /\ Enter([op |-> "read_all", src |-> path, buf_size |-> buf_size], "open_in")
  /\ buf' = <<>>
  /\ UNCHANGED <<pos, eof, pending, sz, ioret, opened>>

write_file_all(path, data) ==
  /\ Enter([op |-> "write_all", dst |-> path, data |-> data], "open_out")
  /\ buf' = data
  /\ UNCHANGED <<pos, eof, pending, sz, ioret, opened>>

Finish(result) ==
  /\ iopc' = "idle" /\ ioret' = result
  /\ pos' = 0 /\ eof' = FALSE /\ pending' = <<>> /\ sz' = 0

-----------------------------------------------------------------------------
(* Steps *)

May(fault) == fault \in IOFaults

\* cpr_open_file(src, CPR_FILE_READ)
open_in ==
  /\ iopc = "open_in"
  /\ \/ /\ Exists(disk, io.src)
        /\ opened' = opened + 1
        /\ iopc' = IF io.op = "copy" THEN "open_out" ELSE "measure"
        /\ UNCHANGED <<stream, ioret>>
     \/ /\ ~Exists(disk, io.src) \/ May("open")
        /\ Finish(FALSE) /\ UNCHANGED <<buf, opened>>
  /\ UNCHANGED <<disk, io, ghosts>>

\* cpr_open_file(dst, CPR_FILE_WRITE) creates the file or empties it, also
\* when it fails in the end for want of memory.
open_out ==
  /\ iopc = "open_out"
  /\ \/ /\ disk' = Put(disk, io.dst, <<>>)
        /\ opened' = opened + 1 /\ created' = TRUE
        /\ iopc' = IF io.op = "copy" THEN "read" ELSE "write"
        /\ UNCHANGED <<stream, ioret>>
     \/ /\ May("open")
        /\ disk' \in {disk, Put(disk, io.dst, <<>>)}
        /\ Finish(FALSE) /\ opened' = 0
        /\ UNCHANGED <<buf, created>>
  /\ UNCHANGED <<io, leftover, before, disturbed>>

\* cpr_read_file(in, buf, n), as far as the file reaches.
fread(n) ==
  /\ buf' = NextBytes(n) /\ pos' = pos + Len(buf')
  /\ eof' = (eof \/ Len(buf') < n)

\* A read error may come after some of the bytes; it does not set eof.
fread_fails(n) ==
  /\ May("read")
  /\ \E k \in 0 .. Len(NextBytes(n)) :
       k < n /\ buf' = NextBytes(k) /\ pos' = pos + k
  /\ UNCHANGED eof

Bug_read_chunk ==  \* mutant: the loop runs while n >= 0, n being unsigned
  /\ iopc = "read"
  /\ fread(Chunk) \/ fread_fails(Chunk)
  /\ iopc' = "write" /\ ioret' = TRUE
  /\ UNCHANGED <<disk, io, pending, sz, opened, ghosts>>

read_chunk ==
  /\ iopc = "read"
  /\ fread(Chunk) \/ fread_fails(Chunk)
  /\ iopc' = IF buf' # <<>> THEN "write" ELSE "close"
  /\ ioret' = (buf' # <<>> \/ eof')
  /\ UNCHANGED <<disk, io, pending, sz, opened, ghosts>>

\* fwrite takes m bytes and passes on k of all it holds.
fwrite(m, k) ==
  LET all == pending \o Prefix(buf, m) IN
    /\ k <= Len(all)
    /\ disk' = Put(disk, io.dst, disk[io.dst] \o Prefix(all, k))
    /\ pending' = SubSeq(all, k + 1, Len(all))

Bug_write ==  \* mutant: a short write is not noticed
  /\ iopc = "write"
  /\ \E m \in 0 .. Len(buf), k \in 0 .. Len(pending) + Len(buf) :
       /\ m < Len(buf) => May("write")
       /\ fwrite(m, k)
       /\ ioret' = (m > 0 \/ buf = <<>>)
       /\ iopc' = IF ioret' /\ io.op = "copy" THEN "read" ELSE "close"
  /\ UNCHANGED <<io, pos, eof, buf, sz, opened, ghosts>>

\* cpr_write_file(out, buf, n): all of it, or on an error less.
write ==
  /\ iopc = "write"
  /\ \E m \in 0 .. Len(buf), k \in 0 .. Len(pending) + Len(buf) :
       /\ m < Len(buf) => May("write")
       /\ fwrite(m, k)
       /\ ioret' = (m = Len(buf))
       /\ iopc' = IF ioret' /\ io.op = "copy" THEN "read" ELSE "close"
  /\ UNCHANGED <<io, pos, eof, buf, sz, opened, ghosts>>

\* cpr_close_file of both streams: fclose's result, and with it the loss of
\* what it could not write, is dropped.
close ==
  /\ iopc = "close"
  /\ \E k \in 0 .. Len(pending) :
       /\ k < Len(pending) => May("close")
       /\ disk' = Put(disk, io.dst, disk[io.dst] \o Prefix(pending, k))
  /\ opened' = 0
  /\ IF ioret \/ io.op = "write_all"
     THEN Finish(ioret) /\ UNCHANGED buf
     ELSE iopc' = "remove" /\ UNCHANGED <<stream, ioret>>
  /\ UNCHANGED <<io, ghosts>>

Bug_remove ==  \* mutant: what was copied so far stays
  /\ iopc = "remove"
  /\ Finish(FALSE)
  /\ UNCHANGED <<disk, io, buf, opened, ghosts>>

\* cpr_remove_file's result is dropped as well.
remove ==
  /\ iopc = "remove"
  /\ \/ disk' = Unlink(disk, io.dst) /\ UNCHANGED leftover
     \/ May("unlink") /\ leftover' = TRUE /\ UNCHANGED disk
  /\ Finish(FALSE)
  /\ UNCHANGED <<io, buf, opened, created, before, disturbed>>

\* cpr_file_size: to the end and back; the way back may fail unnoticed.
measure ==
  /\ iopc = "measure"
  /\ \/ /\ sz' = Len(disk[io.src])
        /\ \/ UNCHANGED pos
           \/ May("seek") /\ pos' = sz'
        /\ iopc' = "check_size"
        /\ UNCHANGED <<eof, pending, buf, ioret, opened>>
     \/ /\ May("seek")
        /\ Finish(FALSE) /\ opened' = opened - 1 /\ UNCHANGED buf
  /\ UNCHANGED <<disk, io, ghosts>>

Bug_check_size ==  \* mutant: a file too long is not closed
  /\ iopc = "check_size"
  /\ IF sz > io.buf_size
     THEN Finish(FALSE) /\ UNCHANGED <<buf, opened>>
     ELSE iopc' = "read_all" /\ UNCHANGED <<stream, ioret, opened>>
  /\ UNCHANGED <<disk, io, ghosts>>

check_size ==
  /\ iopc = "check_size"
  /\ IF sz > io.buf_size
     THEN Finish(FALSE) /\ opened' = opened - 1 /\ UNCHANGED buf
     ELSE iopc' = "read_all" /\ UNCHANGED <<stream, ioret, opened>>
  /\ UNCHANGED <<disk, io, ghosts>>

Bug_read_all ==  \* mutant: everything the file holds by now is read
  /\ iopc = "read_all"
  /\ buf' = NextBytes(Len(disk[io.src]))
  /\ opened' = opened - 1
  /\ Finish(Len(buf') >= sz)
  /\ UNCHANGED <<disk, io, ghosts>>

\* As much as the file was long; the file is closed before the count is judged.
read_all ==
  /\ iopc = "read_all"
  /\ buf' = NextBytes(sz) \/ (May("read") /\ \E k \in 0 .. Len(NextBytes(sz)) : buf' = NextBytes(k))
  /\ opened' = opened - 1
  /\ Finish(Len(buf') = sz)
  /\ UNCHANGED <<disk, io, ghosts>>

\* Another process rewrites a file this call does not write.  Bound: once in
\* a call.
other_write(f, content) ==
  /\ iopc # "idle" /\ Exists(disk, f) /\ ~disturbed
  /\ ~(created /\ f = io.dst)
  /\ disk' = Put(disk, f, content)
  /\ disturbed' = TRUE
  /\ UNCHANGED <<io, iopc, stream, ioret, opened, created, leftover, before>>

IOStep ==
  \/ open_in \/ open_out \/ read_chunk \/ write \/ close \/ remove
  \/ measure \/ check_size \/ read_all

IONext ==
  \/ \E src, dst \in Files : copy(src, dst)
  \/ \E path \in Files, buf_size \in BufSizes : read_file_all(path, buf_size)
  \/ \E path \in Files, data \in Contents : write_file_all(path, data)
  \/ \E f \in Files, content \in Contents : other_write(f, content)
  \/ IOStep

IOSpec == IOInit /\ [][IONext]_iovars

\* The caller keeps running.
IOFairSpec == IOSpec /\ WF_iovars(IOStep)

-----------------------------------------------------------------------------
(* Properties *)

Returned(op) == iopc = "idle" /\ io.op = op
Quietly(op) == Returned(op) /\ ~disturbed

\* No call leaves a file open, whichever step of it failed.
FilesClosed ==
  /\ opened \in 0 .. 2
  /\ iopc = "idle" => opened = 0

\* fs.h 109: "Copies a file from `src_path` to `dst_path`. Creates or
\* overwrites `dst_path`": true means that it holds what src held, false that
\* no part of a copy is left, unless the unlink that should have removed it
\* failed too: then the first part of src is there, never anything else.
\* Every other file is as it was.  A file is not copied onto itself.
CopyIsAllOrNothing ==
  Quietly("copy") /\ io.src # io.dst =>
    IF ioret THEN disk = Put(before, io.dst, before[io.src])
    ELSE IF ~created THEN disk \in {before, Put(before, io.dst, <<>>)}
    ELSE IF ~leftover THEN disk = Unlink(before, io.dst)
    ELSE \E k \in 0 .. Len(before[io.src]) :
           disk = Put(before, io.dst, Prefix(before[io.src], k))

\* fs.h 175: "Writes `data_size` bytes from `data` to `path`, creating or
\* overwriting it": true means that they are there.
WriteAllIsFaithful ==
  Quietly("write_all") =>
    /\ ioret => disk = Put(before, io.dst, io.data)
    /\ ~ioret => \/ disk = before
              \/ \E k \in 0 .. Len(io.data) : disk = Put(before, io.dst, Prefix(io.data, k))

\* fs.h 170: "Reads the entire contents of `path` into `buf`", and never more
\* than the buffer takes, even if the file grows after it was measured.
ReadAllIsFaithful ==
  /\ Quietly("read_all") /\ ioret => buf = before[io.src]
  /\ Returned("read_all") => Len(buf) <= io.buf_size

\* What cpr_write_file_all and cpr_read_file_all promise, whichever of the two
\* was called.
WholeFilesAreFaithful == WriteAllIsFaithful /\ ReadAllIsFaithful

\* Every call returns: copy's loop ends on its input's end or on an error.
IOCallsReturn == (iopc # "idle") ~> (iopc = "idle")
=============================================================================
