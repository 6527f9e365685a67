-------------------------------- MODULE Arena --------------------------------
(***************************************************************************)
(* src/arena.c: a bump allocator over one buffer.  Addresses, sizes and    *)
(* offsets are size_t / uintptr_t values, so every sum and difference      *)
(* below wraps modulo SizeMod (2^64 on a 64-bit build).                    *)
(***************************************************************************)
EXTENDS Integers, Sequences

CONSTANTS
  SizeMod,           \* number of values of a size_t
  MallocRegions,     \* [base, cap]: what the arena's allocator can return
  CallerRegions,     \* [base, cap]: buffers handed to cpr_arena_init_buf
  RequestSizes,             \* sizes requested
  Alignments,        \* alignments requested, powers of two or not
  DefaultAlignment,  \* CPR_DEFAULT_ALIGNMENT
  MaxBlocks          \* bound on the blocks alive at once

SizeT == 0 .. SizeMod - 1
NULL  == 0

Regions == MallocRegions \cup CallerRegions

\* A buffer is a nonempty range of nonzero addresses that does not wrap.
ASSUME ArenaAssumption ==
  /\ SizeMod \in Nat \ {0}
  /\ \A r \in Regions : /\ r = [base |-> r.base, cap |-> r.cap]
                        /\ r.base \in SizeT \ {NULL} /\ r.cap \in SizeT \ {0}
                        /\ r.base + r.cap < SizeMod
  /\ RequestSizes \subseteq SizeT
  /\ Alignments \subseteq SizeT
  /\ DefaultAlignment \in Alignments
  /\ MaxBlocks \in Nat

VARIABLES
  buf, cap, offset, prev_offset,  \* struct CprArena
  can_free,    \* is arena->allocator.free non-NULL?
  heap,        \* buffers taken from the allocator and not given back
  pointer, error,  \* what the last call returned; its error code
  blocks,      \* the blocks the caller may still use, oldest first
  newest_live  \* is the last of them the one a rewind takes back?

arena  == <<buf, cap, offset, prev_offset, can_free>>
caller == <<blocks, newest_live>>
arvars == <<arena, heap, pointer, error, caller>>

Plus(a, b)  == (a + b) % SizeMod
Minus(a, b) == (a - b) % SizeMod

is_pow2(v) == v # 0 /\ \E k \in 0 .. v : v = 2 ^ k

\* Every buffer ends on every alignment requested, and the address space does
\* not end right behind it: true of malloc's buffers, and of a caller's whose
\* start and size are multiples of the alignments.
PaddingFits ==
  \A r \in Regions, a \in Alignments :
    is_pow2(a) => (r.base + r.cap) % a = 0 /\ r.base + r.cap + a <= SizeMod

\* (offset + (alignment - 1)) & ~(alignment - 1)
align_up(address, alignment) ==
  LET raised == Plus(address, alignment - 1)
  IN  raised - (raised % alignment)

ArenaInit ==
  /\ buf = NULL /\ cap = 0 /\ offset = 0 /\ prev_offset = 0
  /\ can_free = FALSE /\ heap = 0
  /\ pointer = NULL /\ error = "ok"
  /\ blocks = <<>> /\ newest_live = FALSE

-----------------------------------------------------------------------------
\* The caller initializes an arena that holds no buffer.
UseRegion(r, owned) ==
  /\ cap = 0
  /\ buf' = r.base /\ cap' = r.cap
  /\ offset' = 0 /\ prev_offset' = 0
  /\ can_free' = owned
  /\ UNCHANGED <<pointer, error, caller>>

init(r) ==
  /\ UseRegion(r, TRUE)
  /\ heap' = heap + 1

init_oom ==
  /\ cap = 0
  /\ error' = "oom"
  /\ UNCHANGED <<arena, heap, pointer, caller>>

\* Mutant: the allocator of the arena's last use is kept.
Bug_init_buf(r) ==
  /\ UseRegion(r, TRUE)
  /\ UNCHANGED heap

init_buf(r) ==
  /\ UseRegion(r, FALSE)
  /\ UNCHANGED heap

aligned_offset(alignment) ==
  Minus(align_up(Plus(buf, offset), alignment), buf)

Fail(code) ==
  /\ pointer' = NULL /\ error' = code
  /\ UNCHANGED <<arena, heap, caller>>

Bug_room(start) == Minus(cap, offset)       \* mutant: ignores the padding
Bug_room_strict(start) == Minus(cap, start + 1)  \* mutant: refuses an exact fit
room(start) == Minus(cap, start)

\* A pointer handed out is the caller's; a zero-sized request made of an arena
\* without a buffer yields none.
Record(block) ==
  IF block.start = NULL THEN UNCHANGED caller
  ELSE blocks' = Append(blocks, block) /\ newest_live' = TRUE

\* Mutant: the rewind marker is left where it was.
Bug_bump(start, size) ==
  /\ offset' = Plus(start, size)
  /\ pointer' = Plus(buf, start) /\ error' = "ok"
  /\ Record([start |-> pointer', size |-> size])
  /\ UNCHANGED <<buf, cap, prev_offset, can_free, heap>>

bump(start, size) ==
  /\ prev_offset' = offset
  /\ offset' = Plus(start, size)
  /\ pointer' = Plus(buf, start) /\ error' = "ok"
  /\ Record([start |-> pointer', size |-> size])
  /\ UNCHANGED <<buf, cap, can_free, heap>>

alloc_aligned(size, alignment) ==
  LET start == aligned_offset(alignment)
  IN  \/ ~is_pow2(alignment) /\ Fail("align")
      \/ is_pow2(alignment) /\ size > room(start) /\ Fail("exhausted")
      \/ /\ is_pow2(alignment) /\ size <= room(start)
         /\ Len(blocks) < MaxBlocks
         /\ bump(start, size)

alloc(size) == alloc_aligned(size, DefaultAlignment)

\* Every pointer handed out becomes invalid.
reset ==
  /\ offset' = 0 /\ prev_offset' = 0
  /\ blocks' = <<>> /\ newest_live' = FALSE
  /\ UNCHANGED <<buf, cap, can_free, heap, pointer, error>>

\* The caller gives up the newest block, once.
rewind ==
  /\ offset' = prev_offset
  /\ blocks' = IF newest_live THEN SubSeq(blocks, 1, Len(blocks) - 1) ELSE blocks
  /\ newest_live' = FALSE
  /\ UNCHANGED <<buf, cap, prev_offset, can_free, heap, pointer, error>>

free ==
  /\ heap' = IF can_free THEN heap - 1 ELSE heap
  /\ buf' = NULL /\ cap' = 0 /\ offset' = 0 /\ prev_offset' = 0
  /\ can_free' = FALSE
  /\ blocks' = <<>> /\ newest_live' = FALSE
  /\ UNCHANGED <<pointer, error>>

ArenaNext ==
  \/ \E r \in MallocRegions : init(r)
  \/ init_oom
  \/ \E r \in CallerRegions : init_buf(r)
  \/ \E size \in RequestSizes : alloc(size) \/ \E a \in Alignments : alloc_aligned(size, a)
  \/ reset
  \/ rewind
  \/ free

ArenaSpec == ArenaInit /\ [][ArenaNext]_arvars

-----------------------------------------------------------------------------
(* Properties *)

End(b) == b.start + b.size

\* The allocator gets its buffer back once, however often free is called.
BufferFreedOnce == heap = (IF can_free THEN 1 ELSE 0)

\* The types, and that the arena holds what it will give back: over reuse with
\* another allocator and repeated frees nothing is freed twice or forgotten.
ArenaTypeOK ==
  /\ buf \in SizeT /\ cap \in SizeT /\ offset \in SizeT /\ prev_offset \in SizeT
  /\ can_free \in BOOLEAN /\ BufferFreedOnce /\ newest_live \in BOOLEAN
  /\ pointer \in SizeT /\ error \in {"ok", "oom", "align", "exhausted"}
  /\ blocks \in Seq([start : SizeT, size : SizeT])

\* Every block lies inside the buffer (arena.c 102-113).
BlocksInBounds ==
  \A i \in 1 .. Len(blocks) : buf <= blocks[i].start /\ End(blocks[i]) <= buf + cap

\* No two blocks alive share a byte, through any mix of allocations, failed
\* ones, rewinds and resets, and the next one starts past them all: the rewind
\* marker never points into a block the caller still owns.
BlocksDisjoint ==
  /\ \A i, j \in 1 .. Len(blocks) : i < j => End(blocks[i]) <= blocks[j].start
  /\ \A i \in 1 .. Len(blocks) : End(blocks[i]) <= buf + offset

\* A block is refused exactly when it does not fit behind the live ones.
HasRoom(size, alignment) ==
  \E s \in buf + offset .. buf + cap :
    s % alignment = 0 /\ s + size <= buf + cap /\ s < buf + offset + alignment
RefusedIffTooBig ==
  [][arvars' # arvars =>
       \A size \in RequestSizes, a \in Alignments :
         is_pow2(a) /\ alloc_aligned(size, a)
           => (error' = "exhausted" <=> ~HasRoom(size, a))]_arvars
=============================================================================
