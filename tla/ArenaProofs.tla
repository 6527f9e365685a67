------------------------------ MODULE ArenaProofs -----------------------------
(***************************************************************************)
(* The arena, for any size of the address space and any requests.  Over    *)
(* any buffers its struct is well formed and the allocator gets each one   *)
(* back.  Only where all of them end on the alignments requested           *)
(* (PaddingFits), which cpr_arena_init and cpr_arena_init_buf do not       *)
(* check, do the blocks lie inside the buffer and apart, and is a block    *)
(* refused exactly when it does not fit: elsewhere arena.c 106 wraps, as   *)
(* the run arena_padding shows.                                            *)
(***************************************************************************)
EXTENDS Arena, SequenceTheorems, TLAPS

Block == [start : SizeT, size : SizeT]

Begin == buf + offset     \* the first address no block may contain
Limit == buf + cap

\* The blocks a rewind does not take back.
Kept == 1 .. (IF newest_live THEN Len(blocks) - 1 ELSE Len(blocks))

Types ==
  /\ buf \in SizeT /\ cap \in SizeT /\ offset \in SizeT /\ prev_offset \in SizeT
  /\ can_free \in BOOLEAN /\ newest_live \in BOOLEAN /\ heap \in Nat
  /\ pointer \in SizeT /\ error \in {"ok", "oom", "align", "exhausted"}
  /\ blocks \in Seq(Block)

\* An arena without a buffer owns and hands out nothing.
Owning ==
  /\ BufferFreedOnce
  /\ cap = 0 => buf = NULL /\ blocks = <<>> /\ ~can_free
  /\ cap # 0 => [base |-> buf, cap |-> cap] \in Regions

Offsets == prev_offset <= offset /\ offset <= cap

\* Blocks are handed out upwards; those the rewind keeps lie below its marker.
Stacked ==
  /\ newest_live => blocks # <<>>
  /\ \A k \in 1 .. Len(blocks) : buf <= blocks[k].start /\ End(blocks[k]) <= Begin
  /\ \A j, k \in 1 .. Len(blocks) : j < k => End(blocks[j]) <= blocks[k].start
  /\ \A k \in Kept : End(blocks[k]) <= buf + prev_offset

ArInv == Types /\ Owning /\ Offsets /\ Stacked

-----------------------------------------------------------------------------
(* Alignment                                                               *)

\* Rounding up to a multiple does not pass a multiple.
LEMMA RoundUp ==
  ASSUME NEW a \in Nat \ {0}, NEW x \in Nat, NEW m \in Nat, x <= m, m % a = 0
  PROVE  LET up == (x + a - 1) - ((x + a - 1) % a)
         IN  up \in Nat /\ x <= up /\ up <= m /\ up < x + a /\ up % a = 0
<1> DEFINE y  == x + a - 1
           q  == y \div a
           d  == m \div a
           up == y - (y % a)
<1>1. y \in Nat /\ y % a \in 0 .. a - 1 /\ q \in Nat /\ y = a * q + (y % a)
  OBVIOUS
<1>2. d \in Nat /\ m = a * d
  OBVIOUS
<1>3. up = a * q /\ x <= up /\ up < x + a /\ up \in Nat
  BY <1>1
<1>4. up <= m
  <2>1. a * q < a * d + a
    BY <1>1, <1>2
  <2>2. ASSUME q > d PROVE FALSE
    <3> DEFINE g == q - (d + 1)
    <3>1. g \in Nat
      BY <1>1, <1>2, <2>2
    <3>2. a * g >= 0
      BY <3>1
    <3>3. a * g = a * q - (a * d + a)
      BY <1>1, <1>2
    <3>4. QED
      BY <1>1, <1>2, <2>1, <3>1, <3>2, <3>3
  <2>3. QED
    BY <1>1, <1>2, <1>3, <2>2
<1>5. up % a = 0
  BY <1>1, <1>3
<1>6. QED
  BY <1>3, <1>4, <1>5

-----------------------------------------------------------------------------
(* The arithmetic of a request, no step of which wraps                     *)

LEMMA Bounds ==
  ASSUME ArInv
  PROVE  /\ buf \in Nat /\ cap \in Nat /\ offset \in Nat /\ prev_offset \in Nat
         /\ prev_offset <= offset /\ offset <= cap /\ Limit < SizeMod
         /\ SizeMod \in Nat \ {0}
         /\ cap # 0 => buf # NULL
<1>1. SizeMod \in Nat \ {0} /\ SizeT \subseteq Nat
  BY ArenaAssumption DEF SizeT
<1>2. buf \in Nat /\ cap \in Nat /\ offset \in Nat /\ prev_offset \in Nat
  BY <1>1 DEF ArInv, Types
<1>3. Limit < SizeMod /\ (cap # 0 => buf # NULL)
  <2>1. CASE cap = 0
    BY <1>1, <1>2, <2>1 DEF ArInv, Owning, Limit, NULL
  <2>2. CASE cap # 0
    BY <2>2, ArenaAssumption DEF ArInv, Owning, Limit
  <2>3. QED
    BY <2>1, <2>2
<1>4. QED
  BY <1>1, <1>2, <1>3 DEF ArInv, Offsets

LEMMA NoWrap ==
  ASSUME SizeMod \in Nat \ {0}, NEW n \in Nat, n < SizeMod
  PROVE  n % SizeMod = n
OBVIOUS

\* A request is aligned behind the live blocks, before the buffer's end.
LEMMA Aligned ==
  ASSUME ArInv, PaddingFits, NEW a \in Alignments, is_pow2(a)
  PROVE  LET start == aligned_offset(a)
         IN  /\ start \in Nat /\ offset <= start /\ start <= cap
             /\ room(start) = cap - start
             /\ (buf + start) % a = 0 /\ buf + start < Begin + a
             /\ \A s \in Nat : Begin <= s /\ s % a = 0 => buf + start <= s
<1> DEFINE x  == Begin
           up == (x + a - 1) - ((x + a - 1) % a)
<1>1. /\ buf \in Nat /\ cap \in Nat /\ offset \in Nat /\ offset <= cap
      /\ Limit < SizeMod /\ SizeMod \in Nat \ {0}
  BY Bounds
<1>2. a \in Nat \ {0} /\ a < SizeMod
  BY ArenaAssumption DEF is_pow2, SizeT
<1>3. x \in Nat /\ Limit \in Nat /\ x <= Limit /\ x + a - 1 \in Nat
  BY <1>1, <1>2 DEF Begin, Limit
<1>4. Limit % a = 0 /\ Limit + a <= SizeMod
  <2>1. CASE cap = 0
    BY <1>1, <1>2, <2>1 DEF ArInv, Owning, Limit, NULL
  <2>2. CASE cap # 0
    BY <2>2 DEF ArInv, Owning, PaddingFits, Limit
  <2>3. QED
    BY <2>1, <2>2
<1>5. up \in Nat /\ x <= up /\ up <= Limit /\ up < x + a /\ up % a = 0
  BY <1>2, <1>3, <1>4, RoundUp
<1>6. align_up(Plus(buf, offset), a) = up
  <2>1. Plus(buf, offset) = x
    BY <1>1, <1>3, NoWrap DEF Plus, Begin
  <2>2. Plus(x, a - 1) = x + a - 1
    BY <1>1, <1>2, <1>3, <1>4, NoWrap DEF Plus
  <2>3. QED
    BY <2>1, <2>2 DEF align_up
<1>7. aligned_offset(a) = up - buf
  <2>1. up - buf \in Nat /\ up - buf < SizeMod
    BY <1>1, <1>5 DEF Begin, Limit
  <2>2. QED
    BY <1>1, <1>6, <2>1, NoWrap DEF aligned_offset, Minus
<1>8. room(up - buf) = cap - (up - buf)
  <2>1. cap - (up - buf) \in Nat /\ cap - (up - buf) < SizeMod
    BY <1>1, <1>5 DEF Begin, Limit
  <2>2. QED
    BY <1>1, <2>1, NoWrap DEF room, Minus
<1>9. \A s \in Nat : x <= s /\ s % a = 0 => up <= s
  BY <1>2, <1>3, RoundUp
<1>10. QED
  BY <1>1, <1>5, <1>7, <1>8, <1>9 DEF Begin, Limit

-----------------------------------------------------------------------------
(* The invariant                                                           *)

LEMMA ArInit == ArenaInit => ArInv
<1> SUFFICES ASSUME ArenaInit PROVE ArInv
  OBVIOUS
<1>1. 0 \in SizeT
  BY ArenaAssumption DEF SizeT
<1>2. Types
  <2>1. <<>> \in Seq(Block)
    BY EmptySeq
  <2>2. QED
    BY <1>1, <2>1 DEF ArenaInit, Types, NULL
<1>3. Owning /\ Offsets
  BY DEF ArenaInit, Owning, BufferFreedOnce, Offsets
<1>4. Stacked
  BY DEF ArenaInit, Stacked, Kept
<1>5. QED
  BY <1>2, <1>3, <1>4 DEF ArInv

\* A block handed out comes on top of the stack.
LEMMA BumpKeeps ==
  ASSUME ArInv, PaddingFits, NEW a \in Alignments, is_pow2(a), NEW size \in RequestSizes,
         size <= room(aligned_offset(a)), bump(aligned_offset(a), size)
  PROVE  ArInv'
<1> DEFINE start == aligned_offset(a)
           b == [start |-> buf + start, size |-> size]
<1>1. /\ buf \in Nat /\ cap \in Nat /\ offset \in Nat /\ prev_offset \in Nat
      /\ prev_offset <= offset /\ offset <= cap /\ Limit < SizeMod
      /\ SizeMod \in Nat \ {0} /\ (cap # 0 => buf # NULL)
  BY Bounds
<1>2. start \in Nat /\ offset <= start /\ start <= cap /\ room(start) = cap - start
  BY Aligned
<1>3. size \in Nat /\ size < SizeMod /\ start + size <= cap
  BY <1>1, <1>2, ArenaAssumption DEF SizeT
<1>4. Plus(start, size) = start + size /\ Plus(buf, start) = buf + start
  BY <1>1, <1>2, <1>3, NoWrap DEF Plus, Limit
<1>5. /\ prev_offset' = offset /\ offset' = start + size
      /\ pointer' = buf + start /\ error' = "ok"
      /\ UNCHANGED <<buf, cap, can_free, heap>>
  BY <1>4 DEF bump
<1>6. CASE buf + start = NULL
  <2>1. UNCHANGED caller
    BY <1>5, <1>6 DEF bump, Record
  <2>2. buf = 0 /\ cap = 0 /\ offset = 0 /\ start = 0 /\ size = 0
    <3>1. buf = 0 /\ start = 0
      BY <1>1, <1>2, <1>6 DEF NULL
    <3>2. cap = 0
      BY <1>1, <3>1 DEF NULL
    <3>3. QED
      BY <1>1, <1>3, <3>1, <3>2
  <2>3. UNCHANGED <<blocks, newest_live>> /\ blocks = <<>> /\ ~newest_live
    BY <2>1, <2>2 DEF caller, ArInv, Owning, Stacked
  <2>4. Types'
    BY <1>5, <2>2, <2>3 DEF ArInv, Types, NULL
  <2>5. QED
    BY <1>5, <2>2, <2>3, <2>4
       DEF ArInv, Owning, BufferFreedOnce, Offsets, Stacked, Kept
<1>7. CASE buf + start # NULL
  <2>1. blocks' = Append(blocks, b) /\ newest_live' = TRUE
    BY <1>5, <1>7 DEF bump, Record
  <2>2. b \in Block /\ blocks \in Seq(Block) /\ Len(blocks) \in Nat
    BY <1>1, <1>2, <1>3 DEF Block, SizeT, Limit, ArInv, Types
  <2>3. /\ blocks' \in Seq(Block) /\ Len(blocks') = Len(blocks) + 1
        /\ blocks'[Len(blocks) + 1] = b
        /\ \A k \in 1 .. Len(blocks) : blocks'[k] = blocks[k]
    BY <2>1, <2>2
  <2>4. Types'
    BY <1>1, <1>2, <1>3, <1>5, <2>1, <2>3 DEF ArInv, Types, SizeT, Limit
  <2>5. Owning' /\ Offsets'
    <3>1. cap # 0
      BY <1>1, <1>2, <1>7 DEF ArInv, Owning, NULL
    <3>2. QED
      BY <1>1, <1>2, <1>3, <1>5, <3>1 DEF ArInv, Owning, BufferFreedOnce, Offsets
  <2>6. \A k \in 1 .. Len(blocks) :
          /\ blocks[k] \in Block /\ blocks[k].start \in Nat /\ End(blocks[k]) \in Nat
          /\ buf <= blocks[k].start /\ End(blocks[k]) <= buf + offset
    <3>1. ASSUME NEW k \in 1 .. Len(blocks)
          PROVE  /\ blocks[k] \in Block
                 /\ blocks[k].start \in Nat /\ blocks[k].size \in Nat
      <4>1. blocks[k] \in Block
        BY <2>2, ElementOfSeq
      <4>2. SizeT \subseteq Nat
        BY <1>1 DEF SizeT
      <4>3. QED
        BY <4>1, <4>2 DEF Block
    <3>2. QED
      BY <3>1 DEF ArInv, Stacked, Begin, End
  <2>7. b.start = buf + start /\ End(b) = buf + start + size
    BY DEF End
  <2>8. Stacked'
    <3>1. ASSUME NEW k \in 1 .. Len(blocks')
          PROVE  buf' <= blocks'[k].start /\ End(blocks'[k]) <= Begin'
      <4>1. CASE k = Len(blocks) + 1
        BY <1>1, <1>2, <1>3, <1>5, <2>3, <2>7, <4>1, SMTT(20) DEF Begin
      <4>2. CASE k \in 1 .. Len(blocks)
        <5>1. buf <= blocks[k].start /\ End(blocks[k]) <= buf + offset /\ End(blocks[k]) \in Nat
          BY <2>6, <4>2
        <5>2. buf + offset <= buf + (start + size)
          BY <1>1, <1>2, <1>3
        <5>3. End(blocks[k]) <= buf + (start + size)
          BY <1>1, <1>2, <1>3, <5>1, <5>2
        <5>4. blocks'[k] = blocks[k] /\ buf' = buf /\ Begin' = buf + (start + size)
          BY <1>5, <2>3, <4>2 DEF Begin
        <5>5. QED
          BY <5>1, <5>3, <5>4
      <4>3. QED
        BY <2>2, <2>3, <3>1, <4>1, <4>2
    <3>2. ASSUME NEW j \in 1 .. Len(blocks'), NEW k \in 1 .. Len(blocks'), j < k
          PROVE  End(blocks'[j]) <= blocks'[k].start
      <4>1. CASE k = Len(blocks) + 1
        <5>1. j \in 1 .. Len(blocks)
          BY <2>2, <2>3, <3>2, <4>1
        <5>2. End(blocks[j]) <= buf + offset /\ End(blocks[j]) \in Nat /\ blocks'[j] = blocks[j]
          BY <2>3, <2>6, <5>1
        <5>3. blocks'[k].start = buf + start
          BY <2>3, <2>7, <4>1
        <5>4. QED
          BY <1>1, <1>2, <5>2, <5>3
      <4>2. CASE k \in 1 .. Len(blocks)
        BY <2>2, <2>3, <3>2, <4>2 DEF ArInv, Stacked
      <4>3. QED
        BY <2>2, <2>3, <4>1, <4>2
    <3>3. \A k \in Kept' : End(blocks'[k]) <= buf' + prev_offset'
      <4>1. Kept' = 1 .. Len(blocks)
        BY <2>1, <2>2, <2>3 DEF Kept
      <4>2. QED
        BY <1>5, <2>3, <2>6, <4>1
    <3>4. blocks' # <<>>
      BY <2>2, <2>3
    <3>5. QED
      BY <3>1, <3>2, <3>3, <3>4 DEF Stacked
  <2>9. QED
    BY <2>4, <2>5, <2>8 DEF ArInv
<1>8. QED
  BY <1>6, <1>7

\* A rewind takes back at most the newest block.
LEMMA RewindKeeps ==
  ASSUME ArInv, rewind
  PROVE  ArInv'
<1>1. /\ buf \in Nat /\ cap \in Nat /\ offset \in Nat /\ prev_offset \in Nat
      /\ prev_offset <= offset /\ offset <= cap
  BY Bounds
<1>2. /\ offset' = prev_offset /\ newest_live' = FALSE
      /\ UNCHANGED <<buf, cap, prev_offset, can_free, heap, pointer, error>>
      /\ blocks' = IF newest_live THEN SubSeq(blocks, 1, Len(blocks) - 1) ELSE blocks
  BY DEF rewind
<1>3. blocks \in Seq(Block) /\ Len(blocks) \in Nat /\ (newest_live => Len(blocks) > 0)
  BY DEF ArInv, Types, Stacked
<1>4. /\ blocks' \in Seq(Block) /\ Len(blocks') <= Len(blocks)
      /\ 1 .. Len(blocks') = Kept /\ Len(blocks') \in Nat
      /\ \A k \in 1 .. Len(blocks') : blocks'[k] = blocks[k]
  <2>1. CASE newest_live
    <3>1. blocks' = SubSeq(blocks, 1, Len(blocks) - 1)
      BY <1>2, <2>1
    <3>2. /\ blocks' \in Seq(Block) /\ Len(blocks') = Len(blocks) - 1
          /\ \A k \in 1 .. Len(blocks) - 1 : blocks'[k] = blocks[k]
      <4>1. \A k \in 1 .. Len(blocks) - 1 : blocks[k] \in Block
        BY <1>3, ElementOfSeq
      <4> DEFINE n == Len(blocks) - 1
                 c == SubSeq(blocks, 1, n)
      <4>2. n \in Nat
        BY <1>3, <2>1
      <4>3. /\ c \in Seq(Block)
            /\ Len(c) = IF 1 <= n THEN n - 1 + 1 ELSE 0
            /\ \A k \in 1 .. n - 1 + 1 : c[k] = blocks[1 + k - 1]
        BY <4>1, <4>2, SubSeqProperties
      <4>4. Len(c) = n
        <5>1. CASE n = 0
          BY <4>3, <5>1
        <5>2. CASE 1 <= n
          BY <4>2, <4>3, <5>2
        <5> HIDE DEF n, c
        <5>3. n = 0 \/ 1 <= n
          BY <4>2
        <5>4. QED
          BY <5>1, <5>2, <5>3
      <4>5. ASSUME NEW k \in 1 .. n PROVE c[k] = blocks[k]
        <5>1. k \in 1 .. n - 1 + 1 /\ 1 + k - 1 = k
          BY <4>2
        <5>2. QED
          BY <4>3, <5>1
      <4>6. QED
        BY <3>1, <4>3, <4>4, <4>5
    <3>3. QED
      BY <1>3, <2>1, <3>2 DEF Kept
  <2>2. CASE ~newest_live
    BY <1>2, <1>3, <2>2 DEF Kept
  <2>3. QED
    BY <2>1, <2>2
<1>5. Types'
  BY <1>2, <1>4 DEF ArInv, Types
<1>6. Owning'
  <2>1. cap = 0 => blocks' = <<>>
    BY <1>2, <1>3, <1>4 DEF ArInv, Owning
  <2>2. QED
    BY <1>2, <2>1 DEF ArInv, Owning, BufferFreedOnce
<1>7. Offsets'
  BY <1>1, <1>2 DEF Offsets
<1>8. Stacked'
  <2>1. Kept' = 1 .. Len(blocks')
    BY <1>2 DEF Kept
  <2>2. QED
    BY <1>2, <1>3, <1>4, <2>1 DEF ArInv, Stacked, Begin
<1>9. QED
  BY <1>5, <1>6, <1>7, <1>8 DEF ArInv

LEMMA ArStep ==
  ASSUME ArInv, PaddingFits, [ArenaNext]_arvars
  PROVE  ArInv'
<1>1. /\ buf \in Nat /\ cap \in Nat /\ SizeMod \in Nat \ {0} /\ 0 \in SizeT
  BY Bounds, ArenaAssumption DEF SizeT
<1>2. ASSUME NEW r \in Regions, NEW owned \in BOOLEAN, UseRegion(r, owned),
             heap' = IF owned THEN heap + 1 ELSE heap
      PROVE  ArInv'
  <2>1. /\ cap = 0 /\ blocks = <<>> /\ ~can_free /\ heap = 0 /\ newest_live = FALSE
        /\ newest_live' = FALSE /\ blocks' = <<>> /\ offset' = 0 /\ prev_offset' = 0
        /\ buf' = r.base /\ cap' = r.cap /\ can_free' = owned
        /\ UNCHANGED <<pointer, error>>
    BY <1>2 DEF UseRegion, caller, ArInv, Types, Owning, BufferFreedOnce, Stacked
  <2>2. /\ r = [base |-> r.base, cap |-> r.cap]
        /\ r.base \in SizeT /\ r.cap \in SizeT /\ r.cap # 0
    BY ArenaAssumption
  <2>3. Types'
    <3>1. <<>> \in Seq(Block)
      BY EmptySeq
    <3>2. heap' \in Nat
      BY <1>2, <2>1
    <3>3. buf' \in SizeT /\ cap' \in SizeT /\ offset' \in SizeT /\ prev_offset' \in SizeT
      BY <1>1, <2>1, <2>2
    <3>4. can_free' \in BOOLEAN /\ newest_live' \in BOOLEAN
      BY <2>1
    <3>5. QED
      BY <2>1, <3>1, <3>2, <3>3, <3>4 DEF ArInv, Types
  <2>4. Owning' /\ Offsets'
    <3>1. cap' \in Nat
      BY <1>1, <2>1, <2>2 DEF SizeT
    <3>2. QED
      BY <1>2, <2>1, <2>2, <3>1 DEF Owning, Offsets, BufferFreedOnce
  <2>5. Stacked'
    BY <2>1 DEF Stacked, Kept
  <2>6. QED
    BY <2>3, <2>4, <2>5 DEF ArInv
<1>3. ASSUME NEW code \in {"oom", "align", "exhausted"}, error' = code,
             pointer' \in {pointer, NULL}, UNCHANGED <<arena, heap, caller>>
      PROVE  ArInv'
  BY <1>1, <1>3
     DEF ArInv, Types, Owning, BufferFreedOnce, Offsets, Stacked, Kept, Begin, arena,
         caller, NULL
<1>4. ASSUME NEW size \in RequestSizes, NEW a \in Alignments, alloc_aligned(size, a)
      PROVE  ArInv'
  <2>1. CASE Fail("align") \/ Fail("exhausted")
    BY <1>3, <2>1 DEF Fail
  <2>2. CASE /\ is_pow2(a) /\ size <= room(aligned_offset(a))
             /\ bump(aligned_offset(a), size)
    BY <2>2, BumpKeeps
  <2>3. QED
    BY <1>4, <2>1, <2>2 DEF alloc_aligned
<1>5. CASE reset \/ free
  <2>1. /\ offset' = 0 /\ prev_offset' = 0 /\ blocks' = <<>> /\ newest_live' = FALSE
        /\ UNCHANGED <<pointer, error>>
        /\ \/ UNCHANGED <<buf, cap, can_free, heap>>
           \/ /\ buf' = NULL /\ cap' = 0 /\ can_free' = FALSE
              /\ heap' = IF can_free THEN heap - 1 ELSE heap
    BY <1>5 DEF reset, free
  <2>2. heap' = IF can_free' THEN 1 ELSE 0
    BY <2>1 DEF ArInv, Owning, BufferFreedOnce
  <2>3. Types'
    <3>1. <<>> \in Seq(Block)
      BY EmptySeq
    <3>2. heap' \in Nat
      BY <2>2
    <3>3. buf' \in SizeT /\ cap' \in SizeT /\ offset' \in SizeT /\ prev_offset' \in SizeT
      BY <1>1, <2>1 DEF ArInv, Types, NULL
    <3>4. can_free' \in BOOLEAN /\ newest_live' \in BOOLEAN
      BY <2>1 DEF ArInv, Types
    <3>5. QED
      BY <2>1, <3>1, <3>2, <3>3, <3>4 DEF ArInv, Types
  <2>4. Owning' /\ Offsets'
    BY <1>1, <2>1, <2>2 DEF ArInv, Types, Owning, BufferFreedOnce, Offsets
  <2>5. Stacked'
    BY <2>1 DEF Stacked, Kept
  <2>6. QED
    BY <2>3, <2>4, <2>5 DEF ArInv
<1>6. CASE rewind
  BY <1>6, RewindKeeps
<1>7. CASE UNCHANGED arvars
  BY <1>7
     DEF ArInv, Types, Owning, BufferFreedOnce, Offsets, Stacked, Kept, Begin, arvars,
         arena, caller
<1>8. ASSUME NEW r \in MallocRegions, init(r) PROVE ArInv'
  BY <1>2, <1>8 DEF init, Regions
<1>9. ASSUME NEW r \in CallerRegions, init_buf(r) PROVE ArInv'
  BY <1>2, <1>9 DEF init_buf, Regions
<1>10. CASE init_oom
  BY <1>3, <1>10 DEF init_oom
<1>11. ASSUME NEW size \in RequestSizes, alloc(size) PROVE ArInv'
  BY <1>4, <1>11, ArenaAssumption DEF alloc
<1>12. QED
  BY <1>4, <1>5, <1>6, <1>7, <1>8, <1>9, <1>10, <1>11 DEF ArenaNext

LEMMA ArInvariance ==
  ASSUME PaddingFits
  PROVE  ArenaSpec => []ArInv
<1>1. ArenaInit => ArInv
  BY ArInit
<1>2. ArInv /\ [ArenaNext]_arvars => ArInv'
  BY ArStep
<1>3. QED
  BY <1>1, <1>2, PTL DEF ArenaSpec

-----------------------------------------------------------------------------
(* What holds over any buffers                                             *)

TypesInv ==
  /\ Types /\ BufferFreedOnce
  /\ cap = 0 => ~can_free
  /\ newest_live => blocks # <<>>

LEMMA Wrapped ==
  ASSUME NEW x \in Int, NEW y \in Int PROVE Plus(x, y) \in SizeT /\ Minus(x, y) \in SizeT
<1>1. x + y \in Int /\ x - y \in Int
  OBVIOUS
<1>2. SizeMod \in Nat \ {0}
  BY ArenaAssumption
<1>3. \A z \in Int : z % SizeMod \in 0 .. SizeMod - 1
  BY <1>2
<1> QED
  BY <1>1, <1>3 DEF Plus, Minus, SizeT

LEMMA StartIsASize == ASSUME TypesInv, NEW a \in Alignments, is_pow2(a)
                      PROVE  aligned_offset(a) \in SizeT
<1>1. a \in Nat \ {0} /\ SizeT \subseteq Nat /\ buf \in Nat /\ offset \in Nat
  BY ArenaAssumption DEF SizeT, is_pow2, TypesInv, Types
<1>2. PICK x : x = Plus(buf, offset) /\ x \in Nat
  <2>1. Plus(buf, offset) \in SizeT
    BY <1>1, Wrapped
  <2> QED
    BY <1>1, <2>1
<1>3. PICK raised : raised = Plus(x, a - 1) /\ raised \in Nat
  <2>1. x \in Int /\ a - 1 \in Int
    BY <1>1, <1>2
  <2>2. Plus(x, a - 1) \in SizeT
    BY <2>1, Wrapped
  <2> QED
    BY <1>1, <2>2
<1>4. raised - (raised % a) \in Int
  BY <1>1, <1>3
<1>5. align_up(Plus(buf, offset), a) \in Int
  BY <1>2, <1>3, <1>4 DEF align_up
<1> QED
  BY <1>1, <1>5, Wrapped DEF aligned_offset

LEMMA BumpIsTyped ==
  ASSUME TypesInv, NEW size \in RequestSizes, NEW start \in SizeT, bump(start, size)
  PROVE  TypesInv'
<1>1. /\ SizeT \subseteq Nat /\ size \in SizeT /\ buf \in SizeT /\ blocks \in Seq(Block)
      /\ offset \in SizeT
  BY ArenaAssumption DEF SizeT, TypesInv, Types
<1>2. Plus(start, size) \in SizeT /\ Plus(buf, start) \in SizeT
  BY <1>1, Wrapped
<1>3. /\ prev_offset' = offset /\ offset' = Plus(start, size) /\ pointer' = Plus(buf, start)
      /\ error' = "ok" /\ UNCHANGED <<buf, cap, can_free, heap>>
      /\ Record([start |-> pointer', size |-> size])
  BY DEF bump
<1>4. [start |-> pointer', size |-> size] \in Block
  BY <1>1, <1>2, <1>3 DEF Block
<1>5. /\ blocks' \in Seq(Block) /\ newest_live' \in BOOLEAN
      /\ newest_live' => blocks' # <<>>
  <2>1. PICK b \in Block : b = [start |-> pointer', size |-> size]
    BY <1>4
  <2>2. Append(blocks, b) \in Seq(Block) /\ Append(blocks, b) # <<>>
    BY <1>1, AppendProperties
  <2>3. CASE b.start = NULL
    BY <1>1, <1>3, <2>1, <2>3 DEF Record, caller, TypesInv, Types
  <2>4. CASE b.start # NULL
    BY <1>3, <2>1, <2>2, <2>4 DEF Record
  <2> QED
    BY <2>3, <2>4
<1> QED
  BY <1>1, <1>2, <1>3, <1>5 DEF TypesInv, Types, BufferFreedOnce

LEMMA RewindIsTyped == ASSUME TypesInv, rewind PROVE TypesInv'
<1>1. /\ blocks' = IF newest_live THEN SubSeq(blocks, 1, Len(blocks) - 1) ELSE blocks
      /\ newest_live' = FALSE /\ offset' = prev_offset
      /\ UNCHANGED <<buf, cap, prev_offset, can_free, heap, pointer, error>>
  BY DEF rewind
<1>2. blocks \in Seq(Block) /\ Len(blocks) \in Nat /\ (newest_live => Len(blocks) > 0)
  BY DEF TypesInv, Types
<1>3. blocks' \in Seq(Block)
  <2>1. CASE newest_live
    <3>1. \A k \in 1 .. Len(blocks) - 1 : blocks[k] \in Block
      BY <1>2, ElementOfSeq
    <3>2. SubSeq(blocks, 1, Len(blocks) - 1) \in Seq(Block)
      BY <1>2, <2>1, <3>1, SubSeqProperties
    <3> QED
      BY <1>1, <2>1, <3>2
  <2>2. CASE ~newest_live
    BY <1>1, <1>2, <2>2
  <2> QED
    BY <2>1, <2>2
<1> QED
  BY <1>1, <1>3 DEF TypesInv, Types, BufferFreedOnce

LEMMA TypesStep == ASSUME TypesInv, [ArenaNext]_arvars PROVE TypesInv'
<1>1. <<>> \in Seq(Block) /\ 0 \in SizeT /\ SizeMod \in Nat \ {0}
  BY EmptySeq, ArenaAssumption DEF SizeT
<1>2. ASSUME NEW r \in Regions, NEW owned \in BOOLEAN, UseRegion(r, owned),
             heap' = IF owned THEN heap + 1 ELSE heap
      PROVE  TypesInv'
  <2>1. /\ cap = 0 /\ ~can_free /\ heap = 0 /\ buf' = r.base /\ cap' = r.cap
        /\ offset' = 0 /\ prev_offset' = 0 /\ can_free' = owned
        /\ UNCHANGED <<pointer, error, blocks, newest_live>>
    BY <1>2 DEF UseRegion, caller, TypesInv, BufferFreedOnce
  <2>2. r.base \in SizeT /\ r.cap \in SizeT /\ r.cap # 0
    BY ArenaAssumption
  <2>3. heap' \in Nat /\ heap' = IF can_free' THEN 1 ELSE 0
    BY <1>2, <2>1
  <2> QED
    BY <1>1, <2>1, <2>2, <2>3 DEF TypesInv, Types, BufferFreedOnce
<1>3. ASSUME NEW code \in {"oom", "align", "exhausted"}, error' = code,
             pointer' \in {pointer, NULL}, UNCHANGED <<arena, heap, caller>>
      PROVE  TypesInv'
  BY <1>1, <1>3 DEF TypesInv, Types, BufferFreedOnce, arena, caller, NULL
<1>4. ASSUME NEW size \in RequestSizes, NEW a \in Alignments, alloc_aligned(size, a)
      PROVE  TypesInv'
  <2>1. CASE Fail("align") \/ Fail("exhausted")
    BY <1>3, <2>1 DEF Fail
  <2>2. CASE is_pow2(a) /\ bump(aligned_offset(a), size)
    BY <2>2, StartIsASize, BumpIsTyped
  <2> QED
    BY <1>4, <2>1, <2>2 DEF alloc_aligned
<1>5. CASE reset
  BY <1>1, <1>5 DEF reset, TypesInv, Types, BufferFreedOnce
<1>6. CASE free
  <2>1. /\ buf' = 0 /\ cap' = 0 /\ offset' = 0 /\ prev_offset' = 0 /\ can_free' = FALSE
        /\ blocks' = <<>> /\ newest_live' = FALSE /\ UNCHANGED <<pointer, error>>
        /\ heap' = 0
    BY <1>6 DEF free, TypesInv, BufferFreedOnce, NULL
  <2> QED
    BY <1>1, <2>1 DEF TypesInv, Types, BufferFreedOnce
<1>7. CASE rewind
  BY <1>7, RewindIsTyped
<1>8. CASE UNCHANGED arvars
  BY <1>8 DEF TypesInv, Types, BufferFreedOnce, arvars, arena, caller
<1>9. ASSUME NEW r \in MallocRegions, init(r) PROVE TypesInv'
  BY <1>2, <1>9 DEF init, Regions
<1>10. ASSUME NEW r \in CallerRegions, init_buf(r) PROVE TypesInv'
  BY <1>2, <1>10 DEF init_buf, Regions
<1>11. CASE init_oom
  BY <1>3, <1>11 DEF init_oom
<1>12. ASSUME NEW size \in RequestSizes, alloc(size) PROVE TypesInv'
  BY <1>4, <1>12, ArenaAssumption DEF alloc
<1> QED
  BY <1>4, <1>5, <1>6, <1>7, <1>8, <1>9, <1>10, <1>11, <1>12 DEF ArenaNext

-----------------------------------------------------------------------------
(* Theorems                                                                *)

\* The struct is well formed and the allocator gets back each buffer it gave,
\* once, over any reuse of an arena and repeated frees, whatever the buffers
\* and the requests (arena.c:68-98, 141-160).
THEOREM ArenaTypeCorrect == ArenaSpec => []ArenaTypeOK
<1>1. ArenaInit => TypesInv
  BY ArInit DEF ArInv, Owning, Stacked, TypesInv
<1>2. TypesInv /\ [ArenaNext]_arvars => TypesInv'
  BY TypesStep
<1>3. TypesInv => ArenaTypeOK
  BY DEF TypesInv, Types, ArenaTypeOK, Block
<1> QED
  BY <1>1, <1>2, <1>3, PTL DEF ArenaSpec

\* Where every buffer ends on each alignment requested, every block the caller
\* may use lies inside the buffer (arena.c:102-113).
THEOREM BlocksStayInside ==
  ASSUME PaddingFits
  PROVE  ArenaSpec => []BlocksInBounds
<1>1. ArInv => BlocksInBounds
  <2> SUFFICES ASSUME ArInv, NEW k \in 1 .. Len(blocks)
               PROVE  buf <= blocks[k].start /\ End(blocks[k]) <= buf + cap
    BY DEF BlocksInBounds
  <2>1. offset <= cap /\ offset \in Nat /\ cap \in Nat /\ buf \in Nat
    BY Bounds
  <2>2. blocks[k] \in Block /\ SizeT \subseteq Nat
    BY ElementOfSeq, ArenaAssumption DEF ArInv, Types, SizeT
  <2>3. End(blocks[k]) \in Nat
    <3>1. blocks[k].start \in Nat /\ blocks[k].size \in Nat
      BY <2>2 DEF Block
    <3>2. QED
      BY <3>1 DEF End
  <2>4. QED
    BY <2>1, <2>3 DEF ArInv, Stacked, Begin
<1>2. QED
  BY <1>1, ArInvariance, PTL

\* Over the same buffers, no two blocks in use share a byte and the next one
\* starts past them all, through any mix of allocations, failures, rewinds and resets: the rewind
\* marker never points into a block (arena.c:100-139).
THEOREM BlocksStayApart ==
  ASSUME PaddingFits
  PROVE  ArenaSpec => []BlocksDisjoint
<1>1. ArInv => BlocksDisjoint
  BY DEF ArInv, Stacked, BlocksDisjoint, Begin
<1>2. QED
  BY <1>1, ArInvariance, PTL

\* Over the same buffers, an allocation is refused exactly when no aligned place
\* behind the blocks in use holds it: the padding is counted once, and nothing
\* wraps (arena.c:100-113).  Over a buffer that ends off an alignment one can be
\* granted although no place holds it.
THEOREM RefusedOnlyIfTooBig ==
  ASSUME PaddingFits
  PROVE  ArenaSpec => RefusedIffTooBig
<1>1. ASSUME ArInv, NEW size \in RequestSizes, NEW a \in Alignments, is_pow2(a),
             alloc_aligned(size, a)
      PROVE  error' = "exhausted" <=> ~HasRoom(size, a)
  <2> DEFINE start == aligned_offset(a)
  <2>1. /\ buf \in Nat /\ cap \in Nat /\ offset \in Nat /\ SizeMod \in Nat \ {0}
    BY <1>1, Bounds
  <2>2. /\ start \in Nat /\ offset <= start /\ start <= cap
        /\ room(start) = cap - start
        /\ (buf + start) % a = 0 /\ buf + start < Begin + a
        /\ \A s \in Nat : Begin <= s /\ s % a = 0 => buf + start <= s
    BY <1>1, Aligned
  <2>3. size \in Nat /\ a \in Nat
    BY ArenaAssumption DEF SizeT
  <2>4. CASE size > room(start) /\ error' = "exhausted"
    <3>1. ASSUME NEW s \in buf + offset .. buf + cap, s % a = 0, s + size <= buf + cap
          PROVE  FALSE
      <4>1. s \in Nat /\ Begin <= s
        BY <2>1, <3>1 DEF Begin
      <4>2. buf + start <= s
        BY <2>2, <3>1, <4>1
      <4>3. QED
        BY <2>1, <2>2, <2>3, <2>4, <3>1, <4>1, <4>2
    <3>2. QED
      BY <2>4, <3>1 DEF HasRoom
  <2>5. CASE size <= room(start) /\ error' = "ok"
    <3>1. buf + start \in buf + offset .. buf + cap /\ buf + start + size <= buf + cap
      BY <2>1, <2>2, <2>3, <2>5
    <3>2. HasRoom(size, a)
      BY <2>2, <3>1 DEF HasRoom, Begin
    <3>3. QED
      BY <2>5, <3>2
  <2>6. QED
    BY <1>1, <2>4, <2>5 DEF alloc_aligned, Fail, bump
<1>2. ArInv /\ [ArenaNext]_arvars
        => [arvars' # arvars =>
              \A size \in RequestSizes, a \in Alignments :
                is_pow2(a) /\ alloc_aligned(size, a)
                  => (error' = "exhausted" <=> ~HasRoom(size, a))]_arvars
  BY <1>1
<1>3. QED
  BY <1>2, ArInvariance, PTL DEF ArenaSpec, RefusedIffTooBig
=============================================================================
