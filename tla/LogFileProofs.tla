---------------------------- MODULE LogFileProofs -----------------------------
(***************************************************************************)
(* The file sink over a system that does what it is asked (Reliable), for  *)
(* every number and size of files, messages and kills: what a log keeps,   *)
(* how large its files grow, and what it gives up.                         *)
(*                                                                         *)
(* The proofs look at a step by what it does to the files' contents; there *)
(* are only five ways (Steps).                                             *)
(***************************************************************************)
EXTENDS LogFile, SequenceTheorems, TLAPS

Reliable == Faults = {}

InCall == {"close", "remove", "shift", "open", "append"}

Types ==
  /\ config \in Configs
  /\ DOMAIN disk \subseteq FileNumbers /\ disk = [n \in DOMAIN disk |-> disk[n]]
  /\ \A n \in DOMAIN disk : disk[n] \in Seq(Messages)
  /\ file \in BOOLEAN /\ unflushed \in Seq(Messages)
  /\ current_size \in Nat /\ current_period \in 0 .. Cycle - 1
  /\ pc \in InCall \cup {"down", "ready"}
  /\ msg \in Messages \cup {NoMessage} /\ shift \in 0 .. top
  /\ accepted \in Seq(Messages)
  /\ sent \in 0 .. MaxMessages /\ kills \in 0 .. MaxKills

\* Where the call is tells whether the file is open, and which file is missing
\* while the others are shifted.
Places ==
  /\ file <=> pc \in {"ready", "close", "append"}
  /\ file => 0 \in DOMAIN disk
  /\ ~file => unflushed = <<>>
  /\ pc \in InCall => msg \in Messages /\ msg.id = sent
  /\ pc = "shift" => shift + 1 \notin DOMAIN disk \/ shift + 1 = LastArchive
  /\ pc = "shift" /\ MaxFiles > 0 => shift + 1 \notin DOMAIN disk
  /\ pc = "open" => 0 \notin DOMAIN disk

\* Messages are accepted in the order of their numbers, and the buffer holds
\* the last of them.
Numbers ==
  /\ \A j, k \in 1 .. Len(accepted) : j < k => accepted[j].id < accepted[k].id
  /\ \A k \in 1 .. Len(accepted) :
       accepted[k].id <= sent /\ (pc \in InCall => accepted[k].id < sent)
  /\ Len(unflushed) <= Len(accepted)
  /\ \A k \in 1 .. Len(unflushed) :
       unflushed[k] = accepted[Len(accepted) - Len(unflushed) + k]

FInv == Types /\ Places /\ Numbers

-----------------------------------------------------------------------------
(* Files                                                                   *)

LEMMA Numbering ==
  /\ top \in Nat /\ LastArchive = top + 1 /\ FileNumbers = 0 .. top + 1
  /\ MaxFiles \in Nat /\ (MaxFiles > 0 => LastArchive = MaxFiles)
BY LogFileAssumption DEF top, LastArchive, FileNumbers

LEMMA Numbered ==
  ASSUME config \in Configs, NEW m \in Messages
  PROVE  m.id \in Nat /\ m.end \in Nat /\ m.len \in Nat
<1>1. roll_mode \in RollModes
  BY LogFileAssumption DEF roll_mode
<1>2. Lens[roll_mode] \subseteq Nat
  BY <1>1, LogFileAssumption
<1>3. 1 .. MaxMessages \subseteq Nat
  BY LogFileAssumption
<1> QED BY <1>2, <1>3 DEF Messages

LEMMA HeldIsSeq ==
  ASSUME Types, NEW n
  PROVE  /\ Content(disk, n) \in Seq(Messages)
         /\ Held(n) \in Seq(Messages)
         /\ Len(Content(disk, n)) \in Nat /\ Len(Held(n)) \in Nat
<1>1. Content(disk, n) \in Seq(Messages)
  BY EmptySeq DEF Content, Types
<1>2. Content(disk, 0) \in Seq(Messages)
  BY EmptySeq DEF Content, Types
<1>3. Current \in Seq(Messages)
  BY <1>2, ConcatProperties DEF Current, Types
<1> QED BY <1>1, <1>3, LenProperties DEF Held

LEMMA SizeIsNat ==
  ASSUME Types, NEW f \in Seq(Messages)
  PROVE  Size(f) \in Nat
<1>1. CASE f = <<>>
  BY <1>1 DEF Size
<1>2. CASE f # <<>>
  <2>1. Len(f) \in 1 .. Len(f)
    BY <1>2, EmptySeq, LenProperties
  <2>2. f[Len(f)] \in Messages
    BY <2>1, ElementOfSeq
  <2> QED BY <2>2, <1>2, Numbered DEF Size, Types
<1> QED BY <1>1, <1>2

\* Giving the buffer's first messages to the file changes nothing in what it
\* will hold.
LEMMA Splitting ==
  ASSUME NEW S, NEW t \in Seq(S), NEW n \in 0 .. Len(t)
  PROVE  /\ SubSeq(t, 1, n) \in Seq(S) /\ SubSeq(t, n + 1, Len(t)) \in Seq(S)
         /\ Len(SubSeq(t, n + 1, Len(t))) = Len(t) - n
         /\ \A k \in 1 .. Len(t) - n : SubSeq(t, n + 1, Len(t))[k] = t[n + k]
         /\ SubSeq(t, 1, n) \o SubSeq(t, n + 1, Len(t)) = t
<1>1. Len(t) \in Nat /\ \A k \in 1 .. Len(t) : t[k] \in S
  BY LenProperties, ElementOfSeq
<1>2. /\ SubSeq(t, 1, n) \in Seq(S)
  BY <1>1, SubSeqProperties, n \in Int, 1 \in Int, \A k \in 1 .. n : t[k] \in S
<1>3. /\ SubSeq(t, n + 1, Len(t)) \in Seq(S)
      /\ Len(SubSeq(t, n + 1, Len(t))) = IF n + 1 <= Len(t) THEN Len(t) - (n + 1) + 1 ELSE 0
      /\ \A k \in 1 .. Len(t) - (n + 1) + 1 : SubSeq(t, n + 1, Len(t))[k] = t[n + 1 + k - 1]
  <2>1. n + 1 \in Int /\ Len(t) \in Int /\ \A k \in n + 1 .. Len(t) : t[k] \in S
    BY <1>1
  <2> QED BY <2>1, SubSeqProperties
<1>4. SubSeq(t, 1, n) \o SubSeq(t, n + 1, Len(t)) = t
  <2>1. 1 \in 1 .. Len(t) + 1 /\ n \in 1 - 1 .. Len(t) /\ Len(t) \in n .. Len(t)
    BY <1>1
  <2>2. SubSeq(t, 1, n) \o SubSeq(t, n + 1, Len(t)) = SubSeq(t, 1, Len(t))
    BY <2>1, ConcatAdjacentSubSeq
  <2> QED BY <2>2, SubSeqFull
<1>6. Len(SubSeq(t, n + 1, Len(t))) = Len(t) - n
  BY <1>1, <1>3
<1>7. \A k \in 1 .. Len(t) - n : SubSeq(t, n + 1, Len(t))[k] = t[n + k]
  <2> TAKE k \in 1 .. Len(t) - n
  <2>1. k \in 1 .. Len(t) - (n + 1) + 1 /\ n + 1 + k - 1 = n + k
    BY <1>1
  <2> QED BY <2>1, <1>3
<1> QED BY <1>2, <1>3, <1>4, <1>6, <1>7

LEMMA Prefix ==
  ASSUME NEW S, NEW t \in Seq(S), NEW n \in 0 .. Len(t)
  PROVE  /\ SubSeq(t, 1, n) \in Seq(S) /\ Len(SubSeq(t, 1, n)) = n
         /\ \A k \in 1 .. n : SubSeq(t, 1, n)[k] = t[k]
<1>1. Len(t) \in Nat /\ 1 \in Int /\ n \in Int /\ \A k \in 1 .. n : t[k] \in S
  BY LenProperties, ElementOfSeq
<1>2. /\ SubSeq(t, 1, n) \in Seq(S)
      /\ Len(SubSeq(t, 1, n)) = IF 1 <= n THEN n - 1 + 1 ELSE 0
      /\ \A k \in 1 .. n - 1 + 1 : SubSeq(t, 1, n)[k] = t[1 + k - 1]
  BY <1>1, SubSeqProperties
<1>3. Len(SubSeq(t, 1, n)) = n
  BY <1>1, <1>2
<1>4. \A k \in 1 .. n : SubSeq(t, 1, n)[k] = t[k]
  <2> TAKE k \in 1 .. n
  <2>1. k \in 1 .. n - 1 + 1 /\ 1 + k - 1 = k
    BY <1>1
  <2> QED BY <2>1, <1>2
<1> QED BY <1>2, <1>3, <1>4

LEMMA Rejoining ==
  \A S : \A s, t \in Seq(S) : \A n \in 0 .. Len(t) :
    (s \o SubSeq(t, 1, n)) \o SubSeq(t, n + 1, Len(t)) = s \o t
<1> SUFFICES ASSUME NEW S, NEW s \in Seq(S), NEW t \in Seq(S), NEW n \in 0 .. Len(t)
             PROVE  (s \o SubSeq(t, 1, n)) \o SubSeq(t, n + 1, Len(t)) = s \o t
  OBVIOUS
<1>1. /\ SubSeq(t, 1, n) \in Seq(S) /\ SubSeq(t, n + 1, Len(t)) \in Seq(S)
      /\ SubSeq(t, 1, n) \o SubSeq(t, n + 1, Len(t)) = t
  BY Splitting
<1>2. ASSUME NEW u \in Seq(S), NEW v \in Seq(S) PROVE (s \o u) \o v = s \o (u \o v)
  BY ConcatAssociative, SMTT(60)
<1>3. (s \o SubSeq(t, 1, n)) \o SubSeq(t, n + 1, Len(t))
        = s \o (SubSeq(t, 1, n) \o SubSeq(t, n + 1, Len(t)))
  BY <1>1, <1>2, Zenon
<1> QED BY <1>1, <1>3, Zenon

LEMMA AppendToConcat ==
  ASSUME NEW S, NEW s \in Seq(S), NEW t \in Seq(S), NEW e \in S
  PROVE  s \o Append(t, e) = Append(s \o t, e)
<1>1. s \o t \in Seq(S) /\ Append(t, e) \in Seq(S) /\ Len(Append(t, e)) = Len(t) + 1
  BY ConcatProperties, AppendProperties
<1>2. s \o Append(t, e) \in Seq(S) /\ Append(s \o t, e) \in Seq(S)
  BY <1>1, ConcatProperties, AppendProperties
<1>3. Len(s \o Append(t, e)) = Len(Append(s \o t, e))
  BY <1>1, ConcatProperties, AppendProperties, LenProperties
<1>4. \A i \in 1 .. Len(s \o Append(t, e)) : (s \o Append(t, e))[i] = Append(s \o t, e)[i]
  <2> TAKE i \in 1 .. Len(s \o Append(t, e))
  <2>1. Len(s) \in Nat /\ Len(t) \in Nat /\ Len(s \o t) = Len(s) + Len(t)
    BY ConcatProperties, LenProperties
  <2>2. i \in 1 .. Len(s) + Len(t) + 1
    BY <1>1, <2>1, ConcatProperties
  <2>3. (s \o Append(t, e))[i] = IF i <= Len(s) THEN s[i] ELSE Append(t, e)[i - Len(s)]
    <3>1. i \in 1 .. Len(s) + Len(Append(t, e))
      BY <1>1, <2>1, <2>2
    <3>2. \A k \in 1 .. Len(s) + Len(Append(t, e)) : (s \o Append(t, e))[k] =
             IF k <= Len(s) THEN s[k] ELSE Append(t, e)[k - Len(s)]
      BY <1>1, ConcatProperties
    <3> QED BY <3>1, <3>2
  <2>4. CASE i = Len(s) + Len(t) + 1
    <3>1. i - Len(s) = Len(t) + 1 /\ ~(i <= Len(s)) /\ i = Len(s \o t) + 1
      BY <2>1, <2>4
    <3> QED BY <1>1, <2>3, <3>1, AppendProperties
  <2>5. CASE i \in 1 .. Len(s) + Len(t)
    <3>1. Append(s \o t, e)[i] = (s \o t)[i]
      BY <1>1, <2>1, <2>5, AppendProperties
    <3>2. (s \o t)[i] = IF i <= Len(s) THEN s[i] ELSE t[i - Len(s)]
      BY <2>5, ConcatProperties
    <3>3. ~(i <= Len(s)) => Append(t, e)[i - Len(s)] = t[i - Len(s)]
      BY <2>1, <2>5, AppendProperties
    <3> QED BY <2>3, <3>1, <3>2, <3>3
  <2> QED BY <2>1, <2>2, <2>4, <2>5
<1> QED BY <1>2, <1>3, <1>4, SeqEqual

\* What the disk operations do to each file.
LEMMA PutContent ==
  ASSUME NEW d, NEW k, NEW n, NEW f
  PROVE  Content(Put(d, n, f), k) = IF k = n THEN f ELSE Content(d, k)
BY DEF Content, Put

LEMMA UnlinkContent ==
  ASSUME NEW d, NEW k, NEW n
  PROVE  Content(Unlink(d, n), k) = IF k = n THEN <<>> ELSE Content(d, k)
BY DEF Content, Unlink

LEMMA RenameContent ==
  ASSUME NEW d, NEW k, NEW a, NEW b, a \in DOMAIN d, a # b
  PROVE  Content(Rename(d, a, b), k) =
           IF k = a THEN <<>> ELSE IF k = b THEN Content(d, a) ELSE Content(d, k)
BY DEF Content, Rename, Put, Unlink

-----------------------------------------------------------------------------
(* What a step does to the files' contents                                 *)

Same == accepted' = accepted /\ \A n \in FileNumbers : Held(n)' = Held(n)
Empties(d) ==
  /\ accepted' = accepted
  /\ \A n \in FileNumbers : Held(n)' = IF n = d THEN <<>> ELSE Held(n)
Moves(a) ==
  /\ a \in FileNumbers /\ a + 1 \in FileNumbers
  /\ Held(a + 1) = <<>> \/ a + 1 = LastArchive
  /\ accepted' = accepted
  /\ \A n \in FileNumbers :
       Held(n)' = IF n = a THEN <<>> ELSE IF n = a + 1 THEN Held(a) ELSE Held(n)
Grows ==
  /\ pc = "append" /\ msg \in Messages /\ Placed \in Messages
  /\ accepted' = Append(accepted, Placed)
  /\ \A n \in FileNumbers :
       Held(n)' = IF n = 0 THEN Append(Held(0), Placed) ELSE Held(n)
Loses ==
  /\ accepted' = SubSeq(accepted, 1, Len(accepted) - Len(unflushed))
  /\ \A n \in FileNumbers : Held(n)' = Content(disk, n)

Change ==
  \/ Same
  \/ Empties(LastArchive)
  \/ Empties(0) /\ config.open_mode = "overwrite"
  \/ \E a \in FileNumbers : Moves(a)
  \/ Grows
  \/ Loses

\* A closed file holds what is on the disk.
LEMMA ClosedHeld ==
  ASSUME Types, unflushed = <<>>, NEW n
  PROVE  Held(n) = Content(disk, n)
<1>1. Content(disk, 0) \in Seq(Messages)
  BY HeldIsSeq
<1>2. Content(disk, 0) \o <<>> = Content(disk, 0)
  BY <1>1, ConcatEmptySeq
<1> QED BY <1>2 DEF Held, Current

LEMMA CreateChange ==
  ASSUME FInv, NEW now \in Times[roll_mode], create(now)
  PROVE  Change
<1>1. CASE config.open_mode = "append"
  <2>1. disk' = Put(disk, 0, Content(disk, 0)) /\ unflushed' = unflushed
    BY <1>1 DEF create
  <2>2. \A n : Content(disk', n) = Content(disk, n)
    BY <2>1, PutContent
  <2>3. \A n : Held(n)' = Held(n)
    BY <2>1, <2>2 DEF Held, Current
  <2> QED BY <2>3 DEF Change, Same, create
<1>2. CASE config.open_mode # "append"
  <2>1. unflushed = <<>>
    BY DEF FInv, Places, create
  <2>2. <<>> \o <<>> = <<>>
    BY EmptySeq, ConcatEmptySeq
  <2>5. disk' = Put(disk, 0, <<>>) /\ unflushed' = unflushed
    BY <1>2 DEF create
  <2>6. \A n : Content(disk', n) = IF n = 0 THEN <<>> ELSE Content(disk, n)
    BY <2>5, PutContent
  <2>3. \A n : Held(n)' = IF n = 0 THEN <<>> ELSE Held(n)
    BY <2>1, <2>2, <2>5, <2>6 DEF Held, Current
  <2>4. config.open_mode = "overwrite"
    BY <1>2, LogFileAssumption DEF FInv, Types, OpenModes
  <2> QED BY <2>3, <2>4 DEF Change, Empties, create
<1> QED BY <1>1, <1>2

\* Steps between which messages only go from the buffer to the file.
LEMMA WriteOutChange ==
  ASSUME FInv, NEW n \in 0 .. Len(unflushed), WriteOut(n), accepted' = accepted
  PROVE  Same
<1>1. Content(disk, 0) \in Seq(Messages) /\ unflushed \in Seq(Messages)
  BY HeldIsSeq DEF FInv, Types
<1>4. \A k : Content(disk', k) = IF k = 0 THEN Content(disk, 0) \o SubSeq(unflushed, 1, n)
                                        ELSE Content(disk, k)
  BY PutContent DEF WriteOut
<1>5. unflushed' = SubSeq(unflushed, n + 1, Len(unflushed))
  BY DEF WriteOut
<1>6. Content(disk', 0) \o unflushed' = Content(disk, 0) \o unflushed
  <2>1. (Content(disk, 0) \o SubSeq(unflushed, 1, n)) \o SubSeq(unflushed, n + 1, Len(unflushed))
          = Content(disk, 0) \o unflushed
    BY <1>1, Rejoining, Zenon
  <2> QED BY <2>1, <1>4, <1>5
<1>3. \A k : Held(k)' = Held(k)
  BY <1>4, <1>6 DEF Held, Current
<1> QED BY <1>3 DEF Same

LEMMA FlushSame ==
  ASSUME FInv, spill \/ flush
  PROVE  Same /\ file /\ UNCHANGED <<file, current_size, current_period>>
<1>1. Len(unflushed) \in Nat /\ accepted' = accepted
  BY LenProperties DEF FInv, Types, spill, flush
<1>2. PICK n \in 0 .. Len(unflushed) : WriteOut(n)
  <2>1. CASE flush
    <3>1. Len(unflushed) \in 0 .. Len(unflushed) /\ WriteOut(Len(unflushed))
      BY <1>1, <2>1 DEF flush
    <3> QED BY <3>1
  <2>2. CASE spill
    <3>1. PICK n \in 1 .. Len(unflushed) - 1 : WriteOut(n)
      BY <2>2 DEF spill
    <3> QED BY <1>1, <3>1
  <2> QED BY <2>1, <2>2
<1>3. Same
  BY <1>1, <1>2, WriteOutChange
<1> QED BY <1>3 DEF spill, flush

LEMMA CloseChange ==
  ASSUME FInv, rotate_close
  PROVE  Change
<1>1. file /\ accepted' = accepted /\ unflushed' = <<>>
  BY DEF FInv, Places, rotate_close
<1>2. Current \in Seq(Messages) /\ Current \o <<>> = Current
  <2>1. Current \in Seq(Messages)
    BY HeldIsSeq DEF FInv, Held
  <2> QED BY <2>1, ConcatEmptySeq
<1>3. disk' = Put(disk, 0, Current)
  BY <1>1 DEF rotate_close, Current
<1>5. \A n : Content(disk', n) = IF n = 0 THEN Current ELSE Content(disk, n)
  BY <1>3, PutContent
<1>4. \A n : Held(n)' = Held(n)
  BY <1>1, <1>2, <1>5 DEF Held, Current
<1> QED BY <1>1, <1>4 DEF Change, Same

LEMMA RemoveChange ==
  ASSUME FInv, rotate_remove
  PROVE  Change
<1>1. unflushed = <<>> /\ unflushed' = unflushed /\ accepted' = accepted
  BY DEF FInv, Places, InCall, rotate_remove, sink
<1>2. CASE MaxFiles > 0
  <2>1. disk' = Unlink(disk, LastArchive) /\ LastArchive # 0
    BY <1>2, Numbering DEF rotate_remove
  <2>2. \A n : Content(disk', n) = IF n = LastArchive THEN <<>> ELSE Content(disk, n)
    BY <2>1, UnlinkContent
  <2>3. \A n : Held(n)' = IF n = LastArchive THEN <<>> ELSE Held(n)
    BY <1>1, <2>1, <2>2 DEF Held, Current
  <2> QED BY <1>1, <2>3 DEF Change, Empties
<1>3. CASE ~(MaxFiles > 0)
  <2>1. \A n : Held(n)' = Held(n)
    BY <1>1, <1>3 DEF rotate_remove, Held, Current
  <2> QED BY <1>1, <2>1 DEF Change, Same
<1> QED BY <1>2, <1>3

\* A rename moves the contents of one file to the next number.
LEMMA RenameChange ==
  ASSUME FInv, Reliable, NEW a \in 0 .. top, unflushed = <<>>, unflushed' = <<>>,
         TryRename(a, a + 1), a + 1 \notin DOMAIN disk \/ a + 1 = LastArchive,
         accepted' = accepted
  PROVE  Change
<1>1. disk' = Rename(disk, a, a + 1) /\ a # a + 1
  BY DEF TryRename, Reliable
<1>2. \A n : Held(n) = Content(disk, n)
  BY ClosedHeld DEF FInv
<1>3. \A n : Content(disk, n) \o <<>> = Content(disk, n)
  <2> TAKE n
  <2>1. Content(disk, n) \in Seq(Messages)
    BY HeldIsSeq DEF FInv
  <2> QED BY <2>1, ConcatEmptySeq
<1>4. CASE a \notin DOMAIN disk
  <2>1. disk' = disk
    BY <1>1, <1>4 DEF Rename
  <2>2. \A n : Held(n)' = Held(n)
    BY <2>1 DEF Held, Current
  <2> QED BY <2>2 DEF Change, Same
<1>5. CASE a \in DOMAIN disk
  <2>1. \A n : Content(disk', n) = IF n = a THEN <<>> ELSE IF n = a + 1 THEN Content(disk, a)
                                                     ELSE Content(disk, n)
    <3> TAKE n
    <3>1. Content(Rename(disk, a, a + 1), n) =
            IF n = a THEN <<>> ELSE IF n = a + 1 THEN Content(disk, a) ELSE Content(disk, n)
      BY <1>1, <1>5, RenameContent
    <3> QED BY <1>1, <3>1
  <2>2. <<>> \o <<>> = <<>>
    BY EmptySeq, ConcatEmptySeq
  <2>3. \A n : Held(n)' = IF n = 0 THEN Content(disk', 0) \o <<>> ELSE Content(disk', n)
    BY DEF Held, Current
  <2>4. Content(disk', 0) \o <<>> = Content(disk', 0)
    <3>1. Content(disk', 0) \in {<<>>, Content(disk, 0), Content(disk, a)}
      BY <2>1
    <3> QED BY <3>1, <2>2, <1>3
  <2>5. \A n : Held(n)' = IF n = a THEN <<>> ELSE IF n = a + 1 THEN Held(a) ELSE Held(n)
    BY <2>1, <2>3, <2>4, <1>2
  <2>6. Held(a + 1) = <<>> \/ a + 1 = LastArchive
    BY <1>2 DEF Content
  <2>7. a \in FileNumbers /\ a + 1 \in FileNumbers
    BY Numbering
  <2> QED BY <2>5, <2>6, <2>7 DEF Change, Moves
<1> QED BY <1>4, <1>5

LEMMA ShiftChange ==
  ASSUME FInv, Reliable, rotate_shift \/ rotate_retire
  PROVE  Change
<1>1. /\ unflushed = <<>> /\ unflushed' = unflushed /\ accepted' = accepted
      /\ TryRename(shift, shift + 1) /\ pc = "shift"
  BY DEF FInv, Places, InCall, rotate_shift, rotate_retire, sink
<1>2. shift \in 0 .. top /\ (shift + 1 \notin DOMAIN disk \/ shift + 1 = LastArchive)
  BY <1>1 DEF FInv, Types, Places
<1> QED BY <1>1, <1>2, RenameChange

LEMMA OpenChange ==
  ASSUME FInv, Reliable, rotate_open
  PROVE  Change
<1>1. /\ unflushed = <<>> /\ unflushed' = unflushed /\ accepted' = accepted
      /\ disk' = Put(disk, 0, <<>>) /\ Content(disk, 0) = <<>>
  BY DEF FInv, Places, InCall, rotate_open, Reliable, Content
<1>2. \A n : Content(disk', n) = Content(disk, n)
  BY <1>1, PutContent
<1>3. \A n : Held(n)' = Held(n)
  BY <1>1, <1>2 DEF Held, Current
<1> QED BY <1>1, <1>3 DEF Change, Same

LEMMA PlacedIsMessage ==
  ASSUME Types, msg \in Messages
  PROVE  /\ Placed \in Messages
         /\ Placed.id = msg.id /\ Placed.time = msg.time /\ Placed.len = msg.len
         /\ Placed.end = Size(Current) + msg.len
<1>1. Size(Current) + msg.len \in Nat
  <2>1. Current \in Seq(Messages)
    BY HeldIsSeq DEF Held
  <2>2. Size(Current) \in Nat
    BY <2>1, SizeIsNat
  <2>3. msg.len \in Nat
    BY Numbered DEF Types
  <2> QED BY <2>2, <2>3
<1> QED BY <1>1 DEF Placed, Messages

LEMMA AppendGrows ==
  ASSUME FInv, append
  PROVE  Grows /\ file
<1>1. file /\ msg \in Messages /\ disk' = disk
  BY DEF FInv, Places, InCall, append
<1>2. Placed \in Messages
  BY <1>1, PlacedIsMessage DEF FInv
<1>3. unflushed' = Append(unflushed, Placed) /\ accepted' = Append(accepted, Placed)
  BY <1>1 DEF append
<1>4. Content(disk, 0) \in Seq(Messages) /\ unflushed \in Seq(Messages)
  BY HeldIsSeq DEF FInv, Types
<1>5. Content(disk, 0) \o Append(unflushed, Placed) = Append(Current, Placed)
  BY <1>2, <1>4, AppendToConcat DEF Current
<1>6. \A n : Held(n)' = IF n = 0 THEN Append(Held(0), Placed) ELSE Held(n)
  BY <1>1, <1>3, <1>5 DEF Held, Current
<1> QED BY <1>1, <1>2, <1>3, <1>6 DEF Grows, append

LEMMA KillChange ==
  ASSUME FInv, kill
  PROVE  Change
<1>1. disk' = disk /\ unflushed' = <<>>
  BY DEF kill
<1>2. Content(disk, 0) \in Seq(Messages)
  BY HeldIsSeq DEF FInv
<1>3. Content(disk, 0) \o <<>> = Content(disk, 0)
  BY <1>2, ConcatEmptySeq
<1>4. \A n : Held(n)' = Content(disk, n)
  BY <1>1, <1>3 DEF Held, Current
<1> QED BY <1>4 DEF Change, Loses, kill

LEMMA StepChange ==
  ASSUME FInv, Reliable, [Next]_vars
  PROVE  Change
<1>1. CASE UNCHANGED vars
  <2>1. \A n : Held(n)' = Held(n)
    BY <1>1 DEF vars, sink, Held, Current, Content
  <2> QED BY <1>1, <2>1 DEF Change, Same, vars
<1>2. CASE spill \/ flush
  BY <1>2, FlushSame DEF Change
<1>3. CASE destroy
  <2>1. accepted' = accepted
    BY <1>3 DEF destroy
  <2>2. CASE file
    <3>1. WriteOut(Len(unflushed))
      BY <1>3, <2>2, Zenon DEF destroy
    <3>2. Len(unflushed) \in 0 .. Len(unflushed)
      BY LenProperties DEF FInv, Types
    <3> QED BY <2>1, <3>1, <3>2, WriteOutChange DEF Change
  <2>3. CASE ~file
    <3>1. disk' = disk /\ unflushed' = unflushed
      BY <1>3, <2>3, Zenon DEF destroy
    <3>2. \A n : Held(n)' = Held(n)
      BY <3>1 DEF Held, Current, Content
    <3> QED BY <2>1, <3>2 DEF Change, Same
  <2> QED BY <2>2, <2>3
<1>4. ASSUME NEW now \in Times[roll_mode], create(now) PROVE Change
  BY <1>4, CreateChange
<1>5. ASSUME NEW time, NEW len, write(time, len) PROVE Change
  <2>1. accepted' = accepted /\ disk' = disk /\ unflushed' = unflushed
    BY <1>5 DEF write, sink
  <2>2. \A n : Held(n)' = Held(n)
    BY <2>1 DEF Held, Current, Content
  <2> QED BY <2>1, <2>2 DEF Change, Same
<1> QED BY <1>1, <1>2, <1>3, <1>4, <1>5, CloseChange, RemoveChange, ShiftChange, OpenChange,
           AppendGrows, KillChange DEF Next, Rotate, Change

-----------------------------------------------------------------------------
(* The invariant the properties rest on                                    *)

LEMMA FInit ==
  Init => FInv
<1> SUFFICES ASSUME Init PROVE FInv  OBVIOUS
<1>1. <<>> \in Seq(Messages) /\ Len(<<>>) = 0
  BY EmptySeq
<1>2. DOMAIN disk = {} /\ disk = [n \in DOMAIN disk |-> disk[n]]
  <2>1. disk \in [1 .. 0 -> Messages]
    BY <1>1, LenProperties DEF Init
  <2> QED BY <2>1
<1>3. Types
  <2>1. current_period \in 0 .. Cycle - 1 /\ sent \in 0 .. MaxMessages /\ kills \in 0 .. MaxKills
    BY LogFileAssumption DEF Init
  <2>2. shift \in 0 .. top
    BY Numbering DEF Init
  <2>3. pc \in InCall \cup {"down", "ready"} /\ msg \in Messages \cup {NoMessage}
    BY DEF Init
  <2> QED BY <1>1, <1>2, <2>1, <2>2, <2>3 DEF Init, Types
<1> QED BY <1>1, <1>3 DEF FInv, Places, Numbers, Init, InCall

\* The disk stays a partial function to sequences of messages.
LEMMA PutDisk ==
  ASSUME Types, NEW n \in FileNumbers, NEW f \in Seq(Messages), disk' = Put(disk, n, f)
  PROVE  /\ DOMAIN disk' = DOMAIN disk \cup {n}
         /\ DOMAIN disk' \subseteq FileNumbers /\ disk' = [k \in DOMAIN disk' |-> disk'[k]]
         /\ \A k \in DOMAIN disk' : disk'[k] \in Seq(Messages)
BY DEF Types, Put

LEMMA UnlinkDisk ==
  ASSUME Types, NEW n, disk' = Unlink(disk, n)
  PROVE  /\ DOMAIN disk' = DOMAIN disk \ {n}
         /\ DOMAIN disk' \subseteq FileNumbers /\ disk' = [k \in DOMAIN disk' |-> disk'[k]]
         /\ \A k \in DOMAIN disk' : disk'[k] \in Seq(Messages)
BY DEF Types, Unlink

LEMMA RenameDisk ==
  ASSUME Types, NEW a, NEW b \in FileNumbers, a # b, disk' = Rename(disk, a, b)
  PROVE  /\ DOMAIN disk' = IF a \in DOMAIN disk THEN (DOMAIN disk \cup {b}) \ {a} ELSE DOMAIN disk
         /\ DOMAIN disk' \subseteq FileNumbers /\ disk' = [k \in DOMAIN disk' |-> disk'[k]]
         /\ \A k \in DOMAIN disk' : disk'[k] \in Seq(Messages)
<1>1. CASE a \notin DOMAIN disk
  BY <1>1 DEF Types, Rename
<1>2. CASE a \in DOMAIN disk
  BY <1>2 DEF Types, Rename, Put, Unlink
<1> QED BY <1>1, <1>2

LEMMA PeriodInCycle ==
  ASSUME config \in Configs, NEW time \in Times[roll_mode]
  PROVE  Period(time) \in 0 .. Cycle - 1
<1>1. roll_mode \in RollModes
  BY LogFileAssumption DEF roll_mode
<1>2. time \in Nat /\ Cycle \in Nat \ {0}
  BY <1>1, LogFileAssumption
<1> QED BY <1>2 DEF Period

\* Steps that write some of the buffer to the file.
LEMMA WriteOutTypes ==
  ASSUME FInv, file, NEW n \in 0 .. Len(unflushed), WriteOut(n),
         accepted' = accepted, sent' = sent, pc' = pc \/ pc' \notin InCall
  PROVE  /\ DOMAIN disk' = DOMAIN disk \cup {0}
         /\ DOMAIN disk' \subseteq FileNumbers /\ disk' = [k \in DOMAIN disk' |-> disk'[k]]
         /\ \A k \in DOMAIN disk' : disk'[k] \in Seq(Messages)
         /\ unflushed' \in Seq(Messages) /\ Len(unflushed') = Len(unflushed) - n
         /\ Numbers'
<1>1. Types /\ unflushed \in Seq(Messages) /\ 0 \in FileNumbers /\ Content(disk, 0) \in Seq(Messages)
  BY Numbering, HeldIsSeq DEF FInv, Types
<1>2. /\ SubSeq(unflushed, 1, n) \in Seq(Messages)
      /\ unflushed' \in Seq(Messages) /\ Len(unflushed') = Len(unflushed) - n
      /\ \A k \in 1 .. Len(unflushed) - n : unflushed'[k] = unflushed[n + k]
  BY <1>1, Splitting DEF WriteOut
<1>3. Content(disk, 0) \o SubSeq(unflushed, 1, n) \in Seq(Messages)
  BY <1>1, <1>2, ConcatProperties
<1>4. Numbers'
  <2>1. Len(unflushed) \in Nat /\ Len(accepted) \in Nat
    BY LenProperties DEF FInv, Types
  <2>2. Len(unflushed') <= Len(accepted')
    BY <1>2, <2>1 DEF FInv, Numbers
  <2>3. \A k \in 1 .. Len(unflushed') :
          unflushed'[k] = accepted'[Len(accepted') - Len(unflushed') + k]
    <3> TAKE k \in 1 .. Len(unflushed')
    <3>1. n + k \in 1 .. Len(unflushed)
      BY <1>2, <2>1
    <3>2. Len(accepted) - Len(unflushed) + (n + k) = Len(accepted) - Len(unflushed') + k
      BY <1>2, <2>1, <3>1
    <3>3. unflushed[n + k] = accepted[Len(accepted) - Len(unflushed) + (n + k)]
      BY <3>1 DEF FInv, Numbers
    <3> QED BY <1>2, <3>2, <3>3
  <2> QED BY <2>2, <2>3 DEF FInv, Numbers
<1> QED BY <1>1, <1>2, <1>3, <1>4, PutDisk DEF WriteOut

LEMMA ConfigFixed ==
  ASSUME [Next]_vars
  PROVE  config' = config /\ roll_mode' = roll_mode /\ Messages' = Messages
<1>1. config' = config
  BY DEF Next, Rotate, create, write, rotate_close, rotate_remove, rotate_shift, rotate_retire,
         rotate_open, append, spill, flush, destroy, kill, vars
<1> QED BY <1>1 DEF roll_mode, Messages

\* The log is read and written only by append and kill; every other step keeps
\* its numbers as they were.
LEMMA NumbersKept ==
  ASSUME FInv, accepted' = accepted, unflushed' = unflushed, sent' = sent,
         pc' \in InCall => pc \in InCall
  PROVE  Numbers'
BY DEF FInv, Numbers

LEMMA CreateStep ==
  ASSUME FInv, NEW now \in Times[roll_mode], create(now), Messages' = Messages
  PROVE  FInv'
<1>1. Types /\ config \in Configs /\ 0 \in FileNumbers
  BY Numbering DEF FInv, Types
<1>2. PICK f \in Seq(Messages) : disk' = Put(disk, 0, f) /\ current_size' = Size(f)
  <2>1. Content(disk, 0) \in Seq(Messages) /\ <<>> \in Seq(Messages)
    BY <1>1, HeldIsSeq, EmptySeq
  <2> QED BY <2>1 DEF create
<1>3. current_size' \in Nat /\ current_period' \in 0 .. Cycle - 1
  BY <1>1, <1>2, SizeIsNat, PeriodInCycle DEF create
<1>4. Types'
  BY <1>1, <1>2, <1>3, PutDisk DEF Types, create
<1>5. Places'
  BY <1>1, <1>2, PutDisk DEF FInv, Places, InCall, create
<1>6. Numbers'
  BY NumbersKept DEF create, InCall
<1> QED BY <1>4, <1>5, <1>6 DEF FInv

LEMMA WriteStep ==
  ASSUME FInv, NEW time \in Times[roll_mode], NEW len \in Lens[roll_mode], write(time, len),
         Messages' = Messages
  PROVE  FInv'
<1>1. sent \in Nat /\ sent' = sent + 1 /\ sent' \in 1 .. MaxMessages
  BY LogFileAssumption, SMTT(20) DEF FInv, Types, write
<1>2. msg' \in Messages /\ msg'.id = sent'
  BY <1>1 DEF write, Messages
<1>3. pc' \in {"close", "append"}
  BY DEF write
<1>4. Types'
  BY <1>1, <1>2, <1>3, LogFileAssumption, SMTT(20) DEF FInv, Types, write, sink, InCall
<1>5. Places'
  BY <1>2, <1>3 DEF FInv, Places, write, sink, InCall
<1>6. \A k \in 1 .. Len(accepted) : accepted[k].id <= sent' /\ accepted[k].id < sent'
  <2> TAKE k \in 1 .. Len(accepted)
  <2>1. accepted[k] \in Messages /\ config \in Configs
    BY ElementOfSeq DEF FInv, Types
  <2>2. accepted[k].id \in Nat /\ accepted[k].id <= sent
    BY <2>1, Numbered DEF FInv, Numbers
  <2> QED BY <2>2, <1>1
<1>7. Numbers'
  BY <1>6 DEF FInv, Numbers, write, sink
<1> QED BY <1>4, <1>5, <1>7 DEF FInv

LEMMA CloseStep ==
  ASSUME FInv, rotate_close, Messages' = Messages
  PROVE  FInv'
<1>0. Types /\ Held(0) \in Seq(Messages)
  BY HeldIsSeq DEF FInv
<1>1. Types /\ 0 \in FileNumbers /\ Current \in Seq(Messages) /\ <<>> \in Seq(Messages)
  BY <1>0, Numbering, EmptySeq DEF Held
<1>2. file /\ disk' = Put(disk, 0, Current) /\ unflushed' = <<>> /\ accepted' = accepted
  BY DEF FInv, Places, rotate_close, Current
<1>3. Types'
  BY <1>1, <1>2, PutDisk DEF Types, rotate_close, InCall
<1>4. Places'
  BY <1>2 DEF FInv, Places, rotate_close, InCall
<1>5. Numbers'
  <2>1. Len(accepted) \in Nat /\ Len(unflushed') = 0
    BY <1>1, <1>2, LenProperties DEF Types
  <2> QED BY <1>2, <2>1 DEF FInv, Numbers, rotate_close, InCall
<1> QED BY <1>3, <1>4, <1>5 DEF FInv

LEMMA RemoveStep ==
  ASSUME FInv, rotate_remove, Messages' = Messages
  PROVE  FInv'
<1>1. Types /\ top \in 0 .. top
  BY Numbering DEF FInv
<1>2. CASE MaxFiles > 0
  <2>1. DOMAIN disk' = DOMAIN disk \ {MaxFiles} /\ top + 1 = MaxFiles
    BY <1>1, <1>2, UnlinkDisk, Numbering DEF rotate_remove
  <2>2. Types'
    BY <1>1, <1>2, UnlinkDisk DEF Types, rotate_remove, sink, InCall
  <2>3. Places'
    BY <2>1 DEF FInv, Places, rotate_remove, sink, InCall
  <2> QED BY <2>2, <2>3, NumbersKept DEF FInv, rotate_remove, sink, InCall
<1>3. CASE ~(MaxFiles > 0)
  <2>1. Types'
    BY <1>1, <1>3 DEF Types, rotate_remove, sink, InCall
  <2>2. top + 1 = LastArchive
    BY Numbering
  <2>3. Places'
    BY <1>3, <2>2 DEF FInv, Places, rotate_remove, sink, InCall, LastArchive, top
  <2> QED BY <2>1, <2>3, NumbersKept DEF FInv, rotate_remove, sink, InCall
<1> QED BY <1>2, <1>3

LEMMA ShiftStep ==
  ASSUME FInv, Reliable, rotate_shift \/ rotate_retire, Messages' = Messages
  PROVE  FInv'
<1>1. shift \in 0 .. top /\ shift \in Nat /\ top \in Nat /\ shift + 1 \in FileNumbers /\ shift # shift + 1
  BY Numbering DEF FInv, Types
<1>2. /\ disk' = Rename(disk, shift, shift + 1) /\ pc = "shift"
      /\ accepted' = accepted /\ unflushed' = unflushed /\ sent' = sent /\ UNCHANGED <<config, sink, msg, kills>>
  BY DEF rotate_shift, rotate_retire, TryRename, Reliable, sink
<1>3. shift \notin DOMAIN disk'
  BY <1>1, <1>2, RenameDisk DEF FInv
<1>4. CASE rotate_shift
  <2>1. shift' = shift - 1 /\ shift' \in 0 .. top /\ shift' + 1 = shift /\ pc' = pc
    <3>1. shift >= 1 /\ shift' = shift - 1 /\ pc' = pc
      BY <1>4 DEF rotate_shift
    <3> QED BY <1>1, <3>1
  <2>2. Types'
    BY <1>1, <1>2, <2>1, RenameDisk DEF FInv, Types, sink
  <2>3. Places'
    BY <1>2, <1>3, <2>1 DEF FInv, Places, sink, InCall
  <2> QED BY <1>2, <2>1, <2>2, <2>3, NumbersKept DEF FInv
<1>5. CASE rotate_retire
  <2>1. shift' = shift /\ shift = 0 /\ pc' = "open"
    BY <1>5 DEF rotate_retire
  <2>2. Types'
    BY <1>1, <1>2, <2>1, RenameDisk DEF FInv, Types, sink, InCall
  <2>3. Places'
    BY <1>2, <1>3, <2>1 DEF FInv, Places, sink, InCall
  <2> QED BY <1>2, <2>1, <2>2, <2>3, NumbersKept DEF FInv, InCall
<1> QED BY <1>4, <1>5

LEMMA OpenStep ==
  ASSUME FInv, Reliable, rotate_open, Messages' = Messages
  PROVE  FInv'
<1>1. Types /\ 0 \in FileNumbers /\ <<>> \in Seq(Messages)
  BY Numbering, EmptySeq DEF FInv
<1>2. disk' = Put(disk, 0, <<>>) /\ file' = TRUE
  BY DEF rotate_open, Reliable
<1>3. current_period' \in 0 .. Cycle - 1
  <2>1. msg \in Messages
    BY DEF FInv, Places, InCall, rotate_open
  <2>2. msg.time \in Times[roll_mode]
    BY <2>1 DEF Messages
  <2> QED BY <1>1, <2>2, PeriodInCycle DEF rotate_open, Types
<1>4. Types'
  BY <1>1, <1>2, <1>3, PutDisk DEF Types, rotate_open, InCall
<1>5. Places'
  BY <1>1, <1>2, PutDisk DEF FInv, Places, rotate_open, InCall
<1> QED BY <1>4, <1>5, NumbersKept DEF FInv, rotate_open, InCall

LEMMA AppendStep ==
  ASSUME FInv, append, Messages' = Messages
  PROVE  FInv'
<1>1. /\ file /\ msg \in Messages /\ msg.id = sent /\ pc = "append" /\ Types
      /\ unflushed \in Seq(Messages) /\ accepted \in Seq(Messages) /\ Placed \in Messages
      /\ Placed.id = sent
  BY PlacedIsMessage DEF FInv, Places, InCall, append, Types
<1>2. /\ unflushed' = Append(unflushed, Placed) /\ unflushed' \in Seq(Messages)
      /\ accepted' = Append(accepted, Placed) /\ accepted' \in Seq(Messages)
  <2>1. unflushed' = Append(unflushed, Placed) /\ accepted' = Append(accepted, Placed)
    BY <1>1, Zenon DEF append
  <2> QED BY <1>1, <2>1, AppendProperties
<1>3. /\ Len(accepted) \in Nat /\ Len(accepted') = Len(accepted) + 1
      /\ Len(unflushed) \in Nat /\ Len(unflushed') = Len(unflushed) + 1
  BY <1>1, <1>2, AppendProperties, LenProperties
<1>4. Types'
  <2>1. current_size' \in Nat
    BY <1>1, Numbered DEF append, Types
  <2> QED BY <1>1, <1>2, <2>1 DEF Types, append, InCall
<1>5. Places'
  BY <1>1 DEF FInv, Places, append, InCall
<1>6. \A k \in 1 .. Len(accepted') :
         accepted'[k] = IF k = Len(accepted) + 1 THEN Placed ELSE accepted[k]
  BY <1>1, <1>2, <1>3, AppendProperties
<1>7. \A k \in 1 .. Len(unflushed') :
         unflushed'[k] = IF k = Len(unflushed) + 1 THEN Placed ELSE unflushed[k]
  BY <1>1, <1>2, <1>3, AppendProperties
<1>8. \A k \in 1 .. Len(accepted) : accepted[k].id < sent
  BY <1>1 DEF FInv, Numbers, InCall
<1>9. sent \in Nat /\ sent' = sent /\ pc' \notin InCall
  BY LogFileAssumption DEF append, FInv, Types, InCall
<1>10. Numbers'
  <2>1. \A j, k \in 1 .. Len(accepted') : j < k => accepted'[j].id < accepted'[k].id
    <3> SUFFICES ASSUME NEW j \in 1 .. Len(accepted'), NEW k \in 1 .. Len(accepted'), j < k
                 PROVE  accepted'[j].id < accepted'[k].id
      OBVIOUS
    <3>1. j \in 1 .. Len(accepted) /\ accepted'[j] = accepted[j]
      BY <1>3, <1>6
    <3>2. CASE k = Len(accepted) + 1
      BY <1>1, <1>6, <1>8, <3>1, <3>2
    <3>3. CASE k # Len(accepted) + 1
      <4>1. k \in 1 .. Len(accepted) /\ accepted'[k] = accepted[k]
        BY <1>3, <1>6, <3>3
      <4> QED BY <3>1, <4>1 DEF FInv, Numbers
    <3> QED BY <3>2, <3>3
  <2>2. \A k \in 1 .. Len(accepted') : accepted'[k].id <= sent'
    BY <1>1, <1>3, <1>6, <1>9 DEF FInv, Numbers
  <2>3. Len(unflushed') <= Len(accepted')
    BY <1>3 DEF FInv, Numbers
  <2>4. ASSUME NEW k \in 1 .. Len(unflushed')
        PROVE  unflushed'[k] = accepted'[Len(accepted') - Len(unflushed') + k]
    <3>1. Len(accepted') - Len(unflushed') + k = Len(accepted) - Len(unflushed) + k
      BY <1>3
    <3>2. Len(accepted) - Len(unflushed) + k \in 1 .. Len(accepted')
      BY <1>3 DEF FInv, Numbers
    <3>3. CASE k = Len(unflushed) + 1
      BY <1>3, <1>6, <1>7, <3>1, <3>2, <3>3
    <3>4. CASE k \in 1 .. Len(unflushed)
      <4>1. unflushed[k] = accepted[Len(accepted) - Len(unflushed) + k]
        BY <3>4 DEF FInv, Numbers
      <4> QED BY <1>3, <1>6, <1>7, <3>1, <3>2, <3>4, <4>1
    <3> QED BY <1>3, <3>3, <3>4
  <2> QED BY <1>9, <2>1, <2>2, <2>3, <2>4 DEF Numbers
<1> QED BY <1>4, <1>5, <1>10 DEF FInv

LEMMA KillStep ==
  ASSUME FInv, kill, Messages' = Messages
  PROVE  FInv'
<1>1. /\ Types /\ <<>> \in Seq(Messages) /\ Len(<<>>) = 0
      /\ accepted \in Seq(Messages) /\ Len(accepted) \in Nat
      /\ Len(unflushed) \in Nat /\ Len(unflushed) <= Len(accepted)
  BY EmptySeq, LenProperties DEF FInv, Types, Numbers
<1>2. Len(accepted) - Len(unflushed) \in 0 .. Len(accepted)
  BY <1>1
<1>3. /\ accepted' \in Seq(Messages) /\ Len(accepted') = Len(accepted) - Len(unflushed)
      /\ \A k \in 1 .. Len(accepted) - Len(unflushed) : accepted'[k] = accepted[k]
  BY <1>1, <1>2, Prefix DEF kill
<1>4. Types'
  <2>1. kills' \in 0 .. MaxKills
    BY LogFileAssumption, SMTT(20) DEF kill, FInv, Types
  <2> QED BY <1>1, <1>3, <2>1 DEF Types, kill, InCall
<1>5. Places'
  BY DEF FInv, Places, kill, InCall
<1>6. Numbers'
  <2>1. \A k \in 1 .. Len(accepted') : k \in 1 .. Len(accepted) /\ accepted'[k] = accepted[k]
    BY <1>1, <1>3
  <2>2. unflushed' = <<>> /\ sent' = sent /\ pc' = "down"
    BY DEF kill
  <2>3. \A j, k \in 1 .. Len(accepted') : j < k => accepted'[j].id < accepted'[k].id
    BY <2>1 DEF FInv, Numbers
  <2>4. \A k \in 1 .. Len(accepted') : accepted'[k].id <= sent'
    BY <2>1, <2>2 DEF FInv, Numbers
  <2> QED BY <1>1, <1>3, <2>2, <2>3, <2>4 DEF Numbers, InCall
<1> QED BY <1>4, <1>5, <1>6 DEF FInv

\* spill, flush and destroy.
LEMMA WriteOutStep ==
  ASSUME FInv, spill \/ flush \/ destroy, Messages' = Messages
  PROVE  FInv'
<1>1. Len(unflushed) \in Nat /\ Types /\ <<>> \in Seq(Messages)
  BY LenProperties, EmptySeq DEF FInv, Types
<1>2. /\ accepted' = accepted /\ sent' = sent
      /\ UNCHANGED <<config, current_size, current_period, msg, shift, kills>>
  BY DEF spill, flush, destroy
<1>3. ASSUME file, NEW n \in 0 .. Len(unflushed), WriteOut(n),
             \/ pc' = pc /\ file' = file
             \/ pc' = "down" /\ file' = FALSE /\ n = Len(unflushed)
      PROVE  FInv'
  <2>1. pc' = pc \/ pc' \notin InCall
    BY <1>3 DEF InCall
  <2>2. /\ DOMAIN disk' = DOMAIN disk \cup {0}
        /\ DOMAIN disk' \subseteq FileNumbers /\ disk' = [k \in DOMAIN disk' |-> disk'[k]]
        /\ \A k \in DOMAIN disk' : disk'[k] \in Seq(Messages)
        /\ unflushed' \in Seq(Messages) /\ Len(unflushed') = Len(unflushed) - n
        /\ Numbers'
    BY <1>2, <1>3, <2>1, WriteOutTypes
  <2>3. Types'
    BY <1>2, <1>3, <2>2 DEF FInv, Types
  <2>4. pc \in {"ready", "close", "append"}
    BY <1>3 DEF FInv, Places
  <2>5. n = Len(unflushed) => unflushed' = <<>>
    BY <1>1, <2>2, EmptySeq
  <2>6. Places'
    BY <1>2, <1>3, <2>2, <2>4, <2>5 DEF FInv, Places, InCall
  <2> QED BY <2>2, <2>3, <2>6 DEF FInv
<1>4. CASE spill
  <2>1. PICK n \in 1 .. Len(unflushed) - 1 : WriteOut(n)
    BY <1>4 DEF spill
  <2>2. n \in 0 .. Len(unflushed)
    BY <1>1
  <2> QED BY <1>3, <1>4, <2>1, <2>2 DEF spill
<1>5. CASE flush \/ destroy
  <2>1. pc = "ready" /\ file
    BY <1>5 DEF FInv, Places, flush, destroy
  <2>2. WriteOut(Len(unflushed))
    BY <1>5, <2>1, Zenon DEF flush, destroy
  <2>3. Len(unflushed) \in 0 .. Len(unflushed)
    BY <1>1
  <2>4. (pc' = pc /\ file' = file) \/ (pc' = "down" /\ file' = FALSE)
    BY <1>5 DEF flush, destroy
  <2> QED BY <1>3, <2>1, <2>2, <2>3, <2>4
<1> QED BY <1>4, <1>5

LEMMA FStep ==
  ASSUME FInv, Reliable, [Next]_vars
  PROVE  FInv'
<1>1. Messages' = Messages
  BY ConfigFixed
<1>2. CASE UNCHANGED vars
  BY <1>2 DEF vars, sink, FInv, Types, Places, Numbers, Messages, roll_mode
<1>3. CASE Next
  BY <1>1, <1>3, CreateStep, WriteStep, CloseStep, RemoveStep, ShiftStep, OpenStep, AppendStep,
     KillStep, WriteOutStep DEF Next, Rotate
<1> QED BY <1>2, <1>3

THEOREM Invariance ==
  ASSUME Reliable
  PROVE  Spec => []FInv
<1>1. FInv /\ [Next]_vars => FInv'
  BY FStep
<1> QED BY <1>1, FInit, PTL DEF Spec

-----------------------------------------------------------------------------
(* Each file: its layout, its size, its day                                *)

\* Every file is afterwards the beginning of one there was before, or the file
\* written to with one message more.
LEMMA Origins ==
  ASSUME FInv, Reliable, [Next]_vars, NEW n \in FileNumbers
  PROVE  \/ n = 0 /\ Grows /\ Held(0)' = Append(Held(0), Placed)
         \/ \E m \in FileNumbers :
              /\ Len(Held(n)') \in 0 .. Len(Held(m))
              /\ \A k \in 1 .. Len(Held(n)') : Held(n)'[k] = Held(m)[k]
<1> DEFINE Begins(f, g) == Len(f) \in 0 .. Len(g) /\ \A k \in 1 .. Len(f) : f[k] = g[k]
<1>1. \A m : Begins(<<>>, Held(m)) /\ Begins(Held(m), Held(m))
  <2>1. \A m : Len(Held(m)) \in Nat
    BY HeldIsSeq DEF FInv
  <2> QED BY <2>1, EmptySeq
<1>2. Begins(Content(disk, n), Held(n))
  <2>1. CASE n = 0
    <3>1. /\ Content(disk, 0) \in Seq(Messages) /\ unflushed \in Seq(Messages)
          /\ Len(Content(disk, 0)) \in Nat /\ Len(unflushed) \in Nat
      BY HeldIsSeq, LenProperties DEF FInv, Types
    <3>2. Held(n) = Content(disk, 0) \o unflushed
      BY <2>1 DEF Held, Current
    <3>3. /\ Len(Held(n)) = Len(Content(disk, 0)) + Len(unflushed)
          /\ \A i \in 1 .. Len(Content(disk, 0)) + Len(unflushed) :
               Held(n)[i] = IF i <= Len(Content(disk, 0)) THEN Content(disk, 0)[i]
                                           ELSE unflushed[i - Len(Content(disk, 0))]
      BY <3>1, <3>2, ConcatProperties
    <3> QED BY <2>1, <3>1, <3>3
  <2>2. CASE n # 0
    BY <2>2, <1>1 DEF Held
  <2> QED BY <2>1, <2>2
<1>3. SUFFICES \/ n = 0 /\ Grows /\ Held(0)' = Append(Held(0), Placed)
               \/ \E m \in FileNumbers : Begins(Held(n)', Held(m))
  OBVIOUS
<1> HIDE DEF Begins
<1>4. Change
  BY StepChange
<1>5. CASE Same
  BY <1>1, <1>5 DEF Same
<1>6. ASSUME NEW d, Empties(d) PROVE \E m \in FileNumbers : Begins(Held(n)', Held(m))
  BY <1>1, <1>6 DEF Empties
<1>7. ASSUME NEW a \in FileNumbers, Moves(a)
      PROVE  \E m \in FileNumbers : Begins(Held(n)', Held(m))
  BY <1>1, <1>7 DEF Moves
<1>8. CASE Grows
  <2>1. CASE n = 0
    BY <1>8, <2>1 DEF Grows
  <2>2. CASE n # 0
    BY <1>1, <1>8, <2>2 DEF Grows
  <2> QED BY <2>1, <2>2
<1>9. CASE Loses
  BY <1>2, <1>9 DEF Loses
<1> QED BY <1>4, <1>5, <1>6, <1>7, <1>8, <1>9 DEF Change

\* What the file written to holds after a write.
LEMMA Grown ==
  ASSUME FInv, Grows
  PROVE  /\ Len(Held(0)) \in Nat /\ Len(Append(Held(0), Placed)) = Len(Held(0)) + 1
         /\ \A k \in 1 .. Len(Held(0)) : Append(Held(0), Placed)[k] = Held(0)[k]
         /\ Append(Held(0), Placed)[Len(Held(0)) + 1] = Placed
         /\ Placed.end = Size(Held(0)) + msg.len /\ Placed.len = msg.len
         /\ Placed.time = msg.time /\ Placed.id = msg.id
<1>1. Held(0) \in Seq(Messages) /\ Len(Held(0)) \in Nat
  BY HeldIsSeq DEF FInv
<1>2. Placed \in Messages /\ Held(0) = Current
  BY DEF Grows, Held
<1>3. /\ Placed.id = msg.id /\ Placed.time = msg.time /\ Placed.len = msg.len
      /\ Placed.end = Size(Held(0)) + msg.len
  BY <1>2, PlacedIsMessage DEF Grows, FInv
<1> QED BY <1>1, <1>2, <1>3, AppendProperties

Layout == \A n \in FileNumbers : Contiguous(Held(n))

LEMMA LayoutStep ==
  ASSUME FInv, Reliable, [Next]_vars, Layout
  PROVE  Layout'
<1> SUFFICES ASSUME NEW n \in FileNumbers PROVE Contiguous(Held(n))'
  BY DEF Layout, FileNumbers, LastArchive
<1>1. ASSUME NEW m \in FileNumbers, Len(Held(n)') \in 0 .. Len(Held(m)),
             \A k \in 1 .. Len(Held(n)') : Held(n)'[k] = Held(m)[k]
      PROVE  Contiguous(Held(n))'
  <2>1. Contiguous(Held(m)) /\ Len(Held(m)) \in Nat
    BY HeldIsSeq DEF Layout, FInv
  <2> QED BY <1>1, <2>1, SMTT(20) DEF Contiguous, Begin
<1>2. CASE n = 0 /\ Grows /\ Held(0)' = Append(Held(0), Placed)
  <2>1. Contiguous(Held(0))
    BY <1>2 DEF Layout
  <2> DEFINE f == Append(Held(0), Placed)
  <2>2. /\ Len(Held(0)) \in Nat /\ Len(f) = Len(Held(0)) + 1
        /\ \A k \in 1 .. Len(Held(0)) : f[k] = Held(0)[k]
        /\ f[Len(Held(0)) + 1] = Placed /\ Placed.end = Size(Held(0)) + Placed.len
    BY <1>2, Grown
  <2>3. Size(Held(0)) = Begin(f, Len(Held(0)) + 1)
    <3>1. CASE Held(0) = <<>>
      BY <3>1, <2>2, EmptySeq DEF Size, Begin
    <3>2. CASE Held(0) # <<>>
      <4>1. Len(Held(0)) # 0
        BY <3>2, <2>2, HeldIsSeq, EmptySeq DEF FInv
      <4>2. Len(Held(0)) \in 1 .. Len(Held(0)) /\ Len(Held(0)) + 1 - 1 = Len(Held(0))
        BY <4>1, <2>2
      <4> QED BY <3>2, <4>1, <4>2, <2>2 DEF Size, Begin
    <3> QED BY <3>1, <3>2
  <2>4. Contiguous(f)
    <3> SUFFICES ASSUME NEW k \in 1 .. Len(f) PROVE f[k].end = Begin(f, k) + f[k].len
      BY DEF Contiguous
    <3>1. CASE k = Len(Held(0)) + 1
      BY <3>1, <2>2, <2>3
    <3>2. CASE k \in 1 .. Len(Held(0))
      <4>1. Held(0)[k].end = Begin(Held(0), k) + Held(0)[k].len
        BY <2>1, <3>2 DEF Contiguous
      <4>2. Begin(f, k) = Begin(Held(0), k)
        BY <2>2, <3>2 DEF Begin
      <4> QED BY <4>1, <4>2, <2>2, <3>2
    <3> QED BY <2>2, <3>1, <3>2
  <2> QED BY <1>2, <2>4
<1> QED BY <1>1, <1>2, Origins

LEMMA LayoutInit ==
  Init => Layout
<1> SUFFICES ASSUME Init PROVE Layout  OBVIOUS
<1>1. \A n : Content(disk, n) = <<>>
  <2>1. DOMAIN disk = {}
    BY EmptySeq, LenProperties DEF Init
  <2> QED BY <2>1 DEF Content
<1>2. <<>> \o <<>> = <<>> /\ Len(<<>>) = 0
  BY EmptySeq, ConcatEmptySeq
<1>3. \A n : Held(n) = <<>>
  BY <1>1, <1>2 DEF Held, Current, Init
<1> QED BY <1>2, <1>3 DEF Layout, Contiguous

\* Type correctness: every file number is one the rotation knows, and the
\* messages of every file lie end to end, however it was written out, renamed
\* or cut short (log.c 246-305, fs.c).
THEOREM TypeCorrect ==
  ASSUME Reliable
  PROVE  Spec => []TypeOK
<1>1. FInv /\ Layout /\ [Next]_vars => Layout'
  BY LayoutStep
<1>2. FInv /\ Layout => TypeOK
  BY DEF FInv, Types, Layout, TypeOK, InCall
<1> QED BY <1>1, <1>2, LayoutInit, Invariance, PTL DEF Spec

\* The counter current_size is the size of the open file, and a message is
\* written only below the limit.
Limited == roll_mode = "size" /\ MaxBytes > 0
Sizes ==
  Limited => /\ SizeLimitHolds
             /\ file => current_size = Size(Current)
             /\ pc = "append" => current_size < MaxBytes

LEMMA SizesInit ==
  Init => Sizes
<1> SUFFICES ASSUME Init PROVE Sizes  OBVIOUS
<1>1. \A n : Held(n) = <<>>
  <2>1. DOMAIN disk = {}
    BY EmptySeq, LenProperties DEF Init
  <2>2. \A n : Content(disk, n) = <<>>
    BY <2>1 DEF Content
  <2>3. <<>> \o <<>> = <<>>
    BY EmptySeq, ConcatEmptySeq
  <2> QED BY <2>2, <2>3 DEF Held, Current, Init
<1> QED BY <1>1, EmptySeq DEF Sizes, SizeLimitHolds, Init

\* The file that is created or reopened, and the counter with it.
LEMMA SizeKnown ==
  ASSUME FInv, Reliable, Next, file', file => current_size = Size(Current)
  PROVE  current_size' = Size(Current)' \/ (Grows /\ file /\ append)
<1>1. CASE \E now \in Times[roll_mode] : create(now)
  <2>1. unflushed' = <<>>
    BY <1>1 DEF FInv, Places, create
  <2>2. PICK f \in Seq(Messages) : disk' = Put(disk, 0, f) /\ current_size' = Size(f)
    <3>1. Content(disk, 0) \in Seq(Messages) /\ <<>> \in Seq(Messages)
      BY HeldIsSeq, EmptySeq DEF FInv
    <3> QED BY <1>1, <3>1 DEF create
  <2>3. Content(disk', 0) = f /\ f \o <<>> = f
    BY <2>2, PutContent, ConcatEmptySeq
  <2> QED BY <2>1, <2>2, <2>3 DEF Current
<1>2. CASE rotate_open
  <2>1. unflushed' = <<>> /\ disk' = Put(disk, 0, <<>>) /\ current_size' = 0
    BY <1>2 DEF FInv, Places, InCall, rotate_open, Reliable
  <2>2. Content(disk', 0) = <<>> /\ <<>> \o <<>> = <<>>
    BY <2>1, PutContent, EmptySeq, ConcatEmptySeq
  <2> QED BY <2>1, <2>2 DEF Current, Size
<1>3. CASE append
  BY <1>3, AppendGrows
<1>4. CASE spill \/ flush
  <2>1. Same /\ file /\ current_size' = current_size
    BY <1>4, FlushSame
  <2>2. Held(0)' = Held(0)
    BY <2>1, Numbering DEF Same
  <2> QED BY <2>1, <2>2 DEF Held
<1>5. CASE \E time \in Times[roll_mode], len \in Lens[roll_mode] : write(time, len)
  <2>1. UNCHANGED <<disk, unflushed, file, current_size>>
    BY <1>5 DEF write, sink
  <2> QED BY <2>1 DEF Current, Content
<1>6. CASE rotate_close \/ destroy \/ kill
  BY <1>6 DEF rotate_close, destroy, kill
<1>7. CASE rotate_remove \/ rotate_shift \/ rotate_retire
  <2>1. file' = file /\ ~file
    BY <1>7 DEF FInv, Places, InCall, rotate_remove, rotate_shift, rotate_retire, sink
  <2> QED BY <2>1
<1> QED BY <1>1, <1>2, <1>3, <1>4, <1>5, <1>6, <1>7 DEF Next, Rotate

LEMMA SizesStep ==
  ASSUME FInv, Reliable, [Next]_vars, Sizes
  PROVE  Sizes'
<1>1. CASE UNCHANGED vars
  BY <1>1 DEF vars, sink, Sizes, Limited, SizeLimitHolds, Held, Current, Content, roll_mode
<1> SUFFICES ASSUME Next, Limited PROVE Sizes'
  BY <1>1, ConfigFixed DEF Sizes, Limited
<1>2. /\ SizeLimitHolds /\ (file => current_size = Size(Current))
      /\ (pc = "append" => current_size < MaxBytes) /\ roll_mode = "size" /\ roll_mode' = "size"
  BY ConfigFixed DEF Sizes, Limited
<1>3. SizeLimitHolds'
  <2> SUFFICES ASSUME NEW n \in FileNumbers, NEW k \in 1 .. Len(Held(n)')
               PROVE  Begin(Held(n)', k) < MaxBytes
    BY DEF SizeLimitHolds, FileNumbers, LastArchive
  <2>1. \A m \in FileNumbers : \A j \in 1 .. Len(Held(m)) : Begin(Held(m), j) < MaxBytes
    BY <1>2 DEF SizeLimitHolds, Limited
  <2>2. ASSUME NEW m \in FileNumbers, Len(Held(n)') \in 0 .. Len(Held(m)),
               \A j \in 1 .. Len(Held(n)') : Held(n)'[j] = Held(m)[j]
        PROVE  Begin(Held(n)', k) < MaxBytes
    <3>1. Len(Held(m)) \in Nat
      BY HeldIsSeq DEF FInv
    <3>2. k \in 1 .. Len(Held(m)) /\ Begin(Held(n)', k) = Begin(Held(m), k)
      BY <2>2, <3>1 DEF Begin
    <3> QED BY <2>1, <3>2
  <2>3. CASE n = 0 /\ Grows /\ Held(0)' = Append(Held(0), Placed)
    <3>1. /\ Len(Held(0)) \in Nat /\ Len(Held(0)') = Len(Held(0)) + 1
          /\ \A j \in 1 .. Len(Held(0)) : Held(0)'[j] = Held(0)[j]
      BY <2>3, Grown
    <3>2. CASE k \in 1 .. Len(Held(0))
      <4>1. Begin(Held(n)', k) = Begin(Held(0), k)
        BY <2>3, <3>1, <3>2 DEF Begin
      <4> QED BY <2>1, <2>3, <3>2, <4>1
    <3>3. CASE k = Len(Held(0)) + 1
      <4>1. current_size = Size(Held(0)) /\ current_size < MaxBytes
        BY <1>2, <2>3 DEF FInv, Places, Grows, Held
      <4>2. CASE k = 1
        BY <4>2 DEF Limited, Begin
      <4>3. CASE k # 1
        <5>1. Len(Held(0)) \in 1 .. Len(Held(0)) /\ k - 1 = Len(Held(0)) /\ Held(0) # <<>>
          BY <3>1, <3>3, <4>3, EmptySeq
        <5>2. Begin(Held(n)', k) = Held(0)[Len(Held(0))].end
          BY <2>3, <3>1, <4>3, <5>1 DEF Begin
        <5> QED BY <4>1, <5>1, <5>2 DEF Size
      <4> QED BY <4>2, <4>3
    <3> QED BY <2>3, <3>1, <3>2, <3>3
  <2> QED BY <2>2, <2>3, Origins
<1>4. ASSUME file' PROVE current_size' = Size(Current)'
  <2>1. CASE Grows /\ file /\ append
    <3>1. current_size' = current_size + msg.len
      BY <2>1, Zenon DEF append
    <3>2. 0 \in FileNumbers
      BY Numbering
    <3>3. Current' = Append(Held(0), Placed)
      BY <2>1, <3>2 DEF Grows, Held
    <3>4. Current' # <<>> /\ Current'[Len(Current')] = Placed /\ Placed.end = Size(Held(0)) + msg.len
      <4>1. Held(0) \in Seq(Messages) /\ Placed \in Messages
        BY <2>1, HeldIsSeq DEF FInv, Grows
      <4> QED BY <2>1, <3>3, <4>1, Grown, AppendProperties
    <3>5. Size(Current)' = Placed.end
      BY <3>4 DEF Size
    <3> QED BY <1>2, <2>1, <3>1, <3>4, <3>5 DEF Held
  <2> QED BY <1>2, <1>4, <2>1, SizeKnown
<1>5. ASSUME pc' = "append" PROVE current_size' < MaxBytes
  <2>1. CASE rotate_open
    BY <2>1 DEF rotate_open, Limited
  <2>2. CASE \E time \in Times[roll_mode], len \in Lens[roll_mode] : write(time, len)
    <3>1. PICK m : ~RotationDue(m) /\ current_size' = current_size
      BY <1>5, <2>2 DEF write, sink
    <3>2. current_size \in Nat /\ MaxBytes \in Nat
      BY LogFileAssumption DEF FInv, Types
    <3> QED BY <1>2, <3>1, <3>2 DEF RotationDue, Limited
  <2>3. CASE spill
    BY <1>2, <1>5, <2>3 DEF spill
  <2> QED BY <1>5, <2>1, <2>2, <2>3 DEF Next, Rotate, create, rotate_close, rotate_remove,
             rotate_shift, rotate_retire, append, flush, destroy, kill
<1> QED BY <1>3, <1>4, <1>5 DEF Sizes

\* A file outgrows max_bytes by its last message only, across restarts too
\* (log.c 246-273; cpr_file_size at 295-305).
THEOREM FilesStayInSize ==
  ASSUME Reliable
  PROVE  Spec => []SizeLimitHolds
<1>1. FInv /\ Sizes /\ [Next]_vars => Sizes'
  BY SizesStep
<1>2. Sizes => SizeLimitHolds
  BY DEF Sizes, Limited, SizeLimitHolds
<1> QED BY <1>1, <1>2, SizesInit, Invariance, PTL DEF Spec

\* While the file is open its messages are of the day noted, and only a message
\* of that day is about to join them.
Daily == config = [open_mode |-> "overwrite", roll_mode |-> "calendar"]
Periods ==
  Daily =>
    /\ \A n \in FileNumbers : \A i, j \in 1 .. Len(Held(n)) :
         Period(Held(n)[i].time) = Period(Held(n)[j].time)
    /\ file => \A k \in 1 .. Len(Held(0)) : Period(Held(0)[k].time) = current_period
    /\ pc = "append" => Period(msg.time) = current_period

LEMMA PeriodsInit ==
  Init => Periods
<1> SUFFICES ASSUME Init PROVE Periods  OBVIOUS
<1>1. \A n : Held(n) = <<>>
  <2>1. DOMAIN disk = {}
    BY EmptySeq, LenProperties DEF Init
  <2>2. \A n : Content(disk, n) = <<>>
    BY <2>1 DEF Content
  <2>3. <<>> \o <<>> = <<>>
    BY EmptySeq, ConcatEmptySeq
  <2> QED BY <2>2, <2>3 DEF Held, Current, Init
<1> QED BY <1>1, EmptySeq DEF Periods, Init

\* An open file that does not grow was there before, or is empty.
LEMMA OpenFile ==
  ASSUME FInv, Reliable, Daily, Next, file'
  PROVE  \/ file /\ current_period' = current_period /\ Held(0)' = Held(0)
         \/ file /\ current_period' = current_period /\ Grows
         \/ Held(0)' = <<>>
<1>0. <<>> \o <<>> = <<>> /\ 0 \in FileNumbers
  BY EmptySeq, ConcatEmptySeq, Numbering
<1>1. CASE \E now \in Times[roll_mode] : create(now)
  <2>1. unflushed' = <<>> /\ disk' = Put(disk, 0, <<>>)
    BY <1>1 DEF FInv, Places, create, Daily
  <2> QED BY <1>0, <2>1, PutContent DEF Held, Current
<1>2. CASE rotate_open
  <2>1. unflushed' = <<>> /\ disk' = Put(disk, 0, <<>>)
    BY <1>2 DEF FInv, Places, InCall, rotate_open, Reliable
  <2> QED BY <1>0, <2>1, PutContent DEF Held, Current
<1>3. CASE append
  BY <1>3, AppendGrows DEF append
<1>4. CASE spill \/ flush
  BY <1>0, <1>4, FlushSame DEF Same
<1>5. CASE \E time \in Times[roll_mode], len \in Lens[roll_mode] : write(time, len)
  <2>1. UNCHANGED <<disk, unflushed, file, current_period>>
    BY <1>5 DEF write, sink
  <2> QED BY <2>1 DEF Held, Current, Content
<1>6. CASE rotate_close \/ destroy \/ kill
  BY <1>6 DEF rotate_close, destroy, kill
<1>7. CASE rotate_remove \/ rotate_shift \/ rotate_retire
  <2>1. file' = file /\ ~file
    BY <1>7 DEF FInv, Places, InCall, rotate_remove, rotate_shift, rotate_retire, sink
  <2> QED BY <2>1
<1> QED BY <1>1, <1>2, <1>3, <1>4, <1>5, <1>6, <1>7 DEF Next, Rotate

LEMMA PeriodsStep ==
  ASSUME FInv, Reliable, [Next]_vars, Periods
  PROVE  Periods'
<1>1. CASE UNCHANGED vars
  BY <1>1 DEF vars, sink, Periods, Daily, Held, Current, Content
<1> SUFFICES ASSUME Next, Daily PROVE Periods'
  BY <1>1, ConfigFixed DEF Periods, Daily
<1>2. /\ \A n \in FileNumbers : \A i, j \in 1 .. Len(Held(n)) :
           Period(Held(n)[i].time) = Period(Held(n)[j].time)
      /\ file => \A k \in 1 .. Len(Held(0)) : Period(Held(0)[k].time) = current_period
      /\ pc = "append" => Period(msg.time) = current_period
      /\ roll_mode = "calendar"
  BY DEF Periods, Daily, roll_mode
<1>3. Grows => /\ Len(Held(0)) \in Nat /\ Len(Append(Held(0), Placed)) = Len(Held(0)) + 1
               /\ \A k \in 1 .. Len(Held(0)) : Append(Held(0), Placed)[k] = Held(0)[k]
               /\ Append(Held(0), Placed)[Len(Held(0)) + 1].time = msg.time
               /\ file /\ Period(msg.time) = current_period
  BY <1>2, Grown DEF FInv, Places, Grows
<1>4. Grows => \A k \in 1 .. Len(Append(Held(0), Placed)) :
                 Period(Append(Held(0), Placed)[k].time) = current_period
  <2> SUFFICES ASSUME Grows, NEW k \in 1 .. Len(Append(Held(0), Placed))
               PROVE  Period(Append(Held(0), Placed)[k].time) = current_period
    OBVIOUS
  <2>1. k \in 1 .. Len(Held(0)) \/ k = Len(Held(0)) + 1
    BY <1>3
  <2>2. CASE k \in 1 .. Len(Held(0))
    BY <1>2, <1>3, <2>2
  <2>3. CASE k = Len(Held(0)) + 1
    BY <1>3, <2>3
  <2> QED BY <2>1, <2>2, <2>3
<1>5. ASSUME NEW n \in FileNumbers, NEW i \in 1 .. Len(Held(n)'), NEW j \in 1 .. Len(Held(n)')
      PROVE  Period(Held(n)'[i].time) = Period(Held(n)'[j].time)
  <2>1. CASE n = 0 /\ Grows /\ Held(0)' = Append(Held(0), Placed)
    BY <1>4, <1>5, <2>1
  <2>2. ASSUME NEW m \in FileNumbers, Len(Held(n)') \in 0 .. Len(Held(m)),
               \A k \in 1 .. Len(Held(n)') : Held(n)'[k] = Held(m)[k]
        PROVE  Period(Held(n)'[i].time) = Period(Held(n)'[j].time)
    <3>1. i \in 1 .. Len(Held(m)) /\ j \in 1 .. Len(Held(m))
      BY <1>5, <2>2, HeldIsSeq DEF FInv
    <3> QED BY <1>2, <1>5, <2>2, <3>1
  <2> QED BY <2>1, <2>2, Origins
<1>6. ASSUME file', NEW k \in 1 .. Len(Held(0)')
      PROVE  Period(Held(0)'[k].time) = current_period'
  <2>1. CASE file /\ current_period' = current_period /\ Held(0)' = Held(0)
    BY <1>2, <1>6, <2>1
  <2>2. CASE file /\ current_period' = current_period /\ Grows
    <3>1. Held(0)' = Append(Held(0), Placed)
      BY <2>2, Numbering DEF Grows
    <3> QED BY <1>4, <1>6, <2>2, <3>1
  <2>3. CASE Held(0)' = <<>>
    BY <1>6, <2>3, EmptySeq
  <2> QED BY <1>6, <2>1, <2>2, <2>3, OpenFile
<1>7. ASSUME pc' = "append" PROVE Period(msg'.time) = current_period'
  <2>1. CASE rotate_open
    BY <1>2, <2>1 DEF rotate_open
  <2>2. CASE \E time \in Times[roll_mode], len \in Lens[roll_mode] : write(time, len)
    <3>1. ~RotationDue(msg') /\ current_period' = current_period
      BY <1>7, <2>2 DEF write, sink
    <3> QED BY <1>2, <3>1 DEF RotationDue
  <2>3. CASE spill
    BY <1>2, <1>7, <2>3 DEF spill
  <2> QED BY <1>7, <2>1, <2>2, <2>3 DEF Next, Rotate, create, rotate_close, rotate_remove,
             rotate_shift, rotate_retire, append, flush, destroy, kill
<1> QED BY <1>5, <1>6, <1>7, ConfigFixed DEF Periods, FileNumbers, LastArchive

\* A file never mixes two days or hours, in whatever order the messages' times
\* arrive, if no two of them that occur are a whole year (a whole day) apart
\* (log.c 275-293).
THEOREM DaysStayApart ==
  ASSUME Reliable,
         \A a, b \in Times["calendar"] : Period(a) = Period(b) => a = b
  PROVE  Spec => []OnePeriodPerFile
<1>1. FInv /\ Periods /\ [Next]_vars => Periods'
  BY PeriodsStep
<1>2. FInv /\ Periods => OnePeriodPerFile
  <2> SUFFICES ASSUME FInv, Periods, Daily,
                      NEW n \in FileNumbers, NEW i \in 1 .. Len(Held(n)), NEW j \in 1 .. Len(Held(n))
               PROVE  Held(n)[i].time = Held(n)[j].time
    BY DEF OnePeriodPerFile, Daily
  <2>1. Held(n)[i] \in Messages /\ Held(n)[j] \in Messages
    BY HeldIsSeq, ElementOfSeq DEF FInv
  <2>2. Held(n)[i].time \in Times["calendar"] /\ Held(n)[j].time \in Times["calendar"]
    BY <2>1 DEF Messages, roll_mode, Daily
  <2>3. Period(Held(n)[i].time) = Period(Held(n)[j].time)
    BY DEF Periods
  <2> QED BY <2>2, <2>3
<1> QED BY <1>1, <1>2, PeriodsInit, Invariance, PTL DEF Spec

-----------------------------------------------------------------------------
(* What the log keeps                                                      *)

\* The order of the messages, in a form that steps preserve.
Order ==
  \A n \in FileNumbers : \A k \in 1 .. Len(Held(n)) :
    /\ \A i \in 1 .. Len(Held(n)) : i < k => Held(n)[i].id < Held(n)[k].id
    /\ \A older \in FileNumbers : n < older =>
         \A j \in 1 .. Len(Held(older)) : Held(older)[j].id < Held(n)[k].id
AllAccepted == \A n \in FileNumbers : \A k \in 1 .. Len(Held(n)) : Accepted(Held(n)[k])
NoGap ==
  \A i, j \in 1 .. Len(accepted) : i < j /\ Retained(accepted[i]) => Retained(accepted[j])
Recent == Order /\ AllAccepted /\ (config.open_mode = "append" => NoGap)

\* What is in the file, and then in the buffer, is what file 0 holds.
LEMMA HeldParts ==
  ASSUME FInv
  PROVE  /\ Len(Content(disk, 0)) \in Nat /\ Len(unflushed) \in Nat
         /\ Len(Held(0)) = Len(Content(disk, 0)) + Len(unflushed)
         /\ \A k \in 1 .. Len(Content(disk, 0)) : Held(0)[k] = Content(disk, 0)[k]
         /\ \A k \in 1 .. Len(unflushed) : Held(0)[Len(Content(disk, 0)) + k] = unflushed[k]
<1>1. /\ Content(disk, 0) \in Seq(Messages) /\ unflushed \in Seq(Messages)
      /\ Len(Content(disk, 0)) \in Nat /\ Len(unflushed) \in Nat
      /\ Held(0) = Content(disk, 0) \o unflushed
  BY HeldIsSeq, LenProperties DEF FInv, Types, Held, Current
<1>2. /\ Len(Held(0)) = Len(Content(disk, 0)) + Len(unflushed)
      /\ \A i \in 1 .. Len(Content(disk, 0)) + Len(unflushed) :
           Held(0)[i] = IF i <= Len(Content(disk, 0)) THEN Content(disk, 0)[i]
                                       ELSE unflushed[i - Len(Content(disk, 0))]
  BY <1>1, ConcatProperties
<1>3. ASSUME NEW k \in 1 .. Len(unflushed)
      PROVE  Held(0)[Len(Content(disk, 0)) + k] = unflushed[k]
  <2>1. /\ Len(Content(disk, 0)) + k \in 1 .. Len(Content(disk, 0)) + Len(unflushed)
        /\ ~(Len(Content(disk, 0)) + k <= Len(Content(disk, 0)))
        /\ Len(Content(disk, 0)) + k - Len(Content(disk, 0)) = k
    BY <1>1
  <2> QED BY <1>2, <2>1
<1> QED BY <1>1, <1>2, <1>3

\* Unless a message is written, every file comes from one there was before (src)
\* and no two that hold anything change places.
Placing(src) ==
  /\ \A n \in FileNumbers :
       /\ Len(Held(n)') \in 0 .. Len(Held(src[n]))
       /\ \A k \in 1 .. Len(Held(n)') : Held(n)'[k] = Held(src[n])[k]
  /\ \A n, older \in FileNumbers :
       n < older /\ Len(Held(n)') # 0 /\ Len(Held(older)') # 0 => src[n] < src[older]

LEMMA Sources ==
  ASSUME FInv, Reliable, [Next]_vars
  PROVE  Grows \/ \E src \in [FileNumbers -> FileNumbers] : Placing(src)
<1> DEFINE same == [n \in FileNumbers |-> n]
<1>0. /\ \A n : Len(Held(n)) \in Nat
      /\ Len(<<>>) = 0 /\ \A n \in FileNumbers : n \in Int
  BY HeldIsSeq, EmptySeq, Numbering DEF FInv
<1>1. Change
  BY StepChange
<1>2. CASE Same \/ \E d : Empties(d)
  <2>1. \A n \in FileNumbers : Held(n)' = Held(n) \/ Held(n)' = <<>>
    BY <1>2 DEF Same, Empties
  <2>2. Placing(same)
    BY <1>0, <2>1 DEF Placing
  <2>3. same \in [FileNumbers -> FileNumbers]
    OBVIOUS
  <2> HIDE DEF same
  <2> QED BY <2>2, <2>3
<1>3. CASE \E a \in FileNumbers : Moves(a)
  <2>1. PICK a \in FileNumbers : Moves(a)
    BY <1>3
  <2> DEFINE src == [n \in FileNumbers |-> IF n = a + 1 THEN a ELSE n]
  <2>2. src \in [FileNumbers -> FileNumbers]
    OBVIOUS
  <2>3. \A n \in FileNumbers : src[n] = IF n = a + 1 THEN a ELSE n
    OBVIOUS
  <2> HIDE DEF src
  <2>4. \A n \in FileNumbers : Held(n)' = IF n = a THEN <<>> ELSE Held(src[n])
    BY <1>0, <2>1, <2>3 DEF Moves
  <2>5. \A n \in FileNumbers : /\ Len(Held(n)') \in 0 .. Len(Held(src[n]))
                               /\ \A k \in 1 .. Len(Held(n)') : Held(n)'[k] = Held(src[n])[k]
    BY <1>0, <2>4
  <2>6. \A n, older \in FileNumbers : n < older /\ n # a /\ older # a => src[n] < src[older]
    BY <1>0, <2>3
  <2>7. Placing(src)
    BY <1>0, <2>4, <2>5, <2>6 DEF Placing
  <2> QED BY <2>2, <2>7
<1>4. CASE Loses
  <2>1. \A n \in FileNumbers : /\ Len(Content(disk, n)) \in 0 .. Len(Held(n))
                               /\ \A k \in 1 .. Len(Content(disk, n)) : Content(disk, n)[k] = Held(n)[k]
    <3> TAKE n \in FileNumbers
    <3>1. CASE n = 0
      BY <3>1, HeldParts
    <3>2. CASE n # 0
      BY <1>0, <3>2 DEF Held
    <3> QED BY <3>1, <3>2
  <2>2. Placing(same)
    BY <1>0, <1>4, <2>1 DEF Placing, Loses
  <2>3. same \in [FileNumbers -> FileNumbers]
    OBVIOUS
  <2> HIDE DEF same
  <2> QED BY <2>2, <2>3
<1> QED BY <1>1, <1>2, <1>3, <1>4 DEF Change

\* The message being written has a higher number than any accepted before.
LEMMA Newest ==
  ASSUME FInv, Grows
  PROVE  /\ Placed.id = sent
         /\ \A k \in 1 .. Len(accepted) : accepted[k].id < Placed.id /\ accepted[k] # Placed
<1>1. Placed.id = sent /\ sent \in Int
  <2>1. pc = "append" /\ Placed.id = msg.id
    BY Grown DEF Grows
  <2>2. msg.id = sent
    BY <2>1 DEF FInv, Places, InCall
  <2>3. sent \in Int
    BY LogFileAssumption DEF FInv, Types
  <2> QED BY <2>1, <2>2, <2>3
<1>2. ASSUME NEW k \in 1 .. Len(accepted) PROVE accepted[k].id < sent
  BY DEF Grows, FInv, Numbers, InCall
<1>3. ASSUME NEW k \in 1 .. Len(accepted) PROVE accepted[k] # Placed
  <2>1. accepted[k].id < sent
    BY <1>2
  <2> QED BY <1>1, <2>1
<1> QED BY <1>1, <1>2, <1>3

LEMMA GrownFiles ==
  ASSUME FInv, Grows
  PROVE  /\ Len(Held(0)') = Len(Held(0)) + 1
         /\ Held(0)'[Len(Held(0)) + 1] = Placed
         /\ \A k \in 1 .. Len(Held(0)) : Held(0)'[k] = Held(0)[k]
         /\ \A n \in FileNumbers : n # 0 => Held(n)' = Held(n)
BY Grown, Numbering DEF Grows

LEMMA OrderStep ==
  ASSUME FInv, Reliable, [Next]_vars, Order, AllAccepted
  PROVE  Order'
<1>0. \A n \in FileNumbers : n \in Int /\ Len(Held(n)) \in Nat
  BY HeldIsSeq, Numbering DEF FInv
<1>1. SUFFICES \A n \in FileNumbers : \A k \in 1 .. Len(Held(n)') :
                 /\ \A i \in 1 .. Len(Held(n)') : i < k => Held(n)'[i].id < Held(n)'[k].id
                 /\ \A older \in FileNumbers : n < older =>
                      \A j \in 1 .. Len(Held(older)') : Held(older)'[j].id < Held(n)'[k].id
  BY DEF Order, FileNumbers, LastArchive
<1>2. CASE Grows
  <2>1. /\ Len(Held(0)') = Len(Held(0)) + 1 /\ Len(Held(0)) \in Nat
        /\ Held(0)'[Len(Held(0)) + 1] = Placed
        /\ \A k \in 1 .. Len(Held(0)) : Held(0)'[k] = Held(0)[k]
        /\ \A n \in FileNumbers : n # 0 => Held(n)' = Held(n)
        /\ 0 \in FileNumbers
    BY <1>2, Grown, Numbering DEF Grows
  <2>2. \A n \in FileNumbers : \A k \in 1 .. Len(Held(n)) : Held(n)[k].id < Placed.id
    BY <1>2, Newest DEF AllAccepted, Accepted
  <2> TAKE n \in FileNumbers
  <2> TAKE k \in 1 .. Len(Held(n)')
  <2>3. ASSUME NEW older \in FileNumbers, n < older
        PROVE  /\ older # 0 /\ Held(older)' = Held(older)
               /\ \A j \in 1 .. Len(Held(older)) : Held(older)[j].id < Held(n)'[k].id
    <3>1. older # 0
      BY <2>3, Numbering
    <3>2. CASE n = 0 /\ k = Len(Held(0)) + 1
      BY <2>1, <2>2, <2>3, <3>1, <3>2
    <3>3. CASE ~(n = 0 /\ k = Len(Held(0)) + 1)
      <4>1. k \in 1 .. Len(Held(n)) /\ Held(n)'[k] = Held(n)[k]
        BY <2>1, <3>3
      <4> QED BY <2>1, <2>3, <3>1, <4>1 DEF Order
    <3> QED BY <3>2, <3>3
  <2>4. ASSUME NEW i \in 1 .. Len(Held(n)'), i < k
        PROVE  Held(n)'[i].id < Held(n)'[k].id
    <3>1. i \in 1 .. Len(Held(n)) /\ Held(n)'[i] = Held(n)[i]
      BY <2>1, <2>4
    <3>2. CASE n = 0 /\ k = Len(Held(0)) + 1
      BY <2>1, <2>2, <3>1, <3>2
    <3>3. CASE ~(n = 0 /\ k = Len(Held(0)) + 1)
      <4>1. k \in 1 .. Len(Held(n)) /\ Held(n)'[k] = Held(n)[k]
        BY <2>1, <3>3
      <4> QED BY <2>4, <3>1, <4>1 DEF Order
    <3> QED BY <3>2, <3>3
  <2> QED BY <2>3, <2>4
<1>3. ASSUME NEW src \in [FileNumbers -> FileNumbers], Placing(src)
      PROVE  \A n \in FileNumbers : \A k \in 1 .. Len(Held(n)') :
               /\ \A i \in 1 .. Len(Held(n)') : i < k => Held(n)'[i].id < Held(n)'[k].id
               /\ \A older \in FileNumbers : n < older =>
                    \A j \in 1 .. Len(Held(older)') : Held(older)'[j].id < Held(n)'[k].id
  <2> TAKE n \in FileNumbers
  <2> TAKE k \in 1 .. Len(Held(n)')
  <2>1. \A m \in FileNumbers : \A j \in 1 .. Len(Held(m)') :
          /\ src[m] \in FileNumbers /\ j \in 1 .. Len(Held(src[m]))
          /\ Held(m)'[j] = Held(src[m])[j] /\ Len(Held(m)') # 0
    <3> TAKE m \in FileNumbers
    <3> TAKE j \in 1 .. Len(Held(m)')
    <3>1. /\ src[m] \in FileNumbers /\ Len(Held(m)') \in 0 .. Len(Held(src[m]))
          /\ Held(m)'[j] = Held(src[m])[j]
      BY <1>3 DEF Placing
    <3>2. Len(Held(src[m])) \in Nat
      BY <1>0, <3>1
    <3> QED BY <3>1, <3>2
  <2>2. ASSUME NEW i \in 1 .. Len(Held(n)'), i < k
        PROVE  Held(n)'[i].id < Held(n)'[k].id
    BY <2>1, <2>2 DEF Order
  <2>3. ASSUME NEW older \in FileNumbers, n < older, NEW j \in 1 .. Len(Held(older)')
        PROVE  Held(older)'[j].id < Held(n)'[k].id
    <3>1. src[n] < src[older]
      BY <1>3, <2>1, <2>3 DEF Placing
    <3> QED BY <2>1, <3>1 DEF Order
  <2> QED BY <2>2, <2>3
<1> QED BY <1>2, <1>3, Sources

\* The messages a kill takes from the buffer are in no file.
LEMMA LostFromBuffer ==
  ASSUME FInv, Order, NEW n \in FileNumbers, NEW k \in 1 .. Len(Content(disk, n)),
         NEW j \in 1 .. Len(accepted), Content(disk, n)[k] = accepted[j]
  PROVE  j <= Len(accepted) - Len(unflushed)
<1>1. /\ Len(Content(disk, 0)) \in Nat /\ Len(unflushed) \in Nat
      /\ Len(accepted) \in Nat /\ Len(unflushed) <= Len(accepted)
      /\ \A m \in FileNumbers : m \in Int /\ m >= 0 /\ Len(Content(disk, m)) \in Nat
      /\ 0 \in FileNumbers
  BY HeldIsSeq, LenProperties, Numbering, SMTT(20) DEF FInv, Types, Numbers
<1> SUFFICES ASSUME j > Len(accepted) - Len(unflushed) PROVE FALSE
  BY <1>1
<1> DEFINE b == j - (Len(accepted) - Len(unflushed))
           p == Len(Content(disk, 0)) + b
<1>2. b \in 1 .. Len(unflushed) /\ Len(accepted) - Len(unflushed) + b = j
  BY <1>1
<1>3. unflushed[b] = accepted[j]
  BY <1>2 DEF FInv, Numbers
<1>4. /\ p \in 1 .. Len(Held(0)) /\ Held(0)[p] = accepted[j]
      /\ \A i \in 1 .. Len(Content(disk, 0)) : i < p
  <2> HIDE DEF b
  <2>1. Len(Held(0)) = Len(Content(disk, 0)) + Len(unflushed)
    BY HeldParts
  <2>2. Held(0)[p] = unflushed[b]
    BY <1>2, HeldParts
  <2>3. p \in 1 .. Len(Held(0)) /\ \A i \in 1 .. Len(Content(disk, 0)) : i < p
    BY <1>1, <1>2, <2>1
  <2> QED BY <1>3, <2>2, <2>3
<1> HIDE DEF p, b
<1>5. accepted[j].id \in Int
  <2>1. accepted[j] \in Messages /\ config \in Configs
    BY ElementOfSeq DEF FInv, Types
  <2> QED BY <2>1, Numbered
<1>6. CASE n = 0
  <2>1. k \in 1 .. Len(Held(0)) /\ Held(0)[k] = accepted[j] /\ k < p
    BY <1>1, <1>4, <1>6, HeldParts
  <2>2. Held(0)[k].id < Held(0)[p].id
    BY <1>1, <1>4, <2>1 DEF Order
  <2> QED BY <1>4, <1>5, <2>1, <2>2
<1>7. CASE n # 0
  <2>1. Held(n) = Content(disk, n) /\ 0 < n
    BY <1>1, <1>7 DEF Held
  <2> QED BY <1>1, <1>4, <1>5, <2>1 DEF Order
<1> QED BY <1>6, <1>7

LEMMA KeptAfterKill ==
  ASSUME FInv
  PROVE  /\ Len(SubSeq(accepted, 1, Len(accepted) - Len(unflushed))) = Len(accepted) - Len(unflushed)
         /\ Len(accepted) - Len(unflushed) \in 0 .. Len(accepted)
         /\ \A k \in 1 .. Len(accepted) - Len(unflushed) :
              SubSeq(accepted, 1, Len(accepted) - Len(unflushed))[k] = accepted[k]
<1>1. /\ accepted \in Seq(Messages) /\ Len(accepted) \in Nat /\ Len(unflushed) \in Nat
      /\ Len(unflushed) <= Len(accepted)
  BY LenProperties DEF FInv, Types, Numbers
<1>2. Len(accepted) - Len(unflushed) \in 0 .. Len(accepted)
  BY <1>1
<1> QED BY <1>1, <1>2, Prefix

LEMMA AcceptedStep ==
  ASSUME FInv, Reliable, [Next]_vars, Order, AllAccepted
  PROVE  AllAccepted'
<1>0. \A n : Len(Held(n)) \in Nat /\ Len(<<>>) = 0
  BY HeldIsSeq, EmptySeq DEF FInv
<1>1. SUFFICES \A n \in FileNumbers : \A k \in 1 .. Len(Held(n)') :
                 \E j \in 1 .. Len(accepted') : accepted'[j] = Held(n)'[k]
  BY DEF AllAccepted, Accepted, FileNumbers, LastArchive
<1>2. \A n \in FileNumbers : \A k \in 1 .. Len(Held(n)) :
        \E j \in 1 .. Len(accepted) : accepted[j] = Held(n)[k]
  BY DEF AllAccepted, Accepted
<1>3. CASE Grows
  <2>1. /\ Len(accepted') = Len(accepted) + 1 /\ Len(accepted) \in Nat
        /\ accepted'[Len(accepted) + 1] = Placed
        /\ \A j \in 1 .. Len(accepted) : accepted'[j] = accepted[j]
    BY <1>3, AppendProperties, LenProperties DEF Grows, FInv, Types
  <2>2. /\ Len(Held(0)') = Len(Held(0)) + 1
        /\ Held(0)'[Len(Held(0)) + 1] = Placed
        /\ \A k \in 1 .. Len(Held(0)) : Held(0)'[k] = Held(0)[k]
        /\ \A n \in FileNumbers : n # 0 => Held(n)' = Held(n)
    BY <1>3, GrownFiles
  <2> TAKE n \in FileNumbers
  <2> TAKE k \in 1 .. Len(Held(n)')
  <2>3. CASE n = 0 /\ k = Len(Held(0)) + 1
    BY <2>1, <2>2, <2>3
  <2>4. CASE ~(n = 0 /\ k = Len(Held(0)) + 1)
    <3>1. k \in 1 .. Len(Held(n)) /\ Held(n)'[k] = Held(n)[k]
      BY <1>0, <2>2, <2>4
    <3>2. PICK j \in 1 .. Len(accepted) : accepted[j] = Held(n)[k]
      BY <1>2, <3>1
    <3> QED BY <2>1, <3>1, <3>2
  <2> QED BY <2>3, <2>4
<1>4. CASE Loses
  <2> TAKE n \in FileNumbers
  <2> TAKE k \in 1 .. Len(Held(n)')
  <2>1. Held(n)' = Content(disk, n)
    BY <1>4 DEF Loses
  <2>2. k \in 1 .. Len(Held(n)) /\ Held(n)[k] = Content(disk, n)[k]
    BY <1>0, <2>1, HeldParts DEF Held
  <2>3. PICK j \in 1 .. Len(accepted) : accepted[j] = Held(n)[k]
    BY <1>2, <2>2
  <2>4. j <= Len(accepted) - Len(unflushed)
    BY <2>1, <2>2, <2>3, LostFromBuffer
  <2> QED BY <1>4, <2>1, <2>2, <2>3, <2>4, KeptAfterKill DEF Loses
<1>5. CASE Same \/ \E d : Empties(d)
  BY <1>0, <1>2, <1>5 DEF Same, Empties
<1>6. CASE \E a \in FileNumbers : Moves(a)
  BY <1>0, <1>2, <1>6 DEF Moves
<1> QED BY <1>3, <1>4, <1>5, <1>6, StepChange DEF Change

\* Files keep what they hold, under new numbers perhaps; or the oldest is lost.
Keeps ==
  /\ \A m \in FileNumbers : \E n \in FileNumbers : Held(n)' = Held(m)
  /\ \A n \in FileNumbers : \E m \in FileNumbers : Held(n)' = Held(m)
LosesOldest ==
  /\ \A m \in FileNumbers : m # LastArchive => \E n \in FileNumbers : Held(n)' = Held(m)
  /\ \A n \in FileNumbers :
       Held(n)' = <<>> \/ \E m \in FileNumbers : m # LastArchive /\ Held(n)' = Held(m)

LEMMA KeepOrLose ==
  ASSUME FInv, Reliable, [Next]_vars, config.open_mode = "append"
  PROVE  Grows \/ Loses \/ (accepted' = accepted /\ (Keeps \/ LosesOldest))
<1>1. CASE Same
  BY <1>1 DEF Same, Keeps
<1>2. CASE Empties(LastArchive)
  BY <1>2 DEF Empties, LosesOldest
<1>3. ASSUME NEW a \in FileNumbers, Moves(a) PROVE accepted' = accepted /\ (Keeps \/ LosesOldest)
  <2>0. /\ a \in Int /\ a + 1 \in FileNumbers /\ a + 1 # a /\ accepted' = accepted
        /\ \A n \in FileNumbers :
             Held(n)' = IF n = a THEN <<>> ELSE IF n = a + 1 THEN Held(a) ELSE Held(n)
    BY <1>3, Numbering DEF Moves
  <2>1. CASE Held(a + 1) = <<>>
    <3>1. \A m \in FileNumbers : \E n \in FileNumbers : Held(n)' = Held(m)
      <4> TAKE m \in FileNumbers
      <4>1. Held(IF m = a THEN a + 1 ELSE IF m = a + 1 THEN a ELSE m)' = Held(m)
        BY <2>0, <2>1
      <4> QED BY <2>0, <4>1
    <3>2. \A n \in FileNumbers : \E m \in FileNumbers : Held(n)' = Held(m)
      BY <2>0, <2>1
    <3> QED BY <2>0, <3>1, <3>2 DEF Keeps
  <2>2. CASE a + 1 = LastArchive
    BY <2>0, <2>2 DEF LosesOldest
  <2> QED BY <1>3, <2>1, <2>2 DEF Moves
<1> QED BY <1>1, <1>2, <1>3, StepChange DEF Change

LEMMA NoGapStep ==
  ASSUME FInv, Reliable, [Next]_vars, Order, AllAccepted, NoGap, config.open_mode = "append"
  PROVE  NoGap'
<1>0. /\ \A n : Len(Held(n)) \in Nat
      /\ Len(<<>>) = 0 /\ 0 \in FileNumbers /\ LastArchive \in FileNumbers
      /\ \A n \in FileNumbers : n # LastArchive => n < LastArchive
  BY HeldIsSeq, EmptySeq, Numbering DEF FInv
<1> DEFINE Kept(m) == \E n \in FileNumbers : \E k \in 1 .. Len(Held(n)') : Held(n)'[k] = m
<1>1. SUFFICES \A i, j \in 1 .. Len(accepted') :
                 i < j /\ Kept(accepted'[i]) => Kept(accepted'[j])
  BY DEF NoGap, Retained, FileNumbers, LastArchive
<1>2. CASE accepted' = accepted /\ Keeps
  <2>1. \A m : Kept(m) <=> Retained(m)
    BY <1>2 DEF Keeps, Retained
  <2> QED BY <1>2, <2>1 DEF NoGap
<1>3. CASE accepted' = accepted /\ LosesOldest
  <2> SUFFICES ASSUME NEW i \in 1 .. Len(accepted), NEW j \in 1 .. Len(accepted), i < j,
                      Kept(accepted[i])
               PROVE  Kept(accepted[j])
    BY <1>3
  <2>1. \E n \in FileNumbers : \E k \in 1 .. Len(Held(n)) :
          n # LastArchive /\ Held(n)[k] = accepted[i]
    BY <1>0, <1>3 DEF LosesOldest
  <2>2. Retained(accepted[i])
    BY <2>1 DEF Retained
  <2>3. PICK m \in FileNumbers : \E l \in 1 .. Len(Held(m)) : Held(m)[l] = accepted[j]
    BY <2>2 DEF NoGap, Retained
  <2>4. m # LastArchive
    <3> SUFFICES ASSUME m = LastArchive PROVE FALSE  OBVIOUS
    <3>1. accepted[j].id < accepted[i].id
      BY <1>0, <2>1, <2>3 DEF Order
    <3>2. accepted[i].id < accepted[j].id
      BY DEF FInv, Numbers
    <3>3. accepted[i].id \in Int /\ accepted[j].id \in Int
      <4>1. accepted[i] \in Messages /\ accepted[j] \in Messages /\ config \in Configs
        BY ElementOfSeq DEF FInv, Types
      <4> QED BY <4>1, Numbered
    <3> QED BY <3>1, <3>2, <3>3
  <2> QED BY <1>3, <2>3, <2>4 DEF LosesOldest
<1>4. CASE Grows
  <2>1. /\ Len(accepted') = Len(accepted) + 1 /\ Len(accepted) \in Nat
        /\ accepted'[Len(accepted) + 1] = Placed
        /\ \A j \in 1 .. Len(accepted) : accepted'[j] = accepted[j]
    BY <1>4, AppendProperties, LenProperties DEF Grows, FInv, Types
  <2>2. /\ Len(Held(0)') = Len(Held(0)) + 1
        /\ Held(0)'[Len(Held(0)) + 1] = Placed
        /\ \A k \in 1 .. Len(Held(0)) : Held(0)'[k] = Held(0)[k]
        /\ \A n \in FileNumbers : n # 0 => Held(n)' = Held(n)
    BY <1>4, GrownFiles
  <2>3. \A m : Retained(m) => Kept(m)
    BY <1>0, <2>2 DEF Retained
  <2>4. \A m : Kept(m) => m = Placed \/ Retained(m)
    <3> SUFFICES ASSUME NEW n \in FileNumbers, NEW k \in 1 .. Len(Held(n)')
                 PROVE  Held(n)'[k] = Placed \/ Retained(Held(n)'[k])
      OBVIOUS
    <3>1. CASE n = 0 /\ k = Len(Held(0)) + 1
      BY <2>2, <3>1
    <3>2. CASE ~(n = 0 /\ k = Len(Held(0)) + 1)
      <4>1. k \in 1 .. Len(Held(n)) /\ Held(n)'[k] = Held(n)[k]
        BY <1>0, <2>2, <3>2
      <4> QED BY <4>1 DEF Retained
    <3> QED BY <3>1, <3>2
  <2>5. Kept(Placed)
    BY <1>0, <2>2
  <2> HIDE DEF Kept
  <2> SUFFICES ASSUME NEW i \in 1 .. Len(accepted'), NEW j \in 1 .. Len(accepted'), i < j,
                      Kept(accepted'[i])
               PROVE  Kept(accepted'[j])
    OBVIOUS
  <2>6. i \in 1 .. Len(accepted) /\ accepted'[i] = accepted[i] /\ accepted[i] # Placed
    BY <1>4, <2>1, Newest
  <2>7. Retained(accepted[i])
    BY <2>4, <2>6
  <2>8. CASE j = Len(accepted) + 1
    BY <2>1, <2>5, <2>8
  <2>9. CASE j # Len(accepted) + 1
    <3>1. j \in 1 .. Len(accepted) /\ accepted'[j] = accepted[j]
      BY <2>1, <2>9
    <3> QED BY <2>3, <2>6, <2>7, <3>1 DEF NoGap
  <2> QED BY <2>8, <2>9
<1>5. CASE Loses
  <2>1. /\ \A n \in FileNumbers : Held(n)' = Content(disk, n)
        /\ Len(accepted') = Len(accepted) - Len(unflushed)
        /\ Len(accepted) - Len(unflushed) \in 0 .. Len(accepted) /\ Len(accepted) \in Nat
        /\ \A k \in 1 .. Len(accepted') : accepted'[k] = accepted[k]
    BY <1>5, KeptAfterKill, LenProperties DEF Loses, FInv, Types
  <2> SUFFICES ASSUME NEW i \in 1 .. Len(accepted'), NEW j \in 1 .. Len(accepted'), i < j,
                      Kept(accepted'[i])
               PROVE  Kept(accepted'[j])
    OBVIOUS
  <2>2. i \in 1 .. Len(accepted) /\ j \in 1 .. Len(accepted)
    BY <2>1
  <2>3. Retained(accepted[i])
    <3>1. PICK n \in FileNumbers : \E k \in 1 .. Len(Content(disk, n)) :
                                      Content(disk, n)[k] = accepted[i]
      BY <2>1
    <3>2. PICK k \in 1 .. Len(Content(disk, n)) : Content(disk, n)[k] = accepted[i]
      BY <3>1
    <3>3. k \in 1 .. Len(Held(n)) /\ Held(n)[k] = accepted[i]
      BY <1>0, <3>2, HeldParts DEF Held
    <3> QED BY <3>3 DEF Retained
  <2>6. PICK m \in FileNumbers : \E l \in 1 .. Len(Held(m)) : Held(m)[l] = accepted[j]
    BY <2>2, <2>3 DEF NoGap, Retained
  <2>4. PICK l \in 1 .. Len(Held(m)) : Held(m)[l] = accepted[j]
    BY <2>6
  <2>5. l \in 1 .. Len(Content(disk, m)) /\ Content(disk, m)[l] = accepted[j]
    <3>1. CASE m # 0
      BY <2>4, <3>1 DEF Held
    <3>2. CASE m = 0 /\ l <= Len(Content(disk, 0))
      BY <2>4, <3>2, HeldParts
    <3>3. ASSUME m = 0, l > Len(Content(disk, 0)) PROVE FALSE
      <4> DEFINE b == l - Len(Content(disk, 0))
                 q == Len(accepted) - Len(unflushed) + b
      <4>0. /\ Len(Content(disk, 0)) \in Nat /\ Len(unflushed) \in Nat
            /\ Len(Held(0)) = Len(Content(disk, 0)) + Len(unflushed)
        BY HeldParts
      <4>1. b \in 1 .. Len(unflushed) /\ Len(Content(disk, 0)) + b = l
        BY <4>0, <3>3
      <4>2. unflushed[b] = accepted[j]
        BY <2>4, <3>3, <4>1, HeldParts
      <4>3. unflushed[b] = accepted[q]
        BY <4>1 DEF FInv, Numbers
      <4>4. q \in 1 .. Len(accepted) /\ j < q
        <5>1. j \in Int /\ j <= Len(accepted) - Len(unflushed) /\ Len(accepted) \in Nat
              /\ Len(unflushed) <= Len(accepted)
          BY <2>1, <4>0
        <5> HIDE DEF b
        <5> QED BY <4>0, <4>1, <5>1, SMTT(20)
      <4> HIDE DEF q, b
      <4>5. accepted[j].id < accepted[q].id
        BY <2>2, <4>4 DEF FInv, Numbers
      <4>6. accepted[j].id \in Int
        <5>1. accepted[j] \in Messages /\ config \in Configs
          BY <2>2, ElementOfSeq DEF FInv, Types
        <5> QED BY <5>1, Numbered
      <4> QED BY <4>2, <4>3, <4>5, <4>6
    <3>4. l \in Int /\ Len(Content(disk, 0)) \in Int
      BY HeldParts
    <3> QED BY <3>1, <3>2, <3>3, <3>4
  <2> QED BY <2>1, <2>5
<1> QED BY <1>2, <1>3, <1>4, <1>5, KeepOrLose

LEMMA RecentInit ==
  Init => Recent
<1> SUFFICES ASSUME Init PROVE Recent  OBVIOUS
<1>1. \A n : Held(n) = <<>>
  <2>1. DOMAIN disk = {}
    BY EmptySeq, LenProperties DEF Init
  <2>2. \A n : Content(disk, n) = <<>>
    BY <2>1 DEF Content
  <2>3. <<>> \o <<>> = <<>>
    BY EmptySeq, ConcatEmptySeq
  <2> QED BY <2>2, <2>3 DEF Held, Current, Init
<1> QED BY <1>1, EmptySeq DEF Recent, Order, AllAccepted, NoGap, Init

\* The files of a sink that appends hold the most recent messages, in order and
\* without a gap, whatever the rotation's progress and wherever a kill cut it
\* short (log.c 246-273, 295-305).
THEOREM LogIsRecent ==
  ASSUME Reliable
  PROVE  Spec => []RetainedIsRecent
<1>1. FInv /\ Recent /\ [Next]_vars => Recent'
  BY OrderStep, AcceptedStep, NoGapStep, ConfigFixed DEF Recent
<1>2. FInv /\ Recent => RetainedIsRecent
  <2> SUFFICES ASSUME FInv, Recent, config.open_mode = "append" PROVE RetainedIsRecent
    BY DEF RetainedIsRecent
  <2>1. InOrder
    <3>1. \A n \in FileNumbers : n \in Int /\ Len(Held(n)) \in Nat
      BY HeldIsSeq, Numbering DEF FInv
    <3>2. ASSUME NEW n \in FileNumbers, NEW k \in 1 .. Len(Held(n)), k > 1
          PROVE  Held(n)[k - 1].id < Held(n)[k].id
      <4>1. k - 1 \in 1 .. Len(Held(n)) /\ k - 1 < k
        BY <3>1, <3>2
      <4> QED BY <4>1 DEF Recent, Order
    <3>3. ASSUME NEW n \in FileNumbers, NEW older \in n + 1 .. LastArchive
          PROVE  older \in FileNumbers /\ n < older
      BY <3>1, Numbering
    <3> QED BY <3>2, <3>3 DEF InOrder, Recent, Order
  <2> QED BY <2>1 DEF Recent, AllAccepted, NoGap, RetainedIsRecent
<1> QED BY <1>1, <1>2, RecentInit, Invariance, PTL DEF Spec

-----------------------------------------------------------------------------
(* What the log gives up                                                   *)

\* Until a kill, the files are numbered without a gap but for the one the rename
\* loop has just made.
Hole == IF pc = "shift" THEN shift + 1 ELSE IF pc = "open" THEN 0 ELSE -1
Closed ==
  kills = 0 => \A n \in DOMAIN disk : \A k \in 0 .. n : k \in DOMAIN disk \/ k = Hole

LEMMA ClosedStep ==
  ASSUME FInv, Reliable, [Next]_vars, Closed
  PROVE  Closed'
<1>0. /\ DOMAIN disk \subseteq FileNumbers /\ top \in Nat /\ FileNumbers = 0 .. top + 1
      /\ shift \in 0 .. top /\ \A n \in FileNumbers : n \in Nat
      /\ \A n \in DOMAIN disk : \A k \in 0 .. n : k \in FileNumbers
  BY Numbering DEF FInv, Types
<1>1. CASE UNCHANGED vars
  BY <1>1 DEF vars, Closed, Hole
<1> SUFFICES ASSUME Next, kills' = 0 PROVE Closed'
  BY <1>1 DEF Closed
<1>2. kills = 0
  <2>1. kills \in Nat /\ (kill => kills' = kills + 1)
    BY LogFileAssumption DEF FInv, Types, kill
  <2> QED BY <2>1 DEF Next, Rotate, create, write, rotate_close, rotate_remove, rotate_shift,
             rotate_retire, rotate_open, append, spill, flush, destroy
<1>3. \A n \in DOMAIN disk : \A k \in 0 .. n : k \in DOMAIN disk \/ k = Hole
  BY <1>2 DEF Closed
<1>4. ASSUME Hole = -1 \/ Hole = 0, DOMAIN disk' = DOMAIN disk \cup {0}
      PROVE  Closed'
  BY <1>0, <1>3, <1>4 DEF Closed
<1>5. ASSUME Hole = -1, DOMAIN disk' = DOMAIN disk PROVE Closed'
  BY <1>0, <1>3, <1>5 DEF Closed
<1>6. CASE \E now \in Times[roll_mode] : create(now)
  <2>1. Hole = -1 /\ DOMAIN disk' = DOMAIN disk \cup {0}
    BY <1>6 DEF create, Hole, Put
  <2> QED BY <1>4, <2>1
<1>7. CASE rotate_open
  <2>1. Hole = 0 /\ DOMAIN disk' = DOMAIN disk \cup {0}
    BY <1>7 DEF rotate_open, Hole, Reliable, Put
  <2> QED BY <1>4, <2>1
<1>8. CASE \/ append \/ kill
           \/ \E time \in Times[roll_mode], len \in Lens[roll_mode] : write(time, len)
  <2>1. Hole = -1 \/ kill
    BY <1>8 DEF append, write, Hole
  <2>2. disk' = disk /\ (kill => kills' = kills + 1)
    BY <1>8 DEF append, write, kill
  <2> QED BY <1>2, <1>5, <2>1, <2>2
<1>9. CASE rotate_close \/ spill \/ flush \/ destroy
  <2>1. Hole = -1
    <3>1. pc \in {"ready", "close", "append"}
      BY <1>9 DEF FInv, Places, rotate_close, spill, flush, destroy
    <3> QED BY <3>1 DEF Hole
  <2>2. DOMAIN disk' = DOMAIN disk \cup {0} \/ DOMAIN disk' = DOMAIN disk
    BY <1>9 DEF rotate_close, spill, flush, destroy, WriteOut, Put
  <2> QED BY <1>4, <1>5, <2>1, <2>2
<1>10. CASE rotate_remove
  <2>1. Hole = -1 /\ pc' = "shift" /\ shift' = top
    BY <1>10 DEF rotate_remove, Hole
  <2>2. DOMAIN disk' = DOMAIN disk \/ DOMAIN disk' = DOMAIN disk \ {top + 1}
    BY <1>10, Numbering DEF rotate_remove, Unlink
  <2> QED BY <1>0, <1>3, <2>1, <2>2 DEF Closed, Hole
<1>11. CASE rotate_shift \/ rotate_retire
  <2>1. /\ disk' = Rename(disk, shift, shift + 1) /\ shift # shift + 1 /\ Hole = shift + 1
        /\ shift + 1 \in FileNumbers
    BY <1>0, <1>11 DEF rotate_shift, rotate_retire, TryRename, Reliable, Hole
  <2>2. Hole' = shift
    <3>1. CASE rotate_shift
      BY <1>0, <3>1 DEF rotate_shift, Hole
    <3>2. CASE rotate_retire
      BY <3>2 DEF rotate_retire, Hole
    <3> QED BY <1>11, <3>1, <3>2
  <2>3. DOMAIN disk' = IF shift \in DOMAIN disk THEN (DOMAIN disk \cup {shift + 1}) \ {shift}
                                                ELSE DOMAIN disk
    BY <2>1, RenameDisk DEF FInv
  <2>4. CASE shift \in DOMAIN disk
    BY <1>0, <1>3, <2>1, <2>2, <2>3, <2>4 DEF Closed
  <2>5. CASE shift \notin DOMAIN disk
    <3>1. \A n \in DOMAIN disk : n < shift \/ n = shift + 1 \/ n > shift + 1
      BY <1>0, <2>5
    <3> QED BY <1>0, <1>3, <2>1, <2>2, <2>3, <2>5, <3>1 DEF Closed
  <2> QED BY <2>4, <2>5
<1> QED BY <1>6, <1>7, <1>8, <1>9, <1>10, <1>11 DEF Next, Rotate

LEMMA ClosedInit ==
  Init => Closed
<1> SUFFICES ASSUME Init PROVE Closed  OBVIOUS
<1>1. DOMAIN disk = {}
  BY EmptySeq, LenProperties DEF Init
<1> QED BY <1>1 DEF Closed

\* An archive is given up only when all max_files of them exist, until a kill
\* has left a gap among them (log.c 253-267).
THEOREM GivesUpOnlyWhenFull ==
  ASSUME Reliable
  PROVE  Spec => EvictsOnlyWhenFull
<1>1. FInv /\ Closed /\ [Next]_vars => Closed'
  BY ClosedStep
<1>2. FInv /\ Closed /\ [Next]_vars =>
        [(kills = 0 /\ rotate_remove /\ disk' # disk)
            => \A n \in 0 .. MaxFiles : n \in DOMAIN disk]_vars
  <2> SUFFICES ASSUME FInv, Closed, kills = 0, rotate_remove, disk' # disk,
                      NEW n \in 0 .. MaxFiles
               PROVE  n \in DOMAIN disk
    OBVIOUS
  <2>1. disk' = Unlink(disk, MaxFiles)
    BY DEF rotate_remove
  <2>2. MaxFiles \in DOMAIN disk
    <3> SUFFICES ASSUME MaxFiles \notin DOMAIN disk PROVE FALSE  OBVIOUS
    <3>1. DOMAIN disk \ {MaxFiles} = DOMAIN disk /\ disk = [k \in DOMAIN disk |-> disk[k]]
      BY DEF FInv, Types
    <3> QED BY <2>1, <3>1 DEF Unlink
  <2>3. Hole = -1
    BY DEF Hole, rotate_remove
  <2> QED BY <2>2, <2>3, LogFileAssumption DEF Closed
<1> QED BY <1>1, <1>2, ClosedInit, Invariance, PTL DEF Spec, EvictsOnlyWhenFull
=============================================================================
