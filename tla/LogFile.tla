------------------------------- MODULE LogFile -------------------------------
(***************************************************************************)
(* The file sink of src/log.c with its rotation, over the file operations  *)
(* of src/fs.c it uses.  Its caller holds the logger's mutex, so its own   *)
(* steps never interleave; but every file operation is a step, so that the *)
(* process can be killed between any two of them and started again.        *)
(*                                                                         *)
(* A file is a sequence of whole messages, each with the position in the   *)
(* file at which it ends.  What fwrite has taken and not yet given to the  *)
(* system is `unflushed'; the C library may pass it on at any time and a   *)
(* killed process loses it.                                                *)
(***************************************************************************)
EXTENDS Integers, Sequences

CONSTANTS
  Configs,      \* the configurations [open_mode, roll_mode] a sink is created
                \* with; "calendar" is DAILY and HOURLY: dt.yday, dt.hour
  MaxBytes, MaxFiles,
  ShiftTop,     \* the archives shifted when MaxFiles is 0 (999 in the code)
  Times,        \* per roll mode, the times that occur, in days or in hours
  Cycle,        \* after how many of them yday or hour comes round again
  Lens,         \* per roll mode, the lengths of a formatted message
  Faults,       \* operations of the system that may fail: "rename", "open"
  MaxMessages,  \* bound on messages written
  MaxKills      \* bound on kills of the process

OpenModes == {"append", "overwrite"}
RollModes == {"none", "size", "calendar"}

ASSUME LogFileAssumption ==
  /\ Configs \subseteq [open_mode : OpenModes, roll_mode : RollModes]
  /\ MaxBytes \in Nat /\ MaxFiles \in Nat /\ ShiftTop \in Nat
  /\ Times \in [RollModes -> SUBSET Nat] /\ Cycle \in Nat \ {0}
  /\ Lens \in [RollModes -> SUBSET (Nat \ {0})]
  /\ Faults \subseteq {"rename", "open"}
  /\ MaxMessages \in Nat /\ MaxKills \in Nat

VARIABLES
  config,          \* the configuration of every start of the process
  disk,            \* file number -> its messages; 0 is path, i is path.i
  file,            \* is fs->file non-NULL?
  unflushed,       \* messages in the FILE's buffer
  current_size, current_period,
  pc, msg, shift,  \* the call in progress, its message, the rename loop's i
  accepted,        \* every message whose write has returned and that no kill
                   \* took from the buffer
  sent, kills      \* counters of the two bounds

sink == <<file, unflushed, current_size, current_period>>
vars == <<config, disk, sink, pc, msg, shift, accepted, sent, kills>>

roll_mode == config.roll_mode
Messages ==
  [id : 1 .. MaxMessages, time : Times[roll_mode], len : Lens[roll_mode], end : Nat]
NoMessage == [id |-> 0]

top == IF MaxFiles > 0 THEN MaxFiles - 1 ELSE ShiftTop
LastArchive == IF MaxFiles > 0 THEN MaxFiles ELSE ShiftTop + 1
FileNumbers == 0 .. LastArchive

Size(f) == IF f = <<>> THEN 0 ELSE f[Len(f)].end

Bug_Period(time) == (time % Cycle) + 1  \* mutant: days counted from 1
Period(time) == time % Cycle

\* Disks: partial functions from file numbers.
Content(d, n) == IF n \in DOMAIN d THEN d[n] ELSE <<>>
Put(d, n, f) == [k \in DOMAIN d \cup {n} |-> IF k = n THEN f ELSE d[k]]
Unlink(d, n) == [k \in DOMAIN d \ {n} |-> d[k]]
Rename(d, a, b) == IF a \in DOMAIN d THEN Unlink(Put(d, b, d[a]), a) ELSE d

Init ==
  /\ config \in Configs
  /\ disk = <<>> /\ file = FALSE /\ unflushed = <<>>
  /\ current_size = 0 /\ current_period = 0
  /\ pc = "down" /\ msg = NoMessage /\ shift = 0
  /\ accepted = <<>> /\ sent = 0 /\ kills = 0

-----------------------------------------------------------------------------
\* cpr_log_file_sink, at time now.
Bug_create(now) ==  \* mutant: the size of a file appended to is not read
  LET kept == IF config.open_mode = "append" THEN Content(disk, 0) ELSE <<>>
  IN  /\ pc = "down"
      /\ disk' = Put(disk, 0, kept)
      /\ file' = TRUE
      /\ current_size' = 0
      /\ current_period' = Period(now)
      /\ pc' = "ready"
      /\ UNCHANGED <<config, unflushed, msg, shift, accepted, sent, kills>>

\* Mutant: every start empties the file.
Bug_create_mode(now) ==
  /\ pc = "down"
  /\ disk' = Put(disk, 0, <<>>)
  /\ file' = TRUE
  /\ current_size' = 0
  /\ current_period' = Period(now)
  /\ pc' = "ready"
  /\ UNCHANGED <<config, unflushed, msg, shift, accepted, sent, kills>>

create(now) ==
  LET kept == IF config.open_mode = "append" THEN Content(disk, 0) ELSE <<>>
  IN  /\ pc = "down"
      /\ disk' = Put(disk, 0, kept)
      /\ file' = TRUE
      /\ current_size' = Size(kept)
      /\ current_period' = Period(now)
      /\ pc' = "ready"
      /\ UNCHANGED <<config, unflushed, msg, shift, accepted, sent, kills>>

RotationDue(m) ==
  \/ roll_mode = "size" /\ MaxBytes > 0 /\ current_size >= MaxBytes
  \/ roll_mode = "calendar" /\ Period(m.time) # current_period

\* cpr__file_write, up to cpr__file_maybe_rotate's decision.
write(time, len) ==
  /\ pc = "ready" /\ sent < MaxMessages
  /\ sent' = sent + 1
  /\ msg' = [id |-> sent', time |-> time, len |-> len, end |-> 0]
  /\ pc' = IF RotationDue(msg') THEN "close" ELSE "append"
  /\ UNCHANGED <<config, disk, sink, shift, accepted, kills>>

\* cpr_close_file writes the buffer out.
rotate_close ==
  /\ pc = "close"
  /\ disk' = IF file THEN Put(disk, 0, Content(disk, 0) \o unflushed) ELSE disk
  /\ file' = FALSE /\ unflushed' = <<>>
  /\ pc' = "remove"
  /\ UNCHANGED <<config, current_size, current_period, msg, shift, accepted, sent, kills>>

Bug_rotate_remove ==  \* mutant: the archive before the oldest is removed
  /\ pc = "remove"
  /\ disk' = IF MaxFiles > 0 THEN Unlink(disk, MaxFiles - 1) ELSE disk
  /\ pc' = "shift" /\ shift' = top
  /\ UNCHANGED <<config, sink, msg, accepted, sent, kills>>

rotate_remove ==
  /\ pc = "remove"
  /\ disk' = IF MaxFiles > 0 THEN Unlink(disk, MaxFiles) ELSE disk
  /\ pc' = "shift" /\ shift' = top
  /\ UNCHANGED <<config, sink, msg, accepted, sent, kills>>

\* rename, whose result the code ignores.
TryRename(a, b) ==
  \/ disk' = Rename(disk, a, b)
  \/ "rename" \in Faults /\ UNCHANGED disk

rotate_shift ==
  /\ pc = "shift" /\ shift >= 1
  /\ TryRename(shift, shift + 1)
  /\ shift' = shift - 1
  /\ UNCHANGED <<config, sink, pc, msg, accepted, sent, kills>>

rotate_retire ==
  /\ pc = "shift" /\ shift = 0
  /\ TryRename(0, 1)
  /\ pc' = "open"
  /\ UNCHANGED <<config, sink, msg, shift, accepted, sent, kills>>

Bug_rotate_open ==  \* mutant: the new file's day or hour is not noted
  /\ pc = "open"
  /\ disk' = Put(disk, 0, <<>>) /\ file' = TRUE
  /\ current_size' = 0
  /\ pc' = "append"
  /\ UNCHANGED <<config, unflushed, current_period, msg, shift, accepted, sent, kills>>

\* CPR_FILE_WRITE ("wb") empties the file if it is there.
rotate_open ==
  /\ pc = "open"
  /\ \/ disk' = Put(disk, 0, <<>>) /\ file' = TRUE
     \/ "open" \in Faults /\ UNCHANGED <<disk, file>>
  /\ current_size' = 0
  /\ current_period' = IF roll_mode = "calendar" THEN Period(msg.time) ELSE current_period
  /\ pc' = "append"
  /\ UNCHANGED <<config, unflushed, msg, shift, accepted, sent, kills>>

\* What the open file holds once its buffer is written out.
Current == Content(disk, 0) \o unflushed

\* The rest of cpr__file_write.  A sink without a file drops the message.  The
\* result of cpr_write_file is dropped too: current_size advances whatever was
\* written.  A write that fails or falls short, as on a full disk, is not among
\* the Faults, so files hold whole messages.
Placed == [msg EXCEPT !.end = Size(Current) + msg.len]
append ==
  /\ pc = "append"
  /\ IF file
     THEN /\ unflushed' = Append(unflushed, Placed)
          /\ current_size' = current_size + msg.len
     ELSE UNCHANGED <<unflushed, current_size>>
  /\ accepted' = Append(accepted, Placed)
  /\ msg' = NoMessage
  /\ pc' = "ready"
  /\ UNCHANGED <<config, disk, file, current_period, shift, sent, kills>>

\* The buffer's first n messages reach the file.
WriteOut(n) ==
  /\ disk' = Put(disk, 0, Content(disk, 0) \o SubSeq(unflushed, 1, n))
  /\ unflushed' = SubSeq(unflushed, n + 1, Len(unflushed))

\* The C library empties part of its buffer when it is full.
spill ==
  /\ file
  /\ \E n \in 1 .. Len(unflushed) - 1 : WriteOut(n)
  /\ UNCHANGED <<config, file, current_size, current_period, pc, msg, shift, accepted, sent, kills>>

flush ==
  /\ pc = "ready" /\ file
  /\ WriteOut(Len(unflushed))
  /\ UNCHANGED <<config, file, current_size, current_period, pc, msg, shift, accepted, sent, kills>>

destroy ==
  /\ pc = "ready"
  /\ IF file THEN WriteOut(Len(unflushed)) ELSE UNCHANGED <<disk, unflushed>>
  /\ file' = FALSE
  /\ pc' = "down"
  /\ UNCHANGED <<config, current_size, current_period, msg, shift, accepted, sent, kills>>

\* The process is killed: its memory, with the FILE's buffer, is gone.
kill ==
  /\ pc # "down" /\ kills < MaxKills
  /\ kills' = kills + 1
  /\ accepted' = SubSeq(accepted, 1, Len(accepted) - Len(unflushed))
  /\ file' = FALSE /\ unflushed' = <<>>
  /\ msg' = NoMessage /\ pc' = "down"
  /\ UNCHANGED <<config, disk, current_size, current_period, shift, sent>>

-----------------------------------------------------------------------------
Rotate == rotate_close \/ rotate_remove \/ rotate_shift \/ rotate_retire \/ rotate_open

Next ==
  \/ \E now \in Times[roll_mode] : create(now)
  \/ \E time \in Times[roll_mode], len \in Lens[roll_mode] : write(time, len)
  \/ Rotate
  \/ append
  \/ spill
  \/ flush
  \/ destroy
  \/ kill

Spec == Init /\ [][Next]_vars

-----------------------------------------------------------------------------
(* Properties *)

\* The messages of file n, oldest first; those in the buffer belong to file 0.
Held(n) == IF n = 0 THEN Current ELSE Content(disk, n)

\* Every message of a file begins where the one before it ends.
Begin(f, k) == IF k = 1 THEN 0 ELSE f[k - 1].end
Contiguous(f) == \A k \in 1 .. Len(f) : f[k].end = Begin(f, k) + f[k].len

TypeOK ==
  /\ config \in Configs
  /\ DOMAIN disk \subseteq FileNumbers
  /\ \A n \in DOMAIN disk : disk[n] \in Seq(Messages)
  /\ file \in BOOLEAN /\ unflushed \in Seq(Messages)
  /\ \A n \in FileNumbers : Contiguous(Held(n))
  /\ current_size \in Nat /\ current_period \in 0 .. Cycle - 1
  /\ pc \in {"down", "ready", "close", "remove", "shift", "open", "append"}
  /\ msg \in Messages \cup {NoMessage} /\ shift \in 0 .. top
  /\ accepted \in Seq(Messages)
  /\ sent \in 0 .. MaxMessages /\ kills \in 0 .. MaxKills

\* Messages are numbered as they are written; a higher file number is older.
InOrder ==
  \A n \in FileNumbers : \A k \in 1 .. Len(Held(n)) :
    /\ k > 1 => Held(n)[k - 1].id < Held(n)[k].id
    /\ \A older \in n + 1 .. LastArchive : \A j \in 1 .. Len(Held(older)) :
         Held(older)[j].id < Held(n)[k].id
Retained(m) == \E n \in FileNumbers : \E k \in 1 .. Len(Held(n)) : Held(n)[k] = m
Accepted(m) == \E j \in 1 .. Len(accepted) : accepted[j] = m

\* The files of a sink that appends always hold the most recent messages, in
\* order and without a gap, whatever the rotation's progress and wherever a kill
\* cut it short: only the oldest messages are ever given up (log.c 246-273,
\* 295-305).  A message the disk had no room for (303) is not considered.
RetainedIsRecent ==
  config.open_mode = "append" =>
    /\ InOrder
    /\ \A n \in FileNumbers : \A k \in 1 .. Len(Held(n)) : Accepted(Held(n)[k])
    /\ \A i, j \in 1 .. Len(accepted) :
         i < j /\ Retained(accepted[i]) => Retained(accepted[j])

\* An archive is given up only when all max_files of them exist, unless a kill
\* has left a gap among them.
EvictsOnlyWhenFull ==
  [][(kills = 0 /\ rotate_remove /\ disk' # disk)
       => \A n \in 0 .. MaxFiles : n \in DOMAIN disk]_vars

\* A file outgrows max_bytes by its last message only, across restarts too.
SizeLimitHolds ==
  roll_mode = "size" /\ MaxBytes > 0 =>
  \A n \in FileNumbers : \A k \in 1 .. Len(Held(n)) : Begin(Held(n), k) < MaxBytes

\* A file of a daily or hourly log never mixes two days or hours, in whatever
\* order the messages' times arrive, while the times in the log span less than
\* the Cycle after which yday or hour repeats and every start begins a new file.
OnePeriodPerFile ==
  config = [open_mode |-> "overwrite", roll_mode |-> "calendar"] =>
  \A n \in FileNumbers : \A i, j \in 1 .. Len(Held(n)) : Held(n)[i].time = Held(n)[j].time
=============================================================================
