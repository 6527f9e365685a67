-------------------------------- MODULE Logger --------------------------------
(***************************************************************************)
(* src/log.c: a thread-safe logger, its array of sinks and the threads     *)
(* that log through it, flush it and change its level.  A call reads the   *)
(* level and formats its message before it takes the mutex, and writes to  *)
(* every sink while it holds it; a console sink writes a message in three  *)
(* stdio calls, a callback sink hands it over in one.  Sinks are added and *)
(* removed between the threads' calls only, as log.h requires ("Not        *)
(* thread-safe"); callbacks do not call the logger.                        *)
(***************************************************************************)
EXTENDS Integers, Sequences, FiniteSets, SequencesExt

CONSTANTS
  Threads,
  Sinks,
  Callbacks,      \* the sinks that are callback sinks; the others are consoles
  SinkLevel,      \* sink -> its min_level
  MaxSinks,       \* CPR_LOG_MAX_SINKS
  Calls,          \* bound: log and flush calls per thread
  Reconfigurations, \* bound: add_sink and remove_sink calls
  NULL

\* Levels are numbers; OFF is above every message's level.
Levels == 0 .. 2
WARN   == 2
OFF    == 3

ASSUME LoggerAssumption ==
  /\ SinkLevel \in [Sinks -> Levels] /\ Callbacks \subseteq Sinks
  /\ MaxSinks \in Nat \ {0}
  /\ Calls \in Nat /\ Reconfigurations \in Nat
  /\ NULL \notin Threads \cup Sinks

VARIABLES
  min_level, sinks, sink_count, mutex,  \* struct CprLogger
  pc, msg, i,    \* per thread: its place, its message, the sink loop's index
  stream,        \* sink -> the pieces written to its stdio stream or handed
                 \* to its callback
  flushed,       \* sink -> how many of them have been flushed
  calls,         \* thread -> log and flush calls made
  done,          \* the log calls that have returned: message and the sinks
                 \* attached when it was called
  changes        \* add_sink and remove_sink calls made

logger == <<min_level, sinks, sink_count>>
streams == <<stream, flushed>>
thread == <<pc, msg, i>>
vars == <<logger, mutex, thread, streams, calls, done, changes>>

Parts == <<"color", "text", "reset">>

Attached == SubSeq(sinks, 1, sink_count)

AllIdle == \A t \in Threads : pc[t] = "idle"

Init ==
  /\ min_level = 0
  /\ sinks = [k \in 1 .. MaxSinks |-> NULL] /\ sink_count = 0
  /\ mutex = NULL
  /\ pc = [t \in Threads |-> "idle"] /\ msg = [t \in Threads |-> NULL]
  /\ i = [t \in Threads |-> 0]
  /\ stream = [s \in Sinks |-> <<>>] /\ flushed = [s \in Sinks |-> 0]
  /\ calls = [t \in Threads |-> 0] /\ done = {} /\ changes = 0

Goto(t, place) == pc' = [pc EXCEPT ![t] = place]

-----------------------------------------------------------------------------
(* Configuration. *)

Bug_add_sink(s) ==  \* mutant: the limit is let pass by one
  /\ AllIdle /\ changes < Reconfigurations
  /\ changes' = changes + 1
  /\ IF sink_count > MaxSinks
     THEN UNCHANGED <<sinks, sink_count>>
     ELSE /\ sinks' = [sinks EXCEPT ![sink_count + 1] = s]
          /\ sink_count' = sink_count + 1
  /\ UNCHANGED <<min_level, mutex, thread, streams, calls, done>>

add_sink(s) ==
  /\ AllIdle /\ changes < Reconfigurations
  /\ changes' = changes + 1
  /\ IF sink_count >= MaxSinks
     THEN UNCHANGED <<sinks, sink_count>>
     ELSE /\ sinks' = [sinks EXCEPT ![sink_count + 1] = s]
          /\ sink_count' = sink_count + 1
  /\ UNCHANGED <<min_level, mutex, thread, streams, calls, done>>

Bug_remove_sink(s) ==  \* mutant: the sink goes but the ones behind it stay put
  /\ AllIdle /\ changes < Reconfigurations
  /\ changes' = changes + 1
  /\ \/ s \notin Range(Attached) /\ UNCHANGED <<sinks, sink_count>>
     \/ \E first \in 1 .. sink_count :
          /\ sinks[first] = s /\ \A j \in 1 .. first - 1 : sinks[j] # s
          /\ sinks' = [sinks EXCEPT ![first] = NULL]
          /\ sink_count' = sink_count - 1
  /\ UNCHANGED <<min_level, mutex, thread, streams, calls, done>>

\* The first occurrence goes, the sinks behind it move up one place.
remove_sink(s) ==
  /\ AllIdle /\ changes < Reconfigurations
  /\ changes' = changes + 1
  /\ \/ s \notin Range(Attached) /\ UNCHANGED <<sinks, sink_count>>
     \/ \E first \in 1 .. sink_count :
          /\ sinks[first] = s /\ \A j \in 1 .. first - 1 : sinks[j] # s
          /\ sinks' = [k \in 1 .. MaxSinks |->
                         IF k = sink_count THEN NULL
                         ELSE IF k >= first /\ k < sink_count THEN sinks[k + 1]
                         ELSE sinks[k]]
          /\ sink_count' = sink_count - 1
  /\ UNCHANGED <<min_level, mutex, thread, streams, calls, done>>

\* A plain store, at any time and by any thread.
set_level(level) ==
  /\ min_level' = level
  /\ UNCHANGED <<sinks, sink_count, mutex, thread, streams, calls, done, changes>>

-----------------------------------------------------------------------------
(* cpr_log_writev *)

\* The level check and, for a message that passes it, the formatting.  Levels
\* are those of messages; a call with CPR_LOG_OFF returns at once.
log(t, level) ==
  /\ pc[t] = "idle" /\ calls[t] < Calls
  /\ calls' = [calls EXCEPT ![t] = @ + 1]
  /\ IF level < min_level
     THEN UNCHANGED <<thread, done>>
     ELSE /\ msg' = [msg EXCEPT ![t] = [by |-> t, n |-> calls'[t], level |-> level]]
          /\ i' = [i EXCEPT ![t] = 1]
          /\ Goto(t, "lock")
          /\ UNCHANGED done
  /\ UNCHANGED <<logger, mutex, streams, changes>>

Bug_lock(t, from, to) ==  \* mutant: the mutex keeps nobody out
  /\ pc[t] = from
  /\ mutex' = t
  /\ Goto(t, to)
  /\ UNCHANGED <<logger, msg, i, streams, calls, done, changes>>

lock(t, from, to) ==
  /\ pc[t] = from /\ mutex = NULL
  /\ mutex' = t
  /\ Goto(t, to)
  /\ UNCHANGED <<logger, msg, i, streams, calls, done, changes>>

Bug_next_sink(t) ==  \* mutant: a sink's own level is excluded
  /\ pc[t] = "sinks"
  /\ IF i[t] > sink_count
     THEN Goto(t, "unlock") /\ UNCHANGED i
     ELSE IF sinks[i[t]] = NULL \/ msg[t].level <= SinkLevel[sinks[i[t]]]
     THEN i' = [i EXCEPT ![t] = @ + 1] /\ UNCHANGED pc
     ELSE Goto(t, IF sinks[i[t]] \in Callbacks THEN "callback" ELSE "color") /\ UNCHANGED i
  /\ UNCHANGED <<logger, mutex, msg, streams, calls, done, changes>>

\* The head of the sink loop: skip a sink, start writing to it, or leave.  The
\* formatter's text is never empty.
next_sink(t) ==
  /\ pc[t] = "sinks"
  /\ IF i[t] > sink_count
     THEN Goto(t, "unlock") /\ UNCHANGED i
     ELSE IF sinks[i[t]] = NULL \/ msg[t].level < SinkLevel[sinks[i[t]]]
     THEN i' = [i EXCEPT ![t] = @ + 1] /\ UNCHANGED pc
     ELSE Goto(t, IF sinks[i[t]] \in Callbacks THEN "callback" ELSE "color") /\ UNCHANGED i
  /\ UNCHANGED <<logger, mutex, msg, streams, calls, done, changes>>

\* cpr__console_write, one stdio call at a time.
Emit(t, part) ==
  stream' = [stream EXCEPT ![sinks[i[t]]] = Append(@, [part |-> part, msg |-> msg[t]])]

write_part(t, part, next) ==
  /\ pc[t] = part
  /\ Emit(t, part)
  /\ Goto(t, next)
  /\ UNCHANGED <<logger, mutex, msg, i, flushed, calls, done, changes>>

\* cpr__callback_write; nothing of it is buffered.
callback(t) ==
  /\ pc[t] = "callback"
  /\ Emit(t, "text")
  /\ flushed' = [flushed EXCEPT ![sinks[i[t]]] = Len(stream'[sinks[i[t]]])]
  /\ i' = [i EXCEPT ![t] = @ + 1]
  /\ Goto(t, "sinks")
  /\ UNCHANGED <<logger, mutex, msg, calls, done, changes>>

Bug_end_write(t) ==  \* mutant: only what is above WARN is flushed
  /\ pc[t] = "urgent"
  /\ LET s == sinks[i[t]] IN
       flushed' = IF msg[t].level > WARN
                  THEN [flushed EXCEPT ![s] = Len(stream[s])] ELSE flushed
  /\ i' = [i EXCEPT ![t] = @ + 1]
  /\ Goto(t, "sinks")
  /\ UNCHANGED <<logger, mutex, msg, stream, calls, done, changes>>

\* Mutant: the mutex is given up between one sink and the next.
Bug_lock_per_sink(t) ==
  /\ pc[t] = "urgent"
  /\ mutex' = NULL
  /\ i' = [i EXCEPT ![t] = @ + 1]
  /\ Goto(t, "lock")
  /\ UNCHANGED <<logger, msg, streams, calls, done, changes>>

\* A message of level WARN and above is flushed at once.
end_write(t) ==
  /\ pc[t] = "urgent"
  /\ LET s == sinks[i[t]] IN
       flushed' = IF msg[t].level >= WARN
                  THEN [flushed EXCEPT ![s] = Len(stream[s])] ELSE flushed
  /\ i' = [i EXCEPT ![t] = @ + 1]
  /\ Goto(t, "sinks")
  /\ UNCHANGED <<logger, mutex, msg, stream, calls, done, changes>>

unlock(t) ==
  /\ pc[t] = "unlock"
  /\ mutex' = NULL
  /\ done' = done \cup {[msg |-> msg[t], to |-> Attached]}
  /\ msg' = [msg EXCEPT ![t] = NULL]
  /\ i' = [i EXCEPT ![t] = 0]
  /\ Goto(t, "idle")
  /\ UNCHANGED <<logger, streams, calls, changes>>

-----------------------------------------------------------------------------
(* cpr_log_flush *)

flush(t) ==
  /\ pc[t] = "idle" /\ calls[t] < Calls
  /\ calls' = [calls EXCEPT ![t] = @ + 1]
  /\ i' = [i EXCEPT ![t] = 1]
  /\ Goto(t, "flush_lock")
  /\ UNCHANGED <<logger, mutex, msg, streams, done, changes>>

\* A callback sink has no flush.
flush_sink(t) ==
  /\ pc[t] = "flush_sinks" /\ i[t] <= sink_count
  /\ flushed' = IF sinks[i[t]] \in Callbacks THEN flushed
                ELSE [flushed EXCEPT ![sinks[i[t]]] = Len(stream[sinks[i[t]]])]
  /\ i' = [i EXCEPT ![t] = @ + 1]
  /\ UNCHANGED <<logger, mutex, pc, msg, stream, calls, done, changes>>

Bug_flush_unlock(t) ==  \* mutant: the mutex stays locked
  /\ pc[t] = "flush_sinks" /\ i[t] > sink_count
  /\ i' = [i EXCEPT ![t] = 0]
  /\ Goto(t, "idle")
  /\ UNCHANGED <<logger, mutex, msg, streams, calls, done, changes>>

flush_unlock(t) ==
  /\ pc[t] = "flush_sinks" /\ i[t] > sink_count
  /\ mutex' = NULL
  /\ i' = [i EXCEPT ![t] = 0]
  /\ Goto(t, "idle")
  /\ UNCHANGED <<logger, msg, streams, calls, done, changes>>

-----------------------------------------------------------------------------
\* The steps of a thread inside a call.
InCall(t) ==
  \/ lock(t, "lock", "sinks")
  \/ next_sink(t)
  \/ write_part(t, "color", "text")
  \/ write_part(t, "text", "reset")
  \/ write_part(t, "reset", "urgent")
  \/ end_write(t)
  \/ callback(t)
  \/ unlock(t)
  \/ lock(t, "flush_lock", "flush_sinks")
  \/ flush_sink(t)
  \/ flush_unlock(t)

Next ==
  \/ \E s \in Sinks : add_sink(s) \/ remove_sink(s)
  \/ \E level \in Levels \cup {OFF} : set_level(level)
  \/ \E t \in Threads : flush(t) \/ InCall(t) \/ \E level \in Levels : log(t, level)

Spec == Init /\ [][Next]_vars

\* A thread inside a call keeps running once it can.
FairSpec == Spec /\ \A t \in Threads : WF_vars(InCall(t))

-----------------------------------------------------------------------------
(* Properties *)

\* The array holds its sinks in front and nothing behind them (log.c 478, 491).
SinkArrayPacked ==
  \A k \in 1 .. MaxSinks : (sinks[k] = NULL) <=> (k > sink_count)

TypeOK ==
  /\ min_level \in Levels \cup {OFF}
  /\ sinks \in [1 .. MaxSinks -> Sinks \cup {NULL}] /\ sink_count \in 0 .. MaxSinks
  /\ SinkArrayPacked
  /\ mutex \in Threads \cup {NULL}
  /\ pc \in [Threads -> {"idle", "lock", "sinks", "color", "text", "reset", "urgent",
                         "callback", "unlock", "flush_lock", "flush_sinks"}]
  /\ i \in [Threads -> 0 .. MaxSinks + 1]
  /\ \A s \in Sinks : flushed[s] \in 0 .. Len(stream[s])
  /\ calls \in [Threads -> 0 .. Calls] /\ changes \in 0 .. Reconfigurations

\* On every console the three parts of a message follow each other: two threads'
\* messages are never mixed (log.c 558-576), nor is one left in another's color.
MessagesWhole ==
  \A s \in Sinks \ Callbacks : \A k \in 1 .. Len(stream[s]) :
    LET p == stream[s][k] IN
      /\ p.part = Parts[((k - 1) % 3) + 1]
      /\ k % 3 # 1 => p.msg = stream[s][k - 1].msg

\* A call that has returned has written its message to a sink, whole, once for
\* each time that sink was attached, if its level passes the sink's, and to no
\* other sink.
Copies(s, m) ==
  Cardinality({k \in 1 .. Len(stream[s]) : stream[s][k] = [part |-> "text", msg |-> m]})
DeliveredExactly ==
  /\ MessagesWhole
  /\ \A d \in done, s \in Sinks :
       Copies(s, d.msg) =
         IF d.msg.level < SinkLevel[s] THEN 0
         ELSE Cardinality({k \in 1 .. Len(d.to) : d.to[k] = s})

\* Two sinks show the messages they have in common in the same order, as the
\* whole sink loop runs under one lock.
First(s, m) == CHOOSE k \in 1 .. Len(stream[s]) : stream[s][k].msg = m
                 /\ \A j \in 1 .. k - 1 : stream[s][j].msg # m
SinksAgreeOnOrder ==
  \A s, r \in Sinks : \A c, d \in done :
    (Copies(s, c.msg) > 0 /\ Copies(s, d.msg) > 0 /\ Copies(r, c.msg) > 0 /\ Copies(r, d.msg) > 0)
      => (First(s, c.msg) < First(s, d.msg) <=> First(r, c.msg) < First(r, d.msg))

\* log.c 199: "Always flush warnings and above so they aren't lost in the
\* buffer on a crash": once such a call has returned, nothing of it is buffered.
WarningsReachTheStream ==
  \A d \in done : d.msg.level >= WARN =>
    \A s \in Sinks : \A k \in flushed[s] + 1 .. Len(stream[s]) : stream[s][k].msg # d.msg

\* When a flush returns, no attached sink has anything buffered, whatever the
\* other threads were writing when it was called.
FlushIsComplete ==
  [][\A t \in Threads : flush_unlock(t) =>
       \A s \in Range(Attached) : flushed[s] = Len(stream[s])]_vars

\* Every call returns: no lock is left held and nobody waits in vain.
CallsReturn == \A t \in Threads : (pc[t] # "idle") ~> (pc[t] = "idle")
=============================================================================
