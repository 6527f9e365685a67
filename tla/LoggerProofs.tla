----------------------------- MODULE LoggerProofs -----------------------------
(***************************************************************************)
(* The logger, for any number of threads and sinks: its calls exclude each *)
(* other, its array stays packed, a flush is complete when it returns, a   *)
(* warning is out of the buffers when its call returns, and a message is   *)
(* delivered whole, once, to each sink that wants it, in one order.        *)
(***************************************************************************)
EXTENDS Logger, FiniteSetTheorems, WellFoundedInduction, TLAPS

Writing == {"color", "text", "reset", "urgent", "callback"}
Locked  == Writing \cup {"sinks", "unlock", "flush_sinks"}
Logging == Writing \cup {"lock", "sinks", "unlock"}
Places  == Logging \cup {"idle", "flush_lock", "flush_sinks"}

Messages == [by : Threads, n : Nat, level : Levels]
Pieces   == [part : {"color", "text", "reset"}, msg : Messages]

-----------------------------------------------------------------------------
(* Exclusion and the sink loop                                             *)

Shapes ==
  /\ min_level \in Levels \cup {OFF}
  /\ sinks \in [1 .. MaxSinks -> Sinks \cup {NULL}] /\ sink_count \in 0 .. MaxSinks
  /\ SinkArrayPacked
  /\ mutex \in Threads \cup {NULL}
  /\ pc \in [Threads -> Places]
  /\ i \in [Threads -> 0 .. MaxSinks + 1]
  /\ msg \in [Threads -> Messages \cup {NULL}]
  /\ stream \in [Sinks -> Seq(Pieces)]
  /\ flushed \in [Sinks -> Nat] /\ \A s \in Sinks : flushed[s] <= Len(stream[s])
  /\ calls \in [Threads -> 0 .. Calls] /\ changes \in 0 .. Reconfigurations

\* A thread holds the mutex exactly between its lock and its unlock.
Exclusion == \A t \in Threads : pc[t] \in Locked <=> mutex = t

\* A thread in the sink loop is at a sink that is attached or past them all.
Turns ==
  \A t \in Threads :
    /\ pc[t] \in {"lock", "flush_lock"} => i[t] = 1
    /\ pc[t] \in {"sinks", "flush_sinks"} => i[t] \in 1 .. sink_count + 1
    /\ pc[t] \in Writing => /\ i[t] \in 1 .. sink_count
                            /\ sinks[i[t]] \in Callbacks <=> pc[t] = "callback"

\* A message in progress carries its thread's latest number.
Numbered ==
  \A t \in Threads : pc[t] \in Logging =>
    msg[t] \in Messages /\ msg[t].by = t /\ msg[t].n = calls[t]

\* The sinks a flush has passed have nothing buffered; a callback never has.
FlushedBehind ==
  /\ \A s \in Callbacks : flushed[s] = Len(stream[s])
  /\ \A t \in Threads : pc[t] = "flush_sinks" =>
       \A k \in 1 .. i[t] - 1 : flushed[sinks[k]] = Len(stream[sinks[k]])

LInv == Shapes /\ Exclusion /\ Turns /\ Numbered /\ FlushedBehind

LEMMA LInit == Init => LInv
BY LoggerAssumption
   DEF Init, LInv, Shapes, Exclusion, Turns, Numbered, FlushedBehind, SinkArrayPacked,
       Levels, OFF, Places, Locked, Logging, Writing

\* Between calls nobody holds the mutex and every thread is at its start.
LEMMA Idle ==
  ASSUME LInv, AllIdle
  PROVE  /\ \A t \in Threads : pc[t] = "idle"
         /\ mutex = NULL
BY LoggerAssumption DEF LInv, Shapes, AllIdle, Exclusion, Locked, Writing

LEMMA AddSinkKeeps ==
  ASSUME LInv, NEW s \in Sinks, add_sink(s)
  PROVE  LInv'
<1>1. \A t \in Threads : pc[t] = "idle"
  BY Idle DEF add_sink
<1>2. /\ sinks' \in [1 .. MaxSinks -> Sinks \cup {NULL}]
      /\ sink_count' \in 0 .. MaxSinks
      /\ SinkArrayPacked'
      /\ changes' \in 0 .. Reconfigurations
  BY LoggerAssumption, SMTT(20) DEF LInv, Shapes, add_sink, SinkArrayPacked
<1>3. Shapes'
  BY <1>2 DEF LInv, Shapes, add_sink, thread, streams
<1>4. QED
  BY <1>1, <1>3
     DEF LInv, Exclusion, Turns, Numbered, FlushedBehind, add_sink, thread, streams,
         Locked, Logging, Writing

LEMMA RemoveSinkKeeps ==
  ASSUME LInv, NEW s \in Sinks, remove_sink(s)
  PROVE  LInv'
<1>1. \A t \in Threads : pc[t] = "idle"
  BY Idle DEF remove_sink
<1>2. /\ sinks' \in [1 .. MaxSinks -> Sinks \cup {NULL}]
      /\ sink_count' \in 0 .. MaxSinks
      /\ SinkArrayPacked'
      /\ changes' \in 0 .. Reconfigurations
  <2>1. changes' \in 0 .. Reconfigurations
    BY LoggerAssumption DEF LInv, Shapes, remove_sink
  <2>2. CASE UNCHANGED <<sinks, sink_count>>
    BY <2>1, <2>2 DEF LInv, Shapes, SinkArrayPacked
  <2>3. ASSUME NEW first \in 1 .. sink_count,
               sinks' = [k \in 1 .. MaxSinks |->
                           IF k = sink_count THEN NULL
                           ELSE IF k >= first /\ k < sink_count THEN sinks[k + 1]
                           ELSE sinks[k]],
               sink_count' = sink_count - 1
        PROVE  /\ sinks' \in [1 .. MaxSinks -> Sinks \cup {NULL}]
               /\ sink_count' \in 0 .. MaxSinks
               /\ SinkArrayPacked'
    BY <2>3, LoggerAssumption DEF LInv, Shapes, SinkArrayPacked
  <2>4. QED
    BY <2>1, <2>2, <2>3 DEF remove_sink
<1>3. Shapes'
  BY <1>2 DEF LInv, Shapes, remove_sink, thread, streams
<1>4. QED
  BY <1>1, <1>3
     DEF LInv, Exclusion, Turns, Numbered, FlushedBehind, remove_sink, thread, streams,
         Locked, Logging, Writing

\* What an action leaves alone it keeps: the conjuncts about the array and the
\* counts, when only threads and streams move.
LEMMA ThreadStepKeeps ==
  ASSUME LInv, NEW t \in Threads, InCall(t)
  PROVE  LInv'
<1> USE LoggerAssumption
        DEF LInv, Shapes, SinkArrayPacked, Exclusion, Turns, Numbered, FlushedBehind,
            Locked, Logging, Writing, Places, Goto, logger, streams, thread
<1>1. ASSUME NEW from \in {"lock", "flush_lock"}, NEW to \in {"sinks", "flush_sinks"},
             from = "lock" <=> to = "sinks", lock(t, from, to)
      PROVE  LInv'
  <2>1. /\ pc[t] = from /\ mutex = NULL /\ mutex' = t
        /\ pc' = [pc EXCEPT ![t] = to]
        /\ UNCHANGED <<min_level, sinks, sink_count, i, msg, stream, flushed, calls, changes>>
    BY <1>1 DEF lock
  <2>2. \A u \in Threads : pc[u] \notin Locked
    BY <2>1
  <2>3. Shapes' /\ Exclusion' /\ Turns'
    BY <1>1, <2>1, <2>2
  <2>4. Numbered' /\ FlushedBehind'
    BY <1>1, <2>1, <2>2
  <2>5. QED
    BY <2>3, <2>4
<1>2. CASE next_sink(t)
  <2>1. /\ pc[t] = "sinks" /\ mutex = t /\ i[t] \in 1 .. sink_count + 1
        /\ UNCHANGED <<min_level, sinks, sink_count, mutex, msg, stream, flushed, calls, changes>>
    BY <1>2 DEF next_sink
  <2>2. CASE i[t] > sink_count /\ UNCHANGED i /\ pc' = [pc EXCEPT ![t] = "unlock"]
    BY <2>1, <2>2
  <2>3. CASE i[t] <= sink_count /\ i' = [i EXCEPT ![t] = i[t] + 1] /\ UNCHANGED pc
    <3>1. i' \in [Threads -> 0 .. MaxSinks + 1]
      BY <2>1, <2>3, SMTT(20)
    <3>2. Shapes' /\ Exclusion'
      BY <2>1, <2>3, <3>1
    <3>3. Turns'
      BY <2>1, <2>3
    <3>4. QED
      BY <2>1, <2>3, <3>2, <3>3
  <2>4. CASE /\ i[t] <= sink_count /\ UNCHANGED i
             /\ pc' = [pc EXCEPT ![t] =
                         IF sinks[i[t]] \in Callbacks THEN "callback" ELSE "color"]
    <3>1. Shapes' /\ Exclusion' /\ Turns'
      BY <2>1, <2>4, SMTT(20)
    <3>2. QED
      BY <2>1, <2>4, <3>1, SMTT(20)
  <2>5. CASE i[t] > sink_count
    BY <1>2, <2>2, <2>5 DEF next_sink
  <2>6. CASE ~(i[t] > sink_count)
    <3>1. i[t] <= sink_count
      BY <2>1, <2>6
    <3>2. QED
      BY <1>2, <2>3, <2>4, <2>6, <3>1 DEF next_sink
  <2>7. QED
    BY <2>5, <2>6
<1>3. ASSUME NEW part \in {"color", "text", "reset"}, NEW next \in {"text", "reset", "urgent"},
             write_part(t, part, next)
      PROVE  LInv'
  <2>1. sinks[i[t]] \in Sinks \ Callbacks
    BY <1>3 DEF write_part
  <2>2. /\ stream' \in [Sinks -> Seq(Pieces)]
        /\ \A s \in Sinks : s # sinks[i[t]] => stream'[s] = stream[s]
        /\ Len(stream'[sinks[i[t]]]) = Len(stream[sinks[i[t]]]) + 1
    <3>1. stream' = [stream EXCEPT ![sinks[i[t]]] =
                       Append(@, [part |-> part, msg |-> msg[t]])]
      BY <1>3 DEF write_part, Emit
    <3>2. [part |-> part, msg |-> msg[t]] \in Pieces
      BY <1>3 DEF write_part, Pieces
    <3>3. QED
      BY <2>1, <3>1, <3>2
  <2>3. /\ pc[t] = part /\ mutex = t /\ pc' = [pc EXCEPT ![t] = next]
        /\ UNCHANGED <<min_level, sinks, sink_count, mutex, i, msg, flushed, calls, changes>>
    BY <1>3 DEF write_part
  <2>4. ASSUME NEW s \in Sinks PROVE flushed[s] <= Len(stream'[s])
    <3>1. flushed[s] \in Nat /\ Len(stream[s]) \in Nat /\ flushed[s] <= Len(stream[s])
      OBVIOUS
    <3>2. CASE s = sinks[i[t]]
      BY <2>2, <3>1, <3>2
    <3>3. CASE s # sinks[i[t]]
      BY <2>2, <3>1, <3>3
    <3>4. QED
      BY <3>2, <3>3
  <2>5. Shapes'
    BY <1>3, <2>2, <2>3, <2>4
  <2>6. FlushedBehind'
    <3>1. \A u \in Threads : pc'[u] # "flush_sinks"
      BY <1>3, <2>3
    <3>2. QED
      BY <2>1, <2>2, <2>3, <3>1, ZenonT(20)
  <2>7. Exclusion' /\ Turns' /\ Numbered'
    BY <1>3, <2>1, <2>3
  <2>8. QED
    BY <2>5, <2>6, <2>7
<1>4. CASE end_write(t)
  <2>1. /\ sinks[i[t]] \in Sinks \ Callbacks /\ i[t] \in 1 .. sink_count
        /\ mutex = t
    BY <1>4 DEF end_write
  <2>2. /\ flushed' \in [Sinks -> Nat]
        /\ \A s \in Sinks : flushed'[s] <= Len(stream[s])
        /\ \A s \in Callbacks : flushed'[s] = flushed[s]
    BY <1>4, <2>1, SMTT(20) DEF end_write
  <2>3. Shapes'
    <3>1. i' \in [Threads -> 0 .. MaxSinks + 1] /\ pc' \in [Threads -> Places]
      BY <1>4, <2>1, SMTT(20) DEF end_write
    <3>2. UNCHANGED <<min_level, sinks, sink_count, mutex, msg, stream, calls, changes>>
      BY <1>4 DEF end_write
    <3>3. QED
      BY <2>2, <3>1, <3>2
  <2>4. FlushedBehind'
    BY <1>4, <2>1, <2>2, SMTT(20) DEF end_write
  <2>5. QED
    BY <1>4, <2>1, <2>3, <2>4, SMTT(20) DEF end_write
<1>5. CASE callback(t)
  <2>1. sinks[i[t]] \in Callbacks
    BY <1>5 DEF callback
  <2>2. /\ stream' \in [Sinks -> Seq(Pieces)]
        /\ \A s \in Sinks : s # sinks[i[t]] => stream'[s] = stream[s]
        /\ Len(stream'[sinks[i[t]]]) = Len(stream[sinks[i[t]]]) + 1
    <3>1. stream' = [stream EXCEPT ![sinks[i[t]]] =
                       Append(@, [part |-> "text", msg |-> msg[t]])]
      BY <1>5 DEF callback, Emit
    <3>2. [part |-> "text", msg |-> msg[t]] \in Pieces
      BY <1>5 DEF callback, Pieces
    <3>3. QED
      BY <2>1, <3>1, <3>2
  <2>3. flushed' = [flushed EXCEPT ![sinks[i[t]]] = Len(stream'[sinks[i[t]]])]
    BY <1>5 DEF callback
  <2>4. mutex = t /\ i[t] \in 1 .. sink_count
    BY <1>5 DEF callback
  <2>5. Shapes'
    <3>1. /\ flushed' \in [Sinks -> Nat]
          /\ \A s \in Sinks : flushed'[s] <= Len(stream'[s])
      BY <2>1, <2>2, <2>3
    <3>2. i' \in [Threads -> 0 .. MaxSinks + 1] /\ pc' \in [Threads -> Places]
      BY <1>5, <2>4 DEF callback
    <3>3. UNCHANGED <<min_level, sinks, sink_count, mutex, msg, calls, changes>>
      BY <1>5 DEF callback
    <3>4. QED
      BY <2>2, <3>1, <3>2, <3>3
  <2>6. FlushedBehind'
    <3>1. \A s \in Callbacks : flushed'[s] = Len(stream'[s])
      BY <2>1, <2>2, <2>3
    <3>2. \A u \in Threads : pc'[u] # "flush_sinks"
      BY <1>5, <2>4 DEF callback
    <3>3. QED
      BY <3>1, <3>2
  <2>7. Exclusion' /\ Turns' /\ Numbered'
    <3>1. /\ pc' = [pc EXCEPT ![t] = "sinks"] /\ i' = [i EXCEPT ![t] = i[t] + 1]
          /\ UNCHANGED <<sinks, sink_count, mutex, msg, calls>>
      BY <1>5 DEF callback
    <3>2. pc[t] = "callback"
      BY <1>5 DEF callback
    <3>3. QED
      BY <2>4, <3>1, <3>2, SMTT(20)
  <2>8. QED
    BY <2>5, <2>6, <2>7
<1>6. CASE unlock(t)
  BY <1>6, SMTT(20) DEF unlock
<1>7. CASE flush_sink(t)
  <2>1. /\ sinks[i[t]] \in Sinks /\ i[t] \in 1 .. sink_count /\ mutex = t
        /\ i' = [i EXCEPT ![t] = i[t] + 1]
    BY <1>7 DEF flush_sink
  <2>2. /\ flushed' \in [Sinks -> Nat]
        /\ \A s \in Sinks : flushed'[s] <= Len(stream[s])
        /\ \A s \in Sinks : s # sinks[i[t]] => flushed'[s] = flushed[s]
        /\ flushed'[sinks[i[t]]] = Len(stream[sinks[i[t]]])
    BY <1>7, <2>1, SMTT(20) DEF flush_sink
  <2>3. Shapes'
    <3>1. i' \in [Threads -> 0 .. MaxSinks + 1]
      BY <2>1, SMTT(20)
    <3>2. UNCHANGED <<min_level, sinks, sink_count, mutex, pc, msg, stream, calls, changes>>
      BY <1>7 DEF flush_sink
    <3>3. QED
      BY <2>2, <3>1, <3>2
  <2>4. FlushedBehind'
    <3>1. \A s \in Callbacks : flushed'[s] = Len(stream'[s])
      BY <1>7, <2>2 DEF flush_sink
    <3>2. ASSUME NEW u \in Threads, pc'[u] = "flush_sinks",
                 NEW k \in 1 .. i'[u] - 1
          PROVE  flushed'[sinks'[k]] = Len(stream'[sinks'[k]])
      <4>1. u = t /\ k \in 1 .. i[t] /\ sinks[k] \in Sinks
        BY <1>7, <2>1, <3>2, SMTT(20) DEF flush_sink
      <4>2. CASE k = i[t]
        BY <1>7, <2>2, <4>1, <4>2 DEF flush_sink
      <4>3. CASE k \in 1 .. i[t] - 1
        <5>1. flushed[sinks[k]] = Len(stream[sinks[k]])
          BY <1>7, <4>3 DEF flush_sink
        <5>2. flushed'[sinks[k]] = Len(stream[sinks[k]])
          BY <2>2, <4>1, <5>1
        <5>3. QED
          BY <1>7, <5>2 DEF flush_sink
      <4>4. QED
        BY <2>1, <4>1, <4>2, <4>3
    <3>3. QED
      BY <3>1, <3>2
  <2>5. Exclusion' /\ Turns' /\ Numbered'
    <3>1. UNCHANGED <<sinks, sink_count, mutex, pc, msg, calls>>
      BY <1>7 DEF flush_sink
    <3>2. pc[t] = "flush_sinks"
      BY <1>7 DEF flush_sink
    <3>3. QED
      BY <2>1, <3>1, <3>2, SMTT(20)
  <2>6. QED
    BY <2>3, <2>4, <2>5
<1>8. CASE flush_unlock(t)
  BY <1>8 DEF flush_unlock
<1>9. QED
  BY <1>1, <1>2, <1>3, <1>4, <1>5, <1>6, <1>7, <1>8 DEF InCall

LEMMA LStep == LInv /\ [Next]_vars => LInv'
<1> SUFFICES ASSUME LInv, [Next]_vars PROVE LInv'
  OBVIOUS
<1> USE LoggerAssumption
        DEF LInv, Shapes, SinkArrayPacked, Exclusion, Turns, Numbered, FlushedBehind,
            Locked, Logging, Writing, Places, Goto, logger, streams, thread
<1>1. ASSUME NEW s \in Sinks, add_sink(s) \/ remove_sink(s) PROVE LInv'
  BY <1>1, AddSinkKeeps, RemoveSinkKeeps
<1>2. ASSUME NEW level \in Levels \cup {OFF}, set_level(level) PROVE LInv'
  BY <1>2 DEF set_level
<1>3. ASSUME NEW t \in Threads, NEW level \in Levels, log(t, level) PROVE LInv'
  <2>1. calls' = [calls EXCEPT ![t] = calls[t] + 1] /\ calls'[t] \in 1 .. Calls
    BY <1>3 DEF log
  <2>2. CASE level < min_level
    BY <1>3, <2>1, <2>2 DEF log
  <2>3. CASE ~(level < min_level)
    <3>1. [by |-> t, n |-> calls'[t], level |-> level] \in Messages
      BY <2>1 DEF Messages
    <3>2. /\ msg' = [msg EXCEPT ![t] = [by |-> t, n |-> calls'[t], level |-> level]]
          /\ i' = [i EXCEPT ![t] = 1]
          /\ pc' = [pc EXCEPT ![t] = "lock"] /\ pc[t] = "idle"
      BY <1>3, <2>3 DEF log
    <3>3. Shapes'
      BY <1>3, <2>1, <3>1, <3>2 DEF log
    <3>4. Numbered'
      BY <1>3, <2>1, <3>1, <3>2 DEF log
    <3>5. Turns' /\ Exclusion' /\ FlushedBehind'
      BY <1>3, <3>2 DEF log
    <3>6. QED
      BY <3>3, <3>4, <3>5
  <2>4. QED
    BY <2>2, <2>3
<1>4. ASSUME NEW t \in Threads, flush(t) PROVE LInv'
  <2>1. calls' = [calls EXCEPT ![t] = calls[t] + 1] /\ calls'[t] \in 1 .. Calls
    BY <1>4 DEF flush
  <2>2. Shapes'
    BY <1>4, <2>1 DEF flush
  <2>3. Numbered'
    BY <1>4, <2>1 DEF flush
  <2>4. Turns' /\ Exclusion' /\ FlushedBehind'
    BY <1>4 DEF flush
  <2>5. QED
    BY <2>2, <2>3, <2>4
<1>5. ASSUME NEW t \in Threads, InCall(t) PROVE LInv'
  BY <1>5, ThreadStepKeeps
<1>6. CASE UNCHANGED vars
  BY <1>6 DEF vars
<1>7. QED
  BY <1>1, <1>2, <1>3, <1>4, <1>5, <1>6 DEF Next

LEMMA LInvariance == Spec => []LInv
BY LInit, LStep, PTL DEF Spec

\* Every variable keeps its type, and the sinks fill the front of the array,
\* for any number of threads, sinks and reconfigurations (log.c 473-495).
THEOREM TypeCorrect == Spec => []TypeOK
<1>1. LInv => TypeOK
  <2>1. SUFFICES ASSUME LInv PROVE TypeOK
    OBVIOUS
  <2>2. \A s \in Sinks : Len(stream[s]) \in Nat
    BY <2>1 DEF LInv, Shapes
  <2>3. \A s \in Sinks : flushed[s] \in 0 .. Len(stream[s])
    BY <2>1, <2>2 DEF LInv, Shapes
  <2>4. QED
    BY <2>1, <2>3 DEF LInv, Shapes, TypeOK, Places, Logging, Writing
<1>2. QED
  BY <1>1, LInvariance, PTL

\* When a flush returns, nothing is left buffered in an attached sink, whatever
\* other threads wrote meanwhile (log.c 519-529).
THEOREM FlushesComplete == Spec => FlushIsComplete
<1>1. ASSUME LInv, NEW t \in Threads, flush_unlock(t)
      PROVE  \A s \in Range(Attached) : flushed[s] = Len(stream[s])
  <2>1. pc[t] = "flush_sinks" /\ i[t] = sink_count + 1
    BY <1>1 DEF flush_unlock, LInv, Shapes, Turns
  <2>2. \A k \in 1 .. sink_count : flushed[sinks[k]] = Len(stream[sinks[k]])
    BY <1>1, <2>1 DEF LInv, Shapes, FlushedBehind
  <2>3. sinks \in Seq(Sinks \cup {NULL}) /\ sink_count \in 0 .. Len(sinks)
    BY <1>1, LoggerAssumption DEF LInv, Shapes
  <2>4. \A s \in Range(Attached) : \E k \in 1 .. sink_count : s = sinks[k]
    BY <2>3 DEF Range, Attached
  <2>5. QED
    BY <2>2, <2>4
<1>2. LInv /\ [Next]_vars =>
        [\A t \in Threads : flush_unlock(t) =>
           \A s \in Range(Attached) : flushed[s] = Len(stream[s])]_vars
  BY <1>1
<1>3. QED
  BY <1>2, LInvariance, PTL DEF Spec, FlushIsComplete

-----------------------------------------------------------------------------
(* Warnings                                                                *)

\* A message written, or delivered to all, has a number its thread has reached;
\* while the thread logs, the message it is at has a number of its own.
Old ==
  /\ \A s \in Sinks : \A k \in 1 .. Len(stream[s]) :
       stream[s][k].msg.n <= calls[stream[s][k].msg.by]
  /\ \A d \in done :
       /\ d.msg \in Messages /\ d.msg.n <= calls[d.msg.by]
       /\ pc[d.msg.by] \in Logging => d.msg.n < calls[d.msg.by]

Buffered(s) == {stream[s][k].msg : k \in flushed[s] + 1 .. Len(stream[s])}

\* Of a warning in progress only what was written to the sink at hand is
\* buffered.
OneSinkBuffered ==
  \A t \in Threads : pc[t] \in Logging /\ msg[t].level >= WARN =>
    \A s \in Sinks : msg[t] \in Buffered(s) =>
      pc[t] \in {"text", "reset", "urgent"} /\ s = sinks[i[t]]

DeliveredFlushed ==
  \A d \in done : d.msg.level >= WARN => \A s \in Sinks : d.msg \notin Buffered(s)

WInv == LInv /\ Old /\ OneSinkBuffered /\ DeliveredFlushed

LEMMA WInit == Init => WInv
<1>1. Init => LInv
  BY LInit
<1>2. Init => Old /\ OneSinkBuffered /\ DeliveredFlushed
  BY DEF Init, Old, OneSinkBuffered, DeliveredFlushed, Logging, Writing
<1>3. QED
  BY <1>1, <1>2 DEF WInv

\* A step that writes nothing, whatever it flushes, leaves less buffered.
LEMMA NothingWritten ==
  ASSUME LInv, LInv', stream' = stream, NEW s \in Sinks, flushed'[s] >= flushed[s]
  PROVE  Buffered(s)' \subseteq Buffered(s)
<1>1. flushed[s] \in Nat /\ flushed'[s] \in Nat /\ Len(stream[s]) \in Nat
  BY DEF LInv, Shapes
<1>2. flushed'[s] + 1 .. Len(stream[s]) \subseteq flushed[s] + 1 .. Len(stream[s])
  BY <1>1
<1>3. QED
  BY <1>2 DEF Buffered

\* A piece written adds its message to what one sink has buffered.
LEMMA PieceWritten ==
  ASSUME LInv, NEW s \in Sinks, NEW p \in Pieces,
         stream' = [stream EXCEPT ![s] = Append(@, p)], flushed' = flushed
  PROVE  /\ Buffered(s)' \subseteq Buffered(s) \cup {p.msg}
         /\ \A r \in Sinks \ {s} : Buffered(r)' = Buffered(r)
BY DEF LInv, Shapes, Buffered

\* The message at hand was numbered last, so it is none of those delivered, and
\* no other thread's.
LEMMA MessageIsNew ==
  ASSUME LInv, Old, NEW t \in Threads, pc[t] \in Logging
  PROVE  /\ \A d \in done : d.msg # msg[t]
         /\ \A u \in Threads \ {t} : pc[u] \in Logging => msg[u] # msg[t]
         /\ msg[t].by = t /\ msg[t].n = calls[t] /\ calls[t] \in Nat
BY LoggerAssumption DEF LInv, Shapes, Numbered, Old, Messages

LEMMA WarningsWritePart ==
  ASSUME WInv, LInv', NEW t \in Threads,
         NEW part \in {"color", "text", "reset"}, NEW next \in {"text", "reset", "urgent"},
         write_part(t, part, next)
  PROVE  WInv'
<1> DEFINE s == sinks[i[t]]
           p == [part |-> part, msg |-> msg[t]]
<1>1. /\ pc[t] = part /\ pc' = [pc EXCEPT ![t] = next]
      /\ UNCHANGED <<sinks, i, msg, flushed, calls, done>>
      /\ stream' = [stream EXCEPT ![s] = Append(@, p)]
  BY DEF write_part, Goto, Emit, logger
<1>2. pc \in [Threads -> Places] /\ pc[t] \in Logging /\ next \in Logging
  BY <1>1 DEF WInv, LInv, Shapes, Logging, Writing
<1>3. s \in Sinks /\ p \in Pieces
  BY <1>1 DEF WInv, LInv, Shapes, Turns, Numbered, SinkArrayPacked, Writing, Logging, Pieces
<1>4. /\ Buffered(s)' \subseteq Buffered(s) \cup {msg[t]}
      /\ \A r \in Sinks \ {s} : Buffered(r)' = Buffered(r)
  BY <1>1, <1>3, PieceWritten DEF WInv
<1>5. \A u \in Threads : pc'[u] \in Logging <=> pc[u] \in Logging
  BY <1>1, <1>2
<1>6. /\ \A d \in done : d.msg # msg[t]
      /\ \A u \in Threads \ {t} : pc[u] \in Logging => msg[u] # msg[t]
      /\ msg[t].by = t /\ msg[t].n = calls[t] /\ calls[t] \in Nat
  BY <1>2, MessageIsNew DEF WInv
<1>7. Old'
  <2>1. ASSUME NEW r \in Sinks, NEW k \in 1 .. Len(stream'[r])
        PROVE  stream'[r][k].msg.n <= calls'[stream'[r][k].msg.by]
    <3>1. stream[r] \in Seq(Pieces)
      BY DEF WInv, LInv, Shapes
    <3>2. CASE r = s /\ k = Len(stream[s]) + 1
      <4>1. stream'[s] = Append(stream[s], p)
        BY <1>1, <1>3 DEF WInv, LInv, Shapes
      <4>2. stream'[r][k] = p
        BY <1>3, <3>1, <3>2, <4>1
      <4>3. QED
        BY <1>6, <4>2 DEF write_part
    <3>3. CASE k \in 1 .. Len(stream[r])
      <4>1. stream'[r][k] = stream[r][k]
        BY <1>1, <1>3, <3>1, <3>3 DEF WInv, LInv, Shapes
      <4>2. QED
        BY <1>1, <3>3, <4>1 DEF WInv, Old
    <3>4. k \in 1 .. Len(stream[r]) \/ (r = s /\ k = Len(stream[s]) + 1)
      <4>1. stream \in [Sinks -> Seq(Pieces)]
        BY DEF WInv, LInv, Shapes
      <4>2. CASE r = s
        BY <1>1, <1>3, <3>1, <4>1, <4>2
      <4>3. CASE r # s
        BY <1>1, <4>1, <4>3
      <4>4. QED
        BY <4>2, <4>3
    <3>5. QED
      BY <3>2, <3>3, <3>4
  <2>2. UNCHANGED calls
    BY DEF write_part
  <2>3. \A d \in done : d.msg.by \in Threads
    BY DEF WInv, Old, Messages
  <2>4. QED
    BY <1>1, <1>5, <2>1, <2>2, <2>3 DEF WInv, Old
<1>8. OneSinkBuffered'
  <2>1. ASSUME NEW u \in Threads, pc'[u] \in Logging, msg'[u].level >= WARN, NEW r \in Sinks,
               msg'[u] \in Buffered(r)'
        PROVE  pc'[u] \in {"text", "reset", "urgent"} /\ r = sinks'[i'[u]]
    <3>1. CASE u = t
      <4>1. r # s => msg[t] \in Buffered(r)
        BY <1>1, <1>4, <2>1, <3>1
      <4>2. r = s
        BY <1>1, <1>2, <2>1, <3>1, <4>1 DEF WInv, OneSinkBuffered
      <4>3. QED
        BY <1>1, <1>2, <3>1, <4>2
    <3>2. CASE u # t
      <4>1. msg[u] \in Buffered(r) /\ pc'[u] = pc[u]
        BY <1>1, <1>2, <1>3, <1>4, <1>5, <1>6, <2>1, <3>2
      <4>2. QED
        BY <1>1, <1>5, <2>1, <4>1 DEF WInv, OneSinkBuffered
    <3>3. QED
      BY <3>1, <3>2
  <2>2. QED
    BY <2>1 DEF OneSinkBuffered
<1>9. DeliveredFlushed'
  BY <1>1, <1>3, <1>4, <1>6 DEF WInv, DeliveredFlushed
<1>10. QED
  BY <1>7, <1>8, <1>9 DEF WInv

\* A step that writes nothing, starts and ends no message, and moves no thread
\* away from a sink it has written to.
LEMMA WarningsQuietStep ==
  ASSUME WInv, LInv', UNCHANGED <<stream, done, msg>>,
         \A s \in Sinks : flushed'[s] >= flushed[s],
         \A u \in Threads :
           /\ calls'[u] >= calls[u]
           /\ pc'[u] \in Logging =>
                /\ pc[u] \in Logging
                /\ pc[u] \in {"text", "reset", "urgent"} =>
                     pc'[u] = pc[u] /\ i'[u] = i[u] /\ sinks' = sinks
  PROVE  WInv'
<1>1. \A s \in Sinks : Buffered(s)' \subseteq Buffered(s)
  BY NothingWritten DEF WInv
<1>2. /\ \A u \in Threads : calls[u] \in Nat /\ calls'[u] \in Nat
      /\ \A s \in Sinks : stream[s] \in Seq(Pieces)
  BY LoggerAssumption DEF WInv, LInv, Shapes
<1>3. Old'
  <2>1. ASSUME NEW s \in Sinks, NEW k \in 1 .. Len(stream[s])
        PROVE  stream[s][k].msg.n <= calls'[stream[s][k].msg.by]
    <3>1. /\ stream[s][k] \in Pieces
          /\ stream[s][k].msg.n <= calls[stream[s][k].msg.by]
      BY <1>2 DEF WInv, Old
    <3>2. stream[s][k].msg.by \in Threads /\ stream[s][k].msg.n \in Nat
      BY <3>1 DEF Pieces, Messages
    <3>3. QED
      BY <1>2, <3>1, <3>2
  <2>2. ASSUME NEW d \in done
        PROVE  /\ d.msg \in Messages /\ d.msg.n <= calls'[d.msg.by]
               /\ pc'[d.msg.by] \in Logging => d.msg.n < calls'[d.msg.by]
    <3>1. d.msg \in Messages /\ d.msg.by \in Threads /\ d.msg.n \in Nat
      BY DEF WInv, Old, Messages
    <3>2. QED
      BY <1>2, <3>1 DEF WInv, Old
  <2>3. QED
    BY <2>1, <2>2 DEF Old
<1>4. OneSinkBuffered'
  BY <1>1 DEF WInv, OneSinkBuffered
<1>5. DeliveredFlushed'
  BY <1>1 DEF WInv, DeliveredFlushed
<1>6. QED
  BY <1>3, <1>4, <1>5 DEF WInv

\* A warning has left the sink's buffer when the next sink's turn comes.
LEMMA WarningsEndWrite ==
  ASSUME WInv, LInv', NEW t \in Threads, end_write(t)
  PROVE  WInv'
<1>0. PICK s \in Sinks : s = sinks[i[t]]
  <2>1. i[t] \in 1 .. sink_count
    BY DEF end_write, WInv, LInv, Turns, Writing
  <2>2. sink_count \in 0 .. MaxSinks /\ i[t] \in 1 .. MaxSinks
    BY <2>1, LoggerAssumption DEF WInv, LInv, Shapes
  <2>3. sinks[i[t]] \in Sinks \cup {NULL} /\ sinks[i[t]] # NULL
    BY <2>1, <2>2 DEF WInv, LInv, Shapes, SinkArrayPacked
  <2>4. QED
    BY <2>3
<1>1. /\ pc[t] = "urgent" /\ pc' = [pc EXCEPT ![t] = "sinks"]
      /\ i' = [i EXCEPT ![t] = i[t] + 1]
      /\ UNCHANGED <<sinks, msg, stream, calls, done>>
      /\ flushed' = IF msg[t].level >= WARN
                    THEN [flushed EXCEPT ![s] = Len(stream[s])] ELSE flushed
  BY <1>0 DEF end_write, Goto, logger
<1>2. pc \in [Threads -> Places] /\ i \in [Threads -> 0 .. MaxSinks + 1]
  BY DEF WInv, LInv, Shapes
<1>3. \A r \in Sinks : flushed'[r] >= flushed[r]
  BY <1>1, <1>2, SMTT(20) DEF WInv, LInv, Shapes
<1>4. \A r \in Sinks : Buffered(r)' \subseteq Buffered(r)
  BY <1>1, <1>3, NothingWritten DEF WInv
<1>5. \A u \in Threads : pc'[u] \in Logging <=> pc[u] \in Logging
  BY <1>1, <1>2 DEF Logging, Writing
<1>6. Old'
  BY <1>1, <1>5 DEF WInv, Old, Messages
<1>7. OneSinkBuffered'
  <2>1. ASSUME msg[t].level >= WARN, NEW r \in Sinks PROVE msg[t] \notin Buffered(r)'
    <3>1. CASE r = s
      <4>1. flushed'[s] = Len(stream[s]) /\ Len(stream[s]) \in Nat
        BY <1>1, <1>2, <2>1 DEF WInv, LInv, Shapes
      <4>2. Buffered(s)' = {}
        BY <1>1, <4>1 DEF Buffered
      <4>3. QED
        BY <3>1, <4>2
    <3>2. CASE r # s
      BY <1>0, <1>1, <1>4, <1>5, <2>1, <3>2 DEF WInv, OneSinkBuffered, Logging, Writing
    <3>3. QED
      BY <3>1, <3>2
  <2>2. QED
    BY <1>1, <1>2, <1>4, <1>5, <2>1 DEF WInv, OneSinkBuffered
<1>8. DeliveredFlushed'
  BY <1>1, <1>4 DEF WInv, DeliveredFlushed
<1>9. QED
  BY <1>6, <1>7, <1>8 DEF WInv

\* What a callback is handed is not buffered.
LEMMA WarningsCallback ==
  ASSUME WInv, LInv', NEW t \in Threads, callback(t)
  PROVE  WInv'
<1>0. PICK s \in Sinks : s = sinks[i[t]]
  BY DEF callback, WInv, LInv, Shapes, Turns, SinkArrayPacked, Writing
<1> DEFINE p == [part |-> "text", msg |-> msg[t]]
<1>1. /\ pc[t] = "callback" /\ pc' = [pc EXCEPT ![t] = "sinks"]
      /\ i' = [i EXCEPT ![t] = i[t] + 1]
      /\ UNCHANGED <<sinks, msg, calls, done>>
      /\ stream' = [stream EXCEPT ![s] = Append(@, p)]
      /\ flushed' = [flushed EXCEPT ![s] = Len(stream'[s])]
  BY <1>0 DEF callback, Goto, Emit, logger
<1>2. /\ pc \in [Threads -> Places] /\ pc[t] \in Logging
      /\ stream \in [Sinks -> Seq(Pieces)] /\ flushed \in [Sinks -> Nat]
  BY <1>1 DEF WInv, LInv, Shapes, Writing, Logging
<1>3. p \in Pieces
  BY <1>2 DEF WInv, LInv, Numbered, Pieces
<1>4. stream' \in [Sinks -> Seq(Pieces)]
  BY <1>1, <1>2, <1>3
<1>5. Buffered(s)' = {} /\ \A r \in Sinks \ {s} : Buffered(r)' = Buffered(r)
  <2>1. Buffered(s)' = {}
    BY <1>1, <1>2, <1>4 DEF Buffered
  <2>2. ASSUME NEW r \in Sinks \ {s} PROVE Buffered(r)' = Buffered(r)
    BY <1>1, <1>2 DEF Buffered
  <2>3. QED
    BY <2>1, <2>2
<1>6. \A r \in Sinks : Buffered(r)' \subseteq Buffered(r)
  BY <1>5
<1>7. \A u \in Threads : pc'[u] \in Logging <=> pc[u] \in Logging
  BY <1>1, <1>2 DEF Logging, Writing
<1>8. Old'
  <2>1. msg[t].by = t /\ msg[t].n = calls[t] /\ calls[t] \in Nat
    BY <1>2, MessageIsNew DEF WInv
  <2>2. ASSUME NEW r \in Sinks, NEW k \in 1 .. Len(stream'[r])
        PROVE  stream'[r][k].msg.n <= calls'[stream'[r][k].msg.by]
    <3>1. CASE r = s /\ k = Len(stream[s]) + 1
      BY <1>1, <1>2, <1>3, <2>1, <3>1
    <3>2. CASE k \in 1 .. Len(stream[r])
      <4>1. stream'[r][k] = stream[r][k]
        BY <1>1, <1>2, <1>3, <3>2
      <4>2. QED
        BY <1>1, <3>2, <4>1 DEF WInv, Old
    <3>3. k \in 1 .. Len(stream[r]) \/ (r = s /\ k = Len(stream[s]) + 1)
      <4>1. CASE r = s
        BY <1>1, <1>2, <1>3, <4>1
      <4>2. CASE r # s
        BY <1>1, <1>2, <4>2
      <4>3. QED
        BY <4>1, <4>2
    <3>4. QED
      BY <3>1, <3>2, <3>3
  <2>3. \A d \in done : d.msg.by \in Threads
    BY DEF WInv, Old, Messages
  <2>4. QED
    BY <1>1, <1>7, <2>2, <2>3 DEF WInv, Old
<1>9. OneSinkBuffered'
  BY <1>1, <1>2, <1>6, <1>7 DEF WInv, OneSinkBuffered
<1>10. DeliveredFlushed'
  BY <1>1, <1>6 DEF WInv, DeliveredFlushed
<1>11. QED
  BY <1>8, <1>9, <1>10 DEF WInv

LEMMA WarningsLog ==
  ASSUME WInv, LInv', NEW t \in Threads, NEW level \in Levels, log(t, level)
  PROVE  WInv'
<1>1. /\ pc[t] = "idle" /\ UNCHANGED <<sinks, stream, flushed, done>>
      /\ calls' = [calls EXCEPT ![t] = calls[t] + 1]
  BY DEF log, streams, logger
<1>2. /\ calls \in [Threads -> Nat] /\ pc \in [Threads -> Places]
      /\ flushed \in [Sinks -> Nat]
  <2>1. calls \in [Threads -> 0 .. Calls] /\ 0 .. Calls \subseteq Nat
    BY LoggerAssumption DEF WInv, LInv, Shapes
  <2>2. calls \in [Threads -> Nat]
    BY <2>1
  <2>3. QED
    BY <2>2 DEF WInv, LInv, Shapes
<1>3. CASE UNCHANGED thread
  <2>1. UNCHANGED <<pc, msg, i>>
    BY <1>3 DEF thread
  <2>2. \A u \in Threads : calls'[u] >= calls[u]
    BY <1>1, <1>2
  <2>3. \A s \in Sinks : flushed'[s] >= flushed[s]
    BY <1>1, <1>2
  <2>4. QED
    BY <1>1, <2>1, <2>2, <2>3, WarningsQuietStep
<1>4. ASSUME msg' = [msg EXCEPT ![t] = [by |-> t, n |-> calls'[t], level |-> level]],
             i' = [i EXCEPT ![t] = 1], pc' = [pc EXCEPT ![t] = "lock"]
      PROVE  WInv'
  <2>1. \A s \in Sinks : Buffered(s)' = Buffered(s)
    BY <1>1 DEF Buffered
  <2>2. msg'[t].n = calls[t] + 1 /\ msg'[t].by = t
    BY <1>1, <1>2, <1>4 DEF WInv, LInv, Shapes
  <2>3. ASSUME NEW s \in Sinks, NEW k \in 1 .. Len(stream[s])
        PROVE  /\ stream[s][k].msg.n <= calls'[stream[s][k].msg.by]
               /\ stream[s][k].msg # msg'[t]
    <3>1. stream[s][k] \in Pieces
      BY DEF WInv, LInv, Shapes
    <3>2. stream[s][k].msg.by \in Threads /\ stream[s][k].msg.n \in Nat
      BY <3>1 DEF Pieces, Messages
    <3>3. stream[s][k].msg.n <= calls[stream[s][k].msg.by]
      BY DEF WInv, Old
    <3>4. QED
      BY <1>1, <1>2, <2>2, <3>2, <3>3
  <2>4. ASSUME NEW d \in done
        PROVE  /\ d.msg \in Messages /\ d.msg.n <= calls'[d.msg.by]
               /\ pc'[d.msg.by] \in Logging => d.msg.n < calls'[d.msg.by]
    <3>1. /\ d.msg \in Messages /\ d.msg.by \in Threads /\ d.msg.n \in Nat
          /\ d.msg.n <= calls[d.msg.by]
          /\ pc[d.msg.by] \in Logging => d.msg.n < calls[d.msg.by]
      BY DEF WInv, Old, Messages
    <3>2. CASE d.msg.by = t
      BY <1>1, <1>2, <3>1, <3>2
    <3>3. CASE d.msg.by # t
      BY <1>1, <1>2, <1>4, <3>1, <3>3
    <3>4. QED
      BY <3>2, <3>3
  <2>5. Old'
    BY <1>1, <2>3, <2>4 DEF Old
  <2>6. \A s \in Sinks : msg'[t] \notin Buffered(s)
    <3>1. ASSUME NEW s \in Sinks, NEW k \in flushed[s] + 1 .. Len(stream[s])
          PROVE  stream[s][k].msg # msg'[t]
      <4>1. k \in 1 .. Len(stream[s])
        BY <1>2
      <4>2. QED
        BY <2>3, <4>1
    <3>2. QED
      BY <3>1 DEF Buffered
  <2>7. OneSinkBuffered'
    <3>1. ASSUME NEW u \in Threads \ {t}
          PROVE  pc'[u] = pc[u] /\ i'[u] = i[u] /\ msg'[u] = msg[u]
      BY <1>4 DEF WInv, LInv, Shapes
    <3>2. QED
      BY <1>1, <2>1, <2>6, <3>1 DEF WInv, OneSinkBuffered
  <2>8. DeliveredFlushed'
    BY <1>1, <2>1 DEF WInv, DeliveredFlushed
  <2>9. QED
    BY <2>5, <2>7, <2>8 DEF WInv
<1>5. QED
  BY <1>3, <1>4 DEF log, Goto

\* A warning is in no buffer any more when its call gives the mutex back.
LEMMA WarningsUnlock ==
  ASSUME WInv, LInv', NEW t \in Threads, unlock(t)
  PROVE  WInv'
<1>1. /\ pc[t] = "unlock" /\ pc' = [pc EXCEPT ![t] = "idle"]
      /\ msg' = [msg EXCEPT ![t] = NULL] /\ i' = [i EXCEPT ![t] = 0]
      /\ done' = done \cup {[msg |-> msg[t], to |-> Attached]}
      /\ UNCHANGED <<sinks, stream, flushed, calls>>
  BY DEF unlock, Goto, logger, streams
<1>2. /\ pc \in [Threads -> Places] /\ pc[t] \in Logging
      /\ msg[t] \in Messages /\ msg[t].by = t /\ msg[t].n = calls[t] /\ calls[t] \in Nat
  BY <1>1, MessageIsNew DEF WInv, LInv, Shapes, Numbered, Logging
<1>3. \A s \in Sinks : Buffered(s)' = Buffered(s)
  BY <1>1 DEF Buffered
<1>4. \A u \in Threads : pc'[u] \in Logging =>
        u # t /\ pc[u] \in Logging /\ pc'[u] = pc[u] /\ i'[u] = i[u] /\ msg'[u] = msg[u]
  BY <1>1, <1>2 DEF WInv, LInv, Shapes, Logging, Writing
<1>5. Old'
  BY <1>1, <1>2, <1>4 DEF WInv, Old, Messages
<1>6. OneSinkBuffered'
  BY <1>1, <1>3, <1>4 DEF WInv, OneSinkBuffered
<1>7. DeliveredFlushed'
  <2>1. msg[t].level >= WARN => \A s \in Sinks : msg[t] \notin Buffered(s)
    BY <1>1, <1>2 DEF WInv, OneSinkBuffered
  <2>2. QED
    BY <1>1, <1>3, <2>1 DEF WInv, DeliveredFlushed
<1>8. QED
  BY <1>5, <1>6, <1>7 DEF WInv

LEMMA WStep == WInv /\ [Next]_vars => WInv'
<1> SUFFICES ASSUME WInv, [Next]_vars PROVE WInv'
  OBVIOUS
<1>1. LInv'
  BY LStep DEF WInv
<1>2. /\ \A u \in Threads : calls[u] \in Nat
      /\ \A s \in Sinks : flushed[s] \in Nat /\ Len(stream[s]) \in Nat
                          /\ flushed[s] <= Len(stream[s])
  BY LoggerAssumption DEF WInv, LInv, Shapes
<1>3. pc \in [Threads -> Places]
  BY DEF WInv, LInv, Shapes
<1>4. ASSUME NEW s \in Sinks, add_sink(s) \/ remove_sink(s) PROVE WInv'
  <2>1. \A u \in Threads : pc[u] = "idle"
    BY <1>4, Idle DEF add_sink, remove_sink, WInv
  <2>2. UNCHANGED <<stream, flushed, done, msg, pc, calls>>
    BY <1>4 DEF add_sink, remove_sink, thread, streams
  <2>3. QED
    BY <1>1, <1>2, <2>1, <2>2, WarningsQuietStep DEF Logging, Writing
<1>5. ASSUME NEW level \in Levels \cup {OFF}, set_level(level) PROVE WInv'
  <2>1. UNCHANGED <<stream, flushed, done, msg, pc, i, sinks, calls>>
    BY <1>5 DEF set_level, thread, streams
  <2>2. QED
    BY <1>1, <1>2, <2>1, WarningsQuietStep
<1>6. ASSUME NEW t \in Threads, flush(t) PROVE WInv'
  <2>1. /\ UNCHANGED <<stream, flushed, done, msg, sinks>>
        /\ pc' = [pc EXCEPT ![t] = "flush_lock"] /\ i' = [i EXCEPT ![t] = 1]
        /\ calls' = [calls EXCEPT ![t] = calls[t] + 1]
    BY <1>6 DEF flush, Goto, streams, logger
  <2>2. \A u \in Threads : pc'[u] \in Logging => u # t /\ pc[u] = pc'[u] /\ i'[u] = i[u]
    BY <1>3, <2>1 DEF Logging, Writing, WInv, LInv, Shapes
  <2>3. \A u \in Threads : calls'[u] >= calls[u]
    BY <1>2, <2>1 DEF WInv, LInv, Shapes
  <2>4. QED
    BY <1>1, <1>2, <2>1, <2>2, <2>3, WarningsQuietStep
<1>7. ASSUME NEW t \in Threads,
             \/ lock(t, "lock", "sinks") \/ lock(t, "flush_lock", "flush_sinks")
             \/ next_sink(t) \/ flush_sink(t) \/ flush_unlock(t)
      PROVE  WInv'
  <2>1. /\ UNCHANGED <<stream, done, msg, sinks, calls>>
        /\ pc[t] \notin {"text", "reset", "urgent"}
        /\ pc' = pc \/ \E place \in Places : pc' = [pc EXCEPT ![t] = place]
        /\ pc[t] \notin Logging => pc'[t] \notin Logging
        /\ i' = i \/ \E n \in 0 .. MaxSinks + 1 : i' = [i EXCEPT ![t] = n]
    <3>1. CASE lock(t, "lock", "sinks") \/ lock(t, "flush_lock", "flush_sinks")
      BY <1>3, <3>1 DEF lock, Goto, Logging, Places, Writing, logger, streams
    <3>2. CASE next_sink(t)
      <4>1. i[t] <= sink_count => i[t] + 1 \in 0 .. MaxSinks + 1
        BY <3>2, LoggerAssumption DEF WInv, LInv, Shapes
      <4>2. i[t] \in Int /\ sink_count \in Int
        BY LoggerAssumption DEF WInv, LInv, Shapes
      <4>3. QED
        BY <1>3, <3>2, <4>1, <4>2
           DEF next_sink, Goto, Logging, Places, Writing, logger, streams
    <3>3. CASE flush_sink(t)
      <4>1. i[t] + 1 \in 0 .. MaxSinks + 1
        BY <3>3, LoggerAssumption DEF flush_sink, WInv, LInv, Shapes
      <4>2. QED
        BY <1>3, <3>3, <4>1 DEF flush_sink, Logging, Writing, logger
    <3>4. CASE flush_unlock(t)
      <4>1. 0 \in 0 .. MaxSinks + 1
        BY LoggerAssumption
      <4>2. /\ pc[t] = "flush_sinks" /\ pc' = [pc EXCEPT ![t] = "idle"]
            /\ i' = [i EXCEPT ![t] = 0]
            /\ UNCHANGED <<stream, done, msg, sinks, calls>>
        BY <3>4 DEF flush_unlock, Goto, logger, streams
      <4>3. QED
        BY <1>3, <4>1, <4>2 DEF Logging, Places, Writing
    <3>5. QED
      BY <1>7, <3>1, <3>2, <3>3, <3>4
  <2>2. \A s \in Sinks : flushed'[s] >= flushed[s]
    <3>1. CASE flushed' = flushed
      BY <1>2, <3>1
    <3>2. CASE flush_sink(t)
      BY <1>2, <3>2 DEF flush_sink, WInv, LInv, Shapes
    <3>3. QED
      BY <1>7, <3>1, <3>2 DEF lock, next_sink, flush_unlock, streams
  <2>3. \A u \in Threads \ {t} : pc'[u] = pc[u] /\ i'[u] = i[u]
    BY <1>3, <2>1 DEF WInv, LInv, Shapes
  <2>4. QED
    BY <1>1, <1>2, <2>1, <2>2, <2>3, WarningsQuietStep
<1>8. CASE UNCHANGED vars
  <2>1. UNCHANGED <<stream, flushed, done, msg, pc, i, sinks, calls>>
    BY <1>8 DEF vars, thread, streams, logger
  <2>2. QED
    BY <1>1, <1>2, <2>1, WarningsQuietStep
<1>9. QED
  BY <1>1, <1>4, <1>5, <1>6, <1>7, <1>8, WarningsWritePart, WarningsEndWrite,
     WarningsCallback, WarningsLog, WarningsUnlock
     DEF Next, InCall

\* log.c 199, for any number of threads and sinks: when the call of a warning
\* has returned, no sink has it buffered.
THEOREM WarningsSafe == Spec => []WarningsReachTheStream
<1>1. WInv => WarningsReachTheStream
  BY DEF WInv, DeliveredFlushed, Buffered, WarningsReachTheStream
<1>2. QED
  BY <1>1, WInit, WStep, PTL DEF Spec

-----------------------------------------------------------------------------
(* Messages are whole                                                      *)

\* How many parts of t's message are in the stream of the sink at hand, while
\* they are some and not all.
PartsOut(t) == IF pc[t] = "text" THEN 1 ELSE 2
Amid(t, s)  == pc[t] \in {"text", "reset"} /\ sinks[i[t]] = s

\* Only the message of the thread amid writing to a console is incomplete there.
Incomplete ==
  \A s \in Sinks \ Callbacks :
    \/ \E t \in Threads : /\ Amid(t, s)
                          /\ Len(stream[s]) % 3 = PartsOut(t)
                          /\ stream[s][Len(stream[s])].msg = msg[t]
    \/ Len(stream[s]) % 3 = 0 /\ \A t \in Threads : ~Amid(t, s)

MInv == LInv /\ MessagesWhole /\ Incomplete

LEMMA NextRemainder ==
  ASSUME NEW n \in Nat
  PROVE  /\ n % 3 \in 0 .. 2
         /\ (n + 1) % 3 = IF n % 3 = 2 THEN 0 ELSE (n % 3) + 1
         /\ (n + 1) % 3 # 1 => n # 0 /\ n % 3 # 0
OBVIOUS

LEMMA PartAt ==
  ASSUME NEW r \in 0 .. 2
  PROVE  /\ r = 0 => Parts[r + 1] = "color"
         /\ r = 1 => Parts[r + 1] = "text"
         /\ r = 2 => Parts[r + 1] = "reset"
<1>1. r = 0 \/ r = 1 \/ r = 2
  OBVIOUS
<1>2. QED
  BY <1>1 DEF Parts

LEMMA MInit == Init => MInv
<1>1. Init => LInv
  BY LInit
<1>2. Init => MessagesWhole /\ Incomplete
  BY DEF Init, MessagesWhole, Incomplete, Amid
<1>3. QED
  BY <1>1, <1>2 DEF MInv

LEMMA MQuietStep ==
  ASSUME MInv, LInv', \A s \in Sinks \ Callbacks : stream'[s] = stream[s],
         \A u \in Threads :
           pc[u] \in {"text", "reset"} \/ pc'[u] \in {"text", "reset"} =>
             pc'[u] = pc[u] /\ i'[u] = i[u] /\ msg'[u] = msg[u] /\ sinks' = sinks
  PROVE  MInv'
<1>1. MessagesWhole'
  <2>1. ASSUME NEW s \in Sinks \ Callbacks, NEW k \in 1 .. Len(stream'[s])
        PROVE  /\ stream'[s][k].part = Parts[((k - 1) % 3) + 1]
               /\ k % 3 # 1 => stream'[s][k].msg = stream'[s][k - 1].msg
    <3>1. stream'[s] = stream[s] /\ k \in 1 .. Len(stream[s])
      BY <2>1
    <3>2. QED
      BY <3>1 DEF MInv, MessagesWhole
  <2>2. QED
    BY <2>1 DEF MessagesWhole
<1>2. Incomplete'
  <2>1. ASSUME NEW s \in Sinks \ Callbacks, NEW u \in Threads
        PROVE  /\ Amid(u, s)' <=> Amid(u, s)
               /\ Amid(u, s) => PartsOut(u)' = PartsOut(u) /\ msg'[u] = msg[u]
    BY DEF Amid, PartsOut
  <2>2. ASSUME NEW s \in Sinks \ Callbacks
        PROVE  \/ \E t \in Threads : /\ Amid(t, s)'
                                     /\ Len(stream'[s]) % 3 = PartsOut(t)'
                                     /\ stream'[s][Len(stream'[s])].msg = msg'[t]
               \/ Len(stream'[s]) % 3 = 0 /\ \A t \in Threads : ~Amid(t, s)'
    <3>1. stream'[s] = stream[s]
      BY <2>2
    <3>2. QED
      BY <2>1, <3>1 DEF MInv, Incomplete
  <2>3. QED
    BY <2>2 DEF Incomplete
<1>3. QED
  BY <1>1, <1>2 DEF MInv

LEMMA MWritePart ==
  ASSUME MInv, LInv', NEW t \in Threads,
         NEW part \in {"color", "text", "reset"}, NEW next \in {"text", "reset", "urgent"},
         <<part, next>> \in {<<"color", "text">>, <<"text", "reset">>, <<"reset", "urgent">>},
         write_part(t, part, next)
  PROVE  MInv'
<1>0. PICK s \in Sinks \ Callbacks : s = sinks[i[t]]
  <2>1. /\ i[t] \in 1 .. sink_count /\ sinks[i[t]] \notin Callbacks
    BY DEF write_part, MInv, LInv, Turns, Writing
  <2>2. sink_count \in 0 .. MaxSinks /\ i[t] \in 1 .. MaxSinks
    BY <2>1, LoggerAssumption DEF MInv, LInv, Shapes
  <2>3. sinks[i[t]] \in Sinks \cup {NULL} /\ sinks[i[t]] # NULL
    BY <2>1, <2>2 DEF MInv, LInv, Shapes, SinkArrayPacked
  <2>4. QED
    BY <2>1, <2>3
<1> DEFINE p == [part |-> part, msg |-> msg[t]]
           n == Len(stream[s])
<1>1. /\ pc[t] = part /\ pc' = [pc EXCEPT ![t] = next]
      /\ UNCHANGED <<sinks, i, msg>>
      /\ stream' = [stream EXCEPT ![s] = Append(@, p)]
  BY <1>0 DEF write_part, Goto, Emit, logger
<1>2. /\ pc \in [Threads -> Places] /\ stream \in [Sinks -> Seq(Pieces)] /\ n \in Nat
  <2>1. pc \in [Threads -> Places] /\ stream \in [Sinks -> Seq(Pieces)]
    BY DEF MInv, LInv, Shapes
  <2>2. stream[s] \in Seq(Pieces)
    BY <2>1
  <2>3. QED
    BY <2>1, <2>2
<1>3. \A u \in Threads \ {t} : pc[u] \notin {"text", "reset"} /\ pc'[u] = pc[u]
  BY <1>1, <1>2 DEF MInv, LInv, Exclusion, Locked, Writing
<1>4. p \in Pieces
  BY <1>1 DEF MInv, LInv, Numbered, Logging, Writing, Pieces
<1>5. /\ stream'[s] = Append(stream[s], p) /\ Len(stream'[s]) = n + 1
      /\ stream'[s][n + 1] = p /\ \A k \in 1 .. n : stream'[s][k] = stream[s][k]
      /\ \A r \in Sinks \ {s} : stream'[r] = stream[r]
  BY <1>1, <1>2, <1>4
<1>6. /\ part = "color" => n % 3 = 0
      /\ part = "text" => n % 3 = 1
      /\ part = "reset" => n % 3 = 2
      /\ part # "color" => stream[s][n].msg = msg[t]
  <2>1. CASE part = "color"
    BY <1>1, <1>3, <2>1 DEF MInv, Incomplete, Amid
  <2>2. CASE part # "color"
    BY <1>0, <1>1, <1>3, <2>2 DEF MInv, Incomplete, Amid, PartsOut
  <2>3. QED
    BY <2>1, <2>2
<1>7. MessagesWhole'
  <2>1. ASSUME NEW r \in Sinks \ Callbacks, NEW k \in 1 .. Len(stream'[r])
        PROVE  /\ stream'[r][k].part = Parts[((k - 1) % 3) + 1]
               /\ k % 3 # 1 => stream'[r][k].msg = stream'[r][k - 1].msg
    <3>1. CASE r # s
      <4>1. stream'[r] = stream[r] /\ k \in 1 .. Len(stream[r])
        BY <1>5, <2>1, <3>1
      <4>2. QED
        BY <4>1 DEF MInv, MessagesWhole
    <3>2. CASE r = s /\ k \in 1 .. n
      <4>1. /\ stream[s][k].part = Parts[((k - 1) % 3) + 1]
            /\ k % 3 # 1 => stream[s][k].msg = stream[s][k - 1].msg
        BY <3>2 DEF MInv, MessagesWhole
      <4>2. k % 3 # 1 => k - 1 \in 1 .. n
        <5>1. k - 1 \in Nat /\ k = (k - 1) + 1
          BY <1>2, <3>2
        <5>2. k % 3 # 1 => k - 1 # 0
          BY <5>1, NextRemainder
        <5>3. QED
          BY <1>2, <3>2, <5>1, <5>2
      <4>3. QED
        BY <1>5, <3>2, <4>1, <4>2
    <3>3. CASE r = s /\ k = n + 1
      <4>1. stream'[r][k].part = part /\ stream'[r][k].msg = msg[t] /\ k - 1 = n
        BY <1>2, <1>5, <3>3
      <4>2. part = Parts[(n % 3) + 1]
        <5>1. n % 3 \in 0 .. 2
          BY <1>2, NextRemainder
        <5>2. /\ n % 3 = 0 => Parts[(n % 3) + 1] = "color"
              /\ n % 3 = 1 => Parts[(n % 3) + 1] = "text"
              /\ n % 3 = 2 => Parts[(n % 3) + 1] = "reset"
          BY <5>1, PartAt
        <5>3. CASE part = "color"
          BY <1>6, <5>2, <5>3
        <5>4. CASE part = "text"
          BY <1>6, <5>2, <5>4
        <5>5. CASE part = "reset"
          BY <1>6, <5>2, <5>5
        <5>6. QED
          BY <5>3, <5>4, <5>5
      <4>3. k % 3 # 1 => n % 3 # 0 /\ n \in 1 .. n
        BY <1>2, <3>3, NextRemainder
      <4>4. k % 3 # 1 => stream'[r][k - 1].msg = msg[t]
        BY <1>2, <1>5, <1>6, <3>3, <4>1, <4>3
      <4>5. QED
        BY <4>1, <4>2, <4>4
    <3>4. QED
      BY <1>2, <1>5, <2>1, <3>1, <3>2, <3>3
  <2>2. QED
    BY <2>1 DEF MessagesWhole
<1>8. Incomplete'
  <2>1. ASSUME NEW r \in Sinks \ Callbacks, r # s
        PROVE  Len(stream'[r]) % 3 = 0 /\ \A u \in Threads : ~Amid(u, r)'
    BY <1>0, <1>1, <1>2, <1>3, <1>5, <2>1 DEF MInv, Incomplete, Amid
  <2>2. CASE next = "urgent"
    <3>1. Len(stream'[s]) % 3 = 0
      BY <1>2, <1>5, <1>6, <2>2, NextRemainder
    <3>2. \A u \in Threads : ~Amid(u, s)'
      BY <1>1, <1>2, <1>3, <2>2 DEF Amid
    <3>3. QED
      BY <2>1, <3>1, <3>2 DEF Incomplete
  <2>3. CASE next # "urgent"
    <3>1. pc'[t] = next /\ Amid(t, s)'
      BY <1>0, <1>1, <1>2, <2>3 DEF Amid
    <3>2. Len(stream'[s]) % 3 = PartsOut(t)'
      BY <1>2, <1>5, <1>6, <2>3, <3>1, NextRemainder DEF PartsOut
    <3>3. stream'[s][Len(stream'[s])].msg = msg'[t]
      BY <1>1, <1>5
    <3>4. QED
      BY <2>1, <3>1, <3>2, <3>3 DEF Incomplete
  <2>4. QED
    BY <2>2, <2>3
<1>9. QED
  BY <1>7, <1>8 DEF MInv

LEMMA MStep == MInv /\ [Next]_vars => MInv'
<1> SUFFICES ASSUME MInv, [Next]_vars PROVE MInv'
  OBVIOUS
<1>1. LInv'
  BY LStep DEF MInv
<1>2. pc \in [Threads -> Places]
  BY DEF MInv, LInv, Shapes
<1>3. ASSUME NEW s \in Sinks, add_sink(s) \/ remove_sink(s) PROVE MInv'
  <2>1. \A u \in Threads : pc[u] = "idle"
    BY <1>3, Idle DEF add_sink, remove_sink, MInv
  <2>2. UNCHANGED <<stream, pc>>
    BY <1>3 DEF add_sink, remove_sink, thread, streams
  <2>3. QED
    BY <1>1, <2>1, <2>2, MQuietStep
<1>4. ASSUME NEW level \in Levels \cup {OFF}, set_level(level) PROVE MInv'
  BY <1>1, <1>4, MQuietStep DEF set_level, thread, streams
<1>5. ASSUME NEW t \in Threads,
             UNCHANGED sinks, \A s \in Sinks \ Callbacks : stream'[s] = stream[s],
             pc[t] \notin {"text", "reset"}, pc'[t] \notin {"text", "reset"},
             \A u \in Threads \ {t} : pc'[u] = pc[u] /\ i'[u] = i[u] /\ msg'[u] = msg[u]
      PROVE  MInv'
  BY <1>1, <1>5, MQuietStep
<1>6. ASSUME NEW t \in Threads,
             \/ lock(t, "lock", "sinks") \/ lock(t, "flush_lock", "flush_sinks")
             \/ next_sink(t) \/ end_write(t) \/ callback(t) \/ unlock(t)
             \/ flush_sink(t) \/ flush_unlock(t) \/ flush(t)
             \/ \E level \in Levels : log(t, level)
      PROVE  MInv'
  <2>1. /\ i = [u \in Threads |-> i[u]] /\ msg = [u \in Threads |-> msg[u]]
        /\ stream = [s \in Sinks |-> stream[s]]
    BY DEF MInv, LInv, Shapes
  <2>2. /\ UNCHANGED sinks
        /\ pc[t] \notin {"text", "reset"} /\ pc'[t] \notin {"text", "reset"}
    BY <1>2, <1>6
       DEF lock, next_sink, end_write, callback, unlock, flush_sink, flush_unlock, flush,
           log, Goto, logger, thread
  <2>3. \A u \in Threads \ {t} : pc'[u] = pc[u] /\ i'[u] = i[u] /\ msg'[u] = msg[u]
    BY <1>2, <1>6, <2>1
       DEF lock, next_sink, end_write, callback, unlock, flush_sink, flush_unlock, flush,
           log, Goto, logger, thread
  <2>4. \A s \in Sinks \ Callbacks : stream'[s] = stream[s]
    <3>1. CASE callback(t)
      <4>1. pc[t] = "callback" /\ sinks[i[t]] \in Callbacks
        BY <3>1 DEF callback, MInv, LInv, Turns, Writing
      <4>2. stream' = [stream EXCEPT ![sinks[i[t]]] =
                         Append(@, [part |-> "text", msg |-> msg[t]])]
        BY <3>1 DEF callback, Emit
      <4>3. QED
        BY <2>1, <4>1, <4>2
    <3>2. CASE UNCHANGED stream
      BY <3>2
    <3>3. QED
      BY <1>6, <3>1, <3>2
         DEF lock, next_sink, end_write, unlock, flush_sink, flush_unlock, flush, log, streams
  <2>5. QED
    BY <1>5, <2>2, <2>3, <2>4
<1>7. CASE UNCHANGED vars
  BY <1>1, <1>7, MQuietStep DEF vars, thread, streams, logger
<1>8. ASSUME NEW t \in Threads,
             \/ write_part(t, "color", "text") \/ write_part(t, "text", "reset")
             \/ write_part(t, "reset", "urgent")
      PROVE  MInv'
  BY <1>1, <1>8, MWritePart
<1>9. QED
  BY <1>3, <1>4, <1>6, <1>7, <1>8 DEF Next, InCall

\* On every console the parts of a message follow each other, for any number of
\* threads and consoles (log.c 191-202 under the lock of 560).
THEOREM MessagesStayWhole == Spec => []MessagesWhole
BY MInit, MStep, PTL DEF Spec, MInv

-----------------------------------------------------------------------------
(* Delivery                                                                *)

\* The places of a list that hold an element.
Uses(list, n, e) == {k \in 1 .. n : list[k] = e}

\* How often a message's text is in a stream.
TextOf(m)     == [part |-> "text", msg |-> m]
Texts(str, m) == Cardinality(Uses(str, Len(str), TextOf(m)))

\* The last place of the array the message of a thread in the sink loop has
\* gone to, or passed by.
Behind(t) == IF pc[t] \in {"reset", "urgent"} THEN i[t] ELSE i[t] - 1

\* How often a message that has been to n places of a list of sinks is in a sink.
Wanted(m, list, n, s) ==
  IF m.level < SinkLevel[s] THEN 0 ELSE Cardinality(Uses(list, n, s))

\* The sink loop ends behind the last sink, and writes to sinks that want the
\* message.
InTurn ==
  \A t \in Threads :
    /\ pc[t] = "unlock" => i[t] = sink_count + 1
    /\ pc[t] \in Writing => msg[t].level >= SinkLevel[sinks[i[t]]]

WrittenSoFar ==
  \A t \in Threads : pc[t] \in Logging =>
    \A s \in Sinks : Texts(stream[s], msg[t]) = Wanted(msg[t], sinks, Behind(t), s)

Delivered ==
  \A d \in done : \A s \in Sinks : Texts(stream[s], d.msg) = Wanted(d.msg, d.to, Len(d.to), s)

DInv == WInv /\ InTurn /\ WrittenSoFar /\ Delivered

LEMMA UsesFinite ==
  ASSUME NEW list, NEW n \in Nat, NEW e
  PROVE  IsFiniteSet(Uses(list, n, e)) /\ Cardinality(Uses(list, n, e)) \in Nat
<1>1. IsFiniteSet(1 .. n) /\ Uses(list, n, e) \in SUBSET (1 .. n)
  BY FS_Interval DEF Uses
<1>2. IsFiniteSet(Uses(list, n, e))
  BY <1>1, FS_Subset
<1> QED
  BY <1>2, FS_CardinalityType

LEMMA NoUses == ASSUME NEW list, NEW e PROVE Cardinality(Uses(list, 0, e)) = 0
<1>1. Uses(list, 0, e) = {}
  BY DEF Uses
<1> QED
  BY <1>1, FS_EmptySet

LEMMA OneMoreUse ==
  ASSUME NEW list, NEW n \in Nat, NEW e
  PROVE  Cardinality(Uses(list, n + 1, e)) =
           Cardinality(Uses(list, n, e)) + (IF list[n + 1] = e THEN 1 ELSE 0)
<1>1. CASE list[n + 1] = e
  <2>1. Uses(list, n + 1, e) = Uses(list, n, e) \cup {n + 1} /\ n + 1 \notin Uses(list, n, e)
    BY <1>1 DEF Uses
  <2> QED
    BY <1>1, <2>1, UsesFinite, FS_AddElement
<1>2. CASE list[n + 1] # e
  <2>1. Uses(list, n + 1, e) = Uses(list, n, e)
    BY <1>2 DEF Uses
  <2> QED
    BY <1>2, <2>1, UsesFinite
<1> QED
  BY <1>1, <1>2

LEMMA TextsType == ASSUME NEW str \in Seq(Pieces), NEW m PROVE Texts(str, m) \in Nat
BY UsesFinite DEF Texts

\* A piece written is one copy more of its message if it is the text, and no
\* copy of another.
LEMMA TextsGrow ==
  ASSUME NEW str \in Seq(Pieces), NEW p \in Pieces, NEW m
  PROVE  Texts(Append(str, p), m) = Texts(str, m) + (IF p = TextOf(m) THEN 1 ELSE 0)
<1> DEFINE n == Len(str)
           longer == Append(str, p)
           e == TextOf(m)
<1>1. /\ n \in Nat /\ Len(longer) = n + 1 /\ longer[n + 1] = p
      /\ \A k \in 1 .. n : longer[k] = str[k]
  OBVIOUS
<1>2. Uses(longer, n, e) = Uses(str, n, e)
  BY <1>1 DEF Uses
<1> HIDE DEF longer, n, e
<1>3. Cardinality(Uses(longer, n + 1, e)) =
        Cardinality(Uses(longer, n, e)) + (IF longer[n + 1] = e THEN 1 ELSE 0)
  BY <1>1, OneMoreUse
<1> QED
  BY <1>1, <1>2, <1>3 DEF Texts, longer, n, e

LEMMA DInit == Init => DInv
BY WInit DEF Init, DInv, InTurn, WrittenSoFar, Delivered, Logging, Writing

\* A step that writes nothing and delivers no message, and lets no thread leave
\* a sink without its text.
LEMMA DeliveryQuietStep ==
  ASSUME DInv, WInv', UNCHANGED <<stream, done>>,
         \A u \in Threads : pc'[u] \in Logging =>
           /\ pc[u] \in Logging /\ msg'[u] = msg[u]
           /\ sinks' = sinks /\ sink_count' = sink_count
           /\ \A s \in Sinks : Wanted(msg[u], sinks, Behind(u)', s) = Wanted(msg[u], sinks, Behind(u), s)
           /\ pc'[u] = "unlock" => i'[u] = sink_count + 1
           /\ pc'[u] \in Writing => msg[u].level >= SinkLevel[sinks[i'[u]]]
  PROVE  DInv'
<1>1. InTurn'
  BY DEF InTurn, Logging
<1>2. ASSUME NEW u \in Threads, pc'[u] \in Logging, NEW s \in Sinks
      PROVE  Texts(stream'[s], msg'[u]) = Wanted(msg'[u], sinks', Behind(u)', s)
  <2>1. Texts(stream[s], msg[u]) = Wanted(msg[u], sinks, Behind(u), s)
    BY <1>2 DEF DInv, WrittenSoFar
  <2> QED
    BY <1>2, <2>1
<1>3. WrittenSoFar'
  BY <1>2 DEF WrittenSoFar
<1>4. Delivered'
  BY DEF DInv, Delivered
<1> QED
  BY <1>1, <1>3, <1>4 DEF DInv

LEMMA AtItsSink ==
  ASSUME LInv, NEW t \in Threads, pc[t] \in Writing
  PROVE  /\ i[t] \in 1 .. sink_count /\ sink_count \in 0 .. MaxSinks /\ i[t] \in Nat \ {0}
         /\ sinks[i[t]] \in Sinks /\ msg[t] \in Messages
BY LoggerAssumption DEF LInv, Shapes, SinkArrayPacked, Turns, Numbered, Writing, Logging

\* A step that writes a part of a message to the sink at hand.
LEMMA DeliveryWrite ==
  ASSUME DInv, WInv', NEW t \in Threads, NEW s \in Sinks, NEW p \in Pieces,
         pc[t] \in Writing, s = sinks[i[t]], p.msg = msg[t],
         stream' = [stream EXCEPT ![s] = Append(@, p)],
         UNCHANGED <<sinks, sink_count, msg, done>>,
         pc'[t] \in Writing \cup {"sinks"}, pc'[t] # "sinks" => i'[t] = i[t],
         Behind(t)' = Behind(t) + (IF p.part = "text" THEN 1 ELSE 0),
         p.part = "text" => Behind(t) = i[t] - 1,
         \A u \in Threads \ {t} : pc'[u] = pc[u] /\ i'[u] = i[u]
  PROVE  DInv'
<1>1. LInv /\ Old /\ pc[t] \in Logging /\ stream \in [Sinks -> Seq(Pieces)]
  BY DEF DInv, WInv, Logging, LInv, Shapes
<1>2. /\ \A r \in Sinks \ {s} : stream'[r] = stream[r]
      /\ stream'[s] = Append(stream[s], p)
  BY <1>1
<1>3. ASSUME NEW r \in Sinks, NEW m, m # msg[t] PROVE Texts(stream'[r], m) = Texts(stream[r], m)
  <2>1. p # TextOf(m)
    BY <1>3 DEF TextOf
  <2> QED
    BY <1>1, <1>2, <2>1, TextsType, TextsGrow
<1>4. InTurn'
  BY DEF DInv, InTurn, Writing
<1>5. /\ i[t] \in Nat \ {0} /\ msg[t] \in Messages /\ ~(msg[t].level < SinkLevel[s])
  <2>1. i[t] \in Nat \ {0} /\ msg[t] \in Messages /\ msg[t].level >= SinkLevel[s]
    BY <1>1, AtItsSink DEF DInv, InTurn
  <2>2. SinkLevel[s] \in Int /\ msg[t].level \in Int
    BY <2>1, LoggerAssumption DEF Messages, Levels
  <2> QED
    BY <2>1, <2>2
<1>6. ASSUME NEW r \in Sinks
      PROVE  Texts(stream'[r], msg[t]) = Wanted(msg[t], sinks, Behind(t)', r)
  <2>1. Texts(stream[r], msg[t]) = Wanted(msg[t], sinks, Behind(t), r)
    BY <1>1 DEF DInv, WrittenSoFar
  <2>2. Texts(stream[r], msg[t]) \in Nat /\ Behind(t) \in Nat
    BY <1>1, <1>5, TextsType DEF Behind
  <2>3. CASE p.part # "text"
    <3>1. p # TextOf(msg[t])
      BY <2>3 DEF TextOf
    <3>2. Texts(stream'[r], msg[t]) = Texts(stream[r], msg[t])
      BY <1>1, <1>2, <2>2, <3>1, TextsGrow
    <3> QED
      BY <2>1, <2>2, <2>3, <3>2
  <2>4. CASE p.part = "text"
    <3>1. p = TextOf(msg[t])
      BY <2>4 DEF TextOf, Pieces
    <3>2. Behind(t) = i[t] - 1 /\ Behind(t)' = i[t]
      BY <1>5, <2>4
    <3>3. Cardinality(Uses(sinks, i[t], r)) =
            Cardinality(Uses(sinks, i[t] - 1, r)) + (IF sinks[i[t]] = r THEN 1 ELSE 0)
      <4>1. i[t] - 1 \in Nat /\ i[t] - 1 + 1 = i[t]
        BY <1>5
      <4> QED
        BY <4>1, OneMoreUse
    <3>4. CASE r = s
      <4>1. Texts(stream'[s], msg[t]) = Texts(stream[s], msg[t]) + 1
        BY <1>1, <1>2, <3>1, TextsGrow
      <4> QED
        BY <1>5, <2>1, <3>2, <3>3, <3>4, <4>1 DEF Wanted
    <3>5. CASE r # s
      <4>1. Cardinality(Uses(sinks, i[t] - 1, r)) \in Nat
        BY <1>5, UsesFinite
      <4>2. Cardinality(Uses(sinks, i[t], r)) = Cardinality(Uses(sinks, i[t] - 1, r))
        BY <3>3, <3>5, <4>1
      <4> QED
        BY <1>2, <2>1, <3>2, <3>5, <4>2 DEF Wanted
    <3> QED
      BY <3>4, <3>5
  <2> QED
    BY <2>3, <2>4
<1>7. ASSUME NEW u \in Threads, pc'[u] \in Logging, NEW r \in Sinks
      PROVE  Texts(stream'[r], msg'[u]) = Wanted(msg'[u], sinks', Behind(u)', r)
  <2>1. CASE u = t
    BY <1>6, <2>1
  <2>2. CASE u # t
    <3>1. pc[u] \in Logging /\ Behind(u)' = Behind(u) /\ msg[u] # msg[t]
      BY <1>1, <1>7, <2>2, MessageIsNew DEF Behind
    <3>2. Texts(stream[r], msg[u]) = Wanted(msg[u], sinks, Behind(u), r)
      BY <3>1 DEF DInv, WrittenSoFar
    <3> QED
      BY <1>3, <3>1, <3>2
  <2> QED
    BY <2>1, <2>2
<1>8. WrittenSoFar'
  BY <1>7 DEF WrittenSoFar
<1>9. Delivered'
  <2>1. ASSUME NEW d \in done, NEW r \in Sinks PROVE Texts(stream'[r], d.msg) = Texts(stream[r], d.msg)
    BY <1>1, <1>3, MessageIsNew
  <2> QED
    BY <2>1 DEF DInv, Delivered
<1> QED
  BY <1>4, <1>8, <1>9 DEF DInv

\* The three parts written to a console and what a callback is handed.
LEMMA DeliveryParts ==
  ASSUME DInv, WInv', NEW t \in Threads,
         \/ write_part(t, "color", "text") \/ write_part(t, "text", "reset")
         \/ write_part(t, "reset", "urgent") \/ callback(t)
  PROVE  DInv'
<1>1. PICK part \in {"color", "text", "reset"}, place \in {"text", "reset", "urgent", "sinks"} :
        /\ pc[t] \in {part, "callback"}
        /\ pc' = [pc EXCEPT ![t] = place] /\ Emit(t, part)
        /\ UNCHANGED <<sinks, sink_count, msg, done>>
        /\ \/ /\ UNCHANGED i
              /\ <<pc[t], part, place>> \in {<<"color", "color", "text">>, <<"text", "text", "reset">>,
                                             <<"reset", "reset", "urgent">>}
           \/ /\ i' = [i EXCEPT ![t] = i[t] + 1]
              /\ <<pc[t], part, place>> = <<"callback", "text", "sinks">>
  <2>1. CASE write_part(t, "color", "text")
    BY <2>1 DEF write_part, Goto, logger
  <2>2. CASE write_part(t, "text", "reset")
    BY <2>2 DEF write_part, Goto, logger
  <2>3. CASE write_part(t, "reset", "urgent")
    BY <2>3 DEF write_part, Goto, logger
  <2>4. CASE callback(t)
    BY <2>4 DEF callback, Goto, logger
  <2> QED
    BY <2>1, <2>2, <2>3, <2>4
<1>2. LInv /\ pc \in [Threads -> Places] /\ i \in [Threads -> 0 .. MaxSinks + 1] /\ pc[t] \in Writing
  BY <1>1 DEF DInv, WInv, LInv, Shapes, Writing
<1>3. PICK s \in Sinks : s = sinks[i[t]] /\ i[t] \in Nat \ {0}
  BY <1>2, AtItsSink
<1>4. PICK p \in Pieces : p = [part |-> part, msg |-> msg[t]]
  <2>1. [part |-> part, msg |-> msg[t]] \in Pieces
    BY <1>2, AtItsSink DEF Pieces
  <2> QED
    BY <2>1
<1>5. p.msg = msg[t] /\ p.part = part
  BY <1>4
<1>6. stream' = [stream EXCEPT ![s] = Append(@, p)]
  BY <1>1, <1>3, <1>4 DEF Emit
<1>7. \A u \in Threads \ {t} : pc'[u] = pc[u] /\ i'[u] = i[u]
  BY <1>1, <1>2
<1>8. pc'[t] \in Writing \cup {"sinks"} /\ (pc'[t] # "sinks" => i'[t] = i[t])
  BY <1>1, <1>2 DEF Writing
<1>9. p.part = "text" => Behind(t) = i[t] - 1
  BY <1>1, <1>2, <1>5 DEF Behind
<1>10. Behind(t)' = Behind(t) + (IF p.part = "text" THEN 1 ELSE 0)
  BY <1>1, <1>2, <1>3, <1>5 DEF Behind
<1>11. sinks' = sinks /\ sink_count' = sink_count /\ msg' = msg /\ done' = done
  BY <1>1
<1> QED
  BY <1>2, <1>3, <1>5, <1>6, <1>7, <1>8, <1>9, <1>10, <1>11, DeliveryWrite

\* The head of the sink loop: a sink that is passed by wants no copy.
LEMMA DeliveryNextSink ==
  ASSUME DInv, WInv', NEW t \in Threads, next_sink(t)
  PROVE  DInv'
<1>1. LInv /\ pc \in [Threads -> Places] /\ i \in [Threads -> 0 .. MaxSinks + 1]
  BY DEF DInv, WInv, LInv, Shapes
<1>2. /\ pc[t] = "sinks" /\ UNCHANGED <<sinks, sink_count, msg, stream, done>>
      /\ i[t] \in 1 .. sink_count + 1 /\ sink_count \in 0 .. MaxSinks /\ msg[t] \in Messages
  BY DEF next_sink, logger, streams, DInv, WInv, LInv, Shapes, Turns, Numbered, Logging
<1>3. i[t] \in Nat \ {0} /\ sink_count \in Nat /\ Behind(t) = i[t] - 1
  BY <1>2, LoggerAssumption DEF Behind
<1>4. ASSUME NEW u \in Threads \ {t}, pc'[u] = pc[u], i'[u] = i[u], pc[u] \in Logging
      PROVE  /\ Behind(u)' = Behind(u)
             /\ pc'[u] = "unlock" => i'[u] = sink_count + 1
             /\ pc'[u] \in Writing => msg[u].level >= SinkLevel[sinks[i'[u]]]
  BY <1>4 DEF Behind, DInv, InTurn
<1>5. CASE i[t] > sink_count /\ pc' = [pc EXCEPT ![t] = "unlock"] /\ UNCHANGED i
  <2>1. \A u \in Threads \ {t} : pc'[u] = pc[u] /\ i'[u] = i[u]
    BY <1>1, <1>5
  <2>2. pc'[t] = "unlock" /\ i'[t] = sink_count + 1 /\ Behind(t)' = Behind(t)
    BY <1>1, <1>2, <1>3, <1>5 DEF Behind
  <2> QED
    BY <1>2, <1>4, <2>1, <2>2, DeliveryQuietStep DEF Logging, Writing
<1>6. CASE /\ i[t] <= sink_count /\ i' = [i EXCEPT ![t] = i[t] + 1] /\ UNCHANGED pc
           /\ sinks[i[t]] = NULL \/ msg[t].level < SinkLevel[sinks[i[t]]]
  <2>1. \A u \in Threads \ {t} : pc'[u] = pc[u] /\ i'[u] = i[u]
    BY <1>1, <1>6
  <2>2. pc'[t] = "sinks" /\ Behind(t)' = i[t]
    BY <1>1, <1>2, <1>3, <1>6 DEF Behind
  <2>3. sinks[i[t]] # NULL
    BY <1>1, <1>2, <1>6, LoggerAssumption DEF LInv, Shapes, SinkArrayPacked
  <2>4. ASSUME NEW s \in Sinks PROVE Wanted(msg[t], sinks, i[t], s) = Wanted(msg[t], sinks, i[t] - 1, s)
    <3>1. /\ i[t] - 1 \in Nat /\ i[t] - 1 + 1 = i[t]
          /\ Cardinality(Uses(sinks, i[t] - 1, s)) \in Nat
      BY <1>3, UsesFinite
    <3>2. Cardinality(Uses(sinks, i[t], s)) =
            Cardinality(Uses(sinks, i[t] - 1, s)) + (IF sinks[i[t]] = s THEN 1 ELSE 0)
      BY <3>1, OneMoreUse
    <3>3. CASE sinks[i[t]] = s
      BY <1>6, <2>3, <3>3 DEF Wanted
    <3>4. CASE sinks[i[t]] # s
      <4>1. Cardinality(Uses(sinks, i[t], s)) = Cardinality(Uses(sinks, i[t] - 1, s))
        BY <3>1, <3>2, <3>4
      <4> QED
        BY <4>1 DEF Wanted
    <3> QED
      BY <3>3, <3>4
  <2> QED
    BY <1>2, <1>3, <1>4, <2>1, <2>2, <2>4, DeliveryQuietStep DEF Logging, Writing
<1>7. CASE /\ i[t] <= sink_count /\ UNCHANGED i /\ ~(msg[t].level < SinkLevel[sinks[i[t]]])
           /\ sinks[i[t]] # NULL
           /\ \E place \in {"callback", "color"} : pc' = [pc EXCEPT ![t] = place]
  <2>1. \A u \in Threads \ {t} : pc'[u] = pc[u] /\ i'[u] = i[u]
    BY <1>1, <1>7
  <2>2. pc'[t] \in {"callback", "color"} /\ i'[t] = i[t] /\ Behind(t)' = Behind(t)
    BY <1>1, <1>2, <1>7 DEF Behind
  <2>3. msg[t].level >= SinkLevel[sinks[i[t]]]
    <3>1. sinks[i[t]] \in Sinks
      BY <1>1, <1>2, <1>3, <1>7, LoggerAssumption DEF LInv, Shapes
    <3>2. SinkLevel[sinks[i[t]]] \in Int /\ msg[t].level \in Int
      BY <1>2, <3>1, LoggerAssumption DEF Messages, Levels
    <3> QED
      BY <1>7, <3>2
  <2> QED
    BY <1>2, <1>4, <2>1, <2>2, <2>3, DeliveryQuietStep DEF Logging, Writing
<1>8. CASE i[t] > sink_count
  BY <1>5, <1>8 DEF next_sink, Goto
<1>9. CASE ~(i[t] > sink_count)
  <2>1. i[t] <= sink_count
    BY <1>3, <1>9
  <2> QED
    BY <1>6, <1>7, <1>9, <2>1 DEF next_sink, Goto
<1> QED
  BY <1>8, <1>9

\* A message is new to every stream when its call begins.
LEMMA NewMessage ==
  ASSUME LInv, Old, NEW t \in Threads, NEW m, m.by = t, m.n = calls[t] + 1,
         NEW s \in Sinks, NEW k \in 1 .. Len(stream[s])
  PROVE  stream[s][k].msg # m
<1>1. stream[s][k] \in Pieces
  BY DEF LInv, Shapes
<1>2. stream[s][k].msg.by \in Threads /\ stream[s][k].msg.n \in Nat
  BY <1>1 DEF Pieces, Messages
<1>3. stream[s][k].msg.n <= calls[stream[s][k].msg.by]
  BY DEF Old
<1>4. calls[t] \in Nat
  BY LoggerAssumption DEF LInv, Shapes
<1> QED
  BY <1>2, <1>3, <1>4

LEMMA DeliveryLog ==
  ASSUME DInv, WInv', NEW t \in Threads, NEW level \in Levels, log(t, level)
  PROVE  DInv'
<1>1. /\ LInv /\ Old /\ pc \in [Threads -> Places] /\ i \in [Threads -> 0 .. MaxSinks + 1]
      /\ msg \in [Threads -> Messages \cup {NULL}] /\ stream \in [Sinks -> Seq(Pieces)]
  BY DEF DInv, WInv, LInv, Shapes
<1>2. /\ pc[t] = "idle" /\ UNCHANGED <<sinks, sink_count, stream, done>>
      /\ calls' = [calls EXCEPT ![t] = calls[t] + 1]
  BY DEF log, logger, streams
<1>3. CASE UNCHANGED thread
  <2>1. UNCHANGED <<pc, msg, i>>
    BY <1>3 DEF thread
  <2>2. \A u \in Threads : Behind(u)' = Behind(u)
    BY <2>1 DEF Behind
  <2> QED
    BY <1>2, <2>1, <2>2, DeliveryQuietStep DEF DInv, InTurn
<1>4. ASSUME NEW m, m = [by |-> t, n |-> calls'[t], level |-> level],
             msg' = [msg EXCEPT ![t] = m], i' = [i EXCEPT ![t] = 1], pc' = [pc EXCEPT ![t] = "lock"]
      PROVE  DInv'
  <2>1. m.by = t /\ m.n = calls[t] + 1
    BY <1>2, <1>4 DEF DInv, WInv, LInv, Shapes
  <2>2. \A u \in Threads \ {t} : pc'[u] = pc[u] /\ i'[u] = i[u] /\ msg'[u] = msg[u] /\ Behind(u)' = Behind(u)
    BY <1>1, <1>4 DEF Behind
  <2>3. pc'[t] = "lock" /\ msg'[t] = m /\ Behind(t)' = 0
    BY <1>1, <1>4 DEF Behind
  <2>4. ASSUME NEW s \in Sinks PROVE Texts(stream[s], m) = 0
    <3>1. ASSUME NEW k \in 1 .. Len(stream[s]) PROVE stream[s][k] # TextOf(m)
      <4>1. stream[s][k].msg # m
        BY <1>1, <2>1, NewMessage
      <4>2. TextOf(m).msg = m
        BY DEF TextOf
      <4> QED
        BY <4>1, <4>2
    <3>2. Uses(stream[s], Len(stream[s]), TextOf(m)) = {}
      BY <3>1 DEF Uses
    <3> QED
      BY <3>2, FS_EmptySet DEF Texts
  <2>5. \A s \in Sinks : Wanted(m, sinks, 0, s) = 0
    BY NoUses DEF Wanted
  <2>6. InTurn'
    BY <1>2, <2>2, <2>3 DEF DInv, InTurn, Writing
  <2>7. WrittenSoFar'
    BY <1>2, <2>2, <2>3, <2>4, <2>5 DEF DInv, WrittenSoFar
  <2>8. Delivered'
    BY <1>2 DEF DInv, Delivered
  <2> QED
    BY <2>6, <2>7, <2>8 DEF DInv
<1> QED
  BY <1>3, <1>4 DEF log, Goto

\* When a call returns its message has been to every place of the array.
LEMMA DeliveryUnlock ==
  ASSUME DInv, WInv', NEW t \in Threads, unlock(t)
  PROVE  DInv'
<1>1. /\ LInv /\ Old /\ pc \in [Threads -> Places] /\ i \in [Threads -> 0 .. MaxSinks + 1]
      /\ msg \in [Threads -> Messages \cup {NULL}] /\ sink_count \in 0 .. MaxSinks
      /\ sinks \in [1 .. MaxSinks -> Sinks \cup {NULL}]
  BY DEF DInv, WInv, LInv, Shapes
<1>2. /\ pc[t] = "unlock" /\ pc' = [pc EXCEPT ![t] = "idle"]
      /\ msg' = [msg EXCEPT ![t] = NULL] /\ i' = [i EXCEPT ![t] = 0]
      /\ done' = done \cup {[msg |-> msg[t], to |-> Attached]}
      /\ UNCHANGED <<sinks, sink_count, stream>>
  BY DEF unlock, Goto, logger, streams
<1>3. \A u \in Threads : pc'[u] \in Logging =>
        /\ u # t /\ pc[u] \in Logging /\ pc'[u] = pc[u] /\ i'[u] = i[u] /\ msg'[u] = msg[u]
        /\ Behind(u)' = Behind(u)
  BY <1>1, <1>2 DEF Logging, Writing, Behind
<1>4. Behind(t) = sink_count /\ sink_count \in Nat
  BY <1>1, <1>2, LoggerAssumption DEF DInv, InTurn, Behind
<1>5. /\ Len(Attached) = sink_count
      /\ \A k \in 1 .. sink_count : Attached[k] = sinks[k]
  BY <1>1, LoggerAssumption DEF Attached
<1>6. ASSUME NEW s \in Sinks
      PROVE  Texts(stream[s], msg[t]) = Wanted(msg[t], Attached, Len(Attached), s)
  <2>1. Texts(stream[s], msg[t]) = Wanted(msg[t], sinks, sink_count, s)
    BY <1>2, <1>4 DEF DInv, WrittenSoFar, Logging
  <2>2. Uses(Attached, Len(Attached), s) = Uses(sinks, sink_count, s)
    BY <1>5 DEF Uses
  <2> QED
    BY <2>1, <2>2 DEF Wanted
<1>7. InTurn'
  BY <1>2, <1>3 DEF DInv, InTurn, Logging, Writing
<1>8. WrittenSoFar'
  BY <1>2, <1>3 DEF DInv, WrittenSoFar
<1>9. Delivered'
  BY <1>2, <1>6 DEF DInv, Delivered
<1> QED
  BY <1>7, <1>8, <1>9 DEF DInv

LEMMA DeliveryElse ==
  ASSUME DInv, WInv', NEW t \in Threads,
         \/ lock(t, "lock", "sinks") \/ lock(t, "flush_lock", "flush_sinks") \/ end_write(t)
         \/ flush(t) \/ flush_sink(t) \/ flush_unlock(t)
  PROVE  DInv'
<1>1. /\ pc \in [Threads -> Places] /\ i \in [Threads -> 0 .. MaxSinks + 1]
  BY DEF DInv, WInv, LInv, Shapes
<1>2. UNCHANGED <<sinks, sink_count, msg, stream, done>>
  BY DEF lock, end_write, flush, flush_sink, flush_unlock, logger, streams
<1>3. \A u \in Threads \ {t} : pc'[u] = pc[u] /\ i'[u] = i[u] /\ Behind(u)' = Behind(u)
  BY <1>1 DEF lock, end_write, flush, flush_sink, flush_unlock, Goto, Behind
<1>4. pc'[t] \in Logging =>
        pc[t] \in Logging /\ pc'[t] = "sinks" /\ Behind(t)' = Behind(t)
  <2>1. CASE lock(t, "lock", "sinks")
    BY <1>1, <2>1 DEF lock, Goto, Logging, Writing, Behind
  <2>2. CASE end_write(t)
    BY <1>1, <2>2 DEF end_write, Goto, Logging, Writing, Behind
  <2>3. CASE lock(t, "flush_lock", "flush_sinks")
    BY <1>1, <2>3 DEF lock, Goto, Logging, Writing
  <2>4. CASE flush(t)
    BY <1>1, <2>4 DEF flush, Goto, Logging, Writing
  <2>5. CASE flush_sink(t)
    BY <1>1, <2>5 DEF flush_sink, Goto, Logging, Writing
  <2>6. CASE flush_unlock(t)
    BY <1>1, <2>6 DEF flush_unlock, Goto, Logging, Writing
  <2> QED
    BY <2>1, <2>2, <2>3, <2>4, <2>5, <2>6
<1>5. ASSUME NEW u \in Threads, pc'[u] \in Logging
      PROVE  /\ pc[u] \in Logging /\ Behind(u)' = Behind(u)
             /\ pc'[u] = "unlock" => i'[u] = sink_count + 1
             /\ pc'[u] \in Writing => msg[u].level >= SinkLevel[sinks[i'[u]]]
  <2>1. CASE u = t
    BY <1>4, <1>5, <2>1 DEF Writing
  <2>2. CASE u # t
    BY <1>3, <1>5, <2>2 DEF DInv, InTurn
  <2> QED
    BY <2>1, <2>2
<1> QED
  BY <1>2, <1>5, DeliveryQuietStep

LEMMA DStep == DInv /\ [Next]_vars => DInv'
<1> SUFFICES ASSUME DInv, [Next]_vars PROVE DInv'
  OBVIOUS
<1>1. WInv' /\ WInv /\ LInv
  BY WStep DEF DInv, WInv
<1>2. ASSUME NEW s \in Sinks, add_sink(s) \/ remove_sink(s) PROVE DInv'
  <2>1. UNCHANGED <<stream, done, pc>> /\ \A u \in Threads : pc[u] = "idle"
    BY <1>1, <1>2, Idle DEF add_sink, remove_sink, thread, streams
  <2> QED
    BY <1>1, <2>1, DeliveryQuietStep DEF Logging, Writing
<1>3. ASSUME UNCHANGED <<stream, done, pc, i, msg, sinks, sink_count>> PROVE DInv'
  <2>1. \A u \in Threads : Behind(u)' = Behind(u)
    BY <1>3 DEF Behind
  <2> QED
    BY <1>1, <1>3, <2>1, DeliveryQuietStep DEF DInv, InTurn
<1>4. ASSUME NEW level \in Levels \cup {OFF}, set_level(level) PROVE DInv'
  BY <1>3, <1>4 DEF set_level, thread, streams
<1>5. CASE UNCHANGED vars
  BY <1>3, <1>5 DEF vars, thread, streams, logger
<1>6. ASSUME NEW t \in Threads, InCall(t) PROVE DInv'
  BY <1>1, <1>6, DeliveryParts, DeliveryNextSink, DeliveryUnlock, DeliveryElse DEF InCall
<1>7. ASSUME NEW t \in Threads, NEW level \in Levels, log(t, level) PROVE DInv'
  BY <1>1, <1>7, DeliveryLog
<1>8. ASSUME NEW t \in Threads, flush(t) PROVE DInv'
  BY <1>1, <1>8, DeliveryElse
<1> QED
  BY <1>2, <1>4, <1>5, <1>6, <1>7, <1>8 DEF Next

\* For any threads and sinks, a call that has returned has put its message into
\* every attached sink whose level it passes, once for each time the sink is
\* attached, and into no other (log.c 558-576).
THEOREM MessagesDelivered == Spec => []DeliveredExactly
<1>1. DInv /\ MessagesWhole => DeliveredExactly
  BY DEF DInv, Delivered, DeliveredExactly, Copies, Texts, Wanted, Uses, TextOf
<1>2. Spec => []DInv
  BY DInit, DStep, PTL DEF Spec
<1> QED
  BY <1>1, <1>2, MessagesStayWhole, PTL

-----------------------------------------------------------------------------
(* Order                                                                   *)

\* A message whose call waits for the lock is in no stream.
Unwritten ==
  \A t \in Threads : pc[t] = "lock" =>
    \A s \in Sinks : \A k \in 1 .. Len(stream[s]) : stream[s][k].msg # msg[t]

\* What is written behind a piece of the message in progress is of that message.
LastSoFar ==
  \A t \in Threads : pc[t] \in Logging =>
    \A s \in Sinks : \A j, k \in 1 .. Len(stream[s]) :
      j < k /\ stream[s][j].msg = msg[t] => stream[s][k].msg = msg[t]

\* Two messages are in the same order wherever they both are.
Agree(a, b) ==
  \A j, k \in 1 .. Len(a) : \A jj, kk \in 1 .. Len(b) :
    a[j].msg = b[jj].msg /\ a[k].msg = b[kk].msg /\ a[j].msg # a[k].msg /\ j < k => jj < kk

SameOrder == \A s, r \in Sinks : Agree(stream[s], stream[r])

OInv == WInv /\ Unwritten /\ LastSoFar /\ SameOrder

LEMMA OInit == Init => OInv
BY WInit DEF Init, OInv, Unwritten, LastSoFar, SameOrder, Agree, Logging, Writing

LEMMA OrderQuietStep ==
  ASSUME OInv, WInv', stream' = stream,
         \A u \in Threads : pc'[u] \in Logging =>
           /\ pc[u] \in Logging /\ msg'[u] = msg[u]
           /\ pc'[u] = "lock" => pc[u] = "lock"
  PROVE  OInv'
BY DEF OInv, Unwritten, LastSoFar, SameOrder, Logging

\* The piece written last belongs to the message in progress, so it may stand
\* behind every other.
LEMMA OrderWrite ==
  ASSUME OInv, WInv', NEW t \in Threads, NEW s \in Sinks, NEW p \in Pieces,
         pc[t] \in Writing, p.msg = msg[t],
         stream' = [stream EXCEPT ![s] = Append(@, p)], msg' = msg,
         pc'[t] \in Writing \cup {"sinks"}, \A u \in Threads \ {t} : pc'[u] = pc[u]
  PROVE  OInv'
<1>1. LInv /\ Old /\ pc[t] \in Logging /\ stream \in [Sinks -> Seq(Pieces)]
  BY DEF OInv, WInv, Logging, LInv, Shapes
<1>2. ASSUME NEW r \in Sinks, NEW k \in 1 .. Len(stream'[r])
      PROVE  \/ r = s /\ k = Len(stream[s]) + 1 /\ stream'[r][k].msg = msg[t]
             \/ k \in 1 .. Len(stream[r]) /\ stream'[r][k] = stream[r][k]
  BY <1>1, <1>2
<1>3. \A r \in Sinks : Len(stream[r]) \in Nat /\ Len(stream'[r]) \in Nat
  BY <1>1
<1>4. ASSUME NEW u \in Threads \ {t}, pc'[u] \in Logging PROVE pc'[u] = "lock" /\ pc[u] = "lock" /\ msg[u] # msg[t]
  BY <1>1, <1>4, MessageIsNew DEF LInv, Exclusion, Locked, Logging, Writing
<1>5. Unwritten'
  <2>1. ASSUME NEW u \in Threads, pc'[u] = "lock", NEW r \in Sinks, NEW k \in 1 .. Len(stream'[r])
        PROVE  stream'[r][k].msg # msg[u]
    <3>1. u # t
      BY <2>1 DEF Writing
    <3>2. pc[u] = "lock" /\ msg[u] # msg[t]
      BY <1>4, <2>1, <3>1 DEF Logging
    <3> QED
      BY <1>2, <3>2 DEF OInv, Unwritten
  <2> QED
    BY <2>1 DEF Unwritten
<1>6. LastSoFar'
  <2>1. ASSUME NEW u \in Threads, pc'[u] \in Logging, NEW r \in Sinks,
               NEW j \in 1 .. Len(stream'[r]), NEW k \in 1 .. Len(stream'[r]),
               j < k, stream'[r][j].msg = msg[u]
        PROVE  stream'[r][k].msg = msg[u]
    <3>1. CASE u # t
      <4>1. pc'[u] = "lock"
        BY <1>4, <2>1, <3>1
      <4> QED
        BY <1>5, <2>1, <4>1 DEF Unwritten
    <3>2. CASE u = t
      <4>1. CASE stream'[r][k].msg = msg[t]
        BY <3>2, <4>1
      <4>2. CASE k \in 1 .. Len(stream[r]) /\ stream'[r][k] = stream[r][k]
        <5>1. j \in 1 .. Len(stream[r]) /\ stream'[r][j] = stream[r][j]
          BY <1>2, <1>3, <2>1, <4>2
        <5> QED
          BY <1>1, <2>1, <3>2, <4>2, <5>1 DEF OInv, LastSoFar
      <4> QED
        BY <1>2, <4>1, <4>2
    <3> QED
      BY <3>1, <3>2
  <2> QED
    BY <2>1 DEF LastSoFar
<1>7. SameOrder'
  <2> SUFFICES ASSUME NEW q \in Sinks, NEW r \in Sinks PROVE Agree(stream'[q], stream'[r])
    BY DEF SameOrder
  <2> USE DEF Agree
  <2> TAKE j, k \in 1 .. Len(stream'[q])
  <2> TAKE jj, kk \in 1 .. Len(stream'[r])
  <2>1. HAVE /\ stream'[q][j].msg = stream'[r][jj].msg /\ stream'[q][k].msg = stream'[r][kk].msg
             /\ stream'[q][j].msg # stream'[q][k].msg /\ j < k
  <2>2. pc'[t] \in Logging
    BY DEF Logging
  <2>3. ASSUME NEW x \in Sinks, NEW a \in 1 .. Len(stream'[x]), NEW b \in 1 .. Len(stream'[x]),
               stream'[x][a].msg # msg[t], stream'[x][b].msg = msg[t]
        PROVE  a < b
    <3>1. \A e, f \in 1 .. Len(stream'[x]) :
            e < f /\ stream'[x][e].msg = msg'[t] => stream'[x][f].msg = msg'[t]
      BY <1>6, <2>2 DEF LastSoFar
    <3>2. a # b /\ a \in Nat /\ b \in Nat
      BY <1>3, <2>3
    <3>3. ~(b < a)
      BY <2>3, <3>1
    <3> QED
      BY <3>2, <3>3
  <2>4. CASE stream'[q][k].msg = msg[t]
    <3>1. stream'[r][jj].msg # msg[t] /\ stream'[r][kk].msg = msg[t]
      BY <2>1, <2>4
    <3> QED
      BY <2>3, <3>1
  <2>5. CASE stream'[q][j].msg = msg[t]
    <3>1. stream'[q][k].msg # msg[t]
      BY <2>1, <2>5
    <3>2. k < j
      BY <2>3, <2>5, <3>1
    <3> QED
      BY <1>3, <2>1, <3>2
  <2>6. CASE stream'[q][k].msg # msg[t] /\ stream'[q][j].msg # msg[t]
    <3>1. /\ j \in 1 .. Len(stream[q]) /\ stream'[q][j] = stream[q][j]
          /\ k \in 1 .. Len(stream[q]) /\ stream'[q][k] = stream[q][k]
      BY <1>2, <2>6
    <3>2. /\ jj \in 1 .. Len(stream[r]) /\ stream'[r][jj] = stream[r][jj]
          /\ kk \in 1 .. Len(stream[r]) /\ stream'[r][kk] = stream[r][kk]
      BY <1>2, <2>1, <2>6
    <3> QED
      BY <2>1, <3>1, <3>2 DEF OInv, SameOrder, Agree
  <2> QED
    BY <2>4, <2>5, <2>6
<1> QED
  BY <1>5, <1>6, <1>7 DEF OInv

LEMMA OrderParts ==
  ASSUME OInv, WInv', NEW t \in Threads,
         \/ write_part(t, "color", "text") \/ write_part(t, "text", "reset")
         \/ write_part(t, "reset", "urgent") \/ callback(t)
  PROVE  OInv'
<1>1. PICK part \in {"color", "text", "reset"}, place \in {"text", "reset", "urgent", "sinks"} :
        /\ pc[t] \in {part, "callback"} /\ pc' = [pc EXCEPT ![t] = place] /\ Emit(t, part) /\ msg' = msg
  <2>1. CASE write_part(t, "color", "text")
    BY <2>1 DEF write_part, Goto
  <2>2. CASE write_part(t, "text", "reset")
    BY <2>2 DEF write_part, Goto
  <2>3. CASE write_part(t, "reset", "urgent")
    BY <2>3 DEF write_part, Goto
  <2>4. CASE callback(t)
    BY <2>4 DEF callback, Goto
  <2> QED
    BY <2>1, <2>2, <2>3, <2>4
<1>2. LInv /\ pc \in [Threads -> Places] /\ pc[t] \in Writing
  BY <1>1 DEF OInv, WInv, LInv, Shapes, Writing
<1>3. PICK s \in Sinks : s = sinks[i[t]]
  BY <1>2, AtItsSink
<1>4. PICK p \in Pieces : p = [part |-> part, msg |-> msg[t]]
  <2>1. [part |-> part, msg |-> msg[t]] \in Pieces
    BY <1>2, AtItsSink DEF Pieces
  <2> QED
    BY <2>1
<1>5. p.msg = msg[t]
  BY <1>4
<1>6. stream' = [stream EXCEPT ![s] = Append(@, p)]
  BY <1>1, <1>3, <1>4 DEF Emit
<1>7. pc'[t] \in Writing \cup {"sinks"} /\ \A u \in Threads \ {t} : pc'[u] = pc[u]
  BY <1>1, <1>2 DEF Writing
<1> QED
  BY <1>1, <1>2, <1>5, <1>6, <1>7, OrderWrite

LEMMA OrderLog ==
  ASSUME OInv, WInv', NEW t \in Threads, NEW level \in Levels, log(t, level)
  PROVE  OInv'
<1>1. /\ LInv /\ Old /\ pc \in [Threads -> Places] /\ msg \in [Threads -> Messages \cup {NULL}]
  BY DEF OInv, WInv, LInv, Shapes
<1>2. stream' = stream /\ calls' = [calls EXCEPT ![t] = calls[t] + 1]
  BY DEF log, streams
<1>3. CASE UNCHANGED thread
  <2>1. pc' = pc /\ msg' = msg
    BY <1>3 DEF thread
  <2> QED
    BY <1>2, <2>1, OrderQuietStep
<1>4. ASSUME NEW m, m = [by |-> t, n |-> calls'[t], level |-> level],
             msg' = [msg EXCEPT ![t] = m], pc' = [pc EXCEPT ![t] = "lock"]
      PROVE  OInv'
  <2>1. m.by = t /\ m.n = calls[t] + 1
    BY <1>2, <1>4 DEF OInv, WInv, LInv, Shapes
  <2>2. \A u \in Threads \ {t} : pc'[u] = pc[u] /\ msg'[u] = msg[u]
    BY <1>1, <1>4
  <2>3. msg'[t] = m
    BY <1>1, <1>4
  <2>4. ASSUME NEW s \in Sinks, NEW k \in 1 .. Len(stream[s]) PROVE stream[s][k].msg # m
    BY <1>1, <2>1, NewMessage
  <2> QED
    BY <1>2, <2>2, <2>3, <2>4 DEF OInv, Unwritten, LastSoFar, SameOrder
<1> QED
  BY <1>3, <1>4 DEF log, Goto

LEMMA OStep == OInv /\ [Next]_vars => OInv'
<1> SUFFICES ASSUME OInv, [Next]_vars PROVE OInv'
  OBVIOUS
<1>1. WInv' /\ WInv /\ LInv /\ pc \in [Threads -> Places] /\ msg \in [Threads -> Messages \cup {NULL}]
  BY WStep DEF OInv, WInv, LInv, Shapes
<1>2. ASSUME NEW s \in Sinks, add_sink(s) \/ remove_sink(s) PROVE OInv'
  <2>1. UNCHANGED <<stream, pc, msg>>
    BY <1>2 DEF add_sink, remove_sink, thread, streams
  <2> QED
    BY <1>1, <2>1, OrderQuietStep
<1>3. ASSUME NEW level \in Levels \cup {OFF}, set_level(level) PROVE OInv'
  <2>1. UNCHANGED <<stream, pc, msg>>
    BY <1>3 DEF set_level, thread, streams
  <2> QED
    BY <1>1, <2>1, OrderQuietStep
<1>4. CASE UNCHANGED vars
  <2>1. UNCHANGED <<stream, pc, msg>>
    BY <1>4 DEF vars, thread, streams
  <2> QED
    BY <1>1, <2>1, OrderQuietStep
<1>5. ASSUME NEW t \in Threads,
             \/ lock(t, "lock", "sinks") \/ lock(t, "flush_lock", "flush_sinks") \/ next_sink(t)
             \/ end_write(t) \/ unlock(t) \/ flush(t) \/ flush_sink(t) \/ flush_unlock(t)
      PROVE  OInv'
  <2>1. stream' = stream
    BY <1>5 DEF lock, next_sink, end_write, unlock, flush, flush_sink, flush_unlock, streams
  <2>2. \A u \in Threads \ {t} : pc'[u] = pc[u] /\ msg'[u] = msg[u]
    BY <1>1, <1>5 DEF lock, next_sink, end_write, unlock, flush, flush_sink, flush_unlock, Goto
  <2>3. pc'[t] # "lock" /\ (pc'[t] \in Logging => pc[t] \in Logging /\ msg'[t] = msg[t])
    <3>1. CASE lock(t, "lock", "sinks") \/ lock(t, "flush_lock", "flush_sinks")
      BY <1>1, <3>1 DEF lock, Goto, Logging, Writing
    <3>2. CASE next_sink(t)
      BY <1>1, <3>2 DEF next_sink, Goto, Logging, Writing
    <3>3. CASE end_write(t)
      BY <1>1, <3>3 DEF end_write, Goto, Logging, Writing
    <3>4. CASE unlock(t) \/ flush(t) \/ flush_unlock(t)
      BY <1>1, <3>4 DEF unlock, flush, flush_unlock, Goto, Logging, Writing
    <3>5. CASE flush_sink(t)
      BY <1>1, <3>5 DEF flush_sink, Logging, Writing
    <3> QED
      BY <1>5, <3>1, <3>2, <3>3, <3>4, <3>5
  <2> QED
    BY <1>1, <2>1, <2>2, <2>3, OrderQuietStep
<1>6. ASSUME NEW t \in Threads, InCall(t) PROVE OInv'
  BY <1>1, <1>5, <1>6, OrderParts DEF InCall
<1>7. ASSUME NEW t \in Threads, NEW level \in Levels, log(t, level) PROVE OInv'
  BY <1>1, <1>7, OrderLog
<1> QED
  BY <1>2, <1>3, <1>4, <1>5, <1>6, <1>7 DEF Next

Smaller == {ss \in Nat \X Nat : ss[1] < ss[2]}

LEMMA SmallerIsWellFounded == IsWellFoundedOn(Smaller, Nat)
<1>1. OpToRel(<, Nat) = Smaller
  BY Zenon DEF OpToRel, Smaller
<1> QED
  BY ONLY <1>1, NatLessThanWellFounded, Zenon

\* A message that is in a stream has a first piece there.
LEMMA FirstIsThere ==
  ASSUME LInv, NEW s \in Sinks, NEW m, Copies(s, m) > 0
  PROVE  First(s, m) \in 1 .. Len(stream[s]) /\ stream[s][First(s, m)].msg = m
<1> DEFINE Ones == {k \in 1 .. Len(stream[s]) : stream[s][k].msg = m}
<1>1. stream[s] \in Seq(Pieces)
  BY DEF LInv, Shapes
<1>2. Ones # {}
  <2>1. SUFFICES ASSUME Ones = {} PROVE Copies(s, m) = 0
    OBVIOUS
  <2>2. {k \in 1 .. Len(stream[s]) : stream[s][k] = [part |-> "text", msg |-> m]} = {}
    BY <2>1
  <2> QED
    BY <2>2, FS_EmptySet DEF Copies
<1>3. Ones \subseteq Nat
  OBVIOUS
<1>4. PICK k \in Ones : \A j \in Ones : ~(<<j, k>> \in Smaller)
  <2> HIDE DEF Ones
  <2> QED
    BY <1>2, <1>3, SmallerIsWellFounded, WFMin
<1>5. ASSUME NEW j \in 1 .. k - 1 PROVE stream[s][j].msg # m
  <2>1. j \in 1 .. Len(stream[s]) /\ j < k /\ j \in Nat /\ k \in Nat
    BY <1>1
  <2>2. <<j, k>> \in Smaller
    BY <2>1 DEF Smaller
  <2> QED
    BY <1>4, <2>1, <2>2
<1>6. k \in 1 .. Len(stream[s]) /\ stream[s][k].msg = m
  BY <1>4
<1> QED
  BY <1>5, <1>6 DEF First

\* Two sinks that both have two messages show them in the same order, for any
\* threads and sinks (log.c 560 and 575: one lock around the whole sink loop).
THEOREM OrderIsShared == Spec => []SinksAgreeOnOrder
<1>1. OInv => SinksAgreeOnOrder
  <2>1. SUFFICES ASSUME OInv, NEW s \in Sinks, NEW r \in Sinks, NEW c \in done, NEW d \in done,
                        Copies(s, c.msg) > 0, Copies(s, d.msg) > 0,
                        Copies(r, c.msg) > 0, Copies(r, d.msg) > 0
                 PROVE  First(s, c.msg) < First(s, d.msg) <=> First(r, c.msg) < First(r, d.msg)
    BY DEF SinksAgreeOnOrder
  <2>2. LInv
    BY <2>1 DEF OInv, WInv
  <2> DEFINE a == First(s, c.msg)
             b == First(s, d.msg)
             x == First(r, c.msg)
             y == First(r, d.msg)
  <2>3. /\ a \in 1 .. Len(stream[s]) /\ stream[s][a].msg = c.msg
        /\ b \in 1 .. Len(stream[s]) /\ stream[s][b].msg = d.msg
        /\ x \in 1 .. Len(stream[r]) /\ stream[r][x].msg = c.msg
        /\ y \in 1 .. Len(stream[r]) /\ stream[r][y].msg = d.msg
    BY <2>1, <2>2, FirstIsThere
  <2>4. CASE c.msg = d.msg
    <3>1. a = b /\ x = y
      BY <2>4
    <3> HIDE DEF a, b, x, y
    <3>2. ~(a < b) /\ ~(x < y)
      BY <2>3, <3>1
    <3> QED
      BY <3>2 DEF a, b, x, y
  <2>5. CASE c.msg # d.msg
    <3> HIDE DEF a, b, x, y
    <3>1. a < b <=> x < y
      BY <2>1, <2>3, <2>5 DEF OInv, SameOrder, Agree
    <3> QED
      BY <3>1 DEF a, b, x, y
  <2> QED
    BY <2>4, <2>5
<1> QED
  BY <1>1, OInit, OStep, PTL DEF Spec
=============================================================================
