---------------------------- MODULE RingBufMetrics ----------------------------
(***************************************************************************)
(* RingBuf with the calls of src/ringbuf.c that only look: size and free.  *)
(* size loads head and then tail, two steps between which the ring moves.  *)
(* The producer and the consumer call it between their own calls.          *)
(***************************************************************************)
EXTENDS RingBuf

Threads == {"producer", "consumer"}
NoValue == -1

VARIABLES
  seen_head,   \* per thread: the head its size call has loaded, or NoValue
  last_size    \* per thread: what its last size call returned, until the
               \* thread's next read or write call

metrics == <<seen_head, last_size>>
mvars   == <<vars, metrics>>

\* uint32_t rb->capacity minus size_t size, with size_t as wide as Wrap here.
free(size) == (Capacity - size) % Wrap

MInit ==
  /\ Init
  /\ seen_head = [t \in Threads |-> NoValue]
  /\ last_size = [t \in Threads |-> NoValue]

BetweenCalls(t) == IF t = "producer" THEN ppc = "idle" ELSE cpc = "idle"

size_load_head(t) ==
  /\ BetweenCalls(t) /\ seen_head[t] = NoValue
  /\ seen_head' = [seen_head EXCEPT ![t] = head]
  /\ UNCHANGED <<vars, last_size>>

\* Mutant: the difference is taken in a signed type.
Bug_size_load_tail(t) ==
  /\ seen_head[t] # NoValue
  /\ last_size' = [last_size EXCEPT ![t] = seen_head[t] - tail]
  /\ seen_head' = [seen_head EXCEPT ![t] = NoValue]
  /\ UNCHANGED vars

size_load_tail(t) ==
  /\ seen_head[t] # NoValue
  /\ last_size' = [last_size EXCEPT ![t] = Sub32(seen_head[t], tail)]
  /\ seen_head' = [seen_head EXCEPT ![t] = NoValue]
  /\ UNCHANGED vars

\* A step of a ring call by t, which is then not inside size; from its next
\* ring call on it no longer relies on size's earlier answer.
Moves(t, step) ==
  /\ seen_head[t] = NoValue
  /\ step
  /\ last_size' = [last_size EXCEPT ![t] = NoValue]
  /\ UNCHANGED seen_head

MNext ==
  \/ Moves("producer", Producer)
  \/ Moves("consumer", Consumer)
  \/ \E t \in Threads : size_load_head(t) \/ size_load_tail(t)

MSpec == MInit /\ [][MNext]_mvars

\* The consumer finishes its calls and keeps calling read, as the reading
\* thread of tests/test_ringbuf.c does.  Nothing is assumed of the producer,
\* which may stop for ever inside a call: the ring is lock-free.
MFairSpec ==
  /\ MSpec
  /\ WF_mvars(Moves("consumer", copy_out \/ publish_tail))
  /\ WF_mvars(size_load_tail("consumer"))
  /\ SF_mvars(Moves("consumer", \E n \in Requests \ {0} : read(n)))

-----------------------------------------------------------------------------
(* Properties *)

\* What size tells the ring's two own threads errs on the safe side only: the
\* producer never sees less data than there is, so free() bytes do fit; the
\* consumer never sees more, so size() bytes can be read.  It stays so while
\* the other thread works on, until the thread's own next call.
OwnersCanRelyOnSize ==
  /\ LET p == last_size["producer"] IN
       p # NoValue => p \in Used .. Capacity /\ free(p) <= Capacity - Used
  /\ LET c == last_size["consumer"] IN
       c # NoValue => c \in 0 .. Used
=============================================================================
