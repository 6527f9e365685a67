------------------------------ MODULE AtomicWord ------------------------------
(***************************************************************************)
(* What an atomic promises (src/atomic.c with CPR_HAS_GCC_ATOMICS, where   *)
(* each operation is one sequentially consistent __atomic builtin): between *)
(* its call and its return a request takes effect in a single step.        *)
(***************************************************************************)
CONSTANTS
  Threads,
  Types,                \* the atomic types
  Values(_),            \* the words of a type
  Requests(_),          \* the requests a type offers
  Stored(_, _, _),      \* Stored(type, r, old): the word after request r met old
  Outcome(_, _, _),     \* what the caller of r then has
  NoRequest, NoOutcome  \* of a thread outside a call

VARIABLES
  type, ready, word,          \* the atomic; has it been initialized?
  status, request, outcome    \* each thread's call

wvars == <<type, ready, word, status, request, outcome>>

Init ==
  /\ type \in Types
  /\ ready = FALSE
  /\ word \in Values(type)
  /\ status = [t \in Threads |-> "idle"]
  /\ request = [t \in Threads |-> NoRequest]
  /\ outcome = [t \in Threads |-> NoOutcome]

Initialize(v) ==
  /\ ~ready
  /\ ready' = TRUE
  /\ word' = v
  /\ UNCHANGED <<type, status, request, outcome>>

Destroy ==
  /\ ready
  /\ \A t \in Threads : status[t] = "idle"
  /\ ready' = FALSE
  /\ UNCHANGED <<type, word, status, request, outcome>>

Call(t, r) ==
  /\ ready
  /\ status[t] = "idle"
  /\ status' = [status EXCEPT ![t] = "called"]
  /\ request' = [request EXCEPT ![t] = r]
  /\ UNCHANGED <<type, ready, word, outcome>>

TakeEffect(t) ==
  /\ status[t] = "called"
  /\ status' = [status EXCEPT ![t] = "done"]
  /\ word' = Stored(type, request[t], word)
  /\ outcome' = [outcome EXCEPT ![t] = Outcome(type, request[t], word)]
  /\ UNCHANGED <<type, ready, request>>

Return(t) ==
  /\ status[t] = "done"
  /\ status' = [status EXCEPT ![t] = "idle"]
  /\ request' = [request EXCEPT ![t] = NoRequest]
  /\ outcome' = [outcome EXCEPT ![t] = NoOutcome]
  /\ UNCHANGED <<type, ready, word>>

Next ==
  \/ \E v \in Values(type) : Initialize(v)
  \/ Destroy
  \/ \E t \in Threads :
       (\E r \in Requests(type) : Call(t, r)) \/ TakeEffect(t) \/ Return(t)

Spec == Init /\ [][Next]_wvars
=============================================================================
