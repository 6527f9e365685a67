-------------------------------- MODULE Atomic --------------------------------
(***************************************************************************)
(* src/atomic.c where the compiler offers no atomics: a word and the mutex *)
(* that protects it.  Five types share the code; they differ in the words  *)
(* they hold and in the operations they offer.                             *)
(***************************************************************************)
EXTENDS Integers

CONSTANTS
  Threads,         \* the threads that use one atomic
  Bits32, Bits64,  \* widths of the words: 32 and 64 in the code
  Free, Raw        \* the mutex: held by nobody, not initialized

ASSUME AtomicAssumption ==
  /\ Bits32 \in Nat \ {0} /\ Bits64 \in Nat \ {0}
  /\ Free \notin Threads /\ Raw \notin Threads /\ Free # Raw

UnsignedWords(bits) == 0 .. 2 ^ bits - 1
SignedWords(bits)   == -(2 ^ (bits - 1)) .. 2 ^ (bits - 1) - 1

Swaps   == {"load", "store", "exchange", "compare_exchange"}
Fetches == {"fetch_add", "fetch_sub", "fetch_and", "fetch_or", "fetch_xor"}

I32 == [bits |-> Bits32, values |-> SignedWords(Bits32), ops |-> Swaps \cup Fetches]
U32 == [bits |-> Bits32, values |-> UnsignedWords(Bits32), ops |-> Swaps \cup Fetches]
I64 == [bits |-> Bits64, values |-> SignedWords(Bits64), ops |-> Swaps \cup Fetches]
U64 == [bits |-> Bits64, values |-> UnsignedWords(Bits64), ops |-> Swaps \cup Fetches]
Ptr == [bits |-> Bits64, values |-> UnsignedWords(Bits64), ops |-> Swaps]

Types == {I32, U32, I64, U64, Ptr}

-----------------------------------------------------------------------------
(* The arithmetic.  Sums and differences wrap: for the unsigned types by   *)
(* definition; for the signed ones `+=' overflows, and the add instruction *)
(* the build emits for it wraps as __atomic_fetch_add does.                *)

InType(type, n)  == CHOOSE v \in type.values : (v - n) % 2 ^ type.bits = 0
Ones(type, v)    == {i \in 0 .. type.bits - 1 : (v \div 2 ^ i) % 2 = 1}
OfOnes(type, on) == CHOOSE v \in type.values : Ones(type, v) = on

fetch_add(type, a, b) == InType(type, a + b)
fetch_sub(type, a, b) == InType(type, a - b)
fetch_and(type, a, b) == OfOnes(type, Ones(type, a) \cap Ones(type, b))
fetch_or(type, a, b)  == OfOnes(type, Ones(type, a) \cup Ones(type, b))
fetch_xor(type, a, b) ==
  OfOnes(type, (Ones(type, a) \ Ones(type, b)) \cup (Ones(type, b) \ Ones(type, a)))

\* What an operation that writes whatever it finds leaves in the word.
Written(type, op, old, arg) ==
  CASE op \in {"store", "exchange"} -> arg
    [] op = "fetch_add" -> fetch_add(type, old, arg)
    [] op = "fetch_sub" -> fetch_sub(type, old, arg)
    [] op = "fetch_and" -> fetch_and(type, old, arg)
    [] op = "fetch_or"  -> fetch_or(type, old, arg)
    [] op = "fetch_xor" -> fetch_xor(type, old, arg)

\* `expected' is the caller's variable; only compare_exchange looks at it.
Requests(type) ==
  [op : type.ops \ {"compare_exchange"}, arg : type.values, expected : {0}]
    \cup [op : {"compare_exchange"}, arg : type.values, expected : type.values]
Values(type) == type.values

NoRequest == [op |-> "none", arg |-> 0, expected |-> 0]
NoOutcome == [ret |-> 0, expected |-> 0]

\* The effect of a request that meets the word `old', all at once.
Stored(type, r, old) ==
  CASE r.op = "load" -> old
    [] r.op = "compare_exchange" -> IF old = r.expected THEN r.arg ELSE old
    [] OTHER -> Written(type, r.op, old, r.arg)

Outcome(type, r, old) ==
  [ret |-> CASE r.op = "store" -> 0
             [] r.op = "compare_exchange" -> IF old = r.expected THEN 1 ELSE 0
             [] OTHER -> old,
   expected |-> IF r.op = "compare_exchange" THEN old ELSE r.expected]

-----------------------------------------------------------------------------
VARIABLES
  atype,           \* the type of the atomic
  aword, mutex,    \* the struct: the word and its mutex
  apc, request,    \* each thread's place in its call, and what it asked
  prev,            \* its local: prev, actual or v
  expected, ret    \* its caller's *expected; what the call returns

calls == <<apc, request, prev, expected, ret>>
avars == <<atype, aword, mutex, calls>>

AtomicInit ==
  /\ atype \in Types
  /\ aword \in atype.values
  /\ mutex = Raw
  /\ apc = [t \in Threads |-> "idle"]
  /\ request = [t \in Threads |-> NoRequest]
  /\ prev = [t \in Threads |-> 0]
  /\ expected = [t \in Threads |-> 0]
  /\ ret = [t \in Threads |-> 0]

Goto(t, from, to) == apc[t] = from /\ apc' = [apc EXCEPT ![t] = to]

\* cpr_mutex_init can refuse: the atomic stays unusable.
atomic_init(v) ==
  /\ mutex = Raw
  /\ mutex' = Free
  /\ aword' = v
  /\ UNCHANGED <<atype, calls>>

\* The owner destroys the atomic when no thread uses it any more.
atomic_destroy ==
  /\ mutex # Raw
  /\ \A t \in Threads : apc[t] = "idle"
  /\ mutex' = Raw
  /\ UNCHANGED <<atype, aword, calls>>

Call(t, r) ==
  /\ mutex # Raw
  /\ Goto(t, "idle", "lock")
  /\ request' = [request EXCEPT ![t] = r]
  /\ expected' = [expected EXCEPT ![t] = r.expected]
  /\ UNCHANGED <<atype, aword, mutex, prev, ret>>

\* Mutant: does not wait for the mutex.
Bug_lock(t) ==
  /\ Goto(t, "lock", IF request[t].op = "store" THEN "modify" ELSE "read")
  /\ mutex' = t
  /\ UNCHANGED <<atype, aword, request, prev, expected, ret>>

\* The result of cpr_mutex_lock is dropped: a lock that fails, which pthreads
\* does not let happen to an initialized mutex, is outside the model.
lock(t) ==
  /\ Goto(t, "lock", IF request[t].op = "store" THEN "modify" ELSE "read")
  /\ mutex = Free
  /\ mutex' = t
  /\ UNCHANGED <<atype, aword, request, prev, expected, ret>>

\* Mutant: the mutex is given back between the reading and the writing.
Bug_read(t) ==
  /\ Goto(t, "read", "modify")
  /\ prev' = [prev EXCEPT ![t] = aword]
  /\ mutex' = Free
  /\ UNCHANGED <<atype, aword, request, expected, ret>>

read(t) ==
  /\ Goto(t, "read", "modify")
  /\ prev' = [prev EXCEPT ![t] = aword]
  /\ UNCHANGED <<atype, aword, mutex, request, expected, ret>>

modify_load(t) ==
  /\ request[t].op = "load"
  /\ ret' = [ret EXCEPT ![t] = prev[t]]
  /\ UNCHANGED <<aword, expected>>

\* Success writes the word, failure the caller's variable.
modify_compare_exchange(t) ==
  LET ok == prev[t] = expected[t]
  IN  /\ request[t].op = "compare_exchange"
      /\ aword' = IF ok THEN request[t].arg ELSE aword
      /\ expected' = IF ok THEN expected ELSE [expected EXCEPT ![t] = prev[t]]
      /\ ret' = [ret EXCEPT ![t] = IF ok THEN 1 ELSE 0]

\* store, exchange and the fetches; store returns nothing.
modify_word(t) ==
  /\ request[t].op \notin {"load", "compare_exchange"}
  /\ aword' = Written(atype, request[t].op, aword, request[t].arg)
  /\ ret' = IF request[t].op = "store" THEN ret ELSE [ret EXCEPT ![t] = prev[t]]
  /\ UNCHANGED expected

modify(t) ==
  /\ Goto(t, "modify", "unlock")
  /\ modify_load(t) \/ modify_compare_exchange(t) \/ modify_word(t)
  /\ UNCHANGED <<atype, mutex, request, prev>>

\* The caller takes what it got; the call's locals are gone.
unlock(t) ==
  /\ Goto(t, "unlock", "idle")
  /\ mutex' = Free
  /\ request' = [request EXCEPT ![t] = NoRequest]
  /\ prev' = [prev EXCEPT ![t] = 0]
  /\ expected' = [expected EXCEPT ![t] = 0]
  /\ ret' = [ret EXCEPT ![t] = 0]
  /\ UNCHANGED <<atype, aword>>

AtomicStep(t) ==
  \/ \E r \in Requests(atype) : Call(t, r)
  \/ lock(t) \/ read(t) \/ modify(t) \/ unlock(t)

AtomicNext ==
  \/ \E v \in atype.values : atomic_init(v)
  \/ atomic_destroy
  \/ \E t \in Threads : AtomicStep(t)

AtomicSpec == AtomicInit /\ [][AtomicNext]_avars

-----------------------------------------------------------------------------
(* Properties *)

\* A thread is between lock and unlock iff it holds the mutex: two threads are
\* never inside together (cpr_mutex_lock's result is ignored throughout).
Inside(t) == apc[t] \in {"read", "modify", "unlock"}
OneInside == \A t \in Threads : Inside(t) <=> mutex = t

\* What a thread has read is still what the word holds when it writes.
ReadIsCurrent ==
  \A t \in Threads : apc[t] = "modify" /\ request[t].op # "store" => prev[t] = aword

\* Outside a call nothing is left of the last one; inside, until the word has
\* been dealt with, the caller's *expected is what it passed.
LocalsFresh ==
  \A t \in Threads :
    /\ apc[t] = "idle" => request[t] = NoRequest /\ prev[t] = 0 /\ expected[t] = 0
    /\ apc[t] \in {"lock", "read", "modify"} =>
         expected[t] = request[t].expected /\ request[t].op # "none"
    /\ apc[t] # "unlock" => ret[t] = 0

\* Nobody is in a call on an atomic that is not initialized.
CallsNeedInit == mutex = Raw => \A t \in Threads : apc[t] = "idle"

Word == INSTANCE AtomicWord WITH
  type    <- atype,
  ready   <- mutex # Raw,
  word    <- aword,
  status  <- [t \in Threads |->
                CASE apc[t] = "idle" -> "idle" [] apc[t] = "unlock" -> "done"
                  [] OTHER -> "called"],
  outcome <- [t \in Threads |->
                IF apc[t] = "unlock" THEN [ret |-> ret[t], expected |-> expected[t]]
                ELSE NoOutcome]

\* The lock-based atomic is indistinguishable from a native one: every request
\* takes effect, and is answered, as if in a single step (atomic.h 34-35).
IsAtomicWord == Word!Spec
=============================================================================
