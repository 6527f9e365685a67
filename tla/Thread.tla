-------------------------------- MODULE Thread --------------------------------
(***************************************************************************)
(* src/thread.c on POSIX: threads that create, join and detach one         *)
(* another, and one thread-local slot whose values the destructor frees.   *)
(* The heap is modelled by addresses that malloc uses again at once; what  *)
(* a freed block holds is junk.  Every malloc and every system call that   *)
(* can fail may fail; the error code is left to Sync.                      *)
(***************************************************************************)
EXTENDS Integers, FiniteSets

CONSTANTS
  MaxThreads,  \* threads the system lets the process start (a bound)
  Blocks,      \* blocks the heap has room for (a bound)
  Tasks        \* what a thread can be asked to run: fn and arg together

ASSUME ThreadAssumption ==
  MaxThreads \in Nat /\ Blocks \in Nat \ {0} /\ Tasks # {} /\ Tasks \subseteq Nat

MainThread == 0
Started == 1 .. MaxThreads
Everyone == {MainThread} \cup Started
None == 0                 \* NULL; no task
Address == 1 .. Blocks

VARIABLES
  heap, cell,        \* the blocks allocated; what every block holds
  tpc,               \* each thread's place
  thread, trampoline,\* locals of cpr_thrd_create: the two blocks
  wanted,            \* its parameters fn and arg
  param, task,       \* of a started thread: the block it was given, its copy
  asked,             \* what its creator asked for
  handles,           \* the CprThread pointers a thread has to release
  target,            \* the one it joins
  tls, slot,         \* the CprTls of the process; each thread's value
  unkeyed,           \* local of cpr_tls_create: a CprTls that has no key yet
  destructor         \* does the key have one?

memory  == <<heap, cell>>
threads == <<tpc, thread, trampoline, wanted, param, task, asked, handles, target>>
storage == <<tls, slot, unkeyed, destructor>>
tvars   == <<memory, threads, storage>>

Junk == [kind |-> "junk", id |-> None]

ThreadInit ==
  /\ heap = {} /\ cell = [a \in Address |-> Junk]
  /\ tpc = [t \in Everyone |-> IF t = MainThread THEN "runs" ELSE "unborn"]
  /\ thread = [t \in Everyone |-> None] /\ trampoline = [t \in Everyone |-> None]
  /\ wanted = [t \in Everyone |-> None]
  /\ param = [t \in Started |-> None] /\ task = [t \in Started |-> None]
  /\ asked = [t \in Started |-> None]
  /\ handles = [t \in Everyone |-> {}] /\ target = [t \in Everyone |-> None]
  /\ tls = None /\ slot = [t \in Everyone |-> None] /\ unkeyed = None
  /\ destructor = FALSE

Advance(t, from, to) == tpc[t] = from /\ tpc' = [tpc EXCEPT ![t] = to]

\* malloc takes the lowest block that is free; the caller fills it.
Least(S) == CHOOSE a \in S : \A b \in S : a <= b
Fresh == Least(Address \ heap)
malloc(kind, id) ==
  /\ heap # Address
  /\ heap' = heap \cup {Fresh}
  /\ cell' = [cell EXCEPT ![Fresh] = [kind |-> kind, id |-> id]]
free(B) ==
  /\ heap' = heap \ B
  /\ cell' = [a \in Address |-> IF a \in B THEN Junk ELSE cell[a]]

\* The caller of cpr_thrd_create asks for a task nobody else is busy with.
InUse == {wanted[t] : t \in Everyone} \cup {asked[s] : s \in Started}

-----------------------------------------------------------------------------
(* cpr_thrd_create                                                         *)

\* The first malloc; when it fails nothing has changed.
thrd_create(t) ==
  /\ Advance(t, "runs", "has_thread") /\ malloc("junk", None)
  /\ Tasks \ InUse # {}
  /\ thread' = [thread EXCEPT ![t] = Fresh]
  /\ wanted' = [wanted EXCEPT ![t] = Least(Tasks \ InUse)]
  /\ UNCHANGED <<trampoline, param, task, asked, handles, target, storage>>

\* A failure after the first malloc gives back what the call has so far.
Abandon(t) ==
  /\ tpc' = [tpc EXCEPT ![t] = "runs"]
  /\ thread' = [thread EXCEPT ![t] = None]
  /\ trampoline' = [trampoline EXCEPT ![t] = None]
  /\ wanted' = [wanted EXCEPT ![t] = None]
  /\ UNCHANGED <<param, task, asked, handles, target, storage>>

create_no_trampoline(t) ==
  /\ tpc[t] = "has_thread"
  /\ free({thread[t]})
  /\ Abandon(t)

create_trampoline(t) ==
  /\ Advance(t, "has_thread", "spawns") /\ malloc("trampoline", wanted[t])
  /\ trampoline' = [trampoline EXCEPT ![t] = Fresh]
  /\ UNCHANGED <<thread, wanted, param, task, asked, handles, target, storage>>

create_no_spawn(t) ==
  /\ tpc[t] = "spawns"
  /\ free({thread[t], trampoline[t]})
  /\ Abandon(t)

\* Mutant: the creator frees the trampoline it allocated.
Bug_create_spawn(t, s) ==
  /\ tpc[t] = "spawns" /\ tpc[s] = "unborn"
  /\ tpc' = [tpc EXCEPT ![t] = "runs", ![s] = "born"]
  /\ heap' = heap \ {trampoline[t]}
  /\ cell' = [cell EXCEPT ![thread[t]] = [kind |-> "thread", id |-> s],
                          ![trampoline[t]] = Junk]
  /\ handles' = [handles EXCEPT ![t] = @ \cup {thread[t]}]
  /\ param' = [param EXCEPT ![s] = trampoline[t]]
  /\ asked' = [asked EXCEPT ![s] = wanted[t]]
  /\ thread' = [thread EXCEPT ![t] = None]
  /\ trampoline' = [trampoline EXCEPT ![t] = None]
  /\ wanted' = [wanted EXCEPT ![t] = None]
  /\ UNCHANGED <<task, target, storage>>

\* pthread_create: the trampoline now belongs to the new thread, which may run
\* before the call returns.
create_spawn(t, s) ==
  /\ tpc[t] = "spawns" /\ tpc[s] = "unborn"
  /\ tpc' = [tpc EXCEPT ![t] = "runs", ![s] = "born"]
  /\ cell' = [cell EXCEPT ![thread[t]] = [kind |-> "thread", id |-> s]]
  /\ handles' = [handles EXCEPT ![t] = @ \cup {thread[t]}]
  /\ param' = [param EXCEPT ![s] = trampoline[t]]
  /\ asked' = [asked EXCEPT ![s] = wanted[t]]
  /\ thread' = [thread EXCEPT ![t] = None]
  /\ trampoline' = [trampoline EXCEPT ![t] = None]
  /\ wanted' = [wanted EXCEPT ![t] = None]
  /\ UNCHANGED <<heap, task, target, storage>>

-----------------------------------------------------------------------------
(* cpr__thread_trampoline                                                  *)

trampoline_copy(s) ==
  /\ Advance(s, "born", "copied")
  /\ task' = [task EXCEPT ![s] = cell[param[s]].id]
  /\ UNCHANGED <<memory, thread, trampoline, wanted, param, asked, handles, target,
                 storage>>

trampoline_free(s) ==
  /\ Advance(s, "copied", "runs")
  /\ free({param[s]})
  /\ param' = [param EXCEPT ![s] = None]
  /\ UNCHANGED <<thread, trampoline, wanted, task, asked, handles, target,
                 storage>>

\* fn returns, all its handles released; the system calls the destructor on a
\* value that is not NULL.
trampoline_exit(s) ==
  /\ s \in Started /\ Advance(s, "runs", "exited")
  /\ handles[s] = {}
  /\ free(IF destructor THEN {slot[s]} ELSE {})
  /\ slot' = [slot EXCEPT ![s] = None]
  /\ task' = [task EXCEPT ![s] = None] /\ asked' = [asked EXCEPT ![s] = None]
  /\ UNCHANGED <<thread, trampoline, wanted, param, handles, target, tls, unkeyed,
                 destructor>>

-----------------------------------------------------------------------------
(* cpr_thrd_join, cpr_thrd_detach                                          *)

\* The handle is freed whatever the system says.
Release(t, h) ==
  /\ free({h})
  /\ handles' = [handles EXCEPT ![t] = @ \ {h}]

\* Mutant: the handle is freed before the wait.
Bug_thrd_join(t, h) ==
  /\ Advance(t, "runs", "joins") /\ h \in handles[t]
  /\ Release(t, h)
  /\ target' = [target EXCEPT ![t] = h]
  /\ UNCHANGED <<thread, trampoline, wanted, param, task, asked, storage>>

thrd_join(t, h) ==
  /\ Advance(t, "runs", "joins") /\ h \in handles[t]
  /\ target' = [target EXCEPT ![t] = h]
  /\ UNCHANGED <<memory, thread, trampoline, wanted, param, task, asked, handles,
                 storage>>

thrd_join_end(t) ==
  /\ Advance(t, "joins", "runs")
  /\ tpc[cell[target[t]].id] = "exited"
  /\ Release(t, target[t])
  /\ target' = [target EXCEPT ![t] = None]
  /\ UNCHANGED <<thread, trampoline, wanted, param, task, asked, storage>>

thrd_detach(t, h) ==
  /\ tpc[t] = "runs" /\ h \in handles[t]
  /\ Release(t, h)
  /\ UNCHANGED <<tpc, thread, trampoline, wanted, param, task, asked, target,
                 storage>>

-----------------------------------------------------------------------------
(* cpr_tls_*                                                               *)

locals == <<thread, trampoline, wanted, param, task, asked, handles, target>>

\* The malloc; when it fails nothing has changed.
tls_create ==
  /\ Advance(MainThread, "runs", "has_tls") /\ tls = None
  /\ malloc("junk", None) /\ unkeyed' = Fresh
  /\ UNCHANGED <<tls, slot, destructor, locals>>

\* Mutant: the block that got no key is forgotten.
Bug_tls_no_key ==
  /\ Advance(MainThread, "has_tls", "runs")
  /\ unkeyed' = None
  /\ UNCHANGED <<memory, tls, slot, destructor, locals>>

\* pthread_key_create has no key left.
tls_no_key ==
  /\ Advance(MainThread, "has_tls", "runs")
  /\ free({unkeyed}) /\ unkeyed' = None
  /\ UNCHANGED <<tls, slot, destructor, locals>>

\* The key comes with a destructor; its block is the call's result.
tls_key ==
  /\ Advance(MainThread, "has_tls", "runs")
  /\ cell' = [cell EXCEPT ![unkeyed] = [kind |-> "key", id |-> None]]
  /\ tls' = unkeyed /\ unkeyed' = None /\ destructor' = TRUE
  /\ UNCHANGED <<heap, slot, locals>>

\* Main destroys the key when it alone is left and has freed its own value.
tls_destroy ==
  /\ tpc[MainThread] = "runs" /\ tls # None
  /\ slot[MainThread] = None
  /\ \A s \in Started : tpc[s] \in {"unborn", "exited"}
  /\ free({tls}) /\ tls' = None /\ destructor' = FALSE
  /\ UNCHANGED <<slot, unkeyed, threads>>

tls_set(t, value) == slot' = [slot EXCEPT ![t] = value]

\* A thread stores a block of its own, or frees what cpr_tls_get answers.  When
\* its malloc or the set fails it has what it had before: a set that fails
\* stores nothing, and the caller frees the block.
keep_value(t) ==
  /\ tpc[t] = "runs" /\ tls # None /\ slot[t] = None
  /\ malloc("value", t)
  /\ tls_set(t, Fresh)
  /\ UNCHANGED <<threads, tls, unkeyed, destructor>>

tls_get(t) == slot[t]

free_value(t) ==
  /\ tpc[t] = "runs" /\ tls # None /\ tls_get(t) # None
  /\ free({tls_get(t)})
  /\ tls_set(t, None)
  /\ UNCHANGED <<threads, tls, unkeyed, destructor>>

\* What a thread does once its fn no longer asks for anything new: go on with
\* the call it is in; return, which it must be rid of its handles for.
Continue(t) ==
  \/ t \in Started /\ (trampoline_copy(t) \/ trampoline_free(t))
  \/ create_no_trampoline(t) \/ create_trampoline(t)
  \/ create_no_spawn(t) \/ \E s \in Started : create_spawn(t, s)
  \/ thrd_join_end(t)
  \/ t = MainThread /\ (tls_no_key \/ tls_key)
Finish(t) ==
  \/ \E h \in handles[t] : (thrd_join(t, h) \/ thrd_detach(t, h))
  \/ trampoline_exit(t)

ThreadNext ==
  \/ \E t \in Everyone : \/ thrd_create(t) \/ keep_value(t) \/ free_value(t)
                         \/ Continue(t) \/ Finish(t)
  \/ tls_create \/ tls_destroy

\* The system runs every thread, and the fn of every thread comes to its end
\* (strongly fair: it may be in and out of calls until then).
ThreadFairness == \A t \in Everyone : WF_tvars(Continue(t)) /\ SF_tvars(Finish(t))

ThreadSpec == ThreadInit /\ [][ThreadNext]_tvars /\ ThreadFairness

-----------------------------------------------------------------------------
(* Properties *)

\* Every block has one owner, and only blocks with an owner are allocated:
\* nothing leaks or is freed twice or used after it was freed, whichever
\* allocation or system call of whichever thread fails.
Owners(a) ==
  {<<"thread", t>> : t \in {u \in Everyone : thread[u] = a}}
    \cup {<<"trampoline", t>> : t \in {u \in Everyone : trampoline[u] = a}}
    \cup {<<"param", s>> : s \in {u \in Started : param[u] = a}}
    \cup {<<"handle", t>> : t \in {u \in Everyone : a \in handles[u]}}
    \cup {<<"slot", t>> : t \in {u \in Everyone : slot[u] = a}}
    \cup {<<"key", MainThread>> : k \in {tls} \cap {a}}
    \cup {<<"unkeyed", MainThread>> : k \in {unkeyed} \cap {a}}
EveryBlockHasOneOwner ==
  \A a \in Address : Cardinality(Owners(a)) = (IF a \in heap THEN 1 ELSE 0)

\* A thread runs the fn and arg it was created for, with whatever creations its
\* start is interleaved; its value is the one it stored.
EachItsOwn ==
  /\ \A s \in Started : tpc[s] \notin {"unborn", "born"} => task[s] = asked[s]
  /\ \A t \in Everyone : slot[t] # None => cell[slot[t]] = [kind |-> "value", id |-> t]

\* A join returns: whom it waits for waits for none that wait for it.
JoinsReturn == \A t \in Everyone : tpc[t] = "joins" ~> tpc[t] = "runs"
=============================================================================
