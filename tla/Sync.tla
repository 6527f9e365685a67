--------------------------------- MODULE Sync ---------------------------------
(***************************************************************************)
(* src/sync.c on POSIX: a mutex, a condition variable and a read-write     *)
(* lock, and threads that use them.  A thread runs a program, a sequence   *)
(* of calls; Main initializes the objects, creates the other threads,      *)
(* joins them and destroys the objects, as the tests do.  Programs use the *)
(* objects as sync.h asks for, so a call fails only with CPR_ERR_BUSY; an  *)
(* init may also fail for want of resources.                               *)
(*                                                                         *)
(* The waiting, waking and granting is pthreads' (glibc: readers go first).*)
(***************************************************************************)
EXTENDS Integers, Sequences

CONSTANTS
  Workers, Main,   \* the threads
  Nobody,          \* in place of a thread
  Programs,        \* functions from threads to sequences of calls
  MaxSpurious      \* bound on the wakeups nobody asked for

People  == Workers \cup {Main}
Objects == {"mutex", "condvar", "rwlock"}

MutexTakes == {"mutex_lock", "mutex_trylock"}
ReadTakes  == {"rwlock_lckread", "rwlock_try_lckread"}
WriteTakes == {"rwlock_lckwrite", "rwlock_try_lckwrite"}
Tries      == {"mutex_trylock", "rwlock_try_lckread", "rwlock_try_lckwrite"}
Calls ==
  [op : MutexTakes \cup ReadTakes \cup WriteTakes
          \cup {"mutex_unlock", "rwlock_ulckread", "rwlock_ulckwrite", "wait",
                "condvar_signal", "condvar_broadcast", "init", "destroy", "clear_error",
                "create", "join", "add", "look", "count"},
   flag : {"none", "arrived", "release"}, n : Nat]

\* Before its k-th call, thread program p has taken a lock and not given it back.
Took(p, k, takes, gives) ==
  \E i \in 1 .. k - 1 : /\ p[i].op \in takes
                        /\ \A j \in i + 1 .. k - 1 : p[j].op \notin gives
MutexAt(p, k)  == Took(p, k, MutexTakes, {"mutex_unlock"})
ReadsAt(p, k)  == Took(p, k, ReadTakes, {"rwlock_ulckread"})
WritesAt(p, k) == Took(p, k, WriteTakes, {"rwlock_ulckwrite"})
SameLocks(p, k, l) ==
  (MutexAt(p, k) <=> MutexAt(p, l)) /\ (ReadsAt(p, k) <=> ReadsAt(p, l))
                                    /\ (WritesAt(p, k) <=> WritesAt(p, l))

\* What sync.h asks of a thread: it takes no lock it has, gives back only what it
\* has, waits with the mutex, and skips what a refused lock was for.
Disciplined(p) ==
  /\ \A k \in 1 .. Len(p) :
       /\ p[k].op \in MutexTakes => ~MutexAt(p, k)
       /\ p[k].op \in {"mutex_unlock", "wait"} => MutexAt(p, k)
       /\ p[k].op \in ReadTakes \cup WriteTakes => ~ReadsAt(p, k) /\ ~WritesAt(p, k)
       /\ p[k].op = "rwlock_ulckread" => ReadsAt(p, k)
       /\ p[k].op = "rwlock_ulckwrite" => WritesAt(p, k)
       /\ p[k].op \in Tries =>
            p[k].n > 0 /\ k + p[k].n <= Len(p) /\ SameLocks(p, k, k + 1 + p[k].n)
       /\ p[k].op = "init" => k = 1
  /\ SameLocks(p, 1, Len(p) + 1)

\* Thread program p looks at the data under the lock that guards it, and changes
\* it where that lock excludes all others.
Respects(p, guard) ==
  \A k \in 1 .. Len(p) :
    /\ p[k].op = "look" => IF guard = "mutex" THEN MutexAt(p, k)
                                              ELSE ReadsAt(p, k) \/ WritesAt(p, k)
    /\ p[k].op = "count" => IF guard = "mutex" THEN MutexAt(p, k) ELSE WritesAt(p, k)

ASSUME SyncAssumption ==
  /\ Main \notin Workers /\ Nobody \notin People
  /\ MaxSpurious \in Nat
  /\ \A p \in Programs :
       /\ p \in [People -> Seq(Calls)]
       /\ \A t \in People : Disciplined(p[t])
       /\ \E guard \in {"mutex", "rwlock"} : \A t \in People : Respects(p[t], guard)

VARIABLES
  prog, at,           \* each thread's program, and its next call there
  live, created,      \* the objects initialized; have the workers started?
  owner,              \* the mutex
  sleeping, waking,   \* the condition variable: who waits, who was woken and
                      \* has not got the mutex back yet
  readers, writer,    \* the read-write lock
  serror, refused,    \* what cpr_get_error answers each thread; who was refused
                      \* a lock since it last cleared its error
  flags,              \* the counters the programs wait for
  tally, seen,        \* the data the locks protect; what a thread that may
                      \* look at it found there
  spurious

objects == <<live, owner, sleeping, waking, readers, writer>>
data    == <<flags, tally, seen>>
svars   == <<prog, at, created, objects, serror, refused, data, spurious>>

Unseen == -1

SyncInit ==
  /\ prog \in Programs
  /\ at = [t \in People |-> 1]
  /\ live = {} /\ created = FALSE
  /\ owner = Nobody /\ sleeping = {} /\ waking = {}
  /\ readers = {} /\ writer = Nobody
  /\ serror = [t \in People |-> "ok"] /\ refused = {}
  /\ flags = [f \in {"arrived", "release"} |-> 0]
  /\ tally = 0 /\ seen = [t \in People |-> Unseen]
  /\ spurious = 0

-----------------------------------------------------------------------------
Done(t)  == at[t] > Len(prog[t])
Now(t)   == prog[t][at[t]]
Runs(t)  == ~Done(t) /\ (t = Main \/ created) /\ t \notin sleeping \cup waking
Doing(t, op) == Runs(t) /\ Now(t).op = op

\* S_ERROR is __thread: a call writes the record of the thread that makes it.
\* Mutant: one record for the process.
Bug_set_error(t, code) == serror' = [u \in People |-> code]
set_error(t, code) == serror' = [serror EXCEPT ![t] = code]

\* The call returns: with true, with CPR_ERR_BUSY (the program then skips what
\* it does under the lock), or with CPR_ERR_SYNC (the program ends).
Succeed(t) == at' = [at EXCEPT ![t] = @ + 1] /\ UNCHANGED <<serror, refused>>
Busy(t) ==
  /\ at' = [at EXCEPT ![t] = @ + 1 + Now(t).n]
  /\ set_error(t, "busy")
  /\ refused' = refused \cup {t}
GiveUp(t) ==
  /\ at' = [at EXCEPT ![t] = Len(prog[t]) + 1]
  /\ set_error(t, "sync")
  /\ UNCHANGED refused
clear_error(t) ==
  /\ Doing(t, "clear_error")
  /\ at' = [at EXCEPT ![t] = @ + 1]
  /\ set_error(t, "ok")
  /\ refused' = refused \ {t}
  /\ UNCHANGED <<prog, created, objects, data, spurious>>

\* Who lets go of a lock no longer looks at the data.
Forget(t) == seen' = [seen EXCEPT ![t] = Unseen] /\ UNCHANGED <<flags, tally>>

-----------------------------------------------------------------------------
(* cpr_mutex_*                                                             *)

initialize(t, object) ==
  /\ Doing(t, "init") /\ object \notin live
  /\ \/ /\ live' = live \cup {object}
        /\ IF Objects \subseteq live' THEN Succeed(t) ELSE UNCHANGED <<at, serror, refused>>
     \/ UNCHANGED live /\ GiveUp(t)
  /\ UNCHANGED <<prog, created, owner, sleeping, waking, readers, writer, data, spurious>>

mutex_init(t)   == initialize(t, "mutex")
condvar_init(t) == "mutex" \in live /\ initialize(t, "condvar")
rwlock_init(t)  == "condvar" \in live /\ initialize(t, "rwlock")

\* The three destroys return nothing.
destroy(t) ==
  /\ Doing(t, "destroy")
  /\ live' = {}
  /\ Succeed(t)
  /\ UNCHANGED <<prog, created, owner, sleeping, waking, readers, writer, data, spurious>>

OnMutex(t) == "mutex" \in live
              /\ UNCHANGED <<prog, created, live, sleeping, waking, readers, writer, spurious>>

mutex_lock(t) ==
  /\ Doing(t, "mutex_lock") /\ OnMutex(t)
  /\ owner = Nobody
  /\ owner' = t
  /\ Succeed(t) /\ UNCHANGED data

mutex_trylock(t) ==
  /\ Doing(t, "mutex_trylock") /\ OnMutex(t)
  /\ \/ owner = Nobody /\ owner' = t /\ Succeed(t)
     \/ owner # Nobody /\ UNCHANGED owner /\ Busy(t)
  /\ UNCHANGED data

mutex_unlock(t) ==
  /\ Doing(t, "mutex_unlock") /\ OnMutex(t)
  /\ owner' = Nobody
  /\ Succeed(t) /\ Forget(t)

-----------------------------------------------------------------------------
(* cpr_condvar_*                                                           *)

OnCondvar(t) == "condvar" \in live
                /\ UNCHANGED <<prog, created, live, readers, writer, spurious>>

\* while (!condition) cpr_condvar_wait(...): the caller holds the mutex, gives
\* it up and sleeps, in one step.
condition_holds(t) ==
  /\ Doing(t, "wait") /\ flags[Now(t).flag] >= Now(t).n
  /\ Succeed(t)
  /\ UNCHANGED <<prog, created, objects, data, spurious>>

condvar_wait(t) ==
  /\ Doing(t, "wait") /\ flags[Now(t).flag] < Now(t).n /\ OnCondvar(t)
  /\ owner' = Nobody
  /\ sleeping' = sleeping \cup {t}
  /\ Forget(t)
  /\ UNCHANGED <<at, serror, refused, waking>>

\* Woken, the caller must hold the mutex again before wait returns.
\* Mutant: returns without it.
Bug_reacquire(t) ==
  /\ t \in waking /\ OnCondvar(t)
  /\ waking' = waking \ {t}
  /\ UNCHANGED <<at, serror, refused, owner, sleeping, data>>

reacquire(t) ==
  /\ t \in waking /\ OnCondvar(t)
  /\ owner = Nobody
  /\ owner' = t
  /\ waking' = waking \ {t}
  /\ UNCHANGED <<at, serror, refused, sleeping, data>>

Wake(T) == sleeping' = sleeping \ T /\ waking' = waking \cup T

condvar_signal(t) ==
  /\ Doing(t, "condvar_signal") /\ OnCondvar(t)
  /\ \/ \E u \in sleeping : Wake({u})
     \/ sleeping = {} /\ Wake({})
  /\ Succeed(t)
  /\ UNCHANGED <<owner, data>>

\* Mutant: pthread_cond_signal in its place.
Bug_condvar_broadcast(t) ==
  /\ Doing(t, "condvar_broadcast") /\ OnCondvar(t)
  /\ \/ \E u \in sleeping : Wake({u})
     \/ sleeping = {} /\ Wake({})
  /\ Succeed(t)
  /\ UNCHANGED <<owner, data>>

condvar_broadcast(t) ==
  /\ Doing(t, "condvar_broadcast") /\ OnCondvar(t)
  /\ Wake(sleeping)
  /\ Succeed(t)
  /\ UNCHANGED <<owner, data>>

\* pthread_cond_wait may return though nobody signaled.
spurious_wakeup(t) ==
  /\ t \in sleeping /\ spurious < MaxSpurious
  /\ Wake({t})
  /\ spurious' = spurious + 1
  /\ UNCHANGED <<prog, at, created, live, owner, readers, writer, serror, refused, data>>

-----------------------------------------------------------------------------
(* cpr_rwlock_*                                                            *)

OnRwlock(t) == "rwlock" \in live
               /\ UNCHANGED <<prog, created, live, owner, sleeping, waking, spurious>>

MayRead  == writer = Nobody
MayWrite == writer = Nobody /\ readers = {}

rwlock_lckread(t) ==
  /\ Doing(t, "rwlock_lckread") /\ OnRwlock(t)
  /\ MayRead
  /\ readers' = readers \cup {t}
  /\ Succeed(t) /\ UNCHANGED <<writer, data>>

rwlock_try_lckread(t) ==
  /\ Doing(t, "rwlock_try_lckread") /\ OnRwlock(t)
  /\ \/ MayRead /\ readers' = readers \cup {t} /\ Succeed(t)
     \/ ~MayRead /\ UNCHANGED readers /\ Busy(t)
  /\ UNCHANGED <<writer, data>>

\* One pthread_rwlock_unlock serves readers and writers.
rwlock_ulckread(t) ==
  /\ Doing(t, "rwlock_ulckread") /\ OnRwlock(t)
  /\ readers' = readers \ {t}
  /\ Succeed(t) /\ Forget(t) /\ UNCHANGED writer

rwlock_lckwrite(t) ==
  /\ Doing(t, "rwlock_lckwrite") /\ OnRwlock(t)
  /\ MayWrite
  /\ writer' = t
  /\ Succeed(t) /\ UNCHANGED <<readers, data>>

\* Mutant: asks for the lock a reader asks for.
Bug_rwlock_try_lckwrite(t) ==
  /\ Doing(t, "rwlock_try_lckwrite") /\ OnRwlock(t)
  /\ \/ MayRead /\ writer' = t /\ Succeed(t)
     \/ ~MayRead /\ UNCHANGED writer /\ Busy(t)
  /\ UNCHANGED <<readers, data>>

rwlock_try_lckwrite(t) ==
  /\ Doing(t, "rwlock_try_lckwrite") /\ OnRwlock(t)
  /\ \/ MayWrite /\ writer' = t /\ Succeed(t)
     \/ ~MayWrite /\ UNCHANGED writer /\ Busy(t)
  /\ UNCHANGED <<readers, data>>

rwlock_ulckwrite(t) ==
  /\ Doing(t, "rwlock_ulckwrite") /\ OnRwlock(t)
  /\ writer' = Nobody
  /\ Succeed(t) /\ Forget(t) /\ UNCHANGED readers

-----------------------------------------------------------------------------
(* What the threads do between the calls.                                  *)

create(t) ==
  /\ Doing(t, "create")
  /\ created' = TRUE
  /\ Succeed(t)
  /\ UNCHANGED <<prog, objects, data, spurious>>

join(t) ==
  /\ Doing(t, "join")
  /\ \A w \in Workers : Done(w)
  /\ Succeed(t)
  /\ UNCHANGED <<prog, created, objects, data, spurious>>

add(t) ==
  /\ Doing(t, "add")
  /\ flags' = [flags EXCEPT ![Now(t).flag] = @ + 1]
  /\ Succeed(t)
  /\ UNCHANGED <<prog, created, objects, tally, seen, spurious>>

\* The two halves of (*counter)++; a reader does the first only.
look(t) ==
  /\ Doing(t, "look")
  /\ seen' = [seen EXCEPT ![t] = tally]
  /\ Succeed(t)
  /\ UNCHANGED <<prog, created, objects, flags, tally, spurious>>

count(t) ==
  /\ Doing(t, "count")
  /\ tally' = seen[t] + 1
  /\ seen' = [seen EXCEPT ![t] = tally']
  /\ Succeed(t)
  /\ UNCHANGED <<prog, created, objects, flags, spurious>>

SyncStep(t) ==
  \/ mutex_init(t) \/ condvar_init(t) \/ rwlock_init(t) \/ destroy(t)
  \/ mutex_lock(t) \/ mutex_trylock(t) \/ mutex_unlock(t)
  \/ condition_holds(t) \/ condvar_wait(t) \/ reacquire(t)
  \/ condvar_signal(t) \/ condvar_broadcast(t)
  \/ rwlock_lckread(t) \/ rwlock_try_lckread(t) \/ rwlock_ulckread(t)
  \/ rwlock_lckwrite(t) \/ rwlock_try_lckwrite(t) \/ rwlock_ulckwrite(t)
  \/ clear_error(t) \/ create(t) \/ join(t) \/ add(t) \/ look(t) \/ count(t)

AllDone == Done(Main) /\ (created => \A w \in Workers : Done(w))

SyncNext ==
  \/ \E t \in People : SyncStep(t) \/ spurious_wakeup(t)
  \/ AllDone /\ UNCHANGED svars

SyncFairness == \A t \in People : WF_svars(SyncStep(t))
SyncSpec == SyncInit /\ [][SyncNext]_svars /\ SyncFairness

-----------------------------------------------------------------------------
(* Properties *)

\* While a thread holds the lock it took, whatever lock that is, the data stays
\* as it found it or made it: no increment is lost and no reader sees a value
\* change, also across waits, wakeups and refused try-locks.
NothingChangesUnderALock ==
  \A t \in People : seen[t] # Unseen => seen[t] = tally

\* The locks t is inside with, by its program: a wait gives the mutex up.
HasMutex(t) == t \notin sleeping \cup waking /\ MutexAt(prog[t], at[t])
Reads(t)    == ReadsAt(prog[t], at[t])
Writes(t)   == WritesAt(prog[t], at[t])

\* A try-lock answers CPR_ERR_BUSY iff another thread is inside with a lock
\* that excludes the one asked for (sync.h 33, 106, 113).
BusyIffExcluded ==
  [][\A t \in People :
       LET busy == at'[t] # at[t] + 1
       IN  /\ mutex_trylock(t) => (busy <=> \E u \in People \ {t} : HasMutex(u))
           /\ rwlock_try_lckread(t) => (busy <=> \E u \in People \ {t} : Writes(u))
           /\ rwlock_try_lckwrite(t) =>
                (busy <=> \E u \in People \ {t} : Reads(u) \/ Writes(u))]_svars

\* A thread that was refused a lock still reads CPR_ERR_BUSY afterwards, whatever
\* calls of other threads succeed, fail or clear their error in between.
ErrorsArePrivate == \A t \in refused : serror[t] = "busy"

\* Every program ends: no wakeup is lost, no lock is kept, and what one thread
\* waits for another always gets to do.
EveryoneFinishes == <>AllDone
=============================================================================
