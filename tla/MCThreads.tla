------------------------------ MODULE MCThreads -------------------------------
(***************************************************************************)
(* Sync and Thread share nothing, so TLC explores one of them at a time:   *)
(* subject says which one runs.                                            *)
(*                                                                         *)
(* The programs for Sync are those of tests/test_mutex.c, test_condvar.c   *)
(* and test_rwlock.c and mixtures of the calls they are made of.           *)
(***************************************************************************)
EXTENDS Sync, Thread, TLC

CONSTANTS w1, w2

Call0(op)   == <<[op |-> op, flag |-> "none", n |-> 0]>>
Guarded(take, body, release) ==
  <<[op |-> take, flag |-> "none", n |-> Len(body) + 1]>> \o body \o Call0(release)
Await(flag, n) == <<[op |-> "wait", flag |-> flag, n |-> n]>>
Add(flag)      == <<[op |-> "add", flag |-> flag, n |-> 0]>>

Locked(body)     == Guarded("mutex_lock", body, "mutex_unlock")
TryLocked(body)  == Guarded("mutex_trylock", body, "mutex_unlock")
Reading(body)    == Guarded("rwlock_lckread", body, "rwlock_ulckread")
TryReading(body) == Call0("clear_error") \o Guarded("rwlock_try_lckread", body, "rwlock_ulckread")
Writing(body)    == Guarded("rwlock_lckwrite", body, "rwlock_ulckwrite")
TryWriting(body) == Call0("clear_error") \o Guarded("rwlock_try_lckwrite", body, "rwlock_ulckwrite")

Look      == Call0("look")
LookTwice == Look \o Look
Increment == Look \o Call0("count")

Lifetime(body) == Call0("init") \o Call0("create") \o body
                    \o Call0("join") \o Call0("destroy")
Program(main, first, second) == Main :> Lifetime(main) @@ w1 :> first @@ w2 :> second

\* A worker announces itself and waits for its release; Main waits for all of
\* them, does something, and releases them.
Arrive(tell) == Locked(Add("arrived") \o Call0(tell) \o Await("release", 1))
Release1(n, body, tell) ==
  Locked(Await("arrived", n) \o body \o Add("release") \o Call0(tell))

\* Threads that contend for one lock, each in one of several ways.
MutexUses  == {Locked(Increment), TryLocked(Increment),
               Locked(Increment) \o TryLocked(Increment)}
RwLockUses == {Reading(LookTwice), Writing(Increment),
               TryReading(Look) \o TryWriting(Increment)}

Meetings ==
  {Program(Release1(2, TryWriting(Increment), "condvar_broadcast"),
           Reading(Arrive("condvar_broadcast")), Reading(Arrive("condvar_broadcast"))),
   Program(Release1(1, TryReading(Look), "condvar_signal"),
           Writing(Arrive("condvar_signal") \o Increment), TryReading(Look)),
   Program(Release1(2, Increment, "condvar_broadcast"),
           Locked(Add("arrived") \o Call0("condvar_broadcast") \o Await("release", 1) \o Increment),
           Locked(Add("arrived") \o Call0("condvar_broadcast") \o Await("release", 1) \o Increment))}

NoProgram == [t \in {Main, w1, w2} |-> <<>>]

TestPrograms ==
  {NoProgram} \cup Meetings
    \cup {Program(a, b, c) : a \in MutexUses, b \in MutexUses, c \in MutexUses}
    \cup {Program(a, b, c) : a \in RwLockUses, b \in RwLockUses, c \in RwLockUses}

VARIABLE subject
mcvars == <<svars, tvars, subject>>

MCInit ==
  /\ SyncInit /\ ThreadInit
  /\ subject \in {"sync", "thread"}
  /\ (prog = NoProgram) <=> (subject # "sync")

RunsSync(A)   == subject = "sync" /\ A /\ UNCHANGED <<tvars, subject>>
RunsThread(A) == subject = "thread" /\ A /\ UNCHANGED <<svars, subject>>

MCNext == RunsSync(SyncNext) \/ RunsThread(ThreadNext)

MCFairness ==
  /\ \A t \in People : WF_mcvars(RunsSync(SyncStep(t)))
  /\ \A t \in Everyone : /\ WF_mcvars(RunsThread(Continue(t)))
                         /\ SF_mcvars(RunsThread(Finish(t)))

MCSpec == MCInit /\ [][MCNext]_mcvars /\ MCFairness
=============================================================================
