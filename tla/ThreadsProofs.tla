---------------------------- MODULE ThreadsProofs -----------------------------
(***************************************************************************)
(* Threads and thread-local values, for any number of threads, blocks and  *)
(* tasks: every block has one owner, and every thread runs what it was     *)
(* created for.  Locks, for any threads and any programs that use them as  *)
(* sync.h asks: what a lock protects does not change under it, a refusal   *)
(* has its reason, and errors are private.                                 *)
(***************************************************************************)
EXTENDS Sync, Thread, FiniteSetTheorems, TLAPS

-----------------------------------------------------------------------------
(* Owners of blocks                                                        *)

Kinds == {"thread", "trampoline", "param", "handle", "slot", "key", "unkeyed"}

\* t owns block a in one of the ways of Kinds.
Owns(k, t, a) ==
  \/ k = "thread" /\ t \in Everyone /\ thread[t] = a
  \/ k = "trampoline" /\ t \in Everyone /\ trampoline[t] = a
  \/ k = "param" /\ t \in Started /\ param[t] = a
  \/ k = "handle" /\ t \in Everyone /\ a \in handles[t]
  \/ k = "slot" /\ t \in Everyone /\ slot[t] = a
  \/ k = "key" /\ t = MainThread /\ tls = a
  \/ k = "unkeyed" /\ t = MainThread /\ unkeyed = a

Pointers == Address \cup {None}
InCreate == {"has_thread", "spawns"}
Starting == {"born", "copied"}
Gone     == {"unborn", "exited"}

CellKinds == {"junk", "thread", "trampoline", "key", "value"}
Cells == [kind : CellKinds, id : Nat]

TTypes ==
  /\ heap \subseteq Address /\ cell \in [Address -> Cells]
  /\ tpc \in [Everyone -> InCreate \cup Starting \cup Gone \cup {"runs", "joins", "has_tls"}]
  /\ thread \in [Everyone -> Pointers] /\ trampoline \in [Everyone -> Pointers]
  /\ wanted \in [Everyone -> Nat]
  /\ param \in [Started -> Pointers]
  /\ task \in [Started -> Nat] /\ asked \in [Started -> Nat]
  /\ handles \in [Everyone -> SUBSET Address] /\ target \in [Everyone -> Pointers]
  /\ tls \in Pointers /\ unkeyed \in Pointers /\ slot \in [Everyone -> Pointers] /\ destructor \in BOOLEAN

\* Where a thread is tells which blocks it holds.
Holdings ==
  /\ \A t \in Everyone :
       /\ thread[t] # None <=> tpc[t] \in InCreate
       /\ trampoline[t] # None <=> tpc[t] = "spawns"
       /\ tpc[t] = "joins" => target[t] \in handles[t]
       /\ tpc[t] \in Gone => slot[t] = None
       /\ slot[t] # None => tls # None
  /\ \A s \in Started : param[s] # None <=> tpc[s] \in Starting
  /\ destructor <=> tls # None
  /\ unkeyed # None <=> tpc[MainThread] = "has_tls"
  /\ unkeyed # None => tls = None

OneOwner ==
  \A a \in Address :
    /\ a \in heap => \E k \in Kinds, t \in Everyone : Owns(k, t, a)
    /\ \A k, t : Owns(k, t, a) =>
         a \in heap /\ \A l, u : Owns(l, u, a) => l = k /\ u = t

\* A block that holds a task or a value has it from its owner.
Contents ==
  /\ \A t \in Everyone : /\ tpc[t] = "spawns" => cell[trampoline[t]].id = wanted[t]
                         /\ slot[t] # None => cell[slot[t]] = [kind |-> "value", id |-> t]
  /\ \A s \in Started : /\ tpc[s] = "born" => cell[param[s]].id = asked[s]
                        /\ tpc[s] \notin {"unborn", "born"} => task[s] = asked[s]

TInv == TTypes /\ Holdings /\ OneOwner /\ Contents

LEMMA ThreadSets ==
  /\ Everyone \subseteq Nat /\ Started \subseteq Everyone /\ MainThread \in Everyone
  /\ MainThread \notin Started /\ None \notin Address /\ None \in Nat
BY ThreadAssumption DEF Everyone, Started, MainThread, None, Address

LEMMA LeastIn ==
  ASSUME NEW S, S \subseteq Nat, S # {}
  PROVE  Least(S) \in S
<1>1. PICK a \in S : \A b \in S : <<b, a>> \notin OpToRel(<, Nat)
  BY NatLessThanWellFounded, WFMin
<1>2. ASSUME NEW b \in S PROVE a <= b
  <2>1. <<b, a>> \in Nat \X Nat /\ <<b, a>>[1] = b /\ <<b, a>>[2] = a
    OBVIOUS
  <2>2. ~(b < a)
    BY <1>1, <2>1 DEF OpToRel
  <2> QED BY <2>2
<1> QED BY <1>2 DEF Least

LEMMA FreshBlock ==
  ASSUME TTypes, heap # Address
  PROVE  Fresh \in Address /\ Fresh \notin heap
<1>1. Address \ heap \subseteq Nat
  BY ThreadAssumption DEF Address
<1>2. Address \ heap # {}
  BY DEF TTypes
<1> QED BY <1>1, <1>2, LeastIn DEF Fresh

-----------------------------------------------------------------------------
(* How ownership passes                                                    *)

\* A block allocated gets its first owner.
LEMMA Allocated ==
  ASSUME TTypes, OneOwner, NEW k0 \in Kinds, NEW t0 \in Everyone,
         NEW b \in Address, b \notin heap, heap' = heap \cup {b},
         \A k, t : \A a \in Address :
           Owns(k, t, a)' <=> Owns(k, t, a) \/ (k = k0 /\ t = t0 /\ a = b)
  PROVE  OneOwner'
<1>1. \A k, t : ~Owns(k, t, b)
  BY DEF OneOwner
<1> SUFFICES ASSUME NEW a \in Address
             PROVE  /\ a \in heap' => \E k \in Kinds, t \in Everyone : Owns(k, t, a)'
                    /\ \A k, t : Owns(k, t, a)' =>
                         a \in heap' /\ \A l, u : Owns(l, u, a)' => l = k /\ u = t
  BY DEF OneOwner, Address, Everyone, Started, MainThread
<1>2. CASE a = b
  BY <1>1, <1>2
<1>3. CASE a # b
  <2>1. \A k, t : Owns(k, t, a)' <=> Owns(k, t, a)
    BY <1>3
  <2>2. a \in heap' <=> a \in heap
    BY <1>3
  <2> HIDE DEF Owns
  <2> QED BY <2>1, <2>2 DEF OneOwner
<1> QED BY <1>2, <1>3

\* Blocks freed lose their owners.
LEMMA Freed ==
  ASSUME OneOwner, NEW B, heap' = heap \ B,
         \A k, t : \A a \in Address : Owns(k, t, a)' <=> Owns(k, t, a) /\ a \notin B
  PROVE  OneOwner'
<1> SUFFICES ASSUME NEW a \in Address
             PROVE  /\ a \in heap' => \E k \in Kinds, t \in Everyone : Owns(k, t, a)'
                    /\ \A k, t : Owns(k, t, a)' =>
                         a \in heap' /\ \A l, u : Owns(l, u, a)' => l = k /\ u = t
  BY DEF OneOwner, Address, Everyone, Started, MainThread
<1>1. CASE a \in B
  BY <1>1
<1>2. CASE a \notin B
  <2>1. \A k, t : Owns(k, t, a)' <=> Owns(k, t, a)
    BY <1>2
  <2>2. a \in heap' <=> a \in heap
    BY <1>2
  <2> QED BY <2>1, <2>2 DEF OneOwner
<1> QED BY <1>1, <1>2

\* Blocks that change hands have one owner before and after.
LEMMA Passed ==
  ASSUME OneOwner, heap' = heap,
         NEW b1 \in heap, NEW b2 \in heap, b1 # b2,
         NEW k1 \in Kinds, NEW k2 \in Kinds, NEW t1 \in Everyone, NEW t2 \in Everyone,
         \A k, t : \A a \in Address :
           Owns(k, t, a)' <=> \/ Owns(k, t, a) /\ a \notin {b1, b2}
                              \/ k = k1 /\ t = t1 /\ a = b1
                              \/ k = k2 /\ t = t2 /\ a = b2
  PROVE  OneOwner'
<1> SUFFICES ASSUME NEW a \in Address
             PROVE  /\ a \in heap' => \E k \in Kinds, t \in Everyone : Owns(k, t, a)'
                    /\ \A k, t : Owns(k, t, a)' =>
                         a \in heap' /\ \A l, u : Owns(l, u, a)' => l = k /\ u = t
  BY DEF OneOwner, Address, Everyone, Started, MainThread
<1>1. CASE a = b1 \/ a = b2
  BY <1>1
<1>2. CASE a \notin {b1, b2}
  <2>1. \A k, t : Owns(k, t, a)' <=> Owns(k, t, a)
    BY <1>2
  <2> QED BY <2>1 DEF OneOwner
<1> QED BY <1>1, <1>2

LEMMA PassedOne ==
  ASSUME OneOwner, heap' = heap, NEW b \in heap, NEW k0 \in Kinds, NEW t0 \in Everyone,
         \A k, t : \A a \in Address :
           Owns(k, t, a)' <=> (Owns(k, t, a) /\ a # b) \/ (k = k0 /\ t = t0 /\ a = b)
  PROVE  OneOwner'
<1> SUFFICES ASSUME NEW a \in Address
             PROVE  /\ a \in heap' => \E k \in Kinds, t \in Everyone : Owns(k, t, a)'
                    /\ \A k, t : Owns(k, t, a)' =>
                         a \in heap' /\ \A l, u : Owns(l, u, a)' => l = k /\ u = t
  BY DEF OneOwner, Address, Everyone, Started, MainThread
<1>1. CASE a = b
  BY <1>1
<1>2. CASE a # b
  <2>1. \A k, t : Owns(k, t, a)' <=> Owns(k, t, a)
    BY <1>2
  <2> QED BY <2>1 DEF OneOwner
<1> QED BY <1>1, <1>2

LEMMA NotPassed ==
  ASSUME OneOwner, heap' = heap,
         \A k, t : \A a \in Address : Owns(k, t, a)' <=> Owns(k, t, a)
  PROVE  OneOwner'
BY DEF OneOwner, Address, Everyone, Started, MainThread

-----------------------------------------------------------------------------
(* The steps of the threads                                                *)

LEMMA ThreadInitial ==
  ThreadInit => TInv
<1> SUFFICES ASSUME ThreadInit PROVE TInv  OBVIOUS
<1>1. TTypes
  BY ThreadSets DEF ThreadInit, TTypes, Junk, Cells, CellKinds, Pointers, InCreate, Starting, Gone
<1>2. Holdings
  BY ThreadSets DEF ThreadInit, Holdings, InCreate, Starting, Gone
<1>3. OneOwner
  BY ThreadSets DEF ThreadInit, OneOwner, Owns
<1>4. Contents
  BY ThreadSets DEF ThreadInit, Contents
<1> QED BY <1>1, <1>2, <1>3, <1>4 DEF TInv

\* The pointers a thread holds are to blocks that are its own.
LEMMA OwnPointers ==
  ASSUME TInv, NEW t \in Everyone
  PROVE  /\ tpc[t] \in InCreate => thread[t] \in heap /\ Owns("thread", t, thread[t])
         /\ tpc[t] = "spawns" => trampoline[t] \in heap /\ Owns("trampoline", t, trampoline[t])
         /\ t \in Started /\ tpc[t] \in Starting => param[t] \in heap /\ Owns("param", t, param[t])
         /\ slot[t] # None => slot[t] \in heap /\ Owns("slot", t, slot[t])
         /\ \A h \in handles[t] : h \in heap /\ Owns("handle", t, h)
         /\ tls # None => tls \in heap /\ Owns("key", MainThread, tls)
         /\ unkeyed # None => unkeyed \in heap /\ Owns("unkeyed", MainThread, unkeyed)
<1>1. TTypes /\ Holdings /\ OneOwner
  BY DEF TInv
<1>2. /\ tpc[t] \in InCreate => thread[t] \in Address
      /\ tpc[t] = "spawns" => trampoline[t] \in Address
      /\ t \in Started /\ tpc[t] \in Starting => param[t] \in Address
      /\ slot[t] # None => slot[t] \in Address
      /\ handles[t] \subseteq Address
      /\ tls # None => tls \in Address
      /\ unkeyed # None => unkeyed \in Address
  BY <1>1 DEF TTypes, Holdings, Pointers
<1>3. \A k, u : \A a \in Address : Owns(k, u, a) => a \in heap
  BY <1>1 DEF OneOwner
<1>4. /\ thread[t] \in Address => Owns("thread", t, thread[t])
      /\ trampoline[t] \in Address => Owns("trampoline", t, trampoline[t])
      /\ t \in Started /\ param[t] \in Address => Owns("param", t, param[t])
      /\ slot[t] \in Address => Owns("slot", t, slot[t])
      /\ \A h \in handles[t] : Owns("handle", t, h)
      /\ tls \in Address => Owns("key", MainThread, tls)
      /\ unkeyed \in Address => Owns("unkeyed", MainThread, unkeyed)
  BY DEF Owns
<1> QED BY <1>2, <1>3, <1>4

LEMMA Unique ==
  ASSUME TInv, NEW a \in heap, NEW k, NEW t, NEW l, NEW u, Owns(k, t, a), Owns(l, u, a)
  PROVE  l = k /\ u = t
BY DEF TInv, TTypes, OneOwner

\* An allocation leaves the contents of the blocks in use as they are.
LEMMA MallocKeeps ==
  ASSUME TInv, NEW kind \in CellKinds, NEW id \in Nat, malloc(kind, id)
  PROVE  /\ Fresh \in Address /\ Fresh \notin heap /\ heap' = heap \cup {Fresh}
         /\ heap' \subseteq Address /\ cell' \in [Address -> Cells]
         /\ \A a \in heap : cell'[a] = cell[a]
         /\ cell'[Fresh] = [kind |-> kind, id |-> id]
<1>1. Fresh \in Address /\ Fresh \notin heap
  BY FreshBlock DEF TInv, malloc
<1> QED BY <1>1 DEF malloc, TInv, TTypes, Cells

LEMMA FreeKeeps ==
  ASSUME TInv, NEW B, free(B)
  PROVE  /\ heap' = heap \ B /\ heap' \subseteq Address
         /\ cell' \in [Address -> Cells]
         /\ \A a \in heap : a \notin B => cell'[a] = cell[a]
BY ThreadSets DEF free, TInv, TTypes, Junk, Cells, CellKinds

LEMMA CreateStarts ==
  ASSUME TInv, NEW t \in Everyone, thrd_create(t)
  PROVE  TInv'
<1>0. /\ TTypes /\ Holdings /\ OneOwner
      /\ tpc[t] = "runs" /\ tpc' = [tpc EXCEPT ![t] = "has_thread"]
      /\ thread' = [thread EXCEPT ![t] = Fresh] /\ thread[t] = None
      /\ UNCHANGED <<trampoline, param, task, asked, handles, target, tls, unkeyed, slot, destructor>>
  BY DEF TInv, Holdings, thrd_create, Advance, storage, InCreate
<1>1. /\ Fresh \in Address /\ Fresh \notin heap /\ heap' = heap \cup {Fresh}
      /\ heap' \subseteq Address /\ cell' \in [Address -> Cells]
      /\ \A a \in heap : cell'[a] = cell[a]
  <2>1. malloc("junk", None) /\ "junk" \in CellKinds
    BY DEF thrd_create, CellKinds
  <2> QED BY <2>1, MallocKeeps, ThreadSets
<1>2. wanted' \in [Everyone -> Nat] /\ \A u \in Everyone : u # t => wanted'[u] = wanted[u]
  <2>1. Tasks \ InUse \subseteq Nat
    BY ThreadAssumption
  <2>2. Least(Tasks \ InUse) \in Nat
    BY <2>1, LeastIn DEF thrd_create
  <2> QED BY <1>0, <2>2 DEF TTypes, thrd_create
<1>3. TTypes'
  BY <1>0, <1>1, <1>2 DEF TTypes, Pointers, InCreate
<1>4. Holdings'
  BY <1>0, <1>1, ThreadSets DEF TTypes, Holdings, InCreate, Starting, Gone
<1>5. OneOwner'
  <2>1. \A k, u : \A a \in Address :
          Owns(k, u, a)' <=> Owns(k, u, a) \/ (k = "thread" /\ u = t /\ a = Fresh)
    BY <1>0, ThreadSets DEF Owns, TTypes
  <2> QED BY <1>0, <1>1, <2>1, Allocated DEF Kinds
<1>6. Contents'
  <2>1. \A u \in Everyone : /\ tpc'[u] = "spawns" => tpc[u] = "spawns" /\ u # t
                            /\ tpc'[u] = "born" => tpc[u] = "born"
                            /\ tpc'[u] \notin {"unborn", "born"} => tpc[u] \notin {"unborn", "born"}
    BY <1>0 DEF TTypes
  <2>2. \A u \in Everyone : /\ tpc[u] = "spawns" => trampoline[u] \in heap
                            /\ slot[u] # None => slot[u] \in heap
                            /\ u \in Started /\ tpc[u] = "born" => param[u] \in heap
    BY OwnPointers DEF Starting
  <2> QED BY <1>0, <1>1, <1>2, <2>1, <2>2, ThreadSets DEF TInv, Contents
<1> QED BY <1>3, <1>4, <1>5, <1>6 DEF TInv

\* Both failures: thread[t] is freed, and trampoline[t] if there is one.
LEMMA CreateFails ==
  ASSUME TInv, NEW t \in Everyone, create_no_trampoline(t) \/ create_no_spawn(t)
  PROVE  TInv'
<1> DEFINE B == {thread[t], trampoline[t]} \ {None}
<1>0. /\ TTypes /\ Holdings /\ OneOwner
      /\ tpc[t] \in InCreate /\ tpc' = [tpc EXCEPT ![t] = "runs"]
      /\ thread' = [thread EXCEPT ![t] = None] /\ trampoline' = [trampoline EXCEPT ![t] = None]
      /\ wanted' = [wanted EXCEPT ![t] = None]
      /\ UNCHANGED <<param, task, asked, handles, target, tls, unkeyed, slot, destructor>>
  BY DEF TInv, create_no_trampoline, create_no_spawn, Abandon, storage, InCreate
<1>1. free(B)
  <2>1. CASE tpc[t] = "has_thread"
    <3>1. trampoline[t] = None /\ thread[t] # None /\ free({thread[t]})
      BY <1>0, <2>1 DEF Holdings, create_no_trampoline, create_no_spawn
    <3>2. B = {thread[t]}
      BY <3>1
    <3> QED BY <3>1, <3>2
  <2>2. CASE tpc[t] = "spawns"
    <3>1. trampoline[t] # None /\ thread[t] # None /\ free({thread[t], trampoline[t]})
      BY <1>0, <2>2 DEF Holdings, create_no_trampoline, create_no_spawn
    <3>2. B = {thread[t], trampoline[t]}
      BY <3>1
    <3> QED BY <3>1, <3>2
  <2> QED BY <1>0, <2>1, <2>2 DEF InCreate
<1>2. \A a \in B : a \in heap /\ \A k, u : Owns(k, u, a) => u = t /\ k \in {"thread", "trampoline"}
  <2>1. /\ thread[t] # None => thread[t] \in heap /\ Owns("thread", t, thread[t])
        /\ trampoline[t] # None => trampoline[t] \in heap /\ Owns("trampoline", t, trampoline[t])
    BY <1>0, OwnPointers DEF Holdings
  <2> QED BY <2>1, Unique
<1>3. /\ heap' = heap \ B /\ heap' \subseteq Address
      /\ cell' \in [Address -> Cells]
      /\ \A a \in heap : a \notin B => cell'[a] = cell[a]
  BY <1>1, FreeKeeps
<1>4. TTypes'
  BY <1>0, <1>3, ThreadSets DEF TTypes, Pointers
<1>5. Holdings'
  BY <1>0, ThreadSets DEF TTypes, Holdings, InCreate, Starting, Gone
<1>6. OneOwner'
  <2>1. \A a \in B : a = thread[t] \/ a = trampoline[t]
    OBVIOUS
  <2>2. thread[t] \in Address => thread[t] \in B
    BY ThreadSets
  <2>3. trampoline[t] \in Address => trampoline[t] \in B
    BY ThreadSets
  <2> HIDE DEF B
  <2> DEFINE Given(k, u) == u = t /\ k \in {"thread", "trampoline"}
  <2>4. \A k, u : \A a \in Address : Owns(k, u, a)' <=> Owns(k, u, a) /\ ~Given(k, u)
    BY <1>0, ThreadSets DEF Owns, TTypes
  <2>5. \A k, u : \A a \in Address : Owns(k, u, a) /\ Given(k, u) => a \in B
    BY <2>2, <2>3 DEF Owns
  <2>6. \A k, u : \A a \in Address : Owns(k, u, a)' <=> Owns(k, u, a) /\ a \notin B
    BY <1>2, <2>4, <2>5
  <2> QED BY <1>0, <1>3, <2>6, Freed
<1>7. Contents'
  <2> HIDE DEF B
  <2>1. \A u \in Everyone : /\ tpc'[u] = "spawns" => tpc[u] = "spawns" /\ u # t
                            /\ tpc'[u] = "born" => tpc[u] = "born" /\ u # t
                            /\ tpc'[u] \notin {"unborn", "born"} => tpc[u] \notin {"unborn", "born"}
    BY <1>0 DEF TTypes, InCreate
  <2>2. \A u \in Everyone :
          /\ tpc[u] = "spawns" /\ u # t => trampoline[u] \in heap /\ trampoline[u] \notin B
          /\ slot[u] # None => slot[u] \in heap /\ slot[u] \notin B
          /\ u \in Started /\ tpc[u] = "born" => param[u] \in heap /\ param[u] \notin B
    BY <1>2, OwnPointers DEF Starting
  <2> QED BY <1>0, <1>3, <2>1, <2>2, ThreadSets DEF TInv, TTypes, Contents
<1> QED BY <1>4, <1>5, <1>6, <1>7 DEF TInv

LEMMA CreateGoesOn ==
  ASSUME TInv, NEW t \in Everyone, create_trampoline(t)
  PROVE  TInv'
<1>0. /\ TTypes /\ Holdings /\ OneOwner
      /\ tpc[t] = "has_thread" /\ tpc' = [tpc EXCEPT ![t] = "spawns"]
      /\ trampoline' = [trampoline EXCEPT ![t] = Fresh] /\ trampoline[t] = None
      /\ wanted[t] \in Nat
      /\ UNCHANGED <<thread, wanted, param, task, asked, handles, target, tls, unkeyed, slot, destructor>>
  BY DEF TInv, TTypes, Holdings, create_trampoline, Advance, storage
<1>1. /\ Fresh \in Address /\ Fresh \notin heap /\ heap' = heap \cup {Fresh}
      /\ heap' \subseteq Address /\ cell' \in [Address -> Cells]
      /\ \A a \in heap : cell'[a] = cell[a]
      /\ cell'[Fresh] = [kind |-> "trampoline", id |-> wanted[t]]
  <2>1. malloc("trampoline", wanted[t]) /\ "trampoline" \in CellKinds
    BY DEF create_trampoline, CellKinds
  <2> QED BY <1>0, <2>1, MallocKeeps
<1>2. TTypes'
  BY <1>0, <1>1 DEF TTypes, Pointers, InCreate
<1>3. Holdings'
  BY <1>0, <1>1, ThreadSets DEF TTypes, Holdings, InCreate, Starting, Gone
<1>4. OneOwner'
  <2>1. \A k, u : \A a \in Address :
          Owns(k, u, a)' <=> Owns(k, u, a) \/ (k = "trampoline" /\ u = t /\ a = Fresh)
    BY <1>0, ThreadSets DEF Owns, TTypes
  <2> QED BY <1>0, <1>1, <2>1, Allocated DEF Kinds
<1>5. Contents'
  <2>1. \A u \in Everyone : /\ tpc'[u] = "spawns" => tpc[u] = "spawns" \/ u = t
                            /\ tpc'[u] = "born" => tpc[u] = "born"
                            /\ tpc'[u] \notin {"unborn", "born"} => tpc[u] \notin {"unborn", "born"}
    BY <1>0 DEF TTypes
  <2>2. \A u \in Everyone : /\ tpc[u] = "spawns" => trampoline[u] \in heap /\ u # t
                            /\ slot[u] # None => slot[u] \in heap
                            /\ u \in Started /\ tpc[u] = "born" => param[u] \in heap
    BY <1>0, OwnPointers DEF Starting
  <2>3. trampoline'[t] = Fresh /\ cell'[Fresh].id = wanted[t]
    BY <1>0, <1>1 DEF TTypes
  <2>4. \A u \in Everyone : u # t => trampoline'[u] = trampoline[u]
    BY <1>0 DEF TTypes
  <2> QED BY <1>0, <1>1, <2>1, <2>2, <2>3, <2>4, ThreadSets DEF TInv, Contents
<1> QED BY <1>2, <1>3, <1>4, <1>5 DEF TInv

\* The new thread and the handle take over the blocks of the creator.
LEMMA CreateEnds ==
  ASSUME TInv, NEW t \in Everyone, NEW s \in Started, create_spawn(t, s)
  PROVE  TInv'
<1> DEFINE b1 == thread[t]
           b2 == trampoline[t]
<1>0. /\ TTypes /\ Holdings /\ OneOwner
      /\ tpc[t] = "spawns" /\ tpc[s] = "unborn" /\ s # t /\ s \in Everyone
      /\ tpc' = [tpc EXCEPT ![t] = "runs", ![s] = "born"]
      /\ heap' = heap
      /\ cell' = [cell EXCEPT ![b1] = [kind |-> "thread", id |-> s]]
      /\ handles' = [handles EXCEPT ![t] = @ \cup {b1}]
      /\ param' = [param EXCEPT ![s] = b2] /\ asked' = [asked EXCEPT ![s] = wanted[t]]
      /\ thread' = [thread EXCEPT ![t] = None] /\ trampoline' = [trampoline EXCEPT ![t] = None]
      /\ wanted' = [wanted EXCEPT ![t] = None]
      /\ UNCHANGED <<task, target, tls, unkeyed, slot, destructor>>
  BY ThreadSets DEF TInv, create_spawn, storage
<1>1. /\ b1 \in heap /\ Owns("thread", t, b1) /\ b2 \in heap /\ Owns("trampoline", t, b2)
      /\ b1 \in Address /\ b2 \in Address /\ b1 # None /\ b2 # None
  <2>1. b1 \in heap /\ Owns("thread", t, b1) /\ b2 \in heap /\ Owns("trampoline", t, b2)
    BY <1>0, OwnPointers DEF InCreate
  <2> QED BY <1>0, <2>1, ThreadSets DEF TTypes
<1>2. /\ \A k, u : Owns(k, u, b1) => k = "thread" /\ u = t
      /\ \A k, u : Owns(k, u, b2) => k = "trampoline" /\ u = t
  BY <1>1, Unique
<1>3. b1 # b2
  BY <1>1, <1>2
<1>4. param[s] = None /\ param \in [Started -> Pointers]
  BY <1>0 DEF Holdings, Starting, TTypes
<1>5. TTypes'
  <2>1. [kind |-> "thread", id |-> s] \in Cells
    BY ThreadSets DEF Cells, CellKinds
  <2>2. wanted[t] \in Nat /\ thread[t] \in Pointers /\ trampoline[t] \in Pointers
    BY <1>0 DEF TTypes
  <2> QED BY <1>0, <1>1, <2>1, <2>2, ThreadSets DEF TTypes, Pointers, Starting
<1>6. Holdings'
  <2>1. \A u \in Everyone : u # t => thread'[u] = thread[u] /\ trampoline'[u] = trampoline[u]
                                      /\ handles'[u] = handles[u]
    BY <1>0 DEF TTypes
  <2>2. thread'[t] = None /\ trampoline'[t] = None /\ tpc'[t] = "runs" /\ tpc'[s] = "born"
    BY <1>0 DEF TTypes
  <2>3. \A u \in Everyone : u # t /\ u # s => tpc'[u] = tpc[u]
    BY <1>0 DEF TTypes
  <2>4. thread[s] = None /\ trampoline[s] = None
    BY <1>0 DEF Holdings, InCreate
  <2>5. \A u \in Started : u # s => param'[u] = param[u]
    BY <1>4, <1>0
  <2>6. param'[s] = b2
    BY <1>4, <1>0
  <2>7. /\ \A u \in Everyone :
             /\ thread'[u] # None <=> tpc'[u] \in InCreate
             /\ trampoline'[u] # None <=> tpc'[u] = "spawns"
             /\ tpc'[u] = "joins" => target'[u] \in handles'[u]
             /\ tpc'[u] \in Gone => slot'[u] = None
             /\ slot'[u] # None => tls' # None
    <3> SUFFICES ASSUME NEW u \in Everyone
                 PROVE  /\ thread'[u] # None <=> tpc'[u] \in InCreate
                        /\ trampoline'[u] # None <=> tpc'[u] = "spawns"
                        /\ tpc'[u] = "joins" => target'[u] \in handles'[u]
                        /\ tpc'[u] \in Gone => slot'[u] = None
                        /\ slot'[u] # None => tls' # None
      OBVIOUS
    <3>0. Holdings /\ UNCHANGED <<target, tls, slot>>
      BY <1>0
    <3>1. CASE u = t
      BY <3>0, <3>1, <2>2 DEF Holdings, InCreate, Gone
    <3>2. CASE u = s
      BY <1>0, <3>0, <3>2, <2>1, <2>2, <2>4 DEF Holdings, InCreate, Gone
    <3>3. CASE u # t /\ u # s
      BY <3>0, <3>3, <2>1, <2>3 DEF Holdings
    <3> QED BY <3>1, <3>2, <3>3
  <2>8. \A u \in Started : param'[u] # None <=> tpc'[u] \in Starting
    <3> SUFFICES ASSUME NEW u \in Started
                 PROVE  param'[u] # None <=> tpc'[u] \in Starting
      OBVIOUS
    <3>1. CASE u = s
      BY <3>1, <2>2, <2>6, <1>1 DEF Starting
    <3>2. CASE u = t
      <4>1. param[u] = None
        BY <3>2, <1>0 DEF Holdings, Starting
      <4> QED BY <3>2, <4>1, <2>2, <2>5, <1>0 DEF Starting
    <3>3. CASE u # s /\ u # t
      BY <3>3, <2>3, <2>5, ThreadSets, <1>0 DEF Holdings
    <3> QED BY <3>1, <3>2, <3>3
  <2>9. tpc'[MainThread] = "has_tls" <=> tpc[MainThread] = "has_tls"
    BY <1>0, <2>2, <2>3, ThreadSets
  <2> QED BY <1>0, <2>7, <2>8, <2>9 DEF Holdings
<1>7. OneOwner'
  <2>1. \A k, u : \A a \in Address :
          Owns(k, u, a)' <=> \/ Owns(k, u, a) /\ ~(u = t /\ k \in {"thread", "trampoline"})
                             \/ k = "handle" /\ u = t /\ a = b1
                             \/ k = "param" /\ u = s /\ a = b2
    <3> SUFFICES ASSUME NEW k, NEW u, NEW a \in Address
                 PROVE  Owns(k, u, a)' <=>
                          \/ Owns(k, u, a) /\ ~(u = t /\ k \in {"thread", "trampoline"})
                          \/ k = "handle" /\ u = t /\ a = b1
                          \/ k = "param" /\ u = s /\ a = b2
      OBVIOUS
    <3>1. CASE k = "thread"
      BY <3>1, <1>0, ThreadSets DEF Owns, TTypes
    <3>2. CASE k = "trampoline"
      BY <3>2, <1>0, ThreadSets DEF Owns, TTypes
    <3>3. CASE k = "param"
      BY <3>3, <1>0, <1>4, ThreadSets DEF Owns
    <3>4. CASE k = "handle"
      BY <3>4, <1>0 DEF Owns, TTypes
    <3>5. CASE k \notin {"thread", "trampoline", "param", "handle"}
      BY <3>5, <1>0 DEF Owns
    <3> QED BY <3>1, <3>2, <3>3, <3>4, <3>5
  <2>2. \A k, u : \A a \in Address :
          Owns(k, u, a) => (u = t /\ k \in {"thread", "trampoline"} <=> a \in {b1, b2})
    <3>1. \A k, u : \A a \in Address :
            Owns(k, u, a) /\ u = t /\ k \in {"thread", "trampoline"} => a \in {b1, b2}
      BY DEF Owns
    <3> QED BY <1>2, <3>1
  <2>3. \A k, u : \A a \in Address :
          Owns(k, u, a)' <=> \/ Owns(k, u, a) /\ a \notin {b1, b2}
                             \/ k = "handle" /\ u = t /\ a = b1
                             \/ k = "param" /\ u = s /\ a = b2
    BY <2>1, <2>2
  <2>4. "handle" \in Kinds /\ "param" \in Kinds /\ s \in Everyone /\ heap' = heap /\ OneOwner
    BY <1>0 DEF Kinds
  <2> HIDE DEF b1, b2
  <2> QED BY <1>1, <1>3, <2>3, <2>4, Passed
<1>8. Contents'
  <2>1. \A u \in Everyone :
          /\ tpc'[u] = "spawns" => tpc[u] = "spawns" /\ u # t
          /\ tpc'[u] = "born" => tpc[u] = "born" \/ u = s
          /\ tpc'[u] \notin {"unborn", "born"} => tpc[u] \notin {"unborn", "born"} /\ u # s
    BY <1>0 DEF TTypes
  <2>2. \A u \in Everyone :
          /\ tpc[u] = "spawns" /\ u # t => trampoline[u] \in heap /\ trampoline[u] # b1
          /\ slot[u] # None => slot[u] \in heap /\ slot[u] # b1
          /\ u \in Started /\ tpc[u] = "born" => param[u] \in heap /\ param[u] # b1
    BY <1>2, OwnPointers DEF Starting
  <2>3. \A a \in heap : a # b1 => cell'[a] = cell[a]
    BY <1>0 DEF TTypes
  <2>4. /\ \A u \in Everyone : u # t => trampoline'[u] = trampoline[u] /\ wanted'[u] = wanted[u]
        /\ \A u \in Started : u # s => param'[u] = param[u] /\ asked'[u] = asked[u]
        /\ param'[s] = b2 /\ asked'[s] = wanted[t]
    BY <1>0, <1>4 DEF TTypes
  <2>5. cell'[b2].id = wanted[t]
    BY <1>0, <1>1, <1>3, <2>3 DEF TInv, Contents
  <2>6. slot' = slot /\ task' = task /\ Contents
    BY <1>0 DEF TInv
  <2> HIDE DEF b1, b2
  <2>7. ASSUME NEW u \in Everyone, tpc'[u] = "spawns"
        PROVE  cell'[trampoline'[u]].id = wanted'[u]
    <3>1. tpc[u] = "spawns" /\ u # t
      BY <2>1, <2>7
    <3>2. trampoline'[u] = trampoline[u] /\ wanted'[u] = wanted[u]
      BY <2>4, <3>1
    <3>3. cell'[trampoline[u]] = cell[trampoline[u]]
      BY <2>2, <2>3, <3>1
    <3>4. cell[trampoline[u]].id = wanted[u]
      BY <2>6, <3>1 DEF Contents
    <3> QED BY <3>2, <3>3, <3>4
  <2>8. \A u \in Everyone : slot'[u] # None => cell'[slot'[u]] = [kind |-> "value", id |-> u]
    BY <2>2, <2>3, <2>6 DEF Contents
  <2>9. \A u \in Started : /\ tpc'[u] = "born" => cell'[param'[u]].id = asked'[u]
                           /\ tpc'[u] \notin {"unborn", "born"} => task'[u] = asked'[u]
    BY <2>1, <2>2, <2>3, <2>4, <2>5, <2>6, ThreadSets DEF Contents
  <2> QED BY <2>7, <2>8, <2>9 DEF Contents
<1> QED BY <1>5, <1>6, <1>7, <1>8 DEF TInv

-----------------------------------------------------------------------------
(* Steps that free what one thread owns, or allocate for it                *)

LEMMA StartCopies ==
  ASSUME TInv, NEW s \in Started, trampoline_copy(s)
  PROVE  TInv'
<1>0. /\ TTypes /\ Holdings /\ OneOwner /\ s \in Everyone
      /\ tpc[s] = "born" /\ tpc' = [tpc EXCEPT ![s] = "copied"]
      /\ task' = [task EXCEPT ![s] = cell[param[s]].id]
      /\ UNCHANGED <<heap, cell, thread, trampoline, wanted, param, asked, handles,
                     target, tls, unkeyed, slot, destructor>>
  BY ThreadSets DEF TInv, trampoline_copy, Advance, storage, memory
<1>1. param[s] \in Address /\ cell[param[s]].id = asked[s]
  BY <1>0, OwnPointers DEF TInv, Contents, TTypes, Starting
<1>2. TTypes'
  BY <1>0, <1>1 DEF TTypes, Starting, Cells
<1>3. Holdings'
  BY <1>0, ThreadSets DEF TTypes, Holdings, InCreate, Starting, Gone
<1>4. OneOwner'
  BY <1>0, NotPassed DEF Owns
<1>5. Contents'
  <2>1. /\ \A u \in Everyone : tpc'[u] = "spawns" => tpc[u] = "spawns"
        /\ \A u \in Everyone : u # s => tpc'[u] = tpc[u]
        /\ \A u \in Started : u # s => task'[u] = task[u]
        /\ tpc'[s] = "copied" /\ task'[s] = asked[s]
    BY <1>0, <1>1 DEF TTypes
  <2>2. Contents /\ Started \subseteq Everyone
    BY ThreadSets DEF TInv
  <2> QED BY <1>0, <2>1, <2>2 DEF Contents
<1> QED BY <1>2, <1>3, <1>4, <1>5 DEF TInv

LEMMA StartFrees ==
  ASSUME TInv, NEW s \in Started, trampoline_free(s)
  PROVE  TInv'
<1> DEFINE b == param[s]
<1>0. /\ TTypes /\ Holdings /\ OneOwner /\ s \in Everyone
      /\ tpc[s] = "copied" /\ tpc' = [tpc EXCEPT ![s] = "runs"]
      /\ free({b}) /\ param' = [param EXCEPT ![s] = None]
      /\ UNCHANGED <<thread, trampoline, wanted, task, asked, handles, target,
                     tls, unkeyed, slot, destructor>>
  BY ThreadSets DEF TInv, trampoline_free, Advance, storage
<1>1. b \in heap /\ b \in Address /\ Owns("param", s, b)
  BY <1>0, OwnPointers DEF Starting, TTypes
<1>2. \A k, u : Owns(k, u, b) => k = "param" /\ u = s
  BY <1>1, Unique
<1>3. /\ heap' = heap \ {b} /\ heap' \subseteq Address /\ cell' \in [Address -> Cells]
      /\ \A a \in heap : a # b => cell'[a] = cell[a]
  <2> HIDE DEF b
  <2> QED BY <1>0, FreeKeeps
<1>4. TTypes'
  BY <1>0, <1>3, ThreadSets DEF TTypes, Pointers
<1>5. Holdings'
  BY <1>0, ThreadSets DEF TTypes, Holdings, InCreate, Starting, Gone
<1>6. OneOwner'
  <2>1. \A k, u : \A a \in Address :
          Owns(k, u, a)' <=> Owns(k, u, a) /\ ~(k = "param" /\ u = s)
    BY <1>0, ThreadSets DEF Owns, TTypes
  <2>2. \A a : Owns("param", s, a) => a = b
    BY DEF Owns
  <2> HIDE DEF b
  <2>3. \A k, u : \A a \in Address : Owns(k, u, a)' <=> Owns(k, u, a) /\ a \notin {b}
    BY <1>2, <2>1, <2>2
  <2> QED BY <1>0, <1>3, <2>3, Freed
<1>7. Contents'
  <2>1. /\ \A u \in Everyone : tpc'[u] = "spawns" => tpc[u] = "spawns"
        /\ \A u \in Everyone : tpc'[u] = "born" => tpc[u] = "born" /\ u # s
        /\ \A u \in Everyone : tpc'[u] \notin {"unborn", "born"} => tpc[u] \notin {"unborn", "born"}
        /\ \A u \in Started : u # s => param'[u] = param[u]
    BY <1>0 DEF TTypes
  <2>2. \A u \in Everyone :
          /\ tpc[u] = "spawns" => trampoline[u] \in heap /\ trampoline[u] # b
          /\ slot[u] # None => slot[u] \in heap /\ slot[u] # b
          /\ u \in Started /\ tpc[u] = "born" /\ u # s => param[u] \in heap /\ param[u] # b
    BY <1>2, OwnPointers DEF Starting
  <2>3. Contents /\ Started \subseteq Everyone
    BY ThreadSets DEF TInv
  <2> HIDE DEF b
  <2> QED BY <1>0, <1>3, <2>1, <2>2, <2>3 DEF Contents
<1> QED BY <1>4, <1>5, <1>6, <1>7 DEF TInv

\* A value is freed by the thread or by the destructor.
LEMMA ValueFreed ==
  ASSUME TInv, NEW t \in Everyone, free_value(t) \/ trampoline_exit(t)
  PROVE  TInv'
<1> DEFINE B == {slot[t]} \ {None}
<1>0. /\ TTypes /\ Holdings /\ OneOwner
      /\ tpc[t] = "runs"
      /\ tpc' = tpc \/ (t \in Started /\ tpc' = [tpc EXCEPT ![t] = "exited"])
      /\ slot' = [slot EXCEPT ![t] = None]
      /\ \/ UNCHANGED <<task, asked>>
         \/ t \in Started /\ task' = [task EXCEPT ![t] = None]
            /\ asked' = [asked EXCEPT ![t] = None]
      /\ UNCHANGED <<thread, trampoline, wanted, param, handles, target, tls, unkeyed, destructor>>
  <2>1. TTypes /\ Holdings /\ OneOwner
    BY DEF TInv
  <2>2. CASE free_value(t)
    <3>1. tpc[t] = "runs" /\ slot' = [slot EXCEPT ![t] = None] /\ UNCHANGED <<threads, tls, unkeyed, destructor>>
      BY <2>2 DEF free_value, tls_set
    <3> QED BY <2>1, <3>1 DEF threads
  <2>3. CASE trampoline_exit(t)
    BY <2>1, <2>3 DEF trampoline_exit, Advance
  <2> QED BY <2>2, <2>3
<1>1. /\ heap' = heap \ B /\ heap' \subseteq Address /\ cell' \in [Address -> Cells]
      /\ \A a \in heap : a \notin B => cell'[a] = cell[a]
  <2>1. /\ slot[t] # None => free({slot[t]}) /\ {slot[t]} = B
        /\ slot[t] = None => (free({None}) \/ free({})) /\ B = {}
    BY <1>0 DEF free_value, trampoline_exit, tls_get, Holdings
  <2>2. None \notin heap
    BY <1>0, ThreadSets DEF TTypes
  <2>3. CASE slot[t] # None
    BY <2>1, <2>3, FreeKeeps
  <2>4. CASE slot[t] = None
    <3>1. /\ heap' = heap \ {None} \/ heap' = heap \ {}
          /\ heap' \subseteq Address /\ cell' \in [Address -> Cells]
          /\ \A a \in heap : a # None => cell'[a] = cell[a]
      BY <2>1, <2>4, FreeKeeps
    <3> QED BY <2>1, <2>2, <2>4, <3>1
  <2> QED BY <2>3, <2>4
<1>2. \A b \in B : b \in heap /\ \A k, u : Owns(k, u, b) => k = "slot" /\ u = t
  <2>1. slot[t] # None => slot[t] \in heap /\ Owns("slot", t, slot[t])
    BY OwnPointers
  <2> QED BY <2>1, Unique
<1>3. TTypes'
  BY <1>0, <1>1, ThreadSets DEF TTypes, Pointers, Gone
<1>4. Holdings'
  BY <1>0, ThreadSets DEF TTypes, Holdings, InCreate, Starting, Gone
<1>5. OneOwner'
  <2>1. \A k, u : \A a \in Address :
          Owns(k, u, a)' <=> Owns(k, u, a) /\ ~(k = "slot" /\ u = t)
    BY <1>0, ThreadSets DEF Owns, TTypes
  <2>2. \A a \in Address : Owns("slot", t, a) => a \in B
    BY ThreadSets DEF Owns
  <2> HIDE DEF B
  <2>3. \A k, u : \A a \in Address : Owns(k, u, a)' <=> Owns(k, u, a) /\ a \notin B
    BY <1>2, <2>1, <2>2
  <2> QED BY <1>0, <1>1, <2>3, Freed
<1>6. Contents'
  <2>1. /\ \A u \in Everyone : tpc'[u] = "spawns" => tpc[u] = "spawns"
        /\ \A u \in Everyone : tpc'[u] = "born" => tpc[u] = "born"
        /\ \A u \in Everyone : tpc'[u] \notin {"unborn", "born"} => tpc[u] \notin {"unborn", "born"}
        /\ \A u \in Everyone : slot'[u] # None => u # t /\ slot'[u] = slot[u]
    BY <1>0 DEF TTypes
  <2>2. \A u \in Everyone :
          /\ tpc[u] = "spawns" => trampoline[u] \in heap /\ trampoline[u] \notin B
          /\ u # t /\ slot[u] # None => slot[u] \in heap /\ slot[u] \notin B
          /\ u \in Started /\ tpc[u] = "born" => param[u] \in heap /\ param[u] \notin B
    BY <1>2, OwnPointers DEF Starting
  <2>3. Contents /\ Started \subseteq Everyone
    BY ThreadSets DEF TInv
  <2>4. /\ \A u \in Started : u # t => task'[u] = task[u] /\ asked'[u] = asked[u]
        /\ t \in Started /\ task[t] = asked[t] => task'[t] = asked'[t]
    BY <1>0 DEF TTypes
  <2> HIDE DEF B
  <2>5. \A u \in Everyone : tpc'[u] = "spawns" => cell'[trampoline'[u]].id = wanted'[u]
    BY <1>0, <1>1, <2>1, <2>2, <2>3 DEF Contents
  <2>6. \A u \in Everyone : slot'[u] # None => cell'[slot'[u]] = [kind |-> "value", id |-> u]
    BY <1>1, <2>1, <2>2, <2>3 DEF Contents
  <2>7. \A u \in Started : /\ tpc'[u] = "born" => cell'[param'[u]].id = asked'[u]
                           /\ tpc'[u] \notin {"unborn", "born"} => task'[u] = asked'[u]
    BY <1>0, <1>1, <2>1, <2>2, <2>3, <2>4 DEF Contents
  <2> QED BY <2>5, <2>6, <2>7 DEF Contents
<1> QED BY <1>3, <1>4, <1>5, <1>6 DEF TInv

LEMMA ValueKept ==
  ASSUME TInv, NEW t \in Everyone, keep_value(t)
  PROVE  TInv'
<1>0. /\ TTypes /\ Holdings /\ OneOwner
      /\ tpc[t] = "runs" /\ tls # None /\ slot[t] = None
      /\ slot' = [slot EXCEPT ![t] = Fresh]
      /\ UNCHANGED <<threads, tls, unkeyed, destructor>>
  BY DEF TInv, keep_value, tls_set
<1>1. UNCHANGED <<tpc, thread, trampoline, wanted, param, task, asked, handles, target,
                  tls, unkeyed, destructor>>
  BY <1>0 DEF threads
<1>2. /\ Fresh \in Address /\ Fresh \notin heap /\ heap' = heap \cup {Fresh}
      /\ heap' \subseteq Address /\ cell' \in [Address -> Cells]
      /\ \A a \in heap : cell'[a] = cell[a]
      /\ cell'[Fresh] = [kind |-> "value", id |-> t]
  <2>1. malloc("value", t) /\ "value" \in CellKinds /\ t \in Nat
    BY ThreadSets DEF keep_value, CellKinds
  <2> QED BY <2>1, MallocKeeps
<1>3. TTypes'
  BY <1>0, <1>1, <1>2 DEF TTypes, Pointers
<1>4. Holdings'
  BY <1>0, <1>1, <1>2, ThreadSets DEF TTypes, Holdings, InCreate, Starting, Gone
<1>5. OneOwner'
  <2>1. \A k, u : \A a \in Address :
          Owns(k, u, a)' <=> Owns(k, u, a) \/ (k = "slot" /\ u = t /\ a = Fresh)
    BY <1>0, <1>1, ThreadSets DEF Owns, TTypes
  <2> QED BY <1>0, <1>2, <2>1, Allocated DEF Kinds
<1>6. Contents'
  <2>1. \A u \in Everyone : /\ tpc[u] = "spawns" => trampoline[u] \in heap
                            /\ slot[u] # None => slot[u] \in heap
                            /\ u \in Started /\ tpc[u] = "born" => param[u] \in heap
    BY OwnPointers DEF Starting
  <2>2. Contents /\ Started \subseteq Everyone
    BY ThreadSets DEF TInv
  <2>3. slot'[t] = Fresh /\ \A u \in Everyone : u # t => slot'[u] = slot[u]
    BY <1>0 DEF TTypes
  <2>4. \A u \in Everyone : tpc'[u] = "spawns" => cell'[trampoline'[u]].id = wanted'[u]
    BY <1>1, <1>2, <2>1, <2>2 DEF Contents
  <2>5. \A u \in Everyone : slot'[u] # None => cell'[slot'[u]] = [kind |-> "value", id |-> u]
    BY <1>2, <2>1, <2>2, <2>3 DEF Contents
  <2>6. \A u \in Started : /\ tpc'[u] = "born" => cell'[param'[u]].id = asked'[u]
                           /\ tpc'[u] \notin {"unborn", "born"} => task'[u] = asked'[u]
    BY <1>1, <1>2, <2>1, <2>2 DEF Contents
  <2> QED BY <2>4, <2>5, <2>6 DEF Contents
<1> QED BY <1>3, <1>4, <1>5, <1>6 DEF TInv

LEMMA JoinStarts ==
  ASSUME TInv, NEW t \in Everyone, NEW h \in handles[t], thrd_join(t, h)
  PROVE  TInv'
<1>0. /\ TTypes /\ Holdings /\ OneOwner /\ Contents
      /\ tpc[t] = "runs" /\ tpc' = [tpc EXCEPT ![t] = "joins"]
      /\ target' = [target EXCEPT ![t] = h]
      /\ UNCHANGED <<heap, cell, thread, trampoline, wanted, param, task, asked, handles,
                     tls, unkeyed, slot, destructor>>
  BY DEF TInv, thrd_join, Advance, memory, storage
<1>1. TTypes'
  BY <1>0 DEF TTypes, Pointers
<1>2. Holdings'
  BY <1>0, ThreadSets DEF TTypes, Holdings, InCreate, Starting, Gone
<1>3. OneOwner'
  BY <1>0, NotPassed DEF Owns
<1>4. Contents'
  <2>1. /\ \A u \in Everyone : tpc'[u] = "spawns" => tpc[u] = "spawns"
        /\ \A u \in Everyone : tpc'[u] = "born" => tpc[u] = "born"
        /\ \A u \in Everyone : tpc'[u] \notin {"unborn", "born"} => tpc[u] \notin {"unborn", "born"}
    BY <1>0 DEF TTypes
  <2> QED BY <1>0, <2>1, ThreadSets DEF Contents
<1> QED BY <1>1, <1>2, <1>3, <1>4 DEF TInv

\* A handle is freed by a join that returns or by a detach.
LEMMA HandleFreed ==
  ASSUME TInv, NEW t \in Everyone, NEW h \in handles[t],
         (thrd_join_end(t) /\ h = target[t]) \/ thrd_detach(t, h)
  PROVE  TInv'
<1>0. /\ TTypes /\ Holdings /\ OneOwner
      /\ tpc[t] \in {"runs", "joins"} /\ tpc' = [tpc EXCEPT ![t] = "runs"]
      /\ free({h}) /\ handles' = [handles EXCEPT ![t] = @ \ {h}]
      /\ target' = target \/ target' = [target EXCEPT ![t] = None]
      /\ UNCHANGED <<thread, trampoline, wanted, param, task, asked, tls, unkeyed, slot, destructor>>
  <2>1. TTypes /\ Holdings /\ OneOwner
    BY DEF TInv
  <2>2. CASE thrd_join_end(t) /\ h = target[t]
    BY <2>1, <2>2 DEF thrd_join_end, Advance, Release, storage
  <2>3. CASE thrd_detach(t, h)
    <3>1. tpc' = [tpc EXCEPT ![t] = "runs"]
      BY <2>1, <2>3 DEF thrd_detach, TTypes
    <3> QED BY <2>1, <2>3, <3>1 DEF thrd_detach, Release, storage
  <2> QED BY <2>2, <2>3
<1>1. h \in heap /\ h \in Address /\ Owns("handle", t, h)
  BY <1>0, OwnPointers DEF TTypes
<1>2. \A k, u : Owns(k, u, h) => k = "handle" /\ u = t
  BY <1>1, Unique
<1>3. /\ heap' = heap \ {h} /\ heap' \subseteq Address /\ cell' \in [Address -> Cells]
      /\ \A a \in heap : a # h => cell'[a] = cell[a]
  BY <1>0, FreeKeeps
<1>4. TTypes'
  BY <1>0, <1>3, ThreadSets DEF TTypes, Pointers
<1>5. Holdings'
  BY <1>0, ThreadSets DEF TTypes, Holdings, InCreate, Starting, Gone
<1>6. OneOwner'
  <2>1. \A k, u : \A a \in Address :
          Owns(k, u, a)' <=> Owns(k, u, a) /\ ~(k = "handle" /\ u = t /\ a = h)
    BY <1>0 DEF Owns, TTypes
  <2>2. \A k, u : \A a \in Address : Owns(k, u, a)' <=> Owns(k, u, a) /\ a \notin {h}
    BY <1>2, <2>1
  <2> QED BY <1>0, <1>3, <2>2, Freed
<1>7. Contents'
  <2>1. /\ \A u \in Everyone : tpc'[u] = "spawns" => tpc[u] = "spawns"
        /\ \A u \in Everyone : tpc'[u] = "born" => tpc[u] = "born"
        /\ \A u \in Everyone : tpc'[u] \notin {"unborn", "born"} => tpc[u] \notin {"unborn", "born"}
    BY <1>0 DEF TTypes
  <2>2. \A u \in Everyone :
          /\ tpc[u] = "spawns" => trampoline[u] \in heap /\ trampoline[u] # h
          /\ slot[u] # None => slot[u] \in heap /\ slot[u] # h
          /\ u \in Started /\ tpc[u] = "born" => param[u] \in heap /\ param[u] # h
    BY <1>2, OwnPointers DEF Starting
  <2>3. Contents /\ Started \subseteq Everyone
    BY ThreadSets DEF TInv
  <2> QED BY <1>0, <1>3, <2>1, <2>2, <2>3 DEF Contents
<1> QED BY <1>4, <1>5, <1>6, <1>7 DEF TInv

\* Main begins or ends cpr_tls_create: who starts a thread or is started stays
\* where it is.
MainPlaces ==
  \A u \in Everyone : /\ tpc'[u] = "spawns" => tpc[u] = "spawns"
                      /\ tpc'[u] = "born" => tpc[u] = "born"
                      /\ tpc'[u] \notin {"unborn", "born"} => tpc[u] \notin {"unborn", "born"}

LEMMA MainMoves ==
  ASSUME TTypes, tpc[MainThread] \in {"runs", "has_tls"}, NEW place \in {"runs", "has_tls"},
         tpc' = [tpc EXCEPT ![MainThread] = place]
  PROVE  MainPlaces
BY ThreadSets DEF TTypes, MainPlaces

LEMMA KeyBegun ==
  ASSUME TInv, tls_create
  PROVE  TInv'
<1>0. /\ TTypes /\ Holdings /\ OneOwner
      /\ tpc[MainThread] = "runs" /\ tpc' = [tpc EXCEPT ![MainThread] = "has_tls"]
      /\ tls = None /\ unkeyed = None /\ unkeyed' = Fresh
      /\ UNCHANGED <<thread, trampoline, wanted, param, task, asked, handles, target,
                     tls, slot, destructor>>
  BY DEF TInv, Holdings, tls_create, Advance, locals
<1>1. /\ Fresh \in Address /\ Fresh \notin heap /\ heap' = heap \cup {Fresh}
      /\ heap' \subseteq Address /\ cell' \in [Address -> Cells]
      /\ \A a \in heap : cell'[a] = cell[a]
  <2>1. malloc("junk", None) /\ "junk" \in CellKinds
    BY DEF tls_create, CellKinds
  <2> QED BY <2>1, MallocKeeps, ThreadSets
<1>2. TTypes'
  BY <1>0, <1>1 DEF TTypes, Pointers
<1>3. Holdings'
  BY <1>0, <1>1, ThreadSets DEF TTypes, Holdings, InCreate, Starting, Gone
<1>4. OneOwner'
  <2>1. \A k, u : \A a \in Address :
          Owns(k, u, a)' <=> Owns(k, u, a) \/ (k = "unkeyed" /\ u = MainThread /\ a = Fresh)
    BY <1>0, ThreadSets DEF Owns
  <2>2. "unkeyed" \in Kinds /\ MainThread \in Everyone
    BY ThreadSets DEF Kinds
  <2> QED BY <1>0, <1>1, <2>1, <2>2, Allocated
<1>5. Contents'
  <2>1. \A u \in Everyone : /\ tpc[u] = "spawns" => trampoline[u] \in heap
                            /\ slot[u] # None => slot[u] \in heap
                            /\ u \in Started /\ tpc[u] = "born" => param[u] \in heap
    BY OwnPointers DEF Starting
  <2>2. Contents /\ Started \subseteq Everyone
    BY ThreadSets DEF TInv
  <2>3. MainPlaces
    BY <1>0, MainMoves
  <2> QED BY <1>0, <1>1, <2>1, <2>2, <2>3 DEF Contents, MainPlaces
<1> QED BY <1>2, <1>3, <1>4, <1>5 DEF TInv

\* The block without a key, b, is freed or becomes the CprTls of the process.
LEMMA KeyOrNot ==
  ASSUME TInv, tls_no_key \/ tls_key
  PROVE  TInv'
<1> DEFINE b == unkeyed
<1>0. /\ TTypes /\ Holdings /\ OneOwner
      /\ tpc[MainThread] = "has_tls" /\ tpc' = [tpc EXCEPT ![MainThread] = "runs"]
      /\ tls = None /\ b # None /\ unkeyed' = None
      /\ UNCHANGED <<thread, trampoline, wanted, param, task, asked, handles, target, slot>>
  BY DEF TInv, Holdings, tls_no_key, tls_key, Advance, locals
<1>1. b \in heap /\ b \in Address /\ Owns("unkeyed", MainThread, b)
  BY <1>0, ThreadSets, OwnPointers DEF TTypes
<1>2. \A k, u : Owns(k, u, b) => k = "unkeyed" /\ u = MainThread
  BY <1>1, Unique
<1>3. \A a : Owns("unkeyed", MainThread, a) => a = b
  BY DEF Owns
<1>4. \A u \in Everyone :
        /\ tpc[u] = "spawns" => trampoline[u] \in heap /\ trampoline[u] # b
        /\ slot[u] # None => slot[u] \in heap /\ slot[u] # b
        /\ u \in Started /\ tpc[u] = "born" => param[u] \in heap /\ param[u] # b
  BY <1>2, OwnPointers DEF Starting
<1>5. Contents /\ Started \subseteq Everyone
  BY ThreadSets DEF TInv
<1>6. MainPlaces
  BY <1>0, MainMoves
<1>7. CASE tls_no_key
  <2>0. free({b}) /\ UNCHANGED <<tls, destructor>>
    BY <1>7 DEF tls_no_key
  <2> HIDE DEF b
  <2>1. /\ heap' = heap \ {b} /\ heap' \subseteq Address /\ cell' \in [Address -> Cells]
        /\ \A a \in heap : a # b => cell'[a] = cell[a]
    BY <2>0, FreeKeeps
  <2>2. TTypes'
    BY <1>0, <2>0, <2>1, ThreadSets DEF TTypes, Pointers
  <2>3. Holdings'
    BY <1>0, <2>0, ThreadSets DEF TTypes, Holdings, InCreate, Starting, Gone
  <2>4. OneOwner'
    <3>1. \A k, u : \A a \in Address :
            Owns(k, u, a)' <=> Owns(k, u, a) /\ ~(k = "unkeyed" /\ u = MainThread)
      BY <1>0, <2>0, ThreadSets DEF Owns
    <3>2. \A k, u : \A a \in Address : Owns(k, u, a)' <=> Owns(k, u, a) /\ a \notin {b}
      BY <1>2, <1>3, <3>1
    <3> QED BY <1>0, <2>1, <3>2, Freed
  <2>5. Contents'
    BY <1>0, <1>4, <1>5, <1>6, <2>1 DEF Contents, MainPlaces
  <2> QED BY <2>2, <2>3, <2>4, <2>5 DEF TInv
<1>8. CASE tls_key
  <2>0. /\ tls' = b /\ destructor' = TRUE /\ heap' = heap
        /\ cell' = [cell EXCEPT ![b] = [kind |-> "key", id |-> None]]
    BY <1>8 DEF tls_key
  <2> HIDE DEF b
  <2>1. /\ cell' \in [Address -> Cells] /\ b \in Pointers
        /\ \A a \in heap : a # b => cell'[a] = cell[a]
    BY <1>0, <1>1, <2>0, ThreadSets DEF TTypes, Cells, CellKinds, Pointers
  <2>2. TTypes'
    BY <1>0, <2>0, <2>1, ThreadSets DEF TTypes, Pointers
  <2>3. Holdings'
    BY <1>0, <2>0, ThreadSets DEF TTypes, Holdings, InCreate, Starting, Gone
  <2>4. OneOwner'
    <3>1. \A k, u : \A a \in Address :
            Owns(k, u, a)' <=> \/ Owns(k, u, a) /\ ~(k = "unkeyed" /\ u = MainThread)
                               \/ k = "key" /\ u = MainThread /\ a = b
      BY <1>0, <2>0, ThreadSets DEF Owns
    <3>2. \A k, u : \A a \in Address :
            Owns(k, u, a)' <=> \/ Owns(k, u, a) /\ a # b
                               \/ k = "key" /\ u = MainThread /\ a = b
      BY <1>2, <1>3, <3>1
    <3>3. "key" \in Kinds /\ MainThread \in Everyone
      BY ThreadSets DEF Kinds
    <3> QED BY <1>0, <1>1, <2>0, <3>2, <3>3, PassedOne
  <2>5. Contents'
    BY <1>0, <1>4, <1>5, <1>6, <2>0, <2>1 DEF Contents, MainPlaces
  <2> QED BY <2>2, <2>3, <2>4, <2>5 DEF TInv
<1> QED BY <1>7, <1>8

LEMMA KeyDestroyed ==
  ASSUME TInv, tls_destroy
  PROVE  TInv'
<1> DEFINE b == tls
<1>0. /\ TTypes /\ Holdings /\ OneOwner
      /\ b # None /\ tls' = None /\ destructor' = FALSE /\ free({b})
      /\ slot[MainThread] = None /\ \A s \in Started : tpc[s] \in {"unborn", "exited"}
      /\ UNCHANGED <<tpc, thread, trampoline, wanted, param, task, asked, handles, target, slot,
                     unkeyed>>
  BY DEF TInv, tls_destroy, threads
<1>1. b \in heap /\ b \in Address /\ Owns("key", MainThread, b)
  BY <1>0, ThreadSets, OwnPointers DEF TTypes
<1>2. \A k, u : Owns(k, u, b) => k = "key" /\ u = MainThread
  BY <1>1, Unique
<1>3. /\ heap' = heap \ {b} /\ heap' \subseteq Address /\ cell' \in [Address -> Cells]
      /\ \A a \in heap : a # b => cell'[a] = cell[a]
  <2> HIDE DEF b
  <2> QED BY <1>0, FreeKeeps
<1>4. TTypes'
  BY <1>0, <1>3, ThreadSets DEF TTypes, Pointers
<1>5. Holdings'
  <2>1. \A t \in Everyone : slot[t] = None
    BY <1>0, ThreadSets DEF Holdings, Gone, Everyone
  <2> QED BY <1>0, <2>1 DEF Holdings
<1>6. OneOwner'
  <2>1. \A k, u : \A a \in Address :
          Owns(k, u, a)' <=> Owns(k, u, a) /\ ~(k = "key" /\ u = MainThread)
    BY <1>0, ThreadSets DEF Owns
  <2>2. \A a : Owns("key", MainThread, a) => a = b
    BY DEF Owns
  <2> HIDE DEF b
  <2>3. \A k, u : \A a \in Address : Owns(k, u, a)' <=> Owns(k, u, a) /\ a \notin {b}
    BY <1>2, <2>1, <2>2
  <2> QED BY <1>0, <1>3, <2>3, Freed
<1>7. Contents'
  <2>1. \A u \in Everyone :
          /\ tpc[u] = "spawns" => trampoline[u] \in heap /\ trampoline[u] # b
          /\ slot[u] # None => slot[u] \in heap /\ slot[u] # b
          /\ u \in Started /\ tpc[u] = "born" => param[u] \in heap /\ param[u] # b
    BY <1>2, OwnPointers DEF Starting
  <2>2. Contents /\ Started \subseteq Everyone
    BY ThreadSets DEF TInv
  <2> HIDE DEF b
  <2> QED BY <1>0, <1>3, <2>1, <2>2 DEF Contents
<1> QED BY <1>4, <1>5, <1>6, <1>7 DEF TInv

-----------------------------------------------------------------------------
(* Theorems about the threads                                              *)

LEMMA ThreadStep ==
  TInv /\ [ThreadNext]_tvars => TInv'
<1> SUFFICES ASSUME TInv, [ThreadNext]_tvars PROVE TInv'  OBVIOUS
<1>1. CASE UNCHANGED tvars
  <2>1. UNCHANGED <<heap, cell, tpc, thread, trampoline, wanted, param, task, asked, handles,
                    target, tls, unkeyed, slot, destructor>>
    BY <1>1 DEF tvars, memory, threads, storage
  <2>2. TTypes' /\ Holdings' /\ Contents'
    BY <2>1 DEF TInv, TTypes, Holdings, Contents
  <2>3. OneOwner'
    BY <2>1, NotPassed DEF Owns, TInv
  <2> QED BY <2>2, <2>3 DEF TInv
<1>2. ASSUME NEW t \in Everyone, thrd_create(t) \/ keep_value(t) \/ free_value(t)
      PROVE  TInv'
  BY <1>2, CreateStarts, ValueKept, ValueFreed
<1>3. ASSUME NEW t \in Everyone, Continue(t) PROVE TInv'
  <2>1. CASE t \in Started /\ (trampoline_copy(t) \/ trampoline_free(t))
    BY <2>1, StartCopies, StartFrees
  <2>2. CASE create_no_trampoline(t) \/ create_no_spawn(t)
    BY <2>2, CreateFails
  <2>3. CASE create_trampoline(t)
    BY <2>3, CreateGoesOn
  <2>4. CASE \E s \in Started : create_spawn(t, s)
    BY <2>4, CreateEnds
  <2>5. CASE thrd_join_end(t)
    <3>1. target[t] \in handles[t]
      BY <2>5 DEF TInv, Holdings, thrd_join_end, Advance
    <3> QED BY <2>5, <3>1, HandleFreed
  <2>6. CASE tls_no_key \/ tls_key
    BY <2>6, KeyOrNot
  <2> QED BY <1>3, <2>1, <2>2, <2>3, <2>4, <2>5, <2>6 DEF Continue
<1>4. ASSUME NEW t \in Everyone, Finish(t) PROVE TInv'
  BY <1>4, JoinStarts, HandleFreed, ValueFreed DEF Finish
<1>5. CASE tls_create \/ tls_destroy
  BY <1>5, KeyBegun, KeyDestroyed
<1> QED BY <1>1, <1>2, <1>3, <1>4, <1>5 DEF ThreadNext

\* A block has an owner, of whatever kind, exactly when it is allocated, and
\* what a thread holds it holds alone: TInv is inductive over the steps of
\* thread.c.
THEOREM ThreadInvariance == ThreadSpec => []TInv
BY ThreadInitial, ThreadStep, PTL DEF ThreadSpec

LEMMA OwnersAre ==
  ASSUME NEW a, NEW x
  PROVE  x \in Owners(a) <=> \E k \in Kinds, t \in Everyone : Owns(k, t, a) /\ x = <<k, t>>
<1>1. x \in Owners(a) <=>
        \/ \E t \in Everyone : thread[t] = a /\ x = <<"thread", t>>
        \/ \E t \in Everyone : trampoline[t] = a /\ x = <<"trampoline", t>>
        \/ \E t \in Started : param[t] = a /\ x = <<"param", t>>
        \/ \E t \in Everyone : a \in handles[t] /\ x = <<"handle", t>>
        \/ \E t \in Everyone : slot[t] = a /\ x = <<"slot", t>>
        \/ tls = a /\ x = <<"key", MainThread>>
        \/ unkeyed = a /\ x = <<"unkeyed", MainThread>>
  BY DEF Owners
<1>2. (\E k \in Kinds, t \in Everyone : Owns(k, t, a) /\ x = <<k, t>>) <=>
        \/ \E t \in Everyone : Owns("thread", t, a) /\ x = <<"thread", t>>
        \/ \E t \in Everyone : Owns("trampoline", t, a) /\ x = <<"trampoline", t>>
        \/ \E t \in Everyone : Owns("param", t, a) /\ x = <<"param", t>>
        \/ \E t \in Everyone : Owns("handle", t, a) /\ x = <<"handle", t>>
        \/ \E t \in Everyone : Owns("slot", t, a) /\ x = <<"slot", t>>
        \/ \E t \in Everyone : Owns("key", t, a) /\ x = <<"key", t>>
        \/ \E t \in Everyone : Owns("unkeyed", t, a) /\ x = <<"unkeyed", t>>
  BY DEF Kinds
<1>3. (\E t \in Everyone : Owns("thread", t, a) /\ x = <<"thread", t>>)
        <=> \E t \in Everyone : thread[t] = a /\ x = <<"thread", t>>
  BY DEF Owns
<1>4. (\E t \in Everyone : Owns("trampoline", t, a) /\ x = <<"trampoline", t>>)
        <=> \E t \in Everyone : trampoline[t] = a /\ x = <<"trampoline", t>>
  BY DEF Owns
<1>5. (\E t \in Everyone : Owns("param", t, a) /\ x = <<"param", t>>)
        <=> \E t \in Started : param[t] = a /\ x = <<"param", t>>
  BY ThreadSets DEF Owns
<1>6. (\E t \in Everyone : Owns("handle", t, a) /\ x = <<"handle", t>>)
        <=> \E t \in Everyone : a \in handles[t] /\ x = <<"handle", t>>
  BY DEF Owns
<1>7. (\E t \in Everyone : Owns("slot", t, a) /\ x = <<"slot", t>>)
        <=> \E t \in Everyone : slot[t] = a /\ x = <<"slot", t>>
  BY DEF Owns
<1>8. (\E t \in Everyone : Owns("key", t, a) /\ x = <<"key", t>>)
        <=> tls = a /\ x = <<"key", MainThread>>
  BY ThreadSets DEF Owns
<1>9. (\E t \in Everyone : Owns("unkeyed", t, a) /\ x = <<"unkeyed", t>>)
        <=> unkeyed = a /\ x = <<"unkeyed", MainThread>>
  BY ThreadSets DEF Owns
<1> QED BY <1>1, <1>2, <1>3, <1>4, <1>5, <1>6, <1>7, <1>8, <1>9

\* Nothing leaks, nothing is freed twice and nothing is used after it was freed,
\* for any number of threads and blocks and whichever mallocs and system calls
\* fail: cpr_thrd_create, cpr__thread_trampoline, cpr_thrd_join, cpr_thrd_detach
\* and cpr_tls_* hand every block from one owner to the next.
THEOREM BlocksAreOwned == ThreadSpec => []EveryBlockHasOneOwner
<1>1. ASSUME TInv PROVE EveryBlockHasOneOwner
  <2> SUFFICES ASSUME NEW a \in Address
               PROVE  Cardinality(Owners(a)) = (IF a \in heap THEN 1 ELSE 0)
    BY DEF EveryBlockHasOneOwner
  <2>1. CASE a \in heap
    <3>1. PICK k \in Kinds, t \in Everyone : Owns(k, t, a)
      BY <1>1, <2>1 DEF TInv, OneOwner
    <3>2. \A l, u : Owns(l, u, a) => l = k /\ u = t
      BY <1>1, <2>1, <3>1, Unique
    <3>3. \A x : x \in Owners(a) <=> x = <<k, t>>
      BY <3>1, <3>2, OwnersAre
    <3>4. Owners(a) = {<<k, t>>}
      BY <3>3
    <3> QED BY <2>1, <3>4, FS_Singleton
  <2>2. CASE a \notin heap
    <3>1. \A k, t : ~Owns(k, t, a)
      BY <1>1, <2>2 DEF TInv, OneOwner
    <3>2. \A x : x \notin Owners(a)
      BY <3>1, OwnersAre
    <3>3. Owners(a) = {}
      BY <3>2
    <3> QED BY <2>2, <3>3, FS_EmptySet
  <2> QED BY <2>1, <2>2
<1> QED BY <1>1, ThreadInvariance, PTL

\* Every thread runs the fn and arg it was created for and finds the value it
\* stored, however creations, starts and exits of any number of threads interleave.
THEOREM ThreadsKeepTheirOwn == ThreadSpec => []EachItsOwn
<1>1. TInv => EachItsOwn
  BY DEF TInv, Contents, EachItsOwn
<1> QED BY <1>1, ThreadInvariance, PTL

-----------------------------------------------------------------------------
(* Where the locks are, by the programs                                    *)

MutexIn(t) == MutexAt(prog[t], at[t])

LTypes ==
  /\ prog \in Programs /\ at \in [People -> Nat \ {0}]
  /\ \A t \in People : at[t] <= Len(prog[t]) + 1
  /\ owner \in People \cup {Nobody} /\ writer \in People \cup {Nobody}
  /\ sleeping \subseteq People /\ waking \subseteq People /\ readers \subseteq People

\* Who waits is at a wait, and is not both asleep and awake.
Waiters ==
  /\ sleeping \cap waking = {}
  /\ \A t \in sleeping \cup waking : ~Done(t) /\ Now(t).op = "wait"

\* The locks are with the threads whose programs say so, and with no other.
Locking ==
  /\ \A t \in People : owner = t <=> HasMutex(t)
  /\ \A t \in People : writer = t <=> Writes(t)
  /\ \A t \in People : t \in readers <=> Reads(t)
  /\ writer # Nobody => readers = {}

LockInv == LTypes /\ Waiters /\ Locking

LEMMA TookNext ==
  ASSUME NEW p, NEW k \in Nat \ {0}, NEW T, NEW G
  PROVE  Took(p, k + 1, T, G) <=> p[k].op \in T \/ (Took(p, k, T, G) /\ p[k].op \notin G)
<1>1. ASSUME Took(p, k + 1, T, G), p[k].op \notin T
      PROVE  Took(p, k, T, G) /\ p[k].op \notin G
  <2>1. PICK i \in 1 .. k : p[i].op \in T /\ \A j \in i + 1 .. k : p[j].op \notin G
    BY <1>1 DEF Took
  <2>2. i \in 1 .. k - 1 /\ k \in i + 1 .. k /\ i + 1 .. k - 1 \subseteq i + 1 .. k
    BY <1>1, <2>1
  <2> QED BY <2>1, <2>2 DEF Took
<1>2. ASSUME p[k].op \in T PROVE Took(p, k + 1, T, G)
  <2>1. k \in 1 .. (k + 1) - 1 /\ k + 1 .. (k + 1) - 1 = {}
    OBVIOUS
  <2> QED BY <1>2, <2>1 DEF Took
<1>3. ASSUME Took(p, k, T, G), p[k].op \notin G PROVE Took(p, k + 1, T, G)
  <2>1. PICK i \in 1 .. k - 1 : p[i].op \in T /\ \A j \in i + 1 .. k - 1 : p[j].op \notin G
    BY <1>3 DEF Took
  <2>2. i \in 1 .. (k + 1) - 1 /\ \A j \in i + 1 .. (k + 1) - 1 : j = k \/ j \in i + 1 .. k - 1
    BY <2>1
  <2> QED BY <1>3, <2>1, <2>2 DEF Took
<1> QED BY <1>1, <1>2, <1>3

LEMMA TookNothing ==
  ASSUME NEW p PROVE ~MutexAt(p, 1) /\ ~ReadsAt(p, 1) /\ ~WritesAt(p, 1)
BY DEF MutexAt, ReadsAt, WritesAt, Took

\* A call of t is one of its program, which is disciplined.
LEMMA CallOf ==
  ASSUME LTypes, NEW t \in People, ~Done(t)
  PROVE  /\ prog[t] \in Seq(Calls) /\ at[t] \in 1 .. Len(prog[t])
         /\ Now(t) = prog[t][at[t]] /\ Now(t) \in Calls /\ Disciplined(prog[t])
<1>1. prog[t] \in Seq(Calls) /\ Disciplined(prog[t])
  BY SyncAssumption DEF LTypes
<1>2. at[t] \in 1 .. Len(prog[t])
  BY <1>1 DEF LTypes, Done
<1> QED BY <1>1, <1>2 DEF Now

LEMMA Rules ==
  ASSUME LTypes, NEW t \in People, ~Done(t)
  PROVE  /\ Now(t).op \in MutexTakes => ~MutexIn(t)
         /\ Now(t).op \in {"mutex_unlock", "wait"} => MutexIn(t)
         /\ Now(t).op \in ReadTakes \cup WriteTakes => ~Reads(t) /\ ~Writes(t)
         /\ Now(t).op = "rwlock_ulckread" => Reads(t)
         /\ Now(t).op = "rwlock_ulckwrite" => Writes(t)
         /\ Now(t).op \in Tries => /\ Now(t).n \in Nat \ {0}
                                   /\ at[t] + 1 + Now(t).n \in 1 .. Len(prog[t]) + 1
                                   /\ SameLocks(prog[t], at[t], at[t] + 1 + Now(t).n)
         /\ Now(t).op = "init" => /\ at[t] = 1 /\ Len(prog[t]) + 1 \in 1 .. Len(prog[t]) + 1
                                  /\ SameLocks(prog[t], at[t], Len(prog[t]) + 1)
<1> DEFINE k == at[t]
           p == prog[t]
<1>1. k \in 1 .. Len(p) /\ Len(p) \in Nat /\ Now(t) = p[k] /\ Now(t).n \in Nat /\ Disciplined(p)
  BY CallOf DEF Calls
<1> USE DEF MutexIn, Reads, Writes
<1> HIDE DEF k, p
<1>2. /\ p[k].op \in MutexTakes => ~MutexAt(p, k)
      /\ p[k].op \in {"mutex_unlock", "wait"} => MutexAt(p, k)
      /\ p[k].op \in ReadTakes \cup WriteTakes => ~ReadsAt(p, k) /\ ~WritesAt(p, k)
      /\ p[k].op = "rwlock_ulckread" => ReadsAt(p, k)
      /\ p[k].op = "rwlock_ulckwrite" => WritesAt(p, k)
      /\ p[k].op \in Tries =>
           p[k].n > 0 /\ k + p[k].n <= Len(p) /\ SameLocks(p, k, k + 1 + p[k].n)
      /\ p[k].op = "init" => k = 1
      /\ SameLocks(p, 1, Len(p) + 1)
  BY <1>1 DEF Disciplined
<1> USE DEF k, p
<1> QED BY <1>1, <1>2

\* The locks of t after a call that succeeds; those of the others stay.
LEMMA Advances ==
  ASSUME LTypes, NEW t \in People, ~Done(t), prog' = prog, at' = [at EXCEPT ![t] = @ + 1]
  PROVE  /\ MutexIn(t)' <=> Now(t).op \in MutexTakes \/ (MutexIn(t) /\ Now(t).op # "mutex_unlock")
         /\ Reads(t)' <=> Now(t).op \in ReadTakes \/ (Reads(t) /\ Now(t).op # "rwlock_ulckread")
         /\ Writes(t)' <=> Now(t).op \in WriteTakes \/ (Writes(t) /\ Now(t).op # "rwlock_ulckwrite")
         /\ \A u \in People : u # t => (MutexIn(u)' <=> MutexIn(u)) /\ (Reads(u)' <=> Reads(u))
                                                                /\ (Writes(u)' <=> Writes(u))
         /\ at'[t] \in 1 .. Len(prog[t]) + 1
<1>1. /\ at[t] \in Nat \ {0} /\ at'[t] = at[t] + 1 /\ Now(t) = prog[t][at[t]]
      /\ \A u \in People : u # t => at'[u] = at[u]
  BY CallOf DEF LTypes
<1>2. /\ MutexIn(t)' <=> Now(t).op \in MutexTakes \/ (MutexIn(t) /\ Now(t).op \notin {"mutex_unlock"})
      /\ Reads(t)' <=> Now(t).op \in ReadTakes \/ (Reads(t) /\ Now(t).op \notin {"rwlock_ulckread"})
      /\ Writes(t)' <=> Now(t).op \in WriteTakes \/ (Writes(t) /\ Now(t).op \notin {"rwlock_ulckwrite"})
  <2> DEFINE p == prog[t]
             k == at[t]
  <2>1. k \in Nat \ {0} /\ p[k] = Now(t)
    BY <1>1
  <2>2. /\ MutexIn(t) <=> MutexAt(p, k)
        /\ Reads(t) <=> ReadsAt(p, k)
        /\ Writes(t) <=> WritesAt(p, k)
        /\ MutexIn(t)' <=> MutexAt(p, k + 1)
        /\ Reads(t)' <=> ReadsAt(p, k + 1)
        /\ Writes(t)' <=> WritesAt(p, k + 1)
    BY <1>1 DEF MutexIn, Reads, Writes
  <2> HIDE DEF p, k
  <2>3. MutexAt(p, k + 1) <=> p[k].op \in MutexTakes \/ (MutexAt(p, k) /\ p[k].op \notin {"mutex_unlock"})
    BY <2>1, TookNext DEF MutexAt
  <2>4. ReadsAt(p, k + 1) <=> p[k].op \in ReadTakes \/ (ReadsAt(p, k) /\ p[k].op \notin {"rwlock_ulckread"})
    BY <2>1, TookNext DEF ReadsAt
  <2>5. WritesAt(p, k + 1) <=> p[k].op \in WriteTakes \/ (WritesAt(p, k) /\ p[k].op \notin {"rwlock_ulckwrite"})
    BY <2>1, TookNext DEF WritesAt
  <2> QED BY <2>1, <2>2, <2>3, <2>4, <2>5
<1>3. \A u \in People : u # t => (MutexIn(u)' <=> MutexIn(u)) /\ (Reads(u)' <=> Reads(u))
                                                          /\ (Writes(u)' <=> Writes(u))
  BY <1>1 DEF MutexIn, Reads, Writes
<1>4. at'[t] \in 1 .. Len(prog[t]) + 1
  BY <1>1, CallOf
<1> QED BY <1>2, <1>3, <1>4

LEMMA Skips ==
  ASSUME LTypes, NEW t \in People, NEW x, prog' = prog, at' = [at EXCEPT ![t] = x],
         SameLocks(prog[t], at[t], x)
  PROVE  \A u \in People : (MutexIn(u)' <=> MutexIn(u)) /\ (Reads(u)' <=> Reads(u))
                                                    /\ (Writes(u)' <=> Writes(u))
<1>1. at'[t] = x /\ \A u \in People : u # t => at'[u] = at[u]
  BY DEF LTypes
<1> QED BY <1>1 DEF SameLocks, MutexIn, Reads, Writes

-----------------------------------------------------------------------------
(* The steps of the locks                                                  *)

LEMMA WaitersStay ==
  ASSUME LTypes, Waiters, NEW t \in People, t \notin sleeping \cup waking, prog' = prog,
         NEW x, at' = [at EXCEPT ![t] = x],
         sleeping' \cup waking' \subseteq sleeping \cup waking, sleeping' \cap waking' = {}
  PROVE  Waiters'
<1>1. \A u \in sleeping' \cup waking' : at'[u] = at[u]
  BY DEF LTypes
<1> QED BY <1>1 DEF Waiters, Done, Now

\* A call that takes and gives no lock, or is refused one.
LEMMA Quiet ==
  ASSUME LockInv, NEW t \in People, t \notin sleeping \cup waking, prog' = prog,
         NEW x \in 1 .. Len(prog[t]) + 1, at' = [at EXCEPT ![t] = x],
         SameLocks(prog[t], at[t], x),
         UNCHANGED <<owner, readers, writer>>,
         sleeping' \cup waking' = sleeping \cup waking, sleeping' \cap waking' = {}
  PROVE  /\ LockInv'
         /\ \A u \in People : (HasMutex(u)' <=> HasMutex(u)) /\ (Reads(u)' <=> Reads(u))
                                                         /\ (Writes(u)' <=> Writes(u))
<1>0. LTypes /\ Waiters /\ Locking
  BY DEF LockInv
<1>1. \A u \in People : (MutexIn(u)' <=> MutexIn(u)) /\ (Reads(u)' <=> Reads(u))
                                                 /\ (Writes(u)' <=> Writes(u))
  BY <1>0, Skips
<1>2. \A u \in People : HasMutex(u)' <=> HasMutex(u)
  BY <1>1 DEF HasMutex, MutexIn
<1>3. LTypes'
  <2>1. at'[t] = x /\ x \in Nat \ {0} /\ \A u \in People : u # t => at'[u] = at[u]
    BY <1>0 DEF LTypes
  <2> QED BY <1>0, <2>1 DEF LTypes
<1>4. Waiters'
  BY <1>0, WaitersStay
<1>5. Locking'
  BY <1>0, <1>1, <1>2 DEF Locking
<1> QED BY <1>1, <1>2, <1>3, <1>4, <1>5 DEF LockInv

\* A call that succeeds, whatever it does to the locks.
LEMMA Succeeds ==
  ASSUME LockInv, NEW t \in People, Runs(t), prog' = prog, Succeed(t),
         owner' \in People \cup {Nobody}, writer' \in People \cup {Nobody},
         readers' \subseteq People, UNCHANGED <<sleeping, waking>>
  PROVE  LTypes' /\ Waiters'
<1>0. LTypes /\ Waiters /\ ~Done(t) /\ t \notin sleeping \cup waking
  BY DEF LockInv, Runs
<1>1. at[t] \in Nat \ {0} /\ at[t] + 1 \in 1 .. Len(prog[t]) + 1
  BY <1>0, CallOf
<1>2. at'[t] = at[t] + 1 /\ \A u \in People : u # t => at'[u] = at[u]
  BY <1>0 DEF LTypes, Succeed
<1>3. LTypes'
  BY <1>0, <1>1, <1>2 DEF LTypes, Succeed
<1>4. Waiters'
  <2>1. at' = [at EXCEPT ![t] = at[t] + 1]
    BY DEF Succeed
  <2> QED BY <1>0, <2>1, WaitersStay DEF Waiters
<1> QED BY <1>3, <1>4

LEMMA MutexTaken ==
  ASSUME LockInv, NEW t \in People, Runs(t), Now(t).op \in MutexTakes, prog' = prog, Succeed(t),
         owner = Nobody, owner' = t, UNCHANGED <<sleeping, waking, readers, writer>>
  PROVE  /\ LockInv'
         /\ \A u \in People : (HasMutex(u)' <=> HasMutex(u) \/ u = t) /\ (Reads(u)' <=> Reads(u))
                                                                  /\ (Writes(u)' <=> Writes(u))
<1>0. LTypes /\ Locking /\ ~Done(t) /\ t \notin sleeping \cup waking
      /\ at' = [at EXCEPT ![t] = @ + 1]
      /\ Now(t).op \notin ReadTakes \cup WriteTakes \cup {"rwlock_ulckread", "rwlock_ulckwrite"}
  BY DEF LockInv, Runs, Succeed, MutexTakes, ReadTakes, WriteTakes
<1>1. LTypes' /\ Waiters'
  BY <1>0, Succeeds DEF LTypes
<1>2. /\ MutexIn(t)' /\ (Reads(t)' <=> Reads(t)) /\ (Writes(t)' <=> Writes(t))
      /\ \A u \in People : u # t => (MutexIn(u)' <=> MutexIn(u)) /\ (Reads(u)' <=> Reads(u))
                                                             /\ (Writes(u)' <=> Writes(u))
  BY <1>0, Advances
<1>3. \A u \in People : HasMutex(u)' <=> HasMutex(u) \/ u = t
  BY <1>0, <1>2 DEF HasMutex, MutexIn
<1>4. \A u \in People : (Reads(u)' <=> Reads(u)) /\ (Writes(u)' <=> Writes(u))
  BY <1>2
<1>5. Locking'
  <2>1. \A u \in People : ~HasMutex(u)
    BY <1>0, SyncAssumption DEF Locking
  <2> QED BY <1>0, <1>3, <1>4, <2>1 DEF Locking
<1> QED BY <1>1, <1>3, <1>4, <1>5 DEF LockInv

LEMMA MutexGiven ==
  ASSUME LockInv, NEW t \in People, mutex_unlock(t)
  PROVE  /\ LockInv'
         /\ \A u \in People : (HasMutex(u)' <=> HasMutex(u) /\ u # t) /\ (Reads(u)' <=> Reads(u))
                                                                  /\ (Writes(u)' <=> Writes(u))
<1>0. LTypes /\ Locking /\ Runs(t) /\ ~Done(t) /\ t \notin sleeping \cup waking
      /\ Succeed(t) /\ at' = [at EXCEPT ![t] = @ + 1] /\ prog' = prog
      /\ Now(t).op = "mutex_unlock"
      /\ owner' = Nobody /\ UNCHANGED <<sleeping, waking, readers, writer>>
  BY DEF LockInv, mutex_unlock, Doing, OnMutex, Runs, Succeed
<1>1. LTypes' /\ Waiters'
  BY <1>0, Succeeds DEF LTypes
<1>2. /\ ~MutexIn(t)' /\ (Reads(t)' <=> Reads(t)) /\ (Writes(t)' <=> Writes(t))
      /\ \A u \in People : u # t => (MutexIn(u)' <=> MutexIn(u)) /\ (Reads(u)' <=> Reads(u))
                                                             /\ (Writes(u)' <=> Writes(u))
  BY <1>0, Advances DEF MutexTakes, ReadTakes, WriteTakes
<1>3. \A u \in People : HasMutex(u)' <=> HasMutex(u) /\ u # t
  BY <1>0, <1>2 DEF HasMutex, MutexIn
<1>4. \A u \in People : (Reads(u)' <=> Reads(u)) /\ (Writes(u)' <=> Writes(u))
  BY <1>2
<1>5. owner = t
  BY <1>0, Rules DEF Locking, HasMutex, MutexIn
<1>6. Locking'
  BY <1>0, <1>3, <1>4, <1>5, SyncAssumption DEF Locking
<1> QED BY <1>1, <1>3, <1>4, <1>6 DEF LockInv

\* A wait gives the mutex up ...
LEMMA Sleeps ==
  ASSUME LockInv, NEW t \in People, condvar_wait(t)
  PROVE  /\ LockInv'
         /\ \A u \in People : (HasMutex(u)' <=> HasMutex(u) /\ u # t) /\ (Reads(u)' <=> Reads(u))
                                                                  /\ (Writes(u)' <=> Writes(u))
<1>0. LTypes /\ Waiters /\ Locking /\ ~Done(t) /\ t \notin sleeping \cup waking
      /\ Now(t).op = "wait"
      /\ owner' = Nobody /\ sleeping' = sleeping \cup {t}
      /\ UNCHANGED <<prog, at, waking, readers, writer>>
  BY DEF LockInv, condvar_wait, Doing, OnCondvar, Runs
<1>1. LTypes'
  BY <1>0 DEF LTypes
<1>2. Waiters'
  BY <1>0 DEF Waiters, Done, Now
<1>3. \A u \in People : HasMutex(u)' <=> HasMutex(u) /\ u # t
  BY <1>0 DEF HasMutex
<1>4. \A u \in People : (Reads(u)' <=> Reads(u)) /\ (Writes(u)' <=> Writes(u))
  BY <1>0 DEF Reads, Writes
<1>5. owner = t
  BY <1>0, Rules DEF Locking, HasMutex, MutexIn
<1>6. Locking'
  BY <1>0, <1>3, <1>4, <1>5, SyncAssumption DEF Locking
<1> QED BY <1>1, <1>2, <1>3, <1>4, <1>6 DEF LockInv

\* ... and ends with it.
LEMMA Reacquires ==
  ASSUME LockInv, NEW t \in People, reacquire(t)
  PROVE  /\ LockInv'
         /\ \A u \in People : (HasMutex(u)' <=> HasMutex(u) \/ u = t) /\ (Reads(u)' <=> Reads(u))
                                                                  /\ (Writes(u)' <=> Writes(u))
<1>0. LTypes /\ Waiters /\ Locking /\ t \in waking /\ t \notin sleeping
      /\ ~Done(t) /\ Now(t).op = "wait"
      /\ owner = Nobody /\ owner' = t /\ waking' = waking \ {t}
      /\ UNCHANGED <<prog, at, sleeping, readers, writer>>
  BY DEF LockInv, reacquire, OnCondvar, Waiters
<1>1. LTypes'
  BY <1>0 DEF LTypes
<1>2. Waiters'
  BY <1>0 DEF Waiters, Done, Now
<1>3. \A u \in People : HasMutex(u)' <=> HasMutex(u) \/ u = t
  <2>1. MutexIn(t)
    BY <1>0, Rules
  <2> QED BY <1>0, <2>1 DEF HasMutex, MutexIn
<1>4. \A u \in People : (Reads(u)' <=> Reads(u)) /\ (Writes(u)' <=> Writes(u))
  BY <1>0 DEF Reads, Writes
<1>5. Locking'
  <2>1. \A u \in People : ~HasMutex(u)
    BY <1>0, SyncAssumption DEF Locking
  <2> QED BY <1>0, <1>3, <1>4, <2>1 DEF Locking
<1> QED BY <1>1, <1>2, <1>3, <1>4, <1>5 DEF LockInv

LEMMA ReadTaken ==
  ASSUME LockInv, NEW t \in People, Runs(t), Now(t).op \in ReadTakes, prog' = prog, Succeed(t),
         MayRead, readers' = readers \cup {t}, UNCHANGED <<owner, sleeping, waking, writer>>
  PROVE  /\ LockInv'
         /\ \A u \in People : (HasMutex(u)' <=> HasMutex(u)) /\ (Reads(u)' <=> Reads(u) \/ u = t)
                                                         /\ (Writes(u)' <=> Writes(u))
<1>0. LTypes /\ Locking /\ ~Done(t) /\ t \notin sleeping \cup waking
      /\ at' = [at EXCEPT ![t] = @ + 1]
      /\ Now(t).op \notin MutexTakes \cup WriteTakes \cup {"mutex_unlock", "rwlock_ulckwrite"}
  BY DEF LockInv, Runs, Succeed, MutexTakes, ReadTakes, WriteTakes
<1>1. LTypes' /\ Waiters'
  BY <1>0, Succeeds DEF LTypes
<1>2. /\ (MutexIn(t)' <=> MutexIn(t)) /\ Reads(t)' /\ (Writes(t)' <=> Writes(t))
      /\ \A u \in People : u # t => (MutexIn(u)' <=> MutexIn(u)) /\ (Reads(u)' <=> Reads(u))
                                                             /\ (Writes(u)' <=> Writes(u))
  BY <1>0, Advances
<1>3. \A u \in People : HasMutex(u)' <=> HasMutex(u)
  BY <1>0, <1>2 DEF HasMutex, MutexIn
<1>4. \A u \in People : (Reads(u)' <=> Reads(u) \/ u = t) /\ (Writes(u)' <=> Writes(u))
  BY <1>2
<1>5. Locking'
  BY <1>0, <1>3, <1>4 DEF Locking, MayRead
<1> QED BY <1>1, <1>3, <1>4, <1>5 DEF LockInv

LEMMA ReadGiven ==
  ASSUME LockInv, NEW t \in People, rwlock_ulckread(t)
  PROVE  /\ LockInv'
         /\ \A u \in People : (HasMutex(u)' <=> HasMutex(u)) /\ (Reads(u)' <=> Reads(u) /\ u # t)
                                                         /\ (Writes(u)' <=> Writes(u))
<1>0. LTypes /\ Locking /\ Runs(t) /\ ~Done(t) /\ t \notin sleeping \cup waking
      /\ Succeed(t) /\ at' = [at EXCEPT ![t] = @ + 1] /\ prog' = prog
      /\ Now(t).op = "rwlock_ulckread"
      /\ readers' = readers \ {t} /\ UNCHANGED <<owner, sleeping, waking, writer>>
  BY DEF LockInv, rwlock_ulckread, Doing, OnRwlock, Runs, Succeed
<1>1. LTypes' /\ Waiters'
  BY <1>0, Succeeds DEF LTypes
<1>2. /\ (MutexIn(t)' <=> MutexIn(t)) /\ ~Reads(t)' /\ (Writes(t)' <=> Writes(t))
      /\ \A u \in People : u # t => (MutexIn(u)' <=> MutexIn(u)) /\ (Reads(u)' <=> Reads(u))
                                                             /\ (Writes(u)' <=> Writes(u))
  BY <1>0, Advances DEF MutexTakes, ReadTakes, WriteTakes
<1>3. \A u \in People : HasMutex(u)' <=> HasMutex(u)
  BY <1>0, <1>2 DEF HasMutex, MutexIn
<1>4. \A u \in People : (Reads(u)' <=> Reads(u) /\ u # t) /\ (Writes(u)' <=> Writes(u))
  BY <1>2
<1>5. Locking'
  BY <1>0, <1>3, <1>4 DEF Locking
<1> QED BY <1>1, <1>3, <1>4, <1>5 DEF LockInv

LEMMA WriteTaken ==
  ASSUME LockInv, NEW t \in People, Runs(t), Now(t).op \in WriteTakes, prog' = prog, Succeed(t),
         MayWrite, writer' = t, UNCHANGED <<owner, sleeping, waking, readers>>
  PROVE  /\ LockInv'
         /\ \A u \in People : (HasMutex(u)' <=> HasMutex(u)) /\ (Reads(u)' <=> Reads(u))
                                                         /\ (Writes(u)' <=> Writes(u) \/ u = t)
<1>0. LTypes /\ Locking /\ ~Done(t) /\ t \notin sleeping \cup waking
      /\ at' = [at EXCEPT ![t] = @ + 1]
      /\ Now(t).op \notin MutexTakes \cup ReadTakes \cup {"mutex_unlock", "rwlock_ulckread"}
  BY DEF LockInv, Runs, Succeed, MutexTakes, ReadTakes, WriteTakes
<1>1. LTypes' /\ Waiters'
  BY <1>0, Succeeds DEF LTypes
<1>2. /\ (MutexIn(t)' <=> MutexIn(t)) /\ (Reads(t)' <=> Reads(t)) /\ Writes(t)'
      /\ \A u \in People : u # t => (MutexIn(u)' <=> MutexIn(u)) /\ (Reads(u)' <=> Reads(u))
                                                             /\ (Writes(u)' <=> Writes(u))
  BY <1>0, Advances
<1>3. \A u \in People : HasMutex(u)' <=> HasMutex(u)
  BY <1>0, <1>2 DEF HasMutex, MutexIn
<1>4. \A u \in People : (Reads(u)' <=> Reads(u)) /\ (Writes(u)' <=> Writes(u) \/ u = t)
  BY <1>2
<1>5. Locking'
  <2>1. \A u \in People : ~Writes(u)
    BY <1>0, SyncAssumption DEF Locking, MayWrite
  <2> QED BY <1>0, <1>3, <1>4, <2>1 DEF Locking, MayWrite
<1> QED BY <1>1, <1>3, <1>4, <1>5 DEF LockInv

LEMMA WriteGiven ==
  ASSUME LockInv, NEW t \in People, rwlock_ulckwrite(t)
  PROVE  /\ LockInv'
         /\ \A u \in People : (HasMutex(u)' <=> HasMutex(u)) /\ (Reads(u)' <=> Reads(u))
                                                         /\ (Writes(u)' <=> Writes(u) /\ u # t)
<1>0. LTypes /\ Locking /\ Runs(t) /\ ~Done(t) /\ t \notin sleeping \cup waking
      /\ Succeed(t) /\ at' = [at EXCEPT ![t] = @ + 1] /\ prog' = prog
      /\ Now(t).op = "rwlock_ulckwrite"
      /\ writer' = Nobody /\ UNCHANGED <<owner, sleeping, waking, readers>>
  BY DEF LockInv, rwlock_ulckwrite, Doing, OnRwlock, Runs, Succeed
<1>1. LTypes' /\ Waiters'
  BY <1>0, Succeeds DEF LTypes
<1>2. /\ (MutexIn(t)' <=> MutexIn(t)) /\ (Reads(t)' <=> Reads(t)) /\ ~Writes(t)'
      /\ \A u \in People : u # t => (MutexIn(u)' <=> MutexIn(u)) /\ (Reads(u)' <=> Reads(u))
                                                             /\ (Writes(u)' <=> Writes(u))
  BY <1>0, Advances DEF MutexTakes, ReadTakes, WriteTakes
<1>3. \A u \in People : HasMutex(u)' <=> HasMutex(u)
  BY <1>0, <1>2 DEF HasMutex, MutexIn
<1>4. \A u \in People : (Reads(u)' <=> Reads(u)) /\ (Writes(u)' <=> Writes(u) /\ u # t)
  BY <1>2
<1>5. writer = t
  BY <1>0, Rules DEF Locking
<1>6. Locking'
  BY <1>0, <1>3, <1>4, <1>5, SyncAssumption DEF Locking
<1> QED BY <1>1, <1>3, <1>4, <1>6 DEF LockInv

-----------------------------------------------------------------------------
(* The calls that leave the locks alone                                    *)

Initializes(t) == mutex_init(t) \/ condvar_init(t) \/ rwlock_init(t)
Plain(t) ==
  \/ destroy(t) \/ condition_holds(t) \/ clear_error(t) \/ create(t) \/ join(t)
  \/ add(t) \/ look(t) \/ count(t)
Wakes(t)  == condvar_signal(t) \/ condvar_broadcast(t)
Locks(t)  == mutex_lock(t) \/ mutex_trylock(t) \/ reacquire(t) \/ rwlock_lckread(t)
               \/ rwlock_try_lckread(t) \/ rwlock_lckwrite(t) \/ rwlock_try_lckwrite(t)
Unlocks(t) == mutex_unlock(t) \/ condvar_wait(t) \/ rwlock_ulckread(t) \/ rwlock_ulckwrite(t)

\* The locks t is inside with are those it was inside with.
Same(u) == (HasMutex(u)' <=> HasMutex(u)) /\ (Reads(u)' <=> Reads(u)) /\ (Writes(u)' <=> Writes(u))

LEMMA SameLocksNext ==
  ASSUME LTypes, NEW t \in People, ~Done(t),
         Now(t).op \notin MutexTakes \cup ReadTakes \cup WriteTakes,
         Now(t).op \notin {"mutex_unlock", "rwlock_ulckread", "rwlock_ulckwrite"}
  PROVE  at[t] + 1 \in 1 .. Len(prog[t]) + 1 /\ SameLocks(prog[t], at[t], at[t] + 1)
<1> DEFINE p == prog[t]
           k == at[t]
<1>1. k \in 1 .. Len(p) /\ Len(p) \in Nat /\ p[k] = Now(t)
  BY CallOf
<1>2. k \in Nat \ {0}
  BY <1>1
<1> HIDE DEF p, k
<1>3. MutexAt(p, k + 1) <=> p[k].op \in MutexTakes \/ (MutexAt(p, k) /\ p[k].op \notin {"mutex_unlock"})
  BY <1>2, TookNext DEF MutexAt
<1>4. ReadsAt(p, k + 1) <=> p[k].op \in ReadTakes \/ (ReadsAt(p, k) /\ p[k].op \notin {"rwlock_ulckread"})
  BY <1>2, TookNext DEF ReadsAt
<1>5. WritesAt(p, k + 1) <=> p[k].op \in WriteTakes \/ (WritesAt(p, k) /\ p[k].op \notin {"rwlock_ulckwrite"})
  BY <1>2, TookNext DEF WritesAt
<1>6. SameLocks(p, k, k + 1)
  BY <1>1, <1>3, <1>4, <1>5 DEF SameLocks
<1> QED BY <1>1, <1>6 DEF p, k

LEMMA QuietSucceeds ==
  ASSUME LockInv, NEW t \in People, Runs(t), prog' = prog, Succeed(t) \/ clear_error(t),
         Now(t).op \notin MutexTakes \cup ReadTakes \cup WriteTakes,
         Now(t).op \notin {"mutex_unlock", "rwlock_ulckread", "rwlock_ulckwrite"},
         UNCHANGED <<owner, readers, writer>>,
         sleeping' \cup waking' = sleeping \cup waking, sleeping' \cap waking' = {}
  PROVE  LockInv' /\ \A u \in People : Same(u)
<1>1. LTypes /\ ~Done(t) /\ t \notin sleeping \cup waking
  BY DEF LockInv, Runs
<1>2. at' = [at EXCEPT ![t] = at[t] + 1]
  BY DEF Succeed, clear_error
<1>3. at[t] + 1 \in 1 .. Len(prog[t]) + 1 /\ SameLocks(prog[t], at[t], at[t] + 1)
  BY <1>1, SameLocksNext
<1> QED BY <1>1, <1>2, <1>3, Quiet DEF Same

LEMMA Refused ==
  ASSUME LockInv, NEW t \in People, Runs(t), Now(t).op \in Tries, prog' = prog, Busy(t),
         UNCHANGED <<owner, sleeping, waking, readers, writer>>
  PROVE  LockInv' /\ \A u \in People : Same(u)
<1>1. LTypes /\ ~Done(t) /\ t \notin sleeping \cup waking /\ sleeping' \cap waking' = {}
  BY DEF LockInv, Runs, Waiters
<1>2. at' = [at EXCEPT ![t] = at[t] + 1 + Now(t).n]
  BY DEF Busy
<1>3. /\ at[t] + 1 + Now(t).n \in 1 .. Len(prog[t]) + 1
      /\ SameLocks(prog[t], at[t], at[t] + 1 + Now(t).n)
  BY <1>1, Rules
<1> QED BY <1>1, <1>2, <1>3, Quiet DEF Same

LEMMA InitializesQuietly ==
  ASSUME LockInv, NEW t \in People, Initializes(t)
  PROVE  LockInv' /\ \A u \in People : Same(u)
<1>1. /\ Runs(t) /\ Now(t).op = "init"
      /\ UNCHANGED <<prog, owner, sleeping, waking, readers, writer>>
      /\ Succeed(t) \/ UNCHANGED at \/ GiveUp(t)
  BY DEF Initializes, mutex_init, condvar_init, rwlock_init, initialize, Doing
<1>2. LTypes /\ ~Done(t) /\ t \notin sleeping \cup waking /\ sleeping' \cap waking' = {}
  BY <1>1 DEF LockInv, Runs, Waiters
<1>3. CASE Succeed(t)
  BY <1>1, <1>2, <1>3, QuietSucceeds DEF MutexTakes, ReadTakes, WriteTakes
<1>4. CASE UNCHANGED at
  BY <1>1, <1>4 DEF LockInv, LTypes, Waiters, Locking, Done, Now, Same, HasMutex, Reads, Writes
<1>5. CASE GiveUp(t)
  <2>1. at' = [at EXCEPT ![t] = Len(prog[t]) + 1]
    BY <1>5 DEF GiveUp
  <2>2. /\ Len(prog[t]) + 1 \in 1 .. Len(prog[t]) + 1
        /\ SameLocks(prog[t], at[t], Len(prog[t]) + 1)
    BY <1>1, <1>2, Rules
  <2> QED BY <1>1, <1>2, <2>1, <2>2, Quiet DEF Same
<1> QED BY <1>1, <1>3, <1>4, <1>5

LEMMA PlainQuietly ==
  ASSUME LockInv, NEW t \in People, Plain(t)
  PROVE  LockInv' /\ \A u \in People : Same(u)
<1>1. /\ Runs(t) /\ prog' = prog /\ (Succeed(t) \/ clear_error(t))
      /\ UNCHANGED <<owner, sleeping, waking, readers, writer>>
      /\ Now(t).op \in {"destroy", "wait", "clear_error", "create", "join", "add", "look", "count"}
  BY DEF Plain, destroy, condition_holds, clear_error, create, join, add, look, count, Doing, objects
<1>2. /\ Now(t).op \notin MutexTakes \cup ReadTakes \cup WriteTakes
      /\ Now(t).op \notin {"mutex_unlock", "rwlock_ulckread", "rwlock_ulckwrite"}
      /\ sleeping' \cap waking' = {}
  BY <1>1 DEF MutexTakes, ReadTakes, WriteTakes, LockInv, Waiters
<1> QED BY <1>1, <1>2, QuietSucceeds

LEMMA WakesQuietly ==
  ASSUME LockInv, NEW t \in People, Wakes(t)
  PROVE  LockInv' /\ \A u \in People : Same(u)
<1>1. /\ Runs(t) /\ prog' = prog /\ Succeed(t)
      /\ UNCHANGED <<owner, readers, writer>>
      /\ Now(t).op \in {"condvar_signal", "condvar_broadcast"}
  BY DEF Wakes, condvar_signal, condvar_broadcast, Doing, OnCondvar
<1>2. PICK T \in SUBSET sleeping : Wake(T)
  <2>1. CASE condvar_broadcast(t)
    BY <2>1 DEF condvar_broadcast
  <2>2. CASE condvar_signal(t)
    BY <2>2 DEF condvar_signal
  <2> QED BY <2>1, <2>2 DEF Wakes
<1>3. sleeping' \cup waking' = sleeping \cup waking /\ sleeping' \cap waking' = {}
  BY <1>2 DEF Wake, LockInv, Waiters
<1>4. /\ Now(t).op \notin MutexTakes \cup ReadTakes \cup WriteTakes
      /\ Now(t).op \notin {"mutex_unlock", "rwlock_ulckread", "rwlock_ulckwrite"}
  BY <1>1 DEF MutexTakes, ReadTakes, WriteTakes
<1> QED BY <1>1, <1>3, <1>4, QuietSucceeds

\* Nobody loses a lock.
Keeps(u) ==
  (HasMutex(u) => HasMutex(u)') /\ (Reads(u) => Reads(u)') /\ (Writes(u) => Writes(u)')

LEMMA LocksStep ==
  ASSUME LockInv, NEW t \in People, Locks(t)
  PROVE  LockInv' /\ \A u \in People : Keeps(u)
<1>1. CASE mutex_lock(t)
  <2>1. /\ Runs(t) /\ Now(t).op \in MutexTakes /\ prog' = prog /\ Succeed(t)
        /\ owner = Nobody /\ owner' = t /\ UNCHANGED <<sleeping, waking, readers, writer>>
    BY <1>1 DEF mutex_lock, Doing, OnMutex, MutexTakes
  <2> QED BY <2>1, MutexTaken DEF Keeps
<1>2. CASE mutex_trylock(t)
  <2>1. /\ Runs(t) /\ Now(t).op \in MutexTakes /\ Now(t).op \in Tries /\ prog' = prog
        /\ UNCHANGED <<sleeping, waking, readers, writer>>
        /\ \/ owner = Nobody /\ owner' = t /\ Succeed(t)
           \/ UNCHANGED owner /\ Busy(t)
    BY <1>2 DEF mutex_trylock, Doing, OnMutex, MutexTakes, Tries
  <2> QED BY <2>1, MutexTaken, Refused DEF Keeps, Same
<1>3. CASE reacquire(t)
  BY <1>3, Reacquires DEF Keeps
<1>4. CASE rwlock_lckread(t)
  <2>1. /\ Runs(t) /\ Now(t).op \in ReadTakes /\ prog' = prog /\ Succeed(t)
        /\ MayRead /\ readers' = readers \cup {t} /\ UNCHANGED <<owner, sleeping, waking, writer>>
    BY <1>4 DEF rwlock_lckread, Doing, OnRwlock, ReadTakes
  <2> QED BY <2>1, ReadTaken DEF Keeps
<1>5. CASE rwlock_try_lckread(t)
  <2>1. /\ Runs(t) /\ Now(t).op \in ReadTakes /\ Now(t).op \in Tries /\ prog' = prog
        /\ UNCHANGED <<owner, sleeping, waking, writer>>
        /\ \/ MayRead /\ readers' = readers \cup {t} /\ Succeed(t)
           \/ UNCHANGED readers /\ Busy(t)
    BY <1>5 DEF rwlock_try_lckread, Doing, OnRwlock, ReadTakes, Tries
  <2> QED BY <2>1, ReadTaken, Refused DEF Keeps, Same
<1>6. CASE rwlock_lckwrite(t)
  <2>1. /\ Runs(t) /\ Now(t).op \in WriteTakes /\ prog' = prog /\ Succeed(t)
        /\ MayWrite /\ writer' = t /\ UNCHANGED <<owner, sleeping, waking, readers>>
    BY <1>6 DEF rwlock_lckwrite, Doing, OnRwlock, WriteTakes
  <2> QED BY <2>1, WriteTaken DEF Keeps
<1>7. CASE rwlock_try_lckwrite(t)
  <2>1. /\ Runs(t) /\ Now(t).op \in WriteTakes /\ Now(t).op \in Tries /\ prog' = prog
        /\ UNCHANGED <<owner, sleeping, waking, readers>>
        /\ \/ MayWrite /\ writer' = t /\ Succeed(t)
           \/ UNCHANGED writer /\ Busy(t)
    BY <1>7 DEF rwlock_try_lckwrite, Doing, OnRwlock, WriteTakes, Tries
  <2> QED BY <2>1, WriteTaken, Refused DEF Keeps, Same
<1> QED BY <1>1, <1>2, <1>3, <1>4, <1>5, <1>6, <1>7 DEF Locks

LEMMA UnlocksStep ==
  ASSUME LockInv, NEW t \in People, Unlocks(t)
  PROVE  LockInv' /\ \A u \in People : u # t => Keeps(u)
BY MutexGiven, Sleeps, ReadGiven, WriteGiven DEF Unlocks, Keeps

LEMMA WakesUp ==
  ASSUME LockInv, NEW t \in People, spurious_wakeup(t)
  PROVE  LockInv' /\ \A u \in People : Keeps(u)
<1>1. /\ t \in sleeping /\ Wake({t})
      /\ UNCHANGED <<prog, at, owner, readers, writer>>
  BY DEF spurious_wakeup
<1>2. sleeping' \cup waking' = sleeping \cup waking /\ sleeping' \cap waking' = {}
  BY <1>1 DEF Wake, LockInv, Waiters
<1>3. \A u \in People : (HasMutex(u)' <=> HasMutex(u)) /\ (Reads(u)' <=> Reads(u))
                                                   /\ (Writes(u)' <=> Writes(u))
  BY <1>1, <1>2 DEF HasMutex, Reads, Writes
<1>4. LTypes'
  BY <1>1, <1>2 DEF LockInv, LTypes
<1>5. Waiters'
  BY <1>1, <1>2 DEF LockInv, Waiters, Done, Now
<1>6. Locking'
  BY <1>1, <1>3 DEF LockInv, Locking
<1> QED BY <1>3, <1>4, <1>5, <1>6 DEF LockInv, Keeps

-----------------------------------------------------------------------------
(* The data                                                                *)

Inside(t, guard) == IF guard = "mutex" THEN HasMutex(t) ELSE Reads(t) \/ Writes(t)

\* Who has looked at the data is inside with the lock that guards it.
DataUnder(guard) ==
  /\ \A t \in People : Respects(prog[t], guard)
  /\ \A t \in People : seen[t] # Unseen => Inside(t, guard) /\ seen[t] = tally

DataInv ==
  /\ seen \in [People -> Int] /\ tally \in Int
  /\ \E guard \in {"mutex", "rwlock"} : DataUnder(guard)

LEMMA DataKept ==
  ASSUME DataInv, prog' = prog, tally' = tally, seen' \in [People -> Int],
         \A u \in People : seen'[u] # Unseen => seen'[u] = seen[u] /\ Keeps(u)
  PROVE  DataInv'
<1>1. PICK guard \in {"mutex", "rwlock"} : DataUnder(guard)
  BY DEF DataInv
<1>2. \A u \in People : seen'[u] # Unseen => Inside(u, guard)' /\ seen'[u] = tally'
  <2> SUFFICES ASSUME NEW u \in People, seen'[u] # Unseen
               PROVE  Inside(u, guard)' /\ seen'[u] = tally'
    OBVIOUS
  <2>1. Inside(u, guard) /\ seen[u] = tally /\ Keeps(u) /\ seen'[u] = seen[u]
    BY <1>1 DEF DataUnder
  <2>2. CASE guard = "mutex"
    BY <2>1, <2>2 DEF Inside, Keeps
  <2>3. CASE guard # "mutex"
    BY <2>1, <2>3 DEF Inside, Keeps
  <2> QED BY <2>1, <2>2, <2>3
<1>3. DataUnder(guard)'
  BY <1>1, <1>2 DEF DataUnder
<1> QED BY <1>3 DEF DataInv

\* Only a thread that is inside looks, and one that counts is inside alone.
LEMMA DataTouched ==
  ASSUME LockInv, DataInv, NEW t \in People, look(t) \/ count(t)
  PROVE  DataInv'
<1>1. PICK guard \in {"mutex", "rwlock"} : DataUnder(guard)
  BY DEF DataInv
<1>2. /\ Runs(t) /\ ~Done(t) /\ t \notin sleeping \cup waking /\ prog' = prog
      /\ Now(t).op \in {"look", "count"} /\ LTypes
  BY DEF look, count, Doing, Runs, LockInv
<1>3. \A u \in People : Keeps(u)
  BY PlainQuietly DEF Plain, Keeps, Same
<1>4. Respects(prog[t], guard) /\ at[t] \in 1 .. Len(prog[t]) /\ Now(t) = prog[t][at[t]]
  BY <1>1, <1>2, CallOf DEF DataUnder
<1>5. IF guard = "mutex" THEN HasMutex(t) ELSE Reads(t) \/ Writes(t)
  <2>1. CASE guard = "mutex"
    <3>1. MutexAt(prog[t], at[t])
      BY <1>2, <1>4, <2>1 DEF Respects
    <3> QED BY <1>2, <2>1, <3>1 DEF HasMutex
  <2>2. CASE guard # "mutex"
    <3>1. ReadsAt(prog[t], at[t]) \/ WritesAt(prog[t], at[t])
      BY <1>2, <1>4, <2>2 DEF Respects
    <3> QED BY <2>2, <3>1 DEF Reads, Writes
  <2> QED BY <2>1, <2>2
<1>6. Inside(t, guard)'
  <2>1. CASE guard = "mutex"
    BY <1>3, <1>5, <2>1 DEF Inside, Keeps
  <2>2. CASE guard # "mutex"
    BY <1>3, <1>5, <2>2 DEF Inside, Keeps
  <2> QED BY <2>1, <2>2
<1>7. seen \in [People -> Int] /\ tally \in Int /\ Unseen \in Int
  BY DEF DataInv, Unseen
<1>8. \A u \in People : Inside(u, guard) => Inside(u, guard)'
  <2>1. CASE guard = "mutex"
    BY <1>3, <2>1 DEF Inside, Keeps
  <2>2. CASE guard # "mutex"
    BY <1>3, <2>2 DEF Inside, Keeps
  <2> QED BY <2>1, <2>2
<1>9. CASE look(t)
  <2>1. tally' = tally /\ seen' = [seen EXCEPT ![t] = tally]
    BY <1>9 DEF look
  <2>2. \A u \in People : seen'[u] # Unseen => Inside(u, guard)' /\ seen'[u] = tally'
    BY <1>1, <1>6, <1>7, <1>8, <2>1 DEF DataUnder
  <2> QED BY <1>1, <1>2, <1>7, <2>1, <2>2 DEF DataInv, DataUnder
<1>10. CASE count(t)
  <2>1. tally' = seen[t] + 1 /\ seen' = [seen EXCEPT ![t] = tally']
    BY <1>10 DEF count
  <2>2. tally' \in Int /\ seen' \in [People -> Int] /\ seen'[t] = tally'
        /\ \A u \in People : u # t => seen'[u] = seen[u]
    BY <1>7, <2>1
  <2>3. \A u \in People : u # t => ~Inside(u, guard)
    <3>1. Now(t).op = "count" /\ Locking
      BY <1>10 DEF count, Doing, LockInv
    <3>2. CASE guard = "mutex"
      <4>1. HasMutex(t)
        BY <1>5, <3>2
      <4> QED BY <3>1, <3>2, <4>1 DEF Inside, Locking
    <3>3. CASE guard # "mutex"
      <4>1. Writes(t)
        BY <1>4, <3>1, <3>3 DEF Respects, Writes
      <4>2. writer = t /\ readers = {}
        BY <3>1, <4>1, SyncAssumption DEF Locking
      <4> QED BY <3>1, <3>3, <4>2 DEF Inside, Locking
    <3> QED BY <3>2, <3>3
  <2>4. \A u \in People : seen'[u] # Unseen => Inside(u, guard)' /\ seen'[u] = tally'
    BY <1>1, <1>6, <2>2, <2>3 DEF DataUnder
  <2> QED BY <1>1, <1>2, <2>2, <2>4 DEF DataInv, DataUnder
<1> QED BY <1>9, <1>10

-----------------------------------------------------------------------------
(* The errors                                                              *)

ErrInv ==
  /\ serror \in [People -> {"ok", "busy", "sync"}] /\ refused \subseteq People
  /\ \A t \in refused : serror[t] = "busy" /\ at[t] # 1

SyncInv == LockInv /\ DataInv /\ ErrInv

\* How a call ends.
Ends(t) ==
  \/ Succeed(t)
  \/ Busy(t) /\ Now(t).op \in Tries
  \/ GiveUp(t) /\ Now(t).op = "init"
  \/ clear_error(t)

LEMMA EndOfCall ==
  ASSUME NEW t \in People, SyncStep(t)
  PROVE  prog' = prog /\ (UNCHANGED <<at, serror, refused>> \/ (Runs(t) /\ Ends(t)))
<1>1. CASE Initializes(t)
  BY <1>1 DEF Initializes, mutex_init, condvar_init, rwlock_init, initialize, Doing, Ends
<1>2. CASE Plain(t)
  BY <1>2 DEF Plain, destroy, condition_holds, clear_error, create, join, add, look, count,
              Doing, Ends
<1>3. CASE Wakes(t)
  BY <1>3 DEF Wakes, condvar_signal, condvar_broadcast, OnCondvar, Doing, Ends
<1>4. CASE Locks(t)
  BY <1>4 DEF Locks, mutex_lock, mutex_trylock, reacquire, rwlock_lckread, rwlock_try_lckread,
              rwlock_lckwrite, rwlock_try_lckwrite, OnMutex, OnCondvar, OnRwlock, Doing, Ends, Tries
<1>5. CASE Unlocks(t)
  BY <1>5 DEF Unlocks, mutex_unlock, condvar_wait, rwlock_ulckread, rwlock_ulckwrite,
              OnMutex, OnCondvar, OnRwlock, Doing, Ends
<1> QED BY <1>1, <1>2, <1>3, <1>4, <1>5
        DEF SyncStep, Initializes, Plain, Wakes, Locks, Unlocks

LEMMA ErrorsStep ==
  ASSUME SyncInv, NEW t \in People, SyncStep(t)
  PROVE  ErrInv'
<1>0. /\ LTypes /\ at \in [People -> Nat \ {0}]
      /\ serror \in [People -> {"ok", "busy", "sync"}] /\ refused \subseteq People
      /\ \A u \in refused : serror[u] = "busy" /\ at[u] # 1
  BY DEF SyncInv, LockInv, LTypes, ErrInv
<1>1. CASE UNCHANGED <<at, serror, refused>>
  BY <1>0, <1>1 DEF ErrInv
<1>2. CASE Runs(t) /\ Succeed(t)
  BY <1>0, <1>2 DEF Succeed, ErrInv
<1>3. CASE Runs(t) /\ Busy(t) /\ Now(t).op \in Tries
  <2>1. at[t] \in Nat \ {0} /\ Now(t).n \in Nat \ {0}
    BY <1>0, <1>3, Rules DEF Runs
  <2> QED BY <1>0, <1>3, <2>1 DEF Busy, set_error, ErrInv
<1>4. CASE Runs(t) /\ GiveUp(t) /\ Now(t).op = "init"
  <2>1. t \notin refused
    BY <1>0, <1>4, Rules DEF Runs
  <2> QED BY <1>0, <1>4, <2>1 DEF GiveUp, set_error, ErrInv
<1>5. CASE Runs(t) /\ clear_error(t)
  BY <1>0, <1>5 DEF clear_error, set_error, ErrInv
<1> QED BY <1>1, <1>2, <1>3, <1>4, <1>5, EndOfCall DEF Ends

-----------------------------------------------------------------------------
(* Theorems about the locks                                                *)

LEMMA SyncInitial == SyncInit => SyncInv
<1> SUFFICES ASSUME SyncInit PROVE SyncInv  OBVIOUS
<1>1. LTypes
  <2>1. \A t \in People : Len(prog[t]) \in Nat
    BY SyncAssumption DEF SyncInit
  <2> QED BY <2>1 DEF SyncInit, LTypes
<1>2. \A t \in People : ~HasMutex(t) /\ ~Reads(t) /\ ~Writes(t)
  <2>1. \A t \in People : at[t] = 1
    BY DEF SyncInit
  <2> QED BY <2>1, TookNothing DEF HasMutex, Reads, Writes
<1>3. Waiters /\ Locking
  BY <1>2, SyncAssumption DEF SyncInit, Waiters, Locking
<1>4. DataInv
  <2>1. PICK guard \in {"mutex", "rwlock"} : \A t \in People : Respects(prog[t], guard)
    BY SyncAssumption DEF SyncInit
  <2>2. DataUnder(guard)
    BY <2>1 DEF SyncInit, DataUnder
  <2> QED BY <2>2 DEF SyncInit, DataInv, Unseen
<1>5. ErrInv
  BY DEF SyncInit, ErrInv
<1> QED BY <1>1, <1>3, <1>4, <1>5 DEF SyncInv, LockInv

LEMMA DataStep ==
  ASSUME SyncInv, NEW t \in People, SyncStep(t)
  PROVE  LockInv' /\ DataInv'
<1>0. LockInv /\ DataInv /\ seen \in [People -> Int] /\ Unseen \in Int
  BY DEF SyncInv, DataInv, Unseen
<1>1. prog' = prog
  BY EndOfCall
<1>2. CASE look(t) \/ count(t)
  BY <1>0, <1>2, DataTouched, PlainQuietly DEF Plain
<1>3. ASSUME LockInv', UNCHANGED <<tally, seen>>, \A u \in People : Keeps(u)
      PROVE  DataInv'
  BY <1>0, <1>1, <1>3, DataKept
<1>4. CASE Initializes(t) \/ Wakes(t) \/ (Plain(t) /\ ~(look(t) \/ count(t)))
  <2>1. UNCHANGED <<tally, seen>>
    <3>1. CASE Initializes(t)
      BY <3>1 DEF Initializes, mutex_init, condvar_init, rwlock_init, initialize, data
    <3>2. CASE Wakes(t)
      BY <3>2 DEF Wakes, condvar_signal, condvar_broadcast, data
    <3>3. CASE Plain(t) /\ ~(look(t) \/ count(t))
      BY <3>3 DEF Plain, destroy, condition_holds, clear_error, create, join, add, data
    <3> QED BY <1>4, <3>1, <3>2, <3>3
  <2>2. LockInv' /\ \A u \in People : Same(u)
    BY <1>0, <1>4, InitializesQuietly, WakesQuietly, PlainQuietly
  <2>3. \A u \in People : Keeps(u)
    BY <2>2 DEF Same, Keeps
  <2> QED BY <1>3, <2>1, <2>2, <2>3
<1>5. CASE Locks(t)
  <2>1. UNCHANGED <<tally, seen>>
    BY <1>5 DEF Locks, mutex_lock, mutex_trylock, reacquire, rwlock_lckread, rwlock_try_lckread,
                rwlock_lckwrite, rwlock_try_lckwrite, data
  <2>2. LockInv' /\ \A u \in People : Keeps(u)
    BY <1>0, <1>5, LocksStep
  <2> QED BY <1>3, <2>1, <2>2
<1>6. CASE Unlocks(t)
  <2>1. tally' = tally /\ seen' = [seen EXCEPT ![t] = Unseen]
    BY <1>6 DEF Unlocks, mutex_unlock, condvar_wait, rwlock_ulckread, rwlock_ulckwrite, Forget
  <2>2. LockInv' /\ \A u \in People : u # t => Keeps(u)
    BY <1>0, <1>6, UnlocksStep
  <2>3. seen' \in [People -> Int]
        /\ \A u \in People : seen'[u] # Unseen => seen'[u] = seen[u] /\ u # t
    BY <1>0, <2>1
  <2> QED BY <1>0, <1>1, <2>1, <2>2, <2>3, DataKept
<1> QED BY <1>2, <1>4, <1>5, <1>6 DEF SyncStep, Initializes, Plain, Wakes, Locks, Unlocks

LEMMA SyncPreserved == SyncInv /\ [SyncNext]_svars => SyncInv'
<1> SUFFICES ASSUME SyncInv, [SyncNext]_svars PROVE SyncInv'  OBVIOUS
<1>1. CASE UNCHANGED svars
  <2>1. UNCHANGED <<prog, at, owner, sleeping, waking, readers, writer, serror, refused,
                    tally, seen>>
    BY <1>1 DEF svars, objects, data
  <2>2. LockInv'
    BY <2>1 DEF SyncInv, LockInv, LTypes, Waiters, Locking, Done, Now, HasMutex, Reads, Writes
  <2>3. \A u \in People : Keeps(u)
    BY <2>1 DEF Keeps, HasMutex, Reads, Writes
  <2>4. DataInv'
    BY <2>1, <2>3, DataKept DEF SyncInv, DataInv
  <2>5. ErrInv'
    BY <2>1 DEF SyncInv, ErrInv
  <2> QED BY <2>2, <2>4, <2>5 DEF SyncInv
<1>2. ASSUME NEW t \in People, SyncStep(t) PROVE SyncInv'
  BY <1>2, DataStep, ErrorsStep DEF SyncInv
<1>3. ASSUME NEW t \in People, spurious_wakeup(t) PROVE SyncInv'
  <2>1. LockInv' /\ \A u \in People : Keeps(u)
    BY <1>3, WakesUp DEF SyncInv
  <2>2. UNCHANGED <<prog, at, serror, refused, tally, seen>>
    BY <1>3 DEF spurious_wakeup, data
  <2>3. DataInv'
    BY <2>1, <2>2, DataKept DEF SyncInv, DataInv
  <2>4. ErrInv'
    BY <2>2 DEF SyncInv, ErrInv
  <2> QED BY <2>1, <2>3, <2>4 DEF SyncInv
<1> QED BY <1>1, <1>2, <1>3 DEF SyncNext

\* The locks are with the threads whose calls say so: SyncInv is inductive over
\* the calls of sync.c, for any threads and any programs that use the locks as
\* sync.h asks.
THEOREM LockInvariance == SyncSpec => []SyncInv
BY SyncInitial, SyncPreserved, PTL DEF SyncSpec

\* cpr_mutex_*, cpr_condvar_wait and cpr_rwlock_* exclude whom they should: what
\* a thread found under its lock stays so until it gives the lock back.
THEOREM LocksProtect == SyncSpec => []NothingChangesUnderALock
<1>1. SyncInv => NothingChangesUnderALock
  BY DEF SyncInv, DataInv, DataUnder, NothingChangesUnderALock
<1> QED BY <1>1, LockInvariance, PTL

\* S_ERROR is thread local: no call of another thread hides CPR_ERR_BUSY from the
\* thread whose try-lock was refused.
THEOREM ErrorsKept == SyncSpec => []ErrorsArePrivate
<1>1. SyncInv => ErrorsArePrivate
  BY DEF SyncInv, ErrInv, ErrorsArePrivate
<1> QED BY <1>1, LockInvariance, PTL

\* The three try-locks answer CPR_ERR_BUSY when, and only when, another thread is
\* inside with a lock that excludes the one they ask for.
THEOREM RefusalsHaveAReason == SyncSpec => BusyIffExcluded
<1> DEFINE busy(t) == at'[t] # at[t] + 1
<1>1. ASSUME SyncInv, NEW t \in People, mutex_trylock(t)
      PROVE  busy(t) <=> \E u \in People \ {t} : HasMutex(u)
  <2>1. /\ ~Done(t) /\ t \notin sleeping \cup waking /\ Now(t).op \in MutexTakes \cap Tries
        /\ LTypes /\ Locking
    BY <1>1 DEF mutex_trylock, Doing, Runs, MutexTakes, Tries, SyncInv, LockInv
  <2>2. at[t] \in Nat /\ at \in [People -> Nat \ {0}] /\ Now(t).n \in Nat \ {0} /\ ~MutexIn(t)
    BY <2>1, Rules DEF LTypes
  <2>3. ~HasMutex(t) /\ owner # t
    BY <2>1, <2>2 DEF HasMutex, MutexIn, Locking
  <2>4. CASE owner = Nobody /\ Succeed(t)
    <3>1. ~busy(t)
      BY <2>2, <2>4 DEF Succeed
    <3> QED BY <2>1, <2>4, <3>1, SyncAssumption DEF Locking
  <2>5. CASE owner # Nobody /\ Busy(t)
    <3>1. busy(t)
      BY <2>2, <2>5 DEF Busy
    <3>2. owner \in People \ {t} /\ HasMutex(owner)
      BY <2>1, <2>3, <2>5 DEF LTypes, Locking
    <3> QED BY <3>1, <3>2
  <2> QED BY <1>1, <2>4, <2>5 DEF mutex_trylock
<1>2. ASSUME SyncInv, NEW t \in People, rwlock_try_lckread(t)
      PROVE  busy(t) <=> \E u \in People \ {t} : Writes(u)
  <2>1. ~Done(t) /\ Now(t).op \in ReadTakes \cap Tries /\ LTypes /\ Locking
    BY <1>2 DEF rwlock_try_lckread, Doing, Runs, ReadTakes, Tries, SyncInv, LockInv
  <2>2. at[t] \in Nat /\ at \in [People -> Nat \ {0}] /\ Now(t).n \in Nat \ {0} /\ ~Writes(t)
    BY <2>1, Rules DEF LTypes
  <2>3. CASE MayRead /\ Succeed(t)
    <3>1. ~busy(t)
      BY <2>2, <2>3 DEF Succeed
    <3> QED BY <2>1, <2>3, <3>1, SyncAssumption DEF Locking, MayRead
  <2>4. CASE ~MayRead /\ Busy(t)
    <3>1. busy(t)
      BY <2>2, <2>4 DEF Busy
    <3>2. writer \in People \ {t} /\ Writes(writer)
      BY <2>1, <2>2, <2>4 DEF LTypes, Locking, MayRead
    <3> QED BY <3>1, <3>2
  <2> QED BY <1>2, <2>3, <2>4 DEF rwlock_try_lckread
<1>3. ASSUME SyncInv, NEW t \in People, rwlock_try_lckwrite(t)
      PROVE  busy(t) <=> \E u \in People \ {t} : Reads(u) \/ Writes(u)
  <2>1. ~Done(t) /\ Now(t).op \in WriteTakes \cap Tries /\ LTypes /\ Locking
    BY <1>3 DEF rwlock_try_lckwrite, Doing, Runs, WriteTakes, Tries, SyncInv, LockInv
  <2>2. /\ at[t] \in Nat /\ at \in [People -> Nat \ {0}] /\ Now(t).n \in Nat \ {0}
        /\ ~Reads(t) /\ ~Writes(t)
    BY <2>1, Rules DEF LTypes
  <2>3. CASE MayWrite /\ Succeed(t)
    <3>1. ~busy(t)
      BY <2>2, <2>3 DEF Succeed
    <3> QED BY <2>1, <2>3, <3>1, SyncAssumption DEF Locking, MayWrite
  <2>4. CASE ~MayWrite /\ Busy(t)
    <3>1. busy(t)
      BY <2>2, <2>4 DEF Busy
    <3>2. \E u \in People \ {t} : Reads(u) \/ Writes(u)
      <4>1. CASE writer # Nobody
        BY <2>1, <2>2, <4>1 DEF LTypes, Locking
      <4>2. CASE readers # {}
        BY <2>1, <2>2, <4>2 DEF LTypes, Locking
      <4> QED BY <2>4, <4>1, <4>2 DEF MayWrite
    <3> QED BY <3>1, <3>2
  <2> QED BY <1>3, <2>3, <2>4 DEF rwlock_try_lckwrite
<1>4. SyncInv /\ [SyncNext]_svars =>
        [\A t \in People :
           /\ mutex_trylock(t) => (busy(t) <=> \E u \in People \ {t} : HasMutex(u))
           /\ rwlock_try_lckread(t) => (busy(t) <=> \E u \in People \ {t} : Writes(u))
           /\ rwlock_try_lckwrite(t) =>
                (busy(t) <=> \E u \in People \ {t} : Reads(u) \/ Writes(u))]_svars
  BY <1>1, <1>2, <1>3
<1> QED BY <1>4, LockInvariance, PTL DEF SyncSpec, BusyIffExcluded
=============================================================================
