----------------------------- MODULE SyncProofs ------------------------------
(***************************************************************************)
(* Proofs about the parts module MCSync runs side by side: the mutex for   *)
(* any number of tasks and waiter entries, the semaphore for any number of *)
(* units too; kernel threads for any jobs, entries and task slots, with    *)
(* one task that creates them; and interrupts from the device to the       *)
(* handler for any quantum.                                                *)
(***************************************************************************)
EXTENDS MCSync, SequenceTheorems, WellFoundedInduction, TLAPS

-----------------------------------------------------------------------------
(* The mutex. *)

(* Exactly the task that won the exchange holds the lock, until it stores  *)
(* 0: the strengthening that makes mutual exclusion inductive.             *)
LockHeld ==
  /\ \A p, r \in Tasks : pc[p] \in HoldingPcs /\ pc[r] \in HoldingPcs => p = r
  /\ \A p \in Tasks : pc[p] \in HoldingPcs => locked = 1
  /\ locked = 1 => \E p \in Tasks : pc[p] \in HoldingPcs

(* The inductive invariant. *)
IInv == TypeOK /\ LockHeld /\ OwnerNamesHolder /\ WaitersAreWaiting

-----------------------------------------------------------------------------
(* remove_waiter keeps a duplicate-free list duplicate-free, and takes out *)
(* its argument and nothing else.                                          *)
LEMMA RemoveWaiter ==
  ASSUME NEW w \in Seq(Tasks), NEW p \in Tasks,
         \A i, j \in 1 .. Len(w) : w[i] = w[j] => i = j
  PROVE  /\ remove_waiter(w, p) \in Seq(Tasks)
         /\ Len(remove_waiter(w, p)) <= Len(w)
         /\ \A i \in 1 .. Len(remove_waiter(w, p)) :
              /\ remove_waiter(w, p)[i] # p
              /\ \E k \in 1 .. Len(w) : remove_waiter(w, p)[i] = w[k]
              /\ \A j \in 1 .. Len(remove_waiter(w, p)) :
                   remove_waiter(w, p)[i] = remove_waiter(w, p)[j] => i = j
<1> DEFINE n == Len(w)  r == remove_waiter(w, p)
<1>0. n \in Nat /\ \A i \in 1 .. n : w[i] \in Tasks
  OBVIOUS
<1>1. CASE ~In(p, w)
  BY <1>0, <1>1 DEF remove_waiter, In
<1>2. CASE In(p, w)
  <2> DEFINE hole == CHOOSE i \in 1 .. n : w[i] = p /\ \A j \in 1 .. i - 1 : w[j] # p
  <2>1. PICK k \in 1 .. n : w[k] = p
    BY <1>2 DEF In
  <2>2. \A j \in 1 .. k - 1 : w[j] # p
    BY <1>0, <2>1
  <2>3. hole \in 1 .. n /\ w[hole] = p
    BY <2>1, <2>2
  <2>4. r = [i \in 1 .. n - 1 |-> IF i = hole THEN w[n] ELSE w[i]]
    BY <1>2 DEF remove_waiter
  <2> HIDE DEF hole, r
  <2>5. n - 1 \in Nat /\ n \in 1 .. n
    BY <1>0, <2>3
  <2>6. /\ r \in Seq(Tasks) /\ Len(r) = n - 1
        /\ \A i \in 1 .. n - 1 : r[i] = IF i = hole THEN w[n] ELSE w[i]
    BY <1>0, <2>4, <2>5
  <2>7. ASSUME NEW i \in 1 .. n - 1
        PROVE  /\ r[i] # p
               /\ \E m \in 1 .. n : r[i] = w[m]
               /\ \A j \in 1 .. n - 1 : r[i] = r[j] => i = j
    <3>1. i \in 1 .. n /\ i # n
      BY <1>0
    <3>2. r[i] # p
      BY <1>0, <2>3, <2>5, <2>6, <3>1
    <3>3. ASSUME NEW j \in 1 .. n - 1, r[i] = r[j] PROVE i = j
      <4>1. j \in 1 .. n /\ j # n
        BY <1>0
      <4> QED  BY <1>0, <2>3, <2>5, <2>6, <3>1, <3>3, <4>1
    <3> QED  BY <2>5, <2>6, <3>1, <3>2, <3>3
  <2> QED  BY <1>0, <2>6, <2>7 DEF r
<1> QED  BY <1>1, <1>2

-----------------------------------------------------------------------------
(* mutex_init's state. *)
LEMMA InitInv == Init => IInv
  BY MutexAssumption DEF Init, IInv, TypeOK, LockHeld, OwnerNamesHolder,
     WaitersAreWaiting, HoldingPcs, WaitingPcs, Pcs, Tasks

(* The ready ring leads from task to task. *)
LEMMA RingType == ASSUME NEW p \in Tasks PROVE ring_next(p) \in Tasks
  BY MutexAssumption DEF ring_next, Tasks

(* The part of the invariant about who holds the lock, step by step. *)
LEMMA HeldStep ==
  ASSUME IInv, NEW p \in Tasks, Step(p) \/ Call(p)
  PROVE  LockHeld' /\ OwnerNamesHolder' /\ locked' \in {0, 1}
         /\ owner_pid' \in Tasks /\ pc' \in [Tasks -> Pcs] /\ cur' \in Tasks
<1> USE DEF IInv, TypeOK, LockHeld, OwnerNamesHolder, HoldingPcs, Pcs, Goto, Keep
<1>0. 0 \in Tasks
  BY MutexAssumption DEF Tasks
<1>1. CASE call_lock(p) \/ call_try_lock(p)
  BY <1>1 DEF call_lock, call_try_lock
<1>2. CASE mutex_try_lock(p)
  BY <1>2 DEF mutex_try_lock, atomic_xchg
<1>3. CASE lock_fast(p)
  BY <1>3 DEF lock_fast, atomic_xchg
<1>4. CASE set_owner_fast(p)
  BY <1>4 DEF set_owner_fast
<1>5. CASE lock_register(p)
  BY <1>5 DEF lock_register
<1>6. CASE lock_spin(p)
  BY <1>6, RingType DEF lock_spin, atomic_xchg
<1>7. CASE set_owner_slow(p)
  BY <1>7 DEF set_owner_slow
<1>8. CASE lock_deregister(p)
  BY <1>8 DEF lock_deregister
<1>9. CASE call_unlock(p)
  BY <1>9 DEF call_unlock
<1>10. CASE unlock_first(p)
  BY <1>0, <1>10 DEF unlock_first, unlock_store
<1>11. CASE unlock_second(p)
  BY <1>11 DEF unlock_second, unlock_store
<1> QED
  BY <1>1, <1>2, <1>3, <1>4, <1>5, <1>6, <1>7, <1>8, <1>9, <1>10, <1>11
     DEF Step, Call

(* The waiter list, step by step. *)
LEMMA WaiterStep ==
  ASSUME IInv, NEW p \in Tasks, Step(p) \/ Call(p)
  PROVE  waiters' \in Seq(Tasks) /\ WaitersAreWaiting'
<1>0. /\ waiters \in Seq(Tasks) /\ pc \in [Tasks -> Pcs]
      /\ Len(waiters) \in Nat /\ MUTEX_WAITER_MAX \in Nat
      /\ Len(waiters) <= MUTEX_WAITER_MAX
      /\ \A i \in 1 .. Len(waiters) :
           /\ waiters[i] \in Tasks /\ pc[waiters[i]] \in WaitingPcs
           /\ \A j \in 1 .. Len(waiters) : waiters[i] = waiters[j] => i = j
  BY MutexAssumption DEF IInv, TypeOK, WaitersAreWaiting
<1>1. ASSUME waiters' = waiters, NEW to, pc' = [pc EXCEPT ![p] = to],
             pc[p] \in WaitingPcs => to \in WaitingPcs
      PROVE  waiters' \in Seq(Tasks) /\ WaitersAreWaiting'
  BY <1>0, <1>1 DEF WaitersAreWaiting
<1>2. CASE lock_register(p)
  <2>1. CASE Len(waiters) < MUTEX_WAITER_MAX
    <3> DEFINE w == Append(waiters, p)
    <3>1. /\ waiters' = w /\ pc' = [pc EXCEPT ![p] = "spin"]
          /\ pc[p] = "register"
      BY <1>2, <2>1 DEF lock_register, Goto
    <3>2. /\ w \in Seq(Tasks) /\ Len(w) = Len(waiters) + 1
          /\ \A i \in 1 .. Len(waiters) : w[i] = waiters[i]
          /\ w[Len(waiters) + 1] = p
      BY <1>0
    <3>3. \A i \in 1 .. Len(waiters) : waiters[i] # p
      BY <1>0, <3>1 DEF WaitingPcs
    <3>4. pc'[p] = "spin" /\ \A r \in Tasks : r # p => pc'[r] = pc[r]
      BY <1>0, <3>1
    <3> HIDE DEF w
    <3>5. \A i \in 1 .. Len(w) : i \in 1 .. Len(waiters) \/ i = Len(waiters) + 1
      BY <1>0, <3>2
    <3>6. ASSUME NEW i \in 1 .. Len(w)
          PROVE  /\ pc'[w[i]] \in WaitingPcs
                 /\ \A j \in 1 .. Len(w) : w[i] = w[j] => i = j
      BY <1>0, <3>2, <3>3, <3>4, <3>5 DEF WaitingPcs
    <3> QED  BY <1>0, <2>1, <3>1, <3>2, <3>6 DEF WaitersAreWaiting
  <2>2. CASE ~(Len(waiters) < MUTEX_WAITER_MAX)
    BY <1>1, <1>2, <2>2 DEF lock_register, Goto, WaitingPcs
  <2> QED  BY <2>1, <2>2
<1>3. CASE lock_deregister(p)
  <2> DEFINE w == remove_waiter(waiters, p)
  <2>1. waiters' = w /\ pc' = [pc EXCEPT ![p] = "cs"]
    BY <1>3 DEF lock_deregister, Goto
  <2>2. /\ w \in Seq(Tasks) /\ Len(w) <= Len(waiters)
        /\ \A i \in 1 .. Len(w) :
             /\ w[i] # p
             /\ \E k \in 1 .. Len(waiters) : w[i] = waiters[k]
             /\ \A j \in 1 .. Len(w) : w[i] = w[j] => i = j
    BY <1>0, RemoveWaiter
  <2> HIDE DEF w
  <2>3. \A r \in Tasks : r # p => pc'[r] = pc[r]
    BY <1>0, <2>1
  <2>4. Len(w) \in Nat /\ Len(w) <= MUTEX_WAITER_MAX
    BY <1>0, <2>2
  <2> QED  BY <1>0, <2>1, <2>2, <2>3, <2>4 DEF WaitersAreWaiting
<1>4. CASE lock_spin(p)
  BY <1>1, <1>4 DEF lock_spin, atomic_xchg, Goto, WaitingPcs
<1>5. CASE mutex_try_lock(p) \/ lock_fast(p)
  BY <1>1, <1>5 DEF mutex_try_lock, lock_fast, atomic_xchg, Goto, WaitingPcs
<1>6. CASE call_lock(p) \/ call_try_lock(p) \/ set_owner_fast(p)
           \/ set_owner_slow(p) \/ call_unlock(p)
  BY <1>1, <1>6 DEF call_lock, call_try_lock, set_owner_fast, set_owner_slow,
     call_unlock, Goto, WaitingPcs
<1>7. CASE unlock_first(p) \/ unlock_second(p)
  BY <1>1, <1>7 DEF unlock_first, unlock_second, Goto, WaitingPcs
<1> QED  BY <1>2, <1>3, <1>4, <1>5, <1>6, <1>7 DEF Step, Call

(* Every step keeps the invariant. *)
LEMMA NextInv == IInv /\ [Next]_vars => IInv'
<1> SUFFICES ASSUME IInv, [Next]_vars PROVE IInv'
  OBVIOUS
<1>1. CASE UNCHANGED vars
  BY <1>1 DEF vars, IInv, TypeOK, LockHeld, OwnerNamesHolder, WaitersAreWaiting
<1>2. CASE preempt
  <2>1. cur' \in Tasks
    BY <1>2, RingType DEF preempt, IInv, TypeOK
  <2> QED
    BY <1>2, <2>1 DEF preempt, IInv, TypeOK, LockHeld, OwnerNamesHolder,
                      WaitersAreWaiting
<1>3. ASSUME NEW p \in Tasks, Step(p) \/ Call(p) PROVE IInv'
  BY <1>3, HeldStep, WaiterStep DEF IInv, TypeOK
<1> QED  BY <1>1, <1>2, <1>3 DEF Next

THEOREM MutexInvariance == Spec => []IInv
<1> QED  BY InitInv, NextInv, PTL DEF Spec

(* Two tasks are never both between mutex_lock and mutex_unlock. *)
THEOREM MutexExclusive == Spec => []MutualExclusion
<1>1. IInv => MutualExclusion
  BY DEF IInv, LockHeld, MutualExclusion, HoldingPcs
<1> QED  BY <1>1, MutexInvariance, PTL

(* owner_pid names the task inside. *)
THEOREM OwnerCorrect == Spec => []OwnerNamesHolder
<1>1. IInv => OwnerNamesHolder
  BY DEF IInv
<1> QED  BY <1>1, MutexInvariance, PTL

(* The waiter list never holds a task that got in, or one twice. *)
THEOREM WaitersCorrect == Spec => []WaitersAreWaiting
<1>1. IInv => WaitersAreWaiting
  BY DEF IInv
<1> QED  BY <1>1, MutexInvariance, PTL

-----------------------------------------------------------------------------
(* The mutex admits one task at a time and lets each leave by itself. *)
THEOREM ImplementsOneInside == Spec => AdmitsOne
<1> DEFINE InNext == \E t \in Tasks : L!enter(t) \/ L!leave(t)
<1>1. Init => Inside = L!Empty
  BY DEF Init, L!Empty, Inside, HoldingPcs
<1>2. IInv /\ IInv' /\ [Next]_vars => [InNext]_Inside
  <2> SUFFICES ASSUME IInv, IInv', [Next]_vars PROVE InNext \/ Inside' = Inside
    OBVIOUS
  <2>1. /\ \A p, r \in Inside : p = r
        /\ \A p, r \in Inside' : p = r
        /\ pc \in [Tasks -> Pcs] /\ pc' \in [Tasks -> Pcs]
    BY DEF IInv, LockHeld, TypeOK, Inside
  <2>2. CASE pc' = pc
    BY <2>2 DEF Inside
  <2>3. ASSUME NEW p \in Tasks, \A r \in Tasks : r # p => pc'[r] = pc[r]
        PROVE  InNext \/ Inside' = Inside
    <3>0. \A r \in Tasks \ {p} : r \in Inside <=> r \in Inside'
      BY <2>3 DEF Inside
    <3>1. CASE p \in Inside <=> p \in Inside'
      BY <3>0, <3>1 DEF Inside
    <3>2. CASE p \notin Inside /\ p \in Inside'
      <4>1. Inside' = {p}
        BY <2>1, <3>2
      <4>2. Inside = {}
        BY <3>0, <3>2, <4>1 DEF Inside
      <4> QED  BY <4>1, <4>2 DEF L!enter, L!Empty
    <3>3. CASE p \in Inside /\ p \notin Inside'
      <4>1. Inside = {p}
        BY <2>1, <3>3
      <4>2. Inside' = {}
        BY <3>0, <3>3, <4>1 DEF Inside
      <4> QED  BY <4>1, <4>2 DEF L!leave, L!Empty
    <3> QED  BY <3>1, <3>2, <3>3
  <2>4. pc' = pc \/ \E p \in Tasks : \A r \in Tasks : r # p => pc'[r] = pc[r]
    <3>1. ASSUME NEW p \in Tasks, Step(p) \/ Call(p)
          PROVE  \E to : pc' = [pc EXCEPT ![p] = to]
      BY <3>1 DEF Step, Call, Goto, call_lock, call_try_lock, mutex_try_lock,
         lock_fast, set_owner_fast, lock_register, lock_spin, set_owner_slow,
         lock_deregister, call_unlock, unlock_first, unlock_second, atomic_xchg
    <3> QED  BY <2>1, <3>1 DEF Next, vars, preempt
  <2> QED  BY <2>2, <2>3, <2>4
<1> QED  BY <1>1, <1>2, MutexInvariance, PTL DEF Spec, AdmitsOne, L!Spec

-----------------------------------------------------------------------------
(* The parts side by side. *)

allvars == << part, vars, svars, kvars, ivars, lvars >>

(* Every step is a step of one part, and stutters in the others. *)
LEMMA Parts ==
  ASSUME [SyncNext]_allvars
  PROVE  /\ [Next]_vars /\ [Sem!Next]_svars /\ [K!Next]_kvars /\ [I!Next]_ivars
         /\ [LinksNext]_lvars /\ UNCHANGED part
BY DEF SyncNext, allvars

-----------------------------------------------------------------------------
(* The semaphore. *)

SemInv == Sem!TypeOK /\ Sem!UnitsConserved /\ Sem!WaitersAreWaiting

LEMMA SemInitInv == Sem!Init => SemInv
BY SyncAssumption
DEF Sem!Init, Sem!SemAssumption, SemInv, Sem!TypeOK, Sem!UnitsConserved, Sem!WaitersAreWaiting

LEMMA SemNextInv == SemInv /\ [Sem!Next]_svars => SemInv'
<1> SUFFICES ASSUME SemInv, [Sem!Next]_svars PROVE SemInv'
  OBVIOUS
<1>0. /\ Sem!TypeOK /\ Sem!UnitsConserved /\ Sem!WaitersAreWaiting /\ Sem!Tasks = Tasks
      /\ InitialCount \in Nat /\ SEM_WAITER_MAX \in Nat /\ Len(sem_waiters) \in Nat
  BY SyncAssumption DEF SemInv, Sem!SemAssumption, Sem!TypeOK, Sem!Tasks, Tasks
<1>1. CASE UNCHANGED svars
  BY <1>1 DEF svars, SemInv, Sem!TypeOK, Sem!UnitsConserved, Sem!WaitersAreWaiting
<1>2. ASSUME NEW p \in Sem!Tasks,
             Sem!sem_trywait(p) \/ Sem!sem_wait_fast(p) \/ Sem!sem_post(p)
      PROVE  SemInv'
  <2>1. /\ UNCHANGED << sem_waiters, sem_pc >>
        /\ \/ count > 0 /\ count' = count - 1 /\ taken' = taken + 1 /\ posted' = posted
           \/ count' = count + 1 /\ posted' = posted + 1 /\ taken' = taken
    BY <1>2 DEF Sem!sem_trywait, Sem!sem_wait_fast, Sem!sem_post, Sem!post_count,
                Sem!available, Sem!take
  <2>2. Sem!TypeOK'
    BY <1>0, <2>1 DEF Sem!TypeOK
  <2>3. Sem!UnitsConserved'
    BY <1>0, <2>1 DEF Sem!UnitsConserved, Sem!TypeOK
  <2>4. Sem!WaitersAreWaiting'
    BY <1>0, <2>1 DEF Sem!WaitersAreWaiting
  <2> QED  BY <2>2, <2>3, <2>4 DEF SemInv
<1>3. ASSUME NEW p \in Sem!Tasks, Sem!sem_wait_register(p) PROVE SemInv'
  <2>1. /\ sem_pc[p] = "idle" /\ sem_pc' = [sem_pc EXCEPT ![p] = "spin"]
        /\ sem_waiters' = IF Len(sem_waiters) < SEM_WAITER_MAX
                          THEN Append(sem_waiters, p) ELSE sem_waiters
        /\ UNCHANGED << count, posted, taken >>
    BY <1>3 DEF Sem!sem_wait_register
  <2>2. Sem!TypeOK'
    BY <1>0, <2>1 DEF Sem!TypeOK
  <2>3. Sem!UnitsConserved'
    BY <1>0, <2>1 DEF Sem!UnitsConserved
  <2>4. Sem!WaitersAreWaiting'
    <3> DEFINE w == sem_waiters'
    <3>1. /\ Len(w) \in Nat /\ Len(w) <= SEM_WAITER_MAX
          /\ \A i \in 1 .. Len(w) : \/ i \in 1 .. Len(sem_waiters) /\ w[i] = sem_waiters[i]
                                    \/ i = Len(w) /\ i = Len(sem_waiters) + 1 /\ w[i] = p
      BY <1>0, <2>1 DEF Sem!TypeOK, Sem!WaitersAreWaiting
    <3> HIDE DEF w
    <3>2. \A i \in 1 .. Len(sem_waiters) : /\ sem_waiters[i] \in Sem!Tasks
                                           /\ sem_pc[sem_waiters[i]] = "spin"
                                           /\ sem_waiters[i] # p
      BY <1>0, <2>1 DEF Sem!TypeOK, Sem!WaitersAreWaiting
    <3>3. \A i \in 1 .. Len(w) : sem_pc'[w[i]] = "spin"
      BY <1>0, <2>1, <3>1, <3>2 DEF Sem!TypeOK
    <3>4. \A i, j \in 1 .. Len(w) : w[i] = w[j] => i = j
      BY <1>0, <3>1, <3>2 DEF Sem!WaitersAreWaiting
    <3> QED  BY <3>1, <3>3, <3>4 DEF Sem!WaitersAreWaiting, w
  <2> QED  BY <2>2, <2>3, <2>4 DEF SemInv
<1>4. ASSUME NEW p \in Sem!Tasks, Sem!sem_wait_spin(p) PROVE SemInv'
  <2>1. /\ sem_pc[p] = "spin" /\ sem_pc' = [sem_pc EXCEPT ![p] = "idle"]
        /\ count > 0 /\ count' = count - 1 /\ taken' = taken + 1 /\ posted' = posted
        /\ sem_waiters' = Sem!remove_waiter(sem_waiters, p)
    BY <1>4 DEF Sem!sem_wait_spin, Sem!available, Sem!take
  <2>2. Sem!remove_waiter(sem_waiters, p) = remove_waiter(sem_waiters, p)
    BY DEF Sem!remove_waiter, Sem!In, remove_waiter, In
  <2> DEFINE r == remove_waiter(sem_waiters, p)
  <2>3. /\ r \in Seq(Tasks) /\ Len(r) <= Len(sem_waiters)
        /\ \A i \in 1 .. Len(r) :
             /\ r[i] # p
             /\ \E k \in 1 .. Len(sem_waiters) : r[i] = sem_waiters[k]
             /\ \A j \in 1 .. Len(r) : r[i] = r[j] => i = j
    <3>1. sem_waiters \in Seq(Tasks) /\ p \in Tasks
          /\ \A i, j \in 1 .. Len(sem_waiters) :
               sem_waiters[i] = sem_waiters[j] => i = j
      BY <1>0 DEF Sem!TypeOK, Sem!WaitersAreWaiting
    <3> QED  BY <3>1, RemoveWaiter
  <2> HIDE DEF r
  <2>4. sem_waiters' = r
    BY <2>1, <2>2 DEF r
  <2>5. Sem!TypeOK' /\ Sem!UnitsConserved'
    BY <1>0, <2>1, <2>3, <2>4 DEF Sem!TypeOK, Sem!UnitsConserved
  <2>6. Sem!WaitersAreWaiting'
    BY <1>0, <2>1, <2>3, <2>4 DEF Sem!WaitersAreWaiting, Sem!TypeOK
  <2> QED  BY <2>5, <2>6 DEF SemInv
<1> QED  BY <1>1, <1>2, <1>3, <1>4 DEF Sem!Next

(* sem_post, sem_wait and sem_trywait make and lose no units, and the      *)
(* waiter list holds only waiting tasks, each once, also when more wait    *)
(* than it has entries.                                                    *)
THEOREM SyncUnitsConserved == SyncSpec => []UnitsConserved
<1>1. SyncInit => IInv /\ SemInv
  BY InitInv, SemInitInv DEF SyncInit
<1>2. IInv /\ SemInv /\ [SyncNext]_allvars => IInv' /\ SemInv'
  BY NextInv, SemNextInv, Parts
<1>3. IInv /\ SemInv => UnitsConserved
  BY DEF IInv, SemInv, UnitsConserved
<1> QED  BY <1>1, <1>2, <1>3, PTL DEF SyncSpec, allvars

-----------------------------------------------------------------------------
(* Kernel threads. *)

(* One task creates and joins threads. *)
OneCreator == \A c, d \in Creators : c = d

Live(t) == tpc[t] \in {"trampoline", "read", "release", "call", "serving", "exit"}

(* The thread in task slot t is job j's: as its entry says, or, once read, *)
(* its own variable.                                                       *)
Runs(t, j) ==
  CASE tpc[t] = "trampoline" -> \E i \in K!Entries : kt_pid[i] = tpid[t] /\ fn[i] = j
    [] tpc[t] = "read" -> /\ tentry[t] \in K!Entries /\ kt_pid[tentry[t]] = tpid[t]
                          /\ fn[tentry[t]] = j
    [] tpc[t] = "release" -> /\ tentry[t] \in K!Entries /\ kt_pid[tentry[t]] = tpid[t]
                             /\ tjob[t] = j
    [] OTHER -> tjob[t] = j

KTypes ==
  /\ g_slots_init \in BOOLEAN /\ kt_next_pid \in Nat
  /\ fn \in [K!Entries -> Jobs \cup {K!Nothing}]
  /\ kt_pid \in [K!Entries -> Nat \cup {K!Free}]
  /\ state \in [K!Tasks -> {"DEAD", "READY"}] /\ tpid \in [K!Tasks -> Nat]
  /\ tpc \in [K!Tasks -> {"off", "trampoline", "read", "release", "call", "serving",
                          "exit"}]
  /\ tentry \in [K!Tasks -> K!Entries \cup {K!Nothing}]
  /\ tjob \in [K!Tasks -> Jobs \cup {K!Nothing}]
  /\ cpc \in [Creators -> {"idle", "slots_init", "slots_clear", "slot_alloc", "scan",
                           "claim", "fill", "add", "join"}]
  /\ cjob \in [Creators -> Jobs \cup {K!Nothing}]
  /\ centry \in [Creators -> K!Entries \cup {K!Nothing}]
  /\ ctask \in [Creators -> K!Tasks \cup {K!Nothing}]
  /\ handle \in [Jobs -> K!Tasks \cup {K!Nothing}] /\ ran \in [Jobs -> Nat]
  /\ done \subseteq Jobs /\ joined \subseteq Jobs

(* PIDs are not given twice, and no two entries are for the same one. *)
PidsFresh ==
  /\ \A i \in K!Entries : kt_pid[i] < kt_next_pid
  /\ \A t \in K!Tasks : tpid[t] < kt_next_pid
  /\ \A t, u \in K!Tasks : state[t] = "READY" /\ state[u] = "READY" /\ tpid[t] = tpid[u]
                             => t = u
  /\ g_slots_init => \A i, k \in K!Entries : kt_pid[i] # K!Free /\ kt_pid[i] = kt_pid[k] => i = k

(* Before the first kthread_create has cleared the entries there is no     *)
(* thread.                                                                 *)
NotYet ==
  ~g_slots_init => /\ \A t \in K!Tasks : state[t] = "DEAD"
                   /\ \A j \in Jobs : handle[j] = K!Nothing

(* A slot is in use from its claim to its thread's exit. *)
SlotsInUse ==
  /\ \A t \in K!Tasks : Live(t) => state[t] = "READY"
  /\ \A t \in K!Tasks : state[t] = "READY" =>
       Live(t) \/ \E c \in Creators : cpc[c] \in {"fill", "add"} /\ ctask[c] = t

(* Where kthread_create and kthread_join are. *)
CreatorAt(c) ==
  /\ cpc[c] \notin {"idle", "join"} => cjob[c] \in Jobs /\ handle[cjob[c]] = K!Nothing
  /\ cpc[c] = "join" => cjob[c] \in Jobs /\ handle[cjob[c]] # K!Nothing
  /\ cpc[c] = "slots_clear" => ~g_slots_init
  /\ cpc[c] \in {"slot_alloc", "scan", "claim", "fill", "add"} => g_slots_init
  /\ cpc[c] \in {"scan", "claim", "fill"} =>
       centry[c] \in K!Entries /\ kt_pid[centry[c]] = K!Free
  /\ cpc[c] = "claim" => ctask[c] \in K!Tasks /\ state[ctask[c]] = "DEAD"
  /\ cpc[c] \in {"fill", "add"} => /\ ctask[c] \in K!Tasks /\ tpc[ctask[c]] = "off"
                                   /\ state[ctask[c]] = "READY"
  /\ cpc[c] = "fill" => \A i \in K!Entries : kt_pid[i] # tpid[ctask[c]]
  /\ cpc[c] = "add" => /\ centry[c] \in K!Entries /\ fn[centry[c]] = cjob[c]
                       /\ kt_pid[centry[c]] = tpid[ctask[c]]

(* Each thread is that of a job whose handle is its slot, which has run if *)
(* the call was made; and a job with a handle is in its slot or done.      *)
ThreadsHaveJobs ==
  /\ \A t \in K!Tasks : Live(t) =>
       \E j \in Jobs : /\ handle[j] = t /\ Runs(t, j)
                       /\ ran[j] = IF tpc[t] \in {"serving", "exit"} THEN 1 ELSE 0
  /\ \A j \in Jobs : /\ handle[j] # K!Nothing =>
                          j \in done \/ (Live(handle[j]) /\ Runs(handle[j], j))
                     /\ handle[j] = K!Nothing => ran[j] = 0
                     /\ ran[j] <= 1
  /\ joined \subseteq done

(* The inductive invariant of kernel threads. *)
KInv ==
  /\ KTypes /\ PidsFresh /\ NotYet /\ SlotsInUse
  /\ \A c \in Creators : CreatorAt(c)
  /\ ThreadsHaveJobs

(* A set of numbers has a least element, and Least finds it. *)
LEMMA LeastIn ==
  ASSUME NEW T, T \subseteq Nat, T # {}
  PROVE  K!Least(T) \in T
<1> DEFINE Below == {ss \in Nat \X Nat : ss[1] < ss[2]}
<1>1. IsWellFoundedOn(Below, Nat)
  BY NatLessThanWellFounded DEF OpToRel
<1>2. \A y, x \in Nat : y < x => << y, x >> \in Below
  OBVIOUS
<1> HIDE DEF Below
<1>3. PICK x \in T : \A y \in T : ~(<< y, x >> \in Below)
  BY <1>1, WFMin, Zenon
<1>4. ASSUME NEW y \in T PROVE x <= y
  <2>1. x \in Nat /\ y \in Nat
    OBVIOUS
  <2>2. ~(y < x)
    BY <1>2, <1>3, <2>1
  <2> QED  BY <2>1, <2>2
<1> QED  BY <1>4 DEF K!Least

LEMMA KInitInv == K!Init => KInv
<1> SUFFICES ASSUME K!Init PROVE KInv
  OBVIOUS
<1> USE SyncAssumption DEF K!Init, K!KthreadAssumption
<1>1. KTypes
  BY DEF KTypes, K!Nothing, K!Free
<1>2. PidsFresh /\ NotYet /\ SlotsInUse
  BY DEF PidsFresh, NotYet, SlotsInUse, Live
<1>3. \A c \in Creators : CreatorAt(c)
  BY DEF CreatorAt
<1>4. ThreadsHaveJobs
  BY DEF ThreadsHaveJobs, Live, K!Nothing
<1> QED  BY <1>1, <1>2, <1>3, <1>4 DEF KInv

(* Steps of the creator that touch nothing but its own variables. *)
LEMMA KCreatorStep ==
  ASSUME OneCreator, KInv, NEW c \in Creators,
         UNCHANGED << g_slots_init, fn, kt_pid, state, tpid, kt_next_pid, tpc, tentry, tjob,
                      handle, ran, done >>,
         joined' \subseteq done, cpc[c] \notin {"fill", "add"},
         cpc' \in [Creators -> {"idle", "slots_init", "slots_clear", "slot_alloc", "scan",
                                "claim", "fill", "add", "join"}],
         cjob' \in [Creators -> Jobs \cup {K!Nothing}],
         centry' \in [Creators -> K!Entries \cup {K!Nothing}],
         ctask' \in [Creators -> K!Tasks \cup {K!Nothing}],
         CreatorAt(c)'
  PROVE  KInv'
<1>1. \A d \in Creators : d = c
  BY DEF OneCreator
<1>2. KTypes' /\ PidsFresh' /\ NotYet'
  BY DEF KInv, KTypes, PidsFresh, NotYet
<1>3. SlotsInUse'
  BY <1>1 DEF KInv, SlotsInUse, Live
<1>4. \A d \in Creators : CreatorAt(d)'
  BY <1>1
<1>5. ThreadsHaveJobs'
  BY DEF KInv, ThreadsHaveJobs, Live, Runs
<1> QED  BY <1>2, <1>3, <1>4, <1>5 DEF KInv

LEMMA KCallsInv ==
  ASSUME OneCreator, KInv, NEW c \in Creators, NEW j \in Jobs,
         K!call_create(c, j) \/ K!call_join(c, j)
  PROVE  KInv'
<1> USE DEF KInv, KTypes
<1>1. CASE K!call_create(c, j)
  <2>1. CreatorAt(c)'
    BY <1>1 DEF CreatorAt, K!call_create, K!CGoto, K!slotv, K!taskv, K!trampv, K!ghostv
  <2> QED  BY <1>1, <2>1, KCreatorStep
           DEF K!call_create, K!CGoto, K!slotv, K!taskv, K!trampv, K!ghostv, ThreadsHaveJobs
<1>2. CASE K!call_join(c, j)
  <2>1. CreatorAt(c)'
    BY <1>2 DEF CreatorAt, K!call_join, K!CGoto, K!slotv, K!taskv, K!trampv, K!ghostv
  <2> QED  BY <1>2, <2>1, KCreatorStep
           DEF K!call_join, K!CGoto, K!slotv, K!taskv, K!trampv, K!ghostv, ThreadsHaveJobs
<1> QED  BY <1>1, <1>2

LEMMA KFailInv ==
  ASSUME OneCreator, KInv, NEW c \in Creators, K!Fail(c), cpc[c] \notin {"fill", "add"}
  PROVE  KInv'
<1> USE DEF KInv, KTypes
<1>1. CreatorAt(c)'
  BY DEF CreatorAt, K!Fail, K!CGoto, K!slotv, K!taskv, K!trampv, K!ghostv
<1> QED  BY <1>1, KCreatorStep
         DEF K!Fail, K!CGoto, K!slotv, K!taskv, K!trampv, K!ghostv, ThreadsHaveJobs

LEMMA KBeforeClaimInv ==
  ASSUME OneCreator, KInv, NEW c \in Creators,
         K!slots_init(c) \/ K!choose_entry(c) \/ K!scan_tasks(c) \/ K!kthread_join(c)
  PROVE  KInv'
<1> USE DEF KInv, KTypes
<1>1. CASE K!slots_init(c)
  <2>1. CreatorAt(c)'
    BY <1>1 DEF CreatorAt, K!slots_init, K!CGoto, K!slotv, K!taskv, K!trampv, K!ghostv
  <2> QED  BY <1>1, <2>1, KCreatorStep
           DEF K!slots_init, K!CGoto, K!slotv, K!taskv, K!trampv, K!ghostv, ThreadsHaveJobs
<1>2. CASE K!choose_entry(c)
  <2>1. CASE K!slot_alloc(c) = {}
    BY <1>2, <2>1, KFailInv DEF K!choose_entry
  <2>2. CASE K!slot_alloc(c) # {}
    <3> DEFINE e == K!Least(K!slot_alloc(c))
    <3>0. K!slot_alloc(c) \subseteq Nat
      BY SyncAssumption DEF K!slot_alloc, K!Entries, K!KthreadAssumption
    <3>1. e \in K!slot_alloc(c)
      BY ONLY <2>2, <3>0, LeastIn
    <3>2. e \in K!Entries /\ kt_pid[e] = K!Free
      BY <3>1 DEF K!slot_alloc
    <3>3. /\ cpc[c] = "slot_alloc" /\ centry' = [centry EXCEPT ![c] = e]
          /\ cpc' = [cpc EXCEPT ![c] = "scan"]
          /\ UNCHANGED << g_slots_init, fn, kt_pid, state, tpid, kt_next_pid, tpc, tentry, tjob,
                          cjob, ctask, handle, ran, done, joined >>
      BY <1>2, <2>2
      DEF K!choose_entry, K!CGoto, K!slotv, K!taskv, K!trampv, K!ghostv
    <3> HIDE DEF e
    <3>4. CreatorAt(c)'
      BY <3>2, <3>3 DEF CreatorAt
    <3> QED  BY <3>2, <3>3, <3>4, KCreatorStep DEF ThreadsHaveJobs
  <2> QED  BY <2>1, <2>2
<1>3. CASE K!scan_tasks(c)
  <2> DEFINE dead == {t \in K!Tasks : state[t] = "DEAD"}
             e == K!Least(dead)
  <2>1. CASE K!Fail(c)
    BY <1>3, <2>1, KFailInv DEF K!scan_tasks
  <2>2. CASE ~K!Fail(c)
    <3>1. /\ cpc[c] = "scan" /\ dead # {} /\ ctask' = [ctask EXCEPT ![c] = e]
          /\ cpc' = [cpc EXCEPT ![c] = "claim"]
          /\ UNCHANGED << g_slots_init, fn, kt_pid, state, tpid, kt_next_pid, tpc, tentry, tjob,
                          cjob, centry, handle, ran, done, joined >>
      BY <1>3, <2>2
      DEF K!scan_tasks, K!CGoto, K!slotv, K!taskv, K!trampv, K!ghostv
    <3>0. dead \subseteq Nat
      BY SyncAssumption DEF K!Tasks, K!KthreadAssumption
    <3>2. e \in dead
      <4> HIDE DEF dead
      <4> QED  BY ONLY <3>0, <3>1, LeastIn
    <3>3. e \in K!Tasks /\ state[e] = "DEAD"
      BY <3>2
    <3> HIDE DEF e
    <3>4. CreatorAt(c)'
      BY <3>1, <3>3 DEF CreatorAt
    <3> QED  BY <3>1, <3>3, <3>4, KCreatorStep DEF ThreadsHaveJobs
  <2> QED  BY <2>1, <2>2
<1>4. CASE K!kthread_join(c)
  <2>1. /\ cpc[c] = "join" /\ state[handle[cjob[c]]] = "DEAD"
        /\ joined' = joined \cup {cjob[c]}
        /\ cjob' = [cjob EXCEPT ![c] = K!Nothing] /\ cpc' = [cpc EXCEPT ![c] = "idle"]
        /\ UNCHANGED << g_slots_init, fn, kt_pid, state, tpid, kt_next_pid, tpc, tentry, tjob,
                        centry, ctask, handle, ran, done >>
    BY <1>4
    DEF K!kthread_join, K!join_over, K!CGoto, K!slotv, K!taskv, K!trampv, K!ghostv
  <2>2. cjob[c] \in Jobs /\ handle[cjob[c]] \in K!Tasks
    BY <2>1 DEF CreatorAt
  <2>3. cjob[c] \in done
    BY <2>1, <2>2 DEF ThreadsHaveJobs, SlotsInUse, CreatorAt
  <2>4. CreatorAt(c)'
    BY <2>1 DEF CreatorAt
  <2> QED  BY <2>1, <2>3, <2>4, KCreatorStep DEF ThreadsHaveJobs
<1> QED  BY <1>1, <1>2, <1>3, <1>4

LEMMA KSlotsClearInv ==
  ASSUME OneCreator, KInv, NEW c \in Creators, K!slots_clear(c)
  PROVE  KInv'
<1>1. /\ cpc[c] = "slots_clear" /\ cpc' = [cpc EXCEPT ![c] = "slot_alloc"]
      /\ kt_pid' = [i \in K!Entries |-> K!Free] /\ g_slots_init' = TRUE
      /\ UNCHANGED << fn, state, tpid, kt_next_pid, tpc, tentry, tjob, cjob, centry, ctask,
                      handle, ran, done, joined >>
  BY DEF K!slots_clear, K!CGoto, K!taskv, K!trampv, K!ghostv
<1>2. \A d \in Creators : d = c
  BY DEF OneCreator
<1>3. ~g_slots_init /\ \A t \in K!Tasks : state[t] = "DEAD" /\ ~Live(t)
  BY <1>1 DEF KInv, CreatorAt, NotYet, SlotsInUse
<1>4. KTypes'
  BY <1>1 DEF KInv, KTypes
<1>5. PidsFresh'
  BY <1>1, <1>3 DEF KInv, KTypes, PidsFresh, K!Free
<1>6. NotYet' /\ SlotsInUse'
  BY <1>1, <1>3 DEF KInv, NotYet, SlotsInUse, Live
<1>7. \A d \in Creators : CreatorAt(d)'
  BY <1>1, <1>2 DEF KInv, KTypes, CreatorAt
<1>8. ThreadsHaveJobs'
  BY <1>1, <1>3 DEF KInv, NotYet, ThreadsHaveJobs, Live
<1> QED  BY <1>4, <1>5, <1>6, <1>7, <1>8 DEF KInv

LEMMA KClaimInv ==
  ASSUME OneCreator, KInv, NEW c \in Creators, K!claim_task(c)
  PROVE  KInv'
<1> DEFINE t == ctask[c]
<1>1. /\ cpc[c] = "claim" /\ cpc' = [cpc EXCEPT ![c] = "fill"]
      /\ state' = [state EXCEPT ![t] = "READY"] /\ tpid' = [tpid EXCEPT ![t] = kt_next_pid]
      /\ kt_next_pid' = kt_next_pid + 1 /\ tpc' = [tpc EXCEPT ![t] = "off"]
      /\ UNCHANGED << g_slots_init, fn, kt_pid, tentry, tjob, cjob, centry, ctask, handle, ran,
                      done, joined >>
  BY DEF K!claim_task, K!CGoto, K!TGoto, K!slotv, K!ghostv
<1>2. \A d \in Creators : d = c
  BY DEF OneCreator
<1>3. t \in K!Tasks /\ state[t] = "DEAD" /\ ~Live(t) /\ g_slots_init
  BY <1>1 DEF KInv, CreatorAt, SlotsInUse
<1>4. KTypes'
  BY <1>1, <1>3 DEF KInv, KTypes
<1>5. PidsFresh'
  BY <1>1, <1>3 DEF KInv, KTypes, PidsFresh, K!Free
<1>6. \A u \in K!Tasks : Live(u)' <=> Live(u)
  BY <1>1, <1>3 DEF KInv, KTypes, Live
<1>7. NotYet' /\ SlotsInUse'
  BY <1>1, <1>2, <1>3, <1>6 DEF KInv, KTypes, NotYet, SlotsInUse
<1>8. \A d \in Creators : CreatorAt(d)'
  <2>1. \A i \in K!Entries : kt_pid[i] # kt_next_pid
    BY DEF KInv, KTypes, PidsFresh, K!Free
  <2> QED  BY <1>1, <1>2, <1>3, <2>1 DEF KInv, KTypes, CreatorAt
<1>9. ThreadsHaveJobs'
  <2>1. ASSUME NEW u \in K!Tasks, Live(u)
        PROVE  tpc'[u] = tpc[u] /\ \A j \in Jobs : Runs(u, j)' <=> Runs(u, j)
    BY <1>1, <1>3, <2>1 DEF KInv, KTypes, Runs
  <2> QED  BY <1>1, <1>6, <2>1 DEF KInv, KTypes, ThreadsHaveJobs
<1> QED  BY <1>4, <1>5, <1>7, <1>8, <1>9 DEF KInv

LEMMA KFillInv ==
  ASSUME OneCreator, KInv, NEW c \in Creators, K!fill_entry(c)
  PROVE  KInv'
<1> DEFINE t == ctask[c]
           e == centry[c]
<1>1. /\ cpc[c] = "fill" /\ cpc' = [cpc EXCEPT ![c] = "add"]
      /\ fn' = [fn EXCEPT ![e] = cjob[c]] /\ kt_pid' = [kt_pid EXCEPT ![e] = tpid[t]]
      /\ UNCHANGED << g_slots_init, state, tpid, kt_next_pid, tpc, tentry, tjob, cjob, centry,
                      ctask, handle, ran, done, joined >>
  BY DEF K!fill_entry, K!CGoto, K!taskv, K!trampv, K!ghostv
<1>2. \A d \in Creators : d = c
  BY DEF OneCreator
<1>3. /\ t \in K!Tasks /\ e \in K!Entries /\ kt_pid[e] = K!Free /\ cjob[c] \in Jobs
      /\ \A i \in K!Entries : kt_pid[i] # tpid[t]
  BY <1>1 DEF KInv, CreatorAt
<1>4. KTypes'
  BY <1>1, <1>3 DEF KInv, KTypes
<1>5. PidsFresh'
  BY <1>1, <1>3 DEF KInv, KTypes, PidsFresh
<1>6. NotYet' /\ SlotsInUse'
  BY <1>1, <1>2 DEF KInv, KTypes, NotYet, SlotsInUse, Live
<1>8. \A d \in Creators : CreatorAt(d)'
  BY <1>1, <1>2, <1>3 DEF KInv, KTypes, CreatorAt
<1>9. ThreadsHaveJobs'
  <2>1. ASSUME NEW u \in K!Tasks, NEW j \in Jobs, Live(u), Runs(u, j) PROVE Runs(u, j)'
    <3>1. \A i \in K!Entries : kt_pid[i] = tpid[u] =>
            i # e /\ kt_pid'[i] = kt_pid[i] /\ fn'[i] = fn[i]
      BY <1>1, <1>3 DEF KInv, KTypes, K!Free
    <3> QED  BY <1>1, <2>1, <3>1 DEF Live, Runs
  <2>2. \A u \in K!Tasks : Live(u)' <=> Live(u)
    BY <1>1 DEF Live
  <2> QED  BY <1>1, <2>1, <2>2 DEF KInv, KTypes, ThreadsHaveJobs, Live, K!Nothing
<1> QED  BY <1>4, <1>5, <1>6, <1>8, <1>9 DEF KInv

LEMMA KCreateDoneInv ==
  ASSUME OneCreator, KInv, NEW c \in Creators, K!create_done(c)
  PROVE  KInv'
<1>0. PICK t, k : t = ctask[c] /\ k = cjob[c]
  OBVIOUS
<1>1. /\ cpc[c] = "add" /\ cpc' = [cpc EXCEPT ![c] = "idle"]
      /\ tpc' = [tpc EXCEPT ![t] = "trampoline"] /\ handle' = [handle EXCEPT ![k] = t]
      /\ cjob' = [cjob EXCEPT ![c] = K!Nothing]
      /\ UNCHANGED << g_slots_init, fn, kt_pid, state, tpid, kt_next_pid, tentry, tjob, centry,
                      ctask, ran, done, joined >>
  BY <1>0 DEF K!create_done, K!CGoto, K!TGoto, K!slotv, K!taskv, K!ghostv
<1>2. \A d \in Creators : d = c
  BY DEF OneCreator
<1>3. /\ t \in K!Tasks /\ k \in Jobs /\ handle[k] = K!Nothing /\ centry[c] \in K!Entries
      /\ fn[centry[c]] = k /\ kt_pid[centry[c]] = tpid[t] /\ tpc[t] = "off" /\ ~Live(t)
      /\ state[t] = "READY" /\ g_slots_init
  BY <1>0, <1>1 DEF KInv, CreatorAt, Live
<1>4. KTypes'
  BY <1>1, <1>3 DEF KInv, KTypes
<1>5. PidsFresh'
  BY <1>1 DEF KInv, PidsFresh
<1>6. Live(t)' /\ \A u \in K!Tasks : u # t => (Live(u)' <=> Live(u))
  BY <1>1, <1>3 DEF KInv, KTypes, Live
<1>7. NotYet' /\ SlotsInUse'
  BY <1>0, <1>1, <1>2, <1>3, <1>6 DEF KInv, KTypes, NotYet, SlotsInUse
<1>8. \A d \in Creators : CreatorAt(d)'
  BY <1>1, <1>2 DEF KInv, KTypes, CreatorAt
<1>9. ThreadsHaveJobs'
  <2>1. \A u \in K!Tasks, j \in Jobs : u # t => (Runs(u, j)' <=> Runs(u, j))
    BY <1>1 DEF KInv, KTypes, Runs
  <2>2. Runs(t, k)'
    BY <1>1, <1>3, <1>4 DEF KInv, KTypes, Runs
  <2>3. handle'[k] = t /\ ran[k] = 0 /\ tpc'[t] = "trampoline" /\ t # K!Nothing
    BY <1>1, <1>3, SyncAssumption
    DEF KInv, KTypes, ThreadsHaveJobs, K!Tasks, K!Nothing, K!KthreadAssumption
  <2>4. \A j \in Jobs : j # k => handle'[j] = handle[j] /\ (handle[j] = t => j \in done)
    BY <1>1, <1>3, <2>3 DEF KInv, KTypes, ThreadsHaveJobs
  <2>5. \A u \in K!Tasks : Live(u)' =>
          \E j \in Jobs : /\ handle'[j] = u /\ Runs(u, j)'
                          /\ ran'[j] = IF tpc'[u] \in {"serving", "exit"} THEN 1 ELSE 0
    <3> TAKE u \in K!Tasks
    <3> HAVE Live(u)'
    <3>1. CASE u = t
      BY <1>1, <1>3, <2>2, <2>3, <3>1
    <3>2. CASE u # t
      <4>1. PICK j \in Jobs : /\ handle[j] = u /\ Runs(u, j)
                              /\ ran[j] = IF tpc[u] \in {"serving", "exit"} THEN 1 ELSE 0
        BY <1>6, <3>2 DEF KInv, ThreadsHaveJobs
      <4>2. u # K!Nothing /\ j # k
        BY <1>3, <4>1, SyncAssumption DEF K!Tasks, K!Nothing, K!KthreadAssumption
      <4>3. tpc'[u] = tpc[u]
        BY <1>1, <3>2 DEF KInv, KTypes
      <4> QED  BY <1>1, <2>1, <2>4, <3>2, <4>1, <4>2, <4>3
    <3> QED  BY <3>1, <3>2
  <2>6. ASSUME NEW j \in Jobs
        PROVE  (handle[j] # K!Nothing => j \in done \/ (Live(handle[j]) /\ Runs(handle[j], j)))'
    <3>1. CASE j = k
      <4>1. /\ Live(handle[j])' <=> Live(t)'
            /\ Runs(handle[j], j)' <=> Runs(t, k)'
        BY <2>3, <3>1 DEF Live, Runs
      <4> QED  BY <1>6, <2>2, <4>1
    <3>2. CASE j # k /\ handle[j] # K!Nothing /\ j \notin done
      <4>1. PICK u \in K!Tasks : u = handle[j] /\ u # t /\ Live(u) /\ Runs(u, j)
        BY <2>4, <3>2 DEF KInv, KTypes, ThreadsHaveJobs
      <4>2. handle'[j] = u
        BY <2>4, <3>2, <4>1
      <4>3. /\ Live(handle[j])' <=> Live(u)'
            /\ Runs(handle[j], j)' <=> Runs(u, j)'
        BY <4>2 DEF Live, Runs
      <4> QED  BY <1>6, <2>1, <4>1, <4>3
    <3> QED  BY <1>1, <2>4, <3>1, <3>2
  <2>7. \A j \in Jobs : (handle'[j] = K!Nothing => ran'[j] = 0) /\ ran'[j] <= 1
    BY <1>1, <2>3, <2>4 DEF KInv, ThreadsHaveJobs
  <2>8. joined' \subseteq done'
    BY <1>1 DEF KInv, ThreadsHaveJobs
  <2> QED  BY <2>5, <2>6, <2>7, <2>8 DEF ThreadsHaveJobs
<1> QED  BY <1>4, <1>5, <1>7, <1>8, <1>9 DEF KInv

(* A thread has its entry before it is released, and shares it with none. *)
LEMMA KThreadEntry ==
  ASSUME KInv, NEW t \in K!Tasks, Live(t)
  PROVE  /\ g_slots_init /\ state[t] = "READY"
         /\ \A u \in K!Tasks : u # t /\ state[u] = "READY" => tpid[u] # tpid[t]
         /\ \A i, k \in K!Entries : kt_pid[i] = tpid[t] /\ kt_pid[k] = tpid[t] => i = k
         /\ \A c \in Creators : cpc[c] \in {"fill", "add"} => ctask[c] # t
<1>1. state[t] = "READY" /\ g_slots_init
  BY DEF KInv, SlotsInUse, NotYet
<1>2. tpid[t] # K!Free
  BY DEF KInv, KTypes, K!Free
<1>3. \A c \in Creators : cpc[c] \in {"fill", "add"} => ctask[c] # t
  BY DEF KInv, CreatorAt, Live
<1> QED  BY <1>1, <1>2, <1>3 DEF KInv, PidsFresh

(* A step of one thread before its function returns: it stays live and     *)
(* keeps its job, and whatever it does to the entries leaves the others.   *)
LEMMA KThreadStep ==
  ASSUME KInv, NEW t \in K!Tasks, Live(t), Live(t)', KTypes',
         \A u \in K!Tasks \ {t} : tpc'[u] = tpc[u] /\ tentry'[u] = tentry[u] /\ tjob'[u] = tjob[u],
         \A i \in K!Entries : /\ fn'[i] = fn[i]
                              /\ kt_pid'[i] = kt_pid[i] \/ (kt_pid[i] = tpid[t] /\ kt_pid'[i] = K!Free),
         \A j \in Jobs : handle[j] = t /\ Runs(t, j) =>
           /\ Runs(t, j)' /\ ran'[j] <= 1
           /\ ran[j] = (IF tpc[t] \in {"serving", "exit"} THEN 1 ELSE 0)
                => ran'[j] = (IF tpc'[t] \in {"serving", "exit"} THEN 1 ELSE 0),
         \A j \in Jobs : ran'[j] = ran[j] \/ (handle[j] = t /\ Runs(t, j)),
         UNCHANGED << g_slots_init, state, tpid, kt_next_pid, cpc, cjob, centry, ctask,
                      handle, done, joined >>
  PROVE  KInv'
<1>0. /\ g_slots_init /\ state[t] = "READY"
      /\ \A u \in K!Tasks : u # t /\ state[u] = "READY" => tpid[u] # tpid[t]
      /\ \A i, k \in K!Entries : kt_pid[i] = tpid[t] /\ kt_pid[k] = tpid[t] => i = k
      /\ \A c \in Creators : cpc[c] \in {"fill", "add"} => ctask[c] # t
  BY KThreadEntry
<1>1. PidsFresh'
  BY <1>0 DEF KInv, KTypes, PidsFresh, K!Free
<1>2. \A u \in K!Tasks : Live(u)' <=> Live(u)
  BY DEF Live
<1>3. NotYet' /\ SlotsInUse'
  BY <1>0, <1>2 DEF KInv, NotYet, SlotsInUse
<1>4. ASSUME NEW c \in Creators PROVE CreatorAt(c)'
  <2>1. CreatorAt(c)
    BY DEF KInv
  <2>2. cpc[c] \in {"fill", "add"} => /\ ctask[c] \in K!Tasks \ {t}
                                      /\ tpid[ctask[c]] # tpid[t]
    BY <1>0, <2>1 DEF CreatorAt
  <2>3. tpid[t] # K!Free /\ \A u \in K!Tasks : tpid[u] # K!Free
    BY DEF KInv, KTypes, K!Free
  <2> QED  BY <2>1, <2>2, <2>3 DEF CreatorAt
<1>5. ASSUME NEW u \in K!Tasks, u # t, Live(u), NEW j \in Jobs, Runs(u, j)
      PROVE  Runs(u, j)'
  <2>1. tpid[u] # tpid[t]
    BY <1>0, <1>5 DEF KInv, SlotsInUse
  <2>2. \A i \in K!Entries : kt_pid[i] = tpid[u] => kt_pid'[i] = kt_pid[i]
    BY <2>1
  <2> QED  BY <1>5, <2>2 DEF Runs
<1>6. ASSUME NEW u \in K!Tasks, Live(u)'
      PROVE  \E j \in Jobs : /\ handle'[j] = u /\ Runs(u, j)'
                             /\ ran'[j] = IF tpc'[u] \in {"serving", "exit"} THEN 1 ELSE 0
  <2>1. PICK j \in Jobs : /\ handle[j] = u /\ Runs(u, j)
                          /\ ran[j] = IF tpc[u] \in {"serving", "exit"} THEN 1 ELSE 0
    BY <1>2, <1>6 DEF KInv, ThreadsHaveJobs
  <2>2. CASE u = t
    BY <2>1, <2>2
  <2>3. CASE u # t
    <3>1. Runs(u, j)'
      BY <1>2, <1>5, <1>6, <2>1, <2>3
    <3>2. ran'[j] = ran[j] /\ tpc'[u] = tpc[u]
      BY <2>1, <2>3
    <3> QED  BY <2>1, <3>1, <3>2
  <2> QED  BY <2>2, <2>3
<1>7. ASSUME NEW j \in Jobs
      PROVE  (handle[j] # K!Nothing => j \in done \/ (Live(handle[j]) /\ Runs(handle[j], j)))'
  <2>1. CASE handle[j] # K!Nothing /\ j \notin done
    <3>1. PICK u \in K!Tasks : u = handle[j] /\ Live(u) /\ Runs(u, j)
      BY <2>1 DEF KInv, KTypes, ThreadsHaveJobs
    <3>2. Live(u)' /\ Runs(u, j)'
      BY <1>2, <1>5, <3>1
    <3>3. /\ Live(handle[j])' <=> Live(u)'
          /\ Runs(handle[j], j)' <=> Runs(u, j)'
      BY <3>1 DEF Live, Runs
    <3> QED  BY <3>2, <3>3
  <2> QED  BY <2>1
<1>8. ASSUME NEW j \in Jobs
      PROVE  (handle'[j] = K!Nothing => ran'[j] = 0) /\ ran'[j] <= 1
  <2>1. t # K!Nothing
    BY SyncAssumption DEF K!Tasks, K!Nothing, K!KthreadAssumption
  <2>2. CASE ran'[j] = ran[j]
    BY <2>2 DEF KInv, ThreadsHaveJobs
  <2>3. CASE handle[j] = t /\ Runs(t, j)
    BY <2>1, <2>3
  <2> QED  BY <2>2, <2>3
<1>9. ThreadsHaveJobs'
  BY <1>6, <1>7, <1>8 DEF KInv, ThreadsHaveJobs
<1> QED  BY <1>1, <1>3, <1>4, <1>9 DEF KInv

LEMMA KFindInv ==
  ASSUME KInv, NEW t \in K!Tasks, K!find_entry(t)
  PROVE  KInv'
<1>1. PICK j \in Jobs : handle[j] = t /\ Runs(t, j)
  BY DEF K!find_entry, KInv, ThreadsHaveJobs, Live
<1>2. PICK e \in K!Entries : kt_pid[e] = tpid[t] /\ fn[e] = j
  BY <1>1 DEF K!find_entry, Runs
<1>3. Live(t) /\ \A i \in K!Entries : kt_pid[i] = tpid[t] => i = e
  BY <1>2, KThreadEntry DEF K!find_entry, Live
<1>4. K!Mine(t) = {e}
  BY <1>2, <1>3 DEF K!Mine
<1>5. K!Least(K!Mine(t)) = e
  <2>1. K!Mine(t) \subseteq Nat
    BY SyncAssumption DEF K!Mine, K!Entries, K!KthreadAssumption
  <2>2. K!Least(K!Mine(t)) \in K!Mine(t)
    BY ONLY <1>4, <2>1, LeastIn
  <2> QED  BY <1>4, <2>2
<1>6. /\ tpc[t] = "trampoline" /\ tpc' = [tpc EXCEPT ![t] = "read"]
      /\ tentry' = [tentry EXCEPT ![t] = e]
      /\ UNCHANGED << g_slots_init, fn, kt_pid, state, tpid, kt_next_pid, tjob, cpc, cjob,
                      centry, ctask, handle, ran, done, joined >>
  BY <1>4, <1>5 DEF K!find_entry, K!TGoto, K!slotv, K!taskv, K!creatorv, K!ghostv
<1>7. KTypes' /\ Live(t)'
  BY <1>6 DEF KInv, KTypes, Live
<1>8. \A k \in Jobs : Runs(t, k) => Runs(t, k)'
  BY <1>2, <1>3, <1>6 DEF KInv, KTypes, Runs
<1>9. \A k \in Jobs : ran'[k] <= 1
  BY <1>6 DEF KInv, ThreadsHaveJobs
<1>10. tpc'[t] = "read" /\ \A u \in K!Tasks \ {t} :
         tpc'[u] = tpc[u] /\ tentry'[u] = tentry[u] /\ tjob'[u] = tjob[u]
  BY <1>6 DEF KInv, KTypes
<1> QED  BY <1>3, <1>6, <1>7, <1>8, <1>9, <1>10, KThreadStep

LEMMA KReadInv ==
  ASSUME KInv, NEW t \in K!Tasks, K!read_entry(t)
  PROVE  KInv'
<1>1. /\ tpc[t] = "read" /\ tpc' = [tpc EXCEPT ![t] = "release"]
      /\ tjob' = [tjob EXCEPT ![t] = fn[tentry[t]]]
      /\ UNCHANGED << g_slots_init, fn, kt_pid, state, tpid, kt_next_pid, tentry, cpc, cjob,
                      centry, ctask, handle, ran, done, joined >>
  BY DEF K!read_entry, K!TGoto, K!slotv, K!taskv, K!creatorv, K!ghostv
<1>2. Live(t) /\ tentry[t] \in K!Entries
  BY <1>1 DEF KInv, ThreadsHaveJobs, Runs, Live
<1>3. KTypes' /\ Live(t)'
  BY <1>1, <1>2 DEF KInv, KTypes, Live
<1>4. \A k \in Jobs : Runs(t, k) => Runs(t, k)'
  BY <1>1 DEF KInv, KTypes, Runs
<1>5. \A k \in Jobs : ran'[k] <= 1
  BY <1>1 DEF KInv, ThreadsHaveJobs
<1>6. tpc'[t] = "release" /\ \A u \in K!Tasks \ {t} :
         tpc'[u] = tpc[u] /\ tentry'[u] = tentry[u] /\ tjob'[u] = tjob[u]
  BY <1>1 DEF KInv, KTypes
<1> QED  BY <1>1, <1>2, <1>3, <1>4, <1>5, <1>6, KThreadStep

LEMMA KReleaseInv ==
  ASSUME KInv, NEW t \in K!Tasks, K!release_entry(t)
  PROVE  KInv'
<1>1. /\ tpc[t] = "release" /\ tpc' = [tpc EXCEPT ![t] = "call"]
      /\ kt_pid' = [kt_pid EXCEPT ![tentry[t]] = K!Free]
      /\ UNCHANGED << g_slots_init, fn, state, tpid, kt_next_pid, tentry, tjob, cpc, cjob,
                      centry, ctask, handle, ran, done, joined >>
  BY DEF K!release_entry, K!TGoto, K!taskv, K!creatorv, K!ghostv
<1>2. Live(t) /\ tentry[t] \in K!Entries /\ kt_pid[tentry[t]] = tpid[t]
  BY <1>1 DEF KInv, ThreadsHaveJobs, Runs, Live
<1>3. KTypes' /\ Live(t)'
  BY <1>1, <1>2 DEF KInv, KTypes, Live
<1>4. \A k \in Jobs : Runs(t, k) => Runs(t, k)'
  BY <1>1 DEF KInv, KTypes, Runs
<1>5. \A k \in Jobs : ran'[k] <= 1
  BY <1>1 DEF KInv, ThreadsHaveJobs
<1>6. tpc'[t] = "call" /\ \A u \in K!Tasks \ {t} :
         tpc'[u] = tpc[u] /\ tentry'[u] = tentry[u] /\ tjob'[u] = tjob[u]
  BY <1>1 DEF KInv, KTypes
<1>7. \A i \in K!Entries : kt_pid'[i] = kt_pid[i] \/ (kt_pid[i] = tpid[t] /\ kt_pid'[i] = K!Free)
  BY <1>1, <1>2 DEF KInv, KTypes
<1> QED  BY <1>1, <1>2, <1>3, <1>4, <1>5, <1>6, <1>7, KThreadStep

LEMMA KCallInv ==
  ASSUME KInv, NEW t \in K!Tasks, K!call_fn(t)
  PROVE  KInv'
<1>0. /\ tpc[t] = "call"
      /\ UNCHANGED << g_slots_init, fn, kt_pid, state, tpid, kt_next_pid, tentry, tjob, cpc,
                      cjob, centry, ctask, handle, done, joined >>
  BY DEF K!call_fn, K!slotv, K!taskv, K!creatorv
<1>1. PICK j \in Jobs : handle[j] = t /\ tjob[t] = j /\ ran[j] = 0
  BY <1>0 DEF KInv, ThreadsHaveJobs, Runs, Live
<1>2. PICK to \in {"serving", "exit"} : tpc' = [tpc EXCEPT ![t] = to]
  BY DEF K!call_fn, K!TGoto
<1>3. ran' = [ran EXCEPT ![j] = 1]
  BY <1>1 DEF K!call_fn, KInv, KTypes
<1>4. KTypes' /\ Live(t) /\ Live(t)'
  BY <1>0, <1>2, <1>3 DEF KInv, KTypes, Live
<1>5. Runs(t, j) /\ Runs(t, j)' /\ \A k \in Jobs : Runs(t, k) => k = j
  BY <1>0, <1>1, <1>2 DEF KInv, KTypes, Runs
<1>6. ran'[j] = 1 /\ \A k \in Jobs : k # j => ran'[k] = ran[k]
  BY <1>3 DEF KInv, KTypes
<1>7. tpc'[t] \in {"serving", "exit"} /\ \A u \in K!Tasks \ {t} :
         tpc'[u] = tpc[u] /\ tentry'[u] = tentry[u] /\ tjob'[u] = tjob[u]
  BY <1>0, <1>2 DEF KInv, KTypes
<1> QED  BY <1>0, <1>1, <1>4, <1>5, <1>6, <1>7, KThreadStep

LEMMA KExitInv ==
  ASSUME KInv, NEW t \in K!Tasks, K!kthread_exit(t)
  PROVE  KInv'
<1>1. tpc[t] = "exit"
  BY DEF K!kthread_exit, KInv, KTypes
<1>2. /\ tpc' = [tpc EXCEPT ![t] = "off"] /\ state' = [state EXCEPT ![t] = "DEAD"]
      /\ done' = done \cup {tjob[t]}
      /\ UNCHANGED << g_slots_init, fn, kt_pid, tpid, kt_next_pid, tentry, tjob, cpc, cjob,
                      centry, ctask, handle, ran, joined >>
  BY <1>1 DEF K!kthread_exit, K!TGoto, K!slotv, K!creatorv
<1>3. /\ Live(t) /\ g_slots_init
      /\ \A c \in Creators : cpc[c] \in {"fill", "add"} => ctask[c] # t
  BY <1>1, KThreadEntry DEF Live
<1>4. tjob[t] \in Jobs
  BY <1>1 DEF KInv, ThreadsHaveJobs, Runs, Live
<1>5. KTypes'
  BY <1>2, <1>4 DEF KInv, KTypes
<1>6. PidsFresh'
  BY <1>2 DEF KInv, KTypes, PidsFresh
<1>7. ~Live(t)' /\ \A u \in K!Tasks : u # t => (Live(u)' <=> Live(u))
  BY <1>2 DEF KInv, KTypes, Live
<1>8. NotYet' /\ SlotsInUse'
  BY <1>2, <1>3, <1>7 DEF KInv, KTypes, NotYet, SlotsInUse
<1>9. \A c \in Creators : CreatorAt(c)'
  BY <1>2, <1>3 DEF KInv, KTypes, CreatorAt
<1>10. \A u \in K!Tasks, j \in Jobs : u # t => (Runs(u, j)' <=> Runs(u, j))
  BY <1>2 DEF KInv, KTypes, Runs
<1>11. ASSUME NEW u \in K!Tasks, Live(u)'
       PROVE  \E j \in Jobs : /\ handle'[j] = u /\ Runs(u, j)'
                              /\ ran'[j] = IF tpc'[u] \in {"serving", "exit"} THEN 1 ELSE 0
  <2>1. u # t /\ Live(u)
    BY <1>7, <1>11
  <2>2. PICK j \in Jobs : /\ handle[j] = u /\ Runs(u, j)
                          /\ ran[j] = IF tpc[u] \in {"serving", "exit"} THEN 1 ELSE 0
    BY <2>1 DEF KInv, ThreadsHaveJobs
  <2>3. tpc'[u] = tpc[u]
    BY <1>2, <2>1 DEF KInv, KTypes
  <2> QED  BY <1>2, <1>10, <2>1, <2>2, <2>3
<1>12. ASSUME NEW j \in Jobs
       PROVE  (handle[j] # K!Nothing => j \in done \/ (Live(handle[j]) /\ Runs(handle[j], j)))'
  <2>1. CASE handle[j] # K!Nothing /\ j \notin done'
    <3>1. PICK u \in K!Tasks : u = handle[j] /\ Live(u) /\ Runs(u, j)
      BY <1>2, <2>1 DEF KInv, KTypes, ThreadsHaveJobs
    <3>2. u # t
      BY <1>1, <1>2, <2>1, <3>1 DEF Runs
    <3>3. /\ Live(handle[j])' <=> Live(u)'
          /\ Runs(handle[j], j)' <=> Runs(u, j)'
      BY <1>2, <3>1 DEF Live, Runs
    <3> QED  BY <1>7, <1>10, <3>1, <3>2, <3>3
  <2> QED  BY <1>2, <2>1
<1>13. ThreadsHaveJobs'
  BY <1>2, <1>11, <1>12 DEF KInv, ThreadsHaveJobs
<1> QED  BY <1>5, <1>6, <1>8, <1>9, <1>13 DEF KInv

LEMMA KNextInv ==
  ASSUME OneCreator, KInv, [K!Next]_kvars
  PROVE  KInv'
<1>1. CASE UNCHANGED kvars
  BY <1>1 DEF kvars, KInv, KTypes, PidsFresh, NotYet, SlotsInUse, CreatorAt, ThreadsHaveJobs,
              Live, Runs
<1>2. ASSUME NEW c \in Creators, K!Creating(c) PROVE KInv'
  BY <1>2, KBeforeClaimInv, KSlotsClearInv, KClaimInv, KFillInv, KCreateDoneInv
  DEF K!Creating
<1>3. ASSUME NEW t \in K!Tasks, K!Running(t) PROVE KInv'
  BY <1>3, KFindInv, KReadInv, KReleaseInv, KCallInv, KExitInv DEF K!Running
<1> QED  BY <1>1, <1>2, <1>3, KCallsInv DEF K!Next

(* With one task creating threads, every thread finds the entry filled for *)
(* it, no job runs twice and kthread_join returns after the exit, however  *)
(* often entries, task slots and handles are reused.                       *)
THEOREM SyncThreadsSound ==
  ASSUME OneCreator
  PROVE  SyncSpec => []ThreadsSound
<1>1. SyncInit => KInv
  BY KInitInv DEF SyncInit
<1>2. KInv /\ [SyncNext]_allvars => KInv'
  BY KNextInv, Parts
<1>3. KInv => ThreadsSound
  BY DEF KInv, KTypes, ThreadsHaveJobs, ThreadsSound, K!ThreadsSound, K!TypeOK,
         K!TrampolineFindsSlot, K!RunsAtMostOnce, K!JoinAfterExit
<1> QED  BY <1>1, <1>2, <1>3, PTL DEF SyncSpec, allvars

-----------------------------------------------------------------------------
(* Interrupts. *)

Devices == {I!Timer, I!Kbd, I!Mouse}

Places == [place : {"code", "fresh", "switched", "dead", "handler"}, vec : I!Vectors,
           i : 0 .. 4, flag : BOOLEAN]

(* What kernel_main has done to the tables before its step b. *)
HandlersBy(b) ==
  [v \in I!Vectors |-> IF v = I!DE /\ b \in {3, 4} THEN "de_test_handler"
                       ELSE IF v = I!Timer /\ b >= 7 THEN "pit_irq_handler"
                       ELSE IF v = I!Kbd /\ b >= 10 THEN "kbd_isr"
                       ELSE IF v = I!Mouse /\ b >= 12 THEN "mouse_isr"
                       ELSE "none"]
RoutesBy(b) ==
  [l \in I!Irqs |-> IF (l = 0 /\ b >= 8) \/ (l = 2 /\ b >= 9) THEN I!Timer
                    ELSE IF l = 1 /\ b >= 11 THEN I!Kbd
                    ELSE IF l = 12 /\ b >= 13 THEN I!Mouse
                    ELSE I!Masked]

Booted ==
  /\ boot \in 1 .. 16 /\ (iflag => boot >= 14) /\ (boot >= 6 => pic = "masked")
  /\ handlers = HandlersBy(boot) /\ redir = RoutesBy(boot)

(* Where the running task is, and whether interrupts are on there. *)
CpuAt ==
  \/ at[irq_cur].place = "code" /\ (boot >= 14 => iflag)
  \/ at[irq_cur].place \in {"fresh", "switched"} /\ ~iflag /\ boot >= 15
  \/ /\ at[irq_cur].place = "handler" /\ ~iflag /\ boot = 4
     /\ at[irq_cur].vec = I!DE /\ at[irq_cur].i \in 1 .. 2 /\ at[irq_cur].flag = FALSE
  \/ /\ at[irq_cur].place = "handler" /\ ~iflag /\ boot >= 14
     /\ at[irq_cur].vec \in Devices /\ at[irq_cur].flag = TRUE
     /\ at[irq_cur].i \in 1 .. (IF at[irq_cur].vec = I!Timer THEN 4 ELSE 3)

(* A vector in service is the running handler's, before its EOI. *)
InService ==
  isr # {} => /\ isr = {at[irq_cur].vec} /\ at[irq_cur].place = "handler"
              /\ at[irq_cur].vec \in Devices /\ at[irq_cur].i <= 2

(* A task that waits for the CPU is new, in sched_yield or sched_sleep, or *)
(* in the timer's handler after the EOI.                                   *)
WaitsAt(h) ==
  \/ h.place \in {"fresh", "switched"}
  \/ h.place = "handler" /\ h.vec = I!Timer /\ h.i = 4 /\ h.flag = TRUE
Waiting(t) == WaitsAt(at[t])

(* The queue without the running task, with each task once; boot and idle  *)
(* task never leave it, and the shell sleeps or is there.                  *)
IrqQueues ==
  /\ ready \in Seq(I!Tasks) /\ irq_cur \in I!Tasks
  /\ \A i \in 1 .. Len(ready) : ready[i] # irq_cur /\ Waiting(ready[i])
  /\ \A i, k \in 1 .. Len(ready) : ready[i] = ready[k] => i = k
  /\ boot >= 15 => \A t \in {I!Kmain, I!Idle} :
       t = irq_cur \/ \E i \in 1 .. Len(ready) : ready[i] = t
  /\ boot <= 15 => /\ irq_cur # I!Shell /\ asleep = {} /\ Waiting(I!Shell)
                   /\ \A i \in 1 .. Len(ready) : ready[i] # I!Shell
  /\ boot <= 14 => irq_cur = I!Kmain /\ ready = << >> /\ Waiting(I!Idle)
  /\ asleep \subseteq {I!Shell}
  /\ I!Shell \in asleep => /\ irq_cur # I!Shell /\ Waiting(I!Shell)
                           /\ \A i \in 1 .. Len(ready) : ready[i] # I!Shell

(* The inductive invariant of interrupt delivery. *)
IrqInv ==
  /\ at \in [I!Tasks -> Places] /\ isr \subseteq Devices /\ irr \subseteq Devices
  /\ \A v \in irr : handlers[v] # "none"
  /\ iflag \in BOOLEAN /\ halted = FALSE
  /\ Booted /\ CpuAt /\ InService /\ IrqQueues

LEMMA BootSteps ==
  /\ Len(I!boot_steps) = 15
  /\ I!boot_steps[1] = I!Do("idt_init")
  /\ I!boot_steps[2] = I!Register(I!DE, "de_test_handler")
  /\ I!boot_steps[3] = I!Do("div")
  /\ I!boot_steps[4] = I!Register(I!DE, "none")
  /\ I!boot_steps[5] = I!Do("apic_init")
  /\ I!boot_steps[6] = I!Register(I!Timer, "pit_irq_handler")
  /\ I!boot_steps[7] = I!Route(0, I!Timer)
  /\ I!boot_steps[8] = I!Route(2, I!Timer)
  /\ I!boot_steps[9] = I!Register(I!Kbd, "kbd_isr")
  /\ I!boot_steps[10] = I!Route(1, I!Kbd)
  /\ I!boot_steps[11] = I!Register(I!Mouse, "mouse_isr")
  /\ I!boot_steps[12] = I!Route(12, I!Mouse)
  /\ I!boot_steps[13] = I!Do("sti")
  /\ I!boot_steps[14] = I!Do("sched_init")
  /\ I!boot_steps[15] = I!Do("sched_add")
BY DEF I!boot_steps

(* The handlers that are there while the running task is in one. *)
LEMMA HandlersThere ==
  ASSUME IrqInv
  PROVE  /\ boot = 4 => handlers[I!DE] = "de_test_handler"
         /\ boot >= 14 => /\ handlers[I!Timer] = "pit_irq_handler"
                          /\ handlers[I!Kbd] = "kbd_isr" /\ handlers[I!Mouse] = "mouse_isr"
BY DEF IrqInv, Booted, HandlersBy, I!Vectors, I!DE, I!Timer, I!Kbd, I!Mouse

LEMMA IrqInitInv == I!Init => IrqInv
<1> SUFFICES ASSUME I!Init PROVE IrqInv
  OBVIOUS
<1>1. /\ boot = 1 /\ handlers = [v \in I!Vectors |-> "none"]
      /\ redir = [l \in I!Irqs |-> I!Masked] /\ irr = {} /\ isr = {} /\ iflag = FALSE
      /\ irq_cur = I!Kmain /\ ready = << >> /\ asleep = {} /\ halted = FALSE
      /\ at = [t \in I!Tasks |-> IF t = I!Kmain THEN I!Code ELSE I!Fresh]
  BY DEF I!Init
<1>2. at \in [I!Tasks -> Places]
  BY <1>1 DEF Places, I!Code, I!Fresh, I!Vectors, I!DE
<1>3. Booted
  BY <1>1 DEF Booted, HandlersBy, RoutesBy
<1>4. at[irq_cur].place = "code" /\ Waiting(I!Idle) /\ Waiting(I!Shell)
  BY <1>1 DEF Waiting, WaitsAt, I!Code, I!Fresh, I!Tasks, I!Kmain, I!Idle, I!Shell
<1>5. CpuAt /\ InService
  BY <1>1, <1>4 DEF CpuAt, InService
<1>6. IrqQueues
  BY <1>1, <1>4 DEF IrqQueues, I!Tasks, I!Kmain, I!Shell
<1> QED  BY <1>1, <1>2, <1>3, <1>5, <1>6 DEF IrqInv

LEMMA IrqRaiseInv ==
  ASSUME IrqInv, NEW l \in I!Irqs, I!raise(l)
  PROVE  IrqInv'
<1>1. /\ redir[l] # I!Masked /\ irr' = irr \cup {redir[l]}
      /\ UNCHANGED << boot, handlers, pic, redir, isr, iflag, irq_cur, at, halted, ready,
                      asleep >>
  BY DEF I!raise, I!cpu, I!sched
<1>2. redir[l] \in Devices /\ handlers[redir[l]] # "none"
  BY <1>1 DEF IrqInv, Booted, HandlersBy, RoutesBy, Devices, I!Irqs, I!Vectors, I!DE, I!Timer, I!Kbd, I!Mouse
<1>3. Booted' /\ CpuAt' /\ InService' /\ IrqQueues'
  BY <1>1 DEF IrqInv, Booted, CpuAt, InService, IrqQueues, Waiting
<1> QED  BY <1>1, <1>2, <1>3 DEF IrqInv

(* What the running task does by itself leaves the queues as they are. *)
LEMMA QueuesKept ==
  ASSUME IrqQueues, UNCHANGED << boot, irq_cur, ready, asleep >>,
         \A t \in I!Tasks \ {irq_cur} : at'[t] = at[t]
  PROVE  IrqQueues'
<1>1. \A t \in I!Tasks \ {irq_cur} : Waiting(t) => Waiting(t)'
  BY DEF Waiting
<1>2. \A i \in 1 .. Len(ready) : ready[i] \in I!Tasks \ {irq_cur} /\ Waiting(ready[i])
  BY DEF IrqQueues
<1>3. \A i \in 1 .. Len(ready) : Waiting(ready[i])'
  <2> TAKE i \in 1 .. Len(ready)
  <2>1. PICK t \in I!Tasks \ {irq_cur} : t = ready[i] /\ Waiting(t)
    BY <1>2
  <2> QED  BY <1>1, <2>1 DEF Waiting
<1>4. /\ I!Shell # irq_cur /\ Waiting(I!Shell) => Waiting(I!Shell)'
      /\ I!Idle # irq_cur /\ Waiting(I!Idle) => Waiting(I!Idle)'
  BY <1>1 DEF I!Tasks
<1>5. I!Kmain # I!Idle
  BY DEF I!Kmain, I!Idle
<1> QED  BY <1>3, <1>4, <1>5 DEF IrqQueues

LEMMA IrqDeliverInv ==
  ASSUME IrqInv, NEW v \in I!Vectors, I!deliver(v)
  PROVE  IrqInv'
<1>1. /\ iflag /\ v \in irr /\ \A w \in isr : w \div 16 < v \div 16
      /\ irr' = irr \ {v} /\ isr' = isr \cup {v} /\ ~iflag' /\ iflag' \in BOOLEAN
      /\ UNCHANGED << boot, handlers, pic, redir, irq_cur, halted, ready, asleep >>
  BY DEF I!deliver, I!sched
<1>2. v \in Devices /\ isr = {}
  BY <1>1 DEF IrqInv, Devices, I!Timer, I!Kbd, I!Mouse
<1>3. boot >= 14 /\ iflag = TRUE /\ irq_cur \in I!Tasks
  BY <1>1 DEF IrqInv, Booted, IrqQueues
<1>4. /\ at' \in [I!Tasks -> Places] /\ \A t \in I!Tasks \ {irq_cur} : at'[t] = at[t]
      /\ at'[irq_cur].place = "handler" /\ at'[irq_cur].vec = v /\ at'[irq_cur].i = 1
      /\ at'[irq_cur].flag = TRUE
  BY <1>3 DEF IrqInv, Places, I!Handler, I!deliver
<1>5. Booted'
  BY <1>1, <1>3 DEF IrqInv, Booted
<1>6. CpuAt'
  BY <1>1, <1>2, <1>3, <1>4 DEF CpuAt
<1>7. InService'
  BY <1>1, <1>2, <1>4 DEF InService
<1>8. IrqQueues'
  BY <1>1, <1>4, QueuesKept DEF IrqInv
<1> QED  BY <1>1, <1>2, <1>4, <1>5, <1>6, <1>7, <1>8 DEF IrqInv

(* The end of a handler, and of the switch to a task. *)
LEMMA IrqReturnInv ==
  ASSUME IrqInv, I!iretq \/ I!resume
  PROVE  IrqInv'
<1>0. irq_cur \in I!Tasks
  BY DEF IrqInv, IrqQueues
<1>1. /\ at' = [at EXCEPT ![irq_cur] = I!Code] /\ halted' = halted
      /\ UNCHANGED << boot, handlers, pic, redir, irr, isr, irq_cur, ready, asleep >>
      /\ iflag' \in BOOLEAN /\ (boot >= 14 <=> iflag') /\ isr = {}
  <2>1. CASE I!resume
    <3>1. at[irq_cur].place \in {"fresh", "switched"}
      BY <2>1 DEF I!resume, I!Running
    <3>2. boot >= 15 /\ isr = {}
      BY <3>1 DEF IrqInv, CpuAt, InService
    <3>3. iflag' = TRUE
      BY <2>1 DEF I!resume
    <3>4. boot >= 14
      BY <3>2 DEF IrqInv, Booted
    <3> QED  BY <2>1, <3>2, <3>3, <3>4 DEF I!resume, I!apic, I!sched
  <2>2. CASE I!iretq
    <3> DEFINE h == at[irq_cur]
               steps == I!handler_steps(handlers[h.vec])
    <3>1. h.place = "handler"
      BY <2>2 DEF I!iretq, I!Running
    <3>0. h.i > Len(steps)
      BY <2>2 DEF I!iretq
    <3> HIDE DEF steps
    <3>2. CASE boot = 4
      <4>0. h.vec = I!DE /\ h.flag = FALSE
        BY <3>1, <3>2 DEF IrqInv, CpuAt
      <4>1. handlers[h.vec] = "de_test_handler"
        BY <3>2, <4>0, HandlersThere
      <4>2. isr = {}
        BY <4>0 DEF IrqInv, InService, Devices, I!DE, I!Timer, I!Kbd, I!Mouse
      <4>3. iflag' = h.flag /\ at' = [at EXCEPT ![irq_cur] = I!Code] /\ halted' = halted
        BY <2>2, <4>1 DEF I!iretq
      <4>4. iflag' = FALSE /\ ~(boot >= 14)
        BY <3>2, <4>0, <4>3
      <4>5. UNCHANGED << boot, handlers, pic, redir, irr, isr, irq_cur, ready, asleep >>
        BY <2>2 DEF I!iretq, I!apic, I!sched
      <4> QED  BY <4>2, <4>3, <4>4, <4>5
    <3>3. CASE boot # 4
      <4>1. h.vec \in Devices /\ h.flag = TRUE /\ boot >= 14
        BY <3>1, <3>3 DEF IrqInv, CpuAt
      <4>2. h.i > 2
        <5>1. h.i \in Nat
          BY <1>0 DEF IrqInv, Places
        <5>2. Len(steps) = 2 \/ Len(steps) = 3
          BY <4>1, HandlersThere DEF Devices, I!handler_steps, steps
        <5>3. PICK n, k : n = Len(steps) /\ k = h.i
          OBVIOUS
        <5>4. k > n /\ k \in Nat /\ (n = 2 \/ n = 3)
          BY <3>0, <5>1, <5>2, <5>3
        <5>5. k > 2
          BY <5>4
        <5> QED  BY <5>3, <5>5
      <4>3. isr = {}
        <5>1. h.i \in Nat
          BY <1>0 DEF IrqInv, Places
        <5> QED  BY <4>2, <5>1 DEF IrqInv, InService
      <4>4. iflag' = h.flag /\ at' = [at EXCEPT ![irq_cur] = I!Code] /\ halted' = halted
        BY <2>2, <4>1 DEF I!iretq, Devices, I!Timer, I!Kbd, I!Mouse
      <4> QED  BY <2>2, <4>1, <4>3, <4>4 DEF I!iretq, I!apic, I!sched
    <3> QED  BY <3>2, <3>3
  <2> QED  BY <2>1, <2>2
<1>2. /\ at' \in [I!Tasks -> Places] /\ \A t \in I!Tasks \ {irq_cur} : at'[t] = at[t]
      /\ at'[irq_cur].place = "code"
  BY <1>0, <1>1 DEF IrqInv, Places, I!Code, I!Vectors, I!DE
<1>3. Booted'
  BY <1>1 DEF IrqInv, Booted
<1>4. CpuAt' /\ InService'
  BY <1>1, <1>2 DEF CpuAt, InService
<1>5. IrqQueues'
  BY <1>1, <1>2, QueuesKept DEF IrqInv
<1> QED  BY <1>1, <1>2, <1>3, <1>4, <1>5 DEF IrqInv

(* A step of kernel_main other than the division and the scheduler's: it   *)
(* changes the tables only.                                                *)
LEMMA IrqTablesInv ==
  ASSUME IrqInv, Booted', boot' = boot + 1, boot \notin {3, 14, 15},
         at[irq_cur].place = "code", isr' = {},
         \/ boot = 13 /\ iflag' = TRUE
         \/ boot # 13 /\ iflag' = iflag,
         \A v \in irr : handlers'[v] # "none",
         UNCHANGED << irr, irq_cur, at, halted, ready, asleep >>
  PROVE  IrqInv'
<1>1. boot \in 1 .. 16
  BY DEF IrqInv, Booted
<1>2. CpuAt'
  BY <1>1 DEF IrqInv, CpuAt
<1>3. InService'
  BY DEF InService
<1>4. IrqQueues'
  <2>1. /\ boot' >= 15 => boot >= 15
        /\ boot' <= 15 => boot <= 15
        /\ boot' <= 14 => boot <= 14
    BY <1>1
  <2>2. \A t : Waiting(t)' <=> Waiting(t)
    BY DEF Waiting
  <2>3. IrqQueues
    BY DEF IrqInv
  <2> HIDE DEF IrqInv, Booted
  <2> QED  BY <2>1, <2>2, <2>3 DEF IrqQueues
<1>5. iflag' \in BOOLEAN
  BY DEF IrqInv
<1> QED  BY <1>2, <1>3, <1>4, <1>5 DEF IrqInv

LEMMA Update ==
  ASSUME NEW S0, NEW T0, NEW f \in [S0 -> T0], NEW g \in [S0 -> T0], NEW a \in S0, NEW e,
         g[a] = e, \A x \in S0 \ {a} : g[x] = f[x]
  PROVE  g = [f EXCEPT ![a] = e]
OBVIOUS

(* How each step of kernel_main changes the tables. *)
LEMMA TablesBy ==
  /\ HandlersBy(2) = [v \in I!Vectors |-> "none"]
  /\ HandlersBy(3) = [HandlersBy(2) EXCEPT ![I!DE] = "de_test_handler"]
  /\ HandlersBy(5) = [HandlersBy(4) EXCEPT ![I!DE] = "none"]
  /\ HandlersBy(7) = [HandlersBy(6) EXCEPT ![I!Timer] = "pit_irq_handler"]
  /\ HandlersBy(10) = [HandlersBy(9) EXCEPT ![I!Kbd] = "kbd_isr"]
  /\ HandlersBy(12) = [HandlersBy(11) EXCEPT ![I!Mouse] = "mouse_isr"]
  /\ \A b \in {3, 5, 7, 8, 10, 12, 13, 14, 15} : HandlersBy(b + 1) = HandlersBy(b)
  /\ RoutesBy(8) = [RoutesBy(7) EXCEPT ![0] = I!Timer]
  /\ RoutesBy(9) = [RoutesBy(8) EXCEPT ![2] = I!Timer]
  /\ RoutesBy(11) = [RoutesBy(10) EXCEPT ![1] = I!Kbd]
  /\ RoutesBy(13) = [RoutesBy(12) EXCEPT ![12] = I!Mouse]
  /\ \A b \in 1 .. 15 : b \notin {7, 8, 10, 12} => RoutesBy(b + 1) = RoutesBy(b)
<1>0. /\ {I!DE, I!Timer, I!Kbd, I!Mouse} \subseteq I!Vectors /\ {0, 1, 2, 12} \subseteq I!Irqs
      /\ I!DE # I!Timer /\ I!DE # I!Kbd /\ I!DE # I!Mouse /\ I!Timer # I!Kbd
      /\ I!Timer # I!Mouse /\ I!Kbd # I!Mouse
  BY DEF I!Vectors, I!Irqs, I!DE, I!Timer, I!Kbd, I!Mouse
<1>1. HandlersBy(2) = [v \in I!Vectors |-> "none"]
  BY DEF HandlersBy
<1>t. \A b \in 1 .. 16 : HandlersBy(b) \in
        [I!Vectors -> {"de_test_handler", "pit_irq_handler", "kbd_isr", "mouse_isr", "none"}]
  BY DEF HandlersBy
<1>r. \A b \in 1 .. 16 : RoutesBy(b) \in [I!Irqs -> {I!Timer, I!Kbd, I!Mouse, I!Masked}]
  BY DEF RoutesBy
<1>2. HandlersBy(3) = [HandlersBy(2) EXCEPT ![I!DE] = "de_test_handler"]
  <2>1. /\ HandlersBy(3)[I!DE] = "de_test_handler"
        /\ \A v \in I!Vectors \ {I!DE} : HandlersBy(3)[v] = HandlersBy(2)[v]
    BY <1>0 DEF HandlersBy
  <2> QED  BY <1>0, <1>t, <2>1, Update
<1>3. HandlersBy(5) = [HandlersBy(4) EXCEPT ![I!DE] = "none"]
  <2>1. /\ HandlersBy(5)[I!DE] = "none"
        /\ \A v \in I!Vectors \ {I!DE} : HandlersBy(5)[v] = HandlersBy(4)[v]
    BY <1>0 DEF HandlersBy
  <2> QED  BY <1>0, <1>t, <2>1, Update
<1>4. HandlersBy(7) = [HandlersBy(6) EXCEPT ![I!Timer] = "pit_irq_handler"]
  <2>1. /\ HandlersBy(7)[I!Timer] = "pit_irq_handler"
        /\ \A v \in I!Vectors \ {I!Timer} : HandlersBy(7)[v] = HandlersBy(6)[v]
    BY <1>0 DEF HandlersBy
  <2> QED  BY <1>0, <1>t, <2>1, Update
<1>5. HandlersBy(10) = [HandlersBy(9) EXCEPT ![I!Kbd] = "kbd_isr"]
  <2>1. /\ HandlersBy(10)[I!Kbd] = "kbd_isr"
        /\ \A v \in I!Vectors \ {I!Kbd} : HandlersBy(10)[v] = HandlersBy(9)[v]
    BY <1>0 DEF HandlersBy
  <2> QED  BY <1>0, <1>t, <2>1, Update
<1>6. HandlersBy(12) = [HandlersBy(11) EXCEPT ![I!Mouse] = "mouse_isr"]
  <2>1. /\ HandlersBy(12)[I!Mouse] = "mouse_isr"
        /\ \A v \in I!Vectors \ {I!Mouse} : HandlersBy(12)[v] = HandlersBy(11)[v]
    BY <1>0 DEF HandlersBy
  <2> QED  BY <1>0, <1>t, <2>1, Update
<1>7. \A b \in {3, 5, 7, 8, 10, 12, 13, 14, 15} : HandlersBy(b + 1) = HandlersBy(b)
  BY <1>0 DEF HandlersBy
<1>8. RoutesBy(8) = [RoutesBy(7) EXCEPT ![0] = I!Timer]
  <2>1. /\ RoutesBy(8)[0] = I!Timer
        /\ \A l \in I!Irqs \ {0} : RoutesBy(8)[l] = RoutesBy(7)[l]
    BY <1>0 DEF RoutesBy
  <2> QED  BY <1>0, <1>r, <2>1, Update
<1>9. RoutesBy(9) = [RoutesBy(8) EXCEPT ![2] = I!Timer]
  <2>1. /\ RoutesBy(9)[2] = I!Timer
        /\ \A l \in I!Irqs \ {2} : RoutesBy(9)[l] = RoutesBy(8)[l]
    BY <1>0 DEF RoutesBy
  <2> QED  BY <1>0, <1>r, <2>1, Update
<1>10. RoutesBy(11) = [RoutesBy(10) EXCEPT ![1] = I!Kbd]
  <2>1. /\ RoutesBy(11)[1] = I!Kbd
        /\ \A l \in I!Irqs \ {1} : RoutesBy(11)[l] = RoutesBy(10)[l]
    BY <1>0 DEF RoutesBy
  <2> QED  BY <1>0, <1>r, <2>1, Update
<1>11. RoutesBy(13) = [RoutesBy(12) EXCEPT ![12] = I!Mouse]
  <2>1. /\ RoutesBy(13)[12] = I!Mouse
        /\ \A l \in I!Irqs \ {12} : RoutesBy(13)[l] = RoutesBy(12)[l]
    BY <1>0 DEF RoutesBy
  <2> QED  BY <1>0, <1>r, <2>1, Update
<1>12. \A b \in 1 .. 15 : b \notin {7, 8, 10, 12} => RoutesBy(b + 1) = RoutesBy(b)
  BY DEF RoutesBy
<1> QED  BY <1>1, <1>2, <1>3, <1>4, <1>5, <1>6, <1>7, <1>8, <1>9, <1>10, <1>11, <1>12

(* What each step of kernel_main calls. *)
LEMMA BootCalls ==
  ASSUME IrqInv, I!kernel_main
  PROVE  /\ at[irq_cur].place = "code" /\ irq_cur = I!Kmain /\ isr = {}
         /\ boot \in 1 .. 15 /\ boot' = boot + 1
         /\ boot = 1 => I!idt_init
         /\ boot = 2 => I!idt_register_handler(I!DE, "de_test_handler")
         /\ boot = 3 => I!divide
         /\ boot = 4 => I!idt_register_handler(I!DE, "none")
         /\ boot = 5 => I!apic_init
         /\ boot = 6 => I!idt_register_handler(I!Timer, "pit_irq_handler")
         /\ boot = 7 => I!ioapic_route(0, I!Timer)
         /\ boot = 8 => I!ioapic_route(2, I!Timer)
         /\ boot = 9 => I!idt_register_handler(I!Kbd, "kbd_isr")
         /\ boot = 10 => I!ioapic_route(1, I!Kbd)
         /\ boot = 11 => I!idt_register_handler(I!Mouse, "mouse_isr")
         /\ boot = 12 => I!ioapic_route(12, I!Mouse)
         /\ boot = 13 => I!sti
         /\ boot = 14 => I!sched_init
         /\ boot = 15 => I!sched_add
<1>1. at[irq_cur].place = "code" /\ irq_cur = I!Kmain /\ boot' = boot + 1
      /\ boot <= Len(I!boot_steps)
  BY DEF I!kernel_main, I!Running
<1>2. isr = {}
  BY <1>1 DEF IrqInv, InService
<1>3. boot \in 1 .. 15
  BY <1>1, BootSteps DEF IrqInv, Booted
<1>4. PICK s : /\ s = I!boot_steps[boot]
               /\ \/ s.op = "idt_init" /\ I!idt_init
                  \/ s.op = "register" /\ I!idt_register_handler(s.n, s.arg)
                  \/ s.op = "div" /\ I!divide
                  \/ s.op = "apic_init" /\ I!apic_init
                  \/ s.op = "route" /\ I!ioapic_route(s.n, s.arg)
                  \/ s.op = "sti" /\ I!sti
                  \/ s.op = "sched_init" /\ I!sched_init
                  \/ s.op = "sched_add" /\ I!sched_add
  BY DEF I!kernel_main
<1>5. boot \in {1, 3, 5, 13, 14, 15} => s.op = (CASE boot = 1 -> "idt_init"
         [] boot = 3 -> "div" [] boot = 5 -> "apic_init" [] boot = 13 -> "sti"
         [] boot = 14 -> "sched_init" [] boot = 15 -> "sched_add")
  BY <1>4, BootSteps DEF I!Do
<1>6. /\ boot \in {2, 4, 6, 9, 11} => s.op = "register"
      /\ boot = 2 => s.n = I!DE /\ s.arg = "de_test_handler"
      /\ boot = 4 => s.n = I!DE /\ s.arg = "none"
      /\ boot = 6 => s.n = I!Timer /\ s.arg = "pit_irq_handler"
      /\ boot = 9 => s.n = I!Kbd /\ s.arg = "kbd_isr"
      /\ boot = 11 => s.n = I!Mouse /\ s.arg = "mouse_isr"
  BY <1>4, BootSteps DEF I!Register
<1>7. /\ boot \in {7, 8, 10, 12} => s.op = "route"
      /\ boot = 7 => s.n = 0 /\ s.arg = I!Timer
      /\ boot = 8 => s.n = 2 /\ s.arg = I!Timer
      /\ boot = 10 => s.n = 1 /\ s.arg = I!Kbd
      /\ boot = 12 => s.n = 12 /\ s.arg = I!Mouse
  BY <1>4, BootSteps DEF I!Route
<1>8. /\ boot = 1 => I!idt_init
      /\ boot = 3 => I!divide
      /\ boot = 5 => I!apic_init
      /\ boot = 13 => I!sti
      /\ boot = 14 => I!sched_init
      /\ boot = 15 => I!sched_add
  BY <1>4, <1>5
<1>9. s.op = "register" => I!idt_register_handler(s.n, s.arg)
  BY <1>4
<1>10. s.op = "route" => I!ioapic_route(s.n, s.arg)
  BY <1>4
<1> QED  BY <1>1, <1>2, <1>3, <1>6, <1>7, <1>8, <1>9, <1>10

LEMMA IrqBootInv ==
  ASSUME IrqInv, I!kernel_main
  PROVE  IrqInv'
<1>0. /\ at[irq_cur].place = "code" /\ irq_cur = I!Kmain /\ isr = {}
      /\ boot \in 1 .. 15 /\ boot' = boot + 1 /\ irr \subseteq Devices
      /\ boot # 13 => (iflag => boot >= 14)
  BY BootCalls DEF IrqInv, Booted
<1> USE DEF I!cpu, I!apic, I!sched
<1>1. CASE boot = 1
  <2>1. /\ handlers' = [v \in I!Vectors |-> "none"]
        /\ UNCHANGED << pic, redir, irr, isr, iflag, irq_cur, at, halted, ready, asleep >>
    BY <1>1, BootCalls DEF I!idt_init
  <2>2. irr = {}
    BY <1>1 DEF IrqInv, Booted, HandlersBy, Devices, I!Vectors, I!DE, I!Timer, I!Kbd, I!Mouse
  <2>3. handlers' = HandlersBy(boot') /\ redir' = RoutesBy(boot')
    BY <1>0, <1>1, <2>1, TablesBy DEF IrqInv, Booted
  <2>4. Booted'
    BY <1>0, <1>1, <2>1, <2>3 DEF IrqInv, Booted
  <2>5. boot # 13 /\ iflag' = iflag
    BY <1>1, <2>1
  <2> QED  BY <1>0, <1>1, <2>1, <2>2, <2>4, <2>5, IrqTablesInv
<1>2. CASE boot \in {2, 4, 6, 9, 11}
  <2>1. /\ UNCHANGED << pic, redir, irr, isr, irq_cur, at, halted, ready, asleep >>
        /\ boot # 13 /\ iflag' = iflag
    BY <1>2, BootCalls DEF I!idt_register_handler
  <2>2. \E v \in I!Vectors : \E h : /\ v \notin irr \/ h # "none"
                                    /\ handlers' = [handlers EXCEPT ![v] = h]
    BY <1>0, <1>2, BootCalls
    DEF I!idt_register_handler, I!Vectors, Devices, I!DE, I!Timer, I!Kbd, I!Mouse
  <2>3. handlers' = HandlersBy(boot') /\ redir' = RoutesBy(boot')
    <3>1. handlers = HandlersBy(boot) /\ redir = RoutesBy(boot)
      BY DEF IrqInv, Booted
    <3> QED  BY <1>0, <1>2, <2>1, <3>1, BootCalls, TablesBy DEF I!idt_register_handler
  <2>4. Booted'
    BY <1>0, <1>2, <2>1, <2>3 DEF IrqInv, Booted
  <2>5. \A w \in irr : handlers'[w] # "none"
    <3>1. DOMAIN handlers = I!Vectors
      BY DEF IrqInv, Booted, HandlersBy
    <3> QED  BY <2>2, <3>1 DEF IrqInv, Devices, I!Vectors
  <2> QED  BY <1>0, <1>2, <2>1, <2>4, <2>5, IrqTablesInv
<1>3. CASE boot \in {7, 8, 10, 12}
  <2>1. /\ UNCHANGED << handlers, pic, irr, irq_cur, at, halted, ready, asleep >>
        /\ boot # 13 /\ iflag' = iflag /\ isr' = {}
    BY <1>0, <1>3, BootCalls DEF I!ioapic_route
  <2>2. handlers' = HandlersBy(boot') /\ redir' = RoutesBy(boot')
    <3>1. handlers = HandlersBy(boot) /\ redir = RoutesBy(boot)
      BY DEF IrqInv, Booted
    <3>2. HandlersBy(boot') = HandlersBy(boot)
      BY <1>0, <1>3, TablesBy
    <3>3. redir' = RoutesBy(boot')
      BY <1>0, <1>3, <3>1, BootCalls, TablesBy DEF I!ioapic_route
    <3> QED  BY <2>1, <3>1, <3>2, <3>3
  <2>3. Booted'
    BY <1>0, <1>3, <2>1, <2>2 DEF IrqInv, Booted
  <2>4. \A w \in irr : handlers'[w] # "none"
    BY <2>1 DEF IrqInv
  <2> QED  BY <1>0, <1>3, <2>1, <2>3, <2>4, IrqTablesInv
<1>4. CASE boot = 5
  <2>1. /\ UNCHANGED << handlers, irr, irq_cur, at, halted, ready, asleep >> /\ pic' = "masked"
        /\ boot # 13 /\ iflag' = iflag /\ isr' = {}
    BY <1>0, <1>4, BootCalls DEF I!apic_init
  <2>2. handlers' = HandlersBy(boot') /\ redir' = RoutesBy(boot')
    <3>1. handlers = HandlersBy(boot) /\ redir = RoutesBy(boot)
      BY DEF IrqInv, Booted
    <3>2. HandlersBy(boot') = HandlersBy(boot)
      BY <1>0, <1>4, TablesBy
    <3>3. redir' = RoutesBy(boot')
      BY <1>0, <1>4, <3>1, BootCalls, TablesBy DEF I!apic_init
    <3> QED  BY <2>1, <3>1, <3>2, <3>3
  <2>3. Booted'
    BY <1>0, <1>4, <2>1, <2>2 DEF IrqInv, Booted
  <2>4. \A w \in irr : handlers'[w] # "none"
    BY <2>1 DEF IrqInv
  <2> QED  BY <1>0, <1>4, <2>1, <2>3, <2>4, IrqTablesInv
<1>5. CASE boot = 13
  <2>1. /\ iflag' = TRUE /\ isr' = {}
        /\ UNCHANGED << handlers, pic, redir, irr, irq_cur, at, halted, ready, asleep >>
    BY <1>0, <1>5, BootCalls DEF I!sti
  <2>2. Booted'
    BY <1>0, <1>5, <2>1, TablesBy DEF IrqInv, Booted
  <2>3. \A w \in irr : handlers'[w] # "none"
    BY <2>1 DEF IrqInv
  <2> QED  BY <1>0, <1>5, <2>1, <2>2, <2>3, IrqTablesInv
<1>6. CASE boot = 3
  <2>1. /\ at' = [at EXCEPT ![irq_cur] = I!Handler(I!DE, 1, iflag)]
        /\ UNCHANGED << handlers, pic, redir, irr, isr, iflag, irq_cur, halted, ready,
                        asleep >>
    BY <1>6, BootCalls DEF I!divide
  <2>2. iflag = FALSE /\ irq_cur \in I!Tasks
    BY <1>6 DEF IrqInv, Booted, IrqQueues
  <2>3. /\ at' \in [I!Tasks -> Places] /\ \A t \in I!Tasks \ {irq_cur} : at'[t] = at[t]
        /\ at'[irq_cur].place = "handler" /\ at'[irq_cur].vec = I!DE /\ at'[irq_cur].i = 1
        /\ at'[irq_cur].flag = FALSE
    BY <2>1, <2>2 DEF IrqInv, Places, I!Handler, I!Vectors, I!DE
  <2>4. /\ UNCHANGED << handlers, pic, redir, irr, isr, irq_cur, halted, ready, asleep >>
        /\ ~iflag' /\ iflag' \in BOOLEAN /\ isr' = {}
    BY <1>0, <2>1, <2>2
  <2>5. Booted'
    BY <1>0, <1>6, <2>4, TablesBy DEF IrqInv, Booted
  <2>6. CpuAt' /\ InService'
    BY <1>0, <1>6, <2>3, <2>4 DEF CpuAt, InService
  <2>7. IrqQueues'
    <3>1. Waiting(I!Idle)' /\ Waiting(I!Shell)'
      BY <1>0, <1>6, <2>3
      DEF IrqInv, IrqQueues, Waiting, I!Tasks, I!Kmain, I!Idle, I!Shell
    <3> QED  BY <1>0, <1>6, <2>4, <3>1 DEF IrqInv, IrqQueues
  <2> QED  BY <2>3, <2>4, <2>5, <2>6, <2>7 DEF IrqInv
<1>7. CASE boot \in {14, 15}
  <2>1. UNCHANGED << handlers, pic, redir, irr, isr, iflag, irq_cur, at, halted >>
    BY <1>7, BootCalls DEF I!sched_init, I!sched_add
  <2>2. Booted'
    BY <1>0, <1>7, <2>1, TablesBy DEF IrqInv, Booted
  <2>3. CpuAt' /\ InService'
    BY <1>0, <1>7, <2>1 DEF IrqInv, CpuAt, InService
  <2>4. IrqQueues'
    <3>1. CASE boot = 14
      <4>1. ready' = << I!Idle >> /\ asleep' = {}
        BY <3>1, BootCalls DEF I!sched_init
      <4>2. Len(ready') = 1 /\ ready'[1] = I!Idle /\ ready' \in Seq(I!Tasks)
        BY <4>1 DEF I!Tasks
      <4>3. Waiting(I!Idle)' /\ Waiting(I!Shell)'
        BY <2>1, <3>1 DEF IrqInv, IrqQueues, Waiting
      <4>4. \A i \in 1 .. 1 : i = 1
        OBVIOUS
      <4>5. Waiting(ready[1])' <=> Waiting(I!Idle)'
        BY <4>2 DEF Waiting
      <4> QED  BY <1>0, <2>1, <3>1, <4>1, <4>2, <4>3, <4>4, <4>5
               DEF IrqInv, IrqQueues, I!Kmain, I!Idle, I!Shell
    <3>2. CASE boot = 15
      <4>1. ready' = Append(ready, I!Shell) /\ asleep' = asleep
        BY <3>2, BootCalls DEF I!sched_add
      <4>2. /\ ready \in Seq(I!Tasks) /\ irq_cur # I!Shell /\ asleep = {} /\ Waiting(I!Shell)
            /\ \A i \in 1 .. Len(ready) : /\ ready[i] # irq_cur /\ Waiting(ready[i])
                                          /\ ready[i] # I!Shell
        BY <3>2 DEF IrqInv, IrqQueues
      <4>3. /\ Len(ready') = Len(ready) + 1 /\ ready'[Len(ready) + 1] = I!Shell
            /\ Len(ready) \in Nat /\ ready' \in Seq(I!Tasks)
            /\ \A i \in 1 .. Len(ready) : ready'[i] = ready[i]
        BY <4>1, <4>2 DEF I!Tasks
      <4>4. \A i \in 1 .. Len(ready') : i \in 1 .. Len(ready) \/ i = Len(ready) + 1
        BY <4>3
      <4>5. \A i \in 1 .. Len(ready') : ready'[i] # irq_cur /\ Waiting(ready[i])'
        BY <2>1, <4>2, <4>3, <4>4 DEF Waiting
      <4>6. \A i, k \in 1 .. Len(ready') : ready'[i] = ready'[k] => i = k
        BY <4>2, <4>3, <4>4 DEF IrqInv, IrqQueues
      <4>7. \A t \in {I!Kmain, I!Idle} :
              t = irq_cur \/ \E i \in 1 .. Len(ready') : ready'[i] = t
        BY <3>2, <4>3 DEF IrqInv, IrqQueues
      <4> QED  BY <1>0, <2>1, <3>2, <4>1, <4>2, <4>3, <4>5, <4>6, <4>7 DEF IrqInv, IrqQueues
    <3> QED  BY <1>7, <3>1, <3>2
  <2> QED  BY <2>1, <2>2, <2>3, <2>4 DEF IrqInv
<1> QED  BY <1>0, <1>1, <1>2, <1>3, <1>4, <1>5, <1>6, <1>7

(* The switch from a running task to the first of the queue. *)
LEMMA IrqSwitchInv ==
  ASSUME IrqInv, boot >= 15, isr = {}, NEW queue \in Seq(I!Tasks), queue # << >>,
         NEW p \in Places, NEW runs \in BOOLEAN, I!do_switch(queue, p, runs),
         UNCHANGED << boot, handlers, pic, redir, irr, isr, halted >>,
         ~iflag', iflag' \in BOOLEAN,
         \A i \in 1 .. Len(queue) : queue[i] # irq_cur /\ Waiting(queue[i]),
         \A i, k \in 1 .. Len(queue) : queue[i] = queue[k] => i = k,
         \A t \in {I!Kmain, I!Idle} :
           t = irq_cur \/ \E i \in 1 .. Len(queue) : queue[i] = t,
         boot = 15 => /\ irq_cur # I!Shell /\ asleep' = {} /\ Waiting(I!Shell)
                      /\ \A i \in 1 .. Len(queue) : queue[i] # I!Shell,
         asleep' \subseteq {I!Shell},
         I!Shell \in asleep' => \A i \in 1 .. Len(queue) : queue[i] # I!Shell,
         I!Shell \in asleep' /\ irq_cur # I!Shell => Waiting(I!Shell),
         I!Shell \in asleep' /\ irq_cur = I!Shell => WaitsAt(p),
         runs => WaitsAt(p) /\ (I!Shell \in asleep' => irq_cur # I!Shell),
         ~runs => irq_cur = I!Shell
  PROVE  IrqInv'
<1>0. irq_cur \in I!Tasks /\ boot \in 1 .. 16 /\ Len(queue) \in Nat /\ Len(queue) >= 1
  BY DEF IrqInv, IrqQueues, Booted
<1>1. /\ irq_cur' = queue[1] /\ at' = [at EXCEPT ![irq_cur] = p]
      /\ ready' = IF runs THEN Append(Tail(queue), irq_cur) ELSE Tail(queue)
  BY DEF I!do_switch
<1>2. /\ ready' \in Seq(I!Tasks) /\ Len(ready') = Len(queue) - (IF runs THEN 0 ELSE 1)
      /\ \A i \in 1 .. Len(queue) - 1 : ready'[i] = queue[i + 1]
      /\ runs => ready'[Len(queue)] = irq_cur
  BY <1>0, <1>1
<1>3. \A i \in 1 .. Len(ready') : \/ i + 1 \in 1 .. Len(queue) /\ ready'[i] = queue[i + 1]
                                  \/ runs /\ i = Len(queue) /\ ready'[i] = irq_cur
  BY <1>0, <1>2
<1>4. /\ at' \in [I!Tasks -> Places] /\ at'[irq_cur] = p
      /\ \A t \in I!Tasks \ {irq_cur} : at'[t] = at[t]
  BY <1>0, <1>1 DEF IrqInv
<1>5. \A i \in 1 .. Len(queue) : WaitsAt(at'[queue[i]])
  BY <1>0, <1>4 DEF Waiting
<1>6. WaitsAt(at'[irq_cur']) /\ irq_cur' \in I!Tasks
  BY <1>0, <1>1, <1>5
<1>7. Booted'
  BY <1>0 DEF IrqInv, Booted
<1>8. CpuAt' /\ InService'
  <2>1. boot' >= 14
    BY <1>0
  <2>2. I!Timer \in Devices
    BY DEF Devices
  <2> QED  BY <1>0, <1>6, <2>1, <2>2 DEF CpuAt, InService, WaitsAt
<1>9. IrqQueues'
  <2>1. \A i \in 1 .. Len(ready') : ready'[i] # irq_cur' /\ WaitsAt(at'[ready'[i]])
    <3> TAKE i \in 1 .. Len(ready')
    <3>1. CASE i + 1 \in 1 .. Len(queue) /\ ready'[i] = queue[i + 1]
      BY <1>0, <1>1, <1>5, <3>1
    <3>2. CASE runs /\ i = Len(queue) /\ ready'[i] = irq_cur
      BY <1>0, <1>1, <1>4, <3>2
    <3> QED  BY <1>3, <3>1, <3>2
  <2>2. \A i, k \in 1 .. Len(ready') : ready'[i] = ready'[k] => i = k
    BY <1>0, <1>3
  <2>3. \A t \in {I!Kmain, I!Idle} :
          t = irq_cur' \/ \E i \in 1 .. Len(ready') : ready'[i] = t
    <3> TAKE t \in {I!Kmain, I!Idle}
    <3>1. CASE t = irq_cur
      <4>1. runs
        BY <3>1 DEF I!Kmain, I!Idle, I!Shell
      <4> QED  BY <1>0, <1>2, <3>1, <4>1
    <3>2. ASSUME NEW i \in 1 .. Len(queue), queue[i] = t
          PROVE  t = irq_cur' \/ \E k \in 1 .. Len(ready') : ready'[k] = t
      <4>1. CASE i = 1
        BY <1>1, <3>2, <4>1
      <4>2. CASE i # 1
        <5>1. i - 1 \in 1 .. Len(queue) - 1 /\ i - 1 \in 1 .. Len(ready') /\ (i - 1) + 1 = i
          BY <1>0, <1>2, <4>2
        <5>2. ready'[i - 1] = t
          BY <1>2, <3>2, <5>1
        <5> QED  BY <5>1, <5>2
      <4> QED  BY <4>1, <4>2
    <3> QED  BY <3>1, <3>2
  <2>4. I!Shell \in I!Tasks /\ (irq_cur # I!Shell => at'[I!Shell] = at[I!Shell])
    BY <1>4 DEF I!Tasks
  <2>5. boot = 15 => /\ irq_cur' # I!Shell /\ asleep' = {} /\ WaitsAt(at'[I!Shell])
                     /\ \A i \in 1 .. Len(ready') : ready'[i] # I!Shell
    BY <1>0, <1>1, <1>3, <2>4 DEF Waiting
  <2>6. I!Shell \in asleep' => /\ irq_cur' # I!Shell /\ WaitsAt(at'[I!Shell])
                               /\ \A i \in 1 .. Len(ready') : ready'[i] # I!Shell
    BY <1>0, <1>1, <1>3, <1>4, <2>4 DEF Waiting
  <2> QED  BY <1>0, <1>2, <1>6, <2>1, <2>2, <2>3, <2>5, <2>6 DEF IrqQueues, Waiting
<1> QED  BY <1>4, <1>7, <1>8, <1>9 DEF IrqInv

LEMMA IrqLeaveInv ==
  ASSUME IrqInv, I!sched_yield \/ I!sched_sleep \/ I!sched_exit
  PROVE  IrqInv'
<1>1. /\ at[irq_cur].place = "code" /\ isr = {} /\ irq_cur \in I!Tasks /\ boot \in 1 .. 16
      /\ ready \in Seq(I!Tasks)
  BY DEF IrqInv, InService, IrqQueues, Booted, I!sched_yield, I!sched_sleep, I!sched_exit,
         I!Running
<1>2. /\ UNCHANGED << boot, handlers, pic, redir, irr, isr, halted >>
      /\ ~iflag' /\ iflag' \in BOOLEAN
  BY DEF I!sched_yield, I!sched_sleep, I!sched_exit, I!apic
<1>3. boot >= 15
  <2>1. boot > 15 \/ irq_cur = I!Shell
    BY BootSteps DEF I!sched_yield, I!sched_sleep, I!sched_exit
  <2> QED  BY <1>1, <2>1 DEF IrqInv, IrqQueues
<1>4. ready # << >>
  BY <1>1, <1>3 DEF IrqInv, IrqQueues, I!Kmain, I!Idle
<1>5. /\ I!Switched \in Places /\ WaitsAt(I!Switched) /\ I!Dead \in Places
      /\ irq_cur = I!Shell => boot # 15 /\ I!Shell \notin asleep
  BY <1>1 DEF Places, WaitsAt, I!Switched, I!Dead, I!Vectors, I!DE, IrqInv, IrqQueues
<1>6. /\ \A i \in 1 .. Len(ready) : ready[i] # irq_cur /\ Waiting(ready[i])
      /\ \A i, k \in 1 .. Len(ready) : ready[i] = ready[k] => i = k
      /\ \A t \in {I!Kmain, I!Idle} :
           t = irq_cur \/ \E i \in 1 .. Len(ready) : ready[i] = t
      /\ boot = 15 => /\ irq_cur # I!Shell /\ asleep = {} /\ Waiting(I!Shell)
                      /\ \A i \in 1 .. Len(ready) : ready[i] # I!Shell
      /\ asleep \subseteq {I!Shell}
      /\ I!Shell \in asleep => /\ \A i \in 1 .. Len(ready) : ready[i] # I!Shell
                               /\ Waiting(I!Shell) /\ irq_cur # I!Shell
  BY <1>1, <1>3 DEF IrqInv, IrqQueues
<1>7. CASE I!sched_yield
  <2>1. I!do_switch(ready, I!Switched, TRUE) /\ asleep' = asleep
    BY <1>7 DEF I!sched_yield
  <2> QED  BY <1>1, <1>2, <1>3, <1>4, <1>5, <1>6, <2>1, IrqSwitchInv
<1>8. CASE I!sched_sleep
  <2>1. I!do_switch(ready, I!Switched, FALSE) /\ asleep' = asleep \cup {I!Shell}
        /\ irq_cur = I!Shell
    BY <1>8 DEF I!sched_sleep
  <2>2. \A i \in 1 .. Len(ready) : ready[i] # I!Shell
    BY <1>6, <2>1
  <2> QED  BY <1>1, <1>2, <1>3, <1>4, <1>5, <1>6, <2>1, <2>2, IrqSwitchInv
<1>9. CASE I!sched_exit
  <2>1. I!do_switch(ready, I!Dead, FALSE) /\ asleep' = asleep /\ irq_cur = I!Shell
    BY <1>9 DEF I!sched_exit
  <2> QED  BY <1>1, <1>2, <1>3, <1>4, <1>5, <1>6, <2>1, IrqSwitchInv
<1> QED  BY <1>7, <1>8, <1>9

(* A step of a handler that stays with its task: the next is within it,    *)
(* and its vector is still in service only before the second.              *)
LEMMA IrqStepInv ==
  ASSUME IrqInv, at[irq_cur].place = "handler",
         at' = [at EXCEPT ![irq_cur] =
                  I!Handler(at[irq_cur].vec, at[irq_cur].i + 1, at[irq_cur].flag)],
         at[irq_cur].vec = I!DE => at[irq_cur].i = 1,
         at[irq_cur].vec # I!DE =>
           at[irq_cur].i < (IF at[irq_cur].vec = I!Timer THEN 4 ELSE 3),
         isr' = {} \/ (isr' = isr /\ at[irq_cur].i = 1),
         UNCHANGED << boot, handlers, pic, redir, irr, iflag, irq_cur, halted >>,
         IrqQueues'
  PROVE  IrqInv'
<1>1. PICK t, v, n, f : t = irq_cur /\ v = at[t].vec /\ n = at[t].i /\ f = at[t].flag
  OBVIOUS
<1>2. t \in I!Tasks /\ v \in I!Vectors /\ n \in 1 .. 3 /\ f \in BOOLEAN
  BY <1>1 DEF IrqInv, IrqQueues, Places, CpuAt, Devices, I!DE, I!Timer, I!Kbd, I!Mouse
<1>3. /\ at' \in [I!Tasks -> Places] /\ \A u \in I!Tasks \ {t} : at'[u] = at[u]
      /\ at'[t].place = "handler" /\ at'[t].vec = v /\ at'[t].i = n + 1 /\ at'[t].flag = f
  BY <1>1, <1>2 DEF IrqInv, Places, I!Handler
<1>4. Booted'
  BY DEF IrqInv, Booted
<1>5. CpuAt'
  <2>1. \/ ~iflag /\ boot = 4 /\ v = I!DE /\ f = FALSE /\ n = 1
        \/ /\ ~iflag /\ boot >= 14 /\ v \in Devices /\ f = TRUE
           /\ n < (IF v = I!Timer THEN 4 ELSE 3)
    BY <1>1 DEF IrqInv, CpuAt, Devices, I!DE, I!Timer, I!Kbd, I!Mouse
  <2> QED  BY <1>1, <1>2, <1>3, <2>1 DEF CpuAt
<1>6. InService'
  BY <1>1, <1>2, <1>3 DEF IrqInv, InService
<1>7. isr' \subseteq Devices
  BY DEF IrqInv
<1> QED  BY <1>3, <1>4, <1>5, <1>6, <1>7 DEF IrqInv

(* What sched_tick makes of the ready queue: the sleepers that are due are *)
(* behind it.                                                              *)
QueueWith(woken) == IF woken = {} THEN ready ELSE ready \o << I!Shell >>
QueueSound(queue, sleepers) ==
  /\ queue \in Seq(I!Tasks)
  /\ \A i \in 1 .. Len(queue) : queue[i] # irq_cur /\ Waiting(queue[i])
  /\ \A i, k \in 1 .. Len(queue) : queue[i] = queue[k] => i = k
  /\ boot >= 15 => \A t \in {I!Kmain, I!Idle} :
       t = irq_cur \/ \E i \in 1 .. Len(queue) : queue[i] = t
  /\ boot <= 15 => /\ irq_cur # I!Shell /\ sleepers = {} /\ Waiting(I!Shell)
                   /\ \A i \in 1 .. Len(queue) : queue[i] # I!Shell
  /\ boot <= 14 => irq_cur = I!Kmain /\ queue = << >> /\ Waiting(I!Idle)
  /\ sleepers \subseteq {I!Shell}
  /\ I!Shell \in sleepers => /\ irq_cur # I!Shell /\ Waiting(I!Shell)
                             /\ \A i \in 1 .. Len(queue) : queue[i] # I!Shell

LEMMA WokenQueue ==
  ASSUME IrqInv, NEW woken \in SUBSET asleep
  PROVE  QueueSound(QueueWith(woken), asleep \ woken)
<1> DEFINE queue == QueueWith(woken)
<1> HIDE DEF queue
<1>0. IrqQueues /\ boot \in 1 .. 16
  BY DEF IrqInv, Booted
<1>1. CASE woken = {}
  <2>1. queue = ready /\ asleep \ woken = asleep
    BY <1>1 DEF queue, QueueWith
  <2>2. QueueSound(queue, asleep \ woken)
    BY <1>0, <2>1 DEF IrqQueues, QueueSound
  <2> QED  BY <2>2 DEF queue
<1>2. CASE woken # {}
  <2>1. /\ woken = {I!Shell} /\ asleep \ woken = {} /\ boot = 16 /\ irq_cur # I!Shell
        /\ Waiting(I!Shell) /\ \A i \in 1 .. Len(ready) : ready[i] # I!Shell
        /\ ready \in Seq(I!Tasks) /\ queue = ready \o << I!Shell >>
    BY <1>0, <1>2 DEF IrqQueues, queue, QueueWith
  <2>2. /\ queue \in Seq(I!Tasks) /\ Len(ready) \in Nat /\ Len(queue) = Len(ready) + 1
        /\ queue[Len(ready) + 1] = I!Shell
        /\ \A i \in 1 .. Len(ready) : queue[i] = ready[i]
    <3>1. I!Shell \in I!Tasks
      BY DEF I!Tasks
    <3>2. queue = Append(ready, I!Shell)
      BY <2>1, <3>1, AppendIsConcat
    <3> QED  BY <2>1, <3>1, <3>2
  <2>3. \A i \in 1 .. Len(queue) : i \in 1 .. Len(ready) \/ i = Len(ready) + 1
    BY <2>2
  <2>4. \A i \in 1 .. Len(queue) : queue[i] # irq_cur /\ Waiting(queue[i])
    BY <1>0, <2>1, <2>2, <2>3 DEF IrqQueues
  <2>5. \A i, k \in 1 .. Len(queue) : queue[i] = queue[k] => i = k
    BY <1>0, <2>1, <2>2, <2>3 DEF IrqQueues
  <2>6. \A t \in {I!Kmain, I!Idle} :
          t = irq_cur \/ \E i \in 1 .. Len(queue) : queue[i] = t
    BY <1>0, <2>1, <2>2 DEF IrqQueues
  <2>7. QueueSound(queue, asleep \ woken)
    BY <2>1, <2>2, <2>4, <2>5, <2>6 DEF QueueSound
  <2> QED  BY <2>7 DEF queue
<1> QED  BY <1>1, <1>2

LEMMA IrqDispatchInv ==
  ASSUME IrqInv, I!isr_dispatch
  PROVE  IrqInv'
<1> DEFINE h == at[irq_cur]
           next == I!Handler(h.vec, h.i + 1, h.flag)
<1>1. PICK steps :
        /\ steps = I!handler_steps(handlers[h.vec]) /\ h.i <= Len(steps)
        /\ \/ /\ steps[h.i] \in {"skip", "read", "pit_tick"}
              /\ at' = [at EXCEPT ![irq_cur] = next]
              /\ UNCHANGED << isr, irq_cur, ready, asleep >>
           \/ /\ steps[h.i] = "eoi" /\ isr' = isr \ {v \in isr : \A w \in isr : w <= v}
              /\ at' = [at EXCEPT ![irq_cur] = next]
              /\ UNCHANGED << irq_cur, ready, asleep >>
           \/ /\ steps[h.i] = "sched_tick" /\ isr' = isr
              /\ \E woken \in SUBSET asleep :
                   /\ asleep' = asleep \ woken
                   /\ \/ I!do_switch(QueueWith(woken), next, TRUE)
                      \/ /\ ready' = QueueWith(woken) /\ irq_cur' = irq_cur
                         /\ at' = [at EXCEPT ![irq_cur] = next]
  BY DEF I!isr_dispatch, I!sched, QueueWith
<1>2. /\ h.place = "handler"
      /\ UNCHANGED << boot, handlers, pic, redir, irr, iflag, halted >>
  BY DEF I!isr_dispatch, I!Running
<1>3. irq_cur \in I!Tasks /\ boot \in 1 .. 16 /\ h.i \in 1 .. 4 /\ ~iflag
  BY <1>2 DEF IrqInv, CpuAt, IrqQueues, Booted, Places
<1>4. \/ h.vec = I!DE /\ Len(steps) = 1 /\ steps[1] = "skip"
      \/ /\ h.vec \in {I!Kbd, I!Mouse} /\ Len(steps) = 2
         /\ steps[1] = "read" /\ steps[2] = "eoi"
      \/ /\ h.vec = I!Timer /\ boot >= 14 /\ h.flag = TRUE /\ Len(steps) = 3
         /\ steps[1] = "pit_tick" /\ steps[2] = "eoi" /\ steps[3] = "sched_tick"
  <2>1. (h.vec = I!DE /\ boot = 4) \/ (h.vec \in Devices /\ boot >= 14 /\ h.flag = TRUE)
    BY <1>2 DEF IrqInv, CpuAt
  <2> QED  BY <1>1, <2>1, HandlersThere DEF Devices, I!handler_steps
<1>5. I!DE # I!Timer /\ I!DE # I!Kbd /\ I!DE # I!Mouse /\ I!Timer # I!Kbd /\ I!Timer # I!Mouse
  BY DEF I!DE, I!Timer, I!Kbd, I!Mouse
<1>6. CASE steps[h.i] # "sched_tick"
  <2>1. at' = [at EXCEPT ![irq_cur] = next] /\ UNCHANGED << irq_cur, ready, asleep >>
    BY <1>1, <1>6
  <2>2. isr' = {} \/ (isr' = isr /\ h.i = 1)
    <3>1. CASE steps[h.i] = "eoi"
      <4>1. isr' = isr \ {v \in isr : \A w \in isr : w <= v}
        BY <1>1, <3>1
      <4>2. isr = {} \/ \E d \in Devices : isr = {d}
        BY DEF IrqInv, InService
      <4>3. \A d \in Devices : d <= d
        BY DEF Devices, I!Timer, I!Kbd, I!Mouse
      <4> QED  BY <4>1, <4>2, <4>3
    <3>2. CASE steps[h.i] # "eoi"
      <4>1. isr' = isr /\ h.i <= Len(steps)
        BY <1>1, <1>6, <3>2
      <4> QED  BY <1>3, <1>4, <1>6, <3>2, <4>1
    <3> QED  BY <3>1, <3>2
  <2>3. /\ h.vec = I!DE => h.i = 1
        /\ h.vec # I!DE => h.i < (IF h.vec = I!Timer THEN 4 ELSE 3)
    <3>1. h.i <= Len(steps)
      BY <1>1
    <3> QED  BY <1>3, <1>4, <1>5, <1>6, <3>1
  <2>4. IrqQueues'
    <3>1. \A t \in I!Tasks \ {irq_cur} : at'[t] = at[t]
      BY <1>3, <2>1 DEF IrqInv
    <3> QED  BY <1>2, <2>1, <3>1, QueuesKept DEF IrqInv
  <2> QED  BY <1>2, <2>1, <2>2, <2>3, <2>4, IrqStepInv
<1>7. CASE steps[h.i] = "sched_tick"
  <2>1. h.vec = I!Timer /\ h.i = 3 /\ boot >= 14 /\ h.flag = TRUE
    BY <1>1, <1>3, <1>4, <1>7
  <2>2. isr = {} /\ isr' = {}
    BY <1>1, <1>7, <2>1 DEF IrqInv, InService
  <2>3. PICK woken \in SUBSET asleep :
          /\ asleep' = asleep \ woken
          /\ \/ I!do_switch(QueueWith(woken), next, TRUE)
             \/ /\ ready' = QueueWith(woken) /\ irq_cur' = irq_cur
                /\ at' = [at EXCEPT ![irq_cur] = next]
    BY <1>1, <1>7
  <2>q. PICK queue : queue = QueueWith(woken)
    OBVIOUS
  <2>4. QueueSound(queue, asleep')
    BY <2>3, <2>q, WokenQueue
  <2>5. next \in Places /\ WaitsAt(next)
    <3>1. next.place = "handler" /\ next.vec = I!Timer /\ next.i = 4 /\ next.flag = TRUE
      BY <2>1 DEF I!Handler
    <3>2. h.flag \in BOOLEAN /\ h.i + 1 \in 0 .. 4 /\ h.vec \in I!Vectors
      <4>1. h.flag \in BOOLEAN
        BY <1>3 DEF IrqInv, Places
      <4>2. h.i + 1 \in 0 .. 4 /\ h.vec \in I!Vectors
        BY <2>1 DEF I!Vectors
      <4> QED  BY <4>1, <4>2
    <3>3. next \in Places
      BY <3>2 DEF Places, I!Handler
    <3> HIDE DEF next
    <3> QED  BY <3>1, <3>3 DEF WaitsAt
  <2>6. CASE I!do_switch(queue, next, TRUE) /\ queue # << >>
    <3>1. boot >= 15
      BY <1>3, <2>4, <2>6 DEF QueueSound
    <3>2. ~iflag' /\ iflag' \in BOOLEAN
      BY <1>2, <1>3 DEF IrqInv
    <3> HIDE DEF next
    <3> QED  BY <1>2, <2>2, <2>4, <2>5, <2>6, <3>1, <3>2, IrqSwitchInv DEF QueueSound
  <2>7. CASE ~(I!do_switch(queue, next, TRUE) /\ queue # << >>)
    <3>1. ready' = queue /\ irq_cur' = irq_cur /\ at' = [at EXCEPT ![irq_cur] = next]
      BY <2>3, <2>q, <2>7 DEF I!do_switch
    <3>2. \A t \in I!Tasks \ {irq_cur} : at'[t] = at[t]
      BY <1>3, <3>1 DEF IrqInv
    <3>3. /\ \A i \in 1 .. Len(queue) : WaitsAt(at'[queue[i]])
          /\ irq_cur # I!Shell /\ Waiting(I!Shell) => WaitsAt(at'[I!Shell])
          /\ irq_cur # I!Idle /\ Waiting(I!Idle) => WaitsAt(at'[I!Idle])
      BY <2>4, <3>2 DEF QueueSound, Waiting, I!Tasks
    <3>4. I!Kmain # I!Idle
      BY DEF I!Kmain, I!Idle
    <3>5. IrqQueues'
      BY <1>2, <1>3, <2>4, <3>1, <3>3, <3>4 DEF IrqQueues, QueueSound, Waiting
    <3> QED  BY <1>2, <1>5, <2>1, <2>2, <3>1, <3>5, IrqStepInv
  <2> QED  BY <2>6, <2>7
<1> QED  BY <1>6, <1>7

LEMMA IrqNextInv ==
  ASSUME IrqInv, [I!Next]_ivars
  PROVE  IrqInv'
<1>1. CASE UNCHANGED ivars
  BY <1>1 DEF ivars, IrqInv, Booted, CpuAt, InService, IrqQueues, Waiting
<1>2. CASE I!Cpu
  BY <1>2, IrqBootInv, IrqDispatchInv, IrqReturnInv, IrqDeliverInv DEF I!Cpu
<1> QED  BY <1>1, <1>2, IrqRaiseInv, IrqLeaveInv DEF I!Next

(* No vector is left in service by a switch or for want of a handler, and  *)
(* every task runs its own code with interrupts on, from kernel_main's sti *)
(* on, whatever the quantum and whichever interrupts come when.            *)
THEOREM SyncInterruptsSound == SyncSpec => []InterruptsSound
<1>1. SyncInit => IrqInv
  BY IrqInitInv DEF SyncInit
<1>2. IrqInv /\ [SyncNext]_allvars => IrqInv'
  BY IrqNextInv, Parts
<1>3. IrqInv => InterruptsSound
  <2> SUFFICES ASSUME IrqInv PROVE InterruptsSound
    OBVIOUS
  <2>1. I!NoVectorStuck
    BY DEF IrqInv, InService, I!NoVectorStuck
  <2>2. at[irq_cur].place = "code" => (boot >= 14 => iflag)
    BY DEF IrqInv, CpuAt
  <2>3. boot \in 1 .. 16 /\ (irq_cur # I!Kmain => boot >= 15) /\ (iflag => pic = "masked")
    BY DEF IrqInv, Booted, IrqQueues
  <2>4. I!InterruptsOn
    <3>1. Len(I!boot_steps) = 15
      BY BootSteps
    <3>2. ~halted
      BY DEF IrqInv
    <3> QED  BY <2>2, <2>3, <3>1, <3>2 DEF I!InterruptsOn
  <2> QED  BY <2>1, <2>4 DEF InterruptsSound
<1> QED  BY <1>1, <1>2, <1>3, PTL DEF SyncSpec, allvars
=============================================================================
