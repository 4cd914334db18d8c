-------------------------------- MODULE Mutex --------------------------------
(***************************************************************************)
(* The yield-spinning mutex of kernel/sync.c, at the granularity of its    *)
(* shared accesses: N tasks on the one CPU lock, try and unlock one mutex. *)
(*                                                                         *)
(* Only the running task `cur' takes steps.  A quantum may run out between *)
(* any two of them (preempt), and a failed attempt yields; either way the  *)
(* next task of the ready ring runs, as module Sched has it for tasks that *)
(* never sleep.  Tasks are named by their PIDs, from the boot task's 0.    *)
(* The sections under m->guard run with interrupts off, so on one CPU they *)
(* are single steps and the guard itself is never contended.               *)
(***************************************************************************)
EXTENDS Naturals, Sequences

CONSTANTS
  N,                  \* tasks that use the mutex
  MUTEX_WAITER_MAX    \* entries of the waiter list (sync.h: 16)

ASSUME MutexAssumption == N \in Nat \ {0} /\ MUTEX_WAITER_MAX \in Nat

Tasks  == 0 .. N - 1
Nobody == N

VARIABLES
  locked,      \* m->locked
  owner_pid,   \* m->owner_pid, 0 if free
  waiters,     \* m->waiters[0 .. nwaiters-1]
  pc,          \* where each task is
  cur          \* the running task

vars == << locked, owner_pid, waiters, pc, cur >>

(* Steps at which the task has the lock; the ones at which it is queued.   *)
HoldingPcs == {"own_fast", "own_slow", "deregister", "cs", "clear_owner",
               "clear_locked"}
WaitingPcs == {"spin", "own_slow", "deregister"}
Pcs == {"idle", "try", "fast", "register", "spin"} \cup HoldingPcs

In(p, w) == \E i \in 1 .. Len(w) : w[i] = p

Init ==      \* mutex_init
  /\ locked = 0
  /\ owner_pid = 0
  /\ waiters = << >>
  /\ pc = [p \in Tasks |-> "idle"]
  /\ cur \in Tasks

Goto(p, to) == pc' = [pc EXCEPT ![p] = to]
ring_next(p) == (p + 1) % N      \* the ready ring
Keep == UNCHANGED cur

-----------------------------------------------------------------------------
(* A task decides to use the mutex. *)
call_lock(p) == /\ pc[p] = "idle" /\ Goto(p, "fast")
                /\ Keep /\ UNCHANGED << locked, owner_pid, waiters >>
call_try_lock(p) == /\ pc[p] = "idle" /\ Goto(p, "try")
                    /\ Keep /\ UNCHANGED << locked, owner_pid, waiters >>

(* mutex_try_lock and mutex_lock's fast path: one xchg, which stores 1     *)
(* whatever it finds.  Its outcome decides where the task goes on.         *)
xchg_undone_bug(p, got, lost) ==
  /\ locked' = 1 - locked
  /\ IF locked = 0 THEN Goto(p, got) ELSE Goto(p, lost)
atomic_xchg(p, got, lost) ==
  /\ locked' = 1
  /\ IF locked = 0 THEN Goto(p, got) ELSE Goto(p, lost)

mutex_try_lock(p) ==
  /\ pc[p] = "try"
  /\ atomic_xchg(p, "own_fast", "idle")
  /\ Keep /\ UNCHANGED << owner_pid, waiters >>

lock_fast(p) ==
  /\ pc[p] = "fast"
  /\ atomic_xchg(p, "own_fast", "register")
  /\ Keep /\ UNCHANGED << owner_pid, waiters >>

set_owner_fast(p) ==
  /\ pc[p] = "own_fast" /\ Goto(p, "cs")
  /\ owner_pid' = p
  /\ Keep /\ UNCHANGED << locked, waiters >>

(* A full list drops the registration; the task spins all the same. *)
lock_register(p) ==
  /\ pc[p] = "register" /\ Goto(p, "spin")
  /\ waiters' = IF Len(waiters) < MUTEX_WAITER_MAX THEN Append(waiters, p)
                                                   ELSE waiters
  /\ Keep /\ UNCHANGED << locked, owner_pid >>

(* A failed attempt yields. *)
lock_spin(p) ==
  /\ pc[p] = "spin"
  /\ atomic_xchg(p, "own_slow", "spin")
  /\ cur' = IF locked = 0 THEN p ELSE ring_next(p)
  /\ UNCHANGED << owner_pid, waiters >>

set_owner_slow(p) ==
  /\ pc[p] = "own_slow" /\ Goto(p, "deregister")
  /\ owner_pid' = p
  /\ Keep /\ UNCHANGED << locked, waiters >>

(* Takes p out of the list, if it is in: the last entry fills the hole. *)
remove_last_bug(w, p) == IF In(p, w) THEN SubSeq(w, 1, Len(w) - 1) ELSE w
remove_waiter(w, p) ==
  IF ~In(p, w) THEN w
  ELSE LET hole == CHOOSE i \in 1 .. Len(w) :
                     w[i] = p /\ \A j \in 1 .. i - 1 : w[j] # p
       IN  [i \in 1 .. Len(w) - 1 |-> IF i = hole THEN w[Len(w)] ELSE w[i]]

lock_deregister(p) ==
  /\ pc[p] = "deregister" /\ Goto(p, "cs")
  /\ waiters' = remove_waiter(waiters, p)
  /\ Keep /\ UNCHANGED << locked, owner_pid >>

call_unlock(p) == /\ pc[p] = "cs" /\ Goto(p, "clear_owner")
                  /\ Keep /\ UNCHANGED << locked, owner_pid, waiters >>

(* mutex_unlock's two stores, in their order. *)
swapped_stores_bug(k) == IF k = 2 THEN owner_pid' = 0 /\ UNCHANGED locked
                                  ELSE locked' = 0 /\ UNCHANGED owner_pid
unlock_store(k) == IF k = 1 THEN owner_pid' = 0 /\ UNCHANGED locked
                            ELSE locked' = 0 /\ UNCHANGED owner_pid

unlock_first(p) ==
  /\ pc[p] = "clear_owner" /\ Goto(p, "clear_locked")
  /\ unlock_store(1)
  /\ Keep /\ UNCHANGED waiters

unlock_second(p) ==
  /\ pc[p] = "clear_locked" /\ Goto(p, "idle")
  /\ unlock_store(2)
  /\ Keep /\ UNCHANGED waiters

(* The running task's own code, up to its decisions to lock. *)
Step(p) ==
  /\ cur = p
  /\ \/ mutex_try_lock(p) \/ lock_fast(p) \/ set_owner_fast(p)
     \/ lock_register(p) \/ lock_spin(p) \/ set_owner_slow(p)
     \/ lock_deregister(p) \/ call_unlock(p) \/ unlock_first(p)
     \/ unlock_second(p)

Call(p) == cur = p /\ (call_lock(p) \/ call_try_lock(p))

(* The quantum runs out, or the task yields outside the mutex code. *)
preempt == cur' = ring_next(cur) /\ UNCHANGED << locked, owner_pid, waiters, pc >>

Next == preempt \/ \E p \in Tasks : Step(p) \/ Call(p)

Spec == Init /\ [][Next]_vars

(* Ticks come, and a dispatched task gets something done in its quantum.   *)
FairSpec == Spec /\ WF_vars(preempt) /\ \A p \in Tasks : SF_vars(Step(p))

-----------------------------------------------------------------------------
(* Types of every variable. *)
TypeOK ==
  /\ locked \in {0, 1}
  /\ owner_pid \in Tasks
  /\ waiters \in Seq(Tasks)
  /\ pc \in [Tasks -> Pcs]
  /\ cur \in Tasks

(* One task at a time between mutex_lock and mutex_unlock. *)
MutualExclusion ==
  \A p, r \in Tasks : pc[p] = "cs" /\ pc[r] = "cs" => p = r

(* Inside, owner_pid names the task that is inside, though it is written   *)
(* outside the exchange by every new owner and cleared by every old one.   *)
OwnerNamesHolder ==
  \A p \in Tasks : pc[p] \in {"deregister", "cs", "clear_owner"} => owner_pid = p

(* The waiter list holds only tasks still waiting, each once, and never    *)
(* more than it has room for: no stale PID survives an acquisition.        *)
WaitersAreWaiting ==
  /\ Len(waiters) <= MUTEX_WAITER_MAX
  /\ \A i \in 1 .. Len(waiters) :
       /\ pc[waiters[i]] \in WaitingPcs
       /\ \A j \in 1 .. Len(waiters) : waiters[i] = waiters[j] => i = j

(* The mutex admits one task at a time, from the exchange that found 0 to  *)
(* the store of 0.                                                         *)
Inside == { p \in Tasks : pc[p] \in HoldingPcs }
L == INSTANCE OneInside WITH inside <- Inside
AdmitsOne == L!Spec

(* With a task waiting, somebody gets in: the waiters cannot all spin on a *)
(* lock nobody holds, nor yield to each other for ever.                    *)
SomebodyGetsIn ==
  (\E p \in Tasks : pc[p] = "spin") ~> (\E p \in Tasks : pc[p] = "cs")
=============================================================================
