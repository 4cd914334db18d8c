------------------------------ MODULE Semaphore ------------------------------
(***************************************************************************)
(* The counting semaphore of kernel/sync.c.  Every access to its fields is *)
(* made under s->guard with interrupts off, so each such section is one    *)
(* step; between two of them the tasks interleave freely.                  *)
(*                                                                         *)
(* The tasks are producers and consumers of units: any of them may post a  *)
(* unit (at most MaxPosts in all, the model's bound), wait for one or try  *)
(* to take one.                                                            *)
(***************************************************************************)
EXTENDS Integers, Sequences

CONSTANTS
  N,                \* tasks that use the semaphore, by PID
  SEM_WAITER_MAX,   \* entries of the waiter list (sync.h: 16)
  InitialCount,     \* sem_init's argument
  MaxPosts          \* bound on sem_post calls

(* What the constants are. *)
SemAssumption ==
  /\ N \in Nat \ {0} /\ SEM_WAITER_MAX \in Nat
  /\ InitialCount \in Nat /\ MaxPosts \in Nat

Tasks == 0 .. N - 1

VARIABLES
  count, waiters,   \* s->count, s->waiters[0 .. nwaiters-1]
  pc,               \* "idle", or "spin" inside sem_wait's loop
  posted, taken     \* units posted and units obtained so far

vars == << count, waiters, pc, posted, taken >>

In(p, w) == \E i \in 1 .. Len(w) : w[i] = p

Init ==      \* sem_init
  /\ count = InitialCount
  /\ waiters = << >>
  /\ pc = [p \in Tasks |-> "idle"]
  /\ posted = 0
  /\ taken = 0

(* Takes p out of the list, if it is in: the last entry fills the hole. *)
remove_waiter(w, p) ==
  IF ~In(p, w) THEN w
  ELSE LET hole == CHOOSE i \in 1 .. Len(w) :
                     w[i] = p /\ \A j \in 1 .. i - 1 : w[j] # p
       IN  [i \in 1 .. Len(w) - 1 |-> IF i = hole THEN w[Len(w)] ELSE w[i]]

(* The test every path makes before it takes a unit. *)
available == count > 0

take == count' = count - 1 /\ taken' = taken + 1

(* sem_trywait: a unit, or nothing at all. *)
sem_trywait(p) ==
  /\ pc[p] = "idle"
  /\ available /\ take
  /\ UNCHANGED << waiters, pc, posted >>

sem_wait_fast(p) ==
  /\ pc[p] = "idle"
  /\ available /\ take
  /\ UNCHANGED << waiters, pc, posted >>

(* No unit: the test and the registration are one section, so a post       *)
(* cannot fall between them.                                               *)
sem_wait_register(p) ==
  /\ pc[p] = "idle"
  /\ ~available
  /\ waiters' = IF Len(waiters) < SEM_WAITER_MAX THEN Append(waiters, p)
                                                 ELSE waiters
  /\ pc' = [pc EXCEPT ![p] = "spin"]
  /\ UNCHANGED << count, posted, taken >>

only_registered_bug(p) ==
  /\ pc[p] = "spin" /\ In(p, waiters)
  /\ available /\ take
  /\ waiters' = remove_waiter(waiters, p)
  /\ pc' = [pc EXCEPT ![p] = "idle"]
  /\ UNCHANGED posted
(* One round of the loop that finds a unit; the others only yield. *)
sem_wait_spin(p) ==
  /\ pc[p] = "spin"
  /\ available /\ take
  /\ waiters' = remove_waiter(waiters, p)
  /\ pc' = [pc EXCEPT ![p] = "idle"]
  /\ UNCHANGED posted

lost_post_bug == IF \E p \in Tasks : pc[p] = "spin" THEN 1 ELSE count + 1
post_count == count + 1

sem_post(p) ==
  /\ pc[p] = "idle"
  /\ posted < MaxPosts
  /\ count' = post_count
  /\ posted' = posted + 1
  /\ UNCHANGED << waiters, pc, taken >>

Next == \E p \in Tasks :
  \/ sem_trywait(p)
  \/ sem_wait_fast(p)
  \/ sem_wait_register(p)
  \/ sem_wait_spin(p)
  \/ sem_post(p)

Spec == Init /\ [][Next]_vars

(* The scheduler runs every yield-spinning task again and again. *)
FairSpec == Spec /\ \A p \in Tasks : WF_vars(sem_wait_spin(p))

-----------------------------------------------------------------------------
(* Types of every variable. *)
TypeOK ==
  /\ count \in Nat
  /\ waiters \in Seq(Tasks)
  /\ pc \in [Tasks -> {"idle", "spin"}]
  /\ posted \in Nat /\ taken \in Nat

(* No unit is lost or taken twice, whoever posts, waits or tries in        *)
(* between: what was put in is in the count or was handed out.             *)
UnitsConserved == count + taken = InitialCount + posted /\ count >= 0

(* The waiter list holds only tasks inside sem_wait's loop, each once.     *)
WaitersAreWaiting ==
  /\ Len(waiters) <= SEM_WAITER_MAX
  /\ \A i \in 1 .. Len(waiters) :
       /\ pc[waiters[i]] = "spin"
       /\ \A j \in 1 .. Len(waiters) : waiters[i] = waiters[j] => i = j

(* A unit and a waiter do not stay side by side: the unit goes to somebody *)
(* though sem_post wakes nobody.                                           *)
UnitIsUsed ==
  (count > 0 /\ \E p \in Tasks : pc[p] = "spin")
    ~> (count = 0 \/ \A p \in Tasks : pc[p] = "idle")
=============================================================================
