----------------------------- MODULE SchedLinks ------------------------------
(***************************************************************************)
(* The scheduler's queues as kernel/sched.c keeps them: a circular doubly  *)
(* linked ready ring and a singly linked sleep list, both threaded through *)
(* the `next' field of the task structure, with a head pointer, and for    *)
(* the ring a count.  Module Sched keeps the same queues as sequences;     *)
(* this module is shown to implement it.                                   *)
(*                                                                         *)
(* sched_add inserts into the ring with interrupts enabled, so its stores  *)
(* are separate steps here, in the order of the source (the head is read   *)
(* once, into a register).  Every other list operation runs with           *)
(* interrupts off and is one step.  TickDuringAdd says whether a tick may  *)
(* fall between those stores.                                              *)
(***************************************************************************)
EXTENDS Naturals, Sequences, FiniteSets, TaskTable

CONSTANT TickDuringAdd     \* may the timer interrupt an insertion?

Slots == 0 .. TASK_MAX - 1
Null  == TASK_MAX     \* the NULL pointer, and g_current before task_init
Kmain == 0
Idle  == 1
Cells == Slots \cup {Null}  \* page 0 is mapped: NULL->next is a memory cell

VARIABLES
  q,          \* the queues: see Queues
  phase, pid, wake_tick, g_next_pid, g_current, g_quantum_left, g_ticks,
  pending,    \* as in module Sched
  push        \* thread -> its unfinished insertion, or NoPush

lvars == << q, phase, pid, wake_tick, g_next_pid, g_current, g_quantum_left,
           g_ticks, pending, push >>

Queues ==
  [next : [Cells -> Cells], prev : [Cells -> Cells],
   state : [Slots -> {"DEAD", "READY", "RUNNING", "SLEEPING"}],
   head : Cells, count : Nat, sleep : Cells]

(* An insertion: its task, the tail and head it read, the next store. *)
Insertion == [task : Slots, tail : Cells, head : Cells,
              step : {"empty", "tail.next", "t.prev", "t.next", "head.prev",
                      "count"}]
NoPush == [step |-> "none"]

-----------------------------------------------------------------------------
(* List operations on the queues Q. *)

Walk(f, from, n) ==
  LET w[i \in 1 .. n] == IF i = 1 THEN from ELSE f[w[i - 1]] IN w

Link(Q, a, b)     == [Q EXCEPT !.next[a] = b]
LinkBack(Q, a, b) == [Q EXCEPT !.prev[a] = b]

rq_push_back(Q, t) ==
  LET tail == Q.prev[Q.head] IN
  IF Q.head = Null
  THEN [Q EXCEPT !.next[t] = t, !.prev[t] = t, !.head = t, !.count = @ + 1]
  ELSE [Q EXCEPT !.next = [@ EXCEPT ![t] = Q.head, ![tail] = t],
                 !.prev = [@ EXCEPT ![t] = tail, ![Q.head] = t],
                 !.count = @ + 1]

(* rq_remove's repair of the head and the count. *)
head_kept_bug(Q, t) == Q.head
head_to_prev_bug(Q, t) == IF Q.head = t THEN Q.prev[t] ELSE Q.head
head_after(Q, t) == IF Q.head = t THEN Q.next[t] ELSE Q.head

count_kept_bug(Q) == Q.count
count_after(Q) == Q.count - 1

(* Only t's own links tell whether it is in the ring. *)
rq_remove(Q, t) ==
  IF Q.count = 0 \/ Q.next[t] = Null THEN Q
  ELSE [LinkBack(Link(Q, Q.prev[t], Q.next[t]), Q.next[t], Q.prev[t]) EXCEPT
          !.head = IF Q.next[t] = t THEN Null ELSE head_after(Q, t),
          !.next[t] = Null, !.prev[t] = Null, !.count = count_after(Q)]

sq_push(Q, t) == [Link(Q, t, Q.sleep) EXCEPT !.sleep = t]

(* One round of sq_wake_due's loop over the queues w.q.  w.pp is the cell  *)
(* whose `next' is *pp, or Null for &g_sleep_head.                         *)
wake_round(w, now) ==
  LET t == IF w.pp = Null THEN w.q.sleep ELSE w.q.next[w.pp]
      unlinked == IF w.pp = Null THEN [w.q EXCEPT !.sleep = w.q.next[t]]
                                 ELSE Link(w.q, w.pp, w.q.next[t])
  IN  CASE t = Null -> w
        [] t # Null /\ now < wake_tick[t] -> [w EXCEPT !.pp = t]
        [] t # Null /\ now >= wake_tick[t] ->
             [w EXCEPT !.q = rq_push_back([unlinked EXCEPT !.state[t] = "READY"], t)]

(* Each round passes or wakes one sleeper, so there are at most TASK_MAX.  *)
sq_wake_due(Q, now) ==
  LET w[i \in 0 .. TASK_MAX] == IF i = 0 THEN [q |-> Q, pp |-> Null]
                                ELSE wake_round(w[i - 1], now)
  IN  w[TASK_MAX].q

(* A sleep list that does not reach NULL keeps the handler in its loop for *)
(* ever, with interrupts off.                                              *)
SleepListEnds ==
  \E i \in 1 .. TASK_MAX + 1 : Walk(q.next, q.sleep, TASK_MAX + 1)[i] = Null

-----------------------------------------------------------------------------
LinksInit ==
  /\ q = [next |-> [c \in Cells |-> Null], prev |-> [c \in Cells |-> Null],
          state |-> [t \in Slots |-> "DEAD"],
          head |-> Null, count |-> 0, sleep |-> Null]
  /\ phase = "sti"
  /\ pid = [t \in Slots |-> 0]
  /\ wake_tick = [t \in Slots |-> 0]
  /\ g_next_pid = 1
  /\ g_current = Null
  /\ g_quantum_left = SCHED_TICK_QUANTUM
  /\ g_ticks = 0
  /\ pending = {}
  /\ push = [t \in Slots |-> NoPush]

task_init ==
  /\ phase = "sti"
  /\ phase' = "task_init"
  /\ q' = [q EXCEPT !.next = [c \in Cells |-> Null],
                    !.prev = [c \in Cells |-> Null],
                    !.state = [t \in Slots |-> IF t = Kmain THEN "RUNNING"
                                                            ELSE "DEAD"]]
  /\ pid' = [t \in Slots |-> 0]
  /\ wake_tick' = [t \in Slots |-> 0]
  /\ g_next_pid' = 1
  /\ g_current' = Kmain
  /\ UNCHANGED << g_quantum_left, g_ticks, pending, push >>

sched_init ==
  /\ phase = "task_init"
  /\ phase' = "up"
  /\ q' = rq_push_back([q EXCEPT !.head = Null, !.count = 0, !.sleep = Null,
                                 !.state[Idle] = "READY"], Idle)
  /\ pid' = [pid EXCEPT ![Idle] = g_next_pid]
  /\ g_next_pid' = g_next_pid + 1
  /\ g_quantum_left' = SCHED_TICK_QUANTUM
  /\ UNCHANGED << wake_tick, g_current, g_ticks, pending, push >>

(* do_switch on the queues Q its caller leaves, the quantum being 0.  A    *)
(* ring with a count and no head dispatches NULL.                          *)
do_switch(Q) ==
  LET next == Q.head
      P == IF next = Null THEN Q ELSE rq_remove(Q, next)
      R == IF P.state[g_current] = "RUNNING"
           THEN rq_push_back([P EXCEPT !.state[g_current] = "READY"], g_current)
           ELSE P
  IN  IF Q.count = 0 THEN
        q' = Q /\ g_quantum_left' = 0 /\ UNCHANGED g_current
      ELSE IF next = g_current THEN
        q' = rq_push_back(P, next) /\ g_quantum_left' = 0 /\ UNCHANGED g_current
      ELSE
        /\ q' = IF next = Null THEN R ELSE [R EXCEPT !.state[next] = "RUNNING"]
        /\ g_current' = next
        /\ g_quantum_left' = SCHED_TICK_QUANTUM

pit_irq ==
  LET now == IF g_ticks < MaxTick THEN g_ticks + 1 ELSE g_ticks
      Q == sq_wake_due(q, now)
      quantum == IF g_quantum_left > 0 THEN g_quantum_left - 1 ELSE 0
  IN  /\ TickDuringAdd \/ \A t \in Slots : push[t] = NoPush
      /\ phase = "up" => g_current # Null
      /\ SleepListEnds
      /\ g_ticks' = now
      /\ IF quantum = 0 THEN do_switch(Q)
         ELSE q' = Q /\ g_quantum_left' = quantum /\ UNCHANGED g_current
      /\ UNCHANGED << phase, pid, wake_tick, g_next_pid, pending, push >>

-----------------------------------------------------------------------------
CanAct ==
  phase = "up" /\ g_current \in Slots \ {Idle} /\ push[g_current] = NoPush

task_create(s) ==
  /\ CanAct
  /\ s # Kmain /\ q.state[s] = "DEAD"
  /\ g_next_pid < MaxPid
  /\ q' = [q EXCEPT !.state[s] = "READY", !.next[s] = Null, !.prev[s] = Null]
  /\ pid' = [pid EXCEPT ![s] = g_next_pid]
  /\ wake_tick' = [wake_tick EXCEPT ![s] = 0]
  /\ g_next_pid' = g_next_pid + 1
  /\ pending' = pending \cup {s}
  /\ UNCHANGED << phase, g_current, g_quantum_left, g_ticks, push >>

(* sched_add up to the test of g_ready_head; the task stays pending until  *)
(* the count says it is in the ring.                                       *)
sched_add(t) ==
  /\ CanAct
  /\ t \in pending /\ \A u \in Slots : push[u] # NoPush => push[u].task # t
  /\ q' = [q EXCEPT !.state[t] = "READY", !.next[t] = Null, !.prev[t] = Null]
  /\ push' = [push EXCEPT ![g_current] =
       [task |-> t, head |-> q.head, tail |-> q.prev[q.head],
        step |-> IF q.head = Null THEN "empty" ELSE "tail.next"]]
  /\ UNCHANGED << phase, pid, wake_tick, g_next_pid, g_current,
                  g_quantum_left, g_ticks, pending >>

(* The stores of an insertion p, in program order, and what follows each. *)
Store(p) ==
  CASE p.step = "empty"     -> [LinkBack(Link(q, p.task, p.task), p.task, p.task)
                                  EXCEPT !.head = p.task]
    [] p.step = "tail.next" -> Link(q, p.tail, p.task)
    [] p.step = "t.prev"    -> LinkBack(q, p.task, p.tail)
    [] p.step = "t.next"    -> Link(q, p.task, p.head)
    [] p.step = "head.prev" -> LinkBack(q, p.head, p.task)
    [] p.step = "count"     -> [q EXCEPT !.count = @ + 1]

StepAfter == [x \in {"empty", "tail.next", "t.prev", "t.next", "head.prev"} |->
  CASE x = "tail.next" -> "t.prev"
    [] x = "t.prev"    -> "t.next"
    [] x = "t.next"    -> "head.prev"
    [] x \in {"empty", "head.prev"} -> "count"]

(* The next store of the running thread's insertion. *)
sched_add_store ==
  LET p == push[g_current]
  IN  /\ phase = "up" /\ g_current \in Slots /\ p # NoPush
      /\ q' = Store(p)
      /\ push' = [push EXCEPT ![g_current] =
                    IF p.step = "count" THEN NoPush
                    ELSE [p EXCEPT !.step = StepAfter[p.step]]]
      /\ pending' = IF p.step = "count" THEN pending \ {p.task} ELSE pending
      /\ UNCHANGED << phase, pid, wake_tick, g_next_pid, g_current,
                      g_quantum_left, g_ticks >>

task_destroy(t) ==
  /\ CanAct
  /\ \A u \in Slots : push[u] # NoPush => push[u].task # t
  /\ q' = [q EXCEPT !.state[t] = "DEAD"]
  /\ pending' = pending \ {t}
  /\ UNCHANGED << phase, pid, wake_tick, g_next_pid, g_current,
                  g_quantum_left, g_ticks, push >>

sched_yield ==
  /\ CanAct
  /\ do_switch(q)
  /\ UNCHANGED << phase, pid, wake_tick, g_next_pid, g_ticks, pending, push >>

sched_sleep(ms) ==
  /\ CanAct
  /\ g_ticks + ms <= MaxTick
  /\ wake_tick' = [wake_tick EXCEPT ![g_current] = g_ticks + ms]
  /\ do_switch(sq_push([q EXCEPT !.state[g_current] = "SLEEPING"], g_current))
  /\ UNCHANGED << phase, pid, g_next_pid, g_ticks, pending, push >>

sched_exit ==
  /\ CanAct /\ g_current # Kmain
  /\ do_switch([q EXCEPT !.state[g_current] = "DEAD"])
  /\ UNCHANGED << phase, pid, wake_tick, g_next_pid, g_ticks, pending, push >>

LinksNext ==
  \/ task_init
  \/ sched_init
  \/ pit_irq
  \/ \E s \in Slots : task_create(s)
  \/ \E t \in pending : sched_add(t)
  \/ sched_add_store
  \/ \E t \in pending : task_destroy(t)
  \/ sched_yield
  \/ \E ms \in SleepTimes : sched_sleep(ms)
  \/ sched_exit

LinksSpec == LinksInit /\ [][LinksNext]_lvars

-----------------------------------------------------------------------------
(* The queues a reader of the links sees. *)

ReadyWalk == Walk(q.next, q.head, q.count)

(* The sleep list up to its NULL (at most one cell per task). *)
SleepWalk ==
  LET w == Walk(q.next, q.sleep, TASK_MAX + 1)
      n == CHOOSE k \in 0 .. TASK_MAX :
             /\ w[k + 1] = Null
             /\ \A i \in 1 .. k : w[i] # Null
  IN  SubSeq(w, 1, n)

S == INSTANCE Sched WITH state <- q.state, ready <- ReadyWalk, sleepq <- SleepWalk

(* Types of every variable; the count stays within the task table. *)
LinksTypeOK ==
  /\ q \in Queues /\ q.count <= TASK_MAX
  /\ phase \in {"sti", "task_init", "up"}
  /\ pid \in [Slots -> Nat] /\ wake_tick \in [Slots -> Nat]
  /\ g_next_pid \in Nat /\ g_current \in Cells
  /\ g_quantum_left \in 0 .. SCHED_TICK_QUANTUM /\ g_ticks \in Nat
  /\ pending \subseteq Slots
  /\ push \in [Slots -> Insertion \cup {NoPush}]

(* Whenever no insertion is under way the ready queue is what sched.h says *)
(* it is, a "circular doubly-linked list of TASK_READY tasks": from the    *)
(* head, g_ready_count distinct READY tasks, closed by next and by prev.   *)
RingIntegrity ==
  (\A t \in Slots : push[t] = NoPush) =>
    /\ q.head = Null <=> q.count = 0
    /\ q.count > 0 =>
         /\ q.next[ReadyWalk[q.count]] = q.head
         /\ \A i \in 1 .. q.count :
              /\ ReadyWalk[i] \in Slots
              /\ q.state[ReadyWalk[i]] = "READY"
              /\ q.prev[q.next[ReadyWalk[i]]] = ReadyWalk[i]
              /\ \A j \in 1 .. i - 1 : ReadyWalk[i] # ReadyWalk[j]

(* The linked lists behave as the sequences of module Sched: the same      *)
(* tasks wake, queue, run and leave, in the same order.                    *)
RefinesSched == S!Spec
=============================================================================
