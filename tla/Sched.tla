-------------------------------- MODULE Sched --------------------------------
(***************************************************************************)
(* The task table (kernel/task.c) and the round-robin preemptive scheduler *)
(* (kernel/sched.c) of AIOS, with the boot order of kernel_main.c and the  *)
(* timer interrupt that drives them (kernel/pit.c).                        *)
(*                                                                         *)
(* There is one CPU.  The bodies of sched_yield, sched_sleep, sched_exit   *)
(* run between cli and sti, and the timer handler runs behind an interrupt *)
(* gate, so each is one action.  task_create and sched_add run with        *)
(* interrupts enabled: a tick may fall between them (tasks created and not *)
(* yet added are in `pending'); what a tick in the middle of sched_add's   *)
(* list insertion does is the subject of module SchedLinks, and two        *)
(* creators inside task_create that of module Kthread.                     *)
(*                                                                         *)
(* The queues are sequences, head first.  Stack contents, names, cr3 and   *)
(* the ticks_run statistic are left out.                                   *)
(***************************************************************************)
EXTENDS Naturals, Sequences, FiniteSets, TaskTable

Slots  == 0 .. TASK_MAX - 1
NoTask == TASK_MAX      \* g_current == NULL
Kmain  == 0             \* the boot task owns slot 0
Idle   == 1             \* sched_init finds slot 1 first: the table is zeroed

TaskState == {"DEAD", "READY", "RUNNING", "SLEEPING"}

VARIABLES
  phase,           \* how far kernel_main is: "sti", "task_init" or "up"
  state,           \* g_tasks[i].state
  pid,             \* g_tasks[i].pid
  wake_tick,       \* g_tasks[i].wake_tick
  g_next_pid,
  g_current,
  ready,           \* the ready ring from g_ready_head on
  sleepq,          \* the sleep list from g_sleep_head on
  g_quantum_left,
  g_ticks,
  pending          \* tasks created and not yet given to sched_add

vars == << phase, state, pid, wake_tick, g_next_pid, g_current, ready,
           sleepq, g_quantum_left, g_ticks, pending >>

-----------------------------------------------------------------------------
(* Sequences as queues of distinct tasks. *)

In(t, s)     == \E i \in 1 .. Len(s) : s[i] = t
Distinct(s)  == \A i, j \in 1 .. Len(s) : s[i] = s[j] => i = j

Before(s, a, b) ==
  \E i, j \in 1 .. Len(s) : i < j /\ s[i] = a /\ s[j] = b

(* The enumerations of the set T in the order its elements have in s (just *)
(* one when s is distinct and T a set of elements of s).                   *)
InOrder(s, T) ==
  { q \in [1 .. Cardinality(T) -> T] :
      /\ \A t \in T : \E i \in 1 .. Cardinality(T) : q[i] = t
      /\ \A i, j \in 1 .. Cardinality(T) : i < j => Before(s, q[i], q[j]) }

-----------------------------------------------------------------------------
(* PIDs are never reused. *)
pid_reused_bug == g_next_pid
pid_after == g_next_pid + 1

(* The machine when interrupts are first enabled: no task table yet. *)
Init ==
  /\ phase = "sti"
  /\ state = [t \in Slots |-> "DEAD"]
  /\ pid = [t \in Slots |-> 0]
  /\ wake_tick = [t \in Slots |-> 0]
  /\ g_next_pid = 1
  /\ g_current = NoTask
  /\ ready = << >>
  /\ sleepq = << >>
  /\ g_quantum_left = SCHED_TICK_QUANTUM
  /\ g_ticks = 0
  /\ pending = {}

task_init ==
  /\ phase = "sti"
  /\ phase' = "task_init"
  /\ state' = [t \in Slots |-> IF t = Kmain THEN "RUNNING" ELSE "DEAD"]
  /\ pid' = [t \in Slots |-> 0]
  /\ wake_tick' = [t \in Slots |-> 0]
  /\ g_next_pid' = 1
  /\ g_current' = Kmain
  /\ UNCHANGED << ready, sleepq, g_quantum_left, g_ticks, pending >>

(* The idle task's creation cannot fail here: KERNEL_ASSERT halts the boot. *)
sched_init ==
  /\ phase = "task_init"
  /\ phase' = "up"
  /\ state' = [state EXCEPT ![Idle] = "READY"]
  /\ pid' = [pid EXCEPT ![Idle] = g_next_pid]
  /\ g_next_pid' = pid_after
  /\ ready' = << Idle >>
  /\ sleepq' = << >>
  /\ g_quantum_left' = SCHED_TICK_QUANTUM
  /\ UNCHANGED << wake_tick, g_current, g_ticks, pending >>

-----------------------------------------------------------------------------
(* The tail of the ready ring. *)
rq_push_front_bug(rq, t) == << t >> \o rq
rq_push_back(rq, t) == Append(rq, t)

(* Only a task that is still RUNNING goes back to the ready queue. *)
requeue_always_bug(st) == TRUE
requeue_current(st) == st[g_current] = "RUNNING"

(* The quantum of the task being dispatched. *)
stale_quantum_bug == 0
fresh_quantum == SCHED_TICK_QUANTUM

(* do_switch, on the task states st and the ready queue rq its caller      *)
(* leaves behind, with the quantum at 0 as in all its callers.  With an    *)
(* empty queue it returns at once and the current task goes on, whatever   *)
(* its state.                                                              *)
do_switch(st, rq) ==
  IF rq = << >> THEN
    /\ state' = st /\ ready' = rq /\ g_quantum_left' = 0
    /\ UNCHANGED g_current
  ELSE IF Head(rq) = g_current THEN
    /\ state' = st /\ ready' = rq_push_back(Tail(rq), Head(rq))
    /\ g_quantum_left' = 0
    /\ UNCHANGED g_current
  ELSE
    /\ IF requeue_current(st)
       THEN /\ state' = [st EXCEPT ![g_current] = "READY",
                                   ![Head(rq)] = "RUNNING"]
            /\ ready' = rq_push_back(Tail(rq), g_current)
       ELSE /\ state' = [st EXCEPT ![Head(rq)] = "RUNNING"]
            /\ ready' = Tail(rq)
    /\ g_current' = Head(rq)
    /\ g_quantum_left' = fresh_quantum

(* pit_tick: the counter, saturating at the model's bound. *)
pit_tick == IF g_ticks < MaxTick THEN g_ticks + 1 ELSE g_ticks

(* sq_wake_due: the sleepers whose deadline has come at tick `now'. *)
due_late_bug(now) == { t \in Slots : In(t, sleepq) /\ now > wake_tick[t] }
sq_wake_due(now) == { t \in Slots : In(t, sleepq) /\ now >= wake_tick[t] }

(* sched_tick's quantum: it stays at 0 while nobody can be dispatched. *)
quantum_underflow_bug == g_quantum_left - 1
quantum_tick == IF g_quantum_left > 0 THEN g_quantum_left - 1 ELSE 0

(* pit_irq_handler: pit_tick, EOI, sched_tick, all with interrupts off. *)
pit_irq ==
  LET due == sq_wake_due(pit_tick)
      asleep == { t \in Slots : In(t, sleepq) } \ due
      st == [t \in Slots |-> IF t \in due THEN "READY" ELSE state[t]]
  IN  /\ g_ticks' = pit_tick
      /\ \E woken \in InOrder(sleepq, due), rest \in InOrder(sleepq, asleep) :
           /\ sleepq' = rest
           /\ IF quantum_tick = 0
              THEN do_switch(st, ready \o woken)
              ELSE /\ state' = st /\ ready' = ready \o woken
                   /\ g_quantum_left' = quantum_tick
                   /\ UNCHANGED g_current
      /\ UNCHANGED << phase, pid, wake_tick, g_next_pid, pending >>

-----------------------------------------------------------------------------
(* What a running task other than idle does.  idle only executes hlt. *)

CanAct == phase = "up" /\ g_current # Idle

(* task_create claims a slot that was DEAD when its scan passed it (slots  *)
(* may die between the scan and the claim, so not always the first).       *)
(* Without a slot, or when kmalloc fails, it returns NULL: no step.        *)
task_create(s) ==
  /\ CanAct
  /\ s # Kmain /\ state[s] = "DEAD"
  /\ g_next_pid < MaxPid
  /\ state' = [state EXCEPT ![s] = "READY"]
  /\ pid' = [pid EXCEPT ![s] = g_next_pid]
  /\ wake_tick' = [wake_tick EXCEPT ![s] = 0]
  /\ g_next_pid' = pid_after
  /\ pending' = pending \cup {s}
  /\ UNCHANGED << phase, g_current, ready, sleepq, g_quantum_left, g_ticks >>

sched_add(t) ==
  /\ CanAct
  /\ t \in pending
  /\ state' = [state EXCEPT ![t] = "READY"]
  /\ ready' = rq_push_back(ready, t)
  /\ pending' = pending \ {t}
  /\ UNCHANGED << phase, pid, wake_tick, g_next_pid, g_current, sleepq,
                  g_quantum_left, g_ticks >>

(* task_destroy frees the stack and marks the slot; it touches no queue. *)
task_destroy(t) ==
  /\ CanAct
  /\ state[t] # "DEAD"
  /\ state' = [state EXCEPT ![t] = "DEAD"]
  /\ pending' = pending \ {t}
  /\ UNCHANGED << phase, pid, wake_tick, g_next_pid, g_current, ready, sleepq,
                  g_quantum_left, g_ticks >>

sched_yield ==
  /\ CanAct
  /\ do_switch(state, ready)
  /\ UNCHANGED << phase, pid, wake_tick, g_next_pid, sleepq, g_ticks,
                  pending >>

sched_sleep(ms) ==
  /\ CanAct
  /\ g_ticks + ms <= MaxTick
  /\ wake_tick' = [wake_tick EXCEPT ![g_current] = g_ticks + ms]
  /\ sleepq' = << g_current >> \o sleepq
  /\ do_switch([state EXCEPT ![g_current] = "SLEEPING"], ready)
  /\ UNCHANGED << phase, pid, g_next_pid, g_ticks, pending >>

(* kernel_main never returns, so the boot task does not exit. *)
sched_exit ==
  /\ CanAct /\ g_current # Kmain
  /\ do_switch([state EXCEPT ![g_current] = "DEAD"], ready)
  /\ UNCHANGED << phase, pid, wake_tick, g_next_pid, sleepq, g_ticks,
                  pending >>

-----------------------------------------------------------------------------
(* The kernel's own uses: task_destroy only for a task not yet added. *)
Next ==
  \/ task_init
  \/ sched_init
  \/ pit_irq
  \/ \E s \in Slots : task_create(s)
  \/ \E t \in pending : sched_add(t)
  \/ \E t \in pending : task_destroy(t)
  \/ sched_yield
  \/ \E ms \in SleepTimes : sched_sleep(ms)
  \/ sched_exit

Spec == Init /\ [][Next]_vars

(* The PIT interrupts at 1000 Hz (kernel_main checks its delivery), and    *)
(* the boot code runs on.                                                  *)
FairSpec == Spec /\ WF_vars(pit_irq) /\ WF_vars(task_init) /\ WF_vars(sched_init)

-----------------------------------------------------------------------------
(* Types of every variable. *)
TypeOK ==
  /\ phase \in {"sti", "task_init", "up"}
  /\ state \in [Slots -> TaskState]
  /\ pid \in [Slots -> Nat]
  /\ wake_tick \in [Slots -> Nat]
  /\ g_next_pid \in Nat
  /\ g_current \in Slots \cup {NoTask}
  /\ ready \in Seq(Slots)
  /\ sleepq \in Seq(Slots)
  /\ g_quantum_left \in 0 .. SCHED_TICK_QUANTUM
  /\ g_ticks \in Nat
  /\ pending \in SUBSET Slots

(* Every task is in exactly the place its state says: a READY task is in   *)
(* the ready queue once or still with its creator, a SLEEPING one in the   *)
(* sleep queue once, the RUNNING one is g_current and in no queue, a DEAD  *)
(* slot is in none (so its reuse cannot alias a queued task).              *)
TaskAccounting ==
  /\ Distinct(ready)
  /\ Distinct(sleepq)
  /\ \A t \in Slots :
       /\ state[t] = "READY" <=> In(t, ready) \/ t \in pending
       /\ state[t] = "SLEEPING" <=> In(t, sleepq)
       /\ state[t] = "RUNNING" <=> t = g_current
       /\ ~(In(t, ready) /\ t \in pending)

(* Once the scheduler is up there is always somebody to switch to: idle is *)
(* running or queued.  do_switch called for a sleeping or dead task never  *)
(* returns to it for want of a successor.                                  *)
SomebodyToRun ==
  phase = "up" => g_current = Idle \/ In(Idle, ready)

(* The sleep queue never holds a task past its deadline: every sleeper's   *)
(* wake_tick is still to come, or is the current tick and the task went to *)
(* sleep in it.                                                            *)
NoOversleep == \A t \in Slots : In(t, sleepq) => wake_tick[t] >= g_ticks

(* An expired quantum never leaves a ready task waiting: the tick (or the  *)
(* yield, sleep, exit) that used it up has switched.                       *)
ExpiredOnlyAlone ==
  phase = "up" /\ g_quantum_left = 0 => ready = << >>

(* The CPU is always with a task that may run: a switch finds a successor, *)
(* and an expired quantum is not held against waiting tasks.               *)
CpuWellUsed == SomebodyToRun /\ ExpiredOnlyAlone

(* Slots of live tasks carry distinct PIDs, all below the next one, across *)
(* any reuse of dead slots (kthread.c finds a thread's entry by its PID).  *)
LivePidsUnique ==
  \A t \in Slots : state[t] # "DEAD" /\ phase = "up" =>
    /\ pid[t] < g_next_pid
    /\ \A u \in Slots : state[u] # "DEAD" /\ pid[u] = pid[t] => u = t

(* sched_sleep(ms) blocks "for at least ms milliseconds", and no longer    *)
(* than the tick that reaches the deadline: a task leaves SLEEPING only in *)
(* a tick at or after its deadline, and no tick leaves a due task asleep.  *)
WakesOnTime ==
  [][ \A t \in Slots :
        /\ state[t] = "SLEEPING" /\ state'[t] # "SLEEPING"
             => g_ticks' >= wake_tick[t]
        /\ g_ticks' # g_ticks /\ In(t, sleepq') => wake_tick'[t] > g_ticks' ]_vars

(* Round robin starves nobody: a queued task gets the CPU.                 *)
ReadyRuns == \A t \in Slots : In(t, ready) ~> g_current = t

(* A sleeper is woken in the end, and runs again.                          *)
SleeperWakes == \A t \in Slots : state[t] = "SLEEPING" ~> state[t] = "RUNNING"

(* Nobody is left behind: every queued task gets the CPU and every sleeper *)
(* is woken and runs again.                                                *)
TasksProgress == ReadyRuns /\ SleeperWakes
=============================================================================
