------------------------------- MODULE MCSync --------------------------------
(***************************************************************************)
(* Mutex, counting semaphore, kernel threads, interrupt delivery and the   *)
(* linked lists of the scheduler on small instances: more tasks than a     *)
(* waiter list has entries, and as few thread entries and task slots as    *)
(* make reuse necessary.  A behaviour runs one of the five.                *)
(***************************************************************************)
EXTENDS Mutex, SchedLinks

CONSTANTS SEM_WAITER_MAX, InitialCount, MaxPosts,
          Creators, Jobs, Services, KTHREAD_MAX, KTHREAD_TASKS

VARIABLES
  part, count, sem_waiters, sem_pc, posted, taken,
  g_slots_init, fn, kt_pid, state, tpid, kt_next_pid, tpc, tentry, tjob,
  cpc, cjob, centry, ctask, handle, ran, done, joined,
  boot, handlers, pic, lapic_on, redir, irr, isr, iflag, irq_cur, ready, asleep,
  irq_quantum, at, halted

Sem == INSTANCE Semaphore WITH waiters <- sem_waiters, pc <- sem_pc
K == INSTANCE Kthread WITH TASK_MAX <- KTHREAD_TASKS, pid <- kt_pid, g_next_pid <- kt_next_pid
I == INSTANCE Interrupts WITH cur <- irq_cur, g_quantum_left <- irq_quantum

(* What the parts assume of their constants. *)
ASSUME SyncAssumption == Sem!SemAssumption /\ K!KthreadAssumption

MCSleepTimes == {0, 1, 2}

svars == << count, sem_waiters, sem_pc, posted, taken >>

kvars == << g_slots_init, fn, kt_pid, state, tpid, kt_next_pid, tpc, tentry, tjob,
            cpc, cjob, centry, ctask, handle, ran, done, joined >>

ivars == << boot, handlers, pic, lapic_on, redir, irr, isr, iflag, irq_cur, ready, asleep,
            irq_quantum, at, halted >>

SyncInit == /\ part \in {"mutex", "semaphore", "kthread", "irq", "queues"}
            /\ part # "mutex" => cur = 0
            /\ Init /\ Sem!Init /\ K!Init /\ I!Init /\ LinksInit
SyncNext == \/ part = "mutex" /\ Next /\ UNCHANGED << part, svars, kvars, ivars, lvars >>
            \/ part = "semaphore" /\ Sem!Next /\ UNCHANGED << part, vars, kvars, ivars, lvars >>
            \/ part = "kthread" /\ K!Next /\ UNCHANGED << part, vars, svars, ivars, lvars >>
            \/ part = "irq" /\ I!Next /\ UNCHANGED << part, vars, svars, kvars, lvars >>
            \/ part = "queues" /\ LinksNext /\ UNCHANGED << part, vars, svars, kvars, ivars >>

(* The fairness of the modules, each for the part that runs. *)
SyncSpec ==
  /\ SyncInit /\ [][SyncNext]_<< part, vars, svars, kvars, ivars, lvars >>
  /\ WF_vars(part = "mutex" /\ preempt)
  /\ \A p \in Tasks : SF_vars(part = "mutex" /\ Step(p))
  /\ \A p \in Tasks : WF_svars(part = "semaphore" /\ Sem!sem_wait_spin(p))
  /\ \A c \in Creators : WF_kvars(part = "kthread" /\ K!Creating(c))
  /\ \A t \in 1 .. KTHREAD_TASKS : WF_kvars(part = "kthread" /\ K!Running(t))
  /\ WF_ivars(part = "irq" /\ I!Cpu)

-----------------------------------------------------------------------------
(* The semaphore makes and loses no units, and its waiter list, like the   *)
(* mutex's, holds only waiting tasks, also when there are more than it has *)
(* room for.                                                               *)
UnitsConserved == TypeOK /\ Sem!TypeOK /\ Sem!UnitsConserved /\ Sem!WaitersAreWaiting

(* Every started thread finds the entry its creator filled for it, none    *)
(* runs twice, and a join returns only after the exit, with kthread_create *)
(* preempted anywhere and entries and task slots reused.                   *)
ThreadsSound == K!TypeOK /\ (part = "kthread" => K!ThreadsSound)

(* No vector stays in service when its handler is switched away from or    *)
(* missing, and however a task is reached it runs with interrupts on.      *)
InterruptsSound == I!NoVectorStuck /\ I!InterruptsOn

(* Yield-spinning gets somewhere: a free mutex is taken by somebody who    *)
(* waits, a unit by a waiter, a created thread runs its function, and when *)
(* interrupts are requested one is taken.                                  *)
WaitingEnds == SomebodyGetsIn /\ Sem!UnitIsUsed /\ K!CreatedRuns /\ I!RequestsTaken
=============================================================================
