------------------------------- MODULE Kthread -------------------------------
(***************************************************************************)
(* Kernel threads (kernel/kthread.c) over the task table (kernel/task.c).  *)
(* kthread_create hands the thread's function over through an entry of     *)
(* g_slots keyed by PID; the new task's trampoline looks the entry up,     *)
(* frees it and calls the function.                                        *)
(*                                                                         *)
(* Nothing here disables interrupts, so creators and new threads           *)
(* interleave at every access to shared state.  When a task is scheduled   *)
(* is module Sched's business: an added task may run at any time.  A job   *)
(* stands for a (fn, arg) pair; Services are functions that never return   *)
(* (the window manager's loop).                                            *)
(***************************************************************************)
EXTENDS Integers, FiniteSets

CONSTANTS
  Creators,      \* tasks that call kthread_create and kthread_join
  Jobs,          \* what they want run, each once
  Services,      \* the jobs that never finish
  KTHREAD_MAX,   \* entries of g_slots (128)
  TASK_MAX       \* slots of g_tasks free for threads

KthreadAssumption ==
  Services \subseteq Jobs /\ KTHREAD_MAX \in Nat \ {0} /\ TASK_MAX \in Nat \ {0}

Entries == 1 .. KTHREAD_MAX
Tasks   == 1 .. TASK_MAX
Nothing == 0             \* NULL, and the job of an entry never filled
Free    == 0 - 1         \* pid of a free entry

VARIABLES
  g_slots_init,
  fn, pid,               \* g_slots[i].fn (and arg), g_slots[i].pid
  state, tpid,           \* g_tasks[t].state (DEAD or not), g_tasks[t].pid
  g_next_pid,
  tpc, tentry, tjob,     \* the trampoline: its step, entry and function
  cpc, cjob, centry, ctask,  \* each creator: step, job, entry and task
  handle,                \* job -> the handle kthread_create returned
  ran, done,             \* jobs started so far, threads (by job) exited
  joined                 \* jobs whose kthread_join has returned

slotv == << g_slots_init, fn, pid >>
taskv == << state, tpid, g_next_pid >>
trampv == << tpc, tentry, tjob >>
creatorv == << cpc, cjob, centry, ctask >>
ghostv == << ran, done >>
vars == << slotv, taskv, trampv, creatorv, handle, ghostv, joined >>

Init ==
  /\ g_slots_init = FALSE
  /\ fn = [i \in Entries |-> Nothing] /\ pid = [i \in Entries |-> 0]
  /\ state = [t \in Tasks |-> "DEAD"] /\ tpid = [t \in Tasks |-> 0]
  /\ g_next_pid = 2      \* 0 and 1 are the boot task and idle
  /\ tpc = [t \in Tasks |-> "off"]
  /\ tentry = [t \in Tasks |-> Nothing] /\ tjob = [t \in Tasks |-> Nothing]
  /\ cpc = [c \in Creators |-> "idle"]
  /\ cjob = [c \in Creators |-> Nothing]
  /\ centry = [c \in Creators |-> Nothing]
  /\ ctask = [c \in Creators |-> Nothing]
  /\ handle = [j \in Jobs |-> Nothing]
  /\ ran = [j \in Jobs |-> 0] /\ done = {} /\ joined = {}

Least(S) == CHOOSE x \in S : \A y \in S : x <= y
CGoto(c, to) == cpc' = [cpc EXCEPT ![c] = to]
TGoto(t, to) == tpc' = [tpc EXCEPT ![t] = to]

-----------------------------------------------------------------------------
(* kthread_create, step by step. *)

call_create(c, j) ==
  /\ cpc[c] = "idle"
  /\ handle[j] = Nothing /\ \A d \in Creators : cjob[d] # j
  /\ cjob' = [cjob EXCEPT ![c] = j]
  /\ CGoto(c, "slots_init")
  /\ UNCHANGED << slotv, taskv, trampv, centry, ctask, handle, ghostv, joined >>

slots_init(c) ==
  /\ cpc[c] = "slots_init"
  /\ CGoto(c, IF g_slots_init THEN "slot_alloc" ELSE "slots_clear")
  /\ UNCHANGED << slotv, taskv, trampv, cjob, centry, ctask, handle, ghostv,
                  joined >>

slots_clear(c) ==
  /\ cpc[c] = "slots_clear"
  /\ pid' = [i \in Entries |-> Free]
  /\ g_slots_init' = TRUE
  /\ CGoto(c, "slot_alloc")
  /\ UNCHANGED << fn, taskv, trampv, cjob, centry, ctask, handle, ghostv,
                  joined >>

(* Finds an entry and marks nothing. *)
alloc_any_bug(c) == Entries
slot_alloc(c) == { i \in Entries : pid[i] = Free }

(* A create that fails returns KTHREAD_INVALID and leaves no trace. *)
Fail(c) ==
  /\ CGoto(c, "idle") /\ cjob' = [cjob EXCEPT ![c] = Nothing]
  /\ UNCHANGED << slotv, taskv, trampv, centry, ctask, handle, ghostv, joined >>

choose_entry(c) ==
  /\ cpc[c] = "slot_alloc"
  /\ IF slot_alloc(c) = {} THEN Fail(c)
     ELSE /\ centry' = [centry EXCEPT ![c] = Least(slot_alloc(c))]
          /\ CGoto(c, "scan")
          /\ UNCHANGED << slotv, taskv, trampv, cjob, ctask, handle, ghostv,
                          joined >>

(* task_create's scan for a DEAD slot; its kmalloc of the stack, which may *)
(* fail; and, only then, its claim of the slot.                            *)
scan_tasks(c) ==
  /\ cpc[c] = "scan"
  /\ LET dead == { t \in Tasks : state[t] = "DEAD" } IN
     \/ Fail(c)
     \/ /\ dead # {}
        /\ ctask' = [ctask EXCEPT ![c] = Least(dead)]
        /\ CGoto(c, "claim")
        /\ UNCHANGED << slotv, taskv, trampv, cjob, centry, handle, ghostv,
                        joined >>

claim_task(c) ==
  LET t == ctask[c] IN
  /\ cpc[c] = "claim"
  /\ state' = [state EXCEPT ![t] = "READY"]
  /\ tpid' = [tpid EXCEPT ![t] = g_next_pid]
  /\ g_next_pid' = g_next_pid + 1
  /\ TGoto(t, "off")
  /\ CGoto(c, "fill")
  /\ UNCHANGED << slotv, tentry, tjob, cjob, centry, ctask, handle, ghostv,
                  joined >>

(* The three stores that fill the entry, its PID last.  (The entry is no   *)
(* thread's yet: one step stands for them.)                                *)
fill_entry(c) ==
  /\ cpc[c] = "fill"
  /\ fn' = [fn EXCEPT ![centry[c]] = cjob[c]]
  /\ pid' = [pid EXCEPT ![centry[c]] = tpid[ctask[c]]]
  /\ CGoto(c, "add")
  /\ UNCHANGED << g_slots_init, taskv, trampv, cjob, centry, ctask, handle,
                  ghostv, joined >>

(* sched_add, and the return of the handle. *)
create_done(c) ==
  /\ cpc[c] = "add"
  /\ TGoto(ctask[c], "trampoline")
  /\ handle' = [handle EXCEPT ![cjob[c]] = ctask[c]]
  /\ cjob' = [cjob EXCEPT ![c] = Nothing]
  /\ CGoto(c, "idle")
  /\ UNCHANGED << slotv, taskv, tentry, tjob, centry, ctask, ghostv, joined >>

-----------------------------------------------------------------------------
(* kthread_trampoline. *)

Mine(t) == { i \in Entries : pid[i] = tpid[t] }

find_entry(t) ==
  /\ tpc[t] = "trampoline"
  /\ IF Mine(t) = {} THEN TGoto(t, "no_slot") /\ UNCHANGED tentry
     ELSE tentry' = [tentry EXCEPT ![t] = Least(Mine(t))] /\ TGoto(t, "read")
  /\ UNCHANGED << slotv, taskv, tjob, creatorv, handle, ghostv, joined >>

read_entry(t) ==
  /\ tpc[t] = "read" /\ TGoto(t, "release")
  /\ tjob' = [tjob EXCEPT ![t] = fn[tentry[t]]]
  /\ UNCHANGED << slotv, taskv, tentry, creatorv, handle, ghostv, joined >>

release_entry(t) ==
  /\ tpc[t] = "release" /\ TGoto(t, "call")
  /\ pid' = [pid EXCEPT ![tentry[t]] = Free]
  /\ UNCHANGED << g_slots_init, fn, taskv, tentry, tjob, creatorv, handle,
                  ghostv, joined >>

(* fn(arg); a service stays in it. *)
call_fn(t) ==
  /\ tpc[t] = "call"
  /\ TGoto(t, IF tjob[t] \in Services THEN "serving" ELSE "exit")
  /\ ran' = IF tjob[t] \in Jobs THEN [ran EXCEPT ![tjob[t]] = @ + 1] ELSE ran
  /\ UNCHANGED << slotv, taskv, tentry, tjob, creatorv, handle, done, joined >>

(* kthread_exit: sched_exit marks the slot DEAD.  A trampoline without an  *)
(* entry exits too.                                                        *)
kthread_exit(t) ==
  /\ tpc[t] \in {"exit", "no_slot"} /\ TGoto(t, "off")
  /\ state' = [state EXCEPT ![t] = "DEAD"]
  /\ done' = IF tpc[t] = "exit" THEN done \cup {tjob[t]} ELSE done
  /\ UNCHANGED << slotv, tpid, g_next_pid, tentry, tjob, creatorv, handle, ran,
                  joined >>

-----------------------------------------------------------------------------
(* kthread_join by one of the creators, on a handle it has. *)
call_join(c, j) ==
  /\ cpc[c] = "idle" /\ handle[j] # Nothing /\ j \notin joined
  /\ cjob' = [cjob EXCEPT ![c] = j]
  /\ CGoto(c, "join")
  /\ UNCHANGED << slotv, taskv, trampv, centry, ctask, handle, ghostv, joined >>

(* The handle is the address of the task slot; the test looks at nothing   *)
(* else.                                                                   *)
join_over(t) == state[t] = "DEAD"

kthread_join(c) ==
  /\ cpc[c] = "join"
  /\ join_over(handle[cjob[c]])
  /\ joined' = joined \cup {cjob[c]}
  /\ cjob' = [cjob EXCEPT ![c] = Nothing]
  /\ CGoto(c, "idle")
  /\ UNCHANGED << slotv, taskv, trampv, centry, ctask, handle, ghostv >>

Running(t) == \/ find_entry(t) \/ read_entry(t) \/ release_entry(t)
              \/ call_fn(t) \/ kthread_exit(t)
Creating(c) == \/ slots_init(c) \/ slots_clear(c) \/ choose_entry(c)
               \/ scan_tasks(c) \/ claim_task(c) \/ fill_entry(c)
               \/ create_done(c) \/ kthread_join(c)

Next ==
  \/ \E c \in Creators : Creating(c)
  \/ \E c \in Creators, j \in Jobs : call_create(c, j) \/ call_join(c, j)
  \/ \E t \in Tasks : Running(t)

Spec == Init /\ [][Next]_vars

(* The scheduler runs every creator and every thread again and again. *)
FairSpec ==
  /\ Spec
  /\ \A c \in Creators : WF_vars(Creating(c))
  /\ \A t \in Tasks : WF_vars(Running(t))

-----------------------------------------------------------------------------
(* Types of every variable. *)
TypeOK ==
  /\ g_slots_init \in BOOLEAN
  /\ \A i \in Entries : fn[i] \in Jobs \cup {Nothing} /\ pid[i] \in Nat \cup {Free}
  /\ \A t \in Tasks : /\ state[t] \in {"DEAD", "READY"} /\ tpid[t] \in Nat
                      /\ tentry[t] \in Entries \cup {Nothing}
                      /\ tjob[t] \in Jobs \cup {Nothing}
                      /\ tpc[t] \in {"off", "trampoline", "no_slot", "read",
                                     "release", "call", "serving", "exit"}
  /\ \A c \in Creators : /\ centry[c] \in Entries \cup {Nothing}
                         /\ ctask[c] \in Tasks \cup {Nothing}
                         /\ cjob[c] \in Jobs \cup {Nothing}
  /\ \A j \in Jobs : handle[j] \in Tasks \cup {Nothing} /\ ran[j] \in Nat
  /\ g_next_pid \in Nat /\ done \subseteq Jobs /\ joined \subseteq Jobs

(* Every started thread finds the entry its creator filled for it ("We     *)
(* find our slot by scanning for our own PID").                            *)
TrampolineFindsSlot == \A t \in Tasks : tpc[t] # "no_slot"

(* No job is started twice, whatever is reused in between. *)
RunsAtMostOnce == \A j \in Jobs : ran[j] <= 1

(* kthread_join returns only after the thread of the handle has exited,    *)
(* though the slot behind the handle may have been given to others.        *)
JoinAfterExit == joined \subseteq done

(* Entries, task slots and handles are reused without mixing threads up.   *)
ThreadsSound == TrampolineFindsSlot /\ RunsAtMostOnce /\ JoinAfterExit

(* A created thread runs its function. *)
CreatedRuns == \A j \in Jobs : handle[j] # Nothing ~> ran[j] = 1
=============================================================================
