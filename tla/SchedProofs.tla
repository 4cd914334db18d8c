----------------------------- MODULE SchedProofs -----------------------------
(***************************************************************************)
(* Proofs about module Sched: the inductive invariant behind its safety    *)
(* properties, for any number of tasks, quantum, sleep times and bounds.   *)
(***************************************************************************)
EXTENDS Sched, FiniteSetTheorems, TLAPS

-----------------------------------------------------------------------------
(* Queues of distinct tasks. *)

(* Appending adds one member, and keeps the queue distinct if it is new.   *)
LEMMA AppendQueue ==
  ASSUME NEW S, NEW s \in Seq(S), NEW x \in S
  PROVE  /\ Append(s, x) \in Seq(S)
         /\ Append(s, x) # << >>
         /\ \A t : In(t, Append(s, x)) <=> In(t, s) \/ t = x
         /\ Distinct(s) /\ ~In(x, s) => Distinct(Append(s, x))
<1> DEFINE r == Append(s, x)
<1>1. /\ r \in Seq(S) /\ Len(r) = Len(s) + 1 /\ r[Len(r)] = x
      /\ \A i \in 1 .. Len(s) : r[i] = s[i]
  OBVIOUS
<1>2. \A t : In(t, r) <=> In(t, s) \/ t = x
  <2> SUFFICES ASSUME NEW t PROVE In(t, r) <=> In(t, s) \/ t = x
    OBVIOUS
  <2> HIDE DEF r
  <2> Len(s) \in Nat
    OBVIOUS
  <2> QED  BY <1>1 DEF In
<1>3. Distinct(s) /\ ~In(x, s) => Distinct(r)
  <2> HIDE DEF r
  <2> Len(s) \in Nat
    OBVIOUS
  <2> QED  BY <1>1 DEF In, Distinct
<1> QED  BY <1>1, <1>2, <1>3

(* Popping the head removes exactly it. *)
LEMMA TailQueue ==
  ASSUME NEW S, NEW s \in Seq(S), s # << >>, Distinct(s)
  PROVE  /\ Head(s) \in S /\ Tail(s) \in Seq(S)
         /\ In(Head(s), s)
         /\ Distinct(Tail(s))
         /\ \A t : In(t, Tail(s)) <=> In(t, s) /\ t # Head(s)
<1> DEFINE r == Tail(s)
<1>1. /\ Head(s) \in S /\ r \in Seq(S) /\ Len(s) \in Nat /\ Len(s) >= 1
      /\ Len(r) = Len(s) - 1 /\ Head(s) = s[1]
      /\ \A i \in 1 .. Len(r) : r[i] = s[i + 1]
  OBVIOUS
<1>2. In(Head(s), s)
  BY <1>1 DEF In
<1> HIDE DEF r
<1>3. Distinct(r)
  BY <1>1 DEF Distinct
<1>4. ASSUME NEW t PROVE In(t, r) <=> In(t, s) /\ t # Head(s)
  <2>1. ASSUME In(t, r) PROVE In(t, s) /\ t # Head(s)
    BY <1>1, <2>1 DEF In, Distinct
  <2>2. ASSUME In(t, s), t # Head(s) PROVE In(t, r)
    <3>1. PICK i \in 1 .. Len(s) : s[i] = t
      BY <2>2 DEF In
    <3>2. i - 1 \in 1 .. Len(r) /\ r[i - 1] = s[i]
      BY <1>1, <2>2, <3>1
    <3> QED  BY <3>1, <3>2 DEF In
  <2> QED  BY <2>1, <2>2
<1> QED  BY <1>1, <1>2, <1>3, <1>4 DEF r

(* Concatenating disjoint queues. *)
LEMMA CatQueue ==
  ASSUME NEW S, NEW s \in Seq(S), NEW u \in Seq(S)
  PROVE  /\ s \o u \in Seq(S)
         /\ \A t : In(t, s \o u) <=> In(t, s) \/ In(t, u)
         /\ Distinct(s) /\ Distinct(u) /\ (\A t : ~(In(t, s) /\ In(t, u)))
              => Distinct(s \o u)
<1> DEFINE r == s \o u
<1>1. /\ r \in Seq(S) /\ Len(s) \in Nat /\ Len(u) \in Nat
      /\ Len(r) = Len(s) + Len(u)
      /\ \A i \in 1 .. Len(s) : r[i] = s[i]
      /\ \A i \in 1 .. Len(r) : i > Len(s) => r[i] = u[i - Len(s)]
  OBVIOUS
<1> HIDE DEF r
<1>2. ASSUME NEW t PROVE In(t, r) <=> In(t, s) \/ In(t, u)
  <2>1. ASSUME In(t, u) PROVE In(t, r)
    <3>1. PICK i \in 1 .. Len(u) : u[i] = t
      BY <2>1 DEF In
    <3>2. i + Len(s) \in 1 .. Len(r) /\ r[i + Len(s)] = u[i]
      BY <1>1
    <3> QED  BY <3>1, <3>2 DEF In
  <2>2. ASSUME In(t, r) PROVE In(t, s) \/ In(t, u)
    <3>1. PICK i \in 1 .. Len(r) : r[i] = t
      BY <2>2 DEF In
    <3>2. CASE i <= Len(s)
      BY <1>1, <3>1, <3>2 DEF In
    <3>3. CASE i > Len(s)
      <4>1. i - Len(s) \in 1 .. Len(u) /\ u[i - Len(s)] = t
        BY <1>1, <3>1, <3>3
      <4> QED  BY <4>1 DEF In
    <3> QED  BY <1>1, <3>2, <3>3
  <2> QED  BY <1>1, <2>1, <2>2 DEF In
<1>3. ASSUME Distinct(s), Distinct(u), \A t : ~(In(t, s) /\ In(t, u))
      PROVE  Distinct(r)
  <2> SUFFICES ASSUME NEW i \in 1 .. Len(r), NEW j \in 1 .. Len(r), r[i] = r[j]
               PROVE  i = j
    BY DEF Distinct
  <2>1. CASE i <= Len(s) /\ j <= Len(s)
    BY <1>1, <1>3, <2>1 DEF Distinct
  <2>2. CASE i > Len(s) /\ j > Len(s)
    <3>1. /\ i - Len(s) \in 1 .. Len(u) /\ j - Len(s) \in 1 .. Len(u)
          /\ u[i - Len(s)] = u[j - Len(s)]
      BY <1>1, <2>2
    <3>2. i - Len(s) = j - Len(s)
      BY <1>3, <3>1 DEF Distinct
    <3> QED  BY <1>1, <3>2
  <2>3. CASE i <= Len(s) /\ j > Len(s)
    <3>1. j - Len(s) \in 1 .. Len(u) /\ r[j] = u[j - Len(s)] /\ r[i] = s[i]
      BY <1>1, <2>3
    <3>2. i \in 1 .. Len(s)
      BY <1>1, <2>3
    <3>3. In(r[i], s) /\ In(r[j], u)
      BY <3>1, <3>2 DEF In
    <3> QED  BY <1>3, <3>3
  <2>4. CASE i > Len(s) /\ j <= Len(s)
    <3>1. i - Len(s) \in 1 .. Len(u) /\ r[i] = u[i - Len(s)] /\ r[j] = s[j]
      BY <1>1, <2>4
    <3>2. j \in 1 .. Len(s)
      BY <1>1, <2>4
    <3>3. In(r[j], s) /\ In(r[i], u)
      BY <3>1, <3>2 DEF In
    <3> QED  BY <1>3, <3>3
  <2> QED  BY <1>1, <2>1, <2>2, <2>3, <2>4
<1> QED  BY <1>1, <1>2, <1>3 DEF r

(* An enumeration in queue order holds the set, each element once. *)
LEMMA InOrderQueue ==
  ASSUME NEW s \in Seq(Slots), Distinct(s), NEW T \in SUBSET Slots,
         NEW q \in InOrder(s, T)
  PROVE  /\ q \in Seq(Slots)
         /\ Distinct(q)
         /\ \A t : In(t, q) <=> t \in T
<1>1. Cardinality(T) \in Nat
  <2>1. IsFiniteSet(Slots)
    BY SchedAssumption, FS_Interval DEF Slots
  <2> QED  BY <2>1, FS_Subset, FS_CardinalityType
<1> DEFINE n == Cardinality(T)
<1>2. /\ q \in [1 .. n -> T]
      /\ \A t \in T : \E i \in 1 .. n : q[i] = t
      /\ \A i, j \in 1 .. n : i < j => Before(s, q[i], q[j])
  BY DEF InOrder
<1> HIDE DEF n
<1>3. n \in Nat
  BY <1>1 DEF n
<1>4. q \in Seq(Slots) /\ Len(q) = n
  BY <1>2, <1>3
<1>5. ASSUME NEW a, NEW b, Before(s, a, b) PROVE a # b
  BY <1>5 DEF Before, Distinct
<1>6. Distinct(q)
  <2> SUFFICES ASSUME NEW i \in 1 .. n, NEW j \in 1 .. n, q[i] = q[j], i # j
               PROVE  FALSE
    BY <1>4 DEF Distinct
  <2>1. i < j \/ j < i
    BY <1>3
  <2> QED  BY <1>2, <1>5, <2>1
<1>7. \A t : In(t, q) <=> t \in T
  BY <1>2, <1>4 DEF In
<1> QED  BY <1>4, <1>6, <1>7

-----------------------------------------------------------------------------
(* What each phase of the boot leaves: no queue before sched_init, no      *)
(* current task before task_init.                                          *)
BootState ==
  /\ phase # "up" => ready = << >> /\ sleepq = << >> /\ pending = {}
  /\ phase = "sti" => /\ g_current = NoTask
                      /\ state = [t \in Slots |-> "DEAD"]
  /\ phase = "task_init" =>
       /\ g_current = Kmain /\ g_next_pid = 1 /\ pid = [t \in Slots |-> 0]
       /\ state = [t \in Slots |-> IF t = Kmain THEN "RUNNING" ELSE "DEAD"]
  /\ phase = "up" => g_current \in Slots

(* The inductive invariant. *)
IInv ==
  /\ TypeOK
  /\ BootState
  /\ TaskAccounting
  /\ SomebodyToRun
  /\ NoOversleep
  /\ ExpiredOnlyAlone
  /\ LivePidsUnique

(* What do_switch's callers leave behind: task states st and ready queue   *)
(* rq that agree, with a successor in rq unless the current task may go on.*)
SwitchReady(st, rq) ==
  /\ st \in [Slots -> TaskState] /\ rq \in Seq(Slots) /\ Distinct(rq)
  /\ g_current \in Slots /\ ~In(g_current, rq)
  /\ pending \subseteq Slots /\ g_current \notin pending
  /\ \A t \in Slots : /\ st[t] = "READY" <=> In(t, rq) \/ t \in pending
                      /\ ~(In(t, rq) /\ t \in pending)
                      /\ st[t] = "RUNNING" => t = g_current
  /\ st[g_current] = "RUNNING" \/ rq # << >>
  /\ In(Idle, rq) \/ (g_current = Idle /\ st[Idle] = "RUNNING")

(* do_switch keeps the accounting: it dispatches the head of the queue,    *)
(* puts the preempted task back and moves nobody else.                     *)
LEMMA SwitchKeeps ==
  ASSUME NEW st, NEW rq, SwitchReady(st, rq), do_switch(st, rq)
  PROVE  /\ state' \in [Slots -> TaskState] /\ ready' \in Seq(Slots)
         /\ Distinct(ready')
         /\ g_current' \in Slots
         /\ g_quantum_left' \in 0 .. SCHED_TICK_QUANTUM
         /\ g_quantum_left' = 0 => ready' = << >>
         /\ g_current' = Idle \/ In(Idle, ready')
         /\ \A t \in Slots :
              /\ state'[t] = "READY" <=> In(t, ready') \/ t \in pending
              /\ ~(In(t, ready') /\ t \in pending)
              /\ state'[t] = "RUNNING" <=> t = g_current'
              /\ state'[t] = "SLEEPING" <=> st[t] = "SLEEPING"
              /\ state'[t] = "DEAD" <=> st[t] = "DEAD"
<1>q. SCHED_TICK_QUANTUM \in Nat /\ SCHED_TICK_QUANTUM > 0
  BY SchedAssumption
<1>1. CASE rq = << >>
  BY <1>1, <1>q DEF SwitchReady, do_switch, In
<1>2. CASE rq # << >>
  <2> DEFINE h == Head(rq)  tl == Tail(rq)
  <2>1. /\ h \in Slots /\ tl \in Seq(Slots) /\ Distinct(tl) /\ In(h, rq)
        /\ \A t : In(t, tl) <=> In(t, rq) /\ t # h
    BY <1>2, TailQueue DEF SwitchReady
  <2>2. h # g_current /\ st[h] = "READY" /\ h \notin pending
    BY <2>1 DEF SwitchReady
  <2>3. CASE st[g_current] = "RUNNING"
    <3>1. /\ state' = [st EXCEPT ![g_current] = "READY", ![h] = "RUNNING"]
          /\ ready' = Append(tl, g_current)
          /\ g_current' = h /\ g_quantum_left' = SCHED_TICK_QUANTUM
      BY <1>2, <2>2, <2>3 DEF do_switch, requeue_current, rq_push_back,
                              fresh_quantum
    <3>2. g_current \in Slots /\ ~In(g_current, tl)
      BY <2>1 DEF SwitchReady
    <3>3. /\ ready' \in Seq(Slots) /\ Distinct(ready')
          /\ \A t : In(t, ready') <=> In(t, tl) \/ t = g_current
      BY <2>1, <3>1, <3>2, AppendQueue
    <3>4. /\ state' \in [Slots -> TaskState]
          /\ \A t \in Slots : state'[t] = IF t = h THEN "RUNNING"
                            ELSE IF t = g_current THEN "READY" ELSE st[t]
      BY <2>1, <2>2, <3>1 DEF SwitchReady, TaskState
    <3>5. g_current' = Idle \/ In(Idle, ready')
      BY <2>1, <3>1, <3>3 DEF SwitchReady
    <3> HIDE DEF h, tl
    <3> QED  BY <1>q, <2>1, <2>2, <2>3, <3>1, <3>3, <3>4, <3>5 DEF SwitchReady
  <2>4. CASE st[g_current] # "RUNNING"
    <3>1. /\ state' = [st EXCEPT ![h] = "RUNNING"]
          /\ ready' = tl
          /\ g_current' = h /\ g_quantum_left' = SCHED_TICK_QUANTUM
      BY <1>2, <2>2, <2>4 DEF do_switch, requeue_current, fresh_quantum
    <3>2. /\ state' \in [Slots -> TaskState]
          /\ \A t \in Slots : state'[t] = IF t = h THEN "RUNNING" ELSE st[t]
      BY <2>1, <3>1 DEF SwitchReady, TaskState
    <3>3. g_current' = Idle \/ In(Idle, ready')
      BY <2>1, <2>4, <3>1 DEF SwitchReady
    <3> HIDE DEF h, tl
    <3> QED  BY <1>q, <2>1, <2>2, <2>4, <3>1, <3>2, <3>3 DEF SwitchReady
  <2> QED  BY <2>3, <2>4
<1> QED  BY <1>1, <1>2

-----------------------------------------------------------------------------
(* The boot state satisfies the invariant. *)
LEMMA InitInv == Init => IInv
<1> SUFFICES ASSUME Init PROVE IInv
  OBVIOUS
<1>1. SCHED_TICK_QUANTUM \in Nat /\ TASK_MAX \in Nat /\ TASK_MAX >= 2
  BY SchedAssumption
<1>2. \A t : ~In(t, << >>)
  BY DEF In
<1>3. Distinct(<< >>)
  BY DEF Distinct
<1>4. \A t \in Slots : t # NoTask
  BY <1>1 DEF Slots, NoTask
<1>5. TypeOK
  BY <1>1 DEF Init, TypeOK, TaskState
<1>6. TaskAccounting
  BY <1>2, <1>3, <1>4 DEF Init, TaskAccounting
<1> QED  BY <1>2, <1>5, <1>6 DEF Init, IInv, BootState, SomebodyToRun,
              NoOversleep, ExpiredOnlyAlone, LivePidsUnique

(* task_init and sched_init: the boot task runs, then idle is queued. *)
LEMMA BootSteps ==
  ASSUME IInv, task_init \/ sched_init
  PROVE  IInv'
<1>0. /\ TASK_MAX \in Nat /\ TASK_MAX >= 2 /\ SCHED_TICK_QUANTUM \in Nat
      /\ SCHED_TICK_QUANTUM > 0
      /\ Kmain \in Slots /\ Idle \in Slots /\ Kmain # Idle /\ Kmain # NoTask
  BY SchedAssumption DEF Slots, Kmain, Idle, NoTask
<1>e. (\A t : ~In(t, << >>)) /\ Distinct(<< >>)
  BY DEF In, Distinct
<1>1. CASE task_init
  <2>1. ready = << >> /\ sleepq = << >> /\ pending = {}
    BY <1>1 DEF IInv, BootState, task_init
  <2>2. TypeOK'
    BY <1>0, <1>1 DEF IInv, TypeOK, task_init, TaskState
  <2>3. TaskAccounting'
    BY <1>0, <1>1, <1>e, <2>1 DEF task_init, TaskAccounting
  <2>4. BootState'
    BY <1>1, <2>1 DEF task_init, BootState
  <2>5. SomebodyToRun' /\ ExpiredOnlyAlone' /\ LivePidsUnique'
    BY <1>1 DEF task_init, SomebodyToRun, ExpiredOnlyAlone, LivePidsUnique
  <2>6. NoOversleep'
    BY <1>1, <1>e, <2>1 DEF task_init, NoOversleep
  <2> QED  BY <2>2, <2>3, <2>4, <2>5, <2>6 DEF IInv
<1>2. CASE sched_init
  <2>1. /\ sleepq = << >> /\ pending = {} /\ g_current = Kmain
        /\ g_next_pid = 1 /\ pid = [t \in Slots |-> 0]
        /\ state = [t \in Slots |-> IF t = Kmain THEN "RUNNING" ELSE "DEAD"]
    BY <1>2 DEF IInv, BootState, sched_init
  <2>2. /\ << Idle >> \in Seq(Slots) /\ Distinct(<< Idle >>)
        /\ \A t : In(t, << Idle >>) <=> t = Idle
    BY <1>0 DEF In, Distinct
  <2>3. TypeOK'
    BY <1>0, <1>2, <2>2 DEF IInv, TypeOK, sched_init, TaskState, pid_after
  <2>4. TaskAccounting'
    BY <1>0, <1>2, <1>e, <2>1, <2>2 DEF sched_init, TaskAccounting
  <2>5. BootState'
    BY <1>0, <1>2, <2>1 DEF sched_init, BootState
  <2>6. SomebodyToRun' /\ ExpiredOnlyAlone'
    BY <1>0, <1>2, <2>2 DEF sched_init, SomebodyToRun, ExpiredOnlyAlone
  <2>7. LivePidsUnique'
    BY <1>0, <1>2, <2>1 DEF sched_init, LivePidsUnique, pid_after
  <2>8. NoOversleep'
    BY <1>2, <1>e DEF sched_init, NoOversleep
  <2> QED  BY <2>3, <2>4, <2>5, <2>6, <2>7, <2>8 DEF IInv
<1> QED  BY <1>1, <1>2

(* task_create, sched_add and task_destroy of a task not yet added. *)
LEMMA CreationSteps ==
  ASSUME IInv,
         \/ \E s \in Slots : task_create(s)
         \/ \E t \in pending : sched_add(t)
         \/ \E t \in pending : task_destroy(t)
  PROVE  IInv'
<1>0. phase = "up" /\ g_current \in Slots
  BY DEF IInv, BootState, task_create, sched_add, task_destroy, CanAct
<1>1. ASSUME NEW s \in Slots, task_create(s) PROVE IInv'
  <2>1. ~In(s, ready) /\ ~In(s, sleepq) /\ s \notin pending /\ s # g_current
    BY <1>1 DEF IInv, TaskAccounting, task_create
  <2>2. TypeOK'
    BY <1>1 DEF IInv, TypeOK, task_create, TaskState, pid_after
  <2>3. TaskAccounting'
    BY <1>1, <2>1 DEF IInv, TypeOK, TaskAccounting, task_create
  <2>4. BootState' /\ SomebodyToRun' /\ ExpiredOnlyAlone'
    BY <1>0, <1>1 DEF IInv, BootState, SomebodyToRun, ExpiredOnlyAlone,
                      task_create
  <2>5. LivePidsUnique'
    BY <1>0, <1>1 DEF IInv, TypeOK, LivePidsUnique, task_create, pid_after
  <2>6. NoOversleep'
    BY <1>1, <2>1 DEF IInv, TypeOK, NoOversleep, task_create
  <2> QED  BY <2>2, <2>3, <2>4, <2>5, <2>6 DEF IInv
<1>2. ASSUME NEW t \in pending, sched_add(t) PROVE IInv'
  <2>1. t \in Slots /\ ready \in Seq(Slots) /\ Distinct(ready) /\ ~In(t, ready)
    BY DEF IInv, TypeOK, TaskAccounting
  <2>2. /\ ready' \in Seq(Slots) /\ Distinct(ready')
        /\ \A u : In(u, ready') <=> In(u, ready) \/ u = t
    BY <1>2, <2>1, AppendQueue DEF sched_add, rq_push_back
  <2>3. state' = state
    BY <1>2, <2>1 DEF IInv, TypeOK, TaskAccounting, sched_add
  <2>4. TypeOK'
    BY <1>2, <2>2, <2>3 DEF IInv, TypeOK, sched_add
  <2>5. TaskAccounting'
    BY <1>2, <2>1, <2>2, <2>3 DEF IInv, TypeOK, TaskAccounting, sched_add
  <2>6. BootState' /\ SomebodyToRun'
    BY <1>0, <1>2, <2>2, <2>3 DEF IInv, BootState, SomebodyToRun, sched_add
  <2>7. ExpiredOnlyAlone'
    <3>1. ready # << >>
      BY <1>0, <1>2 DEF IInv, SomebodyToRun, In, CanAct, sched_add
    <3> QED  BY <1>0, <1>2, <3>1 DEF IInv, ExpiredOnlyAlone, sched_add
  <2>8. LivePidsUnique' /\ NoOversleep'
    BY <1>2, <2>3 DEF IInv, LivePidsUnique, NoOversleep, sched_add
  <2> QED  BY <2>4, <2>5, <2>6, <2>7, <2>8 DEF IInv
<1>3. ASSUME NEW t \in pending, task_destroy(t) PROVE IInv'
  <2>1. /\ t \in Slots /\ ~In(t, ready) /\ ~In(t, sleepq) /\ t # g_current
        /\ state[t] = "READY"
    BY DEF IInv, TypeOK, TaskAccounting
  <2>2. TypeOK'
    BY <1>3 DEF IInv, TypeOK, task_destroy, TaskState
  <2>3. TaskAccounting'
    BY <1>3, <2>1 DEF IInv, TypeOK, TaskAccounting, task_destroy
  <2>4. BootState' /\ SomebodyToRun' /\ ExpiredOnlyAlone'
    BY <1>0, <1>3 DEF IInv, BootState, SomebodyToRun, ExpiredOnlyAlone,
                      task_destroy
  <2>5. LivePidsUnique' /\ NoOversleep'
    BY <1>0, <1>3, <2>1 DEF IInv, TypeOK, LivePidsUnique, NoOversleep,
                            task_destroy
  <2> QED  BY <2>2, <2>3, <2>4, <2>5 DEF IInv
<1> QED  BY <1>1, <1>2, <1>3

(* The parts of the invariant a switch settles, whichever action makes it. *)
LEMMA SwitchInv ==
  ASSUME IInv, phase = "up", phase' = phase, pending' = pending,
         NEW st, NEW rq, SwitchReady(st, rq), do_switch(st, rq),
         sleepq' \in Seq(Slots), Distinct(sleepq'),
         \A t \in Slots : st[t] = "SLEEPING" <=> In(t, sleepq'),
         wake_tick' \in [Slots -> Nat], g_ticks' \in Nat,
         \A t \in Slots : In(t, sleepq') => wake_tick'[t] >= g_ticks',
         pid' = pid, g_next_pid' = g_next_pid,
         \A t \in Slots : state[t] = "DEAD" => st[t] = "DEAD"
  PROVE  IInv'
<1>1. /\ state' \in [Slots -> TaskState] /\ ready' \in Seq(Slots)
      /\ Distinct(ready')
      /\ g_current' \in Slots
      /\ g_quantum_left' \in 0 .. SCHED_TICK_QUANTUM
      /\ g_quantum_left' = 0 => ready' = << >>
      /\ g_current' = Idle \/ In(Idle, ready')
      /\ \A t \in Slots :
           /\ state'[t] = "READY" <=> In(t, ready') \/ t \in pending
           /\ ~(In(t, ready') /\ t \in pending)
           /\ state'[t] = "RUNNING" <=> t = g_current'
           /\ state'[t] = "SLEEPING" <=> st[t] = "SLEEPING"
           /\ state'[t] = "DEAD" <=> st[t] = "DEAD"
  BY SwitchKeeps
<1>2. TypeOK'
  BY <1>1 DEF IInv, TypeOK
<1>3. TaskAccounting'
  BY <1>1 DEF TaskAccounting
<1>4. BootState' /\ SomebodyToRun' /\ ExpiredOnlyAlone'
  BY <1>1 DEF BootState, SomebodyToRun, ExpiredOnlyAlone
<1>5. NoOversleep'
  BY DEF NoOversleep
<1>6. LivePidsUnique'
  BY <1>1 DEF IInv, LivePidsUnique
<1> QED  BY <1>2, <1>3, <1>4, <1>5, <1>6 DEF IInv

(* sched_yield, sched_sleep and sched_exit of the running task. *)
LEMMA RunningSteps ==
  ASSUME IInv,
         \/ sched_yield
         \/ \E ms \in SleepTimes : sched_sleep(ms)
         \/ sched_exit
  PROVE  IInv'
<1>0. /\ phase = "up" /\ g_current \in Slots /\ g_current # Idle
      /\ In(Idle, ready) /\ ready # << >>
      /\ ~In(g_current, ready) /\ ~In(g_current, sleepq)
      /\ g_current \notin pending /\ state[g_current] = "RUNNING"
      /\ Idle \in Slots
  <2>1. phase = "up" /\ g_current # Idle
    BY DEF sched_yield, sched_sleep, sched_exit, CanAct
  <2>2. g_current \in Slots /\ In(Idle, ready)
    BY <2>1 DEF IInv, BootState, SomebodyToRun
  <2>3. ready # << >>
    BY <2>2 DEF In
  <2>4. Idle \in Slots
    BY SchedAssumption DEF Idle, Slots
  <2> QED  BY <2>1, <2>2, <2>3, <2>4 DEF IInv, TaskAccounting
<1>1. CASE sched_yield
  <2>1. SwitchReady(state, ready)
    BY <1>0 DEF SwitchReady, IInv, TypeOK, TaskAccounting
  <2>2. /\ do_switch(state, ready)
        /\ phase' = phase /\ pending' = pending /\ sleepq' = sleepq
        /\ wake_tick' = wake_tick /\ g_ticks' = g_ticks
        /\ pid' = pid /\ g_next_pid' = g_next_pid
    BY <1>1 DEF sched_yield
  <2>3. /\ sleepq \in Seq(Slots) /\ Distinct(sleepq)
        /\ wake_tick \in [Slots -> Nat] /\ g_ticks \in Nat
        /\ \A t \in Slots : state[t] = "SLEEPING" <=> In(t, sleepq)
        /\ \A t \in Slots : In(t, sleepq) => wake_tick[t] >= g_ticks
    BY DEF IInv, TypeOK, TaskAccounting, NoOversleep
  <2> QED  BY <1>0, <2>1, <2>2, <2>3, SwitchInv
<1>2. ASSUME NEW ms \in SleepTimes, sched_sleep(ms) PROVE IInv'
  <2> DEFINE st == [state EXCEPT ![g_current] = "SLEEPING"]
  <2>1. /\ st \in [Slots -> TaskState]
        /\ \A t \in Slots : st[t] = IF t = g_current THEN "SLEEPING"
                                                     ELSE state[t]
    BY <1>0 DEF IInv, TypeOK, TaskState
  <2> HIDE DEF st
  <2>2. SwitchReady(st, ready)
    BY <1>0, <2>1 DEF SwitchReady, IInv, TypeOK, TaskAccounting
  <2>3. /\ do_switch(st, ready) /\ sleepq' = << g_current >> \o sleepq
        /\ wake_tick' = [wake_tick EXCEPT ![g_current] = g_ticks + ms]
        /\ phase' = phase /\ pending' = pending /\ g_ticks' = g_ticks
        /\ pid' = pid /\ g_next_pid' = g_next_pid
    BY <1>2 DEF sched_sleep, st
  <2> DEFINE me == << g_current >>
  <2>4. me \in Seq(Slots) /\ Distinct(me) /\ \A t : In(t, me) <=> t = g_current
    BY <1>0 DEF In, Distinct
  <2>5. sleepq \in Seq(Slots) /\ Distinct(sleepq)
    BY DEF IInv, TypeOK, TaskAccounting
  <2>6. /\ sleepq' \in Seq(Slots) /\ Distinct(sleepq')
        /\ \A t : In(t, sleepq') <=> t = g_current \/ In(t, sleepq)
    <3> HIDE DEF me
    <3>1. sleepq' = me \o sleepq
      BY <2>3 DEF me
    <3>2. \A t : ~(In(t, me) /\ In(t, sleepq))
      BY <1>0, <2>4
    <3> QED  BY <2>4, <2>5, <3>1, <3>2, CatQueue
  <2>7. ms \in Nat /\ g_ticks \in Nat /\ wake_tick \in [Slots -> Nat]
    BY SchedAssumption DEF IInv, TypeOK
  <2>8. /\ wake_tick' \in [Slots -> Nat] /\ g_ticks' \in Nat
        /\ \A t \in Slots : In(t, sleepq') => wake_tick'[t] >= g_ticks'
    <3> DEFINE w == g_ticks + ms
    <3>1. wake_tick' = [wake_tick EXCEPT ![g_current] = w] /\ g_ticks' = g_ticks
      BY <2>3
    <3>2. w \in Nat /\ w >= g_ticks
      BY <2>7
    <3> HIDE DEF w
    <3>3. wake_tick' \in [Slots -> Nat]
      BY <2>7, <3>1, <3>2
    <3>4. \A t \in Slots : wake_tick'[t] = IF t = g_current THEN w
                                                          ELSE wake_tick[t]
      BY <2>7, <3>1
    <3>5. \A t \in Slots : In(t, sleepq) => wake_tick[t] >= g_ticks
      BY DEF IInv, NoOversleep
    <3>6. \A t \in Slots : In(t, sleepq') => wake_tick'[t] >= g_ticks
      BY <2>6, <3>2, <3>4, <3>5
    <3> QED  BY <2>7, <3>1, <3>3, <3>6
  <2>9. /\ \A t \in Slots : st[t] = "SLEEPING" <=> In(t, sleepq')
        /\ \A t \in Slots : state[t] = "DEAD" => st[t] = "DEAD"
    BY <1>0, <2>1, <2>6 DEF IInv, TaskAccounting
  <2> QED  BY <1>0, <2>2, <2>3, <2>6, <2>8, <2>9, SwitchInv
<1>3. CASE sched_exit
  <2> DEFINE st == [state EXCEPT ![g_current] = "DEAD"]
  <2>1. /\ st \in [Slots -> TaskState]
        /\ \A t \in Slots : st[t] = IF t = g_current THEN "DEAD" ELSE state[t]
    BY <1>0 DEF IInv, TypeOK, TaskState
  <2> HIDE DEF st
  <2>2. SwitchReady(st, ready)
    BY <1>0, <2>1 DEF SwitchReady, IInv, TypeOK, TaskAccounting
  <2>3. /\ do_switch(st, ready)
        /\ phase' = phase /\ pending' = pending /\ sleepq' = sleepq
        /\ wake_tick' = wake_tick /\ g_ticks' = g_ticks
        /\ pid' = pid /\ g_next_pid' = g_next_pid
    BY <1>3 DEF sched_exit, st
  <2>4. /\ sleepq \in Seq(Slots) /\ Distinct(sleepq)
        /\ wake_tick \in [Slots -> Nat] /\ g_ticks \in Nat
        /\ \A t \in Slots : In(t, sleepq) => wake_tick[t] >= g_ticks
    BY DEF IInv, TypeOK, TaskAccounting, NoOversleep
  <2>5. /\ \A t \in Slots : st[t] = "SLEEPING" <=> In(t, sleepq)
        /\ \A t \in Slots : state[t] = "DEAD" => st[t] = "DEAD"
    BY <1>0, <2>1 DEF IInv, TaskAccounting
  <2> QED  BY <1>0, <2>2, <2>3, <2>4, <2>5, SwitchInv
<1> QED  BY <1>1, <1>2, <1>3

(* The tick: wakes the due sleepers in order, then may switch. *)
LEMMA TickStep ==
  ASSUME IInv, pit_irq
  PROVE  IInv'
<1> DEFINE due == sq_wake_due(pit_tick)
           asleep == { t \in Slots : In(t, sleepq) } \ due
           st == [t \in Slots |-> IF t \in due THEN "READY" ELSE state[t]]
<1>1. PICK woken \in InOrder(sleepq, due), rest \in InOrder(sleepq, asleep) :
        /\ sleepq' = rest
        /\ IF quantum_tick = 0
           THEN do_switch(st, ready \o woken)
           ELSE /\ state' = st /\ ready' = ready \o woken
                /\ g_quantum_left' = quantum_tick
                /\ g_current' = g_current
  BY DEF pit_irq
<1>2. /\ g_ticks' = pit_tick /\ phase' = phase /\ pid' = pid
      /\ wake_tick' = wake_tick /\ g_next_pid' = g_next_pid
      /\ pending' = pending
  BY DEF pit_irq
<1>3. /\ sleepq \in Seq(Slots) /\ Distinct(sleepq) /\ ready \in Seq(Slots)
      /\ Distinct(ready) /\ state \in [Slots -> TaskState]
      /\ g_ticks \in Nat /\ wake_tick \in [Slots -> Nat]
      /\ pending \subseteq Slots
  BY DEF IInv, TypeOK, TaskAccounting
<1>4. /\ due \in SUBSET Slots /\ asleep \in SUBSET Slots
      /\ \A t \in Slots : t \in due <=> In(t, sleepq) /\ pit_tick >= wake_tick[t]
      /\ \A t \in Slots : t \in asleep <=> In(t, sleepq) /\ t \notin due
  BY DEF sq_wake_due
<1>5. /\ st \in [Slots -> TaskState]
      /\ \A t \in Slots : st[t] = IF t \in due THEN "READY" ELSE state[t]
  BY <1>3 DEF TaskState
<1>6. pit_tick \in Nat /\ quantum_tick \in 0 .. SCHED_TICK_QUANTUM
  BY SchedAssumption DEF IInv, TypeOK, pit_tick, quantum_tick
<1> HIDE DEF due, asleep, st
<1>7. /\ woken \in Seq(Slots) /\ Distinct(woken)
      /\ \A t : In(t, woken) <=> t \in due
  BY <1>3, <1>4, InOrderQueue
<1>8. /\ sleepq' \in Seq(Slots) /\ Distinct(sleepq')
      /\ \A t : In(t, sleepq') <=> t \in asleep
  BY <1>1, <1>3, <1>4, InOrderQueue
<1>9. \A t \in due : state[t] = "SLEEPING" /\ ~In(t, ready) /\ t \notin pending
                     /\ t # g_current
  BY <1>4 DEF IInv, TaskAccounting
<1>10. /\ ready \o woken \in Seq(Slots) /\ Distinct(ready \o woken)
       /\ \A t : In(t, ready \o woken) <=> In(t, ready) \/ t \in due
  BY <1>3, <1>7, <1>9, CatQueue
<1>11. /\ \A t \in Slots : st[t] = "SLEEPING" <=> In(t, sleepq')
       /\ \A t \in Slots : state[t] = "DEAD" => st[t] = "DEAD"
  BY <1>4, <1>5, <1>8, <1>9 DEF IInv, TaskAccounting
<1>12. /\ wake_tick' \in [Slots -> Nat] /\ g_ticks' \in Nat
       /\ \A t \in Slots : In(t, sleepq') => wake_tick'[t] >= g_ticks'
  BY <1>2, <1>3, <1>4, <1>6, <1>8
<1>13. CASE phase = "up"
  <2>1. g_current \in Slots /\ state[g_current] = "RUNNING"
    BY <1>13 DEF IInv, BootState, TaskAccounting
  <2>2. SwitchReady(st, ready \o woken)
    <3>1. /\ ~In(g_current, ready \o woken) /\ st[g_current] = "RUNNING"
          /\ g_current \notin pending
      BY <1>5, <1>9, <1>10, <2>1 DEF IInv, TaskAccounting
    <3>2. \A t \in Slots :
            /\ st[t] = "READY" <=> In(t, ready \o woken) \/ t \in pending
            /\ ~(In(t, ready \o woken) /\ t \in pending)
            /\ st[t] = "RUNNING" => t = g_current
      BY <1>5, <1>9, <1>10 DEF IInv, TaskAccounting
    <3>3. In(Idle, ready \o woken) \/ (g_current = Idle /\ st[Idle] = "RUNNING")
      BY <1>10, <1>13, <3>1 DEF IInv, SomebodyToRun
    <3> QED  BY <1>3, <1>5, <1>10, <2>1, <3>1, <3>2, <3>3 DEF SwitchReady
  <2>3. CASE quantum_tick = 0
    <3>1. do_switch(st, ready \o woken)
      BY <1>1, <2>3
    <3> QED  BY <1>2, <1>8, <1>11, <1>12, <1>13, <2>2, <3>1, SwitchInv
  <2>4. CASE quantum_tick # 0
    <3>1. /\ state' = st /\ ready' = ready \o woken
          /\ g_quantum_left' = quantum_tick /\ g_current' = g_current
      BY <1>1, <2>4
    <3>2. TypeOK'
      BY <1>2, <1>5, <1>6, <1>8, <1>10, <1>12, <3>1 DEF IInv, TypeOK
    <3>3. TaskAccounting'
      BY <1>2, <1>5, <1>8, <1>9, <1>10, <1>11, <2>1, <3>1
         DEF IInv, TaskAccounting
    <3>4. BootState' /\ SomebodyToRun' /\ ExpiredOnlyAlone'
      BY <1>2, <1>10, <1>13, <2>1, <2>4, <3>1
         DEF IInv, BootState, SomebodyToRun, ExpiredOnlyAlone
    <3>5. NoOversleep'
      BY <1>12 DEF NoOversleep
    <3>6. LivePidsUnique'
      BY <1>2, <1>5, <1>9, <3>1 DEF IInv, LivePidsUnique
    <3> QED  BY <3>2, <3>3, <3>4, <3>5, <3>6 DEF IInv
  <2> QED  BY <2>3, <2>4
<1>14. CASE phase # "up"
  <2>1. ready = << >> /\ sleepq = << >> /\ pending = {}
    BY <1>14 DEF IInv, BootState
  <2>2. \A t : ~In(t, << >>)
    BY DEF In
  <2>3. due = {} /\ asleep = {}
    BY <1>4, <2>1, <2>2
  <2>4. woken = << >> /\ sleepq' = << >>
    <3>1. ASSUME NEW q \in Seq(Slots), \A t : ~In(t, q) PROVE q = << >>
      <4>1. ASSUME q # << >> PROVE In(q[1], q)
        BY <4>1 DEF In
      <4> QED  BY <3>1, <4>1
    <3> QED  BY <1>7, <1>8, <2>3, <3>1
  <2>5. st = state
    BY <1>3, <2>3 DEF st
  <2>6. /\ state' = state /\ ready' = << >> /\ g_current' = g_current
        /\ g_quantum_left' \in 0 .. SCHED_TICK_QUANTUM
    BY <1>1, <1>6, <2>1, <2>4, <2>5, SchedAssumption DEF do_switch
  <2>7. TypeOK'
    BY <1>2, <1>8, <1>12, <2>1, <2>6 DEF IInv, TypeOK
  <2>8. BootState'
    BY <1>2, <1>14, <2>1, <2>4, <2>6 DEF IInv, BootState
  <2>9. TaskAccounting'
    BY <1>2, <2>1, <2>4, <2>6 DEF IInv, TaskAccounting
  <2>10. SomebodyToRun' /\ ExpiredOnlyAlone' /\ LivePidsUnique'
    BY <1>2, <1>14 DEF SomebodyToRun, ExpiredOnlyAlone, LivePidsUnique
  <2>11. NoOversleep'
    BY <1>12 DEF NoOversleep
  <2> QED  BY <2>7, <2>8, <2>9, <2>10, <2>11 DEF IInv
<1> QED  BY <1>13, <1>14

-----------------------------------------------------------------------------
(* Every step keeps the invariant. *)
LEMMA NextInv == IInv /\ [Next]_vars => IInv'
<1> SUFFICES ASSUME IInv, [Next]_vars PROVE IInv'
  OBVIOUS
<1>1. CASE UNCHANGED vars
  BY <1>1 DEF vars, IInv, TypeOK, BootState, TaskAccounting, SomebodyToRun,
              NoOversleep, ExpiredOnlyAlone, LivePidsUnique, Distinct, In
<1>2. CASE Next
  BY <1>2, BootSteps, CreationSteps, RunningSteps, TickStep DEF Next
<1> QED  BY <1>1, <1>2

(* The scheduler's invariant holds throughout, for every task table size   *)
(* and quantum.                                                            *)
THEOREM Invariance == Spec => []IInv
<1>1. Init => IInv
  BY InitInv
<1>2. IInv /\ [Next]_vars => IInv'
  BY NextInv
<1> QED  BY <1>1, <1>2, PTL DEF Spec

(* Type correctness of task.c and sched.c's state. *)
THEOREM TypeCorrect == Spec => []TypeOK
<1>1. IInv => TypeOK
  BY DEF IInv
<1> QED  BY <1>1, Invariance, PTL

(* Every task is in exactly the queue its state names: no task is lost by  *)
(* a switch, queued twice or run from a dead slot.                         *)
THEOREM Accounting == Spec => []TaskAccounting
<1>1. IInv => TaskAccounting
  BY DEF IInv
<1> QED  BY <1>1, Invariance, PTL

(* do_switch always finds a successor for a task that sleeps or exits. *)
THEOREM AlwaysSomebodyToRun == Spec => []SomebodyToRun
<1>1. IInv => SomebodyToRun
  BY DEF IInv
<1> QED  BY <1>1, Invariance, PTL

(* sched_tick leaves no sleeper behind its deadline. *)
THEOREM NeverOversleeps == Spec => []NoOversleep
<1>1. IInv => NoOversleep
  BY DEF IInv
<1> QED  BY <1>1, Invariance, PTL

(* A used-up quantum never keeps a ready task waiting. *)
THEOREM ExpiredAlone == Spec => []ExpiredOnlyAlone
<1>1. IInv => ExpiredOnlyAlone
  BY DEF IInv
<1> QED  BY <1>1, Invariance, PTL

(* A switch finds a successor and an expired quantum keeps nobody waiting: *)
(* the two together, as the scheduler's run checks them.                   *)
THEOREM CpuAlwaysWellUsed == Spec => []CpuWellUsed
<1>1. IInv => CpuWellUsed
  BY DEF IInv, CpuWellUsed
<1> QED  BY <1>1, Invariance, PTL

(* Live tasks have distinct PIDs. *)
THEOREM PidsUnique == Spec => []LivePidsUnique
<1>1. IInv => LivePidsUnique
  BY DEF IInv
<1> QED  BY <1>1, Invariance, PTL

(* sched_sleep's promise: nobody but the tick wakes a sleeper, not before  *)
(* its deadline, and the tick that reaches the deadline does.              *)
THEOREM SleepersOnTime == Spec => WakesOnTime
<1> DEFINE Early(t) == state[t] = "SLEEPING" /\ state'[t] # "SLEEPING"
                         => g_ticks' >= wake_tick[t]
           Late(t)  == g_ticks' # g_ticks /\ In(t, sleepq')
                         => wake_tick'[t] > g_ticks'
           A == \A t \in Slots :
                  /\ state[t] = "SLEEPING" /\ state'[t] # "SLEEPING"
                       => g_ticks' >= wake_tick[t]
                  /\ g_ticks' # g_ticks /\ In(t, sleepq')
                       => wake_tick'[t] > g_ticks'
<1>1. ASSUME IInv, IInv', Next, NEW t \in Slots PROVE Early(t)
  <2> SUFFICES ASSUME state[t] = "SLEEPING", state'[t] # "SLEEPING"
               PROVE  g_ticks' >= wake_tick[t]
    OBVIOUS
  <2>0. In(t, sleepq) /\ ~In(t, sleepq') /\ sleepq \in Seq(Slots)
        /\ Distinct(sleepq)
    BY <1>1 DEF IInv, TypeOK, TaskAccounting
  <2>1. CASE pit_irq
    <3> DEFINE due == sq_wake_due(pit_tick)
               asleep == { u \in Slots : In(u, sleepq) } \ due
    <3>1. sleepq' \in InOrder(sleepq, asleep) /\ g_ticks' = pit_tick
      BY <2>1 DEF pit_irq
    <3>2. \A u : In(u, sleepq') <=> u \in asleep
      BY <2>0, <3>1, InOrderQueue
    <3>3. t \in due
      BY <2>0, <3>2
    <3> QED  BY <3>1, <3>3 DEF sq_wake_due
  <2>2. ASSUME sleepq' = sleepq PROVE FALSE
    BY <2>0, <2>2
  <2>3. CASE task_init \/ sched_init
    <3>1. phase # "up"
      BY <2>3 DEF task_init, sched_init
    <3>2. sleepq = << >>
      BY <1>1, <3>1 DEF IInv, BootState
    <3> QED  BY <2>0, <3>2 DEF In
  <2>4. ASSUME NEW ms \in SleepTimes, sched_sleep(ms) PROVE FALSE
    <3>1. sleepq' = << g_current >> \o sleepq /\ g_current \in Slots
      BY <1>1, <2>4 DEF sched_sleep, CanAct, IInv, BootState
    <3>2. << g_current >> \in Seq(Slots)
      BY <3>1
    <3>3. In(t, sleepq')
      BY <2>0, <3>1, <3>2, CatQueue
    <3> QED  BY <2>0, <3>3
  <2> QED
    BY <1>1, <2>1, <2>2, <2>3, <2>4
       DEF Next, task_create, sched_add, task_destroy, sched_yield, sched_exit
<1>2. ASSUME IInv, Next, NEW t \in Slots PROVE Late(t)
  <2>1. CASE pit_irq
    <3> DEFINE due == sq_wake_due(pit_tick)
               asleep == { u \in Slots : In(u, sleepq) } \ due
    <3>1. /\ sleepq' \in InOrder(sleepq, asleep)
          /\ g_ticks' = pit_tick
          /\ wake_tick' = wake_tick
      BY <2>1 DEF pit_irq
    <3>2. sleepq \in Seq(Slots) /\ Distinct(sleepq)
      BY <1>2 DEF IInv, TypeOK, TaskAccounting
    <3>3. In(t, sleepq') => In(t, sleepq) /\ t \notin due
      BY <3>1, <3>2, InOrderQueue
    <3>4. wake_tick[t] \in Nat /\ pit_tick \in Nat
      BY <1>2, SchedAssumption DEF IInv, TypeOK, pit_tick
    <3> QED  BY <3>1, <3>3, <3>4 DEF sq_wake_due
  <2>2. CASE g_ticks' = g_ticks
    BY <2>2
  <2> QED
    BY <1>2, <2>1, <2>2
       DEF Next, task_init, sched_init, task_create, sched_add, task_destroy,
           sched_yield, sched_sleep, sched_exit
<1>3. IInv /\ IInv' /\ [Next]_vars => [A]_vars
  BY <1>1, <1>2
<1> QED  BY <1>3, Invariance, PTL DEF Spec, WakesOnTime
=============================================================================
