-------------------------- MODULE SchedLinksProofs ---------------------------
(***************************************************************************)
(* Proofs about module SchedLinks: the pointers of kernel/sched.c form the *)
(* two lists they are meant to form and implement the queues of module     *)
(* Sched, for any table size, quantum and sleep times, as long as no tick  *)
(* falls between the stores of sched_add.  The accounting of tasks to      *)
(* queues comes from module SchedProofs, whose invariant is taken here     *)
(* with the walks along the links for the queues.                          *)
(***************************************************************************)
EXTENDS SchedLinks, FiniteSetTheorems, WellFoundedInduction, TLAPS

SP == INSTANCE SchedProofs WITH state <- q.state, ready <- ReadyWalk, sleepq <- SleepWalk

(* What module Sched assumes is assumed here too. *)
LEMMA Assumed == SP!SchedAssumption
BY SchedAssumption DEF SP!SchedAssumption

LEMMA SlotFacts ==
  /\ TASK_MAX \in Nat /\ Null \notin Slots /\ Slots \subseteq Nat
  /\ Cells = Slots \cup {Null} /\ Kmain \in Slots /\ Idle \in Slots
BY SchedAssumption DEF Slots, Null, Cells, Kmain, Idle

-----------------------------------------------------------------------------
(* The queues Q hold the ring r and the sleep list s. *)

NextIn(r, i) == IF i = Len(r) THEN r[1] ELSE r[i + 1]
PrevIn(r, i) == IF i = 1 THEN r[Len(r)] ELSE r[i - 1]

Ring(Q, r) ==
  /\ r \in Seq(Slots) /\ SP!Distinct(r)
  /\ Q.count = Len(r) /\ Q.head = IF r = << >> THEN Null ELSE r[1]
  /\ \A i \in 1 .. Len(r) : Q.next[r[i]] = NextIn(r, i) /\ Q.prev[r[i]] = PrevIn(r, i)

Chain(Q, s) ==
  /\ s \in Seq(Slots) /\ SP!Distinct(s)
  /\ Q.sleep = IF s = << >> THEN Null ELSE s[1]
  /\ \A i \in 1 .. Len(s) : Q.next[s[i]] = IF i = Len(s) THEN Null ELSE s[i + 1]

Apart(r, s) == \A i \in 1 .. Len(r), j \in 1 .. Len(s) : r[i] # s[j]

Lists(Q, r, s) ==
  Q \in Queues /\ Q.next[Null] = Null /\ Ring(Q, r) /\ Chain(Q, s) /\ Apart(r, s)

Rec(next, prev, state, head, count, sleep) ==
  [next |-> next, prev |-> prev, state |-> state, head |-> head, count |-> count,
   sleep |-> sleep]

(* rq_push_back, rq_remove and sq_push field by field. *)
LEMMA PushFields ==
  ASSUME NEW Q \in Queues, NEW t \in Slots
  PROVE  LET P == rq_push_back(Q, t) IN
         /\ P \in Queues
         /\ P.state = Q.state /\ P.sleep = Q.sleep /\ P.count = Q.count + 1
         /\ P.head = IF Q.head = Null THEN t ELSE Q.head
         /\ Q.head = Null => /\ P.next = [Q.next EXCEPT ![t] = t]
                             /\ P.prev = [Q.prev EXCEPT ![t] = t]
         /\ Q.head # Null =>
              /\ P.next = [Q.next EXCEPT ![t] = Q.head, ![Q.prev[Q.head]] = t]
              /\ P.prev = [Q.prev EXCEPT ![t] = Q.prev[Q.head], ![Q.head] = t]
<1>1. /\ Q.next \in [Cells -> Cells] /\ Q.prev \in [Cells -> Cells] /\ Q.count \in Nat
      /\ Q.state \in [Slots -> {"DEAD", "READY", "RUNNING", "SLEEPING"}]
      /\ Q.head \in Cells /\ Q.sleep \in Cells /\ t \in Cells /\ Q.prev[Q.head] \in Cells
  BY SlotFacts DEF Queues
<1>2. CASE Q.head = Null
  <2>1. rq_push_back(Q, t) =
          Rec([Q.next EXCEPT ![t] = t], [Q.prev EXCEPT ![t] = t], Q.state, t, Q.count + 1, Q.sleep)
    BY <1>2 DEF rq_push_back, Queues, Rec
  <2> QED
    BY <1>1, <1>2, <2>1 DEF Rec, Queues
<1>3. CASE Q.head # Null
  <2> DEFINE nx == [Q.next EXCEPT ![t] = Q.head, ![Q.prev[Q.head]] = t]
             pv == [Q.prev EXCEPT ![t] = Q.prev[Q.head], ![Q.head] = t]
  <2>1. rq_push_back(Q, t) = Rec(nx, pv, Q.state, Q.head, Q.count + 1, Q.sleep)
    BY <1>3 DEF rq_push_back, Queues, Rec
  <2>2. nx \in [Cells -> Cells] /\ pv \in [Cells -> Cells]
    BY <1>1
  <2> HIDE DEF nx, pv
  <2>3. Rec(nx, pv, Q.state, Q.head, Q.count + 1, Q.sleep) \in Queues
    BY <1>1, <2>2 DEF Rec, Queues
  <2> QED
    BY <1>3, <2>1, <2>3 DEF Rec, nx, pv
<1> QED
  BY <1>2, <1>3

LEMMA PopFields ==
  ASSUME NEW Q \in Queues, NEW t \in Slots, Q.count # 0, Q.next[t] # Null
  PROVE  LET P == rq_remove(Q, t) IN
         /\ P \in Queues
         /\ P.state = Q.state /\ P.sleep = Q.sleep /\ P.count = Q.count - 1
         /\ P.head = IF Q.next[t] = t THEN Null ELSE IF Q.head = t THEN Q.next[t] ELSE Q.head
         /\ P.next = [Q.next EXCEPT ![Q.prev[t]] = Q.next[t], ![t] = Null]
         /\ P.prev = [Q.prev EXCEPT ![Q.next[t]] = Q.prev[t], ![t] = Null]
<1>1. /\ Q.next \in [Cells -> Cells] /\ Q.prev \in [Cells -> Cells] /\ Q.count \in Nat
      /\ Q.state \in [Slots -> {"DEAD", "READY", "RUNNING", "SLEEPING"}]
      /\ Q.head \in Cells /\ Q.sleep \in Cells /\ t \in Cells /\ Null \in Cells
      /\ Q.next[t] \in Cells /\ Q.prev[t] \in Cells /\ Q.count - 1 \in Nat
  BY SlotFacts DEF Queues
<1> DEFINE nx == [Q.next EXCEPT ![Q.prev[t]] = Q.next[t], ![t] = Null]
           pv == [Q.prev EXCEPT ![Q.next[t]] = Q.prev[t], ![t] = Null]
           hd == IF Q.next[t] = t THEN Null ELSE IF Q.head = t THEN Q.next[t] ELSE Q.head
<1>2. rq_remove(Q, t) = Rec(nx, pv, Q.state, hd, Q.count - 1, Q.sleep)
  BY DEF rq_remove, Link, LinkBack, head_after, count_after, Queues, Rec
<1>3. nx \in [Cells -> Cells] /\ pv \in [Cells -> Cells] /\ hd \in Cells
  BY <1>1
<1> HIDE DEF nx, pv, hd
<1>4. Rec(nx, pv, Q.state, hd, Q.count - 1, Q.sleep) \in Queues
  BY <1>1, <1>3 DEF Rec, Queues
<1> QED
  BY <1>2, <1>4 DEF Rec, nx, pv, hd

LEMMA SleepFields ==
  ASSUME NEW Q \in Queues, NEW t \in Slots
  PROVE  LET P == sq_push(Q, t) IN
         /\ P \in Queues /\ P.sleep = t /\ P.next = [Q.next EXCEPT ![t] = Q.sleep]
         /\ P.state = Q.state /\ P.prev = Q.prev /\ P.head = Q.head /\ P.count = Q.count
BY SlotFacts DEF sq_push, Link, Queues

(* Queues that agree on the links of the lists hold the same lists. *)
LEMMA SameLists ==
  ASSUME NEW Q, NEW r, NEW s, Lists(Q, r, s), NEW P \in Queues,
         P.head = Q.head, P.count = Q.count, P.sleep = Q.sleep,
         P.next = Q.next, P.prev = Q.prev
  PROVE  Lists(P, r, s)
BY DEF Lists, Ring, Chain

-----------------------------------------------------------------------------
(* rq_push_back puts a task at the end of the ring. *)
LEMMA PushLists ==
  ASSUME NEW Q, NEW r, NEW s, Lists(Q, r, s), NEW t \in Slots,
         ~SP!In(t, r), ~SP!In(t, s)
  PROVE  Lists(rq_push_back(Q, t), Append(r, t), s)
<1> DEFINE P == rq_push_back(Q, t)  u == Append(r, t)  n == Len(r)
<1>1. /\ Q \in Queues /\ r \in Seq(Slots) /\ s \in Seq(Slots) /\ n \in Nat /\ Len(s) \in Nat
      /\ Ring(Q, r) /\ Chain(Q, s) /\ Apart(r, s) /\ Q.next[Null] = Null
  BY DEF Lists, Ring, Chain
<1>2. /\ P \in Queues /\ P.state = Q.state /\ P.sleep = Q.sleep /\ P.count = Q.count + 1
      /\ P.head = IF Q.head = Null THEN t ELSE Q.head
      /\ Q.head = Null => /\ P.next = [Q.next EXCEPT ![t] = t]
                          /\ P.prev = [Q.prev EXCEPT ![t] = t]
      /\ Q.head # Null =>
              /\ P.next = [Q.next EXCEPT ![t] = Q.head, ![Q.prev[Q.head]] = t]
              /\ P.prev = [Q.prev EXCEPT ![t] = Q.prev[Q.head], ![Q.head] = t]
  BY <1>1, PushFields
<1>3. /\ u \in Seq(Slots) /\ Len(u) = n + 1 /\ u[n + 1] = t /\ u # << >>
      /\ \A i \in 1 .. n : u[i] = r[i]
  BY <1>1
<1>4. (\A i \in 1 .. n : r[i] # t /\ r[i] \in Slots) /\ (\A j \in 1 .. Len(s) : s[j] # t /\ s[j] \in Slots)
  BY <1>1 DEF SP!In
<1>5. Q.next \in [Cells -> Cells] /\ Q.prev \in [Cells -> Cells] /\ t \in Cells /\ t # Null
  BY <1>1, SlotFacts DEF Queues
<1> HIDE DEF P, u
<1>6. SP!Distinct(u)
  BY <1>1, <1>3, <1>4 DEF SP!Distinct, Ring
<1>7. Apart(u, s)
  BY <1>1, <1>3, <1>4 DEF Apart
<1>8. CASE n = 0
  <2>1. r = << >> /\ Q.head = Null
    BY <1>1, <1>8 DEF Ring
  <2>2. Ring(P, u)
    <3>1. P.head = u[1] /\ P.count = Len(u) /\ Len(u) = 1 /\ u[1] = t
      BY <1>1, <1>2, <1>3, <1>8, <2>1 DEF Ring
    <3>2. P.next[t] = t /\ P.prev[t] = t
      BY <1>2, <1>5, <2>1
    <3>3. \A i \in 1 .. Len(u) : P.next[u[i]] = NextIn(u, i) /\ P.prev[u[i]] = PrevIn(u, i)
      BY <3>1, <3>2 DEF NextIn, PrevIn
    <3> QED
      BY <1>3, <1>6, <3>1, <3>3 DEF Ring
  <2>3. Chain(P, s)
    BY <1>1, <1>2, <1>4, <1>5, <2>1, SlotFacts DEF Chain
  <2>4. P.next[Null] = Null
    BY <1>1, <1>2, <1>5, <2>1, SlotFacts
  <2> QED
    BY <1>2, <1>7, <2>2, <2>3, <2>4 DEF Lists, P, u
<1>9. CASE n # 0
  <2>1. /\ r # << >> /\ Q.head = r[1] /\ Q.prev[r[1]] = r[n] /\ r[1] \in Slots /\ r[n] \in Slots
        /\ Q.head # Null /\ r[1] # t /\ r[n] # t
    BY <1>1, <1>4, <1>9, SlotFacts DEF Ring, PrevIn
  <2>2. /\ P.next = [Q.next EXCEPT ![t] = r[1], ![r[n]] = t]
        /\ P.prev = [Q.prev EXCEPT ![t] = r[n], ![r[1]] = t]
    BY <1>2, <2>1
  <2>3. ASSUME NEW i \in 1 .. n + 1 PROVE P.next[u[i]] = NextIn(u, i) /\ P.prev[u[i]] = PrevIn(u, i)
    <3>1. CASE i = n + 1
      <4>1. /\ NextIn(u, i) = u[1] /\ PrevIn(u, i) = u[n] /\ u[i] = t
            /\ u[1] = r[1] /\ u[n] = r[n]
        BY <1>1, <1>3, <1>9, <3>1 DEF NextIn, PrevIn
      <4>2. P.next[t] = r[1] /\ P.prev[t] = r[n]
        BY <1>5, <2>1, <2>2
      <4> QED
        BY <4>1, <4>2
    <3>2. CASE i \in 1 .. n
      <4>1. /\ u[i] = r[i] /\ r[i] \in Cells /\ r[i] # t /\ Q.next[r[i]] = NextIn(r, i)
            /\ Q.prev[r[i]] = PrevIn(r, i)
            /\ (r[i] = r[1] <=> i = 1) /\ (r[i] = r[n] <=> i = n)
        BY <1>1, <1>3, <1>4, <1>9, <3>2, SlotFacts DEF Ring, SP!Distinct
      <4>2. P.next[u[i]] = IF i = n THEN t ELSE NextIn(r, i)
        BY <4>1, <2>1, <2>2, <1>5
      <4>3. P.prev[u[i]] = IF i = 1 THEN t ELSE PrevIn(r, i)
        BY <4>1, <2>1, <2>2, <1>5
      <4>4. (i # n => u[i + 1] = r[i + 1]) /\ (i # 1 => u[i - 1] = r[i - 1])
        BY <1>1, <1>3, <3>2
      <4> QED
        BY <1>1, <1>3, <3>2, <4>2, <4>3, <4>4 DEF NextIn, PrevIn
    <3> QED
      BY <1>1, <3>1, <3>2
  <2>4. Ring(P, u)
    <3>1. P.head = u[1] /\ P.count = Len(u)
      BY <1>1, <1>2, <1>3, <1>9, <2>1 DEF Ring
    <3> QED
      BY <1>3, <1>6, <2>3, <3>1 DEF Ring
  <2>5. \A j \in 1 .. Len(s) : P.next[s[j]] = Q.next[s[j]]
    <3>1. \A j \in 1 .. Len(s) : s[j] # r[n] /\ s[j] # t /\ s[j] \in Cells
      BY <1>1, <1>4, <1>9, SlotFacts DEF Apart
    <3> QED
      BY <1>5, <2>2, <3>1
  <2>6. Chain(P, s)
    BY <1>1, <1>2, <2>5 DEF Chain
  <2>7. P.next[Null] = Null
    BY <1>1, <1>5, <2>1, <2>2, SlotFacts
  <2> QED
    BY <1>2, <1>7, <2>4, <2>6, <2>7 DEF Lists, P, u
<1> QED
  BY <1>8, <1>9

(* rq_remove takes the head out of the ring and nulls its links. *)
LEMMA PopLists ==
  ASSUME NEW Q, NEW r, NEW s, Lists(Q, r, s), r # << >>
  PROVE  /\ Lists(rq_remove(Q, Head(r)), Tail(r), s)
         /\ rq_remove(Q, Head(r)).state = Q.state
<1> DEFINE t == Head(r)  P == rq_remove(Q, t)  u == Tail(r)  n == Len(r)
<1>1. /\ Q \in Queues /\ r \in Seq(Slots) /\ s \in Seq(Slots) /\ n \in Nat /\ Len(s) \in Nat
      /\ Ring(Q, r) /\ Chain(Q, s) /\ Apart(r, s) /\ Q.next[Null] = Null
  BY DEF Lists, Ring, Chain
<1>2. /\ n >= 1 /\ t = r[1] /\ t \in Slots /\ u \in Seq(Slots) /\ Len(u) = n - 1
      /\ \A i \in 1 .. n - 1 : u[i] = r[i + 1]
  BY <1>1
<1>3. /\ Q.next \in [Cells -> Cells] /\ Q.prev \in [Cells -> Cells] /\ t \in Cells /\ t # Null
      /\ \A i \in 1 .. n : r[i] \in Slots /\ r[i] \in Cells /\ r[i] # Null
  BY <1>1, <1>2, SlotFacts DEF Queues
<1> HIDE DEF t, P, u
<1>4. /\ Q.next[t] = (IF n = 1 THEN t ELSE r[2]) /\ Q.prev[t] = r[n]
      /\ Q.head = t /\ Q.count = n
  BY <1>1, <1>2 DEF Ring, NextIn, PrevIn
<1>5. Q.next[t] # Null /\ Q.count # 0 /\ (n > 1 => Q.next[t] # t)
  BY <1>1, <1>2, <1>3, <1>4 DEF Ring, SP!Distinct
<1>6. /\ P \in Queues /\ P.state = Q.state /\ P.sleep = Q.sleep /\ P.count = n - 1
      /\ P.head = (IF n = 1 THEN Null ELSE r[2])
      /\ P.next = [Q.next EXCEPT ![r[n]] = Q.next[t], ![t] = Null]
      /\ P.prev = [Q.prev EXCEPT ![Q.next[t]] = r[n], ![t] = Null]
  <2>1. /\ P \in Queues
        /\ P.state = Q.state /\ P.sleep = Q.sleep /\ P.count = Q.count - 1
        /\ P.head = IF Q.next[t] = t THEN Null ELSE IF Q.head = t THEN Q.next[t] ELSE Q.head
        /\ P.next = [Q.next EXCEPT ![Q.prev[t]] = Q.next[t], ![t] = Null]
        /\ P.prev = [Q.prev EXCEPT ![Q.next[t]] = Q.prev[t], ![t] = Null]
    <3>1. Q \in Queues /\ t \in Slots /\ Q.count # 0 /\ Q.next[t] # Null
      BY <1>1, <1>2, <1>5
    <3> QED
      BY ONLY <3>1, PopFields DEF P
  <2>2. P.head = (IF n = 1 THEN Null ELSE r[2])
    <3>1. CASE n = 1
      BY <1>4, <2>1, <3>1
    <3>2. CASE n > 1
      BY <1>1, <1>4, <1>5, <2>1, <3>2
    <3> QED
      BY <1>1, <1>2, <3>1, <3>2
  <2> QED
    BY <1>4, <2>1, <2>2
<1>7. SP!Distinct(u) /\ Apart(u, s)
  <2>1. ASSUME NEW i \in 1 .. n - 1 PROVE i + 1 \in 1 .. n /\ u[i] = r[i + 1]
    BY <1>1, <1>2
  <2>2. SP!Distinct(u)
    <3> SUFFICES ASSUME NEW i \in 1 .. n - 1, NEW j \in 1 .. n - 1, u[i] = u[j]
                 PROVE  i = j
      BY <1>2 DEF SP!Distinct
    <3>1. i + 1 = j + 1
      BY <1>1, <2>1 DEF SP!Distinct, Ring
    <3> QED
      BY <1>1, <3>1
  <2>3. Apart(u, s)
    BY <1>1, <1>2, <2>1 DEF Apart
  <2> QED
    BY <2>2, <2>3
<1>8. ASSUME NEW i \in 1 .. n - 1 PROVE P.next[u[i]] = NextIn(u, i) /\ P.prev[u[i]] = PrevIn(u, i)
  <2>1. /\ i \in Nat /\ i + 1 \in 1 .. n /\ n > 1 /\ u[i] = r[i + 1] /\ Q.next[t] = r[2]
        /\ Q.next[r[i + 1]] = NextIn(r, i + 1) /\ Q.prev[r[i + 1]] = PrevIn(r, i + 1)
    BY <1>1, <1>2, <1>4 DEF Ring
  <2>2. /\ (r[i + 1] = r[n] <=> i + 1 = n) /\ (r[i + 1] = r[2] <=> i = 1) /\ r[i + 1] # t
    BY <1>1, <1>2, <2>1 DEF Ring, SP!Distinct
  <2>3. P.next[u[i]] = IF i + 1 = n THEN r[2] ELSE NextIn(r, i + 1)
    BY <1>3, <1>6, <2>1, <2>2
  <2>4. P.prev[u[i]] = IF i = 1 THEN r[n] ELSE PrevIn(r, i + 1)
    BY <1>3, <1>6, <2>1, <2>2
  <2>5. /\ u[1] = r[2] /\ u[n - 1] = r[n]
        /\ (i + 1 # n => u[i + 1] = r[i + 2]) /\ (i # 1 => u[i - 1] = r[i])
    <3>1. \A k \in 1 .. n - 1 : u[k] = r[k + 1]
      BY <1>2
    <3>0. n - 1 + 1 = n /\ (i # 1 => i - 1 + 1 = i) /\ i + 1 + 1 = i + 2 /\ 1 + 1 = 2
      BY <1>1, <2>1
    <3>2. /\ 1 \in 1 .. n - 1 /\ n - 1 \in 1 .. n - 1 /\ (i # 1 => i - 1 \in 1 .. n - 1)
          /\ (i + 1 # n => i + 1 \in 1 .. n - 1)
      BY <1>1, <2>1
    <3>3. u[1] = r[2] /\ u[n - 1] = r[n]
      BY <3>0, <3>1, <3>2
    <3>4. i + 1 # n => u[i + 1] = r[i + 2]
      BY <3>0, <3>1, <3>2
    <3>5. i # 1 => u[i - 1] = r[i]
      BY <3>0, <3>1, <3>2
    <3> QED
      BY <3>3, <3>4, <3>5
  <2>6. NextIn(u, i) = IF i + 1 = n THEN r[2] ELSE r[i + 2]
    BY <1>1, <1>2, <2>1, <2>5 DEF NextIn
  <2>7. PrevIn(u, i) = IF i = 1 THEN r[n] ELSE r[i]
    BY <1>1, <1>2, <2>1, <2>5 DEF PrevIn
  <2>8. NextIn(r, i + 1) = (IF i + 1 = n THEN r[1] ELSE r[i + 2]) /\ PrevIn(r, i + 1) = r[i]
    <3>1. n \in Nat /\ i \in Nat /\ i + 1 # 1 /\ i + 1 + 1 = i + 2 /\ i + 1 - 1 = i
      BY <1>1, <2>1
    <3> QED
      BY ONLY <3>1 DEF NextIn, PrevIn, n
  <2> QED
    BY <2>3, <2>4, <2>6, <2>7, <2>8
<1>9. Ring(P, u)
  <2>1. (u = << >> <=> n = 1) /\ (n > 1 => u[1] = r[2])
    BY <1>1, <1>2
  <2>2. P.head = (IF u = << >> THEN Null ELSE u[1]) /\ P.count = Len(u)
    BY <1>1, <1>2, <1>6, <2>1
  <2> QED
    BY <1>2, <1>7, <1>8, <2>2 DEF Ring
<1>10. Chain(P, s)
  <2>1. \A j \in 1 .. Len(s) : s[j] # r[n] /\ s[j] # t /\ s[j] \in Cells
    BY <1>1, <1>2, SlotFacts DEF Apart
  <2>2. \A j \in 1 .. Len(s) : P.next[s[j]] = Q.next[s[j]]
    BY <1>3, <1>6, <2>1
  <2> QED
    BY <1>1, <1>6, <2>2 DEF Chain
<1>11. P.next[Null] = Null
  <2>1. r[n] # Null /\ r[n] \in Cells /\ Null \in Cells
    BY <1>2, <1>3, SlotFacts
  <2> QED
    BY <1>1, <1>3, <1>6, <2>1
<1> QED
  BY <1>6, <1>7, <1>9, <1>10, <1>11 DEF Lists, P, u, t

(* sq_push puts a task that is in no list at the head of the sleep list. *)
LEMMA SleepLists ==
  ASSUME NEW Q, NEW r, NEW s, Lists(Q, r, s), NEW t \in Slots, ~SP!In(t, r), ~SP!In(t, s)
  PROVE  Lists(sq_push(Q, t), r, << t >> \o s) /\ sq_push(Q, t).state = Q.state
<1> DEFINE P == sq_push(Q, t)  u == << t >> \o s  n == Len(s)
<1>1. /\ Q \in Queues /\ r \in Seq(Slots) /\ s \in Seq(Slots) /\ n \in Nat /\ Len(r) \in Nat
      /\ Ring(Q, r) /\ Chain(Q, s) /\ Apart(r, s) /\ Q.next[Null] = Null
  BY DEF Lists, Ring, Chain
<1>2. /\ u \in Seq(Slots) /\ Len(u) = n + 1 /\ u[1] = t /\ u # << >>
      /\ \A i \in 2 .. n + 1 : u[i] = s[i - 1]
  BY <1>1
<1>3. /\ P \in Queues /\ P.sleep = t /\ P.next = [Q.next EXCEPT ![t] = Q.sleep]
      /\ P.state = Q.state /\ P.prev = Q.prev /\ P.head = Q.head /\ P.count = Q.count
  BY <1>1, SleepFields
<1>4. (\A i \in 1 .. Len(r) : r[i] # t /\ r[i] \in Cells) /\ (\A j \in 1 .. n : s[j] # t /\ s[j] \in Cells)
  BY <1>1, SlotFacts DEF SP!In
<1>5. Q.next \in [Cells -> Cells] /\ t \in Cells /\ t # Null /\ Null \in Cells
  BY <1>1, SlotFacts DEF Queues
<1> HIDE DEF P, u
<1>6. SP!Distinct(u)
  <2> SUFFICES ASSUME NEW i \in 1 .. n + 1, NEW j \in 1 .. n + 1, u[i] = u[j] PROVE i = j
    BY <1>2 DEF SP!Distinct
  <2>1. (i = 1 \/ (i \in 2 .. n + 1 /\ i - 1 \in 1 .. n)) /\ (j = 1 \/ (j \in 2 .. n + 1 /\ j - 1 \in 1 .. n))
    BY <1>1
  <2>2. i - 1 \in 1 .. n /\ j - 1 \in 1 .. n /\ s[i - 1] = s[j - 1] => i - 1 = j - 1
    BY <1>1 DEF Chain, SP!Distinct
  <2> QED
    BY <1>1, <1>2, <1>4, <2>1, <2>2
<1>7. Apart(r, u)
  <2> SUFFICES ASSUME NEW i \in 1 .. Len(r), NEW j \in 1 .. n + 1 PROVE r[i] # u[j]
    BY <1>2 DEF Apart
  <2>1. j = 1 \/ (j \in 2 .. n + 1 /\ j - 1 \in 1 .. n)
    BY <1>1
  <2> QED
    BY <1>1, <1>2, <1>4, <2>1 DEF Apart
<1>8. \A i \in 1 .. Len(r) : P.next[r[i]] = Q.next[r[i]]
  BY <1>3, <1>4, <1>5
<1>9. Ring(P, r)
  BY <1>1, <1>3, <1>8 DEF Ring
<1>10. ASSUME NEW i \in 1 .. n + 1 PROVE P.next[u[i]] = IF i = n + 1 THEN Null ELSE u[i + 1]
  <2>1. CASE i = 1
    <3>1. P.next[u[i]] = Q.sleep
      BY <1>2, <1>3, <1>5, <2>1
    <3>2. Q.sleep = IF n = 0 THEN Null ELSE s[1]
      BY <1>1 DEF Chain
    <3>3. n # 0 => u[2] = s[1]
      BY <1>1, <1>2
    <3> QED
      BY <1>1, <2>1, <3>1, <3>2, <3>3
  <2>2. CASE i # 1
    <3>1. i \in 2 .. n + 1 /\ i - 1 \in 1 .. n /\ (i # n + 1 => i + 1 \in 2 .. n + 1)
      BY <1>1, <2>2
    <3>2. u[i] = s[i - 1] /\ (i # n + 1 => u[i + 1] = s[i])
      BY <1>2, <3>1
    <3>3. P.next[s[i - 1]] = Q.next[s[i - 1]]
      BY <1>3, <1>4, <1>5, <3>1
    <3>4. Q.next[s[i - 1]] = IF i - 1 = n THEN Null ELSE s[i - 1 + 1]
      BY <1>1, <3>1 DEF Chain
    <3> QED
      BY <1>1, <3>1, <3>2, <3>3, <3>4
  <2> QED
    BY <2>1, <2>2
<1>11. Chain(P, u)
  BY <1>2, <1>3, <1>6, <1>10 DEF Chain
<1>12. P.next[Null] = Null
  BY <1>1, <1>3, <1>5
<1> QED
  BY <1>3, <1>7, <1>9, <1>11, <1>12 DEF Lists, P, u

-----------------------------------------------------------------------------
(* Walking along the links. *)

(* A set of naturals has a least element. *)
LEMMA LeastOf ==
  ASSUME NEW Z, Z \subseteq Nat, Z # {}
  PROVE  \E x \in Z : \A y \in Z : x <= y
<1> DEFINE R == {ss \in Nat \X Nat : ss[1] < ss[2]}
<1>1. IsWellFoundedOn(R, Nat)
  BY NatLessThanWellFounded DEF OpToRel
<1>2. \A y, x \in Nat : y < x => << y, x >> \in R
  OBVIOUS
<1> HIDE DEF R
<1>3. PICK x \in Z : \A y \in Z : ~(<< y, x >> \in R)
  BY <1>1, WFMin, Zenon
<1>4. ASSUME NEW y \in Z PROVE x <= y
  <2>1. x \in Nat /\ y \in Nat
    OBVIOUS
  <2>2. ~(y < x)
    BY <1>2, <1>3, <2>1
  <2> QED
    BY <2>1, <2>2
<1> QED
  BY <1>4

(* A walk is the one sequence that starts at its start and follows f. *)
Along(f, from, n, z) ==
  /\ z = [i \in 1 .. n |-> z[i]] /\ (n >= 1 => z[1] = from)
  /\ \A i \in 2 .. n : z[i] = f[z[i - 1]]

LEMMA WalkIs ==
  ASSUME NEW f, NEW from, NEW n \in Nat, NEW z, Along(f, from, n, z)
  PROVE  Walk(f, from, n) = z
<1>0. /\ z = [i \in 1 .. n |-> z[i]] /\ (n >= 1 => z[1] = from)
      /\ \A i \in 2 .. n : z[i] = f[z[i - 1]]
  BY DEF Along
<1> DEFINE Follows(g) == g = [i \in 1 .. n |-> IF i = 1 THEN from ELSE f[g[i - 1]]]
           w == Walk(f, from, n)
<1>1. w = CHOOSE g : Follows(g)
  BY DEF Walk
<1>2. Follows(z)
  <2>1. \A i \in 1 .. n : z[i] = IF i = 1 THEN from ELSE f[z[i - 1]]
    <3> SUFFICES ASSUME NEW i \in 1 .. n PROVE z[i] = IF i = 1 THEN from ELSE f[z[i - 1]]
      OBVIOUS
    <3>1. i = 1 \/ i \in 2 .. n
      OBVIOUS
    <3>2. i = 1 => z[i] = from
      BY <1>0
    <3>3. i # 1 => z[i] = f[z[i - 1]]
      BY <1>0, <3>1
    <3> QED
      BY <3>2, <3>3
  <2>2. [i \in 1 .. n |-> z[i]] = [i \in 1 .. n |-> IF i = 1 THEN from ELSE f[z[i - 1]]]
    BY <2>1, Zenon
  <2> QED
    BY <1>0, <2>2, Zenon
<1>3. Follows(w)
  <2> HIDE DEF Follows, w
  <2> QED
    BY <1>1, <1>2
<1> HIDE DEF w
<1>4. \A i \in 1 .. n : w[i] = IF i = 1 THEN from ELSE f[w[i - 1]]
  BY <1>3
<1> DEFINE Bad == {i \in 1 .. n : w[i] # z[i]}
<1>5. Bad = {}
  <2> SUFFICES ASSUME Bad # {} PROVE FALSE
    OBVIOUS
  <2>1. PICK m \in Bad : \A y \in Bad : m <= y
    <3>1. Bad \subseteq Nat
      OBVIOUS
    <3> HIDE DEF Bad
    <3> QED
      BY <3>1, LeastOf
  <2>2. m \in 1 .. n /\ w[m] # z[m]
    OBVIOUS
  <2>3. m # 1
    BY <1>0, <1>4, <2>2
  <2>4. m - 1 \in 1 .. n /\ m \in 2 .. n /\ m - 1 \notin Bad
    <3> HIDE DEF Bad
    <3> QED
      BY <2>1, <2>2, <2>3
  <2>5. w[m - 1] = z[m - 1]
    BY <2>4
  <2>6. w[m] = f[w[m - 1]] /\ z[m] = f[z[m - 1]]
    BY <1>0, <1>4, <2>2, <2>3, <2>4
  <2> QED
    BY <2>2, <2>5, <2>6
<1>6. \A i \in 1 .. n : w[i] = z[i]
  BY <1>5
<1>7. w = [i \in 1 .. n |-> w[i]]
  BY <1>3
<1>8. [i \in 1 .. n |-> w[i]] = [i \in 1 .. n |-> z[i]]
  BY <1>6
<1> QED
  BY <1>0, <1>7, <1>8 DEF w

(* No list of distinct tasks is longer than the task table. *)
LEMMA ListFits ==
  ASSUME NEW s \in Seq(Slots), SP!Distinct(s)
  PROVE  Len(s) <= TASK_MAX
<1>1. Len(s) \in Nat /\ s \in [1 .. Len(s) -> Slots] /\ TASK_MAX \in Nat
  BY SlotFacts
<1>2. IsFiniteSet(Slots) /\ Cardinality(Slots) = TASK_MAX
  BY <1>1, FS_Interval DEF Slots
<1>3. IsFiniteSet(1 .. Len(s)) /\ Cardinality(1 .. Len(s)) = Len(s)
  BY <1>1, FS_Interval
<1>4. ASSUME Len(s) > TASK_MAX PROVE FALSE
  <2>1. Cardinality(Slots) < Cardinality(1 .. Len(s))
    BY <1>1, <1>2, <1>3, <1>4
  <2>2. \E x, y \in 1 .. Len(s) : x # y /\ s[x] = s[y]
    BY <1>1, <1>2, <1>3, <2>1, FS_PigeonHole
  <2> QED
    BY <2>2 DEF SP!Distinct
<1> QED
  BY <1>1, <1>4

(* What a reader of the links needs: the ring up to its last member, and   *)
(* the sleep list up to its NULL.                                          *)
Seen(Q, r, s) ==
  /\ r \in Seq(Slots) /\ Q.count = Len(r) /\ (r # << >> => Q.head = r[1])
  /\ \A i \in 1 .. Len(r) - 1 : Q.next[r[i]] = r[i + 1]
  /\ Chain(Q, s) /\ Q.next[Null] = Null

LEMMA ListsSeen ==
  ASSUME NEW Q, NEW r, NEW s, Lists(Q, r, s)
  PROVE  Seen(Q, r, s)
<1>1. r \in Seq(Slots) /\ Len(r) \in Nat /\ Ring(Q, r)
  BY DEF Lists, Ring
<1>2. \A i \in 1 .. Len(r) - 1 : Q.next[r[i]] = r[i + 1]
  BY <1>1 DEF Ring, NextIn
<1> QED
  BY <1>1, <1>2 DEF Lists, Ring, Seen

SleepOf(Q) ==
  LET w == Walk(Q.next, Q.sleep, TASK_MAX + 1)
      n == CHOOSE k \in 0 .. TASK_MAX :
             /\ w[k + 1] = Null
             /\ \A i \in 1 .. k : w[i] # Null
  IN  SubSeq(w, 1, n)

LEMMA WalksSee ==
  ASSUME NEW Q, NEW r, NEW s, Seen(Q, r, s)
  PROVE  Walk(Q.next, Q.head, Q.count) = r /\ SleepOf(Q) = s
<1>1. /\ r \in Seq(Slots) /\ s \in Seq(Slots) /\ Len(r) \in Nat /\ Len(s) \in Nat
      /\ Len(s) <= TASK_MAX /\ TASK_MAX \in Nat /\ Q.count = Len(r)
  BY ListFits, SlotFacts DEF Seen, Chain
<1>2. Walk(Q.next, Q.head, Q.count) = r
  <2>1. r = [i \in 1 .. Len(r) |-> r[i]]
    BY <1>1
  <2>2. Len(r) >= 1 => r[1] = Q.head
    BY <1>1 DEF Seen
  <2>3. \A i \in 2 .. Len(r) : r[i] = Q.next[r[i - 1]]
    <3> SUFFICES ASSUME NEW i \in 2 .. Len(r) PROVE r[i] = Q.next[r[i - 1]]
      OBVIOUS
    <3>1. i - 1 \in 1 .. Len(r) - 1 /\ i - 1 + 1 = i
      BY <1>1
    <3> QED
      BY <3>1 DEF Seen
  <2>4. Along(Q.next, Q.head, Len(r), r)
    BY <2>1, <2>2, <2>3 DEF Along
  <2> QED
    BY <1>1, <2>4, WalkIs
<1> DEFINE N == TASK_MAX + 1
           z == [i \in 1 .. N |-> IF i <= Len(s) THEN s[i] ELSE Null]
           w == Walk(Q.next, Q.sleep, N)
<1>3. w = z
  <2>1. z = [i \in 1 .. N |-> z[i]]
    OBVIOUS
  <2>2. z[1] = Q.sleep
    BY <1>1 DEF Seen, Chain
  <2>3. \A i \in 2 .. N : z[i] = Q.next[z[i - 1]]
    <3> SUFFICES ASSUME NEW i \in 2 .. N PROVE z[i] = Q.next[z[i - 1]]
      OBVIOUS
    <3>1. /\ i \in 1 .. N /\ i - 1 \in 1 .. N
          /\ z[i] = (IF i <= Len(s) THEN s[i] ELSE Null)
          /\ z[i - 1] = (IF i - 1 <= Len(s) THEN s[i - 1] ELSE Null)
      BY <1>1
    <3>2. CASE i - 1 <= Len(s)
      <4>1. i - 1 \in 1 .. Len(s) /\ i - 1 + 1 = i /\ (i - 1 = Len(s) <=> ~(i <= Len(s)))
        BY <1>1, <3>2
      <4>2. Q.next[s[i - 1]] = IF i - 1 = Len(s) THEN Null ELSE s[i]
        BY <4>1 DEF Seen, Chain
      <4> QED
        BY <3>1, <3>2, <4>1, <4>2
    <3>3. CASE ~(i - 1 <= Len(s))
      <4>1. ~(i <= Len(s)) /\ Q.next[Null] = Null
        BY <1>1, <3>3 DEF Seen
      <4> QED
        BY <3>1, <3>3, <4>1
    <3> QED
      BY <3>2, <3>3
  <2>4. N \in Nat
    BY <1>1
  <2>5. Walk(Q.next, Q.sleep, N) = z
    <3> HIDE DEF z, N, w
    <3>1. Along(Q.next, Q.sleep, N, z)
      BY <2>1, <2>2, <2>3, Zenon DEF Along
    <3> QED
      BY <2>4, <3>1, WalkIs
  <2> QED
    BY <2>5
<1>4. /\ \A i \in 1 .. Len(s) : z[i] = s[i] /\ z[i] # Null
      /\ z[Len(s) + 1] = Null /\ Len(s) \in 0 .. TASK_MAX
  <2>1. ASSUME NEW i \in 1 .. Len(s) PROVE z[i] = s[i] /\ z[i] # Null
    <3>1. i \in 1 .. N /\ i <= Len(s) /\ s[i] \in Slots
      BY <1>1
    <3> QED
      BY <3>1, SlotFacts
  <2>2. Len(s) + 1 \in 1 .. N /\ ~(Len(s) + 1 <= Len(s)) /\ Len(s) \in 0 .. TASK_MAX
    BY <1>1
  <2> QED
    BY <2>1, <2>2
<1>5. Len(s) = CHOOSE k \in 0 .. TASK_MAX : z[k + 1] = Null /\ \A i \in 1 .. k : z[i] # Null
  <2> DEFINE End(k) == z[k + 1] = Null /\ \A i \in 1 .. k : z[i] # Null
  <2>1. End(Len(s))
    BY <1>4
  <2>2. ASSUME NEW k \in 0 .. TASK_MAX, End(k) PROVE k = Len(s)
    <3>1. ~(k < Len(s))
      <4> SUFFICES ASSUME k < Len(s) PROVE FALSE
        OBVIOUS
      <4>1. k + 1 \in 1 .. Len(s)
        BY <1>1
      <4> QED
        BY <1>4, <2>2, <4>1
    <3>2. ~(k > Len(s))
      <4> SUFFICES ASSUME k > Len(s) PROVE FALSE
        OBVIOUS
      <4>1. Len(s) + 1 \in 1 .. k
        BY <1>1
      <4> QED
        BY <1>4, <2>2, <4>1
    <3> QED
      BY <1>1, <3>1, <3>2
  <2> HIDE DEF z, End
  <2>3. Len(s) = CHOOSE k \in 0 .. TASK_MAX : End(k)
    BY <1>4, <2>1, <2>2
  <2> QED
    BY <2>3 DEF End
<1>6. SleepOf(Q) = SubSeq(z, 1, Len(s))
  <2>1. SleepOf(Q) = LET n == CHOOSE k \in 0 .. TASK_MAX : w[k + 1] = Null /\ \A i \in 1 .. k : w[i] # Null
                     IN  SubSeq(w, 1, n)
    BY DEF SleepOf
  <2> HIDE DEF w, z
  <2> QED
    BY <1>3, <1>5, <2>1
<1>7. SubSeq(z, 1, Len(s)) = s
  <2>1. z \in Seq(Cells) /\ Len(z) = N
    BY <1>1, SlotFacts
  <2>2. \A i \in 1 .. Len(s) : z[i] = s[i]
    BY <1>4
  <2>3. N >= Len(s) /\ N \in Nat
    BY <1>1
  <2> HIDE DEF z, N
  <2>4. /\ SubSeq(z, 1, Len(s)) \in Seq(Cells) /\ Len(SubSeq(z, 1, Len(s))) = Len(s)
        /\ \A i \in 1 .. Len(s) : SubSeq(z, 1, Len(s))[i] = z[i]
    BY <1>1, <2>1, <2>3
  <2> QED
    BY <1>1, <2>2, <2>4
<1> QED
  BY <1>2, <1>6, <1>7

-----------------------------------------------------------------------------
(* Taking a task out of the sleep list. *)

Without(c, x) == [y \in 1 .. Len(c) - 1 |-> IF y < x THEN c[y] ELSE c[y + 1]]

Unlinked(Q, pp, t) ==
  IF pp = Null THEN [Q EXCEPT !.sleep = Q.next[t]] ELSE Link(Q, pp, Q.next[t])

(* *pp = t->next takes t, and only t, out of the sleep list. *)
LEMMA UnlinkLists ==
  ASSUME NEW Q, NEW r, NEW c, Lists(Q, r, c), NEW x \in 1 .. Len(c),
         NEW pp, pp = IF x = 1 THEN Null ELSE c[x - 1]
  PROVE  /\ Lists(Unlinked(Q, pp, c[x]), r, Without(c, x))
         /\ Unlinked(Q, pp, c[x]).state = Q.state
         /\ c[x] = IF pp = Null THEN Q.sleep ELSE Q.next[pp]
<1> DEFINE t == c[x]  P == Unlinked(Q, pp, t)  d == Without(c, x)  n == Len(c)
<1>1. /\ Q \in Queues /\ r \in Seq(Slots) /\ c \in Seq(Slots) /\ n \in Nat /\ Len(r) \in Nat
      /\ Ring(Q, r) /\ Chain(Q, c) /\ Apart(r, c) /\ Q.next[Null] = Null /\ x \in Nat /\ x >= 1 /\ x <= n
  BY DEF Lists, Ring, Chain
<1>2. /\ \A i \in 1 .. n : c[i] \in Slots /\ c[i] \in Cells /\ c[i] # Null
      /\ \A i \in 1 .. Len(r) : r[i] \in Cells
  BY <1>1, SlotFacts
<1>3. /\ Q.next \in [Cells -> Cells] /\ Null \in Cells
      /\ (x > 1 => x - 1 \in 1 .. n) /\ (pp = Null <=> x = 1)
  BY <1>1, <1>2, SlotFacts DEF Queues
<1>4. t = IF pp = Null THEN Q.sleep ELSE Q.next[pp]
  <2>1. CASE x = 1
    BY <1>1, <1>3, <2>1 DEF Chain
  <2>2. CASE x # 1
    <3>1. x - 1 \in 1 .. n /\ x - 1 # n /\ x - 1 + 1 = x /\ pp = c[x - 1]
      BY <1>1, <2>2
    <3>2. Q.next[c[x - 1]] = c[x - 1 + 1]
      BY <1>1, <3>1 DEF Chain
    <3> QED
      BY <1>3, <2>2, <3>1, <3>2
  <2> QED
    BY <2>1, <2>2
<1>5. d \in Seq(Slots) /\ Len(d) = n - 1 /\ \A y \in 1 .. n - 1 : d[y] = IF y < x THEN c[y] ELSE c[y + 1]
  <2>1. n - 1 \in Nat /\ d = [y \in 1 .. n - 1 |-> IF y < x THEN c[y] ELSE c[y + 1]]
    BY <1>1 DEF Without
  <2>2. \A y \in 1 .. n - 1 : y \in 1 .. n /\ y + 1 \in 1 .. n
    BY <1>1
  <2>3. d \in [1 .. n - 1 -> Slots]
    BY <1>2, <2>1, <2>2
  <2>4. d \in Seq(Slots) /\ Len(d) = n - 1
    <3> HIDE DEF d
    <3>1. \A m \in Nat : d \in [1 .. m -> Slots] => d \in Seq(Slots) /\ Len(d) = m
      OBVIOUS
    <3> QED
      BY <2>1, <2>3, <3>1
  <2> HIDE DEF d
  <2> QED
    BY <2>1, <2>4
<1> HIDE DEF d
<1>6. /\ P \in Queues /\ P.state = Q.state /\ P.prev = Q.prev /\ P.head = Q.head /\ P.count = Q.count
      /\ P.sleep = (IF x = 1 THEN Q.next[t] ELSE Q.sleep)
      /\ P.next = (IF x = 1 THEN Q.next ELSE [Q.next EXCEPT ![pp] = Q.next[t]])
  <2>1. t \in Cells /\ Q.next[t] \in Cells
    BY <1>1, <1>2, <1>3
  <2>2. CASE x = 1
    <3>1. P = [Q EXCEPT !.sleep = Q.next[t]]
      BY <1>3, <2>2 DEF Unlinked
    <3> HIDE DEF P, t
    <3> QED
      BY <1>1, <2>1, <2>2, <3>1 DEF Queues
  <2>3. CASE x # 1
    <3>1. P = [Q EXCEPT !.next[pp] = Q.next[t]] /\ pp \in Cells
      BY <1>1, <1>2, <1>3, <2>3 DEF Unlinked, Link
    <3> HIDE DEF P, t
    <3> QED
      BY <1>1, <1>3, <2>1, <2>3, <3>1 DEF Queues
  <2> QED
    BY <2>2, <2>3
<1> HIDE DEF P
<1>7. SP!Distinct(d) /\ Apart(r, d)
  <2>1. \A y \in 1 .. n - 1 : y \in 1 .. n /\ y + 1 \in 1 .. n
    BY <1>1
  <2>2. SP!Distinct(d)
    <3> SUFFICES ASSUME NEW i \in 1 .. n - 1, NEW j \in 1 .. n - 1, d[i] = d[j] PROVE i = j
      BY <1>5 DEF SP!Distinct
    <3>1. \A a, b \in 1 .. n : c[a] = c[b] => a = b
      BY <1>1 DEF Chain, SP!Distinct
    <3> QED
      BY <1>1, <1>5, <2>1, <3>1
  <2>3. Apart(r, d)
    BY <1>1, <1>5, <2>1 DEF Apart
  <2> QED
    BY <2>2, <2>3
<1>8. pp # Null => pp \in Cells /\ (\A i \in 1 .. Len(r) : r[i] # pp)
  BY <1>1, <1>2, <1>3 DEF Apart
<1>9. Ring(P, r) /\ P.next[Null] = Null
  <2>1. \A i \in 1 .. Len(r) : P.next[r[i]] = Q.next[r[i]]
    BY <1>2, <1>3, <1>6, <1>8
  <2>2. P.next[Null] = Null
    BY <1>1, <1>3, <1>6, <1>8
  <2> QED
    BY <1>1, <1>6, <2>1, <2>2 DEF Ring
<1>10. \A i \in 1 .. n, j \in Nat : j = i + 1 => Q.next[c[i]] = IF i = n THEN Null ELSE c[j]
  BY <1>1 DEF Chain
<1>11. P.sleep = IF d = << >> THEN Null ELSE d[1]
  <2>1. d = << >> <=> n = 1
    BY <1>1, <1>5
  <2>2. CASE x = 1
    <3>1. P.sleep = (IF n = 1 THEN Null ELSE c[2])
      <4>1. 1 \in 1 .. n /\ t = c[1] /\ P.sleep = Q.next[c[1]]
        BY <1>1, <1>6, <2>2
      <4>2. Q.next[c[1]] = (IF 1 = n THEN Null ELSE c[2])
        <5>1. \A i \in 1 .. n : Q.next[c[i]] = IF i = n THEN Null ELSE c[i + 1]
          BY <1>1 DEF Chain
        <5>2. Q.next[c[1]] = IF 1 = n THEN Null ELSE c[1 + 1]
          BY <4>1, <5>1, Zenon
        <5> QED
          BY <5>2
      <4> QED
        BY <4>1, <4>2
    <3>2. n # 1 => d[1] = c[2]
      BY <1>1, <1>5, <2>2
    <3> QED
      BY <2>1, <3>1, <3>2
  <2>3. CASE x # 1
    <3>1. n # 1 /\ d[1] = c[1] /\ n # 0
      BY <1>1, <1>5, <2>3
    <3>2. Q.sleep = c[1]
      BY <1>1, <3>1 DEF Chain
    <3> QED
      BY <1>6, <2>1, <2>3, <3>1, <3>2
  <2> QED
    BY <2>2, <2>3
<1>12. ASSUME NEW y \in 1 .. n - 1 PROVE P.next[d[y]] = IF y = n - 1 THEN Null ELSE d[y + 1]
  <2>0. /\ y \in 1 .. n /\ y + 1 \in 1 .. n /\ y \in Nat /\ (y # n - 1 => y + 1 \in 1 .. n - 1 /\ y + 2 \in 1 .. n)
        /\ (y # n - 1 => d[y + 1] = IF y + 1 < x THEN c[y + 1] ELSE c[y + 2])
        /\ d[y] = IF y < x THEN c[y] ELSE c[y + 1]
    <3>1. \A a \in 1 .. n - 1, b \in Nat : b = a + 1 => d[a] = IF a < x THEN c[a] ELSE c[b]
      BY <1>5
    <3>2. /\ y \in 1 .. n /\ y + 1 \in 1 .. n /\ y \in Nat
          /\ (y # n - 1 => y + 1 \in 1 .. n - 1 /\ y + 2 \in 1 .. n /\ y + 2 = (y + 1) + 1)
      BY <1>1
    <3> QED
      BY <3>1, <3>2
  <2>1. CASE y + 1 < x
    <3>1. P.next[c[y]] = Q.next[c[y]]
      <4>1. c[y] # c[x - 1]
        BY <1>1, <1>3, <2>0, <2>1 DEF Chain, SP!Distinct
      <4> QED
        BY <1>1, <1>2, <1>3, <1>6, <1>8, <2>0, <2>1, <4>1
    <3>2. Q.next[c[y]] = c[y + 1]
      BY <1>1, <1>10, <2>0, <2>1
    <3> QED
      BY <1>1, <2>0, <2>1, <3>1, <3>2
  <2>2. CASE y + 1 = x
    <3>1. pp = c[y] /\ x # 1 /\ d[y] = c[y]
      BY <1>1, <2>0, <2>2
    <3>2. P.next[c[y]] = Q.next[c[x]]
      BY <1>3, <1>6, <1>8, <3>1
    <3>3. Q.next[c[x]] = IF x = n THEN Null ELSE c[x + 1]
      BY <1>1, <1>10
    <3> QED
      BY <1>1, <2>0, <2>2, <3>1, <3>2, <3>3
  <2>3. CASE y >= x
    <3>1. P.next[c[y + 1]] = Q.next[c[y + 1]]
      <4>1. c[y + 1] # Null /\ c[y + 1] \in Cells
        BY <1>2, <2>0
      <4>2. ASSUME x # 1 PROVE c[y + 1] # pp
        <5>1. x - 1 \in 1 .. n /\ x - 1 # y + 1 /\ y + 1 \in 1 .. n
          BY <1>1, <2>0, <2>3, <4>2
        <5> QED
          BY <1>1, <4>2, <5>1 DEF Chain, SP!Distinct
      <4> QED
        BY <1>3, <1>6, <1>8, <4>1, <4>2
    <3>2. Q.next[c[y + 1]] = IF y + 1 = n THEN Null ELSE c[y + 2]
      <4>1. Q.next[c[y + 1]] = (IF y + 1 = n THEN Null ELSE c[(y + 1) + 1]) /\ (y + 1) + 1 = y + 2
        BY <1>1, <2>0 DEF Chain
      <4> QED
        BY <4>1
    <3> QED
      BY <1>1, <2>0, <2>3, <3>1, <3>2
  <2> QED
    BY <1>1, <2>0, <2>1, <2>2, <2>3
<1>13. Chain(P, d)
  BY <1>5, <1>7, <1>11, <1>12 DEF Chain
<1> QED
  BY <1>4, <1>6, <1>7, <1>9, <1>13 DEF Lists, P, d

-----------------------------------------------------------------------------
(* sq_wake_due. *)

(* v holds, in the order of s, the tasks of T among the first i of s. *)
Picked(v, s, i, T) ==
  /\ v \in Seq(Slots)
  /\ \A t : SP!In(t, v) <=> t \in T /\ \E l \in 1 .. i : s[l] = t
  /\ \A a, b \in 1 .. Len(v) : a < b => SP!Before(s, v[a], v[b])

LEMMA PickedNone ==
  ASSUME NEW s, NEW T
  PROVE  Picked(<< >>, s, 0, T)
BY DEF Picked, SP!In

LEMMA PickedSkip ==
  ASSUME NEW s \in Seq(Slots), NEW i \in Nat, i < Len(s), NEW T, NEW v, Picked(v, s, i, T),
         s[i + 1] \notin T
  PROVE  Picked(v, s, i + 1, T)
<1>1. ASSUME NEW t PROVE SP!In(t, v) <=> t \in T /\ \E l \in 1 .. i + 1 : s[l] = t
  <2>1. SP!In(t, v) <=> t \in T /\ \E l \in 1 .. i : s[l] = t
    BY DEF Picked
  <2>2. \A l : l \in 1 .. i + 1 <=> l \in 1 .. i \/ l = i + 1
    OBVIOUS
  <2> QED
    BY <2>1, <2>2
<1> QED
  BY <1>1 DEF Picked

LEMMA PickedTake ==
  ASSUME NEW s \in Seq(Slots), NEW i \in Nat, i < Len(s), NEW T, NEW v, Picked(v, s, i, T),
         s[i + 1] \in T
  PROVE  Picked(Append(v, s[i + 1]), s, i + 1, T)
<1> DEFINE x == s[i + 1]  u == Append(v, x)  m == Len(v)
<1>1. /\ v \in Seq(Slots) /\ m \in Nat /\ x \in Slots /\ i + 1 \in 1 .. Len(s)
      /\ u \in Seq(Slots) /\ Len(u) = m + 1 /\ u[m + 1] = x /\ \A a \in 1 .. m : u[a] = v[a]
  BY DEF Picked
<1> HIDE DEF u
<1>2. ASSUME NEW t PROVE SP!In(t, u) <=> t \in T /\ \E l \in 1 .. i + 1 : s[l] = t
  <2>1. SP!In(t, v) <=> t \in T /\ \E l \in 1 .. i : s[l] = t
    BY DEF Picked
  <2>2. \A l : l \in 1 .. i + 1 <=> l \in 1 .. i \/ l = i + 1
    OBVIOUS
  <2>3. \A l : l \in 1 .. m + 1 <=> l \in 1 .. m \/ l = m + 1
    BY <1>1
  <2>4. SP!In(t, u) <=> SP!In(t, v) \/ t = x
    BY <1>1, <2>3 DEF SP!In
  <2> QED
    BY <2>1, <2>2, <2>4
<1>3. ASSUME NEW a \in 1 .. m + 1, NEW b \in 1 .. m + 1, a < b PROVE SP!Before(s, u[a], u[b])
  <2>1. a \in 1 .. m /\ u[a] = v[a]
    BY <1>1, <1>3
  <2>2. CASE b \in 1 .. m
    BY <1>1, <1>3, <2>1, <2>2 DEF Picked
  <2>3. CASE b = m + 1
    <3>1. SP!In(v[a], v)
      BY <2>1 DEF SP!In
    <3>2. PICK l \in 1 .. i : s[l] = v[a]
      BY <3>1 DEF Picked
    <3>3. l \in 1 .. Len(s) /\ l < i + 1
      BY <1>1
    <3> QED
      BY <1>1, <2>1, <2>3, <3>2, <3>3 DEF SP!Before
  <2> QED
    BY <1>1, <2>2, <2>3
<1> QED
  BY <1>1, <1>2, <1>3 DEF Picked, u

(* Picking through the whole list enumerates the set in its order. *)
LEMMA PickedAll ==
  ASSUME NEW s \in Seq(Slots), SP!Distinct(s), NEW T, \A t \in T : SP!In(t, s),
         NEW v, Picked(v, s, Len(s), T)
  PROVE  v \in SP!InOrder(s, T)
<1> DEFINE m == Len(v)
<1>1. v \in Seq(Slots) /\ m \in Nat /\ Len(s) \in Nat
  BY DEF Picked
<1>2. \A t : SP!In(t, v) <=> t \in T
  BY DEF Picked, SP!In
<1>3. v \in [1 .. m -> T] /\ \A t \in T : \E i \in 1 .. m : v[i] = t
  BY <1>1, <1>2 DEF SP!In
<1>4. \A a, b \in 1 .. m : v[a] = v[b] => a = b
  <2> SUFFICES ASSUME NEW a \in 1 .. m, NEW b \in 1 .. m, v[a] = v[b], a # b PROVE FALSE
    OBVIOUS
  <2>1. SP!Before(s, v[a], v[b]) \/ SP!Before(s, v[b], v[a])
    BY <1>1 DEF Picked
  <2> QED
    BY <2>1 DEF SP!Before, SP!Distinct
<1>6. \A a, b \in 1 .. m : a < b => SP!Before(s, v[a], v[b])
  BY DEF Picked
<1> HIDE DEF m
<1>7. \A c : c = m => v \in { w \in [1 .. c -> T] :
                               /\ \A t \in T : \E i \in 1 .. c : w[i] = t
                               /\ \A i, j \in 1 .. c : i < j => SP!Before(s, w[i], w[j]) }
  BY <1>3, <1>6
<1>8. SP!Cardinality(T) = m
  <2>1. v \in SP!Bijection(1 .. m, T)
    BY <1>3, <1>4 DEF SP!Bijection, SP!Injection, SP!Surjection, SP!IsInjective
  <2>2. SP!ExistsBijection(1 .. m, T)
    BY <2>1 DEF SP!ExistsBijection
  <2>3. m \in Nat
    BY <1>1 DEF m
  <2> QED
    BY <2>2, <2>3, SP!FS_CountingElements, Assumed
<1> QED
  BY <1>7, <1>8 DEF SP!InOrder

(* The sleep list when the loop has passed i sleepers and kept k. *)
Rest(k, s, i) ==
  [x \in 1 .. Len(k) + Len(s) - i |-> IF x <= Len(k) THEN k[x] ELSE s[x - Len(k) + i]]

LEMMA RestFacts ==
  ASSUME NEW k \in Seq(Slots), NEW s \in Seq(Slots), NEW i \in 0 .. Len(s)
  PROVE  /\ Rest(k, s, i) \in Seq(Slots) /\ Len(Rest(k, s, i)) = Len(k) + Len(s) - i
         /\ \A x \in 1 .. Len(k) + Len(s) - i :
              Rest(k, s, i)[x] = IF x <= Len(k) THEN k[x] ELSE s[x - Len(k) + i]
<1> DEFINE d == Rest(k, s, i)  m == Len(k) + Len(s) - i
<1>1. m \in Nat /\ Len(k) \in Nat /\ Len(s) \in Nat /\ i \in Nat
  OBVIOUS
<1>2. d = [x \in 1 .. m |-> IF x <= Len(k) THEN k[x] ELSE s[x - Len(k) + i]]
  BY DEF Rest
<1>3. \A x \in 1 .. m : (x <= Len(k) => k[x] \in Slots) /\ (~(x <= Len(k)) => s[x - Len(k) + i] \in Slots)
  <2> SUFFICES ASSUME NEW x \in 1 .. m
               PROVE  (x <= Len(k) => k[x] \in Slots) /\ (~(x <= Len(k)) => s[x - Len(k) + i] \in Slots)
    OBVIOUS
  <2>1. (x <= Len(k) => x \in 1 .. Len(k)) /\ (~(x <= Len(k)) => x - Len(k) + i \in 1 .. Len(s))
    BY <1>1
  <2> QED
    BY <2>1
<1> HIDE DEF m
<1>4. d \in [1 .. m -> Slots]
  BY <1>2, <1>3
<1> HIDE DEF d
<1>5. d \in Seq(Slots) /\ Len(d) = m
  BY <1>1, <1>4
<1> QED
  BY <1>2, <1>5 DEF d, m

LEMMA RestEnds ==
  ASSUME NEW s \in Seq(Slots)
  PROVE  /\ Rest(<< >>, s, 0) = s
         /\ \A k \in Seq(Slots) : Rest(k, s, Len(s)) = k
<1>1. Len(s) \in Nat /\ << >> \in Seq(Slots) /\ Len(<< >>) = 0
  OBVIOUS
<1>2. Rest(<< >>, s, 0) = s
  <2>1. PICK e, z : e = << >> /\ z = 0
    OBVIOUS
  <2>2. Len(e) = 0 /\ Len(e) + Len(s) - z = Len(s)
    BY <1>1, <2>1
  <2>3. \A x \in 1 .. Len(s) : ~(x <= 0) /\ x - 0 + 0 = x
    BY <1>1
  <2>4. Rest(e, s, z) = [x \in 1 .. Len(s) |-> IF x <= 0 THEN e[x] ELSE s[x - 0 + 0]]
    BY <2>1, <2>2 DEF Rest
  <2>5. [x \in 1 .. Len(s) |-> IF x <= 0 THEN e[x] ELSE s[x - 0 + 0]] = [x \in 1 .. Len(s) |-> s[x]]
    BY <2>3
  <2> QED
    BY <2>1, <2>4, <2>5
<1>3. ASSUME NEW k \in Seq(Slots) PROVE Rest(k, s, Len(s)) = k
  <2> DEFINE d == Rest(k, s, Len(s))
  <2>1. d \in Seq(Slots) /\ Len(d) = Len(k) /\ \A x \in 1 .. Len(k) : d[x] = k[x]
    <3>1. /\ d \in Seq(Slots) /\ Len(d) = Len(k) + Len(s) - Len(s)
          /\ \A x \in 1 .. Len(k) + Len(s) - Len(s) :
               d[x] = IF x <= Len(k) THEN k[x] ELSE s[x - Len(k) + Len(s)]
      <4>1. Len(s) \in 0 .. Len(s)
        BY <1>1
      <4> QED
        BY <4>1, RestFacts
    <3>2. Len(k) \in Nat /\ Len(k) = Len(k) + Len(s) - Len(s)
      BY <1>1
    <3> HIDE DEF d
    <3> QED
      BY <3>1, <3>2
  <2> HIDE DEF d
  <2> QED
    BY <2>1 DEF d
<1> QED
  BY <1>2, <1>3

LEMMA RestKeep ==
  ASSUME NEW k \in Seq(Slots), NEW s \in Seq(Slots), NEW i \in Nat, i < Len(s)
  PROVE  Rest(Append(k, s[i + 1]), s, i + 1) = Rest(k, s, i)
<1> DEFINE u == Append(k, s[i + 1])
<1>1. /\ Len(k) \in Nat /\ Len(s) \in Nat /\ i + 1 \in 1 .. Len(s) /\ s[i + 1] \in Slots
      /\ u \in Seq(Slots) /\ Len(u) = Len(k) + 1 /\ u[Len(k) + 1] = s[i + 1]
      /\ \A x \in 1 .. Len(k) : u[x] = k[x]
  OBVIOUS
<1> HIDE DEF u
<1>2. Len(u) + Len(s) - (i + 1) = Len(k) + Len(s) - i
  BY <1>1
<1>3. ASSUME NEW x \in 1 .. Len(k) + Len(s) - i
      PROVE  (IF x <= Len(u) THEN u[x] ELSE s[x - Len(u) + (i + 1)])
             = (IF x <= Len(k) THEN k[x] ELSE s[x - Len(k) + i])
  <2>1. CASE x <= Len(k)
    <3>1. x \in 1 .. Len(k) /\ x <= Len(u)
      BY <1>1, <2>1
    <3> QED
      BY <1>1, <2>1, <3>1
  <2>2. CASE x = Len(k) + 1
    <3>1. x <= Len(u) /\ ~(x <= Len(k)) /\ x - Len(k) + i = i + 1
      BY <1>1, <2>2
    <3> QED
      BY <1>1, <2>2, <3>1
  <2>3. CASE x > Len(k) + 1
    <3>1. ~(x <= Len(u)) /\ ~(x <= Len(k)) /\ x - Len(u) + (i + 1) = x - Len(k) + i
      BY <1>1, <2>3
    <3> QED
      BY <3>1
  <2> QED
    BY <1>1, <2>1, <2>2, <2>3
<1> QED
  BY <1>2, <1>3 DEF Rest, u

LEMMA RestDrop ==
  ASSUME NEW k \in Seq(Slots), NEW s \in Seq(Slots), NEW i \in Nat, i < Len(s)
  PROVE  Rest(k, s, i + 1) = Without(Rest(k, s, i), Len(k) + 1)
<1> DEFINE d == Rest(k, s, i)  m == Len(k) + Len(s) - i
<1>1. Len(k) \in Nat /\ Len(s) \in Nat /\ i \in 0 .. Len(s)
  OBVIOUS
<1>2. Len(d) = m /\ \A x \in 1 .. m : d[x] = IF x <= Len(k) THEN k[x] ELSE s[x - Len(k) + i]
  BY <1>1, RestFacts
<1> HIDE DEF d
<1>3. Len(k) + Len(s) - (i + 1) = m - 1 /\ m \in Nat
  BY <1>1
<1>4. ASSUME NEW y \in 1 .. m - 1
      PROVE  (IF y <= Len(k) THEN k[y] ELSE s[y - Len(k) + (i + 1)])
             = (IF y < Len(k) + 1 THEN d[y] ELSE d[y + 1])
  <2>1. y \in 1 .. m /\ y + 1 \in 1 .. m
    BY <1>3
  <2>2. CASE y <= Len(k)
    <3>1. y < Len(k) + 1
      BY <1>1, <2>1, <2>2
    <3>2. d[y] = k[y]
      BY <1>2, <2>1, <2>2
    <3> QED
      BY <2>2, <3>1, <3>2
  <2>3. CASE ~(y <= Len(k))
    <3>1. ~(y < Len(k) + 1) /\ ~(y + 1 <= Len(k)) /\ y + 1 - Len(k) + i = y - Len(k) + (i + 1)
      BY <1>1, <2>1, <2>3
    <3>2. d[y + 1] = s[y + 1 - Len(k) + i]
      BY <1>2, <2>1, <3>1
    <3> QED
      BY <2>3, <3>1, <3>2
  <2> QED
    BY <2>2, <2>3
<1>5. Without(d, Len(k) + 1) = [y \in 1 .. m - 1 |-> IF y < Len(k) + 1 THEN d[y] ELSE d[y + 1]]
  BY <1>2 DEF Without
<1>6. Rest(k, s, i + 1) = [y \in 1 .. m - 1 |-> IF y <= Len(k) THEN k[y] ELSE s[y - Len(k) + (i + 1)]]
  BY <1>3 DEF Rest
<1> QED
  BY <1>4, <1>5, <1>6 DEF d

(* The sleepers due at tick now and the others; the states once v is woken. *)
Due(s, now)    == {t \in Slots : SP!In(t, s) /\ now >= wake_tick[t]}
Asleep(s, now) == {t \in Slots : SP!In(t, s)} \ Due(s, now)
Woken(st, v)   == [t \in Slots |-> IF SP!In(t, v) THEN "READY" ELSE st[t]]

(* After i rounds: k kept, v woken and at the end of the ring. *)
Loop(W, Q, r, s, i, now, k, v) ==
  /\ Picked(k, s, i, Asleep(s, now)) /\ Picked(v, s, i, Due(s, now))
  /\ W = [q |-> W.q, pp |-> IF k = << >> THEN Null ELSE k[Len(k)]]
  /\ Lists(W.q, r \o v, Rest(k, s, i)) /\ W.q.state = Woken(Q.state, v)

(* One round of the loop, at the sleeper *pp. *)
Pointed(W) == IF W.pp = Null THEN W.q.sleep ELSE W.q.next[W.pp]
Rung(W, t) == rq_push_back([Unlinked(W.q, W.pp, t) EXCEPT !.state[t] = "READY"], t)

LEMMA RoundIs ==
  ASSUME NEW W, NEW now \in Nat, NEW t \in Slots, wake_tick \in [Slots -> Nat], Pointed(W) = t
  PROVE  /\ now < wake_tick[t] => wake_round(W, now) = [W EXCEPT !.pp = t]
         /\ now >= wake_tick[t] => wake_round(W, now) = [W EXCEPT !.q = Rung(W, t)]
<1> DEFINE Round(u) ==
      CASE u = Null -> W
        [] u # Null /\ now < wake_tick[u] -> [W EXCEPT !.pp = u]
        [] u # Null /\ now >= wake_tick[u] -> [W EXCEPT !.q = Rung(W, u)]
<1>1. wake_round(W, now) = Round(Pointed(W))
  BY DEF wake_round, Unlinked, Pointed, Rung
<1>2. wake_round(W, now) = Round(t)
  <2> HIDE DEF Round
  <2> QED
    BY <1>1
<1>3. t # Null /\ wake_tick[t] \in Nat /\ (now >= wake_tick[t] <=> ~(now < wake_tick[t]))
  BY SlotFacts
<1>4. CASE now < wake_tick[t]
  BY <1>2, <1>3, <1>4
<1>5. CASE now >= wake_tick[t]
  BY <1>2, <1>3, <1>5
<1> QED
  BY <1>3, <1>4, <1>5

LEMMA AppendLast ==
  ASSUME NEW v \in Seq(Slots), NEW t \in Slots
  PROVE  /\ Append(v, t) # << >> /\ Len(Append(v, t)) = Len(v) + 1
         /\ Append(v, t)[Len(v) + 1] = t
OBVIOUS

LEMMA AppendCat ==
  ASSUME NEW r \in Seq(Slots), NEW v \in Seq(Slots), NEW t \in Slots
  PROVE  Append(r \o v, t) = r \o Append(v, t)
<1> DEFINE a == Append(r \o v, t)  b == r \o Append(v, t)
<1>1. /\ a \in Seq(Slots) /\ b \in Seq(Slots) /\ Len(r) \in Nat /\ Len(v) \in Nat
      /\ Len(a) = Len(r) + Len(v) + 1 /\ Len(b) = Len(r) + Len(v) + 1
  OBVIOUS
<1>2. ASSUME NEW x \in 1 .. Len(r) + Len(v) + 1 PROVE a[x] = b[x]
  <2>1. CASE x <= Len(r)
    BY <1>1, <2>1
  <2>2. CASE x > Len(r) /\ x <= Len(r) + Len(v)
    BY <1>1, <2>2
  <2>3. CASE x = Len(r) + Len(v) + 1
    BY <1>1, <2>3
  <2> QED
    BY <1>1, <2>1, <2>2, <2>3
<1> HIDE DEF a, b
<1>3. a = b
  BY <1>1, <1>2
<1> QED
  BY <1>3 DEF a, b

LEMMA RoundLists ==
  ASSUME NEW Q, NEW r \in Seq(Slots), NEW s \in Seq(Slots), NEW i \in Nat, i < Len(s), NEW now \in Nat,
         wake_tick \in [Slots -> Nat], NEW W, NEW k, NEW v, Loop(W, Q, r, s, i, now, k, v)
  PROVE  \E kk, vv : Loop(wake_round(W, now), Q, r, s, i + 1, now, kk, vv)
<1> DEFINE t == s[i + 1]  c == Rest(k, s, i)  x == Len(k) + 1  pp == W.pp
           U == Unlinked(W.q, pp, t)
<1>1. /\ k \in Seq(Slots) /\ v \in Seq(Slots) /\ Len(k) \in Nat /\ Len(v) \in Nat /\ Len(s) \in Nat
      /\ t \in Slots /\ SP!In(t, s) /\ i \in 0 .. Len(s) /\ Len(r) \in Nat
  <2>1. k \in Seq(Slots) /\ v \in Seq(Slots)
    BY DEF Loop, Picked
  <2>2. Len(k) \in Nat /\ Len(v) \in Nat /\ Len(s) \in Nat /\ Len(r) \in Nat /\ i + 1 \in 1 .. Len(s)
    BY <2>1
  <2>3. t \in Slots /\ SP!In(t, s)
    BY <2>2 DEF SP!In
  <2> QED
    BY <2>1, <2>2, <2>3
<1>2. /\ W = [q |-> W.q, pp |-> IF k = << >> THEN Null ELSE k[Len(k)]]
      /\ Lists(W.q, r \o v, c) /\ W.q.state = Woken(Q.state, v)
      /\ Picked(k, s, i, Asleep(s, now)) /\ Picked(v, s, i, Due(s, now))
  BY DEF Loop
<1>3. /\ c \in Seq(Slots) /\ Len(c) = Len(k) + Len(s) - i
      /\ \A y \in 1 .. Len(k) + Len(s) - i : c[y] = IF y <= Len(k) THEN k[y] ELSE s[y - Len(k) + i]
  BY <1>1, RestFacts
<1> HIDE DEF c
<1>4. x \in 1 .. Len(c) /\ c[x] = t /\ pp = IF x = 1 THEN Null ELSE c[x - 1]
  <2>1. x \in 1 .. Len(c) /\ ~(x <= Len(k)) /\ x - Len(k) + i = i + 1
    BY <1>1, <1>3
  <2>2. c[x] = s[i + 1]
    BY <1>3, <2>1
  <2>3. CASE k = << >>
    BY <1>1, <1>2, <2>1, <2>2, <2>3
  <2>4. CASE k # << >>
    <3>1. Len(k) \in 1 .. Len(k) + Len(s) - i /\ x # 1 /\ x - 1 = Len(k)
      BY <1>1, <2>4
    <3>2. c[Len(k)] = k[Len(k)]
      <4>1. c[Len(k)] = IF Len(k) <= Len(k) THEN k[Len(k)] ELSE s[Len(k) - Len(k) + i]
        BY <1>3, <3>1, Zenon
      <4> QED
        BY <1>1, <4>1
    <3>3. pp = k[Len(k)]
      BY <1>2, <2>4
    <3> QED
      BY <2>1, <2>2, <3>1, <3>2, <3>3
  <2> QED
    BY <2>3, <2>4
<1>5. /\ Lists(U, r \o v, Without(c, x)) /\ U.state = W.q.state
      /\ t = IF pp = Null THEN W.q.sleep ELSE W.q.next[pp]
  <2> HIDE DEF x
  <2>1. /\ Lists(Unlinked(W.q, pp, c[x]), r \o v, Without(c, x))
        /\ Unlinked(W.q, pp, c[x]).state = W.q.state
        /\ c[x] = IF pp = Null THEN W.q.sleep ELSE W.q.next[pp]
    BY <1>2, <1>4, UnlinkLists
  <2> QED
    BY <1>4, <2>1
<1>6. t # Null /\ wake_tick[t] \in Nat /\ Pointed(W) = t
  BY <1>1, <1>5, SlotFacts DEF Pointed
<1>7. CASE now < wake_tick[t]
  <2>1. wake_round(W, now) = [W EXCEPT !.pp = t]
    <3> HIDE DEF t
    <3> QED
      BY <1>1, <1>6, <1>7, RoundIs
  <2>2. t \notin Due(s, now) /\ t \in Asleep(s, now)
    BY <1>1, <1>6, <1>7 DEF Due, Asleep
  <2>3. Picked(Append(k, t), s, i + 1, Asleep(s, now)) /\ Picked(v, s, i + 1, Due(s, now))
    BY <1>1, <1>2, <2>2, PickedTake, PickedSkip
  <2>4. Rest(Append(k, t), s, i + 1) = c
    BY <1>1, RestKeep DEF c
  <2>5. /\ Append(k, t) # << >> /\ Len(Append(k, t)) = Len(k) + 1
        /\ Append(k, t)[Len(k) + 1] = t
    <3> HIDE DEF t
    <3> QED
      BY <1>1, AppendLast
  <2> DEFINE V == wake_round(W, now)  kk == Append(k, t)
  <2>6. V = [q |-> W.q, pp |-> t] /\ V.q = W.q
    BY <1>2, <2>1
  <2>7. Lists(V.q, r \o v, Rest(kk, s, i + 1)) /\ V.q.state = Woken(Q.state, v)
    BY <1>2, <2>4, <2>6
  <2>8. V = [q |-> V.q, pp |-> IF kk = << >> THEN Null ELSE kk[Len(kk)]]
    BY <2>5, <2>6
  <2> HIDE DEF V, kk
  <2>9. Loop(V, Q, r, s, i + 1, now, kk, v)
    BY <2>3, <2>7, <2>8 DEF Loop, kk
  <2> QED
    BY <2>9 DEF V
<1>8. CASE now >= wake_tick[t]
  <2> DEFINE X == [U EXCEPT !.state[t] = "READY"]  Y == rq_push_back(X, t)  vv == Append(v, t)
  <2>1. wake_round(W, now) = [W EXCEPT !.q = Y]
    <3>1. Y = Rung(W, t)
      BY DEF Rung
    <3> HIDE DEF t, Y
    <3> QED
      BY <1>1, <1>6, <1>8, <3>1, RoundIs
  <2>2. t \in Due(s, now) /\ t \notin Asleep(s, now)
    BY <1>1, <1>8 DEF Due, Asleep
  <2>3. Picked(k, s, i + 1, Asleep(s, now)) /\ Picked(vv, s, i + 1, Due(s, now))
    BY <1>1, <1>2, <2>2, PickedTake, PickedSkip
  <2> HIDE DEF U
  <2>4. U \in Queues
    BY <1>5 DEF Lists
  <2>5. /\ X \in Queues /\ X.head = U.head /\ X.count = U.count /\ X.sleep = U.sleep
        /\ X.next = U.next /\ X.prev = U.prev /\ X.state = [U.state EXCEPT ![t] = "READY"]
    BY <1>1, <2>4 DEF Queues
  <2> HIDE DEF X, Y
  <2>6. Lists(X, r \o v, Without(c, x))
    BY <1>5, <2>5, SameLists
  <2>7. ~SP!In(t, r \o v)
    BY <1>2, <1>4 DEF Lists, Apart, SP!In
  <2>8. ~SP!In(t, Without(c, x))
    <3>1. Len(Without(c, x)) = Len(c) - 1 /\ Len(c) \in Nat
      <4>1. Without(c, x) = [y \in 1 .. Len(c) - 1 |-> IF y < x THEN c[y] ELSE c[y + 1]] /\ Len(c) - 1 \in Nat
        BY <1>3, <1>4 DEF Without
      <4> DEFINE m == Len(c) - 1
      <4> HIDE DEF m
      <4>2. Without(c, x) = [y \in 1 .. m |-> IF y < x THEN c[y] ELSE c[y + 1]] /\ m \in Nat
        BY <4>1 DEF m
      <4>3. Len(Without(c, x)) = m
        BY <4>2
      <4> QED
        BY <1>3, <4>3 DEF m
    <3> SUFFICES ASSUME NEW y \in 1 .. Len(c) - 1, Without(c, x)[y] = t PROVE FALSE
      BY <3>1 DEF SP!In
    <3>2. y \in 1 .. Len(c) /\ y + 1 \in 1 .. Len(c) /\ t = IF y < x THEN c[y] ELSE c[y + 1]
      BY <3>1 DEF Without
    <3>3. \A a, b \in 1 .. Len(c) : c[a] = c[b] => a = b
      BY <1>2 DEF Lists, Chain, SP!Distinct
    <3>4. c[x] = t /\ x \in 1 .. Len(c) /\ Len(c) \in Nat
      BY <1>3, <1>4
    <3> HIDE DEF x, t
    <3>5. CASE y < x
      <4>1. c[y] = c[x] /\ y # x
        BY <3>2, <3>4, <3>5
      <4> QED
        BY <3>2, <3>3, <3>4, <4>1
    <3>6. CASE ~(y < x)
      <4>1. c[y + 1] = c[x] /\ y + 1 # x
        BY <3>2, <3>4, <3>6
      <4> QED
        BY <3>2, <3>3, <3>4, <4>1
    <3> QED
      BY <3>5, <3>6
  <2>9. Lists(Y, Append(r \o v, t), Without(c, x))
    BY <1>1, <2>6, <2>7, <2>8, PushLists DEF Y
  <2>10. Append(r \o v, t) = r \o vv
    BY <1>1, AppendCat
  <2>11. Without(c, x) = Rest(k, s, i + 1)
    BY <1>1, RestDrop DEF c
  <2>12. Y.state = Woken(Q.state, vv)
    <3>1. Y.state = [Woken(Q.state, v) EXCEPT ![t] = "READY"]
      BY <1>1, <1>2, <1>5, <2>5, PushFields DEF Y
    <3>2. \A u : SP!In(u, vv) <=> SP!In(u, v) \/ u = t
      BY <1>1, SP!AppendQueue, Assumed
    <3> HIDE DEF vv
    <3> QED
      BY <1>1, <3>1, <3>2 DEF Woken
  <2> DEFINE V == wake_round(W, now)
  <2>13. V.q = Y /\ V = [q |-> Y, pp |-> IF k = << >> THEN Null ELSE k[Len(k)]]
    BY <1>2, <2>1
  <2> HIDE DEF V, vv
  <2>14. Loop(V, Q, r, s, i + 1, now, k, vv)
    BY <2>3, <2>9, <2>10, <2>11, <2>12, <2>13 DEF Loop
  <2> QED
    BY <2>14 DEF V
<1> QED
  BY <1>6, <1>7, <1>8

(* When every sleeper has been passed, *pp is NULL and the loop is over. *)
LEMMA RoundStops ==
  ASSUME NEW Q, NEW r, NEW s \in Seq(Slots), NEW now, NEW W, NEW k, NEW v,
         Loop(W, Q, r, s, Len(s), now, k, v)
  PROVE  wake_round(W, now) = W
<1>1. k \in Seq(Slots) /\ Len(k) \in Nat /\ Rest(k, s, Len(s)) = k
  BY RestEnds DEF Loop, Picked
<1>2. Chain(W.q, k) /\ W.pp = IF k = << >> THEN Null ELSE k[Len(k)]
  <2>1. W = [q |-> W.q, pp |-> IF k = << >> THEN Null ELSE k[Len(k)]]
    BY DEF Loop
  <2> QED
    BY <1>1, <2>1 DEF Loop, Lists
<1>3. (IF W.pp = Null THEN W.q.sleep ELSE W.q.next[W.pp]) = Null
  <2>1. CASE k = << >>
    BY <1>2, <2>1 DEF Chain
  <2>2. CASE k # << >>
    <3>1. Len(k) \in 1 .. Len(k) /\ k[Len(k)] # Null
      BY <1>1, <2>2, SlotFacts
    <3> QED
      BY <1>2, <2>2, <3>1 DEF Chain
  <2> QED
    BY <2>1, <2>2
<1> QED
  BY <1>3 DEF wake_round

(* The rounds of the loop, one after the other. *)
Rounds(Q, now) ==
  LET w[i \in 0 .. TASK_MAX] == IF i = 0 THEN [q |-> Q, pp |-> Null]
                                ELSE wake_round(w[i - 1], now)
  IN  w

LEMMA RoundsUnfold ==
  ASSUME NEW Q, NEW now
  PROVE  /\ Rounds(Q, now)[0] = [q |-> Q, pp |-> Null]
         /\ \A i \in 1 .. TASK_MAX : Rounds(Q, now)[i] = wake_round(Rounds(Q, now)[i - 1], now)
<1> DEFINE n == TASK_MAX
           F(x) == wake_round(x, now)
           s == [q |-> Q, pp |-> Null]
           Unfolds(g, m) == g = [i \in 0 .. m |-> IF i = 0 THEN s ELSE F(g[i - 1])]
           Made(m) == \E g : Unfolds(g, m)
           Bad == {m \in 0 .. n : ~Made(m)}
           w == Rounds(Q, now)
<1>0. n \in Nat
  BY SlotFacts
<1>1. w = CHOOSE g : Unfolds(g, n)
  BY DEF Rounds
<1> HIDE DEF F, w, s, n
<1>2. Bad = {}
  <2> SUFFICES ASSUME Bad # {} PROVE FALSE
    OBVIOUS
  <2>0. Bad \subseteq Nat
    OBVIOUS
  <2>1. PICK m \in Bad : \A y \in Bad : m <= y
    <3> HIDE DEF Bad
    <3> QED
      BY <2>0, LeastOf
  <2>2. m # 0
    <3>1. Unfolds([i \in 0 .. 0 |-> s], 0)
      OBVIOUS
    <3>2. Made(0)
      BY <3>1
    <3> HIDE DEF Made
    <3> QED
      BY <2>1, <3>2
  <2>3. m \in Nat /\ m - 1 \in 0 .. n /\ Made(m - 1)
    <3> HIDE DEF Made
    <3> QED
      BY <1>0, <2>1, <2>2
  <2>4. PICK g : Unfolds(g, m - 1)
    BY <2>3
  <2> DEFINE h == [i \in 0 .. m |-> IF i = m THEN F(g[m - 1]) ELSE g[i]]
  <2>5. ASSUME NEW i \in 0 .. m PROVE h[i] = IF i = 0 THEN s ELSE F(h[i - 1])
    <3>1. \A l \in 0 .. m - 1 : g[l] = IF l = 0 THEN s ELSE F(g[l - 1])
      BY <2>4
    <3>2. i = 0 \/ (i - 1 \in 0 .. m - 1 /\ h[i - 1] = g[i - 1])
      BY <2>3
    <3>3. i = m \/ (i \in 0 .. m - 1 /\ h[i] = g[i])
      BY <2>3
    <3>4. h[m] = F(g[m - 1])
      BY <2>3
    <3> HIDE DEF h
    <3> QED
      BY <2>2, <3>1, <3>2, <3>3, <3>4
  <2>6. Unfolds(h, m)
    <3>1. h = [i \in 0 .. m |-> h[i]]
      OBVIOUS
    <3> HIDE DEF h
    <3> QED
      BY <2>5, <3>1
  <2>7. Made(m)
    BY <2>6
  <2> HIDE DEF Made
  <2> QED
    BY <2>1, <2>7
<1>3. PICK g : Unfolds(g, n)
  <2>1. Made(n)
    <3> HIDE DEF Made
    <3> QED
      BY <1>0, <1>2
  <2> QED
    BY <2>1
<1>4. Unfolds(w, n)
  <2> HIDE DEF Unfolds
  <2> QED
    BY <1>1, <1>3
<1>5. w[0] = s /\ \A i \in 1 .. n : w[i] = F(w[i - 1])
  BY <1>0, <1>4
<1> QED
  BY <1>5 DEF F, w, s, n

(* sq_wake_due moves the due sleepers, in the order of the sleep list, to  *)
(* the end of the ring, and leaves the others asleep in their order.       *)
LEMMA WakeLists ==
  ASSUME NEW Q, NEW r, NEW s, Lists(Q, r, s), NEW now \in Nat, wake_tick \in [Slots -> Nat]
  PROVE  \E v \in SP!InOrder(s, Due(s, now)), k \in SP!InOrder(s, Asleep(s, now)) :
           /\ Lists(sq_wake_due(Q, now), r \o v, k)
           /\ sq_wake_due(Q, now).state = Woken(Q.state, v)
<1> DEFINE w == Rounds(Q, now)  n == Len(s)
           Upto(i) == IF i <= n THEN i ELSE n
           Good(i) == \E k, v : Loop(w[i], Q, r, s, Upto(i), now, k, v)
           Bad == {i \in 0 .. TASK_MAX : ~Good(i)}
<1>1. /\ r \in Seq(Slots) /\ s \in Seq(Slots) /\ SP!Distinct(s) /\ n \in Nat /\ n <= TASK_MAX
      /\ TASK_MAX \in Nat /\ Q \in Queues
  BY ListFits, SlotFacts DEF Lists, Ring, Chain
<1>2. w[0] = [q |-> Q, pp |-> Null] /\ \A i \in 1 .. TASK_MAX : w[i] = wake_round(w[i - 1], now)
  BY RoundsUnfold
<1> HIDE DEF w
<1>3. Good(0)
  <2>1. Upto(0) = 0
    BY <1>1
  <2>2. Picked(<< >>, s, 0, Asleep(s, now)) /\ Picked(<< >>, s, 0, Due(s, now))
    BY PickedNone
  <2>3. r \o << >> = r /\ Rest(<< >>, s, 0) = s
    BY <1>1, RestEnds
  <2>4. Q.state = Woken(Q.state, << >>)
    <3>1. Q.state = [t \in Slots |-> Q.state[t]]
      BY <1>1 DEF Queues
    <3>2. \A t : ~SP!In(t, << >>)
      BY DEF SP!In
    <3> QED
      BY <3>1, <3>2 DEF Woken
  <2>5. w[0].q = Q /\ w[0] = [q |-> w[0].q, pp |-> Null]
    BY <1>2
  <2>6. Loop(w[0], Q, r, s, 0, now, << >>, << >>)
    BY <2>2, <2>3, <2>4, <2>5 DEF Loop
  <2> QED
    BY <2>1, <2>6
<1>4. ASSUME NEW i \in Nat, i + 1 <= TASK_MAX, Good(i) PROVE Good(i + 1)
  <2>1. PICK k, v : Loop(w[i], Q, r, s, Upto(i), now, k, v)
    BY <1>4
  <2>2. w[i + 1] = wake_round(w[i], now)
    <3>1. i + 1 \in 1 .. TASK_MAX /\ (i + 1) - 1 = i
      BY <1>1, <1>4
    <3> QED
      BY <1>2, <3>1
  <2>3. CASE i < n
    <3>1. Upto(i) = i /\ Upto(i + 1) = i + 1
      BY <1>1, <2>3
    <3>2. Loop(w[i], Q, r, s, i, now, k, v)
      BY <2>1, <3>1
    <3>3. \E kk, vv : Loop(wake_round(w[i], now), Q, r, s, i + 1, now, kk, vv)
      BY <1>1, <2>3, <3>2, RoundLists
    <3> QED
      BY <2>2, <3>1, <3>3
  <2>4. CASE ~(i < n)
    <3>1. Upto(i) = n /\ Upto(i + 1) = n
      BY <1>1, <2>4
    <3>2. Loop(w[i], Q, r, s, n, now, k, v)
      BY <2>1, <3>1
    <3>3. wake_round(w[i], now) = w[i]
      BY <1>1, <3>2, RoundStops
    <3> QED
      BY <2>1, <2>2, <3>1, <3>3
  <2> QED
    BY <2>3, <2>4
<1>5. Bad = {}
  <2> SUFFICES ASSUME Bad # {} PROVE FALSE
    OBVIOUS
  <2>0. Bad \subseteq Nat
    OBVIOUS
  <2>1. PICK m \in Bad : \A y \in Bad : m <= y
    <3> HIDE DEF Bad
    <3> QED
      BY <2>0, LeastOf
  <2> HIDE DEF Good
  <2>2. m \in Nat /\ m <= TASK_MAX /\ ~Good(m) /\ m # 0
    BY <1>1, <1>3, <2>1
  <2>3. m - 1 \in 0 .. TASK_MAX /\ Good(m - 1)
    BY <1>1, <2>1, <2>2
  <2>4. Good((m - 1) + 1) /\ (m - 1) + 1 = m
    <3>1. m - 1 \in Nat /\ (m - 1) + 1 <= TASK_MAX /\ (m - 1) + 1 = m
      BY <2>2
    <3> QED
      BY <1>4, <2>3, <3>1
  <2> QED
    BY <2>2, <2>4
<1>6. Good(TASK_MAX)
  <2> HIDE DEF Good
  <2> QED
    BY <1>1, <1>5
<1>7. PICK k, v : Loop(w[TASK_MAX], Q, r, s, n, now, k, v)
  <2>1. Upto(TASK_MAX) = n
    BY <1>1
  <2> QED
    BY <1>6, <2>1
<1>8. sq_wake_due(Q, now) = w[TASK_MAX].q
  BY DEF sq_wake_due, Rounds, w
<1>9. (\A t \in Due(s, now) : SP!In(t, s)) /\ (\A t \in Asleep(s, now) : SP!In(t, s))
  BY DEF Due, Asleep
<1>10. v \in SP!InOrder(s, Due(s, now)) /\ k \in SP!InOrder(s, Asleep(s, now))
  BY <1>1, <1>7, <1>9, PickedAll DEF Loop
<1>11. Rest(k, s, n) = k
  BY <1>1, <1>7, RestEnds DEF Loop, Picked
<1>12. Lists(sq_wake_due(Q, now), r \o v, k) /\ sq_wake_due(Q, now).state = Woken(Q.state, v)
  BY <1>7, <1>8, <1>11 DEF Loop
<1> QED
  BY <1>10, <1>12

-----------------------------------------------------------------------------
(* The walks of the state whose queues hold r and s are r and s. *)
LEMMA WalksAre ==
  ASSUME NEW r, NEW s
  PROVE  /\ Seen(q, r, s) => ReadyWalk = r /\ SleepWalk = s
         /\ Seen(q', r, s) => ReadyWalk' = r /\ SleepWalk' = s
<1>1. ReadyWalk = Walk(q.next, q.head, q.count) /\ SleepWalk = SleepOf(q)
  BY DEF ReadyWalk, SleepWalk, SleepOf
<1>2. ReadyWalk' = Walk(q'.next, q'.head, q'.count) /\ SleepWalk' = SleepOf(q')
  BY DEF ReadyWalk, SleepWalk, SleepOf, Walk
<1> QED
  BY <1>1, <1>2, WalksSee

LEMMA StateNow ==
  ASSUME NEW r, NEW s, Lists(q', r, s)
  PROVE  ReadyWalk' = r /\ SleepWalk' = s /\ Lists(q', ReadyWalk', SleepWalk')
<1>1. Seen(q', r, s)
  BY ListsSeen
<1>2. ReadyWalk' = r /\ SleepWalk' = s
  BY <1>1, WalksAre
<1> QED
  BY <1>2

(* Links of a task that is in no list do not matter. *)
LEMMA TouchLists ==
  ASSUME NEW Q, NEW r, NEW s, Lists(Q, r, s), NEW t \in Slots, ~SP!In(t, r), ~SP!In(t, s),
         NEW x, NEW y, NEW P \in Queues, P.head = Q.head, P.count = Q.count, P.sleep = Q.sleep,
         P.next = [Q.next EXCEPT ![t] = x], P.prev = [Q.prev EXCEPT ![t] = y]
  PROVE  Lists(P, r, s)
<1>1. /\ Q \in Queues /\ Q.next \in [Cells -> Cells] /\ Q.prev \in [Cells -> Cells]
      /\ r \in Seq(Slots) /\ s \in Seq(Slots) /\ t # Null /\ Null \in Cells
      /\ Ring(Q, r) /\ Chain(Q, s) /\ Apart(r, s) /\ Q.next[Null] = Null
  BY SlotFacts DEF Lists, Ring, Chain, Queues
<1>2. (\A i \in 1 .. Len(r) : r[i] # t /\ r[i] \in Cells) /\ (\A j \in 1 .. Len(s) : s[j] # t /\ s[j] \in Cells)
  BY <1>1, SlotFacts DEF SP!In
<1>3. \A i \in 1 .. Len(r) : P.next[r[i]] = Q.next[r[i]] /\ P.prev[r[i]] = Q.prev[r[i]]
  BY <1>1, <1>2
<1>4. \A j \in 1 .. Len(s) : P.next[s[j]] = Q.next[s[j]]
  BY <1>1, <1>2
<1>5. P.next[Null] = Null
  BY <1>1
<1>6. Ring(P, r)
  BY <1>1, <1>3 DEF Ring
<1>7. Chain(P, s)
  BY <1>1, <1>4 DEF Chain
<1> QED
  BY <1>1, <1>5, <1>6, <1>7 DEF Lists

(* do_switch on the links is do_switch on the queues. *)
LEMMA SwitchLists ==
  ASSUME NEW Q, NEW r, NEW s, Lists(Q, r, s), ~SP!In(g_current, r), r # << >> => g_current \in Slots,
         Q.state[g_current] = "RUNNING" => ~SP!In(g_current, s), do_switch(Q)
  PROVE  SP!do_switch(Q.state, r) /\ SleepWalk' = s /\ Lists(q', ReadyWalk', SleepWalk')
<1>1. /\ Q \in Queues /\ r \in Seq(Slots) /\ Q.count = Len(r) /\ Len(r) \in Nat
      /\ Q.head = IF r = << >> THEN Null ELSE r[1]
  BY DEF Lists, Ring
<1>2. CASE r = << >>
  <2>1. q' = Q /\ g_quantum_left' = 0 /\ g_current' = g_current
    BY <1>1, <1>2 DEF do_switch
  <2>2. ReadyWalk' = r /\ SleepWalk' = s /\ Lists(q', ReadyWalk', SleepWalk')
    BY <2>1, StateNow
  <2> QED
    BY <1>2, <2>1, <2>2 DEF SP!do_switch
<1>3. CASE r # << >>
  <2> DEFINE h == Head(r)  P == rq_remove(Q, h)  tl == Tail(r)
             R == IF P.state[g_current] = "RUNNING"
                  THEN rq_push_back([P EXCEPT !.state[g_current] = "READY"], g_current)
                  ELSE P
  <2>1. /\ Q.count # 0 /\ Q.head = h /\ h \in Slots /\ h # Null /\ h # g_current
        /\ g_current \in Slots /\ tl \in Seq(Slots) /\ SP!In(h, r)
        /\ \A t : SP!In(t, tl) <=> SP!In(t, r) /\ t # h
    <3>1. /\ h \in Slots /\ tl \in Seq(Slots) /\ SP!In(h, r)
          /\ \A t : SP!In(t, tl) <=> SP!In(t, r) /\ t # h
      BY <1>1, <1>3, SP!TailQueue, Assumed DEF Lists, Ring
    <3>2. Q.count # 0 /\ Q.head = h
      BY <1>1, <1>3
    <3> QED
      BY <1>3, <3>1, <3>2, SlotFacts
  <2>2. Lists(P, tl, s) /\ P.state = Q.state /\ P \in Queues
    BY <1>3, PopLists DEF Lists
  <2>3. /\ q' = [R EXCEPT !.state[h] = "RUNNING"] /\ g_current' = h
        /\ g_quantum_left' = SCHED_TICK_QUANTUM
    BY <2>1 DEF do_switch
  <2> HIDE DEF h, tl, P, R
  <2>4. CASE Q.state[g_current] = "RUNNING"
    <3> DEFINE X == [P EXCEPT !.state[g_current] = "READY"]
    <3>1. /\ X \in Queues /\ X.head = P.head /\ X.count = P.count /\ X.sleep = P.sleep
          /\ X.next = P.next /\ X.prev = P.prev /\ X.state = [Q.state EXCEPT ![g_current] = "READY"]
      BY <2>1, <2>2 DEF Queues
    <3>2. R = rq_push_back(X, g_current)
      BY <2>2, <2>4 DEF R
    <3> HIDE DEF X
    <3>3. Lists(X, tl, s)
      BY <2>2, <3>1, SameLists
    <3>4. ~SP!In(g_current, tl) /\ ~SP!In(g_current, s)
      BY <2>1, <2>4
    <3>5. Lists(R, Append(tl, g_current), s) /\ R.state = X.state /\ R \in Queues
      BY <2>1, <3>1, <3>2, <3>3, <3>4, PushLists, PushFields
    <3>6. /\ q' \in Queues /\ q'.head = R.head /\ q'.count = R.count /\ q'.sleep = R.sleep
          /\ q'.next = R.next /\ q'.prev = R.prev /\ q'.state = [R.state EXCEPT ![h] = "RUNNING"]
      BY <2>1, <2>3, <3>5 DEF Queues
    <3>7. Lists(q', Append(tl, g_current), s)
      BY <3>5, <3>6, SameLists
    <3>8. ReadyWalk' = Append(tl, g_current) /\ SleepWalk' = s /\ Lists(q', ReadyWalk', SleepWalk')
      BY <3>7, StateNow
    <3>9. q'.state = [Q.state EXCEPT ![g_current] = "READY", ![h] = "RUNNING"]
      BY <3>1, <3>5, <3>6
    <3> QED
      BY <1>3, <2>1, <2>3, <2>4, <3>8, <3>9
         DEF SP!do_switch, SP!requeue_current, SP!rq_push_back, SP!fresh_quantum, h, tl
  <2>5. CASE Q.state[g_current] # "RUNNING"
    <3>1. R = P
      BY <2>2, <2>5 DEF R
    <3>2. /\ q' \in Queues /\ q'.head = P.head /\ q'.count = P.count /\ q'.sleep = P.sleep
          /\ q'.next = P.next /\ q'.prev = P.prev /\ q'.state = [Q.state EXCEPT ![h] = "RUNNING"]
      BY <2>1, <2>2, <2>3, <3>1 DEF Queues
    <3>3. Lists(q', tl, s)
      BY <2>2, <3>2, SameLists
    <3>4. ReadyWalk' = tl /\ SleepWalk' = s /\ Lists(q', ReadyWalk', SleepWalk')
      BY <3>3, StateNow
    <3> QED
      BY <1>3, <2>1, <2>3, <2>5, <3>2, <3>4
         DEF SP!do_switch, SP!requeue_current, SP!fresh_quantum, h, tl
  <2> QED
    BY <2>4, <2>5
<1> QED
  BY <1>2, <1>3

-----------------------------------------------------------------------------
(* The queues Q with the stores p has still to make. *)
DoCount(Q)       == [Q EXCEPT !.count = @ + 1]
DoHeadPrev(Q, p) == DoCount(LinkBack(Q, p.head, p.task))
DoTNext(Q, p)    == DoHeadPrev(Link(Q, p.task, p.head), p)
DoTPrev(Q, p)    == DoTNext(LinkBack(Q, p.task, p.tail), p)
DoTailNext(Q, p) == DoTPrev(Link(Q, p.tail, p.task), p)
DoEmpty(Q, p)    ==
  DoCount([LinkBack(Link(Q, p.task, p.task), p.task, p.task) EXCEPT !.head = p.task])

Finished(Q, p) ==
  CASE p.step = "empty"     -> DoEmpty(Q, p)
    [] p.step = "tail.next" -> DoTailNext(Q, p)
    [] p.step = "t.prev"    -> DoTPrev(Q, p)
    [] p.step = "t.next"    -> DoTNext(Q, p)
    [] p.step = "head.prev" -> DoHeadPrev(Q, p)
    [] p.step = "count"     -> DoCount(Q)

(* An unfinished insertion: readers of the links still see the queues      *)
(* without its task, and its last stores will put the task at the end.     *)
Inserting(Q, r, s, p) ==
  /\ p \in Insertion /\ Q \in Queues /\ Seen(Q, r, s)
  /\ Lists(Finished(Q, p), Append(r, p.task), s)
  /\ p.step = "empty" => r = << >>
  /\ p.step = "tail.next" => r # << >> /\ p.tail = r[Len(r)]

Quiet == \A t \in Slots : push[t] = NoPush

(* The inductive invariant of the linked queues. *)
LInv ==
  /\ LinksTypeOK
  /\ SP!IInv
  /\ Quiet => Lists(q, ReadyWalk, SleepWalk)
  /\ \A t \in Slots : push[t] # NoPush =>
       /\ t = g_current /\ t # Idle /\ phase = "up" /\ push[t].task \in pending
       /\ Inserting(q, ReadyWalk, SleepWalk, push[t])

(* LinksTypeOK follows from the rest of the invariant and plain types. *)
LEMMA CountFits ==
  ASSUME NEW Q, NEW r, NEW s, Seen(Q, r, s), SP!Distinct(r)
  PROVE  Q.count <= TASK_MAX
BY ListFits DEF Seen

LEMMA TypesKept ==
  ASSUME LinksTypeOK, SP!IInv', q' \in Queues, Seen(q', ReadyWalk', SleepWalk'),
         push' \in [Slots -> Insertion \cup {NoPush}]
  PROVE  LinksTypeOK'
<1>1. SP!TypeOK' /\ SP!Distinct(ReadyWalk')
  BY DEF SP!IInv, SP!TaskAccounting, SP!Distinct
<1>2. q'.count <= TASK_MAX
  BY <1>1, CountFits
<1> QED
  BY <1>1, <1>2 DEF LinksTypeOK, SP!TypeOK, Cells, Slots, Null, SP!Slots, SP!NoTask

(* A step that starts and ends with no insertion under way, and is a step  *)
(* of Sched that leaves two lists, keeps the invariant.                    *)
LEMMA QuietStep ==
  ASSUME LInv, Quiet, push' = push, Lists(q', ReadyWalk', SleepWalk'), [SP!Next]_(SP!vars)
  PROVE  LInv'
<1>1. SP!IInv'
  BY SP!NextInv, Assumed DEF LInv
<1>2. Seen(q', ReadyWalk', SleepWalk') /\ q' \in Queues
  BY ListsSeen DEF Lists
<1>3. LinksTypeOK'
  BY <1>1, <1>2, TypesKept DEF LInv, LinksTypeOK
<1>4. Quiet'
  BY DEF Quiet
<1> QED
  BY <1>1, <1>3, <1>4 DEF LInv, Quiet

-----------------------------------------------------------------------------
(* What a thread that may act starts from. *)
LEMMA ActsQuiet ==
  ASSUME LInv, CanAct
  PROVE  /\ Quiet /\ Lists(q, ReadyWalk, SleepWalk) /\ q \in Queues
         /\ phase = "up" /\ g_current \in Slots /\ g_current # Idle /\ SP!CanAct
         /\ SP!IInv /\ ~SP!In(g_current, ReadyWalk) /\ ~SP!In(g_current, SleepWalk)
         /\ q.state[g_current] = "RUNNING" /\ g_current \notin pending
<1>1. Quiet /\ phase = "up" /\ g_current \in Slots /\ g_current # Idle /\ SP!IInv
  BY DEF LInv, Quiet, CanAct
<1>2. Lists(q, ReadyWalk, SleepWalk) /\ q \in Queues
  BY <1>1 DEF LInv, Lists
<1>3. SP!CanAct
  BY <1>1 DEF SP!CanAct, SP!Idle, Idle
<1>4. q.state[g_current] = "RUNNING" /\ ~SP!In(g_current, ReadyWalk) /\ ~SP!In(g_current, SleepWalk)
      /\ g_current \notin pending
  BY <1>1 DEF SP!IInv, SP!TaskAccounting, Slots, SP!Slots
<1> QED
  BY <1>1, <1>2, <1>3, <1>4

LEMMA InitLists ==
  ASSUME LinksInit
  PROVE  LInv /\ SP!Init
<1>1. /\ q \in Queues /\ q.next = [c \in Cells |-> Null] /\ q.head = Null /\ q.count = 0 /\ q.sleep = Null
      /\ q.state = [t \in Slots |-> "DEAD"]
  BY SlotFacts DEF LinksInit, Queues
<1>2. Lists(q, << >>, << >>)
  <2>1. << >> \in Seq(Slots) /\ Len(<< >>) = 0
    OBVIOUS
  <2> QED
    BY <1>1, <2>1, SlotFacts DEF Lists, Ring, Chain, Apart, SP!Distinct
<1>3. ReadyWalk = << >> /\ SleepWalk = << >>
  BY <1>2, ListsSeen, WalksAre
<1>4. SP!Init
  BY <1>1, <1>3 DEF LinksInit, SP!Init, Slots, SP!Slots, SP!NoTask, Null
<1>5. SP!IInv
  BY <1>4, SP!InitInv, Assumed
<1>6. Quiet
  BY DEF LinksInit, Quiet
<1>7. LinksTypeOK
  BY <1>1, SchedAssumption, SlotFacts DEF LinksInit, LinksTypeOK
<1> QED
  BY <1>2, <1>3, <1>4, <1>5, <1>6, <1>7 DEF LInv, Quiet

(* The boot: both lists are empty until sched_init queues idle. *)
LEMMA BootLists ==
  ASSUME LInv, task_init \/ sched_init
  PROVE  LInv' /\ [SP!Next]_(SP!vars)
<1>1. /\ phase # "up" /\ Quiet /\ ReadyWalk = << >> /\ SleepWalk = << >> /\ Lists(q, << >>, << >>)
      /\ q \in Queues /\ pending = {}
  <2>1. phase # "up" /\ SP!IInv
    BY DEF LInv, task_init, sched_init
  <2>2. Quiet
    BY <2>1 DEF LInv, Quiet
  <2>3. ReadyWalk = << >> /\ SleepWalk = << >> /\ pending = {}
    BY <2>1 DEF SP!IInv, SP!BootState
  <2> QED
    BY <2>1, <2>2, <2>3 DEF LInv, Lists
<1>2. << >> \in Seq(Slots) /\ Len(<< >>) = 0
  OBVIOUS
<1>3. q.head = Null /\ q.count = 0 /\ q.sleep = Null /\ q.next[Null] = Null
  BY <1>1, <1>2 DEF Lists, Ring, Chain
<1>4. CASE task_init
  <2>1. /\ q' \in Queues /\ q'.next = [c \in Cells |-> Null] /\ q'.head = Null /\ q'.count = 0
        /\ q'.sleep = Null /\ q'.state = [t \in Slots |-> IF t = Kmain THEN "RUNNING" ELSE "DEAD"]
    BY <1>1, <1>3, <1>4, SlotFacts DEF task_init, Queues
  <2>2. Lists(q', << >>, << >>)
    BY <1>2, <2>1, SlotFacts DEF Lists, Ring, Chain, Apart, SP!Distinct
  <2>3. ReadyWalk' = << >> /\ SleepWalk' = << >> /\ Lists(q', ReadyWalk', SleepWalk')
    BY <2>2, StateNow
  <2>4. SP!task_init
    BY <1>1, <1>4, <2>1, <2>3 DEF task_init, SP!task_init, Slots, SP!Slots, Kmain, SP!Kmain
  <2> QED
    BY <1>1, <1>4, <2>3, <2>4, QuietStep DEF task_init, SP!Next
<1>5. CASE sched_init
  <2> DEFINE X == [q EXCEPT !.head = Null, !.count = 0, !.sleep = Null, !.state[Idle] = "READY"]
  <2>1. /\ X \in Queues /\ X.next = q.next /\ X.head = Null /\ X.count = 0
        /\ X.sleep = Null /\ X.state = [q.state EXCEPT ![Idle] = "READY"]
    BY <1>1, <1>3, SlotFacts DEF Queues
  <2>2. q' = rq_push_back(X, Idle)
    BY <1>5 DEF sched_init
  <2> HIDE DEF X
  <2>3. Lists(X, << >>, << >>)
    BY <1>2, <1>3, <2>1, SlotFacts DEF Lists, Ring, Chain, Apart, SP!Distinct
  <2>4. Lists(q', Append(<< >>, Idle), << >>) /\ q'.state = X.state
    <3>1. ~SP!In(Idle, << >>) /\ Idle \in Slots
      BY SlotFacts DEF SP!In
    <3>2. Lists(q', Append(<< >>, Idle), << >>)
      BY <2>2, <2>3, <3>1, PushLists
    <3>3. q'.state = X.state
      BY <2>1, <2>2, <3>1, PushFields
    <3> QED
      BY <3>2, <3>3
  <2>5. Append(<< >>, Idle) = << Idle >>
    BY SlotFacts
  <2>6. ReadyWalk' = << Idle >> /\ SleepWalk' = << >> /\ Lists(q', ReadyWalk', SleepWalk')
    BY <2>4, <2>5, StateNow
  <2>7. SP!sched_init
    BY <1>1, <1>5, <2>1, <2>4, <2>6 DEF sched_init, SP!sched_init, Idle, SP!Idle, SP!pid_after
  <2> QED
    BY <1>1, <1>5, <2>6, <2>7, QuietStep DEF sched_init, SP!Next
<1> QED
  BY <1>4, <1>5

(* yield, sleep and exit. *)
LEMMA RunningLists ==
  ASSUME LInv, sched_yield \/ (\E ms \in SleepTimes : sched_sleep(ms)) \/ sched_exit
  PROVE  LInv' /\ [SP!Next]_(SP!vars)
<1>0. CanAct /\ push' = push
  BY DEF sched_yield, sched_sleep, sched_exit
<1>1. /\ Quiet /\ Lists(q, ReadyWalk, SleepWalk) /\ q \in Queues
      /\ phase = "up" /\ g_current \in Slots /\ g_current # Idle /\ SP!CanAct
      /\ SP!IInv /\ ~SP!In(g_current, ReadyWalk) /\ ~SP!In(g_current, SleepWalk)
      /\ q.state[g_current] = "RUNNING"
  BY <1>0, ActsQuiet
<1>2. CASE sched_yield
  <2>1. SP!do_switch(q.state, ReadyWalk) /\ SleepWalk' = SleepWalk /\ Lists(q', ReadyWalk', SleepWalk')
    BY <1>1, <1>2, SwitchLists DEF sched_yield
  <2>2. SP!sched_yield
    BY <1>1, <1>2, <2>1 DEF sched_yield, SP!sched_yield
  <2> QED
    BY <1>0, <1>1, <2>1, <2>2, QuietStep DEF SP!Next
<1>3. CASE sched_exit
  <2> DEFINE X == [q EXCEPT !.state[g_current] = "DEAD"]
  <2>1. /\ X \in Queues /\ X.head = q.head /\ X.count = q.count /\ X.sleep = q.sleep
        /\ X.next = q.next /\ X.prev = q.prev /\ X.state = [q.state EXCEPT ![g_current] = "DEAD"]
    BY <1>1 DEF Queues
  <2>2. do_switch(X)
    BY <1>3 DEF sched_exit
  <2> HIDE DEF X
  <2>3. Lists(X, ReadyWalk, SleepWalk)
    BY <1>1, <2>1, SameLists
  <2>4. SP!do_switch(X.state, ReadyWalk) /\ SleepWalk' = SleepWalk /\ Lists(q', ReadyWalk', SleepWalk')
    BY <1>1, <2>2, <2>3, SwitchLists
  <2>5. SP!sched_exit
    BY <1>1, <1>3, <2>1, <2>4 DEF sched_exit, SP!sched_exit, Kmain, SP!Kmain
  <2> QED
    BY <1>0, <1>1, <2>4, <2>5, QuietStep DEF SP!Next
<1>4. ASSUME NEW ms \in SleepTimes, sched_sleep(ms) PROVE LInv' /\ [SP!Next]_(SP!vars)
  <2> DEFINE X == [q EXCEPT !.state[g_current] = "SLEEPING"]  Y == sq_push(X, g_current)
  <2>1. /\ X \in Queues /\ X.head = q.head /\ X.count = q.count /\ X.sleep = q.sleep
        /\ X.next = q.next /\ X.prev = q.prev /\ X.state = [q.state EXCEPT ![g_current] = "SLEEPING"]
    BY <1>1 DEF Queues
  <2>2. do_switch(Y)
    BY <1>4 DEF sched_sleep
  <2> HIDE DEF X
  <2>3. Lists(X, ReadyWalk, SleepWalk)
    BY <1>1, <2>1, SameLists
  <2>4. Lists(Y, ReadyWalk, << g_current >> \o SleepWalk) /\ Y.state = X.state
    BY <1>1, <2>3, SleepLists
  <2> HIDE DEF Y
  <2>5. Y.state[g_current] = "SLEEPING"
    BY <1>1, <2>1, <2>4 DEF Queues
  <2>6. /\ SP!do_switch(Y.state, ReadyWalk) /\ SleepWalk' = << g_current >> \o SleepWalk
        /\ Lists(q', ReadyWalk', SleepWalk')
    BY <1>1, <2>2, <2>4, <2>5, SwitchLists
  <2>7. SP!sched_sleep(ms)
    BY <1>1, <1>4, <2>1, <2>4, <2>6 DEF sched_sleep, SP!sched_sleep
  <2> QED
    BY <1>0, <1>1, <2>6, <2>7, QuietStep DEF SP!Next
<1> QED
  BY <1>2, <1>3, <1>4

(* The tick, when no insertion is under way. *)
LEMMA TickLists ==
  ASSUME LInv, ~TickDuringAdd, pit_irq
  PROVE  LInv' /\ [SP!Next]_(SP!vars)
<1> DEFINE now == SP!pit_tick  Q == sq_wake_due(q, now)  r == ReadyWalk  s == SleepWalk
<1>1. Quiet /\ Lists(q, r, s) /\ SP!IInv /\ push' = push /\ wake_tick \in [Slots -> Nat] /\ g_ticks \in Nat
  BY DEF LInv, pit_irq, Quiet, LinksTypeOK
<1>2. now \in Nat
  BY <1>1, SchedAssumption DEF SP!pit_tick
<1>3. PICK v \in SP!InOrder(s, Due(s, now)), k \in SP!InOrder(s, Asleep(s, now)) :
         Lists(Q, r \o v, k) /\ Q.state = Woken(q.state, v)
  <2> HIDE DEF now
  <2> QED
    BY <1>1, <1>2, WakeLists
<1>4. /\ g_ticks' = now
      /\ IF SP!quantum_tick = 0 THEN do_switch(Q)
         ELSE q' = Q /\ g_quantum_left' = SP!quantum_tick /\ g_current' = g_current
      /\ UNCHANGED << phase, pid, wake_tick, g_next_pid, pending, push >>
  BY DEF pit_irq, SP!pit_tick, SP!quantum_tick
<1>5. /\ s \in Seq(Slots) /\ r \in Seq(Slots) /\ SP!Distinct(s)
      /\ \A t \in Slots : /\ q.state[t] = "READY" <=> SP!In(t, r) \/ t \in pending
                          /\ q.state[t] = "SLEEPING" <=> SP!In(t, s)
                          /\ q.state[t] = "RUNNING" <=> t = g_current
      /\ Slots = SP!Slots /\ g_current \in Cells
  BY <1>1 DEF SP!IInv, SP!TaskAccounting, SP!TypeOK, Slots, SP!Slots, Cells, Null, SP!NoTask
<1>6. Due(s, now) \in SUBSET Slots /\ Asleep(s, now) \in SUBSET Slots
  BY DEF Due, Asleep
<1> HIDE DEF now, Q, r, s
<1>7. /\ v \in Seq(Slots) /\ \A t : SP!In(t, v) <=> t \in Due(s, now)
      /\ k \in Seq(Slots) /\ \A t : SP!In(t, k) <=> t \in Asleep(s, now)
  BY <1>3, <1>5, <1>6, SP!InOrderQueue, Assumed
<1>8. \A t : SP!In(t, r \o v) <=> SP!In(t, r) \/ SP!In(t, v)
  BY <1>5, <1>7, SP!CatQueue, Assumed
<1>9. g_current \in Slots => ~SP!In(g_current, r \o v) /\ ~SP!In(g_current, k)
  BY <1>5, <1>7, <1>8 DEF Due, Asleep
<1>10. ~SP!In(g_current, r \o v) /\ (r \o v # << >> => g_current \in Slots) /\ ~SP!In(g_current, k)
  <2>1. CASE g_current \in Slots
    BY <1>9, <2>1
  <2>2. CASE g_current \notin Slots
    <3>1. \A t : SP!In(t, r \o v) \/ SP!In(t, k) => t \in Slots
      BY <1>3, <1>7, <1>8, <1>5 DEF Lists, Ring, SP!In
    <3>2. phase # "up"
      BY <1>1, <1>5, <2>2 DEF SP!IInv, SP!BootState
    <3>3. r = << >> /\ s = << >>
      BY <1>1, <3>2 DEF SP!IInv, SP!BootState, r, s
    <3>4. \A t : ~SP!In(t, r \o v)
      <4>1. \A t : ~SP!In(t, << >>)
        BY DEF SP!In
      <4>2. Due(s, now) = {}
        BY <3>3, <4>1 DEF Due
      <4> QED
        BY <1>7, <1>8, <3>3, <4>1, <4>2
    <3>5. r \o v = << >>
      <4>1. r \o v \in Seq(Slots)
        BY <1>3 DEF Lists, Ring
      <4>2. Len(r \o v) = 0
        <5> SUFFICES ASSUME Len(r \o v) # 0 PROVE FALSE
          OBVIOUS
        <5>1. 1 \in 1 .. Len(r \o v)
          BY <4>1
        <5> QED
          BY <3>4, <5>1 DEF SP!In
      <4> QED
        BY <4>1, <4>2
    <3> QED
      BY <2>2, <3>1, <3>5
  <2> QED
    BY <2>1, <2>2
<1> DEFINE due == SP!sq_wake_due(now)
           asleep == {t \in SP!Slots : SP!In(t, s)} \ due
           st == [t \in SP!Slots |-> IF t \in due THEN "READY" ELSE q.state[t]]
<1>11. due = Due(s, now) /\ asleep = Asleep(s, now) /\ st = Q.state
  <2>1. due = Due(s, now)
    BY <1>5 DEF Due, SP!sq_wake_due, s
  <2> HIDE DEF due
  <2>2. asleep = Asleep(s, now)
    BY <1>5, <2>1 DEF Asleep
  <2>3. st = Woken(q.state, v)
    BY <1>5, <1>7, <2>1 DEF Woken
  <2> QED
    BY <1>3, <2>1, <2>2, <2>3
<1> HIDE DEF due, asleep, st
<1>12. /\ SleepWalk' = k /\ Lists(q', ReadyWalk', SleepWalk')
       /\ IF SP!quantum_tick = 0 THEN SP!do_switch(Q.state, r \o v)
          ELSE /\ q'.state = Q.state /\ ReadyWalk' = r \o v
               /\ g_quantum_left' = SP!quantum_tick /\ g_current' = g_current
  <2>1. CASE SP!quantum_tick = 0
    BY <1>3, <1>4, <1>10, <2>1, SwitchLists
  <2>2. CASE SP!quantum_tick # 0
    <3>1. Lists(q', r \o v, k)
      BY <1>3, <1>4, <2>2
    <3> QED
      BY <1>4, <2>2, <3>1, StateNow
  <2> QED
    BY <2>1, <2>2
<1>13. SP!pit_irq
  <2>1. v \in SP!InOrder(s, due) /\ k \in SP!InOrder(s, asleep)
    BY <1>3, <1>11
  <2>2. /\ SleepWalk' = k
        /\ IF SP!quantum_tick = 0 THEN SP!do_switch(st, r \o v)
           ELSE /\ q'.state = st /\ ReadyWalk' = r \o v
                /\ g_quantum_left' = SP!quantum_tick /\ g_current' = g_current
    BY <1>11, <1>12
  <2>3. SP!pit_irq <=>
          /\ g_ticks' = now
          /\ \E woken \in SP!InOrder(s, due), rest \in SP!InOrder(s, asleep) :
               /\ SleepWalk' = rest
               /\ IF SP!quantum_tick = 0 THEN SP!do_switch(st, r \o woken)
                  ELSE /\ q'.state = st /\ ReadyWalk' = r \o woken
                       /\ g_quantum_left' = SP!quantum_tick
                       /\ g_current' = g_current
          /\ UNCHANGED << phase, pid, wake_tick, g_next_pid, pending >>
    BY DEF SP!pit_irq, now, r, s, due, asleep, st
  <2> QED
    BY <1>4, <2>1, <2>2, <2>3
<1> QED
  BY <1>1, <1>12, <1>13, QuietStep DEF SP!Next

(* Creating and destroying a task that is in no list. *)
LEMMA CreationLists ==
  ASSUME LInv, (\E s \in Slots : task_create(s)) \/ (\E t \in pending : task_destroy(t))
  PROVE  LInv' /\ [SP!Next]_(SP!vars)
<1>0. CanAct /\ push' = push
  BY DEF task_create, task_destroy
<1>1. Quiet /\ Lists(q, ReadyWalk, SleepWalk) /\ q \in Queues /\ SP!CanAct /\ SP!IInv
  BY <1>0, ActsQuiet
<1>2. /\ Slots = SP!Slots /\ pending \subseteq Slots
      /\ \A t \in Slots : /\ q.state[t] = "READY" <=> SP!In(t, ReadyWalk) \/ t \in pending
                          /\ q.state[t] = "SLEEPING" <=> SP!In(t, SleepWalk)
                          /\ ~(SP!In(t, ReadyWalk) /\ t \in pending)
  BY <1>1 DEF SP!IInv, SP!TaskAccounting, SP!TypeOK, Slots, SP!Slots
<1>3. ASSUME NEW s \in Slots, task_create(s) PROVE LInv' /\ [SP!Next]_(SP!vars)
  <2>1. /\ q' \in Queues /\ q'.head = q.head /\ q'.count = q.count /\ q'.sleep = q.sleep
        /\ q'.next = [q.next EXCEPT ![s] = Null] /\ q'.prev = [q.prev EXCEPT ![s] = Null]
        /\ q'.state = [q.state EXCEPT ![s] = "READY"] /\ q.state[s] = "DEAD"
    BY <1>1, <1>3, SlotFacts DEF task_create, Queues
  <2>2. ~SP!In(s, ReadyWalk) /\ ~SP!In(s, SleepWalk)
    BY <1>2, <2>1
  <2>3. Lists(q', ReadyWalk, SleepWalk)
    BY <1>1, <2>1, <2>2, TouchLists
  <2>4. ReadyWalk' = ReadyWalk /\ SleepWalk' = SleepWalk /\ Lists(q', ReadyWalk', SleepWalk')
    BY <2>3, StateNow
  <2>5. SP!task_create(s)
    BY <1>1, <1>3, <2>1, <2>4 DEF task_create, SP!task_create, SP!pid_after, Kmain, SP!Kmain
  <2> QED
    BY <1>0, <1>1, <1>2, <2>4, <2>5, QuietStep DEF SP!Next
<1>4. ASSUME NEW t \in pending, task_destroy(t) PROVE LInv' /\ [SP!Next]_(SP!vars)
  <2>1. /\ q' \in Queues /\ q'.head = q.head /\ q'.count = q.count /\ q'.sleep = q.sleep
        /\ q'.next = q.next /\ q'.prev = q.prev
        /\ q'.state = [q.state EXCEPT ![t] = "DEAD"] /\ q.state[t] # "DEAD"
    BY <1>1, <1>2, <1>4 DEF task_destroy, Queues
  <2>3. Lists(q', ReadyWalk, SleepWalk)
    BY <1>1, <2>1, SameLists
  <2>4. ReadyWalk' = ReadyWalk /\ SleepWalk' = SleepWalk /\ Lists(q', ReadyWalk', SleepWalk')
    BY <2>3, StateNow
  <2>5. SP!task_destroy(t)
    BY <1>1, <1>4, <2>1, <2>4 DEF task_destroy, SP!task_destroy
  <2> QED
    BY <1>0, <1>1, <2>4, <2>5, QuietStep DEF SP!Next
<1> QED
  BY <1>3, <1>4

-----------------------------------------------------------------------------
(* sched_add, store by store. *)

Linked(P, Q, a, b) ==
  /\ P \in Queues /\ P.next = [Q.next EXCEPT ![a] = b] /\ P.prev = Q.prev /\ P.state = Q.state
  /\ P.head = Q.head /\ P.count = Q.count /\ P.sleep = Q.sleep

LinkedBack(P, Q, a, b) ==
  /\ P \in Queues /\ P.prev = [Q.prev EXCEPT ![a] = b] /\ P.next = Q.next /\ P.state = Q.state
  /\ P.head = Q.head /\ P.count = Q.count /\ P.sleep = Q.sleep

LEMMA LinkFields ==
  ASSUME NEW Q \in Queues, NEW a \in Cells, NEW b \in Cells
  PROVE  Linked(Link(Q, a, b), Q, a, b) /\ LinkedBack(LinkBack(Q, a, b), Q, a, b)
BY DEF Link, LinkBack, Queues, Linked, LinkedBack

LEMMA CountFields ==
  ASSUME NEW Q \in Queues
  PROVE  LET P == DoCount(Q) IN
         /\ P \in Queues /\ P.count = Q.count + 1 /\ P.next = Q.next /\ P.prev = Q.prev
         /\ P.state = Q.state /\ P.head = Q.head /\ P.sleep = Q.sleep
BY DEF DoCount, Queues

LEMMA QueuesEqual ==
  ASSUME NEW P \in Queues, NEW Q \in Queues, P.next = Q.next, P.prev = Q.prev, P.state = Q.state,
         P.head = Q.head, P.count = Q.count, P.sleep = Q.sleep
  PROVE  P = Q
BY DEF Queues

(* All the stores together are rq_push_back. *)
Fresh(p, Q, t) ==
  /\ p \in Insertion /\ p.task = t /\ p.head = Q.head /\ Q.head # t /\ p.tail = Q.prev[Q.head]
  /\ Q.head # Null => p.tail # t
  /\ p.step = IF Q.head = Null THEN "empty" ELSE "tail.next"

LEMMA StoresPush ==
  ASSUME NEW Q \in Queues, NEW t \in Slots, NEW p, Fresh(p, Q, t)
  PROVE  Finished(Q, p) = rq_push_back(Q, t)
<1>0. /\ p \in Insertion /\ p.task = t /\ p.head = Q.head /\ Q.head # t /\ p.tail = Q.prev[Q.head]
      /\ Q.head # Null => p.tail # t
      /\ p.step = IF Q.head = Null THEN "empty" ELSE "tail.next"
  BY DEF Fresh
<1>1. /\ t \in Cells /\ Q.head \in Cells /\ p.tail \in Cells /\ Q.next \in [Cells -> Cells]
      /\ Q.prev \in [Cells -> Cells]
  BY <1>0, SlotFacts DEF Queues
<1>2. LET P == rq_push_back(Q, t) IN
      /\ P \in Queues
      /\ P.state = Q.state /\ P.sleep = Q.sleep /\ P.count = Q.count + 1
      /\ P.head = IF Q.head = Null THEN t ELSE Q.head
      /\ Q.head = Null => /\ P.next = [Q.next EXCEPT ![t] = t]
                          /\ P.prev = [Q.prev EXCEPT ![t] = t]
      /\ Q.head # Null =>
           /\ P.next = [Q.next EXCEPT ![t] = Q.head, ![Q.prev[Q.head]] = t]
           /\ P.prev = [Q.prev EXCEPT ![t] = Q.prev[Q.head], ![Q.head] = t]
  BY PushFields
<1>3. CASE Q.head = Null
  <2> DEFINE A == Link(Q, t, t)  B == LinkBack(A, t, t)  C == [B EXCEPT !.head = t]
  <2>1. Finished(Q, p) = DoCount(C)
    BY <1>0, <1>3 DEF Finished, DoEmpty
  <2>2. Linked(A, Q, t, t)
    BY <1>1, LinkFields
  <2>3. LinkedBack(B, A, t, t)
    <3> HIDE DEF A
    <3> QED
      BY <1>1, <2>2, LinkFields DEF Linked
  <2> HIDE DEF A, B
  <2>4. /\ C \in Queues /\ C.prev = B.prev /\ C.next = A.next /\ C.state = Q.state
        /\ C.head = t /\ C.count = Q.count /\ C.sleep = Q.sleep
    BY <1>1, <2>2, <2>3 DEF Queues, Linked, LinkedBack
  <2> HIDE DEF C
  <2> QED
    BY <1>2, <1>3, <2>1, <2>2, <2>3, <2>4, CountFields, QueuesEqual DEF Linked, LinkedBack
<1>4. CASE Q.head # Null
  <2> DEFINE h == Q.head  tl == p.tail
             A == Link(Q, tl, t)  B == LinkBack(A, t, tl)  C == Link(B, t, h)  D == LinkBack(C, h, t)
  <2>1. Finished(Q, p) = DoCount(D)
    BY <1>0, <1>4 DEF Finished, DoTailNext, DoTPrev, DoTNext, DoHeadPrev
  <2> HIDE DEF h, tl
  <2>2. Linked(A, Q, tl, t) /\ h \in Cells /\ tl \in Cells
    BY <1>1, LinkFields DEF h, tl
  <2> HIDE DEF A
  <2>3. LinkedBack(B, A, t, tl)
    BY <1>1, <2>2, LinkFields DEF Linked
  <2> HIDE DEF B
  <2>4. Linked(C, B, t, h)
    BY <1>1, <2>2, <2>3, LinkFields DEF LinkedBack
  <2> HIDE DEF C
  <2>5. LinkedBack(D, C, h, t)
    BY <1>1, <2>2, <2>4, LinkFields DEF Linked
  <2> HIDE DEF D
  <2>6. /\ D.next = [Q.next EXCEPT ![tl] = t, ![t] = h] /\ D \in Queues
        /\ D.prev = [Q.prev EXCEPT ![t] = tl, ![h] = t] /\ D.state = Q.state
        /\ D.head = Q.head /\ D.count = Q.count /\ D.sleep = Q.sleep
    BY <2>2, <2>3, <2>4, <2>5 DEF Linked, LinkedBack
  <2>7. [Q.next EXCEPT ![tl] = t, ![t] = h] = [Q.next EXCEPT ![t] = h, ![tl] = t] /\ tl = Q.prev[Q.head]
    BY <1>0, <1>1, <1>4 DEF tl
  <2> QED
    BY <1>2, <1>4, <2>1, <2>6, <2>7, CountFields, QueuesEqual DEF h
<1> QED
  BY <1>3, <1>4

(* The beginning of sched_add changes nothing a reader sees. *)
LEMMA AddLists ==
  ASSUME LInv, NEW t \in pending, sched_add(t)
  PROVE  LInv' /\ UNCHANGED SP!vars
<1> DEFINE r == ReadyWalk  s == SleepWalk  p == push'[g_current]
<1>0. CanAct
  BY DEF sched_add
<1>1. /\ Quiet /\ Lists(q, r, s) /\ q \in Queues /\ SP!IInv /\ g_current \in Slots /\ g_current # Idle
      /\ phase = "up" /\ LinksTypeOK
  BY <1>0, ActsQuiet DEF LInv
<1>2. t \in Slots /\ q.state[t] = "READY" /\ ~SP!In(t, r) /\ ~SP!In(t, s)
  <2>1. Slots = SP!Slots /\ pending \subseteq Slots
    BY <1>1 DEF SP!IInv, SP!TypeOK, Slots, SP!Slots
  <2>2. /\ q.state[t] = "READY" <=> SP!In(t, r) \/ t \in pending
        /\ q.state[t] = "SLEEPING" <=> SP!In(t, s)
        /\ ~(SP!In(t, r) /\ t \in pending)
    BY <1>1, <2>1 DEF SP!IInv, SP!TaskAccounting
  <2> QED
    BY <2>1, <2>2
<1>3. /\ q' \in Queues /\ q'.head = q.head /\ q'.count = q.count /\ q'.sleep = q.sleep
      /\ q'.next = [q.next EXCEPT ![t] = Null] /\ q'.prev = [q.prev EXCEPT ![t] = Null]
      /\ q'.state = q.state
  BY <1>1, <1>2, SlotFacts DEF sched_add, Queues
<1> HIDE DEF r, s
<1>4. Lists(q', r, s)
  BY <1>1, <1>2, <1>3, TouchLists
<1>5. /\ r \in Seq(Slots) /\ Len(r) \in Nat /\ q.head = (IF r = << >> THEN Null ELSE r[1])
      /\ q.next \in [Cells -> Cells] /\ q.prev \in [Cells -> Cells] /\ q.head \in Cells
  BY <1>1 DEF Lists, Ring, Queues
<1>6. r # << >> => /\ r[1] \in Slots /\ r[Len(r)] \in Slots /\ r[1] # t /\ r[Len(r)] # t
                   /\ q.prev[r[1]] = r[Len(r)]
  <2> SUFFICES ASSUME r # << >>
               PROVE  /\ r[1] \in Slots /\ r[Len(r)] \in Slots /\ r[1] # t /\ r[Len(r)] # t
                      /\ q.prev[r[1]] = r[Len(r)]
    OBVIOUS
  <2>1. 1 \in 1 .. Len(r) /\ Len(r) \in 1 .. Len(r)
    BY <1>5
  <2> QED
    BY <1>1, <1>2, <1>5, <2>1 DEF Lists, Ring, PrevIn, SP!In
<1>7. /\ push' = [push EXCEPT ![g_current] =
           [task |-> t, head |-> q.head, tail |-> q.prev[q.head],
            step |-> IF q.head = Null THEN "empty" ELSE "tail.next"]]
      /\ push \in [Slots -> Insertion \cup {NoPush}]
  BY <1>1 DEF sched_add, LinksTypeOK
<1>8. p = [task |-> t, head |-> q.head, tail |-> q.prev[q.head],
           step |-> IF q.head = Null THEN "empty" ELSE "tail.next"]
  BY <1>1, <1>7
<1>9. p \in Insertion /\ p.task = t /\ p.head = q.head /\ p.tail = q.prev[q.head]
      /\ p.step = IF q.head = Null THEN "empty" ELSE "tail.next"
  <2>1. q.prev[q.head] \in Cells
    BY <1>5
  <2> HIDE DEF p
  <2> QED
    BY <1>2, <1>5, <1>8, <2>1 DEF Insertion
<1> HIDE DEF p
<1>10. q'.prev[q'.head] = q.prev[q.head] /\ q'.head # t /\ q.head # t
  BY <1>2, <1>3, <1>5, <1>6, SlotFacts
<1>11. Lists(Finished(q', p), Append(r, t), s)
  <2>1. Fresh(p, q', t)
    BY <1>3, <1>5, <1>6, <1>9, <1>10 DEF Fresh
  <2>2. Finished(q', p) = rq_push_back(q', t)
    BY <1>2, <1>3, <2>1, StoresPush
  <2> QED
    BY <1>2, <1>4, <2>2, PushLists
<1>12. ReadyWalk' = r /\ SleepWalk' = s /\ Lists(q', ReadyWalk', SleepWalk')
  BY <1>4, StateNow
<1>13. UNCHANGED SP!vars
  BY <1>3, <1>12 DEF sched_add, SP!vars, r, s
<1>14. SP!IInv'
  BY <1>1, <1>13, SP!NextInv, Assumed
<1>15. Seen(q', ReadyWalk', SleepWalk')
  BY <1>12, ListsSeen
<1>16. push' \in [Slots -> Insertion \cup {NoPush}] /\ push' = [push EXCEPT ![g_current] = p]
  BY <1>7, <1>8, <1>9
<1>17. LinksTypeOK'
  BY <1>1, <1>3, <1>14, <1>15, <1>16, TypesKept
<1>18. Inserting(q', ReadyWalk', SleepWalk', p)
  <2>1. p.step = "empty" => r = << >>
    BY <1>5, <1>6, <1>9, SlotFacts
  <2>2. p.step = "tail.next" => r # << >> /\ p.tail = r[Len(r)]
    BY <1>5, <1>6, <1>9, SlotFacts
  <2> QED
    BY <1>3, <1>9, <1>11, <1>12, <1>15, <2>1, <2>2 DEF Inserting
<1>19. /\ \A u \in Slots : push'[u] # NoPush => u = g_current
       /\ push'[g_current] = p /\ p # NoPush
  <2>1. p # NoPush
    BY <1>9, SlotFacts DEF NoPush
  <2> QED
    BY <1>1, <1>7, <1>16, <2>1 DEF Quiet
<1>20. ~Quiet' /\ g_current' = g_current /\ phase' = phase /\ pending' = pending
  BY <1>1, <1>19 DEF Quiet, sched_add
<1>21. \A u \in Slots : push'[u] # NoPush =>
          /\ u = g_current' /\ u # Idle /\ phase' = "up" /\ push'[u].task \in pending'
          /\ Inserting(q', ReadyWalk', SleepWalk', push'[u])
  BY <1>1, <1>9, <1>18, <1>19, <1>20
<1> QED
  BY <1>13, <1>14, <1>17, <1>20, <1>21 DEF LInv, Quiet

(* Stores behind the last member of the ring are not seen. *)
LEMMA SeenKept ==
  ASSUME NEW Q \in Queues, NEW r, NEW s, Seen(Q, r, s), NEW a \in Slots, NEW b, NEW P,
         \A i \in 1 .. Len(r) - 1 : r[i] # a, ~SP!In(a, s), P.next = [Q.next EXCEPT ![a] = b],
         P.count = Q.count, P.sleep = Q.sleep, r # << >> => P.head = Q.head
  PROVE  Seen(P, r, s)
<1>1. /\ Q.next \in [Cells -> Cells] /\ r \in Seq(Slots) /\ s \in Seq(Slots) /\ Len(r) \in Nat
      /\ a # Null /\ Null \in Cells /\ Chain(Q, s) /\ Q.next[Null] = Null
  BY SlotFacts DEF Queues, Seen, Chain
<1>2. \A i \in 1 .. Len(r) - 1 : r[i] \in Cells
  BY <1>1, SlotFacts
<1>3. \A j \in 1 .. Len(s) : s[j] \in Cells /\ s[j] # a
  BY <1>1, SlotFacts DEF SP!In
<1>4. \A i \in 1 .. Len(r) - 1 : P.next[r[i]] = Q.next[r[i]]
  BY <1>1, <1>2
<1>5. \A j \in 1 .. Len(s) : P.next[s[j]] = Q.next[s[j]]
  BY <1>1, <1>3
<1>6. P.next[Null] = Null
  BY <1>1
<1>7. Chain(P, s)
  BY <1>1, <1>5 DEF Chain
<1> QED
  BY <1>1, <1>4, <1>6, <1>7 DEF Seen

(* A store other than the count brings the insertion one store further. *)
LEMMA StoreKeeps ==
  ASSUME NEW r, NEW s, NEW p, Inserting(q, r, s, p), p.step # "count"
  PROVE  /\ Inserting(Store(p), r, s, [p EXCEPT !.step = StepAfter[p.step]])
         /\ Store(p).state = q.state
<1> DEFINE P == Store(p)  n == [p EXCEPT !.step = StepAfter[p.step]]  t == p.task
<1>1. /\ p \in Insertion /\ q \in Queues /\ Seen(q, r, s) /\ Lists(Finished(q, p), Append(r, t), s)
      /\ (p.step = "empty" => r = << >>) /\ (p.step = "tail.next" => r # << >> /\ p.tail = r[Len(r)])
  BY DEF Inserting
<1>2. /\ t \in Slots /\ p.tail \in Cells /\ p.head \in Cells /\ t \in Cells
      /\ r \in Seq(Slots) /\ s \in Seq(Slots) /\ Len(r) \in Nat
      /\ p.step \in {"empty", "tail.next", "t.prev", "t.next", "head.prev"}
  BY <1>1, SlotFacts DEF Insertion, Seen, Chain
<1>3. /\ SP!Distinct(r) /\ ~SP!In(t, s) /\ Apart(r, s) /\ \A i \in 1 .. Len(r) : r[i] # t
  <2> DEFINE u == Append(r, t)
  <2>1. /\ Len(u) = Len(r) + 1 /\ u[Len(r) + 1] = t /\ \A i \in 1 .. Len(r) : u[i] = r[i]
    BY <1>2
  <2>2. SP!Distinct(u) /\ Apart(u, s)
    BY <1>1 DEF Lists, Ring
  <2> HIDE DEF u
  <2>3. Len(r) + 1 \in 1 .. Len(u) /\ \A i \in 1 .. Len(r) : i \in 1 .. Len(u) /\ i # Len(r) + 1
    BY <1>2, <2>1
  <2>4. SP!Distinct(r) /\ \A i \in 1 .. Len(r) : r[i] # t
    BY <2>1, <2>2, <2>3 DEF SP!Distinct
  <2>5. Apart(r, s) /\ ~SP!In(t, s)
    BY <2>1, <2>2, <2>3 DEF Apart, SP!In
  <2> QED
    BY <2>4, <2>5
<1>4. /\ n \in Insertion /\ n.task = t /\ n.head = p.head /\ n.tail = p.tail
      /\ n.step = StepAfter[p.step]
      /\ StepAfter[p.step] \in {"t.prev", "t.next", "head.prev", "count"}
  <2>1. StepAfter[p.step] \in {"t.prev", "t.next", "head.prev", "count"}
    BY <1>2 DEF StepAfter
  <2> QED
    BY <1>1, <2>1 DEF Insertion
<1> HIDE DEF n
<1>5. (P \in Queues /\ P.state = q.state /\ Seen(P, r, s) /\ Finished(P, n) = Finished(q, p))
  <2>1. CASE p.step = "empty"
    <3> DEFINE A == Link(q, t, t)  B == LinkBack(A, t, t)  C == [B EXCEPT !.head = t]
    <3>1. P = C
      BY <2>1 DEF Store
    <3>2. n.step = "count"
      BY <1>4, <2>1 DEF StepAfter
    <3>3. Finished(q, p) = DoCount(C) /\ Finished(P, n) = DoCount(P)
      BY <2>1, <3>2 DEF Finished, DoEmpty
    <3>4. Linked(A, q, t, t)
      BY <1>1, <1>2, LinkFields
    <3>5. LinkedBack(B, A, t, t)
      <4> HIDE DEF A
      <4> QED
        BY <1>2, <3>4, LinkFields DEF Linked
    <3> HIDE DEF A, B
    <3>6. /\ C \in Queues /\ C.next = A.next /\ C.state = q.state
          /\ C.count = q.count /\ C.sleep = q.sleep
      BY <1>2, <3>4, <3>5 DEF Queues, Linked, LinkedBack
    <3> HIDE DEF C
    <3>7. Seen(C, r, s)
      <4>1. r = << >> /\ (\A i \in 1 .. Len(r) - 1 : r[i] # t) /\ C.next = [q.next EXCEPT ![t] = t]
        BY <1>1, <1>2, <1>3, <2>1, <3>4, <3>6 DEF Linked
      <4>2. C.count = q.count /\ C.sleep = q.sleep /\ ~SP!In(t, s) /\ (r # << >> => C.head = q.head)
        BY <1>3, <3>6, <4>1
      <4> HIDE DEF t
      <4> QED
        BY <1>1, <1>2, <4>1, <4>2, SeenKept
    <3> QED
      BY <3>1, <3>3, <3>6, <3>7
  <2>2. CASE p.step = "tail.next"
    <3>1. P = Link(q, p.tail, t) /\ n.step = "t.prev"
      BY <1>4, <2>2 DEF Store, StepAfter
    <3>2. Finished(q, p) = Finished(P, n)
      BY <1>4, <2>2, <3>1 DEF Finished, DoTailNext, DoTPrev, DoTNext, DoHeadPrev
    <3>3. Linked(P, q, p.tail, t)
      BY <1>1, <1>2, <3>1, LinkFields
    <3>4. p.tail \in Slots /\ (\A i \in 1 .. Len(r) - 1 : r[i] # p.tail) /\ ~SP!In(p.tail, s)
      <4>1. Len(r) \in 1 .. Len(r) /\ p.tail = r[Len(r)]
        BY <1>1, <1>2, <2>2
      <4> QED
        BY <1>2, <1>3, <4>1 DEF SP!Distinct, Apart, SP!In
    <3> HIDE DEF P
    <3>5. Seen(P, r, s)
      BY <1>1, <3>3, <3>4, SeenKept DEF Linked
    <3> QED
      BY <3>2, <3>3, <3>5 DEF Linked
  <2>3. CASE p.step = "t.prev"
    <3>1. P = LinkBack(q, t, p.tail) /\ n.step = "t.next"
      BY <1>4, <2>3 DEF Store, StepAfter
    <3>2. Finished(q, p) = Finished(P, n)
      BY <1>4, <2>3, <3>1 DEF Finished, DoTPrev, DoTNext, DoHeadPrev
    <3>3. LinkedBack(P, q, t, p.tail)
      BY <1>1, <1>2, <3>1, LinkFields
    <3> HIDE DEF P
    <3>4. Seen(P, r, s)
      BY <1>1, <3>3 DEF LinkedBack, Seen, Chain
    <3> QED
      BY <3>2, <3>3, <3>4 DEF LinkedBack
  <2>4. CASE p.step = "t.next"
    <3>1. P = Link(q, t, p.head) /\ n.step = "head.prev"
      BY <1>4, <2>4 DEF Store, StepAfter
    <3>2. Finished(q, p) = Finished(P, n)
      BY <1>4, <2>4, <3>1 DEF Finished, DoTNext, DoHeadPrev
    <3>3. Linked(P, q, t, p.head)
      BY <1>1, <1>2, <3>1, LinkFields
    <3>4. \A i \in 1 .. Len(r) - 1 : r[i] # t
      BY <1>2, <1>3
    <3> HIDE DEF P
    <3>5. Seen(P, r, s)
      BY <1>1, <1>2, <1>3, <3>3, <3>4, SeenKept DEF Linked
    <3> QED
      BY <3>2, <3>3, <3>5 DEF Linked
  <2>5. CASE p.step = "head.prev"
    <3>1. P = LinkBack(q, p.head, t) /\ n.step = "count"
      BY <1>4, <2>5 DEF Store, StepAfter
    <3>2. Finished(q, p) = Finished(P, n)
      BY <1>4, <2>5, <3>1 DEF Finished, DoHeadPrev
    <3>3. LinkedBack(P, q, p.head, t)
      BY <1>1, <1>2, <3>1, LinkFields
    <3> HIDE DEF P
    <3>4. Seen(P, r, s)
      BY <1>1, <3>3 DEF LinkedBack, Seen, Chain
    <3> QED
      BY <3>2, <3>3, <3>4 DEF LinkedBack
  <2> QED
    BY <1>2, <2>1, <2>2, <2>3, <2>4, <2>5
<1> HIDE DEF P
<1>6. Inserting(P, r, s, n)
  BY <1>1, <1>4, <1>5 DEF Inserting
<1> QED
  BY <1>5, <1>6 DEF P, n

(* The last store, of the count, is Sched's sched_add; the others are seen *)
(* by no reader.                                                           *)
LEMMA StoreLists ==
  ASSUME LInv, sched_add_store
  PROVE  LInv' /\ [SP!Next]_(SP!vars)
<1> DEFINE r == ReadyWalk  s == SleepWalk  p == push[g_current]  t == p.task
<1>1. /\ g_current \in Slots /\ p # NoPush /\ g_current # Idle /\ phase = "up" /\ t \in pending
      /\ Inserting(q, r, s, p) /\ LinksTypeOK /\ SP!IInv /\ p \in Insertion /\ q \in Queues
      /\ push \in [Slots -> Insertion \cup {NoPush}]
      /\ \A u \in Slots : push[u] # NoPush => u = g_current
  BY DEF LInv, sched_add_store, LinksTypeOK, Inserting
<1>2. /\ q' = Store(p)
      /\ push' = [push EXCEPT ![g_current] = IF p.step = "count" THEN NoPush
                                             ELSE [p EXCEPT !.step = StepAfter[p.step]]]
      /\ pending' = IF p.step = "count" THEN pending \ {t} ELSE pending
      /\ UNCHANGED << phase, pid, wake_tick, g_next_pid, g_current, g_quantum_left, g_ticks >>
  BY DEF sched_add_store
<1> HIDE DEF p
<1>3. CASE p.step # "count"
  <2> DEFINE n == [p EXCEPT !.step = StepAfter[p.step]]
  <2>1. Inserting(q', r, s, n) /\ q'.state = q.state
    BY <1>1, <1>2, <1>3, StoreKeeps
  <2>2. ReadyWalk' = r /\ SleepWalk' = s
    BY <2>1, WalksAre DEF Inserting
  <2>3. UNCHANGED SP!vars
    BY <1>2, <1>3, <2>1, <2>2 DEF SP!vars
  <2>4. SP!IInv'
    BY <1>1, <2>3, SP!NextInv, Assumed
  <2>5. n.task = t
    BY <1>1 DEF Insertion
  <2> HIDE DEF n
  <2>6. push' = [push EXCEPT ![g_current] = n] /\ push' \in [Slots -> Insertion \cup {NoPush}]
    BY <1>1, <1>2, <1>3, <2>1 DEF n, Inserting
  <2>7. Seen(q', ReadyWalk', SleepWalk') /\ q' \in Queues
    BY <2>1, <2>2 DEF Inserting
  <2>8. LinksTypeOK'
    BY <1>1, <2>4, <2>6, <2>7, TypesKept
  <2>9. n # NoPush
    BY <2>1, SlotFacts DEF Inserting, Insertion, NoPush
  <2>10. push'[g_current] = n /\ \A u \in Slots : push'[u] # NoPush => u = g_current
    BY <1>1, <2>6
  <2>11. ~Quiet'
    BY <1>1, <2>9, <2>10 DEF Quiet
  <2>12. \A u \in Slots : push'[u] # NoPush =>
          /\ u = g_current' /\ u # Idle /\ phase' = "up" /\ push'[u].task \in pending'
          /\ Inserting(q', ReadyWalk', SleepWalk', push'[u])
    BY <1>1, <1>2, <1>3, <2>1, <2>2, <2>5, <2>10
  <2> QED
    BY <2>3, <2>4, <2>8, <2>11, <2>12 DEF LInv, Quiet
<1>4. CASE p.step = "count"
  <2>1. q' = Finished(q, p) /\ q'.state = q.state
    <3>1. q' = DoCount(q)
      BY <1>2, <1>4 DEF Store, DoCount
    <3> QED
      BY <1>1, <1>4, <3>1, CountFields DEF Finished
  <2>2. Lists(q', Append(r, t), s)
    BY <1>1, <2>1 DEF Inserting
  <2>3. ReadyWalk' = Append(r, t) /\ SleepWalk' = s /\ Lists(q', ReadyWalk', SleepWalk')
    BY <2>2, StateNow
  <2>4. q.state = [q.state EXCEPT ![t] = "READY"]
    <3>1. t \in Slots /\ Slots = SP!Slots
      BY <1>1 DEF Insertion, Slots, SP!Slots
    <3>2. q.state[t] = "READY"
      BY <1>1, <3>1 DEF SP!IInv, SP!TaskAccounting
    <3>3. q.state \in [Slots -> {"DEAD", "READY", "RUNNING", "SLEEPING"}]
      BY <1>1 DEF Queues
    <3> QED
      BY <3>1, <3>2, <3>3
  <2>5. SP!sched_add(t)
    BY <1>1, <1>2, <1>4, <2>1, <2>3, <2>4
       DEF SP!sched_add, SP!CanAct, SP!Idle, Idle, SP!rq_push_back
  <2>6. SP!Next
    BY <1>1, <2>5 DEF SP!Next
  <2>7. SP!IInv'
    BY <1>1, <2>6, SP!NextInv, Assumed
  <2>8. push' \in [Slots -> Insertion \cup {NoPush}] /\ \A u \in Slots : push'[u] = NoPush
    BY <1>1, <1>2, <1>4
  <2>9. Seen(q', ReadyWalk', SleepWalk') /\ q' \in Queues
    BY <2>3, ListsSeen DEF Lists
  <2>10. LinksTypeOK'
    BY <1>1, <2>7, <2>8, <2>9, TypesKept
  <2> QED
    BY <2>3, <2>6, <2>7, <2>8, <2>10 DEF LInv, Quiet
<1> QED
  BY <1>3, <1>4

-----------------------------------------------------------------------------
(* Every step keeps the invariant and is a step of Sched, or none. *)
LEMMA LinksNextInv ==
  ASSUME LInv, ~TickDuringAdd, [LinksNext]_lvars
  PROVE  LInv' /\ [SP!Next]_(SP!vars)
<1>1. CASE UNCHANGED lvars
  <2>1. /\ UNCHANGED << q, phase, pid, wake_tick, g_next_pid, g_current, g_quantum_left >>
        /\ UNCHANGED << g_ticks, pending, push >>
    BY <1>1 DEF lvars
  <2>2. ReadyWalk' = ReadyWalk /\ SleepWalk' = SleepWalk
    BY <2>1 DEF ReadyWalk, SleepWalk, Walk
  <2>3. UNCHANGED SP!vars
    BY <2>1, <2>2 DEF SP!vars
  <2>4. SP!IInv'
    BY <2>3, SP!NextInv, Assumed DEF LInv
  <2>5. LinksTypeOK'
    BY <2>1 DEF LInv, LinksTypeOK
  <2> QED
    BY <2>1, <2>2, <2>3, <2>4, <2>5 DEF LInv, Quiet
<1>2. CASE LinksNext
  <2>1. (\E t \in pending : sched_add(t)) => LInv' /\ [SP!Next]_(SP!vars)
    BY AddLists
  <2> QED
    BY <1>2, <2>1, BootLists, TickLists, CreationLists, StoreLists, RunningLists DEF LinksNext
<1> QED
  BY <1>1, <1>2

(* The queue invariant, and with it the scheduler's whole accounting, is   *)
(* kept by the pointer code, whatever the table size, quantum and sleep    *)
(* times, when no tick falls between the stores of sched_add.              *)
THEOREM LinksInvariance ==
  ASSUME ~TickDuringAdd
  PROVE  LinksSpec => []LInv
<1>1. LinksInit => LInv
  BY InitLists
<1>2. LInv /\ [LinksNext]_lvars => LInv'
  BY LinksNextInv
<1> QED
  BY <1>1, <1>2, PTL DEF LinksSpec

(* Type correctness: in particular g_ready_count never exceeds the table.  *)
THEOREM LinksTypeCorrect ==
  ASSUME ~TickDuringAdd
  PROVE  LinksSpec => []LinksTypeOK
<1>1. LInv => LinksTypeOK
  BY DEF LInv
<1> QED
  BY <1>1, LinksInvariance, PTL

(* g_ready_head, g_ready_count, next and prev always form the circular     *)
(* list of READY tasks that sched.h describes, whenever no insertion is    *)
(* under way.                                                              *)
THEOREM RingAlwaysWhole ==
  ASSUME ~TickDuringAdd
  PROVE  LinksSpec => []RingIntegrity
<1>1. LInv => RingIntegrity
  <2> SUFFICES ASSUME LInv, Quiet
               PROVE  /\ q.head = Null <=> q.count = 0
                      /\ q.count > 0 =>
                           /\ q.next[ReadyWalk[q.count]] = q.head
                           /\ \A i \in 1 .. q.count :
                                /\ ReadyWalk[i] \in Slots
                                /\ q.state[ReadyWalk[i]] = "READY"
                                /\ q.prev[q.next[ReadyWalk[i]]] = ReadyWalk[i]
                                /\ \A j \in 1 .. i - 1 : ReadyWalk[i] # ReadyWalk[j]
    BY DEF RingIntegrity, Quiet
  <2> DEFINE r == ReadyWalk  n == Len(r)
  <2>1. Ring(q, r) /\ r \in Seq(Slots) /\ n \in Nat /\ q.count = n /\ SP!IInv
    BY DEF LInv, Lists, Ring
  <2> HIDE DEF r
  <2>2. q.head = Null <=> q.count = 0
    <3>1. n # 0 => r[1] \in Slots
      BY <2>1
    <3> QED
      BY <2>1, <3>1, SlotFacts DEF Ring
  <2>3. ASSUME q.count > 0, NEW i \in 1 .. n
        PROVE  /\ q.next[r[n]] = q.head
               /\ r[i] \in Slots /\ q.state[r[i]] = "READY" /\ q.prev[q.next[r[i]]] = r[i]
               /\ \A j \in 1 .. i - 1 : r[i] # r[j]
    <3>1. 1 \in 1 .. n /\ n \in 1 .. n /\ r # << >>
      BY <2>1, <2>3
    <3>2. q.next[r[n]] = q.head
      BY <2>1, <3>1 DEF Ring, NextIn
    <3>3. r[i] \in Slots /\ SP!In(r[i], r) /\ Slots = SP!Slots
      <4>1. Slots = SP!Slots
        BY DEF Slots, SP!Slots
      <4> QED
        BY <2>1, <4>1 DEF SP!In
    <3>4. q.state[r[i]] = "READY"
      <4>1. \A t \in Slots : SP!In(t, r) => q.state[t] = "READY"
        BY <2>1, <3>3 DEF SP!IInv, SP!TaskAccounting, r
      <4> QED
        BY <3>3, <4>1
    <3>5. q.prev[q.next[r[i]]] = r[i]
      <4>1. CASE i = n
        <5>1. q.next[r[i]] = r[1] /\ q.prev[r[1]] = r[n]
          BY <2>1, <3>1, <4>1 DEF Ring, NextIn, PrevIn
        <5> QED
          BY <4>1, <5>1
      <4>2. CASE i # n
        <5>1. i + 1 \in 1 .. n /\ i + 1 # 1 /\ (i + 1) - 1 = i
          BY <2>1, <4>2
        <5>2. q.next[r[i]] = r[i + 1]
          BY <2>1, <4>2 DEF Ring, NextIn
        <5>3. q.prev[r[i + 1]] = r[i]
          BY <2>1, <5>1 DEF Ring, PrevIn
        <5> QED
          BY <5>2, <5>3
      <4> QED
        BY <4>1, <4>2
    <3>6. \A j \in 1 .. i - 1 : r[i] # r[j]
      <4>1. \A j \in 1 .. i - 1 : j \in 1 .. n /\ j # i
        BY <2>1
      <4> QED
        BY <2>1, <4>1 DEF Ring, SP!Distinct
    <3> QED
      BY <3>2, <3>3, <3>4, <3>5, <3>6
  <2>4. q.count > 0 => q.next[r[q.count]] = q.head
    <3>1. q.count > 0 => n \in 1 .. n
      BY <2>1
    <3> QED
      BY <2>1, <2>3, <3>1
  <2> QED
    BY <2>1, <2>2, <2>3, <2>4 DEF r
<1> QED
  BY <1>1, LinksInvariance, PTL

-----------------------------------------------------------------------------
(* The instance of Sched that RefinesSched names and the one SchedProofs   *)
(* brings along are the same.                                              *)
LEMMA SameCardinality ==
  ASSUME NEW T
  PROVE  S!Cardinality(T) = SP!Cardinality(T)
BY Zenon DEF S!Cardinality, SP!Cardinality

LEMMA SameSwitch ==
  ASSUME NEW st, NEW rq
  PROVE  SP!do_switch(st, rq) => S!do_switch(st, rq)
BY DEF SP!do_switch, S!do_switch, SP!requeue_current, S!requeue_current, SP!rq_push_back,
       S!rq_push_back, SP!fresh_quantum, S!fresh_quantum

LEMMA SameTick == SP!pit_irq => S!pit_irq
<1> SUFFICES ASSUME SP!pit_irq PROVE S!pit_irq
  OBVIOUS
<1> DEFINE s == SleepWalk
           due == SP!sq_wake_due(SP!pit_tick)
           asleep == {t \in SP!Slots : SP!In(t, s)} \ due
           st == [t \in SP!Slots |-> IF t \in due THEN "READY" ELSE q.state[t]]
<1>1. S!pit_tick = SP!pit_tick /\ S!quantum_tick = SP!quantum_tick /\ S!Slots = SP!Slots
  BY DEF S!pit_tick, SP!pit_tick, S!quantum_tick, SP!quantum_tick, S!Slots, SP!Slots
<1>2. \A t, u : (S!In(t, u) <=> SP!In(t, u)) /\ \A a : (S!Before(u, t, a) <=> SP!Before(u, t, a))
  BY DEF S!In, SP!In, S!Before, SP!Before
<1>3. S!sq_wake_due(SP!pit_tick) = due
  BY <1>1, <1>2 DEF S!sq_wake_due, SP!sq_wake_due
<1>4. \A T : S!InOrder(s, T) = SP!InOrder(s, T)
  <2> SUFFICES ASSUME NEW T PROVE S!InOrder(s, T) = SP!InOrder(s, T)
    OBVIOUS
  <2>1. \A u : u \in SP!InOrder(s, T) <=> u \in S!InOrder(s, T)
    BY <1>2, SameCardinality DEF S!InOrder, SP!InOrder
  <2> QED
    BY <2>1
<1>5. {t \in S!Slots : S!In(t, s)} \ due = asleep
  BY <1>1, <1>2
<1>6. [t \in S!Slots |-> IF t \in due THEN "READY" ELSE q.state[t]] = st
  BY <1>1
<1>7. /\ g_ticks' = SP!pit_tick
      /\ \E woken \in SP!InOrder(s, due), rest \in SP!InOrder(s, asleep) :
           /\ SleepWalk' = rest
           /\ IF SP!quantum_tick = 0 THEN SP!do_switch(st, ReadyWalk \o woken)
              ELSE /\ q'.state = st /\ ReadyWalk' = ReadyWalk \o woken
                   /\ g_quantum_left' = SP!quantum_tick
                   /\ g_current' = g_current
      /\ UNCHANGED << phase, pid, wake_tick, g_next_pid, pending >>
  BY DEF SP!pit_irq
<1> HIDE DEF s, due, asleep, st
<1>8. /\ g_ticks' = SP!pit_tick
      /\ \E woken \in S!InOrder(s, due), rest \in S!InOrder(s, asleep) :
           /\ SleepWalk' = rest
           /\ IF SP!quantum_tick = 0 THEN S!do_switch(st, ReadyWalk \o woken)
              ELSE /\ q'.state = st /\ ReadyWalk' = ReadyWalk \o woken
                   /\ g_quantum_left' = SP!quantum_tick
                   /\ g_current' = g_current
      /\ UNCHANGED << phase, pid, wake_tick, g_next_pid, pending >>
  BY <1>4, <1>7, SameSwitch
<1>9. S!pit_irq <=>
      /\ g_ticks' = S!pit_tick
      /\ \E woken \in S!InOrder(s, S!sq_wake_due(S!pit_tick)),
            rest \in S!InOrder(s, {t \in S!Slots : S!In(t, s)} \ S!sq_wake_due(S!pit_tick)) :
           /\ SleepWalk' = rest
           /\ IF S!quantum_tick = 0
              THEN S!do_switch([t \in S!Slots |-> IF t \in S!sq_wake_due(S!pit_tick) THEN "READY"
                                                  ELSE q.state[t]], ReadyWalk \o woken)
              ELSE /\ q'.state = [t \in S!Slots |-> IF t \in S!sq_wake_due(S!pit_tick) THEN "READY"
                                                    ELSE q.state[t]]
                   /\ ReadyWalk' = ReadyWalk \o woken
                   /\ g_quantum_left' = S!quantum_tick
                   /\ g_current' = g_current
      /\ UNCHANGED << phase, pid, wake_tick, g_next_pid, pending >>
  BY DEF S!pit_irq, s
<1> QED
  BY <1>1, <1>3, <1>5, <1>6, <1>8, <1>9

LEMMA SameNext == [SP!Next]_(SP!vars) => [S!Next]_(S!vars)
<1>0. /\ S!Slots = SP!Slots /\ S!Kmain = SP!Kmain /\ S!Idle = SP!Idle /\ S!pid_after = SP!pid_after
      /\ (S!CanAct <=> SP!CanAct) /\ \A u, t : S!rq_push_back(u, t) = SP!rq_push_back(u, t)
  BY DEF S!Slots, SP!Slots, S!Kmain, SP!Kmain, S!Idle, SP!Idle, S!pid_after, SP!pid_after,
         S!CanAct, SP!CanAct, S!rq_push_back, SP!rq_push_back
<1>1. UNCHANGED SP!vars => UNCHANGED S!vars
  BY DEF SP!vars, S!vars
<1>2. SP!task_init => S!task_init
  BY <1>0 DEF SP!task_init, S!task_init
<1>3. SP!sched_init => S!sched_init
  BY <1>0 DEF SP!sched_init, S!sched_init
<1>4. \A s : SP!task_create(s) => S!task_create(s)
  BY <1>0 DEF SP!task_create, S!task_create
<1>5. \A t : (SP!sched_add(t) => S!sched_add(t)) /\ (SP!task_destroy(t) => S!task_destroy(t))
  BY <1>0 DEF SP!sched_add, S!sched_add, SP!task_destroy, S!task_destroy
<1>6. SP!sched_yield => S!sched_yield
  BY <1>0, SameSwitch DEF SP!sched_yield, S!sched_yield
<1>7. \A ms : SP!sched_sleep(ms) => S!sched_sleep(ms)
  BY <1>0, SameSwitch DEF SP!sched_sleep, S!sched_sleep
<1>8. SP!sched_exit => S!sched_exit
  BY <1>0, SameSwitch DEF SP!sched_exit, S!sched_exit
<1>9. SP!Next => S!Next
  BY <1>0, <1>2, <1>3, <1>4, <1>5, <1>6, <1>7, <1>8, SameTick DEF SP!Next, S!Next
<1> QED
  BY <1>1, <1>9

(* The pointer code implements the scheduler of module Sched: the stores   *)
(* of an insertion are invisible until the count, and every other step is  *)
(* the step of the same name on the sequences the links spell.             *)
THEOREM LinksImplementSched ==
  ASSUME ~TickDuringAdd
  PROVE  LinksSpec => RefinesSched
<1>1. LinksInit => LInv /\ S!Init
  <2>1. SP!Init => S!Init
    BY DEF SP!Init, S!Init, SP!Slots, S!Slots, SP!NoTask, S!NoTask
  <2> QED
    BY <2>1, InitLists
<1>2. LInv /\ [LinksNext]_lvars => [S!Next]_(S!vars)
  BY LinksNextInv, SameNext
<1> QED
  BY <1>1, <1>2, LinksInvariance, PTL DEF LinksSpec, RefinesSched, S!Spec
=============================================================================
