------------------------------ MODULE GuiProofs -------------------------------
(***************************************************************************)
(* Proofs about the user interface.  Windows: for any screen, frame and    *)
(* window sizes and any number of windows, the window list stays whole,    *)
(* keys have one place to go, no window gets out of reach, and a maximised *)
(* window is given back the place it had.  Terminal: for any sizes of the  *)
(* line buffers, the line that Enter ended is the line the shell runs.     *)
(***************************************************************************)
EXTENDS MCGui, Integers, SequenceTheorems, WellFoundedInduction, TLAPS

(* The constants of module Windows. *)
LEMMA WinFacts ==
  /\ Width \in Nat /\ Height \in Nat /\ TASKBAR_H \in Nat /\ TITLE_BAR_H \in Nat
  /\ BORDER_W \in Nat /\ BTN_W \in Nat /\ MIN_W \in Nat /\ MIN_H \in Nat
  /\ CASCADE_STEP \in Nat /\ MaxWindows \in Nat /\ MaxEvents \in Nat
  /\ MaxWindows >= 2 /\ 0 < MIN_W /\ 1 + CASCADE_STEP < Width
  /\ 1 + CASCADE_STEP < W!Bottom /\ MIN_H < W!Bottom
  /\ TITLE_BAR_H + BORDER_W <= W!Bottom /\ W!Bottom \in Int /\ W!Bottom <= Height
  /\ \A a \in W!Apps : Created[a][1] \in Nat \ {0} /\ Created[a][2] \in Nat \ {0}
  /\ \A p \in Points : /\ p[1] \in 0 .. Width - 1 /\ p[2] \in 0 .. Height - 1
                       /\ p \in (0 .. Width - 1) \X (0 .. Height - 1)
BY GuiAssumption DEF W!WindowsAssumption, W!Bottom

-----------------------------------------------------------------------------
(* The window list.  s is the order of the windows from the front.         *)

Wid == 1 .. MaxWindows
WinList == [head : 0 .. MaxWindows, tail : 0 .. MaxWindows,
            next : [Wid -> 0 .. MaxWindows], prev : [Wid -> 0 .. MaxWindows]]

Behind(s, k) == IF k = Len(s) THEN 0 ELSE s[k + 1]
Before(s, k) == IF k = 1 THEN 0 ELSE s[k - 1]

Chain(l, s) ==
  /\ l \in WinList /\ s \in Seq(Wid)
  /\ \A j, k \in 1 .. Len(s) : s[j] = s[k] => j = k
  /\ l.head = (IF Len(s) = 0 THEN 0 ELSE s[1])
  /\ l.tail = (IF Len(s) = 0 THEN 0 ELSE s[Len(s)])
  /\ \A k \in 1 .. Len(s) : l.next[s[k]] = Behind(s, k) /\ l.prev[s[k]] = Before(s, k)

(* A list of the windows 1 .. m, each once. *)
Order(l, m) ==
  \E s : /\ Chain(l, s) /\ Len(s) = m /\ \A k \in 1 .. m : s[k] \in 1 .. m
         /\ \A w \in 1 .. m : \E k \in 1 .. m : s[k] = w

LEMMA ChainFacts ==
  ASSUME NEW l, NEW s, Chain(l, s)
  PROVE  /\ l \in WinList /\ s \in Seq(Wid) /\ Len(s) \in Nat
         /\ \A k \in 1 .. Len(s) : s[k] \in Wid
         /\ \A j, k \in 1 .. Len(s) : s[j] = s[k] => j = k
<1>1. s \in Seq(Wid) /\ l \in WinList
  BY DEF Chain
<1>2. \A j, k \in 1 .. Len(s) : s[j] = s[k] => j = k
  BY Zenon DEF Chain
<1>3. Len(s) \in Nat /\ \A k \in 1 .. Len(s) : s[k] \in Wid
  BY <1>1
<1> QED
  BY <1>1, <1>2, <1>3

Pushed(s, w) == [k \in 1 .. Len(s) + 1 |-> IF k = 1 THEN w ELSE s[k - 1]]

LEMMA PushedFacts ==
  ASSUME NEW s \in Seq(Wid), NEW w \in Wid
  PROVE  /\ Pushed(s, w) \in Seq(Wid) /\ Len(Pushed(s, w)) = Len(s) + 1 /\ Len(s) \in Nat
         /\ \A k \in 1 .. Len(s) + 1 : Pushed(s, w)[k] = IF k = 1 THEN w ELSE s[k - 1]
<1>1. Len(s) \in Nat /\ \A k \in 1 .. Len(s) : s[k] \in Wid
  OBVIOUS
<1>2. \A k \in 1 .. Len(s) + 1 : (IF k = 1 THEN w ELSE s[k - 1]) \in Wid
  BY <1>1
<1> QED
  BY <1>1, <1>2 DEF Pushed

(* window_insert_front puts a window that is not in the list before it. *)
LEMMA InsertChain ==
  ASSUME NEW l, NEW s, Chain(l, s), NEW w \in Wid, \A k \in 1 .. Len(s) : s[k] # w
  PROVE  Chain(W!insert_front(l, w), Pushed(s, w))
<1> DEFINE t == Pushed(s, w)
           c == W!insert_front(l, w)
<1>1. /\ s \in Seq(Wid) /\ l \in WinList /\ Len(s) \in Nat /\ MaxWindows \in Nat
      /\ \A k \in 1 .. Len(s) : s[k] \in Wid
  BY WinFacts DEF Chain
<1>2. /\ t \in Seq(Wid) /\ Len(t) = Len(s) + 1
      /\ \A k \in 1 .. Len(t) : t[k] = IF k = 1 THEN w ELSE s[k - 1]
  BY <1>1, PushedFacts
<1> HIDE DEF t
<1>3. /\ l.head \in 0 .. MaxWindows /\ l.tail \in 0 .. MaxWindows
      /\ l.next \in [Wid -> 0 .. MaxWindows] /\ l.prev \in [Wid -> 0 .. MaxWindows]
  BY <1>1 DEF WinList
<1>4. w # 0 /\ 0 \in 0 .. MaxWindows /\ w \in 0 .. MaxWindows /\ (l.head # 0 => l.head \in Wid)
  BY <1>1, <1>3 DEF Wid
<1>5. /\ c.head = w /\ c.tail = (IF l.tail = 0 THEN w ELSE l.tail)
      /\ c.next = [l.next EXCEPT ![w] = l.head]
      /\ c.prev = (IF l.head = 0 THEN [l.prev EXCEPT ![w] = 0]
                   ELSE [[l.prev EXCEPT ![w] = 0] EXCEPT ![l.head] = w])
      /\ c = [head |-> c.head, tail |-> c.tail, next |-> c.next, prev |-> c.prev]
  BY <1>4 DEF W!insert_front, W!Linked, W!NoWin
<1> HIDE DEF c
<1>6. c \in WinList
  <2>1. c.next \in [Wid -> 0 .. MaxWindows] /\ c.prev \in [Wid -> 0 .. MaxWindows]
    <3>1. \A f \in [Wid -> 0 .. MaxWindows], a \in Wid, b \in 0 .. MaxWindows :
             [f EXCEPT ![a] = b] \in [Wid -> 0 .. MaxWindows]
      OBVIOUS
    <3>2. c.next \in [Wid -> 0 .. MaxWindows]
      BY <1>3, <1>5, <3>1
    <3>3. [l.prev EXCEPT ![w] = 0] \in [Wid -> 0 .. MaxWindows]
      BY <1>3, <1>4, <3>1
    <3>4. l.head # 0 =>
            [[l.prev EXCEPT ![w] = 0] EXCEPT ![l.head] = w] \in [Wid -> 0 .. MaxWindows]
      BY <3>3, <1>4, <3>1
    <3> QED
      BY <3>2, <3>3, <3>4, <1>5
  <2>2. c.head \in 0 .. MaxWindows /\ c.tail \in 0 .. MaxWindows
    BY <1>3, <1>4, <1>5
  <2> QED
    BY <2>1, <2>2, <1>5 DEF WinList
<1>7. \A j, k \in 1 .. Len(t) : t[j] = t[k] => j = k
  <2>1. \A j, k \in 1 .. Len(s) : s[j] = s[k] => j = k
    BY DEF Chain
  <2> SUFFICES ASSUME NEW j \in 1 .. Len(t), NEW k \in 1 .. Len(t), t[j] = t[k]
               PROVE  j = k
    OBVIOUS
  <2>2. \A i1 \in 1 .. Len(t) : i1 = 1 \/ (i1 - 1 \in 1 .. Len(s) /\ t[i1] = s[i1 - 1])
    BY <1>1, <1>2
  <2>3. t[1] = w /\ 1 \in 1 .. Len(t) /\ Len(t) \in Nat
    BY <1>1, <1>2
  <2>4. j = 1 <=> k = 1
    BY <2>2, <2>3
  <2>5. j # 1 /\ k # 1 => j - 1 = k - 1
    BY <2>1, <2>2
  <2> QED
    BY <2>3, <2>4, <2>5
<1>8. Len(t) # 0 /\ c.head = t[1]
  BY <1>1, <1>2, <1>5
<1>9. c.tail = t[Len(t)]
  <2>1. CASE Len(s) = 0
    BY <2>1, <1>1, <1>2, <1>5 DEF Chain
  <2>2. CASE Len(s) # 0
    <3>1. l.tail = s[Len(s)] /\ s[Len(s)] \in Wid
      BY <2>2, <1>1 DEF Chain
    <3>2. l.tail # 0
      BY <3>1, <1>1 DEF Wid
    <3> QED
      BY <2>2, <3>1, <3>2, <1>1, <1>2, <1>5
  <2> QED
    BY <2>1, <2>2
<1>10. ASSUME NEW k \in 1 .. Len(t)
       PROVE  c.next[t[k]] = Behind(t, k) /\ c.prev[t[k]] = Before(t, k)
  <2>1. CASE k = 1
    <3>1. t[k] = w /\ c.next[w] = l.head
      BY <2>1, <1>2, <1>3, <1>5
    <3>2. l.head = Behind(t, k)
      BY <2>1, <1>1, <1>2 DEF Chain, Behind
    <3>3. l.head # w
      BY <1>1, <1>4 DEF Chain
    <3>4. c.prev[w] = 0
      BY <1>3, <1>4, <1>5, <3>3
    <3> QED
      BY <2>1, <3>1, <3>2, <3>4 DEF Before
  <2>2. CASE k # 1
    <3>1. /\ k - 1 \in 1 .. Len(s) /\ t[k] = s[k - 1] /\ t[k] # w /\ t[k] \in Wid
          /\ Len(s) # 0 /\ l.head = s[1] /\ l.head # 0 /\ 1 \in 1 .. Len(s)
      <4>1. k - 1 \in 1 .. Len(s) /\ t[k] = s[k - 1] /\ Len(s) # 0 /\ 1 \in 1 .. Len(s)
        BY <2>2, <1>1, <1>2
      <4>2. t[k] # w /\ t[k] \in Wid /\ s[1] \in Wid
        BY <4>1, <1>1
      <4>3. l.head = s[1]
        BY <4>1 DEF Chain
      <4> QED
        BY <4>1, <4>2, <4>3 DEF Wid
    <3>2. c.next[t[k]] = l.next[s[k - 1]] /\ l.next[s[k - 1]] = Behind(s, k - 1)
      BY <3>1, <1>3, <1>5 DEF Chain
    <3>3. Behind(s, k - 1) = Behind(t, k)
      BY <3>1, <1>1, <1>2 DEF Behind
    <3>4. CASE k = 2
      <4>1. t[k] = l.head /\ Before(t, k) = w
        BY <3>1, <3>4, <1>2 DEF Before
      <4>2. c.prev[t[k]] = w
        BY <4>1, <3>1, <1>3, <1>4, <1>5
      <4> QED
        BY <3>2, <3>3, <4>1, <4>2
    <3>5. CASE k # 2
      <4>1. k - 1 # 1 /\ t[k] # l.head
        BY <3>1, <3>5, <1>1 DEF Chain
      <4>2. c.prev[t[k]] = l.prev[s[k - 1]]
        BY <4>1, <3>1, <1>3, <1>4, <1>5
      <4>3. l.prev[s[k - 1]] = Before(s, k - 1)
        BY <3>1 DEF Chain
      <4>4. Before(s, k - 1) = Before(t, k)
        BY <2>2, <4>1, <3>1, <3>5, <1>1, <1>2 DEF Before
      <4> QED
        BY <3>2, <3>3, <4>2, <4>3, <4>4
    <3> QED
      BY <3>4, <3>5
  <2> QED
    BY <2>1, <2>2
<1> QED
  BY <1>2, <1>6, <1>7, <1>8, <1>9, <1>10 DEF Chain, c, t

(* Two stores to links, the first only where there is a window. *)
LEMMA LinkedTwice ==
  ASSUME NEW f \in [Wid -> 0 .. MaxWindows], NEW a \in 0 .. MaxWindows,
         NEW b \in 0 .. MaxWindows, NEW w \in Wid, NEW x \in Wid
  PROVE  /\ W!Linked(W!Linked(f, a, b), w, 0) \in [Wid -> 0 .. MaxWindows]
         /\ x = w => W!Linked(W!Linked(f, a, b), w, 0)[x] = 0
         /\ x # w /\ x = a => W!Linked(W!Linked(f, a, b), w, 0)[x] = b
         /\ x # w /\ x # a => W!Linked(W!Linked(f, a, b), w, 0)[x] = f[x]
<1>1. 0 \in 0 .. MaxWindows /\ (\A v \in Wid : v # 0) /\ (a # 0 => a \in Wid)
  BY WinFacts DEF Wid
<1>2. W!Linked(f, a, b) \in [Wid -> 0 .. MaxWindows]
  BY <1>1 DEF W!Linked, W!NoWin
<1>3. W!Linked(f, a, b)[x] = IF x = a THEN b ELSE f[x]
  BY <1>1 DEF W!Linked, W!NoWin
<1> DEFINE g == W!Linked(f, a, b)
<1> HIDE DEF g
<1>4. g \in [Wid -> 0 .. MaxWindows] =>
        /\ W!Linked(g, w, 0) \in [Wid -> 0 .. MaxWindows]
        /\ W!Linked(g, w, 0)[x] = IF x = w THEN 0 ELSE g[x]
  BY <1>1 DEF W!Linked, W!NoWin
<1> QED
  BY <1>2, <1>3, <1>4 DEF g

Without(s, j) == [k \in 1 .. Len(s) - 1 |-> IF k < j THEN s[k] ELSE s[k + 1]]

(* window_remove_from_list takes one window out, its neighbours are linked. *)
LEMMA RemoveChain ==
  ASSUME NEW l, NEW s, Chain(l, s), NEW j \in 1 .. Len(s)
  PROVE  /\ Chain(W!remove_from_list(l, s[j]), Without(s, j))
         /\ Len(Without(s, j)) = Len(s) - 1
         /\ \A k \in 1 .. Len(s) - 1 : Without(s, j)[k] = IF k < j THEN s[k] ELSE s[k + 1]
<1>1. /\ s \in Seq(Wid) /\ l \in WinList /\ Len(s) \in Nat /\ MaxWindows \in Nat
      /\ \A k \in 1 .. Len(s) : s[k] \in Wid
      /\ \A i1, k \in 1 .. Len(s) : s[i1] = s[k] => i1 = k
  BY WinFacts DEF Chain
<1>4. /\ l.head \in 0 .. MaxWindows /\ l.tail \in 0 .. MaxWindows
      /\ l.next \in [Wid -> 0 .. MaxWindows] /\ l.prev \in [Wid -> 0 .. MaxWindows]
  BY <1>1 DEF WinList
<1>00. /\ s[j] \in Wid /\ l.next[s[j]] = Behind(s, j) /\ l.prev[s[j]] = Before(s, j)
       /\ Behind(s, j) \in 0 .. MaxWindows /\ Before(s, j) \in 0 .. MaxWindows
  <2>1. s[j] \in Wid /\ l.next[s[j]] = Behind(s, j) /\ l.prev[s[j]] = Before(s, j)
    BY <1>1 DEF Chain
  <2> QED
    BY <2>1, <1>4
<1>0. PICK w \in Wid, p \in 0 .. MaxWindows, n1 \in 0 .. MaxWindows :
        w = s[j] /\ p = Before(s, j) /\ n1 = Behind(s, j)
  BY <1>00
<1>5. /\ w \in Wid /\ w # 0 /\ l.next[w] = n1 /\ l.prev[w] = p
      /\ n1 \in 0 .. MaxWindows /\ p \in 0 .. MaxWindows
  BY <1>0, <1>00, <1>1 DEF Wid
<1> DEFINE u == Without(s, j)
           c == W!remove_from_list(l, w)
<1>2. \A k \in 1 .. Len(s) - 1 : k \in 1 .. Len(s) /\ k + 1 \in 1 .. Len(s)
  BY <1>1
<1>3. /\ u \in Seq(Wid) /\ Len(u) = Len(s) - 1
      /\ \A k \in 1 .. Len(s) - 1 : u[k] = IF k < j THEN s[k] ELSE s[k + 1]
  <2>1. \A k \in 1 .. Len(s) - 1 : (IF k < j THEN s[k] ELSE s[k + 1]) \in Wid
    BY <1>1, <1>2
  <2>2. Len(s) - 1 \in Nat
    BY <1>1
  <2> QED
    BY <2>1, <2>2 DEF Without
<1> HIDE DEF u
<1>6. p # w /\ n1 # w
  <2>1. j # 1 => j - 1 \in 1 .. Len(s)
    BY <1>1
  <2>2. j # Len(s) => j + 1 \in 1 .. Len(s)
    BY <1>1
  <2>3. j # 1 => s[j - 1] # s[j]
    BY <1>1, <2>1
  <2>4. j # Len(s) => s[j + 1] # s[j]
    BY <1>1, <2>2
  <2> QED
    BY <1>0, <1>5, <2>3, <2>4 DEF Before, Behind
<1>7. /\ c.head = (IF p = 0 THEN n1 ELSE l.head) /\ c.tail = (IF n1 = 0 THEN p ELSE l.tail)
      /\ c.next = W!Linked(W!Linked(l.next, p, n1), w, 0)
      /\ c.prev = W!Linked(W!Linked(l.prev, n1, p), w, 0)
      /\ c = [head |-> c.head, tail |-> c.tail, next |-> c.next, prev |-> c.prev]
  BY <1>5 DEF W!remove_from_list, W!NoWin
<1> HIDE DEF c
<1>9. /\ c.next \in [Wid -> 0 .. MaxWindows] /\ c.prev \in [Wid -> 0 .. MaxWindows]
      /\ \A x \in Wid : c.next[x] = IF x = w THEN 0 ELSE IF x = p THEN n1 ELSE l.next[x]
      /\ \A x \in Wid : c.prev[x] = IF x = w THEN 0 ELSE IF x = n1 THEN p ELSE l.prev[x]
  <2>1. /\ c.next \in [Wid -> 0 .. MaxWindows]
        /\ \A x \in Wid : c.next[x] = IF x = w THEN 0 ELSE IF x = p THEN n1 ELSE l.next[x]
    <3> DEFINE g == W!Linked(W!Linked(l.next, p, n1), w, 0)
    <3>1. c.next = g
      BY <1>7
    <3>0. /\ l.next \in [Wid -> 0 .. MaxWindows] /\ p \in 0 .. MaxWindows
          /\ n1 \in 0 .. MaxWindows /\ w \in Wid
      BY <1>4, <1>5
    <3>2. g \in [Wid -> 0 .. MaxWindows]
      BY <3>0, LinkedTwice
    <3>3. ASSUME NEW x \in Wid
          PROVE  g[x] = IF x = w THEN 0 ELSE IF x = p THEN n1 ELSE l.next[x]
      <4>1. x = w => g[x] = 0
        BY <3>0, LinkedTwice
      <4>2. x # w /\ x = p => g[x] = n1
        BY <3>0, LinkedTwice
      <4>3. x # w /\ x # p => g[x] = l.next[x]
        BY <3>0, LinkedTwice
      <4> QED
        BY <4>1, <4>2, <4>3
    <3> HIDE DEF g
    <3> QED
      BY <3>1, <3>2, <3>3
  <2>2. /\ c.prev \in [Wid -> 0 .. MaxWindows]
        /\ \A x \in Wid : c.prev[x] = IF x = w THEN 0 ELSE IF x = n1 THEN p ELSE l.prev[x]
    <3> DEFINE g == W!Linked(W!Linked(l.prev, n1, p), w, 0)
    <3>1. c.prev = g
      BY <1>7
    <3>0. /\ l.prev \in [Wid -> 0 .. MaxWindows] /\ n1 \in 0 .. MaxWindows
          /\ p \in 0 .. MaxWindows /\ w \in Wid
      BY <1>4, <1>5
    <3>2. g \in [Wid -> 0 .. MaxWindows]
      BY <3>0, LinkedTwice
    <3>3. ASSUME NEW x \in Wid
          PROVE  g[x] = IF x = w THEN 0 ELSE IF x = n1 THEN p ELSE l.prev[x]
      <4>1. x = w => g[x] = 0
        BY <3>0, LinkedTwice
      <4>2. x # w /\ x = n1 => g[x] = p
        BY <3>0, LinkedTwice
      <4>3. x # w /\ x # n1 => g[x] = l.prev[x]
        BY <3>0, LinkedTwice
      <4> QED
        BY <4>1, <4>2, <4>3
    <3> HIDE DEF g
    <3> QED
      BY <3>1, <3>2, <3>3
  <2> QED
    BY <2>1, <2>2
<1>10. c \in WinList
  <2>1. c.head \in 0 .. MaxWindows /\ c.tail \in 0 .. MaxWindows
    BY <1>4, <1>5, <1>7
  <2> QED
    BY <2>1, <1>7, <1>9 DEF WinList
<1>11. \A i1, k \in 1 .. Len(u) : u[i1] = u[k] => i1 = k
  <2> SUFFICES ASSUME NEW i1 \in 1 .. Len(u), NEW k \in 1 .. Len(u), u[i1] = u[k]
               PROVE  i1 = k
    OBVIOUS
  <2> DEFINE at1(x) == IF x < j THEN x ELSE x + 1
  <2>1. \A x \in 1 .. Len(u) : at1(x) \in 1 .. Len(s) /\ u[x] = s[at1(x)]
    BY <1>1, <1>2, <1>3
  <2>2. at1(i1) = at1(k)
    <3> HIDE DEF at1
    <3> QED  BY <1>1, <2>1
  <2> QED
    BY <2>2, <1>1
<1>12. \A k \in 1 .. Len(s) : s[k] = w => k = j
  BY <1>0, <1>1
<1>13. (j # 1 => p = s[j - 1] /\ j - 1 \in 1 .. Len(s)) /\ (j = 1 => p = 0)
  BY <1>0, <1>1 DEF Before
<1>14. (j # Len(s) => n1 = s[j + 1] /\ j + 1 \in 1 .. Len(s)) /\ (j = Len(s) => n1 = 0)
  BY <1>0, <1>1 DEF Behind
<1>15. \A k \in 1 .. Len(s) : s[k] # 0
  BY <1>1 DEF Wid
<1>16. c.head = (IF Len(u) = 0 THEN 0 ELSE u[1]) /\ c.tail = (IF Len(u) = 0 THEN 0 ELSE u[Len(u)])
  <2>1. l.head = s[1] /\ l.tail = s[Len(s)]
    BY <1>1 DEF Chain
  <2>2. p = 0 <=> j = 1
    BY <1>13, <1>15
  <2>3. n1 = 0 <=> j = Len(s)
    BY <1>14, <1>15
  <2>4. Len(u) = 0 => j = 1 /\ j = Len(s)
    <3>1. Len(s) \in Nat /\ Len(u) = Len(s) - 1
      BY <1>1, <1>3
    <3> QED
      BY <3>1
  <2>5. c.head = (IF Len(u) = 0 THEN 0 ELSE u[1])
    <3>1. CASE Len(u) = 0
      BY <3>1, <2>2, <2>3, <2>4, <1>7
    <3>2. CASE Len(u) # 0
      <4>1. 1 \in 1 .. Len(s) - 1
        BY <3>2, <1>1, <1>3
      <4>2. j = 1 => u[1] = s[2] /\ j # Len(s) /\ n1 = s[2]
        BY <4>1, <1>1, <1>3, <1>14
      <4>3. j # 1 => u[1] = s[1]
        BY <4>1, <1>1, <1>3
      <4>4. c.head = IF p = 0 THEN n1 ELSE l.head
        BY <1>7
      <4> QED
        BY <3>2, <2>1, <2>2, <4>2, <4>3, <4>4
    <3> QED
      BY <3>1, <3>2
  <2>6. c.tail = (IF Len(u) = 0 THEN 0 ELSE u[Len(u)])
    <3>1. CASE Len(u) = 0
      BY <3>1, <2>2, <2>3, <2>4, <1>7
    <3>2. CASE Len(u) # 0
      <4>1. Len(u) \in 1 .. Len(s) - 1 /\ Len(u) = Len(s) - 1
        BY <3>2, <1>1, <1>3
      <4>2. j = Len(s) => u[Len(u)] = s[Len(s) - 1] /\ j # 1 /\ p = s[Len(s) - 1]
        BY <4>1, <1>1, <1>3, <1>13
      <4>3. j # Len(s) => u[Len(u)] = s[Len(s)]
        BY <4>1, <1>1, <1>3
      <4>4. c.tail = IF n1 = 0 THEN p ELSE l.tail
        BY <1>7
      <4> QED
        BY <3>2, <2>1, <2>3, <4>2, <4>3, <4>4
    <3> QED
      BY <3>1, <3>2
  <2> QED
    BY <2>5, <2>6
<1>17. ASSUME NEW k \in 1 .. Len(u)
       PROVE  c.next[u[k]] = Behind(u, k) /\ c.prev[u[k]] = Before(u, k)
  <2>0. /\ k \in 1 .. Len(s) /\ k + 1 \in 1 .. Len(s) /\ Len(u) = Len(s) - 1
        /\ k \in 1 .. Len(s) - 1
    BY <1>1, <1>2, <1>3
  <2>1. CASE k < j
    <3>1. u[k] = s[k] /\ s[k] \in Wid /\ s[k] # w
      BY <2>0, <2>1, <1>1, <1>3, <1>12
    <3>2. l.next[s[k]] = Behind(s, k) /\ l.prev[s[k]] = Before(s, k)
      BY <2>0 DEF Chain
    <3>3. s[k] # n1
      BY <2>0, <2>1, <1>1, <1>14, <1>15
    <3>4. c.prev[u[k]] = Before(s, k)
      BY <3>1, <3>2, <3>3, <1>9
    <3>5. Before(s, k) = Before(u, k)
      <4>1. k # 1 => k - 1 \in 1 .. Len(s) - 1 /\ k - 1 < j
        BY <2>0, <2>1, <1>1
      <4> QED
        BY <4>1, <1>3 DEF Before
    <3>6. CASE k = j - 1
      <4>1. j # 1 /\ c.next[u[k]] = n1
        BY <3>1, <3>6, <2>0, <1>1, <1>9, <1>13
      <4>2. n1 = Behind(u, k)
        <5>1. j = Len(s) <=> k = Len(u)
          BY <3>6, <2>0, <1>1
        <5>2. j # Len(s) => k + 1 \in 1 .. Len(s) - 1 /\ k + 1 = j
          BY <3>6, <2>0, <1>1
        <5> QED
          BY <5>1, <5>2, <1>3, <1>14 DEF Behind
      <4> QED
        BY <3>4, <3>5, <4>1, <4>2
    <3>7. CASE k # j - 1
      <4>1. s[k] # p
        BY <3>7, <2>0, <1>1, <1>13, <1>15
      <4>2. c.next[u[k]] = Behind(s, k)
        BY <3>1, <3>2, <4>1, <1>9
      <4>3. k # Len(s) /\ k # Len(u) /\ k + 1 < j /\ k + 1 \in 1 .. Len(s) - 1
        BY <2>0, <2>1, <3>7, <1>1
      <4>4. Behind(s, k) = Behind(u, k)
        BY <4>3, <1>3 DEF Behind
      <4> QED
        BY <3>4, <3>5, <4>2, <4>4
    <3> QED
      BY <3>6, <3>7
  <2>2. CASE ~(k < j)
    <3>1. u[k] = s[k + 1] /\ s[k + 1] \in Wid /\ k + 1 # j
      BY <2>0, <2>2, <1>1, <1>3
    <3>2. s[k + 1] # w
      BY <3>1, <2>0, <1>12
    <3>3. l.next[s[k + 1]] = Behind(s, k + 1) /\ l.prev[s[k + 1]] = Before(s, k + 1)
      BY <2>0 DEF Chain
    <3>4. s[k + 1] # p
      BY <2>0, <2>2, <1>1, <1>13, <1>15
    <3>5. c.next[u[k]] = Behind(s, k + 1)
      BY <3>1, <3>2, <3>3, <3>4, <1>9
    <3>6. Behind(s, k + 1) = Behind(u, k)
      <4>1. k + 1 = Len(s) <=> k = Len(u)
        BY <2>0, <1>1
      <4>2. k # Len(u) => k + 1 \in 1 .. Len(s) - 1 /\ ~(k + 1 < j)
        BY <2>0, <2>2, <1>1
      <4>3. k # Len(u) => u[k + 1] = s[(k + 1) + 1]
        BY <4>2, <1>3
      <4> QED
        BY <4>1, <4>3 DEF Behind
    <3>7. CASE k = j
      <4>1. j # Len(s) /\ n1 = s[k + 1]
        BY <3>7, <2>0, <1>1, <1>14
      <4>2. c.prev[u[k]] = p
        BY <3>1, <3>2, <4>1, <1>9
      <4>3. p = Before(u, k)
        <5>1. j # 1 => j - 1 \in 1 .. Len(s) - 1 /\ j - 1 < j
          BY <3>7, <2>0, <1>1
        <5> QED
          BY <5>1, <3>7, <1>3, <1>13 DEF Before
      <4> QED
        BY <3>5, <3>6, <4>2, <4>3
    <3>8. CASE k # j
      <4>1. s[k + 1] # n1
        BY <3>8, <2>0, <1>1, <1>14, <1>15
      <4>2. c.prev[u[k]] = Before(s, k + 1)
        BY <3>1, <3>2, <3>3, <4>1, <1>9
      <4>3. k # 1 /\ k + 1 # 1 /\ k - 1 \in 1 .. Len(s) - 1 /\ ~(k - 1 < j) /\ (k - 1) + 1 = k
            /\ (k + 1) - 1 = k
        BY <2>0, <2>2, <3>8, <1>1
      <4>4. Before(s, k + 1) = Before(u, k)
        BY <4>3, <1>3 DEF Before
      <4> QED
        BY <3>5, <3>6, <4>2, <4>4
    <3> QED
      BY <3>7, <3>8
  <2> QED
    BY <2>1, <2>2
<1>18. Chain(c, u)
  BY <1>3, <1>10, <1>11, <1>16, <1>17 DEF Chain
<1> QED
  BY <1>0, <1>3, <1>18 DEF c, u

(* A new window goes to the front. *)
LEMMA InsertOrder ==
  ASSUME NEW l, NEW m \in Nat, m < MaxWindows, Order(l, m)
  PROVE  /\ Order(W!insert_front(l, m + 1), m + 1)
         /\ W!insert_front(l, m + 1).head = m + 1
<1>1. PICK s : /\ Chain(l, s) /\ Len(s) = m /\ \A k \in 1 .. m : s[k] \in 1 .. m
               /\ \A w \in 1 .. m : \E k \in 1 .. m : s[k] = w
  BY DEF Order
<1> DEFINE t == Pushed(s, m + 1)
<1>2. /\ m + 1 \in Wid /\ s \in Seq(Wid) /\ \A k \in 1 .. m : s[k] \in Wid
      /\ MaxWindows \in Nat /\ \A i1, k \in 1 .. m : s[i1] = s[k] => i1 = k
  <2>1. m + 1 \in Wid /\ MaxWindows \in Nat
    BY WinFacts DEF Wid
  <2>2. /\ s \in Seq(Wid) /\ \A k \in 1 .. Len(s) : s[k] \in Wid
        /\ \A i1, k \in 1 .. Len(s) : s[i1] = s[k] => i1 = k
    BY <1>1, ChainFacts, Zenon
  <2> QED
    BY <1>1, <2>1, <2>2
<1>3. \A k \in 1 .. m : s[k] # m + 1
  BY <1>1
<1>4. Chain(W!insert_front(l, m + 1), t)
  BY <1>1, <1>2, <1>3, InsertChain
<1>5. Len(t) = m + 1 /\ \A k \in 1 .. m + 1 : t[k] = IF k = 1 THEN m + 1 ELSE s[k - 1]
  <2>1. /\ Len(Pushed(s, m + 1)) = Len(s) + 1
        /\ \A k \in 1 .. Len(s) + 1 : Pushed(s, m + 1)[k] = IF k = 1 THEN m + 1 ELSE s[k - 1]
    BY <1>2, PushedFacts
  <2> QED
    BY <1>1, <2>1
<1> HIDE DEF t
<1>6. ASSUME NEW w \in 1 .. m + 1 PROVE \E k \in 1 .. m + 1 : t[k] = w
  <2>1. CASE w = m + 1
    BY <2>1, <1>5
  <2>2. CASE w # m + 1
    <3>1. PICK k \in 1 .. m : s[k] = w
      BY <2>2, <1>1
    <3>2. k + 1 \in 1 .. m + 1 /\ t[k + 1] = w
      BY <3>1, <1>5
    <3> QED
      BY <3>2
  <2> QED
    BY <2>1, <2>2
<1>7. W!insert_front(l, m + 1).head = m + 1
  BY DEF W!insert_front
<1>8. \A k \in 1 .. m + 1 : t[k] \in 1 .. m + 1
  BY <1>1, <1>5
<1> QED
  BY <1>4, <1>5, <1>6, <1>7, <1>8 DEF Order

(* gui_window_bring_to_front moves a window of the list to its front. *)
LEMMA FrontOrder ==
  ASSUME NEW l, NEW m \in Nat, Order(l, m), NEW w \in 1 .. m
  PROVE  Order(W!bring_to_front(l, w), m) /\ W!bring_to_front(l, w).head = w
<1>1. CASE w = l.head
  BY <1>1 DEF W!bring_to_front
<1>2. CASE w # l.head
  <2>1. PICK s : /\ Chain(l, s) /\ Len(s) = m /\ \A k \in 1 .. m : s[k] \in 1 .. m
                 /\ \A v \in 1 .. m : \E k \in 1 .. m : s[k] = v
    BY DEF Order
  <2>2. PICK j \in 1 .. m : s[j] = w
    BY <2>1
  <2> DEFINE u == Without(s, j)
             t == Pushed(u, w)
             d == W!remove_from_list(l, w)
  <2>3. /\ \A k \in 1 .. m : s[k] \in Wid
        /\ \A i1, k \in 1 .. m : s[i1] = s[k] => i1 = k
    <3>1. /\ \A k \in 1 .. Len(s) : s[k] \in Wid
          /\ \A i1, k \in 1 .. Len(s) : s[i1] = s[k] => i1 = k
      BY <2>1, ChainFacts, Zenon
    <3> QED
      BY <2>1, <3>1
  <2>4. /\ Chain(d, u) /\ Len(u) = m - 1
        /\ \A k \in 1 .. m - 1 : u[k] = IF k < j THEN s[k] ELSE s[k + 1]
    <3>1. j \in 1 .. Len(s) /\ Chain(l, s) /\ s[j] = w /\ Len(s) = m
      BY <2>1, <2>2
    <3>2. /\ Chain(W!remove_from_list(l, s[j]), Without(s, j))
          /\ Len(Without(s, j)) = Len(s) - 1
          /\ \A k \in 1 .. Len(s) - 1 : Without(s, j)[k] = IF k < j THEN s[k] ELSE s[k + 1]
      BY <3>1, RemoveChain
    <3> QED
      BY <3>1, <3>2
  <2> HIDE DEF u, d
  <2>5. \A k \in 1 .. m - 1 : u[k] # w
    <3> SUFFICES ASSUME NEW k \in 1 .. m - 1 PROVE u[k] # w
      OBVIOUS
    <3>1. k \in 1 .. m /\ k + 1 \in 1 .. m
      OBVIOUS
    <3>2. k < j => s[k] # w
      BY <2>2, <2>3, <3>1
    <3>3. ~(k < j) => s[k + 1] # w
      BY <2>2, <2>3, <3>1
    <3> QED
      BY <2>4, <3>2, <3>3
  <2>6. w \in Wid /\ u \in Seq(Wid)
    BY <2>2, <2>3, <2>4 DEF Chain
  <2>7. Chain(W!insert_front(d, w), t)
    BY <2>4, <2>5, <2>6, InsertChain
  <2>8. Len(t) = m /\ \A k \in 1 .. m : t[k] = IF k = 1 THEN w ELSE u[k - 1]
    BY <2>4, <2>6, PushedFacts
  <2> HIDE DEF t
  <2>9. ASSUME NEW k \in 1 .. m PROVE t[k] \in 1 .. m
    <3>1. CASE k = 1
      BY <2>8, <3>1
    <3>2. CASE k # 1
      <4>1. k - 1 \in 1 .. m - 1 /\ k - 1 \in 1 .. m /\ (k - 1) + 1 \in 1 .. m
        BY <3>2
      <4>2. t[k] = s[k - 1] \/ t[k] = s[(k - 1) + 1]
        BY <2>4, <2>8, <3>2, <4>1
      <4> QED
        BY <2>1, <4>1, <4>2
    <3> QED
      BY <3>1, <3>2
  <2>10. ASSUME NEW v \in 1 .. m PROVE \E k \in 1 .. m : t[k] = v
    <3>1. PICK i1 \in 1 .. m : s[i1] = v
      BY <2>1
    <3>2. CASE i1 = j
      <4>1. 1 \in 1 .. m /\ t[1] = v
        BY <3>1, <3>2, <2>2, <2>8
      <4> QED
        BY <4>1
    <3>3. CASE i1 < j
      <4>1. i1 \in 1 .. m - 1 /\ i1 + 1 \in 1 .. m /\ i1 + 1 # 1 /\ (i1 + 1) - 1 = i1
        BY <3>3
      <4>2. u[i1] = v
        BY <3>1, <3>3, <4>1, <2>4
      <4>3. t[i1 + 1] = u[i1]
        BY <4>1, <2>8
      <4> QED
        BY <4>1, <4>2, <4>3
    <3>4. CASE i1 > j
      <4>1. i1 - 1 \in 1 .. m - 1 /\ i1 # 1 /\ ~(i1 - 1 < j) /\ (i1 - 1) + 1 = i1
        BY <3>4
      <4>2. u[i1 - 1] = v
        BY <3>1, <4>1, <2>4
      <4>3. t[i1] = u[i1 - 1]
        BY <4>1, <2>8
      <4> QED
        BY <4>2, <4>3
    <3> QED
      BY <3>2, <3>3, <3>4
  <2>11. W!bring_to_front(l, w) = W!insert_front(d, w)
    BY <1>2 DEF W!bring_to_front, d
  <2>12. W!insert_front(d, w).head = w
    BY DEF W!insert_front
  <2>13. Order(W!insert_front(d, w), m)
    BY <2>7, <2>8, <2>9, <2>10, Zenon DEF Order
  <2> QED
    BY <2>11, <2>12, <2>13
<1> QED
  BY <1>1, <1>2

-----------------------------------------------------------------------------
(* Walking along next from the head meets the windows in their order.      *)

(* A set of naturals has a least element. *)
LEMMA LeastIn ==
  ASSUME NEW Z, Z \subseteq Nat, Z # {}
  PROVE  \E x \in Z : \A y \in Z : x <= y
<1> DEFINE R == {ss \in Nat \X Nat : ss[1] < ss[2]}
<1>1. IsWellFoundedOn(R, Nat)
  BY NatLessThanWellFounded DEF OpToRel
<1>2. \A y, x \in Nat : y < x => << y, x >> \in R
  OBVIOUS
<1> HIDE DEF R
<1>3. PICK x \in Z : \A y \in Z : ~(<< y, x >> \in R)
  BY <1>1, WFMin, Zenon
<1>4. ASSUME NEW y \in Z PROVE x <= y
  <2>1. x \in Nat /\ y \in Nat /\ ~(y < x)
    BY <1>2, <1>3
  <2> QED
    BY <2>1
<1> QED
  BY <1>4

LEMMA WalkIs ==
  ASSUME NEW l, NEW s, Chain(l, s), Len(s) <= MaxWindows
  PROVE  W!Walk(l) = [k \in 1 .. MaxWindows + 1 |-> IF k <= Len(s) THEN s[k] ELSE 0]
<1> DEFINE M == MaxWindows + 1
           z == [k \in 1 .. M |-> IF k <= Len(s) THEN s[k] ELSE 0]
           Follows(g) == g = [k \in 1 .. M |->
                                IF k = 1 THEN l.head
                                ELSE IF g[k - 1] = 0 THEN 0 ELSE l.next[g[k - 1]]]
           w == W!Walk(l)
<1>1. /\ Len(s) \in Nat /\ MaxWindows \in Nat /\ M \in Nat /\ Len(s) < M
      /\ \A k \in 1 .. Len(s) : s[k] \in Wid /\ s[k] # 0
  <2>1. \A k \in 1 .. Len(s) : s[k] \in Wid
    BY ChainFacts
  <2> QED
    BY <2>1, ChainFacts, WinFacts DEF Wid
<1>2. w = CHOOSE g : Follows(g)
  BY DEF W!Walk, W!NoWin
<1>3. \A k \in 1 .. M : z[k] = IF k <= Len(s) THEN s[k] ELSE 0
  OBVIOUS
<1>4. ASSUME NEW k \in 1 .. M
      PROVE  z[k] = IF k = 1 THEN l.head ELSE IF z[k - 1] = 0 THEN 0 ELSE l.next[z[k - 1]]
  <2>1. l.head = (IF Len(s) = 0 THEN 0 ELSE s[1])
    BY DEF Chain
  <2> HIDE DEF z, M
  <2>2. CASE k = 1
    BY <2>1, <2>2, <1>1, <1>3
  <2>3. CASE k # 1
    <3>1. k - 1 \in 1 .. M /\ k - 1 \in Nat
      BY <2>3, <1>1
    <3>2. CASE k - 1 <= Len(s)
      <4>1. k - 1 \in 1 .. Len(s) /\ z[k - 1] = s[k - 1] /\ z[k - 1] # 0
        BY <3>1, <3>2, <1>1, <1>3
      <4>2. l.next[s[k - 1]] = Behind(s, k - 1)
        BY <4>1 DEF Chain
      <4>3. Behind(s, k - 1) = z[k]
        <5>1. k - 1 = Len(s) => z[k] = 0
          BY <1>1, <1>3
        <5>2. k - 1 # Len(s) => z[k] = s[(k - 1) + 1]
          BY <4>1, <1>1, <1>3
        <5> QED
          BY <5>1, <5>2 DEF Behind
      <4> QED
        BY <2>3, <4>1, <4>2, <4>3
    <3>3. CASE ~(k - 1 <= Len(s))
      BY <2>3, <3>1, <3>3, <1>1, <1>3
    <3> QED
      BY <3>2, <3>3
  <2> QED
    BY <2>2, <2>3
<1>5. Follows(z)
  <2>1. [k \in 1 .. M |-> z[k]] =
        [k \in 1 .. M |-> IF k = 1 THEN l.head
                          ELSE IF z[k - 1] = 0 THEN 0 ELSE l.next[z[k - 1]]]
    <3> HIDE DEF z, M
    <3> QED
      BY <1>4, Zenon
  <2>2. z = [k \in 1 .. M |-> z[k]]
    OBVIOUS
  <2> HIDE DEF z, M
  <2> QED
    BY <2>1, <2>2, Zenon
<1>6. Follows(w)
  <2> HIDE DEF Follows, w, z
  <2> QED
    BY <1>2, <1>5
<1> HIDE DEF w, z, M
<1>7. ASSUME NEW k \in 1 .. M
      PROVE  w[k] = IF k = 1 THEN l.head ELSE IF w[k - 1] = 0 THEN 0 ELSE l.next[w[k - 1]]
  BY <1>6
<1> DEFINE Bad == {k \in 1 .. M : w[k] # z[k]}
<1>8. Bad = {}
  <2> SUFFICES ASSUME Bad # {} PROVE FALSE
    OBVIOUS
  <2>1. PICK m \in Bad : \A y \in Bad : m <= y
    <3>1. Bad \subseteq Nat
      BY <1>1
    <3> HIDE DEF Bad
    <3> QED
      BY <3>1, LeastIn
  <2>2. m \in 1 .. M /\ w[m] # z[m]
    OBVIOUS
  <2>3. m # 1
    BY <1>4, <1>7, <2>2
  <2>4. m - 1 \in 1 .. M /\ ~(m <= m - 1)
    BY <1>1, <2>2, <2>3
  <2>5. w[m - 1] = z[m - 1]
    BY <2>1, <2>4
  <2>6. w[m] = IF w[m - 1] = 0 THEN 0 ELSE l.next[w[m - 1]]
    BY <1>7, <2>2, <2>3
  <2>7. z[m] = IF z[m - 1] = 0 THEN 0 ELSE l.next[z[m - 1]]
    BY <1>4, <2>2, <2>3
  <2> QED
    BY <2>2, <2>5, <2>6, <2>7
<1>9. \A k \in 1 .. M : w[k] = z[k]
  BY <1>8
<1>10. w = [k \in 1 .. M |-> w[k]]
  BY <1>6
<1>11. z = [k \in 1 .. M |-> z[k]]
  BY DEF z
<1>12. w = z
  BY <1>9, <1>10, <1>11, Zenon
<1> QED
  BY <1>12 DEF w, z, M

LEMMA InOrderIs ==
  ASSUME NEW l, NEW s, Chain(l, s), Len(s) <= MaxWindows
  PROVE  W!InOrder(l) = s
<1> DEFINE M == MaxWindows + 1
           w == W!Walk(l)
           Ends(k) == (k = M \/ w[k + 1] = 0) /\ \A j \in 1 .. k : w[j] # 0
<1>1. /\ Len(s) \in Nat /\ MaxWindows \in Nat /\ Len(s) < M /\ M \in Nat /\ s \in Seq(Wid)
      /\ \A k \in 1 .. Len(s) : s[k] \in Wid /\ s[k] # 0
  <2>1. \A k \in 1 .. Len(s) : s[k] \in Wid
    BY ChainFacts
  <2> QED
    BY <2>1, ChainFacts, WinFacts DEF Wid
<1>2. w = [k \in 1 .. M |-> IF k <= Len(s) THEN s[k] ELSE 0]
  BY WalkIs
<1>3. W!InOrder(l) = SubSeq(w, 1, CHOOSE k \in 0 .. M : Ends(k))
  BY DEF W!InOrder, W!NoWin
<1> HIDE DEF w, M
<1>4. \A k \in 1 .. M : w[k] = IF k <= Len(s) THEN s[k] ELSE 0
  BY <1>2
<1>5. Ends(Len(s)) /\ Len(s) \in 0 .. M
  BY <1>1, <1>4
<1>6. ASSUME NEW k \in 0 .. M, Ends(k) PROVE k = Len(s)
  <2>1. ~(k < Len(s))
    <3> SUFFICES ASSUME k < Len(s) PROVE FALSE
      OBVIOUS
    <3>1. k + 1 \in 1 .. Len(s) /\ k + 1 \in 1 .. M /\ k # M
      BY <1>1
    <3>2. w[k + 1] = s[k + 1] /\ s[k + 1] # 0
      BY <1>1, <1>4, <3>1
    <3> QED
      BY <1>6, <3>1, <3>2
  <2>2. ~(k > Len(s))
    <3> SUFFICES ASSUME k > Len(s) PROVE FALSE
      OBVIOUS
    <3>1. Len(s) + 1 \in 1 .. k /\ Len(s) + 1 \in 1 .. M /\ ~(Len(s) + 1 <= Len(s))
      BY <1>1
    <3>2. w[Len(s) + 1] = 0
      BY <1>4, <3>1
    <3> QED
      BY <1>6, <3>1, <3>2
  <2> QED
    BY <1>1, <2>1, <2>2
<1>7. (CHOOSE k \in 0 .. M : Ends(k)) = Len(s)
  <2> HIDE DEF Ends
  <2> QED
    BY <1>5, <1>6
<1>8. SubSeq(w, 1, Len(s)) = s
  <2>1. /\ w = [k \in 1 .. M |-> w[k]]
        /\ \A k \in 1 .. M : w[k] \in 0 .. MaxWindows
    <3>1. \A k \in 1 .. Len(s) : s[k] \in 0 .. MaxWindows
      BY <1>1 DEF Wid
    <3> QED
      BY <1>1, <1>2, <3>1
  <2>2. w \in Seq(0 .. MaxWindows) /\ Len(w) = M
    BY <1>1, <2>1
  <2>3. /\ SubSeq(w, 1, Len(s)) \in Seq(0 .. MaxWindows)
        /\ Len(SubSeq(w, 1, Len(s))) = Len(s)
        /\ \A k \in 1 .. Len(s) : SubSeq(w, 1, Len(s))[k] = w[k]
    BY <1>1, <2>2
  <2>4. \A k \in 1 .. Len(s) : w[k] = s[k]
    BY <1>1, <1>4
  <2> QED
    BY <1>1, <2>3, <2>4
<1> QED
  BY <1>3, <1>7, <1>8

-----------------------------------------------------------------------------
(* The windows: the inductive invariant.                                   *)

Screen == (0 .. Width - 1) \X (0 .. Height - 1)
Geo == [x : Int, y : Int, w : Int, h : Int]

WinTypes ==
  /\ W!TypeOK
  /\ wm_drag \in [mode : {"NONE", "MOVE", "RESIZE"}, win : 0 .. MaxWindows,
                  at : Screen, from : Geo]
  /\ saved \in Geo /\ ptr \in Screen
  /\ owner \in 0 .. MaxWindows /\ before \in [Wid -> Geo]

(* The one static copy holds a place within reach, that of the window      *)
(* maximised last.                                                         *)
SavedGood ==
  /\ W!Grabbable(saved) \/ saved = W!Unset
  /\ owner # 0 => saved = before[owner]

(* While a window is moved its place follows the pointer, which is never   *)
(* on its maximise button.  While it is resized its left edge stays, and   *)
(* when it fills the screen the pointer is below the title bar; only a     *)
(* second button can maximise it meanwhile, and then no further press      *)
(* comes before the drag ends.                                             *)
MoveGood(f, a, g, q) ==
  /\ g.x = f.x + q[1] - a[1] /\ g.w = f.w
  /\ ~(f.x + f.w - 2 * BTN_W <= a[1] /\ a[1] < f.x + f.w - BTN_W)

ResizeGood(f, a, g, q, bs, mn) ==
  /\ f.y + f.h - BORDER_W <= a[2]
  /\ \/ g.x = f.x /\ (W!Geometry(g) = W!Full => TITLE_BAR_H <= q[2])
     \/ g.x = 0 /\ bs = {"LEFT", "RIGHT"} /\ ~mn

(* A drag d of the window g, with pointer q, buttons bs and menu mn. *)
DragOf(d, g, q, bs, mn) ==
  /\ ~mn => "LEFT" \in bs
  /\ W!Grabbable(g)
  /\ d.from.x <= d.at[1] /\ d.at[1] < d.from.x + d.from.w /\ 0 <= d.from.y
  /\ d.mode = "MOVE" => MoveGood(d.from, d.at, g, q)
  /\ d.mode = "RESIZE" => ResizeGood(d.from, d.at, g, q, bs, mn)

DragGood ==
  wm_drag.mode # "NONE" =>
    DragOf(wm_drag, wins[wm_drag.win], ptr, wm_buttons, wm_menu)

WinInv ==
  /\ WinTypes /\ Order(list, Len(wins)) /\ W!ActiveIsFront /\ SavedGood
  /\ W!TitleWithinReach /\ DragGood /\ 1 <= Len(wins)

-----------------------------------------------------------------------------
(* What the steps do to windows and list.                                  *)

GoodWins(ws, l) ==
  /\ ws \in Seq(W!Window) /\ Len(ws) <= MaxWindows /\ Order(l, Len(ws))
  /\ \A k \in 1 .. Len(ws) :
        ws[k].active => l.head = k /\ ws[k].state # "MINIMIZED"

SamePlace(a, b) == a.x = b.x /\ a.y = b.y /\ a.w = b.w /\ a.h = b.h

(* The windows that were there keep their places; new ones are in reach. *)
Grown(ws, vs) ==
  /\ Len(ws) <= Len(vs)
  /\ \A k \in 1 .. Len(ws) : SamePlace(vs[k], ws[k])
  /\ \A k \in Len(ws) + 1 .. Len(vs) : W!Grabbable(vs[k])

LEMMA WindowFields ==
  ASSUME NEW r \in W!Window
  PROVE  /\ r.app \in W!Apps /\ r.x \in Int /\ r.y \in Int /\ r.w \in Int /\ r.h \in Int
         /\ r.state \in {"NORMAL", "MINIMIZED", "HIDDEN"} /\ r.active \in BOOLEAN
BY DEF W!Window

LEMMA ActivateFacts ==
  ASSUME NEW ws \in Seq(W!Window), NEW k
  PROVE  /\ W!activate_only(ws, k) \in Seq(W!Window)
         /\ Len(W!activate_only(ws, k)) = Len(ws)
         /\ \A j \in 1 .. Len(ws) :
              /\ SamePlace(W!activate_only(ws, k)[j], ws[j])
              /\ W!activate_only(ws, k)[j].app = ws[j].app
              /\ W!activate_only(ws, k)[j].state = ws[j].state
              /\ W!activate_only(ws, k)[j].active = (j = k)
<1> DEFINE v == W!activate_only(ws, k)
<1>1. /\ DOMAIN ws = 1 .. Len(ws) /\ Len(ws) \in Nat
      /\ \A j \in 1 .. Len(ws) : ws[j] \in W!Window
  OBVIOUS
<1>2. v = [j \in 1 .. Len(ws) |-> [ws[j] EXCEPT !.active = (j = k)]]
  BY <1>1 DEF W!activate_only
<1>3. ASSUME NEW r \in W!Window, NEW b \in BOOLEAN
      PROVE  /\ [r EXCEPT !.active = b] \in W!Window
             /\ SamePlace([r EXCEPT !.active = b], r)
             /\ [r EXCEPT !.active = b].app = r.app
             /\ [r EXCEPT !.active = b].state = r.state
             /\ [r EXCEPT !.active = b].active = b
  BY DEF W!Window, SamePlace
<1> HIDE DEF v
<1>4. \A j \in 1 .. Len(ws) : v[j] = [ws[j] EXCEPT !.active = (j = k)]
  BY <1>2
<1>5. ASSUME NEW j \in 1 .. Len(ws)
      PROVE  /\ v[j] \in W!Window /\ SamePlace(v[j], ws[j]) /\ v[j].app = ws[j].app
             /\ v[j].state = ws[j].state /\ v[j].active = (j = k)
  <2>1. ws[j] \in W!Window /\ (j = k) \in BOOLEAN
    BY <1>1
  <2>2. /\ [ws[j] EXCEPT !.active = (j = k)] \in W!Window
        /\ SamePlace([ws[j] EXCEPT !.active = (j = k)], ws[j])
        /\ [ws[j] EXCEPT !.active = (j = k)].app = ws[j].app
        /\ [ws[j] EXCEPT !.active = (j = k)].state = ws[j].state
        /\ [ws[j] EXCEPT !.active = (j = k)].active = (j = k)
    BY <1>3, <2>1, Zenon
  <2> QED
    BY <1>4, <2>2, Zenon
<1>6. v \in Seq(W!Window) /\ Len(v) = Len(ws)
  <2>1. v = [j \in 1 .. Len(ws) |-> v[j]]
    BY <1>2, Zenon
  <2>2. v \in [1 .. Len(ws) -> W!Window]
    BY <1>5, <2>1
  <2> QED
    BY <1>1, <2>2
<1> QED
  BY <1>5, <1>6 DEF v

(* Raising window k, whatever becomes of it, gives it keys and the front. *)
LEMMA RaisedGood ==
  ASSUME NEW ws, NEW l, GoodWins(ws, l), NEW k \in 1 .. Len(ws),
         NEW vs \in Seq(W!Window), Len(vs) = Len(ws),
         \A j \in 1 .. Len(ws) : j # k => ~vs[j].active,
         vs[k].active => vs[k].state # "MINIMIZED"
  PROVE  GoodWins(vs, W!bring_to_front(l, k))
<1>1. Len(ws) \in Nat /\ Order(l, Len(ws)) /\ Len(ws) <= MaxWindows
  BY DEF GoodWins
<1>2. Order(W!bring_to_front(l, k), Len(ws)) /\ W!bring_to_front(l, k).head = k
  BY <1>1, FrontOrder
<1> QED
  BY <1>1, <1>2 DEF GoodWins

(* gui_create_window. *)
LEMMA CreatedGood ==
  ASSUME NEW ws, NEW l, GoodWins(ws, l), Len(ws) < MaxWindows, NEW a \in W!Apps,
         NEW x \in Nat, NEW y \in Nat, x < Width, y < W!Bottom
  PROVE  LET c == W!Created_(ws, l, a, x, y)
         IN  GoodWins(c.wins, c.list) /\ Grown(ws, c.wins) /\ Len(c.wins) = Len(ws) + 1
<1> DEFINE id == Len(ws) + 1
           r == [app |-> a, x |-> x, y |-> y, w |-> Created[a][1], h |-> Created[a][2],
                 state |-> "NORMAL", active |-> TRUE]
           us == Append(ws, r)
           vs == W!activate_only(us, id)
           k == W!insert_front(l, id)
<1>1. Len(ws) \in Nat /\ ws \in Seq(W!Window) /\ Order(l, Len(ws))
  BY DEF GoodWins
<1>2. r \in W!Window /\ W!Grabbable(r) /\ r.state = "NORMAL"
  <2>1. Created[a][1] \in Nat \ {0} /\ Created[a][2] \in Nat \ {0}
    BY WinFacts
  <2>2. r \in W!Window
    BY <2>1 DEF W!Window
  <2>3. W!Grabbable(r)
    BY <2>1, WinFacts DEF W!Grabbable
  <2> QED
    BY <2>2, <2>3
<1> HIDE DEF r
<1>3. /\ us \in Seq(W!Window) /\ Len(us) = id /\ us[id] = r
      /\ \A j \in 1 .. Len(ws) : us[j] = ws[j]
  BY <1>1, <1>2
<1> HIDE DEF us
<1>4. /\ vs \in Seq(W!Window) /\ Len(vs) = id
      /\ \A j \in 1 .. id : /\ SamePlace(vs[j], us[j]) /\ vs[j].state = us[j].state
                            /\ vs[j].active = (j = id)
  BY <1>3, ActivateFacts
<1>5. Order(k, id) /\ k.head = id
  BY <1>1, InsertOrder
<1>6. W!Created_(ws, l, a, x, y) = [wins |-> vs, list |-> k]
  BY DEF W!Created_, us, r
<1> HIDE DEF vs, k
<1>7. GoodWins(vs, k)
  <2>1. id <= MaxWindows /\ id \in 1 .. id
    BY <1>1, WinFacts
  <2>2. \A j \in 1 .. id : vs[j].active => k.head = j /\ vs[j].state # "MINIMIZED"
    BY <1>2, <1>3, <1>4, <1>5
  <2> QED
    BY <1>4, <1>5, <2>1, <2>2 DEF GoodWins
<1>8. Grown(ws, vs)
  <2>1. \A j \in 1 .. Len(ws) : SamePlace(vs[j], ws[j])
    BY <1>1, <1>3, <1>4
  <2>2. ASSUME NEW j \in Len(ws) + 1 .. Len(vs) PROVE W!Grabbable(vs[j])
    <3>1. j = id /\ id \in 1 .. id
      BY <1>1, <1>4
    <3>2. SamePlace(vs[id], r)
      BY <3>1, <1>3, <1>4
    <3> QED
      BY <3>1, <3>2, <1>2 DEF SamePlace, W!Grabbable
  <2> QED
    BY <1>1, <1>4, <2>1, <2>2 DEF Grown
<1> QED
  BY <1>4, <1>6, <1>7, <1>8

LEMMA GrownSelf ==
  ASSUME NEW ws, ws \in Seq(W!Window)
  PROVE  Grown(ws, ws)
BY DEF Grown, SamePlace

(* The open functions of the apps. *)
LEMMA OpenGood ==
  ASSUME NEW ws, NEW l, GoodWins(ws, l), NEW a \in W!Apps, W!app_open(a, ws, l),
         open \subseteq W!Single
  PROVE  GoodWins(wins', list') /\ Grown(ws, wins') /\ open' \subseteq W!Single
<1>1. CASE wins' = ws /\ list' = l /\ UNCHANGED open
  BY <1>1, GrownSelf DEF GoodWins
<1>2. CASE /\ Len(ws) < MaxWindows
           /\ LET c == W!Created_(ws, l, a, 1, 1) IN wins' = c.wins /\ list' = c.list
           /\ open' = IF a \in W!Single THEN open \cup {a} ELSE open
  <2> DEFINE c == W!Created_(ws, l, a, 1, 1)
  <2>1. 1 \in Nat /\ 1 < Width /\ 1 < W!Bottom
    BY WinFacts
  <2>2. GoodWins(c.wins, c.list) /\ Grown(ws, c.wins)
    BY <1>2, <2>1, CreatedGood
  <2>3. wins' = c.wins /\ list' = c.list
    BY <1>2
  <2> HIDE DEF c
  <2>4. open' \subseteq W!Single
    BY <1>2
  <2> QED
    BY <2>2, <2>3, <2>4
<1> QED
  BY <1>1, <1>2 DEF W!app_open

-----------------------------------------------------------------------------
(* The steps keep the invariant.                                           *)

LEMMA WinState ==
  ASSUME WinInv
  PROVE  /\ wins \in Seq(W!Window) /\ Len(wins) \in Nat /\ Len(wins) <= MaxWindows
         /\ DOMAIN wins = 1 .. Len(wins) /\ \A k \in 1 .. Len(wins) : wins[k] \in W!Window
         /\ GoodWins(wins, list) /\ open \subseteq W!Single
         /\ wm_menu \in BOOLEAN /\ icon \in BOOLEAN /\ wm_buttons \subseteq {"LEFT", "RIGHT"}
         /\ wm_drag.mode \in {"NONE", "MOVE", "RESIZE"} /\ wm_drag.win \in 0 .. Len(wins)
         /\ (wm_drag.mode = "NONE" <=> wm_drag.win = 0)
         /\ (wm_drag.mode # "NONE" => wm_drag.win \in 1 .. Len(wins))
         /\ wm_drag.at[1] \in Int /\ wm_drag.at[2] \in Int /\ wm_drag.from \in Geo
         /\ saved \in Geo /\ owner \in 0 .. MaxWindows /\ before \in [Wid -> Geo]
         /\ ptr[1] \in 0 .. Width - 1 /\ ptr[2] \in 0 .. Height - 1
<1>1. W!TypeOK
  BY DEF WinInv, WinTypes
<1>2. /\ wins \in Seq(W!Window) /\ Len(wins) <= MaxWindows /\ open \subseteq W!Single
      /\ wm_menu \in BOOLEAN /\ icon \in BOOLEAN /\ wm_buttons \subseteq {"LEFT", "RIGHT"}
      /\ wm_drag.mode \in {"NONE", "MOVE", "RESIZE"} /\ wm_drag.win \in 0 .. Len(wins)
      /\ (wm_drag.mode = "NONE" <=> wm_drag.win = 0)
  BY <1>1 DEF W!TypeOK, W!NoWin
<1>3. /\ Len(wins) \in Nat /\ DOMAIN wins = 1 .. Len(wins)
      /\ \A k \in 1 .. Len(wins) : wins[k] \in W!Window
  BY <1>2
<1>4. wm_drag.mode # "NONE" => wm_drag.win \in 1 .. Len(wins)
  BY <1>2, <1>3
<1>5. GoodWins(wins, list)
  BY <1>2, <1>3 DEF WinInv, GoodWins, W!ActiveIsFront
<1>6. /\ wm_drag.at \in Screen /\ wm_drag.from \in Geo /\ ptr \in Screen
      /\ saved \in Geo /\ owner \in 0 .. MaxWindows /\ before \in [Wid -> Geo]
  BY DEF WinInv, WinTypes
<1>7. /\ wm_drag.at[1] \in Int /\ wm_drag.at[2] \in Int
      /\ ptr[1] \in 0 .. Width - 1 /\ ptr[2] \in 0 .. Height - 1
  BY <1>6, WinFacts DEF Screen
<1> QED
  BY <1>2, <1>3, <1>4, <1>5, <1>6, <1>7

LEMMA GeoFields ==
  ASSUME NEW g \in Geo
  PROVE  g.x \in Int /\ g.y \in Int /\ g.w \in Int /\ g.h \in Int
BY DEF Geo

(* A press happens only while a button is free, and during a drag at the   *)
(* pointer's place.                                                        *)
LEMMA PressFacts ==
  ASSUME WinInv, NEW b \in {"LEFT", "RIGHT"}, NEW p \in Points, W!Pressed(b, p)
  PROVE  /\ wm_buttons # {"LEFT", "RIGHT"} /\ wm_buttons' = wm_buttons \cup {b}
         /\ wm_buttons' \subseteq {"LEFT", "RIGHT"} /\ ptr' = p /\ p \in Screen
         /\ p[1] \in 0 .. Width - 1 /\ p[2] \in 0 .. Height - 1
         /\ (wm_drag.mode # "NONE" => p = ptr)
         /\ ("LEFT" \in wm_buttons => wm_buttons' = {"LEFT", "RIGHT"})
         /\ (W!IsLeft(b) => "LEFT" \in wm_buttons')
<1>1. /\ b \notin wm_buttons /\ wm_buttons' = wm_buttons \cup {b} /\ ptr' = p
      /\ (wm_drag.mode # "NONE" => p = ptr)
  BY DEF W!Pressed
<1>2. wm_buttons \subseteq {"LEFT", "RIGHT"}
  BY WinState
<1>3. p[1] \in 0 .. Width - 1 /\ p[2] \in 0 .. Height - 1 /\ p \in Screen
  BY WinFacts DEF Screen
<1>4. wm_buttons # {"LEFT", "RIGHT"} /\ wm_buttons' \subseteq {"LEFT", "RIGHT"}
  BY <1>1, <1>2
<1>5. "LEFT" \in wm_buttons => wm_buttons' = {"LEFT", "RIGHT"}
  BY <1>1, <1>2
<1>6. W!IsLeft(b) => "LEFT" \in wm_buttons'
  BY <1>1 DEF W!IsLeft
<1> QED
  BY <1>1, <1>3, <1>4, <1>5, <1>6

(* A press that leaves the drag and its window alone. *)
LEMMA DragKept ==
  ASSUME WinInv, NEW b \in {"LEFT", "RIGHT"}, NEW p \in Points, W!Pressed(b, p),
         wm_drag' = wm_drag, wm_menu /\ ~wm_menu' => W!IsLeft(b),
         wm_drag.mode # "NONE" => SamePlace(wins'[wm_drag.win], wins[wm_drag.win])
  PROVE  DragGood'
<1> SUFFICES ASSUME wm_drag.mode # "NONE" PROVE DragGood'
  BY DEF DragGood
<1>1. /\ wm_buttons # {"LEFT", "RIGHT"} /\ wm_buttons' = wm_buttons \cup {b} /\ ptr' = ptr
      /\ (W!IsLeft(b) => "LEFT" \in wm_buttons')
  BY PressFacts
<1>2. PICK g, h : g = wins[wm_drag.win] /\ h = wins'[wm_drag.win] /\ SamePlace(h, g)
  OBVIOUS
<1>3. DragOf(wm_drag, g, ptr, wm_buttons, wm_menu)
  BY <1>2 DEF WinInv, DragGood
<1>4. ~wm_menu' => "LEFT" \in wm_buttons'
  BY <1>1, <1>3 DEF DragOf
<1>5. W!Grabbable(h)
  BY <1>2, <1>3 DEF DragOf, W!Grabbable, SamePlace
<1>6. wm_drag.mode = "MOVE" => MoveGood(wm_drag.from, wm_drag.at, h, ptr')
  BY <1>1, <1>2, <1>3 DEF MoveGood, SamePlace, DragOf
<1>7. W!Geometry(h) = W!Geometry(g)
  BY <1>2 DEF W!Geometry, SamePlace
<1>8. wm_drag.mode = "RESIZE" =>
        ResizeGood(wm_drag.from, wm_drag.at, h, ptr', wm_buttons', wm_menu')
  BY <1>1, <1>2, <1>3, <1>7 DEF ResizeGood, SamePlace, DragOf
<1>9. DragOf(wm_drag, h, ptr', wm_buttons', wm_menu')
  BY <1>3, <1>4, <1>5, <1>6, <1>8 DEF DragOf
<1> QED
  BY <1>2, <1>9 DEF DragGood

LEMMA SameReach ==
  ASSUME NEW g, NEW h, SamePlace(h, g)
  PROVE  /\ W!Grabbable(h) <=> W!Grabbable(g)
         /\ W!Geometry(h) = W!Geometry(g)
BY DEF SamePlace, W!Grabbable, W!Geometry

LEMMA GrownReach ==
  ASSUME WinInv, wins' \in Seq(W!Window), Grown(wins, wins')
  PROVE  W!TitleWithinReach'
<1> SUFFICES ASSUME NEW k \in 1 .. Len(wins')
             PROVE  W!Grabbable(wins'[k]) \/ W!Geometry(wins'[k]) = W!Unset
  <2>1. DOMAIN wins' = 1 .. Len(wins')
    OBVIOUS
  <2> QED
    BY <2>1 DEF W!TitleWithinReach, W!Geometry, W!Grabbable, W!Unset, W!Bottom
<1>1. Len(wins) \in Nat /\ Len(wins') \in Nat /\ DOMAIN wins = 1 .. Len(wins)
  BY WinState
<1>2. CASE k \in 1 .. Len(wins)
  <2>1. SamePlace(wins'[k], wins[k])
    BY <1>2 DEF Grown
  <2>2. W!Grabbable(wins[k]) \/ W!Geometry(wins[k]) = W!Unset
    BY <1>1, <1>2 DEF WinInv, W!TitleWithinReach
  <2> QED
    BY <2>1, <2>2, SameReach
<1>3. CASE k \notin 1 .. Len(wins)
  <2>1. k \in Len(wins) + 1 .. Len(wins')
    BY <1>1, <1>3
  <2> QED
    BY <2>1 DEF Grown
<1> QED
  BY <1>2, <1>3

(* The parts of the invariant that a step shows one by one. *)
LEMMA WinParts ==
  ASSUME WinInv, Len(wins) <= Len(wins'), GoodWins(wins', list'), open' \subseteq W!Single, wm_menu' \in BOOLEAN,
         icon' \in BOOLEAN, wm_buttons' \subseteq {"LEFT", "RIGHT"},
         wm_drag' \in [mode : {"NONE", "MOVE", "RESIZE"}, win : 0 .. MaxWindows,
                       at : Screen, from : Geo],
         wm_drag'.win \in 0 .. Len(wins'), wm_drag'.mode = "NONE" <=> wm_drag'.win = 0,
         saved' \in Geo, ptr' \in Screen, owner' \in 0 .. MaxWindows,
         before' \in [Wid -> Geo], SavedGood', W!TitleWithinReach', DragGood'
  PROVE  WinInv'
<1>1. /\ wins' \in Seq(W!Window) /\ Len(wins') <= MaxWindows /\ Order(list', Len(wins'))
      /\ \A k \in 1 .. Len(wins') :
            wins'[k].active => list'.head = k /\ wins'[k].state # "MINIMIZED"
  BY DEF GoodWins
<1>2. list'.head \in 0 .. MaxWindows /\ list'.tail \in 0 .. MaxWindows
  <2>1. list' \in WinList
    BY <1>1, ChainFacts DEF Order
  <2> QED
    BY <2>1 DEF WinList
<1>3. W!TypeOK'
  <2>1. (wm_drag'.mode = "NONE") = (wm_drag'.win = 0)
    OBVIOUS
  <2>2. wm_drag'.mode \in {"NONE", "MOVE", "RESIZE"}
    OBVIOUS
  <2> QED
    BY <1>1, <1>2, <2>1, <2>2 DEF W!TypeOK, W!NoWin, W!Window, W!Apps, W!Single
<1>4. W!ActiveIsFront'
  <2>1. DOMAIN wins' = 1 .. Len(wins')
    BY <1>1
  <2> QED
    BY <1>1, <2>1 DEF W!ActiveIsFront
<1>5. WinTypes'
  BY <1>3 DEF WinTypes, Screen, Geo, Wid
<1>6. Order(list, Len(wins))'
  BY <1>1 DEF Order, Chain, WinList, Wid, Behind, Before
<1>7. 1 <= Len(wins')
  <2>1. 1 <= Len(wins) /\ Len(wins) \in Nat /\ Len(wins') \in Nat
    BY <1>1, WinState DEF WinInv
  <2> QED
    BY <2>1
<1> QED
  BY <1>4, <1>5, <1>6, <1>7 DEF WinInv

(* What RestoreGivesBack says of a step. *)
RestoreStep ==
  \A k \in DOMAIN wins :
    W!Geometry(wins[k]) = W!Full /\ W!Geometry(wins'[k]) # W!Full /\ wm_drag.win # k
      => owner # k \/ W!Geometry(wins'[k]) = before[k]

LEMMA GrownRestore ==
  ASSUME WinInv, Grown(wins, wins')
  PROVE  RestoreStep
<1> SUFFICES ASSUME NEW k \in DOMAIN wins PROVE W!Geometry(wins'[k]) = W!Geometry(wins[k])
  BY DEF RestoreStep
<1>1. k \in 1 .. Len(wins)
  BY WinState
<1> QED
  BY <1>1, SameReach DEF Grown

LEMMA DragTyped ==
  ASSUME WinInv
  PROVE  /\ wm_drag \in [mode : {"NONE", "MOVE", "RESIZE"}, win : 0 .. MaxWindows,
                         at : Screen, from : Geo]
         /\ SavedGood
BY DEF WinInv, WinTypes

(* A press that opens, raises, closes or minimises at most, and leaves     *)
(* every window in its place.                                              *)
LEMMA QuietPress ==
  ASSUME WinInv, NEW b \in {"LEFT", "RIGHT"}, NEW p \in Points, W!Pressed(b, p),
         GoodWins(wins', list'), Grown(wins, wins'), open' \subseteq W!Single,
         wm_menu' \in BOOLEAN, icon' \in BOOLEAN, wm_menu /\ ~wm_menu' => W!IsLeft(b),
         UNCHANGED << wm_drag, saved, owner, before >>
  PROVE  WinInv' /\ RestoreStep
<1>1. /\ wm_buttons' \subseteq {"LEFT", "RIGHT"} /\ ptr' \in Screen
  BY PressFacts
<1>2. /\ Len(wins) \in Nat /\ wm_drag.win \in 0 .. Len(wins)
      /\ (wm_drag.mode = "NONE" <=> wm_drag.win = 0)
      /\ (wm_drag.mode # "NONE" => wm_drag.win \in 1 .. Len(wins))
      /\ saved \in Geo /\ owner \in 0 .. MaxWindows /\ before \in [Wid -> Geo]
  BY WinState
<1>3. wins' \in Seq(W!Window) /\ Len(wins') \in Nat /\ Len(wins) <= Len(wins')
  BY DEF GoodWins, Grown
<1>4. DragGood'
  <2>1. wm_drag.mode # "NONE" => SamePlace(wins'[wm_drag.win], wins[wm_drag.win])
    BY <1>2 DEF Grown
  <2> QED
    BY <2>1, DragKept
<1>5. W!TitleWithinReach'
  BY <1>3, GrownReach
<1>6. SavedGood'
  BY DragTyped DEF SavedGood, W!Grabbable, W!Unset, W!Bottom
<1>7. wm_drag'.win \in 0 .. Len(wins')
  BY <1>2, <1>3
<1>8. WinInv'
  BY <1>1, <1>2, <1>3, <1>4, <1>5, <1>6, <1>7, DragTyped, WinParts
<1> QED
  BY <1>8, GrownRestore

(* A window is raised and every window keeps its place. *)
LEMMA RaiseKeeps ==
  ASSUME WinInv, NEW hit \in 1 .. Len(wins), NEW vs \in Seq(W!Window), Len(vs) = Len(wins),
         \A j \in 1 .. Len(wins) : SamePlace(vs[j], wins[j]) /\ (j # hit => ~vs[j].active),
         vs[hit].active => vs[hit].state # "MINIMIZED"
  PROVE  GoodWins(vs, W!bring_to_front(list, hit)) /\ Grown(wins, vs)
<1>1. GoodWins(wins, list) /\ Len(wins) \in Nat
  BY WinState
<1>2. GoodWins(vs, W!bring_to_front(list, hit))
  BY <1>1, RaisedGood
<1> QED
  BY <1>1, <1>2 DEF Grown

(* One window of a sequence gets another record. *)
LEMMA PutFacts ==
  ASSUME NEW ws \in Seq(W!Window), NEW k \in 1 .. Len(ws), NEW r \in W!Window
  PROVE  /\ [ws EXCEPT ![k] = r] \in Seq(W!Window) /\ Len([ws EXCEPT ![k] = r]) = Len(ws)
         /\ [ws EXCEPT ![k] = r][k] = r
         /\ \A j \in 1 .. Len(ws) : j # k => [ws EXCEPT ![k] = r][j] = ws[j]
OBVIOUS

(* What a press on a part of a window needs. *)
LEMMA HitFacts ==
  ASSUME WinInv, NEW b \in {"LEFT", "RIGHT"}, NEW p \in Points, NEW hit \in DOMAIN wins,
         NEW part0, W!PressPart(b, p, part0, hit)
  PROVE  /\ W!Pressed(b, p) /\ ~wm_menu /\ W!IsLeft(b) /\ p[2] < W!Bottom
         /\ hit \in 1 .. Len(wins) /\ wins[hit] \in W!Window /\ wins[hit].state = "NORMAL"
         /\ wins[hit].x <= p[1] /\ p[1] < wins[hit].x + wins[hit].w
         /\ wins[hit].y <= p[2] /\ p[2] < wins[hit].y + wins[hit].h
         /\ W!part_at(wins[hit], p) = part0 /\ wm_menu' = wm_menu /\ icon' = icon
<1>1. /\ W!LeftPress(b, p) /\ p[2] < W!Bottom /\ W!Hits(hit, p)
      /\ W!part_at(wins[hit], p) = part0 /\ wm_menu' = wm_menu /\ icon' = icon
  BY DEF W!PressPart
<1>2. W!Pressed(b, p) /\ ~wm_menu /\ W!IsLeft(b)
  BY <1>1 DEF W!LeftPress
<1>3. hit \in 1 .. Len(wins) /\ wins[hit] \in W!Window
  BY WinState
<1>4. /\ wins[hit].x \in Int /\ wins[hit].y \in Int /\ wins[hit].w \in Int /\ wins[hit].h \in Int
      /\ p[1] \in Int /\ p[2] \in Int
  BY <1>3, WindowFields, WinFacts
<1>5. W!visible(wins[hit]) /\ W!contains_point(wins[hit], p)
  BY <1>1 DEF W!Hits, W!At
<1>6. /\ wins[hit].state = "NORMAL"
      /\ p[1] \in wins[hit].x .. wins[hit].x + wins[hit].w - 1
      /\ p[2] \in wins[hit].y .. wins[hit].y + wins[hit].h - 1
  BY <1>5 DEF W!visible, W!contains_point
<1>7. /\ wins[hit].x <= p[1] /\ p[1] < wins[hit].x + wins[hit].w
      /\ wins[hit].y <= p[2] /\ p[2] < wins[hit].y + wins[hit].h
  BY <1>4, <1>6
<1> QED
  BY <1>1, <1>2, <1>3, <1>6, <1>7

LEMMA RaisedFacts ==
  ASSUME WinInv, NEW hit \in 1 .. Len(wins)
  PROVE  /\ W!Raised(hit) \in Seq(W!Window) /\ Len(W!Raised(hit)) = Len(wins)
         /\ \A j \in 1 .. Len(wins) :
              /\ SamePlace(W!Raised(hit)[j], wins[j])
              /\ W!Raised(hit)[j].app = wins[j].app
              /\ W!Raised(hit)[j].state = wins[j].state
              /\ W!Raised(hit)[j].active = (j = hit)
BY WinState, ActivateFacts DEF W!Raised

(* The raised window replaced by one in the same place. *)
LEMMA RaisedPut ==
  ASSUME WinInv, NEW hit \in 1 .. Len(wins), NEW r \in W!Window,
         SamePlace(r, wins[hit]), r.active => r.state # "MINIMIZED"
  PROVE  /\ GoodWins([W!Raised(hit) EXCEPT ![hit] = r], W!bring_to_front(list, hit))
         /\ Grown(wins, [W!Raised(hit) EXCEPT ![hit] = r])
<1> DEFINE us == W!Raised(hit)
           vs == [us EXCEPT ![hit] = r]
<1>1. /\ us \in Seq(W!Window) /\ Len(us) = Len(wins)
      /\ \A j \in 1 .. Len(wins) : SamePlace(us[j], wins[j]) /\ us[j].active = (j = hit)
  BY RaisedFacts
<1> HIDE DEF us
<1>2. /\ vs \in Seq(W!Window) /\ Len(vs) = Len(wins) /\ vs[hit] = r
      /\ \A j \in 1 .. Len(wins) : j # hit => vs[j] = us[j]
  BY <1>1, PutFacts
<1> HIDE DEF vs
<1>3. \A j \in 1 .. Len(wins) : SamePlace(vs[j], wins[j]) /\ (j # hit => ~vs[j].active)
  BY <1>1, <1>2
<1>4. GoodWins(vs, W!bring_to_front(list, hit)) /\ Grown(wins, vs)
  BY <1>2, <1>3, RaiseKeeps
<1> QED
  BY <1>4 DEF us, vs

LEMMA PressMenu ==
  ASSUME WinInv, NEW b \in {"LEFT", "RIGHT"}, NEW p \in Points, W!press_in_menu(b, p)
  PROVE  WinInv' /\ RestoreStep
<1>1. /\ W!Pressed(b, p) /\ UNCHANGED << icon, wm_drag, saved, owner, before >>
  BY DEF W!press_in_menu
<1>2. GoodWins(wins, list) /\ open \subseteq W!Single /\ Grown(wins, wins) /\ icon \in BOOLEAN
      /\ wm_menu \in BOOLEAN
  BY WinState, GrownSelf
<1>3. wm_menu' \in BOOLEAN /\ (wm_menu /\ ~wm_menu' => W!IsLeft(b))
  BY <1>2 DEF W!press_in_menu
<1>4. W!Nothing \/ \E a \in W!Apps : W!app_open(a, wins, list)
  BY DEF W!press_in_menu
<1>5. GoodWins(wins', list') /\ Grown(wins, wins') /\ open' \subseteq W!Single
  <2>1. CASE W!Nothing
    BY <1>2, <2>1 DEF W!Nothing
  <2>2. CASE \E a \in W!Apps : W!app_open(a, wins, list)
    BY <1>2, <2>2, OpenGood
  <2> QED
    BY <1>4, <2>1, <2>2
<1> QED
  BY <1>1, <1>2, <1>3, <1>5, QuietPress

LEMMA PressIgnored ==
  ASSUME WinInv, NEW b \in {"LEFT", "RIGHT"}, NEW p \in Points, W!press_ignored(b, p)
  PROVE  WinInv' /\ RestoreStep
<1>1. /\ W!Pressed(b, p) /\ UNCHANGED << wins, list, open, wm_menu, icon, wm_drag, saved, owner, before >>
  BY DEF W!press_ignored, W!Nothing
<1>2. GoodWins(wins, list) /\ open \subseteq W!Single /\ Grown(wins, wins) /\ icon \in BOOLEAN
      /\ wm_menu \in BOOLEAN
  BY WinState, GrownSelf
<1>3. GoodWins(wins', list') /\ Grown(wins, wins') /\ open' \subseteq W!Single
  BY <1>1, <1>2
<1> QED
  BY <1>1, <1>2, <1>3, QuietPress

LEMMA PressTaskbar ==
  ASSUME WinInv, NEW b \in {"LEFT", "RIGHT"}, NEW p \in Points, W!press_taskbar(b, p)
  PROVE  WinInv' /\ RestoreStep
<1>1. /\ W!Pressed(b, p) /\ ~wm_menu /\ UNCHANGED << open, icon, wm_drag, saved, owner, before >>
  BY DEF W!press_taskbar, W!LeftPress
<1>2. GoodWins(wins, list) /\ open \subseteq W!Single /\ Grown(wins, wins) /\ icon \in BOOLEAN
      /\ wm_menu \in BOOLEAN /\ wins \in Seq(W!Window)
  BY WinState, GrownSelf
<1>3. wm_menu' \in BOOLEAN
  BY <1>2 DEF W!press_taskbar
<1>4. GoodWins(wins', list') /\ Grown(wins, wins')
  <2>1. CASE UNCHANGED << wins, list >>
    BY <1>2, <2>1
  <2>2. CASE \E k \in DOMAIN wins :
               /\ wins[k].state # "HIDDEN"
               /\ wins' = W!activate_only([wins EXCEPT ![k] = W!from_taskbar(@)], k)
               /\ list' = W!bring_to_front(list, k)
    <3>1. PICK k \in DOMAIN wins :
               /\ wins[k].state # "HIDDEN"
               /\ wins' = W!activate_only([wins EXCEPT ![k] = W!from_taskbar(@)], k)
               /\ list' = W!bring_to_front(list, k)
      BY <2>2
    <3> DEFINE r == W!from_taskbar(wins[k])
               us == [wins EXCEPT ![k] = r]
    <3>2. k \in 1 .. Len(wins) /\ wins[k] \in W!Window
      BY WinState
    <3>3. r \in W!Window /\ SamePlace(r, wins[k]) /\ r.state # "MINIMIZED"
      BY <3>2 DEF W!Window, W!from_taskbar, SamePlace
    <3>4. us = [wins EXCEPT ![k] = W!from_taskbar(@)]
      OBVIOUS
    <3> HIDE DEF r
    <3>5. /\ us \in Seq(W!Window) /\ Len(us) = Len(wins) /\ us[k] = r
          /\ \A j \in 1 .. Len(wins) : j # k => us[j] = wins[j]
      BY <1>2, <3>2, <3>3, PutFacts
    <3> HIDE DEF us
    <3>6. wins' = W!activate_only(us, k)
      BY <3>1, <3>4
    <3>7. /\ wins' \in Seq(W!Window) /\ Len(wins') = Len(wins)
          /\ \A j \in 1 .. Len(wins) : /\ SamePlace(wins'[j], us[j])
                                       /\ wins'[j].state = us[j].state
                                       /\ wins'[j].active = (j = k)
      BY <3>5, <3>6, ActivateFacts
    <3>8. ASSUME NEW j \in 1 .. Len(wins)
          PROVE  SamePlace(wins'[j], wins[j]) /\ (j # k => ~wins'[j].active)
      BY <3>3, <3>5, <3>7 DEF SamePlace
    <3>9. wins'[k].state # "MINIMIZED"
      BY <3>2, <3>3, <3>5, <3>7
    <3> QED
      BY <3>1, <3>2, <3>7, <3>8, <3>9, RaiseKeeps
  <2> QED
    BY <2>1, <2>2 DEF W!press_taskbar
<1> QED
  BY <1>1, <1>2, <1>3, <1>4, QuietPress

LEMMA PressClose ==
  ASSUME WinInv, NEW b \in {"LEFT", "RIGHT"}, NEW p \in Points, NEW hit \in DOMAIN wins,
         W!press_close(b, p, hit)
  PROVE  WinInv' /\ RestoreStep
<1>1. /\ W!PressPart(b, p, "close", hit)
      /\ wins' = [W!Raised(hit) EXCEPT ![hit].state = "HIDDEN"]
      /\ list' = W!bring_to_front(list, hit)
      /\ UNCHANGED << open, wm_drag, saved, owner, before >>
  BY DEF W!press_close, W!InFront
<1>2. /\ W!Pressed(b, p) /\ ~wm_menu /\ hit \in 1 .. Len(wins)
      /\ wm_menu' = wm_menu /\ icon' = icon
  BY <1>1, HitFacts
<1>3. /\ open \subseteq W!Single /\ icon \in BOOLEAN /\ wm_menu \in BOOLEAN
  BY WinState
<1>4. /\ W!Raised(hit) \in Seq(W!Window) /\ Len(W!Raised(hit)) = Len(wins)
      /\ SamePlace(W!Raised(hit)[hit], wins[hit])
  BY <1>2, RaisedFacts
<1>5. PICK r : r = [W!Raised(hit)[hit] EXCEPT !.state = "HIDDEN"]
  OBVIOUS
<1>6. W!Raised(hit)[hit] \in W!Window
  BY <1>2, <1>4
<1>7. r \in W!Window /\ SamePlace(r, wins[hit]) /\ r.state # "MINIMIZED"
  BY <1>4, <1>5, <1>6 DEF W!Window, SamePlace
<1>8. wins' = [W!Raised(hit) EXCEPT ![hit] = r]
  BY <1>1, <1>5
<1>9. GoodWins(wins', list') /\ Grown(wins, wins')
  BY <1>1, <1>2, <1>7, <1>8, RaisedPut
<1> QED
  BY <1>1, <1>2, <1>3, <1>9, QuietPress

LEMMA PressMinimise ==
  ASSUME WinInv, NEW b \in {"LEFT", "RIGHT"}, NEW p \in Points, NEW hit \in DOMAIN wins,
         W!press_minimise(b, p, hit)
  PROVE  WinInv' /\ RestoreStep
<1>1. /\ W!PressPart(b, p, "minimise", hit)
      /\ wins' = [W!Raised(hit) EXCEPT ![hit] = W!minimised(@)]
      /\ list' = W!bring_to_front(list, hit)
      /\ UNCHANGED << open, wm_drag, saved, owner, before >>
  BY DEF W!press_minimise, W!InFront
<1>2. /\ W!Pressed(b, p) /\ ~wm_menu /\ hit \in 1 .. Len(wins)
      /\ wm_menu' = wm_menu /\ icon' = icon
  BY <1>1, HitFacts
<1>3. /\ open \subseteq W!Single /\ icon \in BOOLEAN /\ wm_menu \in BOOLEAN
  BY WinState
<1>4. /\ W!Raised(hit) \in Seq(W!Window) /\ Len(W!Raised(hit)) = Len(wins)
      /\ SamePlace(W!Raised(hit)[hit], wins[hit])
  BY <1>2, RaisedFacts
<1>5. PICK r : r = W!minimised(W!Raised(hit)[hit])
  OBVIOUS
<1>6. W!Raised(hit)[hit] \in W!Window
  BY <1>2, <1>4
<1>7. r \in W!Window /\ SamePlace(r, wins[hit]) /\ r.active = FALSE
  BY <1>4, <1>5, <1>6 DEF W!Window, SamePlace, W!minimised
<1>8. wins' = [W!Raised(hit) EXCEPT ![hit] = r]
  BY <1>1, <1>5
<1>9. GoodWins(wins', list') /\ Grown(wins, wins')
  BY <1>1, <1>2, <1>7, <1>8, RaisedPut
<1> QED
  BY <1>1, <1>2, <1>3, <1>9, QuietPress

LEMMA RaisedKeeps ==
  ASSUME WinInv, NEW hit \in 1 .. Len(wins), wins[hit].state = "NORMAL"
  PROVE  /\ GoodWins(W!Raised(hit), W!bring_to_front(list, hit))
         /\ Grown(wins, W!Raised(hit))
<1>1. /\ W!Raised(hit) \in Seq(W!Window) /\ Len(W!Raised(hit)) = Len(wins)
      /\ W!Raised(hit)[hit].state = wins[hit].state
      /\ \A j \in 1 .. Len(wins) :
           SamePlace(W!Raised(hit)[j], wins[j]) /\ W!Raised(hit)[j].active = (j = hit)
  BY RaisedFacts
<1>2. \A j \in 1 .. Len(wins) : SamePlace(W!Raised(hit)[j], wins[j])
                                /\ (j # hit => ~W!Raised(hit)[j].active)
  BY <1>1
<1>3. W!Raised(hit)[hit].state # "MINIMIZED"
  BY <1>1
<1> QED
  BY <1>1, <1>2, <1>3, RaiseKeeps

LEMMA GrownTwice ==
  ASSUME NEW us \in Seq(W!Window), NEW vs \in Seq(W!Window), NEW ws \in Seq(W!Window),
         Grown(us, vs), Grown(vs, ws), Len(us) = Len(vs)
  PROVE  Grown(us, ws)
<1>1. Len(us) <= Len(ws)
  BY DEF Grown
<1>2. ASSUME NEW k \in 1 .. Len(us) PROVE SamePlace(ws[k], us[k])
  BY DEF Grown, SamePlace
<1>3. ASSUME NEW k \in Len(us) + 1 .. Len(ws) PROVE W!Grabbable(ws[k])
  BY DEF Grown
<1> QED
  BY <1>1, <1>2, <1>3 DEF Grown

LEMMA PressBody ==
  ASSUME WinInv, NEW b \in {"LEFT", "RIGHT"}, NEW p \in Points, NEW hit \in DOMAIN wins,
         W!press_body(b, p, hit)
  PROVE  WinInv' /\ RestoreStep
<1>1. W!PressPart(b, p, "body", hit) /\ UNCHANGED << wm_drag, saved, owner, before >>
  BY DEF W!press_body
<1>2. /\ W!Pressed(b, p) /\ ~wm_menu /\ hit \in 1 .. Len(wins) /\ wins[hit].state = "NORMAL"
      /\ wm_menu' = wm_menu /\ icon' = icon
  BY <1>1, HitFacts
<1>3. /\ open \subseteq W!Single /\ icon \in BOOLEAN /\ wm_menu \in BOOLEAN
      /\ wins \in Seq(W!Window)
  BY WinState
<1>4. /\ GoodWins(W!Raised(hit), W!bring_to_front(list, hit)) /\ Grown(wins, W!Raised(hit))
      /\ W!Raised(hit) \in Seq(W!Window) /\ Len(W!Raised(hit)) = Len(wins)
  BY <1>2, RaisedKeeps, RaisedFacts
<1>5. GoodWins(wins', list') /\ Grown(wins, wins') /\ open' \subseteq W!Single
  <2>1. CASE wins' = W!Raised(hit) /\ W!InFront(hit) /\ UNCHANGED open
    BY <1>3, <1>4, <2>1 DEF W!InFront
  <2>2. CASE W!app_open("Notepad", W!Raised(hit), W!bring_to_front(list, hit))
    <3>1. "Notepad" \in W!Apps
      BY DEF W!Apps
    <3>2. /\ GoodWins(wins', list') /\ Grown(W!Raised(hit), wins')
          /\ open' \subseteq W!Single
      BY <1>3, <1>4, <2>2, <3>1, OpenGood
    <3>3. wins' \in Seq(W!Window)
      BY <3>2 DEF GoodWins
    <3> QED
      BY <1>3, <1>4, <3>2, <3>3, GrownTwice
  <2> QED
    BY <2>1, <2>2 DEF W!press_body
<1> QED
  BY <1>1, <1>2, <1>3, <1>5, QuietPress

LEMMA PressDesktop ==
  ASSUME WinInv, NEW b \in {"LEFT", "RIGHT"}, NEW p \in Points, W!press_desktop(b, p)
  PROVE  WinInv' /\ RestoreStep
<1>1. /\ W!Pressed(b, p) /\ ~wm_menu /\ UNCHANGED << wm_menu, wm_drag, saved, owner, before >>
  BY DEF W!press_desktop, W!LeftPress
<1>2. GoodWins(wins, list) /\ open \subseteq W!Single /\ Grown(wins, wins) /\ icon \in BOOLEAN
      /\ wm_menu \in BOOLEAN
  BY WinState, GrownSelf
<1>3. icon' \in BOOLEAN
  BY <1>2 DEF W!press_desktop
<1>4. W!Nothing \/ \E a \in W!Apps : W!app_open(a, wins, list)
  BY DEF W!press_desktop
<1>5. GoodWins(wins', list') /\ Grown(wins, wins') /\ open' \subseteq W!Single
  <2>1. CASE W!Nothing
    BY <1>2, <2>1 DEF W!Nothing
  <2>2. CASE \E a \in W!Apps : W!app_open(a, wins, list)
    BY <1>2, <2>2, OpenGood
  <2> QED
    BY <1>4, <2>1, <2>2
<1> QED
  BY <1>1, <1>2, <1>3, <1>5, QuietPress

(* A window under the pointer has its title within reach. *)
LEMMA HitGrabbable ==
  ASSUME WinInv, NEW hit \in 1 .. Len(wins), NEW q \in Int, wins[hit].x <= q,
         q < wins[hit].x + wins[hit].w
  PROVE  W!Grabbable(wins[hit])
<1>1. wins[hit] \in W!Window /\ hit \in DOMAIN wins
  BY WinState
<1>2. wins[hit].x \in Int /\ wins[hit].w \in Int
  BY <1>1, WindowFields
<1>3. W!Grabbable(wins[hit]) \/ W!Geometry(wins[hit]) = W!Unset
  BY <1>1 DEF WinInv, W!TitleWithinReach
<1>4. wins[hit].w # 0
  BY <1>2
<1> QED
  BY <1>3, <1>4 DEF W!Geometry, W!Unset

(* The raised window is given the place g. *)
LEMMA RaisedPlaced ==
  ASSUME WinInv, NEW hit \in 1 .. Len(wins), wins[hit].state = "NORMAL", NEW g \in Geo,
         NEW vs, vs = [W!Raised(hit) EXCEPT ![hit] = W!Placed(@, g)]
  PROVE  /\ GoodWins(vs, W!bring_to_front(list, hit)) /\ vs \in Seq(W!Window)
         /\ Len(vs) = Len(wins) /\ SamePlace(vs[hit], g)
         /\ \A j \in 1 .. Len(wins) : j # hit => SamePlace(vs[j], wins[j])
<1> DEFINE us == W!Raised(hit)
<1>1. /\ us \in Seq(W!Window) /\ Len(us) = Len(wins) /\ us[hit].state = "NORMAL"
      /\ \A j \in 1 .. Len(wins) : SamePlace(us[j], wins[j]) /\ us[j].active = (j = hit)
  BY RaisedFacts
<1>2. us[hit] \in W!Window
  BY <1>1
<1>3. PICK r : r = W!Placed(us[hit], g)
  OBVIOUS
<1>4. r \in W!Window /\ SamePlace(r, g) /\ r.state = "NORMAL"
  BY <1>1, <1>2, <1>3 DEF W!Window, Geo, W!Placed, SamePlace
<1>5. vs = [us EXCEPT ![hit] = r]
  BY <1>3
<1> HIDE DEF us
<1>6. /\ vs \in Seq(W!Window) /\ Len(vs) = Len(wins) /\ vs[hit] = r
      /\ \A j \in 1 .. Len(wins) : j # hit => vs[j] = us[j]
  <2>1. /\ [us EXCEPT ![hit] = r] \in Seq(W!Window)
        /\ Len([us EXCEPT ![hit] = r]) = Len(us) /\ [us EXCEPT ![hit] = r][hit] = r
        /\ \A j \in 1 .. Len(us) : j # hit => [us EXCEPT ![hit] = r][j] = us[j]
    BY <1>1, <1>4, PutFacts
  <2> QED
    BY <1>1, <1>5, <2>1, Zenon
<1>7. \A j \in 1 .. Len(wins) : j # hit => ~vs[j].active
  BY <1>1, <1>6
<1>8. \A j \in 1 .. Len(wins) : j # hit => SamePlace(vs[j], wins[j])
  BY <1>1, <1>6
<1>9. GoodWins(wins, list)
  BY WinState
<1>10. vs[hit].state # "MINIMIZED"
  BY <1>4, <1>6
<1>11. GoodWins(vs, W!bring_to_front(list, hit))
  BY <1>6, <1>7, <1>9, <1>10, RaisedGood
<1> QED
  BY <1>4, <1>6, <1>8, <1>11

(* The maximise button of a window. *)
LEMMA ButtonFacts ==
  ASSUME WinInv, NEW b \in {"LEFT", "RIGHT"}, NEW p \in Points, NEW hit \in DOMAIN wins,
         W!PressPart(b, p, "maximise", hit)
  PROVE  /\ wins[hit].x + wins[hit].w - 2 * BTN_W <= p[1]
         /\ p[1] < wins[hit].x + wins[hit].w - BTN_W
         /\ p[2] < wins[hit].y + TITLE_BAR_H
<1>1. W!part_at(wins[hit], p) = "maximise" /\ wins[hit] \in W!Window
  BY HitFacts
<1>2. W!contains_point(W!btn(wins[hit], 1), p)
  BY <1>1 DEF W!part_at
<1>3. /\ p[1] \in wins[hit].x + wins[hit].w - (1 + 1) * BTN_W ..
                  wins[hit].x + wins[hit].w - (1 + 1) * BTN_W + BTN_W - 1
      /\ p[2] \in wins[hit].y .. wins[hit].y + TITLE_BAR_H - 1
  BY <1>2 DEF W!contains_point, W!btn
<1>4. /\ wins[hit].x \in Int /\ wins[hit].w \in Int /\ wins[hit].y \in Int
      /\ BTN_W \in Nat /\ TITLE_BAR_H \in Nat /\ p[1] \in Int /\ p[2] \in Int
  BY <1>1, WindowFields, WinFacts
<1> QED
  BY <1>3, <1>4

(* The maximise button is never under the pointer that drags its window,   *)
(* but for a window resized with the second button up.                     *)
LEMMA DragOffButton ==
  ASSUME WinInv, NEW b \in {"LEFT", "RIGHT"}, NEW p \in Points, NEW hit \in DOMAIN wins,
         W!PressPart(b, p, "maximise", hit), wm_drag.mode # "NONE", wm_drag.win = hit
  PROVE  wm_drag.mode = "RESIZE" /\ W!Geometry(wins[hit]) # W!Full
<1>1. /\ wins[hit].x + wins[hit].w - 2 * BTN_W <= p[1]
      /\ p[1] < wins[hit].x + wins[hit].w - BTN_W /\ p[2] < wins[hit].y + TITLE_BAR_H
  BY ButtonFacts
<1>2. W!Pressed(b, p) /\ wins[hit] \in W!Window
  BY HitFacts
<1>3. p = ptr /\ wm_buttons # {"LEFT", "RIGHT"}
  BY <1>2, PressFacts
<1>4. DragOf(wm_drag, wins[hit], ptr, wm_buttons, wm_menu)
  BY DEF WinInv, DragGood
<1>5. /\ wins[hit].x \in Int /\ wins[hit].w \in Int /\ wins[hit].y \in Int
      /\ BTN_W \in Nat /\ TITLE_BAR_H \in Nat /\ p[1] \in Int /\ p[2] \in Int
      /\ wm_drag.at[1] \in Int /\ wm_drag.from.x \in Int /\ wm_drag.from.w \in Int
  BY <1>2, WindowFields, WinFacts, WinState, GeoFields
<1>6. wm_drag.mode # "MOVE"
  <2> SUFFICES ASSUME wm_drag.mode = "MOVE" PROVE FALSE
    OBVIOUS
  <2>1. MoveGood(wm_drag.from, wm_drag.at, wins[hit], p)
    BY <1>3, <1>4 DEF DragOf
  <2> QED
    BY <1>1, <1>5, <2>1 DEF MoveGood
<1>7. wm_drag.mode = "RESIZE"
  BY <1>6, WinState
<1>8. W!Geometry(wins[hit]) # W!Full
  <2> SUFFICES ASSUME W!Geometry(wins[hit]) = W!Full PROVE FALSE
    OBVIOUS
  <2>1. ResizeGood(wm_drag.from, wm_drag.at, wins[hit], p, wm_buttons, wm_menu)
    BY <1>3, <1>4, <1>7 DEF DragOf
  <2>2. TITLE_BAR_H <= p[2]
    BY <1>3, <2>1 DEF ResizeGood
  <2>3. wins[hit].y = 0
    BY DEF W!Geometry, W!Full
  <2> QED
    BY <1>1, <1>5, <2>2, <2>3
<1> QED
  BY <1>7, <1>8

(* A window is put in another place, the others stay. *)
LEMMA PlacedReach ==
  ASSUME WinInv, wins' \in Seq(W!Window), Len(wins') = Len(wins), NEW hit \in 1 .. Len(wins),
         W!Grabbable(wins'[hit]) \/ W!Geometry(wins'[hit]) = W!Unset,
         \A j \in 1 .. Len(wins) : j # hit => SamePlace(wins'[j], wins[j])
  PROVE  W!TitleWithinReach'
<1> SUFFICES ASSUME NEW k \in 1 .. Len(wins)
             PROVE  W!Grabbable(wins'[k]) \/ W!Geometry(wins'[k]) = W!Unset
  <2>1. DOMAIN wins' = 1 .. Len(wins)
    OBVIOUS
  <2> QED
    BY <2>1 DEF W!TitleWithinReach, W!Geometry, W!Grabbable, W!Unset, W!Bottom
<1>1. CASE k # hit
  <2>1. SamePlace(wins'[k], wins[k])
    BY <1>1
  <2>2. W!Grabbable(wins[k]) \/ W!Geometry(wins[k]) = W!Unset
    BY WinState DEF WinInv, W!TitleWithinReach
  <2> QED
    BY <2>1, <2>2, SameReach
<1> QED
  BY <1>1

LEMMA PlacedRestore ==
  ASSUME WinInv, NEW hit \in 1 .. Len(wins),
         \A j \in 1 .. Len(wins) : j # hit => SamePlace(wins'[j], wins[j]),
         \/ wm_drag.win = hit \/ W!Geometry(wins[hit]) # W!Full \/ owner # hit
         \/ W!Geometry(wins'[hit]) = before[hit]
  PROVE  RestoreStep
<1> SUFFICES ASSUME NEW k \in DOMAIN wins, W!Geometry(wins[k]) = W!Full,
                    W!Geometry(wins'[k]) # W!Full, wm_drag.win # k
             PROVE  owner # k \/ W!Geometry(wins'[k]) = before[k]
  BY DEF RestoreStep
<1>1. k \in 1 .. Len(wins)
  BY WinState
<1>2. CASE k # hit
  <2>1. W!Geometry(wins'[k]) = W!Geometry(wins[k])
    BY <1>1, <1>2, SameReach
  <2> QED
    BY <2>1
<1> QED
  BY <1>2

LEMMA FullFacts ==
  W!Full \in Geo /\ W!Grabbable(W!Full) /\ W!Full.x = 0
BY WinFacts DEF W!Full, Geo, W!Grabbable

LEMMA PlaceIs ==
  ASSUME NEW r \in W!Window, NEW g \in Geo, SamePlace(r, g)
  PROVE  W!Geometry(r) = g
BY DEF Geo, W!Geometry, SamePlace, W!Window

LEMMA PressMaximise ==
  ASSUME WinInv, NEW b \in {"LEFT", "RIGHT"}, NEW p \in Points, NEW hit \in DOMAIN wins,
         W!press_maximise(b, p, hit)
  PROVE  WinInv' /\ RestoreStep
<1>1. /\ W!PressPart(b, p, "maximise", hit) /\ list' = W!bring_to_front(list, hit)
      /\ UNCHANGED << open, wm_drag >>
  BY DEF W!press_maximise, W!InFront
<1>2. /\ W!Pressed(b, p) /\ ~wm_menu /\ W!IsLeft(b) /\ hit \in 1 .. Len(wins)
      /\ wins[hit] \in W!Window /\ wins[hit].state = "NORMAL"
      /\ wins[hit].x <= p[1] /\ p[1] < wins[hit].x + wins[hit].w
      /\ wm_menu' = wm_menu /\ icon' = icon
  BY <1>1, HitFacts
<1>3. /\ open \subseteq W!Single /\ icon \in BOOLEAN /\ wm_menu \in BOOLEAN
      /\ wm_drag.win \in 0 .. Len(wins) /\ (wm_drag.mode = "NONE" <=> wm_drag.win = 0)
      /\ (wm_drag.mode # "NONE" => wm_drag.win \in 1 .. Len(wins))
      /\ saved \in Geo /\ owner \in 0 .. MaxWindows /\ before \in [Wid -> Geo]
      /\ Len(wins) \in Nat /\ Len(wins) <= MaxWindows
  BY WinState
<1>4. /\ wm_buttons # {"LEFT", "RIGHT"} /\ wm_buttons' \subseteq {"LEFT", "RIGHT"}
      /\ ptr' = p /\ p \in Screen /\ p[1] \in Int /\ (wm_drag.mode # "NONE" => p = ptr)
      /\ ("LEFT" \in wm_buttons => wm_buttons' = {"LEFT", "RIGHT"})
      /\ "LEFT" \in wm_buttons'
  BY <1>2, PressFacts
<1>5. W!Grabbable(wins[hit])
  BY <1>2, <1>4, HitGrabbable
<1>6. hit \in Wid
  BY <1>2, <1>3, WinFacts DEF Wid
<1>7. ASSUME wm_drag.mode # "NONE", wm_drag.win # hit,
             \A j \in 1 .. Len(wins) : j # hit => SamePlace(wins'[j], wins[j])
      PROVE  DragGood'
  <2>1. SamePlace(wins'[wm_drag.win], wins[wm_drag.win])
    BY <1>3, <1>7
  <2> QED
    BY <1>1, <1>2, <2>1, DragKept
<1>8. CASE /\ W!Geometry(wins[hit]) = W!Full
           /\ wins' = [W!Raised(hit) EXCEPT ![hit] = W!Placed(@, saved)]
           /\ UNCHANGED << saved, owner, before >>
  <2>1. /\ GoodWins(wins', list') /\ wins' \in Seq(W!Window) /\ Len(wins') = Len(wins)
        /\ SamePlace(wins'[hit], saved)
        /\ \A j \in 1 .. Len(wins) : j # hit => SamePlace(wins'[j], wins[j])
    BY <1>1, <1>2, <1>3, <1>8, RaisedPlaced
  <2>2. W!Geometry(wins'[hit]) = saved
    <3>1. wins'[hit] \in W!Window
      BY <1>2, <2>1
    <3> QED
      BY <1>3, <2>1, <3>1, PlaceIs
  <2>3. SavedGood
    BY DragTyped
  <2>4. W!Grabbable(wins'[hit]) \/ W!Geometry(wins'[hit]) = W!Unset
    BY <2>1, <2>2, <2>3, SameReach DEF SavedGood
  <2>5. W!TitleWithinReach'
    BY <1>2, <2>1, <2>4, PlacedReach
  <2>6. SavedGood'
    BY <1>8, <2>3 DEF SavedGood, W!Grabbable, W!Unset, W!Bottom
  <2>7. DragGood'
    <3>1. CASE wm_drag.mode = "NONE"
      BY <1>1, <3>1 DEF DragGood
    <3>2. CASE wm_drag.mode # "NONE" /\ wm_drag.win # hit
      BY <1>7, <2>1, <3>2
    <3>3. CASE wm_drag.mode # "NONE" /\ wm_drag.win = hit
      BY <1>1, <1>8, <3>3, DragOffButton
    <3> QED
      BY <3>1, <3>2, <3>3
  <2>8. RestoreStep
    <3>1. owner = hit => W!Geometry(wins'[hit]) = before[hit]
      BY <1>6, <2>2, <2>3 DEF SavedGood, Wid
    <3> QED
      BY <1>2, <2>1, <3>1, PlacedRestore
  <2>9. wm_drag'.win \in 0 .. Len(wins') /\ Len(wins) <= Len(wins')
    BY <1>1, <1>3, <2>1
  <2>10. WinInv'
    BY <1>1, <1>2, <1>3, <1>4, <1>8, <2>1, <2>5, <2>6, <2>7, <2>9, DragTyped, WinParts
  <2> QED
    BY <2>8, <2>10
<1>9. CASE /\ W!Geometry(wins[hit]) # W!Full
           /\ saved' = W!geometry_saved(hit)
           /\ wins' = [W!Raised(hit) EXCEPT ![hit] = W!Placed(@, W!Full)]
           /\ owner' = hit /\ before' = [before EXCEPT ![hit] = W!Geometry(wins[hit])]
  <2>1. /\ GoodWins(wins', list') /\ wins' \in Seq(W!Window) /\ Len(wins') = Len(wins)
        /\ SamePlace(wins'[hit], W!Full)
        /\ \A j \in 1 .. Len(wins) : j # hit => SamePlace(wins'[j], wins[j])
    BY <1>1, <1>2, <1>9, FullFacts, RaisedPlaced
  <2>2. W!Grabbable(wins'[hit]) /\ wins'[hit].x = 0
    BY <2>1, FullFacts, SameReach DEF SamePlace
  <2>3. W!TitleWithinReach'
    BY <1>2, <2>1, <2>2, PlacedReach
  <2>4. saved' = W!Geometry(wins[hit]) /\ saved' \in Geo /\ W!Grabbable(saved')
    BY <1>2, <1>5, <1>9, WindowFields DEF W!geometry_saved, W!Geometry, Geo, W!Grabbable
  <2>5. owner' \in 0 .. MaxWindows /\ before' \in [Wid -> Geo] /\ before'[hit] = saved'
    <3>1. owner' \in 0 .. MaxWindows
      BY <1>6, <1>9, WinFacts DEF Wid
    <3>2. before' \in [Wid -> Geo] /\ before'[hit] = saved'
      BY <1>3, <1>6, <1>9, <2>4
    <3> QED
      BY <3>1, <3>2
  <2>6. SavedGood'
    BY <1>9, <2>4, <2>5 DEF SavedGood, W!Grabbable, W!Unset, W!Bottom
  <2>7. DragGood'
    <3>1. CASE wm_drag.mode = "NONE"
      BY <1>1, <3>1 DEF DragGood
    <3>2. CASE wm_drag.mode # "NONE" /\ wm_drag.win # hit
      BY <1>7, <2>1, <3>2
    <3>3. CASE wm_drag.mode # "NONE" /\ wm_drag.win = hit
      <4>1. wm_drag.mode = "RESIZE"
        BY <1>1, <3>3, DragOffButton
      <4>2. DragOf(wm_drag, wins[hit], ptr, wm_buttons, wm_menu)
        BY <3>3 DEF WinInv, DragGood
      <4>3. "LEFT" \in wm_buttons
        BY <1>2, <4>2 DEF DragOf
      <4>4. wm_buttons' = {"LEFT", "RIGHT"} /\ ~wm_menu'
        BY <1>2, <1>4, <4>3
      <4>5. wm_drag.from.y + wm_drag.from.h - BORDER_W <= wm_drag.at[2]
        BY <4>1, <4>2 DEF DragOf, ResizeGood
      <4>6. PICK h : h = wins'[hit]
        OBVIOUS
      <4>7. ResizeGood(wm_drag.from, wm_drag.at, h, ptr', wm_buttons', wm_menu')
        BY <2>2, <4>4, <4>5, <4>6 DEF ResizeGood
      <4>8. DragOf(wm_drag, h, ptr', wm_buttons', wm_menu')
        BY <1>4, <2>2, <4>1, <4>2, <4>6, <4>7 DEF DragOf
      <4> QED
        BY <1>1, <3>3, <4>6, <4>8 DEF DragGood
    <3> QED
      BY <3>1, <3>2, <3>3
  <2>8. RestoreStep
    BY <1>2, <1>9, <2>1, PlacedRestore
  <2>9. wm_drag'.win \in 0 .. Len(wins') /\ Len(wins) <= Len(wins')
    BY <1>1, <1>3, <2>1
  <2>10. WinInv'
    BY <1>1, <1>2, <1>3, <1>4, <2>1, <2>3, <2>4, <2>5, <2>6, <2>7, <2>9, DragTyped, WinParts
  <2> QED
    BY <2>8, <2>10
<1> QED
  BY <1>8, <1>9 DEF W!press_maximise

(* The grip and the title of a window, apart from the maximise button. *)
LEMMA FrameFacts ==
  ASSUME WinInv, NEW b \in {"LEFT", "RIGHT"}, NEW p \in Points, NEW hit \in DOMAIN wins,
         NEW part0 \in {"grip", "title"}, W!PressPart(b, p, part0, hit)
  PROVE  /\ part0 = "grip" => wins[hit].y + wins[hit].h - BORDER_W <= p[2]
         /\ part0 = "title" => ~(/\ wins[hit].x + wins[hit].w - 2 * BTN_W <= p[1]
                                 /\ p[1] < wins[hit].x + wins[hit].w - BTN_W)
<1>1. W!part_at(wins[hit], p) = part0 /\ wins[hit] \in W!Window
  BY HitFacts
<1>2. /\ wins[hit].x \in Int /\ wins[hit].w \in Int /\ wins[hit].y \in Int
      /\ wins[hit].h \in Int /\ BTN_W \in Nat /\ BORDER_W \in Nat /\ TITLE_BAR_H \in Nat
      /\ p[1] \in Int /\ p[2] \in Int
  BY <1>1, WindowFields, WinFacts
<1>3. part0 = "grip" => W!contains_point(W!grip(wins[hit]), p)
  BY <1>1 DEF W!part_at
<1>4. part0 = "title" => /\ W!contains_point(W!title(wins[hit]), p)
                         /\ ~W!contains_point(W!btn(wins[hit], 1), p)
  BY <1>1 DEF W!part_at
<1>5. ASSUME part0 = "grip" PROVE wins[hit].y + wins[hit].h - BORDER_W <= p[2]
  <2>1. p[2] \in wins[hit].y + wins[hit].h - BORDER_W ..
                 wins[hit].y + wins[hit].h - BORDER_W + BORDER_W - 1
    BY <1>3, <1>5 DEF W!contains_point, W!grip
  <2> QED
    BY <1>2, <2>1
<1>6. ASSUME part0 = "title"
      PROVE  ~(/\ wins[hit].x + wins[hit].w - 2 * BTN_W <= p[1]
               /\ p[1] < wins[hit].x + wins[hit].w - BTN_W)
  <2>1. p[2] \in wins[hit].y .. wins[hit].y + TITLE_BAR_H - 1
    BY <1>4, <1>6 DEF W!contains_point, W!title
  <2>2. ~(/\ p[1] \in wins[hit].x + wins[hit].w - (1 + 1) * BTN_W ..
                      wins[hit].x + wins[hit].w - (1 + 1) * BTN_W + BTN_W - 1
          /\ p[2] \in wins[hit].y .. wins[hit].y + TITLE_BAR_H - 1)
    BY <1>4, <1>6 DEF W!contains_point, W!btn
  <2> QED
    BY <1>2, <2>1, <2>2
<1> QED
  BY <1>5, <1>6

LEMMA PressFrame ==
  ASSUME WinInv, NEW b \in {"LEFT", "RIGHT"}, NEW p \in Points, NEW hit \in DOMAIN wins,
         W!press_frame(b, p, hit)
  PROVE  WinInv' /\ RestoreStep
<1>1. PICK part0 \in {"grip", "title"} :
        /\ W!PressPart(b, p, part0, hit)
        /\ wm_drag' = [mode |-> IF part0 = "grip" THEN "RESIZE" ELSE "MOVE", win |-> hit,
                       at |-> p, from |-> W!Geometry(wins[hit])]
  BY DEF W!press_frame
<1>2. /\ wins' = W!Raised(hit) /\ list' = W!bring_to_front(list, hit)
      /\ UNCHANGED << open, saved, owner, before >>
  BY DEF W!press_frame, W!InFront
<1>3. /\ W!Pressed(b, p) /\ ~wm_menu /\ W!IsLeft(b) /\ hit \in 1 .. Len(wins)
      /\ wins[hit] \in W!Window /\ wins[hit].state = "NORMAL"
      /\ wins[hit].x <= p[1] /\ p[1] < wins[hit].x + wins[hit].w
      /\ wm_menu' = wm_menu /\ icon' = icon
  BY <1>1, HitFacts
<1>4. /\ open \subseteq W!Single /\ icon \in BOOLEAN /\ wm_menu \in BOOLEAN
      /\ saved \in Geo /\ owner \in 0 .. MaxWindows /\ before \in [Wid -> Geo]
      /\ Len(wins) \in Nat /\ Len(wins) <= MaxWindows
  BY WinState
<1>5. /\ wm_buttons' \subseteq {"LEFT", "RIGHT"} /\ ptr' = p /\ p \in Screen
      /\ p[1] \in Int /\ p[2] \in Int /\ "LEFT" \in wm_buttons'
  BY <1>3, PressFacts
<1>6. W!Grabbable(wins[hit])
  BY <1>3, <1>5, HitGrabbable
<1>7. /\ GoodWins(wins', list') /\ Grown(wins, wins') /\ wins' \in Seq(W!Window)
      /\ Len(wins') = Len(wins)
  BY <1>2, <1>3, RaisedKeeps, RaisedFacts
<1>8. SamePlace(wins'[hit], wins[hit])
  BY <1>3, <1>7 DEF Grown
<1>9. /\ wins[hit].x \in Int /\ wins[hit].w \in Int /\ wins[hit].y \in Int
      /\ wins[hit].h \in Int
  BY <1>3, WindowFields
<1>10. PICK f : f = W!Geometry(wins[hit])
  OBVIOUS
<1>11. /\ f \in Geo /\ f.x = wins[hit].x /\ f.y = wins[hit].y /\ f.w = wins[hit].w
       /\ f.h = wins[hit].h
  BY <1>9, <1>10 DEF W!Geometry, Geo
<1>12. PICK md \in {"MOVE", "RESIZE"} :
         /\ wm_drag' = [mode |-> md, win |-> hit, at |-> p, from |-> f]
         /\ (md = "RESIZE" <=> part0 = "grip")
  BY <1>1, <1>10
<1>13. wm_drag' \in [mode : {"NONE", "MOVE", "RESIZE"}, win : 0 .. MaxWindows,
                     at : Screen, from : Geo]
  <2>1. hit \in 0 .. MaxWindows
    BY <1>3, <1>4, WinFacts
  <2> QED
    BY <1>5, <1>11, <1>12, <2>1
<1>14. /\ wm_drag'.mode = md /\ wm_drag'.win = hit /\ wm_drag'.at = p /\ wm_drag'.from = f
  BY <1>12
<1>15. DragGood'
  <2>1. PICK h : h = wins'[hit] /\ SamePlace(h, wins[hit])
    BY <1>8
  <2>2. W!Grabbable(h)
    BY <1>6, <2>1, SameReach
  <2>3. 0 <= f.y
    BY <1>6, <1>11, WinFacts DEF W!Grabbable
  <2>4. md = "MOVE" => MoveGood(f, p, h, p)
    <3> SUFFICES ASSUME md = "MOVE" PROVE MoveGood(f, p, h, p)
      OBVIOUS
    <3>1. ~(/\ wins[hit].x + wins[hit].w - 2 * BTN_W <= p[1]
            /\ p[1] < wins[hit].x + wins[hit].w - BTN_W)
      BY <1>1, <1>12, FrameFacts
    <3>2. h.x = f.x /\ h.w = f.w
      BY <1>11, <2>1 DEF SamePlace
    <3>3. h.x = f.x + p[1] - p[1]
      BY <1>5, <1>9, <1>11, <3>2
    <3> QED
      BY <1>11, <3>1, <3>2, <3>3 DEF MoveGood
  <2>5. md = "RESIZE" => ResizeGood(f, p, h, p, wm_buttons', wm_menu')
    <3> SUFFICES ASSUME md = "RESIZE" PROVE ResizeGood(f, p, h, p, wm_buttons', wm_menu')
      OBVIOUS
    <3>1. f.y + f.h - BORDER_W <= p[2]
      BY <1>1, <1>11, <1>12, FrameFacts
    <3>2. h.x = f.x
      BY <1>11, <2>1 DEF SamePlace
    <3>3. ASSUME W!Geometry(h) = W!Full PROVE TITLE_BAR_H <= p[2]
      <4>1. h.y = 0 /\ h.h = W!Bottom
        BY <3>3 DEF W!Geometry, W!Full
      <4>2. f.y = 0 /\ f.h = W!Bottom
        BY <1>11, <2>1, <4>1 DEF SamePlace
      <4> QED
        BY <1>5, <3>1, <4>2, WinFacts
    <3> QED
      BY <3>1, <3>2, <3>3 DEF ResizeGood
  <2>6. DragOf(wm_drag', h, ptr', wm_buttons', wm_menu')
    <3>1. f.x <= p[1] /\ p[1] < f.x + f.w
      BY <1>3, <1>11
    <3> QED
      BY <1>5, <1>14, <2>2, <2>3, <2>4, <2>5, <3>1 DEF DragOf
  <2> QED
    BY <1>14, <2>1, <2>6 DEF DragGood
<1>16. W!TitleWithinReach'
  BY <1>7, GrownReach
<1>17. SavedGood'
  BY <1>2, DragTyped DEF SavedGood, W!Grabbable, W!Unset, W!Bottom
<1>18. /\ wm_drag'.win \in 0 .. Len(wins') /\ wm_drag'.mode # "NONE" /\ wm_drag'.win # 0
       /\ Len(wins) <= Len(wins')
  BY <1>3, <1>4, <1>7, <1>14
<1>19. WinInv'
  BY <1>2, <1>3, <1>4, <1>5, <1>7, <1>13, <1>15, <1>16, <1>17, <1>18, WinParts
<1> QED
  BY <1>7, <1>19, GrownRestore

LEMMA MaxOfTwo ==
  ASSUME NEW a \in Int, NEW b \in Int
  PROVE  /\ W!Max({a, b}) \in {a, b} /\ W!Max({a, b}) >= a /\ W!Max({a, b}) >= b
<1>1. \E x \in {a, b} : \A y \in {a, b} : x >= y
  <2>1. CASE a >= b
    BY <2>1
  <2>2. CASE ~(a >= b)
    BY <2>2
  <2> QED
    BY <2>1, <2>2
<1>2. W!Max({a, b}) = CHOOSE x \in {a, b} : \A y \in {a, b} : x >= y
  BY DEF W!Max
<1>3. W!Max({a, b}) \in {a, b} /\ \A y \in {a, b} : W!Max({a, b}) >= y
  BY <1>1, <1>2
<1> QED
  BY <1>3

(* What a move makes of the window dragged. *)
LEMMA DraggedFacts ==
  ASSUME WinInv, wm_drag.mode # "NONE", NEW p \in Points, NEW g, g = wins[wm_drag.win],
         NEW r, r = W!Dragged(g, p)
  PROVE  /\ r \in W!Window /\ r.state = g.state /\ r.active = g.active
         /\ ~wm_menu => DragOf(wm_drag, r, p, wm_buttons, wm_menu)
<1> DEFINE d == wm_drag
<1>1. g \in W!Window
  BY WinState
<1>2. g.x \in Int /\ g.y \in Int /\ g.w \in Int /\ g.h \in Int
  BY <1>1, WindowFields
<1>3. /\ d.at[1] \in Int /\ d.at[2] \in Int /\ d.from.x \in Int /\ d.from.y \in Int
      /\ d.from.w \in Int /\ d.from.h \in Int /\ d.mode \in {"MOVE", "RESIZE"}
  BY WinState, GeoFields
<1>4. DragOf(d, g, ptr, wm_buttons, wm_menu)
  BY DEF WinInv, DragGood
<1>5. /\ W!Grabbable(g) /\ d.from.x <= d.at[1] /\ d.at[1] < d.from.x + d.from.w
      /\ 0 <= d.from.y /\ (~wm_menu => "LEFT" \in wm_buttons)
  BY <1>4 DEF DragOf
<1>6. p[1] \in 0 .. Width - 1 /\ p[2] \in 0 .. Height - 1 /\ p[1] \in Int /\ p[2] \in Int
  BY WinFacts
<1>7. CASE d.mode = "MOVE"
  <2>1. PICK y : y = W!clamp_y(d.from.y + (p[2] - d.at[2]))
    OBVIOUS
  <2>2. y \in 0 .. W!Bottom - 1
    BY <1>3, <1>6, <2>1, WinFacts DEF W!clamp_y
  <2>3. PICK x \in Int : x = d.from.x + (p[1] - d.at[1])
    BY <1>3, <1>6
  <2>4. r = [g EXCEPT !.x = x, !.y = y]
    BY <1>7, <2>1, <2>3 DEF W!Dragged
  <2>5. y \in Int
    BY <2>2, WinFacts
  <2>6. /\ r \in W!Window /\ r.state = g.state /\ r.active = g.active /\ r.x = x
        /\ r.y = y /\ r.w = g.w /\ r.h = g.h
    BY <1>1, <2>4, <2>5 DEF W!Window
  <2>7. MoveGood(d.from, d.at, g, ptr)
    BY <1>4, <1>7 DEF DragOf
  <2>8. g.w = d.from.w
    BY <2>7 DEF MoveGood
  <2>9. MoveGood(d.from, d.at, r, p)
    <3>1. r.x = d.from.x + p[1] - d.at[1] /\ r.w = d.from.w
      BY <1>3, <1>6, <2>3, <2>6, <2>8
    <3> QED
      BY <2>7, <3>1 DEF MoveGood
  <2>10. W!Grabbable(r)
    <3>1. r.x < Width /\ r.x + r.w > 0
      BY <1>2, <1>3, <1>5, <1>6, <2>3, <2>6, <2>8, WinFacts
    <3> QED
      BY <2>2, <2>6, <3>1 DEF W!Grabbable
  <2>11. ~wm_menu => DragOf(d, r, p, wm_buttons, wm_menu)
    BY <1>5, <1>7, <2>9, <2>10 DEF DragOf
  <2> QED
    BY <2>6, <2>11
<1>8. CASE d.mode = "RESIZE"
  <2>1. PICK w \in Int : w = W!Max({MIN_W, d.from.w + (p[1] - d.at[1])})
                         /\ w >= MIN_W /\ w >= d.from.w + (p[1] - d.at[1])
    <3>1. d.from.w + (p[1] - d.at[1]) \in Int /\ MIN_W \in Int
      BY <1>3, <1>6, WinFacts
    <3> HIDE DEF d
    <3>2. /\ W!Max({MIN_W, d.from.w + (p[1] - d.at[1])}) >= MIN_W
          /\ W!Max({MIN_W, d.from.w + (p[1] - d.at[1])}) >= d.from.w + (p[1] - d.at[1])
          /\ W!Max({MIN_W, d.from.w + (p[1] - d.at[1])})
                \in {MIN_W, d.from.w + (p[1] - d.at[1])}
      BY <3>1, MaxOfTwo, Zenon
    <3> QED
      BY <3>1, <3>2
  <2>2. PICK h \in Int : h = W!Max({MIN_H, d.from.h + (p[2] - d.at[2])})
                         /\ h \in {MIN_H, d.from.h + (p[2] - d.at[2])}
    <3>1. d.from.h + (p[2] - d.at[2]) \in Int /\ MIN_H \in Int
      BY <1>3, <1>6, WinFacts
    <3> HIDE DEF d
    <3>2. W!Max({MIN_H, d.from.h + (p[2] - d.at[2])})
            \in {MIN_H, d.from.h + (p[2] - d.at[2])}
      BY <3>1, MaxOfTwo, Zenon
    <3> QED
      BY <3>1, <3>2
  <2>3. r = [g EXCEPT !.w = w, !.h = h]
    BY <1>8, <2>1, <2>2 DEF W!Dragged
  <2>4. /\ r \in W!Window /\ r.state = g.state /\ r.active = g.active /\ r.x = g.x
        /\ r.y = g.y /\ r.w = w /\ r.h = h
    BY <1>1, <2>3 DEF W!Window
  <2>5. ResizeGood(d.from, d.at, g, ptr, wm_buttons, wm_menu)
    BY <1>4, <1>8 DEF DragOf
  <2>6. /\ d.from.y + d.from.h - BORDER_W <= d.at[2]
        /\ \/ g.x = d.from.x
           \/ g.x = 0 /\ wm_buttons = {"LEFT", "RIGHT"} /\ ~wm_menu
    BY <2>5 DEF ResizeGood
  <2>7. W!Grabbable(r)
    <3>1. r.x < Width /\ r.y \in 0 .. W!Bottom - 1
      BY <1>5, <2>4 DEF W!Grabbable
    <3>2. CASE g.x = d.from.x
      <4>1. r.x + r.w > 0
        BY <1>2, <1>3, <1>5, <1>6, <2>1, <2>4, <3>2
      <4> QED
        BY <3>1, <4>1 DEF W!Grabbable
    <3>3. CASE g.x = 0
      <4>1. r.x + r.w > 0
        BY <2>1, <2>4, <3>3, WinFacts
      <4> QED
        BY <3>1, <4>1 DEF W!Grabbable
    <3> QED
      BY <2>6, <3>2, <3>3
  <2>8. ASSUME W!Geometry(r) = W!Full PROVE TITLE_BAR_H <= p[2]
    <3>1. h = W!Bottom
      BY <2>4, <2>8 DEF W!Geometry, W!Full
    <3>2. h = d.from.h + (p[2] - d.at[2])
      BY <2>2, <3>1, WinFacts
    <3> QED
      BY <1>3, <1>5, <1>6, <2>6, <3>1, <3>2, WinFacts
  <2>9. ResizeGood(d.from, d.at, r, p, wm_buttons, wm_menu)
    BY <2>4, <2>6, <2>8 DEF ResizeGood
  <2>10. ~wm_menu => DragOf(d, r, p, wm_buttons, wm_menu)
    BY <1>5, <1>8, <2>7, <2>9 DEF DragOf
  <2> QED
    BY <2>4, <2>10
<1> QED
  BY <1>3, <1>7, <1>8

LEMMA Move ==
  ASSUME WinInv, NEW p \in Points, W!move(p)
  PROVE  WinInv' /\ RestoreStep
<1>1. /\ ~wm_menu /\ wm_drag.mode # "NONE" /\ ptr' = p
      /\ wins' = [wins EXCEPT ![wm_drag.win] = W!Dragged(@, p)]
      /\ UNCHANGED << list, open, wm_menu, icon, wm_drag, saved, wm_buttons, owner, before >>
  BY DEF W!move
<1>2. PICK k : k = wm_drag.win
  OBVIOUS
<1>3. /\ open \subseteq W!Single /\ icon \in BOOLEAN /\ wm_menu \in BOOLEAN
      /\ wm_buttons \subseteq {"LEFT", "RIGHT"}
      /\ wm_drag.win \in 0 .. Len(wins) /\ (wm_drag.mode = "NONE" <=> wm_drag.win = 0)
      /\ k \in 1 .. Len(wins) /\ GoodWins(wins, list) /\ wins \in Seq(W!Window)
      /\ saved \in Geo /\ owner \in 0 .. MaxWindows /\ before \in [Wid -> Geo]
      /\ Len(wins) \in Nat /\ Len(wins) <= MaxWindows
  BY <1>1, <1>2, WinState
<1>4. PICK r : r = W!Dragged(wins[k], p)
  OBVIOUS
<1>5. /\ r \in W!Window /\ r.state = wins[k].state /\ r.active = wins[k].active
      /\ DragOf(wm_drag, r, p, wm_buttons, wm_menu)
  BY <1>1, <1>2, <1>4, DraggedFacts
<1>6. wins' = [wins EXCEPT ![k] = r]
  BY <1>1, <1>2, <1>4
<1>7. /\ wins' \in Seq(W!Window) /\ Len(wins') = Len(wins) /\ wins'[k] = r
      /\ \A j \in 1 .. Len(wins) : j # k => wins'[j] = wins[j]
  <2>1. /\ [wins EXCEPT ![k] = r] \in Seq(W!Window)
        /\ Len([wins EXCEPT ![k] = r]) = Len(wins) /\ [wins EXCEPT ![k] = r][k] = r
        /\ \A j \in 1 .. Len(wins) : j # k => [wins EXCEPT ![k] = r][j] = wins[j]
    BY <1>3, <1>5, PutFacts
  <2> QED
    BY <1>6, <2>1, Zenon
<1>8. \A j \in 1 .. Len(wins) : j # k => SamePlace(wins'[j], wins[j])
  BY <1>7 DEF SamePlace
<1>9. GoodWins(wins', list')
  <2>1. ASSUME NEW j \in 1 .. Len(wins')
        PROVE  wins'[j].active => list'.head = j /\ wins'[j].state # "MINIMIZED"
    <3>1. j \in 1 .. Len(wins)
      BY <1>7
    <3>2. wins'[j].active = wins[j].active /\ wins'[j].state = wins[j].state
      BY <1>5, <1>7, <3>1
    <3>3. wins[j].active => list.head = j /\ wins[j].state # "MINIMIZED"
      BY <1>3, <3>1 DEF GoodWins
    <3> QED
      BY <1>1, <3>2, <3>3
  <2>2. Order(list', Len(wins')) /\ Len(wins') <= MaxWindows
    BY <1>1, <1>3, <1>7 DEF GoodWins
  <2> QED
    BY <1>7, <2>1, <2>2 DEF GoodWins
<1>10. W!Grabbable(wins'[k])
  BY <1>5, <1>7 DEF DragOf
<1>11. W!TitleWithinReach'
  BY <1>3, <1>7, <1>8, <1>10, PlacedReach
<1>12. SavedGood'
  BY <1>1, DragTyped DEF SavedGood, W!Grabbable, W!Unset, W!Bottom
<1>13. DragGood'
  <2>1. DragOf(wm_drag', wins'[k], ptr', wm_buttons', wm_menu')
    BY <1>1, <1>5, <1>7
  <2> QED
    BY <1>1, <1>2, <2>1 DEF DragGood
<1>14. ptr' \in Screen /\ Len(wins) <= Len(wins')
  BY <1>1, <1>3, <1>7, WinFacts DEF Screen
<1>15. WinInv'
  BY <1>1, <1>3, <1>7, <1>9, <1>11, <1>12, <1>13, <1>14, DragTyped, WinParts
<1>16. RestoreStep
  BY <1>2, <1>3, <1>8, PlacedRestore
<1> QED
  BY <1>15, <1>16

LEMMA Release ==
  ASSUME WinInv, NEW b \in {"LEFT", "RIGHT"}, W!release(b)
  PROVE  WinInv' /\ RestoreStep
<1>1. /\ wm_buttons' = wm_buttons \ {b}
      /\ wm_drag' = IF wm_menu THEN wm_drag ELSE W!NoDrag
      /\ UNCHANGED << wins, list, open, wm_menu, icon, saved, ptr, owner, before >>
  BY DEF W!release, W!drag_ended
<1>2. /\ open \subseteq W!Single /\ icon \in BOOLEAN /\ wm_menu \in BOOLEAN
      /\ wm_buttons \subseteq {"LEFT", "RIGHT"}
      /\ wm_drag.win \in 0 .. Len(wins) /\ (wm_drag.mode = "NONE" <=> wm_drag.win = 0)
      /\ GoodWins(wins, list) /\ wins \in Seq(W!Window) /\ Grown(wins, wins)
      /\ saved \in Geo /\ owner \in 0 .. MaxWindows /\ before \in [Wid -> Geo]
      /\ Len(wins) \in Nat
  BY WinState, GrownSelf
<1>3. /\ GoodWins(wins', list') /\ Grown(wins, wins') /\ wins' \in Seq(W!Window)
      /\ Len(wins) <= Len(wins')
  BY <1>1, <1>2
<1>4. W!TitleWithinReach'
  BY <1>3, GrownReach
<1>5. SavedGood'
  BY <1>1, DragTyped DEF SavedGood, W!Grabbable, W!Unset, W!Bottom
<1>6. wm_buttons' \subseteq {"LEFT", "RIGHT"} /\ ptr' \in Screen
  BY <1>1, <1>2 DEF WinInv, WinTypes, Screen
<1>7. CASE wm_menu
  <2>1. wm_drag' = wm_drag
    BY <1>1, <1>7
  <2>2. DragGood'
    <3> SUFFICES ASSUME wm_drag.mode # "NONE" PROVE DragGood'
      BY <2>1 DEF DragGood
    <3>1. PICK g : g = wins[wm_drag.win]
      OBVIOUS
    <3>2. DragOf(wm_drag, g, ptr, wm_buttons, wm_menu)
      BY <3>1 DEF WinInv, DragGood
    <3>3. wm_drag.mode = "RESIZE" => ResizeGood(wm_drag.from, wm_drag.at, g, ptr, wm_buttons', wm_menu)
      BY <1>7, <3>2 DEF DragOf, ResizeGood
    <3>4. DragOf(wm_drag, g, ptr, wm_buttons', wm_menu)
      BY <1>7, <3>2, <3>3 DEF DragOf
    <3>5. DragOf(wm_drag', wins'[wm_drag'.win], ptr', wm_buttons', wm_menu')
      BY <1>1, <2>1, <3>1, <3>4
    <3> QED
      BY <3>5 DEF DragGood
  <2>3. WinInv'
    BY <1>1, <1>2, <1>3, <1>4, <1>5, <1>6, <2>1, <2>2, DragTyped, WinParts
  <2> QED
    BY <1>3, <2>3, GrownRestore
<1>8. CASE ~wm_menu
  <2>1. wm_drag' = [mode |-> "NONE", win |-> 0, at |-> << 0, 0 >>, from |-> W!Unset]
    BY <1>1, <1>8 DEF W!NoDrag, W!NoWin
  <2>2. << 0, 0 >> \in Screen /\ W!Unset \in Geo /\ 0 \in 0 .. MaxWindows
    BY WinFacts DEF Screen, Geo, W!Unset
  <2>3. wm_drag' \in [mode : {"NONE", "MOVE", "RESIZE"}, win : 0 .. MaxWindows,
                      at : Screen, from : Geo]
    BY <2>1, <2>2
  <2>4. wm_drag'.mode = "NONE" /\ wm_drag'.win = 0 /\ wm_drag'.win \in 0 .. Len(wins')
    BY <1>1, <1>2, <2>1
  <2>5. DragGood'
    BY <2>4 DEF DragGood
  <2>6. WinInv'
    BY <1>1, <1>2, <1>3, <1>4, <1>5, <1>6, <2>3, <2>4, <2>5, WinParts
  <2> QED
    BY <1>3, <2>6, GrownRestore
<1> QED
  BY <1>7, <1>8

-----------------------------------------------------------------------------
(* The boot opens the Terminal and the Explorer. *)
LEMMA BootedGood ==
  GoodWins(W!Booted.wins, W!Booted.list) /\ Len(W!Booted.wins) = 2
  /\ \A k \in 1 .. Len(W!Booted.wins) : W!Grabbable(W!Booted.wins[k])
<1>1. GoodWins(<< >>, W!NoList)
  <2>1. Chain(W!NoList, << >>)
    <3>1. W!NoList \in WinList /\ W!NoList.head = 0 /\ W!NoList.tail = 0
      BY WinFacts DEF W!NoList, W!NoWin, W!WinId, WinList, Wid
    <3>2. << >> \in Seq(Wid) /\ Len(<< >>) = 0
      OBVIOUS
    <3> QED
      BY <3>1, <3>2 DEF Chain
  <2>2. Order(W!NoList, 0)
    <3>1. /\ Len(<< >>) = 0 /\ \A k \in 1 .. 0 : << >>[k] \in 1 .. 0
          /\ \A w \in 1 .. 0 : \E k \in 1 .. 0 : << >>[k] = w
      OBVIOUS
    <3> QED
      BY <2>1, <3>1, Zenon DEF Order
  <2>3. << >> \in Seq(W!Window) /\ Len(<< >>) = 0
    OBVIOUS
  <2> QED
    BY <2>2, <2>3, WinFacts DEF GoodWins
<1>2. "Terminal" \in W!Apps /\ "Explorer" \in W!Apps
  BY DEF W!Apps
<1>3. PICK one : one = W!Created_(<< >>, W!NoList, "Terminal", 1 + CASCADE_STEP, 1 + CASCADE_STEP)
  OBVIOUS
<1>4. GoodWins(one.wins, one.list) /\ Grown(<< >>, one.wins) /\ Len(one.wins) = 1
  <2>1. PICK st \in Nat : st = 1 + CASCADE_STEP /\ st < Width /\ st < W!Bottom
    BY WinFacts
  <2>2. PICK e, l, a : e = << >> /\ l = W!NoList /\ a = "Terminal"
    OBVIOUS
  <2>3. GoodWins(e, l) /\ Len(e) < MaxWindows /\ Len(e) = 0 /\ a \in W!Apps
    BY <1>1, <1>2, <2>2, WinFacts
  <2>4. st < Width /\ st < W!Bottom
    BY <2>1
  <2>5. LET c == W!Created_(e, l, a, st, st)
        IN  GoodWins(c.wins, c.list) /\ Grown(e, c.wins) /\ Len(c.wins) = Len(e) + 1
    BY <2>3, <2>4, CreatedGood
  <2>6. one = W!Created_(e, l, a, st, st)
    BY <1>3, <2>1, <2>2
  <2>7. GoodWins(one.wins, one.list) /\ Grown(e, one.wins) /\ Len(one.wins) = Len(e) + 1
    BY <2>5, <2>6
  <2> QED
    BY <2>2, <2>3, <2>7
<1>5. PICK two : two = W!Created_(one.wins, one.list, "Explorer", 1, 1)
  OBVIOUS
<1>6. GoodWins(two.wins, two.list) /\ Grown(one.wins, two.wins) /\ Len(two.wins) = 2
  <2>1. 1 \in Nat /\ 1 < Width /\ 1 < W!Bottom /\ 1 < MaxWindows
    BY WinFacts
  <2>2. PICK ws, l : ws = one.wins /\ l = one.list /\ GoodWins(ws, l) /\ Len(ws) < MaxWindows
    BY <1>4, <2>1
  <2>3. two = W!Created_(ws, l, "Explorer", 1, 1)
    BY <1>5, <2>2
  <2>4. GoodWins(two.wins, two.list) /\ Grown(ws, two.wins) /\ Len(two.wins) = Len(ws) + 1
    BY <1>2, <2>1, <2>2, <2>3, CreatedGood
  <2> QED
    BY <1>4, <2>2, <2>4
<1>7. W!Booted = two
  BY <1>3, <1>5 DEF W!Booted
<1>8. ASSUME NEW k \in 1 .. 2 PROVE W!Grabbable(two.wins[k])
  <2>1. CASE k = 1
    <3>1. W!Grabbable(one.wins[1])
      BY <1>4 DEF Grown
    <3>2. SamePlace(two.wins[1], one.wins[1])
      BY <1>4, <1>6 DEF Grown
    <3> QED
      BY <2>1, <3>1, <3>2, SameReach
  <2>2. CASE k = 2
    BY <1>4, <1>6, <2>2 DEF Grown
  <2> QED
    BY <2>1, <2>2
<1> QED
  BY <1>6, <1>7, <1>8

LEMMA WinInit ==
  ASSUME W!Init
  PROVE  WinInv
<1>1. /\ wins = W!Booted.wins /\ list = W!Booted.list /\ open = {"Terminal"}
      /\ wm_menu = FALSE /\ icon = FALSE /\ saved = W!Unset /\ wm_buttons = {}
      /\ wm_drag = [mode |-> "NONE", win |-> 0, at |-> << 0, 0 >>, from |-> W!Unset]
      /\ ptr = << 0, 0 >> /\ owner = 0 /\ before = [k \in Wid |-> W!Unset]
  BY DEF W!Init, W!NoDrag, W!NoWin, W!WinId, Wid
<1>2. GoodWins(wins, list) /\ Len(wins) = 2 /\ \A k \in 1 .. 2 : W!Grabbable(wins[k])
  BY <1>1, BootedGood
<1>3. << 0, 0 >> \in Screen /\ W!Unset \in Geo /\ 0 \in 0 .. MaxWindows
  BY WinFacts DEF Screen, Geo, W!Unset
<1>4. /\ wins \in Seq(W!Window) /\ Len(wins) <= MaxWindows /\ Order(list, Len(wins))
      /\ DOMAIN wins = 1 .. 2
      /\ \A k \in 1 .. Len(wins) :
            wins[k].active => list.head = k /\ wins[k].state # "MINIMIZED"
  BY <1>2 DEF GoodWins
<1>5. list.head \in 0 .. MaxWindows /\ list.tail \in 0 .. MaxWindows
  <2>1. list \in WinList
    BY <1>4, ChainFacts DEF Order
  <2> QED
    BY <2>1 DEF WinList
<1>6. W!TypeOK
  <2>1. wm_drag.mode = "NONE" /\ wm_drag.win = 0 /\ wm_drag.win \in 0 .. Len(wins)
    BY <1>1, <1>2
  <2>2. (wm_drag.mode = "NONE") = (wm_drag.win = 0)
    BY <2>1
  <2>3. open \subseteq W!Single /\ {wm_menu, icon} \subseteq BOOLEAN
        /\ wm_buttons \subseteq {"LEFT", "RIGHT"}
    BY <1>1 DEF W!Single
  <2> QED
    BY <1>4, <1>5, <2>1, <2>2, <2>3 DEF W!TypeOK, W!NoWin
<1>7. WinTypes
  BY <1>1, <1>3, <1>6 DEF WinTypes
<1>8. W!ActiveIsFront /\ W!TitleWithinReach
  BY <1>2, <1>4 DEF W!ActiveIsFront, W!TitleWithinReach
<1>9. SavedGood /\ DragGood
  BY <1>1 DEF SavedGood, DragGood
<1> QED
  BY <1>2, <1>4, <1>7, <1>8, <1>9 DEF WinInv

LEMMA WinNext ==
  ASSUME WinInv, W!Next
  PROVE  WinInv' /\ RestoreStep
<1>1. CASE \E b \in {"LEFT", "RIGHT"}, p \in Points :
             \/ W!press_in_menu(b, p) \/ W!press_ignored(b, p) \/ W!press_taskbar(b, p)
             \/ W!press_window(b, p) \/ W!press_desktop(b, p)
  <2>1. PICK b \in {"LEFT", "RIGHT"}, p \in Points :
             \/ W!press_in_menu(b, p) \/ W!press_ignored(b, p) \/ W!press_taskbar(b, p)
             \/ W!press_window(b, p) \/ W!press_desktop(b, p)
    BY <1>1
  <2>2. CASE W!press_window(b, p)
    <3>1. PICK hit \in DOMAIN wins :
              \/ W!press_close(b, p, hit) \/ W!press_maximise(b, p, hit)
              \/ W!press_minimise(b, p, hit) \/ W!press_frame(b, p, hit)
              \/ W!press_body(b, p, hit)
      BY <2>2 DEF W!press_window
    <3> QED
      BY <3>1, PressClose, PressMaximise, PressMinimise, PressFrame, PressBody
  <2> QED
    BY <2>1, <2>2, PressMenu, PressIgnored, PressTaskbar, PressDesktop
<1>2. CASE \E p \in Points : W!move(p)
  BY <1>2, Move
<1>3. CASE \E b \in {"LEFT", "RIGHT"} : W!release(b)
  BY <1>3, Release
<1> QED
  BY <1>1, <1>2, <1>3 DEF W!Next

(* A step that leaves the windows alone. *)
LEMMA WinStutter ==
  ASSUME WinInv, UNCHANGED wvars
  PROVE  WinInv'
<1>1. /\ wins' = wins /\ list' = list /\ open' = open /\ wm_menu' = wm_menu /\ icon' = icon
      /\ wm_drag' = wm_drag /\ saved' = saved /\ wm_buttons' = wm_buttons /\ ptr' = ptr
      /\ owner' = owner /\ before' = before
  BY DEF wvars
<1>2. /\ GoodWins(wins, list) /\ open \subseteq W!Single /\ wm_menu \in BOOLEAN
      /\ icon \in BOOLEAN /\ wm_buttons \subseteq {"LEFT", "RIGHT"}
      /\ wm_drag.win \in 0 .. Len(wins) /\ (wm_drag.mode = "NONE" <=> wm_drag.win = 0)
      /\ saved \in Geo /\ owner \in 0 .. MaxWindows /\ before \in [Wid -> Geo]
      /\ wins \in Seq(W!Window) /\ Grown(wins, wins)
  BY WinState, GrownSelf
<1>3. W!TitleWithinReach'
  BY <1>1, <1>2, GrownReach
<1>4. SavedGood'
  BY <1>1, DragTyped DEF SavedGood, W!Grabbable, W!Unset, W!Bottom
<1>5. DragGood'
  <2>1. wm_drag.mode # "NONE" =>
          DragOf(wm_drag, wins[wm_drag.win], ptr, wm_buttons, wm_menu)
    BY DEF WinInv, DragGood
  <2>2. wm_drag'.mode # "NONE" =>
          DragOf(wm_drag', wins'[wm_drag'.win], ptr', wm_buttons', wm_menu')
    BY <1>1, <2>1
  <2> QED
    BY <2>2 DEF DragGood
<1>6. ptr' \in Screen /\ Len(wins) <= Len(wins')
  BY <1>1, <1>2 DEF WinInv, WinTypes
<1> QED
  BY <1>1, <1>2, <1>3, <1>4, <1>5, <1>6, DragTyped, WinParts

LEMMA GuiWinStep ==
  ASSUME WinInv, [GuiNext]_<< part, vars, pvars, tvars, wvars, avars, fvars >>
  PROVE  WinInv' /\ (RestoreStep \/ UNCHANGED W!vars)
<1>1. (part = "windows" /\ W!Next) \/ UNCHANGED wvars
  BY DEF GuiNext
<1>2. CASE W!Next
  BY <1>2, WinNext
<1>3. CASE UNCHANGED wvars
  <2>1. UNCHANGED W!vars
    BY <1>3 DEF wvars, W!vars, W!ui, W!history
  <2> QED
    BY <1>3, <2>1, WinStutter
<1> QED
  BY <1>1, <1>2, <1>3

(* The inductive invariant of the windows holds throughout. *)
THEOREM GuiWinInvariance == GuiSpec => []WinInv
<1>1. GuiInit => WinInv
  BY WinInit DEF GuiInit
<1>2. WinInv /\ [GuiNext]_<< part, vars, pvars, tvars, wvars, avars, fvars >> => WinInv'
  BY GuiWinStep
<1> QED
  BY <1>1, <1>2, PTL DEF GuiSpec

LEMMA ListIsSound ==
  ASSUME WinInv
  PROVE  W!ListSound
<1>1. Order(list, Len(wins)) /\ Len(wins) \in Nat /\ Len(wins) <= MaxWindows
      /\ DOMAIN wins = 1 .. Len(wins) /\ wins \in Seq(W!Window)
  BY WinState DEF WinInv
<1>2. PICK s : /\ Chain(list, s) /\ Len(s) = Len(wins)
               /\ \A k \in 1 .. Len(wins) : s[k] \in 1 .. Len(wins)
               /\ \A w \in 1 .. Len(wins) : \E k \in 1 .. Len(wins) : s[k] = w
  BY <1>1 DEF Order
<1>3. W!InOrder(list) = s
  BY <1>1, <1>2, InOrderIs
<1>4. s \in Seq(Wid) /\ DOMAIN s = 1 .. Len(s)
  BY <1>2, ChainFacts
<1>5. W!Range(s) = DOMAIN wins
  <2>1. W!Range(s) = {s[k] : k \in DOMAIN s}
    BY DEF W!Range
  <2> QED
    BY <1>1, <1>2, <1>4, <2>1
<1>6. ASSUME NEW k \in 1 .. Len(s) - 1 PROVE list.prev[s[k + 1]] = s[k]
  <2>1. k + 1 \in 1 .. Len(s) /\ k + 1 # 1 /\ (k + 1) - 1 = k
    BY <1>1, <1>2
  <2>2. \A j \in 1 .. Len(s) : list.prev[s[j]] = Before(s, j)
    BY <1>2 DEF Chain
  <2>3. list.prev[s[k + 1]] = Before(s, k + 1)
    BY <2>1, <2>2
  <2> QED
    BY <2>1, <2>3 DEF Before
<1>7. Len(wins) >= 1
  BY <1>1 DEF WinInv
<1>8. list.tail = W!Last(s) /\ list.prev[Head(s)] = W!NoWin
  BY <1>2, <1>4, <1>7 DEF Chain, Before, W!Last, W!NoWin
<1> QED
  BY <1>2, <1>3, <1>5, <1>6, <1>8 DEF W!ListSound

(* The window list stays whole, only the front window has the keys, and no *)
(* window gets out of reach (WindowsSound).                                *)
THEOREM GuiWindowsSound == GuiSpec => []WindowsSound
<1>1. WinInv => WindowsSound
  BY ListIsSound DEF WindowsSound, WinInv
<1> QED
  BY <1>1, GuiWinInvariance, PTL

(* A window that leaves the full size by its maximise button takes the     *)
(* place it had (RestoreGivesBack).                                        *)
THEOREM GuiRestoreGivesBack == GuiSpec => RestoreGivesBack
<1>1. WinInv /\ [GuiNext]_<< part, vars, pvars, tvars, wvars, avars, fvars >>
        => [RestoreStep]_W!vars
  BY GuiWinStep
<1> QED
  BY <1>1, GuiWinInvariance, PTL DEF GuiSpec, RestoreGivesBack, W!RestoreGivesBack, RestoreStep

-----------------------------------------------------------------------------
(* The terminal and the shell. *)

Steps == {"prompt", "reset_len", "reset_ready", "install", "wait", "copy", "run", "asleep"}
Cells == T!Chars \cup {"NUL"}

TermTypes ==
  /\ g_line \in [1 .. LINE_MAX -> Cells] /\ g_line_len \in 0 .. LINE_MAX - 1
  /\ g_line_ready \in BOOLEAN /\ cb \in BOOLEAN /\ gui \in BOOLEAN /\ at \in Steps
  /\ n \in 0 .. SHELL_LINE_MAX - 1 /\ n <= LINE_MAX - 1 /\ i \in 0 .. n
  /\ buf \in Seq(Cells) /\ Len(buf) <= n
  /\ started \in BOOLEAN /\ edited \in BOOLEAN /\ pressed \in BOOLEAN /\ keys \in 0 .. MaxKeys
  /\ entered \in Seq(T!Chars) /\ shown \in Seq(Cells) /\ ghosts \in Seq(Cells)

(* No NUL is inside the line. *)
LineTyped(gl, len) == \A k \in 1 .. len : gl[k] \in T!Chars

(* The first len characters of a line begin with those of e. *)
Begins(e, gl, len) == Len(e) <= len /\ \A k \in 1 .. Len(e) : e[k] = gl[k]

(* What the screen shows, character by character. *)
Shows(sh, gh, gl, len) ==
  /\ Len(sh) = Len(gh) + len
  /\ \A k \in 1 .. Len(gh) : sh[k] = gh[k]
  /\ \A k \in 1 .. len : sh[Len(gh) + k] = gl[k]

(* The first b characters of s are those of e, as far as e goes. *)
Agrees(e, s, b) == \A k \in 1 .. b : k <= Len(e) => s[k] = e[k]

(* From Enter to the end of the copy the line begins with what was         *)
(* entered, and so does the copy: nothing is erased, nothing overwritten.  *)
EntryKept ==
  /\ at \in {"copy", "run"} => g_line_ready
  /\ at \in {"install", "wait", "copy"} /\ g_line_ready /\ ~edited =>
       Begins(entered, g_line, g_line_len)
  /\ at = "copy" => i = Len(buf)
  /\ at = "copy" /\ ~edited => /\ n >= Len(entered) \/ n = SHELL_LINE_MAX - 1
                               /\ Agrees(entered, buf, i)
  /\ at = "run" /\ ~edited => /\ Len(buf) >= Len(entered) \/ Len(buf) = SHELL_LINE_MAX - 1
                              /\ Agrees(entered, buf, Len(buf))

TermInv ==
  /\ TermTypes /\ LineTyped(g_line, g_line_len) /\ EntryKept
  /\ at \notin {"prompt", "reset_len"} => Shows(shown, ghosts, g_line, g_line_len)

LEMMA TermFacts ==
  /\ LINE_MAX \in Nat /\ 1 <= LINE_MAX /\ SHELL_LINE_MAX \in Nat /\ 1 <= SHELL_LINE_MAX
  /\ MaxKeys \in Nat /\ "NUL" \notin T!Chars /\ T!Chars \subseteq Cells /\ "NUL" \in Cells
<1>1. {LINE_MAX, SHELL_LINE_MAX} \subseteq Nat \ {0} /\ MaxKeys \in Nat /\ "NUL" \notin Letters
  BY GuiAssumption DEF T!TerminalAssumption
<1>2. "NUL" \notin T!Chars
  BY <1>1 DEF T!Chars, T!Blank, T!Quote
<1> QED
  BY <1>1, <1>2 DEF Cells

LEMMA CountIs ==
  ASSUME NEW len \in Nat
  PROVE  /\ T!count(len) \in 0 .. SHELL_LINE_MAX - 1 /\ T!count(len) <= len
         /\ T!count(len) = len \/ T!count(len) = SHELL_LINE_MAX - 1
<1>1. SHELL_LINE_MAX - 1 \in Nat
  BY TermFacts
<1>2. PICK x \in {len, SHELL_LINE_MAX - 1} : x <= len /\ x <= SHELL_LINE_MAX - 1
  <2>1. CASE len <= SHELL_LINE_MAX - 1
    BY <1>1, <2>1
  <2>2. CASE ~(len <= SHELL_LINE_MAX - 1)
    BY <1>1, <2>2
  <2> QED
    BY <2>1, <2>2
<1>3. \A y \in {len, SHELL_LINE_MAX - 1} : x <= y
  BY <1>2
<1>4. T!count(len) = CHOOSE z \in {len, SHELL_LINE_MAX - 1} :
                       \A y \in {len, SHELL_LINE_MAX - 1} : z <= y
  BY DEF T!count, T!Min
<1>5. /\ T!count(len) \in {len, SHELL_LINE_MAX - 1}
      /\ \A y \in {len, SHELL_LINE_MAX - 1} : T!count(len) <= y
  BY <1>3, <1>4, Zenon
<1> QED
  BY <1>1, <1>5

(* The least k up to c that is c or stands before a NUL in s. *)
LEMMA CutIs ==
  ASSUME NEW s, NEW c \in Nat
  PROVE  LET m == T!Min({k \in 0 .. c : k = c \/ s[k + 1] = "NUL"})
         IN  m \in 0 .. c /\ (m = c \/ s[m + 1] = "NUL")
<1> DEFINE Z == {k \in 0 .. c : k = c \/ s[k + 1] = "NUL"}
<1>1. c \in Z /\ Z \subseteq Nat
  OBVIOUS
<1> HIDE DEF Z
<1>2. \E x \in Z : \A y \in Z : x <= y
  BY <1>1, LeastIn
<1>3. T!Min(Z) \in Z
  BY <1>2, Zenon DEF T!Min
<1> QED
  BY <1>3 DEF Z

LEMMA FirstOf ==
  ASSUME NEW S, NEW s, NEW m \in Nat, \A k \in 1 .. m : s[k] \in S
  PROVE  /\ SubSeq(s, 1, m) \in Seq(S) /\ Len(SubSeq(s, 1, m)) = m
         /\ \A k \in 1 .. m : SubSeq(s, 1, m)[k] = s[k]
<1>1. /\ SubSeq(s, 1, m) \in Seq(S)
      /\ Len(SubSeq(s, 1, m)) = (IF 1 <= m THEN m - 1 + 1 ELSE 0)
      /\ \A k \in 1 .. m - 1 + 1 : SubSeq(s, 1, m)[k] = s[1 + k - 1]
  BY SubSeqProperties
<1>2. (IF 1 <= m THEN m - 1 + 1 ELSE 0) = m /\ m - 1 + 1 = m /\ \A k \in 1 .. m : 1 + k - 1 = k
  OBVIOUS
<1> QED
  BY <1>1, <1>2

LEMMA TermInit ==
  ASSUME T!Init
  PROVE  TermInv
<1>1. /\ g_line = [k \in 1 .. LINE_MAX |-> "NUL"] /\ g_line_len = 0 /\ g_line_ready = FALSE
      /\ cb = FALSE /\ gui = FALSE /\ at = "prompt" /\ n = 0 /\ i = 0 /\ buf = << >>
      /\ started = FALSE /\ shown = << >> /\ ghosts = << >> /\ entered = << >>
      /\ edited = FALSE /\ pressed = FALSE /\ keys = 0
  BY DEF T!Init
<1>2. Len(<< >>) = 0 /\ \A S : << >> \in Seq(S)
  OBVIOUS
<1>3. g_line \in [1 .. LINE_MAX -> Cells] /\ g_line_len \in 0 .. LINE_MAX - 1
  BY <1>1, TermFacts
<1>4. n \in 0 .. SHELL_LINE_MAX - 1 /\ n <= LINE_MAX - 1 /\ i \in 0 .. n /\ keys \in 0 .. MaxKeys
  BY <1>1, TermFacts
<1>5. buf \in Seq(Cells) /\ Len(buf) <= n /\ entered \in Seq(T!Chars) /\ shown \in Seq(Cells)
      /\ ghosts \in Seq(Cells)
  BY <1>1, <1>2
<1>6. TermTypes
  BY <1>1, <1>3, <1>4, <1>5 DEF TermTypes, Steps
<1>7. LineTyped(g_line, g_line_len) /\ EntryKept
  BY <1>1 DEF LineTyped, EntryKept
<1> QED
  BY <1>1, <1>6, <1>7 DEF TermInv

(* Writing a cell after the line's end. *)
LEMMA LineWritten ==
  ASSUME NEW gl \in [1 .. LINE_MAX -> Cells], NEW len \in 0 .. LINE_MAX - 1, NEW c \in Cells,
         NEW gz, gz = [gl EXCEPT ![len + 1] = c]
  PROVE  /\ gz \in [1 .. LINE_MAX -> Cells] /\ gz[len + 1] = c
         /\ \A k \in 1 .. len : gz[k] = gl[k]
<1>1. len + 1 \in 1 .. LINE_MAX /\ len \in Int
  BY TermFacts
<1>2. \A k \in 1 .. len : k \in 1 .. LINE_MAX /\ k # len + 1
  BY <1>1, TermFacts
<1> QED
  BY <1>1, <1>2

LEMMA BeginsKept ==
  ASSUME NEW e, NEW gl, NEW gz, NEW len \in Nat, NEW lz \in Nat, len <= lz, Begins(e, gl, len),
         Len(e) \in Nat, \A k \in 1 .. len : gz[k] = gl[k]
  PROVE  Begins(e, gz, lz)
BY DEF Begins

LEMMA ShowsKept ==
  ASSUME NEW sh, NEW gh, NEW gl, NEW gz, NEW len, Shows(sh, gh, gl, len),
         \A k \in 1 .. len : gz[k] = gl[k]
  PROVE  Shows(sh, gh, gz, len)
BY DEF Shows

(* A key while the line takes it. *)
LEMMA FeedEnter ==
  ASSUME TermInv, keys < MaxKeys, keys' = keys + 1, pressed' \in BOOLEAN,
         UNCHANGED << cb, gui, at, n, i, buf, started, ghosts >>,
         g_line' = [g_line EXCEPT ![g_line_len + 1] = "NUL"], g_line_ready' = TRUE,
         entered' = (IF g_line_ready THEN entered ELSE T!Line),
         edited' = (edited /\ g_line_ready), UNCHANGED << g_line_len, shown >>
  PROVE  TermInv'
<1>1. /\ g_line \in [1 .. LINE_MAX -> Cells] /\ g_line_len \in 0 .. LINE_MAX - 1
      /\ LineTyped(g_line, g_line_len) /\ g_line_len \in Nat /\ g_line_ready \in BOOLEAN
      /\ entered \in Seq(T!Chars) /\ edited \in BOOLEAN
  BY TermFacts DEF TermInv, TermTypes
<1>2. /\ g_line' \in [1 .. LINE_MAX -> Cells]
      /\ \A k \in 1 .. g_line_len : g_line'[k] = g_line[k]
  BY <1>1, LineWritten, TermFacts
<1>3. LineTyped(g_line', g_line_len)
  BY <1>1, <1>2 DEF LineTyped
<1>4. PICK ln : ln = T!Line
  OBVIOUS
<1>5. ln \in Seq(T!Chars) /\ Len(ln) = g_line_len /\ \A k \in 1 .. g_line_len : ln[k] = g_line[k]
  <2>1. ln = [k \in 1 .. g_line_len |-> g_line[k]]
    BY <1>4 DEF T!Line
  <2>2. \A k \in 1 .. g_line_len : g_line[k] \in T!Chars
    BY <1>1 DEF LineTyped
  <2> QED
    BY <1>1, <2>1, <2>2
<1>6. entered' \in Seq(T!Chars)
  BY <1>1, <1>4, <1>5
<1>7. TermTypes'
  <2>1. keys' \in 0 .. MaxKeys
    BY TermFacts DEF TermInv, TermTypes
  <2>2. edited' \in BOOLEAN
    OBVIOUS
  <2> QED
    BY <1>2, <1>6, <2>1, <2>2 DEF TermInv, TermTypes
<1>8. at \notin {"prompt", "reset_len"} => Shows(shown, ghosts, g_line', g_line_len)
  BY <1>2, ShowsKept DEF TermInv
<1>9. ASSUME at \in {"install", "wait", "copy"}, ~edited'
      PROVE  Begins(entered', g_line', g_line_len)
  <2>1. CASE g_line_ready
    <3>1. Begins(entered, g_line, g_line_len) /\ entered' = entered
      BY <1>9, <2>1 DEF TermInv, EntryKept
    <3>2. Len(entered) \in Nat
      BY <1>1
    <3> QED
      BY <1>1, <1>2, <3>1, <3>2 DEF Begins
  <2>2. CASE ~g_line_ready
    <3>1. entered' = ln
      BY <1>4, <2>2
    <3> QED
      BY <1>1, <1>2, <1>5, <3>1 DEF Begins
  <2> QED
    BY <1>1, <2>1, <2>2
<1>10. at \in {"copy", "run"} => entered' = entered /\ edited' = edited
  BY <1>1 DEF TermInv, EntryKept
<1>11. EntryKept'
  BY <1>9, <1>10 DEF TermInv, EntryKept
<1> QED
  BY <1>3, <1>7, <1>8, <1>11 DEF TermInv

LEMMA FeedErase ==
  ASSUME TermInv, keys < MaxKeys, keys' = keys + 1, pressed' \in BOOLEAN,
         UNCHANGED << cb, gui, at, n, i, buf, started, ghosts >>,
         g_line_len > 0, g_line_len' = g_line_len - 1,
         shown' = (IF shown = << >> THEN << >> ELSE T!Front(shown)),
         edited' = TRUE, UNCHANGED << g_line, g_line_ready, entered >>
  PROVE  TermInv'
<1>1. PICK len \in Nat : len = g_line_len' /\ g_line_len = len + 1 /\ len + 1 <= LINE_MAX - 1
  <2>1. g_line_len \in 0 .. LINE_MAX - 1
    BY DEF TermInv, TermTypes
  <2>2. g_line_len - 1 \in Nat /\ g_line_len = (g_line_len - 1) + 1
        /\ (g_line_len - 1) + 1 <= LINE_MAX - 1
    BY <2>1, TermFacts
  <2> QED
    BY <2>2
<1>2. shown \in Seq(Cells) /\ ghosts \in Seq(Cells) /\ LineTyped(g_line, len + 1)
  BY <1>1 DEF TermInv, TermTypes
<1>3. LineTyped(g_line, len)
  BY <1>1, <1>2 DEF LineTyped
<1>4. /\ shown' \in Seq(Cells)
      /\ shown # << >> => /\ Len(shown') = Len(shown) - 1
                          /\ \A k \in 1 .. Len(shown) - 1 : shown'[k] = shown[k]
  <2>1. CASE shown = << >>
    BY <2>1
  <2>2. CASE shown # << >>
    <3>1. PICK q \in Nat : Len(shown) = q + 1
      <4>1. Len(shown) \in Nat /\ Len(shown) # 0
        BY <1>2, <2>2
      <4>2. Len(shown) - 1 \in Nat /\ Len(shown) = (Len(shown) - 1) + 1
        BY <4>1
      <4> QED
        BY <4>2
    <3>2. (q + 1) - 1 = q
      BY <3>1
    <3>3. shown' = SubSeq(shown, 1, q)
      BY <2>2, <3>1, <3>2 DEF T!Front
    <3>4. \A k \in 1 .. q : shown[k] \in Cells
      BY <1>2, <3>1
    <3>5. /\ SubSeq(shown, 1, q) \in Seq(Cells) /\ Len(SubSeq(shown, 1, q)) = q
          /\ \A k \in 1 .. q : SubSeq(shown, 1, q)[k] = shown[k]
      BY <3>1, <3>4, FirstOf
    <3> QED
      BY <3>1, <3>2, <3>3, <3>5
  <2> QED
    BY <2>1, <2>2
<1>5. ASSUME Shows(shown, ghosts, g_line, len + 1)
      PROVE  Shows(shown', ghosts, g_line, len)
  <2>1. PICK g \in Nat : g = Len(ghosts)
    BY <1>2
  <2>2. /\ Len(shown) = g + (len + 1) /\ \A k \in 1 .. g : shown[k] = ghosts[k]
        /\ \A k \in 1 .. len + 1 : shown[g + k] = g_line[k]
    BY <1>5, <2>1 DEF Shows
  <2>3. shown # << >> /\ Len(shown) - 1 = g + len
    BY <1>1, <2>1, <2>2
  <2>4. Len(shown') = g + len /\ \A k \in 1 .. g + len : shown'[k] = shown[k]
    BY <1>4, <2>3
  <2>5. \A k \in 1 .. g : shown'[k] = ghosts[k]
    BY <1>1, <2>1, <2>2, <2>4
  <2>6. ASSUME NEW k \in 1 .. len PROVE shown'[g + k] = g_line[k]
    <3>1. g + k \in 1 .. g + len /\ k \in 1 .. len + 1
      BY <1>1, <2>1
    <3> QED
      BY <2>2, <2>4, <3>1
  <2> QED
    BY <2>1, <2>4, <2>5, <2>6 DEF Shows
<1>6. TermTypes'
  <2>1. keys' \in 0 .. MaxKeys
    BY TermFacts DEF TermInv, TermTypes
  <2>2. g_line_len' \in 0 .. LINE_MAX - 1
    BY <1>1, TermFacts
  <2> QED
    BY <1>4, <2>1, <2>2 DEF TermInv, TermTypes
<1>7. EntryKept'
  BY DEF TermInv, EntryKept
<1> QED
  BY <1>1, <1>3, <1>5, <1>6, <1>7 DEF TermInv

LEMMA FeedChar ==
  ASSUME TermInv, keys < MaxKeys, keys' = keys + 1, pressed' \in BOOLEAN,
         UNCHANGED << cb, gui, at, n, i, buf, started, ghosts >>,
         NEW c \in T!Chars, g_line_len < LINE_MAX - 1,
         g_line' = [g_line EXCEPT ![g_line_len + 1] = c], g_line_len' = g_line_len + 1,
         shown' = Append(shown, c), UNCHANGED << g_line_ready, entered, edited >>
  PROVE  TermInv'
<1>1. PICK len \in Nat : len = g_line_len /\ g_line_len' = len + 1 /\ len + 1 <= LINE_MAX - 1
  <2>1. g_line_len \in 0 .. LINE_MAX - 1
    BY DEF TermInv, TermTypes
  <2>2. g_line_len \in Nat /\ g_line_len + 1 <= LINE_MAX - 1
    BY <2>1, TermFacts
  <2> QED
    BY <2>2
<1>2. /\ g_line \in [1 .. LINE_MAX -> Cells] /\ len \in 0 .. LINE_MAX - 1 /\ c \in Cells
      /\ shown \in Seq(Cells) /\ ghosts \in Seq(Cells) /\ LineTyped(g_line, len)
      /\ entered \in Seq(T!Chars)
  BY <1>1, TermFacts DEF TermInv, TermTypes
<1>3. g_line' = [g_line EXCEPT ![len + 1] = c]
  BY <1>1
<1>4. /\ g_line' \in [1 .. LINE_MAX -> Cells] /\ g_line'[len + 1] = c
      /\ \A k \in 1 .. len : g_line'[k] = g_line[k]
  <2>1. len + 1 \in 1 .. LINE_MAX /\ \A k \in 1 .. len : k \in 1 .. LINE_MAX /\ k # len + 1
    BY <1>1, TermFacts
  <2> QED
    BY <1>2, <1>3, <2>1
<1>5. \A k \in 1 .. len + 1 : k \in 1 .. len \/ k = len + 1
  BY <1>1
<1>6. LineTyped(g_line', len + 1)
  BY <1>2, <1>4, <1>5 DEF LineTyped
<1>7. PICK s \in Nat : s = Len(shown)
  BY <1>2
<1>8. /\ shown' \in Seq(Cells) /\ Len(shown') = s + 1 /\ shown'[s + 1] = c
      /\ \A k \in 1 .. s : shown'[k] = shown[k]
  BY <1>2, <1>7, AppendProperties
<1>9. ASSUME Shows(shown, ghosts, g_line, len)
      PROVE  Shows(shown', ghosts, g_line', len + 1)
  <2>1. PICK g \in Nat : g = Len(ghosts)
    BY <1>2
  <2>2. /\ s = g + len /\ \A k \in 1 .. g : shown[k] = ghosts[k]
        /\ \A k \in 1 .. len : shown[g + k] = g_line[k]
    BY <1>7, <1>9, <2>1 DEF Shows
  <2>3. \A k \in 1 .. g : k \in 1 .. s
    BY <1>1, <1>7, <2>1, <2>2
  <2>4. \A k \in 1 .. g : shown'[k] = ghosts[k]
    BY <1>8, <2>2, <2>3
  <2>5. s + 1 = g + (len + 1)
    BY <1>1, <2>1, <2>2
  <2>6. ASSUME NEW k \in 1 .. len + 1 PROVE shown'[g + k] = g_line'[k]
    <3>1. CASE k \in 1 .. len
      <4>1. g + k \in 1 .. s
        BY <1>1, <2>1, <2>2, <3>1
      <4> QED
        BY <1>4, <1>8, <2>2, <3>1, <4>1
    <3>2. CASE k = len + 1
      BY <1>4, <1>8, <2>5, <3>2
    <3> QED
      BY <1>5, <3>1, <3>2
  <2> QED
    BY <1>8, <2>1, <2>4, <2>5, <2>6 DEF Shows
<1>10. TermTypes'
  <2>1. keys' \in 0 .. MaxKeys
    BY TermFacts DEF TermInv, TermTypes
  <2>2. g_line_len' \in 0 .. LINE_MAX - 1
    BY <1>1, TermFacts
  <2> QED
    BY <1>4, <1>8, <2>1, <2>2 DEF TermInv, TermTypes
<1>11. ASSUME Begins(entered, g_line, len)
       PROVE  Begins(entered, g_line', len + 1)
  <2>1. Len(entered) \in Nat /\ len + 1 \in Nat /\ len <= len + 1
    BY <1>1, <1>2
  <2> QED
    BY <1>1, <1>4, <1>11, <2>1, BeginsKept
<1>12. EntryKept'
  BY <1>1, <1>11 DEF TermInv, EntryKept
<1> QED
  BY <1>1, <1>6, <1>9, <1>10, <1>12 DEF TermInv

LEMMA FeedNothing ==
  ASSUME TermInv, keys < MaxKeys, keys' = keys + 1, pressed' \in BOOLEAN,
         UNCHANGED << cb, gui, at, n, i, buf, started, ghosts >>,
         UNCHANGED << g_line, g_line_len, g_line_ready, shown, entered, edited >>
  PROVE  TermInv'
<1>1. keys' \in 0 .. MaxKeys
  BY TermFacts DEF TermInv, TermTypes
<1>2. TermTypes'
  BY <1>1 DEF TermInv, TermTypes
<1>3. EntryKept'
  BY DEF TermInv, EntryKept
<1> QED
  BY <1>2, <1>3 DEF TermInv

LEMMA TermFeed ==
  ASSUME TermInv, NEW c \in T!KeyIn, T!terminal_feed(c)
  PROVE  TermInv'
<1>1. /\ keys < MaxKeys /\ keys' = keys + 1
      /\ UNCHANGED << cb, gui, at, n, i, buf, started, ghosts >>
      /\ pressed' = (pressed \/ (c = "Enter" /\ at = "wait"))
  BY DEF T!terminal_feed
<1>2. pressed' \in BOOLEAN
  BY <1>1 DEF TermInv, TermTypes
<1>3. \/ /\ g_line' = [g_line EXCEPT ![g_line_len + 1] = "NUL"]
         /\ g_line_ready' = TRUE
         /\ entered' = IF g_line_ready THEN entered ELSE T!Line
         /\ edited' = (edited /\ g_line_ready)
         /\ UNCHANGED << g_line_len, shown >>
      \/ /\ g_line_len > 0 /\ g_line_len' = g_line_len - 1
         /\ shown' = IF shown = << >> THEN << >> ELSE T!Front(shown)
         /\ edited' = TRUE
         /\ UNCHANGED << g_line, g_line_ready, entered >>
      \/ /\ c \in T!Chars /\ g_line_len < LINE_MAX - 1
         /\ g_line' = [g_line EXCEPT ![g_line_len + 1] = c]
         /\ g_line_len' = g_line_len + 1
         /\ shown' = Append(shown, c)
         /\ UNCHANGED << g_line_ready, entered, edited >>
      \/ UNCHANGED << g_line, g_line_len, g_line_ready, shown, entered, edited >>
  BY Zenon DEF T!terminal_feed, T!erases, T!has_room, T!line
<1> QED
  BY <1>1, <1>2, <1>3, FeedEnter, FeedErase, FeedChar, FeedNothing

(* The shell's thread outside of the copy. *)
LEMMA TermReads ==
  ASSUME TermInv,
         T!boot_gui \/ T!print_prompt \/ T!reset_ready \/ T!install \/ T!run_command
           \/ T!cmd_startx \/ T!wake_up
  PROVE  TermInv'
<1>1. /\ UNCHANGED << g_line, g_line_len, n, i, buf, ghosts, entered, edited, pressed, keys >>
      /\ cb' \in BOOLEAN /\ gui' \in BOOLEAN /\ started' \in BOOLEAN
  BY DEF TermInv, TermTypes, T!boot_gui, T!print_prompt, T!reset_ready, T!install,
         T!run_command, T!cmd_startx, T!wake_up, T!line, T!history
<1>2. at \in Steps /\ shown \in Seq(Cells) /\ g_line_ready \in BOOLEAN /\ << >> \in Seq(Cells)
  BY DEF TermInv, TermTypes
<1>3. /\ \/ at' = at /\ shown' = shown /\ g_line_ready' = g_line_ready
         \/ at' = "reset_len" /\ shown' = << >> /\ g_line_ready' = g_line_ready
         \/ at = "reset_ready" /\ at' = "install" /\ shown' = shown /\ g_line_ready' = FALSE
         \/ at = "install" /\ at' = "wait" /\ shown' = shown /\ g_line_ready' = g_line_ready
         \/ at' = "prompt" /\ shown' = shown /\ g_line_ready' = g_line_ready
         \/ at = "run" /\ at' = "asleep" /\ shown' = shown /\ g_line_ready' = g_line_ready
  BY Zenon DEF T!boot_gui, T!print_prompt, T!reset_ready, T!install,
               T!run_command, T!cmd_startx, T!wake_up, T!line, T!history, T!Step
<1>4. TermTypes'
  <2>1. at' \in Steps /\ shown' \in Seq(Cells) /\ g_line_ready' \in BOOLEAN
    BY <1>2, <1>3 DEF Steps
  <2> QED
    BY <1>1, <2>1 DEF TermInv, TermTypes
<1>5. EntryKept'
  BY <1>1, <1>3 DEF TermInv, EntryKept
<1>6. LineTyped(g_line, g_line_len)'
  BY <1>1 DEF TermInv
<1>7. at' \notin {"prompt", "reset_len"} => Shows(shown', ghosts', g_line', g_line_len')
  BY <1>1, <1>3 DEF TermInv
<1> QED
  BY <1>4, <1>5, <1>6, <1>7 DEF TermInv

LEMMA TermResetLen ==
  ASSUME TermInv, T!reset_len
  PROVE  TermInv'
<1>1. /\ at = "reset_len" /\ at' = "reset_ready" /\ g_line_len' = 0 /\ ghosts' = shown
      /\ UNCHANGED << g_line, g_line_ready, cb, gui, n, i, buf, started, shown, entered,
                      edited, pressed, keys >>
  BY DEF T!reset_len, T!Step
<1>2. TermTypes'
  BY <1>1, TermFacts DEF TermInv, TermTypes, Steps
<1>3. EntryKept' /\ LineTyped(g_line, g_line_len)'
  BY <1>1 DEF EntryKept, LineTyped
<1>4. Len(shown) \in Nat
  BY DEF TermInv, TermTypes
<1>5. Shows(shown, shown, g_line, 0)
  BY <1>4 DEF Shows
<1> QED
  BY <1>1, <1>2, <1>3, <1>5 DEF TermInv

LEMMA TermWaitEnded ==
  ASSUME TermInv, T!wait_ended
  PROVE  TermInv'
<1>1. /\ g_line_ready /\ at = "wait" /\ at' = "copy" /\ n' = T!count(g_line_len) /\ i' = 0
      /\ buf' = << >>
      /\ UNCHANGED << g_line, g_line_len, g_line_ready, cb, gui, started, shown, ghosts, entered,
                      edited, pressed, keys >>
  BY DEF T!wait_ended, T!Step, T!line, T!history
<1>2. g_line_len \in Nat /\ g_line_len <= LINE_MAX - 1 /\ entered \in Seq(T!Chars)
  BY TermFacts DEF TermInv, TermTypes
<1>3. PICK c \in 0 .. SHELL_LINE_MAX - 1 :
        n' = c /\ c <= g_line_len /\ (c = g_line_len \/ c = SHELL_LINE_MAX - 1)
  BY <1>1, <1>2, CountIs
<1>4. Len(<< >>) = 0 /\ << >> \in Seq(Cells)
  OBVIOUS
<1>5. c <= LINE_MAX - 1 /\ 0 \in 0 .. c /\ 0 <= c
  BY <1>2, <1>3, TermFacts
<1>6. TermTypes'
  BY <1>1, <1>3, <1>4, <1>5 DEF TermInv, TermTypes, Steps
<1>7. ASSUME ~edited
      PROVE  /\ Begins(entered, g_line, g_line_len)
             /\ c >= Len(entered) \/ c = SHELL_LINE_MAX - 1
  <2>1. Begins(entered, g_line, g_line_len)
    BY <1>1, <1>7 DEF TermInv, EntryKept
  <2>2. Len(entered) <= g_line_len
    BY <2>1 DEF Begins
  <2> QED
    BY <1>2, <1>3, <2>1, <2>2
<1>8. Agrees(entered, << >>, 0)
  BY DEF Agrees
<1>9. EntryKept'
  BY <1>1, <1>3, <1>4, <1>7, <1>8 DEF EntryKept
<1> QED
  BY <1>1, <1>6, <1>9 DEF TermInv

LEMMA TermCopyChar ==
  ASSUME TermInv, T!copy_char
  PROVE  TermInv'
<1>1. /\ at = "copy" /\ i < n /\ buf' = Append(buf, g_line[i + 1]) /\ i' = i + 1
      /\ UNCHANGED << g_line, g_line_len, g_line_ready, cb, gui, at, n, started, shown, ghosts,
                      entered, edited, pressed, keys >>
  BY DEF T!copy_char, T!line, T!history
<1>2. PICK b \in Nat : i = b /\ Len(buf) = b
  <2>1. i \in 0 .. n /\ n \in Nat /\ i = Len(buf)
    BY <1>1, TermFacts DEF TermInv, TermTypes, EntryKept
  <2> QED
    BY <2>1
<1>3. /\ n \in Nat /\ n <= SHELL_LINE_MAX - 1 /\ n <= LINE_MAX - 1 /\ b + 1 <= n
      /\ buf \in Seq(Cells) /\ g_line \in [1 .. LINE_MAX -> Cells] /\ entered \in Seq(T!Chars)
      /\ g_line_len \in Nat
  BY <1>1, <1>2, TermFacts DEF TermInv, TermTypes
<1>4. b + 1 \in 1 .. LINE_MAX
  BY <1>2, <1>3, TermFacts
<1>5. g_line[b + 1] \in Cells
  BY <1>3, <1>4
<1>6. PICK c \in Cells : c = g_line[b + 1]
  BY <1>5
<1>7. /\ buf' \in Seq(Cells) /\ Len(buf') = b + 1 /\ buf'[b + 1] = c
      /\ \A k \in 1 .. b : buf'[k] = buf[k]
  BY <1>1, <1>2, <1>3, <1>6, AppendProperties
<1>8. b + 1 \in 0 .. n /\ b + 1 <= n
  BY <1>2, <1>3
<1>9. TermTypes'
  BY <1>1, <1>2, <1>7, <1>8 DEF TermInv, TermTypes
<1>10. ASSUME ~edited
       PROVE  Agrees(entered, buf', b + 1)
  <2>1. Begins(entered, g_line, g_line_len) /\ Agrees(entered, buf, b)
    BY <1>1, <1>2, <1>10 DEF TermInv, EntryKept
  <2>2. SUFFICES ASSUME NEW k \in 1 .. b + 1, k <= Len(entered)
                 PROVE  buf'[k] = entered[k]
    BY DEF Agrees
  <2>3. CASE k \in 1 .. b
    BY <1>7, <2>1, <2>2, <2>3 DEF Agrees
  <2>4. CASE k = b + 1
    <3>1. k \in 1 .. Len(entered)
      BY <1>2, <1>3, <2>2
    <3> QED
      BY <1>6, <1>7, <2>1, <2>4, <3>1 DEF Begins
  <2> QED
    BY <1>2, <2>3, <2>4
<1>11. EntryKept'
  BY <1>1, <1>2, <1>7, <1>10 DEF TermInv, EntryKept
<1> QED
  BY <1>1, <1>9, <1>11 DEF TermInv

(* The copy is cut at a NUL only behind the entered line, which has none. *)
LEMMA TermCopyEnded ==
  ASSUME TermInv, T!copy_ended
  PROVE  TermInv'
<1>1. /\ i = n /\ at = "copy" /\ at' = "run"
      /\ buf' = SubSeq(buf, 1, T!Min({k \in 0 .. n : k = n \/ buf[k + 1] = "NUL"}))
      /\ pressed' = FALSE
      /\ UNCHANGED << g_line, g_line_len, g_line_ready, cb, gui, n, i, started, shown, ghosts,
                      entered, edited, keys >>
  BY DEF T!copy_ended, T!Step, T!line
<1>2. PICK b \in Nat : n = b /\ Len(buf) = b
  BY <1>1, TermFacts DEF TermInv, TermTypes, EntryKept
<1>3. buf \in Seq(Cells) /\ entered \in Seq(T!Chars)
  BY DEF TermInv, TermTypes
<1>4. PICK m \in 0 .. b : buf' = SubSeq(buf, 1, m) /\ (m = b \/ buf[m + 1] = "NUL")
  <2>1. buf' = SubSeq(buf, 1, T!Min({k \in 0 .. b : k = b \/ buf[k + 1] = "NUL"}))
    BY <1>1, <1>2
  <2> QED
    BY <1>2, <2>1, CutIs
<1>5. /\ buf' \in Seq(Cells) /\ Len(buf') = m /\ \A k \in 1 .. m : buf'[k] = buf[k]
  <2>1. m \in Nat /\ m <= b
    BY <1>2, <1>4
  <2>2. \A k \in 1 .. m : buf[k] \in Cells
    BY <1>2, <1>3, <2>1
  <2>3. /\ SubSeq(buf, 1, m) \in Seq(Cells) /\ Len(SubSeq(buf, 1, m)) = m
        /\ \A k \in 1 .. m : SubSeq(buf, 1, m)[k] = buf[k]
    BY ONLY <2>1, <2>2, FirstOf
  <2>4. buf' = SubSeq(buf, 1, m)
    BY <1>4
  <2> QED
    BY <2>3, <2>4
<1>6. TermTypes'
  <2>1. m <= b
    BY <1>2, <1>4
  <2> QED
    BY <1>1, <1>2, <1>5, <2>1 DEF TermInv, TermTypes, Steps
<1>7. ASSUME ~edited
      PROVE  /\ m >= Len(entered) \/ m = SHELL_LINE_MAX - 1
             /\ Agrees(entered, buf', m)
  <2>1. /\ b >= Len(entered) \/ b = SHELL_LINE_MAX - 1
        /\ Agrees(entered, buf, b)
    BY <1>1, <1>2, <1>7 DEF TermInv, EntryKept
  <2>2. Len(entered) \in Nat /\ \A k \in 1 .. Len(entered) : entered[k] \in T!Chars
    BY <1>3
  <2>3. Agrees(entered, buf', m)
    <3>1. \A k \in 1 .. m : k \in 1 .. b
      BY <1>2, <1>4
    <3> QED
      BY <1>5, <2>1, <3>1 DEF Agrees
  <2>4. CASE m = b
    BY <2>1, <2>3, <2>4
  <2>5. CASE m # b
    <3>1. buf[m + 1] = "NUL" /\ m + 1 \in 1 .. b
      BY <1>2, <1>4, <2>5
    <3>2. ASSUME m + 1 <= Len(entered) PROVE FALSE
      <4>1. m + 1 \in 1 .. Len(entered)
        BY <1>2, <1>4, <2>2, <3>2
      <4>2. buf[m + 1] = entered[m + 1]
        BY <2>1, <3>1, <3>2 DEF Agrees
      <4> QED
        BY <2>2, <3>1, <4>1, <4>2, TermFacts
    <3>3. m >= Len(entered)
      BY <1>2, <1>4, <2>2, <3>2
    <3> QED
      BY <2>3, <3>3
  <2> QED
    BY <2>4, <2>5
<1>8. EntryKept'
  BY <1>1, <1>5, <1>7 DEF TermInv, EntryKept
<1> QED
  BY <1>1, <1>6, <1>8 DEF TermInv

LEMMA TermStep ==
  ASSUME TermInv, T!Next
  PROVE  TermInv'
<1>1. \/ T!boot_gui \/ T!print_prompt \/ T!reset_ready \/ T!install \/ T!run_command
           \/ T!cmd_startx \/ T!wake_up
      \/ T!reset_len \/ T!wait_ended \/ T!copy_char \/ T!copy_ended
      \/ \E c \in T!KeyIn : T!terminal_feed(c)
  BY Zenon DEF T!Next, T!shell_run, T!terminal_readline
<1> QED
  BY <1>1, TermReads, TermResetLen, TermWaitEnded, TermCopyChar, TermCopyEnded, TermFeed

LEMMA TermSame ==
  ASSUME TermInv, UNCHANGED tvars
  PROVE  TermInv'
<1>1. UNCHANGED << g_line, g_line_len, g_line_ready, cb, gui, at, n, i, buf, started, shown,
                   ghosts, entered, edited, pressed, keys >>
  BY DEF tvars
<1> QED
  BY <1>1 DEF TermInv, TermTypes, EntryKept

LEMMA GuiTermStep ==
  ASSUME TermInv, [GuiNext]_<< part, vars, pvars, tvars, wvars, avars, fvars >>
  PROVE  TermInv'
<1>1. T!Next \/ UNCHANGED tvars
  BY Zenon DEF GuiNext
<1> QED
  BY <1>1, TermStep, TermSame

(* The types of the terminal and how its line, the screen and the shell's  *)
(* copy agree, whichever keys come between two steps of the shell.         *)
THEOREM GuiTermInvariance == GuiSpec => []TermInv
<1>1. GuiInit => TermInv
  BY TermInit DEF GuiInit
<1>2. TermInv /\ [GuiNext]_<< part, vars, pvars, tvars, wvars, avars, fvars >> => TermInv'
  BY GuiTermStep
<1> QED
  BY <1>1, <1>2, PTL DEF GuiSpec

LEMMA LeastOfTwo ==
  ASSUME NEW x \in Nat, NEW y \in Nat
  PROVE  /\ T!Min({x, y}) \in {x, y} /\ T!Min({x, y}) \in Nat
         /\ T!Min({x, y}) <= x /\ T!Min({x, y}) <= y
<1>1. PICK z \in {x, y} : z <= x /\ z <= y
  OBVIOUS
<1>2. \A u \in {x, y} : z <= u
  BY <1>1
<1>3. T!Min({x, y}) = CHOOSE u \in {x, y} : \A v \in {x, y} : u <= v
  BY DEF T!Min
<1>4. T!Min({x, y}) \in {x, y} /\ \A v \in {x, y} : T!Min({x, y}) <= v
  BY <1>2, <1>3, Zenon
<1> QED
  BY <1>4

LEMMA TermLine ==
  ASSUME TermInv
  PROVE  T!EnteredLineKept
<1>1. SUFFICES ASSUME at = "run", ~edited
               PROVE  T!IsPrefix(SubSeq(entered, 1, T!Min({Len(entered), SHELL_LINE_MAX - 1})),
                                 buf)
  BY DEF T!EnteredLineKept
<1>2. PICK e \in Nat : e = Len(entered)
  BY DEF TermInv, TermTypes
<1>3. PICK b \in Nat : b = Len(buf)
  BY DEF TermInv, TermTypes
<1>4. /\ b >= e \/ b = SHELL_LINE_MAX - 1
      /\ Agrees(entered, buf, b) /\ buf \in Seq(Cells) /\ entered \in Seq(T!Chars)
  BY <1>1, <1>2, <1>3 DEF TermInv, EntryKept, TermTypes
<1>5. PICK m \in Nat : m = T!Min({Len(entered), SHELL_LINE_MAX - 1}) /\ m <= e
                       /\ m <= SHELL_LINE_MAX - 1
  <2>1. SHELL_LINE_MAX - 1 \in Nat
    BY TermFacts
  <2> QED
    BY <1>2, <2>1, LeastOfTwo
<1>6. m <= b
  BY <1>4, <1>5, TermFacts
<1>7. PICK w : w = SubSeq(entered, 1, m)
  OBVIOUS
<1>8. w \in Seq(T!Chars) /\ Len(w) = m /\ \A k \in 1 .. m : w[k] = entered[k]
  <2>1. \A k \in 1 .. m : entered[k] \in T!Chars
    BY <1>2, <1>4, <1>5
  <2>2. /\ SubSeq(entered, 1, m) \in Seq(T!Chars) /\ Len(SubSeq(entered, 1, m)) = m
        /\ \A k \in 1 .. m : SubSeq(entered, 1, m)[k] = entered[k]
    BY <2>1, FirstOf
  <2> QED
    BY <1>7, <2>2
<1>9. \A k \in 1 .. m : k \in 1 .. b /\ k <= Len(entered)
  BY <1>2, <1>5, <1>6
<1>10. \A k \in 1 .. m : w[k] = buf[k]
  BY <1>4, <1>8, <1>9 DEF Agrees
<1>11. PICK x : x = SubSeq(buf, 1, m)
  OBVIOUS
<1>12. x \in Seq(Cells) /\ Len(x) = m /\ \A k \in 1 .. m : x[k] = buf[k]
  <2>1. \A k \in 1 .. m : buf[k] \in Cells
    BY <1>3, <1>4, <1>6
  <2>2. /\ SubSeq(buf, 1, m) \in Seq(Cells) /\ Len(SubSeq(buf, 1, m)) = m
        /\ \A k \in 1 .. m : SubSeq(buf, 1, m)[k] = buf[k]
    BY <2>1, FirstOf
  <2> QED
    BY <1>11, <2>2
<1>13. PICK y : y = SubSeq(w, 1, m)
  OBVIOUS
<1>14. y \in Seq(Cells) /\ Len(y) = m /\ \A k \in 1 .. m : y[k] = w[k]
  <2>1. \A k \in 1 .. m : w[k] \in Cells
    BY <1>8, TermFacts
  <2>2. /\ SubSeq(w, 1, m) \in Seq(Cells) /\ Len(SubSeq(w, 1, m)) = m
        /\ \A k \in 1 .. m : SubSeq(w, 1, m)[k] = w[k]
    BY <2>1, FirstOf
  <2> QED
    BY <1>13, <2>2
<1>15. y = x
  BY <1>10, <1>12, <1>14, SeqEqual
<1>16. T!IsPrefix(w, buf)
  BY <1>3, <1>6, <1>8, <1>11, <1>13, <1>15 DEF T!IsPrefix
<1> QED
  BY <1>5, <1>7, <1>16

LEMMA TermScreen ==
  ASSUME TermInv
  PROVE  T!ScreenShowsLine
<1>1. SUFFICES ASSUME at \notin {"prompt", "reset_len"}
               PROVE  shown = ghosts \o T!Line
  BY DEF T!ScreenShowsLine
<1>2. /\ Shows(shown, ghosts, g_line, g_line_len) /\ LineTyped(g_line, g_line_len)
      /\ g_line_len \in Nat /\ shown \in Seq(Cells) /\ ghosts \in Seq(Cells)
  BY <1>1, TermFacts DEF TermInv, TermTypes
<1>3. PICK ln : ln = T!Line
  OBVIOUS
<1>4. ln \in Seq(Cells) /\ Len(ln) = g_line_len /\ \A k \in 1 .. g_line_len : ln[k] = g_line[k]
  <2>1. ln = [k \in 1 .. g_line_len |-> g_line[k]]
    BY <1>3 DEF T!Line
  <2>2. \A k \in 1 .. g_line_len : g_line[k] \in Cells
    BY <1>2, TermFacts DEF LineTyped
  <2> QED
    BY <1>2, <2>1, <2>2
<1>5. PICK g \in Nat : g = Len(ghosts)
  BY <1>2
<1>6. PICK w : w = ghosts \o ln
  OBVIOUS
<1>7. /\ w \in Seq(Cells) /\ Len(w) = g + g_line_len
      /\ \A k \in 1 .. g + g_line_len : w[k] = IF k <= g THEN ghosts[k] ELSE ln[k - g]
  BY <1>2, <1>4, <1>5, <1>6, ConcatProperties
<1>8. /\ Len(shown) = g + g_line_len /\ \A k \in 1 .. g : shown[k] = ghosts[k]
      /\ \A k \in 1 .. g_line_len : shown[g + k] = g_line[k]
  BY <1>2, <1>5 DEF Shows
<1>9. ASSUME NEW k \in 1 .. g + g_line_len PROVE shown[k] = w[k]
  <2>1. CASE k <= g
    <3>1. k \in 1 .. g
      BY <2>1, <1>5
    <3> QED
      BY <1>7, <1>8, <2>1, <3>1
  <2>2. CASE ~(k <= g)
    <3>1. k - g \in 1 .. g_line_len /\ g + (k - g) = k
      BY <1>2, <1>5, <2>2
    <3>2. w[k] = ln[k - g]
      BY <1>7, <2>2
    <3> QED
      BY <1>4, <1>8, <3>1, <3>2
  <2> QED
    BY <2>1, <2>2
<1>10. shown = w
  BY <1>2, <1>7, <1>8, <1>9, SeqEqual
<1> QED
  BY <1>3, <1>6, <1>10

(* The shell runs the line that Enter ended, whatever is typed while it    *)
(* copies it (unless characters are erased), and the screen shows the line *)
(* being edited behind what was echoed before it was reset: for every      *)
(* length of the two buffers.                                              *)
THEOREM GuiLineIsRun == GuiSpec => []LineIsRun
<1>1. TermInv => LineIsRun
  BY TermLine, TermScreen DEF LineIsRun
<1> QED
  BY <1>1, GuiTermInvariance, PTL
=============================================================================
