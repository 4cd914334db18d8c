--------------------------- MODULE GuiInputProofs ----------------------------
(***************************************************************************)
(* Proofs about the input path.  Module GuiInput, for any ring of two      *)
(* slots or more, any buttons and any number of interrupts: the ring       *)
(* implements the bounded first-in first-out queue of module EventQueue,   *)
(* and a drag ends with the button that began it.  Module Ps2, for any     *)
(* keys, packets and number of them: the drivers tell the strokes and      *)
(* packets that were made, unless a byte of theirs went to somebody else.  *)
(***************************************************************************)
EXTENDS MCGui, Integers, SequenceTheorems, TLAPS

Press(e) == e.type = "DOWN" /\ "LEFT" \in e.buttons
NoUp(q) == \A y \in 1 .. Len(q) : q[y].type # "UP"

(* The kernel has LEFT down, or an UP was lost. *)
Settled == "LEFT" \in buttons \/ lostUp

(* With q in the ring and e taken from it: a drag d, the press e and each  *)
(* press in q is followed by an UP in the ring, unless it is settled.      *)
Followed(q, d, e, settled) ==
  /\ d /\ e.type # "UP" /\ NoUp(q) => settled
  /\ Press(e) /\ NoUp(q) => settled
  /\ \A y \in 1 .. Len(q) :
       Press(q[y]) /\ (\A j \in y + 1 .. Len(q) : q[j].type # "UP") => settled

PressesFollowed == Followed(Contents, drag, ev, Settled)

(* What the kernel has down is down on the device, but for what the        *)
(* interrupt under way has still to push.                                  *)
Caught ==
  /\ \A y \in 1 .. Len(irq) :
       /\ irq[y].op = "absolute" => Len(irq) = 1 /\ irq[y].arg = held
       /\ irq[y].op = "down" /\ irq[y].arg = "LEFT" => "LEFT" \in held
  /\ "LEFT" \in buttons /\ "LEFT" \notin held =>
       \E y \in 1 .. Len(irq) : \/ irq[y].op = "absolute"
                                \/ irq[y].op = "up" /\ irq[y].arg = "LEFT"

(* Every event waiting was written whole. *)
EventsWhole == \A y \in 1 .. Len(Contents) : Contents[y] \in Event

(* The inductive invariant. *)
IInv ==
  /\ TypeOK
  /\ EventsWhole
  /\ PressesFollowed
  /\ Caught
  /\ pc \in {"init", "init_locked"} => ~drag

-----------------------------------------------------------------------------
(* The ring. *)

Z == GUI_EVENT_QUEUE_SIZE

(* Wrapping once. *)
LEMMA Wrap ==
  ASSUME NEW x \in Nat, x < Z + Z
  PROVE  x % Z = IF x < Z THEN x ELSE x - Z
<1> USE SizeAssumption DEF Z
<1>1. ASSUME NEW y \in Nat, y < Z PROVE y % Z = y
  BY <1>1
<1>2. ASSUME Z <= x PROVE x % Z = (x - Z) % Z
  BY <1>2
<1> QED  BY <1>1, <1>2

(* How many events wait, and which. *)
LEMMA RingView ==
  ASSUME NEW h \in Slot, NEW t \in Slot
  PROVE  /\ (h + Z - t) % Z = IF t <= h THEN h - t ELSE h + Z - t
         /\ slot_after(h) = IF h = Z - 1 THEN 0 ELSE h + 1
         /\ \A y \in 1 .. Z :
              (t + y - 1) % Z = IF t + y <= Z THEN t + y - 1 ELSE t + y - 1 - Z
<1> USE SizeAssumption DEF Slot
<1>1. h \in 0 .. Z - 1 /\ t \in 0 .. Z - 1 /\ Z \in Nat /\ Z > 1
  BY DEF Z
<1>2. (h + Z - t) % Z = IF t <= h THEN h - t ELSE h + Z - t
  <2>1. h + Z - t \in Nat /\ h + Z - t < Z + Z
    BY <1>1
  <2> QED  BY <1>1, <2>1, Wrap
<1>3. (h + 1) % Z = IF h = Z - 1 THEN 0 ELSE h + 1
  <2>1. h + 1 \in Nat /\ h + 1 < Z + Z
    BY <1>1
  <2> QED  BY <1>1, <2>1, Wrap
<1>4. ASSUME NEW y \in 1 .. Z
      PROVE  (t + y - 1) % Z = IF t + y <= Z THEN t + y - 1 ELSE t + y - 1 - Z
  <2>1. t + y - 1 \in Nat /\ t + y - 1 < Z + Z
    BY <1>1
  <2> QED  BY <1>1, <2>1, Wrap
<1> QED  BY <1>2, <1>3, <1>4 DEF slot_after, Z

AnyEvent == Event \cup {NoEvent}

(* The slot the y-th event waiting is in. *)
At(t, y) == IF t + y <= Z THEN t + y - 1 ELSE t + y - 1 - Z
Count(h, t) == IF t <= h THEN h - t ELSE h + Z - t

RingOK == head \in Slot /\ tail \in Slot /\ slots \in [Slot -> AnyEvent]

View(h, t, sl) == [y \in 1 .. (h + Z - t) % Z |-> sl[(t + y - 1) % Z]]

(* The events waiting, by slot. *)
LEMMA ContentsView ==
  ASSUME NEW h \in Slot, NEW t \in Slot, NEW sl \in [Slot -> AnyEvent]
  PROVE  /\ View(h, t, sl) \in Seq(AnyEvent)
         /\ Len(View(h, t, sl)) = Count(h, t)
         /\ Count(h, t) \in 0 .. Z - 1
         /\ \A y \in 1 .. Count(h, t) :
              At(t, y) \in Slot /\ View(h, t, sl)[y] = sl[At(t, y)]
<1> DEFINE w == Count(h, t)
           v == View(h, t, sl)
<1>1. w \in 0 .. Z - 1 /\ Z \in Nat /\ Z > 1
  BY SizeAssumption DEF Count, Slot, Z
<1>2. (h + Z - t) % Z = w
  BY RingView DEF Count
<1>3. v = [y \in 1 .. w |-> sl[(t + y - 1) % Z]]
  BY <1>2 DEF View
<1>4. ASSUME NEW y \in 1 .. w
      PROVE  (t + y - 1) % Z = At(t, y) /\ At(t, y) \in Slot
  <2>1. y \in 1 .. Z
    BY <1>1
  <2>2. (t + y - 1) % Z = At(t, y)
    BY <2>1, RingView DEF At
  <2> QED  BY <1>1, <2>1, <2>2, SizeAssumption DEF At, Slot, Z
<1> HIDE DEF w, v
<1>5. v \in [1 .. w -> AnyEvent]
  BY <1>3, <1>4
<1>6. v \in Seq(AnyEvent) /\ Len(v) = w
  BY <1>1, <1>5, IsASeq, LenProperties
<1> QED  BY <1>1, <1>3, <1>4, <1>6 DEF w, v

LEMMA ContentsIsView ==
  Contents = View(head, tail, slots) /\ Contents' = View(head', tail', slots')
BY DEF Contents, Waiting, View, Z

(* gui_input_enqueue is the queue's Offer. *)
LEMMA EnqueueOffers ==
  ASSUME RingOK, NEW e \in Event, enqueue(e)
  PROVE  /\ RingOK' /\ Q!Offer(e)
         /\ Contents' = IF is_full(head, tail) THEN Contents ELSE Append(Contents, e)
<1> USE SizeAssumption
<1>1. Z \in Nat /\ Z > 1 /\ head \in 0 .. Z - 1 /\ tail \in 0 .. Z - 1
  BY DEF RingOK, Slot, Z
<1>2. slot_after(head) = IF head = Z - 1 THEN 0 ELSE head + 1
  BY RingView DEF RingOK
<1>3. is_full(head, tail) <=> Count(head, tail) = Z - 1
  BY <1>1, <1>2 DEF is_full, Count
<1>4. Len(Contents) = Count(head, tail) /\ Contents \in Seq(AnyEvent)
  BY ContentsView, ContentsIsView DEF RingOK
<1>5. CASE is_full(head, tail)
  <2>1. refused' = refused + 1 /\ UNCHANGED <<head, tail, slots>>
    BY <1>5 DEF enqueue
  <2>2. Contents' = Contents /\ RingOK'
    BY <2>1 DEF Contents, Waiting, RingOK
  <2>3. Q!Offer(e)
    BY <1>1, <1>3, <1>4, <1>5, <2>1, <2>2 DEF Q!Offer, Z
  <2> QED  BY <1>5, <2>2, <2>3
<1>6. CASE ~is_full(head, tail)
  <2>1. /\ slots' = [slots EXCEPT ![head] = e] /\ head' = slot_after(head)
        /\ tail' = tail /\ refused' = refused
    BY <1>6 DEF enqueue
  <2>2. RingOK'
    BY <1>1, <1>2, <2>1 DEF RingOK, AnyEvent, Slot, Z
  <2> DEFINE w == Count(head, tail)
             new == Append(Contents, e)
  <2>3. w \in 0 .. Z - 1 /\ w # Z - 1
    BY <1>3, <1>6, ContentsView DEF RingOK
  <2>4. Count(head', tail') = w + 1
    BY <1>1, <1>2, <2>1, <2>3 DEF Count
  <2>5. /\ Contents' \in Seq(AnyEvent) /\ Len(Contents') = w + 1
        /\ \A y \in 1 .. w + 1 : Contents'[y] = slots'[At(tail, y)]
    <3>1. /\ Contents' \in Seq(AnyEvent) /\ Len(Contents') = Count(head', tail')
          /\ \A y \in 1 .. Count(head', tail') :
               Contents'[y] = slots'[At(tail', y)]
      BY <2>2, ContentsView, ContentsIsView DEF RingOK
    <3> QED  BY <2>1, <2>4, <3>1
  <2>6. /\ new \in Seq(AnyEvent) /\ Len(new) = w + 1 /\ new[w + 1] = e
        /\ \A y \in 1 .. w : new[y] = Contents[y]
    BY <1>4, AppendProperties DEF AnyEvent
  <2>7. At(tail, w + 1) = head
    BY <1>1, <2>3 DEF At, Count
  <2>8. ASSUME NEW y \in 1 .. w
        PROVE  At(tail, y) \in Slot /\ At(tail, y) # head
               /\ Contents[y] = slots[At(tail, y)]
    <3>1. At(tail, y) # head
      BY <1>1, <2>3 DEF At, Count
    <3> QED  BY <3>1, ContentsView, ContentsIsView DEF RingOK
  <2>9. \A y \in 1 .. w + 1 : Contents'[y] = new[y]
    <3>1. \A y \in 1 .. w : Contents'[y] = new[y]
      BY <2>1, <2>3, <2>5, <2>6, <2>8 DEF RingOK
    <3>2. Contents'[w + 1] = new[w + 1]
      BY <1>1, <2>1, <2>3, <2>5, <2>6, <2>7 DEF RingOK, Slot
    <3> HIDE DEF w, new
    <3> QED  BY <1>1, <2>3, <3>1, <3>2
  <2> HIDE DEF w, new
  <2>10. Contents' = new
    BY <2>5, <2>6, <2>9, SeqEqual
  <2>11. Q!Offer(e)
    BY <1>1, <1>4, <2>1, <2>3, <2>10 DEF Q!Offer, w, new, Z
  <2> QED  BY <1>6, <2>2, <2>10, <2>11 DEF new
<1> QED  BY <1>5, <1>6

(* What gui_input_poll_event takes is the head of the queue. *)
LEMMA PollTakes ==
  ASSUME RingOK, ~is_empty(head, tail), tail' = slot_after(tail),
         head' = head, slots' = slots
  PROVE  /\ RingOK' /\ Contents # <<>> /\ slots[tail] = Head(Contents)
         /\ Contents' = Tail(Contents)
<1> USE SizeAssumption
<1>1. Z \in Nat /\ Z > 1 /\ head \in 0 .. Z - 1 /\ tail \in 0 .. Z - 1 /\ head # tail
  BY DEF RingOK, Slot, Z, is_empty
<1>2. tail' = IF tail = Z - 1 THEN 0 ELSE tail + 1
  BY RingView DEF RingOK
<1>3. RingOK'
  BY <1>1, <1>2 DEF RingOK, Slot, Z
<1> DEFINE w == Count(head, tail)
<1>4. w \in 1 .. Z - 1 /\ Count(head', tail') = w - 1 /\ At(tail, 1) = tail
  BY <1>1, <1>2 DEF Count, At
<1>5. /\ Contents \in Seq(AnyEvent) /\ Len(Contents) = w
      /\ \A y \in 1 .. w : Contents[y] = slots[At(tail, y)]
  BY ContentsView, ContentsIsView DEF RingOK
<1>6. /\ Contents' \in Seq(AnyEvent) /\ Len(Contents') = w - 1
      /\ \A y \in 1 .. w - 1 : Contents'[y] = slots[At(tail', y)]
  <2>1. /\ Contents' \in Seq(AnyEvent) /\ Len(Contents') = Count(head', tail')
        /\ \A y \in 1 .. Count(head', tail') : Contents'[y] = slots'[At(tail', y)]
    <3>1. head' \in Slot /\ tail' \in Slot /\ slots' \in [Slot -> AnyEvent]
      BY <1>3 DEF RingOK
    <3> QED  BY ONLY <3>1, ContentsView, ContentsIsView
  <2> QED  BY <1>4, <2>1
<1>7. \A y \in 1 .. w - 1 : At(tail', y) = At(tail, y + 1)
  BY <1>1, <1>2, <1>4 DEF At, Count
<1> HIDE DEF w
<1>8. /\ Contents # <<>> /\ Head(Contents) = Contents[1]
      /\ Tail(Contents) \in Seq(AnyEvent) /\ Len(Tail(Contents)) = w - 1
      /\ \A y \in 1 .. w - 1 : Tail(Contents)[y] = Contents[y + 1]
  BY <1>4, <1>5, HeadTailProperties
<1>9. \A y \in 1 .. w - 1 : Contents'[y] = Tail(Contents)[y]
  BY <1>4, <1>5, <1>6, <1>7, <1>8
<1>10. Contents' = Tail(Contents)
  BY <1>6, <1>8, <1>9, SeqEqual
<1> QED  BY <1>3, <1>4, <1>5, <1>8, <1>10

-----------------------------------------------------------------------------
(* Presses and releases. *)

LEMMA FollowedAppend ==
  ASSUME NEW q \in Seq(AnyEvent), NEW x \in AnyEvent, NEW d, NEW e, NEW ok, NEW now,
         Followed(q, d, e, ok), x.type = "UP" \/ (ok => now), Press(x) => now
  PROVE  Followed(Append(q, x), d, e, now)
<1> DEFINE r == Append(q, x)
<1>1. /\ Len(q) \in Nat /\ Len(r) = Len(q) + 1 /\ r[Len(q) + 1] = x
      /\ \A y \in 1 .. Len(q) : r[y] = q[y]
  BY AppendProperties
<1> HIDE DEF r
<1>2. NoUp(r) => NoUp(q) /\ x.type # "UP"
  BY <1>1 DEF NoUp
<1>3. ASSUME NEW y \in 1 .. Len(r), Press(r[y]),
             \A j \in y + 1 .. Len(r) : r[j].type # "UP"
      PROVE  now
  <2>1. CASE y = Len(q) + 1
    BY <1>1, <1>3, <2>1
  <2>2. CASE y \in 1 .. Len(q)
    <3>1. x.type # "UP" /\ \A j \in y + 1 .. Len(q) : q[j].type # "UP"
      BY <1>1, <1>3, <2>2
    <3>2. Press(q[y])
      BY <1>1, <1>3, <2>2
    <3> QED  BY <2>2, <3>1, <3>2 DEF Followed
  <2> QED  BY <1>1, <2>1, <2>2
<1>4. d /\ e.type # "UP" /\ NoUp(r) => now
  BY <1>2 DEF Followed
<1>5. Press(e) /\ NoUp(r) => now
  BY <1>2 DEF Followed
<1> QED  BY <1>3, <1>4, <1>5 DEF Followed, r

LEMMA FollowedTail ==
  ASSUME NEW q \in Seq(AnyEvent), q # <<>>, NEW d, NEW e, NEW ok,
         Followed(q, d, e, ok), e.type # "UP"
  PROVE  Followed(Tail(q), d, Head(q), ok)
<1> DEFINE r == Tail(q)
           x == Head(q)
<1>1. /\ Len(q) \in Nat /\ Len(q) >= 1 /\ Len(r) = Len(q) - 1 /\ x = q[1]
      /\ \A y \in 1 .. Len(r) : r[y] = q[y + 1]
  BY HeadTailProperties, LenProperties
<1> HIDE DEF r, x
<1>2. NoUp(r) => \A j \in 2 .. Len(q) : q[j].type # "UP"
  <2> SUFFICES ASSUME NoUp(r), NEW j \in 2 .. Len(q) PROVE q[j].type # "UP"
    OBVIOUS
  <2>1. j - 1 \in 1 .. Len(r) /\ r[j - 1] = q[j]
    BY <1>1
  <2> QED  BY <2>1 DEF NoUp
<1>3. NoUp(r) /\ x.type # "UP" => NoUp(q)
  BY <1>1, <1>2 DEF NoUp
<1>4. d /\ x.type # "UP" /\ NoUp(r) => ok
  BY <1>3 DEF Followed
<1>5. Press(x) /\ NoUp(r) => ok
  BY <1>1, <1>2 DEF Followed
<1>6. ASSUME NEW y \in 1 .. Len(r), Press(r[y]),
             \A j \in y + 1 .. Len(r) : r[j].type # "UP"
      PROVE  ok
  <2>1. y + 1 \in 1 .. Len(q) /\ Press(q[y + 1])
    BY <1>1, <1>6
  <2>2. ASSUME NEW j \in y + 2 .. Len(q) PROVE q[j].type # "UP"
    <3>1. j - 1 \in y + 1 .. Len(r) /\ j - 1 \in 1 .. Len(r) /\ r[j - 1] = q[j]
      BY <1>1
    <3> QED  BY <1>6, <3>1
  <2> QED  BY <1>1, <2>1, <2>2 DEF Followed
<1> QED  BY <1>4, <1>5, <1>6 DEF Followed, r, x

(* What gui_input_emit_mouse_button_changes pushes. *)
LEMMA EmittedCalls ==
  ASSUME NEW old \in SUBSET Buttons, NEW new \in SUBSET Buttons
  PROVE  LET calls == emit_button_changes(old, new) IN
         /\ calls \in Seq(PushCall) /\ Len(calls) <= 3
         /\ \A y \in 1 .. Len(calls) :
              /\ calls[y].op \in {"down", "up"}
              /\ calls[y].op = "down" => calls[y].arg \in new
         /\ "LEFT" \in old /\ "LEFT" \notin new =>
              \E y \in 1 .. Len(calls) : calls[y].op = "up" /\ calls[y].arg = "LEFT"
<1> DEFINE Asks == {c \in PushCall : /\ c.op \in {"down", "up"}
                                     /\ c.op = "down" => c.arg \in new}
           l == button_change("LEFT", old, new)
           r == button_change("RIGHT", old, new)
           m == button_change("MIDDLE", old, new)
           calls == emit_button_changes(old, new)
<1>1. ASSUME NEW b
      PROVE  /\ button_change(b, old, new) \in Seq(Asks)
             /\ Len(button_change(b, old, new)) <= 1
  <2>1. CASE (b \in old) = (b \in new)
    BY <2>1 DEF button_change
  <2>2. CASE (b \in old) # (b \in new)
    <3> DEFINE c == [op |-> IF b \in new THEN "down" ELSE "up", arg |-> b]
    <3>1. c \in PushCall /\ c.op \in {"down", "up"} /\ (c.op = "down" => c.arg \in new)
      BY <2>2 DEF PushCall
    <3>2. button_change(b, old, new) = <<c>>
      BY <2>2 DEF button_change
    <3> HIDE DEF c
    <3> QED  BY <3>1, <3>2
  <2> QED  BY <2>1, <2>2
<1>2. l \in Seq(Asks) /\ r \in Seq(Asks) /\ m \in Seq(Asks)
      /\ Len(l) <= 1 /\ Len(r) <= 1 /\ Len(m) <= 1
  BY <1>1
<1>3. "LEFT" \in old /\ "LEFT" \notin new => l = <<[op |-> "up", arg |-> "LEFT"]>>
  BY DEF button_change
<1>4. calls = l \o r \o m
  BY DEF emit_button_changes
<1> HIDE DEF Asks, l, r, m, calls
<1>5. /\ calls \in Seq(Asks) /\ Len(calls) = Len(l) + Len(r) + Len(m)
      /\ \A y \in 1 .. Len(l) : calls[y] = l[y]
  <2>1. l \o r \in Seq(Asks) /\ Len(l \o r) = Len(l) + Len(r)
        /\ \A y \in 1 .. Len(l) : (l \o r)[y] = l[y]
    BY <1>2
  <2> QED  BY <1>2, <1>4, <2>1
<1>6. calls \in Seq(PushCall) /\ Len(calls) <= 3
  <2>1. Asks \subseteq PushCall
    BY DEF Asks
  <2> QED  BY <1>2, <1>5, <2>1
<1>7. \A y \in 1 .. Len(calls) : calls[y] \in Asks
  BY <1>5
<1>8. "LEFT" \in old /\ "LEFT" \notin new =>
        1 \in 1 .. Len(calls) /\ calls[1].op = "up" /\ calls[1].arg = "LEFT"
  <2> SUFFICES ASSUME "LEFT" \in old, "LEFT" \notin new
               PROVE  1 \in 1 .. Len(calls) /\ calls[1].op = "up" /\ calls[1].arg = "LEFT"
    OBVIOUS
  <2>1. Len(l) = 1 /\ l[1] = [op |-> "up", arg |-> "LEFT"]
    BY <1>3
  <2>2. Len(r) \in Nat /\ Len(m) \in Nat
    BY <1>2
  <2>3. calls[1] = l[1] /\ 1 \in 1 .. Len(calls)
    BY <1>5, <2>1, <2>2
  <2> QED  BY <2>1, <2>3
<1> QED  BY <1>6, <1>7, <1>8 DEF calls, Asks

-----------------------------------------------------------------------------
(* The invariant. *)

LEMMA RingTyped == TypeOK => RingOK
BY DEF TypeOK, RingOK, AnyEvent

LEMMA InitInv == Init => IInv
<1> SUFFICES ASSUME Init PROVE IInv
  OBVIOUS
<1> USE SizeAssumption, MaxPacketsAssumption DEF Init
<1>1. TypeOK
  <2>1. /\ head \in Slot /\ tail \in Slot /\ packets \in 0 .. MaxPackets
        /\ slots \in [Slot -> Event \cup {NoEvent}]
        /\ irq \in Seq(PushCall) /\ Len(irq) <= 3
    BY DEF Slot
  <2> QED  BY <2>1 DEF TypeOK
<1>2. Contents = <<>>
  <2>1. Len(Contents) = 0 /\ Contents \in Seq(AnyEvent)
    BY <1>1, RingTyped, ContentsView, ContentsIsView DEF RingOK, Count
  <2> QED  BY <2>1, EmptySeq
<1>3. PressesFollowed
  BY <1>2 DEF PressesFollowed, Followed, Press, NoEvent
<1>4. Caught
  BY DEF Caught
<1> QED  BY <1>1, <1>2, <1>3, <1>4 DEF IInv, EventsWhole

(* The call an interrupt is about to make. *)
LEMMA HeadCall ==
  ASSUME TypeOK, irq # <<>>
  PROVE  /\ Head(irq) = irq[1] /\ Len(irq) \in 1 .. 3
         /\ Tail(irq) \in Seq(PushCall) /\ Len(Tail(irq)) = Len(irq) - 1
         /\ \A y \in 1 .. Len(irq) - 1 : Tail(irq)[y] = irq[y + 1]
         /\ Head(irq).op = "absolute" => Head(irq).arg \in SUBSET Buttons
         /\ Head(irq).op \in {"down", "up"} => Head(irq).arg \in Buttons
<1>1. irq \in Seq(PushCall) /\ Len(irq) <= 3 /\ Len(irq) \in Nat
  BY LenProperties DEF TypeOK
<1>2. /\ Head(irq) = irq[1] /\ Head(irq) \in PushCall /\ Len(irq) # 0
      /\ Tail(irq) \in Seq(PushCall) /\ Len(Tail(irq)) = Len(irq) - 1
      /\ \A y \in 1 .. Len(irq) - 1 : Tail(irq)[y] = irq[y + 1]
  BY <1>1, HeadTailProperties, EmptySeq
<1>3. /\ Head(irq).op = "absolute" => Head(irq).arg \in SUBSET Buttons
      /\ Head(irq).op \in {"down", "up"} => Head(irq).arg \in Buttons
  BY <1>2 DEF PushCall
<1> QED  BY <1>1, <1>2, <1>3

(* Pushing an event. *)
LEMMA EnqueueInv ==
  ASSUME IInv, NEW e \in Event, enqueue(e), drag' = drag, ev' = ev,
         e.type = "UP" \/ ("LEFT" \in buttons => "LEFT" \in buttons'),
         Press(e) => "LEFT" \in buttons'
  PROVE  /\ RingOK' /\ lostUp' \in BOOLEAN /\ refused' \in Nat
         /\ PressesFollowed' /\ EventsWhole'
<1>1. RingOK /\ lostUp \in BOOLEAN /\ refused \in Nat
  BY RingTyped DEF IInv, TypeOK
<1>2. /\ RingOK'
      /\ Contents' = IF is_full(head, tail) THEN Contents ELSE Append(Contents, e)
  BY <1>1, EnqueueOffers
<1>3. lostUp' \in BOOLEAN /\ refused' \in Nat
  <2>1. lostUp' \in BOOLEAN
    BY <1>1, Zenon DEF enqueue
  <2>2. refused' \in Nat
    BY <1>1, SMT DEF enqueue
  <2> QED  BY <2>1, <2>2
<1>4. Followed(Contents, drag, ev, Settled)
  BY DEF IInv, PressesFollowed
<1>5. CASE is_full(head, tail)
  <2>1. Settled => Settled'
    BY <1>5 DEF enqueue, Settled
  <2>2. Followed(Contents, drag, ev, Settled')
    BY <1>4, <2>1 DEF Followed
  <2> QED  BY <1>2, <1>3, <1>5, <2>2 DEF PressesFollowed, IInv, EventsWhole
<1>6. CASE ~is_full(head, tail)
  <2>1. e.type = "UP" \/ (Settled => Settled')
    BY <1>6 DEF enqueue, Settled
  <2>2. Press(e) => Settled'
    BY DEF Settled
  <2>3. Contents \in Seq(AnyEvent) /\ e \in AnyEvent
    BY <1>1, ContentsView, ContentsIsView DEF RingOK, AnyEvent
  <2>4. Followed(Append(Contents, e), drag, ev, Settled')
    BY <1>4, <2>1, <2>2, <2>3, FollowedAppend
  <2>5. EventsWhole'
    BY <1>2, <1>6, <2>3, AppendProperties, LenProperties DEF IInv, EventsWhole
  <2> QED  BY <1>2, <1>3, <1>6, <2>4, <2>5 DEF PressesFollowed
<1> QED  BY <1>5, <1>6

(* What the interrupt has left to push after a call that is not the packet *)
(* itself.                                                                 *)
LEMMA CaughtTail ==
  ASSUME TypeOK, Caught, irq # <<>>, irq' = Tail(irq), held' = held,
         Head(irq).op # "absolute",
         "LEFT" \in buttons' =>
           \/ "LEFT" \in held
           \/ "LEFT" \in buttons /\ ~(Head(irq).op = "up" /\ Head(irq).arg = "LEFT")
  PROVE  Caught'
<1>1. /\ Head(irq) = irq[1] /\ Len(irq) \in Nat /\ Len(irq') = Len(irq) - 1
      /\ \A y \in 1 .. Len(irq') : irq'[y] = irq[y + 1]
  BY HeadCall
<1>2. ASSUME NEW y \in 1 .. Len(irq')
      PROVE  /\ irq'[y].op # "absolute"
             /\ irq'[y].op = "down" /\ irq'[y].arg = "LEFT" => "LEFT" \in held'
  <2>1. y + 1 \in 1 .. Len(irq) /\ Len(irq) # 1
    BY <1>1
  <2> QED  BY <1>1, <2>1 DEF Caught
<1>3. ASSUME "LEFT" \in buttons', "LEFT" \notin held'
      PROVE  \E y \in 1 .. Len(irq') : irq'[y].op = "up" /\ irq'[y].arg = "LEFT"
  <2>1. "LEFT" \in buttons /\ ~(irq[1].op = "up" /\ irq[1].arg = "LEFT")
    BY <1>1, <1>3
  <2>2. PICK y \in 1 .. Len(irq) : \/ irq[y].op = "absolute"
                                   \/ irq[y].op = "up" /\ irq[y].arg = "LEFT"
    BY <1>3, <2>1 DEF Caught
  <2>3. y # 1
    BY <1>1, <2>1, <2>2
  <2>4. irq[y].op # "absolute"
    <3>1. Len(irq) # 1
      BY <1>1, <2>3
    <3> QED  BY <3>1 DEF Caught
  <2>5. y - 1 \in 1 .. Len(irq') /\ irq'[y - 1] = irq[y]
    BY <1>1, <2>3
  <2> QED  BY <2>2, <2>4, <2>5
<1> QED  BY <1>2, <1>3 DEF Caught

LEMMA ArrivalInv ==
  ASSUME IInv, (\E b \in SUBSET Buttons : mouse_isr(b))
                 \/ \E op \in {"key_down", "key_up"} : kbd_isr(op)
  PROVE  IInv'
<1>1. PICK call \in PushCall :
        /\ irq = <<>> /\ irq' = <<call>>
        /\ packets' = packets + 1 /\ packets < MaxPackets
        /\ held' \subseteq Buttons
        /\ \/ call.op = "absolute" /\ call.arg = held'
           \/ call.op \in {"key_down", "key_up"} /\ held' = held
        /\ UNCHANGED <<lock, ring, buttons, wm, lostUp>>
  <2>1. ASSUME NEW b \in SUBSET Buttons, mouse_isr(b)
        PROVE  /\ [op |-> "absolute", arg |-> b] \in PushCall
               /\ irq = <<>> /\ irq' = <<[op |-> "absolute", arg |-> b]>>
               /\ packets' = packets + 1 /\ packets < MaxPackets /\ held' = b
               /\ UNCHANGED <<lock, ring, buttons, wm, lostUp>>
    BY <2>1 DEF mouse_isr, Arrives, PushCall
  <2>2. ASSUME NEW op \in {"key_down", "key_up"}, kbd_isr(op)
        PROVE  /\ [op |-> op, arg |-> {}] \in PushCall
               /\ irq = <<>> /\ irq' = <<[op |-> op, arg |-> {}]>>
               /\ packets' = packets + 1 /\ packets < MaxPackets /\ held' = held
               /\ held \subseteq Buttons
               /\ UNCHANGED <<lock, ring, buttons, wm, lostUp>>
    BY <2>2 DEF kbd_isr, Arrives, PushCall, IInv, TypeOK
  <2>3. CASE \E b \in SUBSET Buttons : mouse_isr(b)
    <3>1. PICK b \in SUBSET Buttons : mouse_isr(b)
      BY <2>3
    <3> DEFINE c == [op |-> "absolute", arg |-> b]
    <3>2. c \in PushCall /\ c.op = "absolute" /\ c.arg = b
      BY <2>1, <3>1
    <3> QED  BY <2>1, <3>1, <3>2
  <2>4. CASE \E op \in {"key_down", "key_up"} : kbd_isr(op)
    <3>1. PICK op \in {"key_down", "key_up"} : kbd_isr(op)
      BY <2>4
    <3> DEFINE c == [op |-> op, arg |-> {}]
    <3>2. c \in PushCall /\ c.op = op
      BY <2>2, <3>1
    <3> QED  BY <2>2, <3>1, <3>2
  <2> QED  BY <2>3, <2>4
<1>2. irq' \in Seq(PushCall) /\ Len(irq') = 1 /\ irq'[1] = call
  BY <1>1
<1>3. TypeOK'
  <2>1. packets' \in 0 .. MaxPackets
    BY <1>1, MaxPacketsAssumption DEF IInv, TypeOK
  <2> QED  BY <1>1, <1>2, <2>1 DEF IInv, TypeOK, ring, wm
<1>4. Contents' = Contents
  BY <1>1 DEF Contents, Waiting, ring
<1>5. PressesFollowed'
  BY <1>1, <1>4 DEF IInv, PressesFollowed, Settled, wm
<1>6. Caught'
  <2>1. "LEFT" \in buttons => "LEFT" \in held
    BY <1>1 DEF IInv, Caught
  <2> QED  BY <1>1, <1>2, <2>1 DEF Caught
<1> QED  BY <1>1, <1>3, <1>4, <1>5, <1>6 DEF IInv, EventsWhole, wm

(* The parts of the state the interrupts' calls leave alone. *)
PushFrame == UNCHANGED <<lock, wm, held, packets>>

LEMMA PushInv ==
  ASSUME IInv, NEW e \in Event, enqueue(e), PushFrame, irq # <<>>,
         buttons' \subseteq Buttons, irq' \in Seq(PushCall), Len(irq') <= 3, Caught',
         e.type = "UP" \/ ("LEFT" \in buttons => "LEFT" \in buttons'),
         Press(e) => "LEFT" \in buttons'
  PROVE  IInv'
<1>1. drag' = drag /\ ev' = ev /\ pc' = pc
  BY DEF PushFrame, wm
<1>2. /\ RingOK' /\ lostUp' \in BOOLEAN /\ refused' \in Nat
      /\ PressesFollowed' /\ EventsWhole'
  BY <1>1, EnqueueInv
<1>3. TypeOK'
  BY <1>2 DEF IInv, TypeOK, RingOK, AnyEvent, PushFrame, wm
<1> QED  BY <1>1, <1>2, <1>3 DEF IInv

LEMMA PushAbsoluteInv ==
  ASSUME IInv, push_mouse_absolute
  PROVE  IInv'
<1> DEFINE e == [type |-> "MOVE", buttons |-> Head(irq).arg]
<1>1. /\ TypeOK /\ Caught /\ irq # <<>> /\ Head(irq).op = "absolute"
      /\ enqueue(e) /\ PushFrame /\ buttons' = buttons
      /\ irq' = emit_button_changes(buttons, Head(irq).arg)
  BY DEF IInv, push_mouse_absolute, Pushes, PushFrame
<1>2. /\ Head(irq).arg \in SUBSET Buttons /\ Head(irq).arg = held
      /\ buttons \in SUBSET Buttons
  BY <1>1, HeadCall DEF Caught, TypeOK
<1>3. e \in Event /\ e.type = "MOVE"
  BY <1>2 DEF Event, EventType
<1>4. /\ irq' \in Seq(PushCall) /\ Len(irq') <= 3
      /\ \A y \in 1 .. Len(irq') :
           /\ irq'[y].op \in {"down", "up"}
           /\ irq'[y].op = "down" => irq'[y].arg \in held
      /\ "LEFT" \in buttons /\ "LEFT" \notin held =>
           \E y \in 1 .. Len(irq') : irq'[y].op = "up" /\ irq'[y].arg = "LEFT"
  BY <1>1, <1>2, EmittedCalls
<1>5. Caught'
  <2>1. held' = held
    BY <1>1 DEF PushFrame
  <2> QED  BY <1>1, <1>4, <2>1 DEF Caught
<1> HIDE DEF e
<1> QED  BY <1>1, <1>2, <1>3, <1>4, <1>5, PushInv DEF Press

(* A press, a release or a key. *)
LEMMA PushTailInv ==
  ASSUME IInv, NEW type \in EventType, NEW after \in SUBSET Buttons,
         irq # <<>>, Head(irq).op # "absolute",
         enqueue([type |-> type, buttons |-> after]), PushFrame,
         buttons' = after, irq' = Tail(irq),
         type = "UP" \/ ("LEFT" \in buttons => "LEFT" \in after),
         "LEFT" \in after =>
           \/ "LEFT" \in held
           \/ "LEFT" \in buttons /\ ~(Head(irq).op = "up" /\ Head(irq).arg = "LEFT")
  PROVE  IInv'
<1> DEFINE e == [type |-> type, buttons |-> after]
<1>1. e \in Event /\ e.type = type /\ e.buttons = after
  BY DEF Event
<1>2. TypeOK /\ Caught /\ held' = held
  BY DEF IInv, PushFrame
<1>3. Caught'
  BY <1>2, CaughtTail
<1>4. irq' \in Seq(PushCall) /\ Len(irq') <= 3
  BY <1>2, HeadCall
<1>5. enqueue(e)
  OBVIOUS
<1> HIDE DEF e
<1> QED  BY <1>1, <1>3, <1>4, <1>5, PushInv DEF Press

LEMMA PushButtonInv ==
  ASSUME IInv, push_mouse_down \/ push_mouse_up
  PROVE  IInv'
<1>1. TypeOK /\ Caught /\ buttons \subseteq Buttons
  BY DEF IInv, TypeOK
<1>2. CASE push_mouse_down
  <2> DEFINE after == buttons \cup {Head(irq).arg}
  <2>1. /\ irq # <<>> /\ Head(irq).op = "down" /\ PushFrame
        /\ buttons' = after /\ irq' = Tail(irq)
        /\ enqueue([type |-> "DOWN", buttons |-> after])
    BY <1>2 DEF push_mouse_down, push_mouse_button, Pushes, PushFrame
  <2>2. after \in SUBSET Buttons
    BY <1>1, <2>1, HeadCall
  <2>3. "LEFT" \in after => "LEFT" \in held \/ "LEFT" \in buttons
    <3>1. Head(irq).arg = "LEFT" => "LEFT" \in held
      BY <1>1, <2>1, HeadCall DEF Caught
    <3> QED  BY <3>1
  <2>4. "DOWN" \in EventType /\ ("LEFT" \in buttons => "LEFT" \in after)
    BY DEF EventType
  <2> HIDE DEF after
  <2> QED  BY <2>1, <2>2, <2>3, <2>4, PushTailInv
<1>3. CASE push_mouse_up
  <2> DEFINE after == buttons \ {Head(irq).arg}
  <2>1. /\ irq # <<>> /\ Head(irq).op = "up" /\ PushFrame
        /\ buttons' = after /\ irq' = Tail(irq)
        /\ enqueue([type |-> "UP", buttons |-> after])
    BY <1>3 DEF push_mouse_up, push_mouse_button, Pushes, PushFrame
  <2>2. after \in SUBSET Buttons
    BY <1>1
  <2>3. "LEFT" \in after => "LEFT" \in buttons /\ Head(irq).arg # "LEFT"
    OBVIOUS
  <2>4. "UP" \in EventType
    BY DEF EventType
  <2> HIDE DEF after
  <2> QED  BY <2>1, <2>2, <2>3, <2>4, PushTailInv
<1> QED  BY <1>2, <1>3

LEMMA PushKeyInv ==
  ASSUME IInv, NEW op \in {"key_down", "key_up"}, NEW type \in {"KEY_DOWN", "KEY_UP"},
         push_key(op, type)
  PROVE  IInv'
<1>1. /\ irq # <<>> /\ Head(irq).op = op /\ PushFrame
      /\ buttons' = buttons /\ irq' = Tail(irq)
      /\ enqueue([type |-> type, buttons |-> buttons])
  BY DEF push_key, Pushes, PushFrame
<1>2. TypeOK /\ Caught /\ buttons \in SUBSET Buttons
  BY DEF IInv, TypeOK
<1>3. type \in EventType /\ op \notin {"absolute", "up"}
  BY DEF EventType
<1> QED  BY <1>1, <1>2, <1>3, PushTailInv

(* Steps of the thread that leave the ring, the mouse and its own work     *)
(* alone.                                                                  *)
LEMMA LockInv ==
  ASSUME IInv, init_lock \/ redraw_lock \/ poll_lock \/ get_mouse_state
  PROVE  IInv'
<1>1. /\ UNCHANGED <<ring, buttons, irq, ev, drag, menu, held, packets, lostUp>>
      /\ lock' \in {"free", "wm"} /\ pc # "handle"
      /\ pc' \in {"init_locked", "redraw_locked", "poll_locked", "poll"}
      /\ pc' = "init_locked" => pc = "init"
  BY DEF init_lock, redraw_lock, poll_lock, get_mouse_state, spin_lock, Thread
<1>2. TypeOK'
  BY <1>1 DEF IInv, TypeOK, ring
<1>3. PressesFollowed'
  BY <1>1 DEF IInv, PressesFollowed, Contents, Waiting, Settled, ring
<1>4. Caught' /\ Contents' = Contents
  BY <1>1 DEF IInv, Caught, Contents, Waiting, ring
<1> QED  BY <1>1, <1>2, <1>3, <1>4 DEF IInv, EventsWhole

(* An empty ring. *)
LEMMA EmptyRing ==
  ASSUME NEW h \in Slot, NEW sl \in [Slot -> AnyEvent]
  PROVE  View(h, h, sl) = <<>>
<1>1. Count(h, h) = 0
  BY SizeAssumption DEF Count, Slot
<1>2. View(h, h, sl) \in Seq(AnyEvent) /\ Len(View(h, h, sl)) = 0
  BY <1>1, ContentsView
<1> QED  BY <1>2, EmptySeq

LEMMA GuiInputInitInv ==
  ASSUME IInv, gui_input_init
  PROVE  IInv' /\ Contents' = <<>>
<1>1. /\ irq = <<>> /\ pc = "init_locked"
      /\ buttons' = {} /\ head' = 0 /\ tail' = 0 /\ lock' = "free" /\ pc' = "redraw"
      /\ UNCHANGED <<slots, refused, irq, ev, drag, menu, held, packets, lostUp>>
  BY DEF gui_input_init, Thread
<1>2. TypeOK'
  <2>1. 0 \in Slot
    BY SizeAssumption DEF Slot
  <2> QED  BY <1>1, <2>1 DEF IInv, TypeOK
<1>3. Contents' = <<>>
  <2>1. head' \in Slot /\ tail' = head' /\ slots' \in [Slot -> AnyEvent]
    BY <1>1, <1>2 DEF TypeOK, AnyEvent
  <2> QED  BY <2>1, EmptyRing, ContentsIsView
<1>4. PressesFollowed'
  <2>1. ~drag /\ ev = NoEvent
    BY <1>1 DEF IInv, TypeOK
  <2> QED  BY <1>1, <1>3, <2>1 DEF PressesFollowed, Followed, Press, NoEvent
<1>5. Caught'
  BY <1>1 DEF IInv, Caught
<1> QED  BY <1>1, <1>2, <1>3, <1>4, <1>5 DEF IInv, EventsWhole

LEMMA PollEventInv ==
  ASSUME IInv, poll_event
  PROVE  IInv'
<1>1. /\ TypeOK /\ Caught /\ PressesFollowed /\ EventsWhole /\ RingOK
      /\ pc = "poll_locked"
      /\ ev = NoEvent
      /\ lock' = "free"
      /\ UNCHANGED <<head, slots, refused, buttons, irq, drag, menu, held,
                     packets, lostUp>>
  BY RingTyped DEF IInv, poll_event, Thread, TypeOK
<1>2. Caught'
  BY <1>1 DEF Caught
<1>3. CASE is_empty(head, tail)
  <2>1. pc' = "poll" /\ ev' = ev /\ tail' = tail
    BY <1>3 DEF poll_event
  <2>2. TypeOK'
    BY <1>1, <2>1 DEF TypeOK
  <2>3. PressesFollowed' /\ EventsWhole'
    BY <1>1, <2>1 DEF PressesFollowed, EventsWhole, Contents, Waiting, Settled
  <2> QED  BY <1>2, <2>1, <2>2, <2>3 DEF IInv
<1>4. CASE ~is_empty(head, tail)
  <2>1. pc' = "handle" /\ ev' = slots[tail] /\ tail' = slot_after(tail)
    BY <1>4 DEF poll_event
  <2>2. /\ RingOK' /\ Contents # <<>> /\ ev' = Head(Contents)
        /\ Contents' = Tail(Contents)
    BY <1>1, <1>4, <2>1, PollTakes
  <2>3. Contents \in Seq(AnyEvent)
    BY <1>1, ContentsView, ContentsIsView DEF RingOK
  <2>4. PressesFollowed'
    <3>1. ev.type # "UP"
      BY <1>1 DEF NoEvent
    <3>2. Followed(Tail(Contents), drag, Head(Contents), Settled)
      BY <1>1, <2>2, <2>3, <3>1, FollowedTail DEF PressesFollowed
    <3> QED  BY <1>1, <2>2, <3>2 DEF PressesFollowed, Settled
  <2>5. ev' \in Event /\ EventsWhole'
    BY <1>1, <2>2, <2>3, HeadTailProperties, LenProperties DEF EventsWhole
  <2>6. TypeOK'
    BY <1>1, <2>1, <2>2, <2>5 DEF TypeOK, RingOK, AnyEvent, Event, NoEvent, EventType
  <2> QED  BY <1>2, <2>1, <2>4, <2>5, <2>6 DEF IInv
<1> QED  BY <1>3, <1>4

LEMMA HandleInv ==
  ASSUME IInv, NEW dirty \in BOOLEAN, Handle(dirty),
         drag' \in BOOLEAN, menu' \in BOOLEAN, lostUp' \in BOOLEAN,
         lostUp => lostUp',
         drag' => drag \/ Press(ev),
         ev.type = "UP" => lostUp' \/ ~drag'
  PROVE  IInv'
<1>1. /\ TypeOK /\ Caught /\ PressesFollowed /\ EventsWhole
      /\ ev' = NoEvent /\ pc' \in {"redraw", "poll"} /\ pc = "handle"
      /\ UNCHANGED <<lock, ring, buttons, irq, held, packets>>
  BY DEF IInv, Handle, Thread
<1>2. TypeOK'
  BY <1>1 DEF TypeOK, ring
<1>3. Caught' /\ Contents' = Contents
  BY <1>1 DEF Caught, Contents, Waiting, ring
<1>4. EventsWhole'
  BY <1>1, <1>3 DEF EventsWhole
<1>5. PressesFollowed'
  <2>1. Followed(Contents, drag, ev, Settled) /\ (Settled => Settled')
    BY <1>1 DEF PressesFollowed, Settled
  <2>2. drag' /\ NoUp(Contents) => Settled'
    BY <2>1 DEF Followed, Press, Settled
  <2>3. ~Press(NoEvent)
    BY DEF Press, NoEvent
  <2>4. Followed(Contents, drag', NoEvent, Settled')
    BY <2>1, <2>2, <2>3 DEF Followed
  <2> QED  BY <1>1, <1>3, <2>4 DEF PressesFollowed
<1> QED  BY <1>1, <1>2, <1>3, <1>4, <1>5 DEF IInv

LEMMA HandlersInv ==
  ASSUME IInv,
         \/ handle_in_menu \/ handle_left_down \/ handle_move \/ handle_up
         \/ handle_other
  PROVE  IInv'
<1>1. drag \in BOOLEAN /\ menu \in BOOLEAN /\ lostUp \in BOOLEAN
  BY DEF IInv, TypeOK
<1>2. CASE handle_in_menu
  <2>1. Handle(TRUE) /\ drag' = drag /\ menu' \in BOOLEAN
    BY <1>2 DEF handle_in_menu
  <2>2. lostUp' \in BOOLEAN /\ (lostUp => lostUp') /\ (ev.type = "UP" => lostUp')
    BY <1>2 DEF handle_in_menu
  <2> QED  BY <1>1, <2>1, <2>2, HandleInv
<1>3. CASE handle_left_down
  <2>1. Handle(TRUE) /\ drag' \in BOOLEAN /\ menu' \in BOOLEAN /\ lostUp' = lostUp
    BY <1>1, <1>3 DEF handle_left_down
  <2>2. Press(ev) /\ ev.type # "UP"
    BY <1>3 DEF handle_left_down, LeftDown, Press
  <2> QED  BY <1>1, <2>1, <2>2, HandleInv
<1>4. CASE handle_move
  <2>1. Handle(TRUE) /\ drag' = drag /\ menu' = menu /\ lostUp' = lostUp /\ ev.type # "UP"
    BY <1>4 DEF handle_move
  <2> QED  BY <1>1, <2>1, HandleInv
<1>5. CASE handle_up
  <2>1. Handle(drag) /\ ~drag' /\ drag' \in BOOLEAN /\ menu' = menu /\ lostUp' = lostUp
    BY <1>5 DEF handle_up
  <2> QED  BY <1>1, <2>1, HandleInv
<1>6. CASE handle_other
  <2>1. /\ \E dirty \in BOOLEAN : Handle(dirty)
        /\ drag' = drag /\ menu' = menu /\ lostUp' = lostUp /\ ev.type # "UP"
    BY <1>6 DEF handle_other
  <2> QED  BY <1>1, <2>1, HandleInv
<1> QED  BY <1>2, <1>3, <1>4, <1>5, <1>6

LEMMA NextInv == IInv /\ [Next]_vars => IInv'
<1> SUFFICES ASSUME IInv, [Next]_vars PROVE IInv'
  OBVIOUS
<1>1. CASE (\E b \in SUBSET Buttons : mouse_isr(b))
             \/ \E op \in {"key_down", "key_up"} : kbd_isr(op)
  BY <1>1, ArrivalInv
<1>2. CASE interrupt
  BY <1>2, PushAbsoluteInv, PushButtonInv, PushKeyInv DEF interrupt
<1>3. CASE wm_thread
  BY <1>3, LockInv, GuiInputInitInv, PollEventInv, HandlersInv DEF wm_thread
<1>4. CASE UNCHANGED vars
  <2>1. Contents' = Contents
    BY <1>4 DEF vars, ring, Contents, Waiting
  <2> QED  BY <1>4, <2>1 DEF vars, ring, wm, IInv, TypeOK, EventsWhole,
              PressesFollowed, Caught, Settled
<1> QED  BY <1>1, <1>2, <1>3, <1>4 DEF Next

(* In every reachable state of the input path the inductive invariant      *)
(* holds.                                                                  *)
THEOREM GuiInputInvariance == Spec => []IInv
BY InitInv, NextInv, PTL DEF Spec

(* When every interrupt and every queued event is dealt with,              *)
(* wm_handle_event is dragging only if the device holds LEFT, unless an UP *)
(* was dropped at a full ring or taken by the open start menu.             *)
THEOREM GuiDragNeedsButton == Spec => []DragNeedsButton
<1>1. IInv => DragNeedsButton
  <2> SUFFICES ASSUME IInv, Quiet, drag PROVE "LEFT" \in held \/ lostUp
    BY DEF DragNeedsButton
  <2>1. irq = <<>> /\ head = tail /\ pc # "handle" /\ TypeOK /\ RingOK
    BY RingTyped DEF Quiet, IInv
  <2>2. Contents = <<>>
    BY <2>1, EmptyRing, ContentsIsView DEF RingOK
  <2>3. ev = NoEvent
    BY <2>1 DEF TypeOK
  <2>4. Settled
    BY <2>2, <2>3 DEF IInv, PressesFollowed, Followed, NoUp, NoEvent
  <2> QED  BY <2>1, <2>4 DEF IInv, Caught, Settled
<1> QED  BY <1>1, GuiInputInvariance, PTL

-----------------------------------------------------------------------------
(* The refinement. *)

LEMMA QueueInit == Init => Q!Init
<1> SUFFICES ASSUME Init PROVE Contents = <<>> /\ refused = 0
  BY DEF Q!Init
<1>1. RingOK /\ head = tail
  BY InitInv, RingTyped DEF IInv, Init
<1> QED  BY <1>1, EmptyRing, ContentsIsView DEF RingOK, Init

LEMMA QueueNext == IInv /\ IInv' /\ [Next]_vars => [Q!Next]_(Q!vars)
<1> SUFFICES ASSUME IInv, IInv', [Next]_vars PROVE [Q!Next]_(Q!vars)
  OBVIOUS
<1>1. TypeOK /\ RingOK /\ buttons \subseteq Buttons
  BY RingTyped DEF IInv, TypeOK
<1>2. ASSUME NEW e \in Event, enqueue(e) PROVE Q!Next
  BY <1>1, <1>2, EnqueueOffers DEF Q!Next
<1>3. ASSUME UNCHANGED ring PROVE UNCHANGED Q!vars
  BY <1>3 DEF ring, Q!vars, Contents, Waiting
<1>4. CASE interrupt
  <2>1. irq # <<>>
    BY <1>4 DEF interrupt, push_mouse_absolute, push_mouse_down, push_mouse_up,
           push_mouse_button, push_key, Pushes
  <2>2. CASE push_mouse_absolute
    <3>1. Head(irq).arg \in SUBSET Buttons
      BY <1>1, <2>1, <2>2, HeadCall DEF push_mouse_absolute, Pushes
    <3>2. [type |-> "MOVE", buttons |-> Head(irq).arg] \in Event
      BY <3>1 DEF Event, EventType
    <3> QED  BY <1>2, <2>2, <3>2 DEF push_mouse_absolute
  <2>3. ASSUME NEW op, NEW type \in EventType, NEW after,
               push_mouse_button(op, type, after)
        PROVE  Q!Next
    <3>1. after \in SUBSET Buttons
      BY <2>3 DEF push_mouse_button, IInv, TypeOK
    <3>2. [type |-> type, buttons |-> after] \in Event
      BY <3>1 DEF Event
    <3> QED  BY <1>2, <2>3, <3>2 DEF push_mouse_button
  <2>4. ASSUME NEW op, NEW type \in EventType, push_key(op, type)
        PROVE  Q!Next
    <3>1. [type |-> type, buttons |-> buttons] \in Event
      BY <1>1 DEF Event
    <3> QED  BY <1>2, <2>4, <3>1 DEF push_key
  <2>5. {"DOWN", "UP", "KEY_DOWN", "KEY_UP"} \subseteq EventType
    BY DEF EventType
  <2> QED  BY <1>4, <2>2, <2>3, <2>4, <2>5
           DEF interrupt, push_mouse_down, push_mouse_up
<1>5. CASE gui_input_init
  <2>1. Contents' = <<>> /\ refused' = refused
    BY <1>5, GuiInputInitInv DEF gui_input_init
  <2> QED  BY <2>1 DEF Q!Next, Q!Reset
<1>6. CASE poll_event
  <2>1. CASE is_empty(head, tail)
    BY <1>3, <1>6, <2>1 DEF poll_event, ring
  <2>2. CASE ~is_empty(head, tail)
    <3>1. /\ tail' = slot_after(tail) /\ head' = head /\ slots' = slots
          /\ refused' = refused
      BY <1>6, <2>2 DEF poll_event
    <3>2. Contents # <<>> /\ Contents' = Tail(Contents)
      BY <1>1, <2>2, <3>1, PollTakes
    <3> QED  BY <3>1, <3>2 DEF Q!Next, Q!Take
  <2> QED  BY <2>1, <2>2
<1>7. CASE \/ \E b \in SUBSET Buttons : mouse_isr(b)
           \/ \E op \in {"key_down", "key_up"} : kbd_isr(op)
  BY <1>3, <1>7 DEF mouse_isr, kbd_isr
<1>8. CASE init_lock \/ redraw_lock \/ poll_lock \/ get_mouse_state
  BY <1>3, <1>8 DEF init_lock, redraw_lock, poll_lock, get_mouse_state, spin_lock
<1>9. CASE \/ handle_in_menu \/ handle_left_down \/ handle_move \/ handle_up
           \/ handle_other
  BY <1>3, <1>9
  DEF handle_in_menu, handle_left_down, handle_move, handle_up, handle_other, Handle
<1>10. CASE UNCHANGED vars
  BY <1>3, <1>10 DEF vars
<1> QED  BY <1>4, <1>5, <1>6, <1>7, <1>8, <1>9, <1>10 DEF Next, wm_thread

(* gui_input_enqueue, gui_input_poll_event and gui_input_init implement a  *)
(* bounded first-in first-out queue of one event less than the ring has    *)
(* slots, whatever interrupts come in between.                             *)
THEOREM GuiRefinesQueue == Spec => RefinesQueue
<1>1. Spec => Q!Init /\ [][Q!Next]_(Q!vars)
  BY QueueInit, QueueNext, GuiInputInvariance, PTL DEF Spec
<1> QED  BY <1>1 DEF RefinesQueue, Q!Spec

-----------------------------------------------------------------------------
(* The PS/2 devices: the inductive invariant.                              *)

Sane == {"irq1", "translate"}

(* The bytes of a stroke. *)
StrokeLen(st) == IF st.scancode >= 128 THEN 2 ELSE 1
Code(st) == (st.scancode % 128) + (IF st.pressed THEN 0 ELSE 128)
StrokeByte(st, j) == IF st.scancode >= 128 /\ j = 1 THEN 224 ELSE Code(st)

From(ob, src) == ob # << >> /\ ob[1].src = src
First(ob) == IF From(ob, "kbd") THEN 0 ELSE 1

(* pos[k] is the place in ks of the first byte of stroke k; 0 is the       *)
(* output buffer, places before it were read.  What was read are the       *)
(* events, and a prefix.                                                   *)
KeyBytes(pos, ks, ob, ty) ==
  \A k \in 1 .. Len(ty) : \A j \in 1 .. StrokeLen(ty[k]) :
    /\ 1 <= pos[k] + j - 1 => ks[pos[k] + j - 1] = StrokeByte(ty[k], j)
    /\ pos[k] + j - 1 = 0 /\ From(ob, "kbd") => ob[1].byte = StrokeByte(ty[k], j)

KeyPlaces(pos, ks, ty) ==
  /\ pos \in [1 .. Len(ty) + 1 -> Int] /\ pos[Len(ty) + 1] = Len(ks) + 1
  /\ \A k \in 1 .. Len(ty) : pos[k + 1] = pos[k] + StrokeLen(ty[k])
  /\ \A j, k \in 1 .. Len(ty) + 1 : j < k => pos[j] < pos[k]

KeysRead(pos, ob, ev0, ty, pre) ==
  /\ Len(ev0) <= Len(ty) /\ \A k \in 1 .. Len(ev0) : ev0[k] = ty[k]
  /\ pre => /\ Len(ev0) < Len(ty) /\ ty[Len(ev0) + 1].scancode >= 128
            /\ pos[Len(ev0) + 1] + 1 = First(ob)
  /\ ~pre => pos[Len(ev0) + 1] = First(ob)

KeyStream(ks, ob, ev0, ty, pre) ==
  \E pos : KeyPlaces(pos, ks, ty) /\ KeyBytes(pos, ks, ob, ty) /\ KeysRead(pos, ob, ev0, ty, pre)

(* A byte left in the output buffer from before is not part of the stream. *)
KeysGood ==
  P!Understood =>
    \/ KeyStream(ksend, obf, kbd_events, typed, g_e0)
    \/ /\ boot = "kbd_flush" /\ From(obf, "kbd")
       /\ KeyStream(ksend, << >>, kbd_events, typed, g_e0)

ModOf(sc) == IF sc \in {42, 54} THEN {"shift"} ELSE IF sc = 29 THEN {"ctrl"}
             ELSE IF sc = 56 THEN {"alt"} ELSE {}

(* A modifier that is set was pressed and not released since; a key        *)
(* pressed and not released since is down.                                 *)
ModsHeld(ms, ev0) ==
  \A m \in ms : \E j \in 1 .. Len(ev0) :
    /\ ev0[j].pressed /\ ModOf(ev0[j].scancode % 128) = {m}
    /\ \A k \in j + 1 .. Len(ev0) : ~ev0[k].pressed => ModOf(ev0[k].scancode % 128) # {m}

ModsGood == ModsHeld(mods, kbd_events)

DownGood ==
  \A j \in 1 .. Len(typed) :
    /\ typed[j].pressed
    /\ \A k \in j + 1 .. Len(typed) : typed[k].scancode = typed[j].scancode => typed[k].pressed
    => typed[j].scancode \in down

CfgGood ==
  /\ ~misread => cfg \in {Sane, Sane \cup {"aux_off"}, Sane \cup {"irq12"}}
  /\ boot \in {"kbd_flush", "enable_aux", "read_cfg", "wait_cfg"} => ~misread
  /\ boot \in {"kbd_flush", "enable_aux"} => "irq12" \notin cfg
  /\ boot \in {"read_cfg", "wait_cfg"} => cfg = Sane
  /\ boot = "write_cfg_0" => misread
  /\ boot \in {"kbd_flush", "enable_aux", "read_cfg", "wait_cfg", "write_cfg_0", "defaults",
               "defaults_ack", "enable"} => ~reports
  /\ ~reports => mouse_packets = << >>

(* Byte t, from 0, of what the mouse sent. *)
Sent(pk, t) == pk[(t \div 3) + 1][(t % 3) + 1]

(* The mouse has still to send a answers and then bytes of its packets;    *)
(* what was read are the packets seen and the one being assembled.         *)
MouseStream(a, ms, ob, pk, sn, gp) ==
  /\ a \in 0 .. Len(ms)
  /\ \A j \in 1 .. a : ms[j].src = "ack"
  /\ \A j \in a + 1 .. Len(ms) :
        ms[j].src = "aux" /\ ms[j].byte = Sent(pk, 3 * Len(pk) - Len(ms) + j - 1)
  /\ From(ob, "aux") => /\ a = 0 /\ ob[1].byte = Sent(pk, 3 * Len(pk) - Len(ms) - 1)
                        /\ 3 * Len(sn) + Len(gp) + 1 + Len(ms) = 3 * Len(pk)
  /\ ~From(ob, "aux") => 3 * Len(sn) + Len(gp) + Len(ms) - a = 3 * Len(pk)
  /\ \A j \in 1 .. Len(gp) : gp[j] = Sent(pk, 3 * Len(sn) + j - 1)
  /\ Len(sn) <= Len(pk) /\ \A k \in 1 .. Len(sn) : sn[k] = pk[k]

MouseGood ==
  ~lostMouse =>
    \E a \in 0 .. Len(msend) : MouseStream(a, msend, obf, mouse_packets, seen, g_packet)

Octet == 0 .. 255
ObfStates == {<< >>} \cup {<< r >> : r \in [src : {"kbd", "aux", "ack", "ctl"}, byte : Octet]}
Answers == {<< >>, << [src |-> "ctl", byte |-> P!byte_of(Sane)] >>}

PsSteps == {"kbd_flush", "enable_aux", "read_cfg", "wait_cfg", "write_cfg_0", "defaults",
            "defaults_ack", "enable", "enable_ack", "flush", "on"}
CfgFlags == {"irq1", "irq12", "kbd_off", "aux_off", "translate"}

FlagTypes ==
  /\ boot \in PsSteps /\ cfg \subseteq CfgFlags
  /\ irq1 \in BOOLEAN /\ irq12 \in BOOLEAN /\ reports \in BOOLEAN
  /\ lostKey \in BOOLEAN /\ lostMouse \in BOOLEAN /\ foreign \in BOOLEAN /\ misread \in BOOLEAN

BufferTypes ==
  /\ obf \in ObfStates /\ reply \in Answers
  /\ From(obf, "ctl") => obf[1].byte = P!byte_of(Sane)

KeyTypes ==
  /\ ksend \in Seq(Octet) /\ typed \in Seq(P!Stroke_) /\ down \subseteq KeysUsed
  /\ \A k \in 1 .. Len(typed) : typed[k].scancode \in KeysUsed
  /\ kbd_events \in Seq(P!Stroke_) /\ g_e0 \in BOOLEAN /\ g_caps \in BOOLEAN
  /\ mods \subseteq {"shift", "ctrl", "alt"}

MouseTypes ==
  /\ msend \in Seq([src : {"aux", "ack"}, byte : Octet]) /\ mouse_packets \in Seq(PacketsSent)
  /\ seen \in Seq(Seq(Octet)) /\ g_packet \in Seq(Octet) /\ Len(g_packet) <= 2
  /\ mouse_x \in 0 .. Width - 1 /\ mouse_y \in 0 .. Height - 1

PsTypes == FlagTypes /\ BufferTypes /\ KeyTypes /\ MouseTypes

PsInv == PsTypes /\ KeysGood /\ ModsGood /\ DownGood /\ CfgGood /\ MouseGood

LEMMA PsFacts ==
  /\ Width \in Nat \ {0} /\ Height \in Nat \ {0} /\ KeysUsed \subseteq Octet
  /\ \A k \in KeysUsed : k % 128 # 96
  /\ \A p \in PacketsSent : p \in Seq(Octet) /\ Len(p) = 3 /\ (p[1] \div 8) % 2 = 1
<1>1. P!E0 - 128 = 96
  BY DEF P!E0
<1> QED
  BY <1>1, GuiAssumption DEF P!Ps2Assumption, P!Bit, Octet

LEMMA PairFacts ==
  ASSUME NEW c \in Octet, NEW up \in BOOLEAN, NEW st, st = [scancode |-> c, pressed |-> ~up]
  PROVE  /\ P!Pair(c, up) \in Seq(Octet) /\ Len(P!Pair(c, up)) = StrokeLen(st)
         /\ \A j \in 1 .. StrokeLen(st) : P!Pair(c, up)[j] = StrokeByte(st, j)
<1>1. c \in 0 .. 255 /\ st.scancode = c /\ st.pressed = ~up
  BY DEF Octet
<1>2. PICK d \in Octet : d = (c % 128) + (IF up THEN 128 ELSE 0)
  BY <1>1 DEF Octet
<1>3. (IF c >= 128 THEN c - 128 ELSE c) = c % 128
  BY <1>1
<1>a. d = Code(st)
  <2>1. CASE up
    BY <1>1, <1>2, <2>1 DEF Code
  <2>2. CASE ~up
    BY <1>1, <1>2, <2>2 DEF Code
  <2> QED
    BY <2>1, <2>2
<1>4. CASE c >= 128
  <2>1. P!Pair(c, up) = << 224, d >>
    BY <1>2, <1>3, <1>4 DEF P!Pair, P!Extended, P!E0
  <2>2. << 224, d >> \in Seq(Octet) /\ Len(<< 224, d >>) = 2 /\ << 224, d >>[1] = 224
        /\ << 224, d >>[2] = d
    BY DEF Octet
  <2>3. StrokeLen(st) = 2 /\ StrokeByte(st, 1) = 224 /\ StrokeByte(st, 2) = d
    BY <1>1, <1>a, <1>4 DEF StrokeLen, StrokeByte
  <2> QED
    BY <2>1, <2>2, <2>3
<1>5. CASE ~(c >= 128)
  <2>1. P!Pair(c, up) = << d >>
    BY <1>2, <1>3, <1>5 DEF P!Pair, P!Extended, P!E0
  <2>2. << d >> \in Seq(Octet) /\ Len(<< d >>) = 1 /\ << d >>[1] = d
    BY DEF Octet
  <2>3. StrokeLen(st) = 1 /\ StrokeByte(st, 1) = d
    BY <1>1, <1>a, <1>5 DEF StrokeLen, StrokeByte
  <2> QED
    BY <2>1, <2>2, <2>3
<1> QED
  BY <1>4, <1>5

StrokeSeq(ty) ==
  /\ ty \in Seq(P!Stroke_) /\ \A k \in 1 .. Len(ty) : ty[k].scancode % 128 # 96

LEMMA StrokeFacts ==
  ASSUME NEW st \in P!Stroke_
  PROVE  /\ st.scancode \in 0 .. 255 /\ st.scancode \in Int /\ st.pressed \in BOOLEAN
         /\ StrokeLen(st) \in {1, 2} /\ (StrokeLen(st) = 2 <=> st.scancode >= 128)
         /\ st = [scancode |-> st.scancode, pressed |-> st.pressed]
BY DEF P!Stroke_, StrokeLen

LEMMA PlacesFacts ==
  ASSUME NEW pos, NEW ks \in Seq(Octet), NEW ty, StrokeSeq(ty), KeyPlaces(pos, ks, ty)
  PROVE  /\ \A k \in 1 .. Len(ty) + 1 : pos[k] \in Int /\ pos[k] <= Len(ks) + 1
         /\ \A k \in 1 .. Len(ty) : /\ pos[k + 1] = pos[k] + StrokeLen(ty[k])
                                   /\ pos[k] + StrokeLen(ty[k]) <= Len(ks) + 1
                                   /\ pos[k] + 1 <= Len(ks) + 1
<1>1. /\ Len(ty) \in Nat /\ Len(ks) \in Nat /\ Len(ty) + 1 \in 1 .. Len(ty) + 1
      /\ \A k \in 1 .. Len(ty) : StrokeLen(ty[k]) \in {1, 2}
  BY StrokeFacts DEF StrokeSeq
<1>2. /\ pos \in [1 .. Len(ty) + 1 -> Int] /\ pos[Len(ty) + 1] = Len(ks) + 1
      /\ \A k \in 1 .. Len(ty) : pos[k + 1] = pos[k] + StrokeLen(ty[k])
      /\ \A j, k \in 1 .. Len(ty) + 1 : j < k => pos[j] < pos[k]
  BY DEF KeyPlaces
<1>3. \A k \in 1 .. Len(ty) + 1 : pos[k] \in Int
  BY <1>2
<1>4. ASSUME NEW k \in 1 .. Len(ty) + 1 PROVE pos[k] <= Len(ks) + 1
  <2>1. pos[k] \in Int
    BY <1>3
  <2>2. CASE k = Len(ty) + 1
    BY <1>1, <1>2, <2>2
  <2>3. CASE k # Len(ty) + 1
    <3>1. k < Len(ty) + 1
      BY <1>1, <2>3
    <3>2. pos[k] < pos[Len(ty) + 1]
      BY <1>1, <1>2, <3>1
    <3> QED
      BY <1>1, <1>2, <2>1, <3>2
  <2> QED
    BY <2>2, <2>3
<1>5. ASSUME NEW k \in 1 .. Len(ty)
      PROVE  /\ pos[k + 1] = pos[k] + StrokeLen(ty[k])
             /\ pos[k] + StrokeLen(ty[k]) <= Len(ks) + 1 /\ pos[k] + 1 <= Len(ks) + 1
  <2>1. k + 1 \in 1 .. Len(ty) + 1 /\ k \in 1 .. Len(ty) + 1 /\ StrokeLen(ty[k]) \in {1, 2}
    BY <1>1
  <2>2. pos[k + 1] <= Len(ks) + 1 /\ pos[k] \in Int
    BY <1>3, <1>4, <2>1
  <2> QED
    BY <1>1, <1>2, <2>1, <2>2
<1> QED
  BY <1>3, <1>4, <1>5

(* A stroke is queued. *)
LEMMA KeyQueued ==
  ASSUME NEW ks \in Seq(Octet), NEW ob, NEW ev0 \in Seq(P!Stroke_), NEW ty, StrokeSeq(ty),
         NEW pre \in BOOLEAN, KeyStream(ks, ob, ev0, ty, pre),
         NEW st \in P!Stroke_, NEW bs \in Seq(Octet), Len(bs) = StrokeLen(st),
         \A j \in 1 .. StrokeLen(st) : bs[j] = StrokeByte(st, j)
  PROVE  KeyStream(ks \o bs, ob, ev0, Append(ty, st), pre)
<1> DEFINE N == Len(ty)
           L == StrokeLen(st)
<1>1. /\ ty \in Seq(P!Stroke_) /\ N \in Nat /\ Len(ks) \in Nat /\ Len(ev0) \in Nat
      /\ \A k \in 1 .. N : ty[k] \in P!Stroke_ /\ StrokeLen(ty[k]) \in {1, 2}
  BY StrokeFacts DEF StrokeSeq
<1>2. PICK pos : KeyPlaces(pos, ks, ty) /\ KeyBytes(pos, ks, ob, ty)
                 /\ KeysRead(pos, ob, ev0, ty, pre)
  BY DEF KeyStream
<1>3. PICK tz : tz = Append(ty, st)
  OBVIOUS
<1>4. /\ Len(tz) = N + 1 /\ tz[N + 1] = st /\ \A k \in 1 .. N : tz[k] = ty[k]
  BY <1>1, <1>3
<1>5. PICK kz : kz = ks \o bs
  OBVIOUS
<1>6. L \in {1, 2}
  BY StrokeFacts
<1>7. /\ Len(kz) = Len(ks) + L /\ \A j \in 1 .. Len(ks) : kz[j] = ks[j]
      /\ \A j \in 1 .. L : kz[Len(ks) + j] = StrokeByte(st, j)
  BY <1>1, <1>5, <1>6
<1> HIDE DEF L
<1>8. PICK pz : pz = [k \in 1 .. N + 2 |-> IF k = N + 2 THEN pos[N + 1] + L ELSE pos[k]]
  OBVIOUS
<1>9. /\ pos \in [1 .. N + 1 -> Int] /\ pos[N + 1] = Len(ks) + 1
      /\ \A k \in 1 .. N : pos[k + 1] = pos[k] + StrokeLen(ty[k])
      /\ \A j, k \in 1 .. N + 1 : j < k => pos[j] < pos[k]
  BY <1>2 DEF KeyPlaces
<1>10. /\ pz \in [1 .. N + 2 -> Int] /\ pz[N + 2] = Len(ks) + 1 + L
       /\ \A k \in 1 .. N + 1 : pz[k] = pos[k]
  BY <1>1, <1>6, <1>8, <1>9
<1>11. KeyPlaces(pz, kz, tz)
  <2>1. pz \in [1 .. Len(tz) + 1 -> Int] /\ pz[Len(tz) + 1] = Len(kz) + 1
    <3>1. Len(tz) + 1 = N + 2
      BY <1>1, <1>4
    <3>2. Len(ks) + 1 + L = Len(kz) + 1
      BY <1>1, <1>6, <1>7
    <3> QED
      BY <1>10, <3>1, <3>2
  <2>2. ASSUME NEW k \in 1 .. Len(tz) PROVE pz[k + 1] = pz[k] + StrokeLen(tz[k])
    <3>1. CASE k \in 1 .. N
      <4>1. k + 1 \in 1 .. N + 1 /\ k \in 1 .. N + 1
        BY <1>1, <3>1
      <4>2. pz[k + 1] = pos[k + 1] /\ pz[k] = pos[k]
        BY <1>10, <4>1
      <4> QED
        BY <1>4, <1>9, <3>1, <4>2
    <3>2. CASE k = N + 1
      <4>1. k + 1 = N + 2 /\ k \in 1 .. N + 1
        BY <1>1, <3>2
      <4>2. pz[k] = Len(ks) + 1
        BY <1>9, <1>10, <3>2, <4>1
      <4> QED
        BY <1>4, <1>10, <3>2, <4>1, <4>2 DEF L
    <3> QED
      BY <1>1, <1>4, <3>1, <3>2
  <2>3. ASSUME NEW j \in 1 .. Len(tz) + 1, NEW k \in 1 .. Len(tz) + 1, j < k
        PROVE  pz[j] < pz[k]
    <3>0. j \in 1 .. N + 1
      BY <1>1, <1>4, <2>3
    <3>1. j \in 1 .. N + 1 /\ pz[j] = pos[j] /\ pos[j] \in Int
      BY <1>2, <1>10, <3>0, PlacesFacts
    <3>2. CASE k \in 1 .. N + 1
      BY <1>9, <1>10, <2>3, <3>1, <3>2
    <3>3. CASE k = N + 2
      <4>1. pos[j] <= Len(ks) + 1
        <5>1. CASE j = N + 1
          BY <1>1, <1>9, <5>1
        <5>2. CASE j # N + 1
          <6>1. N + 1 \in 1 .. N + 1 /\ j < N + 1
            BY <1>1, <3>1, <5>2
          <6>2. pos[j] < pos[N + 1]
            BY <1>9, <3>1, <6>1
          <6> QED
            BY <1>1, <1>9, <3>1, <6>2
        <5> QED
          BY <5>1, <5>2
      <4> QED
        BY <1>1, <1>6, <1>10, <3>1, <3>3, <4>1
    <3> QED
      BY <1>1, <1>4, <3>2, <3>3
  <2> QED
    BY <2>1, <2>2, <2>3 DEF KeyPlaces
<1>12. KeyBytes(pz, kz, ob, tz)
  <2> SUFFICES ASSUME NEW k \in 1 .. Len(tz), NEW j \in 1 .. StrokeLen(tz[k])
               PROVE  /\ 1 <= pz[k] + j - 1 => kz[pz[k] + j - 1] = StrokeByte(tz[k], j)
                      /\ pz[k] + j - 1 = 0 /\ From(ob, "kbd") => ob[1].byte = StrokeByte(tz[k], j)
    BY DEF KeyBytes
  <2>1. CASE k \in 1 .. N
    <3>1. tz[k] = ty[k] /\ k \in 1 .. N + 1 /\ pz[k] = pos[k] /\ pos[k] \in Int
      BY <1>1, <1>4, <1>9, <1>10, <2>1
    <3>2. /\ 1 <= pos[k] + j - 1 => ks[pos[k] + j - 1] = StrokeByte(ty[k], j)
          /\ pos[k] + j - 1 = 0 /\ From(ob, "kbd") => ob[1].byte = StrokeByte(ty[k], j)
      BY <1>2, <2>1, <3>1 DEF KeyBytes
    <3>3. pos[k] + j - 1 <= Len(ks)
      <4>1. pos[k] + StrokeLen(ty[k]) <= Len(ks) + 1
        BY <1>2, <2>1, PlacesFacts
      <4>3. StrokeLen(ty[k]) \in Int /\ j <= StrokeLen(ty[k]) /\ j \in Int
        BY <1>1, <2>1, <3>1
      <4> QED
        BY <1>1, <3>1, <4>1, <4>3
    <3>4. 1 <= pos[k] + j - 1 => kz[pos[k] + j - 1] = ks[pos[k] + j - 1]
      BY <1>1, <1>7, <3>1, <3>3
    <3> QED
      BY <3>1, <3>2, <3>4
  <2>2. CASE k = N + 1
    <3>1. tz[k] = st /\ k \in 1 .. N + 1 /\ pz[k] = Len(ks) + 1
      BY <1>1, <1>4, <1>9, <1>10, <2>2
    <3>2. j \in 1 .. L /\ pz[k] + j - 1 = Len(ks) + j /\ pz[k] + j - 1 >= 1
      BY <1>1, <1>6, <3>1 DEF L
    <3> QED
      BY <1>7, <3>1, <3>2
  <2> QED
    BY <1>1, <1>4, <2>1, <2>2
<1>13. KeysRead(pz, ob, ev0, tz, pre)
  <2>1. /\ Len(ev0) <= N /\ \A k \in 1 .. Len(ev0) : ev0[k] = ty[k]
        /\ pre => /\ Len(ev0) < N /\ ty[Len(ev0) + 1].scancode >= 128
                  /\ pos[Len(ev0) + 1] + 1 = First(ob)
        /\ ~pre => pos[Len(ev0) + 1] = First(ob)
    BY <1>2 DEF KeysRead
  <2>2. Len(ev0) <= Len(tz) /\ \A k \in 1 .. Len(ev0) : ev0[k] = tz[k]
    BY <1>1, <1>4, <2>1
  <2>3. Len(ev0) + 1 \in 1 .. N + 1 /\ pz[Len(ev0) + 1] = pos[Len(ev0) + 1]
    BY <1>1, <1>10, <2>1
  <2>4. Len(ev0) < N => Len(ev0) < Len(tz) /\ tz[Len(ev0) + 1] = ty[Len(ev0) + 1]
    BY <1>1, <1>4
  <2> QED
    BY <2>1, <2>2, <2>3, <2>4 DEF KeysRead
<1> QED
  BY <1>3, <1>5, <1>11, <1>12, <1>13 DEF KeyStream

(* A byte of the keyboard gets into the output buffer. *)
LEMMA KeyLoaded ==
  ASSUME NEW ks \in Seq(Octet), ks # << >>, NEW ob, ~From(ob, "kbd"),
         NEW ev0 \in Seq(P!Stroke_), NEW ty, StrokeSeq(ty),
         NEW pre \in BOOLEAN, KeyStream(ks, ob, ev0, ty, pre),
         NEW oz, oz = << [src |-> "kbd", byte |-> Head(ks)] >>
  PROVE  KeyStream(Tail(ks), oz, ev0, ty, pre)
<1> DEFINE N == Len(ty)
<1>1. /\ ty \in Seq(P!Stroke_) /\ N \in Nat /\ Len(ks) \in Nat /\ Len(ks) >= 1
      /\ Len(ev0) \in Nat
      /\ \A k \in 1 .. N : StrokeLen(ty[k]) \in {1, 2}
  BY StrokeFacts DEF StrokeSeq
<1>2. PICK pos : KeyPlaces(pos, ks, ty) /\ KeyBytes(pos, ks, ob, ty)
                 /\ KeysRead(pos, ob, ev0, ty, pre)
  BY DEF KeyStream
<1>3. /\ pos \in [1 .. N + 1 -> Int] /\ pos[N + 1] = Len(ks) + 1
      /\ \A k \in 1 .. N : pos[k + 1] = pos[k] + StrokeLen(ty[k])
      /\ \A j, k \in 1 .. N + 1 : j < k => pos[j] < pos[k]
  BY <1>2 DEF KeyPlaces
<1>4. PICK kz : kz = Tail(ks)
  OBVIOUS
<1>5. /\ Len(kz) = Len(ks) - 1 /\ \A j \in 1 .. Len(ks) - 1 : kz[j] = ks[j + 1]
      /\ Head(ks) = ks[1]
  BY <1>1, <1>4
<1>6. From(oz, "kbd") /\ oz[1].byte = ks[1] /\ First(oz) = 0 /\ First(ob) = 1
  BY <1>5 DEF From, First
<1>7. PICK pz : pz = [k \in 1 .. N + 1 |-> pos[k] - 1]
  OBVIOUS
<1>8. pz \in [1 .. N + 1 -> Int] /\ \A k \in 1 .. N + 1 : pz[k] = pos[k] - 1 /\ pos[k] \in Int
  <2>1. \A k \in 1 .. N + 1 : pos[k] \in Int /\ pos[k] - 1 \in Int
    BY <1>2, PlacesFacts
  <2> QED
    BY <1>7, <2>1
<1>9. KeyPlaces(pz, kz, ty)
  <2>1. pz[N + 1] = Len(kz) + 1
    BY <1>1, <1>3, <1>5, <1>8
  <2>2. ASSUME NEW k \in 1 .. N PROVE pz[k + 1] = pz[k] + StrokeLen(ty[k])
    <3>1. k \in 1 .. N + 1 /\ k + 1 \in 1 .. N + 1 /\ StrokeLen(ty[k]) \in Int
      BY <1>1
    <3>2. pz[k] = pos[k] - 1 /\ pz[k + 1] = pos[k + 1] - 1 /\ pos[k] \in Int
      BY <1>8, <3>1
    <3> QED
      BY <1>3, <3>1, <3>2
  <2>3. ASSUME NEW j \in 1 .. N + 1, NEW k \in 1 .. N + 1, j < k PROVE pz[j] < pz[k]
    BY <1>3, <1>8, <2>3
  <2> QED
    BY <1>8, <2>1, <2>2, <2>3 DEF KeyPlaces
<1>10. KeyBytes(pz, kz, oz, ty)
  <2> SUFFICES ASSUME NEW k \in 1 .. N, NEW j \in 1 .. StrokeLen(ty[k])
               PROVE  /\ 1 <= pz[k] + j - 1 => kz[pz[k] + j - 1] = StrokeByte(ty[k], j)
                      /\ pz[k] + j - 1 = 0 /\ From(oz, "kbd") => oz[1].byte = StrokeByte(ty[k], j)
    BY DEF KeyBytes
  <2>1. PICK q \in Int : q = pos[k] + j - 1 /\ pz[k] + j - 1 = q - 1
    <3>1. k \in 1 .. N + 1 /\ j \in Int
      BY <1>1
    <3>2. pz[k] = pos[k] - 1 /\ pos[k] \in Int
      BY <1>8, <3>1
    <3>3. pos[k] + j - 1 \in Int /\ pz[k] + j - 1 = (pos[k] + j - 1) - 1
      BY <3>1, <3>2
    <3> QED
      BY <3>3
  <2>2. 1 <= q => ks[q] = StrokeByte(ty[k], j)
    BY <1>2, <2>1 DEF KeyBytes
  <2>3. q <= Len(ks)
    <3>1. pos[k] + StrokeLen(ty[k]) <= Len(ks) + 1 /\ k \in 1 .. N + 1
      BY <1>1, <1>2, PlacesFacts
    <3>3. StrokeLen(ty[k]) \in Int /\ j <= StrokeLen(ty[k]) /\ j \in Int /\ pos[k] \in Int
      BY <1>1, <1>8, <3>1
    <3> QED
      BY <1>1, <2>1, <3>1, <3>3
  <2>4. 1 <= q - 1 => kz[q - 1] = ks[q]
    BY <1>1, <1>5, <2>1, <2>3
  <2> QED
    BY <1>6, <2>1, <2>2, <2>4
<1>11. KeysRead(pz, oz, ev0, ty, pre)
  <2>1. /\ Len(ev0) <= N /\ \A k \in 1 .. Len(ev0) : ev0[k] = ty[k]
        /\ pre => /\ Len(ev0) < N /\ ty[Len(ev0) + 1].scancode >= 128
                  /\ pos[Len(ev0) + 1] + 1 = First(ob)
        /\ ~pre => pos[Len(ev0) + 1] = First(ob)
    BY <1>2 DEF KeysRead
  <2>2. Len(ev0) + 1 \in 1 .. N + 1
    BY <1>1, <2>1
  <2>3. pz[Len(ev0) + 1] = pos[Len(ev0) + 1] - 1 /\ pos[Len(ev0) + 1] \in Int
    BY <1>8, <2>2
  <2>4. pre => pz[Len(ev0) + 1] + 1 = First(oz)
    BY <1>6, <2>1, <2>3
  <2>5. ~pre => pz[Len(ev0) + 1] = First(oz)
    BY <1>6, <2>1, <2>3
  <2> QED
    BY <2>1, <2>4, <2>5 DEF KeysRead
<1> QED
  BY <1>4, <1>9, <1>10, <1>11 DEF KeyStream

(* Something else gets into the output buffer or leaves it. *)
LEMMA KeyOther ==
  ASSUME NEW ks, NEW ob, NEW oz, ~From(ob, "kbd"), ~From(oz, "kbd"), NEW ev0, NEW ty,
         NEW pre, KeyStream(ks, ob, ev0, ty, pre)
  PROVE  KeyStream(ks, oz, ev0, ty, pre)
<1>1. PICK pos : KeyPlaces(pos, ks, ty) /\ KeyBytes(pos, ks, ob, ty)
                 /\ KeysRead(pos, ob, ev0, ty, pre)
  BY DEF KeyStream
<1>2. First(ob) = 1 /\ First(oz) = 1
  BY DEF First
<1>3. KeyBytes(pos, ks, oz, ty)
  BY <1>1 DEF KeyBytes
<1>4. KeysRead(pos, oz, ev0, ty, pre)
  BY <1>1, <1>2 DEF KeysRead
<1> QED
  BY <1>1, <1>3, <1>4 DEF KeyStream

(* The interrupt handler reads a byte of the keyboard. *)
Decoded(raw, pre) == [scancode |-> IF pre THEN (raw % 128) + 128 ELSE raw % 128,
                      pressed |-> ~(raw >= 128)]

LEMMA CodeFacts ==
  ASSUME NEW st \in P!Stroke_, st.scancode % 128 # 96
  PROVE  /\ Code(st) # 224 /\ (Code(st) >= 128 <=> ~st.pressed)
         /\ (st.scancode >= 128 => (Code(st) % 128) + 128 = st.scancode)
         /\ (~(st.scancode >= 128) => Code(st) % 128 = st.scancode)
<1>1. st.scancode \in 0 .. 255 /\ st.pressed \in BOOLEAN
  BY StrokeFacts
<1>2. PICK x \in 0 .. 127 : x = st.scancode % 128 /\ x # 96
  BY <1>1
<1>3. (st.scancode >= 128 => st.scancode = x + 128) /\ (~(st.scancode >= 128) => st.scancode = x)
  BY <1>1, <1>2
<1>4. Code(st) = (IF st.pressed THEN x ELSE x + 128)
  BY <1>1, <1>2 DEF Code
<1>5. Code(st) % 128 = x
  <2>1. CASE st.pressed
    BY <1>4, <2>1
  <2>2. CASE ~st.pressed
    BY <1>4, <2>2
  <2> QED
    BY <2>1, <2>2
<1>6. Code(st) # 224 /\ (Code(st) >= 128 <=> ~st.pressed)
  BY <1>1, <1>2, <1>4
<1> QED
  BY <1>3, <1>5, <1>6

LEMMA KeyDecoded ==
  ASSUME NEW ks \in Seq(Octet), NEW ob, From(ob, "kbd"), NEW raw, raw = ob[1].byte,
         NEW ev0 \in Seq(P!Stroke_), NEW ty, StrokeSeq(ty),
         NEW pre \in BOOLEAN, KeyStream(ks, ob, ev0, ty, pre)
  PROVE  /\ raw = 224 => KeyStream(ks, << >>, ev0, ty, TRUE)
         /\ raw # 224 => KeyStream(ks, << >>, Append(ev0, Decoded(raw, pre)), ty, FALSE)
<1> DEFINE N == Len(ty)
<1>1. /\ ty \in Seq(P!Stroke_) /\ N \in Nat /\ Len(ks) \in Nat
      /\ \A k \in 1 .. N : ty[k] \in P!Stroke_ /\ ty[k].scancode % 128 # 96
  BY DEF StrokeSeq
<1>2. PICK pos : KeyPlaces(pos, ks, ty) /\ KeyBytes(pos, ks, ob, ty)
                 /\ KeysRead(pos, ob, ev0, ty, pre)
  BY DEF KeyStream
<1>3. PICK m \in Nat : m = Len(ev0)
  OBVIOUS
<1>4. /\ m <= N /\ \A k \in 1 .. m : ev0[k] = ty[k]
      /\ pre => m < N /\ ty[m + 1].scancode >= 128 /\ pos[m + 1] + 1 = 0
      /\ ~pre => pos[m + 1] = 0
  BY <1>2, <1>3 DEF KeysRead, First
<1>5. ~From(<< >>, "kbd") /\ First(<< >>) = 1
  BY DEF From, First
<1>6. KeyBytes(pos, ks, << >>, ty)
  BY <1>2, <1>5 DEF KeyBytes
<1>7. m < N
  <2>1. pos[N + 1] = Len(ks) + 1
    BY <1>2 DEF KeyPlaces
  <2> QED
    BY <1>1, <1>3, <1>4, <2>1
<1>8. PICK st \in P!Stroke_ : st = ty[m + 1] /\ st.scancode % 128 # 96
  BY <1>1, <1>3, <1>7
<1>9. /\ st.scancode \in 0 .. 255 /\ st.pressed \in BOOLEAN
      /\ StrokeLen(st) \in {1, 2} /\ (StrokeLen(st) = 2 <=> st.scancode >= 128)
      /\ st = [scancode |-> st.scancode, pressed |-> st.pressed]
  BY StrokeFacts
<1>10. m + 1 \in 1 .. N
  BY <1>1, <1>3, <1>7
<1>11. pos[m + 1] \in Int /\ pos[m + 2] = pos[m + 1] + StrokeLen(st)
  <2>1. (m + 1) + 1 = m + 2 /\ m + 1 \in 1 .. N + 1
    BY <1>1, <1>3, <1>10
  <2> QED
    BY <1>2, <1>8, <1>10, <2>1, PlacesFacts
<1>12. \A j \in 1 .. StrokeLen(st) : pos[m + 1] + j - 1 = 0 => raw = StrokeByte(st, j)
  BY <1>2, <1>8, <1>10 DEF KeyBytes
<1>13. ASSUME raw # 224, Decoded(raw, pre) = st, pos[m + 2] = 1
       PROVE  KeyStream(ks, << >>, Append(ev0, Decoded(raw, pre)), ty, FALSE)
  <2>1. PICK ez : ez = Append(ev0, st)
    OBVIOUS
  <2>2. Len(ez) = m + 1 /\ ez[m + 1] = st /\ \A k \in 1 .. m : ez[k] = ev0[k]
    BY <1>3, <2>1
  <2>3. \A k \in 1 .. m + 1 : ez[k] = ty[k]
    BY <1>3, <1>4, <1>8, <2>2
  <2>4. Len(ez) <= N /\ pos[Len(ez) + 1] = 1
    <3>1. Len(ez) + 1 = m + 2
      BY <1>3, <2>2
    <3> QED
      BY <1>1, <1>3, <1>7, <1>13, <2>2, <3>1
  <2>5. KeysRead(pos, << >>, ez, ty, FALSE)
    BY <1>5, <2>2, <2>3, <2>4 DEF KeysRead
  <2> QED
    BY <1>2, <1>6, <1>13, <2>1, <2>5 DEF KeyStream
<1>14. CASE pre
  <2>1. StrokeLen(st) = 2 /\ pos[m + 1] = -1 /\ pos[m + 2] = 1
    BY <1>4, <1>8, <1>9, <1>11, <1>14
  <2>2. 2 \in 1 .. StrokeLen(st) /\ pos[m + 1] + 2 - 1 = 0
    BY <2>1
  <2>3. raw = StrokeByte(st, 2)
    BY <1>12, <2>2
  <2>4. raw = Code(st)
    BY <2>3 DEF StrokeByte
  <2>5. /\ raw # 224 /\ (raw >= 128 <=> ~st.pressed)
        /\ (st.scancode >= 128 => (raw % 128) + 128 = st.scancode)
        /\ (~(st.scancode >= 128) => raw % 128 = st.scancode)
    BY <1>8, <2>4, CodeFacts
  <2>6. (raw % 128) + 128 = st.scancode
    BY <1>4, <1>8, <1>14, <2>5
  <2>7. Decoded(raw, pre) = st
    <3>1. (~(raw >= 128)) = st.pressed
      BY <1>9, <2>5
    <3> QED
      BY <1>9, <1>14, <2>6, <3>1 DEF Decoded
  <2> QED
    BY <1>13, <2>1, <2>5, <2>7
<1>15. CASE ~pre
  <2>1. pos[m + 1] = 0 /\ 1 \in 1 .. StrokeLen(st)
    BY <1>4, <1>9, <1>15
  <2>2. raw = StrokeByte(st, 1)
    <3>1. pos[m + 1] + 1 - 1 = 0
      BY <2>1
    <3> QED
      BY <1>12, <2>1, <3>1
  <2>3. CASE st.scancode >= 128
    <3>1. raw = 224
      BY <2>2, <2>3 DEF StrokeByte
    <3>2. KeysRead(pos, << >>, ev0, ty, TRUE)
      BY <1>3, <1>4, <1>5, <1>7, <1>8, <2>1, <2>3 DEF KeysRead
    <3> QED
      BY <1>2, <1>6, <3>1, <3>2 DEF KeyStream
  <2>4. CASE ~(st.scancode >= 128)
    <3>1. raw = Code(st)
      BY <2>2, <2>4 DEF StrokeByte
    <3>2. /\ raw # 224 /\ (raw >= 128 <=> ~st.pressed)
          /\ (st.scancode >= 128 => (raw % 128) + 128 = st.scancode)
          /\ (~(st.scancode >= 128) => raw % 128 = st.scancode)
      BY <1>8, <3>1, CodeFacts
    <3>3. raw % 128 = st.scancode
      BY <2>4, <3>2
    <3>4. Decoded(raw, pre) = st
      <4>1. (~(raw >= 128)) = st.pressed
        BY <1>9, <3>2
      <4> QED
        BY <1>9, <1>15, <3>3, <4>1 DEF Decoded
    <3>5. pos[m + 2] = 1
      BY <1>9, <1>11, <2>1, <2>4
    <3> QED
      BY <1>13, <3>2, <3>4, <3>5
  <2> QED
    BY <2>3, <2>4
<1> QED
  BY <1>14, <1>15

(* When every byte is read, so is every stroke. *)
LEMMA KeysAllRead ==
  ASSUME NEW ob, ~From(ob, "kbd"), NEW ev0 \in Seq(P!Stroke_), NEW ty, StrokeSeq(ty),
         NEW pre \in BOOLEAN, KeyStream(<< >>, ob, ev0, ty, pre)
  PROVE  Len(ev0) = Len(ty)
<1> SUFFICES ASSUME Len(ev0) # Len(ty) PROVE FALSE
  OBVIOUS
<1>1. PICK ks \in Seq(Octet) : ks = << >> /\ Len(ks) = 0
  <2>1. << >> \in Seq(Octet) /\ Len(<< >>) = 0
    OBVIOUS
  <2> QED
    BY <2>1, Zenon
<1>2. PICK pos : KeyPlaces(pos, ks, ty) /\ KeysRead(pos, ob, ev0, ty, pre)
  BY <1>1 DEF KeyStream
<1>3. PICK m \in Nat : m = Len(ev0)
  OBVIOUS
<1>4. Len(ty) \in Nat /\ ty \in Seq(P!Stroke_)
  BY DEF StrokeSeq
<1>5. /\ m < Len(ty)
      /\ pre => ty[m + 1].scancode >= 128 /\ pos[m + 1] + 1 = 1
      /\ ~pre => pos[m + 1] = 1
  BY <1>2, <1>3, <1>4 DEF KeysRead, First
<1>6. m + 1 \in 1 .. Len(ty) /\ m + 1 \in 1 .. Len(ty) + 1
  BY <1>3, <1>4, <1>5
<1>7. ty[m + 1] \in P!Stroke_
  BY <1>4, <1>6
<1>8. /\ StrokeLen(ty[m + 1]) \in {1, 2}
      /\ (StrokeLen(ty[m + 1]) = 2 <=> ty[m + 1].scancode >= 128)
  BY <1>7, StrokeFacts
<1>9. pos[m + 1] + StrokeLen(ty[m + 1]) <= 1 /\ pos[m + 1] \in Int
  <2>1. pos[m + 1] + StrokeLen(ty[m + 1]) <= Len(ks) + 1 /\ pos[m + 1] \in Int
    BY <1>2, <1>6, PlacesFacts
  <2> QED
    BY <1>1, <2>1
<1>10. CASE pre
  <2>1. pos[m + 1] = 0 /\ StrokeLen(ty[m + 1]) = 2
    BY <1>5, <1>8, <1>9, <1>10
  <2> QED
    BY <1>9, <2>1
<1>11. CASE ~pre
  <2>1. pos[m + 1] = 1
    BY <1>5, <1>11
  <2>2. CASE StrokeLen(ty[m + 1]) = 1
    BY <1>9, <2>1, <2>2
  <2>3. CASE StrokeLen(ty[m + 1]) = 2
    BY <1>9, <2>1, <2>3
  <2> QED
    BY <1>8, <2>2, <2>3
<1> QED
  BY <1>10, <1>11

-----------------------------------------------------------------------------
(* The bytes of the mouse. *)

MouseByte == [src : {"aux", "ack"}, byte : Octet]

LEMMA DivThree ==
  ASSUME NEW m \in Nat, NEW c \in 0 .. 2
  PROVE  (3 * m + c) \div 3 = m /\ (3 * m + c) % 3 = c
<1>1. CASE c = 0
  BY <1>1
<1>2. CASE c = 1
  BY <1>2
<1>3. CASE c = 2
  BY <1>3
<1> QED
  BY <1>1, <1>2, <1>3

LEMMA SentAt ==
  ASSUME NEW pk, NEW m \in Nat, NEW c \in 0 .. 2
  PROVE  Sent(pk, 3 * m + c) = pk[m + 1][c + 1]
BY DivThree DEF Sent

LEMMA SplitThree ==
  ASSUME NEW t \in Nat
  PROVE  \E m \in Nat : \E c \in 0 .. 2 : t = 3 * m + c
<1>1. t \div 3 \in Nat /\ t % 3 \in 0 .. 2 /\ t = 3 * (t \div 3) + (t % 3)
  OBVIOUS
<1> QED
  BY <1>1, Zenon

LEMMA SentMore ==
  ASSUME NEW pk \in Seq(PacketsSent), NEW p \in PacketsSent,
         NEW t \in Nat, t < 3 * Len(pk)
  PROVE  Sent(Append(pk, p), t) = Sent(pk, t)
<1>1. PICK m \in Nat, c \in 0 .. 2 : t = 3 * m + c
  BY SplitThree
<1>2. m + 1 \in 1 .. Len(pk)
  BY <1>1
<1>3. Append(pk, p)[m + 1] = pk[m + 1]
  BY <1>2
<1>4. Sent(Append(pk, p), 3 * m + c) = Append(pk, p)[m + 1][c + 1]
  BY SentAt
<1>5. Sent(pk, 3 * m + c) = pk[m + 1][c + 1]
  BY SentAt
<1> QED
  BY <1>1, <1>3, <1>4, <1>5

LEMMA SentLast ==
  ASSUME NEW pk \in Seq(PacketsSent), NEW p \in PacketsSent, NEW c \in 1 .. 3
  PROVE  Sent(Append(pk, p), 3 * Len(pk) + c - 1) = p[c]
<1>1. c - 1 \in 0 .. 2 /\ (c - 1) + 1 = c /\ 3 * Len(pk) + c - 1 = 3 * Len(pk) + (c - 1)
      /\ Len(pk) \in Nat
  OBVIOUS
<1>2. Sent(Append(pk, p), 3 * Len(pk) + (c - 1)) = Append(pk, p)[Len(pk) + 1][(c - 1) + 1]
  BY <1>1, SentAt
<1>3. Append(pk, p)[Len(pk) + 1] = p
  OBVIOUS
<1> QED
  BY <1>1, <1>2, <1>3

(* The mouse sends a packet. *)
LEMMA MouseQueued ==
  ASSUME NEW ms \in Seq(MouseByte), NEW ob, NEW pk \in Seq(PacketsSent),
         NEW sn \in Seq(Seq(Octet)), NEW gp \in Seq(Octet), NEW a \in 0 .. Len(ms),
         MouseStream(a, ms, ob, pk, sn, gp), NEW p \in PacketsSent,
         NEW bs \in Seq(MouseByte), Len(bs) = 3,
         \A j \in 1 .. 3 : bs[j].src = "aux" /\ bs[j].byte = p[j]
  PROVE  MouseStream(a, ms \o bs, ob, Append(pk, p), sn, gp)
<1>1. PICK N \in Nat, L \in Nat, m \in Nat, c \in Nat :
        N = Len(pk) /\ L = Len(ms) /\ m = Len(sn) /\ c = Len(gp)
  OBVIOUS
<1>2. PICK qk : qk = Append(pk, p)
  OBVIOUS
<1>3. Len(qk) = N + 1 /\ \A k \in 1 .. N : qk[k] = pk[k]
  BY <1>1, <1>2
<1>4. PICK mz : mz = ms \o bs
  OBVIOUS
<1>5. /\ Len(mz) = L + 3 /\ \A j \in 1 .. L : mz[j] = ms[j]
      /\ \A j \in 1 .. 3 : mz[L + j] = bs[j]
  <2>1. ms \in Seq(MouseByte) /\ bs \in Seq(MouseByte) /\ Len(bs) = 3 /\ Len(ms) = L
    BY <1>1
  <2>2. /\ Len(ms \o bs) = Len(ms) + Len(bs)
        /\ \A j \in 1 .. Len(ms) + Len(bs) :
             (ms \o bs)[j] = IF j <= Len(ms) THEN ms[j] ELSE bs[j - Len(ms)]
    BY ONLY <2>1, ConcatProperties, Zenon
  <2>3. Len(mz) = L + 3
    BY ONLY <1>4, <2>1, <2>2
  <2>4. ASSUME NEW j \in 1 .. L PROVE mz[j] = ms[j]
    <3>1. j \in 1 .. Len(ms) + Len(bs) /\ j <= Len(ms)
      BY <1>1, <2>1
    <3> QED
      BY ONLY <1>4, <2>2, <3>1
  <2>5. ASSUME NEW j \in 1 .. 3 PROVE mz[L + j] = bs[j]
    <3>1. L + j \in 1 .. Len(ms) + Len(bs) /\ ~(L + j <= Len(ms)) /\ L + j - Len(ms) = j
      BY <1>1, <2>1
    <3> QED
      BY ONLY <1>4, <2>2, <3>1
  <2> QED
    BY <2>3, <2>4, <2>5
<1>6. /\ a \in 0 .. L
      /\ \A j \in 1 .. a : ms[j].src = "ack"
      /\ \A j \in a + 1 .. L : ms[j].src = "aux" /\ ms[j].byte = Sent(pk, 3 * N - L + j - 1)
      /\ From(ob, "aux") => /\ a = 0 /\ ob[1].byte = Sent(pk, 3 * N - L - 1)
                            /\ 3 * m + c + 1 + L = 3 * N
      /\ ~From(ob, "aux") => 3 * m + c + L - a = 3 * N
      /\ \A j \in 1 .. c : gp[j] = Sent(pk, 3 * m + j - 1)
      /\ m <= N /\ \A k \in 1 .. m : sn[k] = pk[k]
  BY <1>1 DEF MouseStream
<1>7. /\ 3 * m + c + L - a <= 3 * N /\ 0 <= L - a
      /\ m \in Int /\ c \in Int /\ L \in Int /\ N \in Int /\ a \in Int
  <2>1. a \in Int /\ 0 <= a /\ a <= L /\ m \in Int /\ c \in Int /\ L \in Int /\ N \in Int
    BY <1>1, <1>6
  <2>2. CASE From(ob, "aux")
    <3>1. a = 0 /\ 3 * m + c + 1 + L = 3 * N
      BY <1>6, <2>2
    <3> QED
      BY <2>1, <3>1
  <2>3. CASE ~From(ob, "aux")
    <3>1. 3 * m + c + L - a = 3 * N
      BY <1>6, <2>3
    <3> QED
      BY <2>1, <3>1
  <2> QED
    BY <2>2, <2>3
<1>8. ASSUME NEW t \in Int, 0 <= t, t < 3 * N PROVE Sent(qk, t) = Sent(pk, t)
  <2>1. t \in Nat
    BY <1>8
  <2> QED
    BY <1>1, <1>2, <1>8, <2>1, SentMore
<1>9. ASSUME NEW j \in 1 .. a PROVE mz[j].src = "ack"
  <2>1. j \in 1 .. L
    BY <1>7
  <2>2. mz[j] = ms[j]
    BY <1>5, <2>1
  <2> QED
    BY <1>6, <2>2
<1>10. ASSUME NEW j \in a + 1 .. L + 3
       PROVE  mz[j].src = "aux" /\ mz[j].byte = Sent(qk, 3 * (N + 1) - (L + 3) + j - 1)
  <2>1. CASE j \in 1 .. L
    <3>1. mz[j] = ms[j] /\ j \in a + 1 .. L
      BY <1>1, <1>5, <1>6, <2>1
    <3>2. PICK t \in Int : t = 3 * N - L + j - 1 /\ 0 <= t /\ t < 3 * N
      <4>1. j \in Int /\ a + 1 <= j /\ j <= L /\ 0 <= m /\ 0 <= c
        BY <1>1, <1>7, <3>1
      <4>2. 3 * N - L + j - 1 \in Int /\ 0 <= 3 * N - L + j - 1 /\ 3 * N - L + j - 1 < 3 * N
        BY ONLY <1>7, <4>1
      <4> QED
        BY <4>2
    <3>3. 3 * (N + 1) - (L + 3) + j - 1 = t
      BY <1>1, <3>1, <3>2
    <3>4. Sent(qk, t) = Sent(pk, t)
      BY <1>8, <3>2
    <3>5. ms[j].src = "aux" /\ ms[j].byte = Sent(pk, t)
      BY <1>6, <3>1, <3>2
    <3> QED
      BY <3>1, <3>3, <3>4, <3>5
  <2>2. CASE j \notin 1 .. L
    <3>1. PICK r \in 1 .. 3 : j = L + r
      <4>1. j \in Int /\ j <= L + 3 /\ L < j
        BY <1>7, <2>2
      <4>2. j - L \in 1 .. 3 /\ j = L + (j - L)
        BY ONLY <1>7, <4>1
      <4> QED
        BY <4>2
    <3>2. mz[j].src = "aux" /\ mz[j].byte = p[r]
      BY <1>5, <3>1
    <3>3. Sent(qk, 3 * N + r - 1) = p[r]
      BY <1>1, <1>2, SentLast
    <3>4. 3 * (N + 1) - (L + 3) + j - 1 = 3 * N + r - 1
      BY <1>1, <3>1
    <3> QED
      BY <3>2, <3>3, <3>4
  <2> QED
    BY <2>1, <2>2
<1>11. From(ob, "aux") => /\ a = 0 /\ ob[1].byte = Sent(qk, 3 * (N + 1) - (L + 3) - 1)
                          /\ 3 * m + c + 1 + (L + 3) = 3 * (N + 1)
  <2> SUFFICES ASSUME From(ob, "aux")
               PROVE  /\ a = 0 /\ ob[1].byte = Sent(qk, 3 * (N + 1) - (L + 3) - 1)
                      /\ 3 * m + c + 1 + (L + 3) = 3 * (N + 1)
    OBVIOUS
  <2>1. PICK t \in Int : t = 3 * N - L - 1 /\ 0 <= t /\ t < 3 * N
    <3>1. 3 * m + c + 1 + L = 3 * N /\ 0 <= m /\ 0 <= c /\ 0 <= L
      BY <1>1, <1>6
    <3>2. 3 * N - L - 1 \in Int /\ 0 <= 3 * N - L - 1 /\ 3 * N - L - 1 < 3 * N
      BY ONLY <1>7, <3>1
    <3> QED
      BY <3>2
  <2>2. 3 * (N + 1) - (L + 3) - 1 = t /\ 3 * m + c + 1 + (L + 3) = 3 * (N + 1)
    <3>1. 3 * m + c + 1 + L = 3 * N
      BY <1>6
    <3> QED
      BY ONLY <1>7, <2>1, <3>1
  <2>3. Sent(qk, t) = Sent(pk, t) /\ ob[1].byte = Sent(pk, t) /\ a = 0
    BY <1>6, <1>8, <2>1
  <2> QED
    BY <2>2, <2>3
<1>12. ~From(ob, "aux") => 3 * m + c + (L + 3) - a = 3 * (N + 1)
  <2> SUFFICES ASSUME ~From(ob, "aux") PROVE 3 * m + c + (L + 3) - a = 3 * (N + 1)
    OBVIOUS
  <2>1. 3 * m + c + L - a = 3 * N
    BY <1>6
  <2> QED
    BY ONLY <1>7, <2>1
<1>13. ASSUME NEW j \in 1 .. c PROVE gp[j] = Sent(qk, 3 * m + j - 1)
  <2>1. PICK t \in Int : t = 3 * m + j - 1 /\ 0 <= t /\ t < 3 * N
    <3>1. j \in Int /\ 1 <= j /\ j <= c /\ 0 <= m
      BY <1>1
    <3>2. 3 * m + j - 1 \in Int /\ 0 <= 3 * m + j - 1 /\ 3 * m + j - 1 < 3 * N
      BY ONLY <1>7, <3>1
    <3> QED
      BY <3>2
  <2> QED
    BY <1>6, <1>8, <2>1
<1>14. m <= N + 1 /\ \A k \in 1 .. m : sn[k] = qk[k]
  BY <1>1, <1>3, <1>6
<1>15. a \in 0 .. L + 3
  BY <1>1, <1>6
<1>16. MouseStream(a, mz, ob, qk, sn, gp)
  BY <1>1, <1>3, <1>5, <1>9, <1>10, <1>11, <1>12, <1>13, <1>14, <1>15 DEF MouseStream
<1> QED
  BY <1>2, <1>4, <1>16

(* The mouse answers a command; it has sent no packet yet. *)
LEMMA MouseAnswered ==
  ASSUME NEW ms \in Seq(MouseByte), NEW ob, NEW sn \in Seq(Seq(Octet)), NEW gp \in Seq(Octet),
         NEW a \in 0 .. Len(ms), MouseStream(a, ms, ob, << >>, sn, gp),
         NEW r, r.src = "ack", NEW mz, mz = Append(ms, r)
  PROVE  a + 1 \in 0 .. Len(mz) /\ MouseStream(a + 1, mz, ob, << >>, sn, gp)
<1>1. PICK L \in Nat, m \in Nat, c \in Nat : L = Len(ms) /\ m = Len(sn) /\ c = Len(gp)
  OBVIOUS
<1>2. Len(<< >>) = 0
  OBVIOUS
<1>3. /\ a \in 0 .. L /\ \A j \in 1 .. a : ms[j].src = "ack"
      /\ From(ob, "aux") => 3 * m + c + 1 + L = 0
      /\ ~From(ob, "aux") => 3 * m + c + L - a = 0
      /\ \A j \in 1 .. c : gp[j] = Sent(<< >>, 3 * m + j - 1)
      /\ m <= 0 /\ \A k \in 1 .. m : sn[k] = << >>[k]
  BY <1>1, <1>2 DEF MouseStream
<1>4. ~From(ob, "aux") /\ a = L /\ m = 0 /\ c = 0
  BY <1>1, <1>3
<1>5. Len(mz) = L + 1 /\ mz[L + 1] = r /\ \A j \in 1 .. L : mz[j] = ms[j]
  BY <1>1
<1>6. \A j \in 1 .. a + 1 : mz[j].src = "ack"
  BY <1>1, <1>3, <1>4, <1>5
<1>7. a + 1 \in 0 .. L + 1 /\ ~(\E j \in (a + 1) + 1 .. L + 1 : TRUE)
      /\ 3 * m + c + (L + 1) - (a + 1) = 3 * 0
  BY <1>1, <1>4
<1> QED
  BY <1>1, <1>2, <1>3, <1>4, <1>5, <1>6, <1>7 DEF MouseStream

(* Neither the byte before nor the one after is a mouse's. *)
LEMMA MouseOther ==
  ASSUME NEW a, NEW ms, NEW ob, NEW oz, ~From(ob, "aux"), ~From(oz, "aux"), NEW pk, NEW sn,
         NEW gp, MouseStream(a, ms, ob, pk, sn, gp)
  PROVE  MouseStream(a, ms, oz, pk, sn, gp)
BY DEF MouseStream

(* The output buffer takes a byte of the mouse. *)
LEMMA MouseLoaded ==
  ASSUME NEW ms \in Seq(MouseByte), ms # << >>, NEW pk \in Seq(PacketsSent),
         NEW sn \in Seq(Seq(Octet)), NEW gp \in Seq(Octet), NEW a \in 0 .. Len(ms),
         MouseStream(a, ms, << >>, pk, sn, gp), NEW oz, oz = << Head(ms) >>
  PROVE  \E b \in 0 .. Len(Tail(ms)) : MouseStream(b, Tail(ms), oz, pk, sn, gp)
<1>a. PICK N \in Nat, L \in Nat, m \in Nat, c \in Nat :
        N = Len(pk) /\ L = Len(ms) /\ m = Len(sn) /\ c = Len(gp)
  OBVIOUS
<1>1. /\ N = Len(pk) /\ L = Len(ms) /\ m = Len(sn) /\ c = Len(gp) /\ a \in 0 .. L
      /\ \A j \in 1 .. a : ms[j].src = "ack"
      /\ \A j \in a + 1 .. L : ms[j].src = "aux" /\ ms[j].byte = Sent(pk, 3 * N - L + j - 1)
      /\ From(<< >>, "aux") => /\ a = 0 /\ << >>[1].byte = Sent(pk, 3 * N - L - 1)
                               /\ 3 * m + c + 1 + L = 3 * N
      /\ ~From(<< >>, "aux") => 3 * m + c + L - a = 3 * N
      /\ \A j \in 1 .. c : gp[j] = Sent(pk, 3 * m + j - 1)
      /\ m <= N /\ \A k \in 1 .. m : sn[k] = pk[k]
  BY <1>a DEF MouseStream
<1>2. PICK mz : mz = Tail(ms)
  OBVIOUS
<1>3. /\ Len(mz) = L - 1 /\ 1 <= L /\ \A j \in 1 .. L - 1 : mz[j] = ms[j + 1]
      /\ oz # << >> /\ oz[1] = ms[1]
  BY <1>1, <1>2
<1>4. 3 * m + c + L - a = 3 * N /\ a \in Int /\ 0 <= a /\ a <= L
  BY <1>1 DEF From
<1>5. CASE a = 0
  <2>1. ms[1].src = "aux" /\ ms[1].byte = Sent(pk, 3 * N - L + 1 - 1)
    <3>1. 1 \in a + 1 .. L
      BY <1>3, <1>5
    <3> QED
      BY <1>1, <3>1
  <2>2. 3 * N - L + 1 - 1 = 3 * N - (L - 1) - 1
    BY <1>1
  <2>3. From(oz, "aux") /\ oz[1].byte = Sent(pk, 3 * N - (L - 1) - 1)
    BY <1>3, <2>1, <2>2 DEF From
  <2>4. 3 * m + c + 1 + (L - 1) = 3 * N
    BY ONLY <1>1, <1>4, <1>5
  <2>5. ASSUME NEW j \in 0 + 1 .. L - 1
        PROVE  mz[j].src = "aux" /\ mz[j].byte = Sent(pk, 3 * N - (L - 1) + j - 1)
    <3>1. mz[j] = ms[j + 1] /\ j + 1 \in a + 1 .. L
      BY <1>1, <1>3, <1>5
    <3>2. 3 * N - L + (j + 1) - 1 = 3 * N - (L - 1) + j - 1
      BY <1>1
    <3> QED
      BY <1>1, <3>1, <3>2
  <2>6. 0 \in 0 .. L - 1 /\ \A j \in 1 .. 0 : mz[j].src = "ack"
    BY <1>1, <1>3
  <2>7. MouseStream(0, mz, oz, pk, sn, gp)
    BY <1>1, <1>3, <2>3, <2>4, <2>5, <2>6 DEF MouseStream
  <2> QED
    BY <1>2, <1>3, <2>6, <2>7
<1>6. CASE a # 0
  <2>1. 1 \in 1 .. a /\ a - 1 \in 0 .. L - 1 /\ a - 1 \in Int
    BY <1>4, <1>6
  <2>2. ms[1].src = "ack"
    BY <1>1, <2>1
  <2>3. ~From(oz, "aux")
    BY <1>3, <2>2 DEF From
  <2>4. 3 * m + c + (L - 1) - (a - 1) = 3 * N
    BY ONLY <1>1, <1>4
  <2>5. ASSUME NEW j \in (a - 1) + 1 .. L - 1
        PROVE  mz[j].src = "aux" /\ mz[j].byte = Sent(pk, 3 * N - (L - 1) + j - 1)
    <3>1. j \in 1 .. L - 1 /\ j + 1 \in a + 1 .. L
      BY <1>1, <1>4, <1>6
    <3>2. mz[j] = ms[j + 1]
      BY <1>3, <3>1
    <3>3. 3 * N - L + (j + 1) - 1 = 3 * N - (L - 1) + j - 1
      BY <1>1
    <3> QED
      BY <1>1, <3>1, <3>2, <3>3
  <2>6. ASSUME NEW j \in 1 .. a - 1 PROVE mz[j].src = "ack"
    <3>1. j \in 1 .. L - 1 /\ j + 1 \in 1 .. a
      BY <1>1, <1>4
    <3> QED
      BY <1>1, <1>3, <3>1
  <2>7. MouseStream(a - 1, mz, oz, pk, sn, gp)
    BY <1>1, <1>3, <2>1, <2>3, <2>4, <2>5, <2>6 DEF MouseStream
  <2> QED
    BY <1>2, <1>3, <2>1, <2>7
<1> QED
  BY <1>5, <1>6

(* The mouse's handler reads a byte of the mouse: it is the next byte of the *)
(* packet being assembled, and a full packet is the next one sent.           *)
LEMMA MouseRead ==
  ASSUME NEW ms \in Seq(MouseByte), NEW ob, From(ob, "aux"), NEW pk \in Seq(PacketsSent),
         NEW sn \in Seq(Seq(Octet)), NEW gp \in Seq(Octet), Len(gp) <= 2,
         NEW a \in 0 .. Len(ms), MouseStream(a, ms, ob, pk, sn, gp),
         NEW x \in Octet, x = ob[1].byte, NEW gz, gz = Append(gp, x)
  PROVE  /\ Len(gp) < 2 => MouseStream(a, ms, << >>, pk, sn, gz)
         /\ Len(gp) = 2 => MouseStream(a, ms, << >>, pk, Append(sn, gz), << >>)
         /\ Len(gp) = 0 => (x \div 8) % 2 = 1
<1>a. PICK N \in Nat, L \in Nat, m \in Nat, c \in Nat :
        N = Len(pk) /\ L = Len(ms) /\ m = Len(sn) /\ c = Len(gp)
  OBVIOUS
<1>1. /\ N = Len(pk) /\ L = Len(ms) /\ m = Len(sn) /\ c = Len(gp) /\ a \in 0 .. L
      /\ \A j \in 1 .. a : ms[j].src = "ack"
      /\ \A j \in a + 1 .. L : ms[j].src = "aux" /\ ms[j].byte = Sent(pk, 3 * N - L + j - 1)
      /\ From(ob, "aux") => /\ a = 0 /\ ob[1].byte = Sent(pk, 3 * N - L - 1)
                               /\ 3 * m + c + 1 + L = 3 * N
      /\ ~From(ob, "aux") => 3 * m + c + L - a = 3 * N
      /\ \A j \in 1 .. c : gp[j] = Sent(pk, 3 * m + j - 1)
      /\ m <= N /\ \A k \in 1 .. m : sn[k] = pk[k]
  BY <1>a DEF MouseStream
<1>2. a = 0 /\ x = Sent(pk, 3 * N - L - 1) /\ 3 * m + c + 1 + L = 3 * N /\ c \in 0 .. 2
  <2>1. Len(gp) <= 2 /\ c = Len(gp) /\ c \in Nat
    BY <1>a
  <2>2. c \in 0 .. 2
    BY ONLY <2>1
  <2> QED
    BY <1>1, <2>2
<1>3. 3 * N - L - 1 = 3 * m + c /\ m < N /\ m + 1 \in 1 .. N
  BY ONLY <1>1, <1>2
<1>4. x = pk[m + 1][c + 1] /\ x = Sent(pk, 3 * m + c)
  <2>1. x = Sent(pk, 3 * m + c) /\ m \in Nat /\ c \in 0 .. 2
    BY <1>1, <1>2, <1>3
  <2>2. Sent(pk, 3 * m + c) = pk[m + 1][c + 1]
    BY ONLY <2>1, SentAt
  <2> QED
    BY ONLY <2>1, <2>2
<1>5. pk[m + 1] \in PacketsSent
  BY <1>1, <1>3
<1>6. pk[m + 1] \in Seq(Octet) /\ Len(pk[m + 1]) = 3 /\ (pk[m + 1][1] \div 8) % 2 = 1
  BY <1>5, PsFacts
<1>7. Len(gz) = c + 1 /\ gz[c + 1] = x /\ \A j \in 1 .. c : gz[j] = gp[j]
  BY <1>1
<1>8. ~From(<< >>, "aux")
  BY DEF From
<1>9. ASSUME NEW j \in 1 .. c + 1 PROVE gz[j] = Sent(pk, 3 * m + j - 1)
  <2>1. CASE j = c + 1
    <3>1. 3 * m + (c + 1) - 1 = 3 * m + c
      BY <1>1
    <3> QED
      BY <1>4, <1>7, <2>1, <3>1
  <2>2. CASE j # c + 1
    <3>1. j \in 1 .. c
      BY <1>1, <2>2
    <3> QED
      BY <1>1, <1>7, <3>1
  <2> QED
    BY <2>1, <2>2
<1>10. ASSUME c < 2 PROVE MouseStream(a, ms, << >>, pk, sn, gz)
  <2>1. 3 * m + (c + 1) + L - a = 3 * N
    BY ONLY <1>1, <1>2
  <2> QED
    BY <1>1, <1>7, <1>8, <1>9, <2>1 DEF MouseStream
<1>11. ASSUME c = 2 PROVE MouseStream(a, ms, << >>, pk, Append(sn, gz), << >>)
  <2>1. gz = pk[m + 1]
    <3>1. ASSUME NEW j \in 1 .. 3 PROVE gz[j] = pk[m + 1][j]
      <4>1. j - 1 \in 0 .. 2 /\ 3 * m + j - 1 = 3 * m + (j - 1) /\ (j - 1) + 1 = j
            /\ j \in 1 .. c + 1
        BY <1>1, <1>11
      <4>2. PICK i0 \in 0 .. 2 : i0 = j - 1
        BY <4>1
      <4>3. Sent(pk, 3 * m + i0) = pk[m + 1][i0 + 1]
        BY SentAt
      <4> QED
        BY <1>9, <4>1, <4>2, <4>3
    <3>2. gz \in Seq(Octet) /\ Len(gz) = 3
      BY <1>1, <1>7, <1>11
    <3>3. ASSUME NEW s \in Seq(Octet), NEW r \in Seq(Octet), Len(s) = 3, Len(r) = 3,
                 \A j \in 1 .. 3 : s[j] = r[j]
          PROVE  s = r
      BY <3>3, SeqEqual
    <3> QED
      BY <1>6, <3>1, <3>2, <3>3
  <2>2. PICK sz : sz = Append(sn, gz)
    OBVIOUS
  <2>3. gz \in Seq(Octet)
    BY <1>6, <2>1
  <2>4. Len(sz) = m + 1 /\ sz[m + 1] = gz /\ \A k \in 1 .. m : sz[k] = sn[k]
    BY <1>1, <2>2, <2>3
  <2>5. ASSUME NEW k \in 1 .. m + 1 PROVE sz[k] = pk[k]
    <3>1. CASE k = m + 1
      BY <2>1, <2>4, <3>1
    <3>2. CASE k # m + 1
      <4>1. k \in 1 .. m
        BY <1>1, <3>2
      <4> QED
        BY <1>1, <2>4, <4>1
    <3> QED
      BY <3>1, <3>2
  <2>6. 3 * (m + 1) + 0 + L - a = 3 * N /\ m + 1 <= N
    BY ONLY <1>1, <1>2, <1>3, <1>11
  <2>7. Len(<< >>) = 0 /\ \A j \in 1 .. 0 : << >>[j] = Sent(pk, 3 * (m + 1) + j - 1)
    OBVIOUS
  <2>8. MouseStream(a, ms, << >>, pk, sz, << >>)
    BY <1>1, <1>8, <2>4, <2>5, <2>6, <2>7 DEF MouseStream
  <2> QED
    BY <2>2, <2>8
<1>12. ASSUME c = 0 PROVE (x \div 8) % 2 = 1
  <2>1. c + 1 = 1
    BY <1>12
  <2>2. x = pk[m + 1][1]
    BY <1>4, <2>1
  <2> QED
    BY <1>6, <2>2
<1> QED
  BY <1>1, <1>10, <1>11, <1>12

-----------------------------------------------------------------------------
(* The controller. *)

LEMMA ObfFacts ==
  ASSUME NEW ob \in ObfStates, ob # << >>
  PROVE  /\ ob[1].byte \in Octet /\ ob[1].src \in {"kbd", "aux", "ack", "ctl"}
         /\ ob = << ob[1] >> /\ Len(ob) = 1
         /\ \A src : From(ob, src) <=> ob[1].src = src
<1>1. PICK r \in [src : {"kbd", "aux", "ack", "ctl"}, byte : Octet] : ob = << r >>
  BY DEF ObfStates
<1>2. ob[1] = r /\ Len(ob) = 1
  BY <1>1
<1> QED
  BY <1>1, <1>2 DEF From

LEMMA NoByte == \A src : ~From(<< >>, src)
BY DEF From

LEMMA CfgBits ==
  /\ \A x : P!bits_of(x) \subseteq CfgFlags
  /\ P!byte_of(Sane) \in 0 .. 127 /\ P!bits_of(P!byte_of(Sane)) = Sane
<1>1. DOMAIN P!ConfigBits = CfgFlags
  BY DEF P!ConfigBits, CfgFlags
<1>2. \A x : P!bits_of(x) \subseteq CfgFlags
  BY <1>1 DEF P!bits_of
<1>3. /\ P!ConfigBits["irq1"] = 1 /\ P!ConfigBits["irq12"] = 2 /\ P!ConfigBits["kbd_off"] = 16
      /\ P!ConfigBits["aux_off"] = 32 /\ P!ConfigBits["translate"] = 64
  BY DEF P!ConfigBits
<1>4. /\ P!Bit(65, 1) = 1 /\ P!Bit(65, 2) # 1 /\ P!Bit(65, 16) # 1 /\ P!Bit(65, 32) # 1
      /\ P!Bit(65, 64) = 1
  BY DEF P!Bit
<1>5. \A x \in CfgFlags : P!Bit(65, P!ConfigBits[x]) = 1 <=> x \in Sane
  BY <1>3, <1>4 DEF CfgFlags, Sane
<1>6. P!bits_of(65) = Sane
  <2>1. P!bits_of(65) = {x \in CfgFlags : P!Bit(65, P!ConfigBits[x]) = 1}
    BY <1>1 DEF P!bits_of
  <2>2. Sane \subseteq CfgFlags
    BY DEF Sane, CfgFlags
  <2> QED
    BY <1>5, <2>1, <2>2
<1>7. \E b \in 0 .. 127 : P!bits_of(b) = Sane
  BY <1>6
<1> QED
  BY <1>2, <1>7 DEF P!byte_of

(* The types, action by action. *)
LEMMA FlagsTaken ==
  ASSUME FlagTypes, BufferTypes, P!Taken
  PROVE  lostKey' \in BOOLEAN /\ lostMouse' \in BOOLEAN
BY DEF FlagTypes, P!Taken

LEMMA TypesStroke ==
  ASSUME PsTypes, NEW c \in KeysUsed, NEW up \in BOOLEAN, P!Stroke(c, up)
  PROVE  PsTypes'
<1>1. UNCHANGED << boot, cfg, obf, irq1, irq12, msend, reply, reports, mouse_packets, g_e0, mods,
                   g_caps, kbd_events, g_packet, mouse_x, mouse_y, seen, lostKey, lostMouse,
                   foreign, misread >>
  BY DEF P!Stroke, P!kbd, P!mouse, P!faults
<1>2. FlagTypes' /\ BufferTypes' /\ MouseTypes'
  BY <1>1 DEF PsTypes, FlagTypes, BufferTypes, MouseTypes
<1>3. c \in Octet
  BY PsFacts
<1>4. PICK st : st = [scancode |-> c, pressed |-> ~up]
  OBVIOUS
<1>5. st \in P!Stroke_ /\ st.scancode = c
  BY <1>3, <1>4 DEF Octet, P!Stroke_
<1>6. P!Pair(c, up) \in Seq(Octet)
  BY <1>3, <1>4, PairFacts
<1>7. ksend' = ksend \o P!Pair(c, up) /\ typed' = Append(typed, st)
      /\ down' \subseteq down \cup {c}
  BY <1>4 DEF P!Stroke
<1>8. ksend \in Seq(Octet) /\ typed \in Seq(P!Stroke_) /\ down \subseteq KeysUsed
      /\ \A k \in 1 .. Len(typed) : typed[k].scancode \in KeysUsed
  BY DEF PsTypes, KeyTypes
<1>9. ksend' \in Seq(Octet) /\ down' \subseteq KeysUsed
  BY <1>6, <1>7, <1>8
<1>10. typed' \in Seq(P!Stroke_) /\ \A k \in 1 .. Len(typed') : typed'[k].scancode \in KeysUsed
  BY <1>5, <1>7, <1>8
<1>11. KeyTypes'
  BY <1>1, <1>9, <1>10 DEF PsTypes, KeyTypes
<1> QED
  BY <1>2, <1>11 DEF PsTypes

LEMMA TypesMoves ==
  ASSUME PsTypes, NEW p \in PacketsSent, P!Moves(p)
  PROVE  PsTypes'
<1>1. UNCHANGED << boot, cfg, obf, irq1, irq12, ksend, reply, reports, down, typed, g_e0, mods,
                   g_caps, kbd_events, g_packet, mouse_x, mouse_y, seen, lostKey, lostMouse,
                   foreign, misread >>
  BY DEF P!Moves, P!kbd, P!mouse, P!faults
<1>2. FlagTypes' /\ BufferTypes' /\ KeyTypes'
  BY <1>1 DEF PsTypes, FlagTypes, BufferTypes, KeyTypes
<1>3. PICK bs : bs = [j \in 1 .. 3 |-> [src |-> "aux", byte |-> p[j]]]
  OBVIOUS
<1>4. bs \in Seq(MouseByte)
  <2>1. p[1] \in Octet /\ p[2] \in Octet /\ p[3] \in Octet
    BY PsFacts
  <2>2. \A j \in 1 .. 3 : [src |-> "aux", byte |-> p[j]] \in MouseByte
    BY <2>1 DEF MouseByte
  <2> QED
    BY <1>3, <2>2
<1>5. msend' = msend \o bs /\ mouse_packets' = Append(mouse_packets, p)
  BY <1>3 DEF P!Moves
<1>6. msend \in Seq(MouseByte) /\ mouse_packets \in Seq(PacketsSent)
  BY DEF PsTypes, MouseTypes, MouseByte
<1>7. msend' \in Seq(MouseByte) /\ mouse_packets' \in Seq(PacketsSent)
  BY <1>4, <1>5, <1>6
<1>8. MouseTypes'
  BY <1>1, <1>7 DEF PsTypes, MouseTypes, MouseByte
<1> QED
  BY <1>2, <1>8 DEF PsTypes

LEMMA TypesLoad ==
  ASSUME PsTypes, P!Load
  PROVE  PsTypes'
<1>1. UNCHANGED << boot, cfg, reports, down, typed, mouse_packets, g_e0, mods, g_caps, kbd_events,
                   g_packet, mouse_x, mouse_y, seen, lostKey, lostMouse, foreign, misread >>
  BY DEF P!Load, P!kbd, P!mouse, P!faults
<1>2. irq1' \in BOOLEAN /\ irq12' \in BOOLEAN
  BY DEF P!Load, PsTypes, FlagTypes
<1>3. FlagTypes'
  BY <1>1, <1>2 DEF PsTypes, FlagTypes
<1>4. /\ obf \in ObfStates /\ reply \in Answers /\ ksend \in Seq(Octet)
      /\ msend \in Seq(MouseByte) /\ P!byte_of(Sane) \in Octet
  BY CfgBits DEF PsTypes, BufferTypes, KeyTypes, MouseTypes, MouseByte, Octet
<1>5. CASE /\ ksend # << >> /\ ksend' = Tail(ksend) /\ UNCHANGED << msend, reply >>
           /\ obf' = << [src |-> "kbd", byte |-> IF "translate" \in cfg THEN Head(ksend) ELSE 0] >>
  <2>z. 0 \in Octet
    BY DEF Octet
  <2>a. Head(ksend) \in Octet /\ Tail(ksend) \in Seq(Octet)
    BY <1>4, <1>5, HeadTailProperties
  <2>1. Head(ksend) \in Octet /\ 0 \in Octet /\ ksend' \in Seq(Octet)
    BY <1>5, <2>z, <2>a
  <2>2. [src |-> "kbd", byte |-> IF "translate" \in cfg THEN Head(ksend) ELSE 0]
          \in [src : {"kbd", "aux", "ack", "ctl"}, byte : Octet]
    BY <2>1
  <2>3. obf' \in ObfStates /\ ~From(obf', "ctl")
    BY <1>5, <2>2 DEF ObfStates, From
  <2>4. BufferTypes' /\ MouseTypes'
    BY <1>1, <1>5, <2>3 DEF PsTypes, BufferTypes, MouseTypes
  <2>5. KeyTypes'
    BY <1>1, <2>1 DEF PsTypes, KeyTypes
  <2> QED
    BY <1>3, <2>4, <2>5 DEF PsTypes
<1>6. CASE /\ msend # << >> /\ msend' = Tail(msend) /\ UNCHANGED << ksend, reply >>
           /\ obf' = << Head(msend) >>
  <2>1. Head(msend) \in MouseByte /\ msend' \in Seq(MouseByte)
    BY <1>4, <1>6
  <2>2. Head(msend) \in [src : {"kbd", "aux", "ack", "ctl"}, byte : Octet]
        /\ Head(msend).src # "ctl"
    BY <2>1 DEF MouseByte
  <2>3. obf' \in ObfStates /\ ~From(obf', "ctl")
    BY <1>6, <2>2 DEF ObfStates, From
  <2>4. BufferTypes' /\ KeyTypes'
    BY <1>1, <1>6, <2>3 DEF PsTypes, BufferTypes, KeyTypes
  <2>5. MouseTypes'
    BY <1>1, <2>1 DEF PsTypes, MouseTypes, MouseByte
  <2> QED
    BY <1>3, <2>4, <2>5 DEF PsTypes
<1>7. CASE reply # << >> /\ obf' = reply /\ reply' = << >> /\ UNCHANGED << ksend, msend >>
  <2>1. reply = << [src |-> "ctl", byte |-> P!byte_of(Sane)] >>
    BY <1>4, <1>7 DEF Answers
  <2>2. [src |-> "ctl", byte |-> P!byte_of(Sane)]
          \in [src : {"kbd", "aux", "ack", "ctl"}, byte : Octet]
    BY <1>4
  <2>3. obf' \in ObfStates /\ obf'[1].byte = P!byte_of(Sane)
    BY <1>7, <2>1, <2>2 DEF ObfStates
  <2>4. BufferTypes' /\ KeyTypes' /\ MouseTypes'
    BY <1>1, <1>7, <2>3 DEF PsTypes, BufferTypes, KeyTypes, MouseTypes, Answers
  <2> QED
    BY <1>3, <2>4 DEF PsTypes
<1> QED
  BY <1>5, <1>6, <1>7 DEF P!Load

(* The steps of initialisation touch the buffer, the flags and the queue   *)
(* of the mouse.                                                           *)
LEMMA TypesBoot ==
  ASSUME PsTypes, FlagTypes', obf' \in {obf, << >>}, reply' \in Answers,
         UNCHANGED << ksend, down, typed, mouse_packets, g_e0, mods, g_caps, kbd_events,
                      g_packet, mouse_x, mouse_y, seen >>,
         msend' \in Seq(MouseByte)
  PROVE  PsTypes'
<1>1. BufferTypes'
  BY NoByte DEF PsTypes, BufferTypes, ObfStates
<1>2. KeyTypes' /\ MouseTypes'
  BY DEF PsTypes, KeyTypes, MouseTypes, MouseByte
<1> QED
  BY <1>1, <1>2 DEF PsTypes

LEMMA TypesFlush ==
  ASSUME PsTypes, NEW here, NEW next \in PsSteps, P!flush(here, next)
  PROVE  PsTypes'
<1>1. UNCHANGED << cfg, irq1, irq12, ksend, msend, reply, reports, down, typed, mouse_packets,
                   g_e0, mods, g_caps, kbd_events, g_packet, mouse_x, mouse_y, seen, foreign,
                   misread >>
  BY DEF P!flush, P!device, P!kbd, P!mouse
<1>2. lostKey' \in BOOLEAN /\ lostMouse' \in BOOLEAN /\ boot' \in PsSteps
      /\ obf' \in {obf, << >>}
  BY DEF P!flush, P!Taken, PsTypes, FlagTypes
<1>3. FlagTypes' /\ reply' \in Answers /\ msend' \in Seq(MouseByte)
  BY <1>1, <1>2 DEF PsTypes, FlagTypes, BufferTypes, MouseTypes, MouseByte
<1> QED
  BY <1>1, <1>2, <1>3, TypesBoot

LEMMA TypesAck ==
  ASSUME PsTypes, NEW here, NEW next \in PsSteps, P!take_ack(here, next)
  PROVE  PsTypes'
<1>1. UNCHANGED << cfg, irq1, irq12, ksend, msend, reply, reports, down, typed, mouse_packets,
                   g_e0, mods, g_caps, kbd_events, g_packet, mouse_x, mouse_y, seen, foreign,
                   misread >>
  BY DEF P!take_ack, P!device, P!kbd, P!mouse
<1>2. lostKey' \in BOOLEAN /\ lostMouse' \in BOOLEAN /\ boot' \in PsSteps
      /\ obf' \in {obf, << >>}
  BY DEF P!take_ack, P!Taken, PsTypes, FlagTypes
<1>3. FlagTypes' /\ reply' \in Answers /\ msend' \in Seq(MouseByte)
  BY <1>1, <1>2 DEF PsTypes, FlagTypes, BufferTypes, MouseTypes, MouseByte
<1> QED
  BY <1>1, <1>2, <1>3, TypesBoot

LEMMA TypesAux ==
  ASSUME PsTypes, P!enable_aux
  PROVE  PsTypes'
<1>1. UNCHANGED << obf, irq1, irq12, ksend, msend, reply, reports, down, typed, mouse_packets,
                   g_e0, mods, g_caps, kbd_events, g_packet, mouse_x, mouse_y, seen, lostKey,
                   lostMouse, foreign, misread >>
  BY DEF P!enable_aux, P!device, P!kbd, P!mouse, P!faults
<1>2. boot' \in PsSteps /\ cfg' \subseteq cfg
  BY DEF P!enable_aux, PsSteps
<1>3. FlagTypes' /\ reply' \in Answers /\ msend' \in Seq(MouseByte)
  BY <1>1, <1>2 DEF PsTypes, FlagTypes, BufferTypes, MouseTypes, MouseByte
<1> QED
  BY <1>1, <1>3, TypesBoot

LEMMA TypesReadCfg ==
  ASSUME PsTypes, CfgGood, P!read_cfg
  PROVE  PsTypes'
<1>1. UNCHANGED << cfg, obf, irq1, irq12, ksend, msend, reports, down, typed, mouse_packets,
                   g_e0, mods, g_caps, kbd_events, g_packet, mouse_x, mouse_y, seen, lostKey,
                   lostMouse, foreign >>
  BY DEF P!read_cfg, P!kbd, P!mouse
<1>2. boot' \in PsSteps /\ misread' \in BOOLEAN
  BY DEF P!read_cfg, PsSteps, PsTypes, FlagTypes
<1>3. cfg = Sane
  BY DEF P!read_cfg, CfgGood
<1>4. reply' \in Answers
  BY <1>3 DEF P!read_cfg, Answers, PsTypes, BufferTypes
<1>5. FlagTypes' /\ msend' \in Seq(MouseByte)
  BY <1>1, <1>2 DEF PsTypes, FlagTypes, MouseTypes, MouseByte
<1> QED
  BY <1>1, <1>4, <1>5, TypesBoot

LEMMA TypesWriteCfg ==
  ASSUME PsTypes, P!write_cfg
  PROVE  PsTypes'
<1>1. UNCHANGED << irq1, irq12, ksend, msend, reply, reports, down, typed, mouse_packets,
                   g_e0, mods, g_caps, kbd_events, g_packet, mouse_x, mouse_y, seen, foreign >>
  BY DEF P!write_cfg, P!device, P!kbd, P!mouse
<1>2. boot' \in PsSteps /\ misread' \in BOOLEAN /\ lostKey' \in BOOLEAN /\ lostMouse' \in BOOLEAN
      /\ obf' \in {obf, << >>}
  BY DEF P!write_cfg, P!Taken, PsSteps, PsTypes, FlagTypes
<1>3. cfg' \subseteq CfgFlags
  <2>1. \A bits : bits \subseteq CfgFlags => P!written(bits) \subseteq CfgFlags
    BY DEF P!written, CfgFlags
  <2>2. P!written({}) \subseteq CfgFlags /\ \A x : P!written(P!bits_of(x)) \subseteq CfgFlags
    BY <2>1, CfgBits
  <2> QED
    BY <2>2 DEF P!write_cfg, PsTypes, FlagTypes
<1>4. FlagTypes' /\ reply' \in Answers /\ msend' \in Seq(MouseByte)
  BY <1>1, <1>2, <1>3 DEF PsTypes, FlagTypes, BufferTypes, MouseTypes, MouseByte
<1> QED
  BY <1>1, <1>2, <1>4, TypesBoot

LEMMA TypesDevice ==
  ASSUME PsTypes, NEW here, NEW ack \in PsSteps, P!write_device(here, ack)
  PROVE  PsTypes'
<1>1. UNCHANGED << cfg, obf, irq1, irq12, ksend, reply, down, typed, mouse_packets,
                   g_e0, mods, g_caps, kbd_events, g_packet, mouse_x, mouse_y, seen, lostKey,
                   lostMouse, foreign, misread >>
  BY DEF P!write_device, P!kbd, P!mouse, P!faults
<1>2. boot' \in PsSteps /\ reports' \in BOOLEAN
  BY DEF P!write_device, PsTypes, FlagTypes
<1>3. msend \in Seq(MouseByte) /\ [src |-> "ack", byte |-> P!ACK] \in MouseByte
  BY DEF PsTypes, MouseTypes, MouseByte, Octet, P!ACK
<1>4. msend' \in Seq(MouseByte)
  BY <1>3 DEF P!write_device
<1>5. FlagTypes' /\ reply' \in Answers
  BY <1>1, <1>2 DEF PsTypes, FlagTypes, BufferTypes
<1> QED
  BY <1>1, <1>4, <1>5, TypesBoot

(* What keyboard_process_scancode does with a byte. *)
LEMMA ScancodeFacts ==
  ASSUME PsTypes, NEW raw \in Octet, P!keyboard_process_scancode(raw)
  PROVE  /\ raw = 224 => g_e0' = TRUE /\ UNCHANGED << mods, g_caps, kbd_events >>
         /\ raw # 224 => /\ g_e0' = FALSE /\ g_caps' \in BOOLEAN
                         /\ kbd_events' = Append(kbd_events, Decoded(raw, g_e0))
                         /\ Decoded(raw, g_e0) \in P!Stroke_
         /\ raw # 224 /\ raw >= 128 => mods' = mods \ P!modifier_of(raw % 128)
         /\ raw # 224 /\ ~(raw >= 128) => mods' = mods \cup P!modifier_of(raw % 128)
<1>1. raw \in 0 .. 255 /\ raw % 128 \in 0 .. 127 /\ (raw % 128) + 128 \in 0 .. 255
  BY DEF Octet
<1>2. raw = 224 => g_e0' = TRUE /\ UNCHANGED << mods, g_caps, kbd_events >>
  BY DEF P!keyboard_process_scancode, P!E0
<1>3. ASSUME raw # 224
      PROVE  /\ g_e0' = FALSE /\ g_caps' \in BOOLEAN
             /\ kbd_events' = Append(kbd_events, [scancode |-> P!code_of(raw % 128),
                                                  pressed |-> ~(raw >= 128)])
             /\ mods' = IF raw >= 128 THEN mods \ P!modifier_of(raw % 128)
                                      ELSE mods \cup P!modifier_of(raw % 128)
  BY <1>3 DEF P!keyboard_process_scancode, P!E0
<1>4. [scancode |-> P!code_of(raw % 128), pressed |-> ~(raw >= 128)] = Decoded(raw, g_e0)
  BY DEF P!code_of, Decoded
<1>5. Decoded(raw, g_e0) \in P!Stroke_
  <2>1. (IF g_e0 THEN (raw % 128) + 128 ELSE raw % 128) \in 0 .. 255
    BY <1>1
  <2>2. (~(raw >= 128)) \in BOOLEAN
    OBVIOUS
  <2> QED
    BY <2>1, <2>2 DEF Decoded, P!Stroke_
<1> QED
  BY <1>2, <1>3, <1>4, <1>5

LEMMA TypesKeyIrq ==
  ASSUME PsTypes, P!keyboard_handle_irq
  PROVE  PsTypes'
<1>1. /\ UNCHANGED << boot, cfg, irq12, ksend, msend, reply, reports, down, typed, mouse_packets,
                      g_packet, mouse_x, mouse_y, seen, lostKey, misread >>
      /\ irq1' = FALSE
  BY DEF P!keyboard_handle_irq, P!device, P!mouse
<1>2. foreign' \in BOOLEAN /\ lostMouse' \in BOOLEAN /\ obf' = << >>
  BY DEF P!keyboard_handle_irq, PsTypes, FlagTypes
<1>3. FlagTypes' /\ MouseTypes'
  BY <1>1, <1>2 DEF PsTypes, FlagTypes, MouseTypes
<1>4. BufferTypes'
  BY <1>1, <1>2, NoByte DEF PsTypes, BufferTypes, ObfStates
<1>5. kbd_events' \in Seq(P!Stroke_) /\ g_e0' \in BOOLEAN /\ g_caps' \in BOOLEAN
      /\ mods' \subseteq {"shift", "ctrl", "alt"}
  <2>1. /\ kbd_events \in Seq(P!Stroke_) /\ g_e0 \in BOOLEAN /\ g_caps \in BOOLEAN
        /\ mods \subseteq {"shift", "ctrl", "alt"} /\ obf \in ObfStates
    BY DEF PsTypes, KeyTypes, BufferTypes
  <2>2. CASE UNCHANGED P!kbd
    BY <2>1, <2>2 DEF P!kbd
  <2>3. CASE obf # << >> /\ P!keyboard_process_scancode(obf[1].byte)
    <3>z. obf[1].byte \in Octet
      BY <2>1, <2>3, ObfFacts
    <3>1. PICK raw \in Octet : raw = obf[1].byte
      BY <3>z
    <3>a. P!keyboard_process_scancode(raw)
      BY <2>3, <3>1
    <3>2. \A x : P!modifier_of(x) \subseteq {"shift", "ctrl", "alt"}
      BY DEF P!modifier_of
    <3>3. CASE raw = 224
      BY <2>1, <3>a, <3>3, ScancodeFacts
    <3>4. CASE raw # 224
      <4>1. /\ g_e0' = FALSE /\ g_caps' \in BOOLEAN
            /\ kbd_events' = Append(kbd_events, Decoded(raw, g_e0))
            /\ Decoded(raw, g_e0) \in P!Stroke_
        BY <3>a, <3>4, ScancodeFacts, Zenon
      <4>2. \/ mods' = mods \ P!modifier_of(raw % 128)
            \/ mods' = mods \cup P!modifier_of(raw % 128)
        BY <3>a, <3>4, ScancodeFacts, Zenon
      <4>3. mods' \subseteq {"shift", "ctrl", "alt"}
        BY <2>1, <3>2, <4>2
      <4>4. PICK st \in P!Stroke_ : kbd_events' = Append(kbd_events, st)
        BY <4>1, Zenon
      <4>5. kbd_events' \in Seq(P!Stroke_)
        BY <2>1, <4>4
      <4> QED
        BY <4>1, <4>3, <4>5
    <3> QED
      BY <3>3, <3>4
  <2> QED
    BY <2>2, <2>3 DEF P!keyboard_handle_irq
<1>6. KeyTypes'
  BY <1>1, <1>5 DEF PsTypes, KeyTypes
<1> QED
  BY <1>3, <1>4, <1>6 DEF PsTypes

LEMMA ClampFacts ==
  ASSUME NEW v \in Int, NEW limit \in Nat \ {0}
  PROVE  P!clamp_mouse_position(v, limit) \in 0 .. limit - 1
BY DEF P!clamp_mouse_position, P!Clamp

(* The mouse's handler: a byte is dropped, appended or completes a packet. *)
LEMMA MouseIrqFacts ==
  ASSUME PsTypes, P!mouse_handle_irq, P!aux_waits
  PROVE  /\ obf' = << >> /\ obf[1].byte \in Octet /\ obf[1].src \in {"aux", "ack"}
         /\ lostMouse' = (lostMouse \/ obf[1].src = "ack")
         /\ \/ /\ g_packet = << >> /\ (obf[1].byte \div 8) % 2 # 1
               /\ UNCHANGED << g_packet, mouse_x, mouse_y, seen >>
            \/ /\ Len(g_packet) < 2 /\ g_packet' = Append(g_packet, obf[1].byte)
               /\ UNCHANGED << mouse_x, mouse_y, seen >>
            \/ /\ Len(g_packet) = 2 /\ g_packet' = << >>
               /\ P!mouse_process_packet(Append(g_packet, obf[1].byte))
<1>1. obf # << >> /\ obf[1].src \in {"aux", "ack"} /\ obf \in ObfStates
  BY DEF P!aux_waits, PsTypes, BufferTypes
<1>2. obf[1].byte \in Octet
  BY <1>1, ObfFacts
<1>3. g_packet \in Seq(Octet) /\ Len(g_packet) <= 2 /\ Len(g_packet) \in Nat
  BY DEF PsTypes, MouseTypes
<1>4. PICK p : p = Append(g_packet, obf[1].byte)
  OBVIOUS
<1>5. Len(p) = Len(g_packet) + 1
  BY <1>2, <1>3, <1>4
<1>6. (P!complete(p) => Len(g_packet) = 2) /\ (~P!complete(p) => Len(g_packet) < 2)
  <2>y. PICK c \in Nat : c = Len(g_packet) /\ c <= 2
    BY <1>3
  <2>1. c \in 0 .. 2 /\ c = Len(g_packet)
    BY <2>y
  <2>2. Len(p) = c + 1
    BY <1>5, <2>1
  <2>3. CASE c = 2
    <3>1. Len(p) = 3
      BY ONLY <2>2, <2>3
    <3> QED
      BY <2>1, <2>3, <3>1 DEF P!complete
  <2>4. CASE c # 2
    <3>1. Len(p) # 3 /\ c < 2
      BY ONLY <2>1, <2>2, <2>4
    <3> QED
      BY <2>1, <3>1 DEF P!complete
  <2> QED
    BY <2>3, <2>4
<1>7. ~P!in_step(obf[1].byte) => g_packet = << >> /\ (obf[1].byte \div 8) % 2 # 1
  BY DEF P!in_step, P!Bit
<1>8. /\ obf' = << >> /\ lostMouse' = (lostMouse \/ obf[1].src = "ack")
      /\ \/ P!in_step(obf[1].byte) /\ P!complete(p) /\ g_packet' = << >>
            /\ P!mouse_process_packet(p)
         \/ P!in_step(obf[1].byte) /\ ~P!complete(p) /\ g_packet' = p
            /\ UNCHANGED << mouse_x, mouse_y, seen >>
         \/ ~P!in_step(obf[1].byte) /\ UNCHANGED P!mouse
  BY <1>4 DEF P!mouse_handle_irq
<1> QED
  BY <1>1, <1>2, <1>4, <1>6, <1>7, <1>8 DEF P!mouse

LEMMA TypesMouseIrq ==
  ASSUME PsTypes, P!mouse_handle_irq
  PROVE  PsTypes'
<1>1. /\ UNCHANGED << boot, cfg, irq1, ksend, msend, reply, reports, down, typed, mouse_packets,
                      g_e0, mods, g_caps, kbd_events, lostKey, foreign, misread >>
      /\ irq12' = FALSE
  BY DEF P!mouse_handle_irq, P!device, P!kbd
<1>2. lostMouse' \in BOOLEAN /\ obf' \in {obf, << >>}
  BY DEF P!mouse_handle_irq, PsTypes, FlagTypes
<1>3. FlagTypes' /\ KeyTypes'
  BY <1>1, <1>2 DEF PsTypes, FlagTypes, KeyTypes
<1>4. BufferTypes'
  BY <1>1, <1>2, NoByte DEF PsTypes, BufferTypes, ObfStates
<1>5. /\ g_packet \in Seq(Octet) /\ Len(g_packet) <= 2 /\ seen \in Seq(Seq(Octet))
      /\ mouse_x \in 0 .. Width - 1 /\ mouse_y \in 0 .. Height - 1
  BY DEF PsTypes, MouseTypes
<1>6. /\ g_packet' \in Seq(Octet) /\ Len(g_packet') <= 2 /\ seen' \in Seq(Seq(Octet))
      /\ mouse_x' \in 0 .. Width - 1 /\ mouse_y' \in 0 .. Height - 1
  <2>1. CASE ~P!aux_waits
    BY <1>5, <2>1 DEF P!mouse_handle_irq, P!mouse
  <2>2. CASE P!aux_waits
    <3>1. obf[1].byte \in Octet
      BY <2>2, MouseIrqFacts
    <3>2. CASE UNCHANGED << g_packet, mouse_x, mouse_y, seen >>
      BY <1>5, <3>2
    <3>3. CASE /\ Len(g_packet) < 2 /\ g_packet' = Append(g_packet, obf[1].byte)
               /\ UNCHANGED << mouse_x, mouse_y, seen >>
      BY <1>5, <3>1, <3>3
    <3>4. CASE /\ Len(g_packet) = 2 /\ g_packet' = << >>
               /\ P!mouse_process_packet(Append(g_packet, obf[1].byte))
      <4>z. PICK x \in Octet : x = obf[1].byte
        BY <3>1
      <4>a. Append(g_packet, x) \in Seq(Octet) /\ Len(Append(g_packet, x)) = 3
        <5>1. g_packet \in Seq(Octet) /\ Len(g_packet) = 2
          BY <1>5, <3>4
        <5>2. Append(g_packet, x) \in Seq(Octet) /\ Len(Append(g_packet, x)) = Len(g_packet) + 1
          BY ONLY x \in Octet, <5>1, AppendProperties, Zenon
        <5> QED
          BY ONLY <5>1, <5>2
      <4>1. PICK p \in Seq(Octet) : p = Append(g_packet, obf[1].byte) /\ Len(p) = 3
        BY <4>z, <4>a
      <4>2. Len(p) = 3
        BY <4>1
      <4>3. p[2] \in Octet /\ p[3] \in Octet
        BY <4>1, <4>2
      <4>4. \A v \in Octet : \A b : P!sign_extend_packet_delta(v, b) \in Int
        BY DEF P!sign_extend_packet_delta, Octet
      <4>5. /\ mouse_x + P!sign_extend_packet_delta(p[2], P!Bit(p[1], 16)) \in Int
            /\ mouse_y - P!sign_extend_packet_delta(p[3], P!Bit(p[1], 32)) \in Int
        BY <1>5, <4>3, <4>4
      <4>6. mouse_x' \in 0 .. Width - 1 /\ mouse_y' \in 0 .. Height - 1
        BY <3>4, <4>1, <4>5, ClampFacts, PsFacts DEF P!mouse_process_packet
      <4>7. seen' = Append(seen, p)
        BY <3>4, <4>1 DEF P!mouse_process_packet
      <4>8. g_packet' \in Seq(Octet) /\ Len(g_packet') <= 2
        BY <3>4
      <4> QED
        BY <1>5, <4>1, <4>6, <4>7, <4>8
    <3> QED
      BY <2>2, <3>2, <3>3, <3>4, MouseIrqFacts
  <2> QED
    BY <2>1, <2>2
<1>7. MouseTypes'
  BY <1>1, <1>6 DEF PsTypes, MouseTypes
<1> QED
  BY <1>3, <1>4, <1>7 DEF PsTypes

-----------------------------------------------------------------------------
(* The configuration. *)

Early == {"kbd_flush", "enable_aux", "read_cfg", "wait_cfg", "write_cfg_0", "defaults",
          "defaults_ack", "enable"}

LEMMA CfgSame ==
  ASSUME CfgGood, UNCHANGED << boot, cfg, misread, reports, mouse_packets >>
  PROVE  CfgGood'
BY DEF CfgGood

LEMMA CfgMoves ==
  ASSUME CfgGood, NEW p, P!Moves(p)
  PROVE  CfgGood'
BY DEF CfgGood, P!Moves, P!faults

LEMMA CfgFlush ==
  ASSUME CfgGood, P!flush("kbd_flush", "enable_aux") \/ P!flush("flush", "on")
  PROVE  CfgGood'
<1>1. UNCHANGED << cfg, misread, reports, mouse_packets >>
  BY DEF P!flush, P!device
<1>2. \/ boot' = boot
      \/ boot = "kbd_flush" /\ boot' = "enable_aux"
      \/ boot = "flush" /\ boot' = "on"
  BY DEF P!flush, P!Taken
<1> QED
  BY <1>1, <1>2 DEF CfgGood

LEMMA CfgAux ==
  ASSUME CfgGood, P!enable_aux
  PROVE  CfgGood'
<1>1. /\ UNCHANGED << misread, reports, mouse_packets >> /\ boot = "enable_aux"
      /\ \/ boot' = "read_cfg" /\ cfg' = cfg \ {"aux_off"}
         \/ boot' = "on" /\ UNCHANGED cfg
  BY DEF P!enable_aux, P!device, P!faults
<1>2. ~misread /\ "irq12" \notin cfg /\ cfg \in {Sane, Sane \cup {"aux_off"}, Sane \cup {"irq12"}}
  BY <1>1 DEF CfgGood
<1>3. cfg \ {"aux_off"} = Sane
  BY <1>2 DEF Sane
<1> QED
  BY <1>1, <1>2, <1>3 DEF CfgGood

LEMMA CfgRead ==
  ASSUME CfgGood, P!read_cfg
  PROVE  CfgGood'
<1>1. /\ UNCHANGED << cfg, reports, mouse_packets >> /\ boot = "read_cfg"
      /\ \/ boot' = "wait_cfg" /\ UNCHANGED misread
         \/ boot' = "write_cfg_0" /\ misread' = TRUE
  BY DEF P!read_cfg
<1> QED
  BY <1>1 DEF CfgGood

LEMMA CfgWrite ==
  ASSUME PsTypes, CfgGood, P!write_cfg
  PROVE  CfgGood' /\ (~misread' => ~misread)
<1>1. UNCHANGED << reports, mouse_packets >> /\ boot' = "defaults"
      /\ boot \in {"wait_cfg", "write_cfg_0"}
  BY DEF P!write_cfg, P!device
<1>2. ASSUME ~misread' PROVE /\ ~misread
                             /\ cfg' \in {Sane, Sane \cup {"aux_off"}, Sane \cup {"irq12"}}
  <2>1. /\ boot = "wait_cfg" /\ obf # << >> /\ obf[1].src = "ctl"
        /\ cfg' = P!written(P!bits_of(obf[1].byte)) \/ UNCHANGED cfg
    BY <1>2 DEF P!write_cfg, P!Taken
  <2>2. obf[1].byte = P!byte_of(Sane)
    BY <2>1 DEF PsTypes, BufferTypes, From
  <2>3. P!written(P!bits_of(obf[1].byte)) = Sane \cup {"irq12"}
    BY <2>2, CfgBits DEF P!written, Sane
  <2>4. cfg = Sane /\ ~misread
    BY <2>1 DEF CfgGood
  <2> QED
    BY <2>1, <2>3, <2>4
<1>3. ~reports /\ mouse_packets = << >>
  BY <1>1 DEF CfgGood
<1>4. CfgGood'
  BY <1>1, <1>2, <1>3 DEF CfgGood
<1> QED
  BY <1>2, <1>4

LEMMA CfgDevice ==
  ASSUME CfgGood,
         P!write_device("defaults", "defaults_ack") \/ P!write_device("enable", "enable_ack")
  PROVE  CfgGood' /\ ~reports /\ mouse_packets = << >>
<1>1. UNCHANGED << cfg, misread, mouse_packets >>
  BY DEF P!write_device, P!faults
<1>2. \/ boot = "defaults" /\ boot' = "defaults_ack" /\ (reports' = FALSE \/ UNCHANGED reports)
      \/ boot = "enable" /\ boot' = "enable_ack"
  BY DEF P!write_device
<1>3. ~reports /\ mouse_packets = << >>
  BY <1>2 DEF CfgGood
<1> QED
  BY <1>1, <1>2, <1>3 DEF CfgGood

LEMMA CfgAck ==
  ASSUME CfgGood, P!take_ack("defaults_ack", "enable") \/ P!take_ack("enable_ack", "flush")
  PROVE  CfgGood'
<1>1. UNCHANGED << cfg, misread, reports, mouse_packets >>
  BY DEF P!take_ack, P!device
<1>2. \/ boot = "defaults_ack" /\ boot' = "enable"
      \/ boot = "enable_ack" /\ boot' = "flush"
  BY DEF P!take_ack
<1> QED
  BY <1>1, <1>2 DEF CfgGood

-----------------------------------------------------------------------------
(* Keys held and modifiers set. *)

LEMMA DownStroke ==
  ASSUME PsTypes, DownGood, NEW c \in KeysUsed, NEW up \in BOOLEAN, P!Stroke(c, up)
  PROVE  DownGood'
<1>1. PICK st : st = [scancode |-> c, pressed |-> ~up]
  OBVIOUS
<1>2. st.scancode = c /\ st.pressed = ~up
  BY <1>1
<1>3. typed' = Append(typed, st) /\ down' = IF up THEN down \ {c} ELSE down \cup {c}
  BY <1>1 DEF P!Stroke
<1>4. PICK N \in Nat : N = Len(typed) /\ Len(typed') = N + 1 /\ typed'[N + 1] = st
                       /\ \A k \in 1 .. N : typed'[k] = typed[k]
  <2>1. typed \in Seq(P!Stroke_)
    BY DEF PsTypes, KeyTypes
  <2> QED
    BY <1>3, <2>1
<1>5. SUFFICES ASSUME NEW j \in 1 .. N + 1, typed'[j].pressed,
                      \A k \in j + 1 .. N + 1 :
                        typed'[k].scancode = typed'[j].scancode => typed'[k].pressed
               PROVE  typed'[j].scancode \in down'
  BY <1>4 DEF DownGood
<1>6. CASE j = N + 1
  BY <1>2, <1>3, <1>4, <1>5, <1>6
<1>7. CASE j # N + 1
  <2>1. j \in 1 .. N /\ N + 1 \in j + 1 .. N + 1
    BY <1>7
  <2>2. typed'[j] = typed[j]
    BY <1>4, <2>1
  <2>3. ASSUME NEW k \in j + 1 .. N, typed[k].scancode = typed[j].scancode
        PROVE  typed[k].pressed
    <3>1. k \in 1 .. N /\ k \in j + 1 .. N + 1
      BY <2>1
    <3>2. typed'[k] = typed[k]
      BY <1>4, <3>1
    <3> QED
      BY <1>5, <2>2, <2>3, <3>1, <3>2
  <2>4. typed[j].scancode \in down
    BY <1>4, <1>5, <2>1, <2>2, <2>3 DEF DownGood
  <2>5. c = typed[j].scancode => ~up
    BY <1>2, <1>4, <1>5, <2>1, <2>2
  <2> QED
    BY <1>3, <2>2, <2>4, <2>5
<1> QED
  BY <1>6, <1>7

LEMMA ModOfIs == \A x : P!modifier_of(x) = ModOf(x)
BY DEF P!modifier_of, ModOf

LEMMA ModifierSets ==
  /\ \A x, m : m \in ModOf(x) <=> ModOf(x) = {m}
  /\ \A x, m : ModOf(x) = {m} =>
       \/ m = "shift" /\ x \in {42, 54}
       \/ m = "ctrl" /\ x = 29
       \/ m = "alt" /\ x = 56
<1>1. ASSUME NEW x
      PROVE  \/ x \in {42, 54} /\ ModOf(x) = {"shift"}
             \/ x = 29 /\ ModOf(x) = {"ctrl"}
             \/ x = 56 /\ ModOf(x) = {"alt"}
             \/ ModOf(x) = {}
  BY DEF ModOf
<1> QED
  BY <1>1

LEMMA ModsDecoded ==
  ASSUME PsTypes, ModsGood, NEW raw \in Octet, P!keyboard_process_scancode(raw)
  PROVE  ModsGood'
<1>1. CASE raw = 224
  <2>1. UNCHANGED << mods, kbd_events >>
    BY <1>1, ScancodeFacts
  <2> QED
    BY <2>1 DEF ModsGood
<1>2. CASE raw # 224
  <2>1. kbd_events' = Append(kbd_events, Decoded(raw, g_e0)) /\ Decoded(raw, g_e0) \in P!Stroke_
    BY <1>2, ScancodeFacts, Zenon
  <2>2. PICK d \in P!Stroke_ : d = Decoded(raw, g_e0)
    BY <2>1, Zenon
  <2>3. d.pressed = ~(raw >= 128) /\ d.scancode % 128 = raw % 128
    <3>1. raw \in 0 .. 255
      BY DEF Octet
    <3>2. PICK x \in 0 .. 127 : x = raw % 128
      BY <3>1
    <3>3. x % 128 = x /\ (x + 128) % 128 = x
      BY <3>2
    <3>4. d.scancode = x + 128 \/ d.scancode = x
      BY <2>2, <3>2 DEF Decoded
    <3>5. d.pressed = ~(raw >= 128)
      BY <2>2 DEF Decoded
    <3> QED
      BY <3>2, <3>3, <3>4, <3>5
  <2>4. PICK M : M = ModOf(raw % 128)
    OBVIOUS
  <2>5. (raw >= 128 => mods' = mods \ M) /\ (~(raw >= 128) => mods' = mods \cup M)
    BY <1>2, <2>4, ScancodeFacts, ModOfIs, Zenon
  <2>6. ModOf(d.scancode % 128) = M /\ \A m : m \in M <=> M = {m}
    BY <2>3, <2>4, ModifierSets
  <2>7. PICK N \in Nat : /\ N = Len(kbd_events) /\ Len(kbd_events') = N + 1
                         /\ kbd_events'[N + 1] = d
                         /\ \A k \in 1 .. N : kbd_events'[k] = kbd_events[k]
    <3>1. kbd_events \in Seq(P!Stroke_) /\ kbd_events' = Append(kbd_events, d)
      BY <2>1, <2>2 DEF PsTypes, KeyTypes
    <3> QED
      BY <3>1
  <2>a. PICK ez : ez = kbd_events'
    OBVIOUS
  <2>b. /\ Len(ez) = N + 1 /\ ez[N + 1] = d /\ \A k \in 1 .. N : ez[k] = kbd_events[k]
    BY <2>7, <2>a
  <2>c. SUFFICES ModsHeld(mods', ez)
    BY <2>a DEF ModsGood
  <2>8. SUFFICES ASSUME NEW m \in mods'
                 PROVE  \E j \in 1 .. N + 1 :
                          /\ ez[j].pressed
                          /\ ModOf(ez[j].scancode % 128) = {m}
                          /\ \A k \in j + 1 .. N + 1 :
                               ~ez[k].pressed =>
                                 ModOf(ez[k].scancode % 128) # {m}
    BY <2>b DEF ModsHeld
  <2>9. CASE ~(raw >= 128) /\ m \in M
    <3>1. N + 1 \in 1 .. N + 1 /\ ~(\E k \in N + 1 + 1 .. N + 1 : TRUE)
      BY <2>7
    <3>2. ez[N + 1].pressed
          /\ ModOf(ez[N + 1].scancode % 128) = {m}
      BY <2>3, <2>6, <2>b, <2>9
    <3> QED
      BY <3>1, <3>2
  <2>10. CASE m \in mods /\ (raw >= 128 => m \notin M)
    <3>1. PICK j \in 1 .. N :
            /\ kbd_events[j].pressed /\ ModOf(kbd_events[j].scancode % 128) = {m}
            /\ \A k \in j + 1 .. N : ~kbd_events[k].pressed =>
                 ModOf(kbd_events[k].scancode % 128) # {m}
      BY <2>7, <2>10 DEF ModsGood, ModsHeld
    <3>2. ASSUME NEW k \in j + 1 .. N + 1, ~ez[k].pressed
          PROVE  ModOf(ez[k].scancode % 128) # {m}
      <4>1. CASE k = N + 1
        <5>1. ez[k] = d
          BY <2>b, <4>1
        <5>2. raw >= 128
          BY <2>3, <3>2, <5>1
        <5> QED
          BY <2>6, <2>10, <5>1, <5>2
      <4>2. CASE k # N + 1
        <5>1. k \in j + 1 .. N /\ k \in 1 .. N
          BY <4>2
        <5> QED
          BY <2>b, <3>1, <3>2, <5>1
      <4> QED
        BY <4>1, <4>2
    <3>3. j \in 1 .. N + 1 /\ ez[j] = kbd_events[j]
      BY <2>b
    <3> QED
      BY <3>1, <3>2, <3>3
  <2> QED
    BY <2>5, <2>9, <2>10
<1> QED
  BY <1>1, <1>2

-----------------------------------------------------------------------------
(* The bytes of the keyboard, action by action. *)

LEMMA TypedSeq ==
  ASSUME PsTypes
  PROVE  /\ StrokeSeq(typed) /\ ksend \in Seq(Octet) /\ kbd_events \in Seq(P!Stroke_)
         /\ g_e0 \in BOOLEAN /\ obf \in ObfStates
BY PsFacts DEF PsTypes, KeyTypes, BufferTypes, StrokeSeq

LEMMA KeysSame ==
  ASSUME KeysGood, UNCHANGED << ksend, obf, kbd_events, typed, g_e0 >>,
         P!Understood' => P!Understood,
         boot = "kbd_flush" /\ From(obf, "kbd") => boot' = "kbd_flush"
  PROVE  KeysGood'
BY DEF KeysGood

LEMMA KeysTaken ==
  ASSUME KeysGood, UNCHANGED << ksend, kbd_events, typed, g_e0 >>, obf' = << >>,
         P!Understood' => P!Understood /\ ~From(obf, "kbd")
  PROVE  KeysGood'
<1> SUFFICES ASSUME P!Understood' PROVE KeyStream(ksend', obf', kbd_events', typed', g_e0')
  BY DEF KeysGood
<1>1. KeyStream(ksend, obf, kbd_events, typed, g_e0)
  BY DEF KeysGood
<1>2. KeyStream(ksend, << >>, kbd_events, typed, g_e0)
  BY <1>1, NoByte, KeyOther
<1> QED
  BY <1>2

LEMMA KeysStroke ==
  ASSUME PsTypes, KeysGood, NEW c \in KeysUsed, NEW up \in BOOLEAN, P!Stroke(c, up)
  PROVE  KeysGood'
<1>1. UNCHANGED << boot, obf, g_e0, kbd_events, lostKey, foreign, misread >>
  BY DEF P!Stroke, P!kbd, P!faults
<1>2. c \in Octet
  BY PsFacts
<1>3. PICK st \in P!Stroke_ : st = [scancode |-> c, pressed |-> ~up]
  <2>1. [scancode |-> c, pressed |-> ~up] \in P!Stroke_
    BY <1>2 DEF Octet, P!Stroke_
  <2> QED
    BY <2>1
<1>4. PICK bs \in Seq(Octet) : /\ bs = P!Pair(c, up) /\ Len(bs) = StrokeLen(st)
                               /\ \A j \in 1 .. StrokeLen(st) : bs[j] = StrokeByte(st, j)
  BY <1>2, <1>3, PairFacts
<1>5. ksend' = ksend \o bs /\ typed' = Append(typed, st)
  BY <1>3, <1>4 DEF P!Stroke
<1>6. ASSUME NEW ob, KeyStream(ksend, ob, kbd_events, typed, g_e0)
      PROVE  KeyStream(ksend', ob, kbd_events, typed', g_e0)
  BY <1>4, <1>5, <1>6, TypedSeq, KeyQueued
<1>7. P!Understood' => P!Understood
  BY <1>1 DEF P!Understood
<1> QED
  BY <1>1, <1>6, <1>7 DEF KeysGood

LEMMA KeysLoad ==
  ASSUME PsTypes, CfgGood, KeysGood, P!Load
  PROVE  KeysGood'
<1> SUFFICES ASSUME P!Understood' PROVE KeyStream(ksend', obf', kbd_events', typed', g_e0')
  BY DEF KeysGood
<1>1. UNCHANGED << boot, cfg, typed, g_e0, kbd_events, lostKey, foreign, misread >> /\ obf = << >>
  BY DEF P!Load, P!kbd, P!faults
<1>2. P!Understood /\ ~misread
  BY <1>1 DEF P!Understood
<1>3. KeyStream(ksend, << >>, kbd_events, typed, g_e0)
  BY <1>1, <1>2, NoByte DEF KeysGood
<1>4. CASE /\ ksend # << >> /\ ksend' = Tail(ksend)
           /\ obf' = << [src |-> "kbd", byte |-> IF "translate" \in cfg THEN Head(ksend) ELSE 0] >>
  <2>1. "translate" \in cfg
    BY <1>2 DEF CfgGood, Sane
  <2>2. obf' = << [src |-> "kbd", byte |-> Head(ksend)] >>
    BY <1>4, <2>1
  <2>3. KeyStream(Tail(ksend), obf', kbd_events, typed, g_e0)
    BY <1>3, <1>4, <2>2, NoByte, TypedSeq, KeyLoaded
  <2> QED
    BY <1>1, <1>4, <2>3
<1>5. CASE ksend' = ksend /\ ~From(obf', "kbd")
  <2>1. KeyStream(ksend, obf', kbd_events, typed, g_e0)
    BY <1>3, <1>5, NoByte, KeyOther
  <2> QED
    BY <1>1, <1>5, <2>1
<1>6. CASE msend # << >> /\ obf' = << Head(msend) >> /\ ksend' = ksend
  <2>1. Head(msend).src \in {"aux", "ack"}
    <3>1. msend \in Seq(MouseByte)
      BY DEF PsTypes, MouseTypes, MouseByte
    <3>2. Head(msend) \in MouseByte
      BY <1>6, <3>1
    <3> QED
      BY <3>2 DEF MouseByte
  <2> QED
    BY <1>5, <1>6, <2>1 DEF From
<1>7. CASE reply # << >> /\ obf' = reply /\ ksend' = ksend
  <2>1. ~From(reply, "kbd")
    BY DEF PsTypes, BufferTypes, Answers, From
  <2> QED
    BY <1>5, <1>7, <2>1
<1> QED
  BY <1>4, <1>6, <1>7 DEF P!Load

(* A byte read by initialisation code. *)
LEMMA KeysReadAway ==
  ASSUME PsTypes, KeysGood, UNCHANGED << ksend, kbd_events, typed, g_e0, foreign >>,
         P!Taken, ~misread' => ~misread
  PROVE  KeysGood'
<1>1. obf' = << >> /\ obf # << >> /\ lostKey' = (lostKey \/ obf[1].src = "kbd")
  BY DEF P!Taken
<1>2. P!Understood' => P!Understood /\ ~From(obf, "kbd")
  BY <1>1 DEF P!Understood, From
<1> QED
  BY <1>1, <1>2, KeysTaken

LEMMA KeysBoot ==
  ASSUME PsTypes, KeysGood, UNCHANGED << ksend, kbd_events, typed, g_e0, foreign >>,
         \/ P!Taken
         \/ UNCHANGED << obf, lostKey >>,
         ~misread' => ~misread,
         boot = "kbd_flush" => boot' = "kbd_flush" \/ obf = << >>
  PROVE  KeysGood'
<1>1. CASE P!Taken
  BY <1>1, KeysReadAway
<1>2. CASE UNCHANGED << obf, lostKey >>
  <2>1. P!Understood' => P!Understood
    BY <1>2 DEF P!Understood
  <2>2. boot = "kbd_flush" /\ From(obf, "kbd") => boot' = "kbd_flush"
    BY DEF From
  <2> QED
    BY <1>2, <2>1, <2>2, KeysSame
<1> QED
  BY <1>1, <1>2

LEMMA KeysKeyIrq ==
  ASSUME PsTypes, KeysGood, P!keyboard_handle_irq
  PROVE  KeysGood'
<1>1. UNCHANGED << boot, ksend, typed, lostKey, misread >> /\ boot = "on"
  BY DEF P!keyboard_handle_irq, P!device
<1>2. CASE obf = << >> /\ UNCHANGED << obf, P!kbd, foreign >>
  <2>1. P!Understood' => P!Understood
    BY <1>1, <1>2 DEF P!Understood
  <2>2. UNCHANGED << kbd_events, g_e0 >>
    BY <1>2 DEF P!kbd
  <2> QED
    BY <1>1, <1>2, <2>1, <2>2, KeysSame
<1>3. CASE /\ obf # << >> /\ obf' = << >> /\ P!keyboard_process_scancode(obf[1].byte)
           /\ foreign' = (foreign \/ obf[1].src # "kbd")
  <2> SUFFICES ASSUME P!Understood' PROVE KeyStream(ksend', obf', kbd_events', typed', g_e0')
    BY DEF KeysGood
  <2>1. P!Understood /\ obf[1].src = "kbd" /\ From(obf, "kbd")
    BY <1>1, <1>3 DEF P!Understood, From
  <2>2. KeyStream(ksend, obf, kbd_events, typed, g_e0)
    BY <1>1, <2>1 DEF KeysGood
  <2>3. obf[1].byte \in Octet
    BY <1>3, TypedSeq, ObfFacts
  <2>4. PICK raw \in Octet : raw = obf[1].byte /\ P!keyboard_process_scancode(raw)
    BY <1>3, <2>3
  <2>5. /\ raw = 224 => KeyStream(ksend, << >>, kbd_events, typed, TRUE)
        /\ raw # 224 => KeyStream(ksend, << >>, Append(kbd_events, Decoded(raw, g_e0)), typed,
                                  FALSE)
    <3>1. /\ ksend \in Seq(Octet) /\ kbd_events \in Seq(P!Stroke_) /\ StrokeSeq(typed)
          /\ g_e0 \in BOOLEAN
      BY TypedSeq
    <3> QED
      <4>1. From(obf, "kbd")
        BY <2>1
      <4>2. raw = obf[1].byte
        BY <2>4
      <4>3. PICK ks \in Seq(Octet), ez \in Seq(P!Stroke_), pre \in BOOLEAN :
              ks = ksend /\ ez = kbd_events /\ pre = g_e0
        BY <3>1
      <4>4. KeyStream(ks, obf, ez, typed, pre)
        BY <2>2, <4>3
      <4>5. /\ raw = 224 => KeyStream(ks, << >>, ez, typed, TRUE)
            /\ raw # 224 => KeyStream(ks, << >>, Append(ez, Decoded(raw, pre)), typed, FALSE)
        BY ONLY <3>1, <4>1, <4>2, <4>4, KeyDecoded, ks \in Seq(Octet), ez \in Seq(P!Stroke_),
                pre \in BOOLEAN
      <4> QED
        BY <4>3, <4>5
  <2>6. CASE raw = 224
    <3>1. g_e0' = TRUE /\ UNCHANGED kbd_events
      BY <2>4, <2>6, ScancodeFacts
    <3> QED
      BY <1>1, <1>3, <2>5, <2>6, <3>1
  <2>7. CASE raw # 224
    <3>1. g_e0' = FALSE /\ kbd_events' = Append(kbd_events, Decoded(raw, g_e0))
      <4>1. P!keyboard_process_scancode(raw)
        BY <2>4
      <4> QED
        BY <2>7, <4>1, ScancodeFacts, Zenon
    <3> QED
      BY <1>1, <1>3, <2>5, <2>7, <3>1
  <2> QED
    BY <2>6, <2>7
<1> QED
  BY <1>2, <1>3 DEF P!keyboard_handle_irq

LEMMA KeysMouseIrq ==
  ASSUME PsTypes, KeysGood, P!mouse_handle_irq
  PROVE  KeysGood'
<1>1. UNCHANGED << boot, ksend, typed, g_e0, kbd_events, lostKey, foreign, misread >>
  BY DEF P!mouse_handle_irq, P!device, P!kbd
<1>2. P!Understood' => P!Understood
  BY <1>1 DEF P!Understood
<1>3. CASE ~P!aux_waits
  <2>1. UNCHANGED obf
    BY <1>3 DEF P!mouse_handle_irq
  <2> QED
    BY <1>1, <1>2, <2>1, KeysSame
<1>4. CASE P!aux_waits
  <2>1. ~From(obf, "kbd") /\ obf' = << >>
    BY <1>4, MouseIrqFacts DEF From
  <2> QED
    BY <1>1, <1>2, <2>1, KeysTaken
<1> QED
  BY <1>3, <1>4

-----------------------------------------------------------------------------
(* The bytes of the mouse, action by action. *)

LEMMA MouseSeqs ==
  ASSUME PsTypes
  PROVE  /\ msend \in Seq(MouseByte) /\ mouse_packets \in Seq(PacketsSent)
         /\ seen \in Seq(Seq(Octet)) /\ g_packet \in Seq(Octet) /\ Len(g_packet) <= 2
         /\ obf \in ObfStates
BY DEF PsTypes, MouseTypes, BufferTypes, MouseByte

LEMMA MouseSame ==
  ASSUME MouseGood, UNCHANGED << msend, obf, mouse_packets, seen, g_packet >>,
         ~lostMouse' => ~lostMouse
  PROVE  MouseGood'
BY DEF MouseGood

LEMMA MouseTaken ==
  ASSUME MouseGood, UNCHANGED << msend, mouse_packets, seen, g_packet >>,
         ~From(obf', "aux"), ~lostMouse' => ~lostMouse /\ ~From(obf, "aux")
  PROVE  MouseGood'
<1> SUFFICES ASSUME ~lostMouse'
             PROVE  \E a \in 0 .. Len(msend') :
                      MouseStream(a, msend', obf', mouse_packets', seen', g_packet')
  BY DEF MouseGood
<1>1. PICK a \in 0 .. Len(msend) : MouseStream(a, msend, obf, mouse_packets, seen, g_packet)
  BY DEF MouseGood
<1>2. MouseStream(a, msend, obf', mouse_packets, seen, g_packet)
  BY <1>1, MouseOther
<1> QED
  BY <1>2

LEMMA MouseMoves ==
  ASSUME PsTypes, MouseGood, NEW p \in PacketsSent, P!Moves(p)
  PROVE  MouseGood'
<1> SUFFICES ASSUME ~lostMouse'
             PROVE  \E a \in 0 .. Len(msend') :
                      MouseStream(a, msend', obf', mouse_packets', seen', g_packet')
  BY DEF MouseGood
<1>1. UNCHANGED << obf, seen, g_packet, lostMouse >>
  BY DEF P!Moves, P!mouse, P!faults
<1>2. PICK a \in 0 .. Len(msend) : MouseStream(a, msend, obf, mouse_packets, seen, g_packet)
  BY <1>1 DEF MouseGood
<1>3. PICK bs : bs = [j \in 1 .. 3 |-> [src |-> "aux", byte |-> p[j]]]
  OBVIOUS
<1>4. bs \in Seq(MouseByte) /\ Len(bs) = 3
      /\ \A j \in 1 .. 3 : bs[j].src = "aux" /\ bs[j].byte = p[j]
  <2>1. p[1] \in Octet /\ p[2] \in Octet /\ p[3] \in Octet
    BY PsFacts
  <2>2. \A j \in 1 .. 3 : [src |-> "aux", byte |-> p[j]] \in MouseByte
    BY <2>1 DEF MouseByte
  <2> QED
    BY <1>3, <2>2
<1>5. msend' = msend \o bs /\ mouse_packets' = Append(mouse_packets, p)
  BY <1>3 DEF P!Moves
<1>6. MouseStream(a, msend \o bs, obf, Append(mouse_packets, p), seen, g_packet)
  BY <1>2, <1>4, MouseSeqs, MouseQueued, Zenon
<1>7. a \in 0 .. Len(msend \o bs)
  BY <1>6 DEF MouseStream
<1> QED
  BY <1>1, <1>5, <1>6, <1>7

LEMMA MouseDevice ==
  ASSUME PsTypes, MouseGood, mouse_packets = << >>, NEW here, NEW ack, P!write_device(here, ack)
  PROVE  MouseGood'
<1>1. UNCHANGED << obf, mouse_packets, seen, g_packet, lostMouse >>
  BY DEF P!write_device, P!mouse, P!faults
<1>2. CASE UNCHANGED msend
  BY <1>1, <1>2, MouseSame
<1>3. CASE msend' = Append(msend, [src |-> "ack", byte |-> P!ACK])
  <2> SUFFICES ASSUME ~lostMouse'
               PROVE  \E a \in 0 .. Len(msend') :
                        MouseStream(a, msend', obf', mouse_packets', seen', g_packet')
    BY DEF MouseGood
  <2>1. PICK a \in 0 .. Len(msend) : MouseStream(a, msend, obf, << >>, seen, g_packet)
    BY <1>1 DEF MouseGood
  <2>2. PICK r : r = [src |-> "ack", byte |-> P!ACK]
    OBVIOUS
  <2>3. r.src = "ack" /\ msend' = Append(msend, r)
    BY <1>3, <2>2
  <2>4. a + 1 \in 0 .. Len(msend') /\ MouseStream(a + 1, msend', obf, << >>, seen, g_packet)
    BY <2>1, <2>3, MouseSeqs, MouseAnswered
  <2> QED
    BY <1>1, <2>4
<1> QED
  BY <1>2, <1>3 DEF P!write_device

LEMMA MouseLoad ==
  ASSUME PsTypes, MouseGood, P!Load
  PROVE  MouseGood'
<1>1. UNCHANGED << mouse_packets, seen, g_packet, lostMouse >> /\ obf = << >>
  BY DEF P!Load, P!mouse, P!faults
<1>2. CASE ~From(obf', "aux") /\ UNCHANGED msend
  BY <1>1, <1>2, NoByte, MouseTaken
<1>3. CASE msend # << >> /\ obf' = << Head(msend) >> /\ msend' = Tail(msend)
  <2> SUFFICES ASSUME ~lostMouse'
               PROVE  \E a \in 0 .. Len(msend') :
                        MouseStream(a, msend', obf', mouse_packets', seen', g_packet')
    BY DEF MouseGood
  <2>1. PICK a \in 0 .. Len(msend) : MouseStream(a, msend, << >>, mouse_packets, seen, g_packet)
    BY <1>1 DEF MouseGood
  <2>2. \E b \in 0 .. Len(Tail(msend)) :
          MouseStream(b, Tail(msend), obf', mouse_packets, seen, g_packet)
    BY <1>3, <2>1, MouseSeqs, MouseLoaded
  <2> QED
    BY <1>1, <1>3, <2>2
<1>4. CASE \E x : obf' = << [src |-> "kbd", byte |-> x] >> /\ UNCHANGED msend
  BY <1>2, <1>4 DEF From
<1>5. CASE reply # << >> /\ obf' = reply /\ UNCHANGED msend
  <2>1. ~From(reply, "aux")
    BY DEF PsTypes, BufferTypes, Answers, From
  <2> QED
    BY <1>2, <1>5, <2>1
<1> QED
  BY <1>3, <1>4, <1>5 DEF P!Load

LEMMA MouseBoot ==
  ASSUME PsTypes, MouseGood, UNCHANGED << msend, mouse_packets, seen, g_packet >>,
         \/ P!Taken
         \/ UNCHANGED << obf, lostMouse >>
  PROVE  MouseGood'
<1>1. CASE P!Taken
  <2>1. obf' = << >> /\ obf # << >> /\ lostMouse' = (lostMouse \/ obf[1].src = "aux")
    BY <1>1 DEF P!Taken
  <2>2. ~lostMouse' => ~lostMouse /\ ~From(obf, "aux")
    BY <2>1 DEF From
  <2> QED
    BY <2>1, <2>2, NoByte, MouseTaken
<1>2. CASE UNCHANGED << obf, lostMouse >>
  BY <1>2, MouseSame
<1> QED
  BY <1>1, <1>2

LEMMA MouseKeyIrq ==
  ASSUME PsTypes, MouseGood, P!keyboard_handle_irq
  PROVE  MouseGood'
<1>1. UNCHANGED << msend, mouse_packets, seen, g_packet >>
  BY DEF P!keyboard_handle_irq, P!device, P!mouse
<1>2. CASE UNCHANGED << obf, lostMouse >>
  BY <1>1, <1>2, MouseSame
<1>3. CASE obf # << >> /\ obf' = << >> /\ lostMouse' = (lostMouse \/ obf[1].src = "aux")
  <2>1. ~lostMouse' => ~lostMouse /\ ~From(obf, "aux")
    BY <1>3 DEF From
  <2> QED
    BY <1>1, <1>3, <2>1, NoByte, MouseTaken
<1> QED
  BY <1>2, <1>3 DEF P!keyboard_handle_irq

LEMMA MouseMouseIrq ==
  ASSUME PsTypes, MouseGood, P!mouse_handle_irq
  PROVE  MouseGood'
<1>1. UNCHANGED << msend, mouse_packets >>
  BY DEF P!mouse_handle_irq, P!device
<1>2. CASE ~P!aux_waits
  <2>1. UNCHANGED << obf, seen, g_packet, lostMouse >>
    BY <1>2 DEF P!mouse_handle_irq, P!mouse
  <2> QED
    BY <1>1, <2>1, MouseSame
<1>3. CASE P!aux_waits
  <2> SUFFICES ASSUME ~lostMouse'
               PROVE  \E a \in 0 .. Len(msend') :
                        MouseStream(a, msend', obf', mouse_packets', seen', g_packet')
    BY DEF MouseGood
  <2>1. /\ obf' = << >> /\ obf[1].byte \in Octet /\ obf[1].src \in {"aux", "ack"}
        /\ lostMouse' = (lostMouse \/ obf[1].src = "ack")
        /\ \/ /\ g_packet = << >> /\ (obf[1].byte \div 8) % 2 # 1
           \/ /\ Len(g_packet) < 2 /\ g_packet' = Append(g_packet, obf[1].byte) /\ UNCHANGED seen
           \/ /\ Len(g_packet) = 2 /\ g_packet' = << >>
              /\ P!mouse_process_packet(Append(g_packet, obf[1].byte))
    BY <1>3, MouseIrqFacts, Zenon
  <2>2. ~lostMouse /\ From(obf, "aux")
    BY <1>3, <2>1 DEF From, P!aux_waits
  <2>3. PICK a \in 0 .. Len(msend) : MouseStream(a, msend, obf, mouse_packets, seen, g_packet)
    BY <2>2 DEF MouseGood
  <2>4. PICK x \in Octet : x = obf[1].byte
    BY <2>1
  <2>5. PICK gz : gz = Append(g_packet, x)
    OBVIOUS
  <2>6. /\ Len(g_packet) < 2 => MouseStream(a, msend, << >>, mouse_packets, seen, gz)
        /\ Len(g_packet) = 2 =>
             MouseStream(a, msend, << >>, mouse_packets, Append(seen, gz), << >>)
        /\ Len(g_packet) = 0 => (x \div 8) % 2 = 1
    BY <2>2, <2>3, <2>4, <2>5, MouseSeqs, MouseRead, Zenon
  <2>7. CASE Len(g_packet) < 2 /\ g_packet' = gz /\ UNCHANGED seen
    BY <1>1, <2>1, <2>6, <2>7
  <2>8. CASE Len(g_packet) = 2 /\ g_packet' = << >> /\ P!mouse_process_packet(gz)
    <3>1. seen' = Append(seen, gz)
      BY <2>8 DEF P!mouse_process_packet
    <3> QED
      BY <1>1, <2>1, <2>6, <2>8, <3>1
  <2>9. ~(g_packet = << >> /\ (obf[1].byte \div 8) % 2 # 1)
    <3>1. g_packet = << >> => Len(g_packet) = 0
      OBVIOUS
    <3> QED
      BY <2>4, <2>6, <3>1
  <2> QED
    BY <2>1, <2>4, <2>5, <2>7, <2>8, <2>9
<1> QED
  BY <1>2, <1>3

-----------------------------------------------------------------------------
(* Every step of the devices, the controller and the drivers. *)

LEMMA DownSame ==
  ASSUME DownGood, UNCHANGED << typed, down >>
  PROVE  DownGood'
BY DEF DownGood

LEMMA ModsSame ==
  ASSUME ModsGood, UNCHANGED << mods, kbd_events >>
  PROVE  ModsGood'
BY DEF ModsGood

LEMMA PsInit ==
  ASSUME P!Init
  PROVE  PsInv
<1>1. /\ boot = "kbd_flush" /\ cfg \in {Sane, Sane \cup {"aux_off"}}
      /\ obf \in {<< >>, << [src |-> "kbd", byte |-> 224] >>}
      /\ reply = << >> /\ irq1 = FALSE /\ irq12 = FALSE
      /\ ksend = << >> /\ msend = << >> /\ reports = FALSE /\ down = {} /\ mouse_packets = << >>
      /\ typed = << >> /\ g_e0 = FALSE /\ mods = {} /\ g_caps = FALSE /\ kbd_events = << >>
      /\ g_packet = << >> /\ mouse_x = Width \div 2 /\ mouse_y = Height \div 2 /\ seen = << >>
      /\ lostKey = FALSE /\ lostMouse = FALSE /\ foreign = FALSE /\ misread = FALSE
  <2>1. {"irq1", "translate", "aux_off"} = Sane \cup {"aux_off"}
    BY DEF Sane
  <2> QED
    BY <2>1 DEF P!Init, P!E0, Sane
<1>2. FlagTypes
  BY <1>1 DEF FlagTypes, PsSteps, CfgFlags, Sane
<1>3. BufferTypes
  <2>1. obf \in ObfStates /\ ~From(obf, "ctl")
    <3>1. [src |-> "kbd", byte |-> 224] \in [src : {"kbd", "aux", "ack", "ctl"}, byte : Octet]
      BY DEF Octet
    <3> QED
      BY <1>1, <3>1 DEF ObfStates, From
  <2> QED
    BY <1>1, <2>1 DEF BufferTypes, Answers
<1>4. KeyTypes /\ MouseTypes
  <2>1. Width \div 2 \in 0 .. Width - 1 /\ Height \div 2 \in 0 .. Height - 1
    BY PsFacts
  <2>2. Len(<< >>) = 0 /\ \A S : << >> \in Seq(S)
    OBVIOUS
  <2>3. KeyTypes
    <3>1. ksend \in Seq(Octet) /\ typed \in Seq(P!Stroke_) /\ kbd_events \in Seq(P!Stroke_)
      BY <1>1, <2>2
    <3>2. \A k \in 1 .. Len(typed) : typed[k].scancode \in KeysUsed
      BY <1>1
    <3>3. down \subseteq KeysUsed /\ mods \subseteq {"shift", "ctrl", "alt"}
      BY <1>1
    <3> QED
      BY <1>1, <3>1, <3>2, <3>3 DEF KeyTypes
  <2>4. MouseTypes
    BY <1>1, <2>1, <2>2 DEF MouseTypes
  <2> QED
    BY <2>3, <2>4
<1>5. ModsGood /\ DownGood
  BY <1>1 DEF ModsGood, ModsHeld, DownGood
<1>6. CfgGood
  BY <1>1 DEF CfgGood, Sane
<1>7. KeysGood
  <2>1. PICK pos : pos = [k \in 1 .. 1 |-> 1]
    OBVIOUS
  <2>2. Len(<< >>) = 0 /\ pos \in [1 .. 0 + 1 -> Int] /\ pos[1] = 1
    BY <2>1
  <2>3. KeyPlaces(pos, << >>, << >>)
    BY <2>2 DEF KeyPlaces
  <2>4. KeyBytes(pos, << >>, << >>, << >>)
    BY <2>2 DEF KeyBytes
  <2>5. KeysRead(pos, << >>, << >>, << >>, FALSE)
    BY <2>2, NoByte DEF KeysRead, First
  <2>6. KeyStream(<< >>, << >>, << >>, << >>, FALSE)
    BY <2>3, <2>4, <2>5 DEF KeyStream
  <2>7. obf = << >> \/ From(obf, "kbd")
    BY <1>1 DEF From
  <2> QED
    BY <1>1, <2>6, <2>7 DEF KeysGood
<1>8. MouseGood
  <2>1. Len(<< >>) = 0 /\ 0 \in 0 .. 0 /\ ~From(obf, "aux")
    BY <1>1 DEF From
  <2>2. MouseStream(0, << >>, obf, << >>, << >>, << >>)
    BY <2>1 DEF MouseStream
  <2> QED
    BY <1>1, <2>1, <2>2 DEF MouseGood
<1> QED
  BY <1>2, <1>3, <1>4, <1>5, <1>6, <1>7, <1>8 DEF PsInv, PsTypes

LEMMA PsStroke ==
  ASSUME PsInv, NEW c \in KeysUsed, NEW up \in BOOLEAN, P!Stroke(c, up)
  PROVE  PsInv'
<1>1. UNCHANGED << boot, cfg, misread, reports, mouse_packets, mods, kbd_events, msend, obf, seen,
                   g_packet, lostMouse >>
  BY DEF P!Stroke, P!kbd, P!mouse, P!faults
<1>2. PsTypes' /\ KeysGood' /\ DownGood'
  BY TypesStroke, KeysStroke, DownStroke DEF PsInv
<1>3. ModsGood' /\ CfgGood' /\ MouseGood'
  BY <1>1, ModsSame, CfgSame, MouseSame DEF PsInv
<1> QED
  BY <1>2, <1>3 DEF PsInv

LEMMA PsMoves ==
  ASSUME PsInv, NEW p \in PacketsSent, P!Moves(p)
  PROVE  PsInv'
<1>1. UNCHANGED << boot, ksend, obf, kbd_events, typed, g_e0, down, mods, lostKey, foreign,
                   misread >>
  BY DEF P!Moves, P!kbd, P!faults
<1>2. PsTypes' /\ MouseGood' /\ CfgGood'
  BY TypesMoves, MouseMoves, CfgMoves DEF PsInv
<1>3. P!Understood' => P!Understood
  BY <1>1 DEF P!Understood
<1>4. ModsGood' /\ DownGood' /\ KeysGood'
  BY <1>1, <1>3, ModsSame, DownSame, KeysSame DEF PsInv
<1> QED
  BY <1>2, <1>4 DEF PsInv

LEMMA PsLoad ==
  ASSUME PsInv, P!Load
  PROVE  PsInv'
<1>1. UNCHANGED << boot, cfg, misread, reports, mouse_packets, kbd_events, typed, down, mods >>
  BY DEF P!Load, P!kbd, P!faults
<1>2. PsTypes' /\ MouseGood' /\ KeysGood'
  BY TypesLoad, MouseLoad, KeysLoad DEF PsInv
<1>3. ModsGood' /\ DownGood' /\ CfgGood'
  BY <1>1, ModsSame, DownSame, CfgSame DEF PsInv
<1> QED
  BY <1>2, <1>3 DEF PsInv

(* The steps of initialisation leave the strokes and the events alone. *)
LEMMA PsBoot ==
  ASSUME PsInv, PsTypes', CfgGood', MouseGood',
         UNCHANGED << ksend, kbd_events, typed, g_e0, foreign, down, mods >>,
         \/ P!Taken
         \/ UNCHANGED << obf, lostKey >>,
         ~misread' => ~misread,
         boot = "kbd_flush" => boot' = "kbd_flush" \/ obf = << >>
  PROVE  PsInv'
<1>1. KeysGood'
  BY KeysBoot DEF PsInv
<1>2. ModsGood' /\ DownGood'
  BY ModsSame, DownSame DEF PsInv
<1> QED
  BY <1>1, <1>2 DEF PsInv

LEMMA PsFlush ==
  ASSUME PsInv, P!flush("kbd_flush", "enable_aux") \/ P!flush("flush", "on")
  PROVE  PsInv'
<1>1. PsTypes'
  BY TypesFlush DEF PsInv, PsSteps
<1>2. CfgGood'
  BY CfgFlush DEF PsInv
<1>3. UNCHANGED << ksend, kbd_events, typed, g_e0, foreign, down, mods, misread, msend,
                   mouse_packets, seen, g_packet >>
  BY DEF P!flush, P!device, P!kbd, P!mouse
<1>4. P!Taken \/ UNCHANGED << obf, lostKey, lostMouse >>
  BY DEF P!flush
<1>5. boot = "kbd_flush" => boot' = "kbd_flush" \/ obf = << >>
  BY DEF P!flush
<1>6. MouseGood'
  BY <1>3, <1>4, MouseBoot DEF PsInv
<1> QED
  BY <1>1, <1>2, <1>3, <1>4, <1>5, <1>6, PsBoot

LEMMA PsAck ==
  ASSUME PsInv, P!take_ack("defaults_ack", "enable") \/ P!take_ack("enable_ack", "flush")
  PROVE  PsInv'
<1>1. PsTypes'
  BY TypesAck DEF PsInv, PsSteps
<1>2. CfgGood'
  BY CfgAck DEF PsInv
<1>3. UNCHANGED << ksend, kbd_events, typed, g_e0, foreign, down, mods, misread, msend,
                   mouse_packets, seen, g_packet >>
  BY DEF P!take_ack, P!device, P!kbd, P!mouse
<1>4. P!Taken \/ UNCHANGED << obf, lostKey, lostMouse >>
  BY DEF P!take_ack
<1>5. boot # "kbd_flush"
  BY DEF P!take_ack
<1>6. MouseGood'
  BY <1>3, <1>4, MouseBoot DEF PsInv
<1> QED
  BY <1>1, <1>2, <1>3, <1>4, <1>5, <1>6, PsBoot

LEMMA PsAux ==
  ASSUME PsInv, P!enable_aux
  PROVE  PsInv'
<1>1. PsTypes' /\ CfgGood'
  BY TypesAux, CfgAux DEF PsInv
<1>2. /\ UNCHANGED << ksend, kbd_events, typed, g_e0, foreign, down, mods, misread, msend,
                      mouse_packets, seen, g_packet, obf, lostKey, lostMouse >>
      /\ boot # "kbd_flush"
  BY DEF P!enable_aux, P!device, P!kbd, P!mouse, P!faults
<1>3. MouseGood'
  BY <1>2, MouseBoot DEF PsInv
<1> QED
  BY <1>1, <1>2, <1>3, PsBoot

LEMMA PsReadCfg ==
  ASSUME PsInv, P!read_cfg
  PROVE  PsInv'
<1>1. PsTypes' /\ CfgGood'
  BY TypesReadCfg, CfgRead DEF PsInv
<1>2. /\ UNCHANGED << ksend, kbd_events, typed, g_e0, foreign, down, mods, msend,
                      mouse_packets, seen, g_packet, obf, lostKey, lostMouse >>
      /\ boot # "kbd_flush" /\ (misread' = TRUE \/ UNCHANGED misread)
  BY DEF P!read_cfg, P!kbd, P!mouse
<1>3. MouseGood'
  BY <1>2, MouseBoot DEF PsInv
<1> QED
  BY <1>1, <1>2, <1>3, PsBoot

LEMMA PsWriteCfg ==
  ASSUME PsInv, P!write_cfg
  PROVE  PsInv'
<1>1. PsTypes' /\ CfgGood' /\ (~misread' => ~misread)
  BY TypesWriteCfg, CfgWrite DEF PsInv
<1>2. UNCHANGED << ksend, kbd_events, typed, g_e0, foreign, down, mods, msend,
                   mouse_packets, seen, g_packet >>
  BY DEF P!write_cfg, P!device, P!kbd, P!mouse
<1>3. P!Taken \/ UNCHANGED << obf, lostKey, lostMouse >>
  BY DEF P!write_cfg
<1>4. boot # "kbd_flush"
  BY DEF P!write_cfg
<1>5. MouseGood'
  BY <1>2, <1>3, MouseBoot DEF PsInv
<1> QED
  BY <1>1, <1>2, <1>3, <1>4, <1>5, PsBoot

LEMMA PsDevice ==
  ASSUME PsInv,
         P!write_device("defaults", "defaults_ack") \/ P!write_device("enable", "enable_ack")
  PROVE  PsInv'
<1>1. PsTypes'
  BY TypesDevice DEF PsInv, PsSteps
<1>2. CfgGood' /\ mouse_packets = << >>
  BY CfgDevice DEF PsInv
<1>3. MouseGood'
  BY <1>2, MouseDevice DEF PsInv
<1>4. /\ UNCHANGED << ksend, kbd_events, typed, g_e0, foreign, down, mods, misread, obf, lostKey >>
      /\ boot # "kbd_flush"
  BY DEF P!write_device, P!kbd, P!faults
<1> QED
  BY <1>1, <1>2, <1>3, <1>4, PsBoot

LEMMA PsKeyIrq ==
  ASSUME PsInv, P!keyboard_handle_irq
  PROVE  PsInv'
<1>1. PsTypes' /\ KeysGood' /\ MouseGood'
  BY TypesKeyIrq, KeysKeyIrq, MouseKeyIrq DEF PsInv
<1>2. UNCHANGED << boot, cfg, misread, reports, mouse_packets, typed, down >>
  BY DEF P!keyboard_handle_irq, P!device
<1>3. DownGood' /\ CfgGood'
  BY <1>2, DownSame, CfgSame DEF PsInv
<1>4. ModsGood'
  <2>1. CASE UNCHANGED P!kbd
    BY <2>1, ModsSame DEF PsInv, P!kbd
  <2>2. CASE obf # << >> /\ P!keyboard_process_scancode(obf[1].byte)
    <3>1. obf[1].byte \in Octet
      BY <2>2, TypedSeq, ObfFacts DEF PsInv
    <3> QED
      BY <2>2, <3>1, ModsDecoded DEF PsInv
  <2> QED
    BY <2>1, <2>2 DEF P!keyboard_handle_irq
<1> QED
  BY <1>1, <1>3, <1>4 DEF PsInv

LEMMA PsMouseIrq ==
  ASSUME PsInv, P!mouse_handle_irq
  PROVE  PsInv'
<1>1. PsTypes' /\ KeysGood' /\ MouseGood'
  BY TypesMouseIrq, KeysMouseIrq, MouseMouseIrq DEF PsInv
<1>2. UNCHANGED << boot, cfg, misread, reports, mouse_packets, typed, down, mods, kbd_events >>
  BY DEF P!mouse_handle_irq, P!device, P!kbd
<1>3. DownGood' /\ CfgGood' /\ ModsGood'
  BY <1>2, DownSame, CfgSame, ModsSame DEF PsInv
<1> QED
  BY <1>1, <1>3 DEF PsInv

LEMMA PsStep ==
  ASSUME PsInv, P!Next
  PROVE  PsInv'
<1>1. CASE \E k \in KeysUsed, up \in BOOLEAN : P!Stroke(k, up)
  BY <1>1, PsStroke
<1>2. CASE \E p \in PacketsSent : P!Moves(p)
  BY <1>2, PsMoves
<1>3. CASE P!Load
  BY <1>3, PsLoad
<1>4. CASE P!keyboard_init
  BY <1>4, PsFlush DEF P!keyboard_init
<1>5. CASE P!mouse_init
  BY <1>5, PsAux, PsReadCfg, PsWriteCfg, PsDevice, PsAck, PsFlush DEF P!mouse_init
<1>6. CASE P!Interrupts
  BY <1>6, PsKeyIrq, PsMouseIrq DEF P!Interrupts
<1> QED
  BY <1>1, <1>2, <1>3, <1>4, <1>5, <1>6 DEF P!Next

LEMMA PsSame ==
  ASSUME PsInv, UNCHANGED pvars
  PROVE  PsInv'
<1>1. UNCHANGED << boot, cfg, obf, ksend, msend, reply, irq1, irq12, g_e0, mods, g_caps, g_packet,
                   mouse_x, mouse_y, reports, down, typed, kbd_events, mouse_packets, seen,
                   lostKey, lostMouse, foreign, misread >>
  BY DEF pvars
<1>2. FlagTypes' /\ BufferTypes' /\ KeyTypes' /\ MouseTypes'
  BY <1>1 DEF PsInv, PsTypes, FlagTypes, BufferTypes, KeyTypes, MouseTypes
<1>3. P!Understood' => P!Understood
  BY <1>1 DEF P!Understood
<1>4. KeysGood' /\ ModsGood' /\ DownGood' /\ CfgGood' /\ MouseGood'
  BY <1>1, <1>3, KeysSame, ModsSame, DownSame, CfgSame, MouseSame DEF PsInv
<1> QED
  BY <1>2, <1>4 DEF PsInv, PsTypes

LEMMA GuiPsStep ==
  ASSUME PsInv, [GuiNext]_<< part, vars, pvars, tvars, wvars, avars, fvars >>
  PROVE  PsInv'
<1>1. P!Next \/ UNCHANGED pvars
  BY DEF GuiNext
<1> QED
  BY <1>1, PsStep, PsSame

(* PsInv is an invariant of the user interface: what the two devices have  *)
(* still to send, the byte in the controller's buffer and what the two     *)
(* drivers made of the bytes before it are one stream of strokes and one   *)
(* of packets, unless a byte went to somebody else.                        *)
THEOREM GuiPsInvariance == GuiSpec => []PsInv
<1>1. GuiInit => PsInv
  BY PsInit DEF GuiInit
<1>2. PsInv /\ [GuiNext]_<< part, vars, pvars, tvars, wvars, avars, fvars >> => PsInv'
  BY GuiPsStep
<1> QED
  BY <1>1, <1>2, PTL DEF GuiSpec

(* A sequence that agrees with another up to its length is a prefix of it. *)
LEMMA PrefixIs ==
  ASSUME NEW S, NEW s \in Seq(S), NEW r \in Seq(S), Len(s) <= Len(r),
         \A k \in 1 .. Len(s) : s[k] = r[k]
  PROVE  P!IsPrefix(s, r)
<1>1. PICK N \in Nat : N = Len(s) /\ N <= Len(r)
  OBVIOUS
<1>2. \A k \in 1 .. N : s[k] \in S /\ r[k] \in S /\ s[k] = r[k]
  BY <1>1
<1>3. /\ SubSeq(s, 1, N) \in Seq(S) /\ Len(SubSeq(s, 1, N)) = (IF 1 <= N THEN N - 1 + 1 ELSE 0)
      /\ \A k \in 1 .. N - 1 + 1 : SubSeq(s, 1, N)[k] = s[1 + k - 1]
  BY <1>1, <1>2, SubSeqProperties
<1>4. /\ SubSeq(r, 1, N) \in Seq(S) /\ Len(SubSeq(r, 1, N)) = (IF 1 <= N THEN N - 1 + 1 ELSE 0)
      /\ \A k \in 1 .. N - 1 + 1 : SubSeq(r, 1, N)[k] = r[1 + k - 1]
  BY <1>1, <1>2, SubSeqProperties
<1>5. PICK u, w : u = SubSeq(s, 1, N) /\ w = SubSeq(r, 1, N)
  OBVIOUS
<1>6. Len(u) = N /\ Len(w) = N /\ u \in Seq(S) /\ w \in Seq(S)
  BY <1>1, <1>3, <1>4, <1>5
<1>7. ASSUME NEW k \in 1 .. N PROVE u[k] = w[k]
  <2>1. k \in 1 .. N - 1 + 1 /\ 1 + k - 1 = k
    BY <1>1
  <2>2. u[k] = s[k] /\ w[k] = r[k]
    BY <1>3, <1>4, <1>5, <2>1
  <2> QED
    BY <1>2, <2>2
<1>8. u = w
  BY <1>6, <1>7, SeqEqual
<1> QED
  BY <1>1, <1>5, <1>8 DEF P!IsPrefix

LEMMA PsStrokes ==
  ASSUME PsInv, P!Understood
  PROVE  /\ Len(kbd_events) <= Len(typed)
         /\ \A k \in 1 .. Len(kbd_events) : kbd_events[k] = typed[k]
         /\ P!AllRead => Len(kbd_events) = Len(typed)
<1>1. PICK ob : /\ KeyStream(ksend, ob, kbd_events, typed, g_e0)
                /\ ob = obf \/ (ob = << >> /\ From(obf, "kbd"))
  BY DEF PsInv, KeysGood
<1>2. Len(kbd_events) <= Len(typed) /\ \A k \in 1 .. Len(kbd_events) : kbd_events[k] = typed[k]
  BY <1>1 DEF KeyStream, KeysRead
<1>3. ASSUME P!AllRead PROVE Len(kbd_events) = Len(typed)
  <2>1. ksend = << >> /\ ~From(obf, "kbd")
    BY <1>3 DEF P!AllRead, From
  <2>2. KeyStream(<< >>, obf, kbd_events, typed, g_e0)
    BY <1>1, <2>1
  <2>3. kbd_events \in Seq(P!Stroke_) /\ StrokeSeq(typed) /\ g_e0 \in BOOLEAN
    BY TypedSeq DEF PsInv
  <2> QED
    BY <2>1, <2>2, <2>3, KeysAllRead
<1> QED
  BY <1>2, <1>3

LEMMA PsEvents ==
  ASSUME PsInv
  PROVE  P!EventsAreStrokes
<1>1. kbd_events \in Seq(P!Stroke_) /\ typed \in Seq(P!Stroke_)
  BY DEF PsInv, PsTypes, KeyTypes
<1> SUFFICES ASSUME P!Understood
             PROVE  P!IsPrefix(kbd_events, typed) /\ (P!AllRead => Len(kbd_events) = Len(typed))
  BY DEF P!EventsAreStrokes
<1>2. P!IsPrefix(kbd_events, typed)
  BY <1>1, PsStrokes, PrefixIs, Zenon
<1> QED
  BY <1>2, PsStrokes

LEMMA PsModifiers ==
  ASSUME PsInv
  PROVE  P!NoStuckModifier
<1> SUFFICES ASSUME P!Understood, P!AllRead, NEW m \in mods
             PROVE  P!KeysOf[m] \cap down # {}
  BY DEF P!NoStuckModifier
<1>1. /\ Len(kbd_events) = Len(typed) /\ typed \in Seq(P!Stroke_)
      /\ \A k \in 1 .. Len(typed) : kbd_events[k] = typed[k]
  BY PsStrokes DEF PsInv, PsTypes, KeyTypes
<1>2. PICK N \in Nat : N = Len(typed)
  BY <1>1
<1>3. PICK j \in 1 .. N :
        /\ typed[j].pressed /\ ModOf(typed[j].scancode % 128) = {m}
        /\ \A k \in j + 1 .. N : ~typed[k].pressed => ModOf(typed[k].scancode % 128) # {m}
  <2>1. PICK j \in 1 .. N :
          /\ kbd_events[j].pressed /\ ModOf(kbd_events[j].scancode % 128) = {m}
          /\ \A k \in j + 1 .. N : ~kbd_events[k].pressed =>
               ModOf(kbd_events[k].scancode % 128) # {m}
    BY <1>1, <1>2 DEF PsInv, ModsGood, ModsHeld
  <2>2. \A k \in j .. N : kbd_events[k] = typed[k]
    BY <1>1, <1>2
  <2>3. /\ typed[j].pressed /\ ModOf(typed[j].scancode % 128) = {m}
        /\ \A k \in j + 1 .. N : ~typed[k].pressed => ModOf(typed[k].scancode % 128) # {m}
    <3>1. kbd_events[j] = typed[j]
      BY <1>1, <1>2
    <3>2. ASSUME NEW k \in j + 1 .. N, ~typed[k].pressed
          PROVE  ModOf(typed[k].scancode % 128) # {m}
      <4>1. k \in j .. N
        BY <1>2
      <4>2. kbd_events[k] = typed[k]
        BY <2>2, <4>1
      <4> QED
        BY <2>1, <3>2, <4>2
    <3> QED
      BY <2>1, <3>1, <3>2
  <2> QED
    BY <2>3
<1>4. typed[j] \in P!Stroke_
  BY <1>1, <1>2
<1>5. PICK c \in 0 .. 255 : c = typed[j].scancode
  BY <1>4, StrokeFacts
<1>6. c \in down
  <2>1. \A k \in j + 1 .. N : typed[k].scancode = typed[j].scancode => typed[k].pressed
    BY <1>3
  <2> QED
    BY <1>2, <1>3, <1>5, <2>1 DEF PsInv, DownGood
<1>7. \/ m = "shift" /\ c % 128 \in {42, 54}
      \/ m = "ctrl" /\ c % 128 = 29
      \/ m = "alt" /\ c % 128 = 56
  BY <1>3, <1>5, ModifierSets
<1>8. \/ m = "shift" /\ c \in {42, 54, 170, 182}
      \/ m = "ctrl" /\ c \in {29, 157}
      \/ m = "alt" /\ c \in {56, 184}
  BY <1>7
<1>9. P!KeysOf["shift"] = {42, 54, 170, 182} /\ P!KeysOf["ctrl"] = {29, 157}
      /\ P!KeysOf["alt"] = {56, 184}
  BY DEF P!KeysOf
<1>10. c \in P!KeysOf[m]
  BY <1>8, <1>9
<1> QED
  BY <1>6, <1>10

LEMMA PsPackets ==
  ASSUME PsInv
  PROVE  P!PacketsWhole
<1> SUFFICES ASSUME ~lostMouse PROVE P!IsPrefix(seen, mouse_packets)
  BY DEF P!PacketsWhole
<1>1. seen \in Seq(Seq(Octet)) /\ mouse_packets \in Seq(PacketsSent)
  BY DEF PsInv, PsTypes, MouseTypes
<1>2. mouse_packets \in Seq(Seq(Octet))
  BY <1>1, PsFacts
<1>3. Len(seen) <= Len(mouse_packets) /\ \A k \in 1 .. Len(seen) : seen[k] = mouse_packets[k]
  BY DEF PsInv, MouseGood, MouseStream
<1> QED
  BY <1>1, <1>2, <1>3, PrefixIs, Zenon

LEMMA PsKeptOn ==
  ASSUME PsInv
  PROVE  P!KeyboardKeptOn
<1> SUFFICES ASSUME "irq12" \in cfg, ~misread PROVE cfg = {"irq1", "irq12", "translate"}
  BY DEF P!KeyboardKeptOn
<1>1. cfg \in {Sane, Sane \cup {"aux_off"}, Sane \cup {"irq12"}}
  BY DEF PsInv, CfgGood
<1> QED
  BY <1>1 DEF Sane

(* Strokes become events one by one and in order, no modifier sticks,      *)
(* packets do not mix, and the mouse's initialisation leaves the keyboard  *)
(* on (StrokesAndPacketsWhole), for any keys, packets and number of them.  *)
THEOREM GuiStrokesAndPacketsWhole == GuiSpec => []StrokesAndPacketsWhole
<1>1. PsInv => StrokesAndPacketsWhole
  BY PsEvents, PsModifiers, PsPackets, PsKeptOn DEF StrokesAndPacketsWhole
<1> QED
  BY <1>1, GuiPsInvariance, PTL
=============================================================================
