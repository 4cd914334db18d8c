------------------------------ MODULE GuiInput ------------------------------
(***************************************************************************)
(* The GUI input path: mouse and keyboard interrupts feed the event ring   *)
(* of kernel/gui/input.c, the window manager thread of kernel/gui/wm.c     *)
(* drains it.  Both take g_gui_input_lock with spin_lock, which leaves     *)
(* interrupts as they are, so an interrupt may find the lock held by the   *)
(* thread it interrupted; it then spins with interrupts off for ever.      *)
(*                                                                         *)
(* One CPU: while an interrupt is being handled (irq is not empty) the     *)
(* thread does not move, and interrupts do not nest (interrupt gates).     *)
(* Positions, times and key codes are left out; what a click hits is a     *)
(* choice made when the event is handled.                                  *)
(***************************************************************************)
EXTENDS Naturals, Sequences

CONSTANTS GUI_EVENT_QUEUE_SIZE,  \* slots of the ring
          Buttons,               \* the buttons the mouse has
          MaxPackets             \* bound: interrupts in a behaviour

ASSUME SizeAssumption == GUI_EVENT_QUEUE_SIZE \in Nat /\ GUI_EVENT_QUEUE_SIZE > 1
ASSUME ButtonsAssumption == Buttons \subseteq {"LEFT", "RIGHT", "MIDDLE"}
ASSUME MaxPacketsAssumption == MaxPackets \in Nat

VARIABLES
    lock,      \* g_gui_input_lock: "free", or "wm" when the thread holds it
    head,      \* g_event_head, the next slot written
    tail,      \* g_event_tail, the next slot read
    slots,     \* g_event_queue
    buttons,   \* g_mouse_state.buttons
    irq,       \* the calls the interrupt being handled has still to make
    pc,        \* where the window manager thread is
    ev,        \* the event it took
    drag,      \* its drag_mode, # DRAG_NONE
    menu,      \* the start menu's g_open
    held,      \* the buttons held on the device, as the last packet said
    packets,   \* interrupts so far
    refused,   \* history: events dropped at a full ring
    lostUp     \* history: since a MOUSE_UP last got into the ring one was
               \* dropped or was taken by the start menu

ring == <<head, tail, slots, refused>>
wm   == <<pc, ev, drag, menu>>
vars == <<lock, ring, buttons, irq, wm, held, packets, lostUp>>

EventType == {"MOVE", "DOWN", "UP", "KEY_DOWN", "KEY_UP"}
Event     == [type : EventType, buttons : SUBSET Buttons]
NoEvent   == [type |-> "NONE", buttons |-> {}]
PushCall  == [op : {"absolute"}, arg : SUBSET Buttons]
               \cup [op : {"down", "up"}, arg : Buttons]
               \cup [op : {"key_down", "key_up"}, arg : {{}}]
Slot      == 0 .. GUI_EVENT_QUEUE_SIZE - 1

Init ==
    /\ lock = "free" /\ head = 0 /\ tail = 0
    /\ slots = [s \in Slot |-> NoEvent]
    /\ buttons = {} /\ irq = <<>>
    /\ pc = "init" /\ ev = NoEvent /\ drag = FALSE /\ menu = FALSE
    /\ held = {} /\ packets = 0 /\ refused = 0 /\ lostUp = FALSE

-----------------------------------------------------------------------------
(* The ring.                                                               *)

no_wrap_bug(s) == s + 1
slot_after(s) == (s + 1) % GUI_EVENT_QUEUE_SIZE

full_at_wrap_bug(h, t) == h = t
is_full(h, t) == slot_after(h) = t

empty_early_bug(h, t) == h = t \/ h = slot_after(t)
is_empty(h, t) == h = t

\* A full ring drops the event.
enqueue(e) ==
    \/ /\ ~is_full(head, tail)
       /\ slots' = [slots EXCEPT ![head] = e]
       /\ head' = slot_after(head)
       /\ lostUp' = (lostUp /\ e.type # "UP")
       /\ UNCHANGED <<tail, refused>>
    \/ /\ is_full(head, tail)
       /\ refused' = refused + 1
       /\ lostUp' = (lostUp \/ e.type = "UP")
       /\ UNCHANGED <<head, tail, slots>>

-----------------------------------------------------------------------------
(* Interrupts.  Each call of an interrupt takes the lock, so it waits for  *)
(* ever when the thread under it holds the lock.                           *)

\* What the loop of gui_input_emit_mouse_button_changes does for one mask.
press_only(m, old, new) ==
    IF m \in old \/ m \notin new THEN <<>> ELSE <<[op |-> "down", arg |-> m]>>
button_change(m, old, new) ==
    IF (m \in old) = (m \in new) THEN <<>>
    ELSE <<[op |-> IF m \in new THEN "down" ELSE "up", arg |-> m]>>

only_presses_bug(old, new) ==
    press_only("LEFT", old, new) \o press_only("RIGHT", old, new)
      \o press_only("MIDDLE", old, new)

\* The presses and releases between two button states, in the order of masks.
emit_button_changes(old, new) ==
    button_change("LEFT", old, new) \o button_change("RIGHT", old, new)
      \o button_change("MIDDLE", old, new)

Arrives(call) ==
    /\ irq = <<>>
    /\ packets < MaxPackets
    /\ packets' = packets + 1
    /\ irq' = <<call>>

\* A complete packet of the mouse reaches gui_mouse_callback.
mouse_isr(b) ==
    /\ Arrives([op |-> "absolute", arg |-> b])
    /\ held' = b
    /\ UNCHANGED <<lock, ring, buttons, wm, lostUp>>

\* A scan code reaches gui_kbd_callback.
kbd_isr(op) ==
    /\ Arrives([op |-> op, arg |-> {}])
    /\ UNCHANGED <<lock, ring, buttons, wm, held, lostUp>>

Pushes(op) == irq # <<>> /\ Head(irq).op = op /\ lock = "free"

push_mouse_absolute ==
    /\ Pushes("absolute")
    /\ enqueue([type |-> "MOVE", buttons |-> Head(irq).arg])
    /\ irq' = emit_button_changes(buttons, Head(irq).arg)
    /\ UNCHANGED <<lock, buttons, wm, held, packets>>

push_mouse_button(op, type, after) ==
    /\ Pushes(op)
    /\ buttons' = after
    /\ enqueue([type |-> type, buttons |-> after])
    /\ irq' = Tail(irq)
    /\ UNCHANGED <<lock, wm, held, packets>>

push_mouse_down == push_mouse_button("down", "DOWN", buttons \cup {Head(irq).arg})
push_mouse_up   == push_mouse_button("up", "UP", buttons \ {Head(irq).arg})

push_key(op, type) ==
    /\ Pushes(op)
    /\ enqueue([type |-> type, buttons |-> buttons])
    /\ irq' = Tail(irq)
    /\ UNCHANGED <<lock, buttons, wm, held, packets>>

-----------------------------------------------------------------------------
(* The window manager thread.                                              *)

Thread(at) == irq = <<>> /\ pc = at

\* spin_lock in gui_input_init, gui_input_get_mouse_state and
\* gui_input_poll_event: it never waits, as no interrupt ends holding the lock.
spin_lock(at, inside) ==
    /\ Thread(at)
    /\ lock = "free"
    /\ lock' = "wm"
    /\ pc' = inside
    /\ UNCHANGED <<ring, buttons, irq, ev, drag, menu, held, packets, lostUp>>

init_lock   == spin_lock("init", "init_locked")
redraw_lock == spin_lock("redraw", "redraw_locked")
poll_lock   == spin_lock("poll", "poll_locked")

gui_input_init ==
    /\ Thread("init_locked")
    /\ buttons' = {} /\ head' = 0 /\ tail' = 0
    /\ lock' = "free" /\ pc' = "redraw"
    /\ UNCHANGED <<slots, refused, irq, ev, drag, menu, held, packets, lostUp>>

\* The end of wm_redraw_all: the pointer is read and drawn.
get_mouse_state ==
    /\ Thread("redraw_locked")
    /\ lock' = "free" /\ pc' = "poll"
    /\ UNCHANGED <<ring, buttons, irq, ev, drag, menu, held, packets, lostUp>>

poll_event ==
    /\ Thread("poll_locked")
    /\ lock' = "free"
    /\ \/ /\ ~is_empty(head, tail)
          /\ ev' = slots[tail]
          /\ tail' = slot_after(tail)
          /\ pc' = "handle"
       \/ /\ is_empty(head, tail)
          /\ pc' = "poll"
          /\ UNCHANGED <<ev, tail>>
    /\ UNCHANGED <<head, slots, refused, buttons, irq, drag, menu, held,
                   packets, lostUp>>

LeftDown == ev.type = "DOWN" /\ "LEFT" \in ev.buttons

\* One wm_handle_event, and whether a redraw follows it.
Handle(dirty) ==
    /\ Thread("handle")
    /\ pc' = IF dirty THEN "redraw" ELSE "poll"
    /\ ev' = NoEvent
    /\ UNCHANGED <<lock, ring, buttons, irq, held, packets>>

\* The open start menu takes every event; a left press outside it or on an
\* item closes it.
handle_in_menu ==
    /\ menu
    /\ Handle(TRUE)
    /\ menu' = FALSE \/ menu' = TRUE
    /\ ~LeftDown => menu' = TRUE
    /\ lostUp' = (lostUp \/ ev.type = "UP")
    /\ UNCHANGED drag

\* A press with the left button down: the Start orb toggles the menu, a title
\* bar or a resize grip starts a drag, anything else does neither.
handle_left_down ==
    /\ ~menu /\ LeftDown
    /\ Handle(TRUE)
    /\ \/ menu' = TRUE /\ UNCHANGED drag
       \/ drag' = TRUE /\ UNCHANGED menu
       \/ UNCHANGED <<drag, menu>>
    /\ UNCHANGED lostUp

handle_move ==
    /\ ~menu /\ ev.type = "MOVE"
    /\ Handle(TRUE)
    /\ UNCHANGED <<drag, menu, lostUp>>

handle_up ==
    /\ ~menu /\ ev.type = "UP"
    /\ Handle(drag)
    /\ drag' = FALSE
    /\ UNCHANGED <<menu, lostUp>>

\* A key goes to the active window, if there is one; a press of another
\* button goes nowhere.
handle_other ==
    /\ ~menu
    /\ \/ ev.type \in {"KEY_DOWN", "KEY_UP"} /\ \E active \in BOOLEAN : Handle(active)
       \/ ev.type = "DOWN" /\ ~LeftDown /\ Handle(FALSE)
    /\ UNCHANGED <<drag, menu, lostUp>>

wm_thread ==
    \/ init_lock \/ gui_input_init \/ redraw_lock \/ get_mouse_state
    \/ poll_lock \/ poll_event
    \/ handle_in_menu \/ handle_left_down \/ handle_move \/ handle_up \/ handle_other

interrupt ==
    \/ push_mouse_absolute \/ push_mouse_down \/ push_mouse_up
    \/ push_key("key_down", "KEY_DOWN") \/ push_key("key_up", "KEY_UP")

Next ==
    \/ \E b \in SUBSET Buttons : mouse_isr(b)
    \/ \E op \in {"key_down", "key_up"} : kbd_isr(op)
    \/ interrupt
    \/ wm_thread

Spec == Init /\ [][Next]_vars

\* The CPU carries out the handler it entered, and the scheduler keeps
\* giving the window manager its turn.
FairSpec == Spec /\ WF_vars(interrupt) /\ WF_vars(wm_thread)

-----------------------------------------------------------------------------
(* Properties.                                                             *)

TypeOK ==
    /\ lock \in {"free", "wm"} /\ head \in Slot /\ tail \in Slot
    /\ slots \in [Slot -> Event \cup {NoEvent}]
    /\ buttons \subseteq Buttons /\ held \subseteq Buttons
    /\ irq \in Seq(PushCall) /\ Len(irq) <= 3
    /\ pc \in {"init", "init_locked", "redraw", "redraw_locked", "poll",
               "poll_locked", "handle"}
    /\ ev \in Event \cup {NoEvent} /\ (pc = "handle") = (ev # NoEvent)
    /\ drag \in BOOLEAN /\ menu \in BOOLEAN /\ lostUp \in BOOLEAN
    /\ packets \in 0 .. MaxPackets /\ refused \in Nat

Waiting == (head + GUI_EVENT_QUEUE_SIZE - tail) % GUI_EVENT_QUEUE_SIZE

\* The ring read from tail to head.
Contents == [i \in 1 .. Waiting |->
                slots[(tail + i - 1) % GUI_EVENT_QUEUE_SIZE]]

\* The ring of gui_input_enqueue and gui_input_poll_event is a first-in
\* first-out queue of one event less than it has slots: events come out whole
\* and in order, and one is dropped only when that many wait.
Q == INSTANCE EventQueue WITH queue <- Contents,
                              Capacity <- GUI_EVENT_QUEUE_SIZE - 1
RefinesQueue == Q!Spec

Quiet == irq = <<>> /\ head = tail /\ pc \in {"redraw", "poll"}

\* A window follows the pointer only while the left button is held: once every
\* interrupt and every queued event is dealt with, wm_handle_event is dragging
\* only if the device holds LEFT, unless a MOUSE_UP was dropped at a full ring
\* (gui_input_enqueue) or taken by the open start menu.
DragNeedsButton == Quiet /\ drag => "LEFT" \in held \/ lostUp

Stuck == irq # <<>> /\ lock = "wm"

\* Unless an interrupt hangs on the lock, the window manager works off all it
\* is sent: a ring with events in it is empty again later.
QueueDrains == []~Stuck => ((head # tail) ~> (head = tail))

\* The lock of the event ring is safe against interrupts: no interrupt ever
\* waits for the thread it interrupted.
NoSelfDeadlock == ~Stuck
=============================================================================
