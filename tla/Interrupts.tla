----------------------------- MODULE Interrupts ------------------------------
(***************************************************************************)
(* Hardware interrupts from the device to the handler and back: the boot   *)
(* order of kernel_main.c (handlers, I/O APIC routes, sti), the dispatch   *)
(* of idt.c behind the stubs of isr_stubs.asm, the Local APIC of apic.c,   *)
(* and the context switch that the timer's handler makes half way          *)
(* (switch_context.asm).                                                   *)
(*                                                                         *)
(* The Local APIC keeps a vector in service until it is told the end of    *)
(* the interrupt, and meanwhile delivers nothing of its priority class or  *)
(* below; all vectors the kernel routes are of one class.  A handler that  *)
(* is switched away from is continued only when its task is dispatched     *)
(* again, so what it has left to do by then may be late.  Which task       *)
(* sleeps how long is module Sched's subject: here any sleeper may be due  *)
(* at a tick.  Faults of tasks (exception_dump and pf_handler halt the     *)
(* machine) are left out, but for the division the boot tries on purpose.  *)
(***************************************************************************)
EXTENDS Naturals, Sequences

CONSTANT SCHED_TICK_QUANTUM

Kmain == 0
Idle  == 1
Shell == 2
Tasks == {Kmain, Idle, Shell}

Irqs   == {0, 1, 2, 12}               \* timer, keyboard, timer again, mouse
DE     == 0                           \* vectors: the divide error,
Timer  == 32                          \* 0x20
Kbd    == 33                          \* 0x21
Mouse  == 44                          \* 0x2C
Vectors == {DE, Timer, Kbd, Mouse}
Masked  == 255

VARIABLES
  boot,            \* the next of kernel_main's steps
  handlers,        \* isr_handlers[vector]
  pic,             \* the 8259: as the BIOS left it, or masked
  lapic_on,
  redir,           \* the I/O APIC's redirection entry of each IRQ line
  irr, isr,        \* the Local APIC's requested and in-service vectors
  iflag,           \* the CPU's interrupt flag
  cur,             \* g_current
  ready, asleep,   \* the queues of the scheduler
  g_quantum_left,
  at,              \* per task: where its code is, or will be continued
  halted           \* exception_dump has stopped the machine

vars == << boot, handlers, pic, lapic_on, redir, irr, isr, iflag, cur, ready, asleep,
           g_quantum_left, at, halted >>

(* Places in the code: its own, the trampoline before it, the end of       *)
(* sched_yield or sched_sleep, or step i of the handler of vector v, which *)
(* gives the interrupt flag back on return.                                *)
Code     == [place |-> "code", vec |-> 0, i |-> 0, flag |-> TRUE]
Fresh    == [place |-> "fresh", vec |-> 0, i |-> 0, flag |-> TRUE]
Switched == [place |-> "switched", vec |-> 0, i |-> 0, flag |-> TRUE]
Dead     == [place |-> "dead", vec |-> 0, i |-> 0, flag |-> TRUE]
Handler(v, i, flag) == [place |-> "handler", vec |-> v, i |-> i, flag |-> flag]

Running(place) == ~halted /\ at[cur].place = place

-----------------------------------------------------------------------------
(* What the handlers do, in order.  The timer's tells the Local APIC the   *)
(* end before the scheduler may switch away.                               *)
eoi_last_bug(h) ==
  CASE h = "pit_irq_handler" -> << "pit_tick", "sched_tick", "eoi" >>
    [] h \in {"kbd_isr", "mouse_isr"} -> << "read", "eoi" >>
    [] h = "de_test_handler" -> << "skip" >>
    [] OTHER -> << >>
handler_steps(h) ==
  CASE h = "pit_irq_handler" -> << "pit_tick", "eoi", "sched_tick" >>
    [] h \in {"kbd_isr", "mouse_isr"} -> << "read", "eoi" >>
    [] h = "de_test_handler" -> << "skip" >>
    [] OTHER -> << >>

(* What kernel_main does until the scheduler is up. *)
Register(v, h) == [op |-> "register", n |-> v, arg |-> h]
Route(line, v) == [op |-> "route", n |-> line, arg |-> v]
Do(what)       == [op |-> what, n |-> 0, arg |-> 0]

boot_steps ==
  << Do("idt_init"), Register(DE, "de_test_handler"), Do("div"), Register(DE, "none"),
     Do("apic_init"), Register(Timer, "pit_irq_handler"), Route(0, Timer), Route(2, Timer),
     Register(Kbd, "kbd_isr"), Route(1, Kbd), Register(Mouse, "mouse_isr"),
     Route(12, Mouse), Do("sti"), Do("sched_init"), Do("sched_add") >>

(* The machine as the boot loader leaves it: interrupts off (kernel_entry). *)
Init ==
  /\ boot = 1 /\ handlers = [v \in Vectors |-> "none"] /\ pic = "bios"
  /\ lapic_on = FALSE /\ redir = [line \in Irqs |-> Masked]
  /\ irr = {} /\ isr = {} /\ iflag = FALSE
  /\ cur = Kmain /\ ready = << >> /\ asleep = {} /\ g_quantum_left = SCHED_TICK_QUANTUM
  /\ at = [t \in Tasks |-> IF t = Kmain THEN Code ELSE Fresh] /\ halted = FALSE

cpu   == << iflag, cur, at, halted >>
apic  == << lapic_on, redir, irr, isr >>
sched == << ready, asleep, g_quantum_left >>

idt_init ==
  handlers' = [v \in Vectors |-> "none"] /\ UNCHANGED << pic, apic, cpu, sched >>

idt_register_handler(v, h) ==
  handlers' = [handlers EXCEPT ![v] = h] /\ UNCHANGED << pic, apic, cpu, sched >>

(* The boot's test of the divide error: a trap gate, the flag is kept. *)
divide ==
  /\ at' = [at EXCEPT ![cur] = Handler(DE, 1, iflag)]
  /\ UNCHANGED << handlers, pic, apic, iflag, cur, halted, sched >>

(* The 8259 is remapped and masked, the Local APIC enabled, and whatever   *)
(* was in service ended.                                                   *)
apic_init ==
  /\ pic' = "masked" /\ lapic_on' = TRUE /\ isr' = {}
  /\ UNCHANGED << handlers, redir, irr, cpu, sched >>

(* A route is live with the write of its low word, the second. *)
ioapic_route(line, v) ==
  /\ redir' = [redir EXCEPT ![line] = v]
  /\ UNCHANGED << handlers, pic, lapic_on, irr, isr, cpu, sched >>

sti == iflag' = TRUE /\ UNCHANGED << handlers, pic, apic, cur, at, halted, sched >>

sched_init ==
  /\ ready' = << Idle >> /\ asleep' = {} /\ g_quantum_left' = SCHED_TICK_QUANTUM
  /\ UNCHANGED << handlers, pic, apic, cpu >>

sched_add ==
  /\ ready' = Append(ready, Shell)
  /\ UNCHANGED << handlers, pic, apic, cpu, asleep, g_quantum_left >>

(* The next step of kernel_main. *)
kernel_main ==
  /\ Running("code") /\ cur = Kmain /\ boot <= Len(boot_steps)
  /\ boot' = boot + 1
  /\ LET s == boot_steps[boot] IN
     \/ s.op = "idt_init" /\ idt_init
     \/ s.op = "register" /\ idt_register_handler(s.n, s.arg)
     \/ s.op = "div" /\ divide
     \/ s.op = "apic_init" /\ apic_init
     \/ s.op = "route" /\ ioapic_route(s.n, s.arg)
     \/ s.op = "sti" /\ sti
     \/ s.op = "sched_init" /\ sched_init
     \/ s.op = "sched_add" /\ sched_add

-----------------------------------------------------------------------------
(* A device raises its line: an edge that a masked entry loses. *)
raise(line) ==
  /\ lapic_on /\ redir[line] # Masked /\ redir[line] \notin irr
  /\ irr' = irr \union {redir[line]}
  /\ UNCHANGED << boot, handlers, pic, lapic_on, redir, isr, cpu, sched >>

(* The CPU takes the highest requested vector when nothing of its class or *)
(* above is in service.  Vectors from 32 on have interrupt gates.          *)
deliver(v) ==
  /\ ~halted /\ iflag /\ v \in irr
  /\ \A w \in irr : w <= v
  /\ \A w \in isr : w \div 16 < v \div 16
  /\ irr' = irr \ {v} /\ isr' = isr \union {v}
  /\ at' = [at EXCEPT ![cur] = Handler(v, 1, iflag)] /\ iflag' = FALSE
  /\ UNCHANGED << boot, handlers, pic, lapic_on, redir, cur, halted, sched >>

(* do_switch leaves the current task at place p and puts it back on the    *)
(* ready queue when it still runs; the next one goes on where it was.      *)
do_switch(queue, p, runs) ==
  /\ at' = [at EXCEPT ![cur] = p]
  /\ IF queue = << >>
       THEN cur' = cur /\ ready' = queue /\ g_quantum_left' = 0
       ELSE /\ cur' = Head(queue)
            /\ ready' = IF runs THEN Append(Tail(queue), cur) ELSE Tail(queue)
            /\ g_quantum_left' = SCHED_TICK_QUANTUM

(* One step of isr_dispatch's handler.  apic_send_eoi ends the highest     *)
(* vector in service.  sched_tick wakes some of the sleepers (queued in    *)
(* any order) and switches when the quantum is used up.                    *)
isr_dispatch ==
  /\ Running("handler")
  /\ LET h     == at[cur]
         steps == handler_steps(handlers[h.vec])
         next  == Handler(h.vec, h.i + 1, h.flag) IN
     /\ h.i <= Len(steps)
     /\ \/ /\ steps[h.i] \in {"skip", "read", "pit_tick"}
           /\ at' = [at EXCEPT ![cur] = next]
           /\ UNCHANGED << isr, cur, sched >>
        \/ /\ steps[h.i] = "eoi"
           /\ isr' = isr \ {v \in isr : \A w \in isr : w <= v}
           /\ at' = [at EXCEPT ![cur] = next]
           /\ UNCHANGED << cur, sched >>
        \/ /\ steps[h.i] = "sched_tick"
           /\ \E woken \in SUBSET asleep :
                LET left  == IF g_quantum_left > 0 THEN g_quantum_left - 1 ELSE 0
                    queue == IF woken = {} THEN ready ELSE ready \o << Shell >> IN
                /\ asleep' = asleep \ woken
                /\ IF left = 0
                     THEN do_switch(queue, next, TRUE)
                     ELSE /\ g_quantum_left' = left /\ ready' = queue /\ cur' = cur
                          /\ at' = [at EXCEPT ![cur] = next]
           /\ isr' = isr
  /\ UNCHANGED << boot, handlers, pic, lapic_on, redir, irr, iflag, halted >>

(* The handler is done, or there is none: iretq, or exception_dump. *)
iretq ==
  /\ Running("handler")
  /\ LET h == at[cur] IN
     /\ h.i > Len(handler_steps(handlers[h.vec]))
     /\ IF h.vec < 32 /\ handlers[h.vec] = "none"
          THEN halted' = TRUE /\ UNCHANGED << iflag, at >>
          ELSE iflag' = h.flag /\ at' = [at EXCEPT ![cur] = Code] /\ halted' = halted
  /\ UNCHANGED << boot, handlers, pic, apic, cur, sched >>

(* A task that has just been switched to enables interrupts: in the        *)
(* trampoline the first time, at the end of sched_yield and sched_sleep.   *)
resume ==
  /\ Running("fresh") \/ Running("switched")
  /\ iflag' = TRUE /\ at' = [at EXCEPT ![cur] = Code]
  /\ UNCHANGED << boot, handlers, pic, apic, cur, halted, sched >>

(* sched_yield: kernel_main's last loop and any task but the idle one. *)
sched_yield ==
  /\ Running("code") /\ boot > Len(boot_steps) /\ cur # Idle
  /\ iflag' = FALSE
  /\ do_switch(ready, Switched, TRUE)
  /\ UNCHANGED << boot, handlers, pic, apic, asleep, halted >>

sched_sleep ==
  /\ Running("code") /\ cur = Shell
  /\ iflag' = FALSE /\ asleep' = asleep \union {Shell}
  /\ do_switch(ready, Switched, FALSE)
  /\ UNCHANGED << boot, handlers, pic, apic, halted >>

sched_exit ==
  /\ Running("code") /\ cur = Shell
  /\ iflag' = FALSE
  /\ do_switch(ready, Dead, FALSE)
  /\ UNCHANGED << boot, handlers, pic, apic, asleep, halted >>

Cpu  == \/ kernel_main \/ isr_dispatch \/ iretq \/ resume
        \/ \E v \in Vectors : deliver(v)
Next == \/ Cpu \/ \E line \in Irqs : raise(line)
        \/ sched_yield \/ sched_sleep \/ sched_exit

(* The CPU executes what is before it, and takes interrupts as it does. *)
Spec == Init /\ [][Next]_vars /\ WF_vars(Cpu)

-----------------------------------------------------------------------------
(* A vector in service belongs to the handler that runs now and has not    *)
(* told its end: never to one switched away from, or to nobody.  A vector  *)
(* is requested only once its handler is there.                            *)
NoVectorStuck ==
  /\ \A v \in isr : at[cur].place = "handler" /\ at[cur].vec = v
  /\ \A v \in irr : handlers[v] # "none"

(* Whatever switched to it, a task runs its own code with interrupts on,   *)
(* so that hlt and spinning come to an end; they are never on with the     *)
(* 8259 unmasked, and the boot comes through its division by zero.         *)
InterruptsOn ==
  /\ at[cur].place = "code" /\ cur # Kmain => iflag
  /\ cur = Kmain /\ at[cur].place = "code" /\ ~iflag => boot <= Len(boot_steps) - 2
  /\ iflag => pic = "masked"
  /\ ~halted

(* When interrupts are requested one is taken, and deliver takes the       *)
(* highest: none is held up but by those above it.                         *)
Taking == at[cur].place = "handler" /\ at[cur].i = 1
RequestsTaken == irr # {} ~> Taking
=============================================================================
