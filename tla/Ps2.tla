-------------------------------- MODULE Ps2 --------------------------------
(***************************************************************************)
(* The keyboard and mouse drivers of kernel/keyboard.c and kernel/mouse.c. *)
(* Both devices sit behind one i8042 controller with one output buffer and *)
(* one data port, and nothing but the status byte tells whose byte waits.  *)
(*                                                                         *)
(* keyboard_init and mouse_init run with interrupts off, so an interrupt   *)
(* raised meanwhile stays latched while the flush loops take the byte it   *)
(* was raised for; it is served after sti, when the buffer may hold        *)
(* another byte.  Bytes are numbers; the controller, its two devices and   *)
(* the interrupt latches are external.  The event rings that no code reads *)
(* (keyboard_get_event, keyboard_poll, mouse_get_event have no caller) and *)
(* the character of a key are left out.                                    *)
(***************************************************************************)
EXTENDS Integers, Sequences, SequencesExt, FiniteSetsExt

CONSTANTS Keys,       \* keys in use: the base code, plus 128 for an E0 key
          Packets,    \* the packets the mouse may send, of three bytes
          Width, Height,                 \* the area of clamp_mouse_position
          MaxInputs                      \* bound: key strokes and packets

E0 == 224
ACK == 250
CAPS == 58
Extended(k) == k >= 128
Bit(b, mask) == (b \div mask) % 2

\* No key's release is the prefix byte, and a packet is three bytes of which the
\* first has the bit set that marks it.
Ps2Assumption ==
    /\ {Width, Height} \subseteq Nat \ {0} /\ MaxInputs \in Nat
    /\ Keys \subseteq 0 .. 255 /\ \A k \in Keys : k % 128 # E0 - 128
    /\ \A p \in Packets : /\ p \in Seq(0 .. 255) /\ Len(p) = 3 /\ Bit(p[1], 8) = 1

\* The modifier a base code stands for, in a set.
modifier_of(sc) ==
    CASE sc \in {42, 54} -> {"shift"} [] sc = 29 -> {"ctrl"} [] sc = 56 -> {"alt"}
      [] OTHER -> {}

VARIABLES
    boot,      \* where keyboard_init and mouse_init are; "on" after sti
    cfg,       \* the controller's configuration: bits that are set
    obf,       \* the output buffer: <<>>, or one byte with its source
    ksend,     \* bytes the keyboard has still to send
    msend,     \* bytes the mouse has still to send
    reply,     \* the controller's answer to a command, not yet in the buffer
    irq1, irq12,                         \* latched interrupts
    g_e0,
    mods,      \* g_shift, g_ctrl and g_alt: those that are set
    g_caps,
    g_packet,  \* the bytes of g_packet up to g_packet_index
    mouse_x, mouse_y,
    reports,   \* the mouse got the command to report its movements
    down,      \* the keys held on the keyboard
    typed,     \* history: strokes made after the drivers were initialised
    events,    \* history: events handed to the callbacks
    packets,   \* history: packets sent
    seen,      \* history: packets mouse_process_packet acted on
    lostKey,   \* history: a keyboard byte was taken by something else
    lostMouse, \* history: a mouse byte was taken by something else, or an ACK
               \* came so late that the interrupt handler read it
    foreign,   \* history: the keyboard driver decoded a byte of the mouse
    misread    \* history: the configuration read was not the controller's

device == <<ksend, msend, reply, reports, down, typed, packets>>
kbd    == <<g_e0, mods, g_caps, events>>
mouse  == <<g_packet, mouse_x, mouse_y, seen>>
faults == <<lostKey, lostMouse, foreign, misread>>
vars   == <<boot, cfg, obf, irq1, irq12, device, kbd, mouse, faults>>

Init ==
    /\ boot = "kbd_flush"
    /\ cfg \in {{"irq1", "translate"}, {"irq1", "translate", "aux_off"}}
    /\ obf \in {<<>>, <<[src |-> "kbd", byte |-> E0]>>}  \* left from before
    /\ reply = <<>> /\ irq1 = FALSE /\ irq12 = FALSE
    /\ ksend = <<>> /\ msend = <<>> /\ reports = FALSE /\ down = {} /\ packets = <<>> /\ typed = <<>>
    /\ g_e0 = FALSE /\ mods = {} /\ g_caps = FALSE /\ events = <<>>
    /\ g_packet = <<>> /\ mouse_x = Width \div 2 /\ mouse_y = Height \div 2
    /\ seen = <<>>
    /\ lostKey = FALSE /\ lostMouse = FALSE /\ foreign = FALSE /\ misread = FALSE

-----------------------------------------------------------------------------
(* External: the devices and the controller.                               *)

ConfigBits == [irq1 |-> 1, irq12 |-> 2, kbd_off |-> 16, aux_off |-> 32, translate |-> 64]
bits_of(byte) == {x \in DOMAIN ConfigBits : Bit(byte, ConfigBits[x]) = 1}
byte_of(bits) == CHOOSE byte \in 0 .. 127 : bits_of(byte) = bits

Pair(k, up) == LET code == (IF Extended(k) THEN k - 128 ELSE k) + (IF up THEN 128 ELSE 0)
               IN  IF Extended(k) THEN <<E0, code>> ELSE <<code>>

\* A key goes down, repeats or goes up: its bytes queue up in the keyboard.
Stroke(k, up) ==
    /\ Len(typed) + Len(packets) < MaxInputs
    /\ up => k \in down
    /\ down' = IF up THEN down \ {k} ELSE down \cup {k}
    /\ ksend' = ksend \o Pair(k, up)
    /\ typed' = Append(typed, [scancode |-> k, pressed |-> ~up])
    /\ UNCHANGED <<boot, cfg, obf, irq1, irq12, msend, reply, reports, packets, kbd, mouse,
                   faults>>

\* The mouse reports, once it was enabled.
Moves(p) ==
    /\ reports
    /\ Len(typed) + Len(packets) < MaxInputs
    /\ packets' = Append(packets, p)
    /\ msend' = msend \o [i \in 1 .. 3 |-> [src |-> "aux", byte |-> p[i]]]
    /\ UNCHANGED <<boot, cfg, obf, irq1, irq12, ksend, reply, reports, down, typed,
                   kbd, mouse, faults>>

\* The free output buffer takes a byte of either device or the controller's
\* answer, and raises the interrupt of its source.  Untranslated codes, which
\* the driver's tables do not know, are 0.
Load ==
    /\ obf = <<>>
    /\ \/ /\ ksend # <<>> /\ "kbd_off" \notin cfg
          /\ obf' = <<[src |-> "kbd", byte |->
                          IF "translate" \in cfg THEN Head(ksend) ELSE 0]>>
          /\ ksend' = Tail(ksend)
          /\ irq1' = (irq1 \/ "irq1" \in cfg)
          /\ UNCHANGED <<msend, reply, irq12>>
       \/ /\ msend # <<>>
          /\ obf' = <<Head(msend)>>
          /\ msend' = Tail(msend)
          /\ irq12' = (irq12 \/ "irq12" \in cfg)
          /\ UNCHANGED <<ksend, reply, irq1>>
       \/ /\ reply # <<>>
          /\ obf' = reply /\ reply' = <<>>
          /\ irq1' = (irq1 \/ "irq1" \in cfg)
          /\ UNCHANGED <<ksend, msend, irq12>>
    /\ UNCHANGED <<boot, cfg, reports, down, typed, packets, kbd, mouse, faults>>

-----------------------------------------------------------------------------
(* Initialisation, with interrupts off.                                    *)

\* A byte read by initialisation code is gone for the driver it belongs to.
Taken ==
    /\ obf # <<>>
    /\ obf' = <<>>
    /\ lostKey' = (lostKey \/ obf[1].src = "kbd")
    /\ lostMouse' = (lostMouse \/ obf[1].src = "aux")

\* while (inb(STATUS) & OBF) inb(DATA): one round, or the end of the loop.
flush(at, next) ==
    /\ boot = at
    /\ \/ Taken /\ UNCHANGED boot
       \/ obf = <<>> /\ boot' = next /\ UNCHANGED <<obf, lostKey, lostMouse>>
    /\ UNCHANGED <<cfg, irq1, irq12, device, kbd, mouse, foreign, misread>>

\* mouse_wait_input_clear may time out: then mouse_init gives up.
enable_aux ==
    /\ boot = "enable_aux"
    /\ \/ boot' = "read_cfg" /\ cfg' = cfg \ {"aux_off"}
       \/ boot' = "on" /\ UNCHANGED cfg
    /\ UNCHANGED <<obf, irq1, irq12, device, kbd, mouse, faults>>

read_cfg ==
    /\ boot = "read_cfg"
    /\ \/ boot' = "wait_cfg" /\ reply' = <<[src |-> "ctl", byte |-> byte_of(cfg)]>>
          /\ UNCHANGED misread
       \/ boot' = "write_cfg_0" /\ misread' = TRUE /\ UNCHANGED reply
    /\ UNCHANGED <<cfg, obf, irq1, irq12, ksend, msend, reports, down, typed,
                   packets, kbd, mouse, lostKey, lostMouse, foreign>>

written(bits) == (bits \cup {"irq1", "irq12"}) \ {"aux_off"}

\* mouse_read_controller_config takes whatever byte waits, and 0 when none
\* comes in time; mouse_write_controller_config may time out too.
write_cfg ==
    /\ \/ /\ boot = "wait_cfg"
          /\ Taken
          /\ cfg' = written(bits_of(obf[1].byte)) \/ UNCHANGED cfg
          /\ misread' = (obf[1].src # "ctl")
       \/ /\ boot = "write_cfg_0" \/ (boot = "wait_cfg" /\ obf = <<>>)
          /\ cfg' = written({}) \/ UNCHANGED cfg
          /\ misread' = TRUE
          /\ UNCHANGED <<obf, lostKey, lostMouse>>
    /\ boot' = "defaults"
    /\ UNCHANGED <<irq1, irq12, device, kbd, mouse, foreign>>

\* mouse_write_device: the mouse answers with ACK, if it gets the command.
write_device(at, ack) ==
    /\ boot = at
    /\ boot' = ack
    /\ \/ /\ msend' = Append(msend, [src |-> "ack", byte |-> ACK])
          /\ reports' = (at = "enable")
       \/ UNCHANGED <<msend, reports>>
    /\ UNCHANGED <<cfg, obf, irq1, irq12, ksend, reply, down, typed, packets, kbd,
                   mouse, faults>>

take_ack(at, next) ==
    /\ boot = at
    /\ \/ Taken
       \/ obf = <<>> /\ UNCHANGED <<obf, lostKey, lostMouse>>  \* timeout
    /\ boot' = next
    /\ UNCHANGED <<cfg, irq1, irq12, device, kbd, mouse, foreign, misread>>

keyboard_init == flush("kbd_flush", "enable_aux")

mouse_init ==
    \/ enable_aux \/ read_cfg \/ write_cfg
    \/ write_device("defaults", "defaults_ack") \/ take_ack("defaults_ack", "enable")
    \/ write_device("enable", "enable_ack") \/ take_ack("enable_ack", "flush")
    \/ flush("flush", "on")

-----------------------------------------------------------------------------
(* Interrupts.                                                             *)

code_of(sc) == IF g_e0 THEN sc + 128 ELSE sc

keyboard_process_scancode(raw) ==
    \/ /\ raw = E0
       /\ g_e0' = TRUE
       /\ UNCHANGED <<mods, g_caps, events>>
    \/ /\ raw # E0
       /\ LET released == raw >= 128
              sc == raw % 128
          IN  /\ mods' = IF released THEN mods \ modifier_of(sc)
                                     ELSE mods \cup modifier_of(sc)
              /\ g_caps' = (g_caps # (sc = CAPS /\ ~released))
              /\ events' = Append(events, [scancode |-> code_of(sc),
                                           pressed |-> ~released])
       /\ g_e0' = FALSE

\* The handler does not look whose byte it is.
keyboard_handle_irq ==
    /\ boot = "on" /\ irq1
    /\ irq1' = FALSE
    /\ \/ /\ obf # <<>>
          /\ obf' = <<>>
          /\ keyboard_process_scancode(obf[1].byte)
          /\ foreign' = (foreign \/ obf[1].src # "kbd")
          /\ lostMouse' = (lostMouse \/ obf[1].src = "aux")
       \/ obf = <<>> /\ UNCHANGED <<obf, kbd, foreign, lostMouse>>
    /\ UNCHANGED <<boot, cfg, irq12, device, mouse, lostKey, misread>>

Clamp(v, limit) == IF v < 0 THEN 0 ELSE IF v >= limit THEN limit - 1 ELSE v

clamp_mouse_position(v, limit) == Clamp(v, limit)

sign_extend_packet_delta(value, sign) == IF sign = 1 THEN value - 256 ELSE value

\* p is complete: its first byte had bit 3 set when it was taken.
mouse_process_packet(p) ==
    /\ mouse_x' = clamp_mouse_position(
                      mouse_x + sign_extend_packet_delta(p[2], Bit(p[1], 16)), Width)
    /\ mouse_y' = clamp_mouse_position(
                      mouse_y - sign_extend_packet_delta(p[3], Bit(p[1], 32)), Height)
    /\ seen' = Append(seen, p)

complete(p) == Len(p) = 3

\* A byte without bit 3 does not start a packet.
in_step(byte) == g_packet # <<>> \/ Bit(byte, 8) = 1

any_waits_bug == obf # <<>>
aux_waits == obf # <<>> /\ obf[1].src \in {"aux", "ack"}

mouse_handle_irq ==
    /\ boot = "on" /\ irq12
    /\ irq12' = FALSE
    /\ \/ /\ aux_waits
          /\ obf' = <<>>
          /\ lostMouse' = (lostMouse \/ obf[1].src = "ack")
          /\ LET p == Append(g_packet, obf[1].byte)
             IN  \/ /\ in_step(obf[1].byte) /\ complete(p)
                    /\ g_packet' = <<>>
                    /\ mouse_process_packet(p)
                 \/ /\ in_step(obf[1].byte) /\ ~complete(p)
                    /\ g_packet' = p
                    /\ UNCHANGED <<mouse_x, mouse_y, seen>>
                 \/ ~in_step(obf[1].byte) /\ UNCHANGED mouse
       \/ ~aux_waits /\ UNCHANGED <<obf, mouse, lostMouse>>
    /\ UNCHANGED <<boot, cfg, irq1, device, kbd, lostKey, foreign, misread>>

Interrupts == keyboard_handle_irq \/ mouse_handle_irq

Next ==
    \/ \E k \in Keys, up \in BOOLEAN : Stroke(k, up)
    \/ \E p \in Packets : Moves(p)
    \/ Load
    \/ keyboard_init \/ mouse_init
    \/ Interrupts

\* A latched interrupt is served once interrupts are on.
Fairness == WF_vars(keyboard_handle_irq) /\ WF_vars(mouse_handle_irq)

Spec == Init /\ [][Next]_vars /\ Fairness

-----------------------------------------------------------------------------
(* Properties.                                                             *)

Stroke_ == [scancode : 0 .. 255, pressed : BOOLEAN]

\* Types; a packet being assembled has at most two bytes and the position is
\* inside the area.
TypeOK ==
    /\ boot \in {"kbd_flush", "enable_aux", "read_cfg", "wait_cfg", "write_cfg_0",
                 "defaults", "defaults_ack", "enable", "enable_ack", "flush", "on"}
    /\ cfg \subseteq {"irq1", "irq12", "kbd_off", "aux_off", "translate"}
    /\ Len(obf) <= 1 /\ Len(reply) <= 1 /\ {irq1, irq12, g_e0, g_caps} \subseteq BOOLEAN
    /\ mods \subseteq {"shift", "ctrl", "alt"} /\ down \subseteq Keys
    /\ events \in Seq(Stroke_) /\ typed \in Seq(Stroke_)
    /\ g_packet \in Seq(0 .. 255) /\ Len(g_packet) <= 2
    /\ mouse_x \in 0 .. Width - 1 /\ mouse_y \in 0 .. Height - 1

Understood == ~lostKey /\ ~foreign /\ ~misread
AllRead == ksend = <<>> /\ (obf # <<>> => obf[1].src # "kbd")

\* keyboard_process_scancode tells the strokes of the keyboard, in order, each
\* with its own code, the prefix byte counted to the right key, as long as no
\* byte went to somebody else and the controller was configured as it was.
EventsAreStrokes ==
    Understood => IsPrefix(events, typed) /\ (AllRead => Len(events) = Len(typed))

KeysOf == [shift |-> {42, 54, 170, 182}, ctrl |-> {29, 157}, alt |-> {56, 184}]

\* No modifier sticks: once every stroke is read, a modifier is set in
\* keyboard.c only while one of its keys is held (a shift with a prefix, as
\* some keys send it, counts as a shift there).
NoStuckModifier ==
    Understood /\ AllRead => \A m \in mods : KeysOf[m] \cap down # {}

\* mouse_handle_irq never mixes bytes of two packets: what it acts on are the
\* packets the mouse sent, as long as no byte of the mouse was taken by the
\* flush loop, by mouse_write_device or by the keyboard's handler.
PacketsWhole == ~lostMouse => IsPrefix(seen, packets)

\* mouse_init leaves the keyboard as it found it, translated and with its
\* clock on, and enables both interrupts, unless what it read as the
\* configuration was a key's byte or a timeout's 0.
KeyboardKeptOn ==
    boot \in {"flush", "on"} /\ "irq12" \in cfg /\ ~misread =>
        cfg = {"irq1", "irq12", "translate"}

\* No byte blocks the output buffer: after sti every byte that waits has an
\* interrupt latched whose handler takes it, except bytes of a mouse whose
\* interrupt could not be enabled (mouse_write_controller_config timed out).
BufferDrains ==
    (boot = "on" /\ obf # <<>> /\ (obf[1].src \in {"aux", "ack"} => "irq12" \in cfg))
        ~> (obf = <<>>)
=============================================================================
