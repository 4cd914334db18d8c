------------------------------- MODULE MCGui --------------------------------
(***************************************************************************)
(* The input path and the user interface on small instances: the event     *)
(* ring with the window manager thread, the PS/2 drivers, the text         *)
(* terminal with its shell, the windows, the apps, and drawing.  A         *)
(* behaviour runs one of them; the others keep an initial state.           *)
(***************************************************************************)
EXTENDS GuiInput

CONSTANTS
  MaxStrokes,   \* strokes and packets of the PS/2 devices
  MaxKeys, MaxEvents, MaxInputs,
  KeysUsed, PacketsSent,
  Letters, LINE_MAX, SHELL_LINE_MAX, SHELL_ARGC_MAX,
  Width, Height, TASKBAR_H, TITLE_BAR_H, BORDER_W, BTN_W, MIN_W, MIN_H, CASCADE_STEP,
  Created, Points, MaxWindows

VARIABLES
  part,
  boot, cfg, obf, ksend, msend, reply, irq1, irq12, g_e0, mods, g_caps, g_packet,
  mouse_x, mouse_y, reports, down, typed, kbd_events, mouse_packets, seen, lostKey,
  lostMouse, foreign, misread,
  g_line, g_line_len, g_line_ready, cb, gui, at, n, i, buf, started, shown, ghosts,
  entered, edited, pressed, keys,
  wins, list, open, wm_menu, icon, wm_drag, saved, wm_buttons, ptr, owner, before,
  events,
  app, tg, vga, text, chat, exp, out, plain, scrolled, inputs,
  tags, g_fb, drew, wrote

pvars == << boot, cfg, obf, ksend, msend, reply, irq1, irq12, g_e0, mods, g_caps, g_packet,
            mouse_x, mouse_y, reports, down, typed, kbd_events, mouse_packets, seen,
            lostKey, lostMouse, foreign, misread >>
tvars == << g_line, g_line_len, g_line_ready, cb, gui, at, n, i, buf, started, shown,
            ghosts, entered, edited, pressed, keys >>
wvars == << wins, list, open, wm_menu, icon, wm_drag, saved, wm_buttons, ptr, owner,
            before, events >>
avars == << app, tg, vga, text, chat, exp, out, plain, scrolled, inputs >>
fvars == << tags, g_fb, drew, wrote >>

-----------------------------------------------------------------------------
P == INSTANCE Ps2 WITH
       Keys <- KeysUsed, Packets <- PacketsSent, MaxInputs <- MaxStrokes,
       events <- kbd_events, packets <- mouse_packets

T == INSTANCE Terminal

W == INSTANCE Windows WITH menu <- wm_menu, drag <- wm_drag, buttons <- wm_buttons

ASSUME GuiAssumption ==
  W!WindowsAssumption /\ P!Ps2Assumption /\ T!TerminalAssumption

(* A packet whose second byte looks like a prefix and whose first like a   *)
(* modifier.                                                               *)
MCPackets == {<< 56, 250, 8 >>}

(* A screen on which the two windows opened first overlap; the pointer can *)
(* reach every part of a window, also of a maximised one.                  *)
MCCreated == [Terminal |-> << 4, 2 >>, Explorer |-> << 4, 2 >>, Notepad |-> << 4, 2 >>]
MCPoints == {<< 0, 0 >>, << 1, 1 >>, << 2, 1 >>, << 3, 1 >>, << 4, 1 >>, << 4, 2 >>,
             << 6, 3 >>, << 4, 0 >>, << 5, 0 >>, << 2, 2 >>, << 5, 2 >>, << 0, 4 >>}

(* "a", Enter, Backspace, the left shift, "P", "H", the up arrow; the      *)
(* adapters also write "b", CR and TAB.                                    *)
A == INSTANCE Apps WITH
       Keys <- {[code |-> 30, ascii |-> 97], [code |-> 28, ascii |-> 10],
                [code |-> 14, ascii |-> 8], [code |-> 42, ascii |-> 0],
                [code |-> 25, ascii |-> 80], [code |-> 35, ascii |-> 72],
                [code |-> 200, ascii |-> 0]},
       Chars <- {98, 13, 9}, Prompt <- <<62>>, You <- <<62>>, Reply <- <<33, 33>>,
       ROWS <- 2, COLS <- 5, TGUI_TAB <- 2, VGA_TAB <- 4, NP_TEXT_CAP <- 4,
       INPUT_SIZE <- 3, LOG_SIZE <- 12, Files <- {"README.TXT", "weights.gguf"},
       VisibleRows <- 3

F == INSTANCE Framebuffer WITH UMod <- 64, FontWidth <- 2, FontHeight <- 3, TmpSize <- 6

(* A picture narrower than its lines of memory, or of a depth the drawing  *)
(* does not know; the tag may come after the end.                          *)
FbTag(bpp) == [type |-> "framebuffer",
               fb |-> [width |-> 12, height |-> 11, stride |-> 14, bpp |-> bpp]]
Other(type) == [type |-> type]
MCTags == {<< Other("mmap"), FbTag(32), FbTag(24), Other("end") >>, << FbTag(24) >>,
           << Other("end"), FbTag(32) >>}

(* Shapes inside, across each edge, and beginning outside (also left of    *)
(* 0, which is a large number), thin and empty ones; texts that fit, that  *)
(* are cut, and that end at a newline.                                     *)
Call(op, x, y, w, h, r, s) ==
  [op |-> op, x |-> x, y |-> y, w |-> w, h |-> h, r |-> r, s |-> s]
MCCalls ==
  { Call("fb_clear", 0, 0, 0, 0, 0, << >>) }
  \union { Call(op, x, y, w, h, 0, << >>) :
             op \in {"fb_fill_rect", "fb_draw_rect"}, x \in {0, 3, 11, 12, 62},
             y \in {0, 4, 10, 62}, w \in {0, 1, 2, 6, 60}, h \in {0, 1, 2, 3, 8, 60} }
  \union { Call(op, x, y, w, h, r, << >>) :
             op \in {"fb_fill_rounded_rect", "fb_draw_rounded_rect"}, x \in {0, 2, 9},
             y \in {0, 7}, w \in {1, 2, 5, 8, 10}, h \in {1, 4, 9}, r \in {0, 1, 2, 4, 9} }
  \union { Call(op, x, y, 0, 0, r, << >>) :
             op \in {"fb_fill_circle", "fb_draw_circle", "fb_put_pixel"},
             x \in {1, 5, 11, 63}, y \in {0, 5, 12}, r \in 0 .. 5 }
  \union { Call("text", x, 2, w, 0, 0, s) :
             x \in {0, 3}, w \in 4 .. 12,
             s \in {[k \in 1 .. m |-> "c"] : m \in 0 .. 8} \union {<< "c", "\n", "c" >>} }

-----------------------------------------------------------------------------
GuiInit ==
  /\ part \in {"queue", "ps2", "terminal", "windows", "apps", "draw"}
  /\ part # "ps2" => cfg = {"irq1", "translate"} /\ obf = << >>
  /\ part # "apps" => app = "terminal"
  /\ tags \in (IF part = "draw" THEN MCTags ELSE {<< >>})
  /\ Init /\ P!Init /\ T!Init /\ W!Init /\ A!Init /\ F!Init

GuiNext ==
  \/ part = "queue" /\ Next /\ UNCHANGED << part, pvars, tvars, wvars, avars, fvars >>
  \/ part = "ps2" /\ P!Next /\ UNCHANGED << part, vars, tvars, wvars, avars, fvars >>
  \/ part = "terminal" /\ T!Next /\ UNCHANGED << part, vars, pvars, wvars, avars, fvars >>
  \/ part = "windows" /\ W!Next /\ UNCHANGED << part, vars, pvars, tvars, avars, fvars >>
  \/ part = "apps" /\ A!Next /\ UNCHANGED << part, vars, pvars, tvars, wvars, fvars >>
  \/ /\ part = "draw" /\ F!fb_init_from_multiboot
     /\ UNCHANGED << part, vars, pvars, tvars, wvars, avars >>
  \/ /\ part = "draw" /\ \E c \in MCCalls : F!draw(c)
     /\ UNCHANGED << part, vars, pvars, tvars, wvars, avars >>

(* The fairness of the modules, each for the part that runs. *)
GuiSpec ==
  /\ GuiInit /\ [][GuiNext]_<< part, vars, pvars, tvars, wvars, avars, fvars >>
  /\ WF_vars(part = "queue" /\ interrupt) /\ WF_vars(part = "queue" /\ wm_thread)
  /\ WF_pvars(part = "ps2" /\ P!keyboard_handle_irq)
  /\ WF_pvars(part = "ps2" /\ P!mouse_handle_irq)
  /\ WF_tvars(part = "terminal" /\ T!shell_run)

-----------------------------------------------------------------------------
(* The types of all parts; every access to a line, a list, a grid or a     *)
(* buffer is inside it.                                                    *)
TypesOK == /\ part = "queue" => TypeOK
           /\ part = "ps2" => P!TypeOK
           /\ part = "terminal" => T!TypeOK
           /\ part = "windows" => W!TypeOK
           /\ part = "apps" => A!TypeOK

(* Bytes of the two PS/2 devices are kept apart and whole: strokes become  *)
(* events one by one, no modifier sticks, packets do not mix, and the      *)
(* mouse's initialisation leaves the keyboard on.                          *)
StrokesAndPacketsWhole ==
  part = "ps2" => /\ P!EventsAreStrokes /\ P!NoStuckModifier
                  /\ P!PacketsWhole /\ P!KeyboardKeptOn

(* The line Enter ended is the line the shell runs, and the screen shows   *)
(* the line being edited.                                                  *)
LineIsRun == part = "terminal" => T!EnteredLineKept /\ T!ScreenShowsLine

(* The window list is sound, keys go to one window, and no window gets out *)
(* of reach.                                                               *)
WindowsSound ==
  part = "windows" => W!ListSound /\ W!ActiveIsFront /\ W!TitleWithinReach

(* A maximised window is given back the place it had. *)
RestoreGivesBack == W!RestoreGivesBack

(* The text screen shows the end of what was written, the Terminal's grid  *)
(* the same until they scroll; the Notepad's text ends inside its buffer;  *)
(* the shell splits the line into its words; and what is drawn is the      *)
(* shape asked for and inside the picture.                                 *)
ScreensAndTexts ==
  /\ part = "apps" => A!ShowsTail /\ A!MirrorsUntilScroll /\ A!TextTerminated
  /\ part = "terminal" => T!ArgumentsAreWords
  /\ part = "draw" => F!DrawnInPlace

(* Input is answered: the ring and the controller's buffer drain, Enter    *)
(* brings the shell to run the line.                                       *)
InputAnswered == QueueDrains /\ P!BufferDrains /\ T!EnterAnswered

-----------------------------------------------------------------------------
(* Statements of the sources that do not hold. *)

(* The Terminal's grid shows what the text screen shows. *)
MirrorsText == part = "apps" => A!MirrorsText
=============================================================================
