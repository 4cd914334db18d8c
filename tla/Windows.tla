------------------------------ MODULE Windows ------------------------------
(***************************************************************************)
(* The window manager's handling of events: wm_handle_event of             *)
(* kernel/gui/wm.c with the window list of window.c, the taskbar, the      *)
(* start menu, the desktop icons and the open functions of the apps.       *)
(*                                                                         *)
(* Windows have their place and size on a small screen, so that what a     *)
(* press hits follows from the geometry.  Which taskbar button, menu item  *)
(* or icon lies under a press outside the windows is left open.  Drawing   *)
(* and what keys do inside a window are left out.  Events come one by one, *)
(* none is lost (GuiInput models the queue).                               *)
(***************************************************************************)
EXTENDS Integers, Sequences, FiniteSets, SequencesExt, FiniteSetsExt

CONSTANTS Width, Height, TASKBAR_H,          \* the screen and its taskbar
          TITLE_BAR_H, BORDER_W, BTN_W,      \* the frame of a window
          MIN_W, MIN_H,                      \* limits of a resize
          Created,                           \* app -> the size of its window
          CASCADE_STEP,
          Points,                            \* where the pointer may go
          MaxWindows, MaxEvents              \* bounds

Apps   == {"Terminal", "Explorer", "Notepad"}
Single == {"Terminal"}       \* terminal_gui, settings and ai_chat open once
WinId  == 1 .. MaxWindows
NoWin  == 0
Bottom == Height - TASKBAR_H
Full   == [x |-> 0, y |-> 0, w |-> Width, h |-> Bottom]
Unset  == [x |-> 0, y |-> 0, w |-> 0, h |-> 0]

\* There is room for the two windows of the boot, above the taskbar; a window
\* never gets as small as its title bar, nor has to fill the screen; and the
\* pointer is kept on the screen.
WindowsAssumption ==
    /\ {Width, Height, TASKBAR_H, TITLE_BAR_H, BORDER_W, BTN_W, MIN_W, MIN_H,
        CASCADE_STEP, MaxWindows, MaxEvents} \subseteq Nat
    /\ MaxWindows >= 2 /\ 0 < MIN_W /\ 1 + CASCADE_STEP < Width
    /\ 1 + CASCADE_STEP < Bottom /\ MIN_H < Bottom /\ TITLE_BAR_H + BORDER_W <= Bottom
    /\ \A app \in Apps : Created[app] \in (Nat \ {0}) \X (Nat \ {0})
    /\ Points \subseteq (0 .. Width - 1) \X (0 .. Height - 1)

VARIABLES
    wins,     \* the windows created, by id
    list,     \* g_win_head, g_win_tail and the prev and next links
    open,     \* the single-instance apps whose static pointer is set
    menu,     \* the start menu's g_open
    icon,     \* an icon was clicked last, so the next click may be the second
    drag,     \* drag_mode, drag_win and the origins
    saved,    \* saved_x, saved_y, saved_w, saved_h: one static for all windows
    buttons,  \* mouse buttons held
    ptr,      \* the pointer
    owner,    \* history: the window saved holds the geometry of
    before,   \* history: each window's geometry before it was last maximised
    events    \* events handled so far

ui      == <<wins, list, open, menu, icon, drag, saved>>
history == <<owner, before>>
vars    == <<ui, buttons, ptr, history, events>>

NoDrag == [mode |-> "NONE", win |-> NoWin, at |-> <<0, 0>>, from |-> Unset]
Geometry(win) == [x |-> win.x, y |-> win.y, w |-> win.w, h |-> win.h]
Placed(win, g) == [win EXCEPT !.x = g.x, !.y = g.y, !.w = g.w, !.h = g.h]

-----------------------------------------------------------------------------
(* window.c: the list, front first.                                        *)

Linked(f, from, to) == IF from = NoWin THEN f ELSE [f EXCEPT ![from] = to]

insert_front(l, win) ==
    [head |-> win, tail |-> IF l.tail = NoWin THEN win ELSE l.tail,
     next |-> Linked(l.next, win, l.head),
     prev |-> Linked(Linked(l.prev, win, NoWin), l.head, win)]

tail_kept_bug(l, win) ==
    [head |-> IF l.prev[win] = NoWin THEN l.next[win] ELSE l.head, tail |-> l.tail,
     next |-> Linked(Linked(l.next, l.prev[win], l.next[win]), win, NoWin),
     prev |-> Linked(Linked(l.prev, l.next[win], l.prev[win]), win, NoWin)]
remove_from_list(l, win) ==
    [head |-> IF l.prev[win] = NoWin THEN l.next[win] ELSE l.head,
     tail |-> IF l.next[win] = NoWin THEN l.prev[win] ELSE l.tail,
     next |-> Linked(Linked(l.next, l.prev[win], l.next[win]), win, NoWin),
     prev |-> Linked(Linked(l.prev, l.next[win], l.prev[win]), win, NoWin)]

bring_to_front(l, win) ==
    IF win = l.head THEN l ELSE insert_front(remove_from_list(l, win), win)

\* The windows from head along next, up to NULL; one more than there are would
\* be a walk in circles.
Walk(l) ==
    LET w[k \in 1 .. MaxWindows + 1] ==
          IF k = 1 THEN l.head ELSE IF w[k - 1] = NoWin THEN NoWin ELSE l.next[w[k - 1]]
    IN  w
InOrder(l) ==
    SubSeq(Walk(l), 1, CHOOSE n \in 0 .. MaxWindows + 1 :
                         /\ n = MaxWindows + 1 \/ Walk(l)[n + 1] = NoWin
                         /\ \A k \in 1 .. n : Walk(l)[k] # NoWin)

activate_only(ws, win) == [k \in DOMAIN ws |-> [ws[k] EXCEPT !.active = (k = win)]]

visible(win) == win.state = "NORMAL"

contains_point(g, p) == p[1] \in g.x .. g.x + g.w - 1 /\ p[2] \in g.y .. g.y + g.h - 1

-----------------------------------------------------------------------------
(* The apps.                                                               *)

\* gui_create_window: the new window is active and in front.
Created_(ws, l, app, x, y) ==
    LET id == Len(ws) + 1
    IN  [wins |-> activate_only(Append(ws, [app |-> app, x |-> x, y |-> y,
                     w |-> Created[app][1], h |-> Created[app][2],
                     state |-> "NORMAL", active |-> TRUE]), id),
         list |-> insert_front(l, id)]

\* terminal_gui_open, explorer_open, notepad_open on the windows ws and list l:
\* an app with a static pointer returns it when it is set; kmalloc may fail.
app_open(app, ws, l) ==
    \/ /\ app \in open
       /\ wins' = ws /\ list' = l /\ UNCHANGED open
    \/ /\ app \notin open
       /\ Len(ws) < MaxWindows
       /\ LET c == Created_(ws, l, app, 1, 1)
          IN  wins' = c.wins /\ list' = c.list
       /\ open' = IF app \in Single THEN open \cup {app} ELSE open
    \/ /\ app \notin open
       /\ wins' = ws /\ list' = l /\ UNCHANGED open

Nothing == UNCHANGED <<wins, list, open>>

\* wm_open_default_apps: the Terminal, then the Explorer, cascaded from the
\* front.
NoList == [head |-> NoWin, tail |-> NoWin, next |-> [k \in WinId |-> NoWin],
           prev |-> [k \in WinId |-> NoWin]]
Booted == LET one == Created_(<<>>, NoList, "Terminal", 1 + CASCADE_STEP, 1 + CASCADE_STEP)
          IN  Created_(one.wins, one.list, "Explorer", 1, 1)

Init ==
    /\ wins = Booted.wins /\ list = Booted.list /\ open = {"Terminal"}
    /\ menu = FALSE /\ icon = FALSE /\ drag = NoDrag /\ saved = Unset
    /\ buttons = {} /\ ptr = <<0, 0>>
    /\ owner = NoWin /\ before = [k \in WinId |-> Unset]
    /\ events = 0

-----------------------------------------------------------------------------
(* Presses.  A press with the left button held is a left press, whichever  *)
(* button went down.                                                       *)

Event ==
    /\ events < MaxEvents
    /\ events' = events + 1

Pressed(b, p) ==
    /\ Event
    /\ b \notin buttons
    /\ drag.mode # "NONE" => p = ptr
    /\ buttons' = buttons \cup {b}
    /\ ptr' = p

IsLeft(b) == b = "LEFT" \/ "LEFT" \in buttons

\* With the menu open every press goes to start_menu_handle_event: outside it
\* closes, on an item it closes and opens the app, on the padding nothing.
press_in_menu(b, p) ==
    /\ menu
    /\ Pressed(b, p)
    /\ \/ IsLeft(b) /\ menu' = FALSE /\ (Nothing \/ \E app \in Apps : app_open(app, wins, list))
       \/ UNCHANGED menu /\ Nothing
    /\ UNCHANGED <<icon, drag, saved, owner, before>>

\* A press of another button alone goes nowhere.
press_ignored(b, p) ==
    /\ ~menu /\ ~IsLeft(b)
    /\ Pressed(b, p)
    /\ Nothing
    /\ UNCHANGED <<menu, icon, drag, saved, owner, before>>

LeftPress(b, p) == ~menu /\ IsLeft(b) /\ Pressed(b, p)

from_taskbar(win) == [win EXCEPT !.state = IF @ = "MINIMIZED" THEN "NORMAL" ELSE @]

\* taskbar_handle_mouse_down: the orb, the button of a window that is not
\* hidden, or the rest of the bar.
press_taskbar(b, p) ==
    /\ LeftPress(b, p)
    /\ p[2] >= Bottom
    /\ \/ menu' = TRUE /\ UNCHANGED <<wins, list>>
       \/ /\ \E k \in DOMAIN wins :
                /\ wins[k].state # "HIDDEN"
                /\ wins' = activate_only([wins EXCEPT ![k] = from_taskbar(@)], k)
                /\ list' = bring_to_front(list, k)
          /\ UNCHANGED menu
       \/ UNCHANGED <<wins, list, menu>>
    /\ UNCHANGED <<open, icon, drag, saved, owner, before>>

\* A press hits the first window in the list that is visible at p.
At(k, p) == visible(wins[k]) /\ contains_point(wins[k], p)
Hits(hit, p) ==
    LET s == InOrder(list)
    IN  \E k \in DOMAIN s : s[k] = hit /\ At(hit, p) /\ \A j \in 1 .. k - 1 : ~At(s[j], p)

\* The part of window g a press in it is for.
btn(g, k) == [x |-> g.x + g.w - (k + 1) * BTN_W, y |-> g.y, w |-> BTN_W, h |-> TITLE_BAR_H]
grip(g)  == [x |-> g.x + g.w - BORDER_W, y |-> g.y + g.h - BORDER_W,
             w |-> BORDER_W, h |-> BORDER_W]
title(g) == [x |-> g.x, y |-> g.y, w |-> g.w, h |-> TITLE_BAR_H]
part_at(g, p) ==
    IF contains_point(btn(g, 0), p) THEN "close"
    ELSE IF contains_point(btn(g, 1), p) THEN "maximise"
    ELSE IF contains_point(btn(g, 2), p) THEN "minimise"
    ELSE IF contains_point(grip(g), p) THEN "grip"
    ELSE IF contains_point(title(g), p) THEN "title" ELSE "body"

\* A press in a window activates it and brings it to the front first.
Raised(hit) == activate_only(wins, hit)
InFront(hit) == list' = bring_to_front(list, hit)

PressPart(b, p, part, hit) ==
    /\ LeftPress(b, p)
    /\ p[2] < Bottom
    /\ Hits(hit, p)
    /\ part_at(wins[hit], p) = part
    /\ UNCHANGED <<menu, icon>>

press_close(b, p, hit) ==
    /\ PressPart(b, p, "close", hit)
    /\ wins' = [Raised(hit) EXCEPT ![hit].state = "HIDDEN"]
    /\ InFront(hit)
    /\ UNCHANGED <<open, drag, saved, owner, before>>

\* The window saved is the one maximised last; a window that fills the screen
\* is given what saved holds, be it its own or not.
size_only_bug(hit) == [Geometry(wins[hit]) EXCEPT !.x = 0, !.y = 0]
geometry_saved(hit) == Geometry(wins[hit])

press_maximise(b, p, hit) ==
    /\ PressPart(b, p, "maximise", hit)
    /\ \/ /\ Geometry(wins[hit]) = Full
          /\ wins' = [Raised(hit) EXCEPT ![hit] = Placed(@, saved)]
          /\ UNCHANGED <<saved, owner, before>>
       \/ /\ Geometry(wins[hit]) # Full
          /\ saved' = geometry_saved(hit)
          /\ wins' = [Raised(hit) EXCEPT ![hit] = Placed(@, Full)]
          /\ owner' = hit /\ before' = [before EXCEPT ![hit] = Geometry(wins[hit])]
    /\ InFront(hit)
    /\ UNCHANGED <<open, drag>>

minimised(win) == [win EXCEPT !.state = "MINIMIZED", !.active = FALSE]

press_minimise(b, p, hit) ==
    /\ PressPart(b, p, "minimise", hit)
    /\ wins' = [Raised(hit) EXCEPT ![hit] = minimised(@)]
    /\ InFront(hit)
    /\ UNCHANGED <<open, drag, saved, owner, before>>

press_frame(b, p, hit) ==
    /\ \E part \in {"grip", "title"} :
          /\ PressPart(b, p, part, hit)
          /\ drag' = [mode |-> IF part = "grip" THEN "RESIZE" ELSE "MOVE", win |-> hit,
                      at |-> p, from |-> Geometry(wins[hit])]
    /\ wins' = Raised(hit)
    /\ InFront(hit)
    /\ UNCHANGED <<open, saved, owner, before>>

\* A press in the body goes to the app; a double click on a file in the
\* Explorer opens it in a new Notepad.
press_body(b, p, hit) ==
    /\ PressPart(b, p, "body", hit)
    /\ \/ wins' = Raised(hit) /\ InFront(hit) /\ UNCHANGED open
       \/ /\ wins[hit].app = "Explorer"
          /\ app_open("Notepad", Raised(hit), bring_to_front(list, hit))
    /\ UNCHANGED <<drag, saved, owner, before>>

\* desktop_handle_mouse_down: the second click on an icon in time opens it.
press_desktop(b, p) ==
    /\ LeftPress(b, p)
    /\ p[2] < Bottom /\ ~\E k \in DOMAIN wins : Hits(k, p)
    /\ \/ icon' = TRUE /\ Nothing
       \/ icon /\ UNCHANGED icon /\ \E app \in Apps : app_open(app, wins, list)
       \/ icon' = FALSE /\ Nothing
    /\ UNCHANGED <<menu, drag, saved, owner, before>>

-----------------------------------------------------------------------------
(* Moves and releases.                                                     *)

clamp_y(y) == IF y < 0 THEN 0 ELSE IF y >= Bottom THEN Bottom - 1 ELSE y

Dragged(g, p) ==
    LET dx == p[1] - drag.at[1]
        dy == p[2] - drag.at[2]
    IN  IF drag.mode = "MOVE"
        THEN [g EXCEPT !.x = drag.from.x + dx, !.y = clamp_y(drag.from.y + dy)]
        ELSE [g EXCEPT !.w = Max({MIN_W, drag.from.w + dx}),
                       !.h = Max({MIN_H, drag.from.h + dy})]

move(p) ==
    /\ ~menu /\ drag.mode # "NONE"
    /\ Event
    /\ p # ptr
    /\ ptr' = p
    /\ wins' = [wins EXCEPT ![drag.win] = Dragged(@, p)]
    /\ UNCHANGED <<list, open, menu, icon, drag, saved, buttons, owner, before>>

drag_ended(d) == NoDrag

\* Any release ends a drag, unless the open menu takes it.
release(b) ==
    /\ b \in buttons
    /\ Event
    /\ buttons' = buttons \ {b}
    /\ drag' = IF menu THEN drag ELSE drag_ended(drag)
    /\ UNCHANGED <<wins, list, open, menu, icon, saved, ptr, owner, before>>

press_window(b, p) ==
    \E hit \in DOMAIN wins :
        \/ press_close(b, p, hit) \/ press_maximise(b, p, hit)
        \/ press_minimise(b, p, hit) \/ press_frame(b, p, hit) \/ press_body(b, p, hit)

Next ==
    \/ \E b \in {"LEFT", "RIGHT"}, p \in Points :
          \/ press_in_menu(b, p) \/ press_ignored(b, p) \/ press_taskbar(b, p)
          \/ press_window(b, p) \/ press_desktop(b, p)
    \/ \E p \in Points : move(p)
    \/ \E b \in {"LEFT", "RIGHT"} : release(b)

Spec == Init /\ [][Next]_vars

-----------------------------------------------------------------------------
(* Properties.                                                             *)

Window == [app : Apps, x : Int, y : Int, w : Int, h : Int,
           state : {"NORMAL", "MINIMIZED", "HIDDEN"}, active : BOOLEAN]

\* Types; a drag has a window exactly while there is one.
TypeOK ==
    /\ wins \in Seq(Window) /\ Len(wins) <= MaxWindows
    /\ {list.head, list.tail} \subseteq 0 .. MaxWindows
    /\ open \subseteq Single /\ {menu, icon} \subseteq BOOLEAN
    /\ drag.mode \in {"NONE", "MOVE", "RESIZE"}
    /\ drag.win \in 0 .. Len(wins) /\ (drag.mode = "NONE") = (drag.win = NoWin)
    /\ buttons \subseteq {"LEFT", "RIGHT"}

\* The window list is sound after any mix of creating and raising: along next
\* from the head every window comes once, prev leads back, and tail is last.
ListSound ==
    LET s == InOrder(list)
    IN  /\ Len(s) = Len(wins) /\ Range(s) = DOMAIN wins
        /\ list.tail = Last(s) /\ list.prev[Head(s)] = NoWin
        /\ \A k \in 1 .. Len(s) - 1 : list.prev[s[k + 1]] = s[k]

\* Keys have one place to go: at most one window is active, it is the front
\* one, which is the only one wm_handle_event looks at, and it is not
\* minimised.
ActiveIsFront ==
    \A k \in DOMAIN wins :
        wins[k].active => list.head = k /\ wins[k].state # "MINIMIZED"

\* Maximise undoes itself: a window that leaves the full size by its maximise
\* button takes the place it had, unless another window was maximised since,
\* whose geometry overwrote the one static copy, or none ever was.
RestoreGivesBack ==
    [][\A k \in DOMAIN wins :
          Geometry(wins[k]) = Full /\ Geometry(wins'[k]) # Full /\ drag.win # k
              => owner # k \/ Geometry(wins'[k]) = before[k]]_vars

Grabbable(g) == g.y \in 0 .. Bottom - 1 /\ g.x < Width /\ g.x + g.w > 0

\* No window gets out of reach: whatever is dragged, resized or maximised, a
\* part of the title bar of every window stays on the screen, above the
\* taskbar, unless a window was restored to a geometry never saved.
TitleWithinReach ==
    \A k \in DOMAIN wins : Grabbable(wins[k]) \/ Geometry(wins[k]) = Unset

=============================================================================
