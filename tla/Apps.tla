-------------------------------- MODULE Apps --------------------------------
(***************************************************************************)
(* What keys and clicks do inside the apps of kernel/apps (the Terminal,   *)
(* the Notepad and the AI Chat of the build, the Explorer), and the text   *)
(* screen of vga.c beside the Terminal's character grid, which is to       *)
(* mirror it.  A behaviour drives one app.  Colours are left out; a key is *)
(* its scan code and its ASCII code, 0 for none.                           *)
(***************************************************************************)
EXTENDS Integers, Sequences, FiniteSets, SequencesExt

CONSTANTS Keys,               \* records with fields code and ascii
          Chars,              \* characters the write adapters are given
          Prompt,             \* "AIOS> "
          ROWS, COLS,         \* of the grid and of the text screen
          TGUI_TAB, VGA_TAB,  \* tab stops
          NP_TEXT_CAP,        \* bytes of a Notepad's text
          INPUT_SIZE, LOG_SIZE, You, Reply,  \* the chat's buffers and texts
          Files,              \* the files the Explorer looks for
          VisibleRows,        \* rows a click can hit
          MaxInputs           \* bound

NL == 10
CR == 13
BS == 8
TAB == 9
SPACE == 32
NUL == 0

VARIABLES
    app,      \* the app that has the keys
    tg,       \* g_tgui: cells, cur_row, cur_col
    vga,      \* vga_buf, row, col
    text,     \* the Notepad's gbuf.buf and gap_start
    chat,     \* the chat's input_buf up to input_len, its log and log_len
    exp,      \* the Explorer's entries, selected, scroll and the files opened
    out,      \* history: the characters sent to the text screen
    plain,    \* history: only letters and line ends so far, no line full
    scrolled, \* history: one of the screens has scrolled
    inputs

vars == <<app, tg, vga, text, chat, exp, out, plain, scrolled, inputs>>

BlankRow == [c \in 0 .. COLS - 1 |-> SPACE]
Blank    == [cells |-> [r \in 0 .. ROWS - 1 |-> BlankRow], row |-> 0, col |-> 0]

-----------------------------------------------------------------------------
(* The text screen.                                                        *)

off_by_one_bug(cells) ==
    [r \in 0 .. ROWS - 1 |-> IF r = ROWS - 1 THEN cells[r] ELSE cells[r + 1]]
shifted(cells) ==
    [r \in 0 .. ROWS - 1 |-> IF r = ROWS - 1 THEN BlankRow ELSE cells[r + 1]]

\* scroll in vga.c leaves the row at the last one.
vga_newline(s) ==
    IF s.row + 1 >= ROWS THEN [cells |-> shifted(s.cells), row |-> ROWS - 1, col |-> 0]
                         ELSE [s EXCEPT !.row = @ + 1, !.col = 0]

tab_stop(col, w) == (col \div w + 1) * w

\* The column a step ends at, on the next row when it is past the last.
vga_at(s, col) == IF col >= COLS THEN vga_newline(s) ELSE [s EXCEPT !.col = col]

vga_back(s) ==
    IF s.col > 0 THEN [s EXCEPT !.col = @ - 1]
    ELSE IF s.row > 0 THEN [s EXCEPT !.row = @ - 1, !.col = COLS - 1] ELSE s

put(s, c) == [s EXCEPT !.cells[s.row][s.col] = c]

vga_putchar(s, c) ==
    CASE c = NL  -> vga_newline(s)
      [] c = CR  -> [s EXCEPT !.col = 0]
      [] c = TAB -> vga_at(s, tab_stop(s.col, VGA_TAB))
      [] c = BS  -> put(vga_back(s), SPACE)
      [] OTHER   -> vga_at(put(s, c), s.col + 1)

-----------------------------------------------------------------------------
(* The Terminal's grid: tgui_put_char_raw.                                 *)

\* tgui_scroll_up takes the cursor up with the text.
tgui_scroll_up(s) == [cells |-> shifted(s.cells), row |-> IF s.row > 0 THEN s.row - 1 ELSE 0,
                      col |-> s.col]

tgui_newline(s) ==
    IF s.row + 1 >= ROWS THEN [tgui_scroll_up(s) EXCEPT !.col = 0]
                         ELSE [s EXCEPT !.row = @ + 1, !.col = 0]

put_char_raw(s, c) ==
    CASE c = NL  -> tgui_newline(s)
      [] c = CR  -> [s EXCEPT !.col = 0]
      [] c = TAB -> IF tab_stop(s.col, TGUI_TAB) >= COLS THEN tgui_newline(s)
                    ELSE [s EXCEPT !.col = tab_stop(s.col, TGUI_TAB)]
      [] c = BS  -> LET b == [s EXCEPT !.col = IF @ > 0 THEN @ - 1 ELSE 0] IN put(b, SPACE)
      [] OTHER   -> LET w == IF s.col >= COLS THEN tgui_newline(s) ELSE s
                    IN  [put(w, c) EXCEPT !.col = @ + 1]

tgui_write(s, cs) == FoldLeft(put_char_raw, s, cs)
vga_puts(s, cs)   == FoldLeft(vga_putchar, s, cs)

Init ==
    /\ app \in {"terminal", "notepad", "chat", "explorer"}
    /\ tg = tgui_write(Blank, Prompt) /\ vga = vga_puts(Blank, Prompt)
    /\ text = [buf |-> [i \in 0 .. NP_TEXT_CAP - 1 |-> NUL], gap_start |-> 0]
    /\ chat = [input |-> <<>>, log |-> <<>>, log_len |-> 0]
    /\ \E there \in IF app = "explorer" THEN SUBSET Files ELSE {{}} :
          exp = [entries |-> IF there = {} THEN <<"(empty)">> ELSE SetToSeq(there),
                 selected |-> 0, scroll |-> 0, opened |-> {}]
    /\ out = Prompt /\ plain = TRUE /\ scrolled = FALSE /\ inputs = 0

Input(a) == app = a /\ inputs < MaxInputs /\ inputs' = inputs + 1 /\ UNCHANGED app

-----------------------------------------------------------------------------
(* Keys.  gui_kbd_callback hands on the scan code of a key without ASCII.  *)

keycode(k) == IF k.ascii # 0 THEN k.ascii ELSE k.code

printable(c) == c \in 32 .. 126

\* What a key makes the Terminal write.
echo(c) == CASE c \in {NL, CR} -> <<NL>> \o Prompt
             [] c = BS \/ printable(c) -> <<c>>
             [] OTHER -> <<>>

Written(cs) ==
    /\ tg' = tgui_write(tg, cs)
    /\ vga' = vga_puts(vga, cs)
    /\ out' = out \o cs
    /\ plain' = (plain /\ tg'.col < COLS /\ \A c \in Range(cs) : printable(c) \/ c = NL)
    /\ scrolled' = (scrolled \/ (NL \in Range(cs) /\ ROWS - 1 \in {tg.row, vga.row}))

tgui_handle_event(k) ==
    /\ Input("terminal")
    /\ Written(echo(keycode(k)))
    /\ UNCHANGED <<text, chat, exp>>

\* terminal_gui_write_char beside its counterpart of the text screen.
write_char(c) ==
    /\ Input("terminal")
    /\ Written(<<c>>)
    /\ UNCHANGED <<text, chat, exp>>

\* terminal_gui_clear_screen and vga_clear.
clear_screen ==
    /\ Input("terminal")
    /\ tg' = Blank /\ vga' = Blank
    /\ out' = <<>> /\ plain' = TRUE /\ scrolled' = FALSE
    /\ UNCHANGED <<text, chat, exp>>

\* terminal_gui_clear_line_to_end, terminal_gui_clear_line.
clear_line(from) ==
    /\ Input("terminal")
    /\ tg' = [tg EXCEPT !.cells[tg.row] = [c \in DOMAIN @ |-> IF c >= from THEN SPACE ELSE @[c]],
                        !.col = IF from = 0 THEN 0 ELSE @]
    /\ plain' = FALSE
    /\ UNCHANGED <<vga, out, scrolled, text, chat, exp>>

\* terminal_gui_move_cursor.
move_cursor(col, row) ==
    /\ Input("terminal")
    /\ tg' = [tg EXCEPT !.col = IF col >= COLS THEN COLS - 1 ELSE col,
                        !.row = IF row >= ROWS THEN ROWS - 1 ELSE row]
    /\ plain' = FALSE
    /\ UNCHANGED <<vga, out, scrolled, text, chat, exp>>

np_room(t) == t.gap_start + 1 < NP_TEXT_CAP

np_insert_char(t, c) ==
    IF np_room(t)
    THEN [buf |-> [t.buf EXCEPT ![t.gap_start] = c, ![t.gap_start + 1] = NUL],
          gap_start |-> t.gap_start + 1]
    ELSE t
np_backspace(t) ==
    IF t.gap_start = 0 THEN t
    ELSE [buf |-> [t.buf EXCEPT ![t.gap_start - 1] = NUL], gap_start |-> t.gap_start - 1]

IsBackspace(c) == c \in {BS, 14}
IsEnter(c)     == c \in {NL, CR, 28}

notepad_event_cb(k) ==
    LET c == keycode(k)
    IN  /\ Input("notepad")
        /\ text' = CASE IsBackspace(c) -> np_backspace(text)
                     [] IsEnter(c)     -> np_insert_char(text, NL)
                     [] printable(c)   -> np_insert_char(text, c)
                     [] OTHER          -> text
        /\ UNCHANGED <<tg, vga, chat, exp, out, plain, scrolled>>

\* A text that does not fit the log is left out as a whole.
log_is_full(ch, need) == ch.log_len + need >= LOG_SIZE
log_append(ch, line) ==
    IF log_is_full(ch, Len(line) + 1) THEN ch
    ELSE [ch EXCEPT !.log = @ \o line \o <<NL>>, !.log_len = @ + Len(line) + 1]

ai_chat_handle_event(k) ==
    LET c == keycode(k)
    IN  /\ Input("chat")
        /\ chat' = CASE IsBackspace(c) /\ chat.input # <<>> -> [chat EXCEPT !.input = Front(@)]
                     [] IsEnter(c) /\ chat.input # <<>> ->
                          [log_append(log_append(chat, You \o chat.input), Reply)
                               EXCEPT !.input = <<>>]
                     [] printable(c) /\ Len(chat.input) + 1 < INPUT_SIZE ->
                          [chat EXCEPT !.input = Append(@, c)]
                     [] OTHER -> chat
        /\ UNCHANGED <<tg, vga, text, exp, out, plain, scrolled>>

\* explorer_enter on a file; the list never holds a directory, as every
\* Explorer is opened at the root, where explorer_go_up does nothing.
explorer_enter(e) == [e EXCEPT !.opened = @ \cup {e.entries[e.selected + 1]}]

has_next(e) == e.selected + 1 < Len(e.entries)

explorer_key(k) ==
    LET c == keycode(k)
    IN  /\ Input("explorer")
        /\ exp' = CASE c = 72 /\ exp.selected > 0 ->
                         [exp EXCEPT !.selected = @ - 1,
                                     !.scroll = IF exp.selected - 1 < @ THEN exp.selected - 1 ELSE @]
                    [] c = 80 /\ has_next(exp) -> [exp EXCEPT !.selected = @ + 1]
                    [] c = 28 -> explorer_enter(exp)
                    [] OTHER -> exp
        /\ UNCHANGED <<tg, vga, text, chat, out, plain, scrolled>>

explorer_click(row, double) ==
    LET idx == exp.scroll + row
    IN  /\ Input("explorer")
        /\ exp' = IF idx >= Len(exp.entries) THEN exp
                  ELSE IF exp.selected = idx /\ double THEN explorer_enter(exp)
                  ELSE [exp EXCEPT !.selected = idx]
        /\ UNCHANGED <<tg, vga, text, chat, out, plain, scrolled>>

Next ==
    \/ \E k \in Keys : \/ tgui_handle_event(k) \/ notepad_event_cb(k)
                       \/ ai_chat_handle_event(k) \/ explorer_key(k)
    \/ \E c \in Chars : write_char(c)
    \/ clear_screen \/ clear_line(0) \/ clear_line(tg.col)
    \/ \E p \in {<<0, 0>>, <<COLS, ROWS>>} : move_cursor(p[1], p[2])
    \/ \E row \in 0 .. VisibleRows - 1, double \in BOOLEAN : explorer_click(row, double)

Spec == Init /\ [][Next]_vars

-----------------------------------------------------------------------------
(* Properties.                                                             *)

Screen == [cells : [0 .. ROWS - 1 -> [0 .. COLS - 1 -> Nat]],
           row : 0 .. ROWS - 1, col : 0 .. COLS]

\* Every access stays inside its array: the cursors on their screens (the
\* Terminal's may stand just past a row), the selection in the list, the log
\* and the input line in their buffers.
TypeOK ==
    /\ {tg, vga} \subseteq Screen /\ vga.col < COLS
    /\ DOMAIN text.buf = 0 .. NP_TEXT_CAP - 1
    /\ exp.selected \in 0 .. Len(exp.entries) - 1 /\ exp.scroll \in 0 .. exp.selected
    /\ Len(chat.input) < INPUT_SIZE
    /\ chat.log_len = Len(chat.log) /\ chat.log_len < LOG_SIZE

\* The text screen shows the last rows of what was written: of a page as long
\* as the text needs, with the same rules and no scrolling.
PageDown(p) ==
    [rows |-> IF p.row = Len(p.rows) - 1 THEN Append(p.rows, BlankRow) ELSE p.rows,
     row |-> p.row + 1, col |-> 0]
PageAt(p, col) == IF col >= COLS THEN PageDown(p) ELSE [p EXCEPT !.col = col]
PageBack(p) ==
    IF p.col > 0 THEN [p EXCEPT !.col = @ - 1]
    ELSE IF p.row > Len(p.rows) - ROWS THEN [p EXCEPT !.row = @ - 1, !.col = COLS - 1] ELSE p
PagePut(p, c) == [p EXCEPT !.rows[p.row + 1][p.col] = c]
PageStep(p, c) ==
    CASE c = NL  -> PageDown(p)
      [] c = CR  -> [p EXCEPT !.col = 0]
      [] c = TAB -> PageAt(p, tab_stop(p.col, VGA_TAB))
      [] c = BS  -> PagePut(PageBack(p), SPACE)
      [] OTHER   -> PageAt(PagePut(p, c), p.col + 1)

ShowsTail ==
    LET page == FoldLeft(PageStep, [rows |-> [i \in 1 .. ROWS |-> BlankRow], row |-> 0, col |-> 0], out)
        top  == Len(page.rows) - ROWS
    IN  /\ vga.row = page.row - top /\ vga.col = page.col
        /\ \A r \in 0 .. ROWS - 1 : vga.cells[r] = page.rows[top + r + 1]

Mirrors == tg = vga

\* Until one of them scrolls, the Terminal's grid and the text screen show the
\* same for text of lines that end before the last column.
MirrorsUntilScroll == plain /\ ~scrolled => Mirrors

\* The Notepad's text is a C string inside its buffer, of all that was typed
\* and not erased: no NUL in it, one behind it.
TextTerminated ==
    /\ text.gap_start < NP_TEXT_CAP /\ text.buf[text.gap_start] = NUL
    /\ \A i \in 0 .. text.gap_start - 1 : text.buf[i] # NUL

\* terminal_gui.h: each adapter "should mirror the behaviour of its text-mode
\* counterpart": for such text the grid shows what the text screen shows.
MirrorsText == plain => Mirrors
=============================================================================
