------------------------------ MODULE Terminal ------------------------------
(***************************************************************************)
(* The text-mode terminal and shell: kernel/shell/terminal.c and the loop  *)
(* of kernel/shell/shell.c.  terminal_feed runs in the keyboard interrupt  *)
(* and edits g_line; terminal_readline, in the shell's thread, resets the  *)
(* line, waits for Enter and copies it, without a lock, so a key may come  *)
(* between any two of its steps.  Once the GUI callback of the keyboard is *)
(* set no key reaches the terminal.                                        *)
(***************************************************************************)
EXTENDS Naturals, Sequences, SequencesExt, FiniteSetsExt

CONSTANTS Letters,         \* characters other than the blank and the quote
          LINE_MAX,        \* size of g_line
          SHELL_LINE_MAX,  \* size of the shell's buffer
          SHELL_ARGC_MAX,  \* arguments dispatch has room for
          MaxKeys          \* bound: keys pressed

Blank == " "
Quote == "'"
Chars == Letters \cup {Blank, Quote}
KeyIn == Chars \cup {"Enter", "Backspace"}

\* Each buffer has room for the NUL, which is no character.
TerminalAssumption ==
    /\ {LINE_MAX, SHELL_LINE_MAX} \subseteq Nat \ {0} /\ MaxKeys \in Nat
    /\ "NUL" \notin Letters

VARIABLES
    g_line, g_line_len, g_line_ready,
    cb,        \* terminal_feed is the keyboard's text callback
    gui,       \* the keyboard's GUI callback is set
    at,        \* where the shell's thread is
    n, i, buf, \* the locals of terminal_readline, and the shell's buffer
    started,   \* g_gui_started
    shown,     \* the characters echoed since the prompt was printed
    ghosts,    \* history: what was echoed before the line was reset
    entered,   \* history: the line when Enter was pressed
    edited,    \* history: a character was erased since
    pressed,   \* history: Enter was pressed while the shell waited for it
    keys       \* keys pressed so far

line    == <<g_line, g_line_len, g_line_ready>>
history == <<shown, ghosts, entered, edited, pressed>>
vars    == <<line, cb, gui, at, n, i, buf, started, history, keys>>

Line == [k \in 1 .. g_line_len |-> g_line[k]]

Init ==
    /\ g_line = [k \in 1 .. LINE_MAX |-> "NUL"]
    /\ g_line_len = 0 /\ g_line_ready = FALSE
    /\ cb = FALSE /\ gui = FALSE /\ at = "prompt"
    /\ n = 0 /\ i = 0 /\ buf = <<>> /\ started = FALSE
    /\ shown = <<>> /\ ghosts = <<>> /\ entered = <<>>
    /\ edited = FALSE /\ pressed = FALSE /\ keys = 0

-----------------------------------------------------------------------------
(* The keyboard interrupt.                                                 *)

is_enter(c) == c \in {"CR", "Enter"}

has_room(len) == len < LINE_MAX - 1

erases == g_line_len > 0

terminal_feed(c) ==
    /\ keys < MaxKeys
    /\ keys' = keys + 1
    /\ cb /\ ~gui
    /\ \/ /\ is_enter(c)
          /\ g_line' = [g_line EXCEPT ![g_line_len + 1] = "NUL"]
          /\ g_line_ready' = TRUE
          /\ entered' = IF g_line_ready THEN entered ELSE Line
          /\ edited' = (edited /\ g_line_ready)
          /\ UNCHANGED <<g_line_len, shown>>
       \/ /\ c = "Backspace" /\ erases
          /\ g_line_len' = g_line_len - 1
          /\ shown' = IF shown = <<>> THEN <<>> ELSE Front(shown)
          /\ edited' = TRUE
          /\ UNCHANGED <<g_line, g_line_ready, entered>>
       \/ /\ c \in Chars /\ has_room(g_line_len)
          /\ g_line' = [g_line EXCEPT ![g_line_len + 1] = c]
          /\ g_line_len' = g_line_len + 1
          /\ shown' = Append(shown, c)
          /\ UNCHANGED <<g_line_ready, entered, edited>>
       \/ /\ ~is_enter(c)
          /\ c = "Backspace" => ~erases
          /\ c \in Chars => ~has_room(g_line_len)
          /\ UNCHANGED <<line, shown, entered, edited>>
    /\ pressed' = (pressed \/ (c = "Enter" /\ at = "wait"))
    /\ UNCHANGED <<cb, gui, at, n, i, buf, started, ghosts>>

\* The boot task, once the framebuffer is up: gui_input_enable.
boot_gui ==
    /\ ~gui
    /\ gui' = TRUE /\ cb' = FALSE
    /\ UNCHANGED <<line, at, n, i, buf, started, history, keys>>

-----------------------------------------------------------------------------
(* The shell's thread.                                                     *)

Step(from, to) == at = from /\ at' = to

print_prompt ==
    /\ Step("prompt", "reset_len")
    /\ shown' = <<>>
    /\ UNCHANGED <<line, cb, gui, n, i, buf, started, ghosts, entered, edited,
                   pressed, keys>>

reset_len ==
    /\ Step("reset_len", "reset_ready")
    /\ g_line_len' = 0
    /\ ghosts' = shown
    /\ UNCHANGED <<g_line, g_line_ready, cb, gui, n, i, buf, started, shown,
                   entered, edited, pressed, keys>>

reset_ready ==
    /\ Step("reset_ready", "install")
    /\ g_line_ready' = FALSE
    /\ UNCHANGED <<g_line, g_line_len, cb, gui, n, i, buf, started, history, keys>>

install ==
    /\ Step("install", "wait")
    /\ cb' = TRUE
    /\ UNCHANGED <<line, gui, n, i, buf, started, history, keys>>

one_short_bug(len) == Min({len, SHELL_LINE_MAX - 2})
count(len) == Min({len, SHELL_LINE_MAX - 1})

\* The wait is over: the length is read once, for the whole copy.
wait_ended ==
    /\ g_line_ready
    /\ Step("wait", "copy")
    /\ n' = count(g_line_len)
    /\ i' = 0 /\ buf' = <<>>
    /\ UNCHANGED <<line, cb, gui, started, history, keys>>

copy_char ==
    /\ at = "copy" /\ i < n
    /\ buf' = Append(buf, g_line[i + 1])
    /\ i' = i + 1
    /\ UNCHANGED <<line, cb, gui, at, n, started, history, keys>>

\* The string ends at its first NUL, which Enter may have put inside it.
copy_ended ==
    /\ i = n
    /\ Step("copy", "run")
    /\ buf' = SubSeq(buf, 1, Min({k \in 0 .. n : k = n \/ buf[k + 1] = "NUL"}))
    /\ pressed' = FALSE
    /\ UNCHANGED <<line, cb, gui, n, i, started, shown, ghosts, entered, edited,
                   keys>>

-----------------------------------------------------------------------------
(* dispatch.                                                               *)

At(s, p) == IF p <= Len(s) THEN s[p] ELSE "NUL"
NextIn(s, p, stops) == Min({q \in p .. Len(s) + 1 : At(s, q) \in stops \cup {"NUL"}})
SkipBlanks(s, p) == Min({q \in p .. Len(s) + 1 : At(s, q) # Blank})

after_quote_bug(s, p) == NextIn(s, p, {Blank})
token_end(s, p) == IF At(s, p) = Quote THEN NextIn(s, p + 1, {Quote})
                                       ELSE NextIn(s, p, {Blank})

\* Where the arguments start and end: an argument is quoted, or runs to the
\* next blank; the character that ends it is overwritten with NUL.
shell_tokenize(s) ==
    LET tokens[p \in 1 .. Len(s) + 2, argc \in 0 .. SHELL_ARGC_MAX] ==
          LET b == SkipBlanks(s, p)
          IN  IF argc = SHELL_ARGC_MAX \/ p > Len(s) \/ b > Len(s) THEN <<>>
              ELSE LET e == token_end(s, b)
                   IN  <<[first |-> IF At(s, b) = Quote THEN b + 1 ELSE b,
                          last |-> e - 1]>> \o tokens[e + 1, argc + 1]
    IN  tokens[1, 0]

\* A command that returns: the shell prompts again.
run_command ==
    /\ Step("run", "prompt")
    /\ UNCHANGED <<line, cb, gui, n, i, buf, started, history, keys>>

\* cmd_startx hands the keyboard to the GUI and sleeps.
cmd_startx ==
    /\ shell_tokenize(buf) # <<>> /\ ~started
    /\ Step("run", "asleep")
    /\ started' = TRUE
    /\ gui' = TRUE /\ cb' = (cb /\ gui)  \* gui_input_enable
    /\ UNCHANGED <<line, n, i, buf, history, keys>>

\* sched_sleep ends after 2^31 - 1 ticks: the shell prompts again, unheard.
wake_up ==
    /\ Step("asleep", "prompt")
    /\ UNCHANGED <<line, cb, gui, n, i, buf, started, history, keys>>

terminal_readline ==
    reset_len \/ reset_ready \/ install \/ wait_ended \/ copy_char \/ copy_ended

shell_run ==
    print_prompt \/ terminal_readline \/ run_command \/ cmd_startx \/ wake_up

Next == boot_gui \/ shell_run \/ \E c \in KeyIn : terminal_feed(c)

\* The scheduler keeps giving the shell its turn.
Spec == Init /\ [][Next]_vars /\ WF_vars(shell_run)

-----------------------------------------------------------------------------
(* Properties.                                                             *)

\* Types; the line and the copy end inside their buffers.
TypeOK ==
    /\ g_line \in [1 .. LINE_MAX -> Chars \cup {"NUL"}]
    /\ g_line_len \in 0 .. LINE_MAX - 1 /\ {g_line_ready, cb, gui} \subseteq BOOLEAN
    /\ at \in {"prompt", "reset_len", "reset_ready", "install", "wait", "copy",
               "run", "asleep"}
    /\ n \in 0 .. SHELL_LINE_MAX - 1 /\ i \in 0 .. n /\ Len(buf) < SHELL_LINE_MAX
    /\ {started, edited, pressed} \subseteq BOOLEAN /\ keys \in 0 .. MaxKeys

\* The line that Enter ended is the line the shell runs: keys that come after
\* Enter, before terminal_readline copied the line, may add to it but lose
\* nothing of it, unless one of them is a backspace.
EnteredLineKept ==
    at = "run" /\ ~edited =>
        IsPrefix(SubSeq(entered, 1, Min({Len(entered), SHELL_LINE_MAX - 1})), buf)

\* The screen and the line agree: after the prompt stand the characters echoed
\* before terminal_readline reset the line, which are not part of it and which
\* no backspace removes, and then the line itself.
ScreenShowsLine == at \notin {"prompt", "reset_len"} => shown = ghosts \o Line

Inside(ts, p) == \E t \in Range(ts) : p \in t.first .. t.last

\* The arguments of dispatch are the words of the line: none holds a blank
\* unless it was quoted, none holds the quote that opened it, they do not
\* overlap, and outside of them stand only blanks and quotes, up to the last
\* one there was room for.
ArgumentsAreWords ==
    at = "run" =>
        LET ts == shell_tokenize(buf)
            quoted(t) == t.first > 1 /\ buf[t.first - 1] = Quote
                           /\ ~Inside(ts, t.first - 1)
        IN  /\ \A k \in 1 .. Len(ts) - 1 : ts[k].last < ts[k + 1].first
            /\ \A t \in Range(ts), p \in 1 .. Len(buf) :
                  p \in t.first .. t.last =>
                      IF quoted(t) THEN buf[p] # Quote ELSE buf[p] # Blank
            /\ \A p \in 1 .. Len(buf) :
                  Inside(ts, p) \/ buf[p] \in {Blank, Quote}
                      \/ (Len(ts) = SHELL_ARGC_MAX /\ p > Last(ts).last)

\* Enter is answered: pressed while terminal_readline waits, it brings the
\* shell to run a line.
EnterAnswered == pressed ~> (at = "run")
=============================================================================
