----------------------------- MODULE Framebuffer -----------------------------
(***************************************************************************)
(* Drawing into the linear frame buffer (kernel/gfx/framebuffer.c) and the *)
(* placing of text in it (kernel/gfx/font.c).                              *)
(*                                                                         *)
(* Coordinates are unsigned 32-bit in the code and wrap; here they wrap at *)
(* UMod.  A colour says nothing about where a pixel goes, so a call is     *)
(* modelled by the set of memory cells it writes: cell y * stride + x is   *)
(* pixel x of line y when x is less than the width, and padding otherwise. *)
(* The calls are made one at a time, by the window manager's thread.       *)
(***************************************************************************)
EXTENDS Integers, Sequences

CONSTANTS
  UMod,            \* where unsigned numbers wrap
  FontWidth, FontHeight,
  TmpSize          \* sizeof(tmp) in font_draw_string_centered (64)

VARIABLES
  tags,            \* the boot loader's tags, chosen with the instance
  g_fb,            \* the frame buffer, none when its width is 0
  drew, wrote      \* the last call, and the cells it wrote

fvars == << tags, g_fb, drew, wrote >>

U(n) == n % UMod

NoFrame == [width |-> 0, height |-> 0, stride |-> 0, bpp |-> 0]
NoCall  == [op |-> "none", x |-> 0, y |-> 0, w |-> 0, h |-> 0, r |-> 0, s |-> << >>]

-----------------------------------------------------------------------------
(* The first frame buffer tag before the end tag. *)
framebuffer_tag ==
  LET stop == {i \in 1 .. Len(tags) : tags[i].type \in {"end", "framebuffer"}}
  IN  IF stop = {} THEN [type |-> "end"]
      ELSE tags[CHOOSE i \in stop : \A j \in stop : i <= j]

Drawable == g_fb.width # 0 /\ g_fb.bpp = 32
Cell(x, y) == y * g_fb.stride + x

fb_put_pixel(x, y) ==
  IF Drawable /\ x < g_fb.width /\ y < g_fb.height THEN {Cell(x, y)} ELSE {}

(* A rectangle is cut at the right and the lower edge; one that starts     *)
(* outside is not drawn at all.  The sum of the test wraps.                *)
clipped(at, n, limit) == IF U(at + n) > limit THEN limit - at ELSE n

fb_fill_rect(x, y, w, h) ==
  IF Drawable /\ x < g_fb.width /\ y < g_fb.height
    THEN { Cell(x + xx, y + yy) : xx \in 0 .. clipped(x, w, g_fb.width) - 1,
                                  yy \in 0 .. clipped(y, h, g_fb.height) - 1 }
    ELSE {}

fb_clear == { Cell(x, y) : x \in 0 .. g_fb.width - 1, y \in 0 .. g_fb.height - 1 }

fb_draw_rect(x, y, w, h) ==
  IF w = 0 \/ h = 0 THEN {} ELSE
  UNION { fb_fill_rect(x, y, w, 1),
          IF h > 1 THEN fb_fill_rect(x, U(y + h - 1), w, 1) ELSE {},
          IF h > 2 THEN fb_fill_rect(x, U(y + 1), 1, h - 2) ELSE {},
          IF h > 2 /\ w > 1 THEN fb_fill_rect(U(x + w - 1), U(y + 1), 1, h - 2) ELSE {} }

(* The octant of the circle of radius r that the midpoint loop walks: the  *)
(* pairs << px, py >> with px >= py.                                       *)
octant(r) ==
  LET step[py \in 0 .. r] ==
        IF py = 0 THEN [px |-> r, err |-> 1 - r]
        ELSE LET last == step[py - 1] IN
             IF last.err < 0 THEN [px |-> last.px, err |-> last.err + 2 * py + 1]
             ELSE [px |-> last.px - 1, err |-> last.err + 2 * (py - (last.px - 1)) + 1]
  IN  { << step[py].px, py >> : py \in {k \in 0 .. r : step[k].px >= k} }

(* Both halves of the quarter: the octant and its mirror image. *)
quarter(r) == octant(r) \union { << p[2], p[1] >> : p \in octant(r) }

(* A line of a rounded rectangle, from x0 to x1. *)
hspan(x0, x1, y) ==
  LET a == IF x0 > x1 THEN x1 ELSE x0
      b == IF x0 > x1 THEN x0 ELSE x1
      e == IF b >= g_fb.width THEN g_fb.width - 1 ELSE b
  IN  IF y >= g_fb.height THEN {} ELSE fb_fill_rect(a, y, U(e - a + 1), 1)

Least(a, b) == IF a < b THEN a ELSE b
radius(w, h, r) == Least(r, Least(w \div 2, h \div 2))

fb_fill_rounded_rect(x, y, w, h, r0) ==
  LET r == radius(w, h, r0) IN
  CASE w = 0 \/ h = 0 -> {}
    [] w # 0 /\ h # 0 /\ r = 0 -> fb_fill_rect(x, y, w, h)
    [] OTHER ->
         UNION { fb_fill_rect(U(x + r), y, w - 2 * r, r),
                 fb_fill_rect(x, U(y + r), w, h - 2 * r),
                 fb_fill_rect(U(x + r), U(y + h - r), w - 2 * r, r) }
         \union UNION { UNION { hspan(U(x + r - p[1]), U(x + w - r - 1 + p[1]), yy) :
                                  yy \in {U(y + r - p[2]), U(y + h - r - 1 + p[2])} } :
                        p \in quarter(r) }

fb_draw_rounded_rect(x, y, w, h, r0) ==
  LET r == radius(w, h, r0) IN
  CASE w = 0 \/ h = 0 -> {}
    [] w # 0 /\ h # 0 /\ r = 0 -> fb_draw_rect(x, y, w, h)
    [] OTHER ->
         UNION { fb_fill_rect(U(x + r), y, w - 2 * r, 1),
                 fb_fill_rect(U(x + r), U(y + h - 1), w - 2 * r, 1),
                 fb_fill_rect(x, U(y + r), 1, h - 2 * r),
                 fb_fill_rect(U(x + w - 1), U(y + r), 1, h - 2 * r) }
         \union UNION { UNION { fb_put_pixel(xx, yy) :
                                  xx \in {U(x + r - p[1]), U(x + w - r - 1 + p[1])},
                                  yy \in {U(y + r - p[2]), U(y + h - r - 1 + p[2])} } :
                        p \in quarter(r) }

fb_fill_circle(x, y, r) ==
  UNION { fb_fill_rect(U(x - p[1]), U(y - p[2]), 2 * p[1] + 1, 1)
          \union fb_fill_rect(U(x - p[1]), U(y + p[2]), 2 * p[1] + 1, 1) : p \in quarter(r) }

fb_draw_circle(x, y, r) ==
  UNION { UNION { fb_put_pixel(xx, yy) : xx \in {U(x - p[1]), U(x + p[1])},
                                         yy \in {U(y - p[2]), U(y + p[2])} } :
          p \in quarter(r) }

-----------------------------------------------------------------------------
(* Text: what is before the first newline is drawn, a cell per character.  *)
(* A character's glyph lies within its cell, so it writes the cell.        *)
line_of(s) == LET nl == {i \in 1 .. Len(s) : s[i] = "\n"}
              IN  IF nl = {} THEN s
                  ELSE SubSeq(s, 1, (CHOOSE i \in nl : \A j \in nl : i <= j) - 1)
font_measure_string(s) == Len(line_of(s)) * FontWidth

font_draw_string(x, y, s) ==
  UNION { fb_fill_rect(U(x + (i - 1) * FontWidth), y, FontWidth, FontHeight) :
            i \in 1 .. Len(line_of(s)) }

(* The text as font_draw_string_centered keeps it: cut to the buffer, and, *)
(* if it is too wide for a region of at least three characters, to the     *)
(* region with its last three characters replaced by dots.                 *)
shown(s, w) ==
  LET tmp == SubSeq(s, 1, Least(Len(s), TmpSize - 1))
      max == w \div FontWidth
  IN  IF font_measure_string(tmp) > w /\ w >= FontWidth * 3 /\ max < TmpSize - 1
        THEN SubSeq(tmp, 1, max - 3) \o << ".", ".", "." >> ELSE tmp

font_draw_string_centered(x, y, w, s) ==
  LET t      == shown(s, w)
      text_w == font_measure_string(t)
  IN  font_draw_string(IF w > text_w THEN U(x + (w - text_w) \div 2) ELSE x, y, t)

-----------------------------------------------------------------------------
Init == g_fb = NoFrame /\ drew = NoCall /\ wrote = {}

fb_init_from_multiboot ==
  /\ g_fb = NoFrame /\ framebuffer_tag.type = "framebuffer"
  /\ g_fb' = framebuffer_tag.fb /\ UNCHANGED << tags, drew, wrote >>

cells(c) ==
  CASE c.op = "fb_clear" -> IF Drawable THEN fb_clear ELSE {}
    [] c.op = "fb_put_pixel" -> fb_put_pixel(c.x, c.y)
    [] c.op = "fb_fill_rect" -> fb_fill_rect(c.x, c.y, c.w, c.h)
    [] c.op = "fb_draw_rect" -> fb_draw_rect(c.x, c.y, c.w, c.h)
    [] c.op = "fb_fill_rounded_rect" -> fb_fill_rounded_rect(c.x, c.y, c.w, c.h, c.r)
    [] c.op = "fb_draw_rounded_rect" -> fb_draw_rounded_rect(c.x, c.y, c.w, c.h, c.r)
    [] c.op = "fb_fill_circle" -> fb_fill_circle(c.x, c.y, c.r)
    [] c.op = "fb_draw_circle" -> fb_draw_circle(c.x, c.y, c.r)
    [] c.op = "text" -> font_draw_string_centered(c.x, c.y, c.w, c.s)
    [] OTHER -> {}

draw(c) == /\ g_fb # NoFrame /\ drew = NoCall
           /\ drew' = c /\ wrote' = cells(c) /\ UNCHANGED << tags, g_fb >>

-----------------------------------------------------------------------------
(* For comparison: the pixels of a call's rectangle that are on screen. *)
Seen(S) == { Cell(p[1], p[2]) : p \in {q \in S : q[1] < g_fb.width /\ q[2] < g_fb.height} }
Rect(x, y, w, h) == (x .. x + w - 1) \X (y .. y + h - 1)
Border(x, y, w, h) == {p \in Rect(x, y, w, h) : p[1] \in {x, x + w - 1} \/ p[2] \in {y, y + h - 1}}

(* The ends of each line of a filled shape. *)
Ends(S) == {c \in S : c - 1 \notin S \/ c + 1 \notin S}

OnScreen(x, y, w, h) == 0 <= x /\ 0 <= y /\ x + w <= g_fb.width /\ y + h <= g_fb.height
NoWrap == drew.x + drew.w < UMod /\ drew.y + drew.h < UMod

(* Nothing is written outside the picture, into another line or into the   *)
(* padding; rectangles are what they should be, cut at the edges; a        *)
(* rounded one has its corners cut and nothing else, an outline lies on    *)
(* its filled shape and holds both ends of every line of it; and centred   *)
(* text stays in its region when that is wide enough for the dots.         *)
DrawnInPlace ==
  LET d == drew
      inner == Seen(Rect(d.x, d.y, d.w, d.h))
      r  == radius(d.w, d.h, d.r)
      on == IF d.op \in {"fb_draw_circle", "fb_fill_circle"}
              THEN OnScreen(d.x - d.r, d.y - d.r, 2 * d.r + 1, 2 * d.r + 1)
              ELSE OnScreen(d.x, d.y, d.w, d.h)
  IN  NoWrap /\ d # NoCall =>
        /\ wrote \subseteq fb_clear
        /\ d.op = "fb_clear" /\ Drawable => wrote = fb_clear
        /\ d.op = "fb_fill_rect" /\ Drawable => wrote = inner
        /\ d.op = "fb_draw_rect" /\ Drawable => wrote = Seen(Border(d.x, d.y, d.w, d.h))
        /\ d.op = "fb_fill_rounded_rect" /\ Drawable =>
             /\ wrote \subseteq inner
             /\ Seen(Rect(d.x + r, d.y, d.w - 2 * r, d.h)) \subseteq wrote
             /\ Seen(Rect(d.x, d.y + r, d.w, d.h - 2 * r)) \subseteq wrote
        /\ d.op = "fb_draw_rounded_rect" /\ Drawable /\ on =>
             LET full == fb_fill_rounded_rect(d.x, d.y, d.w, d.h, d.r)
             IN  wrote \subseteq full /\ Ends(full) \subseteq wrote
        /\ d.op = "fb_draw_circle" /\ Drawable /\ on =>
             LET full == fb_fill_circle(d.x, d.y, d.r)
             IN  wrote \subseteq full /\ Ends(full) \subseteq wrote
        /\ d.op = "text" /\ (d.w >= 3 * FontWidth \/ font_measure_string(d.s) <= d.w) =>
             wrote \subseteq Seen(Rect(d.x, d.y, d.w, FontHeight))
=============================================================================
