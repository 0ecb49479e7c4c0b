------------------------------- MODULE Screen -------------------------------
(****************************************************************************)
(* What ends up where on the screen: pixels and characters (vga.c), the     *)
(* terminal (tty.c), rectangles (gui.c), windows' bounds (windows.c), and   *)
(* the desktop's buttons and menu (OS.c).                                   *)
(****************************************************************************)
EXTENDS Integers, SequencesExt

CONSTANTS
  WIDTH, HEIGHT,   \* VGA_WIDTH, VGA_HEIGHT
  Wrap             \* 2^32: what a negative coordinate becomes

Pixels == (0..(WIDTH - 1)) \X (0..(HEIGHT - 1))

\* vga_put_pixel draws these of the pixels it is asked for.
Drawn(asked) == {<<p[1] % Wrap, p[2] % Wrap>> : p \in asked} \cap Pixels

\* vga_draw_string: where the characters of a string of length n go.
vga_draw_string(x, y, n) ==
  LET Next(p) == IF p[1] + 16 > WIDTH THEN <<0, p[2] + 8>> ELSE <<p[1] + 8, p[2]>>
      Step(s, i) ==
        IF s.full THEN s
        ELSE [at |-> Next(s.at), places |-> Append(s.places, s.at),
              full |-> Next(s.at)[2] + 8 > HEIGHT]
  IN  FoldLeft(Step, [at |-> <<x, y>>, places |-> <<>>, full |-> FALSE],
               [i \in 1..n |-> i]).places

Glyph(p) == (p[1]..(p[1] + 7)) \X (p[2]..(p[2] + 7))

-----------------------------------------------------------------------------
Blank == [column |-> 0, row |-> 0, cells |-> <<>>]

(* tty_putchar.  cells are the places of the characters drawn since the     *)
(* screen was cleared.                                                      *)
tty_putchar(t, c) ==
  LET moved ==
        IF c = "\n" THEN [t EXCEPT !.column = 0, !.row = @ + 1]
        ELSE LET cells == Append(t.cells, <<t.column, t.row>>)
             IN  IF t.column + 1 >= WIDTH \div 8
                 THEN [column |-> 0, row |-> t.row + 1, cells |-> cells]
                 ELSE [column |-> t.column + 1, row |-> t.row, cells |-> cells]
  IN  IF moved.row >= HEIGHT \div 8 THEN [moved EXCEPT !.row = 0, !.cells = <<>>] ELSE moved

tty_putstring(t, str) == FoldLeft(tty_putchar, t, str)

-----------------------------------------------------------------------------
\* A rectangle of gui.c is [x, y, w, h], one of windows.h [left, top, right, bottom].
os_gui_fill_rect(r) == (r.x..(r.x + r.w - 1)) \X (r.y..(r.y + r.h - 1))

os_gui_draw_rect_outline(r) ==
  ((r.x..(r.x + r.w - 1)) \X {r.y, r.y + r.h - 1})
    \cup ({r.x, r.x + r.w - 1} \X (r.y..(r.y + r.h - 1)))

os_gui_point_in_rect(x, y, r) ==
  x >= r.x /\ x < r.x + r.w /\ y >= r.y /\ y < r.y + r.h

\* rect_width and rect_height, where OS.c and draw_window make one of the other.
Rect(b) == [x |-> b.left, y |-> b.top, w |-> b.right - b.left, h |-> b.bottom - b.top]

MoveWindow(X, Y, w, h) == [left |-> X, top |-> Y, right |-> X + w, bottom |-> Y + h]

\* Without SWP_NOMOVE the corner moves; without SWP_NOSIZE the other one follows.
SetWindowPos(b, X, Y, cx, cy, flags) ==
  LET m == IF "NOMOVE" \in flags THEN b ELSE [b EXCEPT !.left = X, !.top = Y]
  IN  IF "NOSIZE" \in flags THEN m
      ELSE [m EXCEPT !.right = m.left + cx, !.bottom = m.top + cy]

ScreenToClient(b, p) == <<p[1] - b.left, p[2] - b.top>>
ClientToScreen(b, p) == <<p[1] + b.left, p[2] + b.top>>

-----------------------------------------------------------------------------
\* desktop_init
start_menu == [left |-> 4, top |-> HEIGHT - 108, right |-> 150, bottom |-> HEIGHT - 16]
start_button == [left |-> 4, top |-> HEIGHT - 14, right |-> 50, bottom |-> HEIGHT - 2]
active_window == LET left == (WIDTH \div 2) - 100
                 IN  [left |-> left, top |-> 26, right |-> left + 200, bottom |-> 26 + 110]
close_button == [left |-> active_window.right - 14, top |-> active_window.top + 2,
                 right |-> active_window.right - 4, bottom |-> active_window.top + 10]

\* os_gui_draw_taskbar
drawn_button == [x |-> 4, y |-> HEIGHT - 14, w |-> 46, h |-> 12]

\* choose_menu_option, and draw_start_menu: the top of each title in the menu.
Menu == <<"Console", "Task Manager", "Settings", "End Session", "Shut Down", "Restart">>
Length == <<7, 12, 8, 11, 9, 7>>
Chosen(row) == IF row < 24 THEN 1 ELSE IF row < 72 THEN row \div 12 ELSE 6
Label(i) == [x |-> start_menu.left + 8, y |-> start_menu.top + 4 + 12 * i,
             w |-> 8 * Length[i], h |-> 8]

\* process_mouse puts a position into lParam, desktop_wnd_proc takes it out.
Packed(x, y, word) == (x % word) + word * (y % word)
Unpacked(l, word) ==
  LET Signed(n) == IF n >= word \div 2 THEN n - word ELSE n
  IN  <<Signed(l % word), Signed(l \div word)>>
=============================================================================
