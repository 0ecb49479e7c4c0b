------------------------------- MODULE MCText -------------------------------
(****************************************************************************)
(* What the functions of Text and Screen promise, over bounded inputs:      *)
(* numbers of five bits, buffers of four characters, a terminal of three    *)
(* columns and two rows, and the desktop in its real size.                  *)
(****************************************************************************)
EXTENDS Integers, SequencesExt

LOCAL T == INSTANCE Text WITH Bits <- 5, Room <- 4
LOCAL Numbers == 0..31

\* The number that a sequence of digits stands for.
LOCAL Value(digits, base) == FoldLeft(LAMBDA v, d : base * v + d, 0, digits)

(* A number is written as its digits, without a zero in front (itoa,        *)
(* uint32_to_str), as many as digit_count says, and in a field of int_to_str*)
(* the last of them.                                                        *)
ASSUME NumbersAsDigits ==
  \A n \in 0..1100 :
    /\ \A base \in {2, 10, 16} :
         LET d == T!Digits(n, base)
         IN  Value(d, base) = n /\ (d[1] = 0 => n = 0) /\ \A i \in DOMAIN d : d[i] < base
    /\ T!digit_count(n) = Len(T!Digits(n, 10))
    /\ T!int_to_str(n, 3) = SubSeq(T!Digits(1000000 + n, 10), 6, 7)

(* Bit by bit, u64_div and u64_mod divide right by any d but the ones above *)
(* half the numbers' range, where the shifted remainder overflows; the      *)
(* repository divides by 10 alone.                                          *)
ASSUME DividesBitByBit ==
  \A n \in Numbers, d \in 1..16 :
    T!DivMod(n, d) = [q |-> n \div d, r |-> n % d]

LOCAL Bcd(n) == (n \div 10) * 16 + (n % 10)

(* The clock is read seconds first, hours last, while it runs.  Whatever it *)
(* does between two reads, the time shown is right unless a minute ended in *)
(* between, and then it is ahead (get_current_time); except at midnight,    *)
(* which is left out here, when it can be a day behind.                     *)
LOCAL Hms(t) == <<t \div 3600, (t \div 60) % 60, t % 60>>
ASSUME ClockReading ==
  \A minutes \in {0, 59, 60, 1438}, s \in {0, 58, 59}, d1 \in 0..1, d2 \in 0..1 :
    LET t == 60 * minutes + s
        shown == <<Hms(t + d1 + d2)[1], Hms(t + d1)[2], Hms(t)[3]>>
        read == 3600 * shown[1] + 60 * shown[2] + shown[3]
    IN  /\ read >= t
        /\ s + d1 + d2 < 60 => read = t
        /\ T!TwoDigits(Bcd(shown[3])) = <<shown[3] \div 10, shown[3] % 10>>

LOCAL Names == UNION {[1..n -> {"a", "b"}] : n \in 0..5}

(* A class whose name fits is found by it, is registered once, and is not   *)
(* taken for another one; a name that does not fit is never found, so it can*)
(* be registered again and again and nobody can create a window of it.      *)
ASSUME ClassesFound ==
  \A a \in Names, b \in Names :
    LET classes == T!RegisterClass(T!RegisterClass(<<>>, a, 2), b, 2)
        Fits(n) == Len(n) < 4
    IN  /\ (T!find_class_by_name(classes, a) = 1) <=> Fits(a)
        /\ Fits(a) => (Len(classes) = 1 <=> a = b)
        /\ Fits(b) => T!find_class_by_name(classes, b) = IF b = T!ClassName(a) THEN 1 ELSE 2
        /\ ~Fits(b) => /\ T!find_class_by_name(classes, b) = 0
                       /\ Len(classes) = 2

(* A title comes back as it was set, as far as the caller's buffer goes and *)
(* up to the 63 characters strncpy knows of, although there is room for 127.*)
ASSUME TitlesKept ==
  \A s \in Names, m \in 1..7 :
    LET got == T!GetWindowText(T!SetWindowText(s), m)
    IN  IsPrefix(got, s) /\ Len(got) = Min({Len(s), m - 1, 3})

-----------------------------------------------------------------------------
LOCAL S == INSTANCE Screen WITH WIDTH <- 24, HEIGHT <- 16, Wrap <- 256

(* No character of the terminal is drawn on top of another one or outside   *)
(* the screen, whatever is written (tty_putchar).                           *)
ASSUME TerminalTidy ==
  \A text \in UNION {[1..n -> {"a", "\n"}] : n \in 0..9} :
    LET t == S!tty_putstring(S!Blank, text)
    IN  /\ IsInjective(t.cells)
        /\ t.column \in 0..2 /\ t.row \in 0..1
        /\ \A i \in DOMAIN t.cells : t.cells[i] \in (0..2) \X (0..1)

(* A string that begins on the screen stays on it and covers nothing of     *)
(* itself: it wraps at the right edge and ends at the bottom.               *)
ASSUME StringsStay ==
  \A x \in 0..16, y \in 0..8, n \in 0..7 :
    LET at == S!vga_draw_string(x, y, n)
    IN  /\ \A i \in DOMAIN at : S!Glyph(at[i]) \subseteq S!Pixels
        /\ x % 8 = 0 => \A i, j \in DOMAIN at : i # j => S!Glyph(at[i]) \cap S!Glyph(at[j]) = {}

LOCAL Rects == [x : {-2, 0, 3}, y : {-1, 2}, w : {1, 2, 24}, h : {1, 3, 20}]

(* What is clicked is what is seen, also of a rectangle that is partly off  *)
(* the screen: os_gui_point_in_rect holds of a pixel exactly if             *)
(* os_gui_fill_rect draws it; and an outline is the rectangle's edge.       *)
ASSUME ClickedIsSeen ==
  \A r \in Rects :
    /\ S!Drawn(S!os_gui_fill_rect(r)) =
         {p \in S!Pixels : S!os_gui_point_in_rect(p[1], p[2], r)}
    /\ S!os_gui_draw_rect_outline(r) =
         S!os_gui_fill_rect(r)
           \ S!os_gui_fill_rect([x |-> r.x + 1, y |-> r.y + 1, w |-> r.w - 2, h |-> r.h - 2])

(* Coordinates of the window and of the screen lead back to each other, and *)
(* SetWindowPos keeps the size only of a window that does not move: with    *)
(* SWP_NOSIZE alone the lower right corner stays where it was.              *)
ASSUME WindowGeometry ==
  \A r \in Rects, X \in {-1, 4}, cx \in {1, 5} :
    LET b == S!MoveWindow(r.x, r.y, r.w, r.h)
        moved == S!SetWindowPos(b, X, X, cx, cx, {"NOSIZE"})
    IN  /\ S!Rect(b) = r
        /\ S!ClientToScreen(b, S!ScreenToClient(b, <<X, cx>>)) = <<X, cx>>
        /\ S!SetWindowPos(b, X, X, cx, cx, {}) = S!MoveWindow(X, X, cx, cx)
        /\ S!Rect(S!SetWindowPos(b, X, X, cx, cx, {"NOMOVE"})).w = cx
        /\ S!SetWindowPos(b, X, X, cx, cx, {"NOMOVE", "NOSIZE"}) = b
        /\ moved.right = b.right /\ moved.bottom = b.bottom

-----------------------------------------------------------------------------
LOCAL D == INSTANCE Screen WITH WIDTH <- 320, HEIGHT <- 200, Wrap <- 65536

LOCAL Places == {D!Rect(D!start_menu), D!Rect(D!start_button), D!Rect(D!close_button)}

(* The places of the desktop that react to a click do not overlap, are on   *)
(* the screen, and the button is where it is drawn: Desktop's Click takes   *)
(* them for alternatives.                                                   *)
ASSUME PlacesApart ==
  /\ \A r \in Places : D!os_gui_fill_rect(r) \subseteq D!Pixels
  /\ \A r, s \in Places :
       r # s => D!os_gui_fill_rect(r) \cap D!os_gui_fill_rect(s) = {}
  /\ D!drawn_button = D!Rect(D!start_button)

(* A click on a title of the start menu chooses this title, every title is  *)
(* inside the menu, and every row of the menu is somebody's.                *)
ASSUME TitlesChooseThemselves ==
  /\ \A i \in DOMAIN D!Menu :
       /\ D!os_gui_fill_rect(D!Label(i)) \subseteq D!os_gui_fill_rect(D!Rect(D!start_menu))
       /\ \A y \in D!Label(i).y..(D!Label(i).y + 7) : D!Chosen(y - D!start_menu.top) = i
  /\ \A row \in 0..(D!Rect(D!start_menu).h - 1) : D!Chosen(row) \in DOMAIN D!Menu

\* A position survives its way through lParam, also a negative one.
ASSUME PositionsSurvive ==
  \A x \in -8..7, y \in -8..7 : D!Unpacked(D!Packed(x, y, 16), 16) = <<x, y>>
=============================================================================
