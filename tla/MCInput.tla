------------------------------ MODULE MCInput ------------------------------
\* Input with a few reports of the mouse.
EXTENDS Input

\* A third byte that could be a first one; one that is 0; 0xFA and 0xAA; and
\* a delta of nine bits.
Slide == [left |-> FALSE, dx |-> 1, dy |-> 9]
Click == [left |-> TRUE, dx |-> -1, dy |-> 0]
Odd == [left |-> TRUE, dx |-> -6, dy |-> -86]
Fast == [left |-> FALSE, dx |-> 200, dy |-> -1]

MCPackets == {Slide, Click, Odd, Fast}
MCSlides == {Slide}
=============================================================================
