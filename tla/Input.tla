------------------------------- MODULE Input -------------------------------
(****************************************************************************)
(* Mouse and keyboard behind the one output buffer of the PS/2 controller:  *)
(* the handler of IRQ 12 in src/drivers/mouse/src/mouse.c, and the desktop's*)
(* main loop in apps/OS/OS.c, which polls the same port for scancodes and   *)
(* takes clicks out of the driver's latch.                                  *)
(*                                                                          *)
(* The loop runs with interrupts enabled, so IRQ 12 can strike between any  *)
(* two of its steps; the handler itself runs with interrupts masked and is  *)
(* one step.  The controller (external) holds one byte.  It raises IRQ 12   *)
(* with a byte of the mouse; that of the keyboard, IRQ 1, has no handler.   *)
(* Reading port 0x60 empties the buffer; IRQ 12, once raised, stays pending.*)
(*                                                                          *)
(* Of the buttons there is the left one, the only one the desktop acts on.  *)
(* No event handler is registered, and nobody calls mouse_poll.             *)
(****************************************************************************)
EXTENDS Integers, Sequences

CONSTANTS
  Width, Height,   \* MOUSE_SCREEN_W, MOUSE_SCREEN_H
  Packets,         \* what the mouse reports: [left, dx, dy]
  Scancodes        \* what the keyboard sends

ASSUME InputAssumption ==
  /\ Width \in Nat \ {0} /\ Height \in Nat \ {0}
  /\ Packets \subseteq [left : BOOLEAN, dx : -256..255, dy : -256..255]
  /\ Scancodes \subseteq 0..255

VARIABLES
  wire,      \* bytes of its packet that the mouse has yet to send
  buffer,    \* the controller's output buffer: [full, byte, from]
  irq,       \* IRQ 12 is pending
  packet,    \* the first packet_index bytes of packet[]
  pointer,   \* mouse_x, mouse_y, mouse_left_pressed
  latch,     \* mouse_left_click_pending
  pc,        \* where the desktop's loop is
  clicked,   \* what mouse_consume_left_click read
  hand,      \* history: the mouse's button, and where the pointer belongs
  narrow,    \* history: no delta has needed its ninth bit
  intact,    \* history: packet[] has had every byte of the mouse and no other
  polled,    \* history: a byte of the mouse was polled, its interrupt is to come
  owed,      \* history: presses of the button that no click stands for yet
  discarded  \* history: a packet was found to be out of step

vars == <<wire, buffer, irq, packet, pointer, latch, pc, clicked,
          hand, narrow, intact, polled, owed, discarded>>

device == <<wire, buffer, irq>>
driver == <<packet, pointer, latch>>
loop == <<pc, clicked>>
history == <<hand, narrow, intact, polled, owed, discarded>>

-----------------------------------------------------------------------------
\* packet[0] & mask, for a mask of one bit
Bit(b, mask) == (b \div mask) % 2 = 1

\* A mutant of Signed: a delta is taken as it is.
Unsigned(b) == b

\* s8_to_s16
Signed(b) == IF b < 128 THEN b ELSE b - 256

(* The three bytes of a report.  Bit 3 of the first is always set; the ninth*)
(* bits of the deltas are its bits 4 and 5, and the driver drops them.      *)
Encoded(p) ==
  << 8 + (IF p.left THEN 1 ELSE 0) + (IF p.dx < 0 THEN 16 ELSE 0)
       + (IF p.dy < 0 THEN 32 ELSE 0),
     p.dx % 256, p.dy % 256 >>

\* A mutant of Clamp: the right edge is one too far.
ClampWide(v, size) == IF v < 0 THEN 0 ELSE IF v > size THEN size - 1 ELSE v

Clamp(v, size) == IF v < 0 THEN 0 ELSE IF v >= size THEN size - 1 ELSE v

\* y counts downwards on the screen and upwards on the mouse's pad.
Moved(p, left, dx, dy) ==
  [x |-> Clamp(p.x + dx, Width), y |-> Clamp(p.y - dy, Height), left |-> left]

\* An empty buffer.  What port 0x60 gives then makes no difference here.
Emptied == [full |-> FALSE, byte |-> 0, from |-> "nobody"]

Start == [x |-> Width \div 2, y |-> Height \div 2, left |-> FALSE]

(* What the mouse has still to send when mouse_device_init is through: an   *)
(* answer that was waited for in vain, or the rest of a report that the     *)
(* flush has begun to read.                                                 *)
Leftovers ==
  {<<>>, <<250>>, <<250, 250>>}
    \cup UNION {{Tail(Encoded(p)), Tail(Tail(Encoded(p)))} : p \in Packets}

(* mouse_init, and interrupts enabled by kmain.  If there is a mouse, its   *)
(* answers were polled, and the IRQ 12 they raised is pending.              *)
Init ==
  /\ wire \in Leftovers /\ irq \in BOOLEAN
  /\ buffer = Emptied
  /\ packet = <<>> /\ pointer = Start /\ latch = FALSE
  /\ pc = "poll" /\ clicked = FALSE
  /\ hand = Start /\ narrow = TRUE /\ intact = (wire = <<>>)
  /\ polled = irq /\ owed = 0 /\ discarded = FALSE

-----------------------------------------------------------------------------
\* The deltas of p fit in eight bits.
Narrow(p) == p.dx \in -128..127 /\ p.dy \in -128..127

\* Presses are counted up to MaxOwed: one may be on its way and one latched.
MaxOwed == 2

\* 1 if a report of the button up is followed by one of it down.
Press(was, left) == IF left /\ ~was THEN 1 ELSE 0

(* The user does something with the mouse.  Once the driver cannot follow,  *)
(* only the button is remembered, or nothing.                               *)
Report ==
  /\ wire = <<>>
  /\ \E p \in Packets :
       /\ wire' = Encoded(p)
       /\ narrow' = (narrow /\ (intact => Narrow(p)))
       /\ hand' = IF ~intact THEN hand
                  ELSE IF narrow' THEN Moved(hand, p.left, p.dx, p.dy)
                  ELSE [Start EXCEPT !.left = p.left]
       /\ owed' = IF intact /\ owed < MaxOwed THEN owed + Press(hand.left, p.left)
                  ELSE owed
  /\ UNCHANGED <<buffer, irq, driver, loop, intact, polled, discarded>>

MouseSends ==
  /\ wire # <<>> /\ ~buffer.full
  /\ buffer' = [full |-> TRUE, byte |-> Head(wire), from |-> "mouse"]
  /\ wire' = Tail(wire)
  /\ irq' = TRUE
  /\ UNCHANGED <<driver, loop, history>>

KeyboardSends ==
  /\ ~buffer.full
  /\ \E k \in Scancodes : buffer' = [full |-> TRUE, byte |-> k, from |-> "keyboard"]
  /\ UNCHANGED <<wire, irq, driver, loop, history>>

-----------------------------------------------------------------------------
(* The history of a byte that reaches packet[] or, if good is FALSE, of one *)
(* that goes astray: the history of the reports is of no use any more.      *)
Keep(good) ==
  /\ intact' = (intact /\ good)
  /\ hand' = IF intact /\ good THEN hand ELSE Start
  /\ narrow' = (intact /\ good => narrow)
  /\ owed' = IF intact /\ good THEN owed ELSE 0

\* A mutant of Taken: IRQ 12 is not acknowledged, and strikes again.
TakenAgain ==
  /\ irq /\ buffer.full
  /\ buffer' = Emptied /\ irq' = irq /\ polled' = FALSE
  /\ UNCHANGED loop

\* irq_handler acknowledges, mouse_irq_handler reads the byte.
Taken ==
  /\ irq /\ buffer.full
  /\ irq' = FALSE /\ buffer' = Emptied /\ polled' = FALSE
  /\ UNCHANGED loop

\* Nothing to read: the loop was faster.
IrqEmpty ==
  /\ irq /\ ~buffer.full
  /\ irq' = FALSE /\ polled' = FALSE
  /\ UNCHANGED <<wire, buffer, driver, loop, hand, narrow, intact, owed, discarded>>

\* 0xAA: the mouse was plugged in or reset.
IrqBat ==
  /\ Taken /\ buffer.byte = 170
  /\ packet' = <<>>
  /\ Keep(FALSE)
  /\ UNCHANGED <<wire, pointer, latch, discarded>>

(* 0x00 for a first byte: mouse_device_init makes the mouse begin anew, and *)
(* reads the port until it is empty.  That takes the answers of the mouse,  *)
(* whose interrupt is left over, and whatever else comes meanwhile, also    *)
(* from the keyboard.                                                       *)
IrqInit ==
  /\ irq /\ buffer.full /\ buffer.byte = 0 /\ packet = <<>>
  /\ buffer' = Emptied
  /\ wire' \in Leftovers
  /\ irq' \in BOOLEAN /\ polled' = irq'
  /\ Keep(FALSE)
  /\ UNCHANGED <<driver, loop, discarded>>

\* 0xFA: taken for the answer to a command.
IrqAck ==
  /\ Taken /\ buffer.byte = 250
  /\ Keep(FALSE)
  /\ UNCHANGED <<wire, driver, discarded>>

Ordinary == buffer.byte \notin {170, 250} /\ ~(buffer.byte = 0 /\ packet = <<>>)

IrqByte ==
  /\ Taken /\ Ordinary /\ Len(packet) < 2
  /\ packet' = Append(packet, buffer.byte)
  /\ Keep(buffer.from = "mouse")
  /\ UNCHANGED <<wire, pointer, latch, discarded>>

\* The third byte, but the first has no bit 3: all three are dropped.
IrqBad ==
  /\ Taken /\ Ordinary /\ Len(packet) = 2 /\ ~Bit(packet[1], 8)
  /\ packet' = <<>>
  /\ discarded' = TRUE
  /\ Keep(FALSE)
  /\ UNCHANGED <<wire, pointer, latch>>

\* A mutant of IrqPacket: a packet without a new press clears the latch.
IrqPacketForgets ==
  /\ Taken /\ Ordinary /\ Len(packet) = 2 /\ Bit(packet[1], 8)
  /\ packet' = <<>>
  /\ LET left == Bit(packet[1], 1)
         down == left /\ ~pointer.left
     IN  /\ latch' = down
         /\ pointer' = Moved(pointer, left, Signed(packet[2]), Signed(buffer.byte))
  /\ Keep(buffer.from = "mouse")
  /\ UNCHANGED <<wire, discarded>>

IrqPacket ==
  /\ Taken /\ Ordinary /\ Len(packet) = 2 /\ Bit(packet[1], 8)
  /\ packet' = <<>>
  /\ LET left == Bit(packet[1], 1)
         down == left /\ ~pointer.left
     IN  /\ latch' = (latch \/ down)
         /\ pointer' = Moved(pointer, left, Signed(packet[2]), Signed(buffer.byte))
  /\ Keep(buffer.from = "mouse")
  /\ UNCHANGED <<wire, discarded>>

Handler == IrqEmpty \/ IrqBat \/ IrqInit \/ IrqAck \/ IrqByte \/ IrqBad \/ IrqPacket

-----------------------------------------------------------------------------
\* is_key_pressed: whose byte it is, is not asked.
PollStatus ==
  /\ pc = "poll"
  /\ pc' = IF buffer.full THEN "read" ELSE "consume"
  /\ UNCHANGED <<clicked, device, driver, history>>

\* read_key and PostMessage
PollRead ==
  /\ pc = "read" /\ pc' = "consume"
  /\ buffer' = Emptied
  /\ LET theft == buffer.full /\ buffer.from = "mouse"
     IN  polled' = (polled \/ theft) /\ Keep(~theft)
  /\ UNCHANGED <<wire, irq, clicked, driver, discarded>>

\* mouse_consume_left_click, its load
ConsumeLoad ==
  /\ pc = "consume" /\ pc' = "clear"
  /\ clicked' = latch
  /\ UNCHANGED <<device, driver, history>>

\* A click that was read is one of the presses.
Spent == IF clicked /\ owed > 0 THEN owed - 1 ELSE owed

\* A mutant of ConsumeStore: the latch is not cleared.
ConsumeStoreNothing ==
  /\ pc = "clear" /\ pc' = "poll"
  /\ clicked' = FALSE
  /\ owed' = Spent
  /\ UNCHANGED <<device, driver, hand, narrow, intact, polled, discarded>>

(* Its store.  A click that was read goes to the desktop's window with the  *)
(* position of the moment, and the loop goes round.                         *)
ConsumeStore ==
  /\ pc = "clear" /\ pc' = "poll"
  /\ latch' = FALSE
  /\ clicked' = FALSE
  /\ owed' = Spent
  /\ UNCHANGED <<device, packet, pointer, hand, narrow, intact, polled, discarded>>

Loop == PollStatus \/ PollRead \/ ConsumeLoad \/ ConsumeStore

Next == Report \/ MouseSends \/ KeyboardSends \/ Handler \/ Loop

(* The handler of a pending interrupt runs, a mouse in use keeps reporting, *)
(* the loop goes on, and the controller takes what the mouse has to send.   *)
Spec ==
  /\ Init /\ [][Next]_vars
  /\ WF_vars(Handler) /\ WF_vars(Loop)
  /\ WF_vars(Report) /\ SF_vars(MouseSends)

-----------------------------------------------------------------------------
Byte == 0..255
Place == [x : 0..(Width - 1), y : 0..(Height - 1), left : BOOLEAN]

TypeOK ==
  /\ wire \in Seq(Byte) /\ Len(wire) <= 3
  /\ buffer \in [full : BOOLEAN, byte : Byte, from : {"mouse", "keyboard", "nobody"}]
  /\ irq \in BOOLEAN
  /\ packet \in Seq(Byte) /\ Len(packet) <= 2
  /\ pointer \in Place /\ hand \in Place
  /\ latch \in BOOLEAN /\ clicked \in BOOLEAN
  /\ pc \in {"poll", "read", "consume", "clear"}
  /\ narrow \in BOOLEAN /\ intact \in BOOLEAN /\ polled \in BOOLEAN
  /\ owed \in 0..MaxOwed /\ discarded \in BOOLEAN

(* As long as every byte of the mouse has reached packet[], and no delta has*)
(* needed the ninth bit that the driver drops, the pointer is where the     *)
(* reports put it whenever none is under way, and never off the screen      *)
(* (mouse_irq_handler).                                                     *)
PointerFollows ==
  intact /\ narrow /\ wire = <<>> /\ ~(buffer.full /\ buffer.from = "mouse")
    => pointer = hand

(* The handler eats a byte of the keyboard only on an interrupt whose own   *)
(* byte was polled, by mouse_init, by mouse_device_init or by the loop, and *)
(* so at most one for each: an interrupt that finds its byte gone takes     *)
(* whatever came next (mouse_irq_handler).                                  *)
KeyEatenOnlyForPolled ==
  [][Handler /\ buffer.full /\ buffer.from = "keyboard" => polled]_vars

(* As long as every byte of the mouse has reached packet[], the desktop gets*)
(* no more clicks than the mouse has reported presses of the button,        *)
(* although IRQ 12 may set the latch again before it is cleared             *)
(* (mouse_consume_left_click).  After a lost byte it can: a shifted packet  *)
(* may look like one with the button down.                                  *)
NoPhantomClick == intact => (latch \/ clicked => owed > 0)

(* A press that finds the loop anywhere but between the load and the store  *)
(* of mouse_consume_left_click becomes a click.                             *)
PressBecomesClick == latch /\ pc # "clear" ~> clicked

\* The next byte of the mouse is the one packet[] is waiting for.
Aligned ==
  LET sent == 3 - Len(wire) - (IF buffer.full /\ buffer.from = "mouse" THEN 1 ELSE 0)
  IN  Len(packet) = sent % 3

(* "bad sync, discard and try to re-sync next byte": once the loop takes no *)
(* more bytes, a parser that noticed it is out of step finds the start of a *)
(* packet again (mouse_irq_handler).                                        *)
Resyncs == <>[][~PollRead]_vars => (discarded ~> Aligned)
=============================================================================
