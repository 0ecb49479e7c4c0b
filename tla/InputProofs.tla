---------------------------- MODULE InputProofs ----------------------------
(****************************************************************************)
(* Theorems about Input for every size of the screen, whatever the mouse    *)
(* reports and whatever keys there are.                                     *)
(****************************************************************************)
EXTENDS Input, SequenceTheorems, TLAPS

-----------------------------------------------------------------------------
\* A byte of the mouse waits in the controller.
Waiting == buffer.full /\ buffer.from = "mouse"

(* The report e is under way: what packet[], the controller and the mouse   *)
(* hold of it, one after the other, is e.                                   *)
UnderWay(e) ==
  \/ packet = <<>> /\ ~Waiting /\ wire = <<e[1], e[2], e[3]>>
  \/ packet = <<>> /\ Waiting /\ buffer.byte = e[1] /\ wire = <<e[2], e[3]>>
  \/ packet = <<e[1]>> /\ ~Waiting /\ wire = <<e[2], e[3]>>
  \/ packet = <<e[1]>> /\ Waiting /\ buffer.byte = e[2] /\ wire = <<e[3]>>
  \/ packet = <<e[1], e[2]>> /\ ~Waiting /\ wire = <<e[3]>>

\* Its last byte waits: the mouse may have begun with the next report.
Arrived(e) == packet = <<e[1], e[2]>> /\ Waiting /\ buffer.byte = e[3]

\* No report is under way.
Idle == packet = <<>> /\ ~Waiting /\ wire = <<>>

\* Where the report p takes the pointer from the place w.
After(w, p) == Moved(w, p.left, p.dx, p.dy)

(* A click that the desktop may still get.                                  *)
Standing == IF latch \/ clicked THEN 1 ELSE 0

(* Once the reports under way have come, the pointer is at w, as it should; *)
(* n of them are presses, owed to the desktop along with the one latched.   *)
Ahead(w, n) ==
  /\ hand.left = w.left
  /\ narrow => hand = w
  /\ Standing + n <= owed

\* If every delta so far has been narrow, so are those of p.
Fits(p) == narrow => Narrow(p)

\* One report is under way, or with q a second one.
AheadOne(p) == Ahead(After(pointer, p), Press(pointer.left, p.left))
AheadTwo(p, q) ==
  Ahead(After(After(pointer, p), q), Press(pointer.left, p.left) + Press(p.left, q.left))

(* Until a byte goes astray, the pointer is where it belongs and no click   *)
(* is made up, but for the reports that are under way.                      *)
HandInv ==
  intact =>
    \/ Idle /\ Ahead(pointer, 0)
    \/ \E p \in Packets : UnderWay(Encoded(p)) /\ Fits(p) /\ AheadOne(p)
    \/ \E p \in Packets :
         /\ Arrived(Encoded(p)) /\ Fits(p)
         /\ \/ wire = <<>> /\ AheadOne(p)
            \/ \E q \in Packets : wire = Encoded(q) /\ Fits(q) /\ AheadTwo(p, q)

(* An interrupt is pending while a byte of the mouse waits, and otherwise   *)
(* only for one that was polled.                                            *)
IrqInv ==
  /\ Waiting => irq
  /\ irq => Waiting \/ polled

\* The inductive invariant.
IInv == TypeOK /\ HandInv /\ IrqInv

-----------------------------------------------------------------------------
\* Short sequences.
LEMMA AppendTwo ==
  ASSUME NEW a, NEW b
  PROVE  Append(<<a>>, b) = <<a, b>>
<1> DEFINE S == {a, b}
<1>1. PICK s, t : s = Append(<<a>>, b) /\ t = <<a, b>>
  OBVIOUS
<1>2. /\ <<a>> \in Seq(S) /\ Len(<<a>>) = 1 /\ <<a>>[1] = a /\ b \in S
      /\ t \in Seq(S) /\ Len(t) = 2 /\ t[1] = a /\ t[2] = b
  BY <1>1
<1> HIDE DEF S
<1>3. s \in Seq(S) /\ Len(s) = 2 /\ s[1] = a /\ s[2] = b
  BY <1>1, <1>2, AppendProperties
<1>4. \A i \in 1..Len(s) : s[i] = t[i]
  BY <1>2, <1>3
<1>5. s = t
  BY <1>2, <1>3, <1>4, SeqEqual
<1>6. QED
  BY <1>1, <1>5

LEMMA Tuples ==
  ASSUME NEW a, NEW b, NEW c
  PROVE  /\ Len(<<>>) = 0 /\ Len(<<a>>) = 1 /\ Len(<<a, b>>) = 2
         /\ Append(<<>>, a) = <<a>>
         /\ Head(<<a>>) = a /\ Tail(<<a>>) = <<>>
         /\ Head(<<a, b>>) = a /\ Tail(<<a, b>>) = <<b>>
         /\ Head(<<a, b, c>>) = a /\ Tail(<<a, b, c>>) = <<b, c>>
  OBVIOUS

-----------------------------------------------------------------------------
(* What is sent is what was meant: the parser gets back the button and the  *)
(* two deltas, as far as they fit in eight bits, from the bytes of a report.*)
LEMMA Decoded ==
  ASSUME NEW p \in Packets, NEW e, e = Encoded(p)
  PROVE  /\ e \in Seq(Byte) /\ Len(e) = 3 /\ e = <<e[1], e[2], e[3]>>
         /\ \A i \in 1..3 : e[i] \in Byte
         /\ Bit(e[1], 8) /\ Bit(e[1], 1) = p.left
         /\ Narrow(p) => Signed(e[2]) = p.dx /\ Signed(e[3]) = p.dy
<1>1. p.left \in BOOLEAN /\ p.dx \in -256..255 /\ p.dy \in -256..255
  BY InputAssumption
<1>2. PICK l \in 0..1, a \in 0..1, b \in 0..1 :
        e = <<8 + l + 16 * a + 32 * b, p.dx % 256, p.dy % 256>> /\ (l = 1 <=> p.left)
  BY <1>1 DEF Encoded
<1>3. p.dx % 256 \in Byte /\ p.dy % 256 \in Byte /\ 8 + l + 16 * a + 32 * b \in Byte
  <2>1. \A d \in -256..255 : d % 256 \in Byte
    BY DEF Byte
  <2>2. 8 + l + 16 * a + 32 * b \in Byte
    BY DEF Byte
  <2>3. p.dx % 256 \in Byte
    BY <1>1, <2>1, Zenon
  <2>4. p.dy % 256 \in Byte
    BY <1>1, <2>1, Zenon
  <2>5. QED
    BY <2>2, <2>3, <2>4
<1>4. /\ e[1] = 8 + l + 16 * a + 32 * b
      /\ e[2] = p.dx % 256 /\ e[3] = p.dy % 256
      /\ e \in Seq(Byte) /\ Len(e) = 3 /\ e = <<e[1], e[2], e[3]>>
  BY <1>2, <1>3
<1>5. Bit(e[1], 8) /\ (Bit(e[1], 1) <=> p.left)
  <2>1. ((8 + l + 16 * a + 32 * b) \div 8) % 2 = 1
    OBVIOUS
  <2>2. ((8 + l + 16 * a + 32 * b) \div 1) % 2 = l
    OBVIOUS
  <2>3. QED
    BY <1>2, <1>4, <2>1, <2>2 DEF Bit
<1>6. ASSUME Narrow(p)
      PROVE  Signed(e[2]) = p.dx /\ Signed(e[3]) = p.dy
  <2>1. PICK dx \in -128..127, dy \in -128..127 : dx = p.dx /\ dy = p.dy
    BY <1>6 DEF Narrow
  <2>2. e[2] = dx % 256 /\ e[3] = dy % 256
    BY <1>4, <2>1
  <2>3. QED
    BY <2>1, <2>2 DEF Signed
<1>7. Bit(e[1], 1) = p.left
  BY <1>1, <1>5, Zenon DEF Bit
<1>8. \A i \in 1..3 : e[i] \in Byte
  BY <1>3, <1>4
<1>9. QED
  BY <1>4, <1>5, <1>6, <1>7, <1>8

\* A move ends on the screen.
LEMMA OnScreen ==
  ASSUME NEW w \in Place, NEW left \in BOOLEAN, NEW dx \in Int, NEW dy \in Int
  PROVE  Moved(w, left, dx, dy) \in Place
<1>1. /\ Width \in Nat \ {0} /\ Height \in Nat \ {0}
      /\ w.x \in 0..(Width - 1) /\ w.y \in 0..(Height - 1)
  BY InputAssumption DEF Place
<1>2. Clamp(w.x + dx, Width) \in 0..(Width - 1)
  BY <1>1 DEF Clamp
<1>3. Clamp(w.y - dy, Height) \in 0..(Height - 1)
  BY <1>1 DEF Clamp
<1>4. QED
  BY <1>2, <1>3 DEF Moved, Place

LEMMA StartOnScreen == Start \in Place
<1>1. Width \in Nat \ {0} /\ Height \in Nat \ {0}
  BY InputAssumption
<1>2. Width \div 2 \in 0..(Width - 1) /\ Height \div 2 \in 0..(Height - 1)
  BY <1>1
<1>3. QED
  BY <1>2 DEF Start, Place

LEMMA SignedInt == \A b \in Byte : Signed(b) \in Int
  BY DEF Signed, Byte

LEMMA ReportMoves ==
  ASSUME NEW w \in Place, NEW p \in Packets
  PROVE  After(w, p) \in Place
<1>1. p.left \in BOOLEAN /\ p.dx \in Int /\ p.dy \in Int
  BY InputAssumption
<1>2. QED
  BY <1>1, OnScreen DEF After

-----------------------------------------------------------------------------
\* What mouse_device_init leaves to be sent is less than a report.
LEMMA LeftoverTypes ==
  ASSUME NEW w \in Leftovers
  PROVE  w \in Seq(Byte) /\ Len(w) <= 3
<1> DEFINE Short == {s \in Seq(Byte) : Len(s) <= 3}
<1>1. <<>> \in Short
  OBVIOUS
<1>2. ASSUME NEW b \in Byte
      PROVE  <<b>> \in Short
  OBVIOUS
<1>3. ASSUME NEW b \in Byte, NEW c \in Byte
      PROVE  <<b, c>> \in Short
  OBVIOUS
<1>4. 250 \in Byte
  BY DEF Byte
<1>5. ASSUME NEW p \in Packets, w \in {Tail(Encoded(p)), Tail(Tail(Encoded(p)))}
      PROVE  w \in Short
  <2>1. PICK e : e = Encoded(p)
    OBVIOUS
  <2>2. e = <<e[1], e[2], e[3]>> /\ \A i \in 1..3 : e[i] \in Byte
    BY <2>1, Decoded
  <2>3. PICK a \in Byte, b \in Byte, c \in Byte : e = <<a, b, c>>
    BY <2>2
  <2>4. Tail(e) = <<b, c>> /\ Tail(Tail(e)) = <<c>>
    BY <2>3
  <2>5. w = <<b, c>> \/ w = <<c>>
    BY <1>5, <2>1, <2>4
  <2>6. <<b, c>> \in Short /\ <<c>> \in Short
    BY <1>2, <1>3
  <2>7. QED
    BY <2>5, <2>6, Zenon
<1>6. <<250>> \in Short /\ <<250, 250>> \in Short
  BY <1>2, <1>3, <1>4
<1>7. w \in Short
  <2>1. \/ w = <<>> \/ w = <<250>> \/ w = <<250, 250>>
        \/ \E p \in Packets : w \in {Tail(Encoded(p)), Tail(Tail(Encoded(p)))}
    BY DEF Leftovers
  <2> HIDE DEF Short
  <2>2. QED
    BY <1>1, <1>5, <1>6, <2>1, Zenon
<1>8. QED
  BY <1>7

LEMMA EmptiedTypes ==
  Emptied \in [full : BOOLEAN, byte : Byte, from : {"mouse", "keyboard", "nobody"}]
  BY DEF Emptied, Byte

\* The type invariant, one action at a time.
LEMMA InitTypes ==
  ASSUME Init
  PROVE  TypeOK
<1>1. wire \in Seq(Byte) /\ Len(wire) <= 3
  BY LeftoverTypes DEF Init
<1>2. packet \in Seq(Byte) /\ Len(packet) <= 2
  BY DEF Init
<1>3. (wire = <<>>) \in BOOLEAN /\ 0 \in 0..MaxOwed
  BY DEF MaxOwed
<1>4. QED
  BY <1>1, <1>2, <1>3, EmptiedTypes, StartOnScreen DEF Init, TypeOK

\* The history of a byte.
LEMMA KeepTypes ==
  ASSUME TypeOK, NEW good \in BOOLEAN, Keep(good)
  PROVE  hand' \in Place /\ intact' \in BOOLEAN /\ narrow' \in BOOLEAN /\ owed' \in 0..MaxOwed
  BY StartOnScreen DEF Keep, TypeOK, MaxOwed

LEMMA ReportTypes ==
  ASSUME TypeOK, Report
  PROVE  TypeOK'
<1>1. PICK p \in Packets :
        /\ wire' = Encoded(p)
        /\ narrow' = (narrow /\ (intact => Narrow(p)))
        /\ hand' = IF ~intact THEN hand
                   ELSE IF narrow' THEN After(hand, p) ELSE [Start EXCEPT !.left = p.left]
        /\ owed' = IF intact /\ owed < MaxOwed THEN owed + Press(hand.left, p.left)
                   ELSE owed
  BY DEF Report, After
<1>2. wire' \in Seq(Byte) /\ Len(wire') <= 3
  <2>1. PICK e : e = Encoded(p)
    OBVIOUS
  <2>2. e \in Seq(Byte) /\ Len(e) = 3
    BY <2>1, Decoded
  <2>3. QED
    BY <1>1, <2>1, <2>2
<1>3. hand' \in Place
  <2>1. [Start EXCEPT !.left = p.left] \in Place
    BY StartOnScreen, InputAssumption DEF Place
  <2>2. QED
    BY <1>1, <2>1, ReportMoves DEF TypeOK
<1>4. owed' \in 0..MaxOwed
  BY <1>1 DEF TypeOK, MaxOwed, Press
<1>5. narrow' \in BOOLEAN
  BY <1>1, Zenon DEF TypeOK, Narrow
<1>6. QED
  BY <1>2, <1>3, <1>4, <1>5 DEF Report, TypeOK, driver, loop

LEMMA SendTypes ==
  ASSUME TypeOK, MouseSends \/ KeyboardSends
  PROVE  TypeOK'
<1>1. CASE MouseSends
  <2>1. /\ Head(wire) \in Byte /\ Tail(wire) \in Seq(Byte)
        /\ Len(Tail(wire)) = Len(wire) - 1 /\ Len(wire) \in Nat
    BY <1>1 DEF MouseSends, TypeOK
  <2>2. QED
    BY <1>1, <2>1 DEF MouseSends, TypeOK, driver, loop, history
<1>2. CASE KeyboardSends
  BY <1>2, InputAssumption DEF KeyboardSends, TypeOK, driver, loop, history, Byte
<1>3. QED
  BY <1>1, <1>2

LEMMA HandlerTypes ==
  ASSUME TypeOK, Handler
  PROVE  TypeOK'
<1>1. CASE IrqEmpty
  BY <1>1 DEF IrqEmpty, TypeOK, driver, loop
<1>2. ASSUME Taken
      PROVE  /\ irq' \in BOOLEAN /\ polled' \in BOOLEAN /\ pc' = pc /\ clicked' = clicked
             /\ buffer' \in [full : BOOLEAN, byte : Byte, from : {"mouse", "keyboard", "nobody"}]
  BY <1>2, EmptiedTypes DEF Taken, TypeOK, loop
<1>3. ASSUME Keep(FALSE) \/ Keep(buffer.from = "mouse")
      PROVE  hand' \in Place /\ intact' \in BOOLEAN /\ narrow' \in BOOLEAN /\ owed' \in 0..MaxOwed
  <2>1. (buffer.from = "mouse") \in BOOLEAN
    OBVIOUS
  <2>2. QED
    BY <1>3, <2>1, KeepTypes
<1>5. CASE IrqBat
  BY <1>2, <1>3, <1>5 DEF IrqBat, TypeOK
<1>6. CASE IrqInit
  <2>1. wire' \in Seq(Byte) /\ Len(wire') <= 3
    BY <1>6, LeftoverTypes DEF IrqInit
  <2>2. QED
    BY <1>3, <1>6, <2>1, EmptiedTypes DEF IrqInit, TypeOK, driver, loop
<1>7. CASE IrqAck
  BY <1>2, <1>3, <1>7 DEF IrqAck, TypeOK, driver
<1>8. CASE IrqByte
  <2>1. packet' \in Seq(Byte) /\ Len(packet') <= 2
    BY <1>8 DEF IrqByte, TypeOK
  <2>2. QED
    BY <1>2, <1>3, <1>8, <2>1 DEF IrqByte, TypeOK
<1>9. CASE IrqBad
  BY <1>2, <1>3, <1>9 DEF IrqBad, TypeOK
<1>10. CASE IrqPacket
  <2> DEFINE left == Bit(packet[1], 1)
             dx == Signed(packet[2])
             dy == Signed(buffer.byte)
  <2>1. left \in BOOLEAN /\ dx \in Int /\ dy \in Int
    <3>1. packet \in Seq(Byte) /\ Len(packet) = 2 /\ buffer.byte \in Byte
      BY <1>10 DEF IrqPacket, TypeOK
    <3>2. packet[2] \in Byte
      BY <3>1, ElementOfSeq
    <3>3. QED
      BY <3>1, <3>2, SignedInt DEF Bit
  <2>2. Moved(pointer, left, dx, dy) \in Place
    BY <2>1, OnScreen DEF TypeOK
  <2>3. pointer' \in Place /\ latch' \in BOOLEAN
    BY <1>10, <2>2 DEF IrqPacket, TypeOK
  <2>4. packet' = <<>> /\ Keep(buffer.from = "mouse") /\ UNCHANGED <<wire, discarded>> /\ Taken
    BY <1>10 DEF IrqPacket
  <2>5. QED
    BY <1>2, <1>3, <2>3, <2>4 DEF TypeOK
<1>11. QED
  BY <1>1, <1>5, <1>6, <1>7, <1>8, <1>9, <1>10 DEF Handler

LEMMA LoopTypes ==
  ASSUME TypeOK, Loop
  PROVE  TypeOK'
<1>1. CASE PollStatus
  BY <1>1 DEF PollStatus, TypeOK, device, driver, history
<1>2. CASE PollRead
  <2>1. PICK theft \in BOOLEAN : polled' = (polled \/ theft) /\ Keep(~theft)
    BY <1>2 DEF PollRead, TypeOK
  <2>2. /\ hand' \in Place /\ intact' \in BOOLEAN /\ narrow' \in BOOLEAN /\ owed' \in 0..MaxOwed
        /\ polled' \in BOOLEAN
    BY <2>1, KeepTypes DEF TypeOK
  <2>3. QED
    BY <1>2, <2>2, EmptiedTypes DEF PollRead, TypeOK, driver
<1>3. CASE ConsumeLoad
  BY <1>3 DEF ConsumeLoad, TypeOK, device, driver, history
<1>4. CASE ConsumeStore
  <2>1. owed' \in 0..MaxOwed
    BY <1>4 DEF ConsumeStore, Spent, TypeOK, MaxOwed
  <2>2. QED
    BY <1>4, <2>1 DEF ConsumeStore, TypeOK, device
<1>5. QED
  BY <1>1, <1>2, <1>3, <1>4 DEF Loop

LEMMA NextTypes ==
  ASSUME TypeOK, [Next]_vars
  PROVE  TypeOK'
<1>1. CASE UNCHANGED vars
  BY <1>1 DEF vars, TypeOK
<1>2. QED
  BY <1>1, ReportTypes, SendTypes, HandlerTypes, LoopTypes DEF Next

(* Every byte on its way is a byte, the pointer stays on the screen, and the*)
(* parser never holds three bytes (mouse_irq_handler).                      *)
THEOREM TypeCorrect == Spec => []TypeOK
<1>1. Init => TypeOK
  BY InitTypes
<1>2. TypeOK /\ [Next]_vars => TypeOK'
  BY NextTypes
<1>3. QED
  BY <1>1, <1>2, PTL DEF Spec

-----------------------------------------------------------------------------
\* What a step keeps of the interrupts.
LEMMA NextIrq ==
  ASSUME TypeOK, IrqInv, [Next]_vars
  PROVE  IrqInv'
<1> USE DEF IrqInv, Waiting
<1>1. CASE UNCHANGED vars
  BY <1>1 DEF vars
<1>2. CASE Report
  BY <1>2 DEF Report, driver, loop
<1>3. CASE MouseSends
  BY <1>3 DEF MouseSends, driver, loop, history
<1>4. CASE KeyboardSends
  BY <1>4 DEF KeyboardSends, driver, loop, history
<1>5. CASE IrqEmpty
  BY <1>5 DEF IrqEmpty
<1>6. CASE IrqInit
  BY <1>6 DEF IrqInit, Emptied
<1>7. CASE Taken
  BY <1>7 DEF Taken, Emptied
<1>8. CASE PollStatus
  BY <1>8 DEF PollStatus, device, history
<1>9. CASE PollRead
  <2>1. ~Waiting' /\ irq' = irq
    BY <1>9 DEF PollRead, Emptied
  <2>2. Waiting \/ polled => polled'
    BY <1>9 DEF PollRead
  <2>3. QED
    BY <2>1, <2>2
<1>10. CASE ConsumeLoad
  BY <1>10 DEF ConsumeLoad, device, history
<1>11. CASE ConsumeStore
  BY <1>11 DEF ConsumeStore, device
<1>12. QED
  BY <1>1, <1>2, <1>3, <1>4, <1>5, <1>6, <1>7, <1>8, <1>9, <1>10, <1>11
     DEF Next, Handler, Loop, IrqBat, IrqAck, IrqByte, IrqBad, IrqPacket

-----------------------------------------------------------------------------
\* Presses and clicks are counted in numbers.
LEMMA Counts ==
  /\ Standing \in 0..1
  /\ \A was, left : Press(was, left) \in 0..1
  /\ \A a, b, c : Press(a, b) + Press(b, c) \in 0..1
  BY DEF Standing, Press

LEMMA LeftAfter == \A w, p : After(w, p).left = p.left
  BY DEF After, Moved

(* A step that neither moves a byte of the mouse nor the pointer, and takes *)
(* no more from what is owed than from what stands.                         *)
LEMMA HandSame ==
  ASSUME HandInv, UNCHANGED <<packet, wire, pointer>>,
         Waiting' <=> Waiting, Waiting => buffer'.byte = buffer.byte,
         intact' => /\ intact /\ hand' = hand /\ narrow' = narrow
                    /\ owed \in Nat /\ owed' \in Nat /\ Standing' + owed <= owed' + Standing
  PROVE  HandInv'
<1>1. \A e : UnderWay(e) => UnderWay(e)'
  BY DEF UnderWay
<1>2. \A e : Arrived(e) => Arrived(e)'
  BY DEF Arrived
<1>3. Idle => Idle'
  BY DEF Idle
<1> SUFFICES ASSUME intact' PROVE HandInv'
  BY DEF HandInv
<1>4. ASSUME NEW w, NEW n \in Nat, Ahead(w, n)
      PROVE  Ahead(w, n)'
  BY <1>4, Counts DEF Ahead, Standing
<1>5. Ahead(pointer, 0) => Ahead(pointer, 0)'
  <2>1. PICK w : w = pointer
    OBVIOUS
  <2>2. QED
    BY <1>4, <2>1 DEF Ahead
<1>6. ASSUME NEW p \in Packets, AheadOne(p)
      PROVE  AheadOne(p)'
  <2>1. PICK n \in Nat : n = Press(pointer.left, p.left)
    BY Counts
  <2>2. PICK w : w = After(pointer, p)
    OBVIOUS
  <2>3. Ahead(w, n)'
    BY <1>4, <1>6, <2>1, <2>2 DEF AheadOne
  <2>4. w = After(pointer', p) /\ n = Press(pointer'.left, p.left)
    BY <2>1, <2>2
  <2>5. QED
    BY <2>3, <2>4 DEF AheadOne, Ahead
<1>7. ASSUME NEW p \in Packets, NEW q \in Packets, AheadTwo(p, q)
      PROVE  AheadTwo(p, q)'
  <2>1. PICK n \in Nat : n = Press(pointer.left, p.left) + Press(p.left, q.left)
    BY Counts
  <2>2. PICK w : w = After(After(pointer, p), q)
    OBVIOUS
  <2>3. Ahead(w, n)'
    BY <1>4, <1>7, <2>1, <2>2 DEF AheadTwo
  <2>4. /\ w = After(After(pointer', p), q)
        /\ n = Press(pointer'.left, p.left) + Press(p.left, q.left)
    BY <2>1, <2>2
  <2>5. QED
    BY <2>3, <2>4 DEF AheadTwo, Ahead
<1>8. \A p : Fits(p) => Fits(p)'
  BY DEF Fits
<1>9. QED
  BY <1>1, <1>2, <1>3, <1>5, <1>6, <1>7, <1>8 DEF HandInv

\* What a report adds to what is on its way.
LEMMA ReportAhead ==
  ASSUME TypeOK, Report, intact, NEW p \in Packets, NEW w, NEW n \in 0..1,
         Ahead(w, n), n + Press(w.left, p.left) <= 1,
         narrow' = (narrow /\ (intact => Narrow(p))),
         hand' = IF ~intact THEN hand
                 ELSE IF narrow' THEN After(hand, p) ELSE [Start EXCEPT !.left = p.left],
         owed' = IF intact /\ owed < MaxOwed THEN owed + Press(hand.left, p.left) ELSE owed
  PROVE  /\ Ahead(After(w, p), n + Press(w.left, p.left))'
         /\ Fits(p)' /\ (narrow' => narrow)
<1>1. narrow' => narrow /\ Narrow(p)
  BY Zenon
<1>2. hand'.left = After(w, p).left
  BY LeftAfter DEF Start
<1>3. narrow' => hand' = After(w, p)
  BY <1>1 DEF Ahead
<1>4. Standing' = Standing
  BY DEF Report, Standing, driver, loop
<1>5. Standing' + (n + Press(w.left, p.left)) <= owed'
  <2>1. PICK k \in 0..1 : k = Press(w.left, p.left)
    BY Counts
  <2>2. k = Press(hand.left, p.left) /\ Standing + n <= owed
    BY <2>1 DEF Ahead
  <2>3. owed' = IF owed < MaxOwed THEN owed + k ELSE owed
    BY <2>2
  <2>4. PICK s \in 0..1 : s = Standing
    BY Counts
  <2>5. owed \in 0..MaxOwed /\ n + k <= 1
    BY <2>1 DEF TypeOK
  <2>6. s + (n + k) <= owed'
    BY <2>2, <2>3, <2>4, <2>5 DEF MaxOwed
  <2>7. QED
    BY <1>4, <2>1, <2>4, <2>6
<1>6. QED
  BY <1>1, <1>2, <1>3, <1>5 DEF Ahead, Fits

LEMMA ReportHand ==
  ASSUME TypeOK, HandInv, Report
  PROVE  HandInv'
<1>1. PICK p \in Packets :
        /\ wire' = Encoded(p)
        /\ narrow' = (narrow /\ (intact => Narrow(p)))
        /\ hand' = IF ~intact THEN hand
                   ELSE IF narrow' THEN After(hand, p) ELSE [Start EXCEPT !.left = p.left]
        /\ owed' = IF intact /\ owed < MaxOwed THEN owed + Press(hand.left, p.left)
                   ELSE owed
  BY DEF Report, After
<1>2. /\ wire = <<>> /\ packet' = packet /\ pointer' = pointer /\ buffer' = buffer
      /\ intact' = intact
  BY DEF Report, driver
<1>3. PICK e : e = Encoded(p) /\ e = <<e[1], e[2], e[3]>>
  <2>1. PICK e : e = Encoded(p)
    OBVIOUS
  <2>2. e = <<e[1], e[2], e[3]>>
    BY <2>1, Decoded
  <2>3. QED
    BY <2>1, <2>2
<1>4. CASE intact
  <2>1. ASSUME NEW w, NEW n \in 0..1, Ahead(w, n), n + Press(w.left, p.left) <= 1
        PROVE  /\ Ahead(After(w, p), n + Press(w.left, p.left))'
               /\ Fits(p)' /\ (narrow' => narrow)
    BY <1>1, <1>4, <2>1, ReportAhead
  <2>2. CASE Idle /\ Ahead(pointer, 0)
    <3>1. UnderWay(e)'
      BY <1>1, <1>2, <1>3, <2>2 DEF Idle, UnderWay, Waiting
    <3>2. PICK w : w = pointer
      OBVIOUS
    <3>3. PICK k \in 0..1 : k = Press(w.left, p.left)
      BY Counts
    <3>4. Ahead(w, 0) /\ 0 + Press(w.left, p.left) = k
      BY <2>2, <3>2, <3>3 DEF Ahead
    <3>5. Ahead(After(w, p), 0 + Press(w.left, p.left))' /\ Fits(p)'
      BY <2>1, <3>4, <3>3
    <3>6. AheadOne(p)'
      BY <1>2, <3>2, <3>4, <3>5, <3>3 DEF AheadOne, Ahead
    <3>7. QED
      BY <1>3, <3>1, <3>5, <3>6 DEF HandInv
  <2>3. ASSUME NEW q \in Packets, UnderWay(Encoded(q))
        PROVE  FALSE
    BY <1>2, <2>3 DEF UnderWay
  <2>4. ASSUME NEW q \in Packets, Arrived(Encoded(q)), Fits(q), AheadOne(q)
        PROVE  HandInv'
    <3>1. Arrived(Encoded(q))'
      BY <1>2, <2>4 DEF Arrived, Waiting
    <3>2. PICK w : w = After(pointer, q)
      OBVIOUS
    <3>3. PICK n \in 0..1, k \in 0..1 :
            n = Press(pointer.left, q.left) /\ k = Press(q.left, p.left)
      BY Counts
    <3>4. Ahead(w, n) /\ w.left = q.left
      BY <2>4, <3>2, <3>3, LeftAfter DEF AheadOne
    <3>5. n + k <= 1
      <4>1. Press(pointer.left, q.left) + Press(q.left, p.left) \in 0..1
        BY Counts
      <4>2. QED
        BY <3>3, <4>1
    <3>6. Press(w.left, p.left) = k
      BY <3>3, <3>4
    <3>7. Ahead(After(w, p), n + Press(w.left, p.left))' /\ Fits(p)' /\ (narrow' => narrow)
      BY <2>1, <3>4, <3>5, <3>6
    <3>8. AheadTwo(q, p)' /\ Fits(q)'
      BY <1>2, <2>4, <3>2, <3>3, <3>6, <3>7 DEF AheadTwo, Ahead, Fits
    <3>9. QED
      BY <1>1, <3>1, <3>7, <3>8 DEF HandInv
  <2>5. ASSUME NEW q \in Packets, wire = Encoded(q)
        PROVE  FALSE
    <3>1. PICK f : f = Encoded(q)
      OBVIOUS
    <3>2. Len(f) = 3
      BY <3>1, Decoded
    <3>3. QED
      BY <1>2, <2>5, <3>1, <3>2
  <2>6. QED
    BY <1>4, <2>2, <2>3, <2>4, <2>5 DEF HandInv
<1>5. CASE ~intact
  BY <1>2, <1>5 DEF HandInv
<1>6. QED
  BY <1>4, <1>5

LEMMA SendHand ==
  ASSUME TypeOK, HandInv, MouseSends
  PROVE  HandInv'
<1>1. /\ wire # <<>> /\ ~Waiting /\ wire' = Tail(wire)
      /\ Waiting' /\ buffer'.byte = Head(wire)
  BY DEF MouseSends, Waiting
<1>2. /\ packet' = packet /\ pointer' = pointer /\ intact' = intact
      /\ UNCHANGED <<hand, narrow, owed, latch, clicked>>
  BY DEF MouseSends, driver, loop, history
<1>3. ASSUME NEW e, UnderWay(e)
      PROVE  UnderWay(e)' \/ (Arrived(e)' /\ wire' = <<>>)
  <2> USE DEF UnderWay, Arrived
  <2>1. CASE packet = <<>> /\ wire = <<e[1], e[2], e[3]>>
    BY <1>1, <1>2, <2>1, Tuples
  <2>2. CASE packet = <<e[1]>> /\ wire = <<e[2], e[3]>>
    BY <1>1, <1>2, <2>2, Tuples
  <2>3. CASE packet = <<e[1], e[2]>> /\ wire = <<e[3]>>
    BY <1>1, <1>2, <2>3, Tuples
  <2>4. QED
    BY <1>1, <1>3, <2>1, <2>2, <2>3
<1>4. CASE intact
  <2>1. PICK p \in Packets : UnderWay(Encoded(p)) /\ Fits(p) /\ AheadOne(p)
    BY <1>1, <1>4 DEF HandInv, Idle, Arrived
  <2>2. Fits(p)' /\ AheadOne(p)'
    BY <1>2, <2>1 DEF Fits, AheadOne, Ahead, Standing
  <2>3. QED
    BY <1>3, <2>1, <2>2 DEF HandInv
<1>5. CASE ~intact
  BY <1>2, <1>5 DEF HandInv
<1>6. QED
  BY <1>4, <1>5

LEMMA ByteHand ==
  ASSUME TypeOK, HandInv, IrqByte
  PROVE  HandInv'
<1>1. CASE intact'
  <2>1. /\ intact /\ Waiting /\ ~Waiting'
        /\ UNCHANGED <<hand, narrow, owed, latch, clicked>>
        /\ packet' = Append(packet, buffer.byte) /\ Len(packet) < 2
        /\ wire' = wire /\ pointer' = pointer
    BY <1>1 DEF IrqByte, Taken, Keep, Waiting, Emptied, TypeOK, loop
  <2>2. ASSUME NEW e, UnderWay(e)
        PROVE  UnderWay(e)'
    <3> USE DEF UnderWay
    <3>1. CASE packet = <<>> /\ buffer.byte = e[1] /\ wire = <<e[2], e[3]>>
      BY <2>1, <3>1, Tuples
    <3>2. CASE packet = <<e[1]>> /\ buffer.byte = e[2] /\ wire = <<e[3]>>
      BY <2>1, <3>2, AppendTwo
    <3>3. QED
      BY <2>1, <2>2, <3>1, <3>2
  <2>3. \A e : ~Arrived(e)
    BY <2>1 DEF Arrived
  <2>4. PICK p \in Packets : UnderWay(Encoded(p)) /\ Fits(p) /\ AheadOne(p)
    BY <2>1, <2>3 DEF HandInv, Idle
  <2>5. Fits(p)' /\ AheadOne(p)'
    BY <2>1, <2>4 DEF Fits, AheadOne, Ahead, Standing
  <2>6. QED
    BY <2>2, <2>4, <2>5 DEF HandInv
<1>2. QED
  BY <1>1 DEF HandInv

(* The last byte of p: the button is as p says, the pointer as well if the  *)
(* deltas are narrow, and a press on its way becomes one that stands.       *)
LEMMA PacketAhead ==
  ASSUME TypeOK, IrqPacket, intact', NEW p \in Packets, Arrived(Encoded(p)), Fits(p)
  PROVE  /\ pointer'.left = p.left /\ (narrow => pointer' = After(pointer, p))
         /\ Standing' <= Standing + Press(pointer.left, p.left)
<1>1. PICK e : e = Encoded(p)
  OBVIOUS
<1>2. /\ Bit(e[1], 1) = p.left
      /\ Narrow(p) => Signed(e[2]) = p.dx /\ Signed(e[3]) = p.dy
  BY <1>1, Decoded
<1>3. packet[1] = e[1] /\ packet[2] = e[2] /\ buffer.byte = e[3]
  BY <1>1 DEF Arrived
<1>4. /\ pointer' = Moved(pointer, Bit(packet[1], 1), Signed(packet[2]), Signed(buffer.byte))
      /\ latch' = (latch \/ (Bit(packet[1], 1) /\ ~pointer.left))
      /\ clicked' = clicked
  BY DEF IrqPacket, Taken, loop
<1>5. pointer'.left = p.left
  BY <1>2, <1>3, <1>4 DEF Moved
<1>6. narrow => pointer' = After(pointer, p)
  BY <1>2, <1>3, <1>4 DEF After, Fits
<1>7. latch' => latch \/ (p.left /\ ~pointer.left)
  BY <1>2, <1>3, <1>4
<1>8. Standing' <= Standing + Press(pointer.left, p.left)
  BY <1>4, <1>7 DEF Standing, Press
<1>9. QED
  BY <1>5, <1>6, <1>8

LEMMA PacketHand ==
  ASSUME TypeOK, HandInv, IrqPacket
  PROVE  HandInv'
<1>1. CASE intact'
  <2>1. /\ intact /\ Waiting /\ ~Waiting'
        /\ UNCHANGED <<hand, narrow, owed>>
        /\ packet' = <<>> /\ Len(packet) = 2 /\ wire' = wire
    BY <1>1 DEF IrqPacket, Taken, Keep, Waiting, Emptied, TypeOK
  <2>2. ASSUME NEW e, UnderWay(e)
        PROVE  FALSE
    <3>1. packet = <<>> \/ packet = <<e[1]>>
      BY <2>1, <2>2 DEF UnderWay
    <3>2. QED
      BY <2>1, <3>1, Tuples
  <2>3. PICK p \in Packets :
          /\ Arrived(Encoded(p)) /\ Fits(p)
          /\ \/ wire = <<>> /\ AheadOne(p)
             \/ \E q \in Packets : wire = Encoded(q) /\ Fits(q) /\ AheadTwo(p, q)
    BY <2>1, <2>2 DEF HandInv, Idle
  <2>4. /\ pointer'.left = p.left /\ (narrow => pointer' = After(pointer, p))
        /\ Standing' <= Standing + Press(pointer.left, p.left)
    BY <1>1, <2>3, PacketAhead
  <2>5. PICK s \in 0..1, t \in 0..1, k \in 0..1 :
          s = Standing /\ t = Standing' /\ k = Press(pointer.left, p.left)
    <3>1. Standing \in 0..1 /\ Standing' \in 0..1
      BY DEF Standing
    <3>2. QED
      BY <3>1, Counts
  <2>6. t <= s + k /\ owed \in Nat
    BY <2>4, <2>5 DEF TypeOK, MaxOwed
  <2>7. CASE wire = <<>> /\ AheadOne(p)
    <3>1. /\ hand.left = After(pointer, p).left /\ (narrow => hand = After(pointer, p))
          /\ s + k <= owed
      BY <2>5, <2>7 DEF AheadOne, Ahead
    <3>2. t + 0 <= owed
      BY <2>6, <3>1
    <3>3. Ahead(pointer, 0)'
      BY <2>1, <2>4, <2>5, <3>1, <3>2, LeftAfter DEF Ahead
    <3>4. Idle'
      BY <2>1, <2>7 DEF Idle
    <3>5. QED
      BY <3>3, <3>4 DEF HandInv
  <2>8. ASSUME NEW q \in Packets, wire = Encoded(q), Fits(q), AheadTwo(p, q)
        PROVE  HandInv'
    <3>1. PICK e : e = Encoded(q) /\ e = <<e[1], e[2], e[3]>>
      <4>1. PICK e : e = Encoded(q)
        OBVIOUS
      <4>2. e = <<e[1], e[2], e[3]>>
        BY <4>1, Decoded
      <4>3. QED
        BY <4>1, <4>2
    <3>2. UnderWay(e)'
      BY <2>1, <2>8, <3>1 DEF UnderWay
    <3>3. PICK m \in 0..1 : m = Press(p.left, q.left)
      BY Counts
    <3>4. /\ hand.left = After(After(pointer, p), q).left
          /\ narrow => hand = After(After(pointer, p), q)
          /\ s + (k + m) <= owed
      BY <2>5, <2>8, <3>3 DEF AheadTwo, Ahead
    <3>5. t + m <= owed
      BY <2>6, <3>4
    <3>6. hand'.left = After(pointer', q).left /\ (narrow' => hand' = After(pointer', q))
      BY <2>1, <2>4, <3>4, LeftAfter
    <3>7. AheadOne(q)'
      BY <2>1, <2>4, <2>5, <3>3, <3>5, <3>6 DEF AheadOne, Ahead
    <3>8. Fits(q)'
      BY <2>1, <2>8 DEF Fits
    <3>9. QED
      BY <3>1, <3>2, <3>7, <3>8 DEF HandInv
  <2>9. QED
    BY <2>3, <2>7, <2>8
<1>2. QED
  BY <1>1 DEF HandInv

LEMMA NextHand ==
  ASSUME TypeOK, HandInv, [Next]_vars
  PROVE  HandInv'
<1>1. owed \in Nat /\ owed' \in Nat
  BY NextTypes DEF TypeOK, MaxOwed
<1>2. CASE UNCHANGED vars \/ KeyboardSends \/ IrqEmpty \/ PollStatus
  <2>1. /\ UNCHANGED <<packet, wire, pointer, intact, hand, narrow, owed, latch, clicked>>
        /\ buffer' = buffer \/ KeyboardSends
    BY <1>2 DEF vars, KeyboardSends, IrqEmpty, PollStatus, device, driver, loop, history
  <2>2. Standing' = Standing
    BY <2>1 DEF Standing
  <2>3. (Waiting' <=> Waiting) /\ (Waiting => buffer'.byte = buffer.byte)
    BY <2>1 DEF KeyboardSends, Waiting
  <2>4. Standing' + owed <= owed' + Standing
    BY <1>1, <2>1, <2>2, Counts
  <2>5. QED
    BY <1>1, <2>1, <2>3, <2>4, HandSame
<1>3. CASE IrqBat \/ IrqInit \/ IrqAck \/ IrqBad
  <2>1. ~intact'
    BY <1>3 DEF IrqBat, IrqInit, IrqAck, IrqBad, Keep
  <2>2. QED
    BY <2>1 DEF HandInv
<1>4. CASE PollRead
  <2>1. CASE intact'
    <3>1. PICK theft \in BOOLEAN : theft = Waiting /\ Keep(~theft)
      BY <1>4 DEF PollRead, Waiting, TypeOK
    <3>2. /\ ~Waiting /\ ~Waiting' /\ intact /\ hand' = hand /\ owed' = owed
          /\ narrow' = narrow
      BY <1>4, <2>1, <3>1 DEF PollRead, Waiting, Emptied, Keep, TypeOK
    <3>3. UNCHANGED <<packet, wire, pointer>> /\ Standing' = Standing
      BY <1>4 DEF PollRead, driver, Standing
    <3>4. Standing' + owed <= owed' + Standing
      BY <1>1, <3>2, <3>3, Counts
    <3>5. QED
      BY <1>1, <3>2, <3>3, <3>4, HandSame
  <2>2. QED
    BY <2>1 DEF HandInv
<1>5. CASE ConsumeLoad \/ ConsumeStore
  <2>1. UNCHANGED <<packet, wire, pointer, buffer, intact, hand, narrow>>
    BY <1>5 DEF ConsumeLoad, ConsumeStore, device, driver, history
  <2>2. Standing' + owed <= owed' + Standing
    <3>1. CASE ConsumeLoad
      BY <1>1, <3>1 DEF ConsumeLoad, Standing, driver, history
    <3>2. CASE ConsumeStore
      BY <1>1, <3>2 DEF ConsumeStore, Standing, Spent
    <3>3. QED
      BY <1>5, <3>1, <3>2
  <2>3. QED
    BY <1>1, <2>1, <2>2, HandSame DEF Waiting
<1>6. QED
  BY <1>2, <1>3, <1>4, <1>5, ReportHand, SendHand, ByteHand, PacketHand
     DEF Next, Handler, Loop

-----------------------------------------------------------------------------
LEMMA InitIInv ==
  ASSUME Init
  PROVE  IInv
<1>1. IrqInv
  BY DEF Init, IrqInv, Waiting, Emptied
<1>2. HandInv
  <2>1. ~Waiting /\ packet = <<>> /\ (intact => wire = <<>>)
    BY DEF Init, Waiting, Emptied
  <2>2. Ahead(pointer, 0)
    BY DEF Init, Ahead, Standing
  <2>3. QED
    BY <2>1, <2>2 DEF HandInv, Idle
<1>3. QED
  BY <1>1, <1>2, InitTypes DEF IInv

LEMMA Invariance == Spec => []IInv
<1>1. Init => IInv
  BY InitIInv
<1>2. IInv /\ [Next]_vars => IInv'
  BY NextTypes, NextHand, NextIrq DEF IInv
<1>3. QED
  BY <1>1, <1>2, PTL DEF Spec

(* However the bytes of the mouse, the interrupts and the loop's polls      *)
(* interleave: while no byte has gone astray, no delta has needed its ninth *)
(* bit and no byte waits, the pointer is where the reports put it           *)
(* (mouse_irq_handler).                                                     *)
THEOREM PointerWhereReported == Spec => []PointerFollows
<1>1. IInv => PointerFollows
  <2> SUFFICES ASSUME IInv, intact, narrow, wire = <<>>, ~Waiting
               PROVE  pointer = hand
    BY DEF PointerFollows, Waiting
  <2>1. ASSUME NEW e
        PROVE  ~UnderWay(e) /\ ~Arrived(e)
    BY DEF UnderWay, Arrived
  <2>2. QED
    BY <2>1 DEF IInv, HandInv, Ahead
<1>2. QED
  BY <1>1, Invariance, PTL

(* While no byte has gone astray, the desktop gets at most one click for    *)
(* each press that the mouse has reported, wherever IRQ 12 struck between   *)
(* the load and the store of mouse_consume_left_click.                      *)
THEOREM ClicksArePresses == Spec => []NoPhantomClick
<1>1. IInv => NoPhantomClick
  <2> SUFFICES ASSUME IInv, intact, latch \/ clicked
               PROVE  owed > 0
    BY DEF NoPhantomClick
  <2>1. Standing = 1 /\ owed \in Nat
    BY DEF Standing, IInv, TypeOK, MaxOwed
  <2>2. ASSUME NEW w, NEW n \in Nat, Ahead(w, n)
        PROVE  owed > 0
    BY <2>1, <2>2 DEF Ahead
  <2>3. ASSUME NEW p, AheadOne(p)
        PROVE  owed > 0
    <3>1. PICK n \in Nat : n = Press(pointer.left, p.left)
      BY Counts
    <3>2. PICK w : w = After(pointer, p)
      OBVIOUS
    <3>3. QED
      BY <2>2, <2>3, <3>1, <3>2 DEF AheadOne
  <2>4. ASSUME NEW p, NEW q, AheadTwo(p, q)
        PROVE  owed > 0
    <3>1. PICK n \in Nat : n = Press(pointer.left, p.left) + Press(p.left, q.left)
      BY Counts
    <3>2. PICK w : w = After(After(pointer, p), q)
      OBVIOUS
    <3>3. QED
      BY <2>2, <2>4, <3>1, <3>2 DEF AheadTwo
  <2>5. Ahead(pointer, 0) => owed > 0
    BY <2>2
  <2>6. QED
    BY <2>3, <2>4, <2>5 DEF IInv, HandInv
<1>2. QED
  BY <1>1, Invariance, PTL

(* The driver of the mouse takes a byte of the keyboard for its own only on *)
(* an interrupt that is left over from a byte that was polled               *)
(* (mouse_irq_handler, mouse_device_init, is_key_pressed).                  *)
THEOREM KeysSafeButForPolling == Spec => KeyEatenOnlyForPolled
<1>1. IInv /\ [Next]_vars =>
        [Handler /\ buffer.full /\ buffer.from = "keyboard" => polled]_vars
  <2> SUFFICES ASSUME IInv, Handler, buffer.full, buffer.from = "keyboard"
               PROVE  polled
    OBVIOUS
  <2>1. irq
    BY DEF Handler, IrqEmpty, IrqBat, IrqInit, IrqAck, IrqByte, IrqBad, IrqPacket, Taken
  <2>2. QED
    BY <2>1 DEF IInv, IrqInv, Waiting
<1>2. QED
  BY <1>1, Invariance, PTL DEF Spec, KeyEatenOnlyForPolled
=============================================================================
