--------------------------- MODULE DesktopProofs ---------------------------
(****************************************************************************)
(* Theorems about Desktop for any number of window slots, any menu and any  *)
(* application that keeps to what the module says of it.                    *)
(****************************************************************************)
EXTENDS Desktop, TLAPS

-----------------------------------------------------------------------------
\* The desktop's own window stays.
MainInv == window[Main] # Empty /\ window[Main].owner = "desktop"

(* Until somebody asks to quit, or a callback posts twice, the mailbox is   *)
(* empty before the loop polls and in a callback that has not posted yet.   *)
MailInv ==
  \/ quit \/ eager
  \/ /\ ~lost
     /\ pc \in {"poll", "paint"} \/ (pc = "application" /\ ~said) => box = Empty

(* Until a window is destroyed with a message pending, the message's window *)
(* is still the one it was posted to.                                       *)
AddressInv ==
  \/ careless
  \/ /\ ~foreign
     /\ box # Empty => /\ box.to \in Slots /\ window[box.to] # Empty
                       /\ window[box.to].serial = box.serial

(* The clock shows the start and the seconds that have passed since.  Sleep *)
(* ends in the first part of a second in which enough have.                 *)
SleepInv ==
  /\ pc = "sleep" => /\ Seconds = (start + passed) % 60
                     /\ passed < SleepFor \/ (passed = SleepFor /\ phase = 0 /\ ~looked)
  /\ pc = "off" => passed = SleepFor /\ phase = 0

DInv == TypeOK /\ MainInv /\ MailInv /\ AddressInv /\ SleepInv

-----------------------------------------------------------------------------
\* BCD and back.
LEMMA BinaryOfBcd ==
  ASSUME NEW s \in 0..59
  PROVE  Binary(Bcd(s)) = s
<1>1. s \div 10 \in 0..5 /\ s % 10 \in 0..9 /\ s = 10 * (s \div 10) + (s % 10)
  OBVIOUS
<1>2. \A a \in 0..5, b \in 0..9 : (a * 16 + b) \div 16 = a /\ (a * 16 + b) % 16 = b
  OBVIOUS
<1>3. (Bcd(s) \div 16) = s \div 10 /\ (Bcd(s) % 16) = s % 10
  BY <1>1, <1>2 DEF Bcd
<1>4. QED
  BY <1>1, <1>3 DEF Binary

\* Sleep's subtraction is right as long as less than a minute has passed.
LEMMA ElapsedIsPassed ==
  ASSUME NEW s \in 0..59, NEW p \in 0..59
  PROVE  Elapsed(s, (s + p) % 60) = p
<1>1. CASE s + p < 60
  BY <1>1 DEF Elapsed
<1>2. CASE s + p >= 60
  BY <1>2 DEF Elapsed
<1>3. QED
  BY <1>1, <1>2

\* The parts of a second go round.
LEMMA NextPhase ==
  ASSUME NEW m \in Nat \ {0}, NEW p \in 0..(m - 1)
  PROVE  /\ (p + 1) % m \in 0..(m - 1)
         /\ (p + 1) % m = IF p = m - 1 THEN 0 ELSE p + 1
<1>1. CASE p = m - 1
  BY <1>1
<1>2. CASE p < m - 1
  BY <1>2
<1>3. QED
  BY <1>1, <1>2

LEMMA Slots12 == Slots \subseteq Nat /\ 1 \in Slots /\ 2 \in Slots
  BY WindowsAssumption, DesktopAssumption DEF Slots

LEMMA InitDInv == Init => DInv
<1> SUFFICES ASSUME Init PROVE DInv
  OBVIOUS
<1>1. /\ [owner |-> "desktop", serial |-> 0] \in Window
      /\ [owner |-> "application", serial |-> 1] \in Window
      /\ Empty \notin Window
  BY WindowsAssumption, DesktopAssumption DEF Window
<1>2. window \in [Slots -> Window \cup {Empty}]
  BY <1>1 DEF Init
<1>3. box \in Messages
  BY Slots12 DEF Init, Messages
<1>4. window[1] = [owner |-> "desktop", serial |-> 0]
      /\ window[2] = [owner |-> "application", serial |-> 1]
  BY Slots12 DEF Init, Main
<1>5. Seconds \in 0..59
  BY DEF Init, Seconds, Binary
<1>6. TypeOK
  <2>1. /\ passed \in 0..MaxTicks /\ created \in 0..MaxCreated
        /\ phase \in 0..(Parts - 1) /\ from \in 0..(Parts - 1)
    BY DesktopAssumption DEF Init
  <2>2. /\ {quit, lost, foreign, careless} \subseteq BOOLEAN
        /\ {menu, said, eager, looked} \subseteq BOOLEAN
    BY DEF Init
  <2>3. /\ pc \in {"poll", "mouse", "get", "application", "paint", "sleep", "off"}
        /\ active \in Titles \cup {"None"} /\ start \in 0..59
    BY DEF Init
  <2>4. QED
    BY <1>2, <1>3, <1>5, <2>1, <2>2, <2>3 DEF TypeOK
<1>7. MainInv
  BY <1>1, <1>4 DEF MainInv, Main
<1>8. MailInv /\ SleepInv
  BY DEF Init, MailInv, SleepInv
<1>9. AddressInv
  BY <1>1, <1>4, Slots12 DEF Init, AddressInv
<1>10. QED
  BY <1>6, <1>7, <1>8, <1>9 DEF DInv
\* A posted message is one, and its window, if it has one, the one meant.
LEMMA PostType ==
  ASSUME DInv, NEW w \in Slots, NEW what \in Keys \cup {"posted"}, PostMessage(w, what)
  PROVE  /\ box' \in Messages /\ box'.to = w
         /\ window[w] # Empty => box'.serial = window[w].serial
<1>1. window[w] # Empty => window[w].serial \in Nat
  BY DEF DInv, TypeOK, Window
<1>2. created \in Nat
  BY DesktopAssumption DEF DInv, TypeOK
<1>3. QED
  BY <1>1, <1>2 DEF PostMessage, Messages, Valid

\* A message posted to a window that is there is addressed to that window.
LEMMA PostAddressed ==
  ASSUME DInv, NEW w \in Slots, window[w] # Empty,
         NEW what \in Keys \cup {"posted"}, PostMessage(w, what)
  PROVE  AddressInv'
<1>1. box'.to = w /\ box'.serial = window[w].serial
  BY PostType
<1>2. window' = window /\ foreign' = foreign /\ careless' = careless
  BY DEF PostMessage
<1>3. QED
  BY <1>1, <1>2 DEF DInv, AddressInv

LEMMA NextType == DInv /\ [Next]_vars => TypeOK'
<1> SUFFICES ASSUME DInv, [Next]_vars PROVE TypeOK'
  OBVIOUS
<1> USE DEF DInv
<1>1. CASE Poll
  <2>1. CASE UNCHANGED winVars
    BY <1>1, <2>1 DEF Poll, winVars, sleepVars, TypeOK, Seconds
  <2>2. ASSUME NEW k \in Keys \ {"released"}, PostMessage(Main, k)
        PROVE  TypeOK'
    <3>1. box' \in Messages
      BY <2>2, Slots12, PostType DEF Main
    <3>2. lost' \in BOOLEAN
      BY <2>2 DEF PostMessage, TypeOK
    <3>3. QED
      BY <1>1, <2>2, <3>1, <3>2 DEF Poll, PostMessage, sleepVars, TypeOK, Seconds
  <2>3. QED
    BY <1>1, <2>1, <2>2 DEF Poll
<1>2. CASE NoClick \/ GetNothing \/ Paint \/ AppReturn
  BY <1>2 DEF NoClick, GetNothing, Paint, AppReturn, Inside, winVars, sleepVars, TypeOK, Seconds
<1>3. ASSUME NEW p \in Places, Click(p)
      PROVE  TypeOK'
  BY <1>3 DEF Click, winVars, sleepVars, TypeOK, Seconds
<1>4. ASSUME NEW p \in Places, ChooseEnd(p)
      PROVE  TypeOK'
  <2>1. PICK s \in Starts : start' = s /\ clock' = Bcd(s)
    BY <1>4 DEF ChooseEnd
  <2>2. s \in 0..59 /\ Binary(clock') = s
    BY <2>1, DesktopAssumption, BinaryOfBcd
  <2>3. start' \in 0..59 /\ Seconds' \in 0..59
    BY <2>1, <2>2 DEF Seconds
  <2>4. /\ passed' \in 0..MaxTicks
        /\ phase' \in 0..(Parts - 1) /\ from' \in 0..(Parts - 1)
    BY <1>4, DesktopAssumption DEF ChooseEnd
  <2>5. QED
    BY <1>4, <2>3, <2>4 DEF ChooseEnd, winVars, TypeOK
<1>5. CASE GetOne
  <2>1. /\ box' = Empty /\ foreign' \in BOOLEAN
        /\ UNCHANGED <<window, quit, created, lost, careless>>
    BY <1>5 DEF GetOne, Read, TypeOK
  <2>2. /\ pc' \in {"get", "application"} /\ said' \in BOOLEAN
        /\ active' \in Titles \cup {"None"}
    BY <1>5 DEF GetOne, Pressed, TypeOK
  <2>3. UNCHANGED <<menu, eager, sleepVars>>
    BY <1>5 DEF GetOne
  <2>4. QED
    BY <2>1, <2>2, <2>3 DEF sleepVars, TypeOK, Seconds
<1>6. CASE AppPost
  <2>1. PICK w \in Own : PostMessage(w, "posted")
    BY <1>6 DEF AppPost
  <2>2. box' \in Messages /\ lost' \in BOOLEAN /\ said' \in BOOLEAN /\ eager' \in BOOLEAN
    BY <1>6, <2>1, PostType DEF AppPost, Own, PostMessage, TypeOK
  <2>3. QED
    BY <1>6, <2>1, <2>2 DEF AppPost, Inside, PostMessage, sleepVars, TypeOK, Seconds
<1>7. CASE AppCreate
  <2>1. PICK w \in FreeSlots : CreateWindowEx("application", w)
    BY <1>7 DEF AppCreate
  <2>2. created \in Nat /\ created' = created + 1 /\ created' \in 0..MaxCreated
    BY <1>7, <2>1, DesktopAssumption DEF AppCreate, CreateWindowEx, TypeOK
  <2>3. [owner |-> "application", serial |-> created] \in Window
    BY <2>2, DesktopAssumption DEF Window
  <2>4. window' \in [Slots -> Window \cup {Empty}]
    BY <2>1, <2>3 DEF CreateWindowEx, TypeOK
  <2>5. QED
    BY <1>7, <2>1, <2>2, <2>4
       DEF AppCreate, Inside, CreateWindowEx, sleepVars, TypeOK, Seconds
<1>8. CASE AppDestroy
  <2>1. PICK w \in Own : DestroyWindow(w)
    BY <1>8 DEF AppDestroy
  <2>2. window' \in [Slots -> Window \cup {Empty}] /\ careless' \in BOOLEAN
    BY <2>1 DEF DestroyWindow, TypeOK
  <2>3. QED
    BY <1>8, <2>1, <2>2 DEF AppDestroy, Inside, DestroyWindow, sleepVars, TypeOK, Seconds
<1>9. CASE AppQuit
  BY <1>9 DEF AppQuit, Inside, PostQuitMessage, sleepVars, TypeOK, Seconds
<1>10. CASE Tick
  <2>1. (Seconds + 1) % 60 \in 0..59
    BY DEF TypeOK
  <2>2. phase' \in 0..(Parts - 1)
    BY <1>10, DesktopAssumption, NextPhase DEF Tick, TypeOK
  <2>3. CASE phase' = 0
    <3>1. clock' = Bcd((Seconds + 1) % 60) /\ passed' = passed + 1
      BY <1>10, <2>3 DEF Tick
    <3>2. Seconds' \in 0..59
      BY <2>1, <3>1, BinaryOfBcd DEF Seconds
    <3>3. passed' \in 0..MaxTicks
      BY <1>10, <3>1, DesktopAssumption DEF Tick, TypeOK
    <3>4. QED
      BY <1>10, <2>2, <3>2, <3>3 DEF Tick, winVars, TypeOK
  <2>4. CASE phase' # 0
    <3>1. clock' = clock /\ passed' = passed
      BY <1>10, <2>4 DEF Tick
    <3>2. QED
      BY <1>10, <2>2, <3>1 DEF Tick, winVars, TypeOK, Seconds
  <2>5. QED
    BY <2>3, <2>4
<1>11. CASE Look
  BY <1>11 DEF Look, winVars, TypeOK, Seconds
<1>12. CASE UNCHANGED vars
  BY <1>12 DEF vars, winVars, sleepVars, TypeOK, Seconds
<1>13. QED
  BY <1>1, <1>2, <1>3, <1>4, <1>5, <1>6, <1>7, <1>8, <1>9, <1>10, <1>11, <1>12
     DEF Next, Loop

LEMMA NextMain == DInv /\ [Next]_vars => MainInv'
<1> SUFFICES ASSUME DInv, [Next]_vars PROVE MainInv'
  OBVIOUS
<1> USE DEF DInv
<1>1. CASE window' = window
  BY <1>1 DEF MainInv
<1>2. CASE AppCreate
  <2>1. PICK w \in FreeSlots : CreateWindowEx("application", w)
    BY <1>2 DEF AppCreate
  <2>2. w # Main
    BY DEF MainInv, FreeSlots, Valid
  <2>3. window'[Main] = window[Main]
    BY <2>1, <2>2, Slots12 DEF CreateWindowEx, TypeOK, Main
  <2>4. QED
    BY <2>3 DEF MainInv
<1>3. CASE AppDestroy
  <2>1. PICK w \in Own : DestroyWindow(w)
    BY <1>3 DEF AppDestroy
  <2>2. w # Main
    BY DEF MainInv, Own
  <2>3. window'[Main] = window[Main]
    BY <2>1, <2>2, Slots12 DEF DestroyWindow, TypeOK, Main
  <2>4. QED
    BY <2>3 DEF MainInv
<1>4. window' = window \/ AppCreate \/ AppDestroy
  BY DEF Next, Loop, vars, winVars, Poll, NoClick, Click, ChooseEnd, GetOne, GetNothing, Paint,
         Look, AppPost, AppQuit, AppReturn, Tick, PostMessage, Read, PostQuitMessage
<1>5. QED
  BY <1>1, <1>2, <1>3, <1>4

LEMMA NextMail == DInv /\ [Next]_vars => MailInv'
<1> SUFFICES ASSUME DInv, [Next]_vars, ~quit', ~eager' PROVE MailInv'
  BY DEF MailInv
<1> USE DEF DInv
<1>0. {quit, lost, said, eager} \subseteq BOOLEAN
  BY DEF TypeOK
<1>1. CASE Poll
  <2>1. ~quit /\ ~eager
    BY <1>1 DEF Poll, PostMessage, winVars
  <2>2. ~lost /\ box = Empty
    BY <1>1, <2>1 DEF Poll, MailInv
  <2>3. ~lost'
    BY <1>0, <1>1, <2>2 DEF Poll, PostMessage, winVars
  <2>4. pc' = "mouse"
    BY <1>1 DEF Poll
  <2>5. QED
    BY <2>3, <2>4 DEF MailInv
<1>2. CASE NoClick \/ GetNothing \/ Paint \/ Look \/ AppReturn \/ Tick
  BY <1>2 DEF NoClick, GetNothing, Drained, Paint, Look, AppReturn, Tick, Inside, MailInv, winVars
<1>3. ASSUME NEW p \in Places, Click(p) \/ ChooseEnd(p)
      PROVE  MailInv'
  BY <1>3 DEF Click, ChooseEnd, MailInv, winVars
<1>4. CASE GetOne
  BY <1>4 DEF GetOne, Read, MailInv
<1>5. CASE AppPost
  <2>1. ~quit /\ ~eager /\ pc = "application" /\ ~said /\ pc' = pc /\ said' = TRUE
    BY <1>0, <1>5 DEF AppPost, Inside, PostMessage
  <2>2. ~lost /\ box = Empty
    BY <2>1 DEF MailInv
  <2>3. ~lost'
    BY <1>0, <1>5, <2>2 DEF AppPost, PostMessage
  <2>4. QED
    BY <2>1, <2>3 DEF MailInv
<1>6. CASE AppCreate
  BY <1>6 DEF AppCreate, Inside, CreateWindowEx, MailInv
<1>7. CASE AppDestroy
  BY <1>7 DEF AppDestroy, Inside, DestroyWindow, MailInv
<1>8. CASE AppQuit
  BY <1>8 DEF AppQuit, PostQuitMessage
<1>9. CASE UNCHANGED vars
  BY <1>9 DEF vars, winVars, MailInv
<1>10. QED
  BY <1>1, <1>2, <1>3, <1>4, <1>5, <1>6, <1>7, <1>8, <1>9 DEF Next, Loop

LEMMA NextAddress == DInv /\ [Next]_vars => AddressInv'
<1> SUFFICES ASSUME DInv, [Next]_vars PROVE AddressInv'
  OBVIOUS
<1> USE DEF DInv
<1>1. CASE UNCHANGED <<window, box, foreign, careless>>
  BY <1>1 DEF AddressInv
<1>2. ASSUME NEW k \in Keys, PostMessage(Main, k)
      PROVE  AddressInv'
  BY <1>2, Slots12, PostAddressed DEF Main, MainInv
<1>3. CASE GetOne
  <2>1. box # Empty /\ box' = Empty /\ careless' = careless
    BY <1>3 DEF GetOne, Drained, Read
  <2>2. ~careless => ~foreign'
    BY <1>3, <2>1 DEF GetOne, Read, AddressInv, TypeOK
  <2>3. QED
    BY <2>1, <2>2 DEF AddressInv
<1>4. CASE AppPost
  BY <1>4, PostAddressed DEF AppPost, Own, Valid
<1>5. CASE AppCreate
  <2>1. PICK w \in FreeSlots : CreateWindowEx("application", w)
    BY <1>5 DEF AppCreate
  <2>2. \A v \in Slots : window[v] # Empty => window'[v] = window[v]
    BY <2>1 DEF CreateWindowEx, FreeSlots, Valid, TypeOK
  <2>3. UNCHANGED <<box, foreign, careless>>
    BY <2>1 DEF CreateWindowEx
  <2>4. QED
    BY <2>2, <2>3 DEF AddressInv
<1>6. CASE AppDestroy
  <2>1. PICK w \in Own : DestroyWindow(w)
    BY <1>6 DEF AppDestroy
  <2>2. \A v \in Slots \ {w} : window'[v] = window[v]
    BY <2>1 DEF DestroyWindow, TypeOK
  <2>3. UNCHANGED <<box, foreign>> /\ careless' = (careless \/ (box # Empty /\ box.to = w))
    BY <2>1 DEF DestroyWindow
  <2>4. QED
    BY <2>2, <2>3 DEF AddressInv
<1>7. \/ UNCHANGED <<window, box, foreign, careless>>
      \/ \E k \in Keys : PostMessage(Main, k)
      \/ GetOne \/ AppPost \/ AppCreate \/ AppDestroy
  BY DEF Next, Loop, vars, winVars, Poll, NoClick, Click, ChooseEnd, GetNothing, Paint,
         Look, AppQuit, AppReturn, Tick, PostQuitMessage
<1>8. QED
  BY <1>1, <1>2, <1>3, <1>4, <1>5, <1>6, <1>7

LEMMA NextSleep == DInv /\ [Next]_vars => SleepInv'
<1> SUFFICES ASSUME DInv, [Next]_vars PROVE SleepInv'
  OBVIOUS
<1> USE DEF DInv
<1>0. /\ start \in 0..59 /\ Seconds \in 0..59 /\ passed \in 0..59
      /\ SleepFor \in 1..59 /\ looked \in BOOLEAN
  BY DesktopAssumption DEF TypeOK
<1>1. ASSUME NEW p \in Places, ChooseEnd(p)
      PROVE  SleepInv'
  <2>1. PICK s \in Starts : start' = s /\ clock' = Bcd(s)
    BY <1>1 DEF ChooseEnd
  <2>2. s \in 0..59 /\ Binary(clock') = s
    BY <2>1, DesktopAssumption, BinaryOfBcd
  <2>3. passed' = 0 /\ pc' = "sleep"
    BY <1>1 DEF ChooseEnd
  <2>4. (s + 0) % 60 = s
    BY <2>2
  <2>5. 0 < SleepFor
    BY <1>0
  <2>6. QED
    BY <2>1, <2>2, <2>3, <2>4, <2>5 DEF SleepInv, Seconds
<1>2. CASE Tick
  <2>1. /\ Seconds = (start + passed) % 60 /\ pc' = "sleep" /\ start' = start
        /\ looked' = FALSE /\ passed < SleepFor
    BY <1>2 DEF Tick, SleepInv
  <2>2. CASE phase' = 0
    <3>1. passed' = passed + 1 /\ clock' = Bcd((Seconds + 1) % 60)
      BY <1>2, <2>2 DEF Tick
    <3>2. Seconds' = (Seconds + 1) % 60
      <4>1. (Seconds + 1) % 60 \in 0..59
        BY <1>0
      <4>2. QED
        BY <3>1, <4>1, BinaryOfBcd DEF Seconds
    <3>3. (((start + passed) % 60) + 1) % 60 = (start + (passed + 1)) % 60
      BY <1>0
    <3>4. passed + 1 < SleepFor \/ passed + 1 = SleepFor
      BY <1>0, <2>1
    <3>5. QED
      BY <2>1, <2>2, <3>1, <3>2, <3>3, <3>4 DEF SleepInv
  <2>3. CASE phase' # 0
    <3>1. passed' = passed /\ clock' = clock
      BY <1>2, <2>3 DEF Tick
    <3>2. QED
      BY <2>1, <3>1 DEF SleepInv, Seconds
  <2>4. QED
    BY <2>2, <2>3
<1>3. CASE Look
  <2>1. Elapsed(start, Seconds) = passed
    <3>1. Seconds = (start + passed) % 60
      BY <1>3 DEF Look, SleepInv
    <3>2. Elapsed(start, (start + passed) % 60) = passed
      BY <1>0, ElapsedIsPassed
    <3>3. QED
      BY <3>1, <3>2
  <2>2. UNCHANGED <<start, clock, phase, passed>>
    BY <1>3 DEF Look
  <2>3. pc' = IF passed >= SleepFor THEN "off" ELSE "sleep"
    BY <1>3, <2>1 DEF Look
  <2>4. Seconds' = Seconds
    BY <2>2 DEF Seconds
  <2>5. /\ Seconds = (start + passed) % 60
        /\ passed < SleepFor \/ (passed = SleepFor /\ phase = 0)
    BY <1>3 DEF Look, SleepInv
  <2>6. CASE passed < SleepFor
    <3>1. pc' = "sleep"
      BY <1>0, <2>3, <2>6
    <3>2. QED
      BY <2>2, <2>4, <2>5, <2>6, <3>1 DEF SleepInv
  <2>7. CASE passed = SleepFor /\ phase = 0
    <3>1. pc' = "off"
      BY <1>0, <2>3, <2>7
    <3>2. QED
      BY <2>2, <2>7, <3>1 DEF SleepInv
  <2>8. QED
    BY <2>5, <2>6, <2>7
<1>4. CASE UNCHANGED vars
  BY <1>4 DEF vars, sleepVars, SleepInv, Seconds
<1>5. CASE pc' \notin {"sleep", "off"}
  BY <1>5 DEF SleepInv
<1>6. \/ \E p \in Places : ChooseEnd(p)
      \/ Tick \/ Look \/ UNCHANGED vars \/ pc' \notin {"sleep", "off"}
  <2>1. CASE AppPost \/ AppCreate \/ AppDestroy \/ AppQuit
    BY <2>1 DEF AppPost, AppCreate, AppDestroy, AppQuit, Inside
  <2>2. CASE GetOne
    BY <2>2 DEF GetOne
  <2>3. QED
    BY <2>1, <2>2 DEF Next, Loop, Poll, NoClick, Click, GetNothing, Paint, AppReturn
<1>7. QED
  BY <1>1, <1>2, <1>3, <1>4, <1>5, <1>6

LEMMA NextDInv == DInv /\ [Next]_vars => DInv'
  BY NextType, NextMain, NextMail, NextAddress, NextSleep DEF DInv

-----------------------------------------------------------------------------
\* The fields keep their types; the clock's byte is BCD of a second.
THEOREM TypeCorrect == Spec => []TypeOK
<1>1. DInv => TypeOK
  BY DEF DInv
<1>2. QED
  BY <1>1, InitDInv, NextDInv, PTL DEF Spec

(* A message is lost only if a callback posts twice in one run, or after    *)
(* somebody has asked to quit: the desktop and applications that post once  *)
(* get by with one place in the mailbox (PostMessage and the loop of main). *)
THEOREM MailKept == Spec => []NothingLost
<1>1. DInv => NothingLost
  BY DEF DInv, MailInv, NothingLost
<1>2. QED
  BY <1>1, InitDInv, NextDInv, PTL DEF Spec

(* Whatever is created and destroyed in however many slots: a window gets a *)
(* message meant for another one only after a window was destroyed with a   *)
(* message to it pending (CreateWindowEx, DestroyWindow, DispatchMessage).  *)
THEOREM MailAddressed == Spec => []Addressed
<1>1. DInv => Addressed
  BY DEF DInv, AddressInv, Addressed
<1>2. QED
  BY <1>1, InitDInv, NextDInv, PTL DEF Spec

\* Whole seconds in parts.
LEMMA PartsOf ==
  /\ \A n \in Nat : n * Parts \in Nat
  /\ \A n \in Nat : (n - 1) * Parts = n * Parts - Parts
  BY DesktopAssumption

(* For every second to start at, every moment of that second and every wait *)
(* below a minute, what Sleep measures is less than a second off, and it    *)
(* ends less than a second early and never late (Sleep).                    *)
THEOREM SleepCorrect == Spec => []SleepMeasures
<1>1. DInv => SleepMeasures
  <2> SUFFICES ASSUME DInv PROVE SleepMeasures
    OBVIOUS
  <2>1. /\ start \in 0..59 /\ passed \in 0..59 /\ SleepFor \in 1..59
        /\ phase \in 0..(Parts - 1) /\ from \in 0..(Parts - 1) /\ Parts \in Nat \ {0}
    BY DesktopAssumption DEF DInv, TypeOK
  <2>2. PICK whole \in Nat : whole = passed * Parts
    BY <2>1, PartsOf
  <2>3. Since = whole + phase - from
    BY <2>2 DEF Since
  <2>4. CASE pc = "sleep"
    <3>1. Elapsed(start, Seconds) = passed
      BY <2>1, <2>4, ElapsedIsPassed DEF DInv, SleepInv
    <3>2. whole - Since \in (1 - Parts)..(Parts - 1)
      BY <2>1, <2>3
    <3>3. Elapsed(start, Seconds) * Parts - Since \in (1 - Parts)..(Parts - 1)
      BY <2>2, <3>1, <3>2
    <3>4. QED
      BY <2>4, <3>3 DEF SleepMeasures
  <2>5. CASE pc = "off"
    <3>1. passed = SleepFor /\ phase = 0
      BY <2>5 DEF DInv, SleepInv
    <3>2. SleepFor * Parts = whole /\ (SleepFor - 1) * Parts = whole - Parts
      BY <2>1, <2>2, <3>1, PartsOf
    <3>3. Since \in (whole - Parts + 1)..whole
      BY <2>1, <2>3, <3>1
    <3>4. QED
      BY <2>5, <3>2, <3>3 DEF SleepMeasures
  <2>6. QED
    BY <2>4, <2>5 DEF SleepMeasures
<1>2. QED
  BY <1>1, InitDInv, NextDInv, PTL DEF Spec
============================================================================
