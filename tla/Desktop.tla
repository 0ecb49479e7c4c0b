------------------------------ MODULE Desktop ------------------------------
(****************************************************************************)
(* The desktop, apps/OS/OS.c: its main loop, its window's callback and the  *)
(* Sleep of src/drivers/rtc.c in front of a shutdown, on top of the window  *)
(* API.  All of it is one thread; what varies is the user, the clock and an *)
(* application.                                                             *)
(*                                                                          *)
(* The application (external: the repository has the API for one, and none  *)
(* that uses it) has a callback that runs when a message to one of its      *)
(* windows is dispatched.  It makes any calls, in any order and as often as *)
(* it likes, on windows of its own.                                         *)
(****************************************************************************)
EXTENDS Windows, Integers

CONSTANTS
  Titles,       \* "Console", "Task Manager", "Settings", "End Session" and Ends
  Ends,         \* the rows "Shut Down" and "Restart"
  Starts,       \* the seconds at which somebody chooses one of these
  SleepFor,     \* how long the last message stays on the screen: 2
  Parts,        \* how many parts of a second are told apart
  MaxCreated,   \* bound: how many windows are ever created
  MaxTicks      \* bound: how many updates of the clock a Sleep is followed

ASSUME DesktopAssumption ==
  /\ Owners = {"desktop", "application"}
  /\ Ends \subseteq Titles /\ Starts \subseteq 0..59
  /\ Titles \cap {"None", "ESC", "other", "released", "posted"} = {}
  /\ SleepFor \in 1..59 /\ MaxTicks \in SleepFor..59
  /\ MaxWindows > 1 /\ MaxCreated \in Nat \ {0, 1} /\ Parts \in Nat \ {0}

VARIABLES
  pc,       \* where the loop is
  menu,     \* start_menu_open
  active,   \* active_window_title; "None" when active_window_open is FALSE
  said,     \* the application has posted a message in this run of its callback
  eager,    \* history: it has posted twice in one run
  start,    \* Sleep's start
  clock,    \* the seconds in the RTC, as it keeps them: BCD
  phase,    \* the parts of a second since the RTC last moved
  from,     \* history: phase when Sleep was called
  passed,   \* history: how often the RTC has moved since then
  looked    \* Sleep has looked at the clock in this part of a second

sleepVars == <<start, clock, phase, from, passed, looked>>

vars == <<winVars, pc, menu, active, said, eager, sleepVars>>

\* g_main_window
Main == 1

(* Where a click can land.  The start button, the menu and the close button *)
(* do not overlap; the menu has a row for each title.                       *)
Places == {"start button", "close button", "elsewhere"} \cup Titles

\* C, T, S, E, D, R; Escape; a key without a meaning; a key that is let go.
Keys == Titles \cup {"ESC", "other", "released"}

-----------------------------------------------------------------------------
Bcd(s) == (s \div 10) * 16 + (s % 10)

\* A mutant of Binary: the byte is taken as it is.
BinaryPlain(b) == b

\* bcd_to_binary
Binary(b) == (b \div 16) * 10 + (b % 16)

\* get_seconds
Seconds == Binary(clock)

\* A mutant of Elapsed: nothing is done about the end of the minute.
ElapsedPlain(first, to) == IF to < first THEN 0 ELSE to - first

\* The seconds from one reading to the next, in Sleep.
Elapsed(first, to) == IF to < first THEN (60 - first) + to ELSE to - first

\* main, up to its loop, and an application that has got as far as a message.
Init ==
  /\ window = [w \in Slots |->
       IF w = Main THEN [owner |-> "desktop", serial |-> 0]
       ELSE IF w = 2 THEN [owner |-> "application", serial |-> 1]
       ELSE Empty]
  /\ created = 2
  /\ box = [to |-> 2, what |-> "posted", serial |-> 1]
  /\ quit = FALSE /\ lost = FALSE /\ foreign = FALSE /\ careless = FALSE
  /\ pc = "get" /\ menu = FALSE /\ active = "None" /\ said = FALSE /\ eager = FALSE
  /\ start = 0 /\ clock = 0 /\ phase = 0 /\ from = 0 /\ passed = 0 /\ looked = FALSE

-----------------------------------------------------------------------------
\* The loop looks for a key.  A released one is not posted.
Poll ==
  /\ pc = "poll" /\ pc' = "mouse"
  /\ \/ UNCHANGED winVars
     \/ \E k \in Keys \ {"released"} : PostMessage(Main, k)
  /\ UNCHANGED <<menu, active, said, eager, sleepVars>>

NoClick ==
  /\ pc = "mouse" /\ pc' = "get"
  /\ UNCHANGED <<winVars, menu, active, said, eager, sleepVars>>

\* process_mouse, and WM_LBUTTONDOWN in desktop_wnd_proc.
Click(place) ==
  /\ pc = "mouse" /\ Valid(Main) /\ pc' = "get"
  /\ \/ place = "start button" /\ menu' = ~menu /\ active' = active
     \/ place = "close button" /\ menu' = FALSE /\ active' = "None"
     \/ place = "elsewhere" /\ menu' = FALSE /\ active' = active
     \/ place \in Titles /\ ~menu /\ UNCHANGED <<menu, active>>
     \/ /\ place \in Titles \ Ends /\ menu
        /\ menu' = FALSE /\ active' = place
  /\ UNCHANGED <<winVars, said, eager, sleepVars>>

(* choose_menu_option calls show_shutdown_message, and that Sleep, at any   *)
(* moment of the clock's second.                                            *)
ChooseEnd(place) ==
  /\ pc = "mouse" /\ Valid(Main) /\ menu /\ place \in Ends
  /\ pc' = "sleep"
  /\ \E s \in Starts : start' = s /\ clock' = Bcd(s)
  /\ phase' \in 0..(Parts - 1) /\ from' = phase'
  /\ passed' = 0 /\ looked' = FALSE
  /\ UNCHANGED <<winVars, menu, active, said, eager>>

\* WM_KEYDOWN in desktop_wnd_proc.
Pressed(k) ==
  active' = IF k \in Titles THEN k ELSE IF k = "ESC" THEN "None" ELSE active

\* A mutant of Drained: while the menu is open no message is read.
DrainedModal == quit \/ box = Empty \/ menu

\* GetMessage returns FALSE, or WM_NULL.
Drained == quit \/ box = Empty

\* A mutant of GetNothing: WM_NULL does not end the loop.
GetNothingAgain ==
  /\ pc = "get" /\ Drained /\ pc' = IF quit THEN "paint" ELSE "get"
  /\ UNCHANGED <<winVars, menu, active, said, eager, sleepVars>>

GetNothing ==
  /\ pc = "get" /\ Drained /\ pc' = "paint"
  /\ UNCHANGED <<winVars, menu, active, said, eager, sleepVars>>

\* GetMessage returns a message and DispatchMessage finds the callback.
GetOne ==
  /\ pc = "get" /\ ~Drained
  /\ Read
  /\ \/ /\ Valid(box.to) /\ window[box.to].owner = "desktop"
        /\ Pressed(box.what) /\ UNCHANGED <<pc, said>>
     \/ /\ Valid(box.to) /\ window[box.to].owner = "application"
        /\ pc' = "application" /\ said' = FALSE /\ UNCHANGED active
     \/ ~Valid(box.to) /\ UNCHANGED <<pc, active, said>>
  /\ UNCHANGED <<menu, eager, sleepVars>>

\* WM_PAINT, the cursor, and thread_yield: there is no other thread.
Paint ==
  /\ pc = "paint" /\ pc' = "poll"
  /\ UNCHANGED <<winVars, menu, active, said, eager, sleepVars>>

-----------------------------------------------------------------------------
Own == {w \in Slots : Valid(w) /\ window[w].owner = "application"}

Inside == pc = "application" /\ UNCHANGED <<menu, active, sleepVars>>

AppPost ==
  /\ Inside /\ said' = TRUE /\ eager' = (eager \/ said)
  /\ \E w \in Own : PostMessage(w, "posted")
  /\ UNCHANGED pc

AppCreate ==
  /\ Inside /\ created < MaxCreated
  /\ \E w \in FreeSlots : CreateWindowEx("application", w)
  /\ UNCHANGED <<pc, said, eager>>

AppDestroy ==
  /\ Inside
  /\ \E w \in Own : DestroyWindow(w)
  /\ UNCHANGED <<pc, said, eager>>

AppQuit ==
  /\ Inside /\ PostQuitMessage
  /\ UNCHANGED <<pc, said, eager>>

\* A mutant of AppReturn: the loop reads one message in each of its turns.
AppReturnToPaint ==
  /\ Inside /\ pc' = "paint"
  /\ UNCHANGED <<winVars, said, eager>>

AppReturn ==
  /\ Inside /\ pc' = "get"
  /\ UNCHANGED <<winVars, said, eager>>

-----------------------------------------------------------------------------
(* A part of a second goes by; with the last one the RTC moves.  The loop of*)
(* Sleep is a few instructions long, so it looks at least once in each.     *)
Tick ==
  /\ pc = "sleep" /\ looked /\ passed < MaxTicks
  /\ phase' = (phase + 1) % Parts
  /\ IF phase' = 0 THEN /\ clock' = Bcd((Seconds + 1) % 60)
                        /\ passed' = passed + 1
                   ELSE UNCHANGED <<clock, passed>>
  /\ looked' = FALSE
  /\ UNCHANGED <<winVars, pc, menu, active, said, eager, start, from>>

\* Sleep's loop; after it kernel_shutdown or kernel_restart does not return.
Look ==
  /\ pc = "sleep"
  /\ looked' = TRUE
  /\ pc' = IF Elapsed(start, Seconds) >= SleepFor THEN "off" ELSE "sleep"
  /\ UNCHANGED <<winVars, menu, active, said, eager, start, clock, phase, from, passed>>

Loop ==
  \/ Poll \/ NoClick \/ \E p \in Places : Click(p) \/ ChooseEnd(p)
  \/ GetOne \/ GetNothing \/ Paint \/ Look

Next == Loop \/ AppPost \/ AppCreate \/ AppDestroy \/ AppQuit \/ AppReturn \/ Tick

\* The processor keeps running, the callback comes to an end, the clock moves.
Spec == Init /\ [][Next]_vars /\ WF_vars(Loop) /\ WF_vars(AppReturn) /\ WF_vars(Tick)

-----------------------------------------------------------------------------
Messages == [to : Slots, what : Keys \cup {"posted"}, serial : Nat]

TypeOK ==
  /\ window \in [Slots -> Window \cup {Empty}]
  /\ box \in Messages \cup {Empty}
  /\ {quit, lost, foreign, careless} \subseteq BOOLEAN
  /\ created \in 0..MaxCreated
  /\ pc \in {"poll", "mouse", "get", "application", "paint", "sleep", "off"}
  /\ {menu, said, eager, looked} \subseteq BOOLEAN
  /\ active \in Titles \cup {"None"}
  /\ start \in 0..59 /\ Seconds \in 0..59 /\ passed \in 0..MaxTicks
  /\ phase \in 0..(Parts - 1) /\ from \in 0..(Parts - 1)

(* The mailbox has room for one message, and for the desktop itself that is *)
(* enough: it empties the box before it looks for the next key, also of what*)
(* callbacks post meanwhile.  A message is put on top of an unread one only *)
(* after somebody has asked to quit, or by a callback that posts twice in   *)
(* one run (PostMessage and the loop of main).                              *)
NothingLost == lost => quit \/ eager

(* A window gets a message that was posted to another one only after a      *)
(* window was destroyed with a message to it pending: the slot may be used  *)
(* again by then (CreateWindowEx, DestroyWindow, DispatchMessage).          *)
Addressed == foreign => careless

\* The parts of a second since Sleep was called.
Since == passed * Parts + phase - from

(* What Sleep has measured is within a second of the time that has gone by, *)
(* over the end of a minute too.  The message stays on the screen for more  *)
(* than SleepFor - 1 seconds and at most SleepFor: Sleep "may not be        *)
(* accurate", it counts the second it is called in as a whole one (Sleep,   *)
(* show_shutdown_message).                                                  *)
SleepMeasures ==
  /\ pc = "sleep" => Elapsed(start, Seconds) * Parts - Since \in (1 - Parts)..(Parts - 1)
  /\ pc = "off" => Since \in ((SleepFor - 1) * Parts + 1)..(SleepFor * Parts)

(* A key that was posted is taken from the box, whatever the application    *)
(* does, unless the same turn of the loop switches the machine off or a     *)
(* callback has asked to quit (the loop of main, GetMessage).               *)
KeyHandled == box # Empty /\ box.what \in Keys ~> box = Empty \/ quit \/ pc = "off"

(* The desktop is drawn again and again as long as the machine is on, also  *)
(* after a callback has asked to quit, if the application does not go on    *)
(* posting to itself for ever (the loop of main).                           *)
Paints == <>[][~AppPost]_vars => []<>(pc = "paint" \/ pc = "off")

\* Shut Down and Restart, once chosen, switch the machine off (Sleep, kernel_shutdown).
ShutsDown == pc = "sleep" ~> pc = "off"
=============================================================================
