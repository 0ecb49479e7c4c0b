------------------------------ MODULE Windows ------------------------------
(****************************************************************************)
(* The window API of apps/OS/API/Grapich/windows.c: a fixed array of window *)
(* slots, a mailbox for one posted message and the request to quit.  It has *)
(* no thread of its own; its functions are parts of the steps of those who  *)
(* call them.  What only concerns drawing (bounds, titles, ShowWindow) is   *)
(* left out; of its class a window keeps whose callback it names.           *)
(****************************************************************************)
EXTENDS Naturals, FiniteSets

CONSTANTS
  MaxWindows,   \* OS_MAX_WINDOWS
  Owners,       \* the classes, each with one callback
  Empty         \* a slot with in_use = 0, and a mailbox with no message

ASSUME WindowsAssumption ==
  /\ MaxWindows \in Nat \ {0}
  /\ Empty \notin [owner : Owners, serial : Nat]

VARIABLES
  window,    \* slot -> the window in it, as [owner, serial]
  box,       \* g_pending_message, or Empty: [to, what, serial]
  quit,      \* g_quit_requested
  created,   \* history: how many windows were created
  lost,      \* history: a message was put on top of one nobody had read
  foreign,   \* history: a window got a message that was posted to another
  careless   \* history: a window was destroyed with a message to it pending

winVars == <<window, box, quit, created, lost, foreign, careless>>

Slots == 1..MaxWindows

Window == [owner : Owners, serial : Nat]

\* is_valid_window
Valid(w) == window[w] # Empty

\* A mutant of FreeSlots: in_use is not looked at, but for the first slot.
FreeSlotsAny == Slots \ {1}

FreeSlots == {w \in Slots : ~Valid(w)}

(* CreateWindowEx: the first free slot, which is w.  The slot may have been *)
(* another window's, and a message to that one still be pending.            *)
CreateWindowEx(o, w) ==
  /\ w \in FreeSlots /\ \A v \in FreeSlots : w <= v
  /\ window' = [window EXCEPT ![w] = [owner |-> o, serial |-> created]]
  /\ created' = created + 1
  /\ UNCHANGED <<box, quit, lost, foreign, careless>>

\* DestroyWindow: the slot is wiped.  No message is sent and none withdrawn.
DestroyWindow(w) ==
  /\ Valid(w)
  /\ window' = [window EXCEPT ![w] = Empty]
  /\ careless' = (careless \/ (box # Empty /\ box.to = w))
  /\ UNCHANGED <<box, quit, created, lost, foreign>>

\* PostMessage asks neither whether w is valid nor whether the box is empty.
PostMessage(w, what) ==
  /\ box' = [to |-> w, what |-> what,
             serial |-> IF Valid(w) THEN window[w].serial ELSE created]
  /\ lost' = (lost \/ box # Empty)
  /\ UNCHANGED <<window, quit, created, foreign, careless>>

(* GetMessage with a message there; DispatchMessage gives it to whoever is  *)
(* in that slot by now, if anybody is.                                      *)
Read ==
  /\ box' = Empty
  /\ foreign' = (foreign \/ (Valid(box.to) /\ window[box.to].serial # box.serial))
  /\ UNCHANGED <<window, quit, created, lost, careless>>

\* PostQuitMessage.  Nothing takes it back.
PostQuitMessage ==
  /\ quit' = TRUE
  /\ UNCHANGED <<window, box, created, lost, foreign, careless>>
=============================================================================
