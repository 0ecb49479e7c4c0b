----------------------------- MODULE FileStore -----------------------------
(****************************************************************************)
(* What src/drivers/filesystem.c promises: files with contents, and no      *)
(* sectors, clusters or FAT.  A body is a string of bytes that only grows.  *)
(* A directory entry names a body and how much of it counts; a handle is a  *)
(* copy of the entry, and closing one opened for writing puts the copy back.*)
(* What a body holds where nobody wrote is anything.                        *)
(****************************************************************************)
EXTENDS Naturals, Sequences

CONSTANTS
  Files, Handles,
  Bodies,      \* names of bodies
  NoBody,      \* an entry or handle of a file that never got one
  Bytes,
  Growth,      \* how many bytes a body grows by
  Closed       \* what a handle holds that is not open

VARIABLES
  entry,       \* file -> [first, size]
  body,        \* body -> its bytes, <<>> if it is not in use
  handle,      \* what each handle holds
  got          \* what the last step gave to a reader

vars == <<entry, body, handle, got>>

\* Every entry covers only bytes its body has.
Init ==
  /\ entry \in [Files -> [first : Bodies \cup {NoBody}, size : Nat]]
  /\ body \in [Bodies -> Seq(Bytes)]
  /\ \A f \in Files :
       IF entry[f].first = NoBody THEN entry[f].size = 0
       ELSE entry[f].size <= Len(body[entry[f].first])
  /\ handle = [h \in Handles |-> Closed]
  /\ got = <<>>

Open(h) ==
  /\ \E f \in Files, m \in SUBSET {"read", "write"} :
       handle' = [handle EXCEPT ![h] =
         [valid |-> TRUE, file |-> f, first |-> entry[f].first,
          size |-> entry[f].size, pos |-> 0, mode |-> m]]
  /\ UNCHANGED <<entry, body>>

Seek(h) ==
  /\ handle[h].valid
  /\ handle'[h].pos \in Nat
  /\ handle' = [handle EXCEPT ![h].pos = handle'[h].pos]
  /\ UNCHANGED <<entry, body>>

\* A body nobody has becomes the handle's; nobody else hears of it yet.
Begin(h) ==
  /\ handle[h].valid /\ handle[h].first = NoBody
  /\ \E b \in Bodies :
       /\ handle' = [handle EXCEPT ![h].first = b]
       /\ body[b] = <<>>
       /\ body'[b] \in [1..Growth -> Bytes]
       /\ body' = [body EXCEPT ![b] = body'[b]]
  /\ UNCHANGED entry

Grow(h) ==
  LET b == handle[h].first
      new == SubSeq(body'[b], Len(body[b]) + 1, Len(body'[b]))
  IN  /\ handle[h].valid /\ b # NoBody
      /\ UNCHANGED <<entry, handle>>
      /\ new \in [1..Growth -> Bytes]
      /\ body' = [body EXCEPT ![b] = @ \o new]

\* n bytes of value v at the handle's position.
Put(h, n, v) ==
  LET b == handle[h].first
      p == handle[h].pos
  IN  /\ handle[h].valid /\ "write" \in handle[h].mode /\ b # NoBody
      /\ handle' = [handle EXCEPT ![h].pos = p + n,
                                  ![h].size = IF p + n > @ THEN p + n ELSE @]
      /\ p + n <= Len(body[b])
      /\ body' = [body EXCEPT ![b] =
           [i \in DOMAIN @ |-> IF i \in (p + 1)..(p + n) THEN v ELSE @[i]]]
      /\ UNCHANGED entry

\* The next n bytes, which the handle's size covers.
Get(h, n) ==
  LET p == handle[h].pos
  IN  /\ handle[h].valid /\ "read" \in handle[h].mode
      /\ p + n <= handle[h].size
      /\ handle' = [handle EXCEPT ![h].pos = p + n]
      /\ got' = SubSeq(body[handle[h].first], p + 1, p + n)
      /\ UNCHANGED <<entry, body>>

Close(h) ==
  /\ handle[h].valid
  /\ entry' = IF "write" \in handle[h].mode
              THEN [entry EXCEPT ![handle[h].file] =
                      [first |-> handle[h].first, size |-> handle[h].size]]
              ELSE entry
  /\ handle' = [handle EXCEPT ![h] = Closed]
  /\ UNCHANGED body

Next ==
  \/ \E h \in Handles, n \in 1..Growth : Get(h, n)
  \/ /\ got' = <<>>
     /\ \/ UNCHANGED <<entry, handle, body>>
        \/ \E h \in Handles :
             \/ Open(h) \/ Seek(h) \/ Begin(h) \/ Grow(h) \/ Close(h)
             \/ \E n \in 1..Growth, v \in Bytes : Put(h, n, v)

Spec == Init /\ [][Next]_vars
=============================================================================
