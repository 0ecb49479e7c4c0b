----------------------------- MODULE Directory -----------------------------
(****************************************************************************)
(* How src/drivers/filesystem.c finds a file by its path: it cuts the path  *)
(* into components, turns each into a name of the form NAME.EXT padded with *)
(* blanks, and looks for that in the slots of one directory after another.  *)
(*                                                                          *)
(* A path is a sequence of characters.  A directory is the sequence of its  *)
(* slots over all its clusters, each [name, kind, first]: a file, a dir, a  *)
(* slot of a long name (attribute 0x0F), a deleted one (0xE5), or the end   *)
(* (0x00).                                                                  *)
(****************************************************************************)
EXTENDS Naturals, Sequences, FiniteSetsExt, SequencesExt, Functions

CONSTANTS
  Base, Ext,     \* 8 and 3
  Longest,       \* sizeof comp - 1 in resolve_path: 31
  Upper          \* to_upper, a function on characters

Blank == " "
Least(S, default) == IF S = {} THEN default ELSE Min(S)

\* next_component, over and over: a component that is too long is cut in two.
Components(path) ==
  LET Slash(i) == path[i] = "/"
      End(i) == Min({i + Longest} \cup {j \in i..Len(path) : Slash(j)} \cup {Len(path) + 1})
      from[i \in 1..(Len(path) + 1)] ==
        LET s == Least({j \in i..Len(path) : ~Slash(j)}, 0)
        IN  IF s = 0 THEN <<>> ELSE <<SubSeq(path, s, End(s) - 1)>> \o from[End(s)]
  IN  from[1]

Padded(s, n) == [i \in 1..n |-> IF i <= Len(s) THEN Upper[s[i]] ELSE Blank]

\* fat_name_from_path_component: what is too long for its field is dropped.
FatName(comp) ==
  LET stop == Least({i \in DOMAIN comp : comp[i] = "."} \cup {Base + 1}, 0)
      ext == IF stop <= Len(comp) /\ comp[stop] = "."
             THEN SubSeq(comp, stop + 1, Len(comp)) ELSE <<>>
  IN  Padded(SubSeq(comp, 1, Min({stop - 1, Len(comp)})), Base) \o Padded(ext, Ext)

\* Up to the first blank.
Unpadded(s) == SubSeq(s, 1, Least({i \in DOMAIN s : s[i] = Blank}, Len(s) + 1) - 1)

\* decode_short_name
Decoded(name) ==
  LET ext == Unpadded(SubSeq(name, Base + 1, Base + Ext))
  IN  Unpadded(SubSeq(name, 1, Base)) \o (IF ext = <<>> THEN <<>> ELSE <<".">> \o ext)

-----------------------------------------------------------------------------
\* The slots that count.
Live(dir) ==
  {i \in DOMAIN dir : /\ dir[i].kind \in {"file", "dir"}
                      /\ \A j \in 1..i : dir[j].kind # "end"}

NotFound == [kind |-> "not found"]

\* find_entry_in_dir
Find(dir, name) ==
  LET i == Least({j \in Live(dir) : dir[j].name = name}, 0)
  IN  IF i = 0 THEN NotFound ELSE dir[i]

\* tree: the directories by first cluster.  Other numbers lead nowhere.
Dir(tree, first) == IF first \in DOMAIN tree THEN tree[first] ELSE <<>>

Root == 2
TheRoot == [kind |-> "dir", first |-> Root]

(* resolve_path.  Behind several slashes and nothing else it ends with the  *)
(* entry it began with, whose first cluster is 0.                           *)
Resolve(tree, path) ==
  LET comps == Components(path)
      at[k \in 0..Len(comps)] ==
        IF k = 0 THEN TheRoot
        ELSE IF at[k - 1].kind # "dir" THEN NotFound
        ELSE Find(Dir(tree, at[k - 1].first), FatName(comps[k]))
  IN  IF path = <<>> \/ path[1] # "/" THEN [kind |-> "invalid"]
      ELSE IF comps = <<>> /\ Len(path) > 1 THEN [kind |-> "dir", first |-> 0]
      ELSE at[Len(comps)]

\* fs_list_dir, for a path that leads to a directory
fs_list_dir(tree, path, max) ==
  LET dir == Dir(tree, Resolve(tree, path).first)
      all == SetToSortSeq(Live(dir), <)
  IN  [i \in 1..Min({max, Len(all)}) |->
         [name |-> Decoded(dir[all[i]].name), kind |-> dir[all[i]].kind]]
=============================================================================
