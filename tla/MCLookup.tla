------------------------------ MODULE MCLookup ------------------------------
(****************************************************************************)
(* What the lookups of Directory and Fat12 promise, over bounded inputs:    *)
(* names of two characters and one more, directories of three slots, paths  *)
(* of up to six characters; FATs of four entries.                           *)
(****************************************************************************)
EXTENDS Naturals, Sequences, SequencesExt, TLC

LOCAL Chars == {"A", "b", ".", "/"}
LOCAL Upper == [c \in Chars \cup {"B"} |-> IF c = "b" THEN "B" ELSE c]

LOCAL D == INSTANCE Directory WITH Base <- 2, Ext <- 1, Longest <- 4
LOCAL F == INSTANCE Fat12 WITH Wrap <- 64

LOCAL ShortNames == {n \in [1..3 -> {"A", "B", " "}] : n[1] # " "}

(* The name that fs_list_dir shows leads fs_open back to the same entry:    *)
(* decode_short_name and fat_name_from_path_component are inverse.          *)
ASSUME ShownNamesResolve == \A n \in ShortNames : D!FatName(D!Decoded(n)) = n

LOCAL Slots == [name : {<<"A", "B", " ">>, <<"A", " ", "B">>},
                kind : {"file", "dir", "lfn", "deleted", "end"}, first : {0}]

(* fs_list_dir shows what find_entry_in_dir can find: each entry that is    *)
(* shown is found under its name (the first of those that share it), and    *)
(* what is not shown is not found.                                          *)
ASSUME ListedIsFound ==
  \A dir \in [1..3 -> Slots] :
    LET tree == 2 :> dir
        shown == D!fs_list_dir(tree, <<"/">>, 3)
        At(name) == D!Resolve(tree, <<"/">> \o name)
    IN  /\ \A i \in DOMAIN shown :
             \E j \in 1..i : /\ shown[j].name = shown[i].name
                             /\ At(shown[i].name).kind = shown[j].kind
        /\ \A s \in Slots :
             At(D!Decoded(s.name)) # D!NotFound
               => \E i \in DOMAIN shown : shown[i].name = D!Decoded(s.name)

LOCAL Slot(name, kind, first) == [name |-> name, kind |-> kind, first |-> first]
LOCAL Tree == 2 :> <<Slot(<<"A", " ", " ">>, "dir", 3), Slot(<<"B", " ", " ">>, "file", 4)>>
           @@ 3 :> <<Slot(<<"A", " ", " ">>, "file", 5), Slot(<<"B", " ", "A">>, "dir", 0)>>

LOCAL Paths == UNION {[1..n -> Chars] : n \in 1..6}
LOCAL Joined(comps) == FlattenSeq([i \in DOMAIN comps |-> <<"/">> \o comps[i]])

(* How many slashes stand between two components, or at the end, makes no   *)
(* difference, unless there is nothing else in the path (next_component,    *)
(* resolve_path).                                                           *)
ASSUME SlashesDoNotMatter ==
  \A p \in Paths :
    LET comps == D!Components(p)
    IN  p[1] = "/" /\ comps # <<>> => D!Resolve(Tree, p) = D!Resolve(Tree, Joined(comps))

-----------------------------------------------------------------------------
LOCAL Links == {3, 255, 256, 4080, 4095}

\* The bytes of a FAT with these entries, as FAT12 defines them.
LOCAL Packed(link) ==
  [i \in 0..5 |->
     LET a == link[2 * (i \div 3)]
         b == link[2 * (i \div 3) + 1]
     IN  CASE i % 3 = 0 -> a % 256
           [] i % 3 = 1 -> (a \div 256) + 16 * (b % 16)
           [] i % 3 = 2 -> b \div 16]

\* readFileRAM takes every entry out of the FAT as it was put in.
ASSUME PackedEntries ==
  \A link \in [0..3 -> Links] : \A c \in 0..3 : F!NextCluster(Packed(link), c) = link[c]

(* It copies the clusters of a chain in their order, whole ones but for the *)
(* last, and as many bytes as the file has if the chain is long enough.     *)
ASSUME ReadsInOrder ==
  \A size \in 0..7 :
    LET fat == Packed(0 :> 4088 @@ 1 :> 4095 @@ 2 :> 4095 @@ 3 :> 2)
        copied == F!readFileRAM(fat, 3, size, 3)
    IN  copied = SubSeq(<<<<3, IF size < 3 THEN size ELSE 3>>,
                          <<2, IF size < 6 THEN size - 3 ELSE 3>>>>, 1, Len(copied))
        /\ Len(copied) = IF size = 0 THEN 0 ELSE IF size <= 3 THEN 1 ELSE 2

(* The kernel's reader and the host's tool read the same clusters of a file *)
(* whose size its chain has room for, whatever way the chain goes.          *)
ASSUME ReadersAgree ==
  \A order \in {o \in [1..3 -> 0..3] : IsInjective(o)}, size \in 5..6 :
    LET fat == Packed([c \in 0..3 |-> IF c = order[1] THEN order[2]
                                      ELSE IF c = order[2] THEN order[3] ELSE 4095])
        copied == F!readFileRAM(fat, order[1], size, 2)
    IN  /\ F!readFile(fat, order[1]) = order
        /\ [i \in DOMAIN copied |-> copied[i][1]] = order

\* The root directory's sectors hold all of its entries, and no sector in vain.
ASSUME RootDirectoryFits ==
  \A entries \in 0..20, bytes \in {32, 48, 64} :
    LET end == F!RootDirectoryEnd([reserved |-> 1, sectorsPerFat |-> 2, fats |-> 2,
                                   entries |-> entries, bytesPerSector |-> bytes])
    IN  /\ (end - 5) * bytes >= 32 * entries
        /\ end > 5 => (end - 6) * bytes < 32 * entries

(* readSectorsRAM stays on the disk as long as neither products nor sum     *)
(* reach 2^32, and then copies exactly the sectors that lie there.          *)
ASSUME SectorsOnDisk ==
  \A lba \in 0..20, count \in 1..4, size \in {0, 15, 16, 40} :
    (lba + count) * 4 < 64 =>
      F!readSectorsRAM(lba, count, 4, size) =
        IF 4 * (lba + count) <= size THEN (4 * lba)..(4 * (lba + count) - 1) ELSE {}
=============================================================================
