------------------------- MODULE VendorTree_proofs -------------------------
(***************************************************************************)
(* Proofs about filtered_entries for every list, partition layout and      *)
(* exclusion set, and then about main() of extract-files.py, which calls   *)
(* it, for every dump and set of options.                                  *)
(*                                                                         *)
(* TreeInv says what each loop has done with the entries that are no       *)
(* longer in todo.  Two names of one module make the later destination     *)
(* win because the loop takes the entries in that order and the filter     *)
(* left one entry per destination (KeptInv).                               *)
(***************************************************************************)
EXTENDS VendorTree, TLAPS

-----------------------------------------------------------------------------
(* filtered_entries: theorems of Spec, the specification of BlobFilter.    *)

\* What the filter computes of one entry has its type.
LEMMA EntryFacts ==
  ASSUME NEW e \in Entry
  PROVE  /\ Priority(e) \in Nat
         /\ IsElf(e) => CollisionKey(e) \in Keys
<1>1. /\ Info[e.dest].part \in KnownPartitions
      /\ Info[e.dest].kind \in Kinds
      /\ Info[e.dest].stem \in Stems
  BY DestsAssumption DEF Entry
<1>2. Priority(e) \in Nat
  BY <1>1 DEF Priority, Part, PartitionPriority, KnownPartitions
<1>3. IsElf(e) => CollisionKey(e) \in Keys
  BY <1>1 DEF IsElf, CollisionKey, Keys
<1> QED
  BY <1>2, <1>3

\* Positions of kept and of the filtered list name entries.
LEMMA KeptFacts ==
  ASSUME TypeOK
  PROVE  /\ Len(kept) \in Nat
         /\ \A j \in Positions : kept[j] \in Entry
         /\ final \subseteq Positions
         /\ \A k \in Keys : winner[k] \in Nat /\ (winner[k] # 0 => winner[k] \in Positions)
BY DEF TypeOK, Positions

\* The invariant holds before the first entry is read.
LEMMA InitFilterInv == Init => FilterInv
<1> SUFFICES ASSUME Init PROVE FilterInv
  OBVIOUS
<1>1. Len(kept) = 0 /\ kept \in Seq(Entry) /\ raw \in Seq(Entry)
  BY RawListsAssumption DEF Init
<1>2. TypeOK
  BY <1>1 DEF Init, TypeOK
<1>3. KeptInv
  BY <1>1 DEF Init, KeptInv, Positions
<1>4. WinnerInv
  BY <1>1 DEF Init, WinnerInv, Positions
<1>5. SelectInv
  BY <1>1 DEF Init, SelectInv, Positions
<1> QED
  BY <1>2, <1>3, <1>4, <1>5 DEF FilterInv

\* First loop.
LEMMA ReadEntryInv == FilterInv /\ ReadEntry => FilterInv'
<1> SUFFICES ASSUME FilterInv, ReadEntry PROVE FilterInv'
  OBVIOUS
<1> USE DEF FilterInv
<1>0. raw[i] \in Entry /\ i \in 1..Len(raw) /\ Len(kept) \in Nat
  BY DEF ReadEntry, TypeOK
<1>1. CASE ~Keeps(raw[i])
  <2>1. kept' = kept
    BY <1>1 DEF ReadEntry
  <2>2. TypeOK'
    BY <2>1, <1>0 DEF TypeOK, ReadEntry
  <2>3. KeptInv'
    <3>1. Norm(raw[i]) \in Excluded \/ \E j \in Positions : Norm(kept[j]) = Norm(raw[i])
      BY <1>1 DEF Keeps, Seen, Positions
    <3>2. \A n \in 1..Len(raw) : n < i + 1 => n < i \/ n = i
      BY <1>0
    <3> QED
      BY <2>1, <3>1, <3>2 DEF KeptInv, ReadEntry, Positions, Norm
  <2>4. WinnerInv' /\ SelectInv'
    BY <2>1 DEF WinnerInv, SelectInv, ReadEntry, Positions, WinnerOf, Loses,
                IsElf, CollisionKey, Priority, Part
  <2> QED
    BY <2>2, <2>3, <2>4
<1>2. CASE Keeps(raw[i])
  <2>1. /\ kept' = Append(kept, raw[i])
        /\ kept' \in Seq(Entry)
        /\ Len(kept') = Len(kept) + 1
        /\ \A j \in Positions : kept'[j] = kept[j]
        /\ kept'[Len(kept) + 1] = raw[i]
    BY <1>0, <1>2 DEF ReadEntry, TypeOK, Positions
  <2>2. Positions' = Positions \cup {Len(kept) + 1}
    BY <2>1, <1>0 DEF Positions
  <2>3. TypeOK'
    <3>1. \A k \in Keys : winner'[k] <= Len(kept')
      BY <2>1, <1>0 DEF TypeOK, ReadEntry
    <3>2. final' = {} /\ dropped' \subseteq (1..Len(kept')) \X (1..Len(kept'))
      BY <2>1, <1>0 DEF TypeOK, ReadEntry, SelectInv
    <3> QED
      BY <2>1, <3>1, <3>2, <1>0 DEF TypeOK, ReadEntry
  <2>4. KeptInv'
    <3>1. Norm(raw[i]) \notin Excluded /\ \A j \in Positions : Norm(kept[j]) # Norm(raw[i])
      BY <1>2 DEF Keeps, Seen, Positions
    <3>2. \A j \in Positions' : Norm(kept'[j]) \notin Excluded
      BY <2>1, <2>2, <3>1 DEF KeptInv
    <3>3. \A j, k \in Positions' : j # k => Norm(kept'[j]) # Norm(kept'[k])
      <4> SUFFICES ASSUME NEW j \in Positions', NEW k \in Positions', j # k
                   PROVE  Norm(kept'[j]) # Norm(kept'[k])
        OBVIOUS
      <4>1. CASE j \in Positions /\ k \in Positions
        BY <4>1, <2>1 DEF KeptInv
      <4>2. CASE j = Len(kept) + 1 /\ k \in Positions
        BY <4>2, <2>1, <3>1
      <4>3. CASE j \in Positions /\ k = Len(kept) + 1
        BY <4>3, <2>1, <3>1
      <4> QED
        BY <4>1, <4>2, <4>3, <2>2
    <3>4. ASSUME NEW n \in 1..Len(raw), n < i + 1
          PROVE  Norm(raw[n]) \in Excluded \/ \E j \in Positions' : Norm(kept'[j]) = Norm(raw[n])
      <4>1. CASE n = i
        BY <4>1, <2>1, <2>2
      <4>2. CASE n < i
        BY <4>2, <2>1, <2>2 DEF KeptInv
      <4> QED
        BY <4>1, <4>2, <3>4, <1>0
    <3> QED
      BY <3>2, <3>3, <3>4 DEF KeptInv, ReadEntry, Norm
  <2>5. WinnerInv'
    BY DEF WinnerInv, ReadEntry
  <2>6. SelectInv'
    BY DEF SelectInv, ReadEntry
  <2> QED
    BY <2>3, <2>4, <2>5, <2>6
<1> QED
  BY <1>1, <1>2

\* Second loop.
LEMMA PickWinnerInv == FilterInv /\ PickWinner => FilterInv'
<1> SUFFICES ASSUME FilterInv, PickWinner PROVE FilterInv'
  OBVIOUS
<1> USE DEF FilterInv
<1> DEFINE k == CollisionKey(kept[i])
           takes == IsElf(kept[i]) /\ Beats(kept[i], winner[k])
<1>0. /\ i \in Positions /\ Len(kept) \in Nat /\ phase = "winners"
      /\ \A j \in Positions : kept[j] \in Entry
      /\ winner \in [Keys -> Nat]
      /\ \A c \in Keys : winner[c] # 0 => winner[c] \in Positions
  BY DEF PickWinner, TypeOK, Positions
<1>1. /\ \A j \in Positions : Priority(kept[j]) \in Nat
      /\ \A j \in Positions : IsElf(kept[j]) => CollisionKey(kept[j]) \in Keys
  BY <1>0, EntryFacts
<1>2. kept' = kept /\ raw' = raw /\ phase' = phase /\ final' = final /\ dropped' = dropped
      /\ i' = i + 1
  BY DEF PickWinner
<1>3. winner' = IF takes THEN [winner EXCEPT ![k] = i] ELSE winner
  BY DEF PickWinner, Position
<1>4. TypeOK'
  BY <1>0, <1>1, <1>2, <1>3 DEF TypeOK, Positions
<1>5. KeptInv'
  BY <1>0, <1>2 DEF KeptInv, Positions, Norm
<1>6. WinnerInv'
  <2>1. \A c \in Keys : winner'[c] # 0 =>
          IsElf(kept[winner'[c]]) /\ CollisionKey(kept[winner'[c]]) = c
    BY <1>0, <1>1, <1>3 DEF WinnerInv
  <2>2. ASSUME NEW j \in Positions, IsElf(kept[j]), j < i + 1
        PROVE  /\ winner'[CollisionKey(kept[j])] # 0
               /\ Priority(kept[winner'[CollisionKey(kept[j])]]) <= Priority(kept[j])
    <3> DEFINE c == CollisionKey(kept[j])
    <3>1. c \in Keys
      BY <2>2, <1>1
    <3>2. CASE j < i
      <4>1. winner[c] # 0 /\ Priority(kept[winner[c]]) <= Priority(kept[j])
        BY <3>2, <2>2, <1>0 DEF WinnerInv, WinnerOf
      <4>2. CASE takes /\ c = k
        <5>1. winner'[c] = i /\ winner[c] \in Positions
          BY <4>1, <4>2, <3>1, <1>0, <1>3
        <5>2. Priority(kept[i]) < Priority(kept[winner[c]])
          BY <4>1, <4>2 DEF Beats
        <5>3. /\ Priority(kept[i]) \in Nat /\ Priority(kept[j]) \in Nat
              /\ Priority(kept[winner[c]]) \in Nat
          BY <5>1, <1>0, <1>1
        <5>4. i # 0
          BY <1>0 DEF Positions
        <5> HIDE DEF c
        <5>5. Priority(kept[i]) <= Priority(kept[j])
          BY <5>2, <5>3, <4>1
        <5>6. winner'[c] # 0 /\ Priority(kept[winner'[c]]) <= Priority(kept[j])
          BY <5>1, <5>4, <5>5
        <5> QED
          BY <5>6 DEF c
      <4>3. CASE ~(takes /\ c = k)
        <5>1. winner'[c] = winner[c]
          BY <4>3, <3>1, <1>0, <1>3
        <5> QED
          BY <5>1, <4>1
      <4> QED
        BY <4>2, <4>3
    <3>3. CASE j = i
      <4>1. CASE takes
        <5>1. winner'[c] = i
          BY <4>1, <3>1, <3>3, <1>0, <1>3
        <5> QED
          BY <5>1, <3>3, <1>0, <1>1 DEF Positions
      <4>2. CASE ~takes
        <5>1. winner[c] # 0 /\ ~(Priority(kept[i]) < Priority(kept[winner[c]]))
          BY <4>2, <2>2, <3>3 DEF Beats
        <5>2. winner'[c] = winner[c] /\ winner[c] \in Positions
          BY <5>1, <4>2, <3>1, <1>0, <1>3
        <5> QED
          BY <5>1, <5>2, <3>3, <1>0, <1>1
      <4> QED
        BY <4>1, <4>2
    <3> QED
      BY <3>2, <3>3, <2>2, <1>0 DEF Positions
  <2> QED
    BY <2>1, <2>2, <1>0, <1>2
       DEF WinnerInv, WinnerOf, Positions, IsElf, CollisionKey, Priority, Part
<1>7. SelectInv'
  BY <1>0, <1>2 DEF SelectInv
<1> QED
  BY <1>4, <1>5, <1>6, <1>7

\* Third loop.
LEMMA SelectPreserves == FilterInv /\ Select => FilterInv'
<1> SUFFICES ASSUME FilterInv, Select PROVE FilterInv'
  OBVIOUS
<1> USE DEF FilterInv
<1>0. i \in Positions /\ Len(kept) \in Nat /\ phase = "select" /\ winner \in [Keys -> Nat]
      /\ kept[i] \in Entry
  BY DEF Select, TypeOK, Positions
<1>1. kept' = kept /\ raw' = raw /\ phase' = phase /\ winner' = winner /\ i' = i + 1
  BY DEF Select
<1>2. Loses(i) => WinnerOf(i) \in Positions
  <2>1. Loses(i) => IsElf(kept[i])
    BY DEF Loses
  <2>2. IsElf(kept[i]) => WinnerOf(i) # 0 /\ CollisionKey(kept[i]) \in Keys
    BY <1>0, EntryFacts DEF WinnerInv
  <2> QED
    BY <2>1, <2>2, <1>0 DEF WinnerOf, TypeOK, Positions
<1>3. TypeOK'
  <2>1. final' \subseteq Positions
    BY <1>0, KeptFacts DEF Select
  <2>2. dropped' \subseteq Positions \X Positions
    <3>1. dropped \subseteq Positions \X Positions
      BY DEF TypeOK, Positions
    <3>2. dropped' = dropped \/ (Loses(i) /\ dropped' = dropped \cup {<<i, WinnerOf(i)>>})
      BY DEF Select
    <3> QED
      BY <3>1, <3>2, <1>0, <1>2
  <2>3. i + 1 \in Nat \ {0}
    BY DEF TypeOK
  <2> QED
    BY <2>1, <2>2, <2>3, <1>1 DEF TypeOK, Positions
<1>4. KeptInv' /\ WinnerInv'
  BY <1>0, <1>1 DEF KeptInv, WinnerInv, Positions, Norm, WinnerOf, IsElf,
                    CollisionKey, Priority, Part
<1>5. SelectInv'
  <2>1. \A j \in final' : ~Loses(j)
    BY DEF Select, SelectInv
  <2>2. \A j \in Positions : j < i + 1 => j \in final' \/ Loses(j)
    <3>1. i \in final' \/ Loses(i)
      BY DEF Select
    <3>2. final \subseteq final'
      BY DEF Select
    <3> QED
      BY <3>1, <3>2, <1>0 DEF SelectInv, Positions
  <2>3. \A j \in Positions : Loses(j)' <=> Loses(j)
    BY <1>1 DEF Loses, WinnerOf, IsElf, CollisionKey, Priority, Part
  <2>4. final' \subseteq Positions
    BY <1>0 DEF Select, TypeOK, Positions
  <2> QED
    BY <2>1, <2>2, <2>3, <2>4, <1>0, <1>1 DEF SelectInv, Positions
<1> QED
  BY <1>3, <1>4, <1>5

\* From one loop to the next.
LEMMA NextLoopInv == FilterInv /\ NextLoop => FilterInv'
<1> SUFFICES ASSUME FilterInv, NextLoop PROVE FilterInv'
  OBVIOUS
<1> USE DEF FilterInv
<1>0. kept' = kept /\ raw' = raw /\ winner' = winner /\ final' = final
      /\ dropped' = dropped /\ i' = 1
      /\ i \in Nat /\ Len(kept) \in Nat /\ Len(raw) \in Nat
  BY DEF NextLoop, TypeOK
<1>1. TypeOK'
  BY <1>0 DEF NextLoop, TypeOK
<1>2. KeptInv'
  BY <1>0 DEF NextLoop, KeptInv, Positions, Norm
<1>3. WinnerInv'
  <2>1. \A j \in Positions : IsElf(kept[j]) /\ phase' # "read" /\ (phase' = "winners" => j < 1) =>
          WinnerOf(j) # 0 /\ Priority(kept[WinnerOf(j)]) <= Priority(kept[j])
    <3>1. phase = "read" => \A j \in Positions : ~(phase' = "winners" => j < 1)
      BY DEF NextLoop, Positions
    <3>2. phase = "winners" => \A j \in Positions : j < i
      BY <1>0 DEF NextLoop, Positions
    <3> QED
      BY <3>1, <3>2 DEF WinnerInv
  <2>2. phase' # "read"
    BY DEF NextLoop
  <2> QED
    BY <2>1, <2>2, <1>0
       DEF WinnerInv, Positions, WinnerOf, IsElf, CollisionKey, Priority, Part
<1>4. SelectInv'
  <2>1. \A j \in Positions : phase' = "filtered" \/ (phase' = "select" /\ j < 1) =>
          j \in final \/ Loses(j)
    <3>1. phase' = "filtered" => phase = "select" /\ \A j \in Positions : j < i
      BY <1>0 DEF NextLoop, Positions
    <3>2. \A j \in Positions : ~(j < 1)
      BY DEF Positions
    <3> QED
      BY <3>1, <3>2 DEF SelectInv
  <2>2. phase' \in {"read", "winners"} => final = {}
    BY DEF NextLoop, SelectInv
  <2> QED
    BY <2>1, <2>2, <1>0 DEF SelectInv, Positions, Loses, WinnerOf, IsElf,
                            CollisionKey, Priority, Part
<1> QED
  BY <1>1, <1>2, <1>3, <1>4

\* A step that changes nothing keeps the invariant.
LEMMA StutterInv == FilterInv /\ UNCHANGED vars => FilterInv'
  BY DEF FilterInv, vars, TypeOK, KeptInv, WinnerInv, SelectInv, Positions, Norm,
         WinnerOf, Loses, IsElf, CollisionKey, Priority, Part

\* The three loops preserve the inductive invariant.
THEOREM FilterInductive == Spec => []FilterInv
<1>1. FilterInv /\ [Next]_vars => FilterInv'
  BY ReadEntryInv, PickWinnerInv, SelectPreserves, NextLoopInv, StutterInv DEF Next
<1> QED
  BY <1>1, InitFilterInv, PTL DEF Spec

\* Every position, list and winner the loops use exists.
THEOREM FilterTypeCorrect == Spec => []TypeOK
<1>1. FilterInv => TypeOK
  BY DEF FilterInv
<1> QED
  BY <1>1, FilterInductive, PTL

\* An entry dropped in the third loop has a winner that is kept: the winner of a key is its own winner.
LEMMA LoserHasWinner ==
  ASSUME FilterInv, phase = "filtered", NEW j \in Positions, IsElf(kept[j])
  PROVE  /\ WinnerOf(j) \in final
         /\ IsElf(kept[WinnerOf(j)])
         /\ CollisionKey(kept[WinnerOf(j)]) = CollisionKey(kept[j])
         /\ Priority(kept[WinnerOf(j)]) <= Priority(kept[j])
<1> USE DEF FilterInv
<1> DEFINE w == WinnerOf(j)
<1>1. kept[j] \in Entry /\ CollisionKey(kept[j]) \in Keys /\ Len(kept) \in Nat
  BY EntryFacts DEF TypeOK, Positions
<1>2. w # 0 /\ Priority(kept[w]) <= Priority(kept[j])
  BY DEF WinnerInv
<1>3. w \in Positions
  BY <1>1, <1>2 DEF WinnerOf, TypeOK, Positions
<1>4. IsElf(kept[w]) /\ CollisionKey(kept[w]) = CollisionKey(kept[j])
  BY <1>1, <1>2 DEF WinnerInv, WinnerOf
<1>5. WinnerOf(w) = w
  BY <1>4 DEF WinnerOf
<1>6. Priority(kept[w]) \in Nat
  BY <1>3, EntryFacts DEF TypeOK, Positions
<1>7. ~Loses(w)
  BY <1>5, <1>6 DEF Loses
<1>8. w \in final
  BY <1>3, <1>7 DEF SelectInv
<1> QED
  BY <1>2, <1>4, <1>8

\* Nothing of proprietary-files.txt disappears without a replacement.
THEOREM NothingLostHolds == Spec => []NothingLost
<1>1. FilterInv => NothingLost
  <2> SUFFICES ASSUME FilterInv, phase = "filtered", NEW n \in 1..Len(raw),
                      Norm(raw[n]) \notin Excluded,
                      ~\E j \in final : Norm(kept[j]) = Norm(raw[n])
               PROVE  \E j \in 1..Len(kept), w \in final :
                        /\ Norm(kept[j]) = Norm(raw[n])
                        /\ IsElf(kept[j]) /\ IsElf(kept[w])
                        /\ CollisionKey(kept[w]) = CollisionKey(kept[j])
                        /\ Priority(kept[w]) < Priority(kept[j])
    BY DEF NothingLost
  <2>1. PICK j \in Positions : Norm(kept[j]) = Norm(raw[n])
    BY DEF FilterInv, KeptInv
  <2>2. Loses(j)
    BY <2>1 DEF FilterInv, SelectInv
  <2>3. IsElf(kept[j]) /\ Priority(kept[j]) > Priority(kept[WinnerOf(j)])
    BY <2>2 DEF Loses
  <2>4. /\ WinnerOf(j) \in final
        /\ IsElf(kept[WinnerOf(j)])
        /\ CollisionKey(kept[WinnerOf(j)]) = CollisionKey(kept[j])
    BY <2>3, LoserHasWinner
  <2>5. kept[j] \in Entry /\ kept[WinnerOf(j)] \in Entry
    BY <2>4, KeptFacts DEF FilterInv
  <2>6. Priority(kept[WinnerOf(j)]) < Priority(kept[j])
    BY <2>3, <2>5, EntryFacts
  <2> QED
    BY <2>1, <2>3, <2>4, <2>6 DEF Positions
<1> QED
  BY <1>1, FilterInductive, PTL

\* No destination is installed twice, and no device-owned config survives.
THEOREM DestinationsUniqueHolds == Spec => []DestinationsUnique
<1>1. FilterInv => DestinationsUnique
  BY DEF FilterInv, TypeOK, KeptInv, Positions, DestinationsUnique
<1> QED
  BY <1>1, FilterInductive, PTL

\* No kept library or binary is shadowed by one of another priority.
THEOREM NoShadowingHolds == Spec => []NoShadowing
<1>1. FilterInv => NoShadowing
  <2> SUFFICES ASSUME FilterInv, phase = "filtered", NEW j \in final, NEW k \in final,
                      IsElf(kept[j]), IsElf(kept[k]),
                      CollisionKey(kept[j]) = CollisionKey(kept[k])
               PROVE  Priority(kept[j]) = Priority(kept[k])
    BY DEF NoShadowing
  <2> DEFINE w == WinnerOf(j)
  <2>1. j \in Positions /\ k \in Positions /\ ~Loses(j) /\ ~Loses(k)
    BY DEF FilterInv, TypeOK, SelectInv, Positions
  <2>2. WinnerOf(k) = w
    BY DEF WinnerOf
  <2>3. w \in final /\ Priority(kept[w]) <= Priority(kept[j])
    BY <2>1, LoserHasWinner
  <2>4. Priority(kept[w]) <= Priority(kept[k])
    BY <2>1, <2>2, LoserHasWinner
  <2>5. kept[j] \in Entry /\ kept[k] \in Entry /\ kept[w] \in Entry
    BY <2>1, <2>3, KeptFacts DEF FilterInv
  <2>6. Priority(kept[j]) \in Nat /\ Priority(kept[k]) \in Nat /\ Priority(kept[w]) \in Nat
    BY <2>5, EntryFacts
  <2>7. ~(Priority(kept[j]) > Priority(kept[w])) /\ ~(Priority(kept[k]) > Priority(kept[w]))
    BY <2>1, <2>2 DEF Loses
  <2> QED
    BY <2>3, <2>4, <2>6, <2>7
<1> QED
  BY <1>1, FilterInductive, PTL

-----------------------------------------------------------------------------
(* main(): theorems of TreeSpec.                                           *)

FilterPhases == {"read", "winners", "select", "filtered"}

Halves == [s32 : Sources \cup {None}, s64 : Sources \cup {None}]

\* What the later loops need of the filter's result.
ListInv ==
  /\ kept \in Seq(Entry)
  /\ final \subseteq Positions
  /\ \A j, k \in Positions : j # k => Norm(kept[j]) # Norm(kept[k])

\* Until the filter is through nothing else has happened.
FilterPart ==
  phase \in FilterPhases =>
    /\ FilterInv
    /\ copies = {} /\ manifests = {} /\ ~written
    /\ staged = [s \in Sources |-> None]
    /\ missing = {} /\ exit = "none"

TreeTypeOK ==
  /\ phase \in FilterPhases \cup {"modules", "stage", "exit"}
  /\ dump \subseteq Places
  /\ todo \subseteq final
  /\ modules \in [Names -> Halves]
  /\ staged \in [Sources -> Places \cup {None}]
  /\ written \in BOOLEAN
  /\ phase # "exit" => exit = "none"

\* The entry has its place in the tables behind the makefiles, or a later one of the
\* same name and word size took it.
Placed(j) ==
  /\ IsElf(kept[j]) => InHalf(j) \/ Overwritten(j)
  /\ KindOf(j) = "copy_file" => j \in copies
  /\ KindOf(j) = "vintf_manifest" => j \in manifests

\* make_prebuilt_modules has placed the entries it passed, in the order of their
\* destinations.
ModulesInv ==
  phase = "modules" =>
    /\ ~written /\ missing = {}
    /\ \A j \in final \ todo : Placed(j)
    /\ \A j \in final \ todo, k \in todo : kept[j].dest <= kept[k].dest

\* stage_from_dump has copied or reported the entries it passed.
StageInv ==
  phase = "stage" /\ options.dumpRoot =>
    \A j \in final \ todo : kept[j].optional \/ j \in missing \/ staged[kept[j].src] # None

TreeInv ==
  /\ ListInv /\ FilterPart /\ TreeTypeOK
  /\ ModulesInv /\ StageInv
  /\ KeptIsBuilt /\ SuccessMeansStaged /\ OwnPartitionFirst

-----------------------------------------------------------------------------
(* Facts about the operators.                                              *)

\* Entries and what the script derives from them have their types.
LEMMA ListFacts ==
  ASSUME ListInv
  PROVE  /\ \A j \in Positions : kept[j] \in Entry /\ kept[j].src \in Sources
         /\ \A j \in Positions : Info[kept[j].dest].name \in Names
         /\ \A j \in Positions : KindOf(j) \in Kinds /\ Part(kept[j]) \in KnownPartitions
<1>1. \A j \in Positions : kept[j] \in Entry
  BY DEF ListInv, Positions
<1>2. \A j \in Positions : kept[j].src \in Sources /\ kept[j].dest \in Dests
  BY <1>1 DEF Entry
<1> QED
  BY <1>1, <1>2, DestsAssumption DEF KindOf, Part

\* A number among five has a least one in every set it is in.
LEMMA LeastOfFive ==
  ASSUME NEW S, S \subseteq 1..5, S # {}
  PROVE  \E n \in S : \A m \in S : n <= m
<1>1. CASE 1 \in S
  BY <1>1
<1>2. CASE 1 \notin S /\ 2 \in S
  BY <1>2
<1>3. CASE 1 \notin S /\ 2 \notin S /\ 3 \in S
  BY <1>3
<1>4. CASE 1 \notin S /\ 2 \notin S /\ 3 \notin S /\ 4 \in S
  BY <1>4
<1>5. CASE 1 \notin S /\ 2 \notin S /\ 3 \notin S /\ 4 \notin S
  <2>1. PICK n \in S : TRUE
    OBVIOUS
  <2>2. \A m \in S : m = 5
    BY <1>5
  <2>3. n \in S /\ n <= n
    BY <2>1, <2>2
  <2> QED
    BY <2>2, <2>3
<1> QED
  BY <1>1, <1>2, <1>3, <1>4, <1>5

\* What stage_from_dump picks is in the dump, and comes from the entry's own places
\* whenever one of those it tries has the file.
LEMMA CandidateFacts ==
  ASSUME NEW e \in Entry, NEW c \in Candidates(e)
  PROVE  /\ c \in dump
         /\ c \in {Own(e)[n] : n \in 1..5} \/ Held(e) = {}
<1>1. CASE Held(e) = {}
  <2>1. c \in Elsewhere(e)
    BY <1>1 DEF Candidates
  <2> QED
    BY <2>1, <1>1 DEF Elsewhere
<1>2. CASE Held(e) # {}
  <2>1. \A n \in Held(e) : n \in 1..5 /\ Tried(e)[n] = Own(e)[n] /\ Tried(e)[n] \in dump
    <3>1. CASE e.src \in Rooted
      <4>1. Tried(e) = <<Own(e)[1]>>
        BY <3>1 DEF Tried
      <4>2. DOMAIN Tried(e) = 1..1 /\ Tried(e)[1] = Own(e)[1]
        BY <4>1
      <4> QED
        BY <4>2 DEF Held
    <3>2. CASE e.src \notin Rooted
      <4>1. Tried(e) = Own(e)
        BY <3>2 DEF Tried
      <4>2. DOMAIN Own(e) = 1..5
        BY DEF Own
      <4> QED
        BY <4>1, <4>2 DEF Held
    <3> QED
      BY <3>1, <3>2
  <2> DEFINE least == CHOOSE n \in Held(e) : \A m \in Held(e) : n <= m
  <2>2. \E n \in Held(e) : \A m \in Held(e) : n <= m
    BY <1>2, <2>1, LeastOfFive
  <2>3. least \in Held(e)
    BY <2>2
  <2>4. c = Tried(e)[least]
    BY <1>2 DEF Candidates
  <2> QED
    BY <2>1, <2>3, <2>4
<1> QED
  BY <1>1, <1>2

-----------------------------------------------------------------------------
(* The steps.                                                              *)

\* The invariant holds before the first entry is read.
LEMMA TreeInitInv == TreeInit => TreeInv
<1> SUFFICES ASSUME TreeInit PROVE TreeInv
  OBVIOUS
<1>1. Init /\ phase = "read" /\ final = {} /\ kept = <<>>
  BY DEF TreeInit, Init
<1>2. FilterInv
  BY <1>1, InitFilterInv
<1>3. ListInv
  BY <1>2 DEF FilterInv, TypeOK, KeptInv, ListInv, Positions
<1>4. FilterPart /\ KeptIsBuilt /\ SuccessMeansStaged
  BY <1>2 DEF TreeInit, FilterPart, KeptIsBuilt, SuccessMeansStaged
<1>5. TreeTypeOK
  BY <1>1, TreeAssumption DEF TreeInit, TreeTypeOK, FilterPhases, Halves
<1>6. ModulesInv /\ StageInv
  BY <1>1 DEF ModulesInv, StageInv
<1>7. OwnPartitionFirst
  BY DEF TreeInit, OwnPartitionFirst
<1> QED
  BY <1>2, <1>3, <1>4, <1>5, <1>6, <1>7 DEF TreeInv

\* The three loops of the filter.
LEMMA FilterTreeInv == TreeInv /\ Filter => TreeInv'
<1> SUFFICES ASSUME TreeInv, Filter PROVE TreeInv'
  OBVIOUS
<1>1. /\ phase \in FilterPhases /\ phase' \in FilterPhases
      /\ options' = options /\ dump' = dump /\ todo' = todo /\ UNCHANGED treeVars
  BY DEF Filter, Next, ReadEntry, PickWinner, Select, NextLoop, FilterPhases
<1>2. FilterInv'
  BY <1>1, ReadEntryInv, PickWinnerInv, SelectPreserves, NextLoopInv
     DEF TreeInv, FilterPart, Filter, Next
<1>3. ListInv'
  BY <1>2 DEF FilterInv, TypeOK, KeptInv, ListInv, Positions
<1>4. FilterPart' /\ KeptIsBuilt' /\ SuccessMeansStaged'
  BY <1>1, <1>2 DEF TreeInv, FilterPart, KeptIsBuilt, SuccessMeansStaged, treeVars
<1>5. todo' \subseteq final'
  <2>1. final \subseteq final'
    BY DEF Filter, Next, ReadEntry, PickWinner, Select, NextLoop
  <2> QED
    BY <2>1, <1>1 DEF TreeInv, TreeTypeOK
<1>6. TreeTypeOK'
  BY <1>1, <1>5 DEF TreeInv, TreeTypeOK, FilterPart, treeVars
<1>7. ModulesInv' /\ StageInv'
  BY <1>1 DEF ModulesInv, StageInv, FilterPhases
<1>8. OwnPartitionFirst'
  BY <1>1 DEF TreeInv, FilterPart, OwnPartitionFirst, treeVars
<1> QED
  BY <1>2, <1>3, <1>4, <1>6, <1>7, <1>8 DEF TreeInv

\* After the filter its result stays as it is.
LEMMA ListKept ==
  ASSUME TreeInv, UNCHANGED <<kept, final>>
  PROVE  /\ ListInv'
         /\ \A j \in final : IsElf(kept[j])' <=> IsElf(kept[j])
BY DEF TreeInv, ListInv, Positions, Norm, IsElf

\* What the first part of main() built stays built while the tables and the list are left alone.
LEMMA BuiltKept ==
  ASSUME TreeInv, UNCHANGED <<kept, final, modules, copies, manifests, written>>
  PROVE  KeptIsBuilt'
BY DEF TreeInv, KeptIsBuilt, InMakefiles, InHalf, Overwritten, Rivals, IsElf, KindOf, Part

\* What was staged stays staged while the directory and the list are left alone.
LEMMA StagedKept ==
  ASSUME TreeInv, UNCHANGED <<kept, final, staged, dump>>
  PROVE  OwnPartitionFirst'
<1>1. \A j \in final : Own(kept[j])' = Own(kept[j]) /\ Held(kept[j])' = Held(kept[j])
  BY DEF Own, Held, Tried, Part
<1> QED
  BY <1>1 DEF TreeInv, OwnPartitionFirst

\* Without --vendor-root.
LEMMA NoVendorRootInv == TreeInv /\ NoVendorRoot => TreeInv'
<1> SUFFICES ASSUME TreeInv, NoVendorRoot PROVE TreeInv'
  OBVIOUS
<1>1. ListInv' /\ KeptIsBuilt' /\ OwnPartitionFirst'
  BY ListKept, BuiltKept, StagedKept DEF NoVendorRoot
<1>2. FilterPart' /\ ModulesInv' /\ StageInv'
  BY DEF NoVendorRoot, Exit, FilterPart, FilterPhases, ModulesInv, StageInv
<1>3. TreeTypeOK'
  BY DEF NoVendorRoot, Exit, TreeInv, TreeTypeOK
<1>4. SuccessMeansStaged'
  BY DEF NoVendorRoot, Exit, SuccessMeansStaged
<1> QED
  BY <1>1, <1>2, <1>3, <1>4 DEF TreeInv

\* The loop over the entries begins.
LEMMA BeginModulesInv == TreeInv /\ BeginModules => TreeInv'
<1> SUFFICES ASSUME TreeInv, BeginModules PROVE TreeInv'
  OBVIOUS
<1>1. ListInv' /\ KeptIsBuilt' /\ OwnPartitionFirst'
  BY ListKept, BuiltKept, StagedKept DEF BeginModules, treeVars
<1>2. FilterPart' /\ StageInv'
  BY DEF BeginModules, FilterPart, FilterPhases, StageInv
<1>3. TreeTypeOK' /\ SuccessMeansStaged' /\ ModulesInv'
  BY DEF BeginModules, TreeInv, FilterPart, FilterPhases, TreeTypeOK, ModulesInv, treeVars, SuccessMeansStaged
<1> QED
  BY <1>1, <1>2, <1>3 DEF TreeInv

\* A new source in a module leaves every other entry in its half, unless both have
\* one module name and word size.
LEMMA HalfKept ==
  ASSUME TreeInv, NEW j \in final, NEW k \in final, UNCHANGED kept,
         IsElf(kept[j]), SetSource(kept[j]), IsElf(kept[k]), ~Rivals(k, j), InHalf(k)
  PROVE  InHalf(k)'
<1> DEFINE e == kept[j]
           f == kept[k]
<1>1. j \in Positions /\ k \in Positions /\ ListInv /\ modules \in [Names -> Halves]
  BY DEF TreeInv, ListInv, TreeTypeOK
<1>2. e \in Entry /\ f \in Entry /\ Info[e.dest].name \in Names /\ Info[f.dest].name \in Names
  BY <1>1, ListFacts
<1>3. Info[e.dest].arch \in {"32", "64"} /\ Info[f.dest].arch \in {"32", "64"}
  BY <1>2, DestsAssumption DEF Entry
<1>4. Info[e.dest].name # Info[f.dest].name \/ Info[e.dest].arch # Info[f.dest].arch
  BY DEF Rivals
<1>5. CASE Info[e.dest].name # Info[f.dest].name
  <2>1. modules'[Info[f.dest].name] = modules[Info[f.dest].name]
    BY <1>1, <1>2, <1>5 DEF SetSource
  <2> QED
    BY <2>1 DEF InHalf
<1>6. CASE Info[e.dest].arch # Info[f.dest].arch
  <2>1. (IF Info[f.dest].arch = "64" THEN modules'[Info[f.dest].name].s64
                                     ELSE modules'[Info[f.dest].name].s32)
      = (IF Info[f.dest].arch = "64" THEN modules[Info[f.dest].name].s64
                                     ELSE modules[Info[f.dest].name].s32)
    BY <1>1, <1>2, <1>3, <1>6 DEF SetSource, Halves
  <2> QED
    BY <2>1 DEF InHalf
<1> QED
  BY <1>4, <1>5, <1>6

\* An entry that was placed stays placed when a later one is, or is overwritten by it.
LEMMA PlacedKept ==
  ASSUME TreeInv, NEW j \in final, NEW k \in final, j # k, Placed(k),
         kept[k].dest <= kept[j].dest, UNCHANGED <<kept, final>>,
         copies \subseteq copies', manifests \subseteq manifests',
         \/ modules' = modules
         \/ IsElf(kept[j]) /\ SetSource(kept[j]) /\ InHalf(j)'
  PROVE  Placed(k)'
<1>1. CASE modules' = modules
  BY <1>1 DEF Placed, InHalf, Overwritten, Rivals, IsElf, KindOf
<1>2. CASE IsElf(kept[j]) /\ SetSource(kept[j]) /\ InHalf(j)'
  <2>1. kept[k].dest < kept[j].dest
    <3>1. j \in Positions /\ k \in Positions /\ ListInv
      BY DEF TreeInv, ListInv
    <3>2. kept[j] \in Entry /\ kept[k] \in Entry
      BY <3>1, ListFacts
    <3>3. kept[j].dest \in Nat /\ kept[k].dest \in Nat
      BY <3>2, DestsAssumption DEF Entry
    <3>4. kept[j].dest # kept[k].dest
      BY <3>1 DEF ListInv, Norm
    <3> QED
      BY <3>3, <3>4
  <2>2. ASSUME IsElf(kept[k])
        PROVE  InHalf(k)' \/ Overwritten(k)'
    <3>1. CASE Rivals(k, j)
      BY <3>1, <2>1, <1>2 DEF Overwritten, Rivals, IsElf
    <3>2. CASE ~Rivals(k, j) /\ InHalf(k)
      BY <3>2, <2>2, <1>2, HalfKept
    <3>3. CASE ~Rivals(k, j) /\ Overwritten(k)
      <4>1. PICK m \in final : Rivals(k, m) /\ kept[k].dest < kept[m].dest /\ InHalf(m)
        BY <3>3 DEF Overwritten
      <4>2. IsElf(kept[m]) /\ ~Rivals(m, j)
        BY <4>1, <3>3 DEF Rivals
      <4>3. InHalf(m)'
        BY <4>1, <4>2, <1>2, HalfKept
      <4> QED
        BY <4>1, <4>3 DEF Overwritten, Rivals, IsElf
    <3> QED
      BY <3>1, <3>2, <3>3, <2>2 DEF Placed
  <2> QED
    BY <2>2 DEF Placed, IsElf, KindOf
<1> QED
  BY <1>1, <1>2

\* make_prebuilt_modules: one entry.
LEMMA MakeModuleInv ==
  ASSUME TreeInv, NEW j \in todo, MakeModule(j)
  PROVE  TreeInv'
<1>0. /\ phase = "modules" /\ phase' = phase /\ todo' = todo \ {j} /\ kept' = kept /\ final' = final
      /\ staged' = staged /\ dump' = dump /\ written' = written /\ missing' = missing /\ exit' = exit
      /\ options' = options
  BY DEF MakeModule, vars
<1>1. j \in final /\ j \in Positions /\ ~written /\ KindOf(j) \in Kinds /\ exit = "none"
  BY <1>0, ListFacts DEF TreeInv, TreeTypeOK, ListInv, ModulesInv
<1>2. ListInv' /\ OwnPartitionFirst'
  BY <1>0, ListKept, StagedKept
<1>3. FilterPart' /\ KeptIsBuilt' /\ SuccessMeansStaged' /\ StageInv'
  BY <1>0, <1>1 DEF FilterPart, FilterPhases, KeptIsBuilt, SuccessMeansStaged, StageInv
<1>4. /\ modules' = modules \/ (IsElf(kept[j]) /\ SetSource(kept[j]))
      /\ copies \subseteq copies' /\ manifests \subseteq manifests'
  BY DEF MakeModule
<1>5. modules' \in [Names -> Halves]
  <2>1. kept[j].src \in Sources /\ Info[kept[j].dest].name \in Names /\ modules \in [Names -> Halves]
    BY <1>1, ListFacts DEF TreeInv, TreeTypeOK
  <2> QED
    BY <2>1, <1>4 DEF SetSource, Halves
<1>6. TreeTypeOK'
  BY <1>0, <1>5 DEF TreeInv, TreeTypeOK
<1>7. IsElf(kept[j]) => SetSource(kept[j]) /\ InHalf(j)'
  <2>1. IsElf(kept[j]) => SetSource(kept[j])
    BY DEF MakeModule, KindOf, IsElf, ElfKinds
  <2>2. Info[kept[j].dest].name \in Names /\ modules \in [Names -> Halves]
    BY <1>1, ListFacts DEF TreeInv, TreeTypeOK
  <2>3. IsElf(kept[j]) => kept[j].src = (IF Info[kept[j].dest].arch = "64"
                                           THEN modules'[Info[kept[j].dest].name].s64
                                           ELSE modules'[Info[kept[j].dest].name].s32)
    BY <2>1, <2>2 DEF SetSource, Halves
  <2> QED
    BY <2>1, <2>3, <1>0 DEF InHalf
<1>8. ASSUME NEW k \in final' \ todo'
      PROVE  Placed(k)'
  <2>1. CASE k = j
    <3>1. KindOf(j) = "copy_file" => j \in copies'
      BY DEF MakeModule, KindOf, IsElf, ElfKinds
    <3>2. KindOf(j) = "vintf_manifest" => j \in manifests'
      BY DEF MakeModule, KindOf, IsElf, ElfKinds
    <3> QED
      BY <2>1, <3>1, <3>2, <1>7, <1>0 DEF Placed, IsElf, KindOf
  <2>2. CASE k # j
    <3>1. k \in final /\ Placed(k) /\ kept[k].dest <= kept[j].dest
      BY <2>2, <1>0 DEF TreeInv, ModulesInv
    <3> QED
      BY <3>1, <2>2, <1>0, <1>1, <1>4, <1>7, PlacedKept
  <2> QED
    BY <2>1, <2>2
<1>9. \A k \in final' \ todo', l \in todo' : kept'[k].dest <= kept'[l].dest
  BY <1>0 DEF TreeInv, ModulesInv, MakeModule, IsNext
<1>10. ModulesInv'
  BY <1>0, <1>8, <1>9 DEF TreeInv, ModulesInv
<1> QED
  BY <1>2, <1>3, <1>6, <1>10 DEF TreeInv

\* The makefiles: every entry has been placed or overwritten, and only manifests on
\* vendor_dlkm go.
LEMMA WriteMakefilesInv == TreeInv /\ WriteMakefiles => TreeInv'
<1> SUFFICES ASSUME TreeInv, WriteMakefiles PROVE TreeInv'
  OBVIOUS
<1>0. /\ phase = "modules" /\ todo = {} /\ phase' = "stage" /\ kept' = kept /\ final' = final
      /\ staged' = staged /\ dump' = dump /\ missing' = missing /\ exit' = exit
      /\ options' = options /\ modules' = modules /\ copies' = copies /\ written' = TRUE
      /\ manifests' = {j \in manifests : Part(kept[j]) # "vendor_dlkm"}
      /\ todo' = IF options.dumpRoot THEN final ELSE {}
  BY DEF WriteMakefiles, Emitted, StageList
<1>1. ListInv' /\ OwnPartitionFirst'
  BY <1>0, ListKept, StagedKept
<1>2. FilterPart' /\ SuccessMeansStaged' /\ StageInv' /\ ModulesInv'
  BY <1>0 DEF TreeInv, TreeTypeOK, FilterPart, FilterPhases, SuccessMeansStaged, StageInv, ModulesInv
<1>3. TreeTypeOK'
  BY <1>0 DEF TreeInv, TreeTypeOK
<1>4. ASSUME NEW j \in final
      PROVE  \/ InMakefiles(j)' \/ Overwritten(j)'
             \/ KindOf(j) = "vintf_manifest" /\ Part(kept[j]) = "vendor_dlkm"
  <2>1. Placed(j)
    BY <1>0 DEF TreeInv, ModulesInv
  <2>2. KindOf(j) \in Kinds
    BY ListFacts DEF TreeInv, ListInv
  <2>3. CASE IsElf(kept[j])
    BY <2>1, <2>3, <1>0 DEF Placed, InMakefiles, InHalf, Overwritten, Rivals, IsElf
  <2>4. CASE ~IsElf(kept[j])
    BY <2>1, <2>2, <2>4, <1>0 DEF Placed, InMakefiles, IsElf, KindOf, Kinds
  <2> QED
    BY <2>3, <2>4
<1>5. KeptIsBuilt'
  BY <1>0, <1>4 DEF KeptIsBuilt, KindOf, Part
<1> QED
  BY <1>1, <1>2, <1>3, <1>5 DEF TreeInv

\* A blob is copied.  Several entries may have one source: the last copy stays, and
\* it came from that entry's own places if they had it.
LEMMA StageTreeInv ==
  ASSUME TreeInv, NEW j \in todo, Stage(j)
  PROVE  TreeInv'
<1>0. /\ phase = "stage" /\ phase' = phase /\ todo' = todo \ {j} /\ kept' = kept /\ final' = final
      /\ dump' = dump /\ written' = written /\ missing' = missing /\ exit' = exit
      /\ options' = options /\ modules' = modules /\ copies' = copies /\ manifests' = manifests
  BY DEF Stage, vars
<1>1. j \in final /\ kept[j] \in Entry /\ kept[j].src \in Sources /\ exit = "none"
  BY <1>0, ListFacts DEF TreeInv, TreeTypeOK, ListInv
<1>2. PICK c \in Candidates(kept[j]) : staged' = [staged EXCEPT ![kept[j].src] = c]
  BY DEF Stage
<1>3. /\ c \in Places /\ c # None
      /\ c \in {Own(kept[j])[n] : n \in 1..5} \/ Held(kept[j]) = {}
  BY <1>1, CandidateFacts, TreeAssumption DEF TreeInv, TreeTypeOK
<1>4. /\ staged \in [Sources -> Places \cup {None}]
      /\ staged' \in [Sources -> Places \cup {None}]
      /\ staged'[kept[j].src] = c
      /\ \A s \in Sources : s # kept[j].src => staged'[s] = staged[s]
  BY <1>1, <1>2, <1>3 DEF TreeInv, TreeTypeOK
<1>5. ListInv' /\ KeptIsBuilt'
  BY <1>0, ListKept, BuiltKept
<1>6. FilterPart' /\ SuccessMeansStaged' /\ ModulesInv' /\ TreeTypeOK'
  BY <1>0, <1>1, <1>4 DEF TreeInv, TreeTypeOK, FilterPart, FilterPhases, SuccessMeansStaged, ModulesInv
<1>7. StageInv'
  <2>1. \A k \in final : kept[k].src \in Sources
    BY ListFacts DEF TreeInv, ListInv
  <2> QED
    BY <2>1, <1>0, <1>3, <1>4 DEF TreeInv, StageInv
<1>8. OwnPartitionFirst'
  <2>1. \A k \in final : Own(kept[k])' = Own(kept[k]) /\ Held(kept[k])' = Held(kept[k])
    BY <1>0 DEF Own, Held, Tried, Part
  <2>2. ASSUME NEW s \in Sources, staged'[s] # None
        PROVE  \E k \in final : /\ kept[k].src = s
                                /\ staged'[s] \in {Own(kept[k])[n] : n \in 1..5} \/ Held(kept[k]) = {}
    <3>1. CASE s = kept[j].src
      BY <3>1, <1>1, <1>3, <1>4
    <3>2. CASE s # kept[j].src
      BY <3>2, <2>2, <1>4 DEF TreeInv, OwnPartitionFirst
    <3> QED
      BY <3>1, <3>2
  <2> QED
    BY <2>1, <2>2, <1>0 DEF OwnPartitionFirst
<1> QED
  BY <1>5, <1>6, <1>7, <1>8 DEF TreeInv

\* A blob the dump does not have.
LEMMA StageMissingInv ==
  ASSUME TreeInv, NEW j \in todo, StageMissing(j)
  PROVE  TreeInv'
<1>0. /\ phase = "stage" /\ phase' = phase /\ todo' = todo \ {j} /\ kept' = kept /\ final' = final
      /\ dump' = dump /\ written' = written /\ staged' = staged /\ exit' = exit
      /\ options' = options /\ modules' = modules /\ copies' = copies /\ manifests' = manifests
      /\ missing' = IF kept[j].optional THEN missing ELSE missing \cup {j}
  BY DEF StageMissing, vars
<1>1. ListInv' /\ KeptIsBuilt' /\ OwnPartitionFirst'
  BY <1>0, ListKept, BuiltKept, StagedKept
<1>2. FilterPart' /\ SuccessMeansStaged' /\ ModulesInv' /\ TreeTypeOK'
  BY <1>0 DEF TreeInv, TreeTypeOK, FilterPart, FilterPhases, SuccessMeansStaged, ModulesInv
<1>3. StageInv'
  BY <1>0 DEF TreeInv, StageInv
<1> QED
  BY <1>1, <1>2, <1>3 DEF TreeInv

\* The end: with a dump, success means that nothing is missing or that it may be.
LEMMA FinishInv == TreeInv /\ Finish => TreeInv'
<1> SUFFICES ASSUME TreeInv, Finish PROVE TreeInv'
  OBVIOUS
<1>0. /\ phase = "stage" /\ todo = {} /\ phase' = "exit" /\ todo' = todo /\ kept' = kept /\ final' = final
      /\ dump' = dump /\ written' = written /\ staged' = staged /\ missing' = missing
      /\ options' = options /\ modules' = modules /\ copies' = copies /\ manifests' = manifests
      /\ exit' = IF missing = {} \/ options.allowMissing THEN "ok" ELSE "error"
  BY DEF Finish, Exit, MissingIsFine
<1>1. ListInv' /\ KeptIsBuilt' /\ OwnPartitionFirst'
  BY <1>0, ListKept, BuiltKept, StagedKept
<1>2. FilterPart' /\ StageInv' /\ ModulesInv' /\ TreeTypeOK'
  BY <1>0 DEF TreeInv, TreeTypeOK, FilterPart, FilterPhases, StageInv, ModulesInv
<1>3. SuccessMeansStaged'
  BY <1>0 DEF TreeInv, StageInv, SuccessMeansStaged
<1> QED
  BY <1>1, <1>2, <1>3 DEF TreeInv

\* A step that changes nothing keeps the invariant.
LEMMA TreeStutterInv == TreeInv /\ UNCHANGED allVars => TreeInv'
<1> SUFFICES ASSUME TreeInv, UNCHANGED allVars PROVE TreeInv'
  OBVIOUS
<1>0. UNCHANGED <<vars, phase, kept, final, options, dump, todo, modules, copies, manifests, written,
                  staged, missing, exit>>
  BY DEF allVars, treeVars, vars
<1>1. ListInv' /\ KeptIsBuilt' /\ OwnPartitionFirst'
  BY <1>0, ListKept, BuiltKept, StagedKept
<1>2. phase \in FilterPhases => FilterInv'
  BY <1>0, StutterInv DEF TreeInv, FilterPart
<1>3. FilterPart' /\ TreeTypeOK'
  BY <1>0, <1>2 DEF TreeInv, TreeTypeOK, FilterPart
<1>4. ModulesInv'
  BY <1>0 DEF TreeInv, ModulesInv, Placed, InHalf, Overwritten, Rivals, IsElf, KindOf
<1>5. StageInv' /\ SuccessMeansStaged'
  BY <1>0 DEF TreeInv, StageInv, SuccessMeansStaged
<1> QED
  BY <1>1, <1>3, <1>4, <1>5 DEF TreeInv

-----------------------------------------------------------------------------
\* Every step of extract-files.py keeps the tables, the makefiles and the staged blobs in step with the list.
THEOREM TreeInductive == TreeSpec => []TreeInv
<1>1. TreeInv /\ [TreeNext]_allVars => TreeInv'
  <2> SUFFICES ASSUME TreeInv, TreeNext PROVE TreeInv'
    BY TreeStutterInv
  <2>1. CASE Filter
    BY <2>1, FilterTreeInv
  <2>2. CASE NoVendorRoot
    BY <2>2, NoVendorRootInv
  <2>3. CASE BeginModules
    BY <2>3, BeginModulesInv
  <2>4. CASE \E j \in todo : MakeModule(j) \/ Stage(j) \/ StageMissing(j)
    BY <2>4, MakeModuleInv, StageTreeInv, StageMissingInv
  <2>5. CASE WriteMakefiles
    BY <2>5, WriteMakefilesInv
  <2>6. CASE Finish
    BY <2>6, FinishInv
  <2> QED
    BY <2>1, <2>2, <2>3, <2>4, <2>5, <2>6 DEF TreeNext
<1> QED
  BY <1>1, TreeInitInv, PTL DEF TreeSpec

\* For every list and whatever names module_name gives, every entry the filter kept
\* reaches the makefiles, but for manifests on vendor_dlkm and for libraries and
\* binaries whose name and word size a later destination shares.
THEOREM KeptIsBuiltHolds == TreeSpec => []KeptIsBuilt
<1>1. TreeInv => KeptIsBuilt
  BY DEF TreeInv
<1> QED
  BY <1>1, TreeInductive, PTL

\* For every list and dump, a run that stages and succeeds without --allow-missing
\* has staged every blob that is not optional.
THEOREM SuccessMeansStagedHolds == TreeSpec => []SuccessMeansStaged
<1>1. TreeInv => SuccessMeansStaged
  BY DEF TreeInv
<1> QED
  BY <1>1, TreeInductive, PTL

\* For every dump and every order in which Python walks the set of partitions, a blob
\* comes from another partition only if its own places do not have it.
THEOREM OwnPartitionFirstHolds == TreeSpec => []OwnPartitionFirst
<1>1. TreeInv => OwnPartitionFirst
  BY DEF TreeInv
<1> QED
  BY <1>1, TreeInductive, PTL
=============================================================================
