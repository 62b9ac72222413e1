----------------------------- MODULE BlobFilter -----------------------------
(***************************************************************************)
(* filtered_entries of extract-files.py: the entries of                    *)
(* proprietary-files.txt lose the configs the device owns, repeated        *)
(* destinations, and the libraries and binaries that a partition of higher *)
(* priority also has.                                                      *)
(*                                                                         *)
(* A destination is a number: its place among all destinations as strings. *)
(* Info gives what split_partition_path and classify make of it.           *)
(***************************************************************************)
EXTENDS Integers, Sequences

CONSTANTS
  Dests,      \* destinations
  Info,       \* what the script derives from each
  Sources,    \* source paths
  Norms,      \* values of normalized_dest
  Stems,      \* file names without directory and suffix
  Names,      \* module names, after module_name has sanitized them
  Excluded,   \* EXCLUDED_NORMALIZED_DESTS
  RawLists    \* lists that read_entries may return

KnownPartitions == {"odm", "product", "system", "system_ext", "vendor", "vendor_dlkm"}
ElfKinds == {"shared_lib", "binary"}
Kinds == ElfKinds \cup {"copy_file", "vintf_manifest"}
Entry == [src : Sources, dest : Dests, optional : BOOLEAN]

ASSUME DestsAssumption ==
  /\ Dests \subseteq Nat
  /\ Info \in [Dests -> [part : KnownPartitions, norm : Norms, kind : Kinds,
                         arch : {"32", "64"}, stem : Stems, name : Names]]
ASSUME RawListsAssumption == RawLists \subseteq Seq(Entry)

Norm(e) == Info[e.dest].norm
Part(e) == Info[e.dest].part
IsElf(e) == Info[e.dest].kind \in ElfKinds

\* Libraries and binaries collide by stem, in a table each.
Keys == ElfKinds \X Stems
CollisionKey(e) == <<Info[e.dest].kind, Info[e.dest].stem>>

PartitionPriority ==
  [p \in KnownPartitions |->
     CASE p = "system_ext" -> 0 [] p = "product" -> 1 [] p = "system" -> 2
       [] p = "vendor" -> 3 [] p = "odm" -> 4 [] OTHER -> 99]
Priority(e) == PartitionPriority[Part(e)]

VARIABLES
  raw,        \* the list read
  phase, i,   \* the loop that runs, and its position
  kept,       \* unique_dests.values()
  winner,     \* collision key -> position in kept, 0 for none
  final,      \* positions in kept of final_entries
  dropped     \* <<loser, winner>> of the "dropped duplicate" lines

vars == <<raw, phase, i, kept, winner, final, dropped>>

Init ==
  /\ raw \in RawLists
  /\ phase = "read" /\ i = 1
  /\ kept = <<>>
  /\ winner = [k \in Keys |-> 0]
  /\ final = {}
  /\ dropped = {}

Seen(e) == \E j \in 1..Len(kept) : Norm(kept[j]) = Norm(e)

KeepsRepeats(e) == Norm(e) \notin Excluded                     \* mutant
Keeps(e) == Norm(e) \notin Excluded /\ ~Seen(e)

\* First loop: drop device-owned configs, keep the first of each destination.
ReadEntry ==
  /\ phase = "read" /\ i <= Len(raw)
  /\ kept' = IF Keeps(raw[i]) THEN Append(kept, raw[i]) ELSE kept
  /\ i' = i + 1
  /\ UNCHANGED <<raw, phase, winner, final, dropped>>

BeatsReversed(e, j) == j = 0 \/ Priority(e) > Priority(kept[j])  \* mutant
Beats(e, j) == j = 0 \/ Priority(e) < Priority(kept[j])

PositionAfter == i + 1                                         \* mutant
Position == i

\* Second loop: the first entry of the best priority wins its key.
PickWinner ==
  /\ phase = "winners" /\ i <= Len(kept)
  /\ LET e == kept[i]  k == CollisionKey(e) IN
     winner' = IF IsElf(e) /\ Beats(e, winner[k])
                 THEN [winner EXCEPT ![k] = Position] ELSE winner
  /\ i' = i + 1
  /\ UNCHANGED <<raw, phase, kept, final, dropped>>

WinnerOf(j) == winner[CollisionKey(kept[j])]
LosesTies(j) ==                                                \* mutant
  IsElf(kept[j]) /\ Priority(kept[j]) >= Priority(kept[WinnerOf(j)])
Loses(j) == IsElf(kept[j]) /\ Priority(kept[j]) > Priority(kept[WinnerOf(j)])

\* Third loop: entries of a lower priority than the winner are dropped.
Select ==
  /\ phase = "select" /\ i <= Len(kept)
  /\ IF Loses(i)
       THEN dropped' = dropped \cup {<<i, WinnerOf(i)>>} /\ UNCHANGED final
       ELSE final' = final \cup {i} /\ UNCHANGED dropped
  /\ i' = i + 1
  /\ UNCHANGED <<raw, phase, kept, winner>>

NextLoop ==
  /\ \/ phase = "read" /\ i > Len(raw) /\ phase' = "winners"
     \/ phase = "winners" /\ i > Len(kept) /\ phase' = "select"
     \/ phase = "select" /\ i > Len(kept) /\ phase' = "filtered"
  /\ i' = 1
  /\ UNCHANGED <<raw, kept, winner, final, dropped>>

Next == ReadEntry \/ PickWinner \/ Select \/ NextLoop

Spec == Init /\ [][Next]_vars

-----------------------------------------------------------------------------
(* Properties.                                                             *)

\* Type invariant of the three loops.
TypeOK ==
  /\ raw \in Seq(Entry)
  /\ phase \in {"read", "winners", "select", "filtered"}
  /\ i \in Nat \ {0}
  /\ kept \in Seq(Entry)
  /\ winner \in [Keys -> Nat]
  /\ \A k \in Keys : winner[k] <= Len(kept)
  /\ final \subseteq 1..Len(kept)
  /\ dropped \subseteq (1..Len(kept)) \X (1..Len(kept))

\* Nothing disappears without a replacement: every entry of the list is
\* device-owned, or its destination is in the filtered list, or it is a library
\* or binary and the filtered list has one of the same stem from a partition of
\* higher priority (a winner that another entry beats is never the replacement).
NothingLost ==
  phase = "filtered" =>
    \A n \in 1..Len(raw) :
      \/ Norm(raw[n]) \in Excluded
      \/ \E j \in final : Norm(kept[j]) = Norm(raw[n])
      \/ \E j \in 1..Len(kept), w \in final :
           /\ Norm(kept[j]) = Norm(raw[n])
           /\ IsElf(kept[j]) /\ IsElf(kept[w])
           /\ CollisionKey(kept[w]) = CollisionKey(kept[j])
           /\ Priority(kept[w]) < Priority(kept[j])

\* No destination is installed twice and no device-owned config survives.
DestinationsUnique ==
  \A j, k \in final :
    /\ Norm(kept[j]) \notin Excluded
    /\ j # k => Norm(kept[j]) # Norm(kept[k])

\* No library or binary of the filtered list is shadowed by one of the same stem
\* in a partition of another priority, whatever the order of the list.
NoShadowing ==
  phase = "filtered" =>
    \A j, k \in final :
      IsElf(kept[j]) /\ IsElf(kept[k]) /\ CollisionKey(kept[j]) = CollisionKey(kept[k])
        => Priority(kept[j]) = Priority(kept[k])

\* What the script prints of a dropped library: it is a duplicate of the winner,
\* so the word size it was built for is still served by the filtered list.
DroppedIsDuplicate ==
  phase = "filtered" =>
    \A d \in dropped : Info[kept[d[1]].dest].kind = "shared_lib" =>
      \E j \in final :
        /\ CollisionKey(kept[j]) = CollisionKey(kept[d[1]])
        /\ Info[kept[j].dest].arch = Info[kept[d[1]].dest].arch

-----------------------------------------------------------------------------
(* The inductive invariant behind the properties.                          *)

Positions == 1..Len(kept)

\* The first loop keeps one entry per destination and drops nothing else.
KeptInv ==
  /\ \A j \in Positions : Norm(kept[j]) \notin Excluded
  /\ \A j, k \in Positions : j # k => Norm(kept[j]) # Norm(kept[k])
  /\ \A n \in 1..Len(raw) : (phase = "read" => n < i) =>
       Norm(raw[n]) \in Excluded \/ \E j \in Positions : Norm(kept[j]) = Norm(raw[n])

\* A winner has the key it wins, and no entry passed so far has a better priority.
WinnerInv ==
  /\ phase = "read" => \A k \in Keys : winner[k] = 0
  /\ \A k \in Keys : winner[k] # 0 =>
       IsElf(kept[winner[k]]) /\ CollisionKey(kept[winner[k]]) = k
  /\ \A j \in Positions :
       IsElf(kept[j]) /\ phase # "read" /\ (phase = "winners" => j < i) =>
         WinnerOf(j) # 0 /\ Priority(kept[WinnerOf(j)]) <= Priority(kept[j])

\* The third loop has put every entry it passed on one side.
SelectInv ==
  /\ phase \in {"read", "winners"} => final = {}
  /\ \A j \in final : ~Loses(j)
  /\ \A j \in Positions :
       phase = "filtered" \/ (phase = "select" /\ j < i) => j \in final \/ Loses(j)

\* The conjunction is inductive.
FilterInv == TypeOK /\ KeptInv /\ WinnerInv /\ SelectInv

=============================================================================
