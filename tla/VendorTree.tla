----------------------------- MODULE VendorTree -----------------------------
(***************************************************************************)
(* main() of extract-files.py after the filter: the prebuilt modules, the  *)
(* makefiles of vendor/xiaomi/ruan and the blobs staged from a dump.       *)
(***************************************************************************)
EXTENDS BlobFilter

CONSTANTS
  RelDest,    \* destination -> its path inside its partition
  Rooted,     \* source paths that begin with the name of a partition
  Dumps,      \* dump roots: sets of places that exist in one
  None        \* an unset src32 or src64, or a source that is not staged

\* Where a dump may have a file: at its root, in the directory of a partition,
\* or in a directory of the same name inside that.
Dirs == {<<"root">>} \cup {<<p>> : p \in KnownPartitions}
                     \cup {<<p, p>> : p \in KnownPartitions}
Places == Dirs \X Sources

ASSUME TreeAssumption ==
  /\ RelDest \in [Dests -> Sources]
  /\ Rooted \subseteq Sources
  /\ Dumps \subseteq SUBSET Places
  /\ None \notin Sources \cup Places

VARIABLES
  options,    \* --vendor-root, --dump-root, --allow-missing
  dump,       \* the dump root
  todo,       \* positions of filtered entries the running loop has still to do
  modules,    \* module name -> src32 and src64
  copies, manifests,  \* positions of the entries emitted in the makefile
  written,    \* the four makefiles are below the vendor root
  staged,     \* source -> the place proprietary/<source> was copied from
  missing,    \* entries without a source
  exit        \* exit status

treeVars == <<modules, copies, manifests, written, staged, missing, exit>>
allVars == <<vars, options, dump, todo, treeVars>>

TreeInit ==
  /\ Init
  /\ options \in [vendorRoot : BOOLEAN, dumpRoot : BOOLEAN, allowMissing : BOOLEAN]
  /\ dump \in Dumps
  /\ todo = {}
  /\ modules = [n \in Names |-> [s32 |-> None, s64 |-> None]]
  /\ copies = {} /\ manifests = {}
  /\ written = FALSE
  /\ staged = [s \in Sources |-> None]
  /\ missing = {}
  /\ exit = "none"

Filter == Next /\ UNCHANGED <<options, dump, todo, treeVars>>

\* The entries come sorted by destination.
IsNext(j) == j \in todo /\ \A k \in todo : kept[j].dest <= kept[k].dest
KindOf(j) == Info[kept[j].dest].kind

-----------------------------------------------------------------------------
Exit(code) == exit' = code /\ phase' = "exit"

\* Without --vendor-root only the filtered list is written, and a --dump-root
\* is an error.
NoVendorRoot ==
  /\ phase = "filtered" /\ ~options.vendorRoot
  /\ Exit(IF options.dumpRoot THEN "error" ELSE "ok")
  /\ UNCHANGED <<raw, i, kept, winner, final, dropped, options, dump, todo,
                 modules, copies, manifests, written, staged, missing>>

BeginModules ==
  /\ phase = "filtered" /\ options.vendorRoot
  /\ phase' = "modules"
  /\ todo' = final
  /\ UNCHANGED <<raw, i, kept, winner, final, dropped, options, dump, treeVars>>

\* make_prebuilt_modules: one entry.
SetSourceOverwrites(e) ==                                     \* mutant: arch ignored
  modules' = [modules EXCEPT ![Info[e.dest].name].s64 = e.src]
SetSource(e) ==
  modules' = IF Info[e.dest].arch = "64"
               THEN [modules EXCEPT ![Info[e.dest].name].s64 = e.src]
               ELSE [modules EXCEPT ![Info[e.dest].name].s32 = e.src]

MakeModule(j) ==
  /\ phase = "modules" /\ IsNext(j)
  /\ todo' = todo \ {j}
  /\ \/ IsElf(kept[j]) /\ SetSource(kept[j]) /\ UNCHANGED <<copies, manifests>>
     \/ KindOf(j) = "copy_file" /\ copies' = copies \cup {j} /\ UNCHANGED <<modules, manifests>>
     \/ KindOf(j) = "vintf_manifest" /\ manifests' = manifests \cup {j} /\ UNCHANGED <<modules, copies>>
  /\ UNCHANGED <<vars, options, dump, written, staged, missing, exit>>

\* emit_vendor_mk has no variable for manifests on vendor_dlkm and skips them.
Emitted == {j \in manifests : Part(kept[j]) # "vendor_dlkm"}

StageList == IF options.dumpRoot THEN final ELSE {}

\* The four files are written before anything is staged.
WriteMakefiles ==
  /\ phase = "modules" /\ todo = {}
  /\ written' = TRUE
  /\ manifests' = Emitted
  /\ phase' = "stage"
  /\ todo' = StageList
  /\ UNCHANGED <<raw, i, kept, winner, final, dropped, options, dump, modules,
                 copies, staged, missing, exit>>

\* The places stage_from_dump tries for an entry, in order. A source that names its
\* partition is tried only at the root; others also under both names of the
\* file in the entry's own partition, and then in any partition, in the arbitrary
\* order of a set.
Own(e) == << <<<<"root">>, e.src>>,
             <<<<Part(e)>>, e.src>>, <<<<Part(e)>>, RelDest[e.dest]>>,
             <<<<Part(e), Part(e)>>, e.src>>, <<<<Part(e), Part(e)>>, RelDest[e.dest]>> >>
Tried(e) == IF e.src \in Rooted THEN <<Own(e)[1]>> ELSE Own(e)
Elsewhere(e) ==
  IF e.src \in Rooted THEN {}
  ELSE {c \in dump : /\ c[2] = e.src
                     /\ c[1] # <<"root">>
                     /\ Len(c[1]) = 2 => <<<<c[1][1]>>, e.src>> \notin dump}

Held(e) == {n \in DOMAIN Tried(e) : Tried(e)[n] \in dump}
AnyPlace(e) == {c \in dump : c[2] = e.src}                    \* mutant
Candidates(e) ==
  IF Held(e) = {} THEN Elsewhere(e)
  ELSE {Tried(e)[CHOOSE n \in Held(e) : \A m \in Held(e) : n <= m]}

Stage(j) ==
  /\ phase = "stage" /\ IsNext(j)
  /\ \E c \in Candidates(kept[j]) : staged' = [staged EXCEPT ![kept[j].src] = c]
  /\ todo' = todo \ {j}
  /\ UNCHANGED <<vars, options, dump, modules, copies, manifests, written,
                 missing, exit>>

StageMissing(j) ==
  /\ phase = "stage" /\ IsNext(j)
  /\ Candidates(kept[j]) = {}
  /\ missing' = IF kept[j].optional THEN missing ELSE missing \cup {j}
  /\ todo' = todo \ {j}
  /\ UNCHANGED <<vars, options, dump, modules, copies, manifests, written,
                 staged, exit>>

MissingAlwaysFine == TRUE                                     \* mutant
MissingIsFine == missing = {} \/ options.allowMissing

Finish ==
  /\ phase = "stage" /\ todo = {}
  /\ Exit(IF MissingIsFine THEN "ok" ELSE "error")
  /\ UNCHANGED <<raw, i, kept, winner, final, dropped, options, dump, todo,
                 modules, copies, manifests, written, staged, missing>>

TreeNext ==
  \/ Filter
  \/ NoVendorRoot
  \/ BeginModules
  \/ \E j \in todo : MakeModule(j) \/ Stage(j) \/ StageMissing(j)
  \/ WriteMakefiles
  \/ Finish

TreeSpec == TreeInit /\ [][TreeNext]_allVars

-----------------------------------------------------------------------------
(* Properties.                                                             *)

\* The entry's source is that of its word size in its module.
InHalf(j) ==
  LET m == modules[Info[kept[j].dest].name] IN
  kept[j].src = IF Info[kept[j].dest].arch = "64" THEN m.s64 ELSE m.s32

\* Libraries or binaries module_name gives one name, of one word size.
Rivals(j, k) ==
  /\ IsElf(kept[j]) /\ IsElf(kept[k])
  /\ Info[kept[j].dest].name = Info[kept[k].dest].name
  /\ Info[kept[j].dest].arch = Info[kept[k].dest].arch

Overwritten(j) ==
  \E k \in final : Rivals(j, k) /\ kept[j].dest < kept[k].dest /\ InHalf(k)

InMakefiles(j) ==
  j \in copies \/ j \in manifests \/ (IsElf(kept[j]) /\ InHalf(j))

\* Every entry the filter kept reaches the makefiles, a library or binary in the half
\* of its own word size, but for two kinds of loss nothing reports.  Manifests on
\* vendor_dlkm are left out; and module_name is not injective ("lib-a" and "lib_a",
\* or bin/ and bin64/, give one name), so of the libraries or binaries of one name and
\* word size only the last in the order of destinations has its source in the module.
\* The 32- and 64-bit halves of a module never overwrite each other.
KeptIsBuilt ==
  written =>
    \A j \in final : \/ InMakefiles(j)
                     \/ KindOf(j) = "vintf_manifest" /\ Part(kept[j]) = "vendor_dlkm"
                     \/ Overwritten(j)

\* A run that stages and succeeds without --allow-missing leaves no makefile
\* reference to a blob that is not there, optional entries excepted.
SuccessMeansStaged ==
  exit = "ok" /\ options.dumpRoot /\ ~options.allowMissing =>
    \A j \in final : kept[j].optional \/ staged[kept[j].src] # None

\* A blob comes from a partition other than its own only if neither the root of
\* the dump nor the partition of an entry with that source has it.
OwnPartitionFirst ==
  \A s \in Sources : staged[s] # None =>
    \E j \in final :
      /\ kept[j].src = s
      /\ staged[s] \in {Own(kept[j])[n] : n \in 1..5} \/ Held(kept[j]) = {}

=============================================================================
