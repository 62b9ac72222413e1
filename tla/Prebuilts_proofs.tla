--------------------------- MODULE Prebuilts_proofs ---------------------------
(*************************************************************************)
(* Proofs about Prebuilts for every set of ROMs, of modules and every    *)
(* bound on kills.                                                       *)
(*                                                                       *)
(* IInv ties the program counter of the running script to the tree:      *)
(* which directories are already empty, which files are already copied,  *)
(* and whether the temporary directory exists.                           *)
(*************************************************************************)
EXTENDS Prebuilts, TLAPS

Wiping == {"wipe dlkm", "wipe ramdisk", "wipe dtb", "wipe dtbs", "wipe prebuilts"}
Filling == {"kernel", "dtb", "ramdisk modules", "dlkm modules", "dtbs", "dtbo"}

\* The commands between the wipe of a module directory and the copies into it.
NoRamdisk == {"wipe dtb", "wipe dtbs", "wipe prebuilts", "read rom", "kernel", "dtb", "ramdisk modules"}
NoDlkm == NoRamdisk \cup {"wipe ramdisk", "dlkm modules"}

\* Each program is at one of its own commands.
Steps ==
    /\ job = "extract" => pc \in ExtractSteps
    /\ job = "align" => pc \in AlignSteps

\* The temporary directory exists from mktemp on.
Temps ==
    /\ job = "extract" /\ pc \in Filling => temps >= 1 /\ temps <= kills + 1
    /\ ~(job = "extract" /\ pc \in Filling) => temps <= kills

\* The directories are empty from the wipe to the copy, and what comes into them is
\* from the ROM at hand.
OneRom ==
    /\ ModulesOfOneRom
    /\ job = "extract" /\ pc \in NoDlkm => mods["modules/dlkm"] = {}
    /\ job = "extract" /\ pc \in NoRamdisk => mods["modules/ramdisk"] = {}
    /\ job = "extract" /\ pc \in Filling =>
           \A m \in mods["modules/dlkm"] \cup mods["modules/ramdisk"] : m[2] = rom

\* The files already written by the running program are whole, and the module
\* directories it has passed are filled.
Written ==
    /\ job = "extract" /\ pc \in Filling \ {"kernel"} => file["prebuilts/kernel"] = Bytes(rom, "raw")
    /\ job = "extract" /\ pc \in Filling \ {"kernel", "dtb"} => file["dtb/dtb.img"] = Bytes(rom, "raw")
    /\ job = "extract" /\ pc \in {"dlkm modules", "dtbs", "dtbo"} => Filled("modules/ramdisk", rom)
    /\ job = "extract" /\ pc \in {"dtbs", "dtbo"} => Filled("modules/dlkm", rom)
    /\ job = "align" /\ mode = "sync" /\ pc \in {"write dtb", "write dtbo", "sizes"} =>
           file["prebuilt/kernel"] = Bytes(rom, "raw")
    /\ job = "align" /\ mode = "sync" /\ pc \in {"write dtbo", "sizes"} => file["dtb/dtb.img"] = Bytes(rom, "raw")
    /\ job = "align" /\ mode = "sync" /\ pc = "sizes" => file["dtb/dtbo.img"] = Bytes(rom, "raw")
    /\ SuccessMeansWhole

USE DEF Wiping, Filling, NoRamdisk, NoDlkm

-----------------------------------------------------------------------------
\* Names of a ROM's modules, and those modules, are in their sets.
LEMMA ModulesTyped ==
    ASSUME NEW r \in Roms, NEW d \in ModuleDirs
    PROVE  /\ ModulesIn[r][d] \subseteq Modules
           /\ ModulesIn[r][d] \X {r} \subseteq Modules \X Roms
<1>1. ModulesIn[r][d] \subseteq Modules
  BY DEF Modules
<1>. QED
  BY <1>1

\* Putting modules of the ROM at hand into a directory keeps its type, and changes
\* nothing else.
LEMMA PutsFacts ==
    ASSUME TypeOK, NEW d \in ModuleDirs, NEW names \in SUBSET ModulesIn[rom][d], Puts(d, names)
    PROVE  /\ mods' \in [ModuleDirs -> SUBSET (Modules \X Roms)]
           /\ mods'[d] = mods[d] \cup names \X {rom}
           /\ \A c \in ModuleDirs \ {d} : mods'[c] = mods[c]
<1>1. names \X {rom} \subseteq Modules \X Roms
  BY ModulesTyped DEF TypeOK
<1>. QED
  BY <1>1 DEF TypeOK, Puts

\* A file that was written is a file, and not an absent one.
LEMMA BytesTyped ==
    ASSUME NEW r \in Roms, NEW form \in Forms
    PROVE  Bytes(r, form) \in Contents /\ Bytes(r, form) # Absent
BY DEF Bytes, Contents, Forms, Absent

\* The type invariant: every step leaves each variable in its set.  That temps
\* stays a natural number needs Temps.
LEMMA TypeStep ==
    ASSUME TypeOK, Temps, [Next]_vars
    PROVE  TypeOK'
<1>. USE RomsAssumption DEF TypeOK
<1>1. ASSUME NEW r \in Roms, ExtractImages(r) PROVE TypeOK'
  BY <1>1 DEF ExtractImages, Start, Modes, Jobs, ExtractSteps
<1>a. ASSUME NEW result \in Results, Ends(result), UNCHANGED <<file, mods, lost, temps, kills>> PROVE TypeOK'
  BY <1>a DEF Ends, Jobs
<1>b. ASSUME NEW next \in ExtractSteps \cup AlignSteps, Goes(next), UNCHANGED <<file, mods, lost, temps, kills>>
      PROVE  TypeOK'
  BY <1>b DEF Goes
<1>2. CASE CheckTools
  BY <1>2, <1>a, <1>b DEF CheckTools, Results, ExtractSteps
<1>3. ASSUME NEW at, NEW dirs, NEW files, NEW next \in ExtractSteps, Wipe(at, dirs, files, next)
      PROVE  TypeOK'
  BY <1>3 DEF Wipe, Goes, Contents
<1>4. CASE WipeDirectories
  BY <1>3, <1>4 DEF WipeDirectories, WipeRamdisk, WipePrebuilts, ExtractSteps
<1>5. CASE ReadRom
  <2>1. temps' \in Nat
    <3>1. temps \in Nat
      OBVIOUS
    <3>2. temps' = temps + 1
      BY <1>5 DEF ReadRom
    <3>. QED
      BY <3>1, <3>2
  <2>2. pc' \in ExtractSteps
    BY <1>5 DEF ReadRom, Goes, ExtractSteps
  <2>. QED
    BY <1>5, <2>1, <2>2 DEF ReadRom, Goes
<1>6. ASSUME NEW at, NEW f \in Files, NEW next \in ExtractSteps, CopyOut(at, f, next)
      PROVE  TypeOK'
  BY <1>6, BytesTyped DEF CopyOut, Goes, Forms
<1>7. ASSUME NEW at, NEW d \in ModuleDirs, NEW next \in ExtractSteps, CopyModules(at, d, next)
      PROVE  TypeOK'
  <2>1. PICK failed \in SUBSET ModulesIn[rom][d], left \in SUBSET ModulesIn[rom][d] :
            /\ left \subseteq failed
            /\ Puts(d, (ModulesIn[rom][d] \ failed) \cup left)
            /\ lost' = [lost EXCEPT ![d] = failed]
    BY <1>7 DEF CopyModules
  <2>2. (ModulesIn[rom][d] \ failed) \cup left \in SUBSET ModulesIn[rom][d]
    OBVIOUS
  <2>3. mods' \in [ModuleDirs -> SUBSET (Modules \X Roms)]
    BY <2>1, <2>2, PutsFacts
  <2>4. lost' \in [ModuleDirs -> SUBSET Modules]
    BY <2>1, ModulesTyped
  <2>. QED
    BY <1>7, <2>3, <2>4 DEF CopyModules, Goes
<1>8. CASE SplitDtbs
  BY <1>8 DEF SplitDtbs, Goes, ExtractSteps
<1>9. CASE MakeDtbo
  BY <1>9, BytesTyped DEF MakeDtbo, Ends, Temps, Files, Extracted, Forms, Results, Jobs
<1>10. ASSUME NEW f \in Files, Torn(f) PROVE file' \in [Files -> Contents]
  BY <1>10, BytesTyped DEF Torn, Forms
<1>c. ASSUME Interrupted
      PROVE  file' \in [Files -> Contents] /\ mods' \in [ModuleDirs -> SUBSET (Modules \X Roms)]
  <2>1. CASE UNCHANGED <<file, mods>>
    BY <2>1
  <2>2. CASE pc \in DOMAIN Target /\ Torn(Target[pc]) /\ UNCHANGED mods
    BY <1>10, <2>2 DEF Target, Files, Extracted
  <2>3. ASSUME pc \in DOMAIN ModuleTarget, UNCHANGED file,
               NEW some \in SUBSET ModulesIn[rom][ModuleTarget[pc]], Puts(ModuleTarget[pc], some)
        PROVE  mods' \in [ModuleDirs -> SUBSET (Modules \X Roms)]
    <3>1. ModuleTarget[pc] \in ModuleDirs
      BY <2>3 DEF ModuleTarget, ModuleDirs
    <3>. QED
      BY <2>3, <3>1, PutsFacts
  <2>. QED
    BY <1>c, <2>1, <2>2, <2>3 DEF Interrupted
<1>11. CASE Fail
  <2>1. file' \in [Files -> Contents] /\ mods' \in [ModuleDirs -> SUBSET (Modules \X Roms)]
    BY <1>c, <1>11 DEF Fail
  <2>2. temps' \in Nat
    <3>1. pc \in Wiping \cup {"read rom"} \/ pc \in Filling
      BY <1>11 DEF Fail, ExtractSteps
    <3>2. CASE pc \in Wiping \cup {"read rom"}
      BY <1>11, <3>2 DEF Fail, Cleanup
    <3>3. CASE pc \in Filling
      <4>1. temps >= 1 /\ temps \in Nat
        BY <1>11, <3>3 DEF Fail, Temps
      <4>2. temps' = temps - 1
        BY <1>11, <3>3 DEF Fail, Cleanup
      <4>. QED
        BY <4>1, <4>2
    <3>. QED
      BY <3>1, <3>2, <3>3
  <2>. QED
    BY <1>11, <2>1, <2>2 DEF Fail, Ends, Results, Jobs
<1>12. ASSUME NEW r \in Roms, NEW s \in Modes, StockBootAlignment(r, s) PROVE TypeOK'
  BY <1>12 DEF StockBootAlignment, Start, Jobs, AlignSteps
<1>13. CASE EnsureExists
  BY <1>13, <1>a, <1>b DEF EnsureExists, AlignSteps, Results
<1>14. CASE ParseImages
  BY <1>14, <1>a, <1>b DEF ParseImages, AlignSteps, Results
<1>15. ASSUME NEW at, NEW f \in Files, NEW next \in AlignSteps, WriteAllBytes(at, f, next)
       PROVE  TypeOK'
  BY <1>15, BytesTyped DEF WriteAllBytes, Goes, Forms
<1>16. CASE SyncFromRom
  BY <1>15, <1>16 DEF SyncFromRom, Files, Aligned, AlignSteps
<1>17. CASE CheckSizes
  BY <1>17 DEF CheckSizes, Ends, Jobs, Results
<1>18. CASE BootPreflight
  BY <1>18 DEF BootPreflight, Modes, Results
<1>19. ASSUME NEW r \in Roms, NEW form \in {"raw", "bootimg"}, PlaceByHand(r, form) PROVE TypeOK'
  BY <1>19, BytesTyped DEF PlaceByHand, NoOutcome, Forms, Modes, Jobs, Results
<1>20. CASE Kill
  <2>1. file' \in [Files -> Contents] /\ mods' \in [ModuleDirs -> SUBSET (Modules \X Roms)]
    BY <1>c, <1>10, <1>20 DEF Kill, AlignTarget, Files, Aligned
  <2>. QED
    BY <1>20, <2>1 DEF Kill, Ends, Jobs, Results
<1>21. CASE UNCHANGED vars
  BY <1>21 DEF vars
<1>22. CASE Extraction
  BY <1>22, <1>2, <1>4, <1>5, <1>6, <1>7, <1>8, <1>9, <1>11 DEF Extraction, Files, Extracted, ModuleDirs, ExtractSteps
<1>. QED
  BY <1>1, <1>12, <1>13, <1>14, <1>16, <1>17, <1>18, <1>19, <1>20, <1>21, <1>22 DEF Next, Alignment

-----------------------------------------------------------------------------
\* Every program stays within its own commands.
LEMMA StepsStep ==
    ASSUME TypeOK, Steps, [Next]_vars
    PROVE  Steps'
<1>. USE DEF Steps, ExtractSteps, AlignSteps
<1>1. CASE Extraction
  BY <1>1 DEF Extraction, CheckTools, WipeDirectories, WipeRamdisk, WipePrebuilts, Wipe, ReadRom, CopyOut,
              CopyModules, SplitDtbs, MakeDtbo, Fail, Goes, Ends
<1>2. CASE Alignment
  BY <1>2 DEF Alignment, EnsureExists, ParseImages, SyncFromRom, WriteAllBytes, CheckSizes, Goes, Ends
<1>3. CASE Kill \/ BootPreflight \/ UNCHANGED vars
  BY <1>3 DEF Kill, BootPreflight, Ends, vars
<1>4. ASSUME NEW r \in Roms, NEW form, PlaceByHand(r, form) PROVE Steps'
  BY <1>4 DEF PlaceByHand
<1>5. ASSUME NEW r \in Roms, ExtractImages(r) PROVE Steps'
  BY <1>5 DEF ExtractImages, Start
<1>6. ASSUME NEW r \in Roms, NEW s, StockBootAlignment(r, s) PROVE Steps'
  BY <1>6 DEF StockBootAlignment, Start
<1>. QED
  BY <1>1, <1>2, <1>3, <1>4, <1>5, <1>6 DEF Next

\* The number of temporary directories: the extraction makes one, and takes it
\* away unless it is killed.
LEMMA TempsStep ==
    ASSUME TypeOK, Steps, Temps, [Next]_vars
    PROVE  Temps'
<1>0. temps \in Nat /\ kills \in Nat
  BY RomsAssumption DEF TypeOK
<1>1. CASE Extraction
  <2>1. CASE CheckTools \/ WipeDirectories
    BY <2>1, <1>0 DEF Temps, CheckTools, WipeDirectories, WipeRamdisk, WipePrebuilts, Wipe, Goes, Ends
  <2>2. CASE ReadRom
    <3>1. temps <= kills
      BY <2>2 DEF Temps, ReadRom
    <3>2. temps' = temps + 1 /\ kills' = kills /\ pc' = "kernel" /\ job' = "extract"
      BY <2>2 DEF ReadRom, Goes
    <3>3. temps' >= 1 /\ temps' <= kills' + 1
      BY <3>1, <3>2, <1>0
    <3>. QED
      BY <3>2, <3>3 DEF Temps
  <2>3. ASSUME NEW at \in Filling, NEW f, NEW next \in Filling, CopyOut(at, f, next) PROVE Temps'
    BY <2>3, <1>0 DEF Temps, CopyOut, Goes
  <2>4. ASSUME NEW at \in Filling, NEW d, NEW next \in Filling, CopyModules(at, d, next) PROVE Temps'
    BY <2>4, <1>0 DEF Temps, CopyModules, Goes
  <2>5. CASE SplitDtbs
    BY <2>5, <1>0 DEF Temps, SplitDtbs, Goes
  <2>6. CASE MakeDtbo
    <3>1. temps <= kills + 1
      BY <2>6 DEF Temps, MakeDtbo
    <3>2. temps' = temps - 1 /\ kills' = kills /\ job' = "none"
      BY <2>6 DEF MakeDtbo, Ends
    <3>3. temps' <= kills'
      BY <3>1, <3>2, <1>0
    <3>. QED
      BY <3>2, <3>3 DEF Temps
  <2>7. CASE Fail
    <3>1. pc \in Wiping \cup {"read rom"} \/ pc \in Filling
      BY <2>7 DEF Fail, ExtractSteps
    <3>2. kills' = kills /\ job' = "none" /\ job = "extract"
      BY <2>7 DEF Fail, Ends
    <3>3. CASE pc \in Wiping \cup {"read rom"}
      <4>1. temps' = temps /\ temps <= kills
        BY <2>7, <3>3 DEF Fail, Cleanup, Temps
      <4>. QED
        BY <3>2, <4>1 DEF Temps
    <3>4. CASE pc \in Filling
      <4>1. temps' = temps - 1 /\ temps <= kills + 1
        BY <2>7, <3>2, <3>4 DEF Fail, Cleanup, Temps
      <4>2. temps' <= kills'
        BY <3>2, <4>1, <1>0
      <4>. QED
        BY <3>2, <4>2 DEF Temps
    <3>. QED
      BY <3>1, <3>3, <3>4
  <2>. QED
    BY <1>1, <2>1, <2>2, <2>3, <2>4, <2>5, <2>6, <2>7 DEF Extraction
<1>2. CASE Alignment
  BY <1>2, <1>0 DEF Temps, Alignment, EnsureExists, ParseImages, SyncFromRom, WriteAllBytes, CheckSizes, Goes, Ends
<1>3. CASE Kill
  <2>1. temps <= kills + 1
    <3>1. CASE job = "extract" /\ pc \in Filling
      BY <3>1 DEF Temps
    <3>2. CASE ~(job = "extract" /\ pc \in Filling)
      <4>1. temps <= kills
        BY <3>2 DEF Temps
      <4>. QED
        BY <4>1, <1>0
    <3>. QED
      BY <3>1, <3>2
  <2>2. temps' = temps /\ kills' = kills + 1 /\ job' = "none"
    BY <1>3 DEF Kill, Ends
  <2>3. temps' <= kills'
    BY <2>1, <2>2, <1>0
  <2>. QED
    BY <2>2, <2>3 DEF Temps
<1>4. CASE BootPreflight \/ UNCHANGED vars
  BY <1>4 DEF Temps, BootPreflight, vars
<1>5. ASSUME NEW r \in Roms, NEW form, PlaceByHand(r, form) PROVE Temps'
  BY <1>5 DEF Temps, PlaceByHand
<1>6. ASSUME NEW r \in Roms, ExtractImages(r) PROVE Temps'
  BY <1>6 DEF Temps, ExtractImages, Start
<1>7. ASSUME NEW r \in Roms, NEW s, StockBootAlignment(r, s) PROVE Temps'
  BY <1>7 DEF Temps, StockBootAlignment, Start
<1>. QED
  BY <1>1, <1>2, <1>3, <1>4, <1>5, <1>6, <1>7 DEF Next

\* The module directories: emptied one after the other before the first copy.
LEMMA OneRomStep ==
    ASSUME TypeOK, Steps, OneRom, [Next]_vars
    PROVE  OneRom'
<1>. USE DEF OneRom, ModulesOfOneRom
<1>0. mods \in [ModuleDirs -> SUBSET (Modules \X Roms)] /\ ModuleDirs = {"modules/dlkm", "modules/ramdisk"}
  BY DEF TypeOK, ModuleDirs
<1>1. ASSUME UNCHANGED mods, job' # "extract" \/ pc' \in {"check", "wipe dlkm"} PROVE OneRom'
  BY <1>1
<1>2. ASSUME UNCHANGED <<mods, job, rom>>, job = "extract",
             pc' \in NoDlkm => pc \in NoDlkm, pc' \in NoRamdisk => pc \in NoRamdisk,
             pc' \in Filling => pc \in Filling \/ (pc \in NoDlkm /\ pc \in NoRamdisk)
      PROVE  OneRom'
  BY <1>2
\* Modules of the ROM at hand come into a directory.
<1>a. ASSUME job = "extract", pc \in Filling, NEW d \in ModuleDirs,
             NEW names \in SUBSET ModulesIn[rom][d], Puts(d, names)
      PROVE  \A m \in mods'["modules/dlkm"] \cup mods'["modules/ramdisk"] : m[2] = rom
  <2>1. \A m \in mods["modules/dlkm"] \cup mods["modules/ramdisk"] : m[2] = rom
    BY <1>a
  <2>2. \A m \in names \X {rom} : m[2] = rom
    OBVIOUS
  <2>3. /\ mods'[d] = mods[d] \cup names \X {rom}
        /\ \A c \in ModuleDirs \ {d} : mods'[c] = mods[c]
    BY <1>a, PutsFacts
  <2>. QED
    BY <1>0, <2>1, <2>2, <2>3
<1>3. CASE CheckTools
  BY <1>1, <1>3 DEF CheckTools, Goes, Ends
<1>4. CASE Wipe("wipe dlkm", {"modules/dlkm"}, {}, "wipe ramdisk")
  BY <1>0, <1>4 DEF Wipe, Goes
<1>5. CASE WipeRamdisk
  BY <1>0, <1>5 DEF WipeRamdisk, Wipe, Goes
<1>6. ASSUME NEW at, NEW files, NEW next \in {"wipe dtbs", "wipe prebuilts", "read rom"}, Wipe(at, {}, files, next),
             at \in {"wipe dtb", "wipe dtbs", "wipe prebuilts"}
      PROVE  OneRom'
  <2>1. mods' = mods
    BY <1>0, <1>6 DEF Wipe
  <2>. QED
    BY <1>2, <1>6, <2>1 DEF Wipe, Goes
<1>7. CASE WipeDirectories
  BY <1>4, <1>5, <1>6, <1>7 DEF WipeDirectories, WipePrebuilts
<1>8. CASE ReadRom \/ SplitDtbs
  BY <1>2, <1>8 DEF ReadRom, SplitDtbs, Goes
<1>9. ASSUME NEW at \in {"kernel", "dtb"}, NEW f, NEW next \in {"dtb", "ramdisk modules"}, CopyOut(at, f, next)
      PROVE  OneRom'
  BY <1>2, <1>9 DEF CopyOut, Goes
<1>10. ASSUME NEW at \in {"ramdisk modules", "dlkm modules"}, NEW d \in ModuleDirs,
              NEW next \in {"dlkm modules", "dtbs"}, CopyModules(at, d, next),
              d = "modules/dlkm" => next = "dtbs"
       PROVE  OneRom'
  <2>1. PICK failed \in SUBSET ModulesIn[rom][d], left \in SUBSET ModulesIn[rom][d] :
            /\ left \subseteq failed
            /\ Puts(d, (ModulesIn[rom][d] \ failed) \cup left)
    BY <1>10 DEF CopyModules
  <2> DEFINE names == (ModulesIn[rom][d] \ failed) \cup left
  <2>2. names \in SUBSET ModulesIn[rom][d]
    OBVIOUS
  <2>3. job = "extract" /\ pc = at /\ job' = job /\ rom' = rom /\ pc' = next
    BY <1>10 DEF CopyModules, Goes
  <2>4. \A m \in mods'["modules/dlkm"] \cup mods'["modules/ramdisk"] : m[2] = rom
    BY <1>a, <2>1, <2>2, <2>3
  <2>5. next = "dlkm modules" => mods'["modules/dlkm"] = {}
    <3>1. d # "modules/dlkm" => mods'["modules/dlkm"] = mods["modules/dlkm"]
      BY <1>0, <2>1, <2>2, PutsFacts
    <3>2. mods["modules/dlkm"] = {}
      BY <2>3, <1>10
    <3>. QED
      BY <3>1, <3>2, <1>10
  <2>. QED
    BY <2>3, <2>4, <2>5
<1>b. ASSUME job = "extract", Interrupted, job' = "none" PROVE OneRom'
  <2>1. CASE UNCHANGED mods
    BY <1>1, <1>b, <2>1
  <2>2. ASSUME pc \in DOMAIN ModuleTarget,
               NEW some \in SUBSET ModulesIn[rom][ModuleTarget[pc]], Puts(ModuleTarget[pc], some)
        PROVE  OneRom'
    <3>1. ModuleTarget[pc] \in ModuleDirs /\ pc \in Filling
      BY <2>2 DEF ModuleTarget, ModuleDirs
    <3>2. \A m \in mods'["modules/dlkm"] \cup mods'["modules/ramdisk"] : m[2] = rom
      BY <1>a, <1>b, <2>2, <3>1
    <3>. QED
      BY <1>b, <3>2
  <2>. QED
    BY <1>b, <2>1, <2>2 DEF Interrupted
<1>11. CASE MakeDtbo \/ Fail
  BY <1>1, <1>b, <1>11 DEF MakeDtbo, Fail, Ends
<1>12. CASE Extraction
  BY <1>3, <1>7, <1>8, <1>9, <1>10, <1>11, <1>12 DEF Extraction, ModuleDirs
<1>13. CASE Alignment
  BY <1>1, <1>13 DEF Alignment, EnsureExists, ParseImages, SyncFromRom, WriteAllBytes, CheckSizes, Goes, Ends
<1>14. CASE Kill \/ BootPreflight
  BY <1>1, <1>b, <1>14 DEF Kill, BootPreflight, Ends
<1>15. ASSUME NEW r \in Roms, NEW form, PlaceByHand(r, form) PROVE OneRom'
  BY <1>1, <1>15 DEF PlaceByHand
<1>16. ASSUME NEW r \in Roms, ExtractImages(r) PROVE OneRom'
  BY <1>1, <1>16 DEF ExtractImages, Start
<1>17. ASSUME NEW r \in Roms, NEW s, StockBootAlignment(r, s) PROVE OneRom'
  BY <1>1, <1>17 DEF StockBootAlignment, Start
<1>18. CASE UNCHANGED vars
  BY <1>18 DEF vars
<1>. QED
  BY <1>12, <1>13, <1>14, <1>15, <1>16, <1>17, <1>18 DEF Next

-----------------------------------------------------------------------------
\* The files written so far are whole, and all of them are at the end.
LEMMA WrittenStep ==
    ASSUME TypeOK, Steps, OneRom, Written, [Next]_vars
    PROVE  Written'
<1>. USE DEF Written, SuccessMeansWhole
<1>0. /\ file \in [Files -> Contents]
      /\ Extracted = {"prebuilts/kernel", "dtb/dtb.img", "dtb/dtbo.img"} /\ Extracted \subseteq Files
      /\ Aligned = {"prebuilt/kernel", "dtb/dtb.img", "dtb/dtbo.img"} /\ Aligned \subseteq Files
  BY DEF TypeOK, Files, Extracted, Aligned
\* A program ends without reporting success.
<1>1. ASSUME NEW result \in {"refused", "failed", "killed", "missing", "mismatch", "invalid"}, Ends(result)
      PROVE  Written'
  BY <1>1 DEF Ends
\* A program starts, or is at a command before its first copy.
<1>2. ASSUME job' = "extract", pc' \in {"check", "read rom", "kernel"} \cup Wiping PROVE Written'
  BY <1>2
<1>3. ASSUME job' = "align", pc' \in {"exists", "parse", "write kernel"} PROVE Written'
  BY <1>3
<1>4. CASE CheckTools
  BY <1>1, <1>2, <1>4 DEF CheckTools, Goes
<1>5. CASE WipeDirectories
  BY <1>2, <1>5 DEF WipeDirectories, WipeRamdisk, WipePrebuilts, Wipe, Goes
<1>6. CASE ReadRom
  BY <1>2, <1>6 DEF ReadRom, Goes
<1>7. CASE CopyOut("kernel", "prebuilts/kernel", "dtb")
  BY <1>0, <1>7 DEF CopyOut, Goes
<1>8. CASE CopyOut("dtb", "dtb/dtb.img", "ramdisk modules")
  BY <1>0, <1>8 DEF CopyOut, Goes
\* Each module directory is empty when its copies begin.
<1>a. ASSUME NEW at, NEW d \in ModuleDirs, NEW next, CopyModules(at, d, next), mods[d] = {}
      PROVE  /\ Filled(d, rom)'
             /\ \A c \in ModuleDirs \ {d} : mods'[c] = mods[c] /\ lost'[c] = lost[c]
  <2>1. PICK failed \in SUBSET ModulesIn[rom][d], left \in SUBSET ModulesIn[rom][d] :
            /\ left \subseteq failed
            /\ Puts(d, (ModulesIn[rom][d] \ failed) \cup left)
            /\ lost' = [lost EXCEPT ![d] = failed]
    BY <1>a DEF CopyModules
  <2>2. (ModulesIn[rom][d] \ failed) \cup left \in SUBSET ModulesIn[rom][d]
    OBVIOUS
  <2>3. /\ mods'[d] = ((ModulesIn[rom][d] \ failed) \cup left) \X {rom}
        /\ \A c \in ModuleDirs \ {d} : mods'[c] = mods[c]
    <3>. DEFINE names == (ModulesIn[rom][d] \ failed) \cup left
    <3>1. names \in SUBSET ModulesIn[rom][d] /\ Puts(d, names)
      BY <2>1, <2>2
    <3>. HIDE DEF names
    <3>2. /\ mods'[d] = mods[d] \cup names \X {rom}
          /\ \A c \in ModuleDirs \ {d} : mods'[c] = mods[c]
      BY <3>1, PutsFacts, Zenon
    <3>3. mods'[d] = names \X {rom}
      BY <3>2, <1>a
    <3>. QED
      BY <3>2, <3>3 DEF names
  <2>4. lost'[d] = failed /\ \A c \in ModuleDirs \ {d} : lost'[c] = lost[c]
    BY <2>1 DEF TypeOK
  <2>5. rom' = rom
    BY <1>a DEF CopyModules, Goes
  <2>. QED
    BY <2>3, <2>4, <2>5 DEF Filled
<1>b. CASE CopyModules("ramdisk modules", "modules/ramdisk", "dlkm modules")
  <2>1. mods["modules/ramdisk"] = {}
    BY <1>b DEF CopyModules, OneRom
  <2>2. Filled("modules/ramdisk", rom)'
    BY <1>a, <1>b, <2>1 DEF ModuleDirs
  <2>. QED
    BY <1>b, <2>2 DEF CopyModules, Goes
<1>c. CASE CopyModules("dlkm modules", "modules/dlkm", "dtbs")
  <2>1. mods["modules/dlkm"] = {}
    BY <1>c DEF CopyModules, OneRom
  <2>2. /\ Filled("modules/dlkm", rom)'
        /\ mods'["modules/ramdisk"] = mods["modules/ramdisk"] /\ lost'["modules/ramdisk"] = lost["modules/ramdisk"]
    BY <1>a, <1>c, <2>1 DEF ModuleDirs
  <2>3. Filled("modules/ramdisk", rom) /\ rom' = rom
    BY <1>c DEF CopyModules, Goes
  <2>4. Filled("modules/ramdisk", rom)'
    BY <2>2, <2>3 DEF Filled
  <2>. QED
    BY <1>c, <2>2, <2>4 DEF CopyModules, Goes
<1>9. CASE SplitDtbs
  BY <1>9 DEF SplitDtbs, Goes, Filled
<1>10. CASE MakeDtbo
  <2>1. /\ job = "extract" /\ pc = "dtbo" /\ job' = "none" /\ UNCHANGED <<mods, lost>>
        /\ outcome'.job = "extract" /\ outcome'.rom = rom
        /\ file' = [file EXCEPT !["dtb/dtbo.img"] = Bytes(rom, "raw")]
    BY <1>10 DEF MakeDtbo, Ends
  <2>2. \A f \in Extracted : file'[f] = Bytes(rom, "raw")
    BY <1>0, <2>1
  <2>3. \A d \in ModuleDirs : Filled(d, rom)
    BY <2>1 DEF ModuleDirs
  <2>4. \A d \in ModuleDirs : Filled(d, outcome.rom)'
    BY <2>1, <2>3 DEF Filled
  <2>. QED
    BY <2>1, <2>2, <2>4
<1>11. CASE Fail
  BY <1>1, <1>11 DEF Fail
<1>12. CASE EnsureExists
  BY <1>1, <1>3, <1>12 DEF EnsureExists, Goes
<1>13. CASE ParseImages
  <2>1. CASE mode = "compare" /\ Goes("sizes")
    BY <1>13, <2>1 DEF ParseImages, Goes
  <2>. QED
    BY <1>1, <1>3, <1>13, <2>1 DEF ParseImages, Goes
<1>14. CASE WriteAllBytes("write kernel", "prebuilt/kernel", "write dtb")
  BY <1>0, <1>14 DEF WriteAllBytes, Goes
<1>15. CASE WriteAllBytes("write dtb", "dtb/dtb.img", "write dtbo")
  BY <1>0, <1>15 DEF WriteAllBytes, Goes
<1>16. CASE WriteAllBytes("write dtbo", "dtb/dtbo.img", "sizes")
  BY <1>0, <1>16 DEF WriteAllBytes, Goes
<1>17. CASE CheckSizes
  <2>1. CASE Ends("passed")
    BY <1>0, <1>17, <2>1 DEF CheckSizes, Ends
  <2>. QED
    BY <1>1, <1>17, <2>1 DEF CheckSizes
<1>18. CASE Kill
  BY <1>1, <1>18 DEF Kill
<1>19. CASE BootPreflight
  BY <1>19 DEF BootPreflight
<1>20. ASSUME NEW r \in Roms, NEW form, PlaceByHand(r, form) PROVE Written'
  BY <1>20 DEF PlaceByHand, NoOutcome
<1>21. ASSUME NEW r \in Roms, ExtractImages(r) PROVE Written'
  BY <1>2, <1>21 DEF ExtractImages, Start
<1>22. ASSUME NEW r \in Roms, NEW s, StockBootAlignment(r, s) PROVE Written'
  BY <1>3, <1>22 DEF StockBootAlignment, Start
<1>23. CASE UNCHANGED vars
  BY <1>23 DEF vars, Filled
<1>24. CASE Extraction
  BY <1>4, <1>5, <1>6, <1>7, <1>8, <1>b, <1>c, <1>9, <1>10, <1>11, <1>24 DEF Extraction
<1>25. CASE Alignment
  BY <1>12, <1>13, <1>14, <1>15, <1>16, <1>17, <1>25 DEF Alignment, SyncFromRom
<1>. QED
  BY <1>18, <1>19, <1>20, <1>21, <1>22, <1>23, <1>24, <1>25 DEF Next

\* No command takes the kernel or a device tree of the build away.
LEMMA KeptStep ==
    ASSUME TypeOK, Next, NEW f \in BuildInputs, file[f] # Absent
    PROVE  file'[f] # Absent
<1>0. /\ file \in [Files -> Contents] /\ f \in Files /\ rom \in Roms
      /\ f \in {"prebuilt/kernel", "prebuilt/dtb.img", "prebuilt/dtbo.img"}
  BY DEF TypeOK, Files, BuildInputs
<1>1. ASSUME NEW r, NEW form \in Forms, NEW g, file' = [file EXCEPT ![g] = Bytes(r, form)]
      PROVE  file'[f] # Absent
  <2>1. Bytes(r, form) # Absent
    BY DEF Bytes, Absent, Forms
  <2>. QED
    BY <1>0, <1>1, <2>1
<1>2. ASSUME UNCHANGED file PROVE file'[f] # Absent
  BY <1>2
<1>3. ASSUME NEW g, Torn(g) PROVE file'[f] # Absent
  BY <1>1, <1>3 DEF Torn, Forms
<1>4. CASE WipeDirectories
  BY <1>0, <1>4 DEF WipeDirectories, WipeRamdisk, WipePrebuilts, Wipe
<1>5. CASE Extraction
  BY <1>1, <1>2, <1>3, <1>4, <1>5
     DEF Extraction, CheckTools, ReadRom, CopyOut, CopyModules, SplitDtbs, MakeDtbo, Fail, Interrupted, Forms
<1>6. CASE Alignment
  BY <1>1, <1>2, <1>6 DEF Alignment, EnsureExists, ParseImages, SyncFromRom, WriteAllBytes, CheckSizes, Forms
<1>7. CASE Kill
  BY <1>2, <1>3, <1>7 DEF Kill, Interrupted
<1>8. ASSUME NEW r \in Roms, NEW form \in {"raw", "bootimg"}, PlaceByHand(r, form) PROVE file'[f] # Absent
  BY <1>0, <1>8 DEF PlaceByHand, Bytes, Absent
<1>. QED
  BY <1>2, <1>5, <1>6, <1>7, <1>8 DEF Next, BootPreflight, ExtractImages, StockBootAlignment

\* Only the wipe of a module directory takes modules away, and from that one.
LEMMA ModulesKeptStep ==
    ASSUME TypeOK, Next, NEW d \in ModuleDirs
    PROVE  \/ mods[d] \subseteq mods'[d]
           \/ /\ job = "extract" /\ pc \in {"wipe dlkm", "wipe ramdisk"}
              /\ \A c \in ModuleDirs \ {d} : mods'[c] = mods[c]
<1>. DEFINE Kept == mods[d] \subseteq mods'[d]
            Wiped == /\ job = "extract" /\ pc \in {"wipe dlkm", "wipe ramdisk"}
                     /\ \A c \in ModuleDirs \ {d} : mods'[c] = mods[c]
<1>0. mods \in [ModuleDirs -> SUBSET (Modules \X Roms)] /\ ModuleDirs = {"modules/dlkm", "modules/ramdisk"}
  BY DEF TypeOK, ModuleDirs
<1>1. ASSUME UNCHANGED mods PROVE Kept
  BY <1>1
<1>2. ASSUME NEW c \in ModuleDirs, NEW names \in SUBSET ModulesIn[rom][c], Puts(c, names) PROVE Kept
  BY <1>2, PutsFacts
<1>3. CASE WipeDirectories
  <2>1. ASSUME NEW at, NEW files, NEW next, Wipe(at, {}, files, next) PROVE Kept
    BY <1>0, <2>1 DEF Wipe
  <2>2. ASSUME NEW at \in {"wipe dlkm", "wipe ramdisk"}, NEW e \in ModuleDirs, NEW files, NEW next,
               Wipe(at, {e}, files, next)
        PROVE  Kept \/ Wiped
    BY <1>0, <2>2 DEF Wipe
  <2>. QED
    BY <1>0, <1>3, <2>1, <2>2 DEF WipeDirectories, WipeRamdisk, WipePrebuilts
<1>4. ASSUME NEW at, NEW c \in ModuleDirs, NEW next, CopyModules(at, c, next) PROVE Kept
  <2>1. PICK failed \in SUBSET ModulesIn[rom][c], left \in SUBSET ModulesIn[rom][c] :
            /\ left \subseteq failed
            /\ Puts(c, (ModulesIn[rom][c] \ failed) \cup left)
    BY <1>4 DEF CopyModules
  <2>2. (ModulesIn[rom][c] \ failed) \cup left \in SUBSET ModulesIn[rom][c]
    OBVIOUS
  <2>. QED
    BY <1>2, <2>1, <2>2
<1>5. CASE Interrupted
  <2>1. \A s \in DOMAIN ModuleTarget : ModuleTarget[s] \in ModuleDirs
    BY <1>0 DEF ModuleTarget
  <2>. QED
    BY <1>1, <1>2, <1>5, <2>1 DEF Interrupted
<1>6. CASE Extraction
  BY <1>0, <1>1, <1>3, <1>4, <1>5, <1>6
     DEF Extraction, CheckTools, ReadRom, CopyOut, SplitDtbs, MakeDtbo, Fail
<1>7. CASE Alignment
  BY <1>1, <1>7 DEF Alignment, EnsureExists, ParseImages, SyncFromRom, WriteAllBytes, CheckSizes
<1>8. CASE Kill
  BY <1>1, <1>5, <1>8 DEF Kill
<1>. QED
  BY <1>1, <1>6, <1>7, <1>8 DEF Next, BootPreflight, ExtractImages, StockBootAlignment, PlaceByHand

-----------------------------------------------------------------------------
IInv == TypeOK /\ Steps /\ Temps /\ OneRom /\ Written

\* The invariant holds in the tree as it is checked out.
LEMMA InitInvariant == Init => IInv
<1>. SUFFICES ASSUME Init PROVE IInv
  OBVIOUS
<1>1. file \in [Files -> Contents]
  BY RomsAssumption, BytesTyped DEF Init, Contents, Forms
<1>2. mods \in [ModuleDirs -> SUBSET (Modules \X Roms)]
  BY RomsAssumption, ModulesTyped DEF Init
<1>3. TypeOK
  BY RomsAssumption, <1>1, <1>2 DEF Init, TypeOK, Jobs, Modes, Results, NoOutcome
<1>4. OneRom
  BY DEF Init, OneRom, ModulesOfOneRom, ModuleDirs
<1>. QED
  BY <1>3, <1>4 DEF Init, IInv, Steps, Temps, Written, SuccessMeansWhole, NoOutcome

\* The invariant holds always.
LEMMA Invariant == Spec => []IInv
<1>1. IInv /\ [Next]_vars => IInv'
  BY TypeStep, StepsStep, TempsStep, OneRomStep, WrittenStep DEF IInv
<1>. QED
  BY InitInvariant, <1>1, PTL DEF Spec

\* TypeOK of Prebuilts, whatever the ROMs and however often scripts are killed.
THEOREM PrebuiltsTypeCorrect == Spec => []TypeOK
BY Invariant, PTL DEF IInv

\* The module directories never mix two ROMs, at whatever command the extraction
\* fails or is killed and however often it is started again.
THEOREM ModulesNeverMixed == Spec => []ModulesOfOneRom
<1>1. IInv => ModulesOfOneRom
  BY DEF IInv, OneRom
<1>. QED
  BY Invariant, <1>1, PTL

\* A script that reports success has written kernel, dtb.img and dtbo.img whole and
\* from the ROM it was given; an extraction has filled both module directories with
\* that ROM's modules and lists, all but those whose own copy failed.
THEOREM SuccessIsWhole == Spec => []SuccessMeansWhole
<1>1. IInv => SuccessMeansWhole
  BY DEF IInv, Written
<1>. QED
  BY Invariant, <1>1, PTL

\* The EXIT trap leaves no temporary directory behind, short of a kill.
THEOREM TempsAlwaysBounded == Spec => []TempsBounded
<1>1. IInv => TempsBounded
  <2>. SUFFICES ASSUME IInv PROVE TempsBounded
    OBVIOUS
  <2>0. temps \in Nat /\ kills \in Nat
    BY RomsAssumption DEF IInv, TypeOK
  <2>1. CASE job = "extract" /\ pc \in Filling
    BY <2>1 DEF IInv, Temps, TempsBounded
  <2>2. CASE ~(job = "extract" /\ pc \in Filling)
    <3>1. temps <= kills
      BY <2>2 DEF IInv, Temps
    <3>2. temps <= kills + 1
      BY <2>0, <3>1
    <3>. QED
      BY <3>1, <3>2 DEF TempsBounded
  <2>. QED
    BY <2>1, <2>2
<1>. QED
  BY Invariant, <1>1, PTL

\* No step of any of the programs takes away the kernel or a device tree the build
\* reads; a module directory loses files only to an extraction that has passed its
\* checks and is emptying it.
THEOREM BuildInputsAlwaysKept == Spec => BuildInputsKept
<1>1. IInv /\ [Next]_vars =>
        [/\ \A f \in BuildInputs : file[f] # Absent => file'[f] # Absent
         /\ \A d \in ModuleDirs :
                \/ mods[d] \subseteq mods'[d]
                \/ /\ job = "extract" /\ pc \in {"wipe dlkm", "wipe ramdisk"}
                   /\ \A c \in ModuleDirs \ {d} : mods'[c] = mods[c]]_vars
  BY KeptStep, ModulesKeptStep DEF IInv
<1>. QED
  BY Invariant, <1>1, PTL DEF Spec, BuildInputsKept
=============================================================================
