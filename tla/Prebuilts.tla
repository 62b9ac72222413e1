------------------------------ MODULE Prebuilts ------------------------------
(*************************************************************************)
(* The stock kernel, device trees and kernel modules in the tree, and    *)
(* the programs that handle them: extract-prebuilt-images.sh takes them  *)
(* from a ROM zip, stock_boot_alignment.ps1 compares them with the       *)
(* images of a ROM and may overwrite them, boot_preflight.ps1 inspects   *)
(* them, and the build reads them where BoardConfig.mk says.  The        *)
(* programs are run one at a time, for any ROM, fail at any command and  *)
(* are killed between any two.                                           *)
(*                                                                       *)
(* A file is "absent" or has the ROM its bytes come from and their form: *)
(* "raw", "bootimg" (a kernel still in its boot image) or "torn" (cut    *)
(* short by a failing or killed copy).  A module directory is a set of   *)
(* <<name, ROM>>, for the modules and the lists of them alike.           *)
(*************************************************************************)
EXTENDS Naturals, FiniteSets

CONSTANTS
    Roms,        \* stock ROMs
    First,       \* the one whose files are in the tree at the beginning
    ModulesIn,   \* ROM -> module directory -> the names of its modules and lists
    SameSizes,   \* the ROMs whose partition table agrees with BoardConfig.mk
    MaxKills     \* bound: kills in a behaviour

\* *.ko, modules.load* and modules.blocklist, from vendor_dlkm and from the ramdisk
ModuleDirs == {"modules/dlkm", "modules/ramdisk"}

ASSUME RomsAssumption ==
    /\ First \in Roms /\ SameSizes \subseteq Roms /\ MaxKills \in Nat
    /\ DOMAIN ModulesIn = Roms /\ \A r \in Roms : DOMAIN ModulesIn[r] = ModuleDirs

Modules == UNION {ModulesIn[r][d] : r \in Roms, d \in ModuleDirs}
Forms == {"raw", "bootimg", "torn"}
Absent == [rom |-> First, form |-> "absent"]
Bytes(r, form) == [rom |-> r, form |-> form]
Contents == {Absent} \cup [rom : Roms, form : Forms]

\* Where the build reads kernel, dtb and dtbo (it reads both module directories as
\* well), where the extraction puts them, and where alignment and preflight look.
BuildInputs == {"prebuilt/kernel", "prebuilt/dtb.img", "prebuilt/dtbo.img"}
Extracted == {"prebuilts/kernel", "dtb/dtb.img", "dtb/dtbo.img"}
Aligned == {"prebuilt/kernel", "dtb/dtb.img", "dtb/dtbo.img"}
Files == BuildInputs \cup Extracted \cup Aligned

VARIABLES
    file,      \* Files -> Contents
    mods,      \* ModuleDirs -> SUBSET (Modules \X Roms)
    lost,      \* ModuleDirs -> the names whose copy failed in the last extraction
    job,       \* the running program, or "none"
    pc,        \* its next command
    rom,       \* the ROM it was given
    mode,      \* "sync" if called with -SyncFromRom, else "compare"
    temps,     \* temporary directories of the extraction on the disk
    kills,
    outcome    \* of the last program, while its files are untouched since

vars == <<file, mods, lost, job, pc, rom, mode, temps, kills, outcome>>

Modes == {"sync", "compare"}
Jobs == {"none", "extract", "align"}
ExtractSteps == {"check", "wipe dlkm", "wipe ramdisk", "wipe dtb", "wipe dtbs", "wipe prebuilts", "read rom",
                 "kernel", "dtb", "ramdisk modules", "dlkm modules", "dtbs", "dtbo"}
AlignSteps == {"exists", "parse", "write kernel", "write dtb", "write dtbo", "sizes"}
Results == {"none", "done", "failed", "refused", "killed", "passed", "mismatch", "missing", "invalid"}

NoOutcome == [job |-> "none", rom |-> First, mode |-> "compare", result |-> "none"]

\* A tree set up by hand, as prebuilt/README.md says, with the modules checked in.
Init ==
    /\ file = [f \in Files |-> IF f \in BuildInputs THEN Bytes(First, "raw") ELSE Absent]
    /\ mods = [d \in ModuleDirs |-> ModulesIn[First][d] \X {First}]
    /\ lost = [d \in ModuleDirs |-> {}]
    /\ job = "none" /\ pc = "none" /\ rom = First /\ mode = "compare"
    /\ temps = 0 /\ kills = 0
    /\ outcome = NoOutcome

-----------------------------------------------------------------------------
\* Starting and ending a program.
Start(j, r, s, first) ==
    /\ job = "none"
    /\ job' = j /\ pc' = first /\ rom' = r /\ mode' = s

Ends(result) ==
    /\ job' = "none" /\ pc' = "none"
    /\ outcome' = [job |-> job, rom |-> rom, mode |-> mode, result |-> result]
    /\ UNCHANGED <<rom, mode>>

Goes(next) == pc' = next /\ UNCHANGED <<job, rom, mode, outcome>>

\* A copy that does not come to its end leaves the file cut short.
Torn(f) == file' = [file EXCEPT ![f] = Bytes(rom, "torn")]

-----------------------------------------------------------------------------
\* extract-prebuilt-images.sh
ExtractImages(r) ==
    /\ Start("extract", r, "compare", "check")
    /\ UNCHANGED <<file, mods, lost, temps, kills, outcome>>

\* The ROM zip and the tools are checked before anything is deleted.
CheckTools ==
    /\ job = "extract" /\ pc = "check"
    /\ Goes("wipe dlkm") \/ Ends("refused")
    /\ UNCHANGED <<file, mods, lost, temps, kills>>

\* rm -rf and mkdir -p of one directory: the modules and the files it holds.  The
\* build finds none of the modules from here on, until they are copied again.
Wipe(at, dirs, files, next) ==
    /\ job = "extract" /\ pc = at /\ Goes(next)
    /\ mods' = [d \in ModuleDirs |-> IF d \in dirs THEN {} ELSE mods[d]]
    /\ lost' = [d \in ModuleDirs |-> IF d \in dirs THEN {} ELSE lost[d]]
    /\ file' = [f \in Files |-> IF f \in files THEN Absent ELSE file[f]]
    /\ UNCHANGED <<temps, kills>>

\* mutant: the other directory of a similar name
WipeBuildInputs ==
    Wipe("wipe prebuilts", {}, {"prebuilts/kernel", "prebuilt/kernel"}, "read rom")

WipePrebuilts == Wipe("wipe prebuilts", {}, {"prebuilts/kernel"}, "read rom")

\* mutant: the ramdisk modules left in place
KeepRamdisk == Wipe("wipe ramdisk", {}, {}, "wipe dtb")

WipeRamdisk == Wipe("wipe ramdisk", {"modules/ramdisk"}, {}, "wipe dtb")

WipeDirectories ==
    \/ Wipe("wipe dlkm", {"modules/dlkm"}, {}, "wipe ramdisk")
    \/ WipeRamdisk
    \/ Wipe("wipe dtb", {}, {"dtb/dtb.img", "dtb/dtbo.img"}, "wipe dtbs")
    \/ Wipe("wipe dtbs", {}, {}, "wipe prebuilts")
    \/ WipePrebuilts

\* mktemp, unzip, ota_extractor
ReadRom ==
    /\ job = "extract" /\ pc = "read rom" /\ Goes("kernel")
    /\ temps' = temps + 1
    /\ UNCHANGED <<file, mods, lost, kills>>

CopyOut(at, f, next) ==
    /\ job = "extract" /\ pc = at /\ Goes(next)
    /\ file' = [file EXCEPT ![f] = Bytes(rom, "raw")]
    /\ UNCHANGED <<mods, lost, temps, kills>>

Puts(d, names) == mods' = [mods EXCEPT ![d] = @ \cup names \X {rom}]

\* find ... -exec cp {} \; succeeds whether the copies do or not.  A copy that fails
\* leaves nothing or a part of the file.
CopyModules(at, d, next) ==
    /\ job = "extract" /\ pc = at /\ Goes(next)
    /\ \E failed \in SUBSET ModulesIn[rom][d] : \E left \in SUBSET failed :
           Puts(d, (ModulesIn[rom][d] \ failed) \cup left) /\ lost' = [lost EXCEPT ![d] = failed]
    /\ UNCHANGED <<file, temps, kills>>

\* curl, extract_dtb.py, and the copy of the parts, which nothing else reads
SplitDtbs ==
    /\ job = "extract" /\ pc = "dtbs" /\ Goes("dtbo")
    /\ UNCHANGED <<file, mods, lost, temps, kills>>

\* mkdtboimg, then the last lines and the EXIT trap
MakeDtbo ==
    /\ job = "extract" /\ pc = "dtbo" /\ Ends("done")
    /\ file' = [file EXCEPT !["dtb/dtbo.img"] = Bytes(rom, "raw")]
    /\ temps' = temps - 1
    /\ UNCHANGED <<mods, lost, kills>>

\* What the commands of a step write to.
Target == [s \in {"kernel", "dtb", "dtbo"} |->
              CASE s = "kernel" -> "prebuilts/kernel" [] s = "dtb" -> "dtb/dtb.img" [] s = "dtbo" -> "dtb/dtbo.img"]
ModuleTarget == [s \in {"ramdisk modules", "dlkm modules"} |->
                    IF s = "ramdisk modules" THEN "modules/ramdisk" ELSE "modules/dlkm"]

\* A step of the extraction ends before it is through: a file is torn, or a
\* directory has some of the modules.
Interrupted ==
    \/ UNCHANGED <<file, mods>>
    \/ pc \in DOMAIN Target /\ Torn(Target[pc]) /\ UNCHANGED mods
    \/ /\ pc \in DOMAIN ModuleTarget /\ UNCHANGED file
       /\ \E some \in SUBSET ModulesIn[rom][ModuleTarget[pc]] : Puts(ModuleTarget[pc], some)

\* mutant: no trap
NoCleanup == UNCHANGED temps

\* The EXIT trap removes the directory, once mktemp has made it.
Cleanup ==
    temps' = IF pc \in {"wipe dlkm", "wipe ramdisk", "wipe dtb", "wipe dtbs", "wipe prebuilts", "read rom"}
             THEN temps ELSE temps - 1

\* set -e: a failing command ends the script.
Fail ==
    /\ job = "extract" /\ pc \in ExtractSteps \ {"check"} /\ Ends("failed") /\ Cleanup
    /\ Interrupted
    /\ UNCHANGED <<lost, kills>>

-----------------------------------------------------------------------------
\* stock_boot_alignment.ps1
StockBootAlignment(r, s) ==
    /\ Start("align", r, s, "exists")
    /\ UNCHANGED <<file, mods, lost, temps, kills, outcome>>

\* The three files, and the images of the ROM, which may be incomplete.
EnsureExists ==
    /\ job = "align" /\ pc = "exists"
    /\ \/ (\A f \in Aligned : file[f] # Absent) /\ Goes("parse")
       \/ Ends("missing")
    /\ UNCHANGED <<file, mods, lost, temps, kills>>

\* Both parsers throw on a wrong magic or a payload out of bounds.  What they find,
\* and whether it equals the current files, is only printed.
ParseImages ==
    /\ job = "align" /\ pc = "parse"
    /\ \/ Ends("invalid")
       \/ mode = "sync" /\ Goes("write kernel")
       \/ mode = "compare" /\ Goes("sizes")
    /\ UNCHANGED <<file, mods, lost, temps, kills>>

WriteAllBytes(at, f, next) ==
    /\ job = "align" /\ pc = at /\ Goes(next)
    /\ file' = [file EXCEPT ![f] = Bytes(rom, "raw")]
    /\ UNCHANGED <<mods, lost, temps, kills>>

\* mutant: the overlays not written
SyncWithoutDtbo ==
    \/ WriteAllBytes("write kernel", "prebuilt/kernel", "write dtb")
    \/ WriteAllBytes("write dtb", "dtb/dtb.img", "sizes")

SyncFromRom ==
    \/ WriteAllBytes("write kernel", "prebuilt/kernel", "write dtb")
    \/ WriteAllBytes("write dtb", "dtb/dtb.img", "write dtbo")
    \/ WriteAllBytes("write dtbo", "dtb/dtbo.img", "sizes")

\* The partition sizes, after the files have been overwritten.
CheckSizes ==
    /\ job = "align" /\ pc = "sizes"
    /\ IF rom \in SameSizes THEN Ends("passed") ELSE Ends("mismatch")
    /\ UNCHANGED <<file, mods, lost, temps, kills>>

-----------------------------------------------------------------------------
\* boot_preflight.ps1: the kernel's first bytes are those of a raw kernel.  Of the
\* device trees only the presence matters.  The probe of the device changes nothing.
BootPreflight ==
    /\ job = "none"
    /\ \E result \in IF \E f \in Aligned : file[f] = Absent THEN {"missing"}
                     ELSE CASE file["prebuilt/kernel"].form = "raw" -> {"passed"}
                            [] file["prebuilt/kernel"].form = "bootimg" -> {"invalid"}
                            [] OTHER -> {"passed", "invalid"} :
           outcome' = [job |-> "preflight", rom |-> First, mode |-> "compare", result |-> result]
    /\ UNCHANGED <<file, mods, lost, job, pc, rom, mode, temps, kills>>

\* The reader of prebuilt/README.md puts the three files of a ROM in place, perhaps
\* the boot image itself instead of the kernel in it.
PlaceByHand(r, form) ==
    /\ job = "none"
    /\ file' = [f \in Files |-> IF f = "prebuilt/kernel" THEN Bytes(r, form)
                                ELSE IF f \in BuildInputs THEN Bytes(r, "raw") ELSE file[f]]
    /\ outcome' = NoOutcome
    /\ UNCHANGED <<mods, lost, job, pc, rom, mode, temps, kills>>

\* The program is killed, between two commands or in the middle of a copy.
AlignTarget == [s \in {"write kernel", "write dtb", "write dtbo"} |->
                   CASE s = "write kernel" -> "prebuilt/kernel" [] s = "write dtb" -> "dtb/dtb.img"
                     [] s = "write dtbo" -> "dtb/dtbo.img"]
Kill ==
    /\ job # "none" /\ kills < MaxKills /\ kills' = kills + 1
    /\ Ends("killed")
    /\ \/ job = "extract" /\ Interrupted
       \/ job = "align" /\ UNCHANGED <<file, mods>>
       \/ job = "align" /\ pc \in DOMAIN AlignTarget /\ Torn(AlignTarget[pc]) /\ UNCHANGED mods
    /\ UNCHANGED <<lost, temps>>

Extraction ==
    \/ CheckTools \/ WipeDirectories \/ ReadRom
    \/ CopyOut("kernel", "prebuilts/kernel", "dtb") \/ CopyOut("dtb", "dtb/dtb.img", "ramdisk modules")
    \/ CopyModules("ramdisk modules", "modules/ramdisk", "dlkm modules")
    \/ CopyModules("dlkm modules", "modules/dlkm", "dtbs")
    \/ SplitDtbs \/ MakeDtbo \/ Fail

Alignment == EnsureExists \/ ParseImages \/ SyncFromRom \/ CheckSizes

Next ==
    \/ \E r \in Roms : ExtractImages(r)
    \/ Extraction
    \/ \E r \in Roms, s \in Modes : StockBootAlignment(r, s)
    \/ Alignment
    \/ BootPreflight
    \/ \E r \in Roms, form \in {"raw", "bootimg"} : PlaceByHand(r, form)
    \/ Kill

Spec == Init /\ [][Next]_vars

-----------------------------------------------------------------------------
\* Type invariant.
TypeOK ==
    /\ file \in [Files -> Contents]
    /\ mods \in [ModuleDirs -> SUBSET (Modules \X Roms)]
    /\ lost \in [ModuleDirs -> SUBSET Modules]
    /\ job \in Jobs /\ rom \in Roms /\ mode \in Modes
    /\ pc \in {"none"} \cup ExtractSteps \cup AlignSteps
    /\ temps \in Nat /\ kills \in 0..MaxKills
    /\ outcome \in [job : Jobs \cup {"preflight"}, rom : Roms, mode : Modes, result : Results]

\* Whatever fails or is killed and however often the extraction is started again,
\* the two module directories never hold modules of two ROMs: both are emptied
\* before the first module is copied.
ModulesOfOneRom ==
    \A m, n \in mods["modules/dlkm"] \cup mods["modules/ramdisk"] : m[2] = n[2]

\* Apart from the names whose copy failed, the directory has what the ROM has for it.
Filled(d, r) ==
    \A m \in Modules, q \in Roms :
        m \notin lost[d] => (<<m, q>> \in mods[d] <=> q = r /\ m \in ModulesIn[r][d])

\* A program that reports success has left kernel, dtb.img and dtbo.img whole and from
\* the ROM it was given, whatever earlier runs left there.  An extraction has also
\* filled both module directories with exactly what that ROM has for them, except
\* the files whose own copy failed: find drops the status of cp, so these are absent
\* or torn although the script says that it is done and lists the directories as updated.
SuccessMeansWhole ==
    /\ outcome.job = "extract" /\ outcome.result = "done" /\ job = "none" =>
           /\ \A f \in Extracted : file[f] = Bytes(outcome.rom, "raw")
           /\ \A d \in ModuleDirs : Filled(d, outcome.rom)
    /\ outcome.job = "align" /\ outcome.mode = "sync" /\ outcome.result = "passed" /\ job = "none" =>
           \A f \in Aligned : file[f] = Bytes(outcome.rom, "raw")

\* A failed extraction leaves no temporary directory; only a killed one does.
TempsBounded ==
    temps <= kills + 1 /\ (job # "extract" => temps <= kills)

\* Of what the build reads, none of the programs takes away the kernel, dtb.img and
\* dtbo.img, if a copy may leave them torn.  The two module directories do lose their
\* files: to an extraction that has passed its checks and empties that directory,
\* before it has read anything of the ROM, and to nothing else.
BuildInputsKept ==
    [][/\ \A f \in BuildInputs : file[f] # Absent => file'[f] # Absent
       /\ \A d \in ModuleDirs :
              \/ mods[d] \subseteq mods'[d]
              \/ /\ job = "extract" /\ pc \in {"wipe dlkm", "wipe ramdisk"}
                 /\ \A c \in ModuleDirs \ {d} : mods'[c] = mods[c]]_vars

=============================================================================
