--------------------------- MODULE FlashBootFirst ---------------------------
(***************************************************************************)
(* flash_bootfirst_from_out.bat: the script that writes the boot chain to  *)
(* both slots of a device in fastboot mode, then selects slot a and        *)
(* reboots.  Every fastboot call may fail, a failed flash may leave a torn *)
(* partition, and the user may run the script again.                       *)
(***************************************************************************)
EXTENDS Naturals, Sequences

CONSTANTS
  Images,      \* image files that may be missing from OUT_DIR
  MaxFailures  \* bound: calls of fastboot that fail, over all runs

Slots == {"a", "b"}
BootChain == {"dtbo", "vendor_boot", "boot", "vbmeta"}
Partitions == BootChain \cup {"recovery"}
AllImages == Partitions

\* REC_SIZE_HEX: not set, the size of an absent partition, another size.
HexValues == {"", "0x0", "0x6400000"}

ASSUME ImagesAssumption == Images \subseteq AllImages
ASSUME MaxFailuresAssumption == MaxFailures \in Nat

VARIABLES
  pc,          \* where the script is, "idle" between runs
  step,        \* position in FlashOrder
  hasRecovery, \* HAS_RECOVERY
  exitCode,    \* of the last run
  outDir,      \* images in OUT_DIR
  present,     \* the device has recovery_a and recovery_b
  callerHex,   \* REC_SIZE_HEX in the environment the script is started from
  device,      \* [partition, slot] -> what is written there
  active,      \* active slot
  rebooted,    \* the script rebooted the device
  failures     \* calls that failed so far

vars == <<pc, step, hasRecovery, exitCode, outDir, present, callerHex, device,
          active, rebooted, failures>>
worldVars == <<outDir, present, callerHex>>

\* Mutant: one slot after the other, vbmeta first.
OrderSlotFirst ==
  <<<<"vbmeta", "a">>, <<"dtbo", "a">>, <<"vendor_boot", "a">>, <<"boot", "a">>,
    <<"vbmeta", "b">>, <<"dtbo", "b">>, <<"vendor_boot", "b">>, <<"boot", "b">>,
    <<"recovery", "a">>, <<"recovery", "b">>>>
\* Both slots of one image before the next image.
FlashOrder ==
  <<<<"dtbo", "a">>, <<"dtbo", "b">>, <<"vendor_boot", "a">>, <<"vendor_boot", "b">>,
    <<"boot", "a">>, <<"boot", "b">>, <<"vbmeta", "a">>, <<"vbmeta", "b">>,
    <<"recovery", "a">>, <<"recovery", "b">>>>

LastBoot == 8

Init ==
  /\ pc = "idle"
  /\ step = 1
  /\ hasRecovery = FALSE
  /\ exitCode = "none"
  /\ \E missing \in SUBSET Images : outDir = AllImages \ missing
  /\ present \in BOOLEAN
  /\ callerHex \in HexValues
  /\ device = [p \in Partitions \X Slots |-> "old"]
  /\ active \in Slots
  /\ rebooted = FALSE
  /\ failures = 0

Exit(code) == pc' = "idle" /\ exitCode' = code

CallFails == failures < MaxFailures /\ failures' = failures + 1

-----------------------------------------------------------------------------
\* Fastboot missing, an image missing, or no ruan device connected.
ChecksFail ==
  /\ pc = "idle" /\ ~rebooted
  /\ Exit("1")
  /\ UNCHANGED <<step, hasRecovery, worldVars, device, active, rebooted, failures>>

RecoveryRequired == AllImages                               \* mutant
RequiredImages == BootChain

Start ==
  /\ pc = "idle" /\ ~rebooted
  /\ RequiredImages \subseteq outDir
  /\ pc' = "probe"
  /\ exitCode' = "none"
  /\ UNCHANGED <<step, hasRecovery, worldVars, device, active, rebooted, failures>>

\* "cmd /c" keeps the quotes of a command that begins with one only if there
\* are two in all and nothing special between them; otherwise it removes the
\* first and the last.
CmdKeepsQuotes(quotes, special) == quotes = 2 /\ ~special

\* What "for /f" reads.  Its command begins with a quote, has four and holds
\* ">", "&" and "|": without the outer two the pipe is inside quotes, findstr is
\* not run and there is no line ("").  Of a line, "tokens=2 delims=: " would
\* leave "recovery", and "partition-size" where getvar failed.
ProbeTokens ==
  IF CmdKeepsQuotes(4, TRUE) THEN {"", "recovery", "partition-size"} ELSE {""}

\* Without a line REC_SIZE_HEX is still the caller's: the script never clears it.
Probe ==
  /\ pc = "probe"
  /\ \E token \in ProbeTokens :
       hasRecovery' = ((IF token = "" THEN callerHex ELSE token) \notin {"0x0", ""})
  /\ pc' = "flash"
  /\ step' = 1
  /\ UNCHANGED <<exitCode, worldVars, device, active, rebooted, failures>>

\* recovery comes after the boot chain, if it was detected and there is an image.
FlashesRecovery == hasRecovery /\ "recovery" \in outDir

AfterFlashLate ==                                           \* mutant: one too many
  IF step > Len(FlashOrder) \/ (step = LastBoot /\ ~FlashesRecovery)
    THEN "setActive" ELSE "flash"
AfterFlash ==
  IF step = Len(FlashOrder) \/ (step = LastBoot /\ ~FlashesRecovery)
    THEN "setActive" ELSE "flash"

NoPartition == FlashOrder[step][1] = "recovery" /\ ~present

Flash ==
  /\ pc = "flash"
  /\ ~NoPartition
  /\ device' = [device EXCEPT ![FlashOrder[step]] = "new"]
  /\ pc' = AfterFlash
  /\ step' = IF AfterFlash = "flash" THEN step + 1 ELSE step
  /\ UNCHANGED <<hasRecovery, exitCode, worldVars, active, rebooted, failures>>

\* "|| exit /B 1" after every flash, set_active and reboot.
FlashErrorIgnored == pc' = AfterFlash /\ UNCHANGED exitCode  \* mutant
OnFlashError == Exit("1")

FlashFails ==
  /\ pc = "flash"
  /\ \/ NoPartition /\ UNCHANGED <<device, failures>>
     \/ CallFails /\ UNCHANGED device
     \/ CallFails /\ ~NoPartition
        /\ device' = [device EXCEPT ![FlashOrder[step]] = "torn"]
  /\ OnFlashError
  /\ UNCHANGED <<step, hasRecovery, worldVars, active, rebooted>>

SetActive ==
  /\ pc = "setActive"
  /\ active' = "a"
  /\ pc' = "reboot"
  /\ UNCHANGED <<step, hasRecovery, exitCode, worldVars, device, rebooted, failures>>

Reboot ==
  /\ pc = "reboot"
  /\ rebooted' = TRUE
  /\ Exit("0")
  /\ UNCHANGED <<step, hasRecovery, worldVars, device, active, failures>>

LastCallFails ==
  /\ pc \in {"setActive", "reboot"}
  /\ Exit("1")
  /\ CallFails
  /\ UNCHANGED <<step, hasRecovery, worldVars, device, active, rebooted>>

Next == ChecksFail \/ Start \/ Probe \/ Flash \/ FlashFails \/ SetActive
          \/ Reboot \/ LastCallFails

Spec == Init /\ [][Next]_vars

\* The user repeats a failed run until it succeeds.
FairSpec ==
  /\ Spec
  /\ WF_vars(Start) /\ WF_vars(Probe \/ Flash \/ FlashFails \/ SetActive \/ Reboot)

-----------------------------------------------------------------------------
(* Properties.                                                             *)

Written(p) == \A s \in Slots : device[<<p, s>>] = "new"
ChainWritten == \A p \in BootChain : Written(p)

\* Type invariant of the script's variables and the device.
TypeOK ==
  /\ pc \in {"idle", "probe", "flash", "setActive", "reboot"}
  /\ step \in 1..Len(FlashOrder)
  /\ hasRecovery \in BOOLEAN /\ exitCode \in {"none", "0", "1"}
  /\ outDir \subseteq AllImages /\ present \in BOOLEAN
  /\ callerHex \in HexValues
  /\ device \in [Partitions \X Slots -> {"old", "torn", "new"}]
  /\ active \in Slots /\ rebooted \in BOOLEAN

\* The script commits only a complete boot chain: it switches the active slot,
\* reboots and reports success only when both slots hold the whole new chain,
\* however many runs failed before.
CommitsOnlyComplete ==
  /\ pc = "reboot" \/ rebooted => ChainWritten
  /\ exitCode = "0" => ChainWritten /\ active = "a"

\* vbmeta goes last: the new vbmeta, written with verification disabled, never
\* sits over an old image of the boot chain in either slot, whenever the script
\* stops.
VbmetaNeverOverOldImages ==
  \A s \in Slots : device[<<"vbmeta", s>>] # "old" =>
    \A p \in BootChain \ {"vbmeta"}, t \in Slots : device[<<p, t>>] # "old"

\* A device that has the recovery partition gets the recovery image when every
\* call of fastboot succeeded: the script says of a device it skips that the
\* partition is not present, or the probe unavailable.
RecoveryFlashedIfPresent ==
  rebooted /\ failures = 0 /\ present /\ "recovery" \in outDir => Written("recovery")

\* Runs repeated after failures get the device rebooted into the new chain once
\* the calls stop failing, if all images are there, and nothing makes the script
\* flash a recovery partition that is not: a size in the caller's REC_SIZE_HEX.
EventuallyRebooted ==
  /\ BootChain \subseteq outDir
  /\ present \/ "recovery" \notin outDir \/ callerHex \in {"", "0x0"}
  ~> rebooted

-----------------------------------------------------------------------------
(* The inductive invariant behind the safety properties.                   *)

\* What the script has written in this run is still there.
WrittenSoFar ==
  /\ pc = "flash" => \A n \in 1..(step - 1) : device[FlashOrder[n]] = "new"
  /\ pc \in {"setActive", "reboot"} => ChainWritten
  /\ pc = "reboot" => active = "a"

\* A run that succeeded is the last.
RunInv ==
  /\ pc # "idle" => exitCode = "none" /\ ~rebooted
  /\ exitCode = "0" => rebooted

\* The conjunction is inductive.
FlashInv ==
  TypeOK /\ WrittenSoFar /\ RunInv /\ CommitsOnlyComplete /\ VbmetaNeverOverOldImages

=============================================================================
