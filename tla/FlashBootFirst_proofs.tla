----------------------- MODULE FlashBootFirst_proofs -----------------------
(* Proofs about flash_bootfirst_from_out.bat for every set of missing      *)
(* images and any number of failed calls and repeated runs.                *)
EXTENDS FlashBootFirst, TLAPS

\* The positions of FlashOrder, one by one.
LEMMA Order ==
  /\ Len(FlashOrder) = 10
  /\ \A n \in 1..10 : FlashOrder[n] \in Partitions \X Slots
  /\ \A n \in 1..10 : FlashOrder[n][1] \in BootChain \ {"vbmeta"} <=> n <= 6
  /\ \A n \in 1..10 : FlashOrder[n][1] = "vbmeta" <=> n \in {7, 8}
BY DEF FlashOrder, Partitions, BootChain, Slots

\* The first six positions cover the images below vbmeta, the first eight all.
LEMMA Covers ==
  /\ \A p \in BootChain \ {"vbmeta"}, s \in Slots : \E n \in 1..6 : FlashOrder[n] = <<p, s>>
  /\ \A p \in BootChain, s \in Slots : \E n \in 1..8 : FlashOrder[n] = <<p, s>>
<1>1. /\ FlashOrder[1] = <<"dtbo", "a">> /\ FlashOrder[2] = <<"dtbo", "b">>
      /\ FlashOrder[3] = <<"vendor_boot", "a">> /\ FlashOrder[4] = <<"vendor_boot", "b">>
      /\ FlashOrder[5] = <<"boot", "a">> /\ FlashOrder[6] = <<"boot", "b">>
      /\ FlashOrder[7] = <<"vbmeta", "a">> /\ FlashOrder[8] = <<"vbmeta", "b">>
  BY DEF FlashOrder
<1>2. /\ 1 \in 1..6 /\ 2 \in 1..6 /\ 3 \in 1..6 /\ 4 \in 1..6 /\ 5 \in 1..6 /\ 6 \in 1..6
      /\ 7 \in 1..8 /\ 8 \in 1..8 /\ \A n \in 1..6 : n \in 1..8
  OBVIOUS
<1>3. \A p \in BootChain \ {"vbmeta"}, s \in Slots : \E n \in 1..6 : FlashOrder[n] = <<p, s>>
  <2> SUFFICES ASSUME NEW p \in {"dtbo", "vendor_boot", "boot"}, NEW s \in {"a", "b"}
               PROVE  \E n \in 1..6 : FlashOrder[n] = <<p, s>>
    BY DEF BootChain, Slots
  <2>1. CASE p = "dtbo"
    BY <2>1, <1>1, <1>2
  <2>2. CASE p = "vendor_boot"
    BY <2>2, <1>1, <1>2
  <2>3. CASE p = "boot"
    BY <2>3, <1>1, <1>2
  <2> QED
    BY <2>1, <2>2, <2>3
<1>4. \A s \in Slots : \E n \in 1..8 : FlashOrder[n] = <<"vbmeta", s>>
  BY <1>1, <1>2 DEF Slots
<1> QED
  BY <1>2, <1>3, <1>4

\* The invariant holds before the first run.
LEMMA InitFlashInv == Init => FlashInv
<1> SUFFICES ASSUME Init PROVE FlashInv
  OBVIOUS
<1>1. TypeOK
  <2>1. step \in 1..Len(FlashOrder)
    BY Order DEF Init
  <2>2. outDir \subseteq AllImages
    BY DEF Init
  <2>3. hasRecovery \in BOOLEAN /\ present \in BOOLEAN /\ rebooted \in BOOLEAN
      /\ callerHex \in HexValues
    BY Zenon DEF Init
  <2>4. device \in [Partitions \X Slots -> {"old", "torn", "new"}]
    BY DEF Init
  <2> QED
    BY <2>1, <2>2, <2>3, <2>4 DEF Init, TypeOK
<1>2. WrittenSoFar /\ RunInv /\ CommitsOnlyComplete
  BY DEF Init, WrittenSoFar, RunInv, CommitsOnlyComplete
<1>3. VbmetaNeverOverOldImages
  BY DEF Init, VbmetaNeverOverOldImages, Partitions, BootChain
<1> QED
  BY <1>1, <1>2, <1>3 DEF FlashInv

\* Steps that leave the device alone.
LEMMA QuietSteps ==
  ASSUME FlashInv,
         ChecksFail \/ Start \/ Probe \/ SetActive \/ Reboot \/ LastCallFails \/ UNCHANGED vars
  PROVE  FlashInv'
<1> USE DEF FlashInv
<1>0. device' = device
  BY DEF ChecksFail, Start, Probe, SetActive, Reboot, LastCallFails, vars
<1>1. TypeOK'
  <2>1. rebooted' \in BOOLEAN /\ hasRecovery' \in BOOLEAN /\ present' \in BOOLEAN
    BY ZenonT(30) DEF TypeOK, ChecksFail, Start, Probe, SetActive, Reboot, LastCallFails, Exit,
           worldVars, vars
  <2>2. step' \in 1..Len(FlashOrder)
    <3>1. step' = step \/ step' = 1
      BY DEF ChecksFail, Start, Probe, SetActive, Reboot, LastCallFails, vars
    <3> QED
      BY <3>1, Order DEF TypeOK
  <2>3. /\ pc' \in {"idle", "probe", "flash", "setActive", "reboot"}
        /\ exitCode' \in {"none", "0", "1"}
        /\ outDir' \subseteq AllImages /\ callerHex' \in HexValues /\ active' \in Slots
    BY DEF TypeOK, ChecksFail, Start, Probe, SetActive, Reboot, LastCallFails, Exit,
           worldVars, vars, Slots
  <2> QED
    BY <1>0, <2>1, <2>2, <2>3 DEF TypeOK
<1>2. ChainWritten' = ChainWritten
  BY <1>0 DEF ChainWritten, Written
<1>3. WrittenSoFar'
  <2>1. CASE Probe
    <3>1. pc' = "flash" /\ step' = 1
      BY <2>1 DEF Probe
    <3>2. 1..(step' - 1) = {}
      BY <3>1
    <3> QED
      BY <3>1, <3>2 DEF WrittenSoFar
  <2>2. CASE ~Probe
    BY <2>2, <1>0, <1>2 DEF WrittenSoFar, ChecksFail, Start, SetActive, Reboot,
                            LastCallFails, Exit, vars
  <2> QED
    BY <2>1, <2>2
<1>4. RunInv' /\ CommitsOnlyComplete'
  <2>1. CASE ChecksFail
    BY <2>1, <1>2 DEF ChecksFail, Exit, RunInv, CommitsOnlyComplete
  <2>2. CASE Start
    BY <2>2, <1>2 DEF Start, RunInv, CommitsOnlyComplete
  <2>3. CASE Probe
    BY <2>3, <1>2 DEF Probe, RunInv, CommitsOnlyComplete
  <2>4. CASE SetActive
    BY <2>4, <1>2 DEF SetActive, RunInv, CommitsOnlyComplete, WrittenSoFar
  <2>5. CASE Reboot
    BY <2>5, <1>2 DEF Reboot, Exit, RunInv, CommitsOnlyComplete, WrittenSoFar
  <2>6. CASE LastCallFails
    BY <2>6, <1>2 DEF LastCallFails, Exit, RunInv, CommitsOnlyComplete
  <2>7. CASE UNCHANGED vars
    BY <2>7, <1>2 DEF vars, RunInv, CommitsOnlyComplete
  <2> QED
    BY <2>1, <2>2, <2>3, <2>4, <2>5, <2>6, <2>7
<1>6. VbmetaNeverOverOldImages'
  BY <1>0 DEF VbmetaNeverOverOldImages
<1> QED
  BY <1>1, <1>3, <1>4, <1>6

\* A flash never makes a partition old, and vbmeta is reached after the others.
LEMMA FlashKeepsOrder ==
  ASSUME FlashInv, pc = "flash", NEW v \in {"torn", "new"},
         device' = [device EXCEPT ![FlashOrder[step]] = v]
  PROVE  VbmetaNeverOverOldImages'
<1> USE DEF FlashInv
<1>1. /\ step \in 1..10 /\ FlashOrder[step] \in Partitions \X Slots
      /\ device \in [Partitions \X Slots -> {"old", "torn", "new"}]
  BY Order DEF TypeOK
<1>2. \A x \in Partitions \X Slots : device'[x] = IF x = FlashOrder[step] THEN v ELSE device[x]
  BY <1>1
<1> SUFFICES ASSUME NEW s \in Slots, device'[<<"vbmeta", s>>] # "old",
                    NEW p \in BootChain \ {"vbmeta"}, NEW t \in Slots
             PROVE  device'[<<p, t>>] # "old"
  BY DEF VbmetaNeverOverOldImages
<1>3. <<"vbmeta", s>> \in Partitions \X Slots /\ <<p, t>> \in Partitions \X Slots
  BY DEF Partitions, BootChain
<1>4. CASE FlashOrder[step] = <<"vbmeta", s>>
  <2>1. step \in {7, 8}
    BY <1>1, <1>4, Order
  <2>2. PICK n \in 1..6 : FlashOrder[n] = <<p, t>>
    BY Covers
  <2>3. n \in 1..(step - 1)
    BY <2>1
  <2>4. device[<<p, t>>] = "new"
    BY <2>2, <2>3 DEF WrittenSoFar
  <2> QED
    BY <2>4, <1>2, <1>3
<1>5. CASE FlashOrder[step] # <<"vbmeta", s>>
  <2>1. device[<<"vbmeta", s>>] # "old"
    BY <1>2, <1>3, <1>5
  <2>2. device[<<p, t>>] # "old"
    BY <2>1 DEF VbmetaNeverOverOldImages
  <2> QED
    BY <2>2, <1>2, <1>3
<1> QED
  BY <1>4, <1>5

\* A successful flash call keeps the invariant.
LEMMA FlashStep == FlashInv /\ Flash => FlashInv'
<1> SUFFICES ASSUME FlashInv, Flash PROVE FlashInv'
  OBVIOUS
<1> USE DEF FlashInv
<1>1. /\ step \in 1..10 /\ FlashOrder[step] \in Partitions \X Slots
      /\ device \in [Partitions \X Slots -> {"old", "torn", "new"}]
      /\ pc = "flash" /\ exitCode = "none" /\ exitCode' = "none"
      /\ rebooted = FALSE /\ rebooted' = FALSE
  BY Order DEF TypeOK, Flash, RunInv
<1>2. device' = [device EXCEPT ![FlashOrder[step]] = "new"]
  BY DEF Flash
<1>3. /\ pc' = AfterFlash /\ AfterFlash \in {"flash", "setActive"}
      /\ AfterFlash = "flash" => step' = step + 1 /\ step # 10
      /\ AfterFlash # "flash" => step' = step /\ step >= 8
  BY <1>1, Order DEF Flash, AfterFlash, LastBoot
<1>4. TypeOK'
  <2>1. step' \in 1..10
    BY <1>1, <1>3
  <2>2. device' \in [Partitions \X Slots -> {"old", "torn", "new"}]
    BY <1>1, <1>2
  <2>3. pc' \in {"idle", "probe", "flash", "setActive", "reboot"}
    BY <1>3
  <2>4. /\ hasRecovery' = hasRecovery /\ present' = present /\ outDir' = outDir
        /\ callerHex' = callerHex /\ active' = active
    BY DEF Flash, worldVars
  <2> QED
    BY <2>1, <2>2, <2>3, <2>4, <1>1, Order DEF TypeOK
<1>5. \A n \in 1..step : device'[FlashOrder[n]] = "new"
  <2> SUFFICES ASSUME NEW n \in 1..step PROVE device'[FlashOrder[n]] = "new"
    OBVIOUS
  <2>1. n \in 1..10 /\ (n = step \/ n \in 1..(step - 1))
    BY <1>1
  <2>2. FlashOrder[n] \in Partitions \X Slots
    BY <2>1, Order
  <2> QED
    BY <2>1, <2>2, <1>1, <1>2 DEF WrittenSoFar
<1>6. WrittenSoFar'
  <2>1. pc' = "flash" => \A n \in 1..(step' - 1) : device'[FlashOrder[n]] = "new"
    BY <1>1, <1>3, <1>5
  <2>2. pc' = "setActive" => ChainWritten'
    <3> SUFFICES ASSUME pc' = "setActive", NEW p \in BootChain, NEW s \in Slots
                 PROVE  device'[<<p, s>>] = "new"
      BY DEF ChainWritten, Written
    <3>1. PICK n \in 1..8 : FlashOrder[n] = <<p, s>>
      BY Covers
    <3>2. n \in 1..step
      BY <1>1, <1>3
    <3> QED
      BY <3>1, <3>2, <1>5
  <2> QED
    BY <2>1, <2>2, <1>3 DEF WrittenSoFar
<1>7. RunInv' /\ CommitsOnlyComplete'
  BY <1>1, <1>3 DEF RunInv, CommitsOnlyComplete
<1>8. VbmetaNeverOverOldImages'
  BY <1>1, <1>2, FlashKeepsOrder
<1> QED
  BY <1>4, <1>6, <1>7, <1>8

\* A failed one, which may tear its partition, keeps it too.
LEMMA FlashFailsStep == FlashInv /\ FlashFails => FlashInv'
<1> SUFFICES ASSUME FlashInv, FlashFails PROVE FlashInv'
  OBVIOUS
<1> USE DEF FlashInv
<1>1. /\ step \in 1..10 /\ FlashOrder[step] \in Partitions \X Slots
      /\ device \in [Partitions \X Slots -> {"old", "torn", "new"}]
      /\ pc = "flash" /\ pc' = "idle" /\ exitCode' = "1" /\ step' = step
      /\ rebooted = FALSE /\ rebooted' = FALSE
  BY Order DEF TypeOK, FlashFails, OnFlashError, Exit, RunInv
<1>2. device' = device \/ device' = [device EXCEPT ![FlashOrder[step]] = "torn"]
  BY DEF FlashFails
<1>3. TypeOK'
  <2>1. device' \in [Partitions \X Slots -> {"old", "torn", "new"}]
    BY <1>1, <1>2
  <2>2. /\ hasRecovery' = hasRecovery /\ present' = present /\ outDir' = outDir
        /\ callerHex' = callerHex /\ active' = active
    BY DEF FlashFails, worldVars
  <2> QED
    BY <2>1, <2>2, <1>1, Order DEF TypeOK
<1>4. WrittenSoFar' /\ RunInv' /\ CommitsOnlyComplete'
  BY <1>1 DEF WrittenSoFar, RunInv, CommitsOnlyComplete
<1>5. VbmetaNeverOverOldImages'
  <2>1. CASE device' = device
    BY <2>1 DEF VbmetaNeverOverOldImages
  <2>2. CASE device' = [device EXCEPT ![FlashOrder[step]] = "torn"]
    BY <2>2, <1>1, FlashKeepsOrder
  <2> QED
    BY <2>1, <2>2, <1>2
<1> QED
  BY <1>3, <1>4, <1>5

\* Every step of the script, failed or not, preserves the inductive invariant.
THEOREM FlashInductive == Spec => []FlashInv
<1>1. FlashInv /\ [Next]_vars => FlashInv'
  BY QuietSteps, FlashStep, FlashFailsStep DEF Next
<1> QED
  BY <1>1, InitFlashInv, PTL DEF Spec

\* The script's variables and the device keep their types.
THEOREM FlashTypeCorrect == Spec => []TypeOK
<1>1. FlashInv => TypeOK
  BY DEF FlashInv
<1> QED
  BY <1>1, FlashInductive, PTL

\* The script switches slots, reboots and reports success only with the whole new
\* boot chain in both slots.
THEOREM CommitsOnlyCompleteHolds == Spec => []CommitsOnlyComplete
<1>1. FlashInv => CommitsOnlyComplete
  BY DEF FlashInv
<1> QED
  BY <1>1, FlashInductive, PTL

\* The new vbmeta never sits over an old image, wherever the script stops.
THEOREM VbmetaLastHolds == Spec => []VbmetaNeverOverOldImages
<1>1. FlashInv => VbmetaNeverOverOldImages
  BY DEF FlashInv
<1> QED
  BY <1>1, FlashInductive, PTL

=============================================================================
