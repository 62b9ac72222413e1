-------------------------- MODULE MCSensorNotifier --------------------------
(* Small instances of SensorNotifier for TLC.                              *)
EXTENDS SensorNotifier

S(t, w, h) == [type |-> t, wakeup |-> w, handle |-> h]

\* Two matching sensors behind one that does not wake up and one of another
\* type; and a list without a match.
MCCatalogues ==
  {<<S("other", TRUE, 1), S("nonui", FALSE, 2), S("nonui", TRUE, 3), S("nonui", TRUE, 4)>>,
   <<S("nonui", FALSE, 2)>>}

\* One matching sensor: the case of the liveness runs.
MCOneSensor == {<<S("nonui", TRUE, 3)>>}

MCContents == {"0", "1"}
MCContentsEmpty == {"0", "1", ""}
=============================================================================
