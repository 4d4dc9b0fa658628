------------------------------ MODULE MCWorker ------------------------------
(* Small instances of Worker for TLC. *)
EXTENDS Worker

OnePermit == [s \in Semaphores |-> 1]

(* Scans of two kinds, which contend for the scan permit under different   *)
(* keys, and a backfill that shares the key of the first.                  *)
ScanVariants == {"Scan", "BackfillThumbs", "ScanAudiobooks"}
ScanRoots == [variant : {"Scan", "ScanAudiobooks"}, arg : Args]

(* The variants whose outcomes carry details, and the one that is owned. *)
MixedVariants ==
    {"RewriteAllEpubs", "SendToKindle", "ScanAudiobooks", "BackfillChapters"}
MixedRoots == [variant : MixedVariants \ {"BackfillChapters"}, arg : Args]

OkOnly == {Ok("plain")}
AllOutcomes == {Ok("plain"), Ok("GhostFiles"), Ok("BakeErrors"), Err("failed")}
=============================================================================
