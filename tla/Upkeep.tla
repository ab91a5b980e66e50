-------------------------------- MODULE Upkeep --------------------------------
(***************************************************************************)
(* The tools the repository is kept with, run one by one: each behaviour   *)
(* is of one of them, so that their states add up and do not multiply.     *)
(***************************************************************************)
EXTENDS Documents, SpecDrift, ResourceTracker

VARIABLE task      \* the tool this behaviour is of

UpkeepInit ==
    /\ task \in {"documents", "drift", "tracker"}
    /\ DocumentsInit
    /\ DriftInit
    /\ TrackerInit

UpkeepNext ==
    /\ UNCHANGED task
    /\ \/ /\ task = "documents" /\ DocumentsNext
          /\ UNCHANGED <<driftVars, trackerVars>>
       \/ /\ task = "drift" /\ DriftNext
          /\ UNCHANGED <<docVars, trackerVars>>
       \/ /\ task = "tracker" /\ TrackerNext
          /\ UNCHANGED <<docVars, driftVars>>

UpkeepSpec == UpkeepInit /\ [][UpkeepNext]_<<task, docVars, driftVars, trackerVars>>
=============================================================================
