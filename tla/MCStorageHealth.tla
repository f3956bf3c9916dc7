-------------------------- MODULE MCStorageHealth --------------------------
(* Two mounts; ages in scan periods, free fractions in percent.             *)
EXTENDS StorageHealth, TLC

CONSTANTS logs, cases

MCMountList == <<logs, cases>>

MCFreeLevels == (logs :> {50}) @@ (cases :> {10, 50})

MCConditions ==
  (logs :> {"good", "full", "hung"}) @@ (cases :> {"good", "readonly", "gone"})

OneMount == <<logs>>

OneFree == logs :> {50}

HungConditions == logs :> {"good", "hung"}
=============================================================================
