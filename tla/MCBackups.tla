------------------------------ MODULE MCBackups ------------------------------
(***************************************************************************)
(* Backups on a short history; and, as an assumption TLC evaluates, what a *)
(* backup takes and a restoration gives back, on every pair of folders     *)
(* with a world and its lock file, a world that is a link, a plugin and    *)
(* its settings.                                                           *)
(***************************************************************************)
EXTENDS Backups, BackupContent

MCPaths == {"world/level.dat", "world/session.lock", "nether/level.dat",
            "plugins/m.jar", "plugins/m/config.yml"}
MCTop == [p \in MCPaths |->
    CASE p \in {"world/level.dat", "world/session.lock"} -> "world"
      [] p = "nether/level.dat" -> "nether"
      [] p \in {"plugins/m.jar", "plugins/m/config.yml"} -> "plugins"]
MCLevelDat == [d \in {"world", "nether"} |->
    IF d = "world" THEN "world/level.dat" ELSE "nether/level.dat"]

ASSUME ContentIsRight ==
    \A folder, source \in Folders :
        /\ WorldsAreThoseSaved(folder, source)
        /\ RestoreIsUndone(folder, source)
        /\ OnlyStrangersStay(folder, source)
================================================================================
