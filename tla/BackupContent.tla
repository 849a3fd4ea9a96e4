---------------------------- MODULE BackupContent ----------------------------
(***************************************************************************)
(* What a backup takes from the folder of a server, what it describes      *)
(* without taking it, and what a restoration makes of another folder.      *)
(*                                                                         *)
(* A folder is a function from the relative paths of its files to their    *)
(* contents.  A path is known by its first-level folder and by the classes *)
(* it belongs to: names, suffixes and depth are abstracted into those.     *)
(***************************************************************************)
CONSTANTS
    Paths, Contents,
    Dirs, Root,    \* the first-level folders; what stands for the server's own
    Top,           \* Top[p]: the first-level folder of a path, or Root
    LevelDat,      \* LevelDat[d]: the path of level.dat in a folder, if it may hold one
    RootFiles,     \* ROOT_FILES: the settings at the root
    ConfigDirs,    \* CONFIG_DIRS that are no symbolic links
    PluginData,    \* what lies in a sub-folder of plugins/
    Jars,          \* the mods and plugins, in mods/ and plugins/
    Excluded,      \* EXCLUDED_NAMES and EXCLUDED_SUFFIXES, or below such a folder
    Untouchable,   \* folders _replace_worlds skips: ".." in the name, or a link
    Barred         \* files an extraction refuses, although a backup takes them:
                   \* second name of a file (a hard link of the archive), or
                   \* behind a folder that is a link out of the server

ASSUME PathsAreKnown ==
    /\ Top \in [Paths -> Dirs \cup {Root}] /\ Root \notin Dirs
    /\ DOMAIN LevelDat \subseteq Dirs /\ \A d \in DOMAIN LevelDat : Top[LevelDat[d]] = d
    /\ {RootFiles, PluginData, Jars, Excluded, Barred} \subseteq SUBSET Paths
    /\ {ConfigDirs, Untouchable} \subseteq SUBSET Dirs
    /\ \A p \in RootFiles : Top[p] = Root

Folders == UNION {[files -> Contents] : files \in SUBSET Paths}

\* A world is a folder that holds a level.dat.
Worlds(folder) == {d \in DOMAIN LevelDat : LevelDat[d] \in DOMAIN folder}

\* _walk: every file below one of the folders, but those excluded.
Walked(folder, dirs) == {p \in DOMAIN folder \ Excluded : Top[p] \in dirs}

Taken(folder) ==
    Walked(folder, Worlds(folder) \cup ConfigDirs)
        \cup {p \in DOMAIN folder : p \in RootFiles \/ p \in PluginData \ Excluded}

Installed(folder) == DOMAIN folder \cap Jars

\* The archive of a folder nobody writes: its files, and the manifest.
BackupOf(folder) ==
    [files |-> [p \in Taken(folder) |-> folder[p]],
     worlds |-> Worlds(folder), installed |-> Installed(folder)]

\* _replace_worlds: every world the archive speaks of is removed, with all it holds ...
Replaced(folder, content) ==
    {p \in DOMAIN folder : Top[p] \notin content.worlds \ Untouchable}

\* ... and the members are written over what is left.
Over(folder, content, written) ==
    LET kept == Replaced(folder, content)
    IN  [p \in kept \cup written |-> IF p \in written THEN content.files[p] ELSE folder[p]]

\* _validate_member and the filter of tarfile.
Refused(content) == DOMAIN content.files \cap Barred # {}

\* _apply_restore: a refusal comes when the worlds are already removed, and when
\* some of the members may be written.
Restorations(folder, content) ==
    IF Refused(content)
    THEN {Over(folder, content, written) : written \in SUBSET (DOMAIN content.files \ Barred)}
    ELSE {Over(folder, content, DOMAIN content.files)}
--------------------------------------------------------------------------------
In(folder, d) == [p \in {q \in DOMAIN folder : Top[q] = d} |-> folder[p]]

\* A restored world is the one that was saved, without a file of the world it
\* replaces (backup_service.py:461-466), unless its folder cannot be removed.
WorldsAreThoseSaved(folder, source) ==
    LET content == BackupOf(source)
    IN  ~Refused(content) =>
            \A after \in Restorations(folder, content) : \A d \in content.worlds \ Untouchable :
                In(after, d) = In(content.files, d)

\* The safety backup undoes a restoration, whatever became of it
\* (backup_service.py:11-13): every file is again what it was, but for those that
\* no backup takes, inside a folder which one of the two archives calls a world.
RestoreIsUndone(folder, source) ==
    LET safety == BackupOf(folder)
    IN  ~Refused(safety) =>
            \A after \in Restorations(folder, BackupOf(source)) :
                \A again \in Restorations(after, safety) : \A p \in DOMAIN folder :
                    \/ p \in DOMAIN again /\ again[p] = folder[p]
                    \/ p \notin Taken(folder) /\ Top[p] \in Worlds(folder) \cup Worlds(source)

\* What a restoration brought and its undoing leaves is in no world of the folder.
OnlyStrangersStay(folder, source) ==
    LET safety == BackupOf(folder)
    IN  ~Refused(safety) =>
            \A after \in Restorations(folder, BackupOf(source)) :
                \A again \in Restorations(after, safety) : \A p \in DOMAIN again \ DOMAIN folder :
                    p \in Taken(source) /\ Top[p] \notin Worlds(folder) \ Untouchable
================================================================================
