---------------------------- MODULE Provisioning ----------------------------
(***************************************************************************)
(* Creating servers: the requests that place a creation (quota, folder,    *)
(* port, name), the background tasks that fill the folder and register the *)
(* server, the folders an administrator registers by hand, deletions, and  *)
(* stops of MSM.                                                           *)
(*                                                                         *)
(* An await of the code is a boundary between two actions: what is read    *)
(* before it (the tasks under way, the reserved ports) is kept in the      *)
(* creation's record and used after it.  A read of the database and what   *)
(* the code does with its answer are one action.  Transactions commit one  *)
(* at a time: writer is the creation whose insertion holds SQLite's write  *)
(* lock between its flush and its commit.                                  *)
(***************************************************************************)
EXTENDS Integers, FiniteSets

CONSTANTS
    Accounts,       \* accounts under a quota, whose folder and port are imposed
    Admin,          \* an administrator: no quota, chooses freely
    Names,          \* names of servers
    MaxSuffix,      \* bound: survival, survival-2, ... up to this number
    Ports,          \* the range reserved for servers
    ChosenPorts,    \* bound: the ports an administrator asks for
    MaxChosen,      \* bound: the suffixes of the folders an administrator asks for
    Existing,       \* bound: 1 when there is a server from the start
    MaxServers,     \* Quota.max_servers
    Unset,          \* what an administrator leaves to MSM, and nobody
    MaxCreations,   \* bound: creations asked for
    MaxDeletions,   \* bound: deletions of servers
    MaxRestarts     \* bound: stops and crashes of MSM

Ids == 1 .. MaxCreations
Owners == Accounts \cup {Admin}
Folders == [home : Owners, name : Names, nth : 1 .. MaxSuffix]

\* The server from the start has a port and is within the quota.
ASSUME ProvisioningAssumption ==
    /\ Ports \subseteq Nat \ {0} /\ ChosenPorts \subseteq Nat \ {0}
    /\ Existing \in {0, 1} /\ Existing <= MaxCreations
    /\ Existing = 1 => Ports # {} /\ MaxServers # 0
    /\ MaxSuffix \in Nat \ {0} /\ MaxChosen \in Nat /\ MaxServers \in Nat
    /\ MaxCreations \in Nat /\ MaxDeletions \in Nat /\ MaxRestarts \in Nat
    /\ Admin \notin Accounts
    /\ Unset \notin Ids \cup Owners \cup Names \cup Folders

VARIABLES
    creation,   \* each creation: the request, then its task
    rows,       \* creations whose server is in the database
    writer,     \* the creation whose insertion is not committed yet, or Unset
    disk,       \* each folder: absent, empty or full
    homes,      \* the accounts' folders that exist
    deletion,   \* each server's deletion: no, planned, erased, failed
    met,        \* pairs of creations that were being placed at the same time
    intruders,  \* servers inserted by hand in a folder already in use
    landed,     \* servers whose task was cancelled while their commit went through
    stops       \* stops of MSM so far

vars == <<creation, rows, writer, disk, homes, deletion, met, intruders, landed, stops>>
stored == <<rows, writer, deletion, intruders, landed>>

ChosenFolders == {f \in Folders : f.nth <= MaxChosen}

\* Where a request is, before its task exists.
Placing == {"quota", "folder", "home", "port", "name", "admit"}

\* Where a task, or a registration by hand, is.
Preparing == {"begin", "download", "install"}
Registering == {"name again", "folder again", "slug", "flush", "commit"}
Working == Preparing \cup Registering \cup {"start", "undo"}

Fresh ==
    [pc |-> "none", kind |-> "job", owner |-> Unset, name |-> Unset,
     folder |-> Unset, port |-> 0, chosen |-> FALSE, pending |-> 0,
     taken |-> {}, reserved |-> {}, slug |-> 0, created |-> FALSE]

Smallest(S) == CHOOSE n \in S : \A m \in S : n <= m

\* get_by_directory: a server points to the folder.
Managed(folder) == \E r \in rows : creation[r].folder = folder

\* A server created before, in its owner's folder and on the first port.
Settled(owner, name) ==
    [Fresh EXCEPT !.pc = "done", !.owner = owner, !.name = name,
                  !.folder = [home |-> owner, name |-> name, nth |-> 1],
                  !.port = Smallest(Ports), !.slug = 1]

Init ==
    /\ rows = 1 .. Existing /\ writer = Unset
    /\ \E owner \in Owners, name \in Names :
          /\ creation = [c \in Ids |-> IF c \in rows THEN Settled(owner, name) ELSE Fresh]
          /\ homes = IF rows = {} THEN {} ELSE {owner}
    /\ disk = [f \in Folders |-> IF Managed(f) THEN "full" ELSE "absent"]
    /\ deletion = [c \in Ids |-> "no"]
    /\ met = {} /\ intruders = {} /\ landed = {} /\ stops = 0
-----------------------------------------------------------------------------
\* JobRegistry.running: a task is under way until it is completed or failed.
RunningJobs == {c \in Ids : creation[c].kind = "job" /\ creation[c].pc \in Working}

\* Mutant: the tasks under way are not counted.
PendingForgotten(owner) == 0

\* What _place counts against the quota besides the servers of the account.
PendingOf(owner) == Cardinality({c \in RunningJobs : creation[c].owner = owner})

TakenDirectories == {creation[c].folder : c \in RunningJobs}

\* A port stays reserved while its creation runs.
ReservedPorts == {creation[c].port : c \in RunningJobs} \ {0}

OwnedBy(owner) == {r \in rows : creation[r].owner = owner}

Proceeds(c, pc) == creation' = [creation EXCEPT ![c].pc = pc]

\* A request is refused with nothing written; a task undoes what it wrote.
GivesUp(c) == Proceeds(c, IF creation[c].kind = "job" THEN "undo" ELSE "refused")
-----------------------------------------------------------------------------
\* ProvisioningService.start: a request arrives and counts the tasks under way.
\* An administrator may choose the folder and the port, an account may not.
Asks(c, owner, name, folder, port) ==
    /\ creation[c].pc = "none" /\ \A d \in 1 .. c - 1 : creation[d].pc # "none"
    /\ owner = Admin \/ (folder = Unset /\ port = 0)
    /\ creation' = [creation EXCEPT ![c] =
          [Fresh EXCEPT !.pc = "quota", !.owner = owner, !.name = name,
                        !.folder = folder, !.port = port, !.chosen = port # 0,
                        !.pending = PendingOf(owner)]]
    /\ met' = met \cup {{c, d} : d \in {e \in Ids : creation[e].pc \in Placing}}
    /\ UNCHANGED <<disk, homes, stops>> /\ UNCHANGED stored

\* check_creation, then the folders of the tasks under way are read.
ChecksQuota(c) ==
    LET me == creation[c]
        full == me.owner # Admin
                /\ Cardinality(OwnedBy(me.owner)) + me.pending >= MaxServers
    IN  /\ me.pc = "quota"
        /\ creation' = [creation EXCEPT ![c] =
              [me EXCEPT !.pc = IF full THEN "refused" ELSE "folder",
                         !.pending = 0, !.taken = TakenDirectories]]
        /\ UNCHANGED <<disk, homes, met, stops>> /\ UNCHANGED stored

\* directory_for: the first folder of that name in the account's own folder
\* that does not exist, is no task's and no server's.
ChoosesFolder(c) ==
    LET me == creation[c]
        Candidate(n) == [home |-> me.owner, name |-> me.name, nth |-> n]
        free == {n \in 1 .. MaxSuffix : /\ disk[Candidate(n)] = "absent"
                                        /\ Candidate(n) \notin me.taken
                                        /\ ~Managed(Candidate(n))}
    IN  /\ me.pc = "folder" /\ (me.folder # Unset \/ free # {})
        /\ creation' = [creation EXCEPT ![c] =
              [me EXCEPT !.pc = "home", !.taken = {},
                         !.folder = IF @ # Unset THEN @ ELSE Candidate(Smallest(free))]]
        /\ UNCHANGED <<disk, homes, met, stops>> /\ UNCHANGED stored

\* The account's folder is created, then the ports of the tasks under way are read.
EntersHome(c) ==
    LET me == creation[c]
    IN  /\ me.pc = "home"
        /\ homes' = IF me.folder.home = me.owner THEN homes \cup {me.owner} ELSE homes
        /\ creation' = [creation EXCEPT ![c] =
              [me EXCEPT !.pc = "port", !.reserved = ReservedPorts]]
        /\ UNCHANGED <<disk, met, stops>> /\ UNCHANGED stored

\* allocate_port: the first port of the range that no server has and no task
\* had reserved.
AllocatesPort(c) ==
    LET me == creation[c]
        free == Ports \ ({creation[r].port : r \in rows} \cup me.reserved)
        given == IF me.chosen THEN {me.port} ELSE free
    IN  /\ me.pc = "port"
        /\ creation' = [creation EXCEPT ![c] =
              [me EXCEPT !.pc = IF given = {} THEN "refused" ELSE "name",
                         !.port = IF given = {} THEN 0 ELSE Smallest(given),
                         !.reserved = {}]]
        /\ UNCHANGED <<disk, homes, met, stops>> /\ UNCHANGED stored

\* _validate: the name is no server's and no task's of the account.
ChecksName(c) ==
    LET me == creation[c]
        used == \E d \in rows \cup RunningJobs :
                   creation[d].owner = me.owner /\ creation[d].name = me.name
    IN  /\ me.pc = "name" /\ Proceeds(c, IF used THEN "refused" ELSE "admit")
        /\ UNCHANGED <<disk, homes, met, stops>> /\ UNCHANGED stored

\* Mutant: only the servers' folders are looked at.
FolderOfServer(folder) == Managed(folder)

\* _validate: a folder is taken by a server or by a task under way.
FolderTaken(folder) == Managed(folder) \/ folder \in TakenDirectories

\* _validate, its end, and start: the task is in the registry as soon as the
\* folder is found free, without an await in between.
Admits(c) ==
    LET me == creation[c]
        free == /\ me.folder.home \in homes /\ disk[me.folder] # "full"
                /\ ~FolderTaken(me.folder)
    IN  /\ me.pc = "admit" /\ Proceeds(c, IF free THEN "begin" ELSE "refused")
        /\ UNCHANGED <<disk, homes, met, stops>> /\ UNCHANGED stored
-----------------------------------------------------------------------------
\* _run, FOLDER: the task creates the folder and remembers whether it did; it
\* fails if the account's folder has gone since.
Begins(c) ==
    LET me == creation[c]
    IN  /\ me.pc = "begin"
        /\ \/ /\ me.folder.home \in homes
              /\ creation' = [creation EXCEPT ![c] =
                    [me EXCEPT !.pc = "download", !.created = disk[me.folder] = "absent"]]
              /\ disk' = [disk EXCEPT ![me.folder] = IF @ = "absent" THEN "empty" ELSE @]
           \/ /\ me.folder.home \notin homes /\ UNCHANGED disk
              /\ creation' = [creation EXCEPT ![c] =
                    [me EXCEPT !.pc = "undo", !.created = disk[me.folder] = "absent"]]
        /\ UNCHANGED <<homes, met, stops>> /\ UNCHANGED stored

\* _run, DOWNLOAD, then INSTALL and CONFIGURE: each may fail, and the download
\* may leave files behind when it does.
Prepares(c) ==
    LET me == creation[c]
    IN  /\ me.pc \in {"download", "install"}
        /\ \/ /\ disk' = [disk EXCEPT ![me.folder] = "full"]
              /\ Proceeds(c, IF me.pc = "download" THEN "install" ELSE "name again")
           \/ /\ disk' \in {disk, [disk EXCEPT ![me.folder] = "full"]}
              /\ Proceeds(c, "undo")
        /\ UNCHANGED <<homes, met, stops>> /\ UNCHANGED stored

\* POST /servers: an administrator registers a folder that holds a server.
RegistersByHand(c, name, folder) ==
    /\ creation[c].pc = "none" /\ \A d \in 1 .. c - 1 : creation[d].pc # "none"
    /\ disk[folder] = "full"
    /\ creation' = [creation EXCEPT ![c] =
          [Fresh EXCEPT !.pc = "name again", !.kind = "hand", !.owner = Admin,
                        !.name = name, !.folder = folder]]
    /\ UNCHANGED <<disk, homes, met, stops>> /\ UNCHANGED stored

\* create_server: the name.
ChecksNameAgain(c) ==
    LET me == creation[c]
        used == \E r \in OwnedBy(me.owner) : creation[r].name = me.name
    IN  /\ me.pc = "name again"
        /\ IF used THEN GivesUp(c) ELSE Proceeds(c, "folder again")
        /\ UNCHANGED <<disk, homes, met, stops>> /\ UNCHANGED stored

\* create_server: the folder exists and no server points to it.  The tasks under
\* way are not looked at.
ChecksFolderAgain(c) ==
    LET me == creation[c]
    IN  /\ me.pc = "folder again"
        /\ IF Managed(me.folder) \/ disk[me.folder] = "absent"
           THEN GivesUp(c) ELSE Proceeds(c, "slug")
        /\ UNCHANGED <<disk, homes, met, stops>> /\ UNCHANGED stored

\* _unique_slug: the first suffix of the name that no server has.
PicksSlug(c) ==
    LET me == creation[c]
        used == {creation[r].slug : r \in {q \in rows : creation[q].name = me.name}}
    IN  /\ me.pc = "slug"
        /\ creation' = [creation EXCEPT ![c] =
              [me EXCEPT !.pc = "flush", !.slug = Smallest(Ids \ used)]]
        /\ UNCHANGED <<disk, homes, met, stops>> /\ UNCHANGED stored

\* The two unique constraints of the table: the slug, and a name per owner.
Unique(c) ==
    \A r \in rows : creation[r].name = creation[c].name =>
        creation[r].slug # creation[c].slug /\ creation[r].owner # creation[c].owner

\* create_server, its flush: the row is inserted, not committed.  It is refused
\* by a constraint, by the check of the launch if the files have gone, or by
\* SQLite when another writer holds the lock too long.  A folder registered by
\* hand may be in use by then.
Inserts(c) ==
    LET me == creation[c]
    IN  /\ me.pc = "flush"
        /\ \/ /\ writer = Unset /\ Unique(c) /\ disk[me.folder] = "full"
              /\ Proceeds(c, "commit") /\ writer' = c
              /\ intruders' = IF me.kind = "hand" /\ FolderTaken(me.folder)
                              THEN intruders \cup {c} ELSE intruders
           \/ /\ writer # Unset \/ ~Unique(c) \/ disk[me.folder] # "full"
              /\ GivesUp(c) /\ UNCHANGED <<writer, intruders>>
        /\ UNCHANGED <<rows, disk, homes, deletion, met, landed, stops>>

\* The end of the transaction, or its failure.
Commits(c) ==
    LET me == creation[c]
    IN  /\ me.pc = "commit" /\ writer' = Unset
        /\ \/ /\ rows' = rows \cup {c}
              /\ Proceeds(c, IF me.kind = "job" THEN "start" ELSE "done")
           \/ GivesUp(c) /\ UNCHANGED rows
        /\ UNCHANGED <<disk, homes, deletion, met, intruders, landed, stops>>

\* _start, and the end of the task: the server is there whether it starts or not.
Finishes(c) ==
    /\ creation[c].pc = "start" /\ Proceeds(c, "done")
    /\ UNCHANGED <<disk, homes, met, stops>> /\ UNCHANGED stored

\* clear_directory: a folder the task created is removed, another is emptied.
Cleared(f, created) ==
    IF disk[f] = "absent" THEN "absent" ELSE IF created THEN "absent" ELSE "empty"

\* _run, its except clause: what the task wrote is removed.
Undoes(c) ==
    LET me == creation[c]
    IN  /\ me.pc = "undo" /\ Proceeds(c, "failed")
        /\ disk' = [disk EXCEPT ![me.folder] = Cleared(me.folder, me.created)]
        /\ UNCHANGED <<homes, met, stops>> /\ UNCHANGED stored
-----------------------------------------------------------------------------
\* delete_server: the plan refuses a folder that another server uses.
PlansDeletion(r) ==
    /\ r \in rows /\ deletion[r] = "no"
    /\ Cardinality({q \in Ids : deletion[q] # "no"}) < MaxDeletions
    /\ \A q \in rows \ {r} : creation[q].folder # creation[r].folder
    /\ deletion' = [deletion EXCEPT ![r] = "planned"]
    /\ UNCHANGED <<creation, rows, writer, disk, homes, met, intruders, landed, stops>>

\* FileDeletion.execute: the folder goes, and the account's if it is left empty.
ErasesFiles(r) ==
    LET folder == creation[r].folder
        others == {f \in Folders \ {folder} : f.home = folder.home /\ disk[f] # "absent"}
    IN  /\ r \in rows /\ deletion[r] = "planned"
        /\ deletion' = [deletion EXCEPT ![r] = "erased"]
        /\ disk' = [disk EXCEPT ![folder] = "absent"]
        /\ homes' = IF folder.home = creation[r].owner /\ others = {}
                    THEN homes \ {folder.home} ELSE homes
        /\ UNCHANGED <<creation, rows, writer, met, intruders, landed, stops>>

\* The end of the request that deletes: only then is the row gone, unless another
\* writer holds the lock too long and the row of the erased server stays.
CommitsDeletion(r) ==
    /\ r \in rows /\ deletion[r] = "erased"
    /\ \/ writer = Unset /\ rows' = rows \ {r} /\ UNCHANGED deletion
       \/ writer # Unset /\ deletion' = [deletion EXCEPT ![r] = "failed"] /\ UNCHANGED rows
    /\ UNCHANGED <<creation, writer, disk, homes, met, intruders, landed, stops>>

\* A task interrupted here has something to undo: its server is not registered,
\* or the task does not know yet that it is.
Unregistered(c) == c \in RunningJobs /\ creation[c].pc \in Working \ {"start"}

\* cancel_all, at a stop of MSM: each task undoes what it wrote; a commit that
\* was under way may have gone through.  A crash undoes nothing.  Either way the
\* requests and the tasks are gone when MSM runs again.
MsmStops(clean, committed) ==
    LET through == IF committed /\ writer # Unset THEN {writer} ELSE {}
        undone == {c \in Ids : Unregistered(c)}
    IN  /\ stops < MaxRestarts /\ stops' = stops + 1
        /\ creation' = [c \in Ids |->
              IF creation[c].pc \in Placing \cup Working
              THEN [creation[c] EXCEPT !.pc = "lost", !.pending = 0,
                                       !.taken = {}, !.reserved = {}]
              ELSE creation[c]]
        /\ rows' = rows \cup through /\ writer' = Unset
        /\ disk' = [f \in Folders |->
              IF clean /\ \E c \in undone : creation[c].folder = f
              THEN LET c == CHOOSE c \in undone : creation[c].folder = f
                   IN  IF creation[c].pc = "begin" THEN disk[f]
                       ELSE Cleared(f, creation[c].created)
              ELSE disk[f]]
        /\ landed' = IF clean THEN landed \cup (through \cap undone) ELSE landed
        /\ deletion' = [r \in Ids |-> CASE deletion[r] = "planned" -> "no"
                                       [] deletion[r] = "erased" /\ r \in rows -> "failed"
                                       [] OTHER -> deletion[r]]
        /\ UNCHANGED <<homes, met, intruders>>

\* The route of the provisioning: an administrator also chooses the folder and the port.
Create(c) ==
    \/ \E owner \in Owners, name \in Names : Asks(c, owner, name, Unset, 0)
    \/ \E name \in Names, folder \in ChosenFolders, port \in ChosenPorts :
          Asks(c, Admin, name, folder, port)

Next ==
    \/ \E c \in Ids :
          \/ Create(c)
          \/ \E name \in Names, folder \in Folders : RegistersByHand(c, name, folder)
          \/ ChecksQuota(c) \/ ChoosesFolder(c) \/ EntersHome(c)
          \/ AllocatesPort(c) \/ ChecksName(c) \/ Admits(c)
          \/ Begins(c) \/ Prepares(c)
          \/ ChecksNameAgain(c) \/ ChecksFolderAgain(c) \/ PicksSlug(c)
          \/ Inserts(c) \/ Commits(c) \/ Finishes(c) \/ Undoes(c)
          \/ PlansDeletion(c) \/ ErasesFiles(c) \/ CommitsDeletion(c)
    \/ \E clean, committed \in BOOLEAN : MsmStops(clean, committed)

Spec == Init /\ [][Next]_vars
-----------------------------------------------------------------------------
Places == {"none", "refused", "done", "failed", "lost"} \cup Placing \cup Working

Creation ==
    [pc : Places,
     kind : {"job", "hand"}, owner : Owners \cup {Unset}, name : Names \cup {Unset},
     folder : Folders \cup {Unset}, port : Ports \cup ChosenPorts \cup {0}, chosen : BOOLEAN,
     pending : Nat, taken : SUBSET Folders, reserved : SUBSET (Ports \cup ChosenPorts),
     slug : Ids \cup {0}, created : BOOLEAN]

TypeOK ==
    /\ creation \in [Ids -> Creation]
    /\ rows \subseteq Ids /\ writer \in Ids \cup {Unset}
    /\ disk \in [Folders -> {"absent", "empty", "full"}] /\ homes \subseteq Owners
    /\ deletion \in [Ids -> {"no", "planned", "erased", "failed"}]
    /\ intruders \subseteq Ids /\ landed \subseteq Ids /\ stops \in Nat

\* Everything that uses a folder or a port.
Holders == rows \cup RunningJobs

\* A folder is of one server or of one creation under way: whatever the requests
\* interleave, only a registration by hand can share it.
FoldersAreExclusive ==
    \A c, d \in Holders :
        c # d /\ creation[c].folder = creation[d].folder =>
            "hand" \in {creation[c].kind, creation[d].kind}

\* A registered server keeps its files: no failed, cancelled or interrupted
\* creation and no deletion of another server removes them.  Two exceptions: a
\* folder registered by hand while it was in use, and a task cancelled while its
\* commit goes through, which undoes the files of a server that exists.
ServersKeepTheirFiles ==
    \A r \in rows :
        \/ disk[creation[r].folder] = "full"
        \/ deletion[r] \in {"erased", "failed"}
        \/ r \in landed
        \/ \E h \in intruders : creation[h].folder = creation[r].folder

\* Every server has the folder it was given, and what is in it.
FoldersAreKept == FoldersAreExclusive /\ ServersKeepTheirFiles

\* Two servers have the same port only if an administrator chose it, or if
\* their creations were being placed at the same time.
PortsClashOnlyWhenRacing ==
    \A c, d \in Holders :
        c # d /\ creation[c].port = creation[d].port /\ creation[c].port # 0 =>
            \/ creation[c].chosen \/ creation[d].chosen
            \/ {c, d} \in met

\* An account has more servers than its quota only if some of them were being
\* placed at the same time.
QuotaHeldUnlessRacing ==
    \A u \in Accounts :
        LET mine == {c \in Holders : creation[c].owner = u}
        IN  Cardinality(mine) > MaxServers => \E c, d \in mine : c # d /\ {c, d} \in met

\* What MSM shares out, ports and numbers of servers, only gives way to creations
\* placed at the same time.
SharesAreHeld == PortsClashOnlyWhenRacing /\ QuotaHeldUnlessRacing
=============================================================================
