---------------------------- MODULE LauncherSync ----------------------------
(***************************************************************************)
(* The link between a server and the file server of its launcher: the      *)
(* synchronisation that installs and removes mods, the changes put off     *)
(* until the next start, the publication of the disabled mods, and the     *)
(* administrator who meanwhile changes the settings and the files.         *)
(*                                                                         *)
(* Synchronisation, application and publication exclude each other by a    *)
(* lock, served in order: lockq holds them, its head owns the lock and op  *)
(* is what the head keeps in hand across its awaits.  A session works on   *)
(* the row it has loaded and writes, when it commits, the columns it has   *)
(* changed.  SQLite has a single writer: writer is who holds the write     *)
(* lock between a first write and the commit, and whoever waits for it too *)
(* long fails (Busy).                                                      *)
(***************************************************************************)
EXTENDS Integers, Sequences, FiniteSets

CONSTANTS
    Paths,       \* files of the modpack and of the server
    Narrow,      \* the paths under the folders synchronised at first
    Jars,        \* the paths that end in .jar
    Versions,    \* contents the file server may announce
    Own,         \* the content of a file the administrator uploads
    ClientSide,  \* the <<path, version>> whose jar says that it is for clients
    Manifests,   \* bound: the manifests the file server publishes
    MassMin,     \* MASS_DELETION_MIN
    None,
    Requests,    \* bound: what is asked of the settings page
    MaxActs,     \* bound: actions of the administrator and of the file server
    MaxQueue     \* bound: operations in progress or waiting for the lock

Sides == {"unknown", "client", "both"}

Overrides == {"auto", "client", "both"}

ASSUME LauncherAssumption ==
    /\ Narrow \subseteq Paths /\ Jars \subseteq Paths
    /\ Own \notin Versions /\ None \notin Versions \cup {Own}
    /\ Manifests \subseteq [Paths -> [v : Versions, side : Sides] \cup {None}]
    /\ Requests \subseteq [wide : BOOLEAN, enabled : BOOLEAN,
                           token : {"keep", "new", "none"}, move : BOOLEAN]
    /\ MassMin \in Nat /\ MaxActs \in Nat /\ MaxQueue \in Nat \ {0}

VARIABLES
    remote,   \* the manifest of the file server
    told,     \* the disabled mods it was last told of, or None
    row,      \* the row of launcher_integrations, or None
    tracked,  \* the rows of launcher_files: the content installed, or None
    files,    \* the folder of the server: the file and its .disabled variant
    staging,  \* the contents prepared
    server,   \* STOPPED, STARTING or RUNNING
    writer,   \* who holds SQLite's write lock: none, sync or start
    lockq,    \* the lock of the server: its owner, then those that wait
    op,       \* what the owner of the lock holds, or None
    acts,     \* actions of the administrator and of the file server so far
    ours,     \* history: the paths MSM has installed, adopted or recorded for this link
    overlaid, \* history: the paths where the administrator put a file over one of MSM
    offs,     \* history: mods disabled while no plan was under way
    astray,   \* history: the file server was changed, or was sent what is not recorded
    stale     \* history: the entries kept are not those of the etag kept

vars == <<remote, told, row, tracked, files, staging, server, writer, lockq,
          op, acts, ours, overlaid, offs, astray, stale>>
history == <<ours, overlaid, offs, astray, stale>>

(***************************************************************************)
(* Files, manifests and plans.                                             *)
(***************************************************************************)
\* What a file server answers: the mods it was told of are in disabledFiles.
Answer(manifest, off) == [p \in Paths |->
    IF manifest[p] = None THEN None
    ELSE [v |-> manifest[p].v, side |-> manifest[p].side, off |-> p \in off]]

Announced == Answer(remote, IF told = None THEN {} ELSE told)

\* Manifest.under: the entries of the folders that are synchronised.
Under(wide, entries) == [p \in Paths |-> IF wide \/ p \in Narrow THEN entries[p] ELSE None]

Listed(entries) == {p \in Paths : entries[p] # None}

\* scan_local: the active variant wins.
ScanLocal(wide) == Under(wide, [p \in Paths |->
    IF files[p].on # None THEN [v |-> files[p].on, off |-> FALSE]
    ELSE IF files[p].off # None THEN [v |-> files[p].off, off |-> TRUE]
    ELSE None])

DisabledPaths(wide) == {p \in Paths : (wide \/ p \in Narrow) /\ files[p].off # None}

\* A jar of unknown side is inspected once, where it is or once downloaded.  (One
\* renamed or replaced since it was found in place is taken for a "both".)
ToInspect(r, entries) == {p \in Listed(entries) :
    /\ r.override[p] = "auto"
    /\ entries[p].side = "unknown" /\ p \in Jars
    /\ <<p, entries[p].v>> \notin r.seen}

IsClient(r, entries, p) ==
    \/ r.override[p] = "client"
    \/ /\ r.override[p] = "auto"
       /\ \/ entries[p].side = "client"
          \/ entries[p].side = "unknown" /\ p \in Jars /\ <<p, entries[p].v>> \in ClientSide

Wanted(r, entries) == {p \in Listed(entries) : ~IsClient(r, entries, p)}

\* Mutant: the disabling announced by the file server wins over the one in place.
ComputePlanAnnounced(want, entries, local, known) ==
    LET same == {p \in want : local[p] # None /\ local[p].v = entries[p].v}
        installs == want \ same
    IN  [installs |-> [p \in installs |-> [v |-> entries[p].v, off |-> entries[p].off]],
         removes  |-> {p \in Paths : known[p] # None /\ p \notin want},
         adopts   |-> [p \in {q \in same : known[q] = None} |-> entries[p].v]]

\* A file that is already right is left alone, one that differs keeps the state
\* chosen in MSM, and only what MSM has installed is removed.
ComputePlan(want, entries, local, known) ==
    LET same == {p \in want : local[p] # None /\ local[p].v = entries[p].v}
        installs == want \ same
    IN  [installs |-> [p \in installs |->
             [v |-> entries[p].v,
              off |-> IF local[p] # None THEN local[p].off ELSE entries[p].off]],
         removes  |-> {p \in Paths : known[p] # None /\ p \notin want},
         adopts   |-> [p \in {q \in same : known[q] = None} |-> entries[p].v]]

IsMassDeletion(plan, known) ==
    /\ Cardinality(plan.removes) > MassMin
    /\ 2 * Cardinality(plan.removes) > Cardinality({p \in Paths : known[p] # None})

Empty(plan) == DOMAIN plan.installs = {} /\ plan.removes = {}

Staged(plan) == {<<p, plan.installs[p].v>> : p \in DOMAIN plan.installs}

\* apply_plan: each installation replaces both variants, then the removals.
Applied(plan) == [p \in Paths |->
    IF p \in DOMAIN plan.installs
    THEN IF plan.installs[p].off THEN [on |-> None, off |-> plan.installs[p].v]
                                 ELSE [on |-> plan.installs[p].v, off |-> None]
    ELSE IF p \in plan.removes THEN [on |-> None, off |-> None]
    ELSE files[p]]

\* Mutant: the former files are removed before the new ones are put in place.
HalfAppliedClears(plan, done) == [p \in Paths |->
    IF p \in done THEN Applied(plan)[p]
    ELSE IF p \in DOMAIN plan.installs THEN [on |-> None, off |-> None]
    ELSE files[p]]

\* An installation fails: those before it are done, nothing is removed.
HalfApplied(plan, done) ==
    Applied([plan EXCEPT !.installs = [p \in done |-> plan.installs[p]], !.removes = {}])

\* _record_files.
Recorded(plan, known) == [p \in Paths |->
    IF p \in DOMAIN plan.installs THEN plan.installs[p].v
    ELSE IF p \in DOMAIN plan.adopts THEN plan.adopts[p]
    ELSE IF p \in plan.removes THEN None
    ELSE known[p]]

Adopted(plan, known) == [p \in Paths |->
    IF p \in DOMAIN plan.adopts THEN plan.adopts[p] ELSE known[p]]

NewRow(token, n) ==
    [id |-> n, src |-> n, enabled |-> TRUE, wide |-> FALSE, etag |-> None,
     entries |-> [p \in Paths |-> None], seen |-> {},
     override |-> [p \in Paths |-> "auto"], plan |-> None,
     token |-> token, rev |-> 0, pushed |-> 0, disabled |-> {}]

(***************************************************************************)
(* The lock and the transactions.                                          *)
(***************************************************************************)
Owns(kind) == lockq # <<>> /\ Head(lockq).kind = kind

Task(kind, by) == [kind |-> kind, by |-> by, mass |-> FALSE, plan |-> None]

\* The loop and the requests wait for what they ask before asking more.
Waits(by) == \E i \in DOMAIN lockq : lockq[i].by = by

Ask(task) == /\ Len(lockq) < MaxQueue
             /\ lockq' = Append(lockq, task)

Release == lockq' = Tail(lockq) /\ op' = None

\* The commit writes the columns that changed since the row was loaded.
Commit(new) == row' = [c \in DOMAIN row |-> IF new[c] # op.snap[c] THEN new[c] ELSE row[c]]

CommitSync(new) == Commit(new) /\ writer' = "none" /\ Release

\* The same once the entries read are written with their etag.
CommitRead(new) ==
    /\ CommitSync(new)
    /\ stale' = \/ row.src # op.snap.src
                \/ IF op.fresh THEN row.wide # op.snap.wide ELSE stale

SameRow == row # None /\ row.id = op.snap.id

\* A push that has been sent and is not recorded yet.
Unrecorded == Owns("push") /\ op.new.pushed # op.snap.pushed

\* Who holds the lock waits for the write lock of a start request, which waits
\* for the lock in its hook: SQLite gives up, and nothing is written.
Busy ==
    /\ writer = "start"
    /\ \/ Owns("sync") /\ op # None /\ op.pc = "fetch"
       \/ Owns("push") /\ op.pc = "save" /\ op.new # op.snap
       \/ Owns("record")
    /\ Release
    /\ astray' = (astray \/ Unrecorded)
    /\ UNCHANGED <<remote, told, row, tracked, files, staging, server, writer,
                   acts, ours, overlaid, offs, stale>>

\* A plan waits to be applied or is being carried out, or the folder has been read
\* for one that is not made yet.
PlanUnderWay ==
    \/ row # None /\ row.plan # None
    \/ op # None /\ op.plan # None
    \/ Owns("sync") /\ op # None /\ op.pc = "inspect"

(***************************************************************************)
(* run_sync.                                                               *)
(***************************************************************************)
SyncRead ==
    /\ Owns("sync") /\ op = None
    /\ IF row = None \/ ~row.enabled
       THEN Release
       ELSE /\ op' = [pc |-> "fetch", snap |-> row, new |-> row, plan |-> None,
                      entries |-> None, local |-> None, fresh |-> FALSE]
            /\ UNCHANGED lockq
    /\ UNCHANGED <<remote, told, row, tracked, files, staging, server, writer,
                   acts, history>>

\* The file server does not answer, or its manifest is refused.
FetchFails ==
    /\ Owns("sync") /\ op # None /\ op.pc = "fetch" /\ writer = "none"
    /\ IF SameRow THEN CommitSync(op.new)
                  ELSE Release /\ UNCHANGED <<row, writer>>
    /\ UNCHANGED <<remote, told, tracked, files, staging, server, acts, history>>

\* The manifest is read, or has not changed since its etag: the entries kept then
\* stand for it.  The query that follows writes the row, which may be gone, and the
\* folder is read before the sides are known.
Fetch ==
    /\ Owns("sync") /\ op # None /\ op.pc = "fetch" /\ writer = "none"
    /\ IF ~SameRow THEN Release /\ UNCHANGED writer
       ELSE /\ \E answer \in IF row.src = op.snap.src THEN {Announced}
                           ELSE {Answer(m, {}) : m \in Manifests} :
               LET same == Listed(op.snap.entries) # {} /\ op.snap.etag = answer
               IN  op' = [op EXCEPT
                     !.pc = "inspect", !.fresh = ~same,
                     !.entries = Under(op.snap.wide, IF same THEN op.snap.entries ELSE answer),
                     !.local = ScanLocal(op.snap.wide),
                     !.new.etag = IF same THEN op.snap.etag ELSE answer]
            /\ writer' = "sync"
            /\ UNCHANGED lockq
    /\ UNCHANGED <<remote, told, row, tracked, files, staging, server, acts, history>>

\* The contents to download before their side is known.
ToFetch == {<<p, op.entries[p].v>> : p \in
    {q \in ToInspect(op.snap, op.entries) :
        op.local[q] = None \/ op.local[q].v # op.entries[q].v}}

\* One of them cannot be downloaded: the etag is kept, and the former entries.
InspectFails ==
    /\ Owns("sync") /\ op # None /\ op.pc = "inspect"
    /\ ~(ToFetch \subseteq staging)
    /\ CommitSync(op.new)
    /\ stale' = (stale \/ op.fresh)
    /\ UNCHANGED <<remote, told, tracked, files, staging, server, acts, ours, overlaid, offs,
                   astray>>

\* Mutant: the etag kept was read in the session, the entries kept were not.
MakePlanForgets ==
    /\ Owns("sync") /\ op # None /\ op.pc = "inspect"
    /\ LET plan == ComputePlan(Wanted(op.snap, op.entries), op.entries, op.local, tracked)
       IN  /\ staging' = staging \cup ToFetch
           /\ IF IsMassDeletion(plan, tracked) /\ ~Head(lockq).mass
              THEN CommitRead([op.new EXCEPT !.plan = None])
              ELSE /\ op' = [op EXCEPT !.pc = "download", !.plan = plan]
                   /\ UNCHANGED <<row, writer, lockq, stale>>
    /\ UNCHANGED <<remote, told, tracked, files, server, acts, ours, overlaid, offs, astray>>

\* Once the sides are known: from the folder as it was read before.
MakePlan ==
    /\ Owns("sync") /\ op # None /\ op.pc = "inspect"
    /\ LET plan == ComputePlan(Wanted(op.snap, op.entries), op.entries, op.local, tracked)
           new == [op.new EXCEPT
                     !.entries = op.entries,
                     !.seen = @ \cup {<<p, op.entries[p].v>> : p \in ToInspect(op.snap, op.entries)}]
       IN  /\ staging' = staging \cup ToFetch
           /\ IF IsMassDeletion(plan, tracked) /\ ~Head(lockq).mass
              THEN CommitRead([new EXCEPT !.plan = None])
              ELSE /\ op' = [op EXCEPT !.pc = "download", !.plan = plan, !.new = new]
                   /\ UNCHANGED <<row, writer, lockq, stale>>
    /\ UNCHANGED <<remote, told, tracked, files, server, acts, ours, overlaid, offs, astray>>

\* What was already right is taken over whatever comes next.
Adopt == tracked' = Adopted(op.plan, tracked) /\ ours' = ours \cup DOMAIN op.plan.adopts

DownloadFails ==
    /\ Owns("sync") /\ op # None /\ op.pc = "download"
    /\ ~(Staged(op.plan) \subseteq staging)
    /\ CommitRead(op.new)
    /\ Adopt
    /\ UNCHANGED <<remote, told, files, staging, server, acts, overlaid, offs, astray>>

\* Mutant: the server is not looked at again, the plan is applied at once.
SettleNow ==
    /\ Owns("sync") /\ op # None /\ op.pc = "download"
    /\ IF Empty(op.plan)
       THEN /\ CommitRead([op.new EXCEPT !.plan = None])
            /\ staging' = {} /\ Adopt
       ELSE /\ op' = [op EXCEPT !.pc = "apply"]
            /\ staging' = staging \cup Staged(op.plan)
            /\ UNCHANGED <<row, writer, lockq, tracked, ours, stale>>
    /\ UNCHANGED <<remote, told, files, server, acts, overlaid, offs, astray>>

\* Everything is downloaded: nothing to do, not now, or now.
Settle ==
    /\ Owns("sync") /\ op # None /\ op.pc = "download"
    /\ \/ /\ Empty(op.plan)
          /\ CommitRead([op.new EXCEPT !.plan = None])
          /\ staging' = {} /\ Adopt
       \/ /\ ~Empty(op.plan) /\ server # "STOPPED"
          /\ CommitRead([op.new EXCEPT !.plan = op.plan])
          /\ staging' = staging \cup Staged(op.plan) /\ Adopt
       \/ /\ ~Empty(op.plan) /\ server = "STOPPED"
          /\ op' = [op EXCEPT !.pc = "apply"]
          /\ staging' = staging \cup Staged(op.plan)
          /\ UNCHANGED <<row, writer, lockq, tracked, ours, stale>>
    /\ UNCHANGED <<remote, told, files, server, acts, overlaid, offs, astray>>

\* What a plan put in place belongs to MSM; what it removed is no one's any more.
Take(plan) == /\ ours' = ours \cup DOMAIN plan.installs \cup DOMAIN plan.adopts
              /\ offs' = {p \in offs : files'[p] # [on |-> None, off |-> None]}

\* A thread goes through the files one by one: what is done to a file meanwhile comes
\* before or after what the plan does to that file.
SyncApply ==
    /\ Owns("sync") /\ op # None /\ op.pc = "apply"
    /\ files' = Applied(op.plan)
    /\ tracked' = Recorded(op.plan, tracked)
    /\ staging' = {}
    /\ CommitRead([op.new EXCEPT !.plan = None])
    /\ Take(op.plan)
    /\ UNCHANGED <<remote, told, server, acts, overlaid, astray>>

SyncApplyFails ==
    /\ Owns("sync") /\ op # None /\ op.pc = "apply"
    /\ \E done \in SUBSET DOMAIN op.plan.installs \ {DOMAIN op.plan.installs} :
          files' = HalfApplied(op.plan, done)
    /\ CommitRead(op.new)
    /\ Adopt
    /\ UNCHANGED <<remote, told, staging, server, acts, overlaid, offs, astray>>

(***************************************************************************)
(* apply_pending, by the hook of a start or by the loop, and the           *)
(* bookkeeping that follows it under another hold of the lock.             *)
(***************************************************************************)
Applier == Owns("hook") \/ Owns("tick")

\* Mutant: the hook cancels its plan in the base before it lets the process go.
LaunchAfterWrite(queue) ==
    /\ Owns("hook") /\ op # None => writer = "none"
    /\ lockq' = queue /\ op' = None
    /\ IF Owns("hook") THEN /\ server' \in {"RUNNING", "STOPPED"}
                            /\ writer' = IF writer = "start" THEN "none" ELSE writer
                       ELSE UNCHANGED <<server, writer>>

\* The hook is over: the process is launched, or cannot be, and the transaction of
\* the start request ends.
Launch(queue) ==
    /\ lockq' = queue /\ op' = None
    /\ IF Owns("hook") THEN /\ server' \in {"RUNNING", "STOPPED"}
                            /\ writer' = IF writer = "start" THEN "none" ELSE writer
                       ELSE UNCHANGED <<server, writer>>

ApplyRead ==
    /\ Applier /\ op = None
    /\ IF row = None \/ row.plan = None
       THEN Launch(Tail(lockq))
       ELSE /\ op' = [pc |-> "swap", plan |-> row.plan, id |-> row.id]
            /\ UNCHANGED <<lockq, server, writer>>
    /\ UNCHANGED <<remote, told, row, tracked, files, staging, acts, history>>

\* A plan whose files are no longer prepared is given up.
Swap ==
    /\ Applier /\ op # None
    /\ LET complete == Staged(op.plan) \subseteq staging
           by == IF Owns("hook") THEN "task" ELSE "loop"
       IN  /\ Launch(Append(Tail(lockq),
                            [Task("record", by) EXCEPT !.plan = IF complete THEN op.plan ELSE None]))
           /\ IF complete THEN files' = Applied(op.plan) /\ Take(op.plan)
                          ELSE UNCHANGED <<files, ours, offs>>
    /\ UNCHANGED <<remote, told, row, tracked, staging, acts, overlaid, astray, stale>>

SwapFails ==
    /\ Applier /\ op # None
    /\ \E done \in SUBSET DOMAIN op.plan.installs \ {DOMAIN op.plan.installs} :
          files' = HalfApplied(op.plan, done)
    /\ Launch(Tail(lockq))
    /\ UNCHANGED <<remote, told, row, tracked, staging, acts, history>>

RecordApplied ==
    /\ Owns("record") /\ writer = "none"
    /\ LET plan == Head(lockq).plan
       IN  /\ row' = IF row = None THEN None ELSE [row EXCEPT !.plan = None]
           /\ IF row # None /\ plan # None
              THEN /\ tracked' = Recorded(plan, tracked)
                   /\ staging' = {}
                   /\ ours' = ours \cup DOMAIN plan.installs \cup DOMAIN plan.adopts
              ELSE UNCHANGED <<tracked, staging, ours>>
    /\ Release
    /\ UNCHANGED <<remote, told, files, server, writer, acts, overlaid, offs, astray, stale>>

(***************************************************************************)
(* publish_state.                                                          *)
(***************************************************************************)
\* One starts at each tick (the two minutes after a failure only put it off), after
\* a toggle, after a synchronisation and when asked for: at any time.
PushRead ==
    /\ lockq = <<>> /\ row # None /\ row.enabled
    /\ LET d == DisabledPaths(row.wide)
           rev == IF d # row.disabled THEN row.rev + 1
                  ELSE IF row.rev = 0 THEN 1 ELSE row.rev
       IN  /\ \/ rev # row.rev \/ (row.pushed < rev /\ row.token)
           /\ op' = [pc   |-> IF row.pushed >= rev \/ ~row.token THEN "save" ELSE "send",
                     snap |-> row, plan |-> None,
                     new  |-> [row EXCEPT !.rev = rev, !.disabled = d]]
    /\ lockq' = <<Task("push", "push")>>
    /\ UNCHANGED <<remote, told, row, tracked, files, staging, server, writer,
                   acts, history>>

\* The push goes to the address that was loaded.
PushSend ==
    /\ Owns("push") /\ op # None /\ op.pc = "send"
    /\ op' = [op EXCEPT !.pc = "save", !.new.pushed = op.new.rev]
    /\ IF row # None /\ row.src = op.snap.src
       THEN told' = op.new.disabled /\ astray' = FALSE
       ELSE UNCHANGED <<told, astray>>
    /\ UNCHANGED <<remote, row, tracked, files, staging, server, writer, lockq,
                   acts, ours, overlaid, offs, stale>>

PushFails ==
    /\ Owns("push") /\ op # None /\ op.pc = "send"
    /\ op' = [op EXCEPT !.pc = "save"]
    /\ UNCHANGED <<remote, told, row, tracked, files, staging, server, writer, lockq,
                   acts, history>>

PushSave ==
    /\ Owns("push") /\ op # None /\ op.pc = "save"
    /\ IF op.new # op.snap /\ SameRow THEN writer = "none" /\ Commit(op.new)
                                      ELSE UNCHANGED row
    /\ Release
    /\ UNCHANGED <<remote, told, tracked, files, staging, server, writer,
                   acts, history>>

(***************************************************************************)
(* LauncherSyncer: what the loop asks for, one thing at a time.            *)
(***************************************************************************)
asking == <<remote, told, row, tracked, files, staging, server, writer, op, acts, history>>

LoopSync == /\ row # None /\ row.enabled /\ lockq = <<>>
            /\ Ask(Task("sync", "loop"))
            /\ UNCHANGED asking

\* It sees a plan and a stopped server, then waits for the lock.
LoopApply == /\ row # None /\ row.enabled /\ row.plan # None /\ server = "STOPPED"
             /\ ~Waits("loop")
             /\ Ask(Task("tick", "loop"))
             /\ UNCHANGED asking

(***************************************************************************)
(* The server.                                                             *)
(***************************************************************************)
\* The hook of a start waits for the lock before anything is launched.
Start ==
    /\ server = "STOPPED" /\ server' = "STARTING"
    /\ Ask(Task("hook", "start"))
    /\ UNCHANGED <<remote, told, row, tracked, files, staging, op, acts, history>>

\* The request for a start holds SQLite's write lock until the start is over.
Requested == Start /\ writer = "none" /\ writer' = "start"

\* The start that follows a crash of the server has no session.
Automatic == Start /\ UNCHANGED writer

Exit ==
    /\ server = "RUNNING" /\ server' = "STOPPED"
    /\ UNCHANGED <<remote, told, row, tracked, files, staging, writer, lockq, op,
                   acts, history>>

(***************************************************************************)
(* The administrator, the file server and MSM itself.                      *)
(***************************************************************************)
Act == acts < MaxActs /\ acts' = acts + 1

Link(token) ==
    /\ Act /\ row = None /\ writer = "none"
    /\ row' = NewRow(token, acts + 1)
    /\ told' = None /\ astray' = FALSE /\ stale' = FALSE
    /\ UNCHANGED <<remote, tracked, files, staging, server, writer, lockq, op, ours, overlaid, offs>>

\* One request of the settings page.  Another address makes what was known of the
\* former one worthless; the file server there has not been told anything.
Configure(r) ==
    /\ Act /\ row # None /\ writer = "none"
    /\ LET known == IF r.move THEN [row EXCEPT !.etag = None, !.seen = {}, !.src = acts + 1,
                                               !.entries = [p \in Paths |-> None]]
                              ELSE row
       IN  row' = [known EXCEPT !.wide = r.wide, !.enabled = r.enabled,
                                !.plan = IF r.enabled THEN @ ELSE None,
                                !.token = r.token = "new" \/ (@ /\ r.token = "keep"),
                                !.pushed = IF r.token = "new" THEN 0 ELSE @]
    /\ IF r.move THEN remote' \in Manifests /\ told' = None /\ astray' = TRUE
                 ELSE UNCHANGED <<remote, told>> /\ astray' = (astray /\ (r.token # "new" \/ Owns("push")))
    /\ stale' = (~r.move /\ (stale \/ r.wide # row.wide))
    /\ UNCHANGED <<tracked, files, staging, server, writer, lockq, op, ours, overlaid, offs>>

Remove ==
    /\ Act /\ row # None /\ writer = "none"
    /\ row' = None
    /\ tracked' = [p \in Paths |-> None]
    /\ staging' = {}
    /\ ours' = {}
    /\ UNCHANGED <<remote, told, files, server, writer, lockq, op, overlaid, offs, astray, stale>>

\* A side is forced, or is detected again; "server" is "both" for MSM.
SetSide(p, side) ==
    /\ Act /\ row # None /\ writer = "none"
    /\ row' = [row EXCEPT !.override[p] = side]
    /\ UNCHANGED <<remote, told, tracked, files, staging, server, writer, lockq, op,
                   history>>

SyncNow(mass) ==
    /\ Act /\ row # None /\ ~Waits("user")
    /\ Ask([Task("sync", "user") EXCEPT !.mass = mass])
    /\ UNCHANGED <<remote, told, row, tracked, files, staging, server, writer, op,
                   history>>

\* FileService.set_enabled, then notify_mods_changed.
Toggle(p) ==
    /\ Act
    /\ \/ files[p].on # None /\ files[p].off = None
       \/ files[p].on = None /\ files[p].off # None
    /\ files' = [files EXCEPT ![p] = [on |-> files[p].off, off |-> files[p].on]]
    /\ offs' = IF files[p].on # None /\ ~PlanUnderWay THEN offs \cup {p} ELSE offs \ {p}
    /\ UNCHANGED <<remote, told, row, tracked, staging, server, writer, lockq, op,
                   ours, overlaid, astray, stale>>

\* The file at p is one that MSM holds for its own, or may come to by what it has
\* begun and not recorded.
Claimed(p) == p \in ours \/ PlanUnderWay \/ \E i \in DOMAIN lockq : lockq[i].plan # None

\* An upload writes the plain name, whether the other one exists or not.
Upload(p) ==
    /\ Act
    /\ files' = [files EXCEPT ![p].on = Own]
    /\ offs' = offs \ {p}
    /\ overlaid' = IF Claimed(p) THEN overlaid \cup {p} ELSE overlaid
    /\ UNCHANGED <<remote, told, row, tracked, staging, server, writer, lockq, op,
                   ours, astray, stale>>

\* FileService.delete takes the file, or else its disabled variant.
DeleteFile(p) ==
    /\ Act
    /\ IF files[p].on # None THEN files' = [files EXCEPT ![p].on = None]
       ELSE files[p].off # None /\ files' = [files EXCEPT ![p].off = None]
    /\ offs' = offs \ {p}
    /\ UNCHANGED <<remote, told, row, tracked, staging, server, writer, lockq, op,
                   ours, overlaid, astray, stale>>

Publish(m) ==
    /\ Act /\ m # remote
    /\ remote' = m
    /\ UNCHANGED <<told, row, tracked, files, staging, server, writer, lockq, op,
                   history>>

\* MSM stops: the lock, the operations and the open transaction are gone, the
\* server goes on, and a plan may be half applied.
Crash ==
    /\ Act
    /\ IF op # None /\ op.pc \in {"apply", "swap"}
       THEN \E done \in SUBSET DOMAIN op.plan.installs : files' = HalfApplied(op.plan, done)
       ELSE UNCHANGED files
    /\ lockq' = <<>> /\ op' = None /\ writer' = "none"
    /\ server' = IF server = "STARTING" THEN "STOPPED" ELSE server
    /\ astray' = (astray \/ Unrecorded)
    /\ UNCHANGED <<remote, told, row, tracked, staging, ours, overlaid, offs, stale>>

Init ==
    /\ remote \in Manifests /\ told = {}
    /\ row = [NewRow(TRUE, 0) EXCEPT !.rev = 1, !.pushed = 1]
    /\ tracked = [p \in Paths |-> None]
    /\ files = [p \in Paths |-> [on |-> None, off |-> None]]
    /\ staging = {} /\ server = "STOPPED" /\ writer = "none"
    /\ lockq = <<>> /\ op = None /\ acts = 0
    /\ ours = {} /\ overlaid = {} /\ offs = {} /\ astray = FALSE /\ stale = FALSE

Sync == SyncRead \/ FetchFails \/ Fetch \/ InspectFails \/ MakePlan \/ DownloadFails
        \/ Settle \/ SyncApply \/ SyncApplyFails
Apply == ApplyRead \/ Swap \/ SwapFails
Push == PushRead \/ PushSend \/ PushFails \/ PushSave
Holder == Busy \/ Sync \/ Apply \/ RecordApplied \/ Push

Loop == LoopSync \/ LoopApply

Process == Requested \/ Automatic \/ Exit

\* The routes of the integration.
Routes ==
    \/ \E token \in BOOLEAN : Link(token)
    \/ \E r \in Requests : Configure(r)
    \/ Remove
    \/ \E mass \in BOOLEAN : SyncNow(mass)
    \/ \E p \in Paths, side \in Overrides : SetSide(p, side)

\* The routes of the files of the server.
FileRoutes == \E p \in Paths : Toggle(p) \/ Upload(p) \/ DeleteFile(p)

User == Routes \/ FileRoutes \/ \E m \in Manifests : Publish(m)

Next == Holder \/ Loop \/ Process \/ User \/ Crash

\* Who owns the lock goes on.
Fairness == WF_vars(Holder)

Spec == Init /\ [][Next]_vars /\ Fairness

(***************************************************************************)
(* Properties.                                                             *)
(***************************************************************************)
Contents == Versions \cup {Own, None}

Entries == [Paths -> [v : Versions, side : Sides, off : BOOLEAN] \cup {None}]

Locals == [Paths -> [v : Contents, off : BOOLEAN] \cup {None}]

Plans == [installs : UNION {[S -> [v : Versions, off : BOOLEAN]] : S \in SUBSET Paths},
          removes : SUBSET Paths,
          adopts : UNION {[S -> Versions] : S \in SUBSET Paths}]

Row == [id : Nat, src : Nat, enabled : BOOLEAN, wide : BOOLEAN,
        etag : Entries \cup {None}, entries : Entries, seen : SUBSET (Paths \X Versions),
        override : [Paths -> Overrides], plan : Plans \cup {None},
        token : BOOLEAN, rev : Nat, pushed : Nat, disabled : SUBSET Paths]

Tasks == [kind : {"sync", "hook", "tick", "record", "push"},
          by : {"loop", "user", "start", "task", "push"},
          mass : BOOLEAN, plan : Plans \cup {None}]

SyncOp == [pc : {"fetch", "inspect", "download", "apply"}, snap : Row, new : Row,
           plan : Plans \cup {None}, entries : Entries \cup {None},
           local : Locals \cup {None}, fresh : BOOLEAN]

PushOp == [pc : {"send", "save"}, snap : Row, new : Row, plan : {None}]

SwapOp == [pc : {"swap"}, plan : Plans, id : Nat]

ASSUME NoneIsNoRecord == None \notin Row \cup Plans \cup SyncOp \cup [v : Contents, off : BOOLEAN]

\* What the head of the lock holds is of its kind; who publishes never waits.
Holds == /\ lockq = <<>> => op = None
         /\ \A i \in DOMAIN lockq : lockq[i].kind = "push" => i = 1
         /\ Owns("sync") => op \in SyncOp \cup {None}
         /\ Owns("push") => op \in PushOp
         /\ Applier => op \in SwapOp \cup {None}
         /\ Owns("record") => op = None

TypeOK ==
    /\ remote \in Manifests /\ told \in (SUBSET Paths) \cup {None}
    /\ row \in Row \cup {None}
    /\ tracked \in [Paths -> Versions \cup {None}]
    /\ files \in [Paths -> [on : Contents, off : Contents]]
    /\ staging \subseteq Paths \X Versions
    /\ server \in {"STOPPED", "STARTING", "RUNNING"}
    /\ writer \in {"none", "sync", "start"}
    /\ lockq \in Seq(Tasks) /\ Len(lockq) <= MaxQueue /\ Holds
    /\ astray \in BOOLEAN /\ stale \in BOOLEAN /\ acts \in 0 .. MaxActs
    /\ ours \subseteq Paths /\ overlaid \subseteq Paths /\ offs \subseteq Paths

\* No plan touches the folder while the process runs: what is decided while the
\* server is stopped is finished before it may start, and the rest waits.
NoSwapUnderTheServer ==
    [][files' # files /\ acts' = acts => server # "RUNNING"]_vars

\* plan.py:15: the disabling decided in MSM wins.  A mod disabled while no plan was
\* under way stays disabled through updates, failures and restarts.  (A plan made from
\* the folder as it was before the mod was disabled turns it on again: it waits for the
\* next start, or the inspection of the jars lies between the two.)
DisabledStaysDisabled == \A p \in offs : files[p].on = None

\* MSM takes both variants of a file away.
Goes(p) == /\ acts' = acts
           /\ \E x \in {"on", "off"} : files[p][x] # None
           /\ files'[p] = [on |-> None, off |-> None]

\* The file at p is one the administrator put there.
ByHand(p) == Own \in {files[p].on, files[p].off}

\* plan.py:11: MSM only removes what it has installed or taken over under the link
\* in force: the path is its own, and so is the file, unless the administrator put one
\* over a file of MSM, or while one was being installed.  (A link removed while its
\* last plan is being applied does not stop the plan.)
OnlyOursGo ==
    [][\A p \in Paths : Goes(p) =>
            \/ p \in ours /\ (ByHand(p) => p \in overlaid)
            \/ op.pc = "swap" /\ (row = None \/ row.id # op.id)]_vars

\* The entries kept are those of the manifest whose etag is kept, so that an answer
\* "not modified" stands for it, unless an inspection failed after the etag was
\* read, the folders changed since, or the address changed during a synchronisation.
CacheIsTheManifest ==
    row # None /\ row.etag # None /\ ~stale => row.entries = Under(row.wide, row.etag)

\* A start always ends: its hook gets the lock whoever holds it, although the
\* request holds what they write with.
StartsEnd == server = "STARTING" ~> server # "STARTING"

\* What MSM believes published is what the file server has, so that a difference is
\* always published in the end, unless the file server was changed without a new
\* token, or with one given during a push, or a push was sent and never recorded.
PublishedIsKnown ==
    row # None /\ row.pushed >= row.rev /\ row.rev > 0 /\ ~astray /\ ~Owns("push")
        => told = row.disabled

\* What MSM keeps of the file server, in both directions, is what is there.
CacheIsTrue == CacheIsTheManifest /\ PublishedIsKnown
=============================================================================
