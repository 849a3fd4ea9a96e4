------------------------- MODULE LauncherSyncProofs -------------------------
(***************************************************************************)
(* Proofs about LauncherSync, for any paths, versions and manifests, any   *)
(* settings the administrator may ask for and any bound.                   *)
(*                                                                         *)
(* Held is inductive by itself and every other part uses it:               *)
(*   Held       types, and what the head of the lock holds is what it is   *)
(*              working on: a synchronisation that has asked the database  *)
(*              keeps the write lock to its commit, over the link it       *)
(*              loaded, and identifiers and addresses never come back;     *)
(*   Line       a start under way is its hook in the queue of the lock,    *)
(*              once, behind any application the loop has asked for;       *)
(*   Disabled   every plan made, kept or being applied leaves disabled     *)
(*              what was disabled while there was none;                    *)
(*   Ours       what is recorded as installed, and what a plan removes,    *)
(*              was installed or adopted under the link;                   *)
(*   Untouched  where a file stands that the administrator put over none   *)
(*              of MSM, nothing has become ours nor is about to;           *)
(*   Cached     what a synchronisation loaded is still what the row has,   *)
(*              and what it read is the manifest whose etag it brings;     *)
(*   Published  what is believed published is what the file server was     *)
(*              told, but for a publication sent and not yet recorded.     *)
(***************************************************************************)
EXTENDS LauncherSync, SequenceTheorems, TLAPS

-----------------------------------------------------------------------------
(***************************************************************************)
(* Manifests, files and plans are what their names say.                    *)
(***************************************************************************)
Tracking == [Paths -> Versions \cup {None}]
Folder == [Paths -> [on : Contents, off : Contents]]
Local == Locals

\* What a file server answers is a manifest.
LEMMA AnswerType ==
    ASSUME NEW m \in Manifests, NEW off
    PROVE  Answer(m, off) \in Entries
<1>1. m \in [Paths -> [v : Versions, side : Sides] \cup {None}]
  BY LauncherAssumption
<1>2. ASSUME NEW p \in Paths
      PROVE  (IF m[p] = None THEN None ELSE [v |-> m[p].v, side |-> m[p].side, off |-> p \in off])
                \in [v : Versions, side : Sides, off : BOOLEAN] \cup {None}
  BY <1>1
<1>3. QED  BY <1>2 DEF Answer, Entries

\* Its part under the folders synchronised is one too, and lists nothing else.
LEMMA UnderType ==
    ASSUME NEW entries \in Entries, NEW wide \in BOOLEAN
    PROVE  /\ Under(wide, entries) \in Entries
           /\ \A p \in Listed(Under(wide, entries)) : wide \/ p \in Narrow
  BY DEF Under, Entries, Listed

\* What is read of the folder.
LEMMA LocalType ==
    ASSUME files \in Folder, NEW wide \in BOOLEAN
    PROVE  ScanLocal(wide) \in Local
<1> DEFINE found == [p \in Paths |->
               IF files[p].on # None THEN [v |-> files[p].on, off |-> FALSE]
               ELSE IF files[p].off # None THEN [v |-> files[p].off, off |-> TRUE]
               ELSE None]
<1>1. \A p \in Paths : found[p] \in [v : Contents, off : BOOLEAN] \cup {None}
  BY DEF Folder
<1>2. ScanLocal(wide) = [p \in Paths |-> IF wide \/ p \in Narrow THEN found[p] ELSE None]
  BY DEF ScanLocal, Under
<1> HIDE DEF found
<1>3. QED  BY <1>1, <1>2 DEF Local, Locals

\* A plan is made of paths that are wanted or tracked, and keeps their state.
IsPlanFor(plan, want, entries, local, known) ==
    /\ plan \in Plans
    /\ plan.removes = {p \in Paths : known[p] # None /\ p \notin want}
    /\ \A p \in DOMAIN plan.installs :
          /\ p \in want
          /\ plan.installs[p].off = IF local[p] # None THEN local[p].off ELSE entries[p].off

LEMMA PlanType ==
    ASSUME NEW entries \in Entries, NEW want \in SUBSET Listed(entries),
           NEW local \in Local, NEW known \in Tracking
    PROVE  IsPlanFor(ComputePlan(want, entries, local, known), want, entries, local, known)
<1>0. want \subseteq Paths /\ \A p \in want : entries[p].v \in Versions /\ entries[p].off \in BOOLEAN
  BY DEF Listed, Entries
<1> DEFINE same == {p \in want : local[p] # None /\ local[p].v = entries[p].v}
           installs == want \ same
           adopts == {q \in same : known[q] = None}
           new == [p \in installs |->
                     [v |-> entries[p].v,
                      off |-> IF local[p] # None THEN local[p].off ELSE entries[p].off]]
           kept == [p \in adopts |-> entries[p].v]
           gone == {p \in Paths : known[p] # None /\ p \notin want}
<1>1. installs \in SUBSET Paths /\ adopts \in SUBSET Paths /\ gone \in SUBSET Paths
  BY <1>0
<1>2. new \in [installs -> [v : Versions, off : BOOLEAN]]
  BY <1>0 DEF Local, Locals
<1>3. kept \in [adopts -> Versions]
  BY <1>0
<1>4. ComputePlan(want, entries, local, known) = [installs |-> new, removes |-> gone, adopts |-> kept]
  BY DEF ComputePlan
<1>5. DOMAIN new = installs /\ \A p \in installs :
         new[p].off = IF local[p] # None THEN local[p].off ELSE entries[p].off
  OBVIOUS
<1> HIDE DEF new, kept, gone, installs, adopts
<1>6. [installs |-> new, removes |-> gone, adopts |-> kept] \in Plans
  BY <1>1, <1>2, <1>3 DEF Plans
<1>7. installs \subseteq want
  BY DEF installs
<1>8. QED  BY <1>4, <1>5, <1>6, <1>7 DEF gone, IsPlanFor

\* The parts of a plan.
LEMMA PlanParts ==
    ASSUME NEW plan \in Plans
    PROVE  /\ DOMAIN plan.installs \subseteq Paths /\ plan.removes \subseteq Paths
           /\ \A p \in DOMAIN plan.installs :
                 plan.installs[p].v \in Versions /\ plan.installs[p].off \in BOOLEAN
           /\ DOMAIN plan.adopts \subseteq Paths
           /\ \A p \in DOMAIN plan.adopts : plan.adopts[p] \in Versions
  BY DEF Plans

\* Applying a plan, or only some of its installations, leaves a folder.
LEMMA AppliedType ==
    ASSUME files \in Folder, NEW plan \in Plans
    PROVE  /\ Applied(plan) \in Folder
           /\ \A p \in Paths :
                 Applied(plan)[p] =
                    IF p \in DOMAIN plan.installs
                    THEN IF plan.installs[p].off THEN [on |-> None, off |-> plan.installs[p].v]
                                                 ELSE [on |-> plan.installs[p].v, off |-> None]
                    ELSE IF p \in plan.removes THEN [on |-> None, off |-> None] ELSE files[p]
<1> DEFINE new(p) == IF p \in DOMAIN plan.installs
                     THEN IF plan.installs[p].off THEN [on |-> None, off |-> plan.installs[p].v]
                                                  ELSE [on |-> plan.installs[p].v, off |-> None]
                     ELSE IF p \in plan.removes THEN [on |-> None, off |-> None] ELSE files[p]
<1>1. \A p \in Paths : new(p) \in [on : Contents, off : Contents]
  BY PlanParts DEF Folder, Contents
<1>2. Applied(plan) = [p \in Paths |-> new(p)]
  BY DEF Applied
<1> HIDE DEF new
<1>3. Applied(plan) \in Folder /\ \A p \in Paths : Applied(plan)[p] = new(p)
  BY <1>1, <1>2 DEF Folder
<1>4. QED  BY <1>3 DEF new

LEMMA HalfAppliedType ==
    ASSUME files \in Folder, NEW plan \in Plans, NEW done \in SUBSET DOMAIN plan.installs
    PROVE  /\ HalfApplied(plan, done) \in Folder
           /\ \A p \in Paths :
                 HalfApplied(plan, done)[p] =
                    IF p \in done
                    THEN IF plan.installs[p].off THEN [on |-> None, off |-> plan.installs[p].v]
                                                 ELSE [on |-> plan.installs[p].v, off |-> None]
                    ELSE files[p]
<1> DEFINE half == [p \in done |-> plan.installs[p]]
           part == [plan EXCEPT !.installs = half, !.removes = {}]
<1>1. done \in SUBSET Paths /\ half \in [done -> [v : Versions, off : BOOLEAN]]
  BY DEF Plans
<1>a. DOMAIN half = done /\ \A p \in done : half[p] = plan.installs[p]
  OBVIOUS
<1> HIDE DEF half
<1>2. part \in Plans /\ part.installs = half /\ part.removes = {}
  <2> DEFINE Installs == UNION {[S -> [v : Versions, off : BOOLEAN]] : S \in SUBSET Paths}
             Adopts == UNION {[S -> Versions] : S \in SUBSET Paths}
  <2>1. half \in Installs /\ {} \in SUBSET Paths
    BY <1>1
  <2>2. Plans = [installs : Installs, removes : SUBSET Paths, adopts : Adopts]
    BY DEF Plans
  <2> HIDE DEF Installs, Adopts
  <2>3. QED  BY <2>1, <2>2
<1>3. HalfApplied(plan, done) = Applied(part)
  BY DEF HalfApplied, half
<1> HIDE DEF part
<1>4. /\ Applied(part) \in Folder
      /\ \A p \in Paths :
            Applied(part)[p] =
               IF p \in DOMAIN half
               THEN IF half[p].off THEN [on |-> None, off |-> half[p].v]
                                   ELSE [on |-> half[p].v, off |-> None]
               ELSE IF p \in {} THEN [on |-> None, off |-> None] ELSE files[p]
  BY <1>2, AppliedType
<1>5. QED  BY <1>3, <1>4, <1>a

\* What is recorded of a plan.
LEMMA RecordedType ==
    ASSUME tracked \in Tracking, NEW plan \in Plans
    PROVE  /\ Recorded(plan, tracked) \in Tracking
           /\ Adopted(plan, tracked) \in Tracking
           /\ \A p \in Paths : Recorded(plan, tracked)[p] # None =>
                 p \in DOMAIN plan.installs \cup DOMAIN plan.adopts \/ tracked[p] # None
           /\ \A p \in Paths : Adopted(plan, tracked)[p] # None =>
                 p \in DOMAIN plan.adopts \/ tracked[p] # None
  BY PlanParts DEF Recorded, Adopted, Tracking

\* What a plan brings, and what has to be read to know a side.
LEMMA StagedType ==
    ASSUME NEW plan \in Plans
    PROVE  Staged(plan) \subseteq Paths \X Versions
  BY PlanParts DEF Staged

LEMMA ToInspectType ==
    ASSUME NEW r \in Row, NEW entries \in Entries
    PROVE  {<<p, entries[p].v>> : p \in ToInspect(r, entries)} \subseteq Paths \X Versions
<1>1. \A p \in ToInspect(r, entries) : p \in Paths /\ entries[p].v \in Versions
  BY DEF ToInspect, Listed, Entries
<1>2. QED  BY <1>1

\* The link as it is made.
LEMMA NewRowType ==
    ASSUME NEW token \in BOOLEAN, NEW n \in Nat
    PROVE  NewRow(token, n) \in Row
<1>1. [p \in Paths |-> None] \in Entries
  BY DEF Entries
<1>2. [p \in Paths |-> "auto"] \in [Paths -> Overrides]
  BY DEF Overrides
<1>3. QED  BY <1>1, <1>2 DEF NewRow, Row

-----------------------------------------------------------------------------
(***************************************************************************)
(* The lock: who holds it holds what it works on.                          *)
(***************************************************************************)
Syncing == Owns("sync") /\ op # None
Pushing == Owns("push")
Swapping == Applier /\ op # None

Lock == lockq \in Seq(Tasks) /\ Len(lockq) <= MaxQueue /\ Holds

\* The same work is in hand.
Stays == /\ Syncing' = Syncing /\ Pushing' = Pushing /\ Swapping' = Swapping
         /\ op' = op

\* No work is in hand.
Rests == ~Syncing' /\ ~Pushing' /\ ~Swapping' /\ op' = None

LEMMA LockStays ==
    ASSUME Lock, UNCHANGED <<lockq, op>>
    PROVE  Lock' /\ Stays
  BY DEF Lock, Stays, Holds, Owns, Applier, Syncing, Pushing, Swapping

LEMMA LockAsked ==
    ASSUME Lock, NEW task \in Tasks, task.kind # "push", Ask(task), UNCHANGED op
    PROVE  Lock' /\ Stays
<1>1. /\ lockq \in Seq(Tasks) /\ Len(lockq) < MaxQueue /\ lockq' = Append(lockq, task)
      /\ MaxQueue \in Nat
  BY LauncherAssumption DEF Lock, Ask
<1>2. /\ lockq' \in Seq(Tasks) /\ Len(lockq') = Len(lockq) + 1 /\ lockq' # <<>>
      /\ \A i \in 1 .. Len(lockq) : lockq'[i] = lockq[i]
      /\ lockq'[Len(lockq) + 1] = task
  BY <1>1
<1>3. Len(lockq') <= MaxQueue
  BY <1>1, <1>2
<1>4. CASE lockq = <<>>
  <2>1. Head(lockq') = task /\ Len(lockq') = 1 /\ op = None
    BY <1>1, <1>2, <1>4 DEF Lock, Holds
  <2>2. QED
    BY <1>2, <1>3, <1>4, <2>1 DEF Lock, Stays, Holds, Owns, Applier, Syncing, Pushing, Swapping
<1>5. CASE lockq # <<>>
  <2>1. Head(lockq') = Head(lockq)
    BY <1>1, <1>2, <1>5
  <2>2. \A i \in DOMAIN lockq' : lockq'[i].kind = "push" => i = 1
    BY <1>1, <1>2 DEF Lock, Holds
  <2>3. QED
    BY <1>2, <1>3, <1>5, <2>1, <2>2
       DEF Lock, Stays, Holds, Owns, Applier, Syncing, Pushing, Swapping
<1>6. QED  BY <1>4, <1>5

\* The lock is let go: by its end, by the end of an application that is recorded
\* later, or with MSM itself.
LEMMA LockLetGo ==
    ASSUME Lock, op' = None,
           \/ lockq' = <<>>
           \/ lockq # <<>> /\ lockq' = Tail(lockq)
           \/ lockq # <<>> /\ \E task \in Tasks : /\ task.kind # "push"
                                                  /\ lockq' = Append(Tail(lockq), task)
    PROVE  Lock' /\ Rests
<1> USE DEF Lock
<1>0. /\ MaxQueue \in Nat \ {0} /\ lockq \in Seq(Tasks) /\ Len(lockq) <= MaxQueue
      /\ \A i \in DOMAIN lockq : lockq[i].kind = "push" => i = 1
  BY LauncherAssumption DEF Holds
<1>1. /\ lockq' \in Seq(Tasks) /\ Len(lockq') <= MaxQueue
      /\ \A i \in DOMAIN lockq' : lockq'[i].kind # "push"
  <2>1. CASE lockq' = <<>>
    BY <1>0, <2>1
  <2>2. CASE lockq # <<>> /\ lockq' = Tail(lockq)
    BY <1>0, <2>2
  <2>3. CASE lockq # <<>> /\ \E task \in Tasks : /\ task.kind # "push"
                                                 /\ lockq' = Append(Tail(lockq), task)
    <3>1. PICK task \in Tasks : task.kind # "push" /\ lockq' = Append(Tail(lockq), task)
      BY <2>3
    <3>2. /\ Tail(lockq) \in Seq(Tasks) /\ Len(Tail(lockq)) = Len(lockq) - 1
          /\ \A i \in 1 .. Len(Tail(lockq)) : Tail(lockq)[i] = lockq[i + 1]
      BY <1>0, <2>3, HeadTailProperties
    <3> DEFINE rest == Tail(lockq)
    <3> HIDE DEF rest
    <3>3. rest \in Seq(Tasks) /\ Len(rest) = Len(lockq) - 1
      BY <3>2 DEF rest
    <3>4. \A i \in 1 .. Len(rest) : rest[i].kind # "push"
      BY <1>0, <3>2, <3>3 DEF rest
    <3>5. lockq' = Append(rest, task)
      BY <3>1 DEF rest
    <3>6. /\ lockq' \in Seq(Tasks) /\ Len(lockq') = Len(rest) + 1
          /\ \A i \in 1 .. Len(rest) : lockq'[i] = rest[i]
          /\ lockq'[Len(rest) + 1] = task
      BY <3>3, <3>5
    <3>7. QED  BY <1>0, <3>1, <3>3, <3>4, <3>6
  <2>4. QED  BY <2>1, <2>2, <2>3
<1>2. lockq' # <<>> => Head(lockq').kind # "push"
  BY <1>1
<1>3. Holds'
  BY <1>1, <1>2 DEF Holds, Owns, Applier
<1>4. Rests
  BY <1>2 DEF Rests, Syncing, Pushing, Swapping, Owns
<1>5. QED  BY <1>1, <1>3, <1>4

\* What is in hand changes: the kind of work does not.
LEMMA LockWorks ==
    ASSUME Lock, UNCHANGED lockq, lockq # <<>>,
           Owns("sync") => op' \in SyncOp,
           Owns("push") => op' \in PushOp,
           Applier => op' \in SwapOp,
           ~Owns("record")
    PROVE  Lock'
  BY DEF Lock, Holds, Owns, Applier

\* A publication takes a lock that nobody holds.
LEMMA LockTaken ==
    ASSUME Lock, lockq = <<>>, lockq' = <<Task("push", "push")>>, op' \in PushOp
    PROVE  Lock' /\ Pushing' /\ ~Syncing' /\ ~Swapping'
<1>1. Task("push", "push") \in Tasks /\ Task("push", "push").kind = "push"
  BY DEF Task, Tasks
<1> DEFINE q == <<Task("push", "push")>>
<1>2. q \in Seq(Tasks) /\ Len(q) = 1 /\ Head(q) = Task("push", "push") /\ q # <<>> /\ DOMAIN q = {1}
  BY <1>1
<1> HIDE DEF q
<1>3. Lock'
  BY <1>1, <1>2, LauncherAssumption DEF Lock, Holds, Owns, Applier, q
<1>4. QED  BY <1>1, <1>2, <1>3 DEF Pushing, Syncing, Swapping, Owns, Applier, q

\* What each kind of holder has in hand.
LEMMA InHand ==
    ASSUME Lock
    PROVE  /\ Syncing => op \in SyncOp /\ lockq # <<>> /\ ~Pushing /\ ~Swapping
           /\ Pushing => op \in PushOp /\ lockq # <<>> /\ ~Syncing /\ ~Swapping
           /\ Swapping => op \in SwapOp /\ lockq # <<>> /\ ~Syncing /\ ~Pushing
  BY DEF Lock, Holds, Owns, Applier, Syncing, Pushing, Swapping

-----------------------------------------------------------------------------
(***************************************************************************)
(* What the work in hand has to do with the link: what a session does not  *)
(* change it keeps as it was loaded, and a synchronisation holds SQLite's  *)
(* write lock from its first query to its commit, over the same link.      *)
(***************************************************************************)
SyncKeeps ==
    /\ op.new.id = op.snap.id /\ op.new.src = op.snap.src
    /\ op.new.enabled = op.snap.enabled /\ op.new.wide = op.snap.wide
    /\ op.new.override = op.snap.override /\ op.new.plan = op.snap.plan
    /\ op.new.token = op.snap.token /\ op.new.rev = op.snap.rev
    /\ op.new.pushed = op.snap.pushed /\ op.new.disabled = op.snap.disabled

PushKeeps ==
    /\ op.new.id = op.snap.id /\ op.new.src = op.snap.src
    /\ op.new.enabled = op.snap.enabled /\ op.new.wide = op.snap.wide
    /\ op.new.override = op.snap.override /\ op.new.plan = op.snap.plan
    /\ op.new.token = op.snap.token /\ op.new.etag = op.snap.etag
    /\ op.new.entries = op.snap.entries /\ op.new.seen = op.snap.seen

SyncInHand ==
    /\ op.pc = "fetch" => op.new = op.snap
    /\ op.pc # "fetch" => writer = "sync" /\ SameRow /\ op.entries \in Entries /\ op.local \in Local
    /\ op.pc \in {"fetch", "inspect"} => op.plan = None
    /\ op.pc \in {"download", "apply"} => op.plan \in Plans
    /\ SyncKeeps

\* Identifiers and addresses are never used twice: they are numbered by the actions.
SnapIsOlder ==
    /\ op.snap.id <= acts /\ op.snap.src <= acts
    /\ row # None /\ row.src = op.snap.src => row.id = op.snap.id

WorkIsKnown ==
    /\ writer = "sync" => Syncing /\ op.pc # "fetch"
    /\ Syncing => SyncInHand /\ SnapIsOlder
    /\ Pushing => PushKeeps /\ SnapIsOlder
    /\ Swapping => op.id <= acts
    /\ row # None => row.id <= acts /\ row.src <= acts

World ==
    /\ remote \in Manifests /\ told \in (SUBSET Paths) \cup {None}
    /\ tracked \in Tracking /\ files \in Folder
    /\ staging \subseteq Paths \X Versions
    /\ server \in {"STOPPED", "STARTING", "RUNNING"}
    /\ writer \in {"none", "sync", "start"}
    /\ astray \in BOOLEAN /\ stale \in BOOLEAN /\ acts \in 0 .. MaxActs
    /\ ours \subseteq Paths /\ overlaid \subseteq Paths /\ offs \subseteq Paths

LEMMA TypeParts ==
    /\ TypeOK <=> World /\ row \in Row \cup {None} /\ Lock
    /\ TypeOK' <=> World' /\ row' \in Row \cup {None} /\ Lock'
  BY DEF TypeOK, World, Lock, Tracking, Folder

Held == TypeOK /\ WorkIsKnown

\* A commit writes what changed and leaves the rest.
LEMMA CommitColumns ==
    ASSUME row \in Row, op.snap \in Row, NEW new \in Row, Commit(new)
    PROVE  /\ row' \in Row
           /\ row'.id = (IF new.id # op.snap.id THEN new.id ELSE row.id)
           /\ row'.src = (IF new.src # op.snap.src THEN new.src ELSE row.src)
           /\ row'.enabled = (IF new.enabled # op.snap.enabled THEN new.enabled ELSE row.enabled)
           /\ row'.wide = (IF new.wide # op.snap.wide THEN new.wide ELSE row.wide)
           /\ row'.etag = (IF new.etag # op.snap.etag THEN new.etag ELSE row.etag)
           /\ row'.entries = (IF new.entries # op.snap.entries THEN new.entries ELSE row.entries)
           /\ row'.override = (IF new.override # op.snap.override THEN new.override ELSE row.override)
           /\ row'.plan = (IF new.plan # op.snap.plan THEN new.plan ELSE row.plan)
           /\ row'.token = (IF new.token # op.snap.token THEN new.token ELSE row.token)
           /\ row'.rev = (IF new.rev # op.snap.rev THEN new.rev ELSE row.rev)
           /\ row'.pushed = (IF new.pushed # op.snap.pushed THEN new.pushed ELSE row.pushed)
           /\ row'.disabled = (IF new.disabled # op.snap.disabled THEN new.disabled ELSE row.disabled)
<1>1. DOMAIN row = {"id", "src", "enabled", "wide", "etag", "entries", "seen", "override",
                    "plan", "token", "rev", "pushed", "disabled"}
  BY DEF Row
<1>2. row' = [c \in DOMAIN row |-> IF new[c] # op.snap[c] THEN new[c] ELSE row[c]]
  BY DEF Commit
<1>3. row' \in Row
  BY <1>1, <1>2 DEF Row
<1>4. QED  BY <1>1, <1>2, <1>3

\* The columns a synchronisation does not write.
SameColumns ==
    /\ row'.id = row.id /\ row'.src = row.src /\ row'.enabled = row.enabled
    /\ row'.wide = row.wide /\ row'.override = row.override /\ row'.token = row.token
    /\ row'.rev = row.rev /\ row'.pushed = row.pushed /\ row'.disabled = row.disabled

\* What the end of a synchronisation writes, whatever it came to.
Written(entries, plans) ==
    /\ row # None /\ row' \in Row /\ SameColumns
    /\ row'.plan \in plans \cup {row.plan}
    /\ row'.etag = (IF op.new.etag # op.snap.etag THEN op.new.etag ELSE row.etag)
    /\ row'.entries = (IF entries # op.snap.entries THEN entries ELSE row.entries)

LEMMA CommitWrites ==
    ASSUME Held, Syncing, op.pc # "fetch", NEW plan \in Plans \cup {None},
           NEW entries \in Entries, NEW new \in Row, Commit(new),
           new.plan = plan, new.entries = entries, new.etag = op.new.etag,
           new.id = op.new.id, new.src = op.new.src, new.enabled = op.new.enabled,
           new.wide = op.new.wide, new.override = op.new.override, new.token = op.new.token,
           new.rev = op.new.rev, new.pushed = op.new.pushed, new.disabled = op.new.disabled
    PROVE  Written(entries, {plan}) /\ (plan = op.snap.plan => row'.plan = row.plan)
<1>1. row \in Row /\ op \in SyncOp /\ op.snap \in Row /\ SyncKeeps /\ row # None
  BY InHand, TypeParts DEF Held, WorkIsKnown, SyncInHand, SameRow, SyncOp
<1>2. QED  BY <1>1, CommitColumns DEF Written, SameColumns, SyncKeeps

\* Of the columns a session has in hand.
LEMMA RowExcept ==
    ASSUME NEW r \in Row, NEW plan \in Plans \cup {None}
    PROVE  LET q == [r EXCEPT !.plan = plan]
           IN  /\ q \in Row /\ q.plan = plan /\ q.id = r.id /\ q.src = r.src
               /\ q.enabled = r.enabled /\ q.wide = r.wide /\ q.override = r.override
               /\ q.token = r.token /\ q.rev = r.rev /\ q.pushed = r.pushed
               /\ q.disabled = r.disabled /\ q.etag = r.etag /\ q.entries = r.entries
               /\ q.seen = r.seen
  BY DEF Row

\* A synchronisation that gives up its plan, or keeps one for later, writes what it
\* had read.
LEMMA EndWrites ==
    ASSUME Held, Syncing, op.pc # "fetch", NEW plan \in Plans \cup {None},
           CommitRead([op.new EXCEPT !.plan = plan]) \/ (plan = op.new.plan /\ CommitRead(op.new))
    PROVE  /\ Written(op.new.entries, {plan}) /\ (plan = op.snap.plan => row'.plan = row.plan)
           /\ writer' = "none" /\ lockq # <<>> /\ lockq' = Tail(lockq) /\ op' = None
           /\ stale' = \/ row.src # op.snap.src
                       \/ IF op.fresh THEN row.wide # op.snap.wide ELSE stale
<1>1. op \in SyncOp /\ op.new \in Row /\ lockq # <<>>
  BY InHand, TypeParts DEF Held, SyncOp
<1>2. op.new.entries \in Entries
  BY <1>1 DEF Row
<1>3. CASE CommitRead([op.new EXCEPT !.plan = plan])
  <2> DEFINE new == [op.new EXCEPT !.plan = plan]
  <2>1. /\ new \in Row /\ new.plan = plan /\ new.id = op.new.id /\ new.src = op.new.src
        /\ new.enabled = op.new.enabled /\ new.wide = op.new.wide /\ new.override = op.new.override
        /\ new.token = op.new.token /\ new.rev = op.new.rev /\ new.pushed = op.new.pushed
        /\ new.disabled = op.new.disabled /\ new.etag = op.new.etag
        /\ new.entries = op.new.entries
    BY <1>1, RowExcept
  <2>2. CommitRead(new)
    BY <1>3
  <2> HIDE DEF new
  <2>3. Commit(new)
    BY <2>2 DEF CommitRead, CommitSync
  <2>4. Written(op.new.entries, {plan}) /\ (plan = op.snap.plan => row'.plan = row.plan)
    BY <1>2, <2>1, <2>3, CommitWrites
  <2>5. QED  BY <1>1, <2>2, <2>4 DEF CommitRead, CommitSync, Release
<1>4. CASE plan = op.new.plan /\ CommitRead(op.new)
  <2>1. Commit(op.new)
    BY <1>4 DEF CommitRead, CommitSync
  <2>2. Written(op.new.entries, {plan}) /\ (plan = op.snap.plan => row'.plan = row.plan)
    BY <1>1, <1>2, <1>4, <2>1, CommitWrites
  <2>3. QED  BY <1>1, <1>4, <2>2 DEF CommitRead, CommitSync, Release
<1>5. QED  BY <1>3, <1>4

\* The plan a synchronisation makes of what it has read.
Made == ComputePlan(Wanted(op.snap, op.entries), op.entries, op.local, tracked)

LEMMA MadeType ==
    ASSUME Held, Syncing, op.pc = "inspect"
    PROVE  /\ Made \in Plans
           /\ Made.removes \subseteq {p \in Paths : tracked[p] # None}
           /\ \A p \in DOMAIN Made.installs :
                 /\ p \in Listed(op.entries)
                 /\ Made.installs[p].off = IF op.local[p] # None THEN op.local[p].off
                                           ELSE op.entries[p].off
<1>1. /\ op.entries \in Entries /\ op \in SyncOp /\ op.snap.wide \in BOOLEAN
      /\ tracked \in Tracking /\ files \in Folder
  BY InHand, TypeParts DEF Held, WorkIsKnown, SyncInHand, SyncOp, Row, World
<1>2. Wanted(op.snap, op.entries) \in SUBSET Listed(op.entries)
  BY DEF Wanted
<1>3. op.local \in Local
  BY InHand DEF Held, WorkIsKnown, SyncInHand
<1> DEFINE want == Wanted(op.snap, op.entries)
           local == op.local
<1>4. Made = ComputePlan(want, op.entries, local, tracked)
  BY DEF Made
<1>5. want \in SUBSET Listed(op.entries) /\ local \in Local
  BY <1>2, <1>3
<1> HIDE DEF want, local
<1>6. /\ Made \in Plans /\ Made.removes = {p \in Paths : tracked[p] # None /\ p \notin want}
      /\ \A p \in DOMAIN Made.installs :
            /\ p \in want
            /\ Made.installs[p].off = IF local[p] # None THEN local[p].off ELSE op.entries[p].off
  <2>1. IsPlanFor(ComputePlan(want, op.entries, local, tracked), want, op.entries, local, tracked)
    BY <1>1, <1>5, PlanType
  <2>2. QED  BY <1>4, <2>1 DEF IsPlanFor
<1>7. Made.removes \subseteq {p \in Paths : tracked[p] # None}
  BY <1>6
<1>8. QED  BY <1>5, <1>6, <1>7 DEF local

\* What it has in hand then.
Noted == [op.new EXCEPT
             !.entries = op.entries,
             !.seen = @ \cup {<<p, op.entries[p].v>> : p \in ToInspect(op.snap, op.entries)}]

LEMMA NotedType ==
    ASSUME Held, Syncing, op.pc = "inspect"
    PROVE  /\ Noted \in Row /\ Noted.entries = op.entries /\ Noted.etag = op.new.etag
           /\ Noted.id = op.new.id /\ Noted.src = op.new.src
           /\ Noted.enabled = op.new.enabled /\ Noted.wide = op.new.wide
           /\ Noted.override = op.new.override /\ Noted.token = op.new.token
           /\ Noted.rev = op.new.rev /\ Noted.pushed = op.new.pushed
           /\ Noted.disabled = op.new.disabled /\ Noted.plan = op.new.plan
<1>1. op.entries \in Entries /\ op.new \in Row /\ op.snap \in Row
  BY InHand, TypeParts DEF Held, WorkIsKnown, SyncInHand, SyncOp
<1> DEFINE seen == op.new.seen \cup {<<p, op.entries[p].v>> : p \in ToInspect(op.snap, op.entries)}
<1>2. seen \in SUBSET (Paths \X Versions)
  BY <1>1, ToInspectType DEF Row
<1>3. Noted = [op.new EXCEPT !.entries = op.entries, !.seen = seen]
  BY DEF Noted
<1> HIDE DEF seen
<1>4. QED  BY <1>1, <1>2, <1>3 DEF Row

\* The plan is left alone, because of what it would remove, or gone on with.
LEMMA MakePlanEffect ==
    ASSUME Held, MakePlan
    PROVE  /\ Syncing /\ op.pc = "inspect" /\ staging' \subseteq Paths \X Versions
           /\ UNCHANGED <<remote, told, tracked, files, server, acts, ours, overlaid, offs, astray>>
           /\ \/ /\ Written(op.entries, {None})
                 /\ writer' = "none" /\ lockq # <<>> /\ lockq' = Tail(lockq) /\ op' = None
                 /\ stale' = \/ row.src # op.snap.src
                             \/ IF op.fresh THEN row.wide # op.snap.wide ELSE stale
              \/ /\ op' = [op EXCEPT !.pc = "download", !.plan = Made, !.new = Noted]
                 /\ UNCHANGED <<row, writer, lockq, stale>>
<1>1. /\ Syncing /\ op.pc = "inspect"
      /\ staging' = staging \cup ToFetch
      /\ UNCHANGED <<remote, told, tracked, files, server, acts, ours, overlaid, offs, astray>>
      /\ \/ CommitRead([Noted EXCEPT !.plan = None])
         \/ /\ op' = [op EXCEPT !.pc = "download", !.plan = Made, !.new = Noted]
            /\ UNCHANGED <<row, writer, lockq, stale>>
  BY DEF MakePlan, Syncing, Noted, Made
<1>2. op \in SyncOp /\ lockq # <<>> /\ op.entries \in Entries /\ staging \subseteq Paths \X Versions
  BY <1>1, InHand, TypeParts DEF Held, WorkIsKnown, SyncInHand, World
<1>3. ToFetch \subseteq Paths \X Versions
  BY <1>2, ToInspectType DEF ToFetch, SyncOp
<1>4. ASSUME CommitRead([Noted EXCEPT !.plan = None])
      PROVE  /\ Written(op.entries, {None})
             /\ writer' = "none" /\ lockq' = Tail(lockq) /\ op' = None
             /\ stale' = \/ row.src # op.snap.src
                         \/ IF op.fresh THEN row.wide # op.snap.wide ELSE stale
  <2> DEFINE new == [Noted EXCEPT !.plan = None]
  <2>1. /\ new \in Row /\ new.plan = None /\ new.id = op.new.id /\ new.src = op.new.src
        /\ new.enabled = op.new.enabled /\ new.wide = op.new.wide /\ new.override = op.new.override
        /\ new.token = op.new.token /\ new.rev = op.new.rev /\ new.pushed = op.new.pushed
        /\ new.disabled = op.new.disabled /\ new.etag = op.new.etag
        /\ new.entries = op.entries
    BY <1>1, NotedType, RowExcept
  <2>2. CommitRead(new)
    BY <1>4
  <2> HIDE DEF new
  <2>3. Written(op.entries, {None})
    BY <1>1, <1>2, <2>1, <2>2, CommitWrites DEF CommitRead, CommitSync
  <2>4. QED  BY <2>2, <2>3 DEF CommitRead, CommitSync, Release
<1>5. QED  BY <1>1, <1>2, <1>3, <1>4

-----------------------------------------------------------------------------
(***************************************************************************)
(* The types, with what the work in hand has to do with the link.          *)
(***************************************************************************)
\* Nothing is in hand: what is known of it holds.
LEMMA WorkRests ==
    ASSUME Rests, writer' # "sync", row' # None => row'.id <= acts' /\ row'.src <= acts'
    PROVE  WorkIsKnown'
  BY DEF Rests, WorkIsKnown

\* The same work goes on over the same link.
LEMMA WorkStays ==
    ASSUME Held, Stays, UNCHANGED row, acts' \in {acts, acts + 1},
           UNCHANGED writer \/ (writer # "sync" /\ writer' # "sync")
    PROVE  WorkIsKnown'
<1>1. /\ acts \in Nat /\ row \in Row \cup {None} /\ WorkIsKnown
      /\ Syncing => op.snap \in Row
      /\ Pushing => op.snap \in Row
      /\ Swapping => op.id \in Nat
  BY LauncherAssumption, InHand, TypeParts DEF Held, World, SyncOp, PushOp, SwapOp
<1>2. \A n \in Nat : n <= acts => n <= acts'
  BY <1>1
<1>3. \A r \in Row : r.id \in Nat /\ r.src \in Nat
  BY DEF Row
<1>4. row' # None => row'.id <= acts' /\ row'.src <= acts'
  BY <1>1, <1>2, <1>3 DEF WorkIsKnown
<1>5. Swapping' => op'.id <= acts'
  BY <1>1, <1>2 DEF WorkIsKnown, Stays
<1>6. Syncing' \/ Pushing' => SnapIsOlder'
  BY <1>1, <1>2, <1>3 DEF WorkIsKnown, SnapIsOlder, Stays
<1>7. Syncing' => SyncInHand'
  BY <1>1 DEF WorkIsKnown, SyncInHand, SyncKeeps, SameRow, Stays
<1>8. writer' = "sync" => Syncing' /\ op'.pc # "fetch"
  BY <1>1 DEF WorkIsKnown, Stays
<1>9. Pushing' => PushKeeps'
  BY <1>1 DEF WorkIsKnown, PushKeeps, Stays
<1>10. QED  BY <1>4, <1>5, <1>6, <1>7, <1>8, <1>9 DEF WorkIsKnown

\* The settings page changes the link, which no transaction is writing.
LEMMA WorkOutlives ==
    ASSUME Held, Stays, writer # "sync", writer' # "sync", acts' = acts + 1,
           row' # None =>
              /\ row'.id <= acts + 1 /\ row'.src <= acts + 1
              /\ \/ row'.src = acts + 1
                 \/ row # None /\ row'.id = row.id /\ row'.src = row.src
    PROVE  WorkIsKnown'
<1>1. /\ acts \in Nat /\ WorkIsKnown
      /\ Syncing => op.snap.id \in Nat /\ op.snap.src \in Nat
      /\ Pushing => op.snap.id \in Nat /\ op.snap.src \in Nat
      /\ Swapping => op.id \in Nat
  BY LauncherAssumption, InHand, TypeParts DEF Held, World, SyncOp, PushOp, SwapOp, Row
<1>2. Swapping' => op'.id <= acts'
  BY <1>1 DEF WorkIsKnown, Stays
<1>3. Syncing \/ Pushing => SnapIsOlder
  BY <1>1 DEF WorkIsKnown
<1>4. Syncing' \/ Pushing' => SnapIsOlder'
  BY <1>1, <1>3 DEF SnapIsOlder, Stays
<1>5. Syncing' => SyncInHand'
  BY <1>1 DEF WorkIsKnown, SyncInHand, SyncKeeps, Stays
<1>6. Pushing' => PushKeeps'
  BY <1>1 DEF WorkIsKnown, PushKeeps, Stays
<1>7. QED  BY <1>2, <1>4, <1>5, <1>6 DEF WorkIsKnown

\* Who held the lock is done.
LEMMA HeldAtEnd ==
    ASSUME Held, World', row' \in Row \cup {None}, op' = None, writer' # "sync", acts' >= acts,
           row' # None => row # None /\ row'.id = row.id /\ row'.src = row.src,
           \/ lockq' = <<>>
           \/ lockq # <<>> /\ lockq' = Tail(lockq)
           \/ lockq # <<>> /\ \E task \in Tasks : /\ task.kind # "push"
                                                  /\ lockq' = Append(Tail(lockq), task)
    PROVE  Held' /\ Rests
<1>1. Lock' /\ Rests
  BY LockLetGo, TypeParts DEF Held
<1>2. acts \in Nat /\ acts' \in Nat /\ row \in Row \cup {None}
  BY LauncherAssumption, TypeParts DEF Held, World
<1>3. row' # None => row'.id <= acts' /\ row'.src <= acts'
  BY <1>2 DEF Held, WorkIsKnown, Row
<1>4. WorkIsKnown'
  BY <1>1, <1>3, WorkRests
<1>5. QED  BY <1>1, <1>4, TypeParts DEF Held

\* Who holds the lock goes on, or more is asked of it.
LEMMA HeldOn ==
    ASSUME Held, World', Stays, Lock', UNCHANGED row, acts' \in {acts, acts + 1},
           UNCHANGED writer \/ (writer # "sync" /\ writer' # "sync")
    PROVE  Held'
<1>1. WorkIsKnown' /\ row' \in Row \cup {None}
  BY WorkStays, TypeParts DEF Held
<1>2. QED  BY <1>1, TypeParts DEF Held

\* The end of a synchronisation.
LEMMA HeldAfterSync ==
    ASSUME Held, World', NEW entries, NEW plans, Written(entries, plans),
           writer' = "none", op' = None, lockq # <<>>, lockq' = Tail(lockq), UNCHANGED acts
    PROVE  Held' /\ Rests
<1>1. acts' >= acts
  BY LauncherAssumption, TypeParts DEF Held, World
<1>2. QED  BY <1>1, HeldAtEnd DEF Written, SameColumns

\* The steps of a synchronisation.
LEMMA SyncKeepsHeld ==
    ASSUME Held, Sync
    PROVE  Held'
<1>a. World /\ row \in Row \cup {None} /\ Lock /\ WorkIsKnown
  BY TypeParts DEF Held
<1>b. acts \in Nat /\ acts >= acts
  BY <1>a, LauncherAssumption DEF World
<1>c. Owns("sync") => lockq # <<>> /\ ~Owns("push") /\ ~Applier /\ ~Owns("record")
  BY DEF Owns, Applier
<1>1. CASE SyncRead
  <2>1. CASE Release
    <3>1. /\ Owns("sync") /\ op = None /\ lockq' = Tail(lockq) /\ op' = None
          /\ UNCHANGED <<remote, told, row, tracked, files, staging, server, writer, acts, history>>
      BY <1>1, <2>1 DEF SyncRead, Release
    <3>2. World' /\ writer' # "sync"
      BY <3>1, <1>a DEF World, history, WorkIsKnown, Syncing
    <3>3. QED  BY <3>1, <3>2, <1>a, <1>b, <1>c, HeldAtEnd
  <2>2. CASE ~Release
    <3>1. /\ row # None /\ row \in Row /\ Owns("sync") /\ op = None
          /\ op' = [pc |-> "fetch", snap |-> row, new |-> row, plan |-> None,
                    entries |-> None, local |-> None, fresh |-> FALSE]
          /\ UNCHANGED <<remote, told, row, tracked, files, staging, server, writer, lockq, acts, history>>
      BY <1>1, <2>2, <1>a DEF SyncRead
    <3>2. op' \in SyncOp
      BY <3>1 DEF SyncOp
    <3>3. Lock'
      BY <3>1, <3>2, <1>a, <1>c, LockWorks
    <3>4. World'
      BY <3>1, <1>a DEF World, history
    <3>5. ~Syncing /\ writer # "sync"
      BY <3>1, <1>a DEF Syncing, WorkIsKnown
    <3>6. ~Pushing' /\ ~Swapping'
      BY <3>1, <1>c DEF Pushing, Swapping, Owns, Applier
    <3>7. WorkIsKnown'
      BY <3>1, <3>5, <3>6, <1>a DEF WorkIsKnown, SyncInHand, SyncKeeps, SnapIsOlder, SameRow
    <3>8. QED  BY <3>1, <3>3, <3>4, <3>7, <1>a, TypeParts DEF Held
  <2>3. QED  BY <2>1, <2>2
<1>2. CASE FetchFails
  <2>1. Syncing /\ op.pc = "fetch" /\ op.new = op.snap /\ op \in SyncOp /\ writer' = "none"
    BY <1>2, <1>a, InHand DEF FetchFails, Syncing, WorkIsKnown, SyncInHand, CommitSync
  <2>2. row' = row
    <3>1. CASE SameRow
      <4>1. row' = [c \in DOMAIN row |-> row[c]]
        BY <1>2, <2>1, <3>1 DEF FetchFails, CommitSync, Commit
      <4>2. row \in Row
        BY <3>1, <1>a DEF SameRow
      <4>3. QED  BY <4>1, <4>2 DEF Row
    <3>2. CASE ~SameRow
      BY <1>2, <3>2 DEF FetchFails
    <3>3. QED  BY <3>1, <3>2
  <2>3. lockq' = Tail(lockq) /\ op' = None /\ UNCHANGED acts
    BY <1>2 DEF FetchFails, CommitSync, Release
  <2>4. World'
    BY <1>2, <2>1, <1>a DEF FetchFails, World, history
  <2>5. QED  BY <2>1, <2>2, <2>3, <2>4, <1>a, <1>b, <1>2, <1>c, HeldAtEnd DEF Syncing

<1>3. CASE Fetch
  <2>1. /\ Syncing /\ op.pc = "fetch" /\ op.new = op.snap /\ op \in SyncOp /\ writer = "none"
        /\ op.snap \in Row /\ Owns("sync") /\ op.plan = None
        /\ UNCHANGED <<remote, told, row, tracked, files, staging, server, acts, history>>
    BY <1>3, <1>a, InHand DEF Fetch, Syncing, WorkIsKnown, SyncInHand, SyncOp
  <2>2. CASE ~SameRow
    <3>1. lockq' = Tail(lockq) /\ op' = None /\ writer' = "none"
      BY <1>3, <2>1, <2>2 DEF Fetch, Release
    <3>2. World'
      BY <2>1, <3>1, <1>a DEF World, history
    <3>3. QED  BY <2>1, <3>1, <3>2, <1>a, <1>b, <1>c, HeldAtEnd
  <2>3. CASE SameRow
    <3>1. PICK answer \in Entries, same \in BOOLEAN :
             op' = [op EXCEPT
                !.pc = "inspect", !.fresh = ~same,
                !.entries = Under(op.snap.wide, IF same THEN op.snap.entries ELSE answer),
                !.local = ScanLocal(op.snap.wide),
                !.new.etag = IF same THEN op.snap.etag ELSE answer]
      <4>1. PICK answer \in IF row.src = op.snap.src THEN {Announced}
                            ELSE {Answer(m, {}) : m \in Manifests} :
              LET same == Listed(op.snap.entries) # {} /\ op.snap.etag = answer
              IN  op' = [op EXCEPT
                     !.pc = "inspect", !.fresh = ~same,
                     !.entries = Under(op.snap.wide, IF same THEN op.snap.entries ELSE answer),
                     !.local = ScanLocal(op.snap.wide),
                     !.new.etag = IF same THEN op.snap.etag ELSE answer]
        BY <1>3, <2>3 DEF Fetch
      <4>2. answer \in Entries
        BY <1>a, AnswerType DEF Announced, World
      <4>3. (Listed(op.snap.entries) # {} /\ op.snap.etag = answer) \in BOOLEAN
        OBVIOUS
      <4>4. QED  BY <4>1, <4>2, <4>3
    <3> DEFINE entries == Under(op.snap.wide, IF same THEN op.snap.entries ELSE answer)
               etag == IF same THEN op.snap.etag ELSE answer
               local == ScanLocal(op.snap.wide)
    <3>2. entries \in Entries /\ etag \in Entries \cup {None} /\ local \in Local
      BY <2>1, <1>a, UnderType, LocalType DEF Row, World
    <3>3. op' = [op EXCEPT !.pc = "inspect", !.fresh = ~same, !.entries = entries,
                           !.local = local, !.new = [op.new EXCEPT !.etag = etag]]
      BY <2>1, <3>1
    <3>4. writer' = "sync" /\ UNCHANGED lockq
      BY <1>3, <2>3 DEF Fetch
    <3> HIDE DEF entries, etag, local
    <3> DEFINE new == [op.new EXCEPT !.etag = etag]
    <3>5. /\ new \in Row /\ new.id = op.new.id /\ new.src = op.new.src
          /\ new.enabled = op.new.enabled /\ new.wide = op.new.wide
          /\ new.override = op.new.override /\ new.token = op.new.token
          /\ new.rev = op.new.rev /\ new.pushed = op.new.pushed
          /\ new.disabled = op.new.disabled /\ new.plan = op.new.plan
      BY <2>1, <3>2 DEF SyncOp, Row
    <3> HIDE DEF new
    <3>6. op' = [op EXCEPT !.pc = "inspect", !.fresh = ~same, !.entries = entries,
                           !.local = local, !.new = new]
      BY <3>3 DEF new
    <3>7. /\ op' \in SyncOp /\ op'.pc = "inspect" /\ op'.entries = entries /\ op'.new = new
          /\ op'.plan = None /\ op'.snap = op.snap /\ op'.local = local
      BY <2>1, <3>2, <3>5, <3>6 DEF SyncOp, Local
    <3>8. op' # None
      BY <3>7, NoneIsNoRecord
    <3>9. Lock'
      BY <2>1, <3>4, <3>7, <1>a, <1>c, LockWorks
    <3>10. World'
      BY <2>1, <3>4, <1>a DEF World, history
    <3>11. Syncing' /\ ~Pushing' /\ ~Swapping'
      BY <2>1, <3>4, <3>8, <1>c DEF Syncing, Pushing, Swapping, Owns, Applier
    <3>12. SyncKeeps' /\ SameRow' /\ SnapIsOlder'
      BY <2>1, <2>3, <3>5, <3>7, <1>a DEF SyncKeeps, SameRow, SnapIsOlder, WorkIsKnown
    <3>13. SyncInHand'
      BY <3>2, <3>4, <3>7, <3>12 DEF SyncInHand
    <3>14. WorkIsKnown'
      BY <2>1, <3>7, <3>11, <3>12, <3>13, <1>a DEF WorkIsKnown
    <3>15. QED  BY <2>1, <3>9, <3>10, <3>14, <1>a, TypeParts DEF Held
  <2>4. QED  BY <2>2, <2>3
<1>4. CASE InspectFails
  <2>1. InspectFails /\ Syncing /\ op.pc = "inspect"
    BY <1>4 DEF InspectFails, Syncing
  <2>2. op \in SyncOp /\ op.new \in Row /\ lockq # <<>>
    BY <2>1, <1>a, InHand DEF SyncOp
  <2>3. op.new.plan \in Plans \cup {None} /\ op.new.entries \in Entries
    BY <2>2 DEF Row
  <2>4. Commit(op.new) /\ writer' = "none" /\ lockq' = Tail(lockq) /\ op' = None
    BY <2>1 DEF InspectFails, CommitSync, Release
  <2>5. Written(op.new.entries, {op.new.plan})
    BY <2>1, <2>2, <2>3, <2>4, CommitWrites
  <2>6. World' /\ UNCHANGED acts
    BY <2>1, <2>2, <2>4, <1>a DEF InspectFails, World, SyncOp
  <2>7. QED  BY <2>2, <2>4, <2>5, <2>6, HeldAfterSync
<1>5. CASE MakePlan
  <2>1. /\ Syncing /\ op.pc = "inspect" /\ staging' \subseteq Paths \X Versions
        /\ UNCHANGED <<remote, told, tracked, files, server, acts, ours, overlaid, offs, astray>>
    BY <1>5, MakePlanEffect
  <2>2. op \in SyncOp /\ lockq # <<>> /\ Owns("sync") /\ op.fresh \in BOOLEAN
    BY <2>1, <1>a, InHand DEF SyncOp, Syncing
  <2>3. CASE /\ Written(op.entries, {None})
             /\ writer' = "none" /\ lockq # <<>> /\ lockq' = Tail(lockq) /\ op' = None
             /\ stale' = \/ row.src # op.snap.src
                         \/ IF op.fresh THEN row.wide # op.snap.wide ELSE stale
    <3>1. stale' \in BOOLEAN
      BY <2>3
    <3>2. World'
      BY <2>1, <2>3, <3>1, <1>a DEF World
    <3>3. QED  BY <2>1, <2>3, <3>2, HeldAfterSync
  <2>4. CASE /\ op' = [op EXCEPT !.pc = "download", !.plan = Made, !.new = Noted]
             /\ UNCHANGED <<row, writer, lockq, stale>>
    <3>1. Noted \in Row /\ Made \in Plans
      BY <2>1, NotedType, MadeType
    <3>2. /\ op' \in SyncOp /\ op'.pc = "download" /\ op'.plan = Made /\ op'.new = Noted
          /\ op'.snap = op.snap /\ op'.entries = op.entries
      BY <2>2, <2>4, <3>1 DEF SyncOp
    <3>3. op' # None
      BY <3>2, NoneIsNoRecord
    <3>4. Lock'
      BY <2>2, <2>4, <3>2, <1>a, <1>c, LockWorks
    <3>5. World'
      BY <2>1, <2>4, <1>a DEF World
    <3>6. Syncing' /\ ~Pushing' /\ ~Swapping'
      BY <2>2, <2>4, <3>3, <1>c DEF Syncing, Pushing, Swapping, Owns, Applier
    <3>7. SyncInHand /\ SnapIsOlder
      BY <2>1, <1>a DEF WorkIsKnown
    <3>8. SyncKeeps' /\ SameRow' /\ SnapIsOlder'
      BY <2>1, <2>4, <3>2, <3>7, NotedType DEF SyncKeeps, SameRow, SnapIsOlder, SyncInHand
    <3>9. SyncInHand'
      BY <2>1, <2>4, <3>1, <3>2, <3>7, <3>8 DEF SyncInHand
    <3>10. WorkIsKnown'
      BY <2>1, <2>4, <3>2, <3>6, <3>8, <3>9, <1>a DEF WorkIsKnown
    <3>11. QED  BY <2>4, <3>4, <3>5, <3>10, <1>a, TypeParts DEF Held
  <2>5. QED  BY <1>5, <2>3, <2>4, MakePlanEffect

<1>6. CASE DownloadFails
  <2>1. /\ Syncing /\ op.pc = "download" /\ CommitRead(op.new)
        /\ tracked' = Adopted(op.plan, tracked) /\ ours' = ours \cup DOMAIN op.plan.adopts
        /\ UNCHANGED <<remote, told, files, staging, server, acts, overlaid, offs, astray>>
    BY <1>6 DEF DownloadFails, Syncing, Adopt
  <2>2. op \in SyncOp /\ op.new \in Row /\ op.plan \in Plans /\ op.new.plan \in Plans \cup {None}
    BY <2>1, <1>a, InHand DEF SyncOp, Row, WorkIsKnown, SyncInHand
  <2>3. /\ Written(op.new.entries, {op.new.plan})
        /\ writer' = "none" /\ lockq # <<>> /\ lockq' = Tail(lockq) /\ op' = None
        /\ stale' = \/ row.src # op.snap.src
                    \/ IF op.fresh THEN row.wide # op.snap.wide ELSE stale
    BY <2>1, <2>2, EndWrites
  <2>4. tracked' \in Tracking /\ ours' \subseteq Paths /\ stale' \in BOOLEAN
    BY <2>1, <2>2, <2>3, <1>a, RecordedType, PlanParts DEF World, SyncOp
  <2>5. World'
    BY <2>1, <2>3, <2>4, <1>a DEF World
  <2>6. QED  BY <2>1, <2>3, <2>5, HeldAfterSync
<1>7. CASE Settle
  <2>1. /\ Syncing /\ op.pc = "download"
        /\ UNCHANGED <<remote, told, files, server, acts, overlaid, offs, astray>>
    BY <1>7 DEF Settle, Syncing
  <2>2. op \in SyncOp /\ op.plan \in Plans /\ None \in Plans \cup {None} /\ lockq # <<>> /\ Owns("sync")
    BY <2>1, <1>a, InHand DEF WorkIsKnown, SyncInHand, Syncing
  <2>3. ASSUME NEW plan \in Plans \cup {None}, CommitRead([op.new EXCEPT !.plan = plan]),
               Adopt, staging' \subseteq Paths \X Versions
        PROVE  Held'
    <3>1. /\ Written(op.new.entries, {plan})
          /\ writer' = "none" /\ lockq # <<>> /\ lockq' = Tail(lockq) /\ op' = None
          /\ stale' = \/ row.src # op.snap.src
                      \/ IF op.fresh THEN row.wide # op.snap.wide ELSE stale
      BY <2>1, <2>3, EndWrites
    <3>2. tracked' \in Tracking /\ ours' \subseteq Paths /\ stale' \in BOOLEAN
      BY <2>2, <2>3, <3>1, <1>a, RecordedType, PlanParts DEF World, SyncOp, Adopt
    <3>3. World'
      BY <2>1, <2>3, <3>1, <3>2, <1>a DEF World
    <3>4. QED  BY <2>1, <3>1, <3>3, HeldAfterSync
  <2>4. {} \subseteq Paths \X Versions /\ staging \cup Staged(op.plan) \subseteq Paths \X Versions
    BY <2>2, <1>a, StagedType DEF World
  <2>5. CASE CommitRead([op.new EXCEPT !.plan = None]) /\ staging' = {} /\ Adopt
    BY <2>2, <2>3, <2>4, <2>5
  <2>6. CASE /\ CommitRead([op.new EXCEPT !.plan = op.plan])
             /\ staging' = staging \cup Staged(op.plan) /\ Adopt
    BY <2>2, <2>3, <2>4, <2>6
  <2>7. CASE /\ op' = [op EXCEPT !.pc = "apply"] /\ staging' = staging \cup Staged(op.plan)
             /\ UNCHANGED <<row, writer, lockq, tracked, ours, stale>>
    <3>1. /\ op' \in SyncOp /\ op'.pc = "apply" /\ op'.plan = op.plan /\ op'.new = op.new
          /\ op'.snap = op.snap /\ op'.entries = op.entries
      BY <2>2, <2>7 DEF SyncOp
    <3>2. op' # None
      BY <3>1, NoneIsNoRecord
    <3>3. Lock'
      BY <2>2, <2>7, <3>1, <1>a, <1>c, LockWorks
    <3>4. World'
      BY <2>1, <2>4, <2>7, <1>a DEF World
    <3>5. Syncing' /\ ~Pushing' /\ ~Swapping'
      BY <2>2, <2>7, <3>2, <1>c DEF Syncing, Pushing, Swapping, Owns, Applier
    <3>6. SyncInHand' /\ SnapIsOlder'
      BY <2>1, <2>7, <3>1, <1>a DEF SyncInHand, SyncKeeps, SameRow, SnapIsOlder, WorkIsKnown
    <3>7. WorkIsKnown'
      BY <2>1, <2>7, <3>1, <3>5, <3>6, <1>a DEF WorkIsKnown
    <3>8. QED  BY <2>7, <3>3, <3>4, <3>7, <1>a, TypeParts DEF Held
  <2>8. QED  BY <1>7, <2>5, <2>6, <2>7 DEF Settle
<1>8. CASE SyncApply
  <2>1. /\ Syncing /\ op.pc = "apply" /\ CommitRead([op.new EXCEPT !.plan = None])
        /\ files' = Applied(op.plan) /\ tracked' = Recorded(op.plan, tracked) /\ staging' = {}
        /\ Take(op.plan) /\ UNCHANGED <<remote, told, server, acts, overlaid, astray>>
    BY <1>8 DEF SyncApply, Syncing
  <2>2. op \in SyncOp /\ op.plan \in Plans /\ None \in Plans \cup {None}
    BY <2>1, <1>a, InHand DEF WorkIsKnown, SyncInHand
  <2>3. /\ Written(op.new.entries, {None})
        /\ writer' = "none" /\ lockq # <<>> /\ lockq' = Tail(lockq) /\ op' = None
        /\ stale' = \/ row.src # op.snap.src
                    \/ IF op.fresh THEN row.wide # op.snap.wide ELSE stale
    BY <2>1, <2>2, EndWrites
  <2>4. /\ tracked' \in Tracking /\ files' \in Folder
        /\ ours' \subseteq Paths /\ offs' \subseteq Paths /\ stale' \in BOOLEAN
    BY <2>1, <2>2, <2>3, <1>a, RecordedType, AppliedType, PlanParts DEF World, SyncOp, Take
  <2>5. World'
    BY <2>1, <2>3, <2>4, <1>a DEF World
  <2>6. QED  BY <2>1, <2>3, <2>5, HeldAfterSync
<1>9. CASE SyncApplyFails
  <2>1. /\ Syncing /\ op.pc = "apply" /\ CommitRead(op.new) /\ Adopt
        /\ \E done \in SUBSET DOMAIN op.plan.installs : files' = HalfApplied(op.plan, done)
        /\ UNCHANGED <<remote, told, staging, server, acts, overlaid, offs, astray>>
    BY <1>9 DEF SyncApplyFails, Syncing
  <2>2. op \in SyncOp /\ op.new \in Row /\ op.plan \in Plans /\ op.new.plan \in Plans \cup {None}
    BY <2>1, <1>a, InHand DEF SyncOp, Row, WorkIsKnown, SyncInHand
  <2>3. /\ Written(op.new.entries, {op.new.plan})
        /\ writer' = "none" /\ lockq # <<>> /\ lockq' = Tail(lockq) /\ op' = None
        /\ stale' = \/ row.src # op.snap.src
                    \/ IF op.fresh THEN row.wide # op.snap.wide ELSE stale
    BY <2>1, <2>2, EndWrites
  <2>4. /\ tracked' \in Tracking /\ files' \in Folder /\ ours' \subseteq Paths /\ stale' \in BOOLEAN
    BY <2>1, <2>2, <2>3, <1>a, RecordedType, HalfAppliedType, PlanParts DEF World, SyncOp, Adopt
  <2>5. World'
    BY <2>1, <2>3, <2>4, <1>a DEF World
  <2>6. QED  BY <2>1, <2>3, <2>5, HeldAfterSync
<1>10. QED
  BY <1>1, <1>2, <1>3, <1>4, <1>5, <1>6, <1>7, <1>8, <1>9 DEF Sync

\* The application of a plan, and its bookkeeping.
LEMMA ApplyKeepsHeld ==
    ASSUME Held, Apply \/ RecordApplied
    PROVE  Held'
<1>a. World /\ row \in Row \cup {None} /\ Lock /\ WorkIsKnown
  BY TypeParts DEF Held
<1>b. acts \in Nat /\ acts >= acts
  BY <1>a, LauncherAssumption DEF World
<1>c. /\ Applier => lockq # <<>> /\ ~Owns("push") /\ ~Owns("sync") /\ ~Owns("record")
      /\ Owns("record") => lockq # <<>> /\ ~Owns("push") /\ ~Owns("sync") /\ ~Applier
      /\ Head(lockq).plan \in Plans \cup {None} \/ lockq = <<>>
  <2>1. lockq # <<>> => Head(lockq) \in Tasks
    BY <1>a DEF Lock
  <2>2. QED  BY <2>1 DEF Owns, Applier, Tasks
<1>d. Applier \/ Owns("record") => writer # "sync"
  BY <1>a, <1>c DEF WorkIsKnown, Syncing
<1>e. ASSUME NEW queue, Launch(queue)
      PROVE  /\ server' \in {"STOPPED", "STARTING", "RUNNING"}
             /\ writer' \in {"none", "start", writer} /\ lockq' = queue /\ op' = None
  BY <1>e, <1>a DEF Launch, World
<1>1. CASE ApplyRead
  <2>1. /\ Applier /\ op = None
        /\ UNCHANGED <<remote, told, row, tracked, files, staging, acts, history>>
    BY <1>1 DEF ApplyRead
  <2>2. CASE Launch(Tail(lockq))
    <3>1. /\ server' \in {"STOPPED", "STARTING", "RUNNING"}
          /\ writer' \in {"none", "start", writer} /\ lockq' = Tail(lockq) /\ op' = None
      BY <2>2, <1>e
    <3>2. World' /\ writer' # "sync"
      BY <2>1, <3>1, <1>a, <1>c, <1>d DEF World, history
    <3>3. QED  BY <2>1, <3>1, <3>2, <1>a, <1>b, <1>c, HeldAtEnd
  <2>3. CASE /\ row # None /\ row.plan # None
             /\ op' = [pc |-> "swap", plan |-> row.plan, id |-> row.id]
             /\ UNCHANGED <<lockq, server, writer>>
    <3>1. row \in Row /\ row.plan \in Plans /\ row.id \in Nat
      BY <2>3, <1>a DEF Row
    <3>2. op' \in SwapOp /\ op'.id = row.id
      BY <2>3, <3>1 DEF SwapOp
    <3>3. Lock'
      BY <2>1, <2>3, <3>2, <1>a, <1>c, LockWorks
    <3>4. World'
      BY <2>1, <2>3, <1>a DEF World, history
    <3>5. ~Syncing' /\ ~Pushing'
      BY <2>1, <2>3, <1>c DEF Syncing, Pushing, Owns
    <3>6. WorkIsKnown'
      BY <2>1, <2>3, <3>2, <3>5, <1>a, <1>c, <1>d DEF WorkIsKnown
    <3>7. QED  BY <2>1, <3>3, <3>4, <3>6, <1>a, TypeParts DEF Held
  <2>4. QED  BY <1>1, <2>2, <2>3 DEF ApplyRead
<1>2. CASE Swap
  <2>1. /\ Applier /\ op # None /\ op \in SwapOp /\ op.plan \in Plans
        /\ UNCHANGED <<remote, told, row, tracked, staging, acts, overlaid, astray, stale>>
    BY <1>2, <1>a, InHand DEF Swap, Swapping, SwapOp
  <2>2. PICK task \in Tasks : task.kind # "push" /\ Launch(Append(Tail(lockq), task))
    <3> DEFINE complete == Staged(op.plan) \subseteq staging
               by == IF Owns("hook") THEN "task" ELSE "loop"
               task == [Task("record", by) EXCEPT !.plan = IF complete THEN op.plan ELSE None]
    <3>1. task \in Tasks /\ task.kind # "push"
      BY <2>1 DEF Task, Tasks
    <3>2. Launch(Append(Tail(lockq), task))
      BY <1>2 DEF Swap
    <3> HIDE DEF task
    <3>3. QED  BY <3>1, <3>2
  <2>3. /\ server' \in {"STOPPED", "STARTING", "RUNNING"}
        /\ writer' \in {"none", "start", writer} /\ lockq' = Append(Tail(lockq), task) /\ op' = None
    BY <2>2, <1>e
  <2>4. files' \in Folder /\ ours' \subseteq Paths /\ offs' \subseteq Paths
    <3>1. \/ files' = Applied(op.plan) /\ Take(op.plan)
          \/ UNCHANGED <<files, ours, offs>>
      BY <1>2 DEF Swap
    <3>2. QED  BY <2>1, <3>1, <1>a, AppliedType, PlanParts DEF World, Take
  <2>5. World' /\ writer' # "sync"
    BY <2>1, <2>3, <2>4, <1>a, <1>c, <1>d DEF World
  <2>6. QED  BY <2>1, <2>2, <2>3, <2>5, <1>a, <1>b, <1>c, HeldAtEnd
<1>3. CASE SwapFails
  <2>1. /\ Applier /\ op # None /\ op \in SwapOp /\ op.plan \in Plans
        /\ \E done \in SUBSET DOMAIN op.plan.installs : files' = HalfApplied(op.plan, done)
        /\ Launch(Tail(lockq))
        /\ UNCHANGED <<remote, told, row, tracked, staging, acts, history>>
    BY <1>3, <1>a, InHand DEF SwapFails, Swapping, SwapOp
  <2>2. /\ server' \in {"STOPPED", "STARTING", "RUNNING"}
        /\ writer' \in {"none", "start", writer} /\ lockq' = Tail(lockq) /\ op' = None
    BY <2>1, <1>e
  <2>3. files' \in Folder
    BY <2>1, <1>a, HalfAppliedType DEF World
  <2>4. World' /\ writer' # "sync"
    BY <2>1, <2>2, <2>3, <1>a, <1>c, <1>d DEF World, history
  <2>5. QED  BY <2>1, <2>2, <2>4, <1>a, <1>b, <1>c, HeldAtEnd
<1>4. CASE RecordApplied
  <2>1. /\ Owns("record") /\ writer = "none" /\ Head(lockq).plan \in Plans \cup {None}
        /\ UNCHANGED <<remote, told, files, server, writer, acts, overlaid, offs, astray, stale>>
        /\ lockq' = Tail(lockq) /\ op' = None
        /\ row' = IF row = None THEN None ELSE [row EXCEPT !.plan = None]
    BY <1>4, <1>c DEF RecordApplied, Release
  <2>2. /\ row' \in Row \cup {None}
        /\ row' # None => row # None /\ row'.id = row.id /\ row'.src = row.src
    BY <2>1, <1>a DEF Row
  <2>3. tracked' \in Tracking /\ staging' \subseteq Paths \X Versions /\ ours' \subseteq Paths
    <3>1. CASE row # None /\ Head(lockq).plan # None
      <4>1. PICK plan \in Plans : plan = Head(lockq).plan
        BY <2>1, <3>1
      <4>2. tracked' = Recorded(plan, tracked) /\ staging' = {}
            /\ ours' = ours \cup DOMAIN plan.installs \cup DOMAIN plan.adopts
        BY <1>4, <3>1, <4>1 DEF RecordApplied
      <4>3. QED  BY <4>2, <1>a, RecordedType, PlanParts DEF World
    <3>2. CASE ~(row # None /\ Head(lockq).plan # None)
      BY <1>4, <3>2, <1>a DEF RecordApplied, World
    <3>3. QED  BY <3>1, <3>2
  <2>4. World'
    BY <2>1, <2>3, <1>a DEF World
  <2>5. QED  BY <2>1, <2>2, <2>4, <1>b, <1>c, HeldAtEnd
<1>5. QED  BY <1>1, <1>2, <1>3, <1>4 DEF Apply

\* The commit of a publication.
LEMMA PushWrites ==
    ASSUME Held, Pushing, row # None, Commit(op.new)
    PROVE  /\ row' \in Row /\ row'.id = row.id /\ row'.src = row.src
           /\ row'.enabled = row.enabled /\ row'.wide = row.wide /\ row'.override = row.override
           /\ row'.plan = row.plan /\ row'.token = row.token /\ row'.etag = row.etag
           /\ row'.entries = row.entries
           /\ row'.rev = (IF op.new.rev # op.snap.rev THEN op.new.rev ELSE row.rev)
           /\ row'.pushed = (IF op.new.pushed # op.snap.pushed THEN op.new.pushed ELSE row.pushed)
           /\ row'.disabled =
                 (IF op.new.disabled # op.snap.disabled THEN op.new.disabled ELSE row.disabled)
<1>1. row \in Row /\ op.snap \in Row /\ op.new \in Row /\ PushKeeps
  BY InHand, TypeParts DEF Held, WorkIsKnown, PushOp
<1>2. QED  BY <1>1, CommitColumns DEF PushKeeps

\* What a publication starts with.
LEMMA PushBegins ==
    ASSUME Held, PushRead
    PROVE  /\ row \in Row /\ row # None /\ lockq = <<>> /\ lockq' = <<Task("push", "push")>>
           /\ UNCHANGED <<remote, told, row, tracked, files, staging, server, writer,
                          acts, history>>
           /\ op' \in PushOp /\ op'.snap = row /\ PushKeeps'
           /\ op'.new.pushed = row.pushed /\ row.rev <= op'.new.rev
           /\ \/ op'.new.rev = row.rev + 1
              \/ row.rev = 0 /\ op'.new.rev = 1
              \/ op'.new.rev = row.rev /\ row.pushed < row.rev
<1> DEFINE d == DisabledPaths(row.wide)
           rev == IF d # row.disabled THEN row.rev + 1 ELSE IF row.rev = 0 THEN 1 ELSE row.rev
           new == [row EXCEPT !.rev = rev, !.disabled = d]
<1>1. /\ row \in Row /\ row # None /\ lockq = <<>> /\ lockq' = <<Task("push", "push")>>
      /\ rev # row.rev \/ (row.pushed < rev /\ row.token)
      /\ op' = [pc |-> IF row.pushed >= rev \/ ~row.token THEN "save" ELSE "send",
                snap |-> row, plan |-> None, new |-> new]
      /\ UNCHANGED <<remote, told, row, tracked, files, staging, server, writer, acts, history>>
  BY TypeParts DEF PushRead, Held
<1>2. row.rev \in Nat /\ row.pushed \in Nat /\ rev \in Nat /\ d \in SUBSET Paths
  BY <1>1 DEF Row, DisabledPaths
<1>3. /\ row.rev <= rev
      /\ \/ rev = row.rev + 1
         \/ row.rev = 0 /\ rev = 1
         \/ rev = row.rev /\ row.pushed < row.rev
  BY <1>1, <1>2
<1> HIDE DEF d, rev
<1>4. /\ new \in Row /\ new.rev = rev /\ new.pushed = row.pushed
      /\ new.id = row.id /\ new.src = row.src /\ new.enabled = row.enabled
      /\ new.wide = row.wide /\ new.override = row.override /\ new.plan = row.plan
      /\ new.token = row.token /\ new.etag = row.etag /\ new.entries = row.entries
      /\ new.seen = row.seen
  BY <1>1, <1>2 DEF Row
<1> HIDE DEF new
<1>5. op' \in PushOp /\ op'.snap = row /\ op'.new = new
  BY <1>1, <1>4 DEF PushOp
<1>6. PushKeeps'
  BY <1>4, <1>5 DEF PushKeeps
<1>7. QED  BY <1>1, <1>3, <1>4, <1>5, <1>6

\* Once it was answered.
LEMMA PushSent ==
    ASSUME Held, PushSend \/ PushFails
    PROVE  /\ Pushing /\ Pushing' /\ ~Syncing' /\ ~Swapping' /\ UNCHANGED lockq
           /\ op \in PushOp /\ op.pc = "send" /\ op' \in PushOp /\ op'.pc = "save"
           /\ op'.snap = op.snap /\ PushKeeps'
           /\ op'.new.rev = op.new.rev /\ op'.new.disabled = op.new.disabled
           /\ PushSend => op'.new.pushed = op.new.rev
           /\ PushFails => op'.new.pushed = op.new.pushed
<1>1. /\ Pushing /\ op.pc = "send" /\ UNCHANGED lockq
      /\ PushSend => op' = [op EXCEPT !.pc = "save", !.new.pushed = op.new.rev]
      /\ PushFails => op' = [op EXCEPT !.pc = "save"]
  BY DEF PushSend, PushFails, Pushing
<1>2. op \in PushOp /\ op.new \in Row /\ PushKeeps /\ lockq # <<>>
  BY <1>1, InHand, TypeParts DEF Held, WorkIsKnown, PushOp
<1> DEFINE new == [op.new EXCEPT !.pushed = op.new.rev]
<1>3. /\ new \in Row /\ new.pushed = op.new.rev /\ new.rev = op.new.rev
      /\ new.disabled = op.new.disabled
      /\ new.id = op.new.id /\ new.src = op.new.src /\ new.enabled = op.new.enabled
      /\ new.wide = op.new.wide /\ new.override = op.new.override /\ new.plan = op.new.plan
      /\ new.token = op.new.token /\ new.etag = op.new.etag /\ new.entries = op.new.entries
      /\ new.seen = op.new.seen
  BY <1>2 DEF Row
<1>4. PushSend => op' = [op EXCEPT !.pc = "save", !.new = new]
  BY <1>1, <1>2
<1> HIDE DEF new
<1>5. /\ op' \in PushOp /\ op'.pc = "save" /\ op'.snap = op.snap
      /\ PushSend => op'.new = new
      /\ PushFails => op'.new = op.new
  BY <1>1, <1>2, <1>3, <1>4 DEF PushOp
<1>6. PushKeeps'
  BY <1>2, <1>3, <1>5 DEF PushKeeps
<1>7. Pushing' /\ ~Syncing' /\ ~Swapping'
  BY <1>1 DEF Pushing, Syncing, Swapping, Owns, Applier
<1>8. QED  BY <1>1, <1>2, <1>3, <1>5, <1>6, <1>7

LEMMA PushKeepsHeld ==
    ASSUME Held, Push
    PROVE  Held'
<1>a. World /\ row \in Row \cup {None} /\ Lock /\ WorkIsKnown
  BY TypeParts DEF Held
<1>b. acts \in Nat /\ acts >= acts
  BY <1>a, LauncherAssumption DEF World
<1>1. CASE PushRead
  <2>1. /\ row \in Row /\ row # None /\ lockq = <<>> /\ lockq' = <<Task("push", "push")>>
        /\ UNCHANGED <<remote, told, row, tracked, files, staging, server, writer, acts, history>>
        /\ op' \in PushOp /\ op'.snap = row /\ PushKeeps'
    BY <1>1, PushBegins
  <2>2. Lock' /\ Pushing' /\ ~Syncing' /\ ~Swapping'
    BY <2>1, <1>a, LockTaken
  <2>3. World'
    BY <2>1, <1>a DEF World, history
  <2>4. writer # "sync"
    BY <2>1, <1>a DEF WorkIsKnown, Syncing, Owns
  <2>5. WorkIsKnown'
    BY <2>1, <2>2, <2>4, <1>a DEF WorkIsKnown, SnapIsOlder
  <2>6. QED  BY <2>1, <2>2, <2>3, <2>5, TypeParts DEF Held
<1>2. CASE PushSend \/ PushFails
  <2>1. /\ Pushing /\ Pushing' /\ ~Syncing' /\ ~Swapping' /\ UNCHANGED lockq
        /\ op' \in PushOp /\ op'.snap = op.snap /\ PushKeeps'
    BY <1>2, PushSent
  <2>2. op \in PushOp /\ lockq # <<>> /\ ~Syncing
    BY <2>1, <1>a, InHand
  <2>3. Lock'
    BY <2>1, <2>2, <1>a, LockWorks DEF Pushing, Owns, Applier
  <2>4. UNCHANGED <<remote, row, tracked, files, staging, server, writer, acts, ours, overlaid, offs, stale>>
    BY <1>2 DEF PushSend, PushFails, history
  <2>5. told' \in (SUBSET Paths) \cup {None} /\ astray' \in BOOLEAN
    BY <1>2, <2>2, <1>a DEF PushSend, PushFails, history, World, PushOp, Row
  <2>6. World'
    BY <2>4, <2>5, <1>a DEF World
  <2>7. WorkIsKnown'
    BY <2>1, <2>2, <2>4, <1>a DEF WorkIsKnown, SnapIsOlder
  <2>8. QED  BY <2>3, <2>4, <2>6, <2>7, <1>a, TypeParts DEF Held
<1>3. CASE PushSave
  <2>1. /\ Pushing /\ lockq' = Tail(lockq) /\ op' = None
        /\ UNCHANGED <<remote, told, tracked, files, staging, server, writer, acts, history>>
        /\ (row # None /\ Commit(op.new)) \/ UNCHANGED row
    BY <1>3 DEF PushSave, Pushing, Release, SameRow
  <2>2. lockq # <<>> /\ writer # "sync"
    BY <2>1, <1>a, InHand DEF WorkIsKnown
  <2>3. /\ row' \in Row \cup {None}
        /\ row' # None => row # None /\ row'.id = row.id /\ row'.src = row.src
    BY <2>1, <1>a, PushWrites
  <2>4. World'
    BY <2>1, <1>a DEF World, history
  <2>5. QED  BY <2>1, <2>2, <2>3, <2>4, <1>b, HeldAtEnd
<1>4. QED  BY <1>1, <1>2, <1>3 DEF Push

\* What is asked of the lock, and the server.
LEMMA AsksKeepHeld ==
    ASSUME Held, Busy \/ Loop \/ Process \/ \E mass \in BOOLEAN : SyncNow(mass)
    PROVE  Held'
<1>a. World /\ row \in Row \cup {None} /\ Lock /\ WorkIsKnown
  BY TypeParts DEF Held
<1>b. acts \in Nat /\ acts >= acts /\ acts' \in {acts, acts + 1} <=> acts' = acts \/ acts' = acts + 1
  BY <1>a, LauncherAssumption DEF World
<1>c. ASSUME NEW task \in Tasks, task.kind # "push", Ask(task), UNCHANGED op
      PROVE  Lock' /\ Stays
  BY <1>a, <1>c, LockAsked
<1>d. \A kind \in {"sync", "hook", "tick"} : \A by \in {"loop", "user", "start"} : \A mass \in BOOLEAN :
         /\ Task(kind, by) \in Tasks /\ [Task(kind, by) EXCEPT !.mass = mass] \in Tasks
         /\ Task(kind, by).kind # "push" /\ [Task(kind, by) EXCEPT !.mass = mass].kind # "push"
  BY DEF Task, Tasks
<1>1. CASE Busy
  <2>1. /\ writer = "start" /\ lockq' = Tail(lockq) /\ op' = None /\ lockq # <<>>
        /\ astray' = (astray \/ Unrecorded)
        /\ UNCHANGED <<remote, told, row, tracked, files, staging, server, writer, acts, ours, overlaid, offs, stale>>
    BY <1>1 DEF Busy, Release, Owns
  <2>2. astray' \in BOOLEAN
    BY <2>1 DEF Unrecorded
  <2>3. World'
    BY <2>1, <2>2, <1>a DEF World
  <2>4. QED  BY <2>1, <2>3, <1>a, <1>b, HeldAtEnd
<1>2. CASE Loop
  <2>1. /\ Ask(Task("sync", "loop")) \/ Ask(Task("tick", "loop"))
        /\ UNCHANGED asking
    BY <1>2 DEF Loop, LoopSync, LoopApply
  <2>2. Lock' /\ Stays
    BY <2>1, <1>c, <1>d DEF asking
  <2>3. World'
    BY <2>1, <1>a DEF asking, World, history
  <2>4. QED  BY <2>1, <2>2, <2>3, HeldOn DEF asking
<1>3. CASE Requested \/ Automatic
  <2>1. /\ server' = "STARTING"
        /\ \/ UNCHANGED writer
           \/ writer = "none" /\ writer' = "start"
        /\ Ask(Task("hook", "start"))
        /\ UNCHANGED <<remote, told, row, tracked, files, staging, op, acts, history>>
    BY <1>3 DEF Requested, Automatic, Start
  <2>2. Lock' /\ Stays
    BY <2>1, <1>c, <1>d
  <2>3. World'
    BY <2>1, <1>a DEF World, history
  <2>4. QED  BY <2>1, <2>2, <2>3, HeldOn
<1>4. CASE Exit
  <2>1. World' /\ UNCHANGED <<lockq, op, row, acts, writer>>
    BY <1>4, <1>a DEF Exit, World, history
  <2>2. QED  BY <2>1, <1>a, LockStays, HeldOn
<1>5. CASE \E mass \in BOOLEAN : SyncNow(mass)
  <2>1. PICK mass \in BOOLEAN : SyncNow(mass)
    BY <1>5
  <2>2. /\ acts < MaxActs /\ acts' = acts + 1
        /\ Ask([Task("sync", "user") EXCEPT !.mass = mass])
        /\ UNCHANGED <<remote, told, row, tracked, files, staging, server, writer, op, history>>
    BY <2>1 DEF SyncNow, Act
  <2>3. Lock' /\ Stays
    BY <2>2, <1>c, <1>d
  <2>4. World'
    BY <2>2, <1>a, LauncherAssumption DEF World, history
  <2>5. QED  BY <2>2, <2>3, <2>4, HeldOn
<1>6. QED  BY <1>1, <1>2, <1>3, <1>4, <1>5 DEF Process

\* What a request of the settings page changes of the link.
LEMMA Configured ==
    ASSUME TypeOK, NEW r \in Requests, Configure(r)
    PROVE  /\ row \in Row /\ row # None /\ row' \in Row /\ writer = "none"
           /\ acts < MaxActs /\ acts' = acts + 1
           /\ row'.id = row.id /\ row'.wide = r.wide /\ row'.override = row.override
           /\ row'.rev = row.rev /\ row'.disabled = row.disabled
           /\ row'.plan \in {row.plan, None}
           /\ row'.pushed = (IF r.token = "new" THEN 0 ELSE row.pushed)
           /\ r.move => row'.src = acts + 1 /\ row'.etag = None
           /\ ~r.move => row'.src = row.src /\ row'.etag = row.etag /\ row'.entries = row.entries
<1> DEFINE known == IF r.move THEN [row EXCEPT !.etag = None, !.seen = {}, !.src = acts + 1,
                                               !.entries = [p \in Paths |-> None]]
                              ELSE row
           plan == IF r.enabled THEN row.plan ELSE None
           token == r.token = "new" \/ (row.token /\ r.token = "keep")
           pushed == IF r.token = "new" THEN 0 ELSE row.pushed
<1>1. /\ row \in Row /\ row # None /\ writer = "none" /\ acts < MaxActs /\ acts' = acts + 1
      /\ acts \in Nat /\ r.wide \in BOOLEAN /\ r.enabled \in BOOLEAN
      /\ row.plan \in Plans \cup {None} /\ row.token \in BOOLEAN /\ row.pushed \in Nat
  BY TypeParts, LauncherAssumption DEF Configure, Act, World, Row
<1>2. [p \in Paths |-> None] \in Entries
  BY DEF Entries
<1>3. /\ known \in Row /\ known.plan = row.plan /\ known.token = row.token
      /\ known.pushed = row.pushed /\ known.id = row.id /\ known.override = row.override
      /\ known.rev = row.rev /\ known.disabled = row.disabled
      /\ r.move => known.src = acts + 1 /\ known.etag = None
      /\ ~r.move => known.src = row.src /\ known.etag = row.etag /\ known.entries = row.entries
  <2>1. CASE r.move
    <3> DEFINE none == [p \in Paths |-> None]
    <3>1. none \in Entries
      BY <1>2
    <3>2. known = [row EXCEPT !.etag = None, !.seen = {}, !.src = acts + 1, !.entries = none]
      BY <2>1
    <3> HIDE DEF none, known
    <3>3. /\ \E src \in Nat : src = acts + 1
          /\ \E seen \in SUBSET (Paths \X Versions) : seen = {}
          /\ \E etag \in Entries \cup {None} : etag = None
      <4>1. acts + 1 \in Nat /\ {} \in SUBSET (Paths \X Versions) /\ None \in Entries \cup {None}
        BY <1>1
      <4>2. QED  BY <4>1, Zenon
    <3>a. PICK src \in Nat : src = acts + 1
      BY <3>3
    <3>b. PICK seen \in SUBSET (Paths \X Versions) : seen = {}
      BY <3>3
    <3>c. PICK etag \in Entries \cup {None} : etag = None
      BY <3>3
    <3>4. known = [row EXCEPT !.etag = etag, !.seen = seen, !.src = src, !.entries = none]
      BY <3>2, <3>a, <3>b, <3>c
    <3>5. /\ known \in Row /\ known.plan = row.plan /\ known.token = row.token
          /\ known.pushed = row.pushed /\ known.id = row.id /\ known.override = row.override
          /\ known.rev = row.rev /\ known.disabled = row.disabled
          /\ known.src = src /\ known.etag = etag
      BY <1>1, <3>1, <3>4 DEF Row
    <3>6. QED  BY <2>1, <3>a, <3>c, <3>5
  <2>2. CASE ~r.move
    BY <1>1, <2>2
  <2>3. QED  BY <2>1, <2>2
<1>4. row' = [known EXCEPT !.wide = r.wide, !.enabled = r.enabled,
                           !.plan = IF r.enabled THEN @ ELSE None,
                           !.token = r.token = "new" \/ (@ /\ r.token = "keep"),
                           !.pushed = IF r.token = "new" THEN 0 ELSE @]
  BY DEF Configure
<1> HIDE DEF known
<1>5. row' = [known EXCEPT !.wide = r.wide, !.enabled = r.enabled, !.plan = plan,
                           !.token = token, !.pushed = pushed]
  BY <1>3, <1>4
<1>6. plan \in Plans \cup {None} /\ plan \in {row.plan, None} /\ token \in BOOLEAN /\ pushed \in Nat
  BY <1>1
<1> HIDE DEF plan, token, pushed
<1>a. known \in Row /\ r.wide \in BOOLEAN /\ r.enabled \in BOOLEAN
  BY <1>1, <1>3
<1>b. plan \in Plans \cup {None} /\ token \in BOOLEAN /\ pushed \in Nat
  BY <1>6
<1>7. /\ row' \in Row /\ row'.plan = plan /\ row'.pushed = pushed /\ row'.wide = r.wide
      /\ row'.id = known.id /\ row'.override = known.override /\ row'.rev = known.rev
      /\ row'.disabled = known.disabled /\ row'.src = known.src /\ row'.etag = known.etag
      /\ row'.entries = known.entries
  BY <1>a, <1>b, <1>5 DEF Row
<1>8. QED  BY <1>1, <1>3, <1>6, <1>7 DEF pushed

LEMMA RoutesKeepHeld ==
    ASSUME Held, Routes
    PROVE  Held'
<1>a. World /\ row \in Row \cup {None} /\ Lock /\ WorkIsKnown
  BY TypeParts DEF Held
<1>b. acts \in Nat /\ MaxActs \in Nat /\ (acts < MaxActs => acts + 1 \in 0 .. MaxActs)
  BY <1>a, LauncherAssumption DEF World
<1>1. ASSUME NEW token \in BOOLEAN, Link(token) PROVE Held'
  <2>1. /\ row = None /\ writer = "none" /\ acts < MaxActs /\ acts' = acts + 1
        /\ row' = NewRow(token, acts + 1) /\ told' = None /\ astray' = FALSE /\ stale' = FALSE
        /\ UNCHANGED <<remote, tracked, files, staging, server, writer, lockq, op, ours, overlaid, offs>>
    BY <1>1 DEF Link, Act
  <2>2. row' \in Row /\ row'.id = acts + 1 /\ row'.src = acts + 1
    BY <2>1, <1>b, NewRowType DEF NewRow
  <2>3. World'
    BY <2>1, <1>a, <1>b DEF World
  <2>4. Lock' /\ Stays
    BY <2>1, <1>a, LockStays
  <2>5. WorkIsKnown'
    BY <2>1, <2>2, <2>4, <1>b, WorkOutlives
  <2>6. QED  BY <2>2, <2>3, <2>4, <2>5, TypeParts DEF Held
<1>2. ASSUME NEW r \in Requests, Configure(r) PROVE Held'
  <2>1. /\ row \in Row /\ row # None /\ row' \in Row /\ writer = "none"
        /\ acts < MaxActs /\ acts' = acts + 1
        /\ row'.id = row.id /\ (row'.src = acts + 1 \/ row'.src = row.src)
    BY <1>2, Configured DEF Held
  <2>2. /\ UNCHANGED <<tracked, files, staging, server, writer, lockq, op, ours, overlaid, offs>>
        /\ remote' \in Manifests /\ told' \in {None, told}
    BY <1>2, <1>a DEF Configure, World
  <2>3. astray' \in BOOLEAN /\ stale' \in BOOLEAN
    BY <1>2, <1>a DEF Configure, World
  <2>4. World'
    BY <2>1, <2>2, <2>3, <1>a, <1>b DEF World
  <2>5. Lock' /\ Stays
    BY <2>2, <1>a, LockStays
  <2>6. row.id \in Nat /\ row.src \in Nat /\ row.id <= acts /\ row.src <= acts
    BY <2>1, <1>a DEF Row, WorkIsKnown
  <2>7. WorkIsKnown'
    BY <2>1, <2>2, <2>5, <2>6, <1>b, WorkOutlives
  <2>8. QED  BY <2>1, <2>4, <2>5, <2>7, TypeParts DEF Held
<1>3. CASE Remove
  <2>1. /\ writer = "none" /\ acts < MaxActs /\ acts' = acts + 1 /\ row' = None
        /\ tracked' = [p \in Paths |-> None] /\ staging' = {} /\ ours' = {}
        /\ UNCHANGED <<remote, told, files, server, writer, lockq, op, overlaid, offs, astray, stale>>
    BY <1>3 DEF Remove, Act
  <2>2. World'
    BY <2>1, <1>a, <1>b DEF World, Tracking
  <2>3. Lock' /\ Stays
    BY <2>1, <1>a, LockStays
  <2>4. WorkIsKnown'
    BY <2>1, <2>3, WorkOutlives
  <2>5. QED  BY <2>1, <2>2, <2>3, <2>4, TypeParts DEF Held
<1>4. ASSUME NEW p \in Paths, NEW side \in Overrides, SetSide(p, side) PROVE Held'
  <2>1. /\ row # None /\ row \in Row /\ writer = "none" /\ acts < MaxActs /\ acts' = acts + 1
        /\ row' = [row EXCEPT !.override[p] = side]
        /\ UNCHANGED <<remote, told, tracked, files, staging, server, writer, lockq, op, history>>
    BY <1>4, <1>a DEF SetSide, Act
  <2>2. row' \in Row /\ row'.id = row.id /\ row'.src = row.src
    BY <2>1 DEF Row
  <2>3. World'
    BY <2>1, <1>a, <1>b DEF World, history
  <2>4. Lock' /\ Stays
    BY <2>1, <1>a, LockStays
  <2>5. row.id \in Nat /\ row.src \in Nat /\ row.id <= acts /\ row.src <= acts
    BY <2>1, <1>a DEF Row, WorkIsKnown
  <2>6. WorkIsKnown'
    BY <2>1, <2>2, <2>4, <2>5, <1>b, WorkOutlives
  <2>7. QED  BY <2>2, <2>3, <2>4, <2>6, TypeParts DEF Held
<1>5. QED  BY <1>1, <1>2, <1>3, <1>4, AsksKeepHeld DEF Routes

\* The administrator's files, the file server, and the end of MSM.
LEMMA OthersKeepHeld ==
    ASSUME Held, FileRoutes \/ (\E m \in Manifests : Publish(m)) \/ Crash
    PROVE  Held'
<1>a. World /\ row \in Row \cup {None} /\ Lock /\ WorkIsKnown
  BY TypeParts DEF Held
<1>b. acts \in Nat /\ MaxActs \in Nat /\ (acts < MaxActs => acts + 1 \in 0 .. MaxActs)
  BY <1>a, LauncherAssumption DEF World
<1>1. CASE FileRoutes
  <2>1. PICK p \in Paths : Toggle(p) \/ Upload(p) \/ DeleteFile(p)
    BY <1>1 DEF FileRoutes
  <2>2. /\ acts < MaxActs /\ acts' = acts + 1
        /\ UNCHANGED <<remote, told, row, tracked, staging, server, writer, lockq, op, ours, astray, stale>>
    BY <2>1 DEF Toggle, Upload, DeleteFile, Act
  <2>3. files' \in Folder /\ offs' \subseteq Paths /\ overlaid' \subseteq Paths
    BY <2>1, <1>a DEF Toggle, Upload, DeleteFile, World, Folder, Contents
  <2>4. World'
    BY <2>2, <2>3, <1>a, <1>b DEF World
  <2>5. QED  BY <2>2, <2>4, <1>a, LockStays, HeldOn
<1>2. CASE \E m \in Manifests : Publish(m)
  <2>1. PICK m \in Manifests : Publish(m)
    BY <1>2
  <2>2. /\ acts < MaxActs /\ acts' = acts + 1 /\ remote' = m
        /\ UNCHANGED <<told, row, tracked, files, staging, server, writer, lockq, op, history>>
    BY <2>1 DEF Publish, Act
  <2>3. World'
    BY <2>2, <1>a, <1>b DEF World, history
  <2>4. QED  BY <2>2, <2>3, <1>a, LockStays, HeldOn
<1>3. CASE Crash
  <2>1. /\ acts < MaxActs /\ acts' = acts + 1 /\ lockq' = <<>> /\ op' = None /\ writer' = "none"
        /\ server' = IF server = "STARTING" THEN "STOPPED" ELSE server
        /\ astray' = (astray \/ Unrecorded)
        /\ UNCHANGED <<remote, told, row, tracked, staging, ours, overlaid, offs, stale>>
    BY <1>3 DEF Crash, Act
  <2>2. files' \in Folder
    <3>1. CASE op # None /\ op.pc \in {"apply", "swap"}
      <4>1. op.plan \in Plans
        <5>1. Syncing \/ Swapping
          <6>1. lockq # <<>> /\ Head(lockq).kind \in {"sync", "hook", "tick", "record", "push"}
            <7>1. lockq # <<>>
              BY <3>1, <1>a DEF Lock, Holds
            <7>2. Head(lockq) \in Tasks
              BY <7>1, <1>a DEF Lock
            <7>3. QED  BY <7>1, <7>2 DEF Tasks
          <6>2. ~Owns("push") /\ ~Owns("record")
            BY <3>1, <1>a DEF Lock, Holds, PushOp
          <6>3. QED  BY <3>1, <6>1, <6>2 DEF Owns, Applier, Syncing, Swapping
        <5>2. QED  BY <3>1, <5>1, <1>a, InHand DEF WorkIsKnown, SyncInHand, SwapOp, SyncOp
      <4>2. \E done \in SUBSET DOMAIN op.plan.installs : files' = HalfApplied(op.plan, done)
        BY <1>3, <3>1 DEF Crash
      <4>3. QED  BY <4>1, <4>2, <1>a, HalfAppliedType DEF World
    <3>2. CASE ~(op # None /\ op.pc \in {"apply", "swap"})
      BY <1>3, <3>2, <1>a DEF Crash, World
    <3>3. QED  BY <3>1, <3>2
  <2>3. World'
    BY <2>1, <2>2, <1>a, <1>b DEF World, Unrecorded
  <2>4. acts' >= acts
    BY <2>1, <1>b
  <2>5. QED  BY <2>1, <2>3, <2>4, <1>a, HeldAtEnd
<1>4. QED  BY <1>1, <1>2, <1>3

LEMMA HeldKept ==
    ASSUME Held, [Next]_vars
    PROVE  Held'
<1>1. CASE UNCHANGED vars
  BY <1>1 DEF vars, Held, TypeOK, Holds, Owns, Applier, WorkIsKnown, SyncInHand, SnapIsOlder,
              SyncKeeps, PushKeeps, SameRow, Syncing, Pushing, Swapping
<1>2. QED
  BY <1>1, SyncKeepsHeld, ApplyKeepsHeld, PushKeepsHeld, AsksKeepHeld, RoutesKeepHeld,
     OthersKeepHeld
     DEF Next, Holder, User

LEMMA HeldBegins == Init => Held
<1> SUFFICES ASSUME Init PROVE Held
  OBVIOUS
<1>1. row = [NewRow(TRUE, 0) EXCEPT !.rev = 1, !.pushed = 1]
  BY DEF Init
<1>2. NewRow(TRUE, 0) \in Row /\ NewRow(TRUE, 0).id = 0 /\ NewRow(TRUE, 0).src = 0
  BY NewRowType DEF NewRow
<1>3. row \in Row /\ row.id = 0 /\ row.src = 0
  BY <1>1, <1>2 DEF Row
<1>4. World
  <2>1. /\ remote \in Manifests /\ told = {} /\ staging = {} /\ server = "STOPPED"
        /\ writer = "none" /\ acts = 0 /\ ours = {} /\ overlaid = {} /\ offs = {} /\ astray = FALSE /\ stale = FALSE
    BY DEF Init
  <2>2. tracked \in Tracking /\ files \in Folder
    BY DEF Init, Tracking, Folder, Contents
  <2>3. acts \in 0 .. MaxActs
    BY <2>1, LauncherAssumption
  <2>4. QED  BY <2>1, <2>2, <2>3 DEF World
<1>5. Lock /\ ~Syncing /\ ~Pushing /\ ~Swapping
  BY LauncherAssumption DEF Init, Lock, Holds, Owns, Applier, Syncing, Pushing, Swapping
<1>6. WorkIsKnown
  <2>1. writer = "none" /\ acts = 0
    BY DEF Init
  <2>2. QED  BY <1>3, <1>5, <2>1 DEF WorkIsKnown
<1>7. QED  BY <1>3, <1>4, <1>5, <1>6, TypeParts DEF Held

\* Every variable keeps its type, whoever holds the lock.
THEOREM TypeCorrect == Spec => []TypeOK
<1>1. Held /\ [Next]_vars => Held'
  BY HeldKept
<1>2. QED  BY HeldBegins, <1>1, PTL DEF Spec, Held

-----------------------------------------------------------------------------
(***************************************************************************)
(* The line of those who wait for the lock: the hook of the start under    *)
(* way, after any application the loop has asked for.                      *)
(***************************************************************************)
InLine ==
    /\ server = "STARTING" <=> \E i \in DOMAIN lockq : lockq[i].kind = "hook"
    /\ \A i, j \in DOMAIN lockq : lockq[i].kind = "hook" /\ lockq[j].kind = "hook" => i = j
    /\ \A i, j \in DOMAIN lockq : lockq[i].kind = "tick" /\ lockq[j].kind = "hook" => i < j
    /\ \A i \in DOMAIN lockq : lockq[i].kind = "tick" => server # "RUNNING"

\* Who applies does so before the server runs.
Line == InLine /\ (Syncing /\ op.pc = "apply" => server # "RUNNING")

\* The line advances; the bookkeeping of an application joins its end.
Advances ==
    /\ lockq # <<>>
    /\ \/ lockq' = Tail(lockq)
       \/ \E task \in Tasks : task.kind = "record" /\ lockq' = Append(Tail(lockq), task)

LEMMA Advanced ==
    ASSUME lockq \in Seq(Tasks), Advances
    PROVE  /\ \A i \in DOMAIN lockq' : \/ i + 1 \in DOMAIN lockq /\ lockq'[i] = lockq[i + 1]
                                       \/ lockq'[i].kind = "record"
           /\ \A i \in DOMAIN lockq : i # 1 => i - 1 \in DOMAIN lockq' /\ lockq'[i - 1] = lockq[i]
           /\ DOMAIN lockq \subseteq Nat /\ DOMAIN lockq' \subseteq Nat
           /\ 1 \in DOMAIN lockq /\ Head(lockq) = lockq[1]
<1> DEFINE rest == Tail(lockq)
<1>1. /\ rest \in Seq(Tasks) /\ Len(rest) = Len(lockq) - 1
      /\ \A i \in 1 .. Len(rest) : rest[i] = lockq[i + 1]
      /\ Len(lockq) >= 1 /\ Len(lockq) \in Nat
  BY HeadTailProperties DEF Advances
<1>2. /\ DOMAIN lockq = 1 .. Len(lockq) /\ DOMAIN rest = 1 .. Len(lockq) - 1
      /\ Head(lockq) = lockq[1]
  BY <1>1 DEF Advances
<1>3. lockq' = rest \/ \E task \in Tasks : task.kind = "record" /\ lockq' = Append(rest, task)
  BY DEF Advances
<1> HIDE DEF rest
<1>4. CASE lockq' = rest
  BY <1>1, <1>2, <1>4
<1>5. CASE \E task \in Tasks : task.kind = "record" /\ lockq' = Append(rest, task)
  <2>1. PICK task \in Tasks : task.kind = "record" /\ lockq' = Append(rest, task)
    BY <1>5
  <2>2. /\ DOMAIN lockq' = 1 .. Len(lockq) /\ lockq'[Len(lockq)] = task
        /\ \A i \in 1 .. Len(lockq) - 1 : lockq'[i] = rest[i]
    BY <1>1, <2>1
  <2>3. QED  BY <1>1, <1>2, <2>1, <2>2
<1>6. QED  BY <1>3, <1>4, <1>5

\* It advances past one that is not the hook of a start, or past that hook.
LEMMA LineAdvances ==
    ASSUME InLine, lockq \in Seq(Tasks), Advances,
           IF Head(lockq).kind = "hook" THEN server' \in {"RUNNING", "STOPPED"} ELSE UNCHANGED server
    PROVE  InLine'
<1>1. /\ \A i \in DOMAIN lockq' : \/ i + 1 \in DOMAIN lockq /\ lockq'[i] = lockq[i + 1]
                                  \/ lockq'[i].kind = "record"
      /\ \A i \in DOMAIN lockq : i # 1 => i - 1 \in DOMAIN lockq' /\ lockq'[i - 1] = lockq[i]
      /\ DOMAIN lockq \subseteq Nat /\ DOMAIN lockq' \subseteq Nat
      /\ 1 \in DOMAIN lockq /\ Head(lockq) = lockq[1]
  BY Advanced
<1>2. CASE lockq[1].kind = "hook"
  <2>1. \A i \in DOMAIN lockq : lockq[i].kind \in {"hook", "tick"} => i = 1
    BY <1>1, <1>2 DEF InLine
  <2>2. \A i \in DOMAIN lockq' : lockq'[i].kind \notin {"hook", "tick"}
    <3>1. SUFFICES ASSUME NEW i \in DOMAIN lockq', lockq'[i].kind \in {"hook", "tick"}
                   PROVE  FALSE
      OBVIOUS
    <3>2. i \in Nat /\ i + 1 \in DOMAIN lockq /\ lockq'[i] = lockq[i + 1]
      BY <1>1, <3>1
    <3>3. i + 1 = 1
      BY <2>1, <3>1, <3>2
    <3>4. QED  BY <3>2, <3>3
  <2>3. QED  BY <1>1, <1>2, <2>2 DEF InLine
<1>3. CASE lockq[1].kind # "hook"
  <2>1. UNCHANGED server
    BY <1>1, <1>3
  <2>2. (\E i \in DOMAIN lockq' : lockq'[i].kind = "hook") <=> \E i \in DOMAIN lockq : lockq[i].kind = "hook"
    BY <1>1, <1>3
  <2>3. \A i, j \in DOMAIN lockq' : lockq'[i].kind = "hook" /\ lockq'[j].kind = "hook" => i = j
    <3>1. SUFFICES ASSUME NEW i \in DOMAIN lockq', NEW j \in DOMAIN lockq',
                          lockq'[i].kind = "hook", lockq'[j].kind = "hook"
                   PROVE  i = j
      OBVIOUS
    <3>2. /\ i + 1 \in DOMAIN lockq /\ lockq[i + 1].kind = "hook" /\ i \in Nat
          /\ j + 1 \in DOMAIN lockq /\ lockq[j + 1].kind = "hook" /\ j \in Nat
      BY <1>1, <3>1
    <3>3. i + 1 = j + 1
      BY <3>2 DEF InLine
    <3>4. QED  BY <3>2, <3>3
  <2>4. \A i, j \in DOMAIN lockq' : lockq'[i].kind = "tick" /\ lockq'[j].kind = "hook" => i < j
    <3>1. SUFFICES ASSUME NEW i \in DOMAIN lockq', NEW j \in DOMAIN lockq',
                          lockq'[i].kind = "tick", lockq'[j].kind = "hook"
                   PROVE  i < j
      OBVIOUS
    <3>2. /\ i + 1 \in DOMAIN lockq /\ lockq[i + 1].kind = "tick" /\ i \in Nat
          /\ j + 1 \in DOMAIN lockq /\ lockq[j + 1].kind = "hook" /\ j \in Nat
      BY <1>1, <3>1
    <3>3. i + 1 < j + 1
      BY <3>2 DEF InLine
    <3>4. QED  BY <3>2, <3>3
  <2>5. \A i \in DOMAIN lockq' : lockq'[i].kind = "tick" => server # "RUNNING"
    BY <1>1 DEF InLine
  <2>6. QED  BY <2>1, <2>2, <2>3, <2>4, <2>5 DEF InLine
<1>4. QED  BY <1>2, <1>3

\* Someone joins it: the hook of a start, an application, or anyone else.
LEMMA LineGrows ==
    ASSUME InLine, lockq \in Seq(Tasks), NEW task \in Tasks, lockq' = Append(lockq, task),
           CASE task.kind = "hook" -> server \notin {"STARTING", "RUNNING"} /\ server' = "STARTING"
             [] task.kind = "tick" -> server = "STOPPED" /\ UNCHANGED server
             [] OTHER -> UNCHANGED server
    PROVE  InLine'
<1>1. /\ DOMAIN lockq = 1 .. Len(lockq) /\ Len(lockq) \in Nat
      /\ DOMAIN lockq' = 1 .. Len(lockq) + 1 /\ lockq'[Len(lockq) + 1] = task
      /\ \A i \in 1 .. Len(lockq) : lockq'[i] = lockq[i]
  OBVIOUS
<1>2. CASE task.kind = "hook"
  <2>1. server = server /\ server # "STARTING" /\ server # "RUNNING" /\ server' = "STARTING"
    BY <1>2
  <2>2. \A i \in 1 .. Len(lockq) : lockq[i].kind # "hook"
    BY <1>1, <2>1 DEF InLine
  <2>3. QED  BY <1>1, <1>2, <2>1, <2>2 DEF InLine
<1>3. CASE task.kind = "tick"
  <2>1. server = "STOPPED" /\ UNCHANGED server
    BY <1>3
  <2>2. \A i \in 1 .. Len(lockq) : lockq[i].kind # "hook"
    BY <1>1, <2>1 DEF InLine
  <2>3. \A i \in 1 .. Len(lockq) + 1 : lockq'[i].kind # "hook"
    BY <1>1, <1>3, <2>2
  <2>4. QED  BY <1>1, <2>1, <2>3 DEF InLine
<1>4. CASE task.kind \notin {"hook", "tick"}
  <2>1. UNCHANGED server
    BY <1>4
  <2>2. QED  BY <1>1, <1>4, <2>1 DEF InLine
<1>5. QED  BY <1>2, <1>3, <1>4


\* Who is done goes out of the line: all but the hook leave the server alone.
LEMMA LineAtEnd ==
    ASSUME Held, Line, op' = None, Advances,
           IF Head(lockq).kind = "hook" THEN server' \in {"RUNNING", "STOPPED"} ELSE UNCHANGED server
    PROVE  Line'
<1>1. InLine'
  BY TypeParts, LineAdvances DEF Line, Held, Lock
<1>2. QED  BY <1>1 DEF Line, Syncing

LEMMA LineKept ==
    ASSUME Held, Line, [Next]_vars
    PROVE  Line'
<1>a. /\ lockq \in Seq(Tasks) /\ Lock /\ WorkIsKnown
      /\ server \in {"STOPPED", "STARTING", "RUNNING"}
  BY TypeParts DEF Held, Lock, World
<1>b. ASSUME UNCHANGED <<server, lockq>>,
             Syncing' /\ op'.pc = "apply" => (Syncing /\ op.pc = "apply") \/ server = "STOPPED"
      PROVE  Line'
  BY <1>b DEF Line, InLine
<1>1. CASE Sync
  <2>1. Owns("sync") /\ lockq # <<>> /\ Head(lockq).kind # "hook" /\ UNCHANGED server
    BY <1>1 DEF Sync, SyncRead, FetchFails, Fetch, InspectFails, MakePlan, DownloadFails, Settle,
                SyncApply, SyncApplyFails, Owns
  <2>2. CASE Release
    BY <2>1, <2>2, LineAtEnd DEF Release, Advances
  <2>3. CASE ~Release
    <3>1. UNCHANGED lockq
      BY <1>1, <2>3 DEF Sync, SyncRead, FetchFails, Fetch, InspectFails, MakePlan, DownloadFails,
                        Settle, SyncApply, SyncApplyFails, CommitRead, CommitSync
    <3>2. CASE SyncRead
      <4>1. op'.pc = "fetch"
        BY <2>3, <3>2 DEF SyncRead
      <4>2. QED  BY <1>b, <2>1, <3>1, <4>1
    <3>3. CASE Fetch
      <4>1. op \in SyncOp
        BY <3>3, <1>a, InHand DEF Fetch, Syncing
      <4>2. op'.pc = "inspect"
        <5>1. PICK answer \in IF row.src = op.snap.src THEN {Announced}
                              ELSE {Answer(m, {}) : m \in Manifests} :
                LET same == Listed(op.snap.entries) # {} /\ op.snap.etag = answer
                IN  op' = [op EXCEPT
                       !.pc = "inspect", !.fresh = ~same,
                       !.entries = Under(op.snap.wide, IF same THEN op.snap.entries ELSE answer),
                       !.local = ScanLocal(op.snap.wide),
                       !.new.etag = IF same THEN op.snap.etag ELSE answer]
          BY <2>3, <3>3 DEF Fetch
        <5>2. QED  BY <4>1, <5>1 DEF SyncOp
      <4>3. QED  BY <1>b, <2>1, <3>1, <4>2
    <3>4. CASE MakePlan
      <4>1. op \in SyncOp /\ op' = [op EXCEPT !.pc = "download", !.plan = Made, !.new = Noted]
        BY <2>3, <3>4, <1>a, MakePlanEffect, InHand DEF Release
      <4>2. op'.pc = "download"
        BY <4>1 DEF SyncOp
      <4>3. QED  BY <1>b, <2>1, <3>1, <4>2
    <3>5. CASE Settle
      <4>1. server = "STOPPED"
        BY <2>3, <3>5 DEF Settle, CommitRead, CommitSync
      <4>2. QED  BY <1>b, <2>1, <3>1, <4>1
    <3>6. QED
      BY <1>1, <2>3, <3>2, <3>3, <3>4, <3>5
         DEF Sync, FetchFails, InspectFails, DownloadFails, SyncApply, SyncApplyFails, CommitRead,
             CommitSync
  <2>4. QED  BY <2>2, <2>3
<1>2. CASE Apply
  <2>1. Applier /\ lockq # <<>>
    BY <1>2 DEF Apply, ApplyRead, Swap, SwapFails, Applier, Owns
  <2>2. ASSUME NEW queue, Launch(queue)
        PROVE  /\ lockq' = queue /\ op' = None
               /\ IF Head(lockq).kind = "hook" THEN server' \in {"RUNNING", "STOPPED"}
                                               ELSE UNCHANGED server
    BY <2>1, <2>2 DEF Launch, Owns
  <2>3. CASE ApplyRead
    <3>1. CASE Launch(Tail(lockq))
      BY <2>1, <2>2, <3>1, LineAtEnd DEF Advances
    <3>2. CASE UNCHANGED <<lockq, server, writer>>
      BY <2>1, <3>2, <1>b DEF Syncing, Applier, Owns
    <3>3. QED  BY <2>3, <3>1, <3>2 DEF ApplyRead
  <2>4. CASE Swap
    <3>1. op \in SwapOp
      BY <2>4, <1>a, InHand DEF Swap, Swapping
    <3> DEFINE complete == Staged(op.plan) \subseteq staging
               by == IF Owns("hook") THEN "task" ELSE "loop"
               task == [Task("record", by) EXCEPT !.plan = IF complete THEN op.plan ELSE None]
    <3>2. task \in Tasks /\ task.kind = "record"
      BY <3>1 DEF Task, Tasks, SwapOp
    <3>3. Launch(Append(Tail(lockq), task))
      BY <2>4 DEF Swap
    <3> HIDE DEF task
    <3>4. /\ lockq' = Append(Tail(lockq), task) /\ op' = None
          /\ IF Head(lockq).kind = "hook" THEN server' \in {"RUNNING", "STOPPED"}
                                          ELSE UNCHANGED server
      BY <2>2, <3>3
    <3>5. Advances
      BY <2>1, <3>2, <3>4 DEF Advances
    <3>6. QED  BY <3>4, <3>5, LineAtEnd
  <2>5. CASE SwapFails
    BY <2>1, <2>2, <2>5, LineAtEnd DEF Advances, SwapFails
  <2>6. QED  BY <1>2, <2>3, <2>4, <2>5 DEF Apply
<1>3. CASE Busy \/ RecordApplied
  <2>1. lockq # <<>> /\ Head(lockq).kind # "hook" /\ UNCHANGED server /\ Release
    BY <1>3 DEF Busy, RecordApplied, Owns
  <2>2. QED  BY <2>1, LineAtEnd DEF Release, Advances
<1>4. CASE Push
  <2>1. CASE PushRead
    <3>1. /\ lockq = <<>> /\ lockq' = <<Task("push", "push")>> /\ UNCHANGED server
          /\ ~Syncing' /\ Task("push", "push").kind = "push"
      BY <2>1, <1>a, PushBegins, LockTaken DEF Task
    <3>2. DOMAIN lockq = {} /\ DOMAIN lockq' = {1} /\ lockq'[1].kind = "push"
      BY <3>1
    <3>3. QED  BY <3>1, <3>2 DEF Line, InLine
  <2>2. CASE PushSend \/ PushFails
    BY <2>2, PushSent, <1>b DEF PushSend, PushFails
  <2>3. CASE PushSave
    <3>1. lockq # <<>> /\ Head(lockq).kind # "hook" /\ UNCHANGED server /\ Release
      BY <2>3 DEF PushSave, Owns
    <3>2. QED  BY <3>1, LineAtEnd DEF Release, Advances
  <2>4. QED  BY <1>4, <2>1, <2>2, <2>3 DEF Push
<1>5. ASSUME NEW task \in Tasks, task.kind # "push", Ask(task), UNCHANGED op,
             CASE task.kind = "hook" -> server \notin {"STARTING", "RUNNING"} /\ server' = "STARTING"
               [] task.kind = "tick" -> server = "STOPPED" /\ UNCHANGED server
               [] OTHER -> UNCHANGED server
      PROVE  Line'
  <2>1. InLine'
    BY <1>5, <1>a, LineGrows DEF Line, Ask
  <2>2. Stays
    BY <1>5, <1>a, LockAsked
  <2>3. server' = "RUNNING" => server = "RUNNING"
    <3>1. CASE task.kind = "hook"
      BY <1>5, <3>1
    <3>2. CASE task.kind = "tick"
      BY <1>5, <3>2
    <3>3. CASE task.kind \notin {"hook", "tick"}
      BY <1>5, <3>3
    <3>4. QED  BY <3>1, <3>2, <3>3
  <2>4. QED  BY <2>1, <2>2, <2>3 DEF Line, Stays
<1>6. CASE Loop \/ Requested \/ Automatic \/ \E mass \in BOOLEAN : SyncNow(mass)
  <2>1. /\ Task("sync", "loop") \in Tasks /\ Task("sync", "loop").kind = "sync"
        /\ Task("tick", "loop") \in Tasks /\ Task("tick", "loop").kind = "tick"
        /\ Task("hook", "start") \in Tasks /\ Task("hook", "start").kind = "hook"
        /\ \A mass \in BOOLEAN : /\ [Task("sync", "user") EXCEPT !.mass = mass] \in Tasks
                                 /\ [Task("sync", "user") EXCEPT !.mass = mass].kind = "sync"
    BY DEF Task, Tasks
  <2>2. CASE LoopSync
    <3>1. Ask(Task("sync", "loop")) /\ UNCHANGED <<op, server>>
      BY <2>2 DEF LoopSync, asking
    <3>2. QED  BY <2>1, <3>1, <1>5
  <2>3. CASE LoopApply
    <3>1. Ask(Task("tick", "loop")) /\ UNCHANGED <<op, server>> /\ server = "STOPPED"
      BY <2>3 DEF LoopApply, asking
    <3>2. QED  BY <2>1, <3>1, <1>5
  <2>4. CASE Requested \/ Automatic
    <3>1. Ask(Task("hook", "start")) /\ UNCHANGED op /\ server = "STOPPED" /\ server' = "STARTING"
      BY <2>4 DEF Requested, Automatic, Start
    <3>2. QED  BY <2>1, <3>1, <1>5
  <2>5. CASE \E mass \in BOOLEAN : SyncNow(mass)
    <3>1. PICK mass \in BOOLEAN : SyncNow(mass)
      BY <2>5
    <3>2. Ask([Task("sync", "user") EXCEPT !.mass = mass]) /\ UNCHANGED <<op, server>>
      BY <3>1 DEF SyncNow
    <3>3. QED  BY <2>1, <3>2, <1>5
  <2>6. QED  BY <1>6, <2>2, <2>3, <2>4, <2>5 DEF Loop
<1>7. CASE Exit
  <2>1. server = "RUNNING" /\ server' = "STOPPED" /\ UNCHANGED <<lockq, op>>
    BY <1>7 DEF Exit
  <2>2. QED  BY <2>1 DEF Line, InLine
<1>8. CASE Crash
  <2>1. lockq' = <<>> /\ op' = None /\ server' = IF server = "STARTING" THEN "STOPPED" ELSE server
    BY <1>8 DEF Crash
  <2>2. DOMAIN lockq' = {} /\ server' # "STARTING"
    BY <2>1
  <2>3. QED  BY <2>1, <2>2 DEF Line, InLine, Syncing
<1>9. CASE User /\ ~\E mass \in BOOLEAN : SyncNow(mass)
  <2>1. UNCHANGED <<server, lockq, op>>
    BY <1>9 DEF User, Routes, FileRoutes, Link, Configure, Remove, SetSide, Toggle, Upload,
                DeleteFile, Publish
  <2>2. QED  BY <2>1, <1>b DEF Syncing, Owns
<1>10. CASE UNCHANGED vars
  BY <1>10, <1>b DEF vars, Syncing, Owns
<1>11. QED
  BY <1>1, <1>2, <1>3, <1>4, <1>6, <1>7, <1>8, <1>9, <1>10 DEF Next, Holder, Process

\* NoSwapUnderTheServer: while the process runs no plan touches the folder, whatever
\* the order in which starts, applications and synchronisations got the lock.
THEOREM NoSwapUnderTheServerCorrect == Spec => NoSwapUnderTheServer
<1>1. Init => Line
  BY DEF Init, Line, InLine, Syncing, Owns
<1>2. Held /\ Line /\ [Next]_vars => Held' /\ Line'
  BY HeldKept, LineKept
<1>3. Held /\ Line /\ [Next]_vars => [files' # files /\ acts' = acts => server # "RUNNING"]_vars
  <2>1. SUFFICES ASSUME Held, Line, Next, files' # files, acts' = acts
                 PROVE  server # "RUNNING"
    OBVIOUS
  <2>2. acts # acts + 1
    BY <2>1, TypeParts, LauncherAssumption DEF Held, World
  <2>3. \/ Owns("sync") /\ op # None /\ op.pc = "apply"
        \/ Applier
    BY <2>1, <2>2
       DEF Next, Holder, Busy, Sync, SyncRead, FetchFails, Fetch, InspectFails, MakePlan,
           DownloadFails, Settle, SyncApply, SyncApplyFails, Apply, ApplyRead, Swap, SwapFails,
           RecordApplied, Push, PushRead, PushSend, PushFails, PushSave, Loop, LoopSync,
           LoopApply, asking, Process, Requested, Automatic, Start, Exit, User, Routes, Link, Configure, Remove,
           SyncNow, SetSide, FileRoutes, Toggle, Upload, DeleteFile, Publish, Crash, Act
  <2>4. Owns("hook") => server = "STARTING"
    <3>1. Owns("hook") => 1 \in DOMAIN lockq /\ lockq[1].kind = "hook"
      BY <2>1, TypeParts DEF Owns, Held, Lock
    <3>2. QED  BY <2>1, <3>1 DEF Line, InLine
  <2>5. Owns("tick") => server # "RUNNING"
    <3>1. Owns("tick") => 1 \in DOMAIN lockq /\ lockq[1].kind = "tick"
      BY <2>1, TypeParts DEF Owns, Held, Lock
    <3>2. QED  BY <2>1, <3>1 DEF Line, InLine
  <2>6. QED  BY <2>1, <2>3, <2>4, <2>5 DEF Applier, Line, Syncing
<1>4. QED  BY HeldBegins, <1>1, <1>2, <1>3, PTL DEF Spec, NoSwapUnderTheServer

-----------------------------------------------------------------------------
(***************************************************************************)
(* Where the plans come from: one that waits was being carried out, one    *)
(* that is carried out waited or has just been made.                       *)
(***************************************************************************)
\* The link is the same one, or a new one without a plan.
RowMoves ==
    row' # None =>
       \/ row # None /\ row'.id = row.id /\ row'.plan \in {row.plan, None}
       \/ /\ Syncing /\ op.pc = "download" /\ row # None /\ row'.id = row.id
          /\ row'.plan = op.plan
       \/ row'.id = acts + 1 /\ row'.plan = None

OpMoves ==
    op' # None =>
       \/ op'.plan = None
       \/ Syncing /\ op.pc \in {"download", "apply"} /\ Syncing' /\ op'.plan = op.plan
       \/ Swapping /\ Swapping' /\ op'.plan = op.plan /\ op'.id = op.id
       \/ /\ Swapping' /\ row # None /\ op'.plan = row.plan /\ op'.id = row.id
          /\ UNCHANGED <<row, ours, overlaid, offs>>
       \/ /\ Syncing /\ op.pc = "inspect" /\ Syncing' /\ op'.plan = Made
          /\ UNCHANGED <<row, ours, overlaid, offs>>

\* The entries read are those of the folders synchronised, and so is what is read of the
\* folder.
EntriesMove ==
    Syncing' /\ op'.pc = "inspect" =>
       \/ Syncing /\ op' = op
       \/ /\ \E entries \in Entries : op'.entries = Under(op'.snap.wide, entries)
          /\ op'.local = ScanLocal(op'.snap.wide)
          /\ UNCHANGED <<files, history>>

LEMMA OpRests ==
    ASSUME op' = None
    PROVE  OpMoves /\ EntriesMove
  BY DEF OpMoves, EntriesMove, Syncing

LEMMA RowRests ==
    ASSUME Held, UNCHANGED row
    PROVE  RowMoves
  BY DEF RowMoves

\* The work in hand goes on as it was.
LEMMA OpStays ==
    ASSUME Held, Stays
    PROVE  OpMoves /\ EntriesMove
<1>1. op # None => \/ Syncing \/ Swapping \/ op.plan = None
  <2>1. lockq # <<>> => Head(lockq).kind \in {"sync", "hook", "tick", "record", "push"}
    <3>1. lockq # <<>> => Head(lockq) \in Tasks
      BY TypeParts DEF Held, Lock
    <3>2. QED  BY <3>1 DEF Tasks
  <2>2. Owns("push") => op.plan = None
    BY InHand, TypeParts DEF Held, Pushing, PushOp
  <2>3. QED
    BY <2>1, <2>2, TypeParts DEF Held, Lock, Holds, Owns, Applier, Syncing, Swapping
<1>2. Syncing => op.plan = None \/ op.pc \in {"download", "apply"}
  BY InHand, TypeParts DEF Held, WorkIsKnown, SyncInHand, SyncOp
<1>3. QED  BY <1>1, <1>2 DEF Stays, OpMoves, EntriesMove

LEMMA SyncMoves ==
    ASSUME Held, Sync
    PROVE  RowMoves /\ OpMoves /\ EntriesMove
<1>a. Lock /\ WorkIsKnown /\ row \in Row \cup {None} /\ Owns("sync")
  BY TypeParts DEF Held, Sync, SyncRead, FetchFails, Fetch, InspectFails, MakePlan,
                  DownloadFails, Settle, SyncApply, SyncApplyFails
<1>b. Syncing => op \in SyncOp /\ SyncInHand /\ op.snap \in Row /\ op.new \in Row /\ op.new.plan = op.snap.plan
  BY <1>a, InHand DEF SyncOp, WorkIsKnown, SyncInHand, SyncKeeps
<1>1. CASE SyncRead
  BY <1>1, RowRests, OpRests DEF SyncRead, Release, RowMoves, OpMoves, EntriesMove
<1>2. CASE FetchFails
  <2>1. Syncing /\ op.pc = "fetch" /\ op.new = op.snap /\ op' = None
    BY <1>2, <1>b DEF FetchFails, Syncing, SyncInHand, CommitSync, Release
  <2>2. row' # None => row # None /\ row'.id = row.id /\ row'.plan = row.plan
    <3>1. CASE SameRow /\ Commit(op.new)
      BY <1>a, <1>b, <2>1, <3>1, CommitColumns DEF SameRow
    <3>2. CASE UNCHANGED row
      BY <3>2
    <3>3. QED  BY <1>2, <3>1, <3>2 DEF FetchFails, CommitSync
  <2>3. QED  BY <2>1, <2>2, OpRests DEF RowMoves
<1>3. CASE Fetch
  <2>1. Syncing /\ op.plan = None /\ op \in SyncOp /\ op.new = op.snap /\ op.snap \in Row /\ UNCHANGED row
    BY <1>3, <1>b DEF Fetch, Syncing, SyncInHand
  <2>2. CASE op' = None
    BY <2>1, <2>2, OpRests, RowRests
  <2>3. CASE op' # None
    <3>1. PICK answer \in IF row.src = op.snap.src THEN {Announced}
                          ELSE {Answer(m, {}) : m \in Manifests} :
            LET same == Listed(op.snap.entries) # {} /\ op.snap.etag = answer
            IN  op' = [op EXCEPT
                   !.pc = "inspect", !.fresh = ~same,
                   !.entries = Under(op.snap.wide, IF same THEN op.snap.entries ELSE answer),
                   !.local = ScanLocal(op.snap.wide),
                   !.new.etag = IF same THEN op.snap.etag ELSE answer]
      BY <1>3, <2>3 DEF Fetch, Release
    <3>2. answer \in Entries
      BY <3>1, AnswerType, TypeParts DEF Announced, Held, World
    <3>3. PICK same \in BOOLEAN :
            op' = [op EXCEPT
                   !.pc = "inspect", !.fresh = ~same,
                   !.entries = Under(op.snap.wide, IF same THEN op.snap.entries ELSE answer),
                   !.local = ScanLocal(op.snap.wide),
                   !.new.etag = IF same THEN op.snap.etag ELSE answer]
      BY <3>1
    <3> DEFINE read == IF same THEN op.snap.entries ELSE answer
    <3>4. read \in Entries
      BY <2>1, <3>2 DEF Row
    <3>5. /\ op'.plan = None /\ op'.snap = op.snap /\ op'.entries = Under(op.snap.wide, read)
          /\ op'.local = ScanLocal(op.snap.wide) /\ UNCHANGED <<files, history>>
      BY <1>3, <2>1, <3>3 DEF SyncOp, Fetch
    <3> HIDE DEF read
    <3>6. QED  BY <2>1, <3>4, <3>5, RowRests DEF OpMoves, EntriesMove
  <2>4. QED  BY <2>2, <2>3
<1>4. CASE InspectFails
  <2>1. Syncing /\ op.pc = "inspect" /\ Commit(op.new) /\ op' = None
    BY <1>4 DEF InspectFails, Syncing, CommitSync, Release
  <2>2. row # None /\ row'.id = row.id /\ row'.plan = row.plan
    BY <1>a, <1>b, <2>1, CommitColumns DEF SyncInHand, SameRow, SyncKeeps
  <2>3. QED  BY <2>1, <2>2, OpRests DEF RowMoves
<1>5. CASE MakePlan
  <2>1. /\ Syncing /\ op.pc = "inspect" /\ UNCHANGED <<ours, overlaid, offs>>
        /\ \/ Written(op.entries, {None}) /\ op' = None
           \/ /\ op' = [op EXCEPT !.pc = "download", !.plan = Made, !.new = Noted]
              /\ UNCHANGED <<row, lockq>>
    BY <1>5, MakePlanEffect
  <2>2. CASE Written(op.entries, {None}) /\ op' = None
    BY <2>2, OpRests DEF RowMoves, Written, SameColumns
  <2>3. CASE /\ op' = [op EXCEPT !.pc = "download", !.plan = Made, !.new = Noted]
             /\ UNCHANGED <<row, lockq>>
    <3>1. op'.pc = "download" /\ op'.plan = Made
      BY <1>b, <2>1, <2>3 DEF SyncOp
    <3>2. op' # None => Syncing'
      BY <2>1, <2>3 DEF Syncing, Owns
    <3>3. QED  BY <2>1, <2>3, <3>1, <3>2, RowRests DEF OpMoves, EntriesMove
  <2>4. QED  BY <2>1, <2>2, <2>3
<1>6. CASE DownloadFails
  <2>1. Syncing /\ op.pc = "download" /\ CommitRead(op.new)
    BY <1>6 DEF DownloadFails, Syncing
  <2>2. op.new.plan \in Plans \cup {None}
    BY <1>b, <2>1 DEF Row
  <2>3. Written(op.new.entries, {op.new.plan}) /\ row'.plan = row.plan /\ op' = None
    BY <1>b, <2>1, <2>2, EndWrites
  <2>4. QED  BY <2>3, OpRests DEF RowMoves, Written, SameColumns
<1>7. CASE Settle
  <2>1. Syncing /\ op.pc = "download"
    BY <1>7 DEF Settle, Syncing
  <2>2. op \in SyncOp /\ op.plan \in Plans /\ None \in Plans \cup {None}
    BY <1>b, <2>1 DEF SyncInHand
  <2>3. CASE CommitRead([op.new EXCEPT !.plan = None])
    <3>1. Written(op.new.entries, {None}) /\ op' = None
      BY <2>1, <2>2, <2>3, EndWrites
    <3>2. QED  BY <3>1, OpRests DEF RowMoves, Written, SameColumns
  <2>4. CASE CommitRead([op.new EXCEPT !.plan = op.plan])
    <3>1. Written(op.new.entries, {op.plan}) /\ op' = None
      BY <2>1, <2>2, <2>4, EndWrites
    <3>2. QED  BY <2>1, <3>1, OpRests DEF RowMoves, Written, SameColumns
  <2>5. CASE op' = [op EXCEPT !.pc = "apply"] /\ UNCHANGED <<row, lockq>>
    <3>1. op'.pc = "apply" /\ op'.plan = op.plan
      BY <2>2, <2>5 DEF SyncOp
    <3>2. op' # None => Syncing'
      BY <2>1, <2>5 DEF Syncing, Owns
    <3>3. QED  BY <2>1, <2>5, <3>1, <3>2, RowRests DEF OpMoves, EntriesMove
  <2>6. QED  BY <1>7, <2>3, <2>4, <2>5 DEF Settle
<1>8. CASE SyncApply
  <2>1. Syncing /\ op.pc = "apply" /\ CommitRead([op.new EXCEPT !.plan = None])
    BY <1>8 DEF SyncApply, Syncing
  <2>2. None \in Plans \cup {None}
    OBVIOUS
  <2>3. Written(op.new.entries, {None}) /\ op' = None
    BY <2>1, <2>2, EndWrites
  <2>4. QED  BY <2>3, OpRests DEF RowMoves, Written, SameColumns
<1>9. CASE SyncApplyFails
  <2>1. Syncing /\ op.pc = "apply" /\ CommitRead(op.new)
    BY <1>9 DEF SyncApplyFails, Syncing
  <2>2. op.new.plan \in Plans \cup {None}
    BY <1>b, <2>1 DEF Row
  <2>3. Written(op.new.entries, {op.new.plan}) /\ row'.plan = row.plan /\ op' = None
    BY <1>b, <2>1, <2>2, EndWrites
  <2>4. QED  BY <2>3, OpRests DEF RowMoves, Written, SameColumns
<1>10. QED
  BY <1>1, <1>2, <1>3, <1>4, <1>5, <1>6, <1>7, <1>8, <1>9 DEF Sync

\* What is asked of the lock leaves what is in hand.
LEMMA AsksStay ==
    ASSUME Held, Loop \/ Process \/ \E mass \in BOOLEAN : SyncNow(mass)
    PROVE  Stays
<1>a. Lock
  BY TypeParts DEF Held
<1>1. \A kind \in {"sync", "hook", "tick"} : \A by \in {"loop", "user", "start"} : \A mass \in BOOLEAN :
         /\ Task(kind, by) \in Tasks /\ [Task(kind, by) EXCEPT !.mass = mass] \in Tasks
         /\ Task(kind, by).kind # "push" /\ [Task(kind, by) EXCEPT !.mass = mass].kind # "push"
  BY DEF Task, Tasks
<1>2. CASE Exit
  BY <1>2, <1>a, LockStays DEF Exit
<1>3. CASE \E mass \in BOOLEAN : SyncNow(mass)
  <2>1. PICK mass \in BOOLEAN : SyncNow(mass)
    BY <1>3
  <2>2. Ask([Task("sync", "user") EXCEPT !.mass = mass]) /\ UNCHANGED op
    BY <2>1 DEF SyncNow
  <2>3. QED  BY <1>1, <2>2, <1>a, LockAsked
<1>4. CASE Loop
  <2>1. UNCHANGED op /\ (Ask(Task("sync", "loop")) \/ Ask(Task("tick", "loop")))
    BY <1>4 DEF Loop, LoopSync, LoopApply, asking
  <2>2. QED  BY <1>1, <2>1, <1>a, LockAsked
<1>5. CASE Requested \/ Automatic
  <2>1. UNCHANGED op /\ Ask(Task("hook", "start"))
    BY <1>5 DEF Requested, Automatic, Start
  <2>2. QED  BY <1>1, <2>1, <1>a, LockAsked
<1>6. QED  BY <1>2, <1>3, <1>4, <1>5 DEF Process

LEMMA PlansMove ==
    ASSUME Held, [Next]_vars
    PROVE  RowMoves /\ OpMoves /\ EntriesMove
<1>a. Lock /\ WorkIsKnown /\ row \in Row \cup {None}
  BY TypeParts DEF Held
<1>1. CASE Sync
  BY <1>1, SyncMoves
<1>2. CASE Apply
  <2>1. CASE op' = None
    BY <1>2, <2>1, OpRests, RowRests DEF Apply, ApplyRead, Swap, SwapFails
  <2>2. CASE op' # None
    <3>1. /\ Applier /\ row # None /\ UNCHANGED <<row, lockq, ours, overlaid, offs>>
          /\ op' = [pc |-> "swap", plan |-> row.plan, id |-> row.id]
      BY <1>2, <2>2 DEF Apply, ApplyRead, Swap, SwapFails, Launch, history
    <3>2. Swapping' /\ ~Syncing' /\ op'.plan = row.plan /\ op'.id = row.id
      BY <2>2, <3>1 DEF Swapping, Syncing, Applier, Owns
    <3>3. QED  BY <3>1, <3>2, RowRests DEF OpMoves, EntriesMove
  <2>3. QED  BY <2>1, <2>2
<1>3. CASE RecordApplied
  <2>1. op' = None /\ row' = IF row = None THEN None ELSE [row EXCEPT !.plan = None]
    BY <1>3 DEF RecordApplied, Release
  <2>2. row' # None => row # None /\ row'.id = row.id /\ row'.plan = None
    BY <2>1, <1>a DEF Row
  <2>3. QED  BY <2>1, <2>2, OpRests DEF RowMoves
<1>4. CASE Push
  <2>1. CASE PushRead
    <3>1. UNCHANGED row /\ op' \in PushOp /\ ~Syncing'
      BY <2>1, <1>a, PushBegins, LockTaken
    <3>2. QED  BY <3>1, RowRests DEF OpMoves, EntriesMove, PushOp
  <2>2. CASE PushSend \/ PushFails
    <3>1. UNCHANGED row /\ op' \in PushOp /\ ~Syncing'
      BY <2>2, PushSent DEF PushSend, PushFails
    <3>2. QED  BY <3>1, RowRests DEF OpMoves, EntriesMove, PushOp
  <2>3. CASE PushSave
    <3>1. op' = None /\ Pushing /\ ((row # None /\ Commit(op.new)) \/ UNCHANGED row)
      BY <2>3 DEF PushSave, Release, SameRow, Pushing
    <3>2. QED  BY <3>1, PushWrites, OpRests, RowRests DEF RowMoves
  <2>4. QED  BY <1>4, <2>1, <2>2, <2>3 DEF Push
<1>5. CASE Busy \/ Crash
  BY <1>5, OpRests, RowRests DEF Busy, Release, Crash
<1>6. CASE Loop \/ Process \/ \E mass \in BOOLEAN : SyncNow(mass)
  <2>1. UNCHANGED row
    BY <1>6 DEF Loop, LoopSync, LoopApply, asking, Process, Requested, Automatic, Start, Exit, SyncNow
  <2>2. Stays
    BY <1>6, AsksStay
  <2>3. QED  BY <2>1, <2>2, OpStays, RowRests
<1>7. CASE User /\ ~\E mass \in BOOLEAN : SyncNow(mass)
  <2>1. UNCHANGED <<lockq, op>>
    BY <1>7 DEF User, Routes, FileRoutes, Link, Configure, Remove, SetSide, Toggle, Upload,
                DeleteFile, Publish
  <2>2. OpMoves /\ EntriesMove
    BY <2>1, <1>a, LockStays, OpStays
  <2>3. RowMoves
    <3>1. ASSUME NEW token \in BOOLEAN, Link(token) PROVE RowMoves
      BY <3>1 DEF Link, NewRow, RowMoves
    <3>2. ASSUME NEW r \in Requests, Configure(r) PROVE RowMoves
      BY <3>2, Configured DEF Held, RowMoves
    <3>3. ASSUME NEW p \in Paths, NEW side \in Overrides, SetSide(p, side) PROVE RowMoves
      BY <3>3, <1>a DEF SetSide, RowMoves, Row
    <3>4. CASE Remove
      BY <3>4 DEF Remove, RowMoves
    <3>5. CASE FileRoutes \/ \E m \in Manifests : Publish(m)
      BY <3>5, RowRests DEF FileRoutes, Toggle, Upload, DeleteFile, Publish
    <3>6. QED  BY <1>7, <3>1, <3>2, <3>3, <3>4, <3>5 DEF User, Routes
  <2>4. QED  BY <2>2, <2>3
<1>8. CASE UNCHANGED vars
  BY <1>8, <1>a, LockStays, OpStays, RowRests DEF vars
<1>9. QED
  BY <1>1, <1>2, <1>3, <1>4, <1>5, <1>6, <1>7, <1>8 DEF Next, Holder

-----------------------------------------------------------------------------
(***************************************************************************)
(* A mod disabled while no plan was under way: every plan made since       *)
(* leaves it disabled.                                                     *)
(***************************************************************************)
Spares(plan, mods) == \A p \in DOMAIN plan.installs \cap mods : plan.installs[p].off

Disabled ==
    /\ \A p \in offs : files[p].on = None /\ files[p].off # None
    /\ op # None /\ op.plan # None => Spares(op.plan, offs)
    /\ row # None /\ row.plan # None => Spares(row.plan, offs)
    /\ Syncing /\ op.pc = "inspect" =>
          /\ \A p \in Listed(op.entries) : op.snap.wide \/ p \in Narrow
          /\ \A p \in offs : op.snap.wide \/ p \in Narrow => op.local[p] # None /\ op.local[p].off

\* What is disabled is read as such.
LEMMA ScannedOff ==
    ASSUME files \in Folder, NEW wide \in BOOLEAN, NEW p \in Paths, wide \/ p \in Narrow,
           files[p].on = None, files[p].off # None
    PROVE  ScanLocal(wide)[p] # None /\ ScanLocal(wide)[p].off
<1>1. ScanLocal(wide)[p] = [v |-> files[p].off, off |-> TRUE]
  BY DEF ScanLocal, Under
<1>2. files[p].off \in Contents
  BY DEF Folder
<1>3. [v |-> files[p].off, off |-> TRUE] \in [v : Contents, off : BOOLEAN]
  BY <1>2
<1>4. QED  BY <1>1, <1>3, NoneIsNoRecord

\* A plan keeps what was disabled in the folder when it was read.
LEMMA MadeSpares ==
    ASSUME Held, Disabled, Syncing, op.pc = "inspect"
    PROVE  Spares(Made, offs)
<1>1. SUFFICES ASSUME NEW p \in DOMAIN Made.installs, p \in offs
               PROVE  Made.installs[p].off
  BY DEF Spares
<1>2. /\ p \in Listed(op.entries) /\ (op.snap.wide \/ p \in Narrow)
      /\ Made.installs[p].off = IF op.local[p] # None THEN op.local[p].off ELSE op.entries[p].off
  BY <1>1, MadeType DEF Disabled
<1>3. op.local[p] # None /\ op.local[p].off
  BY <1>1, <1>2 DEF Disabled
<1>4. QED  BY <1>2, <1>3

\* Who applies has a plan.
LEMMA ApplierHasPlan ==
    ASSUME Held, op # None, op.pc \in {"apply", "swap"}
    PROVE  op.plan \in Plans
<1>a. Lock /\ WorkIsKnown
  BY TypeParts DEF Held
<1>1. lockq # <<>> /\ Head(lockq) \in Tasks
  BY <1>a DEF Lock, Holds
<1>2. Head(lockq).kind \in {"sync", "hook", "tick", "record", "push"}
  BY <1>1 DEF Tasks
<1>3. ~Owns("push") /\ ~Owns("record")
  BY <1>a DEF Lock, Holds, PushOp
<1>4. Syncing \/ Swapping
  BY <1>1, <1>2, <1>3 DEF Owns, Applier, Syncing, Swapping
<1>5. QED  BY <1>4, <1>a, InHand DEF WorkIsKnown, SyncInHand, SwapOp, SyncOp

\* The mods disabled are those of before, and one may be only while no plan is under
\* way.
LEMMA OffsMove ==
    ASSUME Held, Disabled, [Next]_vars
    PROVE  /\ \A p \in offs' : files'[p].on = None /\ files'[p].off # None
           /\ offs' \subseteq offs \/ (~PlanUnderWay /\ UNCHANGED <<row, op, lockq>>)
<1>a. /\ WorkIsKnown /\ Lock /\ files \in Folder /\ offs \subseteq Paths
      /\ \A p \in offs : files[p].on = None /\ files[p].off # None
  BY TypeParts DEF Held, World, Disabled
<1>b. ASSUME NEW plan \in Plans, Spares(plan, offs), files' = Applied(plan),
             offs' = {p \in offs : files'[p] # [on |-> None, off |-> None]}
      PROVE  \A p \in offs' : files'[p].on = None /\ files'[p].off # None
  <2>1. SUFFICES ASSUME NEW p \in offs, files'[p] # [on |-> None, off |-> None]
                 PROVE  files'[p].on = None /\ files'[p].off # None
    BY <1>b
  <2>2. files'[p] = IF p \in DOMAIN plan.installs
                    THEN IF plan.installs[p].off THEN [on |-> None, off |-> plan.installs[p].v]
                                                 ELSE [on |-> plan.installs[p].v, off |-> None]
                    ELSE IF p \in plan.removes THEN [on |-> None, off |-> None] ELSE files[p]
    BY <1>a, <1>b, AppliedType
  <2>3. p \in DOMAIN plan.installs => plan.installs[p].v # None /\ plan.installs[p].off
    BY <1>b, PlanParts, LauncherAssumption DEF Spares
  <2>4. QED  BY <1>a, <2>1, <2>2, <2>3
<1>c. ASSUME NEW plan \in Plans, Spares(plan, offs), UNCHANGED offs,
             \E done \in SUBSET DOMAIN plan.installs : files' = HalfApplied(plan, done)
      PROVE  \A p \in offs' : files'[p].on = None /\ files'[p].off # None
  <2>1. SUFFICES ASSUME NEW p \in offs
                 PROVE  files'[p].on = None /\ files'[p].off # None
    BY <1>c
  <2>2. PICK done \in SUBSET DOMAIN plan.installs : files' = HalfApplied(plan, done)
    BY <1>c
  <2>3. files'[p] = IF p \in done
                    THEN IF plan.installs[p].off THEN [on |-> None, off |-> plan.installs[p].v]
                                                 ELSE [on |-> plan.installs[p].v, off |-> None]
                    ELSE files[p]
    BY <1>a, <2>2, HalfAppliedType
  <2>4. p \in DOMAIN plan.installs => plan.installs[p].v # None /\ plan.installs[p].off
    BY <1>c, PlanParts, LauncherAssumption DEF Spares
  <2>5. QED  BY <1>a, <2>3, <2>4
<1>d. ASSUME op # None, op.pc \in {"apply", "swap"}
      PROVE  op.plan \in Plans /\ Spares(op.plan, offs)
  <2>1. op.plan \in Plans
    BY <1>d, ApplierHasPlan
  <2>2. QED  BY <1>d, <2>1, NoneIsNoRecord DEF Disabled
<1>1. CASE SyncApply
  <2>1. /\ op # None /\ op.pc = "apply" /\ files' = Applied(op.plan)
        /\ offs' = {p \in offs : files'[p] # [on |-> None, off |-> None]}
    BY <1>1 DEF SyncApply, Take
  <2>2. QED  BY <2>1, <1>b, <1>d
<1>2. CASE SyncApplyFails
  BY <1>2, <1>c, <1>d DEF SyncApplyFails
<1>3. CASE Swap
  <2>1. op # None /\ op.pc = "swap"
    BY <1>3, <1>a, InHand DEF Swap, Swapping, SwapOp
  <2>2. CASE files' = Applied(op.plan) /\ Take(op.plan)
    BY <2>1, <2>2, <1>b, <1>d DEF Take
  <2>3. CASE UNCHANGED <<files, offs>>
    BY <2>3, <1>a
  <2>4. QED  BY <1>3, <2>2, <2>3 DEF Swap
<1>4. CASE SwapFails
  <2>1. op # None /\ op.pc = "swap"
    BY <1>4, <1>a, InHand DEF SwapFails, Swapping, SwapOp
  <2>2. QED  BY <1>4, <2>1, <1>c, <1>d DEF SwapFails, history
<1>5. CASE Crash
  BY <1>5, <1>a, <1>c, <1>d DEF Crash
<1>6. ASSUME NEW p \in Paths, Toggle(p) \/ Upload(p) \/ DeleteFile(p)
      PROVE  /\ \A q \in offs' : files'[q].on = None /\ files'[q].off # None
             /\ offs' \subseteq offs \/ (~PlanUnderWay /\ UNCHANGED <<row, op, lockq>>)
  <2>1. CASE Toggle(p)
    <3>1. /\ files' = [files EXCEPT ![p] = [on |-> files[p].off, off |-> files[p].on]]
          /\ offs' = IF files[p].on # None /\ ~PlanUnderWay THEN offs \cup {p} ELSE offs \ {p}
          /\ UNCHANGED <<row, op, lockq>>
          /\ \/ files[p].on # None /\ files[p].off = None
             \/ files[p].on = None /\ files[p].off # None
      BY <2>1 DEF Toggle
    <3>2. QED  BY <1>6, <3>1, <1>a DEF Folder
  <2>2. CASE Upload(p) \/ DeleteFile(p)
    <3>1. /\ offs' = offs \ {p} /\ \A q \in Paths : q # p => files'[q] = files[q]
      BY <2>2, <1>a DEF Upload, DeleteFile, Folder
    <3>2. QED  BY <3>1, <1>a
  <2>3. QED  BY <1>6, <2>1, <2>2
<1>7. CASE UNCHANGED <<files, offs>>
  BY <1>7, <1>a
<1>8. QED
  <2>1. CASE SyncApply \/ SyncApplyFails \/ Swap \/ SwapFails \/ Crash
    <3>1. offs' \subseteq offs
      BY <2>1 DEF SyncApply, SyncApplyFails, Swap, SwapFails, Crash, Take, history
    <3>2. QED  BY <2>1, <3>1, <1>1, <1>2, <1>3, <1>4, <1>5
  <2>2. CASE FileRoutes
    BY <2>2, <1>6 DEF FileRoutes
  <2>3. QED
    BY <2>1, <2>2, <1>7
       DEF Next, Holder, Busy, Sync, SyncRead, FetchFails, Fetch, InspectFails, MakePlan,
           DownloadFails, Settle, Apply, ApplyRead, RecordApplied, Push, PushRead, PushSend,
           PushFails, PushSave, Loop, LoopSync, LoopApply, asking, Process, Requested, Automatic, Start, Exit, User,
           Routes, Link, Configure, Remove, SyncNow, SetSide, Publish, history, vars

LEMMA DisabledKept ==
    ASSUME Held, Disabled, [Next]_vars
    PROVE  Disabled'
<1>1. /\ \A p \in offs' : files'[p].on = None /\ files'[p].off # None
      /\ offs' \subseteq offs \/ (~PlanUnderWay /\ UNCHANGED <<row, op, lockq>>)
      /\ RowMoves /\ OpMoves /\ EntriesMove
  BY OffsMove, PlansMove
<1>2. \A plan : offs' \subseteq offs /\ Spares(plan, offs) => Spares(plan, offs')
  BY DEF Spares
<1>3. ASSUME offs' \subseteq offs, Syncing', op'.pc = "inspect"
      PROVE  /\ \A p \in Listed(op'.entries) : op'.snap.wide \/ p \in Narrow
             /\ \A p \in offs' : op'.snap.wide \/ p \in Narrow => op'.local[p] # None /\ op'.local[p].off
  <2>1. CASE Syncing /\ op' = op
    BY <1>3, <2>1 DEF Disabled, Listed
  <2>2. CASE /\ \E entries \in Entries : op'.entries = Under(op'.snap.wide, entries)
             /\ op'.local = ScanLocal(op'.snap.wide) /\ UNCHANGED <<files, history>>
    <3>1. op'.snap.wide \in BOOLEAN
      BY <1>3, HeldKept, TypeParts, InHand DEF Held, Syncing, Lock, Holds, SyncOp, Row
    <3>2. \A p \in offs : p \in Paths /\ files[p].on = None /\ files[p].off # None
      BY TypeParts DEF Held, World, Disabled
    <3>3. files \in Folder
      BY TypeParts DEF Held, World
    <3>4. \A p \in Listed(op'.entries) : op'.snap.wide \/ p \in Narrow
      BY <2>2, <3>1, UnderType
    <3>5. ASSUME NEW p \in offs', op'.snap.wide \/ p \in Narrow
          PROVE  op'.local[p] # None /\ op'.local[p].off
      <4>1. p \in Paths /\ files[p].on = None /\ files[p].off # None
        BY <1>3, <3>2
      <4>2. ScanLocal(op'.snap.wide)[p] # None /\ ScanLocal(op'.snap.wide)[p].off
        BY <3>1, <3>3, <3>5, <4>1, ScannedOff
      <4>3. QED  BY <2>2, <4>2
    <3>6. QED  BY <3>4, <3>5
  <2>3. QED  BY <1>1, <1>3, <2>1, <2>2 DEF EntriesMove
<1>4. CASE ~PlanUnderWay /\ UNCHANGED <<row, op, lockq>>
  <2>1. ~(Syncing' /\ op'.pc = "inspect")
    BY <1>4 DEF PlanUnderWay, Syncing, Owns
  <2>2. QED  BY <1>1, <1>4, <2>1 DEF Disabled, PlanUnderWay
<1>5. CASE offs' \subseteq offs
  <2>1. op' # None /\ op'.plan # None => Spares(op'.plan, offs')
    BY <1>1, <1>2, <1>5, MadeSpares DEF OpMoves, Disabled, Syncing, Swapping
  <2>2. row' # None /\ row'.plan # None => Spares(row'.plan, offs')
    BY <1>1, <1>2, <1>5 DEF RowMoves, Disabled, Syncing
  <2>3. QED  BY <1>1, <1>3, <1>5, <2>1, <2>2 DEF Disabled
<1>6. QED  BY <1>1, <1>4, <1>5

\* DisabledStaysDisabled: no synchronisation, however late it is carried out, enables
\* a mod that the administrator disabled while no plan was under way.
THEOREM DisabledStaysDisabledCorrect == Spec => []DisabledStaysDisabled
<1>1. Init => Disabled
  <2>1. SUFFICES ASSUME Init PROVE Disabled
    OBVIOUS
  <2>2. offs = {} /\ op = None
    BY <2>1 DEF Init
  <2>3. QED  BY <2>2 DEF Disabled, Spares, Syncing
<1>2. Held /\ Disabled /\ [Next]_vars => Held' /\ Disabled'
  BY HeldKept, DisabledKept
<1>3. Disabled => DisabledStaysDisabled
  BY DEF Disabled, DisabledStaysDisabled
<1>4. QED  BY HeldBegins, <1>1, <1>2, <1>3, PTL DEF Spec

-----------------------------------------------------------------------------
(***************************************************************************)
(* What is removed was installed, adopted or recorded under the link.      *)
(***************************************************************************)
Ours ==
    /\ \A p \in Paths : tracked[p] # None => p \in ours
    /\ row # None /\ row.plan # None => row.plan.removes \subseteq ours
    /\ Syncing /\ op.pc \in {"download", "apply"} => op.plan.removes \subseteq ours
    /\ Swapping /\ row # None /\ row.id = op.id => op.plan.removes \subseteq ours

\* The files recorded are ours; what is ours is forgotten with the link only, when no
\* synchronisation holds a plan.
LEMMA OursMove ==
    ASSUME Held, Ours, [Next]_vars
    PROVE  /\ \A p \in Paths : tracked'[p] # None => p \in ours'
           /\ \/ ours \subseteq ours'
              \/ /\ row' = None
                 /\ ~(Syncing' /\ op'.pc \in {"download", "apply"})
<1>a. /\ WorkIsKnown /\ Lock /\ tracked \in Tracking
      /\ \A p \in Paths : tracked[p] # None => p \in ours
  BY TypeParts DEF Held, World, Ours
<1>b. Syncing /\ op.pc \in {"download", "apply"} => op.plan \in Plans
  BY <1>a DEF WorkIsKnown, SyncInHand
<1>c. ASSUME NEW plan \in Plans, tracked' \in {Recorded(plan, tracked), Adopted(plan, tracked)},
             ours \cup DOMAIN plan.adopts \subseteq ours',
             tracked' = Recorded(plan, tracked) => DOMAIN plan.installs \subseteq ours'
      PROVE  \A p \in Paths : tracked'[p] # None => p \in ours'
  <2>1. /\ \A p \in Paths : Recorded(plan, tracked)[p] # None =>
              p \in DOMAIN plan.installs \cup DOMAIN plan.adopts \/ tracked[p] # None
        /\ \A p \in Paths : Adopted(plan, tracked)[p] # None =>
              p \in DOMAIN plan.adopts \/ tracked[p] # None
    BY <1>a, RecordedType
  <2>2. QED  BY <1>a, <1>c, <2>1
<1>1. CASE Remove
  <2>1. writer = "none" /\ row' = None /\ UNCHANGED <<lockq, op>>
        /\ tracked' = [p \in Paths |-> None]
    BY <1>1 DEF Remove
  <2>2. ~(Syncing /\ op.pc \in {"download", "apply"})
    BY <2>1, <1>a DEF WorkIsKnown, SyncInHand
  <2>3. QED  BY <2>1, <2>2 DEF Syncing, Owns
<1>2. CASE SyncApply
  <2>1. /\ op.plan \in Plans /\ tracked' = Recorded(op.plan, tracked)
        /\ ours' = ours \cup DOMAIN op.plan.installs \cup DOMAIN op.plan.adopts
    BY <1>2, <1>b DEF SyncApply, Syncing, Take
  <2>2. QED  BY <2>1, <1>c
<1>3. CASE SyncApplyFails \/ DownloadFails
  <2>1. op.plan \in Plans /\ Adopt
    BY <1>3, <1>b DEF SyncApplyFails, DownloadFails, Syncing
  <2>2. /\ op.plan \in Plans /\ tracked' = Adopted(op.plan, tracked)
        /\ ours' = ours \cup DOMAIN op.plan.adopts
    BY <2>1 DEF Adopt
  <2>3. tracked' = Recorded(op.plan, tracked) => \A p \in Paths : tracked'[p] # None => p \in ours'
    BY <1>a, <2>2, RecordedType
  <2>4. tracked' # Recorded(op.plan, tracked) => \A p \in Paths : tracked'[p] # None => p \in ours'
    BY <2>2, <1>c
  <2>5. QED  BY <2>2, <2>3, <2>4
<1>4. CASE Settle
  <2>1. op.plan \in Plans /\ (Adopt \/ UNCHANGED <<tracked, ours>>)
    BY <1>4, <1>b DEF Settle, Syncing
  <2>2. CASE Adopt
    BY <1>a, <2>1, <2>2, RecordedType DEF Adopt
  <2>3. QED  BY <1>a, <2>1, <2>2
<1>5. CASE Swap
  BY <1>5, <1>a DEF Swap, Take
<1>6. CASE RecordApplied
  <2>1. CASE row # None /\ Head(lockq).plan # None
    <3>1. lockq # <<>> /\ Head(lockq) \in Tasks
      BY <1>6, <1>a DEF RecordApplied, Owns, Lock
    <3>2. PICK plan \in Plans : plan = Head(lockq).plan
      BY <2>1, <3>1 DEF Tasks
    <3>3. /\ tracked' = Recorded(plan, tracked)
          /\ ours' = ours \cup DOMAIN plan.installs \cup DOMAIN plan.adopts
      BY <1>6, <2>1, <3>2 DEF RecordApplied
    <3>4. QED  BY <3>3, <1>c
  <2>2. CASE ~(row # None /\ Head(lockq).plan # None)
    BY <1>6, <2>2, <1>a DEF RecordApplied
  <2>3. QED  BY <2>1, <2>2
<1>7. CASE UNCHANGED <<tracked, ours>>
  BY <1>7, <1>a
<1>8. QED
  BY <1>1, <1>2, <1>3, <1>4, <1>5, <1>6, <1>7
     DEF Next, Holder, Busy, Sync, SyncRead, FetchFails, Fetch, InspectFails, MakePlan, Apply,
         ApplyRead, SwapFails, Push, PushRead, PushSend, PushFails, PushSave, Loop, LoopSync,
         LoopApply, asking, Process, Requested, Automatic, Start, Exit, User, Routes, Link, Configure, SyncNow, SetSide,
         FileRoutes, Toggle, Upload, DeleteFile, Publish, Crash, history, vars

LEMMA OursKept ==
    ASSUME Held, Ours, [Next]_vars
    PROVE  Ours'
<1>1. /\ \A p \in Paths : tracked'[p] # None => p \in ours'
      /\ \/ ours \subseteq ours'
         \/ row' = None /\ ~(Syncing' /\ op'.pc \in {"download", "apply"})
      /\ RowMoves /\ OpMoves
  BY OursMove, PlansMove
<1>2. /\ Syncing /\ op.pc = "inspect" => Made.removes \subseteq ours /\ Made \in Plans
      /\ Swapping => op.id <= acts /\ op.id \in Nat
      /\ Swapping' => op'.id \in Nat
      /\ row # None => row.id <= acts
      /\ acts \in Nat
  <2>1. Held'
    BY HeldKept
  <2>2. Swapping' => op' \in SwapOp
    BY <2>1, TypeParts DEF Held, Swapping, Lock, Holds, Owns, Applier
  <2>3. QED
    BY <2>2, MadeType, TypeParts, InHand, LauncherAssumption
       DEF Held, WorkIsKnown, Ours, SwapOp, World
<1>3. CASE row' = None /\ ~(Syncing' /\ op'.pc \in {"download", "apply"})
  BY <1>1, <1>3 DEF Ours
<1>4. CASE ours \subseteq ours'
  <2>1. row' # None /\ row'.plan # None => row'.plan.removes \subseteq ours'
    BY <1>1, <1>4 DEF RowMoves, Ours
  <2>2. Syncing' /\ op'.pc \in {"download", "apply"} => op'.plan.removes \subseteq ours'
    <3>1. SUFFICES ASSUME Syncing', op'.pc \in {"download", "apply"}
                   PROVE  op'.plan.removes \subseteq ours'
      OBVIOUS
    <3>2. Held' /\ op' # None /\ ~Swapping'
      BY <3>1, HeldKept DEF Syncing, Swapping, Owns, Applier
    <3>3. op'.plan \in Plans
      BY <3>1, <3>2 DEF Held, WorkIsKnown, SyncInHand
    <3>4. op'.plan # None
      BY <3>3, NoneIsNoRecord
    <3>5. QED  BY <1>1, <1>2, <1>4, <3>2, <3>4 DEF OpMoves, Ours
  <2>3. Swapping' /\ row' # None /\ row'.id = op'.id => op'.plan.removes \subseteq ours'
    <3>1. SUFFICES ASSUME Swapping', row' # None, row'.id = op'.id
                   PROVE  op'.plan.removes \subseteq ours'
      OBVIOUS
    <3>2. Held' /\ op' # None /\ ~Syncing'
      BY <3>1, HeldKept DEF Syncing, Swapping, Owns, Applier
    <3>3. op'.plan \in Plans
      BY <3>1, <3>2, TypeParts DEF Held, Swapping, Lock, Holds, Owns, Applier, SwapOp
    <3>4. op'.plan # None
      BY <3>3, NoneIsNoRecord
    <3>5. CASE Swapping /\ op'.plan = op.plan /\ op'.id = op.id
      <4>1. row # None /\ row.id = op.id
        BY <1>1, <1>2, <3>1, <3>5 DEF RowMoves
      <4>2. QED  BY <1>4, <3>5, <4>1 DEF Ours
    <3>6. CASE row # None /\ op'.plan = row.plan
      BY <1>4, <3>4, <3>6 DEF Ours
    <3>7. QED  BY <1>1, <3>2, <3>4, <3>5, <3>6 DEF OpMoves
  <2>4. QED  BY <1>1, <2>1, <2>2, <2>3 DEF Ours
<1>5. QED  BY <1>1, <1>3, <1>4

\* What an application leaves of a file that was there.
LEMMA GoneWasRemoved ==
    ASSUME files \in Folder, NEW plan \in Plans, files' = Applied(plan), NEW p \in Paths,
           \E x \in {"on", "off"} : files[p][x] # None,
           files'[p] = [on |-> None, off |-> None]
    PROVE  p \in plan.removes
<1>1. files[p] \in [on : Contents, off : Contents]
  BY DEF Folder
<1>2. files[p] # [on |-> None, off |-> None]
  OBVIOUS
<1>3. p \in DOMAIN plan.installs => plan.installs[p].v # None
  BY PlanParts, LauncherAssumption
<1>4. Applied(plan)[p] = IF p \in DOMAIN plan.installs
                         THEN IF plan.installs[p].off THEN [on |-> None, off |-> plan.installs[p].v]
                                                      ELSE [on |-> plan.installs[p].v, off |-> None]
                         ELSE IF p \in plan.removes THEN [on |-> None, off |-> None] ELSE files[p]
  BY AppliedType
<1>5. p \notin DOMAIN plan.installs
  <2>1. SUFFICES ASSUME p \in DOMAIN plan.installs PROVE FALSE
    OBVIOUS
  <2>2. \/ files'[p] = [on |-> None, off |-> plan.installs[p].v]
        \/ files'[p] = [on |-> plan.installs[p].v, off |-> None]
    BY <1>4, <2>1
  <2>3. files'[p].on = None /\ files'[p].off = None
    OBVIOUS
  <2>4. QED  BY <1>3, <2>1, <2>2, <2>3
<1>6. QED  BY <1>2, <1>4, <1>5

\* An application that fails removes nothing.
LEMMA FailureRemovesNothing ==
    ASSUME files \in Folder, NEW plan \in Plans, NEW done \in SUBSET DOMAIN plan.installs,
           files' = HalfApplied(plan, done), NEW p \in Paths,
           \E x \in {"on", "off"} : files[p][x] # None
    PROVE  files'[p] # [on |-> None, off |-> None]
<1>1. files[p] # [on |-> None, off |-> None]
  OBVIOUS
<1>2. p \in done => plan.installs[p].v # None
  BY PlanParts, LauncherAssumption
<1>3. HalfApplied(plan, done)[p] =
         IF p \in done
         THEN IF plan.installs[p].off THEN [on |-> None, off |-> plan.installs[p].v]
                                      ELSE [on |-> plan.installs[p].v, off |-> None]
         ELSE files[p]
  BY HalfAppliedType
<1>4. CASE p \in done
  <2>1. \/ files'[p] = [on |-> None, off |-> plan.installs[p].v]
        \/ files'[p] = [on |-> plan.installs[p].v, off |-> None]
    BY <1>3, <1>4
  <2>2. files'[p].off # None \/ files'[p].on # None
    BY <1>2, <1>4, <2>1
  <2>3. QED  BY <2>2
<1>5. QED  BY <1>1, <1>3, <1>4

\* A file the administrator put where MSM claimed nothing: nothing it has claimed since
\* is there either.
Foreign(p) == ByHand(p) /\ p \notin overlaid

TakesOver(plan, p) == plan # None /\ p \in DOMAIN plan.adopts

Untouched ==
    \A p \in Paths : Foreign(p) =>
       /\ p \notin ours /\ files[p].on \in {None, Own}
       /\ row # None => ~TakesOver(row.plan, p)
       /\ op # None => ~TakesOver(op.plan, p)
       /\ \A i \in DOMAIN lockq : lockq[i].plan # None =>
             p \notin DOMAIN lockq[i].plan.installs \cup DOMAIN lockq[i].plan.adopts
       /\ Syncing /\ op.pc = "inspect" /\ op.local[p] # None => op.local[p].v = Own

\* What an application leaves by hand was by hand and is not one of its installations.
LEMMA AppliedByHand ==
    ASSUME files \in Folder, NEW plan \in Plans, NEW done \in SUBSET DOMAIN plan.installs,
           files' = Applied(plan) \/ files' = HalfApplied(plan, done),
           NEW p \in Paths, ByHand(p)'
    PROVE  /\ files'[p] = files[p] /\ ByHand(p)
           /\ files' = Applied(plan) => p \notin DOMAIN plan.installs
<1>1. Own # None /\ \A q \in DOMAIN plan.installs : plan.installs[q].v # Own
  BY PlanParts, LauncherAssumption
<1>2. CASE files' = Applied(plan)
  <2>1. files'[p] = IF p \in DOMAIN plan.installs
                    THEN IF plan.installs[p].off THEN [on |-> None, off |-> plan.installs[p].v]
                                                 ELSE [on |-> plan.installs[p].v, off |-> None]
                    ELSE IF p \in plan.removes THEN [on |-> None, off |-> None] ELSE files[p]
    BY <1>2, AppliedType
  <2>2. files'[p].on = Own \/ files'[p].off = Own
    BY DEF ByHand
  <2>3. p \notin DOMAIN plan.installs
    BY <1>1, <2>1, <2>2
  <2>4. files'[p] = files[p]
    BY <1>1, <2>1, <2>2, <2>3
  <2>5. QED  BY <2>2, <2>3, <2>4 DEF ByHand
<1>3. CASE files' = HalfApplied(plan, done)
  <2>1. files'[p] = IF p \in done
                    THEN IF plan.installs[p].off THEN [on |-> None, off |-> plan.installs[p].v]
                                                 ELSE [on |-> plan.installs[p].v, off |-> None]
                    ELSE files[p]
    BY <1>3, HalfAppliedType
  <2>2. files'[p].on = Own \/ files'[p].off = Own
    BY DEF ByHand
  <2>3. p \notin done
    BY <1>1, <2>1, <2>2
  <2>4. files'[p] = files[p]
    BY <2>1, <2>3
  <2>5. CASE files' = Applied(plan)
    BY <1>2, <2>5
  <2>6. QED  BY <2>2, <2>4, <2>5 DEF ByHand
<1>4. QED  BY <1>2, <1>3

\* A file becomes one put by hand by an upload only, over what nobody claims.
LEMMA ForeignMove ==
    ASSUME Held, Untouched, [Next]_vars, NEW p \in Paths, Foreign(p)'
    PROVE  /\ files'[p].on \in {None, Own}
           /\ Foreign(p) \/ (~Claimed(p) /\ UNCHANGED <<row, op, lockq, ours>>)
<1>a. WorkIsKnown /\ Lock /\ files \in Folder /\ (Foreign(p) => files[p].on \in {None, Own})
  BY TypeParts DEF Held, World, Untouched
<1>b. ASSUME op # None, op.pc \in {"apply", "swap"}
      PROVE  op.plan \in Plans
  BY <1>b, ApplierHasPlan
<1>c. ASSUME overlaid' = overlaid, NEW plan \in Plans, NEW done \in SUBSET DOMAIN plan.installs,
             files' = Applied(plan) \/ files' = HalfApplied(plan, done)
      PROVE  files'[p].on \in {None, Own} /\ Foreign(p)
  <2>1. files'[p] = files[p] /\ ByHand(p)
    BY <1>a, <1>c, AppliedByHand DEF Foreign
  <2>2. QED  BY <1>a, <1>c, <2>1 DEF Foreign
<1>d. ASSUME overlaid' = overlaid, NEW plan \in Plans, files' = Applied(plan)
      PROVE  files'[p].on \in {None, Own} /\ Foreign(p)
  BY <1>c, <1>d
<1>1. CASE SyncApply
  BY <1>1, <1>b, <1>d DEF SyncApply
<1>2. CASE SyncApplyFails
  BY <1>2, <1>b, <1>c DEF SyncApplyFails
<1>3. CASE Swap
  <2>1. op # None /\ op.pc = "swap" /\ overlaid' = overlaid
    BY <1>3, <1>a, InHand DEF Swap, Swapping, SwapOp
  <2>2. CASE files' = Applied(op.plan)
    BY <2>1, <2>2, <1>b, <1>d
  <2>3. CASE UNCHANGED files
    BY <2>1, <2>3, <1>a DEF Foreign, ByHand
  <2>4. QED  BY <1>3, <2>2, <2>3 DEF Swap
<1>4. CASE SwapFails
  <2>1. op # None /\ op.pc = "swap" /\ overlaid' = overlaid
    BY <1>4, <1>a, InHand DEF SwapFails, Swapping, SwapOp, history
  <2>2. QED  BY <1>4, <2>1, <1>b, <1>c DEF SwapFails
<1>5. CASE Crash
  <2>1. CASE UNCHANGED files
    BY <1>5, <2>1, <1>a DEF Crash, Foreign, ByHand
  <2>2. CASE ~UNCHANGED files
    BY <1>5, <2>2, <1>b, <1>c DEF Crash
  <2>3. QED  BY <2>1, <2>2
<1>6. ASSUME NEW q \in Paths, Toggle(q) \/ DeleteFile(q)
      PROVE  files'[p].on \in {None, Own} /\ Foreign(p)
  <2>1. CASE Toggle(q)
    <3>1. /\ files' = [files EXCEPT ![q] = [on |-> files[q].off, off |-> files[q].on]]
          /\ files[q].on = None \/ files[q].off = None
          /\ overlaid' = overlaid
      BY <2>1 DEF Toggle
    <3>2. CASE p = q
      <4>1. files'[p].on = files[p].off /\ files'[p].off = files[p].on
        BY <1>a, <3>1, <3>2 DEF Folder
      <4>2. ByHand(p)
        BY <4>1 DEF Foreign, ByHand
      <4>3. files'[p].on \in {None, Own}
        BY <3>1, <3>2, <4>1, LauncherAssumption DEF Foreign, ByHand
      <4>4. QED  BY <3>1, <4>2, <4>3 DEF Foreign
    <3>3. CASE p # q
      <4>1. files'[p] = files[p]
        BY <1>a, <3>1, <3>3 DEF Folder
      <4>2. QED  BY <1>a, <3>1, <4>1 DEF Foreign, ByHand
    <3>4. QED  BY <3>2, <3>3
  <2>2. CASE DeleteFile(q)
    <3>1. /\ files'[p].on \in {None, files[p].on} /\ files'[p].off \in {None, files[p].off}
          /\ overlaid' = overlaid
      BY <1>a, <2>2 DEF DeleteFile, Folder
    <3>2. ByHand(p)
      BY <3>1, LauncherAssumption DEF Foreign, ByHand
    <3>3. QED  BY <1>a, <3>1, <3>2 DEF Foreign
  <2>3. QED  BY <1>6, <2>1, <2>2
<1>7. ASSUME NEW q \in Paths, Upload(q)
      PROVE  /\ files'[p].on \in {None, Own}
             /\ Foreign(p) \/ (~Claimed(p) /\ UNCHANGED <<row, op, lockq, ours>>)
  <2>1. /\ files' = [files EXCEPT ![q].on = Own] /\ UNCHANGED <<row, op, lockq, ours>>
        /\ overlaid' = IF Claimed(q) THEN overlaid \cup {q} ELSE overlaid
    BY <1>7 DEF Upload
  <2>2. CASE p = q
    <3>1. files'[p].on = Own
      BY <1>a, <2>1, <2>2 DEF Folder
    <3>2. ~Claimed(p)
      BY <2>1, <2>2 DEF Foreign
    <3>3. QED  BY <2>1, <3>1, <3>2
  <2>3. CASE p # q
    <3>1. files'[p] = files[p] /\ p \notin overlaid
      BY <1>a, <2>1, <2>3 DEF Folder, Foreign
    <3>2. QED  BY <1>a, <3>1 DEF Foreign, ByHand
  <2>4. QED  BY <2>2, <2>3
<1>8. CASE UNCHANGED <<files, overlaid>>
  BY <1>8, <1>a DEF Foreign, ByHand
<1>9. QED
  <2>1. CASE FileRoutes
    BY <2>1, <1>6, <1>7 DEF FileRoutes
  <2>2. QED
    BY <2>1, <1>1, <1>2, <1>3, <1>4, <1>5, <1>8
       DEF Next, Holder, Busy, Sync, SyncRead, FetchFails, Fetch, InspectFails, MakePlan,
           DownloadFails, Settle, Apply, ApplyRead, RecordApplied, Push, PushRead, PushSend,
           PushFails, PushSave, Loop, LoopSync, LoopApply, asking, Process, Requested, Automatic,
           Start, Exit, User, Routes, Link, Configure, Remove, SyncNow, SetSide, Publish, history,
           vars

\* What becomes ours was adopted or installed by the plan in hand, or is being recorded.
LEMMA OursGrow ==
    ASSUME Held, [Next]_vars, NEW p \in Paths, p \in ours', p \notin ours
    PROVE  \/ op # None /\ TakesOver(op.plan, p)
           \/ op.plan \in Plans /\ files' = Applied(op.plan) /\ p \in DOMAIN op.plan.installs
           \/ /\ 1 \in DOMAIN lockq /\ lockq[1].plan # None
              /\ p \in DOMAIN lockq[1].plan.installs \cup DOMAIN lockq[1].plan.adopts
<1>a. Lock /\ WorkIsKnown
  BY TypeParts DEF Held
<1>b. ASSUME op # None, op.plan \in Plans, Adopt
      PROVE  TakesOver(op.plan, p)
  BY <1>b, NoneIsNoRecord DEF Adopt, TakesOver
<1>c. ASSUME op # None, op.plan \in Plans, Take(op.plan), files' = Applied(op.plan)
      PROVE  TakesOver(op.plan, p) \/ p \in DOMAIN op.plan.installs
  BY <1>c, NoneIsNoRecord DEF Take, TakesOver
<1>1. CASE SyncApply
  BY <1>1, <1>c, ApplierHasPlan DEF SyncApply
<1>2. CASE SyncApplyFails
  BY <1>2, <1>b, ApplierHasPlan DEF SyncApplyFails
<1>3. CASE DownloadFails \/ Settle
  <2>1. op # None /\ op.plan \in Plans
    BY <1>3, <1>a DEF DownloadFails, Settle, WorkIsKnown, SyncInHand, Syncing
  <2>2. Adopt
    BY <1>3 DEF DownloadFails, Settle
  <2>3. QED  BY <2>1, <2>2, <1>b
<1>4. CASE Swap
  <2>1. op # None /\ op.pc = "swap"
    BY <1>4, <1>a, InHand DEF Swap, Swapping, SwapOp
  <2>2. files' = Applied(op.plan) /\ Take(op.plan)
    BY <1>4 DEF Swap
  <2>3. QED  BY <2>1, <2>2, <1>c, ApplierHasPlan
<1>5. CASE RecordApplied
  <2>1. lockq # <<>> /\ Head(lockq).plan # None
        /\ p \in DOMAIN Head(lockq).plan.installs \cup DOMAIN Head(lockq).plan.adopts
    BY <1>5 DEF RecordApplied, Owns
  <2>2. 1 \in DOMAIN lockq /\ lockq[1] = Head(lockq)
    BY <2>1, <1>a DEF Lock
  <2>3. QED  BY <2>1, <2>2
<1>6. QED
  BY <1>1, <1>2, <1>3, <1>4, <1>5
     DEF Next, Holder, Busy, Sync, SyncRead, FetchFails, Fetch, InspectFails, MakePlan,
         Apply, ApplyRead, SwapFails, Push, PushRead, PushSend, PushFails, PushSave, Loop,
         LoopSync, LoopApply, asking, Process, Requested, Automatic, Start, Exit, User, Routes,
         Link, Configure, Remove, SyncNow, SetSide, FileRoutes, Toggle, Upload, DeleteFile,
         Publish, Crash, history, vars

\* The plans that wait to be recorded waited, or were applied by this step.
LEMMA QueueMoves ==
    ASSUME Held, [Next]_vars, NEW i \in DOMAIN lockq', lockq'[i].plan # None
    PROVE  \/ \E j \in DOMAIN lockq : lockq'[i].plan = lockq[j].plan
           \/ op # None /\ op.plan \in Plans /\ files' = Applied(op.plan) /\ lockq'[i].plan = op.plan
<1>a. Lock /\ lockq \in Seq(Tasks)
  BY TypeParts DEF Held, Lock
<1>b. ASSUME NEW task \in Tasks, task.plan = None, lockq' = Append(lockq, task)
      PROVE  \E j \in DOMAIN lockq : lockq'[i].plan = lockq[j].plan
  <2>1. /\ i \in 1 .. Len(lockq) + 1 /\ lockq'[Len(lockq) + 1] = task
        /\ \A j \in 1 .. Len(lockq) : lockq'[j] = lockq[j]
    BY <1>a, <1>b
  <2>2. i # Len(lockq) + 1
    BY <1>b, <2>1
  <2>3. i \in 1 .. Len(lockq)
    BY <1>a, <2>1, <2>2
  <2>4. QED  BY <1>a, <2>1, <2>3
<1>c. ASSUME lockq # <<>>, lockq' = Tail(lockq)
      PROVE  \E j \in DOMAIN lockq : lockq'[i].plan = lockq[j].plan
  BY <1>a, <1>c
<1>d. ASSUME NEW task \in Tasks, lockq # <<>>, lockq' = Append(Tail(lockq), task)
      PROVE  \/ \E j \in DOMAIN lockq : lockq'[i].plan = lockq[j].plan
             \/ lockq'[i] = task
  <2> DEFINE rest == Tail(lockq)
  <2>1. /\ rest \in Seq(Tasks) /\ Len(rest) = Len(lockq) - 1
        /\ \A j \in 1 .. Len(rest) : rest[j] = lockq[j + 1]
    BY <1>a, <1>d, HeadTailProperties
  <2>2. lockq' = Append(rest, task)
    BY <1>d
  <2> HIDE DEF rest
  <2>3. /\ i \in 1 .. Len(rest) + 1 /\ lockq'[Len(rest) + 1] = task
        /\ \A j \in 1 .. Len(rest) : lockq'[j] = rest[j]
    BY <2>1, <2>2
  <2>4. CASE i = Len(rest) + 1
    BY <2>3, <2>4
  <2>5. CASE i \in 1 .. Len(rest)
    <3>1. lockq'[i] = lockq[i + 1] /\ i + 1 \in 1 .. Len(lockq)
      BY <1>a, <2>1, <2>3, <2>5
    <3>2. QED  BY <1>a, <3>1
  <2>6. QED  BY <2>1, <2>3, <2>4, <2>5
<1>1. CASE UNCHANGED lockq
  BY <1>1
<1>2. CASE lockq' = <<>>
  BY <1>2
<1>3. CASE lockq # <<>> /\ lockq' = Tail(lockq)
  BY <1>3, <1>c
<1>4. CASE Loop \/ Process \/ \E mass \in BOOLEAN : SyncNow(mass)
  <2>1. \/ \E task \in Tasks : task.plan = None /\ lockq' = Append(lockq, task)
        \/ UNCHANGED lockq
    BY <1>4 DEF Loop, LoopSync, LoopApply, Process, Requested, Automatic, Start, Exit, SyncNow,
                Ask, Task, Tasks
  <2>2. QED  BY <2>1, <1>1, <1>b
<1>5. CASE PushRead
  <2>1. lockq' = <<Task("push", "push")>>
    BY <1>5 DEF PushRead
  <2>2. QED  BY <2>1 DEF Task
<1>6. CASE Swap
  <2>1. op # None /\ lockq # <<>> /\ op.plan \in Plans
    BY <1>6, <1>a, InHand DEF Swap, Swapping, SwapOp
  <2> DEFINE complete == Staged(op.plan) \subseteq staging
             by == IF Owns("hook") THEN "task" ELSE "loop"
             task == [Task("record", by) EXCEPT !.plan = IF complete THEN op.plan ELSE None]
  <2>2. task \in Tasks /\ task.plan = IF complete THEN op.plan ELSE None
    BY <2>1 DEF Task, Tasks
  <2>3. lockq' = Append(Tail(lockq), task)
    BY <1>6 DEF Swap, Launch
  <2>4. complete => files' = Applied(op.plan)
    BY <1>6 DEF Swap
  <2> HIDE DEF task, complete
  <2>5. QED  BY <2>1, <2>2, <2>3, <2>4, <1>d
<1>7. CASE Holder /\ ~PushRead /\ ~Swap
  <2>1. lockq # <<>>
    BY <1>7 DEF Holder, Busy, Sync, SyncRead, FetchFails, Fetch, InspectFails, MakePlan,
          DownloadFails, Settle, SyncApply, SyncApplyFails, Apply, ApplyRead, SwapFails,
          RecordApplied, Push, PushSend, PushFails, PushSave, Owns, Applier
  <2>2. lockq' = Tail(lockq) \/ UNCHANGED lockq
    BY <1>7 DEF Holder, Busy, Sync, SyncRead, FetchFails, Fetch, InspectFails, MakePlan,
          DownloadFails, Settle, SyncApply, SyncApplyFails, Apply, ApplyRead, SwapFails,
          RecordApplied, Push, PushSend, PushFails, PushSave, Release, CommitRead, CommitSync,
          Launch
  <2>3. QED  BY <2>1, <2>2, <1>1, <1>3
<1>8. CASE Crash
  BY <1>8, <1>2 DEF Crash
<1>9. CASE User /\ ~\E mass \in BOOLEAN : SyncNow(mass)
  <2>1. UNCHANGED lockq
    BY <1>9 DEF User, Routes, FileRoutes, Link, Configure, Remove, SetSide, Toggle, Upload,
                DeleteFile, Publish
  <2>2. QED  BY <2>1, <1>1
<1>10. QED
  BY <1>1, <1>4, <1>5, <1>6, <1>7, <1>8, <1>9 DEF Next, vars

\* What a plan adopts was read as the file server has it.
LEMMA MadeAdopts ==
    ASSUME Held, Syncing, op.pc = "inspect", NEW p \in Paths, TakesOver(Made, p)
    PROVE  op.local[p] # None /\ op.local[p].v # Own
<1>1. op.entries \in Entries
  BY DEF Held, WorkIsKnown, SyncInHand
<1> DEFINE want == Wanted(op.snap, op.entries)
<1>2. want \subseteq Listed(op.entries)
  BY DEF Wanted
<1>3. Made = ComputePlan(want, op.entries, op.local, tracked)
  BY DEF Made
<1> HIDE DEF want
<1> DEFINE same == {q \in want : op.local[q] # None /\ op.local[q].v = op.entries[q].v}
<1>4. DOMAIN Made.adopts = {q \in same : tracked[q] = None}
  BY <1>3 DEF ComputePlan
<1>5. p \in want /\ op.local[p] # None /\ op.local[p].v = op.entries[p].v
  BY <1>4 DEF TakesOver
<1>6. op.entries[p].v \in Versions
  BY <1>1, <1>2, <1>5 DEF Entries, Listed
<1>7. QED  BY <1>5, <1>6, LauncherAssumption

LEMMA UntouchedKept ==
    ASSUME Held, Untouched, [Next]_vars
    PROVE  Untouched'
<1>1. SUFFICES ASSUME NEW p \in Paths, Foreign(p)'
               PROVE  /\ p \notin ours' /\ files'[p].on \in {None, Own}
                      /\ row' # None => ~TakesOver(row'.plan, p)
                      /\ op' # None => ~TakesOver(op'.plan, p)
                      /\ \A i \in DOMAIN lockq' : lockq'[i].plan # None =>
                            p \notin DOMAIN lockq'[i].plan.installs \cup DOMAIN lockq'[i].plan.adopts
                      /\ Syncing' /\ op'.pc = "inspect" /\ op'.local[p] # None => op'.local[p].v = Own
  BY DEF Untouched, TakesOver
<1>2. /\ files'[p].on \in {None, Own}
      /\ Foreign(p) \/ (~Claimed(p) /\ UNCHANGED <<row, op, lockq, ours>>)
      /\ RowMoves /\ OpMoves /\ EntriesMove
  BY <1>1, ForeignMove, PlansMove
<1>a. files \in Folder /\ Lock /\ WorkIsKnown
  BY TypeParts DEF Held, World
<1>3. CASE ~Claimed(p) /\ UNCHANGED <<row, op, lockq, ours>>
  <2>1. /\ p \notin ours /\ (row # None => row.plan = None) /\ (op # None => op.plan = None)
        /\ \A i \in DOMAIN lockq : lockq[i].plan = None
        /\ ~(Syncing /\ op.pc = "inspect")
    BY <1>3 DEF Claimed, PlanUnderWay, Syncing
  <2>2. Syncing' = Syncing
    BY <1>3 DEF Syncing, Owns
  <2>3. QED  BY <1>2, <1>3, <2>1, <2>2 DEF TakesOver
<1>4. CASE Foreign(p)
  <2>1. /\ p \notin ours /\ files[p].on \in {None, Own}
        /\ row # None => ~TakesOver(row.plan, p)
        /\ op # None => ~TakesOver(op.plan, p)
        /\ \A i \in DOMAIN lockq : lockq[i].plan # None =>
              p \notin DOMAIN lockq[i].plan.installs \cup DOMAIN lockq[i].plan.adopts
        /\ Syncing /\ op.pc = "inspect" /\ op.local[p] # None => op.local[p].v = Own
    BY <1>4 DEF Untouched
  <2>2. op.plan \in Plans /\ files' = Applied(op.plan) => p \notin DOMAIN op.plan.installs
    BY <1>1, <1>a, AppliedByHand DEF Foreign
  <2>3. p \notin ours'
    BY <2>1, <2>2, OursGrow
  <2>4. row' # None => ~TakesOver(row'.plan, p)
    BY <1>2, <2>1 DEF RowMoves, TakesOver, Syncing
  <2>5. op' # None => ~TakesOver(op'.plan, p)
    BY <1>2, <2>1, MadeAdopts DEF OpMoves, TakesOver, Syncing, Swapping
  <2>6. ASSUME NEW i \in DOMAIN lockq', lockq'[i].plan # None
        PROVE  p \notin DOMAIN lockq'[i].plan.installs \cup DOMAIN lockq'[i].plan.adopts
    BY <2>1, <2>2, <2>6, QueueMoves DEF TakesOver
  <2>7. ASSUME Syncing', op'.pc = "inspect", op'.local[p] # None
        PROVE  op'.local[p].v = Own
    <3>1. CASE Syncing /\ op' = op
      BY <2>1, <2>7, <3>1
    <3>2. CASE op'.local = ScanLocal(op'.snap.wide) /\ UNCHANGED <<files, history>>
      <4>1. /\ op'.local[p] = IF op'.snap.wide \/ p \in Narrow
                              THEN IF files[p].on # None THEN [v |-> files[p].on, off |-> FALSE]
                                   ELSE IF files[p].off # None THEN [v |-> files[p].off, off |-> TRUE]
                                   ELSE None
                              ELSE None
        BY <3>2 DEF ScanLocal, Under
      <4>2. files[p].on = Own \/ (files[p].on = None /\ files[p].off = Own)
        BY <1>4, <2>1 DEF Foreign, ByHand
      <4>3. QED  BY <2>7, <4>1, <4>2, LauncherAssumption
    <3>3. QED  BY <1>2, <2>7, <3>1, <3>2 DEF EntriesMove
  <2>8. QED  BY <1>2, <2>3, <2>4, <2>5, <2>6, <2>7
<1>5. QED  BY <1>2, <1>3, <1>4

\* OnlyOursGo: what a synchronisation removes was put there, or taken over, under the
\* link in force, though the link is removed and made again while plans wait; and it is
\* no file of the administrator, unless put over one of MSM.
THEOREM OnlyOursGoCorrect == Spec => OnlyOursGo
<1>1. Init => Ours /\ Untouched
  <2>1. SUFFICES ASSUME Init PROVE Ours /\ Untouched
    OBVIOUS
  <2>2. /\ op = None /\ tracked = [p \in Paths |-> None] /\ row.plan = None
        /\ files = [p \in Paths |-> [on |-> None, off |-> None]]
    BY <2>1 DEF Init, NewRow
  <2>3. Ours
    BY <2>2 DEF Ours, Syncing, Swapping
  <2>4. \A p \in Paths : ~ByHand(p)
    BY <2>2, LauncherAssumption DEF ByHand
  <2>5. QED  BY <2>3, <2>4 DEF Untouched, Foreign
<1>2. Held /\ Ours /\ Untouched /\ [Next]_vars => Held' /\ Ours' /\ Untouched'
  BY HeldKept, OursKept, UntouchedKept
<1> DEFINE Rule(p) == Goes(p) => \/ p \in ours /\ (ByHand(p) => p \in overlaid)
                                 \/ op.pc = "swap" /\ (row = None \/ row.id # op.id)
<1>3. Held /\ Ours /\ Untouched /\ [Next]_vars => [\A p \in Paths : Rule(p)]_vars
  <2>1. SUFFICES ASSUME Held, Ours, Untouched, Next, NEW p \in Paths, Goes(p)
                 PROVE  \/ p \in ours /\ (ByHand(p) => p \in overlaid)
                        \/ op.pc = "swap" /\ (row = None \/ row.id # op.id)
    OBVIOUS
  <2>2. /\ acts # acts + 1 /\ files \in Folder /\ files[p] # [on |-> None, off |-> None]
        /\ WorkIsKnown /\ Lock /\ acts' = acts
        /\ \E x \in {"on", "off"} : files[p][x] # None
        /\ files'[p] = [on |-> None, off |-> None]
    BY <2>1, TypeParts, LauncherAssumption DEF Held, World, Goes
  <2>a. p \in ours => (ByHand(p) => p \in overlaid)
    BY <2>1 DEF Untouched, Foreign
  <2>3. CASE SyncApply
    <3>1. Syncing /\ op.pc = "apply" /\ op.plan \in Plans /\ files' = Applied(op.plan)
      BY <2>2, <2>3 DEF SyncApply, Syncing, WorkIsKnown, SyncInHand
    <3>2. p \in op.plan.removes
      BY <2>2, <3>1, GoneWasRemoved
    <3>3. QED  BY <2>1, <2>a, <3>1, <3>2 DEF Ours
  <2>4. CASE SyncApplyFails
    <3>1. /\ Syncing /\ op.plan \in Plans
          /\ \E done \in SUBSET DOMAIN op.plan.installs : files' = HalfApplied(op.plan, done)
      BY <2>2, <2>4 DEF SyncApplyFails, Syncing, WorkIsKnown, SyncInHand
    <3>2. QED  BY <2>2, <3>1, FailureRemovesNothing
  <2>5. CASE Swap
    <3>1. Swapping /\ op \in SwapOp
      BY <2>2, <2>5, InHand DEF Swap, Swapping
    <3>2. op.plan \in Plans /\ op.pc = "swap"
      BY <3>1 DEF SwapOp
    <3>3. files' = Applied(op.plan)
      BY <2>2, <2>5 DEF Swap
    <3>4. p \in op.plan.removes
      BY <2>2, <3>2, <3>3, GoneWasRemoved
    <3>5. QED  BY <2>1, <2>a, <3>1, <3>2, <3>4 DEF Ours
  <2>6. CASE SwapFails
    <3>1. /\ op.plan \in Plans
          /\ \E done \in SUBSET DOMAIN op.plan.installs : files' = HalfApplied(op.plan, done)
      BY <2>2, <2>6, InHand DEF SwapFails, Swapping, SwapOp
    <3>2. QED  BY <2>2, <3>1, FailureRemovesNothing
  <2>7. QED
    BY <2>1, <2>2, <2>3, <2>4, <2>5, <2>6
       DEF Next, Holder, Busy, Sync, SyncRead, FetchFails, Fetch, InspectFails, MakePlan,
           DownloadFails, Settle, Apply, ApplyRead, RecordApplied, Push, PushRead, PushSend,
           PushFails, PushSave, Loop, LoopSync, LoopApply, asking, Process, Requested, Automatic,
           Start, Exit, User, Routes, Link, Configure, Remove, SyncNow, SetSide, FileRoutes,
           Toggle, Upload, DeleteFile, Publish, Crash, Act
<1> HIDE DEF Rule
<1>4. Spec => [][\A p \in Paths : Rule(p)]_vars
  BY HeldBegins, <1>1, <1>2, <1>3, PTL DEF Spec
<1>5. QED  BY <1>4 DEF OnlyOursGo, Rule

-----------------------------------------------------------------------------
(***************************************************************************)
(* What MSM keeps of the file server: the steps that leave it alone.       *)
(***************************************************************************)
SameLink ==
    row' # None =>
       /\ row # None /\ row'.id = row.id /\ row'.src = row.src /\ row'.wide = row.wide
       /\ row'.etag = row.etag /\ row'.entries = row.entries
       /\ row'.rev = row.rev /\ row'.pushed = row.pushed /\ row'.disabled = row.disabled

\* Neither the manifest nor the publication is in hand, before or after.
Aside == ~Syncing' /\ ~Pushing' /\ ~Syncing /\ ~Pushing

LEMMA LockPasses ==
    ASSUME Lock, op' = None, Advances
    PROVE  Rests
<1>1. \A task \in Tasks : task.kind = "record" => task.kind # "push"
  OBVIOUS
<1>2. QED  BY <1>1, LockLetGo DEF Advances

\* The end of an application lets the lock go.
LEMMA ApplyRests ==
    ASSUME Held, Apply \/ RecordApplied
    PROVE  Aside
<1>a. Lock
  BY TypeParts DEF Held
<1>1. ~Syncing /\ ~Pushing /\ lockq # <<>>
  BY DEF Apply, ApplyRead, Swap, SwapFails, RecordApplied, Applier, Owns, Syncing, Pushing
<1>2. CASE UNCHANGED lockq
  BY <1>1, <1>2 DEF Aside, Syncing, Pushing, Apply, ApplyRead, Swap, SwapFails, RecordApplied,
                    Applier, Owns
<1>3. CASE ~UNCHANGED lockq
  <2>1. op' = None
    BY <1>3 DEF Apply, ApplyRead, Swap, SwapFails, RecordApplied, Launch, Release
  <2>2. Advances
    <3>1. CASE lockq' = Tail(lockq)
      BY <1>1, <3>1 DEF Advances
    <3>2. CASE lockq' # Tail(lockq)
      <4>1. Swap /\ op \in SwapOp
        BY <1>3, <3>2, <1>a, InHand
           DEF Apply, ApplyRead, Swap, SwapFails, RecordApplied, Launch, Release, Swapping
      <4> DEFINE complete == Staged(op.plan) \subseteq staging
                 by == IF Owns("hook") THEN "task" ELSE "loop"
                 task == [Task("record", by) EXCEPT !.plan = IF complete THEN op.plan ELSE None]
      <4>2. task \in Tasks /\ task.kind = "record"
        BY <4>1 DEF Task, Tasks, SwapOp
      <4>3. lockq' = Append(Tail(lockq), task)
        BY <4>1 DEF Swap, Launch
      <4> HIDE DEF task
      <4>4. QED  BY <1>1, <4>2, <4>3 DEF Advances
    <3>3. QED  BY <3>1, <3>2
  <2>3. QED  BY <1>a, <1>1, <2>1, <2>2, LockPasses DEF Rests, Aside
<1>4. QED  BY <1>2, <1>3

\* The steps that are neither of a synchronisation, nor of a publication, nor of the
\* settings page.
Quiet ==
    \/ Apply \/ RecordApplied \/ Loop \/ Process
    \/ Remove \/ (\E mass \in BOOLEAN : SyncNow(mass)) \/ (\E p \in Paths, side \in Overrides : SetSide(p, side))
    \/ FileRoutes \/ (\E m \in Manifests : Publish(m))
    \/ UNCHANGED vars

LEMMA QuietSteps ==
    ASSUME Held, Quiet
    PROVE  SameLink /\ UNCHANGED <<told, astray, stale>> /\ (Stays \/ Aside)
<1>a. Lock /\ row \in Row \cup {None}
  BY TypeParts DEF Held
<1>1. UNCHANGED <<told, astray, stale>>
  BY DEF Quiet, Apply, ApplyRead, Swap, SwapFails, RecordApplied, Loop, LoopSync, LoopApply,
         asking, Process, Requested, Automatic, Start, Exit, Remove, SyncNow, SetSide, FileRoutes, Toggle, Upload,
         DeleteFile, Publish, history, vars
<1>2. SameLink
  <2>1. CASE UNCHANGED row
    BY <2>1 DEF SameLink
  <2>2. CASE row' = None
    BY <2>2 DEF SameLink
  <2>3. CASE row # None /\ row' = [row EXCEPT !.plan = None]
    BY <2>3, <1>a DEF SameLink, Row
  <2>4. CASE \E p \in Paths, side \in Overrides : SetSide(p, side)
    <3>1. PICK forced : row # None /\ row' = [row EXCEPT !.override = forced]
      BY <2>4 DEF SetSide
    <3>2. QED  BY <3>1, <1>a DEF SameLink, Row
  <2>5. QED
    BY <2>1, <2>2, <2>3, <2>4
       DEF Quiet, Apply, ApplyRead, Swap, SwapFails, RecordApplied, Loop, LoopSync, LoopApply,
           asking, Process, Requested, Automatic, Start, Exit, Remove, SyncNow, FileRoutes, Toggle, Upload,
           DeleteFile, Publish, vars
<1>3. Stays \/ Aside
  <2>1. CASE Apply \/ RecordApplied
    BY <2>1, ApplyRests
  <2>2. CASE Loop \/ Process \/ \E mass \in BOOLEAN : SyncNow(mass)
    BY <2>2, AsksStay
  <2>3. CASE UNCHANGED <<lockq, op>>
    BY <2>3, <1>a, LockStays
  <2>4. QED
    BY <2>1, <2>2, <2>3
       DEF Quiet, Remove, SetSide, FileRoutes, Toggle, Upload, DeleteFile, Publish, vars
<1>4. QED  BY <1>1, <1>2, <1>3


-----------------------------------------------------------------------------
(***************************************************************************)
(* The entries kept are those of the manifest whose etag is kept.          *)
(***************************************************************************)
\* While nobody else changes the link, what a session has loaded of it is there.
SnapIsKept ==
    row # None /\ row.src = op.snap.src =>
       /\ row.etag = op.snap.etag /\ row.entries = op.snap.entries
       /\ ~stale => row.wide = op.snap.wide

ReadIsTrue ==
    /\ op.pc # "fetch" =>
          IF op.fresh THEN op.entries = Under(op.snap.wide, op.new.etag)
          ELSE op.new.etag = op.snap.etag /\ op.entries = Under(op.snap.wide, op.snap.entries)
    /\ op.pc = "inspect" => op.new.entries = op.snap.entries
    /\ op.pc \in {"download", "apply"} => op.new.entries = op.entries

Cached == CacheIsTheManifest /\ (Syncing => SnapIsKept /\ ReadIsTrue)

LEMMA CacheRests ==
    ASSUME CacheIsTheManifest', ~Syncing'
    PROVE  Cached'
  BY DEF Cached

\* Reading twice under the same folders reads the same.
LEMMA UnderTwice ==
    ASSUME NEW wide, NEW entries
    PROVE  Under(wide, Under(wide, entries)) = Under(wide, entries)
  BY DEF Under

\* The end of a synchronisation that has read the manifest.
LEMMA CacheAtEnd ==
    ASSUME Held, Cached, Syncing, op.pc # "fetch", NEW plans, Written(op.entries, plans),
           stale' = \/ row.src # op.snap.src
                    \/ IF op.fresh THEN row.wide # op.snap.wide ELSE stale
    PROVE  CacheIsTheManifest'
<1>1. SUFFICES ASSUME row' # None, row'.etag # None, ~stale'
               PROVE  row'.entries = Under(row'.wide, row'.etag)
  BY DEF CacheIsTheManifest
<1>2. /\ row # None /\ row.src = op.snap.src /\ row'.wide = row.wide
      /\ row'.etag = (IF op.new.etag # op.snap.etag THEN op.new.etag ELSE row.etag)
      /\ row'.entries = (IF op.entries # op.snap.entries THEN op.entries ELSE row.entries)
  BY <1>1 DEF Written, SameColumns
<1>3. /\ row.etag = op.snap.etag /\ row.entries = op.snap.entries
      /\ ~stale => row.wide = op.snap.wide
      /\ IF op.fresh THEN op.entries = Under(op.snap.wide, op.new.etag)
         ELSE op.new.etag = op.snap.etag /\ op.entries = Under(op.snap.wide, op.snap.entries)
  BY <1>2 DEF Cached, SnapIsKept, ReadIsTrue
<1>4. row'.etag = op.new.etag /\ row'.entries = op.entries
  BY <1>2, <1>3
<1>5. CASE op.fresh
  <2>1. row.wide = op.snap.wide
    BY <1>1, <1>2, <1>5
  <2>2. QED  BY <1>2, <1>3, <1>4, <1>5, <2>1
<1>6. CASE ~op.fresh
  <2>1. ~stale /\ row.wide = op.snap.wide
    BY <1>1, <1>2, <1>3, <1>6
  <2>2. row.etag # None /\ row.entries = Under(row.wide, row.etag)
    BY <1>1, <1>2, <1>3, <1>4, <1>6, <2>1 DEF Cached, CacheIsTheManifest
  <2>3. op.entries = Under(row.wide, Under(row.wide, row.etag))
    BY <1>3, <1>6, <2>1, <2>2
  <2>4. op.entries = Under(row.wide, row.etag)
    BY <2>3, UnderTwice
  <2>5. QED  BY <1>2, <1>3, <1>4, <1>6, <2>4
<1>7. QED  BY <1>5, <1>6

LEMMA SyncKeepsCache ==
    ASSUME Held, Cached, Sync
    PROVE  Cached'
<1>a. Lock /\ WorkIsKnown /\ row \in Row \cup {None} /\ CacheIsTheManifest /\ Owns("sync")
  BY TypeParts DEF Held, Cached, Sync, SyncRead, FetchFails, Fetch, InspectFails, MakePlan,
                  DownloadFails, Settle, SyncApply, SyncApplyFails
<1>b. Syncing => /\ op \in SyncOp /\ SyncInHand /\ op.snap \in Row /\ op.new \in Row
                 /\ op.new.plan = op.snap.plan /\ SnapIsKept /\ ReadIsTrue
  BY <1>a, InHand DEF SyncOp, WorkIsKnown, SyncInHand, SyncKeeps, Cached
<1>c. ASSUME op' = None PROVE ~Syncing'
  BY <1>c DEF Syncing
<1>1. CASE SyncRead
  <2>1. CacheIsTheManifest'
    BY <1>1, <1>a DEF SyncRead, CacheIsTheManifest, history
  <2>2. CASE op' = None
    BY <2>1, <2>2, <1>c, CacheRests
  <2>3. CASE op' # None
    <3>1. /\ row # None /\ UNCHANGED <<row, stale>>
          /\ op' = [pc |-> "fetch", snap |-> row, new |-> row, plan |-> None,
                    entries |-> None, local |-> None, fresh |-> FALSE]
      BY <1>1, <2>3 DEF SyncRead, Release, history
    <3>2. SnapIsKept' /\ ReadIsTrue'
      BY <3>1 DEF SnapIsKept, ReadIsTrue
    <3>3. QED  BY <2>1, <3>2 DEF Cached
  <2>4. QED  BY <2>2, <2>3
<1>2. CASE FetchFails
  <2>1. Syncing /\ op.new = op.snap /\ op' = None /\ UNCHANGED stale
    BY <1>2, <1>b DEF FetchFails, Syncing, SyncInHand, CommitSync, Release, history
  <2>2. row' = row \/ (row # None /\ row'.wide = row.wide /\ row'.etag = row.etag /\ row'.entries = row.entries)
    <3>1. CASE SameRow /\ Commit(op.new)
      BY <1>a, <1>b, <2>1, <3>1, CommitColumns DEF SameRow
    <3>2. CASE UNCHANGED row
      BY <3>2
    <3>3. QED  BY <1>2, <3>1, <3>2 DEF FetchFails, CommitSync
  <2>3. CacheIsTheManifest'
    BY <1>a, <2>1, <2>2 DEF CacheIsTheManifest
  <2>4. QED  BY <2>1, <2>3, <1>c, CacheRests
<1>3. CASE Fetch
  <2>1. Syncing /\ op \in SyncOp /\ op.new = op.snap /\ op.snap \in Row /\ UNCHANGED <<row, stale>>
    BY <1>3, <1>b DEF Fetch, Syncing, SyncInHand, history
  <2>2. CacheIsTheManifest'
    BY <1>a, <2>1 DEF CacheIsTheManifest
  <2>3. CASE op' = None
    BY <2>2, <2>3, <1>c, CacheRests
  <2>4. CASE op' # None
    <3>1. PICK answer \in IF row.src = op.snap.src THEN {Announced}
                          ELSE {Answer(m, {}) : m \in Manifests} :
            LET same == Listed(op.snap.entries) # {} /\ op.snap.etag = answer
            IN  op' = [op EXCEPT
                   !.pc = "inspect", !.fresh = ~same,
                   !.entries = Under(op.snap.wide, IF same THEN op.snap.entries ELSE answer),
                   !.local = ScanLocal(op.snap.wide),
                   !.new.etag = IF same THEN op.snap.etag ELSE answer]
      BY <1>3, <2>4 DEF Fetch, Release
    <3> DEFINE same == Listed(op.snap.entries) # {} /\ op.snap.etag = answer
    <3>2. answer \in Entries
      BY <3>1, AnswerType, TypeParts DEF Announced, Held, World
    <3>3. /\ op' = [op EXCEPT
                   !.pc = "inspect", !.fresh = ~same,
                   !.entries = Under(op.snap.wide, IF same THEN op.snap.entries ELSE answer),
                   !.local = ScanLocal(op.snap.wide),
                   !.new.etag = IF same THEN op.snap.etag ELSE answer]
          /\ same \in BOOLEAN
      BY <3>1
    <3> HIDE DEF same
    <3>4. /\ op'.pc = "inspect" /\ op'.fresh = ~same /\ op'.snap = op.snap
          /\ op'.entries = Under(op.snap.wide, IF same THEN op.snap.entries ELSE answer)
          /\ op'.new.etag = (IF same THEN op.snap.etag ELSE answer)
          /\ op'.new.entries = op.new.entries
      BY <2>1, <3>3 DEF SyncOp, Row
    <3>5. ReadIsTrue'
      BY <2>1, <3>3, <3>4 DEF ReadIsTrue
    <3>6. SnapIsKept'
      BY <1>b, <2>1, <3>4 DEF SnapIsKept
    <3>7. QED  BY <2>2, <3>5, <3>6 DEF Cached
  <2>5. QED  BY <2>3, <2>4
<1>4. CASE InspectFails
  <2>1. /\ Syncing /\ op.pc = "inspect" /\ Commit(op.new) /\ op' = None
        /\ stale' = (stale \/ op.fresh)
    BY <1>4 DEF InspectFails, Syncing, CommitSync, Release
  <2>2. /\ row # None /\ row'.wide = row.wide /\ op.new.entries = op.snap.entries
        /\ row'.etag = (IF op.new.etag # op.snap.etag THEN op.new.etag ELSE row.etag)
        /\ row'.entries = row.entries
    BY <1>a, <1>b, <2>1, CommitColumns DEF SyncInHand, SameRow, SyncKeeps, ReadIsTrue
  <2>3. CacheIsTheManifest'
    BY <1>a, <1>b, <2>1, <2>2 DEF CacheIsTheManifest, ReadIsTrue
  <2>4. QED  BY <2>1, <2>3, <1>c, CacheRests
<1>5. CASE MakePlan
  <2>1. /\ Syncing /\ op.pc = "inspect"
        /\ \/ /\ Written(op.entries, {None}) /\ op' = None
              /\ stale' = \/ row.src # op.snap.src
                          \/ IF op.fresh THEN row.wide # op.snap.wide ELSE stale
           \/ /\ op' = [op EXCEPT !.pc = "download", !.plan = Made, !.new = Noted]
              /\ UNCHANGED <<row, stale, lockq>>
    BY <1>5, MakePlanEffect
  <2>2. CASE /\ Written(op.entries, {None}) /\ op' = None
             /\ stale' = \/ row.src # op.snap.src
                         \/ IF op.fresh THEN row.wide # op.snap.wide ELSE stale
    BY <2>1, <2>2, <1>c, CacheAtEnd, CacheRests
  <2>3. CASE /\ op' = [op EXCEPT !.pc = "download", !.plan = Made, !.new = Noted]
             /\ UNCHANGED <<row, stale, lockq>>
    <3>1. /\ op'.pc = "download" /\ op'.new = Noted /\ op'.snap = op.snap
          /\ op'.entries = op.entries /\ op'.fresh = op.fresh
      BY <1>b, <2>1, <2>3 DEF SyncOp
    <3>2. op'.new.entries = op.entries /\ op'.new.etag = op.new.etag
      BY <2>1, <3>1, NotedType
    <3>3. SnapIsKept' /\ ReadIsTrue'
      BY <1>b, <2>1, <2>3, <3>1, <3>2 DEF SnapIsKept, ReadIsTrue
    <3>4. CacheIsTheManifest'
      BY <1>a, <2>3 DEF CacheIsTheManifest
    <3>5. QED  BY <3>3, <3>4 DEF Cached
  <2>4. QED  BY <2>1, <2>2, <2>3
<1>6. CASE DownloadFails \/ Settle \/ SyncApply \/ SyncApplyFails
  <2>1. /\ Syncing /\ op.pc \in {"download", "apply"} /\ op.new.entries = op.entries
        /\ op.plan \in Plans /\ op.new.plan \in Plans \cup {None}
    BY <1>6, <1>b DEF DownloadFails, Settle, SyncApply, SyncApplyFails, Syncing, ReadIsTrue,
                      SyncInHand, Row
  <2>2. ASSUME NEW plan \in Plans \cup {None},
               CommitRead([op.new EXCEPT !.plan = plan]) \/ (plan = op.new.plan /\ CommitRead(op.new))
        PROVE  Cached'
    <3>1. /\ Written(op.new.entries, {plan}) /\ op' = None
          /\ stale' = \/ row.src # op.snap.src
                      \/ IF op.fresh THEN row.wide # op.snap.wide ELSE stale
      BY <2>1, <2>2, EndWrites
    <3>2. CacheIsTheManifest'
      BY <2>1, <3>1, CacheAtEnd
    <3>3. QED  BY <3>1, <3>2, <1>c, CacheRests
  <2>3. CASE op' = [op EXCEPT !.pc = "apply"] /\ UNCHANGED <<row, stale>>
    <3>1. /\ op'.pc = "apply" /\ op'.new = op.new /\ op'.snap = op.snap
          /\ op'.entries = op.entries /\ op'.fresh = op.fresh
      BY <1>b, <2>1, <2>3 DEF SyncOp
    <3>2. SnapIsKept' /\ ReadIsTrue'
      BY <1>b, <2>1, <2>3, <3>1 DEF SnapIsKept, ReadIsTrue
    <3>3. CacheIsTheManifest'
      BY <1>a, <2>3 DEF CacheIsTheManifest
    <3>4. QED  BY <3>2, <3>3 DEF Cached
  <2>4. CASE CommitRead([op.new EXCEPT !.plan = None])
    BY <2>2, <2>4
  <2>5. CASE CommitRead([op.new EXCEPT !.plan = op.plan])
    BY <2>1, <2>2, <2>5
  <2>6. CASE CommitRead(op.new)
    BY <2>1, <2>2, <2>6
  <2>7. QED
    BY <1>6, <2>3, <2>4, <2>5, <2>6 DEF DownloadFails, Settle, SyncApply, SyncApplyFails
<1>7. QED
  BY <1>1, <1>2, <1>3, <1>4, <1>5, <1>6 DEF Sync

LEMMA CacheKept ==
    ASSUME Held, Cached, [Next]_vars
    PROVE  Cached'
<1>a. Lock /\ WorkIsKnown /\ row \in Row \cup {None} /\ CacheIsTheManifest
  BY TypeParts DEF Held, Cached
<1>b. acts \in Nat /\ (Syncing => op.snap.src <= acts /\ op.snap.src \in Nat)
  BY <1>a, InHand, TypeParts, LauncherAssumption
     DEF Held, WorkIsKnown, SnapIsOlder, SyncOp, Row, World
<1>1. CASE Sync
  BY <1>1, SyncKeepsCache
<1>2. CASE Quiet
  <2>1. SameLink /\ UNCHANGED stale /\ (Stays \/ ~Syncing')
    BY <1>2, QuietSteps DEF Aside
  <2>2. CacheIsTheManifest'
    BY <1>a, <2>1 DEF SameLink, CacheIsTheManifest
  <2>3. CASE Stays /\ Syncing'
    BY <2>1, <2>2, <2>3 DEF Cached, Stays, SnapIsKept, ReadIsTrue, SameLink
  <2>4. CASE ~Syncing'
    BY <2>2, <2>4, CacheRests
  <2>5. QED  BY <2>1, <2>3, <2>4
<1>3. CASE Push
  <2>1. ~Syncing'
    <3>1. CASE PushRead
      BY <3>1, <1>a, PushBegins, LockTaken
    <3>2. CASE PushSend \/ PushFails
      BY <3>2, PushSent
    <3>3. CASE PushSave
      BY <3>3 DEF PushSave, Release, Syncing
    <3>4. QED  BY <1>3, <3>1, <3>2, <3>3 DEF Push
  <2>2. /\ UNCHANGED stale
        /\ row' = row \/ (row # None /\ row'.wide = row.wide /\ row'.etag = row.etag /\ row'.entries = row.entries)
    <3>1. CASE PushSave
      <4>1. Pushing /\ UNCHANGED stale /\ ((row # None /\ Commit(op.new)) \/ UNCHANGED row)
        BY <3>1 DEF PushSave, SameRow, Pushing, history
      <4>2. QED  BY <4>1, PushWrites
    <3>2. QED  BY <1>3, <3>1 DEF Push, PushRead, PushSend, PushFails, history
  <2>3. CacheIsTheManifest'
    BY <1>a, <2>2 DEF CacheIsTheManifest
  <2>4. QED  BY <2>1, <2>3, CacheRests
<1>4. CASE Busy \/ Crash
  BY <1>4, <1>a, CacheRests DEF Busy, Crash, Release, Syncing, CacheIsTheManifest
<1>5. ASSUME NEW token \in BOOLEAN, Link(token) PROVE Cached'
  <2>1. /\ UNCHANGED <<lockq, op>> /\ row' = NewRow(token, acts + 1)
    BY <1>5 DEF Link
  <2>2. row' # None => row'.etag = None /\ row'.src = acts + 1
    BY <2>1 DEF NewRow
  <2>3. CacheIsTheManifest'
    BY <2>2 DEF CacheIsTheManifest
  <2>4. Syncing' => SnapIsKept' /\ ReadIsTrue'
    BY <1>b, <2>1, <2>2 DEF Cached, Syncing, Owns, SnapIsKept, ReadIsTrue
  <2>5. QED  BY <2>3, <2>4 DEF Cached
<1>6. ASSUME NEW r \in Requests, Configure(r) PROVE Cached'
  <2>1. /\ UNCHANGED <<lockq, op>> /\ row # None /\ row'.wide = r.wide
        /\ r.move => row'.src = acts + 1 /\ row'.etag = None
        /\ ~r.move => row'.src = row.src /\ row'.etag = row.etag /\ row'.entries = row.entries
        /\ stale' = (~r.move /\ (stale \/ r.wide # row.wide))
    BY <1>6, Configured DEF Configure, Held
  <2>2. CacheIsTheManifest'
    BY <1>a, <2>1 DEF CacheIsTheManifest
  <2>3. Syncing' => SnapIsKept' /\ ReadIsTrue'
    <3>1. SUFFICES ASSUME Syncing' PROVE SnapIsKept' /\ ReadIsTrue'
      OBVIOUS
    <3>2. Syncing /\ SnapIsKept /\ ReadIsTrue
      BY <2>1, <3>1 DEF Cached, Syncing, Owns
    <3>3. ReadIsTrue'
      BY <2>1, <3>2 DEF ReadIsTrue
    <3>4. CASE r.move
      <4>1. row'.src # op'.snap.src
        BY <1>b, <2>1, <3>2, <3>4
      <4>2. QED  BY <3>3, <4>1 DEF SnapIsKept
    <3>5. CASE ~r.move
      <4>1. stale' = (stale \/ r.wide # row.wide)
        BY <2>1, <3>5
      <4>2. QED  BY <2>1, <3>2, <3>3, <3>5, <4>1 DEF SnapIsKept
    <3>6. QED  BY <3>4, <3>5
  <2>4. QED  BY <2>2, <2>3 DEF Cached
<1>7. QED
  BY <1>1, <1>2, <1>3, <1>4, <1>5, <1>6 DEF Next, Holder, User, Routes, Quiet


-----------------------------------------------------------------------------
(***************************************************************************)
(* What is believed published is what the file server was told.            *)
(***************************************************************************)
Known ==
    row # None /\ row.pushed >= row.rev /\ row.rev > 0 /\ ~astray => told = row.disabled

\* A publication only adds a revision to what it has loaded, of which nobody else
\* writes more than a new token.
InPush ==
    /\ op.new.pushed \in {op.snap.pushed, op.new.rev}
    /\ op.snap.pushed < op.new.rev
    /\ op.pc = "send" => op.new.pushed = op.snap.pushed
    /\ SameRow => /\ row.rev = op.snap.rev /\ row.disabled = op.snap.disabled
                  /\ row.pushed \in {0, op.snap.pushed}
                  /\ row.src # op.snap.src => astray
    /\ Unrecorded /\ SameRow => astray \/ told = op.new.disabled

\* Only what is sent and not recorded may be told and not known.
Published ==
    /\ row # None => row.pushed <= row.rev
    /\ Known \/ (Unrecorded /\ SameRow)
    /\ Pushing => InPush

LEMMA PublicationRests ==
    ASSUME Known', ~Pushing', row' # None => row'.pushed <= row'.rev
    PROVE  Published'
  BY DEF Published

LEMMA PushKeepsPublished ==
    ASSUME Held, Published, Push
    PROVE  Published'
<1>a. Lock /\ WorkIsKnown /\ row \in Row \cup {None} /\ (row # None => row.pushed <= row.rev)
  BY TypeParts DEF Held, Published
<1>1. CASE PushRead
  <2>1. /\ row \in Row /\ row # None /\ lockq = <<>>
        /\ UNCHANGED <<told, row, astray>>
        /\ op' \in PushOp /\ op'.snap = row /\ op'.new.pushed = row.pushed
        /\ \/ op'.new.rev = row.rev + 1
           \/ row.rev = 0 /\ op'.new.rev = 1
           \/ op'.new.rev = row.rev /\ row.pushed < row.rev
    BY <1>1, PushBegins DEF history
  <2>2. row.pushed \in Nat /\ row.rev \in Nat /\ row.pushed <= row.rev
    BY <1>a, <2>1 DEF Row
  <2>3. row.pushed < op'.new.rev
    BY <2>1, <2>2
  <2>4. Known /\ ~Unrecorded'
    BY <2>1 DEF Published, Unrecorded, Owns
  <2>5. InPush'
    BY <2>1, <2>3, <2>4 DEF InPush
  <2>6. QED  BY <1>a, <2>1, <2>4, <2>5 DEF Published, Known
<1>2. CASE PushSend
  <2>1. /\ Pushing /\ Pushing' /\ op.pc = "send" /\ op'.pc = "save" /\ op'.snap = op.snap
        /\ op'.new.rev = op.new.rev /\ op'.new.disabled = op.new.disabled
        /\ op'.new.pushed = op.new.rev /\ UNCHANGED row
    BY <1>2, PushSent DEF PushSend
  <2>2. InPush /\ SnapIsOlder /\ op.new.pushed = op.snap.pushed /\ ~Unrecorded
    BY <1>a, <2>1 DEF Published, InPush, WorkIsKnown, Unrecorded
  <2>3. Known
    BY <2>2 DEF Published
  <2>4. CASE row # None /\ row.src = op.snap.src
    <3>1. SameRow /\ told' = op.new.disabled /\ astray' = FALSE
      BY <1>2, <2>2, <2>4 DEF PushSend, SnapIsOlder, SameRow
    <3>2. op'.new.pushed # op'.snap.pushed
      <4>1. op.snap.pushed < op.new.rev
        BY <2>2 DEF InPush
      <4>2. op.snap.pushed \in Nat /\ op.new.rev \in Nat
        BY <1>a, <2>1, InHand DEF PushOp, Row
      <4>3. QED  BY <2>1, <4>1, <4>2
    <3>3. Unrecorded' /\ SameRow'
      BY <2>1, <3>1, <3>2 DEF Unrecorded, Pushing, SameRow
    <3>4. InPush'
      BY <2>1, <2>2, <2>4, <3>1 DEF InPush, SameRow
    <3>5. QED  BY <1>a, <2>1, <3>3, <3>4 DEF Published
  <2>5. CASE ~(row # None /\ row.src = op.snap.src)
    <3>1. UNCHANGED <<told, astray>>
      BY <1>2, <2>5 DEF PushSend
    <3>2. InPush'
      BY <2>1, <2>2, <2>5, <3>1 DEF InPush, SameRow
    <3>3. QED  BY <1>a, <2>1, <2>3, <3>1, <3>2 DEF Published, Known
  <2>6. QED  BY <2>4, <2>5
<1>3. CASE PushFails
  <2>1. /\ Pushing /\ Pushing' /\ op.pc = "send" /\ op'.pc = "save" /\ op'.snap = op.snap
        /\ op'.new.rev = op.new.rev /\ op'.new.disabled = op.new.disabled
        /\ op'.new.pushed = op.new.pushed /\ UNCHANGED <<row, told, astray>>
    BY <1>3, PushSent DEF PushFails, history
  <2>2. InPush /\ op.new.pushed = op.snap.pushed /\ ~Unrecorded /\ ~Unrecorded'
    BY <1>a, <2>1 DEF Published, InPush, Unrecorded
  <2>3. Known
    BY <2>2 DEF Published
  <2>4. InPush'
    BY <2>1, <2>2 DEF InPush, SameRow
  <2>5. QED  BY <1>a, <2>1, <2>3, <2>4 DEF Published, Known
<1>4. CASE PushSave
  <2>1. Pushing /\ op' = None /\ UNCHANGED <<told, astray>> /\ lockq # <<>> /\ lockq' = Tail(lockq)
    BY <1>4, <1>a, InHand DEF PushSave, Pushing, Release, history
  <2>2. ~Pushing'
    BY <1>a, <2>1, LockPasses DEF Rests, Advances
  <2>3. InPush /\ op \in PushOp /\ op.new \in Row /\ op.snap \in Row
    BY <1>a, <2>1, InHand DEF Published, PushOp
  <2>4. CASE SameRow /\ Commit(op.new)
    <3>1. /\ row # None
          /\ row'.rev = (IF op.new.rev # op.snap.rev THEN op.new.rev ELSE row.rev)
          /\ row'.pushed = (IF op.new.pushed # op.snap.pushed THEN op.new.pushed ELSE row.pushed)
          /\ row'.disabled =
                (IF op.new.disabled # op.snap.disabled THEN op.new.disabled ELSE row.disabled)
      BY <2>1, <2>4, PushWrites DEF SameRow
    <3>2. /\ row.rev = op.snap.rev /\ row.disabled = op.snap.disabled
          /\ row.pushed \in {0, op.snap.pushed}
          /\ op.new.pushed \in {op.snap.pushed, op.new.rev} /\ op.snap.pushed < op.new.rev
          /\ op.snap.pushed \in Nat /\ op.new.rev \in Nat
      BY <2>3, <2>4 DEF InPush, Row
    <3>3. row'.rev = op.new.rev /\ row'.disabled = op.new.disabled
      BY <3>1, <3>2
    <3>4. CASE op.new.pushed = op.snap.pushed
      <4>1. row'.pushed < row'.rev /\ row'.pushed \in Nat /\ row'.rev \in Nat
        BY <3>1, <3>2, <3>3, <3>4
      <4>2. ~(row'.pushed >= row'.rev) /\ row'.pushed <= row'.rev
        BY <4>1
      <4>3. QED  BY <2>2, <4>2, PublicationRests DEF Known
    <3>5. CASE op.new.pushed # op.snap.pushed
      <4>1. row'.pushed = row'.rev /\ row'.rev \in Nat
        BY <3>1, <3>2, <3>3, <3>5
      <4>2. astray \/ told = op.new.disabled
        BY <2>1, <2>3, <2>4, <3>5 DEF InPush, Unrecorded, Pushing
      <4>3. Known' /\ row'.pushed <= row'.rev
        BY <2>1, <3>3, <4>1, <4>2 DEF Known
      <4>4. QED  BY <2>2, <4>3, PublicationRests
    <3>6. QED  BY <3>4, <3>5
  <2>5. CASE UNCHANGED row /\ ~(op.new # op.snap /\ SameRow)
    <3>1. Known
      BY <2>5 DEF Published, Unrecorded
    <3>2. QED  BY <1>a, <2>1, <2>2, <2>5, <3>1, PublicationRests DEF Known
  <2>6. QED  BY <1>4, <2>4, <2>5 DEF PushSave
<1>5. QED  BY <1>1, <1>2, <1>3, <1>4 DEF Push

\* A synchronisation writes none of what is published.
LEMMA SyncKeepsPublished ==
    ASSUME Held, Sync
    PROVE  /\ UNCHANGED <<told, astray>> /\ ~Pushing /\ ~Pushing'
           /\ row' # None => /\ row # None /\ row'.rev = row.rev
                             /\ row'.pushed = row.pushed /\ row'.disabled = row.disabled
<1>a. Lock /\ WorkIsKnown /\ row \in Row \cup {None} /\ Owns("sync") /\ lockq # <<>>
  BY TypeParts DEF Held, Owns, Sync, SyncRead, FetchFails, Fetch, InspectFails, MakePlan,
                  DownloadFails, Settle, SyncApply, SyncApplyFails
<1>b. Syncing => op \in SyncOp /\ SyncInHand /\ op.snap \in Row /\ op.new \in Row
                 /\ op.new.plan \in Plans \cup {None} /\ SyncKeeps
  BY <1>a, InHand DEF SyncOp, WorkIsKnown, SyncInHand, Row
<1>1. UNCHANGED <<told, astray>>
  BY DEF Sync, SyncRead, FetchFails, Fetch, InspectFails, MakePlan, DownloadFails, Settle,
         SyncApply, SyncApplyFails, history
<1>2. ~Pushing /\ ~Pushing'
  <2>1. CASE Release
    <3>1. op' = None /\ lockq' = Tail(lockq)
      BY <2>1 DEF Release
    <3>2. Advances
      BY <1>a, <3>1 DEF Advances
    <3>3. QED  BY <1>a, <3>1, <3>2, LockPasses DEF Rests, Pushing, Owns
  <2>2. CASE ~Release
    <3>1. UNCHANGED lockq
      BY <2>2 DEF Sync, SyncRead, FetchFails, Fetch, InspectFails, MakePlan, DownloadFails,
                  Settle, SyncApply, SyncApplyFails, CommitRead, CommitSync
    <3>2. QED  BY <1>a, <3>1 DEF Pushing, Owns
  <2>3. QED  BY <2>1, <2>2
<1> DEFINE Same == row' # None => /\ row # None /\ row'.rev = row.rev
                                  /\ row'.pushed = row.pushed /\ row'.disabled = row.disabled
<1>3. Same
  <2>1. CASE UNCHANGED row
    BY <2>1
  <2>2. CASE SameRow /\ Commit(op.new) /\ Syncing
    BY <1>a, <1>b, <2>2, CommitColumns DEF SameRow, SyncKeeps
  <2>3. CASE MakePlan
    <3>1. Written(op.entries, {None}) \/ UNCHANGED row
      BY <2>3, MakePlanEffect
    <3>2. QED  BY <3>1 DEF Written, SameColumns
  <2>4. ASSUME Syncing, op.pc # "fetch", NEW plan \in Plans \cup {None},
               CommitRead([op.new EXCEPT !.plan = plan]) \/ (plan = op.new.plan /\ CommitRead(op.new))
        PROVE  Same
    <3>1. Written(op.new.entries, {plan})
      BY <2>4, EndWrites
    <3>2. QED  BY <3>1 DEF Written, SameColumns
  <2>5. CASE DownloadFails \/ Settle \/ SyncApply \/ SyncApplyFails
    <3>1. /\ Syncing /\ op.pc # "fetch" /\ op.plan \in Plans /\ op.new.plan \in Plans \cup {None}
      BY <1>b, <2>5 DEF DownloadFails, Settle, SyncApply, SyncApplyFails, Syncing, SyncInHand
    <3>2. CASE CommitRead(op.new)
      BY <2>4, <3>1, <3>2
    <3>3. CASE CommitRead([op.new EXCEPT !.plan = None])
      BY <2>4, <3>1, <3>3
    <3>4. CASE CommitRead([op.new EXCEPT !.plan = op.plan])
      BY <2>4, <3>1, <3>4
    <3>5. QED
      BY <2>1, <2>5, <3>2, <3>3, <3>4 DEF DownloadFails, Settle, SyncApply, SyncApplyFails
  <2>6. CASE SyncRead \/ Fetch
    BY <2>1, <2>6 DEF SyncRead, Fetch
  <2>7. CASE FetchFails \/ InspectFails
    <3>1. Syncing /\ (UNCHANGED row \/ (SameRow /\ Commit(op.new)))
      BY <1>b, <2>7 DEF FetchFails, InspectFails, Syncing, SyncInHand, CommitSync
    <3>2. QED  BY <2>1, <2>2, <3>1
  <2>8. QED  BY <2>3, <2>5, <2>6, <2>7 DEF Sync
<1>4. QED  BY <1>1, <1>2, <1>3

LEMMA PublishedKept ==
    ASSUME Held, Published, [Next]_vars
    PROVE  Published'
<1>a. /\ Lock /\ WorkIsKnown /\ row \in Row \cup {None} /\ (row # None => row.pushed <= row.rev)
      /\ ~Pushing => Known
  BY TypeParts DEF Held, Published, Unrecorded, Pushing
<1>b. acts \in Nat /\ (Pushing => /\ op.snap.id <= acts /\ op.snap.id \in Nat
                                  /\ op.snap.src <= acts /\ op.snap.src \in Nat)
  BY <1>a, InHand, TypeParts, LauncherAssumption
     DEF Held, WorkIsKnown, SnapIsOlder, PushOp, Row, World
<1>1. CASE Push
  BY <1>1, PushKeepsPublished
<1>2. CASE Sync
  <2>1. /\ UNCHANGED <<told, astray>> /\ ~Pushing /\ ~Pushing'
        /\ row' # None => /\ row # None /\ row'.rev = row.rev
                          /\ row'.pushed = row.pushed /\ row'.disabled = row.disabled
    BY <1>2, SyncKeepsPublished
  <2>2. QED  BY <1>a, <2>1, PublicationRests DEF Known
<1>3. CASE Quiet
  <2>1. SameLink /\ UNCHANGED <<told, astray>> /\ (Stays \/ Aside)
    BY <1>3, QuietSteps
  <2>2. CASE ~Pushing'
    <3>1. ~Pushing
      BY <2>1, <2>2 DEF Stays, Aside
    <3>2. QED  BY <1>a, <2>1, <2>2, <3>1, PublicationRests DEF Known, SameLink
  <2>3. CASE Pushing'
    <3>1. Pushing /\ op' = op
      BY <2>1, <2>3 DEF Stays, Aside
    <3>2. InPush
      BY <3>1 DEF Published
    <3>3. CASE row' = None
      <4>1. Known' /\ ~SameRow'
        BY <3>3 DEF Known, SameRow
      <4>2. InPush'
        BY <3>1, <3>2, <4>1 DEF InPush
      <4>3. QED  BY <3>3, <4>1, <4>2 DEF Published
    <3>4. CASE row' # None
      <4>1. /\ row # None /\ row'.id = row.id /\ row'.src = row.src /\ row'.rev = row.rev
            /\ row'.pushed = row.pushed /\ row'.disabled = row.disabled
        BY <2>1, <3>4 DEF SameLink
      <4>2. (SameRow' <=> SameRow) /\ (Unrecorded' <=> Unrecorded)
        BY <2>3, <3>1, <3>4, <4>1 DEF SameRow, Unrecorded, Pushing
      <4>3. InPush'
        BY <2>1, <3>1, <3>2, <4>1, <4>2 DEF InPush
      <4>4. QED  BY <1>a, <2>1, <4>1, <4>2, <4>3 DEF Published, Known
    <3>5. QED  BY <3>3, <3>4
  <2>4. QED  BY <2>2, <2>3
<1>4. CASE Busy \/ Crash
  <2>1. /\ op' = None /\ UNCHANGED <<told, row>> /\ astray' = (astray \/ Unrecorded)
        /\ lockq' = <<>> \/ (lockq # <<>> /\ lockq' = Tail(lockq))
    BY <1>4 DEF Busy, Crash, Release, Owns
  <2>2. ~Pushing'
    BY <1>a, <2>1, LockLetGo DEF Rests
  <2>3. Known'
    BY <2>1 DEF Published, Known
  <2>4. QED  BY <1>a, <2>1, <2>2, <2>3, PublicationRests
<1>5. ASSUME NEW token \in BOOLEAN, Link(token) PROVE Published'
  <2>1. UNCHANGED <<lockq, op>> /\ row' = NewRow(token, acts + 1)
    BY <1>5 DEF Link
  <2>2. row'.id = acts + 1 /\ row'.pushed = 0 /\ row'.rev = 0
    BY <2>1 DEF NewRow
  <2>3. Known'
    BY <2>2 DEF Known
  <2>4. Pushing' => InPush'
    <3>1. Pushing' => Pushing /\ ~SameRow'
      BY <1>b, <2>1, <2>2 DEF Pushing, Owns, SameRow
    <3>2. QED  BY <2>1, <3>1 DEF Published, InPush
  <2>5. QED  BY <2>2, <2>3, <2>4 DEF Published
<1>6. ASSUME NEW r \in Requests, Configure(r) PROVE Published'
  <2>1. /\ UNCHANGED <<lockq, op>> /\ row # None /\ row \in Row /\ row' \in Row
        /\ row'.id = row.id /\ row'.rev = row.rev /\ row'.disabled = row.disabled
        /\ row'.pushed = (IF r.token = "new" THEN 0 ELSE row.pushed)
    BY <1>6, <1>a, Configured DEF Configure, Held
  <2>2. row'.pushed \in Nat /\ row'.rev \in Nat /\ row'.pushed <= row'.rev
    BY <1>a, <2>1 DEF Row
  <2>3. (SameRow' <=> SameRow) /\ (Unrecorded' <=> Unrecorded) /\ (Pushing' <=> Pushing)
    <3>1. row' # None
      BY <2>1, NoneIsNoRecord
    <3>2. QED  BY <2>1, <3>1 DEF SameRow, Unrecorded, Pushing, Owns
  <2>4. CASE r.move
    <3>1. astray'
      BY <1>6, <2>4 DEF Configure
    <3>2. Pushing' => InPush'
      BY <2>1, <2>3, <3>1 DEF Published, InPush
    <3>3. QED  BY <2>2, <3>1, <3>2 DEF Published, Known
  <2>5. CASE ~r.move
    <3>1. /\ UNCHANGED told /\ row'.src = row.src
          /\ astray' = (astray /\ (r.token # "new" \/ Owns("push")))
      BY <1>6, <2>5, Configured DEF Configure, Held
    <3>2. Pushing' => InPush'
      BY <2>1, <2>3, <3>1 DEF Published, InPush, Pushing
    <3>3. CASE r.token = "new"
      <4>1. Known'
        BY <2>1, <2>2, <3>3 DEF Known
      <4>2. QED  BY <2>2, <3>2, <4>1 DEF Published
    <3>4. CASE r.token # "new"
      BY <2>1, <2>2, <2>3, <3>1, <3>2, <3>4 DEF Published, Known
    <3>5. QED  BY <3>3, <3>4
  <2>6. QED  BY <2>4, <2>5
<1>7. QED
  BY <1>1, <1>2, <1>3, <1>4, <1>5, <1>6 DEF Next, Holder, User, Routes, Quiet

\* CacheIsTrue: what MSM keeps of the file server is what is there, however the
\* synchronisations, the publications and the settings page interleave.
THEOREM CacheIsTrueCorrect == Spec => []CacheIsTrue
<1>1. Init => Cached /\ Published
  <2>1. SUFFICES ASSUME Init PROVE Cached /\ Published
    OBVIOUS
  <2>2. /\ op = None /\ lockq = <<>> /\ told = {}
        /\ row = [NewRow(TRUE, 0) EXCEPT !.rev = 1, !.pushed = 1]
    BY <2>1 DEF Init
  <2>3. row.etag = None /\ row.pushed = 1 /\ row.rev = 1 /\ row.disabled = {}
    BY <2>2 DEF NewRow
  <2>4. Cached
    BY <2>2, <2>3 DEF Cached, CacheIsTheManifest, Syncing
  <2>5. Published
    <3>1. Known /\ ~Pushing
      BY <2>2, <2>3 DEF Known, Pushing, Owns
    <3>2. row.pushed <= row.rev
      BY <2>3
    <3>3. QED  BY <3>1, <3>2 DEF Published
  <2>6. QED  BY <2>4, <2>5
<1>2. Held /\ Cached /\ Published /\ [Next]_vars => Held' /\ Cached' /\ Published'
  BY HeldKept, CacheKept, PublishedKept
<1>3. Cached /\ Published => CacheIsTrue
  BY DEF Cached, Published, Known, Unrecorded, CacheIsTrue, PublishedIsKnown
<1>4. QED  BY HeldBegins, <1>1, <1>2, <1>3, PTL DEF Spec
=============================================================================
