---------------------------- MODULE BackupsProofs ----------------------------
(***************************************************************************)
(* Proofs about the backups of a server.                                   *)
(*                                                                         *)
(* Types and Phased (what the phase of a task says of its row, thread and  *)
(* archive) are inductive together; each safety property then has one      *)
(* strengthening of its own:                                               *)
(*   SavingIsHeld  some backup answers for a server that does not save, or *)
(*                 the save-on that ends it is already in the queue;       *)
(*   Alone         what a backup that is alone knows of the queue, of the  *)
(*                 saves and of its copy, phase by phase;                  *)
(*   EnoughLeft    a complete backup without archive was deleted, was      *)
(*                 withdrawn, or has enough newer ones with theirs;        *)
(*   Accounted and Guarded   why an archive is missing, and that the       *)
(*                 safety backup of a restore has ended when it applies.   *)
(* The last part is about what backups hold: what a restoration and its    *)
(* undoing do to a folder, for every set of paths and every content.       *)
(***************************************************************************)
EXTENDS Backups, BackupContent, FiniteSetTheorems, WellFoundedInduction, TLAPS

\* The sets of TypeOK, by name, and its conjuncts variable by variable.
Uses == {"backups", "failures", "cancels", "deletes", "restores", "starts", "stops", "restarts"}
Words == {"save-off", "flush", "save-on"}
Restores == [phase : {"none", "await", "apply", "extract"}, of : Backups \cup {0}]
Statuses == {"none", "RUNNING", "COMPLETED", "FAILED", "gone"}

Types ==
    /\ row \in [Backups -> Statuses]
    /\ phase \in [Backups -> Phases]
    /\ hot \in [Backups -> BOOLEAN] /\ heard \in [Backups -> BOOLEAN]
    /\ thread \in [Backups -> BOOLEAN] /\ archive \in [Backups -> BOOLEAN]
    /\ torn \in [Backups -> BOOLEAN]
    /\ cancelled \in [Backups -> Live \cup {"no"}]
    /\ victims \in [Backups -> SUBSET Backups]
    /\ safety \subseteq Backups /\ deleting \subseteq Backups /\ unwritten \subseteq Backups
    /\ restoring \in [Backups -> Restores]
    /\ world \in {"whole", "removed"}
    /\ on \in BOOLEAN /\ console \in BOOLEAN /\ saving \in BOOLEAN /\ settled \in BOOLEAN
    /\ purged \in BOOLEAN
    /\ stdin \in Seq(Words)
    /\ used \in [Uses -> Nat]

\* Types and the two facts of Phased about hot and victims are TypeOK.
LEMMA TypesAre ==
    ASSUME Types,
           \A b \in Backups : hot[b] => phase[b] \in {"flush", "copy"},
           \A b \in Backups : victims[b] # {} => phase[b] = "purging"
    PROVE  TypeOK
<1>1. {hot, heard, thread, archive, torn} \subseteq [Backups -> BOOLEAN]
  BY DEF Types
<1>2. {on, console, saving, settled, purged} \subseteq BOOLEAN
  BY DEF Types
<1> QED  BY <1>1, <1>2 DEF Types, TypeOK, Words, Restores, Statuses, Uses

\* A set of naturals has a smallest element.
LEMMA SmallestIn ==
    ASSUME NEW S \in SUBSET Nat, S # {}
    PROVE  \E n \in S : \A m \in S : n <= m
<1> DEFINE R == OpToRel(<, Nat)
<1>1. PICK n \in S : \A m \in S : ~(<<m, n>> \in R)
  <2>1. IsWellFoundedOn(R, Nat)
    BY NatLessThanWellFounded
  <2> HIDE DEF R
  <2> QED  BY <2>1, WFMin
<1>2. \A m \in Nat : m < n => <<m, n>> \in R
  BY DEF OpToRel
<1> HIDE DEF R
<1>3. ASSUME NEW m \in S PROVE n <= m
  <2>1. n \in Nat /\ m \in Nat
    OBVIOUS
  <2>2. ~(m < n)
    BY <1>1, <1>2, <2>1
  <2> QED  BY <2>1, <2>2
<1> QED  BY <1>3

\* A new backup takes an unused row.
LEMMA NewIdIs ==
    ASSUME Unused # {}
    PROVE  NewId \in Backups /\ row[NewId] = "none"
<1>1. Unused \in SUBSET Nat
  BY DEF Unused, Backups
<1>2. \E b \in Unused : \A c \in Unused : b <= c
  BY <1>1, SmallestIn
<1>3. NewId \in Unused
  BY <1>2 DEF NewId
<1> QED  BY <1>3 DEF Unused

LEMMA InitTypes == Init => Types
<1> SUFFICES ASSUME Init PROVE Types
  OBVIOUS
<1>1. stdin \in Seq(Words)
  BY DEF Init, Words
<1>2. used \in [Uses -> Nat]
  BY DEF Init, Uses
<1>3. restoring \in [Backups -> Restores]
  BY DEF Init, NoRestore, Restores
<1>4. cancelled \in [Backups -> Live \cup {"no"}] /\ phase \in [Backups -> Phases]
  BY DEF Init, Phases, Live
<1>5. row \in [Backups -> Statuses]
  BY DEF Init, Statuses
<1>6. /\ hot \in [Backups -> BOOLEAN] /\ heard \in [Backups -> BOOLEAN]
      /\ thread \in [Backups -> BOOLEAN] /\ archive \in [Backups -> BOOLEAN]
      /\ torn \in [Backups -> BOOLEAN] /\ victims \in [Backups -> SUBSET Backups]
  BY DEF Init
<1>7. /\ on \in BOOLEAN /\ console \in BOOLEAN /\ saving \in BOOLEAN /\ settled \in BOOLEAN
      /\ purged \in BOOLEAN /\ safety \subseteq Backups /\ deleting \subseteq Backups
      /\ unwritten \subseteq Backups
      /\ world \in {"whole", "removed"}
  BY DEF Init
<1> QED  BY <1>1, <1>2, <1>3, <1>4, <1>5, <1>6, <1>7 DEF Types

\* What the bounds count.
LEMMA SpendTypes ==
    ASSUME Types, NEW what \in Uses, NEW most, Spend(what, most)
    PROVE  /\ used' \in [Uses -> Nat]
           /\ used'[what] = used[what] + 1
           /\ \A w \in Uses \ {what} : used'[w] = used[w]
  BY DEF Spend, Types, Uses

LEMMA SendTypes ==
    ASSUME Types, NEW command \in Words, Send(command)
    PROVE  stdin' \in Seq(Words)
  BY DEF Send, Types

LEMMA SaveOnTypes ==
    ASSUME Types, NEW b \in Backups, SaveOn(b)
    PROVE  stdin' \in Seq(Words)
  BY SendTypes DEF SaveOn, Types, Words

LEMMA TornTypes ==
    ASSUME Types, TearsCopies
    PROVE  /\ torn' \in [Backups -> BOOLEAN]
           /\ \A b \in Backups : torn'[b] <=> torn[b] \/ thread[b]
  BY DEF TearsCopies, Types

LEMMA FailsTypes ==
    ASSUME Types, NEW b \in Backups, Fails(b)
    PROVE  /\ phase' \in [Backups -> Phases]
           /\ archive' \in [Backups -> BOOLEAN]
           /\ hot' \in [Backups -> BOOLEAN]
<1>1. phase' \in [Backups -> Phases]
  BY DEF Fails, Goes, Types, Phases, Live
<1>2. archive' \in [Backups -> BOOLEAN] /\ hot' \in [Backups -> BOOLEAN]
  BY DEF Fails, Types
<1> QED  BY <1>1, <1>2

\* A transaction, and the rows it writes.
LEMMA RowsTypes ==
    ASSUME Types, NEW b \in Backups, NEW status \in Statuses, NEW rows \in SUBSET Backups
    PROVE  Marked(b, status) \in [Backups -> Statuses] /\ Removed(rows) \in [Backups -> Statuses]
  BY DEF Types, Marked, Removed, Statuses

LEMMA CommitsTypes ==
    ASSUME Types, NEW result \in [Backups -> Statuses], NEW rows \in SUBSET Backups,
           Commits(result, rows)
    PROVE  /\ row' \in [Backups -> Statuses] /\ unwritten' \subseteq Backups
           /\ used' \in [Uses -> Nat]
           /\ unwritten \subseteq unwritten'
           /\ row' = result \/ (row' = row /\ rows \subseteq unwritten')
           /\ \A w \in Uses \ {"failures"} : used'[w] = used[w]
<1>1. CASE row' = result /\ UNCHANGED <<unwritten, used>>
  BY <1>1 DEF Types
<1>2. CASE Spend("failures", MaxFailures) /\ unwritten' = unwritten \cup rows /\ UNCHANGED row
  BY <1>2, SpendTypes DEF Types, Uses
<1> QED  BY <1>1, <1>2 DEF Commits

\* Types, action by action.
LEMMA ProgressTypes ==
    ASSUME Types, NEW b \in Backups, Progress(b)
    PROVE  Types'
<1> DEFINE Same == UNCHANGED <<row, phase, hot, heard, thread, archive, torn>>
<1>1. CASE Selected(b)
  <2>1. CASE on /\ Reachable
    <3>1. stdin' \in Seq(Words)
      BY <1>1, <2>1, SendTypes DEF Selected, Words
    <3>2. phase' \in [Backups -> Phases]
      BY <1>1, <2>1 DEF Selected, Goes, Types, Phases, Live
    <3>3. heard' \in [Backups -> BOOLEAN]
      BY <1>1, <2>1 DEF Selected, Types
    <3> QED  BY <1>1, <2>1, <3>1, <3>2, <3>3 DEF Types, Selected
  <2>2. CASE on /\ ~Reachable
    BY <1>1, <2>2, FailsTypes DEF Types, Selected
  <2>3. CASE ~on
    <3>1. phase' \in [Backups -> Phases] /\ thread' \in [Backups -> BOOLEAN]
      BY <1>1, <2>3 DEF Selected, Goes, Types, Phases, Live
    <3> QED  BY <1>1, <2>3, <3>1 DEF Types, Selected
  <2> QED  BY <2>1, <2>2, <2>3
<1>2. CASE WritingPaused(b)
  <2>1. CASE Reachable
    <3>1. stdin' \in Seq(Words)
      BY <1>2, <2>1, SendTypes DEF WritingPaused, Words
    <3>2. phase' \in [Backups -> Phases]
      BY <1>2, <2>1 DEF WritingPaused, Goes, Types, Phases, Live
    <3>3. heard' \in [Backups -> BOOLEAN] /\ hot' \in [Backups -> BOOLEAN]
      BY <1>2, <2>1 DEF WritingPaused, Types
    <3> QED  BY <1>2, <2>1, <3>1, <3>2, <3>3 DEF WritingPaused, Types
  <2>2. CASE ~Reachable
    BY <1>2, <2>2, FailsTypes DEF WritingPaused, Types
  <2> QED  BY <2>1, <2>2
<1>3. CASE WorldFlushed(b)
  <2>1. phase' \in [Backups -> Phases] /\ thread' \in [Backups -> BOOLEAN]
    BY <1>3 DEF WorldFlushed, Goes, Types, Phases, Live
  <2> QED  BY <1>3, <2>1 DEF WorldFlushed, Types, server
<1>4. CASE NotConfirmed(b)
  <2>1. used' \in [Uses -> Nat]
    BY <1>4, SpendTypes DEF NotConfirmed, Types, Uses
  <2>2. stdin' \in Seq(Words)
    BY <1>4, SendTypes DEF NotConfirmed, Words
  <2> QED  BY <1>4, <2>1, <2>2, FailsTypes DEF NotConfirmed, Types
<1>5. CASE ThreadWrites(b)
  <2>1. thread' \in [Backups -> BOOLEAN] /\ archive' \in [Backups -> BOOLEAN]
    BY <1>5 DEF ThreadWrites, Types
  <2> QED  BY <1>5, <2>1 DEF ThreadWrites, Types, server
<1>6. CASE ThreadStops(b)
  <2>1. thread' \in [Backups -> BOOLEAN]
    BY <1>6 DEF ThreadStops, Types
  <2> QED  BY <1>6, <2>1 DEF ThreadStops, Types, server
<1>7. CASE Copied(b)
  <2>1. stdin' \in Seq(Words)
    BY <1>7, SaveOnTypes DEF Copied
  <2>2. phase' \in [Backups -> Phases] /\ hot' \in [Backups -> BOOLEAN]
    BY <1>7 DEF Copied, Goes, Types, Phases, Live
  <2> QED  BY <1>7, <2>1, <2>2 DEF Copied, Types
<1>8. CASE Finish(b)
  <2>1. row' \in [Backups -> Statuses] /\ unwritten' \subseteq Backups /\ used' \in [Uses -> Nat]
    BY <1>8, RowsTypes, CommitsTypes DEF Finish, Statuses
  <2>2. phase' \in [Backups -> Phases]
    BY <1>8 DEF Finish, Goes, Types, Phases, Live
  <2> QED  BY <1>8, <2>1, <2>2 DEF Finish, Types, server
<1>9. CASE Purge(b)
  <2>1. Surplus \in SUBSET Backups
    BY DEF Surplus, Completed
  <2>2. phase' \in [Backups -> Phases]
    <3>1. phase' = [phase EXCEPT ![b] = "done"] \/ phase' = [phase EXCEPT ![b] = "purging"]
      BY <1>9 DEF Purge, Goes
    <3> QED  BY <3>1 DEF Types, Phases, Live
  <2>3. victims' \in [Backups -> SUBSET Backups]
    BY <1>9, <2>1 DEF Purge, Types
  <2>4. archive' \in [Backups -> BOOLEAN]
    BY <1>9, <2>1 DEF Purge, Types
  <2>5. purged' \in BOOLEAN
    BY <1>9 DEF Purge
  <2>6. UNCHANGED <<row, hot, heard, thread, torn, cancelled, safety, deleting, restoring,
                   world, on, console, stdin, saving, settled, unwritten, used>>
    BY <1>9 DEF Purge, server
  <2> QED  BY <2>2, <2>3, <2>4, <2>5, <2>6 DEF Types
<1>10. CASE PurgeCommits(b)
  <2>1. row' \in [Backups -> Statuses] /\ unwritten' \subseteq Backups /\ used' \in [Uses -> Nat]
    <3>1. victims[b] \in SUBSET Backups /\ "gone" \in Statuses
      BY DEF Types, Statuses
    <3> QED  BY <1>10, <3>1, RowsTypes, CommitsTypes DEF PurgeCommits
  <2>2. phase' \in [Backups -> Phases]
    BY <1>10 DEF PurgeCommits, Goes, Types, Phases, Live
  <2>3. victims' \in [Backups -> SUBSET Backups]
    BY <1>10 DEF PurgeCommits, Types
  <2> QED  BY <1>10, <2>1, <2>2, <2>3 DEF PurgeCommits, Types, server
<1>11. CASE FailureRecorded(b)
  <2>1. row' \in [Backups -> Statuses] /\ unwritten' \subseteq Backups /\ used' \in [Uses -> Nat]
    BY <1>11, RowsTypes, CommitsTypes DEF FailureRecorded, Statuses
  <2>2. phase' \in [Backups -> Phases]
    BY <1>11 DEF FailureRecorded, Goes, Types, Phases, Live
  <2> QED  BY <1>11, <2>1, <2>2 DEF FailureRecorded, Types, server
<1> QED  BY <1>1, <1>2, <1>3, <1>4, <1>5, <1>6, <1>7, <1>8, <1>9, <1>10, <1>11 DEF Progress

LEMMA FailuresTypes ==
    ASSUME Types, NEW b \in Backups, Failures(b)
    PROVE  Types'
<1>1. used' \in [Uses -> Nat]
  BY SpendTypes DEF Failures, SelectionRefused, ThreadFails, Uses
<1>2. CASE SelectionRefused(b)
  BY <1>1, <1>2, FailsTypes DEF SelectionRefused, Types, server
<1>3. CASE ThreadFails(b)
  <2>1. stdin' \in Seq(Words)
    BY <1>3, SaveOnTypes DEF ThreadFails
  <2>2. thread' \in [Backups -> BOOLEAN]
    BY <1>3 DEF ThreadFails, Types
  <2> QED  BY <1>1, <1>3, <2>1, <2>2, FailsTypes DEF ThreadFails, Types
<1> QED  BY <1>2, <1>3 DEF Failures

LEMMA RequestsTypes ==
    ASSUME Types, Requests
    PROVE  Types'
<1>1. CASE UserBacksUp
  <2>1. used' \in [Uses -> Nat]
    BY <1>1, SpendTypes DEF UserBacksUp, Uses
  <2>2. NewId \in Backups
    BY <1>1, NewIdIs DEF UserBacksUp
  <2>3. row' \in [Backups -> Statuses] /\ phase' \in [Backups -> Phases]
    BY <1>1, <2>2 DEF UserBacksUp, Launch, Goes, Types, Phases, Live, Statuses
  <2> QED  BY <1>1, <2>1, <2>3 DEF UserBacksUp, Types, server
<1>2. ASSUME NEW b \in Backups, Restore(b) PROVE Types'
  <2>1. used' \in [Uses -> Nat]
    BY <1>2, SpendTypes DEF Restore, Uses
  <2>2. NewId \in Backups
    BY <1>2, NewIdIs DEF Restore
  <2>3. row' \in [Backups -> Statuses] /\ phase' \in [Backups -> Phases]
    BY <1>2, <2>2 DEF Restore, Launch, Goes, Types, Phases, Live, Statuses
  <2>4. restoring' \in [Backups -> Restores] /\ safety' \subseteq Backups
    BY <1>2, <2>2 DEF Restore, Restores, Types
  <2> QED  BY <1>2, <2>1, <2>3, <2>4 DEF Restore, Types, server
<1>3. ASSUME NEW b \in Backups, Cancel(b) PROVE Types'
  <2>1. used' \in [Uses -> Nat]
    BY <1>3, SpendTypes DEF Cancel, Uses
  <2>2. cancelled' \in [Backups -> Live \cup {"no"}]
    BY <1>3 DEF Cancel, Types, Live
  <2>3. UNCHANGED <<heard, thread, torn, safety, deleting, restoring, world, on, console,
                   saving, settled, purged, unwritten>>
    BY <1>3 DEF Cancel
  <2>4. CASE phase[b] = "failing"
    <3>1. row' \in [Backups -> Statuses]
      <4>1. Marked(b, "FAILED") \in [Backups -> Statuses]
        BY RowsTypes DEF Statuses
      <4> QED  BY <1>3, <2>4, <4>1 DEF Cancel, Types
    <3>2. phase' \in [Backups -> Phases]
      BY <1>3, <2>4 DEF Cancel, Goes, Types, Phases, Live
    <3> QED  BY <1>3, <2>1, <2>2, <2>3, <2>4, <3>1, <3>2 DEF Cancel, Types
  <2>5. CASE phase[b] # "failing"
    <3>0. CancelledAt(b)
      BY <1>3, <2>5 DEF Cancel
    <3>1. stdin' \in Seq(Words)
      BY <3>0, SaveOnTypes DEF CancelledAt
    <3>2. row' \in [Backups -> Statuses]
      <4>1. UNCHANGED row \/ row' = Removed(victims[b])
        BY <3>0 DEF CancelledAt
      <4>2. victims[b] \in SUBSET Backups /\ "gone" \in Statuses
        BY DEF Types, Statuses
      <4> QED  BY <4>1, <4>2, RowsTypes DEF Types
    <3>3. phase' \in [Backups -> Phases]
      BY <3>0 DEF CancelledAt, Goes, Types, Phases, Live
    <3>4. archive' \in [Backups -> BOOLEAN] /\ hot' \in [Backups -> BOOLEAN]
      BY <3>0 DEF CancelledAt, Types
    <3>5. victims' \in [Backups -> SUBSET Backups]
      BY <3>0 DEF CancelledAt, Types
    <3> QED  BY <2>1, <2>2, <2>3, <3>1, <3>2, <3>3, <3>4, <3>5 DEF Types
  <2> QED  BY <2>4, <2>5
<1>4. ASSUME NEW b \in Backups, DeleteFile(b) PROVE Types'
  <2>1. used' \in [Uses -> Nat]
    BY <1>4, SpendTypes DEF DeleteFile, Uses
  <2>2. archive' \in [Backups -> BOOLEAN] /\ deleting' \subseteq Backups
    BY <1>4 DEF DeleteFile, Types
  <2> QED  BY <1>4, <2>1, <2>2 DEF DeleteFile, Types, tasks, server
<1>5. ASSUME NEW b \in Backups, DeleteRow(b) PROVE Types'
  <2>1. row' \in [Backups -> Statuses] /\ unwritten' \subseteq Backups /\ used' \in [Uses -> Nat]
    <3>1. Removed({b}) \in [Backups -> Statuses] /\ {b} \in SUBSET Backups
      BY RowsTypes DEF Statuses
    <3> QED  BY <1>5, <3>1, CommitsTypes DEF DeleteRow
  <2>2. deleting' \subseteq Backups
    BY <1>5 DEF DeleteRow, Types
  <2> QED  BY <1>5, <2>1, <2>2 DEF DeleteRow, Types, tasks, server
<1> QED  BY <1>1, <1>2, <1>3, <1>4, <1>5 DEF Requests

LEMMA RestoreTypes ==
    ASSUME Types, RestoreSteps
    PROVE  Types'
<1>1. restoring' \in [Backups -> Restores]
  <2>1. PICK s \in Backups : RestoreGoesOn(s) \/ WorldsRemoved(s) \/ WorldsExtracted(s)
    BY DEF RestoreSteps
  <2>2. \/ restoring' = [restoring EXCEPT ![s] = NoRestore]
        \/ restoring' = [restoring EXCEPT ![s].phase = "apply"]
        \/ restoring' = [restoring EXCEPT ![s].phase = "extract"]
    BY <2>1 DEF RestoreGoesOn, WorldsRemoved, WorldsExtracted
  <2>3. restoring[s] \in Restores /\ restoring \in [Backups -> Restores]
    BY DEF Types
  <2>4. /\ NoRestore \in Restores
        /\ [restoring[s] EXCEPT !.phase = "apply"] \in Restores
        /\ [restoring[s] EXCEPT !.phase = "extract"] \in Restores
    BY <2>3 DEF NoRestore, Restores
  <2> QED  BY <2>2, <2>3, <2>4
<1>2. torn' \in [Backups -> BOOLEAN] /\ world' \in {"whole", "removed"}
  BY TornTypes DEF RestoreSteps, RestoreGoesOn, WorldsRemoved, WorldsExtracted, Types
<1>3. UNCHANGED <<row, tasks, archive, victims, safety, deleting, server, purged, unwritten,
                  used>>
  BY DEF RestoreSteps, RestoreGoesOn, WorldsRemoved, WorldsExtracted
<1> QED  BY <1>1, <1>2, <1>3 DEF Types, tasks, server

LEMMA ServerTypes ==
    ASSUME Types, Server
    PROVE  Types'
<1>1. CASE ServerStarts
  <2>1. used' \in [Uses -> Nat]
    BY <1>1, SpendTypes DEF ServerStarts, Uses
  <2>2. stdin' \in Seq(Words)
    BY <1>1 DEF ServerStarts
  <2> QED  BY <1>1, <2>1, <2>2 DEF ServerStarts, Types, tasks, history
<1>2. CASE ServerStops
  <2>1. used' \in [Uses -> Nat]
    BY <1>2, SpendTypes DEF ServerStops, Uses
  <2>2. stdin' \in Seq(Words)
    BY <1>2 DEF ServerStops
  <2>3. torn' \in [Backups -> BOOLEAN]
    BY <1>2, TornTypes DEF ServerStops
  <2> QED  BY <1>2, <2>1, <2>2, <2>3 DEF ServerStops, Types, tasks, history
<1>3. CASE ServerExecutes
  <2>1. used' \in [Uses -> Nat]
    BY <1>3, SpendTypes DEF ServerExecutes, Types, Uses
  <2>2. stdin' \in Seq(Words)
    BY <1>3 DEF ServerExecutes, Types
  <2>3. heard' \in [Backups -> BOOLEAN]
    BY <1>3 DEF ServerExecutes, Hears, Types
  <2>4. Head(stdin) \in Words
    BY <1>3 DEF ServerExecutes, Types
  <2>5. saving' \in BOOLEAN /\ settled' \in BOOLEAN
    BY <1>3, <2>4 DEF ServerExecutes, Types, Words
  <2>6. UNCHANGED <<history, phase, hot, thread, torn, cancelled, safety, restoring, world,
                   on, console, purged, unwritten>>
    BY <1>3 DEF ServerExecutes
  <2> QED  BY <2>1, <2>2, <2>3, <2>5, <2>6 DEF Types, history
<1>4. CASE ServerWrites
  <2>1. torn' \in [Backups -> BOOLEAN]
    BY <1>4, TornTypes DEF ServerWrites
  <2> QED  BY <1>4, <2>1 DEF ServerWrites, Types, tasks, history, server
<1> QED  BY <1>1, <1>2, <1>3, <1>4 DEF Server

LEMMA RestartTypes ==
    ASSUME Types, MsmRestarts
    PROVE  Types'
<1>1. used' \in [Uses -> Nat]
  BY SpendTypes DEF MsmRestarts, Uses
<1>2. phase' \in [Backups -> Phases]
  BY DEF MsmRestarts, Phases
<1>3. row' \in [Backups -> Statuses]
  BY DEF MsmRestarts, Types, Statuses
<1>4. restoring' \in [Backups -> Restores]
  BY DEF MsmRestarts, NoRestore, Restores
<1>5. hot' \in [Backups -> BOOLEAN] /\ thread' \in [Backups -> BOOLEAN]
      /\ victims' \in [Backups -> SUBSET Backups] /\ deleting' \subseteq Backups
      /\ console' \in BOOLEAN
  BY DEF MsmRestarts
<1>6. UNCHANGED <<heard, archive, torn, cancelled, safety, world, on, stdin, saving,
                   settled, purged, unwritten>>
  BY DEF MsmRestarts
<1> QED  BY <1>1, <1>2, <1>3, <1>4, <1>5, <1>6 DEF Types

LEMMA TypesStep == Types /\ [Next]_vars => Types'
<1> SUFFICES ASSUME Types, [Next]_vars PROVE Types'
  OBVIOUS
<1>1. CASE UNCHANGED vars
  BY <1>1 DEF Types, vars
<1> QED  BY <1>1, ProgressTypes, FailuresTypes, RequestsTypes, RestoreTypes, ServerTypes,
            RestartTypes DEF Next
--------------------------------------------------------------------------------
\* One backup: what its phase says of its row, its thread and its archive.
PhasedAt(b) ==
    /\ row[b] = "none" <=> phase[b] = "none"
    /\ phase[b] \in {"select", "saveoff", "flush", "copy", "finish", "failing"} => row[b] = "RUNNING"
    /\ phase[b] \in {"purge", "purging"} =>
           row[b] \in {"COMPLETED", "gone"} \/ (row[b] = "RUNNING" /\ b \in unwritten)
    /\ phase[b] = "done" /\ cancelled[b] = "no" => row[b] # "RUNNING" \/ b \in unwritten
    /\ cancelled[b] # "no" => phase[b] \in {"closing", "done"}
    /\ phase[b] = "closing" => cancelled[b] # "no"
    /\ thread[b] => phase[b] \in {"copy", "closing", "done"} /\ row[b] # "COMPLETED"
    /\ phase[b] = "finish" \/ (phase[b] = "copy" /\ ~thread[b]) => archive[b]
    /\ phase[b] = "closing" /\ row[b] = "COMPLETED" =>
           ~archive[b] /\ cancelled[b] \in {"purge", "purging"}
    /\ b \in deleting => phase[b] = "done" /\ ~(row[b] = "COMPLETED" /\ archive[b])
    /\ hot[b] => phase[b] \in {"flush", "copy"}
    /\ victims[b] # {} => phase[b] = "purging"

Phased ==
    /\ \A b \in Backups : PhasedAt(b)
    /\ \A b \in Backups : \A c \in victims[b] :
           row[c] \in {"COMPLETED", "FAILED", "gone"} /\ ~(row[c] = "COMPLETED" /\ archive[c])

\* Phased, action by action.
LEMMA ProgressPhased ==
    ASSUME Types, Phased, NEW b \in Backups, Progress(b)
    PROVE  Phased'
<1>1. CASE Selected(b)
  <2>1. CASE on /\ Reachable
    BY <1>1, <2>1 DEF Selected, Goes, Types, Phased, PhasedAt
  <2>2. CASE on /\ ~Reachable
    <3>1. phase[b] = "select" /\ Fails(b) /\ UNCHANGED <<row, thread, victims, cancelled, deleting, unwritten>>
      BY <1>1, <2>2 DEF Selected
    <3> QED  BY <3>1 DEF Fails, Goes, Types, Phased, PhasedAt
  <2>3. CASE ~on
    BY <1>1, <2>3 DEF Selected, Goes, Types, Phased, PhasedAt
  <2> QED  BY <2>1, <2>2, <2>3
<1>2. CASE WritingPaused(b)
  <2>1. CASE Reachable
    BY <1>2, <2>1 DEF WritingPaused, Goes, Types, Phased, PhasedAt
  <2>2. CASE ~Reachable
    <3>1. /\ phase[b] = "saveoff" /\ Fails(b)
          /\ UNCHANGED <<row, thread, victims, cancelled, deleting, unwritten>>
      BY <1>2, <2>2 DEF WritingPaused
    <3> QED  BY <3>1 DEF Fails, Goes, Types, Phased, PhasedAt
  <2> QED  BY <2>1, <2>2
<1>3. CASE WorldFlushed(b)
  BY <1>3 DEF WorldFlushed, Goes, Types, Phased, PhasedAt
<1>4. CASE NotConfirmed(b)
  <2>1. /\ phase[b] \in {"saveoff", "flush"} /\ Fails(b)
        /\ UNCHANGED <<row, thread, victims, cancelled, deleting, unwritten>>
    BY <1>4 DEF NotConfirmed
  <2> QED  BY <2>1 DEF Fails, Goes, Types, Phased, PhasedAt
<1>5. CASE ThreadWrites(b)
  BY <1>5 DEF ThreadWrites, Types, Phased, PhasedAt
<1>6. CASE ThreadStops(b)
  BY <1>6 DEF ThreadStops, Types, Phased, PhasedAt
<1>7. CASE Copied(b)
  <2>1. /\ phase[b] = "copy" /\ ~thread[b] /\ Goes(b, "finish")
        /\ hot' = [hot EXCEPT ![b] = FALSE]
        /\ UNCHANGED <<row, thread, archive, victims, cancelled, deleting, unwritten>>
    BY <1>7 DEF Copied
  <2> QED  BY <2>1 DEF Goes, Types, Phased, PhasedAt
<1>8. CASE Finish(b)
  <2>1. /\ phase[b] = "finish" /\ Goes(b, "purge")
        /\ UNCHANGED <<hot, thread, archive, victims, cancelled, deleting>>
    BY <1>8 DEF Finish
  <2>2. row[b] = "RUNNING"
    BY <2>1 DEF Phased, PhasedAt
  <2>5. \/ row' = [row EXCEPT ![b] = "COMPLETED"] /\ unwritten' = unwritten
        \/ row' = row /\ unwritten' = unwritten \cup {b}
    <3>1. Marked(b, "COMPLETED") = [row EXCEPT ![b] = "COMPLETED"]
      BY <2>2 DEF Marked
    <3> QED  BY <1>8, <3>1 DEF Finish, Commits
  <2>3. ASSUME NEW c \in Backups PROVE PhasedAt(c)'
    BY <2>1, <2>2, <2>5 DEF Goes, Types, Phased, PhasedAt
  <2>4. ASSUME NEW d \in Backups, NEW c \in victims'[d]
        PROVE  (row[c] \in {"COMPLETED", "FAILED", "gone"} /\ ~(row[c] = "COMPLETED" /\ archive[c]))'
    BY <2>1, <2>2, <2>5 DEF Types, Phased
  <2> QED  BY <2>3, <2>4 DEF Phased
<1>9. CASE Purge(b)
  <2>1. /\ phase[b] = "purge"
        /\ victims' = [victims EXCEPT ![b] = Surplus]
        /\ archive' = [c \in Backups |-> archive[c] /\ c \notin Surplus]
        /\ phase' = [phase EXCEPT ![b] = IF Surplus = {} THEN "done" ELSE "purging"]
        /\ UNCHANGED <<row, hot, thread, cancelled, deleting, unwritten>>
    BY <1>9 DEF Purge, Goes
  <2>2. \A c \in Surplus : c \in Backups /\ row[c] = "COMPLETED"
    BY DEF Surplus, Completed
  <2>3. ASSUME NEW c \in Backups PROVE PhasedAt(c)'
    BY <2>1, <2>2 DEF Types, Phased, PhasedAt
  <2>4. ASSUME NEW d \in Backups, NEW c \in victims'[d]
        PROVE  (row[c] \in {"COMPLETED", "FAILED", "gone"} /\ ~(row[c] = "COMPLETED" /\ archive[c]))'
    BY <2>1, <2>2 DEF Types, Phased
  <2> QED  BY <2>3, <2>4 DEF Phased
<1>10. CASE PurgeCommits(b)
  <2>1. /\ phase[b] = "purging" /\ Goes(b, "done")
        /\ \/ row' = [c \in Backups |-> IF c \in victims[b] THEN "gone" ELSE row[c]]
              /\ unwritten' = unwritten
           \/ row' = row /\ unwritten' = unwritten \cup victims[b]
        /\ victims' = [victims EXCEPT ![b] = {}]
        /\ UNCHANGED <<hot, thread, archive, cancelled, deleting>>
    BY <1>10 DEF PurgeCommits, Commits, Removed
  <2>2. \A c \in victims[b] : row[c] \in {"COMPLETED", "FAILED", "gone"}
    BY DEF Phased
  <2>3. ASSUME NEW c \in Backups PROVE PhasedAt(c)'
    BY <2>1, <2>2 DEF Goes, Types, Phased, PhasedAt
  <2>4. ASSUME NEW d \in Backups, NEW c \in victims'[d]
        PROVE  (row[c] \in {"COMPLETED", "FAILED", "gone"} /\ ~(row[c] = "COMPLETED" /\ archive[c]))'
    BY <2>1, <2>2 DEF Types, Phased
  <2> QED  BY <2>3, <2>4 DEF Phased
<1>11. CASE FailureRecorded(b)
  <2>1. /\ phase[b] \in {"failing", "closing"} /\ Goes(b, "done")
        /\ UNCHANGED <<hot, thread, archive, victims, cancelled, deleting>>
    BY <1>11 DEF FailureRecorded
  <2>2. \/ /\ row' = [row EXCEPT ![b] = IF @ = "gone" THEN @ ELSE "FAILED"]
           /\ unwritten' = unwritten
        \/ row' = row /\ unwritten' = unwritten \cup {b}
    BY <1>11 DEF FailureRecorded, Commits, Marked
  <2> QED  BY <2>1, <2>2 DEF Goes, Types, Phased, PhasedAt
<1> QED  BY <1>1, <1>2, <1>3, <1>4, <1>5, <1>6, <1>7, <1>8, <1>9, <1>10, <1>11 DEF Progress

LEMMA OthersPhased ==
    ASSUME Types, Phased, NEW b \in Backups, Failures(b)
    PROVE  Phased'
<1>1. /\ phase[b] \in {"select", "copy"} /\ Fails(b)
      /\ thread'[b] = FALSE /\ \A c \in Backups \ {b} : thread'[c] = thread[c]
      /\ UNCHANGED <<row, victims, cancelled, deleting, unwritten>>
  BY DEF Failures, SelectionRefused, ThreadFails, Types, Phased, PhasedAt
<1> QED  BY <1>1 DEF Fails, Goes, Types, Phased, PhasedAt

LEMMA RequestsPhased ==
    ASSUME Types, Phased, Requests
    PROVE  Phased'
<1>1. ASSUME NEW b \in Backups, row[b] = "none",
             row' = [row EXCEPT ![b] = "RUNNING"],
             phase' = [phase EXCEPT ![b] = "select"],
             UNCHANGED <<hot, thread, archive, victims, cancelled, deleting, unwritten>>
      PROVE  Phased'
  BY <1>1 DEF Types, Phased, PhasedAt
<1>2. CASE UserBacksUp \/ \E b \in Backups : Restore(b)
  <2>1. Unused # {} /\ Launch(NewId) /\ UNCHANGED <<hot, thread, archive, victims, cancelled, deleting, unwritten>>
    BY <1>2 DEF UserBacksUp, Restore
  <2> QED  BY <1>1, <2>1, NewIdIs DEF Launch, Goes
<1>3. ASSUME NEW b \in Backups, Cancel(b) PROVE Phased'
  <2>1. /\ phase[b] \in Live \ {"closing"}
        /\ cancelled' = [cancelled EXCEPT ![b] = phase[b]]
        /\ UNCHANGED <<thread, deleting, unwritten>>
    BY <1>3 DEF Cancel
  <2>2. phase[b] # "no"
    BY <2>1 DEF Live
  <2>3. CASE phase[b] = "failing"
    <3>1. row' \in {row, [row EXCEPT ![b] = IF @ = "gone" THEN @ ELSE "FAILED"]} /\ Goes(b, "done")
          /\ UNCHANGED <<archive, hot, victims>>
      BY <1>3, <2>3 DEF Cancel, Marked
    <3> QED  BY <2>1, <2>2, <2>3, <3>1 DEF Goes, Types, Phased, PhasedAt
  <2>4. CASE phase[b] # "failing"
    <3>1. /\ archive' = [archive EXCEPT ![b] = FALSE]
          /\ hot' = [hot EXCEPT ![b] = FALSE]
          /\ phase' = [phase EXCEPT ![b] = "closing"]
          /\ victims' = [victims EXCEPT ![b] = {}]
          /\ \/ UNCHANGED row
             \/ phase[b] = "purging" /\ row' = [c \in Backups |-> IF c \in victims[b] THEN "gone"
                                                                   ELSE row[c]]
      BY <1>3, <2>4 DEF Cancel, CancelledAt, Removed, Goes
    <3>2. phase[b] \in {"select", "saveoff", "flush", "copy", "finish", "purge", "purging"}
      BY <2>1, <2>4 DEF Live
    <3>3. ASSUME NEW c \in Backups PROVE PhasedAt(c)'
      <4>1. PhasedAt(c) /\ PhasedAt(b)
        BY DEF Phased
      <4>2. CASE c = b
        BY <2>1, <2>2, <3>1, <3>2, <4>1, <4>2 DEF Types, PhasedAt
      <4>3. CASE c # b /\ UNCHANGED row
        BY <2>1, <2>2, <3>1, <3>2, <4>1, <4>3 DEF Types, PhasedAt
      <4>4. CASE c # b /\ phase[b] = "purging"
                 /\ row' = [d \in Backups |-> IF d \in victims[b] THEN "gone" ELSE row[d]]
        <5>1. c \in victims[b] => row[c] \in {"COMPLETED", "FAILED", "gone"}
          BY DEF Phased
        <5> QED  BY <2>1, <2>2, <3>1, <3>2, <4>1, <4>4, <5>1 DEF Types, PhasedAt
      <4> QED  BY <3>1, <4>2, <4>3, <4>4
    <3>4. ASSUME NEW d \in Backups, NEW c \in victims'[d]
          PROVE  (row[c] \in {"COMPLETED", "FAILED", "gone"} /\ ~(row[c] = "COMPLETED" /\ archive[c]))'
      BY <3>1 DEF Types, Phased
    <3> QED  BY <3>3, <3>4 DEF Phased
  <2> QED  BY <2>3, <2>4
<1>4. ASSUME NEW b \in Backups, DeleteFile(b) PROVE Phased'
  <2>1. phase[b] = "done"
    BY <1>4 DEF DeleteFile, Types, Phases, Phased, PhasedAt
  <2> QED  BY <1>4, <2>1 DEF DeleteFile, tasks, Types, Phased, PhasedAt
<1>5. ASSUME NEW b \in Backups, DeleteRow(b) PROVE Phased'
  <2>1. /\ b \in deleting /\ deleting' = deleting \ {b}
        /\ UNCHANGED <<phase, hot, thread, archive, victims, cancelled>>
    BY <1>5 DEF DeleteRow, tasks
  <2>2. \/ row' = [c \in Backups |-> IF c = b THEN "gone" ELSE row[c]] /\ unwritten' = unwritten
        \/ row' = row /\ unwritten' = unwritten \cup {b}
    BY <1>5 DEF DeleteRow, Commits, Removed
  <2> QED  BY <2>1, <2>2 DEF Types, Phased, PhasedAt
<1> QED  BY <1>2, <1>3, <1>4, <1>5 DEF Requests

LEMMA PhasedStep == Types /\ Phased /\ [Next]_vars => Phased'
<1> SUFFICES ASSUME Types, Phased, [Next]_vars PROVE Phased'
  OBVIOUS
<1>1. CASE UNCHANGED <<row, phase, hot, thread, archive, victims, cancelled, deleting, unwritten>>
  BY <1>1 DEF Phased, PhasedAt
<1>2. CASE UNCHANGED vars \/ RestoreSteps \/ Server
  <2>1. UNCHANGED <<row, phase, hot, thread, archive, victims, cancelled, deleting, unwritten>>
    BY <1>2 DEF vars, RestoreSteps, RestoreGoesOn, WorldsRemoved, WorldsExtracted, Server,
       ServerStarts, ServerStops, ServerExecutes, ServerWrites, tasks, history
  <2> QED  BY <1>1, <2>1
<1>3. CASE MsmRestarts
  <2>1. /\ phase' = [b \in Backups |-> IF row[b] = "none" THEN "none" ELSE "done"]
        /\ row' = [b \in Backups |-> IF row[b] = "RUNNING" THEN "FAILED" ELSE row[b]]
        /\ hot' = [b \in Backups |-> FALSE]
        /\ thread' = [b \in Backups |-> FALSE]
        /\ victims' = [b \in Backups |-> {}]
        /\ deleting' = {}
        /\ UNCHANGED <<archive, cancelled, unwritten>>
    BY <1>3 DEF MsmRestarts
  <2> QED  BY <2>1 DEF Types, Phased, PhasedAt
<1> QED  BY <1>2, <1>3, ProgressPhased, OthersPhased, RequestsPhased DEF Next

LEMMA InitPhased == Init => Phased
  BY DEF Init, Phased, PhasedAt
--------------------------------------------------------------------------------
\* A backup that answers for the saves of the server.
Responsible(b) == phase[b] = "saveoff" \/ hot[b] \/ cancelled[b] = "saveoff"

\* Every save-off of the queue, and the server when it does not save, has a save-on
\* after it.
Calm ==
    /\ \A i \in DOMAIN stdin : stdin[i] = "save-off" =>
           \E j \in DOMAIN stdin : j > i /\ stdin[j] = "save-on"
    /\ ~saving => \E j \in DOMAIN stdin : stdin[j] = "save-on"

SavingIsHeld == Reachable => Calm \/ \E b \in Backups : Responsible(b)

\* A save-on at the end of the queue answers for every save-off before it.
LEMMA SaveOnCalms ==
    ASSUME Types, stdin' = Append(stdin, "save-on")
    PROVE  Calm'
<1>1. stdin \in Seq(Words) /\ "save-on" \in Words
  BY DEF Types, Words
<1> DEFINE n == Len(stdin) + 1
<1>2. /\ n \in Nat /\ DOMAIN stdin' = 1..n /\ stdin'[n] = "save-on"
      /\ \A i \in 1..n : i # n => i < n
  BY <1>1
<1>3. "save-on" # "save-off"
  OBVIOUS
<1> HIDE DEF n
<1>4. ASSUME NEW i \in DOMAIN stdin', stdin'[i] = "save-off"
      PROVE  \E j \in DOMAIN stdin' : j > i /\ stdin'[j] = "save-on"
  <2>1. i # n
    BY <1>2, <1>3, <1>4
  <2>2. n \in DOMAIN stdin' /\ n > i
    BY <1>2, <2>1
  <2> QED  BY <1>2, <2>2
<1>5. \E j \in DOMAIN stdin' : stdin'[j] = "save-on"
  BY <1>2
<1> QED  BY <1>4, <1>5 DEF Calm

\* A flush changes nothing to that.
LEMMA FlushKeepsCalm ==
    ASSUME Types, Calm, saving' = saving, stdin' = stdin \/ stdin' = Append(stdin, "flush")
    PROVE  Calm'
<1>1. CASE stdin' = stdin
  BY <1>1 DEF Calm
<1>2. CASE stdin' = Append(stdin, "flush")
  <2>1. stdin \in Seq(Words)
    BY DEF Types
  <2>2. /\ Len(stdin) \in Nat /\ DOMAIN stdin = 1..Len(stdin)
        /\ DOMAIN stdin' = 1..(Len(stdin) + 1)
        /\ stdin'[Len(stdin) + 1] = "flush"
        /\ \A i \in 1..Len(stdin) : stdin'[i] = stdin[i]
    BY <1>2, <2>1
  <2> QED  BY <2>2 DEF Calm
<1> QED  BY <1>1, <1>2

\* Nor does the server when it executes the next command.
LEMMA ExecutesCalm ==
    ASSUME Types, Calm, ServerExecutes
    PROVE  Calm'
<1>1. stdin \in Seq(Words) /\ stdin # <<>> /\ stdin' = Tail(stdin)
  BY DEF Types, ServerExecutes
<1>2. /\ Len(stdin) \in Nat \ {0} /\ DOMAIN stdin = 1..Len(stdin)
      /\ DOMAIN stdin' = 1..(Len(stdin) - 1)
      /\ \A i \in 1..(Len(stdin) - 1) : stdin'[i] = stdin[i + 1]
      /\ Head(stdin) = stdin[1] /\ stdin[1] \in Words
  BY <1>1
<1>3. /\ stdin[1] = "save-on" => saving'
      /\ stdin[1] = "flush" => saving' = saving
  BY <1>2 DEF ServerExecutes
<1>4. ASSUME NEW i \in DOMAIN stdin', stdin'[i] = "save-off"
      PROVE  \E j \in DOMAIN stdin' : j > i /\ stdin'[j] = "save-on"
  <2>1. i + 1 \in DOMAIN stdin /\ stdin[i + 1] = "save-off" /\ i \in Nat
    BY <1>2, <1>4
  <2>2. PICK j \in DOMAIN stdin : j > i + 1 /\ stdin[j] = "save-on"
    BY <2>1 DEF Calm
  <2>3. j \in Nat /\ j - 1 \in DOMAIN stdin' /\ j - 1 > i /\ stdin'[j - 1] = stdin[j]
    BY <1>2, <2>1, <2>2
  <2> QED  BY <2>2, <2>3
<1>5. ASSUME ~saving' PROVE \E j \in DOMAIN stdin' : stdin'[j] = "save-on"
  <2>1. PICK j \in DOMAIN stdin : j > 1 /\ stdin[j] = "save-on"
    <3>1. CASE stdin[1] = "save-off"
      BY <1>2, <3>1 DEF Calm
    <3>2. CASE stdin[1] = "flush"
      <4>1. PICK j \in DOMAIN stdin : stdin[j] = "save-on"
        BY <1>3, <1>5, <3>2 DEF Calm
      <4>2. j > 1
        BY <1>2, <3>2, <4>1
      <4> QED  BY <4>1, <4>2
    <3> QED  BY <1>2, <1>3, <1>5, <3>1, <3>2 DEF Words
  <2>2. j - 1 \in DOMAIN stdin' /\ stdin'[j - 1] = stdin[j]
    BY <1>2, <2>1
  <2> QED  BY <2>1, <2>2
<1> QED  BY <1>4, <1>5 DEF Calm

LEMMA SavingIsHeldStep == Types /\ Phased /\ SavingIsHeld /\ [Next]_vars => SavingIsHeld'
<1> SUFFICES ASSUME Types, Phased, SavingIsHeld, [Next]_vars, Reachable'
             PROVE  Calm' \/ \E b \in Backups : Responsible(b)'
  BY DEF SavingIsHeld
<1>1. ASSUME Reachable, stdin' = stdin, saving' = saving,
             \A b \in Backups : Responsible(b) => Responsible(b)'
      PROVE  Calm' \/ \E b \in Backups : Responsible(b)'
  BY <1>1, FlushKeepsCalm DEF SavingIsHeld
<1>2. ASSUME NEW b \in Backups, Reachable, SaveOn(b), saving' = saving, ~hot[b] /\ Responsible(b) => Responsible(b)',
             \A c \in Backups \ {b} : Responsible(c) => Responsible(c)'
      PROVE  Calm' \/ \E c \in Backups : Responsible(c)'
  <2>1. CASE hot[b]
    BY <1>2, <2>1, SaveOnCalms DEF SaveOn, Send
  <2>2. CASE ~hot[b]
    BY <1>1, <1>2, <2>2 DEF SaveOn
  <2> QED  BY <2>1, <2>2
<1>3. CASE UNCHANGED <<phase, hot, cancelled, stdin, saving, on, console>>
  BY <1>1, <1>3 DEF Responsible, Reachable
<1>4. CASE UNCHANGED vars \/ RestoreSteps \/ ServerWrites
  BY <1>3, <1>4 DEF vars, RestoreSteps, RestoreGoesOn, WorldsRemoved, WorldsExtracted,
     ServerWrites, tasks, server
<1>5. CASE ServerStarts
  BY <1>5 DEF ServerStarts, Calm
<1>6. CASE ServerStops \/ MsmRestarts
  BY <1>6 DEF ServerStops, MsmRestarts, Reachable
<1>7. CASE ServerExecutes
  <2>1. UNCHANGED <<phase, hot, cancelled, on, console>>
    BY <1>7 DEF ServerExecutes
  <2> QED  BY <1>7, <2>1, ExecutesCalm DEF SavingIsHeld, Responsible, Reachable
<1>8. CASE UserBacksUp \/ \E b \in Backups : Restore(b)
  <2>1. NewId \in Backups /\ row[NewId] = "none" /\ Goes(NewId, "select")
        /\ UNCHANGED <<hot, cancelled, server>>
    BY <1>8, NewIdIs DEF UserBacksUp, Restore, Launch
  <2>2. \A b \in Backups : Responsible(b) => Responsible(b)'
    BY <2>1 DEF Goes, Responsible, Types, Phased, PhasedAt
  <2> QED  BY <1>1, <2>1, <2>2 DEF server, Reachable
<1>9. ASSUME NEW b \in Backups, DeleteFile(b) \/ DeleteRow(b)
      PROVE  Calm' \/ \E c \in Backups : Responsible(c)'
  BY <1>3, <1>9 DEF DeleteFile, DeleteRow, tasks, server
<1>10. ASSUME NEW b \in Backups, Cancel(b)
       PROVE  Calm' \/ \E c \in Backups : Responsible(c)'
  <2>1. /\ phase[b] \in Live \ {"closing"}
        /\ cancelled' = [cancelled EXCEPT ![b] = phase[b]]
        /\ UNCHANGED <<on, console, saving>>
    BY <1>10 DEF Cancel
  <2>2. cancelled[b] = "no" /\ Reachable
    BY <2>1 DEF Live, Types, Phased, PhasedAt, Reachable
  <2>3. CASE phase[b] = "failing"
    <3>1. Goes(b, "done") /\ UNCHANGED <<stdin, hot>>
      BY <1>10, <2>3 DEF Cancel
    <3>2. \A c \in Backups : Responsible(c) => Responsible(c)'
      BY <2>1, <2>2, <2>3, <3>1 DEF Goes, Responsible, Types
    <3> QED  BY <1>1, <2>1, <2>2, <3>1, <3>2
  <2>4. CASE phase[b] # "failing"
    <3>1. SaveOn(b) /\ Goes(b, "closing") /\ hot' = [hot EXCEPT ![b] = FALSE]
      BY <1>10, <2>4 DEF Cancel, CancelledAt
    <3>2. ~hot[b] /\ Responsible(b) => Responsible(b)'
      BY <2>1, <2>2, <3>1 DEF Responsible, Types
    <3>3. \A c \in Backups \ {b} : Responsible(c) => Responsible(c)'
      BY <2>1, <3>1 DEF Goes, Responsible, Types
    <3> QED  BY <1>2, <2>1, <2>2, <3>1, <3>2, <3>3
  <2> QED  BY <2>3, <2>4
<1>11. ASSUME NEW b \in Backups, Selected(b)
       PROVE  Calm' \/ \E c \in Backups : Responsible(c)'
  <2>1. /\ phase[b] = "select" /\ Reachable
        /\ UNCHANGED <<cancelled, on, console, saving>>
    BY <1>11 DEF Selected, Reachable
  <2>2. phase'[b] = "saveoff"
    BY <1>11, <2>1 DEF Selected, Goes, Types, Reachable
  <2> QED  BY <2>2 DEF Responsible
<1>12. ASSUME NEW b \in Backups, WritingPaused(b)
       PROVE  Calm' \/ \E c \in Backups : Responsible(c)'
  <2>1. hot'[b]
    BY <1>12 DEF WritingPaused, Types, Reachable
  <2> QED  BY <2>1 DEF Responsible
<1>13. ASSUME NEW b \in Backups, NotConfirmed(b)
       PROVE  Calm' \/ \E c \in Backups : Responsible(c)'
  BY <1>13, SaveOnCalms DEF NotConfirmed, Send, Reachable
<1>14. ASSUME NEW b \in Backups, ThreadFails(b) \/ Copied(b)
       PROVE  Calm' \/ \E c \in Backups : Responsible(c)'
  <2>1. /\ phase[b] = "copy" /\ SaveOn(b) /\ Reachable
        /\ UNCHANGED <<cancelled, on, console, saving>>
        /\ hot' = [hot EXCEPT ![b] = FALSE]
        /\ Goes(b, "failing") \/ Goes(b, "finish")
    BY <1>14 DEF ThreadFails, Copied, Fails, Reachable
  <2>2. \A c \in Backups \ {b} : Responsible(c) => Responsible(c)'
    BY <2>1 DEF Goes, Responsible, Types
  <2>3. ~hot[b] /\ Responsible(b) => Responsible(b)'
    BY <2>1 DEF Responsible, Types
  <2> QED  BY <1>2, <2>1, <2>2, <2>3
<1>15. ASSUME NEW b \in Backups, SelectionRefused(b)
       PROVE  Calm' \/ \E c \in Backups : Responsible(c)'
  <2>1. /\ phase[b] = "select" /\ Fails(b) /\ UNCHANGED <<cancelled, server>>
    BY <1>15 DEF SelectionRefused
  <2>2. ~hot[b]
    BY <2>1 DEF Phased, PhasedAt
  <2>3. \A c \in Backups : Responsible(c) => Responsible(c)'
    BY <2>1, <2>2 DEF Fails, Goes, Responsible, Types
  <2> QED  BY <1>1, <2>1, <2>3 DEF server, Reachable
<1>16. ASSUME NEW b \in Backups, Progress(b)
       PROVE  Calm' \/ \E c \in Backups : Responsible(c)'
  <2>1. CASE WorldFlushed(b) \/ Finish(b) \/ Purge(b) \/ PurgeCommits(b) \/ FailureRecorded(b)
    <3>1. phase[b] # "saveoff" /\ UNCHANGED <<hot, cancelled, server>>
      BY <2>1 DEF WorldFlushed, Finish, Purge, PurgeCommits, FailureRecorded
    <3>2. \A c \in Backups \ {b} : phase'[c] = phase[c]
      BY <2>1 DEF WorldFlushed, Finish, Purge, PurgeCommits, FailureRecorded, Goes, Types
    <3>3. \A c \in Backups : Responsible(c) => Responsible(c)'
      BY <3>1, <3>2 DEF Responsible
    <3> QED  BY <1>1, <3>1, <3>3 DEF server, Reachable
  <2>2. CASE ThreadWrites(b) \/ ThreadStops(b)
    BY <1>3, <2>2 DEF ThreadWrites, ThreadStops, server
  <2> QED  BY <1>11, <1>12, <1>13, <1>14, <1>16, <2>1, <2>2 DEF Progress
<1> QED  BY <1>4, <1>5, <1>6, <1>7, <1>8, <1>9, <1>10, <1>14, <1>15, <1>16
         DEF Next, Requests, Failures, Server

LEMMA InitSavingIsHeld == Init => SavingIsHeld
  BY DEF Init, SavingIsHeld, Calm

\* The property itself.
LEMMA ComesBack == Phased /\ SavingIsHeld => SavingComesBack
<1> SUFFICES ASSUME Phased, SavingIsHeld,
                    \A b \in Backups : phase[b] \notin Live, Reachable,
                    ~ \E b \in Backups : cancelled[b] = "saveoff"
             PROVE  saving \/ "save-on" \in Range(stdin)
  BY DEF SavingComesBack
<1>1. \A b \in Backups : ~Responsible(b)
  BY DEF Responsible, Phased, PhasedAt, Live
<1> QED  BY <1>1 DEF SavingIsHeld, Calm, Range
--------------------------------------------------------------------------------
Active == {b \in Backups : phase[b] \in Live \/ thread[b]}

AloneAt(b) ==
    /\ phase[b] = "select" => stdin = <<>>
    /\ phase[b] = "saveoff" =>
           /\ on
           /\ heard[b] => stdin = <<>> /\ ~saving
           /\ ~heard[b] => stdin \in {<<>>, <<"save-off">>}
    /\ phase[b] = "flush" =>
           /\ on /\ ~saving
           /\ heard[b] => stdin = <<>> /\ settled
           /\ ~heard[b] => stdin \in {<<>>, <<"flush">>}
    /\ phase[b] = "copy" /\ on => stdin = <<>> /\ ~saving /\ settled
    /\ phase[b] \in {"select", "saveoff", "flush", "copy", "finish"} => ~torn[b]
    /\ row[b] \in {"none", "COMPLETED"} => ~torn[b]

Single ==
    /\ Active # {} => used["backups"] > 0
    /\ \A b, c \in Active : b = c
    /\ used["backups"] = 0 => stdin = <<>>

Alone ==
    /\ (\E s \in Backups : restoring[s].phase # "none") => used["restores"] > 0
    /\ Undisturbed => Single /\ \A b \in Backups : AloneAt(b)

\* The bounds count upwards.
LEMMA UsedGrows ==
    ASSUME Types, [Next]_vars
    PROVE  \A w \in Uses : used[w] \in Nat /\ used'[w] \in Nat /\ used'[w] >= used[w]
<1>1. \A w \in Uses : used[w] \in Nat /\ used'[w] \in Nat
  BY TypesStep DEF Types
<1>2. CASE used' = used
  BY <1>1, <1>2
<1>3. ASSUME NEW what \in Uses, NEW most, Spend(what, most)
      PROVE  \A w \in Uses : used'[w] >= used[w]
  BY <1>1, <1>3, SpendTypes
<1>4. used' = used \/ \E what \in Uses : \E most \in {MaxStarts, MaxStops, MaxFailures, MaxCancels,
          MaxRestores, MaxDeletes, MaxRestarts, MaxUserBackups} : Spend(what, most)
  <2>1. CASE UNCHANGED vars
    BY <2>1 DEF vars
  <2>2. ASSUME NEW b \in Backups, Progress(b) \/ Failures(b)
        PROVE  used' = used \/ Spend("failures", MaxFailures)
    BY <2>2 DEF Progress, Failures, Selected, WritingPaused, WorldFlushed, NotConfirmed,
       ThreadWrites, ThreadStops, Copied, Finish, Purge, PurgeCommits, FailureRecorded,
       SelectionRefused, ThreadFails, Commits
  <2>3. CASE Requests
    BY <2>3 DEF Requests, UserBacksUp, Restore, Cancel, DeleteFile, DeleteRow, Commits, Uses
  <2>4. CASE RestoreSteps
    BY <2>4 DEF RestoreSteps, RestoreGoesOn, WorldsRemoved, WorldsExtracted
  <2>5. CASE Server
    BY <2>5 DEF Server, ServerStarts, ServerStops, ServerExecutes, ServerWrites, Uses
  <2>6. CASE MsmRestarts
    BY <2>6 DEF MsmRestarts, Uses
  <2> QED  BY <2>1, <2>2, <2>3, <2>4, <2>5, <2>6 DEF Next, Uses
<1> QED  BY <1>1, <1>2, <1>3, <1>4

\* A backup that is alone now was alone before.
LEMMA WasUndisturbed ==
    ASSUME Types, [Next]_vars, Undisturbed'
    PROVE  Undisturbed
<1>1. \A w \in {"backups", "starts", "stops", "restores"} :
          used[w] \in Nat /\ used'[w] \in Nat /\ used'[w] >= used[w]
  BY UsedGrows DEF Uses
<1> QED  BY <1>1 DEF Undisturbed

\* While one backup is alone, a step of its task leaves the others as they are.
LEMMA OnlyOneMoves ==
    ASSUME Types, Single, \A c \in Backups : AloneAt(c), NEW b \in Active,
           used'["backups"] = used["backups"],
           \A c \in Backups \ {b} : /\ phase'[c] = phase[c] /\ thread'[c] = thread[c]
                                    /\ torn'[c] = torn[c] /\ row'[c] \in {row[c], "gone"}
    PROVE  Single' /\ \A c \in Backups \ {b} : AloneAt(c)'
<1>1. b \in Backups /\ used["backups"] > 0 /\ used["backups"] # 0
  BY DEF Single, Active, Types, Uses
<1>2. \A c \in Backups \ {b} : c \notin Active
  BY DEF Single
<1>3. \A c \in Backups \ {b} : phase[c] \notin Live /\ ~thread[c]
  BY <1>2 DEF Active
<1>4. \A c \in Active' : c = b
  BY <1>3 DEF Active
<1>5. Single'
  BY <1>1, <1>4 DEF Single
<1>6. \A c \in Backups \ {b} : AloneAt(c)'
  BY <1>3 DEF AloneAt, Live
<1> QED  BY <1>5, <1>6

LEMMA AloneProgress ==
    ASSUME Types, Phased, Single, \A c \in Backups : AloneAt(c), NEW b \in Backups,
           Progress(b) \/ Failures(b), used'["backups"] = used["backups"]
    PROVE  Single' /\ \A c \in Backups : AloneAt(c)'
<1>1. b \in Active
  BY DEF Progress, Failures, Selected, WritingPaused, WorldFlushed, NotConfirmed,
     ThreadWrites, ThreadStops, Copied, Finish, Purge, PurgeCommits, FailureRecorded,
     SelectionRefused, ThreadFails, Active, Live
<1>2. UNCHANGED torn /\ AloneAt(b)
  BY DEF Progress, Failures, Selected, WritingPaused, WorldFlushed, NotConfirmed,
     ThreadWrites, ThreadStops, Copied, Finish, Purge, PurgeCommits, FailureRecorded,
     SelectionRefused, ThreadFails
<1> DEFINE Others == \A c \in Backups \ {b} : /\ phase'[c] = phase[c] /\ thread'[c] = thread[c]
                                              /\ row'[c] \in {row[c], "gone"}
<1>3. SUFFICES Others /\ AloneAt(b)'
  BY <1>1, <1>2, OnlyOneMoves
<1>4. CASE Selected(b)
  <2>1. CASE on /\ Reachable
    <3>1. /\ phase[b] = "select" /\ stdin' = Append(stdin, "save-off")
          /\ phase' = [phase EXCEPT ![b] = "saveoff"]
          /\ heard' = [heard EXCEPT ![b] = FALSE]
          /\ UNCHANGED <<thread, row, on>>
      BY <1>4, <2>1 DEF Selected, Send, Goes
    <3>2. stdin' = <<"save-off">>
      BY <1>2, <3>1 DEF AloneAt
    <3> QED  BY <1>2, <2>1, <3>1, <3>2 DEF AloneAt, Types
  <2>2. CASE on /\ ~Reachable
    <3>1. phase[b] = "select" /\ phase' = [phase EXCEPT ![b] = "failing"] /\ UNCHANGED <<thread, row>>
      BY <1>4, <2>2 DEF Selected, Fails, Goes
    <3> QED  BY <1>2, <3>1 DEF AloneAt, Types
  <2>3. CASE ~on
    <3>1. /\ phase[b] = "select" /\ phase' = [phase EXCEPT ![b] = "copy"]
          /\ thread' = [thread EXCEPT ![b] = TRUE] /\ UNCHANGED <<row, on>>
      BY <1>4, <2>3 DEF Selected, Goes
    <3> QED  BY <1>2, <2>3, <3>1 DEF AloneAt, Types
  <2> QED  BY <2>1, <2>2, <2>3
<1>5. CASE WritingPaused(b)
  <2>1. CASE Reachable
    <3>1. /\ phase[b] = "saveoff" /\ heard[b] /\ stdin' = Append(stdin, "flush")
          /\ phase' = [phase EXCEPT ![b] = "flush"]
          /\ heard' = [heard EXCEPT ![b] = FALSE]
          /\ UNCHANGED <<thread, row, on, saving>>
      BY <1>5, <2>1 DEF WritingPaused, Send, Goes
    <3>2. stdin' = <<"flush">>
      BY <1>2, <3>1 DEF AloneAt
    <3> QED  BY <1>2, <3>1, <3>2 DEF AloneAt, Types
  <2>2. CASE ~Reachable
    <3>1. phase[b] = "saveoff" /\ phase' = [phase EXCEPT ![b] = "failing"] /\ UNCHANGED <<thread, row>>
      BY <1>5, <2>2 DEF WritingPaused, Fails, Goes
    <3> QED  BY <1>2, <3>1 DEF AloneAt, Types, Phased, PhasedAt
  <2> QED  BY <2>1, <2>2
<1>6. CASE WorldFlushed(b)
  BY <1>2, <1>6 DEF WorldFlushed, Goes, server, AloneAt, Types
<1>7. CASE NotConfirmed(b) \/ Failures(b)
  <2>1. /\ row[b] = "RUNNING" /\ phase' = [phase EXCEPT ![b] = "failing"] /\ UNCHANGED row
        /\ \A c \in Backups \ {b} : thread'[c] = thread[c]
    BY <1>7 DEF NotConfirmed, Failures, SelectionRefused, ThreadFails, Fails, Goes, Types, Phased, PhasedAt
  <2> QED  BY <2>1 DEF AloneAt, Types
<1>8. CASE ThreadWrites(b) \/ ThreadStops(b)
  <2>1. thread' = [thread EXCEPT ![b] = FALSE] /\ UNCHANGED <<row, phase, heard, server>>
    BY <1>8 DEF ThreadWrites, ThreadStops
  <2> QED  BY <1>2, <2>1 DEF AloneAt, Types, server
<1>9. CASE Copied(b)
  <2>1. phase[b] = "copy" /\ phase' = [phase EXCEPT ![b] = "finish"] /\ UNCHANGED <<row, thread>>
    BY <1>9 DEF Copied, Goes
  <2> QED  BY <1>2, <2>1 DEF AloneAt, Types
<1>10. CASE Finish(b)
  <2>1. /\ phase[b] = "finish" /\ phase' = [phase EXCEPT ![b] = "purge"]
        /\ row'[b] \in {row[b], "COMPLETED", "gone"} /\ UNCHANGED thread
        /\ \A c \in Backups \ {b} : row'[c] = row[c]
    BY <1>10 DEF Finish, Commits, Marked, Goes, Types
  <2> QED  BY <1>2, <2>1 DEF AloneAt, Types
<1>11. CASE Purge(b)
  <2>1. /\ phase[b] = "purge" /\ UNCHANGED <<row, thread>>
        /\ phase' = [phase EXCEPT ![b] = IF Surplus = {} THEN "done" ELSE "purging"]
    BY <1>11 DEF Purge, Goes
  <2> QED  BY <1>2, <2>1 DEF AloneAt, Types
<1>12. CASE PurgeCommits(b)
  <2>1. /\ phase[b] = "purging" /\ phase' = [phase EXCEPT ![b] = "done"] /\ UNCHANGED thread
        /\ \A c \in Backups : row'[c] \in {row[c], "gone"}
    BY <1>12 DEF PurgeCommits, Commits, Removed, Goes, Types
  <2> QED  BY <1>2, <2>1 DEF AloneAt, Types
<1>13. CASE FailureRecorded(b)
  <2>1. /\ phase' = [phase EXCEPT ![b] = "done"] /\ UNCHANGED thread
        /\ row'[b] \in {row[b], "FAILED", "gone"}
        /\ \A c \in Backups \ {b} : row'[c] = row[c]
    BY <1>13 DEF FailureRecorded, Commits, Marked, Goes, Types
  <2> QED  BY <1>2, <2>1 DEF AloneAt, Types
<1> QED  BY <1>4, <1>5, <1>6, <1>7, <1>8, <1>9, <1>10, <1>11, <1>12, <1>13 DEF Progress

LEMMA AloneRequests ==
    ASSUME Types, Phased, Undisturbed', Single, \A c \in Backups : AloneAt(c), Requests
    PROVE  Single' /\ \A c \in Backups : AloneAt(c)'
<1>1. CASE UserBacksUp
  <2>1. /\ NewId \in Backups /\ row[NewId] = "none" /\ Launch(NewId)
        /\ UNCHANGED <<heard, thread, torn, on, stdin, saving, settled>>
    BY <1>1, NewIdIs DEF UserBacksUp, server
  <2>2. used["backups"] \in Nat /\ used'["backups"] = used["backups"] + 1 /\ used'["backups"] <= 1
    BY <1>1, SpendTypes DEF UserBacksUp, Types, Uses, Undisturbed
  <2>3. used["backups"] = 0 /\ used'["backups"] = 1
    BY <2>2
  <2>4. Active = {} /\ stdin = <<>>
    BY <2>3 DEF Single
  <2>5. \A c \in Backups : phase[c] \notin Live /\ ~thread[c]
    BY <2>4 DEF Active
  <2>6. phase' = [phase EXCEPT ![NewId] = "select"] /\ row' = [row EXCEPT ![NewId] = "RUNNING"]
    BY <2>1 DEF Launch, Goes
  <2>7. \A c \in Active' : c = NewId
    BY <2>1, <2>5, <2>6 DEF Active, Types
  <2>8. Single'
    BY <2>3, <2>7 DEF Single
  <2>9. ASSUME NEW c \in Backups PROVE AloneAt(c)'
    BY <2>1, <2>4, <2>5, <2>6 DEF AloneAt, Types, Live
  <2> QED  BY <2>8, <2>9
<1>2. ASSUME NEW b \in Backups, Restore(b) PROVE FALSE
  <2>1. used["restores"] \in Nat /\ used'["restores"] = used["restores"] + 1
    BY <1>2, SpendTypes DEF Restore, Types, Uses
  <2> QED  BY <2>1 DEF Undisturbed
<1>3. ASSUME NEW b \in Backups, Cancel(b) PROVE Single' /\ \A c \in Backups : AloneAt(c)'
  <2>1. used'["backups"] = used["backups"]
    BY <1>3, SpendTypes DEF Cancel, Uses
  <2>2. b \in Active
    BY <1>3 DEF Cancel, Active
  <2>3. UNCHANGED <<thread, torn>> /\ phase'[b] \in {"done", "closing"}
        /\ \A c \in Backups \ {b} : phase'[c] = phase[c]
    BY <1>3 DEF Cancel, CancelledAt, Goes, Types
  <2>4. /\ row'[b] \in {row[b], "FAILED", "gone"}
        /\ \A c \in Backups \ {b} : row'[c] \in {row[c], "gone"}
    <3>1. row' = row \/ row' = Marked(b, "FAILED") \/ row' = Removed(victims[b])
      BY <1>3 DEF Cancel, CancelledAt
    <3> QED  BY <3>1 DEF Marked, Removed, Types
  <2>5. AloneAt(b)'
    BY <2>3, <2>4 DEF AloneAt
  <2> QED  BY <2>1, <2>2, <2>3, <2>4, <2>5, OnlyOneMoves
<1>4. ASSUME NEW b \in Backups, DeleteFile(b) \/ DeleteRow(b)
      PROVE  Single' /\ \A c \in Backups : AloneAt(c)'
  <2>1. UNCHANGED <<phase, heard, thread, torn, on, stdin, saving, settled>>
    BY <1>4 DEF DeleteFile, DeleteRow, tasks, server
  <2>2. used'["backups"] = used["backups"]
    BY <1>4, SpendTypes DEF DeleteFile, DeleteRow, Commits, Uses
  <2>3. \A c \in Backups : row'[c] \in {row[c], "gone"}
    BY <1>4 DEF DeleteFile, DeleteRow, Commits, Removed, Types
  <2>4. Active' = Active
    BY <2>1 DEF Active
  <2> QED  BY <2>1, <2>2, <2>3, <2>4 DEF Single, AloneAt
<1> QED  BY <1>1, <1>2, <1>3, <1>4 DEF Requests

LEMMA AloneServer ==
    ASSUME Types, Phased, Undisturbed', Single, \A c \in Backups : AloneAt(c), Server
    PROVE  Single' /\ \A c \in Backups : AloneAt(c)'
<1>1. ASSUME ServerStarts PROVE FALSE
  <2>1. used["starts"] \in Nat /\ used'["starts"] = used["starts"] + 1
    BY <1>1, SpendTypes DEF ServerStarts, Types, Uses
  <2> QED  BY <2>1 DEF Undisturbed
<1>2. ASSUME ServerStops PROVE FALSE
  <2>1. used["stops"] \in Nat /\ used'["stops"] = used["stops"] + 1
    BY <1>2, SpendTypes DEF ServerStops, Types, Uses
  <2> QED  BY <2>1 DEF Undisturbed
<1>3. CASE ServerWrites
  <2>1. /\ TearsCopies /\ on /\ (saving \/ ~settled)
        /\ UNCHANGED <<row, phase, heard, thread, on, stdin, saving, settled, used>>
    BY <1>3 DEF ServerWrites, history, tasks, server
  <2>2. Single'
    BY <2>1 DEF Single, Active
  <2>3. ASSUME NEW c \in Backups PROVE AloneAt(c)'
    <3>1. torn'[c] <=> torn[c] \/ thread[c]
      BY <2>1, TornTypes
    <3>2. thread[c] => /\ phase[c] \in {"closing", "done"} /\ row[c] # "COMPLETED"
                       /\ row[c] # "none"
      BY <2>1 DEF AloneAt, Phased, PhasedAt
    <3> QED  BY <2>1, <3>1, <3>2 DEF AloneAt
  <2> QED  BY <2>2, <2>3
<1>4. CASE ServerExecutes
  <2>1. /\ on /\ stdin # <<>> /\ stdin' = Tail(stdin)
        /\ UNCHANGED <<row, phase, thread, torn, on>>
    BY <1>4 DEF ServerExecutes, history
  <2>2. used'["backups"] = used["backups"]
    BY <1>4, SpendTypes DEF ServerExecutes, Uses
  <2>3. Single'
    BY <2>1, <2>2 DEF Single, Active
  <2>4. ASSUME NEW c \in Backups PROVE AloneAt(c)'
    <3>1. CASE phase[c] = "saveoff"
      <4>1. stdin = <<"save-off">> /\ ~heard[c]
        BY <2>1, <3>1 DEF AloneAt
      <4>2. Head(stdin) = "save-off" /\ stdin' = <<>>
        BY <2>1, <4>1
      <4>3. saving' = FALSE
        BY <1>4, <4>2 DEF ServerExecutes
      <4> QED  BY <2>1, <3>1, <4>2, <4>3 DEF AloneAt
    <3>2. CASE phase[c] = "flush"
      <4>1. stdin = <<"flush">> /\ ~heard[c] /\ ~saving
        BY <2>1, <3>2 DEF AloneAt
      <4>2. Head(stdin) = "flush" /\ stdin' = <<>>
        BY <2>1, <4>1
      <4>3. settled' = TRUE /\ saving' = saving
        BY <1>4, <4>1, <4>2 DEF ServerExecutes
      <4> QED  BY <2>1, <3>2, <4>1, <4>2, <4>3 DEF AloneAt
    <3>3. CASE phase[c] \notin {"saveoff", "flush"}
      BY <2>1, <3>3 DEF AloneAt
    <3> QED  BY <3>1, <3>2, <3>3
  <2> QED  BY <2>3, <2>4
<1> QED  BY <1>1, <1>2, <1>3, <1>4 DEF Server

LEMMA AloneStep == Types /\ Phased /\ Alone /\ [Next]_vars => Alone'
<1> SUFFICES ASSUME Types, Phased, Alone, [Next]_vars PROVE Alone'
  OBVIOUS
<1>1. ASSUME NEW s \in Backups, restoring'[s].phase # "none" PROVE used'["restores"] > 0
  <2>1. \/ restoring' = restoring \/ RestoreSteps \/ MsmRestarts
        \/ \E b \in Backups : Restore(b)
    <3>1. ASSUME NEW b \in Backups, Progress(b) \/ Failures(b) PROVE restoring' = restoring
      BY <3>1 DEF Progress, Failures, Selected, WritingPaused, WorldFlushed, NotConfirmed,
         ThreadWrites, ThreadStops, Copied, Finish, Purge, PurgeCommits, FailureRecorded,
         SelectionRefused, ThreadFails
    <3>2. ASSUME NEW b \in Backups, Cancel(b) \/ DeleteFile(b) \/ DeleteRow(b)
          PROVE  restoring' = restoring
      BY <3>2 DEF Cancel, DeleteFile, DeleteRow
    <3>3. CASE UNCHANGED vars \/ UserBacksUp \/ Server
      BY <3>3 DEF vars, UserBacksUp, Server, ServerStarts, ServerStops, ServerExecutes, ServerWrites
    <3> QED  BY <3>1, <3>2, <3>3 DEF Next, Requests
  <2>2. used["restores"] \in Nat /\ used'["restores"] \in Nat /\ used'["restores"] >= used["restores"]
    BY UsedGrows DEF Uses
  <2>3. CASE restoring' = restoring
    BY <1>1, <2>2, <2>3 DEF Alone
  <2>4. ASSUME NEW b \in Backups, Restore(b) PROVE used'["restores"] > 0
    <3>1. used'["restores"] = used["restores"] + 1
      BY <2>4, SpendTypes DEF Restore, Uses
    <3> QED  BY <2>2, <3>1
  <2>5. CASE RestoreSteps
    <3>1. \E r \in Backups : restoring[r].phase # "none"
      BY <2>5 DEF RestoreSteps, RestoreGoesOn, WorldsRemoved, WorldsExtracted
    <3> QED  BY <2>2, <3>1 DEF Alone
  <2>6. CASE MsmRestarts
    BY <1>1, <2>6 DEF MsmRestarts, NoRestore
  <2> QED  BY <2>1, <2>3, <2>4, <2>5, <2>6
<1>2. ASSUME Undisturbed' PROVE Single' /\ \A b \in Backups : AloneAt(b)'
  <2>1. Undisturbed /\ Single /\ \A b \in Backups : AloneAt(b)
    BY <1>2, WasUndisturbed DEF Alone
  <2>2. CASE UNCHANGED vars
    BY <2>1, <2>2 DEF vars, Single, Active, AloneAt
  <2>3. ASSUME NEW b \in Backups, Progress(b) \/ Failures(b)
        PROVE  Single' /\ \A c \in Backups : AloneAt(c)'
    <3>1. used' = used \/ Spend("failures", MaxFailures)
      BY <2>3 DEF Progress, Failures, Selected, WritingPaused, WorldFlushed, NotConfirmed,
         ThreadWrites, ThreadStops, Copied, Finish, Purge, PurgeCommits, FailureRecorded,
         SelectionRefused, ThreadFails, Commits
    <3>2. used'["backups"] = used["backups"]
      BY <3>1, SpendTypes DEF Uses
    <3> QED  BY <2>1, <2>3, <3>2, AloneProgress
  <2>4. ASSUME RestoreSteps PROVE FALSE
    <3>1. (\E s \in Backups : restoring[s].phase # "none") /\ used["restores"] = 0
      BY <2>1, <2>4 DEF RestoreSteps, RestoreGoesOn, WorldsRemoved, WorldsExtracted, Undisturbed, Types, Uses
    <3> QED  BY <3>1 DEF Alone
  <2>5. CASE MsmRestarts
    <3>1. /\ phase' = [b \in Backups |-> IF row[b] = "none" THEN "none" ELSE "done"]
          /\ row' = [b \in Backups |-> IF row[b] = "RUNNING" THEN "FAILED" ELSE row[b]]
          /\ thread' = [b \in Backups |-> FALSE]
          /\ UNCHANGED <<torn, stdin>>
      BY <2>5 DEF MsmRestarts
    <3>2. used'["backups"] = used["backups"]
      BY <2>5, SpendTypes DEF MsmRestarts, Uses
    <3>3. Active' = {}
      BY <3>1 DEF Active, Live
    <3>4. \A b \in Backups : AloneAt(b)'
      BY <2>1, <3>1 DEF AloneAt
    <3> QED  BY <2>1, <3>1, <3>2, <3>3, <3>4 DEF Single
  <2> QED  BY <1>2, <2>1, <2>2, <2>3, <2>4, <2>5, AloneRequests, AloneServer DEF Next
<1> QED  BY <1>1, <1>2 DEF Alone

LEMMA InitAlone == Init => Alone
  BY DEF Init, Alone, Single, Active, AloneAt, NoRestore, Live

\* The property itself.
LEMMA AloneIsConsistent == Alone => CopyIsConsistent
  BY DEF Alone, AloneAt, CopyIsConsistent, Completed
--------------------------------------------------------------------------------
Withdrawn == {b \in Backups : cancelled[b] \in {"purge", "purging"}}
Good == {b \in Completed : archive[b]}
Floor == Retention - Cardinality(Withdrawn) - used["deletes"]
Newer(b) == {c \in Good : c > b}

Lost(X) ==
    /\ Cardinality(X) <= used["deletes"]
    /\ \A b \in Completed : archive[b] \/ b \in X \/ b \in Withdrawn \/ Cardinality(Newer(b)) >= Floor

EnoughLeft ==
    /\ \E X \in SUBSET Backups : Lost(X)
    /\ purged => Cardinality(Good) >= Floor

\* The cardinalities of sets of backups.
LEMMA Counting ==
    /\ \A S \in SUBSET Backups : IsFiniteSet(S) /\ Cardinality(S) \in Nat
    /\ \A S \in SUBSET Backups : \A T \in SUBSET S : Cardinality(T) <= Cardinality(S)
    /\ \A S, T \in SUBSET Backups : Cardinality(S \cup T) <= Cardinality(S) + Cardinality(T)
    /\ \A S \in SUBSET Backups : \A b : Cardinality(S \ {b}) >= Cardinality(S) - 1
    /\ \A S \in SUBSET Backups : \A b \in Backups \ S : Cardinality(S \cup {b}) = Cardinality(S) + 1
<1>1. IsFiniteSet(Backups)
  <2>1. 1 \in Int /\ MaxBackups \in Int
    BY BoundsAreNaturals
  <2> QED  BY <2>1, FS_Interval DEF Backups
<1>2. \A S \in SUBSET Backups : IsFiniteSet(S)
  BY <1>1, FS_Subset
<1>3. \A S \in SUBSET Backups : Cardinality(S) \in Nat
  BY <1>2, FS_CardinalityType
<1>4. \A S \in SUBSET Backups : \A T \in SUBSET S : Cardinality(T) <= Cardinality(S)
  BY <1>2, FS_Subset
<1>5. ASSUME NEW S \in SUBSET Backups, NEW T \in SUBSET Backups
      PROVE  Cardinality(S \cup T) <= Cardinality(S) + Cardinality(T)
  <2>1. Cardinality(S \cup T) = Cardinality(S) + Cardinality(T) - Cardinality(S \cap T)
    BY <1>2, FS_Union
  <2>2. S \cap T \in SUBSET Backups
    OBVIOUS
  <2> QED  BY <1>3, <2>1, <2>2
<1>6. ASSUME NEW S \in SUBSET Backups, NEW b PROVE Cardinality(S \ {b}) >= Cardinality(S) - 1
  BY <1>2, <1>3, FS_RemoveElement
<1>7. ASSUME NEW S \in SUBSET Backups, NEW b \in Backups \ S
      PROVE  Cardinality(S \cup {b}) = Cardinality(S) + 1
  BY <1>2, FS_AddElement
<1> QED  BY <1>2, <1>3, <1>4, <1>5, <1>6, <1>7

\* A set of backups has a newest one.
LEMMA LargestIn ==
    ASSUME NEW S \in SUBSET Backups, S # {}
    PROVE  \E n \in S : \A m \in S : m <= n
<1> DEFINE D == {MaxBackups - s : s \in S}
<1>1. MaxBackups \in Nat
  BY BoundsAreNaturals
<1>2. \A s \in S : s \in Int /\ MaxBackups - s \in Nat
  BY <1>1 DEF Backups
<1>3. D \in SUBSET Nat /\ D # {}
  BY <1>2
<1>4. PICK d \in D : \A e \in D : d <= e
  <2> HIDE DEF D
  <2> QED  BY <1>3, SmallestIn
<1>5. PICK n \in S : d = MaxBackups - n
  BY <1>4
<1>6. ASSUME NEW m \in S PROVE m <= n
  <2>1. MaxBackups - n <= MaxBackups - m
    BY <1>4, <1>5
  <2> QED  BY <1>1, <1>2, <2>1
<1> QED  BY <1>6

\* The set the purge keeps is made of the newest completed backups, at least as
\* many as are to be kept, when it removes any.
LEMMA PurgeSplits ==
    ASSUME Surplus # {}
    PROVE  \E s \in Surplus :
             /\ Completed \ Surplus = {c \in Completed : c > s}
             /\ Cardinality(Completed \ Surplus) >= Retention
             /\ \A c \in Surplus : c <= s
<1>1. Completed \in SUBSET Backups /\ Surplus \in SUBSET Completed /\ Surplus \in SUBSET Backups
  BY DEF Surplus, Completed
<1>2. PICK s \in Surplus : \A m \in Surplus : m <= s
  BY <1>1, LargestIn
<1> DEFINE Above(c) == {d \in Completed : d > c}
<1>3. Cardinality(Above(s)) >= Retention
  BY <1>2 DEF Surplus
<1>4. \A c \in Completed : c \in Nat
  BY <1>1 DEF Backups
<1>5. ASSUME NEW c \in Completed, c <= s PROVE c \in Surplus
  <2>1. Above(s) \in SUBSET Above(c)
    BY <1>1, <1>2, <1>4, <1>5
  <2>2. Above(c) \in SUBSET Backups
    BY <1>1
  <2>3. Cardinality(Above(s)) <= Cardinality(Above(c))
    BY <2>1, <2>2, Counting
  <2>4. Cardinality(Above(s)) \in Nat /\ Cardinality(Above(c)) \in Nat /\ Retention \in Nat
    BY <2>1, <2>2, Counting, BoundsAreNaturals
  <2>5. Cardinality(Above(c)) >= Retention
    <3> HIDE DEF Above
    <3> QED  BY <1>3, <2>3, <2>4
  <2> QED  BY <2>5 DEF Surplus
<1>6. Completed \ Surplus = Above(s)
  BY <1>1, <1>2, <1>4, <1>5
<1> QED  BY <1>2, <1>3, <1>6

\* Of n backups, those neither in X nor in W number at least n less both.
LEMMA KeptEnough ==
    ASSUME NEW K \in SUBSET Backups, NEW G \in SUBSET K,
           NEW X \in SUBSET Backups, NEW W \in SUBSET Backups,
           \A k \in K : k \in G \/ k \in X \/ k \in W,
           NEW n \in Nat, Cardinality(K) >= n, NEW m \in Nat, Cardinality(X) <= m
    PROVE  Cardinality(G) >= n - Cardinality(W) - m
<1>1. K \in SUBSET (G \cup (X \cup W)) /\ G \in SUBSET Backups /\ X \cup W \in SUBSET Backups
      /\ G \cup (X \cup W) \in SUBSET Backups
  OBVIOUS
<1>2. /\ Cardinality(K) <= Cardinality(G \cup (X \cup W))
      /\ Cardinality(G \cup (X \cup W)) <= Cardinality(G) + Cardinality(X \cup W)
      /\ Cardinality(X \cup W) <= Cardinality(X) + Cardinality(W)
  BY <1>1, Counting
<1>3. /\ Cardinality(K) \in Nat /\ Cardinality(G) \in Nat /\ Cardinality(X \cup W) \in Nat
      /\ Cardinality(X) \in Nat /\ Cardinality(W) \in Nat /\ Cardinality(G \cup (X \cup W)) \in Nat
  BY <1>1, Counting
<1> QED  BY <1>2, <1>3

LEMMA FloorIs ==
    ASSUME Types
    PROVE  /\ Floor \in Int /\ used["deletes"] \in Nat /\ Retention \in Nat
           /\ Withdrawn \in SUBSET Backups /\ Cardinality(Withdrawn) \in Nat
           /\ Completed \in SUBSET Backups /\ Good \in SUBSET Completed
           /\ Cardinality(Good) \in Nat
           /\ \A b : Newer(b) \in SUBSET Good /\ Cardinality(Newer(b)) \in Nat
<1>1. used["deletes"] \in Nat /\ Retention \in Nat
  BY BoundsAreNaturals DEF Types, Uses
<1>2. Withdrawn \in SUBSET Backups /\ Completed \in SUBSET Backups /\ Good \in SUBSET Completed
      /\ \A b : Newer(b) \in SUBSET Good
  BY DEF Withdrawn, Completed, Good, Newer
<1>3. Cardinality(Withdrawn) \in Nat /\ Cardinality(Good) \in Nat
      /\ \A b : Cardinality(Newer(b)) \in Nat
  BY <1>2, Counting
<1> QED  BY <1>1, <1>2, <1>3 DEF Floor

\* A step that keeps the complete archives.
LEMMA SameLeft ==
    ASSUME Types, Types', EnoughLeft, Completed' \in SUBSET Completed, Good' = Good,
           Withdrawn' = Withdrawn, used'["deletes"] = used["deletes"], purged' = purged
    PROVE  EnoughLeft'
<1>1. Floor' = Floor /\ \A b : Newer(b)' = Newer(b)
  BY DEF Floor, Newer
<1>2. \A b \in Completed' : archive'[b] <=> archive[b]
  BY DEF Good
<1>3. PICK X \in SUBSET Backups : Lost(X)
  BY DEF EnoughLeft
<1>4. Lost(X)'
  BY <1>1, <1>2, <1>3 DEF Lost
<1> QED  BY <1>1, <1>4 DEF EnoughLeft

\* A backup more is complete.
LEMMA MoreLeft ==
    ASSUME Types, Types', EnoughLeft, NEW b \in Backups, Completed' = Completed \cup {b},
           archive' = archive, archive[b], Withdrawn' = Withdrawn,
           used'["deletes"] = used["deletes"], purged' = purged
    PROVE  EnoughLeft'
<1>1. Floor' = Floor
  BY DEF Floor
<1>2. Good \in SUBSET Good' /\ \A c : Newer(c) \in SUBSET Newer(c)'
  BY DEF Good, Newer
<1>3. /\ Cardinality(Good) <= Cardinality(Good')
      /\ \A c : Cardinality(Newer(c)) <= Cardinality(Newer(c)')
  <2>1. Good' \in SUBSET Backups /\ \A c : Newer(c)' \in SUBSET Backups
    BY DEF Good, Completed, Newer
  <2> QED  BY <1>2, <2>1, Counting
<1>4. /\ Floor \in Int /\ Cardinality(Good) \in Nat /\ Cardinality(Good') \in Nat
      /\ \A c : Cardinality(Newer(c)) \in Nat /\ Cardinality(Newer(c)') \in Nat
  <2>1. Good' \in SUBSET Backups /\ \A c : Newer(c)' \in SUBSET Backups
    BY DEF Good, Completed, Newer
  <2> QED  BY <2>1, FloorIs, Counting
<1>5. PICK X \in SUBSET Backups : Lost(X)
  BY DEF EnoughLeft
<1>6. ASSUME NEW c \in Completed'
      PROVE  archive'[c] \/ c \in X \/ c \in Withdrawn' \/ Cardinality(Newer(c)') >= Floor'
  <2>1. CASE c = b
    BY <2>1
  <2>2. CASE c # b
    <3>1. archive[c] \/ c \in X \/ c \in Withdrawn \/ Cardinality(Newer(c)) >= Floor
      BY <1>5, <1>6, <2>2 DEF Lost
    <3>2. Cardinality(Newer(c)) >= Floor => Cardinality(Newer(c)') >= Floor'
      BY <1>1, <1>3, <1>4
    <3> QED  BY <3>1, <3>2
  <2> QED  BY <2>1, <2>2
<1>7. Lost(X)'
  BY <1>5, <1>6 DEF Lost
<1>8. purged' => Cardinality(Good') >= Floor'
  BY <1>1, <1>3, <1>4 DEF EnoughLeft
<1> QED  BY <1>7, <1>8 DEF EnoughLeft

\* A deletion or a cancellation takes one archive away and lowers the floor by one.
LEMMA OneLess ==
    ASSUME Types, Types', EnoughLeft, NEW b \in Backups, Completed' \in SUBSET Completed,
           Good' = Good \ {b}, purged' = purged,
           \/ used'["deletes"] = used["deletes"] + 1 /\ Withdrawn' = Withdrawn
           \/ used'["deletes"] = used["deletes"] /\ b \notin Withdrawn /\ Withdrawn' = Withdrawn \cup {b}
    PROVE  EnoughLeft'
<1>1. /\ used["deletes"] \in Nat /\ Retention \in Nat /\ Floor \in Int
      /\ Withdrawn \in SUBSET Backups /\ Cardinality(Withdrawn) \in Nat
  BY FloorIs
<1>2. Floor' = Floor - 1
  <2>1. CASE used'["deletes"] = used["deletes"] + 1 /\ Withdrawn' = Withdrawn
    BY <1>1, <2>1 DEF Floor
  <2>2. CASE used'["deletes"] = used["deletes"] /\ b \notin Withdrawn /\ Withdrawn' = Withdrawn \cup {b}
    <3>1. Cardinality(Withdrawn') = Cardinality(Withdrawn) + 1
      BY <1>1, <2>2, Counting
    <3> QED  BY <1>1, <2>2, <3>1 DEF Floor
  <2> QED  BY <2>1, <2>2
<1>3. /\ Cardinality(Good') >= Cardinality(Good) - 1
      /\ \A c : Cardinality(Newer(c)') >= Cardinality(Newer(c)) - 1
  <2>1. \A c : Newer(c)' = Newer(c) \ {b}
    BY DEF Newer
  <2>2. Good \in SUBSET Backups /\ \A c : Newer(c) \in SUBSET Backups
    BY DEF Good, Completed, Newer
  <2> QED  BY <2>1, <2>2, Counting
<1>4. /\ Cardinality(Good) \in Nat /\ Cardinality(Good') \in Nat
      /\ \A c : Cardinality(Newer(c)) \in Nat /\ Cardinality(Newer(c)') \in Nat
  <2>1. Good' \in SUBSET Backups /\ \A c : Newer(c)' \in SUBSET Backups
    BY DEF Good, Completed, Newer
  <2> QED  BY <2>1, FloorIs, Counting
<1>5. PICK X \in SUBSET Backups : Lost(X)
  BY DEF EnoughLeft
<1>6. \E Y \in SUBSET Backups :
          /\ X \in SUBSET Y /\ Cardinality(Y) <= used'["deletes"]
          /\ b \in Y \/ b \in Withdrawn'
  <2>1. Cardinality(X) <= used["deletes"] /\ Cardinality(X) \in Nat
    BY <1>5, Counting DEF Lost
  <2>2. CASE used'["deletes"] = used["deletes"] + 1
    <3>1. Cardinality(X \cup {b}) <= Cardinality(X) + 1 /\ Cardinality(X \cup {b}) \in Nat
      <4>1. CASE b \in X
        <5>1. X \cup {b} = X
          BY <4>1
        <5> QED  BY <2>1, <5>1
      <4>2. CASE b \notin X
        BY <2>1, <4>2, Counting
      <4> QED  BY <4>1, <4>2
    <3>2. Cardinality(X \cup {b}) <= used'["deletes"]
      BY <1>1, <2>1, <2>2, <3>1
    <3>3. X \cup {b} \in SUBSET Backups /\ X \in SUBSET (X \cup {b}) /\ b \in X \cup {b}
      OBVIOUS
    <3> QED  BY <3>2, <3>3
  <2>3. CASE used'["deletes"] = used["deletes"] /\ b \in Withdrawn'
    BY <2>1, <2>3
  <2> QED  BY <2>2, <2>3
<1>7. PICK Y \in SUBSET Backups : /\ X \in SUBSET Y /\ Cardinality(Y) <= used'["deletes"]
                                  /\ b \in Y \/ b \in Withdrawn'
  BY <1>6
<1>8. ASSUME NEW c \in Completed'
      PROVE  archive'[c] \/ c \in Y \/ c \in Withdrawn' \/ Cardinality(Newer(c)') >= Floor'
  <2>1. CASE c = b
    BY <1>7, <2>1
  <2>2. CASE c # b
    <3>1. archive[c] => archive'[c]
      BY <1>8, <2>2 DEF Good
    <3>2. archive[c] \/ c \in X \/ c \in Withdrawn \/ Cardinality(Newer(c)) >= Floor
      BY <1>5, <1>8 DEF Lost
    <3>3. Cardinality(Newer(c)) >= Floor => Cardinality(Newer(c)') >= Floor'
      BY <1>1, <1>2, <1>3, <1>4
    <3>4. Withdrawn \in SUBSET Withdrawn'
      OBVIOUS
    <3> QED  BY <1>7, <3>1, <3>2, <3>3, <3>4
  <2> QED  BY <2>1, <2>2
<1>9. Lost(Y)'
  BY <1>7, <1>8 DEF Lost
<1>10. purged' => Cardinality(Good') >= Floor'
  <2>1. purged => Cardinality(Good) >= Floor
    BY DEF EnoughLeft
  <2> QED  BY <1>1, <1>2, <1>3, <1>4, <2>1
<1> QED  BY <1>9, <1>10 DEF EnoughLeft

\* The purge: the newest are kept, and either all of those have their archive, but for
\* what was deleted or withdrawn, or one of them vouches for enough newer ones.
LEMMA PurgeLeaves ==
    ASSUME Types, Types', EnoughLeft, Surplus # {},
           Completed' = Completed, Withdrawn' = Withdrawn, used' = used,
           archive' = [c \in Backups |-> archive[c] /\ c \notin Surplus]
    PROVE  EnoughLeft'
<1>1. PICK s \in Surplus : /\ Completed \ Surplus = {c \in Completed : c > s}
                           /\ Cardinality(Completed \ Surplus) >= Retention
                           /\ \A c \in Surplus : c <= s
  BY PurgeSplits
<1> DEFINE K == Completed \ Surplus
<1>2. /\ K \in SUBSET Backups /\ Surplus \in SUBSET Completed /\ Completed \in SUBSET Backups
      /\ \A c \in Completed : c \in Nat
  BY DEF Surplus, Completed, Backups
<1>3. Good' = Good \cap K
  BY <1>2 DEF Good
<1>4. Floor' = Floor
  BY DEF Floor
<1>5. PICK X \in SUBSET Backups : Lost(X)
  BY DEF EnoughLeft
<1>6. \A c \in K : Newer(c)' = Newer(c)
  BY <1>1, <1>2, <1>3 DEF Newer, Good
<1>7. \A c \in Surplus : Newer(c)' = Good'
  BY <1>1, <1>2, <1>3 DEF Newer
<1>8. Cardinality(Good') >= Floor'
  <2>1. CASE \A k \in K : k \in Good' \/ k \in X \/ k \in Withdrawn
    <3>1. /\ Withdrawn \in SUBSET Backups /\ used["deletes"] \in Nat /\ Retention \in Nat
          /\ Cardinality(X) <= used["deletes"] /\ Good' \in SUBSET K
      BY <1>3, <1>5, FloorIs DEF Lost
    <3>2. Cardinality(Good') >= Retention - Cardinality(Withdrawn) - used["deletes"]
      <4> HIDE DEF K
      <4> QED  BY <1>1, <1>2, <2>1, <3>1, KeptEnough DEF K
    <3> QED  BY <1>4, <3>2 DEF Floor
  <2>2. CASE ~ \A k \in K : k \in Good' \/ k \in X \/ k \in Withdrawn
    <3>1. PICK k \in K : k \notin Good' /\ k \notin X /\ k \notin Withdrawn
      BY <2>2
    <3>2. ~archive[k]
      BY <1>3, <3>1 DEF Good
    <3>3. Cardinality(Newer(k)) >= Floor
      BY <1>5, <3>1, <3>2 DEF Lost
    <3>4. Newer(k) \in SUBSET Good' /\ Good' \in SUBSET Backups
      BY <1>2, <1>3, <1>6 DEF Newer
    <3>5. Cardinality(Newer(k)) <= Cardinality(Good')
      BY <3>4, Counting
    <3>6. Cardinality(Newer(k)) \in Nat /\ Cardinality(Good') \in Nat /\ Floor \in Int
      BY <3>4, FloorIs, Counting
    <3> QED  BY <1>4, <3>3, <3>5, <3>6
  <2> QED  BY <2>1, <2>2
<1>9. ASSUME NEW c \in Completed'
      PROVE  archive'[c] \/ c \in X \/ c \in Withdrawn' \/ Cardinality(Newer(c)') >= Floor'
  <2>1. CASE c \in Surplus
    BY <1>7, <1>8, <2>1
  <2>2. CASE c \notin Surplus
    <3>1. c \in K /\ (archive'[c] <=> archive[c])
      BY <1>2, <1>9, <2>2
    <3> QED  BY <1>4, <1>5, <1>6, <3>1 DEF Lost
  <2> QED  BY <2>1, <2>2
<1>10. Lost(X)'
  BY <1>5, <1>9 DEF Lost
<1> QED  BY <1>8, <1>10 DEF EnoughLeft

LEMMA EnoughLeftStep == Types /\ Phased /\ EnoughLeft /\ [Next]_vars => EnoughLeft'
<1> SUFFICES ASSUME Types, Phased, EnoughLeft, [Next]_vars PROVE EnoughLeft'
  OBVIOUS
<1>0. Types'
  BY TypesStep
<1>1. ASSUME \A c \in Backups : row'[c] = "COMPLETED" => row[c] = "COMPLETED",
             \A c \in Backups : row[c] = "COMPLETED" /\ archive[c] =>
                                    row'[c] = "COMPLETED" /\ archive'[c],
             \A c \in Backups : row'[c] = "COMPLETED" /\ archive'[c] => archive[c],
             \A c \in Backups : cancelled'[c] \in {"purge", "purging"} <=>
                                    cancelled[c] \in {"purge", "purging"},
             used'["deletes"] = used["deletes"], purged' = purged
      PROVE  EnoughLeft'
  <2>1. Completed' \in SUBSET Completed
    BY <1>1 DEF Completed
  <2>2. Good' = Good
    BY <1>1 DEF Completed, Good
  <2>3. Withdrawn' = Withdrawn
    BY <1>1 DEF Withdrawn
  <2> QED  BY <1>0, <1>1, <2>1, <2>2, <2>3, SameLeft
<1>2. ASSUME UNCHANGED <<row, archive, cancelled, purged>>, used'["deletes"] = used["deletes"]
      PROVE  EnoughLeft'
  BY <1>1, <1>2
<1>3. CASE UNCHANGED vars \/ RestoreSteps \/ Server
  <2>1. UNCHANGED <<row, archive, cancelled, purged>>
    BY <1>3 DEF vars, RestoreSteps, RestoreGoesOn, WorldsRemoved, WorldsExtracted, Server,
       ServerStarts, ServerStops, ServerExecutes, ServerWrites, tasks, history, server
  <2>2. used' = used \/ \E w \in Uses \ {"deletes"} : \E most \in Nat : Spend(w, most)
    BY <1>3, BoundsAreNaturals DEF vars, RestoreSteps, RestoreGoesOn, WorldsRemoved, WorldsExtracted,
       Server, ServerStarts, ServerStops, ServerExecutes, ServerWrites, Uses
  <2> QED  BY <1>2, <2>1, <2>2, SpendTypes DEF Uses
<1>4. CASE MsmRestarts
  <2>1. row' = [b \in Backups |-> IF row[b] = "RUNNING" THEN "FAILED" ELSE row[b]]
        /\ UNCHANGED <<archive, cancelled, purged>>
    BY <1>4 DEF MsmRestarts
  <2>2. used'["deletes"] = used["deletes"]
    BY <1>4, SpendTypes DEF MsmRestarts, Uses
  <2> QED  BY <1>1, <2>1, <2>2
<1>5. CASE UserBacksUp \/ \E b \in Backups : Restore(b)
  <2>1. /\ NewId \in Backups /\ row[NewId] = "none" /\ row' = [row EXCEPT ![NewId] = "RUNNING"]
        /\ UNCHANGED <<archive, cancelled, purged>>
    BY <1>5, NewIdIs DEF UserBacksUp, Restore, Launch
  <2>2. used'["deletes"] = used["deletes"]
    BY <1>5, SpendTypes DEF UserBacksUp, Restore, Uses
  <2> QED  BY <1>1, <2>1, <2>2 DEF Types
<1>6. ASSUME NEW b \in Backups, DeleteFile(b) PROVE EnoughLeft'
  <2>1. archive' = [archive EXCEPT ![b] = FALSE] /\ UNCHANGED <<row, cancelled, purged>>
    BY <1>6 DEF DeleteFile, tasks
  <2>2. used'["deletes"] = used["deletes"] + 1
    BY <1>6, SpendTypes DEF DeleteFile, Uses
  <2>3. Completed' = Completed /\ Withdrawn' = Withdrawn
    BY <2>1 DEF Completed, Withdrawn
  <2>4. Good' = Good \ {b}
    BY <2>1 DEF Good, Completed, Types
  <2> QED  BY <1>0, <2>1, <2>2, <2>3, <2>4, OneLess
<1>7. ASSUME NEW b \in Backups, DeleteRow(b) PROVE EnoughLeft'
  <2>1. /\ b \in deleting /\ UNCHANGED <<archive, cancelled, purged>>
        /\ \A c \in Backups : row'[c] = row[c] \/ (c = b /\ row'[c] = "gone")
    BY <1>7 DEF DeleteRow, Commits, Removed, tasks, Types
  <2>3. used'["deletes"] = used["deletes"]
    BY <1>7, SpendTypes DEF DeleteRow, Commits, Uses
  <2>2. ~(row[b] = "COMPLETED" /\ archive[b])
    BY <2>1 DEF Phased, PhasedAt
  <2> QED  BY <1>1, <2>1, <2>2, <2>3
<1>8. ASSUME NEW b \in Backups, Cancel(b) PROVE EnoughLeft'
  <2>1. /\ phase[b] \in Live \ {"closing"}
        /\ cancelled' = [cancelled EXCEPT ![b] = phase[b]] /\ purged' = purged
    BY <1>8 DEF Cancel
  <2>2. used'["deletes"] = used["deletes"]
    BY <1>8, SpendTypes DEF Cancel, Uses
  <2>3. cancelled[b] = "no"
    BY <2>1 DEF Types, Live, Phased, PhasedAt
  <2>4. CASE phase[b] = "failing"
    <3>1. row' \in {row, Marked(b, "FAILED")} /\ UNCHANGED archive /\ row[b] = "RUNNING"
      BY <1>8, <2>4 DEF Cancel, Phased, PhasedAt
    <3> QED  BY <1>1, <2>1, <2>2, <2>3, <2>4, <3>1 DEF Marked, Types
  <2>5. CASE phase[b] # "failing"
    <3>1. /\ archive' = [archive EXCEPT ![b] = FALSE]
          /\ \/ UNCHANGED row
             \/ phase[b] = "purging" /\ row' = [c \in Backups |-> IF c \in victims[b] THEN "gone"
                                                                   ELSE row[c]]
      BY <1>8, <2>5 DEF Cancel, CancelledAt, Removed
    <3>2. \A c \in victims[b] : ~(row[c] = "COMPLETED" /\ archive[c])
      BY DEF Phased
    <3>3. CASE phase[b] \notin {"purge", "purging"}
      <4>1. row[b] # "COMPLETED" /\ UNCHANGED row
        BY <2>1, <2>5, <3>1, <3>3 DEF Phased, PhasedAt, Live
      <4> QED  BY <1>1, <2>1, <2>2, <2>3, <3>1, <3>3, <4>1 DEF Types
    <3>4. CASE phase[b] \in {"purge", "purging"}
      <4>1. Completed' \in SUBSET Completed /\ Good' = Good \ {b}
        BY <3>1, <3>2 DEF Completed, Good, Types
      <4>2. b \notin Withdrawn /\ Withdrawn' = Withdrawn \cup {b}
        BY <2>1, <2>3, <3>4 DEF Withdrawn, Types
      <4> QED  BY <1>0, <2>1, <2>2, <4>1, <4>2, OneLess
    <3> QED  BY <3>3, <3>4
  <2> QED  BY <2>4, <2>5
<1>9. ASSUME NEW b \in Backups, Progress(b) \/ Failures(b) PROVE EnoughLeft'
  <2>1. UNCHANGED cancelled /\ used'["deletes"] = used["deletes"]
    <3>1. UNCHANGED cancelled /\ (used' = used \/ Spend("failures", MaxFailures))
      BY <1>9 DEF Progress, Failures, Selected, WritingPaused, WorldFlushed, NotConfirmed,
         ThreadWrites, ThreadStops, Copied, Finish, Purge, PurgeCommits, FailureRecorded,
         SelectionRefused, ThreadFails, Commits
    <3> QED  BY <3>1, SpendTypes DEF Uses
  <2>2. CASE Selected(b) \/ WritingPaused(b) \/ NotConfirmed(b) \/ Failures(b)
    <3>1. /\ phase[b] \in {"select", "saveoff", "flush", "copy"} /\ UNCHANGED <<row, purged>>
          /\ archive' = archive \/ archive' = [archive EXCEPT ![b] = FALSE]
      BY <2>2 DEF Selected, WritingPaused, NotConfirmed, Failures, SelectionRefused, ThreadFails, Fails
    <3>2. row[b] = "RUNNING"
      BY <3>1 DEF Phased, PhasedAt
    <3> QED  BY <1>1, <2>1, <3>1, <3>2 DEF Types
  <2>3. CASE WorldFlushed(b) \/ ThreadStops(b) \/ Copied(b)
    BY <1>2, <2>1, <2>3 DEF WorldFlushed, ThreadStops, Copied
  <2>4. CASE ThreadWrites(b)
    <3>1. /\ thread[b] /\ archive' = [archive EXCEPT ![b] = TRUE] /\ UNCHANGED <<row, purged>>
      BY <2>4 DEF ThreadWrites
    <3>2. row[b] # "COMPLETED"
      BY <3>1 DEF Phased, PhasedAt
    <3> QED  BY <1>1, <2>1, <3>1, <3>2 DEF Types
  <2>5. CASE Finish(b)
    <3>1. phase[b] = "finish" /\ UNCHANGED <<archive, purged>>
      BY <2>5 DEF Finish
    <3>2. archive[b] /\ row[b] = "RUNNING"
      BY <3>1 DEF Phased, PhasedAt
    <3>3. CASE row' = row
      BY <1>2, <2>1, <3>1, <3>3
    <3>4. CASE row' = [row EXCEPT ![b] = "COMPLETED"]
      <4>1. Completed' = Completed \cup {b} /\ Withdrawn' = Withdrawn
        BY <2>1, <3>4 DEF Completed, Withdrawn, Types
      <4> QED  BY <1>0, <2>1, <3>1, <3>2, <4>1, MoreLeft
    <3> QED  BY <2>5, <3>2, <3>3, <3>4 DEF Finish, Commits, Marked
  <2>6. CASE Purge(b)
    <3>1. /\ archive' = [c \in Backups |-> archive[c] /\ c \notin Surplus]
          /\ purged' = (purged \/ Surplus # {}) /\ UNCHANGED <<row, used>>
      BY <2>6 DEF Purge
    <3>2. Completed' = Completed /\ Withdrawn' = Withdrawn
      BY <2>1, <3>1 DEF Completed, Withdrawn
    <3>3. CASE Surplus = {}
      <4>1. purged' = purged
        BY <3>1, <3>3 DEF Types
      <4> QED  BY <1>1, <2>1, <3>1, <3>3, <4>1
    <3>4. CASE Surplus # {}
      BY <1>0, <3>1, <3>2, <3>4, PurgeLeaves
    <3> QED  BY <3>3, <3>4
  <2>7. CASE PurgeCommits(b)
    <3>1. /\ \A c \in Backups : row'[c] = row[c] \/ (c \in victims[b] /\ row'[c] = "gone")
          /\ UNCHANGED <<archive, purged>>
      BY <2>7 DEF PurgeCommits, Commits, Removed, Types
    <3>2. \A c \in victims[b] : ~(row[c] = "COMPLETED" /\ archive[c])
      BY DEF Phased
    <3> QED  BY <1>1, <2>1, <3>1, <3>2
  <2>8. CASE FailureRecorded(b)
    <3>1. /\ phase[b] \in {"failing", "closing"} /\ UNCHANGED <<archive, purged>>
          /\ \A c \in Backups : row'[c] = row[c] \/ (c = b /\ row'[c] # "COMPLETED")
      BY <2>8 DEF FailureRecorded, Commits, Marked, Types
    <3>2. ~(row[b] = "COMPLETED" /\ archive[b])
      BY <3>1 DEF Phased, PhasedAt
    <3> QED  BY <1>1, <2>1, <3>1, <3>2
  <2> QED  BY <1>9, <2>2, <2>3, <2>4, <2>5, <2>6, <2>7, <2>8 DEF Progress
<1> QED  BY <1>3, <1>4, <1>5, <1>6, <1>7, <1>8, <1>9 DEF Next, Requests

LEMMA InitEnoughLeft == Init => EnoughLeft
<1> SUFFICES ASSUME Init PROVE EnoughLeft
  OBVIOUS
<1>1. {} \in SUBSET Backups /\ Cardinality({}) = 0 /\ used["deletes"] = 0 /\ ~purged
  BY FS_EmptySet DEF Init
<1>2. \A b \in Completed : archive[b]
  BY DEF Init, Completed
<1>3. Lost({})
  BY <1>1, <1>2 DEF Lost
<1> QED  BY <1>1, <1>3 DEF EnoughLeft

LEMMA CompletedStep ==
    Types /\ Phased /\ CompletedHasArchive /\ [Next]_vars => CompletedHasArchive'
<1> SUFFICES ASSUME Types, Phased, CompletedHasArchive, [Next]_vars, used'["restarts"] = 0
             PROVE  (\A b \in Completed : \/ archive[b] \/ b \in deleting \/ phase[b] = "closing"
                              \/ b \in unwritten
                              \/ \E c \in Backups : b \in victims[c] \/ cancelled[c] = "purging")'
  BY DEF CompletedHasArchive
<1> DEFINE Told(b) == \/ archive[b] \/ b \in deleting \/ phase[b] = "closing"
                      \/ b \in unwritten
                      \/ \E c \in Backups : b \in victims[c] \/ cancelled[c] = "purging"
<1>0. used["restarts"] = 0
  <2>1. used["restarts"] \in Nat /\ used'["restarts"] \in Nat /\ used'["restarts"] >= used["restarts"]
    BY UsedGrows DEF Uses
  <2> QED  BY <2>1
<1>1. \A b \in Backups : row[b] = "COMPLETED" => Told(b)
  BY <1>0 DEF CompletedHasArchive, Completed
<1>2. SUFFICES ASSUME NEW d \in Backups, row'[d] = "COMPLETED" PROVE Told(d)'
  BY DEF Completed
<1>3. CASE UNCHANGED <<row, archive, deleting, phase, victims, cancelled, unwritten>>
  BY <1>1, <1>2, <1>3
<1>4. CASE UNCHANGED vars \/ RestoreSteps \/ Server
  <2>1. UNCHANGED <<row, archive, deleting, phase, victims, cancelled, unwritten>>
    BY <1>4 DEF vars, RestoreSteps, RestoreGoesOn, WorldsRemoved, WorldsExtracted, Server,
       ServerStarts, ServerStops, ServerExecutes, ServerWrites, tasks, history, server
  <2> QED  BY <1>3, <2>1
<1>5. ASSUME MsmRestarts PROVE FALSE
  <2>1. used["restarts"] \in Nat /\ used'["restarts"] = used["restarts"] + 1
    BY <1>5, SpendTypes DEF MsmRestarts, Types, Uses
  <2> QED  BY <2>1
<1>6. CASE UserBacksUp \/ \E b \in Backups : Restore(b)
  <2>1. /\ NewId \in Backups /\ Launch(NewId) /\ row[NewId] = "none"
        /\ UNCHANGED <<archive, deleting, victims, cancelled, unwritten>>
    BY <1>6, NewIdIs DEF UserBacksUp, Restore
  <2> QED  BY <1>1, <1>2, <2>1 DEF Launch, Goes, Types
<1>7. ASSUME NEW b \in Backups, DeleteFile(b) \/ DeleteRow(b) PROVE Told(d)'
  <2>1. UNCHANGED <<phase, victims, cancelled>> /\ unwritten \subseteq unwritten'
    BY <1>7 DEF DeleteFile, DeleteRow, Commits, tasks
  <2>2. CASE d = b
    <3>1. CASE DeleteFile(b)
      BY <2>2, <3>1 DEF DeleteFile
    <3>2. CASE DeleteRow(b)
      <4>1. row' = Removed({b}) \/ b \in unwritten'
        BY <3>2 DEF DeleteRow, Commits
      <4>2. row' # Removed({b})
        BY <1>2, <2>2 DEF Removed
      <4> QED  BY <2>2, <4>1, <4>2
    <3> QED  BY <1>7, <3>1, <3>2
  <2>3. CASE d # b
    <3>1. /\ row'[d] = row[d] /\ archive'[d] = archive[d]
          /\ d \in deleting => d \in deleting'
      BY <1>7, <2>3 DEF DeleteFile, DeleteRow, Commits, Removed, Types
    <3> QED  BY <1>1, <1>2, <2>1, <3>1
  <2> QED  BY <2>2, <2>3
<1>8. ASSUME NEW b \in Backups, Cancel(b) PROVE Told(d)'
  <2>1. /\ phase[b] \in Live \ {"closing"}
        /\ cancelled' = [cancelled EXCEPT ![b] = phase[b]]
        /\ UNCHANGED <<deleting, unwritten>>
    BY <1>8 DEF Cancel
  <2>2. cancelled[b] = "no"
    BY <2>1 DEF Types, Live, Phased, PhasedAt
  <2>3. CASE phase[b] = "failing"
    <3>1. /\ row' \in {row, Marked(b, "FAILED")} /\ phase' = [phase EXCEPT ![b] = "done"]
          /\ UNCHANGED <<archive, victims>> /\ row[b] = "RUNNING"
      BY <1>8, <2>3 DEF Cancel, Goes, Phased, PhasedAt
    <3>2. row[d] = "COMPLETED" /\ d # b
      BY <1>2, <3>1 DEF Marked, Types
    <3> QED  BY <1>1, <2>1, <2>2, <3>1, <3>2 DEF Types
  <2>4. CASE phase[b] # "failing"
    <3>1. /\ archive' = [archive EXCEPT ![b] = FALSE] /\ phase' = [phase EXCEPT ![b] = "closing"]
          /\ victims' = [victims EXCEPT ![b] = {}]
          /\ \A c \in Backups : row'[c] \in {row[c], "gone"}
      BY <1>8, <2>4 DEF Cancel, CancelledAt, Removed, Goes, Types
    <3>2. CASE d = b
      BY <3>1, <3>2 DEF Types
    <3>3. CASE d # b /\ phase[b] = "purging"
      BY <2>1, <3>3 DEF Types
    <3>4. CASE d # b /\ phase[b] # "purging"
      <4>1. victims[b] = {}
        BY <3>4 DEF Phased, PhasedAt
      <4>2. row[d] = "COMPLETED" /\ Told(d)
        BY <1>1, <1>2, <3>1
      <4> QED  BY <2>1, <2>2, <3>1, <3>4, <4>1, <4>2 DEF Types
    <3> QED  BY <3>2, <3>3, <3>4
  <2> QED  BY <2>3, <2>4
<1>9. ASSUME NEW b \in Backups, Progress(b) \/ Failures(b) PROVE Told(d)'
  <2>1. UNCHANGED <<cancelled, deleting>> /\ unwritten \subseteq unwritten'
    BY <1>9 DEF Progress, Failures, Selected, WritingPaused, WorldFlushed, NotConfirmed,
       ThreadWrites, ThreadStops, Copied, Finish, Purge, PurgeCommits, FailureRecorded,
       SelectionRefused, ThreadFails, Commits
  <2>2. CASE Selected(b) \/ WritingPaused(b) \/ NotConfirmed(b) \/ Failures(b) \/ WorldFlushed(b) \/ Copied(b)
    <3>1. /\ phase[b] \in {"select", "saveoff", "flush", "copy"} /\ UNCHANGED <<row, victims>>
          /\ archive' = archive \/ archive' = [archive EXCEPT ![b] = FALSE]
      BY <2>2 DEF Selected, WritingPaused, NotConfirmed, Failures, SelectionRefused, ThreadFails,
         Fails, WorldFlushed, Copied
    <3>2. \A c \in Backups \ {b} : phase'[c] = phase[c]
      BY <2>2 DEF Selected, WritingPaused, NotConfirmed, Failures, SelectionRefused, ThreadFails,
         Fails, WorldFlushed, Copied, Goes, Types
    <3>3. row[b] = "RUNNING"
      BY <3>1 DEF Phased, PhasedAt
    <3> QED  BY <1>1, <1>2, <2>1, <3>1, <3>2, <3>3 DEF Types
  <2>3. CASE ThreadWrites(b) \/ ThreadStops(b)
    <3>1. /\ UNCHANGED <<row, victims, phase>>
          /\ archive' = archive \/ archive' = [archive EXCEPT ![b] = TRUE]
      BY <2>3 DEF ThreadWrites, ThreadStops
    <3> QED  BY <1>1, <1>2, <2>1, <3>1 DEF Types
  <2>4. CASE Finish(b)
    <3>1. /\ phase[b] = "finish" /\ \A c \in Backups \ {b} : row'[c] = row[c]
          /\ phase' = [phase EXCEPT ![b] = "purge"] /\ UNCHANGED <<archive, victims>>
      BY <2>4 DEF Finish, Commits, Marked, Goes, Types
    <3>2. archive[b]
      BY <3>1 DEF Phased, PhasedAt
    <3> QED  BY <1>1, <1>2, <2>1, <3>1, <3>2 DEF Types
  <2>5. CASE Purge(b)
    <3>1. /\ archive' = [c \in Backups |-> archive[c] /\ c \notin Surplus]
          /\ victims' = [victims EXCEPT ![b] = Surplus] /\ phase[b] = "purge"
          /\ UNCHANGED row /\ \A c \in Backups \ {b} : phase'[c] = phase[c]
      BY <2>5 DEF Purge, Goes, Types
    <3>2. victims[b] = {}
      BY <3>1 DEF Phased, PhasedAt
    <3>3. CASE d \in Surplus
      BY <3>1, <3>3 DEF Types
    <3>4. CASE d \notin Surplus
      <4>1. Told(d) /\ phase[b] # "closing"
        BY <1>1, <1>2, <3>1
      <4> QED  BY <2>1, <3>1, <3>2, <3>4, <4>1 DEF Types
    <3> QED  BY <3>3, <3>4
  <2>6. CASE PurgeCommits(b)
    <3>1. /\ \A c \in Backups : row'[c] = row[c] \/ row'[c] = "gone"
          /\ \/ \A c \in victims[b] : row'[c] = "gone"
             \/ victims[b] \subseteq unwritten'
          /\ victims' = [victims EXCEPT ![b] = {}] /\ phase[b] = "purging"
          /\ UNCHANGED archive /\ \A c \in Backups \ {b} : phase'[c] = phase[c]
      BY <2>6 DEF PurgeCommits, Commits, Removed, Goes, Types
    <3>2. row[d] = "COMPLETED" /\ Told(d) /\ (d \in victims[b] => d \in unwritten')
      BY <1>1, <1>2, <3>1
    <3> QED  BY <2>1, <3>1, <3>2 DEF Types
  <2>7. CASE FailureRecorded(b)
    <3>1. /\ UNCHANGED <<archive, victims>>
          /\ row'[b] # "COMPLETED" \/ b \in unwritten'
          /\ \A c \in Backups \ {b} : phase'[c] = phase[c] /\ row'[c] = row[c]
      BY <2>7 DEF FailureRecorded, Commits, Marked, Goes, Types
    <3>2. d \in unwritten' \/ (d # b /\ row[d] = "COMPLETED")
      BY <1>2, <3>1
    <3> QED  BY <1>1, <2>1, <3>1, <3>2
  <2> QED  BY <1>9, <2>2, <2>3, <2>4, <2>5, <2>6, <2>7 DEF Progress
<1> QED  BY <1>4, <1>5, <1>6, <1>7, <1>8, <1>9 DEF Next, Requests

LEMMA InitCompleted == Init => CompletedHasArchive
  BY DEF Init, CompletedHasArchive, Completed

\* The property itself.
LEMMA KeptIs == EnoughLeft /\ CompletedHasArchive => ArchivesAreKept
  BY DEF EnoughLeft, ArchivesAreKept, PurgeKeepsEnough, Floor, Good, Withdrawn
--------------------------------------------------------------------------------
\* Why an archive is missing, and the safety backup of a restore.
Accounted ==
    \A b \in Backups :
        /\ b \in deleting => used["deletes"] > 0
        /\ \A c \in victims[b] : Outdone(c)
        /\ (row[b] = "COMPLETED" /\ ~archive[b]) \/ row[b] = "gone" =>
               cancelled[b] # "no" \/ used["deletes"] > 0 \/ Outdone(b)

Ended(b) == phase[b] = "done" /\ cancelled[b] = "no"

Guarded ==
    /\ \A s \in Backups : restoring[s].phase # "none" => s \in safety
    /\ \A b \in safety : phase[b] # "none"
    /\ \A s \in Backups : restoring[s].phase \in {"apply", "extract"} => Ended(s)
    /\ world = "removed" => \E b \in safety : Ended(b)

\* What a step never takes back.
LEMMA RowsStay ==
    ASSUME Types, Phased, [Next]_vars, NEW c \in Backups
    PROVE  /\ row[c] # "none" => row'[c] # "none"
           /\ cancelled[c] # "no" => cancelled'[c] # "no"
           /\ Ended(c) => Ended(c)'
           /\ phase[c] # "none" => phase'[c] # "none"
<1> DEFINE Stays == /\ row[c] # "none" => row'[c] # "none"
                    /\ cancelled[c] # "no" => cancelled'[c] # "no"
                    /\ Ended(c) => Ended(c)'
<1>0. PhasedAt(c) /\ PhasedAt(c)'
  BY PhasedStep DEF Phased
<1>1. SUFFICES Stays
  BY <1>0 DEF PhasedAt
<1>2. CASE UNCHANGED vars \/ RestoreSteps \/ Server
  <2>1. UNCHANGED <<row, phase, cancelled>>
    BY <1>2 DEF vars, RestoreSteps, RestoreGoesOn, WorldsRemoved, WorldsExtracted, Server,
       ServerStarts, ServerStops, ServerExecutes, ServerWrites, tasks, history, server
  <2> QED  BY <2>1 DEF Ended
<1>3. CASE MsmRestarts
  <2>1. /\ phase' = [b \in Backups |-> IF row[b] = "none" THEN "none" ELSE "done"]
        /\ row' = [b \in Backups |-> IF row[b] = "RUNNING" THEN "FAILED" ELSE row[b]]
        /\ UNCHANGED cancelled
    BY <1>3 DEF MsmRestarts
  <2> QED  BY <1>0, <2>1 DEF Ended, PhasedAt
<1>4. CASE UserBacksUp \/ \E b \in Backups : Restore(b)
  <2>1. /\ NewId \in Backups /\ row[NewId] = "none" /\ row' = [row EXCEPT ![NewId] = "RUNNING"]
        /\ phase' = [phase EXCEPT ![NewId] = "select"] /\ UNCHANGED cancelled
    BY <1>4, NewIdIs DEF UserBacksUp, Restore, Launch, Goes
  <2> QED  BY <1>0, <2>1 DEF Ended, PhasedAt, Types
<1>5. ASSUME NEW b \in Backups, Cancel(b) PROVE Stays
  <2>1. /\ phase[b] \in Live \ {"closing"}
        /\ cancelled' = [cancelled EXCEPT ![b] = phase[b]]
    BY <1>5 DEF Cancel
  <2>2. phase[b] \notin {"no", "done", "none"}
    BY <2>1 DEF Live
  <2>3. \A d \in Backups \ {b} : phase'[d] = phase[d]
    BY <1>5 DEF Cancel, CancelledAt, Goes, Types
  <2>4. row[c] # "none" => row'[c] # "none"
    <3>1. row' = row \/ row' = Marked(b, "FAILED") \/ row' = Removed(victims[b])
      BY <1>5 DEF Cancel, CancelledAt
    <3> QED  BY <3>1 DEF Marked, Removed, Types
  <2> QED  BY <2>1, <2>2, <2>3, <2>4 DEF Ended, Types
<1>6. ASSUME NEW b \in Backups, DeleteFile(b) \/ DeleteRow(b) PROVE Stays
  <2>1. UNCHANGED <<phase, cancelled>> /\ (row' = row \/ row' = Removed({b}))
    BY <1>6 DEF DeleteFile, DeleteRow, Commits, tasks
  <2> QED  BY <2>1 DEF Removed, Ended, Types
<1>7. ASSUME NEW b \in Backups, Progress(b) \/ Failures(b) PROVE Stays
  <2>1. UNCHANGED cancelled
    BY <1>7 DEF Progress, Failures, Selected, WritingPaused, WorldFlushed, NotConfirmed,
       ThreadWrites, ThreadStops, Copied, Finish, Purge, PurgeCommits, FailureRecorded,
       SelectionRefused, ThreadFails
  <2>2. \/ row' = row \/ row' = Marked(b, "FAILED") \/ row' = Marked(b, "COMPLETED")
        \/ row' = Removed(victims[b])
    BY <1>7 DEF Progress, Failures, Selected, WritingPaused, WorldFlushed, NotConfirmed,
       ThreadWrites, ThreadStops, Copied, Finish, Purge, PurgeCommits, FailureRecorded,
       SelectionRefused, ThreadFails, Commits
  <2>3. row[c] # "none" => row'[c] # "none"
    BY <2>2 DEF Marked, Removed, Types
  <2>4. \/ phase' = phase
        \/ phase[b] # "done" /\ \A d \in Backups \ {b} : phase'[d] = phase[d]
    BY <1>7 DEF Progress, Failures, Selected, WritingPaused, WorldFlushed, NotConfirmed,
       ThreadWrites, ThreadStops, Copied, Finish, Purge, PurgeCommits, FailureRecorded,
       SelectionRefused, ThreadFails, Fails, Goes, Types
  <2> QED  BY <2>1, <2>3, <2>4 DEF Ended
<1> QED  BY <1>2, <1>3, <1>4, <1>5, <1>6, <1>7 DEF Next, Requests

LEMMA OutdoneStays ==
    ASSUME Types, Phased, [Next]_vars, NEW b, Outdone(b)
    PROVE  Outdone(b)'
<1> DEFINE Begun == {c \in Backups : c > b /\ row[c] # "none"}
<1>1. Begun \in SUBSET Begun' /\ Begun' \in SUBSET Backups
  BY RowsStay
<1>2. /\ Cardinality(Begun) <= Cardinality(Begun')
      /\ Cardinality(Begun) \in Nat /\ Cardinality(Begun') \in Nat /\ Retention \in Nat
  BY <1>1, Counting, BoundsAreNaturals
<1>3. Cardinality(Begun) >= Retention
  BY DEF Outdone
<1>4. Cardinality(Begun') >= Retention
  <2> HIDE DEF Begun
  <2> QED  BY <1>2, <1>3
<1> QED  BY <1>4 DEF Outdone

\* What the purge chooses has enough newer backups.
LEMMA SurplusIsOutdone ==
    ASSUME NEW c \in Surplus
    PROVE  Outdone(c)
<1> DEFINE Above == {d \in Completed : d > c}
           Begun == {d \in Backups : d > c /\ row[d] # "none"}
<1>1. Cardinality(Above) >= Retention
  BY DEF Surplus
<1>2. Above \in SUBSET Begun /\ Begun \in SUBSET Backups /\ Above \in SUBSET Backups
  BY DEF Completed
<1>3. /\ Cardinality(Above) <= Cardinality(Begun)
      /\ Cardinality(Above) \in Nat /\ Cardinality(Begun) \in Nat /\ Retention \in Nat
  BY <1>2, Counting, BoundsAreNaturals
<1>4. Cardinality(Begun) >= Retention
  <2> HIDE DEF Above, Begun
  <2> QED  BY <1>1, <1>3
<1> QED  BY <1>4 DEF Outdone

LEMMA AccountedStep == Types /\ Phased /\ Accounted /\ [Next]_vars => Accounted'
<1> SUFFICES ASSUME Types, Phased, Accounted, [Next]_vars, NEW d \in Backups
             PROVE  /\ d \in deleting' => used'["deletes"] > 0
                    /\ \A c \in victims'[d] : Outdone(c)'
                    /\ (row'[d] = "COMPLETED" /\ ~archive'[d]) \/ row'[d] = "gone" =>
                           cancelled'[d] # "no" \/ used'["deletes"] > 0 \/ Outdone(d)'
  BY DEF Accounted
<1> DEFINE Why == cancelled[d] # "no" \/ used["deletes"] > 0 \/ Outdone(d)
           Missing == (row[d] = "COMPLETED" /\ ~archive[d]) \/ row[d] = "gone"
<1>1. \A c : Outdone(c) => Outdone(c)'
  BY OutdoneStays
<1>2. /\ used["deletes"] \in Nat /\ used'["deletes"] \in Nat /\ used'["deletes"] >= used["deletes"]
      /\ cancelled[d] # "no" => cancelled'[d] # "no"
  BY UsedGrows, RowsStay DEF Uses
<1>3. Why => Why'
  BY <1>1, <1>2
<1>4. /\ d \in deleting => used["deletes"] > 0
      /\ \A c \in victims[d] : Outdone(c)
      /\ Missing => Why
  BY DEF Accounted
<1>5. ASSUME d \in deleting' => d \in deleting, victims'[d] \in SUBSET victims[d],
             Missing' => Missing \/ Why'
      PROVE  /\ d \in deleting' => used'["deletes"] > 0
             /\ \A c \in victims'[d] : Outdone(c)'
             /\ Missing' => Why'
  BY <1>1, <1>2, <1>3, <1>4, <1>5
<1> HIDE DEF Why
<1>6. CASE UNCHANGED vars \/ RestoreSteps \/ Server
  <2>1. UNCHANGED <<row, archive, deleting, victims>>
    BY <1>6 DEF vars, RestoreSteps, RestoreGoesOn, WorldsRemoved, WorldsExtracted, Server,
       ServerStarts, ServerStops, ServerExecutes, ServerWrites, tasks, history, server
  <2> QED  BY <1>5, <2>1 DEF Why
<1>7. CASE MsmRestarts
  <2>1. /\ row' = [b \in Backups |-> IF row[b] = "RUNNING" THEN "FAILED" ELSE row[b]]
        /\ victims' = [b \in Backups |-> {}] /\ deleting' = {} /\ UNCHANGED archive
    BY <1>7 DEF MsmRestarts
  <2> QED  BY <1>5, <2>1 DEF Why
<1>8. CASE UserBacksUp \/ \E b \in Backups : Restore(b)
  <2>1. /\ NewId \in Backups /\ Launch(NewId)
        /\ UNCHANGED <<archive, deleting, victims>>
    BY <1>8, NewIdIs DEF UserBacksUp, Restore
  <2> QED  BY <1>5, <2>1 DEF Launch, Types, Why
<1>9. ASSUME NEW b \in Backups, DeleteFile(b)
      PROVE  /\ d \in deleting' => used'["deletes"] > 0
             /\ \A c \in victims'[d] : Outdone(c)'
             /\ Missing' => Why'
  <2>1. used'["deletes"] = used["deletes"] + 1
    BY <1>9, SpendTypes DEF DeleteFile, Uses
  <2>2. used'["deletes"] > 0
    BY <1>2, <2>1
  <2>3. UNCHANGED victims
    BY <1>9 DEF DeleteFile
  <2> QED  BY <1>1, <1>4, <2>2, <2>3 DEF Why
<1>10. ASSUME NEW b \in Backups, DeleteRow(b)
       PROVE  /\ d \in deleting' => used'["deletes"] > 0
              /\ \A c \in victims'[d] : Outdone(c)'
              /\ Missing' => Why'
  <2>1. /\ b \in deleting /\ deleting' = deleting \ {b}
        /\ row' = row \/ row' = Removed({b})
        /\ UNCHANGED <<archive, victims>>
    BY <1>10 DEF DeleteRow, Commits
  <2>2. used'["deletes"] > 0
    BY <1>2, <2>1 DEF Accounted
  <2> QED  BY <1>5, <2>1, <2>2 DEF Removed, Why
<1>11. ASSUME NEW b \in Backups, Cancel(b)
       PROVE  /\ d \in deleting' => used'["deletes"] > 0
              /\ \A c \in victims'[d] : Outdone(c)'
              /\ Missing' => Why'
  <2>1. /\ phase[b] \in Live \ {"closing"}
        /\ cancelled' = [cancelled EXCEPT ![b] = phase[b]] /\ UNCHANGED deleting
    BY <1>11 DEF Cancel
  <2>2. cancelled'[b] # "no"
    BY <2>1 DEF Live, Types
  <2>3. CASE phase[b] = "failing"
    <3>1. row' \in {row, Marked(b, "FAILED")} /\ UNCHANGED <<archive, victims>>
      BY <1>11, <2>3 DEF Cancel
    <3> QED  BY <1>5, <2>1, <2>2, <3>1 DEF Marked, Types
  <2>4. CASE phase[b] # "failing"
    <3>1. /\ archive' = [archive EXCEPT ![b] = FALSE]
          /\ victims' = [victims EXCEPT ![b] = {}]
          /\ \/ UNCHANGED row
             \/ row' = [c \in Backups |-> IF c \in victims[b] THEN "gone" ELSE row[c]]
      BY <1>11, <2>4 DEF Cancel, CancelledAt, Removed
    <3>2. d \in victims[b] => Outdone(d)'
      BY <1>1 DEF Accounted
    <3>3. Missing' => Missing \/ Why'
      <4>1. CASE d = b
        BY <2>2, <4>1 DEF Why
      <4>2. CASE d # b
        BY <3>1, <3>2, <4>2 DEF Types, Why
      <4> QED  BY <4>1, <4>2
    <3>4. victims'[d] \in SUBSET victims[d]
      BY <3>1 DEF Types
    <3> QED  BY <1>5, <2>1, <3>3, <3>4
  <2> QED  BY <2>3, <2>4
<1>12. ASSUME NEW b \in Backups, Progress(b) \/ Failures(b)
       PROVE  /\ d \in deleting' => used'["deletes"] > 0
              /\ \A c \in victims'[d] : Outdone(c)'
              /\ Missing' => Why'
  <2>1. UNCHANGED deleting
    BY <1>12 DEF Progress, Failures, Selected, WritingPaused, WorldFlushed, NotConfirmed,
       ThreadWrites, ThreadStops, Copied, Finish, Purge, PurgeCommits, FailureRecorded,
       SelectionRefused, ThreadFails
  <2>2. CASE Selected(b) \/ WritingPaused(b) \/ NotConfirmed(b) \/ Failures(b) \/ WorldFlushed(b) \/ Copied(b)
    <3>1. /\ phase[b] \in {"select", "saveoff", "flush", "copy"} /\ UNCHANGED <<row, victims>>
          /\ archive' = archive \/ archive' = [archive EXCEPT ![b] = FALSE]
      BY <2>2 DEF Selected, WritingPaused, NotConfirmed, Failures, SelectionRefused, ThreadFails,
         Fails, WorldFlushed, Copied
    <3>2. row[b] = "RUNNING"
      BY <3>1 DEF Phased, PhasedAt
    <3> QED  BY <1>5, <2>1, <3>1, <3>2 DEF Types
  <2>3. CASE ThreadWrites(b) \/ ThreadStops(b)
    <3>1. /\ UNCHANGED <<row, victims>>
          /\ archive' = archive \/ archive' = [archive EXCEPT ![b] = TRUE]
      BY <2>3 DEF ThreadWrites, ThreadStops
    <3> QED  BY <1>5, <2>1, <3>1 DEF Types
  <2>4. CASE Finish(b)
    <3>1. /\ phase[b] = "finish" /\ row' \in {row, Marked(b, "COMPLETED")}
          /\ UNCHANGED <<archive, victims>>
      BY <2>4 DEF Finish, Commits
    <3>2. archive[b]
      BY <3>1 DEF Phased, PhasedAt
    <3> QED  BY <1>5, <2>1, <3>1, <3>2 DEF Marked, Types
  <2>5. CASE Purge(b)
    <3>1. /\ archive' = [c \in Backups |-> archive[c] /\ c \notin Surplus]
          /\ victims' = [victims EXCEPT ![b] = Surplus] /\ UNCHANGED row
      BY <2>5 DEF Purge
    <3>2. \A c \in Surplus : Outdone(c)'
      BY <1>1, SurplusIsOutdone
    <3>3. \A c \in victims'[d] : Outdone(c)'
      BY <1>1, <1>4, <3>1, <3>2 DEF Types
    <3>4. Missing' => Why'
      BY <1>3, <1>4, <3>1, <3>2 DEF Types, Why
    <3> QED  BY <1>2, <1>4, <2>1, <3>3, <3>4
  <2>6. CASE PurgeCommits(b)
    <3>1. /\ row' = row \/ row' = Removed(victims[b])
          /\ victims' = [victims EXCEPT ![b] = {}] /\ UNCHANGED archive
      BY <2>6 DEF PurgeCommits, Commits
    <3>2. d \in victims[b] => Outdone(d)'
      BY <1>1 DEF Accounted
    <3>3. Missing' => Missing \/ Why'
      BY <3>1, <3>2 DEF Removed, Why
    <3>4. victims'[d] \in SUBSET victims[d]
      BY <3>1 DEF Types
    <3> QED  BY <1>5, <2>1, <3>3, <3>4
  <2>7. CASE FailureRecorded(b)
    <3>1. row' \in {row, Marked(b, "FAILED")} /\ UNCHANGED <<archive, victims>>
      BY <2>7 DEF FailureRecorded, Commits
    <3> QED  BY <1>5, <2>1, <3>1 DEF Marked, Types
  <2> QED  BY <1>12, <2>2, <2>3, <2>4, <2>5, <2>6, <2>7 DEF Progress
<1> QED  BY <1>6, <1>7, <1>8, <1>9, <1>10, <1>11, <1>12 DEF Next, Requests, Why

LEMMA GuardedStep == Types /\ Phased /\ Guarded /\ [Next]_vars => Guarded'
<1> SUFFICES ASSUME Types, Phased, Guarded, [Next]_vars PROVE Guarded'
  OBVIOUS
<1>1. ASSUME NEW c \in Backups
      PROVE  /\ Ended(c) => phase'[c] = "done" /\ cancelled'[c] = "no"
             /\ phase[c] # "none" => phase'[c] # "none"
  BY RowsStay DEF Ended
<1>2. safety \in SUBSET Backups /\ \A b \in safety : phase'[b] # "none"
  BY <1>1 DEF Guarded, Types
<1>3. CASE UNCHANGED <<safety, restoring, world>>
  BY <1>1, <1>2, <1>3 DEF Guarded, Ended, Types
<1>4. ASSUME NEW s \in Backups, RestoreGoesOn(s) PROVE Guarded'
  <2>1. /\ restoring[s].phase = "await" /\ phase[s] = "done" /\ UNCHANGED <<safety, world>>
        /\ \/ restoring' = [restoring EXCEPT ![s] = NoRestore]
           \/ restoring' = [restoring EXCEPT ![s].phase = "apply"] /\ cancelled[s] = "no"
    BY <1>4 DEF RestoreGoesOn, SafetyTaken
  <2>2. \/ restoring'[s].phase = "none"
        \/ restoring'[s].phase = "apply" /\ Ended(s) /\ s \in safety
    <3>1. restoring'[s] \in {NoRestore, [restoring[s] EXCEPT !.phase = "apply"]}
      BY <2>1 DEF Types
    <3>2. NoRestore.phase = "none" /\ [restoring[s] EXCEPT !.phase = "apply"].phase = "apply"
      BY DEF NoRestore, Types, Restores
    <3>3. s \in safety /\ (cancelled[s] = "no" => Ended(s))
      BY <2>1 DEF Guarded, Ended
    <3>4. cancelled[s] # "no" => restoring'[s].phase = "none"
      BY <2>1, <3>2 DEF Types
    <3> QED  BY <3>1, <3>2, <3>3, <3>4
  <2>3. \A r \in Backups \ {s} : restoring'[r] = restoring[r]
    BY <2>1 DEF Types
  <2> QED  BY <1>1, <1>2, <2>1, <2>2, <2>3 DEF Guarded, Ended, Types
<1>5. ASSUME NEW s \in Backups, WorldsRemoved(s) \/ WorldsExtracted(s) PROVE Guarded'
  <2>1. /\ restoring[s].phase \in {"apply", "extract"} /\ UNCHANGED safety
        /\ \/ restoring' = [restoring EXCEPT ![s] = NoRestore]
           \/ restoring' = [restoring EXCEPT ![s].phase = "extract"]
    BY <1>5 DEF WorldsRemoved, WorldsExtracted
  <2>2. s \in safety /\ Ended(s)
    BY <2>1 DEF Guarded
  <2>3. \A r \in Backups \ {s} : restoring'[r] = restoring[r]
    BY <2>1 DEF Types
  <2> QED  BY <1>1, <1>2, <2>1, <2>2, <2>3 DEF Guarded, Ended
<1>6. ASSUME NEW b \in Backups, Restore(b) PROVE Guarded'
  <2>1. /\ NewId \in Backups /\ phase'[NewId] = "select"
        /\ safety' = safety \cup {NewId} /\ world' = world
        /\ restoring'[NewId].phase = "await"
        /\ \A s \in Backups \ {NewId} : restoring'[s] = restoring[s]
    BY <1>6, NewIdIs DEF Restore, Launch, Goes, Types
  <2> QED  BY <1>1, <1>2, <2>1 DEF Guarded, Ended
<1>7. CASE MsmRestarts
  BY <1>1, <1>2, <1>7 DEF MsmRestarts, NoRestore, Guarded, Ended
<1>8. CASE UNCHANGED vars \/ UserBacksUp \/ Server
  BY <1>3, <1>8 DEF vars, UserBacksUp, Server, ServerStarts, ServerStops, ServerExecutes, ServerWrites
<1>9. ASSUME NEW b \in Backups, Cancel(b) \/ DeleteFile(b) \/ DeleteRow(b) PROVE Guarded'
  BY <1>3, <1>9 DEF Cancel, DeleteFile, DeleteRow
<1>10. ASSUME NEW b \in Backups, Progress(b) \/ Failures(b) PROVE Guarded'
  BY <1>3, <1>10 DEF Progress, Failures, Selected, WritingPaused, WorldFlushed, NotConfirmed,
     ThreadWrites, ThreadStops, Copied, Finish, Purge, PurgeCommits, FailureRecorded,
     SelectionRefused, ThreadFails
<1> QED  BY <1>4, <1>5, <1>6, <1>7, <1>8, <1>9, <1>10 DEF Next, Requests, RestoreSteps

LEMMA InitFate == Init => Accounted /\ Guarded
<1>1. Init => Accounted
  BY DEF Init, Accounted
<1>2. Init => Guarded
  BY DEF Init, Guarded, NoRestore
<1> QED  BY <1>1, <1>2

\* The property itself.
LEMMA FateIsSafe == Types /\ Phased /\ Accounted /\ Guarded => SafetyNet
<1> SUFFICES ASSUME Types, Phased, Accounted, Guarded PROVE SafetyNet
  OBVIOUS
<1>1. ASSUME NEW b \in Backups, Ended(b) PROVE Saved(b)
  <2>1. row[b] \in {"COMPLETED", "FAILED", "gone"} \/ b \in unwritten
    BY <1>1 DEF Ended, Phased, PhasedAt, Types, Statuses
  <2> QED  BY <1>1, <2>1 DEF Accounted, Ended, Saved
<1> QED  BY <1>1 DEF Guarded, SafetyNet, Types
--------------------------------------------------------------------------------
\* Nothing of the restart, of a retry or of a cancellation leaves the state: the
\* types of the variables, and what Phased says of each backup.
Sound == Types /\ Phased

LEMMA InitSound == Init => Sound
  BY InitTypes, InitPhased DEF Sound

LEMMA SoundStep == Sound /\ [Next]_vars => Sound'
  BY TypesStep, PhasedStep DEF Sound

LEMMA AlwaysSound == Spec => []Sound
  BY InitSound, SoundStep, PTL DEF Spec

\* Every variable keeps its type; only a task past the confirmation of save-off is
\* inside frozen_world, and only a purge has victims: whatever is cancelled, fails
\* or restarts, and whenever.
THEOREM TypeCorrect == Spec => []TypeOK
<1>1. Sound => TypeOK
  BY TypesAre DEF Sound, Phased, PhasedAt
<1> QED  BY <1>1, AlwaysSound, PTL

\* Once no backup is in progress, a server that MSM can reach saves on its own
\* again or is about to (frozen_world, hot.py), for every number of backups that
\* overlap, fail, time out or are cancelled; except a cancellation on the wait for
\* save-off.
THEOREM SavingComesBackCorrect == Spec => []SavingComesBack
<1>1. Sound /\ SavingIsHeld /\ [Next]_vars => SavingIsHeld'
  BY SavingIsHeldStep DEF Sound
<1>2. Sound /\ SavingIsHeld => SavingComesBack
  BY ComesBack DEF Sound
<1> QED  BY <1>1, <1>2, InitSavingIsHeld, AlwaysSound, PTL DEF Spec

\* A backup that is alone and is kept as complete was copied from a world nobody
\* was writing: save-off and the flush were executed, in that order, before the
\* copy (frozen_world, hot.py).
THEOREM CopyIsConsistentCorrect == Spec => []CopyIsConsistent
<1>1. Sound /\ Alone /\ [Next]_vars => Alone'
  BY AloneStep DEF Sound
<1> QED  BY <1>1, InitAlone, AloneIsConsistent, AlwaysSound, PTL DEF Spec

\* A complete backup of the history has its archive, unless the transaction that
\* removes its row is to come or has failed, and the purge keeps as many as it is
\* told to (_purge_old): for every retention and any number of purges, deletions,
\* cancellations and failed transactions that interleave.
THEOREM ArchivesAreKeptCorrect == Spec => []ArchivesAreKept
<1>1. Sound /\ EnoughLeft /\ [Next]_vars => EnoughLeft'
  BY EnoughLeftStep DEF Sound
<1>2. Sound /\ CompletedHasArchive /\ [Next]_vars => CompletedHasArchive'
  BY CompletedStep DEF Sound
<1>3. Spec => []EnoughLeft
  BY <1>1, InitEnoughLeft, AlwaysSound, PTL DEF Spec
<1>4. Spec => []CompletedHasArchive
  BY <1>2, InitCompleted, AlwaysSound, PTL DEF Spec
<1> QED  BY <1>3, <1>4, KeptIs, PTL

\* While a restore removes and replaces the worlds, and for as long as they are
\* missing, the safety backup taken before it is there, unless it failed, its row
\* could not be written, the user deleted a backup, or newer backups pushed it out
\* (_restore, backup_service.py), for any number of restores at once.
THEOREM SafetyNetCorrect == Spec => []SafetyNet
<1>1. Sound /\ Accounted /\ [Next]_vars => Accounted'
  BY AccountedStep DEF Sound
<1>2. Sound /\ Guarded /\ [Next]_vars => Guarded'
  BY GuardedStep DEF Sound
<1>3. Sound /\ Accounted /\ Guarded => SafetyNet
  BY FateIsSafe DEF Sound
<1>4. Spec => []Accounted
  BY <1>1, InitFate, AlwaysSound, PTL DEF Spec
<1>5. Spec => []Guarded
  BY <1>2, InitFate, AlwaysSound, PTL DEF Spec
<1> QED  BY <1>3, <1>4, <1>5, AlwaysSound, PTL
--------------------------------------------------------------------------------
(***************************************************************************)
(* What a backup holds, and what restoring it does to a folder.            *)
(***************************************************************************)
\* A folder is a function on some of the paths.
LEMMA FolderIsFunction ==
    ASSUME NEW folder \in Folders
    PROVE  DOMAIN folder \subseteq Paths /\ folder = [p \in DOMAIN folder |-> folder[p]]
BY DEF Folders

\* What is taken is in the folder, and everything the archive holds was taken.
LEMMA TakenIsThere ==
    ASSUME NEW folder \in Folders
    PROVE  /\ Taken(folder) \subseteq DOMAIN folder
           /\ DOMAIN BackupOf(folder).files = Taken(folder)
           /\ \A p \in Taken(folder) : BackupOf(folder).files[p] = folder[p]
           /\ BackupOf(folder).worlds = Worlds(folder)
BY DEF Taken, Walked, BackupOf

\* A restoration writes some of the archive over what is outside its worlds.
LEMMA RestorationIsOver ==
    ASSUME NEW folder, NEW content, NEW after \in Restorations(folder, content)
    PROVE  \E written \in SUBSET DOMAIN content.files :
              /\ after = Over(folder, content, written)
              /\ ~Refused(content) => written = DOMAIN content.files
BY DEF Restorations

\* Whatever the archive brings, a file that is taken from the folder too is a
\* setting or lies in a world of the archive.
LEMMA TakenAgain ==
    ASSUME NEW folder \in Folders, NEW source \in Folders,
           NEW p \in Taken(source), p \in DOMAIN folder
    PROVE  p \in Taken(folder) \/ Top[p] \in Worlds(source)
BY DEF Taken, Walked

\* A restored world is the one that was saved.
THEOREM RestoredWorlds ==
    \A folder \in Folders, source \in Folders : WorldsAreThoseSaved(folder, source)
<1> SUFFICES ASSUME NEW folder \in Folders, NEW source \in Folders,
                    ~Refused(BackupOf(source)),
                    NEW after \in Restorations(folder, BackupOf(source)),
                    NEW d \in BackupOf(source).worlds \ Untouchable
             PROVE  In(after, d) = In(BackupOf(source).files, d)
  BY DEF WorldsAreThoseSaved
<1> DEFINE content == BackupOf(source)
<1>1. after = Over(folder, content, DOMAIN content.files)
  BY RestorationIsOver
<1>2. /\ DOMAIN after = Replaced(folder, content) \cup DOMAIN content.files
      /\ \A p \in DOMAIN content.files : after[p] = content.files[p]
  BY <1>1 DEF Over
<1>3. \A p \in Replaced(folder, content) : Top[p] # d
  BY DEF Replaced
<1>4. {q \in DOMAIN after : Top[q] = d} = {q \in DOMAIN content.files : Top[q] = d}
  BY <1>2, <1>3
<1> QED
  BY <1>2, <1>4 DEF In

\* The safety backup undoes a restoration.
THEOREM RestoreUndone ==
    \A folder \in Folders, source \in Folders : RestoreIsUndone(folder, source)
<1> SUFFICES ASSUME NEW folder \in Folders, NEW source \in Folders,
                    ~Refused(BackupOf(folder)),
                    NEW after \in Restorations(folder, BackupOf(source)),
                    NEW again \in Restorations(after, BackupOf(folder)),
                    NEW p \in DOMAIN folder
             PROVE  \/ p \in DOMAIN again /\ again[p] = folder[p]
                    \/ p \notin Taken(folder) /\ Top[p] \in Worlds(folder) \cup Worlds(source)
  BY DEF RestoreIsUndone
<1> DEFINE content == BackupOf(source)
           rescue == BackupOf(folder)
<1>1. PICK written \in SUBSET DOMAIN content.files : after = Over(folder, content, written)
  BY RestorationIsOver
<1>2. again = Over(after, rescue, Taken(folder))
  BY RestorationIsOver, TakenIsThere
<1>3. CASE p \in Taken(folder)
  BY <1>2, <1>3, TakenIsThere DEF Over
<1>4. CASE p \notin Taken(folder) /\ Top[p] \notin Worlds(folder) \cup Worlds(source)
  <2>1. p \notin written
    BY <1>1, <1>4, TakenIsThere, TakenAgain
  <2>2. p \in Replaced(folder, content)
    BY <1>4, TakenIsThere DEF Replaced
  <2>3. p \in DOMAIN after /\ after[p] = folder[p]
    BY <1>1, <2>1, <2>2 DEF Over
  <2>4. p \in Replaced(after, rescue)
    BY <1>4, <2>3, TakenIsThere DEF Replaced
  <2> QED
    BY <1>2, <1>4, <2>3, <2>4 DEF Over
<1> QED
  BY <1>3, <1>4

\* What a restoration brought and its undoing leaves is in no world of the folder.
THEOREM StrangersStay ==
    \A folder \in Folders, source \in Folders : OnlyStrangersStay(folder, source)
<1> SUFFICES ASSUME NEW folder \in Folders, NEW source \in Folders,
                    ~Refused(BackupOf(folder)),
                    NEW after \in Restorations(folder, BackupOf(source)),
                    NEW again \in Restorations(after, BackupOf(folder)),
                    NEW p \in DOMAIN again \ DOMAIN folder
             PROVE  p \in Taken(source) /\ Top[p] \notin Worlds(folder) \ Untouchable
  BY DEF OnlyStrangersStay
<1> DEFINE content == BackupOf(source)
           rescue == BackupOf(folder)
<1>1. PICK written \in SUBSET DOMAIN content.files : after = Over(folder, content, written)
  BY RestorationIsOver
<1>2. again = Over(after, rescue, Taken(folder))
  BY RestorationIsOver, TakenIsThere
<1>3. p \in Replaced(after, rescue)
  BY <1>2, TakenIsThere DEF Over
<1>4. p \in DOMAIN after /\ Top[p] \notin Worlds(folder) \ Untouchable
  BY <1>3, TakenIsThere DEF Replaced
<1>5. p \in written
  BY <1>1, <1>4 DEF Over, Replaced
<1> QED
  BY <1>1, <1>4, <1>5, TakenIsThere
================================================================================
