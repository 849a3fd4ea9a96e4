-------------------------- MODULE ProvisioningProofs --------------------------
(***************************************************************************)
(* Proofs about Provisioning, for any accounts, names, folders, ports,     *)
(* quota and number of creations, deletions and stops.                     *)
(***************************************************************************)
EXTENDS Provisioning, FiniteSetTheorems, WellFoundedInduction, TLAPS

\* A set of numbers that is not empty has a smallest one.
LEMMA SmallestIn ==
    ASSUME NEW S \in SUBSET Nat, S # {}
    PROVE  Smallest(S) \in S
<1> DEFINE R == OpToRel(<, Nat)
<1>1. PICK n \in S : \A m \in S : ~(<<m, n>> \in R)
  <2>1. IsWellFoundedOn(R, Nat)
    BY NatLessThanWellFounded
  <2> HIDE DEF R
  <2>2. QED  BY <2>1, WFMin
<1>2. \A m \in Nat : m < n => <<m, n>> \in R
  BY DEF OpToRel
<1> HIDE DEF R
<1>3. \A m \in S : n <= m
  <2> SUFFICES ASSUME NEW m \in S PROVE n <= m
    OBVIOUS
  <2>1. n \in Nat /\ m \in Nat
    OBVIOUS
  <2>2. ~(m < n)
    BY <1>1, <1>2, <2>1
  <2>3. QED  BY <2>1, <2>2
<1>4. QED  BY <1>3 DEF Smallest

\* The sets of creations are finite.
LEMMA IdsFinite ==
    /\ IsFiniteSet(Ids)
    /\ \A S \in SUBSET Ids : IsFiniteSet(S) /\ Cardinality(S) \in Nat
<1>1. IsFiniteSet(Ids)
  BY FS_Interval, ProvisioningAssumption DEF Ids
<1>2. QED  BY <1>1, FS_Subset, FS_CardinalityType

\* The smallest slug that no server has: there are as many as creations, and the
\* creation that looks for one has none.
LEMMA SlugLeft ==
    ASSUME TypeOK, NEW c \in Ids \ rows, NEW Q \in SUBSET rows
    PROVE  Ids \ {creation[r].slug : r \in Q} # {}
<1> SUFFICES ASSUME Ids \subseteq {creation[r].slug : r \in Q} PROVE FALSE
  OBVIOUS
<1> DEFINE T == {r \in Q : creation[r].slug \in Ids}
           f == [r \in T |-> creation[r].slug]
<1>1. f \in Surjection(T, Ids)
  BY DEF Surjection
<1>2. T \in SUBSET (Ids \ {c}) /\ IsFiniteSet(T)
  BY IdsFinite DEF TypeOK
<1>3. Cardinality(Ids) <= Cardinality(T)
  <2> HIDE DEF T, f
  <2>1. QED  BY <1>1, <1>2, FS_Surjection
<1>4. Cardinality(Ids \ {c}) = Cardinality(Ids) - 1 /\ IsFiniteSet(Ids \ {c})
  BY IdsFinite, FS_RemoveElement
<1>5. Cardinality(T) <= Cardinality(Ids \ {c})
  <2> HIDE DEF T
  <2>1. QED  BY <1>2, <1>4, FS_Subset
<1>6. Cardinality(Ids) \in Nat /\ Cardinality(T) \in Nat
  BY IdsFinite, <1>2
<1>7. QED  BY <1>3, <1>4, <1>5, <1>6

-----------------------------------------------------------------------------
(***************************************************************************)
(* Types, and what a creation is at each step.                             *)
(***************************************************************************)
\* A row is that of a creation at its end, with its folder, and what is being
\* committed is the writer.
Settles ==
    /\ \A r \in rows : creation[r].pc \in {"start", "done", "lost"} /\ creation[r].folder \in Folders
    /\ \A c \in Ids : creation[c].pc = "commit" <=> writer = c

\* A request has an owner and a name; what is admitted has a folder and a port too.
IsWhole(me) ==
    /\ me.pc # "none" => me.owner \in Owners /\ me.name \in Names
    /\ me.pc \in Working \cup {"home", "port", "name", "admit", "done"} => me.folder \in Folders
    /\ me.kind = "job" /\ me.pc \in Working \cup {"name", "admit"} => me.port # 0
    /\ me.chosen => me.port # 0

\* A registration by hand has an administrator, a folder and no port.
IsByHand(me) ==
    me.kind = "hand" => /\ me.pc \in Registering \cup {"done", "refused", "lost"}
                        /\ me.owner = Admin /\ me.port = 0 /\ me.folder \in Folders

Complete == \A c \in Ids : IsWhole(creation[c]) /\ IsByHand(creation[c])

IntrudersByHand == \A i \in intruders : creation[i].kind = "hand"

Control == TypeOK /\ Complete /\ Settles /\ IntrudersByHand

\* The steps of one creation write its own record only.
LEMMA RecordType ==
    ASSUME TypeOK, NEW c \in Ids, NEW new \in Creation, creation' = [creation EXCEPT ![c] = new]
    PROVE  /\ creation' \in [Ids -> Creation] /\ creation'[c] = new
           /\ \A d \in Ids \ {c} : creation'[d] = creation[d]
  BY DEF TypeOK

\* What the steps write in a record.
LEMMA FieldsType ==
    ASSUME NEW me \in Creation, NEW pc \in Places
    PROVE  /\ [me EXCEPT !.pc = pc, !.pending = 0, !.taken = {}, !.reserved = {}] \in Creation
           /\ \A taken \in SUBSET Folders :
                 [me EXCEPT !.pc = pc, !.pending = 0, !.taken = taken] \in Creation
           /\ \A folder \in Folders :
                 [me EXCEPT !.pc = pc, !.taken = {}, !.folder = folder] \in Creation
           /\ \A reserved \in SUBSET (Ports \cup ChosenPorts) :
                 [me EXCEPT !.pc = pc, !.reserved = reserved] \in Creation
           /\ \A port \in Ports \cup ChosenPorts \cup {0} :
                 [me EXCEPT !.pc = pc, !.port = port, !.reserved = {}] \in Creation
           /\ \A created \in BOOLEAN : [me EXCEPT !.pc = pc, !.created = created] \in Creation
           /\ \A slug \in Ids : [me EXCEPT !.pc = pc, !.slug = slug] \in Creation
<1> USE DEF Creation
<1>1. [me EXCEPT !.pc = pc, !.pending = 0, !.taken = {}, !.reserved = {}] \in Creation
  OBVIOUS
<1>2. \A taken \in SUBSET Folders : [me EXCEPT !.pc = pc, !.pending = 0, !.taken = taken] \in Creation
  OBVIOUS
<1>3. \A folder \in Folders : [me EXCEPT !.pc = pc, !.taken = {}, !.folder = folder] \in Creation
  OBVIOUS
<1>4. \A reserved \in SUBSET (Ports \cup ChosenPorts) :
         [me EXCEPT !.pc = pc, !.reserved = reserved] \in Creation
  OBVIOUS
<1>5. \A port \in Ports \cup ChosenPorts \cup {0} :
         [me EXCEPT !.pc = pc, !.port = port, !.reserved = {}] \in Creation
  OBVIOUS
<1>6. \A created \in BOOLEAN : [me EXCEPT !.pc = pc, !.created = created] \in Creation
  OBVIOUS
<1>7. \A slug \in Ids : [me EXCEPT !.pc = pc, !.slug = slug] \in Creation
  OBVIOUS
<1>8. QED  BY <1>1, <1>2, <1>3, <1>4, <1>5, <1>6, <1>7

\* A creation nothing is known of yet is well formed.
LEMMA FreshType == Fresh \in Creation
  BY DEF Fresh, Creation, Places

\* The task that is undone, or the request that is refused, keeps all but its place.
LEMMA PlaceType ==
    ASSUME TypeOK, NEW c \in Ids,
           NEW pc \in Places
    PROVE  /\ [creation[c] EXCEPT !.pc = pc] \in Creation
           /\ Proceeds(c, pc) => creation' = [creation EXCEPT ![c] = [creation[c] EXCEPT !.pc = pc]]
  BY DEF TypeOK, Creation, Proceeds

\* Every step keeps the types.
LEMMA TypeKept ==
    ASSUME Control, [Next]_vars
    PROVE  TypeOK'
<1> USE DEF Control, stored
<1>a. /\ creation \in [Ids -> Creation] /\ rows \subseteq Ids
      /\ disk \in [Folders -> {"absent", "empty", "full"}] /\ homes \subseteq Owners
      /\ writer \in Ids \cup {Unset} /\ stops \in Nat
      /\ deletion \in [Ids -> {"no", "planned", "erased", "failed"}]
      /\ intruders \subseteq Ids /\ landed \subseteq Ids
  BY DEF TypeOK
<1> DEFINE Others == /\ rows' \subseteq Ids
                     /\ disk' \in [Folders -> {"absent", "empty", "full"}] /\ homes' \subseteq Owners
                     /\ writer' \in Ids \cup {Unset} /\ stops' \in Nat
                     /\ deletion' \in [Ids -> {"no", "planned", "erased", "failed"}]
                     /\ intruders' \subseteq Ids /\ landed' \subseteq Ids
<1>b. ASSUME NEW c \in Ids, Others, NEW new \in Creation, creation' = [creation EXCEPT ![c] = new]
      PROVE  TypeOK'
  BY <1>b, RecordType DEF TypeOK
<1>c. UNCHANGED <<disk, homes, stops>> /\ UNCHANGED stored => Others
  BY <1>a
<1>d. ASSUME NEW c \in Ids, Others,
             NEW pc \in Places,
             Proceeds(c, pc)
      PROVE  TypeOK'
  BY <1>b, <1>d, PlaceType
<1>e. ASSUME NEW c \in Ids, Others, GivesUp(c) PROVE TypeOK'
  BY <1>d, <1>e DEF GivesUp, Places, Working
<1> HIDE DEF Others
<1>1. CASE UNCHANGED vars
  BY <1>1 DEF vars, TypeOK
<1>2. ASSUME NEW c \in Ids, Create(c) PROVE TypeOK'
  <2>1. PICK owner \in Owners, name \in Names, folder \in Folders \cup {Unset},
             port \in ChosenPorts \cup {0} : Asks(c, owner, name, folder, port)
    BY <1>2 DEF Create, ChosenFolders, Owners
  <2> DEFINE chosen == port # 0
             new == [Fresh EXCEPT !.pc = "quota", !.owner = owner, !.name = name,
                                  !.folder = folder, !.port = port, !.chosen = chosen,
                                  !.pending = PendingOf(owner)]
  <2>2. PendingOf(owner) \in Nat
    BY IdsFinite DEF PendingOf, RunningJobs
  <2>3. chosen \in BOOLEAN /\ creation' = [creation EXCEPT ![c] = new]
    BY <2>1 DEF Asks
  <2> HIDE DEF chosen
  <2>4. new \in Creation
    BY <2>2, <2>3, FreshType DEF Creation, Places, Placing
  <2>5. QED  BY <1>b, <1>c, <2>1, <2>3, <2>4 DEF Asks
<1>3. ASSUME NEW c \in Ids, NEW name \in Names, NEW folder \in Folders,
             RegistersByHand(c, name, folder)
      PROVE  TypeOK'
  <2> DEFINE new == [Fresh EXCEPT !.pc = "name again", !.kind = "hand", !.owner = Admin,
                                  !.name = name, !.folder = folder]
  <2>1. new \in Creation
    BY FreshType DEF Creation, Places, Working, Registering, Owners
  <2>2. QED  BY <1>3, <1>b, <1>c, <2>1 DEF RegistersByHand
<1>4. ASSUME NEW c \in Ids, ChecksQuota(c) PROVE TypeOK'
  <2>1. TakenDirectories \subseteq Folders
    BY <1>a DEF TakenDirectories, RunningJobs, Complete, IsWhole
  <2>2. PICK pc \in {"refused", "folder"} :
           creation' = [creation EXCEPT ![c] =
              [creation[c] EXCEPT !.pc = pc, !.pending = 0, !.taken = TakenDirectories]]
    BY <1>4 DEF ChecksQuota
  <2>3. [creation[c] EXCEPT !.pc = pc, !.pending = 0, !.taken = TakenDirectories] \in Creation
    BY <1>a, <2>1, FieldsType DEF Places, Placing
  <2>4. QED  BY <1>4, <1>b, <1>c, <2>2, <2>3 DEF ChecksQuota
<1>5. ASSUME NEW c \in Ids, ChoosesFolder(c) PROVE TypeOK'
  <2> DEFINE me == creation[c]
             Candidate(n) == [home |-> me.owner, name |-> me.name, nth |-> n]
             free == {n \in 1 .. MaxSuffix : /\ disk[Candidate(n)] = "absent"
                                             /\ Candidate(n) \notin me.taken
                                             /\ ~Managed(Candidate(n))}
             folder == IF me.folder # Unset THEN me.folder ELSE Candidate(Smallest(free))
  <2>1. /\ me.pc = "folder" /\ (me.folder # Unset \/ free # {})
        /\ creation' = [creation EXCEPT ![c] = [me EXCEPT !.pc = "home", !.taken = {},
                                                         !.folder = folder]]
    BY <1>5 DEF ChoosesFolder
  <2>2. me.owner \in Owners /\ me.name \in Names
    BY <2>1 DEF Complete, IsWhole
  <2>3. me.folder = Unset => Smallest(free) \in 1 .. MaxSuffix
    <3>1. free \in SUBSET Nat /\ free \subseteq 1 .. MaxSuffix
      BY ProvisioningAssumption
    <3> HIDE DEF free
    <3>2. QED  BY <2>1, <3>1, SmallestIn
  <2>4. folder \in Folders
    <3> HIDE DEF free
    <3>1. QED  BY <1>a, <2>2, <2>3 DEF Creation, Folders
  <2> HIDE DEF folder
  <2>5. [me EXCEPT !.pc = "home", !.taken = {}, !.folder = folder] \in Creation
    BY <1>a, <2>4, FieldsType DEF Places, Placing
  <2>6. QED  BY <1>5, <1>b, <1>c, <2>1, <2>5 DEF ChoosesFolder
<1>6. ASSUME NEW c \in Ids, EntersHome(c) PROVE TypeOK'
  <2>1. ReservedPorts \subseteq Ports \cup ChosenPorts
    BY <1>a DEF ReservedPorts, RunningJobs, Creation
  <2>2. [creation[c] EXCEPT !.pc = "port", !.reserved = ReservedPorts] \in Creation
    BY <1>a, <2>1, FieldsType DEF Places, Placing
  <2>3. homes' \subseteq Owners
    BY <1>6, <1>a DEF EntersHome, Complete, IsWhole, Placing
  <2>4. Others
    BY <1>6, <1>a, <2>3 DEF Others, EntersHome
  <2>5. QED  BY <1>6, <1>b, <2>2, <2>4 DEF EntersHome
<1>7. ASSUME NEW c \in Ids, AllocatesPort(c) PROVE TypeOK'
  <2> DEFINE me == creation[c]
             free == Ports \ ({creation[r].port : r \in rows} \cup me.reserved)
             given == IF me.chosen THEN {me.port} ELSE free
             port == IF given = {} THEN 0 ELSE Smallest(given)
  <2>1. PICK pc \in {"refused", "name"} :
           creation' = [creation EXCEPT ![c] = [me EXCEPT !.pc = pc, !.port = port, !.reserved = {}]]
    BY <1>7 DEF AllocatesPort
  <2>2. given \in SUBSET Nat /\ given \subseteq Ports \cup ChosenPorts \cup {0}
    <3>1. me.port \in Ports \cup ChosenPorts \cup {0}
      BY <1>a DEF Creation
    <3>2. free \subseteq Ports
      OBVIOUS
    <3> HIDE DEF free
    <3>3. given \subseteq Ports \cup ChosenPorts \cup {0}
      BY <3>1, <3>2
    <3> HIDE DEF given
    <3>4. QED  BY <3>3, ProvisioningAssumption
  <2>3. port \in Ports \cup ChosenPorts \cup {0}
    <3> HIDE DEF given
    <3>1. QED  BY <2>2, SmallestIn
  <2> HIDE DEF port
  <2>4. [me EXCEPT !.pc = pc, !.port = port, !.reserved = {}] \in Creation
    BY <1>a, <2>3, FieldsType DEF Places, Placing
  <2>5. QED  BY <1>7, <1>b, <1>c, <2>1, <2>4 DEF AllocatesPort
<1>8. ASSUME NEW c \in Ids, ChecksName(c) \/ Admits(c) PROVE TypeOK'
  <2>1. \E pc \in {"refused", "admit", "begin"} : Proceeds(c, pc)
    BY <1>8 DEF ChecksName, Admits
  <2>2. QED  BY <1>8, <1>c, <1>d, <2>1 DEF ChecksName, Admits, Places, Placing, Working, Preparing
<1>9. ASSUME NEW c \in Ids, Begins(c) PROVE TypeOK'
  <2> DEFINE created == disk[creation[c].folder] = "absent"
  <2>1. created \in BOOLEAN
    OBVIOUS
  <2>2. PICK pc \in {"download", "undo"} :
           creation' = [creation EXCEPT ![c] = [creation[c] EXCEPT !.pc = pc, !.created = created]]
    BY <1>9 DEF Begins
  <2> HIDE DEF created
  <2>3. [creation[c] EXCEPT !.pc = pc, !.created = created] \in Creation
    BY <1>a, <2>1, FieldsType DEF Places, Working, Preparing
  <2>4. Others
    BY <1>9, <1>a DEF Others, Begins
  <2>5. QED  BY <1>b, <2>2, <2>3, <2>4
<1>10. ASSUME NEW c \in Ids, Prepares(c) PROVE TypeOK'
  <2>1. \E pc \in {"install", "name again", "undo"} : Proceeds(c, pc)
    BY <1>10 DEF Prepares
  <2>2. Others
    BY <1>10, <1>a DEF Others, Prepares
  <2>3. QED  BY <1>d, <2>1, <2>2 DEF Places, Working, Preparing, Registering
<1>11. ASSUME NEW c \in Ids, ChecksNameAgain(c) \/ ChecksFolderAgain(c) \/ Finishes(c)
       PROVE  TypeOK'
  <2>1. GivesUp(c) \/ \E pc \in {"folder again", "slug", "done"} : Proceeds(c, pc)
    BY <1>11 DEF ChecksNameAgain, ChecksFolderAgain, Finishes
  <2>2. Others
    BY <1>11, <1>c DEF ChecksNameAgain, ChecksFolderAgain, Finishes
  <2>3. QED  BY <1>d, <1>e, <2>1, <2>2 DEF Places, Working, Registering
<1>12. ASSUME NEW c \in Ids, PicksSlug(c) PROVE TypeOK'
  <2> DEFINE left == Ids \ {creation[r].slug : r \in {q \in rows : creation[q].name = creation[c].name}}
             slug == Smallest(left)
  <2>1. c \in Ids \ rows
    BY <1>12 DEF PicksSlug, Settles
  <2>2. left # {}
    BY <2>1, SlugLeft
  <2>3. left \in SUBSET Nat /\ left \subseteq Ids
    BY DEF Ids
  <2>4. slug \in Ids
    <3> HIDE DEF left
    <3>1. QED  BY <2>2, <2>3, SmallestIn
  <2>5. creation' = [creation EXCEPT ![c] = [creation[c] EXCEPT !.pc = "flush", !.slug = slug]]
    BY <1>12 DEF PicksSlug
  <2> HIDE DEF slug
  <2>6. [creation[c] EXCEPT !.pc = "flush", !.slug = slug] \in Creation
    BY <1>a, <2>4, FieldsType DEF Places, Working, Registering
  <2>7. QED  BY <1>12, <1>b, <1>c, <2>5, <2>6 DEF PicksSlug
<1>13. ASSUME NEW c \in Ids, Inserts(c) \/ Commits(c) PROVE TypeOK'
  <2>1. GivesUp(c) \/ \E pc \in {"commit", "start", "done"} : Proceeds(c, pc)
    BY <1>13 DEF Inserts, Commits
  <2>2. Others
    BY <1>13, <1>a DEF Others, Inserts, Commits
  <2>3. QED  BY <1>d, <1>e, <2>1, <2>2 DEF Places, Working, Registering
<1>14. ASSUME NEW c \in Ids, Undoes(c) PROVE TypeOK'
  <2>1. Others
    BY <1>14, <1>a DEF Others, Undoes, Cleared
  <2>2. QED  BY <1>14, <1>d, <2>1 DEF Undoes, Places
<1>15. ASSUME NEW r \in Ids, PlansDeletion(r) \/ ErasesFiles(r) \/ CommitsDeletion(r)
       PROVE  TypeOK'
  BY <1>15 DEF PlansDeletion, ErasesFiles, CommitsDeletion, TypeOK
<1>16. ASSUME NEW clean \in BOOLEAN, NEW committed \in BOOLEAN, MsmStops(clean, committed)
       PROVE  TypeOK'
  <2>1. creation' \in [Ids -> Creation]
    <3>1. \A c \in Ids : [creation[c] EXCEPT !.pc = "lost", !.pending = 0, !.taken = {},
                                             !.reserved = {}] \in Creation
      BY <1>a, FieldsType DEF Places
    <3>2. QED  BY <1>16, <1>a, <3>1 DEF MsmStops
  <2>2. disk' \in [Folders -> {"absent", "empty", "full"}]
    BY <1>16, <1>a DEF MsmStops, Cleared
  <2>3. deletion' \in [Ids -> {"no", "planned", "erased", "failed"}]
    BY <1>16, <1>a DEF MsmStops
  <2>4. /\ rows' \subseteq Ids /\ landed' \subseteq Ids
    BY <1>16, <1>a DEF MsmStops
  <2>5. stops' = stops + 1 /\ homes' = homes /\ intruders' = intruders /\ writer' = Unset
    BY <1>16, Zenon DEF MsmStops
  <2>6. QED  BY <1>a, <2>1, <2>2, <2>3, <2>4, <2>5 DEF TypeOK
<1>17. QED
  BY <1>1, <1>2, <1>3, <1>4, <1>5, <1>6, <1>7, <1>8, <1>9, <1>10, <1>11, <1>12, <1>13,
     <1>14, <1>15, <1>16 DEF Next

\* A creation that moves on stays whole, and moves the rows and the lock as it says.
LEMMA MoveControl ==
    ASSUME Control, TypeOK', NEW c \in Ids, NEW new \in Creation,
           creation' = [creation EXCEPT ![c] = new],
           IsWhole(new), IsByHand(new),
           rows' \subseteq rows \cup {c}, c \in rows' => new.pc \in {"start", "done"},
           new.pc = "commit" <=> writer' = c,
           \A d \in Ids \ {c} : writer' = d <=> writer = d,
           intruders' \subseteq intruders \cup {c}, c \in intruders' => new.kind = "hand"
    PROVE  Control'
<1>1. /\ creation'[c] = new
      /\ \A d \in Ids \ {c} : creation'[d] = creation[d]
  BY RecordType DEF Control
<1>2. Complete'
  BY <1>1 DEF Control, Complete
<1>3. Settles'
  BY <1>1 DEF Control, Settles, TypeOK, IsWhole, Working
<1>4. IntrudersByHand'
  BY <1>1 DEF Control, IntrudersByHand, TypeOK
<1>5. QED  BY <1>2, <1>3, <1>4 DEF Control

\* A creation that only moves on, without a commit.
LEMMA ProceedsControl ==
    ASSUME Control, TypeOK', NEW c \in Ids, NEW pc \in Places, Proceeds(c, pc),
           creation[c].pc \in (Placing \cup Working) \ {"commit"}, pc \notin {"none", "commit"},
           pc \in Working \cup {"home", "port", "name", "admit", "done"} => creation[c].folder \in Folders,
           creation[c].kind = "job" /\ pc \in Working \cup {"name", "admit"} => creation[c].port # 0,
           creation[c].kind = "hand" => pc \in Registering \cup {"done", "refused", "lost"},
           UNCHANGED <<writer, intruders>>, rows' \subseteq rows,
           c \in rows => pc \in {"start", "done"}
    PROVE  Control'
<1> DEFINE new == [creation[c] EXCEPT !.pc = pc]
<1>1. new \in Creation /\ creation' = [creation EXCEPT ![c] = new]
  BY PlaceType DEF Control
<1>2. /\ new.pc = pc /\ new.kind = creation[c].kind /\ new.owner = creation[c].owner
      /\ new.name = creation[c].name /\ new.folder = creation[c].folder
      /\ new.port = creation[c].port /\ new.chosen = creation[c].chosen
  BY DEF Control, TypeOK, Creation
<1> HIDE DEF new
<1>3. IsWhole(new) /\ IsByHand(new)
  BY <1>2 DEF Control, Complete, IsWhole, IsByHand, Placing, Working, Preparing, Registering
<1>4. writer # c
  BY DEF Control, Settles
<1>5. QED  BY <1>1, <1>2, <1>3, <1>4, MoveControl DEF Control, IntrudersByHand

\* A creation that gives up is undone or refused.
LEMMA GivesUpControl ==
    ASSUME Control, TypeOK', NEW c \in Ids, GivesUp(c), creation[c].pc \in Registering,
           c \notin rows, rows' \subseteq rows, UNCHANGED intruders,
           \A d \in Ids : writer' = d <=> writer = d /\ d # c
    PROVE  Control'
<1> DEFINE pc == IF creation[c].kind = "job" THEN "undo" ELSE "refused"
           new == [creation[c] EXCEPT !.pc = pc]
<1>1. /\ pc \in {"undo", "refused"} /\ (pc = "undo" <=> creation[c].kind = "job")
      /\ Proceeds(c, pc)
  BY DEF GivesUp
<1> HIDE DEF pc
<1>2. new \in Creation /\ creation' = [creation EXCEPT ![c] = new]
  BY <1>1, PlaceType DEF Control, Places, Working
<1>3. /\ new.pc = pc /\ new.kind = creation[c].kind /\ new.owner = creation[c].owner
      /\ new.name = creation[c].name /\ new.folder = creation[c].folder
      /\ new.port = creation[c].port /\ new.chosen = creation[c].chosen
  BY DEF Control, TypeOK, Creation
<1> HIDE DEF new
<1>4. IsWhole(new) /\ IsByHand(new)
  BY <1>1, <1>3 DEF Control, Complete, IsWhole, IsByHand, Placing, Working, Preparing, Registering
<1>5. QED  BY <1>1, <1>2, <1>3, <1>4, MoveControl DEF Control, IntrudersByHand

-----------------------------------------------------------------------------
(***************************************************************************)
(* What each step of a placing does to its own record and leaves to others.*)
(***************************************************************************)
\* The record of a creation that goes on being the same request.
Same(new, me) ==
    /\ new.kind = me.kind /\ new.owner = me.owner /\ new.name = me.name
    /\ new.chosen = me.chosen

\* Writing one creation leaves the others.
LEMMA WriteEffect ==
    ASSUME Control, NEW c \in Ids, NEW new, creation' = [creation EXCEPT ![c] = new]
    PROVE  creation'[c] = new /\ \A d \in Ids \ {c} : creation'[d] = creation[d]
  BY DEF Control, TypeOK

\* Choosing a folder changes nothing else of a creation.
LEMMA FolderEffect ==
    ASSUME NEW me \in Creation, NEW folder, NEW new,
           new = [me EXCEPT !.pc = "home", !.taken = {}, !.folder = folder]
    PROVE  new.pc = "home" /\ Same(new, me) /\ new.port = me.port
  BY DEF Creation, Same

\* A request arrives with its owner, its name and what the administrator chose.
LEMMA AsksEffect ==
    ASSUME Control, TypeOK', NEW c \in Ids, Create(c)
    PROVE  /\ \A d \in Ids \ {c} : creation'[d] = creation[d]
           /\ creation[c].pc = "none" /\ creation'[c].pc = "quota" /\ creation'[c].kind = "job"
           /\ creation'[c].owner \in Owners /\ creation'[c].name \in Names
           /\ creation'[c].chosen = (creation'[c].port # 0)
           /\ creation'[c].pending = PendingOf(creation'[c].owner)
           /\ met' = met \cup {{c, d} : d \in {e \in Ids : creation[e].pc \in Placing}}
           /\ UNCHANGED <<disk, homes, stops>> /\ UNCHANGED stored
<1>1. PICK owner \in Owners, name \in Names, folder \in Folders \cup {Unset},
           port \in ChosenPorts \cup {0} : Asks(c, owner, name, folder, port)
  BY DEF Create, ChosenFolders, Owners
<1> DEFINE chosen == port # 0
           new == [Fresh EXCEPT !.pc = "quota", !.owner = owner, !.name = name,
                                !.folder = folder, !.port = port, !.chosen = chosen,
                                !.pending = PendingOf(owner)]
<1>2. creation' = [creation EXCEPT ![c] = new]
  BY <1>1 DEF Asks
<1>3. /\ new.pc = "quota" /\ new.kind = "job" /\ new.owner = owner /\ new.name = name
      /\ new.port = port /\ new.chosen = chosen /\ new.pending = PendingOf(owner)
  BY DEF Fresh
<1>4. creation'[c] = new /\ \A d \in Ids \ {c} : creation'[d] = creation[d]
  BY <1>2 DEF Control, TypeOK
<1> HIDE DEF new
<1>5. /\ creation[c].pc = "none"
      /\ met' = met \cup {{c, d} : d \in {e \in Ids : creation[e].pc \in Placing}}
      /\ UNCHANGED <<disk, homes, stops>> /\ UNCHANGED stored
  BY <1>1 DEF Asks
<1>6. QED  BY <1>3, <1>4, <1>5

\* The check of the quota reads what is under way.
LEMMA ChecksQuotaEffect ==
    ASSUME Control, TypeOK', NEW c \in Ids, ChecksQuota(c)
    PROVE  /\ \A d \in Ids \ {c} : creation'[d] = creation[d]
           /\ creation[c].pc = "quota" /\ creation'[c].pc \in {"refused", "folder"}
           /\ Same(creation'[c], creation[c])
           /\ creation'[c].folder = creation[c].folder /\ creation'[c].port = creation[c].port
           /\ creation'[c].pc = "folder" /\ creation[c].owner # Admin =>
                 Cardinality(OwnedBy(creation[c].owner)) + creation[c].pending < MaxServers
           /\ UNCHANGED <<disk, homes, met, stops>> /\ UNCHANGED stored
<1>1. creation[c].pending \in Nat /\ MaxServers \in Nat
  BY ProvisioningAssumption DEF Control, TypeOK, Creation
<1>2. Cardinality(OwnedBy(creation[c].owner)) \in Nat
  BY IdsFinite DEF Control, TypeOK, OwnedBy
<1> DEFINE full == /\ creation[c].owner # Admin
                   /\ Cardinality(OwnedBy(creation[c].owner)) + creation[c].pending >= MaxServers
<1>3. creation' = [creation EXCEPT ![c] =
         [creation[c] EXCEPT !.pc = IF full THEN "refused" ELSE "folder",
                             !.pending = 0, !.taken = TakenDirectories]]
  BY DEF ChecksQuota
<1> HIDE DEF full
<1>4. /\ \A d \in Ids \ {c} : creation'[d] = creation[d]
      /\ creation'[c].pc = IF full THEN "refused" ELSE "folder"
      /\ Same(creation'[c], creation[c])
      /\ creation'[c].folder = creation[c].folder /\ creation'[c].port = creation[c].port
  BY <1>3 DEF Control, TypeOK, Creation, Same
<1>5. creation[c].pc = "quota" /\ UNCHANGED <<disk, homes, met, stops>> /\ UNCHANGED stored
  BY DEF ChecksQuota
<1>6. QED  BY <1>1, <1>2, <1>4, <1>5 DEF full

\* The folder is given once, and kept if the administrator chose it.
LEMMA ChoosesFolderEffect ==
    ASSUME Control, TypeOK', NEW c \in Ids, ChoosesFolder(c)
    PROVE  /\ \A d \in Ids \ {c} : creation'[d] = creation[d]
           /\ creation[c].pc = "folder" /\ creation'[c].pc = "home"
           /\ Same(creation'[c], creation[c]) /\ creation'[c].port = creation[c].port
           /\ UNCHANGED <<disk, homes, met, stops>> /\ UNCHANGED stored
<1>1. /\ creation[c].pc = "folder" /\ UNCHANGED <<disk, homes, met, stops>> /\ UNCHANGED stored
      /\ \E folder : creation' = [creation EXCEPT ![c] =
             [creation[c] EXCEPT !.pc = "home", !.taken = {}, !.folder = folder]]
  BY DEF ChoosesFolder
<1>2. PICK folder : creation' = [creation EXCEPT ![c] =
             [creation[c] EXCEPT !.pc = "home", !.taken = {}, !.folder = folder]]
  BY <1>1
<1>3. PICK new : new = [creation[c] EXCEPT !.pc = "home", !.taken = {}, !.folder = folder]
  OBVIOUS
<1>4. creation'[c] = new /\ \A d \in Ids \ {c} : creation'[d] = creation[d]
  BY <1>2, <1>3, WriteEffect
<1>5. creation[c] \in Creation
  BY DEF Control, TypeOK
<1>6. new.pc = "home" /\ Same(new, creation[c]) /\ new.port = creation[c].port
  BY <1>3, <1>5, FolderEffect
<1>7. QED  BY <1>1, <1>4, <1>6

\* A stop only writes the place of what it interrupts.
LEMMA MsmStopsEffect ==
    ASSUME Control, NEW clean \in BOOLEAN, NEW committed \in BOOLEAN, MsmStops(clean, committed),
           NEW c \in Ids
    PROVE  /\ creation[c].pc \in Placing \cup Working => creation'[c].pc = "lost"
           /\ creation[c].pc \notin Placing \cup Working => creation'[c] = creation[c]
           /\ Same(creation'[c], creation[c])
           /\ creation'[c].folder = creation[c].folder
           /\ creation'[c].port = creation[c].port
<1>1. creation[c] \in Creation
  BY DEF Control, TypeOK
<1>2. creation'[c] = IF creation[c].pc \in Placing \cup Working
                    THEN [creation[c] EXCEPT !.pc = "lost", !.pending = 0,
                                             !.taken = {}, !.reserved = {}]
                    ELSE creation[c]
  BY DEF MsmStops
<1>3. QED  BY <1>1, <1>2 DEF Creation, Same

\* The folder chosen is one there is.
LEMMA ChoosesFolderType ==
    ASSUME Control, NEW c \in Ids, ChoosesFolder(c)
    PROVE  creation'[c].folder \in Folders
<1> DEFINE me == creation[c]
           Candidate(n) == [home |-> me.owner, name |-> me.name, nth |-> n]
           free == {n \in 1 .. MaxSuffix : /\ disk[Candidate(n)] = "absent"
                                           /\ Candidate(n) \notin me.taken
                                           /\ ~Managed(Candidate(n))}
           folder == IF me.folder # Unset THEN me.folder ELSE Candidate(Smallest(free))
<1>1. /\ me.pc = "folder" /\ (me.folder # Unset \/ free # {})
      /\ creation' = [creation EXCEPT ![c] = [me EXCEPT !.pc = "home", !.taken = {},
                                                       !.folder = folder]]
  BY DEF ChoosesFolder
<1>2. me.owner \in Owners /\ me.name \in Names /\ me \in Creation
  BY <1>1 DEF Control, Complete, IsWhole, TypeOK
<1>3. me.folder = Unset => Smallest(free) \in 1 .. MaxSuffix
  <2>1. free \in SUBSET Nat /\ free \subseteq 1 .. MaxSuffix
    BY ProvisioningAssumption
  <2> HIDE DEF free
  <2>2. QED  BY <1>1, <2>1, SmallestIn
<1>4. folder \in Folders
  <2> HIDE DEF free
  <2>1. QED  BY <1>2, <1>3 DEF Creation, Folders
<1> HIDE DEF folder
<1>5. QED  BY <1>1, <1>2, <1>4 DEF Control, TypeOK, Creation

\* The ports under way are read.
LEMMA EntersHomeEffect ==
    ASSUME Control, TypeOK', NEW c \in Ids, EntersHome(c)
    PROVE  /\ \A d \in Ids \ {c} : creation'[d] = creation[d]
           /\ creation[c].pc = "home" /\ creation'[c].pc = "port"
           /\ Same(creation'[c], creation[c]) /\ creation'[c].port = creation[c].port
           /\ creation'[c].folder = creation[c].folder /\ creation'[c].reserved = ReservedPorts
           /\ UNCHANGED <<disk, met, stops>> /\ UNCHANGED stored
  BY DEF EntersHome, Control, TypeOK, Creation, Same

\* The port given is none of a server and none that was under way when it was read.
LEMMA AllocatesPortEffect ==
    ASSUME Control, TypeOK', NEW c \in Ids, AllocatesPort(c)
    PROVE  /\ \A d \in Ids \ {c} : creation'[d] = creation[d]
           /\ creation[c].pc = "port" /\ creation'[c].pc \in {"refused", "name"}
           /\ Same(creation'[c], creation[c]) /\ creation'[c].folder = creation[c].folder
           /\ creation[c].chosen => creation'[c].port = creation[c].port
           /\ creation'[c].pc = "name" /\ ~creation[c].chosen =>
                 /\ creation'[c].port # 0 /\ creation'[c].port \notin creation[c].reserved
                 /\ \A r \in rows : creation'[c].port # creation[r].port
           /\ UNCHANGED <<disk, homes, met, stops>> /\ UNCHANGED stored
<1> DEFINE me == creation[c]
           free == Ports \ ({creation[r].port : r \in rows} \cup me.reserved)
           given == IF me.chosen THEN {me.port} ELSE free
           pc == IF given = {} THEN "refused" ELSE "name"
           port == IF given = {} THEN 0 ELSE Smallest(given)
<1>1. creation' = [creation EXCEPT ![c] = [me EXCEPT !.pc = pc, !.port = port, !.reserved = {}]]
  BY DEF AllocatesPort
<1>2. me.chosen => given = {me.port}
  OBVIOUS
<1>3. ~me.chosen => given = free
  OBVIOUS
<1>4. free \subseteq Ports /\ \A p \in free : p \notin me.reserved /\ \A r \in rows : p # creation[r].port
  OBVIOUS
<1>5. me.port \in Nat /\ Ports \subseteq Nat \ {0}
  <2>1. me.port \in Ports \cup ChosenPorts \cup {0}
    BY DEF Control, TypeOK, Creation
  <2>2. \A p \in Ports \cup ChosenPorts \cup {0} : p \in Nat
    BY ProvisioningAssumption
  <2>3. Ports \subseteq Nat \ {0}
    BY ProvisioningAssumption
  <2>4. QED  BY <2>1, <2>2, <2>3
<1> HIDE DEF free, given
<1>6. given # {} => Smallest(given) \in given
  <2>1. given \in SUBSET Nat
    BY <1>2, <1>3, <1>4, <1>5
  <2>2. QED  BY <2>1, SmallestIn
<1>7. (pc = "name" <=> given # {}) /\ (given # {} => port = Smallest(given))
  OBVIOUS
<1> HIDE DEF port
<1>8. /\ \A d \in Ids \ {c} : creation'[d] = creation[d]
      /\ creation'[c].pc = pc /\ creation'[c].port = port
      /\ Same(creation'[c], me) /\ creation'[c].folder = me.folder
  <2>1. me \in Creation
    BY DEF Control, TypeOK
  <2> HIDE DEF me, pc
  <2> DEFINE new == [me EXCEPT !.pc = pc, !.port = port, !.reserved = {}]
  <2>2. creation'[c] = new /\ \A d \in Ids \ {c} : creation'[d] = creation[d]
    <3> HIDE DEF new
    <3>1. QED  BY <1>1, WriteEffect DEF new
  <2>3. new.pc = pc /\ new.port = port /\ Same(new, me) /\ new.folder = me.folder
    BY <2>1 DEF Creation, Same
  <2> HIDE DEF new
  <2>4. QED  BY <2>2, <2>3
<1>9. me.pc = "port" /\ UNCHANGED <<disk, homes, met, stops>> /\ UNCHANGED stored
  BY DEF AllocatesPort
<1>10. pc \in {"refused", "name"}
  OBVIOUS
<1> HIDE DEF pc
<1>11. me.chosen => port = me.port
  BY <1>2, <1>6, <1>7
<1>12. pc = "name" /\ ~me.chosen => port \in free
  BY <1>3, <1>6, <1>7
<1>13. QED  BY <1>4, <1>5, <1>8, <1>9, <1>10, <1>11, <1>12
-----------------------------------------------------------------------------

\* Every step keeps the control of the creations.
LEMMA ControlKept ==
    ASSUME Control, [Next]_vars
    PROVE  Control'
<1> USE DEF stored
<1>a. TypeOK'
  BY TypeKept
<1>b. TypeOK /\ Complete /\ Settles /\ IntrudersByHand
  BY DEF Control
<1>1. CASE UNCHANGED vars
  BY <1>1, <1>a DEF Control, vars, Complete, Settles, IntrudersByHand
<1>2. ASSUME NEW c \in Ids, Create(c) PROVE Control'
  <2> DEFINE new == creation'[c]
  <2>2. /\ new \in Creation /\ creation' = [creation EXCEPT ![c] = new]
        /\ new.pc = "quota" /\ new.kind = "job" /\ new.owner \in Owners /\ new.name \in Names
        /\ new.chosen => new.port # 0
    <3>1. /\ \A d \in Ids \ {c} : creation'[d] = creation[d]
          /\ new.pc = "quota" /\ new.kind = "job" /\ new.owner \in Owners /\ new.name \in Names
          /\ new.chosen = (new.port # 0)
      BY <1>2, <1>a, AsksEffect
    <3>2. creation \in [Ids -> Creation] /\ creation' \in [Ids -> Creation]
      BY <1>a, <1>b DEF TypeOK
    <3>3. creation' = [creation EXCEPT ![c] = new] /\ new \in Creation
      BY <3>1, <3>2
    <3>4. QED  BY <3>1, <3>3
  <2>3. IsWhole(new) /\ IsByHand(new)
    BY <2>2 DEF IsWhole, IsByHand, Working, Preparing, Registering
  <2>4. c \notin rows /\ writer # c /\ UNCHANGED <<rows, writer, intruders>> /\ c \notin intruders
    BY <1>2, <1>a, <1>b, AsksEffect DEF Settles, IntrudersByHand, Complete, IsByHand, Registering
  <2> HIDE DEF new
  <2>5. QED  BY <1>a, <2>2, <2>3, <2>4, MoveControl
<1>3. ASSUME NEW c \in Ids, NEW name \in Names, NEW folder \in Folders,
             RegistersByHand(c, name, folder)
      PROVE  Control'
  <2> DEFINE new == creation'[c]
  <2>2. /\ new \in Creation /\ creation' = [creation EXCEPT ![c] = new]
        /\ new.pc = "name again" /\ new.kind = "hand" /\ new.owner = Admin /\ new.name = name
        /\ new.folder = folder /\ new.port = 0 /\ new.chosen = FALSE
    BY <1>3, <1>a, <1>b DEF RegistersByHand, TypeOK, Fresh
  <2>3. IsWhole(new) /\ IsByHand(new)
    BY <2>2 DEF IsWhole, IsByHand, Working, Preparing, Registering, Owners
  <2>4. c \notin rows /\ writer # c /\ UNCHANGED <<rows, writer, intruders>>
    BY <1>3, <1>b DEF RegistersByHand, Settles
  <2> HIDE DEF new
  <2>5. QED  BY <1>a, <2>2, <2>3, <2>4, MoveControl
<1>4. ASSUME NEW c \in Ids, ChecksQuota(c) \/ ChoosesFolder(c) \/ EntersHome(c) \/ AllocatesPort(c)
      PROVE  Control'
  <2> DEFINE new == creation'[c]
             me == creation[c]
  <2>1. /\ \A d \in Ids \ {c} : creation'[d] = creation[d]
        /\ me.pc \in {"quota", "folder", "home", "port"}
        /\ new.pc \in {"folder", "refused", "home", "port", "name"}
        /\ new.kind = me.kind /\ new.owner = me.owner /\ new.name = me.name
        /\ UNCHANGED <<rows, writer, intruders>>
    BY <1>4, <1>a, ChecksQuotaEffect, ChoosesFolderEffect, EntersHomeEffect, AllocatesPortEffect
       DEF Same
  <2>2. new \in Creation /\ creation' = [creation EXCEPT ![c] = new]
    BY <2>1, <1>a, <1>b DEF TypeOK
  <2>3. /\ me.pc # "none" /\ me.owner \in Owners /\ me.name \in Names /\ me.kind # "hand"
        /\ me.pc \in {"home", "port"} => me.folder \in Folders
    BY <2>1, <1>b DEF Complete, IsWhole, IsByHand, Registering, Working, TypeOK, Creation
  <2>4. me.kind = "job"
    BY <2>3, <1>b DEF TypeOK, Creation
  <2>5. new.pc \in {"home", "port", "name"} => new.folder \in Folders
    <3>1. CASE ChecksQuota(c)
      BY <3>1, <1>a, ChecksQuotaEffect
    <3>2. CASE ChoosesFolder(c)
      BY <3>2, <1>a, ChoosesFolderType
    <3>3. CASE EntersHome(c)
      BY <3>3, <1>a, <2>3, EntersHomeEffect
    <3>4. CASE AllocatesPort(c)
      BY <3>4, <1>a, <2>3, AllocatesPortEffect
    <3>5. QED  BY <1>4, <3>1, <3>2, <3>3, <3>4
  <2>6. new.pc = "name" => new.port # 0
    <3>1. AllocatesPort(c) \/ new.pc # "name"
      BY <1>4, <1>a, ChecksQuotaEffect, ChoosesFolderEffect, EntersHomeEffect
    <3>2. me.chosen => me.port # 0
      BY <1>b DEF Complete, IsWhole
    <3>3. QED  BY <3>1, <3>2, <1>a, AllocatesPortEffect
  <2>a. new.chosen => new.port # 0
    <3>1. new.chosen = me.chosen /\ (me.chosen => new.port = me.port)
      BY <1>4, <1>a, ChecksQuotaEffect, ChoosesFolderEffect, EntersHomeEffect, AllocatesPortEffect
         DEF Same
    <3>2. me.chosen => me.port # 0
      BY <1>b DEF Complete, IsWhole
    <3>3. QED  BY <3>1, <3>2
  <2>7. IsWhole(new) /\ IsByHand(new)
    BY <2>1, <2>3, <2>4, <2>5, <2>6, <2>a DEF IsWhole, IsByHand, Working, Preparing, Registering
  <2>8. c \notin rows /\ writer # c
    BY <2>1, <1>b DEF Settles
  <2> HIDE DEF new
  <2>9. QED  BY <1>a, <2>1, <2>2, <2>7, <2>8, MoveControl DEF Control, IntrudersByHand
<1>5. ASSUME NEW c \in Ids, ChecksName(c) \/ Admits(c) PROVE Control'
  <2>1. PICK pc \in {"refused", "admit", "begin"} : Proceeds(c, pc)
    BY <1>5 DEF ChecksName, Admits
  <2>2. creation[c].pc \in {"name", "admit"} /\ UNCHANGED <<rows, writer, intruders>>
    BY <1>5 DEF ChecksName, Admits
  <2>3. creation[c].kind = "job" /\ creation[c].folder \in Folders /\ creation[c].port # 0
    BY <2>2, <1>b DEF Complete, IsWhole, IsByHand, Registering, TypeOK, Creation
  <2>4. c \notin rows
    BY <2>2, <1>b DEF Settles
  <2>5. QED
    BY <1>a, <2>1, <2>2, <2>3, <2>4, ProceedsControl DEF Places, Placing, Working, Preparing
<1>6. ASSUME NEW c \in Ids, Begins(c) PROVE Control'
  <2> DEFINE new == creation'[c]
             me == creation[c]
  <2>1. /\ new \in Creation /\ creation' = [creation EXCEPT ![c] = new]
        /\ me.pc = "begin" /\ new.pc \in {"download", "undo"}
        /\ new.kind = me.kind /\ new.owner = me.owner /\ new.name = me.name
        /\ new.folder = me.folder /\ new.port = me.port /\ new.chosen = me.chosen
    <3>1. PICK pc \in {"download", "undo"}, created \in BOOLEAN :
             creation' = [creation EXCEPT ![c] = [creation[c] EXCEPT !.pc = pc, !.created = created]]
      BY <1>6 DEF Begins
    <3>2. creation[c] \in Creation /\ creation' \in [Ids -> Creation] /\ creation[c].pc = "begin"
      BY <1>6, <1>a, <1>b DEF Begins, TypeOK
    <3>3. creation'[c] = [creation[c] EXCEPT !.pc = pc, !.created = created]
      BY <3>1, <1>b DEF TypeOK
    <3>4. creation' = [creation EXCEPT ![c] = creation'[c]]
      BY <3>1, <3>3
    <3>5. QED  BY <3>2, <3>3, <3>4 DEF Creation
  <2>2. UNCHANGED <<rows, writer, intruders>>
    BY <1>6 DEF Begins
  <2>3. IsWhole(me) /\ IsByHand(me)
    BY <1>b DEF Complete
  <2>4. c \notin rows /\ writer # c
    BY <2>1, <1>b DEF Settles
  <2> HIDE DEF new
  <2>5. IsWhole(new) /\ IsByHand(new)
    BY <2>1, <2>3 DEF IsWhole, IsByHand, Working, Preparing, Registering
  <2>6. QED  BY <1>a, <2>1, <2>2, <2>4, <2>5, MoveControl DEF Control, IntrudersByHand
<1>7. ASSUME NEW c \in Ids, Prepares(c) PROVE Control'
  <2>1. PICK pc \in {"install", "name again", "undo"} : Proceeds(c, pc)
    BY <1>7 DEF Prepares
  <2>2. creation[c].pc \in {"download", "install"} /\ UNCHANGED <<rows, writer, intruders>>
    BY <1>7 DEF Prepares
  <2>3. creation[c].kind = "job" /\ creation[c].folder \in Folders /\ creation[c].port # 0
    BY <2>2, <1>b DEF Complete, IsWhole, IsByHand, Working, Preparing, Registering, TypeOK, Creation
  <2>4. c \notin rows
    BY <2>2, <1>b DEF Settles
  <2>5. QED
    BY <1>a, <2>1, <2>2, <2>3, <2>4, ProceedsControl
       DEF Places, Placing, Working, Preparing, Registering
<1>8. ASSUME NEW c \in Ids, ChecksNameAgain(c) \/ ChecksFolderAgain(c) PROVE Control'
  <2>1. /\ creation[c].pc \in {"name again", "folder again"} /\ UNCHANGED <<rows, writer, intruders>>
        /\ GivesUp(c) \/ \E pc \in {"folder again", "slug"} : Proceeds(c, pc)
    BY <1>8 DEF ChecksNameAgain, ChecksFolderAgain
  <2>2. /\ creation[c].kind = "job" => creation[c].port # 0
        /\ creation[c].folder \in Folders
    BY <2>1, <1>b DEF Complete, IsWhole, Working, Registering
  <2>3. c \notin rows /\ writer # c
    BY <2>1, <1>b DEF Settles
  <2>4. CASE GivesUp(c)
    BY <1>a, <2>1, <2>3, <2>4, GivesUpControl DEF Registering
  <2>5. CASE \E pc \in {"folder again", "slug"} : Proceeds(c, pc)
    BY <1>a, <2>1, <2>2, <2>3, <2>5, ProceedsControl DEF Places, Placing, Working, Registering
  <2>6. QED  BY <2>1, <2>4, <2>5
<1>9. ASSUME NEW c \in Ids, PicksSlug(c) PROVE Control'
  <2> DEFINE new == creation'[c]
             me == creation[c]
  <2>1. /\ new \in Creation /\ creation' = [creation EXCEPT ![c] = new]
        /\ me.pc = "slug" /\ new.pc = "flush"
        /\ new.kind = me.kind /\ new.owner = me.owner /\ new.name = me.name
        /\ new.folder = me.folder /\ new.port = me.port /\ new.chosen = me.chosen
    <3>1. PICK slug : creation' = [creation EXCEPT ![c] =
                                      [creation[c] EXCEPT !.pc = "flush", !.slug = slug]]
      BY <1>9 DEF PicksSlug
    <3>2. creation[c] \in Creation /\ creation' \in [Ids -> Creation] /\ creation[c].pc = "slug"
      BY <1>9, <1>a, <1>b DEF PicksSlug, TypeOK
    <3>3. creation'[c] = [creation[c] EXCEPT !.pc = "flush", !.slug = slug]
      BY <3>1, <1>b DEF TypeOK
    <3>4. creation' = [creation EXCEPT ![c] = creation'[c]]
      BY <3>1, <3>3
    <3>5. QED  BY <3>2, <3>3, <3>4 DEF Creation
  <2>2. UNCHANGED <<rows, writer, intruders>>
    BY <1>9 DEF PicksSlug
  <2>3. IsWhole(me) /\ IsByHand(me)
    BY <1>b DEF Complete
  <2>4. c \notin rows /\ writer # c
    BY <2>1, <1>b DEF Settles
  <2> HIDE DEF new
  <2>5. IsWhole(new) /\ IsByHand(new)
    BY <2>1, <2>3 DEF IsWhole, IsByHand, Working, Preparing, Registering
  <2>6. QED  BY <1>a, <2>1, <2>2, <2>4, <2>5, MoveControl DEF Control, IntrudersByHand
<1>10. ASSUME NEW c \in Ids, Inserts(c) PROVE Control'
  <2>1. creation[c].pc = "flush" /\ UNCHANGED rows
    BY <1>10 DEF Inserts
  <2>2. c \notin rows /\ writer # c
    BY <2>1, <1>b DEF Settles
  <2>3. CASE GivesUp(c) /\ UNCHANGED <<writer, intruders>>
    BY <1>a, <2>1, <2>2, <2>3, GivesUpControl DEF Registering
  <2>4. CASE Proceeds(c, "commit") /\ writer = Unset /\ writer' = c
             /\ intruders' \in {intruders, intruders \cup {c}}
             /\ (intruders' # intruders => creation[c].kind = "hand")
    <3> DEFINE new == [creation[c] EXCEPT !.pc = "commit"]
    <3>1. new \in Creation /\ creation' = [creation EXCEPT ![c] = new]
      BY <2>4, <1>b, PlaceType DEF Places, Working, Registering
    <3>2. /\ new.pc = "commit" /\ new.kind = creation[c].kind /\ new.owner = creation[c].owner
          /\ new.name = creation[c].name /\ new.folder = creation[c].folder
          /\ new.port = creation[c].port /\ new.chosen = creation[c].chosen
      BY <1>b DEF TypeOK, Creation
    <3> HIDE DEF new
    <3>3. IsWhole(new) /\ IsByHand(new)
      BY <2>1, <3>2, <1>b DEF Complete, IsWhole, IsByHand, Working, Registering
    <3>4. \A d \in Ids : d # Unset
      BY ProvisioningAssumption
    <3>5. c \in intruders' => creation[c].kind = "hand"
      BY <2>4, <1>b DEF IntrudersByHand
    <3>6. QED  BY <1>a, <2>1, <2>2, <2>4, <3>1, <3>2, <3>3, <3>4, <3>5, MoveControl
  <2>5. QED  BY <1>10, <2>3, <2>4 DEF Inserts
<1>11. ASSUME NEW c \in Ids, Commits(c) PROVE Control'
  <2>1. creation[c].pc = "commit" /\ writer' = Unset /\ UNCHANGED intruders
    BY <1>11 DEF Commits
  <2>2. c \notin rows /\ writer = c /\ \A d \in Ids : d # Unset
    BY <2>1, <1>b, ProvisioningAssumption DEF Settles
  <2>3. CASE GivesUp(c) /\ UNCHANGED rows
    <3>1. \A d \in Ids : writer' = d <=> writer = d /\ d # c
      BY <2>1, <2>2
    <3>2. QED  BY <1>a, <2>1, <2>2, <2>3, <3>1, GivesUpControl DEF Registering
  <2>4. CASE rows' = rows \cup {c} /\ Proceeds(c, IF creation[c].kind = "job" THEN "start" ELSE "done")
    <3> DEFINE pc == IF creation[c].kind = "job" THEN "start" ELSE "done"
               new == [creation[c] EXCEPT !.pc = pc]
    <3>1. pc \in {"start", "done"} /\ (pc = "start" <=> creation[c].kind = "job") /\ Proceeds(c, pc)
      BY <2>4
    <3> HIDE DEF pc
    <3>2. new \in Creation /\ creation' = [creation EXCEPT ![c] = new]
      BY <3>1, <1>b, PlaceType DEF Places, Working
    <3>3. /\ new.pc = pc /\ new.kind = creation[c].kind /\ new.owner = creation[c].owner
          /\ new.name = creation[c].name /\ new.folder = creation[c].folder
          /\ new.port = creation[c].port /\ new.chosen = creation[c].chosen
      BY <1>b DEF TypeOK, Creation
    <3> HIDE DEF new
    <3>4. IsWhole(new) /\ IsByHand(new)
      BY <2>1, <3>1, <3>3, <1>b DEF Complete, IsWhole, IsByHand, Working, Registering
    <3>5. c \in intruders' => new.kind = "hand"
      BY <2>1, <3>3, <1>b DEF IntrudersByHand
    <3>6. QED
      BY <1>a, <2>1, <2>2, <2>4, <3>1, <3>2, <3>3, <3>4, <3>5, MoveControl
  <2>5. QED  BY <1>11, <2>3, <2>4 DEF Commits
<1>12. ASSUME NEW c \in Ids, Finishes(c) \/ Undoes(c) PROVE Control'
  <2>1. PICK pc \in {"done", "failed"} : Proceeds(c, pc)
    BY <1>12 DEF Finishes, Undoes
  <2>2. /\ creation[c].pc \in {"start", "undo"} /\ UNCHANGED <<rows, writer, intruders>>
        /\ creation[c].pc = "undo" \/ pc = "done"
    <3>1. CASE Undoes(c)
      BY <3>1 DEF Undoes
    <3>2. CASE Finishes(c)
      <4>1. Proceeds(c, "done")
        BY <3>2 DEF Finishes
      <4>2. pc = "done"
        BY <2>1, <4>1, <1>b DEF Proceeds, TypeOK, Creation
      <4>3. QED  BY <3>2, <4>2 DEF Finishes
    <3>3. QED  BY <1>12, <3>1, <3>2
  <2>3. creation[c].kind = "job" /\ creation[c].folder \in Folders
    BY <2>2, <1>b DEF Complete, IsWhole, IsByHand, Working, Registering, TypeOK, Creation
  <2>4. c \in rows => pc = "done"
    BY <2>2, <1>b DEF Settles
  <2>5. QED
    BY <1>a, <2>1, <2>2, <2>3, <2>4, ProceedsControl DEF Places, Placing, Working, Preparing, Registering
<1>13. ASSUME NEW r \in Ids, PlansDeletion(r) \/ ErasesFiles(r) \/ CommitsDeletion(r) PROVE Control'
  <2>1. creation' = creation /\ rows' \subseteq rows /\ UNCHANGED <<writer, intruders>>
    BY <1>13 DEF PlansDeletion, ErasesFiles, CommitsDeletion
  <2>2. QED
    BY <1>a, <1>b, <2>1 DEF Control, Complete, Settles, IntrudersByHand
<1>14. ASSUME NEW clean \in BOOLEAN, NEW committed \in BOOLEAN, MsmStops(clean, committed)
       PROVE  Control'
  <2> DEFINE Stopped(c) == creation[c].pc \in Placing \cup Working
  <2>1. \A c \in Ids : /\ Stopped(c) => creation'[c].pc = "lost"
                       /\ ~Stopped(c) => creation'[c] = creation[c]
                       /\ creation'[c].kind = creation[c].kind
                       /\ creation'[c].owner = creation[c].owner
                       /\ creation'[c].name = creation[c].name
                       /\ creation'[c].folder = creation[c].folder
                       /\ creation'[c].port = creation[c].port
                       /\ creation'[c].chosen = creation[c].chosen
    BY <1>14, MsmStopsEffect DEF Same
  <2>2. writer' = Unset /\ intruders' = intruders /\ rows' \subseteq rows \cup {writer}
    BY <1>14, Zenon DEF MsmStops
  <2>3. Complete'
    <3> SUFFICES ASSUME NEW c \in Ids PROVE IsWhole(creation'[c]) /\ IsByHand(creation'[c])
      BY DEF Complete
    <3>1. IsWhole(creation[c]) /\ IsByHand(creation[c])
      BY <1>b DEF Complete
    <3>2. QED  BY <2>1, <3>1 DEF IsWhole, IsByHand, Placing, Working, Preparing, Registering
  <2>4. Settles'
    <3>1. \A r \in rows' : creation'[r].pc \in {"start", "done", "lost"} /\ creation'[r].folder \in Folders
      <4> SUFFICES ASSUME NEW r \in rows'
                   PROVE  creation'[r].pc \in {"start", "done", "lost"} /\ creation'[r].folder \in Folders
        OBVIOUS
      <4>0. r \in Ids
        BY <1>a DEF TypeOK
      <4>1. CASE r \in rows
        BY <4>0, <4>1, <2>1, <1>b DEF Settles
      <4>2. CASE r \notin rows
        <5>1. creation[r].pc = "commit"
          BY <4>0, <4>2, <2>2, <1>b DEF Settles
        <5>2. QED  BY <4>0, <5>1, <2>1, <1>b DEF Complete, IsWhole, Working, Registering
      <4>3. QED  BY <4>1, <4>2
    <3>2. \A c \in Ids : creation'[c].pc # "commit" /\ writer' # c
      BY <2>1, <2>2, ProvisioningAssumption DEF Working, Registering
    <3>3. QED  BY <3>1, <3>2 DEF Settles
  <2>5. IntrudersByHand'
    BY <2>1, <2>2, <1>b DEF IntrudersByHand, TypeOK
  <2>6. QED  BY <1>a, <2>3, <2>4, <2>5 DEF Control
<1>15. QED
  BY <1>1, <1>2, <1>3, <1>4, <1>5, <1>6, <1>7, <1>8, <1>9, <1>10, <1>11, <1>12, <1>13, <1>14
     DEF Next

\* At first no creation has begun.
LEMMA InitControl ==
    ASSUME Init
    PROVE  Control
<1> USE ProvisioningAssumption
<1>1. PICK owner \in Owners, name \in Names :
        /\ creation = [c \in Ids |-> IF c \in rows THEN Settled(owner, name) ELSE Fresh]
        /\ homes = IF rows = {} THEN {} ELSE {owner}
  BY DEF Init
<1>2. rows \subseteq Ids /\ writer = Unset /\ intruders = {}
  BY DEF Init, Ids
<1>3. rows # {} => Smallest(Ports) \in Ports
  <2>1. rows # {} => Ports \in SUBSET Nat /\ Ports # {}
    BY DEF Init
  <2>2. QED  BY <2>1, SmallestIn
<1>4. rows # {} => Settled(owner, name) \in Creation
  <2> DEFINE folder == [home |-> owner, name |-> name, nth |-> 1]
             port == Smallest(Ports)
  <2>1. folder \in Folders /\ (rows # {} => 1 \in Ids)
    BY DEF Folders, Ids, Init
  <2> HIDE DEF folder, port
  <2>2. port \in Ports /\ 1 \in Ids =>
          [Fresh EXCEPT !.pc = "done", !.owner = owner, !.name = name,
                  !.folder = folder, !.port = port, !.slug = 1] \in Creation
    BY <2>1, FreshType DEF Creation, Places
  <2>3. QED  BY <1>3, <2>1, <2>2 DEF Settled, folder, port
<1>5. TypeOK
  <2>1. creation \in [Ids -> Creation]
    BY <1>1, <1>4, FreshType
  <2>2. homes \subseteq Owners
    BY <1>1
  <2>3. QED  BY <1>2, <2>1, <2>2 DEF Init, TypeOK
<1>6. \A c \in Ids : /\ c \in rows => creation[c] = Settled(owner, name)
                     /\ c \notin rows => creation[c] = Fresh
  BY <1>1
<1>7. /\ Settled(owner, name).pc = "done" /\ Fresh.pc = "none" /\ Fresh.kind = "job"
      /\ Settled(owner, name).kind = "job" /\ Settled(owner, name).owner = owner
      /\ Settled(owner, name).name = name
      /\ Settled(owner, name).folder \in Folders
      /\ Settled(owner, name).chosen = FALSE /\ Fresh.chosen = FALSE
  BY DEF Settled, Fresh, Folders
<1>8. Complete
  BY <1>6, <1>7 DEF Complete, IsWhole, IsByHand, Working, Preparing, Registering
<1>9. Settles
  BY <1>2, <1>6, <1>7 DEF Settles
<1>10. QED  BY <1>2, <1>5, <1>8, <1>9 DEF Control, IntrudersByHand
-----------------------------------------------------------------------------
(***************************************************************************)
(* Every server has the folder it was given, and what is in it.            *)
(***************************************************************************)
\* A server inserted by hand in a folder already in use points to this one.
Intruded(folder) == \E i \in intruders : creation[i].folder = folder

\* What is inserted by hand has its folder for itself, or the folder is shared openly.
HandsAreAlone ==
    \A h \in Ids : creation[h].kind = "hand" /\ (creation[h].pc = "commit" \/ h \in rows) =>
        \/ Intruded(creation[h].folder)
        \/ \A c \in Holders \ {h} : creation[c].folder # creation[h].folder

\* What is being committed has its files.
CommitsItsFiles ==
    \A c \in Ids : creation[c].pc = "commit" =>
        disk[creation[c].folder] = "full" \/ Intruded(creation[c].folder)

FoldersInv ==
    /\ Control /\ FoldersAreExclusive /\ HandsAreAlone /\ CommitsItsFiles
    /\ ServersKeepTheirFiles

\* Past its placing, a creation keeps its folder.
Engaged == {c \in Ids : creation[c].pc \notin {"none"} \cup Placing}

FoldersKept ==
    \A c \in Engaged : /\ creation'[c].kind = creation[c].kind
                       /\ creation'[c].folder = creation[c].folder

\* A step after which nothing uses a folder that it did not use, and no file is gone.
Quiet ==
    /\ FoldersKept /\ rows' \subseteq rows /\ Holders' \subseteq Holders
    /\ \A c \in Ids : creation'[c].pc = "commit" => creation[c].pc = "commit"
    /\ intruders \subseteq intruders' /\ landed \subseteq landed'
    /\ \A f \in Folders : disk[f] = "full" => disk'[f] = "full"
    /\ \A r \in rows' : deletion[r] \in {"erased", "failed"} => deletion'[r] \in {"erased", "failed"}

\* What uses a folder, or intrudes in one, is past its placing and has a folder.
LEMMA HoldersEngaged ==
    ASSUME Control
    PROVE  /\ Holders \subseteq Engaged /\ intruders \subseteq Engaged /\ rows \subseteq Engaged
           /\ \A c \in Ids : creation[c].pc = "commit" => c \in Engaged
           /\ Holders \subseteq Ids /\ Engaged \subseteq Ids
           /\ \A c \in Holders : creation[c].folder \in Folders
           /\ \A c \in Ids : creation[c].pc = "commit" => creation[c].folder \in Folders
<1>1. rows \subseteq Engaged
  BY DEF Control, TypeOK, Settles, Engaged, Placing
<1>2. intruders \subseteq Engaged
  BY DEF Control, TypeOK, IntrudersByHand, Complete, IsByHand, Engaged, Placing, Registering
<1>3. RunningJobs \subseteq Engaged
  BY DEF RunningJobs, Engaged, Placing, Working, Preparing, Registering
<1>4. \A c \in Ids : creation[c].pc = "commit" => c \in Engaged
  BY DEF Engaged, Placing
<1>5. \A c \in RunningJobs : creation[c].folder \in Folders
  BY DEF RunningJobs, Control, Complete, IsWhole
<1>6. \A c \in rows : creation[c].folder \in Folders
  BY DEF Control, Settles
<1>7. \A c \in Ids : creation[c].pc = "commit" => creation[c].folder \in Folders
  BY DEF Control, Complete, IsWhole, Working, Registering
<1>8. QED  BY <1>1, <1>2, <1>3, <1>4, <1>5, <1>6, <1>7 DEF Holders, Engaged

\* A folder that is shared stays so.
LEMMA IntrudedKept ==
    ASSUME Control, FoldersKept, intruders \subseteq intruders',
           NEW f, Intruded(f)
    PROVE  \E i \in intruders' : creation'[i].folder = f
  BY HoldersEngaged DEF FoldersKept, Intruded

\* A quiet step keeps the folders apart and full.
LEMMA QuietKept ==
    ASSUME FoldersInv, Control', Quiet
    PROVE  FoldersInv'
<1>a. Control
  BY DEF FoldersInv
<1>b. /\ \A c \in Holders' : c \in Holders /\ creation'[c].folder = creation[c].folder
                             /\ creation'[c].kind = creation[c].kind
      /\ \A c \in rows' : c \in rows /\ creation'[c].folder = creation[c].folder
                             /\ creation'[c].kind = creation[c].kind
      /\ \A c \in Ids : creation'[c].pc = "commit" =>
            /\ creation[c].pc = "commit" /\ creation'[c].folder = creation[c].folder
            /\ creation'[c].kind = creation[c].kind
  BY <1>a, HoldersEngaged DEF Quiet, FoldersKept
<1>c. \A f : Intruded(f) => \E i \in intruders' : creation'[i].folder = f
  BY <1>a, IntrudedKept DEF Quiet
<1>1. FoldersAreExclusive'
  BY <1>b DEF FoldersInv, FoldersAreExclusive
<1>2. HandsAreAlone'
  <2> SUFFICES ASSUME NEW h \in Ids, creation'[h].kind = "hand",
                      creation'[h].pc = "commit" \/ h \in rows'
               PROVE  \/ \E i \in intruders' : creation'[i].folder = creation'[h].folder
                      \/ \A c \in Holders' \ {h} : creation'[c].folder # creation'[h].folder
    BY DEF HandsAreAlone, Intruded
  <2>1. /\ creation[h].kind = "hand" /\ (creation[h].pc = "commit" \/ h \in rows)
        /\ creation'[h].folder = creation[h].folder
    BY <1>b
  <2>2. QED  BY <1>b, <1>c, <2>1 DEF FoldersInv, HandsAreAlone
<1>3. CommitsItsFiles'
  <2> SUFFICES ASSUME NEW c \in Ids, creation'[c].pc = "commit"
               PROVE  \/ disk'[creation'[c].folder] = "full"
                      \/ \E i \in intruders' : creation'[i].folder = creation'[c].folder
    BY DEF CommitsItsFiles, Intruded
  <2>1. creation[c].folder \in Folders
    BY <1>a, <1>b, HoldersEngaged
  <2>2. QED  BY <1>b, <1>c, <2>1 DEF FoldersInv, CommitsItsFiles, Quiet
<1>4. ServersKeepTheirFiles'
  <2> SUFFICES ASSUME NEW r \in rows'
               PROVE  \/ disk'[creation'[r].folder] = "full"
                      \/ deletion'[r] \in {"erased", "failed"}
                      \/ r \in landed'
                      \/ \E i \in intruders' : creation'[i].folder = creation'[r].folder
    BY DEF ServersKeepTheirFiles
  <2>1. creation[r].folder \in Folders
    BY <1>a, <1>b, HoldersEngaged DEF Holders
  <2>2. \/ disk[creation[r].folder] = "full"
        \/ deletion[r] \in {"erased", "failed"}
        \/ r \in landed
        \/ Intruded(creation[r].folder)
    BY <1>b DEF FoldersInv, ServersKeepTheirFiles, Intruded
  <2>3. QED  BY <1>b, <1>c, <2>1, <2>2 DEF Quiet
<1>5. QED  BY <1>1, <1>2, <1>3, <1>4 DEF FoldersInv

\* Two that use one folder, or one about to be committed, share it openly.
LEMMA SharingIsOpen ==
    ASSUME FoldersInv, NEW c \in Holders, NEW d \in Ids \ {c},
           d \in rows \/ creation[d].pc = "commit",
           creation[c].folder = creation[d].folder
    PROVE  Intruded(creation[d].folder)
<1>a. Control /\ c \in Ids /\ TypeOK
  BY HoldersEngaged DEF FoldersInv, Control
<1>1. CASE creation[d].kind = "hand"
  BY <1>1 DEF FoldersInv, HandsAreAlone
<1>2. CASE creation[d].kind # "hand"
  <2>1. creation[d].kind = "job"
    BY <1>2, <1>a DEF TypeOK, Creation
  <2>2. d \in Holders
    BY <2>1 DEF Holders, RunningJobs, Working, Registering
  <2>3. creation[c].kind = "hand"
    BY <1>2, <2>2 DEF FoldersInv, FoldersAreExclusive
  <2>4. c \in rows
    BY <2>3 DEF Holders, RunningJobs
  <2>5. QED  BY <1>a, <2>2, <2>3, <2>4 DEF FoldersInv, HandsAreAlone
<1>3. QED  BY <1>1, <1>2

\* A step of one creation that neither registers it nor lets it use a folder it
\* did not use is quiet.
LEMMA MoveIsQuiet ==
    ASSUME Control, Control', NEW c \in Ids,
           \A d \in Ids \ {c} : creation'[d] = creation[d],
           c \in Engaged => /\ creation'[c].kind = creation[c].kind
                            /\ creation'[c].folder = creation[c].folder,
           c \in RunningJobs' => c \in RunningJobs,
           creation'[c].pc # "commit",
           UNCHANGED <<rows, deletion, intruders, landed>>,
           \A f \in Folders : disk[f] = "full" => disk'[f] = "full"
    PROVE  Quiet
<1>1. FoldersKept
  BY DEF FoldersKept, Engaged
<1>2. RunningJobs' \subseteq RunningJobs
  BY DEF RunningJobs
<1>3. QED  BY <1>1, <1>2 DEF Quiet, Holders

\* The same, when the step only moves the creation on.
LEMMA ProceedIsQuiet ==
    ASSUME Control, Control', NEW c \in Ids, NEW pc \in Places, Proceeds(c, pc), pc # "commit",
           pc \in Working => creation[c].pc \in Working,
           UNCHANGED <<rows, deletion, intruders, landed>>,
           \A f \in Folders : disk[f] = "full" => disk'[f] = "full"
    PROVE  Quiet
<1> DEFINE new == [creation[c] EXCEPT !.pc = pc]
<1>1. creation'[c] = new /\ \A d \in Ids \ {c} : creation'[d] = creation[d]
  <2>1. creation' = [creation EXCEPT ![c] = new]
    BY PlaceType DEF Control
  <2> HIDE DEF new
  <2>2. QED  BY <2>1, WriteEffect
<1>2. new.pc = pc /\ new.kind = creation[c].kind /\ new.folder = creation[c].folder
  BY DEF Control, TypeOK, Creation
<1> HIDE DEF new
<1>3. c \in RunningJobs' => c \in RunningJobs
  BY <1>1, <1>2 DEF RunningJobs
<1>4. QED  BY <1>1, <1>2, <1>3, MoveIsQuiet

\* To give up a creation is quiet.
LEMMA GivingUpIsQuiet ==
    ASSUME Control, Control', NEW c \in Ids, GivesUp(c), creation[c].pc \in Working,
           UNCHANGED <<rows, deletion, intruders, landed, disk>>
    PROVE  Quiet
<1>1. PICK pc \in {"undo", "refused"} : Proceeds(c, pc)
  BY DEF GivesUp
<1>2. QED  BY <1>1, ProceedIsQuiet DEF Places, Working

\* The steps that let nothing else use a folder and remove no file.
LEMMA QuietSteps ==
    ASSUME FoldersInv, Control', NEW c \in Ids,
           \/ Create(c)
           \/ \E name \in Names, folder \in Folders : RegistersByHand(c, name, folder)
           \/ ChecksQuota(c) \/ ChoosesFolder(c) \/ EntersHome(c)
           \/ AllocatesPort(c) \/ ChecksName(c)
           \/ Begins(c) \/ Prepares(c)
           \/ ChecksNameAgain(c) \/ ChecksFolderAgain(c) \/ PicksSlug(c) \/ Finishes(c)
           \/ PlansDeletion(c) \/ CommitsDeletion(c)
    PROVE  Quiet
<1> USE DEF stored
<1>a. Control /\ TypeOK /\ TypeOK'
  BY DEF FoldersInv, Control
<1>1. CASE Create(c)
  <2>1. c \notin Engaged
    BY <1>1, <1>a, AsksEffect DEF Engaged
  <2>2. creation'[c].pc = "quota"
    BY <1>1, <1>a, AsksEffect
  <2>3. c \notin RunningJobs'
    BY <2>2 DEF RunningJobs, Working, Preparing, Registering
  <2>4. QED  BY <1>1, <1>a, <2>1, <2>2, <2>3, AsksEffect, MoveIsQuiet
<1>2. ASSUME NEW name \in Names, NEW folder \in Folders, RegistersByHand(c, name, folder)
      PROVE  Quiet
  <2>1. /\ creation[c].pc = "none" /\ \A d \in Ids \ {c} : creation'[d] = creation[d]
        /\ creation'[c].pc = "name again" /\ creation'[c].kind = "hand"
        /\ UNCHANGED <<rows, deletion, intruders, landed, disk>>
    BY <1>2, <1>a DEF RegistersByHand, TypeOK, Fresh
  <2>2. c \notin Engaged /\ c \notin RunningJobs'
    BY <2>1 DEF RunningJobs, Engaged
  <2>3. QED  BY <1>a, <2>1, <2>2, MoveIsQuiet
<1>3. CASE ChecksQuota(c) \/ ChoosesFolder(c) \/ EntersHome(c) \/ AllocatesPort(c)
  <2>1. /\ \A d \in Ids \ {c} : creation'[d] = creation[d]
        /\ creation[c].pc \in Placing /\ creation'[c].pc \in Placing \cup {"refused"}
        /\ UNCHANGED <<rows, deletion, intruders, landed, disk>>
    BY <1>3, <1>a, ChecksQuotaEffect, ChoosesFolderEffect, EntersHomeEffect, AllocatesPortEffect
       DEF Placing
  <2>2. c \notin Engaged /\ c \notin RunningJobs' /\ creation'[c].pc # "commit"
    BY <2>1 DEF RunningJobs, Engaged, Placing, Working, Preparing, Registering
  <2>3. QED  BY <1>a, <2>1, <2>2, MoveIsQuiet
<1>4. CASE ChecksName(c)
  <2>1. PICK pc \in {"refused", "admit"} : Proceeds(c, pc)
    BY <1>4 DEF ChecksName
  <2>2. UNCHANGED <<rows, deletion, intruders, landed, disk>>
    BY <1>4 DEF ChecksName
  <2>3. QED
    BY <1>a, <2>1, <2>2, ProceedIsQuiet DEF Places, Placing, Working, Preparing, Registering
<1>5. CASE Begins(c)
  <2>1. creation'[c].kind = creation[c].kind /\ creation'[c].folder = creation[c].folder
        /\ creation'[c].pc \in {"download", "undo"}
    <3>1. PICK pc \in {"download", "undo"}, created \in BOOLEAN :
             creation' = [creation EXCEPT ![c] = [creation[c] EXCEPT !.pc = pc, !.created = created]]
      BY <1>5 DEF Begins
    <3>2. creation'[c] = [creation[c] EXCEPT !.pc = pc, !.created = created]
      BY <3>1, <1>a DEF TypeOK
    <3>3. creation[c] \in Creation
      BY <1>a DEF TypeOK
    <3>4. QED  BY <3>2, <3>3 DEF Creation
  <2>2. \A d \in Ids \ {c} : creation'[d] = creation[d]
    BY <1>5, <1>a DEF Begins, TypeOK
  <2>3. /\ UNCHANGED <<rows, deletion, intruders, landed>>
        /\ \A f \in Folders : disk[f] = "full" => disk'[f] = "full"
    BY <1>5, <1>a DEF Begins, TypeOK
  <2>4. c \in RunningJobs' => c \in RunningJobs
    BY <1>5, <2>1 DEF Begins, RunningJobs, Working, Preparing
  <2>5. QED  BY <1>a, <2>1, <2>2, <2>3, <2>4, MoveIsQuiet
<1>6. CASE Prepares(c)
  <2>1. PICK pc \in {"install", "name again", "undo"} : Proceeds(c, pc)
    BY <1>6 DEF Prepares
  <2>2. /\ UNCHANGED <<rows, deletion, intruders, landed>>
        /\ \A f \in Folders : disk[f] = "full" => disk'[f] = "full"
    BY <1>6, <1>a DEF Prepares, TypeOK
  <2>3. creation[c].pc \in Working
    BY <1>6 DEF Prepares, Working, Preparing
  <2>4. QED  BY <1>a, <2>1, <2>2, <2>3, ProceedIsQuiet DEF Places, Working, Preparing, Registering
<1>7. CASE ChecksNameAgain(c) \/ ChecksFolderAgain(c)
  <2>1. /\ creation[c].pc \in {"name again", "folder again"}
        /\ UNCHANGED <<rows, deletion, intruders, landed, disk>>
        /\ GivesUp(c) \/ \E pc \in {"folder again", "slug"} : Proceeds(c, pc)
    BY <1>7 DEF ChecksNameAgain, ChecksFolderAgain
  <2>2. creation[c].pc \in Working
    BY <2>1 DEF Working, Registering
  <2>3. CASE GivesUp(c)
    BY <1>a, <2>1, <2>2, <2>3, GivingUpIsQuiet
  <2>4. ASSUME NEW pc \in {"folder again", "slug"}, Proceeds(c, pc) PROVE Quiet
    BY <1>a, <2>1, <2>2, <2>4, ProceedIsQuiet DEF Places, Working, Registering
  <2>5. QED  BY <2>1, <2>3, <2>4
<1>8. CASE PicksSlug(c)
  <2>1. creation'[c].kind = creation[c].kind /\ creation'[c].folder = creation[c].folder
        /\ creation'[c].pc = "flush"
    <3>1. PICK slug : creation' = [creation EXCEPT ![c] =
                                      [creation[c] EXCEPT !.pc = "flush", !.slug = slug]]
      BY <1>8 DEF PicksSlug
    <3>2. creation'[c] = [creation[c] EXCEPT !.pc = "flush", !.slug = slug]
      BY <3>1, <1>a DEF TypeOK
    <3>3. creation[c] \in Creation
      BY <1>a DEF TypeOK
    <3>4. QED  BY <3>2, <3>3 DEF Creation
  <2>2. /\ \A d \in Ids \ {c} : creation'[d] = creation[d]
        /\ UNCHANGED <<rows, deletion, intruders, landed, disk>>
    BY <1>8, <1>a DEF PicksSlug, TypeOK
  <2>3. c \in RunningJobs' => c \in RunningJobs
    BY <1>8, <2>1 DEF PicksSlug, RunningJobs, Working, Registering
  <2>4. QED  BY <1>a, <2>1, <2>2, <2>3, MoveIsQuiet
<1>9. CASE Finishes(c)
  <2>1. Proceeds(c, "done") /\ UNCHANGED <<rows, deletion, intruders, landed, disk>>
    BY <1>9 DEF Finishes
  <2>2. QED  BY <1>a, <2>1, ProceedIsQuiet DEF Places, Working, Preparing, Registering
<1>10. CASE PlansDeletion(c) \/ CommitsDeletion(c)
  <2>1. /\ UNCHANGED <<creation, disk, intruders, landed>> /\ rows' \subseteq rows
    BY <1>10 DEF PlansDeletion, CommitsDeletion
  <2>2. \A r \in rows' : deletion[r] \in {"erased", "failed"} => deletion'[r] \in {"erased", "failed"}
    BY <1>10, <1>a DEF PlansDeletion, CommitsDeletion, TypeOK
  <2>3. Holders' \subseteq Holders
    BY <2>1 DEF Holders, RunningJobs
  <2>4. QED  BY <2>1, <2>2, <2>3 DEF Quiet, FoldersKept
<1>11. QED
  BY <1>1, <1>2, <1>3, <1>4, <1>5, <1>6, <1>7, <1>8, <1>9, <1>10

\* What a step that only moves a creation on does to the records.
LEMMA ProceedEffect ==
    ASSUME Control, NEW c \in Ids, NEW pc \in Places, Proceeds(c, pc)
    PROVE  /\ creation'[c].pc = pc /\ Same(creation'[c], creation[c])
           /\ creation'[c].folder = creation[c].folder /\ creation'[c].port = creation[c].port
           /\ \A d \in Ids \ {c} : creation'[d] = creation[d]
           /\ FoldersKept
<1> DEFINE new == [creation[c] EXCEPT !.pc = pc]
<1>1. creation'[c] = new /\ \A d \in Ids \ {c} : creation'[d] = creation[d]
  <2>1. creation' = [creation EXCEPT ![c] = new]
    BY PlaceType DEF Control
  <2> HIDE DEF new
  <2>2. QED  BY <2>1, WriteEffect
<1>2. /\ new.pc = pc /\ Same(new, creation[c])
      /\ new.folder = creation[c].folder /\ new.port = creation[c].port
  BY DEF Control, TypeOK, Creation, Same
<1> HIDE DEF new
<1>3. QED  BY <1>1, <1>2 DEF FoldersKept, Same, Engaged

\* A task takes a folder that nothing uses.
LEMMA AdmitsKept ==
    ASSUME FoldersInv, Control', NEW c \in Ids, Admits(c)
    PROVE  FoldersInv'
<1> USE DEF stored
<1>a. Control /\ TypeOK /\ TypeOK'
  BY DEF FoldersInv, Control
<1>b. UNCHANGED <<disk, rows, deletion, intruders, landed>> /\ creation[c].pc = "admit"
  BY DEF Admits
<1>1. CASE Proceeds(c, "refused")
  <2>1. Quiet
    BY <1>1, <1>a, <1>b, ProceedIsQuiet DEF Places, Working, Preparing, Registering
  <2>2. QED  BY <2>1, QuietKept
<1>2. CASE Proceeds(c, "begin") /\ disk[creation[c].folder] # "full" /\ ~FolderTaken(creation[c].folder)
  <2>1. /\ creation'[c].pc = "begin" /\ creation'[c].kind = creation[c].kind
        /\ creation'[c].folder = creation[c].folder
        /\ \A d \in Ids \ {c} : creation'[d] = creation[d]
        /\ FoldersKept
    BY <1>2, <1>a, ProceedEffect DEF Same, Places, Working, Preparing
  <2>2. Holders' \subseteq Holders \cup {c} /\ c \notin rows
    BY <2>1, <1>a, <1>b DEF Holders, RunningJobs, Control, Settles
  <2>3. \A d \in Holders : creation[d].folder # creation[c].folder
    BY <1>2 DEF Holders, FolderTaken, Managed, TakenDirectories
  <2>4. Holders \subseteq Ids \ {c}
    BY <2>3, <1>a, HoldersEngaged
  <2>5. \A f : Intruded(f) => \E i \in intruders' : creation'[i].folder = f
    BY <1>a, <1>b, <2>1, IntrudedKept DEF Intruded
  <2>6. creation[c].kind = "job"
    BY <1>a, <1>b DEF Control, Complete, IsByHand, Registering, TypeOK, Creation
  <2>7. FoldersAreExclusive'
    BY <2>1, <2>2, <2>3, <2>4 DEF FoldersInv, FoldersAreExclusive
  <2>8. HandsAreAlone'
    <3> SUFFICES ASSUME NEW h \in Ids, creation'[h].kind = "hand",
                        creation'[h].pc = "commit" \/ h \in rows
                 PROVE  \/ \E i \in intruders' : creation'[i].folder = creation'[h].folder
                        \/ \A d \in Holders' \ {h} : creation'[d].folder # creation'[h].folder
      BY <1>b DEF HandsAreAlone, Intruded
    <3>1. h # c /\ creation'[h] = creation[h]
      BY <2>1, <2>6
    <3>2. CASE Intruded(creation[h].folder)
      BY <3>1, <3>2, <2>5
    <3>3. CASE ~Intruded(creation[h].folder)
      <4>1. \A d \in Holders \ {h} : creation[d].folder # creation[h].folder
        BY <3>1, <3>3 DEF FoldersInv, HandsAreAlone
      <4>2. creation[c].folder # creation[h].folder
        <5>1. CASE h \in rows
          BY <5>1, <2>3 DEF Holders
        <5>2. CASE creation[h].pc = "commit"
          BY <5>2, <3>3, <1>2 DEF FoldersInv, CommitsItsFiles
        <5>3. QED  BY <3>1, <5>1, <5>2
      <4>3. QED  BY <4>1, <4>2, <3>1, <2>1, <2>2, <2>4
    <3>4. QED  BY <3>2, <3>3
  <2>9. CommitsItsFiles'
    BY <2>1, <2>5, <1>b DEF FoldersInv, CommitsItsFiles, Intruded
  <2>10. ServersKeepTheirFiles'
    <3>1. \A r \in rows : r \in Ids \ {c} /\ creation'[r] = creation[r]
      BY <2>1, <2>2, <1>a DEF TypeOK
    <3>2. QED  BY <3>1, <2>5, <1>b DEF FoldersInv, ServersKeepTheirFiles, Intruded
  <2>11. QED  BY <2>7, <2>8, <2>9, <2>10 DEF FoldersInv
<1>3. QED  BY <1>1, <1>2 DEF Admits

\* An insertion by hand in a folder already in use is known to intrude.
LEMMA InsertsKept ==
    ASSUME FoldersInv, Control', NEW c \in Ids, Inserts(c)
    PROVE  FoldersInv'
<1>a. Control /\ TypeOK /\ TypeOK'
  BY DEF FoldersInv, Control
<1>b. UNCHANGED <<disk, rows, deletion, landed>> /\ creation[c].pc = "flush"
  BY DEF Inserts
<1>1. CASE GivesUp(c) /\ UNCHANGED intruders
  <2>1. Quiet
    BY <1>1, <1>a, <1>b, GivingUpIsQuiet DEF Working, Registering
  <2>2. QED  BY <2>1, QuietKept
<1>2. CASE /\ Proceeds(c, "commit") /\ disk[creation[c].folder] = "full"
           /\ intruders' = IF creation[c].kind = "hand" /\ FolderTaken(creation[c].folder)
                           THEN intruders \cup {c} ELSE intruders
  <2>1. /\ creation'[c].pc = "commit" /\ creation'[c].kind = creation[c].kind
        /\ creation'[c].folder = creation[c].folder
        /\ \A d \in Ids \ {c} : creation'[d] = creation[d]
        /\ FoldersKept
    BY <1>2, <1>a, ProceedEffect DEF Same, Places, Working, Registering
  <2>2. Holders' = Holders /\ c \notin rows
    <3>1. \A d \in Ids : d \in RunningJobs' <=> d \in RunningJobs
      BY <2>1, <1>b DEF RunningJobs, Working, Registering
    <3>2. RunningJobs' = RunningJobs
      BY <3>1 DEF RunningJobs
    <3>3. QED  BY <3>2, <1>a, <1>b DEF Holders, Control, Settles
  <2>3. \A f : Intruded(f) => \E i \in intruders' : creation'[i].folder = f
    BY <1>a, <1>2, <2>1, IntrudedKept DEF Intruded
  <2>4. \A d \in Ids : creation'[d].folder = creation[d].folder /\ creation'[d].kind = creation[d].kind
    BY <2>1
  <2>5. Holders \subseteq Ids /\ rows \subseteq Ids
    BY <1>a, HoldersEngaged DEF TypeOK
  <2>6. FoldersAreExclusive'
    BY <2>2, <2>4, <2>5 DEF FoldersInv, FoldersAreExclusive
  <2>7. HandsAreAlone'
    <3> SUFFICES ASSUME NEW h \in Ids, creation'[h].kind = "hand",
                        creation'[h].pc = "commit" \/ h \in rows
                 PROVE  \/ \E i \in intruders' : creation'[i].folder = creation'[h].folder
                        \/ \A d \in Holders' \ {h} : creation'[d].folder # creation'[h].folder
      BY <1>b DEF HandsAreAlone, Intruded
    <3>1. CASE h # c
      <4>1. \/ Intruded(creation[h].folder)
            \/ \A d \in Holders \ {h} : creation[d].folder # creation[h].folder
        BY <3>1, <2>1 DEF FoldersInv, HandsAreAlone
      <4>2. QED  BY <4>1, <2>2, <2>3, <2>4, <2>5
    <3>2. CASE h = c /\ FolderTaken(creation[c].folder)
      BY <3>2, <1>2, <2>1 DEF Intruded
    <3>3. CASE h = c /\ ~FolderTaken(creation[c].folder)
      <4>1. \A d \in Holders : creation[d].folder # creation[c].folder
        BY <3>3 DEF Holders, FolderTaken, Managed, TakenDirectories
      <4>2. QED  BY <3>3, <4>1, <2>2, <2>4, <2>5
    <3>4. QED  BY <3>1, <3>2, <3>3
  <2>8. CommitsItsFiles'
    BY <1>2, <2>1, <2>3, <1>b DEF FoldersInv, CommitsItsFiles, Intruded
  <2>9. ServersKeepTheirFiles'
    <3> SUFFICES ASSUME NEW r \in rows'
                 PROVE  \/ disk[creation'[r].folder] = "full"
                        \/ deletion[r] \in {"erased", "failed"}
                        \/ r \in landed
                        \/ \E i \in intruders' : creation'[i].folder = creation'[r].folder
      BY <1>b DEF ServersKeepTheirFiles
    <3>1. \/ disk[creation[r].folder] = "full"
          \/ deletion[r] \in {"erased", "failed"}
          \/ r \in landed
          \/ Intruded(creation[r].folder)
      BY <1>b DEF FoldersInv, ServersKeepTheirFiles, Intruded
    <3>2. QED  BY <3>1, <1>b, <2>3, <2>4, <2>5
  <2>10. QED  BY <2>6, <2>7, <2>8, <2>9 DEF FoldersInv
<1>3. QED  BY <1>1, <1>2 DEF Inserts

\* What is committed becomes a server with its files.
LEMMA CommitsKept ==
    ASSUME FoldersInv, Control', NEW c \in Ids, Commits(c)
    PROVE  FoldersInv'
<1>a. Control /\ TypeOK /\ TypeOK'
  BY DEF FoldersInv, Control
<1>b. UNCHANGED <<disk, intruders, deletion, landed>> /\ creation[c].pc = "commit"
  BY DEF Commits
<1>1. CASE GivesUp(c) /\ UNCHANGED rows
  <2>1. Quiet
    BY <1>1, <1>a, <1>b, GivingUpIsQuiet DEF Working, Registering
  <2>2. QED  BY <2>1, QuietKept
<1>2. CASE /\ rows' = rows \cup {c}
           /\ Proceeds(c, IF creation[c].kind = "job" THEN "start" ELSE "done")
  <2> DEFINE pc == IF creation[c].kind = "job" THEN "start" ELSE "done"
  <2>0. pc \in {"start", "done"} /\ (pc = "start" <=> creation[c].kind = "job") /\ Proceeds(c, pc)
    BY <1>2
  <2> HIDE DEF pc
  <2>1. /\ creation'[c].pc = pc /\ creation'[c].kind = creation[c].kind
        /\ creation'[c].folder = creation[c].folder
        /\ \A d \in Ids \ {c} : creation'[d] = creation[d]
        /\ FoldersKept
    BY <2>0, <1>a, ProceedEffect DEF Same, Places, Working
  <2>2. /\ Holders' \subseteq Holders \cup {c}
        /\ creation[c].kind = "job" => c \in Holders
    <3>1. \A d \in RunningJobs' : d \in RunningJobs \/ d = c
      BY <2>1 DEF RunningJobs
    <3>2. QED  BY <3>1, <1>2, <1>b DEF Holders, RunningJobs, Working, Registering
  <2>3. \A f : Intruded(f) => \E i \in intruders' : creation'[i].folder = f
    BY <1>a, <1>b, <2>1, IntrudedKept DEF Intruded
  <2>4. /\ \A d \in Ids : creation'[d].folder = creation[d].folder /\ creation'[d].kind = creation[d].kind
        /\ creation[c].kind \in {"job", "hand"}
    BY <2>1, <1>a DEF TypeOK, Creation
  <2>5. Holders \subseteq Ids /\ rows \subseteq Ids
    BY <1>a, HoldersEngaged DEF TypeOK
  <2>6. FoldersAreExclusive'
    BY <2>2, <2>4, <2>5 DEF FoldersInv, FoldersAreExclusive
  <2>7. HandsAreAlone'
    <3> SUFFICES ASSUME NEW h \in Ids, creation'[h].kind = "hand",
                        creation'[h].pc = "commit" \/ h \in rows'
                 PROVE  \/ \E i \in intruders' : creation'[i].folder = creation'[h].folder
                        \/ \A d \in Holders' \ {h} : creation'[d].folder # creation'[h].folder
      BY DEF HandsAreAlone, Intruded
    <3>1. creation[h].kind = "hand" /\ (creation[h].pc = "commit" \/ h \in rows)
      BY <1>2, <1>b, <2>1
    <3>2. CASE ~Intruded(creation[h].folder)
      <4>1. \A d \in Holders \ {h} : creation[d].folder # creation[h].folder
        BY <3>1, <3>2 DEF FoldersInv, HandsAreAlone
      <4>2. h # c /\ creation[c].kind = "hand" => creation[c].folder # creation[h].folder
        <5>1. h # c => h \in rows
          BY <3>1, <1>a, <1>b DEF Control, Settles
        <5>2. creation[c].kind = "hand" =>
                 \/ Intruded(creation[c].folder)
                 \/ \A d \in Holders \ {c} : creation[d].folder # creation[c].folder
          BY <1>b DEF FoldersInv, HandsAreAlone
        <5>3. QED  BY <5>1, <5>2, <3>2 DEF Holders
      <4>3. \A d \in (Holders \cup {c}) \ {h} : creation[d].folder # creation[h].folder
        BY <4>1, <4>2, <2>2, <2>4
      <4>4. QED  BY <4>3, <2>2, <2>4, <2>5
    <3>3. QED  BY <3>2, <2>3, <2>4
  <2>8. CommitsItsFiles'
    BY <2>1, <2>3, <1>b DEF FoldersInv, CommitsItsFiles, Intruded
  <2>9. ServersKeepTheirFiles'
    <3>1. disk[creation[c].folder] = "full" \/ Intruded(creation[c].folder)
      BY <1>b DEF FoldersInv, CommitsItsFiles
    <3> SUFFICES ASSUME NEW r \in rows'
                 PROVE  \/ disk[creation'[r].folder] = "full"
                        \/ deletion[r] \in {"erased", "failed"}
                        \/ r \in landed
                        \/ \E i \in intruders' : creation'[i].folder = creation'[r].folder
      BY <1>b DEF ServersKeepTheirFiles
    <3>2. \/ disk[creation[r].folder] = "full"
          \/ deletion[r] \in {"erased", "failed"}
          \/ r \in landed
          \/ Intruded(creation[r].folder)
      BY <3>1, <1>2 DEF FoldersInv, ServersKeepTheirFiles, Intruded
    <3>3. r \in Ids
      BY <1>2, <2>5
    <3>4. QED  BY <3>2, <3>3, <2>3, <2>4
  <2>10. QED  BY <2>6, <2>7, <2>8, <2>9 DEF FoldersInv
<1>3. QED  BY <1>1, <1>2 DEF Commits

\* A step that removes what is in a folder, when another uses it, is in a folder
\* shared openly; the rest of the step is quiet.
LEMMA ClearingKept ==
    ASSUME FoldersInv, Control', NEW f,
           FoldersKept, rows' \subseteq rows, Holders' \subseteq Holders,
           \A c \in Ids : creation'[c].pc = "commit" => creation[c].pc = "commit",
           UNCHANGED <<intruders, landed>>,
           \A g \in Folders \ {f} : disk'[g] = disk[g],
           \A r \in rows' : deletion[r] \in {"erased", "failed"} => deletion'[r] \in {"erased", "failed"},
           \A c \in Ids : creation'[c].pc = "commit" /\ creation[c].folder = f => Intruded(f),
           \A r \in rows' : creation[r].folder = f =>
                Intruded(f) \/ deletion'[r] \in {"erased", "failed"}
    PROVE  FoldersInv'
<1>a. Control /\ TypeOK
  BY DEF FoldersInv, Control
<1>b. /\ \A c \in Holders' : c \in Holders /\ creation'[c].folder = creation[c].folder
                             /\ creation'[c].kind = creation[c].kind
      /\ \A c \in rows' : c \in rows /\ creation'[c].folder = creation[c].folder
                          /\ creation'[c].kind = creation[c].kind
      /\ \A c \in Ids : creation'[c].pc = "commit" =>
            /\ creation[c].pc = "commit" /\ creation'[c].folder = creation[c].folder
            /\ creation'[c].kind = creation[c].kind
  BY <1>a, HoldersEngaged DEF FoldersKept
<1>c. \A g : Intruded(g) => \E i \in intruders' : creation'[i].folder = g
  BY <1>a, IntrudedKept
<1>1. FoldersAreExclusive'
  BY <1>b DEF FoldersInv, FoldersAreExclusive
<1>2. HandsAreAlone'
  <2> SUFFICES ASSUME NEW h \in Ids, creation'[h].kind = "hand",
                      creation'[h].pc = "commit" \/ h \in rows'
               PROVE  \/ \E i \in intruders' : creation'[i].folder = creation'[h].folder
                      \/ \A c \in Holders' \ {h} : creation'[c].folder # creation'[h].folder
    BY DEF HandsAreAlone, Intruded
  <2>1. /\ creation[h].kind = "hand" /\ (creation[h].pc = "commit" \/ h \in rows)
        /\ creation'[h].folder = creation[h].folder
    BY <1>b
  <2>2. QED  BY <1>b, <1>c, <2>1 DEF FoldersInv, HandsAreAlone
<1>3. CommitsItsFiles'
  <2> SUFFICES ASSUME NEW c \in Ids, creation'[c].pc = "commit"
               PROVE  \/ disk'[creation'[c].folder] = "full"
                      \/ \E i \in intruders' : creation'[i].folder = creation'[c].folder
    BY DEF CommitsItsFiles, Intruded
  <2>1. creation[c].folder \in Folders
    BY <1>a, <1>b, HoldersEngaged
  <2>2. disk[creation[c].folder] = "full" \/ Intruded(creation[c].folder)
    BY <1>b DEF FoldersInv, CommitsItsFiles
  <2>3. QED  BY <1>b, <1>c, <2>1, <2>2
<1>4. ServersKeepTheirFiles'
  <2> SUFFICES ASSUME NEW r \in rows'
               PROVE  \/ disk'[creation'[r].folder] = "full"
                      \/ deletion'[r] \in {"erased", "failed"}
                      \/ r \in landed'
                      \/ \E i \in intruders' : creation'[i].folder = creation'[r].folder
    BY DEF ServersKeepTheirFiles
  <2>1. creation[r].folder \in Folders
    BY <1>a, <1>b, HoldersEngaged DEF Holders
  <2>2. \/ disk[creation[r].folder] = "full"
        \/ deletion[r] \in {"erased", "failed"}
        \/ r \in landed
        \/ Intruded(creation[r].folder)
    BY <1>b DEF FoldersInv, ServersKeepTheirFiles, Intruded
  <2>3. QED  BY <1>b, <1>c, <2>1, <2>2
<1>5. QED  BY <1>1, <1>2, <1>3, <1>4 DEF FoldersInv

\* A task that failed removes the files of no server but one that shares its folder.
LEMMA UndoesKept ==
    ASSUME FoldersInv, Control', NEW c \in Ids, Undoes(c)
    PROVE  FoldersInv'
<1>a. Control /\ TypeOK /\ TypeOK'
  BY DEF FoldersInv, Control
<1>1. /\ creation[c].pc = "undo" /\ Proceeds(c, "failed")
      /\ UNCHANGED <<rows, intruders, landed, deletion>>
      /\ \A g \in Folders \ {creation[c].folder} : disk'[g] = disk[g]
  BY <1>a DEF Undoes, stored, TypeOK
<1>2. /\ creation'[c].pc = "failed" /\ \A d \in Ids \ {c} : creation'[d] = creation[d]
      /\ FoldersKept
  BY <1>1, <1>a, ProceedEffect DEF Places
<1>3. Holders' \subseteq Holders
  BY <1>1, <1>2 DEF Holders, RunningJobs, Working, Preparing, Registering
<1>4. creation[c].kind = "job" /\ c \in Holders /\ c \notin rows
  <2>1. creation[c].kind # "hand"
    BY <1>1, <1>a DEF Control, Complete, IsByHand, Registering
  <2>2. creation[c].kind = "job"
    BY <2>1, <1>a DEF TypeOK, Creation
  <2>3. QED  BY <1>1, <1>a, <2>2 DEF Control, Settles, Holders, RunningJobs, Working
<1>5. \A d \in Ids \ {c} : /\ d \in rows \/ creation[d].pc = "commit"
                           /\ creation[d].folder = creation[c].folder
                           => Intruded(creation[c].folder)
  BY <1>4, SharingIsOpen
<1>6. QED
  <2> DEFINE f == creation[c].folder
  <2>1. \A d \in Ids : creation'[d].pc = "commit" => creation[d].pc = "commit" /\ d # c
    BY <1>2
  <2>2. rows \subseteq Ids \ {c}
    BY <1>4, <1>a DEF TypeOK
  <2>3. /\ \A d \in Ids : creation'[d].pc = "commit" /\ creation[d].folder = f => Intruded(f)
        /\ \A r \in rows' : creation[r].folder = f => Intruded(f)
        /\ \A g \in Folders \ {f} : disk'[g] = disk[g]
    BY <1>1, <1>5, <2>1, <2>2
  <2> HIDE DEF f
  <2>4. QED  BY <1>1, <1>2, <1>3, <2>1, <2>3, ClearingKept

\* A deletion removes the files of no other server but one that shares its folder.
LEMMA ErasesKept ==
    ASSUME FoldersInv, Control', NEW r \in Ids, ErasesFiles(r)
    PROVE  FoldersInv'
<1>a. Control /\ TypeOK /\ TypeOK'
  BY DEF FoldersInv, Control
<1>1. /\ r \in rows /\ deletion'[r] = "erased" /\ \A q \in Ids \ {r} : deletion'[q] = deletion[q]
      /\ UNCHANGED <<creation, rows, intruders, landed>>
      /\ \A g \in Folders \ {creation[r].folder} : disk'[g] = disk[g]
  BY <1>a DEF ErasesFiles, TypeOK
<1>2. FoldersKept /\ Holders' = Holders
  BY <1>1 DEF FoldersKept, Holders, RunningJobs
<1>3. r \in Holders /\ creation[r].pc # "commit"
  BY <1>1, <1>a DEF Holders, Control, Settles
<1>4. \A d \in Ids \ {r} : /\ d \in rows \/ creation[d].pc = "commit"
                           /\ creation[d].folder = creation[r].folder
                           => Intruded(creation[r].folder)
  BY <1>3, SharingIsOpen
<1>5. QED
  <2> DEFINE f == creation[r].folder
  <2>1. rows \subseteq Ids
    BY <1>a DEF TypeOK
  <2>2. /\ \A d \in Ids : creation'[d].pc = "commit" /\ creation[d].folder = f => Intruded(f)
        /\ \A q \in rows' : creation[q].folder = f =>
              Intruded(f) \/ deletion'[q] \in {"erased", "failed"}
        /\ \A g \in Folders \ {f} : disk'[g] = disk[g]
        /\ \A q \in rows' : deletion[q] \in {"erased", "failed"} => deletion'[q] \in {"erased", "failed"}
    BY <1>1, <1>3, <1>4, <2>1
  <2> HIDE DEF f
  <2>3. QED  BY <1>1, <1>2, <2>2, ClearingKept

\* A stop removes the files of no server but one that shares its folder, or one
\* whose commit was going through.
LEMMA MsmStopsKept ==
    ASSUME FoldersInv, Control', NEW clean \in BOOLEAN, NEW committed \in BOOLEAN,
           MsmStops(clean, committed)
    PROVE  FoldersInv'
<1>a. Control /\ TypeOK /\ TypeOK'
  BY DEF FoldersInv, Control
<1> DEFINE through == IF committed /\ writer # Unset THEN {writer} ELSE {}
           undone == {c \in Ids : Unregistered(c)}
           Kept(f) == disk'[f] = disk[f]
<1>1. \A c \in Ids : /\ creation'[c].pc \notin Working
                     /\ creation'[c].kind = creation[c].kind
                     /\ creation'[c].folder = creation[c].folder
  <2> SUFFICES ASSUME NEW c \in Ids
               PROVE  /\ creation'[c].pc \notin Working
                      /\ creation'[c].kind = creation[c].kind
                      /\ creation'[c].folder = creation[c].folder
    OBVIOUS
  <2>1. CASE creation[c].pc \in Placing \cup Working
    BY <2>1, <1>a, MsmStopsEffect DEF Same, Working, Preparing, Registering
  <2>2. CASE creation[c].pc \notin Placing \cup Working
    BY <2>2, <1>a, MsmStopsEffect
  <2>3. QED  BY <2>1, <2>2
<1>2. /\ rows' = rows \cup through /\ intruders' = intruders
      /\ landed' = IF clean THEN landed \cup (through \cap undone) ELSE landed
  BY Zenon DEF MsmStops
<1>3. Holders' = rows'
  BY <1>1 DEF Holders, RunningJobs
<1>4. \A c \in through : c \in Ids /\ creation[c].pc = "commit" /\ c \notin rows
  BY <1>a DEF Control, Settles, TypeOK
<1>5. \A f \in Folders : ~(clean /\ \E c \in undone : creation[c].folder = f) => Kept(f)
  BY Zenon DEF MsmStops
<1>6. \A r \in rows : deletion[r] \in {"erased", "failed"} => deletion'[r] \in {"erased", "failed"}
  BY <1>a DEF MsmStops, TypeOK
<1>7. undone \subseteq RunningJobs /\ undone \cap rows = {}
  BY <1>a DEF Unregistered, Control, Settles, Working, Preparing, Registering
<1> HIDE DEF undone, Kept
<1>8. rows \subseteq Ids /\ rows' \subseteq Ids /\ Holders \subseteq Ids
  BY <1>a, HoldersEngaged DEF TypeOK
<1>9. \A c \in rows' : c \in rows \/ (c \in through /\ creation[c].pc = "commit")
  BY <1>2, <1>4
<1>10. \A c \in through : creation[c].kind = "job" => c \in Holders
  BY <1>4 DEF Holders, RunningJobs, Working, Registering
<1>11. \A c, d \in through : c = d
  OBVIOUS
<1> HIDE DEF through
<1>12. intruders \subseteq Ids
  BY <1>a DEF TypeOK
<1>13. \A f : Intruded(f) => \E i \in intruders' : creation'[i].folder = f
  BY <1>1, <1>2, <1>12 DEF Intruded
<1>14. \A c \in Ids : creation[c].kind \in {"job", "hand"}
  BY <1>a DEF TypeOK, Creation
<1>15. FoldersAreExclusive'
  BY <1>1, <1>3, <1>8, <1>9, <1>10, <1>11, <1>14 DEF FoldersInv, FoldersAreExclusive, Holders
<1>16. HandsAreAlone'
  <2> SUFFICES ASSUME NEW h \in rows', creation[h].kind = "hand", ~Intruded(creation[h].folder),
                      NEW c \in rows' \ {h}, creation[c].folder = creation[h].folder
               PROVE  FALSE
    <3>1. \A h \in Ids : creation'[h].pc # "commit"
      BY <1>1 DEF Working, Registering
    <3>2. QED  BY <3>1, <1>1, <1>3, <1>8, <1>13 DEF HandsAreAlone, Intruded
  <2>1. \A d \in Holders \ {h} : creation[d].folder # creation[h].folder
    BY <1>8, <1>9 DEF FoldersInv, HandsAreAlone
  <2>2. c \in through /\ creation[c].kind = "hand" /\ c \notin Holders
    BY <2>1, <1>8, <1>9, <1>10, <1>14 DEF Holders
  <2>3. \A d \in Holders \ {c} : creation[d].folder # creation[c].folder
    BY <2>2, <1>4 DEF FoldersInv, HandsAreAlone
  <2>4. h \in Holders
    BY <2>2, <1>9, <1>11 DEF Holders
  <2>5. QED  BY <2>3, <2>4
<1>17. CommitsItsFiles'
  BY <1>1 DEF CommitsItsFiles, Working, Registering
<1>18. ServersKeepTheirFiles'
  <2> SUFFICES ASSUME NEW r \in rows', ~Intruded(creation[r].folder), r \notin landed'
               PROVE  disk'[creation[r].folder] = "full" \/ deletion'[r] \in {"erased", "failed"}
    BY <1>1, <1>8, <1>13 DEF ServersKeepTheirFiles
  <2>1. creation[r].folder \in Folders
    BY <1>a, <1>8, <1>9, HoldersEngaged DEF Holders
  <2>2. \/ disk[creation[r].folder] = "full"
        \/ r \in rows /\ deletion'[r] \in {"erased", "failed"}
    BY <1>2, <1>6, <1>8, <1>9 DEF FoldersInv, ServersKeepTheirFiles, CommitsItsFiles, Intruded
  <2>3. ASSUME clean, NEW c \in undone, creation[c].folder = creation[r].folder
        PROVE  FALSE
    <3>1. c # r
      BY <2>3, <1>2, <1>7, <1>9
    <3>2. c \in Holders /\ r \in Ids \ {c}
      BY <3>1, <1>7, <1>8 DEF Holders
    <3>3. Intruded(creation[r].folder)
      BY <2>3, <3>2, <1>9, SharingIsOpen
    <3>4. QED  BY <3>3
  <2>4. Kept(creation[r].folder)
    BY <2>1, <2>3, <1>5
  <2>5. QED  BY <2>2, <2>4 DEF Kept
<1>19. QED  BY <1>15, <1>16, <1>17, <1>18 DEF FoldersInv

\* Every step keeps the folders apart and full.
LEMMA FoldersInvKept ==
    ASSUME FoldersInv, [Next]_vars
    PROVE  FoldersInv'
<1>a. Control
  BY DEF FoldersInv
<1>b. Control'
  BY <1>a, ControlKept
<1>1. CASE UNCHANGED vars
  <2>1. Quiet
    BY <1>1, <1>a DEF vars, Quiet, FoldersKept, Holders, RunningJobs
  <2>2. QED  BY <1>b, <2>1, QuietKept
<1>2. ASSUME NEW c \in Ids,
             \/ Create(c)
             \/ \E name \in Names, folder \in Folders : RegistersByHand(c, name, folder)
             \/ ChecksQuota(c) \/ ChoosesFolder(c) \/ EntersHome(c)
             \/ AllocatesPort(c) \/ ChecksName(c)
             \/ Begins(c) \/ Prepares(c)
             \/ ChecksNameAgain(c) \/ ChecksFolderAgain(c) \/ PicksSlug(c) \/ Finishes(c)
             \/ PlansDeletion(c) \/ CommitsDeletion(c)
      PROVE  FoldersInv'
  BY <1>b, <1>2, QuietSteps, QuietKept
<1>3. ASSUME NEW c \in Ids, Admits(c) \/ Inserts(c) \/ Commits(c) \/ Undoes(c) \/ ErasesFiles(c)
      PROVE  FoldersInv'
  BY <1>b, <1>3, AdmitsKept, InsertsKept, CommitsKept, UndoesKept, ErasesKept
<1>4. ASSUME NEW clean \in BOOLEAN, NEW committed \in BOOLEAN, MsmStops(clean, committed)
      PROVE  FoldersInv'
  BY <1>b, <1>4, MsmStopsKept
<1>5. QED
  BY <1>1, <1>2, <1>3, <1>4, Zenon DEF Next

\* At first no folder is used.
LEMMA InitFolders ==
    ASSUME Init
    PROVE  FoldersInv
<1>a. Control
  BY InitControl
<1>1. PICK owner \in Owners, name \in Names :
        creation = [c \in Ids |-> IF c \in rows THEN Settled(owner, name) ELSE Fresh]
  BY DEF Init
<1>2. /\ \A c \in rows : creation[c] = Settled(owner, name)
      /\ \A c \in Ids \ rows : creation[c] = Fresh
      /\ rows \subseteq Ids /\ \A c, d \in rows : c = d
      /\ \A c \in rows : disk[creation[c].folder] = "full"
  <2>1. rows \subseteq Ids /\ \A c, d \in rows : c = d
    BY ProvisioningAssumption DEF Init, Ids
  <2>2. \A c \in rows : creation[c].folder \in Folders
    BY <1>a DEF Control, Settles
  <2>3. QED  BY <1>1, <2>1, <2>2 DEF Init, Managed
<1>3. /\ Settled(owner, name).pc = "done" /\ Settled(owner, name).kind = "job"
      /\ Fresh.pc = "none" /\ Fresh.kind = "job"
  BY DEF Settled, Fresh
<1>4. Holders = rows
  BY <1>2, <1>3 DEF Holders, RunningJobs, Working, Preparing, Registering
<1>5. FoldersAreExclusive
  BY <1>2, <1>4 DEF FoldersAreExclusive
<1>6. \A c \in Ids : creation[c].pc # "commit" /\ creation[c].kind = "job"
  BY <1>2, <1>3
<1>7. HandsAreAlone /\ CommitsItsFiles
  BY <1>6 DEF HandsAreAlone, CommitsItsFiles
<1>8. ServersKeepTheirFiles
  BY <1>2 DEF ServersKeepTheirFiles
<1>9. QED  BY <1>a, <1>5, <1>7, <1>8 DEF FoldersInv

\* The records of the creations are what the service writes, whatever it interleaves.
THEOREM TypeCorrect == Spec => []TypeOK
<1>1. Init => Control
  BY InitControl
<1>2. Control /\ [Next]_vars => Control'
  BY ControlKept
<1>3. Control => TypeOK
  BY DEF Control
<1>4. QED  BY <1>1, <1>2, <1>3, PTL DEF Spec

\* Two creations under way or servers never have one folder unless one was
\* registered by hand, and a server keeps its files through the failures, the
\* cancellations and the deletions of others.
THEOREM FoldersAreKeptCorrect == Spec => []FoldersAreKept
<1>1. Init => FoldersInv
  BY InitFolders
<1>2. FoldersInv /\ [Next]_vars => FoldersInv'
  BY FoldersInvKept
<1>3. FoldersInv => FoldersAreKept
  BY DEF FoldersInv, FoldersAreKept
<1>4. QED  BY <1>1, <1>2, <1>3, PTL DEF Spec
-----------------------------------------------------------------------------
(***************************************************************************)
(* Ports and numbers of servers are only given twice to creations that     *)
(* were being placed at the same time.                                     *)
(***************************************************************************)
\* Two creations being placed have met.
PlacingMeet ==
    \A c, d \in Ids : /\ c # d /\ creation[c].pc \in Placing /\ creation[d].pc \in Placing
                      => {c, d} \in met

Clash(c, d) == creation[c].port = creation[d].port /\ creation[c].port # 0

\* The port of d is not that of c, and c has seen it if it is about to take one.
ApartFrom(c, d) ==
    c # d /\ d \in Holders /\ {c, d} \notin met /\ ~creation[c].chosen /\ ~creation[d].chosen =>
        /\ c \in Holders \/ creation[c].pc \in {"name", "admit"} => ~Clash(c, d)
        /\ creation[c].pc = "port" /\ d \in RunningJobs /\ creation[d].port # 0 =>
              creation[d].port \in creation[c].reserved

PortsApart == \A c, d \in Ids : ApartFrom(c, d)

Mine(u) == {c \in Holders : creation[c].owner = u}
Running(u) == {c \in RunningJobs : creation[c].owner = u}
Unmet(c, S) == {d \in S : d # c /\ {c, d} \notin met}

\* What c has not met was counted when it asked, and leaves it room once checked.
WithinQuota(c) ==
    creation[c].owner \in Accounts =>
        /\ creation[c].pc = "quota" =>
              Cardinality(Unmet(c, Running(creation[c].owner))) <= creation[c].pending
        /\ creation[c].pc \in Placing \ {"quota"} =>
              Cardinality(Unmet(c, Mine(creation[c].owner))) < MaxServers

AllWithinQuota == \A c \in Ids : WithinQuota(c)

\* The servers of an account that have not met are no more than its quota.
UnmetAreFew ==
    \A u \in Accounts : \A S \in SUBSET Mine(u) :
        (\A c, d \in S : c # d => {c, d} \notin met) => Cardinality(S) <= MaxServers

SharesInv == Control /\ PlacingMeet /\ PortsApart /\ AllWithinQuota /\ UnmetAreFew

\* A step after which nothing holds a port or a place that it did not hold.
HoldersCalm ==
    /\ met \subseteq met' /\ RunningJobs' \subseteq RunningJobs
    /\ \A c \in Holders' :
          \/ /\ c \in Holders /\ creation'[c].owner = creation[c].owner
             /\ creation'[c].port = creation[c].port /\ creation'[c].chosen = creation[c].chosen
          \/ creation'[c].owner = Admin /\ creation'[c].port = 0

\* A step that starts no placing, that reads no port, or that counts no server, for c.
StartsNothing(c) == creation'[c].pc \in Placing => creation[c].pc \in Placing

ReadsNoPort(c) ==
    /\ creation'[c].pc \in {"name", "admit"} =>
          /\ creation[c].pc \in {"name", "admit"}
          /\ creation'[c].port = creation[c].port /\ creation'[c].chosen = creation[c].chosen
    /\ creation'[c].pc = "port" =>
          /\ creation[c].pc = "port" /\ creation'[c].chosen = creation[c].chosen
          /\ creation'[c].reserved = creation[c].reserved

CountsNothing(c) ==
    /\ creation'[c].pc \in Placing => creation'[c].owner = creation[c].owner
    /\ creation'[c].pc = "quota" =>
          creation[c].pc = "quota" /\ creation'[c].pending = creation[c].pending
    /\ creation'[c].pc \in Placing \ {"quota"} => creation[c].pc \in Placing \ {"quota"}

Calm ==
    /\ HoldersCalm
    /\ \A c \in Ids : StartsNothing(c) /\ ReadsNoPort(c) /\ CountsNothing(c)

\* Creations being placed have met, as long as none starts to be.
LEMMA PlacingMeetKept ==
    ASSUME SharesInv, met \subseteq met', \A c \in Ids : StartsNothing(c)
    PROVE  PlacingMeet'
  BY DEF SharesInv, PlacingMeet, StartsNothing

\* Two creations have ports apart, as long as the first reads none.
LEMMA ApartKept ==
    ASSUME SharesInv, HoldersCalm, NEW c \in Ids, NEW d \in Ids, ReadsNoPort(c)
    PROVE  ApartFrom(c, d)'
<1> SUFFICES ASSUME c # d, d \in Holders', {c, d} \notin met',
                    ~creation'[c].chosen, ~creation'[d].chosen
             PROVE  /\ c \in Holders' \/ creation'[c].pc \in {"name", "admit"} =>
                          ~(creation'[c].port = creation'[d].port /\ creation'[c].port # 0)
                    /\ creation'[c].pc = "port" /\ d \in RunningJobs' /\ creation'[d].port # 0 =>
                          creation'[d].port \in creation'[c].reserved
  BY DEF ApartFrom, Clash
<1>1. ApartFrom(c, d)
  BY DEF SharesInv, PortsApart
<1>2. {c, d} \notin met
  BY DEF HoldersCalm
<1>3. \/ creation'[d].port = 0
      \/ /\ d \in Holders /\ creation'[d].port = creation[d].port
         /\ creation'[d].chosen = creation[d].chosen
  BY DEF HoldersCalm
<1>4. c \in Holders' =>
        \/ creation'[c].port = 0
        \/ /\ c \in Holders /\ creation'[c].port = creation[c].port
           /\ creation'[c].chosen = creation[c].chosen
  BY DEF HoldersCalm
<1>5. RunningJobs' \subseteq RunningJobs
  BY DEF HoldersCalm
<1>6. QED  BY <1>1, <1>2, <1>3, <1>4, <1>5 DEF ApartFrom, Clash, ReadsNoPort

\* What an account has, and what is under way for it, only shrinks.
LEMMA MineShrinks ==
    ASSUME HoldersCalm, TypeOK', NEW u \in Accounts
    PROVE  /\ {c \in Holders' : creation'[c].owner = u} \subseteq Mine(u)
           /\ {c \in RunningJobs' : creation'[c].owner = u} \subseteq Running(u)
<1>1. u # Admin
  BY ProvisioningAssumption
<1>2. RunningJobs' \subseteq Holders'
  BY DEF Holders
<1>3. QED  BY <1>1, <1>2 DEF HoldersCalm, Mine, Running

\* Sets of creations, and the sizes of their subsets.
LEMMA Smaller ==
    ASSUME NEW S \in SUBSET Ids, NEW T \in SUBSET S
    PROVE  Cardinality(T) <= Cardinality(S) /\ Cardinality(S) \in Nat /\ Cardinality(T) \in Nat
<1>1. IsFiniteSet(S) /\ T \in SUBSET Ids
  BY IdsFinite
<1>2. QED  BY <1>1, IdsFinite, FS_Subset

\* A creation is within the quota it has counted, as long as it counts none.
LEMMA WithinKept ==
    ASSUME SharesInv, TypeOK', HoldersCalm, NEW c \in Ids, CountsNothing(c)
    PROVE  WithinQuota(c)'
<1> DEFINE u == creation[c].owner
           Running1 == {d \in {e \in RunningJobs' : creation'[e].owner = u} : d # c /\ {c, d} \notin met'}
           Mine1 == {d \in {e \in Holders' : creation'[e].owner = u} : d # c /\ {c, d} \notin met'}
<1> SUFFICES ASSUME creation'[c].owner \in Accounts, creation'[c].pc \in Placing
             PROVE  /\ creation'[c].pc = "quota" => Cardinality(Running1) <= creation'[c].pending
                    /\ creation'[c].pc \in Placing \ {"quota"} => Cardinality(Mine1) < MaxServers
  BY DEF WithinQuota, Unmet, Running, Mine, CountsNothing, Placing
<1>1. u \in Accounts /\ creation[c].owner = creation'[c].owner
  BY DEF CountsNothing
<1>2. Running1 \subseteq Unmet(c, Running(u)) /\ Mine1 \subseteq Unmet(c, Mine(u))
  <2>1. /\ {e \in Holders' : creation'[e].owner = u} \subseteq Mine(u)
        /\ {e \in RunningJobs' : creation'[e].owner = u} \subseteq Running(u)
    BY <1>1, MineShrinks
  <2>2. met \subseteq met'
    BY DEF HoldersCalm
  <2>3. QED  BY <2>1, <2>2 DEF Unmet
<1>3. Unmet(c, Running(u)) \subseteq Ids /\ Unmet(c, Mine(u)) \subseteq Ids
  BY HoldersEngaged DEF Unmet, Running, Mine, RunningJobs, SharesInv
<1> HIDE DEF Running1, Mine1
<1>4. /\ Cardinality(Running1) <= Cardinality(Unmet(c, Running(u)))
      /\ Cardinality(Mine1) <= Cardinality(Unmet(c, Mine(u)))
      /\ Cardinality(Running1) \in Nat /\ Cardinality(Unmet(c, Running(u))) \in Nat
      /\ Cardinality(Mine1) \in Nat /\ Cardinality(Unmet(c, Mine(u))) \in Nat
  BY <1>2, <1>3, Smaller
<1>5. creation[c].pending \in Nat /\ MaxServers \in Nat
  BY ProvisioningAssumption DEF SharesInv, Control, TypeOK, Creation
<1>6. WithinQuota(c)
  BY DEF SharesInv, AllWithinQuota
<1>7. CASE creation'[c].pc = "quota"
  <2>1. creation[c].pc = "quota" /\ creation'[c].pending = creation[c].pending
    BY <1>7 DEF CountsNothing
  <2>2. Cardinality(Unmet(c, Running(u))) <= creation[c].pending
    BY <1>1, <1>6, <2>1 DEF WithinQuota
  <2>3. QED  BY <1>4, <1>5, <1>7, <2>1, <2>2
<1>8. CASE creation'[c].pc \in Placing \ {"quota"}
  <2>1. Cardinality(Unmet(c, Mine(u))) < MaxServers
    BY <1>1, <1>6, <1>8 DEF WithinQuota, CountsNothing
  <2>2. QED  BY <1>4, <1>5, <1>8, <2>1
<1>9. QED  BY <1>7, <1>8

\* Those that have not met are few, as long as no more hold a place.
LEMMA FewKept ==
    ASSUME SharesInv, TypeOK', HoldersCalm
    PROVE  UnmetAreFew'
<1> SUFFICES ASSUME NEW u \in Accounts,
                    NEW S \in SUBSET {c \in Holders' : creation'[c].owner = u},
                    \A c, d \in S : c # d => {c, d} \notin met'
             PROVE  Cardinality(S) <= MaxServers
  BY DEF UnmetAreFew, Mine
<1>1. S \subseteq Mine(u)
  BY MineShrinks
<1>2. \A c, d \in S : c # d => {c, d} \notin met
  BY DEF HoldersCalm
<1>3. QED  BY <1>1, <1>2 DEF SharesInv, UnmetAreFew

\* A calm step keeps the shares.
LEMMA CalmKept ==
    ASSUME SharesInv, Control', Calm
    PROVE  SharesInv'
<1>1. PlacingMeet'
  BY PlacingMeetKept DEF Calm, HoldersCalm
<1>2. PortsApart'
  BY ApartKept DEF Calm, PortsApart
<1>3. AllWithinQuota'
  BY WithinKept DEF Calm, AllWithinQuota, Control
<1>4. UnmetAreFew'
  BY FewKept DEF Calm, Control
<1>5. QED  BY <1>1, <1>2, <1>3, <1>4 DEF SharesInv

\* A step of one creation past its placing, or that only moves on in it.
LEMMA MoveIsCalm ==
    ASSUME Control, Control', NEW c \in Ids,
           \A d \in Ids \ {c} : creation'[d] = creation[d],
           creation'[c].owner = creation[c].owner, creation'[c].port = creation[c].port,
           creation'[c].chosen = creation[c].chosen,
           c \in RunningJobs' => c \in RunningJobs,
           creation'[c].pc \in Placing =>
              <<creation[c].pc, creation'[c].pc>> \in {<<"name", "admit">>, <<"folder", "home">>},
           rows' \subseteq rows \cup {c}, c \in rows' => c \in rows \/ creation[c].pc = "commit",
           UNCHANGED met
    PROVE  Calm
<1>1. RunningJobs' \subseteq RunningJobs
  BY DEF RunningJobs
<1>2. creation[c].pc = "commit" => c \in RunningJobs \/ (creation[c].owner = Admin /\ creation[c].port = 0)
  BY DEF Control, Complete, IsByHand, TypeOK, Creation, RunningJobs, Working, Registering
<1>3. Holders' \subseteq Ids
  BY HoldersEngaged DEF Control, TypeOK, Holders, RunningJobs
<1>4. HoldersCalm
  BY <1>1, <1>2, <1>3 DEF HoldersCalm, Holders
<1>5. ASSUME NEW d \in Ids
      PROVE  StartsNothing(d) /\ ReadsNoPort(d) /\ CountsNothing(d)
  <2>1. CASE d # c
    BY <2>1 DEF StartsNothing, ReadsNoPort, CountsNothing
  <2>2. CASE d = c
    BY <2>2 DEF StartsNothing, ReadsNoPort, CountsNothing, Placing
  <2>3. QED  BY <2>1, <2>2
<1>6. QED  BY <1>4, <1>5 DEF Calm

\* To go on to the next place is calm.
LEMMA ProceedIsCalm ==
    ASSUME Control, Control', NEW c \in Ids, NEW pc \in Places, Proceeds(c, pc),
           pc \in Working => creation[c].pc \in Working,
           pc \in Placing => pc = "admit" /\ creation[c].pc = "name",
           rows' \subseteq rows \cup {c}, c \in rows' => c \in rows \/ creation[c].pc = "commit",
           UNCHANGED met
    PROVE  Calm
<1>1. /\ creation'[c].pc = pc /\ Same(creation'[c], creation[c])
      /\ creation'[c].port = creation[c].port
      /\ \A d \in Ids \ {c} : creation'[d] = creation[d]
  BY ProceedEffect
<1>2. c \in RunningJobs' => c \in RunningJobs
  BY <1>1 DEF RunningJobs, Same
<1>3. QED  BY <1>1, <1>2, MoveIsCalm DEF Same

\* To give up a creation is calm.
LEMMA GivingUpIsCalm ==
    ASSUME Control, Control', NEW c \in Ids, GivesUp(c), creation[c].pc \in Working,
           rows' \subseteq rows, UNCHANGED met
    PROVE  Calm
<1>1. PICK pc \in {"undo", "refused"} : Proceeds(c, pc)
  BY DEF GivesUp
<1>2. pc \in Places /\ pc \notin Placing
  BY DEF Places, Placing, Working
<1>3. QED  BY <1>1, <1>2, ProceedIsCalm

\* The steps that share nothing out.
LEMMA CalmSteps ==
    ASSUME Control, Control', NEW c \in Ids,
           \/ \E name \in Names, folder \in Folders : RegistersByHand(c, name, folder)
           \/ ChoosesFolder(c) \/ ChecksName(c)
           \/ Begins(c) \/ Prepares(c)
           \/ ChecksNameAgain(c) \/ ChecksFolderAgain(c) \/ PicksSlug(c)
           \/ Inserts(c) \/ Commits(c) \/ Finishes(c) \/ Undoes(c)
           \/ PlansDeletion(c) \/ ErasesFiles(c) \/ CommitsDeletion(c)
    PROVE  Calm
<1> USE DEF stored
<1>a. TypeOK /\ TypeOK'
  BY DEF Control
<1>1. ASSUME NEW name \in Names, NEW folder \in Folders, RegistersByHand(c, name, folder)
      PROVE  Calm
  <2>1. /\ creation[c].pc = "none" /\ \A d \in Ids \ {c} : creation'[d] = creation[d]
        /\ creation'[c].pc = "name again" /\ creation'[c].kind = "hand"
        /\ UNCHANGED <<rows, met>>
    BY <1>1, <1>a DEF RegistersByHand, TypeOK, Fresh
  <2>2. \A d \in RunningJobs' : d # c /\ d \in RunningJobs
    BY <2>1 DEF RunningJobs
  <2>3. c \notin rows /\ rows \subseteq Ids
    BY <2>1, <1>a DEF Control, Settles, TypeOK
  <2>4. HoldersCalm
    BY <2>1, <2>2, <2>3 DEF HoldersCalm, Holders, RunningJobs
  <2>5. QED
    BY <2>1, <2>4 DEF Calm, StartsNothing, ReadsNoPort, CountsNothing, Placing
<1>2. CASE ChoosesFolder(c)
  <2>1. /\ \A d \in Ids \ {c} : creation'[d] = creation[d]
        /\ creation[c].pc = "folder" /\ creation'[c].pc = "home"
        /\ Same(creation'[c], creation[c]) /\ creation'[c].port = creation[c].port
        /\ UNCHANGED <<rows, met>>
    BY <1>2, <1>a, ChoosesFolderEffect
  <2>2. c \notin RunningJobs'
    BY <2>1 DEF RunningJobs, Working, Preparing, Registering
  <2>3. QED  BY <2>1, <2>2, MoveIsCalm DEF Same
<1>3. CASE ChecksName(c)
  <2>1. PICK pc \in {"refused", "admit"} : Proceeds(c, pc)
    BY <1>3 DEF ChecksName
  <2>2. creation[c].pc = "name" /\ UNCHANGED <<rows, met>>
    BY <1>3 DEF ChecksName
  <2>3. QED
    BY <2>1, <2>2, ProceedIsCalm DEF Places, Placing, Working, Preparing, Registering
<1>4. CASE Begins(c)
  <2>1. PICK pc \in {"download", "undo"}, created \in BOOLEAN :
           creation' = [creation EXCEPT ![c] = [creation[c] EXCEPT !.pc = pc, !.created = created]]
    BY <1>4 DEF Begins
  <2>2. /\ creation'[c] = [creation[c] EXCEPT !.pc = pc, !.created = created]
        /\ \A d \in Ids \ {c} : creation'[d] = creation[d]
        /\ creation[c] \in Creation
    BY <2>1, <1>a DEF TypeOK
  <2>3. Same(creation'[c], creation[c]) /\ creation'[c].port = creation[c].port /\ creation'[c].pc = pc
    BY <2>2 DEF Creation, Same
  <2>4. creation[c].pc = "begin" /\ UNCHANGED <<rows, met>>
    BY <1>4 DEF Begins
  <2>5. c \in RunningJobs' => c \in RunningJobs
    BY <2>3, <2>4 DEF RunningJobs, Same, Working, Preparing
  <2>6. pc \notin Placing
    BY DEF Placing
  <2>7. QED  BY <2>2, <2>3, <2>4, <2>5, <2>6, MoveIsCalm DEF Same
<1>5. CASE Prepares(c)
  <2>1. PICK pc \in {"install", "name again", "undo"} : Proceeds(c, pc)
    BY <1>5 DEF Prepares
  <2>2. creation[c].pc \in Working /\ UNCHANGED <<rows, met>>
    BY <1>5 DEF Prepares, Working, Preparing
  <2>3. QED
    BY <2>1, <2>2, ProceedIsCalm DEF Places, Placing, Working, Preparing, Registering
<1>6. CASE ChecksNameAgain(c) \/ ChecksFolderAgain(c)
  <2>1. /\ creation[c].pc \in {"name again", "folder again"} /\ UNCHANGED <<rows, met>>
        /\ GivesUp(c) \/ \E pc \in {"folder again", "slug"} : Proceeds(c, pc)
    BY <1>6 DEF ChecksNameAgain, ChecksFolderAgain
  <2>2. creation[c].pc \in Working
    BY <2>1 DEF Working, Registering
  <2>3. CASE GivesUp(c)
    BY <2>1, <2>2, <2>3, GivingUpIsCalm
  <2>4. ASSUME NEW pc \in {"folder again", "slug"}, Proceeds(c, pc) PROVE Calm
    BY <2>1, <2>2, <2>4, ProceedIsCalm DEF Places, Placing, Working, Registering
  <2>5. QED  BY <2>1, <2>3, <2>4
<1>7. CASE PicksSlug(c)
  <2>1. PICK slug : creation' = [creation EXCEPT ![c] =
                                    [creation[c] EXCEPT !.pc = "flush", !.slug = slug]]
    BY <1>7 DEF PicksSlug
  <2>2. /\ creation'[c] = [creation[c] EXCEPT !.pc = "flush", !.slug = slug]
        /\ \A d \in Ids \ {c} : creation'[d] = creation[d]
        /\ creation[c] \in Creation
    BY <2>1, <1>a DEF TypeOK
  <2>3. /\ Same(creation'[c], creation[c]) /\ creation'[c].port = creation[c].port
        /\ creation'[c].pc = "flush"
    BY <2>2 DEF Creation, Same
  <2>4. creation[c].pc = "slug" /\ UNCHANGED <<rows, met>>
    BY <1>7 DEF PicksSlug
  <2>5. c \in RunningJobs' => c \in RunningJobs
    BY <2>3, <2>4 DEF RunningJobs, Same, Working, Registering
  <2>6. creation'[c].pc \notin Placing
    BY <2>3 DEF Placing
  <2>7. QED  BY <2>2, <2>3, <2>4, <2>5, <2>6, MoveIsCalm DEF Same
<1>8. CASE Inserts(c) \/ Commits(c)
  <2>1. /\ creation[c].pc \in {"flush", "commit"} /\ UNCHANGED met
        /\ \/ GivesUp(c) /\ UNCHANGED rows
           \/ /\ \E pc \in {"commit", "start", "done"} : Proceeds(c, pc)
              /\ rows' \in {rows, rows \cup {c}} /\ (c \in rows' => c \in rows \/ creation[c].pc = "commit")
    BY <1>8 DEF Inserts, Commits
  <2>2. creation[c].pc \in Working
    BY <2>1 DEF Working, Registering
  <2>3. CASE GivesUp(c) /\ UNCHANGED rows
    BY <2>1, <2>2, <2>3, GivingUpIsCalm
  <2>4. ASSUME NEW pc \in {"commit", "start", "done"}, Proceeds(c, pc),
               rows' \in {rows, rows \cup {c}}, c \in rows' => c \in rows \/ creation[c].pc = "commit"
        PROVE  Calm
    BY <2>1, <2>2, <2>4, ProceedIsCalm DEF Places, Placing, Working, Registering
  <2>5. QED  BY <2>1, <2>3, <2>4
<1>9. CASE Finishes(c) \/ Undoes(c)
  <2>1. /\ \E pc \in {"done", "failed"} : Proceeds(c, pc)
        /\ UNCHANGED <<rows, met>>
    BY <1>9 DEF Finishes, Undoes
  <2>2. QED
    BY <2>1, ProceedIsCalm DEF Places, Placing, Working, Preparing, Registering
<1>10. CASE PlansDeletion(c) \/ ErasesFiles(c) \/ CommitsDeletion(c)
  <2>1. creation' = creation /\ rows' \subseteq rows /\ met' = met
    BY <1>10 DEF PlansDeletion, ErasesFiles, CommitsDeletion
  <2>2. QED
    BY <2>1 DEF Calm, HoldersCalm, Holders, RunningJobs, StartsNothing, ReadsNoPort, CountsNothing
<1>11. QED
  BY <1>1, <1>2, <1>3, <1>4, <1>5, <1>6, <1>7, <1>8, <1>9, <1>10

\* A stop places nothing, and leaves at most the server whose commit went through.
LEMMA MsmStopsCalm ==
    ASSUME Control, Control', NEW clean \in BOOLEAN, NEW committed \in BOOLEAN,
           MsmStops(clean, committed)
    PROVE  Calm
<1>1. ASSUME NEW c \in Ids
      PROVE  /\ creation'[c].pc \notin Placing \cup Working
             /\ creation'[c].owner = creation[c].owner /\ creation'[c].port = creation[c].port
             /\ creation'[c].chosen = creation[c].chosen
  <2>1. CASE creation[c].pc \in Placing \cup Working
    BY <2>1, MsmStopsEffect DEF Same, Placing, Working, Preparing, Registering
  <2>2. CASE creation[c].pc \notin Placing \cup Working
    BY <2>2, MsmStopsEffect
  <2>3. QED  BY <2>1, <2>2
<1>2. met' = met /\ rows' \subseteq rows \cup {writer} /\ rows' \subseteq Ids
  <2>1. met' = met /\ rows' \subseteq rows \cup {writer}
    BY Zenon DEF MsmStops
  <2>2. QED  BY <2>1 DEF Control, TypeOK
<1>3. writer \in Ids => writer \in RunningJobs \/ (creation[writer].owner = Admin /\ creation[writer].port = 0)
  <2> SUFFICES ASSUME writer \in Ids
               PROVE  writer \in RunningJobs \/ (creation[writer].owner = Admin /\ creation[writer].port = 0)
    OBVIOUS
  <2>1. creation[writer].pc = "commit" /\ creation[writer].kind \in {"job", "hand"}
    BY DEF Control, Settles, TypeOK, Creation
  <2>2. CASE creation[writer].kind = "job"
    BY <2>1, <2>2 DEF RunningJobs, Working, Registering
  <2>3. CASE creation[writer].kind = "hand"
    BY <2>3 DEF Control, Complete, IsByHand
  <2>4. QED  BY <2>1, <2>2, <2>3
<1>4. RunningJobs' = {}
  BY <1>1 DEF RunningJobs
<1>5. HoldersCalm
  BY <1>1, <1>2, <1>3, <1>4 DEF HoldersCalm, Holders
<1>6. QED  BY <1>1, <1>5 DEF Calm, StartsNothing, ReadsNoPort, CountsNothing, Placing

\* A request that arrives counts what is under way for its account, and meets what
\* is being placed.
LEMMA CreateShares ==
    ASSUME SharesInv, Control', NEW c \in Ids, Create(c)
    PROVE  SharesInv'
<1> USE DEF stored
<1>a. Control /\ TypeOK /\ TypeOK'
  BY DEF SharesInv, Control
<1>1. /\ \A d \in Ids \ {c} : creation'[d] = creation[d]
      /\ creation[c].pc = "none" /\ creation'[c].pc = "quota"
      /\ creation'[c].owner \in Owners
      /\ creation'[c].pending = PendingOf(creation'[c].owner)
      /\ met' = met \cup {{c, d} : d \in {e \in Ids : creation[e].pc \in Placing}}
      /\ UNCHANGED rows
  BY <1>a, AsksEffect
<1>2. \A d \in RunningJobs' : d # c /\ d \in RunningJobs /\ creation'[d] = creation[d]
  BY <1>1 DEF RunningJobs, Working, Preparing, Registering
<1>3. c \notin rows /\ rows \subseteq Ids
  BY <1>1, <1>a DEF Control, Settles, TypeOK
<1>4. HoldersCalm
  BY <1>1, <1>2, <1>3 DEF HoldersCalm, Holders
<1>5. PlacingMeet'
  <2> SUFFICES ASSUME NEW d \in Ids, NEW e \in Ids, d # e,
                      creation'[d].pc \in Placing, creation'[e].pc \in Placing
               PROVE  {d, e} \in met'
    BY DEF PlacingMeet
  <2>1. CASE d # c /\ e # c
    BY <2>1, <1>1 DEF SharesInv, PlacingMeet
  <2>2. CASE d = c
    BY <2>2, <1>1
  <2>3. CASE e = c
    <3>1. {c, d} \in met'
      BY <2>3, <1>1
    <3>2. {c, d} = {d, e}
      BY <2>3
    <3>3. QED  BY <3>1, <3>2
  <2>4. QED  BY <2>1, <2>2, <2>3
<1>6. \A d \in Ids : ReadsNoPort(d)
  BY <1>1 DEF ReadsNoPort
<1>7. PortsApart'
  BY <1>4, <1>6, ApartKept DEF PortsApart
<1>8. ASSUME NEW d \in Ids PROVE WithinQuota(d)'
  <2>1. CASE d # c
    BY <2>1, <1>1, <1>4, <1>a, WithinKept DEF CountsNothing
  <2>2. CASE d = c
    <3> DEFINE u == creation'[c].owner
               Running1 == {e \in RunningJobs' : creation'[e].owner = u}
               Unmet1 == {e \in Running1 : e # c /\ {c, e} \notin met'}
    <3>1. Running1 \subseteq {e \in RunningJobs : creation[e].owner = u}
      BY <1>2
    <3>2. Unmet1 \subseteq {e \in RunningJobs : creation[e].owner = u}
      BY <3>1
    <3>3. {e \in RunningJobs : creation[e].owner = u} \subseteq Ids
      BY DEF RunningJobs
    <3> HIDE DEF Running1
    <3>4. Cardinality(Unmet1) <= creation'[c].pending
      <4> DEFINE All == {e \in RunningJobs : creation[e].owner = u}
      <4>1. creation'[c].pending = Cardinality(All)
        BY <1>1 DEF PendingOf
      <4> HIDE DEF Unmet1, All
      <4>2. Unmet1 \subseteq All /\ All \subseteq Ids
        BY <3>2, <3>3 DEF All
      <4>3. QED  BY <4>1, <4>2, Smaller
    <3>5. QED  BY <2>2, <3>4, <1>1 DEF WithinQuota, Unmet, Running, Running1
  <2>3. QED  BY <2>1, <2>2
<1>9. UnmetAreFew'
  BY <1>4, <1>a, FewKept
<1>10. QED  BY <1>5, <1>7, <1>8, <1>9 DEF SharesInv, AllWithinQuota

\* What passes the check leaves room for itself among what it has not met.
LEMMA QuotaShares ==
    ASSUME SharesInv, Control', NEW c \in Ids, ChecksQuota(c)
    PROVE  SharesInv'
<1> USE DEF stored
<1>a. Control /\ TypeOK /\ TypeOK'
  BY DEF SharesInv, Control
<1>1. /\ \A d \in Ids \ {c} : creation'[d] = creation[d]
      /\ creation[c].pc = "quota" /\ creation'[c].pc \in {"refused", "folder"}
      /\ creation'[c].owner = creation[c].owner
      /\ creation'[c].pc = "folder" /\ creation[c].owner # Admin =>
            Cardinality(OwnedBy(creation[c].owner)) + creation[c].pending < MaxServers
      /\ UNCHANGED <<met, rows>>
  BY <1>a, ChecksQuotaEffect DEF Same
<1>2. c \notin RunningJobs /\ c \notin RunningJobs' /\ c \notin rows /\ rows \subseteq Ids
  BY <1>1, <1>a DEF RunningJobs, Working, Preparing, Registering, Control, Settles, TypeOK
<1>3. RunningJobs' = RunningJobs
  BY <1>1, <1>2 DEF RunningJobs
<1>4. HoldersCalm
  BY <1>1, <1>2, <1>3 DEF HoldersCalm, Holders, RunningJobs
<1>5. PlacingMeet'
  BY <1>1, PlacingMeetKept DEF StartsNothing, Placing
<1>6. PortsApart'
  BY <1>1, <1>4, ApartKept DEF PortsApart, ReadsNoPort
<1>7. ASSUME NEW d \in Ids PROVE WithinQuota(d)'
  <2>1. CASE d # c
    BY <2>1, <1>1, <1>4, <1>a, WithinKept DEF CountsNothing
  <2>2. CASE d = c
    <3> DEFINE u == creation[c].owner
               Mine1 == {e \in Holders' : creation'[e].owner = u}
               Unmet1 == {e \in Mine1 : e # c /\ {c, e} \notin met'}
               Owned == OwnedBy(u)
               Seen == Unmet(c, Running(u))
    <3> SUFFICES ASSUME u \in Accounts, creation'[c].pc = "folder"
                 PROVE  Cardinality(Unmet1) < MaxServers
      BY <2>2, <1>1 DEF WithinQuota, Unmet, Mine, Running, Placing
    <3>1. Unmet1 \subseteq Owned \cup Seen
      BY <1>1, <1>2, <1>3 DEF Holders, OwnedBy, Unmet, Running, RunningJobs
    <3>2. Owned \subseteq Ids /\ Seen \subseteq Ids
      BY <1>2 DEF OwnedBy, Unmet, Running, RunningJobs
    <3>3. Cardinality(Owned) + creation[c].pending < MaxServers
      BY <1>1, ProvisioningAssumption
    <3>4. Cardinality(Seen) <= creation[c].pending
      BY <1>1 DEF SharesInv, AllWithinQuota, WithinQuota
    <3> HIDE DEF Unmet1, Owned, Seen
    <3>5. Cardinality(Unmet1) <= Cardinality(Owned \cup Seen)
      BY <3>1, <3>2, Smaller
    <3>6. Cardinality(Owned \cup Seen) <= Cardinality(Owned) + Cardinality(Seen)
      <4>1. IsFiniteSet(Owned) /\ IsFiniteSet(Seen)
        BY <3>2, IdsFinite
      <4>2. Cardinality(Owned \cup Seen) =
               Cardinality(Owned) + Cardinality(Seen) - Cardinality(Owned \cap Seen)
        BY <4>1, FS_Union
      <4>3. Cardinality(Owned \cap Seen) \in Nat /\ Cardinality(Owned) \in Nat /\ Cardinality(Seen) \in Nat
        BY <3>2, IdsFinite
      <4>4. QED  BY <4>2, <4>3
    <3>7. /\ Cardinality(Unmet1) \in Nat /\ Cardinality(Owned \cup Seen) \in Nat
          /\ Cardinality(Owned) \in Nat /\ Cardinality(Seen) \in Nat
      BY <3>1, <3>2, IdsFinite
    <3>8. creation[c].pending \in Nat /\ MaxServers \in Nat
      BY <1>a, ProvisioningAssumption DEF TypeOK, Creation
    <3>9. QED  BY <3>3, <3>4, <3>5, <3>6, <3>7, <3>8
  <2>3. QED  BY <2>1, <2>2
<1>8. UnmetAreFew'
  BY <1>4, <1>a, FewKept
<1>9. QED  BY <1>5, <1>6, <1>7, <1>8 DEF SharesInv, AllWithinQuota

\* What a creation reads of the ports has those it has not met.
LEMMA HomeShares ==
    ASSUME SharesInv, Control', NEW c \in Ids, EntersHome(c)
    PROVE  SharesInv'
<1> USE DEF stored
<1>a. Control /\ TypeOK /\ TypeOK'
  BY DEF SharesInv, Control
<1>1. /\ \A d \in Ids \ {c} : creation'[d] = creation[d]
      /\ creation[c].pc = "home" /\ creation'[c].pc = "port"
      /\ creation'[c].owner = creation[c].owner /\ creation'[c].reserved = ReservedPorts
      /\ UNCHANGED <<met, rows>>
  BY <1>a, EntersHomeEffect DEF Same
<1>2. c \notin RunningJobs /\ c \notin RunningJobs' /\ c \notin rows /\ rows \subseteq Ids
  BY <1>1, <1>a DEF RunningJobs, Working, Preparing, Registering, Control, Settles, TypeOK
<1>3. RunningJobs' = RunningJobs
  BY <1>1, <1>2 DEF RunningJobs
<1>4. HoldersCalm
  BY <1>1, <1>2, <1>3 DEF HoldersCalm, Holders, RunningJobs
<1>5. PlacingMeet'
  BY <1>1, PlacingMeetKept DEF StartsNothing, Placing
<1>6. ASSUME NEW d \in Ids, NEW e \in Ids PROVE ApartFrom(d, e)'
  <2>1. CASE d # c
    BY <2>1, <1>1, <1>4, ApartKept DEF ReadsNoPort
  <2>2. CASE d = c
    <3>1. c \notin Holders'
      BY <1>1, <1>2 DEF Holders
    <3>2. e \in RunningJobs' /\ creation'[e].port # 0 => creation'[e].port \in ReservedPorts
      BY <1>1, <1>2, <1>3 DEF ReservedPorts, RunningJobs
    <3>3. QED  BY <2>2, <3>1, <3>2, <1>1 DEF ApartFrom, Clash
  <2>3. QED  BY <2>1, <2>2
<1>7. ASSUME NEW d \in Ids PROVE WithinQuota(d)'
  BY <1>1, <1>4, <1>a, WithinKept DEF CountsNothing, Placing
<1>8. UnmetAreFew'
  BY <1>4, <1>a, FewKept
<1>9. QED  BY <1>5, <1>6, <1>7, <1>8 DEF SharesInv, PortsApart, AllWithinQuota

\* The port a creation takes is that of nothing it has not met.
LEMMA PortShares ==
    ASSUME SharesInv, Control', NEW c \in Ids, AllocatesPort(c)
    PROVE  SharesInv'
<1> USE DEF stored
<1>a. Control /\ TypeOK /\ TypeOK'
  BY DEF SharesInv, Control
<1>1. /\ \A d \in Ids \ {c} : creation'[d] = creation[d]
      /\ creation[c].pc = "port" /\ creation'[c].pc \in {"refused", "name"}
      /\ creation'[c].owner = creation[c].owner /\ creation'[c].chosen = creation[c].chosen
      /\ creation'[c].pc = "name" /\ ~creation[c].chosen =>
            /\ creation'[c].port # 0 /\ creation'[c].port \notin creation[c].reserved
            /\ \A r \in rows : creation'[c].port # creation[r].port
      /\ UNCHANGED <<met, rows>>
  BY <1>a, AllocatesPortEffect DEF Same
<1>2. c \notin RunningJobs /\ c \notin RunningJobs' /\ c \notin rows /\ rows \subseteq Ids
  BY <1>1, <1>a DEF RunningJobs, Working, Preparing, Registering, Control, Settles, TypeOK
<1>3. RunningJobs' = RunningJobs
  BY <1>1, <1>2 DEF RunningJobs
<1>4. HoldersCalm
  BY <1>1, <1>2, <1>3 DEF HoldersCalm, Holders, RunningJobs
<1>5. PlacingMeet'
  BY <1>1, PlacingMeetKept DEF StartsNothing, Placing
<1>6. ASSUME NEW d \in Ids, NEW e \in Ids PROVE ApartFrom(d, e)'
  <2>1. CASE d # c
    BY <2>1, <1>1, <1>4, ApartKept DEF ReadsNoPort
  <2>2. CASE d = c
    <3> SUFFICES ASSUME e # c, e \in Holders', {c, e} \notin met', ~creation'[c].chosen,
                        ~creation'[e].chosen, creation'[c].pc = "name"
                 PROVE  ~(creation'[c].port = creation'[e].port /\ creation'[c].port # 0)
      BY <2>2, <1>1, <1>2 DEF ApartFrom, Clash, Holders
    <3>1. creation'[e] = creation[e] /\ e \in Holders /\ {c, e} \notin met /\ ~creation[c].chosen
      BY <1>1, <1>3 DEF Holders
    <3>2. CASE e \in rows
      BY <3>1, <3>2, <1>1
    <3>3. CASE e \in RunningJobs
      <4>1. creation[e].port # 0 => creation[e].port \in creation[c].reserved
        BY <3>1, <3>3, <1>1 DEF SharesInv, PortsApart, ApartFrom
      <4>2. QED  BY <4>1, <3>1, <1>1
    <3>4. QED  BY <3>1, <3>2, <3>3 DEF Holders
  <2>3. QED  BY <2>1, <2>2
<1>7. ASSUME NEW d \in Ids PROVE WithinQuota(d)'
  BY <1>1, <1>4, <1>a, WithinKept DEF CountsNothing, Placing
<1>8. UnmetAreFew'
  BY <1>4, <1>a, FewKept
<1>9. QED  BY <1>5, <1>6, <1>7, <1>8 DEF SharesInv, PortsApart, AllWithinQuota

\* A task that starts has a port and a place of its own among what it has not met.
LEMMA AdmitShares ==
    ASSUME SharesInv, Control', NEW c \in Ids, Admits(c)
    PROVE  SharesInv'
<1> USE DEF stored
<1>a. Control /\ TypeOK /\ TypeOK'
  BY DEF SharesInv, Control
<1>b. creation[c].pc = "admit" /\ UNCHANGED <<met, rows>>
  BY DEF Admits
<1>1. CASE Proceeds(c, "refused")
  <2>1. Calm
    BY <1>1, <1>a, <1>b, ProceedIsCalm DEF Places, Placing, Working, Preparing, Registering
  <2>2. QED  BY <2>1, CalmKept
<1>2. CASE Proceeds(c, "begin")
  <2>1. /\ creation'[c].pc = "begin" /\ Same(creation'[c], creation[c])
        /\ creation'[c].port = creation[c].port
        /\ \A d \in Ids \ {c} : creation'[d] = creation[d]
    BY <1>2, <1>a, ProceedEffect DEF Places, Working, Preparing
  <2>2. c \notin Holders /\ rows \subseteq Ids /\ Holders \subseteq Ids
    BY <1>a, <1>b, HoldersEngaged DEF Holders, RunningJobs, Working, Preparing, Registering,
                                      Control, Settles, TypeOK
  <2>3. \A d \in Holders' : d \in Holders \/ d = c
    BY <2>1, <1>b DEF Holders, RunningJobs
  <2>4. \A d \in RunningJobs' : d \in RunningJobs \/ d = c
    BY <2>1 DEF RunningJobs
  <2>5. \A d \in Ids : /\ creation'[d].owner = creation[d].owner
                       /\ creation'[d].port = creation[d].port
                       /\ creation'[d].chosen = creation[d].chosen
    BY <2>1 DEF Same
  <2>6. PlacingMeet'
    BY <2>1, <1>b, PlacingMeetKept DEF StartsNothing, Placing, Working
  <2>7. \A d \in Ids \ {c} : creation'[d].pc \in Placing => {c, d} \in met
    BY <2>1, <1>b DEF SharesInv, PlacingMeet, Placing
  <2>8. ASSUME NEW d \in Ids, NEW e \in Ids PROVE ApartFrom(d, e)'
    <3> SUFFICES ASSUME d # e, e \in Holders', {d, e} \notin met,
                        ~creation[d].chosen, ~creation[e].chosen
                 PROVE  /\ d \in Holders' \/ creation'[d].pc \in {"name", "admit"} => ~Clash(d, e)
                        /\ creation'[d].pc = "port" /\ e \in RunningJobs' /\ creation'[e].port # 0 =>
                              creation'[e].port \in creation'[d].reserved
      BY <1>b, <2>5 DEF ApartFrom, Clash
    <3>0. {e, d} = {d, e}
      OBVIOUS
    <3>1. CASE e = c
      <4>1. creation'[d].pc \notin Placing
        BY <3>0, <3>1, <2>7
      <4>2. d \in Holders' => d \in Holders
        BY <3>1, <2>3
      <4>3. d \in Holders => ~Clash(e, d)
        BY <3>0, <3>1, <1>b DEF SharesInv, PortsApart, ApartFrom
      <4>4. QED  BY <4>1, <4>2, <4>3 DEF Clash, Placing
    <3>2. CASE e # c
      <4>1. e \in Holders
        BY <3>2, <2>3
      <4>2. ApartFrom(d, e)
        BY DEF SharesInv, PortsApart
      <4>3. CASE d = c
        <5>1. ~Clash(d, e)
          BY <4>1, <4>2, <4>3, <1>b DEF ApartFrom
        <5>2. QED  BY <4>3, <5>1, <2>1
      <4>4. CASE d # c
        BY <4>1, <4>2, <4>4, <3>2, <2>1, <2>3, <2>4 DEF ApartFrom
      <4>5. QED  BY <4>3, <4>4
    <3>3. QED  BY <3>1, <3>2
  <2>9. ASSUME NEW d \in Ids PROVE WithinQuota(d)'
    <3> DEFINE u == creation[d].owner
               Mine1 == {e \in Holders' : creation'[e].owner = u}
               Running1 == {e \in RunningJobs' : creation'[e].owner = u}
               UnmetMine == {e \in Mine1 : e # d /\ {d, e} \notin met'}
               UnmetRunning == {e \in Running1 : e # d /\ {d, e} \notin met'}
    <3> SUFFICES ASSUME u \in Accounts, creation'[d].pc \in Placing
                 PROVE  /\ creation'[d].pc = "quota" => Cardinality(UnmetRunning) <= creation'[d].pending
                        /\ creation'[d].pc \in Placing \ {"quota"} => Cardinality(UnmetMine) < MaxServers
      BY <2>5 DEF WithinQuota, Unmet, Mine, Running, Placing
    <3>1. d # c /\ creation'[d] = creation[d]
      BY <2>1 DEF Placing
    <3>2. {d, c} \in met
      <4>1. {c, d} \in met /\ {c, d} = {d, c}
        BY <3>1, <2>7
      <4>2. QED  BY <4>1
    <3>3. UnmetMine \subseteq Unmet(d, Mine(u)) /\ UnmetRunning \subseteq Unmet(d, Running(u))
      BY <3>2, <1>b, <2>3, <2>4, <2>5, <2>2 DEF Unmet, Mine, Running, RunningJobs
    <3>4. Unmet(d, Mine(u)) \subseteq Ids /\ Unmet(d, Running(u)) \subseteq Ids
      BY <2>2 DEF Unmet, Mine, Running, RunningJobs
    <3> HIDE DEF UnmetMine, UnmetRunning
    <3>5. /\ Cardinality(UnmetRunning) <= Cardinality(Unmet(d, Running(u)))
          /\ Cardinality(UnmetMine) <= Cardinality(Unmet(d, Mine(u)))
          /\ Cardinality(UnmetRunning) \in Nat /\ Cardinality(Unmet(d, Running(u))) \in Nat
          /\ Cardinality(UnmetMine) \in Nat /\ Cardinality(Unmet(d, Mine(u))) \in Nat
      BY <3>3, <3>4, Smaller
    <3>6. creation[d].pending \in Nat /\ MaxServers \in Nat
      BY <1>a, ProvisioningAssumption DEF TypeOK, Creation
    <3>7. WithinQuota(d)
      BY DEF SharesInv, AllWithinQuota
    <3>8. CASE creation[d].pc = "quota"
      <4>1. Cardinality(Unmet(d, Running(u))) <= creation[d].pending
        BY <3>7, <3>8 DEF WithinQuota
      <4>2. QED  BY <4>1, <3>1, <3>5, <3>6, <3>8
    <3>9. CASE creation[d].pc \in Placing \ {"quota"}
      <4>1. Cardinality(Unmet(d, Mine(u))) < MaxServers
        BY <3>7, <3>9 DEF WithinQuota
      <4>2. QED  BY <4>1, <3>1, <3>5, <3>6, <3>9
    <3>10. QED  BY <3>1, <3>8, <3>9
  <2>10. UnmetAreFew'
    <3> SUFFICES ASSUME NEW u \in Accounts,
                        NEW S \in SUBSET {e \in Holders' : creation'[e].owner = u},
                        \A d, e \in S : d # e => {d, e} \notin met'
                 PROVE  Cardinality(S) <= MaxServers
      BY DEF UnmetAreFew, Mine
    <3>1. S \ {c} \subseteq Mine(u)
      BY <2>2, <2>3, <2>5 DEF Mine
    <3>2. S \ {c} \subseteq Ids /\ Mine(u) \subseteq Ids
      BY <3>1, <2>2 DEF Mine
    <3>3. CASE c \notin S
      <4>1. S \in SUBSET Mine(u)
        BY <3>1, <3>3
      <4>2. QED  BY <4>1, <1>b DEF SharesInv, UnmetAreFew
    <3>4. CASE c \in S
      <4>1. S \ {c} \subseteq Unmet(c, Mine(u))
        BY <3>1, <3>4, <1>b DEF Unmet
      <4>2. creation[c].owner = u
        BY <3>4, <2>5
      <4>3. Cardinality(Unmet(c, Mine(u))) < MaxServers
        BY <4>2, <1>b DEF SharesInv, AllWithinQuota, WithinQuota, Placing
      <4>4. Unmet(c, Mine(u)) \subseteq Ids
        BY <3>2 DEF Unmet
      <4>5. /\ Cardinality(S \ {c}) <= Cardinality(Unmet(c, Mine(u)))
            /\ Cardinality(S \ {c}) \in Nat /\ Cardinality(Unmet(c, Mine(u))) \in Nat
        BY <4>1, <4>4, Smaller
      <4>6. S \subseteq Ids
        BY <3>2, <3>4
      <4>7. Cardinality(S \ {c}) = Cardinality(S) - 1 /\ Cardinality(S) \in Nat
        BY <3>4, <4>6, IdsFinite, FS_RemoveElement
      <4>8. QED  BY <4>3, <4>5, <4>7, ProvisioningAssumption
    <3>5. QED  BY <3>3, <3>4
  <2>11. QED  BY <2>6, <2>8, <2>9, <2>10 DEF SharesInv, PortsApart, AllWithinQuota
<1>3. QED  BY <1>1, <1>2 DEF Admits

\* Every step keeps the shares.
LEMMA SharesInvKept ==
    ASSUME SharesInv, [Next]_vars
    PROVE  SharesInv'
<1>a. Control
  BY DEF SharesInv
<1>b. Control'
  BY <1>a, ControlKept
<1>1. CASE UNCHANGED vars
  <2>1. Calm
    BY <1>1 DEF vars, Calm, HoldersCalm, Holders, RunningJobs, StartsNothing, ReadsNoPort, CountsNothing
  <2>2. QED  BY <1>b, <2>1, CalmKept
<1>2. ASSUME NEW c \in Ids,
             \/ \E name \in Names, folder \in Folders : RegistersByHand(c, name, folder)
             \/ ChoosesFolder(c) \/ ChecksName(c)
             \/ Begins(c) \/ Prepares(c)
             \/ ChecksNameAgain(c) \/ ChecksFolderAgain(c) \/ PicksSlug(c)
             \/ Inserts(c) \/ Commits(c) \/ Finishes(c) \/ Undoes(c)
             \/ PlansDeletion(c) \/ ErasesFiles(c) \/ CommitsDeletion(c)
      PROVE  SharesInv'
  BY <1>a, <1>b, <1>2, CalmSteps, CalmKept
<1>3. ASSUME NEW c \in Ids,
             Create(c) \/ ChecksQuota(c) \/ EntersHome(c) \/ AllocatesPort(c) \/ Admits(c)
      PROVE  SharesInv'
  BY <1>b, <1>3, CreateShares, QuotaShares, HomeShares, PortShares, AdmitShares
<1>4. ASSUME NEW clean \in BOOLEAN, NEW committed \in BOOLEAN, MsmStops(clean, committed)
      PROVE  SharesInv'
  BY <1>a, <1>b, <1>4, MsmStopsCalm, CalmKept
<1>5. QED
  BY <1>1, <1>2, <1>3, <1>4, Zenon DEF Next

\* At first nothing is shared.
LEMMA InitShares ==
    ASSUME Init
    PROVE  SharesInv
<1>a. Control
  BY InitControl
<1>1. PICK owner \in Owners, name \in Names :
        creation = [c \in Ids |-> IF c \in rows THEN Settled(owner, name) ELSE Fresh]
  BY DEF Init
<1>2. /\ \A c \in rows : creation[c] = Settled(owner, name)
      /\ \A c \in Ids \ rows : creation[c] = Fresh
      /\ rows \subseteq Ids /\ \A c, d \in rows : c = d
  BY <1>1, ProvisioningAssumption DEF Init, Ids
<1>3. Settled(owner, name).pc = "done" /\ Fresh.pc = "none"
  BY DEF Settled, Fresh
<1>4. Holders = rows /\ \A c \in Ids : creation[c].pc \notin Placing
  BY <1>2, <1>3 DEF Holders, RunningJobs, Placing, Working, Preparing, Registering
<1>5. PlacingMeet /\ AllWithinQuota
  BY <1>4 DEF PlacingMeet, AllWithinQuota, WithinQuota, Placing
<1>6. PortsApart
  BY <1>2, <1>4 DEF PortsApart, ApartFrom, Placing
<1>7. UnmetAreFew
  <2> SUFFICES ASSUME NEW u \in Accounts, NEW S \in SUBSET Mine(u)
               PROVE  Cardinality(S) <= MaxServers
    BY DEF UnmetAreFew
  <2>1. S \subseteq 1 .. Existing
    BY <1>4 DEF Mine, Init
  <2>2. CASE S = {}
    BY <2>2, FS_EmptySet, ProvisioningAssumption
  <2>3. CASE S # {}
    <3>1. Existing \in {0, 1} /\ (Existing = 1 => MaxServers # 0)
      BY ProvisioningAssumption
    <3>2. Existing = 1 /\ \A c \in S : c = 1
      <4>1. \A c \in 1 .. 1 : c = 1
        OBVIOUS
      <4>2. \A c \in 1 .. 0 : FALSE
        OBVIOUS
      <4>3. Existing = 1
        BY <2>1, <2>3, <3>1, <4>2
      <4>4. QED  BY <2>1, <4>1, <4>3
    <3>3. S = {1}
      BY <2>3, <3>2
    <3>4. QED  BY <3>1, <3>2, <3>3, FS_Singleton, ProvisioningAssumption
  <2>4. QED  BY <2>2, <2>3
<1>8. QED  BY <1>a, <1>5, <1>6, <1>7 DEF SharesInv

\* Two servers or tasks have one port, or an account more of them than its quota,
\* only if an administrator chose the port or they were being placed at one time.
THEOREM SharesAreHeldCorrect == Spec => []SharesAreHeld
<1>1. Init => SharesInv
  BY InitShares
<1>2. SharesInv /\ [Next]_vars => SharesInv'
  BY SharesInvKept
<1>3. SharesInv => SharesAreHeld
  <2> SUFFICES ASSUME SharesInv PROVE SharesAreHeld
    OBVIOUS
  <2>1. Holders \subseteq Ids
    BY HoldersEngaged DEF SharesInv
  <2>2. PortsClashOnlyWhenRacing
    BY <2>1 DEF SharesInv, PortsApart, ApartFrom, Clash, PortsClashOnlyWhenRacing
  <2>3. QuotaHeldUnlessRacing
    <3> SUFFICES ASSUME NEW u \in Accounts, Cardinality(Mine(u)) > MaxServers
                 PROVE  \E c, d \in Mine(u) : c # d /\ {c, d} \in met
      BY DEF QuotaHeldUnlessRacing, Mine
    <3>1. Cardinality(Mine(u)) \in Nat /\ MaxServers \in Nat
      BY <2>1, IdsFinite, ProvisioningAssumption DEF Mine
    <3>2. ~(Cardinality(Mine(u)) <= MaxServers)
      BY <3>1
    <3>3. QED  BY <3>2 DEF SharesInv, UnmetAreFew
  <2>4. QED  BY <2>2, <2>3 DEF SharesAreHeld
<1>4. QED  BY <1>1, <1>2, <1>3, PTL DEF Spec
=============================================================================
