---------------------------- MODULE RegistryProofs ----------------------------
(***************************************************************************)
(* Proofs about Registry, for any servers, folders, slots and numbers of   *)
(* requests, processes and stops of MSM.                                   *)
(***************************************************************************)
EXTENDS Registry, FiniteSetTheorems, TLAPS

USE RegistryAssumption, NoneIsNothing

\* The runtimes and the processes have numbers.
LEMMA Numbers == Gens \subseteq Nat /\ Procs \subseteq Nat /\ None \notin Gens /\ None \notin Procs
<1>1. Cardinality(Servers) \in Nat
  BY FS_CardinalityType
<1>2. QED  BY <1>1 DEF Gens, Procs

\* The servers can be numbered.
LEMMA NumberedIs ==
    ASSUME NEW servers \in SUBSET Servers
    PROVE  /\ Numbered(servers) \in [Servers -> Gens \cup {None}]
           /\ \A s \in Servers : Numbered(servers)[s] = None <=> s \notin servers
           /\ \A s, t \in servers : Numbered(servers)[s] = Numbered(servers)[t] => s = t
<1> DEFINE n == Cardinality(servers)
           P(f) == f \in [servers -> 1..n] /\ IsInjective(f)
           number == CHOOSE f \in [servers -> 1..n] : IsInjective(f)
<1>1. IsFiniteSet(servers) /\ n \in Nat /\ n <= Cardinality(Servers) /\ Cardinality(Servers) \in Nat
  BY FS_Subset, FS_CardinalityType
<1>2. \E f \in [servers -> 1..n] : IsInjective(f)
  <2>1. PICK e \in Bijection(1..n, servers) : TRUE
    BY <1>1, FS_NatBijection, FS_CountingElements DEF ExistsBijection
  <2>2. QED
    <3> DEFINE f == [s \in servers |-> CHOOSE k \in 1..n : e[k] = s]
    <3>1. \A s \in servers : \E k \in 1..n : e[k] = s
      BY <2>1 DEF Bijection, Surjection
    <3>2. \A s \in servers : f[s] \in 1..n /\ e[f[s]] = s
      BY <3>1
    <3>3. f \in [servers -> 1..n]
      BY <3>2
    <3>4. IsInjective(f)
      <4> SUFFICES ASSUME NEW s \in servers, NEW t \in servers, f[s] = f[t] PROVE s = t
        BY <3>3 DEF IsInjective
      <4>1. QED  BY <3>2
    <3> HIDE DEF f
    <3>5. QED  BY <3>3, <3>4
<1>3. number \in [servers -> 1..n] /\ IsInjective(number)
  BY <1>2
<1>4. Numbered(servers) = [s \in Servers |-> IF s \in servers THEN number[s] ELSE None]
  BY DEF Numbered
<1>5. \A s, t \in servers : number[s] = number[t] => s = t
  BY <1>3 DEF IsInjective
<1> HIDE DEF number
<1>6. 1..n \subseteq Gens
  BY <1>1 DEF Gens
<1>7. QED  BY <1>3, <1>4, <1>5, <1>6, Numbers

\* What the boot registers.
LEMMA RegisteringIs ==
    ASSUME NEW servers \in SUBSET Servers, NEW dirs \in [servers -> Dirs]
    PROVE  /\ Registering(servers, dirs) \in [Gens -> Runtimes \cup {None}]
           /\ \A s \in servers :
                 Registering(servers, dirs)[Numbered(servers)[s]] = Runtime(s, dirs[s])
           /\ \A g \in Gens : Registering(servers, dirs)[g] # None =>
                 \E s \in servers : g = Numbered(servers)[s]
<1> DEFINE num == Numbered(servers)
<1>1. /\ num \in [Servers -> Gens \cup {None}]
      /\ \A s \in Servers : num[s] = None <=> s \notin servers
      /\ \A s, t \in servers : num[s] = num[t] => s = t
  BY NumberedIs
<1>2. \A s \in servers : Runtime(s, dirs[s]) \in Runtimes
  BY DEF Runtime, Runtimes, States
<1>3. Registering(servers, dirs) = [g \in Gens |->
        IF \E s \in servers : num[s] = g
        THEN Runtime(CHOOSE t \in servers : num[t] = g, dirs[CHOOSE t \in servers : num[t] = g])
        ELSE None]
  BY DEF Registering
<1> HIDE DEF num
<1>4. \A s \in servers : num[s] \in Gens /\ (CHOOSE t \in servers : num[t] = num[s]) = s
  BY <1>1
<1>5. \A s \in servers : Registering(servers, dirs)[num[s]] = Runtime(s, dirs[s])
  BY <1>3, <1>4
<1>6. \A g \in Gens : Registering(servers, dirs)[g] # None => \E s \in servers : num[s] = g
  BY <1>3
<1>7. \A g \in Gens : Registering(servers, dirs)[g] \in Runtimes \cup {None}
  <2> TAKE g \in Gens
  <2>1. CASE \E s \in servers : num[s] = g
    BY <2>1, <1>5, <1>2
  <2>2. CASE ~\E s \in servers : num[s] = g
    BY <2>2, <1>6
  <2>3. QED  BY <2>1, <2>2
<1>8. QED  BY <1>3, <1>5, <1>6, <1>7 DEF num

\* A request is of one kind.
LEMMA KindType ==
    ASSUME TypeOK, NEW i \in Slots, reqs[i] # None
    PROVE  /\ reqs[i].kind \in LifeKinds => reqs[i] \in Lives
           /\ reqs[i].kind = "update" => reqs[i] \in Updates
           /\ reqs[i].kind = "delete" => reqs[i] \in Deletions
           /\ reqs[i].kind \in LifeKinds \cup {"update", "delete"} /\ reqs[i].s \in Servers
  BY DEF TypeOK, Lives, Updates, Deletions, LifeKinds

\* A request keeps its kind when it moves to its next step.
LEMMA StepType ==
    ASSUME NEW r
    PROVE  /\ \A step \in {"start", "stop", "starting", "stopping", "save", "commit"} :
                 r \in Lives => [r EXCEPT !.step = step] \in Lives
           /\ \A report \in Reports :
                 r \in Lives => [r EXCEPT !.step = "commit", !.arg = report] \in Lives
           /\ \A step \in {"apply", "commit"} : r \in Updates => [r EXCEPT !.step = step] \in Updates
           /\ \A step \in {"plan", "go", "erase", "commit"} :
                 r \in Deletions => [r EXCEPT !.step = step] \in Deletions
<1>1. \A step \in {"start", "stop", "starting", "stopping", "save", "commit"} :
         r \in Lives => [r EXCEPT !.step = step] \in Lives
  BY DEF Lives
<1>2. \A report \in Reports : r \in Lives => [r EXCEPT !.step = "commit", !.arg = report] \in Lives
  BY DEF Lives
<1>3. \A step \in {"apply", "commit"} : r \in Updates => [r EXCEPT !.step = step] \in Updates
  BY DEF Updates
<1>4. \A step \in {"plan", "go", "erase", "commit"} :
         r \in Deletions => [r EXCEPT !.step = step] \in Deletions
  BY DEF Deletions
<1>5. QED  BY <1>1, <1>2, <1>3, <1>4

\* A generation that is free, when there is one.
LEMMA FreshIs ==
    ASSUME \E n \in Gens : rts[n] = None
    PROVE  Fresh \in Gens /\ rts[Fresh] = None
  BY DEF Fresh

\* What a change of state leaves alone: the folder and the server of the runtime, the other
\* runtimes, and those the supervisor finds.
LEMMA BecomesIs ==
    ASSUME TypeOK, NEW g \in Gens, rts[g] # None,
           NEW runtime \in Runtimes, runtime.server = rts[g].server, Becomes(g, runtime)
    PROVE  /\ rts' \in [Gens -> Runtimes \cup {None}] /\ pending' \subseteq Servers
           /\ rts'[g] = runtime /\ rts'[g] # None
           /\ \A h \in Gens \ {g} : rts'[h] = rts[h]
           /\ \A s \in Servers : sup[s] # None => rts'[sup[s]] # None /\ rts'[sup[s]].server = s
  BY DEF TypeOK, Becomes, Runtimes

\* Who waits for a start is a request to start.
LEMMA WakeIs ==
    ASSUME TypeOK, NEW g, NEW step \in {"refused", "save"}, Wake(g, step)
    PROVE  /\ reqs' \in [Slots -> Lives \cup Updates \cup Deletions \cup {None}]
           /\ \A i \in Slots : ~Awaits(i, g) => reqs'[i] = reqs[i]
           /\ \A i \in Slots : Awaits(i, g) =>
                 /\ reqs[i] \in Lives
                 /\ reqs'[i] = IF step = "refused" THEN None ELSE [reqs[i] EXCEPT !.step = step]
           /\ \A i \in Slots : Is(i, LifeKinds, "commit")' => reqs'[i].arg \in Reports
<1>1. \A i \in Slots : Awaits(i, g) => reqs[i] \in Lives
  BY DEF Awaits, TypeOK, Updates, Deletions
<1>2. /\ \A i \in Slots : ~Awaits(i, g) => reqs'[i] = reqs[i]
      /\ \A i \in Slots : Awaits(i, g) =>
            reqs'[i] = IF step = "refused" THEN None ELSE [reqs[i] EXCEPT !.step = step]
  BY DEF Wake
<1>3. \A i \in Slots : reqs'[i] \in Lives \cup Updates \cup Deletions \cup {None}
  <2> TAKE i \in Slots
  <2>1. CASE ~Awaits(i, g)
    BY <2>1, <1>2 DEF TypeOK
  <2>2. CASE Awaits(i, g)
    <3>1. [reqs[i] EXCEPT !.step = "save"] \in Lives
      BY <2>2, <1>1, StepType
    <3>2. QED  BY <3>1, <2>2, <1>2
  <2>3. QED  BY <2>1, <2>2
<1>4. reqs' \in [Slots -> Lives \cup Updates \cup Deletions \cup {None}]
  BY <1>3 DEF Wake
<1>5. \A i \in Slots : Is(i, LifeKinds, "commit")' => reqs'[i].arg \in Reports
  <2> TAKE i \in Slots
  <2>1. CASE ~Awaits(i, g)
    BY <2>1, <1>2 DEF TypeOK, Is
  <2>2. CASE Awaits(i, g)
    <3>1. reqs'[i] = None \/ reqs'[i].step = "save"
      BY <2>2, <1>1, <1>2 DEF Lives
    <3>2. QED  BY <3>1 DEF Is
  <2>3. QED  BY <2>1, <2>2
<1>6. QED  BY <1>1, <1>2, <1>4, <1>5

\* A runtime out of sight: nobody watches what it holds any more.
LEMMA DetachedIs ==
    ASSUME NEW g, rts[g] \in Runtimes
    PROVE  /\ Detached(g) \in Runtimes
           /\ Detached(g).server = rts[g].server /\ Detached(g).dir = rts[g].dir
           /\ Detached(g).hand = rts[g].hand /\ Detached(g).step = rts[g].step
           /\ Detached(g).watched = FALSE
           /\ Detached(g).state = IF Running(g) /\ rts[g].hand # None THEN "UNKNOWN"
                                  ELSE rts[g].state
<1> DEFINE r == rts[g]
           state == IF Running(g) /\ r.hand # None THEN "UNKNOWN" ELSE r.state
<1>1. Detached(g) = [r EXCEPT !.watched = FALSE, !.state = state]
  BY DEF Detached, Runtimes
<1>2. state \in States
  BY DEF Runtimes, States, RunningStates
<1> HIDE DEF state
<1>3. [r EXCEPT !.watched = FALSE, !.state = state] \in Runtimes
  BY <1>2 DEF Runtimes
<1>4. QED  BY <1>1, <1>2, <1>3 DEF Runtimes, state

\* What the supervisor does when it replaces the runtime of a server.
LEMMA ReplacedIs ==
    ASSUME TypeOK, NEW s \in Servers, NEW dir \in Dirs \cup {None}, Replaced(s, dir)
    PROVE  /\ rts' \in [Gens -> Runtimes \cup {None}] /\ sup' \in [Servers -> Gens \cup {None}]
           /\ \A t \in Servers : sup'[t] # None => rts'[sup'[t]] # None /\ rts'[sup'[t]].server = t
           /\ \A t \in Servers \ {s} :
                 sup'[t] = sup[t] /\ (sup[t] # None => rts'[sup[t]] = rts[sup[t]])
           /\ sup'[s] # None <=> dir # None
           /\ sup'[s] # None => rts[sup'[s]] = None /\ rts'[sup'[s]] = Runtime(s, dir)
           /\ sup[s] # None => /\ sup[s] # sup'[s]
                               /\ rts'[sup[s]] =
                                     IF \/ rts[sup[s]].step # "idle"
                                        \/ HeldBy({"start", "stop", "restart"}, sup[s])
                                     THEN Detached(sup[s]) ELSE None
           /\ \A g \in Gens : g # sup[s] /\ g # sup'[s] => rts'[g] = rts[g]
           /\ pending' \subseteq Servers /\ unsure' \subseteq Servers /\ orphaned' \subseteq Dirs
<1> DEFINE kept == IF sup[s] = None THEN rts
                   ELSE [rts EXCEPT ![sup[s]] = IF \/ rts[sup[s]].step # "idle"
                                                  \/ HeldBy({"start", "stop", "restart"}, sup[s])
                                               THEN Detached(sup[s]) ELSE None]
<1>1. /\ dir # None => \E n \in Gens : rts[n] = None
      /\ rts' = IF dir = None THEN kept ELSE [kept EXCEPT ![Fresh] = Runtime(s, dir)]
      /\ sup' = [sup EXCEPT ![s] = IF dir = None THEN None ELSE Fresh]
      /\ pending' \subseteq pending \cup {s} /\ unsure' \subseteq unsure \cup {s}
      /\ sup[s] = None \/ orphaned' \subseteq orphaned \cup {rts[sup[s]].dir}
      /\ sup[s] = None => orphaned' = orphaned
  BY DEF Replaced
<1>2. dir # None => Fresh \in Gens /\ rts[Fresh] = None /\ Runtime(s, dir) \in Runtimes
  BY <1>1, FreshIs DEF Runtime, Runtimes, States
<1>3. sup[s] # None => /\ sup[s] \in Gens /\ rts[sup[s]] \in Runtimes
                       /\ rts[sup[s]] # None /\ Detached(sup[s]) \in Runtimes
                       /\ Detached(sup[s]).server = s
  <2>1. sup[s] # None => /\ sup[s] \in Gens /\ rts[sup[s]] \in Runtimes
                         /\ rts[sup[s]] # None /\ rts[sup[s]].server = s
    BY DEF TypeOK
  <2>2. QED  BY <2>1, DetachedIs
<1>4. /\ kept \in [Gens -> Runtimes \cup {None}]
      /\ \A g \in Gens : g # sup[s] => kept[g] = rts[g]
      /\ sup[s] # None => kept[sup[s]] = IF \/ rts[sup[s]].step # "idle"
                                            \/ HeldBy({"start", "stop", "restart"}, sup[s])
                                         THEN Detached(sup[s]) ELSE None
  BY <1>3 DEF TypeOK
<1>5. \A t \in Servers \ {s} : sup[t] # None => sup[t] # sup[s] /\ sup[t] \in Gens /\ rts[sup[t]] # None
  BY DEF TypeOK
<1> HIDE DEF kept
<1>6. rts' \in [Gens -> Runtimes \cup {None}] /\ sup' \in [Servers -> Gens \cup {None}]
  BY <1>1, <1>2, <1>4 DEF TypeOK
<1>7. \A t \in Servers \ {s} : sup'[t] = sup[t] /\ (sup[t] # None => rts'[sup[t]] = rts[sup[t]])
  BY <1>1, <1>2, <1>4, <1>5 DEF TypeOK
<1>8. (sup'[s] # None <=> dir # None)
      /\ (sup'[s] # None => rts[sup'[s]] = None /\ rts'[sup'[s]] = Runtime(s, dir))
  BY <1>1, <1>2, <1>4, Numbers DEF TypeOK
<1>9. sup[s] # None => sup[s] # sup'[s] /\ rts'[sup[s]] = kept[sup[s]]
  BY <1>1, <1>2, <1>3, <1>4 DEF TypeOK
<1>10. \A g \in Gens : g # sup[s] /\ g # sup'[s] => rts'[g] = rts[g]
  BY <1>1, <1>2, <1>4 DEF TypeOK
<1>11. \A t \in Servers : sup'[t] # None => rts'[sup'[t]] # None /\ rts'[sup'[t]].server = t
  BY <1>2, <1>5, <1>7, <1>8 DEF TypeOK, Runtime
<1>12. pending' \subseteq Servers /\ unsure' \subseteq Servers /\ orphaned' \subseteq Dirs
  BY <1>1, <1>3 DEF TypeOK, Runtimes
<1>13. QED  BY <1>4, <1>6, <1>7, <1>8, <1>9, <1>10, <1>11, <1>12

-----------------------------------------------------------------------------
(***************************************************************************)
(* Types.                                                                  *)
(***************************************************************************)
\* A request to start or to stop holds a runtime of its server, found or not.
RequestsHold == \A i \in Slots : reqs[i] # None /\ reqs[i].kind \in LifeKinds =>
    rts[reqs[i].g] # None /\ rts[reqs[i].g].server = reqs[i].s

\* A runtime that starts, ends or starts again.
LEMMA RuntimeStepType ==
    ASSUME TypeOK, NEW g \in Gens, RuntimeStep(g)
    PROVE  TypeOK'
<1>1. rts[g] # None /\ rts[g] \in Runtimes
  BY DEF TypeOK, RuntimeStep, Scans, Spawns, StartFails, NoticesExit, RestartsAlone
<1>2. CASE Scans(g)
  <2>1. CASE InFolder(rts[g].dir) # {}
    <3>1. /\ rts' = [rts EXCEPT ![g].step = "idle"] /\ pending' = pending /\ Wake(g, "refused")
          /\ UNCHANGED <<rows, sup, writing, lock, boot, world, acts, stops, history>>
      BY <1>2, <2>1 DEF Scans
    <3>2. rts' \in [Gens -> Runtimes \cup {None}]
          /\ \A s \in Servers : sup[s] # None => rts'[sup[s]] # None /\ rts'[sup[s]].server = s
      BY <3>1, <1>1 DEF TypeOK, Runtimes
    <3>3. QED  BY <3>1, <3>2, WakeIs DEF TypeOK, world, history
  <2>2. CASE InFolder(rts[g].dir) = {}
    <3> DEFINE new == [rts[g] EXCEPT !.state = "STARTING", !.watched = FALSE, !.step = "prepare"]
    <3>1. /\ Becomes(g, new)
          /\ UNCHANGED <<rows, sup, reqs, writing, lock, boot, world, acts, stops, history>>
      BY <1>2, <2>2 DEF Scans
    <3>2. new \in Runtimes /\ new.server = rts[g].server
      BY <1>1 DEF Runtimes, States, RunningStates
    <3> HIDE DEF new
    <3>3. QED  BY <1>1, <3>1, <3>2, BecomesIs DEF TypeOK, world, history, Is
  <2>3. QED  BY <2>1, <2>2
<1>3. CASE Spawns(g)
  <2> DEFINE new == [rts[g] EXCEPT !.hand = spawned', !.watched = TRUE, !.step = "idle"]
  <2>1. /\ Becomes(g, new) /\ Wake(g, "save")
        /\ spawned < MaxProcs /\ spawned' = spawned + 1
        /\ alive' = alive \cup {[p |-> spawned', dir |-> rts[g].dir]}
        /\ UNCHANGED <<rows, sup, writing, lock, boot, gone, acts, stops, history>>
    BY <1>3 DEF Spawns
  <2>2. spawned' \in Procs /\ spawned' \in 0..MaxProcs
    BY <2>1 DEF TypeOK, Procs
  <2>3. new \in Runtimes /\ new.server = rts[g].server
    BY <1>1, <2>2 DEF Runtimes
  <2>4. alive' \subseteq [p : Procs, dir : Dirs]
    BY <1>1, <2>1, <2>2 DEF TypeOK, Runtimes
  <2> HIDE DEF new
  <2>5. QED  BY <1>1, <2>1, <2>2, <2>3, <2>4, BecomesIs, WakeIs DEF TypeOK, history
<1>4. CASE StartFails(g)
  <2> DEFINE new == [rts[g] EXCEPT !.state = "OFFLINE", !.step = "idle"]
  <2>1. /\ Becomes(g, new) /\ Wake(g, "refused")
        /\ UNCHANGED <<rows, sup, writing, lock, boot, world, acts, stops, history>>
    BY <1>4 DEF StartFails
  <2>2. new \in Runtimes /\ new.server = rts[g].server
    BY <1>1 DEF Runtimes, States
  <2> HIDE DEF new
  <2>3. QED  BY <1>1, <2>1, <2>2, BecomesIs, WakeIs DEF TypeOK, world, history
<1>5. CASE NoticesExit(g)
  <2>1. UNCHANGED <<rows, sup, reqs, writing, lock, boot, world, acts, stops, history>>
    BY <1>5 DEF NoticesExit
  <2>2. PICK new \in Runtimes : new.server = rts[g].server /\ Becomes(g, new)
    <3>1. /\ [rts[g] EXCEPT !.state = "OFFLINE", !.hand = None, !.watched = FALSE] \in Runtimes
          /\ [rts[g] EXCEPT !.state = "OFFLINE", !.watched = FALSE] \in Runtimes
          /\ [rts[g] EXCEPT !.state = "CRASHED"] \in Runtimes
      BY <1>1 DEF Runtimes, States
    <3>2. /\ [rts[g] EXCEPT !.state = "OFFLINE", !.hand = None, !.watched = FALSE].server = rts[g].server
          /\ [rts[g] EXCEPT !.state = "OFFLINE", !.watched = FALSE].server = rts[g].server
          /\ [rts[g] EXCEPT !.state = "CRASHED"].server = rts[g].server
      BY <1>1 DEF Runtimes
    <3>3. QED  BY <1>5, <3>1, <3>2 DEF NoticesExit
  <2>3. QED  BY <1>1, <2>1, <2>2, BecomesIs DEF TypeOK, world, history, Is
<1>6. CASE RestartsAlone(g)
  <2>1. /\ rts' = [rts EXCEPT ![g].step = "scan", ![g].watched = FALSE]
        /\ UNCHANGED <<rows, sup, reqs, pending, writing, lock, boot, world, acts, stops, history>>
    BY <1>6 DEF RestartsAlone
  <2>2. rts' \in [Gens -> Runtimes \cup {None}]
        /\ \A s \in Servers : sup[s] # None => rts'[sup[s]] # None /\ rts'[sup[s]].server = s
    <3> DEFINE new == [rts[g] EXCEPT !.step = "scan", !.watched = FALSE]
    <3>1. new \in Runtimes /\ new.server = rts[g].server
      BY <1>1 DEF Runtimes
    <3>2. rts' = [rts EXCEPT ![g] = new]
      BY <1>1, <2>1 DEF TypeOK
    <3> HIDE DEF new
    <3>3. QED  BY <1>1, <3>1, <3>2 DEF TypeOK
  <2>3. QED  BY <2>1, <2>2 DEF TypeOK, world, history, Is
<1>7. QED  BY <1>2, <1>3, <1>4, <1>5, <1>6 DEF RuntimeStep

\* One request moves.
LEMMA RequestMoves ==
    ASSUME TypeOK, NEW i \in Slots, NEW new \in Lives \cup Updates \cup Deletions \cup {None},
           reqs' = [reqs EXCEPT ![i] = new],
           new = None \/ new.kind \notin LifeKinds \/ new.step # "commit" \/ new.arg \in Reports
    PROVE  /\ reqs' \in [Slots -> Lives \cup Updates \cup Deletions \cup {None}]
           /\ reqs'[i] = new /\ \A j \in Slots \ {i} : reqs'[j] = reqs[j]
           /\ \A j \in Slots : Is(j, LifeKinds, "commit")' => reqs'[j].arg \in Reports
<1>1. /\ reqs' \in [Slots -> Lives \cup Updates \cup Deletions \cup {None}]
      /\ reqs'[i] = new /\ \A j \in Slots \ {i} : reqs'[j] = reqs[j]
  BY DEF TypeOK
<1>2. ASSUME NEW j \in Slots, Is(j, LifeKinds, "commit")' PROVE reqs'[j].arg \in Reports
  <2>1. CASE j = i
    BY <1>1, <1>2, <2>1 DEF Is
  <2>2. CASE j # i
    BY <1>1, <1>2, <2>2 DEF Is, TypeOK
  <2>3. QED  BY <2>1, <2>2
<1>3. QED  BY <1>1, <1>2

\* A new request, for a server that has a row.
LEMMA AsksType ==
    ASSUME TypeOK, NEW i \in Slots, NEW s \in Servers, NEW kind, NEW step, NEW arg,
           Asks(i, s, kind, step, arg),
           \/ kind \in LifeKinds /\ step \in {"start", "stop"} /\ arg = None /\ sup[s] # None
           \/ kind = "update" /\ step = "apply" /\ arg \in [dir : Dirs, enabled : BOOLEAN]
           \/ kind = "delete" /\ step = "plan" /\ arg \in Dirs
    PROVE  TypeOK'
<1> DEFINE new == [kind |-> kind, s |-> s, g |-> sup[s], step |-> step, arg |-> arg,
                   read |-> rows[s]]
<1>1. /\ rows[s] # None /\ boot.phase = "up" /\ acts < MaxActs /\ acts' = acts + 1
      /\ reqs' = [reqs EXCEPT ![i] = new]
      /\ UNCHANGED <<rows, sup, rts, pending, writing, lock, boot, world, stops, history>>
  BY DEF Asks, Free
<1>2. rows[s] \in Rows /\ sup[s] \in Gens \cup {None}
  BY <1>1 DEF TypeOK
<1>3. new \in Lives \cup Updates \cup Deletions
      /\ (new.kind \notin LifeKinds \/ new.step # "commit")
  <2>1. CASE kind \in LifeKinds /\ step \in {"start", "stop"} /\ arg = None /\ sup[s] # None
    BY <2>1, <1>2 DEF Lives
  <2>2. CASE kind = "update" /\ step = "apply" /\ arg \in [dir : Dirs, enabled : BOOLEAN]
    BY <2>2, <1>2 DEF Updates, LifeKinds
  <2>3. CASE kind = "delete" /\ step = "plan" /\ arg \in Dirs
    BY <2>3, <1>2 DEF Deletions, LifeKinds
  <2>4. QED  BY <2>1, <2>2, <2>3
<1>4. acts' \in 0..MaxActs
  BY <1>1 DEF TypeOK
<1> HIDE DEF new
<1>5. QED  BY <1>1, <1>3, <1>4, RequestMoves DEF TypeOK, world, history

\* The requests that the routes of a server make, and the one that needs no runtime.
LEMMA RequestsType == TypeOK /\ Requests => TypeOK'
<1> SUFFICES ASSUME TypeOK, Requests PROVE TypeOK'
  OBVIOUS
<1>1. ASSUME NEW i \in Slots, NEW s \in Servers, AsksUpdate(i, s) PROVE TypeOK'
  <2>1. PICK dir \in Dirs, enabled \in BOOLEAN :
           Asks(i, s, "update", "apply", [dir |-> dir, enabled |-> enabled])
    BY <1>1 DEF AsksUpdate
  <2>2. [dir |-> dir, enabled |-> enabled] \in [dir : Dirs, enabled : BOOLEAN]
    OBVIOUS
  <2>3. QED  BY <2>1, <2>2, AsksType
<1>2. ASSUME NEW i \in Slots, NEW s \in Servers, AsksDeletion(i, s) PROVE TypeOK'
  <2>1. Asks(i, s, "delete", "plan", rows[s].dir) /\ rows[s].dir \in Dirs
    BY <1>2 DEF AsksDeletion, TypeOK, Rows
  <2>2. QED  BY <2>1, AsksType
<1>3. ASSUME NEW s \in Asked, SetsAutostart(s) PROVE TypeOK'
  <2>1. /\ rows[s] # None /\ acts < MaxActs /\ acts' = acts + 1
        /\ rows' = [rows EXCEPT ![s].auto = ~@]
        /\ UNCHANGED <<memory, world, stops, history>>
    BY <1>3 DEF SetsAutostart
  <2>2. rows' \in [Servers -> Rows \cup {None}] /\ acts' \in 0..MaxActs
    <3> DEFINE auto == ~rows[s].auto
    <3>1. auto \in BOOLEAN /\ rows' = [rows EXCEPT ![s] = [rows[s] EXCEPT !.auto = auto]]
      BY <2>1 DEF TypeOK
    <3>2. rows[s] \in Rows
      BY <2>1 DEF TypeOK
    <3> HIDE DEF auto
    <3>3. [rows[s] EXCEPT !.auto = auto] \in Rows
      BY <3>1, <3>2 DEF Rows
    <3>4. QED  BY <2>1, <3>1, <3>3 DEF TypeOK
  <2>3. QED  BY <2>1, <2>2 DEF TypeOK, memory, world, history, Is
<1>4. ASSUME NEW i \in Slots, NEW s \in Servers, AsksServer(i, s) PROVE TypeOK'
  <2>1. PICK kind \in LifeKinds :
           sup[s] # None /\ Asks(i, s, kind, IF kind = "start" THEN "start" ELSE "stop", None)
    BY <1>4 DEF AsksServer, LifeKinds
  <2>2. (IF kind = "start" THEN "start" ELSE "stop") \in {"start", "stop"}
    OBVIOUS
  <2>3. QED  BY <2>1, <2>2, AsksType
<1>5. QED  BY <1>1, <1>2, <1>3, <1>4 DEF Requests

\* The steps of a request to start or to stop.
LEMMA LifeStepType ==
    ASSUME TypeOK, RequestsHold, NEW i \in Slots,
           BeginsStart(i) \/ BeginsStop(i) \/ EndsStop(i) \/ Persists(i) \/ CommitsState(i)
    PROVE  TypeOK'
<1> DEFINE r == reqs[i]
<1>1. r # None /\ r.kind \in LifeKinds /\ r \in Lives /\ r.g \in Gens
  <2>1. r # None /\ r.kind \in LifeKinds
    BY DEF BeginsStart, BeginsStop, EndsStop, Persists, CommitsState, Is, LifeKinds
  <2>2. QED  BY <2>1, KindType DEF Lives
<1>2. rts[r.g] # None /\ rts[r.g] \in Runtimes
  BY <1>1 DEF TypeOK, RequestsHold
<1>3. CASE BeginsStart(i)
  <2>1. CASE Running(r.g)
    <3>1. /\ reqs' = [reqs EXCEPT ![i] = None]
          /\ UNCHANGED <<rows, sup, rts, pending, writing, lock, boot, world, acts, stops, history>>
      BY <1>3, <2>1 DEF BeginsStart, Done
    <3>2. QED  BY <3>1, RequestMoves DEF TypeOK, world, history
  <2>2. CASE ~Running(r.g)
    <3> DEFINE new == [r EXCEPT !.step = "starting"]
    <3>1. /\ rts' = [rts EXCEPT ![r.g].step = "scan"] /\ reqs' = [reqs EXCEPT ![i] = new]
          /\ UNCHANGED <<rows, sup, pending, writing, lock, boot, world, acts, stops, history>>
      BY <1>3, <2>2 DEF BeginsStart
    <3>2. new \in Lives /\ new.step = "starting"
      BY <1>1 DEF Lives
    <3>3. /\ rts' \in [Gens -> Runtimes \cup {None}]
          /\ \A s \in Servers : sup[s] # None => rts'[sup[s]] # None /\ rts'[sup[s]].server = s
      BY <3>1, <1>1, <1>2 DEF TypeOK, Runtimes
    <3> HIDE DEF new
    <3>4. QED  BY <3>1, <3>2, <3>3, RequestMoves DEF TypeOK, world, history
  <2>3. QED  BY <2>1, <2>2
<1>4. CASE BeginsStop(i)
  <2>1. UNCHANGED <<rows, sup, writing, lock, boot, world, acts, stops, history>>
    BY <1>4 DEF BeginsStop
  <2>2. PICK new \in Lives \cup {None} :
           (new = None \/ new.step # "commit") /\ reqs' = [reqs EXCEPT ![i] = new]
    <3>1. [r EXCEPT !.step = "start"] \in Lives /\ [r EXCEPT !.step = "stopping"] \in Lives
      BY <1>1, StepType
    <3>2. [r EXCEPT !.step = "start"].step = "start" /\ [r EXCEPT !.step = "stopping"].step = "stopping"
      BY <1>1 DEF Lives
    <3>3. \/ reqs' = [reqs EXCEPT ![i] = [r EXCEPT !.step = "start"]]
          \/ reqs' = [reqs EXCEPT ![i] = [r EXCEPT !.step = "stopping"]]
          \/ reqs' = [reqs EXCEPT ![i] = None]
      BY <1>4 DEF BeginsStop, Done
    <3>4. QED  BY <3>1, <3>2, <3>3
  <2>3. /\ rts' \in [Gens -> Runtimes \cup {None}] /\ pending' \subseteq Servers
        /\ \A s \in Servers : sup[s] # None => rts'[sup[s]] # None /\ rts'[sup[s]].server = s
    <3> DEFINE now == [rts[r.g] EXCEPT !.state = "STOPPING"]
               later == [rts[r.g] EXCEPT !.watched = FALSE]
    <3>1. \/ UNCHANGED <<rts, pending>> \/ Becomes(r.g, now)
          \/ rts' = [rts EXCEPT ![r.g] = later] /\ pending' = pending
      BY <1>4 DEF BeginsStop
    <3>2. now \in Runtimes /\ later \in Runtimes /\ now.server = rts[r.g].server
          /\ later.server = rts[r.g].server
      BY <1>2 DEF Runtimes, States, RunningStates
    <3> HIDE DEF now, later
    <3>3. CASE Becomes(r.g, now)
      BY <3>2, <3>3, <1>1, <1>2, BecomesIs
    <3>4. CASE rts' = [rts EXCEPT ![r.g] = later] /\ pending' = pending
      BY <3>2, <3>4, <1>1, <1>2 DEF TypeOK
    <3>5. QED  BY <3>1, <3>3, <3>4 DEF TypeOK
  <2>4. QED  BY <2>1, <2>2, <2>3, RequestMoves DEF TypeOK, world, history
<1>5. CASE EndsStop(i)
  <2> DEFINE new == [r EXCEPT !.step = IF r.kind = "stop" THEN "save" ELSE "start"]
  <2>1. /\ reqs' = [reqs EXCEPT ![i] = new]
        /\ UNCHANGED <<rows, sup, rts, pending, writing, lock, boot, world, acts, stops, history>>
    BY <1>5 DEF EndsStop
  <2>2. new \in Lives /\ new.step # "commit"
    BY <1>1 DEF Lives
  <2> HIDE DEF new
  <2>3. QED  BY <2>1, <2>2, RequestMoves DEF TypeOK, world, history
<1>6. CASE Persists(i)
  <2> DEFINE report == [state |-> rts[r.g].state, proc |-> rts[r.g].hand]
             new == [r EXCEPT !.step = "commit", !.arg = report]
  <2>1. /\ reqs' = [reqs EXCEPT ![i] = new]
        /\ UNCHANGED <<rows, sup, rts, pending, writing, lock, boot, world, acts, stops, history>>
    BY <1>6 DEF Persists
  <2>2. report \in Reports
    BY <1>2 DEF Runtimes, Reports
  <2> HIDE DEF report
  <2>3. new \in Lives /\ new.arg \in Reports
    BY <1>1, <2>2 DEF Lives
  <2> HIDE DEF new
  <2>4. QED  BY <2>1, <2>3, RequestMoves DEF TypeOK, world, history
<1>7. CASE CommitsState(i)
  <2> DEFINE row == [rows[r.s] EXCEPT
                        !.state = IF r.arg.state = r.read.state THEN @ ELSE r.arg.state,
                        !.proc = IF r.arg.proc = r.read.proc THEN @ ELSE r.arg.proc]
  <2>1. /\ rows[r.s] # None /\ rows' = [rows EXCEPT ![r.s] = row]
        /\ reqs' = [reqs EXCEPT ![i] = None]
        /\ unsure' \subseteq unsure \cup {r.s}
        /\ UNCHANGED <<sup, rts, pending, writing, lock, boot, world, acts, stops,
                       undone, orphaned, crossed>>
    BY <1>1, <1>7, ZenonT(40) DEF CommitsState, Done, TypeOK, Lives
  <2>2. r.s \in Servers /\ rows[r.s] \in Rows /\ r.arg \in Reports
    BY <1>1, <1>7, <2>1 DEF TypeOK, Lives, CommitsState, Is, LifeKinds
  <2>3. row \in Rows
    BY <2>2 DEF Rows, Reports
  <2> HIDE DEF row
  <2>4. QED  BY <2>1, <2>2, <2>3, RequestMoves, ZenonT(40) DEF TypeOK, world
<1>8. QED  BY <1>3, <1>4, <1>5, <1>6, <1>7

\* The update that commits has the lock, so there is one, and its server keeps its row.
OneUpdate == \A i \in Slots : Is(i, {"update"}, "commit") => lock = i /\ rows[reqs[i].s] # None

\* The steps of an update, of a deletion, and a request that fails.
LEMMA ChangeStepType ==
    ASSUME TypeOK, OneUpdate, NEW i \in Slots,
           \/ Fails(i) \/ Applies(i) \/ CommitsUpdate(i)
           \/ Plans(i) \/ Unregisters(i) \/ Erases(i) \/ CommitsDeletion(i)
    PROVE  TypeOK'
<1> DEFINE r == reqs[i]
<1>1. r # None /\ r.s \in Servers
      /\ (r.kind = "update" => r \in Updates) /\ (r.kind = "delete" => r \in Deletions)
  <2>1. r # None
    BY DEF Fails, Applies, CommitsUpdate, Plans, Unregisters, Erases, CommitsDeletion, Is
  <2>2. QED  BY <2>1, KindType
<1>2. CASE Fails(i)
  <2>1. /\ reqs' = [reqs EXCEPT ![i] = None] /\ undone' \subseteq undone \cup {r.s}
        /\ UNCHANGED <<rows, sup, rts, pending, writing, lock, boot, world, acts, stops,
                       unsure, orphaned, crossed>>
    BY <1>2 DEF Fails, Done
  <2>2. QED  BY <1>1, <2>1, RequestMoves, ZenonT(40) DEF TypeOK, world
<1>3. CASE Applies(i)
  <2> DEFINE dir == IF r.arg.enabled THEN r.arg.dir ELSE None
  <2>1. /\ r.kind = "update" /\ Replaced(r.s, dir)
        /\ crossed' \subseteq crossed \cup {r.arg.dir} /\ lock' = i
        /\ reqs' = [reqs EXCEPT ![i] = [r EXCEPT !.step = "commit"]]
        /\ UNCHANGED <<rows, writing, boot, world, acts, stops, undone>>
    BY <1>3 DEF Applies, Is
  <2>2. r.arg.dir \in Dirs /\ dir \in Dirs \cup {None}
    BY <1>1, <2>1 DEF Updates
  <2> HIDE DEF dir
  <2>3. [r EXCEPT !.step = "commit"] \in Updates
        /\ [r EXCEPT !.step = "commit"].kind \notin LifeKinds
    BY <1>1, <2>1 DEF Updates, LifeKinds
  <2>4. /\ reqs' \in [Slots -> Lives \cup Updates \cup Deletions \cup {None}]
        /\ \A j \in Slots : Is(j, LifeKinds, "commit")' => reqs'[j].arg \in Reports
    BY <2>1, <2>3, RequestMoves
  <2>5. /\ rts' \in [Gens -> Runtimes \cup {None}] /\ sup' \in [Servers -> Gens \cup {None}]
        /\ \A t \in Servers : sup'[t] # None => rts'[sup'[t]] # None /\ rts'[sup'[t]].server = t
        /\ pending' \subseteq Servers /\ unsure' \subseteq Servers /\ orphaned' \subseteq Dirs
    BY <1>1, <2>1, <2>2, ReplacedIs
  <2>6. QED  BY <2>1, <2>2, <2>4, <2>5 DEF TypeOK, world
<1>4. CASE CommitsUpdate(i)
  <2> DEFINE row == [rows[r.s] EXCEPT
                        !.dir = IF r.arg.dir = r.read.dir THEN @ ELSE r.arg.dir,
                        !.enabled = IF r.arg.enabled = r.read.enabled THEN @ ELSE r.arg.enabled]
  <2>1. /\ r.kind = "update" /\ rows' = [rows EXCEPT ![r.s] = row]
        /\ reqs' = [reqs EXCEPT ![i] = None] /\ lock' = None
        /\ orphaned' = IF Disagrees(r.s, rows'[r.s])
                       THEN orphaned \cup {rts[sup[r.s]].dir} ELSE orphaned
        /\ UNCHANGED <<sup, rts, pending, writing, boot, world, acts, stops,
                       unsure, undone, crossed>>
    BY <1>1, <1>4 DEF CommitsUpdate, Done, Is, TypeOK
  <2>2. r.arg.dir \in Dirs /\ r.arg.enabled \in BOOLEAN
    BY <1>1, <2>1 DEF Updates
  <2>3. orphaned' \subseteq Dirs
    BY <1>1, <2>1 DEF Disagrees, TypeOK, Runtimes
  <2>4. row \in Rows
    <3> DEFINE d == IF r.arg.dir = r.read.dir THEN rows[r.s].dir ELSE r.arg.dir
               e == IF r.arg.enabled = r.read.enabled THEN rows[r.s].enabled ELSE r.arg.enabled
    <3>1. rows[r.s] \in Rows
      BY <1>1, <1>4 DEF CommitsUpdate, OneUpdate, TypeOK
    <3>2. d \in Dirs /\ e \in BOOLEAN
      BY <2>2, <3>1 DEF Rows
    <3>3. row = [rows[r.s] EXCEPT !.dir = d, !.enabled = e]
      BY <3>1 DEF Rows
    <3> HIDE DEF d, e, row
    <3>4. [rows[r.s] EXCEPT !.dir = d, !.enabled = e] \in Rows
      BY <3>1, <3>2 DEF Rows
    <3>5. QED  BY <3>3, <3>4
  <2> HIDE DEF row
  <2>5. QED  BY <1>1, <2>1, <2>2, <2>3, <2>4, RequestMoves DEF TypeOK, world
<1>5. CASE Plans(i)
  <2>1. /\ r.kind = "delete" /\ crossed' \subseteq crossed \cup {r.arg}
        /\ reqs' = [reqs EXCEPT ![i] = [r EXCEPT !.step = "go"]]
        /\ UNCHANGED <<rows, sup, rts, pending, writing, lock, boot, world, acts, stops,
                       unsure, undone, orphaned>>
    BY <1>5 DEF Plans, Is
  <2>2. [r EXCEPT !.step = "go"] \in Deletions /\ [r EXCEPT !.step = "go"].kind \notin LifeKinds
    BY <1>1, <2>1 DEF Deletions, LifeKinds
  <2>3. crossed' \subseteq Dirs
    BY <1>1, <2>1 DEF Deletions, TypeOK
  <2>4. /\ reqs' \in [Slots -> Lives \cup Updates \cup Deletions \cup {None}]
        /\ \A j \in Slots : Is(j, LifeKinds, "commit")' => reqs'[j].arg \in Reports
    BY <2>1, <2>2, RequestMoves
  <2>5. QED  BY <2>1, <2>3, <2>4 DEF TypeOK, world
<1>6. CASE Unregisters(i)
  <2>1. /\ r.kind = "delete" /\ Replaced(r.s, None)
        /\ reqs' = [reqs EXCEPT ![i] = [r EXCEPT !.step = "erase"]]
        /\ UNCHANGED <<rows, writing, lock, boot, world, acts, stops, undone, crossed>>
    BY <1>6 DEF Unregisters, Is
  <2>2. [r EXCEPT !.step = "erase"] \in Deletions /\ [r EXCEPT !.step = "erase"].kind \notin LifeKinds
    BY <1>1, <2>1 DEF Deletions, LifeKinds
  <2>3. /\ reqs' \in [Slots -> Lives \cup Updates \cup Deletions \cup {None}]
        /\ \A j \in Slots : Is(j, LifeKinds, "commit")' => reqs'[j].arg \in Reports
    BY <2>1, <2>2, RequestMoves
  <2>4. /\ rts' \in [Gens -> Runtimes \cup {None}] /\ sup' \in [Servers -> Gens \cup {None}]
        /\ \A t \in Servers : sup'[t] # None => rts'[sup'[t]] # None /\ rts'[sup'[t]].server = t
        /\ pending' \subseteq Servers /\ unsure' \subseteq Servers /\ orphaned' \subseteq Dirs
    BY <1>1, <2>1, ReplacedIs
  <2>5. QED  BY <2>1, <2>3, <2>4 DEF TypeOK, world
<1>7. CASE Erases(i)
  <2>1. /\ r.kind = "delete" /\ gone' = gone \cup {r.arg}
        /\ reqs' = [reqs EXCEPT ![i] = [r EXCEPT !.step = "commit"]]
        /\ UNCHANGED <<rows, sup, rts, pending, writing, lock, boot, alive, spawned, acts, stops,
                       history>>
    BY <1>7 DEF Erases, Is
  <2>2. r.arg \in Dirs /\ [r EXCEPT !.step = "commit"] \in Deletions
        /\ [r EXCEPT !.step = "commit"].kind \notin LifeKinds
    BY <1>1, <2>1 DEF Deletions, LifeKinds
  <2>3. QED  BY <2>1, <2>2, RequestMoves, ZenonT(40) DEF TypeOK, history
<1>8. CASE CommitsDeletion(i)
  <2>1. /\ rows' = [rows EXCEPT ![r.s] = None]
        /\ reqs' = [reqs EXCEPT ![i] = None]
        /\ orphaned' = IF Disagrees(r.s, None) THEN orphaned \cup {rts[sup[r.s]].dir} ELSE orphaned
        /\ UNCHANGED <<sup, rts, pending, writing, lock, boot, world, acts, stops,
                       unsure, undone, crossed>>
    BY <1>8 DEF CommitsDeletion, Done
  <2>2. orphaned' \subseteq Dirs
    BY <1>1, <2>1 DEF Disagrees, TypeOK, Runtimes
  <2>3. QED  BY <2>1, <2>2, RequestMoves DEF TypeOK, world
<1>9. QED  BY <1>2, <1>3, <1>4, <1>5, <1>6, <1>7, <1>8

\* The recorder, and a process that ends.
LEMMA RecorderType ==
    ASSUME TypeOK, Writes \/ WriteFails \/ (\E s \in Servers : Takes(s)) \/ \E a \in alive : Exits(a)
    PROVE  TypeOK'
<1>1. CASE Writes
  <2>1. writing \in Writings
    BY <1>1 DEF Writes, TypeOK
  <2>2. ASSUME rows[writing.s] # None
        PROVE  [rows[writing.s] EXCEPT !.state = writing.state, !.proc = writing.proc] \in Rows
    <3>1. rows[writing.s] \in Rows /\ writing.state \in States /\ writing.proc \in Procs \cup {None}
      BY <2>1, <2>2 DEF TypeOK, Writings
    <3>2. QED  BY <3>1 DEF Rows
  <2>3. rows' \in [Servers -> Rows \cup {None}]
    <3>1. CASE rows[writing.s] = None
      BY <1>1, <3>1 DEF Writes, TypeOK
    <3>2. CASE rows[writing.s] # None
      <4>1. rows' = [rows EXCEPT ![writing.s] = [rows[writing.s] EXCEPT !.state = writing.state,
                                                                        !.proc = writing.proc]]
        BY <1>1, <2>1, <3>2 DEF Writes, TypeOK, Writings, Rows
      <4>2. QED  BY <2>1, <2>2, <3>2, <4>1 DEF TypeOK, Writings
    <3>3. QED  BY <3>1, <3>2
  <2>4. QED  BY <1>1, <2>3 DEF Writes, TypeOK, world, history, Is
<1>2. CASE WriteFails
  BY <1>2 DEF WriteFails, TypeOK, world, Is, Writings
<1>3. ASSUME NEW s \in Servers, Takes(s) PROVE TypeOK'
  <2>1. writing' \in Writings \cup {None} /\ pending' \subseteq Servers /\ unsure' \subseteq Servers
    <3>1. sup[s] # None => rts[sup[s]] \in Runtimes
      BY DEF TypeOK
    <3>2. QED  BY <1>3, <3>1 DEF Takes, TypeOK, Runtimes, Writings
  <2>2. QED  BY <1>3, <2>1 DEF Takes, TypeOK, world, Is
<1>4. ASSUME NEW a \in alive, Exits(a) PROVE TypeOK'
  BY <1>4 DEF Exits, TypeOK, memory, history, Is
<1>5. QED  BY <1>1, <1>2, <1>3, <1>4

\* MSM stops.
LEMMA StopType == TypeOK /\ MsmStops => TypeOK'
<1> SUFFICES ASSUME TypeOK, MsmStops PROVE TypeOK'
  OBVIOUS
<1>1. /\ stops < MaxStops /\ stops' = stops + 1
      /\ sup' = [s \in Servers |-> None] /\ rts' = [g \in Gens |-> None]
      /\ reqs' = [i \in Slots |-> None]
      /\ pending' = {} /\ writing' = None /\ lock' = None
      /\ boot' = [phase |-> "register", todo |-> {}, resets |-> {}]
      /\ UNCHANGED <<rows, alive, spawned, gone, acts, crossed>>
  BY DEF MsmStops, world
<1>2. unsure' \subseteq Servers
  BY DEF MsmStops, TypeOK
<1>3. undone' \subseteq Servers
  <2>1. \A i \in Slots : Is(i, {"delete"}, "commit") => reqs[i].s \in Servers
    BY KindType DEF Is
  <2>2. QED  BY <2>1 DEF MsmStops, TypeOK
<1>4. orphaned' \subseteq Dirs
  <2>1. Uncommitted \subseteq Dirs
    <3>1. ASSUME NEW i \in Slots, Is(i, {"update"}, "commit"), sup[reqs[i].s] # None
          PROVE  rts[sup[reqs[i].s]].dir \in Dirs
      <4>1. reqs[i].s \in Servers
        BY <3>1, KindType DEF Is
      <4>2. rts[sup[reqs[i].s]] \in Runtimes
        BY <3>1, <4>1 DEF TypeOK
      <4>3. QED  BY <4>2 DEF Runtimes
    <3>2. QED  BY <3>1 DEF Uncommitted
  <2>2. Crowded \subseteq Dirs
    BY DEF Crowded, TypeOK
  <2>3. Misled \subseteq Dirs
    BY DEF Misled, Known, TypeOK, Rows
  <2>4. QED  BY <2>1, <2>2, <2>3 DEF MsmStops, TypeOK
<1>5. stops' \in 0..MaxStops
  BY <1>1 DEF TypeOK
<1>6. QED  BY <1>1, <1>2, <1>3, <1>4, <1>5 DEF TypeOK, Is

-----------------------------------------------------------------------------
(***************************************************************************)
(* Runtimes and the processes they hold.                                   *)
(***************************************************************************)
Live(p) == p # None /\ IsAlive(p)

\* A runtime that holds a process alive says that it runs, and starts nothing.
IsSound(r) ==
    /\ r.hand # None => r.hand <= spawned
    /\ Live(r.hand) => r.state \in RunningStates /\ r.step = "idle"
    /\ r.step = "prepare" => r.state \in RunningStates /\ ~r.watched

HandsRun ==
    /\ \A g \in Gens : rts[g] # None => IsSound(rts[g])
    /\ \A a \in alive : a.p <= spawned

\* What the steps of a runtime and those of its requests have in common: they write one
\* runtime, keep its server and its folder, and never let go of a process alive.
Moves(g, new) ==
    /\ rts[g] \in Runtimes /\ new \in Runtimes /\ rts' = [rts EXCEPT ![g] = new]
    /\ new.server = rts[g].server /\ new.dir = rts[g].dir
    /\ UNCHANGED <<rows, sup, writing, lock, boot, gone, acts, stops, history>>
    /\ pending \subseteq pending' /\ pending' \subseteq pending \cup {rts[g].server}
    /\ IF new.state # rts[g].state \/ new.hand # rts[g].hand
       THEN rts[g].server \in pending' ELSE pending' = pending
    /\ new.watched \/ new.step # "idle" =>
          rts[g].watched \/ rts[g].step # "idle" \/ HeldBy({"start", "restart"}, g)
    /\ Live(rts[g].hand) => /\ new.hand = rts[g].hand /\ new.watched = rts[g].watched
                            /\ new.step = "idle" /\ new.state \in RunningStates
    /\ new.step = "prepare" => new.state \in RunningStates /\ ~new.watched
    /\ (rts[g].step = "idle" /\ rts[g].state \in {"OFFLINE", "UNKNOWN"} /\ \A i \in Slots : reqs[i] = None)
          => rts[g].state = "UNKNOWN" /\ new.step = "idle" /\ new.state \in {"OFFLINE", "UNKNOWN"}
    /\ \/ UNCHANGED <<alive, spawned>> /\ new.hand \in {rts[g].hand, None}
       \/ /\ rts[g].step = "prepare" /\ rts[g].dir \notin gone
          /\ spawned < MaxProcs /\ spawned' = spawned + 1
          /\ alive' = alive \cup {[p |-> spawned', dir |-> rts[g].dir]}
          /\ new.hand = spawned' /\ new.watched /\ new.step = "idle"
          /\ new.state \in RunningStates
    /\ \A i \in Slots : \/ reqs'[i] = reqs[i]
                        \/ /\ reqs[i] \in Lives
                           /\ \/ reqs'[i] = None
                              \/ /\ reqs'[i] \in Lives
                                 /\ reqs'[i].kind = reqs[i].kind /\ reqs'[i].s = reqs[i].s
                                 /\ reqs'[i].g = reqs[i].g

\* The steps of a runtime.
LEMMA RuntimeMoves ==
    ASSUME TypeOK, HandsRun, NEW g \in Gens, RuntimeStep(g)
    PROVE  \E new : Moves(g, new)
<1> DEFINE r == rts[g]
<1>1. r # None /\ r \in Runtimes /\ IsSound(r)
  BY DEF TypeOK, HandsRun, RuntimeStep, Scans, Spawns, StartFails, NoticesExit, RestartsAlone
<1>2. /\ ~Live(r.hand)
      /\ r.step # "idle" \/ r.watched
      /\ r.step = "idle" => r.state \in RunningStates \cup {"CRASHED"}
  <2>1. CASE Scans(g) \/ Spawns(g) \/ StartFails(g)
    BY <1>1, <2>1 DEF Scans, Spawns, StartFails, IsSound
  <2>2. CASE NoticesExit(g)
    BY <1>1, <2>2 DEF NoticesExit, Live, Running
  <2>3. CASE RestartsAlone(g)
    BY <1>1, <2>3 DEF RestartsAlone, IsSound, RunningStates
  <2>4. QED  BY <2>1, <2>2, <2>3 DEF RuntimeStep
<1>3. \A step \in {"refused", "save"} : Wake(g, step) =>
         \A i \in Slots : \/ reqs'[i] = reqs[i]
                          \/ /\ reqs[i] \in Lives
                             /\ \/ reqs'[i] = None
                                \/ /\ reqs'[i] \in Lives
                                   /\ reqs'[i].kind = reqs[i].kind /\ reqs'[i].s = reqs[i].s
                                   /\ reqs'[i].g = reqs[i].g
  <2> SUFFICES ASSUME NEW step \in {"refused", "save"}, Wake(g, step), NEW i \in Slots, Awaits(i, g)
               PROVE  /\ reqs[i] \in Lives
                      /\ \/ reqs'[i] = None
                         \/ /\ reqs'[i] \in Lives
                            /\ reqs'[i].kind = reqs[i].kind /\ reqs'[i].s = reqs[i].s
                            /\ reqs'[i].g = reqs[i].g
    BY WakeIs
  <2>1. /\ reqs[i] \in Lives
        /\ reqs'[i] = None \/ reqs'[i] = [reqs[i] EXCEPT !.step = "save"]
    BY WakeIs
  <2>2. [reqs[i] EXCEPT !.step = "save"] \in Lives
    BY <2>1, StepType
  <2>3. QED  BY <2>1, <2>2 DEF Lives
<1>4. CASE Scans(g)
  <2>1. CASE InFolder(r.dir) # {}
    <3> DEFINE new == [r EXCEPT !.step = "idle"]
    <3>1. /\ rts' = [rts EXCEPT ![g] = new] /\ pending' = pending /\ Wake(g, "refused")
          /\ UNCHANGED <<rows, sup, writing, lock, boot, alive, spawned, gone, acts, stops, history>>
      BY <1>4, <2>1 DEF Scans, world
    <3>2. /\ new \in Runtimes /\ new.server = r.server /\ new.dir = r.dir /\ new.state = r.state
          /\ new.hand = r.hand /\ new.step = "idle" /\ new.watched = r.watched
      BY <1>1 DEF Runtimes
    <3> HIDE DEF new
    <3>3. Moves(g, new)
      BY <1>1, <1>2, <1>3, <1>4, <3>1, <3>2 DEF Moves, Scans
    <3>4. QED  BY <3>3
  <2>2. CASE InFolder(r.dir) = {}
    <3> DEFINE new == [r EXCEPT !.state = "STARTING", !.watched = FALSE, !.step = "prepare"]
    <3>1. /\ Becomes(g, new) /\ r.step = "scan"
          /\ UNCHANGED <<rows, sup, reqs, writing, lock, boot, alive, spawned, gone, acts, stops, history>>
      BY <1>4, <2>2 DEF Scans, world
    <3>2. /\ new \in Runtimes /\ new.server = r.server /\ new.dir = r.dir /\ new.state = "STARTING"
          /\ new.hand = r.hand /\ new.step = "prepare" /\ new.watched = FALSE
      BY <1>1 DEF Runtimes, States, RunningStates
    <3> HIDE DEF new
    <3>3. Moves(g, new)
      BY <1>1, <1>2, <3>1, <3>2 DEF Moves, Becomes, RunningStates
    <3>4. QED  BY <3>3
  <2>3. QED  BY <2>1, <2>2
<1>5. CASE Spawns(g)
  <2> DEFINE new == [r EXCEPT !.hand = spawned', !.watched = TRUE, !.step = "idle"]
  <2>1. /\ Becomes(g, new) /\ Wake(g, "save") /\ r.step = "prepare" /\ r.dir \notin gone
        /\ spawned < MaxProcs /\ spawned' = spawned + 1
        /\ alive' = alive \cup {[p |-> spawned', dir |-> rts[g].dir]}
        /\ UNCHANGED <<rows, sup, writing, lock, boot, gone, acts, stops, history>>
    BY <1>5 DEF Spawns
  <2>2. spawned' \in Procs
    BY <2>1 DEF TypeOK, Procs
  <2>3. /\ new \in Runtimes /\ new.server = r.server /\ new.dir = r.dir /\ new.state = r.state
        /\ new.hand = spawned' /\ new.step = "idle" /\ new.watched = TRUE
    BY <1>1, <2>2 DEF Runtimes
  <2> HIDE DEF new
  <2>4. r.state \in RunningStates
    BY <1>1, <2>1 DEF IsSound
  <2>5. Moves(g, new)
    BY <1>1, <1>2, <1>3, <2>1, <2>3, <2>4 DEF Moves, Becomes
  <2>6. QED  BY <2>5
<1>6. CASE StartFails(g)
  <2> DEFINE new == [r EXCEPT !.state = "OFFLINE", !.step = "idle"]
  <2>1. /\ Becomes(g, new) /\ Wake(g, "refused") /\ r.step = "prepare"
        /\ UNCHANGED <<rows, sup, writing, lock, boot, alive, spawned, gone, acts, stops, history>>
    BY <1>6 DEF StartFails, world
  <2>2. /\ new \in Runtimes /\ new.server = r.server /\ new.dir = r.dir /\ new.state = "OFFLINE"
        /\ new.hand = r.hand /\ new.step = "idle" /\ new.watched = r.watched
    BY <1>1 DEF Runtimes, States
  <2> HIDE DEF new
  <2>3. Moves(g, new)
    BY <1>1, <1>2, <1>3, <2>1, <2>2 DEF Moves, Becomes
  <2>4. QED  BY <2>3
<1>7. CASE NoticesExit(g)
  <2> DEFINE new1 == [r EXCEPT !.state = "OFFLINE", !.hand = None, !.watched = FALSE]
             new2 == [r EXCEPT !.state = "OFFLINE", !.watched = FALSE]
             new3 == [r EXCEPT !.state = "CRASHED"]
  <2>1. /\ r.watched /\ r.state \in RunningStates
        /\ \/ r.state = "UNKNOWN" /\ Becomes(g, new1)
           \/ r.state # "UNKNOWN" /\ Becomes(g, new2)
           \/ r.state = "STARTING" /\ Becomes(g, new3)
        /\ UNCHANGED <<rows, sup, reqs, writing, lock, boot, alive, spawned, gone, acts, stops, history>>
    <3>1. r.watched /\ r.state \in RunningStates
      BY <1>7 DEF NoticesExit, Running
    <3>2. \/ r.state = "UNKNOWN" /\ Becomes(g, new1)
          \/ r.state # "UNKNOWN" /\ Becomes(g, new2)
          \/ r.state = "STARTING" /\ Becomes(g, new3)
      BY <1>7, Zenon DEF NoticesExit
    <3>3. QED  BY <1>7, <3>1, <3>2 DEF NoticesExit, world
  <2>2. /\ new1 \in Runtimes /\ new1.server = r.server /\ new1.dir = r.dir /\ new1.state = "OFFLINE"
        /\ new1.hand = None /\ new1.step = r.step /\ new1.watched = FALSE
    BY <1>1 DEF Runtimes, States
  <2>3. /\ new2 \in Runtimes /\ new2.server = r.server /\ new2.dir = r.dir /\ new2.state = "OFFLINE"
        /\ new2.hand = r.hand /\ new2.step = r.step /\ new2.watched = FALSE
    BY <1>1 DEF Runtimes, States
  <2>4. /\ new3 \in Runtimes /\ new3.server = r.server /\ new3.dir = r.dir /\ new3.state = "CRASHED"
        /\ new3.hand = r.hand /\ new3.step = r.step /\ new3.watched = r.watched
    BY <1>1 DEF Runtimes, States
  <2>5. r.step # "prepare"
    BY <1>1, <2>1 DEF IsSound
  <2> HIDE DEF new1, new2, new3
  <2>6. CASE r.state = "UNKNOWN" /\ Becomes(g, new1)
    <3>1. Moves(g, new1)
      BY <1>1, <1>2, <2>1, <2>2, <2>5, <2>6 DEF Moves, Becomes
    <3>2. QED  BY <3>1
  <2>7. CASE r.state # "UNKNOWN" /\ Becomes(g, new2)
    <3>1. Moves(g, new2)
      BY <1>1, <1>2, <2>1, <2>3, <2>5, <2>7 DEF Moves, Becomes, RunningStates
    <3>2. QED  BY <3>1
  <2>8. CASE r.state = "STARTING" /\ Becomes(g, new3)
    <3>1. Moves(g, new3)
      BY <1>1, <1>2, <2>1, <2>4, <2>5, <2>8 DEF Moves, Becomes
    <3>2. QED  BY <3>1
  <2>9. QED  BY <2>1, <2>6, <2>7, <2>8
<1>8. CASE RestartsAlone(g)
  <2> DEFINE new == [r EXCEPT !.step = "scan", !.watched = FALSE]
  <2>1. /\ r.state = "CRASHED" /\ r.watched
        /\ rts' = [rts EXCEPT ![g].step = "scan", ![g].watched = FALSE]
        /\ UNCHANGED <<rows, sup, reqs, pending, writing, lock, boot, alive, spawned, gone,
                       acts, stops, history>>
    BY <1>8 DEF RestartsAlone, world
  <2>2. rts' = [rts EXCEPT ![g] = new]
    BY <1>1, <2>1 DEF TypeOK
  <2>3. /\ new \in Runtimes /\ new.server = r.server /\ new.dir = r.dir /\ new.state = r.state
        /\ new.hand = r.hand /\ new.step = "scan" /\ new.watched = FALSE
    BY <1>1 DEF Runtimes
  <2> HIDE DEF new
  <2>4. Moves(g, new)
    BY <1>1, <1>2, <2>1, <2>2, <2>3 DEF Moves
  <2>5. QED  BY <2>4
<1>9. QED  BY <1>4, <1>5, <1>6, <1>7, <1>8 DEF RuntimeStep

\* The steps of a request to start or to stop, up to the write of its state.
LEMMA LifeMoves ==
    ASSUME TypeOK, HandsRun, RequestsHold, NEW i \in Slots,
           BeginsStart(i) \/ BeginsStop(i) \/ EndsStop(i) \/ Persists(i)
    PROVE  \E new : Moves(reqs[i].g, new) /\ reqs[i].g \in Gens
<1> DEFINE r == reqs[i]
           g == r.g
           old == rts[g]
<1>1. r # None /\ r.kind \in LifeKinds /\ r \in Lives /\ g \in Gens
  <2>1. r # None /\ r.kind \in LifeKinds
    BY DEF BeginsStart, BeginsStop, EndsStop, Persists, Is, LifeKinds
  <2>2. QED  BY <2>1, KindType DEF Lives
<1>2. old # None /\ old \in Runtimes /\ IsSound(old)
  BY <1>1 DEF TypeOK, RequestsHold, HandsRun
<1>3. ASSUME NEW new \in Lives \cup {None}, reqs' = [reqs EXCEPT ![i] = new],
             new = None \/ (new.kind = r.kind /\ new.s = r.s /\ new.g = g)
      PROVE  \A j \in Slots : \/ reqs'[j] = reqs[j]
                              \/ /\ reqs[j] \in Lives
                                 /\ \/ reqs'[j] = None
                                    \/ /\ reqs'[j] \in Lives
                                       /\ reqs'[j].kind = reqs[j].kind /\ reqs'[j].s = reqs[j].s
                                       /\ reqs'[j].g = reqs[j].g
  BY <1>1, <1>3 DEF TypeOK
<1>4. \A step \in {"start", "starting", "stopping", "save"} :
         LET new == [r EXCEPT !.step = step]
         IN  new \in Lives /\ new.kind = r.kind /\ new.s = r.s /\ new.g = g
  BY <1>1 DEF Lives
<1>5. old.state \notin RunningStates => ~Live(old.hand)
  BY <1>2 DEF IsSound
<1> HIDE DEF r, g, old
<1>6. ASSUME UNCHANGED <<rows, sup, rts, pending, writing, lock, boot, alive, spawned, gone,
                         acts, stops, history>>,
             NEW new \in Lives \cup {None}, reqs' = [reqs EXCEPT ![i] = new],
             new = None \/ (new.kind = r.kind /\ new.s = r.s /\ new.g = g)
      PROVE  Moves(g, old)
  <2>1. rts' = [rts EXCEPT ![g] = old]
    BY <1>1, <1>6 DEF TypeOK, old
  <2>2. Live(old.hand) => old.step = "idle" /\ old.state \in RunningStates
    BY <1>2 DEF IsSound
  <2>3. old.step = "prepare" => old.state \in RunningStates /\ ~old.watched
    BY <1>2 DEF IsSound
  <2>4. QED  BY <1>1, <1>2, <1>3, <1>6, <2>1, <2>2, <2>3 DEF Moves, old, r
<1>7. CASE BeginsStart(i)
  <2>1. CASE Running(g)
    <3>1. /\ reqs' = [reqs EXCEPT ![i] = None]
          /\ UNCHANGED <<rows, sup, rts, pending, writing, lock, boot, alive, spawned, gone,
                         acts, stops, history>>
      BY <1>7, <2>1 DEF BeginsStart, Done, r, g, world
    <3>2. QED  BY <1>1, <1>6, <3>1 DEF r, g
  <2>2. CASE ~Running(g)
    <3> DEFINE new == [old EXCEPT !.step = "scan"]
    <3>1. /\ rts' = [rts EXCEPT ![g].step = "scan"] /\ reqs' = [reqs EXCEPT ![i] = [r EXCEPT !.step = "starting"]]
          /\ UNCHANGED <<rows, sup, pending, writing, lock, boot, alive, spawned, gone,
                         acts, stops, history>>
          /\ r.kind \in {"start", "restart"}
      BY <1>7, <2>2 DEF BeginsStart, r, g, world, Is
    <3>2. /\ new \in Runtimes /\ new.server = old.server /\ new.dir = old.dir /\ new.state = old.state
          /\ new.hand = old.hand /\ new.step = "scan" /\ new.watched = old.watched
      BY <1>2 DEF Runtimes
    <3>3. rts' = [rts EXCEPT ![g] = new]
      BY <3>1 DEF old
    <3>4. ~Live(old.hand) /\ HeldBy({"start", "restart"}, g)
      BY <1>1, <1>5, <2>2, <3>1 DEF Running, HeldBy, old, r, g
    <3> HIDE DEF new
    <3>5. Moves(g, new)
      BY <1>1, <1>2, <1>3, <1>4, <3>1, <3>2, <3>3, <3>4 DEF Moves, old, r
    <3>6. QED  BY <1>1, <3>5 DEF r, g
  <2>3. QED  BY <2>1, <2>2
<1>8. CASE BeginsStop(i)
  <2>1. UNCHANGED <<rows, sup, writing, lock, boot, alive, spawned, gone, acts, stops, history>>
    BY <1>8 DEF BeginsStop, world
  <2>2. CASE r.kind = "restart" /\ ~Running(g)
    <3>1. reqs' = [reqs EXCEPT ![i] = [r EXCEPT !.step = "start"]] /\ UNCHANGED <<rts, pending>>
      BY <1>8, <2>2 DEF BeginsStop, r, g
    <3>2. Moves(g, old)
      BY <1>4, <1>6, <2>1, <3>1
    <3>3. QED  BY <1>1, <3>2 DEF r, g
  <2>3. CASE ~(r.kind = "restart" /\ ~Running(g)) /\ Running(g) /\ IsAlive(old.hand)
    <3> DEFINE new == [old EXCEPT !.state = "STOPPING"]
    <3>1. /\ Becomes(g, new) /\ reqs' = [reqs EXCEPT ![i] = [r EXCEPT !.step = "stopping"]]
          /\ old.step = "idle"
      BY <1>8, <2>3 DEF BeginsStop, r, g, old
    <3>2. /\ new \in Runtimes /\ new.server = old.server /\ new.dir = old.dir /\ new.state = "STOPPING"
          /\ new.hand = old.hand /\ new.step = old.step /\ new.watched = old.watched
      BY <1>2 DEF Runtimes, States, RunningStates
    <3>3. old.state \in RunningStates
      BY <2>3 DEF Running, old
    <3> HIDE DEF new
    <3>4. Moves(g, new)
      BY <1>1, <1>2, <1>3, <1>4, <2>1, <3>1, <3>2, <3>3 DEF Moves, Becomes, old, r, RunningStates
    <3>5. QED  BY <1>1, <3>4 DEF r, g
  <2>4. CASE ~(r.kind = "restart" /\ ~Running(g)) /\ ~(Running(g) /\ IsAlive(old.hand))
    <3> DEFINE new == [old EXCEPT !.watched = FALSE]
    <3>1. /\ reqs' = [reqs EXCEPT ![i] = None] /\ pending' = pending /\ old.step = "idle"
          /\ rts' = IF old.state = "CRASHED" THEN [rts EXCEPT ![g].watched = FALSE] ELSE rts
      BY <1>8, <2>4 DEF BeginsStop, r, g, old, Done
    <3>2. CASE old.state = "CRASHED"
      <4>1. /\ new \in Runtimes /\ new.server = old.server /\ new.dir = old.dir /\ new.state = old.state
            /\ new.hand = old.hand /\ new.step = old.step /\ new.watched = FALSE
        BY <1>2 DEF Runtimes
      <4>2. rts' = [rts EXCEPT ![g] = new] /\ ~Live(old.hand)
        BY <1>5, <3>1, <3>2 DEF old, RunningStates
      <4> HIDE DEF new
      <4>3. Moves(g, new)
        BY <1>1, <1>2, <1>3, <2>1, <3>1, <3>2, <4>1, <4>2 DEF Moves, old
      <4>4. QED  BY <1>1, <4>3 DEF r, g
    <3>3. CASE old.state # "CRASHED"
      <4>1. Moves(g, old)
        BY <1>6, <2>1, <3>1, <3>3
      <4>2. QED  BY <1>1, <4>1 DEF r, g
    <3>4. QED  BY <3>2, <3>3
  <2>5. QED  BY <2>2, <2>3, <2>4
<1>9. CASE EndsStop(i)
  <2> DEFINE step == IF r.kind = "stop" THEN "save" ELSE "start"
  <2>1. /\ reqs' = [reqs EXCEPT ![i] = [r EXCEPT !.step = step]]
        /\ UNCHANGED <<rows, sup, rts, pending, writing, lock, boot, alive, spawned, gone,
                       acts, stops, history>>
    BY <1>9 DEF EndsStop, r, world
  <2>2. step \in {"start", "save"}
    OBVIOUS
  <2> HIDE DEF step
  <2>3. Moves(g, old)
    BY <1>4, <1>6, <2>1, <2>2
  <2>4. QED  BY <1>1, <2>3 DEF r, g
<1>10. CASE Persists(i)
  <2> DEFINE report == [state |-> old.state, proc |-> old.hand]
  <2>1. /\ reqs' = [reqs EXCEPT ![i] = [r EXCEPT !.step = "commit", !.arg = report]]
        /\ UNCHANGED <<rows, sup, rts, pending, writing, lock, boot, alive, spawned, gone,
                       acts, stops, history>>
    BY <1>10 DEF Persists, r, g, old, world
  <2>2. report \in Reports
    BY <1>2 DEF Runtimes, Reports
  <2> HIDE DEF report
  <2>3. LET new == [r EXCEPT !.step = "commit", !.arg = report]
        IN  new \in Lives /\ new.kind = r.kind /\ new.s = r.s /\ new.g = g
    BY <1>1, <2>2 DEF Lives, g
  <2>4. Moves(g, old)
    BY <1>6, <2>1, <2>3
  <2>5. QED  BY <1>1, <2>4 DEF r, g
<1>11. QED  BY <1>7, <1>8, <1>9, <1>10

-----------------------------------------------------------------------------
(***************************************************************************)
(* Who holds which runtime.                                                *)
(***************************************************************************)
Dir(s) == rts[sup[s]].dir

\* A runtime out of sight that still starts a server, or may, was replaced in use.
LostAreOrphaned == \A g \in Gens :
    /\ rts[g] # None /\ sup[rts[g].server] # g
    /\ rts[g].step # "idle" \/ rts[g].watched \/ HeldBy({"start", "restart"}, g)
    => rts[g].dir \in orphaned

\* Before MSM is up nobody asks for anything, and each runtime is that of a row.
BootIsQuiet == boot.phase # "up" =>
    /\ \A i \in Slots : reqs[i] = None
    /\ lock \in {"boot", None} /\ boot.todo \subseteq Known /\ boot.resets \subseteq Known
    /\ \A s \in Servers : sup[s] # None => s \in Known /\ Dir(s) = rows[s].dir
    /\ \A g \in Gens : rts[g] # None => sup[rts[g].server] = g

\* The rows to reset wait for the end of the boot, under the lock.
ResetsWait == (boot.phase = "up" => boot.resets = {}) /\ (boot.resets # {} => lock = "boot")

\* There is nothing before the registration ...
NothingYet == boot.phase = "register" =>
    /\ \A s \in Servers : sup[s] = None
    /\ \A g \in Gens : rts[g] = None
    /\ pending = {} /\ writing = None /\ boot.resets = {}

\* ... every known server has a runtime after it ...
AllRegistered == boot.phase \in {"adopt", "autostart"} => \A s \in Known : sup[s] # None

\* ... nothing starts before the adoptions are over ...
NothingStarts == boot.phase = "adopt" =>
    \A g \in Gens : rts[g] # None => rts[g].step = "idle" /\ rts[g].state \in {"OFFLINE", "UNKNOWN"}

\* ... and the servers whose turn has not come hold nothing.
TurnToCome == boot.phase = "adopt" => \A s \in boot.todo :
    /\ rts[sup[s]].hand = None /\ rts[sup[s]].state = "OFFLINE"
    /\ s \notin pending /\ (writing # None => writing.s # s)

BootInv == BootIsQuiet /\ ResetsWait /\ NothingYet /\ AllRegistered /\ NothingStarts /\ TurnToCome

Structure == TypeOK /\ HandsRun /\ RequestsHold /\ OneUpdate /\ LostAreOrphaned /\ BootInv

\* A boot step leaves everything typed.
LEMMA BootStepType ==
    ASSUME TypeOK, BootInv, BootStep
    PROVE  TypeOK'
<1>1. Known \subseteq Servers /\ \A s \in Known : rows[s] # None /\ rows[s] \in Rows
  BY DEF Known, TypeOK
<1>2. CASE RegistersAll
  <2>1. /\ sup' = Numbered(Known) /\ rts' = Registering(Known, [s \in Known |-> rows[s].dir])
        /\ boot' = [boot EXCEPT !.phase = "adopt", !.todo = Known]
        /\ UNCHANGED <<rows, reqs, pending, writing, lock, world, acts, stops, history>>
    BY <1>2 DEF RegistersAll
  <2> DEFINE dirs == [s \in Known |-> rows[s].dir]
  <2>2. dirs \in [Known -> Dirs]
    BY <1>1 DEF Rows
  <2> HIDE DEF dirs
  <2>3. /\ rts' \in [Gens -> Runtimes \cup {None}] /\ sup' \in [Servers -> Gens \cup {None}]
        /\ \A s \in Servers : sup'[s] = None <=> s \notin Known
        /\ \A s \in Known : rts'[sup'[s]] = Runtime(s, dirs[s])
    BY <1>1, <2>1, <2>2, NumberedIs, RegisteringIs DEF dirs
  <2>4. \A s \in Known : Runtime(s, dirs[s]) \in Runtimes /\ Runtime(s, dirs[s]).server = s
    BY <1>1, <2>2 DEF Runtime, Runtimes, States
  <2>5. \A s \in Servers : sup'[s] # None => rts'[sup'[s]] # None /\ rts'[sup'[s]].server = s
    BY <2>3, <2>4
  <2>6. boot' \in [phase : {"up", "register", "adopt", "autostart"}, todo : SUBSET Servers,
                   resets : SUBSET Servers]
    BY <1>1, <2>1 DEF TypeOK
  <2>7. QED  BY <2>1, <2>3, <2>5, <2>6 DEF TypeOK, world, history, Is
<1>3. ASSUME NEW s \in Servers, Adopts(s) PROVE TypeOK'
  <2>1. s \in boot.todo /\ boot.phase = "adopt" /\ boot.todo \subseteq Known
    BY <1>3 DEF Adopts, First, BootInv, BootIsQuiet
  <2>2. sup[s] \in Gens /\ rts[sup[s]] # None /\ rts[sup[s]] \in Runtimes /\ rts[sup[s]].server = s
    BY <2>1 DEF BootInv, AllRegistered, TypeOK
  <2>3. UNCHANGED <<rows, sup, reqs, writing, world, acts, stops, history>>
    BY <1>3 DEF Adopts
  <2>4. /\ boot' \in [phase : {"up", "register", "adopt", "autostart"}, todo : SUBSET Servers,
                      resets : SUBSET Servers]
        /\ lock' \in Slots \cup {"boot", None}
    <3>1. \/ boot' = [boot EXCEPT !.todo = @ \ {s}]
          \/ boot' = [boot EXCEPT !.todo = @ \ {s}, !.resets = @ \cup {s}]
      BY <1>3 DEF Adopts
    <3>2. lock' = "boot" \/ lock' = lock
      BY <1>3 DEF Adopts
    <3>3. boot.todo \subseteq Servers /\ boot.resets \subseteq Servers
      BY DEF TypeOK
    <3>4. boot' \in [phase : {"up", "register", "adopt", "autostart"}, todo : SUBSET Servers,
                     resets : SUBSET Servers]
      <4>1. boot.todo \ {s} \in SUBSET Servers /\ boot.resets \cup {s} \in SUBSET Servers
        BY <3>3
      <4>2. QED  BY <3>1, <4>1, ZenonT(40) DEF TypeOK
    <3>5. QED  BY <3>2, <3>4 DEF TypeOK
  <2>5. CASE Adoptable(s) # {}
    <3>1. PICK p \in Adoptable(s) :
             Becomes(sup[s], [rts[sup[s]] EXCEPT !.state = "UNKNOWN", !.hand = p, !.watched = TRUE])
      BY <1>3, <2>5 DEF Adopts
    <3>2. p \in Procs
      BY <1>1, <2>1 DEF Adoptable, InFolder, IsAlive, TypeOK
    <3> DEFINE new == [rts[sup[s]] EXCEPT !.state = "UNKNOWN", !.hand = p, !.watched = TRUE]
    <3>3. new \in Runtimes /\ new.server = rts[sup[s]].server
      BY <2>2, <3>2 DEF Runtimes, States, RunningStates
    <3> HIDE DEF new
    <3>4. Becomes(sup[s], new)
      BY <3>1 DEF new
    <3>5. QED  BY <2>2, <2>3, <2>4, <3>3, <3>4, BecomesIs DEF TypeOK, world, history, Is
  <2>6. CASE Adoptable(s) = {}
    <3>1. UNCHANGED <<rts, pending>>
      BY <1>3, <2>6 DEF Adopts
    <3>2. QED  BY <2>3, <2>4, <3>1 DEF TypeOK, world, history, Is
  <2>7. QED  BY <2>5, <2>6
<1>4. CASE BeginsAutostart
  <2>1. boot' \in [phase : {"up", "register", "adopt", "autostart"}, todo : SUBSET Servers,
                   resets : SUBSET Servers]
    BY <1>1, <1>4 DEF BeginsAutostart, TypeOK
  <2>2. QED  BY <1>4, <2>1 DEF BeginsAutostart, TypeOK, world, history, Is
<1>5. ASSUME NEW s \in Servers, Autostarts(s) PROVE TypeOK'
  <2>1. s \in boot.todo /\ boot.phase = "autostart" /\ boot.todo \subseteq Known
    BY <1>5 DEF Autostarts, First, BootInv, BootIsQuiet
  <2>2. sup[s] \in Gens /\ rts[sup[s]] # None /\ rts[sup[s]] \in Runtimes /\ rts[sup[s]].server = s
    BY <2>1 DEF BootInv, AllRegistered, TypeOK
  <2> DEFINE new == [rts[sup[s]] EXCEPT !.step = "scan"]
  <2>3. /\ rts' = rts \/ rts' = [rts EXCEPT ![sup[s]] = new]
        /\ boot' = [boot EXCEPT !.todo = @ \ {s}]
        /\ UNCHANGED <<rows, sup, reqs, pending, writing, lock, world, acts, stops, history>>
    BY <1>5 DEF Autostarts
  <2>4. new \in Runtimes /\ new.server = s
    BY <2>2 DEF Runtimes
  <2> HIDE DEF new
  <2>5. /\ rts' \in [Gens -> Runtimes \cup {None}]
        /\ \A t \in Servers : sup[t] # None => rts'[sup[t]] # None /\ rts'[sup[t]].server = t
    BY <2>2, <2>3, <2>4 DEF TypeOK
  <2>6. boot' \in [phase : {"up", "register", "adopt", "autostart"}, todo : SUBSET Servers,
                   resets : SUBSET Servers]
    BY <2>3 DEF TypeOK
  <2>7. QED  BY <2>3, <2>5, <2>6 DEF TypeOK, world, history, Is
<1>6. CASE Boots
  <2>1. boot' \in [phase : {"up", "register", "adopt", "autostart"}, todo : SUBSET Servers,
                   resets : SUBSET Servers]
    BY <1>6 DEF Boots
  <2>2. boot.resets \subseteq Known
    BY <1>6 DEF Boots, BootInv, BootIsQuiet
  <2>3. \A s \in Known : [rows[s] EXCEPT !.state = "OFFLINE", !.proc = None] \in Rows
    BY <1>1 DEF Rows, States
  <2>4. rows' \in [Servers -> Rows \cup {None}]
    BY <1>6, <2>2, <2>3 DEF Boots, TypeOK
  <2>5. QED  BY <1>6, <2>1, <2>4 DEF Boots, TypeOK, world, history, Is
<1>7. QED  BY <1>2, <1>3, <1>4, <1>5, <1>6 DEF BootStep

\* Every step leaves everything typed.
LEMMA NextType ==
    ASSUME Structure, [Next]_vars
    PROVE  TypeOK'
<1> USE DEF Structure
<1>1. ASSUME NEW g \in Gens, RuntimeStep(g) PROVE TypeOK'
  BY <1>1, RuntimeStepType
<1>2. ASSUME NEW i \in Slots, RequestStep(i) PROVE TypeOK'
  BY <1>2, LifeStepType, ChangeStepType DEF RequestStep
<1>3. CASE Requests
  BY <1>3, RequestsType
<1>4. CASE Writes \/ WriteFails \/ (\E s \in Servers : Takes(s)) \/ \E a \in alive : Exits(a)
  BY <1>4, RecorderType
<1>5. CASE MsmStops
  BY <1>5, StopType
<1>6. CASE BootStep
  BY <1>6, BootStepType
<1>7. CASE UNCHANGED vars
  BY <1>7 DEF vars, memory, world, history, TypeOK, Is
<1>8. QED  BY <1>1, <1>2, <1>3, <1>4, <1>5, <1>6, <1>7 DEF Next

\* A number that was given is given to no other process.
LEMMA OldPids ==
    ASSUME TypeOK, HandsRun,
           \/ alive' \subseteq alive /\ spawned' = spawned
           \/ \E dir : alive' = alive \cup {[p |-> spawned + 1, dir |-> dir]} /\ spawned' = spawned + 1
    PROVE  /\ \A p \in Procs : p <= spawned => p <= spawned' /\ (Live(p)' => Live(p))
           /\ \A a \in alive' : a.p <= spawned'
<1>1. spawned \in Nat /\ \A a \in alive : a.p \in Nat /\ a.p <= spawned
  <2>1. \A a \in alive : a.p \in Procs
    BY DEF TypeOK
  <2>2. spawned \in Nat
    BY DEF TypeOK
  <2>3. QED  BY <2>1, <2>2, Numbers DEF HandsRun
<1>2. CASE alive' \subseteq alive /\ spawned' = spawned
  BY <1>1, <1>2, Numbers DEF Live, IsAlive
<1>3. ASSUME NEW dir, alive' = alive \cup {[p |-> spawned + 1, dir |-> dir]}, spawned' = spawned + 1
      PROVE  /\ \A p \in Procs : p <= spawned => p <= spawned' /\ (Live(p)' => Live(p))
             /\ \A a \in alive' : a.p <= spawned'
  BY <1>1, <1>3, Numbers DEF Live, IsAlive
<1>4. QED  BY <1>2, <1>3

\* The steps that move one runtime keep all of it.
LEMMA MovesStructure ==
    ASSUME Structure, TypeOK', NEW g \in Gens, NEW new, Moves(g, new)
    PROVE  Structure'
<1> USE DEF Structure
<1>1. /\ rts[g] \in Runtimes /\ rts[g] # None /\ new \in Runtimes /\ new # None /\ rts'[g] = new
      /\ new.server = rts[g].server /\ new.dir = rts[g].dir
      /\ \A h \in Gens \ {g} : rts'[h] = rts[h]
  BY DEF Moves, TypeOK
<1>2. \A h \in Gens : /\ rts'[h] = None <=> rts[h] = None
                      /\ rts[h] # None => rts'[h].server = rts[h].server /\ rts'[h].dir = rts[h].dir
  BY <1>1
<1>3. /\ UNCHANGED <<rows, sup, writing, lock, boot, gone, unsure, undone, orphaned, crossed>>
      /\ Known' = Known
  BY DEF Moves, history, Known
<1>4. \A i \in Slots : reqs'[i] # None /\ reqs'[i] # reqs[i] =>
         /\ reqs[i] \in Lives /\ reqs'[i] \in Lives /\ reqs[i] # None
         /\ reqs'[i].kind = reqs[i].kind /\ reqs'[i].s = reqs[i].s /\ reqs'[i].g = reqs[i].g
  BY DEF Moves
<1>5. HandsRun'
  <2>1. /\ \A p \in Procs : p <= spawned => p <= spawned' /\ (Live(p)' => Live(p))
        /\ \A a \in alive' : a.p <= spawned'
    <3>1. \/ alive' = alive /\ spawned' = spawned
          \/ alive' = alive \cup {[p |-> spawned + 1, dir |-> rts[g].dir]} /\ spawned' = spawned + 1
      BY DEF Moves
    <3>2. QED  BY <3>1, OldPids
  <2>2. ASSUME NEW h \in Gens, rts'[h] # None PROVE IsSound(rts[h])'
    <3>1. CASE h # g
      <4>1. rts[h] # None /\ rts[h] \in Runtimes /\ rts'[h] = rts[h] /\ IsSound(rts[h])
        BY <1>1, <2>2, <3>1 DEF HandsRun, TypeOK
      <4>2. rts[h].hand # None => rts[h].hand \in Procs /\ rts[h].hand <= spawned
        BY <4>1 DEF IsSound, Runtimes
      <4>3. QED  BY <2>1, <4>1, <4>2 DEF IsSound, Live
    <3>2. CASE h = g
      <4>1. IsSound(rts[g])
        BY <1>1 DEF HandsRun
      <4>2. new.step = "prepare" => new.state \in RunningStates /\ ~new.watched
        BY DEF Moves
      <4>3. CASE new.hand \in {rts[g].hand, None}
        <5>1. new.hand # None => new.hand \in Procs /\ new.hand <= spawned /\ new.hand = rts[g].hand
          BY <1>1, <4>1, <4>3 DEF IsSound, Runtimes
        <5>2. Live(rts[g].hand) => new.step = "idle" /\ new.state \in RunningStates
          BY DEF Moves
        <5>3. Live(new.hand)' => new.step = "idle" /\ new.state \in RunningStates
          BY <2>1, <5>1, <5>2 DEF Live
        <5>4. QED  BY <1>1, <2>1, <3>2, <4>2, <5>1, <5>3 DEF IsSound, Live
      <4>4. CASE new.hand = spawned' /\ new.step = "idle" /\ new.state \in RunningStates
        BY <1>1, <3>2, <4>4 DEF IsSound, TypeOK
      <4>5. QED  BY <4>3, <4>4 DEF Moves
    <3>3. QED  BY <3>1, <3>2
  <2>3. QED  BY <2>1, <2>2 DEF HandsRun
<1>6. RequestsHold'
  <2>1. ASSUME NEW i \in Slots, reqs'[i] # None, reqs'[i].kind \in LifeKinds
        PROVE  rts'[reqs'[i].g] # None /\ rts'[reqs'[i].g].server = reqs'[i].s
    <3>1. /\ reqs[i] # None /\ reqs[i].kind \in LifeKinds
          /\ reqs'[i].g = reqs[i].g /\ reqs'[i].s = reqs[i].s
      BY <1>4, <2>1
    <3>2. reqs[i].g \in Gens /\ rts[reqs[i].g] # None /\ rts[reqs[i].g].server = reqs[i].s
      BY <3>1, KindType DEF RequestsHold, Lives
    <3>3. QED  BY <1>2, <3>1, <3>2
  <2>2. QED  BY <2>1 DEF RequestsHold
<1>7. OneUpdate'
  BY <1>3, <1>4 DEF OneUpdate, Is, Lives, LifeKinds
<1>8. LostAreOrphaned'
  <2>1. \A h \in Gens : \A kinds : HeldBy(kinds, h)' => HeldBy(kinds, h)
    BY <1>4 DEF HeldBy
  <2>2. ASSUME NEW h \in Gens, rts'[h] # None, sup[rts'[h].server] # h,
               rts'[h].step # "idle" \/ rts'[h].watched \/ HeldBy({"start", "restart"}, h)'
        PROVE  rts'[h].dir \in orphaned
    <3>1. rts[h] # None /\ rts'[h].server = rts[h].server /\ rts'[h].dir = rts[h].dir
      BY <1>2, <2>2
    <3>2. rts[h].step # "idle" \/ rts[h].watched \/ HeldBy({"start", "restart"}, h)
      BY <1>1, <2>1, <2>2 DEF Moves
    <3>3. QED  BY <2>2, <3>1, <3>2 DEF LostAreOrphaned
  <2>3. QED  BY <1>3, <2>2 DEF LostAreOrphaned
<1>9. BootInv'
  <2>1. BootIsQuiet'
    <3>1. \A s \in Servers : sup[s] # None => rts'[sup[s]].dir = rts[sup[s]].dir
      BY <1>2 DEF TypeOK
    <3>2. \A h \in Gens : rts'[h] # None => rts[h] # None /\ rts'[h].server = rts[h].server
      BY <1>2
    <3>3. boot.phase # "up" => \A i \in Slots : reqs'[i] = None
      BY <1>4 DEF BootInv, BootIsQuiet
    <3>4. QED  BY <1>3, <3>1, <3>2, <3>3 DEF BootInv, BootIsQuiet, Dir
  <2>2. ResetsWait'
    BY <1>3 DEF BootInv, ResetsWait
  <2>3. NothingYet'
    BY <1>1, <1>3 DEF BootInv, NothingYet
  <2>4. AllRegistered'
    BY <1>3 DEF BootInv, AllRegistered
  <2>5. CASE boot.phase = "adopt"
    <3>1. \A i \in Slots : reqs[i] = None
      BY <2>5 DEF BootInv, BootIsQuiet
    <3>2. rts[g].step = "idle" /\ rts[g].state \in {"OFFLINE", "UNKNOWN"}
      BY <1>1, <2>5 DEF BootInv, NothingStarts
    <3>3. rts[g].state = "UNKNOWN" /\ new.step = "idle" /\ new.state \in {"OFFLINE", "UNKNOWN"}
      BY <3>1, <3>2 DEF Moves
    <3>4. NothingStarts'
      BY <1>1, <1>3, <2>5, <3>3 DEF BootInv, NothingStarts
    <3>5. ASSUME NEW s \in boot.todo
          PROVE  /\ rts'[sup[s]].hand = None /\ rts'[sup[s]].state = "OFFLINE"
                 /\ s \notin pending' /\ (writing # None => writing.s # s)
      <4>1. s \in Known /\ sup[s] # None /\ sup[s] \in Gens /\ s \in Servers
        BY <2>5 DEF BootInv, BootIsQuiet, AllRegistered, TypeOK, Known
      <4>2. rts[sup[s]].hand = None /\ rts[sup[s]].state = "OFFLINE" /\ s \notin pending
            /\ (writing # None => writing.s # s)
        BY <2>5 DEF BootInv, TurnToCome
      <4>3. sup[s] # g
        BY <3>3, <4>2
      <4>4. rts[g].server # s
        BY <1>1, <2>5, <4>1, <4>3 DEF BootInv, BootIsQuiet
      <4>5. s \notin pending'
        BY <4>2, <4>4 DEF Moves
      <4>6. QED  BY <1>1, <4>1, <4>2, <4>3, <4>5
    <3>6. TurnToCome'
      BY <1>3, <3>5 DEF TurnToCome
    <3>7. QED  BY <2>1, <2>2, <2>3, <2>4, <3>4, <3>6 DEF BootInv
  <2>6. CASE boot.phase # "adopt"
    <3>1. NothingStarts' /\ TurnToCome'
      BY <1>3, <2>6 DEF NothingStarts, TurnToCome
    <3>2. QED  BY <2>1, <2>2, <2>3, <2>4, <3>1 DEF BootInv
  <2>7. QED  BY <2>5, <2>6
<1>10. QED  BY <1>5, <1>6, <1>7, <1>8, <1>9

\* A request exists only when MSM is up.
LEMMA UpWithRequests ==
    ASSUME Structure, NEW i \in Slots, reqs[i] # None
    PROVE  boot.phase = "up" /\ boot.resets = {}
  BY DEF Structure, BootInv, BootIsQuiet, ResetsWait

\* The steps that touch requests and rows, not the runtimes.
LEMMA RequestsOnlyStructure ==
    ASSUME Structure, TypeOK', OneUpdate', boot.phase = "up",
           UNCHANGED <<sup, rts, alive, spawned, boot>>, orphaned \subseteq orphaned',
           \A j \in Slots : reqs'[j] # None /\ reqs'[j].kind \in LifeKinds =>
              \/ reqs'[j] = reqs[j]
              \/ reqs'[j].s \in Servers /\ sup[reqs'[j].s] # None /\ reqs'[j].g = sup[reqs'[j].s]
    PROVE  Structure'
<1> USE DEF Structure
<1>1. HandsRun'
  BY DEF HandsRun, IsSound, Live, IsAlive
<1>2. RequestsHold'
  BY DEF RequestsHold, TypeOK
<1>3. LostAreOrphaned'
  <2>1. ASSUME NEW g \in Gens, rts[g] # None, sup[rts[g].server] # g,
               HeldBy({"start", "restart"}, g)'
        PROVE  HeldBy({"start", "restart"}, g)
    <3>1. PICK j \in Slots : reqs'[j] # None /\ reqs'[j].g = g /\ reqs'[j].kind \in {"start", "restart"}
      BY <2>1 DEF HeldBy
    <3>2. ~(reqs'[j].s \in Servers /\ sup[reqs'[j].s] # None /\ reqs'[j].g = sup[reqs'[j].s])
      BY <2>1, <3>1 DEF TypeOK
    <3>3. reqs'[j] = reqs[j]
      BY <3>1, <3>2 DEF LifeKinds
    <3>4. QED  BY <3>1, <3>3 DEF HeldBy
  <2>2. QED  BY <2>1 DEF LostAreOrphaned
<1>4. BootInv'
  BY DEF BootInv, BootIsQuiet, ResetsWait, NothingYet, AllRegistered, NothingStarts, TurnToCome
<1>5. QED  BY <1>1, <1>2, <1>3, <1>4

\* The steps of a request that touch the rows only.
LEMMA RowStepStructure ==
    ASSUME Structure, TypeOK', NEW i \in Slots,
           \/ CommitsState(i) \/ Fails(i) \/ CommitsUpdate(i)
           \/ Plans(i) \/ Erases(i) \/ CommitsDeletion(i)
    PROVE  Structure'
<1> USE DEF Structure
<1>1. reqs[i] # None
  BY DEF CommitsState, Fails, CommitsUpdate, Plans, Erases, CommitsDeletion, Is
<1>2. boot.phase = "up"
  BY <1>1, UpWithRequests
<1>3. UNCHANGED <<sup, rts, alive, spawned, boot>>
  BY DEF CommitsState, Fails, CommitsUpdate, Plans, Erases, CommitsDeletion, world
<1>4. orphaned \subseteq orphaned'
  BY DEF CommitsState, Fails, CommitsUpdate, Plans, Erases, CommitsDeletion, history
<1>5. /\ \A j \in Slots \ {i} : reqs'[j] = reqs[j]
      /\ reqs'[i] # None => reqs[i].kind = "delete" /\ reqs'[i].kind = "delete"
  <2>1. CASE CommitsState(i) \/ Fails(i) \/ CommitsUpdate(i) \/ CommitsDeletion(i)
    <3>1. reqs' = [reqs EXCEPT ![i] = None]
      BY <2>1 DEF CommitsState, Fails, CommitsUpdate, CommitsDeletion, Done
    <3>2. QED  BY <3>1 DEF TypeOK
  <2>2. CASE Plans(i) \/ Erases(i)
    <3>1. PICK step \in {"go", "commit"} : reqs' = [reqs EXCEPT ![i] = [reqs[i] EXCEPT !.step = step]]
      BY <2>2 DEF Plans, Erases
    <3>2. reqs[i] \in Deletions
      BY <1>1, <2>2, KindType DEF Plans, Erases, Is
    <3>3. QED  BY <3>1, <3>2 DEF TypeOK, Deletions
  <2>3. QED  BY <2>1, <2>2
<1>6. OneUpdate'
  <2>1. ASSUME NEW j \in Slots, Is(j, {"update"}, "commit")'
        PROVE  j # i /\ Is(j, {"update"}, "commit")
    BY <1>5, <2>1 DEF Is
  <2>2. CASE Fails(i) \/ Plans(i) \/ Erases(i)
    <3>1. UNCHANGED <<rows, lock>>
      BY <2>2 DEF Fails, Plans, Erases
    <3>2. QED  BY <1>5, <2>1, <3>1 DEF OneUpdate
  <2>3. CASE CommitsUpdate(i)
    <3>1. lock = i
      BY <2>3 DEF CommitsUpdate, OneUpdate
    <3>2. QED  BY <2>1, <3>1 DEF OneUpdate
  <2>4. CASE CommitsState(i) \/ CommitsDeletion(i)
    <3>1. lock = None
      BY <2>4 DEF CommitsState, CommitsDeletion
    <3>2. QED  BY <2>1, <3>1 DEF OneUpdate
  <2>5. QED  BY <2>2, <2>3, <2>4
<1>7. QED  BY <1>2, <1>3, <1>4, <1>5, <1>6, RequestsOnlyStructure DEF LifeKinds

\* A new request.
LEMMA RequestsStructure ==
    ASSUME Structure, TypeOK', Requests
    PROVE  Structure'
<1> USE DEF Structure
<1>1. ASSUME NEW i \in Slots, NEW s \in Servers, NEW kind, NEW step \in {"start", "stop", "apply", "plan"},
             NEW arg, Asks(i, s, kind, step, arg), kind \in LifeKinds => sup[s] # None
      PROVE  Structure'
  <2> DEFINE new == [kind |-> kind, s |-> s, g |-> sup[s], step |-> step, arg |-> arg,
                     read |-> rows[s]]
  <2>1. /\ boot.phase = "up" /\ reqs' = [reqs EXCEPT ![i] = new]
        /\ UNCHANGED <<rows, sup, rts, pending, writing, lock, boot, alive, spawned, orphaned>>
    BY <1>1 DEF Asks, Free, world, history
  <2>2. new.kind = kind /\ new.s = s /\ new.g = sup[s] /\ new.step # "commit"
    OBVIOUS
  <2> HIDE DEF new
  <2>3. reqs'[i] = new /\ \A j \in Slots \ {i} : reqs'[j] = reqs[j]
    BY <2>1 DEF TypeOK
  <2>4. OneUpdate'
    BY <2>1, <2>2, <2>3 DEF OneUpdate, Is
  <2>5. QED  BY <1>1, <2>1, <2>2, <2>3, <2>4, RequestsOnlyStructure
<1>2. ASSUME NEW s \in Asked, SetsAutostart(s) PROVE Structure'
  <2>1. /\ boot.phase = "up" /\ rows[s] # None
        /\ rows' = [rows EXCEPT ![s].auto = ~@]
        /\ UNCHANGED <<sup, rts, reqs, pending, writing, lock, boot, alive, spawned, orphaned>>
    BY <1>2 DEF SetsAutostart, memory, world, history
  <2>2. lock = None
    BY <1>2 DEF SetsAutostart
  <2>3. OneUpdate'
    BY <2>1, <2>2 DEF OneUpdate, Is
  <2>4. QED  BY <2>1, <2>3, RequestsOnlyStructure
<1>3. QED
  BY <1>1, <1>2 DEF Requests, AsksUpdate, AsksDeletion, AsksServer, LifeKinds

\* What an update or a deletion replaces.
Given(r) == IF r.kind = "update" /\ r.arg.enabled THEN r.arg.dir ELSE None

\* An update that is applied and a deletion that unregisters replace one runtime, and go on.
LEMMA ReplacementIs ==
    ASSUME Structure, NEW i \in Slots, Applies(i) \/ Unregisters(i)
    PROVE  LET s == reqs[i].s
               dir == Given(reqs[i])
           IN  /\ reqs[i] # None /\ s \in Servers /\ reqs[i].kind \in {"update", "delete"}
               /\ dir \in Dirs \cup {None} /\ Replaced(s, dir)
               /\ UNCHANGED <<rows, writing, boot, world, undone>>
               /\ \A j \in Slots \ {i} : reqs'[j] = reqs[j]
               /\ reqs'[i] # None /\ reqs'[i].kind = reqs[i].kind /\ reqs'[i].s = s
               /\ reqs'[i].g = reqs[i].g /\ reqs'[i].arg = reqs[i].arg
               /\ reqs'[i].read = reqs[i].read
               /\ reqs'[i].step = IF reqs[i].kind = "update" THEN "commit" ELSE "erase"
               /\ reqs[i].step = IF reqs[i].kind = "update" THEN "apply" ELSE "go"
<1> DEFINE s == reqs[i].s
           dir == Given(reqs[i])
           step == IF reqs[i].kind = "update" THEN "commit" ELSE "erase"
           new == [reqs[i] EXCEPT !.step = step]
<1>1. /\ reqs[i] # None /\ s \in Servers /\ reqs[i].kind \in {"update", "delete"}
      /\ dir \in Dirs \cup {None} /\ Replaced(s, dir)
      /\ reqs[i].step = IF reqs[i].kind = "update" THEN "apply" ELSE "go"
      /\ reqs' = [reqs EXCEPT ![i] = new]
  <2>1. CASE Applies(i)
    <3>1. reqs[i] # None /\ reqs[i].kind = "update"
      BY <2>1 DEF Applies, Is
    <3>2. reqs[i].arg.dir \in Dirs /\ s \in Servers
      BY <3>1, KindType DEF Updates, Structure
    <3>3. QED  BY <2>1, <3>1, <3>2 DEF Applies, Is, Given
  <2>2. CASE Unregisters(i)
    BY <2>2, KindType DEF Unregisters, Is, Given, Structure
  <2>3. QED  BY <2>1, <2>2
<1>2. reqs[i] \in Updates \cup Deletions
  BY <1>1, KindType DEF Structure
<1>3. /\ new.kind = reqs[i].kind /\ new.g = reqs[i].g /\ new.s = s /\ new.arg = reqs[i].arg
      /\ new.read = reqs[i].read /\ new.step = step
  BY <1>2 DEF Updates, Deletions
<1>4. new # None
  <2>1. CASE reqs[i].kind = "update"
    <3>1. reqs[i] \in Updates
      BY <1>1, <2>1, KindType DEF Structure
    <3>2. [reqs[i] EXCEPT !.step = "commit"] \in Updates
      BY <3>1, StepType
    <3>3. QED  BY <2>1, <3>2
  <2>2. CASE reqs[i].kind # "update"
    <3>1. reqs[i] \in Deletions
      BY <1>1, <2>2, KindType DEF Structure
    <3>2. [reqs[i] EXCEPT !.step = "erase"] \in Deletions
      BY <3>1, StepType
    <3>3. QED  BY <2>2, <3>2
  <2>3. QED  BY <2>1, <2>2
<1> HIDE DEF new
<1>5. reqs'[i] = new /\ \A j \in Slots \ {i} : reqs'[j] = reqs[j]
  BY <1>1 DEF Structure, TypeOK
<1>6. UNCHANGED <<rows, writing, boot, world, undone>>
  BY DEF Applies, Unregisters
<1>7. QED  BY <1>1, <1>3, <1>4, <1>5, <1>6

\* What the replacement of a runtime does to who holds it.
LEMMA ReplacedStructure ==
    ASSUME Structure, TypeOK', NEW i \in Slots, Applies(i) \/ Unregisters(i)
    PROVE  Structure'
<1> USE DEF Structure
<1> DEFINE s == reqs[i].s
           dir == Given(reqs[i])
<1>1. /\ reqs[i] # None /\ s \in Servers /\ reqs[i].kind \in {"update", "delete"}
      /\ dir \in Dirs \cup {None} /\ Replaced(s, dir)
      /\ reqs'[i].s = s
  BY ReplacementIs
<1>2. boot.phase = "up" /\ boot.resets = {}
  BY <1>1, UpWithRequests
<1>3. /\ UNCHANGED <<rows, alive, spawned, boot>>
      /\ \A j \in Slots \ {i} : reqs'[j] = reqs[j]
      /\ reqs'[i] # None /\ reqs'[i].kind = reqs[i].kind /\ reqs'[i].g = reqs[i].g
  BY ReplacementIs DEF world
<1> HIDE DEF s, dir
<1>4. \A kinds \in SUBSET LifeKinds, g \in Gens : HeldBy(kinds, g)' <=> HeldBy(kinds, g)
  BY <1>1, <1>3 DEF HeldBy, LifeKinds
<1>5. /\ \A t \in Servers \ {s} : sup'[t] = sup[t] /\ (sup[t] # None => rts'[sup[t]] = rts[sup[t]])
      /\ sup'[s] # None <=> dir # None
      /\ sup'[s] # None => rts[sup'[s]] = None /\ rts'[sup'[s]] = Runtime(s, dir)
      /\ sup[s] # None => /\ sup[s] # sup'[s]
                          /\ rts'[sup[s]] = IF \/ rts[sup[s]].step # "idle"
                                               \/ HeldBy({"start", "stop", "restart"}, sup[s])
                                            THEN Detached(sup[s]) ELSE None
      /\ \A g \in Gens : g # sup[s] /\ g # sup'[s] => rts'[g] = rts[g]
  BY <1>1, ReplacedIs
<1>6. sup[s] # None => /\ sup[s] \in Gens /\ rts[sup[s]] # None /\ rts[sup[s]] \in Runtimes
                       /\ rts[sup[s]].server = s
  BY <1>1 DEF TypeOK
<1>7. sup[s] # None =>
         /\ Detached(sup[s]) \in Runtimes /\ Detached(sup[s]) # None
         /\ Detached(sup[s]).server = s /\ Detached(sup[s]).dir = rts[sup[s]].dir
         /\ Detached(sup[s]).hand = rts[sup[s]].hand /\ Detached(sup[s]).step = rts[sup[s]].step
         /\ Detached(sup[s]).watched = FALSE
         /\ rts[sup[s]].state \in RunningStates => Detached(sup[s]).state \in RunningStates
  <2> SUFFICES ASSUME sup[s] # None
               PROVE  /\ Detached(sup[s]) \in Runtimes /\ Detached(sup[s]) # None
                      /\ Detached(sup[s]).server = s /\ Detached(sup[s]).dir = rts[sup[s]].dir
                      /\ Detached(sup[s]).hand = rts[sup[s]].hand
                      /\ Detached(sup[s]).step = rts[sup[s]].step
                      /\ Detached(sup[s]).watched = FALSE
                      /\ rts[sup[s]].state \in RunningStates => Detached(sup[s]).state \in RunningStates
    OBVIOUS
  <2>1. rts[sup[s]] \in Runtimes /\ rts[sup[s]].server = s
    BY <1>6
  <2>2. /\ Detached(sup[s]) \in Runtimes
        /\ Detached(sup[s]).server = rts[sup[s]].server /\ Detached(sup[s]).dir = rts[sup[s]].dir
        /\ Detached(sup[s]).hand = rts[sup[s]].hand /\ Detached(sup[s]).step = rts[sup[s]].step
        /\ Detached(sup[s]).watched = FALSE
        /\ Detached(sup[s]).state = "UNKNOWN" \/ Detached(sup[s]).state = rts[sup[s]].state
    BY <2>1, DetachedIs
  <2>3. QED  BY <2>1, <2>2 DEF RunningStates
<1>8. HandsRun'
  <2>1. ASSUME NEW g \in Gens, rts'[g] # None PROVE IsSound(rts[g])'
    <3>1. CASE g = sup'[s]
      <4>1. rts'[g].hand = None /\ rts'[g].step = "idle"
        BY <1>5, <1>6, <3>1, Numbers DEF Runtime
      <4>2. QED  BY <4>1 DEF IsSound, Live
    <3>2. CASE g = sup[s] /\ g # sup'[s]
      <4>1. IsSound(rts[g]) /\ rts'[g] = Detached(g)
        BY <1>5, <1>6, <2>1, <3>2, Numbers DEF HandsRun
      <4>2. QED  BY <1>3, <1>7, <3>2, <4>1, Numbers DEF IsSound, Live, IsAlive
    <3>3. CASE g # sup[s] /\ g # sup'[s]
      <4>1. rts'[g] = rts[g] /\ IsSound(rts[g])
        BY <1>5, <2>1, <3>3 DEF HandsRun
      <4>2. QED  BY <1>3, <4>1 DEF IsSound, Live, IsAlive
    <3>4. QED  BY <3>1, <3>2, <3>3
  <2>2. QED  BY <1>3, <2>1 DEF HandsRun
<1>9. RequestsHold'
  <2>1. ASSUME NEW j \in Slots, reqs'[j] # None, reqs'[j].kind \in LifeKinds
        PROVE  rts'[reqs'[j].g] # None /\ rts'[reqs'[j].g].server = reqs'[j].s
    <3>1. j # i /\ reqs'[j] = reqs[j]
      BY <1>1, <1>3, <2>1 DEF LifeKinds
    <3>2. /\ reqs[j].g \in Gens /\ rts[reqs[j].g] # None /\ rts[reqs[j].g].server = reqs[j].s
      BY <2>1, <3>1, KindType DEF RequestsHold, Lives
    <3>3. CASE reqs[j].g = sup[s]
      <4>1. HeldBy({"start", "stop", "restart"}, sup[s])
        BY <2>1, <3>1, <3>3 DEF HeldBy, LifeKinds
      <4>2. QED  BY <1>5, <1>6, <1>7, <3>1, <3>2, <3>3, <4>1, Numbers
    <3>4. CASE reqs[j].g # sup[s]
      <4>1. reqs[j].g # sup'[s]
        BY <1>5, <3>2, Numbers
      <4>2. QED  BY <1>5, <3>1, <3>2, <3>4, <4>1
    <3>5. QED  BY <3>3, <3>4
  <2>2. QED  BY <2>1 DEF RequestsHold
<1>10. OneUpdate'
  <2>1. CASE Applies(i)
    <3>1. lock = None /\ lock' = i /\ rows[s] # None
      BY <2>1 DEF Applies, s
    <3>2. reqs'[i].s = s
      BY <1>1, <2>1, KindType DEF Applies, Is, Updates, TypeOK, s
    <3>3. QED  BY <1>3, <3>1, <3>2 DEF OneUpdate, Is
  <2>2. CASE Unregisters(i)
    <3>1. lock' = lock
      BY <2>2 DEF Unregisters
    <3>2. reqs'[i].kind = "delete"
      BY <1>3, <2>2 DEF Unregisters, Is
    <3>3. QED  BY <1>3, <3>1, <3>2 DEF OneUpdate, Is
  <2>3. QED  BY <2>1, <2>2
<1>11. orphaned \subseteq orphaned'
       /\ (sup[s] # None /\ InUse(sup[s]) => rts[sup[s]].dir \in orphaned')
  BY <1>1 DEF Replaced
<1>12. LostAreOrphaned'
  <2>1. ASSUME NEW g \in Gens, rts'[g] # None, sup'[rts'[g].server] # g,
               rts'[g].step # "idle" \/ rts'[g].watched \/ HeldBy({"start", "restart"}, g)'
        PROVE  rts'[g].dir \in orphaned'
    <3>1. HeldBy({"start", "restart"}, g)' <=> HeldBy({"start", "restart"}, g)
      BY <1>4 DEF LifeKinds
    <3>2. g # sup'[s]
      BY <1>1, <1>5, <2>1, Numbers DEF Runtime
    <3>3. CASE g = sup[s]
      <4>1. rts'[g] = Detached(g)
        BY <1>5, <2>1, <3>3, Numbers
      <4>2. rts[g].step # "idle" \/ HeldBy({"start", "restart"}, g)
        BY <1>7, <2>1, <3>1, <3>3, <4>1, Numbers
      <4>3. QED  BY <1>7, <1>11, <3>3, <4>1, <4>2, Numbers DEF InUse
    <3>4. CASE g # sup[s]
      <4>1. rts'[g] = rts[g]
        BY <1>5, <3>2, <3>4
      <4>2. sup[rts[g].server] # g
        BY <1>5, <2>1, <3>4, <4>1 DEF TypeOK, Runtimes
      <4>3. QED  BY <1>11, <2>1, <3>1, <4>1, <4>2 DEF LostAreOrphaned
    <3>5. QED  BY <3>3, <3>4
  <2>2. QED  BY <2>1 DEF LostAreOrphaned
<1>13. BootInv'
  BY <1>2, <1>3 DEF BootInv, BootIsQuiet, ResetsWait, NothingYet, AllRegistered, NothingStarts,
                    TurnToCome
<1>14. QED  BY <1>8, <1>9, <1>10, <1>12, <1>13

\* A write of a state, or of the start with MSM, keeps the folder.
KeepsFolder(s) ==
    /\ rows'[s] = None <=> rows[s] = None
    /\ rows[s] # None => rows'[s].dir = rows[s].dir /\ rows'[s].enabled = rows[s].enabled

\* What it says of the process.
KeepsState(s) ==
    rows[s] # None /\ rows'[s] # None =>
        rows'[s].state = rows[s].state /\ rows'[s].proc = rows[s].proc

\* The recorder writes a state.
LEMMA WritesIs ==
    ASSUME TypeOK, Writes
    PROVE  /\ writing # None /\ writing.s \in Servers /\ lock = None
           /\ \A t \in Servers : KeepsFolder(t)
           /\ \A t \in Servers \ {writing.s} : KeepsState(t)
           /\ rows[writing.s] # None => /\ rows'[writing.s].state = writing.state
                                        /\ rows'[writing.s].proc = writing.proc
           /\ writing' = None
           /\ UNCHANGED <<sup, rts, reqs, pending, lock, boot, world, acts, stops, history>>
<1>1. writing \in Writings /\ writing # None
  BY DEF Writes, TypeOK
<1>2. CASE rows[writing.s] = None
  BY <1>1, <1>2 DEF Writes, KeepsFolder, KeepsState, Writings
<1>3. CASE rows[writing.s] # None
  <2> DEFINE row == [rows[writing.s] EXCEPT !.state = writing.state, !.proc = writing.proc]
  <2>1. rows[writing.s] \in Rows /\ writing.state \in States /\ writing.proc \in Procs \cup {None}
        /\ writing.s \in Servers
    BY <1>1, <1>3 DEF TypeOK, Writings
  <2>2. rows' = [rows EXCEPT ![writing.s] = row]
    BY <1>3, <2>1 DEF Writes, TypeOK
  <2>3. /\ row \in Rows /\ row.dir = rows[writing.s].dir /\ row.enabled = rows[writing.s].enabled
        /\ row.state = writing.state /\ row.proc = writing.proc
    BY <2>1 DEF Rows
  <2> HIDE DEF row
  <2>4. rows'[writing.s] = row /\ \A t \in Servers \ {writing.s} : rows'[t] = rows[t]
    BY <2>1, <2>2 DEF TypeOK
  <2>5. QED  BY <1>1, <1>3, <2>1, <2>3, <2>4 DEF KeepsFolder, KeepsState, Writes
<1>4. QED  BY <1>2, <1>3

\* The recorder, and a process that ends.
LEMMA RecorderStructure ==
    ASSUME Structure, TypeOK',
           Writes \/ WriteFails \/ (\E s \in Servers : Takes(s)) \/ \E a \in alive : Exits(a)
    PROVE  Structure'
<1> USE DEF Structure
<1>1. /\ UNCHANGED <<sup, rts, reqs, lock, boot, orphaned>>
      /\ alive' \subseteq alive /\ spawned' = spawned
  BY DEF Writes, WriteFails, Takes, Exits, memory, world, history
<1>2. \A s \in Servers : KeepsFolder(s)
  BY WritesIs DEF KeepsFolder, WriteFails, Takes, Exits
<1>3. Known' = Known
  BY <1>2 DEF Known, KeepsFolder
<1>4. HandsRun'
  <2>1. \A p : Live(p)' => Live(p)
    BY <1>1 DEF Live, IsAlive
  <2>2. QED  BY <1>1, <2>1 DEF HandsRun, IsSound
<1>5. RequestsHold' /\ LostAreOrphaned'
  BY <1>1 DEF RequestsHold, LostAreOrphaned, HeldBy
<1>6. OneUpdate'
  BY <1>1, <1>2, KindType DEF OneUpdate, Is, KeepsFolder
<1>7. BootInv'
  <2>1. BootIsQuiet' /\ ResetsWait' /\ AllRegistered' /\ NothingStarts'
    BY <1>1, <1>2, <1>3
       DEF BootInv, BootIsQuiet, ResetsWait, AllRegistered, NothingStarts, Known, Dir, KeepsFolder
  <2>2. NothingYet'
    BY <1>1 DEF BootInv, NothingYet, Writes, WriteFails, Takes, Exits, memory
  <2>3. TurnToCome'
    <3>1. CASE boot.phase = "adopt"
      <4>1. \A s \in boot.todo : s \notin pending' /\ (writing' # None => writing'.s # s)
        BY <3>1 DEF BootInv, TurnToCome, Writes, WriteFails, Takes, Exits, memory
      <4>2. QED  BY <1>1, <4>1 DEF BootInv, TurnToCome
    <3>2. CASE boot.phase # "adopt"
      BY <1>1, <3>2 DEF TurnToCome
    <3>3. QED  BY <3>1, <3>2
  <2>4. QED  BY <2>1, <2>2, <2>3 DEF BootInv
<1>8. QED  BY <1>4, <1>5, <1>6, <1>7

\* MSM stops: nothing is left but the rows and the processes.
LEMMA StopStructure ==
    ASSUME Structure, TypeOK', MsmStops
    PROVE  Structure'
<1> USE DEF Structure
<1>1. /\ sup' = [s \in Servers |-> None] /\ rts' = [g \in Gens |-> None]
      /\ reqs' = [i \in Slots |-> None]
      /\ pending' = {} /\ writing' = None /\ lock' = None
      /\ boot' = [phase |-> "register", todo |-> {}, resets |-> {}]
      /\ UNCHANGED <<rows, alive, spawned>>
  BY DEF MsmStops, world
<1>2. HandsRun'
  BY <1>1 DEF HandsRun
<1>3. RequestsHold' /\ OneUpdate' /\ LostAreOrphaned'
  BY <1>1 DEF RequestsHold, OneUpdate, LostAreOrphaned, Is
<1>4. BootInv'
  BY <1>1 DEF BootInv, BootIsQuiet, ResetsWait, NothingYet, AllRegistered, NothingStarts, TurnToCome
<1>5. QED  BY <1>2, <1>3, <1>4

\* What the registration makes.
LEMMA RegistersAllIs ==
    ASSUME Structure, RegistersAll
    PROVE  /\ \A s \in Servers : sup'[s] # None <=> s \in Known
           /\ \A s \in Known : rows[s].dir \in Dirs /\ rts'[sup'[s]] = Runtime(s, rows[s].dir)
           /\ \A g \in Gens : rts'[g] # None => \E s \in Known : g = sup'[s]
<1> USE DEF Structure
<1> DEFINE dirs == [s \in Known |-> rows[s].dir]
<1>1. sup' = Numbered(Known) /\ rts' = Registering(Known, dirs)
  BY DEF RegistersAll
<1>2. Known \subseteq Servers /\ \A s \in Known : rows[s].dir \in Dirs
  BY DEF Known, TypeOK, Rows
<1>3. dirs \in [Known -> Dirs] /\ \A s \in Known : dirs[s] = rows[s].dir
  BY <1>2
<1> HIDE DEF dirs
<1>4. QED  BY <1>1, <1>2, <1>3, NumberedIs, RegisteringIs

\* The registration: what holds afterwards.
LEMMA RegistersAllStructure ==
    ASSUME Structure, TypeOK', RegistersAll
    PROVE  Structure'
<1> USE DEF Structure
<1>1. /\ boot.phase = "register" /\ boot'.phase = "adopt" /\ boot'.todo = Known
      /\ boot'.resets = boot.resets
      /\ UNCHANGED <<rows, reqs, pending, writing, lock, alive, spawned>>
  BY DEF RegistersAll, world, TypeOK
<1>2. /\ \A s \in Servers : sup'[s] # None <=> s \in Known
      /\ \A s \in Known : rows[s].dir \in Dirs /\ rts'[sup'[s]] = Runtime(s, rows[s].dir)
      /\ \A g \in Gens : rts'[g] # None => \E s \in Known : g = sup'[s]
  BY RegistersAllIs
<1>3. Known' = Known /\ Known \subseteq Servers
  BY <1>1 DEF Known
<1>4. \A g \in Gens : rts'[g] # None =>
         /\ rts'[g].hand = None /\ rts'[g].step = "idle" /\ rts'[g].state = "OFFLINE"
         /\ ~rts'[g].watched /\ sup'[rts'[g].server] = g
  <2> TAKE g \in Gens
  <2> HAVE rts'[g] # None
  <2>1. PICK s \in Known : g = sup'[s]
    BY <1>2
  <2>2. rts'[g] = Runtime(s, rows[s].dir)
    BY <1>2, <2>1
  <2>3. QED  BY <2>1, <2>2 DEF Runtime
<1>5. \A i \in Slots : reqs[i] = None
  BY <1>1 DEF BootInv, BootIsQuiet
<1>6. HandsRun'
  BY <1>1, <1>4 DEF HandsRun, IsSound, Live
<1>7. RequestsHold' /\ OneUpdate' /\ LostAreOrphaned'
  BY <1>1, <1>4, <1>5 DEF RequestsHold, OneUpdate, LostAreOrphaned, Is
<1>8. pending = {} /\ writing = None /\ boot.resets = {} /\ lock \in {"boot", None}
  BY <1>1 DEF BootInv, NothingYet, BootIsQuiet
<1>9. \A s \in Known : rts'[sup'[s]].dir = rows[s].dir /\ rts'[sup'[s]].hand = None
                       /\ rts'[sup'[s]].state = "OFFLINE"
  <2> TAKE s \in Known
  <2>1. rts'[sup'[s]] = Runtime(s, rows[s].dir)
    BY <1>2
  <2>2. QED  BY <2>1 DEF Runtime
<1>10. BootInv'
  BY <1>1, <1>2, <1>3, <1>4, <1>5, <1>8, <1>9
     DEF BootInv, BootIsQuiet, ResetsWait, NothingYet, AllRegistered, NothingStarts, TurnToCome, Dir
<1>11. QED  BY <1>6, <1>7, <1>10

\* A server in its turn: what it holds afterwards.
LEMMA AdoptsIs ==
    ASSUME Structure, NEW s \in Servers, Adopts(s)
    PROVE  /\ s \in boot.todo /\ s \in Known /\ rows[s] # None /\ rows[s] \in Rows
           /\ sup[s] \in Gens /\ rts[sup[s]] \in Runtimes
           /\ rts[sup[s]].server = s /\ rts[sup[s]].step = "idle" /\ rts[sup[s]].state = "OFFLINE"
           /\ rts[sup[s]].hand = None /\ Dir(s) = rows[s].dir
           /\ boot.phase = "adopt" /\ boot'.phase = "adopt" /\ boot'.todo = boot.todo \ {s}
           /\ UNCHANGED <<rows, sup, reqs, writing, world, acts, stops, history>>
           /\ \/ /\ boot'.resets = boot.resets /\ lock' = lock
                 /\ \E p \in Adoptable(s) : \E new :
                       /\ \E a \in alive : a.p = p
                       /\ new \in Runtimes /\ new # None
                       /\ new.server = s /\ new.dir = Dir(s) /\ new.step = "idle"
                       /\ new.state = "UNKNOWN" /\ new.hand = p /\ new.watched
                       /\ rts' = [rts EXCEPT ![sup[s]] = new] /\ pending' = pending \cup {s}
              \/ /\ Adoptable(s) = {} /\ UNCHANGED <<rts, pending>>
                 /\ IF rows[s].state \in RunningStates
                    THEN boot'.resets = boot.resets \cup {s} /\ lock' = "boot"
                    ELSE boot'.resets = boot.resets /\ lock' = lock
<1> USE DEF Structure
<1>1. s \in boot.todo /\ boot.phase = "adopt"
  BY DEF Adopts, First
<1>2. s \in Known /\ rows[s] # None /\ rows[s] \in Rows
  BY <1>1 DEF BootInv, BootIsQuiet, Known, TypeOK
<1>3. sup[s] # None /\ sup[s] \in Gens /\ rts[sup[s]] # None /\ rts[sup[s]] \in Runtimes
      /\ rts[sup[s]].server = s
  BY <1>1, <1>2 DEF BootInv, AllRegistered, TypeOK
<1>4. /\ rts[sup[s]].step = "idle" /\ rts[sup[s]].state = "OFFLINE" /\ rts[sup[s]].hand = None
  BY <1>1, <1>3 DEF BootInv, NothingStarts, TurnToCome
<1>5. Dir(s) = rows[s].dir
  BY <1>1, <1>3 DEF BootInv, BootIsQuiet
<1>6. UNCHANGED <<rows, sup, reqs, writing, world, acts, stops, history>>
  BY DEF Adopts
<1>7. CASE Adoptable(s) # {}
  <2>1. /\ boot' = [boot EXCEPT !.todo = @ \ {s}] /\ lock' = lock
        /\ \E p \in Adoptable(s) :
              Becomes(sup[s], [rts[sup[s]] EXCEPT !.state = "UNKNOWN", !.hand = p, !.watched = TRUE])
    BY <1>7 DEF Adopts
  <2>2. boot'.phase = "adopt" /\ boot'.todo = boot.todo \ {s} /\ boot'.resets = boot.resets
    BY <1>1, <2>1 DEF TypeOK
  <2>3. PICK p \in Adoptable(s) :
           Becomes(sup[s], [rts[sup[s]] EXCEPT !.state = "UNKNOWN", !.hand = p, !.watched = TRUE])
    BY <2>1
  <2>4. PICK a \in alive : a.p = p
    BY DEF Adoptable, IsAlive, InFolder
  <2>5. p \in Procs
    BY <2>4 DEF TypeOK
  <2> DEFINE new == [rts[sup[s]] EXCEPT !.state = "UNKNOWN", !.hand = p, !.watched = TRUE]
  <2>6. /\ new \in Runtimes /\ new.server = s /\ new.dir = Dir(s) /\ new.step = "idle"
        /\ new.state = "UNKNOWN" /\ new.hand = p /\ new.watched
    BY <1>3, <1>4, <2>5 DEF Runtimes, States, RunningStates, Dir
  <2>7. Becomes(sup[s], new)
    BY <2>3
  <2> HIDE DEF new
  <2>8. rts' = [rts EXCEPT ![sup[s]] = new] /\ pending' = pending \cup {s} /\ new # None
    BY <1>4, <2>6, <2>7 DEF Becomes
  <2>9. QED  BY <1>1, <1>2, <1>3, <1>4, <1>5, <1>6, <2>1, <2>2, <2>4, <2>6, <2>8
<1>8. CASE Adoptable(s) = {}
  <2>1. /\ UNCHANGED <<rts, pending>>
        /\ lock' = IF rows[s].state \in RunningStates THEN "boot" ELSE lock
        /\ boot' = [boot EXCEPT !.todo = @ \ {s},
                                !.resets = IF rows[s].state \in RunningStates
                                           THEN @ \cup {s} ELSE @]
    BY <1>8 DEF Adopts
  <2>2. boot'.phase = "adopt" /\ boot'.todo = boot.todo \ {s}
        /\ boot'.resets = IF rows[s].state \in RunningStates THEN boot.resets \cup {s} ELSE boot.resets
    BY <1>1, <2>1 DEF TypeOK
  <2>3. QED  BY <1>1, <1>2, <1>3, <1>4, <1>5, <1>6, <1>8, <2>1, <2>2
<1>9. QED  BY <1>7, <1>8

\* An adoption changes the runtime that was made for the server by this boot.
LEMMA AdoptsStructure ==
    ASSUME Structure, TypeOK', NEW s \in Servers, Adopts(s)
    PROVE  Structure'
<1> USE DEF Structure
<1>1. /\ s \in boot.todo /\ s \in Known /\ rows[s] # None /\ rows[s] \in Rows
      /\ sup[s] \in Gens /\ rts[sup[s]] \in Runtimes
      /\ rts[sup[s]].server = s /\ rts[sup[s]].step = "idle" /\ rts[sup[s]].state = "OFFLINE"
      /\ rts[sup[s]].hand = None /\ Dir(s) = rows[s].dir
      /\ boot.phase = "adopt" /\ boot'.phase = "adopt" /\ boot'.todo = boot.todo \ {s}
      /\ UNCHANGED <<rows, sup, reqs, writing, alive, spawned, orphaned>>
      /\ boot.resets \subseteq boot'.resets /\ boot'.resets \subseteq boot.resets \cup {s}
      /\ boot'.resets # {} => lock' = "boot" \/ (boot.resets # {} /\ lock' = lock)
      /\ lock' \in {lock, "boot"}
  BY AdoptsIs DEF world, history
<1>2. Known' = Known /\ Known \subseteq Servers
  BY <1>1 DEF Known
<1>3. /\ \A g \in Gens \ {sup[s]} : rts'[g] = rts[g]
      /\ pending' \subseteq pending \cup {s}
      /\ \/ rts'[sup[s]] = rts[sup[s]]
         \/ /\ rts'[sup[s]] \in Runtimes /\ rts'[sup[s]] # None
            /\ rts'[sup[s]].server = s /\ rts'[sup[s]].dir = Dir(s) /\ rts'[sup[s]].step = "idle"
            /\ rts'[sup[s]].state = "UNKNOWN" /\ \E a \in alive : a.p = rts'[sup[s]].hand
  <2>1. CASE UNCHANGED <<rts, pending>>
    BY <2>1
  <2>2. CASE ~UNCHANGED <<rts, pending>>
    <3>1. \E p \in Adoptable(s) : \E new :
             /\ \E a \in alive : a.p = p
             /\ new \in Runtimes /\ new # None
             /\ new.server = s /\ new.dir = Dir(s) /\ new.step = "idle"
             /\ new.state = "UNKNOWN" /\ new.hand = p /\ new.watched
             /\ rts' = [rts EXCEPT ![sup[s]] = new] /\ pending' = pending \cup {s}
      BY <2>2, AdoptsIs
    <3>2. PICK new :
             /\ \E a \in alive : a.p = new.hand
             /\ new \in Runtimes /\ new # None
             /\ new.server = s /\ new.dir = Dir(s) /\ new.step = "idle"
             /\ new.state = "UNKNOWN"
             /\ rts' = [rts EXCEPT ![sup[s]] = new] /\ pending' = pending \cup {s}
      BY <3>1
    <3>3. rts'[sup[s]] = new /\ \A g \in Gens \ {sup[s]} : rts'[g] = rts[g]
      BY <1>1, <3>2 DEF TypeOK
    <3>4. QED  BY <3>2, <3>3
  <2>3. QED  BY <2>1, <2>2
<1>4. \A i \in Slots : reqs[i] = None
  BY <1>1 DEF BootInv, BootIsQuiet
<1>5. HandsRun'
  <2>1. ASSUME NEW g \in Gens, rts'[g] # None PROVE IsSound(rts[g])'
    <3>1. CASE rts'[g] = rts[g]
      BY <1>1, <2>1, <3>1 DEF HandsRun, IsSound, Live, IsAlive
    <3>2. CASE rts'[g] # rts[g]
      <4>1. /\ rts'[g].step = "idle" /\ rts'[g].state = "UNKNOWN"
            /\ \E a \in alive : a.p = rts'[g].hand
        BY <1>3, <3>2
      <4>2. rts'[g].hand <= spawned
        BY <4>1 DEF HandsRun
      <4>3. QED  BY <1>1, <4>1, <4>2 DEF IsSound, RunningStates
    <3>3. QED  BY <3>1, <3>2
  <2>2. QED  BY <1>1, <2>1 DEF HandsRun
<1>6. RequestsHold' /\ OneUpdate'
  BY <1>1, <1>4 DEF RequestsHold, OneUpdate, Is
<1>7. \A g \in Gens : rts'[g] # None =>
         /\ rts[g] # None /\ rts'[g].server = rts[g].server /\ rts'[g].dir = rts[g].dir
         /\ rts'[g].step = "idle" /\ rts'[g].state \in {"OFFLINE", "UNKNOWN"}
  BY <1>1, <1>3 DEF Dir, BootInv, NothingStarts, TypeOK
<1>8. BootIsQuiet'
  <2>1. \A t \in Servers : sup[t] # None => t \in Known /\ rts'[sup[t]].dir = rows[t].dir
    <3>1. \A t \in Servers : sup[t] # None => t \in Known /\ rts[sup[t]].dir = rows[t].dir
                                              /\ sup[t] \in Gens
      BY <1>1 DEF BootInv, BootIsQuiet, Dir, TypeOK
    <3>2. QED  BY <1>1, <1>3, <3>1 DEF Dir
  <2>2. \A g \in Gens : rts'[g] # None => sup[rts'[g].server] = g
    BY <1>1, <1>7 DEF BootInv, BootIsQuiet
  <2>3. lock' \in {"boot", None} /\ boot'.todo \subseteq Known /\ boot'.resets \subseteq Known
    BY <1>1 DEF BootInv, BootIsQuiet
  <2>4. QED  BY <1>1, <1>2, <1>4, <2>1, <2>2, <2>3 DEF BootIsQuiet, Dir
<1>9. LostAreOrphaned'
  BY <1>1, <1>8 DEF BootIsQuiet, LostAreOrphaned
<1>10. ResetsWait' /\ NothingYet' /\ AllRegistered' /\ NothingStarts'
  BY <1>1, <1>2, <1>7 DEF BootInv, ResetsWait, NothingYet, AllRegistered, NothingStarts
<1>11. TurnToCome'
  <2>1. ASSUME NEW t \in boot.todo \ {s}
        PROVE  /\ rts'[sup[t]].hand = None /\ rts'[sup[t]].state = "OFFLINE"
               /\ t \notin pending' /\ (writing # None => writing.s # t)
    <3>1. /\ rts[sup[t]].hand = None /\ rts[sup[t]].state = "OFFLINE"
          /\ t \notin pending /\ (writing # None => writing.s # t)
      BY <1>1 DEF BootInv, TurnToCome
    <3>2. t \in Servers /\ sup[t] # None /\ sup[t] \in Gens /\ rts[sup[t]].server = t
      BY <1>1, <1>2 DEF BootInv, BootIsQuiet, AllRegistered, TypeOK
    <3>3. sup[t] # sup[s]
      BY <1>1, <3>2
    <3>4. QED  BY <1>3, <3>1, <3>2, <3>3
  <2>2. QED  BY <1>1, <2>1 DEF TurnToCome
<1>12. QED  BY <1>5, <1>6, <1>8, <1>9, <1>10, <1>11 DEF BootInv

\* The adoptions are over, a server starts with MSM, MSM is up.
LEMMA AutostartStructure ==
    ASSUME Structure, TypeOK', BeginsAutostart \/ Boots \/ \E s \in Servers : Autostarts(s)
    PROVE  Structure'
<1> USE DEF Structure
<1>1. CASE BeginsAutostart
  <2>1. /\ boot.phase = "adopt" /\ boot'.phase = "autostart" /\ boot'.todo \subseteq Known
        /\ boot'.resets = boot.resets
        /\ UNCHANGED <<rows, sup, rts, reqs, pending, writing, lock, alive, spawned, orphaned>>
    BY <1>1 DEF BeginsAutostart, TypeOK, world, history
  <2>2. Known' = Known
    BY <2>1 DEF Known
  <2>3. HandsRun' /\ RequestsHold' /\ OneUpdate' /\ LostAreOrphaned'
    BY <2>1 DEF HandsRun, RequestsHold, OneUpdate, LostAreOrphaned, IsSound, Live, IsAlive, Is, HeldBy
  <2>4. BootInv'
    BY <2>1, <2>2 DEF BootInv, BootIsQuiet, ResetsWait, NothingYet, AllRegistered, NothingStarts,
                      TurnToCome, Dir
  <2>5. QED  BY <2>3, <2>4
<1>2. CASE Boots
  <2>1. /\ boot.phase = "autostart" /\ boot'.phase = "up" /\ boot'.resets = {}
        /\ UNCHANGED <<sup, rts, reqs, alive, spawned, orphaned>>
    BY <1>2 DEF Boots, world, history
  <2>2. \A i \in Slots : reqs[i] = None
    BY <2>1 DEF BootInv, BootIsQuiet
  <2>3. HandsRun' /\ RequestsHold' /\ OneUpdate' /\ LostAreOrphaned'
    BY <2>1, <2>2 DEF HandsRun, RequestsHold, OneUpdate, LostAreOrphaned, IsSound, Live, IsAlive, Is, HeldBy
  <2>4. BootInv'
    BY <2>1 DEF BootInv, BootIsQuiet, ResetsWait, NothingYet, AllRegistered, NothingStarts,
                TurnToCome
  <2>5. QED  BY <2>3, <2>4
<1>3. ASSUME NEW s \in Servers, Autostarts(s) PROVE Structure'
  <2>1. /\ boot.phase = "autostart" /\ s \in boot.todo /\ boot'.phase = "autostart"
        /\ boot'.todo = boot.todo \ {s} /\ boot'.resets = boot.resets
        /\ UNCHANGED <<rows, sup, reqs, pending, writing, lock, alive, spawned, orphaned>>
    BY <1>3 DEF Autostarts, First, TypeOK, world, history
  <2>2. s \in Known /\ sup[s] \in Gens /\ rts[sup[s]] # None /\ rts[sup[s]] \in Runtimes
    BY <2>1 DEF BootInv, BootIsQuiet, AllRegistered, TypeOK
  <2>3. Known' = Known
    BY <2>1 DEF Known
  <2> DEFINE new == [rts[sup[s]] EXCEPT !.step = "scan"]
  <2>4. /\ new \in Runtimes /\ new.server = rts[sup[s]].server /\ new.dir = rts[sup[s]].dir
        /\ new.hand = rts[sup[s]].hand /\ new.state = rts[sup[s]].state
        /\ new.step = "scan" /\ new # None
    BY <2>2 DEF Runtimes
  <2> HIDE DEF new
  <2>5. \/ rts' = rts
        \/ ~Running(sup[s]) /\ rts' = [rts EXCEPT ![sup[s]] = new]
    BY <1>3 DEF Autostarts, new
  <2>6. \A g \in Gens : \/ rts'[g] = rts[g]
                        \/ g = sup[s] /\ ~Running(g) /\ rts[g] # None /\ rts'[g] = new
    BY <2>2, <2>5 DEF TypeOK
  <2>7. \A g \in Gens : rts'[g] # None =>
           rts[g] # None /\ rts'[g].server = rts[g].server /\ rts'[g].dir = rts[g].dir
    BY <2>4, <2>6
  <2>8. HandsRun'
    <3>1. ASSUME NEW g \in Gens, rts'[g] # None PROVE IsSound(rts[g])'
      <4>1. CASE rts'[g] = rts[g]
        BY <2>1, <3>1, <4>1 DEF HandsRun, IsSound, Live, IsAlive
      <4>2. CASE g = sup[s] /\ ~Running(g) /\ rts[g] # None /\ rts'[g] = new
        <5>1. IsSound(rts[g]) /\ rts[g].state \notin RunningStates
          BY <4>2 DEF HandsRun, Running
        <5>2. QED  BY <2>1, <2>4, <4>2, <5>1 DEF IsSound, Live, IsAlive
      <4>3. QED  BY <2>6, <4>1, <4>2
    <3>2. QED  BY <2>1, <3>1 DEF HandsRun
  <2>9. \A i \in Slots : reqs[i] = None
    BY <2>1 DEF BootInv, BootIsQuiet
  <2>10. RequestsHold' /\ OneUpdate'
    BY <2>1, <2>9 DEF RequestsHold, OneUpdate, Is
  <2>11. BootIsQuiet'
    <3>1. \A t \in Servers : sup[t] # None => t \in Known /\ rts'[sup[t]].dir = rows[t].dir
      <4>1. \A t \in Servers : sup[t] # None => t \in Known /\ rts[sup[t]].dir = rows[t].dir
                                                /\ sup[t] \in Gens /\ rts[sup[t]] # None
        BY <2>1 DEF BootInv, BootIsQuiet, Dir, TypeOK
      <4>2. QED  BY <2>4, <2>6, <4>1
    <3>2. \A g \in Gens : rts'[g] # None => sup[rts'[g].server] = g
      BY <2>1, <2>7 DEF BootInv, BootIsQuiet
    <3>3. lock \in {"boot", None} /\ boot'.todo \subseteq Known /\ boot'.resets \subseteq Known
      BY <2>1 DEF BootInv, BootIsQuiet
    <3>4. QED  BY <2>1, <2>3, <2>9, <3>1, <3>2, <3>3 DEF BootIsQuiet, Dir
  <2>12. LostAreOrphaned'
    BY <2>1, <2>11 DEF BootIsQuiet, LostAreOrphaned
  <2>13. ResetsWait' /\ NothingYet' /\ AllRegistered' /\ NothingStarts' /\ TurnToCome'
    BY <2>1, <2>3 DEF BootInv, ResetsWait, NothingYet, AllRegistered, NothingStarts, TurnToCome
  <2>14. QED  BY <2>8, <2>10, <2>11, <2>12, <2>13 DEF BootInv
<1>4. QED  BY <1>1, <1>2, <1>3

\* Every step keeps who holds what.
LEMMA NextStructure ==
    ASSUME Structure, [Next]_vars
    PROVE  Structure'
<1>1. TypeOK'
  BY NextType
<1> USE <1>1
<1>2. ASSUME NEW g \in Gens, RuntimeStep(g) PROVE Structure'
  BY <1>2, RuntimeMoves, MovesStructure DEF Structure
<1>3. ASSUME NEW i \in Slots, RequestStep(i) PROVE Structure'
  <2>1. CASE BeginsStart(i) \/ BeginsStop(i) \/ EndsStop(i) \/ Persists(i)
    <3>1. PICK new : Moves(reqs[i].g, new) /\ reqs[i].g \in Gens
      BY <2>1, LifeMoves DEF Structure
    <3>2. QED  BY <3>1, MovesStructure
  <2>2. CASE \/ CommitsState(i) \/ Fails(i) \/ CommitsUpdate(i)
             \/ Plans(i) \/ Erases(i) \/ CommitsDeletion(i)
    BY <2>2, RowStepStructure
  <2>3. CASE Applies(i) \/ Unregisters(i)
    BY <2>3, ReplacedStructure
  <2>4. QED  BY <1>3, <2>1, <2>2, <2>3 DEF RequestStep
<1>4. CASE Requests
  BY <1>4, RequestsStructure
<1>5. CASE Writes \/ WriteFails \/ (\E s \in Servers : Takes(s)) \/ \E a \in alive : Exits(a)
  BY <1>5, RecorderStructure
<1>6. CASE MsmStops
  BY <1>6, StopStructure
<1>7. CASE BootStep
  BY <1>7, RegistersAllStructure, AdoptsStructure, AutostartStructure DEF BootStep
<1>8. CASE UNCHANGED vars
  <2>1. UNCHANGED <<rows, sup, rts, reqs, pending, writing, lock, boot, alive, spawned, orphaned>>
    BY <1>8 DEF vars, memory, world, history
  <2>2. QED
    BY <2>1 DEF Structure, HandsRun, RequestsHold, OneUpdate, LostAreOrphaned, IsSound, Live, IsAlive,
                Is, HeldBy, BootInv, BootIsQuiet, ResetsWait, NothingYet, AllRegistered,
                NothingStarts, TurnToCome, Known, Dir
<1>9. QED  BY <1>2, <1>3, <1>4, <1>5, <1>6, <1>7, <1>8 DEF Next

\* At first nothing runs and nobody asks.
LEMMA InitStructure == Init => Structure
<1> SUFFICES ASSUME Init PROVE Structure
  OBVIOUS
<1>1. /\ sup = Numbered(Servers) /\ rts = Registering(Servers, Home)
      /\ alive = {} /\ spawned = 0 /\ gone = {}
      /\ reqs = [i \in Slots |-> None]
      /\ pending = {} /\ writing = None /\ lock = None
      /\ boot = [phase |-> "up", todo |-> {}, resets |-> {}]
      /\ acts = 0 /\ stops = 0
      /\ unsure = {} /\ undone = {} /\ orphaned = {} /\ crossed = {}
  BY DEF Init
<1>2. /\ rts \in [Gens -> Runtimes \cup {None}] /\ sup \in [Servers -> Gens \cup {None}]
      /\ \A s \in Servers : sup[s] # None /\ rts[sup[s]] = Runtime(s, Home[s])
      /\ \A g \in Gens : rts[g] # None => \E s \in Servers : g = sup[s]
  BY <1>1, NumberedIs, RegisteringIs
<1>3. \A g \in Gens : rts[g] # None =>
         /\ rts[g].hand = None /\ rts[g].step = "idle" /\ rts[g].watched = FALSE
         /\ sup[rts[g].server] = g
  <2> TAKE g \in Gens
  <2> HAVE rts[g] # None
  <2>1. PICK s \in Servers : g = sup[s]
    BY <1>2
  <2>2. rts[g] = Runtime(s, Home[s])
    BY <1>2, <2>1
  <2>3. QED  BY <2>1, <2>2 DEF Runtime
<1>4. \A s \in Servers : sup[s] # None /\ rts[sup[s]] # None /\ rts[sup[s]].server = s
  <2> TAKE s \in Servers
  <2>1. rts[sup[s]] = Runtime(s, Home[s]) /\ Runtime(s, Home[s]) \in Runtimes /\ sup[s] # None
    BY <1>2 DEF Runtime, Runtimes, States
  <2>2. rts[sup[s]] # None
    BY <2>1
  <2>3. QED  BY <2>1, <2>2 DEF Runtime
<1>5. rows \in [Servers -> Rows \cup {None}]
  BY DEF Init, Rows, States
<1>6. TypeOK
  BY <1>1, <1>2, <1>4, <1>5 DEF TypeOK, Is
<1>7. HandsRun
  BY <1>1, <1>3 DEF HandsRun, IsSound, Live
<1>8. RequestsHold /\ OneUpdate /\ LostAreOrphaned
  BY <1>1, <1>3 DEF RequestsHold, OneUpdate, LostAreOrphaned, Is
<1>9. BootInv
  BY <1>1 DEF BootInv, BootIsQuiet, ResetsWait, NothingYet, AllRegistered, NothingStarts, TurnToCome
<1>10. QED  BY <1>6, <1>7, <1>8, <1>9 DEF Structure

\* The types of the rows, of the runtimes and of the requests are kept, and each server has
\* a runtime of its own.
THEOREM TypeCorrect == Spec => []TypeOK
<1>1. Structure => TypeOK
  BY DEF Structure
<1>2. QED  BY InitStructure, NextStructure, <1>1, PTL DEF Spec

-----------------------------------------------------------------------------
(***************************************************************************)
(* What is written in the rows, what becomes of the requests.              *)
(***************************************************************************)
\* The state at the end of a request to start or to stop.
LEMMA StateIsWritten ==
    ASSUME TypeOK, TypeOK', NEW i \in Slots, CommitsState(i)
    PROVE  LET s == reqs[i].s
           IN  /\ reqs[i] # None /\ reqs[i].kind \in LifeKinds /\ s \in Servers
               /\ reqs'[i] = None /\ \A j \in Slots \ {i} : reqs'[j] = reqs[j]
               /\ \A t \in Servers : KeepsFolder(t)
               /\ \A t \in Servers \ {s} : KeepsState(t)
               /\ \/ s \in unsure'
                  \/ sup[s] # None /\ rows'[s].state = rts[sup[s]].state
                     /\ rows'[s].proc = rts[sup[s]].hand
               /\ unsure \subseteq unsure'
               /\ UNCHANGED <<sup, rts, pending, writing, lock, boot, world, acts, stops,
                              undone, orphaned, crossed>>
<1> DEFINE r == reqs[i]
           s == r.s
           state == IF r.arg.state = r.read.state THEN rows[s].state ELSE r.arg.state
           proc == IF r.arg.proc = r.read.proc THEN rows[s].proc ELSE r.arg.proc
           row == [rows[s] EXCEPT !.state = state, !.proc = proc]
<1>1. r # None /\ r.kind \in LifeKinds /\ s \in Servers /\ rows[s] # None /\ rows[s] \in Rows
  <2>1. r # None /\ r.kind \in LifeKinds /\ rows[s] # None
    BY DEF CommitsState, Is, LifeKinds
  <2>2. QED  BY <2>1, KindType DEF TypeOK
<1>2. reqs'[i] = None /\ \A j \in Slots \ {i} : reqs'[j] = reqs[j]
  <2>1. reqs' = [reqs EXCEPT ![i] = None]
    BY DEF CommitsState, Done
  <2>2. QED  BY <2>1 DEF TypeOK
<1>3. rows' = [rows EXCEPT ![s] = row]
  BY DEF CommitsState
<1>4. row.dir = rows[s].dir /\ row.enabled = rows[s].enabled
  BY <1>1 DEF Rows
<1> HIDE DEF row
<1>5. rows'[s] = row /\ \A t \in Servers \ {s} : rows'[t] = rows[t]
  BY <1>1, <1>3 DEF TypeOK
<1>6. rows'[s] # None
  <2>1. state \in States /\ proc \in Procs \cup {None}
    <3>1. r.arg \in Reports
      BY <1>1 DEF TypeOK, CommitsState, Is, LifeKinds
    <3>2. QED  BY <1>1, <3>1 DEF Rows, Reports
  <2> HIDE DEF state, proc
  <2>2. row \in Rows
    BY <1>1, <2>1 DEF Rows, row
  <2>3. QED  BY <1>5, <2>2
<1>7. /\ \A t \in Servers : KeepsFolder(t)
      /\ \A t \in Servers \ {s} : KeepsState(t)
  BY <1>1, <1>4, <1>5, <1>6 DEF KeepsFolder, KeepsState
<1>8. /\ \/ s \in unsure'
         \/ sup[s] # None /\ rows'[s].state = rts[sup[s]].state /\ rows'[s].proc = rts[sup[s]].hand
      /\ unsure \subseteq unsure'
  BY DEF CommitsState
<1>9. UNCHANGED <<sup, rts, pending, writing, lock, boot, world, acts, stops,
                  undone, orphaned, crossed>>
  BY DEF CommitsState
<1>10. QED  BY <1>1, <1>2, <1>7, <1>8, <1>9

\* The end of an update.
LEMMA UpdateIsWritten ==
    ASSUME Structure, TypeOK', NEW i \in Slots, CommitsUpdate(i)
    PROVE  LET r == reqs[i]
               s == r.s
           IN  /\ Is(i, {"update"}, "commit") /\ s \in Servers
               /\ reqs'[i] = None /\ \A j \in Slots \ {i} : reqs'[j] = reqs[j]
               /\ rows[s] # None /\ rows'[s] # None
               /\ rows'[s].dir = rows[s].dir
                  \/ (rows'[s].dir = r.arg.dir /\ r.arg.dir # r.read.dir)
               /\ \A t \in Servers \ {s} : KeepsFolder(t)
               /\ \A t \in Servers : KeepsState(t)
               /\ orphaned \subseteq orphaned'
               /\ Disagrees(s, rows'[s]) => rts[sup[s]].dir \in orphaned'
               /\ UNCHANGED <<sup, rts, pending, writing, boot, world, acts, stops,
                              unsure, undone, crossed>>
<1> DEFINE r == reqs[i]
           s == r.s
           dir == IF r.arg.dir = r.read.dir THEN rows[s].dir ELSE r.arg.dir
           enabled == IF r.arg.enabled = r.read.enabled THEN rows[s].enabled ELSE r.arg.enabled
           row == [rows[s] EXCEPT !.dir = dir, !.enabled = enabled]
<1>1. /\ Is(i, {"update"}, "commit") /\ s \in Servers /\ rows[s] # None /\ rows[s] \in Rows
      /\ r \in Updates
  <2>1. Is(i, {"update"}, "commit")
    BY DEF CommitsUpdate
  <2>2. QED  BY <2>1, KindType DEF Structure, OneUpdate, TypeOK, Is
<1>2. reqs'[i] = None /\ \A j \in Slots \ {i} : reqs'[j] = reqs[j]
  <2>1. reqs' = [reqs EXCEPT ![i] = None]
    BY DEF CommitsUpdate, Done
  <2>2. QED  BY <2>1 DEF Structure, TypeOK
<1>3. rows' = [rows EXCEPT ![s] = row]
  BY DEF CommitsUpdate
<1>4. dir \in Dirs /\ enabled \in BOOLEAN
  BY <1>1 DEF Rows, Updates
<1>5. dir = rows[s].dir \/ (dir = r.arg.dir /\ r.arg.dir # r.read.dir)
  OBVIOUS
<1> HIDE DEF dir, enabled
<1>6. row \in Rows /\ row.dir = dir /\ row.state = rows[s].state /\ row.proc = rows[s].proc
  BY <1>1, <1>4 DEF Rows
<1> HIDE DEF row
<1>7. rows'[s] = row /\ \A t \in Servers \ {s} : rows'[t] = rows[t]
  BY <1>1, <1>3 DEF Structure, TypeOK
<1>8. /\ \A t \in Servers \ {s} : KeepsFolder(t)
      /\ \A t \in Servers : KeepsState(t)
      /\ rows'[s] # None
  BY <1>6, <1>7 DEF KeepsFolder, KeepsState
<1>9. /\ orphaned \subseteq orphaned'
      /\ Disagrees(s, rows'[s]) => rts[sup[s]].dir \in orphaned'
  BY DEF CommitsUpdate
<1>10. UNCHANGED <<sup, rts, pending, writing, boot, world, acts, stops, unsure, undone, crossed>>
  BY DEF CommitsUpdate
<1>11. QED  BY <1>1, <1>2, <1>5, <1>6, <1>7, <1>8, <1>9, <1>10

\* The end of a deletion.
LEMMA DeletionIsWritten ==
    ASSUME Structure, NEW i \in Slots, CommitsDeletion(i)
    PROVE  LET s == reqs[i].s
           IN  /\ Is(i, {"delete"}, "commit") /\ s \in Servers
               /\ reqs'[i] = None /\ \A j \in Slots \ {i} : reqs'[j] = reqs[j]
               /\ rows'[s] = None /\ \A t \in Servers \ {s} : rows'[t] = rows[t]
               /\ orphaned \subseteq orphaned'
               /\ sup[s] # None => rts[sup[s]].dir \in orphaned'
               /\ UNCHANGED <<sup, rts, pending, writing, lock, boot, world, acts, stops,
                              unsure, undone, crossed>>
<1>1. Is(i, {"delete"}, "commit") /\ reqs[i].s \in Servers
  BY KindType DEF CommitsDeletion, Is, Structure
<1>2. reqs' = [reqs EXCEPT ![i] = None] /\ rows' = [rows EXCEPT ![reqs[i].s] = None]
  BY DEF CommitsDeletion, Done
<1>3. /\ reqs'[i] = None /\ \A j \in Slots \ {i} : reqs'[j] = reqs[j]
      /\ rows'[reqs[i].s] = None /\ \A t \in Servers \ {reqs[i].s} : rows'[t] = rows[t]
  BY <1>1, <1>2 DEF Structure, TypeOK
<1>4. QED  BY <1>1, <1>3 DEF CommitsDeletion, Disagrees

\* A request that fails, a deletion before its end.
LEMMA DeletionMoves ==
    ASSUME Structure, NEW i \in Slots, Fails(i) \/ Plans(i) \/ Erases(i)
    PROVE  /\ reqs[i] # None /\ ~Is(i, {"update"}, "commit")
           /\ \A j \in Slots \ {i} : reqs'[j] = reqs[j]
           /\ Fails(i) => reqs'[i] = None
           /\ Plans(i) \/ Erases(i) =>
                 /\ reqs[i].kind = "delete" /\ reqs'[i] # None /\ reqs'[i].kind = "delete"
                 /\ reqs'[i].s = reqs[i].s /\ reqs'[i].arg = reqs[i].arg
                 /\ reqs[i].s \in Servers /\ reqs[i].arg \in Dirs
           /\ Plans(i) => reqs[i].step = "plan" /\ reqs'[i].step = "go"
           /\ Erases(i) => reqs[i].step = "erase" /\ reqs'[i].step = "commit"
           /\ UNCHANGED <<rows, sup, rts, pending, writing, lock, boot, alive, spawned, acts, stops,
                          unsure, orphaned>>
<1> USE DEF Structure
<1>1. reqs[i] # None /\ ~Is(i, {"update"}, "commit")
  <2>1. CASE Fails(i)
    BY <2>1 DEF Fails, OneUpdate
  <2>2. CASE Plans(i) \/ Erases(i)
    BY <2>2 DEF Plans, Erases, Is
  <2>3. QED  BY <2>1, <2>2
<1>2. CASE Fails(i)
  <2>1. reqs' = [reqs EXCEPT ![i] = None]
    BY <1>2 DEF Fails, Done
  <2>2. reqs'[i] = None /\ \A j \in Slots \ {i} : reqs'[j] = reqs[j]
    BY <2>1 DEF TypeOK
  <2>3. ~Plans(i) /\ ~Erases(i)
    <3>1. Plans(i) => reqs' = [reqs EXCEPT ![i] = [reqs[i] EXCEPT !.step = "go"]]
      BY DEF Plans
    <3>2. Erases(i) => reqs' = [reqs EXCEPT ![i] = [reqs[i] EXCEPT !.step = "commit"]]
      BY DEF Erases
    <3>3. Plans(i) \/ Erases(i) => reqs[i] \in Deletions
      BY KindType DEF Plans, Erases, Is
    <3>4. reqs[i] \in Deletions => /\ [reqs[i] EXCEPT !.step = "go"] \in Deletions
                                   /\ [reqs[i] EXCEPT !.step = "commit"] \in Deletions
      BY StepType
    <3>5. QED  BY <2>2, <3>1, <3>2, <3>3, <3>4 DEF TypeOK
  <2>4. QED  BY <1>1, <1>2, <2>2, <2>3 DEF Fails, world
<1>3. CASE ~Fails(i)
  <2> DEFINE step == IF Plans(i) THEN "go" ELSE "commit"
             new == [reqs[i] EXCEPT !.step = step]
  <2>1. /\ reqs[i].kind = "delete" /\ reqs' = [reqs EXCEPT ![i] = new]
        /\ reqs[i].step = IF Plans(i) THEN "plan" ELSE "erase"
    BY <1>3 DEF Plans, Erases, Is
  <2>2. reqs[i] \in Deletions
    BY <1>1, <2>1, KindType
  <2>3. new \in Deletions /\ new.kind = "delete" /\ new.s = reqs[i].s /\ new.arg = reqs[i].arg
        /\ new.step = step
    BY <2>2 DEF Deletions
  <2> HIDE DEF new
  <2>4. reqs'[i] = new /\ \A j \in Slots \ {i} : reqs'[j] = reqs[j]
    BY <2>1 DEF TypeOK
  <2>5. Erases(i) => reqs[i].step = "erase"
    BY DEF Erases, Is
  <2>6. UNCHANGED <<rows, sup, rts, pending, writing, lock, boot, alive, spawned, acts, stops,
                    unsure, orphaned>>
    BY <1>3 DEF Plans, Erases, history, world
  <2>7. QED  BY <1>1, <1>3, <2>1, <2>2, <2>3, <2>4, <2>5, <2>6 DEF Deletions
<1>4. QED  BY <1>2, <1>3

\* A request that is made has done nothing yet; what starts with MSM is written at once.
LEMMA RequestsIs ==
    ASSUME Structure, Requests
    PROVE  /\ boot.phase = "up"
           /\ UNCHANGED <<sup, rts, pending, writing, lock, boot, world, stops, history>>
           /\ \A t \in Servers : KeepsFolder(t) /\ KeepsState(t)
           /\ \A i \in Slots : \/ reqs'[i] = reqs[i]
                               \/ /\ reqs[i] = None
                                  /\ reqs'[i].step \in {"start", "stop", "apply", "plan"}
<1> USE DEF Structure
<1>1. ASSUME NEW i \in Slots, NEW s \in Servers, NEW kind, NEW step \in {"start", "stop", "apply", "plan"},
             NEW arg, Asks(i, s, kind, step, arg)
      PROVE  /\ boot.phase = "up"
             /\ UNCHANGED <<rows, sup, rts, pending, writing, lock, boot, world, stops, history>>
             /\ \A j \in Slots : \/ reqs'[j] = reqs[j]
                                 \/ /\ reqs[j] = None
                                    /\ reqs'[j].step \in {"start", "stop", "apply", "plan"}
  <2> DEFINE new == [kind |-> kind, s |-> s, g |-> sup[s], step |-> step, arg |-> arg,
                     read |-> rows[s]]
  <2>1. /\ boot.phase = "up" /\ reqs' = [reqs EXCEPT ![i] = new] /\ reqs[i] = None
        /\ UNCHANGED <<rows, sup, rts, pending, writing, lock, boot, world, stops, history>>
    BY <1>1 DEF Asks, Free
  <2>2. new.step = step
    OBVIOUS
  <2> HIDE DEF new
  <2>3. reqs'[i] = new /\ \A j \in Slots \ {i} : reqs'[j] = reqs[j]
    BY <2>1 DEF TypeOK
  <2>4. QED  BY <2>1, <2>2, <2>3
<1>2. ASSUME NEW s \in Asked, SetsAutostart(s)
      PROVE  /\ boot.phase = "up"
             /\ UNCHANGED <<sup, rts, reqs, pending, writing, lock, boot, world, stops, history>>
             /\ \A t \in Servers : KeepsFolder(t) /\ KeepsState(t)
  <2> DEFINE row == [rows[s] EXCEPT !.auto = ~@]
  <2>1. /\ boot.phase = "up" /\ rows[s] # None /\ rows' = [rows EXCEPT ![s] = row]
        /\ UNCHANGED <<sup, rts, reqs, pending, writing, lock, boot, world, stops, history>>
    BY <1>2 DEF SetsAutostart, memory
  <2>2. s \in Servers /\ rows[s] \in Rows
    BY <2>1 DEF TypeOK
  <2>3. /\ row \in Rows /\ row.dir = rows[s].dir /\ row.enabled = rows[s].enabled
        /\ row.state = rows[s].state /\ row.proc = rows[s].proc
    BY <2>2 DEF Rows
  <2> HIDE DEF row
  <2>4. rows'[s] = row /\ \A t \in Servers \ {s} : rows'[t] = rows[t]
    BY <2>1, <2>2 DEF TypeOK
  <2>5. QED  BY <2>1, <2>2, <2>3, <2>4 DEF KeepsFolder, KeepsState
<1>3. QED
  BY <1>1, <1>2 DEF Requests, AsksUpdate, AsksDeletion, AsksServer, KeepsFolder, KeepsState

\* The rows that said running for nothing are reset at the end of the boot.
LEMMA BootsIs ==
    ASSUME Structure, Boots
    PROVE  /\ \A t \in Servers : KeepsFolder(t)
           /\ \A t \in Servers \ boot.resets : KeepsState(t)
           /\ \A t \in boot.resets : t \in Servers /\ rows[t] # None /\ rows'[t].state = "OFFLINE"
           /\ boot.phase = "autostart" /\ boot'.phase = "up" /\ boot'.resets = {}
           /\ UNCHANGED <<sup, rts, reqs, pending, writing, world, acts, stops, history>>
<1> USE DEF Structure
<1>1. /\ boot.phase = "autostart" /\ boot'.phase = "up" /\ boot'.resets = {}
      /\ UNCHANGED <<sup, rts, reqs, pending, writing, world, acts, stops, history>>
      /\ rows' = [s \in Servers |->
            IF s \in boot.resets THEN [rows[s] EXCEPT !.state = "OFFLINE", !.proc = None]
            ELSE rows[s]]
  BY DEF Boots
<1>2. ASSUME NEW t \in boot.resets
      PROVE  /\ t \in Servers /\ rows[t] # None /\ KeepsFolder(t) /\ rows'[t].state = "OFFLINE"
  <2>1. t \in Servers /\ rows[t] # None /\ rows[t] \in Rows
    BY <1>1, <1>2, ZenonT(40) DEF BootInv, BootIsQuiet, Known, TypeOK
  <2> DEFINE row == [rows[t] EXCEPT !.state = "OFFLINE", !.proc = None]
  <2>2. /\ row \in Rows /\ row.dir = rows[t].dir /\ row.enabled = rows[t].enabled
        /\ row.state = "OFFLINE"
    BY <2>1 DEF Rows, States
  <2>3. rows'[t] = row
    BY <1>1, <1>2, <2>1
  <2> HIDE DEF row
  <2>4. QED  BY <2>1, <2>2, <2>3 DEF KeepsFolder
<1>3. \A t \in Servers \ boot.resets : rows'[t] = rows[t]
  BY <1>1
<1>4. QED  BY <1>1, <1>2, <1>3 DEF KeepsFolder, KeepsState

-----------------------------------------------------------------------------
(***************************************************************************)
(* Every process is held.                                                  *)
(***************************************************************************)
\* The row of a server tells of its runtime, or will when the update that has replaced it is
\* committed.
Updated(s) == \E i \in Slots :
    Is(i, {"update"}, "commit") /\ reqs[i].s = s /\ reqs[i].arg.dir = Dir(s)

RowMatches == \A s \in Servers : sup[s] # None =>
    Updated(s) \/ ~Disagrees(s, rows[s]) \/ Dir(s) \in orphaned

\* The servers that a boot has still to look at.
Awaited ==
    IF boot.phase = "register" THEN Known ELSE IF boot.phase = "adopt" THEN boot.todo ELSE {}

\* Each process is watched by the runtime of its folder, or will be found by the boot.
HeldBySome(a) ==
    \/ a.dir \in orphaned
    \/ \E s \in Servers : Watches(s, a.p) /\ Dir(s) = a.dir
    \/ \E s \in Awaited : rows[s].dir = a.dir

Held == \A a \in alive : HeldBySome(a)

\* A boot finds in a folder the one process that runs there, and the process of a row there.
OneInFolder == \A a, b \in alive : a.dir = b.dir /\ a # b => a.dir \in orphaned
AtHome(s) == \A a \in alive :
    rows[s].proc = a.p /\ rows[s].state \in RunningStates =>
        a.dir = rows[s].dir \/ rows[s].dir \in orphaned

Tidy == boot.phase \in {"register", "adopt"} => OneInFolder /\ \A s \in Awaited : AtHome(s)

Holding == RowMatches /\ Held /\ Tidy

\* The servers a boot still has to adopt are known ones, and their rows are there.
LEMMA AwaitedIs ==
    ASSUME Structure
    PROVE  /\ Awaited \subseteq Known /\ Known \subseteq Servers
           /\ boot.phase \notin {"register", "adopt"} => Awaited = {}
           /\ \A s \in Known : rows[s] # None /\ rows[s] \in Rows
  BY DEF Structure, BootInv, BootIsQuiet, Awaited, Known, TypeOK

\* The steps that leave the runtimes that are found, and what waits for the boot.
LEMMA CalmHolding ==
    ASSUME Structure, Holding,
           UNCHANGED <<sup, Awaited>>,
           boot'.phase \in {"register", "adopt"} => boot.phase \in {"register", "adopt"},
           alive' \subseteq alive, orphaned \subseteq orphaned',
           \A s \in Servers : sup[s] # None =>
              /\ rts'[sup[s]].dir = rts[sup[s]].dir /\ rts'[sup[s]].hand = rts[sup[s]].hand
              /\ rts'[sup[s]].watched = rts[sup[s]].watched,
           \A s \in Servers : KeepsFolder(s), \A s \in Awaited : KeepsState(s),
           \A i \in Slots : Is(i, {"update"}, "commit") => reqs'[i] = reqs[i]
    PROVE  Holding'
<1> USE DEF Holding
<1>1. /\ Awaited \subseteq Known /\ Known \subseteq Servers
      /\ \A s \in Known : rows[s] # None
  BY AwaitedIs
<1>2. ASSUME NEW s \in Servers, sup[s] # None
      PROVE  Updated(s)' \/ ~Disagrees(s, rows[s])' \/ Dir(s)' \in orphaned'
  <2>1. Dir(s)' = Dir(s)
    BY <1>2 DEF Dir
  <2>2. Updated(s) => Updated(s)'
    BY <2>1 DEF Updated, Is
  <2>3. Disagrees(s, rows[s])' => Disagrees(s, rows[s])
    BY <1>2, <2>1 DEF Disagrees, KeepsFolder
  <2>4. QED  BY <1>2, <2>1, <2>2, <2>3 DEF RowMatches
<1>3. ASSUME NEW a \in alive, HeldBySome(a) PROVE HeldBySome(a)'
  <2>1. \A s \in Servers : Watches(s, a.p) /\ Dir(s) = a.dir => Watches(s, a.p)' /\ Dir(s)' = a.dir
    BY DEF Watches, Dir
  <2>2. \A s \in Awaited : rows'[s].dir = rows[s].dir
    BY <1>1 DEF KeepsFolder
  <2>3. QED  BY <1>3, <2>1, <2>2 DEF HeldBySome
<1>4. ASSUME NEW s \in Awaited, AtHome(s) PROVE AtHome(s)'
  <2>1. rows[s] # None /\ s \in Servers
    BY <1>1
  <2>2. rows'[s].dir = rows[s].dir /\ rows'[s].state = rows[s].state /\ rows'[s].proc = rows[s].proc
    BY <2>1 DEF KeepsFolder, KeepsState
  <2>3. QED  BY <1>4, <2>2 DEF AtHome
<1>5. RowMatches'
  BY <1>2 DEF RowMatches
<1>6. Held'
  BY <1>3 DEF Held
<1>7. Tidy'
  BY <1>4 DEF Tidy, OneInFolder
<1>8. QED  BY <1>5, <1>6, <1>7

\* The steps that move one runtime: a process that begins is watched by its runtime, or that
\* runtime was replaced in use.
LEMMA MovesHolding ==
    ASSUME Structure, Holding, NEW g \in Gens, NEW new, Moves(g, new)
    PROVE  Holding'
<1> USE DEF Holding, Structure
<1>1. /\ rts[g] \in Runtimes /\ rts[g] # None /\ new \in Runtimes /\ rts'[g] = new
      /\ new.server = rts[g].server /\ new.dir = rts[g].dir
      /\ \A h \in Gens \ {g} : rts'[h] = rts[h]
  BY DEF Moves, TypeOK
<1>2. /\ UNCHANGED <<rows, sup, boot, orphaned>> /\ Known' = Known /\ Awaited' = Awaited
  BY DEF Moves, history, Known, Awaited
<1>3. \A s \in Servers : sup[s] # None => sup[s] \in Gens /\ Dir(s)' = Dir(s)
  BY <1>1, <1>2 DEF Dir, TypeOK
<1>4. RowMatches'
  <2>1. \A i \in Slots : Is(i, {"update"}, "commit") => reqs'[i] = reqs[i]
    BY DEF Moves, Is, Lives, LifeKinds
  <2>2. ASSUME NEW s \in Servers, sup[s] # None
        PROVE  Updated(s)' \/ ~Disagrees(s, rows[s])' \/ Dir(s)' \in orphaned'
    <3>1. Updated(s) => Updated(s)'
      BY <1>3, <2>1, <2>2 DEF Updated, Is
    <3>2. Disagrees(s, rows[s])' => Disagrees(s, rows[s])
      BY <1>2, <1>3, <2>2 DEF Disagrees, Dir
    <3>3. QED  BY <1>2, <1>3, <2>2, <3>1, <3>2 DEF RowMatches
  <2>3. QED  BY <1>2, <2>2 DEF RowMatches
<1>5. ASSUME NEW a \in alive PROVE HeldBySome(a)'
  <2>1. ASSUME NEW s \in Servers, Watches(s, a.p), Dir(s) = a.dir PROVE Watches(s, a.p)' /\ Dir(s)' = a.dir
    <3>1. CASE sup[s] = g
      <4>1. Live(rts[g].hand)
        BY <1>5, <2>1, <3>1, Numbers DEF Watches, Live, IsAlive, TypeOK
      <4>2. new.hand = rts[g].hand /\ new.watched = rts[g].watched
        BY <4>1 DEF Moves
      <4>3. QED  BY <1>1, <1>2, <1>3, <2>1, <3>1, <4>2 DEF Watches
    <3>2. CASE sup[s] # g
      BY <1>1, <1>2, <1>3, <2>1, <3>2 DEF Watches
    <3>3. QED  BY <3>1, <3>2
  <2>2. HeldBySome(a)
    BY DEF Held
  <2>3. QED  BY <1>2, <2>1, <2>2 DEF HeldBySome
<1>6. CASE UNCHANGED alive
  <2>1. Held'
    BY <1>5, <1>6 DEF Held
  <2>2. Tidy'
    BY <1>2, <1>6 DEF Tidy, OneInFolder, AtHome
  <2>3. QED  BY <1>4, <2>1, <2>2
<1>7. ASSUME rts[g].step = "prepare", alive' = alive \cup {[p |-> spawned', dir |-> rts[g].dir]},
             new.hand = spawned', new.watched
      PROVE  Holding'
  <2>1. ASSUME NEW a, a = [p |-> spawned', dir |-> rts[g].dir] PROVE HeldBySome(a)'
    <3>1. a.p = spawned' /\ a.dir = rts[g].dir
      BY <2>1
    <3>2. CASE sup[rts[g].server] = g
      <4>1. PICK s \in Servers : s = rts[g].server
        BY <1>1 DEF Runtimes
      <4>2. Watches(s, a.p)' /\ Dir(s)' = a.dir
        BY <1>1, <1>2, <1>7, <3>1, <3>2, <4>1, Numbers DEF Watches, Dir
      <4>3. QED  BY <4>1, <4>2 DEF HeldBySome
    <3>3. CASE sup[rts[g].server] # g
      <4>1. rts[g].dir \in orphaned
        BY <1>1, <1>7, <3>3 DEF LostAreOrphaned
      <4>2. QED  BY <1>2, <3>1, <4>1 DEF HeldBySome
    <3>4. QED  BY <3>2, <3>3
  <2>2. Held'
    BY <1>5, <1>7, <2>1 DEF Held
  <2>3. boot.phase \notin {"register", "adopt"}
    BY <1>1, <1>7 DEF BootInv, NothingYet, NothingStarts
  <2>4. Tidy'
    BY <1>2, <2>3 DEF Tidy
  <2>5. QED  BY <1>4, <2>2, <2>4
<1>8. QED  BY <1>6, <1>7 DEF Moves

\* A runtime that holds a process alive is in use: its folder is remembered when it goes.
LEMMA ReplacementHolding ==
    ASSUME Structure, Structure', Holding, NEW i \in Slots, Applies(i) \/ Unregisters(i)
    PROVE  Holding'
<1> USE DEF Holding, Structure
<1>0. PICK s, dir : s = reqs[i].s /\ dir = Given(reqs[i])
  OBVIOUS
<1>1. /\ reqs[i] # None /\ s \in Servers /\ dir \in Dirs \cup {None} /\ Replaced(s, dir)
      /\ UNCHANGED <<rows, boot, alive>>
      /\ \A j \in Slots \ {i} : reqs'[j] = reqs[j]
      /\ reqs'[i] # None /\ reqs'[i].kind = reqs[i].kind /\ reqs'[i].s = s
      /\ reqs'[i].arg = reqs[i].arg
      /\ reqs'[i].step = IF reqs[i].kind = "update" THEN "commit" ELSE "erase"
      /\ reqs[i].step = IF reqs[i].kind = "update" THEN "apply" ELSE "go"
  BY <1>0, ReplacementIs DEF world
<1>2. dir # None => reqs[i].kind = "update" /\ dir = reqs[i].arg.dir
  BY <1>0 DEF Given
<1>3. /\ \A t \in Servers \ {s} : sup'[t] = sup[t] /\ (sup[t] # None => rts'[sup[t]] = rts[sup[t]])
      /\ sup'[s] # None <=> dir # None
      /\ sup'[s] # None => rts'[sup'[s]] = Runtime(s, dir)
  BY <1>1, ReplacedIs
<1>4. /\ orphaned \subseteq orphaned'
      /\ sup[s] # None /\ InUse(sup[s]) => rts[sup[s]].dir \in orphaned'
  BY <1>1 DEF Replaced
<1>5. boot.phase = "up" /\ Awaited = {} /\ Awaited' = {}
  <2>1. boot.phase = "up"
    BY <1>1, UpWithRequests
  <2>2. QED  BY <1>1, <2>1 DEF Awaited
<1>6. RowMatches'
  <2>1. ASSUME NEW t \in Servers, sup'[t] # None
        PROVE  Updated(t)' \/ ~Disagrees(t, rows[t])' \/ Dir(t)' \in orphaned'
    <3>1. CASE t = s
      <4>1. dir # None /\ Dir(s)' = dir
        BY <1>3, <2>1, <3>1 DEF Dir, Runtime
      <4>2. QED  BY <1>1, <1>2, <3>1, <4>1 DEF Updated, Is
    <3>2. CASE t # s
      <4>1. sup[t] # None /\ Dir(t)' = Dir(t) /\ sup'[t] = sup[t]
        BY <1>3, <2>1, <3>2 DEF Dir
      <4>2. \A j \in Slots : Is(j, {"update"}, "commit") => reqs'[j] = reqs[j]
        BY <1>1 DEF Is
      <4>3. Updated(t) => Updated(t)'
        BY <4>1, <4>2 DEF Updated, Is
      <4>4. Disagrees(t, rows[t])' => Disagrees(t, rows[t])
        BY <1>1, <4>1 DEF Disagrees, Dir
      <4>5. QED  BY <1>4, <4>1, <4>3, <4>4 DEF RowMatches
    <3>3. QED  BY <3>1, <3>2
  <2>2. QED  BY <2>1 DEF RowMatches
<1>7. Held'
  <2>1. ASSUME NEW a \in alive PROVE HeldBySome(a)'
    <3>1. CASE a.dir \in orphaned
      BY <1>4, <3>1 DEF HeldBySome
    <3>2. ASSUME NEW t \in Servers, Watches(t, a.p), Dir(t) = a.dir PROVE HeldBySome(a)'
      <4>1. CASE t = s
        <5>1. sup[s] # None /\ rts[sup[s]].hand = a.p /\ sup[s] \in Gens /\ rts[sup[s]] # None
          BY <1>1, <3>2, <4>1 DEF Watches, TypeOK
        <5>2. Live(rts[sup[s]].hand)
          BY <2>1, <5>1, Numbers DEF Live, IsAlive, TypeOK
        <5>3. InUse(sup[s])
          BY <5>1, <5>2 DEF HandsRun, IsSound, InUse, Running
        <5>4. QED  BY <1>4, <3>2, <4>1, <5>1, <5>3 DEF HeldBySome, Dir
      <4>2. CASE t # s
        BY <1>3, <3>2, <4>2 DEF HeldBySome, Watches, Dir
      <4>3. QED  BY <4>1, <4>2
    <3>3. QED  BY <1>5, <3>1, <3>2 DEF Held, HeldBySome
  <2>2. QED  BY <1>1, <2>1 DEF Held
<1>8. Tidy'
  BY <1>1, <1>5 DEF Tidy
<1>9. QED  BY <1>6, <1>7, <1>8

\* The end of an update or of a deletion: what the row no longer tells is remembered.
LEMMA RowChangeHolding ==
    ASSUME Structure, TypeOK', Holding, NEW i \in Slots, CommitsUpdate(i) \/ CommitsDeletion(i)
    PROVE  Holding'
<1> USE DEF Holding, Structure
<1>1. PICK s \in Servers :
         /\ reqs[i] # None /\ s = reqs[i].s
         /\ \A j \in Slots \ {i} : reqs'[j] = reqs[j]
         /\ \A t \in Servers \ {s} : KeepsFolder(t)
         /\ orphaned \subseteq orphaned'
         /\ Disagrees(s, rows'[s]) => rts[sup[s]].dir \in orphaned'
         /\ UNCHANGED <<sup, rts, boot, alive>>
  <2>1. CASE CommitsUpdate(i)
    BY <2>1, UpdateIsWritten DEF Is, world
  <2>2. CASE CommitsDeletion(i)
    BY <2>2, DeletionIsWritten DEF Is, world, KeepsFolder, Disagrees
  <2>3. QED  BY <2>1, <2>2
<1>2. boot.phase = "up" /\ Awaited = {} /\ Awaited' = {}
  <2>1. boot.phase = "up"
    BY <1>1, UpWithRequests
  <2>2. QED  BY <1>1, <2>1 DEF Awaited
<1>3. RowMatches'
  <2>1. ASSUME NEW t \in Servers, sup[t] # None
        PROVE  Updated(t)' \/ ~Disagrees(t, rows[t])' \/ Dir(t)' \in orphaned'
    <3>1. Dir(t)' = Dir(t)
      BY <1>1 DEF Dir
    <3>2. CASE t = s
      <4>1. Disagrees(s, rows[s])' => Disagrees(s, rows'[s])
        BY <1>1 DEF Disagrees
      <4>2. QED  BY <1>1, <3>1, <3>2, <4>1 DEF Dir
    <3>3. CASE t # s
      <4>1. Updated(t) => Updated(t)'
        BY <1>1, <3>1, <3>3 DEF Updated, Is
      <4>2. Disagrees(t, rows[t])' => Disagrees(t, rows[t])
        BY <1>1, <3>3 DEF Disagrees, KeepsFolder
      <4>3. QED  BY <1>1, <2>1, <3>1, <4>1, <4>2 DEF RowMatches
    <3>4. QED  BY <3>2, <3>3
  <2>2. QED  BY <1>1, <2>1 DEF RowMatches
<1>4. Held'
  <2>1. \A a, t : Watches(t, a.p) /\ Dir(t) = a.dir => Watches(t, a.p)' /\ Dir(t)' = a.dir
    BY <1>1 DEF Watches, Dir
  <2>2. QED  BY <1>1, <1>2, <2>1 DEF Held, HeldBySome
<1>5. Tidy'
  BY <1>1, <1>2 DEF Tidy
<1>6. QED  BY <1>3, <1>4, <1>5

\* A stop of MSM: the boot will look in the folders of the rows it knows.
LEMMA StopHolding ==
    ASSUME Structure, Holding, MsmStops
    PROVE  Holding'
<1> USE DEF Holding, Structure
<1>1. /\ sup' = [s \in Servers |-> None] /\ boot'.phase = "register"
      /\ UNCHANGED <<rows, alive>>
      /\ orphaned' = ((orphaned \cup Uncommitted) \ ({rows[s].dir : s \in Known} \ gone))
                     \cup Crowded \cup Misled
  BY DEF MsmStops, world
<1>2. Known' = Known /\ Awaited' = Known
  BY <1>1 DEF Known, Awaited
<1>3. RowMatches'
  BY <1>1 DEF RowMatches
<1>4. Held'
  <2>1. ASSUME NEW a \in alive PROVE HeldBySome(a)'
    <3>1. a.dir \in orphaned \cup Uncommitted \/ \E s \in Known : rows[s].dir = a.dir
      <4>1. CASE a.dir \in orphaned \/ \E s \in Awaited : rows[s].dir = a.dir
        BY <4>1, AwaitedIs
      <4>2. ASSUME NEW s \in Servers, sup[s] # None, Dir(s) = a.dir
            PROVE  a.dir \in orphaned \cup Uncommitted \/ \E t \in Known : rows[t].dir = a.dir
        <5>1. CASE Updated(s)
          BY <4>2, <5>1 DEF Updated, Uncommitted, Dir
        <5>2. CASE ~Disagrees(s, rows[s])
          BY <4>2, <5>2 DEF Disagrees, Known, Dir
        <5>3. CASE Dir(s) \in orphaned
          BY <4>2, <5>3
        <5>4. QED  BY <4>2, <5>1, <5>2, <5>3 DEF RowMatches
      <4>3. QED  BY <4>1, <4>2 DEF Held, HeldBySome, Watches
    <3>2. CASE \E s \in Known : rows[s].dir = a.dir
      BY <1>1, <1>2, <3>2 DEF HeldBySome
    <3>3. CASE a.dir \in orphaned \cup Uncommitted /\ ~\E s \in Known : rows[s].dir = a.dir
      <4>1. a.dir \in orphaned'
        BY <1>1, <3>3
      <4>2. QED  BY <4>1 DEF HeldBySome
    <3>4. QED  BY <3>1, <3>2, <3>3
  <2>2. QED  BY <1>1, <2>1 DEF Held
<1>5. Tidy'
  <2>1. OneInFolder'
    <3>1. \A a, b \in alive : a.dir = b.dir /\ a # b => a.dir \in Crowded
      BY DEF Crowded
    <3>2. QED  BY <1>1, <3>1 DEF OneInFolder
  <2>2. ASSUME NEW s \in Known PROVE AtHome(s)'
    <3>1. ASSUME NEW a \in alive, rows[s].proc = a.p, rows[s].state \in RunningStates,
                 a.dir # rows[s].dir
          PROVE  rows[s].dir \in Misled
      BY <3>1 DEF Misled
    <3>2. QED  BY <1>1, <3>1 DEF AtHome
  <2>3. QED  BY <1>2, <2>1, <2>2 DEF Tidy
<1>6. QED  BY <1>3, <1>4, <1>5

\* A server in its turn: the process of its folder, or of its row, is watched.
LEMMA AdoptsHolding ==
    ASSUME Structure, Structure', Holding, NEW s \in Servers, Adopts(s)
    PROVE  Holding'
<1> USE DEF Holding, Structure
<1>1. /\ s \in boot.todo /\ s \in Known /\ rows[s] # None /\ sup[s] \in Gens
      /\ rts[sup[s]].server = s /\ rts[sup[s]].hand = None /\ Dir(s) = rows[s].dir
      /\ boot.phase = "adopt" /\ boot'.phase = "adopt" /\ boot'.todo = boot.todo \ {s}
      /\ UNCHANGED <<rows, sup, alive, orphaned>>
  BY AdoptsIs DEF world, history
<1>2. Awaited = boot.todo /\ Awaited' = boot.todo \ {s}
  BY <1>1 DEF Awaited
<1>3. \A t \in Servers \ {s} : sup[t] # None => sup[t] \in Gens /\ sup[t] # sup[s]
  BY <1>1 DEF TypeOK
<1>4. /\ \A g \in Gens \ {sup[s]} : rts'[g] = rts[g]
      /\ \/ Adoptable(s) = {}
         \/ /\ rts'[sup[s]].hand \in Adoptable(s) /\ rts'[sup[s]].watched
            /\ rts'[sup[s]].dir = Dir(s)
  <2>1. CASE UNCHANGED <<rts, pending>> /\ Adoptable(s) = {}
    BY <2>1
  <2>2. ASSUME NEW p \in Adoptable(s), NEW new,
               new.dir = Dir(s), new.hand = p, new.watched, rts' = [rts EXCEPT ![sup[s]] = new]
        PROVE  /\ \A g \in Gens \ {sup[s]} : rts'[g] = rts[g]
               /\ rts'[sup[s]].hand \in Adoptable(s) /\ rts'[sup[s]].watched
               /\ rts'[sup[s]].dir = Dir(s)
    <3>1. rts'[sup[s]] = new /\ \A g \in Gens \ {sup[s]} : rts'[g] = rts[g]
      BY <1>1, <2>2 DEF TypeOK
    <3>2. QED  BY <2>2, <3>1
  <2>3. \/ UNCHANGED <<rts, pending>> /\ Adoptable(s) = {}
        \/ \E p \in Adoptable(s) : \E new :
              new.dir = Dir(s) /\ new.hand = p /\ new.watched /\ rts' = [rts EXCEPT ![sup[s]] = new]
    BY AdoptsIs
  <2>4. QED  BY <2>1, <2>2, <2>3
<1>5. RowMatches'
  <2>1. \A t \in Servers : sup'[t] # None => t \in Known' /\ Dir(t)' = rows'[t].dir
    BY <1>1 DEF BootInv, BootIsQuiet
  <2>2. QED  BY <2>1 DEF RowMatches, Disagrees, Known, Dir
<1>6. ASSUME NEW a \in alive, a.dir = rows[s].dir, a.dir \notin orphaned
      PROVE  Watches(s, a.p)' /\ Dir(s)' = a.dir
  <2>1. a.p \in InFolder(rows[s].dir)
    BY <1>6 DEF InFolder
  <2>2. Adoptable(s) # {}
    BY <2>1 DEF Adoptable
  <2>3. \A p \in Adoptable(s) : p = a.p
    <3>1. \A b \in alive : b.dir = rows[s].dir => b = a
      BY <1>1, <1>6 DEF Tidy, OneInFolder
    <3>2. ASSUME NEW b \in alive, rows[s].state \in RunningStates, b.p = rows[s].proc
          PROVE  b = a
      BY <1>1, <1>2, <1>6, <3>1, <3>2 DEF Tidy, AtHome
    <3>3. QED  BY <3>1, <3>2 DEF Adoptable, IsAlive, InFolder
  <2>4. rts'[sup[s]].hand = a.p /\ rts'[sup[s]].watched /\ rts'[sup[s]].dir = Dir(s)
    BY <1>4, <2>2, <2>3
  <2>5. QED  BY <1>1, <1>6, <2>4, Numbers DEF Watches, Dir
<1>7. Held'
  <2>1. ASSUME NEW a \in alive PROVE HeldBySome(a)'
    <3>1. ASSUME NEW t \in Servers, Watches(t, a.p), Dir(t) = a.dir
          PROVE  Watches(t, a.p)' /\ Dir(t)' = a.dir
      <4>1. a.p # None
        BY <2>1, Numbers DEF TypeOK
      <4>2. t # s
        BY <1>1, <3>1, <4>1 DEF Watches
      <4>3. QED  BY <1>1, <1>3, <1>4, <3>1, <4>2 DEF Watches, Dir
    <3>2. ASSUME NEW t \in Awaited, rows[t].dir = a.dir PROVE HeldBySome(a)'
      <4>1. CASE t = s
        BY <1>1, <1>6, <2>1, <3>2, <4>1 DEF HeldBySome
      <4>2. CASE t # s
        BY <1>1, <1>2, <3>2, <4>2 DEF HeldBySome
      <4>3. QED  BY <4>1, <4>2
    <3>3. a.dir \in orphaned => HeldBySome(a)'
      BY <1>1 DEF HeldBySome
    <3>4. (\E t \in Servers : Watches(t, a.p) /\ Dir(t) = a.dir) => HeldBySome(a)'
      BY <3>1 DEF HeldBySome
    <3>5. QED  BY <2>1, <3>2, <3>3, <3>4 DEF Held, HeldBySome
  <2>2. QED  BY <1>1, <2>1 DEF Held
<1>8. Tidy'
  <2>1. \A t : AtHome(t)' <=> AtHome(t)
    BY <1>1 DEF AtHome
  <2>2. QED  BY <1>1, <1>2, <2>1 DEF Tidy, OneInFolder
<1>9. QED  BY <1>5, <1>7, <1>8

\* The other steps of a boot.
LEMMA BootHolding ==
    ASSUME Structure, Structure', Holding,
           RegistersAll \/ BeginsAutostart \/ Boots \/ \E s \in Servers : Autostarts(s)
    PROVE  Holding'
<1> USE DEF Holding, Structure
<1>1. CASE RegistersAll
  <2>1. /\ boot.phase = "register" /\ boot'.phase = "adopt" /\ boot'.todo = Known
        /\ UNCHANGED <<rows, alive, orphaned>>
    BY <1>1 DEF RegistersAll, world, history, TypeOK
  <2>2. Awaited = Known /\ Awaited' = Known /\ Known' = Known
    BY <2>1 DEF Awaited, Known
  <2>3. \A s \in Servers : sup[s] = None
    BY <2>1 DEF BootInv, NothingYet
  <2>4. RowMatches'
    <3>1. \A t \in Servers : sup'[t] # None => t \in Known' /\ Dir(t)' = rows'[t].dir
      BY <2>1 DEF BootInv, BootIsQuiet
    <3>2. QED  BY <3>1 DEF RowMatches, Disagrees, Known, Dir
  <2>5. Held'
    BY <2>1, <2>2, <2>3 DEF Held, HeldBySome, Watches
  <2>6. Tidy'
    BY <2>1, <2>2 DEF Tidy, OneInFolder, AtHome
  <2>7. QED  BY <2>4, <2>5, <2>6
<1>2. CASE BeginsAutostart
  <2>1. /\ boot.phase = "adopt" /\ boot.todo = {} /\ boot'.phase = "autostart"
        /\ UNCHANGED <<rows, sup, rts, reqs, alive, orphaned>>
    BY <1>2 DEF BeginsAutostart, world, history, TypeOK
  <2>2. Awaited = {} /\ Awaited' = {}
    BY <2>1 DEF Awaited
  <2>3. QED  BY <2>1, <2>2, CalmHolding DEF KeepsFolder, Is
<1>3. CASE Boots
  <2>1. /\ \A t \in Servers : KeepsFolder(t)
        /\ boot.phase = "autostart" /\ boot'.phase = "up"
        /\ UNCHANGED <<sup, rts, reqs, alive, orphaned>>
    BY <1>3, BootsIs DEF world, history
  <2>2. Awaited = {} /\ Awaited' = {}
    BY <2>1 DEF Awaited
  <2>3. QED  BY <2>1, <2>2, CalmHolding DEF Is
<1>4. ASSUME NEW s \in Servers, Autostarts(s) PROVE Holding'
  <2>1. /\ boot.phase = "autostart" /\ boot'.phase = "autostart" /\ s \in boot.todo
        /\ UNCHANGED <<rows, sup, reqs, alive, orphaned>>
        /\ rts' = rts \/ rts' = [rts EXCEPT ![sup[s]].step = "scan"]
    BY <1>4 DEF Autostarts, First, world, history, TypeOK
  <2>2. Awaited = {} /\ Awaited' = {}
    BY <2>1 DEF Awaited
  <2>3. \A t \in Servers : sup[t] # None =>
              /\ rts'[sup[t]].dir = rts[sup[t]].dir /\ rts'[sup[t]].hand = rts[sup[t]].hand
              /\ rts'[sup[t]].watched = rts[sup[t]].watched
    <3>1. s \in Known /\ sup[s] # None /\ sup[s] \in Gens /\ rts[sup[s]] \in Runtimes
      BY <2>1 DEF BootInv, BootIsQuiet, AllRegistered, TypeOK
    <3> DEFINE new == [rts[sup[s]] EXCEPT !.step = "scan"]
    <3>2. new.dir = rts[sup[s]].dir /\ new.hand = rts[sup[s]].hand /\ new.watched = rts[sup[s]].watched
      BY <3>1 DEF Runtimes
    <3>3. rts' = rts \/ rts' = [rts EXCEPT ![sup[s]] = new]
      BY <2>1
    <3> HIDE DEF new
    <3>4. \A t \in Servers : sup[t] # None => sup[t] \in Gens
      BY DEF TypeOK
    <3>5. QED  BY <3>1, <3>2, <3>3, <3>4 DEF TypeOK
  <2>4. QED  BY <2>1, <2>2, <2>3, CalmHolding DEF KeepsFolder, Is
<1>5. QED  BY <1>1, <1>2, <1>3, <1>4

\* Every step keeps every process held.
LEMMA NextHolding ==
    ASSUME Structure, Structure', Holding, [Next]_vars
    PROVE  Holding'
<1>1. ASSUME NEW g \in Gens, RuntimeStep(g) PROVE Holding'
  BY <1>1, RuntimeMoves, MovesHolding DEF Structure
<1>2. ASSUME NEW i \in Slots, RequestStep(i) PROVE Holding'
  <2>1. CASE BeginsStart(i) \/ BeginsStop(i) \/ EndsStop(i) \/ Persists(i)
    <3>1. PICK new : Moves(reqs[i].g, new) /\ reqs[i].g \in Gens
      BY <2>1, LifeMoves DEF Structure
    <3>2. QED  BY <3>1, MovesHolding
  <2>2. CASE Fails(i) \/ Plans(i) \/ Erases(i)
    <3>1. /\ UNCHANGED <<rows, sup, rts, boot, alive, orphaned>>
          /\ \A j \in Slots : Is(j, {"update"}, "commit") => reqs'[j] = reqs[j]
      BY <2>2, DeletionMoves
    <3>2. UNCHANGED Awaited
      BY <3>1 DEF Awaited, Known
    <3>3. QED  BY <3>1, <3>2, CalmHolding DEF KeepsFolder, KeepsState
  <2>3. CASE CommitsState(i)
    <3>1. /\ UNCHANGED <<sup, rts, boot, alive, orphaned>>
          /\ \A s \in Servers : KeepsFolder(s)
          /\ \A j \in Slots : Is(j, {"update"}, "commit") => reqs'[j] = reqs[j]
          /\ reqs[i] # None
      BY <2>3, StateIsWritten DEF Is, LifeKinds, Structure, world
    <3>2. boot.phase = "up"
      BY <3>1, UpWithRequests
    <3>3. UNCHANGED Awaited /\ Awaited = {}
      BY <3>1, <3>2 DEF Awaited
    <3>4. QED  BY <3>1, <3>3, CalmHolding
  <2>4. QED
    BY <1>2, <2>1, <2>2, <2>3, ReplacementHolding, RowChangeHolding DEF RequestStep, Structure
<1>3. CASE Requests
  <2>1. /\ UNCHANGED <<sup, rts, boot, alive, orphaned>>
        /\ \A s \in Servers : KeepsFolder(s)
        /\ \A j \in Slots : Is(j, {"update"}, "commit") => reqs'[j] = reqs[j]
        /\ boot.phase = "up"
    BY <1>3, RequestsIs DEF Is, world, history
  <2>2. UNCHANGED Awaited /\ Awaited = {}
    BY <2>1 DEF Awaited
  <2>3. QED  BY <2>1, <2>2, CalmHolding
<1>4. CASE Writes \/ WriteFails \/ (\E s \in Servers : Takes(s)) \/ \E a \in alive : Exits(a)
  <2>1. /\ UNCHANGED <<sup, rts, reqs, boot, orphaned>> /\ alive' \subseteq alive
        /\ \A s \in Servers : KeepsFolder(s)
    BY <1>4, WritesIs DEF KeepsFolder, WriteFails, Takes, Exits, memory, world, history, Structure
  <2>2. UNCHANGED Awaited
    BY <2>1 DEF Awaited, Known, KeepsFolder
  <2>3. \A s \in Awaited : KeepsState(s)
    <3>1. CASE Writes
      <4>1. \A s \in Awaited : s \in Servers /\ s # writing.s
        BY <3>1 DEF Structure, Awaited, BootInv, NothingYet, BootIsQuiet, TurnToCome, Known, Writes
      <4>2. QED  BY <3>1, <4>1, WritesIs DEF Structure
    <3>2. CASE ~Writes
      BY <1>4, <3>2 DEF KeepsState, WriteFails, Takes, Exits
    <3>3. QED  BY <3>1, <3>2
  <2>4. QED  BY <2>1, <2>2, <2>3, CalmHolding DEF Is
<1>5. CASE MsmStops
  BY <1>5, StopHolding
<1>6. CASE BootStep
  BY <1>6, AdoptsHolding, BootHolding DEF BootStep
<1>7. CASE UNCHANGED vars
  <2>1. UNCHANGED <<rows, sup, rts, reqs, boot, alive, orphaned>>
    BY <1>7 DEF vars, memory, world, history
  <2>2. UNCHANGED Awaited
    BY <2>1 DEF Awaited, Known
  <2>3. QED  BY <2>1, <2>2, CalmHolding DEF KeepsFolder, KeepsState, Is
<1>8. QED  BY <1>1, <1>2, <1>3, <1>4, <1>5, <1>6, <1>7 DEF Next

\* Nothing runs at first, and no row says so.
LEMMA InitHolding == Init => Holding
<1> SUFFICES ASSUME Init PROVE Holding
  OBVIOUS
<1>1. /\ sup = Numbered(Servers) /\ rts = Registering(Servers, Home)
      /\ alive = {} /\ boot.phase = "up"
      /\ \A s \in Servers : rows[s] = [dir |-> Home[s], enabled |-> TRUE, auto |-> s \in Asked,
                                       state |-> "OFFLINE", proc |-> None]
  BY DEF Init
<1>2. \A s \in Servers : rts[sup[s]] = Runtime(s, Home[s])
  BY <1>1, RegisteringIs
<1>3. RowMatches
  <2>1. ASSUME NEW s \in Servers PROVE rows[s] # None /\ rows[s].enabled /\ rows[s].dir = Dir(s)
    <3>1. rows[s] = [dir |-> Home[s], enabled |-> TRUE, auto |-> s \in Asked,
                     state |-> "OFFLINE", proc |-> None]
      BY <1>1
    <3>2. Home[s] \in Dirs /\ (s \in Asked) \in BOOLEAN /\ "OFFLINE" \in States
      BY DEF States
    <3>3. rows[s] \in Rows
      BY <3>1, <3>2 DEF Rows
    <3>4. rows[s] # None
      BY <3>3
    <3>5. rts[sup[s]] = Runtime(s, Home[s])
      BY <1>2
    <3>6. Runtime(s, Home[s]).dir = Home[s]
      BY DEF Runtime
    <3>7. Dir(s) = Home[s]
      BY <3>5, <3>6 DEF Dir
    <3>8. QED  BY <3>1, <3>4, <3>7
  <2>2. QED  BY <2>1 DEF RowMatches, Disagrees, Dir
<1>4. Held /\ Tidy
  BY <1>1 DEF Held, Tidy
<1>5. QED  BY <1>3, <1>4 DEF Holding

\* A process that runs once MSM has booted is watched by the runtime MSM finds for its server,
\* unless the folder is one of those an update, a deletion or a boot has lost.
THEOREM ProcessesAreHeld == Spec => []EveryProcessIsHeld
<1>1. Structure /\ Holding => EveryProcessIsHeld
  BY AwaitedIs DEF Holding, Held, HeldBySome, EveryProcessIsHeld
<1>2. QED
  BY InitStructure, NextStructure, InitHolding, NextHolding, <1>1, PTL DEF Spec

-----------------------------------------------------------------------------
(***************************************************************************)
(* The rows tell what runs.                                                *)
(***************************************************************************)
\* A state and a process agree with the runtime of a server.
Tells(state, proc, s) ==
    IF sup[s] = None THEN state \notin RunningStates
    ELSE /\ state \in RunningStates <=> Running(sup[s])
         /\ Running(sup[s]) => state = rts[sup[s]].state /\ proc = rts[sup[s]].hand

\* What the row of a server says is so, or will be looked at, or is to be reset.
RowTells(s) ==
    \/ rows[s] = None
    \/ s \in Awaited
    \/ s \in boot.resets /\ sup[s] # None /\ ~Running(sup[s])
    \/ s \notin boot.resets /\ Tells(rows[s].state, rows[s].proc, s)

Told(s) ==
    IF writing # None /\ writing.s = s THEN Tells(writing.state, writing.proc, s) ELSE RowTells(s)

Vouched == \A s \in Servers : s \notin pending \cup unsure => Told(s)

\* A server whose runtime and whose row say the same afterwards.
LEMMA SameTold ==
    ASSUME NEW s \in Servers, Told(s), UNCHANGED <<sup, writing, boot>>, Awaited \subseteq Awaited',
           sup[s] # None => rts'[sup[s]].state = rts[sup[s]].state /\ rts'[sup[s]].hand = rts[sup[s]].hand,
           KeepsState(s), rows[s] = None => rows'[s] = None
    PROVE  Told(s)'
<1>1. ASSUME RowTells(s), rows'[s] # None PROVE RowTells(s)'
  <2>1. rows'[s].state = rows[s].state /\ rows'[s].proc = rows[s].proc
    BY <1>1 DEF KeepsState
  <2>2. Tells(rows[s].state, rows[s].proc, s) => Tells(rows[s].state, rows[s].proc, s)'
    BY <2>1 DEF Tells, Running
  <2>3. sup[s] # None /\ ~Running(sup[s]) => sup'[s] # None /\ ~Running(sup[s])'
    BY DEF Running
  <2>4. QED  BY <1>1, <2>2, <2>3 DEF RowTells
<1>2. Tells(writing.state, writing.proc, s) => Tells(writing.state, writing.proc, s)'
  BY DEF Tells, Running
<1>3. QED  BY <1>1, <1>2 DEF Told, RowTells

\* The steps that move one runtime tell the recorder when its state changes.
LEMMA MovesVouched ==
    ASSUME Structure, Vouched, NEW g \in Gens, NEW new, Moves(g, new)
    PROVE  Vouched'
<1> USE DEF Structure
<1>1. /\ rts'[g] = new /\ \A h \in Gens \ {g} : rts'[h] = rts[h]
  BY DEF Moves, TypeOK
<1>2. UNCHANGED <<rows, sup, writing, boot, unsure>> /\ Awaited' = Awaited
  BY DEF Moves, history, Known, Awaited
<1>3. ASSUME NEW s \in Servers, s \notin pending' \cup unsure PROVE Told(s)'
  <2>1. Told(s)
    BY <1>3 DEF Vouched, Moves
  <2>2. sup[s] # None => rts'[sup[s]].state = rts[sup[s]].state /\ rts'[sup[s]].hand = rts[sup[s]].hand
    <3>1. CASE sup[s] = g
      <4>1. rts[g].server = s
        BY <3>1, Numbers DEF TypeOK
      <4>2. QED  BY <1>1, <1>3, <3>1, <4>1 DEF Moves
    <3>2. CASE sup[s] # g
      BY <1>1, <3>2 DEF TypeOK
    <3>3. QED  BY <3>1, <3>2
  <2>3. QED  BY <1>2, <2>1, <2>2, SameTold DEF KeepsState
<1>4. QED  BY <1>2, <1>3 DEF Vouched

\* The rows are not written, or are with the folder only.
LEMMA CalmVouched ==
    ASSUME Vouched, UNCHANGED <<sup, rts, writing, boot>>, Awaited \subseteq Awaited',
           pending \subseteq pending', unsure \subseteq unsure',
           \A s \in Servers \ unsure' : KeepsState(s) /\ (rows[s] = None => rows'[s] = None)
    PROVE  Vouched'
<1>1. ASSUME NEW s \in Servers, s \notin pending' \cup unsure' PROVE Told(s)'
  <2>1. Told(s)
    BY <1>1 DEF Vouched
  <2>2. QED  BY <1>1, <2>1, SameTold
<1>2. QED  BY <1>1 DEF Vouched

\* The end of a request to start or to stop: nothing vouches for the row when the runtime
\* has changed in the meantime.
LEMMA StateVouched ==
    ASSUME Structure, TypeOK', Vouched, NEW i \in Slots, CommitsState(i)
    PROVE  Vouched'
<1> USE DEF Structure
<1>1. PICK s \in Servers : s = reqs[i].s
  BY StateIsWritten
<1>2. /\ reqs[i] # None
      /\ \A t \in Servers : KeepsFolder(t)
      /\ \A t \in Servers \ {s} : KeepsState(t)
      /\ \/ s \in unsure'
         \/ sup[s] # None /\ rows'[s].state = rts[sup[s]].state /\ rows'[s].proc = rts[sup[s]].hand
      /\ unsure \subseteq unsure'
      /\ UNCHANGED <<sup, rts, pending, writing, boot>>
  BY <1>1, StateIsWritten
<1>3. boot.phase = "up" /\ boot.resets = {} /\ Awaited = {} /\ Awaited' = {}
  <2>1. boot.phase = "up" /\ boot.resets = {}
    BY <1>2, UpWithRequests
  <2>2. QED  BY <1>2, <2>1 DEF Awaited
<1>4. ASSUME NEW t \in Servers, t \notin pending' \cup unsure' PROVE Told(t)'
  <2>1. Told(t)
    BY <1>2, <1>4 DEF Vouched
  <2>2. CASE t # s
    BY <1>2, <1>3, <2>1, <2>2, SameTold DEF KeepsFolder
  <2>3. CASE t = s
    <3>1. CASE writing # None /\ writing.s = s
      BY <1>2, <2>1, <2>3, <3>1 DEF Told, Tells, Running
    <3>2. CASE ~(writing # None /\ writing.s = s)
      <4>1. Tells(rows[s].state, rows[s].proc, s)'
        BY <1>2, <1>4, <2>3 DEF Tells, Running
      <4>2. QED  BY <1>2, <1>3, <2>3, <3>2, <4>1 DEF Told, RowTells
    <3>3. QED  BY <3>1, <3>2
  <2>4. QED  BY <2>2, <2>3
<1>5. QED  BY <1>4 DEF Vouched

\* A runtime that is not in use leaves for another that does not run either.
LEMMA ReplacementVouched ==
    ASSUME Structure, Vouched, NEW i \in Slots, Applies(i) \/ Unregisters(i)
    PROVE  Vouched'
<1> USE DEF Structure
<1>0. PICK s, dir : s = reqs[i].s /\ dir = Given(reqs[i])
  OBVIOUS
<1>1. /\ reqs[i] # None /\ s \in Servers /\ dir \in Dirs \cup {None} /\ Replaced(s, dir)
      /\ UNCHANGED <<rows, writing, boot>>
  BY <1>0, ReplacementIs
<1>2. /\ \A t \in Servers \ {s} : sup'[t] = sup[t] /\ (sup[t] # None => rts'[sup[t]] = rts[sup[t]])
      /\ sup'[s] # None => rts'[sup'[s]] = Runtime(s, dir)
  BY <1>1, ReplacedIs
<1>3. /\ pending \subseteq pending' /\ unsure \subseteq unsure'
      /\ sup[s] # None /\ InUse(sup[s]) => s \in unsure'
  BY <1>1 DEF Replaced
<1>4. boot.phase = "up" /\ boot.resets = {} /\ Awaited = {} /\ Awaited' = {}
  <2>1. boot.phase = "up" /\ boot.resets = {}
    BY <1>1, UpWithRequests
  <2>2. QED  BY <1>1, <2>1 DEF Awaited
<1>5. ASSUME NEW t \in Servers, t \notin pending' \cup unsure' PROVE Told(t)'
  <2>1. Told(t)
    BY <1>3, <1>5 DEF Vouched
  <2>2. \A state, proc : Tells(state, proc, t) => Tells(state, proc, t)'
    <3>1. CASE t # s
      BY <1>2, <3>1 DEF Tells, Running
    <3>2. CASE t = s
      <4>1. sup[s] # None => ~Running(sup[s])
        BY <1>3, <1>5, <3>2 DEF InUse
      <4>2. sup'[s] # None => ~Running(sup[s])'
        BY <1>2 DEF Running, Runtime, RunningStates
      <4>3. QED  BY <3>2, <4>1, <4>2 DEF Tells
    <3>3. QED  BY <3>1, <3>2
  <2>3. Tells(writing.state, writing.proc, t) => Tells(writing.state, writing.proc, t)'
    BY <1>1, <2>2 DEF Tells, Running
  <2>4. Tells(rows[t].state, rows[t].proc, t) => Tells(rows[t].state, rows[t].proc, t)'
    BY <1>1, <2>2 DEF Tells, Running
  <2>5. QED  BY <1>1, <1>4, <2>1, <2>3, <2>4 DEF Told, RowTells
<1>6. QED  BY <1>5 DEF Vouched

\* The recorder reads the runtime, writes what it has read, or fails.
LEMMA RecorderVouched ==
    ASSUME Structure, Vouched, Writes \/ WriteFails \/ \E s \in Servers : Takes(s)
    PROVE  Vouched'
<1> USE DEF Structure
<1>1. ASSUME NEW s \in Servers, Takes(s) PROVE Vouched'
  <2>1. /\ writing = None /\ pending' = pending \ {s}
        /\ writing' = IF sup[s] = None THEN None
                      ELSE [s |-> s, state |-> rts[sup[s]].state, proc |-> rts[sup[s]].hand]
        /\ unsure' = IF sup[s] = None THEN unsure \cup {s} ELSE unsure \ {s}
        /\ UNCHANGED <<rows, sup, rts, boot>> /\ Awaited' = Awaited
    BY <1>1 DEF Takes, Awaited, Known
  <2>2. ASSUME NEW t \in Servers, t \notin pending' \cup unsure' PROVE Told(t)'
    <3>1. CASE t = s
      <4>1. sup[s] # None
        BY <2>1, <2>2, <3>1
      <4>2. writing'.s = s /\ writing'.state = rts[sup[s]].state /\ writing'.proc = rts[sup[s]].hand
        BY <2>1, <4>1
      <4>3. writing' # None
        <5>1. rts[sup[s]] \in Runtimes
          BY <4>1 DEF TypeOK
        <5>2. writing' \in Writings
          BY <2>1, <4>1, <5>1 DEF Writings, Runtimes
        <5>3. QED  BY <5>2
      <4>4. Tells(writing.state, writing.proc, s)'
        BY <2>1, <4>1, <4>2 DEF Tells, Running
      <4>5. QED  BY <3>1, <4>2, <4>3, <4>4 DEF Told
    <3>2. CASE t # s
      <4>1. Told(t)
        BY <2>1, <2>2, <3>2 DEF Vouched
      <4>2. RowTells(t)
        BY <2>1, <4>1 DEF Told
      <4>3. RowTells(t)'
        BY <2>1, <4>2 DEF RowTells, Tells, Running
      <4>4. ~(writing' # None /\ writing'.s = t)
        BY <2>1, <3>2
      <4>5. QED  BY <4>3, <4>4 DEF Told
    <3>3. QED  BY <3>1, <3>2
  <2>3. QED  BY <2>2 DEF Vouched
<1>2. CASE Writes
  <2>1. PICK s \in Servers : s = writing.s
    BY <1>2, WritesIs
  <2>2. /\ writing # None /\ lock = None /\ writing' = None
        /\ \A t \in Servers : KeepsFolder(t)
        /\ \A t \in Servers \ {s} : KeepsState(t)
        /\ rows[s] # None => rows'[s].state = writing.state /\ rows'[s].proc = writing.proc
        /\ UNCHANGED <<sup, rts, pending, boot, unsure>>
    BY <1>2, <2>1, WritesIs DEF history
  <2>3. boot.resets = {}
    BY <2>2 DEF BootInv, ResetsWait
  <2>4. Awaited' = Awaited
    BY <2>2 DEF Awaited, Known, KeepsFolder
  <2>5. ASSUME NEW t \in Servers, t \notin pending' \cup unsure' PROVE Told(t)'
    <3>1. Told(t)
      BY <2>2, <2>5 DEF Vouched
    <3>2. CASE t = s
      <4>1. Tells(writing.state, writing.proc, s)
        BY <2>1, <2>2, <3>1, <3>2 DEF Told
      <4>2. rows[s] # None => Tells(rows[s].state, rows[s].proc, s)'
        BY <2>2, <4>1 DEF Tells, Running
      <4>3. QED  BY <2>2, <2>3, <3>2, <4>2 DEF Told, RowTells, KeepsFolder
    <3>3. CASE t # s
      <4>1. RowTells(t)
        BY <2>1, <3>1, <3>3 DEF Told
      <4>2. RowTells(t)'
        BY <2>2, <2>4, <3>3, <4>1 DEF RowTells, KeepsFolder, KeepsState, Tells, Running
      <4>3. QED  BY <2>2, <4>2 DEF Told
    <3>4. QED  BY <3>2, <3>3
  <2>6. QED  BY <2>5 DEF Vouched
<1>3. CASE WriteFails
  <2>1. /\ writing' = None /\ writing # None /\ unsure' = unsure \cup {writing.s}
        /\ UNCHANGED <<rows, sup, rts, pending, boot>> /\ Awaited' = Awaited
    BY <1>3 DEF WriteFails, Awaited, Known
  <2>2. ASSUME NEW t \in Servers, t \notin pending' \cup unsure' PROVE Told(t)'
    <3>1. Told(t) /\ writing.s # t
      BY <2>1, <2>2 DEF Vouched
    <3>2. RowTells(t)
      BY <3>1 DEF Told
    <3>3. QED  BY <2>1, <3>2 DEF Told, RowTells, Tells, Running
  <2>3. QED  BY <2>2 DEF Vouched
<1>4. QED  BY <1>1, <1>2, <1>3

\* A stop of MSM vouches for the servers that the next boot will look at, and for no other
\* whose state was still to be written.
LEMMA StopVouched ==
    ASSUME Structure, Vouched, MsmStops
    PROVE  Vouched'
<1> USE DEF Structure
<1>1. /\ sup' = [s \in Servers |-> None] /\ writing' = None /\ pending' = {} /\ rows' = rows
      /\ boot'.phase = "register" /\ boot'.resets = {}
      /\ unsure' = (unsure \cup pending \cup {s \in Servers : writing # None /\ writing.s = s}
                       \cup {s \in Servers : sup[s] # None}) \ Known
  BY DEF MsmStops
<1>2. Awaited' = Known /\ Awaited \subseteq Known
  BY <1>1, AwaitedIs DEF Awaited, Known
<1>3. ASSUME NEW s \in Servers, s \notin unsure' PROVE Told(s)'
  <2>1. CASE s \in Known
    BY <1>1, <1>2, <2>1 DEF Told, RowTells
  <2>2. CASE s \notin Known
    <3>1. /\ s \notin unsure \cup pending /\ ~(writing # None /\ writing.s = s) /\ sup[s] = None
      BY <1>1, <1>3, <2>2
    <3>2. RowTells(s)
      BY <3>1 DEF Vouched, Told
    <3>3. rows[s] = None \/ rows[s].state \notin RunningStates
      BY <1>2, <2>2, <3>1, <3>2 DEF RowTells, Tells
    <3>4. QED  BY <1>1, <3>3 DEF Told, RowTells, Tells
  <2>3. QED  BY <2>1, <2>2
<1>4. QED  BY <1>3 DEF Vouched

\* A server that is adopted is told to the recorder; one that is not there waits to be reset.
LEMMA AdoptsVouched ==
    ASSUME Structure, Vouched, NEW s \in Servers, Adopts(s)
    PROVE  Vouched'
<1> USE DEF Structure
<1>1. /\ s \in boot.todo /\ sup[s] \in Gens /\ rts[sup[s]].state = "OFFLINE"
      /\ boot.phase = "adopt" /\ boot'.phase = "adopt" /\ boot'.todo = boot.todo \ {s}
      /\ UNCHANGED <<rows, sup, writing, unsure>>
  BY AdoptsIs DEF history
<1>2. Awaited = boot.todo /\ Awaited' = boot.todo \ {s}
  BY <1>1 DEF Awaited
<1>3. \A t \in Servers \ {s} : sup[t] # None => sup[t] \in Gens /\ sup[t] # sup[s]
  BY <1>1 DEF TypeOK
<1>4. /\ \A g \in Gens \ {sup[s]} : rts'[g] = rts[g]
      /\ pending \subseteq pending'
      /\ boot'.resets = boot.resets \/ boot'.resets = boot.resets \cup {s}
      /\ \/ s \in pending'
         \/ /\ rts' = rts
            /\ rows[s].state \in RunningStates => s \in boot'.resets
  <2>1. CASE UNCHANGED <<rts, pending>>
    BY <2>1, AdoptsIs
  <2>2. ASSUME NEW new, rts' = [rts EXCEPT ![sup[s]] = new], pending' = pending \cup {s},
               boot'.resets = boot.resets
        PROVE  /\ \A g \in Gens \ {sup[s]} : rts'[g] = rts[g]
               /\ pending \subseteq pending' /\ s \in pending'
    BY <2>2 DEF TypeOK
  <2>3. \/ /\ UNCHANGED <<rts, pending>>
           /\ boot'.resets = boot.resets \/ boot'.resets = boot.resets \cup {s}
           /\ rows[s].state \in RunningStates => s \in boot'.resets
        \/ \E new : /\ rts' = [rts EXCEPT ![sup[s]] = new] /\ pending' = pending \cup {s}
                    /\ boot'.resets = boot.resets
    BY AdoptsIs
  <2>4. QED  BY <2>2, <2>3
<1>5. ASSUME NEW t \in Servers, t \notin pending' \cup unsure' PROVE Told(t)'
  <2>1. CASE t = s
    <3>1. /\ ~(writing # None /\ writing.s = s) /\ sup[s] # None
      BY <1>1, Numbers DEF BootInv, TurnToCome
    <3>2. rts'[sup[s]].state = "OFFLINE" /\ (rows[s].state \in RunningStates => s \in boot'.resets)
      BY <1>1, <1>4, <1>5, <2>1
    <3>3. ~Running(sup[s])'
      BY <1>1, <3>2 DEF Running, RunningStates
    <3>4. RowTells(s)'
      BY <1>1, <3>1, <3>2, <3>3 DEF RowTells, Tells
    <3>5. QED  BY <1>1, <2>1, <3>1, <3>4 DEF Told
  <2>2. CASE t # s
    <3>1. Told(t)
      BY <1>1, <1>4, <1>5 DEF Vouched
    <3>2. sup[t] # None => rts'[sup[t]] = rts[sup[t]]
      BY <1>3, <1>4, <2>2
    <3>3. (t \in Awaited <=> t \in Awaited') /\ (t \in boot.resets <=> t \in boot'.resets)
      BY <1>2, <1>4, <2>2
    <3>4. QED  BY <1>1, <3>1, <3>2, <3>3 DEF Told, RowTells, Tells, Running
  <2>3. QED  BY <2>1, <2>2
<1>6. QED  BY <1>5 DEF Vouched

\* The other steps of a boot.
LEMMA BootVouched ==
    ASSUME Structure, Vouched,
           RegistersAll \/ BeginsAutostart \/ Boots \/ \E s \in Servers : Autostarts(s)
    PROVE  Vouched'
<1> USE DEF Structure
<1>1. CASE RegistersAll
  <2>1. /\ boot.phase = "register" /\ boot'.phase = "adopt" /\ boot'.todo = Known
        /\ boot'.resets = boot.resets
        /\ UNCHANGED <<rows, pending, writing, unsure>>
    BY <1>1 DEF RegistersAll, world, history, TypeOK
  <2>2. Awaited = Known /\ Awaited' = Known
    BY <2>1 DEF Awaited
  <2>3. \A s \in Servers : sup[s] = None /\ (sup'[s] # None <=> s \in Known)
    BY <1>1, <2>1, RegistersAllIs DEF BootInv, NothingYet
  <2>4. writing = None /\ boot.resets = {}
    BY <2>1 DEF BootInv, NothingYet
  <2>5. ASSUME NEW s \in Servers, s \notin pending' \cup unsure' PROVE Told(s)'
    <3>1. RowTells(s)
      BY <2>1, <2>4, <2>5 DEF Vouched, Told
    <3>2. RowTells(s)'
      BY <2>1, <2>2, <2>3, <2>4, <3>1 DEF RowTells, Tells
    <3>3. QED  BY <2>1, <2>4, <3>2 DEF Told
  <2>6. QED  BY <2>5 DEF Vouched
<1>2. CASE BeginsAutostart
  <2>1. /\ boot.phase = "adopt" /\ boot.todo = {} /\ boot'.phase = "autostart"
        /\ boot'.resets = boot.resets
        /\ UNCHANGED <<rows, sup, rts, pending, writing, unsure>>
    BY <1>2 DEF BeginsAutostart, world, history, TypeOK
  <2>2. Awaited = {} /\ Awaited' = {}
    BY <2>1 DEF Awaited
  <2>3. ASSUME NEW s \in Servers, Told(s) PROVE Told(s)'
    BY <2>1, <2>2, <2>3 DEF Told, RowTells, Tells, Running
  <2>4. QED  BY <2>1, <2>3 DEF Vouched
<1>3. CASE Boots
  <2>1. /\ \A t \in Servers : KeepsFolder(t)
        /\ \A t \in Servers \ boot.resets : KeepsState(t)
        /\ \A t \in boot.resets : t \in Servers /\ rows[t] # None /\ rows'[t].state = "OFFLINE"
        /\ boot.phase = "autostart" /\ boot'.phase = "up" /\ boot'.resets = {}
        /\ UNCHANGED <<sup, rts, pending, writing, unsure>>
    BY <1>3, BootsIs DEF history
  <2>2. Awaited = {} /\ Awaited' = {}
    BY <2>1 DEF Awaited
  <2>3. ASSUME NEW s \in Servers, RowTells(s) PROVE RowTells(s)'
    <3>1. CASE s \in boot.resets
      <4>1. sup[s] # None /\ ~Running(sup[s])
        BY <2>1, <2>2, <2>3, <3>1 DEF RowTells
      <4>2. QED  BY <2>1, <3>1, <4>1 DEF RowTells, Tells, Running, RunningStates
    <3>2. CASE s \notin boot.resets
      BY <2>1, <2>2, <2>3, <3>2 DEF RowTells, Tells, Running, KeepsFolder, KeepsState
    <3>3. QED  BY <3>1, <3>2
  <2>4. ASSUME NEW s \in Servers, Told(s) PROVE Told(s)'
    <3>1. Tells(writing.state, writing.proc, s) => Tells(writing.state, writing.proc, s)'
      BY <2>1 DEF Tells, Running
    <3>2. QED  BY <2>1, <2>3, <2>4, <3>1 DEF Told
  <2>5. QED  BY <2>1, <2>4 DEF Vouched
<1>4. ASSUME NEW s \in Servers, Autostarts(s) PROVE Vouched'
  <2>1. /\ boot.phase = "autostart" /\ boot'.phase = "autostart" /\ boot'.resets = boot.resets
        /\ s \in boot.todo
        /\ UNCHANGED <<rows, sup, pending, writing, unsure>>
        /\ rts' = rts \/ rts' = [rts EXCEPT ![sup[s]].step = "scan"]
    BY <1>4 DEF Autostarts, First, world, history, TypeOK
  <2>2. Awaited = {} /\ Awaited' = {}
    BY <2>1 DEF Awaited
  <2>3. \A t \in Servers : sup[t] # None =>
           rts'[sup[t]].state = rts[sup[t]].state /\ rts'[sup[t]].hand = rts[sup[t]].hand
    <3>1. s \in Known /\ sup[s] # None /\ sup[s] \in Gens /\ rts[sup[s]] \in Runtimes
      BY <2>1 DEF BootInv, BootIsQuiet, AllRegistered, TypeOK
    <3> DEFINE new == [rts[sup[s]] EXCEPT !.step = "scan"]
    <3>2. new.hand = rts[sup[s]].hand /\ new.state = rts[sup[s]].state
      BY <3>1 DEF Runtimes
    <3>3. rts' = rts \/ rts' = [rts EXCEPT ![sup[s]] = new]
      BY <2>1
    <3> HIDE DEF new
    <3>4. \A t \in Servers : sup[t] # None => sup[t] \in Gens
      BY DEF TypeOK
    <3>5. QED  BY <3>1, <3>2, <3>3, <3>4 DEF TypeOK
  <2>4. ASSUME NEW t \in Servers, Told(t) PROVE Told(t)'
    BY <2>1, <2>2, <2>3, <2>4 DEF Told, RowTells, Tells, Running
  <2>5. QED  BY <2>1, <2>4 DEF Vouched
<1>5. QED  BY <1>1, <1>2, <1>3, <1>4

\* Every step keeps the rows vouched for.
LEMMA NextVouched ==
    ASSUME Structure, TypeOK', Vouched, [Next]_vars
    PROVE  Vouched'
<1>1. ASSUME NEW g \in Gens, RuntimeStep(g) PROVE Vouched'
  BY <1>1, RuntimeMoves, MovesVouched DEF Structure
<1>2. ASSUME NEW i \in Slots, RequestStep(i) PROVE Vouched'
  <2>1. CASE BeginsStart(i) \/ BeginsStop(i) \/ EndsStop(i) \/ Persists(i)
    <3>1. PICK new : Moves(reqs[i].g, new) /\ reqs[i].g \in Gens
      BY <2>1, LifeMoves DEF Structure
    <3>2. QED  BY <3>1, MovesVouched
  <2>2. CASE Fails(i) \/ Plans(i) \/ Erases(i)
    <3>1. UNCHANGED <<rows, sup, rts, pending, writing, boot, unsure>>
      BY <2>2, DeletionMoves
    <3>2. UNCHANGED Awaited
      BY <3>1 DEF Awaited, Known
    <3>3. QED  BY <3>1, <3>2, CalmVouched DEF KeepsState
  <2>3. CASE CommitsUpdate(i) \/ CommitsDeletion(i)
    <3>1. /\ UNCHANGED <<sup, rts, pending, writing, boot, unsure>> /\ reqs[i] # None
          /\ \A t \in Servers : KeepsState(t) /\ (rows[t] = None => rows'[t] = None)
      <4>1. CASE CommitsUpdate(i)
        BY <4>1, UpdateIsWritten DEF KeepsFolder, Is
      <4>2. CASE CommitsDeletion(i)
        BY <4>2, DeletionIsWritten DEF KeepsState, Is
      <4>3. QED  BY <2>3, <4>1, <4>2
    <3>2. boot.phase = "up"
      BY <3>1, UpWithRequests
    <3>3. Awaited \subseteq Awaited'
      BY <3>1, <3>2 DEF Awaited
    <3>4. QED  BY <3>1, <3>3, CalmVouched
  <2>4. QED
    BY <1>2, <2>1, <2>2, <2>3, StateVouched, ReplacementVouched DEF RequestStep
<1>3. CASE Requests
  <2>1. /\ UNCHANGED <<sup, rts, pending, writing, boot, unsure>>
        /\ \A s \in Servers : KeepsFolder(s) /\ KeepsState(s)
        /\ boot.phase = "up"
    BY <1>3, RequestsIs DEF history
  <2>2. Awaited \subseteq Awaited'
    BY <2>1 DEF Awaited
  <2>3. QED  BY <2>1, <2>2, CalmVouched DEF KeepsFolder
<1>4. CASE Writes \/ WriteFails \/ \E s \in Servers : Takes(s)
  BY <1>4, RecorderVouched
<1>5. CASE (\E a \in alive : Exits(a)) \/ UNCHANGED vars
  <2>1. UNCHANGED <<rows, sup, rts, pending, writing, boot, unsure>>
    BY <1>5 DEF Exits, vars, memory, world, history
  <2>2. UNCHANGED Awaited
    BY <2>1 DEF Awaited, Known
  <2>3. QED  BY <2>1, <2>2, CalmVouched DEF KeepsState
<1>6. CASE MsmStops
  BY <1>6, StopVouched
<1>7. CASE BootStep
  BY <1>7, AdoptsVouched, BootVouched DEF BootStep
<1>8. QED  BY <1>1, <1>2, <1>3, <1>4, <1>5, <1>6, <1>7 DEF Next

\* At first, the row and the runtime of a server both say OFFLINE.
LEMMA InitVouched == Init => Vouched
<1> SUFFICES ASSUME Init, NEW s \in Servers PROVE Told(s)
  BY DEF Vouched
<1>1. /\ sup = Numbered(Servers) /\ rts = Registering(Servers, Home)
      /\ writing = None /\ boot.resets = {} /\ rows[s].state = "OFFLINE"
  BY DEF Init
<1>2. rts[sup[s]] = Runtime(s, Home[s])
  BY <1>1, RegisteringIs
<1>3. rts[sup[s]].state = "OFFLINE"
  BY <1>2 DEF Runtime
<1>4. QED  BY <1>1, <1>3 DEF Told, RowTells, Tells, Running, RunningStates

\* Once the recorder has nothing left to do for a server, its row tells what its runtime says.
THEOREM RowsTell == Spec => []RowsTellWhatRuns
<1>1. Structure /\ Vouched => RowsTellWhatRuns
  <2> SUFFICES ASSUME Structure, Vouched, NEW s \in Servers,
                      boot.phase = "up" /\ sup[s] # None /\ rows[s] # None,
                      s \notin pending \cup unsure, writing = None \/ writing.s # s
               PROVE  /\ rows[s].state \in RunningStates <=> rts[sup[s]].state \in RunningStates
                      /\ rts[sup[s]].state \in RunningStates =>
                            rows[s].state = rts[sup[s]].state /\ rows[s].proc = rts[sup[s]].hand
    BY DEF RowsTellWhatRuns
  <2>1. RowTells(s)
    BY DEF Vouched, Told
  <2>2. boot.resets = {} /\ Awaited = {}
    BY DEF Structure, BootInv, ResetsWait, Awaited
  <2>3. QED  BY <2>1, <2>2 DEF RowTells, Tells, Running
<1>2. Structure => TypeOK
  BY DEF Structure
<1>3. QED
  BY InitStructure, NextStructure, InitVouched, NextVouched, <1>1, <1>2, PTL DEF Spec

-----------------------------------------------------------------------------
(***************************************************************************)
(* The files are kept.                                                     *)
(***************************************************************************)
\* A deletion has found that no other server is in the folder ...
Deleting(j) == Is(j, {"delete"}, "go") \/ Is(j, {"delete"}, "erase")
Moving(i) == Is(i, {"update"}, "commit")

NobodyElse == \A j \in Slots : Deleting(j) =>
    /\ \A t \in Servers \ {reqs[j].s} :
          rows[t] # None /\ rows[t].dir = reqs[j].arg => reqs[j].arg \in crossed
    /\ \A i \in Slots : Moving(i) /\ reqs[i].arg.dir = reqs[j].arg => reqs[j].arg \in crossed

\* ... and has taken the runtime away ...
NoRuntimeThere == \A j \in Slots : Is(j, {"delete"}, "erase") =>
    \A t \in Servers : sup[t] # None /\ Dir(t) = reqs[j].arg => reqs[j].arg \in orphaned \cup crossed

\* ... no update gives a folder that was erased ...
MovesToFiles == \A i \in Slots :
    Moving(i) /\ reqs[i].arg.dir # reqs[i].read.dir /\ reqs[i].arg.dir \in gone
        => reqs[i].arg.dir \in crossed

\* ... and a server without its files is about to leave.
Leaving(s) == s \in undone \/ \E i \in Slots : Is(i, {"delete"}, "commit") /\ reqs[i].s = s
LeavesSoon == \A s \in Servers :
    rows[s] # None /\ rows[s].dir \in gone => rows[s].dir \in crossed \/ Leaving(s)

Files == NobodyElse /\ NoRuntimeThere /\ MovesToFiles /\ LeavesSoon /\ NothingRunsInErased

\* The steps that leave the deletions and the updates as they are.
LEMMA CalmFiles ==
    ASSUME Structure, Files, UNCHANGED <<sup, gone>>,
           orphaned \subseteq orphaned', crossed \subseteq crossed', undone \subseteq undone',
           \A a \in alive' \ alive : a.dir \notin gone,
           \A s \in Servers : sup[s] # None => rts'[sup[s]].dir = rts[sup[s]].dir,
           \A s \in Servers : KeepsFolder(s),
           \A i \in Slots : /\ Deleting(i)' \/ Moving(i)' => reqs'[i] = reqs[i]
                            /\ Is(i, {"delete"}, "commit") =>
                                  reqs'[i] = reqs[i] \/ reqs[i].s \in undone'
    PROVE  Files'
<1> USE DEF Files
<1>1. \A i \in Slots : /\ Deleting(i)' => Deleting(i) /\ reqs'[i] = reqs[i]
                       /\ Moving(i)' => Moving(i) /\ reqs'[i] = reqs[i]
                       /\ Is(i, {"delete"}, "erase")' => Is(i, {"delete"}, "erase")
  BY DEF Deleting, Moving, Is
<1>2. NobodyElse'
  BY <1>1 DEF NobodyElse, KeepsFolder
<1>3. NoRuntimeThere'
  <2>1. \A i \in Slots : Is(i, {"delete"}, "erase")' => reqs'[i] = reqs[i]
    BY <1>1 DEF Deleting
  <2>2. QED  BY <1>1, <2>1 DEF NoRuntimeThere, Dir
<1>4. MovesToFiles'
  BY <1>1 DEF MovesToFiles
<1>5. LeavesSoon'
  <2>1. \A s \in Servers : Leaving(s) => Leaving(s)'
    BY DEF Leaving, Is
  <2>2. QED  BY <2>1 DEF LeavesSoon, KeepsFolder
<1>6. NothingRunsInErased'
  BY DEF NothingRunsInErased
<1>7. QED  BY <1>2, <1>3, <1>4, <1>5, <1>6

\* The steps after which nobody asks for anything.
LEMMA QuietFiles ==
    ASSUME Files, UNCHANGED <<alive, gone, crossed>>, \A i \in Slots : reqs'[i] = None,
           \A s \in Servers : KeepsFolder(s), \A s \in Servers : Leaving(s) => s \in undone',
           \A dir \in gone : dir \in orphaned => dir \in orphaned'
    PROVE  Files'
<1>1. \A i \in Slots : ~Deleting(i)' /\ ~Moving(i)' /\ ~Is(i, {"delete"}, "erase")'
  BY DEF Deleting, Moving, Is
<1>2. NobodyElse' /\ NoRuntimeThere' /\ MovesToFiles'
  BY <1>1 DEF NobodyElse, NoRuntimeThere, MovesToFiles
<1>3. LeavesSoon'
  BY DEF Files, LeavesSoon, Leaving, KeepsFolder
<1>4. NothingRunsInErased'
  BY DEF Files, NothingRunsInErased
<1>5. QED  BY <1>2, <1>3, <1>4 DEF Files

\* A deletion looks at the other servers.
LEMMA PlansFiles ==
    ASSUME Structure, Files, NEW i \in Slots, Plans(i)
    PROVE  Files'
<1> USE DEF Files
<1>1. /\ reqs[i] # None /\ reqs[i].kind = "delete" /\ reqs'[i] # None /\ reqs'[i].kind = "delete"
      /\ reqs'[i].s = reqs[i].s /\ reqs'[i].arg = reqs[i].arg
      /\ reqs[i].step = "plan" /\ reqs'[i].step = "go"
      /\ \A j \in Slots \ {i} : reqs'[j] = reqs[j]
      /\ UNCHANGED <<rows, sup, rts, alive, orphaned>>
  BY DeletionMoves
<1>2. UNCHANGED <<gone, undone>> /\ crossed \subseteq crossed'
  BY DEF Plans, world
<1>3. \A j \in Slots : /\ Moving(j)' => Moving(j) /\ reqs'[j] = reqs[j]
                       /\ Is(j, {"delete"}, "erase")' => Is(j, {"delete"}, "erase") /\ reqs'[j] = reqs[j]
                       /\ Deleting(j)' => j = i \/ (Deleting(j) /\ reqs'[j] = reqs[j])
                       /\ Is(j, {"delete"}, "commit") => j # i /\ reqs'[j] = reqs[j]
  BY <1>1 DEF Moving, Deleting, Is
<1>4. NobodyElse'
  <2>1. \A t \in Servers \ {reqs[i].s} : rows[t] # None => rows[t].dir # reqs[i].arg
    BY DEF Plans
  <2>2. \A j \in Slots : Moving(j) /\ reqs[j].arg.dir = reqs[i].arg => reqs[i].arg \in crossed'
    BY DEF Plans, Moving
  <2>3. QED  BY <1>1, <1>2, <1>3, <2>1, <2>2 DEF NobodyElse
<1>5. NoRuntimeThere'
  BY <1>1, <1>2, <1>3 DEF NoRuntimeThere, Dir
<1>6. MovesToFiles'
  BY <1>1, <1>2, <1>3 DEF MovesToFiles
<1>7. LeavesSoon'
  <2>1. \A s \in Servers : Leaving(s) => Leaving(s)'
    BY <1>2, <1>3 DEF Leaving, Is
  <2>2. QED  BY <1>1, <1>2, <2>1 DEF LeavesSoon
<1>8. NothingRunsInErased'
  BY <1>1, <1>2 DEF NothingRunsInErased
<1>9. QED  BY <1>4, <1>5, <1>6, <1>7, <1>8

\* The files go: nobody else was there, or came in between.
LEMMA ErasesFiles ==
    ASSUME Structure, Holding, Files, NEW i \in Slots, Erases(i)
    PROVE  Files'
<1> USE DEF Files
<1>1. /\ reqs[i] # None /\ reqs[i].kind = "delete" /\ reqs'[i] # None /\ reqs'[i].kind = "delete"
      /\ reqs'[i].s = reqs[i].s /\ reqs'[i].arg = reqs[i].arg
      /\ reqs[i].step = "erase" /\ reqs'[i].step = "commit"
      /\ \A j \in Slots \ {i} : reqs'[j] = reqs[j]
      /\ UNCHANGED <<rows, sup, rts, alive, boot, orphaned>>
  BY DeletionMoves
<1>2. UNCHANGED <<undone, crossed>> /\ gone' = gone \cup {reqs[i].arg}
  BY DEF Erases, history
<1>3. Is(i, {"delete"}, "erase") /\ Deleting(i) /\ Is(i, {"delete"}, "commit")'
  BY <1>1 DEF Deleting, Is
<1>4. \A j \in Slots : /\ Moving(j)' => Moving(j) /\ reqs'[j] = reqs[j]
                       /\ Is(j, {"delete"}, "erase")' => Is(j, {"delete"}, "erase") /\ reqs'[j] = reqs[j]
                       /\ Deleting(j)' => Deleting(j) /\ reqs'[j] = reqs[j]
                       /\ Is(j, {"delete"}, "commit") => j # i /\ reqs'[j] = reqs[j]
  BY <1>1 DEF Moving, Deleting, Is
<1>5. NobodyElse'
  BY <1>1, <1>2, <1>4 DEF NobodyElse
<1>6. NoRuntimeThere'
  BY <1>1, <1>2, <1>4 DEF NoRuntimeThere, Dir
<1>7. MovesToFiles'
  BY <1>2, <1>3, <1>4 DEF MovesToFiles, NobodyElse
<1>8. LeavesSoon'
  <2>1. \A s \in Servers : Leaving(s) => Leaving(s)'
    BY <1>2, <1>4 DEF Leaving, Is
  <2>2. \A s \in Servers : s = reqs[i].s => Leaving(s)'
    BY <1>1, <1>3 DEF Leaving
  <2>3. \A s \in Servers : rows[s] # None /\ rows[s].dir = reqs[i].arg /\ s # reqs[i].s
                              => rows[s].dir \in crossed
    BY <1>3 DEF NobodyElse
  <2>4. QED  BY <1>1, <1>2, <2>1, <2>2, <2>3 DEF LeavesSoon
<1>9. NothingRunsInErased'
  <2>1. Awaited = {}
    BY <1>1, UpWithRequests DEF Awaited
  <2>2. ASSUME NEW a \in alive, a.dir = reqs[i].arg PROVE a.dir \in orphaned \cup crossed
    <3>1. HeldBySome(a)
      BY DEF Holding, Held
    <3>2. QED  BY <1>3, <2>1, <2>2, <3>1 DEF HeldBySome, Watches, NoRuntimeThere
  <2>3. QED  BY <1>1, <1>2, <2>2 DEF NothingRunsInErased
<1>10. QED  BY <1>5, <1>6, <1>7, <1>8, <1>9

\* A runtime leaves, another comes: a folder that is being deleted is remembered.
LEMMA ReplacementFiles ==
    ASSUME Structure, Holding, Files, NEW i \in Slots, Applies(i) \/ Unregisters(i)
    PROVE  Files'
<1> USE DEF Files
<1>0. PICK s, dir : s = reqs[i].s /\ dir = Given(reqs[i])
  OBVIOUS
<1>1. /\ reqs[i] # None /\ s \in Servers /\ dir \in Dirs \cup {None} /\ Replaced(s, dir)
      /\ reqs[i].kind \in {"update", "delete"}
      /\ UNCHANGED <<rows, alive, gone, undone>>
      /\ \A j \in Slots \ {i} : reqs'[j] = reqs[j]
      /\ reqs'[i] # None /\ reqs'[i].kind = reqs[i].kind /\ reqs'[i].s = reqs[i].s
      /\ reqs'[i].arg = reqs[i].arg /\ reqs'[i].read = reqs[i].read
      /\ reqs'[i].step = IF reqs[i].kind = "update" THEN "commit" ELSE "erase"
      /\ reqs[i].step = IF reqs[i].kind = "update" THEN "apply" ELSE "go"
  BY <1>0, ReplacementIs DEF world
<1>2. dir # None => reqs[i].kind = "update" /\ dir = reqs[i].arg.dir
  BY <1>0 DEF Given
<1>3. /\ \A t \in Servers \ {s} : sup'[t] = sup[t] /\ (sup[t] # None => rts'[sup[t]] = rts[sup[t]])
      /\ sup'[s] # None <=> dir # None
      /\ sup'[s] # None => rts'[sup'[s]] = Runtime(s, dir)
  BY <1>1, ReplacedIs DEF Structure
<1>4. orphaned \subseteq orphaned' /\ crossed \subseteq crossed'
  BY <1>1 DEF Replaced, Applies, Unregisters
<1>5. reqs[i].kind = "update" =>
         /\ \A j \in Slots : Deleting(j) /\ reqs[j].arg = reqs[i].arg.dir => reqs[i].arg.dir \in crossed'
         /\ reqs[i].arg.dir # reqs[i].read.dir => reqs[i].arg.dir \notin gone
  BY DEF Applies, Unregisters, Deleting, Is
<1>6. \A j \in Slots : /\ Moving(j)' => (j = i /\ reqs[i].kind = "update") \/ (Moving(j) /\ reqs'[j] = reqs[j])
                       /\ Deleting(j)' => Deleting(j) /\ reqs'[j].arg = reqs[j].arg /\ reqs'[j].s = reqs[j].s
                       /\ Is(j, {"delete"}, "erase")' =>
                             \/ Is(j, {"delete"}, "erase") /\ reqs'[j] = reqs[j]
                             \/ j = i /\ reqs[i].kind = "delete"
                       /\ Is(j, {"delete"}, "commit") => reqs'[j] = reqs[j]
  BY <1>1 DEF Moving, Deleting, Is
<1>7. NobodyElse'
  BY <1>1, <1>4, <1>5, <1>6 DEF NobodyElse
<1>8. NoRuntimeThere'
  <2>1. ASSUME NEW j \in Slots, Is(j, {"delete"}, "erase")', NEW t \in Servers, sup'[t] # None,
               Dir(t)' = reqs'[j].arg
        PROVE  reqs'[j].arg \in orphaned' \cup crossed'
    <3>1. CASE t = s
      <4>1. reqs[i].kind = "update" /\ Dir(s)' = reqs[i].arg.dir
        BY <1>2, <1>3, <2>1, <3>1 DEF Dir, Runtime
      <4>2. Deleting(j) /\ reqs'[j] = reqs[j]
        BY <1>6, <2>1, <4>1 DEF Deleting
      <4>3. QED  BY <1>5, <2>1, <3>1, <4>1, <4>2
    <3>2. CASE t # s
      <4>1. sup[t] # None /\ Dir(t) = reqs'[j].arg
        BY <1>3, <2>1, <3>2 DEF Dir
      <4>2. CASE Is(j, {"delete"}, "erase") /\ reqs'[j] = reqs[j]
        BY <1>4, <4>1, <4>2 DEF NoRuntimeThere
      <4>3. CASE j = i /\ reqs[i].kind = "delete"
        <5>1. Deleting(i) /\ Dir(t) = reqs[i].arg /\ s = reqs[i].s
          BY <1>0, <1>1, <4>1, <4>3 DEF Deleting, Is
        <5>2. Updated(t) \/ ~Disagrees(t, rows[t]) \/ Dir(t) \in orphaned
          BY <4>1 DEF Holding, RowMatches
        <5>3. Dir(t) \in orphaned \cup crossed
          BY <3>2, <4>1, <5>1, <5>2 DEF Updated, Disagrees, NobodyElse, Moving, Dir
        <5>4. QED  BY <1>4, <4>1, <5>3
      <4>4. QED  BY <1>6, <2>1, <4>2, <4>3
    <3>3. QED  BY <3>1, <3>2
  <2>2. QED  BY <2>1 DEF NoRuntimeThere
<1>9. MovesToFiles'
  BY <1>1, <1>4, <1>5, <1>6 DEF MovesToFiles
<1>10. LeavesSoon'
  <2>1. \A t \in Servers : Leaving(t) => Leaving(t)'
    BY <1>1, <1>6 DEF Leaving, Is
  <2>2. QED  BY <1>1, <1>4, <2>1 DEF LeavesSoon
<1>11. NothingRunsInErased'
  BY <1>1, <1>4 DEF NothingRunsInErased
<1>12. QED  BY <1>7, <1>8, <1>9, <1>10, <1>11

\* The row of an update or of a deletion is written.
LEMMA RowChangeFiles ==
    ASSUME Structure, TypeOK', Files, NEW i \in Slots, CommitsUpdate(i) \/ CommitsDeletion(i)
    PROVE  Files'
<1> USE DEF Files
<1>0. PICK s : s = reqs[i].s
  OBVIOUS
<1>1. /\ reqs[i] # None /\ s \in Servers
      /\ reqs'[i] = None /\ \A j \in Slots \ {i} : reqs'[j] = reqs[j]
      /\ \A t \in Servers \ {s} : KeepsFolder(t)
      /\ \/ rows'[s] = None
         \/ /\ rows[s] # None /\ rows'[s].dir = rows[s].dir /\ Moving(i)
         \/ /\ rows'[s].dir = reqs[i].arg.dir /\ reqs[i].arg.dir # reqs[i].read.dir /\ Moving(i)
      /\ Moving(i) \/ (Is(i, {"delete"}, "commit") /\ rows'[s] = None)
      /\ orphaned \subseteq orphaned'
      /\ UNCHANGED <<sup, rts, alive, gone, undone, crossed>>
  <2>1. CASE CommitsUpdate(i)
    <3>1. /\ Moving(i) /\ reqs[i].s \in Servers /\ reqs[i] # None
          /\ reqs'[i] = None /\ \A j \in Slots \ {i} : reqs'[j] = reqs[j]
          /\ rows[reqs[i].s] # None
          /\ rows'[reqs[i].s].dir = rows[reqs[i].s].dir
             \/ (rows'[reqs[i].s].dir = reqs[i].arg.dir /\ reqs[i].arg.dir # reqs[i].read.dir)
          /\ \A t \in Servers \ {reqs[i].s} : KeepsFolder(t)
          /\ orphaned \subseteq orphaned'
          /\ UNCHANGED <<sup, rts, alive, gone, undone, crossed>>
      BY <2>1, UpdateIsWritten DEF Is, world, Moving
    <3>2. QED  BY <1>0, <3>1
  <2>2. CASE CommitsDeletion(i)
    BY <1>0, <2>2, DeletionIsWritten DEF Is, world, KeepsFolder
  <2>3. QED  BY <2>1, <2>2
<1>2. \A j \in Slots : /\ Deleting(j)' => Deleting(j) /\ reqs'[j] = reqs[j] /\ j # i
                       /\ Moving(j)' => Moving(j) /\ reqs'[j] = reqs[j]
                       /\ Is(j, {"delete"}, "erase")' => Is(j, {"delete"}, "erase")
  BY <1>1 DEF Deleting, Moving, Is
<1>3. NobodyElse'
  <2>1. ASSUME NEW j \in Slots, Deleting(j), NEW t \in Servers, t # reqs[j].s, rows'[t] # None,
               rows'[t].dir = reqs[j].arg
        PROVE  reqs[j].arg \in crossed
    <3>1. CASE rows[t] # None /\ rows'[t].dir = rows[t].dir
      BY <2>1, <3>1 DEF NobodyElse
    <3>2. CASE Moving(i) /\ rows'[t].dir = reqs[i].arg.dir
      BY <2>1, <3>2 DEF NobodyElse
    <3>3. QED  BY <1>1, <2>1, <3>1, <3>2 DEF KeepsFolder
  <2>2. QED  BY <1>1, <1>2, <2>1 DEF NobodyElse
<1>4. NoRuntimeThere'
  <2>1. \A j \in Slots : Is(j, {"delete"}, "erase")' => reqs'[j] = reqs[j]
    BY <1>2 DEF Deleting
  <2>2. QED  BY <1>1, <1>2, <2>1 DEF NoRuntimeThere, Dir
<1>5. MovesToFiles'
  BY <1>1, <1>2 DEF MovesToFiles
<1>6. LeavesSoon'
  <2>1. ASSUME NEW t \in Servers, rows'[t] # None, rows'[t].dir \in gone
        PROVE  rows'[t].dir \in crossed \/ Leaving(t)'
    <3>1. CASE rows[t] # None /\ rows'[t].dir = rows[t].dir
      <4>1. rows[t].dir \in crossed \/ Leaving(t)
        BY <2>1, <3>1 DEF LeavesSoon
      <4>2. Leaving(t) => Leaving(t)'
        BY <1>0, <1>1, <2>1 DEF Leaving, Is, Moving
      <4>3. QED  BY <3>1, <4>1, <4>2
    <3>2. CASE Moving(i) /\ rows'[t].dir = reqs[i].arg.dir /\ reqs[i].arg.dir # reqs[i].read.dir
      BY <2>1, <3>2 DEF MovesToFiles
    <3>3. QED  BY <1>1, <2>1, <3>1, <3>2 DEF KeepsFolder
  <2>2. QED  BY <1>1, <2>1 DEF LeavesSoon
<1>7. NothingRunsInErased'
  BY <1>1 DEF NothingRunsInErased
<1>8. QED  BY <1>3, <1>4, <1>5, <1>6, <1>7

\* Every step keeps the files of the servers that are listed.
LEMMA NextFiles ==
    ASSUME Structure, Structure', Holding, Files, [Next]_vars
    PROVE  Files'
<1> USE DEF Structure
<1>1. ASSUME NEW g \in Gens, NEW new, Moves(g, new) PROVE Files'
  <2>1. /\ UNCHANGED <<rows, sup, gone, orphaned, crossed, undone>>
        /\ \A a \in alive' \ alive : a.dir \notin gone
    BY <1>1 DEF Moves, history
  <2>2. \A s \in Servers : sup[s] # None => rts'[sup[s]].dir = rts[sup[s]].dir
    BY <1>1 DEF Moves, TypeOK
  <2>3. \A i \in Slots : /\ Deleting(i)' \/ Moving(i)' => reqs'[i] = reqs[i]
                         /\ Is(i, {"delete"}, "commit") => reqs'[i] = reqs[i]
    BY <1>1 DEF Moves, Deleting, Moving, Is, Lives, LifeKinds
  <2>4. QED  BY <2>1, <2>2, <2>3, CalmFiles DEF KeepsFolder
<1>2. ASSUME NEW g \in Gens, RuntimeStep(g) PROVE Files'
  BY <1>1, <1>2, RuntimeMoves
<1>3. ASSUME NEW i \in Slots, RequestStep(i) PROVE Files'
  <2>1. CASE BeginsStart(i) \/ BeginsStop(i) \/ EndsStop(i) \/ Persists(i)
    <3>1. PICK new : Moves(reqs[i].g, new) /\ reqs[i].g \in Gens
      BY <2>1, LifeMoves
    <3>2. QED  BY <1>1, <3>1
  <2>2. CASE Fails(i)
    <3>1. /\ UNCHANGED <<rows, sup, rts, alive, orphaned>>
          /\ reqs'[i] = None /\ \A j \in Slots \ {i} : reqs'[j] = reqs[j]
      BY <2>2, DeletionMoves
    <3>2. UNCHANGED <<gone, crossed>> /\ undone \subseteq undone'
          /\ (Is(i, {"delete"}, "commit") => reqs[i].s \in undone')
      BY <2>2 DEF Fails, world
    <3>3. QED  BY <3>1, <3>2, CalmFiles DEF KeepsFolder, Deleting, Moving, Is
  <2>3. CASE CommitsState(i)
    <3>1. /\ reqs[i] # None /\ reqs[i].kind \in LifeKinds
          /\ reqs'[i] = None /\ \A j \in Slots \ {i} : reqs'[j] = reqs[j]
          /\ \A s \in Servers : KeepsFolder(s)
          /\ UNCHANGED <<sup, rts, alive, gone, undone, orphaned, crossed>>
      BY <2>3, StateIsWritten DEF world
    <3>2. QED  BY <3>1, CalmFiles DEF Deleting, Moving, Is, LifeKinds
  <2>4. QED
    BY <1>3, <2>1, <2>2, <2>3, PlansFiles, ErasesFiles, ReplacementFiles, RowChangeFiles
       DEF RequestStep
<1>4. CASE Requests
  <2>1. /\ UNCHANGED <<sup, rts, alive, gone, undone, orphaned, crossed>>
        /\ \A s \in Servers : KeepsFolder(s)
        /\ \A i \in Slots : \/ reqs'[i] = reqs[i]
                            \/ /\ reqs[i] = None
                               /\ reqs'[i].step \in {"start", "stop", "apply", "plan"}
    BY <1>4, RequestsIs DEF world, history
  <2>2. QED  BY <2>1, CalmFiles DEF Deleting, Moving, Is
<1>5. CASE Writes \/ WriteFails \/ (\E s \in Servers : Takes(s)) \/ \E a \in alive : Exits(a)
  <2>1. /\ UNCHANGED <<sup, rts, reqs, gone, undone, orphaned, crossed>> /\ alive' \subseteq alive
        /\ \A s \in Servers : KeepsFolder(s)
    BY <1>5, WritesIs DEF KeepsFolder, WriteFails, Takes, Exits, memory, world, history
  <2>2. QED  BY <2>1, CalmFiles
<1>6. CASE MsmStops
  <2>1. /\ UNCHANGED <<rows, alive, gone, crossed>> /\ reqs' = [i \in Slots |-> None]
        /\ undone' = undone \cup {reqs[i].s : i \in {j \in Slots : Is(j, {"delete"}, "commit")}}
        /\ \A dir \in gone : dir \in orphaned => dir \in orphaned'
    BY <1>6 DEF MsmStops, world
  <2>2. QED  BY <2>1, QuietFiles DEF KeepsFolder, Leaving
<1>7. CASE BootStep
  <2>1. UNCHANGED <<reqs, alive, gone, undone, orphaned, crossed>>
    BY <1>7 DEF BootStep, RegistersAll, BeginsAutostart, Boots, Adopts, Autostarts, world, history
  <2>2. \A i \in Slots : reqs[i] = None
    BY <1>7 DEF BootStep, RegistersAll, BeginsAutostart, Boots, Adopts, Autostarts, BootInv, BootIsQuiet
  <2>3. \A s \in Servers : KeepsFolder(s)
    BY <1>7, BootsIs DEF BootStep, RegistersAll, BeginsAutostart, Adopts, Autostarts, KeepsFolder
  <2>4. \A s \in Servers : Leaving(s) => s \in undone'
    BY <2>1, <2>2 DEF Leaving, Is
  <2>5. QED  BY <2>1, <2>2, <2>3, <2>4, QuietFiles
<1>8. CASE UNCHANGED vars
  <2>1. UNCHANGED <<rows, sup, rts, reqs, alive, gone, undone, orphaned, crossed>>
    BY <1>8 DEF vars, memory, world, history
  <2>2. QED  BY <2>1, CalmFiles DEF KeepsFolder
<1>9. QED  BY <1>2, <1>3, <1>4, <1>5, <1>6, <1>7, <1>8 DEF Next

\* At first, no folder is erased and nobody asks.
LEMMA InitFiles == Init => Files
  BY DEF Init, Files, NobodyElse, NoRuntimeThere, MovesToFiles, LeavesSoon, NothingRunsInErased,
         Deleting, Moving, Is

\* A server that is listed has its files, and none runs where they were erased, but for the
\* folders that a server moved to during the deletion, or whose runtime was replaced in use.
THEOREM NobodyLosesFiles == Spec => []FilesAreKept
<1>1. Files => FilesAreKept
  BY DEF Files, FilesAreKept, LeavesSoon, Leaving, ListedHasFiles, Is
<1>2. QED
  BY InitStructure, NextStructure, InitHolding, NextHolding, InitFiles, NextFiles, <1>1, PTL DEF Spec

=============================================================================
