---------------------------- MODULE EventProofs ----------------------------
(***************************************************************************)
(* Proofs about what surrounds the runtime of a server: EventRuns, for any *)
(* sequences of steps, any actions made by hand and any bound; Notices,    *)
(* for any restart policies; and Players, for any players, any names that  *)
(* match others and any bound.                                             *)
(***************************************************************************)
EXTENDS EventRuns, Notices, Players, FiniteSetTheorems, FunctionTheorems,
        SequenceTheorems, WellFoundedInduction, TLAPS

-----------------------------------------------------------------------------
(***************************************************************************)
(* EventRuns.                                                              *)
(***************************************************************************)

\* What is sent to the server.
Words == Steps \cup ByHand \cup {"times", "subtitle", "title"}

Reports == [status : Statuses, step : Nat]

Rows == [exists : {TRUE}, status : Statuses, step : Nat, log : Seq(Reports)]

Stages == {"none", "ready", "done"} \cup Waiting

TypeOK ==
    /\ event \in Sequences \cup {<<>>} /\ rights \in {"none", "run", "all"}
    /\ server \in {"up", "down", "deleted"}
    /\ times \in {"none", "run", "hand"} /\ mixed \in BOOLEAN /\ overlap \in BOOLEAN
    /\ row \in Rows \cup {NoRow}
    /\ pc \in Stages /\ steps \in Sequences \cup {<<>>}
    /\ index \in Nat /\ left \in Seq(Words) /\ stale \in BOOLEAN
    /\ writes \in Seq([report : Reports, read : Rows \cup {NoRow}])
    /\ hand \in Seq(Words \cup {"idle"}) /\ sent \in Seq(Words) /\ issued \in Seq(Reports)
    /\ cancels \in Nat /\ failures \in Nat /\ lives \in Nat \ {0} /\ changes \in Nat

-----------------------------------------------------------------------------
CommandsUpTo(i) == AllCommands(SubSeq(steps, 1, i))

\* Where the run is.
Control ==
    /\ pc = "none" => row = NoRow /\ steps = <<>> /\ sent = <<>>
    /\ pc # "none" => steps \in Sequences
    /\ pc \in {"none", "ready", "refused"} => index = 0
    /\ pc \in {"none", "ready", "acting"} => writes = <<>>
    /\ index \in 0 .. Len(steps)
    /\ pc = "acting" => index > 0
    /\ pc = "completing" => index = Len(steps)
    /\ left # <<>> => pc = "acting"

\* What was sent: the commands of the steps done, and some of the one being done.
SentInOrder ==
    /\ pc = "acting" => sent \o left = CommandsUpTo(index)
    /\ pc \in {"none", "ready", "reporting", "completing"} => sent = CommandsUpTo(index)
    /\ Len(sent) \in UpTo(index - 1) .. UpTo(index)
    /\ sent = SubSeq(CommandsUpTo(index), 1, Len(sent))

AllowedAtStart ==
    pc # "none" => \A i \in DOMAIN AllCommands(steps) :
                      i \in DOMAIN allowed /\ allowed[i] = AllCommands(steps)[i]

-----------------------------------------------------------------------------
TitleTails == {TitleCommands, Tail(TitleCommands), Tail(Tail(TitleCommands))}

Acting(step) == pc = "acting" /\ steps[index] = step

RunsCommands ==
    left # <<>> => IF steps[index] = "title" THEN left \in TitleTails ELSE left = <<steps[index]>>

HandsCommands == hand \in {Idle, <<>>} \cup TitleTails \cup {<<c>> : c \in ByHand \ {"title"}}

DurationsMeet ==
    overlap \/ /\ InTitle(left) => times = "run"
               /\ InTitle(hand) => times = "hand"
               /\ Acting("title") => hand \notin TitleTails

-----------------------------------------------------------------------------
ReadIsRow == row.exists => \A i \in DOMAIN writes : writes[i].read.exists => i = 1 /\ writes[i].read = row

\* How a run may end.
EndsOnce ==
    /\ \A i \in DOMAIN writes : writes[i].report.status # Running =>
         /\ \A j \in DOMAIN writes : i < j => writes[i].report.status = Failed /\ writes[j].report.status = Cancelled
         /\ Over => row.status = Failed /\ writes[i].report.status = Cancelled
    /\ pc \in {"ready", "acting", "reporting"} =>
         ~Over /\ \A i \in DOMAIN writes : writes[i].report.status = Running
    /\ pc = "failing" => 
         /\ Over => row.status = Failed
         /\ \A i \in DOMAIN writes : writes[i].report.status \in {Running, Failed}

SentAll ==
    (row.exists /\ row.status = Completed) \/ (\E i \in DOMAIN writes : writes[i].report.status = Completed) =>
        pc \in {"completing", "done"} /\ sent = AllCommands(steps)

LastStep ==
    row.exists /\ lives = 1 /\ failures = 0 /\ pc \notin {"none", "acting"} =>
        IF writes = <<>> THEN row.step = index ELSE writes[Len(writes)].report.step = index

-----------------------------------------------------------------------------
(***************************************************************************)
(* The commands of a sequence of steps.                                    *)
(***************************************************************************)
\* A set of numbers that holds zero, and the successor of what it holds, is that of all.
LEMMA Induction ==
    ASSUME NEW T, T \subseteq Nat, 0 \in T, \A n \in T : n + 1 \in T
    PROVE  T = Nat
<1> SUFFICES ASSUME T # Nat PROVE FALSE
  OBVIOUS
<1> DEFINE R == OpToRel(<, Nat)
<1>1. PICK x \in Nat \ T : \A y \in Nat \ T : ~(<<y, x>> \in R)
  <2>1. IsWellFoundedOn(R, Nat)
    BY NatLessThanWellFounded
  <2> HIDE DEF R
  <2>2. QED  BY <2>1, WFMin
<1>2. x # 0 /\ x - 1 \in Nat
  OBVIOUS
<1>3. <<x - 1, x>> \in R
  BY <1>2 DEF OpToRel
<1> HIDE DEF R
<1>4. x - 1 \in T
  BY <1>1, <1>2, <1>3
<1>5. QED  BY <1>2, <1>4

\* The concatenations of the first sequences of Q, one after the other.
Concatenates(F, Q, V) ==
    /\ F \in [0 .. Len(Q) -> Seq(V)] /\ F[0] = <<>>
    /\ \A i \in 1 .. Len(Q) : F[i] = F[i - 1] \o Q[i]

\* There is such a sequence of concatenations.
LEMMA Concatenation ==
    ASSUME NEW V, NEW Q \in Seq(Seq(V))
    PROVE  \E F : Concatenates(F, Q, V)
<1> DEFINE Fits(F, n) == /\ F \in [0 .. n -> Seq(V)] /\ F[0] = <<>>
                         /\ \A i \in 1 .. n : F[i] = F[i - 1] \o Q[i]
           T == {n \in Nat : n <= Len(Q) => \E F : Fits(F, n)}
<1>0. Len(Q) \in Nat /\ \A i \in 1 .. Len(Q) : Q[i] \in Seq(V)
  OBVIOUS
<1>1. 0 \in T
  <2>1. Fits([i \in 0 .. 0 |-> <<>>], 0)
    OBVIOUS
  <2>2. QED  BY <2>1
<1>2. ASSUME NEW n \in T PROVE n + 1 \in T
  <2> SUFFICES ASSUME n + 1 <= Len(Q) PROVE \E F : Fits(F, n + 1)
    <3> HIDE DEF Fits
    <3>1. QED  OBVIOUS
  <2>0. n \in Nat /\ n <= Len(Q)
    BY <1>0
  <2>1. PICK F : Fits(F, n)
    <3> HIDE DEF Fits
    <3>1. QED  BY <2>0
  <2> DEFINE G == [i \in 0 .. n + 1 |-> IF i = n + 1 THEN F[n] \o Q[n + 1] ELSE F[i]]
  <2>2. Q[n + 1] \in Seq(V) /\ F[n] \in Seq(V)
    BY <1>0, <2>0, <2>1
  <2>3. F[n] \o Q[n + 1] \in Seq(V)
    BY <2>2
  <2>4. \A i \in 0 .. n : F[i] \in Seq(V)
    BY <2>1
  <2>5. G \in [0 .. n + 1 -> Seq(V)] /\ G[0] = <<>>
    BY <2>0, <2>1, <2>3, <2>4
  <2>6. \A i \in 1 .. n + 1 : G[i] = G[i - 1] \o Q[i]
    <3> SUFFICES ASSUME NEW i \in 1 .. n + 1 PROVE G[i] = G[i - 1] \o Q[i]
      OBVIOUS
    <3>1. CASE i = n + 1
      <4>0. i - 1 = n /\ n \in 0 .. n + 1 /\ n # n + 1 /\ n + 1 \in 0 .. n + 1
        BY <2>0, <3>1
      <4>1. G[i] = F[n] \o Q[n + 1]
        BY <4>0, <3>1, Zenon
      <4>2. G[n] = F[n]
        BY <4>0, Zenon
      <4> HIDE DEF G
      <4>3. QED  BY <3>1, <4>0, <4>1, <4>2, Zenon
    <3>2. CASE i # n + 1
      <4>1. i \in 1 .. n /\ i - 1 \in 0 .. n + 1 /\ i - 1 # n + 1 /\ i \in 0 .. n + 1
        BY <2>0, <3>2
      <4>2. G[i] = F[i] /\ G[i - 1] = F[i - 1]
        BY <3>2, <4>1
      <4> HIDE DEF G
      <4>3. QED  BY <2>1, <4>1, <4>2
    <3>3. QED  BY <3>1, <3>2
  <2>7. Fits(G, n + 1)
    BY <2>5, <2>6
  <2>8. QED  BY <2>7
<1>3. T = Nat
  <2> HIDE DEF T
  <2>1. T \subseteq Nat
    BY DEF T
  <2>2. QED  BY <1>1, <1>2, <2>1, Induction
<1>4. \E F : Fits(F, Len(Q))
  <2>1. Len(Q) \in T
    BY <1>0, <1>3
  <2> HIDE DEF Fits
  <2>2. QED  BY <1>0, <2>1
<1>5. QED  BY <1>4 DEF Concatenates

\* FlattenSeq makes them.
LEMMA FlattenPrefix ==
    ASSUME NEW V, NEW Q \in Seq(Seq(V)), NEW F, Concatenates(F, Q, V), NEW k \in 0 .. Len(Q)
    PROVE  FlattenSeq(SubSeq(Q, 1, k)) = F[k]
<1> DEFINE P == SubSeq(Q, 1, k)
<1>0. /\ Len(Q) \in Nat /\ k \in Nat /\ k <= Len(Q)
      /\ \A i \in 1 .. k : i \in 1 .. Len(Q)
  OBVIOUS
<1>a. \A i \in 1 .. k : F[i] = F[i - 1] \o Q[i]
  BY <1>0, Zenon DEF Concatenates
<1>b. 1 \in 1 .. k => Q[1] \in Seq(V) /\ F[1] = Q[1]
  <2> SUFFICES ASSUME 1 \in 1 .. k PROVE Q[1] \in Seq(V) /\ F[1] = Q[1]
    OBVIOUS
  <2>1. Q[1] \in Seq(V)
    BY <1>0
  <2>2. F[1 - 1] = <<>>
    BY DEF Concatenates
  <2>3. <<>> \o Q[1] = Q[1]
    BY <2>1
  <2>4. F[1] = F[1 - 1] \o Q[1]
    BY <1>a, Zenon
  <2>5. QED  BY <2>1, <2>2, <2>3, <2>4, Zenon
<1>1. Len(P) = k /\ \A i \in 1 .. k : P[i] = Q[i]
  OBVIOUS
<1>2. CASE k = 0
  BY <1>2 DEF FlattenSeq, Concatenates
<1>3. CASE k # 0
  <2> DEFINE Flat(f) == f = [i \in 1 .. Len(P) |-> IF i = 1 THEN P[i] ELSE f[i - 1] \o P[i]]
             g == CHOOSE f : Flat(f)
  <2>1. Flat([i \in 1 .. k |-> F[i]])
    <3>1. F[1] = Q[1]
      BY <1>0, <1>3, <1>b
    <3>2. \A i \in 1 .. k : F[i] = IF i = 1 THEN P[i] ELSE [j \in 1 .. k |-> F[j]][i - 1] \o P[i]
      <4> SUFFICES ASSUME NEW i \in 1 .. k, i # 1
                   PROVE  F[i] = [j \in 1 .. k |-> F[j]][i - 1] \o P[i]
        BY <1>1, <3>1
      <4>1. i - 1 \in 1 .. k
        OBVIOUS
      <4>2. F[i] = F[i - 1] \o Q[i]
        BY <1>a, Zenon
      <4> HIDE DEF P
      <4>3. QED  BY <1>1, <4>1, <4>2
    <3> HIDE DEF P
    <3>3. QED  BY <1>1, <3>2
  <2>2. Flat(g)
    BY <2>1
  <2> HIDE DEF g
  <2> DEFINE T == {n \in Nat : n + 1 <= k => g[n + 1] = F[n + 1]}
  <2>3. \A i \in 1 .. k : g[i] = IF i = 1 THEN P[i] ELSE g[i - 1] \o P[i]
    <3> HIDE DEF P
    <3>1. QED  BY <1>1, <2>2
  <2>4. 0 \in T
    <3>1. 1 \in 1 .. k /\ 0 + 1 = 1
      BY <1>0, <1>3
    <3> HIDE DEF P
    <3>2. g[1] = F[1]
      BY <1>1, <1>b, <2>3, <3>1
    <3>3. QED  BY <3>1, <3>2
  <2>5. ASSUME NEW n \in T PROVE n + 1 \in T
    <3>0. n \in Nat
      OBVIOUS
    <3> SUFFICES ASSUME n + 2 <= k PROVE g[n + 2] = F[n + 2]
      <4>1. n + 1 + 1 = n + 2
        BY <3>0
      <4>2. QED  BY <4>1, <3>0
    <3>1. PICK m \in 1 .. k : m = n + 2 /\ m # 1 /\ m - 1 = n + 1
      BY <3>0
    <3>2. F[m] = F[m - 1] \o Q[m]
      BY <1>a, Zenon
    <3>3. g[n + 1] = F[n + 1]
      BY <1>0, <3>0
    <3> HIDE DEF P, T
    <3>4. g[m] = g[m - 1] \o P[m]
      BY <2>3, <3>1, Zenon
    <3>5. P[m] = Q[m]
      BY <1>1, Zenon
    <3>6. QED  BY <3>1, <3>2, <3>3, <3>4, <3>5, Zenon
  <2>6. T = Nat
    <3> HIDE DEF T
    <3>1. T \subseteq Nat
      BY DEF T
    <3>2. QED  BY <2>4, <2>5, <3>1, Induction
  <2>7. g[k] = F[k]
    <3>1. k - 1 \in T
      <4> HIDE DEF T
      <4>1. QED  BY <1>0, <1>3, <2>6
    <3>2. k - 1 + 1 = k /\ k <= k
      BY <1>0
    <3>3. QED  BY <3>1, <3>2
  <2>8. FlattenSeq(P) = g[Len(P)]
    <3> HIDE DEF P
    <3>1. QED  BY <1>1, <1>3 DEF FlattenSeq, g
  <2>9. QED  BY <1>1, <2>7, <2>8
<1>4. QED  BY <1>2, <1>3

\* The commands of a step are a sequence.
LEMMA CommandsType ==
    ASSUME NEW step \in Words
    PROVE  Commands(step) \in Seq(Words)
<1>1. TitleCommands \in Seq(Words)
  BY DEF TitleCommands, Words
<1>a. Pause \in Seq(Words) /\ Single(step) \in Seq(Words)
  BY DEF Pause, Single
<1>2. Commands(step) \in {TitleCommands, Pause, Single(step)}
  BY Zenon DEF Commands
<1>3. QED  BY <1>1, <1>a, <1>2, Zenon

\* The commands of the first steps, those of one step more, and those of all the steps.
LEMMA CommandsOfSteps ==
    ASSUME NEW s \in Seq(Words)
    PROVE  /\ \A i \in 0 .. Len(s) : AllCommands(SubSeq(s, 1, i)) \in Seq(Words)
           /\ AllCommands(SubSeq(s, 1, 0)) = <<>>
           /\ AllCommands(SubSeq(s, 1, 0 - 1)) = <<>>
           /\ \A i \in 1 .. Len(s) : AllCommands(SubSeq(s, 1, i)) =
                                        AllCommands(SubSeq(s, 1, i - 1)) \o Commands(s[i])
           /\ AllCommands(SubSeq(s, 1, Len(s))) = AllCommands(s)
<1> DEFINE Q == [i \in 1 .. Len(s) |-> Commands(s[i])]
<1>0. Len(s) \in Nat
  OBVIOUS
<1>1. Q \in Seq(Seq(Words)) /\ Len(Q) = Len(s)
  <2>1. \A i \in 1 .. Len(s) : Commands(s[i]) \in Seq(Words)
    <3>1. \A i \in 1 .. Len(s) : s[i] \in Words
      OBVIOUS
    <3>2. QED  BY <3>1, CommandsType, Zenon
  <2>2. QED  BY <1>0, <2>1
<1>2. \A k \in 0 .. Len(s) : AllCommands(SubSeq(s, 1, k)) = FlattenSeq(SubSeq(Q, 1, k))
  <2> SUFFICES ASSUME NEW k \in 0 .. Len(s)
               PROVE  AllCommands(SubSeq(s, 1, k)) = FlattenSeq(SubSeq(Q, 1, k))
    OBVIOUS
  <2>1. DOMAIN SubSeq(s, 1, k) = 1 .. k /\ \A i \in 1 .. k : SubSeq(s, 1, k)[i] = s[i]
    OBVIOUS
  <2>2. [i \in DOMAIN SubSeq(s, 1, k) |-> Commands(SubSeq(s, 1, k)[i])] = [i \in 1 .. k |-> Commands(s[i])]
    BY <2>1
  <2>3. SubSeq(Q, 1, k) = [i \in 1 .. k |-> Q[i]]
    <3> HIDE DEF Q
    <3>1. QED  BY <1>1
  <2>4. \A i \in 1 .. k : Q[i] = Commands(s[i])
    OBVIOUS
  <2>5. SubSeq(Q, 1, k) = [i \in 1 .. k |-> Commands(s[i])]
    <3> HIDE DEF Q
    <3>1. QED  BY <2>3, <2>4
  <2> HIDE DEF Q
  <2>6. QED  BY <2>2, <2>5, Zenon DEF AllCommands
<1>3. \A i \in 1 .. Len(s) : Q[i] = Commands(s[i])
  OBVIOUS
<1> HIDE DEF Q
<1>4. PICK F : Concatenates(F, Q, Words)
  BY <1>1, Concatenation
<1>5. \A k \in 0 .. Len(s) : AllCommands(SubSeq(s, 1, k)) = F[k]
  <2> SUFFICES ASSUME NEW k \in 0 .. Len(s) PROVE AllCommands(SubSeq(s, 1, k)) = F[k]
    OBVIOUS
  <2>1. k \in 0 .. Len(Q)
    BY <1>1
  <2>2. FlattenSeq(SubSeq(Q, 1, k)) = F[k]
    BY <1>1, <1>4, <2>1, FlattenPrefix
  <2>3. QED  BY <1>2, <2>2
<1>6. F \in [0 .. Len(s) -> Seq(Words)] /\ F[0] = <<>>
  BY <1>1, <1>4 DEF Concatenates
<1>7. \A i \in 1 .. Len(s) : F[i] = F[i - 1] \o Commands(s[i])
  <2> SUFFICES ASSUME NEW i \in 1 .. Len(s) PROVE F[i] = F[i - 1] \o Commands(s[i])
    OBVIOUS
  <2>1. i \in 1 .. Len(Q) /\ Q[i] = Commands(s[i])
    BY <1>1, <1>3
  <2>2. F[i] = F[i - 1] \o Q[i]
    BY <1>4, <2>1, Zenon DEF Concatenates
  <2>3. QED  BY <2>1, <2>2, Zenon
<1>8. SubSeq(s, 1, Len(s)) = s /\ SubSeq(s, 1, 0) = SubSeq(s, 1, 0 - 1)
  BY <1>0
<1>9. 0 \in 0 .. Len(s) /\ \A i \in 1 .. Len(s) : i \in 0 .. Len(s) /\ i - 1 \in 0 .. Len(s)
  BY <1>0
<1>a. \A i \in 1 .. Len(s) : AllCommands(SubSeq(s, 1, i)) =
                                AllCommands(SubSeq(s, 1, i - 1)) \o Commands(s[i])
  BY <1>5, <1>7, <1>9, Zenon
<1>b. \A i \in 0 .. Len(s) : AllCommands(SubSeq(s, 1, i)) \in Seq(Words)
  BY <1>5, <1>6, Zenon
<1>c. AllCommands(SubSeq(s, 1, 0)) = <<>>
  BY <1>5, <1>6, <1>9, Zenon
<1>d. QED  BY <1>8, <1>a, <1>b, <1>c, Zenon

\* The commands of the first steps begin those of all.
LEMMA FirstStepsFirst ==
    ASSUME NEW s \in Seq(Words), NEW i \in 0 .. Len(s)
    PROVE  LET first == AllCommands(SubSeq(s, 1, i))
           IN  /\ Len(first) <= Len(AllCommands(s))
               /\ \A k \in 1 .. Len(first) : first[k] = AllCommands(s)[k]
<1> DEFINE C(j) == AllCommands(SubSeq(s, 1, j))
           Begins(j) == Len(C(i)) <= Len(C(j)) /\ \A k \in 1 .. Len(C(i)) : C(i)[k] = C(j)[k]
           T == {n \in Nat : i + n <= Len(s) => Begins(i + n)}
<1>0. Len(s) \in Nat /\ i \in Nat /\ i <= Len(s)
  OBVIOUS
<1>1. /\ \A j \in 0 .. Len(s) : C(j) \in Seq(Words)
      /\ \A j \in 1 .. Len(s) : C(j) = C(j - 1) \o Commands(s[j])
      /\ C(Len(s)) = AllCommands(s)
  BY CommandsOfSteps, Zenon
<1> HIDE DEF C
<1>2. 0 \in T
  BY <1>0, <1>1
<1>3. ASSUME NEW n \in T PROVE n + 1 \in T
  <2> SUFFICES ASSUME i + (n + 1) <= Len(s) PROVE Begins(i + (n + 1))
    OBVIOUS
  <2>1. PICK j \in 1 .. Len(s) : j = i + (n + 1) /\ j - 1 = i + n /\ j - 1 \in 0 .. Len(s)
    BY <1>0
  <2>2. Begins(j - 1)
    BY <1>0, <2>1
  <2>3. C(j) = C(j - 1) \o Commands(s[j]) /\ C(j - 1) \in Seq(Words) /\ Commands(s[j]) \in Seq(Words)
    <3>1. s[j] \in Words
      OBVIOUS
    <3>2. QED  BY <1>1, <2>1, <3>1, CommandsType, Zenon
  <2>4. C(i) \in Seq(Words)
    BY <1>1
  <2>5. Begins(j)
    BY <2>2, <2>3, <2>4
  <2>6. QED  BY <2>1, <2>5
<1>4. T = Nat
  <2> HIDE DEF T
  <2>1. T \subseteq Nat
    BY DEF T
  <2>2. QED  BY <1>2, <1>3, <2>1, Induction
<1>5. Begins(Len(s))
  <2>1. Len(s) - i \in T /\ i + (Len(s) - i) = Len(s)
    <3> HIDE DEF T
    <3>1. QED  BY <1>0, <1>4
  <2> HIDE DEF Begins
  <2>2. QED  BY <1>0, <2>1
<1>6. QED  BY <1>1, <1>5 DEF C
-----------------------------------------------------------------------------
(***************************************************************************)
(* The steps, by what they may change.                                     *)
(***************************************************************************)
\* A request by hand begins with the commands of one of its actions.
RequestByHand == \E commands \in {<<>>, TitleCommands} \cup {<<c>> : c \in ByHand \ {"title"}} : HandBegins(commands)

\* The steps of the run that are not writes.
StepOfRun ==
    \/ Begin \/ NextStep \/ Completes \/ Sends \/ StepDone \/ StepFails \/ Ends \/ Cancel
    \/ MsmRestarts
    \/ \E confirm \in BOOLEAN : Start(confirm)

\* The steps of the server, of its event and of those who write to it.
StepBeside ==
    \/ EditEvent \/ ChangeRights \/ ServerStops \/ ServerStarts \/ ServerDeleted
    \/ RequestByHand \/ HandSends \/ HandEnds

StepOfWrite == \E i \in DOMAIN writes : Read(i) \/ Commit(i) \/ NothingToWrite(i) \/ WriteFails(i)

\* What an action made by hand sends.
LEMMA HandCommands ==
    ASSUME NEW step \in ByHand
    PROVE  Commands(step) \in {<<>>, TitleCommands} \cup {<<c>> : c \in ByHand \ {"title"}}
<1>1. CASE step = "title"
  BY <1>1, Zenon DEF Commands
<1>2. CASE step # "title"
  <2>1. Commands(step) \in {<<>>, <<step>>}
    BY <1>2, Zenon DEF Commands, Pause, Single
  <2>2. QED  BY <1>2, <2>1
<1>3. QED  BY <1>1, <1>2

\* Every step is of one of these.
LEMMA StepIsOf ==
    ASSUME [Next]_vars
    PROVE  StepOfRun \/ StepBeside \/ StepOfWrite \/ UNCHANGED vars
<1>1. ASSUME NEW step \in ByHand, QuickAction(step) PROVE RequestByHand
  BY <1>1, HandCommands, Zenon DEF QuickAction, RequestByHand
<1>2. ASSUME NEW command \in ByHand \ {"title"}, PlayerAction(command) \/ ConsoleCommand(command)
      PROVE  RequestByHand
  <2>1. HandBegins(<<command>>)
    BY <1>2, Zenon DEF PlayerAction, ConsoleCommand
  <2>2. <<command>> \in {<<c>> : c \in ByHand \ {"title"}}
    OBVIOUS
  <2>3. QED  BY <2>1, <2>2, Zenon DEF RequestByHand
<1>3. EventRequests => StepOfRun \/ StepBeside
  BY <1>1, Zenon DEF EventRequests, StepOfRun, StepBeside
<1>4. PlayerRequests \/ ConsoleRequests => StepBeside
  BY <1>2, Zenon DEF PlayerRequests, ConsoleRequests, StepBeside
<1>5. CASE Next
  BY <1>3, <1>4, <1>5, Zenon DEF Next, StepOfRun, StepBeside, StepOfWrite, Writes
<1>6. QED  BY <1>5, Zenon

\* Beside the run, and when its reports are written, what it sends does not change.
LEMMA RunUnchanged ==
    ASSUME StepBeside \/ StepOfWrite \/ UNCHANGED vars
    PROVE  UNCHANGED <<task, steps, allowed>>
<1>1. CASE StepBeside
  BY <1>1, Zenon DEF StepBeside, EditEvent, ChangeRights, ServerStops, ServerStarts, ServerDeleted,
                RequestByHand, HandBegins, HandSends, HandEnds
<1>2. CASE StepOfWrite
  BY <1>2, Zenon DEF StepOfWrite, Read, Commit, NothingToWrite, WriteFails
<1>3. CASE UNCHANGED vars
  BY <1>3, Zenon DEF vars
<1>4. QED  BY <1>1, <1>2, <1>3

-----------------------------------------------------------------------------
(***************************************************************************)
(* Types.                                                                  *)
(***************************************************************************)
\* The steps of an event are commands.
LEMMA SequencesType ==
    Sequences \cup {<<>>} \subseteq Seq(Words)
<1>1. Steps \subseteq Words
  BY DEF Words
<1>2. Seq(Steps) \subseteq Seq(Words)
  BY <1>1
<1>3. <<>> \in Seq(Words)
  OBVIOUS
<1>4. QED  BY <1>2, <1>3, TitlesAssumption, Zenon

\* What is removed of the writes is the first.
LEMMA FirstRemoved ==
    ASSUME TypeOK, NEW i \in DOMAIN writes, HoldsLock(i)
    PROVE  i = 1 /\ RemoveAt(writes, i) = Tail(writes)
<1>1. writes # <<>> /\ i = 1 /\ Len(writes) \in Nat
  BY DEF HoldsLock, TypeOK
<1>2. SubSeq(writes, 1, 1 - 1) = <<>> /\ SubSeq(writes, 1 + 1, Len(writes)) = Tail(writes)
  BY <1>1 DEF TypeOK
<1>3. <<>> \o Tail(writes) = Tail(writes)
  <2>1. Tail(writes) \in Seq([report : Reports, read : Rows \cup {NoRow}])
    BY <1>1 DEF TypeOK
  <2> HIDE DEF Reports, Rows
  <2>2. QED  BY <2>1
<1>4. QED  BY <1>1, <1>2, <1>3, Zenon DEF RemoveAt

\* A report published keeps the types.
LEMMA IssueType ==
    ASSUME TypeOK, NEW report \in Reports, Issue(report)
    PROVE  /\ issued' \in Seq(Reports)
           /\ writes' \in Seq([report : Reports, read : Rows \cup {NoRow}])
<1> DEFINE write == [report |-> report, read |-> NoRow]
<1>1. write \in [report : Reports, read : Rows \cup {NoRow}]
  <2> HIDE DEF Reports, Rows, NoRow
  <2>1. QED  OBVIOUS
<1> HIDE DEF write
<1>2. issued \in Seq(Reports) /\ writes \in Seq([report : Reports, read : Rows \cup {NoRow}])
  BY DEF TypeOK
<1>3. issued' = Append(issued, report) /\ writes' = Append(writes, write)
  BY Zenon DEF Issue, write
<1> HIDE DEF Reports, Rows, NoRow
<1>4. QED  BY <1>1, <1>2, <1>3

\* A report is one.
LEMMA ReportType ==
    ASSUME NEW status \in Statuses, NEW step \in Nat
    PROVE  Report(status, step) \in Reports
BY DEF Report, Reports

\* What a write commits is a row.
LEMMA WrittenType ==
    ASSUME NEW read \in Rows, NEW report \in Reports
    PROVE  Written(read, report) \in Rows
<1>1. /\ read.status \in Statuses /\ report.status \in Statuses /\ report.step \in Nat
      /\ read.log \in Seq(Reports)
  BY DEF Rows, Reports
<1>2. Append(read.log, report) \in Seq(Reports)
  <2> HIDE DEF Reports
  <2>1. QED  BY <1>1
<1> DEFINE status == IF report.status = Running THEN read.status ELSE report.status
           grown == Append(read.log, report)
<1>3. status \in Statuses
  BY <1>1
<1> HIDE DEF status, grown
<1>4. Row(status, report.step, grown) \in Rows
  <2>1. grown \in Seq(Reports)
    BY <1>2 DEF grown
  <2> HIDE DEF Reports, Statuses
  <2>2. QED  BY <1>1, <1>3, <2>1 DEF Row, Rows
<1>5. QED  BY <1>4, Zenon DEF Written, status, grown

\* At first the variables have their types.
LEMMA InitType ==
    ASSUME Init
    PROVE  TypeOK
<1>1. Idle \in Seq(Words \cup {"idle"})
  BY DEF Idle
<1>2. event \in Sequences \cup {<<>>} /\ rights \in {"none", "run", "all"} /\ row \in Rows \cup {NoRow}
  BY DEF Init
<1>3. left \in Seq(Words) /\ sent \in Seq(Words) /\ hand \in Seq(Words \cup {"idle"})
  BY <1>1 DEF Init
<1>4. issued \in Seq(Reports) /\ writes \in Seq([report : Reports, read : Rows \cup {NoRow}])
  <2> HIDE DEF Reports, Rows, NoRow
  <2>1. QED  BY DEF Init
<1>5. /\ server \in {"up", "down", "deleted"} /\ times \in {"none", "run", "hand"}
      /\ mixed \in BOOLEAN /\ overlap \in BOOLEAN /\ stale \in BOOLEAN
      /\ pc \in Stages /\ steps \in Sequences \cup {<<>>} /\ index \in Nat
      /\ cancels \in Nat /\ failures \in Nat /\ lives \in Nat \ {0} /\ changes \in Nat
  <2>1. steps \in Sequences \cup {<<>>} /\ pc \in Stages
    BY DEF Init, Stages
  <2>2. /\ server \in {"up", "down", "deleted"} /\ times \in {"none", "run", "hand"}
        /\ mixed \in BOOLEAN /\ overlap \in BOOLEAN /\ stale \in BOOLEAN
    BY Zenon DEF Init
  <2>3. cancels = 0 /\ failures = 0 /\ lives = 1 /\ changes = 0 /\ index = 0
    BY Zenon DEF Init
  <2>4. QED  BY <2>1, <2>2, <2>3
<1>6. QED  BY <1>2, <1>3, <1>4, <1>5, Zenon DEF TypeOK

\* The elements of a sequence.
LEMMA ElementType ==
    ASSUME NEW S, NEW s \in Seq(S), NEW i \in DOMAIN s
    PROVE  s[i] \in S
OBVIOUS

\* A sequence with one element replaced.
LEMMA ExceptType ==
    ASSUME NEW S, NEW s \in Seq(S), NEW i \in DOMAIN s, NEW x \in S
    PROVE  [s EXCEPT ![i] = x] \in Seq(S)
OBVIOUS

\* A command sent keeps the types of what the players see.
LEMMA ShowsType ==
    ASSUME TypeOK, NEW command, NEW by \in {"run", "hand"}, Shows(command, by)
    PROVE  times' \in {"none", "run", "hand"} /\ mixed' \in BOOLEAN
<1>1. times' \in {"none", "run", "hand"}
  BY Zenon DEF Shows, TypeOK
<1>2. mixed' \in BOOLEAN
  BY Zenon DEF Shows, TypeOK
<1>3. QED  BY <1>1, <1>2

\* What is sent by hand is a sequence of commands.
LEMMA HandType ==
    \A commands \in {<<>>, TitleCommands} \cup {<<c>> : c \in ByHand \ {"title"}} :
        commands \in Seq(Words \cup {"idle"})
<1>1. TitleCommands \in Seq(Words \cup {"idle"})
  BY DEF TitleCommands, Words
<1>2. ASSUME NEW c \in ByHand PROVE <<c>> \in Seq(Words \cup {"idle"})
  <2>1. c \in Words \cup {"idle"}
    BY DEF Words
  <2> HIDE DEF Words
  <2>2. QED  BY <2>1
<1>3. <<>> \in Seq(Words \cup {"idle"})
  OBVIOUS
<1>4. QED  BY <1>1, <1>2, <1>3, Zenon

\* The steps beside the run keep the types.
LEMMA TypeBeside ==
    ASSUME TypeOK, StepBeside
    PROVE  TypeOK'
<1> DEFINE Besides ==
        /\ UNCHANGED <<task, steps, writes, issued, bounds>>
        /\ event' \in Sequences \cup {<<>>} /\ rights' \in {"none", "run", "all"}
        /\ server' \in {"up", "down", "deleted"}
        /\ times' \in {"none", "run", "hand"} /\ mixed' \in BOOLEAN /\ overlap' \in BOOLEAN
        /\ row' \in {row, NoRow} /\ stale' \in BOOLEAN
        /\ hand' \in Seq(Words \cup {"idle"}) /\ changes' \in Nat
<1>0. /\ event \in Sequences \cup {<<>>} /\ rights \in {"none", "run", "all"}
      /\ server \in {"up", "down", "deleted"}
      /\ times \in {"none", "run", "hand"} /\ mixed \in BOOLEAN /\ overlap \in BOOLEAN
      /\ stale \in BOOLEAN /\ hand \in Seq(Words \cup {"idle"}) /\ changes \in Nat
  BY Zenon DEF TypeOK
<1>a. Idle \in Seq(Words \cup {"idle"})
  BY DEF Idle
<1>1. ASSUME EditEvent PROVE Besides
  BY <1>1, <1>0 DEF EditEvent, Changes, world, screen, task, bounds
<1>2. ASSUME ChangeRights PROVE Besides
  BY <1>2, <1>0 DEF ChangeRights, Changes, world, screen, task, bounds
<1>3. ASSUME ServerStops PROVE Besides
  <2>1. overlap' \in BOOLEAN
    BY <1>3, <1>0, Zenon DEF ServerStops, InTitle
  <2>2. QED  BY <1>3, <1>0, <2>1 DEF ServerStops, Changes, world, screen, task, bounds
<1>4. ASSUME ServerStarts PROVE Besides
  BY <1>4, <1>0 DEF ServerStarts, world, screen, task, bounds
<1>5. ASSUME ServerDeleted PROVE Besides
  BY <1>5, <1>0 DEF ServerDeleted, world, screen, task, bounds
<1>6. ASSUME RequestByHand PROVE Besides
  <2>1. PICK commands \in {<<>>, TitleCommands} \cup {<<c>> : c \in ByHand \ {"title"}} :
            HandBegins(commands)
    BY <1>6, Zenon DEF RequestByHand
  <2>2. hand' \in Seq(Words \cup {"idle"})
    BY <2>1, HandType, Zenon DEF HandBegins
  <2>3. overlap' \in BOOLEAN
    BY <2>1, <1>0, Zenon DEF HandBegins
  <2>4. UNCHANGED <<world, times, mixed, task, row, steps, stale, writes, allowed, issued, bounds>>
    BY <2>1, Zenon DEF HandBegins
  <2>5. QED  BY <1>0, <2>2, <2>3, <2>4 DEF world
<1>7. ASSUME HandSends PROVE Besides
  <2>1. hand # <<>> /\ hand' = Tail(hand) /\ Shows(Head(hand), "hand")
    BY <1>7, Zenon DEF HandSends
  <2>2. hand' \in Seq(Words \cup {"idle"})
    BY <1>0, <2>1
  <2>3. times' \in {"none", "run", "hand"} /\ mixed' \in BOOLEAN
    BY <2>1, ShowsType, Zenon
  <2>4. UNCHANGED <<world, overlap, task, row, steps, stale, writes, allowed, issued, bounds>>
    BY <1>7, Zenon DEF HandSends
  <2>5. QED  BY <1>0, <2>2, <2>3, <2>4 DEF world
<1>8. ASSUME HandEnds PROVE Besides
  BY <1>8, <1>0, <1>a DEF HandEnds, world, screen, task, bounds
<1>9. Besides
  <2> HIDE DEF Besides
  <2>1. QED  BY <1>1, <1>2, <1>3, <1>4, <1>5, <1>6, <1>7, <1>8, Zenon DEF StepBeside
<1>b. row' \in Rows \cup {NoRow}
  BY <1>9, Zenon DEF TypeOK
<1>c. UNCHANGED <<pc, index, left, sent, steps, writes, issued, cancels, failures, lives>>
  BY <1>9, Zenon DEF task, bounds
<1>d. QED  BY <1>9, <1>b, <1>c, Zenon DEF TypeOK

\* The writes keep the types.
LEMMA TypeOfWrite ==
    ASSUME TypeOK, StepOfWrite
    PROVE  TypeOK'
<1> DEFINE AllWrites == Seq([report : Reports, read : Rows \cup {NoRow}])
<1>0. writes \in AllWrites /\ failures \in Nat /\ row \in Rows \cup {NoRow}
  BY Zenon DEF TypeOK
<1>a. row.exists => row \in Rows
  BY <1>0 DEF NoRow
<1>1. PICK i \in DOMAIN writes : Read(i) \/ Commit(i) \/ NothingToWrite(i) \/ WriteFails(i)
  BY Zenon DEF StepOfWrite
<1>2. i = 1 /\ RemoveAt(writes, i) = Tail(writes) /\ writes # <<>>
  BY <1>1, FirstRemoved, Zenon DEF Read, Commit, NothingToWrite, WriteFails, HoldsLock
<1>3. Tail(writes) \in AllWrites
  <2> HIDE DEF Reports, Rows, NoRow
  <2>1. QED  BY <1>0, <1>2
<1>4. writes' \in AllWrites /\ row' \in Rows \cup {NoRow} /\ failures' \in Nat
  <2>1. CASE Read(i)
    <3>1. writes' = [writes EXCEPT ![i].read = row] /\ UNCHANGED <<row, failures>>
      BY <2>1, Zenon DEF Read, bounds
    <3>2. writes[i] \in [report : Reports, read : Rows \cup {NoRow}]
      BY <1>0, ElementType, Zenon
    <3>3. [writes[i] EXCEPT !.read = row] \in [report : Reports, read : Rows \cup {NoRow}]
      <4> HIDE DEF Reports, Rows, NoRow
      <4>1. QED  BY <1>0, <3>2
    <3> DEFINE new == [writes[i] EXCEPT !.read = row]
    <3>4. writes' = [writes EXCEPT ![i] = new]
      BY <3>1
    <3>5. new \in [report : Reports, read : Rows \cup {NoRow}]
      BY <3>3
    <3> HIDE DEF new
    <3>6. writes' \in AllWrites
      BY <1>0, <3>4, <3>5, ExceptType, Zenon
    <3>7. QED  BY <1>0, <3>1, <3>6, Zenon
  <2>2. CASE Commit(i)
    <3>1. writes[i] \in [report : Reports, read : Rows \cup {NoRow}]
      BY <1>0, ElementType, Zenon
    <3>2. writes[i].read.exists /\ row' = Written(writes[i].read, writes[i].report)
      BY <2>2, Zenon DEF Commit
    <3>3. writes[i].read \in Rows /\ writes[i].report \in Reports
      <4>1. writes[i].read \in Rows \cup {NoRow} /\ writes[i].report \in Reports
        <5> HIDE DEF Reports, Rows, NoRow
        <5>1. QED  BY <3>1
      <4>2. writes[i].read # NoRow
        BY <3>2 DEF NoRow
      <4>3. QED  BY <4>1, <4>2, Zenon
    <3>4. row' \in Rows
      BY <3>2, <3>3, WrittenType, Zenon
    <3>5. writes' = Tail(writes) /\ UNCHANGED failures
      BY <2>2, <1>2, Zenon DEF Commit, bounds
    <3>6. QED  BY <1>0, <1>3, <3>4, <3>5, Zenon
  <2>3. CASE NothingToWrite(i)
    BY <2>3, <1>0, <1>2, <1>3, Zenon DEF NothingToWrite, bounds
  <2>4. CASE WriteFails(i)
    <3>1. writes' = Tail(writes) /\ row' = row
      BY <2>4, <1>2, Zenon DEF WriteFails
    <3>2. failures' \in Nat
      BY <2>4, <1>0 DEF WriteFails
    <3>3. QED  BY <1>0, <1>3, <3>1, <3>2, Zenon
  <2>5. QED  BY <1>1, <2>1, <2>2, <2>3, <2>4
<1>5. UNCHANGED <<world, screen, task, steps, stale, hand, issued, cancels, lives>>
  BY <1>1, Zenon DEF Read, Commit, NothingToWrite, WriteFails, bounds
<1>6. QED  BY <1>4, <1>5, Zenon DEF TypeOK, world, screen, task

\* The steps of the run keep the types.
LEMMA TypeOfRun ==
    ASSUME TypeOK, StepOfRun
    PROVE  TypeOK'
<1> DEFINE AllWrites == Seq([report : Reports, read : Rows \cup {NoRow}])
           Run == /\ UNCHANGED <<event, rights, server, changes>>
                  /\ times' \in {"none", "run", "hand"} /\ mixed' \in BOOLEAN /\ overlap' \in BOOLEAN
                  /\ row' \in Rows \cup {NoRow} /\ pc' \in Stages
                  /\ steps' \in Sequences \cup {<<>>} /\ index' \in Nat
                  /\ left' \in Seq(Words) /\ sent' \in Seq(Words) /\ stale' \in BOOLEAN
                  /\ writes' \in AllWrites /\ issued' \in Seq(Reports)
                  /\ hand' \in Seq(Words \cup {"idle"})
                  /\ cancels' \in Nat /\ failures' \in Nat /\ lives' \in Nat \ {0}
<1>0. /\ times \in {"none", "run", "hand"} /\ mixed \in BOOLEAN /\ overlap \in BOOLEAN
      /\ row \in Rows \cup {NoRow} /\ pc \in Stages /\ event \in Sequences \cup {<<>>}
      /\ steps \in Sequences \cup {<<>>} /\ index \in Nat
      /\ left \in Seq(Words) /\ sent \in Seq(Words) /\ stale \in BOOLEAN
      /\ writes \in AllWrites /\ issued \in Seq(Reports) /\ hand \in Seq(Words \cup {"idle"})
      /\ cancels \in Nat /\ failures \in Nat /\ lives \in Nat \ {0}
  BY Zenon DEF TypeOK
<1>a. Statuses = {Running, Completed, Failed, Cancelled}
  BY DEF Statuses
<1>b. /\ "ready" \in Stages /\ "reporting" \in Stages /\ "refused" \in Stages /\ "acting" \in Stages
      /\ "failing" \in Stages /\ "completing" \in Stages /\ "closing" \in Stages
      /\ "done" \in Stages /\ "none" \in Stages
  BY DEF Stages, Waiting
<1>c. <<>> \in Seq(Words) /\ <<>> \in Seq(Reports) /\ <<>> \in AllWrites
  <2> HIDE DEF Reports, Rows, NoRow
  <2>1. QED  OBVIOUS
<1>d. \A status \in Statuses : Issue(Report(status, index)) \/ Issue(Report(status, 0)) =>
          writes' \in AllWrites /\ issued' \in Seq(Reports)
  <2> SUFFICES ASSUME NEW status \in Statuses, Issue(Report(status, index)) \/ Issue(Report(status, 0))
               PROVE  writes' \in AllWrites /\ issued' \in Seq(Reports)
    OBVIOUS
  <2>1. Report(status, index) \in Reports /\ Report(status, 0) \in Reports
    BY <1>0, ReportType
  <2>2. QED  BY <2>1, IssueType, Zenon
<1> HIDE DEF AllWrites
<1>1. ASSUME Begin PROVE Run
  <2>1. pc' \in Stages /\ writes' \in AllWrites /\ issued' \in Seq(Reports)
    BY <1>1, <1>a, <1>b, <1>d, Zenon DEF Begin
  <2>2. UNCHANGED <<world, screen, row, steps, index, left, sent, stale, hand, bounds>>
    BY <1>1, Zenon DEF Begin
  <2>3. QED  BY <1>0, <2>1, <2>2, Zenon DEF world, screen, bounds
<1>2. ASSUME NextStep PROVE Run
  <2>1. index < Len(steps) /\ index' = index + 1 /\ left' = Commands(StepAt(index + 1)) /\ pc' = "acting"
    BY <1>2, Zenon DEF NextStep
  <2>2. left' \in Seq(Words)
    <3>1. steps \in Seq(Words)
      BY <1>0, SequencesType
    <3>2. index + 1 \in DOMAIN steps
      BY <1>0, <2>1, <3>1
    <3>3. StepAt(index + 1) \in Words
      BY <3>1, <3>2, ElementType, Zenon DEF StepAt
    <3>4. QED  BY <2>1, <3>3, CommandsType, Zenon
  <2>3. overlap' \in BOOLEAN
    BY <1>2, <1>0, Zenon DEF NextStep
  <2>4. index' \in Nat
    BY <1>0, <2>1
  <2>5. UNCHANGED <<world, times, mixed, row, steps, sent, stale, writes, hand, issued, bounds>>
    BY <1>2, Zenon DEF NextStep
  <2>6. QED  BY <1>0, <1>b, <2>1, <2>2, <2>3, <2>4, <2>5, Zenon DEF world, bounds
<1>3. ASSUME Completes PROVE Run
  <2>1. pc' \in Stages /\ writes' \in AllWrites /\ issued' \in Seq(Reports)
    BY <1>3, <1>a, <1>b, <1>d, Zenon DEF Completes
  <2>2. UNCHANGED <<world, screen, row, steps, index, left, sent, stale, hand, bounds>>
    BY <1>3, Zenon DEF Completes
  <2>3. QED  BY <1>0, <2>1, <2>2, Zenon DEF world, screen, bounds
<1>e. left # <<>> => Append(sent, Head(left)) \in Seq(Words) /\ Tail(left) \in Seq(Words)
  BY <1>0
<1>4. ASSUME Sends PROVE Run
  <2>1. sent' \in Seq(Words) /\ left' \in Seq(Words)
    BY <1>4, <1>e, Zenon DEF Sends
  <2>2. times' \in {"none", "run", "hand"} /\ mixed' \in BOOLEAN
    BY <1>4, ShowsType, Zenon DEF Sends
  <2>3. UNCHANGED <<world, overlap, row, pc, steps, index, stale, writes, hand, issued, bounds>>
    BY <1>4, Zenon DEF Sends
  <2>4. QED  BY <1>0, <2>1, <2>2, <2>3, Zenon DEF world, bounds
<1>5. ASSUME StepDone PROVE Run
  <2>1. pc' \in Stages /\ writes' \in AllWrites /\ issued' \in Seq(Reports)
    BY <1>5, <1>a, <1>b, <1>d, Zenon DEF StepDone
  <2>2. UNCHANGED <<world, screen, row, steps, index, left, sent, stale, hand, bounds>>
    BY <1>5, Zenon DEF StepDone
  <2>3. QED  BY <1>0, <2>1, <2>2, Zenon DEF world, screen, bounds
<1>6. ASSUME StepFails PROVE Run
  <2>1. pc' \in Stages /\ writes' \in AllWrites /\ issued' \in Seq(Reports) /\ left' = <<>>
    BY <1>6, <1>a, <1>b, <1>d, Zenon DEF StepFails
  <2>2. UNCHANGED <<world, screen, row, steps, index, sent, stale, hand, bounds>>
    BY <1>6, Zenon DEF StepFails
  <2>3. QED  BY <1>0, <1>c, <2>1, <2>2, Zenon DEF world, screen, bounds
<1>7. ASSUME Ends PROVE Run
  BY <1>7, <1>0, <1>b, Zenon DEF Ends, world, screen, bounds
<1>8. ASSUME Cancel PROVE Run
  <2>1. pc' \in Stages /\ writes' \in AllWrites /\ issued' \in Seq(Reports)
    BY <1>8, <1>0, <1>a, <1>b, <1>d, Zenon DEF Cancel
  <2>2. sent' \in Seq(Words)
    BY <1>8, <1>0, <1>e, Zenon DEF Cancel
  <2>3. times' \in {"none", "run", "hand"} /\ mixed' \in BOOLEAN /\ overlap' = overlap
    <3>1. CASE UNCHANGED <<sent, screen>>
      BY <3>1, <1>0, Zenon DEF screen
    <3>2. CASE Shows(Head(left), "run") /\ UNCHANGED overlap
      BY <3>2, ShowsType, Zenon
    <3>3. QED  BY <1>8, <3>1, <3>2, Zenon DEF Cancel
  <2>4. left' = <<>> /\ UNCHANGED <<world, row, steps, index, stale, hand, failures, lives>>
    BY <1>8, Zenon DEF Cancel
  <2>5. cancels' \in Nat
    BY <1>8, <1>0 DEF Cancel
  <2>6. QED  BY <1>0, <1>c, <2>1, <2>2, <2>3, <2>4, <2>5, Zenon DEF world
<1>9. ASSUME MsmRestarts PROVE Run
  <2>1. Idle \in Seq(Words \cup {"idle"})
    BY DEF Idle
  <2>2. row' \in Rows \cup {NoRow}
    <3>1. CASE row \in Rows
      BY <1>9, <3>1 DEF MsmRestarts, Interrupted, Rows, Statuses
    <3>2. CASE row = NoRow
      <4>1. ~row.exists
        BY <3>2 DEF NoRow
      <4>2. QED  BY <1>9, <1>0, <4>1, Zenon DEF MsmRestarts, Interrupted
    <3>3. QED  BY <1>0, <3>1, <3>2, Zenon
  <2>3. lives' \in Nat \ {0}
    BY <1>9, <1>0 DEF MsmRestarts
  <2>4. overlap' \in BOOLEAN
    BY <1>9, <1>0, Zenon DEF MsmRestarts, InTitle
  <2>5. pc' \in Stages /\ left' = <<>> /\ writes' = <<>> /\ hand' = Idle
    BY <1>9, <1>b, Zenon DEF MsmRestarts
  <2>6. UNCHANGED <<world, times, mixed, steps, index, sent, stale, issued, cancels, failures>>
    BY <1>9, Zenon DEF MsmRestarts
  <2>7. QED  BY <1>0, <1>c, <2>1, <2>2, <2>3, <2>4, <2>5, <2>6, Zenon DEF world
<1>f. ASSUME NEW confirm \in BOOLEAN, Start(confirm) PROVE Run
  <2>1. row' = Row(Running, 0, <<>>) /\ pc' = "ready" /\ steps' = event
    BY <1>f, Zenon DEF Start
  <2>2. row' \in Rows
    <3>1. Running \in Statuses /\ 0 \in Nat
      BY <1>a
    <3> HIDE DEF Running, Reports, Statuses
    <3>2. QED  BY <1>c, <2>1, <3>1 DEF Row, Rows
  <2>3. UNCHANGED <<world, screen, index, left, sent, stale, writes, hand, issued, bounds>>
    BY <1>f, Zenon DEF Start
  <2>4. QED  BY <1>0, <1>b, <2>1, <2>2, <2>3, Zenon DEF world, screen, bounds
<1>g. Run
  <2> HIDE DEF Run
  <2>1. QED
    BY <1>1, <1>2, <1>3, <1>4, <1>5, <1>6, <1>7, <1>8, <1>9, <1>f, Zenon DEF StepOfRun
<1>h. event \in Sequences \cup {<<>>} /\ rights \in {"none", "run", "all"} /\ server \in {"up", "down", "deleted"} /\ changes \in Nat
  BY Zenon DEF TypeOK
<1>i. writes' \in Seq([report : Reports, read : Rows \cup {NoRow}])
  BY <1>g, Zenon DEF AllWrites
<1>j. QED  BY <1>g, <1>h, <1>i, Zenon DEF TypeOK

\* Every step keeps the types.
LEMMA TypeKept ==
    ASSUME TypeOK, [Next]_vars
    PROVE  TypeOK'
<1>1. CASE UNCHANGED vars
  BY <1>1, ZenonT(30) DEF TypeOK, vars, world, screen, task, bounds
<1>2. QED  BY <1>1, StepIsOf, TypeBeside, TypeOfWrite, TypeOfRun, Zenon

\* Every variable keeps its type: the row is none or a row, reports are reports, and
\* what is sent are commands.
THEOREM TypeCorrect == Spec => []TypeOK
BY InitType, TypeKept, PTL DEF Spec

-----------------------------------------------------------------------------
(***************************************************************************)
(* Where the run is.                                                       *)
(***************************************************************************)
\* The steps beside the run leave its reports, and keep its row or remove it.
LEMMA BesideLeaves ==
    ASSUME StepBeside
    PROVE  UNCHANGED <<writes, lives, failures>> /\ row' \in {row, NoRow}
BY Zenon DEF StepBeside, EditEvent, ChangeRights, ServerStops, ServerStarts, ServerDeleted,
             RequestByHand, HandBegins, HandSends, HandEnds, bounds

\* Every step keeps the control of the run.
LEMMA ControlKept ==
    ASSUME TypeOK, Control, [Next]_vars
    PROVE  Control'
<1> USE DEF Control
<1>0. index \in Nat /\ pc \in Stages /\ steps \in Seq(Words) /\ Len(steps) \in Nat
  BY SequencesType DEF TypeOK
<1>1. CASE StepBeside
  <2>1. UNCHANGED <<pc, index, left, sent, steps, writes>> /\ row' \in {row, NoRow}
    BY <1>1, RunUnchanged, BesideLeaves, Zenon DEF task
  <2>2. QED  BY <2>1
<1>2. CASE StepOfWrite
  <2>1. UNCHANGED <<pc, index, left, sent, steps>>
    BY <1>2, RunUnchanged, Zenon DEF task
  <2>2. writes # <<>>
    <3>1. PICK i \in DOMAIN writes : TRUE
      BY <1>2, Zenon DEF StepOfWrite
    <3>2. QED  BY <3>1
  <2>3. pc \notin {"none", "ready", "acting"}
    BY <2>2
  <2>4. QED  BY <2>1, <2>3
<1>3. CASE UNCHANGED vars
  BY <1>3 DEF vars, task
<1>4. CASE Begin
  BY <1>4, <1>0 DEF Begin
<1>5. CASE NextStep
  <2>1. pc' = "acting" /\ index' = index + 1 /\ index < Len(steps) /\ writes = <<>> /\ pc = "reporting"
    BY <1>5, Zenon DEF NextStep, Reported
  <2>2. UNCHANGED <<row, steps, sent, writes>>
    BY <1>5, Zenon DEF NextStep
  <2>3. QED  BY <1>0, <2>1, <2>2
<1>6. CASE Completes
  BY <1>6, <1>0 DEF Completes
<1>7. CASE Sends
  <2>1. pc = "acting" /\ UNCHANGED <<row, pc, steps, index, writes>>
    BY <1>7, Zenon DEF Sends
  <2>2. QED  BY <1>0, <2>1
<1>8. CASE StepDone
  BY <1>8, <1>0 DEF StepDone
<1>9. CASE StepFails
  BY <1>9, <1>0 DEF StepFails
<1>a. CASE Ends
  BY <1>a, <1>0 DEF Ends
<1>b. CASE Cancel
  <2>1. pc \in Waiting /\ pc' \in {"closing", "done"} /\ left' = <<>> /\ UNCHANGED <<row, steps, index>>
    BY <1>b, Zenon DEF Cancel
  <2>2. QED  BY <1>0, <2>1 DEF Waiting
<1>c. CASE MsmRestarts
  <2>1. pc' = (IF pc = "none" THEN "none" ELSE "done") /\ left' = <<>> /\ writes' = <<>>
    BY <1>c, Zenon DEF MsmRestarts
  <2>2. UNCHANGED <<steps, index, sent>>
    BY <1>c, Zenon DEF MsmRestarts
  <2>3. pc = "none" => row' = NoRow
    BY <1>c DEF MsmRestarts, Interrupted, NoRow
  <2>4. QED  BY <1>0, <2>1, <2>2, <2>3
<1>d. ASSUME NEW confirm \in BOOLEAN, Start(confirm) PROVE Control'
  <2>1. pc = "none" /\ pc' = "ready" /\ steps' = event /\ event # <<>> /\ UNCHANGED <<index, left, sent, writes>>
    BY <1>d, Zenon DEF Start, ValidSteps
  <2>2. event \in Sequences
    BY <2>1 DEF TypeOK
  <2>3. event \in Seq(Words) /\ Len(event) \in Nat
    BY <2>2, SequencesType
  <2>4. QED  BY <1>0, <2>1, <2>2, <2>3
<1>e. QED
  BY <1>1, <1>2, <1>3, <1>4, <1>5, <1>6, <1>7, <1>8, <1>9, <1>a, <1>b, <1>c, <1>d, StepIsOf, Zenon
      DEF StepOfRun

-----------------------------------------------------------------------------
(***************************************************************************)
(* What is sent was allowed.                                               *)
(***************************************************************************)
SentInv == TypeOK /\ Control /\ SentInOrder /\ AllowedAtStart

\* The commands of the steps of the run: none at first, and one step more each time.
LEMMA CommandsOfRun ==
    ASSUME TypeOK, Control
    PROVE  /\ \A i \in 0 .. Len(steps) : CommandsUpTo(i) \in Seq(Words)
           /\ CommandsUpTo(0) = <<>> /\ CommandsUpTo(0 - 1) = <<>>
           /\ \A i \in 1 .. Len(steps) : CommandsUpTo(i) = CommandsUpTo(i - 1) \o Commands(steps[i])
           /\ CommandsUpTo(Len(steps)) = AllCommands(steps)
           /\ \A i \in 1 .. Len(steps) : Commands(steps[i]) \in Seq(Words)
           /\ index \in 0 .. Len(steps) /\ Len(steps) \in Nat
<1>1. steps \in Seq(Words)
  BY SequencesType DEF TypeOK
<1>2. \A i \in 1 .. Len(steps) : Commands(steps[i]) \in Seq(Words)
  <2>1. \A i \in 1 .. Len(steps) : steps[i] \in Words
    BY <1>1
  <2>2. QED  BY <2>1, CommandsType, Zenon
<1>3. index \in 0 .. Len(steps) /\ Len(steps) \in Nat
  BY <1>1 DEF Control
<1>4. QED  BY <1>1, <1>2, <1>3, CommandsOfSteps, Zenon DEF CommandsUpTo

\* What was sent before the end of a step.
InStep(s, i) ==
    /\ Len(s) \in UpTo(i - 1) .. UpTo(i)
    /\ s = SubSeq(CommandsUpTo(i), 1, Len(s))

\* Some of the commands of a step, after those of the steps before.
LEMMA PartOfStep ==
    ASSUME TypeOK, Control, NEW i \in 1 .. Len(steps), NEW s \in Seq(Words), NEW rest \in Seq(Words),
           s \o rest = CommandsUpTo(i), Len(CommandsUpTo(i - 1)) <= Len(s)
    PROVE  InStep(s, i)
<1>1. UpTo(i) = Len(CommandsUpTo(i)) /\ UpTo(i - 1) = Len(CommandsUpTo(i - 1))
  BY Zenon DEF UpTo, CommandsUpTo
<1>2. i - 1 \in 0 .. Len(steps) /\ i \in 0 .. Len(steps)
  BY CommandsOfRun
<1>3. CommandsUpTo(i - 1) \in Seq(Words) /\ CommandsUpTo(i) \in Seq(Words)
  BY <1>2, CommandsOfRun, Zenon
<1>4. UpTo(i - 1) \in Nat /\ UpTo(i) \in Nat
  BY <1>1, <1>3
<1>5. Len(s) \in Nat /\ Len(s \o rest) = Len(s) + Len(rest) /\ Len(rest) \in Nat
  OBVIOUS
<1>6. s = SubSeq(s \o rest, 1, Len(s))
  OBVIOUS
<1>7. QED  BY <1>1, <1>4, <1>5, <1>6 DEF InStep

\* All the commands of the first steps.
LEMMA AllOfSteps ==
    ASSUME TypeOK, Control, NEW i \in 0 .. Len(steps)
    PROVE  InStep(CommandsUpTo(i), i)
<1>1. UpTo(i) = Len(CommandsUpTo(i)) /\ UpTo(i - 1) = Len(CommandsUpTo(i - 1))
  BY Zenon DEF UpTo, CommandsUpTo
<1>2. CASE i = 0
  <2>1. CommandsUpTo(i - 1) = <<>> /\ CommandsUpTo(i) = <<>>
    BY <1>2, CommandsOfRun, Zenon
  <2>2. QED  BY <1>1, <2>1 DEF InStep
<1>3. CASE i # 0
  <2>1. i \in 1 .. Len(steps) /\ i - 1 \in 0 .. Len(steps)
    BY <1>3, CommandsOfRun
  <2>2. /\ CommandsUpTo(i) = CommandsUpTo(i - 1) \o Commands(steps[i])
        /\ CommandsUpTo(i - 1) \in Seq(Words) /\ Commands(steps[i]) \in Seq(Words)
        /\ CommandsUpTo(i) \in Seq(Words)
    BY <2>1, CommandsOfRun, Zenon
  <2>a. <<>> \in Seq(Words)
    OBVIOUS
  <2>3. Len(CommandsUpTo(i - 1)) <= Len(CommandsUpTo(i)) /\ CommandsUpTo(i) \o <<>> = CommandsUpTo(i)
    BY <2>2
  <2>4. QED  BY <2>1, <2>2, <2>a, <2>3, PartOfStep
<1>4. QED  BY <1>2, <1>3

\* Sending a command of a step.
LEMMA CommandSent ==
    ASSUME SentInv, pc = "acting", left # <<>>
    PROVE  /\ Append(sent, Head(left)) \o Tail(left) = CommandsUpTo(index)
           /\ InStep(Append(sent, Head(left)), index)
<1> DEFINE s == Append(sent, Head(left))
<1>1. left \in Seq(Words) /\ sent \in Seq(Words)
  BY DEF SentInv, TypeOK
<1>2. Tail(left) \in Seq(Words) /\ s \in Seq(Words)
  BY <1>1
<1>3. s \o Tail(left) = sent \o left /\ Len(s) = Len(sent) + 1 /\ Len(sent) \in Nat
  BY <1>1
<1>4. sent \o left = CommandsUpTo(index) /\ UpTo(index - 1) <= Len(sent)
  BY DEF SentInv, SentInOrder
<1>5. UpTo(index - 1) = Len(CommandsUpTo(index - 1))
  BY Zenon DEF UpTo, CommandsUpTo
<1>6. index \in 1 .. Len(steps) /\ index - 1 \in 0 .. Len(steps)
  BY CommandsOfRun DEF SentInv, Control
<1>7. CommandsUpTo(index - 1) \in Seq(Words)
  BY <1>6, CommandsOfRun, Zenon DEF SentInv
<1> HIDE DEF s
<1>8. Len(CommandsUpTo(index - 1)) <= Len(s)
  BY <1>3, <1>4, <1>5, <1>7
<1>9. s \o Tail(left) = CommandsUpTo(index)
  BY <1>3, <1>4
<1>a. InStep(s, index)
  BY <1>2, <1>6, <1>8, <1>9, PartOfStep, Zenon DEF SentInv
<1>b. QED  BY <1>9, <1>a, Zenon DEF s

\* What was sent is that of the steps done, and some of the one being done.
LEMMA SentKept ==
    ASSUME SentInv, [Next]_vars
    PROVE  SentInOrder'
<1> DEFINE Fits(p, i, l, s) ==
            /\ p = "acting" => s \o l = CommandsUpTo(i)
            /\ p \in {"none", "ready", "reporting", "completing"} => s = CommandsUpTo(i)
            /\ InStep(s, i)
<1>0. Fits(pc, index, left, sent)
  BY Zenon DEF SentInv, SentInOrder, InStep
<1>a. steps' = steps /\ Fits(pc', index', left', sent') => SentInOrder'
  BY Zenon DEF SentInOrder, InStep, UpTo, CommandsUpTo
<1>b. index \in 0 .. Len(steps)
  BY CommandsOfRun, Zenon DEF SentInv
<1>1. CASE UNCHANGED <<task, steps, allowed>>
  BY <1>0, <1>1, <1>a, Zenon DEF task
<1>2. CASE Begin \/ Completes
  <2>1. /\ pc \in {"ready", "reporting"} /\ pc' \in {"refused", "reporting", "completing"}
        /\ UNCHANGED <<steps, index, left, sent>>
    BY <1>2, Zenon DEF Begin, Completes
  <2>2. QED  BY <1>0, <1>a, <2>1, Zenon
<1>3. CASE NextStep
  <2>1. /\ pc = "reporting" /\ pc' = "acting" /\ index' = index + 1 /\ index < Len(steps)
        /\ left' = Commands(steps[index + 1]) /\ UNCHANGED <<sent, steps>>
    BY <1>3, Zenon DEF NextStep, StepAt
  <2>2. sent = CommandsUpTo(index) /\ sent \in Seq(Words)
    BY <2>1, <1>0, Zenon DEF SentInv, TypeOK
  <2>3. PICK i \in 1 .. Len(steps) : i = index + 1 /\ i - 1 = index
    BY <1>b, <2>1
  <2>4. CommandsUpTo(i) = CommandsUpTo(i - 1) \o Commands(steps[i]) /\ Commands(steps[i]) \in Seq(Words)
    BY CommandsOfRun, Zenon DEF SentInv
  <2>5. sent \o left' = CommandsUpTo(i)
    BY <2>1, <2>2, <2>3, <2>4, Zenon
  <2>6. Len(CommandsUpTo(i - 1)) <= Len(sent)
    BY <2>2, <2>3
  <2>7. InStep(sent, i)
    BY <2>1, <2>2, <2>3, <2>4, <2>5, <2>6, PartOfStep, Zenon DEF SentInv
  <2>8. QED  BY <1>a, <2>1, <2>3, <2>5, <2>7, Zenon
<1>4. CASE Sends
  <2>1. /\ pc = "acting" /\ left # <<>> /\ UNCHANGED <<pc, index, steps>>
        /\ sent' = Append(sent, Head(left)) /\ left' = Tail(left)
    BY <1>4, Zenon DEF Sends
  <2>2. QED  BY <1>a, <2>1, CommandSent, Zenon
<1>5. CASE StepDone
  <2>1. pc = "acting" /\ left = <<>> /\ pc' = "reporting" /\ UNCHANGED <<steps, index, left, sent>>
    BY <1>5, Zenon DEF StepDone
  <2>2. sent \o <<>> = sent
    BY DEF SentInv, TypeOK
  <2>3. QED  BY <1>0, <1>a, <2>1, <2>2, Zenon
<1>6. CASE StepFails \/ Ends
  <2>1. pc' \in {"failing", "done"} /\ UNCHANGED <<steps, index, sent>>
    BY <1>6, Zenon DEF StepFails, Ends
  <2>2. QED  BY <1>0, <1>a, <2>1, Zenon
<1>7. CASE Cancel
  <2>1. pc' \in {"closing", "done"} /\ UNCHANGED <<steps, index>>
    BY <1>7, Zenon DEF Cancel
  <2>2. sent' = sent \/ (left # <<>> /\ sent' = Append(sent, Head(left)))
    BY <1>7, Zenon DEF Cancel
  <2>3. left # <<>> => pc = "acting"
    BY Zenon DEF SentInv, Control
  <2>4. InStep(sent', index)
    BY <1>0, <2>2, <2>3, CommandSent, Zenon
  <2>5. QED  BY <1>a, <2>1, <2>4, Zenon
<1>8. CASE MsmRestarts
  <2>1. pc' = (IF pc = "none" THEN "none" ELSE "done") /\ UNCHANGED <<steps, index, sent>>
    BY <1>8, Zenon DEF MsmRestarts
  <2>2. QED  BY <1>0, <1>a, <2>1, Zenon
<1>9. ASSUME NEW confirm \in BOOLEAN, Start(confirm) PROVE SentInOrder'
  <2>1. pc = "none" /\ pc' = "ready" /\ steps' = event /\ UNCHANGED <<index, left, sent>>
    BY <1>9, Zenon DEF Start
  <2>2. index = 0 /\ sent = <<>>
    BY <2>1, Zenon DEF SentInv, Control
  <2>3. event \in Seq(Words)
    BY SequencesType DEF SentInv, TypeOK
  <2>4. AllCommands(SubSeq(event, 1, 0)) = <<>> /\ AllCommands(SubSeq(event, 1, 0 - 1)) = <<>>
    BY <2>3, CommandsOfSteps, Zenon
  <2>5. SubSeq(<<>>, 1, 0) = <<>> /\ Len(<<>>) = 0 /\ 0 \in 0 .. 0
    OBVIOUS
  <2>6. /\ CommandsUpTo(index)' = <<>> /\ UpTo(index)' = 0 /\ UpTo(index - 1)' = 0
        /\ index' = 0 /\ sent' = <<>>
    BY <2>1, <2>2, <2>4, <2>5, Zenon DEF CommandsUpTo, UpTo
  <2>7. QED  BY <2>1, <2>5, <2>6, Zenon DEF SentInOrder
<1>c. QED
  BY <1>1, <1>2, <1>3, <1>4, <1>5, <1>6, <1>7, <1>8, <1>9, StepIsOf, RunUnchanged, Zenon DEF StepOfRun

\* What a run starts with was allowed, all of it.
LEMMA AllowedKept ==
    ASSUME SentInv, [Next]_vars
    PROVE  AllowedAtStart'
<1>1. ASSUME NEW confirm \in BOOLEAN, Start(confirm) PROVE AllowedAtStart'
  <2> DEFINE all == AllCommands(event)
  <2>1. steps' = event /\ allowed' = Allowed(event, confirm) /\ Authorizes(event, confirm)
    BY <1>1, Zenon DEF Start
  <2>2. \A i \in DOMAIN all : Harmless(all[i]) \/ (rights = "all" /\ confirm)
    BY <2>1, Zenon DEF Authorizes, Safe
  <2>3. \A i \in DOMAIN all : i \in DOMAIN Allowed(event, confirm) /\ Allowed(event, confirm)[i] = all[i]
    <3> HIDE DEF all
    <3>1. Allowed(event, confirm) =
            [i \in {j \in DOMAIN all : Harmless(all[j]) \/ (rights = "all" /\ confirm)} |-> all[i]]
      BY Zenon DEF Allowed, all
    <3>2. {j \in DOMAIN all : Harmless(all[j]) \/ (rights = "all" /\ confirm)} = DOMAIN all
      BY <2>2, Zenon
    <3>3. QED  BY <3>1, <3>2
  <2>4. QED  BY <2>1, <2>3, Zenon DEF AllowedAtStart
<1>2. CASE UNCHANGED <<task, steps, allowed>>
  BY <1>2, Zenon DEF task, SentInv, AllowedAtStart
<1>3. CASE Begin \/ NextStep \/ Completes \/ Sends \/ StepDone \/ StepFails \/ Ends \/ Cancel \/ MsmRestarts
  <2>1. UNCHANGED <<steps, allowed>> /\ (pc = "none" => pc' = "none")
    BY <1>3, Zenon DEF Begin, NextStep, Completes, Sends, StepDone, StepFails, Ends, Cancel, MsmRestarts, Waiting
  <2>2. QED  BY <2>1, Zenon DEF SentInv, AllowedAtStart
<1>4. QED  BY <1>1, <1>2, <1>3, StepIsOf, RunUnchanged, Zenon DEF StepOfRun

\* At first nothing was sent, nor is to be.
LEMMA InitSent ==
    ASSUME Init
    PROVE  SentInv
<1>1. /\ row = NoRow /\ pc = "none" /\ steps = <<>> /\ index = 0 /\ left = <<>> /\ writes = <<>>
      /\ sent = <<>>
  BY Zenon DEF Init
<1>2. Control
  BY <1>1 DEF Control
<1>3. AllowedAtStart
  BY <1>1, Zenon DEF AllowedAtStart
<1>4. CommandsUpTo(0) = <<>> /\ CommandsUpTo(0 - 1) = <<>>
  BY <1>2, InitType, CommandsOfRun, Zenon
<1>5. UpTo(0) = 0 /\ UpTo(0 - 1) = 0
  <2>1. Len(<<>>) = 0
    OBVIOUS
  <2>2. QED  BY <1>4, <2>1, Zenon DEF UpTo, CommandsUpTo
<1>6. SentInOrder
  <2>1. SubSeq(<<>>, 1, 0) = <<>> /\ Len(<<>>) = 0 /\ 0 \in 0 .. 0
    OBVIOUS
  <2>2. QED  BY <1>1, <1>4, <1>5, <2>1, Zenon DEF SentInOrder
<1>7. QED  BY <1>2, <1>3, <1>6, InitType DEF SentInv

\* Every step keeps what is known of the commands sent.
LEMMA SentInvKept ==
    ASSUME SentInv, [Next]_vars
    PROVE  SentInv'
<1>1. TypeOK' /\ Control'
  BY TypeKept, ControlKept DEF SentInv
<1>2. QED  BY <1>1, SentKept, AllowedKept, Zenon DEF SentInv

\* What was sent was allowed: it begins the commands of the steps.
LEMMA SentImplies ==
    ASSUME SentInv
    PROVE  OnlyWhatWasAllowed
<1> SUFFICES ASSUME NEW i \in DOMAIN sent
             PROVE  i \in DOMAIN allowed /\ sent[i] = allowed[i]
  BY Zenon DEF OnlyWhatWasAllowed
<1> DEFINE first == CommandsUpTo(index)
<1>1. sent \in Seq(Words) /\ i \in 1 .. Len(sent) /\ Len(sent) \in Nat
  BY DEF SentInv, TypeOK
<1>2. pc # "none"
  <2>1. sent # <<>>
    BY <1>1
  <2>2. QED  BY <2>1, Zenon DEF SentInv, Control
<1>3. index \in 0 .. Len(steps) /\ steps \in Seq(Words)
  BY CommandsOfRun, SequencesType DEF SentInv, TypeOK
<1>4. first \in Seq(Words) /\ Len(first) \in Nat
  <2>1. first \in Seq(Words)
    BY <1>3, CommandsOfRun, Zenon DEF SentInv
  <2> HIDE DEF first
  <2>2. QED  BY <2>1
<1>5. Len(sent) <= Len(first) /\ sent = SubSeq(first, 1, Len(sent))
  <2>1. UpTo(index) = Len(first) /\ UpTo(index - 1) = Len(CommandsUpTo(index - 1))
    BY Zenon DEF UpTo, CommandsUpTo
  <2>2. Len(sent) \in UpTo(index - 1) .. UpTo(index) /\ sent = SubSeq(first, 1, Len(sent))
    BY Zenon DEF SentInv, SentInOrder
  <2> HIDE DEF first
  <2>3. QED  BY <1>1, <1>4, <2>1, <2>2
<1>6. Len(first) <= Len(AllCommands(steps)) /\ \A k \in 1 .. Len(first) : first[k] = AllCommands(steps)[k]
  BY <1>3, FirstStepsFirst, Zenon DEF CommandsUpTo
<1>7. AllCommands(steps) \in Seq(Words)
  <2>1. AllCommands(steps) = CommandsUpTo(Len(steps)) /\ Len(steps) \in Nat
    BY CommandsOfRun DEF SentInv
  <2>2. Len(steps) \in 0 .. Len(steps)
    BY <2>1
  <2>3. QED  BY <2>1, <2>2, CommandsOfRun, Zenon DEF SentInv
<1> HIDE DEF first
<1>8. i \in DOMAIN AllCommands(steps) /\ sent[i] = AllCommands(steps)[i]
  <2>1. i \in 1 .. Len(first)
    BY <1>1, <1>4, <1>5
  <2>2. sent[i] = first[i]
    BY <1>1, <1>4, <1>5
  <2>3. i \in DOMAIN AllCommands(steps)
    BY <1>4, <1>6, <1>7, <2>1
  <2>4. QED  BY <1>6, <2>1, <2>2, <2>3, Zenon
<1>9. QED  BY <1>2, <1>8, Zenon DEF SentInv, AllowedAtStart

\* What a run sends was allowed when it was started, whatever the sequences are, however
\* often the event is edited, the rights change, and the run is cancelled or interrupted.
THEOREM OnlyWhatWasAllowedCorrect == Spec => []OnlyWhatWasAllowed
<1>1. Init => SentInv
  BY InitSent
<1>2. SentInv /\ [Next]_vars => SentInv'
  BY SentInvKept
<1>3. SentInv => OnlyWhatWasAllowed
  BY SentImplies
<1>4. QED  BY <1>1, <1>2, <1>3, PTL DEF Spec

-----------------------------------------------------------------------------
(***************************************************************************)
(* Titles keep their durations.                                            *)
(***************************************************************************)
TitlesInv ==
    /\ TypeOK /\ Control /\ RunsCommands /\ HandsCommands /\ DurationsMeet
    /\ TitlesKeepTheirTimes

\* The tails of the commands of a title, and what is left of them once one is sent.
LEMMA TailsOfTitle ==
    /\ \A t \in TitleTails : /\ t # <<>> /\ t # Idle
                             /\ Tail(t) \in TitleTails \cup {<<>>}
                             /\ InTitle(Tail(t)) => Head(t) \in {"times", "subtitle"}
                             /\ (Head(t) # "times" <=> InTitle(t))
    /\ TitleCommands \in TitleTails /\ ~InTitle(TitleCommands) /\ ~InTitle(<<>>) /\ ~InTitle(Idle)
<1>1. TitleTails = {<<"times", "subtitle", "title">>, <<"subtitle", "title">>, <<"title">>}
  BY DEF TitleTails, TitleCommands
<1>2. Last(TitleCommands) = "title" /\ Len(TitleCommands) = 3
  BY DEF TitleCommands, Last
<1>3. \A s : InTitle(s) <=> s # <<>> /\ s[Len(s)] = "title" /\ Len(s) < 3
  BY <1>2 DEF InTitle, Last
<1>4. /\ Tail(<<"times", "subtitle", "title">>) = <<"subtitle", "title">>
      /\ Tail(<<"subtitle", "title">>) = <<"title">> /\ Tail(<<"title">>) = <<>>
  OBVIOUS
<1>5. ~InTitle(<<"times", "subtitle", "title">>) /\ InTitle(<<"subtitle", "title">>)
      /\ InTitle(<<"title">>) /\ ~InTitle(<<>>) /\ ~InTitle(<<"idle">>)
  BY <1>3
<1>6. QED  BY <1>1, <1>4, <1>5 DEF Idle, TitleCommands

\* A single command is no part of a title.
LEMMA SingleNotTitle ==
    ASSUME NEW c, c \notin {"title", "times", "subtitle", "idle"}
    PROVE  /\ ~InTitle(<<c>>) /\ Head(<<c>>) = c /\ Tail(<<c>>) = <<>> /\ <<c>> # Idle
           /\ <<c>> \notin TitleTails
<1>1. Last(TitleCommands) = "title" /\ Last(<<c>>) = c
  BY DEF TitleCommands, Last
<1>2. TitleTails = {<<"times", "subtitle", "title">>, <<"subtitle", "title">>, <<"title">>}
  BY DEF TitleTails, TitleCommands
<1>3. QED  BY <1>1, <1>2 DEF InTitle, Idle

\* What is left to the run is the end of a title, or the one command of the step.
LEMMA LeftIs ==
    ASSUME TitlesInv, left # <<>>
    PROVE  /\ pc = "acting"
           /\ \/ steps[index] = "title" /\ left \in TitleTails
              \/ /\ steps[index] \notin {"title", "times", "subtitle", "idle"}
                 /\ left = <<steps[index]>>
<1>1. pc = "acting" /\ index \in 1 .. Len(steps)
  BY DEF TitlesInv, Control, TypeOK
<1>2. steps \in Seq(Steps)
  BY <1>1, TitlesAssumption DEF TitlesInv, Control
<1>3. steps[index] \in Steps
  BY <1>1, <1>2
<1>4. steps[index] \notin {"times", "subtitle", "idle"}
  BY <1>3, TitlesAssumption, Zenon
<1>5. QED  BY <1>1, <1>4 DEF TitlesInv, RunsCommands

\* So is what is left to the request by hand.
LEMMA HandIs ==
    ASSUME TitlesInv, hand \notin {Idle, <<>>}
    PROVE  \/ hand \in TitleTails
           \/ \E c : c \notin {"title", "times", "subtitle", "idle"} /\ hand = <<c>>
<1>1. \A c \in ByHand \ {"title"} : c \notin {"title", "times", "subtitle", "idle"}
  BY TitlesAssumption
<1>2. hand \in {Idle, <<>>} \cup TitleTails \cup {<<c>> : c \in ByHand \ {"title"}}
  BY Zenon DEF TitlesInv, HandsCommands
<1>3. QED  BY <1>1, <1>2

\* The end of a title belongs to one of the two.
LEMMA TitlesApart ==
    ASSUME TitlesInv, ~overlap
    PROVE  /\ InTitle(left) => times = "run" /\ hand \notin TitleTails
           /\ InTitle(hand) => times = "hand" /\ hand \in TitleTails
<1>1. InTitle(left) => left # <<>>
  BY Zenon DEF InTitle
<1>2. InTitle(left) => Acting("title")
  BY <1>1, LeftIs, SingleNotTitle, Zenon DEF Acting
<1>3. InTitle(hand) => hand \in TitleTails
  <2>1. InTitle(hand) => hand \notin {Idle, <<>>}
    BY TailsOfTitle
  <2>2. QED  BY <2>1, HandIs, SingleNotTitle, Zenon
<1>4. QED  BY <1>2, <1>3, Zenon DEF TitlesInv, DurationsMeet

\* A command the run sends.
LEMMA RunShows ==
    ASSUME TitlesInv, left # <<>>, Shows(Head(left), "run"), overlap' = overlap
    PROVE  /\ mixed' => overlap'
           /\ \/ overlap
              \/ /\ InTitle(Tail(left)) => times' = "run"
                 /\ InTitle(hand) => times' = "hand"
<1>0. mixed => overlap
  BY Zenon DEF TitlesInv, TitlesKeepTheirTimes
<1>1. CASE steps[index] = "title" /\ left \in TitleTails
  <2> SUFFICES ASSUME ~overlap
               PROVE  /\ ~mixed'
                      /\ InTitle(Tail(left)) => times' = "run"
                      /\ ~InTitle(hand)
    BY Zenon
  <2>1. pc = "acting" /\ hand \notin TitleTails
    BY <1>1, LeftIs, Zenon DEF TitlesInv, DurationsMeet, Acting
  <2>2. ~InTitle(hand)
    BY <2>1, TitlesApart, Zenon
  <2>3. Head(left) # "times" => times = "run"
    BY <1>1, TailsOfTitle, TitlesApart, Zenon
  <2>4. times' = IF Head(left) = "times" THEN "run" ELSE times
    BY Zenon DEF Shows
  <2>5. ~mixed'
    BY <1>0, <2>3, Zenon DEF Shows
  <2>6. QED  BY <2>2, <2>3, <2>4, <2>5, Zenon
<1>2. CASE /\ steps[index] \notin {"title", "times", "subtitle", "idle"}
           /\ left = <<steps[index]>>
  <2>1. Head(left) = steps[index] /\ Tail(left) = <<>>
    BY <1>2, SingleNotTitle, Zenon
  <2>2. times' = times /\ mixed' = mixed
    BY <1>2, <2>1, Zenon DEF Shows, TitlesInv, TypeOK
  <2>3. ~InTitle(Tail(left))
    BY <2>1, TailsOfTitle, Zenon
  <2>4. QED  BY <1>0, <2>2, <2>3, TitlesApart, Zenon
<1>3. QED  BY <1>1, <1>2, LeftIs, Zenon

\* A command sent by hand.
LEMMA HandShows ==
    ASSUME TitlesInv, hand \notin {Idle, <<>>}, Shows(Head(hand), "hand"), overlap' = overlap
    PROVE  /\ mixed' => overlap'
           /\ \/ overlap
              \/ /\ InTitle(Tail(hand)) => times' = "hand"
                 /\ InTitle(left) => times' = "run"
<1>0. mixed => overlap
  BY Zenon DEF TitlesInv, TitlesKeepTheirTimes
<1>1. CASE hand \in TitleTails
  <2> SUFFICES ASSUME ~overlap
               PROVE  /\ ~mixed'
                      /\ InTitle(Tail(hand)) => times' = "hand"
                      /\ ~InTitle(left)
    BY Zenon
  <2>1. ~InTitle(left)
    BY <1>1, TitlesApart, Zenon
  <2>2. Head(hand) # "times" => times = "hand"
    BY <1>1, TailsOfTitle, TitlesApart, Zenon
  <2>3. times' = IF Head(hand) = "times" THEN "hand" ELSE times
    BY Zenon DEF Shows
  <2>4. ~mixed'
    BY <1>0, <2>2, Zenon DEF Shows
  <2>5. QED  BY <2>1, <2>2, <2>3, <2>4, Zenon
<1>2. ASSUME NEW c, c \notin {"title", "times", "subtitle", "idle"}, hand = <<c>>
      PROVE  /\ mixed' => overlap'
             /\ \/ overlap
                \/ /\ InTitle(Tail(hand)) => times' = "hand"
                   /\ InTitle(left) => times' = "run"
  <2>1. Head(hand) = c /\ Tail(hand) = <<>>
    BY <1>2, SingleNotTitle, Zenon
  <2>2. times' = times /\ mixed' = mixed
    BY <1>2, <2>1, Zenon DEF Shows, TitlesInv, TypeOK
  <2>3. ~InTitle(Tail(hand))
    BY <2>1, TailsOfTitle, Zenon
  <2>4. QED  BY <1>0, <2>2, <2>3, TitlesApart, Zenon
<1>3. QED  BY <1>1, <1>2, HandIs, Zenon

\* What is left to the run is always the end of the commands of its step.
LEMMA RunsCommandsKept ==
    ASSUME TitlesInv, [Next]_vars
    PROVE  RunsCommands'
<1>1. CASE UNCHANGED <<task, steps, allowed>>
  BY <1>1, Zenon DEF TitlesInv, RunsCommands, task
<1>2. CASE Begin \/ Completes \/ StepDone \/ Ends
  <2>1. UNCHANGED <<left, steps, index>>
    BY <1>2, Zenon DEF Begin, Completes, StepDone, Ends, task
  <2>2. QED  BY <2>1, Zenon DEF TitlesInv, RunsCommands
<1>3. CASE StepFails \/ Cancel \/ MsmRestarts
  <2>1. left' = <<>>
    BY <1>3, Zenon DEF StepFails, Cancel, MsmRestarts
  <2>2. QED  BY <2>1, Zenon DEF RunsCommands
<1>4. CASE NextStep
  <2>1. index' = index + 1 /\ steps' = steps /\ left' = Commands(steps[index + 1])
    BY <1>4, Zenon DEF NextStep, StepAt
  <2>2. steps[index + 1] = "title" => left' \in TitleTails
    BY <2>1, TailsOfTitle, Zenon DEF Commands
  <2>3. steps[index + 1] # "title" => left' \in {<<>>, <<steps[index + 1]>>}
    BY <2>1, Zenon DEF Commands, Pause, Single
  <2>4. QED  BY <2>1, <2>2, <2>3, Zenon DEF RunsCommands
<1>5. CASE Sends
  <2>1. left # <<>> /\ left' = Tail(left) /\ UNCHANGED <<steps, index>>
    BY <1>5, Zenon DEF Sends
  <2>2. CASE steps[index] = "title" /\ left \in TitleTails
    BY <2>1, <2>2, TailsOfTitle, Zenon DEF RunsCommands
  <2>3. CASE /\ steps[index] \notin {"title", "times", "subtitle", "idle"}
             /\ left = <<steps[index]>>
    BY <2>1, <2>3, SingleNotTitle, Zenon DEF RunsCommands
  <2>4. QED  BY <2>1, <2>2, <2>3, LeftIs, Zenon
<1>6. ASSUME NEW confirm \in BOOLEAN, Start(confirm) PROVE RunsCommands'
  <2>1. pc = "none" /\ left' = left
    BY <1>6, Zenon DEF Start
  <2>2. left = <<>>
    BY <2>1, Zenon DEF TitlesInv, Control
  <2>3. QED  BY <2>1, <2>2, Zenon DEF RunsCommands
<1>7. QED
  BY <1>1, <1>2, <1>3, <1>4, <1>5, <1>6, StepIsOf, RunUnchanged, Zenon DEF StepOfRun

\* Of the steps, those that change the request by hand.
LEMMA HandUnchanged ==
    ASSUME [Next]_vars
    PROVE  hand' = hand \/ RequestByHand \/ HandSends \/ HandEnds \/ MsmRestarts
<1>1. ASSUME NEW confirm \in BOOLEAN, Start(confirm) PROVE hand' = hand
  BY <1>1, Zenon DEF Start
<1>2. CASE Begin \/ NextStep \/ Completes \/ Sends \/ StepDone \/ StepFails \/ Ends \/ Cancel
  BY <1>2, Zenon DEF Begin, NextStep, Completes, Sends, StepDone, StepFails, Ends, Cancel
<1>3. CASE EditEvent \/ ChangeRights \/ ServerStops \/ ServerStarts \/ ServerDeleted
  BY <1>3, Zenon DEF EditEvent, ChangeRights, ServerStops, ServerStarts, ServerDeleted
<1>4. CASE StepOfWrite
  BY <1>4, Zenon DEF StepOfWrite, Read, Commit, NothingToWrite, WriteFails
<1>5. CASE UNCHANGED vars
  BY <1>5, Zenon DEF vars
<1>6. QED  BY <1>1, <1>2, <1>3, <1>4, <1>5, StepIsOf, Zenon DEF StepOfRun, StepBeside

\* What is left to the request by hand is always the end of its commands.
LEMMA HandsCommandsKept ==
    ASSUME TitlesInv, [Next]_vars
    PROVE  HandsCommands'
<1> DEFINE Shapes == {Idle, <<>>} \cup TitleTails \cup {<<c>> : c \in ByHand \ {"title"}}
<1>0. hand \in Shapes
  BY Zenon DEF TitlesInv, HandsCommands
<1>1. CASE hand' = hand
  BY <1>0, <1>1, Zenon DEF HandsCommands
<1>2. CASE RequestByHand
  <2>1. hand' \in {<<>>, TitleCommands} \cup {<<c>> : c \in ByHand \ {"title"}}
    BY <1>2, Zenon DEF RequestByHand, HandBegins
  <2>2. TitleCommands \in TitleTails
    BY TailsOfTitle
  <2>3. QED  BY <2>1, <2>2, Zenon DEF HandsCommands
<1>3. CASE HandSends
  <2>1. hand \notin {Idle, <<>>} /\ hand' = Tail(hand)
    BY <1>3, Zenon DEF HandSends
  <2>2. Tail(hand) \in TitleTails \cup {<<>>}
    BY <2>1, HandIs, TailsOfTitle, SingleNotTitle, Zenon
  <2>3. QED  BY <2>1, <2>2, Zenon DEF HandsCommands
<1>4. CASE HandEnds \/ MsmRestarts
  <2>1. hand' = Idle
    BY <1>4, Zenon DEF HandEnds, MsmRestarts
  <2>2. QED  BY <2>1, Zenon DEF HandsCommands
<1>5. QED  BY <1>1, <1>2, <1>3, <1>4, HandUnchanged, Zenon

\* The durations are those of the title being sent, if there is only one.
LEMMA DurationsKept ==
    ASSUME TitlesInv, [Next]_vars
    PROVE  DurationsMeet' /\ TitlesKeepTheirTimes'
<1> DEFINE Meet == overlap \/ /\ InTitle(left) => times = "run"
                              /\ InTitle(hand) => times = "hand"
                              /\ Acting("title") => hand \notin TitleTails
<1>0. Meet /\ (mixed => overlap)
  BY Zenon DEF TitlesInv, DurationsMeet, TitlesKeepTheirTimes
<1>a. Meet' /\ (mixed' => overlap') => DurationsMeet' /\ TitlesKeepTheirTimes'
  BY Zenon DEF DurationsMeet, TitlesKeepTheirTimes
<1>1. CASE EditEvent \/ ChangeRights \/ ServerStarts \/ ServerDeleted \/ StepOfWrite \/ UNCHANGED vars
  <2>1. UNCHANGED <<times, mixed, overlap, pc, steps, index, left, hand>>
    BY <1>1, Zenon DEF EditEvent, ChangeRights, ServerStarts, ServerDeleted, StepOfWrite, Read, Commit,
                  NothingToWrite, WriteFails, vars, screen, task
  <2>2. QED  BY <1>0, <1>a, <2>1, Zenon DEF InTitle, Acting
<1>2. CASE ServerStops
  <2>1. /\ UNCHANGED <<mixed, pc, steps, index, left, hand>>
        /\ overlap' = (overlap \/ InTitle(left) \/ InTitle(hand))
    BY <1>2, Zenon DEF ServerStops, task
  <2>2. QED  BY <1>0, <1>a, <2>1, Zenon DEF InTitle, Acting
<1>3. CASE RequestByHand
  <2>1. PICK commands \in {<<>>, TitleCommands} \cup {<<c>> : c \in ByHand \ {"title"}} :
            HandBegins(commands)
    BY <1>3, Zenon DEF RequestByHand
  <2>2. /\ UNCHANGED <<times, mixed, pc, steps, index, left>> /\ hand' = commands
        /\ overlap' = (overlap \/ (commands = TitleCommands /\ pc = "acting" /\ steps[index] = "title"))
    BY <2>1, Zenon DEF HandBegins, task
  <2>3. \A c \in ByHand \ {"title"} : ~InTitle(<<c>>) /\ <<c>> \notin TitleTails
    <3>1. \A c \in ByHand \ {"title"} : c \notin {"title", "times", "subtitle", "idle"}
      BY TitlesAssumption
    <3>2. QED  BY <3>1, SingleNotTitle, Zenon
  <2>4. ~InTitle(hand') /\ (hand' \in TitleTails => hand' = TitleCommands)
    <3>1. <<>> \notin TitleTails
      BY TailsOfTitle, Zenon
    <3>2. QED  BY <2>2, <2>3, <3>1, TailsOfTitle, Zenon
  <2>5. QED  BY <1>0, <1>a, <2>2, <2>4, Zenon DEF InTitle, Acting
<1>4. CASE HandSends
  <2>1. /\ hand \notin {Idle, <<>>} /\ hand' = Tail(hand) /\ Shows(Head(hand), "hand")
        /\ UNCHANGED <<overlap, pc, steps, index, left>>
    BY <1>4, Zenon DEF HandSends, task
  <2>2. hand' \in TitleTails => hand \in TitleTails
    <3>1. <<>> \notin TitleTails
      BY TailsOfTitle, Zenon
    <3>2. QED  BY <2>1, <3>1, HandIs, SingleNotTitle, Zenon
  <2>3. QED  BY <1>0, <1>a, <2>1, <2>2, HandShows, Zenon DEF InTitle, Acting
<1>5. CASE HandEnds
  <2>1. UNCHANGED <<times, mixed, overlap, pc, steps, index, left>> /\ hand' = Idle
    BY <1>5, Zenon DEF HandEnds, screen, task
  <2>2. ~InTitle(hand') /\ hand' \notin TitleTails
    BY <2>1, TailsOfTitle, Zenon
  <2>3. QED  BY <1>0, <1>a, <2>1, <2>2, Zenon DEF InTitle, Acting
<1>6. CASE Begin \/ Completes \/ StepDone \/ Ends
  <2>1. UNCHANGED <<times, mixed, overlap, left, hand, steps, index>> /\ pc' # "acting"
    BY <1>6, Zenon DEF Begin, Completes, StepDone, Ends, screen, task
  <2>2. QED  BY <1>0, <1>a, <2>1, Zenon DEF InTitle, Acting
<1>7. CASE StepFails
  <2>1. UNCHANGED <<times, mixed, overlap, hand, steps, index>> /\ pc' # "acting" /\ left' = <<>>
    BY <1>7, Zenon DEF StepFails, screen
  <2>2. ~InTitle(left')
    BY <2>1, TailsOfTitle, Zenon
  <2>3. QED  BY <1>0, <1>a, <2>1, <2>2, Zenon DEF InTitle, Acting
<1>8. CASE NextStep
  <2>1. /\ UNCHANGED <<times, mixed, hand, steps>> /\ index' = index + 1
        /\ left' = Commands(steps[index + 1])
        /\ overlap' = (overlap \/ (steps[index + 1] = "title" /\ hand # Idle))
    BY <1>8, Zenon DEF NextStep, StepAt
  <2>2. ~InTitle(left')
    <3>1. CASE steps[index + 1] = "title"
      BY <2>1, <3>1, TailsOfTitle, Zenon DEF Commands
    <3>2. CASE steps[index + 1] # "title"
      <4>1. left' \in {<<>>, <<steps[index + 1]>>}
        BY <2>1, <3>2, Zenon DEF Commands, Pause, Single
      <4>2. steps[index + 1] \notin {"title", "times", "subtitle", "idle"}
        <5>1. steps \in Seq(Steps) /\ index + 1 \in 1 .. Len(steps)
          <6>1. index < Len(steps) /\ pc = "reporting"
            BY <1>8, Zenon DEF NextStep
          <6>2. steps \in Seq(Steps)
            BY <6>1, TitlesAssumption DEF TitlesInv, Control
          <6>3. QED  BY <6>1, <6>2 DEF TitlesInv, TypeOK
        <5>2. steps[index + 1] \in Steps
          BY <5>1
        <5>3. QED  BY <3>2, <5>2, TitlesAssumption, Zenon
      <4>3. QED  BY <4>1, <4>2, TailsOfTitle, SingleNotTitle, Zenon
    <3>3. QED  BY <3>1, <3>2
  <2>3. Idle \notin TitleTails
    BY TailsOfTitle, Zenon
  <2>4. QED  BY <1>0, <1>a, <2>1, <2>2, <2>3, Zenon DEF InTitle, Acting
<1>9. CASE Sends
  <2>1. /\ left # <<>> /\ left' = Tail(left) /\ Shows(Head(left), "run")
        /\ UNCHANGED <<overlap, pc, steps, index, hand>>
    BY <1>9, Zenon DEF Sends
  <2>2. QED  BY <1>0, <1>a, <2>1, RunShows, Zenon DEF InTitle, Acting
<1>b. CASE Cancel
  <2>1. left' = <<>> /\ pc' # "acting" /\ UNCHANGED <<hand, steps, index>>
    BY <1>b, Zenon DEF Cancel
  <2>2. ~InTitle(left')
    BY <2>1, TailsOfTitle, Zenon
  <2>3. CASE UNCHANGED screen
    BY <1>0, <1>a, <2>1, <2>2, <2>3, Zenon DEF InTitle, Acting, screen
  <2>4. CASE left # <<>> /\ Shows(Head(left), "run") /\ UNCHANGED overlap
    BY <1>0, <1>a, <2>1, <2>2, <2>4, RunShows, Zenon DEF InTitle, Acting
  <2>5. QED  BY <1>b, <2>3, <2>4, Zenon DEF Cancel
<1>c. CASE MsmRestarts
  <2>1. /\ left' = <<>> /\ hand' = Idle /\ pc' # "acting" /\ mixed' = mixed
        /\ overlap' = (overlap \/ InTitle(left) \/ InTitle(hand))
    BY <1>c, Zenon DEF MsmRestarts
  <2>2. ~InTitle(left') /\ ~InTitle(hand')
    BY <2>1, TailsOfTitle, Zenon
  <2>3. QED  BY <1>0, <1>a, <2>1, <2>2, Zenon DEF InTitle, Acting
<1>d. ASSUME NEW confirm \in BOOLEAN, Start(confirm) PROVE Meet' /\ (mixed' => overlap')
  <2>1. UNCHANGED <<times, mixed, overlap, left, hand>> /\ pc' # "acting"
    BY <1>d, Zenon DEF Start, screen
  <2>2. QED  BY <1>0, <2>1, Zenon DEF InTitle, Acting
<1>e. QED
  BY <1>1, <1>2, <1>3, <1>4, <1>5, <1>6, <1>7, <1>8, <1>9, <1>b, <1>c, <1>d, <1>a, StepIsOf, Zenon
      DEF StepOfRun, StepBeside

\* A title is shown with the durations set for it, whatever is sent beside the run, unless
\* two titles are being sent at once, or the server or MSM stops within one.
THEOREM TitlesKeepTheirTimesCorrect == Spec => []TitlesKeepTheirTimes
<1>1. Init => TitlesInv
  <2> SUFFICES ASSUME Init PROVE TitlesInv
    OBVIOUS
  <2>1. TypeOK /\ Control
    BY InitSent, Zenon DEF SentInv
  <2>2. left = <<>> /\ hand = Idle /\ mixed = FALSE /\ pc = "none"
    BY Zenon DEF Init
  <2>3. RunsCommands /\ HandsCommands /\ TitlesKeepTheirTimes
    BY <2>2, Zenon DEF RunsCommands, HandsCommands, TitlesKeepTheirTimes
  <2>4. DurationsMeet
    BY <2>2, TailsOfTitle, Zenon DEF DurationsMeet, Acting
  <2>5. QED  BY <2>1, <2>3, <2>4, Zenon DEF TitlesInv
<1>2. TitlesInv /\ [Next]_vars => TitlesInv'
  <2> SUFFICES ASSUME TitlesInv, [Next]_vars PROVE TitlesInv'
    OBVIOUS
  <2>1. TypeOK' /\ Control'
    BY TypeKept, ControlKept, Zenon DEF TitlesInv
  <2>2. RunsCommands' /\ HandsCommands' /\ DurationsMeet' /\ TitlesKeepTheirTimes'
    BY RunsCommandsKept, HandsCommandsKept, DurationsKept, Zenon
  <2>3. QED  BY <2>1, <2>2, Zenon DEF TitlesInv
<1>3. TitlesInv => TitlesKeepTheirTimes
  BY Zenon DEF TitlesInv
<1>4. QED  BY <1>1, <1>2, <1>3, PTL DEF Spec

-----------------------------------------------------------------------------
(***************************************************************************)
(* The history.                                                            *)
(***************************************************************************)
HistoryInv == SentInv /\ ReadIsRow /\ EndsOnce /\ SentAll /\ LastStep

\* A report is published after those being written.
LEMMA Published ==
    ASSUME TypeOK, NEW report, Issue(report)
    PROVE  /\ Len(writes) \in Nat /\ Len(writes') = Len(writes) + 1
           /\ DOMAIN writes' = DOMAIN writes \cup {Len(writes) + 1}
           /\ \A i \in DOMAIN writes : writes'[i] = writes[i] /\ i < Len(writes) + 1
           /\ writes'[Len(writes) + 1].report = report
           /\ ~writes'[Len(writes) + 1].read.exists
           /\ writes' # <<>>
<1> DEFINE write == [report |-> report, read |-> NoRow]
<1>1. write.report = report /\ ~write.read.exists
  BY DEF NoRow
<1> HIDE DEF write
<1>2. writes \in Seq([report : Reports, read : Rows \cup {NoRow}]) /\ writes' = Append(writes, write)
  BY Zenon DEF Issue, TypeOK, write
<1>3. QED
  <2> DEFINE S == [report : Reports, read : Rows \cup {NoRow}]
  <2>1. writes \in Seq(S)
    BY <1>2
  <2> HIDE DEF S
  <2>2. QED  BY <1>1, <1>2, <2>1

\* A sequence without its first element.
LEMMA TailIs ==
    ASSUME NEW S, NEW s \in Seq(S), s # <<>>
    PROVE  /\ Len(s) \in Nat \ {0} /\ Len(Tail(s)) = Len(s) - 1
           /\ DOMAIN s = 1 .. Len(s) /\ DOMAIN Tail(s) = 1 .. Len(s) - 1
           /\ \A j \in 1 .. Len(s) - 1 : j + 1 \in 1 .. Len(s) /\ Tail(s)[j] = s[j + 1]
           /\ Tail(s) = <<>> <=> Len(s) = 1
<1>1. Len(s) \in Nat \ {0} /\ Len(Tail(s)) = Len(s) - 1 /\ Tail(s) \in Seq(S)
  OBVIOUS
<1>2. Tail(s) = <<>> <=> Len(Tail(s)) = 0
  <2>1. \A t \in Seq(S) : t = <<>> <=> Len(t) = 0
    OBVIOUS
  <2>2. QED  BY <1>1, <2>1, Zenon
<1>3. \A j \in 1 .. Len(s) - 1 : j + 1 \in 1 .. Len(s) /\ Tail(s)[j] = s[j + 1]
  OBVIOUS
<1>4. QED  BY <1>1, <1>2, <1>3

\* The first of the writes is done with, and the others follow.
LEMMA Shifted ==
    ASSUME TypeOK, NEW i \in DOMAIN writes, HoldsLock(i), writes' = RemoveAt(writes, i)
    PROVE  /\ i = 1 /\ Len(writes) \in Nat \ {0} /\ Len(writes') = Len(writes) - 1
           /\ DOMAIN writes = 1 .. Len(writes) /\ DOMAIN writes' = 1 .. Len(writes) - 1
           /\ \A j \in DOMAIN writes' : j + 1 \in DOMAIN writes /\ writes'[j] = writes[j + 1]
           /\ writes' = <<>> <=> Len(writes) = 1
<1> DEFINE S == [report : Reports, read : Rows \cup {NoRow}]
<1>1. writes \in Seq(S)
  BY DEF TypeOK
<1>2. i = 1 /\ writes' = Tail(writes) /\ writes # <<>>
  BY FirstRemoved, Zenon DEF HoldsLock
<1> HIDE DEF S
<1>3. QED  BY <1>1, <1>2, TailIs, Zenon

\* The first of the writes has read the row.
LEMMA ReadFirst ==
    ASSUME TypeOK, NEW i \in DOMAIN writes, Read(i)
    PROVE  /\ i = 1 /\ row.exists /\ Len(writes) \in Nat /\ Len(writes') = Len(writes)
           /\ DOMAIN writes = 1 .. Len(writes) /\ DOMAIN writes' = 1 .. Len(writes)
           /\ writes'[1].read = row
           /\ \A j \in DOMAIN writes : writes'[j].report = writes[j].report
           /\ \A j \in DOMAIN writes : j # 1 => writes'[j] = writes[j]
<1> DEFINE S == [report : Reports, read : Rows \cup {NoRow}]
           new == [writes[i] EXCEPT !.read = row]
<1>1. writes \in Seq(S) /\ row \in Rows \cup {NoRow}
  BY DEF TypeOK
<1>2. i = 1 /\ row.exists /\ writes' = [writes EXCEPT ![i].read = row]
  BY Zenon DEF Read, HoldsLock
<1>3. writes[i] \in S
  BY <1>1, ElementType, Zenon
<1>4. new \in S /\ new.read = row /\ new.report = writes[i].report
  <2> HIDE DEF Reports, Rows, NoRow
  <2>1. QED  BY <1>1, <1>3
<1>5. writes' = [writes EXCEPT ![i] = new]
  BY <1>2
<1> HIDE DEF new, S
<1>6. QED  BY <1>1, <1>2, <1>4, <1>5

\* What a write commits.
LEMMA WrittenIs ==
    ASSUME NEW read, NEW report
    PROVE  /\ Written(read, report).exists
           /\ Written(read, report).status = IF report.status = Running THEN read.status ELSE report.status
           /\ Written(read, report).step = report.step
BY DEF Written, Row

\* What a report says.
LEMMA ReportIs ==
    ASSUME NEW status, NEW step
    PROVE  Report(status, step).status = status /\ Report(status, step).step = step
BY DEF Report

\* The rows: none, and the four ways to end one.
LEMMA RowsDiffer ==
    /\ ~NoRow.exists
    /\ Running # Completed /\ Running # Failed /\ Running # Cancelled
    /\ Completed # Failed /\ Completed # Cancelled /\ Failed # Cancelled
BY DEF NoRow, Running, Completed, Failed, Cancelled

\* The steps of the run that leave the row alone publish at most one report.
LEMMA RunPublishes ==
    ASSUME TypeOK, Control, StepOfRun
    PROVE  \/ /\ pc = "none" /\ writes = <<>> /\ writes' = <<>> /\ row' = Row(Running, 0, <<>>)
              /\ index' = 0 /\ pc' = "ready"
           \/ /\ writes' = <<>> /\ row' = Interrupted(row) /\ pc' \in {"none", "done"} /\ lives' > 1
              /\ sent' = sent /\ steps' = steps /\ (pc' = "none" => row = NoRow)
              /\ (pc = "completing" => pc' = "done") /\ (pc = "done" => pc' = "done")
           \/ /\ UNCHANGED <<row, steps>>
              /\ UNCHANGED <<lives, failures>>
              /\ \/ pc = "ready" /\ Issue(Report(Failed, 0)) /\ pc' = "refused" /\ UNCHANGED <<index, sent>>
                 \/ pc = "ready" /\ Issue(Report(Running, 0)) /\ pc' = "reporting" /\ UNCHANGED <<index, sent>>
                 \/ pc = "acting" /\ Issue(Report(Running, index)) /\ pc' = "reporting" /\ UNCHANGED <<index, sent>>
                 \/ pc = "acting" /\ Issue(Report(Failed, index)) /\ pc' = "failing" /\ UNCHANGED <<index, sent>>
                 \/ /\ pc = "reporting" /\ Issue(Report(Completed, index)) /\ pc' = "completing"
                    /\ index = Len(steps) /\ UNCHANGED <<index, sent>>
                 \/ /\ pc \in {"acting", "reporting", "failing"} /\ Issue(Report(Cancelled, index))
                    /\ pc' = "closing" /\ UNCHANGED index
                 \/ pc = "reporting" /\ writes = <<>> /\ writes' = writes /\ pc' = "acting" /\ UNCHANGED sent
                 \/ pc = "acting" /\ writes' = writes /\ pc' = pc /\ UNCHANGED index
                 \/ /\ pc \in {"failing", "completing", "closing", "refused"} /\ pc' = "done"
                    /\ writes' = writes /\ UNCHANGED <<index, sent>>
<1>1. CASE Begin
  BY <1>1, Zenon DEF Begin, bounds
<1>2. CASE NextStep
  BY <1>2, Zenon DEF NextStep, Reported, bounds
<1>3. CASE Completes
  BY <1>3, Zenon DEF Completes, bounds
<1>4. CASE Sends
  BY <1>4, Zenon DEF Sends, bounds
<1>5. CASE StepDone
  BY <1>5, Zenon DEF StepDone, bounds
<1>6. CASE StepFails
  BY <1>6, Zenon DEF StepFails, bounds
<1>7. CASE Ends
  BY <1>7, Zenon DEF Ends, bounds
<1>8. CASE Cancel
  <2>1. left # <<>> => pc = "acting"
    BY Zenon DEF Control
  <2>2. CASE ReportsCancellation
    BY <1>8, <2>2, Zenon DEF Cancel, ReportsCancellation
  <2>3. CASE ~ReportsCancellation
    <3>1. pc \in {"failing", "completing", "closing", "refused"} /\ pc # "acting"
      BY <1>8, <2>3, Zenon DEF Cancel, ReportsCancellation, Waiting
    <3>2. pc' = "done" /\ writes' = writes /\ UNCHANGED <<row, steps, index, failures, lives>>
      BY <1>8, <2>3, Zenon DEF Cancel
    <3>3. sent' = sent
      BY <1>8, <2>1, <3>1, Zenon DEF Cancel
    <3>4. QED  BY <3>1, <3>2, <3>3, Zenon
  <2>4. QED  BY <2>2, <2>3
<1>9. CASE MsmRestarts
  <2>1. lives' > 1
    BY <1>9 DEF MsmRestarts, TypeOK
  <2>2. QED  BY <1>9, <2>1, Zenon DEF MsmRestarts, Control
<1>a. ASSUME NEW confirm \in BOOLEAN, Start(confirm)
      PROVE  /\ pc = "none" /\ writes = <<>> /\ writes' = <<>> /\ row' = Row(Running, 0, <<>>)
             /\ index' = 0 /\ pc' = "ready"
  BY <1>a, Zenon DEF Start, Control
<1>b. QED  BY <1>1, <1>2, <1>3, <1>4, <1>5, <1>6, <1>7, <1>8, <1>9, <1>a, Zenon DEF StepOfRun

\* A write that has read the row is the first, and the row has not changed since.
LEMMA ReadKept ==
    ASSUME HistoryInv, [Next]_vars
    PROVE  ReadIsRow'
<1> USE DEF ReadIsRow
<1>0. TypeOK /\ Control /\ ReadIsRow
  BY Zenon DEF HistoryInv, SentInv
<1>1. CASE UNCHANGED <<writes, row>>
  BY <1>0, <1>1, Zenon
<1>2. CASE writes' = <<>>
  BY <1>2
<1>3. ASSUME NEW status, NEW step, Issue(Report(status, step)), row' = row PROVE ReadIsRow'
  <2>1. /\ DOMAIN writes' = DOMAIN writes \cup {Len(writes) + 1}
        /\ \A i \in DOMAIN writes : writes'[i] = writes[i]
        /\ ~writes'[Len(writes) + 1].read.exists
    BY <1>0, <1>3, Published, Zenon
  <2>2. QED  BY <1>0, <1>3, <2>1, Zenon
<1>4. CASE StepOfRun
  BY <1>0, <1>1, <1>2, <1>3, <1>4, RunPublishes, Zenon
<1>5. CASE StepBeside
  BY <1>0, <1>1, <1>5, BesideLeaves, RowsDiffer, Zenon
<1>6. ASSUME NEW i \in DOMAIN writes, Read(i) PROVE ReadIsRow'
  <2>1. row' = row
    BY <1>6, Zenon DEF Read
  <2>2. QED  BY <1>0, <1>6, <2>1, ReadFirst
<1>7. ASSUME NEW i \in DOMAIN writes, Commit(i) \/ NothingToWrite(i) \/ WriteFails(i)
      PROVE  ReadIsRow'
  <2>1. HoldsLock(i) /\ writes' = RemoveAt(writes, i)
    BY <1>7, Zenon DEF Commit, NothingToWrite, WriteFails
  <2>2. /\ DOMAIN writes = 1 .. Len(writes) /\ DOMAIN writes' = 1 .. Len(writes) - 1
        /\ \A j \in DOMAIN writes' : j + 1 \in DOMAIN writes /\ writes'[j] = writes[j + 1]
        /\ Len(writes) \in Nat
    BY <1>0, <2>1, Shifted, Zenon
  <2>3. row'.exists => row.exists
    BY <1>7, Zenon DEF Commit, NothingToWrite, WriteFails
  <2>4. \A j \in DOMAIN writes' : j + 1 # 1
    BY <2>2
  <2>5. QED  BY <1>0, <2>2, <2>3, <2>4, Zenon
<1>8. QED
  BY <1>1, <1>4, <1>5, <1>6, <1>7, StepIsOf, Zenon DEF StepOfWrite, vars

\* The row once the first report is committed.
LEMMA Committed ==
    ASSUME HistoryInv, NEW i \in DOMAIN writes, Commit(i)
    PROVE  /\ i = 1 /\ row.exists /\ row'.exists
           /\ row'.status = IF writes[1].report.status = Running THEN row.status ELSE writes[1].report.status
           /\ row'.step = writes[1].report.step
<1>1. /\ writes[i].read.exists /\ row.exists /\ HoldsLock(i)
      /\ row' = Written(writes[i].read, writes[i].report)
  BY Zenon DEF Commit
<1>2. i = 1 /\ writes[1].read = row
  BY <1>1, Zenon DEF HistoryInv, ReadIsRow
<1>3. row' = Written(row, writes[1].report)
  BY <1>1, <1>2
<1>4. \A read, report :
          /\ Written(read, report).exists
          /\ Written(read, report).status = IF report.status = Running THEN read.status ELSE report.status
          /\ Written(read, report).step = report.step
  BY WrittenIs
<1> HIDE DEF Written
<1>5. QED  BY <1>1, <1>2, <1>3, <1>4

\* Every step keeps the order in which a run may end.
LEMMA EndsKept ==
    ASSUME HistoryInv, [Next]_vars
    PROVE  EndsOnce'
<1> DEFINE Orderly ==
            \A i \in DOMAIN writes : writes[i].report.status # Running =>
                /\ \A j \in DOMAIN writes :
                     i < j => writes[i].report.status = Failed /\ writes[j].report.status = Cancelled
                /\ Over => row.status = Failed /\ writes[i].report.status = Cancelled
           Going == ~Over /\ \A i \in DOMAIN writes : writes[i].report.status = Running
           Failing == /\ Over => row.status = Failed
                      /\ \A i \in DOMAIN writes : writes[i].report.status \in {Running, Failed}
<1>0. TypeOK /\ Control /\ EndsOnce
  BY Zenon DEF HistoryInv, SentInv
<1>a. /\ Orderly /\ (pc \in {"ready", "acting", "reporting"} => Going)
      /\ (pc = "failing" => Failing)
  BY <1>0, Zenon DEF EndsOnce
<1>b. /\ Orderly' /\ (pc' \in {"ready", "acting", "reporting"} => Going')
      /\ (pc' = "failing" => Failing')
      => EndsOnce'
  BY Zenon DEF EndsOnce
<1>c. /\ "ready" # "failing" /\ "acting" # "failing" /\ "reporting" # "failing"
      /\ \A p \in {"completing", "closing", "refused", "done", "none"} :
            p \notin {"ready", "acting", "reporting", "failing"}
  OBVIOUS
<1> HIDE DEF Orderly, Going, Failing
<1>1. ASSUME UNCHANGED writes, row' \in {row, NoRow}
      PROVE  Orderly' /\ (Going => Going') /\ (Failing => Failing')
  BY <1>a, <1>1, RowsDiffer, Zenon DEF Orderly, Going, Failing, Over
<1>2. ASSUME writes' = <<>>
      PROVE  Orderly' /\ (~Over' => Going')
  BY <1>2 DEF Orderly, Going
<1>3. ASSUME NEW status, NEW step, Issue(Report(status, step)), row' = row
      PROVE  /\ DOMAIN writes' = DOMAIN writes \cup {Len(writes) + 1}
             /\ \A i \in DOMAIN writes : writes'[i] = writes[i] /\ i < Len(writes) + 1
             /\ writes'[Len(writes) + 1].report.status = status
             /\ Over' <=> Over
  <2>1. Report(status, step).status = status
    BY ReportIs
  <2>2. /\ DOMAIN writes' = DOMAIN writes \cup {Len(writes) + 1}
        /\ \A i \in DOMAIN writes : writes'[i] = writes[i] /\ i < Len(writes) + 1
        /\ writes'[Len(writes) + 1].report = Report(status, step)
    BY <1>0, <1>3, Published, Zenon
  <2>3. QED  BY <1>3, <2>1, <2>2, Zenon DEF Over
<1>n. Len(writes) \in Nat /\ DOMAIN writes = 1 .. Len(writes)
  BY <1>0 DEF TypeOK
<1>4. ASSUME NEW step, Issue(Report(Running, step)), row' = row, Going
      PROVE  Orderly' /\ Going'
  BY <1>3, <1>4, Zenon DEF Orderly, Going, Over
<1>5. ASSUME NEW step, NEW status \in {Completed, Failed, Cancelled}, Issue(Report(status, step)), row' = row, Going
      PROVE  Orderly' /\ (status = Failed => Failing')
  <2>0. /\ DOMAIN writes' = DOMAIN writes \cup {Len(writes) + 1}
        /\ \A i \in DOMAIN writes : writes'[i] = writes[i] /\ i < Len(writes) + 1
        /\ writes'[Len(writes) + 1].report.status = status
        /\ Over' <=> Over
    BY <1>3, <1>5, Zenon
  <2>1. \A i \in DOMAIN writes' : \A j \in DOMAIN writes' : i < j => writes'[i].report.status = Running
    <3>1. \A j \in DOMAIN writes' : ~(Len(writes) + 1 < j)
      BY <1>n, <2>0
    <3>2. QED  BY <1>5, <2>0, <3>1, Zenon DEF Going
  <2>2. Orderly'
    BY <1>5, <2>0, <2>1, Zenon DEF Orderly, Going, Over
  <2>3. status = Failed => Failing'
    BY <1>5, <2>0, Zenon DEF Failing, Going, Over
  <2>4. QED  BY <2>2, <2>3
<1>6. ASSUME NEW step, Issue(Report(Cancelled, step)), row' = row, Failing
      PROVE  Orderly'
  <2>0. /\ DOMAIN writes' = DOMAIN writes \cup {Len(writes) + 1}
        /\ \A i \in DOMAIN writes : writes'[i] = writes[i] /\ i < Len(writes) + 1
        /\ writes'[Len(writes) + 1].report.status = Cancelled
        /\ Over' <=> Over
    BY <1>3, <1>6, Zenon
  <2>1. \A j \in DOMAIN writes' : ~(Len(writes) + 1 < j)
    BY <1>n, <2>0
  <2>2. \A i \in DOMAIN writes : writes[i].report.status \in {Running, Failed}
    BY <1>6, Zenon DEF Failing
  <2>3. Over => row.status = Failed /\ \A i \in DOMAIN writes : writes[i].report.status = Running
    <3>1. ASSUME Over, NEW i \in DOMAIN writes, writes[i].report.status # Running PROVE FALSE
      <4>1. writes[i].report.status = Cancelled
        BY <1>a, <3>1, Zenon DEF Orderly
      <4>2. QED  BY <2>2, <4>1, RowsDiffer, Zenon
    <3>2. QED  BY <1>6, <3>1, Zenon DEF Failing
  <2> SUFFICES ASSUME NEW i \in DOMAIN writes', writes'[i].report.status # Running
               PROVE  /\ \A j \in DOMAIN writes' :
                          i < j => writes'[i].report.status = Failed /\ writes'[j].report.status = Cancelled
                      /\ Over' => row'.status = Failed /\ writes'[i].report.status = Cancelled
    BY Zenon DEF Orderly
  <2>4. CASE i = Len(writes) + 1
    BY <1>6, <2>0, <2>1, <2>3, <2>4, Zenon
  <2>5. CASE i \in DOMAIN writes
    <3>1. writes'[i] = writes[i] /\ writes[i].report.status = Failed /\ ~Over
      BY <2>0, <2>2, <2>3, <2>5, Zenon
    <3>2. \A j \in DOMAIN writes : ~(i < j)
      <4> SUFFICES ASSUME NEW j \in DOMAIN writes, i < j PROVE FALSE
        OBVIOUS
      <4>1. writes[j].report.status = Cancelled
        BY <1>a, <2>5, <3>1, RowsDiffer, Zenon DEF Orderly
      <4>2. QED  BY <2>2, <4>1, RowsDiffer, Zenon
    <3>3. QED  BY <2>0, <3>1, <3>2, Zenon
  <2>6. QED  BY <2>0, <2>4, <2>5, Zenon
<1>7. CASE StepOfRun
  <2>1. CASE /\ pc = "none" /\ writes = <<>> /\ writes' = <<>> /\ row' = Row(Running, 0, <<>>)
             /\ index' = 0 /\ pc' = "ready"
    <3>1. ~Over'
      BY <2>1 DEF Over, Row
    <3>2. QED  BY <1>b, <1>2, <1>c, <2>1, <3>1, Zenon
  <2>2. CASE writes' = <<>> /\ pc' \in {"none", "done"}
    BY <1>b, <1>2, <1>c, <2>2, Zenon
  <2>3. CASE pc \in {"ready", "acting"} /\ pc' = "reporting" /\ row' = row
             /\ \E step : Issue(Report(Running, step))
    BY <1>a, <1>b, <1>c, <1>4, <2>3, Zenon
  <2>4. CASE pc \in {"ready", "acting"} /\ pc' \in {"refused", "failing"} /\ row' = row
             /\ \E step : Issue(Report(Failed, step))
    BY <1>a, <1>b, <1>c, <1>5, <2>4, Zenon
  <2>5. CASE pc = "reporting" /\ pc' = "completing" /\ row' = row
             /\ \E step : Issue(Report(Completed, step))
    BY <1>a, <1>b, <1>c, <1>5, <2>5, Zenon
  <2>6. CASE pc \in {"acting", "reporting", "failing"} /\ pc' = "closing" /\ row' = row
             /\ \E step : Issue(Report(Cancelled, step))
    BY <1>a, <1>b, <1>c, <1>5, <1>6, <2>6, Zenon
  <2>7. CASE row' = row /\ writes' = writes /\ pc \in {"reporting", "acting"} /\ pc' = "acting"
    BY <1>a, <1>b, <1>c, <1>1, <2>7, Zenon
  <2>8. CASE row' = row /\ writes' = writes /\ pc' = "done"
    BY <1>a, <1>b, <1>c, <1>1, <2>8, Zenon
  <2>9. QED
    BY <1>0, <1>7, RunPublishes, <2>1, <2>2, <2>3, <2>4, <2>5, <2>6, <2>7, <2>8, Zenon
<1>8. CASE StepBeside \/ UNCHANGED vars
  <2>1. UNCHANGED <<writes, pc>> /\ row' \in {row, NoRow}
    BY <1>8, BesideLeaves, RunUnchanged, Zenon DEF vars, task
  <2>2. QED  BY <1>a, <1>b, <1>1, <2>1, Zenon
<1>9. ASSUME NEW i \in DOMAIN writes, Read(i) PROVE EndsOnce'
  <2>1. row' = row /\ pc' = pc
    BY <1>9, Zenon DEF Read, task
  <2>2. DOMAIN writes' = DOMAIN writes /\ \A j \in DOMAIN writes : writes'[j].report = writes[j].report
    BY <1>0, <1>9, ReadFirst, Zenon
  <2>3. QED  BY <1>a, <1>b, <2>1, <2>2, Zenon DEF Orderly, Going, Failing, Over
<1>d. ASSUME NEW i \in DOMAIN writes, Commit(i) \/ NothingToWrite(i) \/ WriteFails(i)
      PROVE  EndsOnce'
  <2>1. HoldsLock(i) /\ writes' = RemoveAt(writes, i) /\ pc' = pc
    BY <1>d, Zenon DEF Commit, NothingToWrite, WriteFails, task
  <2>2. /\ DOMAIN writes = 1 .. Len(writes) /\ DOMAIN writes' = 1 .. Len(writes) - 1
        /\ \A j \in DOMAIN writes' : j + 1 \in DOMAIN writes /\ writes'[j] = writes[j + 1]
        /\ Len(writes) \in Nat
    BY <1>0, <2>1, Shifted, Zenon
  <2>3. /\ \A j \in DOMAIN writes' : 1 < j + 1
        /\ \A j, k \in DOMAIN writes' : j < k => j + 1 < k + 1
        /\ 1 \in DOMAIN writes
    <3>1. i = 1
      BY <1>0, <2>1, Shifted, Zenon
    <3>2. QED  BY <2>2, <3>1
  <2>a. \A j \in DOMAIN writes' : \A k \in DOMAIN writes' : j < k /\ writes'[j].report.status # Running =>
            writes'[j].report.status = Failed /\ writes'[k].report.status = Cancelled
    <3> SUFFICES ASSUME NEW j \in DOMAIN writes', NEW k \in DOMAIN writes', j < k, writes'[j].report.status # Running
                 PROVE  writes'[j].report.status = Failed /\ writes'[k].report.status = Cancelled
      OBVIOUS
    <3>1. /\ j + 1 \in DOMAIN writes /\ k + 1 \in DOMAIN writes /\ j + 1 < k + 1
          /\ writes'[j] = writes[j + 1] /\ writes'[k] = writes[k + 1]
      BY <2>2, <2>3, Zenon
    <3>2. writes[j + 1].report.status # Running
      BY <3>1
    <3>3. writes[j + 1].report.status = Failed /\ writes[k + 1].report.status = Cancelled
      BY <1>a, <3>1, <3>2, Zenon DEF Orderly
    <3>4. QED  BY <3>1, <3>3
  <2>b. ASSUME Over' => Over /\ row'.status = row.status
        PROVE  Orderly' /\ (Going => Going') /\ (Failing => Failing')
    <3>1. \A j \in DOMAIN writes' : writes'[j].report.status # Running /\ Over' =>
              row'.status = Failed /\ writes'[j].report.status = Cancelled
      BY <1>a, <2>2, <2>b, Zenon DEF Orderly
    <3>2. Orderly'
      BY <2>a, <3>1, Zenon DEF Orderly
    <3>3. (Going => Going') /\ (Failing => Failing')
      BY <2>2, <2>b, Zenon DEF Going, Failing
    <3>4. QED  BY <3>2, <3>3
  <2>4. CASE row' = row
    <3>1. Over' => Over /\ row'.status = row.status
      BY <2>4, Zenon DEF Over
    <3>2. QED  BY <1>a, <1>b, <2>1, <2>b, <3>1, Zenon
  <2>5. CASE Commit(i)
    <3>1. /\ row.exists /\ row'.exists
          /\ row'.status = IF writes[1].report.status = Running THEN row.status ELSE writes[1].report.status
      BY <2>5, Committed, Zenon
    <3>2. CASE writes[1].report.status = Running
      <4>1. Over' => Over /\ row'.status = row.status
        BY <3>1, <3>2, Zenon DEF Over
      <4>2. QED  BY <1>a, <1>b, <2>1, <2>b, <4>1, Zenon
    <3>3. CASE writes[1].report.status # Running
      <4>1. \A j \in DOMAIN writes' : /\ writes'[j].report.status = Cancelled
                                      /\ writes[1].report.status = Failed
        <5> SUFFICES ASSUME NEW j \in DOMAIN writes'
                     PROVE  writes'[j].report.status = Cancelled /\ writes[1].report.status = Failed
          OBVIOUS
        <5>1. j + 1 \in DOMAIN writes /\ writes'[j] = writes[j + 1] /\ 1 < j + 1
          BY <2>2, <2>3, Zenon
        <5>2. writes[1].report.status = Failed /\ writes[j + 1].report.status = Cancelled
          BY <1>a, <2>3, <3>3, <5>1, Zenon DEF Orderly
        <5>3. QED  BY <5>1, <5>2
      <4>2. \A j \in DOMAIN writes' : \A k \in DOMAIN writes' : ~(j < k)
        <5> SUFFICES ASSUME NEW j \in DOMAIN writes', NEW k \in DOMAIN writes', j < k PROVE FALSE
          OBVIOUS
        <5>1. writes[j + 1].report.status = Cancelled /\ j + 1 \in DOMAIN writes /\ k + 1 \in DOMAIN writes
          BY <2>2, <4>1, Zenon
        <5>2. writes[j + 1].report.status = Failed
          BY <1>a, <2>3, <5>1, RowsDiffer, Zenon DEF Orderly
        <5>3. QED  BY <5>1, <5>2, RowsDiffer, Zenon
      <4>3. Orderly'
        BY <3>1, <3>3, <4>1, <4>2, Zenon DEF Orderly, Over
      <4>4. pc \notin {"ready", "acting", "reporting"}
        BY <1>a, <2>3, <3>3, Zenon DEF Going
      <4>5. pc = "failing" => Failing'
        <5>1. ASSUME Failing PROVE Failing'
          <6>1. \A j \in DOMAIN writes' : writes'[j].report.status \in {Running, Failed}
            BY <2>2, <5>1, Zenon DEF Failing
          <6>2. row'.status = Failed
            BY <2>3, <3>1, <3>3, <5>1, Zenon DEF Failing
          <6>3. QED  BY <6>1, <6>2, Zenon DEF Failing
        <5>2. QED  BY <1>a, <5>1
      <4>6. QED  BY <1>b, <2>1, <4>3, <4>4, <4>5, Zenon
    <3>4. QED  BY <3>2, <3>3
  <2>6. QED  BY <1>d, <2>4, <2>5, Zenon DEF NothingToWrite, WriteFails
<1>e. QED  BY <1>7, <1>8, <1>9, <1>d, StepIsOf, Zenon DEF StepOfWrite

\* A completed run is one that has sent everything.
LEMMA SentAllKept ==
    ASSUME HistoryInv, [Next]_vars
    PROVE  SentAll'
<1> DEFINE Complete == \/ row.exists /\ row.status = Completed
                       \/ \E i \in DOMAIN writes : writes[i].report.status = Completed
           AllSent == pc \in {"completing", "done"} /\ sent = AllCommands(steps)
<1>0. TypeOK /\ Control /\ SentInOrder /\ (Complete => AllSent)
  BY Zenon DEF HistoryInv, SentInv, SentAll
<1>a. (Complete' => AllSent') => SentAll'
  BY Zenon DEF SentAll
<1>b. pc \in {"reporting", "completing"} /\ index = Len(steps) => sent = AllCommands(steps)
  BY <1>0, CommandsOfRun, Zenon DEF SentInOrder
<1> HIDE DEF Complete, AllSent
<1>1. ASSUME UNCHANGED writes, row' \in {row, NoRow} PROVE Complete' => Complete
  BY <1>1, RowsDiffer, Zenon DEF Complete
<1>2. ASSUME UNCHANGED <<pc, sent, steps>> PROVE AllSent => AllSent'
  BY <1>2, Zenon DEF AllSent
<1>3. ASSUME NEW status, NEW step, Issue(Report(status, step)), row' = row, status # Completed
      PROVE  Complete' => Complete
  <2>1. Report(status, step).status = status
    BY ReportIs
  <2>2. /\ DOMAIN writes' = DOMAIN writes \cup {Len(writes) + 1}
        /\ \A i \in DOMAIN writes : writes'[i] = writes[i]
        /\ writes'[Len(writes) + 1].report = Report(status, step)
    BY <1>0, <1>3, Published, Zenon
  <2>3. QED  BY <1>3, <2>1, <2>2, Zenon DEF Complete
<1>4. CASE StepOfRun
  <2>1. CASE writes' = <<>> /\ row' = Row(Running, 0, <<>>)
    <3>1. ~Complete'
      BY <2>1, RowsDiffer DEF Complete, Row
    <3>2. QED  BY <1>a, <3>1
  <2>2. CASE /\ writes' = <<>> /\ row' = Interrupted(row) /\ pc' \in {"none", "done"}
             /\ sent' = sent /\ steps' = steps
             /\ (pc = "completing" => pc' = "done") /\ (pc = "done" => pc' = "done")
    <3>1. Complete' => Complete
      BY <2>2, RowsDiffer DEF Complete, Interrupted
    <3>2. AllSent => AllSent'
      BY <2>2, Zenon DEF AllSent
    <3>3. QED  BY <1>0, <1>a, <3>1, <3>2
  <2>3. CASE pc \in {"ready", "acting", "reporting", "failing"} /\ row' = row
             /\ \E step : \E status \in {Running, Failed, Cancelled} : Issue(Report(status, step))
    <3>1. Complete' => Complete
      BY <1>3, <2>3, RowsDiffer, Zenon
    <3>2. ~AllSent
      BY <2>3 DEF AllSent
    <3>3. QED  BY <1>0, <1>a, <3>1, <3>2
  <2>4. CASE pc = "reporting" /\ pc' = "completing" /\ index = Len(steps) /\ UNCHANGED <<sent, steps>>
    <3>1. AllSent'
      BY <1>b, <2>4, Zenon DEF AllSent
    <3>2. QED  BY <1>a, <3>1
  <2>5. CASE pc \in {"reporting", "acting"} /\ row' = row /\ writes' = writes
    <3>1. ~AllSent
      BY <2>5 DEF AllSent
    <3>2. QED  BY <1>0, <1>1, <1>a, <2>5, <3>1, Zenon
  <2>6. CASE pc' = "done" /\ UNCHANGED <<row, writes, sent, steps>>
    <3>1. AllSent => AllSent'
      BY <2>6, Zenon DEF AllSent
    <3>2. QED  BY <1>0, <1>1, <1>a, <2>6, <3>1, Zenon
  <2>7. QED
    BY <1>0, <1>4, RunPublishes, <2>1, <2>2, <2>3, <2>4, <2>5, <2>6, Zenon
<1>5. CASE StepBeside \/ UNCHANGED vars
  <2>1. UNCHANGED <<writes, pc, sent, steps>> /\ row' \in {row, NoRow}
    BY <1>5, BesideLeaves, RunUnchanged, Zenon DEF vars, task
  <2>2. QED  BY <1>0, <1>a, <1>1, <1>2, <2>1, Zenon
<1>6. ASSUME NEW i \in DOMAIN writes, Read(i) PROVE SentAll'
  <2>1. row' = row /\ UNCHANGED <<pc, sent, steps>>
    BY <1>6, Zenon DEF Read, task
  <2>2. DOMAIN writes' = DOMAIN writes /\ \A j \in DOMAIN writes : writes'[j].report = writes[j].report
    BY <1>0, <1>6, ReadFirst, Zenon
  <2>3. Complete' => Complete
    BY <2>1, <2>2, Zenon DEF Complete
  <2>4. QED  BY <1>0, <1>a, <1>2, <2>1, <2>3, Zenon
<1>7. ASSUME NEW i \in DOMAIN writes, Commit(i) \/ NothingToWrite(i) \/ WriteFails(i)
      PROVE  SentAll'
  <2>1. HoldsLock(i) /\ writes' = RemoveAt(writes, i) /\ UNCHANGED <<pc, sent, steps>>
    BY <1>7, Zenon DEF Commit, NothingToWrite, WriteFails, task
  <2>2. \A j \in DOMAIN writes' : j + 1 \in DOMAIN writes /\ writes'[j] = writes[j + 1]
    BY <1>0, <2>1, Shifted, Zenon
  <2>3. row' = row \/ Commit(i)
    BY <1>7, Zenon DEF NothingToWrite, WriteFails
  <2>4. CASE row' = row
    <3>1. Complete' => Complete
      BY <2>2, <2>4, Zenon DEF Complete
    <3>2. QED  BY <1>0, <1>a, <1>2, <2>1, <3>1, Zenon
  <2>5. CASE Commit(i)
    <3>1. /\ i = 1 /\ row.exists
          /\ row'.status = IF writes[1].report.status = Running THEN row.status ELSE writes[1].report.status
      BY <2>5, Committed, Zenon
    <3>2. Complete' => Complete
      <4>1. row'.status = Completed => Complete
        BY <3>1, Zenon DEF Complete
      <4>2. QED  BY <2>2, <4>1, Zenon DEF Complete
    <3>3. QED  BY <1>0, <1>a, <1>2, <2>1, <3>2, Zenon
  <2>6. QED  BY <2>3, <2>4, <2>5
<1>8. QED  BY <1>4, <1>5, <1>6, <1>7, StepIsOf, Zenon DEF StepOfWrite

\* Where the row is, or will be once the reports are written.
LEMMA LastStepKept ==
    ASSUME HistoryInv, [Next]_vars
    PROVE  LastStep'
<1> DEFINE Reaches == IF writes = <<>> THEN row.step = index ELSE writes[Len(writes)].report.step = index
           Known == row.exists /\ lives = 1 /\ failures = 0 /\ pc \notin {"none", "acting"}
<1>0. TypeOK /\ Control /\ (Known => Reaches)
  BY Zenon DEF HistoryInv, SentInv, LastStep
<1>a. (Known' => Reaches') => LastStep'
  BY Zenon DEF LastStep
<1>n. Len(writes) \in Nat /\ DOMAIN writes = 1 .. Len(writes) /\ (writes # <<>> => Len(writes) \in DOMAIN writes)
  BY <1>0 DEF TypeOK
<1>1. ASSUME NEW status, Issue(Report(status, index)), index' = index PROVE Reaches'
  <2>1. Report(status, index).step = index
    BY ReportIs
  <2>2. /\ Len(writes') = Len(writes) + 1 /\ writes' # <<>>
        /\ writes'[Len(writes) + 1].report = Report(status, index)
    BY <1>0, <1>1, Published, Zenon
  <2>3. QED  BY <1>1, <2>1, <2>2, Zenon
<1>2. CASE StepOfRun
  <2>1. CASE writes' = <<>> /\ row' = Row(Running, 0, <<>>) /\ index' = 0
    BY <1>a, <2>1 DEF Row
  <2>2. CASE lives' > 1
    BY <1>a, <2>2
  <2>3. CASE pc = "ready" /\ UNCHANGED index
             /\ \E status : Issue(Report(status, 0))
    <3>1. index = 0
      BY <1>0, <2>3, Zenon DEF Control
    <3>2. QED  BY <1>1, <1>a, <2>3, <3>1, Zenon
  <2>4. CASE UNCHANGED index /\ \E status : Issue(Report(status, index))
    BY <1>1, <1>a, <2>4, Zenon
  <2>5. CASE pc' = "acting"
    BY <1>a, <2>5
  <2>6. CASE /\ pc \in {"failing", "completing", "closing", "refused"} /\ pc' = "done"
             /\ UNCHANGED <<row, writes, index, lives, failures>>
    <3>1. Known' => Known
      BY <2>6
    <3>2. Reaches => Reaches'
      BY <2>6, Zenon
    <3>3. QED  BY <1>0, <1>a, <3>1, <3>2
  <2>7. QED  BY <1>0, <1>2, RunPublishes, <2>1, <2>2, <2>3, <2>4, <2>5, <2>6, Zenon
<1>3. CASE StepBeside \/ UNCHANGED vars
  <2>1. UNCHANGED <<writes, pc, index, lives, failures>> /\ row' \in {row, NoRow}
    BY <1>3, BesideLeaves, RunUnchanged, Zenon DEF vars, task, bounds
  <2>2. row'.exists => row' = row
    BY <2>1, RowsDiffer, Zenon
  <2>3. QED  BY <1>0, <1>a, <2>1, <2>2, Zenon
<1>4. ASSUME NEW i \in DOMAIN writes, Read(i) PROVE LastStep'
  <2>1. row' = row /\ UNCHANGED <<pc, index, lives, failures>>
    BY <1>4, Zenon DEF Read, task, bounds
  <2>2. /\ DOMAIN writes' = DOMAIN writes /\ \A j \in DOMAIN writes : writes'[j].report = writes[j].report
        /\ Len(writes') = Len(writes) /\ DOMAIN writes' = 1 .. Len(writes)
    BY <1>0, <1>4, ReadFirst, Zenon
  <2>3. writes # <<>> /\ writes' # <<>> /\ Len(writes) \in DOMAIN writes
    BY <1>4, <1>n, <2>2
  <2>4. Reaches => Reaches'
    BY <2>1, <2>2, <2>3, Zenon
  <2>5. QED  BY <1>0, <1>a, <2>1, <2>4, Zenon
<1>5. ASSUME NEW i \in DOMAIN writes, Commit(i) \/ NothingToWrite(i) \/ WriteFails(i)
      PROVE  LastStep'
  <2>1. HoldsLock(i) /\ writes' = RemoveAt(writes, i) /\ UNCHANGED <<pc, index, lives>>
    BY <1>5, Zenon DEF Commit, NothingToWrite, WriteFails, task, bounds
  <2>2. /\ Len(writes) \in Nat \ {0} /\ Len(writes') = Len(writes) - 1
        /\ DOMAIN writes' = 1 .. Len(writes) - 1
        /\ \A j \in DOMAIN writes' : writes'[j] = writes[j + 1]
        /\ (writes' = <<>> <=> Len(writes) = 1)
    BY <1>0, <2>1, Shifted, Zenon
  <2>3. CASE Commit(i)
    <3>1. row.exists /\ row'.step = writes[1].report.step /\ failures' = failures
      BY <2>3, Committed, Zenon DEF Commit, bounds
    <3>2. Reaches => Reaches'
      <4>1. CASE Len(writes) = 1
        BY <2>1, <2>2, <3>1, <4>1
      <4>2. CASE Len(writes) # 1
        <5>1. writes'[Len(writes')] = writes[Len(writes)]
          BY <2>2, <4>2
        <5>2. QED  BY <2>1, <2>2, <4>2, <5>1
      <4>3. QED  BY <4>1, <4>2
    <3>3. QED  BY <1>0, <1>a, <2>1, <3>1, <3>2, Zenon
  <2>4. CASE NothingToWrite(i)
    <3>1. ~row'.exists
      BY <2>4, Zenon DEF NothingToWrite
    <3>2. QED  BY <1>a, <3>1
  <2>5. CASE WriteFails(i)
    <3>1. failures' # 0
      BY <1>0, <2>5 DEF WriteFails, TypeOK
    <3>2. QED  BY <1>a, <3>1
  <2>6. QED  BY <1>5, <2>3, <2>4, <2>5
<1>6. QED  BY <1>2, <1>3, <1>4, <1>5, StepIsOf, Zenon DEF StepOfWrite

\* Every step keeps what is known of the history.
LEMMA HistoryInvKept ==
    ASSUME HistoryInv, [Next]_vars
    PROVE  HistoryInv'
<1>1. SentInv'
  BY SentInvKept, Zenon DEF HistoryInv
<1>2. QED  BY <1>1, ReadKept, EndsKept, SentAllKept, LastStepKept, Zenon DEF HistoryInv

\* At first there is no history.
LEMMA HistoryAtFirst ==
    ASSUME Init
    PROVE  HistoryInv
<1>1. row = NoRow /\ pc = "none" /\ writes = <<>> /\ ~row.exists
  BY RowsDiffer, Zenon DEF Init
<1>2. ReadIsRow /\ LastStep
  BY <1>1, Zenon DEF ReadIsRow, LastStep
<1>3. DOMAIN writes = {}
  BY <1>1
<1>4. EndsOnce /\ SentAll
  BY <1>1, <1>3 DEF EndsOnce, SentAll, Over
<1>5. QED  BY <1>2, <1>4, InitSent, Zenon DEF HistoryInv

\* So the row tells what was sent.
LEMMA HistoryRowIsTrue ==
    ASSUME HistoryInv
    PROVE  RowIsTrue
<1>1. row.exists /\ row.status = Completed => sent = AllCommands(steps)
  BY Zenon DEF HistoryInv, SentAll
<1>2. ASSUME row.exists, writes = <<>>, pc = "done", lives = 1, failures = 0
      PROVE  Len(sent) \in UpTo(row.step - 1) .. UpTo(row.step)
  <2>1. row.step = index
    BY <1>2 DEF HistoryInv, LastStep
  <2>2. QED  BY <2>1, Zenon DEF HistoryInv, SentInv, SentInOrder
<1>3. QED  BY <1>1, <1>2, Zenon DEF RowIsTrue

\* What ends a run ends it once, but for the cancellation of one that failed.
LEMMA EndIsKept ==
    ASSUME HistoryInv, [Next]_vars, Over, row'.exists
    PROVE  row'.status = row.status \/ (row.status = Failed /\ row'.status = Cancelled)
<1>0. TypeOK /\ Control /\ EndsOnce /\ row.exists /\ row.status # Running
  BY Zenon DEF HistoryInv, SentInv, Over
<1>1. CASE StepOfRun
  <2>1. pc = "none" => ~row.exists
    BY <1>0, RowsDiffer, Zenon DEF Control
  <2>2. Interrupted(row) = row
    BY <1>0, Zenon DEF Interrupted
  <2>3. row' = row
    BY <1>0, <1>1, <2>1, <2>2, RunPublishes, Zenon
  <2>4. QED  BY <2>3
<1>2. CASE StepBeside \/ UNCHANGED vars
  <2>1. row' \in {row, NoRow}
    BY <1>2, BesideLeaves, Zenon DEF vars
  <2>2. QED  BY <2>1, RowsDiffer, Zenon
<1>3. ASSUME NEW i \in DOMAIN writes, Commit(i)
      PROVE  row'.status = row.status \/ (row.status = Failed /\ row'.status = Cancelled)
  <2>1. /\ i = 1
        /\ row'.status = IF writes[1].report.status = Running THEN row.status ELSE writes[1].report.status
    BY <1>3, Committed, Zenon
  <2>2. writes[1].report.status # Running => row.status = Failed /\ writes[1].report.status = Cancelled
    BY <1>0, <1>3, <2>1, Zenon DEF EndsOnce, Over
  <2>3. QED  BY <2>1, <2>2, Zenon
<1>4. ASSUME NEW i \in DOMAIN writes, Read(i) \/ NothingToWrite(i) \/ WriteFails(i)
      PROVE  row' = row
  BY <1>4, Zenon DEF Read, NothingToWrite, WriteFails
<1>5. QED  BY <1>1, <1>2, <1>3, <1>4, StepIsOf, Zenon DEF StepOfWrite

\* What the history says of a run that ended is what the server received, and it is said
\* once, whatever the order of the reports, the writes, the cancellations and the stops.
THEOREM HistoryIsTrueCorrect == Spec => HistoryIsTrue
<1>1. Init => HistoryInv
  BY HistoryAtFirst
<1>2. HistoryInv /\ [Next]_vars => HistoryInv'
  BY HistoryInvKept
<1>3. HistoryInv /\ [Next]_vars =>
        [/\ RowIsTrue'
         /\ Over /\ row'.exists => \/ row'.status = row.status
                                   \/ (row.status = Failed /\ row'.status = Cancelled)]_vars
  <2> SUFFICES ASSUME HistoryInv, [Next]_vars
               PROVE  /\ RowIsTrue'
                      /\ Over /\ row'.exists => \/ row'.status = row.status
                                                \/ (row.status = Failed /\ row'.status = Cancelled)
    OBVIOUS
  <2>1. HistoryInv'
    BY HistoryInvKept
  <2>2. HistoryInv' => RowIsTrue'
    BY HistoryRowIsTrue, PTL
  <2>3. QED  BY <2>1, <2>2, EndIsKept
<1>4. QED  BY <1>1, <1>2, <1>3, PTL DEF Spec, HistoryIsTrue
-----------------------------------------------------------------------------
(***************************************************************************)
(* Notices: the delays the restart policy announces, crash after crash.    *)
(***************************************************************************)
\* The powers of a number.
Powers(P, factor) ==
    P = [n \in Nat |-> IF n = 0 THEN 1 ELSE factor * P[n - 1]]

\* The first ones.
Upto(F, factor, n) ==
    /\ F \in [0 .. n -> Nat] /\ F[0] = 1
    /\ \A i \in 1 .. n : F[i] = factor * F[i - 1]

\* There are such powers up to any number ...
LEMMA SomePowers ==
    ASSUME NEW factor \in Nat
    PROVE  \A n \in Nat : \E F : Upto(F, factor, n)
<1> DEFINE T == {n \in Nat : \E F : Upto(F, factor, n)}
<1>1. 0 \in T
  <2>1. Upto([i \in 0 .. 0 |-> 1], factor, 0)
    BY DEF Upto
  <2>2. QED  BY <2>1
<1>2. ASSUME NEW n \in T PROVE n + 1 \in T
  <2>1. PICK F : Upto(F, factor, n)
    OBVIOUS
  <2>2. n \in Nat /\ F[n] \in Nat /\ factor * F[n] \in Nat
    BY <2>1 DEF Upto
  <2> DEFINE G == [i \in 0 .. n + 1 |-> IF i = n + 1 THEN factor * F[n] ELSE F[i]]
  <2>3. G \in [0 .. n + 1 -> Nat] /\ G[0] = 1
    BY <2>1, <2>2 DEF Upto
  <2>4. ASSUME NEW i \in 1 .. n + 1 PROVE G[i] = factor * G[i - 1]
    <3>1. CASE i = n + 1
      <4>1. i - 1 = n /\ n # n + 1 /\ n \in 0 .. n + 1 /\ n + 1 \in 0 .. n + 1
        BY <2>2, <3>1
      <4>2. QED  BY <3>1, <4>1, Zenon
    <3>2. CASE i # n + 1
      <4>1. i \in 1 .. n /\ i \in 0 .. n + 1 /\ i - 1 \in 0 .. n + 1 /\ i - 1 # n + 1
        BY <2>2, <3>2
      <4>2. F[i] = factor * F[i - 1]
        BY <2>1, <4>1, Zenon DEF Upto
      <4>3. QED  BY <3>2, <4>1, <4>2, Zenon
    <3>3. QED  BY <3>1, <3>2
  <2> HIDE DEF G
  <2>5. Upto(G, factor, n + 1)
    BY <2>3, <2>4, Zenon DEF Upto
  <2>6. QED  BY <2>2, <2>5
<1>3. T = Nat
  <2> HIDE DEF T
  <2>1. T \subseteq Nat
    BY DEF T
  <2>2. QED  BY <1>1, <1>2, <2>1, Induction
<1>4. QED  BY <1>3, Zenon

\* ... they agree ...
LEMMA SamePowers ==
    ASSUME NEW factor \in Nat, NEW m \in Nat, NEW n \in Nat, m <= n,
           NEW F, NEW G, Upto(F, factor, m), Upto(G, factor, n)
    PROVE  \A i \in 0 .. m : F[i] = G[i]
<1> DEFINE T == {i \in Nat : i <= m => F[i] = G[i]}
<1>1. 0 \in T
  BY DEF Upto
<1>2. ASSUME NEW i \in T PROVE i + 1 \in T
  <2> SUFFICES ASSUME i + 1 <= m PROVE F[i + 1] = G[i + 1]
    OBVIOUS
  <2>1. i \in Nat /\ F[i] = G[i] /\ (i + 1) - 1 = i /\ i + 1 \in 1 .. m /\ i + 1 \in 1 .. n
    OBVIOUS
  <2> HIDE DEF T
  <2>2. F[i + 1] = factor * F[(i + 1) - 1] /\ G[i + 1] = factor * G[(i + 1) - 1]
    BY <2>1, Zenon DEF Upto
  <2>3. QED  BY <2>1, <2>2, Zenon
<1>3. T = Nat
  <2> HIDE DEF T
  <2>1. T \subseteq Nat
    BY DEF T
  <2>2. QED  BY <1>1, <1>2, <2>1, Induction
<1>4. QED  BY <1>3

\* ... and make one function.
LEMMA PowersExist ==
    ASSUME NEW factor \in Nat
    PROVE  \E P : Powers(P, factor)
<1> DEFINE H == [n \in Nat |-> CHOOSE F : Upto(F, factor, n)]
           P == [n \in Nat |-> H[n][n]]
<1>1. \A n \in Nat : Upto(H[n], factor, n)
  BY SomePowers
<1> HIDE DEF H
<1>2. P[0] = 1
  BY <1>1 DEF Upto
<1>3. ASSUME NEW n \in Nat, n # 0 PROVE P[n] = factor * P[n - 1]
  <2>1. n - 1 \in Nat /\ n - 1 <= n /\ n \in 1 .. n /\ n - 1 \in 0 .. n - 1
    BY <1>3
  <2>2. Upto(H[n], factor, n) /\ Upto(H[n - 1], factor, n - 1)
    BY <1>1, <2>1
  <2>3. H[n - 1][n - 1] = H[n][n - 1]
    BY <2>1, <2>2, SamePowers
  <2>4. H[n][n] = factor * H[n][n - 1]
    BY <2>1, <2>2 DEF Upto
  <2>5. P[n] = H[n][n] /\ P[n - 1] = H[n - 1][n - 1]
    BY <2>1, Zenon
  <2>6. QED  BY <2>3, <2>4, <2>5, Zenon
<1>4. P = [n \in Nat |-> IF n = 0 THEN 1 ELSE factor * P[n - 1]]
  BY <1>2, <1>3
<1>5. QED  BY <1>4, Zenon DEF Powers

\* Powers of a positive number grow.
LEMMA PowersGrow ==
    ASSUME NEW factor \in Nat \ {0}, NEW P, Powers(P, factor)
    PROVE  /\ P[0] = 1
           /\ \A n \in Nat : P[n] \in Nat /\ P[n + 1] >= P[n]
<1>1. P[0] = 1 /\ \A n \in Nat : P[n + 1] = factor * P[n]
  <2>1. \A n \in Nat : P[n] = IF n = 0 THEN 1 ELSE factor * P[n - 1]
    BY DEF Powers
  <2>2. ASSUME NEW n \in Nat PROVE P[n + 1] = factor * P[n]
    <3>1. n + 1 \in Nat /\ n + 1 # 0 /\ (n + 1) - 1 = n
      OBVIOUS
    <3>2. P[n + 1] = factor * P[(n + 1) - 1]
      BY <2>1, <3>1, Zenon
    <3>3. QED  BY <3>1, <3>2, Zenon
  <2>3. QED  BY <2>1, <2>2, Zenon
<1> DEFINE T == {n \in Nat : P[n] \in Nat}
<1>2. 0 \in T
  BY <1>1
<1>3. ASSUME NEW n \in T PROVE n + 1 \in T
  <2>1. n \in Nat /\ P[n] \in Nat
    OBVIOUS
  <2>2. factor * P[n] \in Nat
    BY <2>1
  <2>3. QED  BY <1>1, <2>1, <2>2
<1>4. T = Nat
  <2> HIDE DEF T
  <2>1. T \subseteq Nat
    BY DEF T
  <2>2. QED  BY <1>2, <1>3, <2>1, Induction
<1>5. ASSUME NEW n \in Nat PROVE P[n] \in Nat /\ P[n + 1] >= P[n]
  <2>1. P[n] \in Nat
    BY <1>4
  <2>2. factor * P[n] >= P[n]
    <3>1. \A p \in Nat : \A f \in Nat \ {0} : f * p >= p
      OBVIOUS
    <3>2. QED  BY <2>1, <3>1
  <2>3. QED  BY <1>1, <2>1, <2>2
<1>6. QED  BY <1>1, <1>5

\* The delay grown so far, from one crash to the next.
LEMMA DelayGrows ==
    ASSUME NEW base \in Nat, NEW factor \in Nat \ {0}, NEW count \in Nat
    PROVE  /\ GrownDelay(base, factor, count) \in Nat
           /\ GrownDelay(base, factor, count + 1) >= GrownDelay(base, factor, count)
           /\ GrownDelay(base, factor, 1) = GrownDelay(base, factor, 0)
           /\ GrownDelay(base, factor, 0) = base
<1> DEFINE P == CHOOSE p : Powers(p, factor)
<1>1. Powers(P, factor)
  BY PowersExist
<1>2. \A c \in Nat : GrownDelay(base, factor, c) = base * P[IF c = 0 THEN 0 ELSE c - 1]
  BY DEF GrownDelay, Powers
<1> HIDE DEF P
<1>3. P[0] = 1 /\ \A n \in Nat : P[n] \in Nat /\ P[n + 1] >= P[n]
  BY <1>1, PowersGrow
<1>4. \A p, q \in Nat : q >= p => base * q >= base * p /\ base * p \in Nat
  OBVIOUS
<1>5. GrownDelay(base, factor, 0) = base /\ GrownDelay(base, factor, 1) = base
  BY <1>2, <1>3
<1>6. CASE count = 0
  BY <1>5, <1>6
<1>7. CASE count # 0
  <2>1. count - 1 \in Nat /\ (count + 1) - 1 = (count - 1) + 1 /\ count + 1 # 0
    BY <1>7
  <2>2. P[count - 1] \in Nat /\ P[(count - 1) + 1] \in Nat
        /\ P[(count - 1) + 1] >= P[count - 1]
    BY <1>3, <2>1
  <2>3. /\ GrownDelay(base, factor, count) = base * P[count - 1]
        /\ GrownDelay(base, factor, count + 1) = base * P[(count - 1) + 1]
    BY <1>2, <1>7, <2>1
  <2>4. QED  BY <1>4, <1>5, <2>2, <2>3
<1>8. QED  BY <1>6, <1>7

-----------------------------------------------------------------------------
\* What is announced after so many crashes.
Announced(k) == ComputeDelay(policy.delay, policy.factor, policy.cap, k)

\* The last delay announced is that of the crashes crashes.
LoopInv ==
    /\ policy \in Policies /\ crashes \in Nat /\ delay \in Nat
    /\ phase \in {"young", "stable", "waiting", "over"}
    /\ phase # "over" => delay = 0 \/ delay = Announced(crashes)

\* One crash more announces no shorter delay, and none past the cap; the first one announces
\* the base delay.
LEMMA AnnouncedGrows ==
    ASSUME IsPolicy(policy), NEW k \in Nat
    PROVE  /\ Announced(k) \in Nat /\ Announced(k) <= policy.cap
           /\ Announced(k + 1) >= Announced(k) /\ Announced(1) = Announced(0)
<1> DEFINE G(n) == GrownDelay(policy.delay, policy.factor, n)
<1>1. G(k) \in Nat /\ G(k + 1) \in Nat /\ G(k + 1) >= G(k) /\ G(1) = G(0)
  <2>1. policy.delay \in Nat /\ policy.factor \in Nat \ {0} /\ k + 1 \in Nat
    BY DEF IsPolicy
  <2>2. \A b \in Nat, f \in Nat \ {0}, n \in Nat :
           /\ GrownDelay(b, f, n) \in Nat /\ GrownDelay(b, f, n + 1) >= GrownDelay(b, f, n)
           /\ GrownDelay(b, f, 1) = GrownDelay(b, f, 0)
    BY DelayGrows, Zenon
  <2>3. QED  BY <2>1, <2>2, Zenon
<1>2. \A n \in {0, 1, k, k + 1} : Announced(n) = IF G(n) > policy.cap THEN policy.cap ELSE G(n)
  BY DEF Announced, ComputeDelay
<1> HIDE DEF G
<1>3. QED  BY <1>1, <1>2 DEF IsPolicy

\* Each end of the server announces a delay that grows.
LEMMA LoopStep ==
    ASSUME LoopInv, Loop!Next
    PROVE  /\ LoopInv'
           /\ phase' = "waiting" =>
                 /\ delay' <= policy.cap
                 /\ IF phase = "stable" THEN delay' = Announced(0) ELSE delay' >= delay
<1>1. IsPolicy(policy)
  BY PoliciesAssumption DEF LoopInv
<1>2. CASE Loop!BecomesStable \/ Loop!StartsAgain
  <2>1. UNCHANGED <<policy, crashes, delay>> /\ phase' \in {"young", "stable"} /\ phase # "over"
    BY <1>2 DEF Loop!BecomesStable, Loop!StartsAgain
  <2>2. QED  BY <2>1 DEF LoopInv, Announced
<1>3. ASSUME NEW code \in Loop!ExitCodes, Loop!ServerEnds(code)
      PROVE  LoopInv' /\ (phase' = "waiting" =>
                 /\ delay' <= policy.cap
                 /\ IF phase = "stable" THEN delay' = Announced(0) ELSE delay' >= delay)
  <2>1. /\ phase \in {"young", "stable"} /\ policy' = policy
        /\ crashes' = Loop!CrashesAfter(phase = "stable", code)
        /\ \/ phase' = "waiting" /\ delay' = Announced(crashes')
           \/ phase' = "over" /\ delay' = delay
    BY <1>3 DEF Loop!ServerEnds, Announced, Loop!ComputeDelay, ComputeDelay, Loop!GrownDelay, GrownDelay
  <2>2. /\ crashes' \in Nat
        /\ IF phase = "stable" THEN crashes' \in {0, 1} ELSE crashes' \in {crashes, crashes + 1}
    BY <2>1 DEF Loop!CrashesAfter, LoopInv
  <2>3. Announced(crashes') \in Nat /\ Announced(crashes') <= policy.cap
    BY <1>1, <2>2, AnnouncedGrows
  <2>4. CASE phase = "stable"
    <3>1. Announced(crashes') = Announced(0)
      BY <1>1, <2>2, <2>4, AnnouncedGrows
    <3>2. QED  BY <2>1, <2>2, <2>3, <2>4, <3>1 DEF LoopInv, Announced
  <2>5. CASE phase = "young"
    <3>1. Announced(crashes') >= Announced(crashes)
      BY <1>1, <2>2, <2>3, <2>5, AnnouncedGrows DEF LoopInv
    <3>2. QED  BY <2>1, <2>2, <2>3, <2>5, <3>1 DEF LoopInv, Announced
  <2>6. QED  BY <2>1, <2>4, <2>5
<1>4. QED  BY <1>2, <1>3 DEF Loop!Next

\* What Notices does is a step of the restart loop, or leaves it as it is.
LEMMA LoopGoesOn ==
    ASSUME [NoticesNext]_noticesVars
    PROVE  [Loop!Next]_(Loop!vars)
<1> USE DEF loop, Loop!vars, Loop!Next
<1>1. CASE UNCHANGED noticesVars
  BY <1>1 DEF noticesVars
<1>2. CASE StartsAgain \/ BecomesStable
  BY <1>2 DEF StartsAgain, BecomesStable
<1>3. ASSUME NEW code \in ExitCodes, ServerEnds(code) PROVE Loop!Next
  BY <1>3 DEF ServerEnds, ExitCodes, Loop!ExitCodes
<1>4. CASE SaysReady \/ OtherEvent \/ Configures \/ Stops \/ TimesOut
  BY <1>4 DEF SaysReady, OtherEvent, Configures, Stops, TimesOut
<1>5. CASE Notifies
  BY <1>5 DEF Notifies, Takes, Flushes, Loads, Accepts, AcceptsSilently, Refuses, Raises, Breaks
<1>6. QED  BY <1>1, <1>2, <1>3, <1>4, <1>5 DEF NoticesNext

\* From one attempt to the next the delay never shrinks and stays under the cap, and a
\* stable run brings the base delay back, for any policies whose factor is positive.
THEOREM BackoffGrowsCorrect == NoticesSpec => BackoffGrows
<1> DEFINE Grows ==
        phase' = "waiting" =>
          /\ delay' <= policy.cap
          /\ IF phase = "stable"
             THEN delay' = Loop!ComputeDelay(policy.delay, policy.factor, policy.cap, 0)
             ELSE delay' >= delay
<1>1. NoticesInit => LoopInv
  BY DEF NoticesInit, Loop!Init, LoopInv
<1>2. LoopInv /\ [NoticesNext]_noticesVars => LoopInv' /\ [Grows]_(Loop!vars)
  <2> SUFFICES ASSUME LoopInv, [Loop!Next]_(Loop!vars) PROVE LoopInv' /\ [Grows]_(Loop!vars)
    BY LoopGoesOn
  <2>1. CASE Loop!Next
    BY <2>1, LoopStep DEF Announced, Loop!ComputeDelay, ComputeDelay, Loop!GrownDelay, GrownDelay
  <2>2. CASE UNCHANGED Loop!vars
    BY <2>2 DEF LoopInv, Announced, Loop!vars
  <2>3. QED  BY <2>1, <2>2
<1>3. QED  BY <1>1, <1>2, PTL DEF NoticesSpec, BackoffGrows, Loop!BackoffGrows

-----------------------------------------------------------------------------
(***************************************************************************)
(* Notices: where the crash that is followed is, from its publication to   *)
(* its end.                                                                *)
(***************************************************************************)
\* The notifier flushes one batch at a time: what it collected has been taken before it
\* collects again, and a message is counted from its first attempt to its end.
Turns ==
    /\ stage \in {"idle", "load", "send", "over"} => batch = <<>>
    /\ stage \in {"idle", "window", "over"} => sending = <<>>
    /\ IF stage = "send" THEN shown < tries ELSE tries = 0 /\ shown = 0

\* The crash that is followed is published once, and is in the queue as long as it waits there.
AtMostOnce(events) == \A i, j \in DOMAIN events : events[i] = "mine" /\ events[j] = "mine" => i = j

Waits == AtMostOnce(queue) /\ (Contains(queue, "mine") <=> fate = "queued")

\* Once taken, it is in the batch or in the message; that the settings are off is noted.
Noted ==
    /\ fate # "lost"
    /\ fate = "held" => Contains(batch, "mine") \/ Contains(sending, "mine")
    /\ fate \in {"queued", "held"} /\ ~wanted => wasOff

CrashInv == NoticesTypeOK /\ Turns /\ Waits /\ Noted

\* Where it is, until its end.
CrashIsSomewhere ==
    /\ fate \in {"none", "queued", "held", "ended"}
    /\ fate = "queued" => Contains(queue, "mine")
    /\ fate = "held" => Contains(batch, "mine") \/ Contains(sending, "mine")

\* A full queue keeps the end of what it was given.
LEMMA KeptIs ==
    ASSUME NEW events \in Seq(Events)
    PROVE  /\ Kept(events) \in Seq(Events) /\ Len(Kept(events)) <= QueueSize
           /\ AtMostOnce(events) => AtMostOnce(Kept(events))
           /\ Contains(Kept(events), "mine") => Contains(events, "mine")
<1> DEFINE l == Len(events)
           from == IF l > QueueSize THEN l - QueueSize + 1 ELSE 1
<1>1. l \in Nat /\ QueueSize \in Nat \ {0} /\ DOMAIN events = 1 .. l
  BY ChannelAssumption
<1>2. from \in 1 .. l + 1 /\ from \in Nat /\ l - from + 1 <= QueueSize
  BY <1>1
<1>3. Kept(events) = SubSeq(events, from, l)
  BY DEF Kept
<1> HIDE DEF from, l, Events
<1>4. /\ Kept(events) \in Seq(Events) /\ Len(Kept(events)) = l - from + 1
      /\ \A i \in 1 .. l - from + 1 : Kept(events)[i] = events[from + i - 1]
  <2>1. /\ SubSeq(events, from, l) \in Seq(Events)
        /\ Len(SubSeq(events, from, l)) = IF from <= l THEN l - from + 1 ELSE 0
        /\ \A i \in 1 .. l - from + 1 : SubSeq(events, from, l)[i] = events[from + i - 1]
    <3>1. \A i \in from .. l : events[i] \in Events
      BY <1>1, <1>2
    <3>2. QED  BY <1>1, <1>2, <3>1, SubSeqProperties
  <2>2. QED  BY <1>1, <1>2, <1>3, <2>1
<1>5. \A i \in 1 .. l - from + 1 : from + i - 1 \in 1 .. l
  BY <1>1, <1>2
<1>6. DOMAIN Kept(events) = 1 .. l - from + 1
  BY <1>4
<1>7. ASSUME AtMostOnce(events) PROVE AtMostOnce(Kept(events))
  <2>1. ASSUME NEW i \in DOMAIN Kept(events), NEW j \in DOMAIN Kept(events),
               Kept(events)[i] = "mine", Kept(events)[j] = "mine"
        PROVE  i = j
    <3>1. from + i - 1 \in DOMAIN events /\ from + j - 1 \in DOMAIN events
      BY <1>1, <1>5, <1>6, <2>1
    <3>2. events[from + i - 1] = "mine" /\ events[from + j - 1] = "mine"
      BY <1>4, <1>6, <2>1
    <3>3. from + i - 1 = from + j - 1
      BY <1>7, <3>1, <3>2 DEF AtMostOnce
    <3>4. QED  BY <1>1, <1>2, <1>6, <2>1, <3>3
  <2>2. QED  BY <2>1 DEF AtMostOnce
<1>8. ASSUME Contains(Kept(events), "mine") PROVE Contains(events, "mine")
  <2>1. PICK i \in 1 .. l - from + 1 : Kept(events)[i] = "mine"
    BY <1>4, <1>6, <1>8 DEF Contains
  <2>2. from + i - 1 \in 1 .. Len(events) /\ events[from + i - 1] = "mine"
    BY <1>4, <1>5, <2>1 DEF l
  <2>3. QED  BY <2>2 DEF Contains
<1>9. QED  BY <1>1, <1>2, <1>4, <1>7, <1>8

\* Events added to others.
LEMMA AddedIs ==
    ASSUME NEW s \in Seq(Events), NEW t \in Seq(Events), AtMostOnce(s), AtMostOnce(t),
           ~Contains(s, "mine") \/ ~Contains(t, "mine")
    PROVE  /\ s \o t \in Seq(Events) /\ AtMostOnce(s \o t)
           /\ Contains(s \o t, "mine") => Contains(s, "mine") \/ Contains(t, "mine")
<1>1. /\ Len(s) \in Nat /\ Len(t) \in Nat /\ DOMAIN s = 1 .. Len(s) /\ DOMAIN t = 1 .. Len(t)
      /\ s \o t \in Seq(Events) /\ DOMAIN (s \o t) = 1 .. Len(s) + Len(t)
      /\ \A i \in 1 .. Len(s) + Len(t) : (s \o t)[i] = IF i <= Len(s) THEN s[i] ELSE t[i - Len(s)]
  <2> HIDE DEF Events
  <2>1. QED  OBVIOUS
<1>2. \A i \in DOMAIN (s \o t) :
         (s \o t)[i] = "mine" => \/ i \in 1 .. Len(s) /\ s[i] = "mine"
                                 \/ i - Len(s) \in 1 .. Len(t) /\ t[i - Len(s)] = "mine" /\ i > Len(s)
  BY <1>1
<1>3. AtMostOnce(s \o t)
  <2>1. ASSUME NEW i \in DOMAIN (s \o t), NEW j \in DOMAIN (s \o t),
               (s \o t)[i] = "mine", (s \o t)[j] = "mine"
        PROVE  i = j
    <3>1. CASE ~Contains(s, "mine")
      <4>1. i - Len(s) \in DOMAIN t /\ j - Len(s) \in DOMAIN t /\ t[i - Len(s)] = "mine" /\ t[j - Len(s)] = "mine"
        BY <1>1, <1>2, <2>1, <3>1 DEF Contains
      <4>2. i - Len(s) = j - Len(s)
        BY <4>1 DEF AtMostOnce
      <4>3. QED  BY <1>1, <4>2
    <3>2. CASE ~Contains(t, "mine")
      <4>1. i \in DOMAIN s /\ j \in DOMAIN s /\ s[i] = "mine" /\ s[j] = "mine"
        BY <1>1, <1>2, <2>1, <3>2 DEF Contains
      <4>2. QED  BY <4>1 DEF AtMostOnce
    <3>3. QED  BY <3>1, <3>2
  <2>2. QED  BY <2>1 DEF AtMostOnce
<1>4. Contains(s \o t, "mine") => Contains(s, "mine") \/ Contains(t, "mine")
  BY <1>1, <1>2 DEF Contains
<1>5. QED  BY <1>1, <1>3, <1>4

\* What is published is in the queue, or the crash that was there has ended.
LEMMA PublishesEffect ==
    ASSUME CrashInv, NEW events \in Seq(Events), Publishes(events), AtMostOnce(events),
           Contains(events, "mine") => fate = "none", settings' = settings
    PROVE  /\ queue' \in Seq(Events) /\ Len(queue') <= QueueSize
           /\ AtMostOnce(queue') /\ (Contains(queue', "mine") <=> fate' = "queued")
           /\ fate' \in {"none", "queued", "held", "ended"} /\ wasOff' \in BOOLEAN
           /\ fate' = "held" => fate = "held"
           /\ fate' \in {"queued", "held"} /\ ~wanted' => wasOff'
<1> DEFINE mine == fate = "queued" \/ Contains(events, "mine")
<1>1. /\ queue \in Seq(Events) /\ AtMostOnce(queue) /\ (Contains(queue, "mine") <=> fate = "queued")
      /\ Len(queue) <= QueueSize
      /\ fate \in {"none", "queued", "held", "ended"} /\ wasOff \in BOOLEAN
      /\ (fate \in {"queued", "held"} /\ ~wanted => wasOff)
  BY DEF CrashInv, NoticesTypeOK, Waits, Noted
<1>2. wanted' = wanted /\ wanted \in BOOLEAN
  BY DEF wanted, CrashInv, NoticesTypeOK
<1>3. ~Contains(queue, "mine") \/ ~Contains(events, "mine")
  BY <1>1
<1>4. /\ queue' \in Seq(Events) /\ Len(queue') <= QueueSize /\ AtMostOnce(queue')
      /\ Contains(queue', "mine") => mine
  <2>1. /\ queue \o events \in Seq(Events) /\ AtMostOnce(queue \o events)
        /\ Contains(queue \o events, "mine") => Contains(queue, "mine") \/ Contains(events, "mine")
    BY <1>1, <1>3, AddedIs
  <2>2. queue' = queue \/ queue' = Kept(queue \o events)
    BY DEF Publishes
  <2>3. CASE queue' = queue
    BY <1>1, <2>3
  <2>4. CASE queue' = Kept(queue \o events)
    <3>1. \A s \in Seq(Events) :
             /\ Kept(s) \in Seq(Events) /\ Len(Kept(s)) <= QueueSize
             /\ AtMostOnce(s) => AtMostOnce(Kept(s))
             /\ Contains(Kept(s), "mine") => Contains(s, "mine")
      BY KeptIs
    <3>2. /\ Kept(queue \o events) \in Seq(Events) /\ Len(Kept(queue \o events)) <= QueueSize
          /\ AtMostOnce(Kept(queue \o events))
          /\ Contains(Kept(queue \o events), "mine") => Contains(queue \o events, "mine")
      BY <2>1, <3>1
    <3>3. QED  BY <1>1, <2>1, <2>4, <3>2
  <2>5. QED  BY <2>2, <2>3, <2>4
<1>5. CASE mine /\ ~Contains(queue', "mine")
  <2>1. EndsAs("evicted")
    BY <1>5 DEF Publishes
  <2>2. fate' = "ended" /\ wasOff' = FALSE
    BY <2>1 DEF EndsAs
  <2>3. QED  BY <1>4, <1>5, <2>2
<1>6. CASE ~(mine /\ ~Contains(queue', "mine"))
  <2>1. /\ fate' = IF mine THEN "queued" ELSE fate
        /\ wasOff' = IF Contains(events, "mine") THEN ~wanted ELSE wasOff
    BY <1>6 DEF Publishes
  <2>2. QED  BY <1>1, <1>2, <1>4, <1>6, <2>1
<1>7. QED  BY <1>5, <1>6

\* A server that ends publishes the crash that is followed once, if it was not before.
LEMMA EndsPublish ==
    ASSUME NEW code \in ExitCodes, ServerEnds(code)
    PROVE  \E events \in Seq(Events) :
              Publishes(events) /\ AtMostOnce(events) /\ (Contains(events, "mine") => fate = "none")
<1>1. PICK crash \in {"crash", "mine"} :
         /\ crash = "mine" => code # "ok" /\ fate = "none"
         /\ Publishes((IF code = "ok" THEN <<"OFFLINE">> ELSE <<"CRASHED", crash>>)
                      \o (IF phase' = "waiting" THEN <<"restart">> ELSE <<>>))
  BY Zenon DEF ServerEnds
<1> DEFINE s == IF code = "ok" THEN <<"OFFLINE">> ELSE <<"CRASHED", crash>>
           t == IF phase' = "waiting" THEN <<"restart">> ELSE <<>>
<1>2. s \in Seq(Events) /\ t \in Seq(Events)
  <2>1. {"OFFLINE", "CRASHED", "restart", "crash", "mine"} \subseteq Events
    BY DEF Events, States
  <2> HIDE DEF Events
  <2>2. <<"OFFLINE">> \in Seq(Events) /\ <<"CRASHED", crash>> \in Seq(Events)
    BY <2>1
  <2>3. <<"restart">> \in Seq(Events) /\ <<>> \in Seq(Events)
    BY <2>1
  <2>4. QED  BY <2>2, <2>3
<1>3. ~Contains(t, "mine") /\ AtMostOnce(t)
  BY DEF Contains, AtMostOnce
<1>4. AtMostOnce(s) /\ (Contains(s, "mine") => fate = "none")
  <2>1. CASE code = "ok"
    BY <2>1 DEF Contains, AtMostOnce
  <2>2. CASE code # "ok"
    <3>1. Len(s) = 2 /\ DOMAIN s = 1 .. 2 /\ s[1] = "CRASHED" /\ s[2] = crash
      BY <2>2
    <3> HIDE DEF s
    <3>2. QED  BY <1>1, <3>1 DEF Contains, AtMostOnce
  <2>3. QED  BY <2>1, <2>2
<1> HIDE DEF s, t
<1>5. s \o t \in Seq(Events) /\ AtMostOnce(s \o t) /\ (Contains(s \o t, "mine") => fate = "none")
  BY <1>2, <1>3, <1>4, AddedIs
<1>6. Publishes(s \o t)
  BY <1>1 DEF s, t
<1>7. QED  BY <1>5, <1>6

\* A fact that is followed stays where it is, or its crash ends for a reason.
LEMMA EndsKnown ==
    ASSUME CrashInv, NEW end, MineEnds(end), settings' = settings, stopping' = stopping,
           end # "cut", end = "unwanted" => ~Mine \/ ~wanted
    PROVE  /\ fate' \in {"none", "queued", "held", "ended"} /\ wasOff' \in BOOLEAN
           /\ fate' = IF Mine THEN "ended" ELSE fate
           /\ fate' \in {"queued", "held"} /\ ~wanted' => wasOff'
<1>1. /\ fate \in {"none", "queued", "held", "ended"} /\ wasOff \in BOOLEAN
      /\ (fate \in {"queued", "held"} /\ ~wanted => wasOff) /\ wanted' = wanted
  BY DEF CrashInv, NoticesTypeOK, Noted, wanted
<1>2. CASE Mine
  <2>1. EndsAs(end) /\ fate = "held"
    BY <1>2 DEF MineEnds, Mine
  <2>2. fate' = "ended" /\ wasOff' = FALSE
    BY <1>1, <1>2, <2>1 DEF EndsAs
  <2>3. QED  BY <1>2, <2>2
<1>3. CASE ~Mine
  BY <1>1, <1>3 DEF MineEnds, followed
<1>4. QED  BY <1>2, <1>3

\* The end of a flush.
LEMMA FlushEnds ==
    ASSUME CrashInv, NEW end, Ended, MineEnds(end), UNCHANGED <<queue, batch, settings, stopping>>,
           stage \in {"load", "send"}, end # "cut", end = "unwanted" => ~Mine \/ ~wanted
    PROVE  CrashInv'
<1>1. /\ fate' \in {"none", "queued", "held", "ended"} /\ wasOff' \in BOOLEAN
      /\ fate' = IF Mine THEN "ended" ELSE fate
      /\ fate' \in {"queued", "held"} /\ ~wanted' => wasOff'
  BY EndsKnown
<1>2. batch' = <<>> /\ sending' = <<>> /\ tries' = 0 /\ shown' = 0 /\ stage' \in {"idle", "over"}
  BY DEF Ended, CrashInv, Turns
<1>3. NoticesTypeOK'
  <2>1. sending' \in Seq(Facts) /\ Len(sending') <= 1
    BY <1>2
  <2>2. 0 \in 0 .. MaxAttempts
    BY ChannelAssumption
  <2>3. QED  BY <1>1, <1>2, <2>1, <2>2 DEF CrashInv, NoticesTypeOK
<1>4. Turns'
  BY <1>2 DEF Turns
<1>5. Waits'
  <2>1. fate' = "queued" <=> fate = "queued"
    BY <1>1 DEF Mine
  <2>2. QED  BY <2>1 DEF CrashInv, Waits
<1>6. Noted'
  <2>1. fate' # "held"
    <3>1. ~Contains(batch, "mine")
      BY <1>2 DEF Contains
    <3>2. fate = "held" => Mine
      BY <3>1 DEF CrashInv, Noted, Mine
    <3>3. QED  BY <1>1, <3>2
  <2>2. QED  BY <1>1, <2>1 DEF Noted
<1>7. QED  BY <1>3, <1>4, <1>5, <1>6 DEF CrashInv

\* An event that is published disturbs nothing else.
LEMMA PublishedKeeps ==
    ASSUME CrashInv, NEW events \in Seq(Events), Publishes(events), AtMostOnce(events),
           Contains(events, "mine") => fate = "none",
           UNCHANGED <<batch, sending, stage, tries, settings, shown>>,
           stopping' \in {"no", "asked", "cancelled"}
    PROVE  CrashInv'
<1>1. /\ queue' \in Seq(Events) /\ Len(queue') <= QueueSize
      /\ AtMostOnce(queue') /\ (Contains(queue', "mine") <=> fate' = "queued")
      /\ fate' \in {"none", "queued", "held", "ended"} /\ wasOff' \in BOOLEAN
      /\ fate' = "held" => fate = "held"
      /\ fate' \in {"queued", "held"} /\ ~wanted' => wasOff'
  BY PublishesEffect
<1>2. NoticesTypeOK'
  BY <1>1 DEF CrashInv, NoticesTypeOK
<1>3. Turns'
  BY DEF CrashInv, Turns
<1>4. Waits'
  BY <1>1 DEF Waits
<1>5. Noted'
  BY <1>1 DEF CrashInv, Noted
<1>6. QED  BY <1>2, <1>3, <1>4, <1>5 DEF CrashInv

\* An event that is not the followed crash.
LEMMA OneEvent ==
    ASSUME NEW e \in Events \ {"mine"}
    PROVE  /\ <<e>> \in Seq(Events) /\ AtMostOnce(<<e>>)
           /\ Contains(<<e>>, "mine") => fate = "none"
<1>1. <<e>> \in Seq(Events) /\ DOMAIN <<e>> = {1} /\ <<e>>[1] = e /\ Len(<<e>>) = 1
  <2> HIDE DEF Events
  <2>1. QED  OBVIOUS
<1>2. QED  BY <1>1 DEF AtMostOnce, Contains

\* The first of a queue is taken, the others stay.
LEMMA TakenIs ==
    ASSUME CrashInv, queue # <<>>
    PROVE  /\ Tail(queue) \in Seq(Events) /\ Len(Tail(queue)) <= QueueSize
           /\ Head(queue) \in Events
           /\ AtMostOnce(Tail(queue))
           /\ Contains(Tail(queue), "mine") <=> fate = "queued" /\ Head(queue) # "mine"
           /\ Head(queue) = "mine" => fate = "queued"
<1> DEFINE l == Len(queue)
<1>1. /\ queue \in Seq(Events) /\ l <= QueueSize /\ AtMostOnce(queue)
      /\ (Contains(queue, "mine") <=> fate = "queued") /\ QueueSize \in Nat
  BY ChannelAssumption DEF CrashInv, NoticesTypeOK, Waits
<1>2. /\ l \in Nat \ {0} /\ DOMAIN queue = 1 .. l /\ Head(queue) = queue[1] /\ queue[1] \in Events
      /\ Tail(queue) \in Seq(Events) /\ Len(Tail(queue)) = l - 1
      /\ \A i \in 1 .. l - 1 : Tail(queue)[i] = queue[i + 1]
  <2> HIDE DEF Events
  <2>1. QED  BY <1>1
<1> HIDE DEF l
<1>3. DOMAIN Tail(queue) = 1 .. l - 1
  BY <1>2
<1>4. AtMostOnce(Tail(queue))
  <2>1. ASSUME NEW i \in 1 .. l - 1, NEW j \in 1 .. l - 1, queue[i + 1] = "mine", queue[j + 1] = "mine"
        PROVE  i = j
    <3>1. i + 1 \in DOMAIN queue /\ j + 1 \in DOMAIN queue
      BY <1>2
    <3>2. i + 1 = j + 1
      BY <1>1, <2>1, <3>1 DEF AtMostOnce
    <3>3. QED  BY <3>2
  <2>2. QED  BY <1>2, <1>3, <2>1 DEF AtMostOnce
<1>5. Contains(queue, "mine") <=> \E i \in 1 .. l : queue[i] = "mine"
  BY DEF Contains, l
<1>6. Contains(Tail(queue), "mine") <=> \E i \in 1 .. l - 1 : queue[i + 1] = "mine"
  BY <1>2 DEF Contains
<1>7. 1 \in 1 .. l /\ (\A i \in 1 .. l - 1 : i + 1 \in 1 .. l /\ i + 1 # 1)
      /\ (\A i \in 1 .. l : i = 1 \/ (i - 1 \in 1 .. l - 1 /\ i = (i - 1) + 1))
  BY <1>2
<1>8. Contains(Tail(queue), "mine") => Contains(queue, "mine") /\ Head(queue) # "mine"
  <2>1. ASSUME NEW i \in 1 .. l - 1, queue[i + 1] = "mine" PROVE Contains(queue, "mine") /\ queue[1] # "mine"
    BY <1>1, <1>2, <1>5, <1>7, <2>1 DEF AtMostOnce
  <2>2. QED  BY <1>2, <1>6, <2>1
<1>9. Contains(queue, "mine") /\ Head(queue) # "mine" => Contains(Tail(queue), "mine")
  <2>1. ASSUME NEW i \in 1 .. l, queue[i] = "mine", queue[1] # "mine" PROVE Contains(Tail(queue), "mine")
    <3>1. i - 1 \in 1 .. l - 1 /\ queue[(i - 1) + 1] = "mine"
      BY <1>7, <2>1
    <3>2. QED  BY <1>6, <3>1
  <2>2. QED  BY <1>2, <1>5, <2>1
<1>10. Head(queue) = "mine" => fate = "queued"
  BY <1>1, <1>2, <1>5, <1>7
<1>11. Len(Tail(queue)) <= QueueSize
  BY <1>1, <1>2
<1>12. QED  BY <1>1, <1>2, <1>4, <1>8, <1>9, <1>10, <1>11

\* What a fact is made of.
LEMMA FactIs ==
    ASSUME NEW e \in Events
    PROVE  /\ FactOf(e) \in Seq(Facts) /\ Len(FactOf(e)) <= 1
           /\ e = "mine" => Contains(FactOf(e), "mine")
           /\ <<>> \o FactOf(e) = FactOf(e)
<1>1. CASE e \in {"crash", "mine", "restart"}
  <2>1. FactOf(e) = <<e>> /\ e \in Facts
    BY <1>1 DEF FactOf, Facts
  <2> HIDE DEF Facts
  <2>2. <<e>> \in Seq(Facts) /\ Len(<<e>>) = 1 /\ <<>> \o <<e>> = <<e>> /\ <<e>>[1] = e
    BY <2>1
  <2>3. Contains(<<e>>, e)
    BY <2>2 DEF Contains
  <2>4. QED  BY <2>1, <2>2, <2>3
<1>2. CASE e \notin {"crash", "mine", "restart"}
  <2>1. FactOf(e) \in {<<"started">>, <<"stopped">>, <<>>}
    <3>1. CASE e = "ONLINE" /\ seen = "STARTING"
      BY <1>2, <3>1, Zenon DEF FactOf
    <3>2. CASE e = "OFFLINE" /\ seen = "ONLINE" /\ ~(e = "ONLINE" /\ seen = "STARTING")
      BY <1>2, <3>2, Zenon DEF FactOf
    <3>3. CASE ~(e = "OFFLINE" /\ seen = "ONLINE") /\ ~(e = "ONLINE" /\ seen = "STARTING")
      BY <1>2, <3>3, Zenon DEF FactOf
    <3>4. QED  BY <3>1, <3>2, <3>3
  <2>2. "started" \in Facts /\ "stopped" \in Facts
    BY DEF Facts
  <2> HIDE DEF Facts
  <2>3. \A f \in {<<"started">>, <<"stopped">>, <<>>} : f \in Seq(Facts) /\ Len(f) <= 1 /\ <<>> \o f = f
    <3>1. \A x \in Facts : <<x>> \in Seq(Facts) /\ Len(<<x>>) <= 1 /\ <<>> \o <<x>> = <<x>>
      OBVIOUS
    <3>2. <<>> \in Seq(Facts) /\ Len(<<>>) <= 1 /\ <<>> \o <<>> = <<>>
      OBVIOUS
    <3>3. QED  BY <2>2, <3>1, <3>2
  <2>4. QED  BY <1>2, <2>1, <2>3
<1>3. QED  BY <1>1, <1>2

\* The loop takes an event.
LEMMA TakesKeeps ==
    ASSUME CrashInv, Takes
    PROVE  CrashInv'
<1> DEFINE e == Head(queue)
<1>1. /\ queue' \in Seq(Events) /\ Len(queue') <= QueueSize /\ e \in Events /\ AtMostOnce(queue')
      /\ (Contains(queue', "mine") <=> fate = "queued" /\ e # "mine")
      /\ e = "mine" => fate = "queued"
  BY TakenIs DEF Takes
<1>2. /\ stage = "idle" /\ batch = <<>> /\ sending = <<>> /\ tries = 0 /\ shown = 0
  BY DEF Takes, CrashInv, Turns
<1>3. /\ batch' = FactOf(e) /\ batch' \in Seq(Facts) /\ Len(batch') <= 1
      /\ (e = "mine" => Contains(batch', "mine"))
  <2>1. batch' = <<>> \o FactOf(e)
    BY <1>2 DEF Takes
  <2>2. QED  BY <1>1, <2>1, FactIs
<1>4. /\ stage' = (IF batch' = <<>> THEN "idle" ELSE "window")
      /\ fate' = (IF e = "mine" THEN "held" ELSE fate)
      /\ UNCHANGED <<sending, tries, stopping, settings, wasOff, shown>>
  BY DEF Takes
<1> HIDE DEF e
<1>5. NoticesTypeOK'
  BY <1>1, <1>2, <1>3, <1>4 DEF CrashInv, NoticesTypeOK
<1>6. Turns'
  BY <1>2, <1>4 DEF Turns
<1>7. Waits'
  BY <1>1, <1>4 DEF Waits
<1>8. Noted'
  <2>1. fate' # "lost" /\ (fate' \in {"queued", "held"} /\ ~wanted' => wasOff')
    BY <1>1, <1>4 DEF CrashInv, Noted, wanted
  <2>2. fate' = "held" => Contains(batch', "mine") \/ Contains(sending', "mine")
    <3>1. ~Contains(batch, "mine")
      BY <1>2 DEF Contains
    <3>2. QED  BY <1>3, <1>4, <3>1 DEF CrashInv, Noted
  <2>3. QED  BY <2>1, <2>2 DEF Noted
<1>9. QED  BY <1>5, <1>6, <1>7, <1>8 DEF CrashInv

\* What was collected becomes the message, now or when the stop has waited too long.
LEMMA FlushesKeeps ==
    ASSUME CrashInv, stage = "window", stage' = "load", sending' = batch, batch' = <<>>,
           UNCHANGED <<queue, tries, settings, shown, followed>>,
           stopping' \in {"no", "asked", "cancelled"}
    PROVE  CrashInv'
<1>1. NoticesTypeOK'
  BY DEF CrashInv, NoticesTypeOK, followed
<1>2. Turns'
  BY DEF CrashInv, Turns
<1>3. Waits'
  BY DEF CrashInv, Waits, followed
<1>4. Noted'
  <2>1. ~Contains(sending, "mine")
    BY DEF CrashInv, Turns, Contains
  <2>2. QED  BY <2>1 DEF CrashInv, Noted, followed, wanted
<1>5. QED  BY <1>1, <1>2, <1>3, <1>4 DEF CrashInv

\* A message that tells of the followed crash is one the channel is told.
LEMMA RetainedIs ==
    ASSUME CrashInv
    PROVE  Mine => Retained(sending) = sending /\ sending # <<>>
<1> SUFFICES ASSUME Mine PROVE Retained(sending) = sending /\ sending # <<>>
  OBVIOUS
<1>1. sending \in Seq(Facts) /\ Len(sending) <= 1 /\ \E i \in 1 .. Len(sending) : sending[i] = "mine"
  BY DEF CrashInv, NoticesTypeOK, Mine, Contains
<1>2. sending # <<>> /\ Head(sending) = "mine"
  BY <1>1
<1>3. QED  BY <1>2, ChannelAssumption DEF Retained

LEMMA LoadsKeeps ==
    ASSUME CrashInv, Loads
    PROVE  CrashInv'
<1>1. /\ stage = "load" /\ UNCHANGED <<queue, batch, stopping, settings>>
  BY DEF Loads
<1>2. CASE /\ wanted /\ Retained(sending) # <<>>
           /\ stage' = "send" /\ tries' = 1
           /\ sending' = Retained(sending)
           /\ UNCHANGED <<followed, shown, silent>>
  <2>1. sending' = sending
    BY <1>2 DEF Retained
  <2>2. batch' = <<>> /\ shown = 0
    BY <1>1 DEF CrashInv, Turns
  <2>3. 1 \in 0 .. MaxAttempts
    BY ChannelAssumption
  <2>4. NoticesTypeOK'
    BY <1>1, <1>2, <2>1, <2>3 DEF CrashInv, NoticesTypeOK, followed
  <2>5. Turns'
    BY <1>2, <2>2 DEF Turns
  <2>6. Waits'
    BY <1>1, <1>2 DEF CrashInv, Waits, followed
  <2>7. Noted'
    BY <1>1, <1>2, <2>1 DEF CrashInv, Noted, followed, wanted
  <2>8. QED  BY <2>4, <2>5, <2>6, <2>7 DEF CrashInv
<1>3. CASE (~wanted \/ Retained(sending) = <<>>) /\ Ended /\ MineEnds("unwanted")
  <2>1. ~Mine \/ ~wanted
    BY <1>3, RetainedIs
  <2>2. QED  BY <1>1, <1>3, <2>1, FlushEnds
<1>4. CASE Ended /\ MineEnds("unreadable")
  BY <1>1, <1>4, FlushEnds
<1>5. QED  BY <1>2, <1>3, <1>4, Zenon DEF Loads

\* One more attempt.
LEMMA AttemptKeeps ==
    ASSUME CrashInv, stage = "send", tries < MaxAttempts, tries' = tries + 1,
           shown' \in {shown, shown + 1},
           UNCHANGED <<stage, sending, followed, queue, batch, stopping, settings>>
    PROVE  CrashInv'
<1>1. tries \in 0 .. MaxAttempts /\ shown \in 0 .. MaxAttempts /\ shown < tries /\ MaxAttempts \in Nat
  BY ChannelAssumption DEF CrashInv, NoticesTypeOK, Turns
<1>2. tries' \in 0 .. MaxAttempts /\ shown' \in 0 .. MaxAttempts /\ shown' < tries'
  BY <1>1
<1>3. NoticesTypeOK'
  BY <1>2 DEF CrashInv, NoticesTypeOK, followed
<1>4. Turns'
  BY <1>2 DEF CrashInv, Turns
<1>5. Waits'
  BY DEF CrashInv, Waits, followed
<1>6. Noted'
  BY DEF CrashInv, Noted, followed, wanted
<1>7. QED  BY <1>3, <1>4, <1>5, <1>6 DEF CrashInv

\* Discord accepts the message, without an answer or not, or refuses it.
LEMMA AnswersKeep ==
    ASSUME CrashInv, Accepts \/ AcceptsSilently \/ Refuses
    PROVE  CrashInv'
<1>1. stage = "send" /\ UNCHANGED <<queue, batch, stopping, settings>>
  BY DEF Accepts, AcceptsSilently, Refuses
<1>2. CASE Accepts
  BY <1>1, <1>2, FlushEnds DEF Accepts
<1>3. CASE AcceptsSilently
  <2>1. CASE tries = MaxAttempts /\ Ended /\ MineEnds("told")
    BY <1>1, <2>1, FlushEnds
  <2>2. CASE /\ tries < MaxAttempts /\ tries' = tries + 1 /\ shown' = shown + 1
             /\ UNCHANGED <<stage, sending, followed>>
    BY <1>1, <2>2, AttemptKeeps
  <2>3. QED  BY <1>3, <2>1, <2>2, Zenon DEF AcceptsSilently
<1>4. CASE Refuses
  <2>1. CASE Ended /\ MineEnds("refused")
    BY <1>1, <2>1, FlushEnds
  <2>2. CASE Again /\ UNCHANGED <<followed, silent>>
    BY <1>1, <2>2, AttemptKeeps DEF Again
  <2>3. QED  BY <1>4, <2>1, <2>2, Zenon DEF Refuses
<1>5. QED  BY <1>2, <1>3, <1>4

\* The settings change: that they are off is noted at once.
LEMMA ConfiguresKeeps ==
    ASSUME CrashInv, Configures
    PROVE  CrashInv'
<1>1. /\ UNCHANGED <<queue, batch, sending, stage, tries, stopping, shown, fate>>
      /\ wasOff' = (fate \in {"queued", "held"} /\ (wasOff \/ ~wanted'))
  BY DEF Configures, notifier
<1>2. settings' \in [enabled : BOOLEAN, address : BOOLEAN]
  <2>1. \A s \in [enabled : BOOLEAN, address : BOOLEAN], c \in {"clear", "address", "enable", "disable"} :
           Applied(s, c) \in [enabled : BOOLEAN, address : BOOLEAN]
    BY DEF Applied
  <2>2. settings \in [enabled : BOOLEAN, address : BOOLEAN]
    BY DEF CrashInv, NoticesTypeOK
  <2>3. QED  BY <2>1, <2>2 DEF Configures
<1>3. wasOff' \in BOOLEAN
  BY <1>1, Zenon
<1>4. NoticesTypeOK'
  BY <1>1, <1>2, <1>3 DEF CrashInv, NoticesTypeOK
<1>5. Turns'
  BY <1>1 DEF CrashInv, Turns
<1>6. Waits'
  BY <1>1 DEF CrashInv, Waits
<1>7. Noted'
  <2>1. fate' # "lost" /\ (fate' = "held" => Contains(batch', "mine") \/ Contains(sending', "mine"))
    BY <1>1 DEF CrashInv, Noted
  <2>2. fate' \in {"queued", "held"} /\ ~wanted' => wasOff'
    BY <1>1, Zenon
  <2>3. QED  BY <2>1, <2>2, Zenon DEF Noted
<1>8. QED  BY <1>4, <1>5, <1>6, <1>7 DEF CrashInv

\* The loop leaves, is cancelled or fails: a crash that waited has ended with it.
LEMMA CutKeeps ==
    ASSUME CrashInv, stopping' \in {"no", "asked", "cancelled"}, queue' = <<>>,
           stage' = "over", sending' = <<>>, tries' = 0, shown' = 0, batch' = batch,
           settings' = settings, batch = <<>>,
           NEW end, end = "raised" \/ (end = "cut" /\ stopping' # "no"),
           IF fate = "queued" \/ Mine THEN EndsAs(end) ELSE UNCHANGED followed,
           fate = "held" => Mine
    PROVE  CrashInv'
<1>1. /\ fate' \in {"none", "ended"} /\ wasOff' \in BOOLEAN
  <2>1. CASE fate = "queued" \/ Mine
    BY <2>1 DEF EndsAs
  <2>2. CASE ~(fate = "queued" \/ Mine)
    BY <2>2 DEF CrashInv, Noted, NoticesTypeOK, followed
  <2>3. QED  BY <2>1, <2>2
<1>2. <<>> \in Seq(Events) /\ <<>> \in Seq(Facts) /\ Len(<<>>) = 0 /\ DOMAIN <<>> = {}
  BY DEF Events, Facts
<1>3. 0 <= QueueSize /\ 0 \in 0 .. MaxAttempts
  BY ChannelAssumption
<1>4. NoticesTypeOK'
  BY <1>1, <1>2, <1>3 DEF CrashInv, NoticesTypeOK
<1>5. Turns'
  BY DEF Turns
<1>6. Waits'
  BY <1>1, <1>2 DEF Waits, AtMostOnce, Contains
<1>7. Noted'
  BY <1>1 DEF Noted
<1>8. QED  BY <1>4, <1>5, <1>6, <1>7 DEF CrashInv

\* The end of the loop: it leaves at an event, the task is cancelled, or an error ends it.
LEMMA StopsKeep ==
    ASSUME CrashInv, Breaks \/ TimesOut \/ Raises
    PROVE  CrashInv'
<1>1. fate = "held" /\ batch = <<>> => Mine
  BY DEF CrashInv, Noted, Contains, Mine
<1>2. CASE Breaks
  <2>1. batch = <<>> /\ sending = <<>> /\ tries = 0 /\ shown = 0
    BY <1>2 DEF Breaks, CrashInv, Turns
  <2>2. fate # "held" /\ ~Mine
    BY <1>1, <2>1 DEF Mine, Contains
  <2>3. /\ stopping' = "asked" /\ queue' = <<>> /\ stage' = "over" /\ sending' = <<>> /\ tries' = 0
        /\ shown' = 0 /\ batch' = batch /\ settings' = settings
        /\ IF fate = "queued" THEN EndsAs("cut") ELSE UNCHANGED followed
    BY <1>2, <2>1 DEF Breaks
  <2>4. IF fate = "queued" \/ Mine THEN EndsAs("cut") ELSE UNCHANGED followed
    BY <2>2, <2>3, Zenon
  <2>5. QED  BY <2>1, <2>2, <2>3, <2>4, CutKeeps
<1>3. CASE TimesOut
  <2>1. /\ stopping' = "cancelled" /\ queue' = <<>> /\ UNCHANGED settings
        /\ stage \in {"window", "load", "send"}
        /\ IF fate = "queued" \/ Mine THEN EndsAs("cut") ELSE UNCHANGED followed
    BY <1>3 DEF TimesOut
  <2>2. CASE stage # "window"
    <3>1. batch = <<>>
      BY <2>1, <2>2 DEF CrashInv, Turns
    <3>2. stage' = "over" /\ sending' = <<>> /\ tries' = 0 /\ shown' = 0 /\ batch' = batch
      BY <1>3, <2>2 DEF TimesOut
    <3>3. QED  BY <1>1, <2>1, <3>1, <3>2, CutKeeps
  <2>3. CASE stage = "window"
    <3>1. sending = <<>> /\ tries = 0 /\ shown = 0
      BY <2>3 DEF CrashInv, Turns
    <3>2. ~Mine
      BY <3>1 DEF Mine, Contains
    <3>3. stage' = "load" /\ sending' = batch /\ batch' = <<>> /\ UNCHANGED <<tries, shown, silent>>
      BY <1>3, <2>3 DEF TimesOut
    <3>4. CASE fate # "queued"
      <4>1. UNCHANGED followed
        BY <2>1, <3>2, <3>4, Zenon
      <4>2. /\ batch \in Seq(Facts) /\ Len(batch) <= 1 /\ tries \in 0 .. MaxAttempts
            /\ shown \in 0 .. MaxAttempts /\ settings \in [enabled : BOOLEAN, address : BOOLEAN]
            /\ fate \in {"none", "held", "ended"} /\ wasOff \in BOOLEAN /\ fate' = fate /\ wasOff' = wasOff
        BY <3>4, <4>1 DEF CrashInv, NoticesTypeOK, Noted, followed
      <4>3. <<>> \in Seq(Events) /\ <<>> \in Seq(Facts) /\ Len(<<>>) = 0 /\ DOMAIN <<>> = {} /\ 0 <= QueueSize
        BY ChannelAssumption
      <4>4. NoticesTypeOK'
        BY <2>1, <3>3, <4>2, <4>3 DEF NoticesTypeOK
      <4>5. Turns'
        BY <3>1, <3>3 DEF Turns
      <4>6. Waits'
        BY <2>1, <4>2, <4>3 DEF Waits, AtMostOnce, Contains
      <4>7. Noted'
        <5>1. ~Contains(sending, "mine")
          BY <3>1 DEF Contains
        <5>2. QED  BY <2>1, <3>3, <4>2, <5>1 DEF CrashInv, Noted, wanted
      <4>8. QED  BY <4>4, <4>5, <4>6, <4>7 DEF CrashInv
    <3>5. CASE fate = "queued"
      <4>1. fate' = "ended" /\ wasOff' = FALSE
        BY <2>1, <3>5 DEF EndsAs
      <4>2. /\ batch \in Seq(Facts) /\ Len(batch) <= 1 /\ tries \in 0 .. MaxAttempts
            /\ shown \in 0 .. MaxAttempts /\ settings \in [enabled : BOOLEAN, address : BOOLEAN]
        BY DEF CrashInv, NoticesTypeOK
      <4>3. <<>> \in Seq(Events) /\ <<>> \in Seq(Facts) /\ Len(<<>>) = 0 /\ DOMAIN <<>> = {} /\ 0 <= QueueSize
        BY ChannelAssumption
      <4>4. NoticesTypeOK'
        <5>1. queue' \in Seq(Events) /\ Len(queue') <= QueueSize
          BY <2>1, <4>3
        <5>2. batch' \in Seq(Facts) /\ sending' \in Seq(Facts) /\ Len(batch') <= 1 /\ Len(sending') <= 1
          BY <3>3, <4>2, <4>3
        <5>3. /\ stage' \in {"idle", "window", "load", "send", "over"}
              /\ stopping' \in {"no", "asked", "cancelled"}
              /\ settings' \in [enabled : BOOLEAN, address : BOOLEAN]
              /\ fate' \in {"none", "queued", "held", "ended", "lost"} /\ wasOff' \in BOOLEAN
              /\ tries' \in 0 .. MaxAttempts /\ shown' \in 0 .. MaxAttempts
          BY <2>1, <3>3, <4>1, <4>2
        <5>4. QED  BY <5>1, <5>2, <5>3 DEF NoticesTypeOK
      <4>5. Turns'
        BY <3>1, <3>3 DEF Turns
      <4>6. Waits'
        BY <2>1, <4>1, <4>3 DEF Waits, AtMostOnce, Contains
      <4>7. Noted'
        BY <4>1 DEF Noted
      <4>8. QED  BY <4>4, <4>5, <4>6, <4>7 DEF CrashInv
    <3>6. QED  BY <3>4, <3>5
  <2>4. QED  BY <2>2, <2>3
<1>4. CASE Raises
  <2>1. batch = <<>> /\ stopping \in {"no", "asked", "cancelled"}
    BY <1>4 DEF Raises, CrashInv, Turns, NoticesTypeOK
  <2>2. /\ stopping' = stopping /\ queue' = <<>> /\ stage' = "over" /\ sending' = <<>> /\ tries' = 0
        /\ shown' = 0 /\ batch' = batch /\ settings' = settings
        /\ IF fate = "queued" \/ Mine THEN EndsAs("raised") ELSE UNCHANGED followed
    BY <1>4 DEF Raises
  <2>3. /\ stopping' \in {"no", "asked", "cancelled"} /\ (fate = "held" => Mine)
        /\ "raised" = "raised" \/ ("raised" = "cut" /\ stopping' # "no")
    BY <1>1, <2>1, <2>2
  <2>4. QED  BY <2>1, <2>2, <2>3, CutKeeps
<1>5. QED  BY <1>2, <1>3, <1>4

\* What publishes: the server, its console, and the stop.
LEMMA PublishersKeep ==
    ASSUME CrashInv,
           \/ StartsAgain \/ SaysReady \/ OtherEvent \/ Stops
           \/ \E code \in ExitCodes : ServerEnds(code)
    PROVE  CrashInv'
<1>1. stopping \in {"no", "asked", "cancelled"}
  BY DEF CrashInv, NoticesTypeOK
<1>2. CASE StartsAgain \/ SaysReady \/ OtherEvent \/ Stops
  <2>1. PICK e \in {"STARTING", "ONLINE", "line", "wake"} : Publishes(<<e>>)
    BY <1>2 DEF StartsAgain, SaysReady, OtherEvent, Stops
  <2>2. /\ UNCHANGED <<batch, sending, stage, tries, settings, shown>>
        /\ stopping' \in {"no", "asked", "cancelled"}
    BY <1>1, <1>2 DEF StartsAgain, SaysReady, OtherEvent, Stops, notifier
  <2>3. e \in Events \ {"mine"}
    BY DEF Events, States
  <2> HIDE DEF Events
  <2>4. <<e>> \in Seq(Events) /\ AtMostOnce(<<e>>) /\ (Contains(<<e>>, "mine") => fate = "none")
    BY <2>3, OneEvent
  <2>5. QED  BY <2>1, <2>2, <2>4, PublishedKeeps
<1>3. CASE \E code \in ExitCodes : ServerEnds(code)
  <2>1. PICK code \in ExitCodes : ServerEnds(code)
    BY <1>3, Zenon
  <2>2. PICK events \in Seq(Events) :
           Publishes(events) /\ AtMostOnce(events) /\ (Contains(events, "mine") => fate = "none")
    BY <2>1, EndsPublish
  <2>3. UNCHANGED <<batch, sending, stage, tries, settings, shown, stopping>>
    BY <2>1 DEF ServerEnds, notifier
  <2>4. QED  BY <1>1, <2>2, <2>3, PublishedKeeps
<1>4. QED  BY <1>2, <1>3

\* Nothing has been published yet.
LEMMA CrashInitial ==
    ASSUME NoticesInit
    PROVE  CrashInv
<1>1. <<>> \in Seq(Events) /\ <<>> \in Seq(Facts) /\ Len(<<>>) = 0 /\ DOMAIN <<>> = {}
      /\ 0 <= QueueSize /\ 0 \in 0 .. MaxAttempts
  BY ChannelAssumption
<1>2. NoticesTypeOK
  <2>1. queue \in Seq(Events) /\ Len(queue) <= QueueSize
    BY <1>1 DEF NoticesInit
  <2>2. batch \in Seq(Facts) /\ sending \in Seq(Facts) /\ Len(batch) <= 1 /\ Len(sending) <= 1
    BY <1>1 DEF NoticesInit
  <2>3. /\ stage \in {"idle", "window", "load", "send", "over"}
        /\ stopping \in {"no", "asked", "cancelled"}
        /\ settings \in [enabled : BOOLEAN, address : BOOLEAN]
        /\ fate \in {"none", "queued", "held", "ended", "lost"} /\ wasOff \in BOOLEAN
        /\ tries \in 0 .. MaxAttempts /\ shown \in 0 .. MaxAttempts
    BY <1>1 DEF NoticesInit
  <2>4. QED  BY <2>1, <2>2, <2>3 DEF NoticesTypeOK
<1>3. Turns /\ Noted
  BY DEF NoticesInit, Turns, Noted
<1>4. Waits
  BY <1>1 DEF NoticesInit, Waits, AtMostOnce, Contains
<1>5. QED  BY <1>2, <1>3, <1>4 DEF CrashInv

LEMMA CrashStep ==
    ASSUME CrashInv, [NoticesNext]_noticesVars
    PROVE  CrashInv'
<1>1. CASE \/ StartsAgain \/ SaysReady \/ OtherEvent \/ Stops
           \/ \E code \in ExitCodes : ServerEnds(code)
  BY <1>1, PublishersKeep
<1>2. CASE BecomesStable \/ UNCHANGED noticesVars
  <2>1. UNCHANGED <<queue, seen, batch, sending, stage, tries, stopping, shown, settings, fate, wasOff>>
    BY <1>2 DEF BecomesStable, noticesVars, notifier, followed
  <2>2. NoticesTypeOK'
    BY <2>1 DEF CrashInv, NoticesTypeOK
  <2>3. Turns'
    BY <2>1 DEF CrashInv, Turns
  <2>4. Waits'
    BY <2>1 DEF CrashInv, Waits
  <2>5. Noted'
    BY <2>1 DEF CrashInv, Noted, wanted
  <2>6. QED  BY <2>2, <2>3, <2>4, <2>5 DEF CrashInv
<1>3. CASE Takes
  BY <1>3, TakesKeeps
<1>4. CASE Flushes
  <2>1. stopping \in {"no", "asked", "cancelled"}
    BY DEF CrashInv, NoticesTypeOK
  <2>2. QED  BY <1>4, <2>1, FlushesKeeps DEF Flushes
<1>5. CASE Loads
  BY <1>5, LoadsKeeps
<1>6. CASE Accepts \/ AcceptsSilently \/ Refuses
  BY <1>6, AnswersKeep
<1>7. CASE Breaks \/ TimesOut \/ Raises
  BY <1>7, StopsKeep
<1>8. CASE Configures
  BY <1>8, ConfiguresKeeps
<1>9. QED
  BY <1>1, <1>2, <1>3, <1>4, <1>5, <1>6, <1>7, <1>8, Zenon DEF NoticesNext, Notifies

\* Every variable keeps its type: an event waits in a queue that is never over its size,
\* and at most one fact is collected, and at most one sent, at a time.
THEOREM NoticesTypeCorrect == NoticesSpec => []NoticesTypeOK
<1>1. NoticesInit => CrashInv
  BY CrashInitial
<1>2. CrashInv /\ [NoticesNext]_noticesVars => CrashInv'
  BY CrashStep
<1>3. CrashInv => NoticesTypeOK
  BY DEF CrashInv
<1>4. QED  BY <1>1, <1>2, <1>3, PTL DEF NoticesSpec

\* A crash that was published is in the queue, in the batch or in the message until it is
\* told, or lost for a reason MSM knows of: the queue was full, Discord refused it, the
\* settings were unreadable or off at some time since it was published, MSM stops, or an
\* error ended the notifier.
THEOREM CrashIsNotLost == NoticesSpec => []CrashIsSomewhere
<1>1. NoticesInit => CrashInv
  BY CrashInitial
<1>2. CrashInv /\ [NoticesNext]_noticesVars => CrashInv'
  BY CrashStep
<1>3. CrashInv => CrashIsSomewhere
  BY DEF CrashInv, Waits, Noted, NoticesTypeOK, CrashIsSomewhere
<1>4. QED  BY <1>1, <1>2, <1>3, PTL DEF NoticesSpec

-----------------------------------------------------------------------------
(***************************************************************************)
(* Players: sums over the players.                                         *)
(***************************************************************************)
Pick(s) == CHOOSE x \in s : TRUE

\* The sums of f over the subsets of S, the way SumFunction computes them.
IsSums(F, f, S) ==
    F = [s \in SUBSET S |-> IF s = {} THEN 0 ELSE f[Pick(s)] + F[s \ {Pick(s)}]]

\* A set that is not empty is one element more than a smaller one.
LEMMA PickOne ==
    ASSUME NEW S, IsFiniteSet(S), NEW s \in SUBSET S, s # {}
    PROVE  /\ Pick(s) \in s /\ Pick(s) \in S /\ s \ {Pick(s)} \in SUBSET S
           /\ Cardinality(s) \in Nat \ {0}
           /\ Cardinality(s \ {Pick(s)}) = Cardinality(s) - 1
<1>1. Pick(s) \in s
  BY DEF Pick
<1>2. IsFiniteSet(s)
  BY FS_Subset
<1>3. Cardinality(s) \in Nat /\ Cardinality(s) # 0
  BY <1>2, FS_CardinalityType, FS_EmptySet
<1>4. Cardinality(s \ {Pick(s)}) = Cardinality(s) - 1
  BY <1>1, <1>2, FS_RemoveElement
<1> HIDE DEF Pick
<1>5. QED  BY <1>1, <1>3, <1>4

\* What holds of the empty set, and of a set when it holds of it without one element, holds
\* of all the subsets of a finite set.
LEMMA SubsetInduction ==
    ASSUME NEW S, IsFiniteSet(S), NEW T, {} \in T,
           \A s \in SUBSET S : s # {} /\ s \ {Pick(s)} \in T => s \in T
    PROVE  SUBSET S \subseteq T
<1> DEFINE K == {n \in Nat : \A s \in SUBSET S : Cardinality(s) = n => s \in T}
<1>1. 0 \in K
  <2>1. \A s \in SUBSET S : Cardinality(s) = 0 => s = {}
    BY FS_Subset, FS_EmptySet
  <2>2. QED  BY <2>1
<1>2. ASSUME NEW n \in K PROVE n + 1 \in K
  <2>1. ASSUME NEW s \in SUBSET S, Cardinality(s) = n + 1 PROVE s \in T
    <3>1. s # {}
      BY <2>1, FS_EmptySet
    <3>2. s \ {Pick(s)} \in SUBSET S /\ Cardinality(s \ {Pick(s)}) = n
      BY <2>1, <3>1, PickOne
    <3>3. QED  BY <3>1, <3>2
  <2>2. QED  BY <2>1
<1>3. K = Nat
  <2> HIDE DEF K
  <2>1. K \subseteq Nat
    BY DEF K
  <2>2. QED  BY <1>1, <1>2, <2>1, Induction
<1>4. \A s \in SUBSET S : Cardinality(s) \in Nat
  BY FS_Subset, FS_CardinalityType
<1>5. QED  BY <1>3, <1>4

\* Such sums exist ...
LEMMA SumsExist ==
    ASSUME NEW S, IsFiniteSet(S), NEW f \in [S -> Int]
    PROVE  \E F : IsSums(F, f, S)
<1> DEFINE Small(n) == {s \in SUBSET S : Cardinality(s) <= n}
           Fits(F, n) ==
              /\ F \in [Small(n) -> Int]
              /\ \A s \in Small(n) : F[s] = IF s = {} THEN 0 ELSE f[Pick(s)] + F[s \ {Pick(s)}]
           K == {n \in Nat : \E F : Fits(F, n)}
<1>1. 0 \in K
  <2>1. \A s \in Small(0) : s = {}
    BY FS_Subset, FS_EmptySet, FS_CardinalityType
  <2>2. Fits([s \in Small(0) |-> 0], 0)
    BY <2>1
  <2>3. QED  BY <2>2
<1>2. ASSUME NEW n \in K PROVE n + 1 \in K
  <2>1. n \in Nat /\ \E F : Fits(F, n)
    OBVIOUS
  <2>2. PICK F : Fits(F, n)
    BY <2>1
  <2> DEFINE G == [s \in Small(n + 1) |->
                      IF s = {} THEN 0 ELSE f[Pick(s)] + F[s \ {Pick(s)}]]
  <2>3. \A s \in Small(n + 1) : s # {} => Pick(s) \in S /\ s \ {Pick(s)} \in Small(n)
    BY <2>1, PickOne
  <2>4. \A s \in Small(n) : s \in Small(n + 1) /\ F[s] = G[s]
    <3>1. \A s \in Small(n) : s \in Small(n + 1)
      BY <2>1, FS_Subset, FS_CardinalityType
    <3>2. QED  BY <2>2, <3>1
  <2>5. G \in [Small(n + 1) -> Int]
    BY <2>2, <2>3
  <2>6. \A s \in Small(n + 1) : G[s] = IF s = {} THEN 0 ELSE f[Pick(s)] + G[s \ {Pick(s)}]
    BY <2>3, <2>4
  <2> HIDE DEF G, Small
  <2>7. Fits(G, n + 1)
    BY <2>5, <2>6
  <2>8. \E H : Fits(H, n + 1)
    BY <2>7, Zenon
  <2>9. QED  BY <2>1, <2>8, SMTT(20)
<1>3. K = Nat
  <2> HIDE DEF K
  <2>1. K \subseteq Nat
    BY DEF K
  <2>2. QED  BY <1>1, <1>2, <2>1, Induction
<1>4. PICK F : Fits(F, Cardinality(S))
  BY <1>3, FS_CardinalityType
<1>5. Small(Cardinality(S)) = SUBSET S
  BY FS_Subset
<1> HIDE DEF Small
<1>6. F = [s \in SUBSET S |-> IF s = {} THEN 0 ELSE f[Pick(s)] + F[s \ {Pick(s)}]]
  BY <1>4, <1>5
<1>7. QED  BY <1>6 DEF IsSums

\* ... and SumFunction is one of them.
SumsOf(F, f, S) ==
    /\ SumFunction(f) = F[S] /\ F[{}] = 0
    /\ \A s \in SUBSET S : F[s] \in Int
    /\ \A s \in SUBSET S : s # {} => F[s] = f[Pick(s)] + F[s \ {Pick(s)}]

\* SumFunction, that of the whole set, follows from those of smaller ones.
LEMMA SumsAre ==
    ASSUME NEW S, IsFiniteSet(S), NEW f \in [S -> Int]
    PROVE  \E F : SumsOf(F, f, S)
<1> DEFINE F == CHOOSE F : IsSums(F, f, S)
<1>1. IsSums(F, f, S)
  BY SumsExist
<1>2. SumFunction(f) = F[S]
  <2>1. DOMAIN f = S
    OBVIOUS
  <2>2. QED
    BY <2>1 DEF SumFunction, SumFunctionOnSet, FoldFunctionOnSet, MapThenFoldSet, IsSums, Pick
<1> HIDE DEF F
<1>3. \A s \in SUBSET S : F[s] = IF s = {} THEN 0 ELSE f[Pick(s)] + F[s \ {Pick(s)}]
  BY <1>1 DEF IsSums
<1>4. \A s \in SUBSET S : F[s] \in Int
  <2> DEFINE T == {s \in SUBSET S : F[s] \in Int}
  <2>1. {} \in T
    <3>1. F[{}] = 0
      BY <1>3, Zenon
    <3>2. QED  BY <3>1
  <2>2. ASSUME NEW s \in SUBSET S, s # {}, s \ {Pick(s)} \in T PROVE s \in T
    <3>1. Pick(s) \in S
      BY <2>2, PickOne, Zenon
    <3>2. f[Pick(s)] \in Int /\ F[s \ {Pick(s)}] \in Int
      BY <2>2, <3>1
    <3>3. F[s] = f[Pick(s)] + F[s \ {Pick(s)}]
      BY <1>3, <2>2, Zenon
    <3>4. F[s] \in Int
      BY <3>2, <3>3
    <3>5. QED  BY <3>4
  <2> HIDE DEF T
  <2>3. SUBSET S \subseteq T
    BY <2>1, <2>2, SubsetInduction
  <2>4. QED  BY <2>3 DEF T
<1>5. F[{}] = 0
  BY <1>3, Zenon
<1>6. SumsOf(F, f, S)
  BY <1>2, <1>3, <1>4, <1>5, Zenon DEF SumsOf
<1>7. QED  BY <1>6, Zenon

\* The sum of differences is the difference of the sums.
LEMMA SumsSubtract ==
    ASSUME NEW S, IsFiniteSet(S), NEW f \in [S -> Int], NEW g \in [S -> Int]
    PROVE  /\ SumFunction([x \in S |-> f[x] - g[x]]) = SumFunction(f) - SumFunction(g)
           /\ SumFunction(f) \in Int
<1> DEFINE d == [x \in S |-> f[x] - g[x]]
<1>1. d \in [S -> Int]
  OBVIOUS
<1>2. \A x \in S : d[x] = f[x] - g[x] /\ f[x] \in Int /\ g[x] \in Int
  OBVIOUS
<1> HIDE DEF d
<1>3. PICK F : SumsOf(F, f, S)
  BY SumsAre, Zenon
<1>4. PICK G : SumsOf(G, g, S)
  BY SumsAre, Zenon
<1>5. PICK D : SumsOf(D, d, S)
  BY <1>1, SumsAre
<1> DEFINE T == {s \in SUBSET S : D[s] = F[s] - G[s]}
<1>6. {} \in T
  BY <1>3, <1>4, <1>5 DEF SumsOf
<1>7. ASSUME NEW s \in SUBSET S, s # {}, s \ {Pick(s)} \in T PROVE s \in T
  <2>1. Pick(s) \in S /\ s \ {Pick(s)} \in SUBSET S
    BY <1>7, PickOne
  <2>2. D[s \ {Pick(s)}] = F[s \ {Pick(s)}] - G[s \ {Pick(s)}]
    BY <1>7
  <2>3. d[Pick(s)] = f[Pick(s)] - g[Pick(s)] /\ f[Pick(s)] \in Int /\ g[Pick(s)] \in Int
    BY <1>2, <2>1
  <2>4. F[s \ {Pick(s)}] \in Int /\ G[s \ {Pick(s)}] \in Int
    BY <1>3, <1>4, <2>1 DEF SumsOf
  <2>5. /\ F[s] = f[Pick(s)] + F[s \ {Pick(s)}] /\ G[s] = g[Pick(s)] + G[s \ {Pick(s)}]
        /\ D[s] = d[Pick(s)] + D[s \ {Pick(s)}]
    BY <1>3, <1>4, <1>5, <1>7, Zenon DEF SumsOf
  <2>6. D[s] = F[s] - G[s]
    BY <2>2, <2>3, <2>4, <2>5
  <2>7. QED  BY <2>6
<1> HIDE DEF T
<1>8. SUBSET S \subseteq T
  BY <1>6, <1>7, SubsetInduction
<1>9. D[S] = F[S] - G[S]
  BY <1>8 DEF T
<1>10. QED  BY <1>3, <1>4, <1>5, <1>9 DEF d, SumsOf

\* What one gives to another changes no sum.
LEMMA SumsMove ==
    ASSUME NEW S, IsFiniteSet(S), NEW f \in [S -> Int], NEW g \in [S -> Int],
           NEW a \in S, NEW b \in S, a # b, NEW k \in Int,
           g[a] = f[a] + k, g[b] = f[b] - k, \A x \in S \ {a, b} : g[x] = f[x]
    PROVE  SumFunction(g) = SumFunction(f)
<1>1. PICK F : SumsOf(F, f, S)
  BY SumsAre, Zenon
<1>2. PICK G : SumsOf(G, g, S)
  BY SumsAre, Zenon
<1> DEFINE Moved(s) == (IF a \in s THEN k ELSE 0) - (IF b \in s THEN k ELSE 0)
           T == {s \in SUBSET S : G[s] = F[s] + Moved(s)}
<1>3. {} \in T
  BY <1>1, <1>2 DEF SumsOf
<1>4. ASSUME NEW s \in SUBSET S, s # {}, s \ {Pick(s)} \in T PROVE s \in T
  <2> DEFINE x == Pick(s)
             r == s \ {x}
  <2>1. x \in S /\ x \in s /\ r \in SUBSET S
    BY <1>4, PickOne
  <2>2. G[r] = F[r] + Moved(r)
    BY <1>4
  <2>3. F[r] \in Int /\ f[x] \in Int /\ g[x] \in Int
    BY <1>1, <2>1 DEF SumsOf
  <2>4. F[s] = f[x] + F[r] /\ G[s] = g[x] + G[r]
    BY <1>1, <1>2, <1>4 DEF SumsOf
  <2>5. g[x] + Moved(r) = f[x] + Moved(s)
    <3> HIDE DEF x
    <3>1. CASE x = a
      BY <2>1, <2>3, <3>1
    <3>2. CASE x = b
      BY <2>1, <2>3, <3>2
    <3>3. CASE x \notin {a, b}
      BY <2>1, <2>3, <3>3
    <3>4. QED  BY <3>1, <3>2, <3>3
  <2>6. Moved(r) \in Int /\ Moved(s) \in Int
    OBVIOUS
  <2> HIDE DEF x, r, Moved
  <2>7. G[s] = F[s] + Moved(s)
    BY <2>2, <2>3, <2>4, <2>5, <2>6
  <2>8. QED  BY <2>7
<1> HIDE DEF T
<1>5. SUBSET S \subseteq T
  BY <1>3, <1>4, SubsetInduction
<1>6. G[S] = F[S]
  <2>1. G[S] = F[S] + Moved(S) /\ Moved(S) = 0
    BY <1>5 DEF T
  <2>2. F[S] \in Int
    BY <1>1 DEF SumsOf
  <2> HIDE DEF Moved
  <2>3. QED  BY <2>1, <2>2
<1>7. QED  BY <1>1, <1>2, <1>6 DEF SumsOf

-----------------------------------------------------------------------------
(***************************************************************************)
(* Players: how many times a line is among others.                         *)
(***************************************************************************)
Places(items, x) == {i \in DOMAIN items : items[i] = x}
Times(items, x) == Cardinality(Places(items, x))

\* It is a number.
LEMMA TimesType ==
    ASSUME NEW E, NEW s \in Seq(E), NEW x
    PROVE  IsFiniteSet(Places(s, x)) /\ Times(s, x) \in Nat
<1>1. DOMAIN s = 1 .. Len(s) /\ Len(s) \in Nat
  OBVIOUS
<1>2. IsFiniteSet(1 .. Len(s))
  BY <1>1, FS_Interval
<1>3. Places(s, x) \in SUBSET (1 .. Len(s))
  BY <1>1 DEF Places
<1>4. IsFiniteSet(Places(s, x))
  BY <1>2, <1>3, FS_Subset
<1>5. QED  BY <1>4, FS_CardinalityType DEF Times

\* It adds up.
LEMMA TimesConcat ==
    ASSUME NEW E, NEW s \in Seq(E), NEW t \in Seq(E), NEW x
    PROVE  Times(s \o t, x) = Times(s, x) + Times(t, x)
<1> DEFINE Moved == {i \in Len(s) + 1 .. Len(s) + Len(t) : t[i - Len(s)] = x}
           f == [i \in Places(t, x) |-> i + Len(s)]
<1>0. /\ Len(s) \in Nat /\ Len(t) \in Nat /\ DOMAIN s = 1 .. Len(s) /\ DOMAIN t = 1 .. Len(t)
      /\ DOMAIN (s \o t) = 1 .. Len(s) + Len(t)
      /\ \A i \in 1 .. Len(s) + Len(t) : (s \o t)[i] = IF i <= Len(s) THEN s[i] ELSE t[i - Len(s)]
  OBVIOUS
<1>1. IsFiniteSet(Places(s, x)) /\ IsFiniteSet(Places(t, x))
  BY TimesType
<1>2. f \in Bijection(Places(t, x), Moved)
  <2>1. f \in [Places(t, x) -> Moved]
    BY <1>0 DEF Places
  <2>2. \A i, j \in Places(t, x) : f[i] = f[j] => i = j
    BY <1>0 DEF Places
  <2>3. \A j \in Moved : \E i \in Places(t, x) : f[i] = j
    <3>1. ASSUME NEW j \in Moved PROVE j - Len(s) \in Places(t, x) /\ f[j - Len(s)] = j
      BY <1>0 DEF Places
    <3>2. QED  BY <3>1
  <2> HIDE DEF f, Moved
  <2>4. QED  BY <2>1, <2>2, <2>3, Fun_IsBij
<1>3. IsFiniteSet(Moved) /\ Cardinality(Moved) = Times(t, x)
  <2> HIDE DEF f, Moved
  <2>1. ExistsBijection(Places(t, x), Moved)
    BY <1>2 DEF ExistsBijection
  <2>2. QED  BY <1>1, <2>1, FS_Bijection DEF Times
<1>4. Places(s \o t, x) = Places(s, x) \cup Moved
  BY <1>0 DEF Places
<1>5. Places(s, x) \cap Moved = {}
  BY <1>0 DEF Places
<1> HIDE DEF Moved
<1>6. Cardinality(Places(s, x) \cap Moved) = 0
  BY <1>5, FS_EmptySet
<1>7. Times(s, x) \in Nat /\ Times(t, x) \in Nat
  BY TimesType
<1>8. Cardinality(Places(s \o t, x)) = Cardinality(Places(s, x)) + Cardinality(Moved) - 0
  BY <1>1, <1>3, <1>4, <1>6, FS_Union
<1>9. QED  BY <1>3, <1>7, <1>8 DEF Times

\* Of no line, and of one.
LEMMA TimesOne ==
    ASSUME NEW x, NEW e
    PROVE  Times(<<>>, x) = 0 /\ Times(<<e>>, x) = IF e = x THEN 1 ELSE 0
<1>1. Places(<<>>, x) = {}
  BY DEF Places
<1>2. Places(<<e>>, x) = IF e = x THEN {1} ELSE {}
  BY DEF Places
<1>3. QED  BY <1>1, <1>2, FS_EmptySet, FS_Singleton DEF Times

\* The first one, and the others.
LEMMA TimesHead ==
    ASSUME NEW E, NEW s \in Seq(E), s # <<>>, NEW x
    PROVE  Times(s, x) = Times(Tail(s), x) + IF Head(s) = x THEN 1 ELSE 0
<1>1. Head(s) \in E /\ Tail(s) \in Seq(E) /\ <<Head(s)>> \in Seq(E) /\ s = <<Head(s)>> \o Tail(s)
  OBVIOUS
<1>2. Times(<<Head(s)>> \o Tail(s), x) = Times(<<Head(s)>>, x) + Times(Tail(s), x)
  BY <1>1, TimesConcat
<1>3. Times(<<Head(s)>>, x) = IF Head(s) = x THEN 1 ELSE 0
  BY TimesOne
<1>4. Times(Tail(s), x) \in Nat
  BY <1>1, TimesType
<1>5. Times(s, x) = Times(<<Head(s)>> \o Tail(s), x)
  BY <1>1, Zenon
<1> HIDE DEF Times
<1>6. QED  BY <1>2, <1>3, <1>4, <1>5

\* What is cut off, and what stays.
LEMMA TimesCut ==
    ASSUME NEW E, NEW s \in Seq(E), NEW n \in 0 .. Len(s), NEW x
    PROVE  /\ SubSeq(s, n + 1, Len(s)) \in Seq(E) /\ SubSeq(s, 1, n) \in Seq(E)
           /\ Times(s, x) = Times(SubSeq(s, 1, n), x) + Times(SubSeq(s, n + 1, Len(s)), x)
<1>1. /\ SubSeq(s, n + 1, Len(s)) \in Seq(E) /\ SubSeq(s, 1, n) \in Seq(E)
      /\ s = SubSeq(s, 1, n) \o SubSeq(s, n + 1, Len(s))
  <2>1. Len(s) \in Nat /\ n \in Nat /\ n <= Len(s) /\ \A i \in 1 .. Len(s) : s[i] \in E
    OBVIOUS
  <2>2. SubSeq(s, n + 1, Len(s)) \in Seq(E) /\ SubSeq(s, 1, n) \in Seq(E)
    BY <2>1, SubSeqProperties
  <2>3. SubSeq(s, 1, n) \o SubSeq(s, n + 1, Len(s)) = SubSeq(s, 1, Len(s))
    <3>1. 1 \in 1 .. Len(s) + 1 /\ n \in 1 - 1 .. Len(s) /\ Len(s) \in n .. Len(s)
      BY <2>1
    <3>2. QED  BY <3>1, ConcatAdjacentSubSeq
  <2>4. QED  BY <2>2, <2>3, SubSeqFull
<1>2. QED  BY <1>1, TimesConcat, ZenonT(40)

-----------------------------------------------------------------------------
(***************************************************************************)
(* Players: types, and what the lines still to be read will make MSM       *)
(* believe.                                                                *)
(***************************************************************************)
Lines == [kind : {"uuid", "logged", "joined", "lost", "left"}, who : Names]
         \cup {Reply("list", names) : names \in SUBSET Names}
         \cup {Reply("like", names) : names \in SUBSET Shown}

Heard == [kind : {"join", "leave"}, who : Names] \cup {Line("other", "nobody")}

PlayersTypeOK ==
    /\ alive \in BOOLEAN /\ link \in {"handle", "adopted", "over", "off"}
    /\ inGame \subseteq Names /\ online \subseteq Shown
    /\ log \in Seq(Lines) /\ late \in Seq(Lines) /\ bus \in Seq(Heard)
    /\ rows \in [Names -> Nat] /\ due \in [Names -> Int]

\* What a line says of a player: it is in, or it is out.  What only looks like an answer
\* says nothing.
Enters(x, n) ==
    \/ x.kind \in {"logged", "joined"} /\ x.who = n
    \/ x.kind = "list" /\ n \in x.names

Quits(x, n) ==
    \/ x.kind \in {"lost", "left"} /\ x.who = n
    \/ x.kind = "list" /\ n \notin x.names

\* Nobody is announced who is already believed to be in, by MSM or by the lines before.
FirstTold(n) ==
    \A k \in DOMAIN log : log[k].kind = "logged" /\ log[k].who = n =>
        /\ n \in online /\ n \notin blurred => \E j \in 1 .. k - 1 : Quits(log[j], n)
        /\ \A i \in 1 .. k - 1 : Enters(log[i], n) => \E j \in i + 1 .. k - 1 : Quits(log[j], n)

\* The second line of an arrival follows the first.
Second(n) ==
    \A k \in DOMAIN log : log[k].kind = "joined" /\ log[k].who = n =>
        IF k = 1 THEN n \in online \/ n \in blurred ELSE log[k - 1].kind = "logged" /\ log[k - 1].who = n

\* The last of the lines that tell of a player, or what MSM believes when there is none, is
\* true; the lines of a server that is over tell nothing.
LastIsTrue(n) ==
    /\ n \notin inGame =>
         /\ n \in online /\ n \notin blurred => \E j \in DOMAIN log : Quits(log[j], n)
         /\ \A i \in DOMAIN log : Enters(log[i], n) => \E j \in DOMAIN log : i < j /\ Quits(log[j], n)
    /\ n \in inGame =>
         /\ n \notin online /\ n \notin blurred => \E j \in DOMAIN log : Enters(log[j], n)
         /\ \A i \in DOMAIN log : Quits(log[i], n) => \E j \in DOMAIN log : i < j /\ Enters(log[j], n)

Belief ==
    /\ \A n \in Names : FirstTold(n) /\ Second(n)
    /\ alive /\ Followed => \A n \in Names : LastIsTrue(n)

\* Whom MSM follows, and how.
Following ==
    /\ ~alive => inGame = {}
    /\ link = "over" => ~alive
    /\ link \in {"over", "off"} => log = <<>>
    /\ link = "off" => late = <<>> /\ online = {}
    /\ link = "over" => online \subseteq blurred
    /\ online \cap Unreadable \subseteq blurred
    /\ link = "adopted" => \A i \in DOMAIN log : log[i].kind # "list"

\* Sessions counted and to be counted, less those due.
Drift == [n \in Names |-> Sessions(n) - due[n]]

Balance ==
    /\ alike = {} => \A n \in Names : Drift[n] = 0
    /\ SumFunction(Drift) = 0

PlayersInv == PlayersTypeOK /\ Following /\ Belief /\ Balance

-----------------------------------------------------------------------------
\* The lines are what they are.
LEMMA LinesAre ==
    /\ \A n \in Names : \A kind \in {"uuid", "logged", "joined", "lost", "left"} : Line(kind, n) \in Lines
    /\ \A kind, names : Reply(kind, names).kind = kind /\ Reply(kind, names).names = names
    /\ \A kind \in {"list", "like"}, names \in SUBSET Shown :
          (kind = "list" => names \subseteq Names) => Reply(kind, names) \in Lines
    /\ \A kind, who : Line(kind, who).kind = kind /\ Line(kind, who).who = who
    /\ \A x \in Lines : \/ /\ x.kind \in {"uuid", "logged", "joined", "lost", "left"} /\ x.who \in Names
                           /\ x = Line(x.kind, x.who)
                        \/ /\ x.kind \in {"list", "like"} /\ x.names \in SUBSET Shown
                           /\ x.kind = "list" => x.names \subseteq Names
    /\ \A n \in Names : \A x \in Lines :
          x = Line("logged", n) <=> x.kind = "logged" /\ x.who = n
<1>1. \A kind, names : Reply(kind, names).kind = kind /\ Reply(kind, names).names = names
  BY DEF Reply
<1>2. \A kind, who : Line(kind, who).kind = kind /\ Line(kind, who).who = who
  BY DEF Line
<1>3. \A n \in Names : \A kind \in {"uuid", "logged", "joined", "lost", "left"} : Line(kind, n) \in Lines
  BY DEF Line, Lines
<1>4. \A kind \in {"list", "like"}, names \in SUBSET Shown :
         (kind = "list" => names \subseteq Names) => Reply(kind, names) \in Lines
  BY DEF Lines
<1>5. ASSUME NEW x \in [kind : {"uuid", "logged", "joined", "lost", "left"}, who : Names]
      PROVE  /\ x.kind \in {"uuid", "logged", "joined", "lost", "left"} /\ x.who \in Names
             /\ x = Line(x.kind, x.who)
  BY DEF Line
<1>6. \A x \in Lines : \/ /\ x.kind \in {"uuid", "logged", "joined", "lost", "left"} /\ x.who \in Names
                          /\ x = Line(x.kind, x.who)
                       \/ /\ x.kind \in {"list", "like"} /\ x.names \in SUBSET Shown
                          /\ x.kind = "list" => x.names \subseteq Names
  BY <1>1, <1>5 DEF Lines, Shown
<1>7. \A n \in Names : \A x \in Lines : x = Line("logged", n) <=> x.kind = "logged" /\ x.who = n
  BY <1>2, <1>6
<1> HIDE DEF Lines
<1>8. QED  BY <1>1, <1>2, <1>3, <1>4, <1>6, <1>7

\* And so are the events.
LEMMA HeardAre ==
    /\ \A n \in Names : Line("join", n) \in Heard /\ Line("leave", n) \in Heard
    /\ Line("other", "nobody") \in Heard
    /\ \A x \in Heard : \/ x.kind \in {"join", "leave"} /\ x.who \in Names /\ x = Line(x.kind, x.who)
                        \/ x.kind = "other"
    /\ \A n \in Names : \A x \in Heard : x = Line("join", n) <=> x.kind = "join" /\ x.who = n
<1>1. \A kind, who : Line(kind, who).kind = kind /\ Line(kind, who).who = who
  BY DEF Line
<1>2. \A n \in Names : Line("join", n) \in Heard /\ Line("leave", n) \in Heard
  BY DEF Line, Heard
<1>3. ASSUME NEW x \in [kind : {"join", "leave"}, who : Names]
      PROVE  x.kind \in {"join", "leave"} /\ x.who \in Names /\ x = Line(x.kind, x.who)
  BY DEF Line
<1>4. \A x \in Heard : \/ x.kind \in {"join", "leave"} /\ x.who \in Names /\ x = Line(x.kind, x.who)
                       \/ x.kind = "other"
  BY <1>1, <1>3 DEF Heard
<1>5. \A n \in Names : \A x \in Heard : x = Line("join", n) <=> x.kind = "join" /\ x.who = n
  BY <1>1, <1>4
<1>6. Line("other", "nobody") \in Heard
  BY DEF Heard
<1> HIDE DEF Heard
<1>7. QED  BY <1>2, <1>4, <1>5, <1>6

\* Counting arrivals.
LEMMA ArrivalsAre ==
    ASSUME NEW items, NEW kind
    PROVE  \A n \in Names : Arrivals(items, kind)[n] = Times(items, Line(kind, n))
BY DEF Arrivals, Times, Places

\* What is published arrives, or is no longer due.
LEMMA AnnouncesEffect ==
    ASSUME PlayersTypeOK, NEW e \in Heard, NEW owed \in [Names -> Int], Announces(e, owed)
    PROVE  /\ bus' \in Seq(Heard) /\ due' \in [Names -> Int]
           /\ \A n \in Names : Times(bus', Line("join", n)) - due'[n] =
                 Times(bus, Line("join", n)) + (IF e = Line("join", n) THEN 1 ELSE 0) - owed[n]
<1> DEFINE full == Append(bus, e)
           over == IF Len(full) > BusSize THEN Len(full) - BusSize ELSE 0
<1>1. bus \in Seq(Heard) /\ owed \in [Names -> Int]
  BY DEF PlayersTypeOK
<1>2. full \in Seq(Heard) /\ full = bus \o <<e>> /\ <<e>> \in Seq(Heard)
  BY <1>1
<1>3. over \in 0 .. Len(full)
  <2>1. BusSize \in Nat /\ Len(full) \in Nat
    BY <1>2, PlayersAssumption
  <2> HIDE DEF full
  <2>2. QED  BY <2>1
<1>4. bus' = SubSeq(full, over + 1, Len(full))
      /\ due' = Less(owed, Arrivals(SubSeq(full, 1, over), "join"))
  BY Zenon DEF Announces
<1> HIDE DEF over
<1>5. ASSUME NEW n \in Names
      PROVE  /\ due'[n] \in Int
             /\ Times(bus', Line("join", n)) - due'[n] =
                  Times(bus, Line("join", n)) + (IF e = Line("join", n) THEN 1 ELSE 0) - owed[n]
  <2> DEFINE x == Line("join", n)
  <2>1. Times(full, x) = Times(bus, x) + Times(<<e>>, x)
    BY <1>1, <1>2, TimesConcat, ZenonT(40)
  <2>2. Times(<<e>>, x) = IF e = x THEN 1 ELSE 0
    BY TimesOne
  <2> HIDE DEF full
  <2>3. /\ Times(full, x) = Times(SubSeq(full, 1, over), x) + Times(bus', x)
        /\ SubSeq(full, 1, over) \in Seq(Heard) /\ bus' \in Seq(Heard)
    <3>1. /\ SubSeq(full, over + 1, Len(full)) \in Seq(Heard) /\ SubSeq(full, 1, over) \in Seq(Heard)
          /\ Times(full, x) = Times(SubSeq(full, 1, over), x) + Times(SubSeq(full, over + 1, Len(full)), x)
      <4> HIDE DEF x
      <4>1. \A s \in Seq(Heard) : \A m \in 0 .. Len(s) :
               /\ SubSeq(s, m + 1, Len(s)) \in Seq(Heard) /\ SubSeq(s, 1, m) \in Seq(Heard)
               /\ Times(s, x) = Times(SubSeq(s, 1, m), x) + Times(SubSeq(s, m + 1, Len(s)), x)
        BY TimesCut
      <4>2. QED  BY <1>2, <1>3, <4>1, Zenon
    <3>2. QED  BY <1>4, <3>1, Zenon
  <2>4. due'[n] = owed[n] - Times(SubSeq(full, 1, over), x)
    BY <1>4, ArrivalsAre DEF Less
  <2>5. /\ Times(bus, x) \in Nat /\ Times(SubSeq(full, 1, over), x) \in Nat
        /\ Times(bus', x) \in Nat /\ owed[n] \in Int
    BY <1>1, <2>3, TimesType
  <2> HIDE DEF x, Times
  <2>6. /\ due'[n] \in Int
        /\ Times(bus', x) - due'[n] = Times(bus, x) + Times(<<e>>, x) - owed[n]
    <3>1. \A all, old, one, cut, new, was, is \in Int :
             all = old + one /\ all = cut + new /\ is = was - cut => new - is = old + one - was
      OBVIOUS
    <3>2. Times(full, x) \in Int /\ Times(<<e>>, x) \in Int /\ due'[n] \in Int
      BY <2>1, <2>2, <2>4, <2>5
    <3>3. QED  BY <2>1, <2>3, <2>4, <2>5, <3>1, <3>2
  <2>7. QED  BY <2>2, <2>6 DEF x
<1>6. bus' \in Seq(Heard)
  BY <1>2, <1>3, <1>4, TimesCut
<1>7. due' \in [Names -> Int]
  <2>1. due' = [n \in Names |-> due'[n]]
    BY <1>4 DEF Less
  <2>2. QED  BY <1>5, <2>1
<1>8. QED  BY <1>5, <1>6, <1>7

-----------------------------------------------------------------------------
\* What the server prints.
Announced1(n) == <<Line("logged", n)>>
Announced2(n) == <<Line("logged", n), Line("joined", n)>>

\* Each action of the server prints one of these.
LEMMA ServerPrints ==
    ASSUME PlayersTypeOK, NEW n \in Names
    PROVE  /\ Knocks(n) => Prints(<<Line("uuid", n)>>)
           /\ Arrives(n) => Prints(Announced1(n)) \/ Prints(Announced2(n))
           /\ Leaves(n) => Prints(Goodbye(n)) \/ Prints(<<Line("lost", n)>>)
           /\ \A lines \in { <<Line("uuid", n)>>, Announced1(n), Announced2(n), Goodbye(n),
                             <<Line("lost", n)>> } :
                 lines \in Seq(Lines) /\ (Prints(lines) => log' \in Seq(Lines))
<1>1. <<Line("logged", n)>> \o <<>> = Announced1(n) /\ <<Line("logged", n)>> \o <<Line("joined", n)>> = Announced2(n)
  <2>1. ASSUME NEW a \in Lines, NEW b \in Lines
        PROVE  <<a>> \o <<>> = <<a>> /\ <<a>> \o <<b>> = <<a, b>>
    <3> HIDE DEF Lines
    <3>1. <<a>> \in Seq(Lines) /\ <<b>> \in Seq(Lines) /\ <<a, b>> \in Seq(Lines)
      OBVIOUS
    <3>2. <<a>> \o <<b>> \in Seq(Lines)
      BY <3>1
    <3>3. Len(<<a>> \o <<b>>) = Len(<<a, b>>)
      BY <3>1
    <3>4. \A i \in 1 .. Len(<<a>> \o <<b>>) : (<<a>> \o <<b>>)[i] = <<a, b>>[i]
      BY <3>1
    <3>5. <<a>> \o <<b>> = <<a, b>>
      BY <3>1, <3>2, <3>3, <3>4, SeqEqual
    <3>6. QED  BY <3>1, <3>5, ConcatEmptySeq
  <2>2. Line("logged", n) \in Lines /\ Line("joined", n) \in Lines
    BY LinesAre
  <2>3. QED  BY <2>1, <2>2, Zenon DEF Announced1, Announced2
<1>2. Arrives(n) => Prints(Announced1(n)) \/ Prints(Announced2(n))
  BY <1>1, Zenon DEF Arrives
<1>3. \A kind \in {"uuid", "logged", "joined", "lost", "left"} : Line(kind, n) \in Lines
  BY LinesAre
<1> HIDE DEF Lines
<1>4. /\ Announced1(n) \in Seq(Lines) /\ Announced2(n) \in Seq(Lines) /\ Goodbye(n) \in Seq(Lines)
      /\ <<Line("uuid", n)>> \in Seq(Lines) /\ <<Line("lost", n)>> \in Seq(Lines)
  BY <1>3 DEF Announced1, Announced2, Goodbye
<1>5. \A lines \in Seq(Lines) : Prints(lines) => log' \in Seq(Lines)
  BY DEF Prints, PlayersTypeOK
<1>6. Knocks(n) => Prints(<<Line("uuid", n)>>)
  BY Zenon DEF Knocks
<1>7. Leaves(n) => Prints(Goodbye(n)) \/ Prints(<<Line("lost", n)>>)
  BY Zenon DEF Leaves
<1>8. QED  BY <1>2, <1>4, <1>5, <1>6, <1>7, Zenon

\* An answer, or what looks like one, lists what it lists.
LEMMA RepliesPrint ==
    ASSUME PlayersTypeOK, NEW kind \in {"list", "like"}, NEW names \in SUBSET Shown,
           kind = "list" => names \subseteq Names
    PROVE  /\ <<Reply(kind, names)>> \in Seq(Lines) /\ <<Reply(kind, names)>> # <<>>
           /\ DOMAIN <<Reply(kind, names)>> = {1} /\ Len(<<Reply(kind, names)>>) = 1
           /\ Prints(<<Reply(kind, names)>>) => log' \in Seq(Lines)
<1>1. Reply(kind, names) \in Lines /\ log \in Seq(Lines)
  BY LinesAre DEF PlayersTypeOK
<1> HIDE DEF Lines
<1>2. QED  BY <1>1 DEF Prints

\* Who is in the game may be listed, and so may what lines that look like answers list.
LEMMA MayBeListed ==
    /\ PlayersTypeOK => inGame \subseteq Names /\ inGame \in SUBSET Shown
    /\ \A names \in Lookalikes : names \in SUBSET Shown
BY PlayersAssumption DEF PlayersTypeOK, Shown

\* What MSM reads.
LEMMA HeadIs ==
    ASSUME PlayersTypeOK, NEW old \in BOOLEAN, NEW kinds, Reading(old, kinds)
    PROVE  /\ Followed /\ log' \in Seq(Lines) /\ late' \in Seq(Lines)
           /\ LineRead(old) \in Lines /\ LineRead(old).kind \in kinds
           /\ old => log' = log /\ late # <<>> /\ late' = Tail(late) /\ LineRead(old) = Head(late)
           /\ ~old => /\ log # <<>> /\ log' = Tail(log) /\ late' = late /\ Len(log) \in Nat \ {0}
                      /\ LineRead(old) = Head(log) /\ LineRead(old) = log[1]
<1>1. log \in Seq(Lines) /\ late \in Seq(Lines)
  BY DEF PlayersTypeOK
<1>2. \A q \in Seq(Lines) : q # <<>> => /\ Tail(q) \in Seq(Lines) /\ Head(q) \in Lines
                                       /\ Head(q) = q[1] /\ Len(q) \in Nat \ {0}
  <2> HIDE DEF Lines
  <2>1. QED  OBVIOUS
<1>3. CASE old
  BY <1>1, <1>2, <1>3 DEF Reading, LineRead
<1>4. CASE ~old
  BY <1>1, <1>2, <1>4 DEF Reading, LineRead
<1>5. QED  BY <1>3, <1>4

\* Lines that are lost are no longer due.
LEMMA LosesEffect ==
    ASSUME PlayersTypeOK, NEW items, NEW kind, NEW E, items \in Seq(E),
           due' = Less(due, Arrivals(items, kind))
    PROVE  /\ due' \in [Names -> Int]
           /\ \A n \in Names : due'[n] = due[n] - Times(items, Line(kind, n))
<1>1. \A n \in Names : Times(items, Line(kind, n)) \in Nat /\ due[n] \in Int
  BY TimesType DEF PlayersTypeOK
<1>2. due' = [n \in Names |-> due[n] - Times(items, Line(kind, n))]
  BY ArrivalsAre DEF Less
<1>3. QED  BY <1>1, <1>2

\* What an arrival that is read leaves due: what was, or one less, or one more.
JoinOwed(old) ==
    IF ~(old \/ LineRead(old).who \in blurred)
       \/ (LineRead(old).kind = "logged") = New(LineRead(old).who) THEN due
    ELSE [due EXCEPT ![LineRead(old).who] = IF LineRead(old).kind = "logged" THEN @ - 1 ELSE @ + 1]

LEMMA JoinOwes ==
    ASSUME NEW old \in BOOLEAN, ReadsJoin(old)
    PROVE  /\ IF New(LineRead(old).who) THEN Announces(Line("join", LineRead(old).who), JoinOwed(old))
              ELSE UNCHANGED bus /\ due' = JoinOwed(old)
           /\ JoinOwed(old) \in {due, [due EXCEPT ![LineRead(old).who] = @ - 1],
                                 [due EXCEPT ![LineRead(old).who] = @ + 1]}
<1>1. IF New(LineRead(old).who) THEN Announces(Line("join", LineRead(old).who), JoinOwed(old))
      ELSE UNCHANGED bus /\ due' = JoinOwed(old)
  BY Zenon DEF ReadsJoin, JoinOwed
<1>2. QED  BY <1>1, Zenon DEF JoinOwed

\* The types are kept.
LEMMA PlayersTypeStep ==
    ASSUME PlayersTypeOK, PlayersNext
    PROVE  PlayersTypeOK'
<1> USE DEF game, memory, store, history
<1>1. ASSUME NEW n \in Names, Knocks(n) PROVE PlayersTypeOK'
  <2>1. log' \in Seq(Lines)
    BY <1>1, ServerPrints
  <2>2. QED  BY <1>1, <2>1 DEF Knocks, PlayersTypeOK
<1>2. ASSUME NEW n \in Names, Arrives(n) PROVE PlayersTypeOK'
  <2>1. log' \in Seq(Lines)
    BY <1>2, ServerPrints
  <2>2. due' \in [Names -> Int]
    BY <1>2 DEF Arrives, PlayersTypeOK
  <2>3. QED  BY <1>2, <2>1, <2>2 DEF Arrives, PlayersTypeOK
<1>3. ASSUME NEW n \in Names, Leaves(n) PROVE PlayersTypeOK'
  <2>1. log' \in Seq(Lines)
    BY <1>3, ServerPrints
  <2>2. QED  BY <1>3, <2>1 DEF Leaves, PlayersTypeOK
<1>4. ASSUME Lists \/ \E names \in Lookalikes : Resembles(names) PROVE PlayersTypeOK'
  <2>1. log' \in Seq(Lines)
    BY <1>4, RepliesPrint, MayBeListed DEF Lists, Resembles
  <2>2. QED  BY <1>4, <2>1 DEF Lists, Resembles, PlayersTypeOK
<1>5. CASE Dies
  BY <1>5 DEF Dies, PlayersTypeOK
<1>6. ASSUME NEW old \in BOOLEAN, ReadsUuid(old) PROVE PlayersTypeOK'
  <2>1. log' \in Seq(Lines) /\ late' \in Seq(Lines)
    BY <1>6, HeadIs DEF ReadsUuid
  <2>2. QED  BY <1>6, <2>1 DEF ReadsUuid, PlayersTypeOK
<1>7. ASSUME NEW old \in BOOLEAN, ReadsJoin(old) PROVE PlayersTypeOK'
  <2>1. Reading(old, {"logged", "joined"})
    BY <1>7 DEF ReadsJoin
  <2>2. log' \in Seq(Lines) /\ late' \in Seq(Lines) /\ LineRead(old).who \in Names
    BY <2>1, HeadIs, LinesAre
  <2>3. online' \subseteq Shown
    BY <1>7, <2>2 DEF ReadsJoin, PlayersTypeOK, Shown
  <2>4. bus' \in Seq(Heard) /\ due' \in [Names -> Int]
    <3> DEFINE m == LineRead(old).who
    <3>1. PICK owed \in [Names -> Int] :
             IF New(m) THEN Announces(Line("join", m), owed) ELSE UNCHANGED bus /\ due' = owed
      <4>1. /\ due \in [Names -> Int] /\ [due EXCEPT ![m] = @ - 1] \in [Names -> Int]
            /\ [due EXCEPT ![m] = @ + 1] \in [Names -> Int]
        BY <2>2 DEF PlayersTypeOK
      <4>2. \E owed \in {due, [due EXCEPT ![m] = @ - 1], [due EXCEPT ![m] = @ + 1]} :
               IF New(m) THEN Announces(Line("join", m), owed) ELSE UNCHANGED bus /\ due' = owed
        BY <1>7, JoinOwes, Zenon
      <4> HIDE DEF m
      <4>3. QED  BY <4>1, <4>2
    <3>2. CASE New(m)
      <4>1. Line("join", m) \in Heard
        BY <2>2, HeardAre
      <4>2. QED  BY <3>1, <3>2, <4>1, AnnouncesEffect
    <3>3. CASE ~New(m)
      BY <3>1, <3>3 DEF PlayersTypeOK
    <3>4. QED  BY <3>2, <3>3
  <2>5. QED  BY <1>7, <2>2, <2>3, <2>4 DEF ReadsJoin, PlayersTypeOK
<1>8. ASSUME NEW old \in BOOLEAN, ReadsLeave(old) PROVE PlayersTypeOK'
  <2>1. Reading(old, {"lost", "left"})
    BY <1>8 DEF ReadsLeave
  <2>2. log' \in Seq(Lines) /\ late' \in Seq(Lines) /\ LineRead(old).who \in Names
    BY <2>1, HeadIs, LinesAre
  <2>3. online' \subseteq Shown
    BY <1>8, <2>2 DEF ReadsLeave, PlayersTypeOK
  <2>4. bus' \in Seq(Heard) /\ due' \in [Names -> Int]
    <3>1. CASE ~Gone(LineRead(old).who)
      <4>1. /\ Announces(Line("leave", LineRead(old).who), due) /\ due \in [Names -> Int]
            /\ Line("leave", LineRead(old).who) \in Heard
        BY <1>8, <2>2, <3>1, HeardAre, Zenon DEF ReadsLeave, PlayersTypeOK
      <4>2. QED  BY <4>1, AnnouncesEffect
    <3>2. CASE Gone(LineRead(old).who)
      BY <1>8, <3>2 DEF ReadsLeave, PlayersTypeOK
    <3>3. QED  BY <3>1, <3>2
  <2>5. QED  BY <1>8, <2>2, <2>3, <2>4 DEF ReadsLeave, PlayersTypeOK
<1>9. ASSUME NEW old \in BOOLEAN, ReadsList(old) PROVE PlayersTypeOK'
  <2>1. Reading(old, {"list", "like"})
    BY <1>9 DEF ReadsList
  <2>2. log' \in Seq(Lines) /\ late' \in Seq(Lines) /\ LineRead(old).names \in SUBSET Shown
    BY <2>1, HeadIs, LinesAre
  <2>3. online' = LineRead(old).names
    BY <1>9, Zenon DEF ReadsList, Listed
  <2>4. QED  BY <1>9, <2>2, <2>3 DEF ReadsList, PlayersTypeOK
<1>10. CASE LineEvent
  <2>0. due \in [Names -> Int] /\ Announces(Line("other", "nobody"), due)
    BY <1>10 DEF LineEvent, PlayersTypeOK
  <2>1. bus' \in Seq(Heard) /\ due' \in [Names -> Int]
    BY <2>0, AnnouncesEffect, HeardAre
  <2>2. QED  BY <1>10, <2>1 DEF LineEvent, PlayersTypeOK
<1>11. CASE Starts \/ SupervisionEnds \/ MsmBoots
  <2>1. log \in Seq(Lines) /\ late \in Seq(Lines)
    BY DEF PlayersTypeOK
  <2>2. log' \in Seq(Lines) /\ late' \in Seq(Lines)
    <3>1. CASE SupervisionEnds
      <4>1. log' = <<>> /\ late' = late \o log
        BY <3>1 DEF SupervisionEnds
      <4> HIDE DEF Lines
      <4>2. QED  BY <2>1, <4>1
    <3>2. CASE Starts \/ MsmBoots
      <4>1. log' = log /\ late' = late
        BY <3>2 DEF Starts, MsmBoots
      <4>2. QED  BY <2>1, <4>1
    <3>3. QED  BY <1>11, <3>1, <3>2
  <2>3. QED  BY <1>11, <2>2 DEF Starts, SupervisionEnds, MsmBoots, Forgets, EndsPlayers, PlayersTypeOK
<1>12. CASE Releases \/ Rotates
  <2>1. log' = <<>> /\ due' \in [Names -> Int]
    BY <1>12, LosesEffect DEF Releases, Rotates, LosesLines, PlayersTypeOK
  <2>2. log' \in Seq(Lines) /\ late' \in Seq(Lines)
    BY <1>12, <2>1 DEF Releases, Rotates, LosesLines, PlayersTypeOK
  <2>3. QED  BY <1>12, <2>1, <2>2 DEF Releases, Rotates, Forgets, EndsPlayers, PlayersTypeOK
<1>13. CASE Records
  <2>1. bus' \in Seq(Heard) /\ Head(bus) \in Heard
    BY <1>13 DEF Records, Handles, PlayersTypeOK
  <2>2. rows' \in [Names -> Nat]
    <3>1. CASE Head(bus).kind = "join"
      <4> DEFINE n == Head(bus).who
                 found == Matching(n)
                 r == CHOOSE m \in found : TRUE
      <4>1. n \in Names /\ rows' = Counted(n) /\ rows \in [Names -> Nat]
        BY <1>13, <2>1, <3>1, HeardAre DEF Records, PlayersTypeOK
      <4>2. CASE found = {}
        BY <4>1, <4>2 DEF Counted
      <4>3. CASE found # {}
        <5>1. r \in Names
          BY <4>3 DEF Matching
        <5>2. rows' = [m \in Names |-> IF m = n THEN rows[r] + 1 ELSE IF m = r THEN 0 ELSE rows[m]]
          BY <4>1, <4>3 DEF Counted
        <5> HIDE DEF r
        <5>3. QED  BY <4>1, <5>1, <5>2
      <4>4. QED  BY <4>2, <4>3
    <3>2. CASE Head(bus).kind # "join"
      BY <1>13, <3>2 DEF Records, PlayersTypeOK
    <3>3. QED  BY <3>1, <3>2
  <2>3. QED  BY <1>13, <2>1, <2>2 DEF Records, PlayersTypeOK
<1>14. CASE RecordFails
  <2>1. bus' \in Seq(Heard) /\ <<Head(bus)>> \in Seq(Heard)
    BY <1>14 DEF RecordFails, Handles, PlayersTypeOK
  <2>2. due' \in [Names -> Int]
    BY <1>14, <2>1, LosesEffect DEF RecordFails
  <2>3. QED  BY <1>14, <2>1, <2>2 DEF RecordFails, PlayersTypeOK
<1>15. CASE MsmStops
  <2>1. \A n \in Names : /\ Arrivals(log, "logged")[n] \in Nat /\ Arrivals(bus, "join")[n] \in Nat
                         /\ Arrivals(late, "logged")[n] \in Nat
    BY ArrivalsAre, TimesType DEF PlayersTypeOK
  <2>2. due' \in [Names -> Int]
    BY <1>15, <2>1 DEF MsmStops, Less, PlayersTypeOK
  <2>3. log' \in Seq(Lines) /\ late' \in Seq(Lines) /\ bus' \in Seq(Heard)
    BY <1>15 DEF MsmStops
  <2>4. QED  BY <1>15, <2>2, <2>3 DEF MsmStops, Forgets, PlayersTypeOK
<1>16. QED
  BY <1>1, <1>2, <1>3, <1>4, <1>5, <1>6, <1>7, <1>8, <1>9, <1>10, <1>11, <1>12, <1>13, <1>14,
     <1>15 DEF PlayersNext

-----------------------------------------------------------------------------
\* Lines that are printed come last.
LEMMA Printed ==
    ASSUME PlayersTypeOK, NEW lines \in Seq(Lines), Prints(lines)
    PROVE  /\ ~Followed => log' = log
           /\ Followed =>
                /\ Len(log) \in Nat /\ Len(lines) \in Nat /\ log' = log \o lines
                /\ DOMAIN log = 1 .. Len(log) /\ DOMAIN lines = 1 .. Len(lines)
                /\ DOMAIN log' = 1 .. Len(log) + Len(lines)
                /\ \A i \in 1 .. Len(log) : log'[i] = log[i]
                /\ \A i \in 1 .. Len(lines) : log'[Len(log) + i] = lines[i]
                /\ \A i \in DOMAIN log' : i > Len(log) => i - Len(log) \in 1 .. Len(lines)
                                                          /\ log'[i] = lines[i - Len(log)]
<1>1. log \in Seq(Lines)
  BY DEF PlayersTypeOK
<1> HIDE DEF Lines
<1>2. QED  BY <1>1 DEF Prints

\* The last line tells the truth, and what is not about a player changes nothing.
LEMMA TruthIsTold ==
    ASSUME PlayersTypeOK, NEW n \in Names, NEW lines \in Seq(Lines), lines # <<>>, Prints(lines),
           Followed, LastIsTrue(n), online' = online, blurred' = blurred,
           \/ /\ n \in inGame' <=> n \in inGame
              /\ \A i \in DOMAIN lines : ~Enters(lines[i], n) /\ ~Quits(lines[i], n)
           \/ /\ n \in inGame'
              /\ Enters(lines[Len(lines)], n) /\ ~Quits(lines[Len(lines)], n)
           \/ /\ n \notin inGame'
              /\ Quits(lines[Len(lines)], n) /\ ~Enters(lines[Len(lines)], n)
    PROVE  LastIsTrue(n)'
<1> DEFINE l == Len(log)
           k == Len(lines)
<1>0. k > 0
  BY DEF Lines
<1>1. /\ l \in Nat /\ k \in Nat /\ DOMAIN log = 1 .. l /\ DOMAIN lines = 1 .. k
      /\ DOMAIN log' = 1 .. l + k
      /\ \A i \in 1 .. l : log'[i] = log[i]
      /\ \A i \in DOMAIN log' : i > l => i - l \in 1 .. k /\ log'[i] = lines[i - l]
      /\ log'[l + k] = lines[k]
  <2>1. k \in 1 .. k
    BY <1>0
  <2>2. QED  BY <2>1, Printed
<1> HIDE DEF l, k
<1>2. CASE /\ n \in inGame' <=> n \in inGame
           /\ \A i \in DOMAIN lines : ~Enters(lines[i], n) /\ ~Quits(lines[i], n)
  <2>1. \A i \in DOMAIN log' : i > l => ~Enters(log'[i], n) /\ ~Quits(log'[i], n) /\ ~Quits(log'[i], n)
    BY <1>1, <1>2
  <2>2. \A i \in DOMAIN log : i \in DOMAIN log' /\ log'[i] = log[i]
    BY <1>1
  <2>3. \A i \in DOMAIN log' : i <= l => i \in DOMAIN log
    BY <1>1
  <2>4. \A i \in DOMAIN log' : i \in Int
    BY <1>1
  <2>5. n \notin inGame' =>
         /\ n \in online' /\ n \notin blurred' => \E j \in DOMAIN log' : Quits(log'[j], n)
         /\ \A i \in DOMAIN log' : Enters(log'[i], n) => \E j \in DOMAIN log' : i < j /\ Quits(log'[j], n)
    <3> SUFFICES ASSUME n \notin inGame'
                 PROVE  /\ n \in online' /\ n \notin blurred' => \E j \in DOMAIN log' : Quits(log'[j], n)
                        /\ \A i \in DOMAIN log' : Enters(log'[i], n) =>
                               \E j \in DOMAIN log' : i < j /\ Quits(log'[j], n)
      OBVIOUS
    <3>1. /\ n \in online /\ n \notin blurred => \E j \in DOMAIN log : Quits(log[j], n)
          /\ \A i \in DOMAIN log : Enters(log[i], n) => \E j \in DOMAIN log : i < j /\ Quits(log[j], n)
      BY <1>2 DEF LastIsTrue
    <3>2. ASSUME NEW i \in DOMAIN log', Enters(log'[i], n)
          PROVE  \E j \in DOMAIN log' : i < j /\ Quits(log'[j], n)
      <4>1. i \in DOMAIN log /\ log'[i] = log[i]
        BY <1>1, <2>1, <2>2, <2>3, <2>4, <3>2
      <4>2. QED  BY <2>2, <3>1, <3>2, <4>1
    <3>3. QED  BY <2>2, <3>1, <3>2
  <2>6. n \in inGame' =>
         /\ n \notin online' /\ n \notin blurred' => \E j \in DOMAIN log' : Enters(log'[j], n)
         /\ \A i \in DOMAIN log' : Quits(log'[i], n) => \E j \in DOMAIN log' : i < j /\ Enters(log'[j], n)
    <3> SUFFICES ASSUME n \in inGame'
                 PROVE  /\ n \notin online' /\ n \notin blurred' => \E j \in DOMAIN log' : Enters(log'[j], n)
                        /\ \A i \in DOMAIN log' : Quits(log'[i], n) =>
                               \E j \in DOMAIN log' : i < j /\ Enters(log'[j], n)
      OBVIOUS
    <3>1. /\ n \notin online /\ n \notin blurred => \E j \in DOMAIN log : Enters(log[j], n)
          /\ \A i \in DOMAIN log : Quits(log[i], n) => \E j \in DOMAIN log : i < j /\ Enters(log[j], n)
      BY <1>2 DEF LastIsTrue
    <3>2. ASSUME NEW i \in DOMAIN log', Quits(log'[i], n)
          PROVE  \E j \in DOMAIN log' : i < j /\ Enters(log'[j], n)
      <4>1. i \in DOMAIN log /\ log'[i] = log[i]
        BY <1>1, <2>1, <2>2, <2>3, <2>4, <3>2
      <4>2. QED  BY <2>2, <3>1, <3>2, <4>1
    <3>3. QED  BY <2>2, <3>1, <3>2
  <2>7. QED  BY <2>5, <2>6, Zenon DEF LastIsTrue
<1>3. l + k \in DOMAIN log' /\ \A i \in DOMAIN log' : i = l + k \/ i < l + k
  BY <1>0, <1>1 DEF k
<1>4. CASE n \in inGame' /\ Enters(lines[k], n) /\ ~Quits(lines[k], n)
  BY <1>1, <1>3, <1>4 DEF LastIsTrue
<1>5. CASE n \notin inGame' /\ Quits(lines[k], n) /\ ~Enters(lines[k], n)
  BY <1>1, <1>3, <1>5 DEF LastIsTrue
<1>6. QED  BY <1>2, <1>4, <1>5 DEF k

\* An arrival that is printed is that of a player who is not in the game.
LEMMA ArrivalsAreFirst ==
    ASSUME PlayersTypeOK, NEW n \in Names, NEW lines \in Seq(Lines), Prints(lines),
           Followed, FirstTold(n), Second(n), LastIsTrue(n), online' = online, blurred' = blurred,
           \A i \in DOMAIN lines : /\ lines[i].kind = "logged" /\ lines[i].who = n => i = 1 /\ n \notin inGame
                                   /\ lines[i].kind = "joined" /\ lines[i].who = n =>
                                        i = 2 /\ lines[1].kind = "logged" /\ lines[1].who = n
    PROVE  FirstTold(n)' /\ Second(n)'
<1> DEFINE l == Len(log)
           m == Len(lines)
<1>1. /\ l \in Nat /\ m \in Nat /\ DOMAIN log = 1 .. l /\ DOMAIN lines = 1 .. m
      /\ DOMAIN log' = 1 .. l + m
      /\ \A i \in 1 .. l : log'[i] = log[i]
      /\ \A i \in 1 .. m : log'[l + i] = lines[i]
      /\ \A i \in DOMAIN log' : i > l => i - l \in 1 .. m /\ log'[i] = lines[i - l]
  BY Printed
<1> HIDE DEF l, m
<1>2. ASSUME NEW k \in DOMAIN log', log'[k].kind = "logged", log'[k].who = n
      PROVE  /\ n \in online' /\ n \notin blurred' => \E j \in 1 .. k - 1 : Quits(log'[j], n)
             /\ \A i \in 1 .. k - 1 : Enters(log'[i], n) => \E j \in i + 1 .. k - 1 : Quits(log'[j], n)
  <2>1. CASE k <= l
    <3>1. k \in DOMAIN log /\ \A i \in 1 .. k : log'[i] = log[i]
      BY <1>1, <2>1
    <3>2. /\ n \in online /\ n \notin blurred => \E j \in 1 .. k - 1 : Quits(log[j], n)
          /\ \A i \in 1 .. k - 1 : Enters(log[i], n) => \E j \in i + 1 .. k - 1 : Quits(log[j], n)
      BY <1>1, <1>2, <3>1 DEF FirstTold
    <3>3. k \in Nat
      BY <1>1
    <3>4. \A i \in 1 .. k - 1 : log'[i] = log[i] /\ \A j \in i + 1 .. k - 1 : log'[j] = log[j]
      BY <3>1, <3>3
    <3>5. QED  BY <3>2, <3>4
  <2>2. CASE k > l
    <3>1. k = l + 1 /\ n \notin inGame
      BY <1>1, <1>2, <2>2
    <3>2. 1 .. k - 1 = DOMAIN log /\ \A i \in DOMAIN log : log'[i] = log[i]
      BY <1>1, <3>1
    <3>3. /\ n \in online /\ n \notin blurred => \E j \in DOMAIN log : Quits(log[j], n)
          /\ \A i \in DOMAIN log : Enters(log[i], n) => \E j \in DOMAIN log : i < j /\ Quits(log[j], n)
      BY <3>1 DEF LastIsTrue
    <3>4. \A i, j \in DOMAIN log : i < j => j \in i + 1 .. k - 1
      BY <1>1, <3>1
    <3>5. QED  BY <3>2, <3>3, <3>4
  <2>3. QED  BY <1>1, <2>1, <2>2
<1>3. ASSUME NEW k \in DOMAIN log', log'[k].kind = "joined", log'[k].who = n
      PROVE  IF k = 1 THEN n \in online' \/ n \in blurred' ELSE log'[k - 1].kind = "logged" /\ log'[k - 1].who = n
  <2>1. CASE k <= l
    <3>1. k \in DOMAIN log /\ log'[k] = log[k] /\ (k # 1 => log'[k - 1] = log[k - 1])
      BY <1>1, <2>1
    <3>2. QED  BY <1>3, <3>1 DEF Second
  <2>2. CASE k > l
    <3>1. k = l + 2 /\ lines[1].kind = "logged" /\ lines[1].who = n
      BY <1>1, <1>3, <2>2
    <3>2. k # 1 /\ log'[k - 1] = lines[1]
      BY <1>1, <3>1
    <3>3. QED  BY <3>1, <3>2
  <2>3. QED  BY <1>1, <2>1, <2>2
<1>4. FirstTold(n)'
  BY <1>2, Zenon DEF FirstTold
<1>5. Second(n)'
  BY <1>3, Zenon DEF Second
<1>6. QED  BY <1>4, <1>5

\* What a line says is believed once it is read.
LEMMA ReadIsBelieved ==
    ASSUME PlayersTypeOK, NEW n \in Names, log # <<>>, log' = Tail(log), inGame' = inGame,
           FirstTold(n), Second(n),
           n \in online' /\ n \notin blurred' =>
               Enters(log[1], n) \/ (n \in online /\ n \notin blurred /\ ~Quits(log[1], n)),
           n \notin online' /\ n \notin blurred' =>
               Quits(log[1], n) \/ (n \notin online /\ n \notin blurred /\ ~Enters(log[1], n)),
           log[1].kind = "logged" /\ log[1].who = n => n \in online'
    PROVE  FirstTold(n)' /\ Second(n)' /\ (LastIsTrue(n) => LastIsTrue(n)')
<1> DEFINE l == Len(log)
<1>1. /\ l \in Nat \ {0} /\ DOMAIN log = 1 .. l /\ DOMAIN log' = 1 .. l - 1
      /\ \A i \in 1 .. l - 1 : log'[i] = log[i + 1]
      /\ \A i \in 2 .. l : log[i] = log'[i - 1] /\ i - 1 \in DOMAIN log'
      /\ \A i \in DOMAIN log' : i \in Nat \ {0} /\ i + 1 \in DOMAIN log
  <2>1. log \in Seq(Lines)
    BY DEF PlayersTypeOK
  <2> HIDE DEF Lines
  <2>2. QED  BY <2>1
<1> HIDE DEF l
<1>2. ASSUME NEW k \in DOMAIN log', log'[k].kind = "logged", log'[k].who = n
      PROVE  /\ n \in online' /\ n \notin blurred' => \E j \in 1 .. k - 1 : Quits(log'[j], n)
             /\ \A i \in 1 .. k - 1 : Enters(log'[i], n) => \E j \in i + 1 .. k - 1 : Quits(log'[j], n)
  <2>1. k + 1 \in DOMAIN log /\ log[k + 1] = log'[k] /\ k \in Nat /\ (k + 1) - 1 = k
    BY <1>1
  <2>2. /\ n \in online /\ n \notin blurred => \E j \in 1 .. k : Quits(log[j], n)
        /\ \A i \in 1 .. k : Enters(log[i], n) => \E j \in i + 1 .. k : Quits(log[j], n)
    BY <1>2, <2>1 DEF FirstTold
  <2>3. \A j \in 2 .. k : j - 1 \in 1 .. k - 1 /\ log'[j - 1] = log[j]
    BY <1>1, <2>1
  <2>4. ASSUME n \in online', n \notin blurred' PROVE \E j \in 1 .. k - 1 : Quits(log'[j], n)
    <3>1. CASE Enters(log[1], n)
      <4>1. 1 \in 1 .. k /\ 1 + 1 = 2
        BY <1>1
      <4>2. \E j \in 2 .. k : Quits(log[j], n)
        BY <2>2, <3>1, <4>1
      <4>3. QED  BY <2>3, <4>2
    <3>2. CASE n \in online /\ n \notin blurred /\ ~Quits(log[1], n)
      <4>1. PICK j \in 1 .. k : Quits(log[j], n)
        BY <2>2, <3>2
      <4>2. j \in 2 .. k
        BY <3>2, <4>1
      <4>3. QED  BY <2>3, <4>1, <4>2
    <3>3. QED  BY <2>4, <3>1, <3>2
  <2>5. ASSUME NEW i \in 1 .. k - 1, Enters(log'[i], n) PROVE \E j \in i + 1 .. k - 1 : Quits(log'[j], n)
    <3>1. i + 1 \in 1 .. k /\ log[i + 1] = log'[i]
      BY <1>1, <2>1
    <3>2. PICK j \in (i + 1) + 1 .. k : Quits(log[j], n)
      BY <2>2, <2>5, <3>1
    <3>3. j \in 2 .. k /\ j - 1 \in i + 1 .. k - 1
      BY <2>1, <3>1
    <3>4. QED  BY <2>3, <3>2, <3>3
  <2>6. QED  BY <2>4, <2>5
<1>3. ASSUME NEW k \in DOMAIN log', log'[k].kind = "joined", log'[k].who = n
      PROVE  IF k = 1 THEN n \in online' ELSE log'[k - 1].kind = "logged" /\ log'[k - 1].who = n
  <2>1. k + 1 \in DOMAIN log /\ log[k + 1] = log'[k] /\ k \in Nat \ {0} /\ (k + 1) - 1 = k /\ k + 1 # 1
    BY <1>1
  <2>2. log[k].kind = "logged" /\ log[k].who = n
    BY <1>3, <2>1 DEF Second
  <2>3. k # 1 => log'[k - 1] = log[k]
    BY <1>1, <2>1
  <2>4. QED  BY <2>2, <2>3
<1>4. ASSUME LastIsTrue(n) PROVE LastIsTrue(n)'
  <2>1. \A j \in DOMAIN log : j # 1 => j - 1 \in DOMAIN log' /\ log'[j - 1] = log[j]
    BY <1>1
  <2>2. 1 \in DOMAIN log /\ \A j \in DOMAIN log : 1 < j => j # 1
    BY <1>1
  <2>3. ASSUME NEW i \in DOMAIN log', NEW j \in DOMAIN log, i + 1 < j
        PROVE  j - 1 \in DOMAIN log' /\ log'[j - 1] = log[j] /\ i < j - 1
    BY <1>1, <2>3
  <2>4. \A i \in DOMAIN log' : i + 1 \in DOMAIN log /\ log'[i] = log[i + 1]
    BY <1>1
  <2>5. n \notin inGame' =>
         /\ n \in online' /\ n \notin blurred' => \E j \in DOMAIN log' : Quits(log'[j], n)
         /\ \A i \in DOMAIN log' : Enters(log'[i], n) => \E j \in DOMAIN log' : i < j /\ Quits(log'[j], n)
    <3> SUFFICES ASSUME n \notin inGame'
                 PROVE  /\ n \in online' /\ n \notin blurred' => \E j \in DOMAIN log' : Quits(log'[j], n)
                        /\ \A i \in DOMAIN log' : Enters(log'[i], n) =>
                               \E j \in DOMAIN log' : i < j /\ Quits(log'[j], n)
      OBVIOUS
    <3>1. /\ n \in online /\ n \notin blurred => \E j \in DOMAIN log : Quits(log[j], n)
          /\ \A i \in DOMAIN log : Enters(log[i], n) => \E j \in DOMAIN log : i < j /\ Quits(log[j], n)
      BY <1>4 DEF LastIsTrue
    <3>2. ASSUME n \in online', n \notin blurred' PROVE \E j \in DOMAIN log' : Quits(log'[j], n)
      <4>1. CASE Enters(log[1], n)
        BY <2>1, <2>2, <3>1, <4>1
      <4>2. CASE n \in online /\ n \notin blurred /\ ~Quits(log[1], n)
        BY <2>1, <3>1, <4>2
      <4>3. QED  BY <3>2, <4>1, <4>2
    <3>3. QED  BY <2>3, <2>4, <3>1, <3>2
  <2>6. n \in inGame' =>
         /\ n \notin online' /\ n \notin blurred' => \E j \in DOMAIN log' : Enters(log'[j], n)
         /\ \A i \in DOMAIN log' : Quits(log'[i], n) => \E j \in DOMAIN log' : i < j /\ Enters(log'[j], n)
    <3> SUFFICES ASSUME n \in inGame'
                 PROVE  /\ n \notin online' /\ n \notin blurred' => \E j \in DOMAIN log' : Enters(log'[j], n)
                        /\ \A i \in DOMAIN log' : Quits(log'[i], n) =>
                               \E j \in DOMAIN log' : i < j /\ Enters(log'[j], n)
      OBVIOUS
    <3>1. /\ n \notin online /\ n \notin blurred => \E j \in DOMAIN log : Enters(log[j], n)
          /\ \A i \in DOMAIN log : Quits(log[i], n) => \E j \in DOMAIN log : i < j /\ Enters(log[j], n)
      BY <1>4 DEF LastIsTrue
    <3>2. ASSUME n \notin online', n \notin blurred' PROVE \E j \in DOMAIN log' : Enters(log'[j], n)
      <4>1. CASE Quits(log[1], n)
        BY <2>1, <2>2, <3>1, <4>1
      <4>2. CASE n \notin online /\ n \notin blurred /\ ~Enters(log[1], n)
        BY <2>1, <3>1, <4>2
      <4>3. QED  BY <3>2, <4>1, <4>2
    <3>3. QED  BY <2>3, <2>4, <3>1, <3>2
  <2>7. QED  BY <2>5, <2>6, Zenon DEF LastIsTrue
<1>5. FirstTold(n)'
  BY <1>2, Zenon DEF FirstTold
<1>6. Second(n)'
  BY <1>3, Zenon DEF Second
<1>7. QED  BY <1>4, <1>5, <1>6

\* Whoever is followed is alive, or has nothing more to say.
LEMMA FollowingStep ==
    ASSUME PlayersTypeOK, Following, PlayersNext
    PROVE  Following'
<1> USE DEF game, memory, store, history
<1>1. ASSUME NEW lines \in Seq(Lines), Prints(lines), alive,
             link = "adopted" => \A i \in DOMAIN lines : lines[i].kind # "list",
             UNCHANGED <<link, alive, online, late, blurred>>
      PROVE  Following'
  <2>1. link # "over"
    BY <1>1 DEF Following
  <2>2. link = "off" => log' = log
    BY <1>1, Printed DEF Followed
  <2>3. link = "adopted" => \A i \in DOMAIN log' : log'[i].kind # "list"
    <3>1. SUFFICES ASSUME link = "adopted", NEW i \in DOMAIN log' PROVE log'[i].kind # "list"
      OBVIOUS
    <3>2. Followed
      BY <3>1 DEF Followed
    <3>3. \/ i \in DOMAIN log /\ log'[i] = log[i]
          \/ \E j \in DOMAIN lines : log'[i] = lines[j]
      BY <1>1, <3>2, Printed
    <3>4. QED  BY <1>1, <3>1, <3>3 DEF Following
  <2>4. QED  BY <1>1, <2>1, <2>2, <2>3 DEF Following
<1>2. ASSUME NEW n \in Names, Knocks(n) \/ Arrives(n) \/ Leaves(n) PROVE Following'
  <2>1. alive
    BY <1>2 DEF Knocks, Arrives, Leaves, Following
  <2>2. \E lines \in { <<Line("uuid", n)>>, Announced1(n), Announced2(n), Goodbye(n), <<Line("lost", n)>> } :
           Prints(lines) /\ lines \in Seq(Lines)
    BY <1>2, ServerPrints, Zenon
  <2>3. \A lines \in { <<Line("uuid", n)>>, Announced1(n), Announced2(n), Goodbye(n), <<Line("lost", n)>> } :
           \A i \in DOMAIN lines : lines[i].kind # "list"
    BY LinesAre DEF Announced1, Announced2, Goodbye
  <2>4. UNCHANGED <<link, alive, online, late, blurred>>
    BY <1>2 DEF Knocks, Arrives, Leaves
  <2>5. QED  BY <1>1, <2>1, <2>2, <2>3, <2>4
<1>3. ASSUME Lists \/ \E names \in Lookalikes : Resembles(names) PROVE Following'
  <2>1. PICK kind \in {"list", "like"}, names \in SUBSET Shown :
           /\ Prints(<<Reply(kind, names)>>) /\ (kind = "list" => link = "handle" /\ names \subseteq Names)
    BY <1>3, MayBeListed DEF Lists, Resembles
  <2> DEFINE lines == <<Reply(kind, names)>>
  <2>2. lines \in Seq(Lines)
    BY <2>1, RepliesPrint
  <2>3. \A i \in DOMAIN lines : lines[i].kind = kind
    BY LinesAre
  <2>4. alive /\ UNCHANGED <<link, alive, online, late, blurred>> /\ Prints(lines)
    BY <1>3, <2>1 DEF Lists, Resembles
  <2> HIDE DEF lines
  <2>5. link = "adopted" => \A i \in DOMAIN lines : lines[i].kind # "list"
    BY <2>1, <2>3
  <2>6. QED  BY <1>1, <2>2, <2>4, <2>5
<1>4. CASE Dies
  BY <1>4 DEF Dies, Following
<1>5. ASSUME NEW old \in BOOLEAN, NEW kinds, Reading(old, kinds),
             link' = link, alive' = alive, inGame' = inGame, old => blurred' = blurred \cup Changed,
             online' \cap Unreadable \subseteq blurred'
      PROVE  Following'
  <2>1. CASE ~old
    <3>1. log # <<>> /\ log' = Tail(log) /\ log \in Seq(Lines) /\ late' = late
      BY <1>5, <2>1, HeadIs DEF PlayersTypeOK
    <3>2. \A i \in DOMAIN log' : i + 1 \in DOMAIN log /\ log'[i] = log[i + 1]
      <4> HIDE DEF Lines
      <4>1. QED  BY <3>1
    <3>3. QED  BY <1>5, <3>1, <3>2 DEF Following
  <2>2. CASE old
    <3>1. log' = log /\ late # <<>> /\ blurred' = blurred \cup Changed
      BY <1>5, <2>2, HeadIs
    <3>2. link = "over" => online' \subseteq blurred'
      BY <3>1 DEF Following, Changed
    <3>3. QED  BY <1>5, <3>1, <3>2 DEF Following
  <2>3. QED  BY <2>1, <2>2
<1>6. ASSUME NEW old \in BOOLEAN, ReadsUuid(old) \/ ReadsJoin(old) \/ ReadsLeave(old) \/ ReadsList(old)
      PROVE  Following'
  <2>1. \E kinds : Reading(old, kinds)
    BY <1>6, Zenon DEF ReadsUuid, ReadsJoin, ReadsLeave, ReadsList
  <2>2. link' = link /\ alive' = alive /\ inGame' = inGame
    BY <1>6 DEF ReadsUuid, ReadsJoin, ReadsLeave, ReadsList
  <2>3. old => blurred' = blurred \cup Changed
    BY <1>6 DEF ReadsUuid, ReadsJoin, ReadsLeave, ReadsList, Changed
  <2>4. online' \cap Unreadable \subseteq blurred'
    <3>0. online \cap Unreadable \subseteq blurred /\ Unreadable \cap Names = {}
      BY PlayersAssumption DEF Following
    <3>1. CASE ReadsUuid(old)
      BY <3>0, <3>1 DEF ReadsUuid
    <3>2. CASE blurred' = blurred \cup Changed
      BY <3>0, <3>2 DEF Changed
    <3>3. CASE ~old /\ (ReadsJoin(old) \/ ReadsLeave(old))
      <4>1. Reading(old, {"logged", "joined"}) \/ Reading(old, {"lost", "left"})
        BY <3>3, Zenon DEF ReadsJoin, ReadsLeave
      <4>2. LineRead(old).who \in Names
        BY <4>1, HeadIs, LinesAre
      <4>3. online' \subseteq online \cup {LineRead(old).who} /\ blurred' = blurred \ {LineRead(old).who}
        BY <3>3 DEF ReadsJoin, ReadsLeave
      <4>4. LineRead(old).who \notin Unreadable
        BY <3>0, <4>2
      <4>5. QED  BY <3>0, <4>3, <4>4
    <3>4. CASE ~old /\ ReadsList(old)
      <4>1. Reading(old, {"list", "like"})
        BY <3>4 DEF ReadsList
      <4>2. \/ blurred' = blurred \cup Changed
            \/ LineRead(old).kind # "like" /\ online' = LineRead(old).names
        BY <3>4, Zenon DEF ReadsList, Listed, Changed
      <4>3. LineRead(old).kind # "like" => LineRead(old).names \subseteq Names
        BY <4>1, HeadIs, LinesAre
      <4>4. QED  BY <3>0, <3>2, <4>2, <4>3
    <3>5. QED  BY <1>6, <2>3, <3>1, <3>2, <3>3, <3>4
  <2>5. QED  BY <1>5, <2>1, <2>2, <2>3, <2>4
<1>7. CASE LineEvent \/ Records \/ RecordFails
  BY <1>7 DEF LineEvent, Records, RecordFails, Following
<1>8. CASE Starts \/ SupervisionEnds \/ Releases \/ Rotates
  BY <1>8 DEF Starts, SupervisionEnds, Releases, Rotates, EndsPlayers, Forgets, LosesLines, Following
<1>9. CASE MsmStops \/ MsmBoots
  BY <1>9 DEF MsmStops, MsmBoots, Forgets, Following
<1>10. QED
  BY <1>2, <1>3, <1>4, <1>6, <1>7, <1>8, <1>9 DEF PlayersNext

\* What the server prints keeps what will be believed true.
LEMMA PrintsKeepBelief ==
    ASSUME PlayersTypeOK, Following, Belief, alive, alive' = alive, link' = link,
           online' = online, blurred' = blurred,
           NEW lines \in Seq(Lines), lines # <<>>, Prints(lines),
           \A n \in Names :
              \/ /\ n \in inGame' <=> n \in inGame
                 /\ \A i \in DOMAIN lines : ~Enters(lines[i], n) /\ ~Quits(lines[i], n)
              \/ /\ n \in inGame'
                 /\ Enters(lines[Len(lines)], n) /\ ~Quits(lines[Len(lines)], n)
              \/ /\ n \notin inGame'
                 /\ Quits(lines[Len(lines)], n) /\ ~Enters(lines[Len(lines)], n),
           \A n \in Names : \A i \in DOMAIN lines :
              /\ lines[i].kind = "logged" /\ lines[i].who = n => i = 1 /\ n \notin inGame
              /\ lines[i].kind = "joined" /\ lines[i].who = n =>
                   i = 2 /\ lines[1].kind = "logged" /\ lines[1].who = n
    PROVE  Belief'
<1>1. CASE Followed
  <2>1. \A n \in Names : FirstTold(n) /\ Second(n) /\ LastIsTrue(n)
    BY <1>1 DEF Belief
  <2>2. \A n \in Names : LastIsTrue(n)'
    BY <1>1, <2>1, TruthIsTold
  <2>3. \A n \in Names : FirstTold(n)' /\ Second(n)'
    BY <1>1, <2>1, ArrivalsAreFirst
  <2>4. QED  BY <2>2, <2>3, Zenon DEF Belief
<1>2. CASE ~Followed
  <2>1. log' = log /\ ~Followed'
    BY <1>2, Printed DEF Followed
  <2>2. \A n \in Names : (FirstTold(n) => FirstTold(n)') /\ (Second(n) => Second(n)')
    BY <2>1 DEF FirstTold, Second
  <2>3. QED  BY <2>1, <2>2, Zenon DEF Belief
<1>3. QED  BY <1>1, <1>2

\* What MSM reads makes it believe what the line says.
LEMMA ReadsKeepBelief ==
    ASSUME PlayersTypeOK, Belief, log # <<>>, log' = Tail(log), inGame' = inGame,
           alive' = alive, link' = link,
           \A n \in Names :
              /\ n \in online' /\ n \notin blurred' =>
                   Enters(log[1], n) \/ (n \in online /\ n \notin blurred /\ ~Quits(log[1], n))
              /\ n \notin online' /\ n \notin blurred' =>
                   Quits(log[1], n) \/ (n \notin online /\ n \notin blurred /\ ~Enters(log[1], n))
              /\ log[1].kind = "logged" /\ log[1].who = n => n \in online'
    PROVE  Belief'
<1>1. \A n \in Names : FirstTold(n)' /\ Second(n)' /\ (LastIsTrue(n) => LastIsTrue(n)')
  BY ReadIsBelieved DEF Belief
<1>2. Followed' = Followed
  BY DEF Followed
<1>3. QED  BY <1>1, <1>2 DEF Belief

\* What is read late of another server blurs whom it shows or hides.
LEMMA LateKeepsBelief ==
    ASSUME Belief, UNCHANGED <<log, link, alive, inGame>>, blurred' = blurred \cup Changed
    PROVE  Belief'
<1>1. \A n : n \notin blurred' => n \notin blurred /\ (n \in online' <=> n \in online)
  BY DEF Changed
<1>2. \A n \in Names : FirstTold(n) => FirstTold(n)'
  BY <1>1 DEF FirstTold
<1>3. \A n \in Names : Second(n) => Second(n)'
  BY <1>1 DEF Second
<1>4. \A n \in Names : LastIsTrue(n) => LastIsTrue(n)'
  BY <1>1 DEF LastIsTrue
<1>5. Followed' = Followed
  BY DEF Followed
<1>6. QED  BY <1>2, <1>3, <1>4, <1>5, Zenon DEF Belief

\* Without lines, it is what MSM believes that counts.
LEMMA NoLinesLeft ==
    ASSUME log' = <<>>,
           alive' /\ Followed' => \A n \in Names : n \in blurred' \/ (n \in online' <=> n \in inGame')
    PROVE  Belief'
<1>1. DOMAIN log' = {}
  OBVIOUS
<1>2. \A n \in Names : FirstTold(n)' /\ Second(n)'
  BY <1>1 DEF FirstTold, Second
<1>3. alive' /\ Followed' => \A n \in Names : LastIsTrue(n)'
  BY <1>1 DEF LastIsTrue
<1>4. QED  BY <1>2, <1>3, Zenon DEF Belief

\* Nothing changes that it is about.
LEMMA SameBelief ==
    ASSUME Belief, UNCHANGED <<log, link, online, blurred>>,
           alive' => alive /\ inGame' = inGame
    PROVE  Belief'
<1>1. \A n \in Names : (FirstTold(n) => FirstTold(n)') /\ (Second(n) => Second(n)')
  BY DEF FirstTold, Second
<1>2. alive' => \A n \in Names : LastIsTrue(n) => LastIsTrue(n)'
  BY DEF LastIsTrue
<1>3. Followed' = Followed
  BY DEF Followed
<1>4. QED  BY <1>1, <1>2, <1>3, Zenon DEF Belief

\* What a line says, by its kind.
LEMMA LineSays ==
    ASSUME NEW x, NEW n
    PROVE  /\ x.kind \in {"uuid", "like"} => ~Enters(x, n) /\ ~Quits(x, n)
           /\ x.kind \in {"logged", "joined"} => (Enters(x, n) <=> x.who = n) /\ ~Quits(x, n)
           /\ x.kind \in {"lost", "left"} => (Quits(x, n) <=> x.who = n) /\ ~Enters(x, n)
           /\ x.kind = "list" => (Enters(x, n) <=> n \in x.names) /\ (Quits(x, n) <=> n \notin x.names)
<1>1. CASE x.kind \in {"uuid", "like"}
  BY <1>1 DEF Enters, Quits
<1>2. CASE x.kind \in {"logged", "joined"}
  BY <1>2 DEF Enters, Quits
<1>3. CASE x.kind \in {"lost", "left"}
  BY <1>3 DEF Enters, Quits
<1>4. CASE x.kind = "list"
  BY <1>4 DEF Enters, Quits
<1>5. QED  BY <1>1, <1>2, <1>3, <1>4

\* What MSM believes, and will believe, is kept true by each action.
LEMMA BeliefStep ==
    ASSUME PlayersTypeOK, Following, Belief, PlayersNext
    PROVE  Belief'
<1> USE DEF game, memory, store, history
<1>0. \A x, n : x.kind \in {"uuid", "like"} => ~Enters(x, n) /\ ~Quits(x, n)
  BY LineSays
<1>a. ASSUME NEW kind, NEW m, NEW n
      PROVE  /\ kind \in {"logged", "joined"} =>
                   (Enters(Line(kind, m), n) <=> m = n) /\ ~Quits(Line(kind, m), n)
             /\ kind \in {"lost", "left"} =>
                   (Quits(Line(kind, m), n) <=> m = n) /\ ~Enters(Line(kind, m), n)
  <2>1. Line(kind, m).kind = kind /\ Line(kind, m).who = m
    BY LinesAre
  <2>2. QED  BY <2>1, LineSays
<1>1. ASSUME NEW m \in Names, Knocks(m) PROVE Belief'
  <2> DEFINE lines == <<Line("uuid", m)>>
  <2>1. lines \in Seq(Lines) /\ lines # <<>> /\ Prints(lines)
    BY <1>1, ServerPrints
  <2>2. DOMAIN lines = {1} /\ lines[1].kind = "uuid"
    BY LinesAre
  <2>3. UNCHANGED <<alive, inGame, link, online, blurred>> /\ alive
    BY <1>1 DEF Knocks
  <2> HIDE DEF lines
  <2>4. \A n \in Names : \A i \in DOMAIN lines : ~Enters(lines[i], n) /\ ~Quits(lines[i], n)
    BY <1>0, <2>2
  <2>5. QED  BY <2>1, <2>2, <2>3, <2>4, PrintsKeepBelief
<1>2. ASSUME NEW m \in Names, Arrives(m) PROVE Belief'
  <2>1. alive /\ UNCHANGED <<alive, link, online, blurred>> /\ inGame' = inGame \cup {m} /\ m \notin inGame
    BY <1>2 DEF Arrives
  <2>2. ASSUME NEW lines \in {Announced1(m), Announced2(m)}, Prints(lines) PROVE Belief'
    <3>1. lines \in Seq(Lines)
      BY <2>2, ServerPrints
    <3>2. /\ lines # <<>> /\ DOMAIN lines \in {{1}, {1, 2}} /\ Len(lines) \in DOMAIN lines
          /\ lines[1] = Line("logged", m) /\ (2 \in DOMAIN lines => lines[2] = Line("joined", m))
      BY DEF Announced1, Announced2
    <3> HIDE DEF Lines
    <3>3. \A i \in DOMAIN lines : \E kind \in {"logged", "joined"} : lines[i] = Line(kind, m)
      BY <3>2
    <3>4. \A n \in Names : n # m => \A i \in DOMAIN lines : ~Enters(lines[i], n) /\ ~Quits(lines[i], n)
      BY <1>a, <3>3
    <3>5. Enters(lines[Len(lines)], m) /\ ~Quits(lines[Len(lines)], m)
      BY <1>a, <3>2, <3>3
    <3>6. \A n \in Names : \A i \in DOMAIN lines :
              /\ lines[i].kind = "logged" /\ lines[i].who = n => i = 1 /\ n \notin inGame
              /\ lines[i].kind = "joined" /\ lines[i].who = n =>
                   i = 2 /\ lines[1].kind = "logged" /\ lines[1].who = n
      BY <2>1, <3>2, LinesAre
    <3>7. QED  BY <2>1, <2>2, <3>1, <3>2, <3>4, <3>5, <3>6, PrintsKeepBelief
  <2>3. QED  BY <1>2, <2>2, ServerPrints
<1>3. ASSUME NEW m \in Names, Leaves(m) PROVE Belief'
  <2>1. alive /\ UNCHANGED <<alive, link, online, blurred>> /\ inGame' = inGame \ {m}
    BY <1>3 DEF Leaves, Following
  <2>2. ASSUME NEW lines \in {Goodbye(m), <<Line("lost", m)>>}, Prints(lines) PROVE Belief'
    <3>1. lines \in Seq(Lines)
      BY <2>2, ServerPrints
    <3>2. lines # <<>> /\ Len(lines) \in DOMAIN lines
          /\ \A i \in DOMAIN lines : lines[i] = Line("lost", m) \/ lines[i] = Line("left", m)
      BY DEF Goodbye
    <3> HIDE DEF Lines
    <3>3. \A i \in DOMAIN lines : \E kind \in {"lost", "left"} : lines[i] = Line(kind, m)
      BY <3>2
    <3>4. \A n \in Names : n # m => \A i \in DOMAIN lines : ~Enters(lines[i], n) /\ ~Quits(lines[i], n)
      BY <1>a, <3>3
    <3>5. Quits(lines[Len(lines)], m) /\ ~Enters(lines[Len(lines)], m)
      BY <1>a, <3>2, <3>3
    <3>6. \A i \in DOMAIN lines : lines[i].kind \in {"lost", "left"}
      BY <3>2, LinesAre
    <3>7. QED  BY <2>1, <2>2, <3>1, <3>2, <3>4, <3>5, <3>6, PrintsKeepBelief
  <2>3. QED  BY <1>3, <2>2, ServerPrints
<1>4. CASE Lists
  <2> DEFINE lines == <<Reply("list", inGame)>>
  <2>1. alive /\ UNCHANGED <<alive, inGame, link, online, blurred>> /\ Prints(lines)
    BY <1>4 DEF Lists
  <2>2. lines \in Seq(Lines) /\ lines # <<>> /\ DOMAIN lines = {1} /\ Len(lines) = 1
    BY RepliesPrint, MayBeListed
  <2>3. lines[1].kind = "list" /\ lines[1].names = inGame
    BY LinesAre
  <2> HIDE DEF lines
  <2>4. \A n \in Names : /\ Enters(lines[1], n) <=> n \in inGame
                         /\ Quits(lines[1], n) <=> n \notin inGame
    BY <2>3, LineSays
  <2>5. QED  BY <2>1, <2>2, <2>3, <2>4, PrintsKeepBelief
<1>b. ASSUME NEW names \in Lookalikes, Resembles(names) PROVE Belief'
  <2> DEFINE lines == <<Reply("like", names)>>
  <2>1. alive /\ UNCHANGED <<alive, inGame, link, online, blurred>> /\ Prints(lines)
    BY <1>b DEF Resembles
  <2>2. lines \in Seq(Lines) /\ lines # <<>> /\ DOMAIN lines = {1}
    BY RepliesPrint, MayBeListed
  <2>3. lines[1].kind = "like"
    BY LinesAre
  <2> HIDE DEF lines
  <2>4. \A n \in Names : \A i \in DOMAIN lines : ~Enters(lines[i], n) /\ ~Quits(lines[i], n)
    BY <1>0, <2>2, <2>3
  <2>5. QED  BY <2>1, <2>2, <2>3, <2>4, PrintsKeepBelief
<1>5. CASE Dies \/ LineEvent \/ Records \/ RecordFails
  BY <1>5, SameBelief DEF Dies, LineEvent, Records, RecordFails
<1>c. ASSUME NEW old \in BOOLEAN, old,
             ReadsUuid(old) \/ ReadsJoin(old) \/ ReadsLeave(old) \/ ReadsList(old)
      PROVE  Belief'
  <2>1. \E kinds : Reading(old, kinds)
    BY <1>c, Zenon DEF ReadsUuid, ReadsJoin, ReadsLeave, ReadsList
  <2>2. log' = log
    BY <1>c, <2>1, HeadIs
  <2>3. /\ UNCHANGED <<link, alive, inGame>>
        /\ blurred' = blurred \cup Changed
    BY <1>c DEF ReadsUuid, ReadsJoin, ReadsLeave, ReadsList, Changed
  <2>4. QED  BY <2>2, <2>3, LateKeepsBelief
<1>6. ASSUME NEW old \in BOOLEAN, ~old, ReadsUuid(old) PROVE Belief'
  <2>1. Reading(old, {"uuid"}) /\ UNCHANGED <<alive, inGame, link, online, blurred>>
    BY <1>6 DEF ReadsUuid
  <2>2. log # <<>> /\ log' = Tail(log) /\ log[1].kind = "uuid"
    BY <1>6, <2>1, HeadIs
  <2>3. QED  BY <1>0, <2>1, <2>2, ReadsKeepBelief
<1>7. ASSUME NEW old \in BOOLEAN, ~old, ReadsJoin(old) PROVE Belief'
  <2> DEFINE m == LineRead(old).who
             x == log[1]
  <2>1. Reading(old, {"logged", "joined"}) /\ UNCHANGED <<alive, inGame, link>>
        /\ online' = online \cup {m} /\ blurred' = blurred \ {m}
    BY <1>7 DEF ReadsJoin
  <2>2. log # <<>> /\ log' = Tail(log) /\ x.kind \in {"logged", "joined"} /\ x.who = m
    BY <1>7, <2>1, HeadIs
  <2> HIDE DEF m, x
  <2>3. \A n \in Names : (Enters(x, n) <=> n = m) /\ ~Quits(x, n)
    BY <2>2, LineSays
  <2>4. QED  BY <2>1, <2>2, <2>3, ReadsKeepBelief DEF x
<1>8. ASSUME NEW old \in BOOLEAN, ~old, ReadsLeave(old) PROVE Belief'
  <2> DEFINE m == LineRead(old).who
             x == log[1]
  <2>1. Reading(old, {"lost", "left"}) /\ UNCHANGED <<alive, inGame, link>>
        /\ online' = online \ {m} /\ blurred' = blurred \ {m}
    BY <1>8 DEF ReadsLeave, Gone
  <2>2. log # <<>> /\ log' = Tail(log) /\ x.kind \in {"lost", "left"} /\ x.who = m
    BY <1>8, <2>1, HeadIs
  <2> HIDE DEF m, x
  <2>3. \A n \in Names : (Quits(x, n) <=> n = m) /\ ~Enters(x, n) /\ x.kind # "logged"
    BY <2>2, LineSays
  <2>4. QED  BY <2>1, <2>2, <2>3, ReadsKeepBelief DEF x
<1>9. ASSUME NEW old \in BOOLEAN, ~old, ReadsList(old) PROVE Belief'
  <2> DEFINE x == log[1]
  <2>1. /\ Reading(old, {"list", "like"}) /\ UNCHANGED <<alive, inGame, link>>
        /\ online' = LineRead(old).names
        /\ blurred' = IF old \/ LineRead(old).kind = "like" THEN blurred \cup Changed ELSE {}
    BY <1>9, Zenon DEF ReadsList, Listed
  <2>2. /\ log # <<>> /\ log' = Tail(log) /\ x.kind \in {"list", "like"} /\ online' = x.names
        /\ blurred' = IF x.kind = "like" THEN blurred \cup Changed ELSE {}
    BY <1>9, <2>1, HeadIs
  <2> HIDE DEF x
  <2>3. CASE x.kind = "list"
    <3>1. \A n \in Names : /\ Enters(x, n) <=> n \in online'
                           /\ Quits(x, n) <=> n \notin online'
      BY <2>2, <2>3, LineSays
    <3>2. QED  BY <2>1, <2>2, <2>3, <3>1, ReadsKeepBelief DEF x
  <2>4. CASE x.kind = "like"
    <3>1. \A n \in Names : ~Enters(x, n) /\ ~Quits(x, n)
      BY <1>0, <2>4
    <3>2. \A n \in Names : n \notin blurred' => n \notin blurred /\ (n \in online' <=> n \in online)
      BY <2>2, <2>4 DEF Changed
    <3>3. QED  BY <2>1, <2>2, <2>4, <3>1, <3>2, ReadsKeepBelief DEF x
  <2>5. QED  BY <2>2, <2>3, <2>4
<1>10. CASE Starts
  BY <1>10, NoLinesLeft DEF Starts, Forgets, Following
<1>11. CASE SupervisionEnds \/ Releases
  BY <1>11, NoLinesLeft DEF SupervisionEnds, Releases, LosesLines
<1>12. CASE Rotates
  <2>1. /\ log' = <<>> /\ link = "adopted" /\ blurred' = blurred \cup Unread(log)
        /\ UNCHANGED <<alive, inGame, link, online>>
    BY <1>12 DEF Rotates, LosesLines
  <2>2. ASSUME alive, NEW n \in Names, n \notin blurred' PROVE n \in online <=> n \in inGame
    <3>1. LastIsTrue(n)
      BY <2>1, <2>2 DEF Belief, Followed
    <3>2. \A i \in DOMAIN log : log[i].kind # "list" /\ log[i].who # n
      BY <2>1, <2>2 DEF Following, Unread
    <3>3. \A i \in DOMAIN log : ~Quits(log[i], n) /\ ~Enters(log[i], n)
      BY <3>2 DEF Enters, Quits
    <3>4. QED  BY <2>1, <2>2, <3>1, <3>3 DEF LastIsTrue
  <2>3. QED  BY <2>1, <2>2, NoLinesLeft
<1>13. CASE MsmStops
  BY <1>13, NoLinesLeft DEF MsmStops, Followed
<1>14. CASE MsmBoots
  BY <1>14, NoLinesLeft DEF MsmBoots, Following
<1>15. QED
  BY <1>1, <1>2, <1>3, <1>4, <1>b, <1>5, <1>c, <1>6, <1>7, <1>8, <1>9, <1>10, <1>11, <1>12, <1>13,
     <1>14 DEF PlayersNext

-----------------------------------------------------------------------------
(***************************************************************************)
(* Players: what is counted.                                               *)
(***************************************************************************)
\* The arrivals that are still to be read.
ToRead(n) == Times(log, Line("logged", n)) + Times(late, Line("logged", n))

Owed(n) == (rows[n] + Times(bus, Line("join", n)) + Times(log, Line("logged", n))
            + Times(late, Line("logged", n))) - due[n]

LEMMA ToReadType ==
    ASSUME NEW n \in Names
    PROVE  /\ PlayersTypeOK => ToRead(n) \in Nat
           /\ PlayersTypeOK' => ToRead(n)' \in Nat
           /\ PlayersTypeOK => Owed(n) = (rows[n] + Times(bus, Line("join", n)) + ToRead(n)) - due[n]
           /\ PlayersTypeOK' =>
                 Owed(n)' = (rows'[n] + Times(bus', Line("join", n)) + ToRead(n)') - due'[n]
<1>0. \A r, b, l, k, d \in Int : (r + b + l + k) - d = (r + b + (l + k)) - d
  OBVIOUS
<1>1. ASSUME PlayersTypeOK
      PROVE  /\ ToRead(n) \in Nat
             /\ Owed(n) = (rows[n] + Times(bus, Line("join", n)) + ToRead(n)) - due[n]
  <2>1. /\ Times(log, Line("logged", n)) \in Nat /\ Times(late, Line("logged", n)) \in Nat
        /\ Times(bus, Line("join", n)) \in Nat /\ rows[n] \in Nat /\ due[n] \in Int
    BY <1>1, TimesType DEF PlayersTypeOK
  <2>2. QED  BY <1>0, <2>1 DEF ToRead, Owed
<1>2. ASSUME PlayersTypeOK'
      PROVE  /\ ToRead(n)' \in Nat
             /\ Owed(n)' = (rows'[n] + Times(bus', Line("join", n)) + ToRead(n)') - due'[n]
  <2>1. /\ Times(log', Line("logged", n)) \in Nat /\ Times(late', Line("logged", n)) \in Nat
        /\ Times(bus', Line("join", n)) \in Nat /\ rows'[n] \in Nat /\ due'[n] \in Int
    BY <1>2, TimesType DEF PlayersTypeOK
  <2>2. QED  BY <1>0, <2>1 DEF ToRead, Owed
<1>3. QED  BY <1>1, <1>2

\* It is the drift.
LEMMA OwedIsDrift ==
    /\ Drift = [n \in Names |-> Owed(n)] /\ Drift' = [n \in Names |-> Owed(n)']
    /\ PlayersTypeOK => Drift \in [Names -> Int]
    /\ PlayersTypeOK' => Drift' \in [Names -> Int]
<1>1. \A n \in Names : Sessions(n) = rows[n] + Times(bus, Line("join", n)) + Times(log, Line("logged", n))
                                        + Times(late, Line("logged", n))
  BY ArrivalsAre, Zenon DEF Sessions
<1>2. \A n \in Names : Sessions(n)' = rows'[n] + Times(bus', Line("join", n)) + Times(log', Line("logged", n))
                                        + Times(late', Line("logged", n))
  BY ArrivalsAre, Zenon DEF Sessions
<1>3. Drift = [n \in Names |-> Owed(n)]
  <2>1. \A n \in Names : Sessions(n) - due[n] = Owed(n)
    BY <1>1 DEF Owed
  <2>2. QED  BY <2>1, Zenon DEF Drift
<1>4. Drift' = [n \in Names |-> Owed(n)']
  <2>1. \A n \in Names : Sessions(n)' - due'[n] = Owed(n)'
    BY <1>2 DEF Owed
  <2>2. QED  BY <2>1, Zenon DEF Drift
<1>5. ASSUME PlayersTypeOK, NEW n \in Names PROVE Owed(n) \in Int
  <2>1. /\ ToRead(n) \in Nat /\ Owed(n) = (rows[n] + Times(bus, Line("join", n)) + ToRead(n)) - due[n]
    BY <1>5, ToReadType
  <2>2. Times(bus, Line("join", n)) \in Nat /\ rows[n] \in Nat /\ due[n] \in Int
    BY <1>5, TimesType DEF PlayersTypeOK
  <2>3. QED  BY <2>1, <2>2
<1>6. ASSUME PlayersTypeOK', NEW n \in Names PROVE Owed(n)' \in Int
  <2>1. /\ ToRead(n)' \in Nat
        /\ Owed(n)' = (rows'[n] + Times(bus', Line("join", n)) + ToRead(n)') - due'[n]
    BY <1>6, ToReadType
  <2>2. Times(bus', Line("join", n)) \in Nat /\ rows'[n] \in Nat /\ due'[n] \in Int
    BY <1>6, TimesType DEF PlayersTypeOK
  <2>3. QED  BY <2>1, <2>2
<1>7. QED  BY <1>3, <1>4, <1>5, <1>6

\* When what is owed to each does not change, nothing does.
LEMMA SameOwed ==
    ASSUME Balance, alike' = alike, \A n \in Names : Owed(n)' = Owed(n)
    PROVE  Balance'
<1>1. Drift' = Drift
  BY OwedIsDrift
<1>2. QED  BY <1>1 DEF Balance

\* Different lines.
LEMMA LinesDiffer ==
    /\ \A a, b, m, n : Line(a, m) = Line(b, n) <=> a = b /\ m = n
    /\ \A kind \in {"list", "like"} : \A names, n : Reply(kind, names) # Line("logged", n)
<1>1. \A a, m : Line(a, m).kind = a /\ Line(a, m).who = m
  BY LinesAre
<1>2. \A a, b, m, n : Line(a, m) = Line(b, n) => a = b /\ m = n
  BY <1>1
<1>3. \A kind, names : Reply(kind, names).kind = kind
  BY DEF Reply
<1>4. QED  BY <1>1, <1>2, <1>3

\* Of two lines.
LEMMA TimesTwo ==
    ASSUME NEW E, NEW a \in E, NEW b \in E, NEW x
    PROVE  Times(<<a, b>>, x) = (IF a = x THEN 1 ELSE 0) + (IF b = x THEN 1 ELSE 0)
<1>1. <<a, b>> \in Seq(E) /\ <<a, b>> # <<>> /\ Head(<<a, b>>) = a /\ Tail(<<a, b>>) = <<b>>
  OBVIOUS
<1>2. Times(<<a, b>>, x) = Times(<<b>>, x) + IF a = x THEN 1 ELSE 0
  BY <1>1, TimesHead
<1>3. Times(<<b>>, x) = IF b = x THEN 1 ELSE 0
  BY TimesOne
<1>4. QED  BY <1>2, <1>3

\* Owed as much, as long as the events, the lines and what is due agree.
LEMMA EquallyOwed ==
    ASSUME PlayersTypeOK, PlayersTypeOK', rows' = rows, NEW n \in Names,
           (Times(bus', Line("join", n)) + ToRead(n)') - due'[n] =
              (Times(bus, Line("join", n)) + ToRead(n)) - due[n]
    PROVE  Owed(n)' = Owed(n)
<1>1. /\ rows[n] \in Int /\ due[n] \in Int /\ due'[n] \in Int
      /\ Times(bus, Line("join", n)) \in Int /\ Times(bus', Line("join", n)) \in Int
  BY TimesType DEF PlayersTypeOK
<1>2. ToRead(n) \in Int /\ ToRead(n)' \in Int
  BY ToReadType
<1>3. \A r, b, c, d, e, k, l \in Int : (c + l) - e = (b + k) - d => (r + c + l) - e = (r + b + k) - d
  OBVIOUS
<1>4. (rows[n] + Times(bus', Line("join", n)) + ToRead(n)') - due'[n] =
         (rows[n] + Times(bus, Line("join", n)) + ToRead(n)) - due[n]
  BY <1>1, <1>2, <1>3
<1>5. QED  BY <1>4, ToReadType

\* Each arrival that is printed, and may be read, is due.
LEMMA PrintsOwe ==
    ASSUME PlayersTypeOK, PlayersTypeOK', NEW lines \in Seq(Lines), Prints(lines),
           UNCHANGED <<rows, bus, late>>,
           \A n \in Names : due'[n] = due[n] + IF Followed THEN Times(lines, Line("logged", n)) ELSE 0
    PROVE  \A n \in Names : Owed(n)' = Owed(n)
<1> SUFFICES ASSUME NEW n \in Names PROVE Owed(n)' = Owed(n)
  OBVIOUS
<1> DEFINE x == Line("logged", n)
           y == Line("join", n)
<1>1. /\ log \in Seq(Lines) /\ due[n] \in Int /\ Times(bus, y) \in Nat
      /\ Times(log, x) \in Nat /\ Times(late, x) \in Nat /\ Times(lines, x) \in Nat
  BY TimesType DEF PlayersTypeOK
<1>2. Times(log', x) = Times(log, x) + IF Followed THEN Times(lines, x) ELSE 0
  <2>1. Times(log \o lines, x) = Times(log, x) + Times(lines, x)
    BY <1>1, TimesConcat
  <2>2. log' = IF Followed THEN log \o lines ELSE log
    BY DEF Prints
  <2>3. QED  BY <1>1, <2>1, <2>2
<1>3. ToRead(n) = Times(log, x) + Times(late, x) /\ ToRead(n)' = Times(log', x) + Times(late, x)
  BY DEF ToRead
<1>4. due'[n] = due[n] + IF Followed THEN Times(lines, x) ELSE 0
  OBVIOUS
<1>5. bus' = bus
  OBVIOUS
<1> HIDE DEF x
<1>6. (Times(bus', y) + ToRead(n)') - due'[n] = (Times(bus, y) + ToRead(n)) - due[n]
  <2> HIDE DEF y
  <2>1. QED  BY <1>1, <1>2, <1>3, <1>4, <1>5
<1>7. QED  BY <1>6, EquallyOwed

\* A line that is read is one less to be read.
LEMMA ReadCounts ==
    ASSUME PlayersTypeOK, NEW old \in BOOLEAN, NEW kinds, Reading(old, kinds), NEW n \in Names
    PROVE  ToRead(n) = ToRead(n)' + IF LineRead(old) = Line("logged", n) THEN 1 ELSE 0
<1> DEFINE x == Line("logged", n)
<1>1. /\ log \in Seq(Lines) /\ late \in Seq(Lines) /\ log' \in Seq(Lines) /\ late' \in Seq(Lines)
  BY HeadIs DEF PlayersTypeOK
<1>2. /\ Times(log, x) \in Nat /\ Times(late, x) \in Nat /\ Times(log', x) \in Nat /\ Times(late', x) \in Nat
  BY <1>1, TimesType
<1>3. ToRead(n) = Times(log, x) + Times(late, x) /\ ToRead(n)' = Times(log', x) + Times(late', x)
  BY DEF ToRead
<1>4. CASE old
  <2>1. late # <<>> /\ late' = Tail(late) /\ LineRead(old) = Head(late) /\ log' = log
    BY <1>4, HeadIs
  <2>2. Times(late, x) = Times(late', x) + IF LineRead(old) = x THEN 1 ELSE 0
    BY <1>1, <2>1, TimesHead
  <2> HIDE DEF x
  <2>3. QED  BY <1>2, <1>3, <2>1, <2>2 DEF x
<1>5. CASE ~old
  <2>1. log # <<>> /\ log' = Tail(log) /\ LineRead(old) = Head(log) /\ late' = late
    BY <1>5, HeadIs
  <2>2. Times(log, x) = Times(log', x) + IF LineRead(old) = x THEN 1 ELSE 0
    BY <1>1, <2>1, TimesHead
  <2> HIDE DEF x
  <2>3. QED  BY <1>2, <1>3, <2>1, <2>2 DEF x
<1>6. QED  BY <1>4, <1>5

LEMMA ReadsOwe ==
    ASSUME PlayersTypeOK, PlayersTypeOK', NEW old \in BOOLEAN, NEW kinds, Reading(old, kinds),
           rows' = rows, NEW n \in Names,
           Times(bus', Line("join", n)) - due'[n] =
              Times(bus, Line("join", n)) + (IF LineRead(old) = Line("logged", n) THEN 1 ELSE 0) - due[n]
    PROVE  Owed(n)' = Owed(n)
<1> DEFINE y == Line("join", n)
           h == IF LineRead(old) = Line("logged", n) THEN 1 ELSE 0
<1>1. /\ due[n] \in Int /\ due'[n] \in Int /\ Times(bus, y) \in Int /\ Times(bus', y) \in Int
  BY TimesType DEF PlayersTypeOK
<1>2. ToRead(n) \in Int /\ ToRead(n)' \in Int /\ ToRead(n) = ToRead(n)' + h /\ h \in Int
  BY ToReadType, ReadCounts
<1>3. Times(bus', y) - due'[n] = Times(bus, y) + h - due[n]
  OBVIOUS
<1>4. \A b, c, d, e, l, i \in Int : c - e = b + i - d => (c + l) - e = (b + (l + i)) - d
  OBVIOUS
<1> HIDE DEF y, h
<1>5. (Times(bus', y) + ToRead(n)') - due'[n] = (Times(bus, y) + ToRead(n)) - due[n]
  BY <1>1, <1>2, <1>3, <1>4
<1>6. QED  BY <1>5, EquallyOwed DEF y

\* What is neither read nor recorded is no longer due.
LEMMA LossOwes ==
    ASSUME PlayersTypeOK, PlayersTypeOK', rows' = rows, NEW n \in Names, NEW a \in Nat, NEW b \in Nat,
           ToRead(n) = ToRead(n)' + a,
           Times(bus, Line("join", n)) = Times(bus', Line("join", n)) + b,
           due'[n] = due[n] - a - b
    PROVE  Owed(n)' = Owed(n)
<1>1. /\ due[n] \in Int /\ Times(bus', Line("join", n)) \in Nat
  BY TimesType DEF PlayersTypeOK
<1>2. ToRead(n)' \in Nat
  BY ToReadType
<1>3. (Times(bus', Line("join", n)) + ToRead(n)') - due'[n] = (Times(bus, Line("join", n)) + ToRead(n)) - due[n]
  BY <1>1, <1>2
<1>4. QED  BY <1>3, EquallyOwed

\* Whatever happens but a record, each player is owed as much.
LEMMA OwedStep ==
    ASSUME PlayersTypeOK, PlayersTypeOK', Belief, PlayersNext, ~Records
    PROVE  alike' = alike /\ \A n \in Names : Owed(n)' = Owed(n)
<1> USE DEF game, memory, store, history
<1>0. /\ log \in Seq(Lines) /\ log' \in Seq(Lines) /\ late \in Seq(Lines) /\ late' \in Seq(Lines)
      /\ bus \in Seq(Heard) /\ bus' \in Seq(Heard)
      /\ rows \in [Names -> Nat] /\ due \in [Names -> Int] /\ due' \in [Names -> Int]
  BY DEF PlayersTypeOK
<1>t. \A n : /\ Times(log, Line("logged", n)) \in Nat /\ Times(log', Line("logged", n)) \in Nat
             /\ Times(late, Line("logged", n)) \in Nat /\ Times(late', Line("logged", n)) \in Nat
             /\ Times(bus, Line("join", n)) \in Nat /\ Times(bus', Line("join", n)) \in Nat
  BY <1>0, TimesType
<1>e. \A n : Times(<<>>, Line("logged", n)) = 0 /\ Times(<<>>, Line("join", n)) = 0
  BY TimesOne
<1>u. \A n \in Names : /\ Times(bus, Line("join", n)) + 0 - due[n] = Times(bus, Line("join", n)) - due[n]
                       /\ Times(bus, Line("join", n)) + 1 - due[n] = Times(bus, Line("join", n)) - (due[n] - 1)
  BY <1>0, <1>t
<1>1. ASSUME NEW lines \in Seq(Lines), Prints(lines), UNCHANGED <<rows, bus, late, due, alike>>,
             \A n \in Names : Times(lines, Line("logged", n)) = 0
      PROVE  alike' = alike /\ \A n \in Names : Owed(n)' = Owed(n)
  <2>1. \A n \in Names : due'[n] = due[n] + IF Followed THEN Times(lines, Line("logged", n)) ELSE 0
    BY <1>0, <1>1
  <2>2. QED  BY <1>1, <2>1, PrintsOwe
<1>2. ASSUME NEW m \in Names, Knocks(m) PROVE alike' = alike /\ \A n \in Names : Owed(n)' = Owed(n)
  <2>1. <<Line("uuid", m)>> \in Seq(Lines) /\ Prints(<<Line("uuid", m)>>)
    BY <1>2, ServerPrints
  <2>2. UNCHANGED <<rows, bus, late, due, alike>>
    BY <1>2 DEF Knocks
  <2>3. \A n \in Names : Times(<<Line("uuid", m)>>, Line("logged", n)) = 0
    BY TimesOne, LinesDiffer
  <2>4. QED  BY <1>1, <2>1, <2>2, <2>3
<1>3. ASSUME NEW m \in Names, Arrives(m) PROVE alike' = alike /\ \A n \in Names : Owed(n)' = Owed(n)
  <2>1. /\ UNCHANGED <<rows, bus, late, alike>>
        /\ due' = IF Followed THEN [due EXCEPT ![m] = @ + 1] ELSE due
    BY <1>3 DEF Arrives
  <2>2. ASSUME NEW lines \in {Announced1(m), Announced2(m)}, Prints(lines)
        PROVE  \A n \in Names : Owed(n)' = Owed(n)
    <3>1. lines \in Seq(Lines)
      BY <2>2, ServerPrints
    <3>2. Line("logged", m) \in Lines /\ Line("joined", m) \in Lines
      BY LinesAre
    <3>3. \A n \in Names : Times(lines, Line("logged", n)) = IF n = m THEN 1 ELSE 0
      <4>1. CASE lines = Announced1(m)
        BY <4>1, TimesOne, LinesDiffer DEF Announced1
      <4>2. CASE lines = Announced2(m)
        <5>1. \A n \in Names : Times(<<Line("logged", m), Line("joined", m)>>, Line("logged", n)) =
                 (IF Line("logged", m) = Line("logged", n) THEN 1 ELSE 0)
                 + (IF Line("joined", m) = Line("logged", n) THEN 1 ELSE 0)
          <6> HIDE DEF Lines
          <6>1. QED  BY <3>2, TimesTwo
        <5>2. QED  BY <4>2, <5>1, LinesDiffer DEF Announced2
      <4>3. QED  BY <2>2, <4>1, <4>2
    <3>4. \A n \in Names : due'[n] = due[n] + IF Followed THEN Times(lines, Line("logged", n)) ELSE 0
      BY <1>0, <2>1, <3>3
    <3>5. QED  BY <2>1, <2>2, <3>1, <3>4, PrintsOwe
  <2>3. QED  BY <1>3, <2>1, <2>2, ServerPrints
<1>4. ASSUME NEW m \in Names, Leaves(m) PROVE alike' = alike /\ \A n \in Names : Owed(n)' = Owed(n)
  <2>1. UNCHANGED <<rows, bus, late, due, alike>>
    BY <1>4 DEF Leaves
  <2>2. Line("lost", m) \in Lines /\ Line("left", m) \in Lines
    BY LinesAre
  <2>3. \A n \in Names : Times(<<Line("lost", m)>>, Line("logged", n)) = 0
    BY TimesOne, LinesDiffer
  <2>4. \A n \in Names : Times(Goodbye(m), Line("logged", n)) = 0
    <3>1. \A n \in Names : Times(<<Line("lost", m), Line("left", m)>>, Line("logged", n)) =
             (IF Line("lost", m) = Line("logged", n) THEN 1 ELSE 0)
             + (IF Line("left", m) = Line("logged", n) THEN 1 ELSE 0)
      <4> HIDE DEF Lines
      <4>1. QED  BY <2>2, TimesTwo
    <3>2. QED  BY <3>1, LinesDiffer DEF Goodbye
  <2>5. \E lines \in {Goodbye(m), <<Line("lost", m)>>} : lines \in Seq(Lines) /\ Prints(lines)
    BY <1>4, ServerPrints, Zenon
  <2>6. QED  BY <1>1, <2>1, <2>3, <2>4, <2>5
<1>5. ASSUME Lists \/ \E names \in Lookalikes : Resembles(names)
      PROVE  alike' = alike /\ \A n \in Names : Owed(n)' = Owed(n)
  <2>1. UNCHANGED <<rows, bus, late, due, alike>>
    BY <1>5 DEF Lists, Resembles
  <2>2. PICK kind \in {"list", "like"}, names \in SUBSET Shown :
           Prints(<<Reply(kind, names)>>) /\ (kind = "list" => names \subseteq Names)
    BY <1>5, MayBeListed DEF Lists, Resembles
  <2>3. <<Reply(kind, names)>> \in Seq(Lines)
    BY <2>2, RepliesPrint
  <2>4. \A n \in Names : Times(<<Reply(kind, names)>>, Line("logged", n)) = 0
    BY TimesOne, LinesDiffer
  <2>5. QED  BY <1>1, <2>1, <2>2, <2>3, <2>4
<1>6. CASE Dies \/ Starts \/ MsmBoots
  <2>1. UNCHANGED <<rows, bus, due, alike, log, late>>
    BY <1>6 DEF Dies, Starts, MsmBoots
  <2>2. QED  BY <2>1 DEF Owed
<1>7. CASE SupervisionEnds
  <2>1. UNCHANGED <<rows, bus, due, alike>> /\ late' = late \o log /\ log' = <<>>
    BY <1>7 DEF SupervisionEnds
  <2>2. ASSUME NEW n \in Names PROVE Owed(n)' = Owed(n)
    <3>1. Times(late \o log, Line("logged", n)) = Times(late, Line("logged", n)) + Times(log, Line("logged", n))
      BY <1>0, TimesConcat
    <3>2. ToRead(n)' = 0 + (Times(late, Line("logged", n)) + Times(log, Line("logged", n)))
      BY <1>e, <2>1, <3>1 DEF ToRead
    <3>3. ToRead(n)' = ToRead(n)
      BY <1>t, <3>2 DEF ToRead
    <3>4. QED  BY <2>1, <3>3, EquallyOwed
  <2>3. QED  BY <2>1, <2>2
<1>8. ASSUME NEW old \in BOOLEAN, NEW kinds, Reading(old, kinds), "logged" \notin kinds,
             UNCHANGED <<rows, alike>>,
             \A n \in Names : Times(bus', Line("join", n)) - due'[n] = Times(bus, Line("join", n)) - due[n]
      PROVE  alike' = alike /\ \A n \in Names : Owed(n)' = Owed(n)
  <2>1. LineRead(old).kind # "logged"
    BY <1>8, HeadIs
  <2>2. ASSUME NEW n \in Names PROVE Owed(n)' = Owed(n)
    <3>1. LineRead(old) # Line("logged", n)
      BY <2>1, LinesAre
    <3>2. Times(bus', Line("join", n)) - due'[n] =
             Times(bus, Line("join", n)) + (IF LineRead(old) = Line("logged", n) THEN 1 ELSE 0) - due[n]
      <4>1. Times(bus', Line("join", n)) - due'[n] = Times(bus, Line("join", n)) - due[n]
        BY <1>8
      <4>2. QED  BY <1>0, <1>t, <3>1, <4>1
    <3>3. QED  BY <1>8, <3>2, ReadsOwe
  <2>3. QED  BY <1>8, <2>2
<1>9. ASSUME NEW old \in BOOLEAN, ReadsUuid(old) \/ ReadsList(old)
      PROVE  alike' = alike /\ \A n \in Names : Owed(n)' = Owed(n)
  <2>1. UNCHANGED <<rows, alike, bus, due>> /\ (Reading(old, {"uuid"}) \/ Reading(old, {"list", "like"}))
    BY <1>9 DEF ReadsUuid, ReadsList
  <2>2. QED  BY <1>8, <2>1
<1>10. ASSUME NEW old \in BOOLEAN, ReadsLeave(old)
       PROVE  alike' = alike /\ \A n \in Names : Owed(n)' = Owed(n)
  <2> DEFINE m == LineRead(old).who
  <2>1. Reading(old, {"lost", "left"}) /\ UNCHANGED <<rows, alike>>
    BY <1>10 DEF ReadsLeave
  <2>2. m \in Names
    BY <2>1, HeadIs, LinesAre
  <2>3. \A n \in Names : Times(bus', Line("join", n)) - due'[n] = Times(bus, Line("join", n)) - due[n]
    <3>1. CASE Gone(m)
      BY <1>10, <3>1 DEF ReadsLeave
    <3>2. CASE ~Gone(m)
      <4>1. Announces(Line("leave", m), due) /\ Line("leave", m) \in Heard
        BY <1>10, <2>2, <3>2, HeardAre, Zenon DEF ReadsLeave
      <4>2. \A n \in Names : Times(bus', Line("join", n)) - due'[n] =
                 Times(bus, Line("join", n)) + (IF Line("leave", m) = Line("join", n) THEN 1 ELSE 0) - due[n]
        BY <1>0, <4>1, AnnouncesEffect
      <4>3. QED  BY <1>u, <4>2, LinesDiffer
    <3>3. QED  BY <3>1, <3>2
  <2>4. QED  BY <1>8, <2>1, <2>3
<1>11. CASE LineEvent
  <2>1. Announces(Line("other", "nobody"), due) /\ UNCHANGED <<rows, alike, log, late>>
    BY <1>11 DEF LineEvent
  <2>2. \A n \in Names : Times(bus', Line("join", n)) - due'[n] =
             Times(bus, Line("join", n)) + (IF Line("other", "nobody") = Line("join", n) THEN 1 ELSE 0) - due[n]
    <3>1. Line("other", "nobody") \in Heard
      BY HeardAre
    <3>2. QED  BY <1>0, <2>1, <3>1, AnnouncesEffect
  <2>3. \A n \in Names : Times(bus', Line("join", n)) - due'[n] = Times(bus, Line("join", n)) - due[n]
    BY <1>u, <2>2, LinesDiffer
  <2>4. ASSUME NEW n \in Names PROVE Owed(n)' = Owed(n)
    <3>1. Times(bus', Line("join", n)) - due'[n] = Times(bus, Line("join", n)) - due[n]
      BY <2>3
    <3>2. \A b, c, d, f, l \in Int : c - f = b - d => (c + l) - f = (b + l) - d
      OBVIOUS
    <3>3. /\ Times(bus, Line("join", n)) \in Int /\ Times(bus', Line("join", n)) \in Int
          /\ due[n] \in Int /\ due'[n] \in Int /\ ToRead(n) \in Int /\ ToRead(n)' = ToRead(n)
      BY <1>0, <1>t, <2>1, ToReadType DEF ToRead
    <3>4. (Times(bus', Line("join", n)) + ToRead(n)') - due'[n] = (Times(bus, Line("join", n)) + ToRead(n)) - due[n]
      BY <3>1, <3>2, <3>3
    <3>5. QED  BY <2>1, <3>4, EquallyOwed
  <2>5. QED  BY <2>1, <2>4
<1>12. ASSUME NEW old \in BOOLEAN, ReadsJoin(old)
       PROVE  alike' = alike /\ \A n \in Names : Owed(n)' = Owed(n)
  <2> DEFINE m == LineRead(old).who
             x == LineRead(old)
             first == LineRead(old).kind = "logged"
  <2>1. Reading(old, {"logged", "joined"}) /\ UNCHANGED <<rows, alike>>
    BY <1>12 DEF ReadsJoin
  <2>2. /\ m \in Names /\ x.kind \in {"logged", "joined"}
        /\ \A n \in Names : x = Line("logged", n) <=> first /\ n = m
    BY <2>1, HeadIs, LinesAre
  <2>3. ~old /\ m \notin blurred => (first <=> New(m))
    <3>1. SUFFICES ASSUME ~old, m \notin blurred PROVE first <=> New(m)
      OBVIOUS
    <3>2. log # <<>> /\ x = log[1] /\ 1 \in DOMAIN log
      BY <1>0, <2>1, <3>1, HeadIs
    <3>3. FirstTold(m) /\ Second(m)
      BY <2>2 DEF Belief
    <3>4. CASE first
      <4>1. ~(m \in online)
        BY <3>1, <3>2, <3>3, <3>4 DEF FirstTold
      <4>2. QED  BY <3>4, <4>1 DEF New
    <3>5. CASE ~first
      BY <2>2, <3>1, <3>2, <3>3, <3>5 DEF Second, New
    <3>6. QED  BY <3>4, <3>5
  <2>4. \A n \in Names : /\ JoinOwed(old)[n] \in Int
                         /\ (IF New(m) /\ n = m THEN 1 ELSE 0) - JoinOwed(old)[n] =
                              (IF first /\ n = m THEN 1 ELSE 0) - due[n]
    <3>1. CASE first <=> New(m)
      <4>1. JoinOwed(old) = due
        <5>1. first = New(m)
          BY <3>1 DEF New
        <5>2. QED  BY <5>1, Zenon DEF JoinOwed
      <4>2. QED  BY <1>0, <3>1, <4>1
    <3>2. CASE first /\ ~New(m)
      <4>1. JoinOwed(old) = [due EXCEPT ![m] = @ - 1]
        BY <2>3, <3>2, Zenon DEF JoinOwed
      <4>2. QED  BY <1>0, <2>2, <3>2, <4>1
    <3>3. CASE ~first /\ New(m)
      <4>1. JoinOwed(old) = [due EXCEPT ![m] = @ + 1]
        BY <2>3, <3>3, Zenon DEF JoinOwed
      <4>2. QED  BY <1>0, <2>2, <3>3, <4>1
    <3>4. QED  BY <3>1, <3>2, <3>3
  <2>5. JoinOwed(old) \in [Names -> Int]
    <3>1. JoinOwed(old) \in {due, [due EXCEPT ![m] = @ - 1], [due EXCEPT ![m] = @ + 1]}
      BY <1>12, JoinOwes
    <3> HIDE DEF m
    <3>2. QED  BY <1>0, <3>1
  <2>6. \A n \in Names : Times(bus', Line("join", n)) - due'[n] =
            Times(bus, Line("join", n)) + (IF New(m) /\ n = m THEN 1 ELSE 0) - JoinOwed(old)[n]
    <3>1. CASE New(m)
      <4>1. Announces(Line("join", m), JoinOwed(old)) /\ Line("join", m) \in Heard
        BY <1>12, <2>2, <3>1, HeardAre, JoinOwes, Zenon
      <4>2. \A n \in Names : Times(bus', Line("join", n)) - due'[n] =
                 Times(bus, Line("join", n)) + (IF Line("join", m) = Line("join", n) THEN 1 ELSE 0) - JoinOwed(old)[n]
        BY <2>5, <4>1, AnnouncesEffect
      <4>3. \A n : Line("join", m) = Line("join", n) <=> m = n
        BY LinesDiffer
      <4>4. QED  BY <3>1, <4>2, <4>3
    <3>2. CASE ~New(m)
      <4>1. bus' = bus /\ due' = JoinOwed(old)
        BY <1>12, <3>2, JoinOwes, Zenon
      <4>2. QED  BY <1>t, <2>4, <3>2, <4>1
    <3>3. QED  BY <3>1, <3>2
  <2>7. ASSUME NEW n \in Names PROVE Owed(n)' = Owed(n)
    <3> DEFINE h == IF x = Line("logged", n) THEN 1 ELSE 0
               i == IF New(m) /\ n = m THEN 1 ELSE 0
    <3>1. h = IF first /\ n = m THEN 1 ELSE 0
      BY <2>2
    <3>2. i - JoinOwed(old)[n] = h - due[n] /\ JoinOwed(old)[n] \in Int
      BY <2>4, <3>1
    <3>3. Times(bus', Line("join", n)) - due'[n] = Times(bus, Line("join", n)) + i - JoinOwed(old)[n]
      BY <2>6
    <3>4. h \in Int /\ i \in Int /\ Times(bus, Line("join", n)) \in Int /\ due[n] \in Int
      BY <1>0, <1>t
    <3>5. \A b, j, k, d, o \in Int : k - o = j - d => b + k - o = b + j - d
      OBVIOUS
    <3> HIDE DEF h, i, x
    <3>6. Times(bus', Line("join", n)) - due'[n] = Times(bus, Line("join", n)) + h - due[n]
      BY <3>2, <3>3, <3>4, <3>5
    <3> USE DEF h, x
    <3>7. QED  BY <2>1, <3>6, ReadsOwe
  <2>8. QED  BY <2>1, <2>7
<1>13. CASE Releases \/ Rotates
  <2>1. LosesLines /\ UNCHANGED <<rows, alike, bus>>
    BY <1>13 DEF Releases, Rotates
  <2>2. log' = <<>> /\ late' = late /\ \A n \in Names : due'[n] = due[n] - Times(log, Line("logged", n))
    BY <1>0, <2>1, LosesEffect DEF LosesLines
  <2>3. ASSUME NEW n \in Names PROVE Owed(n)' = Owed(n)
    <3> DEFINE a == Times(log, Line("logged", n))
    <3>1. a \in Nat /\ ToRead(n) = a + Times(late, Line("logged", n))
          /\ ToRead(n)' = 0 + Times(late, Line("logged", n)) /\ Times(late, Line("logged", n)) \in Nat
      BY <1>t, <1>e, <2>2 DEF ToRead
    <3>2. /\ due'[n] = due[n] - a /\ due[n] \in Int
          /\ Times(bus, Line("join", n)) \in Nat /\ bus' = bus
      BY <1>0, <1>t, <2>1, <2>2
    <3> HIDE DEF a
    <3>3. /\ ToRead(n) = ToRead(n)' + a /\ due'[n] = due[n] - a - 0
          /\ Times(bus, Line("join", n)) = Times(bus', Line("join", n)) + 0
      BY <3>1, <3>2
    <3>4. QED  BY <2>1, <3>1, <3>3, LossOwes
  <2>4. QED  BY <2>1, <2>3
<1>14. CASE RecordFails
  <2>1. UNCHANGED <<rows, alike, log, late>> /\ bus # <<>> /\ bus' = Tail(bus)
        /\ due' = Less(due, Arrivals(<<Head(bus)>>, "join"))
    BY <1>14 DEF RecordFails, Handles
  <2>2. \A n \in Names : due'[n] = due[n] - Times(<<Head(bus)>>, Line("join", n))
    <3>1. <<Head(bus)>> \in Seq(Heard)
      BY <1>0, <2>1
    <3>2. QED  BY <2>1, <3>1, LosesEffect
  <2>3. ASSUME NEW n \in Names PROVE Owed(n)' = Owed(n)
    <3> DEFINE b == Times(<<Head(bus)>>, Line("join", n))
    <3>1. b = IF Head(bus) = Line("join", n) THEN 1 ELSE 0
      BY TimesOne
    <3>2. Times(bus, Line("join", n)) = Times(bus', Line("join", n)) + b
      BY <1>0, <2>1, <3>1, TimesHead
    <3>3. due'[n] = due[n] - 0 - b
      <4>1. due'[n] = due[n] - b /\ b \in {0, 1} /\ due[n] \in Int
        BY <1>0, <2>2, <3>1
      <4> HIDE DEF b
      <4>2. QED  BY <4>1
    <3>4. ToRead(n) = ToRead(n)' + 0
      BY <2>1, ToReadType DEF ToRead
    <3> HIDE DEF b
    <3>5. QED  BY <2>1, <3>1, <3>2, <3>3, <3>4, LossOwes
  <2>4. QED  BY <2>1, <2>3
<1>15. CASE MsmStops
  <2>1. UNCHANGED <<rows, alike>> /\ log' = <<>> /\ late' = <<>> /\ bus' = <<>>
        /\ due' = Less(Less(Less(due, Arrivals(log, "logged")), Arrivals(late, "logged")),
                       Arrivals(bus, "join"))
    BY <1>15 DEF MsmStops
  <2>2. ASSUME NEW n \in Names PROVE Owed(n)' = Owed(n)
    <3> DEFINE a == Times(log, Line("logged", n))
               c == Times(late, Line("logged", n))
               b == Times(bus, Line("join", n))
    <3>1. due'[n] = due[n] - a - c - b
      BY <2>1, ArrivalsAre DEF Less
    <3>2. a \in Nat /\ b \in Nat /\ c \in Nat
      BY <1>t
    <3>3. /\ ToRead(n) = a + c /\ ToRead(n)' = 0 + 0
          /\ Times(bus', Line("join", n)) = 0 /\ due[n] \in Int
      BY <1>0, <1>e, <2>1 DEF ToRead
    <3>4. Times(bus, Line("join", n)) = b
      OBVIOUS
    <3> HIDE DEF a, b, c
    <3>5. /\ ToRead(n) = ToRead(n)' + (a + c) /\ due'[n] = due[n] - (a + c) - b /\ a + c \in Nat
          /\ Times(bus, Line("join", n)) = Times(bus', Line("join", n)) + b
      BY <3>1, <3>2, <3>3, <3>4
    <3>6. QED  BY <2>1, <3>2, <3>5, LossOwes
  <2>3. QED  BY <2>1, <2>2
<1>16. QED
  BY <1>2, <1>3, <1>4, <1>5, <1>6, <1>7, <1>9, <1>10, <1>11, <1>12, <1>13, <1>14, <1>15 DEF PlayersNext

\* A record counts a session that is owed: to the row of the player, or to the one it takes.
LEMMA RecordsBalance ==
    ASSUME PlayersTypeOK, PlayersTypeOK', Balance, Records
    PROVE  Balance'
<1> DEFINE e == Head(bus)
<1>1. /\ bus \in Seq(Heard) /\ bus # <<>> /\ bus' = Tail(bus) /\ UNCHANGED <<log, late, alike, due>>
      /\ bus' \in Seq(Heard) /\ e \in Heard
      /\ rows \in [Names -> Nat] /\ due \in [Names -> Int] /\ log \in Seq(Lines)
  BY DEF Records, Handles, PlayersTypeOK, history
<1>2. \A n : /\ Times(log, Line("logged", n)) \in Nat
             /\ Times(bus, Line("join", n)) \in Nat /\ Times(bus', Line("join", n)) \in Nat
             /\ Times(bus, Line("join", n)) = Times(bus', Line("join", n)) + IF e = Line("join", n) THEN 1 ELSE 0
  BY <1>1, TimesType, TimesHead
<1>3. ASSUME NEW n \in Names, NEW k \in Int, NEW h \in Int, rows'[n] = rows[n] + h + k,
             h = IF e = Line("join", n) THEN 1 ELSE 0
      PROVE  Owed(n)' = Owed(n) + k
  <2> DEFINE a == ToRead(n)
             b == Times(bus', Line("join", n))
  <2>1. a \in Nat /\ b \in Nat /\ rows[n] \in Nat /\ due[n] \in Int
    BY <1>1, <1>2, ToReadType
  <2>2. Times(bus, Line("join", n)) = b + h
    BY <1>2, <1>3
  <2>3. Owed(n) = (rows[n] + (b + h) + a) - due[n]
    BY <2>2, ToReadType
  <2>4. Owed(n)' = ((rows[n] + h + k) + b + a) - due[n]
    <3>1. ToRead(n)' = ToRead(n)
      BY <1>1 DEF ToRead
    <3>2. QED  BY <1>1, <1>3, <3>1, ToReadType
  <2> HIDE DEF a, b
  <2>5. QED  BY <1>3, <2>1, <2>3, <2>4
<1>4. \A n \in Names : Owed(n) \in Int
  BY OwedIsDrift
<1>5. ASSUME \A n \in Names : rows'[n] = rows[n] + IF e = Line("join", n) THEN 1 ELSE 0 PROVE Balance'
  <2>1. ASSUME NEW n \in Names PROVE Owed(n)' = Owed(n)
    <3> DEFINE h == IF e = Line("join", n) THEN 1 ELSE 0
    <3>1. rows'[n] = rows[n] + h + 0 /\ h \in Int
      BY <1>1, <1>5
    <3> HIDE DEF e
    <3>2. Owed(n)' = Owed(n) + 0
      BY <1>3, <3>1
    <3>3. QED  BY <1>4, <3>2
  <2>2. QED  BY <1>1, <2>1, SameOwed
<1>6. CASE e.kind # "join"
  <2>1. rows' = rows /\ \A n \in Names : e # Line("join", n)
    BY <1>1, <1>6, HeardAre DEF Records
  <2>2. QED  BY <1>1, <1>5, <2>1
<1>7. CASE e.kind = "join"
  <2>0. e.who \in Names /\ \A n \in Names : e = Line("join", n) <=> n = e.who
    BY <1>1, <1>7, HeardAre
  <2>p. PICK o \in Names : o = e.who
    BY <2>0
  <2> DEFINE found == Matching(o)
  <2>1. /\ o \in Names /\ rows' = Counted(o) /\ Cardinality(found) <= 1
        /\ \A n \in Names : e = Line("join", n) <=> n = o
    BY <1>1, <1>7, <2>0, <2>p DEF Records
  <2>2. CASE found = {}
    <3>1. rows' = [rows EXCEPT ![o] = 1]
      BY <2>1, <2>2 DEF Counted
    <3>2. rows[o] = 0
      <4>1. o \notin Matching(o)
        BY <2>2
      <4>2. QED  BY <1>1, <2>1, <4>1 DEF Matching
    <3>3. QED  BY <1>1, <1>5, <2>1, <3>1, <3>2
  <2>3. CASE found # {}
    <3>0. (CHOOSE m \in found : TRUE) \in found
      BY <2>3
    <3>p. PICK r \in found : r = CHOOSE m \in found : TRUE
      BY <3>0, Zenon
    <3>1. r \in found /\ r \in Names /\ (r = o \/ <<o, r>> \in alike)
      BY <3>p DEF Matching
    <3>2. rows' = [m \in Names |-> IF m = o THEN rows[r] + 1 ELSE IF m = r THEN 0 ELSE rows[m]]
      BY <2>1, <2>3, <3>p DEF Counted
    <3>3. CASE r = o
      BY <1>1, <1>5, <2>1, <3>2, <3>3
    <3>4. CASE r # o
      <4>1. o \notin found
        <5>1. SUFFICES ASSUME o \in found PROVE FALSE
          OBVIOUS
        <5>2. IsFiniteSet(found)
          BY PlayersAssumption, FS_Subset DEF Matching
        <5>3. {o, r} \subseteq found
          BY <3>1, <5>1
        <5> HIDE DEF found
        <5>4. Cardinality({o, r}) = 2
          <6>1. IsFiniteSet({o}) /\ Cardinality({o}) = 1
            BY FS_Singleton
          <6>2. Cardinality({o} \cup {r}) = 1 + 1
            BY <3>4, <6>1, FS_AddElement
          <6>3. {o} \cup {r} = {o, r}
            OBVIOUS
          <6>4. QED  BY <6>2, <6>3
        <5>5. Cardinality({o, r}) <= Cardinality(found) /\ Cardinality(found) \in Nat
          BY <5>2, <5>3, FS_Subset, FS_CardinalityType
        <5>6. QED  BY <2>1, <5>4, <5>5
      <4>2. rows[o] = 0
        BY <1>1, <2>1, <4>1 DEF Matching
      <4>3. alike # {}
        BY <3>1, <3>4
      <4>4. PICK k \in Int : k = rows[r] /\ -k \in Int
        BY <1>1, <3>1
      <4>5. Owed(o)' = Owed(o) + k
        <5>1. rows'[o] = rows[o] + 1 + k
          BY <1>1, <2>1, <3>1, <3>2, <4>2, <4>4
        <5>2. 1 = IF e = Line("join", o) THEN 1 ELSE 0
          BY <2>1
        <5> HIDE DEF e
        <5>3. QED  BY <1>3, <2>1, <4>4, <5>1, <5>2
      <4>6. Owed(r)' = Owed(r) - k
        <5>1. rows'[r] = rows[r] + 0 + (-k) /\ e # Line("join", r)
          BY <1>1, <2>1, <3>1, <3>2, <3>4, <4>4
        <5>2. 0 = IF e = Line("join", r) THEN 1 ELSE 0
          BY <5>1
        <5> HIDE DEF e
        <5>3. Owed(r)' = Owed(r) + (-k)
          <6>1. r \in Names /\ -k \in Int /\ 0 \in Int
            BY <3>1, <4>4
          <6>2. QED  BY <1>3, <5>1, <5>2, <6>1, Zenon
        <5>4. QED  BY <1>4, <3>1, <4>4, <5>3
      <4>7. ASSUME NEW n \in Names \ {o, r} PROVE Owed(n)' = Owed(n)
        <5>1. rows'[n] = rows[n] + 0 + 0 /\ e # Line("join", n)
          BY <1>1, <2>1, <3>2
        <5>2. Owed(n)' = Owed(n) + 0
          BY <1>3, <5>1
        <5>3. QED  BY <1>4, <5>2
      <4>8. SumFunction(Drift') = SumFunction(Drift)
        <5>1. /\ Drift \in [Names -> Int] /\ Drift' \in [Names -> Int]
              /\ \A n \in Names : Drift[n] = Owed(n) /\ Drift'[n] = Owed(n)'
          BY OwedIsDrift
        <5>2. /\ Drift'[o] = Drift[o] + k /\ Drift'[r] = Drift[r] - k
              /\ \A n \in Names \ {o, r} : Drift'[n] = Drift[n]
          BY <2>1, <3>1, <4>5, <4>6, <4>7, <5>1
        <5>3. IsFiniteSet(Names)
          BY PlayersAssumption
        <5>4. QED  BY <2>1, <3>1, <3>4, <4>4, <5>1, <5>2, <5>3, SumsMove
      <4>9. QED  BY <1>1, <4>3, <4>8 DEF Balance
    <3>5. QED  BY <3>3, <3>4
  <2>4. QED  BY <2>2, <2>3
<1>8. QED  BY <1>6, <1>7

\* At first nobody is known, and nothing is due.
LEMMA PlayersBegin == PlayersInit => PlayersInv
<1> SUFFICES ASSUME PlayersInit PROVE PlayersInv
  OBVIOUS
<1>1. PlayersTypeOK
  <2>1. log \in Seq(Lines) /\ late \in Seq(Lines) /\ bus \in Seq(Heard)
    BY DEF PlayersInit
  <2>2. rows \in [Names -> Nat] /\ due \in [Names -> Int]
    BY DEF PlayersInit, None
  <2>3. QED  BY <2>1, <2>2 DEF PlayersTypeOK, PlayersInit
<1>2. Following
  BY DEF Following, PlayersInit
<1>3. Belief
  <2>1. DOMAIN log = {} /\ ~alive
    BY DEF PlayersInit
  <2>2. QED  BY <2>1 DEF Belief, FirstTold, Second
<1>4. Balance
  <2>1. ASSUME NEW n \in Names PROVE Owed(n) = 0
    <3>1. /\ Times(log, Line("logged", n)) = 0 /\ Times(late, Line("logged", n)) = 0
          /\ Times(bus, Line("join", n)) = 0
      BY TimesOne DEF PlayersInit
    <3>2. rows[n] = 0 /\ due[n] = 0
      BY DEF PlayersInit, None
    <3>3. QED  BY <3>1, <3>2 DEF Owed
  <2>2. Drift = None /\ \A n \in Names : Drift[n] = 0
    BY <2>1, OwedIsDrift DEF None
  <2>3. SumFunction(None) = 0
    <3>1. None \in [Names -> Int] /\ [n \in Names |-> None[n] - None[n]] = None
      BY DEF None
    <3>2. SumFunction([n \in Names |-> None[n] - None[n]]) = SumFunction(None) - SumFunction(None)
          /\ SumFunction(None) \in Int
      BY <3>1, PlayersAssumption, SumsSubtract
    <3>3. QED  BY <3>1, <3>2
  <2>4. QED  BY <2>2, <2>3 DEF Balance
<1>5. QED  BY <1>1, <1>2, <1>3, <1>4 DEF PlayersInv

\* Each step keeps it all.
LEMMA PlayersGoOn ==
    ASSUME PlayersInv, [PlayersNext]_playersVars
    PROVE  PlayersInv'
<1>1. CASE PlayersNext
  <2>1. PlayersTypeOK'
    BY <1>1, PlayersTypeStep DEF PlayersInv
  <2>2. Following' /\ Belief'
    BY <1>1, FollowingStep, BeliefStep DEF PlayersInv
  <2>3. CASE Records
    BY <2>1, <2>2, <2>3, RecordsBalance DEF PlayersInv
  <2>4. CASE ~Records
    <3>1. alike' = alike /\ \A n \in Names : Owed(n)' = Owed(n)
      BY <1>1, <2>1, <2>4, OwedStep DEF PlayersInv
    <3>2. QED  BY <2>1, <2>2, <3>1, SameOwed DEF PlayersInv
  <2>5. QED  BY <2>3, <2>4
<1>2. CASE UNCHANGED playersVars
  <2>1. UNCHANGED <<alive, inGame, log, late, link, online, uuids, pending, recent, bus, rows, alike, due, blurred>>
    BY <1>2 DEF playersVars, game, memory, store, history
  <2>2. PlayersTypeOK' /\ Following'
    BY <2>1 DEF PlayersInv, PlayersTypeOK, Following
  <2>3. Belief'
    BY <2>1, SameBelief DEF PlayersInv
  <2>4. Balance'
    <3>1. \A n \in Names : Owed(n)' = Owed(n)
      BY <2>1 DEF Owed
    <3>2. QED  BY <2>1, <3>1, SameOwed DEF PlayersInv
  <2>5. QED  BY <2>2, <2>3, <2>4 DEF PlayersInv
<1>3. QED  BY <1>1, <1>2

\* All of it holds.
LEMMA PlayersHold == PlayersSpec => []PlayersInv
BY PlayersBegin, PlayersGoOn, PTL DEF PlayersSpec

\* Of one session announced twice, one is counted: for each player, the sessions of the row,
\* of the events that wait and of the lines still to be read are those that are due, and with
\* names that look alike their sum is.
THEOREM CountedOnceCorrect == PlayersSpec => []CountedOnce
<1>1. PlayersInv => CountedOnce
  <2> SUFFICES ASSUME PlayersInv PROVE CountedOnce
    OBVIOUS
  <2> DEFINE all == [n \in Names |-> Sessions(n)]
  <2>1. PlayersTypeOK /\ Balance
    BY DEF PlayersInv
  <2>2. ASSUME NEW n \in Names PROVE Sessions(n) \in Int /\ due[n] \in Int
    <3>1. Sessions(n) = rows[n] + Times(bus, Line("join", n)) + Times(log, Line("logged", n))
                        + Times(late, Line("logged", n))
      BY ArrivalsAre, Zenon DEF Sessions
    <3>2. /\ rows[n] \in Nat /\ due[n] \in Int /\ Times(late, Line("logged", n)) \in Nat
          /\ Times(bus, Line("join", n)) \in Nat /\ Times(log, Line("logged", n)) \in Nat
      BY <2>1, TimesType DEF PlayersTypeOK
    <3>3. QED  BY <3>1, <3>2
  <2>3. alike = {} => \A n \in Names : Sessions(n) = due[n]
    <3>1. \A n \in Names : Drift[n] = Sessions(n) - due[n]
      BY DEF Drift
    <3>2. QED  BY <2>1, <2>2, <3>1 DEF Balance
  <2>4. SumFunction(all) = SumFunction(due)
    <3>1. all \in [Names -> Int] /\ due \in [Names -> Int]
      BY <2>1, <2>2 DEF PlayersTypeOK
    <3>2. Drift = [n \in Names |-> all[n] - due[n]]
      BY DEF Drift
    <3> HIDE DEF all
    <3>3. /\ SumFunction([n \in Names |-> all[n] - due[n]]) = SumFunction(all) - SumFunction(due)
          /\ SumFunction(all) \in Int
      BY <3>1, PlayersAssumption, SumsSubtract
    <3>4. SumFunction(due) \in Int
      BY <3>1, PlayersAssumption, SumsSubtract
    <3>5. QED  BY <2>1, <3>2, <3>3, <3>4 DEF Balance
  <2>5. QED  BY <2>3, <2>4 DEF CountedOnce
<1>2. QED  BY <1>1, PlayersHold, PTL

\* The players that are shown, once all is read, are those in the game, and nobody is shown
\* of a server that is over: but for those whose last line was lost, or whom a look-alike or
\* a late line has shown or hidden since.  A player keeps the UUID it is shown with.
THEOREM ShownIsTrueCorrect == PlayersSpec => ShownIsTrue
<1> DEFINE Keeps == online \cap online' \cap uuids \subseteq uuids'
<1>1. PlayersInv => OnlineIsInGame
  <2> SUFFICES ASSUME PlayersInv PROVE OnlineIsInGame
    OBVIOUS
  <2>1. link = "over" => online \subseteq blurred
    BY DEF PlayersInv, Following
  <2>2. ASSUME link \in {"handle", "adopted"}, log = <<>>, alive, NEW n \in Shown \ blurred
        PROVE  n \in online <=> n \in inGame
    <3>1. CASE n \in Names
      <4>1. LastIsTrue(n)
        BY <2>2, <3>1 DEF PlayersInv, Belief, Followed
      <4>2. DOMAIN log = {}
        BY <2>2
      <4>3. QED  BY <2>2, <4>1, <4>2 DEF LastIsTrue
    <3>2. CASE n \in Unreadable
      <4>1. n \notin online
        BY <2>2, <3>2 DEF PlayersInv, Following
      <4>2. n \notin inGame
        BY <3>2, PlayersAssumption DEF PlayersInv, PlayersTypeOK
      <4>3. QED  BY <4>1, <4>2
    <3>3. QED  BY <2>2, <3>1, <3>2 DEF Shown
  <2>3. QED  BY <2>1, <2>2 DEF OnlineIsInGame
<1>2. ASSUME PlayersInv, [PlayersNext]_playersVars PROVE [OnlineIsInGame' /\ Keeps]_playersVars
  <2>1. PlayersInv'
    BY <1>2, PlayersGoOn
  <2>2. OnlineIsInGame'
    BY <1>1, <2>1, PTL
  <2>3. ASSUME PlayersNext PROVE Keeps
    <3> USE DEF game, memory, store, history
    <3>1. CASE \E n \in Names : Knocks(n) \/ Arrives(n) \/ Leaves(n)
      BY <3>1 DEF Knocks, Arrives, Leaves
    <3>2. CASE Lists \/ (\E names \in Lookalikes : Resembles(names)) \/ Dies \/ LineEvent \/ Rotates
               \/ Records \/ RecordFails \/ MsmBoots
      BY <3>2 DEF Lists, Resembles, Dies, LineEvent, Rotates, Records, RecordFails, MsmBoots
    <3>3. ASSUME NEW old \in BOOLEAN, ReadsUuid(old) \/ ReadsJoin(old) \/ ReadsLeave(old) PROVE Keeps
      <4>1. uuids \subseteq uuids' \/ (\E m : online' = online \ {m} /\ uuids' = uuids \ {m})
        BY <3>3 DEF ReadsUuid, ReadsJoin, ReadsLeave
      <4>2. QED  BY <4>1
    <3>4. ASSUME NEW old \in BOOLEAN, ReadsList(old) PROVE Keeps
      <4>1. /\ online' = Listed(LineRead(old).names).online
            /\ uuids' = Listed(LineRead(old).names).uuids
        BY <3>4, Zenon DEF ReadsList
      <4>2. QED  BY <4>1 DEF Listed
    <3>5. CASE Starts \/ SupervisionEnds \/ Releases \/ MsmStops
      BY <3>5 DEF Starts, SupervisionEnds, Releases, MsmStops, EndsPlayers, Forgets
    <3>6. QED  BY <2>3, <3>1, <3>2, <3>3, <3>4, <3>5 DEF PlayersNext
  <2>4. QED  BY <1>2, <2>2, <2>3
<1>3. PlayersSpec => [][OnlineIsInGame' /\ Keeps]_playersVars
  BY <1>2, PlayersHold, PTL DEF PlayersSpec
<1>4. QED  BY <1>3 DEF ShownIsTrue
=============================================================================
