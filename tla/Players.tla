------------------------------ MODULE Players ------------------------------
(***************************************************************************)
(* The players of a server as MSM knows them.  The server writes a line,   *)
(* or two, for each arrival and each departure (core/patterns.py); the     *)
(* runtime reads them and keeps who is online (runtime/server_runtime.py); *)
(* it publishes arrivals and departures on the bus, where the recorder     *)
(* counts sessions (services/player_recorder.py, db/repositories/          *)
(* player_repo.py).                                                        *)
(*                                                                         *)
(* MSM may stop and adopt the server later: the lines between are lost.  A *)
(* line in which LIST_RE finds an answer to `list` is read as one, whoever *)
(* wrote it, and the lines of a server that is over may be read late.      *)
(***************************************************************************)
EXTENDS Integers, Sequences, SequencesExt, FiniteSetsExt

CONSTANTS
    Names,        \* the players
    AlikePairs,   \* sets of <<n, m>>: the name n, as a pattern, matches the name m too
    MaxPending,   \* _MAX_PENDING_UUIDS
    BusSize,      \* the places of the recorder's queue on the bus
    MaxSessions,  \* bound: sessions that are counted
    MaxLog,       \* bound: lines written and not read
    Lookalikes    \* bound: what is listed by lines that only look like an answer

\* What stands in a list where a name is expected: "Ana (uuid)"; it is no player's name.
Unreadable == {"?"}

\* What MSM may show.
Shown == Names \cup Unreadable

ASSUME PlayersAssumption ==
    /\ IsFiniteSet(Names) /\ Unreadable \cap Names = {}
    /\ MaxPending \in Nat \ {0} /\ BusSize \in Nat \ {0}
    /\ MaxSessions \in Nat /\ MaxLog \in Nat /\ Lookalikes \subseteq SUBSET Shown

VARIABLES
    alive,      \* the process of the server
    inGame,     \* the players in the game
    log,        \* the lines written and not yet read
    late,       \* those of servers that were over before they were read
    link,       \* how MSM follows it: "handle", "adopted", "over", or "off" without MSM
    online,     \* _online_players: what stands for a name
    uuids,      \* those of them with a UUID
    pending,    \* _pending_uuids, in the order of their insertion
    recent,     \* _recently_left
    bus,        \* the events that wait for the recorder
    rows,       \* total_sessions of the row of a name, 0 without a row
    alike,      \* of AlikePairs
    due,        \* history: sessions of each player, less those MSM could not read or write
    blurred     \* history: those whose last line was not read, or came from elsewhere

game    == <<alive, inGame>>
memory  == <<online, uuids, pending, recent>>
store   == <<rows, alike>>
history == <<due, blurred>>
playersVars == <<game, log, late, link, memory, bus, store, history>>

None == [n \in Names |-> 0]
Line(kind, who) == [kind |-> kind, who |-> who]

Reply(kind, names) == [kind |-> kind, who |-> "all", names |-> names]

\* Of the arrivals among lines or events, how many are those of a player.
Arrivals(items, kind) ==
    [n \in Names |-> Cardinality({i \in DOMAIN items : items[i] = Line(kind, n)})]
Less(f, g) == [n \in Names |-> f[n] - g[n]]
Unread(items) == {n \in Names : \E i \in DOMAIN items : items[i].who = n}

Forgets == online' = {} /\ uuids' = {} /\ pending' = <<>> /\ recent' = {}

(***************************************************************************)
(* The server.                                                             *)
(***************************************************************************)
Followed == link # "off"

\* The lines are read by MSM, or nobody.
Prints(lines) == /\ Len(late) + Len(log) + Len(lines) <= MaxLog
                 /\ log' = IF Followed THEN log \o lines ELSE log

\* "UUID of player X is ...", written when X is authenticated; it may be refused then.
Knocks(n) ==
    /\ alive /\ n \notin inGame
    /\ Prints(<<Line("uuid", n)>>)
    /\ UNCHANGED <<game, late, link, memory, bus, store, history>>

\* "logged in", then "joined the game", which some servers translate.
Arrives(n) ==
    /\ alive /\ n \notin inGame
    /\ SumFunction(due) < MaxSessions
    /\ due' = IF Followed THEN [due EXCEPT ![n] = @ + 1] ELSE due
    /\ inGame' = inGame \cup {n}
    /\ \E second \in {<<>>, <<Line("joined", n)>>} : Prints(<<Line("logged", n)>> \o second)
    /\ UNCHANGED <<alive, late, link, memory, bus, store, blurred>>

\* "lost connection", then "left the game".
Goodbye(n) == <<Line("lost", n), Line("left", n)>>

Leaves(n) ==
    /\ n \in inGame
    /\ inGame' = inGame \ {n}
    /\ \E lines \in {Goodbye(n), <<Line("lost", n)>>} : Prints(lines)
    /\ UNCHANGED <<alive, late, link, memory, bus, store, history>>

\* Someone types `list` in the console; the names follow on the line.
Lists ==
    /\ alive /\ link = "handle"
    /\ Prints(<<Reply("list", inGame)>>)
    /\ UNCHANGED <<game, late, link, memory, bus, store, history>>

\* A line that only looks like that answer: it was typed in the chat, the names are on
\* the next line, or they come with their UUIDs.
Resembles(names) ==
    /\ alive
    /\ Prints(<<Reply("like", names)>>)
    /\ UNCHANGED <<game, late, link, memory, bus, store, history>>

\* It crashes, without a word for those who were there.
Dies ==
    /\ alive /\ alive' = FALSE /\ inGame' = {}
    /\ UNCHANGED <<log, late, link, memory, bus, store, history>>

(***************************************************************************)
(* The runtime.                                                            *)
(***************************************************************************)
\* publish: a full queue drops the oldest event, which is no longer owed.
Announces(event, owed) ==
    LET full == Append(bus, event)
        over == IF Len(full) > BusSize THEN Len(full) - BusSize ELSE 0
    IN  /\ bus' = SubSeq(full, over + 1, Len(full))
        /\ due' = Less(owed, Arrivals(SubSeq(full, 1, over), "join"))

\* The line that is read: of the server, or of one that is over, whose reader goes on.
LineRead(old) == IF old THEN Head(late) ELSE Head(log)

Reading(old, kinds) ==
    /\ Followed /\ (IF old THEN late ELSE log) # <<>> /\ LineRead(old).kind \in kinds
    /\ late' = IF old THEN Tail(late) ELSE late
    /\ log' = IF old THEN log ELSE Tail(log)

\* PLAYER_UUID, _remember_uuid: a name announced again keeps its place.
ReadsUuid(old) ==
    /\ Reading(old, {"uuid"})
    /\ LET n == LineRead(old).who
           kept == IF n \notin online /\ Len(pending) >= MaxPending THEN Tail(pending) ELSE pending
       IN  /\ uuids' = uuids \cup (online \cap {n})
           /\ pending' = IF n \in online \/ Contains(kept, n) THEN kept ELSE Append(kept, n)
    /\ UNCHANGED <<game, link, online, recent, bus, store, history>>

\* Mutant: an arrival that is announced twice is published twice.
NewTwice(n) == TRUE

\* It was already seen: "logged in", then "joined the game".
New(n) == n \notin online

\* Those whose presence changes.
Changed == (online \ online') \cup (online' \ online)

\* PLAYER_JOIN.  (A player who was shown, or not, on the word of another line is counted
\* once less, or once more.)
ReadsJoin(old) ==
    /\ Reading(old, {"logged", "joined"})
    /\ LET n == LineRead(old).who
           known == Contains(pending, n)
           misled == old \/ n \in blurred
           first == LineRead(old).kind = "logged"
           owed == IF ~misled \/ first = New(n) THEN due
                   ELSE [due EXCEPT ![n] = IF first THEN @ - 1 ELSE @ + 1]
       IN  /\ pending' = SelectSeq(pending, LAMBDA m : m # n)
           /\ online' = online \cup {n}
           /\ uuids' = uuids \cup (IF known THEN {n} ELSE {})
           /\ recent' = IF New(n) THEN recent \ {n} ELSE recent
           /\ IF New(n) THEN Announces(Line("join", n), owed) ELSE UNCHANGED bus /\ due' = owed
           /\ blurred' = IF old THEN blurred \cup Changed ELSE blurred \ {n}
    /\ UNCHANGED <<game, link, store>>

\* Its departure was already published: "lost connection", then "left the game".
Gone(n) == n \notin online /\ n \in recent

\* PLAYER_LEAVE
ReadsLeave(old) ==
    /\ Reading(old, {"lost", "left"})
    /\ LET n == LineRead(old).who
           full == Cardinality(recent \cup {n}) > MaxPending
       IN  /\ IF Gone(n) THEN UNCHANGED <<online, uuids, recent, bus, due>>
              ELSE /\ online' = online \ {n} /\ uuids' = uuids \ {n}
                   /\ recent' = IF full THEN {} ELSE recent \cup {n}
                   /\ Announces(Line("leave", n), due)
           /\ blurred' = IF old THEN blurred \cup Changed ELSE blurred \ {n}
    /\ UNCHANGED <<game, link, pending, store>>

\* PLAYER_LIST: those who stay keep their UUID.
Listed(names) == [online |-> names, uuids |-> uuids \cap names]

\* Whoever wrote the line, and whatever stands for the names in it.
ReadsList(old) ==
    /\ Reading(old, {"list", "like"})
    /\ LET listed == Listed(LineRead(old).names)
       IN  /\ online' = listed.online /\ uuids' = listed.uuids
           /\ blurred' = IF old \/ LineRead(old).kind = "like" THEN blurred \cup Changed ELSE {}
    /\ UNCHANGED <<game, link, pending, recent, bus, store, due>>

\* The lines of the log are events too.
LineEvent ==
    /\ Followed /\ Announces(Line("other", "nobody"), due)
    /\ UNCHANGED <<game, log, late, link, memory, store, blurred>>

\* _start_locked
Starts ==
    /\ ~alive /\ link = "over"
    /\ alive' = TRUE /\ link' = "handle" /\ Forgets
    /\ blurred' = {}
    /\ UNCHANGED <<inGame, log, late, bus, store, due>>

\* Mutant: the players are not forgotten.
EndsTheirPlayers == UNCHANGED memory

\* The players go with the server.
EndsPlayers == Forgets

\* _supervise: the reader is given two seconds, and goes on after them.
SupervisionEnds ==
    /\ ~alive /\ link = "handle"
    /\ link' = "over" /\ EndsPlayers
    /\ late' = late \o log /\ log' = <<>>
    /\ UNCHANGED <<game, bus, store, due, blurred>>

\* The lines that are not read are lost.
LosesLines ==
    /\ log' = <<>> /\ UNCHANGED late
    /\ due' = Less(due, Arrivals(log, "logged"))

\* _watch_adopted or _finish_adopted_stop: _release_adopted stops the reading.
Releases ==
    /\ ~alive /\ link = "adopted"
    /\ link' = "over" /\ EndsPlayers /\ LosesLines
    /\ UNCHANGED <<game, bus, store, blurred>>

\* The log of an adopted server is replaced before its last lines were read.
Rotates ==
    /\ link = "adopted" /\ log # <<>> /\ LosesLines
    /\ blurred' = blurred \cup Unread(log)
    /\ UNCHANGED <<game, link, memory, bus, store>>

(***************************************************************************)
(* The recorder.                                                           *)
(***************************************************************************)
\* ilike: `_` in a name stands for any character.
Matching(n) == {m \in Names : rows[m] > 0 /\ (m = n \/ <<n, m>> \in alike)}

\* record_join: the row that is found takes the name.
Counted(n) ==
    LET found == Matching(n)
        row == CHOOSE m \in found : TRUE
    IN  IF found = {} THEN [rows EXCEPT ![n] = 1]
        ELSE [m \in Names |-> IF m = n THEN rows[row] + 1 ELSE IF m = row THEN 0 ELSE rows[m]]

Handles == bus # <<>> /\ Followed /\ bus' = Tail(bus)

\* A row is written, unless there are two to choose from.
Records ==
    /\ Handles
    /\ IF Head(bus).kind = "join"
       THEN /\ Cardinality(Matching(Head(bus).who)) <= 1
            /\ rows' = Counted(Head(bus).who)
       ELSE UNCHANGED rows
    /\ UNCHANGED <<game, log, late, link, memory, alike, history>>

\* A write that fails is logged, and given up.
RecordFails ==
    /\ Handles /\ Head(bus).kind \in {"join", "leave"}
    /\ due' = Less(due, Arrivals(<<Head(bus)>>, "join"))
    /\ UNCHANGED <<game, log, late, link, memory, store, blurred>>

(***************************************************************************)
(* MSM.                                                                    *)
(***************************************************************************)
\* The lines, and the events that wait, go with it; the recorder leaves at the next one.
MsmStops ==
    /\ Followed /\ link' = "off" /\ Forgets /\ log' = <<>> /\ late' = <<>> /\ bus' = <<>>
    /\ due' = Less(Less(Less(due, Arrivals(log, "logged")), Arrivals(late, "logged")),
                   Arrivals(bus, "join"))
    /\ UNCHANGED <<game, rows, alike, blurred>>

\* adopt: the log is followed from its end.
MsmBoots ==
    /\ link = "off" /\ link' = IF alive THEN "adopted" ELSE "over"
    /\ blurred' = Names
    /\ UNCHANGED <<game, log, late, memory, bus, store, due>>

PlayersInit ==
    /\ alive = FALSE /\ inGame = {} /\ log = <<>> /\ late = <<>> /\ link = "over"
    /\ online = {} /\ uuids = {} /\ pending = <<>> /\ recent = {} /\ bus = <<>>
    /\ rows = None /\ alike \in AlikePairs
    /\ due = None /\ blurred = {}

PlayersNext ==
    \/ \E n \in Names : Knocks(n) \/ Arrives(n) \/ Leaves(n)
    \/ Lists \/ (\E names \in Lookalikes : Resembles(names)) \/ Dies
    \/ \E old \in BOOLEAN : ReadsUuid(old) \/ ReadsJoin(old) \/ ReadsLeave(old) \/ ReadsList(old)
    \/ LineEvent
    \/ Starts \/ SupervisionEnds \/ Releases \/ Rotates
    \/ Records \/ RecordFails \/ MsmStops \/ MsmBoots

PlayersSpec == PlayersInit /\ [][PlayersNext]_playersVars

(***************************************************************************)
(* Properties.                                                             *)
(***************************************************************************)
OnlineIsInGame ==
    /\ link \in {"handle", "adopted"} /\ log = <<>> /\ alive =>
          \A n \in Shown \ blurred : n \in online <=> n \in inGame
    /\ link = "over" => online \subseteq blurred

\* Once MSM has read what the server wrote, the players it shows are those in the game and
\* nobody else, and nobody is shown in a server that is over: but for one whose last line
\* was lost, or whom another line has since shown or hidden, which only looked like an
\* answer to `list` or came late from a server that was over.  As long as a player is
\* shown, it keeps the UUID it is shown with.
ShownIsTrue == [][OnlineIsInGame' /\ online \cap online' \cap uuids \subseteq uuids']_playersVars

Sessions(n) == rows[n] + Arrivals(bus, "join")[n] + Arrivals(log, "logged")[n]
               + Arrivals(late, "logged")[n]

\* Each session MSM could read and write is counted once, however many times it is
\* announced: "le runtime ne compte chaque joueur qu'une fois" (detect_events).  A
\* look-alike may take the row of another, not its count.  (An arrival read of a player
\* whom another line has shown or hidden may count for none, or for two: ReadsJoin.)
CountedOnce ==
    /\ alike = {} => \A n \in Names : Sessions(n) = due[n]
    /\ SumFunction([n \in Names |-> Sessions(n)]) = SumFunction(due)
=============================================================================
