------------------------------ MODULE LogStream ------------------------------
(***************************************************************************)
(* The live console: from the lines a server prints to the lines a browser *)
(* shows.  One server, one browser.                                        *)
(*                                                                         *)
(* LogPipeline numbers each line, keeps the last ones in a RingBuffer and  *)
(* publishes it; the bus puts it in the queue of the connection, dropping  *)
(* the oldest event when the queue is full; the writer task of the         *)
(* connection groups events and sends them; the receive loop answers a     *)
(* subscribe with the missing history.  The browser reconnects by itself   *)
(* and resumes from the last number it saw.  Writer and receive loop are   *)
(* two tasks: each await of one is a place where the other may run.        *)
(***************************************************************************)
EXTENDS Integers, Sequences, FiniteSets, SequencesExt

CONSTANTS
    HistoryLines,    \* capacity of the ring buffer (log_history_lines)
    QueueSize,       \* capacity of the queue of a connection
    FlushLines,      \* log_flush_max_lines: the writer sends at the latest then
    DefaultBacklog,  \* lines sent to a browser that does not resume
    MaxBacklog,      \* lines sent at most to one that does
    MaxLives,        \* bound: numberings (lives) of the server's lines
    MaxHappenings    \* bound: what happens around the stream, see Happens

ASSUME CapacitiesArePositive ==
    /\ {HistoryLines, QueueSize, FlushLines, DefaultBacklog, MaxBacklog, MaxLives}
           \subseteq Nat \ {0}
    /\ MaxHappenings \in Nat

VARIABLES
    life,      \* which LogPipeline object is numbering, counted from 1
    seq,       \* its last number
    buffer,    \* RingBuffer: the numbers still held
    following, \* the connection's subscription holds the topic "log"
    queue,     \* its asyncio.Queue
    dropped,   \* Subscription._dropped
    cursor,    \* _log_cursor of the server; 0 when absent
    writer,    \* what the writer task is doing
    batch,     \* events it has taken and not yet handled
    outgoing,  \* lines it has grouped and not yet sent
    inbox,     \* messages of the browser the receive loop has not read
    handler,   \* what the receive loop is doing
    resume,    \* the resume_from it is answering
    wire,      \* messages on their way to the browser
    socket,    \* the browser's connection
    mounted,   \* the console page is open (subscriptions of RealtimeClient)
    lastSeq,   \* the store's lastSeq; NoSeq when undefined
    missed,    \* the store's missedLines
    happenings, statuses,  \* what MaxHappenings bounds, and the other events among it
    shown,     \* history: lines shown, in order
    followedFrom, \* history: seq when this subscription got its backlog
    evicted    \* history: events the queue of this connection dropped

pipeline == <<life, seq, buffer>>
subscription == <<following, queue, dropped>>
writerVars == <<writer, batch, outgoing>>
handlerVars == <<inbox, handler, resume>>
browser == <<socket, mounted, lastSeq, missed>>
bounds == <<happenings, statuses>>
streamHistory == <<shown, followedFrom, evicted>>
streamVars == <<pipeline, subscription, cursor, writerVars, handlerVars, wire,
                browser, bounds, streamHistory>>

NoSeq == -1

\* A line, another event, a new numbering, a lost connection, the page opened or
\* closed: all of them share one bound.
Happens ==
    /\ happenings < MaxHappenings
    /\ happenings' = happenings + 1

\* An event of the queue: a line, or an event of another channel.
Line(n) == [life |-> life, seq |-> n]
Status == [life |-> 0, seq |-> 0]

LinesMessage(lines) == [kind |-> "lines", lines |-> lines, missed |-> 0]
\* log.truncated about a server, and about the connection (sid null).
TruncatedMessage(n) == [kind |-> "truncated", lines |-> <<>>, missed |-> n]
DroppedMessage(n) == [kind |-> "dropped", lines |-> <<>>, missed |-> n]

--------------------------------------------------------------------------------
\* The elements of a sequence at some of its places, in their order.
At(items, places) ==
    [k \in 1..Cardinality(places) |->
        items[CHOOSE i \in places : Cardinality({j \in places : j <= i}) = k]]

\* RingBuffer.tail and RingBuffer.since, with its limit.
LogsTail(n) == SubSeq(buffer, IF n < Len(buffer) THEN Len(buffer) - n + 1 ELSE 1,
                      Len(buffer))
LogsSince(n) == LET after == At(buffer, {i \in DOMAIN buffer : buffer[i] > n})
                IN SubSeq(after, 1, IF MaxBacklog < Len(after) THEN MaxBacklog
                                    ELSE Len(after))

\* RingBuffer.append: a deque with a maximal length.
Appended(n) == IF Len(buffer) = HistoryLines THEN Append(Tail(buffer), n)
               ELSE Append(buffer, n)

\* Mutated form of Deliver: the loss is not counted.
DeliverSilently(event) ==
    /\ queue' = Append(IF Len(queue) < QueueSize THEN queue ELSE Tail(queue), event)
    /\ UNCHANGED <<dropped, evicted>>

\* Subscription._deliver: never blocks, evicts the oldest event when full.
Deliver(event) ==
    IF Len(queue) < QueueSize
    THEN /\ queue' = Append(queue, event)
         /\ UNCHANGED <<dropped, evicted>>
    ELSE /\ queue' = Append(Tail(queue), event)
         /\ dropped' = dropped + 1
         /\ evicted' = evicted + 1

\* LogPipeline.ingest and emit_system: number, keep, publish.
Ingest ==
    /\ Happens
    /\ seq' = seq + 1
    /\ buffer' = Appended(seq + 1)
    /\ IF following THEN Deliver(Line(seq + 1)) /\ UNCHANGED following
       ELSE UNCHANGED <<subscription, evicted>>
    /\ UNCHANGED <<life, cursor, writerVars, handlerVars, wire, browser, statuses,
                   shown, followedFrom>>

\* An event of another channel of the page (status, stats, players, ...).
PublishStatus ==
    /\ following /\ Happens
    /\ statuses' = statuses + 1
    /\ Deliver(Status)
    /\ UNCHANGED <<pipeline, following, cursor, writerVars, handlerVars, wire, browser,
                   shown, followedFrom>>

\* ServerService.resync: the runtime is replaced, and with it its LogPipeline.
\* The connection and its cursor know nothing of it.
Resync ==
    /\ life < MaxLives /\ Happens
    /\ life' = life + 1
    /\ seq' = 0
    /\ buffer' = <<>>
    /\ UNCHANGED <<subscription, cursor, writerVars, handlerVars, wire, browser,
                   statuses, streamHistory>>
--------------------------------------------------------------------------------
\* The connection object of a browser: fresh, or gone.
FreshConnection ==
    /\ following' = FALSE /\ queue' = <<>> /\ dropped' = 0
    /\ cursor' = 0
    /\ writer' = "collect" /\ batch' = <<>> /\ outgoing' = <<>>
    /\ handler' = "idle" /\ resume' = NoSeq
    /\ wire' = <<>>
    /\ followedFrom' = NoSeq /\ evicted' = 0

\* RealtimeClient.sendSubscribe: resume_from is what the store holds now.
SubscribeMessage == [kind |-> "subscribe", resume |-> lastSeq]
UnsubscribeMessage == [kind |-> "unsubscribe", resume |-> NoSeq]

\* connect, then onopen: the subscription of the mounted page is replayed.
Connect ==
    /\ socket = "closed"
    /\ socket' = "open"
    /\ FreshConnection
    /\ inbox' = IF mounted THEN <<SubscribeMessage>> ELSE <<>>
    /\ UNCHANGED <<pipeline, mounted, lastSeq, missed, bounds, shown>>

\* The network drops the connection with whatever it still carried.
Disconnect ==
    /\ socket = "open" /\ Happens
    /\ socket' = "closed"
    /\ FreshConnection
    /\ inbox' = <<>>
    /\ UNCHANGED <<pipeline, mounted, lastSeq, missed, statuses, shown>>

\* MSM restarts: new pipelines, and no connection survives.
MsmRestarts ==
    /\ life < MaxLives /\ Happens
    /\ life' = life + 1
    /\ seq' = 0
    /\ buffer' = <<>>
    /\ socket' = "closed"
    /\ FreshConnection
    /\ inbox' = <<>>
    /\ UNCHANGED <<mounted, lastSeq, missed, statuses, shown>>

\* The console page opens or closes (useServerSubscription).
Mount ==
    /\ ~mounted /\ Happens
    /\ mounted' = TRUE
    /\ inbox' = IF socket = "open" THEN Append(inbox, SubscribeMessage) ELSE inbox
    /\ UNCHANGED <<pipeline, subscription, cursor, writerVars, handler, resume, wire,
                   socket, lastSeq, missed, statuses, streamHistory>>

Unmount ==
    /\ mounted /\ Happens
    /\ mounted' = FALSE
    /\ inbox' = IF socket = "open" THEN Append(inbox, UnsubscribeMessage) ELSE inbox
    /\ UNCHANGED <<pipeline, subscription, cursor, writerVars, handler, resume, wire,
                   socket, lastSeq, missed, statuses, streamHistory>>
--------------------------------------------------------------------------------
\* WebSocketConnection._subscribe up to its first await: the topics are followed
\* before the history is sent.
HandleSubscribe ==
    /\ handler = "idle" /\ inbox # <<>> /\ Head(inbox).kind = "subscribe"
    /\ following' = TRUE
    /\ resume' = Head(inbox).resume
    /\ inbox' = Tail(inbox)
    /\ handler' = "greeting"
    /\ UNCHANGED <<pipeline, queue, dropped, cursor, writerVars, wire, browser, bounds,
                   streamHistory>>

\* _send_backlog: the missing history, and the cursor that filters it out of
\* the live flow.
SendBacklog ==
    /\ handler = "greeting"
    /\ LET lines == IF resume >= 0 THEN LogsSince(resume) ELSE LogsTail(DefaultBacklog)
       IN IF lines # <<>>
          THEN /\ cursor' = Last(lines)
               /\ wire' = Append(wire, LinesMessage(
                                [i \in DOMAIN lines |-> Line(lines[i])]))
          ELSE /\ cursor' = seq
               /\ UNCHANGED wire
    /\ handler' = "counting"
    /\ followedFrom' = seq
    /\ UNCHANGED <<pipeline, subscription, writerVars, inbox, resume, browser, bounds,
                   shown, evicted>>

\* The end of _send_backlog: what a late resume can no longer have is counted.
TellTruncated ==
    /\ handler = "counting"
    /\ handler' = "idle"
    /\ LET available == LogsTail(1)
       IN IF resume >= 0 /\ available # <<>> /\ available[1] > resume + 1
          THEN wire' = Append(wire, TruncatedMessage(available[1] - resume - 1))
          ELSE UNCHANGED wire
    /\ UNCHANGED <<pipeline, subscription, cursor, writerVars, inbox, resume, browser,
                   bounds, streamHistory>>

\* WebSocketConnection._unsubscribe: what is queued stays queued.
HandleUnsubscribe ==
    /\ handler = "idle" /\ inbox # <<>> /\ Head(inbox).kind = "unsubscribe"
    /\ following' = FALSE
    /\ cursor' = 0
    /\ inbox' = Tail(inbox)
    /\ followedFrom' = NoSeq
    /\ UNCHANGED <<pipeline, queue, dropped, writerVars, handler, resume, wire, browser,
                   bounds, shown, evicted>>
--------------------------------------------------------------------------------
\* WebSocketConnection._writer: take events until the batch is full ...
WriterTakes ==
    /\ writer = "collect" /\ queue # <<>> /\ Len(batch) < FlushLines
    /\ batch' = Append(batch, Head(queue))
    /\ queue' = Tail(queue)
    /\ UNCHANGED <<pipeline, following, dropped, cursor, writer, outgoing, handlerVars,
                   wire, browser, bounds, streamHistory>>

\* ... or the grouping window ends.
WindowEnds ==
    /\ writer = "collect" /\ batch # <<>>
    /\ writer' = "flush"
    /\ UNCHANGED <<pipeline, subscription, cursor, batch, outgoing, handlerVars, wire,
                   browser, bounds, streamHistory>>

\* Mutated form of PastCursor: the end of a window is lost.
PastCursorButLast(lines) ==
    [cursor |-> IF lines = <<>> THEN cursor ELSE Last(lines).seq,
     out |-> IF lines = <<>> THEN <<>> ELSE Front(lines)]

\* What _flush makes of a run of lines: those past the cursor, which follows, so that
\* each is past those before it.
PastCursor(lines) ==
    LET past == At(lines, {i \in DOMAIN lines : /\ lines[i].seq > cursor
                                                /\ \A j \in 1..i - 1 : lines[j].seq < lines[i].seq})
    IN  [cursor |-> IF past = <<>> THEN cursor ELSE Last(past).seq, out |-> past]

Statuses(events) == {i \in DOMAIN events : events[i] = Status}

\* _flush groups the lines up to an event of another channel, whose own send is
\* an await; at the end of the batch the grouped lines are sent.
Flush ==
    /\ writer = "flush"
    /\ LET first == IF Statuses(batch) = {} THEN Len(batch) + 1
                    ELSE CHOOSE i \in Statuses(batch) : \A j \in Statuses(batch) : i <= j
           kept == PastCursor(SubSeq(batch, 1, first - 1))
           lines == outgoing \o kept.out
       IN /\ cursor' = kept.cursor
          /\ IF first <= Len(batch)
             THEN /\ batch' = SubSeq(batch, first + 1, Len(batch))
                  /\ outgoing' = lines
                  /\ UNCHANGED <<writer, wire>>
             ELSE /\ batch' = <<>>
                  /\ outgoing' = <<>>
                  /\ writer' = "report"
                  /\ wire' = IF lines = <<>> THEN wire ELSE Append(wire, LinesMessage(lines))
    /\ UNCHANGED <<pipeline, subscription, handlerVars, browser, bounds, streamHistory>>

\* take_dropped, and the notice of the connection.
ReportDropped ==
    /\ writer = "report"
    /\ writer' = "collect"
    /\ dropped' = 0
    /\ wire' = IF dropped > 0 THEN Append(wire, DroppedMessage(dropped)) ELSE wire
    /\ UNCHANGED <<pipeline, following, queue, cursor, batch, outgoing, handlerVars,
                   browser, bounds, streamHistory>>
--------------------------------------------------------------------------------
\* Mutated form of Fresh: everything is appended.
FreshOrNot(lines) == lines

\* realtime.ts appendLogs: the store filters what it has already received.
Fresh(lines) == At(lines, {i \in DOMAIN lines : lines[i].seq > lastSeq})

\* handleMessage: lines are appended, a notice about the server is counted, one
\* without a server is ignored (noteMissed).
Receive ==
    /\ wire # <<>>
    /\ wire' = Tail(wire)
    /\ LET message == Head(wire)
           fresh == Fresh(message.lines)
       IN /\ shown' = shown \o fresh
          /\ lastSeq' = IF fresh = <<>> THEN lastSeq ELSE Last(fresh).seq
          /\ missed' = IF message.kind = "truncated" THEN missed + message.missed
                       ELSE missed
    /\ UNCHANGED <<pipeline, subscription, cursor, writerVars, handlerVars, socket,
                   mounted, bounds, followedFrom, evicted>>
--------------------------------------------------------------------------------
StreamInit ==
    /\ life = 1 /\ seq = 0 /\ buffer = <<>>
    /\ following = FALSE /\ queue = <<>> /\ dropped = 0 /\ cursor = 0
    /\ writer = "collect" /\ batch = <<>> /\ outgoing = <<>>
    /\ inbox = <<>> /\ handler = "idle" /\ resume = NoSeq
    /\ wire = <<>>
    /\ socket = "closed" /\ mounted = FALSE /\ lastSeq = NoSeq /\ missed = 0
    /\ happenings = 0 /\ statuses = 0
    /\ shown = <<>> /\ followedFrom = NoSeq /\ evicted = 0

Server == Ingest \/ PublishStatus \/ Resync
Network == Connect \/ Disconnect \/ MsmRestarts
Page == Mount \/ Unmount
Handler == HandleSubscribe \/ SendBacklog \/ TellTruncated \/ HandleUnsubscribe
Writer == WriterTakes \/ WindowEnds \/ Flush \/ ReportDropped

StreamNext == Server \/ Network \/ Page \/ Handler \/ Writer \/ Receive

StreamSpec == StreamInit /\ [][StreamNext]_streamVars

\* The tasks of the connection and the event loop of the browser run, the
\* grouping window is a timeout, and the browser reconnects for ever.
FairStreamSpec ==
    /\ StreamSpec
    /\ WF_streamVars(Handler)
    /\ WF_streamVars(WriterTakes \/ Flush \/ ReportDropped)
    /\ WF_streamVars(WindowEnds)
    /\ WF_streamVars(Receive)
    /\ WF_streamVars(Connect)
--------------------------------------------------------------------------------
Lives == 1..MaxLives
Lines == [life : Lives, seq : 1..MaxHappenings]
Events == Lines \cup {Status}
Messages == [kind : {"lines", "truncated", "dropped"}, lines : Seq(Lines), missed : Nat]
Requests == [kind : {"subscribe", "unsubscribe"}, resume : Nat \cup {NoSeq}]

\* Every variable has its type, and no buffer, queue or batch outgrows its
\* capacity, whatever the server prints.
StreamTypeOK ==
    /\ life \in Lives /\ seq \in 0..MaxHappenings /\ seq <= happenings
    /\ buffer \in Seq(1..MaxHappenings) /\ Len(buffer) <= HistoryLines
    /\ following \in BOOLEAN /\ dropped \in Nat /\ cursor \in 0..MaxHappenings
    /\ queue \in Seq(Events) /\ Len(queue) <= QueueSize
    /\ writer \in {"collect", "flush", "report"}
    /\ batch \in Seq(Events) /\ Len(batch) <= FlushLines
    /\ outgoing \in Seq(Lines)
    /\ inbox \in Seq(Requests)
    /\ handler \in {"idle", "greeting", "counting"} /\ resume \in Nat \cup {NoSeq}
    /\ wire \in Seq(Messages)
    /\ socket \in {"open", "closed"} /\ mounted \in BOOLEAN
    /\ lastSeq \in Nat \cup {NoSeq} /\ missed \in Nat
    /\ happenings \in 0..MaxHappenings /\ statuses \in Nat
    /\ shown \in Seq(Lines) /\ followedFrom \in Nat \cup {NoSeq}
    /\ evicted \in Nat

WasShown(n) == Line(n) \in Range(shown)
OnItsWay(n) == \/ Line(n) \in Range(queue) \cup Range(batch) \cup Range(outgoing)
               \/ \E i \in DOMAIN wire : Line(n) \in Range(wire[i].lines)

\* No line is shown twice, and those of one numbering are in order, although a resumed
\* history, the live flow and lines sent before a disconnection overlap
\* (realtime.ts:93-95).  Two numberings are not kept apart: when the cursor is forgotten
\* between the two halves of a flush, one message carries lines of both.
ShownInOrder ==
    \A i, j \in DOMAIN shown :
        i < j /\ shown[i].life = shown[j].life => shown[i].seq < shown[j].seq

\* Once a subscription has got its history, a line printed since is shown, on its
\* way, or one of the events the queue counts as dropped: the cursor of the
\* backlog filters nothing that was not sent, and no loss goes uncounted, as long
\* as the numbering is the first.
NothingLostUncounted ==
    life = 1 /\ followedFrom # NoSeq =>
        Cardinality({n \in followedFrom + 1..seq : ~WasShown(n) /\ ~OnItsWay(n)})
            <= evicted

\* The history a resume asked for went past the last line it may bring, and nothing has
\* been printed since: _send_backlog keeps the first MaxBacklog lines only.
CutShort == resume >= 0 /\ followedFrom = seq /\ seq - resume > MaxBacklog

\* An open page ends up showing the last line printed, after any disconnection and
\* any loss (client.ts:7-13), unless the server numbers its lines anew and has not
\* yet passed the number the page stopped at, or enough events of the other channels
\* have come after the line to push it out of the queue, or the page had missed more
\* lines than a resume may bring and the server has printed nothing since.
ConsoleCatchesUp ==
    <>[](mounted /\ seq > 0 => \/ lastSeq = seq
                               \/ life > 1 /\ lastSeq > seq
                               \/ evicted > 0 /\ statuses >= QueueSize
                               \/ CutShort)

\* The console never stands still on the lines of an earlier numbering: "la console
\* resterait figée" (log_pipeline.py:103-105).
ConsoleFollowsRestart == <>[](mounted /\ seq > 0 => lastSeq = seq)

================================================================================
