------------------------------ MODULE Notices ------------------------------
(***************************************************************************)
(* What Discord is told of a server that ends again and again: the events  *)
(* of the restart loop, the queue of the bus they wait in, the notifier    *)
(* that turns them into facts and posts these, and Discord, which may      *)
(* accept, refuse, answer late or never.                                   *)
(*                                                                         *)
(* The restart loop is that of RestartLoop, step by step; its events are   *)
(* published in the same step.  One crash is followed from its publication *)
(* to its end.                                                             *)
(***************************************************************************)
EXTENDS Integers, Sequences, SequencesExt, RestartPolicy

CONSTANTS
    Policies,    \* the restart policies of the server
    QueueSize,   \* the places of the queue of the bus
    MaxAttempts, \* the attempts of a message
    Ticked       \* the facts the channel is told

\* What RestartPolicy accepts; its growth factor is 2.
IsPolicy(p) == p.delay \in Nat /\ p.factor \in Nat \ {0} /\ p.cap \in Nat

ASSUME PoliciesAssumption == \A p \in Policies : IsPolicy(p)

\* A channel that is not told of crashes has nothing to be told of one.
ASSUME ChannelAssumption ==
    QueueSize \in Nat \ {0} /\ MaxAttempts \in Nat \ {0} /\ "mine" \in Ticked

VARIABLES
    policy, phase, crashes, delay,   \* the restart loop
    ready,     \* the server has said ONLINE
    queue,     \* the events that wait, the oldest first
    seen,      \* _states: the last state the notifier has seen
    batch,     \* _queue: the facts collected
    sending,   \* the facts of the flush under way
    stage,     \* "idle", "window", "load", "send" or "over"
    tries,     \* attempts of this message
    settings,  \* of the channel: is it enabled, has it an address
    stopping,  \* "no", "asked", or "cancelled" once the stop has waited too long
    fate,      \* of the crash that is followed
    wasOff,    \* history: since it was published the settings were off
    shown,     \* the times Discord has shown the message under way
    silent     \* history: one of its attempts went unanswered

loop == <<policy, phase, crashes, delay>>
notifier == <<seen, batch, sending, stage, tries, stopping, shown, silent>>
followed == <<fate, wasOff>>
noticesVars == <<loop, ready, queue, notifier, settings, followed>>

Loop == INSTANCE RestartLoop

States == {"STARTING", "ONLINE", "CRASHED", "OFFLINE"}
Facts == {"crash", "mine", "restart", "started", "stopped"}
Events == States \cup {"crash", "mine", "restart", "line", "wake"}

wanted == settings.enabled /\ settings.address

(***************************************************************************)
(* The bus.                                                                *)
(***************************************************************************)
\* A full queue drops the oldest.
Kept(events) ==
    SubSeq(events, IF Len(events) > QueueSize THEN Len(events) - QueueSize + 1 ELSE 1, Len(events))

\* The end of the crash that is followed: told, or lost for a reason.
EndsAs(end) ==
    /\ fate' = IF \/ end = "unwanted" /\ ~wasOff
                  \/ end = "cut" /\ stopping' = "no"
               THEN "lost" ELSE "ended"
    /\ wasOff' = FALSE

Closed == stage = "over" \/ stopping = "cancelled"

\* publish never blocks; a subscription that is closed gets nothing.
Publishes(events) ==
    /\ queue' = IF Closed THEN queue ELSE Kept(queue \o events)
    /\ LET mine == fate = "queued" \/ Contains(events, "mine")
       IN  IF mine /\ ~Contains(queue', "mine") THEN EndsAs("evicted")
           ELSE /\ fate' = IF mine THEN "queued" ELSE fate
                /\ wasOff' = IF Contains(events, "mine") THEN ~wanted ELSE wasOff

(***************************************************************************)
(* The server.                                                             *)
(***************************************************************************)
\* _supervise publishes the state, the crash and the restart in one go.  The crash may
\* be the one that is followed.
ServerEnds(code) ==
    /\ Loop!ServerEnds(code)
    /\ \E crash \in {"crash", "mine"} :
          /\ crash = "mine" => code # "ok" /\ fate = "none"
          /\ Publishes((IF code = "ok" THEN <<"OFFLINE">> ELSE <<"CRASHED", crash>>)
                       \o (IF phase' = "waiting" THEN <<"restart">> ELSE <<>>))
    /\ UNCHANGED <<ready, notifier, settings>>

StartsAgain ==
    /\ Loop!StartsAgain /\ Publishes(<<"STARTING">>) /\ ready' = FALSE
    /\ UNCHANGED <<notifier, settings>>

\* Being ready changes nothing in the restart loop.
SaysReady ==
    /\ phase \in {"young", "stable"} /\ ~ready /\ ready' = TRUE
    /\ Publishes(<<"ONLINE">>)
    /\ UNCHANGED <<loop, notifier, settings>>

BecomesStable == Loop!BecomesStable /\ UNCHANGED <<ready, queue, notifier, settings, followed>>

\* The lines of the console fill the same queue.
OtherEvent ==
    /\ ~Closed /\ Publishes(<<"line">>)
    /\ UNCHANGED <<loop, ready, notifier, settings>>

(***************************************************************************)
(* The notifier.                                                           *)
(***************************************************************************)
\* _collect_state: a start and a stop are transitions, from the last state seen.
FactOf(event) ==
    CASE event \in {"crash", "mine", "restart"} -> <<event>>
      [] event = "ONLINE" /\ seen = "STARTING"   -> <<"started">>
      [] event = "OFFLINE" /\ seen = "ONLINE"    -> <<"stopped">>
      [] OTHER                                   -> <<>>

\* Mutant: the window is not followed by a flush; only the next fact brings one.
TakesWithoutWindow ==
    /\ stage = "idle" /\ queue # <<>> /\ stopping = "no"
    /\ queue' = Tail(queue)
    /\ seen' = IF Head(queue) \in States THEN Head(queue) ELSE seen
    /\ batch' = batch \o FactOf(Head(queue))
    /\ stage' = IF batch # <<>> THEN "window" ELSE "idle"
    /\ fate' = IF Head(queue) = "mine" THEN "held" ELSE fate
    /\ UNCHANGED <<loop, ready, sending, tries, stopping, settings, wasOff, shown, silent>>

\* An event is taken; a fact opens the window, during which nothing else is taken.
Takes ==
    /\ stage = "idle" /\ queue # <<>> /\ stopping = "no"
    /\ queue' = Tail(queue)
    /\ seen' = IF Head(queue) \in States THEN Head(queue) ELSE seen
    /\ batch' = batch \o FactOf(Head(queue))
    /\ stage' = IF batch' = <<>> THEN "idle" ELSE "window"
    /\ fate' = IF Head(queue) = "mine" THEN "held" ELSE fate
    /\ UNCHANGED <<loop, ready, sending, tries, stopping, settings, wasOff, shown, silent>>

\* flush takes what was collected.
Flushes ==
    /\ stage = "window"
    /\ stage' = "load" /\ sending' = batch /\ batch' = <<>>
    /\ UNCHANGED <<loop, ready, queue, seen, tries, stopping, settings, followed, shown, silent>>

\* The end of a flush, and of the loop if the stop has cancelled it.
Ended ==
    /\ stage' = IF stopping = "cancelled" THEN "over" ELSE "idle"
    /\ sending' = <<>> /\ tries' = 0 /\ shown' = 0 /\ silent' = FALSE

Mine == fate = "held" /\ Contains(sending, "mine")
MineEnds(end) == IF Mine THEN EndsAs(end) ELSE UNCHANGED followed

\* Of the fact a message is made of, what the channel is told.
Retained(facts) == IF facts # <<>> /\ Head(facts) \in Ticked THEN facts ELSE <<>>

\* Mutant: the settings are those of the beginning.
LoadsOnce ==
    /\ stage = "load"
    /\ stage' = "send" /\ tries' = 1 /\ sending' = Retained(sending)
    /\ UNCHANGED <<loop, ready, queue, seen, batch, stopping, settings, followed, shown, silent>>

\* The settings are read for every message; when they cannot be, there are none.
Loads ==
    /\ stage = "load"
    /\ \/ /\ wanted /\ Retained(sending) # <<>>
          /\ stage' = "send" /\ tries' = 1
          /\ sending' = Retained(sending)
          /\ UNCHANGED <<followed, shown, silent>>
       \/ /\ ~wanted \/ Retained(sending) = <<>>
          /\ Ended /\ MineEnds("unwanted")
       \/ Ended /\ MineEnds("unreadable")
    /\ UNCHANGED <<loop, ready, queue, seen, batch, stopping, settings>>

\* 429, an error of the server, or no answer: one more attempt, if there is one left.
Again ==
    /\ tries < MaxAttempts /\ tries' = tries + 1
    /\ UNCHANGED <<stage, sending, shown>>

Accepts ==
    /\ stage = "send" /\ Ended /\ MineEnds("told")
    /\ UNCHANGED <<loop, ready, queue, seen, batch, stopping, settings>>

\* Discord shows the message, and its answer is lost.
AcceptsSilently ==
    /\ stage = "send"
    /\ \/ /\ tries < MaxAttempts /\ tries' = tries + 1
          /\ shown' = shown + 1 /\ silent' = TRUE
          /\ UNCHANGED <<stage, sending, followed>>
       \/ tries = MaxAttempts /\ Ended /\ MineEnds("told")
    /\ UNCHANGED <<loop, ready, queue, seen, batch, stopping, settings>>

\* It asks to wait, fails or is out of reach, and is asked again; or it refuses.
Refuses ==
    /\ stage = "send"
    /\ \/ Ended /\ MineEnds("refused")
       \/ Again /\ UNCHANGED <<followed, silent>>
    /\ UNCHANGED <<loop, ready, queue, seen, batch, stopping, settings>>

\* An error that is none of httpx's own (an address it cannot parse, say: only the prefix
\* of the address is checked) leaves send_to_discord and the loop with it; nothing
\* restarts the notifier.
Raises ==
    /\ stage = "send"
    /\ stage' = "over" /\ queue' = <<>> /\ sending' = <<>> /\ tries' = 0
    /\ shown' = 0 /\ silent' = FALSE
    /\ IF fate = "queued" \/ Mine THEN EndsAs("raised") ELSE UNCHANGED followed
    /\ UNCHANGED <<loop, ready, seen, batch, stopping, settings>>

(***************************************************************************)
(* The settings, and the stop of MSM.                                      *)
(***************************************************************************)
\* _apply: clearing the address disables the channel, which cannot be enabled without one.
Applied(stored, change) ==
    CASE change = "clear"   -> [enabled |-> FALSE, address |-> FALSE]
      [] change = "address" -> [stored EXCEPT !.address = TRUE]
      [] change = "enable"  -> [stored EXCEPT !.enabled = stored.address]
      [] change = "disable" -> [stored EXCEPT !.enabled = FALSE]

\* One request may give an address and enable the channel.
Configures ==
    /\ \/ \E change \in {"clear", "address", "enable", "disable"} : settings' = Applied(settings, change)
       \/ settings' = Applied(Applied(settings, "address"), "enable")
    /\ settings' # settings
    /\ wasOff' = (fate \in {"queued", "held"} /\ (wasOff \/ ~wanted'))
    /\ UNCHANGED <<loop, ready, queue, notifier, fate>>

\* stop: the loop is woken by an event of its own.
Stops ==
    /\ stopping = "no" /\ stopping' = "asked" /\ Publishes(<<"wake">>)
    /\ UNCHANGED <<loop, ready, seen, batch, sending, stage, tries, settings, shown, silent>>

\* The loop leaves at the next event; what waits in the queue is not looked at.
Breaks ==
    /\ stage = "idle" /\ queue # <<>> /\ stopping = "asked"
    /\ stage' = "over" /\ queue' = <<>>
    /\ UNCHANGED <<loop, ready, seen, batch, sending, tries, stopping, settings, shown, silent>>
    /\ IF fate = "queued" THEN EndsAs("cut") ELSE UNCHANGED followed

\* After five seconds the task is cancelled: a flush under way is lost, what was only
\* collected is flushed on the way out.
TimesOut ==
    /\ stopping = "asked" /\ stage \in {"window", "load", "send"}
    /\ stopping' = "cancelled" /\ queue' = <<>>
    /\ IF stage = "window"
       THEN /\ stage' = "load" /\ sending' = batch /\ batch' = <<>>
            /\ UNCHANGED <<tries, shown, silent>>
       ELSE /\ stage' = "over" /\ sending' = <<>> /\ tries' = 0 /\ shown' = 0 /\ silent' = FALSE
            /\ UNCHANGED batch
    /\ IF fate = "queued" \/ Mine THEN EndsAs("cut") ELSE UNCHANGED followed
    /\ UNCHANGED <<loop, ready, seen, settings>>

NoticesInit ==
    /\ Loop!Init
    /\ ready = FALSE /\ queue = <<>> /\ seen = "STARTING" /\ batch = <<>> /\ sending = <<>>
    /\ stage = "idle" /\ tries = 0
    /\ settings \in [enabled : {FALSE}, address : BOOLEAN] /\ stopping = "no"
    /\ fate = "none" /\ wasOff = FALSE /\ shown = 0 /\ silent = FALSE

Notifies == Takes \/ Flushes \/ Loads \/ Accepts \/ AcceptsSilently \/ Refuses \/ Raises \/ Breaks

NoticesNext ==
    \/ StartsAgain \/ BecomesStable \/ SaysReady \/ \E code \in ExitCodes : ServerEnds(code)
    \/ OtherEvent \/ Notifies \/ Configures \/ Stops \/ TimesOut

\* The tasks of the event loop go on; every request to Discord has a timeout.
NoticesSpec ==
    /\ NoticesInit /\ [][NoticesNext]_noticesVars
    /\ WF_noticesVars(StartsAgain) /\ WF_noticesVars(\E code \in ExitCodes : ServerEnds(code))
    /\ WF_noticesVars(Notifies)

(***************************************************************************)
(* Properties.                                                             *)
(***************************************************************************)
NoticesTypeOK ==
    /\ queue \in Seq(Events) /\ Len(queue) <= QueueSize
    /\ batch \in Seq(Facts) /\ sending \in Seq(Facts) /\ Len(batch) <= 1 /\ Len(sending) <= 1
    /\ stage \in {"idle", "window", "load", "send", "over"} /\ stopping \in {"no", "asked", "cancelled"}
    /\ settings \in [enabled : BOOLEAN, address : BOOLEAN]
    /\ fate \in {"none", "queued", "held", "ended", "lost"} /\ wasOff \in BOOLEAN
    /\ tries \in 0 .. MaxAttempts /\ shown \in 0 .. MaxAttempts

TwiceOnlyUnanswered == shown = 0 \/ silent

\* notifier.py:1: a crash ends up in the channel, unless the queue was full, the settings
\* off at some time since or unreadable, Discord refused it, MSM stops, or an error ended
\* the notifier; and a message is shown twice only when the answer to an attempt was lost.
CrashIsTold == (fate = "queued" ~> fate = "ended") /\ []TwiceOnlyUnanswered

\* Notifications that are off, and stay off, are silent in the end, without a restart.
OffIsQuiet == <>[]~wanted => <>[](stage # "send")

\* A server that stops reaching stability is eventually left alone (docstring of
\* core/restart_policy.py), whatever its events meet on their way.
GivesUp == Loop!GivesUp

\* From one attempt to the next the delay never shrinks and stays under the cap; after a
\* stable run the base delay comes back.
BackoffGrows == Loop!BackoffGrows
=============================================================================
