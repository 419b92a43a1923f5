------------------------------ MODULE Gateway ------------------------------
(***************************************************************************)
(* One player's WebSocket: the gateway's connection handler with its two   *)
(* tasks, the mailbox the fan-out hub fills, the command channel to the    *)
(* engine of a room, and as much of the Mini App as answers them           *)
(* (services/gateway/connection.py, fanout.py, queries.py,                 *)
(* services/engine/commands.py, round_engine._serve_commands,              *)
(* web/miniapp/js/ws.js).                                                  *)
(*                                                                         *)
(* What happens in a room is a sequence of events: the engine writes each  *)
(* to Postgres and then publishes it; a state_sync is the number of events *)
(* written when Postgres was read.  The message loop, the writer loop and  *)
(* the hub's listener are tasks of one process and interleave at awaits.   *)
(*                                                                         *)
(* Left out: what events say (BingoRound), what commands do to the round   *)
(* (BingoRound), authentication, the rooms list, the count of false        *)
(* claims, and the REST routes (Deposit, Payout, KenoRound).               *)
(***************************************************************************)
EXTENDS Naturals, Sequences, FiniteSets

CONSTANTS
    Rooms,
    Events,         \* bound: Events[r], what happens in room r
    Droppable,      \* events whose message is a lobby_tick or a call
    MAX_QUEUE_SIZE,
    MaxOther,       \* bound: messages of the user and keno channels
    MaxFrames,      \* bound: frames the player sends
    MaxFaults,      \* bound: lost connections, engine stops, lost replies
    none

ASSUME GatewayAssumption ==
    /\ Events \in [Rooms -> Nat]
    /\ Droppable \subseteq (Rooms \X Nat)
    /\ MAX_QUEUE_SIZE \in Nat \ {0}
    /\ none \notin Nat \cup (Rooms \X Nat)
    /\ \A r \in Rooms : \A shows \in SUBSET (1..Events[r]) : shows # none
    /\ MaxOther \in Nat /\ MaxFrames \in Nat /\ MaxFaults \in Nat
    /\ none \notin Rooms

VARIABLES
    written,        \* events of each room that are in Postgres
    published,      \* events of each room that were published
    other,          \* other messages published so far
    conn,           \* whether the player's socket is open
    inbox,          \* frames the gateway has not read
    frames,         \* frames the player sent so far
    joined,         \* the room of _joined_rooms, which is subscribed to
    queue,          \* ConnectionQueue.queue
    needs_state_sync, wake,
    writer,         \* where _writer_loop is
    loop,           \* where _message_loop is
    stream,         \* commands in the room's stream
    engine,         \* commands the engine has read, or none while there is none
    faults,         \* what went wrong so far
    room,           \* Mini App: currentRoomId
    shown,          \* Mini App: the events it shows, or none before a state_sync
    owed,           \* events dropped and not yet covered by a state_sync
    sent,           \* events of the room the player was told of
    missed,         \* events cleared from a backlog, or taken back by a
                    \* state_sync that was read before and sent after them
    refused         \* whether the join or leave read last was refused

world == <<written, published, other>>
mailbox == <<queue, needs_state_sync, wake>>
channel == <<stream, engine>>
rooms == <<joined, refused>>
client == <<room, shown>>
history == <<owed, sent, missed>>
vars == <<world, conn, inbox, frames, rooms, mailbox, writer, loop, channel, faults, client,
          history>>

At(label) == [at |-> label]
Fault ==
    /\ faults < MaxFaults
    /\ faults' = faults + 1

(***************************************************************************)
(* The mailbox.                                                            *)
(***************************************************************************)
OfRoom(m) == m \in Rooms \X Nat
Numbers(s) == {m[2] : m \in {s[i] : i \in {j \in DOMAIN s : OfRoom(s[j])}}}

Full == Len(queue) >= MAX_QUEUE_SIZE

(* Faulty variant: a full mailbox drops whatever comes. *)
offer_drops(m) ==
    \/ /\ ~Full
       /\ queue' = Append(queue, m)
       /\ UNCHANGED <<needs_state_sync, wake, history>>
    \/ /\ Full
       /\ UNCHANGED <<mailbox, history>>

\* A full mailbox drops a tick and asks for a state_sync, or is emptied for a
\* message that must not be dropped.
offer(m) ==
    \/ /\ ~Full
       /\ queue' = Append(queue, m)
       /\ UNCHANGED <<needs_state_sync, wake, history>>
    \/ /\ Full /\ m \in Droppable
       /\ needs_state_sync' = TRUE /\ wake' = TRUE
       /\ owed' = owed \cup {m[2]}
       /\ UNCHANGED <<queue, sent, missed>>
    \/ /\ Full /\ m \notin Droppable
       /\ queue' = <<m>>
       /\ missed' = missed \cup Numbers(queue)
       /\ UNCHANGED <<needs_state_sync, wake, owed, sent>>

WriteEvent(r) ==
    /\ written[r] < Events[r]
    /\ written' = [written EXCEPT ![r] = @ + 1]
    /\ UNCHANGED <<published, other, conn, inbox, frames, rooms, mailbox, writer, loop,
                   channel, faults, client, history>>

\* The hub hands a message to the connections subscribed at that moment.
Publish(r) ==
    /\ published[r] < written[r]
    /\ published' = [published EXCEPT ![r] = @ + 1]
    /\ IF joined = r THEN offer(<<r, published[r] + 1>>) ELSE UNCHANGED <<mailbox, history>>
    /\ UNCHANGED <<written, other, conn, inbox, frames, rooms, writer, loop, channel, faults,
                   client>>

\* A balance or a Keno message: every open connection is subscribed to those.
PublishOther ==
    /\ other < MaxOther
    /\ other' = other + 1
    /\ IF conn THEN offer(none) ELSE UNCHANGED <<mailbox, history>>
    /\ UNCHANGED <<written, published, conn, inbox, frames, rooms, writer, loop, channel,
                   faults, client>>

(***************************************************************************)
(* What the player's device makes of a message.                            *)
(***************************************************************************)
\* ws.on("state_sync"): one of another room is ignored.
Receive(r, n) ==
    /\ shown' = IF r = room THEN 1..n ELSE shown
    /\ IF r = joined
       THEN /\ owed' = {e \in owed : e > n}
            /\ missed' = {e \in missed \cup sent : e > n}
            /\ sent' = sent \cup 1..n
       ELSE UNCHANGED history
    /\ UNCHANGED room

\* ws.on("call"): one of another round, or before any state_sync, is ignored.
ReceiveEvent(m) ==
    IF OfRoom(m)
    THEN /\ shown' = IF m[1] = room /\ shown # none THEN shown \cup {m[2]} ELSE shown
         /\ sent' = IF m[1] = joined THEN sent \cup {m[2]} ELSE sent
         /\ UNCHANGED <<room, owed, missed>>
    ELSE UNCHANGED <<client, history>>

(***************************************************************************)
(* The writer loop.                                                        *)
(***************************************************************************)
WriterTop ==
    /\ writer.at = "top"
    /\ needs_state_sync' = FALSE
    /\ writer' = IF needs_state_sync /\ joined # none
                 THEN [at |-> "build", room |-> joined] ELSE At("get")
    /\ UNCHANGED <<world, conn, inbox, frames, rooms, queue, wake, loop, channel, faults,
                   client, history>>

WriterBuilds ==
    /\ writer.at = "build"
    /\ writer' = [at |-> "sync", room |-> writer.room, n |-> written[writer.room]]
    /\ UNCHANGED <<world, conn, inbox, frames, rooms, mailbox, loop, channel, faults, client,
                   history>>

(* Faulty variant: the flag is cleared when the state_sync is sent, not before
   it is read. *)
WriterSyncs_clears ==
    /\ writer.at = "sync"
    /\ Receive(writer.room, writer.n)
    /\ writer' = At("get")
    /\ needs_state_sync' = FALSE
    /\ UNCHANGED <<world, conn, inbox, frames, rooms, queue, wake, loop, channel, faults>>

WriterSyncs ==
    /\ writer.at = "sync"
    /\ Receive(writer.room, writer.n)
    /\ writer' = At("get")
    /\ UNCHANGED <<world, conn, inbox, frames, rooms, mailbox, loop, channel, faults>>

\* get_or_wake(): a message at once if there is one.
WriterGets ==
    /\ writer.at = "get"
    /\ IF queue # <<>>
       THEN /\ writer' = [at |-> "send", m |-> Head(queue)]
            /\ queue' = Tail(queue)
       ELSE /\ writer' = At("parked")
            /\ UNCHANGED queue
    /\ UNCHANGED <<world, conn, inbox, frames, rooms, needs_state_sync, wake, loop, channel,
                   faults, client, history>>

\* The wait is over for a message, for the event, or for both at once.
WriterWakes ==
    /\ writer.at = "parked"
    /\ \/ /\ queue # <<>>
          /\ writer' = [at |-> "send", m |-> Head(queue)]
          /\ queue' = Tail(queue)
          /\ wake' \in {wake, FALSE}
       \/ /\ wake
          /\ writer' = At("top")
          /\ wake' = FALSE
          /\ UNCHANGED queue
    /\ UNCHANGED <<world, conn, inbox, frames, rooms, needs_state_sync, loop, channel, faults,
                   client, history>>

WriterSends ==
    /\ writer.at = "send"
    /\ ReceiveEvent(writer.m)
    /\ writer' = At("top")
    /\ UNCHANGED <<world, conn, inbox, frames, rooms, mailbox, loop, channel, faults>>

\* build_state_sync or the socket raises in the writer: the task ends, and the
\* connection goes on without it.
WriterFails ==
    /\ writer.at \in {"build", "sync", "send"}
    /\ Fault
    /\ writer' = At("dead")
    /\ UNCHANGED <<world, conn, inbox, frames, rooms, mailbox, loop, channel, client, history>>

(***************************************************************************)
(* The message loop.                                                       *)
(***************************************************************************)
NextFrame(t) ==
    /\ loop.at = "idle" /\ inbox # <<>> /\ Head(inbox).t = t
    /\ inbox' = Tail(inbox)

\* Another room is left, and this one subscribed to before its state is read.
Subscribe(r) ==
    /\ joined' = r
    /\ refused' = FALSE
    /\ IF joined = r THEN UNCHANGED history
       ELSE owed' = {} /\ sent' = {} /\ missed' = {}

HandleJoin ==
    /\ NextFrame("join")
    /\ LET r == Head(inbox).room IN Subscribe(r) /\ loop' = [at |-> "build", room |-> r]
    /\ UNCHANGED <<world, conn, frames, mailbox, writer, channel, faults, client>>

JoinBuilds ==
    /\ loop.at = "build"
    /\ loop' = [at |-> "built", room |-> loop.room, n |-> written[loop.room]]
    /\ UNCHANGED <<world, conn, inbox, frames, rooms, mailbox, writer, channel, faults,
                   client, history>>

JoinSends ==
    /\ loop.at = "built"
    /\ Receive(loop.room, loop.n)
    /\ loop' = At("idle")
    /\ UNCHANGED <<world, conn, inbox, frames, rooms, mailbox, writer, channel, faults>>

HandleLeave ==
    /\ NextFrame("leave")
    /\ IF Head(inbox).room = joined
       THEN Subscribe(none)
       ELSE refused' = FALSE /\ UNCHANGED <<joined, history>>
    /\ UNCHANGED <<world, conn, frames, mailbox, writer, loop, channel, faults, client>>

\* A frame of any kind that finds its token bucket empty, Redis failing or its
\* content malformed is answered with an error, which the Mini App shows and
\* does not act on.
Refuse ==
    /\ loop.at = "idle" /\ inbox # <<>>
    /\ inbox' = Tail(inbox)
    /\ refused' = IF Head(inbox).t = "command" THEN refused ELSE TRUE
    /\ UNCHANGED <<world, conn, frames, joined, mailbox, writer, loop, channel, faults, client,
                   history>>

(***************************************************************************)
(* Commands.  The reply channel is subscribed to before the command is     *)
(* added to the stream, so that a reply finds its caller waiting.          *)
(***************************************************************************)
send_command ==
    /\ NextFrame("command")
    /\ stream' = stream + 1
    /\ loop' = [at |-> "waiting", id |-> stream + 1]
    /\ UNCHANGED <<world, conn, frames, rooms, mailbox, writer, engine, faults, client,
                   history>>

\* One entry after the other; the reply is published to whoever waits for it.
ServeCommand ==
    /\ engine # none /\ engine < stream
    /\ engine' = engine + 1
    /\ loop' = IF loop = [at |-> "waiting", id |-> engine + 1] THEN At("idle") ELSE loop
    /\ UNCHANGED <<world, conn, inbox, frames, rooms, mailbox, writer, stream, faults, client,
                   history>>

ReplyLost ==
    /\ engine # none /\ engine < stream
    /\ Fault
    /\ engine' = engine + 1
    /\ UNCHANGED <<world, conn, inbox, frames, rooms, mailbox, writer, loop, stream, client,
                   history>>

CommandTimeout ==
    /\ loop.at = "waiting"
    /\ loop' = At("idle")
    /\ UNCHANGED <<world, conn, inbox, frames, rooms, mailbox, writer, channel, faults,
                   client, history>>

\* A new engine starts behind the last entry: what was not read is skipped.
EngineStarts ==
    /\ engine = none
    /\ engine' = stream
    /\ UNCHANGED <<world, conn, inbox, frames, rooms, mailbox, writer, loop, stream, faults,
                   client, history>>

EngineStops ==
    /\ engine # none
    /\ Fault
    /\ engine' = none
    /\ UNCHANGED <<world, conn, inbox, frames, rooms, mailbox, writer, loop, stream, client,
                   history>>

(***************************************************************************)
(* The connection and the player.                                          *)
(***************************************************************************)
Fresh ==
    /\ queue' = <<>> /\ needs_state_sync' = FALSE /\ wake' = FALSE
    /\ joined' = none /\ refused' = FALSE
    /\ owed' = {} /\ sent' = {} /\ missed' = {}
    /\ loop' = At("idle")

\* The handshake; the Mini App then asks for the room it was in.
Connect ==
    /\ ~conn
    /\ conn' = TRUE
    /\ Fresh
    /\ writer' = At("top")
    /\ inbox' = IF room = none THEN <<>> ELSE <<[t |-> "join", room |-> room]>>
    /\ UNCHANGED <<world, frames, channel, faults, client>>

\* The socket is lost or the gateway stops: _cleanup() ends the writer and
\* every subscription.  A command that was sent stays in the stream.
Disconnect ==
    /\ conn
    /\ Fault
    /\ conn' = FALSE
    /\ Fresh
    /\ writer' = At("none")
    /\ inbox' = <<>>
    /\ UNCHANGED <<world, frames, channel, client>>

\* What the Mini App sends without an open socket is lost.
Sends(f) ==
    /\ frames < MaxFrames
    /\ frames' = frames + 1
    /\ inbox' = IF conn THEN Append(inbox, f) ELSE inbox
    /\ UNCHANGED <<world, conn, rooms, mailbox, writer, loop, channel, faults, history>>

\* Going to another room: its round is not on the screen before its state_sync.
EnterRoom(r) ==
    /\ Sends([t |-> "join", room |-> r])
    /\ room' = r
    /\ shown' = IF r = room THEN shown ELSE none

LeaveRoom ==
    /\ room # none
    /\ Sends([t |-> "leave", room |-> room])
    /\ room' = none /\ shown' = none

AskCommand ==
    /\ room # none
    /\ Sends([t |-> "command", room |-> room])
    /\ UNCHANGED client

(***************************************************************************)
(* The specification.                                                      *)
(***************************************************************************)
Init ==
    /\ written = [r \in Rooms |-> 0] /\ published = written /\ other = 0
    /\ conn = FALSE /\ inbox = <<>> /\ frames = 0 /\ joined = none /\ refused = FALSE
    /\ queue = <<>> /\ needs_state_sync = FALSE /\ wake = FALSE
    /\ writer = At("none") /\ loop = At("idle")
    /\ stream = 0 /\ engine = none /\ faults = 0
    /\ room = none /\ shown = none
    /\ owed = {} /\ sent = {} /\ missed = {}

Engine == (\E r \in Rooms : WriteEvent(r) \/ Publish(r)) \/ PublishOther
WriterLoop ==
    WriterTop \/ WriterBuilds \/ WriterSyncs \/ WriterGets \/ WriterWakes \/ WriterSends
HandleFrame == HandleJoin \/ HandleLeave \/ Refuse \/ send_command
MessageLoop == HandleFrame \/ JoinBuilds \/ JoinSends \/ CommandTimeout
Commands == ServeCommand \/ ReplyLost \/ EngineStarts \/ EngineStops
Player == (\E r \in Rooms : EnterRoom(r)) \/ LeaveRoom \/ AskCommand

Next ==
    \/ Engine
    \/ WriterLoop \/ WriterFails
    \/ MessageLoop
    \/ Commands
    \/ Connect \/ Disconnect
    \/ Player

Spec == Init /\ [][Next]_vars

\* The writer's task goes on; nothing is asked of the player or the engine.
FairSpec == Spec /\ WF_vars(WriterLoop)

-----------------------------------------------------------------------------
Quiet ==
    /\ conn /\ room # none /\ inbox = <<>> /\ loop.at = "idle"
    /\ queue = <<>> /\ writer.at = "parked" /\ ~wake
    /\ published = written

\* However joins, the writer and the hub interleave, and whatever frames are
\* refused: once nothing is under way, a player whose last join was not refused
\* is in the room of the screen and sees it, and whoever is shown the room the
\* connection is in sees every event of it, but for those the gateway is known
\* to lose: a backlog cleared for a message that must not be dropped, and a
\* joiner's state sent after later events.
ViewCurrent ==
    Quiet =>
        /\ refused \/ (joined = room /\ shown # none)
        /\ joined = room /\ shown # none => (1..written[room]) \ missed = shown \ missed

(***************************************************************************)
(* Why it holds.                                                           *)
(***************************************************************************)
Message == (Rooms \X Nat) \cup {none}
Frame == [t : {"join", "leave", "command"}, room : Rooms]
WriterPlace ==
    [at : {"none", "top", "get", "parked", "dead"}] \cup [at : {"build"}, room : Rooms]
    \cup [at : {"sync"}, room : Rooms, n : Nat] \cup [at : {"send"}, m : Message]
LoopPlace ==
    [at : {"idle"}] \cup [at : {"build"}, room : Rooms]
    \cup [at : {"built"}, room : Rooms, n : Nat] \cup [at : {"waiting"}, id : Nat]

GatewayTypeOK ==
    /\ written \in [Rooms -> Nat] /\ published \in [Rooms -> Nat]
    /\ conn \in BOOLEAN /\ needs_state_sync \in BOOLEAN /\ wake \in BOOLEAN
    /\ joined \in Rooms \cup {none} /\ room \in Rooms \cup {none}
    /\ queue \in Seq(Message) /\ inbox \in Seq(Frame)
    /\ writer \in WriterPlace /\ loop \in LoopPlace
    /\ stream \in Nat /\ engine \in Nat \cup {none}
    /\ shown \in {none} \cup SUBSET Nat
    /\ owed \subseteq Nat /\ sent \subseteq Nat \ {0} /\ missed \subseteq Nat
    /\ refused \in BOOLEAN

Queued(m) == \E i \in 1..Len(queue) : queue[i] = m
Sending(m) == writer.at = "send" /\ writer.m = m

\* Nothing is published, read or shown that was not written.
NothingAhead ==
    /\ \A r \in Rooms : published[r] <= written[r] /\ written[r] <= Events[r]
    /\ \A r \in Rooms, e \in Nat :
          Queued(<<r, e>>) \/ Sending(<<r, e>>) => e \in 1..published[r]
    /\ writer.at = "sync" => writer.n <= written[writer.room]
    /\ loop.at = "built" => loop.n <= written[loop.room]
    /\ shown # none => room # none /\ shown \subseteq 1..written[room]

\* The player ends up in the room the Mini App is in: what was last asked for
\* and not handled yet is to join it, and once nothing is asked for the gateway
\* has refused it, or has joined it and shows it, or is about to.
IsCommand(i) == inbox[i].t = "command"
NothingAsked == \A i \in 1..Len(inbox) : IsCommand(i)
LastAskedIs(r) ==
    \A i \in 1..Len(inbox) :
        \/ IsCommand(i) \/ inbox[i] = [t |-> "join", room |-> r]
        \/ \E k \in i + 1..Len(inbox) : ~IsCommand(k)
RoomWanted ==
    /\ ~conn => inbox = <<>>
    /\ room # none =>
          /\ LastAskedIs(room)
          /\ conn /\ NothingAsked /\ ~refused =>
                joined = room /\ (shown # none \/ loop.at \in {"build", "built"})

JoinsTheRoom == loop.at \in {"build", "built"} => joined = loop.room

\* A tick that was dropped is on its way in a state_sync, or the flag is up and
\* the writer is going to see it.
OwedIsComing ==
    \A e \in owed :
        /\ joined # none /\ e <= written[joined]
        /\ \/ writer.at = "dead" \/ needs_state_sync
           \/ writer.at = "build" /\ writer.room = joined
           \/ writer.at = "sync" /\ writer.room = joined /\ e <= writer.n

FlagWakes == needs_state_sync => wake \/ writer.at \in {"top", "send", "dead"}

\* Every event published to the room that was joined reached the player, is on
\* its way, or is among those known to be lost.
EventsAccounted ==
    joined # none /\ loop.at # "build" /\ writer.at # "dead" =>
        \A e \in 1..published[joined] :
            \/ e \in sent \cup missed \cup owed
            \/ Queued(<<joined, e>>) \/ Sending(<<joined, e>>)
            \/ loop.at = "built" /\ e <= loop.n

\* The Mini App shows what it was told of the room it is in.
ToldIsShown == joined # none /\ joined = room /\ shown # none => sent \subseteq shown \cup missed

GatewayInv ==
    /\ GatewayTypeOK /\ NothingAhead /\ RoomWanted /\ JoinsTheRoom
    /\ OwedIsComing /\ FlagWakes /\ EventsAccounted /\ ToldIsShown

\* A dropped tick is made up for by a state_sync, a tick dropped while one is
\* being read and a tick dropped just as the writer parks included, unless the
\* room is left, the connection lost or the writer dead.
EveryDropIsMadeUpFor ==
    \A r \in Rooms : \A e \in 1..Events[r] :
        (joined = r /\ e \in owed) ~> (e \notin owed \/ joined # r \/ writer.at = "dead")

=============================================================================
