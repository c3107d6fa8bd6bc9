------------------------------ MODULE Transport ------------------------------
(***************************************************************************)
(* The WebSocket transport of the Rust client                              *)
(* (rust/src/protocol/transport.rs).  One owner connects, reconnects and   *)
(* closes; any task sends.  Each connection has a number, its generation,  *)
(* a writer task that drains the one outgoing channel into the socket, and *)
(* a reader task that forwards what the server sends.  The tasks run on    *)
(* other threads: every await of theirs, and every access to shared state  *)
(* on both sides of which another thread can act, is a step.               *)
(*                                                                         *)
(* The network and the server are the environment: a socket may refuse to  *)
(* open, may be closed by the server at any time, and loses what is        *)
(* written to it after that.  It may also break off before it closes: the  *)
(* next thing to read is a close frame or an error (too large, not UTF-8,  *)
(* against the protocol), and the writer's half still stands.              *)
(***************************************************************************)
EXTENDS Naturals, Sequences, SequencesExt, FiniteSets

CONSTANTS Browsers,     \* browsers reconnect() is called with
          Unpinned,     \* opts.browser was "auto": the server chooses
          MaxAttempts,  \* connect(max_attempts)
          MaxGen,       \* bound: connections dialled altogether
          MaxSends,     \* bound: messages sent by callers
          MaxServer     \* bound: messages sent by the server, over all connections

ASSUME TransportAssumption ==
    /\ MaxAttempts \in Nat \ {0} /\ MaxGen \in Nat
    /\ MaxSends \in Nat /\ MaxServer \in Nat
    /\ Unpinned \notin Browsers

Gens == 1..MaxGen

Dropped == MaxGen + 1  \* nobody has the receiver

Standing == {"open", "broken"}  \* a socket that is not closed on the network

VARIABLES
  \* Transport: its atomics and channels
  browser,      \* current_browser, or Unpinned while no browser is pinned
  generation, connected,
  receiver,     \* who has the outgoing channel's receiver: 0 for the
                \* transport itself, a generation's writer, or Dropped
  outgoing,     \* the outgoing channel
  incoming,     \* message_rx: what the readers forwarded, <<generation, number>>
  handles,      \* task_handles: the generation whose tasks close() can abort
  \* the owner's call in progress
  pc, attempts, result,
  \* per generation: the socket, its two tasks, what is on the wire
  socket, writer, reader, aborted, held, inbound, wire, asked,
  \* history: messages accepted by send(), how many the server has sent,
  \* messages forwarded by a reader after its generation was superseded
  accepted, sent, served, stale

ownerVars  == <<pc, attempts, result>>
taskVars   == <<socket, writer, reader, aborted, held, inbound, wire, asked>>
vars == <<browser, generation, connected, receiver, outgoing, incoming, handles,
          ownerVars, taskVars, accepted, sent, served, stale>>
history == <<accepted, sent, served, stale>>

Init ==
    /\ browser \in Browsers \cup {Unpinned}
    /\ generation = 0 /\ connected = FALSE
    /\ receiver = 0 /\ outgoing = <<>> /\ incoming = <<>> /\ handles = 0
    /\ pc = "idle" /\ attempts = 0 /\ result = "none"
    /\ socket = [g \in Gens |-> "none"]
    /\ writer = [g \in Gens |-> "none"] /\ reader = [g \in Gens |-> "none"]
    /\ aborted = {}
    /\ held = [g \in Gens |-> 0]
    /\ inbound = [g \in Gens |-> <<>>] /\ wire = [g \in Gens |-> <<>>]
    /\ asked = [g \in Gens |-> Unpinned]
    /\ accepted = <<>> /\ sent = 0 /\ served = 0
    /\ stale = [g \in Gens |-> 0]

-----------------------------------------------------------------------------
\* send(): the channel accepts as long as somebody has its receiver.

Send ==
    /\ sent < MaxSends
    /\ sent' = sent + 1
    /\ IF receiver = Dropped
       THEN UNCHANGED <<outgoing, accepted>>
       ELSE /\ outgoing' = Append(outgoing, sent')
            /\ accepted' = Append(accepted, sent')
    /\ UNCHANGED <<browser, generation, connected, receiver, incoming, handles,
                   ownerVars, taskVars, served, stale>>

-----------------------------------------------------------------------------
\* The owner: connect(), reconnect(), close().

Connect ==
    /\ pc = "idle" /\ generation < MaxGen
    /\ IF connected
       THEN result' = "ok" /\ UNCHANGED <<pc, attempts>>
       ELSE pc' = "dial" /\ attempts' = MaxAttempts /\ result' = "none"
    /\ UNCHANGED <<browser, generation, connected, receiver, outgoing, incoming,
                   handles, taskVars, history>>

\* Mutant: the tasks of the old connection keep running.
LetTasksRun ==
    /\ handles' = 0
    /\ connected' = FALSE
    /\ UNCHANGED aborted

\* close(): abort() takes effect when a task next waits.
CloseTasks ==
    /\ handles' = 0
    /\ aborted' = aborted \cup ({handles} \ {0})
    /\ connected' = FALSE

Reconnect(b) ==
    /\ pc = "idle" /\ generation < MaxGen
    /\ browser' = b
    /\ CloseTasks
    /\ pc' = "dial" /\ attempts' = 1 /\ result' = "none"
    /\ UNCHANGED <<generation, receiver, outgoing, incoming, socket, writer,
                   reader, held, inbound, wire, asked, history>>

Close ==
    /\ pc = "idle"
    /\ CloseTasks
    /\ UNCHANGED <<browser, generation, receiver, outgoing, incoming, ownerVars,
                   socket, writer, reader, held, inbound, wire, asked, history>>

\* connect_internal(), up to the await of the handshake.  The bound on
\* generations cuts the attempts short.
Dial ==
    /\ pc = "dial"
    /\ generation < MaxGen
    /\ generation' = generation + 1
    /\ asked' = [asked EXCEPT ![generation'] = browser]
    /\ pc' = "dialing"
    /\ UNCHANGED <<browser, connected, receiver, outgoing, incoming, handles,
                   attempts, result, socket, writer, reader, aborted, held,
                   inbound, wire, history>>

\* Refused, rate limited or timed out: none of these is SpiderError::Auth, so
\* connect() tries again until its attempts are used up.
DialFails ==
    /\ pc = "dialing"
    /\ attempts' = attempts - 1
    /\ IF attempts' > 0 /\ generation < MaxGen
       THEN pc' = "dial" /\ UNCHANGED result
       ELSE pc' = "idle" /\ result' = "error"
    /\ UNCHANGED <<browser, generation, connected, receiver, outgoing, incoming,
                   handles, taskVars, history>>

DialSucceeds ==
    /\ pc = "dialing"
    /\ socket' = [socket EXCEPT ![generation] = "open"]
    /\ connected' = TRUE
    /\ pc' = "spawn"
    /\ UNCHANGED <<browser, generation, receiver, outgoing, incoming, handles,
                   attempts, result, writer, reader, aborted, held, inbound,
                   wire, asked, history>>

\* The writer gets the receiver if the transport still has it; a writer
\* without one only closes its socket.
Spawn ==
    /\ pc = "spawn"
    /\ writer' = [writer EXCEPT ![generation] =
                     IF receiver = 0 THEN "draining" ELSE "closing"]
    /\ receiver' = IF receiver = 0 THEN generation ELSE receiver
    /\ reader' = [reader EXCEPT ![generation] = "reading"]
    /\ handles' = generation
    /\ pc' = "idle" /\ result' = "ok"
    /\ UNCHANGED <<browser, generation, connected, outgoing, incoming, attempts,
                   socket, aborted, held, inbound, wire, asked, history>>

Owner ==
    \/ Connect \/ Close \/ Dial \/ DialFails \/ DialSucceeds \/ Spawn
    \/ \E b \in Browsers : Reconnect(b)

-----------------------------------------------------------------------------
\* The writer task.

\* The task ends: its half of the socket is dropped, and with the receiver the
\* channel and all it holds.  The socket closes when both halves are gone.
EndWriter(g) ==
    /\ writer' = [writer EXCEPT ![g] = "ended"]
    /\ IF receiver = g
       THEN receiver' = Dropped /\ outgoing' = <<>>
       ELSE UNCHANGED <<receiver, outgoing>>

\* Mutant: the message is written before it is taken from the channel.
WriteThenTake(g) ==
    /\ writer[g] = "draining" /\ outgoing # <<>>
    /\ wire' = [wire EXCEPT ![g] = Append(@, Head(outgoing))]
    /\ outgoing' \in {outgoing, Tail(outgoing)}
    /\ UNCHANGED <<writer, receiver, socket>>

\* One message taken and written.  Writing to a socket the server has closed
\* loses the message, and ends the task when the error shows.  One that broke
\* off takes the message (the reader met an error), or refuses it (the server
\* sent a close frame), and the task closes it and ends.
Write(g) ==
    /\ writer[g] = "draining" /\ outgoing # <<>>
    /\ \/ /\ socket[g] \in Standing
          /\ wire' = [wire EXCEPT ![g] = Append(@, Head(outgoing))]
          /\ outgoing' = Tail(outgoing)
          /\ UNCHANGED <<writer, receiver, socket>>
       \/ /\ socket[g] = "closed"
          /\ outgoing' = Tail(outgoing)
          /\ UNCHANGED <<writer, receiver, socket, wire>>
       \/ /\ socket[g] # "open"
          /\ EndWriter(g)
          /\ socket' = [socket EXCEPT ![g] = "closed"]
          /\ UNCHANGED wire

\* The writer without a receiver closes the socket and ends.
CloseSink(g) ==
    /\ writer[g] = "closing"
    /\ socket' = [socket EXCEPT ![g] = "closed"]
    /\ EndWriter(g)
    /\ UNCHANGED wire

\* The runtime drops an aborted task where it waits.
DropWriter(g) ==
    /\ g \in aborted /\ writer[g] \in {"draining", "closing"}
    /\ EndWriter(g)
    /\ socket' = [socket EXCEPT ![g] =
                     IF reader[g] = "ended" THEN "closed" ELSE @]
    /\ UNCHANGED wire

Writer(g) ==
    /\ Write(g) \/ CloseSink(g) \/ DropWriter(g)
    /\ UNCHANGED <<browser, generation, connected, incoming, handles, ownerVars,
                   reader, aborted, held, inbound, asked, history>>

-----------------------------------------------------------------------------
\* The reader task.

EndReader(g) ==
    /\ reader' = [reader EXCEPT ![g] = "ended"]
    /\ held' = [held EXCEPT ![g] = 0]
    /\ socket' = [socket EXCEPT ![g] = IF writer[g] = "ended" THEN "closed" ELSE @]

\* Mutant: messages are forwarded whatever the generation.
NeverSuperseded(g) == FALSE

Superseded(g) == generation # g

\* A message is there: the task stops if a newer connection was dialled.  An
\* aborted task that does not have to wait gets this far too.
Read(g) ==
    /\ reader[g] = "reading" /\ inbound[g] # <<>>
    /\ inbound' = [inbound EXCEPT ![g] = Tail(@)]
    /\ IF Superseded(g)
       THEN EndReader(g)
       ELSE /\ reader' = [reader EXCEPT ![g] = "forwarding"]
            /\ held' = [held EXCEPT ![g] = Head(inbound[g])]
            /\ UNCHANGED socket
    /\ UNCHANGED <<connected, incoming, stale>>

\* Forward it; a Spider.* event (any message may be one) goes to the listeners
\* of the transport instead.
Forward(g) ==
    /\ reader[g] = "forwarding"
    /\ \/ /\ incoming' = Append(incoming, <<g, held[g]>>)
          /\ stale' = [stale EXCEPT ![g] = @ + IF generation = g THEN 0 ELSE 1]
       \/ UNCHANGED <<incoming, stale>>
    /\ reader' = [reader EXCEPT ![g] = "reading"]
    /\ held' = [held EXCEPT ![g] = 0]
    /\ UNCHANGED <<connected, inbound, socket>>

\* The end of the stream, a close frame or an error, is looked at like a message,
\* and ends the loop whether or not the socket is closed by now.
ReadEnd(g) ==
    /\ reader[g] = "reading" /\ inbound[g] = <<>> /\ socket[g] # "open"
    /\ IF Superseded(g)
       THEN EndReader(g)
       ELSE reader' = [reader EXCEPT ![g] = "leaving"] /\ UNCHANGED <<held, socket>>
    /\ UNCHANGED <<connected, incoming, inbound, stale>>

\* Mutant: the loop ends without saying so.
LeaveSilently(g) ==
    /\ reader[g] = "leaving"
    /\ EndReader(g)
    /\ UNCHANGED <<connected, incoming, inbound, stale>>

\* After the loop: connected is cleared, whoever is connected by now.
Leave(g) ==
    /\ reader[g] = "leaving"
    /\ connected' = FALSE
    /\ EndReader(g)
    /\ UNCHANGED <<incoming, inbound, stale>>

DropReader(g) ==
    /\ g \in aborted /\ reader[g] = "reading"
    /\ EndReader(g)
    /\ UNCHANGED <<connected, incoming, inbound, stale>>

Reader(g) ==
    /\ Read(g) \/ Forward(g) \/ ReadEnd(g) \/ Leave(g) \/ DropReader(g)
    /\ UNCHANGED <<browser, generation, receiver, outgoing, handles, ownerVars,
                   writer, aborted, wire, asked, accepted, sent, served>>

-----------------------------------------------------------------------------
\* The server.

Serve(g) ==
    /\ socket[g] = "open" /\ served < MaxServer
    /\ served' = served + 1
    /\ inbound' = [inbound EXCEPT ![g] = Append(@, served')]
    /\ UNCHANGED <<browser, generation, connected, receiver, outgoing, incoming,
                   handles, ownerVars, socket, writer, reader, aborted, held,
                   wire, asked, accepted, sent, stale>>

ServerCloses(g) ==
    /\ socket[g] \in Standing
    /\ socket' = [socket EXCEPT ![g] = "closed"]
    /\ UNCHANGED <<browser, generation, connected, receiver, outgoing, incoming,
                   handles, ownerVars, writer, reader, aborted, held, inbound,
                   wire, asked, history>>

\* After what waits to be read comes a close frame or an error.
BreaksOff(g) ==
    /\ socket[g] = "open"
    /\ socket' = [socket EXCEPT ![g] = "broken"]
    /\ UNCHANGED <<browser, generation, connected, receiver, outgoing, incoming,
                   handles, ownerVars, writer, reader, aborted, held, inbound,
                   wire, asked, history>>

Tasks(g) == Writer(g) \/ Reader(g)

Next ==
    \/ Send \/ Owner
    \/ \E g \in Gens : Tasks(g) \/ Serve(g) \/ ServerCloses(g) \/ BreaksOff(g)

Spec == Init /\ [][Next]_vars

\* The runtime polls every task that can make progress, a handshake ends or
\* times out, and an aborted task is dropped where it waits.
FairSpec ==
    /\ Spec
    /\ WF_vars(Dial \/ DialFails \/ DialSucceeds \/ Spawn)
    /\ \A g \in Gens : WF_vars(Writer(g)) /\ WF_vars(Reader(g))

-----------------------------------------------------------------------------
\* Type invariant: the transport's fields and the owner's call, the tasks, and
\* the messages on their way.
OwnerTypes ==
    /\ browser \in Browsers \cup {Unpinned}
    /\ generation \in 0..MaxGen /\ connected \in BOOLEAN
    /\ receiver \in 0..Dropped
    /\ handles \in 0..MaxGen /\ aborted \subseteq Gens
    /\ pc \in {"idle", "dial", "dialing", "spawn"}
    /\ attempts \in 0..MaxAttempts /\ result \in {"none", "ok", "error"}

TaskTypes ==
    /\ socket \in [Gens -> {"none", "open", "broken", "closed"}]
    /\ writer \in [Gens -> {"none", "draining", "closing", "ended"}]
    /\ reader \in [Gens -> {"none", "reading", "forwarding", "leaving", "ended"}]
    /\ asked \in [Gens -> Browsers \cup {Unpinned}]

SentTypes ==
    /\ sent \in 0..MaxSends /\ accepted \in Seq(1..MaxSends)
    /\ outgoing \in Seq(1..MaxSends) /\ wire \in [Gens -> Seq(1..MaxSends)]

ServedTypes ==
    /\ served \in 0..MaxServer /\ inbound \in [Gens -> Seq(1..MaxServer)]
    /\ held \in [Gens -> 0..MaxServer] /\ stale \in [Gens -> Nat]
    /\ incoming \in Seq(Gens \X (1..MaxServer))

TypeOK == OwnerTypes /\ TaskTypes /\ SentTypes /\ ServedTypes

\* What reaches a server is a prefix of what send() accepted, in order and
\* without repetition, and all of it goes to one server.
DeliveredInOrder ==
    \A g \in Gens : wire[g] # <<>> =>
        /\ IsPrefix(wire[g], accepted)
        /\ \A h \in Gens \ {g} : wire[h] = <<>>

\* The messages of one connection are forwarded in the order the server sent
\* them, each at most once.
ForwardedInOrder ==
    \A i, j \in 1..Len(incoming) :
        i < j /\ incoming[i][1] = incoming[j][1] => incoming[i][2] < incoming[j][2]

\* Safety: both ways, across two channels, two tasks and reconnections, no
\* message is repeated, overtaken or skipped.
MessagesInOrder == DeliveredInOrder /\ ForwardedInOrder

\* Safety: once a newer connection is being dialled, at most one message of an
\* older one still comes through: the one its reader had already looked at.
AtMostOneStale == \A g \in Gens : stale[g] <= 1

\* Safety: the socket the owner has asks for the browser the transport reports,
\* and another stays up only while close() can reach its tasks or they are
\* ending.  One kind of connection does get out of reach: its reader left on a
\* close frame or an error, connect() then replaced its handles, and its writer
\* still drains the outgoing channel, as no other will.
NoOrphanSocket ==
    pc = "idle" =>
        /\ result = "ok" /\ connected => asked[generation] = browser
        /\ \A g \in Gens : socket[g] \in Standing =>
              \/ g = handles \/ g \in aborted \/ writer[g] = "closing"
              \/ socket[g] = "broken" /\ reader[g] = "ended" /\ receiver = g

\* Liveness: again and again nothing dangles.  A connection that was closed or
\* broke off is noticed (is_connected() becomes FALSE, or the owner has moved
\* on), and one that was replaced or closed is given up on the network too,
\* whatever the two tasks of each were doing.
Unnoticed(g) == socket[g] \in {"broken", "closed"} /\ generation = g /\ connected
GivenUp(g)   == socket[g] \in Standing /\ g \in aborted

ConnectionsSettle == []<>(\A g \in Gens : ~Unnoticed(g) /\ ~GivenUp(g))

-----------------------------------------------------------------------------
\* "Take the receiver (only on first connect; subsequent connects create new
\* channels)": none is created, so after a successful reconnection nothing that
\* is sent reaches the new socket.
ReconnectionHasChannel ==
    /\ pc = "idle" /\ result = "ok" /\ connected
    /\ handles = generation /\ socket[generation] = "open"
    => receiver = generation

=============================================================================
