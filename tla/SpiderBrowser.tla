---------------------------- MODULE SpiderBrowser ----------------------------
(***************************************************************************)
(* The client object of the Rust library (rust/src/spider_browser.rs):     *)
(* what init() connects to what, and what close() takes apart.             *)
(*                                                                         *)
(* A command goes from the session through a channel to the relay task,    *)
(* which hands it to the transport; what the server sends comes from the   *)
(* transport's reader task through a second channel to the routing task,   *)
(* which hands it to the session.  A task ends when the senders of the     *)
(* channel it reads are gone, and its captures are dropped with it.        *)
(*                                                                         *)
(* Every init() builds the whole chain anew; chains are numbered.  The     *)
(* session is abstracted to the one command its owner is waiting for       *)
(* (PendingCalls models it in full), the transport to its connection and   *)
(* its reader (Transport models it in full).                               *)
(***************************************************************************)
EXTENDS Naturals, Sequences, SequencesExt

CONSTANTS Protocols,   \* of the browser asked for: "cdp", "bidi"
          MaxInits,    \* bound: calls of init()
          MaxCommands  \* bound: commands per chain, those of init() included

ASSUME BrowserAssumption ==
    /\ Protocols \subseteq {"cdp", "bidi"}
    /\ MaxInits \in Nat /\ MaxCommands \in Nat

Chains == 1..MaxInits

Standing == {"open", "broken"}  \* a connection that is not closed on the network

VARIABLES
  pc,         \* the owner: no call, in init(), or waiting for a command
  chain,      \* the chain init() built last
  protocol,   \* of the browser asked for, the same for every init()
  mine,       \* the chain self.transport, self.adapter and self.page belong to
  sender,     \* the chain msg_send_tx belongs to
  waiting,    \* the command the owner waits for, and whether its answer came
  answered,
  commands,   \* commands sent on the chain
  steps,      \* commands of init() that were answered or timed out
  \* per chain: the connection, the tasks, the channels between them
  link, reader, relay, routing, outgoing, server, incoming,
  result      \* of the owner's last call

ownerVars == <<pc, chain, mine, sender, waiting, answered, steps, result>>
chainVars == <<protocol, commands, link, reader, relay, routing, outgoing, server, incoming>>
vars == <<ownerVars, chainVars>>

Init ==
    /\ pc = "idle" /\ chain = 0 /\ mine = 0 /\ sender = 0
    /\ waiting = 0 /\ answered = FALSE /\ steps = 0 /\ result = "none"
    /\ protocol \in Protocols
    /\ commands = [c \in Chains |-> 0]
    /\ link = [c \in Chains |-> "none"] /\ reader = [c \in Chains |-> "none"]
    /\ relay = [c \in Chains |-> "none"] /\ routing = [c \in Chains |-> "none"]
    /\ outgoing = [c \in Chains |-> <<>>] /\ server = [c \in Chains |-> {}]
    /\ incoming = [c \in Chains |-> <<>>]

-----------------------------------------------------------------------------
\* Who holds what.

\* Arc<Transport>: self, the relay, the reader, and init() while it runs.
TransportHeld(c) ==
    \/ mine = c \/ relay[c] = "running" \/ reader[c] = "running"
    \/ chain = c /\ pc \in {"adapter", "init"}

\* The sender of the relay's channel: msg_send_tx, and the session, which
\* self, the routing task and init() hold.
RelayFed(c) ==
    \/ sender = c \/ mine = c \/ routing[c] = "running"
    \/ chain = c /\ pc \in {"adapter", "init"}

-----------------------------------------------------------------------------
\* init().

\* transport.connect(3), the relay, and the adapter of the browser's protocol.
InitConnects ==
    /\ pc = "idle" /\ chain < MaxInits
    /\ chain' = chain + 1
    /\ steps' = 0
    /\ \/ /\ link' = [link EXCEPT ![chain'] = "open"]
          /\ reader' = [reader EXCEPT ![chain'] = "running"]
          /\ relay' = [relay EXCEPT ![chain'] = "running"]
          /\ pc' = "adapter"
          /\ UNCHANGED result
       \/ /\ result' = "error"
          /\ UNCHANGED <<pc, link, reader, relay>>
    /\ UNCHANGED <<mine, sender, waiting, answered, protocol, commands, routing,
                   outgoing, server, incoming>>

\* What adapter.init() does after a command of it that was answered or timed
\* out, the n-th: it goes on to the next one, gives up, or is done.  Over CDP
\* it needs five answers to be attached; over BiDi it asks for a context, then
\* creates one, and failing both goes on with a placeholder.
GoesOn(n, ok) ==
    IF protocol = "cdp" THEN ok /\ n < 5 ELSE ~ok /\ n < 2
GivesUp(ok) == protocol = "cdp" /\ ~ok

Send(c) ==
    /\ commands[c] < MaxCommands
    /\ commands' = [commands EXCEPT ![c] = @ + 1]
    /\ outgoing' = [outgoing EXCEPT ![c] = Append(@, commands'[c])]
    /\ waiting' = commands'[c]
    /\ answered' = FALSE

InitAsks ==
    /\ pc = "adapter"
    /\ Send(chain)
    /\ pc' = "init"
    /\ UNCHANGED <<chain, mine, sender, steps, result, protocol, link, reader,
                   relay, routing, server, incoming>>

\* After init(), a page is published, the routing task is spawned, and self
\* gets them all: what it held of an earlier chain is dropped, not closed.
\* When adapter.init() fails, what init() held is dropped.
InitWaited ==
    /\ pc = "init"
    /\ steps' = steps + 1
    /\ waiting' = 0 /\ answered' = FALSE
    /\ IF GoesOn(steps', answered)
       THEN pc' = "adapter" /\ UNCHANGED <<mine, sender, routing, result>>
       ELSE IF GivesUp(answered)
       THEN pc' = "idle" /\ result' = "timeout" /\ UNCHANGED <<mine, sender, routing>>
       ELSE /\ mine' = chain /\ sender' = chain
            /\ routing' = [routing EXCEPT ![chain] = "running"]
            /\ pc' = "idle" /\ result' = "ok"
    /\ UNCHANGED <<chain, protocol, commands, link, reader, relay, outgoing,
                   server, incoming>>

-----------------------------------------------------------------------------
\* A command on the page, and close().

Command ==
    /\ pc = "idle" /\ mine # 0
    /\ Send(mine)
    /\ pc' = "command" /\ result' = "none"
    /\ UNCHANGED <<chain, mine, sender, steps, protocol, link, reader, relay,
                   routing, server, incoming>>

\* Mutant: a command waits for its answer however long it takes.
WaitForAnswer ==
    /\ pc = "command" /\ answered
    /\ pc' = "idle" /\ waiting' = 0 /\ answered' = FALSE
    /\ result' = "ok"
    /\ UNCHANGED <<chain, mine, sender, steps, chainVars>>

CommandReturns ==
    /\ pc = "command"
    /\ pc' = "idle" /\ waiting' = 0 /\ answered' = FALSE
    /\ result' = IF answered THEN "ok" ELSE "timeout"
    /\ UNCHANGED <<chain, mine, sender, steps, chainVars>>

\* Mutant: the references are dropped, and nothing is closed.
CloseDrops ==
    /\ pc = "idle"
    /\ mine' = 0
    /\ result' = "closed"
    /\ UNCHANGED <<pc, chain, sender, waiting, answered, steps, chainVars>>

\* page.destroy() (nobody waits: close() is exclusive), transport.close(),
\* which aborts the reader and the writer, and self lets go of all but msg_send_tx.
Close ==
    /\ pc = "idle"
    /\ mine' = 0
    /\ result' = "closed"
    /\ IF mine = 0
       THEN UNCHANGED <<link, reader>>
       ELSE /\ link' = [link EXCEPT ![mine] = "closed"]
            /\ reader' = [reader EXCEPT ![mine] = "ended"]
    /\ UNCHANGED <<pc, chain, sender, waiting, answered, steps, protocol,
                   commands, relay, routing, outgoing, server, incoming>>

Owner ==
    \/ InitConnects \/ InitAsks \/ InitWaited
    \/ Command \/ CommandReturns \/ Close

-----------------------------------------------------------------------------
\* The tasks.

\* The chain whose answer the owner waits for.
Awaited == IF pc = "command" THEN mine ELSE chain

\* Mutant: the relay ends when the transport refuses a message.
RelayUntilRefused(c) ==
    /\ relay[c] = "running"
    /\ outgoing[c] # <<>>
    /\ outgoing' = [outgoing EXCEPT ![c] = Tail(@)]
    /\ IF link[c] = "open"
       THEN /\ server' = [server EXCEPT ![c] = @ \cup {Head(outgoing[c])}]
            /\ UNCHANGED relay
       ELSE relay' = [relay EXCEPT ![c] = "ended"] /\ UNCHANGED server
    /\ UNCHANGED <<ownerVars, protocol, commands, link, reader, routing, incoming>>

\* Whatever send() of the transport says is ignored.  A connection that broke
\* off or was closed answers nothing it is still asked.
Relay(c) ==
    /\ relay[c] = "running"
    /\ \/ /\ outgoing[c] # <<>>
          /\ outgoing' = [outgoing EXCEPT ![c] = Tail(@)]
          /\ server' = [server EXCEPT ![c] =
                           IF link[c] = "open" THEN @ \cup {Head(outgoing[c])} ELSE @]
          /\ UNCHANGED relay
       \/ /\ outgoing[c] = <<>> /\ ~RelayFed(c)
          /\ relay' = [relay EXCEPT ![c] = "ended"]
          /\ UNCHANGED <<outgoing, server>>
    /\ UNCHANGED <<ownerVars, protocol, commands, link, reader, routing, incoming>>

\* Mutant: the newest message is routed, and the rest forgotten.
RouteNewest(c) ==
    /\ routing[c] = "running"
    /\ incoming[c] # <<>>
    /\ incoming' = [incoming EXCEPT ![c] = <<>>]
    /\ answered' = (answered \/ (Awaited = c /\ waiting = Last(incoming[c])))
    /\ UNCHANGED <<pc, chain, mine, sender, waiting, steps, result, protocol,
                   commands, link, reader, relay, routing, outgoing, server>>

\* A message is handed to the session: an answer reaches whoever waits for it.
Route(c) ==
    /\ routing[c] = "running"
    /\ \/ /\ incoming[c] # <<>>
          /\ incoming' = [incoming EXCEPT ![c] = Tail(@)]
          /\ answered' = (answered \/ (Awaited = c /\ waiting = Head(incoming[c])))
          /\ UNCHANGED routing
       \/ /\ incoming[c] = <<>> /\ ~TransportHeld(c)
          /\ routing' = [routing EXCEPT ![c] = "ended"]
          /\ UNCHANGED <<incoming, answered>>
    /\ UNCHANGED <<pc, chain, mine, sender, waiting, steps, result, protocol,
                   commands, link, reader, relay, outgoing, server>>

\* The stream ends, or gives a close frame or an error: the reader ends, and
\* the writer still has its half of the connection.
ReaderEnds(c) ==
    /\ reader[c] = "running" /\ link[c] # "open"
    /\ reader' = [reader EXCEPT ![c] = "ended"]
    /\ UNCHANGED <<ownerVars, protocol, commands, link, relay, routing, outgoing,
                   server, incoming>>

\* When nobody holds the transport its channel is gone, and its writer closes
\* the connection.
WriterEnds(c) ==
    /\ link[c] \in Standing /\ ~TransportHeld(c)
    /\ link' = [link EXCEPT ![c] = "closed"]
    /\ UNCHANGED <<ownerVars, protocol, commands, reader, relay, routing, outgoing,
                   server, incoming>>

-----------------------------------------------------------------------------
\* The server: it answers what it was asked, breaks off, or closes.

Answer(c) ==
    \E n \in server[c] :
        /\ link[c] = "open" /\ reader[c] = "running"
        /\ server' = [server EXCEPT ![c] = @ \ {n}]
        /\ incoming' = [incoming EXCEPT ![c] = Append(@, n)]
        /\ UNCHANGED <<ownerVars, protocol, commands, link, reader, relay, routing, outgoing>>

\* What is next to read is a close frame or an error.
BreaksOff(c) ==
    /\ link[c] = "open"
    /\ link' = [link EXCEPT ![c] = "broken"]
    /\ UNCHANGED <<ownerVars, protocol, commands, reader, relay, routing, outgoing,
                   server, incoming>>

ServerCloses(c) ==
    /\ link[c] \in Standing
    /\ link' = [link EXCEPT ![c] = "closed"]
    /\ UNCHANGED <<ownerVars, protocol, commands, reader, relay, routing, outgoing,
                   server, incoming>>

Tasks(c) == Relay(c) \/ Route(c) \/ ReaderEnds(c) \/ WriterEnds(c)

Next ==
    \/ Owner
    \/ \E c \in Chains : Tasks(c) \/ Answer(c) \/ BreaksOff(c) \/ ServerCloses(c)

Spec == Init /\ [][Next]_vars

\* A call that was made goes on, clocks included, and tasks run.  Nothing makes
\* the owner call, the server answer, break off or close.
Fairness ==
    /\ WF_vars(InitAsks) /\ WF_vars(InitWaited) /\ WF_vars(CommandReturns)
    /\ \A c \in Chains :
          /\ WF_vars(Relay(c)) /\ WF_vars(Route(c))
          /\ WF_vars(ReaderEnds(c)) /\ WF_vars(WriterEnds(c))

FairSpec == Spec /\ Fairness

-----------------------------------------------------------------------------
\* Properties.

OwnerTypes ==
    /\ pc \in {"idle", "adapter", "init", "command"} /\ chain \in 0..MaxInits
    /\ mine \in 0..MaxInits /\ sender \in 0..MaxInits
    /\ waiting \in 0..MaxCommands /\ answered \in BOOLEAN
    /\ steps \in 0..(IF chain # 0 /\ protocol = "bidi" THEN 2 ELSE 5)
    /\ result \in {"none", "ok", "error", "timeout", "closed"}

TaskTypes ==
    /\ protocol \in Protocols
    /\ link \in [Chains -> {"none", "open", "broken", "closed"}]
    /\ reader \in [Chains -> {"none", "running", "ended"}]
    /\ relay \in [Chains -> {"none", "running", "ended"}]
    /\ routing \in [Chains -> {"none", "running", "ended"}]

ChannelTypes ==
    /\ commands \in [Chains -> 0..MaxCommands]
    /\ outgoing \in [Chains -> Seq(1..MaxCommands)]
    /\ server \in [Chains -> SUBSET (1..MaxCommands)]
    /\ incoming \in [Chains -> Seq(1..MaxCommands)]

TypeOK == OwnerTypes /\ TaskTypes /\ ChannelTypes

\* The answer to a command on the page cannot be lost between the connection
\* and the session, whatever else is under way: as long as the owner waits and
\* has not been answered, the command is in one of the channels or at the
\* server, or the connection it was lost with closed or broke off.
CommandSomewhere ==
    pc = "command" /\ ~answered /\ link[mine] = "open" =>
        \/ Contains(outgoing[mine], waiting)
        \/ waiting \in server[mine]
        \/ Contains(incoming[mine], waiting)

\* A chain that is in use is whole, whatever happened to its connection: the
\* relay and the routing task run until close(), and the reader has not ended
\* unless the connection closed or broke off.
ChainWhole ==
    mine # 0 =>
        /\ relay[mine] = "running" /\ routing[mine] = "running"
        /\ reader[mine] # "running" => link[mine] # "open"

\* init() and commands return, with a server that is silent.
CallsReturn == pc # "idle" ~> pc = "idle"

\* A connection that stays up although the owner can no longer reach it was
\* left by an init() that failed, or replaced by a later one: close() itself
\* never leaves the connection it was called for.
OrphanOrigin ==
    \A c \in Chains :
        link[c] \in Standing /\ mine # c /\ ~(chain = c /\ pc \in {"adapter", "init"}) =>
            routing[c] = "none" \/ \E d \in Chains : d > c /\ routing[d] # "none"

\* "Connect to the browser fleet and initialize the protocol": a command of
\* init() that times out was not answered.
TimeoutIsUnanswered ==
    [][InitWaited /\ ~answered => ~Contains(incoming[chain], waiting)]_vars

=============================================================================
