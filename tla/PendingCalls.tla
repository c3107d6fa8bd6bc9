---------------------------- MODULE PendingCalls ----------------------------
(***************************************************************************)
(* Commands and their answers, as both protocol sessions of the Rust       *)
(* client keep them (rust/src/protocol/cdp_session.rs and                  *)
(* bidi_session.rs, whose send() and handle_message() are the same): an id *)
(* from an atomic counter, a one-shot channel whose sender waits in a      *)
(* shared map under that id, a command put on the outgoing channel, and a  *)
(* wait with a timeout.  Tasks send concurrently; one task, the router,    *)
(* hands incoming messages to handle_message(); any task may call          *)
(* destroy().                                                              *)
(*                                                                         *)
(* ProtocolSession extends this module with what is done with the answers. *)
(***************************************************************************)
EXTENDS Naturals, FiniteSets

CONSTANTS Tasks,     \* tasks that send commands
          Nobody,    \* no task
          MaxCalls   \* bound: commands sent altogether

ASSUME CallsAssumption == MaxCalls \in Nat /\ Nobody \notin Tasks

Ids == 1..MaxCalls

\* What the receiver of a one-shot channel finds: nothing yet, that its sender
\* was dropped, or the answer to some command.
Empty == 0
Closed == MaxCalls + 1

NoHand == [id |-> 0, task |-> Nobody]

VARIABLES
  next_id,     \* the counter
  pending,     \* the map: whose sender is under an id
  open,        \* somebody has the receiver of the outgoing channel
  step, call,  \* where a task is in send(), and its command's id
  channel,     \* per task, the one-shot channel of the call in progress
  result,      \* how a task's last call returned
  hand,        \* the sender the router has taken from the map and not used yet
  wire,        \* commands sent and not answered
  \* history: calls whose sender was given up by a timeout, by destroy(), by a
  \* refused command and by an outer clock; answers nobody was waiting for
  timedOut, cleared, refused, dropped, unclaimed

serverVars == <<open, wire>>
counts     == <<timedOut, cleared, refused, dropped, unclaimed>>
callVars   == <<next_id, pending, serverVars, step, call, channel, result, hand, counts>>

CallsInit ==
    /\ next_id = 1 /\ pending = [i \in Ids |-> Nobody]
    /\ open = TRUE /\ wire = {}
    /\ step = [t \in Tasks |-> "idle"] /\ call = [t \in Tasks |-> 0]
    /\ channel = [t \in Tasks |-> Empty] /\ result = [t \in Tasks |-> "none"]
    /\ hand = NoHand
    /\ timedOut = {} /\ cleared = {} /\ refused = {} /\ dropped = {}
    /\ unclaimed = {}

-----------------------------------------------------------------------------
\* send(), one task.

Call(t) ==
    /\ step[t] = "idle" /\ next_id \in Ids
    /\ next_id' = next_id + 1
    /\ call' = [call EXCEPT ![t] = next_id]
    /\ channel' = [channel EXCEPT ![t] = Empty]
    /\ result' = [result EXCEPT ![t] = "none"]
    /\ step' = [step EXCEPT ![t] = "insert"]
    /\ UNCHANGED <<pending, serverVars, hand, counts>>

\* Mutant: the command goes out before anybody waits for its answer.
TransmitThenInsert(t) ==
    \/ /\ step[t] = "insert" /\ call[t] \notin wire /\ pending[call[t]] = Nobody
       /\ wire' = wire \cup {call[t]}
       /\ UNCHANGED <<next_id, pending, open, step, call, channel, result, hand, counts>>
    \/ /\ step[t] = "insert" /\ pending[call[t]] = Nobody
       /\ pending' = [pending EXCEPT ![call[t]] = t]
       /\ step' = [step EXCEPT ![t] = "transmit"]
       /\ UNCHANGED <<next_id, serverVars, call, channel, result, hand, counts>>

\* A sender already under that id would be dropped.
Insert(t) ==
    /\ step[t] = "insert"
    /\ pending' = [pending EXCEPT ![call[t]] = t]
    /\ channel' = [u \in Tasks |->
                      IF u # t /\ u = pending[call[t]] /\ call[u] = call[t]
                      THEN Closed ELSE channel[u]]
    /\ step' = [step EXCEPT ![t] = "transmit"]
    /\ UNCHANGED <<next_id, serverVars, call, result, hand, counts>>

Return(t, how) ==
    /\ step' = [step EXCEPT ![t] = "idle"]
    /\ result' = [result EXCEPT ![t] = how]

\* A refused command leaves its sender in the map.
Transmit(t) ==
    /\ step[t] = "transmit"
    /\ \/ /\ open
          /\ wire' = wire \cup {call[t]}
          /\ step' = [step EXCEPT ![t] = "wait"]
          /\ UNCHANGED <<result, refused>>
       \/ /\ ~open
          /\ Return(t, "refused")
          /\ refused' = refused \cup {call[t]}
          /\ UNCHANGED wire
    /\ UNCHANGED <<next_id, pending, open, call, channel, hand, timedOut, cleared,
                   dropped, unclaimed>>

\* The channel has something: an answer, or its sender is gone.
Receive(t) ==
    /\ step[t] = "wait" /\ channel[t] # Empty
    /\ Return(t, IF channel[t] = Closed THEN "closed" ELSE "answered")
    /\ UNCHANGED <<next_id, pending, serverVars, call, channel, hand, counts>>

\* Mutant: the entry of a call that timed out stays.
ExpireOnly(t) ==
    /\ step[t] = "wait" /\ channel[t] = Empty
    /\ Return(t, "timeout")
    /\ timedOut' = timedOut \cup {call[t]}
    /\ UNCHANGED <<next_id, pending, serverVars, call, channel, hand, cleared,
                   refused, dropped, unclaimed>>

\* The channel is looked at before the clock: a call times out only if it is
\* still empty.
Expire(t) ==
    /\ step[t] = "wait" /\ channel[t] = Empty
    /\ pending' = [pending EXCEPT ![call[t]] = Nobody]
    /\ Return(t, "timeout")
    /\ timedOut' = timedOut \cup {call[t]}
    /\ UNCHANGED <<next_id, serverVars, call, channel, hand, cleared,
                   refused, dropped, unclaimed>>

\* A clock around send() expires first and drops it: its sender stays in the map.
Abandon(t) ==
    /\ step[t] = "wait" /\ channel[t] = Empty
    /\ Return(t, "abandoned")
    /\ dropped' = dropped \cup {call[t]}
    /\ UNCHANGED <<next_id, pending, serverVars, call, channel, hand, timedOut,
                   cleared, refused, unclaimed>>

Advance(t) == Insert(t) \/ Transmit(t) \/ Receive(t)

-----------------------------------------------------------------------------
\* The router, and destroy().

\* handle_message() of the answer to command id: the sender is taken from the
\* map, or nobody waits and the message is not handled.
TakeSender(id) ==
    /\ hand = NoHand
    /\ IF pending[id] = Nobody
       THEN unclaimed' = unclaimed \cup {id} /\ UNCHANGED <<pending, hand>>
       ELSE /\ hand' = [id |-> id, task |-> pending[id]]
            /\ pending' = [pending EXCEPT ![id] = Nobody]
            /\ UNCHANGED unclaimed
    /\ UNCHANGED <<next_id, open, step, call, channel, result, timedOut,
                   cleared, refused, dropped>>

\* Mutant: the answer goes to whatever the task is waiting for by now.
UseSenderOfTask ==
    /\ hand # NoHand
    /\ channel' = [channel EXCEPT ![hand.task] = IF step[hand.task] # "idle" THEN hand.id ELSE @]
    /\ hand' = NoHand
    /\ UNCHANGED <<next_id, pending, serverVars, step, call, result, counts>>

\* The answer goes into the channel, unless that call has returned.
UseSender ==
    /\ hand # NoHand
    /\ channel' = [t \in Tasks |->
                      IF t = hand.task /\ call[t] = hand.id /\ step[t] # "idle"
                      THEN hand.id ELSE channel[t]]
    /\ hand' = NoHand
    /\ UNCHANGED <<next_id, pending, serverVars, step, call, result, counts>>

\* Mutant: the map is emptied into a copy that keeps the senders.
ClearIntoCopy ==
    /\ pending' = [i \in Ids |-> Nobody]
    /\ cleared' = cleared \cup {i \in Ids : pending[i] # Nobody}
    /\ UNCHANGED <<next_id, serverVars, step, call, channel, result, hand, timedOut,
                   refused, dropped, unclaimed>>

\* destroy() drops every sender in the map.
ClearPending ==
    /\ pending' = [i \in Ids |-> Nobody]
    /\ channel' = [t \in Tasks |->
                      IF step[t] # "idle" /\ call[t] \in Ids /\ pending[call[t]] = t
                      THEN Closed ELSE channel[t]]
    /\ cleared' = cleared \cup {i \in Ids : pending[i] # Nobody}
    /\ UNCHANGED <<next_id, serverVars, step, call, result, hand, timedOut,
                   refused, dropped, unclaimed>>

-----------------------------------------------------------------------------
\* The browser and the connection: answers come in any order, or never.

Answer(id) ==
    /\ id \in wire
    /\ wire' = wire \ {id}
    /\ TakeSender(id)

Disconnect ==
    /\ open /\ open' = FALSE
    /\ UNCHANGED <<next_id, pending, wire, step, call, channel, result, hand, counts>>

Environment == (\E id \in Ids : Answer(id)) \/ Disconnect

CallsNext ==
    \/ \E t \in Tasks : Call(t) \/ Advance(t) \/ Expire(t) \/ Abandon(t)
    \/ UseSender \/ ClearPending
    \/ Environment

CallsSpec == CallsInit /\ [][CallsNext]_callVars

\* Tasks run, the router runs, and clocks go on.  Nothing makes a task call,
\* the browser answer, or anybody destroy the session.
CallsFairness ==
    /\ \A t \in Tasks : WF_callVars(Advance(t)) /\ WF_callVars(Expire(t))
    /\ WF_callVars(UseSender)

CallsFairSpec == CallsSpec /\ CallsFairness

-----------------------------------------------------------------------------
\* Properties.

Calls == {t \in Tasks : step[t] # "idle"}   \* calls in progress

CallsTypeOK ==
    /\ next_id \in 1..MaxCalls + 1
    /\ pending \in [Ids -> Tasks \cup {Nobody}]
    /\ open \in BOOLEAN
    /\ step \in [Tasks -> {"idle", "insert", "transmit", "wait"}]
    /\ call \in [Tasks -> 0..MaxCalls]
    /\ channel \in [Tasks -> 0..MaxCalls + 1]
    /\ result \in [Tasks -> {"none", "answered", "timeout", "closed", "refused",
                            "abandoned"}]
    /\ hand = NoHand \/ hand \in [id : Ids, task : Tasks]
    /\ wire \subseteq Ids
    /\ timedOut \subseteq Ids /\ cleared \subseteq Ids /\ refused \subseteq Ids
    /\ dropped \subseteq Ids /\ unclaimed \subseteq Ids

\* What a call is given is the answer to its own command, however calls,
\* answers, timeouts and destroy() interleave: the answer with its id, which no
\* other call in progress has.
OwnAnswer ==
    /\ \A t \in Tasks : channel[t] \in {Empty, Closed, call[t]}
    /\ \A t, u \in Calls : call[t] = call[u] => t = u

\* handle_message() finds nobody waiting only for a call that gave up by itself
\* or was given up by destroy(): an answer never comes before its sender is in
\* the map.
OnlyLateUnclaimed == unclaimed \subseteq timedOut \cup cleared

\* The map holds senders of calls in progress, of commands the outgoing channel
\* refused, which nothing takes out again but destroy(), and of calls an outer
\* clock dropped, which their late answer takes out too.
NoOtherLeak ==
    \A i \in Ids : pending[i] # Nobody =>
        i \in refused \cup dropped \/ \E t \in Calls : pending[i] = t /\ call[t] = i

\* A call nothing has happened to is in the map or in the router's hand: nobody
\* waits for a channel that has no sender left.
SomebodyAnswers ==
    \A t \in Tasks :
        step[t] \in {"transmit", "wait"} /\ channel[t] = Empty =>
            pending[call[t]] = t \/ hand = [id |-> call[t], task |-> t]

\* The inductive invariant: how far a call's id has got.
FreshIds ==   \* ids not handed out yet are nowhere
    /\ \A t \in Tasks : call[t] < next_id
    /\ \A t, u \in Tasks : call[t] = call[u] /\ call[t] # 0 => t = u
    /\ \A t \in Calls : call[t] # 0
    /\ wire \cup refused \cup dropped \subseteq 1..next_id - 1
    /\ \A i \in Ids : pending[i] # Nobody => i < next_id

InsertStep ==   \* between the counter and the map nobody knows the id
    \A t \in Tasks : step[t] = "insert" =>
        /\ pending[call[t]] = Nobody /\ channel[t] = Empty
        /\ call[t] \notin wire /\ hand.id # call[t]

TransmitStep ==   \* between the map and the channel only destroy() can interfere
    \A t \in Tasks : step[t] = "transmit" =>
        /\ call[t] \notin wire /\ hand.id # call[t]
        /\ pending[call[t]] = t \/ call[t] \in cleared

MapOnce ==   \* a sender in the map is of a call that has heard nothing yet
    \A i \in Ids : pending[i] # Nobody =>
        \/ i \in refused \cup dropped
        \/ /\ pending[i] \in Calls /\ call[pending[i]] = i
           /\ channel[pending[i]] = Empty /\ step[pending[i]] # "insert"

RefusedReturned == \A t \in Calls : call[t] \notin refused \cup dropped

HandOnce ==   \* a sender in the router's hand is no longer in the map
    hand # NoHand =>
        pending[hand.id] = Nobody /\ hand.id \notin wire /\ hand.id < next_id

WireWaits == \A i \in wire : pending[i] # Nobody \/ i \in timedOut \cup cleared

CallsIInv ==
    /\ CallsTypeOK /\ FreshIds /\ InsertStep /\ TransmitStep /\ MapOnce
    /\ RefusedReturned /\ HandOnce /\ WireWaits /\ OwnAnswer /\ OnlyLateUnclaimed /\ SomebodyAnswers

=============================================================================
