-------------------------- MODULE ProtocolAdapter --------------------------
(***************************************************************************)
(* The adapter of the Rust client (rust/src/protocol/protocol_adapter.rs): *)
(* a session of one protocol, chosen when it is made, behind methods that  *)
(* do not depend on it.  Every method calls the session's; what is refused *)
(* over BiDi sends nothing.                                                *)
(***************************************************************************)
EXTENDS CdpSession, BidiSession

CONSTANT Protocols   \* the protocols sessions are made of

ASSUME ProtocolsAssumption == Protocols \subseteq {"cdp", "bidi"}

VARIABLE protocol

vars == <<callVars, sharedVars, cdpVars, bidiVars, protocol>>

Init == SharedInit /\ CdpInit /\ BidiInit /\ protocol \in Protocols

\* A step of the session there is: c over CDP, b over BiDi.
Dispatch(c, b) ==
    /\ \/ protocol = "cdp" /\ c /\ UNCHANGED bidiVars
       \/ protocol = "bidi" /\ b /\ UNCHANGED cdpVars
    /\ UNCHANGED protocol

Both == <<cdpVars, bidiVars, protocol>>

Operation == Dispatch(CdpBegin, BidiBegin)

Destroyed == Dispatch(Destroy, BidiDestroy)

Task(t) == Dispatch(CdpTask(t), BidiTask(t)) \/ (CallStep(t) /\ UNCHANGED Both)

\* The command timeout is longer than the outer clock, as it is by default.
Clock(t) ==
    \/ Dispatch(CdpClock(t), OuterClock(t))
    \/ at[t] # "found" /\ Timeout(t) /\ UNCHANGED Both

\* route_message(): the session's handle_message() uses the sender it took.
Route == Router /\ UNCHANGED Both

\* Nobody sees that the outgoing channel is closed but who puts a command on it.
Browser ==
    \/ /\ \/ \E id \in Ids : Answer(id)
          \/ Disconnect /\ \E t \in Tasks : step[t] = "transmit"
       /\ UNCHANGED <<sharedVars, Both>>
    \/ Dispatch(CdpEvent, FALSE)

Next ==
    \/ Operation \/ Destroyed \/ Route \/ Browser
    \/ \E t \in Tasks : Task(t) \/ Clock(t)

Spec == Init /\ [][Next]_vars

\* Tasks and the router run, and clocks go on; pages need not load, and the
\* browser need not answer.
Fairness ==
    /\ \A t \in Tasks : WF_vars(Task(t)) /\ WF_vars(Clock(t))
    /\ WF_vars(Route)

FairSpec == Spec /\ Fairness

-----------------------------------------------------------------------------
TypeOK ==
    /\ CallsTypeOK
    /\ target \in {"none", "page", "other"} /\ ready \in BOOLEAN
    /\ handlers \in [Events -> SUBSET (1..MaxOps)]
    /\ \A t \in Tasks : Navigating(t) => nth[t] <= Len(Listens(op[t]))
    /\ \A t \in Tasks : op[t] = "attach" => nth[t] <= Len(AttachCommands)
    /\ serial \in [Tasks -> 0..MaxOps] /\ begun \in 0..MaxOps
    /\ clearing \in {"no", "handlers", "session", "done"}
    /\ visits \subseteq Ids /\ fired \subseteq PageEvents \X visits
    /\ failed \subseteq 1..MaxOps /\ robbed \subseteq 1..MaxOps
    /\ context \in {"none", Placeholder, Tab}

=============================================================================
