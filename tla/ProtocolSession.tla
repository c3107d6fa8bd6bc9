--------------------------- MODULE ProtocolSession ---------------------------
(***************************************************************************)
(* What the two protocol sessions of the Rust client have in common beyond *)
(* their commands (PendingCalls): operations of tasks that share one       *)
(* session, each a sequence of commands and waits, and destroy().          *)
(*                                                                         *)
(* Nothing but the operation that sets the session up runs until that has  *)
(* succeeded: the adapter is not shared before (ProtocolAdapter::init      *)
(* takes it exclusively), and a session is set up once.                    *)
(***************************************************************************)
EXTENDS PendingCalls

CONSTANTS Attacher,  \* the task that sets the session up
          MaxOps     \* bound: operations begun

ASSUME OpsAssumption == Attacher \in Tasks /\ MaxOps \in Nat

VARIABLES
  ready,          \* the session is set up and shared
  op, at, serial, \* the operation of a task, where it is, its number
  nth,            \* how much of the stage it is in is done
  begun,          \* operations begun
  failed,         \* history: operations that ended with a failed command
  clearing        \* how far destroy() has got

beginVars  == <<op, serial, begun>>   \* what only the beginning of one changes
opVars     == <<beginVars, at, nth, failed>>
sharedVars == <<ready, opVars, clearing>>

SharedInit ==
    /\ CallsInit /\ ready = FALSE
    /\ op = [t \in Tasks |-> "none"] /\ at = [t \in Tasks |-> "idle"]
    /\ serial = [t \in Tasks |-> 0] /\ nth = [t \in Tasks |-> 0]
    /\ begun = 0 /\ failed = {} /\ clearing = "no"

-----------------------------------------------------------------------------
Goto(t, place) == at' = [at EXCEPT ![t] = place]

Finish(t) == Goto(t, "idle")

\* A command failed: `?` leaves the operation at once.
Fail(t) ==
    /\ Finish(t)
    /\ failed' = failed \cup {serial[t]}

Begin(t, o, place) ==
    /\ at[t] = "idle" /\ begun < MaxOps
    /\ begun' = begun + 1
    /\ op' = [op EXCEPT ![t] = o] /\ serial' = [serial EXCEPT ![t] = begun']
    /\ nth' = [nth EXCEPT ![t] = 0]
    /\ Goto(t, place)
    /\ UNCHANGED <<callVars, ready, failed, clearing>>

\* destroy() is called on a session in use, or on one that was not set up, and
\* empties the map of senders first.
DestroyPending ==
    /\ clearing = "no"
    /\ ready \/ (begun = 1 /\ at[Attacher] = "idle")
    /\ ClearPending
    /\ clearing' = "handlers"
    /\ UNCHANGED <<ready, opVars>>

CallStep(t) == Advance(t) /\ UNCHANGED sharedVars
Timeout(t)  == Expire(t) /\ UNCHANGED sharedVars
Router      == UseSender /\ UNCHANGED sharedVars

-----------------------------------------------------------------------------
\* Every operation returns: with a browser that is silent, with a page that
\* never loads, and with listeners somebody else has removed.  (A bounded number
\* begins: all return if again and again none is in progress.)
OperationsReturn == []<>(\A t \in Tasks : at[t] = "idle")

=============================================================================
