---------------------------- MODULE BidiSession ----------------------------
(***************************************************************************)
(* The WebDriver BiDi session of the Rust client                           *)
(* (rust/src/protocol/bidi_session.rs): get_or_create_context(), and the   *)
(* operations that ask it for the browsing context and then send one       *)
(* command to it, by tasks that share the session.  Commands and           *)
(* operations are those of ProtocolSession.  No task of the client         *)
(* registers a listener here, so events have nobody to reach.              *)
(*                                                                         *)
(* The server has one context, Tab, and names it in an answer or does not. *)
(***************************************************************************)
EXTENDS ProtocolSession

VARIABLES
  context,  \* browsing_context: "none", Placeholder or Tab
  ctx       \* the context an operation has read, until it ends

bidiVars == <<context, ctx>>

Placeholder == "__default__"
Tab == "tab"

BidiInit == context = "none" /\ ctx = [t \in Tasks |-> "none"]

-----------------------------------------------------------------------------
\* What a step of an operation leaves alone besides.
BidiFrame == <<ready, beginVars, clearing>>

\* Mutant: the browser is asked for its context every time.
FindAlways == "find"

\* A context that is known is used.
StartIn == IF context = "none" THEN "find" ELSE "send"

\* Between its beginning and its first command an operation waits for nothing.
BeginBidi(t, o) ==
    /\ Begin(t, o, StartIn)
    /\ ctx' = [ctx EXCEPT ![t] = context]
    /\ UNCHANGED context

InitContext == begun = 0 /\ BeginBidi(Attacher, "init")

\* Over BiDi the three kinds of navigation are one; evaluate(),
\* capture_screenshot() and perform_actions() differ in their command only.
\* Bound: none begins when destroy() has forgotten the context.
NavigateContext(t) == ready /\ clearing # "done" /\ BeginBidi(t, "navigate")
CommandContext(t)  == ready /\ clearing # "done" /\ BeginBidi(t, "command")

\* The operation goes on with context c; init() has nothing else to do.
GoOnWith(t, c) ==
    /\ context' = c
    /\ nth' = [nth EXCEPT ![t] = 0]
    /\ IF op[t] = "init"
       THEN Finish(t) /\ ready' = TRUE /\ UNCHANGED ctx
       ELSE Goto(t, "send") /\ ctx' = [ctx EXCEPT ![t] = c] /\ UNCHANGED ready

\* getTree, then create, and when both have failed the placeholder; nth counts
\* those that were tried.
FindContext(t) ==
    /\ at[t] = "find" /\ step[t] = "idle"
    /\ IF nth[t] < 2
       THEN Call(t) /\ Goto(t, "found") /\ UNCHANGED <<nth, ctx, ready, context>>
       ELSE GoOnWith(t, Placeholder) /\ UNCHANGED callVars
    /\ UNCHANGED <<beginVars, clearing, failed>>

\* Whatever went wrong, the next one is tried.
FoundContext(t) ==
    /\ at[t] = "found" /\ step[t] = "idle"
    /\ \/ result[t] = "answered" /\ GoOnWith(t, Tab)
       \/ /\ nth' = [nth EXCEPT ![t] = @ + 1]
          /\ Goto(t, "find")
          /\ UNCHANGED <<ctx, ready, context>>
    /\ UNCHANGED <<callVars, beginVars, clearing, failed>>

\* These two commands have a clock of five seconds around their own.
OuterClock(t) == at[t] = "found" /\ Abandon(t) /\ UNCHANGED <<sharedVars, bidiVars>>

SendInContext(t) ==
    /\ at[t] = "send" /\ step[t] = "idle"
    /\ Call(t)
    /\ Goto(t, "sent")
    /\ UNCHANGED <<BidiFrame, nth, failed, bidiVars>>

\* A navigation sent to the placeholder may learn the context from its answer.
SentInContext(t) ==
    /\ at[t] = "sent" /\ step[t] = "idle"
    /\ Finish(t)
    /\ context' \in IF result[t] = "answered" /\ op[t] = "navigate" /\ ctx[t] = Placeholder
                    THEN {context, Tab} ELSE {context}
    /\ ctx' = [ctx EXCEPT ![t] = "none"]
    /\ UNCHANGED <<callVars, BidiFrame, nth, failed>>

\* After the senders, destroy() forgets the context.
DestroyContext ==
    /\ clearing = "handlers"
    /\ context' = "none"
    /\ clearing' = "done"
    /\ UNCHANGED <<callVars, ready, opVars, ctx>>

BidiBegin == InitContext \/ \E t \in Tasks : NavigateContext(t) \/ CommandContext(t)

BidiTask(t) ==
    FindContext(t) \/ FoundContext(t) \/ SendInContext(t) \/ SentInContext(t)

BidiDestroy == (DestroyPending /\ UNCHANGED bidiVars) \/ DestroyContext

-----------------------------------------------------------------------------
\* Properties.

\* Until destroy(), a command goes to the context the session has, which may
\* only have become known while the command was on its way to the placeholder:
\* an operation that looks the context up does not change it under the others.
ContextIsCurrent ==
    clearing = "no" =>
        \A t \in Tasks :
            at[t] \in {"send", "sent"} /\ ctx[t] # context =>
                ctx[t] = Placeholder /\ context = Tab

=============================================================================
