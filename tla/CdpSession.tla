----------------------------- MODULE CdpSession -----------------------------
(***************************************************************************)
(* The CDP session of the Rust client (rust/src/protocol/cdp_session.rs):  *)
(* attach_to_page(), the three kinds of navigation, and commands, by tasks *)
(* that share one session, with the events of the pages they load.         *)
(* Commands and operations are those of ProtocolSession; this module adds  *)
(* the target's session, the listeners, and what the operations do between *)
(* their commands.  Every access to the shared maps is a step.             *)
(***************************************************************************)
EXTENDS ProtocolSession, Sequences

CONSTANTS Navigators,  \* the tasks that navigate; all may send commands
          Kinds,       \* the navigations they use
          Fires        \* bound: the events pages fire

ASSUME SessionAssumption ==
    /\ Navigators \subseteq Tasks
    /\ Kinds \subseteq {"navigate", "navigate_fast", "navigate_dom"}
    /\ Fires \subseteq {"dom", "load", "stopped"}

PageEvents == {"dom", "load", "stopped"}
Events == PageEvents \cup {"attached"}

\* What each operation listens to, in the order it registers; a navigation
\* waits for the first of them.
Listens(o) ==
    CASE o = "navigate"      -> <<"load", "stopped">>
      [] o = "navigate_fast" -> <<"load">>
      [] o = "navigate_dom"  -> <<"dom">>
      [] OTHER               -> <<>>

VARIABLES
  target,    \* target_session_id: "none", "page", or another target's "other"
  handlers,  \* event_handlers: per event, the operations that listen
  heard,     \* the events an operation was notified of
  \* the pages, and history
  visits,    \* ids of Page.navigate commands
  fired,     \* <<event, visit>> pairs the router has handled
  robbed     \* operations another one took a listener from

pageVars == <<visits, fired>>
cdpVars  == <<target, handlers, heard, pageVars, robbed>>

CdpInit ==
    /\ target = "none" /\ handlers = [e \in Events |-> {}]
    /\ heard = [t \in Tasks |-> {}]
    /\ visits = {} /\ fired = {} /\ robbed = {}

-----------------------------------------------------------------------------
\* The steps operations are made of.

BeginCdp(t, o, place) ==
    /\ Begin(t, o, place)
    /\ heard' = [heard EXCEPT ![t] = {}]
    /\ UNCHANGED <<target, handlers, pageVars, robbed>>

\* on(): one listener added.
On(t, e) == handlers' = [handlers EXCEPT ![e] = @ \cup {serial[t]}]

\* event_handlers.remove(): every listener of the event goes, whose ever it is.
RemoveAll(t, e) ==
    /\ handlers' = [handlers EXCEPT ![e] = {}]
    /\ robbed' = robbed \cup (handlers[e] \ {serial[t]})

\* send_to_target() reads the session and takes an id; send() only the latter.
AskPage(t) ==
    IF target = "none"
    THEN Fail(t) /\ UNCHANGED <<callVars, visits>>
    ELSE /\ Call(t)
         /\ Goto(t, "answer")
         /\ visits' = IF Listens(op[t]) # <<>> THEN visits \cup {next_id} ELSE visits
         /\ UNCHANGED failed

-----------------------------------------------------------------------------
\* navigate(), navigate_fast(), navigate_dom(), and plain commands.

Navigate(t) == \E o \in Kinds : ready /\ t \in Navigators /\ BeginCdp(t, o, "listen")

Command(t) == ready /\ BeginCdp(t, "command", "ask")

\* What a step of an operation leaves alone besides.
Frame == <<callVars, ready, beginVars, clearing, target, pageVars>>

Listen(t) ==
    /\ at[t] = "listen"
    /\ On(t, Listens(op[t])[nth[t] + 1])
    /\ nth' = [nth EXCEPT ![t] = @ + 1]
    /\ IF nth'[t] = Len(Listens(op[t])) THEN Goto(t, "ask") ELSE UNCHANGED at
    /\ UNCHANGED <<Frame, heard, robbed, failed>>

Ask(t) ==
    /\ at[t] = "ask" /\ step[t] = "idle"
    /\ AskPage(t)
    /\ UNCHANGED <<ready, beginVars, clearing, target, handlers, heard, robbed, nth, fired>>

Awaited(t) == IF at[t] = "wait" THEN Listens(op[t])[1] ELSE "stopped"

EndWait(t) == Goto(t, "unlisten") /\ nth' = [nth EXCEPT ![t] = 0]

\* The command returned.  An answer may be an error, and one to Page.navigate
\* may carry an errorText: then the listeners are removed.  Another failure
\* leaves them.
Answered(t) ==
    /\ at[t] = "answer" /\ step[t] = "idle"
    /\ \/ Fail(t) /\ UNCHANGED nth
       \/ /\ result[t] = "answered" /\ op[t] = "command"
          /\ Finish(t)
          /\ UNCHANGED <<nth, failed>>
       \/ /\ result[t] = "answered" /\ op[t] \in Kinds
          /\ EndWait(t)
          /\ UNCHANGED failed
       \/ /\ result[t] = "answered" /\ op[t] \in Kinds
          /\ Goto(t, "wait")
          /\ UNCHANGED <<nth, failed>>
    /\ UNCHANGED <<Frame, handlers, heard, robbed>>

\* The event came, perhaps long before the wait began.
Hear(t) ==
    /\ at[t] \in {"wait", "fallback"} /\ Awaited(t) \in heard[t]
    /\ EndWait(t)
    /\ UNCHANGED <<Frame, handlers, heard, robbed, failed>>

\* Mutant: the wait for the end of loading has no limit.
FallBackForever(t) ==
    /\ at[t] = "wait" /\ Awaited(t) \notin heard[t]
    /\ IF op[t] = "navigate" THEN Goto(t, "fallback") /\ UNCHANGED nth
                             ELSE EndWait(t)
    /\ UNCHANGED <<Frame, handlers, heard, robbed, failed>>

\* It did not come in time: navigate() waits once more, for the end of loading,
\* and every navigation ends well without its event.
WaitNoMore(t) ==
    /\ at[t] \in {"wait", "fallback"} /\ Awaited(t) \notin heard[t]
    /\ IF at[t] = "wait" /\ op[t] = "navigate"
       THEN Goto(t, "fallback") /\ UNCHANGED nth
       ELSE EndWait(t)
    /\ UNCHANGED <<Frame, handlers, heard, robbed, failed>>

\* Mutant: only the first listener is removed.
UnlistenFirst(t) ==
    /\ at[t] = "unlisten"
    /\ RemoveAll(t, Listens(op[t])[1])
    /\ nth' = [nth EXCEPT ![t] = 1]
    /\ Goto(t, "idle")
    /\ UNCHANGED <<Frame, heard, failed>>

Unlisten(t) ==
    /\ at[t] = "unlisten"
    /\ RemoveAll(t, Listens(op[t])[nth[t] + 1])
    /\ nth' = [nth EXCEPT ![t] = @ + 1]
    /\ IF nth'[t] = Len(Listens(op[t])) THEN Goto(t, "idle") ELSE UNCHANGED at
    /\ UNCHANGED <<Frame, heard, failed>>

-----------------------------------------------------------------------------
\* attach_to_page(): three commands of the browser, the session's id, two
\* commands of the page.

AttachCommands == <<"discover", "create", "attach", "page", "runtime">>

Attach ==
    /\ begun = 0
    /\ BeginCdp(Attacher, "attach", "command")

\* The place is "command", and nth the number of commands that were answered.
AttachAsk ==
    /\ at[Attacher] = "command" /\ op[Attacher] = "attach" /\ step[Attacher] = "idle"
    /\ Call(Attacher)
    /\ Goto(Attacher, "reply")
    /\ UNCHANGED <<ready, beginVars, clearing, nth, failed, cdpVars>>

\* send() does not look for errors in an answer, send_to_target() does.  The
\* answer to createTarget must name a target; the answer to attachToTarget
\* names the session, or an event will.
AttachReply ==
    /\ at[Attacher] = "reply" /\ step[Attacher] = "idle"
    /\ nth' = [nth EXCEPT ![Attacher] = @ + 1]
    /\ \/ /\ result[Attacher] = "answered" =>
               AttachCommands[nth'[Attacher]] \in {"create", "page", "runtime"}
          /\ Fail(Attacher)
          /\ UNCHANGED <<target, handlers, ready>>
       \/ /\ result[Attacher] = "answered"
          /\ CASE AttachCommands[nth'[Attacher]] = "attach" ->
                     \/ /\ Goto(Attacher, "command") /\ target' = "page"
                        /\ UNCHANGED <<handlers, ready, failed>>
                     \/ /\ Goto(Attacher, "event") /\ On(Attacher, "attached")
                        /\ UNCHANGED <<target, ready, failed>>
               [] AttachCommands[nth'[Attacher]] = "runtime" ->
                     /\ Finish(Attacher) /\ ready' = TRUE
                     /\ UNCHANGED <<target, handlers, failed>>
               [] OTHER ->
                     /\ Goto(Attacher, "command")
                     /\ UNCHANGED <<target, handlers, ready, failed>>
    /\ UNCHANGED <<callVars, beginVars, clearing, heard, pageVars, robbed>>

\* The session of whichever target attached first since: heard holds its name.
AttachHears ==
    /\ at[Attacher] = "event"
    /\ \E s \in {"page", "other"} :
          s \in heard[Attacher] /\ target' = s
    /\ RemoveAll(Attacher, "attached")
    /\ Goto(Attacher, "command")
    /\ UNCHANGED <<callVars, ready, beginVars, clearing, nth, failed, heard, pageVars>>

AttachTimesOut ==
    /\ at[Attacher] = "event" /\ heard[Attacher] = {}
    /\ Fail(Attacher)
    /\ UNCHANGED <<Frame, handlers, heard, robbed, nth>>

-----------------------------------------------------------------------------
\* handle_message() of an event, and destroy().

\* Mutant: only tasks that wait by now are notified (notify_waiters, which
\* stores no permit, for notify_one).
NotifyWaiters(e, what) ==
    heard' = [t \in Tasks |-> IF at[t] \in {"wait", "fallback"} /\ serial[t] \in handlers[e]
                              THEN heard[t] \cup {what} ELSE heard[t]]

\* Every listener there is now is called.
Notify(e, what) ==
    heard' = [t \in Tasks |-> IF at[t] # "idle" /\ serial[t] \in handlers[e]
                              THEN heard[t] \cup {what} ELSE heard[t]]

HandlePageEvent(e, v) ==
    /\ hand = NoHand
    /\ Notify(e, e)
    /\ fired' = fired \cup {<<e, v>>}
    /\ UNCHANGED <<callVars, sharedVars, target, handlers, robbed, visits>>

\* The listener of attach_to_page() keeps the last session it was called with.
HandleAttached(s) ==
    /\ hand = NoHand
    /\ heard' = [t \in Tasks |-> IF at[t] # "idle" /\ serial[t] \in handlers["attached"]
                                 THEN {s} ELSE heard[t]]
    /\ UNCHANGED <<callVars, sharedVars, target, handlers, robbed, pageVars>>

\* After the senders, destroy() drops the listeners and forgets the session.
DestroyHandlers ==
    /\ clearing = "handlers"
    /\ handlers' = [e \in Events |-> {}]
    /\ clearing' = "session"
    /\ UNCHANGED <<callVars, ready, opVars, target, heard, robbed, pageVars>>

DestroySession ==
    /\ clearing = "session"
    /\ target' = "none"
    /\ clearing' = "done"
    /\ UNCHANGED <<callVars, ready, opVars, handlers, heard, robbed, pageVars>>

Destroy ==
    \/ DestroyPending /\ UNCHANGED cdpVars
    \/ DestroyHandlers \/ DestroySession

-----------------------------------------------------------------------------
\* The browser: pages load, in their own time, what they were asked for, and
\* targets attach.

Reached(v) ==   \* the command got to the browser
    /\ v \in visits \ refused
    /\ \A t \in Tasks : call[t] = v => step[t] \notin {"insert", "transmit"}

PageEvent(e, v) ==
    /\ Reached(v) /\ <<e, v>> \notin fired
    /\ HandlePageEvent(e, v)

TargetAttaches(s) ==
    /\ op[Attacher] = "attach" /\ at[Attacher] \in {"reply", "event"}
    /\ nth[Attacher] >= 2
    /\ HandleAttached(s)

CdpEvent ==
    \/ \E e \in Fires, v \in visits : PageEvent(e, v)
    \/ \E s \in {"page", "other"} : TargetAttaches(s)

CdpTask(t) ==
    \/ Listen(t) \/ Ask(t) \/ Answered(t) \/ Hear(t) \/ Unlisten(t)
    \/ t = Attacher /\ (AttachAsk \/ AttachReply \/ AttachHears)

CdpClock(t) == WaitNoMore(t) \/ (t = Attacher /\ AttachTimesOut)

CdpBegin == Attach \/ \E t \in Tasks : Navigate(t) \/ Command(t)

-----------------------------------------------------------------------------
\* Properties.

Navigating(t) == op[t] \in Kinds /\ at[t] # "idle"

\* A navigation cannot miss an event of its own page, however early it comes:
\* the listeners are there before Page.navigate is sent.
HearsOwnEvents(t) ==
    Navigating(t) /\ at[t] \in {"answer", "wait", "fallback"} =>
        \A k \in DOMAIN Listens(op[t]) :
            <<Listens(op[t])[k], call[t]>> \in fired => Listens(op[t])[k] \in heard[t]

OwnEventHeard == clearing = "no" => \A t \in Tasks : HearsOwnEvents(t)

\* The same, with the one exception the code makes: a navigation that ended
\* before on the same session has removed its listeners.
OnlyRobbedMiss == clearing = "no" => \A t \in Tasks : serial[t] \in robbed \/ HearsOwnEvents(t)

\* A listener in the map is of an operation in progress, or of one that a
\* failed command cut short: one that ended by itself has taken its listeners
\* out, even if destroy() or another navigation came in between.
NoStrayListener ==
    \A e \in Events : \A n \in handlers[e] :
        n \in failed \/ \E t \in Tasks : at[t] # "idle" /\ serial[t] = n

=============================================================================
