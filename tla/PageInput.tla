------------------------------ MODULE PageInput ------------------------------
(***************************************************************************)
(* What a user does on a page of the Rust client: the clicks, drags, keys  *)
(* and texts of SpiderPage (page.rs), which the agent's execute_action()   *)
(* (ai/agent.rs) repeats, down to the commands ProtocolAdapter sends for   *)
(* them.  Over CDP each mouse or key event is a command of its own; over   *)
(* BiDi the events of one gesture travel in one performActions.            *)
(*                                                                         *)
(* One mouse button and one key are followed; a click with another button  *)
(* or another key is, for them, a command that presses nothing.  An        *)
(* operation is the list of commands it has left, and a command is what it *)
(* presses and what it releases.  A command that fails may have done all   *)
(* of that, none of it, or a part: its answer was late or lost, or the     *)
(* browser gave up in the midst of a performActions.                       *)
(***************************************************************************)
EXTENDS Naturals, Sequences, SequencesExt

CONSTANTS Protocols,  \* protocols the session may speak
          MaxPoints   \* bound: elements click_all() finds

ASSUME InputAssumption == Protocols \subseteq {"cdp", "bidi"} /\ MaxPoints \in Nat

VARIABLES
  protocol,  \* of the session
  doing,     \* the operation in progress, or "none"
  script,    \* the commands it has left
  held,      \* what the browser thinks is pressed: "button", "key"
  done,      \* how the last operation ended
  \* history: what is pressed since an operation broke off that had still to
  \* press or release it; whether the key is pressed since key_down() said so
  stuck, downed

inputVars == <<protocol, doing, script, held, done, stuck, downed>>

InputInit ==
    /\ protocol \in Protocols
    /\ doing = "none" /\ script = <<>> /\ held = {} /\ done = "none"
    /\ stuck = {} /\ downed = FALSE

-----------------------------------------------------------------------------
\* The commands of each operation.

Command(down, up) == [down |-> down, up |-> up]

\* An evaluation, a move of the mouse, a navigation.
Still   == Command({}, {})
Press   == Command({"button"}, {})
Release == Command({}, {"button"})
KeyDown == Command({"key"}, {})
KeyUp   == Command({}, {"key"})

Pressed(commands)  == UNION {commands[i].down : i \in 1..Len(commands)}
Released(commands) == UNION {commands[i].up : i \in 1..Len(commands)}

\* A gesture is one command over BiDi.
Gesture(commands) ==
    IF protocol = "cdp" THEN commands
    ELSE <<Command(Pressed(commands), Released(commands))>>

click_point        == Gesture(<<Still, Press, Release>>)
double_click_point == Gesture(<<Still, Press, Release, Press, Release>>)

\* Mutant: the button is not released where the drag ends.
DragAndHold == Gesture(<<Still, Press, Still>>)

drag_point == Gesture(<<Still, Press, Still, Release>>)

press_key == Gesture(<<KeyDown, KeyUp>>)

\* Over BiDi a text is typed key by key, this one among them, in one command.
insert_text == IF protocol = "cdp" THEN <<Still>> ELSE press_key

Focusing == <<Still>> \o click_point

\* A click that holds is a click; selecting, focusing, scrolling, going back and
\* the like are one evaluation, and one that is repeated (waiting for an
\* element, infinite scrolling) is one.
Script(o) ==
    CASE o = "click"      -> Focusing
      [] o = "click_at"   -> click_point
      [] o = "dblclick"   -> <<Still>> \o double_click_point
      [] o = "drag"       -> <<Still, Still>> \o drag_point
      [] o = "wait_and_click" -> <<Still>> \o Focusing
      [] o = "fill"       -> (<<Still>> \o Focusing) \o (insert_text \o <<Still>>)
      [] o = "press"      -> press_key
      [] o = "key_down"   -> <<KeyDown>>
      [] o = "key_up"     -> <<KeyUp>>
      [] o = "type"       -> insert_text
      [] o = "hover"      -> <<Still, Still>>
      [] o = "pause"      -> <<>>
      [] OTHER            -> <<Still>>

InputOps == {"click", "click_at", "dblclick", "drag", "click_all", "wait_and_click",
             "hover", "fill", "press", "key_down", "key_up", "type", "pause", "evaluate",
             "navigate"}

BeginInput(o) ==
    /\ doing = "none"
    /\ script' = Script(o)
    /\ IF script' = <<>> THEN doing' = "none" /\ done' = "ok"
                        ELSE doing' = o /\ done' = "none"
    /\ UNCHANGED <<protocol, held, stuck, downed>>

-----------------------------------------------------------------------------
\* One command.

EndInput(how) == doing' = "none" /\ script' = <<>> /\ done' = how

\* click_all() goes on with what its evaluation found, one click after the other.
Clicks(k) == [i \in 1..(k * Len(click_point)) |->
                 click_point[1 + ((i - 1) % Len(click_point))]]

Rest ==
    IF doing = "click_all" /\ script = <<Still>> THEN {Clicks(k) : k \in 0..MaxPoints}
    ELSE {Tail(script)}

Succeed ==
    /\ script # <<>>
    /\ LET c == Head(script)
       IN  /\ held' = (held \cup c.down) \ c.up
           /\ stuck' = stuck \ c.up
           /\ downed' = ((downed \/ doing = "key_down") /\ "key" \notin c.up)
    /\ \E rest \in Rest :
          IF rest = <<>> THEN EndInput("ok") ELSE script' = rest /\ UNCHANGED <<doing, done>>
    /\ UNCHANGED protocol

\* fill() goes on without its click when the element is not found or the click
\* fails, and so does not do the commands from this one on that are left of it.
Optional == doing = "fill" /\ Len(script) > 2 /\ Len(script) < Len(Focusing) + 3

Abandoned == IF Optional THEN SubSeq(script, 1, Len(script) - 2) ELSE script

\* A command fails, or get_element_center() finds no element: the operation
\* ends there and nothing is taken back.
FailInput ==
    /\ script # <<>>
    /\ \E down \in SUBSET Head(script).down, up \in SUBSET Head(script).up :
          held' = (held \ up) \cup down
    /\ IF Optional
       THEN script' = SubSeq(script, Len(script) - 1, Len(script)) /\ UNCHANGED <<doing, done>>
       ELSE EndInput("error")
    /\ stuck' = (stuck \cup Pressed(Abandoned) \cup Released(Abandoned)) \cap held'
    /\ downed' = (downed /\ "key" \in held')
    /\ UNCHANGED protocol

InputStep == Succeed \/ FailInput

-----------------------------------------------------------------------------
\* Properties.

\* Safety: the button is down only while the operation in progress has still to
\* release it, or since an operation broke off before it had; the key is, only
\* then or since key_down().  What one operation left pressed the next that
\* completes with the same button or key releases, over either protocol.
NothingStaysPressed ==
    \A c \in held :
        c \in Released(script) \/ c \in stuck \/ (c = "key" /\ downed)

=============================================================================
