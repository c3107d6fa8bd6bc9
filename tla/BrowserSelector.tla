--------------------------- MODULE BrowserSelector ---------------------------
(***************************************************************************)
(* The browser selector of the Rust client                                 *)
(* (rust/src/retry/browser_selector.rs) for one domain: which browser of   *)
(* the rotation to use, from the failures tracked per browser.  One task   *)
(* calls it here, so each call of the tracker is atomic; what tasks do to  *)
(* each other inside the tracker is FailureTracker's subject.              *)
(***************************************************************************)
EXTENDS Naturals, Sequences, SequencesExt

CONSTANTS Rotation,     \* BROWSER_ROTATION, a sequence of browsers
          Currents,     \* browsers next_browser() is asked from
          Threshold,    \* ROTATE_AFTER_FAILURES
          Ttl,          \* FAILURE_TTL_MS, in ticks
          MaxTime,      \* bound: the clock stops here
          MaxFailures   \* bound: failures recorded per browser

RotationBrowsers == ToSet(Rotation)
None == "none"

ASSUME SelectorAssumption ==
    /\ Rotation \in Seq(RotationBrowsers) \ {<<>>} /\ IsInjective(Rotation)
    /\ None \notin RotationBrowsers \cup Currents
    /\ Threshold \in Nat \ {0} /\ Ttl \in Nat

VARIABLES count, last,  \* the tracker's record of each browser; count 0: none
          now,
          call          \* the last question: what was asked, and the answer

selectorVars == <<count, last, now, call>>

Expired(b) == now - last[b] > Ttl

\* What failure_count() answers for a browser.
failure_count(b) == IF Expired(b) THEN 0 ELSE count[b]

Usable(b) == failure_count(b) < Threshold

\* failure_count() drops the expired records of the browsers it is asked about.
Forget(asked) ==
    count' = [b \in RotationBrowsers |-> IF b \in asked /\ Expired(b) THEN 0 ELSE count[b]]

SelectorInit ==
    /\ count = [b \in RotationBrowsers |-> 0] /\ last = [b \in RotationBrowsers |-> 0]
    /\ now = 0
    /\ call = [op |-> "none", from |-> None, picked |-> None]

Tick ==
    /\ now < MaxTime
    /\ now' = now + 1
    /\ UNCHANGED <<count, last, call>>

\* A failure refreshes the record it finds, expired or not.
RecordFailure(b) ==
    /\ count[b] < MaxFailures
    /\ count' = [count EXCEPT ![b] = @ + 1]
    /\ last' = [last EXCEPT ![b] = now]
    /\ call' = [op |-> "fail", from |-> b, picked |-> None]
    /\ UNCHANGED now

RecordSuccess(b) ==
    /\ count' = [count EXCEPT ![b] = 0]
    /\ call' = [op |-> "succeed", from |-> b, picked |-> None]
    /\ UNCHANGED <<last, now>>

\* The rotation as next_browser() walks it: from the place after current, or
\* after the first browser when current is not in it, without that place.
Index(current) ==
    IF current \in RotationBrowsers
    THEN CHOOSE i \in 1..Len(Rotation) : Rotation[i] = current
    ELSE 1

\* Mutant: the walk stops at the end of the rotation.
NoWrap(current) == SubSeq(Rotation, Index(current) + 1, Len(Rotation))

After(current) ==
    [offset \in 1..(Len(Rotation) - 1) |->
        Rotation[((Index(current) - 1 + offset) % Len(Rotation)) + 1]]

FirstUsableOn(walk) ==
    IF \E i \in 1..Len(walk) : Usable(walk[i])
    THEN CHOOSE i \in 1..Len(walk) :
            Usable(walk[i]) /\ \A j \in 1..(i - 1) : ~Usable(walk[j])
    ELSE 0

Pick(op, from, walk, otherwise) ==
    LET found == FirstUsableOn(walk)
        seen  == IF found = 0 THEN ToSet(walk) ELSE ToSet(SubSeq(walk, 1, found))
    IN  /\ Forget(seen)
        /\ call' = [op |-> op, from |-> from,
                    picked |-> IF found = 0 THEN otherwise ELSE walk[found]]
        /\ UNCHANGED <<last, now>>

NextBrowser(current)    == Pick("next", current, After(current), None)
ChooseBrowser(fallback) == Pick("choose", fallback, Rotation, fallback)

ShouldRotate(b) ==
    /\ Forget({b})
    /\ call' = [op |-> "rotate", from |-> b,
                picked |-> IF Usable(b) THEN b ELSE None]
    /\ UNCHANGED <<last, now>>

SelectorNext ==
    \/ Tick
    \/ \E b \in RotationBrowsers : RecordFailure(b) \/ RecordSuccess(b) \/ ShouldRotate(b)
    \/ \E b \in Currents : NextBrowser(b) \/ ChooseBrowser(b)

SelectorSpec == SelectorInit /\ [][SelectorNext]_selectorVars

-----------------------------------------------------------------------------
\* Type invariant: the records and the answer.
SelectorTypeOK ==
    /\ count \in [RotationBrowsers -> 0..MaxFailures]
    /\ last \in [RotationBrowsers -> 0..MaxTime] /\ now \in 0..MaxTime
    /\ call.picked \in RotationBrowsers \cup Currents \cup {None}

Asks(op) == call' # call /\ call'.op = op

\* The reference: which browsers have fewer live failures than the threshold,
\* and how far one browser is behind another in the rotation.
Healthy == {b \in RotationBrowsers : now - last[b] > Ttl \/ count[b] < Threshold}

Place(b) == CHOOSE i \in 1..Len(Rotation) : Rotation[i] = b

Distance(a, b) == (Place(b) + Len(Rotation) - Place(a)) % Len(Rotation)

\* A browser that is not in the rotation stands at its start.
Start(b) == IF b \in RotationBrowsers THEN b ELSE Rotation[1]

\* next_browser() picks the healthy browser that follows the current one most
\* closely, wrapping around the end of the rotation, and none when no other is.
NextIsNearest ==
    Asks("next") =>
        LET here   == Start(call'.from)
            others == Healthy \ {here}
        IN  IF others = {} THEN call'.picked = None
            ELSE /\ call'.picked \in others
                 /\ \A b \in others : Distance(here, call'.picked) <= Distance(here, b)

\* choose_browser() picks the first healthy one, or the fallback.
ChosenIsFirst ==
    Asks("choose") =>
        IF Healthy = {} THEN call'.picked = call'.from
        ELSE call'.picked \in Healthy /\ \A b \in Healthy : Place(call'.picked) <= Place(b)

\* should_rotate() agrees with both on what healthy is.
RotatesUnhealthy == Asks("rotate") => (call'.picked = None <=> call'.from \notin Healthy)

\* The records a question drops make no difference to the next one.
AskingIsHarmless ==
    now' = now /\ call'.op \in {"next", "choose", "rotate"} => Healthy' = Healthy

\* Action property: whatever failures have been recorded and have expired, the
\* selector's answers are the nearest healthy browser, the first, and whether the
\* current one is; and no question changes the answer to another.
AnswersAreNearest ==
    [][NextIsNearest /\ ChosenIsFirst /\ RotatesUnhealthy /\ AskingIsHarmless]_selectorVars

=============================================================================
