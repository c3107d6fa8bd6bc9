----------------------------- MODULE PageContent -----------------------------
(***************************************************************************)
(* How a page of the Rust client (page.rs) waits for content: content(),   *)
(* content_with_network_idle() and content_with_early_return(), which read *)
(* the document again and again while it loads, shows a challenge or       *)
(* grows, and the wait_for_ functions.  One call at a time.                *)
(*                                                                         *)
(* The document changes under the call, so a read may find anything, or    *)
(* fail, which the code takes for an empty document.  Of a document its    *)
(* size class and the text the classifiers look for are kept.  A deadline  *)
(* is a flag that time sets; passes of a polling loop that find nothing    *)
(* leave no trace and are not steps.                                       *)
(***************************************************************************)
EXTENDS Naturals

CONSTANTS Pages,       \* the documents a read may find
          MinLengths,  \* size classes callers ask for
          MaxChecks    \* bound: checks of wait_for_selector()

\* Size classes: empty, under 1000 bytes, under 5000, up to 15000, up to 20000,
\* more.
Sizes == 0..5
Texts == {"plain", "challenge", "loading", "limit"}
Empty == [len |-> 0, text |-> "plain"]

ASSUME PageAssumption ==
    /\ Pages \subseteq [len : Sizes, text : Texts] /\ Empty \in Pages
    /\ MinLengths \subseteq Sizes /\ MaxChecks \in Nat

is_interstitial_content(h) ==
    \/ h.text = "challenge" /\ h.len <= 3
    \/ h.text = "loading" /\ h.len <= 2

is_rate_limit_content(h) == h.text = "limit" /\ h.len <= 4

InterstitialWaits == 7
Increments == 4

VARIABLES
  op, min, wait,  \* the call: its minimal length, and whether wait_ms > 0
  at,             \* where it is, or "idle"
  html,           \* what it would return
  n,              \* passes of the loop it is in
  over, late,     \* the deadline of the phase, and of the call, has passed
  ret,            \* how the last call ended
  \* history: the last document that was classified, the longest read since
  judged, longest

contentVars == <<op, min, wait, at, html, n, over, late, ret, judged, longest>>
callVars    == <<op, min, wait>>

ContentInit ==
    /\ op = "none" /\ min = 0 /\ wait = TRUE /\ at = "idle"
    /\ html = Empty /\ n = 0 /\ over = FALSE /\ late = FALSE /\ ret = "none"
    /\ judged = Empty /\ longest = 0

-----------------------------------------------------------------------------
\* Common to the calls.

Good(h) == h.len >= min /\ ~is_interstitial_content(h) /\ ~is_rate_limit_content(h)

Return(how) == at' = "idle" /\ ret' = how

Enter(place) ==   \* a phase with a deadline, and with a counter, of its own
    /\ at' = place /\ n' = 0 /\ over' = late
    /\ UNCHANGED ret

\* A document was read and classified.
Judge(h) == html' = h /\ judged' = h /\ longest' = h.len

Start(o) ==
    CASE o = "content"                   -> IF wait' THEN "early" ELSE "main"
      [] o = "content_with_network_idle" -> "early"
      [] o = "content_with_early_return" -> "patient"
      [] o = "wait_for_selector"         -> "selector"
      [] o = "wait_for_content"          -> "length"
      [] OTHER                           -> "ready"

ContentOps == {"content", "content_with_network_idle", "content_with_early_return"}
WaitOps    == {"wait_for_selector", "wait_for_content", "wait_for_ready",
               "wait_for_network_idle"}

\* wait_for_selector(): n counts down from ceil(timeout_ms / interval).
BeginContent(o) ==
    /\ at = "idle"
    /\ op' = o
    /\ min' \in IF o \in ContentOps \cup {"wait_for_content"} THEN MinLengths ELSE {0}
    /\ wait' \in IF o = "content" THEN BOOLEAN ELSE {TRUE}
    /\ n' \in IF o = "wait_for_selector" THEN 0..MaxChecks ELSE {0}
    /\ at' = Start(o) /\ ret' = "none"
    /\ html' = Empty /\ judged' = Empty /\ longest' = 0
    /\ over' = FALSE /\ late' = FALSE

\* After the challenges: a rate limit is an error, a short document is given
\* time to grow.
Settle(h) ==
    IF wait /\ is_rate_limit_content(h)
    THEN Return("blocked") /\ UNCHANGED <<n, over>>
    ELSE IF wait /\ h.len < min
    THEN Enter(IF op = "content" THEN "grow" ELSE "poll")
    ELSE Return("ok") /\ UNCHANGED <<n, over>>

-----------------------------------------------------------------------------
\* The phases, in the order of the code.

\* Is the document good already?
Early(h) ==
    /\ at = "early"
    /\ Judge(h)
    /\ IF Good(h) THEN Return("ok") /\ UNCHANGED <<n, over>> ELSE Enter("ready")
    /\ UNCHANGED <<callVars, late>>

\* document.readyState, until it is as wanted or the time is over.
Ready(isReady) ==
    /\ at = "ready" /\ (isReady \/ over)
    /\ IF op = "wait_for_ready"
       THEN at' = "stable" /\ UNCHANGED <<n, over, ret>>
       ELSE Enter("quiet")
    /\ UNCHANGED <<callVars, html, late, judged, longest>>

\* The script that watches the network and the DOM.  Runtime.evaluate is not
\* told to await its promise, so this ends whether or not the page is idle.
Quiet ==
    /\ at = "quiet"
    /\ IF op = "wait_for_network_idle"
       THEN Return("ok") /\ UNCHANGED <<n, over>>
       ELSE Enter("main")
    /\ UNCHANGED <<callVars, html, late, judged, longest>>

\* The document after the wait.
Main(h) ==
    /\ at = "main"
    /\ Judge(h)
    /\ IF wait /\ is_interstitial_content(h) THEN Enter("challenge") ELSE Settle(h)
    /\ UNCHANGED <<callVars, late>>

\* Mutant: a challenge that has resolved is not looked at again.
ResolvedIsOk(h) ==
    /\ at = "challenge" /\ (op = "content" \/ ~over)
    /\ Judge(h)
    /\ IF ~is_interstitial_content(h) THEN Return("ok") /\ UNCHANGED <<n, over>>
       ELSE IF n + 1 = InterstitialWaits THEN Return("blocked") /\ UNCHANGED <<n, over>>
       ELSE n' = n + 1 /\ UNCHANGED <<at, over, ret>>
    /\ UNCHANGED <<callVars, late>>

\* A challenge, read again after each wait.
Challenge(h) ==
    /\ at = "challenge" /\ (op = "content" \/ ~over)
    /\ Judge(h)
    /\ IF ~is_interstitial_content(h) THEN Settle(h)
       ELSE IF n + 1 = InterstitialWaits THEN Return("blocked") /\ UNCHANGED <<n, over>>
       ELSE n' = n + 1 /\ UNCHANGED <<at, over, ret>>
    /\ UNCHANGED <<callVars, late>>

\* Only content_with_network_idle() has a budget for them.
ChallengeOver ==
    /\ at = "challenge" /\ op # "content" /\ over
    /\ Return("blocked")
    /\ UNCHANGED <<callVars, html, n, over, late, judged, longest>>

\* Mutant: the last read replaces a longer one.
KeepLast(h) == html' = h

KeepLonger(h) == html' = IF h.len > html.len THEN h ELSE html

\* Four reads at growing intervals, then one a second; none is classified.
Grow(h) ==
    /\ at = "grow" \/ (at = "poll" /\ ~over)
    /\ KeepLonger(h)
    /\ longest' = IF h.len > longest THEN h.len ELSE longest
    /\ IF html'.len >= min THEN Return("ok") /\ UNCHANGED <<n, over>>
       ELSE IF at = "poll" THEN UNCHANGED <<at, n, over, ret>>
       ELSE IF n + 1 = Increments THEN Enter("poll")
       ELSE n' = n + 1 /\ UNCHANGED <<at, over, ret>>
    /\ UNCHANGED <<callVars, late, judged>>

\* Mutant: polling goes on until there is enough.
PollForever == FALSE

PollOver ==
    /\ at = "poll" /\ over
    /\ Return("ok")
    /\ UNCHANGED <<callVars, html, n, over, late, judged, longest>>

\* content_with_early_return(): a good document in time, or whatever is there.
Patient(h) ==
    /\ at = "patient"
    /\ Judge(h)
    /\ over \/ Good(h)
    /\ Return("ok")
    /\ UNCHANGED <<callVars, n, over, late>>

-----------------------------------------------------------------------------
\* The waits that read no document.

Selector(answer) ==
    /\ at = "selector"
    /\ IF n = 0 THEN Return("timeout") /\ UNCHANGED n
       ELSE CASE answer = "found"  -> Return("ok") /\ UNCHANGED n
              [] answer = "failed" -> Return("error") /\ UNCHANGED n
              [] OTHER             -> n' = n - 1 /\ UNCHANGED <<at, ret>>
    /\ UNCHANGED <<callVars, html, over, late, judged, longest>>

\* A length seen twice, half a second apart; html keeps the last one, at first
\* that of a read that failed.
Stable(h) ==
    /\ at = "stable"
    /\ IF over \/ h.len = html.len
       THEN Return("ok") /\ UNCHANGED html
       ELSE html' = h /\ UNCHANGED <<at, ret>>
    /\ UNCHANGED <<callVars, n, over, late, judged, longest>>

Length(h) ==
    /\ at = "length" /\ (over \/ h.len >= min)
    /\ Return("ok")
    /\ UNCHANGED <<callVars, html, n, over, late, judged, longest>>

-----------------------------------------------------------------------------
\* Time.

PhaseEnds ==
    /\ at # "idle" /\ ~over /\ over' = TRUE
    /\ UNCHANGED <<callVars, at, html, n, late, ret, judged, longest>>

CallIsLate ==
    /\ at # "idle" /\ op = "content_with_network_idle" /\ ~late
    /\ late' = TRUE /\ over' = TRUE
    /\ UNCHANGED <<callVars, at, html, n, ret, judged, longest>>

\* What the next await of the call can find.
ContentStep ==
    \/ \E h \in Pages : Early(h) \/ Main(h) \/ Challenge(h) \/ Grow(h)
                        \/ Patient(h) \/ Stable(h) \/ Length(h)
    \/ \E isReady \in BOOLEAN : Ready(isReady)
    \/ \E answer \in {"found", "absent", "failed"} : Selector(answer)
    \/ Quiet \/ ChallengeOver \/ PollOver

ContentNext ==
    \/ \E o \in ContentOps \cup WaitOps : BeginContent(o)
    \/ ContentStep \/ PhaseEnds \/ CallIsLate

-----------------------------------------------------------------------------
\* Properties.

Reads == op \in ContentOps /\ ret = "ok" /\ wait

\* Safety: what is returned as content was classified last as neither a challenge
\* nor a rate limit, whichever phase read it, or is a longer document that the
\* growth phase read later in place of a short one that was (only the deadline of
\* content_with_early_return() makes the caller take what there was).  A challenge
\* that is read again in the growth phase, after a read that failed ended the wait
\* for it, is returned: nobody classifies those reads (page.rs:295, :310).
OnlyGrowthIsUnclassified ==
    Reads =>
        /\ \/ op = "content_with_early_return" /\ over
           \/ ~is_interstitial_content(judged) /\ ~is_rate_limit_content(judged)
        /\ html # judged => judged.len < min /\ html.len > judged.len

\* Safety: less than the caller asked for is returned only when all the time
\* for it to grow is used up, and it is the longest document that was read
\* since, even if the last one was shorter or the last read failed.
ShortIsLast ==
    Reads /\ op # "content_with_early_return" =>
        /\ html.len = longest
        /\ html.len < min => over

=============================================================================
