----------------------------- MODULE RetryTiered -----------------------------
(***************************************************************************)
(* The retry engine of the Go client (go/retry_engine.go) and of the       *)
(* Python client (python/spider_browser/retry/retry_engine.py), which      *)
(* search in the same way, step by step.  The Python engine also writes a  *)
(* failure tracker that nobody reads; it is left out.                      *)
(*                                                                         *)
(* Unlike the Rust engine it has no second phase: at every stealth level   *)
(* the primary browsers are tried and then, if they were blocked or kept   *)
(* losing their sockets, the extended engines of the same level.  A lost   *)
(* socket is not reconnected but moves on to the next browser, and three   *)
(* in a row end the primary rotation for good.                             *)
(*                                                                         *)
(* The two awaits of the engine, switchBrowser() and the caller's action,  *)
(* are steps of their own.  Sleeps, events and log output are left out.    *)
(***************************************************************************)
EXTENDS Naturals, Sequences

CONSTANTS Primary,          \* primaryRotation, a sequence of browsers
          Extended,         \* extendedRotation, a sequence of browsers
          InitialBrowsers,  \* browsers the transport may be on at the start
          MaxRetries,       \* RetryEngineOptions.MaxRetries
          MaxStealth,       \* RetryEngineOptions.MaxStealthLevel
          InitialStealth,   \* stealth levels the client may start at
          ActionErrors,     \* kinds of error the caller's action may return
          SwitchErrors,     \* kinds of error switchBrowser() may return
          Executions        \* bound: how often Execute() is called

\* The kinds of error the engine tells apart: an error type, or what its text
\* says.  "Challenge" is a NavigationError that was aborted or blocked by the
\* client, "NavFailed" any other; "Lost" is the text of a dead socket;
\* "Unavailable503" is text, "BackendUnavailable" the type.
Errors == {"Auth", "RateLimit", "Blocked", "Challenge", "BackendUnavailable",
           "Unavailable503", "Lost", "NavFailed", "Other"}

NoError == "none"

Elems(s) == {s[i] : i \in DOMAIN s}

Browsers == Elems(Primary) \cup Elems(Extended) \cup InitialBrowsers

ASSUME TieredAssumption ==
    /\ Primary \in Seq(Elems(Primary)) /\ Primary # <<>>
    /\ Extended \in Seq(Elems(Extended))
    /\ MaxRetries \in Nat /\ MaxStealth \in 1..3 /\ InitialStealth \subseteq 0..3
    /\ ActionErrors \subseteq Errors /\ SwitchErrors \subseteq Errors
    /\ Executions \in Nat

VARIABLES
  currentStealth, downBackends,                    \* RetryEngine
  browser, stealthLevel, adapter, currentURL,      \* RetryContext
  \* Execute(): where it is (pc) and its local variables; queue is the rest of
  \* the rotation it is in, si the number of stealth levels it has entered
  pc, totalAttempts, si, queue, consecutiveDisconnects, primaryDisconnects,
  wasBlocked, triedAny, lastErr, outcome,
  \* tryBrowser(): its browser, allowTransient, its counter, its error
  name, allowTransient, transientRetries, error,
  \* history: executes so far, whether every failure of this one was a block,
  \* the extended engines tried at this level, whether it has switched yet
  executions, onlyBlocked, extendedTried, switched

contextVars == <<browser, stealthLevel, adapter, currentURL>>
judgeVars   == <<consecutiveDisconnects, primaryDisconnects, wasBlocked, lastErr>>
tryVars     == <<name, allowTransient, transientRetries>>
historyVars == <<executions, onlyBlocked, extendedTried, switched>>
vars        == <<currentStealth, downBackends, contextVars, pc, totalAttempts,
                 si, queue, judgeVars, triedAny, outcome, tryVars, error,
                 historyVars>>

-----------------------------------------------------------------------------
\* Classifiers and small helpers.

classifyError(e) ==
    CASE e = "Auth"                                     -> "auth"
      [] e = "RateLimit"                                -> "rate_limit"
      [] e \in {"Blocked", "Challenge"}                 -> "blocked"
      [] e \in {"BackendUnavailable", "Unavailable503"} -> "backend_down"
      [] OTHER                                          -> "transient"

isDisconnectionError(e) == e \in {"Lost", "NavFailed"}

\* Mutant: only the typed error asks for other engines.
TypedBlock(e) == e = "Blocked"

IsBlock(e) == classifyError(e) = "blocked"

Budget == MaxRetries + 1

\* Mutant: a browser is only skipped at the level that marked it down.
DownHere(b) == b \in downBackends /\ triedAny

IsDown(b) == b \in downBackends

\* Mutant: only the first stealth level gives up on the primary browsers.
OverloadedAtFirst == consecutiveDisconnects >= 3 /\ si = 1

Overloaded == consecutiveDisconnects >= 3

\* The rotation starts at the browser in use, when it is one of the primary.
OrderedPrimary(start) ==
    IF start \in Elems(Primary)
    THEN LET i == CHOOSE i \in DOMAIN Primary : Primary[i] = start
         IN  SubSeq(Primary, i, Len(Primary)) \o SubSeq(Primary, 1, i - 1)
    ELSE Primary

-----------------------------------------------------------------------------
\* Execute(): stealth levels, and the two rotations of each.

Init ==
    /\ currentStealth \in InitialStealth /\ downBackends = {}
    /\ browser \in InitialBrowsers /\ stealthLevel = currentStealth
    /\ adapter = "live" /\ currentURL \in BOOLEAN
    /\ pc = "idle" /\ totalAttempts = 0 /\ si = 0 /\ queue = <<>>
    /\ consecutiveDisconnects = 0 /\ primaryDisconnects = 0
    /\ wasBlocked = FALSE /\ triedAny = FALSE
    /\ lastErr = NoError /\ outcome = NoError
    /\ name = browser /\ allowTransient = TRUE /\ transientRetries = 0
    /\ error = NoError
    /\ executions = 0 /\ onlyBlocked = TRUE /\ extendedTried = {} /\ switched = FALSE

\* The engine, the transport and the adapter are those the last execution left;
\* goto() sets the current URL before it executes.
Execute ==
    /\ pc = "idle" /\ executions < Executions
    /\ pc' = "level"
    /\ currentURL' \in {currentURL, TRUE}
    /\ downBackends' = {} /\ totalAttempts' = 0 /\ si' = 0 /\ queue' = <<>>
    /\ consecutiveDisconnects' = 0 /\ primaryDisconnects' = 0
    /\ wasBlocked' = FALSE /\ triedAny' = FALSE
    /\ lastErr' = NoError /\ outcome' = NoError
    /\ name' = browser /\ allowTransient' = TRUE /\ transientRetries' = 0
    /\ error' = NoError
    /\ executions' = executions + 1 /\ onlyBlocked' = TRUE
    /\ extendedTried' = {} /\ switched' = FALSE
    /\ UNCHANGED <<currentStealth, browser, stealthLevel, adapter>>

Return(result) ==
    /\ pc' = "idle"
    /\ outcome' = result

\* After the last rotation of a level: the next level, unless nothing ran.
EndLevel ==
    IF triedAny THEN pc' = "level" /\ UNCHANGED outcome
    ELSE Return(IF lastErr = NoError THEN "exhausted" ELSE lastErr)

LeaveLevels ==
    /\ pc = "level"
    /\ totalAttempts >= Budget \/ (si > 0 /\ currentStealth >= MaxStealth)
    /\ Return(IF lastErr = NoError THEN "exhausted" ELSE lastErr)
    /\ UNCHANGED <<currentStealth, downBackends, contextVars, totalAttempts, si,
                   queue, judgeVars, triedAny, tryVars, error, historyVars>>

\* The first level is the current one; every later level is one above.
EnterLevel ==
    /\ pc = "level" /\ totalAttempts < Budget
    /\ si > 0 => currentStealth < MaxStealth
    /\ IF si = 0
       THEN /\ queue' = OrderedPrimary(browser)
            /\ UNCHANGED <<currentStealth, stealthLevel>>
       ELSE /\ queue' = Primary
            /\ currentStealth' = currentStealth + 1
            /\ stealthLevel' = currentStealth + 1
    /\ si' = si + 1
    /\ triedAny' = FALSE /\ extendedTried' = {}
    /\ pc' = "primary"
    /\ UNCHANGED <<downBackends, browser, adapter, currentURL, totalAttempts,
                   judgeVars, outcome, tryVars, error, executions, onlyBlocked,
                   switched>>

\* The extended engines follow after a block, or after two lost sockets.
LeavePrimary ==
    /\ pc = "primary"
    /\ \/ queue = <<>> \/ totalAttempts >= Budget
       \/ queue # <<>> /\ ~IsDown(Head(queue)) /\ Overloaded
    /\ wasBlocked' = (wasBlocked \/ primaryDisconnects >= 2)
    /\ IF wasBlocked' /\ totalAttempts < Budget
       THEN pc' = "extended" /\ queue' = Extended /\ UNCHANGED outcome
       ELSE EndLevel /\ UNCHANGED queue
    /\ UNCHANGED <<currentStealth, downBackends, contextVars, totalAttempts, si,
                   consecutiveDisconnects, primaryDisconnects, lastErr, triedAny,
                   tryVars, error, historyVars>>

LeaveExtended ==
    /\ pc = "extended"
    /\ queue = <<>> \/ totalAttempts >= Budget
    /\ EndLevel
    /\ UNCHANGED <<currentStealth, downBackends, contextVars, totalAttempts, si,
                   queue, judgeVars, triedAny, tryVars, error, historyVars>>

SkipDown ==
    /\ pc \in {"primary", "extended"} /\ queue # <<>>
    /\ totalAttempts < Budget
    /\ IsDown(Head(queue))
    /\ queue' = Tail(queue)
    /\ UNCHANGED <<currentStealth, downBackends, contextVars, pc, totalAttempts,
                   si, judgeVars, triedAny, outcome, tryVars, error, historyVars>>

\* Mutant: no switch to the browser the transport is pointed at already.
SwitchesAway(b) == totalAttempts > 0 /\ b # browser

MustSwitch(b) == totalAttempts > 0

\* tryBrowser() starts.  The very first attempt runs where the client is; any
\* other destroys the adapter and points the transport at the browser.
TryBrowser(b, transient) ==
    /\ totalAttempts < Budget /\ ~IsDown(b)
    /\ name' = b /\ queue' = Tail(queue)
    /\ allowTransient' = transient /\ transientRetries' = 0
    /\ error' = NoError
    /\ IF MustSwitch(b)
       THEN pc' = "switch" /\ adapter' = "destroyed" /\ browser' = b /\ switched' = TRUE
       ELSE pc' = "attempt" /\ UNCHANGED <<adapter, browser, switched>>
    /\ UNCHANGED <<currentStealth, downBackends, stealthLevel, currentURL,
                   totalAttempts, si, judgeVars, triedAny, outcome, executions,
                   onlyBlocked>>

TryPrimary ==
    /\ pc = "primary" /\ queue # <<>> /\ ~Overloaded
    /\ TryBrowser(Head(queue), TRUE)
    /\ UNCHANGED extendedTried

TryExtended ==
    /\ pc = "extended" /\ queue # <<>>
    /\ TryBrowser(Head(queue), FALSE)
    /\ extendedTried' = extendedTried \cup {Head(queue)}

-----------------------------------------------------------------------------
\* tryBrowser(): the switch, and the attempts.

ReturnFromTry(tried, e) ==
    /\ triedAny' = (triedAny \/ tried)
    /\ error' = e
    /\ pc' = "returned"

SwitchSucceeds ==
    /\ pc = "switch"
    /\ adapter' = "live"
    /\ pc' = "attempt"
    /\ UNCHANGED <<currentStealth, downBackends, browser, stealthLevel, currentURL,
                   totalAttempts, si, queue, judgeVars, triedAny, outcome,
                   tryVars, error, historyVars>>

\* reconnect, init or the navigation back failed; only the last of them leaves a
\* new adapter, and only it can be blocked.  An unavailable backend is marked
\* down and not an error.
SwitchFails(e) ==
    /\ pc = "switch"
    /\ \/ ~IsBlock(e) /\ UNCHANGED adapter
       \/ currentURL /\ adapter' = "live"
    /\ IF e = "BackendUnavailable"
       THEN /\ downBackends' = downBackends \cup {name}
            /\ ReturnFromTry(FALSE, NoError)
       ELSE /\ ReturnFromTry(FALSE, e)
            /\ UNCHANGED downBackends
    /\ onlyBlocked' = (onlyBlocked /\ IsBlock(e))
    /\ UNCHANGED <<currentStealth, browser, stealthLevel, currentURL,
                   totalAttempts, si, queue, judgeVars, outcome, tryVars,
                   executions, extendedTried, switched>>

\* Mutant: a repetition on the same browser is not counted.
CountFirst ==
    /\ pc = "attempt"
    /\ IF totalAttempts < Budget
       THEN /\ totalAttempts' = totalAttempts + IF error = NoError THEN 1 ELSE 0
            /\ pc' = "acting"
            /\ UNCHANGED <<triedAny, error>>
       ELSE ReturnFromTry(TRUE, error) /\ UNCHANGED totalAttempts
    /\ UNCHANGED <<currentStealth, downBackends, contextVars, si, queue,
                   judgeVars, outcome, tryVars, historyVars>>

\* The top of the loop: call the action, or stop with the error of the last.
Attempt ==
    /\ pc = "attempt"
    /\ IF totalAttempts < Budget
       THEN /\ totalAttempts' = totalAttempts + 1
            /\ pc' = "acting"
            /\ UNCHANGED <<triedAny, error>>
       ELSE ReturnFromTry(TRUE, error) /\ UNCHANGED totalAttempts
    /\ UNCHANGED <<currentStealth, downBackends, contextVars, si, queue,
                   judgeVars, outcome, tryVars, historyVars>>

ActionSucceeds ==
    /\ pc = "acting"
    /\ Return("ok")
    /\ UNCHANGED <<currentStealth, downBackends, contextVars, totalAttempts, si,
                   queue, judgeVars, triedAny, tryVars, error, historyVars>>

Repeat(e) ==
    /\ error' = e
    /\ pc' = "attempt"
    /\ UNCHANGED triedAny

MaxTransient == IF allowTransient THEN 2 ELSE 0

\* Transient errors that are not disconnections are repeated twice on a primary
\* browser, rate limits until the budget ends; everything else returns.
ActionFails(e) ==
    LET class     == classifyError(e)
        transient == /\ class = "transient" /\ ~isDisconnectionError(e)
                     /\ transientRetries < MaxTransient
    IN  /\ pc = "acting"
        /\ IF class = "rate_limit" \/ transient THEN Repeat(e)
                                                ELSE ReturnFromTry(TRUE, e)
        /\ transientRetries' = IF transient THEN transientRetries + 1
                                            ELSE transientRetries
        /\ downBackends' = IF class = "backend_down" THEN downBackends \cup {name}
                                                     ELSE downBackends
        /\ onlyBlocked' = (onlyBlocked /\ class = "blocked")
        /\ UNCHANGED <<currentStealth, contextVars, totalAttempts, si, queue,
                       judgeVars, outcome, name, allowTransient, executions,
                       extendedTried, switched>>

-----------------------------------------------------------------------------
\* Execute(): what it does with the result of tryBrowser().

\* An authentication error ends the execution, any other goes on in rotation.
Judge(rotation) ==
    IF classifyError(error) = "auth" THEN Return(error)
    ELSE pc' = rotation /\ UNCHANGED outcome

PrimaryFailed ==
    /\ pc = "returned" /\ allowTransient
    /\ IF error = NoError
       THEN pc' = "primary" /\ UNCHANGED <<judgeVars, outcome>>
       ELSE /\ Judge("primary")
            /\ lastErr' = error
            /\ wasBlocked' = IsBlock(error)
            /\ IF isDisconnectionError(error)
               THEN /\ consecutiveDisconnects' = consecutiveDisconnects + 1
                    /\ primaryDisconnects' = primaryDisconnects + 1
               ELSE consecutiveDisconnects' = 0 /\ UNCHANGED primaryDisconnects
    /\ UNCHANGED <<currentStealth, downBackends, contextVars, totalAttempts, si,
                   queue, triedAny, tryVars, error, historyVars>>

ExtendedFailed ==
    /\ pc = "returned" /\ ~allowTransient
    /\ IF error = NoError
       THEN pc' = "extended" /\ UNCHANGED <<lastErr, outcome>>
       ELSE Judge("extended") /\ lastErr' = error
    /\ UNCHANGED <<currentStealth, downBackends, contextVars, totalAttempts, si,
                   queue, consecutiveDisconnects, primaryDisconnects, wasBlocked,
                   triedAny, tryVars, error, historyVars>>

Rotating ==
    \/ LeaveLevels \/ EnterLevel \/ LeavePrimary \/ LeaveExtended \/ SkipDown
    \/ TryPrimary \/ TryExtended \/ PrimaryFailed \/ ExtendedFailed

Switching == SwitchSucceeds \/ \E e \in SwitchErrors : SwitchFails(e)

Acting == Attempt \/ ActionSucceeds \/ \E e \in ActionErrors : ActionFails(e)

Engine == Rotating \/ Switching \/ Acting

Next == Execute \/ Engine

\* Every await ends: connecting, commands and navigations carry timeouts, and
\* the caller's action is built on them.
FairSpec == Init /\ [][Next]_vars /\ WF_vars(Engine)

-----------------------------------------------------------------------------
\* Refinement: the engine keeps the contract its callers rely on, the one of
\* the Rust engine: the budget bounds the attempts, stealth climbs one level at
\* a time up to the maximum, no browser marked down is switched to.
Contract == INSTANCE RetryContract WITH
    Engines <- Browsers,
    running <- pc # "idle",
    calls   <- totalAttempts,
    stealth <- stealthLevel,
    engine  <- browser,
    avoided <- downBackends

KeepsContract == Contract!Spec

\* Action property: once three primary browsers in a row have lost their
\* sockets, no primary browser is contacted again in this execution, at
\* whatever stealth level and whatever the extended engines return.
SparesPrimary ==
    [][/\ consecutiveDisconnects >= 3 /\ pc # "idle"
       => /\ consecutiveDisconnects' >= 3
          /\ ~(pc' \in {"switch", "attempt"} /\ allowTransient')]_vars

\* Safety: when every attempt and every switch that failed was blocked and the
\* engine gives up with budget left, it has tried every extended engine of the
\* level, and it is at the top stealth level or all the browsers of this level
\* were blocked before the action, in the switch to them: that is taken for
\* "all browser backends unavailable" and ends the search at any level.
BlockedTriesEverything ==
    /\ pc = "idle" /\ executions > 0 /\ outcome # "ok"
    /\ onlyBlocked /\ totalAttempts < Budget
    => /\ Elems(Extended) \subseteq extendedTried
       /\ currentStealth >= MaxStealth \/ ~triedAny

\* Safety: an attempt runs on a live adapter of the browser it is counted for,
\* and a failure marks that browser down, whatever switches failed before it.
\* Until the execution has switched it runs where the last one left the client:
\* on a browser outside the primary rotation, although the first of the rotation
\* is blamed, and on the adapter a failed switch of that one has destroyed.
AttemptsAtItsBrowser ==
    pc = "acting" =>
        IF switched THEN browser = name /\ adapter = "live"
        ELSE /\ browser # name => browser \notin Elems(Primary)
             /\ adapter # "live" => executions > 1

\* Liveness: every execute() returns.
Termination == pc # "idle" ~> pc = "idle"

=============================================================================
