----------------------------- MODULE RetryEngine -----------------------------
(***************************************************************************)
(* The retry engine of the Rust client (rust/src/retry/retry_engine.rs):   *)
(* execute() runs a caller's action until it succeeds, an authentication   *)
(* error ends it, or the attempt budget and the engines are used up.       *)
(*                                                                         *)
(* Phase 1 walks the stealth levels and, at each, the primary browsers;    *)
(* phase 2 walks the extended engines.  A browser is tried by              *)
(* try_browser(), which first switches to it (destroy the adapter,         *)
(* reconnect the transport, initialise a new adapter, navigate back) and   *)
(* then runs the action, with its own retries.                             *)
(*                                                                         *)
(* Every await of the code is a step of its own: the three awaits of       *)
(* switch_browser and the action itself.  Sleeps change nothing and are    *)
(* left out.  An error is one of the kinds the engine tells apart.         *)
(***************************************************************************)
EXTENDS Naturals, Sequences

CONSTANTS Primary,          \* PRIMARY_ROTATION, a sequence of browsers
          Extended,         \* EXTENDED_ROTATION, a sequence of browsers
          InitialBrowsers,  \* browsers the transport may be on at the start
          MaxRetries,       \* RetryOptions.max_retries
          MaxStealth,       \* RetryOptions.max_stealth_level
          InitialStealth,   \* stealth levels the client may start at
          ActionErrors,     \* kinds of error the caller's action may return
          SwitchErrors,     \* kinds of error switch_browser may return
          Executions        \* bound: how often execute() is called

\* The kinds of SpiderError the engine tells apart.  "Unavailable503" is a
\* Connection or Protocol error that says so, "Denied401" a Connection error
\* that does; "Lost" is a Connection error of a dead socket.  "Challenge" is a
\* Navigation error with a blocking keyword, "NavFailed" one without.
Errors == {"Auth", "Denied401", "RateLimit", "Blocked", "Challenge",
           "BackendUnavailable", "Unavailable503", "Timeout", "Lost",
           "NavFailed", "Other"}

NoError == "none"

Elems(s) == {s[i] : i \in 1..Len(s)}

Browsers == Elems(Primary) \cup Elems(Extended) \cup InitialBrowsers

Classes == {"auth", "rate_limit", "blocked", "backend_down", "transient"}

ASSUME RotationAssumption ==
    /\ Primary \in Seq(Elems(Primary)) /\ Primary # <<>>
    /\ Extended \in Seq(Elems(Extended))

ASSUME OptionsAssumption ==
    /\ MaxRetries \in Nat
    /\ MaxStealth \in 1..3
    /\ InitialStealth \subseteq 0..3
    /\ ActionErrors \subseteq Errors
    /\ SwitchErrors \subseteq Errors
    /\ Executions \in Nat
    /\ InitialBrowsers # {}

VARIABLES
  \* RetryEngine, kept from one execute to the next
  current_stealth_level, timeout_count, down_backends,
  failures,            \* the tracker: class of a browser's last failure here
  \* RetryContext: the transport, the adapter, whether a URL is current
  browser, stealth_level, adapter, current_url,
  \* execute(): where it is and its local variables
  pc, total_attempts, start_level, si, initial_browser, queue,
  consecutive_disconnects, was_blocked, had_timeout, phase1_timeouts,
  tried_any, last_error, outcome,
  \* try_browser() and switch_browser(): locals, the result, who called switch
  name, allow_transient_retries, transient_retries, disconnect_retries,
  tried_action, error, return_to,
  \* history: executes so far, the attempts made before this try, the browser
  \* the action last ran on, whether an authentication error was met or
  \* dropped, whether all failures were blocks, the extended engines tried
  executions, try_start, ran_on, auth_seen, only_blocked, extended_tried

engineVars  == <<current_stealth_level, timeout_count, down_backends, failures>>
contextVars == <<browser, stealth_level, adapter, current_url>>
phaseVars   == <<start_level, si, initial_browser>>
judgeVars   == <<consecutive_disconnects, was_blocked, had_timeout,
                 phase1_timeouts, last_error>>
tryVars     == <<name, allow_transient_retries, transient_retries,
                 disconnect_retries>>
resultVars  == <<tried_action, error>>
historyVars == <<executions, try_start, ran_on, auth_seen, only_blocked,
                 extended_tried>>
vars == <<engineVars, contextVars, phaseVars, judgeVars, tryVars, resultVars,
          historyVars, pc, total_attempts, queue, tried_any, outcome, return_to>>

-----------------------------------------------------------------------------
\* The classifiers and the small helpers.

classify_error(e) ==
    CASE e \in {"Auth", "Denied401"}                     -> "auth"
      [] e = "RateLimit"                                 -> "rate_limit"
      [] e \in {"Blocked", "Challenge"}                  -> "blocked"
      [] e \in {"BackendUnavailable", "Unavailable503"}  -> "backend_down"
      [] OTHER                                           -> "transient"

\* A Navigation error counts as a disconnection unless its text says otherwise.
is_disconnection_error(e) == e \in {"Lost", "NavFailed", "Challenge"}

Budget == MaxRetries + 1

\* stealth_levels is start_level, start_level + 1, ..., LastLevel.
\* Mutant: the loop stops below the maximum instead of at it.
LastLevelExclusive == IF start_level >= MaxStealth THEN start_level
                      ELSE MaxStealth - 1

LastLevel == IF start_level > MaxStealth THEN start_level ELSE MaxStealth
Level     == start_level + si

OrderedPrimary(start) ==
    IF \E i \in 1..Len(Primary) : Primary[i] = start
    THEN LET i == CHOOSE i \in 1..Len(Primary) : Primary[i] = start
         IN  SubSeq(Primary, i, Len(Primary)) \o SubSeq(Primary, 1, i - 1)
    ELSE Primary

\* The first browser of a rotation that is neither current nor down, if any.
FirstUsable(rotation, current) ==
    {rotation[i] : i \in {i \in 1..Len(rotation) :
        /\ rotation[i] \notin down_backends \cup {current}
        /\ \A j \in 1..(i - 1) : rotation[j] \in down_backends \cup {current}}}

\* The one alternate engine: the current browser itself when there is no other.
pick_alternate_engine(current) ==
    IF FirstUsable(Extended, current) # {} THEN FirstUsable(Extended, current)
    ELSE IF FirstUsable(Primary, current) # {} THEN FirstUsable(Primary, current)
    ELSE {current}

\* Mutant: a browser is only skipped at the level that marked it down.
DownHere(b) == b \in down_backends /\ tried_any

IsDown(b) == b \in down_backends

record_failure(b, class) ==
    failures' = IF current_url THEN [failures EXCEPT ![b] = class] ELSE failures

record_success(b) ==
    failures' = IF current_url THEN [failures EXCEPT ![b] = "none"] ELSE failures

-----------------------------------------------------------------------------
\* execute(): start, stealth levels, primary browsers, extended browsers.

Init ==
    /\ current_stealth_level \in InitialStealth
    /\ timeout_count = 0
    /\ down_backends = {}
    /\ failures = [b \in Browsers |-> "none"]
    /\ browser \in InitialBrowsers
    /\ stealth_level = current_stealth_level
    /\ adapter = "live"
    /\ current_url \in BOOLEAN
    /\ pc = "idle" /\ total_attempts = 0 /\ queue = <<>> /\ tried_any = FALSE
    /\ start_level = current_stealth_level /\ si = 0 /\ initial_browser = browser
    /\ consecutive_disconnects = 0 /\ phase1_timeouts = 0
    /\ was_blocked = FALSE /\ had_timeout = FALSE
    /\ last_error = NoError /\ outcome = NoError
    /\ name = browser /\ allow_transient_retries = TRUE
    /\ transient_retries = 0 /\ disconnect_retries = 0
    /\ tried_action = FALSE /\ error = NoError /\ return_to = "rotate"
    /\ executions = 0 /\ try_start = 0 /\ ran_on = browser
    /\ auth_seen = "no" /\ only_blocked = TRUE /\ extended_tried = {}

Execute ==
    /\ pc = "idle" /\ executions < Executions
    /\ pc' = "level"
    /\ down_backends' = {}
    /\ total_attempts' = 0 /\ last_error' = NoError /\ outcome' = NoError
    /\ start_level' = current_stealth_level /\ si' = 0
    /\ initial_browser' = browser
    /\ consecutive_disconnects' = 0 /\ phase1_timeouts' = 0
    /\ was_blocked' = FALSE /\ had_timeout' = FALSE
    /\ executions' = executions + 1
    /\ auth_seen' = "no" /\ only_blocked' = TRUE /\ extended_tried' = {}
    /\ UNCHANGED <<current_stealth_level, timeout_count, failures, contextVars,
                   queue, tried_any, tryVars, resultVars, return_to, try_start,
                   ran_on>>

\* execute() returns: Ok, an error, or the error of having nothing left to try.
Return(result) ==
    /\ pc' = "idle"
    /\ outcome' = result

Exhausted == IF last_error = NoError THEN "exhausted" ELSE last_error

WantsPhase2 == was_blocked \/ had_timeout' \/ total_attempts > 0

\* What follows the loop over the stealth levels: phase 2, or giving up.
EndPhase1 ==
    /\ IF WantsPhase2 /\ total_attempts < Budget /\ Extended # <<>>
       THEN pc' = "extended" /\ queue' = Extended /\ UNCHANGED outcome
       ELSE Return(Exhausted) /\ UNCHANGED queue

LeaveLevels ==
    /\ pc = "level"
    /\ \/ Level > LastLevel
       \/ total_attempts >= Budget
       \/ phase1_timeouts >= 1
    /\ had_timeout' = (had_timeout \/ (/\ Level <= LastLevel
                                       /\ total_attempts < Budget))
    /\ EndPhase1
    /\ UNCHANGED <<engineVars, contextVars, phaseVars, tryVars, resultVars,
                   historyVars, total_attempts, tried_any, return_to,
                   consecutive_disconnects, was_blocked, phase1_timeouts,
                   last_error>>

set_stealth_level(level) == stealth_level' = IF level > 3 THEN 3 ELSE level

EnterLevel ==
    /\ pc = "level" /\ Level <= LastLevel
    /\ total_attempts < Budget /\ phase1_timeouts < 1
    /\ IF si = 0
       THEN UNCHANGED <<current_stealth_level, stealth_level, failures>>
       ELSE /\ current_stealth_level' = Level
            /\ set_stealth_level(Level)
            /\ failures' = IF current_url
                           THEN [b \in Browsers |-> IF failures[b] = "blocked"
                                                    THEN "none" ELSE failures[b]]
                           ELSE failures
    /\ queue' = IF si = 0 THEN OrderedPrimary(initial_browser) ELSE Primary
    /\ tried_any' = FALSE
    /\ pc' = "primary"
    /\ UNCHANGED <<timeout_count, down_backends, browser, adapter, current_url,
                   phaseVars, judgeVars, tryVars, resultVars, historyVars,
                   total_attempts, outcome, return_to>>

\* The primary loop ends: the rotation is done, the budget is spent, or too
\* many disconnections in a row.  A level that ran nothing ends phase 1.
LeavePrimary ==
    /\ pc = "primary"
    /\ \/ queue = <<>>
       \/ total_attempts >= Budget
       \/ /\ queue # <<>> /\ ~IsDown(Head(queue))
          /\ consecutive_disconnects >= 6
    /\ UNCHANGED had_timeout
    /\ IF tried_any
       THEN pc' = "level" /\ si' = si + 1 /\ UNCHANGED <<queue, outcome>>
       ELSE EndPhase1 /\ UNCHANGED si
    /\ UNCHANGED <<engineVars, contextVars, start_level, initial_browser,
                   consecutive_disconnects, was_blocked, phase1_timeouts,
                   last_error, tryVars, resultVars, historyVars,
                   total_attempts, tried_any, return_to>>

\* Mutant: the loop looks at the same browser again.
SkipForever ==
    /\ pc \in {"primary", "extended"} /\ queue # <<>>
    /\ total_attempts < Budget
    /\ IsDown(Head(queue))
    /\ UNCHANGED vars

SkipDown ==
    /\ pc \in {"primary", "extended"} /\ queue # <<>>
    /\ total_attempts < Budget
    /\ IsDown(Head(queue))
    /\ queue' = Tail(queue)
    /\ UNCHANGED <<engineVars, contextVars, phaseVars, judgeVars, tryVars,
                   resultVars, historyVars, pc, total_attempts, tried_any,
                   outcome, return_to>>

LeaveExtended ==
    /\ pc = "extended"
    /\ queue = <<>> \/ total_attempts >= Budget
    /\ Return(Exhausted)
    /\ UNCHANGED <<engineVars, contextVars, phaseVars, judgeVars, tryVars,
                   resultVars, historyVars, total_attempts, queue, tried_any,
                   return_to>>

-----------------------------------------------------------------------------
\* switch_browser(): destroy, reconnect, initialise, navigate back.

\* Up to the await of the connection; why says which caller waits for it.
BeginSwitch(b, why) ==
    /\ adapter' = "destroyed"
    /\ browser' = b
    /\ return_to' = why
    /\ pc' = "connect"
    /\ UNCHANGED <<stealth_level, current_url>>

\* try_browser() starts; the very first attempt runs where the client is.
TryBrowser(retries) ==
    /\ queue # <<>> /\ total_attempts < Budget
    /\ ~IsDown(Head(queue))
    /\ name' = Head(queue) /\ queue' = Tail(queue)
    /\ allow_transient_retries' = retries
    /\ transient_retries' = 0 /\ disconnect_retries' = 0
    /\ try_start' = total_attempts
    /\ IF total_attempts > 0
       THEN BeginSwitch(Head(queue), "rotate")
       ELSE pc' = "attempt" /\ UNCHANGED <<contextVars, return_to>>
    /\ UNCHANGED <<engineVars, phaseVars, judgeVars, resultVars, total_attempts,
                   tried_any, outcome, executions, ran_on, auth_seen,
                   only_blocked>>

TryPrimary ==
    /\ pc = "primary" /\ consecutive_disconnects < 6
    /\ TryBrowser(TRUE)
    /\ UNCHANGED extended_tried

TryExtended ==
    /\ pc = "extended"
    /\ TryBrowser(FALSE)
    /\ extended_tried' = extended_tried \cup {Head(queue)}

SwitchConnected ==
    /\ pc = "connect"
    /\ pc' = "init"
    /\ UNCHANGED <<engineVars, contextVars, phaseVars, judgeVars, tryVars,
                   resultVars, historyVars, total_attempts, queue, tried_any,
                   outcome, return_to>>

SwitchInitialized ==
    /\ pc = "init"
    /\ adapter' = "live"
    /\ pc' = IF current_url THEN "navigate" ELSE "attempt"
    /\ UNCHANGED <<engineVars, browser, stealth_level, current_url, phaseVars,
                   judgeVars, tryVars, resultVars, historyVars, total_attempts,
                   queue, tried_any, outcome, return_to>>

SwitchNavigated ==
    /\ pc = "navigate"
    /\ pc' = "attempt"
    /\ UNCHANGED <<engineVars, contextVars, phaseVars, judgeVars, tryVars,
                   resultVars, historyVars, total_attempts, queue, tried_any,
                   outcome, return_to>>

-----------------------------------------------------------------------------
\* try_browser(): the attempts on one browser.

\* try_browser() returns without success.
ReturnFromTry(tried, e) ==
    /\ tried_action' = tried
    /\ error' = e
    /\ pc' = "returned"

\* Mutant: a failed reconnection is ignored and the action simply repeated.
IgnoreSwitchFailure(e) ==
    /\ pc \in {"connect", "init", "navigate"}
    /\ IF return_to = "rotate"
       THEN /\ ReturnFromTry(FALSE, e)
            /\ UNCHANGED <<down_backends, failures>>
       ELSE /\ pc' = "attempt"
            /\ UNCHANGED <<down_backends, failures, resultVars>>
    /\ UNCHANGED <<current_stealth_level, timeout_count, contextVars, phaseVars,
                   judgeVars, tryVars, historyVars, total_attempts, queue,
                   tried_any, outcome, return_to>>

\* Failing to rotate skips the browser; failing to recover from a lost socket
\* ends the attempts on it with the error that was being recovered from.
SwitchFails(e) ==
    /\ pc \in {"connect", "init", "navigate"}
    /\ IF return_to = "rotate"
       THEN /\ down_backends' = IF e = "BackendUnavailable"
                                THEN down_backends \cup {name}
                                ELSE down_backends
            /\ ReturnFromTry(FALSE, e)
            /\ UNCHANGED failures
       ELSE /\ record_failure(name, classify_error(error))
            /\ ReturnFromTry(TRUE, error)
            /\ UNCHANGED down_backends
    /\ auth_seen' = IF classify_error(e) # "auth" THEN auth_seen
                    ELSE IF return_to = "rotate" THEN "seen" ELSE "dropped"
    /\ only_blocked' = FALSE
    /\ UNCHANGED <<current_stealth_level, timeout_count, contextVars, phaseVars,
                   judgeVars, tryVars, executions, try_start, ran_on,
                   extended_tried, total_attempts, queue, tried_any, outcome, return_to>>

\* The top of the attempt loop: call the action, or stop at the budget (and
\* then without an error, whatever the last attempt returned).
Attempt ==
    /\ pc = "attempt"
    /\ IF total_attempts < Budget
       THEN /\ total_attempts' = total_attempts + 1
            /\ ran_on' = browser
            /\ pc' = "acting"
            /\ UNCHANGED resultVars
       ELSE /\ ReturnFromTry(TRUE, NoError)
            /\ UNCHANGED <<total_attempts, ran_on>>
    /\ UNCHANGED <<engineVars, contextVars, phaseVars, judgeVars, tryVars,
                   executions, try_start, auth_seen, only_blocked,
                   extended_tried, queue, tried_any, outcome, return_to>>

ActionSucceeds ==
    /\ pc = "acting"
    /\ record_success(name)
    /\ Return("ok")
    /\ UNCHANGED <<current_stealth_level, timeout_count, down_backends,
                   contextVars, phaseVars, judgeVars, tryVars, resultVars,
                   historyVars, total_attempts, queue, tried_any, return_to>>

\* The failed attempt will be repeated: retries says which counter pays.
RetrySame ==
    /\ transient_retries' = transient_retries + 1
    /\ pc' = "attempt"
    /\ UNCHANGED <<engineVars, contextVars, disconnect_retries, resultVars,
                   return_to>>

\* A lost socket: reconnect, the second time with another engine.
Recover(e) ==
    /\ disconnect_retries' = disconnect_retries + 1
    /\ error' = e
    /\ \E b \in IF disconnect_retries + 1 >= 2
               THEN pick_alternate_engine(name) ELSE {name} :
          BeginSwitch(b, "recover")
    /\ UNCHANGED <<engineVars, transient_retries, tried_action>>

\* The attempts on this browser end with e, and the tracker learns of it.
GiveUpBrowser(e) ==
    /\ record_failure(name, classify_error(e))
    /\ ReturnFromTry(TRUE, e)
    /\ UNCHANGED <<current_stealth_level, timeout_count, down_backends,
                   contextVars, transient_retries, disconnect_retries, return_to>>

\* The attempts end with e, which the tracker does not record.
GiveUpUnrecorded(e, down) ==
    /\ down_backends' = down_backends \cup down
    /\ ReturnFromTry(TRUE, e)
    /\ UNCHANGED <<current_stealth_level, timeout_count, failures, contextVars,
                   transient_retries, disconnect_retries, return_to>>

MaxTransientRetries  == IF allow_transient_retries THEN 2 ELSE 0
\* Mutant: phase 2 reconnects as phase 1 does.
AlwaysReconnect == 2

MaxDisconnectRetries == IF allow_transient_retries THEN 2 ELSE 0

\* What try_browser() does with an error of the action: a rate limit may be
\* repeated once, a lost socket reconnected, other transient errors repeated.
AfterFailure(e) ==
    LET class    == classify_error(e)
        lost     == class = "transient" /\ e # "Timeout" /\ is_disconnection_error(e)
        repeats  == \/ class = "rate_limit" /\ transient_retries + 1 < 2
                    \/ /\ class = "transient" /\ e # "Timeout" /\ ~lost
                       /\ transient_retries < MaxTransientRetries
        recovers == lost /\ disconnect_retries < MaxDisconnectRetries
    IN  \/ class = "auth" /\ GiveUpUnrecorded(e, {})
        \/ class = "backend_down" /\ GiveUpUnrecorded(e, {name})
        \/ repeats /\ RetrySame
        \/ recovers /\ Recover(e)
        \/ class \notin {"auth", "backend_down"} /\ ~repeats /\ ~recovers
           /\ GiveUpBrowser(e)

ActionFails(e) ==
    /\ pc = "acting"
    /\ AfterFailure(e)
    /\ auth_seen' = IF classify_error(e) = "auth" THEN "seen" ELSE auth_seen
    /\ only_blocked' = (only_blocked /\ classify_error(e) = "blocked")
    /\ UNCHANGED <<phaseVars, judgeVars, name, allow_transient_retries,
                   executions, try_start, ran_on, extended_tried,
                   total_attempts, queue, tried_any, outcome>>

-----------------------------------------------------------------------------
\* execute(): what it does with the result of try_browser().

\* Mutant: only the typed error ends the execution, not its class.
EndsOnTypedAuth(e) == e = "Auth"

EndsExecution(e) == e # NoError /\ classify_error(e) = "auth"

\* Mutant: a timeout tries the next primary browser first.
LeavesOnBlock(e) == classify_error(e) = "blocked"

LeavesRotation(e) == e = "Timeout" \/ classify_error(e) = "blocked"

\* A timeout or a block leaves the rotation of this level (the queue) at once,
\* before last_error is saved.
PrimaryFailed ==
    /\ pc = "returned" /\ allow_transient_retries
    /\ tried_any' = (tried_any \/ tried_action)
    /\ IF error = NoError
       THEN UNCHANGED <<judgeVars, timeout_count, queue, outcome>> /\ pc' = "primary"
       ELSE /\ was_blocked' = (classify_error(error) = "blocked")
            /\ consecutive_disconnects' =
                   IF is_disconnection_error(error)
                   THEN consecutive_disconnects + 1 ELSE 0
            /\ IF EndsExecution(error) THEN Return(error)
                                       ELSE pc' = "primary" /\ UNCHANGED outcome
            /\ IF error = "Timeout"
               THEN /\ phase1_timeouts' = phase1_timeouts + 1
                    /\ timeout_count' = timeout_count + 1
                    /\ had_timeout' = TRUE
               ELSE UNCHANGED <<phase1_timeouts, timeout_count, had_timeout>>
            /\ queue' = IF LeavesRotation(error) THEN <<>> ELSE queue
            /\ last_error' = IF LeavesRotation(error) \/ EndsExecution(error)
                             THEN last_error ELSE error
    /\ UNCHANGED <<current_stealth_level, down_backends, failures, contextVars,
                   phaseVars, tryVars, resultVars, historyVars, total_attempts,
                   return_to>>

ExtendedFailed ==
    /\ pc = "returned" /\ ~allow_transient_retries
    /\ IF EndsExecution(error)
       THEN Return(error) /\ UNCHANGED last_error
       ELSE /\ pc' = "extended"
            /\ last_error' = IF error = NoError THEN last_error ELSE error
            /\ UNCHANGED outcome
    /\ UNCHANGED <<engineVars, contextVars, phaseVars, tryVars, resultVars,
                   historyVars, total_attempts, queue, tried_any, return_to,
                   consecutive_disconnects, was_blocked, had_timeout,
                   phase1_timeouts>>

Engine ==
    \/ LeaveLevels \/ EnterLevel \/ LeavePrimary \/ SkipDown \/ LeaveExtended
    \/ TryPrimary \/ TryExtended \/ Attempt \/ PrimaryFailed \/ ExtendedFailed

Switching ==
    \/ SwitchConnected \/ SwitchInitialized \/ SwitchNavigated
    \/ \E e \in SwitchErrors : SwitchFails(e)

Acting ==
    \/ ActionSucceeds
    \/ \E e \in ActionErrors : ActionFails(e)

Next == Execute \/ Engine \/ Switching \/ Acting

Spec == Init /\ [][Next]_vars

\* Every await of the engine ends: connecting, protocol commands and
\* navigations carry timeouts, and the caller's action is built on them.
FairSpec == Spec /\ WF_vars(Engine \/ Switching \/ Acting)

-----------------------------------------------------------------------------
\* Type invariant: every variable of the engine has its Rust type, and the
\* program counter one of the engine's awaits or loop heads.
EngineTypeOK ==
    /\ current_stealth_level \in 0..3 /\ stealth_level \in 0..3
    /\ timeout_count \in Nat
    /\ down_backends \subseteq Browsers
    /\ failures \in [Browsers -> Classes \cup {"none"}]
    /\ browser \in Browsers
    /\ adapter \in {"live", "destroyed"}
    /\ current_url \in BOOLEAN

ExecuteTypeOK ==
    /\ pc \in {"idle", "level", "primary", "extended", "connect", "init",
               "navigate", "attempt", "acting", "returned"}
    /\ total_attempts \in Nat
    /\ start_level \in 0..3 /\ si \in Nat
    /\ initial_browser \in Browsers
    /\ queue \in Seq(Browsers)
    /\ consecutive_disconnects \in Nat /\ phase1_timeouts \in Nat
    /\ was_blocked \in BOOLEAN /\ had_timeout \in BOOLEAN
    /\ tried_any \in BOOLEAN
    /\ last_error \in Errors \cup {NoError}
    /\ outcome \in Errors \cup {NoError, "ok", "exhausted"}

TryTypeOK ==
    /\ name \in Browsers /\ allow_transient_retries \in BOOLEAN
    /\ transient_retries \in Nat /\ disconnect_retries \in Nat
    /\ tried_action \in BOOLEAN
    /\ error \in Errors \cup {NoError}
    /\ return_to \in {"rotate", "recover"}
    /\ executions \in Nat /\ try_start \in Nat /\ ran_on \in Browsers
    /\ auth_seen \in {"no", "seen", "dropped"}
    /\ only_blocked \in BOOLEAN
    /\ extended_tried \subseteq Browsers

TypeOK == EngineTypeOK /\ ExecuteTypeOK /\ TryTypeOK

\* Safety: however many switches failed before, an attempt runs on an adapter
\* initialised after the last destroy().  The one exception is the first
\* browser of a later execution, which may be what the previous one left.
AttemptsOnLiveAdapter ==
    pc = "acting" /\ (try_start > 0 \/ executions = 1) => adapter = "live"

\* Safety: no switch goes to a browser this execution has marked down, on any
\* of the paths that choose one: rotation, reconnection, alternate engine.
NeverSwitchesToDown ==
    pc \in {"connect", "init", "navigate"} => browser \notin down_backends

\* Safety: one browser gets at most five attempts in phase 1 (two transient
\* retries and two reconnections) and two in phase 2, and the whole execution
\* at most max_retries + 1.
AttemptsBounded ==
    /\ total_attempts <= Budget
    /\ total_attempts <= try_start + IF allow_transient_retries THEN 5 ELSE 2

\* Safety: after a timeout in phase 1 no further primary browser is contacted
\* in this execution; what is left of the budget goes to the extended engines.
TimeoutLeavesPrimary ==
    phase1_timeouts >= 1 /\ pc \in {"connect", "init", "navigate", "attempt", "acting"}
        => ~allow_transient_retries

\* Safety: execute() gives up with budget left, other than for an
\* authentication error, only when every extended engine was tried or is down;
\* and a site that blocked every attempt was then tried at every stealth level.
GivesUpOnlyWhenExhausted ==
    /\ pc = "idle" /\ executions > 0 /\ outcome # "ok"
    /\ auth_seen # "seen" /\ total_attempts < Budget
    => /\ Elems(Extended) \subseteq extended_tried \cup down_backends
       /\ only_blocked => /\ current_stealth_level >= MaxStealth
                          /\ stealth_level >= MaxStealth

\* Action property: stealth only goes up, one level at a time, and the
\* transport always follows the engine, so a reconnect asks for that level.
StealthClimbs ==
    [][/\ current_stealth_level' \in {current_stealth_level, current_stealth_level + 1}
       /\ stealth_level' = current_stealth_level']_vars

\* Action property: once the action, or a rotation, met an authentication error,
\* the execution neither calls the action again nor moves to another browser.
AuthIsFinal ==
    [][auth_seen = "seen" => /\ total_attempts' <= total_attempts
                             /\ UNCHANGED <<browser, ran_on>>]_vars

\* Refinement: the engine keeps the contract its callers rely on.  The mapping
\* is by name; a switch moves the engine when the transport is re-pointed.
Contract == INSTANCE RetryContract WITH
    Engines <- Browsers,
    running <- pc # "idle",
    calls   <- total_attempts,
    stealth <- stealth_level,
    engine  <- browser,
    avoided <- down_backends

KeepsContract == Contract!Spec

\* Liveness: every execute() returns.
Termination == pc # "idle" ~> pc = "idle"

-----------------------------------------------------------------------------
\* The inductive invariant behind the safety properties.

Contacting == {"connect", "init", "navigate"}
InTry == Contacting \cup {"attempt", "acting", "returned"}

\* Where the loop over the levels stands, and that the transport follows.
StealthInv ==
    /\ stealth_level = current_stealth_level
    /\ pc = "level" =>
         current_stealth_level = IF si = 0 THEN start_level ELSE Level - 1
    /\ pc = "primary" \/ (pc \in InTry /\ allow_transient_retries) =>
         current_stealth_level = Level /\ Level <= LastLevel

\* Every attempt of a try is paid by one of its retry counters.
BudgetInv ==
    /\ AttemptsBounded
    /\ pc \in InTry \ {"acting", "returned"} =>
         total_attempts = try_start + transient_retries + disconnect_retries
    /\ pc = "acting" =>
         total_attempts = try_start + transient_retries + disconnect_retries + 1
    /\ pc \in InTry =>
         /\ transient_retries <= IF allow_transient_retries THEN 2 ELSE 1
         /\ disconnect_retries <= IF allow_transient_retries THEN 2 ELSE 0

\* A browser marked down is neither contacted nor tried.
DownInv ==
    /\ pc \in Contacting => browser \notin down_backends
    /\ pc \in Contacting \cup {"attempt", "acting"} => name \notin down_backends

\* The adapter is destroyed only by a switch, which needs an earlier attempt.
AdapterInv ==
    /\ executions = 0 => pc = "idle" /\ total_attempts = 0
    /\ executions <= 1 /\ total_attempts = 0 => adapter = "live"
    /\ pc = "navigate" => adapter = "live"
    /\ pc \in {"attempt", "acting"} /\ (try_start > 0 \/ executions = 1)
         => adapter = "live"

\* A timeout empties the rotation it happened in.
TimeoutInv ==
    phase1_timeouts >= 1 => /\ pc \in InTry => ~allow_transient_retries
                            /\ pc = "primary" => queue = <<>>

\* Safety: the inductive invariant the theorems rest on, over consecutive
\* executions of the engine.
IInv == TypeOK /\ StealthInv /\ BudgetInv /\ DownInv /\ AdapterInv /\ TimeoutInv

=============================================================================
