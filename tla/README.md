# spider-browser: TLA+ models, model checking and proofs

This directory specifies the Rust client of spider-browser (`src/rust/src`) and
the retry engines of its Go and Python ports in TLA+. TLC checks small instances
of every module, and the TLA+ proof system proves the safety of the retry
engines, the failure tracker, the transport, the protocol sessions, the page and
the client for every value of their constants. The rest of the TypeScript, Go and
Python ports is inventoried in `PROJECT.json` and not modelled yet.

`PROJECT.json` lists the runs, the theorems, the hazards, and for every
definition the source lines it stands for.

## 1. The system

A caller creates a `SpiderBrowser` and calls `init()`. That opens a WebSocket to
the browser fleet (`Transport`), starts a *relay* task that moves commands from
a channel to the socket, creates a protocol session (CDP, or BiDi for Firefox)
behind a `ProtocolAdapter`, and finally spawns a *routing* task that moves what
the server sends to the session. The caller then uses a `SpiderPage`, whose
methods are commands on the session. `RetryEngine` is a public API that runs a
caller's action over several browsers and stealth levels until it succeeds; it
switches browsers by destroying the adapter, reconnecting the transport and
initialising a new adapter, and records failures in a `FailureTracker`, which
`BrowserSelector` reads.

    caller -- RetryEngine --- FailureTracker <--- BrowserSelector
       |          | destroy / reconnect / init
       v          v
    SpiderPage -> session --ch--> relay task --> Transport --ch--> writer task --> socket
                     ^                                                               |
                     +------- routing task <--ch-- reader task <---------------------+

### Components of the Rust client

| component | state it keeps | operations | what is hard |
|---|---|---|---|
| `RetryEngine` (`retry/retry_engine.rs`) | stealth level, timeout count, backends marked down; per execution the attempt budget, two rotations, flags; per browser two retry counters | `execute`, `try_browser`, `switch_browser` | seven kinds of failure, three of which can end in a reconnection that itself fails half-way; two nested loops with four breaks, one shared budget |
| `FailureTracker` (`retry/failure_tracker.rs`) | concurrent map (domain, browser) to count, stamp, class | record, success, count, clear, clear class, cleanup, total | methods take `&self`: map accesses and relaxed atomics of several tasks interleave; guards on a shard while removing from it |
| `BrowserSelector` (`retry/browser_selector.rs`) | none of its own, reads the tracker | `should_rotate`, `next_browser`, `choose_browser` | wrap-around walk; asking drops expired records |
| `Transport` (`protocol/transport.rs`) | generation, connected flag, current browser, one outgoing channel, one incoming, task handles | `connect`, `reconnect`, `close`, `send` | tasks of several connections alive at once; abort takes effect late; a stale reader's last steps |
| command map of `CDPSession` and `BiDiSession` | id counter, map of one-shot senders | `send`, `handle_message`, `destroy` | a timeout racing the answer; destroy under waiting tasks; a refused command |
| `CDPSession` operations | target session id, listeners per event | attach, three navigations, page commands, events | events come before or after the wait; listener removal by event name; failures between register and remove |
| `BiDiSession` operations (`protocol/bidi_session.rs`) | the browsing context | `get_or_create_context`, navigation, commands of the page, `destroy` | looking the context up is a second clock around commands; a placeholder when everything fails |
| `ProtocolAdapter` (`protocol/protocol_adapter.rs`) | the session, of one protocol | `init`, dispatch of every operation, `route_message`, `destroy` | one interface over two sessions that fail differently; a gesture is several commands over CDP and one over BiDi |
| `SpiderBrowser` (`spider_browser.rs`) | transport, adapter, page, the relay's sender | `init`, page, `close` | who keeps which task and connection alive; `init` waits before the routing task exists |
| `KeywordClassifier` (`retry/keyword_classifier.rs`) | a trie with failure and dictionary links | `new`, `classify` | links built level by level, in the order of a hash map; which of several keywords answers |
| `SpiderPage` (`page.rs`) | none beyond the adapter | `content` and its variants, `wait_for_*`, clicks, drags, keys, texts, snapshots, `agent` | five phases of polling that each replace the document read before; gestures that fail half-way |
| `Agent` (`ai/agent.rs`) | rounds, what was extracted, whether the guardrail persists | `execute` | the document, and the guardrail in it, can be replaced between any two commands; one verdict for several endings |
| `SpiderEventEmitter`, `act`, `observe`, `extract`, LLM providers | handler map; none | see `PROJECT.json` | not modelled |

The other three clients (`src/typescript`, `src/go`, `src/python`) have the same
parts. Their retry engines differ in the order of the rotations. Go and Python
try the extended engines inside every stealth level, take a lost socket to the
next browser without reconnecting, and leave the primary rotation for good after
three consecutive disconnections; the two search alike, step by step. Python
also writes a failure tracker as it searches, which nothing reads.

## 2. The modules

| module | models | state and actions against the code |
|---|---|---|
| `RetryEngine` | `retry_engine.rs` | `pc` is the await or loop head the engine is at. `Execute`, `EnterLevel`, `LeavePrimary`, `LeaveLevels`, `SkipDown`, `LeaveExtended` are the heads and exits of the two loops; `TryPrimary`/`TryExtended` start `try_browser()`; `SwitchConnected`, `SwitchInitialized`, `SwitchNavigated`, `SwitchFails` are the awaits of `switch_browser()`; `ActionSucceeds`, `ActionFails` the action; `AfterFailure` dispatches on the error class to `RetrySame`, `Recover`, `GiveUpBrowser`, `GiveUpUnrecorded`; `PrimaryFailed`, `ExtendedFailed` are what `execute()` does with the result. Errors are one value per kind the engine tells apart. |
| `RetryTiered` | `go/retry_engine.go` and `python/.../retry_engine.py` | The same division for these two engines, which search alike: `Execute`, `EnterLevel`, `LeaveLevels`, `LeavePrimary`, `LeaveExtended`, `SkipDown` are loop heads and exits, `TryPrimary`/`TryExtended` start `tryBrowser()`, `SwitchSucceeds`, `SwitchFails`, `Attempt`, `ActionSucceeds`, `ActionFails` run it, `PrimaryFailed`, `ExtendedFailed` judge it. An execution finds browser, adapter and stealth level as the last one left them. A switch fails with any error of connecting; when there is a URL to go back to it can be blocked as well, and then leaves a live adapter. |
| `RetryContract` | what a caller relies on | `Start`, `Call`, `Escalate`, `Move`, `Avoid`, `Stop`: an abstract specification that the Rust, Go and Python engines implement (refinement mappings `Contract` in `RetryEngine` and `RetryTiered`). |
| `FailureTracker` | `failure_tracker.rs` | One step per access to the map or to an atomic: `Get`, `Add`, `Stamp`, `Tag`, `Insert`, `Look`, `Load`, `Read`, `Scan`, `Remove`. `guard` is the read guard a caller holds. |
| `BrowserSelector` | `browser_selector.rs` | `NextBrowser`, `ChooseBrowser`, `ShouldRotate` over counts and stamps of one domain; `After` is the code's arithmetic, and the properties define the answer independently by distance. |
| `Transport` | `transport.rs` | The owner (`Connect`, `Reconnect`, `Close`, `Dial`, `DialFails`, `DialSucceeds`, `Spawn`), the writer task per generation (`Write`, `CloseSink`, `DropWriter`), the reader task (`Read`, `Forward`, `ReadEnd`, `Leave`, `DropReader`), senders (`Send`), the server and the network (`Serve`, `ServerCloses`, `BreaksOff`). A socket that broke off gives its reader a close frame or an error next, while the writer still holds its half (`Standing`: open or broken). The generation check in the reader and its forward are two steps, since `reconnect()` can come between. |
| `PendingCalls` | `send`, `handle_message`, `destroy` of both sessions | `Call`, `Insert`, `Transmit`, `Receive`, `Expire` are the steps of `send()`, `TakeSender` and `UseSender` those of `handle_message()`, `ClearPending` is `destroy()` on the map. |
| `ProtocolSession` | what both sessions share beyond their commands | Extends `PendingCalls` by operations: `op`, `at`, `nth` say which one a task runs and where it is, `serial` numbers them. `Begin`, `CallStep`, `Timeout`, `Finish`, `Fail` are the ends of the awaits; `Router` is the routing task. |
| `CdpSession` | the rest of `cdp_session.rs` | Extends `ProtocolSession`. `Navigate`, `Listen`, `Ask`, `Answered`, `Hear`, `WaitNoMore`, `Unlisten` are a navigation, `Attach*` are `attach_to_page()`, `Destroy*` the three parts of `destroy()`, `HandlePageEvent` and `HandleAttached` the event half of `handle_message()`. `robbed` remembers whose listeners another navigation removed. |
| `BidiSession` | the rest of `bidi_session.rs` | Extends `ProtocolSession`. `StartIn`, `FindContext`, `FoundContext`, `GoOnWith`, `OuterClock` are `get_or_create_context()` with its two strategies and the clock around the first; `SendInContext`, `SentInContext` the operations; `ctx` is the context an operation has read and keeps. |
| `ProtocolAdapter` | the dispatch of `protocol_adapter.rs` | Extends both sessions; `protocol` is chosen at the start and `Dispatch` takes the step of the session there is. |
| `SpiderBrowser` | `spider_browser.rs` | Composes abstractions of the transport and of the session: each `init()` builds a numbered chain of connection, relay, reader and routing task. `TransportHeld` and `RelayFed` say who holds the `Arc` and the sender a task's end depends on; `WriterEnds` closes a connection whose transport nobody holds. As in `Transport`, a connection can break off before it closes (`BreaksOff`), which ends its reader only. |
| `KeywordClassifier` | `keyword_classifier.rs` | `AddRule` (with `insert`), `StartLinks`, `LinkChildren` (one node of the breadth-first walk, its children in any order), `StartScan`, `Scan` (one byte of the text). A node is the word that leads to it, in place of an index into a vector. |
| `PageContent` | the waiting methods of `page.rs` | `at` is the phase (`Early`, `Ready`, `Quiet`, `Main`, `Challenge`, `Grow`, `Stable`, `Length`, `Selector`, `Patient`); a document is its size class and the text the classifiers look for; `PhaseEnds` and `CallIsLate` are the two deadlines. A pass of a polling loop that finds nothing new is no step. |
| `PageInput` | the acting methods of `page.rs`, `execute_action()` of `agent.rs`, the gestures of the adapter | `Script` says which commands an operation becomes over either protocol, and a command is what it presses and releases of one button and one key; over BiDi a `Gesture` is one command. `Succeed` does the next one; `FailInput` does any part of it, none and all included, and the operation ends there, except in the click of `fill()` (`Optional`, `Abandoned`). `held` is what the browser thinks is pressed, `stuck` what an operation that broke off left so, `downed` whether `key_down()` did. |
| `Agent` | `ai/agent.rs` | Extends `PageInput`. `BeginAgent`, `Guard`, `Install` are what precedes the loop, `GuardAgain`, `BeginRound` and the steps after it a round, `GiveUp` the ending the three `break`s and the last round share. `PageLeaves` is a document that is replaced by itself. |
| `SpiderPage` | a page as its user sees it | Composes `PageContent`, `PageInput` and `Agent`: one call after the other on one session. |
| `MC*` | instances for TLC | Rotations, pairs, symmetry. `MCRetryEngine` puts `RetryEngine` next to what the engine owns, `BrowserSelector` and `KeywordClassifier`: `part` says which of the three moves in a behaviour while the others stand still, so each is checked as if it were alone. |
| `RetryEngineProofs`, `RetryTieredProofs`, `FailureTrackerProofs`, `TransportProofs`, `ProtocolAdapterProofs`, `SpiderBrowserProofs`, `SpiderPageProofs`, `KeywordClassifierProofs` | theorems | See section 5. The theorem about `BrowserSelector` is at the end of `RetryEngineProofs`; those about `PendingCalls` are in `ProtocolAdapterProofs`. |

`Mutant` definitions are plausible bugs of the definition that follows them.
They are in no specification; replacing the definition by its mutant makes the
property named in `PROJECT.json` fail.

## 3. The runs

| run | question | bounds, and why they are enough |
|---|---|---|
| `retry_engine` | Is the search bounded and ordered, does it end, does it use only live adapters and healthy backends, does it keep the contract? Do the selector's walks agree with the reference? Does the classifier find the keyword that ends first, the longest of those that end together, the first rule of equal ones? | Engine: two primary and two extended engines, levels 0 to 2 from either 0 or 1, a start browser inside or outside the primary rotation, one error per reaction of the engine, budget 4: enough for two reconnections with an alternate engine, both transient retries, and phase 2 after each of them. One execution; the theorems cover any number. Selector: three browsers, threshold 2, up to three failures each, time past the TTL twice; the current browser is one of the three or one outside the rotation. Classifier: every sequence of three keywords of up to three letters over two letters and a capital, with two of four letters in which a failure link is followed more than once, and every text of up to five. 1.4 million states. |
| `retry_tiered` | Do the Go and Python engines keep the same contract, leave an overloaded client alone, try a blocking site everywhere, and count an attempt for the browser it ran on? | Two primary browsers and one extended engine, levels up to 2 from 0 or 1, an initial browser inside or outside the primary rotation, one error per reaction, of the action and of a switch, seven attempts. Six attempts use up two levels, so a blocked search can give up with budget left; three lost sockets in a row need two levels, so the count is carried across an escalation. Two executions, so the second starts from a browser outside the rotation and from an adapter a failed switch destroyed. |
| `tracker` | Are failures lost, invented or removed by concurrent callers, and do calls return? | Two callers, two pairs in different domains, three calls of any method, a clock that passes the TTL: two callers and one earlier call make every race on one record. |
| `transport` | Are messages delivered and forwarded in order, at most one stale; which socket can be orphaned; does everything settle? | Two connections, two messages each way, two dial attempts, sockets that close or break off. What a second connection leaves behind is what a third would find: tasks of it that were aborted or not, a receiver that is gone, handles that were overwritten. 470,000 states. |
| `protocol` | Does every call get its own answer, does nobody wait on a sender that is gone, which navigation can miss an event of its own page, is the context looked up once, does every operation return? | Two tasks on one session of either protocol, both of which navigate and send commands; three operations, seven commands. Over CDP five of these set the session up and the other two race each other; over BiDi up to two go to finding the context, again for each operation of a session whose context was not found. Only the load event fires, early, late or never. |
| `page` | Is content returned that was last seen to be a challenge, is less than asked for returned too early, does a key or button stay pressed, does an agent plan without its guardrail, is its report true, does every call return? | Two calls of a user, documents of every size class with every text that is classified by size, callers asking for nothing, a little and much; an agent of two rounds with two steps each, so a plan follows a plan whose steps left the page; two elements to click; a button and a key, which a failed command may press or release in part. 640,000 states. |
| `spider` | Is a command lost between socket and session, does a chain in use stay whole, does `close()` leave its connection behind, do calls return? | Two `init()` calls over CDP or BiDi with three commands per chain. Three are fewer than the five a CDP attach needs, and since `init()` never hears an answer (section 6) it sends one; BiDi sends two and then serves the page. Connections break off or close at any time. |

In `retry_engine` an extended engine is reached in phase 2 and by a
reconnection. Every action and disjunct of the specifications above is taken in
a passing run; a budget of 4 cannot reach the exit of the primary loop for six
disconnections in a row, which is one of three guards of `LeavePrimary`. The
actions of `RetryTiered` are taken in `retry_tiered`, those of `PendingCalls`,
`ProtocolSession` and the two sessions in `protocol`, and those of `PageContent`,
`PageInput` and `Agent` in `page`.

`CHECK_DEADLOCK FALSE` is set where the system may stop: all calls of the bound
made, a session destroyed, connections used up. `retry_engine` and
`retry_tiered` set it for the engine after its last execution.

The five runs that expect a violation check what a comment of the source
says; see section 6.

### What the properties say

*Retry engine.* `AttemptsOnLiveAdapter`: no attempt on an adapter a failed
switch destroyed. `AttemptsBounded`: five attempts per browser in phase 1, two in phase 2,
`max_retries + 1` in all. `TimeoutLeavesPrimary`: after a timeout only extended
engines. `GivesUpOnlyWhenExhausted`: giving up with budget left means that every extended
engine, and for a site that only blocks every stealth level, was tried.
`AuthIsFinal` is an action property, `KeepsContract` the refinement (bounded
calls, stealth that only climbs, no move to a backend marked down),
`Termination` the liveness. `TypeOK`, `NeverSwitchesToDown` and `StealthClimbs`
are proved and not run: the contract says the last two.

*Go and Python engines.* `SparesPrimary`: three lost sockets in a row, counted
across attempts, switches and levels, keep the primary browsers out for the rest
of the execution. `BlockedTriesEverything`: a search in which every failure, of
an action or of the switch before it, was a block, and which gives up with
budget left, tried every extended engine of its level, and is at the top level
or was blocked in every switch of this one (section 6). `AttemptsAtItsBrowser`:
an attempt runs on a live adapter of the browser it is counted for; before the
first switch of an execution it runs where the last one left the client, and on
another browser only if the client was outside the primary rotation.
`KeepsContract` and `Termination` as above.

*Tracker.* `NoFailureLost`, `CountIsRecent`, `RemovesOnlyItsTarget` (the removals by key of
`cleanup()`, `clear_class()` and `failure_count()` hit a fresh record only if
somebody was recording that pair during the call), `CallsReturn` (no removal
waits for a guard that its own caller, or one waiting for it, keeps).

*Selector.* `AnswersAreNearest` has four parts. `NextIsNearest`: `next_browser()`
returns the healthy browser that follows the current one most closely around the
rotation, and nothing only when no other is healthy; a current browser outside
the rotation stands at its start. `ChosenIsFirst`: `choose_browser()` returns the
first healthy one, or the fallback. `RotatesUnhealthy`: `should_rotate()` means
the same by healthy. `AskingIsHarmless`: these questions drop expired records,
and none changes which browsers are healthy.

*Classifier.* `FirstToEnd`: against a reference that compares suffixes of what
was read with the keywords. `insert()` and the links serve nothing else. That
the rule of highest priority answers, as the documentation has it, is refuted
by `claim_priority`.

*Transport.* `MessagesInOrder` (both ways), `AtMostOneStale` (at most one message
of a superseded connection is forwarded), `NoOrphanSocket` (the connection asks
for the browser the transport reports, and of the others only one kind stays up
out of reach of `close()`: its reader left on a close frame or an error, and
`connect()` overwrote its handles), `ConnectionsSettle` (again and again, no loss is unnoticed
and no connection that was given up is open).

*Protocol.* `OwnAnswer`, `OnlyLateUnclaimed`, `NoOtherLeak` and
`SomebodyAnswers` are about the commands. `OnlyRobbedMiss`: a navigation hears
the events of its own page unless another navigation has removed its listeners.
`NoStrayListener`: a listener in the map is of an operation in progress or of
one whose command failed. `ContextIsCurrent`: over BiDi, operations that run at
the same time use the context the session has. `OperationsReturn`: again and
again every task is done, on the clock alone.

*Page.* `OnlyGrowthIsUnclassified`: what is returned as content was looked at and
called neither a challenge nor a rate limit, or it is a longer document read
while a short one that was is waited for to grow. The second case is the gap of
the code, which does not look at these reads (section 6); the property says that
it is the only one, whichever phase is left at whichever deadline.
`ShortIsLast`: less than was asked for is returned only when the time
for it to grow is used up, and then the longest that was read.
`NothingStaysPressed`: a button or key is down only while the operation in
progress has still to release it, or since an operation broke off before it had
pressed or released it, or, a key, since `key_down()`; the next operation that
completes a release heals it, over either protocol. `PlansAreGuarded`:
a page-scoped agent plans on a document with the guardrail, unless one failed or
the document was replaced behind it. `ReportIsTrue`: one event and one verdict
per run, which agree with how the last round ended, the last thing a plan
extracted, also if later plans found nothing, and as the number of rounds that
of the round that was done, or else the maximum. `PageReturns`.

*Client.* `CommandSomewhere`, `ChainWhole`, `OrphanOrigin`, `CallsReturn`.

## 4. Fairness

Only what the runtime guarantees is assumed. Spawned tasks that can make
progress are polled (weak fairness of the writer, reader, relay, routing and
router steps, and of the writer of a connection nobody holds). Clocks go on: every wait of the sessions carries a
`tokio::time::timeout`, a handshake ends or times out, so an expiry that stays
enabled is taken. In `RetryEngine` every await ends for the same reason: the
connection, the adapter's commands and the navigation have timeouts; that the
caller's action ends is an assumption on the caller, whose action is built from
those commands. `PageReturns` assumes that a command returns, which
`OperationsReturn` shows of the sessions, that the deadlines of the waiting
methods come, and that a request to the language model ends (the providers set
no timeout of their own). Nothing makes a caller call, a server answer, a page load, or a
connection close or break off.

## 5. Proofs

Every safety invariant and every safety action property that the passing runs
check is also a theorem of its specification, and so are both refinements of
`RetryContract`. The theorems hold for every value of the constants that
meets the assumption of the module, which TLC evaluates in the runs:

| assumption | of | says |
|---|---|---|
| `RotationAssumption`, `OptionsAssumption` | `RetryEngine` | the rotations are sequences, the primary one not empty; stealth levels are the code's; the errors are among those the engine tells apart |
| `TieredAssumption` | `RetryTiered` | the same of the Go and Python engines |
| `TrackerAssumption` | `FailureTracker` | TTL and bounds are numbers, finitely many callers, the mark for no pair is no pair |
| `SelectorAssumption` | `BrowserSelector` | the rotation is a sequence of distinct browsers and not empty; the threshold is positive; the mark for no answer is no browser |
| `ClassifierAssumption` | `KeywordClassifier` | lowering a byte twice is lowering it once; keywords are words and not empty; the mark for no link is no node; bounds are numbers |
| `TransportAssumption` | `Transport` | at least one dial attempt; bounds are numbers; the mark of a client that pins no browser is no browser |
| `CallsAssumption`, `OpsAssumption`, `SessionAssumption`, `ProtocolsAssumption` | the sessions | bounds are numbers; who sets the session up is a task; the router's empty hand is none; navigations, events and protocols are the code's |
| `BrowserAssumption` | `SpiderBrowser` | two protocols; bounds are numbers |
| `PageAssumption`, `InputAssumption`, `AgentAssumption` | the page modules | documents have a size class and a text, and the empty one is among them; bounds are numbers |

None of the properties is inductive by itself. What each proof adds, and why:

**`RetryEngineProofs`**: `TypeOK`, `AttemptsBounded`, `NeverSwitchesToDown`,
`AttemptsOnLiveAdapter`, `TimeoutLeavesPrimary`, `StealthClimbs`, `AuthIsFinal`,
`GivesUpOnlyWhenExhausted` and the contract, for any number of executions.
`IInv` adds to `TypeOK`:

- `BudgetInv`: inside a try, `total_attempts` equals the count at its start plus
  the two retry counters (plus one while the action runs), and the counters are
  bounded by the phase. This is why the bound of five holds.
- `DownInv`: also the *name* under trial is not down, up to the next result;
  `pick_alternate_engine` falls back to it when it has no other.
- `AdapterInv`: an adapter is destroyed only by a switch, and a switch needs an
  earlier attempt; after `init` it is live again.
- `StealthInv`: where the level loop stands, and that the transport follows.
- `TimeoutInv`: a timeout has emptied the rotation it happened in.

`EndInv` adds what the two properties about the end need. `AuthInv` follows an
authentication error from the action to the return of the try. `ExtendedInv`:
in phase 2 an engine was tried, is down or still waits in the queue, which at
the end of the queue is the claim. `BlockedInv` follows an execution all of
whose attempts were blocked: nothing is down, no timeout was met, and a level
adds at most one disconnection, so with three levels the six that would leave
the loop early are never reached. That is the argument for the stealth
levels being exhausted, and it rests on the code's numbers; `EarlyInv` excludes
that an execution ends before its first attempt. The refinement maps each
action to a contract action or a stutter (`ContractStep`).

The same module proves `AnswersAreNearest` of the selector, for any
rotation of distinct browsers. The code computes places modulo
the length; `WalkIsByDistance` shows that the k-th browser of the walk is the one
at distance k, so the walk meets every other browser once, nearest first, and
`FirstUsableIs` that the first usable one on it is then the nearest. Distances of
any number are compared by the least element of a set of numbers (`LeastNumber`,
from the library's `WFMin`). `ForgetIsHarmless`: a record that a question drops
had expired, so it counted for nothing before and after.

**`RetryTieredProofs`**: `SparesPrimary`, `BlockedTriesEverything`,
`AttemptsAtItsBrowser` and the contract, for any number of executions.
`SpareInv`: the count of lost sockets is below three from the head of the
rotation to the return of the try, without which a try that began below the
limit could pass it half-way. `BlockedInv`: while every failure was a block and
budget is left, nothing is down and no socket was lost, so the primary rotation
leads on to the extended one, and that one leaves no engine untried; a block in
a switch counts for this like one of the action. `FirstInv`: before the first
attempt the engine is at its first level, with a rotation that begins at the
browser in use. `PlaceInv`: only before the first switch can the adapter be dead
or the browser another than the one under trial. `BlockedTriesEverything` needs
the primary rotation not to be empty, which the type of the code's list does not
say but its contents do; so that is in the assumption.

**`FailureTrackerProofs`**: `NoFailureLost`, `CountIsRecent` and
`RemovesOnlyItsTarget`, for any number of callers, pairs and calls, and any
interleaving of their accesses. `TrackerInv` compares the map with what has
begun. `CountInv`: the count and the failures still being added are together at
most what was begun, also of pairs that are being removed, where
`NoFailureLost` says nothing; the proof is one account per step (`Balanced`),
in which `get_mut` and `entry` pay what `record_failure_class()` owed.
`TimeInv`: a stamp is never later than the latest failure, although a slow
caller may write an earlier one over a later one. `TargetInv`: what a call has
collected still fits its purpose until a failure of that pair is recorded, and
`OverlapInv`: that is noticed by every call in progress. The locks of the map
are not needed for any of this; they matter for `CallsReturn`.

**`TransportProofs`**: `TypeOK`, `MessagesInOrder`, `AtMostOneStale` and
`NoOrphanSocket`, for any number of connections, attempts and messages.
`ReceiverInv` and `FirstInv`: the outgoing channel has one receiver, which the
writer of the first connection that opened takes for good. `ChannelInv`: what
was written and what waits are together what was accepted. `InboundInv`,
`HeldInv`, `PassedInv`: the socket, the reader's hand and the incoming channel
hold the messages of one connection in increasing order, in that order.
`StaleInv`: a reader that let a stale message through holds no other.
`FreshInv`, `OwnerInv`, `LiveInv`: what a connection has before it is dialled
and while it is up, and that `close()` reaches the one whose writer drains the
channel, unless that one broke off and its reader has left; `NoOrphanSocket`
follows from these.

**`ProtocolAdapterProofs`** begins with the calls by themselves: `CallsTypeOK`,
`OwnAnswer`, `OnlyLateUnclaimed`, `NoOtherLeak` and `SomebodyAnswers`, also when a clock around a call drops it at
any of its awaits (`Abandon`). `CallsIInv` follows an id through its life: not
handed out yet (`FreshIds`), taken but not in the map (`InsertStep`), in the map
but not sent (`TransmitStep`), in the map or in the router's hand but not both
(`MapOnce`, `HandOnce`), on the wire (`WireWaits`). Without it an answer could
meet an id a second call holds, which no reachable state allows and no single
property excludes.

Then the adapter: a session of either protocol implements
`PendingCalls` (`CommandsAreCalls`: every step of every operation is a step of
the calls or leaves them alone), so the four properties of the calls hold of
it; and `OnlyRobbedMiss`, `NoStrayListener`, `ContextIsCurrent`. `AdapterInv`
numbers the operations (`SerialInv`) and says which places belong to which
(`PlaceInv`, `SideInv`). `ListenerInv`: the listeners registered under a number
are of an operation that still needs them where it is, so when it ends none is
left. `EarInv` is the converse: it has all of them, unless it was robbed, which
is why it hears. `VisitInv`: a page fires only after the command that loads it.
`ContextInv`: the context is looked up before the session is shared, so no
operation uses one while it is looked up.

**`SpiderBrowserProofs`**: `TypeOK`, `CommandSomewhere`, `ChainWhole` and
`OrphanOrigin`, for any number of `init()` calls and commands. `SBInv` says what
holds the tasks of a chain in being (`HolderInv`: the client's own fields, or an
`init()` in progress that nobody routes yet), that a chain not built yet has
nothing (`UnbuiltInv`), and that a connection that neither closed nor broke off
is read (`ReadInv`).

**`SpiderPageProofs`**: `OnlyGrowthIsUnclassified`, `ShortIsLast`,
`NothingStaysPressed`, `PlansAreGuarded` and `ReportIsTrue`, for any documents,
operations, rounds and plans. `PageInv` is `ContentInv /\ InputInv /\ AgentInv`,
each kept by its own component and left alone by the others. `ContentInv`: a
document that grows was judged good but for its length and is the longest read
since (`GrowInv`). `InputInv`: what the commands left to send press, the same or
a later one of them releases (`Closed`), which every script of `PageInput` but
that of `key_down()` satisfies (`ScriptIsWhole`), and what is left of one too; so
what a failed command leaves down either is still to be released or was part of
what was given up. `AgentInv`: the document the agent is about to plan on has the
guardrail or what spoilt it is on record (`GuardInv`), and what was extracted is
from the last plan that found something (`ExtractedInv`).

**`KeywordClassifierProofs`**: `FirstToEnd`, for any rules inserted in any order,
any order of the children in the hash maps, and any text. A node is a word, so
what the links should be can be said of the words. `KCInv` does: `TrieInv` (with
a node all its prefixes are nodes), `TypeInv`, `RulesInv` (the output of a node is
the first rule whose lowered keyword is that word), `LinkInv` (a linked node's
failure link is its longest proper suffix in the trie, its dictionary link the
longest that has an output), `LevelInv` (the queue is
in order of length and spans two lengths at most; up to the length of its head
every node is linked, and of the next those whose parent has left the queue; so
the walk that links a node meets linked nodes only), `ScanInv` (the
search stands at the longest suffix of the text read that is a node, and no
keyword has ended before) and `StartInv`. `WalkRight` is the heart: a walk along
failure links passes every suffix that is a node, longest first, so it stops at
the longest that goes on with the byte; `StepRight` uses it for the search and
`FailOfRight` for the links themselves. The walk is a recursive function, which
for the prover is a CHOOSE of a function that satisfies the equation; that there
is one is proved (`LoopEnds`) from the lengths getting smaller, by a least
counterexample instead of an induction over words.

The proofs are laid out alike: one lemma per part of the invariant, in it one
step per action, and the theorem from these lemmas. Every inductive invariant was
checked by TLC on the instance of its run before it was proved. What is proved about numbers and words
of any size rests on least elements, which the library proves of the naturals.

Only model-checked:

- liveness, which the proof system cannot do under fairness: `Termination` of
  the engines, `CallsReturn` of the tracker and of the client,
  `OperationsReturn`, `ConnectionsSettle`, `PageReturns`.

## 6. Where the code and its comments disagree

Shown by a run:

- `claim_reconnect_channel`. The outgoing channel's receiver is moved into the
  writer of the first connection. `transport.rs:294` says that later connections
  create new channels; none does, so after `reconnect()` the new writer has
  nothing to read, closes its socket, and every `send()` fails.
- `claim_listeners`. A navigation that ends removes *all* listeners of its
  events from the session (`cdp_session.rs:290`), including those of another
  navigation in progress, although listeners are registered before the command
  so that the event is not missed (`cdp_session.rs:245`).
- `claim_init`. `SpiderBrowser::init()` awaits `adapter.init()`
  (`spider_browser.rs:259`) before it spawns the task that would route the
  answers to it. Over CDP it always times out; over BiDi it goes on with a
  placeholder context.
- `claim_priority`. `keyword_classifier.rs:52` and `:79` promise the keyword of
  highest priority, also of two that overlap, and `retry_engine.rs:76` writes its
  rules by that. `classify()` returns at the first position where a keyword ends
  (`:128`), with the longest that ends there, whatever its rule (`FirstToEnd`).
- `claim_report`. `agent.rs:193` says that extracted data is accumulated across
  rounds; what a plan extracts replaces what earlier plans did (`:331`).
  Likewise `:189` calls `rounds` the number of rounds executed, and a run that
  ends because it cannot see the page reports the maximum (`:408`).

Noticed while translating, with no run of their own yet:

- `transport.rs:339-361`: the reader leaves on a close frame or an error with the
  writer still holding its half, and clears `connected`. A `connect()` after that
  dials again and overwrites the handles (`:363`): the old connection, as far as
  the network keeps it up, is out of reach of `close()`, and its writer goes on
  taking the messages of the outgoing channel. (`NoOrphanSocket` and
  `OrphanOrigin` name it.)
- `retry_engine.rs:27` describes phase 2 as the last resort, `:408` enters it
  below the maximum stealth level after a timeout or an empty level.
- `retry_engine.rs:555`: a rate limit is repeated once on an extended engine
  too, where transient retries are otherwise off.
- `retry_engine.rs:643`: the error of a failed reconnection is dropped, a 401
  included, against the comment on authentication errors at `:20`.
- `retry_engine.rs:487`: a 503 text from a switch does not mark the backend
  down, only the typed error does; the action's error does both.
- `retry_engine.rs:597`: after a recovery with an alternate engine a failure is
  recorded for the original browser.
- `retry_engine.rs:359`: six disconnections in a row leave the primary loop of
  one level only. `:706`, `:438`: an execution whose budget ends inside a try
  reports the generic message although an error was met.
- `failure_tracker.rs:188`, `:206`: `clear_class()` and `cleanup()` remove by
  key what they collected earlier; a record refreshed meanwhile goes too
  (`RemovesOnlyItsTarget` excludes exactly this). `:89`: a failure after the TTL
  increments the expired count. `:143`: at an age of exactly the TTL the total
  and the count disagree.
- `browser_selector.rs:68`: for a current browser outside the rotation the first
  browser is never considered.
- `cdp_session.rs:251`: a late load event of the previous page ends the next
  navigation. `:207`: the fallback of attach takes any target's session.
- `spider_browser.rs:297`: `close()` keeps the relay's sender, and the routing
  task keeps the session, so neither task ends.
- `python/spider_browser/retry/retry_engine.py`: the documentation keeps the
  extended engines for blocked sites, the code also tries them after two lost
  sockets (`:155`). `was_blocked` is overwritten by the last primary failure, so
  a failed switch after blocks leaves them out; the Go engine does the same
  (`go/retry_engine.go:138`). A level on which every browser was blocked in the
  navigation of the switch, so that no action ran, is taken for "all browser
  backends unavailable" and ends the search with levels and budget left
  (`retry_engine.py:190`, `retry_engine.go:181`). The first attempt runs where
  the client is, although it is counted for the first browser of the rotation,
  which is another one when the client's is outside the primary rotation; in a
  later execution it may run on an adapter a failed switch destroyed.
- The Python transport turns a 401 into a plain connection error, which the
  engine retries, against the promise that authentication errors end it; and its
  rate-limit branch reads `retry_after_s`, which the error class calls
  `retry_after_ms`.
- `ai/agent.rs:396`: a screenshot or a document that cannot be had ends the loop
  and is reported as the rounds being used up. `:252`: between the evaluation of the guardrail and its
  installation as a preload script the document can be replaced, and then has
  none for the rest of the run (`drifted` in `PlansAreGuarded`).
- `page.rs:266`, `:477`: the exit from the challenge loop for documents above
  15000 bytes is never taken, since these are no challenge by definition. `:261`:
  a read that fails is an empty document, which counts as the challenge being
  resolved; `:873`: it counts as a stable length in `wait_for_ready()`. `:295`,
  `:310`: what replaces a short document is not classified again. Together: a
  challenge whose next read fails and which is read again after that is returned
  as content.
- `page.rs:677`: `fill()` on an element that is not there succeeds, and types
  into whatever has the focus. So does one whose click failed (`:678`), and it can
  return successfully with the button down.
- `page.rs:925`: the script that waits for a quiet network is a promise, and
  neither protocol is told to await it (CDP has no `awaitPromise`, BiDi says
  `false`, `bidi_session.rs:195`), so it returns at once.
- `cdp_session.rs:386`: a gesture that fails at one of its commands leaves the
  button pressed. Over BiDi a `performActions` that fails after its press, as a
  drag that leaves the viewport does (`protocol_adapter.rs:303`), leaves it so too
  (`stuck` in `NothingStaysPressed`). `protocol/transport.ts:124` (TypeScript): a metering
  request restores the message handler it saw, or on a timeout none.

## 7. What is left out, and why

Abstracted in the modelled parts: texts and messages (one value per kind a
branch depends on), sleeps and backoff, log output, metering values, the query
string except the browser it pins, the bodies of page helpers (sequences of
commands), and the builder and getters. `progressive_timeout`,
`retry_timeout_ms` and `wait_for_event` have no caller. `RetryEngine` lets
connect, init and navigate end in any way; in the current code `init` after a
switch always fails for the reason of `claim_init`, so the engine is specified
for what it is written to do and no behaviour of the code is lost. `Transport`
has one owner, which is how the client uses it; concurrent `connect()` calls are
outside the model. In `FailureTracker` each pair has its own lock, where the map
has one per shard.

In `ProtocolAdapter` the server of BiDi has one context; the command timeout is
longer than the five seconds of the outer clock, as it is by default; no
operation begins on a session whose context `destroy()` forgot, which the engine
does not do either; the channel closes when a command is put on it, since nobody
sees it before; `auto_detect_and_init()`, which tries one set-up after the
other, is left out: the client never reaches it, because `Transport::new`
replaces the browser `auto` by a concrete one (`transport.rs:86`).

The Python engine also writes a failure tracker, whose records it clears by
domain. The only reader would be its selector, which the engine never asks for a
browser; no step of the client depends on it, so it is not modelled.

In the page modules one call runs at a time, time is the two deadlines, and a
method that is one evaluation of a script is one command.
`set_adapter()` and `set_adapter_arc()` have no caller in the client.

Not modelled: see the component list in `PROJECT.json`. The HTTP calls to
language models, prompts and DOM helpers keep no state.

## 8. Plan

1. The TypeScript retry engine, against `RetryContract`, and the TypeScript
   transport with its wrapped message handler (`protocol/transport.ts:124`).
2. `SpiderBrowser` against `Transport` and `ProtocolAdapter`, by refinement.
3. The event emitter under concurrent `on`, `off` and `emit`.
4. A proof that a `SpiderBrowser` whose chain is a `Transport` keeps what
   `TransportProofs` says of one.
