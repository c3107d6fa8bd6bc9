---------------------------- MODULE MCRetryEngine ----------------------------
(***************************************************************************)
(* The Rust retry engine for TLC, with the rotations of                    *)
(* browser_selector.rs, and what the engine owns: its browser selector and *)
(* the classifiers of its errors.  A behaviour is one of these parts, with *)
(* variables and bounds of its own, while the others stand still.          *)
(***************************************************************************)
EXTENDS RetryEngine, BrowserSelector, KeywordClassifier

PrimaryRotation  == <<"chrome-h", "chrome-new">>
ExtendedRotation == <<"firefox", "lightpanda">>

\* Errors the caller's action can end with: one per way the engine reacts.
AnyAction == {"Denied401", "RateLimit", "Blocked", "Unavailable503", "Timeout",
              "Lost", "Other"}

\* Errors the SDK's own connect, init and navigate produce.
AnySwitch == {"Denied401", "Unavailable503", "Timeout", "Lost"}

\* The selector is asked about a browser that is not in its rotation, too.
ThreeBrowsers == <<"chrome-h", "chrome-new", "firefox">>

\* Keywords of at most three letters over two letters, one with a capital, and
\* two of four, in which a failure link has to be followed more than once.
Letters == {"a", "b", "B"}
Lowers == [b \in Letters |-> IF b = "B" THEN "b" ELSE b]
Words == UNION {[1..n -> {"a", "b"}] : n \in 1..3}
         \cup {<<"B", "a">>, <<"a", "a", "b", "a">>, <<"a", "b", "a", "b">>}

VARIABLE part

retryVars == <<vars, selectorVars, classifierVars, part>>

\* The engine stands still in one of its initial states.
RetryInit ==
    /\ part \in {"engine", "selector", "classifier"}
    /\ Init /\ SelectorInit /\ ClassifierInit
    /\ part # "engine" => browser = "firefox" /\ stealth_level = 0 /\ ~current_url

RetryNext ==
    /\ \/ part = "engine" /\ Next /\ UNCHANGED <<selectorVars, classifierVars>>
       \/ part = "selector" /\ SelectorNext /\ UNCHANGED <<vars, classifierVars>>
       \/ part = "classifier" /\ ClassifierNext /\ UNCHANGED <<vars, selectorVars>>
    /\ UNCHANGED part

RetrySpec ==
    RetryInit /\ [][RetryNext]_retryVars /\ WF_vars(Engine \/ Switching \/ Acting)

=============================================================================
