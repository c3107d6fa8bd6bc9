---------------------------- MODULE RetryContract ----------------------------
(***************************************************************************)
(* What a caller of the retry engine relies on, without how it searches:   *)
(* a bounded number of calls of the action, stealth that only climbs to    *)
(* the configured maximum, and no move to an engine that is being avoided. *)
(***************************************************************************)
EXTENDS Naturals

CONSTANTS Engines, Budget, MaxStealth

VARIABLES running, calls, stealth, engine, avoided

contractVars == <<running, calls, stealth, engine, avoided>>

Init ==
    /\ running = FALSE
    /\ calls = 0
    /\ stealth \in 0..3
    /\ engine \in Engines
    /\ avoided = {}

Start ==
    /\ ~running
    /\ running' = TRUE /\ calls' = 0 /\ avoided' = {}
    /\ UNCHANGED <<stealth, engine>>

Call ==
    /\ running /\ calls < Budget
    /\ calls' = calls + 1
    /\ UNCHANGED <<running, stealth, engine, avoided>>

Escalate ==
    /\ running /\ stealth < MaxStealth
    /\ stealth' = stealth + 1
    /\ UNCHANGED <<running, calls, engine, avoided>>

Move ==
    /\ running
    /\ engine' \in Engines \ avoided
    /\ UNCHANGED <<running, calls, stealth, avoided>>

Avoid ==
    /\ running
    /\ avoided' \in SUBSET Engines /\ avoided \subseteq avoided'
    /\ UNCHANGED <<running, calls, stealth, engine>>

Stop ==
    /\ running
    /\ running' = FALSE
    /\ UNCHANGED <<calls, stealth, engine, avoided>>

Next == Start \/ Call \/ Escalate \/ Move \/ Avoid \/ Stop

Spec == Init /\ [][Next]_contractVars

=============================================================================
