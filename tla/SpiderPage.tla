------------------------------ MODULE SpiderPage ------------------------------
(***************************************************************************)
(* A page of the Rust client as its user sees it (page.rs): it waits for   *)
(* content (PageContent), acts on the page (PageInput) or lets an agent do *)
(* both (Agent), one call after the other, on a session that speaks one    *)
(* protocol.                                                               *)
(***************************************************************************)
EXTENDS PageContent, Agent

CONSTANT MaxPageCalls   \* bound: calls of the user

ASSUME PageCallsAssumption == MaxPageCalls \in Nat

VARIABLE calls

pageVars == <<contentVars, inputVars, agentVars, calls>>

Init == ContentInit /\ InputInit /\ AgentInit /\ calls = 0

Idle == at = "idle" /\ doing = "none" /\ stage = "idle"

\* What a call keeps to itself ends with it; the document and what is pressed stay.
ForgetContent ==
    /\ op' = "none" /\ min' = 0 /\ wait' = TRUE /\ at' = "idle" /\ ret' = "none"
    /\ html' = Empty /\ n' = 0 /\ over' = FALSE /\ late' = FALSE
    /\ judged' = Empty /\ longest' = 0

ForgetAgent ==
    /\ stage' = "idle" /\ scope' = "browser" /\ persistent' = FALSE
    /\ round' = 0 /\ steps' = 0 /\ extracted' = Nothing
    /\ report' = NoReport /\ events' = <<>> /\ why' = "none" /\ plans' = <<>>
    /\ drifted' = FALSE
    /\ UNCHANGED <<guarded, preload>>

\* One method of the page.
Begin ==
    /\ Idle /\ calls < MaxPageCalls
    /\ calls' = calls + 1
    /\ \/ \E o \in ContentOps \cup WaitOps : BeginContent(o) /\ ForgetAgent /\ UNCHANGED inputVars
       \/ \E o \in InputOps : BeginInput(o) /\ ForgetContent /\ ForgetAgent
       \/ \E s \in {"browser", "page"} : BeginAgent(s) /\ ForgetContent /\ UNCHANGED inputVars

\* The next await of whatever is in progress.
Step ==
    /\ \/ ContentStep /\ UNCHANGED <<inputVars, agentVars>>
       \/ InputStep /\ UNCHANGED <<contentVars, agentVars>>
       \/ AgentStep /\ UNCHANGED contentVars
       \/ \E o \in InputOps : Act(o) /\ UNCHANGED contentVars
    /\ UNCHANGED calls

Clock == (PhaseEnds \/ CallIsLate) /\ UNCHANGED <<inputVars, agentVars, calls>>

Leave == PageLeaves /\ UNCHANGED <<contentVars, calls>>

Next == Begin \/ Step \/ Clock \/ Leave

Spec == Init /\ [][Next]_pageVars

\* Polling ends with its deadline at the latest.
Polling == at \in {"ready", "patient", "stable", "length", "poll"}

\* Every command returns or times out (CdpSession, BidiSession), so does the
\* request to the model, and clocks go on.  The page need not load, settle, grow
\* or resolve its challenge, nor the model ever make a plan.
Fairness ==
    /\ WF_pageVars(Step /\ (Polling => over))
    /\ WF_pageVars(Clock)

FairSpec == Spec /\ Fairness

-----------------------------------------------------------------------------
\* Liveness: every call of a page returns, however the page behaves.
PageReturns == ~Idle ~> Idle

=============================================================================
