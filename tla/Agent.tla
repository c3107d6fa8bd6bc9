-------------------------------- MODULE Agent --------------------------------
(***************************************************************************)
(* The autonomous agent of the Rust client (ai/agent.rs): rounds of        *)
(* looking at the page, asking the language model for a plan, and carrying *)
(* it out with execute_action(), which is PageInput.  An agent of one page *)
(* installs a script, the guardrail, that keeps it in its tab.             *)
(*                                                                         *)
(* The page may load another document whenever it likes: the guardrail of  *)
(* the old one is gone with it, unless it is a preload script by then.     *)
(***************************************************************************)
EXTENDS PageInput

CONSTANTS MaxRounds,  \* options.max_rounds
          MaxSteps,   \* bound: steps of a plan
          Findings,   \* what a plan may extract
          Nothing     \* no extraction

ASSUME AgentAssumption ==
    MaxRounds \in Nat /\ MaxSteps \in Nat /\ Nothing \notin Findings

VARIABLES
  stage,       \* where execute() is, or "idle"
  scope,       \* "browser" or "page"
  persistent,  \* guardrail_persistent
  round,       \* rounds begun
  steps,       \* steps of the plan that are left
  extracted,   \* what was extracted last
  report,      \* the AgentResult: [done, rounds, extracted]
  events,      \* agent.done and agent.error events of this run
  \* the document and the history
  guarded,     \* it has the guardrail
  preload,     \* new documents get it
  drifted,     \* its guardrail failed, or it came by itself after the guardrail
               \* and before the plan
  why,         \* how the last round that was begun has ended so far
  plans        \* extractions of the plans so far, in order

documentVars == <<guarded, preload, drifted>>
agentVars == <<stage, scope, persistent, round, steps, extracted, report, events,
               documentVars, why, plans>>

NoReport == [done |-> FALSE, rounds |-> 0, extracted |-> Nothing]

AgentInit ==
    /\ stage = "idle" /\ scope = "browser" /\ persistent = FALSE
    /\ round = 0 /\ steps = 0 /\ extracted = Nothing
    /\ report = NoReport /\ events = <<>>
    /\ guarded = FALSE /\ preload = FALSE /\ drifted = FALSE
    /\ why = "none" /\ plans = <<>>

-----------------------------------------------------------------------------
\* Before the rounds.

BeginAgent(s) ==
    /\ stage = "idle"
    /\ scope' = s /\ persistent' = FALSE
    /\ stage' = IF s = "page" THEN "guard" ELSE "round"
    /\ round' = 0 /\ steps' = 0 /\ extracted' = Nothing
    /\ report' = NoReport /\ events' = <<>>
    /\ drifted' = FALSE /\ why' = "none" /\ plans' = <<>>
    /\ UNCHANGED <<guarded, preload>>

\* The guardrail, evaluated in the document there is; whether it worked is not
\* looked at.
Evaluated(ok) == guarded' = (ok \/ guarded) /\ drifted' = ~ok

Guard(ok) ==
    /\ stage = "guard"
    /\ Evaluated(ok)
    /\ stage' = "install"
    /\ UNCHANGED <<scope, persistent, round, steps, extracted, report, events,
                   preload, why, plans>>

\* Page.addScriptToEvaluateOnNewDocument; over BiDi it is refused.
Install(ok) ==
    /\ stage = "install"
    /\ ok => protocol = "cdp"
    /\ persistent' = ok
    /\ preload' = (ok \/ preload)
    /\ stage' = "round"
    /\ UNCHANGED <<scope, round, steps, extracted, report, events, guarded,
                   drifted, why, plans>>

-----------------------------------------------------------------------------
\* A round.

\* Mutant: the script is taken to be installed.
NeverAgain == FALSE

GuardAgain == scope = "page" /\ ~persistent

GiveUp ==
    /\ stage' = "idle"
    /\ events' = Append(events, "agent.error")
    /\ report' = [done |-> FALSE, rounds |-> MaxRounds, extracted |-> extracted]

BeginRound(ok) ==
    /\ stage = "round"
    /\ IF round = MaxRounds
       THEN GiveUp /\ UNCHANGED <<round, guarded, drifted, why>>
       ELSE /\ round' = round + 1 /\ why' = "begun"
            /\ stage' = "look"
            /\ IF GuardAgain THEN Evaluated(ok) ELSE UNCHANGED <<guarded, drifted>>
            /\ UNCHANGED <<events, report>>
    /\ UNCHANGED <<scope, persistent, steps, extracted, preload, plans>>

\* Screenshot, document, address and title; one of the first two that fails ends
\* the run.
Look(ok) ==
    /\ stage = "look"
    /\ IF ok THEN stage' = "ask" /\ UNCHANGED <<events, report, why>>
             ELSE GiveUp /\ why' = "blind"
    /\ UNCHANGED <<scope, persistent, round, steps, extracted, documentVars, plans>>

\* The model does not answer, or not with a plan: the round is spent.
AskFails ==
    /\ stage = "ask"
    /\ stage' = "round" /\ why' = "no plan"
    /\ UNCHANGED <<scope, persistent, round, steps, extracted, report, events,
                   documentVars, plans>>

\* Mutant: what is extracted is what this plan extracts.
ForgetEarlier(found) == extracted' = found

KeepEarlier(found) == extracted' = IF found = Nothing THEN extracted ELSE found

Plan(found, finished, k) ==
    /\ stage = "ask"
    /\ KeepEarlier(found)
    /\ plans' = Append(plans, found)
    /\ why' = IF finished THEN "done" ELSE "planned"
    /\ IF finished
       THEN /\ stage' = "idle"
            /\ events' = Append(events, "agent.done")
            /\ report' = [done |-> TRUE, rounds |-> round, extracted |-> extracted']
       ELSE /\ stage' = IF k = 0 THEN "round" ELSE "act"
            /\ UNCHANGED <<events, report>>
    /\ steps' = IF finished THEN 0 ELSE k
    /\ UNCHANGED <<scope, persistent, round, documentVars>>

\* execute_action(), step after step; the first that fails ends the round.
Act(o) ==
    /\ stage = "act" /\ steps > 0 /\ doing = "none"
    /\ BeginInput(o)
    /\ stage' = "acting"
    /\ UNCHANGED <<scope, persistent, round, steps, extracted, report, events,
                   documentVars, why, plans>>

Acted ==
    /\ stage = "acting" /\ doing = "none"
    /\ steps' = IF done = "ok" THEN steps - 1 ELSE 0
    /\ stage' = IF steps' = 0 THEN "round" ELSE "act"
    /\ UNCHANGED <<scope, persistent, round, extracted, report, events,
                   documentVars, why, plans, inputVars>>

AgentStep ==
    \/ /\ \/ \E ok \in BOOLEAN : Guard(ok) \/ Install(ok) \/ BeginRound(ok) \/ Look(ok)
          \/ AskFails
          \/ \E found \in Findings \cup {Nothing}, finished \in BOOLEAN, k \in 0..MaxSteps :
                Plan(found, finished, k)
       /\ UNCHANGED inputVars
    \/ Acted

-----------------------------------------------------------------------------
\* The page loads another document.

PageLeaves ==
    /\ stage # "idle"
    /\ guarded' = preload
    /\ drifted' = (~preload /\ (drifted \/ stage \in {"install", "look", "ask"}))
    /\ UNCHANGED <<stage, scope, persistent, round, steps, extracted, report,
                   events, preload, why, plans, inputVars>>

-----------------------------------------------------------------------------
\* Properties.

\* Safety: a plan of a page-scoped agent is made on a document that has the
\* guardrail, however the steps of the plans before it left the page, as long
\* as no guardrail failed and the page did not leave by itself in between.
PlansAreGuarded ==
    stage = "ask" /\ scope = "page" /\ ~drifted => guarded

LastFound == SelectLastInSeq(plans, LAMBDA f : f # Nothing)

\* Safety: one verdict per run, and it says what happened: the task is done if
\* and only if the last round says so; a run that is given up reports all its
\* rounds, and has spent them or could not see the page; and what it extracted is
\* the last thing any plan extracted, also when later plans found nothing or
\* failed.
ReportIsTrue ==
    report # NoReport =>
        /\ stage = "idle" /\ Len(events) = 1
        /\ report.done <=> why = "done" /\ events[1] = "agent.done"
        /\ report.rounds = IF report.done THEN round ELSE MaxRounds
        /\ ~report.done => why = "blind" \/ round = MaxRounds
        /\ report.extracted = IF LastFound = 0 THEN Nothing ELSE plans[LastFound]

\* What the comment of AgentResult says (agent.rs:193): what was extracted is
\* accumulated across rounds.  A later plan that extracts something replaces it.
ExtractionsAccumulate ==
    report # NoReport => \A i \in 1..Len(plans) : plans[i] \in {Nothing, report.extracted}

=============================================================================
