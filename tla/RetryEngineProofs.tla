-------------------------- MODULE RetryEngineProofs --------------------------
(***************************************************************************)
(* Theorems about RetryEngine, for every rotation, budget and stealth      *)
(* range that the options allow, and at the end the one about              *)
(* BrowserSelector, for every rotation and every record of failures.       *)
(***************************************************************************)
EXTENDS RetryEngine, BrowserSelector, SequenceTheorems, WellFoundedInduction, TLAPS

\* Lemma: the rotations consist of browsers, and so do their tails.
LEMMA RotationTypes ==
    /\ Primary \in Seq(Browsers) /\ Extended \in Seq(Browsers)
    /\ Elems(Primary) \subseteq Browsers /\ Elems(Extended) \subseteq Browsers
<1>1. Elems(Primary) \subseteq Browsers /\ Elems(Extended) \subseteq Browsers
  BY DEF Browsers
<1>2. Primary \in Seq(Elems(Primary)) /\ Extended \in Seq(Elems(Extended))
  BY RotationAssumption
<1>3. ASSUME NEW S, NEW T, S \subseteq T, NEW s \in Seq(S) PROVE s \in Seq(T)
  BY <1>3
<1> QED BY <1>1, <1>2, <1>3

\* Lemma: ordering the primary rotation from any browser keeps its elements.
LEMMA OrderedPrimaryType ==
    ASSUME NEW start PROVE  OrderedPrimary(start) \in Seq(Browsers)
<1>1. CASE \E i \in 1..Len(Primary) : Primary[i] = start
  <2> DEFINE i == CHOOSE i \in 1..Len(Primary) : Primary[i] = start
  <2>1. i \in 1..Len(Primary)
    BY <1>1
  <2> HIDE DEF i
  <2>2. \A j \in i..Len(Primary) : Primary[j] \in Browsers
    BY <2>1, RotationTypes
  <2>3. \A j \in 1..(i - 1) : Primary[j] \in Browsers
    BY <2>1, RotationTypes
  <2>4. i \in Int /\ i - 1 \in Int /\ Len(Primary) \in Int
    BY <2>1, RotationTypes
  <2>5. SubSeq(Primary, i, Len(Primary)) \in Seq(Browsers)
    BY <2>2, <2>4, SubSeqProperties
  <2>6. SubSeq(Primary, 1, i - 1) \in Seq(Browsers)
    BY <2>3, <2>4, SubSeqProperties
  <2>7. OrderedPrimary(start) = SubSeq(Primary, i, Len(Primary)) \o SubSeq(Primary, 1, i - 1)
    BY <1>1 DEF OrderedPrimary, i
  <2> QED BY <2>5, <2>6, <2>7, ConcatProperties
<1>2. CASE ~\E i \in 1..Len(Primary) : Primary[i] = start
  BY <1>2, RotationTypes DEF OrderedPrimary
<1> QED BY <1>1, <1>2

\* Lemma: an alternate engine is the current one or a browser that is up.
LEMMA AlternateEngine ==
    ASSUME NEW current \in Browsers, NEW b \in pick_alternate_engine(current)
    PROVE  /\ b \in Browsers
           /\ b = current \/ b \notin down_backends
<1>1. ASSUME NEW rotation \in Seq(Browsers), NEW c \in FirstUsable(rotation, current)
      PROVE  c \in Browsers /\ c \notin down_backends
  BY DEF FirstUsable
<1> QED BY <1>1, RotationTypes DEF pick_alternate_engine

\* Lemma: the head of a queue is a browser, its tail a queue.
LEMMA QueueTypes ==
    ASSUME NEW q \in Seq(Browsers), q # <<>>
    PROVE  Head(q) \in Browsers /\ Tail(q) \in Seq(Browsers)
BY HeadTailProperties

-----------------------------------------------------------------------------
USE DEF NoError

\* Lemma: the classifier returns one of the engine's classes.
LEMMA ClassType == \A e : classify_error(e) \in Classes
BY DEF classify_error, Classes

\* Lemma: the initial state has the types.
LEMMA TypeInit == Init => TypeOK
<1> SUFFICES ASSUME Init PROVE TypeOK
  OBVIOUS
<1>1. browser \in Browsers
  BY DEF Init, Browsers
<1>2. current_stealth_level \in 0..3
  BY OptionsAssumption DEF Init
<1>3. EngineTypeOK
  BY <1>1, <1>2 DEF Init, EngineTypeOK
<1>4. ExecuteTypeOK
  BY <1>1, <1>2, EmptySeq DEF Init, ExecuteTypeOK
<1>5. TryTypeOK
  BY <1>1 DEF Init, TryTypeOK
<1> QED BY <1>3, <1>4, <1>5 DEF TypeOK

\* Lemma: every step preserves the types.
LEMMA TypeStep == TypeOK /\ [Next]_vars => TypeOK'
<1> SUFFICES ASSUME TypeOK, [Next]_vars PROVE TypeOK'
  OBVIOUS
<1> USE DEF TypeOK, EngineTypeOK, ExecuteTypeOK, TryTypeOK, engineVars, contextVars, phaseVars, judgeVars, tryVars,
            resultVars, historyVars
<1>1. CASE Execute
  <2>1. EngineTypeOK'
    BY <1>1 DEF Execute
  <2>2. ExecuteTypeOK'
    BY <1>1 DEF Execute
  <2>3. TryTypeOK'
    BY <1>1 DEF Execute
  <2> QED BY <2>1, <2>2, <2>3
<1>2. CASE LeaveLevels
  BY <1>2, RotationTypes DEF LeaveLevels, EndPhase1, Return, Exhausted
<1>3. CASE EnterLevel
  <2>1. queue' \in Seq(Browsers)
    BY <1>3, RotationTypes, OrderedPrimaryType DEF EnterLevel
  <2>2. Level \in 0..3
    BY <1>3, OptionsAssumption DEF EnterLevel, Level, LastLevel
  <2>3. current_stealth_level' \in 0..3 /\ stealth_level' \in 0..3
    BY <1>3, <2>2 DEF EnterLevel, set_stealth_level
  <2>4. failures' \in [Browsers -> Classes \cup {"none"}]
    BY <1>3 DEF EnterLevel
  <2>5. EngineTypeOK'
    BY <1>3, <2>3, <2>4 DEF EnterLevel
  <2>6. ExecuteTypeOK'
    BY <1>3, <2>1 DEF EnterLevel
  <2>7. TryTypeOK'
    BY <1>3 DEF EnterLevel
  <2> QED BY <2>5, <2>6, <2>7
<1>4. CASE LeavePrimary
  BY <1>4, RotationTypes DEF LeavePrimary, EndPhase1, Return, Exhausted
<1>5. CASE SkipDown
  BY <1>5, QueueTypes DEF SkipDown
<1>6. CASE LeaveExtended
  BY <1>6 DEF LeaveExtended, Return, Exhausted
<1>7. CASE TryPrimary
  BY <1>7, QueueTypes DEF TryPrimary, TryBrowser, BeginSwitch
<1>8. CASE TryExtended
  <2>1. extended_tried' \subseteq Browsers
    BY <1>8, QueueTypes DEF TryExtended, TryBrowser
  <2>2. EngineTypeOK'
    BY <1>8, QueueTypes DEF TryExtended, TryBrowser, BeginSwitch
  <2>3. ExecuteTypeOK'
    BY <1>8, QueueTypes DEF TryExtended, TryBrowser, BeginSwitch
  <2>4. TryTypeOK'
    BY <1>8, <2>1, QueueTypes DEF TryExtended, TryBrowser, BeginSwitch
  <2> QED BY <2>2, <2>3, <2>4
<1>9. CASE Attempt
  <2>1. CASE total_attempts < Budget
    BY <1>9, <2>1 DEF Attempt, ReturnFromTry
  <2>2. CASE ~(total_attempts < Budget)
    BY <1>9, <2>2 DEF Attempt, ReturnFromTry
  <2> QED BY <2>1, <2>2
<1>10. CASE PrimaryFailed
  <2>1. CASE error = NoError
    BY <1>10, <2>1 DEF PrimaryFailed
  <2>2. CASE error # NoError
    <3>1. EngineTypeOK'
      BY <1>10, <2>2 DEF PrimaryFailed
    <3>2. pc' \in {"idle", "primary"} /\ outcome' \in Errors \cup {NoError, "ok", "exhausted"}
      BY <1>10, <2>2 DEF PrimaryFailed, Return
    <3>3. queue' \in Seq(Browsers) /\ last_error' \in Errors \cup {NoError}
      <4>1. queue' = <<>> \/ queue' = queue
        BY <1>10, <2>2 DEF PrimaryFailed
      <4>2. last_error' = last_error \/ last_error' = error
        BY <1>10, <2>2 DEF PrimaryFailed
      <4> QED BY <4>1, <4>2, EmptySeq
    <3>4. /\ was_blocked' \in BOOLEAN /\ had_timeout' \in BOOLEAN
          /\ tried_any' \in BOOLEAN
      <4>1. was_blocked' = (classify_error(error) = "blocked")
        BY <1>10, <2>2 DEF PrimaryFailed
      <4>2. had_timeout' = TRUE \/ had_timeout' = had_timeout
        BY <1>10, <2>2 DEF PrimaryFailed
      <4>3. tried_any' = (tried_any \/ tried_action)
        BY <1>10 DEF PrimaryFailed
      <4> QED BY <4>1, <4>2, <4>3
    <3>5. consecutive_disconnects' \in Nat /\ phase1_timeouts' \in Nat
      BY <1>10, <2>2 DEF PrimaryFailed
    <3>6. UNCHANGED <<total_attempts, phaseVars, tryVars, resultVars,
                      historyVars, return_to>>
      BY <1>10 DEF PrimaryFailed
    <3>7. ExecuteTypeOK'
      BY <3>2, <3>3, <3>4, <3>5, <3>6
    <3>8. TryTypeOK'
      BY <3>6
    <3> QED BY <3>1, <3>7, <3>8
  <2> QED BY <2>1, <2>2
<1>11. CASE ExtendedFailed
  BY <1>11 DEF ExtendedFailed, Return
<1>12. CASE SwitchConnected
  BY <1>12 DEF SwitchConnected
<1>13. CASE SwitchInitialized
  BY <1>13 DEF SwitchInitialized
<1>14. CASE SwitchNavigated
  BY <1>14 DEF SwitchNavigated
<1>15. ASSUME NEW e \in SwitchErrors, SwitchFails(e) PROVE TypeOK'
  <2>1. CASE return_to = "rotate"
    <3>1. EngineTypeOK'
      BY <1>15, <2>1 DEF SwitchFails
    <3>2. ExecuteTypeOK'
      BY <1>15, <2>1 DEF SwitchFails, ReturnFromTry
    <3>3. TryTypeOK'
      BY <1>15, <2>1, OptionsAssumption DEF SwitchFails, ReturnFromTry
    <3> QED BY <3>1, <3>2, <3>3
  <2>2. CASE return_to # "rotate"
    <3>1. EngineTypeOK'
      BY <1>15, <2>2, ClassType DEF SwitchFails, record_failure
    <3>2. ExecuteTypeOK'
      BY <1>15, <2>2 DEF SwitchFails, ReturnFromTry
    <3>3. TryTypeOK'
      BY <1>15, <2>2, OptionsAssumption DEF SwitchFails, ReturnFromTry
    <3> QED BY <3>1, <3>2, <3>3
  <2> QED BY <2>1, <2>2
<1>16. CASE ActionSucceeds
  BY <1>16 DEF ActionSucceeds, record_success, Return
<1>17. ASSUME NEW e \in ActionErrors, ActionFails(e) PROVE TypeOK'
  <2>1. CASE GiveUpBrowser(e)
    BY <1>17, <2>1, OptionsAssumption, ClassType
       DEF ActionFails, GiveUpBrowser, ReturnFromTry, record_failure
  <2>2. CASE GiveUpUnrecorded(e, {}) \/ GiveUpUnrecorded(e, {name})
    <3>1. EngineTypeOK'
      BY <2>2 DEF GiveUpUnrecorded
    <3>2. ExecuteTypeOK'
      BY <1>17, <2>2 DEF ActionFails, GiveUpUnrecorded, ReturnFromTry
    <3>3. TryTypeOK'
      BY <1>17, <2>2, OptionsAssumption
         DEF ActionFails, GiveUpUnrecorded, ReturnFromTry
    <3> QED BY <3>1, <3>2, <3>3
  <2>3. CASE RetrySame
    BY <1>17, <2>3 DEF ActionFails, RetrySame
  <2>4. CASE Recover(e)
    <3>1. EngineTypeOK'
      BY <2>4, AlternateEngine DEF Recover, BeginSwitch
    <3>2. ExecuteTypeOK'
      BY <1>17, <2>4 DEF ActionFails, Recover, BeginSwitch
    <3>3. TryTypeOK'
      BY <1>17, <2>4, OptionsAssumption DEF ActionFails, Recover, BeginSwitch
    <3> QED BY <3>1, <3>2, <3>3
  <2> QED BY <1>17, <2>1, <2>2, <2>3, <2>4 DEF ActionFails, AfterFailure
<1>18. CASE UNCHANGED vars
  BY <1>18 DEF vars
<1> QED BY <1>1, <1>2, <1>3, <1>4, <1>5, <1>6, <1>7, <1>8, <1>9, <1>10, <1>11,
           <1>12, <1>13, <1>14, <1>15, <1>16, <1>17, <1>18
        DEF Next, Engine, Switching, Acting

\* Theorem: the engine's variables keep their types in every execution.
THEOREM TypeCorrect == Spec => []TypeOK
<1> QED BY TypeInit, TypeStep, PTL DEF Spec

-----------------------------------------------------------------------------
\* Lemma: the numbers of the budget are numbers.
LEMMA BudgetTypes ==
    ASSUME TypeOK
    PROVE  /\ total_attempts \in Nat /\ try_start \in Nat
           /\ transient_retries \in Nat /\ disconnect_retries \in Nat
           /\ Budget \in Nat /\ Budget >= 1
           /\ allow_transient_retries \in BOOLEAN
BY OptionsAssumption DEF TypeOK, ExecuteTypeOK, TryTypeOK, Budget

\* Lemma: the five ways try_browser() goes on after a failed attempt.
LEMMA FailureCases ==
    ASSUME NEW e, AfterFailure(e)
    PROVE  \/ GiveUpBrowser(e)
           \/ \E down \in {{}, {name}} : GiveUpUnrecorded(e, down)
           \/ /\ RetrySame
              /\ \/ transient_retries + 1 < 2
                 \/ transient_retries < MaxTransientRetries
           \/ Recover(e) /\ disconnect_retries < MaxDisconnectRetries
BY DEF AfterFailure

\* Lemma: every step keeps the loop over the stealth levels in step.
LEMMA StealthStep ==
    TypeOK /\ StealthInv /\ [Next]_vars => StealthInv'
<1> SUFFICES ASSUME TypeOK, StealthInv,
                    [Next]_vars
             PROVE  StealthInv'
  OBVIOUS
<1> USE DEF StealthInv, Contacting, InTry, Level, LastLevel,
            engineVars, contextVars, phaseVars, judgeVars, tryVars,
            resultVars, historyVars
<1>1. CASE Execute
  BY <1>1 DEF Execute
<1>2. CASE LeaveLevels
  BY <1>2 DEF LeaveLevels, EndPhase1, Return
<1>3. CASE EnterLevel
  <2>1. start_level \in 0..3 /\ si \in Nat /\ MaxStealth \in 1..3
    BY OptionsAssumption DEF TypeOK, ExecuteTypeOK
  <2>2. Level <= LastLevel /\ Level \in 0..3
    BY <1>3, <2>1 DEF EnterLevel
  <2>3. CASE si = 0
    BY <1>3, <2>1, <2>2, <2>3 DEF EnterLevel
  <2>4. CASE si # 0
    BY <1>3, <2>1, <2>2, <2>4 DEF EnterLevel, set_stealth_level
  <2> QED BY <2>3, <2>4
<1>4. CASE LeavePrimary
  <2>1. start_level \in 0..3 /\ si \in Nat
    BY DEF TypeOK, ExecuteTypeOK
  <2>2. CASE tried_any
    BY <1>4, <2>1, <2>2 DEF LeavePrimary
  <2>3. CASE ~tried_any
    BY <1>4, <2>1, <2>3 DEF LeavePrimary, EndPhase1, Return
  <2> QED BY <2>2, <2>3
<1>5. CASE SkipDown
  BY <1>5 DEF SkipDown
<1>6. CASE LeaveExtended
  BY <1>6 DEF LeaveExtended, Return
<1>7. CASE TryPrimary
  BY <1>7 DEF TryPrimary, TryBrowser, BeginSwitch
<1>8. CASE TryExtended
  BY <1>8 DEF TryExtended, TryBrowser, BeginSwitch
<1>9. CASE Attempt
  BY <1>9 DEF Attempt, ReturnFromTry
<1>10. CASE PrimaryFailed
  BY <1>10 DEF PrimaryFailed, Return
<1>11. CASE ExtendedFailed
  BY <1>11 DEF ExtendedFailed, Return
<1>12. CASE SwitchConnected
  BY <1>12 DEF SwitchConnected
<1>13. CASE SwitchInitialized
  BY <1>13 DEF SwitchInitialized
<1>14. CASE SwitchNavigated
  BY <1>14 DEF SwitchNavigated
<1>15. ASSUME NEW e \in SwitchErrors, SwitchFails(e) PROVE StealthInv'
  BY <1>15 DEF SwitchFails, ReturnFromTry
<1>16. CASE ActionSucceeds
  BY <1>16 DEF ActionSucceeds, Return
<1>17. ASSUME NEW e \in ActionErrors, ActionFails(e) PROVE StealthInv'
  BY <1>17 DEF ActionFails, AfterFailure, RetrySame, Recover, BeginSwitch,
         GiveUpBrowser, GiveUpUnrecorded, ReturnFromTry
<1>18. CASE UNCHANGED vars
  BY <1>18 DEF vars
<1> QED BY <1>1, <1>2, <1>3, <1>4, <1>5, <1>6, <1>7, <1>8, <1>9,
           <1>10, <1>11, <1>12, <1>13, <1>14, <1>15, <1>16, <1>17, <1>18
        DEF Next, Engine, Switching, Acting

\* Lemma: every attempt is paid by a retry counter.
LEMMA BudgetStep ==
    TypeOK /\ BudgetInv /\ [Next]_vars => BudgetInv'
<1> SUFFICES ASSUME TypeOK, BudgetInv,
                    [Next]_vars
             PROVE  BudgetInv'
  OBVIOUS
<1> USE DEF BudgetInv, AttemptsBounded, Contacting, InTry,
            engineVars, contextVars, phaseVars, judgeVars, tryVars,
            resultVars, historyVars
<1>1. CASE Execute
  BY <1>1, BudgetTypes DEF Execute
<1>2. CASE LeaveLevels
  BY <1>2 DEF LeaveLevels, EndPhase1, Return
<1>3. CASE EnterLevel
  BY <1>3 DEF EnterLevel, set_stealth_level
<1>4. CASE LeavePrimary
  BY <1>4 DEF LeavePrimary, EndPhase1, Return
<1>5. CASE SkipDown
  BY <1>5 DEF SkipDown
<1>6. CASE LeaveExtended
  BY <1>6 DEF LeaveExtended, Return
<1>7. CASE TryPrimary
  <2>1. CASE total_attempts > 0
    BY <1>7, <2>1, BudgetTypes DEF TryPrimary, TryBrowser, BeginSwitch
  <2>2. CASE ~(total_attempts > 0)
    BY <1>7, <2>2, BudgetTypes DEF TryPrimary, TryBrowser
  <2> QED BY <2>1, <2>2
<1>8. CASE TryExtended
  <2>1. CASE total_attempts > 0
    BY <1>8, <2>1, BudgetTypes DEF TryExtended, TryBrowser, BeginSwitch
  <2>2. CASE ~(total_attempts > 0)
    BY <1>8, <2>2, BudgetTypes DEF TryExtended, TryBrowser
  <2> QED BY <2>1, <2>2
<1>9. CASE Attempt
  <2>1. CASE total_attempts < Budget
    BY <1>9, <2>1, BudgetTypes DEF Attempt
  <2>2. CASE ~(total_attempts < Budget)
    BY <1>9, <2>2, BudgetTypes DEF Attempt, ReturnFromTry
  <2> QED BY <2>1, <2>2
<1>10. CASE PrimaryFailed
  BY <1>10 DEF PrimaryFailed, Return
<1>11. CASE ExtendedFailed
  BY <1>11 DEF ExtendedFailed, Return
<1>12. CASE SwitchConnected
  BY <1>12 DEF SwitchConnected
<1>13. CASE SwitchInitialized
  BY <1>13 DEF SwitchInitialized
<1>14. CASE SwitchNavigated
  BY <1>14 DEF SwitchNavigated
<1>15. ASSUME NEW e \in SwitchErrors, SwitchFails(e) PROVE BudgetInv'
  BY <1>15 DEF SwitchFails, ReturnFromTry
<1>16. CASE ActionSucceeds
  BY <1>16 DEF ActionSucceeds, Return
<1>17. ASSUME NEW e \in ActionErrors, ActionFails(e) PROVE BudgetInv'
  <2>1. CASE GiveUpBrowser(e)
    BY <1>17, <2>1, BudgetTypes DEF ActionFails, GiveUpBrowser, ReturnFromTry
  <2>2. CASE \E down \in {{}, {name}} : GiveUpUnrecorded(e, down)
    BY <1>17, <2>2, BudgetTypes DEF ActionFails, GiveUpUnrecorded, ReturnFromTry
  <2>3. CASE /\ RetrySame
             /\ \/ transient_retries + 1 < 2
                \/ transient_retries < MaxTransientRetries
    BY <1>17, <2>3, BudgetTypes DEF ActionFails, RetrySame, MaxTransientRetries
  <2>4. CASE Recover(e) /\ disconnect_retries < MaxDisconnectRetries
    BY <1>17, <2>4, BudgetTypes DEF ActionFails, Recover, BeginSwitch, MaxDisconnectRetries
  <2> QED BY <1>17, <2>1, <2>2, <2>3, <2>4, FailureCases DEF ActionFails
<1>18. CASE UNCHANGED vars
  BY <1>18 DEF vars
<1> QED BY <1>1, <1>2, <1>3, <1>4, <1>5, <1>6, <1>7, <1>8, <1>9,
           <1>10, <1>11, <1>12, <1>13, <1>14, <1>15, <1>16, <1>17, <1>18
        DEF Next, Engine, Switching, Acting

\* Lemma: no step contacts a browser that is marked down.
LEMMA DownStep ==
    TypeOK /\ DownInv /\ [Next]_vars => DownInv'
<1> SUFFICES ASSUME TypeOK, DownInv,
                    [Next]_vars
             PROVE  DownInv'
  OBVIOUS
<1> USE DEF DownInv, Contacting,
            engineVars, contextVars, phaseVars, judgeVars, tryVars,
            resultVars, historyVars
<1>1. CASE Execute
  BY <1>1 DEF Execute
<1>2. CASE LeaveLevels
  BY <1>2 DEF LeaveLevels, EndPhase1, Return
<1>3. CASE EnterLevel
  BY <1>3 DEF EnterLevel, set_stealth_level
<1>4. CASE LeavePrimary
  BY <1>4 DEF LeavePrimary, EndPhase1, Return
<1>5. CASE SkipDown
  BY <1>5 DEF SkipDown
<1>6. CASE LeaveExtended
  BY <1>6 DEF LeaveExtended, Return
<1>7. CASE TryPrimary
  <2>1. CASE total_attempts > 0
    BY <1>7, <2>1 DEF TryPrimary, TryBrowser, IsDown, BeginSwitch
  <2>2. CASE ~(total_attempts > 0)
    BY <1>7, <2>2 DEF TryPrimary, TryBrowser, IsDown
  <2> QED BY <2>1, <2>2
<1>8. CASE TryExtended
  <2>1. CASE total_attempts > 0
    BY <1>8, <2>1 DEF TryExtended, TryBrowser, IsDown, BeginSwitch
  <2>2. CASE ~(total_attempts > 0)
    BY <1>8, <2>2 DEF TryExtended, TryBrowser, IsDown
  <2> QED BY <2>1, <2>2
<1>9. CASE Attempt
  BY <1>9 DEF Attempt, ReturnFromTry
<1>10. CASE PrimaryFailed
  BY <1>10 DEF PrimaryFailed, Return
<1>11. CASE ExtendedFailed
  BY <1>11 DEF ExtendedFailed, Return
<1>12. CASE SwitchConnected
  BY <1>12 DEF SwitchConnected
<1>13. CASE SwitchInitialized
  BY <1>13 DEF SwitchInitialized
<1>14. CASE SwitchNavigated
  BY <1>14 DEF SwitchNavigated
<1>15. ASSUME NEW e \in SwitchErrors, SwitchFails(e) PROVE DownInv'
  BY <1>15 DEF SwitchFails, ReturnFromTry
<1>16. CASE ActionSucceeds
  BY <1>16 DEF ActionSucceeds, Return
<1>17. ASSUME NEW e \in ActionErrors, ActionFails(e) PROVE DownInv'
  <2>0. name \in Browsers
    BY DEF TypeOK, TryTypeOK
  <2>1. CASE GiveUpBrowser(e)
    BY <1>17, <2>1 DEF ActionFails, GiveUpBrowser, ReturnFromTry
  <2>2. CASE \E down \in {{}, {name}} : GiveUpUnrecorded(e, down)
    BY <1>17, <2>2 DEF ActionFails, GiveUpUnrecorded, ReturnFromTry
  <2>3. CASE /\ RetrySame
             /\ \/ transient_retries + 1 < 2
                \/ transient_retries < MaxTransientRetries
    BY <1>17, <2>3 DEF ActionFails, RetrySame, MaxTransientRetries
  <2>4. CASE Recover(e) /\ disconnect_retries < MaxDisconnectRetries
    BY <1>17, <2>4, <2>0, AlternateEngine DEF ActionFails, Recover, BeginSwitch, MaxDisconnectRetries
  <2> QED BY <1>17, <2>1, <2>2, <2>3, <2>4, FailureCases DEF ActionFails
<1>18. CASE UNCHANGED vars
  BY <1>18 DEF vars
<1> QED BY <1>1, <1>2, <1>3, <1>4, <1>5, <1>6, <1>7, <1>8, <1>9,
           <1>10, <1>11, <1>12, <1>13, <1>14, <1>15, <1>16, <1>17, <1>18
        DEF Next, Engine, Switching, Acting

\* Lemma: attempts keep running on a live adapter.
LEMMA AdapterStep ==
    TypeOK /\ BudgetInv /\ AdapterInv /\ [Next]_vars => AdapterInv'
<1> SUFFICES ASSUME TypeOK, BudgetInv, AdapterInv,
                    [Next]_vars
             PROVE  AdapterInv'
  OBVIOUS
<1> USE DEF AdapterInv,
            engineVars, contextVars, phaseVars, judgeVars, tryVars,
            resultVars, historyVars
<1>1. CASE Execute
  <2>1. executions \in Nat
    BY DEF TypeOK, TryTypeOK
  <2> QED BY <1>1, <2>1 DEF Execute
<1>2. CASE LeaveLevels
  BY <1>2 DEF LeaveLevels, EndPhase1, Return
<1>3. CASE EnterLevel
  BY <1>3 DEF EnterLevel, set_stealth_level
<1>4. CASE LeavePrimary
  BY <1>4 DEF LeavePrimary, EndPhase1, Return
<1>5. CASE SkipDown
  BY <1>5 DEF SkipDown
<1>6. CASE LeaveExtended
  BY <1>6 DEF LeaveExtended, Return
<1>7. CASE TryPrimary
  <2>0. executions \in Nat
    BY DEF TypeOK, TryTypeOK
  <2>1. CASE total_attempts > 0
    BY <1>7, <2>1, BudgetTypes, <2>0 DEF TryPrimary, TryBrowser, BeginSwitch
  <2>2. CASE ~(total_attempts > 0)
    BY <1>7, <2>2, BudgetTypes, <2>0 DEF TryPrimary, TryBrowser
  <2> QED BY <2>1, <2>2
<1>8. CASE TryExtended
  <2>0. executions \in Nat
    BY DEF TypeOK, TryTypeOK
  <2>1. CASE total_attempts > 0
    BY <1>8, <2>1, BudgetTypes, <2>0 DEF TryExtended, TryBrowser, BeginSwitch
  <2>2. CASE ~(total_attempts > 0)
    BY <1>8, <2>2, BudgetTypes, <2>0 DEF TryExtended, TryBrowser
  <2> QED BY <2>1, <2>2
<1>9. CASE Attempt
  <2>1. CASE total_attempts < Budget
    BY <1>9, <2>1, BudgetTypes DEF Attempt
  <2>2. CASE ~(total_attempts < Budget)
    BY <1>9, <2>2, BudgetTypes DEF Attempt, ReturnFromTry
  <2> QED BY <2>1, <2>2
<1>10. CASE PrimaryFailed
  BY <1>10 DEF PrimaryFailed, Return
<1>11. CASE ExtendedFailed
  BY <1>11 DEF ExtendedFailed, Return
<1>12. CASE SwitchConnected
  BY <1>12 DEF SwitchConnected
<1>13. CASE SwitchInitialized
  BY <1>13 DEF SwitchInitialized
<1>14. CASE SwitchNavigated
  BY <1>14 DEF SwitchNavigated
<1>15. ASSUME NEW e \in SwitchErrors, SwitchFails(e) PROVE AdapterInv'
  BY <1>15 DEF SwitchFails, ReturnFromTry
<1>16. CASE ActionSucceeds
  BY <1>16 DEF ActionSucceeds, Return
<1>17. ASSUME NEW e \in ActionErrors, ActionFails(e) PROVE AdapterInv'
  <2>0. total_attempts > 0
    BY <1>17, BudgetTypes DEF ActionFails, BudgetInv
  <2>1. CASE GiveUpBrowser(e)
    BY <1>17, <2>1 DEF ActionFails, GiveUpBrowser, ReturnFromTry
  <2>2. CASE \E down \in {{}, {name}} : GiveUpUnrecorded(e, down)
    BY <1>17, <2>2 DEF ActionFails, GiveUpUnrecorded, ReturnFromTry
  <2>3. CASE /\ RetrySame
             /\ \/ transient_retries + 1 < 2
                \/ transient_retries < MaxTransientRetries
    BY <1>17, <2>3 DEF ActionFails, RetrySame, MaxTransientRetries
  <2>4. CASE Recover(e) /\ disconnect_retries < MaxDisconnectRetries
    BY <1>17, <2>4, <2>0 DEF ActionFails, Recover, BeginSwitch, MaxDisconnectRetries
  <2> QED BY <1>17, <2>1, <2>2, <2>3, <2>4, FailureCases DEF ActionFails
<1>18. CASE UNCHANGED vars
  BY <1>18 DEF vars
<1> QED BY <1>1, <1>2, <1>3, <1>4, <1>5, <1>6, <1>7, <1>8, <1>9,
           <1>10, <1>11, <1>12, <1>13, <1>14, <1>15, <1>16, <1>17, <1>18
        DEF Next, Engine, Switching, Acting

\* Lemma: a timeout keeps the primary rotation empty.
LEMMA TimeoutStep ==
    TypeOK /\ TimeoutInv /\ [Next]_vars => TimeoutInv'
<1> SUFFICES ASSUME TypeOK, TimeoutInv,
                    [Next]_vars
             PROVE  TimeoutInv'
  OBVIOUS
<1> USE DEF TimeoutInv, Contacting, InTry,
            engineVars, contextVars, phaseVars, judgeVars, tryVars,
            resultVars, historyVars
<1>1. CASE Execute
  BY <1>1 DEF Execute
<1>2. CASE LeaveLevels
  BY <1>2 DEF LeaveLevels, EndPhase1, Return
<1>3. CASE EnterLevel
  <2>1. ~(phase1_timeouts >= 1)
    BY <1>3 DEF EnterLevel, TypeOK, ExecuteTypeOK
  <2>2. phase1_timeouts' = phase1_timeouts
    BY <1>3 DEF EnterLevel
  <2> QED BY <2>1, <2>2
<1>4. CASE LeavePrimary
  BY <1>4 DEF LeavePrimary, EndPhase1, Return
<1>5. CASE SkipDown
  BY <1>5 DEF SkipDown
<1>6. CASE LeaveExtended
  BY <1>6 DEF LeaveExtended, Return
<1>7. CASE TryPrimary
  BY <1>7 DEF TryPrimary, TryBrowser, BeginSwitch
<1>8. CASE TryExtended
  BY <1>8 DEF TryExtended, TryBrowser, BeginSwitch
<1>9. CASE Attempt
  BY <1>9 DEF Attempt, ReturnFromTry
<1>10. CASE PrimaryFailed
  <2>1. ~(phase1_timeouts >= 1)
    BY <1>10 DEF PrimaryFailed
  <2>2. pc' \in {"primary", "idle"}
    BY <1>10 DEF PrimaryFailed, Return
  <2>3. error = "Timeout" => queue' = <<>>
    BY <1>10 DEF PrimaryFailed, LeavesRotation
  <2>4. error # "Timeout" => phase1_timeouts' = phase1_timeouts
    BY <1>10 DEF PrimaryFailed
  <2> QED BY <2>1, <2>2, <2>3, <2>4
<1>11. CASE ExtendedFailed
  BY <1>11 DEF ExtendedFailed, Return
<1>12. CASE SwitchConnected
  BY <1>12 DEF SwitchConnected
<1>13. CASE SwitchInitialized
  BY <1>13 DEF SwitchInitialized
<1>14. CASE SwitchNavigated
  BY <1>14 DEF SwitchNavigated
<1>15. ASSUME NEW e \in SwitchErrors, SwitchFails(e) PROVE TimeoutInv'
  BY <1>15 DEF SwitchFails, ReturnFromTry
<1>16. CASE ActionSucceeds
  BY <1>16 DEF ActionSucceeds, Return
<1>17. ASSUME NEW e \in ActionErrors, ActionFails(e) PROVE TimeoutInv'
  BY <1>17 DEF ActionFails, AfterFailure, RetrySame, Recover, BeginSwitch,
         GiveUpBrowser, GiveUpUnrecorded, ReturnFromTry
<1>18. CASE UNCHANGED vars
  BY <1>18 DEF vars
<1> QED BY <1>1, <1>2, <1>3, <1>4, <1>5, <1>6, <1>7, <1>8, <1>9,
           <1>10, <1>11, <1>12, <1>13, <1>14, <1>15, <1>16, <1>17, <1>18
        DEF Next, Engine, Switching, Acting

-----------------------------------------------------------------------------
\* Lemma: the engine starts in the invariant.
LEMMA IInvInit == Init => IInv
<1> SUFFICES ASSUME Init PROVE IInv
  OBVIOUS
<1>1. TypeOK
  BY TypeInit
<1>2. StealthInv
  BY DEF Init, StealthInv, InTry, Contacting
<1>3. BudgetInv
  BY OptionsAssumption
     DEF Init, BudgetInv, AttemptsBounded, Budget, InTry, Contacting
<1>4. DownInv
  BY DEF Init, DownInv, Contacting
<1>5. AdapterInv
  BY DEF Init, AdapterInv
<1>6. TimeoutInv
  BY DEF Init, TimeoutInv
<1> QED BY <1>1, <1>2, <1>3, <1>4, <1>5, <1>6 DEF IInv

\* Lemma: every step keeps the invariant.
LEMMA IInvStep == IInv /\ [Next]_vars => IInv'
BY TypeStep, StealthStep, BudgetStep, DownStep, AdapterStep, TimeoutStep
   DEF IInv

\* Theorem: the inductive invariant holds throughout, for any rotations, any
\* budget, any mix of errors and any number of consecutive executions.
THEOREM EngineInvariant == Spec => []IInv
<1> QED BY IInvInit, IInvStep, PTL DEF Spec

\* Theorem: one try never makes more than five attempts (two in phase 2), and
\* an execution never more than max_retries + 1.
THEOREM BoundedAttempts == Spec => []AttemptsBounded
<1>1. IInv => AttemptsBounded
  BY DEF IInv, BudgetInv
<1> QED BY <1>1, EngineInvariant, PTL

\* Theorem: no switch targets a backend the execution has marked down.
THEOREM DownAvoided == Spec => []NeverSwitchesToDown
<1>1. IInv => NeverSwitchesToDown
  BY DEF IInv, DownInv, NeverSwitchesToDown, Contacting
<1> QED BY <1>1, EngineInvariant, PTL

\* Theorem: the action runs on an adapter initialised after the last destroy.
THEOREM LiveAdapter == Spec => []AttemptsOnLiveAdapter
<1>1. IInv => AttemptsOnLiveAdapter
  BY DEF IInv, AdapterInv, AttemptsOnLiveAdapter
<1> QED BY <1>1, EngineInvariant, PTL

\* Theorem: after a timeout phase 1 contacts no further primary browser.
THEOREM TimeoutEndsPhase1 == Spec => []TimeoutLeavesPrimary
<1>1. IInv => TimeoutLeavesPrimary
  BY DEF IInv, TimeoutInv, TimeoutLeavesPrimary, InTry, Contacting
<1> QED BY <1>1, EngineInvariant, PTL

-----------------------------------------------------------------------------
\* Lemma: entering a level keeps the stealth or raises it by one, never above
\* the configured maximum.
LEMMA EscalatesByOne ==
    ASSUME IInv, EnterLevel
    PROVE  \/ UNCHANGED <<current_stealth_level, stealth_level>>
           \/ /\ stealth_level < MaxStealth
              /\ stealth_level' = stealth_level + 1
              /\ current_stealth_level' = current_stealth_level + 1
              /\ stealth_level' = current_stealth_level'
<1>1. /\ start_level \in 0..3 /\ si \in Nat /\ MaxStealth \in 1..3
      /\ stealth_level \in 0..3
  BY OptionsAssumption DEF IInv, TypeOK, ExecuteTypeOK, EngineTypeOK
<1>2. CASE si = 0
  BY <1>2 DEF EnterLevel
<1>3. CASE si # 0
  <2>1. stealth_level = current_stealth_level /\ current_stealth_level = Level - 1
    BY <1>3 DEF IInv, StealthInv, EnterLevel
  <2>2. Level <= LastLevel
    BY DEF EnterLevel
  <2>3. Level <= MaxStealth
    BY <1>1, <1>3, <2>2 DEF Level, LastLevel
  <2>4. current_stealth_level' = Level /\ set_stealth_level(Level)
    BY <1>3 DEF EnterLevel
  <2> QED BY <1>1, <2>1, <2>3, <2>4 DEF Level, set_stealth_level
<1> QED BY <1>2, <1>3

\* Theorem: stealth never goes down, never skips a level, and the transport
\* always has the engine's level.
THEOREM StealthOnlyClimbs == Spec => StealthClimbs
<1> DEFINE Climbs ==
      /\ current_stealth_level' \in {current_stealth_level, current_stealth_level + 1}
      /\ stealth_level' = current_stealth_level'
<1>1. ASSUME IInv, UNCHANGED <<current_stealth_level, stealth_level>> PROVE Climbs
  BY <1>1 DEF IInv, StealthInv
<1>2. ASSUME IInv, EnterLevel PROVE Climbs
  BY <1>1, <1>2, EscalatesByOne
<1>3. ASSUME Next PROVE EnterLevel \/ UNCHANGED <<current_stealth_level, stealth_level>>
  <2> USE DEF engineVars, contextVars
  <2>1. Execute \/ LeaveLevels \/ LeavePrimary \/ SkipDown \/ LeaveExtended
        => UNCHANGED <<current_stealth_level, stealth_level>>
    BY DEF Execute, LeaveLevels, LeavePrimary, SkipDown, LeaveExtended
  <2>2. TryPrimary \/ TryExtended \/ Attempt \/ PrimaryFailed \/ ExtendedFailed
        => UNCHANGED <<current_stealth_level, stealth_level>>
    BY DEF TryPrimary, TryExtended, TryBrowser, BeginSwitch, Attempt,
           PrimaryFailed, ExtendedFailed
  <2>3. Switching => UNCHANGED <<current_stealth_level, stealth_level>>
    BY DEF Switching, SwitchConnected, SwitchInitialized, SwitchNavigated,
           SwitchFails
  <2>4. Acting => UNCHANGED <<current_stealth_level, stealth_level>>
    BY FailureCases DEF Acting, ActionSucceeds, ActionFails, GiveUpBrowser,
           GiveUpUnrecorded, RetrySame, Recover, BeginSwitch
  <2> QED BY <1>3, <2>1, <2>2, <2>3, <2>4 DEF Next, Engine
<1>4. IInv /\ [Next]_vars
      => [Climbs]_vars
  BY <1>2, <1>3, <1>1
<1> QED BY <1>4, EngineInvariant, PTL DEF Spec, StealthClimbs

\* Lemma: every step of the engine is a step of the contract, or changes
\* nothing the contract speaks of.
LEMMA ContractStep ==
    IInv /\ [Next]_vars => [Contract!Next]_(Contract!contractVars)
<1> SUFFICES ASSUME IInv, [Next]_vars
             PROVE  [Contract!Next]_(Contract!contractVars)
  OBVIOUS
<1> DEFINE Still == UNCHANGED <<total_attempts, stealth_level, browser, down_backends>>
<1> USE DEF engineVars, contextVars, phaseVars, judgeVars, tryVars, resultVars,
            historyVars
<1>0. queue \in Seq(Browsers) /\ name \in Browsers /\ down_backends \subseteq Browsers
  BY DEF IInv, TypeOK, EngineTypeOK, ExecuteTypeOK, TryTypeOK
<1>a. ASSUME Still, (pc = "idle") = (pc' = "idle")
      PROVE  UNCHANGED Contract!contractVars
  BY <1>a DEF Contract!contractVars
<1>b. ASSUME Still, pc # "idle", pc' = "idle"
      PROVE  Contract!Stop
  BY <1>b DEF Contract!Stop
<1>c. ASSUME Still, pc # "idle"
      PROVE  [Contract!Next]_(Contract!contractVars)
  <2>1. CASE pc' = "idle"
    BY <1>b, <1>c, <2>1 DEF Contract!Next
  <2>2. CASE pc' # "idle"
    BY <1>a, <1>c, <2>2
  <2> QED BY <2>1, <2>2
<1>d. ASSUME NEW b \in Browsers \ down_backends, NEW why, BeginSwitch(b, why),
             pc # "idle", UNCHANGED <<total_attempts, down_backends>>
      PROVE  Contract!Move
  BY <1>d DEF BeginSwitch, Contract!Move
<1>1. CASE Execute
  BY <1>1 DEF Execute, Contract!Next, Contract!Start
<1>2. CASE LeaveLevels
  BY <1>2, <1>c DEF LeaveLevels
<1>3. CASE EnterLevel
  <2>1. CASE UNCHANGED <<current_stealth_level, stealth_level>>
    BY <1>3, <2>1, <1>c DEF EnterLevel
  <2>2. CASE stealth_level < MaxStealth /\ stealth_level' = stealth_level + 1
    BY <1>3, <2>2 DEF EnterLevel, Contract!Next, Contract!Escalate
  <2> QED BY <1>3, <2>1, <2>2, EscalatesByOne
<1>4. CASE LeavePrimary
  BY <1>4, <1>c DEF LeavePrimary
<1>5. CASE SkipDown
  BY <1>5, <1>c DEF SkipDown
<1>6. CASE LeaveExtended
  BY <1>6, <1>c DEF LeaveExtended
<1>7. ASSUME NEW retries, TryBrowser(retries), pc # "idle"
      PROVE  [Contract!Next]_(Contract!contractVars)
  <2>1. CASE total_attempts > 0
    <3>1. Head(queue) \in Browsers \ down_backends
      BY <1>0, <1>7, HeadTailProperties DEF TryBrowser, IsDown
    <3>2. BeginSwitch(Head(queue), "rotate")
      BY <1>7, <2>1 DEF TryBrowser
    <3>3. UNCHANGED <<total_attempts, down_backends>>
      BY <1>7 DEF TryBrowser
    <3> QED BY <1>7, <3>1, <3>2, <3>3, <1>d DEF Contract!Next
  <2>2. CASE ~(total_attempts > 0)
    BY <1>7, <2>2, <1>c DEF TryBrowser
  <2> QED BY <2>1, <2>2
<1>8. CASE TryPrimary \/ TryExtended
  BY <1>8, <1>7 DEF TryPrimary, TryExtended
<1>9. CASE Attempt
  <2>1. CASE total_attempts < Budget
    BY <1>9, <2>1 DEF Attempt, Contract!Next, Contract!Call
  <2>2. CASE ~(total_attempts < Budget)
    BY <1>9, <2>2, <1>c DEF Attempt
  <2> QED BY <2>1, <2>2
<1>10. CASE PrimaryFailed
  BY <1>10, <1>c DEF PrimaryFailed
<1>11. CASE ExtendedFailed
  BY <1>11, <1>c DEF ExtendedFailed
<1>12. CASE SwitchConnected
  BY <1>12, <1>c DEF SwitchConnected
<1>13. CASE SwitchInitialized
  BY <1>13, <1>c DEF SwitchInitialized
<1>14. CASE SwitchNavigated
  BY <1>14, <1>c DEF SwitchNavigated
<1>15. ASSUME NEW down \in SUBSET Browsers, down_backends' = down_backends \cup down,
              pc # "idle", pc' # "idle",
              UNCHANGED <<total_attempts, stealth_level, browser>>
       PROVE  Contract!Avoid
  BY <1>0, <1>15 DEF Contract!Avoid
<1>16. ASSUME NEW e \in SwitchErrors, SwitchFails(e)
       PROVE  [Contract!Next]_(Contract!contractVars)
  <2>1. down_backends' \in {down_backends, down_backends \cup {name}}
    BY <1>16 DEF SwitchFails
  <2>2. /\ pc # "idle" /\ pc' # "idle"
        /\ UNCHANGED <<total_attempts, stealth_level, browser>>
    BY <1>16 DEF SwitchFails, ReturnFromTry
  <2>3. down_backends' = down_backends \cup {} \/ down_backends' = down_backends \cup {name}
    BY <2>1
  <2> QED BY <1>0, <1>15, <2>2, <2>3 DEF Contract!Next
<1>17. CASE ActionSucceeds
  BY <1>17, <1>c DEF ActionSucceeds
<1>18. ASSUME NEW e \in ActionErrors, ActionFails(e)
       PROVE  [Contract!Next]_(Contract!contractVars)
  <2>0. pc # "idle" /\ total_attempts' = total_attempts
    BY <1>18 DEF ActionFails
  <2>1. CASE GiveUpBrowser(e)
    BY <2>0, <2>1, <1>c DEF GiveUpBrowser
  <2>2. ASSUME NEW down \in {{}, {name}}, GiveUpUnrecorded(e, down)
        PROVE  Contract!Avoid
    <3>1. down \in SUBSET Browsers
      BY <1>0
    <3>2. /\ down_backends' = down_backends \cup down /\ pc' # "idle"
          /\ UNCHANGED <<stealth_level, browser>>
      BY <2>2 DEF GiveUpUnrecorded, ReturnFromTry
    <3> QED BY <1>15, <2>0, <3>1, <3>2
  <2>3. CASE RetrySame
    BY <2>0, <2>3, <1>c DEF RetrySame
  <2>4. CASE Recover(e)
    <3>1. name \in Browsers \ down_backends
      BY <1>0, <1>18 DEF IInv, DownInv, ActionFails, Contacting
    <3>2. PICK b \in Browsers \ down_backends : BeginSwitch(b, "recover")
      BY <2>4, <3>1, AlternateEngine DEF Recover
    <3>3. down_backends' = down_backends
      BY <2>4 DEF Recover
    <3> QED BY <1>d, <2>0, <3>2, <3>3 DEF Contract!Next
  <2> QED BY <1>18, <2>1, <2>2, <2>3, <2>4, FailureCases
          DEF ActionFails, Contract!Next
<1>19. CASE UNCHANGED vars
  BY <1>19 DEF vars, Contract!contractVars
<1> QED BY <1>1, <1>2, <1>3, <1>4, <1>5, <1>6, <1>8, <1>9, <1>10, <1>11, <1>12,
           <1>13, <1>14, <1>16, <1>17, <1>18, <1>19
        DEF Next, Engine, Switching, Acting

\* Theorem: the engine implements the contract its callers rely on.
THEOREM ImplementsContract == Spec => KeepsContract
<1>1. Init => Contract!Init
  BY OptionsAssumption DEF Init, Contract!Init, Browsers
<1> QED BY <1>1, ContractStep, EngineInvariant, PTL
        DEF Spec, KeepsContract, Contract!Spec

-----------------------------------------------------------------------------
\* What is behind the two properties of how an execution ends.

\* An authentication error that was seen is what try_browser() returns with,
\* and no other error of that class is.
AuthInv ==
    /\ auth_seen = "seen" => pc = "idle" \/ (pc = "returned" /\ EndsExecution(error))
    /\ pc = "returned" /\ EndsExecution(error) => auth_seen = "seen"
    /\ pc \in Contacting /\ return_to = "recover" => ~EndsExecution(error)

\* Before the first attempt nothing has happened yet, and there is a primary
\* browser to try: no execution ends without an attempt.
EarlyInv ==
    pc # "idle" /\ total_attempts = 0 =>
        /\ pc \in {"level", "primary", "attempt"}
        /\ si = 0 /\ down_backends = {}
        /\ consecutive_disconnects = 0 /\ phase1_timeouts = 0
        /\ pc = "primary" => queue # <<>>

\* In phase 2 an engine was tried, is down or still waits in the queue.
ExtendedInv ==
    pc = "extended" \/ (pc \in InTry /\ ~allow_transient_retries) =>
        Elems(Extended) \subseteq extended_tried \cup down_backends \cup Elems(queue)

\* While every attempt was blocked and budget is left: no browser is down, no
\* timeout was met, a level has at most its one blocked attempt, which adds at
\* most one to the disconnections, and phase 2 starts from the top level.
BlockedInv ==
    pc # "idle" /\ only_blocked /\ total_attempts < Budget =>
        /\ down_backends = {} /\ phase1_timeouts = 0
        /\ pc = "level" => consecutive_disconnects <= si
        /\ pc = "primary" => IF tried_any THEN queue = <<>> /\ consecutive_disconnects <= si + 1
                                          ELSE queue # <<>> /\ consecutive_disconnects <= si
        /\ pc \in InTry /\ allow_transient_retries =>
               ~tried_any /\ consecutive_disconnects <= si
        /\ pc = "returned" => tried_action /\ classify_error(error) = "blocked" /\ error # NoError
        /\ pc = "extended" \/ (pc \in InTry /\ ~allow_transient_retries) =>
               current_stealth_level >= MaxStealth

EndInv == AuthInv /\ EarlyInv /\ ExtendedInv /\ BlockedInv /\ GivesUpOnlyWhenExhausted

\* Lemma: a queue holds its head and what its tail holds.
LEMMA ElemsOfQueue ==
    ASSUME NEW q \in Seq(Browsers), q # <<>>
    PROVE  Elems(q) = {Head(q)} \cup Elems(Tail(q))
<1>1. Len(q) \in Nat \ {0} /\ Head(q) = q[1]
  BY EmptySeq
<1>2. Len(Tail(q)) = Len(q) - 1 /\ \A i \in 1..Len(Tail(q)) : Tail(q)[i] = q[i + 1]
  BY HeadTailProperties
<1>3. ASSUME NEW i \in 1..Len(q) PROVE q[i] \in {Head(q)} \cup Elems(Tail(q))
  <2>1. CASE i = 1
    BY <1>1, <2>1
  <2>2. CASE i # 1
    <3>1. i - 1 \in 1..Len(Tail(q)) /\ q[i] = Tail(q)[i - 1]
      BY <1>1, <1>2, <2>2
    <3> QED BY <3>1 DEF Elems
  <2> QED BY <2>1, <2>2
<1>4. ASSUME NEW i \in 1..Len(Tail(q)) PROVE Tail(q)[i] \in Elems(q)
  <2>1. i + 1 \in 1..Len(q) /\ Tail(q)[i] = q[i + 1]
    BY <1>1, <1>2
  <2> QED BY <2>1 DEF Elems
<1>5. Head(q) \in Elems(q)
  BY <1>1 DEF Elems
<1>6. Elems(q) \subseteq {Head(q)} \cup Elems(Tail(q))
  BY <1>3 DEF Elems
<1>7. Elems(Tail(q)) \subseteq Elems(q)
  BY <1>4 DEF Elems
<1> QED BY <1>5, <1>6, <1>7

\* Lemma: there is always a primary browser to begin with.
LEMMA SomePrimary ==
    ASSUME NEW start PROVE Primary # <<>> /\ OrderedPrimary(start) # <<>>
<1>1. Primary \in Seq(Browsers) /\ Primary # <<>>
  BY RotationTypes, RotationAssumption
<1>2. CASE \E i \in 1..Len(Primary) : Primary[i] = start
  <2> DEFINE i == CHOOSE i \in 1..Len(Primary) : Primary[i] = start
  <2>1. i \in 1..Len(Primary)
    BY <1>2
  <2> HIDE DEF i
  <2>2. SubSeq(Primary, i, Len(Primary)) \in Seq(Browsers)
        /\ Len(SubSeq(Primary, i, Len(Primary))) > 0
    BY <1>1, <2>1, SubSeqProperties
  <2>3. SubSeq(Primary, 1, i - 1) \in Seq(Browsers)
    BY <1>1, <2>1, SubSeqProperties
  <2>4. OrderedPrimary(start) = SubSeq(Primary, i, Len(Primary)) \o SubSeq(Primary, 1, i - 1)
    BY <1>2 DEF OrderedPrimary, i
  <2>5. Len(SubSeq(Primary, 1, i - 1)) \in Nat /\ Len(SubSeq(Primary, i, Len(Primary))) \in Nat
    BY <2>2, <2>3, LenProperties
  <2>6. Len(OrderedPrimary(start)) > 0
    BY <2>2, <2>3, <2>4, <2>5, ConcatProperties
  <2>7. Len(<<>>) = 0
    BY EmptySeq
  <2> QED BY <1>1, <2>6, <2>7
<1>3. CASE ~\E i \in 1..Len(Primary) : Primary[i] = start
  BY <1>1, <1>3 DEF OrderedPrimary
<1> QED BY <1>2, <1>3

\* Lemma: an authentication error goes straight to the end of its try.
LEMMA AuthStep == TypeOK /\ AuthInv /\ [Next]_vars => AuthInv'
<1> SUFFICES ASSUME TypeOK, AuthInv, [Next]_vars PROVE AuthInv'
  OBVIOUS
<1> USE DEF AuthInv, EndsExecution, Contacting, InTry, engineVars, contextVars, phaseVars, judgeVars, tryVars,
            resultVars, historyVars
<1>1. CASE Execute
  BY <1>1, OptionsAssumption DEF Execute
<1>2. CASE LeaveLevels
  BY <1>2, OptionsAssumption DEF LeaveLevels, EndPhase1, Return
<1>3. CASE EnterLevel
  BY <1>3, OptionsAssumption DEF EnterLevel
<1>4. CASE LeavePrimary
  BY <1>4, OptionsAssumption DEF LeavePrimary, EndPhase1, Return
<1>5. CASE SkipDown
  BY <1>5, OptionsAssumption DEF SkipDown
<1>6. CASE LeaveExtended
  BY <1>6, OptionsAssumption DEF LeaveExtended, Return
<1>7. CASE TryPrimary
  BY <1>7, OptionsAssumption DEF TryPrimary, TryBrowser, BeginSwitch
<1>8. CASE TryExtended
  BY <1>8, OptionsAssumption DEF TryExtended, TryBrowser, BeginSwitch
<1>9. CASE Attempt
  BY <1>9, OptionsAssumption DEF Attempt, ReturnFromTry
<1>10. CASE PrimaryFailed
  BY <1>10, OptionsAssumption DEF PrimaryFailed, Return
<1>11. CASE ExtendedFailed
  BY <1>11, OptionsAssumption DEF ExtendedFailed, Return
<1>12. CASE SwitchConnected
  BY <1>12, OptionsAssumption DEF SwitchConnected
<1>13. CASE SwitchInitialized
  BY <1>13, OptionsAssumption DEF SwitchInitialized
<1>14. CASE SwitchNavigated
  BY <1>14, OptionsAssumption DEF SwitchNavigated
<1>15. ASSUME NEW e \in SwitchErrors, SwitchFails(e) PROVE AuthInv'
  <2>1. e # NoError
    BY OptionsAssumption DEF Errors
  <2>2. CASE return_to = "rotate"
    BY <1>15, <2>1, <2>2 DEF SwitchFails, ReturnFromTry
  <2>3. CASE return_to # "rotate"
    BY <1>15, <2>3 DEF SwitchFails, ReturnFromTry, TypeOK, TryTypeOK
  <2> QED BY <2>2, <2>3
<1>16. CASE ActionSucceeds
  BY <1>16, OptionsAssumption DEF ActionSucceeds, Return
<1>17. ASSUME NEW e \in ActionErrors, ActionFails(e) PROVE AuthInv'
  <2>1. e # NoError
    BY OptionsAssumption DEF Errors
  <2> QED BY <1>17, <2>1 DEF ActionFails, AfterFailure, RetrySame, Recover, BeginSwitch, GiveUpBrowser, GiveUpUnrecorded, ReturnFromTry
<1>18. CASE UNCHANGED vars
  BY <1>18, OptionsAssumption DEF vars
<1> QED BY <1>1, <1>2, <1>3, <1>4, <1>5, <1>6, <1>7, <1>8, <1>9, <1>10, <1>11, <1>12, <1>13, <1>14, <1>15, <1>16, <1>17, <1>18
    DEF Next, Engine, Switching, Acting

\* Lemma: nothing but the first attempt comes before the first attempt.
LEMMA EarlyStep == IInv /\ EarlyInv /\ [Next]_vars => EarlyInv'
<1> SUFFICES ASSUME IInv, EarlyInv, [Next]_vars PROVE EarlyInv'
  OBVIOUS
<1> USE DEF EarlyInv, Level, LastLevel, Contacting, InTry, engineVars, contextVars, phaseVars, judgeVars, tryVars,
            resultVars, historyVars
<1>a. /\ total_attempts \in Nat /\ Budget \in Nat \ {0}
      /\ start_level \in 0..3 /\ si \in Nat /\ MaxStealth \in 1..3
      /\ consecutive_disconnects \in Nat /\ phase1_timeouts \in Nat
  BY OptionsAssumption DEF IInv, TypeOK, ExecuteTypeOK, Budget
<1>1. CASE Execute
  BY <1>1 DEF Execute
<1>2. CASE LeaveLevels
  BY <1>2, <1>a DEF LeaveLevels, EndPhase1, Return
<1>3. CASE EnterLevel
  BY <1>3, <1>a, SomePrimary DEF EnterLevel
<1>4. CASE LeavePrimary
  BY <1>4, <1>a DEF LeavePrimary, EndPhase1, Return
<1>5. CASE SkipDown
  BY <1>5, <1>a DEF SkipDown, IsDown
<1>6. CASE LeaveExtended
  BY <1>6, <1>a DEF LeaveExtended, Return
<1>7. CASE TryPrimary
  BY <1>7, <1>a DEF TryPrimary, TryBrowser, BeginSwitch
<1>8. CASE TryExtended
  BY <1>8, <1>a DEF TryExtended, TryBrowser, BeginSwitch
<1>9. CASE Attempt
  BY <1>9, <1>a DEF Attempt, ReturnFromTry
<1>10. CASE PrimaryFailed
  BY <1>10, <1>a DEF PrimaryFailed, Return
<1>11. CASE ExtendedFailed
  BY <1>11, <1>a DEF ExtendedFailed, Return
<1>12. CASE SwitchConnected
  BY <1>12, <1>a DEF SwitchConnected
<1>13. CASE SwitchInitialized
  BY <1>13, <1>a DEF SwitchInitialized
<1>14. CASE SwitchNavigated
  BY <1>14, <1>a DEF SwitchNavigated
<1>15. ASSUME NEW e \in SwitchErrors, SwitchFails(e) PROVE EarlyInv'
  BY <1>15, <1>a DEF SwitchFails, ReturnFromTry
<1>16. CASE ActionSucceeds
  BY <1>16, <1>a DEF ActionSucceeds, Return
<1>17. ASSUME NEW e \in ActionErrors, ActionFails(e) PROVE EarlyInv'
  BY <1>17, <1>a DEF ActionFails, AfterFailure, RetrySame, Recover, BeginSwitch, GiveUpBrowser, GiveUpUnrecorded, ReturnFromTry
<1>18. CASE UNCHANGED vars
  BY <1>18, <1>a DEF vars
<1> QED BY <1>1, <1>2, <1>3, <1>4, <1>5, <1>6, <1>7, <1>8, <1>9, <1>10, <1>11, <1>12, <1>13, <1>14, <1>15, <1>16, <1>17, <1>18
    DEF Next, Engine, Switching, Acting

\* Lemma: no extended engine is lost from the search.
LEMMA ExtendedStep == IInv /\ ExtendedInv /\ [Next]_vars => ExtendedInv'
<1> SUFFICES ASSUME IInv, ExtendedInv, [Next]_vars PROVE ExtendedInv'
  OBVIOUS
<1> USE DEF ExtendedInv, Contacting, InTry, engineVars, contextVars, phaseVars, judgeVars, tryVars,
            resultVars, historyVars
<1>a. queue \in Seq(Browsers)
  BY DEF IInv, TypeOK, ExecuteTypeOK
<1>1. CASE Execute
  BY <1>1 DEF Execute
<1>2. CASE LeaveLevels
  BY <1>2 DEF LeaveLevels, EndPhase1, Return
<1>3. CASE EnterLevel
  BY <1>3 DEF EnterLevel
<1>4. CASE LeavePrimary
  BY <1>4 DEF LeavePrimary, EndPhase1, Return
<1>5. CASE SkipDown
  <2>1. Elems(queue) = {Head(queue)} \cup Elems(queue')
    BY <1>5, <1>a, ElemsOfQueue DEF SkipDown
  <2> QED BY <1>5, <2>1 DEF SkipDown, IsDown
<1>6. CASE LeaveExtended
  BY <1>6 DEF LeaveExtended, Return
<1>7. CASE TryPrimary
  BY <1>7 DEF TryPrimary, TryBrowser, BeginSwitch
<1>8. CASE TryExtended
  <2>1. Elems(queue) = {Head(queue)} \cup Elems(queue')
    BY <1>8, <1>a, ElemsOfQueue DEF TryExtended, TryBrowser
  <2> QED BY <1>8, <2>1 DEF TryExtended, TryBrowser, BeginSwitch
<1>9. CASE Attempt
  BY <1>9 DEF Attempt, ReturnFromTry
<1>10. CASE PrimaryFailed
  BY <1>10 DEF PrimaryFailed, Return
<1>11. CASE ExtendedFailed
  BY <1>11 DEF ExtendedFailed, Return
<1>12. CASE SwitchConnected
  BY <1>12 DEF SwitchConnected
<1>13. CASE SwitchInitialized
  BY <1>13 DEF SwitchInitialized
<1>14. CASE SwitchNavigated
  BY <1>14 DEF SwitchNavigated
<1>15. ASSUME NEW e \in SwitchErrors, SwitchFails(e) PROVE ExtendedInv'
  BY <1>15 DEF SwitchFails, ReturnFromTry
<1>16. CASE ActionSucceeds
  BY <1>16 DEF ActionSucceeds, Return
<1>17. ASSUME NEW e \in ActionErrors, ActionFails(e) PROVE ExtendedInv'
  BY <1>17 DEF ActionFails, AfterFailure, RetrySame, Recover, BeginSwitch, GiveUpBrowser, GiveUpUnrecorded, ReturnFromTry
<1>18. CASE UNCHANGED vars
  BY <1>18 DEF vars
<1> QED BY <1>1, <1>2, <1>3, <1>4, <1>5, <1>6, <1>7, <1>8, <1>9, <1>10, <1>11, <1>12, <1>13, <1>14, <1>15, <1>16, <1>17, <1>18
    DEF Next, Engine, Switching, Acting

\* Lemma: attempts that are all blocked climb the levels one by one.
LEMMA BlockedStep == IInv /\ BlockedInv /\ EarlyInv /\ [Next]_vars => BlockedInv'
<1> SUFFICES ASSUME IInv, BlockedInv, EarlyInv, [Next]_vars PROVE BlockedInv'
  OBVIOUS
<1> USE DEF BlockedInv, Level, LastLevel, Contacting, InTry, engineVars, contextVars, phaseVars, judgeVars, tryVars,
            resultVars, historyVars
<1>a. /\ total_attempts \in Nat /\ Budget \in Nat \ {0}
      /\ start_level \in 0..3 /\ si \in Nat /\ MaxStealth \in 1..3
      /\ consecutive_disconnects \in Nat /\ phase1_timeouts \in Nat
  BY OptionsAssumption DEF IInv, TypeOK, ExecuteTypeOK, Budget
<1>1. CASE Execute
  BY <1>1, <1>a DEF Execute
<1>2. CASE LeaveLevels
  <2> SUFFICES ASSUME only_blocked, total_attempts < Budget, pc' = "extended"
               PROVE  current_stealth_level >= MaxStealth /\ BlockedInv'
    BY <1>2, <1>a DEF LeaveLevels, EndPhase1, Return
  <2>1. Level > LastLevel /\ si # 0
    BY <1>2, <1>a DEF LeaveLevels
  <2>2. current_stealth_level = Level - 1
    BY <1>2, <2>1 DEF IInv, StealthInv, LeaveLevels
  <2>3. current_stealth_level >= MaxStealth
    BY <1>a, <2>1, <2>2
  <2> QED BY <1>2, <2>3 DEF LeaveLevels, EndPhase1, Return
<1>3. CASE EnterLevel
  <2>1. queue' # <<>> /\ tried_any' = FALSE /\ pc' = "primary"
    BY <1>3, SomePrimary DEF EnterLevel
  <2> QED BY <1>3, <1>a, <2>1 DEF EnterLevel
<1>4. CASE LeavePrimary
  <2>1. CASE tried_any
    BY <1>4, <1>a, <2>1 DEF LeavePrimary
  <2>2. CASE ~tried_any
    <3> SUFFICES ASSUME only_blocked, total_attempts < Budget PROVE FALSE
      BY <1>4, <2>2 DEF LeavePrimary, EndPhase1, Return
    <3>1. queue # <<>> /\ consecutive_disconnects <= si /\ consecutive_disconnects >= 6
      BY <1>4, <1>a, <2>2 DEF LeavePrimary
    <3>2. Level <= LastLevel
      BY <1>4 DEF IInv, StealthInv, LeavePrimary
    <3> QED BY <1>a, <3>1, <3>2
  <2> QED BY <2>1, <2>2
<1>5. CASE SkipDown
  BY <1>5, <1>a DEF SkipDown, IsDown
<1>6. CASE LeaveExtended
  BY <1>6, <1>a DEF LeaveExtended, Return
<1>7. CASE TryPrimary
  BY <1>7, <1>a DEF TryPrimary, TryBrowser, BeginSwitch
<1>8. CASE TryExtended
  BY <1>8, <1>a DEF TryExtended, TryBrowser, BeginSwitch
<1>9. CASE Attempt
  BY <1>9, <1>a DEF Attempt, ReturnFromTry
<1>10. CASE PrimaryFailed
  <2> SUFFICES ASSUME only_blocked, total_attempts < Budget, pc' # "idle"
               PROVE  BlockedInv'
    BY <1>10 DEF PrimaryFailed
  <2>1. /\ tried_action /\ classify_error(error) = "blocked" /\ error # NoError
        /\ down_backends = {} /\ phase1_timeouts = 0 /\ consecutive_disconnects <= si
    BY <1>10 DEF PrimaryFailed
  <2>2. error # "Timeout"
    BY <2>1 DEF classify_error
  <2>3. tried_any' = TRUE
    BY <1>10, <2>1 DEF PrimaryFailed
  <2>4. /\ pc' = "primary" /\ queue' = <<>> /\ UNCHANGED <<phase1_timeouts, down_backends, si>>
        /\ consecutive_disconnects' <= consecutive_disconnects + 1
    BY <1>10, <1>a, <2>1, <2>2 DEF PrimaryFailed, Return, LeavesRotation
  <2>5. consecutive_disconnects' <= si' + 1
    <3>1. consecutive_disconnects' \in Nat
      BY <1>10, <1>a, <2>1 DEF PrimaryFailed
    <3> QED BY <1>a, <2>1, <2>4, <3>1
  <2> QED BY <2>1, <2>3, <2>4, <2>5
<1>11. CASE ExtendedFailed
  BY <1>11, <1>a DEF ExtendedFailed, Return
<1>12. CASE SwitchConnected
  BY <1>12, <1>a DEF SwitchConnected
<1>13. CASE SwitchInitialized
  BY <1>13, <1>a DEF SwitchInitialized
<1>14. CASE SwitchNavigated
  BY <1>14, <1>a DEF SwitchNavigated
<1>15. ASSUME NEW e \in SwitchErrors, SwitchFails(e) PROVE BlockedInv'
  BY <1>15, <1>a DEF SwitchFails, ReturnFromTry
<1>16. CASE ActionSucceeds
  BY <1>16, <1>a DEF ActionSucceeds, Return
<1>17. ASSUME NEW e \in ActionErrors, ActionFails(e) PROVE BlockedInv'
  <2> SUFFICES ASSUME only_blocked, total_attempts < Budget, classify_error(e) = "blocked"
               PROVE  BlockedInv'
    BY <1>17 DEF ActionFails
  <2>1. e # NoError
    BY OptionsAssumption DEF Errors
  <2>2. GiveUpBrowser(e)
    BY <1>17 DEF ActionFails, AfterFailure
  <2> QED BY <1>17, <2>1, <2>2 DEF ActionFails, GiveUpBrowser, ReturnFromTry
<1>18. CASE UNCHANGED vars
  BY <1>18, <1>a DEF vars
<1> QED BY <1>1, <1>2, <1>3, <1>4, <1>5, <1>6, <1>7, <1>8, <1>9, <1>10, <1>11, <1>12, <1>13, <1>14, <1>15, <1>16, <1>17, <1>18
    DEF Next, Engine, Switching, Acting

\* Lemma: an execution that gives up has searched as far as it promises.
LEMMA GivesUpStep ==
    IInv /\ EndInv /\ [Next]_vars => GivesUpOnlyWhenExhausted'
<1> SUFFICES ASSUME IInv, EndInv, [Next]_vars, pc' = "idle", outcome' # "ok",
                    auth_seen' # "seen", total_attempts' < Budget, executions' > 0
             PROVE  /\ Elems(Extended) \subseteq (extended_tried \cup down_backends)'
                    /\ only_blocked' => /\ current_stealth_level' >= MaxStealth
                                        /\ stealth_level' >= MaxStealth
  BY DEF GivesUpOnlyWhenExhausted
<1>a. /\ total_attempts \in Nat /\ Budget \in Nat \ {0}
      /\ start_level \in 0..3 /\ si \in Nat /\ MaxStealth \in 1..3
      /\ consecutive_disconnects \in Nat /\ phase1_timeouts \in Nat
      /\ stealth_level = current_stealth_level
  BY OptionsAssumption DEF IInv, TypeOK, ExecuteTypeOK, Budget, StealthInv
<1> USE DEF engineVars, contextVars, phaseVars, judgeVars, tryVars, resultVars, historyVars
<1>1. ASSUME total_attempts # 0, EndPhase1, only_blocked => current_stealth_level >= MaxStealth,
             UNCHANGED <<engineVars, contextVars, historyVars, total_attempts>>
      PROVE  /\ Elems(Extended) \subseteq (extended_tried \cup down_backends)'
             /\ only_blocked' => /\ current_stealth_level' >= MaxStealth
                                 /\ stealth_level' >= MaxStealth
  <2>2. Extended = <<>>
    BY <1>1, <1>a DEF EndPhase1, WantsPhase2
  <2>3. Elems(Extended) = {}
    BY <2>2, EmptySeq DEF Elems
  <2> QED BY <1>1, <1>a, <2>3
<1>2. CASE LeaveLevels
  <2>1. total_attempts # 0
    BY <1>2, <1>a DEF LeaveLevels, EndInv, EarlyInv, Level, LastLevel
  <2>2. ASSUME only_blocked PROVE current_stealth_level >= MaxStealth
    <3>1. Level > LastLevel /\ si # 0
      BY <1>2, <1>a, <2>2 DEF LeaveLevels, EndInv, BlockedInv, Level, LastLevel
    <3>2. current_stealth_level = Level - 1
      BY <1>2, <3>1 DEF IInv, StealthInv, LeaveLevels
    <3> QED BY <1>a, <3>1, <3>2 DEF Level, LastLevel
  <2> QED BY <1>1, <1>2, <2>1, <2>2 DEF LeaveLevels
<1>3. CASE LeavePrimary
  <2>0. ~tried_any /\ total_attempts < Budget
    BY <1>3 DEF LeavePrimary
  <2>1. total_attempts # 0
    BY <1>3, <1>a, <2>0 DEF LeavePrimary, EndInv, EarlyInv
  <2>2. ~only_blocked
    <3> SUFFICES ASSUME only_blocked PROVE FALSE
      OBVIOUS
    <3>1. queue # <<>> /\ consecutive_disconnects <= si /\ consecutive_disconnects >= 6
      BY <1>3, <1>a, <2>0 DEF LeavePrimary, EndInv, BlockedInv
    <3>2. Level <= LastLevel
      BY <1>3 DEF IInv, StealthInv, LeavePrimary
    <3> QED BY <1>a, <3>1, <3>2 DEF Level, LastLevel
  <2> QED BY <1>1, <1>3, <2>0, <2>1, <2>2 DEF LeavePrimary
<1>4. CASE LeaveExtended
  <2>1. queue = <<>>
    BY <1>4, <1>a DEF LeaveExtended
  <2>2. Elems(queue) = {}
    BY <2>1, EmptySeq DEF Elems
  <2> QED BY <1>4, <1>a, <2>2 DEF LeaveExtended, EndInv, ExtendedInv, BlockedInv
<1>5. ASSUME pc = "returned", EndsExecution(error), UNCHANGED auth_seen PROVE FALSE
  BY <1>5 DEF EndInv, AuthInv
<1>6. CASE PrimaryFailed
  BY <1>5, <1>6 DEF PrimaryFailed
<1>7. CASE ExtendedFailed
  BY <1>5, <1>7 DEF ExtendedFailed
<1>8. CASE Acting
  BY <1>8 DEF Acting, ActionSucceeds, Return, ActionFails, AfterFailure, RetrySame,
              Recover, BeginSwitch, GiveUpBrowser, GiveUpUnrecorded, ReturnFromTry
<1>9. CASE Switching
  BY <1>9 DEF Switching, SwitchConnected, SwitchInitialized, SwitchNavigated,
              SwitchFails, ReturnFromTry
<1>10. CASE TryPrimary \/ TryExtended \/ Attempt \/ SkipDown \/ EnterLevel \/ Execute
  BY <1>10 DEF TryPrimary, TryExtended, TryBrowser, BeginSwitch, Attempt, ReturnFromTry,
               SkipDown, EnterLevel, Execute
<1>11. CASE UNCHANGED vars
  BY <1>11 DEF vars, EndInv, GivesUpOnlyWhenExhausted
<1> QED BY <1>2, <1>3, <1>4, <1>6, <1>7, <1>8, <1>9, <1>10, <1>11 DEF Next, Engine

\* Lemma: the engine starts in the invariant of how executions end.
LEMMA EndInit == Init => EndInv
BY DEF Init, EndInv, AuthInv, EarlyInv, ExtendedInv, BlockedInv,
       GivesUpOnlyWhenExhausted, Contacting, InTry

\* Theorem: and stays in it.
THEOREM EndInvariant == Spec => []EndInv
<1>1. IInv /\ EndInv /\ [Next]_vars => EndInv'
  BY AuthStep, EarlyStep, ExtendedStep, BlockedStep, GivesUpStep DEF IInv, EndInv
<1> QED BY <1>1, EndInit, EngineInvariant, PTL DEF Spec

\* Theorem: execute() gives up with budget left, other than for an
\* authentication error, only when every extended engine was tried or is down,
\* and after nothing but blocks only at the top stealth level: no path through
\* the two phases ends the search early (retry_engine.rs, execute).
THEOREM SearchIsExhaustive == Spec => []GivesUpOnlyWhenExhausted
<1>1. EndInv => GivesUpOnlyWhenExhausted
  BY DEF EndInv
<1> QED BY <1>1, EndInvariant, PTL

\* Theorem: after an authentication error the execution neither calls the
\* action again nor moves to another browser.
THEOREM AuthEndsExecution == Spec => AuthIsFinal
<1> DEFINE Final == auth_seen = "seen" => /\ total_attempts' <= total_attempts
                                          /\ UNCHANGED <<browser, ran_on>>
<1>1. ASSUME IInv, AuthInv, Next PROVE Final
  <2> SUFFICES ASSUME auth_seen = "seen"
               PROVE  total_attempts' <= total_attempts /\ UNCHANGED <<browser, ran_on>>
    OBVIOUS
  <2>0. total_attempts \in Nat
    BY <1>1 DEF IInv, TypeOK, ExecuteTypeOK
  <2> USE DEF contextVars, historyVars
  <2>1. pc \in {"idle", "returned"}
    BY <1>1 DEF AuthInv
  <2>2. CASE Execute
    BY <2>0, <2>2 DEF Execute
  <2>3. CASE PrimaryFailed \/ ExtendedFailed
    BY <2>0, <2>3 DEF PrimaryFailed, ExtendedFailed
  <2> QED BY <1>1, <2>1, <2>2, <2>3
          DEF Next, Engine, Switching, Acting, LeaveLevels, EnterLevel, LeavePrimary,
              SkipDown, LeaveExtended, TryPrimary, TryExtended, Attempt, SwitchConnected,
              SwitchInitialized, SwitchNavigated, SwitchFails, ActionSucceeds, ActionFails
<1>2. IInv /\ AuthInv /\ [Next]_vars => [Final]_vars
  BY <1>1
<1>3. EndInv => AuthInv
  BY DEF EndInv
<1> QED BY <1>2, <1>3, EngineInvariant, EndInvariant, PTL DEF Spec, AuthIsFinal

-----------------------------------------------------------------------------
(***************************************************************************)
(* The selector, for any rotation and any record of failures.  A walk of   *)
(* the rotation meets the browsers in the order of their distance, so the  *)
(* first usable one is the nearest.                                        *)
(***************************************************************************)

\* Lemma: a set of numbers that is not empty has a least one.
LEMMA LeastNumber ==
    ASSUME NEW S, S \subseteq Nat, S # {} PROVE \E x \in S : \A y \in S : x <= y
<1> DEFINE R == {ss \in Nat \X Nat : ss[1] < ss[2]}
<1>1. R = OpToRel(<, Nat)
  BY DEF OpToRel
<1>2. IsWellFoundedOn(R, Nat)
  BY <1>1, NatLessThanWellFounded, Zenon
<1>3. \A x, y \in Nat : <<y, x>> \in R <=> y < x
  OBVIOUS
<1> HIDE DEF R
<1>4. PICK x \in S : \A y \in S : ~ (<<y, x>> \in R)
  BY <1>2, WFMin
<1>5. ASSUME NEW y \in S PROVE x <= y
  <2>1. x \in Nat /\ y \in Nat /\ ~ (<<y, x>> \in R)
    BY <1>4
  <2>2. ~ (y < x)
    BY <1>3, <2>1
  <2> QED BY <2>1, <2>2
<1> QED BY <1>5

\* Lemma: the places of the rotation.
LEMMA PlacesAre ==
    ASSUME SelectorAssumption
    PROVE  /\ Len(Rotation) \in Nat \ {0} /\ Rotation \in [1..Len(Rotation) -> RotationBrowsers]
           /\ \A i \in 1..Len(Rotation) : Place(Rotation[i]) = i
           /\ \A b \in RotationBrowsers :
                 Place(b) \in 1..Len(Rotation) /\ Rotation[Place(b)] = b
<1> DEFINE N == Len(Rotation)
<1>1. /\ N \in Nat \ {0} /\ Rotation \in [1..N -> RotationBrowsers] /\ DOMAIN Rotation = 1..N
      /\ \A i, j \in 1..N : Rotation[i] = Rotation[j] => i = j
      /\ \A b \in RotationBrowsers : \E i \in 1..N : Rotation[i] = b
  <2>1. Rotation \in Seq(RotationBrowsers) /\ Rotation # <<>> /\ IsInjective(Rotation)
    BY DEF SelectorAssumption
  <2>2. N \in Nat \ {0} /\ Rotation \in [1..N -> RotationBrowsers] /\ DOMAIN Rotation = 1..N
    BY <2>1, EmptySeq, LenProperties
  <2> QED BY <2>1, <2>2 DEF IsInjective, RotationBrowsers, ToSet
<1> HIDE DEF N
<1>2. \A i \in 1..N : (CHOOSE j \in 1..N : Rotation[j] = Rotation[i]) = i
  BY <1>1
<1>3. \A b \in RotationBrowsers :
         /\ (CHOOSE j \in 1..N : Rotation[j] = b) \in 1..N
         /\ Rotation[CHOOSE j \in 1..N : Rotation[j] = b] = b
  BY <1>1
<1> QED BY <1>1, <1>2, <1>3 DEF Place, N

\* Lemma: the first usable browser of a walk, if there is one.
LEMMA FirstUsableIs ==
    ASSUME NEW walk, NEW k, Len(walk) \in Nat, k = FirstUsableOn(walk)
    PROVE  /\ k = 0 => \A i \in 1..Len(walk) : ~ Usable(walk[i])
           /\ k # 0 => /\ k \in 1..Len(walk) /\ Usable(walk[k])
                       /\ \A i \in 1..Len(walk) : Usable(walk[i]) => k <= i
<1> DEFINE S == {i \in 1..Len(walk) : Usable(walk[i])}
           first(i) == /\ Usable(walk[i])
                       /\ \A j \in 1..(i - 1) : ~ Usable(walk[j])
<1>1. CASE S = {}
  <2>1. \A i \in 1..Len(walk) : ~ Usable(walk[i])
    BY <1>1
  <2>2. k = 0
    BY <2>1 DEF FirstUsableOn
  <2> QED BY <2>1, <2>2
<1>2. CASE S # {}
  <2>1. PICK m \in S : \A i \in S : m <= i
    <3>1. S \subseteq Nat
      OBVIOUS
    <3> HIDE DEF S
    <3> QED BY <1>2, <3>1, LeastNumber
  <2>2. m \in 1..Len(walk) /\ first(m)
    BY <2>1
  <2>3. k = CHOOSE i \in 1..Len(walk) : first(i)
    BY <1>2 DEF FirstUsableOn
  <2> HIDE DEF first
  <2>4. k \in 1..Len(walk) /\ first(k)
    BY <2>2, <2>3
  <2>5. ASSUME NEW i \in 1..Len(walk), Usable(walk[i]) PROVE k <= i
    <3>1. ~ (i \in 1..(k - 1))
      BY <2>4, <2>5 DEF first
    <3> QED BY <2>4, <3>1
  <2> QED BY <2>4, <2>5 DEF first
<1> QED BY <1>1, <1>2

\* Lemma: the remainder of a number less than twice the divisor.
LEMMA Remainder ==
    ASSUME NEW n \in Nat \ {0}
    PROVE  /\ \A x \in 0..(n - 1) : x % n = x
           /\ \A x \in n..(n + n - 1) : x % n = x - n
<1>1. ASSUME NEW x \in 0..(n - 1) PROVE x % n = x
  OBVIOUS
<1>2. ASSUME NEW x \in n..(n + n - 1) PROVE x % n = x - n
  OBVIOUS
<1> QED BY <1>1, <1>2

\* Lemma: the walk from a browser meets the others by their distance.
LEMMA WalkIsByDistance ==
    ASSUME SelectorAssumption, NEW c, NEW here, here = Start(c)
    PROVE  /\ Len(After(c)) = Len(Rotation) - 1
           /\ \A o \in 1..(Len(Rotation) - 1) :
                 /\ After(c)[o] \in RotationBrowsers \ {here}
                 /\ Distance(here, After(c)[o]) = o
           /\ \A b \in RotationBrowsers \ {here} :
                 /\ Distance(here, b) \in 1..(Len(Rotation) - 1)
                 /\ After(c)[Distance(here, b)] = b
<1> DEFINE N == Len(Rotation)  p == Place(here)
           at(o) == IF p + o <= N THEN p + o ELSE p + o - N
<1>1. /\ N \in Nat \ {0} /\ Rotation \in [1..N -> RotationBrowsers]
      /\ \A i \in 1..N : Place(Rotation[i]) = i
      /\ \A b \in RotationBrowsers : Place(b) \in 1..N /\ Rotation[Place(b)] = b
  BY PlacesAre
<1>0. N \in Nat \ {0}
  BY <1>1
<1> HIDE DEF N
<1>2. here \in RotationBrowsers /\ p \in 1..N /\ Rotation[p] = here /\ Index(c) = p
  <2>1. CASE c \in RotationBrowsers
    BY <1>1, <2>1 DEF Start, Index, Place, N
  <2>2. CASE c \notin RotationBrowsers
    <3>1. 1 \in 1..N /\ here = Rotation[1] /\ Index(c) = 1
      BY <1>1, <2>2 DEF Start, Index
    <3> QED BY <1>1, <3>1
  <2> QED BY <2>1, <2>2
<1> HIDE DEF p
<1>3. ASSUME NEW o \in 1..(N - 1)
      PROVE  at(o) \in 1..N /\ at(o) # p /\ ((p - 1 + o) % N) + 1 = at(o)
             /\ (at(o) + N - p) % N = o
  <2>1. CASE p + o <= N
    <3>1. p - 1 + o \in 0..(N - 1) /\ at(o) = p + o /\ at(o) + N - p = N + o
      BY <1>1, <1>2, <2>1
    <3>2. (p - 1 + o) % N = p - 1 + o
      <4> DEFINE x == p - 1 + o
      <4>1. x \in 0..(N - 1)
        BY <3>1
      <4> HIDE DEF x
      <4>2. x % N = x
        BY <1>0, <4>1, Remainder
      <4> QED BY <4>2 DEF x
    <3>3. (N + o) % N = (N + o) - N
      <4> DEFINE x == N + o
      <4>1. x \in N..(N + N - 1)
        BY <1>1, <1>3
      <4> HIDE DEF x
      <4>2. x % N = x - N
        BY <1>0, <4>1, Remainder
      <4> QED BY <4>2 DEF x
    <3> QED BY <1>1, <1>2, <2>1, <3>1, <3>2, <3>3
  <2>2. CASE ~ (p + o <= N)
    <3>1. p - 1 + o \in N..(N + N - 1) /\ at(o) = p + o - N /\ at(o) + N - p = o
      BY <1>1, <1>2, <2>2
    <3>2. (p - 1 + o) % N = (p - 1 + o) - N
      <4> DEFINE x == p - 1 + o
      <4>1. x \in N..(N + N - 1)
        BY <3>1
      <4> HIDE DEF x
      <4>2. x % N = x - N
        BY <1>0, <4>1, Remainder
      <4> QED BY <4>2 DEF x
    <3>3. o % N = o
      BY <1>1, Remainder
    <3> QED BY <1>1, <1>2, <2>2, <3>1, <3>2, <3>3
  <2> QED BY <2>1, <2>2
<1>4. ASSUME NEW k \in 1..N, k # p
      PROVE  (k + N - p) % N \in 1..(N - 1) /\ at((k + N - p) % N) = k
  <2>1. CASE p < k
    <3>1. k + N - p \in N..(N + N - 1)
      BY <1>1, <1>2, <2>1
    <3>2. (k + N - p) % N = (k + N - p) - N
      <4> DEFINE x == k + N - p
      <4>1. x \in N..(N + N - 1)
        BY <3>1
      <4> HIDE DEF x
      <4>2. x % N = x - N
        BY <1>0, <4>1, Remainder
      <4> QED BY <4>2 DEF x
    <3> QED BY <1>1, <1>2, <2>1, <3>2
  <2>2. CASE ~ (p < k)
    <3>1. k + N - p \in 1..(N - 1)
      BY <1>1, <1>2, <1>4, <2>2
    <3>2. (k + N - p) % N = k + N - p
      <4> DEFINE x == k + N - p
      <4>1. x \in 0..(N - 1)
        BY <3>1
      <4> HIDE DEF x
      <4>2. x % N = x
        BY <1>0, <4>1, Remainder
      <4> QED BY <4>2 DEF x
    <3> QED BY <1>1, <1>2, <1>4, <2>2, <3>1, <3>2
  <2> QED BY <2>1, <2>2
<1>5. After(c) = [o \in 1..(N - 1) |-> Rotation[((p - 1 + o) % N) + 1]]
  BY <1>2 DEF After, N
<1>6. \A o \in 1..(N - 1) : After(c)[o] = Rotation[at(o)]
  BY <1>3, <1>5
<1>7. Len(After(c)) = N - 1
  <2>1. N - 1 \in Nat
    BY <1>1
  <2>2. \A o \in 1..(N - 1) : Rotation[((p - 1 + o) % N) + 1] \in RotationBrowsers
    BY <1>1, <1>3
  <2>3. After(c) \in [1..(N - 1) -> RotationBrowsers]
    BY <1>5, <2>2
  <2> QED BY <2>1, <2>3
<1>8. \A b : Distance(here, b) = (Place(b) + N - p) % N
  BY DEF Distance, N, p
<1> HIDE DEF at
<1>9. ASSUME NEW o \in 1..(N - 1)
      PROVE  /\ After(c)[o] \in RotationBrowsers \ {here}
             /\ Distance(here, After(c)[o]) = o
  <2>1. After(c)[o] = Rotation[at(o)] /\ Place(Rotation[at(o)]) = at(o)
    BY <1>1, <1>3, <1>6
  <2>2. Rotation[at(o)] # here
    <3>1. Place(here) = p /\ at(o) # p
      BY <1>1, <1>2, <1>3
    <3> QED BY <2>1, <3>1
  <2> QED BY <1>1, <1>3, <1>8, <2>1, <2>2
<1>10. ASSUME NEW b \in RotationBrowsers \ {here}
       PROVE  /\ Distance(here, b) \in 1..(N - 1)
              /\ After(c)[Distance(here, b)] = b
  <2>1. Place(b) \in 1..N /\ Place(b) # p /\ Rotation[Place(b)] = b
    BY <1>1, <1>2
  <2>2. /\ Distance(here, b) \in 1..(N - 1)
        /\ at(Distance(here, b)) = Place(b)
    BY <1>4, <1>8, <2>1
  <2> QED BY <1>6, <2>1, <2>2
<1> QED BY <1>7, <1>9, <1>10 DEF N

\* Lemma: a browser is usable as the reference says it is healthy.
LEMMA UsableIsHealthy ==
    ASSUME SelectorAssumption, NEW b \in RotationBrowsers
    PROVE  Usable(b) <=> b \in Healthy
BY DEF SelectorAssumption, Usable, failure_count, Expired,
       Healthy

\* Lemma: next_browser().
LEMMA NextBrowserAnswers ==
    ASSUME SelectorAssumption, NEW c, NextBrowser(c)
    PROVE  NextIsNearest /\ call'.op = "next"
<1> DEFINE walk == After(c)  k == FirstUsableOn(walk)
           here == Start(c)  others == Healthy \ {here}
<1>1. call' = [op |-> "next", from |-> c, picked |-> IF k = 0 THEN None ELSE walk[k]]
  BY DEF NextBrowser, Pick
<1>2. Len(Rotation) \in Nat \ {0}
  BY PlacesAre
<1>3. /\ Len(walk) = Len(Rotation) - 1
      /\ \A o \in 1..Len(walk) :
            walk[o] \in RotationBrowsers \ {here} /\ Distance(here, walk[o]) = o
      /\ \A b \in RotationBrowsers \ {here} :
            /\ Distance(here, b) \in 1..Len(walk)
            /\ walk[Distance(here, b)] = b
  BY WalkIsByDistance
<1>4. Len(walk) \in Nat
  BY <1>2, <1>3
<1> HIDE DEF walk, here
<1>5. /\ k = 0 => \A i \in 1..Len(walk) : ~ Usable(walk[i])
      /\ k # 0 => /\ k \in 1..Len(walk) /\ Usable(walk[k])
                  /\ \A i \in 1..Len(walk) : Usable(walk[i]) => k <= i
  BY <1>4, FirstUsableIs
<1> HIDE DEF k
<1>6. Healthy \subseteq RotationBrowsers
  BY DEF Healthy
<1>7. CASE k = 0
  <2>1. others = {}
    BY <1>3, <1>5, <1>6, <1>7, UsableIsHealthy
  <2> QED BY <1>1, <1>7, <2>1 DEF NextIsNearest, here
<1>8. CASE k # 0
  <2>1. walk[k] \in others /\ Distance(here, walk[k]) = k
    BY <1>3, <1>5, <1>8, UsableIsHealthy
  <2>2. ASSUME NEW b \in others PROVE k <= Distance(here, b)
    <3>1. b \in RotationBrowsers \ {here} /\ Usable(b)
      BY <1>6, UsableIsHealthy
    <3> QED BY <1>3, <1>5, <1>8, <3>1
  <2>3. call'.picked = walk[k] /\ call'.from = c /\ call'.op = "next"
    BY <1>1, <1>8
  <2> QED BY <2>1, <2>2, <2>3 DEF NextIsNearest, here
<1> QED BY <1>1, <1>7, <1>8

\* Lemma: choose_browser().
LEMMA ChooseBrowserAnswers ==
    ASSUME SelectorAssumption, NEW c, ChooseBrowser(c)
    PROVE  ChosenIsFirst /\ call'.op = "choose"
<1> DEFINE k == FirstUsableOn(Rotation)
<1>1. call' = [op |-> "choose", from |-> c, picked |-> IF k = 0 THEN c ELSE Rotation[k]]
  BY DEF ChooseBrowser, Pick
<1>2. /\ Len(Rotation) \in Nat /\ Rotation \in [1..Len(Rotation) -> RotationBrowsers]
      /\ \A i \in 1..Len(Rotation) : Place(Rotation[i]) = i
      /\ \A b \in RotationBrowsers :
            Place(b) \in 1..Len(Rotation) /\ Rotation[Place(b)] = b
  BY PlacesAre
<1>3. /\ k = 0 => \A i \in 1..Len(Rotation) : ~ Usable(Rotation[i])
      /\ k # 0 => /\ k \in 1..Len(Rotation) /\ Usable(Rotation[k])
                  /\ \A i \in 1..Len(Rotation) : Usable(Rotation[i]) => k <= i
  BY <1>2, FirstUsableIs
<1> HIDE DEF k
<1>4. Healthy \subseteq RotationBrowsers
  BY DEF Healthy
<1>5. CASE k = 0
  <2>1. Healthy = {}
    BY <1>2, <1>3, <1>4, <1>5, UsableIsHealthy
  <2> QED BY <1>1, <1>5, <2>1 DEF ChosenIsFirst
<1>6. CASE k # 0
  <2>1. Rotation[k] \in Healthy /\ Place(Rotation[k]) = k
    BY <1>2, <1>3, <1>6, UsableIsHealthy
  <2>2. ASSUME NEW b \in Healthy PROVE k <= Place(b)
    <3>1. b \in RotationBrowsers /\ Usable(b)
      BY <1>4, UsableIsHealthy
    <3> QED BY <1>2, <1>3, <1>6, <3>1
  <2>3. call'.picked = Rotation[k] /\ call'.from = c /\ call'.op = "choose"
    BY <1>1, <1>6
  <2> QED BY <2>1, <2>2, <2>3 DEF ChosenIsFirst
<1> QED BY <1>1, <1>5, <1>6

\* Lemma: should_rotate().
LEMMA ShouldRotateAnswers ==
    ASSUME SelectorAssumption, NEW b \in RotationBrowsers, ShouldRotate(b)
    PROVE  RotatesUnhealthy /\ call'.op = "rotate"
<1>1. call' = [op |-> "rotate", from |-> b,
               picked |-> IF Usable(b) THEN b ELSE None]
  BY DEF ShouldRotate
<1>2. b # None
  BY DEF SelectorAssumption
<1> QED BY <1>1, <1>2, UsableIsHealthy DEF RotatesUnhealthy

\* Lemma: what failure_count() drops was healthy, and stays so.
LEMMA ForgetIsHarmless ==
    ASSUME SelectorAssumption, NEW asked, Forget(asked),
           last' = last, now' = now
    PROVE  Healthy' = Healthy
<1>1. ASSUME NEW b \in RotationBrowsers
      PROVE  \/ count'[b] = count[b]
             \/ now - last[b] > Ttl
  BY DEF Forget, Expired
<1>2. Healthy' = {b \in RotationBrowsers :
                              now - last[b] > Ttl \/ count'[b] < Threshold}
  BY DEF Healthy
<1> QED BY <1>1, <1>2 DEF Healthy

\* Lemma: so no question changes what is healthy.
LEMMA QuestionsAreHarmless ==
    ASSUME SelectorAssumption, NEW b,
           NextBrowser(b) \/ ChooseBrowser(b) \/ ShouldRotate(b)
    PROVE  AskingIsHarmless
<1>1. last' = last /\ now' = now /\ \E asked : Forget(asked)
  BY DEF NextBrowser, ChooseBrowser, ShouldRotate, Pick
<1> QED BY <1>1, ForgetIsHarmless DEF AskingIsHarmless

\* Lemma: the clock counts.
LEMMA SelectorClock == SelectorSpec => [](now \in Nat)
<1> DEFINE Clock == now \in Nat
<1>1. SelectorInit => Clock
  BY DEF SelectorInit
<1>2. Clock /\ [SelectorNext]_selectorVars => Clock'
  <2> SUFFICES ASSUME now \in Nat, [SelectorNext]_selectorVars PROVE now' \in Nat
    OBVIOUS
  <2>1. CASE Tick
    BY <2>1 DEF Tick
  <2>2. CASE \E b \in RotationBrowsers : \/ RecordFailure(b)
                                         \/ RecordSuccess(b)
                                         \/ ShouldRotate(b)
    BY <2>2 DEF RecordFailure, RecordSuccess, ShouldRotate
  <2>3. CASE \E b \in Currents : NextBrowser(b) \/ ChooseBrowser(b)
    BY <2>3 DEF NextBrowser, ChooseBrowser, Pick
  <2>4. CASE UNCHANGED selectorVars
    BY <2>4 DEF selectorVars
  <2> QED BY <2>1, <2>2, <2>3, <2>4 DEF SelectorNext
<1> QED BY <1>1, <1>2, PTL DEF SelectorSpec

\* Theorem: next_browser() answers with the healthy browser that follows the
\* current one most closely, choose_browser() with the first, should_rotate()
\* whether it is healthy, for any rotation, failures and expiry; and although each
\* drops the expired records it meets, none changes what the others answer.
THEOREM SelectorAnswersAreNearest ==
    ASSUME SelectorAssumption
    PROVE  SelectorSpec => AnswersAreNearest
<1> DEFINE A == /\ NextIsNearest /\ ChosenIsFirst
                /\ RotatesUnhealthy /\ AskingIsHarmless
<1>1. now \in Nat /\ SelectorNext => A
  <2> SUFFICES ASSUME now \in Nat, SelectorNext PROVE A
    OBVIOUS
  <2>1. CASE \E c \in Currents : NextBrowser(c)
    BY <2>1, NextBrowserAnswers, QuestionsAreHarmless
       DEF ChosenIsFirst, RotatesUnhealthy, Asks
  <2>2. CASE \E c \in Currents : ChooseBrowser(c)
    BY <2>2, ChooseBrowserAnswers, QuestionsAreHarmless
       DEF NextIsNearest, RotatesUnhealthy, Asks
  <2>3. CASE \E b \in RotationBrowsers : ShouldRotate(b)
    BY <2>3, ShouldRotateAnswers, QuestionsAreHarmless
       DEF NextIsNearest, ChosenIsFirst, Asks
  <2>4. CASE Tick
    <3>1. call' = call /\ now' # now
      BY <2>4 DEF Tick
    <3> QED BY <3>1 DEF NextIsNearest, ChosenIsFirst,
                        RotatesUnhealthy, AskingIsHarmless, Asks
  <2>5. CASE \E b \in RotationBrowsers : RecordFailure(b) \/ RecordSuccess(b)
    <3>1. call'.op \in {"fail", "succeed"}
      BY <2>5 DEF RecordFailure, RecordSuccess
    <3> QED BY <3>1 DEF NextIsNearest, ChosenIsFirst,
                        RotatesUnhealthy, AskingIsHarmless, Asks
  <2> QED BY <2>1, <2>2, <2>3, <2>4, <2>5 DEF SelectorNext
<1> QED BY <1>1, SelectorClock, PTL DEF SelectorSpec, AnswersAreNearest

=============================================================================
