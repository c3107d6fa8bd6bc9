-------------------------- MODULE RetryTieredProofs --------------------------
(***************************************************************************)
(* Theorems about the engine of the Go and Python clients, whatever the    *)
(* rotations, the budget, the stealth levels, the errors and the number of *)
(* executions: three lost sockets in a row spare the primary browsers for  *)
(* the rest of the execution; an attempt runs on the browser it is counted *)
(* for; a site that blocks is tried everywhere before the engine gives up, *)
(* or a whole level was blocked in the switches; and the engine implements *)
(* the contract of RetryContract.                                          *)
(***************************************************************************)
EXTENDS RetryTiered, SequenceTheorems, TLAPS

\* Between the head of the primary rotation and the return of tryBrowser()
\* the count stays below the limit it was compared with at the head.
InTry == {"switch", "attempt", "acting", "returned"}

SpareInv ==
    /\ consecutiveDisconnects \in Nat
    /\ pc \in InTry /\ allowTransient => consecutiveDisconnects < 3

\* What one step may not do once the client is overloaded.
Spares ==
    consecutiveDisconnects >= 3 /\ pc # "idle"
    => /\ consecutiveDisconnects' >= 3
       /\ ~(pc' \in {"switch", "attempt"} /\ allowTransient')

\* Init establishes the invariant: no disconnection, and no try.
LEMMA SpareInit == Init => SpareInv
BY DEF Init, SpareInv, InTry

\* The steps that judge no primary browser keep the count; only the guard of
\* TryPrimary, which looks at it, starts a try of a primary browser.
LEMMA RotationStep == ASSUME SpareInv, Rotating PROVE SpareInv' /\ Spares
<1>1. CASE LeaveLevels
  <2>1. /\ pc' = "idle"
        /\ UNCHANGED <<consecutiveDisconnects, allowTransient>>
    BY <1>1 DEF LeaveLevels, Return, judgeVars, tryVars
  <2>. QED BY <2>1 DEF SpareInv, Spares, InTry
<1>2. CASE LeavePrimary
  <2>1. /\ pc' \in {"idle", "level", "extended"}
        /\ UNCHANGED <<consecutiveDisconnects, allowTransient>>
    BY <1>2 DEF LeavePrimary, EndLevel, Return, tryVars
  <2>. QED BY <2>1 DEF SpareInv, Spares, InTry
<1>3. CASE LeaveExtended
  <2>1. /\ pc' \in {"idle", "level"}
        /\ UNCHANGED <<consecutiveDisconnects, allowTransient>>
    BY <1>3 DEF LeaveExtended, EndLevel, Return, judgeVars, tryVars
  <2>. QED BY <2>1 DEF SpareInv, Spares, InTry
<1>4. CASE SkipDown
  <2>1. /\ pc \in {"primary", "extended"}
        /\ UNCHANGED <<pc, consecutiveDisconnects, allowTransient>>
    BY <1>4 DEF SkipDown, judgeVars, tryVars
  <2>. QED BY <2>1 DEF SpareInv, Spares, InTry
<1>5. CASE TryPrimary
  <2>1. /\ ~(consecutiveDisconnects >= 3)
        /\ UNCHANGED consecutiveDisconnects
    BY <1>5 DEF TryPrimary, TryBrowser, Overloaded, judgeVars
  <2>. QED BY <2>1 DEF SpareInv, Spares
<1>6. CASE TryExtended
  <2>1. /\ allowTransient' = FALSE
        /\ UNCHANGED consecutiveDisconnects
    BY <1>6 DEF TryExtended, TryBrowser, judgeVars
  <2>. QED BY <2>1 DEF SpareInv, Spares
<1>7. CASE PrimaryFailed
  <2>1. /\ pc \in InTry /\ allowTransient
        /\ pc' \in {"idle", "primary"}
        /\ consecutiveDisconnects' \in
             {consecutiveDisconnects, consecutiveDisconnects + 1, 0}
    BY <1>7 DEF PrimaryFailed, Judge, Return, judgeVars, InTry
  <2>. QED BY <2>1 DEF SpareInv, Spares, InTry
<1>8. CASE ExtendedFailed
  <2>1. /\ pc' \in {"idle", "extended"}
        /\ UNCHANGED consecutiveDisconnects
    BY <1>8 DEF ExtendedFailed, Judge, Return
  <2>. QED BY <2>1 DEF SpareInv, Spares, InTry
<1>9. CASE EnterLevel
  <2>1. pc' = "primary" /\ UNCHANGED consecutiveDisconnects
    BY <1>9 DEF EnterLevel, judgeVars
  <2>. QED BY <2>1 DEF SpareInv, Spares, InTry
<1>. QED
  BY <1>1, <1>2, <1>3, <1>4, <1>5, <1>6, <1>7, <1>8, <1>9 DEF Rotating

\* The steps inside a try neither judge it nor change what it is a try of.
LEMMA TryStep ==
    ASSUME SpareInv,
           \/ Switching \/ Attempt \/ ActionSucceeds
           \/ \E e \in ActionErrors : ActionFails(e)
    PROVE  SpareInv' /\ Spares
<1>1. /\ pc \in InTry
      /\ pc' \in InTry \cup {"idle"}
      /\ UNCHANGED <<consecutiveDisconnects, allowTransient>>
  <2>1. CASE SwitchSucceeds
    BY <2>1 DEF SwitchSucceeds, InTry, judgeVars, tryVars
  <2>2. ASSUME NEW e \in SwitchErrors, SwitchFails(e) PROVE <1>1!:
    BY <2>2 DEF SwitchFails, ReturnFromTry, InTry, judgeVars, tryVars
  <2>3. CASE Attempt
    BY <2>3 DEF Attempt, ReturnFromTry, InTry, judgeVars, tryVars
  <2>4. CASE ActionSucceeds
    BY <2>4 DEF ActionSucceeds, Return, InTry, judgeVars, tryVars
  <2>5. ASSUME NEW e \in ActionErrors, ActionFails(e) PROVE <1>1!:
    BY <2>5 DEF ActionFails, Repeat, ReturnFromTry, InTry, judgeVars
  <2>. QED BY <2>1, <2>2, <2>3, <2>4, <2>5 DEF Switching
<1>. QED BY <1>1 DEF SpareInv, Spares, InTry

\* Every step of the engine keeps the invariant and spares the primary browsers.
LEMMA SpareStep == ASSUME SpareInv, [Next]_vars PROVE SpareInv' /\ Spares
<1>1. CASE Execute
  <2>1. pc = "idle" /\ pc' = "level" /\ consecutiveDisconnects' = 0
    BY <1>1 DEF Execute
  <2>. QED BY <2>1 DEF SpareInv, Spares, InTry
<1>2. CASE Rotating
  BY <1>2, RotationStep
<1>3. CASE Switching \/ Acting
  BY <1>3, TryStep DEF Acting
<1>4. CASE UNCHANGED vars
  <2>1. UNCHANGED <<pc, consecutiveDisconnects, allowTransient>>
    BY <1>4 DEF vars, judgeVars, tryVars
  <2>. QED BY <2>1 DEF SpareInv, Spares, InTry
<1>. QED BY <1>1, <1>2, <1>3, <1>4 DEF Next, Engine

\* The execution in which three primary browsers in a row lost their sockets
\* contacts no primary browser again (go/retry_engine.go:122 and
\* retry_engine.py:142).
THEOREM PrimarySpared == FairSpec => SparesPrimary
<1>1. SpareInv /\ [Next]_vars => SpareInv'
  BY SpareStep
<1>2. SpareInv /\ [Next]_vars => [Spares]_vars
  BY SpareStep
<1>. QED BY SpareInit, <1>1, <1>2, PTL DEF FairSpec, SparesPrimary, Spares

-----------------------------------------------------------------------------
USE DEF NoError

\* Types: the search, and the client it moves.
SearchTypes ==
    /\ pc \in {"idle", "level", "primary", "extended"} \cup InTry
    /\ totalAttempts \in Nat /\ si \in Nat /\ executions \in Nat
    /\ queue \in Seq(Browsers)
    /\ wasBlocked \in BOOLEAN /\ triedAny \in BOOLEAN /\ onlyBlocked \in BOOLEAN
    /\ error \in Errors \cup {NoError}

ClientTypes ==
    /\ currentStealth \in 0..3 /\ stealthLevel = currentStealth
    /\ browser \in Browsers /\ name \in Browsers
    /\ downBackends \subseteq Browsers

\* While every failure was a block and budget is left: no browser is down, no
\* socket was lost, the primary rotation leads on to the extended one, and that
\* one leaves no engine untried.
BlockedInv ==
    pc # "idle" /\ onlyBlocked /\ totalAttempts < Budget =>
        /\ downBackends = {} /\ consecutiveDisconnects = 0
        /\ pc = "primary" => wasBlocked \/ queue # <<>>
        /\ pc = "returned" => error # NoError /\ IsBlock(error)
        /\ pc = "extended" \/ (pc \in InTry /\ ~allowTransient)
              => Elems(Extended) \subseteq extendedTried \cup Elems(queue)
        /\ pc = "level" /\ si > 0 => Elems(Extended) \subseteq extendedTried

\* Before the first attempt of an execution: the level it starts with, or that
\* level's rotation, whose head is the browser in use if it is a primary one.
FirstInv ==
    pc # "idle" /\ totalAttempts = 0 =>
        /\ pc \in {"level", "primary", "attempt"} /\ ~switched
        /\ downBackends = {} /\ consecutiveDisconnects = 0
        /\ pc = "level" => si = 0
        /\ pc = "primary" => queue = OrderedPrimary(browser)

\* Where the attempts run.  The adapter can only be dead before the first switch
\* of an execution that is not the client's first, or in the midst of a switch.
PlaceInv ==
    /\ switched \in BOOLEAN
    /\ executions = 0 => pc = "idle" /\ adapter = "live"
    /\ pc # "idle" /\ ~switched /\ adapter # "live" => executions > 1
    /\ pc = "switch" => switched /\ browser = name
    /\ pc \in {"attempt", "acting"} =>
          IF switched THEN browser = name /\ adapter = "live"
          ELSE browser # name => browser \notin Elems(Primary)

TieredInv ==
    /\ SearchTypes /\ ClientTypes
    /\ SpareInv /\ BlockedInv /\ FirstInv /\ PlaceInv /\ BlockedTriesEverything

\* Lemma: the rotations consist of browsers.
LEMMA RotationTypes ==
    /\ Primary \in Seq(Browsers) /\ Extended \in Seq(Browsers) /\ Primary # <<>>
<1>1. Elems(Primary) \subseteq Browsers /\ Elems(Extended) \subseteq Browsers
  BY DEF Browsers
<1>2. Primary \in Seq(Elems(Primary)) /\ Extended \in Seq(Elems(Extended))
  BY TieredAssumption
<1>3. ASSUME NEW S, NEW T, S \subseteq T, NEW s \in Seq(S) PROVE s \in Seq(T)
  BY <1>3
<1> QED BY <1>1, <1>2, <1>3, TieredAssumption

\* Lemma: the first rotation of an execution has every primary browser's place
\* filled, and at least one.
LEMMA OrderedPrimaryType ==
    ASSUME NEW start
    PROVE  OrderedPrimary(start) \in Seq(Browsers) /\ OrderedPrimary(start) # <<>>
<1>0. Primary \in Seq(Browsers) /\ Primary # <<>> /\ Len(<<>>) = 0
  BY RotationTypes, EmptySeq
<1>1. CASE start \in Elems(Primary)
  <2> DEFINE i == CHOOSE i \in DOMAIN Primary : Primary[i] = start
  <2>1. i \in DOMAIN Primary /\ DOMAIN Primary = 1..Len(Primary)
    BY <1>0, <1>1 DEF Elems
  <2> HIDE DEF i
  <2>2. \A j \in 1..Len(Primary) : Primary[j] \in Browsers
    BY <1>0
  <2>3. i \in 1..Len(Primary) /\ i - 1 \in Int /\ Len(Primary) \in Nat
    BY <1>0, <2>1
  <2>4. SubSeq(Primary, i, Len(Primary)) \in Seq(Browsers)
        /\ Len(SubSeq(Primary, i, Len(Primary))) > 0
    BY <1>0, <2>2, <2>3, SubSeqProperties
  <2>5. SubSeq(Primary, 1, i - 1) \in Seq(Browsers)
    BY <1>0, <2>2, <2>3, SubSeqProperties
  <2>6. OrderedPrimary(start) = SubSeq(Primary, i, Len(Primary)) \o SubSeq(Primary, 1, i - 1)
    BY <1>1 DEF OrderedPrimary, i
  <2>7. Len(SubSeq(Primary, 1, i - 1)) \in Nat
    BY <2>5, LenProperties
  <2>8. OrderedPrimary(start) \in Seq(Browsers) /\ Len(OrderedPrimary(start)) > 0
    BY <2>4, <2>5, <2>6, <2>7, ConcatProperties
  <2> QED BY <1>0, <2>8
<1>2. CASE start \notin Elems(Primary)
  BY <1>0, <1>2 DEF OrderedPrimary
<1> QED BY <1>1, <1>2

\* Lemma: a queue holds its head and what its tail holds.
LEMMA ElemsOfQueue ==
    ASSUME NEW q \in Seq(Browsers), q # <<>>
    PROVE  /\ Head(q) \in Browsers /\ Tail(q) \in Seq(Browsers)
           /\ Elems(q) = {Head(q)} \cup Elems(Tail(q))
<1>1. Len(q) \in Nat \ {0} /\ Head(q) = q[1] /\ DOMAIN q = 1..Len(q)
  BY EmptySeq
<1>2. /\ Head(q) \in Browsers /\ Tail(q) \in Seq(Browsers)
      /\ Len(Tail(q)) = Len(q) - 1 /\ DOMAIN Tail(q) = 1..(Len(q) - 1)
      /\ \A i \in 1..Len(Tail(q)) : Tail(q)[i] = q[i + 1]
  BY HeadTailProperties, LenProperties
<1>3. ASSUME NEW i \in 1..Len(q) PROVE q[i] \in {Head(q)} \cup Elems(Tail(q))
  <2>1. CASE i = 1
    BY <1>1, <2>1
  <2>2. CASE i # 1
    <3>1. i - 1 \in DOMAIN Tail(q) /\ q[i] = Tail(q)[i - 1]
      BY <1>1, <1>2, <2>2
    <3> QED BY <3>1 DEF Elems
  <2> QED BY <2>1, <2>2
<1>4. ASSUME NEW i \in DOMAIN Tail(q) PROVE Tail(q)[i] \in Elems(q)
  <2>1. i + 1 \in DOMAIN q /\ Tail(q)[i] = q[i + 1]
    BY <1>1, <1>2
  <2> QED BY <2>1 DEF Elems
<1>5. Head(q) \in Elems(q)
  BY <1>1 DEF Elems
<1>6. Elems(q) \subseteq {Head(q)} \cup Elems(Tail(q))
  BY <1>1, <1>3 DEF Elems
<1>7. Elems(Tail(q)) \subseteq Elems(q)
  BY <1>4 DEF Elems
<1> QED BY <1>2, <1>5, <1>6, <1>7

\* Lemma: the search keeps its types.
LEMMA SearchTypeStep == SearchTypes /\ [Next]_vars => SearchTypes'
<1> SUFFICES ASSUME SearchTypes, [Next]_vars PROVE SearchTypes'
  OBVIOUS
<1> USE DEF SearchTypes, InTry, contextVars, judgeVars, tryVars, historyVars
<1>1. CASE Execute
  <2>1. wasBlocked' \in BOOLEAN /\ onlyBlocked' \in BOOLEAN /\ triedAny' \in BOOLEAN
    BY <1>1 DEF Execute
  <2>2. queue' \in Seq(Browsers) /\ error' = NoError
    BY <1>1, EmptySeq DEF Execute
  <2>3. pc' = "level" /\ totalAttempts' = 0 /\ si' = 0 /\ executions' = executions + 1
    BY <1>1 DEF Execute
  <2> QED BY <2>1, <2>2, <2>3
<1>2. CASE EnterLevel
  <2>1. queue' \in Seq(Browsers)
    BY <1>2, RotationTypes, OrderedPrimaryType DEF EnterLevel
  <2>2. triedAny' = FALSE /\ UNCHANGED <<wasBlocked, onlyBlocked, error>>
    BY <1>2 DEF EnterLevel
  <2>3. pc' = "primary" /\ si' \in Nat /\ UNCHANGED <<totalAttempts, executions>>
    BY <1>2 DEF EnterLevel
  <2> QED BY <2>1, <2>2, <2>3
<1>3. CASE LeaveLevels
  BY <1>3 DEF LeaveLevels, Return
<1>4. CASE LeavePrimary
  <2>1. queue' \in Seq(Browsers)
    BY <1>4, RotationTypes DEF LeavePrimary
  <2>2. pc' \in {"extended", "level", "idle"}
    BY <1>4 DEF LeavePrimary, EndLevel, Return
  <2>3. wasBlocked' \in BOOLEAN
    BY <1>4 DEF LeavePrimary
  <2> QED BY <1>4, <2>1, <2>2, <2>3 DEF LeavePrimary
<1>5. CASE LeaveExtended
  BY <1>5 DEF LeaveExtended, EndLevel, Return
<1>6. CASE SkipDown
  BY <1>6, ElemsOfQueue DEF SkipDown
<1>7. CASE TryPrimary
  BY <1>7, ElemsOfQueue DEF TryPrimary, TryBrowser
<1>8. CASE TryExtended
  BY <1>8, ElemsOfQueue DEF TryExtended, TryBrowser
<1>9. CASE PrimaryFailed
  <2>1. wasBlocked' \in BOOLEAN
    BY <1>9 DEF PrimaryFailed, IsBlock
  <2>2. pc' \in {"idle", "primary"}
    BY <1>9 DEF PrimaryFailed, Judge, Return
  <2> QED BY <1>9, <2>1, <2>2 DEF PrimaryFailed
<1>10. CASE ExtendedFailed
  BY <1>10 DEF ExtendedFailed, Judge, Return
<1>11. CASE SwitchSucceeds
  BY <1>11 DEF SwitchSucceeds
<1>12. ASSUME NEW e \in SwitchErrors, SwitchFails(e) PROVE SearchTypes'
  BY <1>12, TieredAssumption DEF SwitchFails, ReturnFromTry
<1>13. CASE Attempt
  <2>1. triedAny' \in BOOLEAN /\ UNCHANGED <<wasBlocked, onlyBlocked, error, queue, si, executions>>
    BY <1>13 DEF Attempt, ReturnFromTry
  <2>2. pc' \in {"acting", "returned"} /\ totalAttempts' \in Nat
    BY <1>13 DEF Attempt, ReturnFromTry
  <2> QED BY <2>1, <2>2
<1>14. CASE ActionSucceeds
  BY <1>14 DEF ActionSucceeds, Return
<1>15. ASSUME NEW e \in ActionErrors, ActionFails(e) PROVE SearchTypes'
  <2>1. onlyBlocked' \in BOOLEAN
    BY <1>15 DEF ActionFails
  <2>2. pc' \in InTry /\ triedAny' \in BOOLEAN /\ error' = e
    BY <1>15 DEF ActionFails, Repeat, ReturnFromTry
  <2>3. e \in Errors
    BY TieredAssumption
  <2> QED BY <1>15, <2>1, <2>2, <2>3 DEF ActionFails
<1>16. CASE UNCHANGED vars
  BY <1>16 DEF vars
<1> QED BY <1>1, <1>2, <1>3, <1>4, <1>5, <1>6, <1>7, <1>8, <1>9, <1>10, <1>11, <1>12, <1>13, <1>14, <1>15, <1>16
    DEF Next, Engine, Rotating, Switching, Acting

\* Lemma: the client is where the engine put it, at the engine's stealth.
LEMMA ClientTypeStep == SearchTypes /\ ClientTypes /\ [Next]_vars => ClientTypes'
<1> SUFFICES ASSUME SearchTypes, ClientTypes, [Next]_vars PROVE ClientTypes'
  OBVIOUS
<1> USE DEF ClientTypes, InTry, contextVars, judgeVars, tryVars, historyVars
<1>1. CASE Execute
  BY <1>1 DEF Execute
<1>2. CASE EnterLevel
  BY <1>2, TieredAssumption DEF EnterLevel, SearchTypes
<1>3. CASE LeaveLevels
  BY <1>3 DEF LeaveLevels, Return
<1>4. CASE LeavePrimary
  BY <1>4 DEF LeavePrimary, EndLevel, Return
<1>5. CASE LeaveExtended
  BY <1>5 DEF LeaveExtended, EndLevel, Return
<1>6. CASE SkipDown
  BY <1>6 DEF SkipDown
<1>7. CASE TryPrimary
  BY <1>7, ElemsOfQueue DEF TryPrimary, TryBrowser, SearchTypes
<1>8. CASE TryExtended
  BY <1>8, ElemsOfQueue DEF TryExtended, TryBrowser, SearchTypes
<1>9. CASE PrimaryFailed
  BY <1>9 DEF PrimaryFailed, Judge, Return
<1>10. CASE ExtendedFailed
  BY <1>10 DEF ExtendedFailed, Judge, Return
<1>11. CASE SwitchSucceeds
  BY <1>11 DEF SwitchSucceeds
<1>12. ASSUME NEW e \in SwitchErrors, SwitchFails(e) PROVE ClientTypes'
  BY <1>12 DEF SwitchFails, ReturnFromTry
<1>13. CASE Attempt
  BY <1>13 DEF Attempt, ReturnFromTry
<1>14. CASE ActionSucceeds
  BY <1>14 DEF ActionSucceeds, Return
<1>15. ASSUME NEW e \in ActionErrors, ActionFails(e) PROVE ClientTypes'
  BY <1>15 DEF ActionFails, Repeat, ReturnFromTry
<1>16. CASE UNCHANGED vars
  BY <1>16 DEF vars
<1> QED BY <1>1, <1>2, <1>3, <1>4, <1>5, <1>6, <1>7, <1>8, <1>9, <1>10, <1>11, <1>12, <1>13, <1>14, <1>15, <1>16
    DEF Next, Engine, Rotating, Switching, Acting

\* Lemma: attempts that are all blocked leave no engine of a level untried.
LEMMA BlockedStep == SearchTypes /\ SpareInv /\ BlockedInv /\ [Next]_vars => BlockedInv'
<1> SUFFICES ASSUME SearchTypes, SpareInv, BlockedInv, [Next]_vars PROVE BlockedInv'
  OBVIOUS
<1> USE DEF BlockedInv, InTry, contextVars, judgeVars, tryVars, historyVars
<1>a. /\ totalAttempts \in Nat /\ Budget \in Nat \ {0} /\ si \in Nat
      /\ consecutiveDisconnects \in Nat /\ queue \in Seq(Browsers)
  BY TieredAssumption DEF SearchTypes, SpareInv, Budget
<1>1. CASE Execute
  BY <1>1, <1>a DEF Execute
<1>2. CASE EnterLevel
  BY <1>2, <1>a, RotationTypes, OrderedPrimaryType DEF EnterLevel
<1>3. CASE LeaveLevels
  BY <1>3, <1>a DEF LeaveLevels, Return
<1>4. CASE LeavePrimary
  <2> SUFFICES ASSUME onlyBlocked, totalAttempts < Budget PROVE BlockedInv'
    BY <1>4 DEF LeavePrimary
  <2>1. wasBlocked /\ downBackends = {} /\ consecutiveDisconnects = 0
    BY <1>4, <1>a DEF LeavePrimary, Overloaded
  <2>2. wasBlocked' = TRUE
    BY <1>4, <2>1 DEF LeavePrimary
  <2>3. pc' = "extended" /\ queue' = Extended
    BY <1>4, <2>2 DEF LeavePrimary
  <2>4. UNCHANGED <<downBackends, consecutiveDisconnects>>
    BY <1>4 DEF LeavePrimary
  <2> QED BY <2>1, <2>3, <2>4
<1>5. CASE LeaveExtended
  <2>1. queue = <<>> => Elems(queue) = {}
    BY EmptySeq DEF Elems
  <2> QED BY <1>5, <1>a, <2>1 DEF LeaveExtended, EndLevel, Return
<1>6. CASE SkipDown
  BY <1>6, <1>a DEF SkipDown, IsDown
<1>7. CASE TryPrimary
  BY <1>7, <1>a DEF TryPrimary, TryBrowser
<1>8. CASE TryExtended
  BY <1>8, <1>a, ElemsOfQueue DEF TryExtended, TryBrowser
<1>9. CASE PrimaryFailed
  <2> SUFFICES ASSUME onlyBlocked, totalAttempts < Budget, pc' # "idle" PROVE BlockedInv'
    BY <1>9 DEF PrimaryFailed
  <2>1. /\ error # NoError /\ IsBlock(error)
        /\ downBackends = {} /\ consecutiveDisconnects = 0
    BY <1>9 DEF PrimaryFailed
  <2>2. ~isDisconnectionError(error) \/ IsBlock(error) = FALSE
    BY DEF isDisconnectionError, IsBlock, classifyError
  <2>3. wasBlocked' = TRUE
    BY <1>9, <2>1 DEF PrimaryFailed
  <2>4. pc' = "primary" /\ consecutiveDisconnects' = 0
    BY <1>9, <2>1, <2>2 DEF PrimaryFailed, Judge, Return
  <2>5. UNCHANGED downBackends
    BY <1>9 DEF PrimaryFailed
  <2> QED BY <2>1, <2>3, <2>4, <2>5
<1>10. CASE ExtendedFailed
  BY <1>10, <1>a DEF ExtendedFailed, Judge, Return
<1>11. CASE SwitchSucceeds
  BY <1>11, <1>a DEF SwitchSucceeds
<1>12. ASSUME NEW e \in SwitchErrors, SwitchFails(e) PROVE BlockedInv'
  <2> SUFFICES ASSUME onlyBlocked, totalAttempts < Budget, IsBlock(e) PROVE BlockedInv'
    BY <1>12 DEF SwitchFails
  <2>1. e # NoError /\ e # "BackendUnavailable"
    BY TieredAssumption DEF Errors, IsBlock, classifyError
  <2>2. pc' = "returned" /\ error' = e /\ UNCHANGED downBackends
    BY <1>12, <2>1 DEF SwitchFails, ReturnFromTry
  <2>3. /\ pc = "switch"
        /\ UNCHANGED <<consecutiveDisconnects, extendedTried, queue, allowTransient>>
    BY <1>12 DEF SwitchFails
  <2> QED BY <2>1, <2>2, <2>3
<1>13. CASE Attempt
  BY <1>13, <1>a DEF Attempt, ReturnFromTry
<1>14. CASE ActionSucceeds
  BY <1>14, <1>a DEF ActionSucceeds, Return
<1>15. ASSUME NEW e \in ActionErrors, ActionFails(e) PROVE BlockedInv'
  <2> SUFFICES ASSUME onlyBlocked, totalAttempts < Budget, classifyError(e) = "blocked"
               PROVE  BlockedInv'
    BY <1>15 DEF ActionFails
  <2>1. e # NoError
    BY TieredAssumption DEF Errors
  <2>2. ReturnFromTry(TRUE, e) /\ UNCHANGED downBackends
    BY <1>15 DEF ActionFails
  <2>3. UNCHANGED <<consecutiveDisconnects, extendedTried, queue, allowTransient, totalAttempts>>
    BY <1>15 DEF ActionFails
  <2>4. pc' = "returned" /\ error' = e
    BY <2>2 DEF ReturnFromTry
  <2> QED BY <1>15, <2>1, <2>2, <2>3, <2>4 DEF ActionFails, IsBlock
<1>16. CASE UNCHANGED vars
  BY <1>16, <1>a DEF vars
<1> QED BY <1>1, <1>2, <1>3, <1>4, <1>5, <1>6, <1>7, <1>8, <1>9, <1>10, <1>11, <1>12, <1>13, <1>14, <1>15, <1>16
    DEF Next, Engine, Rotating, Switching, Acting

\* Lemma: an execution that gives up on a site that blocks has tried everything.
LEMMA TriesEverythingStep ==
    TieredInv /\ [Next]_vars => BlockedTriesEverything'
<1> SUFFICES ASSUME TieredInv, [Next]_vars, pc' = "idle", outcome' # "ok",
                    executions' > 0, onlyBlocked', totalAttempts' < Budget
             PROVE  /\ Elems(Extended) \subseteq extendedTried'
                    /\ currentStealth' >= MaxStealth \/ ~triedAny'
  BY DEF BlockedTriesEverything
<1>a. /\ totalAttempts \in Nat /\ si \in Nat /\ Budget \in Nat \ {0}
      /\ consecutiveDisconnects \in Nat
  BY TieredAssumption DEF TieredInv, SearchTypes, SpareInv, Budget
<1> USE DEF contextVars, judgeVars, tryVars, historyVars
<1>1. CASE LeaveLevels
  BY <1>1, <1>a DEF LeaveLevels, TieredInv, BlockedInv
<1>2. CASE LeavePrimary
  <2>1. onlyBlocked /\ totalAttempts < Budget /\ ~wasBlocked
    BY <1>2 DEF LeavePrimary
  <2> QED BY <1>2, <2>1, <1>a DEF LeavePrimary, TieredInv, BlockedInv, Overloaded
<1>3. CASE LeaveExtended
  <2>1. onlyBlocked /\ totalAttempts < Budget /\ ~triedAny /\ ~triedAny'
    BY <1>3 DEF LeaveExtended, EndLevel
  <2>2. queue = <<>> /\ Elems(queue) = {}
    BY <1>3, <1>a, <2>1, EmptySeq DEF LeaveExtended, Elems
  <2> QED BY <1>3, <2>1, <2>2 DEF LeaveExtended, TieredInv, BlockedInv
<1>4. CASE PrimaryFailed \/ ExtendedFailed
  <2>1. pc = "returned" /\ onlyBlocked /\ totalAttempts < Budget
        /\ classifyError(error) = "auth"
    BY <1>4 DEF PrimaryFailed, ExtendedFailed, Judge
  <2> QED BY <2>1 DEF TieredInv, BlockedInv, IsBlock
<1>5. CASE SkipDown \/ TryPrimary \/ TryExtended \/ Attempt \/ Execute \/ EnterLevel
  BY <1>5 DEF SkipDown, TryPrimary, TryExtended, TryBrowser, Attempt, ReturnFromTry,
              Execute, EnterLevel
<1>6. CASE Switching
  BY <1>6 DEF Switching, SwitchSucceeds, SwitchFails, ReturnFromTry
<1>7. CASE ActionSucceeds \/ \E e \in ActionErrors : ActionFails(e)
  BY <1>7 DEF ActionSucceeds, ActionFails, Return, Repeat, ReturnFromTry
<1>8. CASE UNCHANGED vars
  BY <1>8 DEF vars, TieredInv, BlockedTriesEverything
<1> QED BY <1>1, <1>2, <1>3, <1>4, <1>5, <1>6, <1>7, <1>8
    DEF Next, Engine, Rotating, Acting

\* Lemma: the rotation of the first level starts at the browser in use.
LEMMA OrderedPrimaryHead ==
    ASSUME NEW start \in Elems(Primary)
    PROVE  Head(OrderedPrimary(start)) = start
<1> DEFINE i == CHOOSE i \in DOMAIN Primary : Primary[i] = start
<1>1. Primary \in Seq(Browsers) /\ DOMAIN Primary = 1..Len(Primary) /\ Len(Primary) \in Nat
  BY RotationTypes, LenProperties
<1>2. i \in 1..Len(Primary) /\ Primary[i] = start
  BY <1>1 DEF Elems
<1>3. OrderedPrimary(start) = SubSeq(Primary, i, Len(Primary)) \o SubSeq(Primary, 1, i - 1)
  BY DEF OrderedPrimary
<1> HIDE DEF i
<1> DEFINE first == SubSeq(Primary, i, Len(Primary))
           rest  == SubSeq(Primary, 1, i - 1)
<1>4. \A j \in 1..Len(Primary) : Primary[j] \in Browsers
  BY <1>1
<1>5. /\ first \in Seq(Browsers) /\ Len(first) = Len(Primary) - i + 1
      /\ first[1] = Primary[i]
  BY <1>1, <1>2, <1>4, SubSeqProperties
<1>6. rest \in Seq(Browsers) /\ Len(rest) \in Nat
  BY <1>1, <1>2, <1>4, SubSeqProperties, LenProperties
<1> HIDE DEF first, rest
<1>7. first \o rest \in Seq(Browsers) /\ first \o rest # <<>> /\ (first \o rest)[1] = first[1]
  BY <1>1, <1>2, <1>5, <1>6, ConcatProperties, EmptySeq
<1>8. Head(first \o rest) = (first \o rest)[1]
  BY <1>7, HeadTailProperties
<1> QED BY <1>2, <1>3, <1>5, <1>7, <1>8 DEF first, rest

\* Lemma: the first attempt of an execution is preceded by nothing but the
\* choice of its level and rotation.
LEMMA FirstStep == SearchTypes /\ FirstInv /\ [Next]_vars => FirstInv'
<1> SUFFICES ASSUME SearchTypes, FirstInv, [Next]_vars, pc' # "idle", totalAttempts' = 0
             PROVE  FirstInv'
  BY DEF FirstInv
<1> USE DEF FirstInv, InTry, contextVars, judgeVars, tryVars, historyVars
<1>a. totalAttempts \in Nat /\ Budget \in Nat \ {0} /\ si \in Nat
  BY TieredAssumption DEF SearchTypes, Budget
<1>b. OrderedPrimary(browser) # <<>>
  BY OrderedPrimaryType
<1>1. CASE Execute
  BY <1>1 DEF Execute
<1>2. CASE EnterLevel
  BY <1>2, <1>a DEF EnterLevel
<1>3. CASE LeaveLevels \/ LeavePrimary \/ LeaveExtended
  BY <1>3, <1>a, <1>b DEF LeaveLevels, LeavePrimary, LeaveExtended, Return, Overloaded
<1>4. CASE SkipDown
  BY <1>4, <1>a DEF SkipDown, IsDown
<1>5. CASE TryPrimary
  BY <1>5, <1>a DEF TryPrimary, TryBrowser, MustSwitch
<1>6. CASE TryExtended
  BY <1>6, <1>a DEF TryExtended, TryBrowser
<1>7. CASE PrimaryFailed \/ ExtendedFailed
  BY <1>7, <1>a DEF PrimaryFailed, ExtendedFailed
<1>8. CASE Switching
  BY <1>8, <1>a DEF Switching, SwitchSucceeds, SwitchFails
<1>9. CASE Acting
  BY <1>9, <1>a DEF Acting, Attempt, ActionSucceeds, ActionFails, ReturnFromTry
<1>10. CASE UNCHANGED vars
  BY <1>10 DEF vars
<1> QED BY <1>1, <1>2, <1>3, <1>4, <1>5, <1>6, <1>7, <1>8, <1>9, <1>10
    DEF Next, Engine, Rotating

\* Lemma: the client stays where the attempts are counted.
LEMMA PlaceStep == SearchTypes /\ FirstInv /\ PlaceInv /\ [Next]_vars => PlaceInv'
<1> SUFFICES ASSUME SearchTypes, FirstInv, PlaceInv, [Next]_vars PROVE PlaceInv'
  OBVIOUS
<1> USE DEF PlaceInv, InTry, contextVars, judgeVars, tryVars, historyVars
<1>a. totalAttempts \in Nat /\ executions \in Nat
  BY DEF SearchTypes
<1>1. CASE Execute
  <2>1. /\ pc' = "level" /\ switched' = FALSE
        /\ executions' = executions + 1 /\ UNCHANGED adapter
    BY <1>1 DEF Execute
  <2>2. executions = 0 => adapter = "live"
    OBVIOUS
  <2>3. executions # 0 => executions' > 1
    BY <1>a, <2>1
  <2>4. executions' # 0
    BY <1>a, <2>1
  <2> QED BY <2>1, <2>2, <2>3, <2>4
<1>2. CASE EnterLevel
  BY <1>2 DEF EnterLevel
<1>3. CASE LeaveLevels \/ LeavePrimary \/ LeaveExtended
  BY <1>3 DEF LeaveLevels, LeavePrimary, LeaveExtended, EndLevel, Return
<1>4. CASE SkipDown
  BY <1>4 DEF SkipDown
<1>5. CASE TryPrimary
  <2>1. CASE totalAttempts > 0
    <3>1. /\ pc' = "switch" /\ switched' = TRUE /\ browser' = name'
          /\ pc # "idle" /\ UNCHANGED executions
      BY <1>5, <2>1 DEF TryPrimary, TryBrowser, MustSwitch
    <3> QED BY <3>1
  <2>2. CASE totalAttempts = 0
    <3>1. ~switched /\ queue = OrderedPrimary(browser)
      BY <1>5, <2>2 DEF FirstInv, TryPrimary
    <3>2. /\ pc' = "attempt" /\ pc = "primary" /\ name' = Head(queue)
          /\ UNCHANGED <<adapter, browser, switched, executions>>
      BY <1>5, <2>2 DEF TryPrimary, TryBrowser, MustSwitch
    <3>3. browser' # name' => browser' \notin Elems(Primary)
      BY <3>1, <3>2, OrderedPrimaryHead
    <3> QED BY <3>1, <3>2, <3>3
  <2> QED BY <1>a, <2>1, <2>2
<1>6. CASE TryExtended
  <2>1. totalAttempts > 0
    BY <1>6, <1>a DEF TryExtended, FirstInv
  <2>2. /\ pc' = "switch" /\ switched' = TRUE /\ browser' = name'
        /\ pc # "idle" /\ UNCHANGED executions
    BY <1>6, <2>1 DEF TryExtended, TryBrowser, MustSwitch
  <2> QED BY <2>2
<1>7. CASE PrimaryFailed \/ ExtendedFailed
  BY <1>7 DEF PrimaryFailed, ExtendedFailed, Judge, Return
<1>8. CASE SwitchSucceeds
  BY <1>8 DEF SwitchSucceeds
<1>9. ASSUME NEW e \in SwitchErrors, SwitchFails(e) PROVE PlaceInv'
  <2>1. /\ pc = "switch" /\ pc' = "returned"
        /\ UNCHANGED <<executions, switched, browser, name>>
    BY <1>9 DEF SwitchFails, ReturnFromTry
  <2> QED BY <2>1
<1>10. CASE Attempt
  <2>1. pc = "attempt" /\ pc' \in {"acting", "returned"}
    BY <1>10 DEF Attempt, ReturnFromTry
  <2>2. UNCHANGED <<executions, switched, browser, name, adapter>>
    BY <1>10 DEF Attempt
  <2> QED BY <2>1, <2>2
<1>11. CASE ActionSucceeds
  BY <1>11 DEF ActionSucceeds, Return
<1>12. ASSUME NEW e \in ActionErrors, ActionFails(e) PROVE PlaceInv'
  <2>1. pc = "acting" /\ pc' \in {"attempt", "returned"}
    BY <1>12 DEF ActionFails, Repeat, ReturnFromTry
  <2>2. UNCHANGED <<executions, switched, browser, name, adapter>>
    BY <1>12 DEF ActionFails
  <2> QED BY <2>1, <2>2
<1>13. CASE UNCHANGED vars
  BY <1>13 DEF vars
<1> QED BY <1>1, <1>2, <1>3, <1>4, <1>5, <1>6, <1>7, <1>8, <1>9, <1>10, <1>11, <1>12, <1>13
    DEF Next, Engine, Rotating, Switching, Acting

\* Lemma: the engine starts in the invariant.
LEMMA TieredInit == Init => TieredInv
<1> SUFFICES ASSUME Init PROVE TieredInv
  OBVIOUS
<1> USE DEF Init
<1>1. SearchTypes
  BY EmptySeq DEF SearchTypes
<1>2. ClientTypes
  BY TieredAssumption DEF ClientTypes, Browsers
<1>3. SpareInv /\ BlockedInv /\ BlockedTriesEverything
  BY SpareInit DEF BlockedInv, BlockedTriesEverything
<1>4. FirstInv /\ PlaceInv
  BY DEF FirstInv, PlaceInv
<1> QED BY <1>1, <1>2, <1>3, <1>4 DEF TieredInv

\* Theorem: the invariant holds throughout, over any number of executions.
THEOREM TieredInvariant == FairSpec => []TieredInv
<1>1. TieredInv /\ [Next]_vars => TieredInv'
  BY SearchTypeStep, ClientTypeStep, SpareStep, BlockedStep, FirstStep, PlaceStep,
     TriesEverythingStep DEF TieredInv
<1> QED BY <1>1, TieredInit, PTL DEF FairSpec

\* Theorem: an attempt runs on a live adapter of the browser it is counted for,
\* whatever switches failed before it (go/retry_engine.go:199 and :265); only
\* before the first switch of an execution it runs where the client was left.
THEOREM AttemptsWhereCounted == FairSpec => []AttemptsAtItsBrowser
<1>1. TieredInv => AttemptsAtItsBrowser
  BY DEF TieredInv, PlaceInv, AttemptsAtItsBrowser
<1> QED BY <1>1, TieredInvariant, PTL

\* Theorem: when every failure was a block and the engine gives up with budget
\* left, it has tried every extended engine of the level, and is at the top
\* stealth level or has reached the action with no browser of this one.
THEOREM BlockedSearchComplete == FairSpec => []BlockedTriesEverything
<1>1. TieredInv => BlockedTriesEverything
  BY DEF TieredInv
<1> QED BY <1>1, TieredInvariant, PTL

\* Lemma: every step is one of the contract, or changes nothing it speaks of.
LEMMA ContractStep ==
    ASSUME TieredInv, [Next]_vars
    PROVE  [Contract!Next]_(Contract!contractVars)
<1> DEFINE Still == UNCHANGED <<totalAttempts, stealthLevel, browser, downBackends>>
<1> USE DEF contextVars, judgeVars, tryVars, historyVars
<1>0. /\ queue \in Seq(Browsers) /\ name \in Browsers /\ browser \in Browsers
      /\ downBackends \subseteq Browsers /\ stealthLevel = currentStealth
  BY DEF TieredInv, SearchTypes, ClientTypes
<1>1. ASSUME Still, pc # "idle"
      PROVE  [Contract!Next]_(Contract!contractVars)
  <2>1. CASE pc' = "idle"
    BY <1>1, <2>1 DEF Contract!Next, Contract!Stop
  <2>2. CASE pc' # "idle"
    BY <1>1, <2>2 DEF Contract!contractVars
  <2> QED BY <2>1, <2>2
<1>2. CASE Execute
  BY <1>2 DEF Execute, Contract!Next, Contract!Start
<1>3. CASE EnterLevel
  <2>1. CASE si = 0
    BY <1>3, <2>1, <1>1 DEF EnterLevel
  <2>2. CASE si # 0
    <3>1. si \in Nat
      BY DEF TieredInv, SearchTypes
    <3>2. stealthLevel < MaxStealth /\ stealthLevel' = stealthLevel + 1
      BY <1>0, <1>3, <2>2, <3>1 DEF EnterLevel
    <3> QED BY <1>3, <3>2 DEF EnterLevel, Contract!Next, Contract!Escalate
  <2> QED BY <2>1, <2>2
<1>4. CASE LeaveLevels \/ LeavePrimary \/ LeaveExtended \/ SkipDown
  BY <1>1, <1>4 DEF LeaveLevels, LeavePrimary, LeaveExtended, SkipDown
<1>5. CASE PrimaryFailed \/ ExtendedFailed
  BY <1>1, <1>5 DEF PrimaryFailed, ExtendedFailed
<1>6. CASE TryPrimary \/ TryExtended
  <2>1. /\ pc # "idle" /\ Head(queue) \in Browsers \ downBackends
        /\ UNCHANGED <<totalAttempts, stealthLevel, downBackends>>
    BY <1>0, <1>6, ElemsOfQueue DEF TryPrimary, TryExtended, TryBrowser, IsDown
  <2>2. CASE browser' = browser
    BY <1>1, <2>1, <2>2
  <2>3. CASE browser' = Head(queue) /\ pc' = "switch"
    BY <2>1, <2>3 DEF Contract!Next, Contract!Move
  <2> QED BY <1>6, <2>2, <2>3 DEF TryPrimary, TryExtended, TryBrowser
<1>7. ASSUME NEW down \in SUBSET Browsers, downBackends' = downBackends \cup down,
             pc # "idle", pc' # "idle",
             UNCHANGED <<totalAttempts, stealthLevel, browser>>
      PROVE  [Contract!Next]_(Contract!contractVars)
  BY <1>0, <1>7 DEF Contract!Avoid, Contract!Next
<1>8. ASSUME NEW down \in {{}, {name}}, downBackends' = downBackends \cup down,
             pc # "idle", pc' # "idle",
             UNCHANGED <<totalAttempts, stealthLevel, browser>>
      PROVE  [Contract!Next]_(Contract!contractVars)
  BY <1>0, <1>7, <1>8
<1>9. CASE Switching
  <2>1. CASE SwitchSucceeds
    BY <1>1, <2>1 DEF SwitchSucceeds
  <2>2. ASSUME NEW e \in SwitchErrors, SwitchFails(e)
        PROVE  [Contract!Next]_(Contract!contractVars)
    <3>1. /\ pc # "idle" /\ pc' # "idle"
          /\ UNCHANGED <<totalAttempts, stealthLevel, browser>>
      BY <2>2 DEF SwitchFails, ReturnFromTry
    <3>2. \E down \in {{}, {name}} : downBackends' = downBackends \cup down
      BY <2>2 DEF SwitchFails
    <3> QED BY <1>8, <3>1, <3>2
  <2> QED BY <1>9, <2>1, <2>2 DEF Switching
<1>10. CASE Attempt
  <2>1. CASE totalAttempts < Budget
    BY <1>10, <2>1 DEF Attempt, Contract!Next, Contract!Call
  <2>2. CASE ~(totalAttempts < Budget)
    BY <1>1, <1>10, <2>2 DEF Attempt
  <2> QED BY <2>1, <2>2
<1>11. CASE ActionSucceeds
  BY <1>1, <1>11 DEF ActionSucceeds
<1>12. ASSUME NEW e \in ActionErrors, ActionFails(e)
       PROVE  [Contract!Next]_(Contract!contractVars)
  <2>1. /\ pc # "idle" /\ pc' # "idle"
        /\ UNCHANGED <<totalAttempts, stealthLevel, browser>>
    BY <1>12 DEF ActionFails, Repeat, ReturnFromTry
  <2>2. \E down \in {{}, {name}} : downBackends' = downBackends \cup down
    BY <1>12 DEF ActionFails
  <2> QED BY <1>8, <2>1, <2>2
<1>13. CASE UNCHANGED vars
  BY <1>13 DEF vars, Contract!contractVars
<1> QED BY <1>2, <1>3, <1>4, <1>5, <1>6, <1>9, <1>10, <1>11, <1>12, <1>13
    DEF Next, Engine, Rotating, Switching, Acting

\* Theorem: the engine of the Go and Python clients implements the
\* contract of the Rust engine: the budget bounds the attempts, stealth climbs
\* one level at a time up to the maximum, no browser marked down is moved to.
THEOREM ImplementsContract == FairSpec => KeepsContract
<1>1. Init => Contract!Init
  BY TieredAssumption DEF Init, Contract!Init, Browsers
<1>2. TieredInv /\ [Next]_vars => [Contract!Next]_(Contract!contractVars)
  BY ContractStep
<1> QED BY <1>1, <1>2, TieredInvariant, PTL
        DEF FairSpec, KeepsContract, Contract!Spec

=============================================================================
