------------------------ MODULE ProtocolAdapterProofs ------------------------
(***************************************************************************)
(* Theorems about a session of either protocol, for any tasks, operations  *)
(* and events: its commands are those of PendingCalls, so that what is     *)
(* proved there holds of it; a navigation over CDP hears the events of its *)
(* own page unless another one took its listener; no operation leaves a    *)
(* listener behind but by a failed command; and a command over BiDi goes   *)
(* to the context the session has.                                         *)
(*                                                                         *)
(* An operation is followed by its number: the listeners in the map under  *)
(* it are those of the place it is at (ListenerInv), all of them if nobody *)
(* else removed one (EarInv).                                              *)
(*                                                                         *)
(* The first part is about PendingCalls alone: whatever the tasks, and     *)
(* however many commands they send, an answer reaches the call that asked  *)
(* for it and no other, and the map of senders keeps none of a call that   *)
(* has returned, but those of refused and dropped calls.  CallsIInv is     *)
(* inductive.  It follows an id: nowhere before the counter gives it out   *)
(* (FreshIds), known to its own call only until it is in the map           *)
(* (InsertStep, TransmitStep), and then with exactly one sender (MapOnce,  *)
(* HandOnce, SomebodyAnswers).                                             *)
(***************************************************************************)
EXTENDS ProtocolAdapter, TLAPS

-----------------------------------------------------------------------------
\* The commands and answers of a session, by any tasks.

USE DEF Ids, Empty, Closed, NoHand, Calls, counts, serverVars

\* The types the steps below rest on.
LEMMA Types ==
    ASSUME CallsAssumption, CallsTypeOK
    PROVE  /\ MaxCalls \in Nat /\ Nobody \notin Tasks
           /\ next_id \in 1..MaxCalls + 1
           /\ call \in [Tasks -> 0..MaxCalls] /\ channel \in [Tasks -> 0..MaxCalls + 1]
           /\ step \in [Tasks -> {"idle", "insert", "transmit", "wait"}]
           /\ result \in [Tasks -> {"none", "answered", "timeout", "closed", "refused",
                            "abandoned"}]
           /\ pending \in [Ids -> Tasks \cup {Nobody}]
           /\ hand = NoHand \/ hand \in [id : Ids, task : Tasks]
           /\ hand.id \in 0..MaxCalls
           /\ wire \subseteq Ids /\ timedOut \subseteq Ids /\ cleared \subseteq Ids
           /\ refused \subseteq Ids /\ dropped \subseteq Ids /\ unclaimed \subseteq Ids
BY DEF CallsAssumption, CallsTypeOK

\* The initial states satisfy the invariant.
LEMMA CallsIInvInit == ASSUME CallsAssumption PROVE CallsInit => CallsIInv
BY DEF CallsAssumption, CallsInit, CallsIInv, CallsTypeOK, FreshIds, InsertStep, TransmitStep,
       MapOnce, RefusedReturned, HandOnce, WireWaits, OwnAnswer, OnlyLateUnclaimed,
       SomebodyAnswers

\* A new call takes an id that is nowhere yet.
LEMMA CalledStep ==
    ASSUME CallsAssumption, CallsIInv, NEW t \in Tasks, Call(t) PROVE CallsIInv'
<1>a. /\ step[t] = "idle" /\ next_id \in Ids /\ next_id' = next_id + 1
      /\ call' = [call EXCEPT ![t] = next_id]
      /\ channel' = [channel EXCEPT ![t] = Empty]
      /\ step' = [step EXCEPT ![t] = "insert"]
      /\ result' = [result EXCEPT ![t] = "none"]
      /\ pending' = pending /\ open' = open /\ wire' = wire /\ hand' = hand /\ timedOut' = timedOut
      /\ cleared' = cleared /\ refused' = refused /\ unclaimed' = unclaimed
      /\ dropped' = dropped
  BY DEF Call
<1>0. CallsTypeOK'
  <2>1. next_id' \in 1..MaxCalls + 1
    BY <1>a, Types DEF CallsIInv
  <2>2. call' \in [Tasks -> 0..MaxCalls]
    BY <1>a, Types DEF CallsIInv
  <2>3. channel' \in [Tasks -> 0..MaxCalls + 1]
    BY <1>a, Types DEF CallsIInv
  <2>4. step' \in [Tasks -> {"idle", "insert", "transmit", "wait"}]
    BY <1>a, Types DEF CallsIInv
  <2>5. result' \in [Tasks -> {"none", "answered", "timeout", "closed", "refused",
                            "abandoned"}]
    BY <1>a, Types DEF CallsIInv
  <2> QED  BY <1>a, <2>1, <2>2, <2>3, <2>4, <2>5 DEF CallsIInv, CallsTypeOK
<1>1. FreshIds'  BY <1>a, Types DEF CallsIInv, FreshIds
<1>2. InsertStep'  BY <1>a, Types DEF CallsIInv, InsertStep, FreshIds, HandOnce
<1>3. TransmitStep'  BY <1>a, Types DEF CallsIInv, TransmitStep, FreshIds
<1>4. MapOnce'  BY <1>a, Types DEF CallsIInv, MapOnce
<1>5. RefusedReturned'  BY <1>a, Types DEF CallsIInv, RefusedReturned, FreshIds
<1>6. HandOnce'  BY <1>a, Types DEF CallsIInv, HandOnce
<1>7. WireWaits'  BY <1>a, Types DEF CallsIInv, WireWaits
<1>8. OwnAnswer'  BY <1>a, Types DEF CallsIInv, OwnAnswer, FreshIds
<1>9. OnlyLateUnclaimed'  BY <1>a, Types DEF CallsIInv, OnlyLateUnclaimed
<1>10. SomebodyAnswers'  BY <1>a, Types DEF CallsIInv, SomebodyAnswers
<1> QED  BY <1>0, <1>1, <1>2, <1>3, <1>4, <1>5, <1>6, <1>7, <1>8, <1>9, <1>10 DEF CallsIInv

\* The sender goes into the map, under an id nobody else has.
LEMMA InsertedStep ==
    ASSUME CallsAssumption, CallsIInv, NEW t \in Tasks, Insert(t) PROVE CallsIInv'
<1>a. /\ step[t] = "insert" /\ step' = [step EXCEPT ![t] = "transmit"]
      /\ pending' = [pending EXCEPT ![call[t]] = t]
      /\ channel' = [u \in Tasks |-> IF u # t /\ u = pending[call[t]] /\ call[u] = call[t]
                                   THEN Closed ELSE channel[u]]
      /\ next_id' = next_id /\ open' = open /\ wire' = wire /\ call' = call /\ hand' = hand
      /\ timedOut' = timedOut /\ cleared' = cleared /\ refused' = refused /\ unclaimed' = unclaimed /\ result' = result
      /\ dropped' = dropped
  BY DEF Insert
<1>b. /\ call[t] \in Ids /\ \A u \in Tasks : u # t => call[u] # call[t]
      /\ pending[call[t]] = Nobody /\ channel[t] = Empty
      /\ call[t] \notin wire /\ hand.id # call[t] /\ channel' = channel
  BY <1>a, Types DEF CallsIInv, FreshIds, InsertStep
<1>0. CallsTypeOK'
  <2>1. pending' \in [Ids -> Tasks \cup {Nobody}]
    BY <1>a, Types, <1>b DEF CallsIInv
  <2>2. channel' \in [Tasks -> 0..MaxCalls + 1]
    BY <1>a, Types, <1>b DEF CallsIInv
  <2>3. step' \in [Tasks -> {"idle", "insert", "transmit", "wait"}]
    BY <1>a, Types, <1>b DEF CallsIInv
  <2> QED  BY <1>a, <2>1, <2>2, <2>3 DEF CallsIInv, CallsTypeOK
<1>1. FreshIds'  BY <1>a, Types, <1>b DEF CallsIInv, FreshIds
<1>2. InsertStep'  BY <1>a, Types, <1>b DEF CallsIInv, InsertStep
<1>3. TransmitStep'  BY <1>a, Types, <1>b DEF CallsIInv, TransmitStep
<1>4. MapOnce'  BY <1>a, Types, <1>b DEF CallsIInv, MapOnce
<1>5. RefusedReturned'  BY <1>a, Types, <1>b DEF CallsIInv, RefusedReturned
<1>6. HandOnce'  BY <1>a, Types, <1>b DEF CallsIInv, HandOnce
<1>7. WireWaits'  BY <1>a, Types, <1>b DEF CallsIInv, WireWaits
<1>8. OwnAnswer'  BY <1>a, Types, <1>b DEF CallsIInv, OwnAnswer
<1>9. OnlyLateUnclaimed'  BY <1>a, Types, <1>b DEF CallsIInv, OnlyLateUnclaimed
<1>10. SomebodyAnswers'  BY <1>a, Types, <1>b DEF CallsIInv, SomebodyAnswers
<1> QED  BY <1>0, <1>1, <1>2, <1>3, <1>4, <1>5, <1>6, <1>7, <1>8, <1>9, <1>10 DEF CallsIInv

\* The command goes out.
LEMMA SentStep ==
    ASSUME CallsAssumption, CallsIInv, NEW t \in Tasks, Transmit(t), open PROVE CallsIInv'
<1>a. /\ step[t] = "transmit"
      /\ wire' = wire \cup {call[t]}
      /\ step' = [step EXCEPT ![t] = "wait"]
      /\ next_id' = next_id /\ pending' = pending /\ open' = open /\ call' = call /\ channel' = channel
      /\ hand' = hand /\ timedOut' = timedOut /\ cleared' = cleared /\ refused' = refused /\ unclaimed' = unclaimed
      /\ result' = result
      /\ dropped' = dropped
  BY DEF Transmit
<1>b. call[t] \in Ids /\ \A u \in Tasks : u # t => call[u] # call[t]
  BY <1>a, Types DEF CallsIInv, FreshIds
<1>0. CallsTypeOK'
  <2>1. wire' \subseteq Ids
    BY <1>a, Types, <1>b DEF CallsIInv
  <2>2. step' \in [Tasks -> {"idle", "insert", "transmit", "wait"}]
    BY <1>a, Types, <1>b DEF CallsIInv
  <2> QED  BY <1>a, <2>1, <2>2 DEF CallsIInv, CallsTypeOK
<1>1. FreshIds'  BY <1>a, Types, <1>b DEF CallsIInv, FreshIds
<1>2. InsertStep'  BY <1>a, Types, <1>b DEF CallsIInv, InsertStep
<1>3. TransmitStep'  BY <1>a, Types, <1>b DEF CallsIInv, TransmitStep
<1>4. MapOnce'  BY <1>a, Types, <1>b DEF CallsIInv, MapOnce, TransmitStep
<1>5. RefusedReturned'  BY <1>a, Types, <1>b DEF CallsIInv, RefusedReturned
<1>6. HandOnce'  BY <1>a, Types, <1>b DEF CallsIInv, HandOnce, TransmitStep
<1>7. WireWaits'  BY <1>a, Types, <1>b DEF CallsIInv, WireWaits, TransmitStep
<1>8. OwnAnswer'  BY <1>a, Types, <1>b DEF CallsIInv, OwnAnswer
<1>9. OnlyLateUnclaimed'  BY <1>a, Types, <1>b DEF CallsIInv, OnlyLateUnclaimed
<1>10. SomebodyAnswers'  BY <1>a, Types, <1>b DEF CallsIInv, SomebodyAnswers
<1> QED  BY <1>0, <1>1, <1>2, <1>3, <1>4, <1>5, <1>6, <1>7, <1>8, <1>9, <1>10 DEF CallsIInv

\* The command is refused and the call returns: its sender stays in the map.
LEMMA RefusedStep ==
    ASSUME CallsAssumption, CallsIInv, NEW t \in Tasks, Transmit(t), ~open PROVE CallsIInv'
<1>a. /\ step[t] = "transmit"
      /\ refused' = refused \cup {call[t]}
      /\ step' = [step EXCEPT ![t] = "idle"]
      /\ result' = [result EXCEPT ![t] = "refused"]
      /\ next_id' = next_id /\ pending' = pending /\ open' = open /\ wire' = wire /\ call' = call
      /\ channel' = channel /\ hand' = hand /\ timedOut' = timedOut /\ cleared' = cleared /\ unclaimed' = unclaimed
      /\ dropped' = dropped
  BY DEF Transmit, Return
<1>b. call[t] \in Ids /\ \A u \in Tasks : u # t => call[u] # call[t]
  BY <1>a, Types DEF CallsIInv, FreshIds
<1>0. CallsTypeOK'
  <2>1. step' \in [Tasks -> {"idle", "insert", "transmit", "wait"}]
    BY <1>a, Types, <1>b DEF CallsIInv
  <2>2. refused' \subseteq Ids
    BY <1>a, Types, <1>b DEF CallsIInv
  <2>3. result' \in [Tasks -> {"none", "answered", "timeout", "closed", "refused",
                            "abandoned"}]
    BY <1>a, Types, <1>b DEF CallsIInv
  <2> QED  BY <1>a, <2>1, <2>2, <2>3 DEF CallsIInv, CallsTypeOK
<1>1. FreshIds'  BY <1>a, Types, <1>b DEF CallsIInv, FreshIds
<1>2. InsertStep'  BY <1>a, Types, <1>b DEF CallsIInv, InsertStep
<1>3. TransmitStep'  BY <1>a, Types, <1>b DEF CallsIInv, TransmitStep
<1>4. MapOnce'  BY <1>a, Types, <1>b DEF CallsIInv, MapOnce
<1>5. RefusedReturned'  BY <1>a, Types, <1>b DEF CallsIInv, RefusedReturned
<1>6. HandOnce'  BY <1>a, Types, <1>b DEF CallsIInv, HandOnce
<1>7. WireWaits'  BY <1>a, Types, <1>b DEF CallsIInv, WireWaits
<1>8. OwnAnswer'  BY <1>a, Types, <1>b DEF CallsIInv, OwnAnswer
<1>9. OnlyLateUnclaimed'  BY <1>a, Types, <1>b DEF CallsIInv, OnlyLateUnclaimed
<1>10. SomebodyAnswers'  BY <1>a, Types, <1>b DEF CallsIInv, SomebodyAnswers
<1> QED  BY <1>0, <1>1, <1>2, <1>3, <1>4, <1>5, <1>6, <1>7, <1>8, <1>9, <1>10 DEF CallsIInv

\* A call whose channel has something has no sender left in the map.
LEMMA ReceiveStep ==
    ASSUME CallsAssumption, CallsIInv, NEW t \in Tasks, Receive(t) PROVE CallsIInv'
<1>a. /\ step[t] = "wait" /\ channel[t] # Empty
      /\ step' = [step EXCEPT ![t] = "idle"]
      /\ result' \in {[result EXCEPT ![t] = "closed"], [result EXCEPT ![t] = "answered"]}
      /\ next_id' = next_id /\ pending' = pending /\ open' = open /\ wire' = wire /\ call' = call
      /\ channel' = channel /\ hand' = hand /\ timedOut' = timedOut /\ cleared' = cleared /\ refused' = refused
      /\ unclaimed' = unclaimed
      /\ dropped' = dropped
  BY DEF Receive, Return
<1>b. call[t] \in Ids /\ \A u \in Tasks : u # t => call[u] # call[t]
  BY <1>a, Types DEF CallsIInv, FreshIds
<1>0. CallsTypeOK'
  <2>1. step' \in [Tasks -> {"idle", "insert", "transmit", "wait"}]
    BY <1>a, Types, <1>b DEF CallsIInv
  <2>2. result' \in [Tasks -> {"none", "answered", "timeout", "closed", "refused",
                            "abandoned"}]
    BY <1>a, Types, <1>b DEF CallsIInv
  <2> QED  BY <1>a, <2>1, <2>2 DEF CallsIInv, CallsTypeOK
<1>1. FreshIds'  BY <1>a, Types, <1>b DEF CallsIInv, FreshIds
<1>2. InsertStep'  BY <1>a, Types, <1>b DEF CallsIInv, InsertStep
<1>3. TransmitStep'  BY <1>a, Types, <1>b DEF CallsIInv, TransmitStep
<1>4. MapOnce'  BY <1>a, Types, <1>b DEF CallsIInv, MapOnce
<1>5. RefusedReturned'  BY <1>a, Types, <1>b DEF CallsIInv, RefusedReturned
<1>6. HandOnce'  BY <1>a, Types, <1>b DEF CallsIInv, HandOnce
<1>7. WireWaits'  BY <1>a, Types, <1>b DEF CallsIInv, WireWaits
<1>8. OwnAnswer'  BY <1>a, Types, <1>b DEF CallsIInv, OwnAnswer
<1>9. OnlyLateUnclaimed'  BY <1>a, Types, <1>b DEF CallsIInv, OnlyLateUnclaimed
<1>10. SomebodyAnswers'  BY <1>a, Types, <1>b DEF CallsIInv, SomebodyAnswers
<1> QED  BY <1>0, <1>1, <1>2, <1>3, <1>4, <1>5, <1>6, <1>7, <1>8, <1>9, <1>10 DEF CallsIInv

\* An outer clock drops a call and leaves its sender in the map.
LEMMA AbandonStep ==
    ASSUME CallsAssumption, CallsIInv, NEW t \in Tasks, Abandon(t) PROVE CallsIInv'
<1>a. /\ step[t] = "wait" /\ channel[t] = Empty
      /\ step' = [step EXCEPT ![t] = "idle"]
      /\ result' = [result EXCEPT ![t] = "abandoned"]
      /\ dropped' = dropped \cup {call[t]}
      /\ next_id' = next_id /\ pending' = pending /\ open' = open /\ wire' = wire /\ call' = call
      /\ channel' = channel /\ hand' = hand /\ timedOut' = timedOut /\ cleared' = cleared /\ refused' = refused
      /\ unclaimed' = unclaimed
  BY DEF Abandon, Return
<1>b. call[t] \in Ids /\ \A u \in Tasks : u # t => call[u] # call[t]
  BY <1>a, Types DEF CallsIInv, FreshIds
<1>0. CallsTypeOK'
  <2>1. step' \in [Tasks -> {"idle", "insert", "transmit", "wait"}]
    BY <1>a, Types, <1>b DEF CallsIInv
  <2>2. result' \in [Tasks -> {"none", "answered", "timeout", "closed", "refused",
                            "abandoned"}]
    BY <1>a, Types, <1>b DEF CallsIInv
  <2>3. dropped' \subseteq Ids
    BY <1>a, Types, <1>b DEF CallsIInv
  <2> QED  BY <1>a, <2>1, <2>2, <2>3 DEF CallsIInv, CallsTypeOK
<1>1. FreshIds'  BY <1>a, Types, <1>b DEF CallsIInv, FreshIds
<1>2. InsertStep'  BY <1>a, Types, <1>b DEF CallsIInv, InsertStep
<1>3. TransmitStep'  BY <1>a, Types, <1>b DEF CallsIInv, TransmitStep
<1>4. MapOnce'  BY <1>a, Types, <1>b DEF CallsIInv, MapOnce
<1>5. RefusedReturned'  BY <1>a, Types, <1>b DEF CallsIInv, RefusedReturned
<1>6. HandOnce'  BY <1>a, Types, <1>b DEF CallsIInv, HandOnce
<1>7. WireWaits'  BY <1>a, Types, <1>b DEF CallsIInv, WireWaits
<1>8. OwnAnswer'  BY <1>a, Types, <1>b DEF CallsIInv, OwnAnswer
<1>9. OnlyLateUnclaimed'  BY <1>a, Types, <1>b DEF CallsIInv, OnlyLateUnclaimed
<1>10. SomebodyAnswers'  BY <1>a, Types, <1>b DEF CallsIInv, SomebodyAnswers
<1> QED  BY <1>0, <1>1, <1>2, <1>3, <1>4, <1>5, <1>6, <1>7, <1>8, <1>9, <1>10 DEF CallsIInv

\* A timeout takes its own entry out of the map.
LEMMA ExpireStep ==
    ASSUME CallsAssumption, CallsIInv, NEW t \in Tasks, Expire(t) PROVE CallsIInv'
<1>a. /\ step[t] = "wait" /\ channel[t] = Empty
      /\ step' = [step EXCEPT ![t] = "idle"]
      /\ result' = [result EXCEPT ![t] = "timeout"]
      /\ pending' = [pending EXCEPT ![call[t]] = Nobody]
      /\ timedOut' = timedOut \cup {call[t]}
      /\ next_id' = next_id /\ open' = open /\ wire' = wire /\ call' = call /\ channel' = channel
      /\ hand' = hand /\ cleared' = cleared /\ refused' = refused /\ unclaimed' = unclaimed
      /\ dropped' = dropped
  BY DEF Expire, Return
<1>b. call[t] \in Ids /\ \A u \in Tasks : u # t => call[u] # call[t]
  BY <1>a, Types DEF CallsIInv, FreshIds
<1>0. CallsTypeOK'
  <2>1. step' \in [Tasks -> {"idle", "insert", "transmit", "wait"}]
    BY <1>a, Types, <1>b DEF CallsIInv
  <2>2. pending' \in [Ids -> Tasks \cup {Nobody}]
    BY <1>a, Types, <1>b DEF CallsIInv
  <2>3. timedOut' \subseteq Ids
    BY <1>a, Types, <1>b DEF CallsIInv
  <2>4. result' \in [Tasks -> {"none", "answered", "timeout", "closed", "refused",
                            "abandoned"}]
    BY <1>a, Types, <1>b DEF CallsIInv
  <2> QED  BY <1>a, <2>1, <2>2, <2>3, <2>4 DEF CallsIInv, CallsTypeOK
<1>1. FreshIds'  BY <1>a, Types, <1>b DEF CallsIInv, FreshIds
<1>2. InsertStep'  BY <1>a, Types, <1>b DEF CallsIInv, InsertStep
<1>3. TransmitStep'  BY <1>a, Types, <1>b DEF CallsIInv, TransmitStep
<1>4. MapOnce'  BY <1>a, Types, <1>b DEF CallsIInv, MapOnce
<1>5. RefusedReturned'  BY <1>a, Types, <1>b DEF CallsIInv, RefusedReturned
<1>6. HandOnce'  BY <1>a, Types, <1>b DEF CallsIInv, HandOnce
<1>7. WireWaits'  BY <1>a, Types, <1>b DEF CallsIInv, WireWaits
<1>8. OwnAnswer'  BY <1>a, Types, <1>b DEF CallsIInv, OwnAnswer
<1>9. OnlyLateUnclaimed'  BY <1>a, Types, <1>b DEF CallsIInv, OnlyLateUnclaimed
<1>10. SomebodyAnswers'  BY <1>a, Types, <1>b DEF CallsIInv, SomebodyAnswers
<1> QED  BY <1>0, <1>1, <1>2, <1>3, <1>4, <1>5, <1>6, <1>7, <1>8, <1>9, <1>10 DEF CallsIInv

\* The router finds the sender of the id it was given, or nobody.
LEMMA TakeStep ==
    ASSUME CallsAssumption, CallsIInv, NEW id \in Ids, Answer(id) PROVE CallsIInv'
<1>a. /\ id \in wire /\ wire' = wire \ {id} /\ hand = NoHand
      /\ \/ /\ pending[id] = Nobody /\ unclaimed' = unclaimed \cup {id}
            /\ pending' = pending /\ hand' = hand
         \/ /\ pending[id] # Nobody /\ unclaimed' = unclaimed
            /\ pending' = [pending EXCEPT ![id] = Nobody]
            /\ hand' = [id |-> id, task |-> pending[id]]
      /\ next_id' = next_id /\ open' = open /\ step' = step /\ call' = call /\ channel' = channel
      /\ timedOut' = timedOut /\ cleared' = cleared /\ refused' = refused /\ result' = result
      /\ dropped' = dropped
  BY DEF Answer, TakeSender
<1>0. CallsTypeOK'
  <2>1. wire' \subseteq Ids
    BY <1>a, Types DEF CallsIInv
  <2>2. hand' = NoHand \/ hand' \in [id : Ids, task : Tasks]
    BY <1>a, Types DEF CallsIInv
  <2>3. pending' \in [Ids -> Tasks \cup {Nobody}]
    BY <1>a, Types DEF CallsIInv
  <2>4. unclaimed' \subseteq Ids
    BY <1>a, Types DEF CallsIInv
  <2> QED  BY <1>a, <2>1, <2>2, <2>3, <2>4 DEF CallsIInv, CallsTypeOK
<1>1. FreshIds'  BY <1>a, Types DEF CallsIInv, FreshIds
<1>2. InsertStep'  BY <1>a, Types DEF CallsIInv, InsertStep
<1>3. TransmitStep'  BY <1>a, Types DEF CallsIInv, TransmitStep
<1>4. MapOnce'  BY <1>a, Types DEF CallsIInv, MapOnce
<1>5. RefusedReturned'  BY <1>a, Types DEF CallsIInv, RefusedReturned
<1>6. HandOnce'  BY <1>a, Types DEF CallsIInv, HandOnce, FreshIds
<1>7. WireWaits'  BY <1>a, Types DEF CallsIInv, WireWaits
<1>8. OwnAnswer'  BY <1>a, Types DEF CallsIInv, OwnAnswer
<1>9. OnlyLateUnclaimed'  BY <1>a, Types DEF CallsIInv, OnlyLateUnclaimed, WireWaits
<1>10. SomebodyAnswers'
  <2> SUFFICES ASSUME NEW t \in Tasks, step[t] \in {"transmit", "wait"}, channel[t] = Empty
               PROVE  pending'[call[t]] = t \/ hand' = [id |-> call[t], task |-> t]
    BY <1>a DEF SomebodyAnswers
  <2>1. call[t] \in Ids
    BY Types DEF CallsIInv, FreshIds
  <2>2. hand # [id |-> call[t], task |-> t]
    BY <1>a, <2>1
  <2>3. pending[call[t]] = t
    BY <2>2 DEF CallsIInv, SomebodyAnswers
  <2>4. t # Nobody
    BY Types DEF CallsIInv
  <2>5. CASE id = call[t]
    BY <1>a, <2>3, <2>4, <2>5
  <2>6. CASE id # call[t]
    BY <1>a, Types, <2>1, <2>3, <2>6 DEF CallsIInv
  <2> QED  BY <2>5, <2>6
<1> QED  BY <1>0, <1>1, <1>2, <1>3, <1>4, <1>5, <1>6, <1>7, <1>8, <1>9, <1>10 DEF CallsIInv

\* The answer goes into the channel of the call with its id.
LEMMA UseStep ==
    ASSUME CallsAssumption, CallsIInv, UseSender PROVE CallsIInv'
<1>a. /\ hand # NoHand /\ hand' = NoHand
      /\ channel' = [t \in Tasks |-> IF t = hand.task /\ call[t] = hand.id /\ step[t] # "idle"
                                   THEN hand.id ELSE channel[t]]
      /\ next_id' = next_id /\ pending' = pending /\ open' = open /\ wire' = wire /\ step' = step
      /\ call' = call /\ timedOut' = timedOut /\ cleared' = cleared /\ refused' = refused /\ unclaimed' = unclaimed
      /\ result' = result
      /\ dropped' = dropped
  BY DEF UseSender
<1>0. CallsTypeOK'
  <2>1. hand' = NoHand \/ hand' \in [id : Ids, task : Tasks]
    BY <1>a, Types DEF CallsIInv
  <2>2. channel' \in [Tasks -> 0..MaxCalls + 1]
    BY <1>a, Types DEF CallsIInv
  <2> QED  BY <1>a, <2>1, <2>2 DEF CallsIInv, CallsTypeOK
<1>1. FreshIds'  BY <1>a, Types DEF CallsIInv, FreshIds
<1>2. InsertStep'  BY <1>a, Types DEF CallsIInv, InsertStep, FreshIds
<1>3. TransmitStep'  BY <1>a, Types DEF CallsIInv, TransmitStep, FreshIds
<1>4. MapOnce'  BY <1>a, Types DEF CallsIInv, MapOnce, HandOnce
<1>5. RefusedReturned'  BY <1>a, Types DEF CallsIInv, RefusedReturned
<1>6. HandOnce'  BY <1>a, Types DEF CallsIInv, HandOnce
<1>7. WireWaits'  BY <1>a, Types DEF CallsIInv, WireWaits
<1>8. OwnAnswer'  BY <1>a, Types DEF CallsIInv, OwnAnswer
<1>9. OnlyLateUnclaimed'  BY <1>a, Types DEF CallsIInv, OnlyLateUnclaimed
<1>10. SomebodyAnswers'  BY <1>a, Types DEF CallsIInv, SomebodyAnswers
<1> QED  BY <1>0, <1>1, <1>2, <1>3, <1>4, <1>5, <1>6, <1>7, <1>8, <1>9, <1>10 DEF CallsIInv

\* destroy() closes the channel of every sender it drops.
LEMMA ClearStep ==
    ASSUME CallsAssumption, CallsIInv, ClearPending PROVE CallsIInv'
<1>a. /\ pending' = [i \in Ids |-> Nobody]
      /\ channel' = [t \in Tasks |->
             IF step[t] # "idle" /\ call[t] \in Ids /\ pending[call[t]] = t
             THEN Closed ELSE channel[t]]
      /\ cleared' = cleared \cup {i \in Ids : pending[i] # Nobody}
      /\ next_id' = next_id /\ open' = open /\ wire' = wire /\ step' = step /\ call' = call
      /\ hand' = hand /\ timedOut' = timedOut /\ refused' = refused /\ unclaimed' = unclaimed /\ result' = result
      /\ dropped' = dropped
  BY DEF ClearPending
<1>0. CallsTypeOK'
  <2>1. pending' \in [Ids -> Tasks \cup {Nobody}]
    BY <1>a, Types DEF CallsIInv
  <2>2. channel' \in [Tasks -> 0..MaxCalls + 1]
    BY <1>a, Types DEF CallsIInv
  <2>3. cleared' \subseteq Ids
    BY <1>a, Types DEF CallsIInv
  <2> QED  BY <1>a, <2>1, <2>2, <2>3 DEF CallsIInv, CallsTypeOK
<1>1. FreshIds'  BY <1>a, Types DEF CallsIInv, FreshIds
<1>2. InsertStep'  BY <1>a, Types DEF CallsIInv, InsertStep, FreshIds
<1>3. TransmitStep'  BY <1>a, Types DEF CallsIInv, TransmitStep, FreshIds
<1>4. MapOnce'  BY <1>a, Types DEF CallsIInv, MapOnce
<1>5. RefusedReturned'  BY <1>a, Types DEF CallsIInv, RefusedReturned
<1>6. HandOnce'  BY <1>a, Types DEF CallsIInv, HandOnce
<1>7. WireWaits'  BY <1>a, Types DEF CallsIInv, WireWaits
<1>8. OwnAnswer'  BY <1>a, Types DEF CallsIInv, OwnAnswer
<1>9. OnlyLateUnclaimed'  BY <1>a, Types DEF CallsIInv, OnlyLateUnclaimed
<1>10. SomebodyAnswers'  BY <1>a, Types DEF CallsIInv, SomebodyAnswers, FreshIds
<1> QED  BY <1>0, <1>1, <1>2, <1>3, <1>4, <1>5, <1>6, <1>7, <1>8, <1>9, <1>10 DEF CallsIInv

\* The channel closing, or nothing happening, changes none of it.
LEMMA QuietStep ==
    ASSUME CallsAssumption, CallsIInv, Disconnect \/ UNCHANGED callVars PROVE CallsIInv'
<1>a. /\ next_id' = next_id /\ pending' = pending /\ wire' = wire /\ step' = step
      /\ call' = call /\ channel' = channel /\ hand' = hand /\ result' = result
      /\ timedOut' = timedOut /\ cleared' = cleared /\ refused' = refused
      /\ unclaimed' = unclaimed /\ open' \in {FALSE, open}
      /\ dropped' = dropped
  BY DEF Disconnect, callVars
<1>0. CallsTypeOK'  BY <1>a DEF CallsIInv, CallsTypeOK
<1> QED
  BY <1>0, <1>a DEF CallsIInv, FreshIds, InsertStep, TransmitStep, MapOnce, RefusedReturned,
     HandOnce, WireWaits, OwnAnswer, OnlyLateUnclaimed, SomebodyAnswers

LEMMA CallsIInvStep ==
    ASSUME CallsAssumption, CallsIInv, [CallsNext]_callVars PROVE CallsIInv'
<1>1. CASE \E t \in Tasks : Call(t) \/ Advance(t) \/ Expire(t) \/ Abandon(t)
  BY <1>1, CalledStep, InsertedStep, SentStep, RefusedStep, ReceiveStep, ExpireStep,
     AbandonStep DEF Advance
<1>2. CASE UseSender  BY <1>2, UseStep
<1>3. CASE ClearPending  BY <1>3, ClearStep
<1>4. CASE \E id \in Ids : Answer(id)  BY <1>4, TakeStep
<1>5. CASE Disconnect \/ UNCHANGED callVars  BY <1>5, QuietStep
<1> QED  BY <1>1, <1>2, <1>3, <1>4, <1>5 DEF CallsNext, Environment

\* The inductive invariant holds in every reachable state of send(),
\* handle_message() and destroy().
THEOREM CallsInvariant == ASSUME CallsAssumption PROVE CallsSpec => []CallsIInv
BY CallsIInvInit, CallsIInvStep, PTL DEF CallsSpec

\* The variables keep their types.
THEOREM CallsTypeCorrect == ASSUME CallsAssumption PROVE CallsSpec => []CallsTypeOK
<1>1. CallsIInv => CallsTypeOK  BY DEF CallsIInv
<1> QED  BY <1>1, CallsInvariant, PTL

\* A call is only ever given the answer with its own id, and no two calls in
\* progress share one (cdp_session.rs: send, handle_message).
THEOREM AnswerIsOwn == ASSUME CallsAssumption PROVE CallsSpec => []OwnAnswer
<1>1. CallsIInv => OwnAnswer  BY DEF CallsIInv
<1> QED  BY <1>1, CallsInvariant, PTL

\* handle_message() leaves an answer unhandled only when its call timed out or
\* was dropped by destroy().
THEOREM UnclaimedIsLate == ASSUME CallsAssumption PROVE CallsSpec => []OnlyLateUnclaimed
<1>1. CallsIInv => OnlyLateUnclaimed  BY DEF CallsIInv
<1> QED  BY <1>1, CallsInvariant, PTL

\* The map keeps senders of calls in progress, of refused commands and of calls
\* an outer clock dropped only.
THEOREM LeaksOnlyRefused == ASSUME CallsAssumption PROVE CallsSpec => []NoOtherLeak
<1>1. CallsIInv => NoOtherLeak  BY DEF CallsIInv, MapOnce, NoOtherLeak
<1> QED  BY <1>1, CallsInvariant, PTL

\* No call waits on a channel whose sender is lost without a word.
THEOREM WaitIsAnswered == ASSUME CallsAssumption PROVE CallsSpec => []SomebodyAnswers
<1>1. CallsIInv => SomebodyAnswers  BY DEF CallsIInv
<1> QED  BY <1>1, CallsInvariant, PTL

HIDE DEF Ids, Empty, Closed, NoHand, Calls, counts, serverVars

-----------------------------------------------------------------------------
\* The session of either protocol.

CdpPlaces  == {"listen", "ask", "answer", "wait", "fallback", "unlisten"}
AttachPlaces == {"command", "reply", "event"}
BidiPlaces == {"find", "found", "send", "sent"}
Ops == {"none", "attach", "command", "init", "navigate", "navigate_fast", "navigate_dom"}
Contexts == {"none", Placeholder, Tab}

SessionTypes ==
    /\ op \in [Tasks -> Ops]
    /\ at \in [Tasks -> {"idle"} \cup CdpPlaces \cup AttachPlaces \cup BidiPlaces]
    /\ serial \in [Tasks -> Nat] /\ nth \in [Tasks -> Nat] /\ begun \in Nat
    /\ handlers \in [Events -> SUBSET Nat]
    /\ heard \in [Tasks -> SUBSET (Events \cup {"page", "other"})]
    /\ failed \subseteq Nat /\ robbed \subseteq Nat

\* The number of an operation is its own.
SerialInv ==
    /\ \A t \in Tasks : serial[t] <= begun
    /\ \A t \in Tasks : at[t] # "idle" => serial[t] # 0
    /\ \A t, u \in Tasks : serial[t] = serial[u] /\ serial[t] # 0 => t = u
    /\ \A e \in Events : \A n \in handlers[e] : n <= begun /\ n # 0
    /\ \A n \in robbed : n <= begun

\* The places of each operation.
Places(t) ==
    /\ at[t] \in {"listen", "wait", "fallback", "unlisten"} => op[t] \in Kinds
    /\ at[t] \in {"ask", "answer"} => op[t] \in Kinds \cup {"command"}
    /\ at[t] \in {"listen", "unlisten"} => nth[t] < Len(Listens(op[t]))
    /\ at[t] \in AttachPlaces => op[t] = "attach" /\ t = Attacher

PlaceInv == \A t \in Tasks : Places(t)

\* A session speaks one protocol.
SideInv ==
    /\ protocol \in {"cdp", "bidi"}
    /\ protocol = "cdp" => \A t \in Tasks : at[t] \notin BidiPlaces
    /\ protocol = "bidi" =>
          /\ \A t \in Tasks : at[t] \notin CdpPlaces \cup AttachPlaces
          /\ \A e \in Events : handlers[e] = {}

\* An operation in progress has no other listeners than it needs where it is:
\* registered so far, or not removed yet.
OnlyNeeded(t, e) ==
    at[t] # "idle" /\ serial[t] \in handlers[e] =>
        \/ /\ op[t] \in Kinds /\ at[t] \in CdpPlaces
           /\ \E k \in 1..Len(Listens(op[t])) :
                 /\ Listens(op[t])[k] = e
                 /\ at[t] = "listen" => k <= nth[t]
                 /\ at[t] = "unlisten" => k > nth[t]
        \/ op[t] = "attach" /\ at[t] = "event" /\ e = "attached"

ListenerInv == \A t \in Tasks, e \in Events : OnlyNeeded(t, e)

\* Unless it was robbed, it has all of them.
AllNeeded(t) ==
    op[t] \in Kinds /\ at[t] \in CdpPlaces \ {"unlisten"} /\ serial[t] \notin robbed =>
        \A k \in 1..Len(Listens(op[t])) :
            (at[t] = "listen" => k <= nth[t]) => serial[t] \in handlers[Listens(op[t])[k]]

EarInv == clearing = "no" => \A t \in Tasks : AllNeeded(t)

\* Pages fire the events of commands that were sent.
VisitInv ==
    /\ \A v \in visits : v \in Nat /\ v < next_id
    /\ fired \subseteq PageEvents \X visits

\* A session is shared only when it has a context, so nobody looks for one while
\* another operation uses it.
ContextInv ==
    /\ context \in Contexts /\ ctx \in [Tasks -> Contexts]
    /\ \A t \in Tasks : at[t] \in {"find", "found"} => op[t] = "init" /\ t = Attacher /\ ~ready
    /\ \A t \in Tasks : at[t] \in {"send", "sent"} => ready
    /\ protocol = "bidi" /\ ready /\ clearing # "done" => context # "none"
    /\ begun = 0 => context = "none" /\ ~ready

AdapterInv ==
    /\ SessionTypes /\ SerialInv /\ PlaceInv /\ SideInv /\ ListenerInv /\ EarInv
    /\ VisitInv /\ ContextInv /\ OnlyRobbedMiss /\ NoStrayListener /\ ContextIsCurrent

-----------------------------------------------------------------------------
\* Lemma: what the operations listen to.
LEMMA ListensTo ==
    /\ \A o \in {"navigate", "navigate_fast", "navigate_dom"} :
          /\ Len(Listens(o)) \in 1..2 /\ DOMAIN Listens(o) = 1..Len(Listens(o))
          /\ \A k \in 1..Len(Listens(o)) : Listens(o)[k] \in PageEvents
          /\ \A j, k \in 1..Len(Listens(o)) : Listens(o)[j] = Listens(o)[k] => j = k
          /\ Listens(o) # <<>>
    /\ \A o \in {"none", "attach", "command", "init"} : Listens(o) = <<>>
    /\ "attached" \notin PageEvents /\ PageEvents \subseteq Events /\ "attached" \in Events
<1>1. Listens("navigate") = <<"load", "stopped">> /\ Listens("navigate_fast") = <<"load">>
      /\ Listens("navigate_dom") = <<"dom">>
  BY DEF Listens
<1>2. \A o \in {"none", "attach", "command", "init"} : Listens(o) = <<>>
  BY DEF Listens
<1>3. \A s \in {<<"load", "stopped">>, <<"load">>, <<"dom">>} :
        /\ Len(s) \in 1..2 /\ DOMAIN s = 1..Len(s) /\ s # <<>>
        /\ \A k \in 1..Len(s) : s[k] \in PageEvents
        /\ \A j, k \in 1..Len(s) : s[j] = s[k] => j = k
  BY DEF PageEvents
<1>4. "attached" \notin PageEvents /\ PageEvents \subseteq Events /\ "attached" \in Events
  BY DEF PageEvents, Events
<1>5. \A o \in {"navigate", "navigate_fast", "navigate_dom"} :
        Listens(o) \in {<<"load", "stopped">>, <<"load">>, <<"dom">>}
  BY <1>1
<1> QED BY <1>2, <1>3, <1>4, <1>5

\* Lemma: the types that the steps below rest on.
LEMMA SessionTypesAre ==
    ASSUME CallsAssumption, OpsAssumption, SessionAssumption, AdapterInv
    PROVE  /\ op \in [Tasks -> Ops]
           /\ at \in [Tasks -> {"idle"} \cup CdpPlaces \cup AttachPlaces \cup BidiPlaces]
           /\ serial \in [Tasks -> Nat] /\ nth \in [Tasks -> Nat] /\ begun \in Nat
           /\ handlers \in [Events -> SUBSET Nat]
           /\ heard \in [Tasks -> SUBSET (Events \cup {"page", "other"})]
           /\ failed \subseteq Nat /\ robbed \subseteq Nat
           /\ Attacher \in Tasks
           /\ Kinds \subseteq {"navigate", "navigate_fast", "navigate_dom"}
BY DEF AdapterInv, SessionTypes

-----------------------------------------------------------------------------
\* Lemma: a navigation listens to one or two events of pages.
LEMMA KindsListen ==
    ASSUME SessionAssumption, NEW o \in Kinds
    PROVE  /\ Len(Listens(o)) \in Nat /\ 0 < Len(Listens(o)) /\ Listens(o) # <<>>
           /\ o \notin {"none", "attach", "command", "init"}
           /\ DOMAIN Listens(o) = 1..Len(Listens(o))
           /\ \A k \in 1..Len(Listens(o)) :
                 Listens(o)[k] \in PageEvents /\ Listens(o)[k] \in Events
           /\ \A j, k \in 1..Len(Listens(o)) : Listens(o)[j] = Listens(o)[k] => j = k
<1>1. o \in {"navigate", "navigate_fast", "navigate_dom"}
  OBVIOUS
<1>2. Len(Listens(o)) \in 1..2
  BY <1>1, ListensTo
<1>3. Len(Listens(o)) \in Nat /\ 0 < Len(Listens(o))
  BY <1>2
<1> QED BY <1>1, <1>3, ListensTo

\* Lemma: an operation begins over CDP, under a number nobody has.
LEMMA BeginsOverCdp ==
    ASSUME CallsAssumption, OpsAssumption, SessionAssumption, AdapterInv, CallsTypeOK,
           protocol = "cdp", NEW t \in Tasks, NEW o, NEW place, BeginCdp(t, o, place),
           \/ o \in Kinds /\ place = "listen"
           \/ o = "command" /\ place = "ask"
           \/ o = "attach" /\ place = "command" /\ t = Attacher,
           UNCHANGED <<bidiVars, protocol>>
    PROVE  AdapterInv'
<1>a. /\ at[t] = "idle" /\ begun' = begun + 1
      /\ op' = [op EXCEPT ![t] = o] /\ serial' = [serial EXCEPT ![t] = begun + 1]
      /\ nth' = [nth EXCEPT ![t] = 0] /\ at' = [at EXCEPT ![t] = place]
      /\ heard' = [heard EXCEPT ![t] = {}]
      /\ UNCHANGED <<failed, ready, clearing, target, handlers, visits, fired,
                     robbed, context, ctx, protocol, next_id, call>>
  BY DEF BeginCdp, Begin, Goto, callVars, pageVars, bidiVars
<1>1. SessionTypes'
  <2>1. op' \in [Tasks -> Ops]
    BY <1>a, SessionTypesAre DEF Ops
  <2>2. serial' \in [Tasks -> Nat]
    BY <1>a, SessionTypesAre
  <2>3. begun' \in Nat
    BY <1>a, SessionTypesAre
  <2>4. at' \in [Tasks -> {"idle"} \cup CdpPlaces \cup AttachPlaces \cup BidiPlaces]
    BY <1>a, SessionTypesAre DEF CdpPlaces, AttachPlaces
  <2>5. nth' \in [Tasks -> Nat]
    BY <1>a, SessionTypesAre
  <2>6. heard' \in [Tasks -> SUBSET (Events \cup {"page", "other"})]
    BY <1>a, SessionTypesAre
  <2> QED BY <1>a, <2>1, <2>2, <2>3, <2>4, <2>5, <2>6, SessionTypesAre DEF SessionTypes
<1>2. SerialInv'
  BY <1>a, SessionTypesAre DEF SerialInv, AdapterInv
<1>3. PlaceInv'
  <2> SUFFICES ASSUME NEW u \in Tasks PROVE Places(u)'
    BY DEF PlaceInv
  <2>0. Places(u)
    BY DEF AdapterInv, PlaceInv
  <2>1. CASE u # t
    BY <2>1, <2>0, <1>a DEF Places
  <2>2. CASE u = t /\ o \in Kinds /\ place = "listen"
    <3>1. at'[u] = "listen" /\ op'[u] = o /\ nth'[u] = 0
      BY <2>2, <1>a, SessionTypesAre
    <3>2. 0 < Len(Listens(o))
      BY <2>2, KindsListen
    <3> QED BY <3>1, <3>2, <2>2 DEF Places, AttachPlaces
  <2>3. CASE u = t /\ o = "command" /\ place = "ask"
    BY <2>3, <2>0, <1>a, SessionTypesAre DEF Places, AttachPlaces
  <2>4. CASE u = t /\ o = "attach" /\ place = "command" /\ t = Attacher
    BY <2>4, <2>0, <1>a, SessionTypesAre DEF Places
  <2> QED BY <2>1, <2>2, <2>3, <2>4, <1>a
<1>4. SideInv'
  BY <1>a DEF SideInv, AdapterInv, BidiPlaces
<1>5. ListenerInv'
  <2> SUFFICES ASSUME NEW u \in Tasks, NEW f \in Events PROVE OnlyNeeded(u, f)'
    BY DEF ListenerInv
  <2>0. OnlyNeeded(u, f) /\ Places(u) /\ SerialInv
    BY DEF AdapterInv, ListenerInv, PlaceInv
  <2>1. CASE u # t
    BY <2>1, <2>0, <1>a DEF OnlyNeeded
  <2>2. CASE u = t /\ o \in Kinds /\ place = "listen"
    BY <2>2, <2>0, <1>a, SessionTypesAre DEF OnlyNeeded, SerialInv
  <2>3. CASE u = t /\ o = "command" /\ place = "ask"
    BY <2>3, <2>0, <1>a, SessionTypesAre DEF OnlyNeeded, SerialInv
  <2>4. CASE u = t /\ o = "attach" /\ place = "command" /\ t = Attacher
    BY <2>4, <2>0, <1>a, SessionTypesAre DEF OnlyNeeded, SerialInv
  <2> QED BY <2>1, <2>2, <2>3, <2>4, <1>a
<1>6. EarInv'
  <2> SUFFICES ASSUME NEW u \in Tasks, clearing' = "no" PROVE AllNeeded(u)'
    BY DEF EarInv
  <2>0. AllNeeded(u) /\ Places(u) /\ SerialInv
    BY <1>a DEF AdapterInv, EarInv, PlaceInv
  <2>1. CASE u # t
    BY <2>1, <2>0, <1>a DEF AllNeeded
  <2>2. CASE u = t /\ o \in Kinds /\ place = "listen"
    BY <2>2, <2>0, <1>a, SessionTypesAre DEF AllNeeded
  <2>3. CASE u = t /\ o = "command" /\ place = "ask"
    BY <2>3, <2>0, <1>a, SessionTypesAre DEF AllNeeded
  <2>4. CASE u = t /\ o = "attach" /\ place = "command" /\ t = Attacher
    BY <2>4, <2>0, <1>a DEF AllNeeded, CdpPlaces
  <2> QED BY <2>1, <2>2, <2>3, <2>4, <1>a
<1>7. VisitInv'
  BY <1>a DEF VisitInv, AdapterInv
<1>8. ContextInv'
  BY <1>a, SessionTypesAre DEF ContextInv, AdapterInv
<1>9. OnlyRobbedMiss'
  BY <1>a, SessionTypesAre, ListensTo
     DEF OnlyRobbedMiss, AdapterInv, HearsOwnEvents, Navigating, SerialInv, PlaceInv,
         Places, EarInv, AllNeeded, VisitInv, CdpPlaces, AttachPlaces, BidiPlaces
<1>10. NoStrayListener'
  BY <1>a, SessionTypesAre, ListensTo
     DEF NoStrayListener, AdapterInv, SerialInv, ListenerInv, OnlyNeeded, PlaceInv, Places
<1>11. ContextIsCurrent'
  BY <1>a DEF ContextIsCurrent, AdapterInv
<1> QED BY <1>1, <1>2, <1>3, <1>4, <1>5, <1>6, <1>7, <1>8, <1>9, <1>10, <1>11
   DEF AdapterInv

\* Lemma: it registers one listener after the other.
LEMMA ListensOnce ==
    ASSUME CallsAssumption, OpsAssumption, SessionAssumption, AdapterInv, CallsTypeOK,
           protocol = "cdp", NEW t \in Tasks, Listen(t), UNCHANGED <<bidiVars, protocol>>
    PROVE  AdapterInv'
<1>a. /\ at[t] = "listen" /\ op[t] \in Kinds
      /\ nth' = [nth EXCEPT ![t] = nth[t] + 1]
      /\ \/ nth[t] + 1 = Len(Listens(op[t])) /\ at' = [at EXCEPT ![t] = "ask"]
         \/ nth[t] + 1 # Len(Listens(op[t])) /\ at' = at
      /\ handlers' = [handlers EXCEPT ![Listens(op[t])[nth[t] + 1]] = @ \cup {serial[t]}]
      /\ UNCHANGED <<op, serial, begun, failed, ready, clearing, target, heard,
                     visits, fired, robbed, context, ctx, protocol,
                     next_id, call>>
  BY SessionTypesAre
     DEF Listen, On, Goto, Frame, beginVars, callVars, pageVars, bidiVars, AdapterInv,
         PlaceInv, Places
<1>b. /\ nth[t] + 1 \in 1..Len(Listens(op[t])) /\ nth[t] < Len(Listens(op[t]))
      /\ Listens(op[t])[nth[t] + 1] \in Events
      /\ Listens(op[t])[nth[t] + 1] \in PageEvents
  <2>1. Len(Listens(op[t])) \in Nat
    BY <1>a
  <2>2. nth[t] < Len(Listens(op[t])) /\ nth[t] \in Nat
    BY <1>a, SessionTypesAre DEF AdapterInv, PlaceInv, Places
  <2>3. nth[t] + 1 \in 1..Len(Listens(op[t]))
    BY <2>1, <2>2
  <2> QED BY <1>a, <2>2, <2>3, KindsListen
<1>1. SessionTypes'
  <2>1. at' \in [Tasks -> {"idle"} \cup CdpPlaces \cup AttachPlaces \cup BidiPlaces]
    BY <1>a, <1>b, SessionTypesAre DEF CdpPlaces, AttachPlaces, BidiPlaces
  <2>2. nth' \in [Tasks -> Nat]
    BY <1>a, <1>b, SessionTypesAre
  <2>3. handlers' \in [Events -> SUBSET Nat]
    BY <1>a, <1>b, SessionTypesAre
  <2> QED BY <1>a, <2>1, <2>2, <2>3, SessionTypesAre DEF SessionTypes
<1>2. SerialInv'
  BY <1>a, <1>b, SessionTypesAre DEF SerialInv, AdapterInv
<1>3. PlaceInv'
  BY <1>a, <1>b, SessionTypesAre DEF PlaceInv, AdapterInv, Places, AttachPlaces
<1>4. SideInv'
  BY <1>a, <1>b, SessionTypesAre DEF SideInv, AdapterInv, BidiPlaces
<1>5. ListenerInv'
  <2> SUFFICES ASSUME NEW u \in Tasks, NEW f \in Events, at'[u] # "idle",
                      serial'[u] \in handlers'[f]
               PROVE  OnlyNeeded(u, f)'
    BY DEF ListenerInv, OnlyNeeded
  <2>0. OnlyNeeded(u, f) /\ SerialInv
    BY DEF AdapterInv, ListenerInv
  <2>1. CASE u # t
    <3>1. at'[u] = at[u] /\ nth'[u] = nth[u] /\ op' = op /\ serial' = serial
      BY <2>1, <1>a, SessionTypesAre
    <3>2. serial[u] # serial[t]
      BY <2>1, <2>0, <3>1 DEF SerialInv
    <3>3. serial[u] \in handlers[f]
      BY <3>1, <3>2, <1>a, <1>b
    <3> QED BY <3>1, <3>3, <2>0 DEF OnlyNeeded
  <2>2. CASE u = t
    <3>1. /\ op'[t] = op[t] /\ serial'[t] = serial[t] /\ nth'[t] = nth[t] + 1
          /\ at'[t] \in {"listen", "ask"} /\ op[t] \in Kinds
      BY <1>a, SessionTypesAre
    <3>2. CASE f = Listens(op[t])[nth[t] + 1]
      BY <3>1, <3>2, <2>2, <1>b DEF OnlyNeeded, CdpPlaces
    <3>3. CASE f # Listens(op[t])[nth[t] + 1]
      <4>1. serial[t] \in handlers[f]
        BY <3>1, <3>3, <2>2, <1>a
      <4>2. PICK k \in 1..Len(Listens(op[t])) : Listens(op[t])[k] = f /\ k <= nth[t]
        BY <4>1, <2>0, <2>2, <1>a DEF OnlyNeeded
      <4>3. k <= nth'[t]
        BY <4>2, <3>1, <1>b, SessionTypesAre
      <4> QED BY <4>2, <4>3, <3>1, <2>2 DEF OnlyNeeded, CdpPlaces
    <3> QED BY <3>2, <3>3
  <2> QED BY <2>1, <2>2
<1>6. EarInv'
  <2> SUFFICES ASSUME NEW u \in Tasks, clearing' = "no" PROVE AllNeeded(u)'
    BY DEF EarInv
  <2>0. AllNeeded(u)
    BY <1>a DEF AdapterInv, EarInv
  <2>1. \A e \in Events : handlers[e] \subseteq handlers'[e]
    BY <1>a, <1>b
  <2>2. CASE u # t
    <3>1. at'[u] = at[u] /\ nth'[u] = nth[u]
      BY <2>2, <1>a, SessionTypesAre
    <3> QED BY <3>1, <2>0, <2>1, <1>a DEF AllNeeded
  <2>3. CASE u = t
    <3>1. /\ op'[t] = op[t] /\ serial'[t] = serial[t] /\ nth'[t] = nth[t] + 1
          /\ robbed' = robbed /\ at[t] = "listen" /\ op[t] \in Kinds
          /\ at'[t] = "listen" \/ nth[t] + 1 = Len(Listens(op[t]))
      BY <1>a, SessionTypesAre
    <3> SUFFICES ASSUME serial[t] \notin robbed, NEW k \in 1..Len(Listens(op[t])),
                        at'[t] = "listen" => k <= nth'[t]
                 PROVE  serial[t] \in handlers'[Listens(op[t])[k]]
      BY <3>1, <2>3 DEF AllNeeded
    <3>2. k <= nth[t] + 1
      BY <3>1, <1>b
    <3>3. CASE k = nth[t] + 1
      BY <3>3, <1>a, <1>b, SessionTypesAre
    <3>4. CASE k # nth[t] + 1
      <4>1. k <= nth[t]
        BY <3>2, <3>4, SessionTypesAre
      <4>2. serial[t] \in handlers[Listens(op[t])[k]]
        BY <4>1, <3>1, <2>0, <2>3 DEF AllNeeded, CdpPlaces
      <4> QED BY <4>2, <2>1, <3>1, KindsListen
    <3> QED BY <3>3, <3>4
  <2> QED BY <2>2, <2>3
<1>7. VisitInv'
  BY <1>a, <1>b DEF VisitInv, AdapterInv
<1>8. ContextInv'
  BY <1>a, <1>b, SessionTypesAre DEF ContextInv, AdapterInv
<1>9. OnlyRobbedMiss'
  BY <1>a, <1>b, SessionTypesAre, ListensTo
     DEF OnlyRobbedMiss, AdapterInv, HearsOwnEvents, Navigating, SerialInv, PlaceInv,
         Places, EarInv, AllNeeded, VisitInv, CdpPlaces, AttachPlaces, BidiPlaces
<1>10. NoStrayListener'
  BY <1>a, <1>b, SessionTypesAre DEF NoStrayListener, AdapterInv
<1>11. ContextIsCurrent'
  BY <1>a, <1>b, SessionTypesAre DEF ContextIsCurrent, AdapterInv
<1> QED BY <1>1, <1>2, <1>3, <1>4, <1>5, <1>6, <1>7, <1>8, <1>9, <1>10, <1>11
   DEF AdapterInv

\* Lemma: it sends its command, or there is no page to send it to.
LEMMA AsksPage ==
    ASSUME CallsAssumption, OpsAssumption, SessionAssumption, AdapterInv, CallsTypeOK,
           protocol = "cdp", NEW t \in Tasks, Ask(t), UNCHANGED <<bidiVars, protocol>>
    PROVE  AdapterInv'
<1>a. /\ at[t] = "ask"
      /\ \/ /\ at' = [at EXCEPT ![t] = "idle"] /\ failed' = failed \cup {serial[t]}
            /\ UNCHANGED <<visits, next_id, call>>
         \/ /\ at' = [at EXCEPT ![t] = "answer"] /\ failed' = failed
            /\ next_id' = next_id + 1 /\ call' = [call EXCEPT ![t] = next_id]
            /\ visits' = IF Listens(op[t]) # <<>> THEN visits \cup {next_id} ELSE visits
      /\ next_id \in Nat /\ call \in [Tasks -> Nat]
      /\ UNCHANGED <<op, serial, begun, nth, ready, clearing, target, handlers,
                     heard, fired, robbed, context, ctx, protocol>>
  BY DEF Ask, AskPage, Call, Fail, Finish, Goto, beginVars, callVars, bidiVars,
         CallsTypeOK
<1>1. SessionTypes'
  <2>1. at' \in [Tasks -> {"idle"} \cup CdpPlaces \cup AttachPlaces \cup BidiPlaces]
    BY <1>a, SessionTypesAre DEF CdpPlaces, AttachPlaces, BidiPlaces
  <2>2. failed' \subseteq Nat
    BY <1>a, SessionTypesAre
  <2> QED BY <1>a, <2>1, <2>2, SessionTypesAre DEF SessionTypes
<1>2. SerialInv'
  BY <1>a, SessionTypesAre DEF SerialInv, AdapterInv
<1>3. PlaceInv'
  BY <1>a, SessionTypesAre, ListensTo
     DEF PlaceInv, AdapterInv, Places, CdpPlaces, AttachPlaces, BidiPlaces
<1>4. SideInv'
  BY <1>a, SessionTypesAre DEF SideInv, AdapterInv, BidiPlaces
<1>5. ListenerInv'
  <2> SUFFICES ASSUME NEW u \in Tasks, NEW e \in Events PROVE OnlyNeeded(u, e)'
    BY DEF ListenerInv
  <2>0. OnlyNeeded(u, e) /\ Places(u)
    BY DEF AdapterInv, ListenerInv, PlaceInv
  <2>1. CASE u # t
    BY <2>1, <2>0, <1>a, SessionTypesAre DEF OnlyNeeded
  <2>2. CASE u = t
    BY <2>2, <2>0, <1>a, SessionTypesAre, ListensTo DEF OnlyNeeded, Places, CdpPlaces
  <2> QED BY <2>1, <2>2
<1>6. EarInv'
  <2> SUFFICES ASSUME NEW u \in Tasks, clearing' = "no" PROVE AllNeeded(u)'
    BY DEF EarInv
  <2>0. AllNeeded(u)
    BY <1>a DEF AdapterInv, EarInv
  <2>1. CASE u # t
    BY <2>1, <2>0, <1>a, SessionTypesAre DEF AllNeeded
  <2>2. CASE u = t
    BY <2>2, <2>0, <1>a, SessionTypesAre DEF AllNeeded, CdpPlaces
  <2> QED BY <2>1, <2>2
<1>7. VisitInv'
  BY <1>a DEF VisitInv, AdapterInv
<1>8. ContextInv'
  BY <1>a, SessionTypesAre DEF ContextInv, AdapterInv, CdpPlaces
<1>9. OnlyRobbedMiss'
  <2> SUFFICES ASSUME NEW u \in Tasks, clearing' = "no", serial'[u] \notin robbed'
               PROVE  HearsOwnEvents(u)'
    BY DEF OnlyRobbedMiss
  <2>0. HearsOwnEvents(u) /\ AllNeeded(u) /\ Places(u) /\ VisitInv
        /\ OnlyNeeded(u, "attached")
    BY <1>a, ListensTo DEF AdapterInv, OnlyRobbedMiss, EarInv, PlaceInv, ListenerInv
  <2>1. CASE u # t
    BY <2>1, <2>0, <1>a, SessionTypesAre
       DEF HearsOwnEvents, Navigating, OnlyNeeded, Places
  <2>2. CASE u = t /\ at'[t] = "idle"
    BY <2>2, <2>0, <1>a DEF HearsOwnEvents
  <2>3. CASE u = t /\ at'[t] # "idle"
    BY <2>3, <2>0, <1>a, SessionTypesAre DEF HearsOwnEvents, VisitInv
  <2> QED BY <2>1, <2>2, <2>3, <1>a
<1>10. NoStrayListener'
  BY <1>a, SessionTypesAre DEF NoStrayListener, AdapterInv
<1>11. ContextIsCurrent'
  BY <1>a, SessionTypesAre DEF ContextIsCurrent, AdapterInv
<1> QED BY <1>1, <1>2, <1>3, <1>4, <1>5, <1>6, <1>7, <1>8, <1>9, <1>10, <1>11
   DEF AdapterInv

\* Lemma: the command returns.
LEMMA IsAnswered ==
    ASSUME CallsAssumption, OpsAssumption, SessionAssumption, AdapterInv, CallsTypeOK,
           protocol = "cdp", NEW t \in Tasks, Answered(t), UNCHANGED <<bidiVars, protocol>>
    PROVE  AdapterInv'
<1>a. /\ at[t] = "answer"
      /\ \/ /\ at' = [at EXCEPT ![t] = "idle"] /\ failed' = failed \cup {serial[t]} /\ nth' = nth
         \/ /\ op[t] = "command" /\ at' = [at EXCEPT ![t] = "idle"] /\ failed' = failed /\ nth' = nth
         \/ /\ op[t] \in Kinds /\ at' = [at EXCEPT ![t] = "unlisten"] /\ failed' = failed
            /\ nth' = [nth EXCEPT ![t] = 0]
         \/ /\ op[t] \in Kinds /\ at' = [at EXCEPT ![t] = "wait"] /\ failed' = failed /\ nth' = nth
      /\ UNCHANGED <<op, serial, begun, ready, clearing, target, handlers,
                     heard, visits, fired, robbed, context, ctx,
                     protocol, next_id, call>>
  BY DEF Answered, EndWait, Fail, Finish, Goto, Frame, beginVars, callVars, pageVars,
         bidiVars
<1>b. at'[t] \in {"idle", "unlisten", "wait"}
  BY <1>a, SessionTypesAre
<1>1. SessionTypes'
  <2>1. at' \in [Tasks -> {"idle"} \cup CdpPlaces \cup AttachPlaces \cup BidiPlaces]
    BY <1>a, SessionTypesAre DEF CdpPlaces
  <2>2. failed' \subseteq Nat
    BY <1>a, SessionTypesAre
  <2>3. nth' \in [Tasks -> Nat]
    BY <1>a, SessionTypesAre
  <2> QED BY <1>a, <2>1, <2>2, <2>3, SessionTypesAre DEF SessionTypes
<1>2. SerialInv'
  BY <1>a, SessionTypesAre DEF SerialInv, AdapterInv
<1>3. PlaceInv'
  <2> SUFFICES ASSUME NEW u \in Tasks PROVE Places(u)'
    BY DEF PlaceInv
  <2>0. Places(u)
    BY DEF AdapterInv, PlaceInv
  <2>1. CASE u # t
    BY <2>1, <2>0, <1>a, SessionTypesAre DEF Places
  <2>2. CASE u = t /\ at'[t] = "idle"
    BY <2>2, <2>0, <1>a DEF Places, AttachPlaces
  <2>3. CASE u = t /\ at'[t] = "unlisten"
    <3>1. op[t] \in Kinds /\ op'[t] = op[t]
      BY <2>3, <2>0, <1>a, SessionTypesAre
    <3>2. nth'[t] = 0
      BY <2>3, <1>a, SessionTypesAre
    <3>3. 0 < Len(Listens(op[t]))
      BY <3>1, KindsListen
    <3> QED BY <2>3, <3>1, <3>2, <3>3 DEF Places, AttachPlaces
  <2>4. CASE u = t /\ at'[t] = "wait"
    BY <2>4, <2>0, <1>a, SessionTypesAre DEF Places, AttachPlaces
  <2> QED BY <2>1, <2>2, <2>3, <2>4, <1>b
<1>4. SideInv'
  BY <1>a, SessionTypesAre DEF SideInv, AdapterInv, BidiPlaces
<1>5. ListenerInv'
  <2> SUFFICES ASSUME NEW u \in Tasks, NEW f \in Events PROVE OnlyNeeded(u, f)'
    BY DEF ListenerInv
  <2>0. OnlyNeeded(u, f) /\ Places(u) /\ SerialInv
    BY DEF AdapterInv, ListenerInv, PlaceInv
  <2>1. CASE u # t
    BY <2>1, <2>0, <1>a, SessionTypesAre DEF OnlyNeeded
  <2>2. CASE u = t /\ at'[t] = "idle"
    BY <2>2, <2>0, <1>a DEF OnlyNeeded
  <2>3. CASE u = t /\ at'[t] = "unlisten"
    BY <2>3, <2>0, <1>a, SessionTypesAre DEF OnlyNeeded, CdpPlaces
  <2>4. CASE u = t /\ at'[t] = "wait"
    BY <2>4, <2>0, <1>a DEF OnlyNeeded, CdpPlaces
  <2> QED BY <2>1, <2>2, <2>3, <2>4, <1>b
<1>6. EarInv'
  <2> SUFFICES ASSUME NEW u \in Tasks, clearing' = "no" PROVE AllNeeded(u)'
    BY DEF EarInv
  <2>0. AllNeeded(u)
    BY <1>a DEF AdapterInv, EarInv
  <2>1. CASE u # t
    BY <2>1, <2>0, <1>a, SessionTypesAre DEF AllNeeded
  <2>2. CASE u = t
    BY <2>2, <2>0, <1>a, SessionTypesAre DEF AllNeeded, CdpPlaces
  <2> QED BY <2>1, <2>2
<1>7. VisitInv'
  BY <1>a DEF VisitInv, AdapterInv
<1>8. ContextInv'
  BY <1>a, SessionTypesAre DEF ContextInv, AdapterInv
<1>9. OnlyRobbedMiss'
  BY <1>a, SessionTypesAre, ListensTo
     DEF OnlyRobbedMiss, AdapterInv, HearsOwnEvents, Navigating, SerialInv, PlaceInv,
         Places, EarInv, AllNeeded, VisitInv, CdpPlaces, AttachPlaces, BidiPlaces
<1>10. NoStrayListener'
  <2> SUFFICES ASSUME NEW f \in Events, NEW n \in handlers'[f], n \notin failed'
               PROVE  \E v \in Tasks : at'[v] # "idle" /\ serial'[v] = n
    BY DEF NoStrayListener
  <2>0. PICK u \in Tasks : at[u] # "idle" /\ serial[u] = n
    BY <1>a DEF AdapterInv, NoStrayListener
  <2>a. OnlyNeeded(u, f) /\ Places(u) /\ SerialInv
    BY DEF AdapterInv, ListenerInv, PlaceInv
  <2>1. CASE u # t
    BY <2>1, <2>0, <2>a, <1>a, SessionTypesAre
  <2>2. CASE u = t /\ at'[t] = "idle"
    BY <2>2, <2>0, <2>a, <1>a, SessionTypesAre DEF OnlyNeeded
  <2>3. CASE u = t /\ at'[t] = "unlisten"
    BY <2>3, <2>0, <2>a, <1>a
  <2>4. CASE u = t /\ at'[t] = "wait"
    BY <2>4, <2>0, <2>a, <1>a
  <2> QED BY <2>1, <2>2, <2>3, <2>4, <1>b
<1>11. ContextIsCurrent'
  BY <1>a, SessionTypesAre DEF ContextIsCurrent, AdapterInv
<1> QED BY <1>1, <1>2, <1>3, <1>4, <1>5, <1>6, <1>7, <1>8, <1>9, <1>10, <1>11
   DEF AdapterInv

\* Lemma: the wait ends, or goes on for another event.
LEMMA Waits ==
    ASSUME CallsAssumption, OpsAssumption, SessionAssumption, AdapterInv, CallsTypeOK,
           protocol = "cdp", NEW t \in Tasks, Hear(t) \/ WaitNoMore(t),
           UNCHANGED <<bidiVars, protocol>>
    PROVE  AdapterInv'
<1>a. /\ at[t] \in {"wait", "fallback"}
      /\ \/ at' = [at EXCEPT ![t] = "unlisten"] /\ nth' = [nth EXCEPT ![t] = 0]
         \/ at' = [at EXCEPT ![t] = "fallback"] /\ nth' = nth
      /\ UNCHANGED <<op, serial, begun, failed, ready, clearing, target,
                     handlers, heard, visits, fired, robbed, context,
                     ctx, protocol, next_id, call>>
  BY DEF Hear, WaitNoMore, EndWait, Goto, Frame, beginVars, callVars, pageVars, bidiVars
<1>b. at'[t] \in {"unlisten", "fallback"}
  BY <1>a, SessionTypesAre
<1>1. SessionTypes'
  <2>1. at' \in [Tasks -> {"idle"} \cup CdpPlaces \cup AttachPlaces \cup BidiPlaces]
    BY <1>a, SessionTypesAre DEF CdpPlaces
  <2>2. nth' \in [Tasks -> Nat]
    BY <1>a, SessionTypesAre
  <2> QED BY <1>a, <2>1, <2>2, SessionTypesAre DEF SessionTypes
<1>2. SerialInv'
  BY <1>a, SessionTypesAre DEF SerialInv, AdapterInv
<1>3. PlaceInv'
  <2> SUFFICES ASSUME NEW u \in Tasks PROVE Places(u)'
    BY DEF PlaceInv
  <2>0. Places(u)
    BY DEF AdapterInv, PlaceInv
  <2>1. CASE u # t
    BY <2>1, <2>0, <1>a, SessionTypesAre DEF Places
  <2>2. CASE u = t /\ at'[t] = "unlisten"
    <3>1. op[t] \in Kinds /\ op'[t] = op[t]
      BY <2>2, <2>0, <1>a DEF Places
    <3>2. nth'[t] = 0
      BY <2>2, <1>a, SessionTypesAre
    <3>3. 0 < Len(Listens(op[t]))
      BY <3>1, KindsListen
    <3> QED BY <2>2, <3>1, <3>2, <3>3 DEF Places, AttachPlaces
  <2>3. CASE u = t /\ at'[t] = "fallback"
    BY <2>3, <2>0, <1>a DEF Places, AttachPlaces
  <2> QED BY <2>1, <2>2, <2>3, <1>b
<1>4. SideInv'
  BY <1>a, SessionTypesAre DEF SideInv, AdapterInv, BidiPlaces
<1>5. ListenerInv'
  <2> SUFFICES ASSUME NEW u \in Tasks, NEW f \in Events PROVE OnlyNeeded(u, f)'
    BY DEF ListenerInv
  <2>0. OnlyNeeded(u, f) /\ Places(u) /\ SerialInv
    BY DEF AdapterInv, ListenerInv, PlaceInv
  <2>1. CASE u # t
    BY <2>1, <2>0, <1>a, SessionTypesAre DEF OnlyNeeded
  <2>2. CASE u = t /\ at'[t] = "unlisten"
    BY <2>2, <2>0, <1>a, SessionTypesAre DEF OnlyNeeded, CdpPlaces
  <2>3. CASE u = t /\ at'[t] = "fallback"
    BY <2>3, <2>0, <1>a DEF OnlyNeeded, CdpPlaces
  <2> QED BY <2>1, <2>2, <2>3, <1>b
<1>6. EarInv'
  <2> SUFFICES ASSUME NEW u \in Tasks, clearing' = "no" PROVE AllNeeded(u)'
    BY DEF EarInv
  <2>0. AllNeeded(u)
    BY <1>a DEF AdapterInv, EarInv
  <2>1. CASE u # t
    BY <2>1, <2>0, <1>a, SessionTypesAre DEF AllNeeded
  <2>2. CASE u = t
    BY <2>2, <2>0, <1>a, SessionTypesAre DEF AllNeeded, CdpPlaces
  <2> QED BY <2>1, <2>2
<1>7. VisitInv'
  BY <1>a DEF VisitInv, AdapterInv
<1>8. ContextInv'
  BY <1>a, SessionTypesAre DEF ContextInv, AdapterInv
<1>9. OnlyRobbedMiss'
  BY <1>a, SessionTypesAre, ListensTo
     DEF OnlyRobbedMiss, AdapterInv, HearsOwnEvents, Navigating, SerialInv, PlaceInv,
         Places, EarInv, AllNeeded, VisitInv, CdpPlaces, AttachPlaces, BidiPlaces
<1>10. NoStrayListener'
  BY <1>a, SessionTypesAre DEF NoStrayListener, AdapterInv
<1>11. ContextIsCurrent'
  BY <1>a, SessionTypesAre DEF ContextIsCurrent, AdapterInv
<1> QED BY <1>1, <1>2, <1>3, <1>4, <1>5, <1>6, <1>7, <1>8, <1>9, <1>10, <1>11
   DEF AdapterInv

\* Lemma: it removes its listeners and everybody else's.
LEMMA Unlistens ==
    ASSUME CallsAssumption, OpsAssumption, SessionAssumption, AdapterInv, CallsTypeOK,
           protocol = "cdp", NEW t \in Tasks, Unlisten(t), UNCHANGED <<bidiVars, protocol>>
    PROVE  AdapterInv'
<1>a. /\ at[t] = "unlisten" /\ op[t] \in Kinds
      /\ nth' = [nth EXCEPT ![t] = nth[t] + 1]
      /\ \/ nth[t] + 1 = Len(Listens(op[t])) /\ at' = [at EXCEPT ![t] = "idle"]
         \/ nth[t] + 1 # Len(Listens(op[t])) /\ at' = at
      /\ handlers' = [handlers EXCEPT ![Listens(op[t])[nth[t] + 1]] = {}]
      /\ robbed' = robbed \cup (handlers[Listens(op[t])[nth[t] + 1]] \ {serial[t]})
      /\ UNCHANGED <<op, serial, begun, failed, ready, clearing, target, heard,
                     visits, fired, context, ctx, protocol, next_id,
                     call>>
  BY SessionTypesAre
     DEF Unlisten, RemoveAll, Goto, Frame, beginVars, callVars, pageVars, bidiVars,
         AdapterInv, PlaceInv, Places
<1>b. /\ nth[t] + 1 \in 1..Len(Listens(op[t])) /\ nth[t] < Len(Listens(op[t]))
      /\ Listens(op[t])[nth[t] + 1] \in Events
      /\ Listens(op[t])[nth[t] + 1] \in PageEvents
  <2>1. Len(Listens(op[t])) \in Nat
    BY <1>a
  <2>2. nth[t] < Len(Listens(op[t])) /\ nth[t] \in Nat
    BY <1>a, SessionTypesAre DEF AdapterInv, PlaceInv, Places
  <2>3. nth[t] + 1 \in 1..Len(Listens(op[t]))
    BY <2>1, <2>2
  <2> QED BY <1>a, <2>2, <2>3, KindsListen
<1>1. SessionTypes'
  <2>1. at' \in [Tasks -> {"idle"} \cup CdpPlaces \cup AttachPlaces \cup BidiPlaces]
    BY <1>a, <1>b, SessionTypesAre DEF CdpPlaces, AttachPlaces, BidiPlaces
  <2>2. nth' \in [Tasks -> Nat]
    BY <1>a, <1>b, SessionTypesAre
  <2>3. handlers' \in [Events -> SUBSET Nat]
    BY <1>a, <1>b, SessionTypesAre
  <2>4. robbed' \subseteq Nat
    BY <1>a, <1>b, SessionTypesAre
  <2> QED BY <1>a, <2>1, <2>2, <2>3, <2>4, SessionTypesAre DEF SessionTypes
<1>2. SerialInv'
  BY <1>a, <1>b, SessionTypesAre DEF SerialInv, AdapterInv
<1>3. PlaceInv'
  BY <1>a, <1>b, SessionTypesAre DEF PlaceInv, AdapterInv, Places, AttachPlaces
<1>4. SideInv'
  BY <1>a, <1>b, SessionTypesAre DEF SideInv, AdapterInv, BidiPlaces
<1>5. ListenerInv'
  <2> SUFFICES ASSUME NEW u \in Tasks, NEW f \in Events PROVE OnlyNeeded(u, f)'
    BY DEF ListenerInv
  <2>0. OnlyNeeded(u, f) /\ Places(u) /\ SerialInv
    BY DEF AdapterInv, ListenerInv, PlaceInv
  <2>1. CASE u # t
    BY <2>1, <2>0, <1>a, <1>b, SessionTypesAre DEF OnlyNeeded
  <2>2. CASE u = t
    BY <2>2, <2>0, <1>a, <1>b, SessionTypesAre DEF OnlyNeeded, AttachPlaces, BidiPlaces
  <2> QED BY <2>1, <2>2, <1>a, <1>b
<1>6. EarInv'
  <2> SUFFICES ASSUME NEW u \in Tasks, clearing' = "no", op'[u] \in Kinds,
                      at'[u] \in CdpPlaces \ {"unlisten"}, serial'[u] \notin robbed',
                      NEW k \in 1..Len(Listens(op'[u])), at'[u] = "listen" => k <= nth'[u]
               PROVE  serial'[u] \in handlers'[Listens(op'[u])[k]]
    BY DEF EarInv, AllNeeded
  <2>0. u # t
    BY <1>a, SessionTypesAre DEF CdpPlaces
  <2>1. at'[u] = at[u] /\ nth'[u] = nth[u] /\ op' = op /\ serial' = serial
    BY <2>0, <1>a, SessionTypesAre
  <2>2. serial[u] \in handlers[Listens(op[u])[k]]
    BY <2>1, <1>a DEF AdapterInv, EarInv, AllNeeded
  <2>3. serial[u] # serial[t]
    BY <2>0, <2>1, <1>a DEF AdapterInv, SerialInv
  <2>4. Listens(op[u])[k] # Listens(op[t])[nth[t] + 1]
    BY <2>1, <2>2, <2>3, <1>a
  <2> QED BY <2>1, <2>2, <2>4, <1>a
<1>7. VisitInv'
  BY <1>a, <1>b DEF VisitInv, AdapterInv
<1>8. ContextInv'
  BY <1>a, <1>b, SessionTypesAre DEF ContextInv, AdapterInv
<1>9. OnlyRobbedMiss'
  BY <1>a, <1>b, SessionTypesAre, ListensTo
     DEF OnlyRobbedMiss, AdapterInv, HearsOwnEvents, Navigating, SerialInv, PlaceInv,
         Places, EarInv, AllNeeded, VisitInv, CdpPlaces, AttachPlaces, BidiPlaces
<1>10. NoStrayListener'
  <2> SUFFICES ASSUME NEW f \in Events, NEW n \in handlers'[f], n \notin failed'
               PROVE  \E v \in Tasks : at'[v] # "idle" /\ serial'[v] = n
    BY DEF NoStrayListener
  <2>0. PICK u \in Tasks : at[u] # "idle" /\ serial[u] = n
    BY <1>a, <1>b DEF AdapterInv, NoStrayListener
  <2>a. OnlyNeeded(u, f) /\ Places(u) /\ SerialInv
    BY DEF AdapterInv, ListenerInv, PlaceInv
  <2>1. CASE u # t
    BY <2>1, <2>0, <2>a, <1>a, <1>b, SessionTypesAre
  <2>2. CASE u = t
    BY <2>2, <2>0, <2>a, <1>a, <1>b, SessionTypesAre DEF OnlyNeeded
  <2> QED BY <2>1, <2>2, <1>a, <1>b
<1>11. ContextIsCurrent'
  BY <1>a, <1>b, SessionTypesAre DEF ContextIsCurrent, AdapterInv
<1> QED BY <1>1, <1>2, <1>3, <1>4, <1>5, <1>6, <1>7, <1>8, <1>9, <1>10, <1>11
   DEF AdapterInv

\* Lemma: attach_to_page() sends its next command.
LEMMA AttachAsks ==
    ASSUME CallsAssumption, OpsAssumption, SessionAssumption, AdapterInv, CallsTypeOK,
           protocol = "cdp", AttachAsk, UNCHANGED <<bidiVars, protocol>>
    PROVE  AdapterInv'
<1>a. /\ at[Attacher] = "command" /\ at' = [at EXCEPT ![Attacher] = "reply"]
      /\ next_id' = next_id + 1 /\ call' = [call EXCEPT ![Attacher] = next_id]
      /\ next_id \in Nat /\ call \in [Tasks -> Nat]
      /\ UNCHANGED <<op, serial, begun, nth, failed, ready, clearing, target,
                     handlers, heard, visits, fired, robbed, context,
                     ctx, protocol>>
  BY DEF AttachAsk, Call, Goto, beginVars, cdpVars, pageVars, bidiVars, CallsTypeOK
<1>1. SessionTypes'
  <2>1. at' \in [Tasks -> {"idle"} \cup CdpPlaces \cup AttachPlaces \cup BidiPlaces]
    BY <1>a, SessionTypesAre DEF AttachPlaces
  <2> QED BY <1>a, <2>1, SessionTypesAre DEF SessionTypes
<1>2. SerialInv'
  BY <1>a DEF SerialInv, AdapterInv
<1>3. PlaceInv'
  BY <1>a DEF PlaceInv, AdapterInv, Places, AttachPlaces
<1>4. SideInv'
  BY <1>a DEF SideInv, AdapterInv, BidiPlaces
<1>5. ListenerInv'
  BY <1>a DEF ListenerInv, AdapterInv, OnlyNeeded, AttachPlaces, PlaceInv, Places
<1>6. EarInv'
  BY <1>a, SessionTypesAre, ListensTo
     DEF EarInv, AdapterInv, AllNeeded, CdpPlaces, AttachPlaces, BidiPlaces, SerialInv,
         PlaceInv, Places
<1>7. VisitInv'
  BY <1>a DEF VisitInv, AdapterInv
<1>8. ContextInv'
  BY <1>a DEF ContextInv, AdapterInv
<1>9. OnlyRobbedMiss'
  BY <1>a, SessionTypesAre, ListensTo
     DEF OnlyRobbedMiss, AdapterInv, HearsOwnEvents, Navigating, SerialInv, PlaceInv,
         Places, EarInv, AllNeeded, VisitInv, CdpPlaces, AttachPlaces, BidiPlaces
<1>10. NoStrayListener'
  BY <1>a DEF NoStrayListener, AdapterInv
<1>11. ContextIsCurrent'
  BY <1>a DEF ContextIsCurrent, AdapterInv
<1> QED BY <1>1, <1>2, <1>3, <1>4, <1>5, <1>6, <1>7, <1>8, <1>9, <1>10, <1>11
   DEF AdapterInv

\* Lemma: it is answered, gives up, waits for the session's event or is done.
LEMMA AttachReplied ==
    ASSUME CallsAssumption, OpsAssumption, SessionAssumption, AdapterInv, CallsTypeOK,
           protocol = "cdp", AttachReply, UNCHANGED <<bidiVars, protocol>>
    PROVE  AdapterInv'
<1>a. /\ at[Attacher] = "reply" /\ nth' = [nth EXCEPT ![Attacher] = nth[Attacher] + 1]
      /\ \/ /\ at' = [at EXCEPT ![Attacher] = "idle"] /\ failed' = failed \cup {serial[Attacher]}
            /\ UNCHANGED <<handlers, ready>>
         \/ /\ at' = [at EXCEPT ![Attacher] = "command"] /\ UNCHANGED <<handlers, ready, failed>>
         \/ /\ at' = [at EXCEPT ![Attacher] = "event"] /\ UNCHANGED <<ready, failed>>
            /\ handlers' = [handlers EXCEPT !["attached"] = @ \cup {serial[Attacher]}]
         \/ /\ at' = [at EXCEPT ![Attacher] = "idle"] /\ ready' = TRUE /\ UNCHANGED <<handlers, failed>>
      /\ UNCHANGED <<op, serial, begun, clearing, heard, visits, fired, robbed,
                     context, ctx, protocol, next_id, call>>
  BY DEF AttachReply, On, Fail, Finish, Goto, beginVars, callVars, pageVars, bidiVars
<1>b. \/ handlers' = handlers
      \/ handlers' = [handlers EXCEPT !["attached"] = handlers["attached"] \cup {serial[Attacher]}]
  BY <1>a
<1>c. at'[Attacher] \in {"idle", "command", "event"}
  BY <1>a, SessionTypesAre
<1>1. SessionTypes'
  <2>1. at' \in [Tasks -> {"idle"} \cup CdpPlaces \cup AttachPlaces \cup BidiPlaces]
    BY <1>a, SessionTypesAre DEF AttachPlaces
  <2>2. nth' \in [Tasks -> Nat]
    BY <1>a, SessionTypesAre
  <2>3. failed' \subseteq Nat
    BY <1>a, SessionTypesAre
  <2>4. handlers' \in [Events -> SUBSET Nat]
    <3>1. serial[Attacher] \in Nat /\ handlers["attached"] \in SUBSET Nat
      BY SessionTypesAre, ListensTo
    <3> QED BY <3>1, <1>b, SessionTypesAre
  <2> QED BY <1>a, <2>1, <2>2, <2>3, <2>4, SessionTypesAre DEF SessionTypes
<1>2. SerialInv'
  <2>1. serial[Attacher] <= begun /\ serial[Attacher] # 0
    BY <1>a DEF AdapterInv, SerialInv
  <2>2. \A e \in Events : \A n \in handlers'[e] : n \in handlers[e] \/ n = serial[Attacher]
    BY <1>b, SessionTypesAre
  <2>3. \A u \in Tasks : at'[u] # "idle" => at[u] # "idle"
    BY <1>a, SessionTypesAre
  <2> QED BY <2>1, <2>2, <2>3, <1>a DEF SerialInv, AdapterInv
<1>3. PlaceInv'
  BY <1>a, SessionTypesAre DEF PlaceInv, AdapterInv, Places, AttachPlaces
<1>4. SideInv'
  BY <1>a, SessionTypesAre DEF SideInv, AdapterInv, BidiPlaces
<1>5. ListenerInv'
  BY <1>a, SessionTypesAre
     DEF ListenerInv, AdapterInv, OnlyNeeded, CdpPlaces, AttachPlaces, SerialInv,
         PlaceInv, Places
<1>6. EarInv'
  <2> SUFFICES ASSUME NEW u \in Tasks, clearing' = "no" PROVE AllNeeded(u)'
    BY DEF EarInv
  <2>0. AllNeeded(u)
    BY <1>a DEF AdapterInv, EarInv
  <2>1. \A e \in Events : handlers[e] \subseteq handlers'[e]
    BY <1>b, SessionTypesAre
  <2>2. CASE u # Attacher
    <3>1. at'[u] = at[u] /\ nth'[u] = nth[u]
      BY <2>2, <1>a, SessionTypesAre
    <3> QED BY <3>1, <2>0, <2>1, <1>a, KindsListen DEF AllNeeded
  <2>3. CASE u = Attacher
    BY <2>3, <1>c DEF AllNeeded, CdpPlaces
  <2> QED BY <2>2, <2>3
<1>7. VisitInv'
  BY <1>a DEF VisitInv, AdapterInv
<1>8. ContextInv'
  BY <1>a, SessionTypesAre DEF ContextInv, AdapterInv, SerialInv
<1>9. OnlyRobbedMiss'
  <2> SUFFICES ASSUME NEW u \in Tasks, clearing' = "no", serial'[u] \notin robbed'
               PROVE  HearsOwnEvents(u)'
    BY DEF OnlyRobbedMiss
  <2>0. HearsOwnEvents(u) /\ Places(u)
    BY <1>a DEF AdapterInv, OnlyRobbedMiss, PlaceInv
  <2>1. CASE u # Attacher
    BY <2>1, <2>0, <1>a, SessionTypesAre DEF HearsOwnEvents, Navigating
  <2>2. CASE u = Attacher
    BY <2>2, <2>0, <1>a DEF HearsOwnEvents, Navigating, Places, AttachPlaces
  <2> QED BY <2>1, <2>2, <1>a
<1>10. NoStrayListener'
  <2> SUFFICES ASSUME NEW f \in Events, NEW n \in handlers'[f], n \notin failed'
               PROVE  \E v \in Tasks : at'[v] # "idle" /\ serial'[v] = n
    BY DEF NoStrayListener
  <2>0. PICK u \in Tasks : at[u] # "idle" /\ serial[u] = n
    BY <1>a, SessionTypesAre, ListensTo
       DEF AdapterInv, NoStrayListener, Places, PlaceInv, SerialInv
  <2>a. OnlyNeeded(u, f) /\ Places(u) /\ SerialInv
    BY DEF AdapterInv, ListenerInv, PlaceInv
  <2>1. CASE u # Attacher
    BY <2>1, <2>0, <2>a, <1>a, SessionTypesAre
  <2>2. CASE u = Attacher
    BY <2>2, <2>0, <2>a, <1>a, SessionTypesAre DEF OnlyNeeded, CdpPlaces
  <2> QED BY <2>1, <2>2, <1>a
<1>11. ContextIsCurrent'
  BY <1>a, SessionTypesAre DEF ContextIsCurrent, AdapterInv
<1> QED BY <1>1, <1>2, <1>3, <1>4, <1>5, <1>6, <1>7, <1>8, <1>9, <1>10, <1>11
   DEF AdapterInv

\* Lemma: the event comes.
LEMMA AttachHeard ==
    ASSUME CallsAssumption, OpsAssumption, SessionAssumption, AdapterInv, CallsTypeOK,
           protocol = "cdp", AttachHears, UNCHANGED <<bidiVars, protocol>>
    PROVE  AdapterInv'
<1>a. /\ at[Attacher] = "event" /\ at' = [at EXCEPT ![Attacher] = "command"]
      /\ handlers' = [handlers EXCEPT !["attached"] = {}]
      /\ robbed' = robbed \cup (handlers["attached"] \ {serial[Attacher]})
      /\ UNCHANGED <<op, serial, begun, nth, failed, ready, clearing, heard,
                     visits, fired, context, ctx, protocol, next_id,
                     call>>
  BY DEF AttachHears, RemoveAll, Goto, beginVars, callVars, pageVars, bidiVars
<1>1. SessionTypes'
  <2>1. at' \in [Tasks -> {"idle"} \cup CdpPlaces \cup AttachPlaces \cup BidiPlaces]
    BY <1>a, SessionTypesAre DEF AttachPlaces
  <2>2. handlers' \in [Events -> SUBSET Nat]
    BY <1>a, SessionTypesAre DEF Events
  <2>3. robbed' \subseteq Nat
    <3>1. handlers["attached"] \subseteq Nat
      BY SessionTypesAre, ListensTo
    <3> QED BY <3>1, <1>a, SessionTypesAre
  <2> QED BY <1>a, <2>1, <2>2, <2>3, SessionTypesAre DEF SessionTypes
<1>2. SerialInv'
  BY <1>a, ListensTo DEF SerialInv, AdapterInv
<1>3. PlaceInv'
  BY <1>a DEF PlaceInv, AdapterInv, Places, AttachPlaces
<1>4. SideInv'
  BY <1>a DEF SideInv, AdapterInv, BidiPlaces
<1>5. ListenerInv'
  BY <1>a, SessionTypesAre
     DEF ListenerInv, AdapterInv, OnlyNeeded, AttachPlaces, PlaceInv, Places
<1>6. EarInv'
  <2> SUFFICES ASSUME NEW u \in Tasks, clearing' = "no" PROVE AllNeeded(u)'
    BY DEF EarInv
  <2>0. AllNeeded(u) /\ op[Attacher] = "attach"
    BY <1>a DEF AdapterInv, EarInv, PlaceInv, Places, AttachPlaces
  <2>1. \A e \in PageEvents : handlers'[e] = handlers[e]
    BY <1>a, SessionTypesAre, ListensTo
  <2>2. op[u] \in Kinds => \A k \in 1..Len(Listens(op[u])) : Listens(op[u])[k] \in PageEvents
    BY ListensTo DEF SessionAssumption
  <2>3. CASE u # Attacher
    BY <2>3, <2>0, <2>1, <2>2, <1>a, SessionTypesAre DEF AllNeeded
  <2>4. CASE u = Attacher
    BY <2>4, <1>a, SessionTypesAre DEF AllNeeded, CdpPlaces
  <2> QED BY <2>3, <2>4
<1>7. VisitInv'
  BY <1>a DEF VisitInv, AdapterInv
<1>8. ContextInv'
  BY <1>a DEF ContextInv, AdapterInv
<1>9. OnlyRobbedMiss'
  BY <1>a, SessionTypesAre, ListensTo
     DEF OnlyRobbedMiss, AdapterInv, HearsOwnEvents, Navigating, SerialInv, PlaceInv,
         Places, EarInv, AllNeeded, VisitInv, CdpPlaces, AttachPlaces, BidiPlaces
<1>10. NoStrayListener'
  BY <1>a DEF NoStrayListener, AdapterInv
<1>11. ContextIsCurrent'
  BY <1>a DEF ContextIsCurrent, AdapterInv
<1> QED BY <1>1, <1>2, <1>3, <1>4, <1>5, <1>6, <1>7, <1>8, <1>9, <1>10, <1>11
   DEF AdapterInv

\* Lemma: or does not come.
LEMMA AttachWaited ==
    ASSUME CallsAssumption, OpsAssumption, SessionAssumption, AdapterInv, CallsTypeOK,
           protocol = "cdp", AttachTimesOut, UNCHANGED <<bidiVars, protocol>>
    PROVE  AdapterInv'
<1>a. /\ at[Attacher] = "event" /\ at' = [at EXCEPT ![Attacher] = "idle"]
      /\ failed' = failed \cup {serial[Attacher]}
      /\ UNCHANGED <<op, serial, begun, nth, ready, clearing, target, handlers,
                     heard, visits, fired, robbed, context, ctx,
                     protocol, next_id, call>>
  BY DEF AttachTimesOut, Fail, Finish, Goto, Frame, beginVars, callVars, pageVars,
         bidiVars
<1>1. SessionTypes'
  <2>1. at' \in [Tasks -> {"idle"} \cup CdpPlaces \cup AttachPlaces \cup BidiPlaces]
    BY <1>a, SessionTypesAre
  <2>2. failed' \subseteq Nat
    BY <1>a, SessionTypesAre
  <2> QED BY <1>a, <2>1, <2>2, SessionTypesAre DEF SessionTypes
<1>2. SerialInv'
  BY <1>a DEF SerialInv, AdapterInv
<1>3. PlaceInv'
  BY <1>a DEF PlaceInv, AdapterInv, Places, AttachPlaces
<1>4. SideInv'
  BY <1>a DEF SideInv, AdapterInv, BidiPlaces
<1>5. ListenerInv'
  BY <1>a DEF ListenerInv, AdapterInv, OnlyNeeded
<1>6. EarInv'
  BY <1>a DEF EarInv, AdapterInv, AllNeeded, AttachPlaces, PlaceInv, Places
<1>7. VisitInv'
  BY <1>a DEF VisitInv, AdapterInv
<1>8. ContextInv'
  BY <1>a DEF ContextInv, AdapterInv
<1>9. OnlyRobbedMiss'
  BY <1>a, SessionTypesAre, ListensTo
     DEF OnlyRobbedMiss, AdapterInv, HearsOwnEvents, Navigating, SerialInv, PlaceInv,
         Places, EarInv, AllNeeded, VisitInv, CdpPlaces, AttachPlaces, BidiPlaces
<1>10. NoStrayListener'
  BY <1>a DEF NoStrayListener, AdapterInv
<1>11. ContextIsCurrent'
  BY <1>a DEF ContextIsCurrent, AdapterInv
<1> QED BY <1>1, <1>2, <1>3, <1>4, <1>5, <1>6, <1>7, <1>8, <1>9, <1>10, <1>11
   DEF AdapterInv

\* Lemma: the event of a page reaches every listener there is.
LEMMA PageFires ==
    ASSUME CallsAssumption, OpsAssumption, SessionAssumption, AdapterInv, CallsTypeOK,
           protocol = "cdp", NEW e \in PageEvents, NEW v \in visits, HandlePageEvent(e, v),
           UNCHANGED <<bidiVars, protocol>>
    PROVE  AdapterInv'
<1>a. /\ heard' = [t \in Tasks |-> IF at[t] # "idle" /\ serial[t] \in handlers[e]
                                  THEN heard[t] \cup {e} ELSE heard[t]]
      /\ fired' = fired \cup {<<e, v>>}
      /\ UNCHANGED <<op, serial, begun, at, nth, failed, ready, clearing,
                     target, handlers, visits, robbed, context, ctx,
                     protocol, next_id, call>>
  BY DEF HandlePageEvent, Notify, sharedVars, opVars, beginVars, callVars, bidiVars
<1>1. SessionTypes'
  <2>1. heard' \in [Tasks -> SUBSET (Events \cup {"page", "other"})]
    BY <1>a, SessionTypesAre DEF Events
  <2> QED BY <1>a, <2>1, SessionTypesAre DEF SessionTypes
<1>2. SerialInv'
  BY <1>a DEF SerialInv, AdapterInv
<1>3. PlaceInv'
  BY <1>a DEF PlaceInv, AdapterInv, Places
<1>4. SideInv'
  BY <1>a DEF SideInv, AdapterInv
<1>5. ListenerInv'
  BY <1>a DEF ListenerInv, AdapterInv, OnlyNeeded
<1>6. EarInv'
  BY <1>a DEF EarInv, AdapterInv, AllNeeded
<1>7. VisitInv'
  BY <1>a DEF VisitInv, AdapterInv
<1>8. ContextInv'
  BY <1>a DEF ContextInv, AdapterInv
<1>9. OnlyRobbedMiss'
  <2> SUFFICES ASSUME NEW u \in Tasks, clearing' = "no", serial'[u] \notin robbed'
               PROVE  HearsOwnEvents(u)'
    BY DEF OnlyRobbedMiss
  <2>0. HearsOwnEvents(u) /\ AllNeeded(u)
    BY <1>a DEF AdapterInv, OnlyRobbedMiss, EarInv
  <2>1. op[u] \in Kinds => DOMAIN Listens(op[u]) = 1..Len(Listens(op[u]))
    BY ListensTo DEF SessionAssumption
  <2>2. heard[u] \subseteq heard'[u]
    BY <1>a, SessionTypesAre
  <2>3. at[u] # "idle" /\ serial[u] \in handlers[e] => e \in heard'[u]
    BY <1>a, SessionTypesAre
  <2>4. Navigating(u) /\ at[u] \in {"answer", "wait", "fallback"} =>
           \A k \in DOMAIN Listens(op[u]) : serial[u] \in handlers[Listens(op[u])[k]]
    BY <2>0, <2>1, <1>a DEF AllNeeded, Navigating, CdpPlaces
  <2>5. \A n, i : <<n, i>> \in fired' => <<n, i>> \in fired \/ n = e
    BY <1>a
  <2> QED BY <2>0, <2>2, <2>3, <2>4, <2>5, <1>a DEF HearsOwnEvents, Navigating
<1>10. NoStrayListener'
  BY <1>a DEF NoStrayListener, AdapterInv
<1>11. ContextIsCurrent'
  BY <1>a DEF ContextIsCurrent, AdapterInv
<1> QED BY <1>1, <1>2, <1>3, <1>4, <1>5, <1>6, <1>7, <1>8, <1>9, <1>10, <1>11
   DEF AdapterInv

\* Lemma: so does a session's.
LEMMA TargetFires ==
    ASSUME CallsAssumption, OpsAssumption, SessionAssumption, AdapterInv, CallsTypeOK,
           protocol = "cdp", NEW s \in {"page", "other"}, HandleAttached(s),
           UNCHANGED <<bidiVars, protocol>>
    PROVE  AdapterInv'
<1>a. /\ heard' = [t \in Tasks |-> IF at[t] # "idle" /\ serial[t] \in handlers["attached"]
                                  THEN {s} ELSE heard[t]]
      /\ UNCHANGED <<op, serial, begun, at, nth, failed, ready, clearing,
                     target, handlers, visits, fired, robbed, context,
                     ctx, protocol, next_id, call>>
  BY DEF HandleAttached, sharedVars, opVars, beginVars, callVars, pageVars, bidiVars
<1>1. SessionTypes'
  <2>1. heard' \in [Tasks -> SUBSET (Events \cup {"page", "other"})]
    BY <1>a, SessionTypesAre
  <2> QED BY <1>a, <2>1, SessionTypesAre DEF SessionTypes
<1>2. SerialInv'
  BY <1>a DEF SerialInv, AdapterInv
<1>3. PlaceInv'
  BY <1>a DEF PlaceInv, AdapterInv, Places
<1>4. SideInv'
  BY <1>a DEF SideInv, AdapterInv
<1>5. ListenerInv'
  BY <1>a DEF ListenerInv, AdapterInv, OnlyNeeded
<1>6. EarInv'
  BY <1>a, SessionTypesAre, ListensTo
     DEF EarInv, AdapterInv, AllNeeded, CdpPlaces, AttachPlaces, BidiPlaces, SerialInv,
         PlaceInv, Places
<1>7. VisitInv'
  BY <1>a DEF VisitInv, AdapterInv
<1>8. ContextInv'
  BY <1>a DEF ContextInv, AdapterInv
<1>9. OnlyRobbedMiss'
  <2> SUFFICES ASSUME NEW u \in Tasks, clearing' = "no", serial'[u] \notin robbed'
               PROVE  HearsOwnEvents(u)'
    BY DEF OnlyRobbedMiss
  <2>0. HearsOwnEvents(u) /\ AllNeeded(u) /\ Places(u) /\ VisitInv
        /\ OnlyNeeded(u, "attached")
    BY <1>a, ListensTo DEF AdapterInv, OnlyRobbedMiss, EarInv, PlaceInv, ListenerInv
  <2>1. CASE serial[u] \in handlers["attached"]
    <3>1. CASE op[u] \in Kinds /\ at[u] # "idle"
      <4>1. PICK k \in 1..Len(Listens(op[u])) : Listens(op[u])[k] = "attached"
        BY <3>1, <2>1, <2>0 DEF OnlyNeeded
      <4>2. Listens(op[u])[k] \in PageEvents
        BY <3>1, KindsListen
      <4> QED BY <4>1, <4>2, ListensTo
    <3>2. CASE ~(op[u] \in Kinds /\ at[u] # "idle")
      BY <3>2, <1>a DEF HearsOwnEvents, Navigating
    <3> QED BY <3>1, <3>2
  <2>2. CASE serial[u] \notin handlers["attached"]
    BY <2>2, <2>0, <1>a, SessionTypesAre, ListensTo
       DEF HearsOwnEvents, Navigating, AllNeeded, OnlyNeeded, Places, VisitInv, CdpPlaces,
           AttachPlaces, BidiPlaces
  <2> QED BY <2>1, <2>2, <1>a
<1>10. NoStrayListener'
  BY <1>a DEF NoStrayListener, AdapterInv
<1>11. ContextIsCurrent'
  BY <1>a DEF ContextIsCurrent, AdapterInv
<1> QED BY <1>1, <1>2, <1>3, <1>4, <1>5, <1>6, <1>7, <1>8, <1>9, <1>10, <1>11
   DEF AdapterInv

\* Lemma: destroy() leaves nothing for a navigation to hear.
LEMMA DestroyedOverCdp ==
    ASSUME CallsAssumption, OpsAssumption, SessionAssumption, AdapterInv, CallsTypeOK,
           protocol = "cdp", Destroy, UNCHANGED <<bidiVars, protocol>>
    PROVE  AdapterInv'
<1>a. /\ clearing' # "no" /\ handlers' \in {handlers, [e \in Events |-> {}]}
      /\ clearing' = "done" => clearing = "session" \/ protocol = "cdp"
      /\ UNCHANGED <<op, serial, begun, at, nth, failed, ready, heard, visits,
                     fired, robbed, context, ctx, protocol, next_id,
                     call>>
  BY DEF Destroy, DestroyPending, ClearPending, DestroyHandlers, DestroySession, cdpVars,
         opVars, beginVars, callVars, pageVars, bidiVars
<1>1. SessionTypes'
  <2>1. handlers' \in [Events -> SUBSET Nat]
    BY <1>a, SessionTypesAre
  <2> QED BY <1>a, <2>1, SessionTypesAre DEF SessionTypes
<1>2. SerialInv'
  BY <1>a DEF SerialInv, AdapterInv
<1>3. PlaceInv'
  BY <1>a DEF PlaceInv, AdapterInv, Places
<1>4. SideInv'
  BY <1>a DEF SideInv, AdapterInv
<1>5. ListenerInv'
  BY <1>a DEF ListenerInv, AdapterInv, OnlyNeeded
<1>6. EarInv'
  BY <1>a DEF EarInv
<1>7. VisitInv'
  BY <1>a DEF VisitInv, AdapterInv
<1>8. ContextInv'
  BY <1>a DEF ContextInv, AdapterInv
<1>9. OnlyRobbedMiss'
  BY <1>a DEF OnlyRobbedMiss
<1>10. NoStrayListener'
  BY <1>a DEF NoStrayListener, AdapterInv
<1>11. ContextIsCurrent'
  BY <1>a DEF ContextIsCurrent
<1> QED BY <1>1, <1>2, <1>3, <1>4, <1>5, <1>6, <1>7, <1>8, <1>9, <1>10, <1>11
   DEF AdapterInv

\* Lemma: an operation begins over BiDi; once the session is shared it finds
\* a context.
LEMMA BeginsOverBidi ==
    ASSUME CallsAssumption, OpsAssumption, SessionAssumption, AdapterInv, CallsTypeOK,
           protocol = "bidi", NEW t \in Tasks, NEW o \in {"init", "navigate", "command"}, BeginBidi(t, o),
           o = "init" => begun = 0 /\ t = Attacher, o # "init" => ready /\ clearing # "done",
           UNCHANGED <<cdpVars, protocol>>
    PROVE  AdapterInv'
<1>a. /\ at[t] = "idle" /\ begun' = begun + 1
      /\ op' = [op EXCEPT ![t] = o] /\ serial' = [serial EXCEPT ![t] = begun + 1]
      /\ nth' = [nth EXCEPT ![t] = 0] /\ ctx' = [ctx EXCEPT ![t] = context]
      /\ at' = [at EXCEPT ![t] = IF context = "none" THEN "find" ELSE "send"]
      /\ UNCHANGED <<failed, ready, clearing, target, handlers, heard, visits,
                     fired, robbed, context, protocol, next_id, call>>
  BY DEF BeginBidi, Begin, StartIn, Goto, callVars, cdpVars, pageVars
<1>1. SessionTypes'
  <2>1. op' \in [Tasks -> Ops]
    BY <1>a, SessionTypesAre DEF Ops
  <2>2. serial' \in [Tasks -> Nat]
    BY <1>a, SessionTypesAre
  <2>3. begun' \in Nat
    BY <1>a, SessionTypesAre
  <2>4. at' \in [Tasks -> {"idle"} \cup CdpPlaces \cup AttachPlaces \cup BidiPlaces]
    BY <1>a, SessionTypesAre DEF BidiPlaces
  <2>5. nth' \in [Tasks -> Nat]
    BY <1>a, SessionTypesAre
  <2> QED BY <1>a, <2>1, <2>2, <2>3, <2>4, <2>5, SessionTypesAre DEF SessionTypes
<1>2. SerialInv'
  BY <1>a, SessionTypesAre DEF SerialInv, AdapterInv
<1>3. PlaceInv'
  BY <1>a DEF PlaceInv, AdapterInv, Places, AttachPlaces
<1>4. SideInv'
  BY <1>a DEF SideInv, AdapterInv, CdpPlaces, AttachPlaces
<1>5. ListenerInv'
  BY <1>a, <1>4 DEF ListenerInv, OnlyNeeded, SideInv
<1>6. EarInv'
  BY <1>a, <1>4 DEF EarInv, AllNeeded, SideInv
<1>7. VisitInv'
  BY <1>a DEF VisitInv, AdapterInv
<1>8. ContextInv'
  BY <1>a, SessionTypesAre DEF ContextInv, AdapterInv
<1>9. OnlyRobbedMiss'
  BY <1>a, <1>4 DEF OnlyRobbedMiss, HearsOwnEvents, SideInv, CdpPlaces
<1>10. NoStrayListener'
  BY <1>a, <1>4 DEF NoStrayListener, SideInv
<1>11. ContextIsCurrent'
  BY <1>a DEF ContextIsCurrent, AdapterInv, ContextInv
<1> QED BY <1>1, <1>2, <1>3, <1>4, <1>5, <1>6, <1>7, <1>8, <1>9, <1>10, <1>11
   DEF AdapterInv

\* Lemma: init() asks for the context, learns it, or takes the placeholder.
LEMMA FindsContext ==
    ASSUME CallsAssumption, OpsAssumption, SessionAssumption, AdapterInv, CallsTypeOK,
           protocol = "bidi", NEW t \in Tasks, FindContext(t) \/ FoundContext(t),
           UNCHANGED <<cdpVars, protocol>>
    PROVE  AdapterInv'
<1>a. /\ at[t] \in {"find", "found"} /\ op[t] = "init" /\ ~ready
      /\ \/ at' = [at EXCEPT ![t] = "found"] /\ UNCHANGED <<nth, ctx, ready, context>>
         \/ /\ at' = [at EXCEPT ![t] = "find"] /\ nth' = [nth EXCEPT ![t] = nth[t] + 1]
            /\ UNCHANGED <<ctx, ready, context>>
         \/ /\ at' = [at EXCEPT ![t] = "idle"] /\ nth' = [nth EXCEPT ![t] = 0]
            /\ ctx' = ctx /\ ready' = TRUE /\ context' \in {Placeholder, Tab}
      /\ next_id \in Nat /\ next_id' \in {next_id, next_id + 1}
      /\ UNCHANGED <<op, serial, begun, failed, clearing, target, handlers,
                     heard, visits, fired, robbed, protocol>>
  BY DEF FindContext, FoundContext, GoOnWith, Call, Finish, Goto, beginVars, callVars,
         cdpVars, pageVars, AdapterInv, ContextInv, CallsTypeOK
<1>1. SessionTypes'
  <2>1. at' \in [Tasks -> {"idle"} \cup CdpPlaces \cup AttachPlaces \cup BidiPlaces]
    BY <1>a, SessionTypesAre DEF BidiPlaces
  <2>2. nth' \in [Tasks -> Nat]
    BY <1>a, SessionTypesAre
  <2> QED BY <1>a, <2>1, <2>2, SessionTypesAre DEF SessionTypes
<1>2. SerialInv'
  BY <1>a, SessionTypesAre DEF SerialInv, AdapterInv
<1>3. PlaceInv'
  BY <1>a, SessionTypesAre DEF PlaceInv, AdapterInv, Places, AttachPlaces
<1>4. SideInv'
  BY <1>a, SessionTypesAre DEF SideInv, AdapterInv, CdpPlaces, AttachPlaces
<1>5. ListenerInv'
  BY <1>a, <1>4 DEF ListenerInv, OnlyNeeded, SideInv
<1>6. EarInv'
  BY <1>a, <1>4 DEF EarInv, AllNeeded, SideInv
<1>7. VisitInv'
  BY <1>a DEF VisitInv, AdapterInv
<1>8. ContextInv'
  <2>1. context' \in Contexts /\ ctx' \in [Tasks -> Contexts]
    BY <1>a DEF AdapterInv, ContextInv, Contexts
  <2>2. t = Attacher
    BY <1>a DEF AdapterInv, ContextInv
  <2>3. ASSUME NEW u \in Tasks, at'[u] \in {"find", "found"}
        PROVE  op'[u] = "init" /\ u = Attacher /\ ~ready'
    <3>1. CASE u = t
      BY <3>1, <2>2, <2>3, <1>a, SessionTypesAre
    <3>2. CASE u # t
      BY <3>2, <2>2, <2>3, <1>a, SessionTypesAre DEF AdapterInv, ContextInv
    <3> QED BY <3>1, <3>2
  <2>4. \A u \in Tasks : at'[u] \in {"send", "sent"} => ready'
    BY <1>a, SessionTypesAre DEF AdapterInv, ContextInv
  <2>5. protocol' = "bidi" /\ ready' /\ clearing' # "done" => context' # "none"
    BY <1>a DEF Placeholder, Tab
  <2>6. begun' # 0
    BY <1>a, SessionTypesAre DEF AdapterInv, SerialInv
  <2> QED BY <2>1, <2>3, <2>4, <2>5, <2>6 DEF ContextInv
<1>9. OnlyRobbedMiss'
  BY <1>a, <1>4 DEF OnlyRobbedMiss, HearsOwnEvents, SideInv, CdpPlaces
<1>10. NoStrayListener'
  BY <1>a, <1>4 DEF NoStrayListener, SideInv
<1>11. ContextIsCurrent'
  BY <1>a, SessionTypesAre DEF ContextIsCurrent, AdapterInv, ContextInv
<1> QED BY <1>1, <1>2, <1>3, <1>4, <1>5, <1>6, <1>7, <1>8, <1>9, <1>10, <1>11
   DEF AdapterInv

\* Lemma: the command goes to the context.
LEMMA SendsInContext ==
    ASSUME CallsAssumption, OpsAssumption, SessionAssumption, AdapterInv, CallsTypeOK,
           protocol = "bidi", NEW t \in Tasks, SendInContext(t), UNCHANGED <<cdpVars, protocol>>
    PROVE  AdapterInv'
<1>a. /\ at[t] = "send" /\ at' = [at EXCEPT ![t] = "sent"]
      /\ next_id \in Nat /\ next_id' = next_id + 1
      /\ UNCHANGED <<op, serial, begun, nth, failed, ready, clearing, target,
                     handlers, heard, visits, fired, robbed, context,
                     ctx, protocol>>
  BY DEF SendInContext, Call, Goto, BidiFrame, beginVars, bidiVars, cdpVars, pageVars,
         CallsTypeOK
<1>1. SessionTypes'
  <2>1. at' \in [Tasks -> {"idle"} \cup CdpPlaces \cup AttachPlaces \cup BidiPlaces]
    BY <1>a, SessionTypesAre DEF BidiPlaces
  <2> QED BY <1>a, <2>1, SessionTypesAre DEF SessionTypes
<1>2. SerialInv'
  BY <1>a DEF SerialInv, AdapterInv
<1>3. PlaceInv'
  BY <1>a DEF PlaceInv, AdapterInv, Places, AttachPlaces
<1>4. SideInv'
  BY <1>a DEF SideInv, AdapterInv, CdpPlaces, AttachPlaces
<1>5. ListenerInv'
  BY <1>a, <1>4 DEF ListenerInv, OnlyNeeded, SideInv
<1>6. EarInv'
  BY <1>a, <1>4 DEF EarInv, AllNeeded, SideInv
<1>7. VisitInv'
  BY <1>a DEF VisitInv, AdapterInv
<1>8. ContextInv'
  BY <1>a DEF ContextInv, AdapterInv
<1>9. OnlyRobbedMiss'
  BY <1>a, <1>4 DEF OnlyRobbedMiss, HearsOwnEvents, SideInv, CdpPlaces
<1>10. NoStrayListener'
  BY <1>a, <1>4 DEF NoStrayListener, SideInv
<1>11. ContextIsCurrent'
  BY <1>a DEF ContextIsCurrent, AdapterInv
<1> QED BY <1>1, <1>2, <1>3, <1>4, <1>5, <1>6, <1>7, <1>8, <1>9, <1>10, <1>11
   DEF AdapterInv

\* Lemma: and returns, perhaps with the context the placeholder stood for.
LEMMA SentIt ==
    ASSUME CallsAssumption, OpsAssumption, SessionAssumption, AdapterInv, CallsTypeOK,
           protocol = "bidi", NEW t \in Tasks, SentInContext(t), UNCHANGED <<cdpVars, protocol>>
    PROVE  AdapterInv'
<1>a. /\ at[t] = "sent" /\ at' = [at EXCEPT ![t] = "idle"]
      /\ ctx' = [ctx EXCEPT ![t] = "none"]
      /\ context' = context \/ (ctx[t] = Placeholder /\ context' = Tab)
      /\ UNCHANGED <<op, serial, begun, nth, failed, ready, clearing, target,
                     handlers, heard, visits, fired, robbed, protocol,
                     next_id, call>>
  BY DEF SentInContext, Finish, Goto, BidiFrame, beginVars, callVars, cdpVars, pageVars
<1>1. SessionTypes'
  <2>1. at' \in [Tasks -> {"idle"} \cup CdpPlaces \cup AttachPlaces \cup BidiPlaces]
    BY <1>a, SessionTypesAre
  <2> QED BY <1>a, <2>1, SessionTypesAre DEF SessionTypes
<1>2. SerialInv'
  BY <1>a DEF SerialInv, AdapterInv
<1>3. PlaceInv'
  BY <1>a DEF PlaceInv, AdapterInv, Places, AttachPlaces
<1>4. SideInv'
  BY <1>a DEF SideInv, AdapterInv, CdpPlaces, AttachPlaces
<1>5. ListenerInv'
  BY <1>a, <1>4 DEF ListenerInv, OnlyNeeded, SideInv
<1>6. EarInv'
  BY <1>a, <1>4 DEF EarInv, AllNeeded, SideInv
<1>7. VisitInv'
  BY <1>a DEF VisitInv, AdapterInv
<1>8. ContextInv'
  BY <1>a DEF ContextInv, AdapterInv, Contexts, Tab
<1>9. OnlyRobbedMiss'
  BY <1>a, <1>4 DEF OnlyRobbedMiss, HearsOwnEvents, SideInv, CdpPlaces
<1>10. NoStrayListener'
  BY <1>a, <1>4 DEF NoStrayListener, SideInv
<1>11. ContextIsCurrent'
  BY <1>a, SessionTypesAre DEF ContextIsCurrent, AdapterInv
<1> QED BY <1>1, <1>2, <1>3, <1>4, <1>5, <1>6, <1>7, <1>8, <1>9, <1>10, <1>11
   DEF AdapterInv

\* Lemma: destroy() forgets it.
LEMMA DestroyedOverBidi ==
    ASSUME CallsAssumption, OpsAssumption, SessionAssumption, AdapterInv, CallsTypeOK,
           protocol = "bidi", BidiDestroy, UNCHANGED <<cdpVars, protocol>>
    PROVE  AdapterInv'
<1>a. /\ clearing' # "no" /\ clearing # "done" /\ context' \in {context, "none"}
      /\ context' # context => clearing' = "done"
      /\ ready' = ready
      /\ UNCHANGED <<op, serial, begun, at, nth, failed, target, handlers,
                     heard, visits, fired, robbed, ctx, protocol,
                     next_id, call>>
  BY DEF BidiDestroy, DestroyPending, ClearPending, DestroyContext, opVars, beginVars,
         bidiVars, cdpVars, callVars, pageVars
<1>1. SessionTypes'
  BY <1>a DEF SessionTypes, AdapterInv
<1>2. SerialInv'
  BY <1>a DEF SerialInv, AdapterInv
<1>3. PlaceInv'
  BY <1>a DEF PlaceInv, AdapterInv, Places
<1>4. SideInv'
  BY <1>a DEF SideInv, AdapterInv
<1>5. ListenerInv'
  BY <1>a, <1>4 DEF ListenerInv, OnlyNeeded, SideInv
<1>6. EarInv'
  BY <1>a, <1>4 DEF EarInv
<1>7. VisitInv'
  BY <1>a DEF VisitInv, AdapterInv
<1>8. ContextInv'
  BY <1>a DEF ContextInv, AdapterInv, Contexts
<1>9. OnlyRobbedMiss'
  BY <1>a, <1>4 DEF OnlyRobbedMiss
<1>10. NoStrayListener'
  BY <1>a, <1>4 DEF NoStrayListener, SideInv
<1>11. ContextIsCurrent'
  BY <1>a DEF ContextIsCurrent
<1> QED BY <1>1, <1>2, <1>3, <1>4, <1>5, <1>6, <1>7, <1>8, <1>9, <1>10, <1>11
   DEF AdapterInv

\* Lemma: a step of send(), of the router or of the connection is none of it.
LEMMA NothingButCalls ==
    ASSUME CallsAssumption, OpsAssumption, SessionAssumption, AdapterInv, CallsTypeOK,
           UNCHANGED <<sharedVars, cdpVars, bidiVars, protocol, next_id, call>>
    PROVE  AdapterInv'
<1>a. /\ UNCHANGED <<op, serial, begun, at, nth, failed, ready, clearing,
                     target, handlers, heard, visits, fired, robbed,
                     context, ctx, protocol, next_id, call>>
  BY DEF sharedVars, opVars, beginVars, cdpVars, pageVars, bidiVars
<1>1. SessionTypes'
  BY <1>a DEF SessionTypes, AdapterInv
<1>2. SerialInv'
  BY <1>a DEF SerialInv, AdapterInv
<1>3. PlaceInv'
  BY <1>a DEF PlaceInv, AdapterInv, Places
<1>4. SideInv'
  BY <1>a DEF SideInv, AdapterInv
<1>5. ListenerInv'
  BY <1>a DEF ListenerInv, AdapterInv, OnlyNeeded
<1>6. EarInv'
  BY <1>a, SessionTypesAre, ListensTo
     DEF EarInv, AdapterInv, AllNeeded, CdpPlaces, AttachPlaces, BidiPlaces, SerialInv,
         PlaceInv, Places
<1>7. VisitInv'
  BY <1>a DEF VisitInv, AdapterInv
<1>8. ContextInv'
  BY <1>a DEF ContextInv, AdapterInv
<1>9. OnlyRobbedMiss'
  BY <1>a, SessionTypesAre, ListensTo
     DEF OnlyRobbedMiss, AdapterInv, HearsOwnEvents, Navigating, SerialInv, PlaceInv,
         Places, EarInv, AllNeeded, VisitInv, CdpPlaces, AttachPlaces, BidiPlaces
<1>10. NoStrayListener'
  BY <1>a DEF NoStrayListener, AdapterInv
<1>11. ContextIsCurrent'
  BY <1>a DEF ContextIsCurrent, AdapterInv
<1> QED BY <1>1, <1>2, <1>3, <1>4, <1>5, <1>6, <1>7, <1>8, <1>9, <1>10, <1>11
   DEF AdapterInv

-----------------------------------------------------------------------------
\* Lemma: what the steps of send() and of the router leave alone.
LEMMA QuietCalls ==
    ASSUME NEW t \in Tasks,
           \/ Advance(t) \/ Expire(t) \/ Abandon(t) \/ UseSender \/ Disconnect
           \/ \E id \in Ids : Answer(id)
    PROVE  UNCHANGED <<next_id, call>>
<1>1. ASSUME NEW id \in Ids, Answer(id) PROVE UNCHANGED <<next_id, call>>
  BY <1>1 DEF Answer, TakeSender
<1>2. Advance(t) => UNCHANGED <<next_id, call>>
  BY DEF Advance, Insert, Transmit, Receive
<1>3. Expire(t) \/ Abandon(t) => UNCHANGED <<next_id, call>>
  BY DEF Expire, Abandon
<1>4. UseSender \/ Disconnect => UNCHANGED <<next_id, call>>
  BY DEF UseSender, Disconnect
<1> QED BY <1>1, <1>2, <1>3, <1>4

\* Lemma: the initial states satisfy the invariant.
LEMMA AdapterInit ==
    ASSUME ProtocolsAssumption, CallsAssumption, OpsAssumption, SessionAssumption, Init
    PROVE  AdapterInv
<1>a. /\ op = [t \in Tasks |-> "none"] /\ at = [t \in Tasks |-> "idle"]
      /\ serial = [t \in Tasks |-> 0] /\ nth = [t \in Tasks |-> 0]
      /\ begun = 0 /\ failed = {} /\ clearing = "no" /\ ready = FALSE
      /\ handlers = [e \in Events |-> {}] /\ heard = [t \in Tasks |-> {}]
      /\ visits = {} /\ fired = {} /\ robbed = {}
      /\ context = "none" /\ ctx = [t \in Tasks |-> "none"]
      /\ protocol \in {"cdp", "bidi"} /\ next_id = 1
  BY DEF Init, SharedInit, CdpInit, BidiInit, CallsInit
<1>1. SessionTypes
  BY <1>a DEF SessionTypes, Ops
<1>2. SerialInv /\ PlaceInv /\ SideInv
  BY <1>a DEF SerialInv, PlaceInv, Places, SideInv, CdpPlaces, AttachPlaces, BidiPlaces
<1>3. ListenerInv /\ EarInv
  BY <1>a DEF ListenerInv, OnlyNeeded, EarInv, AllNeeded
<1>4. VisitInv /\ ContextInv
  BY <1>a DEF VisitInv, ContextInv, Contexts
<1>5. OnlyRobbedMiss /\ NoStrayListener /\ ContextIsCurrent
  BY <1>a DEF OnlyRobbedMiss, HearsOwnEvents, NoStrayListener, ContextIsCurrent
<1> QED BY <1>1, <1>2, <1>3, <1>4, <1>5 DEF AdapterInv

\* Lemma: every step keeps the invariant.
LEMMA AdapterStep ==
    ASSUME CallsAssumption, OpsAssumption, SessionAssumption, AdapterInv, CallsTypeOK,
           [Next]_vars
    PROVE  AdapterInv'
<1>1. CASE Operation
  <2>1. CASE CdpBegin /\ protocol = "cdp" /\ UNCHANGED <<bidiVars, protocol>>
    <3>1. CASE Attach
      BY <3>1, <2>1, BeginsOverCdp DEF Attach
    <3>2. ASSUME NEW t \in Tasks, Navigate(t) PROVE AdapterInv'
      BY <3>2, <2>1, BeginsOverCdp DEF Navigate
    <3>3. ASSUME NEW t \in Tasks, Command(t) PROVE AdapterInv'
      BY <3>3, <2>1, BeginsOverCdp DEF Command
    <3> QED BY <2>1, <3>1, <3>2, <3>3 DEF CdpBegin
  <2>2. CASE BidiBegin /\ protocol = "bidi" /\ UNCHANGED <<cdpVars, protocol>>
    <3>1. CASE InitContext
      BY <3>1, <2>2, BeginsOverBidi DEF InitContext
    <3>2. ASSUME NEW t \in Tasks, NavigateContext(t) PROVE AdapterInv'
      BY <3>2, <2>2, BeginsOverBidi DEF NavigateContext
    <3>3. ASSUME NEW t \in Tasks, CommandContext(t) PROVE AdapterInv'
      BY <3>3, <2>2, BeginsOverBidi DEF CommandContext
    <3> QED BY <2>2, <3>1, <3>2, <3>3 DEF BidiBegin
  <2> QED BY <1>1, <2>1, <2>2 DEF Operation, Dispatch
<1>2. CASE Destroyed
  BY <1>2, DestroyedOverCdp, DestroyedOverBidi DEF Destroyed, Dispatch
<1>3. CASE Route
  BY <1>3, QuietCalls, NothingButCalls DEF Route, Router, Both
<1>4. CASE Browser
  <2>1. CASE /\ (\E id \in Ids : Answer(id)) \/ Disconnect
             /\ UNCHANGED <<sharedVars, Both>>
    BY <2>1, QuietCalls, NothingButCalls DEF Both
  <2>2. CASE CdpEvent /\ protocol = "cdp" /\ UNCHANGED <<bidiVars, protocol>>
    <3>1. ASSUME NEW e \in Fires, NEW v \in visits, PageEvent(e, v) PROVE AdapterInv'
      <4>1. e \in PageEvents
        BY DEF PageEvents
      <4> QED BY <3>1, <2>2, <4>1, PageFires DEF PageEvent
    <3>2. ASSUME NEW s \in {"page", "other"}, TargetAttaches(s) PROVE AdapterInv'
      BY <3>2, <2>2, TargetFires DEF TargetAttaches
    <3> QED BY <2>2, <3>1, <3>2 DEF CdpEvent
  <2> QED BY <1>4, <2>1, <2>2 DEF Browser, Dispatch
<1>5. ASSUME NEW t \in Tasks, Task(t) PROVE AdapterInv'
  <2>1. CASE CdpTask(t) /\ protocol = "cdp" /\ UNCHANGED <<bidiVars, protocol>>
    BY <2>1, ListensOnce, AsksPage, IsAnswered, Waits, Unlistens, AttachAsks,
       AttachReplied, AttachHeard
       DEF CdpTask
  <2>2. CASE BidiTask(t) /\ protocol = "bidi" /\ UNCHANGED <<cdpVars, protocol>>
    BY <2>2, FindsContext, SendsInContext, SentIt DEF BidiTask
  <2>3. CASE CallStep(t) /\ UNCHANGED Both
    BY <2>3, QuietCalls, NothingButCalls DEF CallStep, Both
  <2> QED BY <1>5, <2>1, <2>2, <2>3 DEF Task, Dispatch
<1>6. ASSUME NEW t \in Tasks, Clock(t) PROVE AdapterInv'
  <2>1. CASE CdpClock(t) /\ protocol = "cdp" /\ UNCHANGED <<bidiVars, protocol>>
    BY <2>1, Waits, AttachWaited DEF CdpClock
  <2>2. CASE OuterClock(t) /\ UNCHANGED <<cdpVars, protocol>>
    BY <2>2, QuietCalls, NothingButCalls DEF OuterClock
  <2>3. CASE Timeout(t) /\ UNCHANGED Both
    BY <2>3, QuietCalls, NothingButCalls DEF Timeout, Both
  <2> QED BY <1>6, <2>1, <2>2, <2>3 DEF Clock, Dispatch
<1>7. CASE UNCHANGED vars
  BY <1>7, NothingButCalls DEF vars, callVars
<1> QED BY <1>1, <1>2, <1>3, <1>4, <1>5, <1>6, <1>7 DEF Next

\* Lemma: every step is one of PendingCalls or changes none of its variables.
LEMMA CallsOnly == ASSUME OpsAssumption, [Next]_vars PROVE [CallsNext]_callVars
<1>1. CASE Operation
  <2>1. ASSUME NEW t, NEW o, NEW place, BeginCdp(t, o, place) PROVE UNCHANGED callVars
    BY <2>1 DEF BeginCdp, Begin
  <2>2. ASSUME NEW t, NEW o, BeginBidi(t, o) PROVE UNCHANGED callVars
    BY <2>2 DEF BeginBidi, Begin
  <2> QED BY <1>1, <2>1, <2>2
     DEF Operation, Dispatch, CdpBegin, Attach, Navigate, Command, BidiBegin, InitContext,
         NavigateContext, CommandContext
<1>2. CASE Destroyed
  BY <1>2
     DEF Destroyed, Dispatch, Destroy, BidiDestroy, DestroyPending, DestroyHandlers,
         DestroySession, DestroyContext, CallsNext
<1>3. CASE Route
  BY <1>3 DEF Route, Router, CallsNext
<1>4. CASE Browser
  BY <1>4
     DEF Browser, Dispatch, CdpEvent, PageEvent, HandlePageEvent, TargetAttaches,
         HandleAttached, CallsNext, Environment
<1>5. ASSUME NEW t \in Tasks, Task(t) PROVE [CallsNext]_callVars
  <2>1. CdpTask(t) => Call(t) \/ Call(Attacher) \/ UNCHANGED callVars
    <3>1. Listen(t) \/ Answered(t) \/ Hear(t) \/ Unlisten(t) => UNCHANGED callVars
      BY DEF Listen, Answered, Hear, Unlisten, Frame
    <3>2. Ask(t) => Call(t) \/ UNCHANGED callVars
      BY DEF Ask, AskPage
    <3>3. AttachAsk \/ AttachReply \/ AttachHears => Call(Attacher) \/ UNCHANGED callVars
      BY DEF AttachAsk, AttachReply, AttachHears
    <3> QED BY <3>1, <3>2, <3>3 DEF CdpTask
  <2>2. BidiTask(t) => Call(t) \/ UNCHANGED callVars
    BY DEF BidiTask, FindContext, FoundContext, SendInContext, SentInContext
  <2>3. Attacher \in Tasks
    OBVIOUS
  <2> QED BY <1>5, <2>1, <2>2, <2>3 DEF Task, Dispatch, CallStep, CallsNext
<1>6. ASSUME NEW t \in Tasks, Clock(t) PROVE [CallsNext]_callVars
  BY <1>6
     DEF Clock, Dispatch, CdpClock, WaitNoMore, AttachTimesOut, Frame, OuterClock,
         Timeout, CallsNext
<1>7. CASE UNCHANGED vars
  BY <1>7 DEF vars
<1> QED BY <1>1, <1>2, <1>3, <1>4, <1>5, <1>6, <1>7 DEF Next

-----------------------------------------------------------------------------
\* The commands of a session of either protocol are calls of PendingCalls,
\* whatever operations tasks make of them and whatever events come in between.
THEOREM CommandsAreCalls == ASSUME OpsAssumption PROVE Spec => CallsSpec
<1>1. Init => CallsInit
  BY DEF Init, SharedInit
<1> QED BY <1>1, CallsOnly, PTL DEF Spec, CallsSpec

\* So a session gives a command the answer to it and no other, whichever
\* operations share the session (cdp_session.rs, bidi_session.rs: send).
THEOREM SessionAnswersOwn == ASSUME CallsAssumption, OpsAssumption PROVE Spec => []OwnAnswer
BY CommandsAreCalls, AnswerIsOwn, PTL

\* An answer finds nobody only when its command timed out or destroy() dropped it.
THEOREM SessionUnclaimed ==
    ASSUME CallsAssumption, OpsAssumption PROVE Spec => []OnlyLateUnclaimed
BY CommandsAreCalls, UnclaimedIsLate, PTL

\* The map of senders keeps none of an operation that ended, but of commands
\* that were refused or dropped by the clock around them.
THEOREM SessionLeaks == ASSUME CallsAssumption, OpsAssumption PROVE Spec => []NoOtherLeak
BY CommandsAreCalls, LeaksOnlyRefused, PTL

\* No operation waits for a command whose sender is lost without a word.
THEOREM SessionWaits == ASSUME CallsAssumption, OpsAssumption PROVE Spec => []SomebodyAnswers
BY CommandsAreCalls, WaitIsAnswered, PTL

\* The inductive invariant holds in every reachable state of a session.
THEOREM AdapterInvariant ==
    ASSUME ProtocolsAssumption, CallsAssumption, OpsAssumption, SessionAssumption
    PROVE  Spec => []AdapterInv
<1>1. Init => AdapterInv
  BY AdapterInit
<1>2. AdapterInv /\ CallsTypeOK /\ [Next]_vars => AdapterInv'
  BY AdapterStep
<1>3. Spec => []CallsTypeOK
  BY CommandsAreCalls, CallsTypeCorrect, PTL
<1> QED BY <1>1, <1>2, <1>3, PTL DEF Spec

\* A navigation over CDP hears what its own page fires, however early, unless
\* another operation of the session took its listener (cdp_session.rs: navigate,
\* navigate_fast, navigate_dom).
THEOREM NavigationHears ==
    ASSUME ProtocolsAssumption, CallsAssumption, OpsAssumption, SessionAssumption
    PROVE  Spec => []OnlyRobbedMiss
<1>1. AdapterInv => OnlyRobbedMiss
  BY DEF AdapterInv
<1> QED BY <1>1, AdapterInvariant, PTL

\* The listeners in the map are of operations in progress, or of ones that a
\* failed command cut short (cdp_session.rs: on, navigate, attach_to_page).
THEOREM ListenersLeave ==
    ASSUME ProtocolsAssumption, CallsAssumption, OpsAssumption, SessionAssumption
    PROVE  Spec => []NoStrayListener
<1>1. AdapterInv => NoStrayListener
  BY DEF AdapterInv
<1> QED BY <1>1, AdapterInvariant, PTL

\* A command over BiDi goes to the context the session has, or to the placeholder
\* it stood for until now (bidi_session.rs: get_or_create_context, navigate).
THEOREM ContextStaysCurrent ==
    ASSUME ProtocolsAssumption, CallsAssumption, OpsAssumption, SessionAssumption
    PROVE  Spec => []ContextIsCurrent
<1>1. AdapterInv => ContextIsCurrent
  BY DEF AdapterInv
<1> QED BY <1>1, AdapterInvariant, PTL

=============================================================================
