--------------------------- MODULE TransportProofs ---------------------------
(***************************************************************************)
(* Proofs about Transport: for any browsers, attempts, connections and     *)
(* messages, both directions keep their order, at most one message of a    *)
(* replaced connection comes through, and no socket is out of reach.       *)
(*                                                                         *)
(* TIInv is inductive.  The outgoing channel has one receiver, which the   *)
(* first connection that opens takes for good (ReceiverInv, FirstInv); a   *)
(* reader and the socket it reads hold the messages of a connection in     *)
(* order (PassedInv); and whoever clears `connected`, it is not while the   *)
(* connection that drains the channel is up (LiveInv).                     *)
(***************************************************************************)
EXTENDS Transport, SequenceTheorems, TLAPS

-----------------------------------------------------------------------------
\* Sequences.

\* Lemma: a sequence is a prefix of what it is continued to.
LEMMA PrefixOfConcat ==
    ASSUME NEW S, NEW s \in Seq(S), NEW t \in Seq(S) PROVE IsPrefix(s, s \o t)
<1>1. CASE s = <<>>  BY <1>1, ConcatEmptySeq, SubSeqEmpty, EmptySeq DEF IsPrefix
<1>2. CASE s # <<>>
  <2>1. Len(s) \in 1..Len(s)  BY <1>2, EmptySeq
  <2>2. SubSeq(s \o t, 1, Len(s)) = SubSeq(s, 1, Len(s))  BY <2>1, SubSeqOfConcat1
  <2> QED  BY <2>2, ConcatProperties, LenProperties DEF IsPrefix
<1> QED  BY <1>1, <1>2

\* Lemma: a prefix stays one when the longer sequence grows.
LEMMA PrefixAppend ==
    ASSUME NEW S, NEW s \in Seq(S), NEW t \in Seq(S), NEW e \in S, IsPrefix(s, t)
    PROVE  IsPrefix(s, Append(t, e))
<1>1. CASE s = <<>>  BY <1>1, SubSeqEmpty, EmptySeq, AppendProperties DEF IsPrefix
<1>2. CASE s # <<>>
  <2>1. Len(s) \in 1..Len(t)  BY <1>2, EmptySeq, LenProperties DEF IsPrefix
  <2>2. SubSeq(t \o <<e>>, 1, Len(s)) = SubSeq(t, 1, Len(s))  BY <2>1, SubSeqOfConcat1
  <2> QED  BY <2>2, AppendIsConcat, AppendProperties, LenProperties DEF IsPrefix
<1> QED  BY <1>1, <1>2

\* Lemma: taking one message from the back to the front loses none.
LEMMA TakeOne ==
    ASSUME NEW S, NEW s \in Seq(S), NEW t \in Seq(S), t # <<>>
    PROVE  Append(s, Head(t)) \o Tail(t) = s \o t
OBVIOUS

\* Lemma: a message queued at the end comes last in the whole.
LEMMA AppendConcat ==
    ASSUME NEW S, NEW s \in Seq(S), NEW t \in Seq(S), NEW e \in S
    PROVE  s \o Append(t, e) = Append(s \o t, e)
OBVIOUS

\* Lemma: the first message taken, the rest moves up by one.
LEMMA TakeFirst ==
    ASSUME NEW S, NEW s \in Seq(S), s # <<>>
    PROVE  /\ Head(s) = s[1] /\ s[1] \in S /\ Tail(s) \in Seq(S)
           /\ Len(s) \in Nat \ {0} /\ Len(Tail(s)) = Len(s) - 1
           /\ \A i \in 1..Len(Tail(s)) : Tail(s)[i] = s[i + 1]
<1>1. Len(s) \in Nat \ {0} /\ 1 \in 1..Len(s)  BY EmptySeq, LenProperties
<1> QED  BY <1>1, HeadTailProperties, ElementOfSeq

-----------------------------------------------------------------------------
\* The inductive invariant.

\* The connections not dialled yet have nothing, the one being dialled no socket
\* and, up to its tasks' start, no tasks.
FreshInv ==
    /\ \A g \in Gens : g > generation \/ (g = generation /\ pc = "dialing") =>
          socket[g] = "none"
    /\ \A g \in Gens : g > generation \/ (g = generation /\ pc \in {"dialing", "spawn"}) =>
          writer[g] = "none" /\ reader[g] = "none"
    /\ \A g \in Gens : g >= generation => stale[g] = 0
    /\ pc \in {"dialing", "spawn"} => generation \in Gens

\* The owner: attempts are left while it dials, and what it dials with is the
\* browser it reports.
OwnerInv ==
    /\ pc \in {"dial", "dialing"} => attempts > 0 /\ ~connected
    /\ pc \in {"dialing", "spawn"} \/ connected => asked[generation] = browser
    /\ pc = "spawn" /\ receiver = 0 => connected

\* Who drains the channel has its receiver, and only who has had it has written.
ReceiverInv ==
    /\ \A g \in Gens : writer[g] = "draining" <=> receiver = g
    /\ \A g \in Gens : writer[g] # "none" => receiver # 0
    /\ \A g \in Gens : reader[g] # "none" => writer[g] # "none"
    /\ \A g \in Gens : wire[g] # <<>> => receiver \in {g, Dropped}
    /\ \A g, h \in Gens : wire[g] # <<>> /\ wire[h] # <<>> => g = h

\* What was accepted was written or still waits, as long as the socket is open.
ChannelInv ==
    /\ receiver = 0 => outgoing = accepted
    /\ \A g \in Gens : receiver = g /\ socket[g] \in Standing => wire[g] \o outgoing = accepted
    /\ \A g \in Gens : IsPrefix(wire[g], accepted)

\* What was forwarded, is held by the reader, and waits in the socket increases,
\* for each connection.
HeldInv ==
    \A g \in Gens : held[g] <= served /\ (reader[g] = "forwarding" => held[g] # 0)

InboundInv ==
    \A g \in Gens : \A i \in 1..Len(inbound[g]) :
        /\ held[g] < inbound[g][i] /\ inbound[g][i] <= served
        /\ \A j \in 1..Len(inbound[g]) : i < j => inbound[g][i] < inbound[g][j]

PassedInv ==
    \A k \in 1..Len(incoming) : \A g \in Gens : incoming[k][1] = g =>
        /\ incoming[k][2] <= served
        /\ reader[g] = "forwarding" => incoming[k][2] < held[g]
        /\ \A i \in 1..Len(inbound[g]) : incoming[k][2] < inbound[g][i]

\* A reader that has let a stale message through does not hold another.
StaleInv ==
    \A g \in Gens : stale[g] \in {0, 1} /\ (stale[g] = 1 => reader[g] # "forwarding")

\* The connection that drains the channel is the first that opened, and the one
\* close() can reach is the last.
FirstInv ==
    /\ \A g, h \in Gens : writer[g] = "draining" /\ h < g => reader[h] = "none"
    /\ \A h \in Gens : handles # 0 /\ h > handles => reader[h] = "none"

\* A socket that stands has tasks, or is about to; its writer ends before it
\* closes only when it was aborted; while the draining connection stands, is not
\* aborted and its reader has not left, close() can reach it and it counts as
\* connected; and a reader leaves only a socket that closed or broke off.
LiveInv ==
    /\ \A g \in Gens : reader[g] = "leaving" => socket[g] # "open"
    /\ \A g \in Gens : socket[g] \in Standing /\ writer[g] = "none" => pc = "spawn" /\ g = generation
    /\ \A g \in Gens : socket[g] \in Standing /\ writer[g] = "ended" => g \in aborted
    /\ \A g \in Gens : socket[g] \in Standing /\ writer[g] = "draining" /\ g \notin aborted =>
          \/ pc = "idle" /\ connected /\ handles = g
          \/ socket[g] = "broken" /\ reader[g] = "ended"

TIInv ==
    /\ TypeOK /\ FreshInv /\ OwnerInv /\ ReceiverInv /\ ChannelInv
    /\ HeldInv /\ InboundInv /\ PassedInv /\ ForwardedInOrder
    /\ StaleInv /\ FirstInv /\ LiveInv

USE DEF Gens, Dropped, Standing, ownerVars, taskVars, history

\* What the actions of a task leave alone.
WriterFrame ==
    UNCHANGED <<browser, generation, connected, incoming, handles, ownerVars,
                reader, aborted, held, inbound, asked, history>>

ReaderFrame ==
    UNCHANGED <<browser, generation, receiver, outgoing, handles, ownerVars,
                writer, aborted, wire, asked, accepted, sent, served>>

\* Lemma: what waits at a socket are messages of its server.
LEMMA InboundElements ==
    ASSUME ServedTypes, NEW g \in Gens, NEW i \in 1..Len(inbound[g])
    PROVE  inbound[g][i] \in 1..MaxServer
<1>1. inbound[g] \in Seq(1..MaxServer)  BY DEF ServedTypes
<1> QED  BY <1>1, ElementOfSeq

\* Lemma: a reader that takes nothing and forwards nothing, and at most loses
\* what it holds, leaves the order of the messages as it is.
LEMMA TakingNothingKeeps ==
    ASSUME TransportAssumption, ServedTypes, HeldInv, InboundInv, PassedInv, StaleInv,
           UNCHANGED <<inbound, served, incoming, stale>>,
           \A h \in Gens :
               /\ held'[h] \in {0, held[h]}
               /\ reader'[h] = "forwarding" => reader[h] = "forwarding" /\ held'[h] = held[h]
    PROVE  HeldInv' /\ InboundInv' /\ PassedInv' /\ StaleInv'
<1>1. \A h \in Gens : served \in Nat  BY DEF ServedTypes, TransportAssumption
<1>2. HeldInv'
  <2>1. ASSUME NEW h \in Gens
        PROVE  held'[h] <= served' /\ (reader'[h] = "forwarding" => held'[h] # 0)
    BY <1>1 DEF HeldInv
  <2> QED  BY <2>1 DEF HeldInv
<1>3. InboundInv'
  <2>1. ASSUME NEW h \in Gens, NEW i \in 1..Len(inbound[h])
        PROVE  /\ held'[h] < inbound[h][i] /\ inbound[h][i] <= served
               /\ \A j \in 1..Len(inbound[h]) : i < j => inbound[h][i] < inbound[h][j]
    <3>1. inbound[h][i] \in 1..MaxServer  BY InboundElements
    <3> QED  BY <3>1 DEF InboundInv
  <2> QED  BY <2>1 DEF InboundInv
<1>4. PassedInv'  BY DEF PassedInv
<1>5. StaleInv'  BY DEF StaleInv
<1> QED  BY <1>2, <1>3, <1>4, <1>5

\* A writer that ends gives up the receiver if it has it.
LEMMA EndWriterKeeps ==
    ASSUME TransportAssumption, TIInv, NEW g \in Gens, EndWriter(g), writer[g] # "none",
           UNCHANGED <<accepted, wire, reader>>,
           \A h \in Gens : socket'[h] \in Standing => socket[h] \in Standing
    PROVE  ReceiverInv' /\ ChannelInv'
<1> USE TransportAssumption DEF TransportAssumption, TIInv, TypeOK, EndWriter
<1>1. CASE receiver = g
  <2>1. receiver' = Dropped /\ writer'[g] = "ended" /\ \A h \in Gens \ {g} : writer'[h] = writer[h]
    BY <1>1 DEF TaskTypes
  <2>2. \A h \in Gens : writer'[h] # "draining"  BY <1>1, <2>1 DEF ReceiverInv
  <2> QED  BY <1>1, <2>1, <2>2 DEF ReceiverInv, ChannelInv
<1>2. CASE receiver # g
  <2>1. receiver' = receiver /\ writer'[g] = "ended" /\ \A h \in Gens \ {g} : writer'[h] = writer[h]
    BY <1>2 DEF TaskTypes
  <2> QED  BY <1>2, <2>1 DEF ReceiverInv, ChannelInv
<1> QED  BY <1>1, <1>2

\* A message joins what waits in the channel.
LEMMA SendStep ==
    ASSUME TransportAssumption, TIInv, Send PROVE TIInv'
<1> USE TransportAssumption DEF TransportAssumption, TIInv, TypeOK, Send
<1>1. OwnerTypes'  BY DEF OwnerTypes, OwnerInv, FreshInv
<1>2. TaskTypes'  BY DEF OwnerTypes, TaskTypes, FreshInv
<1>3. SentTypes'
  <2>1. sent' \in 1..MaxSends  BY DEF SentTypes
  <2>2. CASE receiver = Dropped  BY <2>1, <2>2 DEF SentTypes
  <2>3. CASE receiver # Dropped
    <3>1. outgoing' = Append(outgoing, sent') /\ accepted' = Append(accepted, sent') /\ wire' = wire
      BY <2>3
    <3> HIDE DEF Send
    <3> QED  BY <2>1, <3>1, AppendProperties DEF SentTypes
  <2> QED  BY <2>2, <2>3
<1>4. ServedTypes'  BY DEF ServedTypes
<1>5. FreshInv'  BY DEF FreshInv, OwnerTypes, TaskTypes, ServedTypes
<1>6. OwnerInv'  BY DEF OwnerInv, ReceiverInv, FreshInv, OwnerTypes, TaskTypes
<1>7. ReceiverInv'  BY DEF ReceiverInv, FreshInv, OwnerTypes, TaskTypes
<1>8. ChannelInv'
  <2>1. CASE receiver = Dropped  BY <2>1 DEF ChannelInv
  <2>2. CASE receiver # Dropped
    <3>1. sent' \in 1..MaxSends  BY DEF SentTypes
    <3>2. \A h \in Gens : IsPrefix(wire[h], Append(accepted, sent'))
      BY <3>1, PrefixAppend DEF ChannelInv, SentTypes
    <3>3. ASSUME NEW h \in Gens, receiver = h, socket[h] \in Standing
          PROVE  wire[h] \o Append(outgoing, sent') = Append(accepted, sent')
      <4> HIDE DEF Send
      <4>1. wire[h] \o outgoing = accepted  BY <3>3 DEF ChannelInv
      <4>2. wire[h] \in Seq(1..MaxSends) /\ outgoing \in Seq(1..MaxSends)  BY DEF SentTypes
      <4> DEFINE w == wire[h]  S == 1..MaxSends
      <4>3. w \in Seq(S) /\ outgoing \in Seq(S) /\ sent' \in S  BY <3>1, <4>2
      <4> HIDE DEF w, S
      <4>4. w \o Append(outgoing, sent') = Append(w \o outgoing, sent')  BY <4>3, AppendConcat
      <4> QED  BY <4>1, <4>4 DEF w
    <3> QED  BY <2>2, <3>2, <3>3 DEF ChannelInv
  <2> QED  BY <2>1, <2>2
<1>9. HeldInv'  BY DEF HeldInv, ServedTypes, TaskTypes
<1>10. InboundInv'  BY DEF InboundInv, ServedTypes
<1>11. PassedInv'  BY DEF PassedInv, ServedTypes, TaskTypes
<1>12. ForwardedInOrder'  BY DEF ForwardedInOrder
<1>13. StaleInv'  BY DEF StaleInv, FreshInv, OwnerTypes, TaskTypes, ServedTypes
<1>14. FirstInv'  BY DEF FirstInv, FreshInv, ReceiverInv, OwnerTypes, TaskTypes
<1>15. LiveInv'
  BY DEF LiveInv, FreshInv, OwnerInv, ReceiverInv, FirstInv, OwnerTypes, TaskTypes
<1> QED
  BY <1>1, <1>2, <1>3, <1>4, <1>5, <1>6, <1>7, <1>8, <1>9, <1>10, <1>11, <1>12,
     <1>13, <1>14, <1>15 DEF TIInv, TypeOK

\* A connected owner stays idle, any other begins to dial.
LEMMA ConnectStep ==
    ASSUME TransportAssumption, TIInv, Connect PROVE TIInv'
<1> USE TransportAssumption DEF TransportAssumption, TIInv, TypeOK, Connect
<1>1. OwnerTypes'  BY DEF OwnerTypes, OwnerInv, FreshInv
<1>2. TaskTypes'  BY DEF OwnerTypes, TaskTypes, FreshInv
<1>3. SentTypes'  BY DEF SentTypes
<1>4. ServedTypes'  BY DEF ServedTypes
<1>5. FreshInv'  BY DEF FreshInv, OwnerTypes, TaskTypes, ServedTypes
<1>6. OwnerInv'  BY DEF OwnerInv, ReceiverInv, FreshInv, OwnerTypes, TaskTypes
<1>7. ReceiverInv'  BY DEF ReceiverInv, FreshInv, OwnerTypes, TaskTypes
<1>8. ChannelInv'  BY DEF ChannelInv, ReceiverInv, FreshInv, OwnerTypes, TaskTypes
<1>9. HeldInv'  BY DEF HeldInv, ServedTypes, TaskTypes
<1>10. InboundInv'  BY DEF InboundInv, ServedTypes
<1>11. PassedInv'  BY DEF PassedInv, ServedTypes, TaskTypes
<1>12. ForwardedInOrder'  BY DEF ForwardedInOrder
<1>13. StaleInv'  BY DEF StaleInv, FreshInv, OwnerTypes, TaskTypes, ServedTypes
<1>14. FirstInv'  BY DEF FirstInv, FreshInv, ReceiverInv, OwnerTypes, TaskTypes
<1>15. LiveInv'
  BY DEF LiveInv, FreshInv, OwnerInv, ReceiverInv, FirstInv, OwnerTypes, TaskTypes
<1> QED
  BY <1>1, <1>2, <1>3, <1>4, <1>5, <1>6, <1>7, <1>8, <1>9, <1>10, <1>11, <1>12,
     <1>13, <1>14, <1>15 DEF TIInv, TypeOK

\* The tasks close() reaches are aborted before the next dial.
LEMMA ReconnectStep ==
    ASSUME TransportAssumption, TIInv, NEW b \in Browsers, Reconnect(b) PROVE TIInv'
<1> USE TransportAssumption DEF TransportAssumption, TIInv, TypeOK, Reconnect, CloseTasks
<1>1. OwnerTypes'
  <2>1. aborted' \subseteq Gens  BY DEF OwnerTypes
  <2>2. handles' \in 0..MaxGen /\ UNCHANGED <<generation, receiver>>  OBVIOUS
  <2>4. connected' \in BOOLEAN  OBVIOUS
  <2>3. browser' \in Browsers /\ pc' = "dial" /\ attempts' = 1 /\ result' = "none"  OBVIOUS
  <2> HIDE DEF Reconnect, CloseTasks
  <2> QED  BY <2>1, <2>2, <2>3, <2>4 DEF OwnerTypes
<1>2. TaskTypes'  BY DEF OwnerTypes, TaskTypes, FreshInv
<1>3. SentTypes'  BY DEF SentTypes
<1>4. ServedTypes'  BY DEF ServedTypes
<1>5. FreshInv'  BY DEF FreshInv, OwnerTypes, TaskTypes, ServedTypes
<1>6. OwnerInv'  BY DEF OwnerInv, ReceiverInv, FreshInv, OwnerTypes, TaskTypes
<1>7. ReceiverInv'  BY DEF ReceiverInv, FreshInv, OwnerTypes, TaskTypes
<1>8. ChannelInv'  BY DEF ChannelInv, ReceiverInv, FreshInv, OwnerTypes, TaskTypes
<1>9. HeldInv'  BY DEF HeldInv, ServedTypes, TaskTypes
<1>10. InboundInv'  BY DEF InboundInv, ServedTypes
<1>11. PassedInv'  BY DEF PassedInv, ServedTypes, TaskTypes
<1>12. ForwardedInOrder'  BY DEF ForwardedInOrder
<1>13. StaleInv'  BY DEF StaleInv, FreshInv, OwnerTypes, TaskTypes, ServedTypes
<1>14. FirstInv'  BY DEF FirstInv, FreshInv, ReceiverInv, OwnerTypes, TaskTypes
<1>15. LiveInv'
  BY DEF LiveInv, FreshInv, OwnerInv, ReceiverInv, FirstInv, OwnerTypes, TaskTypes
<1> QED
  BY <1>1, <1>2, <1>3, <1>4, <1>5, <1>6, <1>7, <1>8, <1>9, <1>10, <1>11, <1>12,
     <1>13, <1>14, <1>15 DEF TIInv, TypeOK

\* The tasks close() reaches are aborted.
LEMMA CloseStep ==
    ASSUME TransportAssumption, TIInv, Close PROVE TIInv'
<1> USE TransportAssumption DEF TransportAssumption, TIInv, TypeOK, Close, CloseTasks
<1>1. OwnerTypes'
  <2>1. aborted' \subseteq Gens  BY DEF OwnerTypes
  <2>2. handles' \in 0..MaxGen /\ UNCHANGED <<generation, receiver>>  OBVIOUS
  <2>4. connected' \in BOOLEAN  OBVIOUS
  <2>3. UNCHANGED <<browser, ownerVars>>  OBVIOUS
  <2> HIDE DEF Close, CloseTasks
  <2> QED  BY <2>1, <2>2, <2>3, <2>4 DEF OwnerTypes
<1>2. TaskTypes'  BY DEF OwnerTypes, TaskTypes, FreshInv
<1>3. SentTypes'  BY DEF SentTypes
<1>4. ServedTypes'  BY DEF ServedTypes
<1>5. FreshInv'  BY DEF FreshInv, OwnerTypes, TaskTypes, ServedTypes
<1>6. OwnerInv'  BY DEF OwnerInv, ReceiverInv, FreshInv, OwnerTypes, TaskTypes
<1>7. ReceiverInv'  BY DEF ReceiverInv, FreshInv, OwnerTypes, TaskTypes
<1>8. ChannelInv'  BY DEF ChannelInv, ReceiverInv, FreshInv, OwnerTypes, TaskTypes
<1>9. HeldInv'  BY DEF HeldInv, ServedTypes, TaskTypes
<1>10. InboundInv'  BY DEF InboundInv, ServedTypes
<1>11. PassedInv'  BY DEF PassedInv, ServedTypes, TaskTypes
<1>12. ForwardedInOrder'  BY DEF ForwardedInOrder
<1>13. StaleInv'  BY DEF StaleInv, FreshInv, OwnerTypes, TaskTypes, ServedTypes
<1>14. FirstInv'  BY DEF FirstInv, FreshInv, ReceiverInv, OwnerTypes, TaskTypes
<1>15. LiveInv'
  BY DEF LiveInv, FreshInv, OwnerInv, ReceiverInv, FirstInv, OwnerTypes, TaskTypes
<1> QED
  BY <1>1, <1>2, <1>3, <1>4, <1>5, <1>6, <1>7, <1>8, <1>9, <1>10, <1>11, <1>12,
     <1>13, <1>14, <1>15 DEF TIInv, TypeOK

\* The next generation has asked for the browser the owner reports.
LEMMA DialStep ==
    ASSUME TransportAssumption, TIInv, Dial PROVE TIInv'
<1> USE TransportAssumption DEF TransportAssumption, TIInv, TypeOK, Dial
<1>1. OwnerTypes'  BY DEF OwnerTypes, OwnerInv, FreshInv
<1>2. TaskTypes'  BY DEF OwnerTypes, TaskTypes, FreshInv
<1>3. SentTypes'  BY DEF SentTypes
<1>4. ServedTypes'  BY DEF ServedTypes
<1>5. FreshInv'  BY DEF FreshInv, OwnerTypes, TaskTypes, ServedTypes
<1>6. OwnerInv'  BY DEF OwnerInv, ReceiverInv, FreshInv, OwnerTypes, TaskTypes
<1>7. ReceiverInv'  BY DEF ReceiverInv, FreshInv, OwnerTypes, TaskTypes
<1>8. ChannelInv'  BY DEF ChannelInv, ReceiverInv, FreshInv, OwnerTypes, TaskTypes
<1>9. HeldInv'  BY DEF HeldInv, ServedTypes, TaskTypes
<1>10. InboundInv'  BY DEF InboundInv, ServedTypes
<1>11. PassedInv'  BY DEF PassedInv, ServedTypes, TaskTypes
<1>12. ForwardedInOrder'  BY DEF ForwardedInOrder
<1>13. StaleInv'  BY DEF StaleInv, FreshInv, OwnerTypes, TaskTypes, ServedTypes
<1>14. FirstInv'  BY DEF FirstInv, FreshInv, ReceiverInv, OwnerTypes, TaskTypes
<1>15. LiveInv'
  BY DEF LiveInv, FreshInv, OwnerInv, ReceiverInv, FirstInv, OwnerTypes, TaskTypes
<1> QED
  BY <1>1, <1>2, <1>3, <1>4, <1>5, <1>6, <1>7, <1>8, <1>9, <1>10, <1>11, <1>12,
     <1>13, <1>14, <1>15 DEF TIInv, TypeOK

\* The owner gives up or dials again.
LEMMA DialFailsStep ==
    ASSUME TransportAssumption, TIInv, DialFails PROVE TIInv'
<1> USE TransportAssumption DEF TransportAssumption, TIInv, TypeOK, DialFails
<1>1. OwnerTypes'  BY DEF OwnerTypes, OwnerInv, FreshInv
<1>2. TaskTypes'  BY DEF OwnerTypes, TaskTypes, FreshInv
<1>3. SentTypes'  BY DEF SentTypes
<1>4. ServedTypes'  BY DEF ServedTypes
<1>5. FreshInv'  BY DEF FreshInv, OwnerTypes, TaskTypes, ServedTypes
<1>6. OwnerInv'  BY DEF OwnerInv, ReceiverInv, FreshInv, OwnerTypes, TaskTypes
<1>7. ReceiverInv'  BY DEF ReceiverInv, FreshInv, OwnerTypes, TaskTypes
<1>8. ChannelInv'  BY DEF ChannelInv, ReceiverInv, FreshInv, OwnerTypes, TaskTypes
<1>9. HeldInv'  BY DEF HeldInv, ServedTypes, TaskTypes
<1>10. InboundInv'  BY DEF InboundInv, ServedTypes
<1>11. PassedInv'  BY DEF PassedInv, ServedTypes, TaskTypes
<1>12. ForwardedInOrder'  BY DEF ForwardedInOrder
<1>13. StaleInv'  BY DEF StaleInv, FreshInv, OwnerTypes, TaskTypes, ServedTypes
<1>14. FirstInv'  BY DEF FirstInv, FreshInv, ReceiverInv, OwnerTypes, TaskTypes
<1>15. LiveInv'
  BY DEF LiveInv, FreshInv, OwnerInv, ReceiverInv, FirstInv, OwnerTypes, TaskTypes
<1> QED
  BY <1>1, <1>2, <1>3, <1>4, <1>5, <1>6, <1>7, <1>8, <1>9, <1>10, <1>11, <1>12,
     <1>13, <1>14, <1>15 DEF TIInv, TypeOK

\* The new socket is open and has no tasks yet.
LEMMA DialSucceedsStep ==
    ASSUME TransportAssumption, TIInv, DialSucceeds PROVE TIInv'
<1> USE TransportAssumption DEF TransportAssumption, TIInv, TypeOK, DialSucceeds
<1>1. OwnerTypes'  BY DEF OwnerTypes, OwnerInv, FreshInv
<1>2. TaskTypes'  BY DEF OwnerTypes, TaskTypes, FreshInv
<1>3. SentTypes'  BY DEF SentTypes
<1>4. ServedTypes'  BY DEF ServedTypes
<1>5. FreshInv'  BY DEF FreshInv, OwnerTypes, TaskTypes, ServedTypes
<1>6. OwnerInv'  BY DEF OwnerInv, ReceiverInv, FreshInv, OwnerTypes, TaskTypes
<1>7. ReceiverInv'  BY DEF ReceiverInv, FreshInv, OwnerTypes, TaskTypes
<1>8. ChannelInv'  BY DEF ChannelInv, ReceiverInv, FreshInv, OwnerTypes, TaskTypes
<1>9. HeldInv'  BY DEF HeldInv, ServedTypes, TaskTypes
<1>10. InboundInv'  BY DEF InboundInv, ServedTypes
<1>11. PassedInv'  BY DEF PassedInv, ServedTypes, TaskTypes
<1>12. ForwardedInOrder'  BY DEF ForwardedInOrder
<1>13. StaleInv'  BY DEF StaleInv, FreshInv, OwnerTypes, TaskTypes, ServedTypes
<1>14. FirstInv'  BY DEF FirstInv, FreshInv, ReceiverInv, OwnerTypes, TaskTypes
<1>15. LiveInv'
  BY DEF LiveInv, FreshInv, OwnerInv, ReceiverInv, FirstInv, OwnerTypes, TaskTypes
<1> QED
  BY <1>1, <1>2, <1>3, <1>4, <1>5, <1>6, <1>7, <1>8, <1>9, <1>10, <1>11, <1>12,
     <1>13, <1>14, <1>15 DEF TIInv, TypeOK

\* The first writer takes the receiver, every other one is closing.
LEMMA SpawnStep ==
    ASSUME TransportAssumption, TIInv, Spawn PROVE TIInv'
<1> USE TransportAssumption DEF TransportAssumption, TIInv, TypeOK, Spawn
<1>1. OwnerTypes'  BY DEF OwnerTypes, OwnerInv, FreshInv
<1>2. TaskTypes'  BY DEF OwnerTypes, TaskTypes, FreshInv
<1>3. SentTypes'  BY DEF SentTypes
<1>4. ServedTypes'  BY DEF ServedTypes
<1>5. FreshInv'  BY DEF FreshInv, OwnerTypes, TaskTypes, ServedTypes
<1>6. OwnerInv'  BY DEF OwnerInv, ReceiverInv, FreshInv, OwnerTypes, TaskTypes
<1>7. ReceiverInv'  BY DEF ReceiverInv, FreshInv, OwnerTypes, TaskTypes
<1>8. ChannelInv'
  <2>1. CASE receiver = 0
    <3>1. generation \in Gens /\ wire[generation] = <<>>  BY <2>1 DEF FreshInv, ReceiverInv
    <3>2. <<>> \o outgoing = outgoing  BY ConcatEmptySeq DEF SentTypes
    <3> QED  BY <2>1, <3>1, <3>2 DEF ChannelInv
  <2>2. CASE receiver # 0  BY <2>2 DEF ChannelInv
  <2> QED  BY <2>1, <2>2
<1>9. HeldInv'  BY DEF HeldInv, ServedTypes, TaskTypes
<1>10. InboundInv'  BY DEF InboundInv, ServedTypes
<1>11. PassedInv'  BY DEF PassedInv, ServedTypes, TaskTypes
<1>12. ForwardedInOrder'  BY DEF ForwardedInOrder
<1>13. StaleInv'  BY DEF StaleInv, FreshInv, OwnerTypes, TaskTypes, ServedTypes
<1>14. FirstInv'  BY DEF FirstInv, FreshInv, ReceiverInv, OwnerTypes, TaskTypes
<1>15. LiveInv'
  BY DEF LiveInv, FreshInv, OwnerInv, ReceiverInv, FirstInv, OwnerTypes, TaskTypes
<1> QED
  BY <1>1, <1>2, <1>3, <1>4, <1>5, <1>6, <1>7, <1>8, <1>9, <1>10, <1>11, <1>12,
     <1>13, <1>14, <1>15 DEF TIInv, TypeOK

\* The writer moves one message to the wire, loses it, or ends.
LEMMA WriteStep ==
    ASSUME TransportAssumption, TIInv, NEW g \in Gens, WriterFrame, Write(g) PROVE TIInv'
<1> USE TransportAssumption DEF TransportAssumption, TIInv, TypeOK, Write, EndWriter,
        WriterFrame
<1>1. OwnerTypes'  BY DEF OwnerTypes, OwnerInv, FreshInv
<1>2. TaskTypes'  BY DEF OwnerTypes, TaskTypes, FreshInv
<1>3. SentTypes'
  <2>1. Head(outgoing) \in 1..MaxSends /\ Tail(outgoing) \in Seq(1..MaxSends)
    BY HeadTailProperties DEF SentTypes
  <2>2. Append(wire[g], Head(outgoing)) \in Seq(1..MaxSends)
    BY <2>1, AppendProperties DEF SentTypes
  <2> QED  BY <2>1, <2>2, EmptySeq DEF SentTypes
<1>4. ServedTypes'  BY DEF ServedTypes
<1>5. FreshInv'  BY DEF FreshInv, OwnerTypes, TaskTypes, ServedTypes
<1>6. OwnerInv'  BY DEF OwnerInv, ReceiverInv, FreshInv, OwnerTypes, TaskTypes
<1>7. ReceiverInv'
  <2>1. CASE UNCHANGED <<writer, receiver>>
    <3>1. receiver = g /\ \A h \in Gens \ {g} : wire'[h] = wire[h]
      BY DEF ReceiverInv, SentTypes
    <3> QED  BY <2>1, <3>1 DEF ReceiverInv
  <2>2. CASE /\ EndWriter(g) /\ socket' = [socket EXCEPT ![g] = "closed"]
             /\ UNCHANGED wire
    <3>1. \A h \in Gens : socket'[h] \in Standing => socket[h] \in Standing
      BY <2>2 DEF TaskTypes
    <3> QED  BY <2>2, <3>1, EndWriterKeeps
  <2> QED  BY <2>1, <2>2
<1>8. ChannelInv'
  <2>1. receiver = g  BY DEF ReceiverInv
  <2>2. CASE /\ socket[g] \in Standing /\ outgoing' = Tail(outgoing)
             /\ wire' = [wire EXCEPT ![g] = Append(@, Head(outgoing))]
             /\ UNCHANGED <<writer, receiver, socket>>
    <3>1. Append(wire[g], Head(outgoing)) \o Tail(outgoing) = accepted
      <4>1. wire[g] \o outgoing = accepted  BY <2>1, <2>2 DEF ChannelInv
      <4>2. wire[g] \in Seq(1..MaxSends) /\ outgoing \in Seq(1..MaxSends) /\ outgoing # <<>>
        BY DEF SentTypes
      <4> HIDE DEF Write
      <4> QED  BY <4>1, <4>2, TakeOne
    <3>2. wire'[g] \in Seq(1..MaxSends) /\ Tail(outgoing) \in Seq(1..MaxSends)
      BY <2>2, HeadTailProperties, AppendProperties DEF SentTypes
    <3>3. wire'[g] \o outgoing' = accepted  BY <2>2, <3>1 DEF SentTypes
    <3>4. IsPrefix(wire'[g], accepted)
      <4>1. outgoing' = Tail(outgoing)  BY <2>2
      <4> HIDE DEF Write, WriterFrame, TIInv, TypeOK
      <4> QED  BY <3>2, <3>3, <4>1, PrefixOfConcat
    <3>5. \A h \in Gens \ {g} : wire'[h] = wire[h]  BY <2>2 DEF SentTypes
    <3> QED  BY <2>1, <2>2, <3>3, <3>4, <3>5 DEF ChannelInv
  <2>3. CASE socket[g] = "closed" /\ UNCHANGED <<writer, receiver, socket, wire>>
    BY <2>1, <2>3 DEF ChannelInv
  <2>4. CASE /\ EndWriter(g) /\ socket' = [socket EXCEPT ![g] = "closed"]
             /\ UNCHANGED wire
    <3>1. \A h \in Gens : socket'[h] \in Standing => socket[h] \in Standing
      BY <2>4 DEF TaskTypes
    <3> QED  BY <2>4, <3>1, EndWriterKeeps
  <2> QED  BY <2>2, <2>3, <2>4
<1>9. HeldInv'  BY DEF HeldInv, ServedTypes, TaskTypes
<1>10. InboundInv'  BY DEF InboundInv, ServedTypes
<1>11. PassedInv'  BY DEF PassedInv, ServedTypes, TaskTypes
<1>12. ForwardedInOrder'  BY DEF ForwardedInOrder
<1>13. StaleInv'  BY DEF StaleInv, FreshInv, OwnerTypes, TaskTypes, ServedTypes
<1>14. FirstInv'  BY DEF FirstInv, FreshInv, ReceiverInv, OwnerTypes, TaskTypes
<1>15. LiveInv'
  BY DEF LiveInv, FreshInv, OwnerInv, ReceiverInv, FirstInv, OwnerTypes, TaskTypes
<1> QED
  BY <1>1, <1>2, <1>3, <1>4, <1>5, <1>6, <1>7, <1>8, <1>9, <1>10, <1>11, <1>12,
     <1>13, <1>14, <1>15 DEF TIInv, TypeOK

\* A writer without the receiver closes its socket.
LEMMA CloseSinkStep ==
    ASSUME TransportAssumption, TIInv, NEW g \in Gens, WriterFrame, CloseSink(g) PROVE TIInv'
<1> USE TransportAssumption DEF TransportAssumption, TIInv, TypeOK, CloseSink, EndWriter,
        WriterFrame
<1>1. OwnerTypes'  BY DEF OwnerTypes, OwnerInv, FreshInv
<1>2. TaskTypes'  BY DEF OwnerTypes, TaskTypes, FreshInv
<1>3. SentTypes'  BY EmptySeq DEF SentTypes
<1>4. ServedTypes'  BY DEF ServedTypes
<1>5. FreshInv'  BY DEF FreshInv, OwnerTypes, TaskTypes, ServedTypes
<1>6. OwnerInv'  BY DEF OwnerInv, ReceiverInv, FreshInv, OwnerTypes, TaskTypes
<1>7. ReceiverInv'
  <2>1. \A h \in Gens : socket'[h] \in Standing => socket[h] \in Standing  BY DEF TaskTypes
  <2> QED  BY <2>1, EndWriterKeeps
<1>8. ChannelInv'
  <2>1. \A h \in Gens : socket'[h] \in Standing => socket[h] \in Standing  BY DEF TaskTypes
  <2> QED  BY <2>1, EndWriterKeeps
<1>9. HeldInv'  BY DEF HeldInv, ServedTypes, TaskTypes
<1>10. InboundInv'  BY DEF InboundInv, ServedTypes
<1>11. PassedInv'  BY DEF PassedInv, ServedTypes, TaskTypes
<1>12. ForwardedInOrder'  BY DEF ForwardedInOrder
<1>13. StaleInv'  BY DEF StaleInv, FreshInv, OwnerTypes, TaskTypes, ServedTypes
<1>14. FirstInv'  BY DEF FirstInv, FreshInv, ReceiverInv, OwnerTypes, TaskTypes
<1>15. LiveInv'
  BY DEF LiveInv, FreshInv, OwnerInv, ReceiverInv, FirstInv, OwnerTypes, TaskTypes
<1> QED
  BY <1>1, <1>2, <1>3, <1>4, <1>5, <1>6, <1>7, <1>8, <1>9, <1>10, <1>11, <1>12,
     <1>13, <1>14, <1>15 DEF TIInv, TypeOK

\* An aborted writer ends.
LEMMA DropWriterStep ==
    ASSUME TransportAssumption, TIInv, NEW g \in Gens, WriterFrame, DropWriter(g) PROVE TIInv'
<1> USE TransportAssumption DEF TransportAssumption, TIInv, TypeOK, DropWriter, EndWriter,
        WriterFrame
<1>1. OwnerTypes'  BY DEF OwnerTypes, OwnerInv, FreshInv
<1>2. TaskTypes'  BY DEF OwnerTypes, TaskTypes, FreshInv
<1>3. SentTypes'  BY EmptySeq DEF SentTypes
<1>4. ServedTypes'  BY DEF ServedTypes
<1>5. FreshInv'  BY DEF FreshInv, OwnerTypes, TaskTypes, ServedTypes
<1>6. OwnerInv'  BY DEF OwnerInv, ReceiverInv, FreshInv, OwnerTypes, TaskTypes
<1>7. ReceiverInv'
  <2>1. \A h \in Gens : socket'[h] \in Standing => socket[h] \in Standing  BY DEF TaskTypes
  <2> QED  BY <2>1, EndWriterKeeps
<1>8. ChannelInv'
  <2>1. \A h \in Gens : socket'[h] \in Standing => socket[h] \in Standing  BY DEF TaskTypes
  <2> QED  BY <2>1, EndWriterKeeps
<1>9. HeldInv'  BY DEF HeldInv, ServedTypes, TaskTypes
<1>10. InboundInv'  BY DEF InboundInv, ServedTypes
<1>11. PassedInv'  BY DEF PassedInv, ServedTypes, TaskTypes
<1>12. ForwardedInOrder'  BY DEF ForwardedInOrder
<1>13. StaleInv'  BY DEF StaleInv, FreshInv, OwnerTypes, TaskTypes, ServedTypes
<1>14. FirstInv'  BY DEF FirstInv, FreshInv, ReceiverInv, OwnerTypes, TaskTypes
<1>15. LiveInv'
  BY DEF LiveInv, FreshInv, OwnerInv, ReceiverInv, FirstInv, OwnerTypes, TaskTypes
<1> QED
  BY <1>1, <1>2, <1>3, <1>4, <1>5, <1>6, <1>7, <1>8, <1>9, <1>10, <1>11, <1>12,
     <1>13, <1>14, <1>15 DEF TIInv, TypeOK

\* The reader takes the first message of the socket, or ends.
LEMMA ReadStep ==
    ASSUME TransportAssumption, TIInv, NEW g \in Gens, ReaderFrame, Read(g) PROVE TIInv'
<1> USE TransportAssumption DEF TransportAssumption, TIInv, TypeOK, Read, EndReader,
        Superseded, ReaderFrame
<1>a. /\ Head(inbound[g]) = inbound[g][1] /\ inbound[g][1] \in 1..MaxServer
      /\ Tail(inbound[g]) \in Seq(1..MaxServer) /\ Len(inbound[g]) \in Nat \ {0}
      /\ Len(Tail(inbound[g])) = Len(inbound[g]) - 1
      /\ \A i \in 1..Len(Tail(inbound[g])) : Tail(inbound[g])[i] = inbound[g][i + 1]
  <2>1. inbound[g] \in Seq(1..MaxServer) /\ inbound[g] # <<>>  BY DEF ServedTypes
  <2> HIDE DEF Read, EndReader, Superseded, ReaderFrame, TIInv, TypeOK
  <2> QED  BY <2>1, TakeFirst
<1>b. /\ inbound'[g] = Tail(inbound[g])
      /\ \A h \in Gens \ {g} : /\ inbound'[h] = inbound[h] /\ held'[h] = held[h]
                                /\ reader'[h] = reader[h]
  BY DEF ServedTypes, TaskTypes
<1>u. UNCHANGED <<generation, incoming, served, stale>>  OBVIOUS
<1>v. \E n : held' = [held EXCEPT ![g] = n]  OBVIOUS
<1>c. \/ reader'[g] = "ended" /\ held'[g] = 0 /\ generation # g
      \/ reader'[g] = "forwarding" /\ held'[g] = inbound[g][1] /\ generation = g
  BY <1>a DEF ServedTypes, TaskTypes
<1>1. OwnerTypes'  BY DEF OwnerTypes, OwnerInv, FreshInv
<1>2. TaskTypes'  BY DEF OwnerTypes, TaskTypes, FreshInv
<1>3. SentTypes'  BY DEF SentTypes
<1>4. ServedTypes'
  <2>1. inbound' = [inbound EXCEPT ![g] = Tail(inbound[g])]  OBVIOUS
  <2> HIDE DEF Read, EndReader, Superseded, ReaderFrame
  <2>2. inbound' \in [Gens -> Seq(1..MaxServer)]  BY <1>a, <2>1 DEF ServedTypes
  <2>3. held' \in [Gens -> 0..MaxServer]  BY <1>a, <1>c, <1>v DEF ServedTypes
  <2> QED  BY <2>2, <2>3, <1>u DEF ServedTypes
<1>5. FreshInv'  BY DEF FreshInv, OwnerTypes, TaskTypes, ServedTypes
<1>6. OwnerInv'  BY DEF OwnerInv, ReceiverInv, FreshInv, OwnerTypes, TaskTypes
<1>7. ReceiverInv'  BY DEF ReceiverInv, FreshInv, OwnerTypes, TaskTypes
<1>8. ChannelInv'  BY DEF ChannelInv, ReceiverInv, FreshInv, OwnerTypes, TaskTypes
<1>9. HeldInv'
  <2> HIDE DEF Read, EndReader, Superseded, ReaderFrame
  <2>1. inbound[g][1] <= served  BY <1>a DEF InboundInv
  <2>3. held'[g] = 0 \/ held'[g] = inbound[g][1]  BY <1>c
  <2>4. served \in Nat  BY DEF ServedTypes
  <2> HIDE DEF TIInv, TypeOK
  <2>2. held'[g] <= served /\ (reader'[g] = "forwarding" => held'[g] # 0)
    BY <1>a, <1>c, <2>1, <2>3, <2>4
  <2> QED  BY <1>b, <1>u, <2>2 DEF HeldInv, TIInv
<1>10. InboundInv'
  <2> HIDE DEF Read, EndReader, Superseded, ReaderFrame
  <2>1. \A i \in 1..Len(inbound'[g]) :
            i + 1 \in 1..Len(inbound[g]) /\ inbound'[g][i] = inbound[g][i + 1]
    BY <1>a, <1>b
  <2>0. 1 \in 1..Len(inbound[g])  BY <1>a
  <2>5. \A i \in 1..Len(inbound[g]) :
            /\ inbound[g][i] <= served /\ inbound[g][i] \in 1..MaxServer
            /\ \A j \in 1..Len(inbound[g]) : i < j => inbound[g][i] < inbound[g][j]
    BY InboundElements DEF InboundInv
  <2>6. \A h \in Gens \ {g} : \A i \in 1..Len(inbound'[h]) :
            /\ held'[h] < inbound'[h][i] /\ inbound'[h][i] <= served'
            /\ \A j \in 1..Len(inbound'[h]) : i < j => inbound'[h][i] < inbound'[h][j]
    BY <1>b, <1>u DEF InboundInv
  <2>7. inbound'[g] = Tail(inbound[g]) /\ served' = served  BY <1>b, <1>u
  <2>8. served \in Nat  BY DEF ServedTypes
  <2> HIDE DEF TIInv, TypeOK
  <2>2. \A i \in 1..Len(inbound'[g]) : inbound[g][1] < inbound'[g][i] /\ inbound'[g][i] <= served
    <3>1. SUFFICES ASSUME NEW i \in 1..Len(inbound'[g])
                   PROVE  inbound[g][1] < inbound'[g][i] /\ inbound'[g][i] <= served
      OBVIOUS
    <3>2. i + 1 \in 1..Len(inbound[g]) /\ 1 < i + 1  BY <2>1, <3>1
    <3> QED  BY <2>0, <2>1, <2>5, <3>1, <3>2
  <2>3. ASSUME NEW i \in 1..Len(inbound'[g]), NEW j \in 1..Len(inbound'[g]), i < j
        PROVE  inbound'[g][i] < inbound'[g][j]
    <3>1. i \in Nat /\ j \in Nat /\ i + 1 < j + 1  BY <1>a, <2>3, <2>7
    <3> QED  BY <2>1, <2>5, <3>1
  <2>4. \A i \in 1..Len(inbound'[g]) : held'[g] < inbound'[g][i]
    <3>1. CASE held'[g] = 0
      <4>1. ASSUME NEW i \in 1..Len(inbound'[g]) PROVE inbound'[g][i] \in 1..MaxServer
        BY <2>1, <2>5
      <4> QED  BY <3>1, <4>1
    <3>2. CASE held'[g] = inbound[g][1]  BY <2>2, <3>2
    <3> QED  BY <1>c, <3>1, <3>2
  <2> QED  BY <2>2, <2>3, <2>4, <2>6, <2>7 DEF InboundInv
<1>11. PassedInv'
  <2> HIDE DEF Read, EndReader, Superseded, ReaderFrame
  <2>1. \A i \in 1..Len(inbound'[g]) :
            i + 1 \in 1..Len(inbound[g]) /\ inbound'[g][i] = inbound[g][i + 1]
    BY <1>a, <1>b
  <2>2. SUFFICES ASSUME NEW k \in 1..Len(incoming), NEW h \in Gens, incoming[k][1] = h
                 PROVE  /\ incoming[k][2] <= served
                        /\ reader'[h] = "forwarding" => incoming[k][2] < held'[h]
                        /\ \A i \in 1..Len(inbound'[h]) : incoming[k][2] < inbound'[h][i]
    BY <1>u DEF PassedInv
  <2>5. 1 \in 1..Len(inbound[g])  BY <1>a
  <2>3. CASE h = g  BY <1>c, <2>5, <2>1, <2>2, <2>3 DEF PassedInv
  <2>4. CASE h # g  BY <1>b, <2>2, <2>4 DEF PassedInv
  <2> QED  BY <2>3, <2>4
<1>12. ForwardedInOrder'  BY DEF ForwardedInOrder
<1>13. StaleInv'
  <2> HIDE DEF Read, EndReader, Superseded, ReaderFrame
  <2> QED  BY <1>b, <1>c, <1>u DEF StaleInv, FreshInv
<1>14. FirstInv'  BY DEF FirstInv, FreshInv, ReceiverInv, OwnerTypes, TaskTypes
<1>15. LiveInv'
  <2>1. \A h \in Gens : /\ socket'[h] \in Standing => socket'[h] = socket[h]
                        /\ reader[h] = "ended" => reader'[h] = "ended"
                        /\ reader'[h] = "leaving" => reader[h] = "leaving" /\ h # g
                        /\ h # g => socket'[h] = socket[h]
    BY <1>b, <1>c DEF TaskTypes
  <2>2. UNCHANGED <<writer, aborted, pc, connected, handles, generation>>  OBVIOUS
  <2> HIDE DEF Read, EndReader, Superseded, ReaderFrame
  <2> QED  BY <2>1, <2>2 DEF LiveInv
<1> QED
  BY <1>1, <1>2, <1>3, <1>4, <1>5, <1>6, <1>7, <1>8, <1>9, <1>10, <1>11, <1>12,
     <1>13, <1>14, <1>15 DEF TIInv, TypeOK

\* The reader passes on the message it holds.
LEMMA ForwardStep ==
    ASSUME TransportAssumption, TIInv, NEW g \in Gens, ReaderFrame, Forward(g) PROVE TIInv'
<1> USE TransportAssumption DEF TransportAssumption, TIInv, TypeOK, Forward, ReaderFrame
<1>e. /\ held' = [held EXCEPT ![g] = 0] /\ reader' = [reader EXCEPT ![g] = "reading"]
      /\ reader[g] = "forwarding" /\ \E n : stale' = [stale EXCEPT ![g] = n]
  BY DEF ServedTypes
<1>a. /\ held[g] \in 1..MaxServer /\ held'[g] = 0 /\ reader'[g] = "reading"
      /\ \A h \in Gens \ {g} : /\ held'[h] = held[h] /\ reader'[h] = reader[h]
                                /\ stale'[h] = stale[h]
  <2> HIDE DEF Forward, ReaderFrame
  <2>1. held[g] \in 1..MaxServer  BY <1>e DEF HeldInv, ServedTypes
  <2> QED  BY <1>e, <2>1 DEF ServedTypes, TaskTypes
<1>b. \/ incoming' = incoming
      \/ /\ incoming' = Append(incoming, <<g, held[g]>>) /\ Len(incoming') = Len(incoming) + 1
         /\ incoming'[Len(incoming) + 1] = <<g, held[g]>>
         /\ \A k \in 1..Len(incoming) : incoming'[k] = incoming[k]
  <2>1. incoming' = incoming \/ incoming' = Append(incoming, <<g, held[g]>>)  OBVIOUS
  <2> HIDE DEF Forward, ReaderFrame
  <2>2. incoming \in Seq(Gens \X (1..MaxServer)) /\ <<g, held[g]>> \in Gens \X (1..MaxServer)
    BY <1>a DEF ServedTypes
  <2> HIDE DEF TIInv, TypeOK
  <2>3. CASE incoming' = Append(incoming, <<g, held[g]>>)
    BY <2>2, <2>3, AppendProperties
  <2> QED  BY <2>1, <2>3
<1>c. stale[g] = 0 /\ stale'[g] \in {0, 1} /\ (generation = g => stale'[g] = 0)
  <2>1. stale[g] = 0  BY DEF StaleInv
  <2>2. stale \in [Gens -> Nat] /\ generation \in Nat  BY DEF ServedTypes, OwnerTypes
  <2>3. \/ stale' = stale
        \/ stale' = [stale EXCEPT ![g] = @ + IF generation = g THEN 0 ELSE 1]
    OBVIOUS
  <2> HIDE DEF Forward, ReaderFrame, TIInv, TypeOK
  <2> QED  BY <2>1, <2>2, <2>3
<1>d. Len(incoming) \in Nat  BY DEF ServedTypes
<1>1. OwnerTypes'  BY DEF OwnerTypes, OwnerInv, FreshInv
<1>2. TaskTypes'  BY DEF OwnerTypes, TaskTypes, FreshInv
<1>3. SentTypes'  BY DEF SentTypes
<1>4. ServedTypes'
  <2>1. incoming' = incoming \/ incoming' = Append(incoming, <<g, held[g]>>)  OBVIOUS
  <2>3. held' = [held EXCEPT ![g] = 0] /\ UNCHANGED <<served, inbound>>  OBVIOUS
  <2> HIDE DEF Forward, ReaderFrame
  <2>4. incoming' \in Seq(Gens \X (1..MaxServer))
    <3>1. incoming \in Seq(Gens \X (1..MaxServer)) /\ <<g, held[g]>> \in Gens \X (1..MaxServer)
      BY <1>a DEF ServedTypes
    <3>2. Append(incoming, <<g, held[g]>>) \in Seq(Gens \X (1..MaxServer))
      BY <3>1, AppendProperties
    <3> QED  BY <2>1, <3>1, <3>2
  <2>5. stale' \in [Gens -> Nat]
    <3>1. stale \in [Gens -> Nat] /\ stale'[g] \in Nat  BY <1>c DEF ServedTypes
    <3> HIDE DEF TIInv, TypeOK
    <3> QED  BY <1>e, <3>1
  <2>6. held' \in [Gens -> 0..MaxServer]  BY <2>3 DEF ServedTypes
  <2> QED  BY <2>3, <2>4, <2>5, <2>6 DEF ServedTypes
<1>5. FreshInv'  BY <1>a, <1>c DEF FreshInv, OwnerTypes, TaskTypes
<1>6. OwnerInv'  BY DEF OwnerInv, ReceiverInv, FreshInv, OwnerTypes, TaskTypes
<1>7. ReceiverInv'  BY DEF ReceiverInv, FreshInv, OwnerTypes, TaskTypes
<1>8. ChannelInv'  BY DEF ChannelInv, ReceiverInv, FreshInv, OwnerTypes, TaskTypes
<1>9. HeldInv'  BY DEF HeldInv, ServedTypes, TaskTypes
<1>10. InboundInv'
  <2>1. UNCHANGED <<inbound, served>>  OBVIOUS
  <2> HIDE DEF Forward, ReaderFrame
  <2>2. ASSUME NEW h \in Gens, NEW i \in 1..Len(inbound[h])
        PROVE  held'[h] < inbound[h][i]
    <3>1. inbound[h][i] \in 1..MaxServer  BY InboundElements
    <3>2. CASE h = g  BY <1>a, <3>1, <3>2
    <3>3. CASE h # g  BY <1>a, <3>3 DEF InboundInv
    <3> QED  BY <3>2, <3>3
  <2> QED  BY <2>1, <2>2 DEF InboundInv
<1>11. PassedInv'
  <2>1. SUFFICES ASSUME NEW k \in 1..Len(incoming'), NEW h \in Gens, incoming'[k][1] = h
                 PROVE  /\ incoming'[k][2] <= served
                        /\ reader'[h] = "forwarding" => incoming'[k][2] < held'[h]
                        /\ \A i \in 1..Len(inbound[h]) : incoming'[k][2] < inbound[h][i]
    BY DEF PassedInv
  <2>2. CASE k \in 1..Len(incoming) /\ incoming'[k] = incoming[k]
    BY <1>a, <2>1, <2>2 DEF PassedInv
  <2>3. CASE incoming'[k] = <<g, held[g]>>
    BY <1>a, <2>1, <2>3 DEF HeldInv, InboundInv
  <2> QED  BY <1>b, <1>d, <2>2, <2>3
<1>12. ForwardedInOrder'
  <2>1. CASE incoming' = incoming  BY <2>1 DEF ForwardedInOrder
  <2>2. CASE incoming' # incoming
    <3>1. SUFFICES ASSUME NEW i \in 1..Len(incoming'), NEW j \in 1..Len(incoming'), i < j,
                          incoming'[i][1] = incoming'[j][1]
                   PROVE  incoming'[i][2] < incoming'[j][2]
      BY DEF ForwardedInOrder
    <3>2. i \in 1..Len(incoming) /\ incoming'[i] = incoming[i]  BY <1>b, <1>d, <2>2, <3>1
    <3>3. CASE j \in 1..Len(incoming)  BY <1>b, <2>2, <3>1, <3>2, <3>3 DEF ForwardedInOrder
    <3>4. CASE j = Len(incoming) + 1  BY <1>b, <2>2, <3>1, <3>2, <3>4 DEF PassedInv
    <3> QED  BY <1>b, <1>d, <2>2, <3>3, <3>4
  <2> QED  BY <2>1, <2>2
<1>13. StaleInv'  BY <1>a, <1>c DEF StaleInv
<1>14. FirstInv'  BY DEF FirstInv, FreshInv, ReceiverInv, OwnerTypes, TaskTypes
<1>15. LiveInv'
  BY DEF LiveInv, FreshInv, OwnerInv, ReceiverInv, FirstInv, OwnerTypes, TaskTypes
<1> QED
  BY <1>1, <1>2, <1>3, <1>4, <1>5, <1>6, <1>7, <1>8, <1>9, <1>10, <1>11, <1>12,
     <1>13, <1>14, <1>15 DEF TIInv, TypeOK

\* The reader meets the end of the stream.
LEMMA ReadEndStep ==
    ASSUME TransportAssumption, TIInv, NEW g \in Gens, ReaderFrame, ReadEnd(g) PROVE TIInv'
<1> USE TransportAssumption DEF TransportAssumption, TIInv, TypeOK, ReadEnd, EndReader,
        Superseded, ReaderFrame
<1>a. \/ reader' = [reader EXCEPT ![g] = "ended"] /\ held' = [held EXCEPT ![g] = 0]
      \/ reader' = [reader EXCEPT ![g] = "leaving"] /\ held' = held /\ socket' = socket
  OBVIOUS
<1>b. UNCHANGED <<inbound, served, stale, incoming, writer, aborted, pc, connected, handles,
                  generation>>
  OBVIOUS
<1>c. \A h \in Gens : /\ socket'[h] \in Standing => socket'[h] = socket[h]
                      /\ h # g => socket'[h] = socket[h]
                      /\ reader[h] = "ended" => reader'[h] = "ended"
  BY DEF TaskTypes
<1>d. socket[g] # "open"  OBVIOUS
<1>e. \A h \in Gens :
          /\ held'[h] \in {0, held[h]}
          /\ reader'[h] = "forwarding" => held'[h] = held[h] /\ reader[h] = "forwarding"
          /\ reader'[h] = "leaving" => h = g \/ reader[h] = "leaving"
  BY DEF TaskTypes, ServedTypes
<1>1. OwnerTypes'  BY DEF OwnerTypes, OwnerInv, FreshInv
<1>2. TaskTypes'  BY DEF OwnerTypes, TaskTypes, FreshInv
<1>3. SentTypes'  BY DEF SentTypes
<1>4. ServedTypes'
  <2> HIDE DEF ReadEnd, EndReader, Superseded, ReaderFrame
  <2>1. CASE held' = held  BY <1>b, <2>1 DEF ServedTypes
  <2>2. CASE held' = [held EXCEPT ![g] = 0]  BY <1>b, <2>2 DEF ServedTypes
  <2> QED  BY <1>a, <2>1, <2>2
<1>5. FreshInv'  BY DEF FreshInv, OwnerTypes, TaskTypes, ServedTypes
<1>6. OwnerInv'  BY DEF OwnerInv, ReceiverInv, FreshInv, OwnerTypes, TaskTypes
<1>7. ReceiverInv'  BY DEF ReceiverInv, FreshInv, OwnerTypes, TaskTypes
<1>8. ChannelInv'  BY DEF ChannelInv, ReceiverInv, FreshInv, OwnerTypes, TaskTypes
<1>9. HeldInv' /\ InboundInv' /\ PassedInv' /\ StaleInv'
  <2> HIDE DEF ReadEnd, EndReader, Superseded, ReaderFrame
  <2> QED  BY <1>b, <1>e, TakingNothingKeeps
<1>12. ForwardedInOrder'  BY DEF ForwardedInOrder
<1>14. FirstInv'  BY DEF FirstInv, FreshInv, ReceiverInv, OwnerTypes, TaskTypes
<1>15. LiveInv'
  <2> HIDE DEF ReadEnd, EndReader, Superseded, ReaderFrame
  <2>1. \A h \in Gens : reader'[h] = "leaving" => socket'[h] # "open"
    BY <1>c, <1>d, <1>e DEF LiveInv
  <2> QED  BY <1>b, <1>c, <2>1 DEF LiveInv, OwnerTypes
<1> QED
  BY <1>1, <1>2, <1>3, <1>4, <1>5, <1>6, <1>7, <1>8, <1>9, <1>12, <1>14, <1>15
  DEF TIInv, TypeOK

\* The reader clears `connected`, which the draining connection does not need.
LEMMA LeaveStep ==
    ASSUME TransportAssumption, TIInv, NEW g \in Gens, ReaderFrame, Leave(g) PROVE TIInv'
<1> USE TransportAssumption DEF TransportAssumption, TIInv, TypeOK, Leave, EndReader,
        ReaderFrame
<1>1. OwnerTypes'  BY DEF OwnerTypes, OwnerInv, FreshInv
<1>2. TaskTypes'  BY DEF OwnerTypes, TaskTypes, FreshInv
<1>3. SentTypes'  BY DEF SentTypes
<1>4. ServedTypes'  BY DEF ServedTypes
<1>5. FreshInv'  BY DEF FreshInv, OwnerTypes, TaskTypes, ServedTypes
<1>6. OwnerInv'  BY DEF OwnerInv, ReceiverInv, FreshInv, OwnerTypes, TaskTypes
<1>7. ReceiverInv'  BY DEF ReceiverInv, FreshInv, OwnerTypes, TaskTypes
<1>8. ChannelInv'  BY DEF ChannelInv, ReceiverInv, FreshInv, OwnerTypes, TaskTypes
<1>9. HeldInv' /\ InboundInv' /\ PassedInv' /\ StaleInv'
  <2>1. /\ UNCHANGED <<inbound, served, incoming, stale>>
        /\ reader' = [reader EXCEPT ![g] = "ended"] /\ held' = [held EXCEPT ![g] = 0]
    OBVIOUS
  <2> HIDE DEF Leave, EndReader, ReaderFrame
  <2>2. \A h \in Gens :
            /\ held'[h] \in {0, held[h]}
            /\ reader'[h] = "forwarding" => reader[h] = "forwarding" /\ held'[h] = held[h]
    BY <2>1 DEF TaskTypes, ServedTypes
  <2> QED  BY <2>1, <2>2, TakingNothingKeeps
<1>12. ForwardedInOrder'  BY DEF ForwardedInOrder
<1>14. FirstInv'  BY DEF FirstInv, FreshInv, ReceiverInv, OwnerTypes, TaskTypes
<1>15. LiveInv'
  BY DEF LiveInv, FreshInv, OwnerInv, ReceiverInv, FirstInv, OwnerTypes, TaskTypes
<1> QED
  BY <1>1, <1>2, <1>3, <1>4, <1>5, <1>6, <1>7, <1>8, <1>9, <1>12, <1>14, <1>15
  DEF TIInv, TypeOK

\* An aborted reader ends.
LEMMA DropReaderStep ==
    ASSUME TransportAssumption, TIInv, NEW g \in Gens, ReaderFrame, DropReader(g) PROVE TIInv'
<1> USE TransportAssumption DEF TransportAssumption, TIInv, TypeOK, DropReader, EndReader,
        ReaderFrame
<1>1. OwnerTypes'  BY DEF OwnerTypes, OwnerInv, FreshInv
<1>2. TaskTypes'  BY DEF OwnerTypes, TaskTypes, FreshInv
<1>3. SentTypes'  BY DEF SentTypes
<1>4. ServedTypes'  BY DEF ServedTypes
<1>5. FreshInv'  BY DEF FreshInv, OwnerTypes, TaskTypes, ServedTypes
<1>6. OwnerInv'  BY DEF OwnerInv, ReceiverInv, FreshInv, OwnerTypes, TaskTypes
<1>7. ReceiverInv'  BY DEF ReceiverInv, FreshInv, OwnerTypes, TaskTypes
<1>8. ChannelInv'  BY DEF ChannelInv, ReceiverInv, FreshInv, OwnerTypes, TaskTypes
<1>9. HeldInv' /\ InboundInv' /\ PassedInv' /\ StaleInv'
  <2>1. /\ UNCHANGED <<inbound, served, incoming, stale>>
        /\ reader' = [reader EXCEPT ![g] = "ended"] /\ held' = [held EXCEPT ![g] = 0]
    OBVIOUS
  <2> HIDE DEF DropReader, EndReader, ReaderFrame
  <2>2. \A h \in Gens :
            /\ held'[h] \in {0, held[h]}
            /\ reader'[h] = "forwarding" => reader[h] = "forwarding" /\ held'[h] = held[h]
    BY <2>1 DEF TaskTypes, ServedTypes
  <2> QED  BY <2>1, <2>2, TakingNothingKeeps
<1>12. ForwardedInOrder'  BY DEF ForwardedInOrder
<1>14. FirstInv'  BY DEF FirstInv, FreshInv, ReceiverInv, OwnerTypes, TaskTypes
<1>15. LiveInv'
  BY DEF LiveInv, FreshInv, OwnerInv, ReceiverInv, FirstInv, OwnerTypes, TaskTypes
<1> QED
  BY <1>1, <1>2, <1>3, <1>4, <1>5, <1>6, <1>7, <1>8, <1>9, <1>12, <1>14, <1>15
  DEF TIInv, TypeOK

\* The server's next message is greater than all before.
LEMMA ServeStep ==
    ASSUME TransportAssumption, TIInv, NEW g \in Gens, Serve(g) PROVE TIInv'
<1> USE TransportAssumption DEF TransportAssumption, TIInv, TypeOK, Serve
<1> DEFINE old == inbound[g]  new == inbound'[g]  n == served + 1  S == 1..MaxServer
<1>a. /\ served' = n /\ inbound' = [inbound EXCEPT ![g] = new]
      /\ new = Append(old, n)
      /\ \A h \in Gens \ {g} : inbound'[h] = inbound[h]
      /\ UNCHANGED <<held, reader, incoming, stale>>
  <2>1. /\ served' = n
        /\ inbound' = [inbound EXCEPT ![g] = Append(inbound[g], served')]
        /\ UNCHANGED <<held, reader, incoming, stale>>
    OBVIOUS
  <2> HIDE DEF Serve
  <2> QED  BY <2>1 DEF ServedTypes
<1>b. old \in Seq(S) /\ n \in S
  <2>1. served \in Nat /\ served < MaxServer /\ inbound[g] \in Seq(S)  BY DEF ServedTypes
  <2> HIDE DEF Serve, TIInv, TypeOK
  <2> QED  BY <2>1 DEF old, n, S
<1>c. n \in Nat /\ n = served + 1 /\ served \in Nat /\ held[g] \in Nat /\ held[g] <= served
  BY DEF ServedTypes, HeldInv
<1>d. /\ new \in Seq(S) /\ Len(old) \in Nat /\ Len(new) = Len(old) + 1 /\ new[Len(old) + 1] = n
      /\ \A i \in 1..Len(old) : new[i] = old[i] /\ old[i] \in Nat
  <2> HIDE DEF Serve, old, new, n, S
  <2>1. /\ new \in Seq(S) /\ Len(old) \in Nat /\ Len(new) = Len(old) + 1 /\ new[Len(old) + 1] = n
        /\ \A i \in 1..Len(old) : new[i] = old[i]
    BY <1>a, <1>b, AppendProperties
  <2>2. \A i \in 1..Len(old) : old[i] \in Nat  BY InboundElements DEF old
  <2> QED  BY <2>1, <2>2
<1>f. served' \in Nat /\ served <= served'
  <2>1. served \in Nat /\ served' = served + 1  BY <1>a, <1>c
  <2> HIDE DEF Serve, TIInv, TypeOK
  <2> QED  BY <2>1
<1>e. \A i \in 1..Len(old) : held[g] < old[i] /\ old[i] <= served
                            /\ \A j \in 1..Len(old) : i < j => old[i] < old[j]
  BY DEF InboundInv
<1>1. OwnerTypes'  BY DEF OwnerTypes, OwnerInv, FreshInv
<1>2. TaskTypes'  BY DEF OwnerTypes, TaskTypes, FreshInv
<1>3. SentTypes'  BY DEF SentTypes
<1>4. ServedTypes'
  <2> HIDE DEF Serve, new, n
  <2>1. served' \in 0..MaxServer  BY <1>a, <1>b DEF S
  <2>2. inbound' \in [Gens -> Seq(S)]  BY <1>a, <1>d DEF ServedTypes
  <2> QED  BY <1>a, <2>1, <2>2 DEF ServedTypes
<1>5. FreshInv'  BY DEF FreshInv, OwnerTypes, TaskTypes, ServedTypes
<1>6. OwnerInv'  BY DEF OwnerInv, ReceiverInv, FreshInv, OwnerTypes, TaskTypes
<1>7. ReceiverInv'  BY DEF ReceiverInv, FreshInv, OwnerTypes, TaskTypes
<1>8. ChannelInv'  BY DEF ChannelInv, ReceiverInv, FreshInv, OwnerTypes, TaskTypes
<1>9. HeldInv'
  <2> HIDE DEF Serve, n, old, new, S
  <2>1. ASSUME NEW h \in Gens
        PROVE  held[h] <= served' /\ (reader[h] = "forwarding" => held[h] # 0)
    <3>1. CASE h = g  BY <1>a, <1>c, <3>1 DEF HeldInv
    <3>2. CASE h # g
      <4>1. held[h] <= served /\ held[h] \in Nat /\ served \in Nat
        BY <1>c DEF HeldInv, ServedTypes
      <4> QED  BY <1>f, <4>1 DEF HeldInv
    <3> QED  BY <3>1, <3>2
  <2> QED  BY <1>a, <2>1 DEF HeldInv
<1>10. InboundInv'
  <2> HIDE DEF Serve, old, new, n, S
  <2> HIDE DEF TIInv, TypeOK
  <2>6. ASSUME NEW i \in 1..Len(new), i # Len(old) + 1 PROVE i \in 1..Len(old)  BY <1>d, <2>6
  <2>1. ASSUME NEW i \in 1..Len(new) PROVE held[g] < new[i] /\ new[i] <= n
    <3>1. CASE i = Len(old) + 1  BY <1>c, <1>d, <3>1
    <3>2. CASE i # Len(old) + 1  BY <1>c, <1>d, <1>e, <2>6, <3>2
    <3> QED  BY <3>1, <3>2
  <2>2. ASSUME NEW i \in 1..Len(new), NEW j \in 1..Len(new), i < j PROVE new[i] < new[j]
    <3>1. i \in 1..Len(old)  BY <1>d, <2>2
    <3>2. CASE j = Len(old) + 1  BY <1>c, <1>d, <1>e, <3>1, <3>2
    <3>3. CASE j # Len(old) + 1  BY <1>d, <1>e, <2>2, <2>6, <3>1, <3>3
    <3> QED  BY <3>2, <3>3
  <2>3. SUFFICES ASSUME NEW h \in Gens, NEW i \in 1..Len(inbound'[h])
                 PROVE  /\ held[h] < inbound'[h][i] /\ inbound'[h][i] <= served'
                        /\ \A j \in 1..Len(inbound'[h]) : i < j => inbound'[h][i] < inbound'[h][j]
    BY <1>a DEF InboundInv
  <2>4. CASE h = g  BY <1>a, <2>1, <2>2, <2>3, <2>4 DEF new
  <2>5. CASE h # g
    <3>1. inbound'[h] = inbound[h]  BY <1>a, <2>5
    <3>2. inbound[h][i] \in 1..MaxServer /\ inbound[h][i] <= served
      BY <2>3, <3>1, InboundElements DEF InboundInv, TIInv, TypeOK
    <3>3. inbound[h][i] <= served'  BY <1>c, <1>f, <3>2
    <3> QED  BY <2>3, <3>1, <3>3 DEF InboundInv, TIInv
  <2> QED  BY <2>4, <2>5
<1>11. PassedInv'
  <2> HIDE DEF Serve, old, new, n, S
  <2>1. SUFFICES ASSUME NEW k \in 1..Len(incoming), NEW h \in Gens, incoming[k][1] = h
                 PROVE  /\ incoming[k][2] <= served'
                        /\ reader[h] = "forwarding" => incoming[k][2] < held[h]
                        /\ \A i \in 1..Len(inbound'[h]) : incoming[k][2] < inbound'[h][i]
    BY <1>a DEF PassedInv
  <2>2. incoming[k][2] \in Nat
    <3>1. incoming[k] \in Gens \X (1..MaxServer)  BY ElementOfSeq DEF ServedTypes
    <3> QED  BY <3>1
  <2>3. CASE h = g
    <3>1. /\ incoming[k][2] <= served /\ (reader[g] = "forwarding" => incoming[k][2] < held[g])
          /\ \A i \in 1..Len(old) : incoming[k][2] < old[i]
      BY <2>1, <2>3 DEF PassedInv, old
    <3> DEFINE m == incoming[k][2]
    <3>a. m \in Nat /\ m <= served /\ \A i \in 1..Len(old) : m < old[i]  BY <2>2, <3>1
    <3> HIDE DEF m
    <3>2. \A i \in 1..Len(new) : m < new[i]  BY <1>c, <1>d, <3>a
    <3>3. m <= served'  BY <1>a, <1>c, <3>a
    <3>4. \A i \in 1..Len(inbound'[g]) : m < inbound'[g][i]  BY <3>2 DEF new
    <3>5. reader[g] = "forwarding" => m < held[g]  BY <3>1 DEF m
    <3> QED  BY <2>3, <3>3, <3>4, <3>5 DEF m
  <2>4. CASE h # g
    <3>1. inbound'[h] = inbound[h]  BY <1>a, <2>4
    <3>2. incoming[k][2] <= served  BY <2>1 DEF PassedInv
    <3>3. incoming[k][2] <= served'  BY <1>c, <1>f, <2>2, <3>2
    <3> QED  BY <2>1, <3>1, <3>3 DEF PassedInv
  <2> QED  BY <2>3, <2>4
<1>12. ForwardedInOrder'  BY DEF ForwardedInOrder
<1>13. StaleInv'  BY DEF StaleInv, FreshInv, OwnerTypes, TaskTypes, ServedTypes
<1>14. FirstInv'  BY DEF FirstInv, FreshInv, ReceiverInv, OwnerTypes, TaskTypes
<1>15. LiveInv'
  BY DEF LiveInv, FreshInv, OwnerInv, ReceiverInv, FirstInv, OwnerTypes, TaskTypes
<1> QED
  BY <1>1, <1>2, <1>3, <1>4, <1>5, <1>6, <1>7, <1>8, <1>9, <1>10, <1>11, <1>12,
     <1>13, <1>14, <1>15 DEF TIInv, TypeOK

\* The server closes a socket.
LEMMA ServerClosesStep ==
    ASSUME TransportAssumption, TIInv, NEW g \in Gens, ServerCloses(g) PROVE TIInv'
<1> USE TransportAssumption DEF TransportAssumption, TIInv, TypeOK, ServerCloses
<1>1. OwnerTypes'  BY DEF OwnerTypes, OwnerInv, FreshInv
<1>2. TaskTypes'  BY DEF OwnerTypes, TaskTypes, FreshInv
<1>3. SentTypes'  BY DEF SentTypes
<1>4. ServedTypes'  BY DEF ServedTypes
<1>5. FreshInv'  BY DEF FreshInv, OwnerTypes, TaskTypes, ServedTypes
<1>6. OwnerInv'  BY DEF OwnerInv, ReceiverInv, FreshInv, OwnerTypes, TaskTypes
<1>7. ReceiverInv'  BY DEF ReceiverInv, FreshInv, OwnerTypes, TaskTypes
<1>8. ChannelInv'  BY DEF ChannelInv, ReceiverInv, FreshInv, OwnerTypes, TaskTypes
<1>9. HeldInv'  BY DEF HeldInv, ServedTypes, TaskTypes
<1>10. InboundInv'  BY DEF InboundInv, ServedTypes
<1>11. PassedInv'  BY DEF PassedInv, ServedTypes, TaskTypes
<1>12. ForwardedInOrder'  BY DEF ForwardedInOrder
<1>13. StaleInv'  BY DEF StaleInv, FreshInv, OwnerTypes, TaskTypes, ServedTypes
<1>14. FirstInv'  BY DEF FirstInv, FreshInv, ReceiverInv, OwnerTypes, TaskTypes
<1>15. LiveInv'
  BY DEF LiveInv, FreshInv, OwnerInv, ReceiverInv, FirstInv, OwnerTypes, TaskTypes
<1> QED
  BY <1>1, <1>2, <1>3, <1>4, <1>5, <1>6, <1>7, <1>8, <1>9, <1>10, <1>11, <1>12,
     <1>13, <1>14, <1>15 DEF TIInv, TypeOK

\* What is next to read on an open socket ends the loop.
LEMMA BreaksOffStep ==
    ASSUME TransportAssumption, TIInv, NEW g \in Gens, BreaksOff(g) PROVE TIInv'
<1> USE TransportAssumption DEF TransportAssumption, TIInv, TypeOK, BreaksOff
<1>1. OwnerTypes'  BY DEF OwnerTypes, OwnerInv, FreshInv
<1>2. TaskTypes'  BY DEF OwnerTypes, TaskTypes, FreshInv
<1>3. SentTypes'  BY DEF SentTypes
<1>4. ServedTypes'  BY DEF ServedTypes
<1>5. FreshInv'  BY DEF FreshInv, OwnerTypes, TaskTypes, ServedTypes
<1>6. OwnerInv'  BY DEF OwnerInv, ReceiverInv, FreshInv, OwnerTypes, TaskTypes
<1>7. ReceiverInv'  BY DEF ReceiverInv, FreshInv, OwnerTypes, TaskTypes
<1>8. ChannelInv'  BY DEF ChannelInv, ReceiverInv, FreshInv, OwnerTypes, TaskTypes
<1>9. HeldInv'  BY DEF HeldInv, ServedTypes, TaskTypes
<1>10. InboundInv'  BY DEF InboundInv, ServedTypes
<1>11. PassedInv'  BY DEF PassedInv, ServedTypes, TaskTypes
<1>12. ForwardedInOrder'  BY DEF ForwardedInOrder
<1>13. StaleInv'  BY DEF StaleInv, FreshInv, OwnerTypes, TaskTypes, ServedTypes
<1>14. FirstInv'  BY DEF FirstInv, FreshInv, ReceiverInv, OwnerTypes, TaskTypes
<1>15. LiveInv'
  BY DEF LiveInv, FreshInv, OwnerInv, ReceiverInv, FirstInv, OwnerTypes, TaskTypes
<1> QED
  BY <1>1, <1>2, <1>3, <1>4, <1>5, <1>6, <1>7, <1>8, <1>9, <1>10, <1>11, <1>12,
     <1>13, <1>14, <1>15 DEF TIInv, TypeOK

-----------------------------------------------------------------------------
\* The initial states, and all steps.

\* Lemma: a transport that was just made is in the invariant.
LEMMA InitStep == ASSUME TransportAssumption PROVE Init => TIInv
<1> SUFFICES ASSUME Init PROVE TIInv  OBVIOUS
<1> USE DEF TransportAssumption, Init
<1>0. TaskTypes  BY DEF TaskTypes
<1>1. OwnerTypes
  <2>1. connected \in BOOLEAN  OBVIOUS
  <2>2. /\ generation \in 0..MaxGen /\ receiver \in 0..Dropped /\ handles \in 0..MaxGen
        /\ attempts \in 0..MaxAttempts /\ aborted \subseteq Gens
    OBVIOUS
  <2> QED  BY <2>1, <2>2 DEF OwnerTypes
<1>2. SentTypes /\ ServedTypes  BY EmptySeq DEF SentTypes, ServedTypes
<1>3. FreshInv /\ OwnerInv /\ ReceiverInv  BY DEF FreshInv, OwnerInv, ReceiverInv
<1>4. ChannelInv  BY EmptySeq DEF ChannelInv, IsPrefix
<1>5. HeldInv /\ InboundInv /\ PassedInv /\ ForwardedInOrder
  BY DEF HeldInv, InboundInv, PassedInv, ForwardedInOrder
<1>6. StaleInv /\ FirstInv /\ LiveInv  BY DEF StaleInv, FirstInv, LiveInv
<1> QED  BY <1>0, <1>1, <1>2, <1>3, <1>4, <1>5, <1>6 DEF TIInv, TypeOK

\* Lemma: a step that changes nothing keeps the invariant.
LEMMA StutterStep == ASSUME TIInv, UNCHANGED vars PROVE TIInv'
BY DEF TIInv, TypeOK, OwnerTypes, TaskTypes, SentTypes, ServedTypes, FreshInv, OwnerInv,
       ReceiverInv, ChannelInv, HeldInv, InboundInv, PassedInv, ForwardedInOrder, StaleInv,
       FirstInv, LiveInv, vars

\* Lemma: every step of the owner, a task or the server keeps the invariant.
LEMMA NextStep == ASSUME TransportAssumption, TIInv, [Next]_vars PROVE TIInv'
<1>1. CASE Send  BY <1>1, SendStep
<1>2. CASE Owner
  BY <1>2, ConnectStep, CloseStep, DialStep, DialFailsStep, DialSucceedsStep, SpawnStep,
     ReconnectStep DEF Owner
<1>3. ASSUME NEW g \in Gens, Writer(g) PROVE TIInv'
  <2>1. WriterFrame /\ (Write(g) \/ CloseSink(g) \/ DropWriter(g))
    BY <1>3 DEF Writer, WriterFrame
  <2> QED  BY <2>1, WriteStep, CloseSinkStep, DropWriterStep
<1>4. ASSUME NEW g \in Gens, Reader(g) PROVE TIInv'
  <2>1. ReaderFrame /\ (Read(g) \/ Forward(g) \/ ReadEnd(g) \/ Leave(g) \/ DropReader(g))
    BY <1>4 DEF Reader, ReaderFrame
  <2> QED  BY <2>1, ReadStep, ForwardStep, ReadEndStep, LeaveStep, DropReaderStep
<1>5. ASSUME NEW g \in Gens, Serve(g) \/ ServerCloses(g) \/ BreaksOff(g) PROVE TIInv'
  BY <1>5, ServeStep, ServerClosesStep, BreaksOffStep
<1>6. CASE UNCHANGED vars  BY <1>6, StutterStep
<1> QED  BY <1>1, <1>2, <1>3, <1>4, <1>5, <1>6 DEF Next, Tasks

\* The strengthened invariant holds in every reachable state.
THEOREM TransportInvariant == Spec => []TIInv
<1>1. Init => TIInv  BY TransportAssumption, InitStep
<1>2. TIInv /\ [Next]_vars => TIInv'  BY TransportAssumption, NextStep
<1> QED  BY <1>1, <1>2, PTL DEF Spec

\* The fields, channels and tasks of the transport keep their types (transport.rs).
THEOREM TransportTypeCorrect == Spec => []TypeOK
<1>1. TIInv => TypeOK  BY DEF TIInv
<1> QED  BY <1>1, TransportInvariant, PTL

\* What a server gets is a prefix of what send() accepted, only one server gets
\* any, and what a server sends is forwarded in its order: across the channel,
\* the tasks and every reconnection, for any number of messages.
THEOREM MessagesKeepOrder == Spec => []MessagesInOrder
<1>1. TIInv => MessagesInOrder
  <2> SUFFICES ASSUME TIInv PROVE DeliveredInOrder  BY DEF MessagesInOrder, TIInv
  <2> QED  BY DEF TIInv, ReceiverInv, ChannelInv, DeliveredInOrder
<1> QED  BY <1>1, TransportInvariant, PTL

\* Of a connection that was replaced at most the one message its reader held
\* still comes through (the generation check of the reader task).
THEOREM OneStaleMessage == Spec => []AtMostOneStale
<1>1. TIInv => AtMostOneStale  BY DEF TIInv, StaleInv, AtMostOneStale
<1> QED  BY <1>1, TransportInvariant, PTL

\* An idle owner that is connected is connected to the browser it reports, and
\* every other socket that stands is one close() reaches, one whose tasks are
\* ending, or one whose reader left on a close frame or an error and whose writer
\* still has the outgoing channel.
THEOREM NoSocketOrphaned == Spec => []NoOrphanSocket
<1>1. TIInv => NoOrphanSocket
  <2> SUFFICES ASSUME TIInv, pc = "idle"
               PROVE  /\ result = "ok" /\ connected => asked[generation] = browser
                      /\ \A g \in Gens : socket[g] \in Standing =>
                            \/ g = handles \/ g \in aborted \/ writer[g] = "closing"
                            \/ socket[g] = "broken" /\ reader[g] = "ended" /\ receiver = g
    BY DEF NoOrphanSocket
  <2>1. connected => asked[generation] = browser  BY DEF TIInv, OwnerInv
  <2>2. \A g \in Gens : writer[g] \in {"none", "draining", "closing", "ended"}
    BY DEF TIInv, TypeOK, TaskTypes
  <2>3. \A g \in Gens : writer[g] = "draining" => receiver = g  BY DEF TIInv, ReceiverInv
  <2> QED  BY <2>1, <2>2, <2>3 DEF TIInv, LiveInv
<1> QED  BY <1>1, TransportInvariant, PTL

=============================================================================
