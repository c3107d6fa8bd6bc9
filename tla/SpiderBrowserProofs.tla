------------------------ MODULE SpiderBrowserProofs ------------------------
(***************************************************************************)
(* Theorems about the wiring of the client object, for any number of calls *)
(* of init() and of commands: a chain in use keeps its tasks, the reader   *)
(* as long as there is something to read; the answer to a command is not   *)
(* lost between them; and the only connections out of the owner's reach    *)
(* are those a failed or a later init() left.                              *)
(*                                                                         *)
(* The invariant says what holds the tasks of a chain in being: self (the  *)
(* chain `mine`) or a running init() (the chain built last), each of which *)
(* holds both the sender the relay reads and the transport the reader and  *)
(* the routing task depend on.                                             *)
(***************************************************************************)
EXTENDS SpiderBrowser, SequenceTheorems, TLAPS

\* What self and a running init() hold: self always the pair init() gave it,
\* init() a chain that self does not have yet and nobody routes.
HolderInv ==
    /\ mine <= chain /\ sender <= chain
    /\ mine # 0 => sender = mine
    /\ pc = "command" => mine # 0
    /\ pc \in {"adapter", "init"} =>
         /\ mine < chain
         /\ relay[chain] = "running" /\ routing[chain] = "none"
         /\ steps < IF protocol = "cdp" THEN 5 ELSE 2

\* A chain that was not built yet has nothing.
UnbuiltInv ==
    \A c \in Chains : c > chain =>
        link[c] = "none" /\ reader[c] = "none" /\ relay[c] = "none" /\ routing[c] = "none"

\* A connection is read until it breaks off or closes.
ReadInv == \A c \in Chains : link[c] = "open" => reader[c] = "running"

SBInv ==
    /\ TypeOK /\ HolderInv /\ UnbuiltInv /\ ReadInv
    /\ CommandSomewhere /\ ChainWhole /\ OrphanOrigin

-----------------------------------------------------------------------------
\* Lemma: what is appended to a channel is in it, and nothing else leaves.
LEMMA ContainsAppend ==
    ASSUME NEW S, NEW s \in Seq(S), NEW x \in S, NEW y
    PROVE  /\ Contains(Append(s, x), x)
           /\ Contains(s, y) => Contains(Append(s, x), y)
<1>1. /\ Len(Append(s, x)) = Len(s) + 1 /\ Append(s, x)[Len(s) + 1] = x
      /\ \A i \in 1..Len(s) : Append(s, x)[i] = s[i]
      /\ Len(s) \in Nat
  BY AppendProperties, LenProperties
<1> QED BY <1>1 DEF Contains

\* Lemma: what is in a channel is its head or in its tail.
LEMMA ContainsTail ==
    ASSUME NEW S, NEW s \in Seq(S), s # <<>>, NEW y, Contains(s, y)
    PROVE  y = Head(s) \/ Contains(Tail(s), y)
<1>1. /\ Head(s) = s[1] /\ Len(s) \in Nat /\ Len(Tail(s)) = Len(s) - 1
      /\ \A i \in 1..Len(Tail(s)) : Tail(s)[i] = s[i + 1]
  BY HeadTailProperties, LenProperties, EmptySeq
<1>2. PICK i \in 1..Len(s) : s[i] = y
  BY DEF Contains
<1>3. CASE i = 1
  BY <1>1, <1>2, <1>3
<1>4. CASE i # 1
  <2>1. i - 1 \in 1..Len(Tail(s)) /\ Tail(s)[i - 1] = y
    BY <1>1, <1>2, <1>4
  <2> QED BY <2>1 DEF Contains
<1> QED BY <1>3, <1>4

\* Lemma: the head of a channel is a command, its tail a channel.
LEMMA ChannelHead ==
    ASSUME NEW S, NEW s \in Seq(S), s # <<>>
    PROVE  Head(s) \in S /\ Tail(s) \in Seq(S)
BY HeadTailProperties

-----------------------------------------------------------------------------
\* Lemma: the variables keep their types.
LEMMA TypeStep == ASSUME SBInv, [Next]_vars PROVE TypeOK'
<1> USE BrowserAssumption DEF SBInv, TypeOK, Chains
<1>0. chain \in Nat /\ MaxInits \in Nat /\ MaxCommands \in Nat
  BY DEF OwnerTypes
<1>1. CASE InitConnects
  <2> USE <1>1 DEF InitConnects
  <2>1. chain' \in Chains
    BY <1>0 DEF OwnerTypes
  <2>2. OwnerTypes'
    BY <1>0, <2>1 DEF OwnerTypes
  <2>3. TaskTypes'
    BY <2>1 DEF TaskTypes
  <2>4. ChannelTypes'
    BY DEF ChannelTypes
  <2> QED BY <2>2, <2>3, <2>4
<1>3. ASSUME NEW c \in Chains, Send(c), UNCHANGED <<server, incoming>>
      PROVE  ChannelTypes' /\ waiting' \in 1..MaxCommands /\ answered' = FALSE
  <2>1. commands'[c] \in 1..MaxCommands /\ commands' \in [Chains -> 0..MaxCommands]
    BY <1>3, <1>0 DEF Send, ChannelTypes
  <2>2. outgoing[c] \in Seq(1..MaxCommands)
    BY DEF ChannelTypes
  <2>3. Append(outgoing[c], commands'[c]) \in Seq(1..MaxCommands)
    BY <2>1, <2>2, AppendProperties
  <2>4. outgoing' \in [Chains -> Seq(1..MaxCommands)]
    BY <1>3, <2>3 DEF Send, ChannelTypes
  <2> QED BY <1>3, <2>1, <2>4 DEF Send, ChannelTypes
<1>4. CASE InitAsks
  <2>1. chain \in Chains
    BY <1>4, <1>0 DEF InitAsks, HolderInv, OwnerTypes
  <2>2. ChannelTypes' /\ waiting' \in 1..MaxCommands /\ answered' = FALSE
    BY <1>3, <1>4, <2>1 DEF InitAsks
  <2>3. pc' = "init" /\ UNCHANGED <<chain, mine, sender, steps, result, protocol>>
    BY <1>4 DEF InitAsks
  <2>4. answered' \in BOOLEAN
    BY <2>2
  <2>a. waiting' \in 0..MaxCommands
    BY <1>0, <2>2
  <2>5. OwnerTypes'
    BY <2>3, <2>4, <2>a DEF OwnerTypes
  <2>6. TaskTypes'
    BY <1>4 DEF InitAsks, TaskTypes
  <2> QED BY <2>2, <2>5, <2>6
<1>5. CASE Command
  <2>1. mine \in Chains
    BY <1>5, <1>0 DEF Command, OwnerTypes
  <2>2. ChannelTypes' /\ waiting' \in 1..MaxCommands /\ answered' = FALSE
    BY <1>3, <1>5, <2>1 DEF Command
  <2>3. pc' = "command" /\ result' = "none" /\ UNCHANGED <<chain, mine, sender, steps, protocol>>
    BY <1>5 DEF Command
  <2>4. answered' \in BOOLEAN
    BY <2>2
  <2>a. waiting' \in 0..MaxCommands
    BY <1>0, <2>2
  <2>5. OwnerTypes'
    BY <2>3, <2>4, <2>a DEF OwnerTypes
  <2>6. TaskTypes'
    BY <1>5 DEF Command, TaskTypes
  <2> QED BY <2>2, <2>5, <2>6
<1>6. CASE InitWaited
  <2> USE <1>6 DEF InitWaited
  <2>1. chain \in Chains /\ chain # 0
    BY <1>0 DEF HolderInv, OwnerTypes
  <2>2. steps' \in 0..(IF chain' # 0 /\ protocol' = "bidi" THEN 2 ELSE 5)
    BY <2>1 DEF HolderInv, OwnerTypes, TaskTypes
  <2>3. answered' \in BOOLEAN
    OBVIOUS
  <2>a. waiting' \in 0..MaxCommands
    BY <1>0
  <2>4. /\ pc' \in {"idle", "adapter"} /\ mine' \in 0..MaxInits /\ sender' \in 0..MaxInits
        /\ result' \in {"none", "ok", "error", "timeout", "closed"} /\ chain' = chain
    BY <2>1 DEF OwnerTypes
  <2>5. TaskTypes'
    <3>1. routing' \in {routing, [routing EXCEPT ![chain] = "running"]}
      OBVIOUS
    <3>2. UNCHANGED <<protocol, link, reader, relay>>
      OBVIOUS
    <3> HIDE DEF InitWaited
    <3> QED BY <2>1, <3>1, <3>2 DEF TaskTypes
  <2>6. ChannelTypes'
    BY DEF ChannelTypes
  <2> QED BY <2>2, <2>3, <2>a, <2>4, <2>5, <2>6 DEF OwnerTypes
<1>7. CASE CommandReturns
  <2>1. answered' \in BOOLEAN
    BY <1>7 DEF CommandReturns
  <2>2. waiting' \in 0..MaxCommands
    BY <1>0, <1>7 DEF CommandReturns
  <2> QED BY <1>7, <2>1, <2>2 DEF CommandReturns, chainVars, OwnerTypes, TaskTypes, ChannelTypes
<1>8. CASE Close
  <2> USE <1>8 DEF Close
  <2>1. OwnerTypes'
    BY DEF OwnerTypes
  <2>2. TaskTypes'
    BY DEF OwnerTypes, TaskTypes
  <2>3. ChannelTypes'
    BY DEF ChannelTypes
  <2> QED BY <2>1, <2>2, <2>3
<1>9. ASSUME NEW c \in Chains, Relay(c) PROVE TypeOK'
  <2> USE <1>9 DEF Relay
  <2>1. outgoing[c] # <<>> => Head(outgoing[c]) \in 1..MaxCommands
                              /\ Tail(outgoing[c]) \in Seq(1..MaxCommands)
    BY ChannelHead DEF ChannelTypes
  <2>2. OwnerTypes'
    BY DEF OwnerTypes, ownerVars
  <2>3. TaskTypes'
    BY DEF TaskTypes
  <2>4. outgoing' \in [Chains -> Seq(1..MaxCommands)]
    BY <2>1 DEF ChannelTypes
  <2>5. server' \in [Chains -> SUBSET (1..MaxCommands)]
    <3> DEFINE more == IF link[c] = "open" THEN server[c] \cup {Head(outgoing[c])} ELSE server[c]
    <3>1. server' = server \/ (outgoing[c] # <<>> /\ server' = [server EXCEPT ![c] = more])
      OBVIOUS
    <3>2. outgoing[c] # <<>> => more \in SUBSET (1..MaxCommands)
      BY <2>1 DEF ChannelTypes
    <3> HIDE <1>9 DEF Relay, more
    <3> QED BY <3>1, <3>2 DEF ChannelTypes
  <2>6. UNCHANGED <<commands, incoming>>
    OBVIOUS
  <2>7. ChannelTypes'
    BY <2>4, <2>5, <2>6 DEF ChannelTypes
  <2> QED BY <2>2, <2>3, <2>7
<1>10. ASSUME NEW c \in Chains, Route(c) PROVE TypeOK'
  <2> USE <1>10 DEF Route
  <2>1. incoming[c] # <<>> => Tail(incoming[c]) \in Seq(1..MaxCommands)
    BY ChannelHead DEF ChannelTypes
  <2>2. answered' \in BOOLEAN
    BY DEF OwnerTypes
  <2>3. OwnerTypes'
    BY <2>2 DEF OwnerTypes
  <2>4. TaskTypes'
    BY DEF TaskTypes
  <2>5. ChannelTypes'
    BY <2>1 DEF ChannelTypes
  <2> QED BY <2>3, <2>4, <2>5
<1>11. ASSUME NEW c \in Chains, ReaderEnds(c) PROVE TypeOK'
  BY <1>11 DEF ReaderEnds, ownerVars, OwnerTypes, TaskTypes, ChannelTypes
<1>12. ASSUME NEW c \in Chains, Answer(c) PROVE TypeOK'
  <2>1. PICK n \in server[c] : Answer(c)!(n)
    BY <1>12 DEF Answer
  <2>2. n \in 1..MaxCommands /\ incoming[c] \in Seq(1..MaxCommands)
    BY <2>1 DEF ChannelTypes
  <2>3. Append(incoming[c], n) \in Seq(1..MaxCommands)
    BY <2>2, AppendProperties
  <2> QED BY <2>1, <2>3 DEF ownerVars, OwnerTypes, TaskTypes, ChannelTypes
<1>13. ASSUME NEW c \in Chains, ServerCloses(c) \/ BreaksOff(c) \/ WriterEnds(c) PROVE TypeOK'
  BY <1>13 DEF ServerCloses, BreaksOff, WriterEnds, ownerVars, OwnerTypes, TaskTypes, ChannelTypes
<1>14. CASE UNCHANGED vars
  BY <1>14 DEF vars, ownerVars, chainVars, OwnerTypes, TaskTypes, ChannelTypes
<1> QED BY <1>1, <1>4, <1>5, <1>6, <1>7, <1>8, <1>9, <1>10, <1>11, <1>12, <1>13, <1>14
        DEF Next, Owner, Tasks

\* Lemma: self and init() keep holding what they hold.
LEMMA HolderStep ==
    ASSUME SBInv, [Next]_vars
    PROVE  HolderInv' /\ UnbuiltInv' /\ ReadInv' /\ ChainWhole'
<1> USE BrowserAssumption DEF SBInv, TypeOK, Chains
<1>0. /\ chain \in 0..MaxInits /\ mine \in 0..MaxInits /\ sender \in 0..MaxInits
      /\ MaxInits \in Nat
      /\ link \in [Chains -> {"none", "open", "broken", "closed"}]
      /\ reader \in [Chains -> {"none", "running", "ended"}]
      /\ relay \in [Chains -> {"none", "running", "ended"}]
      /\ routing \in [Chains -> {"none", "running", "ended"}]
  BY DEF OwnerTypes, TaskTypes
<1> USE DEF HolderInv, UnbuiltInv, ReadInv, ChainWhole
<1>1. CASE InitConnects
  <2> USE <1>0, <1>1 DEF InitConnects
  <2>1. chain' = chain + 1 /\ chain' \in Chains /\ pc' \in {"idle", "adapter"} /\ steps' = 0
    OBVIOUS
  <2>2. \A c \in Chains \ {chain'} :
           link'[c] = link[c] /\ reader'[c] = reader[c] /\ relay'[c] = relay[c]
    OBVIOUS
  <2>3. IF pc' = "idle" THEN UNCHANGED <<link, reader, relay>>
        ELSE link'[chain'] = "open" /\ reader'[chain'] = "running" /\ relay'[chain'] = "running"
    OBVIOUS
  <2>4. UNCHANGED <<mine, sender, routing>>
    OBVIOUS
  <2> HIDE <1>1 DEF InitConnects
  <2>5. HolderInv'
    BY <2>1, <2>3, <2>4 DEF OwnerTypes
  <2>6. UnbuiltInv'
    BY <2>1, <2>2, <2>4
  <2>7. ReadInv'
    <3>1. CASE pc' = "idle"
      BY <2>3, <3>1
    <3>2. CASE pc' # "idle"
      <4> SUFFICES ASSUME NEW c \in Chains, link'[c] = "open" PROVE reader'[c] = "running"
        OBVIOUS
      <4>1. CASE c = chain'
        BY <2>3, <3>2, <4>1
      <4>2. CASE c # chain'
        BY <2>2, <4>2
      <4> QED BY <4>1, <4>2
    <3> QED BY <3>1, <3>2
  <2>8. mine # chain' /\ (mine # 0 => mine \in Chains)
    BY <2>1
  <2>9. ChainWhole'
    BY <2>2, <2>4, <2>8
  <2> QED BY <2>5, <2>6, <2>7, <2>9
<1>2. CASE InitAsks
  BY <1>0, <1>2 DEF InitAsks, Send
<1>3. CASE InitWaited
  BY <1>0, <1>3 DEF InitWaited, GoesOn
<1>4. CASE Command
  BY <1>0, <1>4 DEF Command, Send
<1>5. CASE CommandReturns
  BY <1>0, <1>5 DEF CommandReturns, chainVars
<1>6. CASE Close
  <2> USE <1>0, <1>6 DEF Close
  <2>1. HolderInv'
    OBVIOUS
  <2>2. UnbuiltInv'
    OBVIOUS
  <2>3. ReadInv'
    OBVIOUS
  <2>4. ChainWhole'
    OBVIOUS
  <2> QED BY <2>1, <2>2, <2>3, <2>4
<1>7. ASSUME NEW c \in Chains, Relay(c) PROVE HolderInv' /\ UnbuiltInv' /\ ReadInv' /\ ChainWhole'
  BY <1>0, <1>7 DEF Relay, RelayFed, ownerVars
<1>8. ASSUME NEW c \in Chains, Route(c) PROVE HolderInv' /\ UnbuiltInv' /\ ReadInv' /\ ChainWhole'
  BY <1>0, <1>8 DEF Route, TransportHeld
<1>9. ASSUME NEW c \in Chains, ReaderEnds(c)
      PROVE  HolderInv' /\ UnbuiltInv' /\ ReadInv' /\ ChainWhole'
  BY <1>0, <1>9 DEF ReaderEnds, ownerVars
<1>10. ASSUME NEW c \in Chains, Answer(c)
       PROVE  HolderInv' /\ UnbuiltInv' /\ ReadInv' /\ ChainWhole'
  BY <1>0, <1>10 DEF Answer, ownerVars
<1>11. ASSUME NEW c \in Chains, ServerCloses(c) \/ BreaksOff(c) \/ WriterEnds(c)
       PROVE  HolderInv' /\ UnbuiltInv' /\ ReadInv' /\ ChainWhole'
  BY <1>0, <1>11 DEF ServerCloses, BreaksOff, WriterEnds, Standing, ownerVars
<1>12. CASE UNCHANGED vars
  BY <1>12 DEF vars, ownerVars, chainVars
<1> QED BY <1>1, <1>2, <1>3, <1>4, <1>5, <1>6, <1>7, <1>8, <1>9, <1>10, <1>11, <1>12
        DEF Next, Owner, Tasks

\* Lemma: a command that is not answered stays somewhere on its way.
LEMMA SomewhereStep == ASSUME SBInv, [Next]_vars PROVE CommandSomewhere'
<1> SUFFICES ASSUME pc' = "command", ~answered', link'[mine'] = "open"
             PROVE  \/ Contains(outgoing'[mine'], waiting')
                    \/ waiting' \in server'[mine']
                    \/ Contains(incoming'[mine'], waiting')
  BY DEF CommandSomewhere
<1> USE BrowserAssumption DEF Chains
<1>0. /\ mine \in 0..MaxInits /\ MaxInits \in Nat /\ MaxCommands \in Nat
      /\ outgoing \in [Chains -> Seq(1..MaxCommands)]
      /\ server \in [Chains -> SUBSET (1..MaxCommands)]
      /\ incoming \in [Chains -> Seq(1..MaxCommands)]
      /\ link \in [Chains -> {"none", "open", "broken", "closed"}]
  BY DEF SBInv, TypeOK, OwnerTypes, TaskTypes, ChannelTypes
<1>1. CASE Command
  <2>1. mine \in Chains
    BY <1>0, <1>1 DEF Command
  <2>2. commands'[mine] \in 1..MaxCommands
    BY <1>1, <2>1 DEF Command, Send, SBInv, TypeOK, ChannelTypes
  <2>3. Contains(Append(outgoing[mine], commands'[mine]), commands'[mine])
    BY <1>0, <2>1, <2>2, ContainsAppend
  <2> QED BY <1>0, <1>1, <2>1, <2>3 DEF Command, Send
<1>2. CASE InitConnects \/ InitAsks \/ InitWaited \/ CommandReturns \/ Close
  BY <1>2 DEF InitConnects, InitAsks, InitWaited, CommandReturns, Close
<1>3. ASSUME pc = "command", UNCHANGED <<mine, waiting>>, ~answered, link[mine] = "open"
      PROVE  /\ mine \in Chains
             /\ \/ Contains(outgoing[mine], waiting)
                \/ waiting \in server[mine]
                \/ Contains(incoming[mine], waiting)
  BY <1>0, <1>3 DEF SBInv, CommandSomewhere, HolderInv
<1>4. ASSUME NEW c \in Chains, Relay(c)
      PROVE  \/ Contains(outgoing'[mine'], waiting')
             \/ waiting' \in server'[mine']
             \/ Contains(incoming'[mine'], waiting')
  <2>1. UNCHANGED <<pc, mine, waiting, answered, link, incoming>>
    BY <1>4 DEF Relay, ownerVars
  <2>2. mine \in Chains /\ link[mine] = "open"
    BY <1>3, <2>1
  <2>3. CASE c # mine \/ outgoing[c] = <<>>
    BY <1>0, <1>3, <1>4, <2>1, <2>2, <2>3 DEF Relay
  <2>4. CASE c = mine /\ outgoing[c] # <<>>
    <3>1. outgoing'[c] = Tail(outgoing[c]) /\ server'[c] = server[c] \cup {Head(outgoing[c])}
      BY <1>0, <1>4, <2>2, <2>4 DEF Relay
    <3>2. Contains(outgoing[c], waiting) => waiting = Head(outgoing[c]) \/ Contains(Tail(outgoing[c]), waiting)
      BY <1>0, <2>4, ContainsTail
    <3> QED BY <1>3, <2>1, <2>2, <2>4, <3>1, <3>2
  <2> QED BY <2>3, <2>4
<1>5. ASSUME NEW c \in Chains, Route(c)
      PROVE  \/ Contains(outgoing'[mine'], waiting')
             \/ waiting' \in server'[mine']
             \/ Contains(incoming'[mine'], waiting')
  <2>1. UNCHANGED <<pc, mine, waiting, link, outgoing, server>>
    BY <1>5 DEF Route
  <2>2. ~answered
    BY <1>5 DEF Route
  <2>3. mine \in Chains
    BY <1>3, <2>1, <2>2
  <2>4. CASE c # mine \/ incoming[c] = <<>>
    BY <1>0, <1>3, <1>5, <2>1, <2>2, <2>3, <2>4 DEF Route
  <2>5. CASE c = mine /\ incoming[c] # <<>>
    <3>1. incoming'[c] = Tail(incoming[c]) /\ waiting # Head(incoming[c])
      BY <1>0, <1>5, <2>1, <2>3, <2>5 DEF Route, Awaited
    <3>2. Contains(incoming[c], waiting) => waiting = Head(incoming[c]) \/ Contains(Tail(incoming[c]), waiting)
      BY <1>0, <2>5, ContainsTail
    <3> QED BY <1>3, <2>1, <2>2, <2>3, <2>5, <3>1, <3>2
  <2> QED BY <2>4, <2>5
<1>6. ASSUME NEW c \in Chains, Answer(c)
      PROVE  \/ Contains(outgoing'[mine'], waiting')
             \/ waiting' \in server'[mine']
             \/ Contains(incoming'[mine'], waiting')
  <2>1. PICK n \in server[c] : Answer(c)!(n)
    BY <1>6 DEF Answer
  <2>2. UNCHANGED <<pc, mine, waiting, answered, link, outgoing>>
    BY <2>1 DEF ownerVars
  <2>3. mine \in Chains
    BY <1>3, <2>2
  <2>4. /\ server'[mine] = IF c = mine THEN server[mine] \ {n} ELSE server[mine]
        /\ incoming'[mine] = IF c = mine THEN Append(incoming[mine], n) ELSE incoming[mine]
    BY <1>0, <2>1, <2>3
  <2>5. n \in 1..MaxCommands
    BY <1>0, <2>1
  <2>6. /\ Contains(Append(incoming[mine], n), n)
        /\ Contains(incoming[mine], waiting) => Contains(Append(incoming[mine], n), waiting)
    BY <1>0, <2>3, <2>5, ContainsAppend
  <2> QED BY <1>3, <2>2, <2>3, <2>4, <2>6
<1>7. ASSUME NEW c \in Chains, ReaderEnds(c) \/ ServerCloses(c) \/ BreaksOff(c) \/ WriterEnds(c)
      PROVE  \/ Contains(outgoing'[mine'], waiting')
             \/ waiting' \in server'[mine']
             \/ Contains(incoming'[mine'], waiting')
  <2>1. UNCHANGED <<pc, mine, waiting, answered, outgoing, server, incoming>>
    BY <1>7 DEF ReaderEnds, ServerCloses, BreaksOff, WriterEnds, ownerVars
  <2>2. link[mine] = "open"
    BY <1>0, <1>7, <2>1 DEF ReaderEnds, ServerCloses, BreaksOff, WriterEnds, SBInv, HolderInv
  <2> QED BY <1>3, <2>1, <2>2
<1>8. CASE UNCHANGED vars
  <2>1. UNCHANGED <<pc, mine, waiting, answered, link, outgoing, server, incoming>>
    BY <1>8 DEF vars, ownerVars, chainVars
  <2> QED BY <1>3, <2>1
<1> QED BY <1>1, <1>2, <1>4, <1>5, <1>6, <1>7, <1>8 DEF Next, Owner, Tasks

\* Lemma: close() leaves no connection, and init() only an older one.
LEMMA OrphanStep == ASSUME SBInv, [Next]_vars PROVE OrphanOrigin'
<1> USE BrowserAssumption DEF SBInv, TypeOK, Chains, Standing
<1>0. /\ chain \in 0..MaxInits /\ mine \in 0..MaxInits /\ MaxInits \in Nat
      /\ link \in [Chains -> {"none", "open", "broken", "closed"}]
      /\ routing \in [Chains -> {"none", "running", "ended"}]
  BY DEF OwnerTypes, TaskTypes
<1>a. ASSUME UNCHANGED <<mine, chain, routing>>,
             pc \in {"adapter", "init"} => pc' \in {"adapter", "init"},
             \A c \in Chains : link'[c] \in Standing => link[c] \in Standing
      PROVE  OrphanOrigin'
  BY <1>0, <1>a DEF OrphanOrigin
<1>1. CASE InitConnects
  BY <1>0, <1>1 DEF InitConnects, OrphanOrigin, UnbuiltInv
<1>2. CASE InitAsks
  BY <1>a, <1>2 DEF InitAsks
<1>3. CASE InitWaited
  <2>1. chain \in Chains /\ mine < chain /\ routing[chain] = "none"
    BY <1>0, <1>3 DEF InitWaited, HolderInv
  <2>2. CASE UNCHANGED <<mine, routing>>
    BY <1>0, <1>3, <2>1, <2>2 DEF InitWaited, OrphanOrigin
  <2>3. CASE mine' = chain /\ routing' = [routing EXCEPT ![chain] = "running"]
    <3> SUFFICES ASSUME NEW c \in Chains, link'[c] \in Standing, mine' # c
                 PROVE  routing'[c] = "none" \/ \E d \in Chains : d > c /\ routing'[d] # "none"
      BY DEF OrphanOrigin
    <3>1. link[c] \in Standing /\ c # chain /\ chain' = chain
      BY <1>3, <2>3 DEF InitWaited
    <3>2. c < chain
      BY <1>0, <3>1 DEF UnbuiltInv
    <3> QED BY <1>0, <2>1, <2>3, <3>2
  <2> QED BY <1>3, <2>2, <2>3 DEF InitWaited
<1>4. CASE Command
  BY <1>a, <1>4 DEF Command
<1>5. CASE CommandReturns
  BY <1>a, <1>5 DEF CommandReturns, chainVars
<1>6. CASE Close
  BY <1>0, <1>6 DEF Close, OrphanOrigin
<1>7. ASSUME NEW c \in Chains,
             Relay(c) \/ ReaderEnds(c) \/ Answer(c) \/ ServerCloses(c) \/ BreaksOff(c) \/ WriterEnds(c)
      PROVE  OrphanOrigin'
  <2>1. UNCHANGED <<pc, mine, chain, routing>>
    BY <1>7 DEF Relay, ReaderEnds, Answer, ServerCloses, BreaksOff, WriterEnds, ownerVars
  <2>2. \A d \in Chains : link'[d] \in Standing => link[d] \in Standing
    BY <1>0, <1>7 DEF Relay, ReaderEnds, Answer, ServerCloses, BreaksOff, WriterEnds
  <2> QED BY <1>a, <2>1, <2>2
<1>8. ASSUME NEW c \in Chains, Route(c) PROVE OrphanOrigin'
  BY <1>0, <1>8 DEF Route, OrphanOrigin
<1>9. CASE UNCHANGED vars
  BY <1>a, <1>9 DEF vars, ownerVars, chainVars
<1> QED BY <1>1, <1>2, <1>3, <1>4, <1>5, <1>6, <1>7, <1>8, <1>9 DEF Next, Owner, Tasks

-----------------------------------------------------------------------------
\* Lemma: a client that was just made is in the invariant.
LEMMA InitStep == Init => SBInv
<1> SUFFICES ASSUME Init PROVE SBInv
  OBVIOUS
<1> USE BrowserAssumption DEF Init
<1>1. answered \in BOOLEAN
  OBVIOUS
<1>2. OwnerTypes
  BY <1>1 DEF OwnerTypes
<1>3. TaskTypes /\ ChannelTypes
  BY EmptySeq DEF TaskTypes, ChannelTypes
<1>4. HolderInv /\ UnbuiltInv /\ ReadInv
  BY DEF HolderInv, UnbuiltInv, ReadInv
<1>5. CommandSomewhere /\ ChainWhole /\ OrphanOrigin
  BY DEF CommandSomewhere, ChainWhole, OrphanOrigin
<1> QED BY <1>2, <1>3, <1>4, <1>5 DEF SBInv, TypeOK

\* Theorem: the invariant holds whatever the owner calls and the server does.
THEOREM BrowserInvariant == Spec => []SBInv
<1>1. SBInv /\ [Next]_vars => SBInv'
  BY TypeStep, HolderStep, SomewhereStep, OrphanStep DEF SBInv
<1> QED BY <1>1, InitStep, PTL DEF Spec

\* Theorem: every field of the client and every channel has its type.
THEOREM BrowserTypeCorrect == Spec => []TypeOK
<1>1. SBInv => TypeOK
  BY DEF SBInv
<1> QED BY <1>1, BrowserInvariant, PTL

\* Theorem: as long as its connection is open, a command that was not answered
\* is in a channel or at the server: no task of the chain loses it.
THEOREM NoCommandLost == Spec => []CommandSomewhere
<1>1. SBInv => CommandSomewhere
  BY DEF SBInv
<1> QED BY <1>1, BrowserInvariant, PTL

\* Theorem: a chain in use keeps its relay and its routing task until close(),
\* and its reader until the connection closes or breaks off.
THEOREM ChainsStayWhole == Spec => []ChainWhole
<1>1. SBInv => ChainWhole
  BY DEF SBInv
<1> QED BY <1>1, BrowserInvariant, PTL

\* Theorem: a connection that stands out of the owner's reach was left by an
\* init() that failed or replaced by a later one, never by close().
THEOREM OnlyInitOrphans == Spec => []OrphanOrigin
<1>1. SBInv => OrphanOrigin
  BY DEF SBInv
<1> QED BY <1>1, BrowserInvariant, PTL

=============================================================================
