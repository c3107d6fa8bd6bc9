----------------------- MODULE KeywordClassifierProofs -----------------------
(***************************************************************************)
(* Proofs about KeywordClassifier: for any alphabet, rules and text, the   *)
(* automaton finds the first keyword to end.                               *)
(*                                                                         *)
(* KCInv is inductive.  The failure link of a node that has one leads to   *)
(* the longest proper suffix of its word in the trie, the dictionary link  *)
(* to the longest that is a keyword (LinkInv); the queue holds the links   *)
(* to come level by level (LevelInv); and the node the scan is at is the   *)
(* longest suffix of the text in the trie (ScanInv).                       *)
(***************************************************************************)
EXTENDS KeywordClassifier, SequenceTheorems, FiniteSetTheorems, WellFoundedInduction, TLAPS

-----------------------------------------------------------------------------
\* Words and their suffixes.

IsSuffix(u, w) ==
    /\ Len(u) <= Len(w)
    /\ \A i \in 1..Len(u) : u[i] = w[Len(w) - Len(u) + i]

Front(w) == SubSeq(w, 1, Len(w) - 1)

\* Lemma: the empty word is a suffix of every word, and so is the word itself.
LEMMA SuffixEnds ==
    ASSUME NEW S, NEW w \in Seq(S) PROVE IsSuffix(<<>>, w) /\ IsSuffix(w, w)
<1>1. Len(w) \in Nat /\ Len(<<>>) = 0
  BY LenProperties, EmptySeq
<1> QED BY <1>1 DEF IsSuffix

\* Lemma: a suffix of a suffix is a suffix.
LEMMA SuffixTransitive ==
    ASSUME NEW S, NEW u \in Seq(S), NEW v \in Seq(S), NEW w \in Seq(S),
           IsSuffix(u, v), IsSuffix(v, w)
    PROVE  IsSuffix(u, w)
<1>1. Len(u) \in Nat /\ Len(v) \in Nat /\ Len(w) \in Nat
  BY LenProperties
<1>2. ASSUME NEW i \in 1..Len(u) PROVE u[i] = w[Len(w) - Len(u) + i]
  <2>1. Len(v) - Len(u) + i \in 1..Len(v)
    BY <1>1 DEF IsSuffix
  <2>2. v[Len(v) - Len(u) + i] = w[Len(w) - Len(v) + (Len(v) - Len(u) + i)]
    BY <2>1 DEF IsSuffix
  <2>3. Len(w) - Len(v) + (Len(v) - Len(u) + i) = Len(w) - Len(u) + i
    BY <1>1
  <2> QED BY <2>2, <2>3 DEF IsSuffix
<1> QED BY <1>1, <1>2 DEF IsSuffix

\* Lemma: of two suffixes of a word the shorter is a suffix of the longer.
LEMMA SuffixOfSuffix ==
    ASSUME NEW S, NEW u \in Seq(S), NEW v \in Seq(S), NEW w \in Seq(S),
           IsSuffix(u, w), IsSuffix(v, w), Len(u) <= Len(v)
    PROVE  IsSuffix(u, v)
<1>1. Len(u) \in Nat /\ Len(v) \in Nat /\ Len(w) \in Nat
  BY LenProperties
<1>2. ASSUME NEW i \in 1..Len(u) PROVE u[i] = v[Len(v) - Len(u) + i]
  <2>1. Len(v) - Len(u) + i \in 1..Len(v)
    BY <1>1
  <2>2. v[Len(v) - Len(u) + i] = w[Len(w) - Len(v) + (Len(v) - Len(u) + i)]
    BY <2>1 DEF IsSuffix
  <2>3. Len(w) - Len(v) + (Len(v) - Len(u) + i) = Len(w) - Len(u) + i
    BY <1>1
  <2> QED BY <2>2, <2>3 DEF IsSuffix
<1> QED BY <1>2 DEF IsSuffix

\* Lemma: suffixes of the same length are the same.
LEMMA SuffixSame ==
    ASSUME NEW S, NEW u \in Seq(S), NEW v \in Seq(S), IsSuffix(u, v), Len(v) <= Len(u)
    PROVE  u = v
<1>1. Len(u) \in Nat /\ Len(v) \in Nat /\ Len(u) = Len(v)
  BY LenProperties DEF IsSuffix
<1>2. \A i \in 1..Len(u) : u[i] = v[i]
  <2>1. \A i \in 1..Len(u) : Len(v) - Len(u) + i = i
    BY <1>1
  <2> QED BY <2>1 DEF IsSuffix
<1> QED BY <1>1, <1>2, SeqEqual

\* Lemma: a word that is not empty is its front and its last byte.
LEMMA FrontAndLast ==
    ASSUME NEW S, NEW w \in Seq(S), w # <<>>
    PROVE  /\ Front(w) \in Seq(S) /\ Len(Front(w)) = Len(w) - 1 /\ Len(w) \in Nat \ {0}
           /\ w[Len(w)] \in S /\ w = Append(Front(w), w[Len(w)])
<1>1. PICK f \in Seq(S), b \in S : w = Append(f, b)
  BY SequenceEmptyOrAppend
<1>2. Len(f) \in Nat /\ Len(w) = Len(f) + 1 /\ w[Len(w)] = b /\ \A i \in 1..Len(f) : w[i] = f[i]
  BY <1>1, AppendProperties, LenProperties
<1>3. \A i \in 1..Len(f) : w[i] \in S
  BY <1>2, ElementOfSeq
<1>4. /\ Front(w) \in Seq(S) /\ Len(Front(w)) = Len(f)
      /\ \A i \in 1..Len(f) : Front(w)[i] = w[i]
  <2>1. Len(w) - 1 = Len(f) /\ Len(f) \in Int /\ 1 \in Int
    BY <1>2
  <2>2. /\ SubSeq(w, 1, Len(f)) \in Seq(S)
        /\ Len(SubSeq(w, 1, Len(f))) = IF 1 <= Len(f) THEN Len(f) - 1 + 1 ELSE 0
        /\ \A i \in 1..(Len(f) - 1 + 1) : SubSeq(w, 1, Len(f))[i] = w[1 + i - 1]
    BY <1>3, <2>1, SubSeqProperties
  <2> QED BY <1>2, <2>1, <2>2 DEF Front
<1>5. Front(w) = f
  BY <1>2, <1>4, SeqEqual
<1> QED BY <1>1, <1>2, <1>5

\* Lemma: words that end in the same byte are suffixes as their fronts are.
LEMMA SuffixAppend ==
    ASSUME NEW S, NEW u \in Seq(S), NEW w \in Seq(S), NEW b \in S, NEW c \in S
    PROVE  IsSuffix(Append(u, b), Append(w, c)) <=> IsSuffix(u, w) /\ b = c
<1> DEFINE x == Append(u, b)  y == Append(w, c)
<1>1. /\ Len(u) \in Nat /\ Len(w) \in Nat /\ Len(x) = Len(u) + 1 /\ Len(y) = Len(w) + 1
      /\ x[Len(u) + 1] = b /\ y[Len(w) + 1] = c
      /\ \A i \in 1..Len(u) : x[i] = u[i]
      /\ \A i \in 1..Len(w) : y[i] = w[i]
  BY LenProperties, AppendProperties
<1> HIDE DEF x, y
<1>2. ASSUME IsSuffix(x, y) PROVE IsSuffix(u, w) /\ b = c
  <2>1. Len(u) <= Len(w)
    BY <1>1, <1>2 DEF IsSuffix
  <2>2. ASSUME NEW i \in 1..Len(u) PROVE u[i] = w[Len(w) - Len(u) + i]
    <3>1. i \in 1..Len(x) /\ Len(y) - Len(x) + i = Len(w) - Len(u) + i
          /\ Len(w) - Len(u) + i \in 1..Len(w)
      BY <1>1, <2>1
    <3>2. x[i] = y[Len(y) - Len(x) + i]
      BY <1>2, <3>1 DEF IsSuffix
    <3> QED BY <1>1, <3>1, <3>2
  <2>3. b = c
    <3>1. Len(x) \in 1..Len(x) /\ Len(y) - Len(x) + Len(x) = Len(y)
      BY <1>1
    <3>2. x[Len(x)] = y[Len(y) - Len(x) + Len(x)]
      BY <1>2, <3>1 DEF IsSuffix
    <3> QED BY <1>1, <3>1, <3>2
  <2> QED BY <2>1, <2>2, <2>3 DEF IsSuffix
<1>3. ASSUME IsSuffix(u, w), b = c PROVE IsSuffix(x, y)
  <2>1. ASSUME NEW i \in 1..Len(x) PROVE x[i] = y[Len(y) - Len(x) + i]
    <3>1. CASE i = Len(x)
      <4>1. Len(y) - Len(x) + i = Len(y)
        BY <1>1, <3>1
      <4> QED BY <1>1, <1>3, <3>1, <4>1
    <3>2. CASE i # Len(x)
      <4>1. i \in 1..Len(u) /\ Len(y) - Len(x) + i = Len(w) - Len(u) + i
            /\ Len(w) - Len(u) + i \in 1..Len(w)
        BY <1>1, <1>3, <3>2 DEF IsSuffix
      <4>2. u[i] = w[Len(w) - Len(u) + i]
        BY <1>3, <4>1 DEF IsSuffix
      <4> QED BY <1>1, <4>1, <4>2
    <3> QED BY <3>1, <3>2
  <2>2. Len(x) <= Len(y)
    BY <1>1, <1>3 DEF IsSuffix
  <2> QED BY <2>1, <2>2 DEF IsSuffix
<1> QED BY <1>2, <1>3 DEF x, y

\* Lemma: the suffixes by which the reference is defined are these.
LEMMA SuffixIsSubSeq ==
    ASSUME NEW S, NEW u \in Seq(S), NEW w \in Seq(S)
    PROVE  u \in ProperSuffixes(w) \cup {w} <=> IsSuffix(u, w)
<1>1. Len(u) \in Nat /\ Len(w) \in Nat
  BY LenProperties
<1>2. ASSUME NEW k \in 1..(Len(w) + 1)
      PROVE  /\ SubSeq(w, k, Len(w)) \in Seq(S) /\ Len(SubSeq(w, k, Len(w))) = Len(w) - k + 1
             /\ \A i \in 1..(Len(w) - k + 1) : SubSeq(w, k, Len(w))[i] = w[k + i - 1]
  <2>1. k \in Int /\ Len(w) \in Int /\ \A i \in k..Len(w) : i \in 1..Len(w)
    BY <1>1
  <2>2. \A i \in k..Len(w) : w[i] \in S
    BY <2>1, ElementOfSeq
  <2>3. /\ SubSeq(w, k, Len(w)) \in Seq(S)
        /\ Len(SubSeq(w, k, Len(w))) = IF k <= Len(w) THEN Len(w) - k + 1 ELSE 0
        /\ \A i \in 1..(Len(w) - k + 1) : SubSeq(w, k, Len(w))[i] = w[k + i - 1]
    BY <2>1, <2>2, SubSeqProperties
  <2> QED BY <1>1, <2>3
<1>3. ASSUME NEW k \in 1..(Len(w) + 1) PROVE IsSuffix(SubSeq(w, k, Len(w)), w)
  <2> DEFINE v == SubSeq(w, k, Len(w))
  <2>1. Len(v) = Len(w) - k + 1 /\ \A i \in 1..Len(v) : v[i] = w[k + i - 1]
    BY <1>2
  <2>2. \A i \in 1..Len(v) : Len(w) - Len(v) + i = k + i - 1
    BY <1>1, <2>1
  <2> HIDE DEF v
  <2>3. IsSuffix(v, w)
    BY <1>1, <2>1, <2>2 DEF IsSuffix
  <2> QED BY <2>3 DEF v
<1>4. ASSUME IsSuffix(u, w) PROVE u = SubSeq(w, Len(w) - Len(u) + 1, Len(w))
  <2> DEFINE k == Len(w) - Len(u) + 1  v == SubSeq(w, k, Len(w))
  <2>1. k \in 1..(Len(w) + 1) /\ Len(w) - k + 1 = Len(u)
    BY <1>1, <1>4 DEF IsSuffix
  <2>2. v \in Seq(S) /\ Len(v) = Len(u) /\ \A i \in 1..Len(u) : v[i] = w[k + i - 1]
    <3> HIDE DEF k
    <3> QED BY <1>2, <2>1
  <2>3. \A i \in 1..Len(u) : k + i - 1 = Len(w) - Len(u) + i
    BY <1>1
  <2>4. \A i \in 1..Len(u) : u[i] = v[i]
    <3> HIDE DEF k, v
    <3> QED BY <1>4, <2>2, <2>3 DEF IsSuffix
  <2> QED BY <2>2, <2>4, SeqEqual
<1>5. ASSUME u \in ProperSuffixes(w) \cup {w} PROVE IsSuffix(u, w)
  <2>1. CASE u = w
    BY <2>1, SuffixEnds
  <2>2. CASE u \in ProperSuffixes(w)
    <3>1. PICK i \in 2..(Len(w) + 1) : u = SubSeq(w, i, Len(w))
      BY <2>2 DEF ProperSuffixes
    <3>2. i \in 1..(Len(w) + 1)
      BY <1>1, <3>1
    <3> QED BY <1>3, <3>1, <3>2
  <2> QED BY <1>5, <2>1, <2>2
<1>6. ASSUME IsSuffix(u, w), u # w PROVE u \in ProperSuffixes(w)
  <2>1. Len(u) < Len(w)
    BY <1>1, <1>6, SuffixSame DEF IsSuffix
  <2>2. Len(w) - Len(u) + 1 \in 2..(Len(w) + 1)
    BY <1>1, <2>1
  <2> QED BY <1>4, <1>6, <2>2 DEF ProperSuffixes
<1> QED BY <1>5, <1>6

-----------------------------------------------------------------------------
\* The walk along the failure links.

\* Lemma: a set of numbers that is not empty has a least one.
LEMMA LeastNumber ==
    ASSUME NEW S, S \subseteq Nat, S # {} PROVE \E x \in S : \A y \in S : x <= y
<1> DEFINE R == {ss \in Nat \X Nat : ss[1] < ss[2]}
<1>1. R = OpToRel(<, Nat)
  BY DEF OpToRel
<1>2. IsWellFoundedOn(R, Nat)
  BY <1>1, NatLessThanWellFounded, Zenon
<1>3. \A x, y \in Nat : <<y, x>> \in R <=> y < x
  OBVIOUS
<1> HIDE DEF R
<1>4. \E x \in S : \A y \in S : ~ (<<y, x>> \in R)
  BY <1>2, WFMin
<1>5. PICK x \in S : \A y \in S : ~ (<<y, x>> \in R)
  BY <1>4
<1>6. ASSUME NEW y \in S PROVE x <= y
  <2>1. x \in Nat /\ y \in Nat /\ ~ (<<y, x>> \in R)
    BY <1>5
  <2>2. ~ (y < x)
    BY <1>3, <2>1
  <2> QED BY <2>1, <2>2
<1> QED BY <1>6

\* w is where a loop that goes on from node to node arrives.
Arrives(w, N, Stop, next) == w = [m \in N |-> IF m \in Stop THEN m ELSE w[next[m]]]

\* Lemma: going on from node to node, each shorter than the last, has an end, so
\* the loop that does it defines a function of where it starts.
LEMMA LoopEnds ==
    ASSUME NEW N, NEW Stop, NEW next, NEW size \in [N -> Nat],
           NEW K \in Nat, \A m \in N : size[m] <= K,
           \A m \in N \ Stop : next[m] \in N /\ size[next[m]] < size[m]
    PROVE  \E w : Arrives(w, N, Stop, next)
<1> DEFINE Below(k) == {m \in N : size[m] < k}
           Loop(w, k) == w = [m \in Below(k) |-> IF m \in Stop THEN m ELSE w[next[m]]]
           Bad == {k \in Nat : ~ \E w : Loop(w, k)}
<1>1. Bad = {}
  <2>1. SUFFICES ASSUME Bad # {} PROVE FALSE
    OBVIOUS
  <2>2. PICK k \in Bad : \A l \in Bad : k <= l
    <3> Bad \subseteq Nat
      OBVIOUS
    <3> HIDE DEF Bad
    <3> QED BY <2>1, LeastNumber
  <2>3. k \in Nat /\ ~ \E w : Loop(w, k)
    OBVIOUS
  <2>4. CASE k = 0
    <3> DEFINE w == [m \in {} |-> m]
    <3>1. Below(k) = {}
      <4>1. \A m \in N : size[m] \in Nat
        OBVIOUS
      <4>2. \A m \in N : ~ (size[m] < 0)
        BY <4>1
      <4> QED BY <2>4, <4>2
    <3>2. Loop(w, k)
      BY <3>1
    <3> QED BY <2>3, <3>2
  <2>5. CASE k # 0
    <3>1. k - 1 \in Nat /\ k - 1 \notin Bad
      <4>1. k \in Nat \ {0}
        BY <2>3, <2>5
      <4> HIDE DEF Bad
      <4>2. \A l \in Bad : k <= l
        BY <2>2
      <4> QED BY <4>1, <4>2
    <3>2. PICK v : Loop(v, k - 1)
      BY <3>1
    <3> DEFINE w == [m \in Below(k) |->
                        IF m \in Stop THEN m
                        ELSE IF m \in Below(k - 1) THEN v[m] ELSE v[next[m]]]
    <3>3. ASSUME NEW m \in Below(k), m \notin Stop
          PROVE  next[m] \in Below(k - 1) /\ w[next[m]] = v[next[m]]
      <4>1. next[m] \in Below(k - 1) /\ next[m] \in Below(k)
        BY <2>3, <3>1, <3>3
      <4>2. v[next[m]] = IF next[m] \in Stop THEN next[m] ELSE v[next[next[m]]]
        BY <3>2, <4>1
      <4> HIDE DEF Below
      <4> QED BY <4>1, <4>2
    <3>4. ASSUME NEW m \in Below(k)
          PROVE  w[m] = IF m \in Stop THEN m ELSE w[next[m]]
      <4>1. CASE m \in Stop
        BY <4>1
      <4>2. CASE m \notin Stop /\ m \in Below(k - 1)
        <5>1. v[m] = v[next[m]]
          BY <3>2, <4>2
        <5> HIDE DEF Below
        <5> QED BY <3>3, <4>2, <5>1
      <4>3. CASE m \notin Stop /\ m \notin Below(k - 1)
        <5> HIDE DEF Below
        <5> QED BY <3>3, <4>3
      <4> QED BY <4>1, <4>2, <4>3
    <3>5. Loop(w, k)
      <4>1. w = [m \in Below(k) |-> w[m]]
        <5> HIDE DEF Below
        <5> QED OBVIOUS
      <4> HIDE DEF Below, w
      <4> QED BY <3>4, <4>1
    <3> QED BY <2>3, <3>5
  <2> QED BY <2>4, <2>5
<1>2. PICK w : Loop(w, K + 1)
  <2>1. K + 1 \in Nat /\ K + 1 \notin Bad
    <3> HIDE DEF Bad
    <3> QED BY <1>1
  <2> HIDE DEF Loop
  <2> QED BY <2>1
<1>3. Below(K + 1) = N
  <2>1. \A m \in N : size[m] \in Nat
    OBVIOUS
  <2>2. \A m \in N : size[m] < K + 1
    BY <2>1
  <2> QED BY <2>2
<1> QED BY <1>2, <1>3 DEF Arrives

-----------------------------------------------------------------------------
\* The inductive invariant.

\* The trie: finitely many words, with all their prefixes.
TrieInv ==
    /\ Root \in nodes /\ nodes \subseteq Seq(Bytes) /\ IsFiniteSet(nodes)
    /\ \A n \in nodes : Beginnings(n) \subseteq nodes
    /\ \E K \in Nat : \A n \in nodes : Len(n) <= K

TypeInv ==
    /\ output \in [nodes -> 0..MaxRules]
    /\ fail \in [nodes -> nodes \cup {NIL}] /\ dict \in [nodes -> nodes \cup {NIL}]
    /\ phase \in {"insert", "link", "scan", "done"}
    /\ node_idx \in nodes /\ answer \in 0..MaxRules
    /\ inserted \in Seq(Keywords) /\ Len(inserted) <= MaxRules
    /\ text \in Seq(Bytes)

\* A node is the end of the first rule with its word, or of none.
RulesInv ==
    /\ \A i \in 1..Len(inserted) : lower(inserted[i]) \in nodes \ {Root}
    /\ \A n \in nodes :
          /\ output[n] = NoClass => \A i \in 1..Len(inserted) : lower(inserted[i]) # n
          /\ output[n] # NoClass =>
                /\ output[n] \in 1..Len(inserted) /\ lower(inserted[output[n]]) = n
                /\ \A i \in 1..Len(inserted) : lower(inserted[i]) = n => output[n] <= i

\* The nodes that a walk from n can still meet, and those where a keyword ends.
Behind(n) == {u \in nodes : u # n /\ IsSuffix(u, n)}
Ends(n)   == {u \in Behind(n) : output[u] # NoClass}

FailRight(n) ==
    fail[n] \in Behind(n) \cap Linked /\ \A u \in Behind(n) : Len(u) <= Len(fail[n])

DictRight(n) ==
    /\ dict[n] = NIL => Ends(n) = {}
    /\ dict[n] # NIL => dict[n] \in Ends(n) /\ \A u \in Ends(n) : Len(u) <= Len(dict[n])

LinkInv ==
    /\ \A n \in Linked \ {Root} : FailRight(n)
    /\ \A n \in Linked : DictRight(n)
    /\ phase = "insert" => \A n \in nodes : fail[n] = NIL /\ dict[n] = NIL
    /\ phase \in {"scan", "done"} => Linked = nodes

\* The queue holds linked nodes whose children are not, by length; every node
\* that has no link waits for a shorter one in the queue.
Queued(n) == \E i \in 1..Len(to_visit) : to_visit[i] = n

LevelInv ==
    /\ to_visit \in Seq(Linked \ {Root})
    /\ phase # "link" => to_visit = <<>>
    /\ phase = "link" /\ to_visit = <<>> => Linked = nodes
    /\ \A i, j \in 1..Len(to_visit) :
          /\ i < j => Len(to_visit[i]) <= Len(to_visit[j])
          /\ Len(to_visit[j]) <= Len(to_visit[1]) + 1
    /\ phase = "link" /\ to_visit # <<>> => LET level == Len(to_visit[1]) IN
          /\ \A n \in nodes : Len(n) <= level => n \in Linked
          /\ \A n \in Linked : Len(n) <= level + 1 /\ (Len(n) = level + 1 => Queued(n))
          /\ \A n \in nodes \ Linked : Len(n) = level + 1 => Queued(Front(n))

\* The scan is at the longest suffix of the text in the trie, and no keyword has
\* ended before.
ScanInv ==
    /\ IsSuffix(node_idx, lower(text))
    /\ \A u \in nodes : IsSuffix(u, lower(text)) => Len(u) <= Len(node_idx)
    /\ phase = "done" => answer = EndsAt(node_idx) /\ answer # NoClass
    /\ phase # "done" =>
          \A u \in nodes : IsSuffix(u, lower(text)) => output[u] = NoClass

\* Up to the first byte there is nothing to find.
StartInv == phase \in {"insert", "link"} => text = <<>> /\ node_idx = Root /\ answer = NoClass

KCInv == TrieInv /\ TypeInv /\ RulesInv /\ LinkInv /\ LevelInv /\ ScanInv /\ StartInv

-----------------------------------------------------------------------------
\* What the walk finds.

\* Lemma: the nodes are words, the root is no longer than any, and the mark for
\* no link is not one of them.
LEMMA NodesAreWords ==
    ASSUME ClassifierAssumption, TrieInv
    PROVE  /\ \A n \in nodes : n \in Seq(Bytes) /\ Len(n) \in Nat /\ (n # Root => Len(n) > 0)
           /\ Root \in nodes /\ Len(Root) = 0 /\ NIL \notin nodes /\ NIL # Root
<1>1. \A n \in nodes : n \in Seq(Bytes)
  BY DEF TrieInv
<1>2. \A n \in nodes : Len(n) \in Nat /\ (n # Root => Len(n) > 0)
  BY <1>1, LenProperties, EmptySeq DEF Root
<1>3. NIL \notin nodes /\ NIL # Root
  BY <1>1, EmptySeq DEF ClassifierAssumption, Root
<1> QED BY <1>1, <1>2, <1>3, EmptySeq DEF TrieInv, Root

\* Lemma: the loop that follows the failure links ends.
LEMMA WalkUnfolds ==
    ASSUME ClassifierAssumption, TrieInv, LinkInv, NEW b
    PROVE  \A n \in Linked :
              Walk(n, b) = IF n = Root \/ HasChild(n, b) THEN n ELSE Walk(fail[n], b)
<1> DEFINE Stop == {m \in Linked : m = Root \/ HasChild(m, b)}
           size == [m \in Linked |-> Len(m)]
<1>1. size \in [Linked -> Nat]
  BY NodesAreWords DEF Linked
<1>2. PICK K \in Nat : \A m \in Linked : size[m] <= K
  BY DEF TrieInv, Linked
<1>3. \A m \in Linked \ Stop : fail[m] \in Linked /\ size[fail[m]] < size[m]
  <2> SUFFICES ASSUME NEW m \in Linked \ Stop
               PROVE  fail[m] \in Linked /\ size[fail[m]] < size[m]
    OBVIOUS
  <2>1. fail[m] \in Linked /\ fail[m] # m /\ IsSuffix(fail[m], m)
    BY DEF LinkInv, FailRight, Behind
  <2>2. m \in Seq(Bytes) /\ fail[m] \in Seq(Bytes)
    BY <2>1, NodesAreWords DEF Linked
  <2>3. Len(m) \in Nat /\ Len(fail[m]) \in Nat /\ ~ (Len(m) <= Len(fail[m]))
    BY <2>1, <2>2, SuffixSame, LenProperties
  <2> QED BY <2>1, <2>3
<1>4. \E w : Arrives(w, Linked, Stop, fail)
  <2> HIDE DEF Stop, size
  <2> QED BY <1>1, <1>2, <1>3, LoopEnds
<1> DEFINE walk == CHOOSE w : w = [m \in Linked |->
                                     IF m = Root \/ HasChild(m, b) THEN m ELSE w[fail[m]]]
<1>5. PICK v : v = [m \in Linked |-> IF m = Root \/ HasChild(m, b) THEN m ELSE v[fail[m]]]
  <2>1. PICK w : w = [m \in Linked |-> IF m \in Stop THEN m ELSE w[fail[m]]]
    BY <1>4 DEF Arrives
  <2>2. \A m \in Linked : m \in Stop <=> m = Root \/ HasChild(m, b)
    OBVIOUS
  <2> HIDE DEF Stop
  <2>3. w = [m \in Linked |-> IF m = Root \/ HasChild(m, b) THEN m ELSE w[fail[m]]]
    BY <2>1, <2>2
  <2> QED BY <2>3
<1>6. walk = [m \in Linked |-> IF m = Root \/ HasChild(m, b) THEN m ELSE walk[fail[m]]]
  BY <1>5
<1>7. \A m : Walk(m, b) = walk[m]
  BY DEF Walk
<1> HIDE DEF walk, Stop, size
<1> QED BY <1>6, <1>7

\* Lemma: the walk ends at the longest suffix that has the child, or the root.
LEMMA WalkRight ==
    ASSUME ClassifierAssumption, TrieInv, LinkInv, NEW n \in Linked, NEW b
    PROVE  LET r == Walk(n, b) IN
           /\ r \in nodes /\ IsSuffix(r, n) /\ (r = Root \/ HasChild(r, b))
           /\ \A u \in nodes : IsSuffix(u, n) /\ HasChild(u, b) => Len(u) <= Len(r)
<1> DEFINE Right(m) ==
              /\ Walk(m, b) \in nodes /\ IsSuffix(Walk(m, b), m)
              /\ Walk(m, b) = Root \/ HasChild(Walk(m, b), b)
              /\ \A u \in nodes :
                    IsSuffix(u, m) /\ HasChild(u, b) => Len(u) <= Len(Walk(m, b))
           Wrong == {Len(m) : m \in {m \in Linked : ~ Right(m)}}
<1> SUFFICES Right(n)
  OBVIOUS
<1>1. SUFFICES ASSUME Wrong # {} PROVE FALSE
  <2> HIDE DEF Right
  <2> QED OBVIOUS
<1>2. Wrong \subseteq Nat
  <2> HIDE DEF Right
  <2> QED BY NodesAreWords DEF Linked
<1>3. PICK k \in Wrong : \A l \in Wrong : k <= l
  <2> HIDE DEF Wrong
  <2> QED BY <1>1, <1>2, LeastNumber
<1>4. PICK m \in Linked : ~ Right(m) /\ Len(m) = k
  <2> HIDE DEF Right
  <2> QED BY <1>3
<1>5. ASSUME NEW l \in Linked, Len(l) < Len(m) PROVE Right(l)
  <2>1. Len(l) \in Nat /\ Len(m) \in Nat
    BY NodesAreWords DEF Linked
  <2>2. Len(l) \notin Wrong
    <3> HIDE DEF Wrong
    <3> QED BY <1>3, <1>4, <1>5, <2>1
  <2> HIDE DEF Right
  <2> QED BY <2>2
<1>6. m \in nodes /\ m \in Seq(Bytes)
  BY NodesAreWords DEF Linked
<1>7. CASE m = Root \/ HasChild(m, b)
  <2>1. Walk(m, b) = m
    BY <1>7, WalkUnfolds
  <2>2. \A u \in nodes : IsSuffix(u, m) => Len(u) <= Len(m)
    BY DEF IsSuffix
  <2> QED BY <1>4, <1>6, <1>7, <2>1, <2>2, SuffixEnds
<1>8. CASE ~ (m = Root \/ HasChild(m, b))
  <2> DEFINE f == fail[m]
  <2>1. Walk(m, b) = Walk(f, b)
    BY <1>8, WalkUnfolds
  <2>2. /\ f \in Linked /\ f # m /\ IsSuffix(f, m)
        /\ \A u \in nodes : u # m /\ IsSuffix(u, m) => Len(u) <= Len(f)
    BY <1>8 DEF LinkInv, FailRight, Behind
  <2> HIDE DEF f
  <2>3. f \in Seq(Bytes) /\ Len(f) \in Nat /\ Len(m) \in Nat
    BY <1>6, <2>2, NodesAreWords DEF Linked
  <2>4. Len(f) < Len(m)
    BY <1>6, <2>2, <2>3, SuffixSame
  <2>5. Right(f)
    BY <1>5, <2>2, <2>4
  <2>6. IsSuffix(Walk(m, b), m)
    <3>1. Walk(f, b) \in Seq(Bytes) /\ IsSuffix(Walk(f, b), f)
      BY <2>5, NodesAreWords
    <3> QED BY <1>6, <2>1, <2>2, <2>3, <3>1, SuffixTransitive
  <2>7. ASSUME NEW u \in nodes, IsSuffix(u, m), HasChild(u, b)
        PROVE  Len(u) <= Len(Walk(m, b))
    <3>1. u # m /\ u \in Seq(Bytes)
      BY <1>8, <2>7, NodesAreWords
    <3>2. IsSuffix(u, f)
      BY <1>6, <2>2, <2>3, <2>7, <3>1, SuffixOfSuffix
    <3> QED BY <2>1, <2>5, <2>7, <3>2
  <2>8. Right(m)
    BY <2>1, <2>5, <2>6, <2>7
  <2> QED BY <1>4, <2>8
<1> QED BY <1>7, <1>8

\* Lemma: one byte on, that is the longest suffix in the trie.
LEMMA StepRight ==
    ASSUME ClassifierAssumption, TrieInv, LinkInv, NEW n \in Linked, NEW b \in Bytes
    PROVE  LET x == Step(Walk(n, b), b) IN
           /\ x \in nodes /\ IsSuffix(x, Append(n, b))
           /\ \A u \in nodes : IsSuffix(u, Append(n, b)) => Len(u) <= Len(x)
<1> DEFINE r == Walk(n, b)  x == Step(r, b)
<1>1. /\ r \in nodes /\ IsSuffix(r, n) /\ (r = Root \/ HasChild(r, b))
      /\ \A u \in nodes : IsSuffix(u, n) /\ HasChild(u, b) => Len(u) <= Len(r)
  BY WalkRight
<1> HIDE DEF r
<1>2. n \in Seq(Bytes) /\ r \in Seq(Bytes) /\ Append(n, b) \in Seq(Bytes) /\ Len(r) \in Nat
  <2>1. n \in Seq(Bytes) /\ r \in Seq(Bytes) /\ Len(r) \in Nat
    BY <1>1, NodesAreWords DEF Linked
  <2> QED BY <2>1, AppendProperties
<1>3. x = IF HasChild(r, b) THEN Append(r, b) ELSE Root
  BY DEF Step
<1> HIDE DEF x
<1>4. x \in nodes
  BY <1>1, <1>3, NodesAreWords DEF HasChild
<1>5. IsSuffix(x, Append(n, b))
  <2>1. CASE HasChild(r, b)
    BY <1>1, <1>2, <1>3, <2>1, SuffixAppend
  <2>2. CASE ~ HasChild(r, b)
    BY <1>2, <1>3, <2>2, SuffixEnds DEF Root
  <2> QED BY <2>1, <2>2
<1>6. ASSUME NEW v \in nodes, IsSuffix(v, Append(n, b)) PROVE Len(v) <= Len(x)
  <2>0. v \in Seq(Bytes) /\ Len(v) \in Nat /\ Len(x) \in Nat
    BY <1>4, NodesAreWords
  <2>1. CASE v = Root
    BY <2>0, <2>1, NodesAreWords
  <2>2. CASE v # Root
    <3> DEFINE u == Front(v)  c == v[Len(v)]
    <3>1. /\ u \in Seq(Bytes) /\ Len(u) = Len(v) - 1 /\ Len(v) \in Nat \ {0}
          /\ c \in Bytes /\ v = Append(u, c)
      BY <2>0, <2>2, FrontAndLast DEF Root
    <3>2. u \in nodes
      <4>1. Len(v) - 1 \in 0..Len(v)
        BY <3>1
      <4> QED BY <4>1 DEF TrieInv, Beginnings, Front
    <3> HIDE DEF u, c
    <3>3. IsSuffix(u, n) /\ c = b
      BY <1>2, <1>6, <3>1, SuffixAppend
    <3>4. HasChild(u, b)
      BY <3>1, <3>3 DEF HasChild
    <3>5. Len(u) <= Len(r)
      BY <1>1, <3>2, <3>3, <3>4
    <3>6. CASE HasChild(r, b)
      BY <1>2, <1>3, <3>1, <3>5, <3>6, AppendProperties
    <3>7. CASE ~ HasChild(r, b)
      <4>1. r = Root /\ Len(u) = 0
        BY <1>1, <3>1, <3>5, <3>7, NodesAreWords
      <4>2. u = Root
        BY <3>1, <4>1, EmptySeq DEF Root
      <4> QED BY <3>4, <3>7, <4>1, <4>2
    <3> QED BY <3>6, <3>7
  <2> QED BY <2>1, <2>2
<1> QED BY <1>4, <1>5, <1>6 DEF x, r

-----------------------------------------------------------------------------
\* What the links of a child are.

\* Lemma: what is behind a node is shorter, and is behind or is the longest there.
LEMMA BehindLongest ==
    ASSUME ClassifierAssumption, TrieInv, NEW m \in nodes, NEW x \in Behind(m),
           \A u \in Behind(m) : Len(u) <= Len(x)
    PROVE  /\ Behind(m) = Behind(x) \cup {x}
           /\ Len(x) < Len(m)
<1>1. /\ m \in Seq(Bytes) /\ x \in nodes /\ x \in Seq(Bytes) /\ Len(m) \in Nat /\ Len(x) \in Nat
      /\ IsSuffix(x, m) /\ x # m
  BY NodesAreWords DEF Behind
<1>2. Len(x) < Len(m)
  BY <1>1, SuffixSame
<1>3. ASSUME NEW u \in Behind(m), u # x PROVE u \in Behind(x)
  <2>1. u \in nodes /\ u \in Seq(Bytes) /\ IsSuffix(u, m) /\ Len(u) <= Len(x)
    BY <1>3, NodesAreWords DEF Behind
  <2>2. IsSuffix(u, x)
    BY <1>1, <2>1, SuffixOfSuffix
  <2> QED BY <1>3, <2>1, <2>2 DEF Behind
<1>4. ASSUME NEW u \in Behind(x) PROVE u \in Behind(m)
  <2>1. u \in nodes /\ u \in Seq(Bytes) /\ IsSuffix(u, x) /\ Len(u) \in Nat
    BY NodesAreWords DEF Behind
  <2>2. IsSuffix(u, m)
    BY <1>1, <2>1, SuffixTransitive
  <2>3. u # m
    BY <1>1, <1>2, <2>1 DEF IsSuffix
  <2> QED BY <2>1, <2>2, <2>3 DEF Behind
<1> QED BY <1>2, <1>3, <1>4

\* Lemma: the failure link of the child of n by b.
LEMMA FailOfRight ==
    ASSUME ClassifierAssumption, TrieInv, LinkInv,
           NEW n \in Linked \ {Root}, NEW b \in Bytes, Append(n, b) \in nodes
    PROVE  /\ FailOf(n, b) \in Behind(Append(n, b))
           /\ \A u \in Behind(Append(n, b)) : Len(u) <= Len(FailOf(n, b))
<1> DEFINE m == Append(n, b)  f == fail[n]  x == FailOf(n, b)
<1>1. f \in Behind(n) /\ f \in Linked /\ \A u \in Behind(n) : Len(u) <= Len(f)
  BY DEF LinkInv, FailRight
<1>2. x \in nodes /\ IsSuffix(x, Append(f, b))
      /\ \A u \in nodes : IsSuffix(u, Append(f, b)) => Len(u) <= Len(x)
  BY <1>1, StepRight DEF FailOf
<1>3. /\ n \in nodes /\ n \in Seq(Bytes) /\ f \in Seq(Bytes) /\ x \in Seq(Bytes)
      /\ Len(n) \in Nat /\ Len(f) \in Nat /\ Len(x) \in Nat
      /\ IsSuffix(f, n) /\ Len(f) < Len(n)
  BY <1>1, <1>2, NodesAreWords, BehindLongest DEF Behind, Linked
<1> HIDE DEF f, x
<1>4. /\ m \in Seq(Bytes) /\ Len(m) = Len(n) + 1
      /\ Append(f, b) \in Seq(Bytes) /\ Len(Append(f, b)) = Len(f) + 1
  BY <1>3, AppendProperties
<1>5. IsSuffix(Append(f, b), m)
  BY <1>3, SuffixAppend
<1>6. IsSuffix(x, m)
  BY <1>2, <1>3, <1>4, <1>5, SuffixTransitive
<1>7. x # m
  BY <1>2, <1>3, <1>4 DEF IsSuffix
<1>8. ASSUME NEW v \in Behind(m) PROVE Len(v) <= Len(x)
  <2>0. v \in nodes /\ v \in Seq(Bytes) /\ Len(v) \in Nat /\ IsSuffix(v, m) /\ v # m
    BY NodesAreWords DEF Behind
  <2>1. CASE v = Root
    BY <1>3, <2>1, NodesAreWords
  <2>2. CASE v # Root
    <3> DEFINE u == Front(v)  c == v[Len(v)]
    <3>1. /\ u \in Seq(Bytes) /\ Len(u) = Len(v) - 1 /\ Len(v) \in Nat \ {0}
          /\ c \in Bytes /\ v = Append(u, c)
      BY <2>0, <2>2, FrontAndLast DEF Root
    <3>2. u \in nodes
      <4>1. Len(v) - 1 \in 0..Len(v)
        BY <3>1
      <4> QED BY <2>0, <4>1 DEF TrieInv, Beginnings, Front
    <3> HIDE DEF u, c
    <3>3. IsSuffix(u, n) /\ c = b
      BY <1>3, <2>0, <3>1, SuffixAppend
    <3>4. u \in Behind(n)
      BY <2>0, <3>1, <3>2, <3>3 DEF Behind
    <3>5. IsSuffix(u, f)
      BY <1>1, <1>3, <3>1, <3>3, <3>4, SuffixOfSuffix
    <3>6. IsSuffix(v, Append(f, b))
      BY <1>3, <3>1, <3>3, <3>5, SuffixAppend
    <3> QED BY <1>2, <2>0, <3>6
  <2> QED BY <2>1, <2>2
<1> QED BY <1>2, <1>6, <1>7, <1>8 DEF Behind, x

\* d is the dictionary link n should have.
Leads(d, n) ==
    /\ d = NIL => Ends(n) = {}
    /\ d # NIL => d \in Ends(n) /\ \A u \in Ends(n) : Len(u) <= Len(d)

\* Lemma: the dictionary link of a node whose failure link is x.
LEMMA DictOfRight ==
    ASSUME ClassifierAssumption, TrieInv, NEW m \in nodes, NEW x \in Behind(m),
           \A u \in Behind(m) : Len(u) <= Len(x), DictRight(x)
    PROVE  Leads(DictOf(x), m)
<1>1. x \in nodes /\ Behind(m) = Behind(x) \cup {x}
  BY BehindLongest DEF Behind
<1>2. CASE output[x] # NoClass
  <2>1. DictOf(x) = x /\ x # NIL /\ x \in Ends(m)
    BY <1>1, <1>2, NodesAreWords DEF DictOf, Ends
  <2> QED BY <2>1 DEF Leads, Ends
<1>3. CASE output[x] = NoClass
  <2>1. DictOf(x) = dict[x] /\ Ends(m) = Ends(x)
    BY <1>1, <1>3 DEF DictOf, Ends
  <2> QED BY <2>1 DEF Leads, DictRight
<1> QED BY <1>2, <1>3

-----------------------------------------------------------------------------
\* Prefixes and lower case.

\* Lemma: the prefixes of a word.
LEMMA PrefixProperties ==
    ASSUME NEW S, NEW w \in Seq(S)
    PROVE  /\ w \in Beginnings(w) /\ <<>> \in Beginnings(w)
           /\ Beginnings(w) \subseteq Seq(S) /\ IsFiniteSet(Beginnings(w))
           /\ \A v \in Beginnings(w) : Beginnings(v) \subseteq Beginnings(w) /\ Len(v) <= Len(w)
<1>1. Len(w) \in Nat
  BY LenProperties
<1>2. ASSUME NEW k \in 0..Len(w)
      PROVE  /\ SubSeq(w, 1, k) \in Seq(S) /\ Len(SubSeq(w, 1, k)) = k
             /\ \A i \in 1..k : SubSeq(w, 1, k)[i] = w[i]
  <2>1. k \in Int /\ 1 \in Int /\ \A i \in 1..k : i \in 1..Len(w)
    BY <1>1
  <2>2. \A i \in 1..k : w[i] \in S
    BY <2>1, ElementOfSeq
  <2>3. /\ SubSeq(w, 1, k) \in Seq(S)
        /\ Len(SubSeq(w, 1, k)) = IF 1 <= k THEN k - 1 + 1 ELSE 0
        /\ \A i \in 1..(k - 1 + 1) : SubSeq(w, 1, k)[i] = w[1 + i - 1]
    BY <2>1, <2>2, SubSeqProperties
  <2>4. Len(SubSeq(w, 1, k)) = k
    BY <1>1, <2>3
  <2>5. \A i \in 1..k : i \in 1..(k - 1 + 1) /\ 1 + i - 1 = i
    BY <1>1
  <2> QED BY <2>3, <2>4, <2>5
<1>3. w \in Beginnings(w)
  <2>1. Len(w) \in 0..Len(w)
    BY <1>1
  <2> QED BY <2>1, SubSeqFull DEF Beginnings
<1>4. <<>> \in Beginnings(w)
  <2>1. 0 \in 0..Len(w) /\ SubSeq(w, 1, 0) = <<>>
    BY <1>1, SubSeqEmpty
  <2> QED BY <2>1 DEF Beginnings
<1>5. Beginnings(w) \subseteq Seq(S)
  BY <1>2 DEF Beginnings
<1>6. IsFiniteSet(Beginnings(w))
  <2> DEFINE f == [i \in 0..Len(w) |-> SubSeq(w, 1, i)]
  <2>1. IsFiniteSet(0..Len(w))
    BY <1>1, FS_Interval
  <2>2. f \in Surjection(0..Len(w), Beginnings(w))
    BY DEF Surjection, Beginnings
  <2> HIDE DEF f
  <2> QED BY <2>1, <2>2, FS_Surjection
<1>7. ASSUME NEW v \in Beginnings(w) PROVE Beginnings(v) \subseteq Beginnings(w) /\ Len(v) <= Len(w)
  <2>1. PICK k \in 0..Len(w) : v = SubSeq(w, 1, k)
    BY DEF Beginnings
  <2>2. v \in Seq(S) /\ Len(v) = k /\ \A i \in 1..k : v[i] = w[i]
    BY <1>2, <2>1
  <2>3. ASSUME NEW j \in 0..k PROVE SubSeq(v, 1, j) = SubSeq(w, 1, j)
    <3>1. j \in 0..Len(w) /\ \A i \in 1..j : i \in 1..k /\ i \in 1..Len(v)
      BY <1>1, <2>2
    <3>2. /\ SubSeq(w, 1, j) \in Seq(S) /\ Len(SubSeq(w, 1, j)) = j
          /\ \A i \in 1..j : SubSeq(w, 1, j)[i] = w[i]
      BY <1>2, <3>1
    <3>3. /\ SubSeq(v, 1, j) \in Seq(S) /\ Len(SubSeq(v, 1, j)) = j
          /\ \A i \in 1..j : SubSeq(v, 1, j)[i] = v[i]
      <4>1. j \in Int /\ 1 \in Int /\ \A i \in 1..j : v[i] \in S
        BY <1>1, <2>2, <3>1, ElementOfSeq
      <4>2. /\ SubSeq(v, 1, j) \in Seq(S)
            /\ Len(SubSeq(v, 1, j)) = IF 1 <= j THEN j - 1 + 1 ELSE 0
            /\ \A i \in 1..(j - 1 + 1) : SubSeq(v, 1, j)[i] = v[1 + i - 1]
        BY <4>1, SubSeqProperties
      <4>3. Len(SubSeq(v, 1, j)) = j
        BY <1>1, <4>2
      <4>4. \A i \in 1..j : i \in 1..(j - 1 + 1) /\ 1 + i - 1 = i
        BY <1>1
      <4> QED BY <4>2, <4>3, <4>4
    <3> QED BY <2>2, <3>1, <3>2, <3>3, SeqEqual
  <2>4. \A j \in 0..Len(v) : j \in 0..k /\ j \in 0..Len(w)
    BY <1>1, <2>2
  <2>5. Beginnings(v) \subseteq Beginnings(w)
    BY <2>3, <2>4 DEF Beginnings
  <2> QED BY <1>1, <2>2, <2>5
<1> QED BY <1>3, <1>4, <1>5, <1>6, <1>7

\* Lemma: lower case keeps the length of a word.
LEMMA LowerProperties ==
    ASSUME ClassifierAssumption, NEW w \in Seq(Bytes)
    PROVE  /\ lower(w) \in Seq(Bytes) /\ Len(lower(w)) = Len(w)
           /\ \A i \in 1..Len(w) : lower(w)[i] = lowercase[w[i]]
<1>1. Len(w) \in Nat /\ DOMAIN w = 1..Len(w) /\ \A i \in 1..Len(w) : w[i] \in Bytes
  BY LenProperties, ElementOfSeq
<1>2. lower(w) = [i \in 1..Len(w) |-> lowercase[w[i]]]
  BY <1>1 DEF lower
<1>3. lower(w) \in [1..Len(w) -> Bytes]
  BY <1>1, <1>2 DEF ClassifierAssumption
<1> QED BY <1>1, <1>2, <1>3

\* Lemma: one byte after the other.
LEMMA LowerAppend ==
    ASSUME ClassifierAssumption, NEW w \in Seq(Bytes), NEW b \in Bytes
    PROVE  lower(Append(w, b)) = Append(lower(w), lowercase[b])
<1> DEFINE s == lower(Append(w, b))  t == Append(lower(w), lowercase[b])
<1>1. /\ Len(w) \in Nat /\ lower(w) \in Seq(Bytes) /\ Len(lower(w)) = Len(w)
      /\ \A i \in 1..Len(w) : lower(w)[i] = lowercase[w[i]]
      /\ lowercase[b] \in Bytes
  BY LenProperties, LowerProperties DEF ClassifierAssumption
<1>2. /\ Append(w, b) \in Seq(Bytes) /\ Len(Append(w, b)) = Len(w) + 1
      /\ \A i \in 1..Len(w) : Append(w, b)[i] = w[i]
      /\ Append(w, b)[Len(w) + 1] = b
  BY AppendProperties
<1>3. /\ s \in Seq(Bytes) /\ Len(s) = Len(w) + 1
      /\ \A i \in 1..(Len(w) + 1) : s[i] = lowercase[Append(w, b)[i]]
  BY <1>2, LowerProperties
<1>4. /\ t \in Seq(Bytes) /\ Len(t) = Len(w) + 1 /\ t[Len(w) + 1] = lowercase[b]
      /\ \A i \in 1..Len(w) : t[i] = lower(w)[i]
  BY <1>1, AppendProperties
<1> HIDE DEF s, t
<1>5. ASSUME NEW i \in 1..Len(s) PROVE s[i] = t[i]
  <2>1. CASE i = Len(w) + 1
    BY <1>1, <1>2, <1>3, <1>4, <2>1
  <2>2. CASE i # Len(w) + 1
    <3>1. i \in 1..Len(w) /\ i \in 1..(Len(w) + 1)
      BY <1>1, <1>3, <2>2
    <3> QED BY <1>1, <1>2, <1>3, <1>4, <3>1
  <2> QED BY <2>1, <2>2
<1>6. s = t
  BY <1>3, <1>4, <1>5, SeqEqual
<1> QED BY <1>6 DEF s, t


\* Lemma: what is no longer than the empty word.
LEMMA EmptyWord ==
    ASSUME NEW S
    PROVE  /\ <<>> \in Seq(S) /\ Len(<<>>) = 0
           /\ \A u \in Seq(S) : Len(u) = 0 \/ IsSuffix(u, <<>>) => u = <<>>
<1>1. \A u \in Seq(S) : Len(u) \in Nat /\ (u # <<>> => Len(u) # 0)
  BY EmptySeq, LenProperties
<1> QED BY <1>1, EmptySeq DEF IsSuffix

\* Lemma: the lower case of nothing.
LEMMA LowerEmpty ==
    ASSUME ClassifierAssumption PROVE lower(<<>>) = <<>>
BY EmptyWord, LowerProperties

\* Lemma: a front in the trie.
LEMMA FrontIsNode ==
    ASSUME TrieInv, NEW m \in nodes, m # Root
    PROVE  /\ Front(m) \in nodes /\ Len(Front(m)) = Len(m) - 1 /\ Len(m) \in Nat \ {0}
           /\ m[Len(m)] \in Bytes /\ m = Append(Front(m), m[Len(m)])
<1>1. m \in Seq(Bytes) /\ Beginnings(m) \subseteq nodes
  BY DEF TrieInv
<1>2. /\ Len(Front(m)) = Len(m) - 1 /\ Len(m) \in Nat \ {0}
      /\ m[Len(m)] \in Bytes /\ m = Append(Front(m), m[Len(m)])
  BY <1>1, FrontAndLast DEF Root
<1>3. Len(m) - 1 \in 0..Len(m)
  BY <1>2
<1>4. Front(m) \in Beginnings(m)
  BY <1>3 DEF Front, Beginnings
<1> QED BY <1>1, <1>2, <1>4

\* Lemma: and a prefix of any length.
LEMMA PrefixIsNode ==
    ASSUME TrieInv, NEW m \in nodes, NEW k \in 0..Len(m)
    PROVE  SubSeq(m, 1, k) \in nodes /\ Len(SubSeq(m, 1, k)) = k
<1>1. m \in Seq(Bytes) /\ Beginnings(m) \subseteq nodes
  BY DEF TrieInv
<1>2. SubSeq(m, 1, k) \in nodes
  BY <1>1 DEF Beginnings
<1>3. Len(m) \in Nat /\ k \in Int /\ 1 \in Int /\ \A i \in 1..k : i \in 1..Len(m)
  BY <1>1, LenProperties
<1>4. \A i \in 1..k : m[i] \in Bytes
  BY <1>1, <1>3, ElementOfSeq
<1>5. Len(SubSeq(m, 1, k)) = IF 1 <= k THEN k - 1 + 1 ELSE 0
  BY <1>3, <1>4, SubSeqProperties
<1> QED BY <1>2, <1>3, <1>5

\* Lemma: the children of a node are those whose front it is.
LEMMA ChildrenAre ==
    ASSUME TrieInv, NEW n \in nodes
    PROVE  /\ \A m : m \in Children(n) <=> m \in nodes /\ m # Root /\ Front(m) = n
           /\ \A m \in Children(n) : Len(m) = Len(n) + 1 /\ m = Append(n, m[Len(m)])
           /\ IsFiniteSet(Children(n))
<1>1. Len(n) \in Nat /\ Len(Root) = 0
  BY LenProperties, EmptySeq DEF TrieInv, Root
<1>2. ASSUME NEW m \in Children(n) PROVE m \in nodes /\ m # Root /\ Front(m) = n
  <2>1. m \in nodes /\ Len(m) = Len(n) + 1 /\ SubSeq(m, 1, Len(n)) = n
    BY DEF Children
  <2>2. Len(m) - 1 = Len(n)
    BY <1>1, <2>1
  <2> QED BY <1>1, <2>1, <2>2 DEF Front
<1>3. ASSUME NEW m \in nodes, m # Root, Front(m) = n PROVE m \in Children(n)
  <2>1. Len(m) - 1 = Len(n) /\ Len(m) = Len(n) + 1
    BY <1>1, <1>3, FrontIsNode
  <2> QED BY <1>3, <2>1 DEF Children, Front
<1>4. ASSUME NEW m \in Children(n) PROVE Len(m) = Len(n) + 1 /\ m = Append(n, m[Len(m)])
  BY <1>2, FrontIsNode DEF Children
<1>5. IsFiniteSet(Children(n))
  BY FS_Subset DEF Children, TrieInv
<1> QED BY <1>2, <1>3, <1>4, <1>5

\* Lemma: an order of a finite set is a sequence of all its elements.
LEMMA OrdersAreSequences ==
    ASSUME NEW S, IsFiniteSet(S), NEW s \in Orders(S)
    PROVE  s \in Seq(S) /\ \A m \in S : \E i \in 1..Len(s) : s[i] = m
<1>1. Cardinality(S) \in Nat
  BY FS_CardinalityType
<1>2. /\ s \in [1..Cardinality(S) -> S] /\ DOMAIN s = 1..Cardinality(S)
      /\ \A m \in S : \E i \in DOMAIN s : s[i] = m
  BY DEF Orders
<1>3. s \in Seq(S)
  BY <1>1, <1>2
<1>4. DOMAIN s = 1..Len(s)
  BY <1>3, LenProperties
<1> QED BY <1>2, <1>3, <1>4

-----------------------------------------------------------------------------
\* The invariant is inductive: building the trie.

\* Lemma: the first state.
LEMMA ClassifierStarts ==
    ASSUME ClassifierAssumption, ClassifierInit PROVE KCInv
<1> USE DEF ClassifierInit
<1>1. nodes = {Root} /\ Root = <<>> /\ Len(<<>>) = 0 /\ NIL # Root
  BY EmptySeq DEF ClassifierAssumption, Root
<1>2. Beginnings(Root) = {Root}
  <2>1. Beginnings(Root) \subseteq {Root}
    <3> SUFFICES ASSUME NEW v \in Beginnings(Root) PROVE v = Root
      OBVIOUS
    <3>1. v \in Seq(Bytes) /\ Len(v) <= 0 /\ Len(v) \in Nat
      BY <1>1, EmptyWord, PrefixProperties, LenProperties
    <3>2. Len(v) = 0
      BY <3>1
    <3> QED BY <1>1, <3>1, <3>2, EmptyWord
  <2>2. Root \in Seq(Bytes)
    BY <1>1, EmptyWord
  <2>3. Root \in Beginnings(Root)
    BY <2>2, PrefixProperties
  <2> QED BY <2>1, <2>3
<1>3. TrieInv
  <2>1. IsFiniteSet(nodes) /\ nodes \subseteq Seq(Bytes)
    <3>1. Root \in Seq(Bytes)
      BY <1>1, EmptyWord
    <3> QED BY <1>1, <3>1, FS_Singleton
  <2>2. 0 \in Nat /\ \A n \in nodes : Len(n) <= 0
    BY <1>1
  <2> QED BY <1>1, <1>2, <2>1, <2>2 DEF TrieInv
<1>4. TypeInv
  BY <1>1, EmptyWord DEF TypeInv, ClassifierAssumption, NoClass
<1>5. RulesInv
  <2>1. 1..Len(inserted) = {} /\ \A n \in nodes : output[n] = NoClass
    BY <1>1
  <2> QED BY <2>1 DEF RulesInv
<1>6. Linked = {Root} /\ Ends(Root) = {}
  BY <1>1 DEF Linked, Ends, Behind
<1>7. LinkInv
  BY <1>1, <1>6 DEF LinkInv, DictRight
<1>8. LevelInv
  <2>1. 1..Len(to_visit) = {}
    BY <1>1
  <2> QED BY <2>1, EmptyWord DEF LevelInv
<1>9. ScanInv
  <2>1. lower(text) = Root
    BY <1>1, LowerEmpty
  <2>2. IsSuffix(Root, Root)
    BY <1>1, EmptyWord, SuffixEnds
  <2> QED BY <1>1, <2>1, <2>2 DEF ScanInv
<1> QED BY <1>3, <1>4, <1>5, <1>7, <1>8, <1>9 DEF KCInv, StartInv

\* Lemma: a keyword more.
LEMMA AddRuleStep ==
    ASSUME ClassifierAssumption, KCInv, NEW word \in Keywords, AddRule(word)
    PROVE  KCInv'
<1> USE DEF KCInv
<1> DEFINE w == lower(word)  c == Len(inserted) + 1
           old(n) == IF n \in nodes THEN output[n] ELSE NoClass
<1>1. word \in Seq(Bytes) /\ w \in Seq(Bytes) /\ w # Root /\ Len(w) \in Nat
  <2>1. word \in Seq(Bytes) /\ word # <<>>
    BY DEF ClassifierAssumption
  <2>2. w \in Seq(Bytes) /\ Len(w) = Len(word) /\ Len(word) # 0
    BY <2>1, EmptyWord, LowerProperties
  <2> QED BY <2>1, <2>2, EmptyWord, LenProperties DEF Root
<1>2. /\ nodes' = nodes \cup Beginnings(w)
      /\ output' = [Grown(output, nodes', NoClass) EXCEPT ![w] = IF @ = NoClass THEN c ELSE @]
      /\ fail' = Grown(fail, nodes', NIL) /\ dict' = Grown(dict, nodes', NIL)
      /\ phase = "insert" /\ phase' = "insert" /\ to_visit' = to_visit
      /\ node_idx' = node_idx /\ answer' = answer /\ text' = text
      /\ inserted' = Append(inserted, word)
      /\ Len(inserted) < MaxRules
  BY DEF AddRule, insert
<1>3. /\ w \in Beginnings(w) /\ Beginnings(w) \subseteq Seq(Bytes) /\ IsFiniteSet(Beginnings(w))
      /\ \A v \in Beginnings(w) : Beginnings(v) \subseteq Beginnings(w) /\ Len(v) <= Len(w)
  BY <1>1, PrefixProperties
<1>4. /\ Len(inserted) \in Nat /\ c \in 1..MaxRules /\ c # NoClass
      /\ inserted' \in Seq(Keywords) /\ Len(inserted') = c
      /\ inserted'[c] = word /\ \A i \in 1..Len(inserted) : inserted'[i] = inserted[i]
  <2>1. Len(inserted) \in Nat /\ MaxRules \in Nat
    BY LenProperties DEF TypeInv, ClassifierAssumption
  <2> QED BY <1>2, <2>1, AppendProperties DEF TypeInv, NoClass
<1>5. /\ output' = [n \in nodes' |-> IF n = w /\ old(n) = NoClass THEN c ELSE old(n)]
      /\ \A n \in nodes' : fail'[n] = NIL /\ dict'[n] = NIL
      /\ fail' \in [nodes' -> {NIL}] /\ dict' \in [nodes' -> {NIL}]
  <2>1. output' = [n \in nodes' |-> IF n = w /\ old(n) = NoClass THEN c ELSE old(n)]
    <3> DEFINE g == Grown(output, nodes', NoClass)
    <3>1. g = [n \in nodes' |-> old(n)]
      BY DEF Grown
    <3>2. output' = [g EXCEPT ![w] = IF g[w] = NoClass THEN c ELSE g[w]] /\ w \in nodes'
      BY <1>2, <1>3
    <3> HIDE DEF g, w, c, old
    <3> QED BY <3>1, <3>2
  <2>2. fail' = [n \in nodes' |-> NIL] /\ dict' = [n \in nodes' |-> NIL]
    BY <1>2 DEF LinkInv, Grown
  <2> QED BY <2>1, <2>2
<1>6. \A i \in 1..Len(inserted') :
         lower(inserted'[i]) = IF i = c THEN w ELSE lower(inserted[i])
  <2> SUFFICES ASSUME NEW i \in 1..Len(inserted')
               PROVE  lower(inserted'[i]) = IF i = c THEN w ELSE lower(inserted[i])
    OBVIOUS
  <2>1. i = c \/ i \in 1..Len(inserted)
    BY <1>4
  <2>2. inserted'[i] = IF i = c THEN word ELSE inserted[i]
    BY <1>4, <2>1
  <2> QED BY <2>2
<1> HIDE DEF w, c
<1>7. TrieInv'
  <2>1. IsFiniteSet(nodes') /\ nodes' \subseteq Seq(Bytes) /\ Root \in nodes'
    BY <1>2, <1>3, FS_Union DEF TrieInv
  <2>2. \A n \in nodes' : Beginnings(n) \subseteq nodes'
    BY <1>2, <1>3 DEF TrieInv
  <2>3. \E K \in Nat : \A n \in nodes' : Len(n) <= K
    <3>1. PICK K \in Nat : \A n \in nodes : Len(n) <= K
      BY DEF TrieInv
    <3>2. K + Len(w) \in Nat
      BY <1>1
    <3>3. \A n \in nodes' : Len(n) \in Nat
      BY <2>1, LenProperties
    <3>4. \A n \in nodes' : Len(n) <= K + Len(w)
      BY <1>1, <1>2, <1>3, <3>1, <3>3
    <3> QED BY <3>2, <3>4
  <2> QED BY <2>1, <2>2, <2>3 DEF TrieInv
<1>8. TypeInv'
  <2>1. \A n : old(n) \in 0..MaxRules
    BY DEF TypeInv, NoClass, ClassifierAssumption
  <2>2. c \in 0..MaxRules
    BY <1>4
  <2>3. output' \in [nodes' -> 0..MaxRules]
    <3> HIDE DEF old
    <3> QED BY <1>5, <2>1, <2>2
  <2>4. node_idx' \in nodes' /\ answer' \in 0..MaxRules /\ text' \in Seq(Bytes)
    BY <1>2 DEF TypeInv
  <2>5. Len(inserted') <= MaxRules
    BY <1>4
  <2> QED BY <1>2, <1>4, <1>5, <2>3, <2>4, <2>5 DEF TypeInv
<1>9. RulesInv'
  <2>1. \A i \in 1..Len(inserted') : lower(inserted'[i]) \in nodes' \ {Root}
    BY <1>1, <1>2, <1>3, <1>4, <1>6 DEF RulesInv
  <2> DEFINE first(n) ==
                \A i \in 1..Len(inserted) : lower(inserted[i]) = n => output[n] <= i
  <2>2. /\ \A n \in nodes : output[n] = NoClass => \A i \in 1..Len(inserted) : lower(inserted[i]) # n
        /\ \A n \in nodes : output[n] # NoClass =>
              /\ output[n] \in 1..Len(inserted) /\ lower(inserted[output[n]]) = n
              /\ first(n)
        /\ \A i \in 1..Len(inserted) : lower(inserted[i]) \in nodes
    BY DEF RulesInv
  <2>3. /\ \A i \in 1..Len(inserted') : i = c \/ i \in 1..Len(inserted)
        /\ \A i \in 1..Len(inserted) : i \in 1..Len(inserted') /\ i # c /\ i <= c
        /\ c \in 1..Len(inserted') /\ c <= c
    BY <1>4 DEF c
  <2>4. ASSUME NEW n \in nodes', output'[n] = NoClass, NEW i \in 1..Len(inserted')
        PROVE  lower(inserted'[i]) # n
    <3>1. n # w /\ old(n) = NoClass
      BY <1>4, <1>5, <2>4
    <3>2. \A j \in 1..Len(inserted) : lower(inserted[j]) # n
      BY <2>2, <3>1
    <3> HIDE DEF old
    <3> QED BY <1>6, <2>3, <3>1, <3>2
  <2>5. ASSUME NEW n \in nodes', output'[n] # NoClass
        PROVE  /\ output'[n] \in 1..Len(inserted') /\ lower(inserted'[output'[n]]) = n
               /\ \A i \in 1..Len(inserted') : lower(inserted'[i]) = n => output'[n] <= i
    <3>1. CASE n = w /\ old(n) = NoClass
      <4>1. output'[n] = c
        BY <1>5, <3>1
      <4>2. \A j \in 1..Len(inserted) : lower(inserted[j]) # n
        BY <2>2, <3>1
      <4> HIDE DEF old
      <4>3. lower(inserted'[c]) = n
        BY <1>6, <2>3, <3>1
      <4>4. \A i \in 1..Len(inserted') : lower(inserted'[i]) = n => c <= i
        BY <1>6, <2>3, <4>2
      <4> QED BY <2>3, <4>1, <4>3, <4>4
    <3>2. CASE ~ (n = w /\ old(n) = NoClass)
      <4>1. output'[n] = output[n] /\ n \in nodes /\ output[n] # NoClass
        BY <1>5, <2>5, <3>2
      <4>2. /\ output[n] \in 1..Len(inserted) /\ lower(inserted[output[n]]) = n
            /\ first(n)
        BY <2>2, <4>1
      <4> DEFINE o == output[n]
      <4>3. lower(inserted'[o]) = n
        BY <1>6, <2>3, <4>2
      <4>4. \A i \in 1..Len(inserted') : lower(inserted'[i]) = n => o <= i
        BY <1>6, <2>3, <4>2
      <4> HIDE DEF o
      <4> QED BY <2>3, <4>1, <4>2, <4>3, <4>4 DEF o
    <3> QED BY <3>1, <3>2
  <2> QED BY <2>1, <2>4, <2>5 DEF RulesInv
<1> HIDE DEF old
<1>10. LinkInv' /\ LevelInv'
  <2>1. Linked' = {Root}
    BY <1>5, <1>7 DEF Linked, TrieInv
  <2>2. Ends(Root)' = {}
    BY <1>7, EmptyWord DEF Ends, Behind, Root, TrieInv
  <2>3. LinkInv'
    <3>1. Linked' \ {Root} = {}
      BY <2>1
    <3>2. dict'[Root] = NIL
      BY <1>5, <1>7 DEF TrieInv
    <3>3. \A n \in Linked' : DictRight(n)'
      BY <2>1, <2>2, <3>2 DEF DictRight
    <3> QED BY <1>2, <1>5, <3>1, <3>3 DEF LinkInv
  <2>4. to_visit' = <<>> /\ 1..Len(to_visit') = {}
    BY <1>2, EmptyWord DEF LevelInv
  <2> QED BY <1>2, <2>3, <2>4, EmptyWord DEF LevelInv
<1>11. ScanInv' /\ StartInv'
  <2>1. node_idx' = Root /\ lower(text') = Root /\ text' = <<>> /\ answer' = NoClass
    BY <1>2, LowerEmpty DEF StartInv, Root
  <2>2. output[Root] = NoClass /\ IsSuffix(Root, Root)
    BY <1>2, <2>1, EmptyWord, SuffixEnds DEF ScanInv, TrieInv, Root
  <2>3. output'[Root] = NoClass
    BY <1>1, <1>5, <1>7, <2>2 DEF TrieInv, old
  <2>4. \A u \in nodes' : IsSuffix(u, Root) => u = Root
    BY <1>7, EmptyWord DEF TrieInv, Root
  <2> QED BY <1>2, <2>1, <2>2, <2>3, <2>4, EmptyWord DEF ScanInv, StartInv, Root
<1> QED BY <1>7, <1>8, <1>9, <1>10, <1>11

-----------------------------------------------------------------------------
\* The invariant is inductive: linking the trie.

\* Lemma: the children of the root get their links.
LEMMA StartLinksStep ==
    ASSUME ClassifierAssumption, KCInv, StartLinks
    PROVE  KCInv'
<1> USE DEF KCInv
<1> DEFINE kids == Children(Root)
<1>1. /\ fail' = [n \in nodes |-> IF n \in kids THEN Root ELSE fail[n]]
      /\ to_visit' \in Orders(kids) /\ phase = "insert" /\ phase' = "link"
      /\ nodes' = nodes /\ output' = output /\ dict' = dict /\ node_idx' = node_idx
      /\ answer' = answer /\ inserted' = inserted /\ text' = text
  BY DEF StartLinks
<1>2. /\ \A n \in nodes : n \in Seq(Bytes) /\ Len(n) \in Nat /\ (n # Root => Len(n) > 0)
      /\ Root \in nodes /\ Len(Root) = 0 /\ NIL \notin nodes /\ NIL # Root
  BY NodesAreWords
<1>3. /\ \A m : m \in kids <=> m \in nodes /\ m # Root /\ Front(m) = Root
      /\ \A m \in kids : Len(m) = 1
      /\ IsFiniteSet(kids)
  <2>1. \A m \in kids : Len(m) = Len(Root) + 1
    BY <1>2, ChildrenAre
  <2> QED BY <1>2, <2>1, ChildrenAre
<1>4. \A m \in nodes : Len(m) <= 1 => m = Root \/ m \in kids
  <2> SUFFICES ASSUME NEW m \in nodes, Len(m) <= 1, m # Root PROVE m \in kids
    OBVIOUS
  <2>1. Front(m) \in nodes /\ Len(Front(m)) = 0
    BY <1>2, FrontIsNode
  <2>2. Front(m) = Root
    BY <1>2, <2>1
  <2> HIDE DEF kids
  <2> QED BY <1>3, <2>2
<1>5. to_visit' \in Seq(kids) /\ \A m \in kids : \E i \in 1..Len(to_visit') : to_visit'[i] = m
  BY <1>1, <1>3, OrdersAreSequences
<1> HIDE DEF kids
<1>6. Len(to_visit') \in Nat /\ \A i \in 1..Len(to_visit') : to_visit'[i] \in kids /\ Len(to_visit'[i]) = 1
  BY <1>3, <1>5, LenProperties, ElementOfSeq
<1>7. Linked' = {Root} \cup kids
  BY <1>1, <1>2, <1>3 DEF Linked, LinkInv
<1>8. TrieInv' /\ RulesInv'
  BY <1>1 DEF TrieInv, RulesInv
<1>9. TypeInv'
  <2>1. fail' \in [nodes -> nodes \cup {NIL}]
    BY <1>1, <1>2 DEF TypeInv
  <2> QED BY <1>1, <2>1 DEF TypeInv
<1>10. Behind(Root) = {} /\ \A n \in kids : Behind(n) = {Root}
  <2>1. \A u \in nodes : Len(u) = 0 => u = Root
    BY <1>2
  <2>2. Behind(Root) = {}
    BY <1>2, <2>1, EmptyWord DEF Behind, Root
  <2>3. ASSUME NEW n \in kids, NEW u \in Behind(n) PROVE u = Root
    <3>1. u \in nodes /\ n \in nodes /\ u # n /\ IsSuffix(u, n) /\ Len(n) = 1
      BY <1>3, <2>3 DEF Behind
    <3>2. ~ (Len(n) <= Len(u))
      BY <1>2, <3>1, SuffixSame
    <3>3. Len(u) = 0
      BY <1>2, <3>1, <3>2
    <3> QED BY <2>1, <3>1, <3>3
  <2>4. ASSUME NEW n \in kids PROVE Root \in Behind(n)
    <3>1. n \in Seq(Bytes) /\ n # Root
      BY <1>2, <1>3
    <3>2. IsSuffix(Root, n)
      BY <3>1, SuffixEnds DEF Root
    <3> QED BY <1>2, <3>1, <3>2 DEF Behind
  <2> QED BY <2>2, <2>3, <2>4
<1>11. LinkInv'
  <2>1. \A n : Behind(n)' = Behind(n) /\ Ends(n)' = {u \in Behind(n) : output[u] # NoClass}
    BY <1>1 DEF Behind, Ends
  <2>2. ASSUME NEW n \in kids PROVE FailRight(n)'
    <3>1. fail'[n] = Root /\ Root \in Linked'
      BY <1>1, <1>3, <1>7
    <3>2. Behind(n)' = {Root}
      BY <1>10, <2>1
    <3> QED BY <1>2, <3>1, <3>2 DEF FailRight
  <2>3. ASSUME NEW n \in Linked' PROVE DictRight(n)'
    <3>1. dict'[n] = NIL
      BY <1>1, <1>2, <1>3, <1>7 DEF LinkInv
    <3>2. output[Root] = NoClass
      <4>1. text = <<>>
        BY <1>1 DEF StartInv
      <4>2. lower(text) = Root
        BY <4>1, LowerEmpty DEF Root
      <4>3. IsSuffix(Root, Root)
        BY <1>2, SuffixEnds DEF Root
      <4> QED BY <1>1, <1>2, <4>2, <4>3 DEF ScanInv
    <3>3. Behind(n) \subseteq {Root}
      BY <1>7, <1>10
    <3>4. Ends(n)' = {}
      BY <2>1, <3>2, <3>3
    <3> QED BY <3>1, <3>4 DEF DictRight
  <2> QED BY <1>1, <1>7, <2>2, <2>3 DEF LinkInv
<1>12. LevelInv'
  <2>1. to_visit' \in Seq(Linked' \ {Root})
    <3>1. kids \subseteq Linked' \ {Root}
      BY <1>3, <1>7
    <3> QED BY <1>5, <3>1, SeqMonotonic
  <2>2. ASSUME to_visit' = <<>> PROVE Linked' = nodes'
    <3>1. kids = {}
      BY <1>5, <2>2, EmptySeq
    <3>2. ASSUME NEW m \in nodes, m # Root PROVE FALSE
      <4> DEFINE p == SubSeq(m, 1, 1)
      <4>1. 1 \in 0..Len(m)
        BY <1>2, <3>2
      <4>2. p \in nodes /\ Len(p) = 1
        BY <4>1, PrefixIsNode
      <4> HIDE DEF p
      <4>3. Len(p) <= 1
        BY <4>2
      <4>4. p # Root
        <5>1. Len(Root) = 0
          BY <1>2
        <5> QED BY <4>2, <5>1
      <4> QED BY <1>4, <3>1, <4>2, <4>3, <4>4
    <3> QED BY <1>1, <1>2, <1>7, <3>1, <3>2
  <2>3. \A i, j \in 1..Len(to_visit') :
           /\ i < j => Len(to_visit'[i]) <= Len(to_visit'[j])
           /\ Len(to_visit'[j]) <= Len(to_visit'[1]) + 1
    <3> SUFFICES ASSUME NEW i \in 1..Len(to_visit'), NEW j \in 1..Len(to_visit')
                 PROVE  Len(to_visit'[i]) <= Len(to_visit'[j]) /\ Len(to_visit'[j]) <= Len(to_visit'[1]) + 1
      OBVIOUS
    <3>1. 1 \in 1..Len(to_visit')
      BY <1>6
    <3> QED BY <1>6, <3>1
  <2>4. ASSUME to_visit' # <<>>
        PROVE  /\ Len(to_visit'[1]) = 1
               /\ \A n \in nodes : Len(n) <= 1 => n \in Linked'
               /\ \A n \in Linked' : Len(n) <= 1
               /\ \A n \in Linked' : Len(n) = 1 => Queued(n)'
               /\ \A n \in nodes \ Linked' : Len(n) = 2 => Queued(Front(n))'
    <3>1. Len(to_visit'[1]) = 1
      <4>1. 1 \in 1..Len(to_visit')
        BY <1>5, <1>6, <2>4, EmptySeq
      <4> QED BY <1>6, <4>1
    <3>2. \A n \in nodes : Len(n) <= 1 => n \in Linked'
      BY <1>4, <1>7
    <3>3. \A n \in kids : Queued(n)'
      BY <1>5 DEF Queued
    <3>4. ASSUME NEW n \in Linked' PROVE Len(n) <= 1 /\ (Len(n) = 1 => Queued(n)')
      <4>1. CASE n = Root
        <5>1. Len(n) = 0
          BY <1>2, <4>1
        <5> QED BY <5>1
      <4>2. CASE n \in kids
        <5>1. Len(n) = 1
          BY <1>3, <4>2
        <5>2. Len(n) <= 1
          BY <5>1
        <5> QED BY <3>3, <4>2, <5>2
      <4> QED BY <1>7, <3>4, <4>1, <4>2
    <3>5. ASSUME NEW n \in nodes, Len(n) = 2 PROVE Queued(Front(n))'
      <4>0. n # Root
        BY <1>2, <3>5
      <4>1. Front(n) \in nodes /\ Len(Front(n)) = Len(n) - 1
        BY <4>0, FrontIsNode
      <4>2. Len(Front(n)) = 1 /\ Front(n) # Root
        <5> DEFINE l == Len(n)
        <5>1. l = 2 /\ Len(Front(n)) = l - 1
          BY <3>5, <4>1
        <5>2. Len(Front(n)) = 1
          BY <5>1
        <5>3. Len(Root) = 0
          BY <1>2
        <5> QED BY <5>2, <5>3
      <4>3. Front(n) \in kids
        <5>1. Len(Front(n)) <= 1
          BY <4>2
        <5> QED BY <1>4, <4>1, <4>2, <5>1
      <4> QED BY <3>3, <4>3
    <3> QED BY <3>1, <3>2, <3>4, <3>5
  <2>5. ASSUME to_visit' # <<>>
        PROVE  LET level == Len(to_visit'[1]) IN
               /\ \A n \in nodes' : Len(n) <= level => n \in Linked'
               /\ \A n \in Linked' : Len(n) <= level + 1 /\ (Len(n) = level + 1 => Queued(n)')
               /\ \A n \in nodes' \ Linked' : Len(n) = level + 1 => Queued(Front(n))'
    <3>1. ASSUME NEW n \in Linked' PROVE Len(n) <= 1 + 1 /\ Len(n) # 1 + 1
      <4>1. Len(n) \in Nat /\ Len(n) <= 1
        BY <1>2, <1>3, <1>7, <2>4, <2>5
      <4> QED BY <4>1
    <3>2. Len(to_visit'[1]) = 1 /\ 1 + 1 = 2
      BY <2>4, <2>5
    <3> DEFINE level == Len(to_visit'[1])
    <3>3. \A n \in nodes' : Len(n) <= level => n \in Linked'
      BY <1>1, <2>4, <2>5
    <3>4. \A n \in Linked' : Len(n) <= level + 1 /\ (Len(n) = level + 1 => Queued(n)')
      BY <3>1, <3>2
    <3>5. \A n \in nodes' \ Linked' : Len(n) = level + 1 => Queued(Front(n))'
      BY <1>1, <2>4, <2>5, <3>2
    <3> QED BY <3>3, <3>4, <3>5
  <2> QED BY <1>1, <2>1, <2>2, <2>3, <2>5 DEF LevelInv
<1>13. ScanInv' /\ StartInv'
  BY <1>1 DEF ScanInv, StartInv
<1> QED BY <1>8, <1>9, <1>11, <1>12, <1>13

\* Lemma: what the links of the children of the node at the head are.
LEMMA LinkChildrenLinks ==
    ASSUME ClassifierAssumption, KCInv, LinkChildren
    PROVE  /\ TypeInv' /\ LinkInv'
           /\ Linked' = Linked \cup Children(Head(to_visit))
<1> USE DEF KCInv
<1> DEFINE n == Head(to_visit)  kids == Children(n)  last(m) == m[Len(m)]
           link(m) == FailOf(n, last(m))
<1>1. /\ phase = "link" /\ to_visit # <<>>
      /\ fail' = [m \in nodes |-> IF m \in kids THEN link(m) ELSE fail[m]]
      /\ dict' = [m \in nodes |-> IF m \in kids THEN DictOf(link(m)) ELSE dict[m]]
      /\ nodes' = nodes /\ output' = output /\ phase' = phase /\ node_idx' = node_idx
      /\ answer' = answer /\ inserted' = inserted /\ text' = text
  BY DEF LinkChildren
<1>2. /\ \A m \in nodes : m \in Seq(Bytes) /\ Len(m) \in Nat /\ (m # Root => Len(m) > 0)
      /\ Root \in nodes /\ Len(Root) = 0 /\ NIL \notin nodes /\ NIL # Root
  BY NodesAreWords
<1>3. /\ n \in Linked \ {Root} /\ n \in nodes /\ n = to_visit[1]
      /\ \A m \in nodes : Len(m) <= Len(n) => m \in Linked
  <2>1. to_visit \in Seq(Linked \ {Root})
    BY DEF LevelInv
  <2>2. n \in Linked \ {Root} /\ n = to_visit[1]
    BY <1>1, <2>1, HeadTailProperties
  <2> QED BY <1>1, <2>2 DEF LevelInv, Linked
<1>4. /\ \A m : m \in kids <=> m \in nodes /\ m # Root /\ Front(m) = n
      /\ \A m \in kids : Len(m) = Len(n) + 1 /\ m = Append(n, last(m)) /\ last(m) \in Bytes
  <2>1. /\ \A m : m \in kids <=> m \in nodes /\ m # Root /\ Front(m) = n
        /\ \A m \in kids : Len(m) = Len(n) + 1 /\ m = Append(n, last(m))
    BY <1>3, ChildrenAre
  <2> HIDE DEF kids
  <2>2. \A m \in kids : last(m) \in Bytes
    BY <2>1, FrontIsNode
  <2> QED BY <2>1, <2>2
<1>5. \A m \in kids : last(m) = m[Len(m)]
  OBVIOUS
<1> HIDE DEF n, kids, last
<1>6. ASSUME NEW m \in kids
      PROVE  /\ link(m) \in Behind(m) /\ link(m) \in Linked /\ link(m) # NIL
             /\ \A u \in Behind(m) : Len(u) <= Len(link(m))
             /\ Leads(DictOf(link(m)), m)
  <2>1. m \in nodes /\ last(m) \in Bytes /\ Append(n, last(m)) = m /\ Len(m) = Len(n) + 1
    BY <1>4
  <2>2. /\ link(m) \in Behind(m)
        /\ \A u \in Behind(m) : Len(u) <= Len(link(m))
    BY <1>3, <2>1, FailOfRight
  <2> HIDE DEF link
  <2>3. Len(link(m)) < Len(m) /\ link(m) \in nodes
    BY <2>1, <2>2, BehindLongest DEF Behind
  <2>4. link(m) \in Linked
    BY <1>2, <1>3, <2>1, <2>3
  <2>5. DictRight(link(m))
    BY <2>4 DEF LinkInv
  <2>6. Leads(DictOf(link(m)), m)
    BY <2>1, <2>2, <2>5, DictOfRight
  <2> QED BY <1>2, <2>2, <2>3, <2>4, <2>6
<1> HIDE DEF link
<1>7. Linked' = Linked \cup kids
  <2>1. kids \subseteq nodes /\ Root \in nodes
    BY <1>2, <1>4
  <2>2. \A m \in kids : fail'[m] # NIL
    BY <1>1, <1>6, <2>1
  <2>3. \A m \in nodes \ kids : fail'[m] = fail[m]
    BY <1>1
  <2> QED BY <1>1, <2>1, <2>2, <2>3 DEF Linked
<1>8. \A m \in nodes : Behind(m)' = Behind(m) /\ Ends(m)' = Ends(m)
  BY <1>1 DEF Behind, Ends
<1>9. TypeInv'
  <2>1. \A m \in kids : link(m) \in nodes /\ DictOf(link(m)) \in nodes \cup {NIL}
    BY <1>6 DEF Behind, Leads, Ends
  <2>2. fail' \in [nodes -> nodes \cup {NIL}] /\ dict' \in [nodes -> nodes \cup {NIL}]
    BY <1>1, <2>1 DEF TypeInv
  <2> QED BY <1>1, <2>2 DEF TypeInv
<1>10. \A m \in kids : FailRight(m)' /\ DictRight(m)'
  <2> SUFFICES ASSUME NEW m \in kids PROVE FailRight(m)' /\ DictRight(m)'
    OBVIOUS
  <2>1. m \in nodes /\ fail'[m] = link(m) /\ dict'[m] = DictOf(link(m))
    BY <1>1, <1>4
  <2>2. Behind(m)' = Behind(m) /\ Ends(m)' = Ends(m)
    BY <1>8, <2>1
  <2>3. FailRight(m)'
    BY <1>6, <1>7, <2>1, <2>2 DEF FailRight
  <2>4. DictRight(m)'
    BY <1>6, <2>1, <2>2 DEF DictRight, Leads
  <2> QED BY <2>3, <2>4
<1>11. \A m \in Linked \ kids : (m # Root => FailRight(m)') /\ DictRight(m)'
  <2> SUFFICES ASSUME NEW m \in Linked \ kids
               PROVE  (m # Root => FailRight(m)') /\ DictRight(m)'
    OBVIOUS
  <2>1. m \in nodes /\ fail'[m] = fail[m] /\ dict'[m] = dict[m]
    BY <1>1 DEF Linked
  <2>2. Behind(m)' = Behind(m) /\ Ends(m)' = Ends(m)
    BY <1>8, <2>1
  <2>3. (m # Root => FailRight(m)) /\ DictRight(m)
    BY DEF LinkInv
  <2>4. m # Root => FailRight(m)'
    BY <1>7, <2>1, <2>2, <2>3 DEF FailRight
  <2>5. DictRight(m)'
    BY <2>1, <2>2, <2>3 DEF DictRight
  <2> QED BY <2>4, <2>5
<1>12. LinkInv'
  BY <1>1, <1>7, <1>10, <1>11 DEF LinkInv
<1> QED BY <1>7, <1>9, <1>12 DEF n, kids

\* Lemma: the queue goes on level by level.
LEMMA LinkChildrenLevels ==
    ASSUME ClassifierAssumption, KCInv, LinkChildren
    PROVE  LevelInv'
<1> USE DEF KCInv
<1> DEFINE n == Head(to_visit)  L == Len(n)  kids == Children(n)
<1>1. /\ phase = "link" /\ to_visit # <<>> /\ phase' = "link" /\ nodes' = nodes
      /\ \E s \in Orders(kids) : to_visit' = Tail(to_visit) \o s
  BY DEF LinkChildren
<1>2. /\ \A m \in nodes : m \in Seq(Bytes) /\ Len(m) \in Nat /\ (m # Root => Len(m) > 0)
      /\ Root \in nodes /\ Len(Root) = 0
  BY NodesAreWords
<1>3. to_visit \in Seq(Linked \ {Root}) /\ Len(to_visit) \in Nat \ {0}
  BY <1>1, EmptySeq DEF LevelInv
<1>4. /\ n = to_visit[1] /\ n \in Linked \ {Root} /\ n \in nodes /\ L \in Nat
      /\ Tail(to_visit) \in Seq(Linked \ {Root}) /\ Len(Tail(to_visit)) = Len(to_visit) - 1
      /\ \A i \in 1..Len(Tail(to_visit)) : Tail(to_visit)[i] = to_visit[i + 1]
  <2>1. n = to_visit[1] /\ n \in Linked \ {Root}
    BY <1>1, <1>3, HeadTailProperties
  <2> QED BY <1>1, <1>2, <1>3, <2>1, HeadTailProperties DEF Linked
<1>5. /\ \A m : m \in kids <=> m \in nodes /\ m # Root /\ Front(m) = n
      /\ \A m \in kids : Len(m) = L + 1
      /\ IsFiniteSet(kids)
  BY <1>4, ChildrenAre
<1>6. Linked' = Linked \cup kids
  BY LinkChildrenLinks
<1>7. /\ \A i \in 1..Len(to_visit) : to_visit[i] \in Linked /\ Len(to_visit[i]) \in L..(L + 1)
      /\ \A i, j \in 1..Len(to_visit) : i < j => Len(to_visit[i]) <= Len(to_visit[j])
      /\ \A m \in nodes : Len(m) <= L => m \in Linked
      /\ \A m \in Linked : Len(m) <= L + 1
      /\ \A m \in Linked : Len(m) = L + 1 => Queued(m)
      /\ \A m \in nodes \ Linked : Len(m) = L + 1 => Queued(Front(m))
  <2>1. ASSUME NEW i \in 1..Len(to_visit) PROVE to_visit[i] \in Linked /\ Len(to_visit[i]) \in L..(L + 1)
    <3>1. to_visit[i] \in Linked /\ Len(to_visit[i]) \in Nat
      BY <1>2, <1>3, ElementOfSeq DEF Linked
    <3>2. 1 \in 1..Len(to_visit) /\ (1 < i \/ i = 1)
      BY <1>3
    <3>3. Len(to_visit[i]) <= L + 1 /\ (1 < i => L <= Len(to_visit[i]))
      BY <1>4, <3>2 DEF LevelInv
    <3> HIDE DEF L, n
    <3>4. i = 1 => Len(to_visit[i]) = L
      BY <1>4 DEF L
    <3> QED BY <1>4, <3>1, <3>2, <3>3, <3>4
  <2>2. to_visit[1] = n
    BY <1>4
  <2> QED BY <1>1, <2>1, <2>2 DEF LevelInv
<1> HIDE DEF n, L, kids
<1>8. /\ to_visit' \in Seq(Linked' \ {Root}) /\ Len(to_visit') \in Nat
      /\ \A j \in 1..Len(to_visit') :
            (j < Len(to_visit) /\ to_visit'[j] = to_visit[j + 1]) \/ (j >= Len(to_visit) /\ to_visit'[j] \in kids)
      /\ \A m : \A j \in 1..Len(to_visit) : j # 1 /\ to_visit[j] = m => Queued(m)'
      /\ \A m \in kids : Queued(m)'
  <2>1. PICK s \in Orders(kids) : to_visit' = Tail(to_visit) \o s
    BY <1>1
  <2>2. s \in Seq(kids) /\ Len(s) \in Nat /\ \A m \in kids : \E i \in 1..Len(s) : s[i] = m
    BY <1>5, OrdersAreSequences, LenProperties
  <2>3. Tail(to_visit) \in Seq(Linked' \ {Root}) /\ s \in Seq(Linked' \ {Root})
    <3>1. kids \subseteq Linked' \ {Root} /\ Linked \ {Root} \subseteq Linked' \ {Root}
      BY <1>5, <1>6
    <3>2. Tail(to_visit) \in Seq(Linked' \ {Root})
      BY <1>4, <3>1, SeqMonotonic
    <3>3. s \in Seq(Linked' \ {Root})
      BY <2>2, <3>1, SeqMonotonic
    <3> QED BY <3>2, <3>3
  <2> DEFINE t == Tail(to_visit)
  <2>4. /\ to_visit' \in Seq(Linked' \ {Root}) /\ Len(to_visit') = Len(t) + Len(s)
        /\ \A i \in 1..Len(t) + Len(s) :
              to_visit'[i] = IF i <= Len(t) THEN t[i] ELSE s[i - Len(t)]
    BY <2>1, <2>3, ConcatProperties
  <2>5. Len(t) = Len(to_visit) - 1 /\ \A i \in 1..Len(t) : t[i] = to_visit[i + 1]
    BY <1>4
  <2> HIDE DEF t
  <2>6. ASSUME NEW j \in 1..Len(to_visit')
        PROVE  \/ j < Len(to_visit) /\ to_visit'[j] = to_visit[j + 1]
               \/ j >= Len(to_visit) /\ to_visit'[j] \in kids
    <3>1. CASE j <= Len(t)
      BY <1>3, <2>2, <2>4, <2>5, <3>1
    <3>2. CASE ~ (j <= Len(t))
      <4>1. j - Len(t) \in 1..Len(s) /\ to_visit'[j] = s[j - Len(t)] /\ j >= Len(to_visit)
        BY <1>3, <2>2, <2>4, <2>5, <3>2
      <4>2. s[j - Len(t)] \in kids
        BY <2>2, <4>1, ElementOfSeq
      <4> QED BY <4>1, <4>2
    <3> QED BY <3>1, <3>2
  <2>7. ASSUME NEW m, NEW j \in 1..Len(to_visit), j # 1, to_visit[j] = m PROVE Queued(m)'
    <3>1. j - 1 \in 1..Len(t) /\ j - 1 \in 1..Len(to_visit') /\ (j - 1) + 1 = j
      BY <1>3, <2>2, <2>4, <2>5, <2>7
    <3>2. t[j - 1] = to_visit[j]
      BY <2>5, <3>1
    <3>3. to_visit'[j - 1] = t[j - 1]
      BY <1>3, <2>2, <2>4, <2>5, <3>1
    <3> QED BY <2>7, <3>1, <3>2, <3>3 DEF Queued
  <2>8. ASSUME NEW m \in kids PROVE Queued(m)'
    <3>1. PICK i \in 1..Len(s) : s[i] = m
      BY <2>2
    <3>2. Len(t) \in Nat /\ ~ (Len(t) + i <= Len(t)) /\ Len(t) + i - Len(t) = i
      BY <1>3, <2>2, <2>5
    <3>3. Len(t) + i \in 1..Len(t) + Len(s)
      BY <2>2, <3>2
    <3>4. to_visit'[Len(t) + i] = m
      BY <2>4, <3>1, <3>2, <3>3
    <3>5. Len(t) + i \in 1..Len(to_visit')
      BY <2>4, <3>3
    <3> DEFINE k == Len(t) + i
    <3>6. k \in 1..Len(to_visit') /\ to_visit'[k] = m
      BY <3>4, <3>5
    <3> HIDE DEF k
    <3> QED BY <3>6 DEF Queued
  <2>9. Len(to_visit') \in Nat
    BY <1>3, <2>2, <2>4, <2>5
  <2>10. to_visit' \in Seq(Linked' \ {Root})
    BY <2>4
  <2> QED BY <2>6, <2>7, <2>8, <2>9, <2>10
<1>9. ASSUME NEW j \in 1..Len(to_visit')
      PROVE  Len(to_visit'[j]) \in L..(L + 1) /\ to_visit'[j] \in nodes
  <2>1. CASE j < Len(to_visit) /\ to_visit'[j] = to_visit[j + 1]
    <3>1. j + 1 \in 1..Len(to_visit)
      BY <1>3, <1>8, <2>1
    <3> QED BY <1>7, <2>1, <3>1 DEF Linked
  <2>2. CASE to_visit'[j] \in kids
    BY <1>4, <1>5, <2>2
  <2> QED BY <1>8, <2>1, <2>2
<1>10. ASSUME NEW i \in 1..Len(to_visit'), NEW j \in 1..Len(to_visit'), i < j
       PROVE  Len(to_visit'[i]) <= Len(to_visit'[j])
  <2>1. CASE j < Len(to_visit) /\ to_visit'[j] = to_visit[j + 1]
    <3>1. i + 1 \in 1..Len(to_visit) /\ j + 1 \in 1..Len(to_visit) /\ i + 1 < j + 1 /\ i < Len(to_visit)
      BY <1>3, <1>8, <1>10, <2>1
    <3>2. to_visit'[i] = to_visit[i + 1]
      BY <1>3, <1>8, <3>1
    <3> QED BY <1>7, <2>1, <3>1, <3>2
  <2>2. CASE to_visit'[j] \in kids
    <3>1. Len(to_visit'[j]) = L + 1
      BY <1>5, <2>2
    <3> QED BY <1>4, <1>9, <3>1
  <2> QED BY <1>8, <2>1, <2>2
<1>11. ASSUME NEW m \in nodes \ Linked', Len(m) = L + 1 PROVE Queued(Front(m))'
  <2>1. m \notin Linked /\ m \notin kids
    BY <1>6
  <2>2. PICK i \in 1..Len(to_visit) : to_visit[i] = Front(m)
    BY <1>7, <1>11, <2>1 DEF Queued
  <2>3. m # Root
    BY <1>2, <1>4, <1>11
  <2>4. i # 1
    BY <1>4, <1>5, <2>1, <2>2, <2>3
  <2> QED BY <1>8, <2>2, <2>4
<1>12. ASSUME NEW m \in Linked', Len(m) = L + 1 PROVE Queued(m)'
  <2>1. CASE m \in kids
    BY <1>8, <2>1
  <2>2. CASE m \notin kids
    <3>1. PICK i \in 1..Len(to_visit) : to_visit[i] = m
      BY <1>6, <1>7, <1>12, <2>2 DEF Queued
    <3>2. i # 1
      BY <1>4, <1>12, <3>1 DEF L
    <3> QED BY <1>8, <3>1, <3>2
  <2> QED BY <2>1, <2>2
<1>13. /\ \A m \in nodes : Len(m) <= L => m \in Linked'
       /\ \A m \in Linked' : m \in nodes /\ Len(m) <= L + 1
  <2>1. \A m \in nodes : Len(m) <= L => m \in Linked'
    BY <1>6, <1>7
  <2>2. \A m \in Linked : m \in nodes /\ Len(m) <= L + 1
    BY <1>7 DEF Linked
  <2>3. \A m \in kids : m \in nodes /\ Len(m) <= L + 1
    BY <1>4, <1>5
  <2> QED BY <1>6, <2>1, <2>2, <2>3
<1>14. \A i, j \in 1..Len(to_visit') :
          /\ i < j => Len(to_visit'[i]) <= Len(to_visit'[j])
          /\ Len(to_visit'[j]) <= Len(to_visit'[1]) + 1
  <2> SUFFICES ASSUME NEW i \in 1..Len(to_visit'), NEW j \in 1..Len(to_visit')
               PROVE  Len(to_visit'[j]) <= Len(to_visit'[1]) + 1
    BY <1>10
  <2>1. 1 \in 1..Len(to_visit')
    BY <1>8
  <2>2. Len(to_visit'[j]) \in L..(L + 1) /\ Len(to_visit'[1]) \in L..(L + 1)
    BY <1>9, <2>1
  <2> QED BY <1>4, <2>2
<1>15. ASSUME to_visit' = <<>> PROVE Linked' = nodes
  <2>1. SUFFICES ASSUME NEW m \in nodes \ Linked' PROVE FALSE
    BY <1>13
  <2>2. Len(m) \in Nat /\ L + 1 \in 0..Len(m)
    BY <1>2, <1>4, <1>13, <2>1
  <2>3. PICK p \in nodes : Len(p) = L + 1
    BY <2>2, PrefixIsNode
  <2>4. Queued(p)' \/ Queued(Front(p))'
    <3>1. CASE p \in Linked'
      BY <1>12, <2>3, <3>1
    <3>2. CASE p \notin Linked'
      BY <1>11, <2>3, <3>2
    <3> QED BY <3>1, <3>2
  <2>5. 1..Len(to_visit') = {}
    BY <1>15, EmptySeq
  <2> QED BY <2>4, <2>5 DEF Queued
<1>16. ASSUME to_visit' # <<>>, NEW level, level = Len(to_visit'[1])
       PROVE  /\ \A m \in nodes : Len(m) <= level => m \in Linked'
              /\ \A m \in Linked' : Len(m) <= level + 1
              /\ \A m \in Linked' : Len(m) = level + 1 => Queued(m)'
              /\ \A m \in nodes \ Linked' : Len(m) = level + 1 => Queued(Front(m))'
  <2>0. 1 \in 1..Len(to_visit')
    BY <1>8, <1>16, EmptySeq
  <2>1. CASE level = L
    BY <1>11, <1>12, <1>13, <2>1
  <2>2. CASE level = L + 1
    <3>1. \A j \in 1..Len(to_visit') : Len(to_visit'[j]) = L + 1
      <4> SUFFICES ASSUME NEW j \in 1..Len(to_visit') PROVE Len(to_visit'[j]) = L + 1
        OBVIOUS
      <4>1. 1 < j \/ j = 1
        BY <1>8
      <4>2. Len(to_visit'[1]) <= Len(to_visit'[j])
        <5>1. CASE 1 < j
          BY <1>10, <2>0, <5>1
        <5>2. CASE j = 1
          BY <1>4, <1>9, <2>0, <5>2
        <5> QED BY <4>1, <5>1, <5>2
      <4> QED BY <1>4, <1>9, <1>16, <2>2, <4>2
    <3>2. ASSUME NEW m \in nodes, Len(m) <= L + 1 PROVE m \in Linked'
      <4>1. SUFFICES ASSUME m \notin Linked' PROVE FALSE
        OBVIOUS
      <4>2. Len(m) = L + 1 /\ m # Root
        BY <1>2, <1>4, <1>13, <3>2, <4>1
      <4>3. Len(Front(m)) = L
        <5>1. Len(Front(m)) = Len(m) - 1
          BY <4>2, FrontIsNode
        <5> QED BY <1>4, <4>2, <5>1
      <4>4. PICK i \in 1..Len(to_visit') : to_visit'[i] = Front(m)
        BY <1>11, <4>1, <4>2 DEF Queued
      <4>5. L = L + 1
        BY <3>1, <4>3, <4>4
      <4> QED BY <1>4, <4>5
    <3>3. ASSUME NEW m \in Linked' PROVE Len(m) <= level + 1 /\ Len(m) # level + 1
      <4>1. Len(m) \in Nat /\ Len(m) <= L + 1
        BY <1>2, <1>13, <3>3
      <4> QED BY <1>4, <2>2, <4>1
    <3>4. ASSUME NEW m \in nodes, Len(m) = level + 1 PROVE Queued(Front(m))'
      <4>1. m # Root
        BY <1>2, <1>4, <2>2, <3>4
      <4>2. Front(m) \in nodes /\ Len(Front(m)) = Len(m) - 1
        BY <4>1, FrontIsNode
      <4>3. Len(Front(m)) = L + 1
        BY <1>4, <2>2, <3>4, <4>2
      <4>4. Len(Front(m)) <= L + 1
        BY <1>4, <4>3
      <4> QED BY <1>12, <3>2, <4>2, <4>3, <4>4
    <3>5. \A m \in nodes : Len(m) <= level => m \in Linked'
      BY <2>2, <3>2
    <3> QED BY <3>3, <3>4, <3>5
  <2>3. level = L \/ level = L + 1
    BY <1>4, <1>9, <1>16, <2>0
  <2> QED BY <2>1, <2>2, <2>3
<1>17. to_visit' # <<>> => LET level == Len(to_visit'[1]) IN
          /\ \A m \in nodes' : Len(m) <= level => m \in Linked'
          /\ \A m \in Linked' : Len(m) <= level + 1 /\ (Len(m) = level + 1 => Queued(m)')
          /\ \A m \in nodes' \ Linked' : Len(m) = level + 1 => Queued(Front(m))'
  BY <1>1, <1>16
<1> QED BY <1>1, <1>8, <1>14, <1>15, <1>17 DEF LevelInv

\* Lemma: the children of the node at the head get their links.
LEMMA LinkChildrenStep ==
    ASSUME ClassifierAssumption, KCInv, LinkChildren
    PROVE  KCInv'
<1>1. /\ nodes' = nodes /\ output' = output /\ phase = "link" /\ phase' = "link"
      /\ node_idx' = node_idx /\ answer' = answer /\ inserted' = inserted /\ text' = text
  BY DEF LinkChildren
<1>2. TrieInv' /\ RulesInv' /\ ScanInv' /\ StartInv'
  BY <1>1 DEF KCInv, TrieInv, RulesInv, ScanInv, StartInv
<1> QED BY <1>2, LinkChildrenLinks, LinkChildrenLevels DEF KCInv

-----------------------------------------------------------------------------
\* The invariant is inductive: reading the text.

\* Lemma: all the children have their links.
LEMMA StartScanStep ==
    ASSUME ClassifierAssumption, KCInv, StartScan
    PROVE  KCInv'
<1> USE DEF KCInv
<1>1. /\ phase = "link" /\ to_visit = <<>> /\ phase' = "scan"
      /\ UNCHANGED <<nodes, output, fail, dict, to_visit, node_idx, answer, inserted, text>>
  BY DEF StartScan
<1>2. Linked = nodes /\ Linked' = Linked
  BY <1>1 DEF LevelInv, Linked
<1>3. TrieInv' /\ TypeInv' /\ RulesInv' /\ ScanInv' /\ StartInv'
  BY <1>1 DEF TrieInv, TypeInv, RulesInv, ScanInv, StartInv
<1>4. LinkInv'
  <2>1. \A n : Behind(n)' = Behind(n) /\ Ends(n)' = Ends(n)
    BY <1>1 DEF Behind, Ends
  <2>2. \A n : (FailRight(n) => FailRight(n)') /\ (DictRight(n) => DictRight(n)')
    BY <1>1, <1>2, <2>1 DEF FailRight, DictRight
  <2> QED BY <1>1, <1>2, <2>2 DEF LinkInv
<1>5. LevelInv'
  <2>1. 1..Len(to_visit') = {} /\ to_visit' = <<>>
    BY <1>1, EmptySeq
  <2> QED BY <1>1, <1>2, <2>1, EmptySeq DEF LevelInv
<1> QED BY <1>3, <1>4, <1>5

\* Lemma: a keyword ends at the longest suffix in the trie if it ends at any.
LEMMA EndsAtRight ==
    ASSUME ClassifierAssumption, TrieInv, NEW x \in nodes, DictRight(x),
           NEW t \in Seq(Bytes), IsSuffix(x, t),
           \A u \in nodes : IsSuffix(u, t) => Len(u) <= Len(x)
    PROVE  /\ EndsAt(x) = NoClass => \A u \in nodes : IsSuffix(u, t) => output[u] = NoClass
           /\ EndsAt(x) # NoClass => \E z \in nodes :
                 /\ IsSuffix(z, t) /\ output[z] = EndsAt(x)
                 /\ \A u \in nodes : IsSuffix(u, t) /\ output[u] # NoClass => Len(u) <= Len(z)
<1>1. x \in Seq(Bytes) /\ \A u \in nodes : u \in Seq(Bytes)
  BY NodesAreWords
<1>2. ASSUME NEW u \in nodes, IsSuffix(u, t), output[u] # NoClass, output[x] = NoClass
      PROVE  u \in Ends(x)
  <2>1. IsSuffix(u, x) /\ u # x
    BY <1>1, <1>2, SuffixOfSuffix
  <2> QED BY <1>2, <2>1 DEF Ends, Behind
<1>3. CASE output[x] # NoClass
  BY <1>3 DEF EndsAt
<1>4. CASE output[x] = NoClass /\ dict[x] = NIL
  <2>1. EndsAt(x) = NoClass
    BY <1>4 DEF EndsAt
  <2> QED BY <1>2, <1>4, <2>1 DEF DictRight
<1>5. CASE output[x] = NoClass /\ dict[x] # NIL
  <2> DEFINE z == dict[x]
  <2>1. EndsAt(x) = output[z] /\ z \in Ends(x) /\ \A u \in Ends(x) : Len(u) <= Len(z)
    BY <1>5 DEF EndsAt, DictRight
  <2> HIDE DEF z
  <2>2. z \in nodes /\ IsSuffix(z, x) /\ output[z] # NoClass
    BY <2>1 DEF Ends, Behind
  <2>3. IsSuffix(z, t)
    BY <1>1, <2>2, SuffixTransitive
  <2> QED BY <1>2, <1>5, <2>1, <2>2, <2>3
<1> QED BY <1>3, <1>4, <1>5

\* Lemma: a byte more.
LEMMA ScanStep ==
    ASSUME ClassifierAssumption, KCInv, NEW byte \in Bytes, Scan(byte)
    PROVE  KCInv'
<1> USE DEF KCInv
<1> DEFINE b == lowercase[byte]  x == Step(Walk(node_idx, b), b)
           t == Append(lower(text), b)
<1>1. /\ phase = "scan" /\ text' = Append(text, byte) /\ node_idx' = x
      /\ answer' = EndsAt(x)
      /\ phase' = IF EndsAt(x) # NoClass THEN "done" ELSE phase
      /\ nodes' = nodes /\ output' = output /\ fail' = fail /\ dict' = dict
      /\ to_visit' = to_visit /\ inserted' = inserted
  BY DEF Scan
<1>2. Linked = nodes /\ Linked' = Linked /\ node_idx \in nodes /\ node_idx \in Seq(Bytes)
  BY <1>1 DEF LinkInv, Linked, TypeInv, TrieInv
<1>3. b \in Bytes /\ text \in Seq(Bytes)
  BY DEF ClassifierAssumption, TypeInv
<1>4. /\ x \in nodes /\ IsSuffix(x, Append(node_idx, b))
      /\ \A u \in nodes : IsSuffix(u, Append(node_idx, b)) => Len(u) <= Len(x)
  <2> HIDE DEF b
  <2> QED BY <1>2, <1>3, StepRight
<1>5. lower(text') = t
  BY <1>1, <1>3, LowerAppend
<1>6. /\ lower(text) \in Seq(Bytes) /\ t \in Seq(Bytes)
      /\ Append(node_idx, b) \in Seq(Bytes) /\ text' \in Seq(Bytes)
  <2> HIDE DEF b
  <2>1. lower(text) \in Seq(Bytes)
    BY <1>3, LowerProperties
  <2> QED BY <1>1, <1>2, <1>3, <2>1, AppendProperties
<1>7. /\ IsSuffix(node_idx, lower(text))
      /\ \A u \in nodes : IsSuffix(u, lower(text)) => Len(u) <= Len(node_idx)
  BY DEF ScanInv
<1> HIDE DEF b, x
<1>8. IsSuffix(x, t)
  <2>1. x \in Seq(Bytes)
    BY <1>4, NodesAreWords
  <2>2. IsSuffix(Append(node_idx, b), t)
    BY <1>2, <1>3, <1>6, <1>7, SuffixAppend
  <2> HIDE DEF t
  <2> QED BY <1>4, <1>6, <2>1, <2>2, SuffixTransitive
<1>9. ASSUME NEW v \in nodes, IsSuffix(v, t) PROVE Len(v) <= Len(x)
  <2>1. CASE v = Root
    <3>1. Len(v) = 0 /\ Len(x) \in Nat
      BY <1>4, <2>1, NodesAreWords
    <3> QED BY <3>1
  <2>2. CASE v # Root
    <3> DEFINE u == Front(v)  c == v[Len(v)]
    <3>1. u \in nodes /\ u \in Seq(Bytes) /\ c \in Bytes /\ v = Append(u, c)
      BY <2>2, FrontIsNode, NodesAreWords
    <3> HIDE DEF u, c
    <3>2. IsSuffix(u, lower(text)) /\ c = b
      BY <1>3, <1>6, <1>9, <3>1, SuffixAppend
    <3>3. IsSuffix(u, node_idx)
      BY <1>2, <1>6, <1>7, <3>1, <3>2, SuffixOfSuffix
    <3>4. IsSuffix(v, Append(node_idx, b))
      BY <1>2, <1>3, <3>1, <3>2, <3>3, SuffixAppend
    <3> QED BY <1>4, <3>4
  <2> QED BY <2>1, <2>2
<1> HIDE DEF t
<1>10. TrieInv' /\ RulesInv' /\ StartInv'
  BY <1>1 DEF TrieInv, RulesInv, StartInv
<1>11. DictRight(x) /\ \A n : EndsAt(n)' = EndsAt(n)
  BY <1>1, <1>2, <1>4 DEF LinkInv, EndsAt
<1>12. TypeInv'
  <2>1. EndsAt(x) \in 0..MaxRules
    <3>1. output[x] \in 0..MaxRules /\ (dict[x] # NIL => output[dict[x]] \in 0..MaxRules)
      BY <1>4 DEF TypeInv
    <3>2. NoClass \in 0..MaxRules
      BY DEF NoClass, ClassifierAssumption
    <3> QED BY <3>1, <3>2 DEF EndsAt
  <2> QED BY <1>1, <1>4, <1>6, <2>1 DEF TypeInv
<1>13. LinkInv' /\ LevelInv'
  <2>1. \A n : Behind(n)' = Behind(n) /\ Ends(n)' = Ends(n)
    BY <1>1 DEF Behind, Ends
  <2>2. \A n : (FailRight(n) => FailRight(n)') /\ (DictRight(n) => DictRight(n)')
    BY <1>1, <1>2, <2>1 DEF FailRight, DictRight
  <2>3. phase' \in {"scan", "done"} /\ to_visit' = <<>> /\ 1..Len(to_visit') = {}
    BY <1>1, EmptySeq DEF LevelInv
  <2>4. LinkInv'
    BY <1>1, <1>2, <2>2, <2>3 DEF LinkInv
  <2>5. LevelInv'
    BY <2>3, EmptySeq DEF LevelInv
  <2> QED BY <2>4, <2>5
<1>14. ScanInv'
  <2>1. EndsAt(x) = NoClass => \A u \in nodes : IsSuffix(u, t) => output[u] = NoClass
    BY <1>4, <1>6, <1>8, <1>9, <1>11, EndsAtRight
  <2>2. phase' = "done" <=> EndsAt(x) # NoClass
    BY <1>1
  <2>3. phase' = "done" => answer' = EndsAt(node_idx)' /\ answer' # NoClass
    <3>1. EndsAt(node_idx)' = EndsAt(x)
      BY <1>1 DEF EndsAt
    <3> QED BY <1>1, <2>2, <3>1
  <2> QED BY <1>1, <1>5, <1>8, <1>9, <2>1, <2>2, <2>3 DEF ScanInv
<1> QED BY <1>10, <1>12, <1>13, <1>14

\* Lemma: a step that changes nothing.
LEMMA ClassifierStutter ==
    ASSUME KCInv, UNCHANGED classifierVars PROVE KCInv'
<1> USE DEF KCInv
<1>1. UNCHANGED <<nodes, output, fail, dict, to_visit, phase, node_idx, answer, inserted, text>>
  BY DEF classifierVars
<1>2. Linked' = Linked /\ \A n : Behind(n)' = Behind(n) /\ Ends(n)' = Ends(n)
  BY <1>1 DEF Linked, Behind, Ends
<1>3. \A n : (FailRight(n) => FailRight(n)') /\ (DictRight(n) => DictRight(n)')
  BY <1>1, <1>2 DEF FailRight, DictRight
<1>4. TrieInv' /\ TypeInv' /\ RulesInv' /\ StartInv'
  BY <1>1 DEF TrieInv, TypeInv, RulesInv, StartInv
<1>5. LinkInv'
  BY <1>1, <1>2, <1>3 DEF LinkInv
<1>6. LevelInv'
  BY <1>1, <1>2 DEF LevelInv, Queued
<1>7. ScanInv'
  BY <1>1 DEF ScanInv, EndsAt
<1> QED BY <1>4, <1>5, <1>6, <1>7

\* Theorem: in every state a failure link leads to the longest proper suffix in
\* the trie, a dictionary link to the longest keyword, and the scan is at the
\* longest suffix of the text (KeywordClassifier::new() and classify()).
THEOREM ClassifierInvariant == ClassifierSpec => []KCInv
<1>1. ClassifierInit => KCInv
  BY ClassifierAssumption, ClassifierStarts
<1>2. KCInv /\ [ClassifierNext]_classifierVars => KCInv'
  <2> SUFFICES ASSUME KCInv, [ClassifierNext]_classifierVars PROVE KCInv'
    OBVIOUS
  <2>1. CASE \E w \in Keywords : AddRule(w)
    BY <2>1, ClassifierAssumption, AddRuleStep
  <2>2. CASE StartLinks
    BY <2>2, ClassifierAssumption, StartLinksStep
  <2>3. CASE LinkChildren
    BY <2>3, ClassifierAssumption, LinkChildrenStep
  <2>4. CASE StartScan
    BY <2>4, ClassifierAssumption, StartScanStep
  <2>5. CASE \E b \in Bytes : Scan(b)
    BY <2>5, ClassifierAssumption, ScanStep
  <2>6. CASE UNCHANGED classifierVars
    BY <2>6, ClassifierStutter
  <2> QED BY <2>1, <2>2, <2>3, <2>4, <2>5, <2>6 DEF ClassifierNext
<1> QED BY <1>1, <1>2, PTL DEF ClassifierSpec

\* Theorem: classify() reads no text on in which a keyword has ended, and answers
\* with the first rule of the longest keyword that ends there.
THEOREM FirstKeywordFound == ClassifierSpec => []FirstToEnd
<1>1. KCInv => FirstToEnd
  <2> SUFFICES ASSUME KCInv PROVE FirstToEnd
    OBVIOUS
  <2> USE DEF KCInv
  <2> DEFINE t == lower(text)  key(i) == lower(inserted[i])
  <2>1. t \in Seq(Bytes) /\ DOMAIN inserted = 1..Len(inserted)
    BY ClassifierAssumption, LowerProperties, LenProperties DEF TypeInv
  <2>2. \A u \in nodes : u \in Seq(Bytes) /\ Len(u) \in Nat
    BY ClassifierAssumption, NodesAreWords
  <2>3. \A i \in 1..Len(inserted) : key(i) \in nodes /\ output[key(i)] # NoClass
    BY DEF RulesInv
  <2>4. \A i : i \in Ending <=> i \in 1..Len(inserted) /\ IsSuffix(key(i), t)
    <3> SUFFICES ASSUME NEW i \in 1..Len(inserted)
                 PROVE  key(i) \in ProperSuffixes(t) \cup {t} <=> IsSuffix(key(i), t)
      BY <2>1 DEF Ending
    <3>1. key(i) \in Seq(Bytes)
      BY <2>2, <2>3
    <3> HIDE DEF key, t
    <3> QED BY <2>1, <3>1, SuffixIsSubSeq
  <2>5. ASSUME phase = "scan" PROVE Ending = {}
    <3>1. \A u \in nodes : IsSuffix(u, t) => output[u] = NoClass
      BY <2>5 DEF ScanInv
    <3> HIDE DEF key, t
    <3> QED BY <2>3, <2>4, <3>1
  <2>6. ASSUME phase = "done"
        PROVE  LET w == Longest({key(i) : i \in Ending})
               IN  /\ Ending # {}
                   /\ answer \in Ending /\ key(answer) = w
                   /\ \A i \in Ending : key(i) = w => answer <= i
    <3>1. /\ answer = EndsAt(node_idx) /\ answer # NoClass /\ IsSuffix(node_idx, t)
          /\ \A u \in nodes : IsSuffix(u, t) => Len(u) <= Len(node_idx)
      BY <2>6 DEF ScanInv
    <3>2. node_idx \in nodes /\ DictRight(node_idx)
      BY <2>6 DEF TypeInv, LinkInv
    <3> HIDE DEF t
    <3>3. PICK z \in nodes :
             /\ IsSuffix(z, t) /\ output[z] = answer
             /\ \A u \in nodes : IsSuffix(u, t) /\ output[u] # NoClass => Len(u) <= Len(z)
      BY <2>1, <3>1, <3>2, ClassifierAssumption, EndsAtRight
    <3>4. /\ answer \in 1..Len(inserted) /\ key(answer) = z
          /\ \A i \in 1..Len(inserted) : key(i) = z => answer <= i
      BY <3>1, <3>3 DEF RulesInv
    <3> HIDE DEF key
    <3> DEFINE S == {key(i) : i \in Ending}
    <3>5. answer \in Ending /\ z \in S
      BY <2>4, <3>3, <3>4
    <3>6. \A v \in S : v \in nodes /\ IsSuffix(v, t) /\ Len(v) <= Len(z)
      BY <2>3, <2>4, <3>3
    <3> HIDE DEF S
    <3>7. Longest(S) \in S /\ \A v \in S : Len(v) <= Len(Longest(S))
      BY <3>5, <3>6 DEF Longest
    <3> DEFINE w == Longest(S)
    <3> HIDE DEF w
    <3>8. w \in S /\ Len(z) <= Len(w)
      BY <3>5, <3>7 DEF w
    <3>9. w \in Seq(Bytes) /\ z \in Seq(Bytes) /\ IsSuffix(w, t) /\ Len(w) <= Len(z)
      BY <2>2, <3>6, <3>8
    <3>10. IsSuffix(w, z)
      BY <2>1, <3>3, <3>9, SuffixOfSuffix
    <3>11. w = z
      BY <3>8, <3>9, <3>10, SuffixSame
    <3> QED BY <2>4, <3>4, <3>5, <3>11 DEF S, w
  <2> QED BY <2>5, <2>6 DEF FirstToEnd
<1> QED BY <1>1, ClassifierInvariant, PTL
=============================================================================
