-------------------------- MODULE KeywordClassifier --------------------------
(***************************************************************************)
(* The text classifier of the Rust client (retry/keyword_classifier.rs):   *)
(* an Aho-Corasick automaton built from rules in order of priority, that   *)
(* reads a text once and answers with the class of a keyword in it.        *)
(*                                                                         *)
(* A node of the trie is named by the word that leads to it, so the root   *)
(* is <<>> and the child of n by byte b is Append(n, b).  One step inserts *)
(* a keyword, one links the children of a node (their order is that of a   *)
(* hash map), one reads a byte.                                            *)
(***************************************************************************)
EXTENDS Naturals, Sequences, FiniteSets

CONSTANTS Bytes,      \* the alphabet
          lowercase,  \* the lower case of each byte
          Keywords,   \* words the rules may use
          MaxRules,   \* bound: keywords inserted; the class of the nth is n
          MaxText     \* bound: bytes read

Root == <<>>
NIL == <<"nil">>     \* no link
NoClass == 0

ASSUME ClassifierAssumption ==
    /\ lowercase \in [Bytes -> Bytes]
    /\ \A b \in Bytes : lowercase[lowercase[b]] = lowercase[b]
    /\ Keywords \subseteq Seq(Bytes) \ {<<>>}
    /\ NIL \notin Seq(Bytes)
    /\ MaxRules \in Nat /\ MaxText \in Nat

VARIABLES
  nodes, output, fail, dict,  \* the trie: its nodes and what each holds
  to_visit,                   \* build_failure_links(): its queue of nodes
  phase,                      \* "insert", "link", "scan" or "done"
  node_idx, answer,           \* classify()
  inserted, text              \* history: the keywords in order, the bytes read

classifierVars == <<nodes, output, fail, dict, to_visit, phase, node_idx, answer,
                    inserted, text>>

lower(w) == [i \in DOMAIN w |-> lowercase[w[i]]]

Beginnings(w) == {SubSeq(w, 1, i) : i \in 0..Len(w)}

HasChild(n, b) == Append(n, b) \in nodes

Linked == {m \in nodes : m = Root \/ fail[m] # NIL}

\* The first node on the failure chain of n that has a child by b, or the root.
Walk(n, b) ==
    LET walk[m \in Linked] == IF m = Root \/ HasChild(m, b) THEN m ELSE walk[fail[m]]
    IN  walk[n]

\* What is reached from there.
Step(n, b) == IF HasChild(n, b) THEN Append(n, b) ELSE Root

-----------------------------------------------------------------------------
\* new(): the keywords one by one, then the links.

ClassifierInit ==
    /\ nodes = {Root} /\ output = [n \in {Root} |-> NoClass]
    /\ fail = [n \in {Root} |-> NIL] /\ dict = [n \in {Root} |-> NIL]
    /\ to_visit = <<>> /\ phase = "insert"
    /\ node_idx = Root /\ answer = NoClass
    /\ inserted = <<>> /\ text = <<>>

\* Extends f to the nodes the word adds.
Grown(f, new, default) == [n \in new |-> IF n \in nodes THEN f[n] ELSE default]

\* The first rule with a word keeps it.
insert(word, class) ==
    LET w   == lower(word)
        new == nodes \cup Beginnings(w)
    IN  /\ nodes' = new
        /\ output' = [Grown(output, new, NoClass) EXCEPT ![w] = IF @ = NoClass THEN class ELSE @]
        /\ fail' = Grown(fail, new, NIL) /\ dict' = Grown(dict, new, NIL)

AddRule(word) ==
    /\ phase = "insert" /\ Len(inserted) < MaxRules
    /\ insert(word, Len(inserted) + 1)
    /\ inserted' = Append(inserted, word)
    /\ UNCHANGED <<to_visit, phase, node_idx, answer, text>>

Children(n) == {m \in nodes : Len(m) = Len(n) + 1 /\ SubSeq(m, 1, Len(n)) = n}

\* The nodes of S in any order.
Orders(S) == {s \in [1..Cardinality(S) -> S] : \A m \in S : \E i \in DOMAIN s : s[i] = m}

\* The children of the root fail to the root.
StartLinks ==
    /\ phase = "insert"
    /\ \E s \in Orders(Children(Root)) : to_visit' = s
    /\ fail' = [n \in nodes |-> IF n \in Children(Root) THEN Root ELSE fail[n]]
    /\ phase' = "link"
    /\ UNCHANGED <<nodes, output, dict, node_idx, answer, inserted, text>>

\* Mutant: the failure link is not followed further than once.
FailOnce(n, b) == Step(fail[n], b)

FailOf(n, b) == Step(Walk(fail[n], b), b)

DictOf(f) == IF output[f] # NoClass THEN f ELSE dict[f]

LinkChildren ==
    LET n    == Head(to_visit)
        kids == Children(n)
        last(m) == m[Len(m)]
    IN  /\ phase = "link" /\ to_visit # <<>>
        /\ fail' = [m \in nodes |-> IF m \in kids THEN FailOf(n, last(m)) ELSE fail[m]]
        /\ dict' = [m \in nodes |-> IF m \in kids THEN DictOf(FailOf(n, last(m))) ELSE dict[m]]
        /\ \E s \in Orders(kids) : to_visit' = Tail(to_visit) \o s
        /\ UNCHANGED <<nodes, output, phase, node_idx, answer, inserted, text>>

-----------------------------------------------------------------------------
\* classify(): one byte per step, until a keyword ends.

StartScan ==
    /\ phase = "link" /\ to_visit = <<>>
    /\ phase' = "scan"
    /\ UNCHANGED <<nodes, output, fail, dict, to_visit, node_idx, answer, inserted, text>>

\* The class of a keyword that ends at n: its own, or a suffix's.
EndsAt(n) ==
    IF output[n] # NoClass THEN output[n]
    ELSE IF dict[n] # NIL THEN output[dict[n]] ELSE NoClass

Scan(byte) ==
    LET b == lowercase[byte]
        n == Step(Walk(node_idx, b), b)
    IN  /\ phase = "scan" /\ Len(text) < MaxText
        /\ text' = Append(text, byte)
        /\ node_idx' = n
        /\ answer' = EndsAt(n)
        /\ phase' = IF EndsAt(n) # NoClass THEN "done" ELSE phase
        /\ UNCHANGED <<nodes, output, fail, dict, to_visit, inserted>>

ClassifierNext ==
    \/ \E w \in Keywords : AddRule(w)
    \/ StartLinks \/ LinkChildren \/ StartScan
    \/ \E b \in Bytes : Scan(b)

ClassifierSpec == ClassifierInit /\ [][ClassifierNext]_classifierVars

-----------------------------------------------------------------------------
\* Properties.

\* The proper suffixes of a word, and the longest of a set of words.
ProperSuffixes(w) == {SubSeq(w, i, Len(w)) : i \in 2..Len(w) + 1}
Longest(S) == CHOOSE w \in S : \A v \in S : Len(v) <= Len(w)

\* The rules whose keyword ends the text that has been read.
Ending == {i \in DOMAIN inserted :
              lower(inserted[i]) \in ProperSuffixes(lower(text)) \cup {lower(text)}}

\* Safety: no text in which a keyword ended is read on, and the answer is the
\* class of the longest keyword that ends there, of the first rule that has it,
\* whatever the priority of the others.
FirstToEnd ==
    /\ phase = "scan" => Ending = {} \/ text = <<>>
    /\ phase = "done" =>
          LET w == Longest({lower(inserted[i]) : i \in Ending})
          IN  /\ Ending # {}
              /\ answer \in Ending /\ lower(inserted[answer]) = w
              /\ \A i \in Ending : lower(inserted[i]) = w => answer <= i

\* What the comments say (keyword_classifier.rs:52-53, :79-81): of the keywords in
\* the text that of the highest priority is the answer, also if two overlap.  Not
\* so when a keyword of a later rule is the longer one.
HighestPriority == phase = "done" => \A i \in Ending : answer <= i

=============================================================================
