------------------------- MODULE FailureTrackerProofs -------------------------
(***************************************************************************)
(* Theorems about the failure tracker of the Rust client, for any callers, *)
(* pairs and TTL: however the accesses of its methods interleave, no       *)
(* failure is lost, what failure_count() reports is recent, and a removal  *)
(* takes what it was meant for unless a failure was recorded meanwhile.    *)
(*                                                                         *)
(* A record trails what has begun: its count by the callers that have not  *)
(* added theirs (CountInv), its time by that of the latest failure         *)
(* (TimeInv).  A key a walk has collected still fits until somebody        *)
(* records a failure of it (TargetInv), and that is noticed (OverlapInv).  *)
(***************************************************************************)
EXTENDS FailureTracker, FiniteSetTheorems, TLAPS

RecordPlaces == {"get", "add", "stamp", "tag", "insert"}
CountPlaces  == {"look", "load", "read"}
Places       == {"idle", "scan", "remove"} \cup RecordPlaces \cup CountPlaces
Walks        == {"clear", "clear_class", "cleanup", "total"}
Classes      == {"blocked", "transient", "other"}

Jobs == [op : {"none", "record", "success", "count"} \cup Walks,
         pair : Pairs \cup {NoPair}, class : Classes, now : 0..MaxTime,
         todo : SUBSET Pairs, found : SUBSET Pairs, total : Nat]

Answers == [pair : Pairs \cup {NoPair}, asked : 0..MaxTime, count : Nat]

MapTypes ==
    /\ failures \in [Pairs -> Records] /\ now \in 0..MaxTime
    /\ begun \in [Pairs -> Nat] /\ latest \in [Pairs -> 0..MaxTime]
    /\ removing \subseteq Pairs

CallerTypes ==
    /\ pc \in [Callers -> Places]
    /\ job \in [Callers -> Jobs] /\ answer \in [Callers -> Answers]
    /\ guard \in [Callers -> Pairs \cup {NoPair}]
    /\ overlaps \in [Callers -> SUBSET Pairs]

\* A caller is at a place of what it was called for, with keys collected only
\* where they are removed.
Place(c) ==
    /\ pc[c] \in RecordPlaces <=> pc[c] # "idle" /\ job[c].op = "record"
    /\ pc[c] \in CountPlaces => job[c].op = "count"
    /\ pc[c] = "scan" => job[c].op \in Walks
    /\ pc[c] \in RecordPlaces \cup CountPlaces => job[c].pair \in Pairs
    /\ pc[c] \notin {"scan", "remove"} => job[c].found = {}
    /\ job[c].found \subseteq removing

PlaceInv == \A c \in Callers : Place(c)

\* A record is not younger than the latest failure of its pair.
Aged(p) == latest[p] <= now /\ failures[p].last <= latest[p]

TimeInv ==
    /\ \A p \in Pairs : Aged(p)
    /\ \A c \in Callers :
          /\ job[c].now <= now
          /\ pc[c] \in RecordPlaces => job[c].now <= latest[job[c].pair]

\* A count lacks at least the failures that are being added.
Counted(p) == failures[p].count + Cardinality(Uncounted(p)) <= begun[p]

CountInv == \A p \in Pairs : Counted(p)

\* What is about to be reported is recent.
ReadInv ==
    \A c \in Callers :
       /\ pc[c] = "read" => Age(job[c].now, latest[job[c].pair]) <= Ttl
       /\ answer[c].count > 0 => answer[c].pair \in Pairs

\* A failure recorded during a call is noticed by it.
OverlapInv ==
    \A c, d \in Callers :
       c # d /\ pc[c] # "idle" /\ pc[d] \in RecordPlaces => job[d].pair \in overlaps[c]

\* A key that was collected still fits what was asked for, unless a failure of
\* it was recorded meanwhile.
Fits(c, p) ==
    p \in job[c].found /\ p \notin overlaps[c] /\ Present(p) =>
       /\ job[c].op \in {"count", "cleanup"} => Expired(job[c].now, failures[p].last)
       /\ job[c].op = "clear_class" => failures[p].class = job[c].class

TargetInv == \A c \in Callers, p \in Pairs : Fits(c, p)

TrackerInv ==
    /\ MapTypes /\ CallerTypes /\ PlaceInv /\ TimeInv /\ CountInv /\ NoFailureLost
    /\ ReadInv /\ CountIsRecent /\ OverlapInv /\ TargetInv

-----------------------------------------------------------------------------
\* Lemma: the types the steps below rest on.
LEMMA MapTypesAre ==
    ASSUME TrackerAssumption, TrackerInv
    PROVE  /\ failures \in [Pairs -> Records] /\ now \in 0..MaxTime
           /\ begun \in [Pairs -> Nat] /\ latest \in [Pairs -> 0..MaxTime]
           /\ removing \subseteq Pairs /\ MaxTime \in Nat /\ Ttl \in Nat
           /\ NoPair \notin Pairs
           /\ \A p \in Pairs : /\ failures[p].count \in Nat /\ failures[p].last \in 0..MaxTime
                               /\ failures[p] \in Records
BY DEF TrackerInv, MapTypes, Records

\* Lemma: and those of the callers.
LEMMA CallerTypesAre ==
    ASSUME TrackerInv
    PROVE  /\ pc \in [Callers -> Places]
           /\ job \in [Callers -> Jobs] /\ answer \in [Callers -> Answers]
           /\ guard \in [Callers -> Pairs \cup {NoPair}]
           /\ overlaps \in [Callers -> SUBSET Pairs]
           /\ \A c \in Callers : /\ job[c].pair \in Pairs \cup {NoPair} /\ job[c].now \in 0..MaxTime
                                 /\ job[c].class \in Classes /\ job[c].found \subseteq Pairs
                                 /\ job[c].todo \subseteq Pairs /\ job[c].total \in Nat
BY DEF TrackerInv, CallerTypes, Jobs

\* Lemma: what a caller that holds or looks for a record was called with.
LEMMA PairIsKnown ==
    ASSUME TrackerInv, NEW c \in Callers, pc[c] \in RecordPlaces \cup CountPlaces
    PROVE  job[c].pair \in Pairs /\ job[c].found = {}
BY DEF TrackerInv, PlaceInv, Place, RecordPlaces, CountPlaces

\* Lemma: the failures being added are finitely many.
LEMMA UncountedIsFinite ==
    ASSUME TrackerAssumption, NEW p
    PROVE  IsFiniteSet(Uncounted(p)) /\ Cardinality(Uncounted(p)) \in Nat
BY FS_Subset, FS_CardinalityType DEF Uncounted

\* Lemma: a record never counts more than was begun.
LEMMA CountIsBounded ==
    ASSUME TrackerAssumption, TrackerInv, NEW p \in Pairs
    PROVE  failures[p].count <= begun[p]
BY UncountedIsFinite, MapTypesAre DEF TrackerInv, CountInv, Counted

\* What a step leaves of the account of a pair: what it counts or begins to
\* count is what was begun, or the pair is removed.
Balanced(p) ==
    LET owed  == Cardinality(Uncounted(p))
        owes  == Cardinality(Uncounted(p)')
    IN  /\ failures'[p].count + owes + begun[p] <= failures[p].count + owed + begun'[p]
        /\ p \notin removing' =>
              failures'[p].count + owes + begun[p] = failures[p].count + owed + begun'[p]

\* Lemma: a step that adds no failure and begins none.
LEMMA Quiet ==
    ASSUME NEW p, Uncounted(p)' = Uncounted(p), failures'[p].count = failures[p].count,
           begun'[p] = begun[p], failures[p].count \in Nat, begun[p] \in Nat,
           Cardinality(Uncounted(p)) \in Nat
    PROVE  Balanced(p)
BY DEF Balanced

\* What a call begins with: its job what, and its place.
Starts(what, where) ==
    /\ what \in Jobs /\ what.now = now
    /\ \/ /\ what.op = "record" /\ where = "get" /\ what.pair \in Pairs /\ what.found = {}
          /\ begun' = [begun EXCEPT ![what.pair] = begun[what.pair] + 1]
          /\ latest' = [latest EXCEPT ![what.pair] = now]
          /\ removing' = removing
       \/ /\ what.op = "success" /\ where = "remove" /\ what.found \subseteq removing'
          /\ UNCHANGED <<begun, latest>>
          /\ removing' \in SUBSET Pairs /\ removing \subseteq removing'
       \/ /\ what.op = "count" /\ where = "look" /\ what.pair \in Pairs /\ what.found = {}
          /\ UNCHANGED <<begun, latest, removing>>
       \/ /\ what.op \in Walks /\ where = "scan" /\ what.found = {}
          /\ UNCHANGED <<begun, latest, removing>>

\* Lemma: every method of the tracker begins in this way.
LEMMA CallStarts ==
    ASSUME TrackerAssumption, TrackerInv, NEW c \in Callers, Call(c)
    PROVE  \E what \in Jobs : \E where : Begin(c, where, what) /\ Starts(what, where)
<1> USE DEF Jobs, Walks, Classes, class_code, history, NoJob
<1>0. now \in 0..MaxTime /\ removing \subseteq Pairs
  BY MapTypesAre
<1>1. ASSUME NEW p \in Pairs, RecordSuccess(c, p)
      PROVE  \E what \in Jobs : \E where : Begin(c, where, what) /\ Starts(what, where)
  <2> DEFINE w == [NoJob EXCEPT !.op = "success", !.pair = p, !.found = {p}, !.now = now]
  <2>1. w \in Jobs
    BY <1>0
  <2>2. Starts(w, "remove")
    BY <1>0, <1>1, <2>1 DEF Starts, RecordSuccess
  <2> QED BY <1>1, <2>1, <2>2 DEF RecordSuccess
<1>2. ASSUME NEW p \in Pairs, FailureCount(c, p)
      PROVE  \E what \in Jobs : \E where : Begin(c, where, what) /\ Starts(what, where)
  <2> DEFINE w == [NoJob EXCEPT !.op = "count", !.pair = p, !.now = now]
  <2>1. w \in Jobs
    BY <1>0
  <2>2. Starts(w, "look")
    BY <1>0, <1>2, <2>1 DEF Starts, FailureCount
  <2> QED BY <1>2, <2>1, <2>2 DEF FailureCount
<1>3. ASSUME NEW p \in Pairs, NEW class \in ErrorClasses, RecordFailure(c, p, class)
      PROVE  \E what \in Jobs : \E where : Begin(c, where, what) /\ Starts(what, where)
  <2> DEFINE w == [NoJob EXCEPT !.op = "record", !.pair = p, !.class = class_code(class),
                                !.now = now]
  <2>1. w \in Jobs
    BY <1>0
  <2>2. Starts(w, "get")
    BY <1>0, <1>3, <2>1 DEF Starts, RecordFailure
  <2> QED BY <1>3, <2>1, <2>2 DEF RecordFailure
<1>4. ASSUME NEW o \in Walks, NEW todo \in SUBSET Pairs, NEW class, Walk(c, o, todo, class)
      PROVE  \E what \in Jobs : \E where : Begin(c, where, what) /\ Starts(what, where)
  <2> DEFINE w == [NoJob EXCEPT !.op = o, !.todo = todo, !.class = class_code(class),
                                !.now = now]
  <2>1. w \in Jobs
    BY <1>0
  <2>2. Starts(w, "scan")
    BY <1>0, <1>4, <2>1 DEF Starts, Walk
  <2> QED BY <1>4, <2>1, <2>2 DEF Walk
<1>5. \A d : OfDomain(d) \in SUBSET Pairs
  BY DEF OfDomain
<1>6. ASSUME Cleanup(c) \/ \E d \in Domains : \/ Clear(c, d) \/ TotalFailureCount(c, d)
                                              \/ \E class \in ErrorClasses : ClearClass(c, d, class)
      PROVE  \E o \in Walks : \E todo \in SUBSET Pairs : \E class : Walk(c, o, todo, class)
  BY <1>5, <1>6 DEF Cleanup, Clear, TotalFailureCount, ClearClass
<1> QED BY <1>1, <1>2, <1>3, <1>4, <1>6 DEF Call


\* What a step leaves of the job of its caller, where it collects or removes keys.
Keeps(c, w) ==
    /\ w \in Jobs /\ w.op = job[c].op /\ w.pair = job[c].pair
    /\ w.class = job[c].class /\ w.now = job[c].now
    /\ job' = [job EXCEPT ![c] = w]

Walked(c, p, w) ==
    /\ Keeps(c, w) /\ w.found = job[c].found \cup {q \in {p} : Collects(c, q)}
    /\ removing' = removing \cup w.found
    /\ \/ Goto(c, "scan") \/ Goto(c, "remove")
       \/ w.found = {} /\ Goto(c, "idle")

Removed(c, p, w) ==
    /\ Keeps(c, w) /\ w.found = job[c].found \ {p}
    /\ failures' = [failures EXCEPT ![p] = Absent]
    /\ \/ Goto(c, "remove")
       \/ w.found = {} /\ Goto(c, "idle")

Evicted(c, w) ==
    /\ Keeps(c, w) /\ w.found = {job[c].pair} /\ removing' = removing \cup w.found
    /\ Goto(c, "remove") /\ Hold(c, NoPair)

\* Lemma: a step of a walk, with the job it leaves.
LEMMA Scans ==
    ASSUME TrackerAssumption, TrackerInv, NEW c \in Callers, Scan(c)
    PROVE  \E p \in job[c].todo : \E w \in Jobs : Walked(c, p, w)
<1>1. PICK p \in job[c].todo : 
         LET found == job[c].found \cup {q \in {p} : Collects(c, q)}
             left  == job[c].todo \ {p}
             total == job[c].total + Adds(c, p)
         IN  /\ job' = [job EXCEPT ![c].todo = left, ![c].found = found, ![c].total = total]
             /\ removing' = removing \cup found
             /\ Goto(c, IF left # {} THEN "scan"
                        ELSE IF found # {} THEN "remove" ELSE "idle")
  BY DEF Scan
<1> DEFINE found == job[c].found \cup {q \in {p} : Collects(c, q)}
           left  == job[c].todo \ {p}
           total == job[c].total + Adds(c, p)
           w     == [job[c] EXCEPT !.todo = left, !.found = found, !.total = total]
<1>2. p \in Pairs /\ job[c] \in Jobs /\ job \in [Callers -> Jobs]
  BY CallerTypesAre
<1>3. Adds(c, p) \in Nat
  BY <1>2, MapTypesAre DEF Adds
<1>4. left \in SUBSET Pairs /\ found \in SUBSET Pairs /\ total \in Nat
  BY <1>2, <1>3, CallerTypesAre
<1>5. /\ w \in Jobs /\ w.op = job[c].op /\ w.pair = job[c].pair /\ w.class = job[c].class
      /\ w.now = job[c].now /\ w.found = found
  BY <1>2, <1>4 DEF Jobs
<1>6. job' = [job EXCEPT ![c] = w]
  BY <1>1, <1>2 DEF Jobs
<1>7. \/ Goto(c, "scan") \/ Goto(c, "remove")
      \/ found = {} /\ Goto(c, "idle")
  BY <1>1
<1>8. removing' = removing \cup found
  BY <1>1
<1> HIDE DEF w
<1> QED BY <1>5, <1>6, <1>7, <1>8 DEF Walked, Keeps

\* Lemma: a removal of one key, with the job it leaves.
LEMMA RemovesOne ==
    ASSUME TrackerInv, NEW c \in Callers, Remove(c)
    PROVE  \E p \in job[c].found : \E w \in Jobs : Removed(c, p, w)
<1>1. PICK p \in job[c].found :
         /\ failures' = [failures EXCEPT ![p] = Absent]
         /\ job' = [job EXCEPT ![c].found = @ \ {p}]
         /\ Goto(c, IF job[c].found = {p} THEN "idle" ELSE "remove")
  BY DEF Remove
<1> DEFINE w == [job[c] EXCEPT !.found = @ \ {p}]
<1>2. job[c] \in Jobs /\ job \in [Callers -> Jobs] /\ job[c].found \in SUBSET Pairs
  BY CallerTypesAre
<1>3. /\ w \in Jobs /\ w.op = job[c].op /\ w.pair = job[c].pair /\ w.class = job[c].class
      /\ w.now = job[c].now /\ w.found = job[c].found \ {p}
  BY <1>2 DEF Jobs
<1>4. job' = [job EXCEPT ![c] = w]
  BY <1>1, <1>2
<1>5. \/ Goto(c, "remove")
      \/ w.found = {} /\ Goto(c, "idle")
  BY <1>1, <1>3
<1> HIDE DEF w
<1> QED BY <1>1, <1>3, <1>4, <1>5 DEF Removed, Keeps

\* Lemma: an expired record is collected by the call that counts it.
LEMMA Evicts ==
    ASSUME TrackerInv, NEW c \in Callers, Load(c), FoundExpired(c)
    PROVE  \E w \in Jobs : Evicted(c, w)
<1> DEFINE w == [job[c] EXCEPT !.found = {job[c].pair}]
<1>1. /\ job[c] \in Jobs /\ job \in [Callers -> Jobs] /\ {job[c].pair} \in SUBSET Pairs
  BY CallerTypesAre, PairIsKnown DEF Load, CountPlaces
<1>2. /\ w \in Jobs /\ w.op = job[c].op /\ w.pair = job[c].pair /\ w.class = job[c].class
      /\ w.now = job[c].now /\ w.found = {job[c].pair}
  BY <1>1 DEF Jobs
<1>3. job' = [job EXCEPT ![c] = w]
  BY <1>1 DEF Load, Evict
<1>4. removing' = removing \cup {job[c].pair} /\ Goto(c, "remove") /\ Hold(c, NoPair)
  BY DEF Load, Evict
<1> HIDE DEF w
<1> QED BY <1>2, <1>3, <1>4 DEF Evicted, Keeps

\* Lemma: the map and the clock keep their types.
LEMMA MapStep ==
    ASSUME TrackerAssumption, TrackerInv, [Next]_vars PROVE MapTypes'
<1>1. CASE Tick
  BY <1>1, MapTypesAre DEF Tick, history, MapTypes
<1>2. ASSUME NEW c \in Callers, Call(c) PROVE MapTypes'
  <2>1. PICK what, where : Begin(c, where, what) /\ Starts(what, where)
    BY <1>2, CallStarts
  <2>2. what.pair \in Pairs => begun[what.pair] + 1 \in Nat
    BY MapTypesAre
  <2>3. begun' \in [Pairs -> Nat]
    BY <2>1, <2>2, MapTypesAre DEF Starts
  <2>4. latest' \in [Pairs -> 0..MaxTime]
    BY <2>1, MapTypesAre DEF Starts
  <2>5. removing' \subseteq Pairs
    BY <2>1, MapTypesAre DEF Starts
  <2> QED BY <2>1, <2>3, <2>4, <2>5, MapTypesAre DEF Begin, MapTypes
<1>3. ASSUME NEW c \in Callers, Get(c) PROVE MapTypes'
  BY <1>3, MapTypesAre DEF Get, history, MapTypes
<1>4. ASSUME NEW c \in Callers, Add(c) PROVE MapTypes'
  <2> DEFINE p == job[c].pair
             n == failures[p].count + 1
  <2>1. p \in Pairs /\ failures[p] \in Records
    BY <1>4, MapTypesAre, PairIsKnown DEF Add, RecordPlaces
  <2>2. n \in Nat
    BY <2>1 DEF Records
  <2>3. [failures[p] EXCEPT !.count = n] \in Records
    <3> HIDE DEF n
    <3> QED BY <2>1, <2>2 DEF Records
  <2>4. failures' = [failures EXCEPT ![p] = [failures[p] EXCEPT !.count = n]]
    BY <1>4, <2>1 DEF Add
  <2> QED BY <1>4, <2>1, <2>3, <2>4, MapTypesAre DEF Add, history, MapTypes
<1>5. ASSUME NEW c \in Callers, Stamp(c) PROVE MapTypes'
  <2> DEFINE p == job[c].pair
             r == [failures[p] EXCEPT !.last = job[c].now]
  <2>1. p \in Pairs /\ failures[p] \in Records /\ job[c].now \in 0..MaxTime
    BY <1>5, MapTypesAre, CallerTypesAre, PairIsKnown DEF Stamp, RecordPlaces
  <2>2. r \in Records
    BY <2>1 DEF Records
  <2>3. failures' = [failures EXCEPT ![p] = r]
    BY <1>5, <2>1 DEF Stamp
  <2> QED BY <1>5, <2>1, <2>2, <2>3, MapTypesAre DEF Stamp, history, MapTypes
<1>6. ASSUME NEW c \in Callers, Tag(c) PROVE MapTypes'
  <2> DEFINE p == job[c].pair
             r == [failures[p] EXCEPT !.class = job[c].class]
  <2>1. p \in Pairs /\ failures[p] \in Records /\ job[c].now \in 0..MaxTime
    BY <1>6, MapTypesAre, CallerTypesAre, PairIsKnown DEF Tag, RecordPlaces
  <2>2. r \in Records
    BY <2>1, CallerTypesAre DEF Records, Classes
  <2>3. failures' = [failures EXCEPT ![p] = r]
    BY <1>6, <2>1 DEF Tag
  <2> QED BY <1>6, <2>1, <2>2, <2>3, MapTypesAre DEF Tag, history, MapTypes
<1>7. ASSUME NEW c \in Callers, Insert(c) PROVE MapTypes'
  <2> DEFINE p == job[c].pair
             r == EntryValue(c)
  <2>1. p \in Pairs /\ failures[p] \in Records /\ job[c].now \in 0..MaxTime
    BY <1>7, MapTypesAre, CallerTypesAre, PairIsKnown DEF Insert, RecordPlaces
  <2>2. r \in Records
    BY <2>1, CallerTypesAre DEF Records, Classes, EntryValue, NewRecord
  <2>3. failures' = [failures EXCEPT ![p] = r]
    BY <1>7, <2>1 DEF Insert
  <2> QED BY <1>7, <2>1, <2>2, <2>3, MapTypesAre DEF Insert, history, MapTypes
<1>8. ASSUME NEW c \in Callers, Remove(c) PROVE MapTypes'
  <2>1. PICK p \in job[c].found, w \in Jobs : Removed(c, p, w)
    BY <1>8, RemovesOne
  <2>2. Absent \in Records
    BY DEF Absent, Records
  <2> QED BY <1>8, <2>1, <2>2, MapTypesAre DEF Remove, Removed, history, MapTypes
<1>9. ASSUME NEW c \in Callers, Look(c) PROVE MapTypes'
  BY <1>9, MapTypesAre DEF Look, history, MapTypes
<1>10. ASSUME NEW c \in Callers, Load(c) PROVE MapTypes'
  <2>1. CASE FoundExpired(c)
    <3>1. PICK w \in Jobs : Evicted(c, w)
      BY <1>10, <2>1, Evicts
    <3>2. w.found \in SUBSET Pairs
      BY DEF Jobs
    <3> QED BY <1>10, <3>1, <3>2, MapTypesAre DEF Load, Evicted, history, MapTypes
  <2>2. CASE ~FoundExpired(c)
    BY <2>2, <1>10, MapTypesAre DEF Load, history, MapTypes
  <2> QED BY <2>1, <2>2
<1>11. ASSUME NEW c \in Callers, Read(c) PROVE MapTypes'
  BY <1>11, MapTypesAre DEF Read, history, MapTypes
<1>12. ASSUME NEW c \in Callers, Scan(c) PROVE MapTypes'
  <2>1. PICK p \in job[c].todo, w \in Jobs : Walked(c, p, w)
    BY <1>12, Scans
  <2>2. w.found \in SUBSET Pairs
    BY DEF Jobs
  <2> QED BY <1>12, <2>1, <2>2, MapTypesAre DEF Scan, Walked, history, MapTypes
<1>13. CASE UNCHANGED vars
  BY <1>13, MapTypesAre DEF vars, MapTypes
<1> QED BY <1>1, <1>2, <1>3, <1>4, <1>5, <1>6, <1>7, <1>8, <1>9, <1>10, <1>11, <1>12,
           <1>13
   DEF Next, Step

\* Lemma: so do the callers' places and their jobs.
LEMMA CallerStep ==
    ASSUME TrackerAssumption, TrackerInv, [Next]_vars PROVE CallerTypes'
<1>1. CASE Tick
  BY <1>1, CallerTypesAre DEF Tick, CallerTypes
<1>2. ASSUME NEW c \in Callers, Call(c) PROVE CallerTypes'
  <2>1. PICK what, where : Begin(c, where, what) /\ Starts(what, where)
    BY <1>2, CallStarts
  <2>2. where \in Places
    BY <2>1 DEF Starts, Places, RecordPlaces, CountPlaces
  <2>3. overlaps' \in [Callers -> SUBSET Pairs]
    <3>1. \A e \in Callers : Recording(e) => job[e].pair \in Pairs
      BY DEF Recording, TrackerInv, PlaceInv, Place
    <3>2. what.op = "record" => what.pair \in Pairs
      BY <2>1 DEF Starts, Walks
    <3>3. {job[e].pair : e \in {e \in Callers : Recording(e)}} \in SUBSET Pairs
      BY <3>1
    <3> QED BY <2>1, <3>2, <3>3, CallerTypesAre DEF Begin
  <2>4. pc' \in [Callers -> Places] /\ UNCHANGED <<guard, answer>>
    BY <2>1, <2>2, CallerTypesAre DEF Begin
  <2>5. job' \in [Callers -> Jobs]
    <3>1. what \in Jobs /\ job' = [job EXCEPT ![c] = what]
      BY <2>1 DEF Begin, Starts
    <3> QED BY <3>1, CallerTypesAre
  <2> QED BY <2>3, <2>4, <2>5, CallerTypesAre DEF CallerTypes
<1>3. ASSUME NEW c \in Callers, Get(c) PROVE CallerTypes'
  <2>1. pc' \in [Callers -> Places]
    BY <1>3, CallerTypesAre DEF Get, Goto, Places, RecordPlaces
  <2>2. guard' \in [Callers -> Pairs \cup {NoPair}]
    BY <1>3, CallerTypesAre DEF Get, Hold
  <2> QED BY <1>3, <2>1, <2>2, CallerTypesAre DEF Get, CallerTypes
<1>4. ASSUME NEW c \in Callers, Add(c) PROVE CallerTypes'
  <2>1. pc' \in [Callers -> Places]
    BY <1>4, CallerTypesAre DEF Add, Goto, Places, RecordPlaces
  <2>2. guard' \in [Callers -> Pairs \cup {NoPair}]
    BY <1>4, CallerTypesAre DEF Add
  <2> QED BY <1>4, <2>1, <2>2, CallerTypesAre DEF Add, CallerTypes
<1>5. ASSUME NEW c \in Callers, Stamp(c) PROVE CallerTypes'
  <2>1. pc' \in [Callers -> Places]
    BY <1>5, CallerTypesAre DEF Stamp, Goto, Places, RecordPlaces
  <2>2. guard' \in [Callers -> Pairs \cup {NoPair}]
    BY <1>5, CallerTypesAre DEF Stamp
  <2> QED BY <1>5, <2>1, <2>2, CallerTypesAre DEF Stamp, CallerTypes
<1>6. ASSUME NEW c \in Callers, Tag(c) PROVE CallerTypes'
  <2>1. pc' \in [Callers -> Places]
    BY <1>6, CallerTypesAre DEF Tag, Goto, Places
  <2>2. guard' \in [Callers -> Pairs \cup {NoPair}]
    BY <1>6, CallerTypesAre DEF Tag, Hold
  <2> QED BY <1>6, <2>1, <2>2, CallerTypesAre DEF Tag, CallerTypes
<1>7. ASSUME NEW c \in Callers, Insert(c) PROVE CallerTypes'
  <2>1. pc' \in [Callers -> Places]
    BY <1>7, CallerTypesAre DEF Insert, Goto, Places
  <2>2. guard' \in [Callers -> Pairs \cup {NoPair}]
    BY <1>7, CallerTypesAre DEF Insert
  <2> QED BY <1>7, <2>1, <2>2, CallerTypesAre DEF Insert, CallerTypes
<1>8. ASSUME NEW c \in Callers, Remove(c) PROVE CallerTypes'
  <2>1. PICK p \in job[c].found, w \in Jobs : Removed(c, p, w)
    BY <1>8, RemovesOne
  <2>2. job' \in [Callers -> Jobs]
    BY <2>1, CallerTypesAre DEF Removed, Keeps
  <2>3. pc' \in [Callers -> Places]
    BY <2>1, CallerTypesAre DEF Removed, Goto, Places
  <2>4. answer' \in [Callers -> Answers]
    <3>1. [pair |-> job[c].pair, asked |-> job[c].now, count |-> 0] \in Answers
      BY CallerTypesAre DEF Answers
    <3> QED BY <1>8, <3>1, CallerTypesAre DEF Remove, Answer
  <2> QED BY <1>8, <2>2, <2>3, <2>4, CallerTypesAre DEF Remove, CallerTypes
<1>9. ASSUME NEW c \in Callers, Look(c) PROVE CallerTypes'
  <2>1. pc' \in [Callers -> Places]
    BY <1>9, CallerTypesAre DEF Look, Goto, Places, CountPlaces
  <2>2. guard' \in [Callers -> Pairs \cup {NoPair}]
    BY <1>9, CallerTypesAre DEF Look, Hold
  <2>3. answer' \in [Callers -> Answers]
    <3>1. [pair |-> job[c].pair, asked |-> job[c].now,
            count |-> 0] \in Answers
      BY <1>9, CallerTypesAre DEF Answers
    <3> QED BY <1>9, <3>1, CallerTypesAre DEF Look, Answer
  <2> QED BY <1>9, <2>1, <2>2, <2>3, CallerTypesAre DEF Look, CallerTypes
<1>10. ASSUME NEW c \in Callers, Load(c) PROVE CallerTypes'
  <2>1. CASE FoundExpired(c)
    <3>1. PICK w \in Jobs : Evicted(c, w)
      BY <1>10, <2>1, Evicts
    <3>2. job' \in [Callers -> Jobs]
      BY <3>1, CallerTypesAre DEF Evicted, Keeps
    <3>3. pc' \in [Callers -> Places]
      BY <3>1, CallerTypesAre DEF Evicted, Goto, Places
    <3>4. guard' \in [Callers -> Pairs \cup {NoPair}]
      BY <3>1, CallerTypesAre DEF Evicted, Hold
    <3> QED BY <1>10, <3>2, <3>3, <3>4, CallerTypesAre DEF Load, CallerTypes
  <2>2. CASE ~FoundExpired(c)
    <3>1. pc' \in [Callers -> Places]
      BY <2>2, <1>10, CallerTypesAre DEF Load, Goto, Places, CountPlaces
    <3> QED BY <2>2, <3>1, <1>10, CallerTypesAre DEF Load, CallerTypes
  <2> QED BY <2>1, <2>2
<1>11. ASSUME NEW c \in Callers, Read(c) PROVE CallerTypes'
  <2>1. pc' \in [Callers -> Places]
    BY <1>11, CallerTypesAre DEF Read, Goto, Places
  <2>2. guard' \in [Callers -> Pairs \cup {NoPair}]
    BY <1>11, CallerTypesAre DEF Read, Hold
  <2>3. answer' \in [Callers -> Answers]
    <3>1. [pair |-> job[c].pair, asked |-> job[c].now,
            count |-> failures[job[c].pair].count] \in Answers
      BY <1>11, CallerTypesAre, MapTypesAre, PairIsKnown DEF Answers, Read, CountPlaces
    <3> QED BY <1>11, <3>1, CallerTypesAre DEF Read, Answer
  <2> QED BY <1>11, <2>1, <2>2, <2>3, CallerTypesAre DEF Read, CallerTypes
<1>12. ASSUME NEW c \in Callers, Scan(c) PROVE CallerTypes'
  <2>1. PICK p \in job[c].todo, w \in Jobs : Walked(c, p, w)
    BY <1>12, Scans
  <2>2. job' \in [Callers -> Jobs]
    BY <2>1, CallerTypesAre DEF Walked, Keeps
  <2>3. pc' \in [Callers -> Places]
    BY <2>1, CallerTypesAre DEF Walked, Goto, Places
  <2> QED BY <1>12, <2>2, <2>3, CallerTypesAre DEF Scan, CallerTypes
<1>13. CASE UNCHANGED vars
  BY <1>13, CallerTypesAre DEF vars, CallerTypes
<1> QED BY <1>1, <1>2, <1>3, <1>4, <1>5, <1>6, <1>7, <1>8, <1>9, <1>10, <1>11, <1>12,
           <1>13
   DEF Next, Step

\* Lemma: every caller stays at a place of its job.
LEMMA PlaceStep ==
    ASSUME TrackerAssumption, TrackerInv, [Next]_vars PROVE PlaceInv'
<1>1. CASE Tick
  BY <1>1 DEF Tick, TrackerInv, PlaceInv, Place
<1>2. ASSUME NEW c \in Callers, Call(c) PROVE PlaceInv'
  <2>1. PICK what, where : Begin(c, where, what) /\ Starts(what, where)
    BY <1>2, CallStarts
  <2> QED BY <2>1, CallerTypesAre
     DEF Begin, Starts, TrackerInv, PlaceInv, Place, RecordPlaces, CountPlaces, Walks
<1>3. ASSUME NEW c \in Callers, Get(c) PROVE PlaceInv'
  BY <1>3, CallerTypesAre
     DEF Get, Goto, TrackerInv, PlaceInv, Place, RecordPlaces, CountPlaces
<1>4. ASSUME NEW c \in Callers, Add(c) PROVE PlaceInv'
  BY <1>4 DEF Add, Goto, TrackerInv, PlaceInv, Place, RecordPlaces, CountPlaces
<1>5. ASSUME NEW c \in Callers, Stamp(c) PROVE PlaceInv'
  BY <1>5 DEF Stamp, Goto, TrackerInv, PlaceInv, Place, RecordPlaces, CountPlaces
<1>6. ASSUME NEW c \in Callers, Tag(c) PROVE PlaceInv'
  BY <1>6 DEF Tag, Goto, TrackerInv, PlaceInv, Place, RecordPlaces, CountPlaces
<1>7. ASSUME NEW c \in Callers, Insert(c) PROVE PlaceInv'
  BY <1>7 DEF Insert, Goto, TrackerInv, PlaceInv, Place, RecordPlaces, CountPlaces
<1>8. ASSUME NEW c \in Callers, Remove(c) PROVE PlaceInv'
  <2>1. PICK p \in job[c].found, w \in Jobs : Removed(c, p, w)
    BY <1>8, RemovesOne
  <2> QED BY <2>1, <1>8, CallerTypesAre
     DEF Remove, Goto, TrackerInv, PlaceInv, Place, RecordPlaces, CountPlaces
<1>9. ASSUME NEW c \in Callers, Look(c) PROVE PlaceInv'
  BY <1>9, CallerTypesAre
     DEF Look, Goto, TrackerInv, PlaceInv, Place, RecordPlaces, CountPlaces
<1>10. ASSUME NEW c \in Callers, Load(c) PROVE PlaceInv'
  <2>1. CASE FoundExpired(c)
    <3>1. PICK w \in Jobs : Evicted(c, w)
      BY <1>10, <2>1, Evicts
    <3> QED BY <3>1, <1>10, CallerTypesAre
       DEF Load, Evicted, Keeps, Goto, TrackerInv, PlaceInv, Place, RecordPlaces,
           CountPlaces
  <2>2. CASE ~FoundExpired(c)
    BY <2>2, <1>10, CallerTypesAre
       DEF Load, Goto, TrackerInv, PlaceInv, Place, RecordPlaces, CountPlaces
  <2> QED BY <2>1, <2>2
<1>11. ASSUME NEW c \in Callers, Read(c) PROVE PlaceInv'
  BY <1>11 DEF Read, Goto, TrackerInv, PlaceInv, Place, RecordPlaces, CountPlaces
<1>12. ASSUME NEW c \in Callers, Scan(c) PROVE PlaceInv'
  <2>1. PICK p \in job[c].todo, w \in Jobs : Walked(c, p, w)
    BY <1>12, Scans
  <2>2. /\ pc[c] = "scan" /\ job[c].op \in Walks
        /\ UNCHANGED <<failures, now, guard, answer, overlaps, begun, latest>>
    BY <1>12 DEF Scan, history, TrackerInv, PlaceInv, Place
  <2> QED BY <2>1, <2>2, CallerTypesAre
     DEF Walked, Keeps, Goto, TrackerInv, PlaceInv, Place, RecordPlaces, CountPlaces
<1>13. CASE UNCHANGED vars
  BY <1>13 DEF vars, TrackerInv, PlaceInv, Place
<1> QED BY <1>1, <1>2, <1>3, <1>4, <1>5, <1>6, <1>7, <1>8, <1>9, <1>10, <1>11, <1>12,
           <1>13
   DEF Next, Step

\* Lemma: no record gets younger than the latest failure.
LEMMA TimeStep ==
    ASSUME TrackerAssumption, TrackerInv, [Next]_vars PROVE TimeInv'
<1>1. CASE Tick
  BY <1>1, MapTypesAre, CallerTypesAre DEF Tick, history, TrackerInv, TimeInv, Aged
<1>2. ASSUME NEW c \in Callers, Call(c) PROVE TimeInv'
  <2>1. PICK what, where : Begin(c, where, what) /\ Starts(what, where)
    BY <1>2, CallStarts
  <2> QED BY <2>1, MapTypesAre, CallerTypesAre, PairIsKnown
     DEF Begin, Starts, TrackerInv, TimeInv, Aged, RecordPlaces, CountPlaces, Walks
<1>3. ASSUME NEW c \in Callers, Get(c) PROVE TimeInv'
  BY <1>3, CallerTypesAre DEF Get, Goto, history, TrackerInv, TimeInv, Aged, RecordPlaces
<1>4. ASSUME NEW c \in Callers, Add(c) PROVE TimeInv'
  BY <1>4 DEF Add, Goto, history, TrackerInv, TimeInv, Aged, RecordPlaces
<1>5. ASSUME NEW c \in Callers, Stamp(c) PROVE TimeInv'
  BY <1>5 DEF Stamp, Goto, history, TrackerInv, TimeInv, Aged, RecordPlaces
<1>6. ASSUME NEW c \in Callers, Tag(c) PROVE TimeInv'
  BY <1>6 DEF Tag, Goto, history, TrackerInv, TimeInv, Aged, RecordPlaces
<1>7. ASSUME NEW c \in Callers, Insert(c) PROVE TimeInv'
  BY <1>7
     DEF Insert, EntryValue, NewRecord, Goto, history, TrackerInv, TimeInv, Aged,
         RecordPlaces
<1>8. ASSUME NEW c \in Callers, Remove(c) PROVE TimeInv'
  <2>1. PICK p \in job[c].found, w \in Jobs : Removed(c, p, w)
    BY <1>8, RemovesOne
  <2> QED BY <2>1, <1>8, MapTypesAre
     DEF Remove, Goto, history, TrackerInv, TimeInv, Aged, Absent, RecordPlaces
<1>9. ASSUME NEW c \in Callers, Look(c) PROVE TimeInv'
  BY <1>9, CallerTypesAre DEF Look, Goto, history, TrackerInv, TimeInv, Aged, RecordPlaces
<1>10. ASSUME NEW c \in Callers, Load(c) PROVE TimeInv'
  <2>1. CASE FoundExpired(c)
    <3>1. PICK w \in Jobs : Evicted(c, w)
      BY <1>10, <2>1, Evicts
    <3> QED BY <3>1, <1>10
       DEF Load, Evicted, Keeps, Goto, history, TrackerInv, TimeInv, Aged, RecordPlaces
  <2>2. CASE ~FoundExpired(c)
    BY <2>2, <1>10, CallerTypesAre
       DEF Load, Goto, history, TrackerInv, TimeInv, Aged, RecordPlaces
  <2> QED BY <2>1, <2>2
<1>11. ASSUME NEW c \in Callers, Read(c) PROVE TimeInv'
  BY <1>11 DEF Read, Goto, history, TrackerInv, TimeInv, Aged, RecordPlaces
<1>12. ASSUME NEW c \in Callers, Scan(c) PROVE TimeInv'
  <2>1. PICK p \in job[c].todo, w \in Jobs : Walked(c, p, w)
    BY <1>12, Scans
  <2>2. /\ pc[c] = "scan" /\ job[c].op \in Walks
        /\ UNCHANGED <<failures, now, guard, answer, overlaps, begun, latest>>
    BY <1>12 DEF Scan, history, TrackerInv, PlaceInv, Place
  <2> QED BY <2>1, <2>2, CallerTypesAre
     DEF Walked, Keeps, Goto, TrackerInv, TimeInv, Aged, RecordPlaces
<1>13. CASE UNCHANGED vars
  BY <1>13 DEF vars, TrackerInv, TimeInv, Aged
<1> QED BY <1>1, <1>2, <1>3, <1>4, <1>5, <1>6, <1>7, <1>8, <1>9, <1>10, <1>11, <1>12,
           <1>13
   DEF Next, Step

\* Lemma: what is about to be reported is recent.
LEMMA ReadStep ==
    ASSUME TrackerAssumption, TrackerInv, [Next]_vars PROVE ReadInv'
<1>1. CASE Tick
  BY <1>1 DEF Tick, history, TrackerInv, ReadInv
<1>2. ASSUME NEW c \in Callers, Call(c) PROVE ReadInv'
  <2>1. PICK what, where : Begin(c, where, what) /\ Starts(what, where)
    BY <1>2, CallStarts
  <2>2. UNCHANGED answer
    BY <2>1 DEF Begin
  <2>3. ASSUME NEW d \in Callers, pc'[d] = "read"
        PROVE  Age(job'[d].now, latest'[job'[d].pair]) <= Ttl
    <3>1. d # c /\ pc[d] = "read" /\ job'[d] = job[d]
      BY <2>1, <2>3, CallerTypesAre DEF Begin, Starts
    <3>2. job[d].pair \in Pairs /\ job[d].now \in 0..MaxTime /\ job[d].now <= now
      BY <3>1, CallerTypesAre DEF TrackerInv, TimeInv, PlaceInv, Place, CountPlaces, Jobs
    <3>3. latest'[job[d].pair] = latest[job[d].pair] \/ latest'[job[d].pair] = now
      BY <2>1, <3>2, MapTypesAre DEF Starts
    <3>4. CASE latest'[job[d].pair] = latest[job[d].pair]
      BY <3>1, <3>4 DEF TrackerInv, ReadInv
    <3>5. CASE latest'[job[d].pair] = now
      BY <3>1, <3>2, <3>5, MapTypesAre, TrackerAssumption DEF Age, TrackerAssumption
    <3> QED BY <3>3, <3>4, <3>5
  <2> QED BY <2>2, <2>3 DEF TrackerInv, ReadInv
<1>3. ASSUME NEW c \in Callers, Get(c) PROVE ReadInv'
  BY <1>3, CallerTypesAre DEF Get, Goto, history, TrackerInv, ReadInv
<1>4. ASSUME NEW c \in Callers, Add(c) PROVE ReadInv'
  BY <1>4 DEF Add, Goto, history, TrackerInv, ReadInv
<1>5. ASSUME NEW c \in Callers, Stamp(c) PROVE ReadInv'
  BY <1>5 DEF Stamp, Goto, history, TrackerInv, ReadInv
<1>6. ASSUME NEW c \in Callers, Tag(c) PROVE ReadInv'
  BY <1>6 DEF Tag, Goto, history, TrackerInv, ReadInv
<1>7. ASSUME NEW c \in Callers, Insert(c) PROVE ReadInv'
  BY <1>7 DEF Insert, Goto, history, TrackerInv, ReadInv
<1>8. ASSUME NEW c \in Callers, Remove(c) PROVE ReadInv'
  <2>1. PICK p \in job[c].found, w \in Jobs : Removed(c, p, w)
    BY <1>8, RemovesOne
  <2> QED BY <2>1, <1>8, CallerTypesAre
     DEF Remove, Goto, Answer, history, TrackerInv, ReadInv
<1>9. ASSUME NEW c \in Callers, Look(c) PROVE ReadInv'
  <2>1. \A d \in Callers : /\ pc'[d] = "read" => d # c /\ pc[d] = "read"
                           /\ answer'[d].count > 0 => answer'[d] = answer[d]
    BY <1>9, CallerTypesAre DEF Look, Goto, Answer
  <2>2. UNCHANGED <<job, latest>>
    BY <1>9 DEF Look, history
  <2> QED BY <2>1, <2>2 DEF TrackerInv, ReadInv
<1>10. ASSUME NEW c \in Callers, Load(c) PROVE ReadInv'
  <2>1. CASE FoundExpired(c)
    <3>1. PICK w \in Jobs : Evicted(c, w)
      BY <1>10, <2>1, Evicts
    <3> QED BY <3>1, <1>10 DEF Load, Evicted, Keeps, Goto, history, TrackerInv, ReadInv
  <2>2. CASE ~FoundExpired(c)
    BY <2>2, <1>10, MapTypesAre, CallerTypesAre
       DEF Load, Goto, history, TrackerInv, ReadInv, TimeInv, Aged, FoundExpired, Expired,
           Age, PlaceInv, Place, CountPlaces
  <2> QED BY <2>1, <2>2
<1>11. ASSUME NEW c \in Callers, Read(c) PROVE ReadInv'
  BY <1>11
     DEF Read, Answer, Goto, history, TrackerInv, ReadInv, PlaceInv, Place, CountPlaces
<1>12. ASSUME NEW c \in Callers, Scan(c) PROVE ReadInv'
  <2>1. PICK p \in job[c].todo, w \in Jobs : Walked(c, p, w)
    BY <1>12, Scans
  <2>2. /\ pc[c] = "scan" /\ job[c].op \in Walks
        /\ UNCHANGED <<failures, now, guard, answer, overlaps, begun, latest>>
    BY <1>12 DEF Scan, history, TrackerInv, PlaceInv, Place
  <2> QED BY <2>1, <2>2, CallerTypesAre DEF Walked, Keeps, Goto, TrackerInv, ReadInv
<1>13. CASE UNCHANGED vars
  BY <1>13 DEF vars, TrackerInv, ReadInv
<1> QED BY <1>1, <1>2, <1>3, <1>4, <1>5, <1>6, <1>7, <1>8, <1>9, <1>10, <1>11, <1>12,
           <1>13
   DEF Next, Step

\* Lemma: what is reported is recent.
LEMMA RecentStep ==
    ASSUME TrackerAssumption, TrackerInv, [Next]_vars PROVE CountIsRecent'
<1>1. CASE Tick
  BY <1>1 DEF Tick, history, TrackerInv, CountIsRecent
<1>2. ASSUME NEW c \in Callers, Call(c) PROVE CountIsRecent'
  <2>1. PICK what, where : Begin(c, where, what) /\ Starts(what, where)
    BY <1>2, CallStarts
  <2> SUFFICES ASSUME NEW d \in Callers, answer[d].count > 0
               PROVE  LET p == answer[d].pair
                      IN  /\ begun'[p] > 0 /\ Age(answer[d].asked, latest'[p]) <= Ttl
                          /\ answer[d].count <= begun'[p]
    BY <2>1 DEF Begin, CountIsRecent
  <2> DEFINE p == answer[d].pair
  <2>2. /\ p \in Pairs /\ begun[p] > 0 /\ answer[d].count <= begun[p]
        /\ Age(answer[d].asked, latest[p]) <= Ttl
    BY DEF TrackerInv, ReadInv, CountIsRecent
  <2>3. /\ answer[d].asked \in 0..MaxTime /\ answer[d].count \in Nat /\ begun[p] \in Nat
        /\ latest[p] \in 0..MaxTime
    BY <2>2, MapTypesAre, CallerTypesAre DEF Answers
  <2>4. begun'[p] \in Nat /\ begun'[p] >= begun[p]
    BY <2>1, <2>2, <2>3, MapTypesAre DEF Starts
  <2>5. latest'[p] \in 0..MaxTime /\ latest'[p] >= latest[p]
    BY <2>1, <2>2, <2>3, MapTypesAre DEF Starts, TrackerInv, TimeInv, Aged
  <2>6. Age(answer[d].asked, latest'[p]) <= Age(answer[d].asked, latest[p])
    BY <2>3, <2>5 DEF Age
  <2>7. Age(answer[d].asked, latest'[p]) <= Ttl
    BY <2>2, <2>3, <2>5, <2>6 DEF Age
  <2> QED BY <2>2, <2>3, <2>4, <2>7
<1>3. ASSUME NEW c \in Callers, Get(c) PROVE CountIsRecent'
  BY <1>3 DEF Get, history, TrackerInv, CountIsRecent
<1>4. ASSUME NEW c \in Callers, Add(c) PROVE CountIsRecent'
  BY <1>4 DEF Add, history, TrackerInv, CountIsRecent
<1>5. ASSUME NEW c \in Callers, Stamp(c) PROVE CountIsRecent'
  BY <1>5 DEF Stamp, history, TrackerInv, CountIsRecent
<1>6. ASSUME NEW c \in Callers, Tag(c) PROVE CountIsRecent'
  BY <1>6 DEF Tag, history, TrackerInv, CountIsRecent
<1>7. ASSUME NEW c \in Callers, Insert(c) PROVE CountIsRecent'
  BY <1>7 DEF Insert, history, TrackerInv, CountIsRecent
<1>8. ASSUME NEW c \in Callers, Remove(c) PROVE CountIsRecent'
  <2>1. PICK p \in job[c].found, w \in Jobs : Removed(c, p, w)
    BY <1>8, RemovesOne
  <2> QED BY <2>1, <1>8, CallerTypesAre
     DEF Remove, Answer, history, TrackerInv, CountIsRecent
<1>9. ASSUME NEW c \in Callers, Look(c) PROVE CountIsRecent'
  BY <1>9, CallerTypesAre DEF Look, Answer, history, TrackerInv, CountIsRecent
<1>10. ASSUME NEW c \in Callers, Load(c) PROVE CountIsRecent'
  <2>1. CASE FoundExpired(c)
    <3>1. PICK w \in Jobs : Evicted(c, w)
      BY <1>10, <2>1, Evicts
    <3> QED BY <3>1, <1>10 DEF Load, history, TrackerInv, CountIsRecent
  <2>2. CASE ~FoundExpired(c)
    BY <2>2, <1>10 DEF Load, history, TrackerInv, CountIsRecent
  <2> QED BY <2>1, <2>2
<1>11. ASSUME NEW c \in Callers, Read(c) PROVE CountIsRecent'
  <2> DEFINE p == job[c].pair
  <2>1. p \in Pairs /\ pc[c] = "read"
    BY <1>11, PairIsKnown DEF Read, CountPlaces
  <2>2. Age(job[c].now, latest[p]) <= Ttl
    BY <2>1 DEF TrackerInv, ReadInv
  <2>3. failures[p].count \in Nat /\ begun[p] \in Nat /\ failures[p].count <= begun[p]
    BY <2>1, CountIsBounded, MapTypesAre
  <2>4. answer' = [answer EXCEPT ![c] = [pair |-> p, asked |-> job[c].now,
                                         count |-> failures[p].count]]
    BY <1>11 DEF Read, Answer
  <2>5. UNCHANGED <<begun, latest>>
    BY <1>11 DEF Read, history
  <2> QED BY <2>2, <2>3, <2>4, <2>5 DEF TrackerInv, CountIsRecent
<1>12. ASSUME NEW c \in Callers, Scan(c) PROVE CountIsRecent'
  <2>1. PICK p \in job[c].todo, w \in Jobs : Walked(c, p, w)
    BY <1>12, Scans
  <2>2. /\ pc[c] = "scan" /\ job[c].op \in Walks
        /\ UNCHANGED <<failures, now, guard, answer, overlaps, begun, latest>>
    BY <1>12 DEF Scan, history, TrackerInv, PlaceInv, Place
  <2> QED BY <2>1, <2>2 DEF TrackerInv, CountIsRecent
<1>13. CASE UNCHANGED vars
  BY <1>13 DEF vars, TrackerInv, CountIsRecent
<1> QED BY <1>1, <1>2, <1>3, <1>4, <1>5, <1>6, <1>7, <1>8, <1>9, <1>10, <1>11, <1>12,
           <1>13
   DEF Next, Step

\* Lemma: a call notices every failure that is recorded during it.
LEMMA OverlapStep ==
    ASSUME TrackerAssumption, TrackerInv, [Next]_vars PROVE OverlapInv'
<1>1. CASE Tick
  BY <1>1 DEF Tick, TrackerInv, OverlapInv
<1>2. ASSUME NEW c \in Callers, Call(c) PROVE OverlapInv'
  <2>1. PICK what, where : Begin(c, where, what) /\ Starts(what, where)
    BY <1>2, CallStarts
  <2> QED BY <2>1, CallerTypesAre
     DEF Begin, Starts, TrackerInv, OverlapInv, Recording, PlaceInv, Place, RecordPlaces
<1>3. ASSUME NEW c \in Callers, Get(c) PROVE OverlapInv'
  BY <1>3, CallerTypesAre DEF Get, Goto, TrackerInv, OverlapInv, RecordPlaces
<1>4. ASSUME NEW c \in Callers, Add(c) PROVE OverlapInv'
  BY <1>4 DEF Add, Goto, TrackerInv, OverlapInv, RecordPlaces
<1>5. ASSUME NEW c \in Callers, Stamp(c) PROVE OverlapInv'
  BY <1>5 DEF Stamp, Goto, TrackerInv, OverlapInv, RecordPlaces
<1>6. ASSUME NEW c \in Callers, Tag(c) PROVE OverlapInv'
  BY <1>6 DEF Tag, Goto, TrackerInv, OverlapInv, RecordPlaces
<1>7. ASSUME NEW c \in Callers, Insert(c) PROVE OverlapInv'
  BY <1>7 DEF Insert, Goto, TrackerInv, OverlapInv, RecordPlaces
<1>8. ASSUME NEW c \in Callers, Remove(c) PROVE OverlapInv'
  <2>1. PICK p \in job[c].found, w \in Jobs : Removed(c, p, w)
    BY <1>8, RemovesOne
  <2> QED BY <2>1, <1>8 DEF Remove, Goto, TrackerInv, OverlapInv, RecordPlaces
<1>9. ASSUME NEW c \in Callers, Look(c) PROVE OverlapInv'
  BY <1>9, CallerTypesAre DEF Look, Goto, TrackerInv, OverlapInv, RecordPlaces
<1>10. ASSUME NEW c \in Callers, Load(c) PROVE OverlapInv'
  <2>1. CASE FoundExpired(c)
    <3>1. PICK w \in Jobs : Evicted(c, w)
      BY <1>10, <2>1, Evicts
    <3> QED BY <3>1, <1>10
       DEF Load, Evicted, Keeps, Goto, TrackerInv, OverlapInv, RecordPlaces
  <2>2. CASE ~FoundExpired(c)
    BY <2>2, <1>10, CallerTypesAre DEF Load, Goto, TrackerInv, OverlapInv, RecordPlaces
  <2> QED BY <2>1, <2>2
<1>11. ASSUME NEW c \in Callers, Read(c) PROVE OverlapInv'
  BY <1>11 DEF Read, Goto, TrackerInv, OverlapInv, RecordPlaces
<1>12. ASSUME NEW c \in Callers, Scan(c) PROVE OverlapInv'
  <2>1. PICK p \in job[c].todo, w \in Jobs : Walked(c, p, w)
    BY <1>12, Scans
  <2>2. /\ pc[c] = "scan" /\ job[c].op \in Walks
        /\ UNCHANGED <<failures, now, guard, answer, overlaps, begun, latest>>
    BY <1>12 DEF Scan, history, TrackerInv, PlaceInv, Place
  <2> QED BY <2>1, <2>2, CallerTypesAre
     DEF Walked, Keeps, Goto, TrackerInv, OverlapInv, RecordPlaces
<1>13. CASE UNCHANGED vars
  BY <1>13 DEF vars, TrackerInv, OverlapInv
<1> QED BY <1>1, <1>2, <1>3, <1>4, <1>5, <1>6, <1>7, <1>8, <1>9, <1>10, <1>11, <1>12,
           <1>13
   DEF Next, Step

\* Lemma: what was collected still fits.
LEMMA TargetStep ==
    ASSUME TrackerAssumption, TrackerInv, [Next]_vars PROVE TargetInv'
<1>1. CASE Tick
  BY <1>1 DEF Tick, TrackerInv, TargetInv, Fits, Present
<1>2. ASSUME NEW c \in Callers, Call(c) PROVE TargetInv'
  <2>1. PICK what, where : Begin(c, where, what) /\ Starts(what, where)
    BY <1>2, CallStarts
  <2> QED BY <2>1 DEF Begin, Starts, TrackerInv, TargetInv, Fits, Present, PlaceInv, Place
<1>3. ASSUME NEW c \in Callers, Get(c) PROVE TargetInv'
  BY <1>3 DEF Get, TrackerInv, TargetInv, Fits, Present
<1>4. ASSUME NEW c \in Callers, Add(c) PROVE TargetInv'
  BY <1>4
     DEF Add, TrackerInv, TargetInv, Fits, OverlapInv, Present, PlaceInv, Place,
         RecordPlaces
<1>5. ASSUME NEW c \in Callers, Stamp(c) PROVE TargetInv'
  BY <1>5
     DEF Stamp, TrackerInv, TargetInv, Fits, OverlapInv, Present, PlaceInv, Place,
         RecordPlaces
<1>6. ASSUME NEW c \in Callers, Tag(c) PROVE TargetInv'
  BY <1>6
     DEF Tag, TrackerInv, TargetInv, Fits, OverlapInv, Present, PlaceInv, Place,
         RecordPlaces
<1>7. ASSUME NEW c \in Callers, Insert(c) PROVE TargetInv'
  BY <1>7
     DEF Insert, TrackerInv, TargetInv, Fits, OverlapInv, Present, PlaceInv, Place,
         RecordPlaces
<1>8. ASSUME NEW c \in Callers, Remove(c) PROVE TargetInv'
  <2>1. PICK p \in job[c].found, w \in Jobs : Removed(c, p, w)
    BY <1>8, RemovesOne
  <2> QED BY <2>1, <1>8 DEF Remove, TrackerInv, TargetInv, Fits, Present, Absent
<1>9. ASSUME NEW c \in Callers, Look(c) PROVE TargetInv'
  BY <1>9 DEF Look, TrackerInv, TargetInv, Fits, Present
<1>10. ASSUME NEW c \in Callers, Load(c) PROVE TargetInv'
  <2>1. CASE FoundExpired(c)
    <3>1. PICK w \in Jobs : Evicted(c, w)
      BY <1>10, <2>1, Evicts
    <3> QED BY <3>1, <1>10
       DEF Load, Evicted, Keeps, TrackerInv, TargetInv, Fits, Present, FoundExpired,
           PlaceInv, Place, CountPlaces
  <2>2. CASE ~FoundExpired(c)
    BY <2>2, <1>10 DEF Load, TrackerInv, TargetInv, Fits, Present
  <2> QED BY <2>1, <2>2
<1>11. ASSUME NEW c \in Callers, Read(c) PROVE TargetInv'
  BY <1>11 DEF Read, TrackerInv, TargetInv, Fits, Present
<1>12. ASSUME NEW c \in Callers, Scan(c) PROVE TargetInv'
  <2>1. PICK p \in job[c].todo, w \in Jobs : Walked(c, p, w)
    BY <1>12, Scans
  <2>2. /\ pc[c] = "scan" /\ job[c].op \in Walks
        /\ UNCHANGED <<failures, now, guard, answer, overlaps, begun, latest>>
    BY <1>12 DEF Scan, history, TrackerInv, PlaceInv, Place
  <2> QED BY <2>1, <2>2 DEF Walked, Keeps, TrackerInv, TargetInv, Fits, Present, Collects
<1>13. CASE UNCHANGED vars
  BY <1>13 DEF vars, TrackerInv, TargetInv, Fits, Present
<1> QED BY <1>1, <1>2, <1>3, <1>4, <1>5, <1>6, <1>7, <1>8, <1>9, <1>10, <1>11, <1>12,
           <1>13
   DEF Next, Step

\* Lemma: a pair that is removed stays noted as such.
LEMMA Grows ==
    ASSUME TrackerAssumption, TrackerInv, [Next]_vars PROVE removing \subseteq removing'
<1>1. CASE Tick
  BY <1>1 DEF Tick
<1>2. ASSUME NEW c \in Callers, Call(c) PROVE removing \subseteq removing'
  <2>1. PICK what, where : Begin(c, where, what) /\ Starts(what, where)
    BY <1>2, CallStarts
  <2> QED BY <2>1 DEF Starts
<1>3. ASSUME NEW c \in Callers, Get(c) PROVE removing \subseteq removing'
  BY <1>3 DEF Get
<1>4. ASSUME NEW c \in Callers, Add(c) PROVE removing \subseteq removing'
  BY <1>4 DEF Add
<1>5. ASSUME NEW c \in Callers, Stamp(c) PROVE removing \subseteq removing'
  BY <1>5 DEF Stamp
<1>6. ASSUME NEW c \in Callers, Tag(c) PROVE removing \subseteq removing'
  BY <1>6 DEF Tag
<1>7. ASSUME NEW c \in Callers, Insert(c) PROVE removing \subseteq removing'
  BY <1>7 DEF Insert
<1>8. ASSUME NEW c \in Callers, Remove(c) PROVE removing \subseteq removing'
  <2>1. PICK p \in job[c].found, w \in Jobs : Removed(c, p, w)
    BY <1>8, RemovesOne
  <2> QED BY <2>1, <1>8 DEF Remove
<1>9. ASSUME NEW c \in Callers, Look(c) PROVE removing \subseteq removing'
  BY <1>9 DEF Look
<1>10. ASSUME NEW c \in Callers, Load(c) PROVE removing \subseteq removing'
  <2>1. CASE FoundExpired(c)
    <3>1. PICK w \in Jobs : Evicted(c, w)
      BY <1>10, <2>1, Evicts
    <3> QED BY <3>1, <1>10 DEF Evicted
  <2>2. CASE ~FoundExpired(c)
    BY <2>2, <1>10 DEF Load
  <2> QED BY <2>1, <2>2
<1>11. ASSUME NEW c \in Callers, Read(c) PROVE removing \subseteq removing'
  BY <1>11 DEF Read
<1>12. ASSUME NEW c \in Callers, Scan(c) PROVE removing \subseteq removing'
  <2>1. PICK p \in job[c].todo, w \in Jobs : Walked(c, p, w)
    BY <1>12, Scans
  <2>2. /\ pc[c] = "scan" /\ job[c].op \in Walks
        /\ UNCHANGED <<failures, now, guard, answer, overlaps, begun, latest>>
    BY <1>12 DEF Scan, history, TrackerInv, PlaceInv, Place
  <2> QED BY <2>1, <2>2 DEF Walked
<1>13. CASE UNCHANGED vars
  BY <1>13 DEF vars
<1> QED BY <1>1, <1>2, <1>3, <1>4, <1>5, <1>6, <1>7, <1>8, <1>9, <1>10, <1>11, <1>12,
           <1>13
   DEF Next, Step

\* Lemma: every step keeps the account of every pair.
LEMMA AccountStep ==
    ASSUME TrackerAssumption, TrackerInv, [Next]_vars PROVE (\A p \in Pairs : Balanced(p))
<1>1. CASE Tick
  <2> SUFFICES ASSUME NEW p \in Pairs PROVE Balanced(p)
    OBVIOUS
  <2>1. Uncounted(p)' = Uncounted(p)
    BY <1>1 DEF Tick, Uncounted
  <2>2. failures'[p].count = failures[p].count /\ begun'[p] = begun[p]
    BY <1>1 DEF Tick, history
  <2> QED BY <2>1, <2>2, Quiet, UncountedIsFinite, MapTypesAre
<1>2. ASSUME NEW c \in Callers, Call(c) PROVE (\A p \in Pairs : Balanced(p))
  <2> SUFFICES ASSUME NEW p \in Pairs PROVE Balanced(p)
    OBVIOUS
  <2>1. PICK what, where : Begin(c, where, what) /\ Starts(what, where)
    BY <1>2, CallStarts
  <2>2. failures'[p].count = failures[p].count
    BY <2>1 DEF Begin
  <2>3. CASE what.op = "record" /\ what.pair = p
    <3>1. Uncounted(p)' = Uncounted(p) \cup {c} /\ c \notin Uncounted(p)
      BY <2>1, <2>3, CallerTypesAre DEF Begin, Starts, Uncounted, Walks
    <3>2. Cardinality(Uncounted(p)') = Cardinality(Uncounted(p)) + 1
      BY <3>1, UncountedIsFinite, FS_AddElement
    <3>3. begun'[p] = begun[p] + 1
      BY <2>1, <2>3, MapTypesAre DEF Starts, Walks
    <3> QED BY <2>2, <3>2, <3>3, UncountedIsFinite, MapTypesAre DEF Balanced
  <2>4. CASE ~(what.op = "record" /\ what.pair = p)
    <3>1. Uncounted(p)' = Uncounted(p)
      BY <2>1, <2>4, CallerTypesAre DEF Begin, Uncounted
    <3>2. begun'[p] = begun[p]
      BY <2>1, <2>4, MapTypesAre DEF Starts
    <3> QED BY <2>2, <3>1, <3>2, Quiet, UncountedIsFinite, MapTypesAre
  <2> QED BY <2>3, <2>4
<1>3. ASSUME NEW c \in Callers, Get(c) PROVE (\A p \in Pairs : Balanced(p))
  <2> SUFFICES ASSUME NEW p \in Pairs PROVE Balanced(p)
    OBVIOUS
  <2>1. Uncounted(p)' = Uncounted(p)
    BY <1>3, CallerTypesAre DEF Get, Goto, Uncounted
  <2>2. failures'[p].count = failures[p].count /\ begun'[p] = begun[p]
    BY <1>3 DEF Get, history
  <2> QED BY <2>1, <2>2, Quiet, UncountedIsFinite, MapTypesAre
<1>4. ASSUME NEW c \in Callers, Add(c) PROVE (\A p \in Pairs : Balanced(p))
  <2> SUFFICES ASSUME NEW p \in Pairs PROVE Balanced(p)
    OBVIOUS
  <2>1. /\ job[c].pair \in Pairs /\ c \in Uncounted(job[c].pair)
    BY <1>4 DEF Add, Uncounted, RecordPlaces, TrackerInv, PlaceInv, Place
  <2>2. begun'[p] = begun[p]
    BY <1>4 DEF Add, history
  <2>3. CASE p = job[c].pair
    <3>1. Uncounted(p)' = Uncounted(p) \ {c}
      BY <1>4, <2>3, CallerTypesAre DEF Add, Goto, Uncounted
    <3>2. Cardinality(Uncounted(p)') = Cardinality(Uncounted(p)) - 1
      BY <2>1, <2>3, <3>1, UncountedIsFinite, FS_RemoveElement
    <3>3. failures'[p].count = failures[p].count + 1
      BY <1>4, <2>1, <2>3, MapTypesAre DEF Add
    <3> QED BY <2>2, <3>2, <3>3, UncountedIsFinite, MapTypesAre DEF Balanced
  <2>4. CASE p # job[c].pair
    <3>1. Uncounted(p)' = Uncounted(p)
      BY <1>4, <2>4 DEF Add, Goto, Uncounted
    <3>2. failures'[p].count = failures[p].count
      BY <1>4, <2>4 DEF Add
    <3> QED BY <2>2, <3>1, <3>2, Quiet, UncountedIsFinite, MapTypesAre
  <2> QED BY <2>3, <2>4
<1>5. ASSUME NEW c \in Callers, Stamp(c) PROVE (\A p \in Pairs : Balanced(p))
  <2> SUFFICES ASSUME NEW p \in Pairs PROVE Balanced(p)
    OBVIOUS
  <2>1. Uncounted(p)' = Uncounted(p)
    BY <1>5 DEF Stamp, Goto, Uncounted
  <2>2. failures'[p].count = failures[p].count /\ begun'[p] = begun[p]
    BY <1>5 DEF Stamp, history
  <2> QED BY <2>1, <2>2, Quiet, UncountedIsFinite, MapTypesAre
<1>6. ASSUME NEW c \in Callers, Tag(c) PROVE (\A p \in Pairs : Balanced(p))
  <2> SUFFICES ASSUME NEW p \in Pairs PROVE Balanced(p)
    OBVIOUS
  <2>1. Uncounted(p)' = Uncounted(p)
    BY <1>6 DEF Tag, Goto, Uncounted
  <2>2. failures'[p].count = failures[p].count /\ begun'[p] = begun[p]
    BY <1>6 DEF Tag, history
  <2> QED BY <2>1, <2>2, Quiet, UncountedIsFinite, MapTypesAre
<1>7. ASSUME NEW c \in Callers, Insert(c) PROVE (\A p \in Pairs : Balanced(p))
  <2> SUFFICES ASSUME NEW p \in Pairs PROVE Balanced(p)
    OBVIOUS
  <2>1. /\ job[c].pair \in Pairs /\ c \in Uncounted(job[c].pair)
    BY <1>7 DEF Insert, Uncounted, RecordPlaces, TrackerInv, PlaceInv, Place
  <2>2. begun'[p] = begun[p]
    BY <1>7 DEF Insert, history
  <2>3. CASE p = job[c].pair
    <3>1. Uncounted(p)' = Uncounted(p) \ {c}
      BY <1>7, <2>3, CallerTypesAre DEF Insert, Goto, Uncounted
    <3>2. Cardinality(Uncounted(p)') = Cardinality(Uncounted(p)) - 1
      BY <2>1, <2>3, <3>1, UncountedIsFinite, FS_RemoveElement
    <3>3. failures'[p].count = failures[p].count + 1
      BY <1>7, <2>1, <2>3, MapTypesAre DEF Insert, EntryValue
    <3> QED BY <2>2, <3>2, <3>3, UncountedIsFinite, MapTypesAre DEF Balanced
  <2>4. CASE p # job[c].pair
    <3>1. Uncounted(p)' = Uncounted(p)
      BY <1>7, <2>4 DEF Insert, Goto, Uncounted
    <3>2. failures'[p].count = failures[p].count
      BY <1>7, <2>4 DEF Insert
    <3> QED BY <2>2, <3>1, <3>2, Quiet, UncountedIsFinite, MapTypesAre
  <2> QED BY <2>3, <2>4
<1>8. ASSUME NEW c \in Callers, Remove(c) PROVE (\A p \in Pairs : Balanced(p))
  <2>1. PICK q \in job[c].found, w \in Jobs : Removed(c, q, w)
    BY <1>8, RemovesOne
  <2> SUFFICES ASSUME NEW p \in Pairs PROVE Balanced(p)
    OBVIOUS
  <2>2. Uncounted(p)' = Uncounted(p)
    BY <1>8, <2>1 DEF Remove, Goto, Uncounted
  <2>3. begun'[p] = begun[p] /\ removing' = removing
    BY <1>8 DEF Remove, history
  <2>4. CASE p = q
    <3>1. p \in removing'
      BY <2>3, <2>4 DEF TrackerInv, PlaceInv, Place
    <3>2. failures'[p].count = 0
      BY <2>1, <2>4, MapTypesAre DEF Removed, Absent
    <3> QED BY <2>2, <2>3, <3>1, <3>2, UncountedIsFinite, MapTypesAre DEF Balanced
  <2>5. CASE p # q
    <3>1. failures'[p].count = failures[p].count
      BY <2>1, <2>5 DEF Removed
    <3> QED BY <2>2, <2>3, <3>1, Quiet, UncountedIsFinite, MapTypesAre
  <2> QED BY <2>4, <2>5
<1>9. ASSUME NEW c \in Callers, Look(c) PROVE (\A p \in Pairs : Balanced(p))
  <2> SUFFICES ASSUME NEW p \in Pairs PROVE Balanced(p)
    OBVIOUS
  <2>1. Uncounted(p)' = Uncounted(p)
    BY <1>9, CallerTypesAre DEF Look, Goto, Uncounted
  <2>2. failures'[p].count = failures[p].count /\ begun'[p] = begun[p]
    BY <1>9 DEF Look, history
  <2> QED BY <2>1, <2>2, Quiet, UncountedIsFinite, MapTypesAre
<1>10. ASSUME NEW c \in Callers, Load(c) PROVE (\A p \in Pairs : Balanced(p))
  <2> SUFFICES ASSUME NEW p \in Pairs PROVE Balanced(p)
    OBVIOUS
  <2>1. failures'[p].count = failures[p].count /\ begun'[p] = begun[p]
    BY <1>10 DEF Load, history
  <2>2. Uncounted(p)' = Uncounted(p)
    <3>1. CASE FoundExpired(c)
      <4>1. PICK w \in Jobs : Evicted(c, w)
        BY <1>10, <3>1, Evicts
      <4> QED BY <1>10, <4>1 DEF Load, Evicted, Keeps, Goto, Uncounted
    <3>2. CASE ~FoundExpired(c)
      BY <1>10, <3>2, CallerTypesAre DEF Load, Goto, Uncounted
    <3> QED BY <3>1, <3>2
  <2> QED BY <2>1, <2>2, Quiet, UncountedIsFinite, MapTypesAre
<1>11. ASSUME NEW c \in Callers, Read(c) PROVE (\A p \in Pairs : Balanced(p))
  <2> SUFFICES ASSUME NEW p \in Pairs PROVE Balanced(p)
    OBVIOUS
  <2>1. Uncounted(p)' = Uncounted(p)
    BY <1>11 DEF Read, Goto, Uncounted
  <2>2. failures'[p].count = failures[p].count /\ begun'[p] = begun[p]
    BY <1>11 DEF Read, history
  <2> QED BY <2>1, <2>2, Quiet, UncountedIsFinite, MapTypesAre
<1>12. ASSUME NEW c \in Callers, Scan(c) PROVE (\A p \in Pairs : Balanced(p))
  <2>1. PICK q \in job[c].todo, w \in Jobs : Walked(c, q, w)
    BY <1>12, Scans
  <2> SUFFICES ASSUME NEW p \in Pairs PROVE Balanced(p)
    OBVIOUS
  <2>2. Uncounted(p)' = Uncounted(p)
    BY <1>12, <2>1, CallerTypesAre DEF Scan, Walked, Keeps, Goto, Uncounted
  <2>3. failures'[p].count = failures[p].count /\ begun'[p] = begun[p]
    BY <1>12 DEF Scan, history
  <2> QED BY <2>2, <2>3, Quiet, UncountedIsFinite, MapTypesAre
<1>13. CASE UNCHANGED vars
  <2> SUFFICES ASSUME NEW p \in Pairs PROVE Balanced(p)
    OBVIOUS
  <2>1. Uncounted(p)' = Uncounted(p)
    BY <1>13 DEF vars, Uncounted
  <2>2. failures'[p].count = failures[p].count /\ begun'[p] = begun[p]
    BY <1>13 DEF vars
  <2> QED BY <2>1, <2>2, Quiet, UncountedIsFinite, MapTypesAre
<1> QED BY <1>1, <1>2, <1>3, <1>4, <1>5, <1>6, <1>7, <1>8, <1>9, <1>10, <1>11, <1>12,
           <1>13
   DEF Next, Step

\* Lemma: what is begun is at least what is counted, and nothing is lost.
LEMMA CountStep ==
    ASSUME TrackerAssumption, TrackerInv, [Next]_vars PROVE CountInv' /\ NoFailureLost'
<1>1. CallerTypes' /\ MapTypes'
  BY CallerStep, MapStep
<1>2. \A p \in Pairs : /\ Balanced(p)
                       /\ failures[p].count \in Nat /\ begun[p] \in Nat
                       /\ failures'[p].count \in Nat /\ begun'[p] \in Nat
  BY <1>1, AccountStep, MapTypesAre DEF MapTypes, Records
<1>3. \A p \in Pairs : /\ Cardinality(Uncounted(p)) \in Nat
                       /\ Cardinality(Uncounted(p)') \in Nat
  <2> SUFFICES ASSUME NEW p \in Pairs
               PROVE  /\ Cardinality(Uncounted(p)) \in Nat
                      /\ Cardinality(Uncounted(p)') \in Nat
    OBVIOUS
  <2>1. Uncounted(p)' \in SUBSET Callers
    BY DEF Uncounted
  <2> QED BY <2>1, UncountedIsFinite, FS_Subset, FS_CardinalityType
<1>4. removing \subseteq removing'
  BY Grows
<1>5. CountInv'
  BY <1>2, <1>3 DEF TrackerInv, CountInv, Counted, Balanced
<1>6. NoFailureLost'
  BY <1>2, <1>3, <1>4 DEF TrackerInv, NoFailureLost, Balanced
<1> QED BY <1>5, <1>6
-----------------------------------------------------------------------------
\* Lemma: the invariant holds at the start.
LEMMA TrackerStarts ==
    ASSUME TrackerAssumption, Init PROVE TrackerInv
<1>1. MapTypes
  BY DEF Init, MapTypes, Records, Absent
<1>2. NoJob \in Jobs /\ NoAnswer \in Answers
  BY DEF Jobs, Answers, NoJob, NoAnswer, Classes
<1>3. CallerTypes
  BY <1>2 DEF Init, CallerTypes, Places
<1>4. PlaceInv
  BY DEF Init, PlaceInv, Place, NoJob, RecordPlaces, CountPlaces
<1>5. TimeInv
  BY DEF Init, TimeInv, Aged, Absent, NoJob, RecordPlaces
<1>6. \A p \in Pairs : Uncounted(p) = {}
  BY DEF Init, Uncounted
<1>7. CountInv /\ NoFailureLost
  BY <1>6, FS_EmptySet DEF Init, CountInv, Counted, NoFailureLost, Absent
<1>8. ReadInv /\ CountIsRecent
  BY DEF Init, ReadInv, CountIsRecent, NoAnswer
<1>9. OverlapInv /\ TargetInv
  BY DEF Init, OverlapInv, TargetInv, Fits, NoJob
<1> QED BY <1>1, <1>3, <1>4, <1>5, <1>7, <1>8, <1>9 DEF TrackerInv

\* Lemma: what is removed fits, as what was collected does.
LEMMA TargetsFit ==
    ASSUME TrackerAssumption, TrackerInv, NEW c \in Callers, NEW p \in Pairs,
           Removes(c, p), p \notin overlaps[c]
    PROVE  /\ job[c].op \in {"count", "cleanup"} => Expired(now, failures[p].last)
           /\ job[c].op = "clear_class" => failures[p].class = job[c].class
<1>1. Fits(c, p) /\ job[c].now <= now
  BY DEF TrackerInv, TargetInv, TimeInv
<1>2. Expired(job[c].now, failures[p].last) => Expired(now, failures[p].last)
  BY <1>1, MapTypesAre, CallerTypesAre DEF Expired, Age
<1> QED BY <1>1, <1>2 DEF Fits, Removes

\* Theorem: whatever the callers, the pairs and the TTL, however the accesses
\* of record_failure(), failure_count(), record_success(), clear(),
\* clear_class(), cleanup() and total_failure_count() interleave, the
\* invariant above holds.
THEOREM TrackerInvariant ==
    ASSUME TrackerAssumption
    PROVE  Spec => []TrackerInv
<1>1. TrackerInv /\ [Next]_vars => TrackerInv'
  BY MapStep, CallerStep, PlaceStep, TimeStep, CountStep, ReadStep, RecentStep,
     OverlapStep, TargetStep
     DEF TrackerInv
<1> QED BY <1>1, TrackerStarts, PTL DEF Spec

\* Theorem: a pair that nobody removes counts every failure recorded of it,
\* but those being added: two callers that both find no record of it and both
\* insert one lose nothing.
THEOREM LosesNoFailure ==
    ASSUME TrackerAssumption
    PROVE  Spec => []NoFailureLost
<1>1. TrackerInv => NoFailureLost
  BY DEF TrackerInv
<1> QED BY <1>1, TrackerInvariant, PTL

\* Theorem: failure_count() reports failures only of a pair that had one within
\* the TTL before the call, and no more than were recorded.
THEOREM CountsAreRecent ==
    ASSUME TrackerAssumption
    PROVE  Spec => []CountIsRecent
<1>1. TrackerInv => CountIsRecent
  BY DEF TrackerInv
<1> QED BY <1>1, TrackerInvariant, PTL

\* Theorem: what failure_count(), cleanup() and clear_class() remove has expired
\* or has the class they were given, unless a failure of that pair was being
\* recorded during the call.
THEOREM RemovalsFit ==
    ASSUME TrackerAssumption
    PROVE  Spec => RemovesOnlyItsTarget
<1> DEFINE Fit == \A c \in Callers, p \in Pairs :
              Removes(c, p) /\ p \notin overlaps[c] =>
                 /\ job[c].op \in {"count", "cleanup"} => Expired(now, failures[p].last)
                 /\ job[c].op = "clear_class" => failures[p].class = job[c].class
<1>1. TrackerInv => Fit
  BY TargetsFit
<1>2. TrackerInv /\ [Next]_vars => [Fit]_vars
  BY <1>1
<1> QED BY <1>2, TrackerInvariant, PTL DEF Spec, RemovesOnlyItsTarget

=============================================================================
