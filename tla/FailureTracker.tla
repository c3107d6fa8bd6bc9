---------------------------- MODULE FailureTracker ----------------------------
(***************************************************************************)
(* The failure tracker of the Rust client                                  *)
(* (rust/src/retry/failure_tracker.rs), shared by several tasks: a         *)
(* concurrent map from (domain, browser) pairs to a count, the time of the *)
(* last failure and its class.  Every method works through &self, so its   *)
(* accesses to the map and to the atomics of a record interleave with      *)
(* those of other callers; each access is a step here.                     *)
(*                                                                         *)
(* A caller that looked a record up holds a read guard on it: the record   *)
(* may still be updated through its atomics, but nobody can insert or      *)
(* remove it.  Pairs that share a lock of the map only wait for each other *)
(* more often, so every pair has a lock of its own here.                   *)
(***************************************************************************)
EXTENDS Naturals, FiniteSets

CONSTANTS Callers,       \* tasks that share the tracker
          Pairs,         \* <<domain, browser>> pairs
          ErrorClasses,  \* failure classes the callers pass
          Ttl,           \* FAILURE_TTL_MS, in ticks
          MaxTime,       \* bound: the clock stops here
          MaxCalls       \* bound: how many calls are begun altogether

Domains == {p[1] : p \in Pairs}

NoPair == <<"none", "none">>

ASSUME TrackerAssumption ==
    /\ Ttl \in Nat /\ MaxTime \in Nat /\ MaxCalls \in Nat
    /\ NoPair \notin Pairs /\ IsFiniteSet(Callers)

VARIABLES failures,  \* the map: a record per pair, or Absent
          now,       \* the clock
          pc,        \* where each caller is
          job,       \* what it was called with, and its locals
          guard,     \* the pair it holds a read guard on
          answer,    \* what its last count returned
          \* history: calls begun, failures begun per pair, the time of the
          \* latest, pairs being removed, the pairs that failures were being
          \* recorded for during a caller's call
          calls, begun, latest, removing, overlaps

vars == <<failures, now, pc, job, guard, answer, calls, begun, latest, removing,
          overlaps>>
history == <<begun, latest>>

Absent == [count |-> 0, last |-> 0, class |-> "none"]
Present(p) == failures[p].count > 0

\* Class codes of the atomics: only these two are told apart.
class_code(class) == IF class \in {"blocked", "transient"} THEN class ELSE "other"

\* saturating_sub: a record stamped after the caller read the clock has age 0.
Age(t, last) == IF t > last THEN t - last ELSE 0
Expired(t, last) == Age(t, last) > Ttl

NoJob == [op |-> "none", pair |-> NoPair, class |-> "other", now |-> 0,
          todo |-> {}, found |-> {}, total |-> 0]

NoAnswer == [pair |-> NoPair, asked |-> 0, count |-> 0]

Init ==
    /\ failures = [p \in Pairs |-> Absent]
    /\ now = 0
    /\ pc = [c \in Callers |-> "idle"]
    /\ job = [c \in Callers |-> NoJob]
    /\ guard = [c \in Callers |-> NoPair]
    /\ answer = [c \in Callers |-> NoAnswer]
    /\ calls = 0
    /\ begun = [p \in Pairs |-> 0] /\ latest = [p \in Pairs |-> 0]
    /\ removing = {} /\ overlaps = [c \in Callers |-> {}]

Tick ==
    /\ now < MaxTime
    /\ now' = now + 1
    /\ UNCHANGED <<failures, pc, job, guard, answer, calls, overlaps, history, removing>>

-----------------------------------------------------------------------------
\* Moving a caller, and the lock of a pair.

Recording(c) == pc[c] # "idle" /\ job[c].op = "record"

Begin(c, where, what) ==
    /\ pc[c] = "idle" /\ calls < MaxCalls
    /\ calls' = calls + 1
    /\ overlaps' = [d \in Callers |->
          IF d = c THEN {job[e].pair : e \in {e \in Callers : Recording(e)}}
          ELSE overlaps[d] \cup (IF what.op = "record" THEN {what.pair} ELSE {})]
    /\ pc' = [pc EXCEPT ![c] = where]
    /\ job' = [job EXCEPT ![c] = what]
    /\ UNCHANGED <<failures, now, guard, answer>>

Goto(c, where) == pc' = [pc EXCEPT ![c] = where]

Hold(c, p) == guard' = [guard EXCEPT ![c] = p]

Unguarded(p) == \A c \in Callers : guard[c] # p

Answer(c, n) ==
    answer' = [answer EXCEPT ![c] =
                  [pair |-> job[c].pair, asked |-> job[c].now, count |-> n]]

-----------------------------------------------------------------------------
\* record_failure_class(): update through the guard, or insert.

RecordFailure(c, p, class) ==
    /\ Begin(c, "get", [NoJob EXCEPT !.op = "record", !.pair = p,
                                     !.class = class_code(class), !.now = now])
    /\ begun' = [begun EXCEPT ![p] = @ + 1]
    /\ latest' = [latest EXCEPT ![p] = now]
    /\ UNCHANGED removing

Get(c) ==
    /\ pc[c] = "get"
    /\ IF Present(job[c].pair)
       THEN Hold(c, job[c].pair) /\ Goto(c, "add")
       ELSE Goto(c, "insert") /\ UNCHANGED guard
    /\ UNCHANGED <<failures, now, job, answer, calls, overlaps, history, removing>>

\* The three relaxed updates, each visible to the other callers at once.
Add(c) ==
    /\ pc[c] = "add"
    /\ failures' = [failures EXCEPT ![job[c].pair].count = @ + 1]
    /\ Goto(c, "stamp")
    /\ UNCHANGED <<now, job, guard, answer, calls, overlaps, history, removing>>

Stamp(c) ==
    /\ pc[c] = "stamp"
    /\ failures' = [failures EXCEPT ![job[c].pair].last = job[c].now]
    /\ Goto(c, "tag")
    /\ UNCHANGED <<now, job, guard, answer, calls, overlaps, history, removing>>

Tag(c) ==
    /\ pc[c] = "tag"
    /\ failures' = [failures EXCEPT ![job[c].pair].class = job[c].class]
    /\ Hold(c, NoPair)
    /\ Goto(c, "idle")
    /\ UNCHANGED <<now, job, answer, calls, overlaps, history, removing>>

NewRecord(c) == [count |-> 1, last |-> job[c].now, class |-> job[c].class]

\* Mutant: insert() in place of entry().and_modify().or_insert_with().
PlainInsert(c) == NewRecord(c)

\* Another caller may have inserted the pair since this one looked.
EntryValue(c) ==
    [NewRecord(c) EXCEPT !.count = failures[job[c].pair].count + 1]

Insert(c) ==
    /\ pc[c] = "insert"
    /\ Unguarded(job[c].pair)
    /\ failures' = [failures EXCEPT ![job[c].pair] = EntryValue(c)]
    /\ Goto(c, "idle")
    /\ UNCHANGED <<now, job, guard, answer, calls, overlaps, history, removing>>

-----------------------------------------------------------------------------
\* record_success(), and the removals of the other methods.

RecordSuccess(c, p) ==
    /\ Begin(c, "remove", [NoJob EXCEPT !.op = "success", !.pair = p,
                                        !.found = {p}, !.now = now])
    /\ removing' = removing \cup {p}
    /\ UNCHANGED history

\* DashMap::remove(): waits for every read guard on the pair.
Remove(c) ==
    /\ pc[c] = "remove"
    /\ \E p \in job[c].found :
          /\ Unguarded(p)
          /\ failures' = [failures EXCEPT ![p] = Absent]
          /\ job' = [job EXCEPT ![c].found = @ \ {p}]
          /\ Goto(c, IF job[c].found = {p} THEN "idle" ELSE "remove")
    /\ IF job[c].op = "count" THEN Answer(c, 0) ELSE UNCHANGED answer
    /\ UNCHANGED <<now, guard, calls, overlaps, history, removing>>

-----------------------------------------------------------------------------
\* failure_count(): look the pair up, and drop it when it has expired.

FailureCount(c, p) ==
    /\ Begin(c, "look", [NoJob EXCEPT !.op = "count", !.pair = p, !.now = now])
    /\ UNCHANGED <<history, removing>>

Look(c) ==
    /\ pc[c] = "look"
    /\ IF Present(job[c].pair)
       THEN /\ Hold(c, job[c].pair)
            /\ Goto(c, "load") /\ UNCHANGED answer
       ELSE /\ Answer(c, 0)
            /\ Goto(c, "idle") /\ UNCHANGED guard
    /\ UNCHANGED <<failures, now, job, calls, overlaps, history, removing>>

\* Mutant: the expired record is removed under the guard that found it.
EvictUnderGuard(c) ==
    /\ Goto(c, "remove")
    /\ job' = [job EXCEPT ![c].found = {job[c].pair}]
    /\ removing' = removing \cup {job[c].pair}
    /\ UNCHANGED guard

Evict(c) ==
    /\ Goto(c, "remove")
    /\ job' = [job EXCEPT ![c].found = {job[c].pair}]
    /\ removing' = removing \cup {job[c].pair}
    /\ Hold(c, NoPair)

\* Mutant: a record of any age is counted.
CountsAnyAge(c) == FALSE

FoundExpired(c) == Expired(job[c].now, failures[job[c].pair].last)

Load(c) ==
    /\ pc[c] = "load"
    /\ IF FoundExpired(c)
       THEN Evict(c)
       ELSE Goto(c, "read") /\ UNCHANGED <<job, guard, removing>>
    /\ UNCHANGED <<failures, now, answer, calls, overlaps, history>>

Read(c) ==
    /\ pc[c] = "read"
    /\ Answer(c, failures[job[c].pair].count)
    /\ Hold(c, NoPair)
    /\ Goto(c, "idle")
    /\ UNCHANGED <<failures, now, job, calls, overlaps, history, removing>>

-----------------------------------------------------------------------------
\* clear(), clear_class(), cleanup(): collect the pairs, then remove them.
\* total_failure_count() walks the map in the same way.

OfDomain(d) == {p \in Pairs : p[1] = d}

Walk(c, op, todo, class) ==
    /\ Begin(c, "scan", [NoJob EXCEPT !.op = op, !.todo = todo,
                                      !.class = class_code(class), !.now = now])
    /\ UNCHANGED <<history, removing>>

Clear(c, d)             == Walk(c, "clear", OfDomain(d), "other")
ClearClass(c, d, class) == Walk(c, "clear_class", OfDomain(d), class)
Cleanup(c)              == Walk(c, "cleanup", Pairs, "other")
TotalFailureCount(c, d) == Walk(c, "total", OfDomain(d), "other")

\* Mutant: every walk collects whatever it meets.
CollectsAll(c, p) == Present(p) /\ job[c].op # "total"

Collects(c, p) ==
    /\ Present(p)
    /\ CASE job[c].op = "clear"       -> TRUE
         [] job[c].op = "clear_class" -> failures[p].class = job[c].class
         [] job[c].op = "cleanup"     -> Expired(job[c].now, failures[p].last)
         [] OTHER                     -> FALSE

\* total_failure_count() leaves a record out when its age equals the TTL.
Adds(c, p) ==
    IF job[c].op = "total" /\ Age(job[c].now, failures[p].last) < Ttl
    THEN failures[p].count ELSE 0

Scan(c) ==
    /\ pc[c] = "scan"
    /\ \E p \in job[c].todo :
          LET found == job[c].found \cup {q \in {p} : Collects(c, q)}
              left  == job[c].todo \ {p}
              total == job[c].total + Adds(c, p)
          IN  /\ job' = [job EXCEPT ![c].todo = left, ![c].found = found,
                                    ![c].total = total]
              /\ removing' = removing \cup found
              /\ Goto(c, IF left # {} THEN "scan"
                         ELSE IF found # {} THEN "remove" ELSE "idle")
    /\ UNCHANGED <<failures, now, guard, answer, calls, overlaps, history>>

Step(c) ==
    \/ Get(c) \/ Add(c) \/ Stamp(c) \/ Tag(c) \/ Insert(c) \/ Remove(c)
    \/ Look(c) \/ Load(c) \/ Read(c) \/ Scan(c)

Call(c) ==
    \/ \E p \in Pairs : \/ RecordSuccess(c, p) \/ FailureCount(c, p)
                        \/ \E class \in ErrorClasses : RecordFailure(c, p, class)
    \/ \E d \in Domains : \/ Clear(c, d) \/ TotalFailureCount(c, d)
                          \/ \E class \in ErrorClasses : ClearClass(c, d, class)
    \/ Cleanup(c)

Next == Tick \/ \E c \in Callers : Call(c) \/ Step(c)

Spec == Init /\ [][Next]_vars

\* A caller inside a method is a running thread.
FairSpec == Spec /\ \A c \in Callers : WF_vars(Step(c))

-----------------------------------------------------------------------------
Records == [count : Nat, last : 0..MaxTime,
            class : {"none", "blocked", "transient", "other"}]

\* Type invariant: the map, the callers' positions and their locals.
TypeOK ==
    /\ failures \in [Pairs -> Records]
    /\ now \in 0..MaxTime /\ calls \in 0..MaxCalls
    /\ pc \in [Callers -> {"idle", "get", "add", "stamp", "tag", "insert",
                           "remove", "look", "load", "read", "scan"}]
    /\ guard \in [Callers -> Pairs \cup {NoPair}]
    /\ removing \subseteq Pairs /\ overlaps \in [Callers -> SUBSET Pairs]
    /\ \A c \in Callers :
          /\ job[c].pair \in Pairs \cup {NoPair}
          /\ job[c].todo \subseteq Pairs /\ job[c].found \subseteq Pairs
          /\ answer[c].count \in Nat

Uncounted(p) == {c \in Callers : /\ job[c].op = "record" /\ job[c].pair = p
                                 /\ pc[c] \in {"get", "add", "insert"}}

\* Safety: as long as nothing removes the pair, every failure is counted, also
\* when two callers both found the pair absent and insert it.
NoFailureLost ==
    \A p \in Pairs \ removing :
       failures[p].count + Cardinality(Uncounted(p)) = begun[p]

\* Safety: failure_count() reports failures only of a pair that had one within
\* the TTL before the call, whatever was recorded or removed meanwhile.
CountIsRecent ==
    \A c \in Callers :
       answer[c].count > 0 =>
          LET p == answer[c].pair
          IN  /\ begun[p] > 0 /\ Age(answer[c].asked, latest[p]) <= Ttl
              /\ answer[c].count <= begun[p]

Removes(c, p) == p \in job[c].found /\ p \notin job'[c].found /\ Present(p)

\* Action property: failure_count() and cleanup() drop only what has expired,
\* clear_class() only what has the class it was given, unless another caller
\* was recording a failure of that pair during the call: the keys are
\* collected first and removed afterwards, without a second look.
RemovesOnlyItsTarget ==
    [][\A c \in Callers, p \in Pairs :
          Removes(c, p) /\ p \notin overlaps[c] =>
             /\ job[c].op \in {"count", "cleanup"} => Expired(now, failures[p].last)
             /\ job[c].op = "clear_class" => failures[p].class = job[c].class]_vars

\* Liveness: every call of the tracker returns; no removal waits for a guard
\* that its own caller, or a caller waiting for it, keeps.
CallsReturn == \A c \in Callers : pc[c] # "idle" ~> pc[c] = "idle"

=============================================================================
