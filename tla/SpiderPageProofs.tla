-------------------------- MODULE SpiderPageProofs --------------------------
(***************************************************************************)
(* Theorems about a page of the Rust client, for any documents, any number *)
(* of calls, of rounds and of steps of a plan: what is returned as content *)
(* was classified, or has grown from what was, and is all there was; only  *)
(* a gesture that breaks off leaves a button or key pressed; an agent of   *)
(* one page plans on documents with its guardrail, and its report is true. *)
(*                                                                         *)
(* The calls of a page keep their state apart, so the invariant is that of *)
(* the content, of the input and of the agent, each kept by its own steps  *)
(* and left alone by the others.                                           *)
(***************************************************************************)
EXTENDS SpiderPage, SequenceTheorems, TLAPS

AllDocuments == [len : Sizes, text : Texts]

-----------------------------------------------------------------------------
\* The content.

Growing == {"grow", "poll"}

\* The place a call is at is one of its own: what each call passes through.
PlaceInv ==
    /\ at # "idle" => ret = "none"
    /\ at \in {"early", "main", "challenge", "grow", "poll"} =>
          op \in {"content", "content_with_network_idle"}
    /\ at \in {"ready", "quiet"} =>
          op \in {"content", "content_with_network_idle", "wait_for_network_idle"}
             \cup IF at = "ready" THEN {"wait_for_ready"} ELSE {}
    /\ at = "patient" => op = "content_with_early_return"
    /\ at \in {"selector", "stable", "length"} => op \in WaitOps

ContentTypes ==
    /\ at \in {"idle", "early", "main", "challenge", "ready", "quiet", "patient",
               "selector", "stable", "length"} \cup Growing
    /\ min \in Sizes /\ html \in AllDocuments /\ judged \in AllDocuments
    /\ longest \in Sizes

\* A document grows only after it was found to be good but for its length, and
\* is the longest that was read since.
GrowInv ==
    at \in Growing =>
        /\ ~is_interstitial_content(judged) /\ ~is_rate_limit_content(judged)
        /\ html.len = longest /\ html.len < min
        /\ html # judged => html.len > judged.len

ContentInv ==
    ContentTypes /\ PlaceInv /\ GrowInv /\ OnlyGrowthIsUnclassified /\ ShortIsLast

-----------------------------------------------------------------------------
\* The input.

Controls == {"button", "key"}

Commands == [down : SUBSET Controls, up : SUBSET Controls]

\* What a list of commands presses it releases, in the same command or a later
\* one.
Closed(s) ==
    \A i \in 1..Len(s) : \A c \in s[i].down \ s[i].up :
        \E j \in 1..Len(s) : i < j /\ c \in s[j].up

Whole(s) == s \in Seq(Commands) /\ Closed(s)

\* Every operation but key_down() has a closed list left.
InputInv ==
    /\ protocol \in {"cdp", "bidi"} /\ script \in Seq(Commands)
    /\ held \in SUBSET Controls /\ stuck \in SUBSET Controls /\ downed \in BOOLEAN
    /\ doing = "none" => script = <<>>
    /\ IF doing = "key_down" THEN script = <<KeyDown>> ELSE Closed(script)
    /\ NothingStaysPressed

-----------------------------------------------------------------------------
\* The agent.

\* The document an agent of one page is about to plan on has the guardrail, or
\* what spoilt it is on record; a round that will not evaluate it again starts
\* on such a document.
GuardInv ==
    /\ persistent => preload
    /\ /\ scope = "page" /\ ~drifted
       /\ \/ stage \in {"install", "look", "ask"}
          \/ persistent /\ stage \in {"round", "act", "acting"}
       => guarded

\* The last of the plans to find something found e (LastFound, without the
\* index), which is what the run has extracted.
FoundLast(ps, e) ==
    \/ /\ e = Nothing
       /\ \A i \in 1..Len(ps) : ps[i] = Nothing
    \/ \E i \in 1..Len(ps) :
          /\ ps[i] # Nothing /\ e = ps[i]
          /\ \A j \in 1..Len(ps) : i < j => ps[j] = Nothing

ExtractedInv == FoundLast(plans, extracted)

AgentTypes ==
    /\ persistent \in BOOLEAN /\ guarded \in BOOLEAN
    /\ preload \in BOOLEAN /\ drifted \in BOOLEAN

AgentInv ==
    /\ AgentTypes
    /\ plans \in Seq(Findings \cup {Nothing}) /\ round \in Nat
    /\ GuardInv /\ ExtractedInv
    /\ stage # "idle" => report = NoReport /\ events = <<>>
    /\ ReportIsTrue

PageInv == ContentInv /\ InputInv /\ AgentInv

-----------------------------------------------------------------------------
\* Lemma: the content of a page that nobody asked for is Init's.
LEMMA ContentInitial == PageAssumption /\ ContentInit => ContentInv
<1> USE DEF PageAssumption, Sizes, Texts, AllDocuments, Empty
<1> SUFFICES ASSUME PageAssumption, ContentInit PROVE ContentInv
  OBVIOUS
<1>1. ContentTypes
  BY DEF ContentInit, ContentTypes
<1>2. PlaceInv /\ GrowInv
  BY DEF ContentInit, PlaceInv, GrowInv, Growing
<1>3. OnlyGrowthIsUnclassified /\ ShortIsLast
  BY DEF ContentInit, OnlyGrowthIsUnclassified, ShortIsLast, Reads
<1> QED BY <1>1, <1>2, <1>3 DEF ContentInv

\* Lemma: every method that reads or waits starts in the place it has.
LEMMA ContentBegins ==
    ASSUME PageAssumption, ContentInv, NEW o \in ContentOps \cup WaitOps, BeginContent(o)
    PROVE  ContentInv'
<1> USE DEF PageAssumption, Sizes, Texts, AllDocuments, Empty, ContentOps, WaitOps
<1>1. at' # "idle" /\ at' \notin Growing /\ ret' = "none"
  BY DEF BeginContent, Start, Growing
<1>2. ContentTypes'
  BY DEF ContentInv, ContentTypes, BeginContent, Start, Growing
<1>3. PlaceInv'
  BY DEF PlaceInv, BeginContent, Start
<1>4. GrowInv' /\ OnlyGrowthIsUnclassified' /\ ShortIsLast'
  BY <1>1 DEF GrowInv, OnlyGrowthIsUnclassified, ShortIsLast, Reads
<1> QED BY <1>2, <1>3, <1>4 DEF ContentInv

\* Lemma: so does every step, which either reads and classifies, or reads a
\* longer document than there is, or returns what is there.
LEMMA ContentSteps ==
    ASSUME PageAssumption, ContentInv, ContentStep
    PROVE  ContentInv'
<1> USE DEF PageAssumption, Sizes, Texts, AllDocuments, Empty, ContentOps, WaitOps, Growing
<1> USE DEF ContentInv, ContentTypes, PlaceInv, GrowInv, callVars
<1>1. ASSUME NEW h \in Pages, Early(h) PROVE ContentInv'
  <2>1. ContentTypes'
    BY <1>1 DEF Early, Judge, Return, Enter
  <2>2. PlaceInv' /\ GrowInv'
    BY <1>1 DEF Early, Judge, Return, Enter
  <2>3. OnlyGrowthIsUnclassified' /\ ShortIsLast'
    BY <1>1 DEF Early, Judge, Return, Enter, Good, OnlyGrowthIsUnclassified, ShortIsLast, Reads
  <2> QED BY <2>1, <2>2, <2>3
<1>2. ASSUME NEW h \in Pages, Main(h) PROVE ContentInv'
  <2>1. ContentTypes'
    BY <1>2 DEF Main, Judge, Settle, Return, Enter
  <2>2. PlaceInv' /\ GrowInv'
    BY <1>2 DEF Main, Judge, Settle, Return, Enter
  <2>3. OnlyGrowthIsUnclassified' /\ ShortIsLast'
    BY <1>2 DEF Main, Judge, Settle, Return, Enter, OnlyGrowthIsUnclassified, ShortIsLast, Reads
  <2> QED BY <2>1, <2>2, <2>3
<1>3. ASSUME NEW h \in Pages, Challenge(h) PROVE ContentInv'
  <2>1. ContentTypes'
    BY <1>3 DEF Challenge, Judge, Settle, Return, Enter
  <2>2. PlaceInv' /\ GrowInv'
    BY <1>3 DEF Challenge, Judge, Settle, Return, Enter
  <2>3. OnlyGrowthIsUnclassified' /\ ShortIsLast'
    BY <1>3 DEF Challenge, Judge, Settle, Return, Enter, OnlyGrowthIsUnclassified, ShortIsLast, Reads
  <2> QED BY <2>1, <2>2, <2>3
<1>4. ASSUME NEW h \in Pages, Grow(h) PROVE ContentInv'
  <2>1. ContentTypes'
    BY <1>4 DEF Grow, KeepLonger, Return, Enter
  <2>2. PlaceInv' /\ GrowInv'
    BY <1>4 DEF Grow, KeepLonger, Return, Enter
  <2>3. OnlyGrowthIsUnclassified' /\ ShortIsLast'
    BY <1>4 DEF Grow, KeepLonger, Return, Enter, OnlyGrowthIsUnclassified, ShortIsLast, Reads
  <2> QED BY <2>1, <2>2, <2>3
<1>5. ASSUME NEW h \in Pages, Patient(h) PROVE ContentInv'
  <2>1. ContentTypes'
    BY <1>5 DEF Patient, Judge, Return
  <2>2. PlaceInv' /\ GrowInv'
    BY <1>5 DEF Patient, Judge, Return
  <2>3. OnlyGrowthIsUnclassified' /\ ShortIsLast'
    BY <1>5 DEF Patient, Judge, Return, Good, OnlyGrowthIsUnclassified, ShortIsLast, Reads
  <2> QED BY <2>1, <2>2, <2>3
<1>6. ASSUME NEW h \in Pages, Stable(h) \/ Length(h) PROVE ContentInv'
  <2>1. ContentTypes' /\ PlaceInv' /\ GrowInv'
    BY <1>6 DEF Stable, Length, Return
  <2>2. OnlyGrowthIsUnclassified' /\ ShortIsLast'
    BY <1>6 DEF Stable, Length, Return, OnlyGrowthIsUnclassified, ShortIsLast, Reads
  <2> QED BY <2>1, <2>2
<1>7. ASSUME NEW isReady \in BOOLEAN, Ready(isReady) PROVE ContentInv'
  BY <1>7 DEF Ready, Enter, OnlyGrowthIsUnclassified, ShortIsLast, Reads
<1>8. ASSUME NEW answer, Selector(answer) PROVE ContentInv'
  BY <1>8 DEF Selector, Return, OnlyGrowthIsUnclassified, ShortIsLast, Reads
<1>9. ASSUME Quiet PROVE ContentInv'
  BY <1>9 DEF Quiet, Return, Enter, OnlyGrowthIsUnclassified, ShortIsLast, Reads
<1>10. ASSUME ChallengeOver \/ PollOver PROVE ContentInv'
  BY <1>10 DEF ChallengeOver, PollOver, Return, OnlyGrowthIsUnclassified, ShortIsLast, Reads
<1> HIDE DEF ContentInv
<1> QED BY <1>1, <1>2, <1>3, <1>4, <1>5, <1>6, <1>7, <1>8, <1>9, <1>10 DEF ContentStep

\* Lemma: time changes nothing of a call that is in progress but its deadlines.
LEMMA ContentTimes ==
    ASSUME ContentInv, PhaseEnds \/ CallIsLate
    PROVE  ContentInv'
<1>1. at # "idle" /\ at' = at /\ ret' = ret
      /\ UNCHANGED <<callVars, html, judged, longest>>
  BY DEF PhaseEnds, CallIsLate, callVars
<1>2. ret' # "ok"
  BY <1>1 DEF ContentInv, PlaceInv
<1>3. ContentTypes' /\ PlaceInv' /\ GrowInv'
  BY <1>1 DEF ContentInv, ContentTypes, PlaceInv, GrowInv, callVars,
              is_interstitial_content, is_rate_limit_content
<1>4. OnlyGrowthIsUnclassified' /\ ShortIsLast'
  BY <1>2 DEF OnlyGrowthIsUnclassified, ShortIsLast, Reads
<1> QED BY <1>3, <1>4 DEF ContentInv

\* Lemma: another call of the page leaves nothing to be returned.
LEMMA ContentForgotten ==
    ASSUME PageAssumption, ForgetContent
    PROVE  ContentInv'
<1> USE DEF PageAssumption, Sizes, Texts, AllDocuments, Empty
<1>1. ContentTypes'
  BY DEF ForgetContent, ContentTypes
<1>2. PlaceInv' /\ GrowInv'
  BY DEF ForgetContent, PlaceInv, GrowInv, Growing
<1>3. OnlyGrowthIsUnclassified' /\ ShortIsLast'
  BY DEF ForgetContent, OnlyGrowthIsUnclassified, ShortIsLast, Reads
<1> QED BY <1>1, <1>2, <1>3 DEF ContentInv

\* Lemma: the state of the content is all the invariant looks at.
LEMMA ContentUnchanged ==
    ASSUME ContentInv, UNCHANGED contentVars
    PROVE  ContentInv'
BY DEF contentVars, ContentInv, ContentTypes, PlaceInv, GrowInv,
       OnlyGrowthIsUnclassified, ShortIsLast, Reads, is_interstitial_content,
       is_rate_limit_content

-----------------------------------------------------------------------------
\* The input.

\* Lemma: the controls a list of commands presses and releases.
LEMMA InList ==
    ASSUME NEW s, NEW c
    PROVE  /\ c \in Pressed(s) <=> \E i \in 1..Len(s) : c \in s[i].down
           /\ c \in Released(s) <=> \E i \in 1..Len(s) : c \in s[i].up
BY DEF Pressed, Released

\* Lemma: what a list releases its first command does, or what is left does.
LEMMA ReleasedLater ==
    ASSUME NEW s \in Seq(Commands), s # <<>>
    PROVE  /\ Head(s) = s[1] /\ Head(s) \in Commands /\ Tail(s) \in Seq(Commands)
           /\ Len(s) \in Nat \ {0} /\ Len(Tail(s)) = Len(s) - 1
           /\ \A i \in 1..Len(Tail(s)) : Tail(s)[i] = s[i + 1]
           /\ \A i \in 1..Len(s) : \A c : 1 < i /\ c \in s[i].up => c \in Released(Tail(s))
           /\ \A c : c \in Released(s) => c \in Head(s).up \/ c \in Released(Tail(s))
<1>1. /\ Head(s) = s[1] /\ Len(s) \in Nat \ {0} /\ Len(Tail(s)) = Len(s) - 1
      /\ \A i \in 1..Len(Tail(s)) : Tail(s)[i] = s[i + 1]
      /\ Tail(s) \in Seq(Commands) /\ Head(s) \in Commands
  BY HeadTailProperties, LenProperties, EmptySeq
<1>2. ASSUME NEW i \in 1..Len(s), NEW c, 1 < i, c \in s[i].up
      PROVE  c \in Released(Tail(s))
  <2>1. i - 1 \in 1..Len(Tail(s)) /\ Tail(s)[i - 1] = s[i]
    BY <1>1, <1>2
  <2>2. c \in Tail(s)[i - 1].up
    BY <2>1, <1>2
  <2> QED BY <2>1, <2>2, InList
<1>3. ASSUME NEW c, c \in Released(s), c \notin Head(s).up
      PROVE  c \in Released(Tail(s))
  <2>1. PICK i \in 1..Len(s) : c \in s[i].up
    BY <1>3, InList
  <2>2. i # 1
    BY <2>1, <1>1, <1>3
  <2>3. 1 < i
    BY <2>2
  <2> QED BY <2>1, <2>3, <1>2
<1> QED BY <1>1, <1>2, <1>3

\* Lemma: what is left of a closed list after its first command is closed, and
\* releases what that command pressed.
LEMMA ClosedTail ==
    ASSUME NEW s \in Seq(Commands), s # <<>>, Closed(s)
    PROVE  /\ Whole(Tail(s))
           /\ \A c \in Head(s).down \ Head(s).up : c \in Released(Tail(s))
<1>1. /\ Head(s) = s[1] /\ Len(s) \in Nat \ {0} /\ Len(Tail(s)) = Len(s) - 1
      /\ \A i \in 1..Len(Tail(s)) : Tail(s)[i] = s[i + 1]
      /\ Tail(s) \in Seq(Commands)
  BY ReleasedLater
<1>2. ASSUME NEW i \in 1..Len(Tail(s)), NEW c \in Tail(s)[i].down \ Tail(s)[i].up
      PROVE  \E j \in 1..Len(Tail(s)) : i < j /\ c \in Tail(s)[j].up
  <2>1. i + 1 \in 1..Len(s) /\ Tail(s)[i] = s[i + 1]
    BY <1>1
  <2>2. c \in s[i + 1].down \ s[i + 1].up
    BY <2>1
  <2>3. PICK j \in 1..Len(s) : i + 1 < j /\ c \in s[j].up
    BY <2>1, <2>2 DEF Closed
  <2>4. j - 1 \in 1..Len(Tail(s)) /\ i < j - 1 /\ Tail(s)[j - 1] = s[j]
    BY <1>1, <2>3
  <2> QED BY <2>3, <2>4
<1>3. ASSUME NEW c \in Head(s).down \ Head(s).up
      PROVE  c \in Released(Tail(s))
  <2>1. 1 \in 1..Len(s) /\ c \in s[1].down \ s[1].up
    BY <1>1, <1>3
  <2>2. PICK j \in 1..Len(s) : 1 < j /\ c \in s[j].up
    BY <2>1 DEF Closed
  <2> QED BY <2>2, ReleasedLater
<1> QED BY <1>1, <1>2, <1>3 DEF Whole, Closed

\* Lemma: two closed lists are closed one after the other.
LEMMA WholeConcat ==
    ASSUME NEW s, NEW t, Whole(s), Whole(t)
    PROVE  Whole(s \o t)
<1> DEFINE u == s \o t
<1>1. /\ u \in Seq(Commands) /\ Len(u) = Len(s) + Len(t)
      /\ \A i \in 1..Len(u) : u[i] = IF i <= Len(s) THEN s[i] ELSE t[i - Len(s)]
      /\ Len(s) \in Nat /\ Len(t) \in Nat
  BY ConcatProperties, LenProperties DEF Whole
<1> HIDE DEF u
<1>2. /\ \A j \in 1..Len(s) : j \in 1..Len(u) /\ u[j] = s[j]
      /\ \A j \in 1..Len(t) : Len(s) + j \in 1..Len(u) /\ u[Len(s) + j] = t[j]
  <2>1. \A j \in 1..Len(s) : j \in 1..Len(u) /\ u[j] = s[j]
    BY <1>1
  <2>2. ASSUME NEW j \in 1..Len(t)
        PROVE  Len(s) + j \in 1..Len(u) /\ u[Len(s) + j] = t[j]
    <3>1. Len(s) + j \in 1..Len(u) /\ ~(Len(s) + j <= Len(s)) /\ (Len(s) + j) - Len(s) = j
      BY <1>1
    <3>2. u[Len(s) + j] = t[(Len(s) + j) - Len(s)]
      BY <1>1, <3>1
    <3> QED BY <3>1, <3>2
  <2> QED BY <2>1, <2>2
<1>3. ASSUME NEW i \in 1..Len(u), NEW c \in u[i].down \ u[i].up
      PROVE  \E j \in 1..Len(u) : i < j /\ c \in u[j].up
  <2>1. CASE i <= Len(s)
    <3>1. i \in 1..Len(s) /\ u[i] = s[i]
      BY <1>1, <2>1
    <3>2. c \in s[i].down \ s[i].up
      BY <3>1, <1>3
    <3>3. PICK j \in 1..Len(s) : i < j /\ c \in s[j].up
      BY <3>1, <3>2 DEF Whole, Closed
    <3>4. j \in 1..Len(u) /\ u[j] = s[j]
      BY <1>2
    <3> QED BY <3>3, <3>4
  <2>2. CASE i > Len(s)
    <3>1. i - Len(s) \in 1..Len(t) /\ u[i] = t[i - Len(s)]
      BY <1>1, <2>2
    <3>2. c \in t[i - Len(s)].down \ t[i - Len(s)].up
      BY <3>1, <1>3
    <3>3. PICK j \in 1..Len(t) : i - Len(s) < j /\ c \in t[j].up
      BY <3>1, <3>2 DEF Whole, Closed
    <3>4. Len(s) + j \in 1..Len(u) /\ u[Len(s) + j] = t[j] /\ i < Len(s) + j
      BY <1>1, <1>2, <3>3
    <3> QED BY <3>3, <3>4
  <2> QED BY <1>1, <2>1, <2>2
<1>4. Closed(u)
  BY <1>3 DEF Closed
<1> QED BY <1>1, <1>4 DEF Whole, u

\* Lemma: a closed list is closed as one command, too.
LEMMA GestureIsWhole ==
    ASSUME NEW s, Whole(s)
    PROVE  Whole(Gesture(s))
<1>1. CASE protocol = "cdp"
  BY <1>1 DEF Gesture
<1>2. CASE protocol # "cdp"
  <2>1. ASSUME NEW i \in 1..Len(s)
        PROVE  /\ s[i].down \in SUBSET Controls /\ s[i].up \in SUBSET Controls
               /\ s[i].down \ s[i].up \subseteq Released(s)
    <3>1. s[i] \in Commands
      BY ElementOfSeq DEF Whole
    <3>2. s[i].down \ s[i].up \subseteq Released(s)
      BY InList DEF Whole, Closed
    <3> QED BY <3>1, <3>2 DEF Commands
  <2>2. Pressed(s) \in SUBSET Controls /\ Released(s) \in SUBSET Controls
    BY <2>1, InList
  <2>3. Pressed(s) \subseteq Released(s)
    <3> SUFFICES ASSUME NEW c \in Pressed(s) PROVE c \in Released(s)
      OBVIOUS
    <3>1. PICK i \in 1..Len(s) : c \in s[i].down
      BY InList
    <3>2. c \in s[i].up => c \in Released(s)
      BY InList
    <3> QED BY <3>1, <3>2, <2>1
  <2> DEFINE k == Command(Pressed(s), Released(s))
  <2>4. k \in Commands /\ k.down \ k.up = {}
    BY <2>2, <2>3 DEF Command, Commands
  <2>5. Gesture(s) = <<k>>
    BY <1>2 DEF Gesture
  <2> HIDE DEF k
  <2>6. Whole(<<k>>)
    BY <2>4 DEF Whole, Closed
  <2> QED BY <2>5, <2>6
<1> QED BY <1>1, <1>2

\* Lemma: the lists the operations are made of.
LEMMA Pieces ==
    /\ \A c \in {Still, Release, KeyUp} : Whole(<<c>>)
    /\ Whole(<<>>) /\ Whole(<<Still, Still>>) /\ Whole(<<KeyDown, KeyUp>>)
    /\ Whole(<<Still, Press, Release>>) /\ Whole(<<Still, Press, Still, Release>>)
    /\ Whole(<<Still, Press, Release, Press, Release>>)
<1> USE DEF Whole, Closed, Commands, Controls, Command, Still, Press, Release, KeyDown, KeyUp
<1>1. \A c \in {Still, Release, KeyUp} : Whole(<<c>>)
  OBVIOUS
<1>2. Whole(<<>>) /\ Whole(<<Still, Still>>)
  OBVIOUS
<1>3. Whole(<<KeyDown, KeyUp>>)
  OBVIOUS
<1>4. Whole(<<Still, Press, Release>>)
  OBVIOUS
<1>5. Whole(<<Still, Press, Still, Release>>)
  OBVIOUS
<1>6. Whole(<<Still, Press, Release, Press, Release>>)
  OBVIOUS
<1> QED BY <1>1, <1>2, <1>3, <1>4, <1>5, <1>6

\* Lemma: the clicks of click_all(), one after the other.
LEMMA ClicksAreWhole ==
    ASSUME NEW k \in Nat
    PROVE  Whole(Clicks(k))
<1> DEFINE s == Clicks(k)
           p == click_point
<1>1. Whole(p)
  BY Pieces, GestureIsWhole DEF click_point
<1>2. CASE protocol = "cdp"
  <2>1. Len(p) = 3 /\ p[1] = Still /\ p[2] = Press /\ p[3] = Release
    BY <1>2 DEF click_point, Gesture
  <2>2. s = [i \in 1..(k * 3) |-> p[1 + ((i - 1) % 3)]]
    BY <2>1 DEF Clicks
  <2> HIDE DEF p
  <2>3. \A i \in 1..(k * 3) :
            /\ (i - 1) % 3 = 0 => s[i] = Still
            /\ (i - 1) % 3 = 1 => s[i] = Press /\ i + 1 \in 1..(k * 3) /\ i % 3 = 2
            /\ (i - 1) % 3 = 2 => s[i] = Release
            /\ (i - 1) % 3 \in 0..2
    BY <2>1, <2>2
  <2> HIDE DEF s
  <2>4. Still \in Commands /\ Press \in Commands /\ Release \in Commands
        /\ Still.down = {} /\ Release.down = {} /\ Press.down = Release.up
    BY DEF Still, Press, Release, Command, Commands, Controls
  <2>5. Len(s) = k * 3 /\ s \in Seq(Commands)
    BY <2>2, <2>3, <2>4
  <2>6. ASSUME NEW i \in 1..Len(s), NEW c \in s[i].down \ s[i].up
        PROVE  \E j \in 1..Len(s) : i < j /\ c \in s[j].up
    <3>1. s[i] = Press /\ i + 1 \in 1..Len(s) /\ s[i + 1] = Release
      BY <2>3, <2>4, <2>5, <2>6
    <3> QED BY <3>1, <2>4, <2>6
  <2> QED BY <2>5, <2>6 DEF Whole, Closed, s
<1>3. CASE protocol # "cdp"
  <2>1. Len(p) = 1
    BY <1>3 DEF click_point, Gesture
  <2>2. p[1] \in Commands /\ p[1].down \ p[1].up = {}
    BY <1>1, <2>1 DEF Whole, Closed
  <2>3. s = [i \in 1..k |-> p[1]]
    BY <2>1 DEF Clicks
  <2> HIDE DEF s, p
  <2>4. Len(s) = k /\ s \in Seq(Commands)
    BY <2>2, <2>3
  <2> QED BY <2>2, <2>3, <2>4 DEF Whole, Closed, s
<1> QED BY <1>2, <1>3

\* Lemma: so is the list of every operation but key_down().
LEMMA ScriptIsWhole ==
    ASSUME NEW o \in InputOps, o # "key_down"
    PROVE  Whole(Script(o))
<1>1. Whole(click_point) /\ Whole(double_click_point) /\ Whole(drag_point) /\ Whole(press_key)
  BY Pieces, GestureIsWhole DEF click_point, double_click_point, drag_point, press_key
<1>2. Whole(<<Still>>) /\ Whole(<<KeyUp>>) /\ Whole(<<Still, Still>>) /\ Whole(<<>>)
  BY Pieces
<1>3. Whole(insert_text)
  BY <1>1, <1>2 DEF insert_text
<1>4. Whole(Focusing)
  BY <1>1, <1>2, WholeConcat DEF Focusing
<1>5. Whole(<<Still>> \o double_click_point) /\ Whole(<<Still, Still>> \o drag_point)
      /\ Whole(<<Still>> \o Focusing)
  BY <1>1, <1>2, <1>4, WholeConcat
<1>6. Whole((<<Still>> \o Focusing) \o (insert_text \o <<Still>>))
  BY <1>2, <1>3, <1>5, WholeConcat
<1> QED BY <1>1, <1>2, <1>3, <1>4, <1>5, <1>6 DEF Script, InputOps

\* Lemma: nothing is pressed before the first call.
LEMMA InputInitial == InputAssumption /\ InputInit => InputInv
<1> SUFFICES ASSUME InputAssumption, InputInit PROVE InputInv
  OBVIOUS
<1>1. protocol \in {"cdp", "bidi"} /\ script \in Seq(Commands) /\ Closed(script)
  BY DEF InputAssumption, InputInit, Closed
<1>2. /\ held = {} /\ stuck = {} /\ downed = FALSE /\ doing # "key_down"
      /\ doing = "none" => script = <<>>
  BY DEF InputInit
<1>3. NothingStaysPressed
  BY <1>2 DEF NothingStaysPressed
<1> QED BY <1>1, <1>2, <1>3 DEF InputInv

\* Lemma: a call begins with a closed list, and what an earlier one left pressed
\* is on record.
LEMMA InputBegins ==
    ASSUME InputInv, NEW o \in InputOps, BeginInput(o)
    PROVE  InputInv'
<1>1. /\ UNCHANGED <<protocol, held, stuck, downed>>
      /\ script' = Script(o) /\ doing = "none" /\ script = <<>>
  BY DEF BeginInput, InputInv
<1>2. doing' = (IF script' = <<>> THEN "none" ELSE o) /\ o # "none"
  BY DEF BeginInput, InputOps
<1>3. NothingStaysPressed'
  <2>1. Released(script) = {}
    BY <1>1 DEF Released
  <2>2. \A c \in held : c \in stuck \/ (c = "key" /\ downed)
    BY <2>1 DEF InputInv, NothingStaysPressed
  <2> QED BY <1>1, <2>2 DEF NothingStaysPressed
<1>4. CASE o = "key_down"
  <2>1. script' = <<KeyDown>> /\ KeyDown \in Commands
    BY <1>1, <1>4 DEF Script, KeyDown, Command, Commands, Controls
  <2>2. script' # <<>>
    BY <2>1
  <2>3. doing' = "key_down" /\ script' \in Seq(Commands)
    BY <1>2, <1>4, <2>1, <2>2
  <2>4. /\ protocol' \in {"cdp", "bidi"} /\ held' \in SUBSET Controls
        /\ stuck' \in SUBSET Controls /\ downed' \in BOOLEAN
    BY <1>1 DEF InputInv
  <2> QED BY <1>3, <2>1, <2>3, <2>4 DEF InputInv
<1>5. CASE o # "key_down"
  <2>1. Whole(script')
    BY <1>1, <1>5, ScriptIsWhole
  <2>2. script' \in Seq(Commands) /\ Closed(script)'
    BY <2>1 DEF Whole, Closed
  <2> QED BY <1>1, <1>2, <1>3, <1>5, <2>2 DEF InputInv
<1> QED BY <1>4, <1>5

\* Lemma: a command that succeeds leaves a closed list, and what it leaves
\* pressed is released by that list or on record.
LEMMA InputSucceeds ==
    ASSUME InputAssumption, InputInv, Succeed
    PROVE  InputInv'
<1> DEFINE c == Head(script)
<1>1. /\ script \in Seq(Commands) /\ script # <<>> /\ doing # "none"
      /\ protocol' = protocol
      /\ held' = (held \cup c.down) \ c.up
      /\ stuck' = stuck \ c.up
      /\ downed' = ((downed \/ doing = "key_down") /\ "key" \notin c.up)
  BY DEF InputInv, Succeed
<1>2. c \in Commands /\ \A d \in Released(script) : d \in c.up \/ d \in Released(Tail(script))
  BY <1>1, ReleasedLater
<1>3. PICK rest \in Rest : /\ script' = rest
                           /\ doing' = IF rest = <<>> THEN "none" ELSE doing
  BY DEF Succeed, EndInput
<1>4. held' \in SUBSET Controls /\ stuck' \in SUBSET Controls /\ downed' \in BOOLEAN
      /\ protocol' \in {"cdp", "bidi"}
  BY <1>1, <1>2 DEF InputInv, Commands
<1>5. CASE doing = "key_down"
  <2>1. script = <<KeyDown>> /\ c = KeyDown
    BY <1>5 DEF InputInv
  <2>2. script' = <<>> /\ doing' = "none"
    BY <1>3, <1>5, <2>1 DEF Rest
  <2>3. c.down = {"key"} /\ c.up = {} /\ Released(script) = {}
    BY <2>1 DEF KeyDown, Command, Released
  <2>4. NothingStaysPressed'
    BY <1>1, <1>5, <2>3 DEF NothingStaysPressed, InputInv
  <2>5. Closed(script)' /\ script' \in Seq(Commands)
    BY <2>2 DEF Closed
  <2> QED BY <1>4, <2>2, <2>4, <2>5 DEF InputInv
<1>6. CASE doing # "key_down"
  <2>1. Closed(script)
    BY <1>6 DEF InputInv
  <2>2. Whole(rest)
    <3>1. CASE rest = Tail(script)
      BY <1>1, <2>1, <3>1, ClosedTail
    <3>2. CASE rest # Tail(script)
      <4>1. PICK k \in 0..MaxPoints : rest = Clicks(k)
        BY <1>3, <3>2 DEF Rest
      <4>2. k \in Nat
        BY DEF InputAssumption
      <4> QED BY <4>1, <4>2, ClicksAreWhole
    <3> QED BY <3>1, <3>2
  <2>3. script' \in Seq(Commands) /\ Closed(script)'
    BY <1>3, <2>2 DEF Whole, Closed
  <2>4. \A d \in held' : d \in Released(Tail(script)) \/ d \in stuck' \/ (d = "key" /\ downed')
    <3> SUFFICES ASSUME NEW d \in held'
                 PROVE  d \in Released(Tail(script)) \/ d \in stuck' \/ (d = "key" /\ downed')
      OBVIOUS
    <3>1. CASE d \in c.down
      BY <1>1, <2>1, <3>1, ClosedTail
    <3>2. CASE d \notin c.down
      <4>1. d \in held /\ d \notin c.up
        BY <1>1, <3>2
      <4>2. d \in Released(script) \/ d \in stuck \/ (d = "key" /\ downed)
        BY <4>1 DEF InputInv, NothingStaysPressed
      <4> QED BY <1>1, <1>2, <4>1, <4>2
    <3> QED BY <3>1, <3>2
  <2>5. rest = Tail(script) \/ (Released(Tail(script)) = {})
    <3>1. CASE script = <<Still>>
      BY <3>1, InList
    <3>2. CASE script # <<Still>>
      BY <3>2, <1>3 DEF Rest
    <3> QED BY <3>1, <3>2
  <2>6. Released(Tail(script)) \subseteq Released(script)'
    BY <1>3, <2>5 DEF Released
  <2>7. NothingStaysPressed'
    BY <2>4, <2>6 DEF NothingStaysPressed
  <2>8. doing' # "key_down" /\ (doing' = "none" => script' = <<>>)
    BY <1>1, <1>3, <1>6
  <2> QED BY <1>4, <2>3, <2>7, <2>8 DEF InputInv
<1> QED BY <1>5, <1>6

\* Lemma: so does one that fails: what it leaves pressed the commands that are
\* left of the operation were to press or release.
LEMMA InputFails ==
    ASSUME InputInv, FailInput
    PROVE  InputInv'
<1> DEFINE c == Head(script)
           gone == Abandoned
<1>1. /\ script \in Seq(Commands) /\ script # <<>> /\ doing # "none"
      /\ protocol' = protocol
      /\ stuck' = (stuck \cup Pressed(gone) \cup Released(gone)) \cap held'
      /\ downed' = (downed /\ "key" \in held')
  BY DEF InputInv, FailInput
<1>2. PICK down \in SUBSET c.down, up \in SUBSET c.up : held' = (held \ up) \cup down
  BY DEF FailInput
<1>3. c \in Commands /\ c = script[1] /\ Len(script) \in Nat \ {0}
  BY <1>1, ReleasedLater
<1>4. held' \in SUBSET Controls /\ stuck' \in SUBSET Controls /\ downed' \in BOOLEAN
      /\ protocol' \in {"cdp", "bidi"}
  BY <1>1, <1>2, <1>3 DEF InputInv, Commands
<1>5. CASE Optional
  <2>1. /\ doing = "fill" /\ Len(script) > 2 /\ doing' = doing
        /\ script' = SubSeq(script, Len(script) - 1, Len(script))
        /\ gone = SubSeq(script, 1, Len(script) - 2)
    BY <1>5 DEF Optional, FailInput, Abandoned
  <2>2. /\ Len(gone) = Len(script) - 2 /\ \A i \in 1..(Len(script) - 2) : gone[i] = script[i]
    BY <1>1, <1>3, <2>1, SubSeqProperties
  <2>3. /\ script' \in Seq(Commands) /\ Len(script') = 2
        /\ script'[1] = script[Len(script) - 1] /\ script'[2] = script[Len(script)]
    BY <1>1, <1>3, <2>1, SubSeqProperties
  <2> HIDE DEF gone
  <2>4. Closed(script)
    BY <2>1 DEF InputInv
  <2>5. Closed(script)'
    <3> SUFFICES ASSUME NEW i \in 1..2, NEW d \in script'[i].down \ script'[i].up
                 PROVE  \E j \in 1..2 : i < j /\ d \in script'[j].up
      BY <2>3 DEF Closed
    <3> DEFINE m == Len(script) - 2 + i
    <3>1. m \in 1..Len(script) /\ script'[i] = script[m]
      <4>1. CASE i = 1
        <5>1. m = Len(script) - 1
          BY <1>3, <4>1
        <5> QED BY <1>3, <2>1, <2>3, <4>1, <5>1
      <4>2. CASE i = 2
        <5>1. m = Len(script)
          BY <1>3, <4>2
        <5> QED BY <1>3, <2>1, <2>3, <4>2, <5>1
      <4> QED BY <4>1, <4>2
    <3>2. d \in script[m].down \ script[m].up
      BY <3>1
    <3>3. PICK j \in 1..Len(script) : m < j /\ d \in script[j].up
      BY <2>4, <3>1, <3>2 DEF Closed
    <3>4. i = 1 /\ j = Len(script)
      BY <3>3, <1>3
    <3> QED BY <3>3, <3>4, <2>3
  <2>6. \A d : d \in Released(script) => d \in Released(gone) \/ d \in Released(script)'
    <3> SUFFICES ASSUME NEW d, NEW i \in 1..Len(script), d \in script[i].up
                 PROVE  d \in Released(gone) \/ d \in Released(script)'
      BY InList
    <3>1. CASE i <= Len(script) - 2
      <4>1. i \in 1..Len(gone) /\ d \in gone[i].up
        BY <3>1, <2>2, <1>3, <2>1
      <4> QED BY <4>1, InList
    <3>2. CASE i > Len(script) - 2
      <4>1. i = Len(script) - 1 \/ i = Len(script)
        BY <3>2, <1>3
      <4>2. \E j \in 1..Len(script') : d \in script'[j].up
        BY <4>1, <2>3
      <4> QED BY <4>2 DEF Released
    <3> QED BY <1>3, <3>1, <3>2
  <2>7. c.down \subseteq Pressed(gone)
    <3>1. 1 \in 1..Len(gone) /\ gone[1] = c
      BY <1>3, <2>1, <2>2
    <3> QED BY <3>1, InList
  <2>8. NothingStaysPressed'
    <3> SUFFICES ASSUME NEW d \in held'
                 PROVE  d \in Released(script)' \/ d \in stuck' \/ (d = "key" /\ downed')
      BY DEF NothingStaysPressed
    <3>1. CASE d \in down
      BY <1>1, <2>7, <3>1
    <3>2. CASE d \notin down
      <4>1. d \in held
        BY <1>2, <3>2
      <4>2. d \in Released(script) \/ d \in stuck \/ (d = "key" /\ downed)
        BY <4>1 DEF InputInv, NothingStaysPressed
      <4> QED BY <1>1, <2>6, <4>2
    <3> QED BY <3>1, <3>2
  <2> QED BY <1>4, <2>1, <2>3, <2>5, <2>8 DEF InputInv
<1>6. CASE ~Optional
  <2>1. script' = <<>> /\ doing' = "none" /\ gone = script
    BY <1>6 DEF FailInput, EndInput, Abandoned
  <2>2. c.down \subseteq Pressed(script)
    <3>1. 1 \in 1..Len(script)
      BY <1>3
    <3> QED BY <1>3, <3>1, InList
  <2>3. NothingStaysPressed'
    <3> SUFFICES ASSUME NEW d \in held'
                 PROVE  d \in stuck' \/ (d = "key" /\ downed')
      BY DEF NothingStaysPressed
    <3>1. CASE d \in down
      BY <1>1, <2>1, <2>2, <3>1
    <3>2. CASE d \notin down
      <4>1. d \in held
        BY <1>2, <3>2
      <4>2. d \in Released(script) \/ d \in stuck \/ (d = "key" /\ downed)
        BY <4>1 DEF InputInv, NothingStaysPressed
      <4> QED BY <1>1, <2>1, <4>2
    <3> QED BY <3>1, <3>2
  <2>4. script' \in Seq(Commands) /\ Closed(script)'
    BY <2>1 DEF Closed
  <2> QED BY <1>4, <2>1, <2>3, <2>4 DEF InputInv
<1> QED BY <1>5, <1>6

\* Lemma: the state of the input is all the invariant looks at.
LEMMA InputUnchanged ==
    ASSUME InputInv, UNCHANGED inputVars
    PROVE  InputInv'
BY DEF inputVars, InputInv, Closed, NothingStaysPressed, Released

-----------------------------------------------------------------------------
\* The agent.

\* Lemma: FoundLast says what LastFound finds.
LEMMA FoundLastIsSelected ==
    ASSUME NEW S, NEW ps \in Seq(S), NEW e, FoundLast(ps, e),
           NEW last,
           last = LET I == {i \in 1..Len(ps) : ps[i] # Nothing}
                  IN  IF I # {} THEN Max(I) ELSE 0
    PROVE  e = IF last = 0 THEN Nothing ELSE ps[last]
<1> DEFINE I == {i \in 1..Len(ps) : ps[i] # Nothing}
<1>1. last = IF I # {} THEN Max(I) ELSE 0
  OBVIOUS
<1>2. Len(ps) \in Nat
  BY LenProperties
<1>3. CASE I = {}
  BY <1>1, <1>3 DEF FoundLast
<1>4. CASE I # {}
  <2>1. PICK i \in 1..Len(ps) :
          /\ ps[i] # Nothing /\ e = ps[i]
          /\ \A j \in 1..Len(ps) : i < j => ps[j] = Nothing
    BY <1>4 DEF FoundLast
  <2>2. i \in I /\ \A j \in I : i >= j
    BY <2>1, <1>2
  <2> DEFINE m == Max(I)
  <2>3. m \in I /\ \A j \in I : m >= j
    BY <2>2 DEF Max
  <2> HIDE DEF m
  <2>4. m = i
    BY <2>2, <2>3, <1>2
  <2> QED BY <2>1, <2>4, <1>1, <1>4, <1>2 DEF m
<1> QED BY <1>3, <1>4

\* Lemma: one more plan, which keeps what was extracted when it finds nothing.
LEMMA PlanExtracts ==
    ASSUME NEW S, NEW ps \in Seq(S), NEW e, FoundLast(ps, e), NEW found \in S
    PROVE  FoundLast(Append(ps, found), IF found = Nothing THEN e ELSE found)
<1> DEFINE qs == Append(ps, found)
           new == IF found = Nothing THEN e ELSE found
<1>1. /\ Len(qs) = Len(ps) + 1 /\ qs[Len(ps) + 1] = found
      /\ \A i \in 1..Len(ps) : qs[i] = ps[i]
      /\ Len(ps) \in Nat
  BY AppendProperties, LenProperties
<1> HIDE DEF qs
<1>2. CASE found # Nothing
  <2>1. Len(ps) + 1 \in 1..Len(qs)
    BY <1>1
  <2>2. \A j \in 1..Len(qs) : ~(Len(ps) + 1 < j)
    BY <1>1
  <2>3. FoundLast(qs, found)
    BY <1>1, <1>2, <2>1, <2>2 DEF FoundLast
  <2> QED BY <2>3, <1>2 DEF qs
<1>3. CASE found = Nothing
  <2>1. \A j \in 1..Len(qs) : j \notin 1..Len(ps) => qs[j] = Nothing
    BY <1>1, <1>3
  <2>2. CASE e = Nothing /\ \A i \in 1..Len(ps) : ps[i] = Nothing
    <3>1. \A i \in 1..Len(qs) : qs[i] = Nothing
      BY <1>1, <2>1, <2>2
    <3> QED BY <3>1, <2>2, <1>3 DEF FoundLast, qs
  <2>3. ASSUME NEW i \in 1..Len(ps), ps[i] # Nothing, e = ps[i],
               \A j \in 1..Len(ps) : i < j => ps[j] = Nothing
        PROVE  FoundLast(qs, e)
    <3>1. i \in 1..Len(qs) /\ qs[i] # Nothing /\ e = qs[i]
      BY <1>1, <2>3
    <3>2. \A j \in 1..Len(qs) : i < j => qs[j] = Nothing
      BY <1>1, <2>1, <2>3
    <3> QED BY <3>1, <3>2 DEF FoundLast
  <2> QED BY <2>2, <2>3, <1>3 DEF FoundLast, qs
<1> QED BY <1>2, <1>3

\* Lemma: a run starts with a report to make.
LEMMA AgentInitial == AgentInit => AgentInv
<1> SUFFICES ASSUME AgentInit PROVE AgentInv
  OBVIOUS
<1>1. ExtractedInv
  BY DEF AgentInit, ExtractedInv, FoundLast
<1>2. GuardInv /\ ReportIsTrue
  BY DEF AgentInit, GuardInv, ReportIsTrue, AgentTypes
<1>3. plans \in Seq(Findings \cup {Nothing}) /\ round \in Nat
  BY DEF AgentInit
<1> QED BY <1>1, <1>2, <1>3 DEF AgentInit, AgentInv, AgentTypes

\* Lemma: and so does every later one, and any other call of the page.
LEMMA AgentBegins ==
    ASSUME AgentInv, (\E s \in {"browser", "page"} : BeginAgent(s)) \/ ForgetAgent
    PROVE  AgentInv'
<1>1. plans' = <<>> /\ extracted' = Nothing /\ report' = NoReport /\ round' = 0
      /\ persistent' = FALSE /\ drifted' = FALSE /\ events' = <<>>
      /\ stage' \in {"idle", "guard", "round"} /\ UNCHANGED <<guarded, preload>>
  BY DEF BeginAgent, ForgetAgent
<1>2. ExtractedInv'
  BY <1>1 DEF ExtractedInv, FoundLast
<1>3. GuardInv' /\ ReportIsTrue'
  BY <1>1 DEF GuardInv, ReportIsTrue
<1>4. plans' \in Seq(Findings \cup {Nothing}) /\ round' \in Nat
  BY <1>1
<1>5. AgentTypes'
  BY <1>1 DEF AgentInv, AgentTypes
<1> QED BY <1>1, <1>2, <1>3, <1>4, <1>5 DEF AgentInv

\* Lemma: as long as a run has not ended, what it extracted needs no report.
LEMMA AgentGoesOn ==
    ASSUME AgentInv, stage # "idle", stage' # "idle",
           UNCHANGED <<report, events, extracted, plans>>,
           round' \in Nat, AgentTypes', GuardInv'
    PROVE  AgentInv'
<1>1. ExtractedInv'
  BY DEF AgentInv, ExtractedInv
<1>2. ReportIsTrue'
  BY DEF AgentInv, ReportIsTrue, NoReport
<1> QED BY <1>1, <1>2 DEF AgentInv, NoReport

\* Lemma: a run that is given up says so, and why.
LEMMA AgentGivesUp ==
    ASSUME AgentInv, stage # "idle", GiveUp, why' = "blind" \/ round' = MaxRounds,
           UNCHANGED <<persistent, round, extracted, documentVars, plans>>
    PROVE  AgentInv'
<1>1. ExtractedInv'
  BY DEF AgentInv, ExtractedInv
<1>2. stage' = "idle" /\ events' = <<"agent.error">> /\ ~report'.done
      /\ report'.extracted = extracted /\ report'.rounds = MaxRounds
  BY DEF GiveUp, AgentInv
<1>3. extracted' = IF LastFound' = 0 THEN Nothing ELSE plans'[LastFound']
  BY <1>1, FoundLastIsSelected DEF AgentInv, ExtractedInv, LastFound, SelectLastInSeq
<1>4. Len(events') = 1 /\ events'[1] # "agent.done"
  BY <1>2
<1>5. ReportIsTrue'
  BY <1>2, <1>3, <1>4 DEF ReportIsTrue
<1>6. GuardInv'
  BY <1>2 DEF GuardInv, AgentInv, documentVars
<1>7. AgentTypes'
  BY DEF AgentInv, AgentTypes, documentVars
<1> QED BY <1>1, <1>2, <1>5, <1>6, <1>7 DEF AgentInv

\* Lemma: every step of a run keeps the agent's invariant.
LEMMA AgentSteps ==
    ASSUME AgentAssumption, AgentInv, AgentStep
    PROVE  AgentInv'
<1>0. AgentTypes /\ round \in Nat /\ GuardInv
  BY DEF AgentInv, AgentTypes
<1>1. ASSUME NEW ok \in BOOLEAN, Guard(ok) PROVE AgentInv'
  BY <1>0, <1>1, AgentGoesOn DEF Guard, Evaluated, GuardInv, AgentTypes
<1>2. ASSUME NEW ok \in BOOLEAN, Install(ok) PROVE AgentInv'
  BY <1>0, <1>2, AgentGoesOn DEF Install, GuardInv, AgentTypes
<1>3. ASSUME NEW ok \in BOOLEAN, BeginRound(ok) PROVE AgentInv'
  <2>1. CASE round = MaxRounds
    BY <1>0, <1>3, <2>1, AgentGivesUp DEF BeginRound, documentVars
  <2>2. CASE round # MaxRounds
    <3>1. stage = "round" /\ stage' = "look" /\ round' \in Nat
          /\ UNCHANGED <<report, events, extracted, plans, scope, persistent, preload>>
      BY <1>0, <1>3, <2>2 DEF BeginRound
    <3>2. AgentTypes'
      BY <1>0, <1>3, <2>2 DEF BeginRound, Evaluated, AgentTypes
    <3>3. GuardInv'
      BY <1>0, <1>3, <2>2 DEF BeginRound, Evaluated, GuardAgain, AgentTypes, GuardInv
    <3> QED BY <1>0, <3>1, <3>2, <3>3, AgentGoesOn DEF AgentTypes
  <2> QED BY <2>1, <2>2
<1>4. ASSUME NEW ok \in BOOLEAN, Look(ok) PROVE AgentInv'
  <2>1. CASE ok
    BY <1>0, <1>4, <2>1, AgentGoesOn DEF Look, documentVars, GuardInv, AgentTypes
  <2>2. CASE ~ok
    BY <1>0, <1>4, <2>2, AgentGivesUp DEF Look
  <2> QED BY <2>1, <2>2
<1>5. ASSUME AskFails PROVE AgentInv'
  BY <1>0, <1>5, AgentGoesOn DEF AskFails, documentVars, GuardInv, AgentTypes
<1>6. ASSUME NEW found \in Findings \cup {Nothing}, NEW finished \in BOOLEAN,
             NEW k \in 0..MaxSteps, Plan(found, finished, k)
      PROVE  AgentInv'
  <2> USE DEF documentVars
  <2>1. plans \in Seq(Findings \cup {Nothing}) /\ plans' = Append(plans, found)
        /\ KeepEarlier(found) /\ ExtractedInv
    BY <1>6 DEF Plan, AgentInv
  <2>2. ExtractedInv' /\ plans' \in Seq(Findings \cup {Nothing})
    BY <2>1, PlanExtracts, AppendProperties DEF ExtractedInv, KeepEarlier
  <2>3. extracted' = IF LastFound' = 0 THEN Nothing ELSE plans'[LastFound']
    BY <2>2, FoundLastIsSelected DEF ExtractedInv, LastFound, SelectLastInSeq
  <2>4. GuardInv'
    BY <1>0, <1>6 DEF Plan, GuardInv, AgentTypes
  <2>5. stage = "ask" /\ UNCHANGED <<persistent, guarded, preload, drifted, round>>
    BY <1>6 DEF Plan
  <2>8. AgentTypes' /\ round' \in Nat
    BY <1>0, <2>5 DEF AgentTypes
  <2>6. CASE finished
    <3>1. /\ stage' = "idle" /\ events' = <<"agent.done">> /\ why' = "done"
          /\ report'.done /\ report'.rounds = round' /\ report'.extracted = extracted'
      BY <1>6, <2>5, <2>6 DEF Plan, AgentInv
    <3>2. Len(events') = 1 /\ events'[1] = "agent.done"
      BY <3>1
    <3>3. ReportIsTrue'
      BY <3>1, <3>2, <2>3 DEF ReportIsTrue
    <3> QED BY <3>1, <3>3, <2>2, <2>4, <2>8 DEF AgentInv
  <2>7. CASE ~finished
    <3>1. stage' # "idle" /\ report' = NoReport /\ events' = <<>>
      BY <1>6, <2>5, <2>7 DEF Plan, AgentInv
    <3>2. ReportIsTrue'
      BY <3>1 DEF ReportIsTrue
    <3> QED BY <3>1, <3>2, <2>2, <2>4, <2>8 DEF AgentInv
  <2> QED BY <2>6, <2>7
<1>7. ASSUME Acted PROVE AgentInv'
  BY <1>0, <1>7, AgentGoesOn DEF Acted, documentVars, GuardInv, AgentTypes
<1> QED BY <1>1, <1>2, <1>3, <1>4, <1>5, <1>6, <1>7 DEF AgentStep

\* Lemma: so does the beginning of a step of a plan,
LEMMA AgentActs ==
    ASSUME AgentInv, NEW o, Act(o)
    PROVE  AgentInv'
BY AgentGoesOn DEF Act, documentVars, GuardInv, AgentInv, AgentTypes

\* Lemma: and a document that the page loads meanwhile.
LEMMA AgentIsLeft ==
    ASSUME AgentInv, PageLeaves
    PROVE  AgentInv'
<1>1. AgentTypes /\ round \in Nat /\ GuardInv
  BY DEF AgentInv, AgentTypes
<1>2. GuardInv'
  BY <1>1 DEF PageLeaves, GuardInv, AgentTypes
<1>3. AgentTypes'
  BY <1>1 DEF PageLeaves, AgentTypes
<1> QED BY <1>1, <1>2, <1>3, AgentGoesOn DEF PageLeaves, AgentTypes

\* Lemma: the state of the agent is all the invariant looks at.
LEMMA AgentUnchanged ==
    ASSUME AgentInv, UNCHANGED agentVars
    PROVE  AgentInv'
BY DEF agentVars, documentVars, AgentInv, GuardInv, ExtractedInv, AgentTypes, ReportIsTrue,
       LastFound, SelectLastInSeq

-----------------------------------------------------------------------------
\* Theorem (invariant): content, input and agent keep their parts of it, and
\* leave those of the others alone.
THEOREM PageInvariant == Spec => []PageInv
<1> USE PageAssumption, InputAssumption, AgentAssumption
<1>1. Init => PageInv
  BY ContentInitial, InputInitial, AgentInitial DEF Init, PageInv
<1>2. PageInv /\ [Next]_pageVars => PageInv'
  <2> SUFFICES ASSUME PageInv, [Next]_pageVars PROVE PageInv'
    OBVIOUS
  <2>1. ContentInv /\ InputInv /\ AgentInv
    BY DEF PageInv
  <2>2. CASE Begin
    <3>1. ASSUME NEW o \in ContentOps \cup WaitOps, BeginContent(o), ForgetAgent,
                 UNCHANGED inputVars
          PROVE  PageInv'
      BY <2>1, <3>1, ContentBegins, AgentBegins, InputUnchanged DEF PageInv
    <3>2. ASSUME NEW o \in InputOps, BeginInput(o), ForgetContent, ForgetAgent
          PROVE  PageInv'
      BY <2>1, <3>2, InputBegins, ContentForgotten, AgentBegins DEF PageInv
    <3>3. ASSUME NEW s \in {"browser", "page"}, BeginAgent(s), ForgetContent,
                 UNCHANGED inputVars
          PROVE  PageInv'
      BY <2>1, <3>3, AgentBegins, ContentForgotten, InputUnchanged DEF PageInv
    <3> QED BY <2>2, <3>1, <3>2, <3>3 DEF Begin
  <2>3. CASE Step
    <3>1. CASE ContentStep /\ UNCHANGED <<inputVars, agentVars>>
      BY <2>1, <3>1, ContentSteps, InputUnchanged, AgentUnchanged DEF PageInv
    <3>2. CASE InputStep /\ UNCHANGED <<contentVars, agentVars>>
      BY <2>1, <3>2, InputSucceeds, InputFails, ContentUnchanged, AgentUnchanged
         DEF PageInv, InputStep
    <3>3. CASE AgentStep /\ UNCHANGED contentVars
      <4>1. UNCHANGED inputVars
        BY <3>3 DEF AgentStep, Acted
      <4> QED BY <2>1, <3>3, <4>1, AgentSteps, ContentUnchanged, InputUnchanged DEF PageInv
    <3>4. ASSUME NEW o \in InputOps, Act(o), UNCHANGED contentVars PROVE PageInv'
      <4>1. BeginInput(o)
        BY <3>4 DEF Act
      <4> QED BY <2>1, <3>4, <4>1, AgentActs, InputBegins, ContentUnchanged DEF PageInv
    <3> QED BY <2>3, <3>1, <3>2, <3>3, <3>4 DEF Step
  <2>4. CASE Clock
    BY <2>1, <2>4, ContentTimes, InputUnchanged, AgentUnchanged DEF Clock, PageInv
  <2>5. CASE Leave
    <3>1. PageLeaves /\ UNCHANGED contentVars /\ UNCHANGED inputVars
      BY <2>5 DEF Leave, PageLeaves
    <3> QED BY <2>1, <3>1, AgentIsLeft, ContentUnchanged, InputUnchanged DEF PageInv
  <2>6. CASE UNCHANGED pageVars
    <3>1. UNCHANGED contentVars /\ UNCHANGED inputVars /\ UNCHANGED agentVars
      BY <2>6 DEF pageVars
    <3> QED BY <2>1, <3>1, ContentUnchanged, InputUnchanged, AgentUnchanged DEF PageInv
  <2> QED BY <2>2, <2>3, <2>4, <2>5, <2>6 DEF Next
<1> QED BY <1>1, <1>2, PTL DEF Spec

\* Theorem: what content() and its kin return as content was classified last as
\* neither a challenge nor a rate limit (unless the deadline of
\* content_with_early_return() had passed), or is a longer document that the
\* growth phase read later, which nobody classifies, in place of a short one.
THEOREM GoodOrGrown == Spec => []OnlyGrowthIsUnclassified
<1>1. PageInv => OnlyGrowthIsUnclassified
  BY DEF PageInv, ContentInv
<1> QED BY <1>1, PageInvariant, PTL

\* Theorem: less than the caller asked for is returned only when the time for
\* the document to grow is over, and then the longest that was read.
THEOREM LongestReturned == Spec => []ShortIsLast
<1>1. PageInv => ShortIsLast
  BY DEF PageInv, ContentInv
<1> QED BY <1>1, PageInvariant, PTL

\* Theorem: whatever commands fail, wholly or in part, and over either protocol, a
\* button or key is down between two calls only since a call broke off that had
\* still to press or release it, or since key_down(); the next call that completes
\* with it releases it.
THEOREM GesturesRelease == Spec => []NothingStaysPressed
<1>1. PageInv => NothingStaysPressed
  BY DEF PageInv, InputInv
<1> QED BY <1>1, PageInvariant, PTL

\* Theorem: an agent of one page never asks for a plan on a document that lacks
\* the guardrail, unless evaluating it failed or the page left meanwhile.
THEOREM GuardedPlans == Spec => []PlansAreGuarded
<1>1. PageInv => PlansAreGuarded
  BY DEF PageInv, AgentInv, GuardInv, PlansAreGuarded, AgentTypes
<1> QED BY <1>1, PageInvariant, PTL

\* Theorem: the one verdict of a run is that of its last round, and its
\* extraction the last that any plan made.
THEOREM TrueReport == Spec => []ReportIsTrue
<1>1. PageInv => ReportIsTrue
  BY DEF PageInv, AgentInv
<1> QED BY <1>1, PageInvariant, PTL

=============================================================================
