------------------------------ MODULE HomeProofs -------------------------------
(***************************************************************************)
(* Machine-checked proofs about HomeApp, for any number of attempts to     *)
(* start, visits of the home tab, fetches and articles: no blank screen    *)
(* without an attempt running, no spinner without a fetch, and no news     *)
(* that the cache does not give back.                                      *)
(***************************************************************************)
EXTENDS HomeApp, SequenceTheorems, TLAPS

LEMMA EmptyIffNoLength ==
    ASSUME NEW S, NEW s \in Seq(S) PROVE s = <<>> <=> Len(s) = 0
BY EmptySeq

(* What the cache gives back does not change while its puts reach the file. *)
LEMMA CachedAfterPut ==
    ASSUME NEW puts \in Seq(SUBSET Article), puts # <<>>, NEW file
    PROVE  /\ Cached(Head(puts), Tail(puts)) = Cached(file, puts)
           /\ Len(puts) # 1 => Cached(file, Tail(puts)) = Cached(file, puts)
<1>1. /\ Len(puts) \in Nat \ {0} /\ Head(puts) = puts[1]
      /\ Tail(puts) \in Seq(SUBSET Article)
      /\ Len(Tail(puts)) = Len(puts) - 1
      /\ \A i \in 1 .. Len(puts) - 1 : Tail(puts)[i] = puts[i + 1]
  BY HeadTailProperties, EmptySeq
<1> DEFINE rest == Tail(puts)
<1>0. rest = <<>> <=> Len(rest) = 0
  <2> HIDE DEF rest
  <2>1. rest \in Seq(SUBSET Article)
    BY <1>1 DEF rest
  <2> QED
    BY <2>1, EmptyIffNoLength
<1>2. Cached(file, puts) = puts[Len(puts)]
  BY DEF Cached, Last
<1>3. CASE Len(puts) = 1
  <2>1. Tail(puts) = <<>>
    BY <1>0, <1>1, <1>3
  <2> QED
    BY <2>1, <1>1, <1>2, <1>3 DEF Cached
<1>4. CASE Len(puts) # 1
  <2>1. Tail(puts) # <<>>
    BY <1>0, <1>1, <1>4
  <2>2. Len(puts) - 1 \in 1 .. Len(puts) - 1
    BY <1>1, <1>4
  <2>3. Tail(puts)[Len(puts) - 1] = puts[Len(puts)]
    BY <1>1, <2>2
  <2> QED
    BY <1>1, <1>2, <2>1, <2>3 DEF Cached, Last
<1> QED
  BY <1>3, <1>4

-----------------------------------------------------------------------------
(* Start-up. *)

LEMMA BootStep ==
    ASSUME BootTypeOK, BlankOnlyWhileTrying,
           BuildRoot \/ Retry \/ AttemptEnds
    PROVE  BootTypeOK' /\ BlankOnlyWhileTrying'
<1> USE MaxAttemptsAssumption DEF BootTypeOK, BlankOnlyWhileTrying
<1>1. CASE BuildRoot
  BY <1>1 DEF BuildRoot, Built
<1>2. CASE Retry
  <2>1. /\ started \in Nat /\ started < MaxAttempts /\ started' = started + 1
        /\ attempts \in 0 .. started /\ attempts' = attempts + 1
    BY <1>2 DEF Retry
  <2>2. started' \in 1 .. MaxAttempts /\ attempts' \in 0 .. started' /\ attempts' > 0
    BY <2>1
  <2> QED
    BY <1>2, <2>2 DEF Retry
<1>3. CASE AttemptSucceeds
  BY <1>3 DEF AttemptSucceeds
<1>4. CASE AttemptFails
  BY <1>4 DEF AttemptFails
<1> QED
  BY <1>1, <1>2, <1>3, <1>4 DEF AttemptEnds

-----------------------------------------------------------------------------
(* The home page and its news. *)
NewsInv == NewsTypeOK /\ SpinnerHasAReason /\ NewsAreCached

LEMMA PutStep ==
    ASSUME NewsInv, PutDone \/ PutFails PROVE NewsInv'
<1>1. /\ putting \in Seq(SUBSET Article) /\ putting # <<>>
      /\ putting' = Tail(putting)
      /\ Head(putting) \in SUBSET Article /\ Tail(putting) \in Seq(SUBSET Article)
  BY HeadTailProperties DEF NewsInv, NewsTypeOK, PutDone, PutFails
<1>2. CASE PutDone
  <2>1. Cached(disk', putting') = Cached(disk, putting)
    BY <1>1, <1>2, CachedAfterPut DEF PutDone
  <2> QED
    BY <1>1, <1>2, <2>1
       DEF NewsInv, NewsTypeOK, SpinnerHasAReason, NewsAreCached, PutDone, pageVars
<1>3. CASE PutFails
  <2>1. ~unsaved' => Cached(disk', putting') = Cached(disk, putting) /\ ~unsaved
    BY <1>1, <1>3, CachedAfterPut DEF PutFails
  <2> QED
    BY <1>1, <1>3, <2>1
       DEF NewsInv, NewsTypeOK, SpinnerHasAReason, NewsAreCached, PutFails, pageVars
<1> QED
  BY <1>2, <1>3

LEMMA OpenStep ==
    ASSUME NewsInv, OpenHome PROVE NewsInv'
<1>1. fetches \in Nat /\ inFlight \subseteq 1 .. fetches
  BY NewsAssumption DEF NewsInv, NewsTypeOK
<1>2. fetches' = fetches + 1 /\ inFlight' = inFlight \union {fetches + 1}
  BY DEF OpenHome
<1>3. inFlight' # 1 .. fetches' => fetches # 0 /\ inFlight # 1 .. fetches
  <2>1. inFlight = 1 .. fetches => inFlight' = 1 .. fetches'
    BY <1>1, <1>2
  <2>2. fetches = 0 => inFlight = 1 .. fetches
    BY <1>1
  <2> QED
    BY <2>1, <2>2
<1>4. NewsTypeOK'
  BY <1>1, <1>2, NewsAssumption DEF NewsInv, NewsTypeOK, OpenHome, cacheVars
<1>5. NewsAreCached'
  BY <1>1, <1>2, <1>3 DEF NewsInv, NewsAreCached, OpenHome, cacheVars
<1>6. SpinnerHasAReason'
  BY <1>2 DEF SpinnerHasAReason
<1> QED
  BY <1>4, <1>5, <1>6 DEF NewsInv

LEMMA AnswerStep ==
    ASSUME NewsInv, NEW f \in inFlight, NEW list \in SUBSET Article, Answer(f, list)
    PROVE  NewsInv'
<1>1. /\ putting \in Seq(SUBSET Article) /\ disk \subseteq Article
      /\ putting' = Append(putting, list) /\ news' = Cached(disk, putting')
      /\ disk' = disk
  BY DEF NewsInv, NewsTypeOK, Answer
<1>2. /\ putting' \in Seq(SUBSET Article) /\ putting' # <<>>
      /\ Cached(disk, putting') = list
  BY <1>1, AppendProperties DEF Cached, Last
<1> QED
  BY <1>1, <1>2
     DEF NewsInv, NewsTypeOK, SpinnerHasAReason, NewsAreCached, Answer, pageVars

(* The page alone. *)
LEMMA PageStep ==
    ASSUME NewsInv, CloseHome \/ BuildHome \/ \E q \in SUBSET Article : OnSearch(q)
    PROVE  NewsInv'
<1> USE DEF NewsInv, NewsTypeOK, SpinnerHasAReason, NewsAreCached, cacheVars
<1>1. CASE CloseHome
  BY <1>1 DEF CloseHome
<1>2. CASE BuildHome
  BY <1>2 DEF BuildHome
<1>3. CASE \E q \in SUBSET Article : OnSearch(q)
  <2>1. PICK q \in SUBSET Article : OnSearch(q)
    BY <1>3
  <2> QED
    BY <2>1 DEF OnSearch
<1> QED
  BY <1>1, <1>2, <1>3

-----------------------------------------------------------------------------
(* The invariant of the whole: what it says of start-up and what it says   *)
(* of the news are inductive each by itself; that the page is only there   *)
(* with the app needs both.                                                *)
HomeInv == HomeTypeOK /\ BlankOnlyWhileTrying /\ NewsInv

LEMMA HomeInvInit == HomeInit => HomeInv
<1> SUFFICES ASSUME HomeInit PROVE HomeInv
  OBVIOUS
<1>1. BootTypeOK /\ BlankOnlyWhileTrying
  <2>1. 1 \in 1 .. MaxAttempts /\ 1 \in 0 .. 1 /\ 1 > 0
    BY MaxAttemptsAssumption
  <2> QED
    BY <2>1 DEF HomeInit, BootInit, BootTypeOK, BlankOnlyWhileTrying
<1>2. NewsInv
  <2>1. 0 \in 0 .. MaxFetches /\ <<>> \in Seq(SUBSET Article)
    BY NewsAssumption
  <2> QED
    BY <2>1
       DEF HomeInit, NewsInit, NewsInv, NewsTypeOK, SpinnerHasAReason, NewsAreCached
<1>3. HomeTypeOK
  BY <1>1, <1>2, MaxVisitsAssumption DEF HomeInit, NewsInit, HomeTypeOK, NewsInv
<1> QED
  BY <1>1, <1>2, <1>3 DEF HomeInv

LEMMA HomeInvStep ==
    ASSUME HomeInv, [HomeNext]_homeVars PROVE HomeInv'
<1>1. /\ BootTypeOK /\ NewsTypeOK /\ visits \in 0 .. MaxVisits
      /\ open => screen = "app"
      /\ BlankOnlyWhileTrying /\ NewsInv
  BY DEF HomeInv, HomeTypeOK
<1> USE DEF HomeInv, HomeTypeOK
<1>2. CASE Launch
  <2>1. BootTypeOK' /\ BlankOnlyWhileTrying' /\ NewsInv'
    BY <1>1, <1>2, BootStep, OpenStep DEF Launch
  <2> QED
    BY <1>1, <1>2, <2>1 DEF Launch, NewsInv
<1>3. CASE ShowRoot
  <2>1. BootTypeOK' /\ BlankOnlyWhileTrying'
    BY <1>1, <1>3, BootStep DEF ShowRoot
  <2>2. NewsInv' /\ ~open'
    <3>1. CASE open
      <4>1. CloseHome
        BY <1>3, <3>1 DEF ShowRoot
      <4>2. NewsInv'
        BY <4>1, <1>1, PageStep
      <4> QED
        BY <4>1, <4>2 DEF CloseHome
    <3>2. CASE ~open
      <4>1. UNCHANGED newsVars
        BY <1>3, <3>2 DEF ShowRoot
      <4> QED
        BY <4>1, <1>1, <3>2
           DEF newsVars, cacheVars, pageVars, NewsInv, NewsTypeOK, SpinnerHasAReason,
               NewsAreCached
    <3> QED
      BY <3>1, <3>2
  <2> QED
    BY <1>1, <1>3, <2>1, <2>2 DEF ShowRoot, NewsInv
<1>4. CASE Initialising
  <2>1. BootTypeOK' /\ BlankOnlyWhileTrying' /\ screen' = screen
    BY <1>1, <1>4, BootStep
       DEF Initialising, Retry, AttemptEnds, AttemptSucceeds, AttemptFails
  <2> QED
    BY <1>1, <1>4, <2>1
       DEF Initialising, newsVars, cacheVars, pageVars, NewsInv, NewsTypeOK,
           SpinnerHasAReason, NewsAreCached
<1>5. CASE LeaveHome
  <2>1. NewsInv' /\ ~open'
    BY <1>1, <1>5, PageStep DEF LeaveHome, CloseHome
  <2> QED
    BY <1>1, <1>5, <2>1
       DEF LeaveHome, bootVars, BootTypeOK, BlankOnlyWhileTrying, NewsInv
<1>6. CASE ReturnHome
  <2>1. NewsInv'
    BY <1>1, <1>6, OpenStep DEF ReturnHome
  <2> QED
    BY <1>1, <1>6, <2>1, MaxVisitsAssumption
       DEF ReturnHome, bootVars, BootTypeOK, BlankOnlyWhileTrying, NewsInv
<1>7. CASE Answers \/ Searches \/ Frame \/ CacheWrites
  <2>1. NewsInv' /\ open' = open
    BY <1>1, <1>7, AnswerStep, PageStep, PutStep
       DEF Answers, Searches, Frame, CacheWrites, Answer, OnSearch, BuildHome, PutDone,
           PutFails, pageVars
  <2>2. UNCHANGED <<bootVars, visits>>
    BY <1>7 DEF Answers, Searches, Frame, CacheWrites
  <2> QED
    BY <1>1, <2>1, <2>2 DEF bootVars, BootTypeOK, BlankOnlyWhileTrying, NewsInv
<1>8. CASE UNCHANGED homeVars
  BY <1>1, <1>8
     DEF homeVars, bootVars, newsVars, cacheVars, pageVars, BootTypeOK,
         BlankOnlyWhileTrying, NewsInv, NewsTypeOK, SpinnerHasAReason, NewsAreCached
<1> QED
  BY <1>2, <1>3, <1>4, <1>5, <1>6, <1>7, <1>8 DEF HomeNext

(* Every reachable state satisfies the invariant. *)
THEOREM HomeInvariant == HomeSpec => []HomeInv
<1>1. HomeInv /\ [HomeNext]_homeVars => HomeInv'
  BY HomeInvStep
<1> QED
  BY <1>1, HomeInvInit, PTL DEF HomeSpec

(* Start-up and the home page are well typed, and the page is in the tree  *)
(* only while main.dart shows the app.                                     *)
THEOREM HomeTypeCorrect == HomeSpec => []HomeTypeOK
<1>1. HomeInv => HomeTypeOK
  BY DEF HomeInv
<1> QED
  BY <1>1, HomeInvariant, PTL

(* However many attempts of initialize() overlap, the screen of main.dart  *)
(* is blank for good only if Firebase never answers.                       *)
THEOREM NeverStuckBlank == HomeSpec => []BlankOnlyWhileTrying
<1>1. HomeInv => BlankOnlyWhileTrying
  BY DEF HomeInv
<1> QED
  BY <1>1, HomeInvariant, PTL

(* NewsState is busy only while the newest getNews is unanswered.          *)
THEOREM SpinnerAlwaysHasAReason == HomeSpec => []SpinnerHasAReason
<1>1. HomeInv => SpinnerHasAReason
  BY DEF HomeInv, NewsInv
<1> QED
  BY <1>1, HomeInvariant, PTL

(* The news shown are those the cache gives back, in whatever order        *)
(* overlapping fetches were answered and puts reach the file.              *)
THEOREM NewsAlwaysCached == HomeSpec => []NewsAreCached
<1>1. HomeInv => NewsAreCached
  BY DEF HomeInv, NewsInv
<1> QED
  BY <1>1, HomeInvariant, PTL
=============================================================================
