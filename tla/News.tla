-------------------------------- MODULE News ----------------------------------
(***************************************************************************)
(* The news of the home page: the fetch (newsService.dart), the Hive cache *)
(* (newsHive.dart), NewsState (newsViewModel.dart) and HomePage with its   *)
(* search field (home.dart).                                               *)
(*                                                                         *)
(* Each time HomePage is created it fetches; NewsState outlives the page,  *)
(* so fetches overlap.  The box is open from main() on, so from the answer *)
(* of newsapi.org to the news being assigned there are only microtasks:    *)
(* one action.  A list of articles is a set, an empty one included; what   *)
(* is typed into the search field is the set of articles whose title       *)
(* contains it; an empty field selects them all.                           *)
(***************************************************************************)
EXTENDS Naturals, Sequences, SequencesExt

CONSTANTS
    Article,       \* what newsapi.org can return
    MaxFetches     \* bound on the calls of getNews

ASSUME NewsAssumption == MaxFetches \in Nat

VARIABLES
    disk,        \* the list in the box's file
    putting,     \* puts on their way to the file, which nobody waits for
    unsaved,     \* the put of the news last fetched has failed
    news,        \* NewsState._news
    busy,        \* NewsState.busy
    fetches,     \* the calls of getNews so far
    inFlight,    \* those the server has not answered
    open,        \* HomePage is in the tree
    query,       \* its search field
    filtered     \* its filteredList

cacheVars == <<disk, putting, unsaved>>
pageVars == <<open, query, filtered>>
newsVars == <<cacheVars, news, busy, fetches, inFlight, pageVars>>

NewsTypeOK ==
    /\ disk \subseteq Article
    /\ putting \in Seq(SUBSET Article)
    /\ unsaved \in BOOLEAN
    /\ news \subseteq Article
    /\ busy \in BOOLEAN
    /\ fetches \in 0 .. MaxFetches
    /\ inFlight \subseteq 1 .. fetches
    /\ open \in BOOLEAN
    /\ query \subseteq Article
    /\ filtered \subseteq Article

(* The file is as an earlier run of the app left it. *)
NewsInit ==
    /\ disk \in SUBSET Article
    /\ putting = <<>>
    /\ unsaved = FALSE
    /\ news = {}
    /\ busy = FALSE
    /\ fetches = 0
    /\ inFlight = {}
    /\ open = FALSE
    /\ query = Article
    /\ filtered = {}

-----------------------------------------------------------------------------
(* Hive: a put shows in memory at once; if writing it fails it is undone. *)
Cached(file, puts) == IF puts # <<>> THEN Last(puts) ELSE file

PutDone ==
    /\ putting # <<>>
    /\ disk' = Head(putting)
    /\ putting' = Tail(putting)
    /\ UNCHANGED <<unsaved, news, busy, fetches, inFlight, pageVars>>

PutFails ==
    /\ putting # <<>>
    /\ putting' = Tail(putting)
    /\ unsaved' = (unsaved \/ Len(putting) = 1)
    /\ UNCHANGED <<disk, news, busy, fetches, inFlight, pageVars>>

-----------------------------------------------------------------------------
(* HomePage is created, built and laid out: afterFirstLayout -> getNews. *)
OpenHome ==
    /\ ~open
    /\ fetches < MaxFetches
    /\ open' = TRUE
    /\ query' = Article
    /\ filtered' = news
    /\ busy' = TRUE
    /\ fetches' = fetches + 1
    /\ inFlight' = inFlight \union {fetches + 1}
    /\ UNCHANGED <<cacheVars, news>>

CloseHome ==
    /\ open
    /\ open' = FALSE
    /\ query' = Article
    /\ filtered' = {}
    /\ UNCHANGED <<cacheVars, news, busy, fetches, inFlight>>

(* Seeded fault: an empty list is not news, and getNews returns early. *)
AnswerLeavingEarly(f, list) ==
    /\ f \in inFlight
    /\ inFlight' = inFlight \ {f}
    /\ putting' = Append(putting, list)
    /\ unsaved' = FALSE
    /\ news' = Cached(disk, putting')
    /\ busy' = (busy /\ list = {})
    /\ UNCHANGED <<disk, fetches, pageVars>>

(* Seeded fault: what is read back is what the file holds. *)
AnswerReadingFile(f, list) ==
    /\ f \in inFlight
    /\ inFlight' = inFlight \ {f}
    /\ putting' = Append(putting, list)
    /\ unsaved' = FALSE
    /\ news' = disk
    /\ busy' = FALSE
    /\ UNCHANGED <<disk, fetches, pageVars>>

(* The request ends.  An error or a status other than 200 leaves the list  *)
(* empty, an article that cannot be read leaves it short; it is cached all *)
(* the same, the cache is read back, and busy is cleared for every fetch.  *)
Answer(f, list) ==
    /\ f \in inFlight
    /\ inFlight' = inFlight \ {f}
    /\ putting' = Append(putting, list)
    /\ unsaved' = FALSE
    /\ news' = Cached(disk, putting')
    /\ busy' = FALSE
    /\ UNCHANGED <<disk, fetches, pageVars>>

(* onSearch. *)
OnSearch(q) ==
    /\ open
    /\ query' = q
    /\ filtered' = news \intersect q
    /\ UNCHANGED <<cacheVars, news, busy, fetches, inFlight, open>>

(* build: a list found empty is replaced by all the news. *)
BuildHome ==
    /\ open
    /\ filtered = {}
    /\ news # {}
    /\ filtered' = news
    /\ UNCHANGED <<cacheVars, news, busy, fetches, inFlight, open, query>>

-----------------------------------------------------------------------------
(* The spinner turns only while the fetch started last is unanswered: an   *)
(* older answer may stop it early, but nothing leaves it on.               *)
SpinnerHasAReason == busy => fetches \in inFlight

(* What was fetched last is what the cache gives back, whether or not the  *)
(* put has reached the file, unless writing it failed.                     *)
NewsAreCached == fetches # 0 /\ inFlight # 1 .. fetches /\ ~unsaved
                    => news = Cached(disk, putting)

(* The spinner stops. *)
SpinnerStops == busy ~> ~busy

(* The frame after the last change has been drawn. *)
Drawn == filtered = {} => news = {}

(* README: "Save the response to local storage ... and update the ui": with *)
(* nothing typed the page lists the news fetched last.                      *)
FetchedNewsAreShown == open /\ Drawn /\ ~busy /\ query = Article => filtered = news

=============================================================================
