---------------------------- MODULE OrderedReplies -----------------------------
(***************************************************************************)
(* What the Firestore client promises whoever makes writes: each is        *)
(* answered at most once, and in the order in which they were made.  What  *)
(* is still unanswered when the app dies is not answered any more.         *)
(***************************************************************************)
EXTENDS Naturals

CONSTANT MaxWrites

VARIABLE answer    \* what became of each write

Write == 1 .. MaxWrites

RepliesInit == answer = [w \in Write |-> "none"]

Issue(w) ==
    /\ answer[w] = "none"
    /\ \A v \in Write : v < w => answer[v] # "none"
    /\ answer' = [answer EXCEPT ![w] = "pending"]

Reply(w) ==
    /\ answer[w] = "pending"
    /\ \A v \in Write : v < w => answer[v] # "pending"
    /\ \E a \in {"ok", "failed"} : answer' = [answer EXCEPT ![w] = a]

Abandon ==
    answer' = [w \in Write |-> IF answer[w] = "pending" THEN "lost" ELSE answer[w]]

RepliesNext == Abandon \/ \E w \in Write : Issue(w) \/ Reply(w)

RepliesSpec == RepliesInit /\ [][RepliesNext]_answer
=============================================================================
