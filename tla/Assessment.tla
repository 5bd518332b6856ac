------------------------------ MODULE Assessment ------------------------------
(***************************************************************************)
(* From pages to a verdict: each page is extracted, its sentences ranked   *)
(* and, if a ranking model is configured, reordered (refineOrder() of      *)
(* packages/core/src/service.ts); the stances of all pages make the        *)
(* verdict (packages/core/src/assessment.ts).                              *)
(***************************************************************************)
EXTENDS PassageRanking

CONSTANTS
    Questions,         \* sets of words
    MaxEvidenceItems,  \* limits.maxEvidenceItems
    PoolSize,          \* how many candidates the ranking model is shown
    MaxSources,        \* bound of the model on the pages of a request
    Ranked,            \* the pages at which a ranking model is configured and
                       \* the request's budget for it is not spent
    Shapes             \* bound of the model: Shapes[n], of the n-th page

ASSUME AssessmentAssumption ==
    /\ Questions \subseteq SUBSET Token
    /\ {MaxEvidenceItems, PoolSize, MaxSources} \subseteq Nat \ {0}
    /\ Ranked \subseteq 1..MaxSources /\ PoolSize >= MaxEvidenceItems
    /\ Shapes \in [1..MaxSources -> SUBSET Shape]

VARIABLES
    question,    \* the words of the question
    multiPart,   \* it has two or more wh-words; looked at when it is assessed
    page,        \* the page that was read last
    candidates,  \* its candidates
    stances,     \* the stance of each page so far
    verdict,
    denial       \* history: a page that was read has a sentence that answers
                 \* the question and carries a negation cue

vars == <<question, multiPart, page, candidates, stances, verdict, denial>>

NoPage == [parent |-> <<>>, tag |-> <<>>, text |-> <<>>]

Init ==
    /\ question \in Questions /\ multiPart = FALSE
    /\ page = NoPage /\ candidates = <<>> /\ stances = <<>>
    /\ verdict = "none" /\ denial = FALSE

HasStance(candidate) == candidate.relevance \in {"direct", "supporting", "contradictory"}

(* classify(): the strongest candidate that has a say decides.             *)
StanceOf(candidate) ==
    IF candidate.relevance = "contradictory" THEN "contradicts" ELSE "supports"

Stance(list) ==
    LET relevant == {k \in DOMAIN list : HasStance(list[k])}
    IN  IF relevant = {} THEN "none" ELSE StanceOf(list[Min(relevant)])

(* refineOrder() with the model's answer: highest rank first, and what it  *)
(* finds on topic is direct, unless it led already or contradicts.         *)
Refined(list, rank) ==
    LET before(i, j) == rank[i] > rank[j] \/ (rank[i] = rank[j] /\ i < j)
        order == Ordered(DOMAIN list, {p \in (DOMAIN list) \X (DOMAIN list) : before(p[1], p[2])})
    IN  [k \in 1..Min({MaxEvidenceItems, Len(order)}) |->
          IF order[k] = 1 \/ rank[order[k]] < 1 \/ list[order[k]].relevance = "contradictory"
          THEN list[order[k]]
          ELSE [list[order[k]] EXCEPT !.relevance = "direct"]]

(* What the model may answer: a list, of which a rank is below one half,   *)
(* at or above it, or out of bounds: 0, 1 or 2.                            *)
Answers(list) == UNION {[1..n -> 0..2] : n \in 0..Len(list) + 1}

(* scorePassages(): only a rank within bounds for every passage will do.   *)
ScorePassages(list, answer) == Len(answer) = Len(list) /\ \A i \in DOMAIN answer : answer[i] <= 1

(* How many candidates of the n-th page are looked for.                    *)
Shown(n) == IF n \in Ranked THEN PoolSize ELSE MaxEvidenceItems

(* A sentence that covers three quarters of the question's weight.         *)
Answering(scan, weight) == scan.matched # {} /\ Covers(scan, question, weight)

DeniedIn(scans, weight) ==
    \E i \in DOMAIN scans : scans[i].negated /\ Answering(scans[i], weight)

Denied(scans) == DeniedIn(scans, Weights(scans, Terms(question)))

(* What is left of the candidates found.  Without a model, or when it is   *)
(* not to be had or its answer will not do, the lexical order stands.      *)
Shortlist(found) ==
    \/ candidates' = found
    \/ /\ Len(stances) + 1 \in Ranked /\ Len(found) > 1
       /\ \E answer \in Answers(found) :
            candidates' = IF ScorePassages(found, answer) THEN Refined(found, answer) ELSE found

(* One page is read and ranked.                                            *)
Read ==
    /\ page = NoPage /\ Len(stances) < MaxSources /\ verdict = "none"
    /\ page' \in Pages(Shapes[Len(stances) + 1])
    /\ \E scans \in {Scans(page', question)} :
         /\ denial' = (denial \/ Denied(scans))
         /\ Shortlist(Weighed(scans, question, Shown(Len(stances) + 1)))
    /\ stances' = Append(stances, Stance(candidates'))
    /\ UNCHANGED <<question, multiPart, verdict>>

NextPage ==
    /\ page # NoPage
    /\ page' = NoPage /\ candidates' = <<>>
    /\ UNCHANGED <<question, multiPart, stances, verdict, denial>>

Taken(stance) == Cardinality({i \in DOMAIN stances : stances[i] = stance})

(* assess()                                                                *)
Assessed ==
    CASE Taken("supports") = 0 /\ Taken("contradicts") = 0 -> "inconclusive"
      [] Taken("supports") > 0 /\ Taken("contradicts") = 0 -> "supported"
      [] Taken("supports") = 0 /\ Taken("contradicts") > 0 -> "contradicted"
      [] OTHER -> "mixed"

(* abstainOnMultiPartQuestion(): not on the word of a single source.       *)
Abstained == multiPart' /\ Taken("supports") + Taken("contradicts") = 1

Assess ==
    /\ page = NoPage /\ verdict = "none"
    /\ multiPart' \in BOOLEAN
    /\ verdict' = IF Abstained THEN "inconclusive" ELSE Assessed
    /\ UNCHANGED <<question, page, candidates, stances, denial>>

Next == Read \/ NextPage \/ Assess

Spec == Init /\ [][Next]_vars

-----------------------------------------------------------------------------
Visible == {e \in Kept(page) : page.text[e] # Blank}

(* The text of a page reaches the evidence at most once, none of it from   *)
(* boilerplate, and a page with visible text never comes out empty.        *)
EachPassageOnce ==
    page # NoPage =>
      LET lines == MainText(page) IN
      /\ \A j \in DOMAIN lines : \A m \in DOMAIN lines[j] :
           /\ lines[j][m] \in Visible
           /\ \A k \in DOMAIN lines : \A n \in DOMAIN lines[k] :
                lines[j][m] = lines[k][n] => j = k /\ m = n
      /\ Visible # {} => lines # <<>>

Founded(scans, weight, stance) ==
    LET answering == {i \in DOMAIN scans : Answering(scans[i], weight)}
        leads(i) == \A j \in DOMAIN scans :
                      j # i => Score(scans[j], weight) < Score(scans[i], weight)
    IN  /\ stance # "none" =>
             \E i \in answering : scans[i].negated = (stance = "contradicts")
        /\ \A i \in answering : leads(i) =>
             stance = IF scans[i].negated THEN "contradicts" ELSE "supports"

FoundedIn(scans, stance) == Founded(scans, Weights(scans, Terms(question)), stance)

(* Where the lexical order stands, a page takes a stance only if a sentence *)
(* of it covers three quarters of the question's weight, worded as the     *)
(* stance says; and if the best sentence of the page does, the page has    *)
(* the stance of that sentence.                                            *)
StanceIsFounded ==
    page # NoPage /\ candidates = Candidates(page, question, Shown(Len(stances))) =>
      FoundedIn(Scans(page, question), Last(stances))

(* A page has a say against the claim, and the verdict is contradicted or  *)
(* mixed, only when a sentence that was read covers three quarters of the  *)
(* question's weight and carries a negation cue: "a negated passage that   *)
(* only half-touched the question must not claim to contradict it"         *)
(* (evidence.ts:366), whatever the other pages and the ranking model say.  *)
ContradictionIsFounded ==
    /\ (\E i \in DOMAIN stances : stances[i] = "contradicts") => denial
    /\ verdict \in {"contradicted", "mixed"} => denial

(* What evidence.ts says of its labels: a passage has to carry at least    *)
(* half the question's term weight to earn a stance at all.                *)
StanceCarriesHalf ==
    LET terms == Terms(question)
        weight == Weights(Scans(page, question), terms)
        mass(words) == SumFunction([w \in words |-> WordWeight(w, weight)])
    IN  \A k \in DOMAIN candidates : HasStance(candidates[k]) =>
          LET matched == Scan(page, candidates[k].segment, terms).matched
          IN  2 * mass({w \in Groups(question) : Group(w) \cap matched # {}})
                >= mass(Groups(question))
=============================================================================
