---------------------------- MODULE PassageRanking ----------------------------
(***************************************************************************)
(* findEvidenceCandidates() of packages/extraction/src/evidence.ts: which  *)
(* sentences of a page answer a question, by the words they share.         *)
(***************************************************************************)
EXTENDS Extraction, FiniteSetsExt

CONSTANTS
    Token,           \* words
    Term,            \* words and what is left of them without an ending
    Stop,            \* terms that are too short or a stopword
    Variants,        \* Variants[w]: the terms of a word, itself first
    Words,           \* Words[t]: the tokens of a passage
    Negated,         \* passages that carry a negation cue
    Idf,             \* Idf[n][d]: weight of a term in d of n sentences, rounded
    AdjacencyBonus

ASSUME RankingAssumption ==
    /\ Variants \in [Token -> Seq(Term)] /\ Words \in [Passage -> Seq(Token)]
    /\ Stop \subseteq Term /\ Negated \subseteq Passage
    /\ AdjacencyBonus \in Nat
    /\ Idf \in [1..Elements -> [0..Elements -> Nat]]
    /\ \A n \in 1..Elements : \A d \in 1..Elements : Idf[n][d] < Idf[n][d - 1]

NoTerm == "no term"

(* deriveQuestionTerms(): the terms each significant word stands for.      *)
Group(w) == {v \in ToSet(Variants[w]) : v \notin Stop}

Groups(question) == {w \in question : Head(Variants[w]) \notin Stop /\ Group(w) # {}}

Terms(question) == UNION {Group(w) : w \in Groups(question)}

(* matchTerm(): the first variant of a word the question has.              *)
Match(w, terms) ==
    LET known == {i \in DOMAIN Variants[w] : Variants[w][i] \in terms}
    IN  IF known = {} THEN NoTerm ELSE Variants[w][Min(known)]

Matches(text, terms) == [i \in 1..Len(Words[text]) |-> Match(Words[text][i], terms)]

Matched(text, terms) == ToSet(Matches(text, terms)) \ {NoTerm}

(* Neighbours that match different terms.                                  *)
Changes(m) ==
    Cardinality({i \in 2..Len(m) : m[i] # NoTerm /\ m[i - 1] # NoTerm /\ m[i] # m[i - 1]})

Adjacency(text, terms) == Changes(Matches(text, terms))

-----------------------------------------------------------------------------
(* buildSegments(): the sentences of the page, each with its paragraph and *)
(* the heading above it.                                                   *)
Reads(page, line) == [i \in 1..Len(line) |-> page.text[line[i]]]

(* A line that reads like a heading is one.                                *)
Titles(page, lines) ==
    LET labels == {Reads(page, h) : h \in ToSet(Headings(page))}
    IN  {k \in DOMAIN lines : Reads(page, lines[k]) \in labels}

SegmentsOf(page, lines, titles) ==
    LET starts == {lines[k][1] : k \in titles}
                  \cup UNION {ToSet(lines[k]) : k \in DOMAIN lines \ titles}
        order == InOrder(starts)
        lineOf(e) == CHOOSE k \in DOMAIN lines : e \in ToSet(lines[k])
        above(k) == {j \in titles : j <= k}
        segment(k, e) ==
          [sentences |-> IF k \in titles THEN lines[k] ELSE <<e>>,
           paragraph |-> IF k \in titles THEN 0 ELSE Cardinality(1..k \ titles),
           heading |-> IF above(k) = {} THEN <<>> ELSE Reads(page, lines[Max(above(k))])]
    IN  [n \in DOMAIN order |-> segment(lineOf(order[n]), order[n])]

Segments(page) ==
    LET lines == MainText(page) IN SegmentsOf(page, lines, Titles(page, lines))

(* Where the last word of one part of a heading and the first of the next  *)
(* part that has any match different terms.                                *)
Joints(page, parts, terms) ==
    LET said(e) == Matches(page.text[e], terms)
        joined(d, e) ==
          /\ d < e /\ said(d) # <<>> /\ said(e) # <<>>
          /\ \A x \in parts : d < x /\ x < e => said(x) = <<>>
          /\ Changes(<<Last(said(d)), Head(said(e))>>) = 1
    IN  {e \in parts : \E d \in parts : joined(d, e)}

(* What a sentence says of each term; a heading may be of several parts.   *)
Scan(page, segment, terms) ==
    [segment |-> segment,
     matched |-> UNION {Matched(page.text[e], terms) : e \in ToSet(segment.sentences)},
     adjacent |-> SumFunction([e \in ToSet(segment.sentences) |->
                                Adjacency(page.text[e], terms)])
                  + Cardinality(Joints(page, ToSet(segment.sentences), terms)),
     negated |-> \E e \in ToSet(segment.sentences) : page.text[e] \in Negated]

ScanAll(page, segments, terms) ==
    [i \in DOMAIN segments |-> Scan(page, segments[i], terms)]

Scans(page, question) == ScanAll(page, Segments(page), Terms(question))

(* All sentences, scanned; weight: the weight of each term in this page.   *)
Weights(scans, terms) ==
    [t \in terms |-> Idf[Len(scans)][Cardinality({i \in DOMAIN scans : t \in scans[i].matched})]]

Score(scan, weight) ==
    SumFunction([t \in scan.matched |-> weight[t]]) + AdjacencyBonus * scan.adjacent

(* A word weighs as much as its heaviest variant, and is covered when any  *)
(* of them is matched.                                                     *)
WordWeight(w, weight) == Max({weight[v] : v \in Group(w)})

Covers(scan, question, weight) ==
    LET words == Groups(question)
        hit == {w \in words : Group(w) \cap scan.matched # {}}
    IN  4 * SumFunction([w \in hit |-> WordWeight(w, weight)])
          >= 3 * SumFunction([w \in words |-> WordWeight(w, weight)])

RelevanceOfHalf(scan, question, weight, best) ==
    IF scan.negated THEN "contradictory"
    ELSE IF 4 * Score(scan, weight) >= 3 * best THEN "direct"
    ELSE IF 20 * Score(scan, weight) >= 7 * best THEN "supporting" ELSE "context"

RelevanceByCueFirst(scan, question, weight, best) ==
    IF scan.negated THEN "contradictory"
    ELSE IF ~Covers(scan, question, weight) THEN "context"
    ELSE IF 4 * Score(scan, weight) >= 3 * best THEN "direct"
    ELSE IF 20 * Score(scan, weight) >= 7 * best THEN "supporting" ELSE "context"

(* Only a sentence that covers three quarters of the question's weight has *)
(* a say.                                                                  *)
Relevance(scan, question, weight, best) ==
    IF ~Covers(scan, question, weight) THEN "context"
    ELSE IF scan.negated THEN "contradictory"
    ELSE IF 4 * Score(scan, weight) >= 3 * best THEN "direct"
    ELSE IF 20 * Score(scan, weight) >= 7 * best THEN "supporting" ELSE "context"

(* The sentences with a match, best first and in document order among      *)
(* equals.                                                                 *)
Ranking(scans, weight) ==
    LET score == [i \in DOMAIN scans |-> Score(scans[i], weight)]
        matching == {i \in DOMAIN scans : scans[i].matched # {}}
        better(i, j) == score[i] > score[j] \/ (score[i] = score[j] /\ i < j)
    IN  Ordered(matching, {p \in matching \X matching : better(p[1], p[2])})

Labelled(scans, question, weight, ranked, maxItems) ==
    [k \in 1..Min({maxItems, Len(ranked)}) |->
      [segment |-> scans[ranked[k]].segment,
       relevance |-> Relevance(scans[ranked[k]], question, weight,
                               Score(scans[ranked[1]], weight))]]

BestOf(scans, question, weight, maxItems) ==
    Labelled(scans, question, weight, Ranking(scans, weight), maxItems)

Weighed(scans, question, maxItems) ==
    BestOf(scans, question, Weights(scans, Terms(question)), maxItems)

Candidates(page, question, maxItems) == Weighed(Scans(page, question), question, maxItems)
=============================================================================
