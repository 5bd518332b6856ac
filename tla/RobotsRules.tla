----------------------------- MODULE RobotsRules -----------------------------
(***************************************************************************)
(* parseRobots() and isPathAllowed() of packages/core/src/robots.ts.  A    *)
(* file is its lines, without comments: a field and a value.  Patterns are *)
(* given by the paths they match and their length.                         *)
(***************************************************************************)
EXTENDS Integers, Sequences, SequencesExt

CONSTANTS
    Agent,      \* agent names in a file: "*", prefixes of our token, others
    OurNames,   \* those that are a prefix of our token
    Pattern,    \* rule paths; EmptyPattern is ""
    EmptyPattern,
    Length,     \* Length[p]
    Matching,   \* Matching[p]: the paths p matches, with its * and $
    Path

ASSUME RulesAssumption ==
    /\ "*" \in Agent \ OurNames /\ OurNames \subseteq Agent
    /\ EmptyPattern \in Pattern
    /\ Length \in [Pattern -> Nat] /\ Matching \in [Pattern -> SUBSET Path]
    /\ \A p \in Pattern : (Length[p] = 0) = (p = EmptyPattern)
    /\ Matching[EmptyPattern] = {}

Lines == [field : {"user-agent"}, value : Agent]
         \cup [field : {"allow", "disallow"}, value : Pattern]
         \cup [field : {"other"}, value : {EmptyPattern}]

Rule(line) == [allow |-> line.field = "allow", path |-> line.value]

(* One line of the file.  Neighbouring agents share a group; rules before  *)
(* the first agent belong to nobody.                                       *)
Step(seen, line) ==
    LET at == Len(seen.groups) IN
    CASE line.field = "user-agent" /\ (at = 0 \/ ~seen.agents) ->
           [groups |-> Append(seen.groups, [agents |-> {line.value}, rules |-> <<>>]),
            agents |-> TRUE]
      [] line.field = "user-agent" /\ at > 0 /\ seen.agents ->
           [seen EXCEPT !.groups[at].agents = @ \cup {line.value}]
      [] line.field \in {"allow", "disallow"} /\ at > 0 ->
           [groups |-> [seen.groups EXCEPT ![at].rules = Append(@, Rule(line))],
            agents |-> FALSE]
      [] OTHER -> [seen EXCEPT !.agents = FALSE]

Unread == [groups |-> <<>>, agents |-> FALSE]

(* The groups of a file, after its last line.                              *)
Groups(file) ==
    LET seen[n \in 0..Len(file)] == IF n = 0 THEN Unread ELSE Step(seen[n - 1], file[n])
    IN  ToSet(seen[Len(file)].groups)

Applies(group) == group.agents \cap (OurNames \cup {"*"}) # {}

ChosenAll(groups) == {g \in groups : Applies(g)}

(* Groups that name somebody besides "*" win over the rest.                *)
Chosen(groups) ==
    LET applicable == {g \in groups : Applies(g)}
        specific == {g \in applicable : \E a \in g.agents : a # "*"}
    IN  IF specific # {} THEN specific ELSE applicable

Precedes(r, s) ==
    \/ Length[r.path] > Length[s.path]
    \/ Length[r.path] = Length[s.path] /\ r.allow /\ ~s.allow

Sorted(rules) == \A i, j \in DOMAIN rules : i < j => ~Precedes(rules[j], rules[i])

RulesOf(groups) == UNION {ToSet(g.rules) : g \in groups}

(* Longest path first, Allow before Disallow; an empty Disallow is dropped. *)
Parse(file) ==
    LET rules == {r \in RulesOf(Chosen(Groups(file))) : r.path # EmptyPattern \/ r.allow}
    IN  CHOOSE order \in SetToSeqs(rules) : Sorted(order)

(* The first rule that matches decides.                                    *)
PathAllowed(rules, path) ==
    LET matching == {i \in DOMAIN rules : path \in Matching[rules[i].path]}
    IN  \A i \in matching : (\A j \in matching : i <= j) => rules[i].allow

-----------------------------------------------------------------------------
(* What a file says, without an order: the groups that name us, or else    *)
(* those for everybody; of their rules that match, the longest, and allow  *)
(* if they disagree.                                                       *)
Says(file, path) ==
    LET groups == Groups(file)
        ours == {g \in groups : g.agents \cap OurNames # {}}
        governing == IF ours # {} THEN ours ELSE {g \in groups : "*" \in g.agents}
        matching == {r \in RulesOf(governing) : path \in Matching[r.path]}
        longest == {r \in matching : \A s \in matching : Length[s.path] <= Length[r.path]}
    IN  longest = {} \/ \E r \in longest : r.allow

(* Files with a group for "*" and for others, none of them us: the code    *)
(* takes such a group to be specific to us, and lets it win over "*".      *)
Ambiguous(file) ==
    \E g \in Groups(file) :
      "*" \in g.agents /\ g.agents # {"*"} /\ g.agents \cap OurNames = {}
=============================================================================
