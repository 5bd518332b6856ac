---------------------------- MODULE MCRobotsCache ----------------------------
(* Instance of RobotsCache for TLC.                                        *)
EXTENDS RobotsCache, TLC

CONSTANTS r1, r2, o1, o2

TwoChecks == {r1, r2}
TwoOrigins == {o1, o2}
Agents == {"*", "ours", "theirs"}
Ours == {"ours"}
Patterns == {"", "/", "/a", "/*a"}
Lengths == "" :> 0 @@ "/" :> 1 @@ "/a" :> 2 @@ "/*a" :> 3
Paths == {"/", "/a"}
Matches == "" :> {} @@ "/" :> Paths @@ "/a" :> {"/a"} @@ "/*a" :> {"/a"}

For(a) == [field |-> "user-agent", value |-> a]
Allow(p) == [field |-> "allow", value |-> p]
Deny(p) == [field |-> "disallow", value |-> p]

(* Groups for everybody, for us, for others and for two at once; rules     *)
(* that nest, tie, are empty or come before any group.                     *)
Heads == {<<For("*")>>, <<For("ours")>>, <<For("theirs")>>, <<For("*"), For("theirs")>>,
          <<For("*"), For("ours")>>, <<For("theirs"), For("ours")>>, <<>>}
Bodies == {<<Deny("/")>>, <<Deny("/"), Allow("/a")>>, <<Allow("/a"), Deny("/a")>>,
           <<Deny("")>>, <<Allow("/"), Deny("/*a")>>}
Blocks == {h \o b : h \in Heads, b \in Bodies}
Closed == <<For("*"), Deny("/")>>

Serving(f, g) == o1 :> [before |-> f, after |-> g] @@ o2 :> [before |-> Closed, after |-> Closed]
ManySites == {Serving(f \o <<For("*"), Deny("/a")>>, Closed) : f \in Blocks}
Symmetric == Permutations(TwoChecks)
=============================================================================
