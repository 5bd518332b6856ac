----------------------------- MODULE MCAssessment -----------------------------
(* Instance of Assessment for TLC.  Idf is ln(1 + n / (1 + d)) in          *)
(* thousandths.                                                            *)
EXTENDS Assessment, TLC

CONSTANTS blank, full, denied, half

Texts == {full, denied, half}
Lengths == blank :> 0 @@ full :> 2 @@ denied :> 3 @@ half :> 1
Tokens == {"pump", "pumps", "maker", "of", "rotor"}
TermSet == Tokens
StopWords == {"of"}
VariantsOf == "pump" :> <<"pump">> @@ "pumps" :> <<"pumps", "pump">>
              @@ "maker" :> <<"maker">> @@ "of" :> <<"of">> @@ "rotor" :> <<"rotor">>
WordsOf == full :> <<"maker", "of", "pumps">> @@ denied :> <<"pump", "maker">>
           @@ half :> <<"pumps", "pump", "pumps", "rotor">>
Denials == {denied}
Weight == [n \in 1..Elements |-> [d \in 0..Elements |->
            << <<693, 405, 288, 223>>, <<1099, 693, 511, 405>>,
               <<1386, 916, 693, 560>> >>[n][d + 1]]]
Asked == {{"pumps", "maker", "of"}, {"pump", "rotor"}}

(* A container that is a leaf stands for bare text: a div is enough, and a *)
(* list item that is one for a paragraph.  Of the later pages only the     *)
(* stance matters.                                                         *)
Leaf(s, e) == \A x \in Element : s.parent[x] # e
Telling == {s \in Shape : \A e \in Element : Leaf(s, e) => s.tag[e] \in {"div", "p", "h2"}}
Plain == {s \in Shape : \A e \in Element : s.tag[e] = IF e < 3 THEN "p" ELSE "nav"}
ManyThenPlain == <<Telling, Plain>>
Later == {2}
First == {1}
=============================================================================
