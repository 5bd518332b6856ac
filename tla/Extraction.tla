------------------------------ MODULE Extraction ------------------------------
(***************************************************************************)
(* extractDocument() of packages/extraction/src/extract.ts: which text of  *)
(* a page becomes a line of mainText.  A page is its elements in document  *)
(* order; element 0 is the body.  An element's own text is one sentence or *)
(* blank, and precedes that of its children.  Lines are sequences of the   *)
(* elements whose text they carry.  Metadata and dates are left out.       *)
(***************************************************************************)
EXTENDS Integers, Sequences, SequencesExt

CONSTANTS
    Passage,   \* texts of an element
    Blank,     \* no text
    Length,    \* Length[t]: how many characters a text has
    Elements   \* bound of the model: how many elements a page has

ASSUME ExtractionAssumption ==
    /\ Blank \notin Passage /\ Elements \in Nat
    /\ Length \in [Passage \cup {Blank} -> Nat] /\ Length[Blank] = 0
    /\ \A t \in Passage : Length[t] > 0

Element == 1..Elements

(* One tag stands for each way the code treats an element.                 *)
Boilerplate == {"nav"}
HeadingTag == {"h2"}
Block == HeadingTag \cup {"p", "li"}
Tag == Boilerplate \cup Block \cup {"main", "div"}

(* In document order nothing comes between an element and its descendants; *)
(* the parser closes a "p" before every other element known here.          *)
Parents == {p \in [Element -> 0..(Elements - 1)] :
              \A e \in Element : p[e] < e /\ \A x \in (p[e] + 1)..(e - 1) : p[x] >= p[e]}

Shape == {s \in [parent : Parents, tag : [Element -> Tag]] :
            \A e \in Element : s.parent[e] # 0 => s.tag[s.parent[e]] # "p"}

Pages(shapes) ==
    {[parent |-> s.parent, tag |-> s.tag, text |-> t] :
       s \in shapes, t \in [Element -> Passage \cup {Blank}]}

Ancestors(page) ==
    LET anc[e \in 0..Elements] ==
          IF e = 0 THEN {} ELSE {page.parent[e]} \cup anc[page.parent[e]]
    IN  anc

(* What is left once boilerplate has been removed.                         *)
Kept(page) ==
    {e \in Element : \A x \in {e} \cup Ancestors(page)[e] : x = 0 \/ page.tag[x] \notin Boilerplate}

Within(page, e) == {x \in Kept(page) : e \in Ancestors(page)[x]}

(* The members of a finite set, each after all that come before it.        *)
Ordered(set, before) ==
    [k \in 1..Cardinality(set) |->
       CHOOSE x \in set : Cardinality({y \in set : <<y, x>> \in before}) = k - 1]

DocumentOrder == {p \in (0..Elements) \X (0..Elements) : p[1] < p[2]}

InOrder(set) == Ordered(set, DocumentOrder)

(* normalizeText($(el).text()): empty when all of it is blank.             *)
TextIn(page, e) == {x \in Within(page, e) \cup ({e} \ {0}) : page.text[x] # Blank}

TextOf(page, e) == InOrder(TextIn(page, e))

TextLength(page, e) == SumFunction([x \in TextIn(page, e) |-> Length[page.text[x]]])

(* How much paragraph text there is below an element.                      *)
Density(page, e) ==
    SumFunction([p \in {x \in Within(page, e) : page.tag[x] = "p"} |-> TextLength(page, p)])

FirstOf(set, otherwise) == IF set # {} THEN Min(set) ELSE otherwise

Densest(page, divs) == {d \in divs : \A x \in divs : Density(page, x) <= Density(page, d)}

(* selectContainer(): a declared container, else the densest div, earliest *)
(* first, else the body.                                                   *)
Container(page) ==
    FirstOf({e \in Kept(page) : page.tag[e] = "main"},
            FirstOf(Densest(page, {e \in Kept(page) : page.tag[e] = "div" /\ Density(page, e) > 0}),
                    0))

BlocksNested(page, e) == {b \in Within(page, e) : page.tag[b] \in Block}

(* A block inside a block that was emitted is not emitted again.           *)
Blocks(page, e) ==
    {b \in Within(page, e) : /\ page.tag[b] \in Block
                             /\ \A x \in Within(page, e) \cap Ancestors(page)[b] :
                                  page.tag[x] \notin Block}

(* The texts of some elements; an element without text makes no line.      *)
LinesOf(page, elements) ==
    LET order == InOrder({e \in elements : TextIn(page, e) # {}})
    IN  [k \in DOMAIN order |-> TextOf(page, order[k])]

BlockLines(page, e) == LinesOf(page, Blocks(page, e))

OrElse(lines, otherwise) == IF lines # <<>> THEN lines ELSE otherwise

(* A container without block text falls back to the blocks of the body,    *)
(* and those to the bare text.                                             *)
MainText(page) ==
    OrElse(BlockLines(page, Container(page)), OrElse(BlockLines(page, 0), LinesOf(page, {0})))

Headings(page) ==
    LinesOf(page, {h \in Within(page, Container(page)) : page.tag[h] \in HeadingTag})

=============================================================================
