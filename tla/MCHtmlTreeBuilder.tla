-------------------------- MODULE MCHtmlTreeBuilder --------------------------
(***************************************************************************)
(* The tree constructor on every input of up to five tokens over two      *)
(* formatting tags (b, i), a block (p), a void element (br), an element   *)
(* that pushes a marker (object) and character data, and on a few longer  *)
(* inputs that reach the branches short ones cannot.                      *)
(***************************************************************************)
EXTENDS HtmlTreeBuilder

Start(t) == [kind |-> "start", tag |-> t]
End(t)   == [kind |-> "end", tag |-> t]
Text     == [kind |-> "text", tag |-> "#text"]

MCTokens ==
    {Start("b"), Start("i"), Start("p"), Start("br"), Start("object"),
     End("b"), End("i"), End("p"), End("object"), Text}

(* The tokens of the short inputs and of the long ones.                    *)
MCAllTokens ==
    MCTokens \cup {Start("div"), Start("s"), Start("u"), Start("em"), End("div")}

Repeat(t, n) == [k \in 1 .. n |-> t]

MCInputs ==
    BoundedSeq(MCTokens, 5) \cup
    {   \* eight nested furthest blocks: the outer loop runs out
        <<Start("b")>> \o Repeat(Start("div"), 8) \o <<Text, End("b"), Text>>,
        \* Noah's Ark evicts the first b, which the last </b> finds current
        Repeat(Start("b"), 4) \o <<Text>> \o Repeat(End("b"), 4) \o <<Text>>,
        \* four formatting elements between fe and fb: the inner loop drops
        \* the ones it meets after its third round
        <<Start("b"), Start("i"), Start("s"), Start("u"), Start("em"),
          Start("p"), Text, End("b"), Text>>,
        \* a block end tag, with an implied </p>
        <<Start("div"), Start("b"), Start("p"), Text, End("div"), Text>>}
=============================================================================
