---------------------------- MODULE HtmlTextStream ---------------------------
(***************************************************************************)
(* What the tree constructor of spec.md promises about character data:    *)
(* the parser consumes the token stream in order, each token once, and    *)
(* every character token's text ends up last in the document's text, in   *)
(* document order, whatever the markup around it.  Nothing that happens   *)
(* to the tree in between (implicit closing, reconstruction of formatting *)
(* elements, adoption-agency reparenting) moves text already placed.      *)
(* The state is the input, the position of the next token and the        *)
(* document's text as the sequence of the positions of the character      *)
(* tokens it came from.                                                   *)
(***************************************************************************)
EXTENDS Integers, Sequences

CONSTANT Tokens     \* the tokens an input may be made of

VARIABLES input, pos, doc

IsText(t) == t.kind = "text"

Init ==
    /\ input \in Seq(Tokens)
    /\ pos = 1
    /\ doc = << >>

(* process_token on the next token: character data is appended to the    *)
(* document's text, any other token leaves the text as it is.             *)
Consume ==
    /\ pos <= Len(input)
    /\ pos' = pos + 1
    /\ doc' = IF IsText(input[pos]) THEN Append(doc, pos) ELSE doc
    /\ UNCHANGED input

Spec == Init /\ [][Consume]_<<input, pos, doc>>
=============================================================================
