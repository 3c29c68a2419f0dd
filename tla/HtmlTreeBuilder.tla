--------------------------- MODULE HtmlTreeBuilder ---------------------------
(***************************************************************************)
(* The "in body" insertion mode of the TreeConstructor of spec.md (§3,    *)
(* §4.2), for which the repository has only the declarations of          *)
(* src/kernel/src/browser/html/parser.h: the open-elements stack, the      *)
(* list of active formatting elements with its markers and the Noah's Ark *)
(* clause, reconstruction of the active formatting elements, implicit     *)
(* closing of p, void elements, the elements that push a marker, "any     *)
(* other end tag", and the adoption agency.  Where spec.md leaves the    *)
(* tables and the inner steps to the HTML standard (§9), the standard's  *)
(* are used.                                                              *)
(*                                                                         *)
(* The tokens are start tags, end tags and character tokens, without      *)
(* attributes (so two elements of a tag are "identical" for Noah's Ark).  *)
(* The tree is the sequence nodes: node 1 is html, node 2 body, and every *)
(* node has a tag, a parent (0 for none), its children in order and, for  *)
(* a text node (tag "#text"), its data: the positions in the input of the *)
(* character tokens it holds.  Parsing starts "in body" with html and     *)
(* body open.  One token is one step, except an end tag that runs the     *)
(* adoption agency, which takes one step per iteration of its outer loop. *)
(***************************************************************************)
EXTENDS Integers, Sequences, SequencesExt, FiniteSets

CONSTANTS
    Tokens,     \* the tokens an input may be made of
    Inputs      \* the token sequences the parser may be given

ASSUME BuilderAssumption ==
    /\ \A t \in Tokens : t.kind \in {"start", "end", "text"}
    /\ Inputs \subseteq Seq(Tokens)

VARIABLES input, pos, nodes, stack, afl, phase, aaa

vars == <<input, pos, nodes, stack, afl, phase, aaa>>

(* The tables of the HTML standard, for the tags of the HTML namespace.  *)
FormattingTags == {"a", "b", "big", "code", "em", "font", "i", "nobr", "s",
                   "small", "strike", "strong", "tt", "u"}
SpecialTags ==
    {"address", "applet", "area", "article", "aside", "base", "basefont",
     "bgsound", "blockquote", "body", "br", "button", "caption", "center",
     "col", "colgroup", "dd", "details", "dir", "div", "dl", "dt", "embed",
     "fieldset", "figcaption", "figure", "footer", "form", "frame",
     "frameset", "h1", "h2", "h3", "h4", "h5", "h6", "head", "header",
     "hgroup", "hr", "html", "iframe", "img", "input", "keygen", "li",
     "link", "listing", "main", "marquee", "menu", "meta", "nav", "noembed",
     "noframes", "noscript", "object", "ol", "p", "param", "plaintext",
     "pre", "script", "search", "section", "select", "source", "style",
     "summary", "table", "tbody", "td", "template", "textarea", "tfoot",
     "th", "thead", "title", "tr", "track", "ul", "wbr", "xmp"}
ScopeBoundary == {"applet", "caption", "html", "table", "td", "th",
                  "marquee", "object", "template"}
ButtonScopeBoundary == ScopeBoundary \cup {"button"}
(* Start tags that close a p in button scope, then insert an element.    *)
ClosesPTags == {"address", "article", "aside", "blockquote", "center",
                "details", "dialog", "dir", "div", "dl", "fieldset",
                "figcaption", "figure", "footer", "header", "hgroup", "main",
                "menu", "nav", "ol", "p", "search", "section", "summary",
                "ul"}
(* End tags that close the element of their name if it is in scope.      *)
BlockEndTags == (ClosesPTags \ {"p"}) \cup {"button", "listing", "pre"}
VoidTags == {"area", "br", "embed", "img", "keygen", "wbr"}
MarkerTags == {"applet", "marquee", "object"}

Marker == 0     \* a marker entry of the list of active formatting elements

(* The part of the state the algorithms work on, as one record.           *)
S == [nodes |-> nodes, stack |-> stack, afl |-> afl]

Tag(st, n) == st.nodes[n].tag
Current(st) == st.stack[Len(st.stack)]

(* A new node, not yet in the tree: of struct dom_node (dom.h) it keeps  *)
(* node_name as tag, parent_node as parent (0 for NULL) and the child     *)
(* list first_child .. last_child as kids; data is dom_text's data.       *)
Create(ns, tag) ==
    Append(ns, [tag |-> tag, parent |-> 0, kids |-> << >>, data |-> << >>])

(* appendChild: c leaves its parent, if any, and becomes p's last child.   *)
AppendChild(ns, p, c) ==
    LET d == IF ns[c].parent = 0 THEN ns
             ELSE [ns EXCEPT ![ns[c].parent].kids = Remove(@, c)]
    IN  [d EXCEPT ![p].kids = Append(@, c), ![c].parent = p]

(* Insert an HTML element for a start tag: a new element, appended to the *)
(* current node and pushed onto the stack.                                 *)
InsertElement(st, tag) ==
    LET n == Len(st.nodes) + 1
    IN  [st EXCEPT !.nodes = AppendChild(Create(@, tag), Current(st), n),
                   !.stack = Append(@, n)]

(* Insert a character: into the current node's last child when that is a  *)
(* Text node, else into a new Text node appended to the current node.     *)
InsertCharacter(st, k) ==
    LET c  == Current(st)
        ks == st.nodes[c].kids
        n  == Len(st.nodes) + 1
    IN  IF ks # << >> /\ Tag(st, Last(ks)) = "#text"
        THEN [st EXCEPT !.nodes[Last(ks)].data = Append(@, k)]
        ELSE [st EXCEPT !.nodes = AppendChild(
                            Append(@, [tag |-> "#text", parent |-> 0,
                                       kids |-> << >>, data |-> <<k>>]), c, n)]

(* Mutant of Reconstruct: every new element goes into the node that was   *)
(* current before the reconstruction started.                              *)
ReconstructFlat(st) ==
    LET j == SelectLastInSeq(st.afl,
                             LAMBDA e : e = Marker \/ Contains(st.stack, e))
        Redo(s, k) ==
            LET n == Len(s.nodes) + 1
            IN  [nodes |-> AppendChild(Create(s.nodes, Tag(s, s.afl[k])), Current(st), n),
                 stack |-> Append(s.stack, n),
                 afl   |-> [s.afl EXCEPT ![k] = n]]
    IN  FoldLeft(Redo, st, [m \in 1 .. Len(st.afl) - j |-> j + m])

(* Reconstruct the active formatting elements: every entry after the last *)
(* one that is a marker or on the stack is replaced, in list order, by a  *)
(* new element of its tag inserted at the current node.                   *)
Reconstruct(st) ==
    LET j == SelectLastInSeq(st.afl,
                             LAMBDA e : e = Marker \/ Contains(st.stack, e))
        Redo(s, k) ==
            LET n == Len(s.nodes) + 1
            IN  [nodes |-> AppendChild(Create(s.nodes, Tag(s, s.afl[k])), Current(s), n),
                 stack |-> Append(s.stack, n),
                 afl   |-> [s.afl EXCEPT ![k] = n]]
    IN  FoldLeft(Redo, st, [m \in 1 .. Len(st.afl) - j |-> j + m])

(* Mutant of PushFormatting: the Noah's Ark clause is left out.            *)
PushFormattingNoEvict(st, n) == [st EXCEPT !.afl = Append(@, n)]

(* Push a formatting element onto the list; when three entries after the  *)
(* last marker already have its tag, the earliest of them is removed.     *)
PushFormatting(st, n) ==
    LET m    == SelectLastInSeq(st.afl, LAMBDA e : e = Marker)
        same == {k \in m + 1 .. Len(st.afl) : Tag(st, st.afl[k]) = Tag(st, n)}
        kept == IF Cardinality(same) >= 3
                THEN RemoveAt(st.afl, CHOOSE k \in same : \A o \in same : k <= o)
                ELSE st.afl
    IN  [st EXCEPT !.afl = Append(kept, n)]

(* has an element in scope: walking down from the current node, an       *)
(* element with the tag comes before any element of the boundary.          *)
InScope(st, tag, boundary) ==
    LET k == SelectLastInSeq(st.stack,
                             LAMBDA n : Tag(st, n) \in {tag} \cup boundary)
    IN  k > 0 /\ Tag(st, st.stack[k]) = tag

(* Generate implied end tags (except for tag), then pop until an element  *)
(* with the tag has been popped.  The tag is on the stack.                 *)
PopUntilTag(st, tag) ==
    [st EXCEPT !.stack =
        SubSeq(@, 1, SelectLastInSeq(@, LAMBDA n : Tag(st, n) = tag) - 1)]

(* Clear the list up to the last marker, the marker included.             *)
ClearToLastMarker(st) ==
    [st EXCEPT !.afl = SubSeq(@, 1, SelectLastInSeq(@, LAMBDA e : e = Marker) - 1)]

(* "Any other end tag": walking down from the current node, the first     *)
(* element with the tag is closed, unless a special element comes first.   *)
AnyOtherEndTag(st, tag) ==
    LET k == SelectLastInSeq(st.stack,
                             LAMBDA n : Tag(st, n) = tag \/ Tag(st, n) \in SpecialTags)
    IN  IF k > 0 /\ Tag(st, st.stack[k]) = tag
        THEN [st EXCEPT !.stack = SubSeq(@, 1, k - 1)]
        ELSE st

-----------------------------------------------------------------------------
(* The adoption agency.  fe is the formatting element, at feIdx on the     *)
(* stack; fb the furthest block, at fbIdx.  The inner loop walks the       *)
(* stack from just below fb down to just above fe (one round per entry in *)
(* between): an entry not in the list (or dropped from it after the third *)
(* round) leaves the stack; any other is replaced, on the stack and in    *)
(* the list, by a new element of its tag, to which the last node moves.   *)
(* The bookmark is the list entry after which the new formatting element *)
(* goes: fe at first, then the clone made in the first cloning round.    *)
InnerLoop(st, fe, fb, feIdx, fbIdx) ==
    LET Round(r, c) ==
            LET j    == r.idx - 1
                node == r.stack[j]
                kept == IF c > 3 /\ Contains(r.afl, node)
                        THEN Remove(r.afl, node) ELSE r.afl
                n    == Len(r.nodes) + 1
            IN  IF ~Contains(kept, node)
                THEN [r EXCEPT !.afl = kept, !.stack = RemoveAt(@, j), !.idx = j]
                ELSE [r EXCEPT !.nodes = AppendChild(Create(@, Tag(r, node)), n, r.last),
                               !.afl = [kept EXCEPT ![SelectInSeq(kept, LAMBDA e : e = node)] = n],
                               !.stack = [@ EXCEPT ![j] = n],
                               !.idx = j,
                               !.last = n,
                               !.bookmark = IF r.last = fb THEN n ELSE @]
    IN  FoldLeft(Round,
                 [nodes |-> st.nodes, stack |-> st.stack, afl |-> st.afl,
                  idx |-> fbIdx, last |-> fb, bookmark |-> fe],
                 [c \in 1 .. fbIdx - feIdx - 1 |-> c])

(* The end of an iteration, once the last node is where ns puts it: a new *)
(* element of fe's tag takes all of fb's children and becomes fb's only   *)
(* child; in the list it goes after the bookmark, on the stack just above *)
(* fb, and fe leaves both.                                                 *)
CloneUnderFurthestBlock(r, fe, fb, ns) ==
    LET new == Len(ns) + 1
        ks  == ns[fb].kids
        s1  == Remove(r.stack, fe)
    IN  [nodes |-> [k \in 1 .. new |->
                      CASE k = new         -> [tag |-> ns[fe].tag, parent |-> fb,
                                               kids |-> ks, data |-> << >>]
                        [] k = fb          -> [ns[fb] EXCEPT !.kids = <<new>>]
                        [] Contains(ks, k) -> [ns[k] EXCEPT !.parent = new]
                        [] OTHER           -> ns[k]],
         afl   |-> Remove(InsertAt(r.afl, SelectInSeq(r.afl, LAMBDA e : e = r.bookmark) + 1, new), fe),
         stack |-> InsertAt(s1, SelectInSeq(s1, LAMBDA n : n = fb) + 1, new)]

(* Mutant of AdoptionFinish: the last node goes where fe is among the      *)
(* common ancestor's children instead of after them.                       *)
AdoptionFinishAtFe(r, fe, fb, ca) ==
    LET old == r.nodes[r.last].parent
        d   == IF old = 0 THEN r.nodes ELSE [r.nodes EXCEPT ![old].kids = Remove(@, r.last)]
        ks  == d[ca].kids
    IN  CloneUnderFurthestBlock(r, fe, fb,
            [d EXCEPT ![ca].kids = InsertAt(ks, SelectInSeq(ks, LAMBDA n : n = fe), r.last),
                      ![r.last].parent = ca])

(* The last node is appended to the common ancestor ca, then fe is cloned *)
(* under fb.                                                               *)
AdoptionFinish(r, fe, fb, ca) ==
    CloneUnderFurthestBlock(r, fe, fb, AppendChild(r.nodes, ca, r.last))

-----------------------------------------------------------------------------
NoAdoption == [subject |-> "", outer |-> 0]

Init ==
    /\ input \in Inputs
    /\ pos = 1
    /\ nodes = << [tag |-> "html", parent |-> 0, kids |-> <<2>>, data |-> << >>],
                  [tag |-> "body", parent |-> 1, kids |-> << >>, data |-> << >>] >>
    /\ stack = <<1, 2>>
    /\ afl = << >>
    /\ phase = "idle"
    /\ aaa = NoAdoption

Token == input[pos]

(* process_token may take the next token.                                  *)
Ready == phase = "idle" /\ pos <= Len(input)

(* The token has been handled and the state is st.                         *)
Done(st) ==
    /\ nodes' = st.nodes /\ stack' = st.stack /\ afl' = st.afl
    /\ pos' = pos + 1
    /\ phase' = "idle"
    /\ aaa' = NoAdoption
    /\ UNCHANGED input

(* A character token.                                                      *)
Character ==
    /\ Ready /\ Token.kind = "text"
    /\ Done(InsertCharacter(Reconstruct(S), pos))

(* A formatting start tag other than a and nobr.                           *)
StartFormatting ==
    /\ Ready /\ Token.kind = "start" /\ Token.tag \in FormattingTags \ {"a", "nobr"}
    /\ LET st == InsertElement(Reconstruct(S), Token.tag)
       IN  Done(PushFormatting(st, Current(st)))

(* A block start tag: a p in button scope is closed first.                 *)
StartClosesP ==
    /\ Ready /\ Token.kind = "start" /\ Token.tag \in ClosesPTags
    /\ Done(InsertElement(IF InScope(S, "p", ButtonScopeBoundary)
                          THEN PopUntilTag(S, "p") ELSE S, Token.tag))

(* A void start tag: inserted and popped at once.                          *)
StartVoid ==
    /\ Ready /\ Token.kind = "start" /\ Token.tag \in VoidTags
    /\ LET st == InsertElement(Reconstruct(S), Token.tag)
       IN  Done([st EXCEPT !.stack = Front(@)])

(* applet, marquee, object: the element, then a marker in the list.        *)
StartMarker ==
    /\ Ready /\ Token.kind = "start" /\ Token.tag \in MarkerTags
    /\ LET st == InsertElement(Reconstruct(S), Token.tag)
       IN  Done([st EXCEPT !.afl = Append(@, Marker)])

(* </p>: with no p in button scope an empty p is inserted to be closed.   *)
EndP ==
    /\ Ready /\ Token.kind = "end" /\ Token.tag = "p"
    /\ Done(PopUntilTag(IF InScope(S, "p", ButtonScopeBoundary)
                        THEN S ELSE InsertElement(S, "p"), "p"))

(* A block end tag: ignored unless an element of its tag is in scope.     *)
EndBlock ==
    /\ Ready /\ Token.kind = "end" /\ Token.tag \in BlockEndTags
    /\ Done(IF InScope(S, Token.tag, ScopeBoundary)
            THEN PopUntilTag(S, Token.tag) ELSE S)

(* </applet>, </marquee>, </object>: also clears the list to the marker.  *)
EndMarker ==
    /\ Ready /\ Token.kind = "end" /\ Token.tag \in MarkerTags
    /\ Done(IF InScope(S, Token.tag, ScopeBoundary)
            THEN ClearToLastMarker(PopUntilTag(S, Token.tag)) ELSE S)

(* A formatting end tag whose element is the current node and not in the  *)
(* list is just popped.                                                    *)
AdoptionPopCurrent ==
    /\ Ready /\ Token.kind = "end" /\ Token.tag \in FormattingTags
    /\ Tag(S, Current(S)) = Token.tag /\ ~Contains(afl, Current(S))
    /\ Done([S EXCEPT !.stack = Front(@)])

(* Otherwise the outer loop of the adoption agency starts.                 *)
AdoptionStart ==
    /\ Ready /\ Token.kind = "end" /\ Token.tag \in FormattingTags
    /\ ~(Tag(S, Current(S)) = Token.tag /\ ~Contains(afl, Current(S)))
    /\ phase' = "adoption"
    /\ aaa' = [subject |-> Token.tag, outer |-> 0]
    /\ UNCHANGED <<input, pos, nodes, stack, afl>>

(* The outer loop's formatting element: the last list entry after the    *)
(* last marker with the subject's tag (its index, 0 when there is none), *)
(* its place on the stack and the furthest block's place (0: none).      *)
FeEntry ==
    LET k == SelectLastInSeq(afl, LAMBDA e : e = Marker \/ Tag(S, e) = aaa.subject)
    IN  IF k > 0 /\ afl[k] # Marker THEN k ELSE 0
Fe == afl[FeEntry]
FeIdx == SelectInSeq(stack, LAMBDA n : n = Fe)
FbIdx == SelectInSubSeq(stack, FeIdx + 1, Len(stack),
                        LAMBDA n : Tag(S, n) \in SpecialTags)

(* fe is in scope: walking down from the current node, fe comes before    *)
(* any element of the scope boundary.                                     *)
FeInScope ==
    LET k == SelectLastInSeq(stack, LAMBDA n : n = Fe \/ Tag(S, n) \in ScopeBoundary)
    IN  k > 0 /\ stack[k] = Fe

Outer == phase = "adoption" /\ aaa.outer < 8

(* Eight iterations done.                                                  *)
AdoptionLimit ==
    /\ phase = "adoption" /\ aaa.outer >= 8
    /\ Done(S)

(* No formatting element: "any other end tag".                             *)
AdoptionNoEntry ==
    /\ Outer /\ FeEntry = 0
    /\ Done(AnyOtherEndTag(S, aaa.subject))

(* fe is not on the stack: its entry is removed.                           *)
AdoptionNotOnStack ==
    /\ Outer /\ FeEntry > 0 /\ FeIdx = 0
    /\ Done([S EXCEPT !.afl = RemoveAt(@, FeEntry)])

(* fe is open but not in scope: a parse error, the token is ignored.  No  *)
(* furthest block: fe and everything above it are popped.  (In this mode  *)
(* fe is always in scope, since every scope boundary element it inserts   *)
(* also pushes a marker and fe comes after the last marker; the branch is *)
(* kept so that a state reaching it is not a silent deadlock.)            *)
AdoptionNoFurthestBlock ==
    /\ Outer /\ FeEntry > 0 /\ FeIdx > 0 /\ (~FeInScope \/ FbIdx = 0)
    /\ Done(IF FeInScope
            THEN [S EXCEPT !.stack = SubSeq(@, 1, FeIdx - 1), !.afl = RemoveAt(@, FeEntry)]
            ELSE S)

(* One full iteration with a furthest block; the outer loop goes on.       *)
AdoptionIteration ==
    /\ Outer /\ FeEntry > 0 /\ FeIdx > 0 /\ FeInScope /\ FbIdx > 0
    /\ LET r  == InnerLoop(S, Fe, stack[FbIdx], FeIdx, FbIdx)
           st == AdoptionFinish(r, Fe, stack[FbIdx], stack[FeIdx - 1])
       IN  /\ nodes' = st.nodes /\ stack' = st.stack /\ afl' = st.afl
    /\ aaa' = [aaa EXCEPT !.outer = @ + 1]
    /\ UNCHANGED <<input, pos, phase>>

Next ==
    \/ Character \/ StartFormatting \/ StartClosesP \/ StartVoid \/ StartMarker
    \/ EndP \/ EndBlock \/ EndMarker \/ AdoptionPopCurrent \/ AdoptionStart
    \/ AdoptionLimit \/ AdoptionNoEntry \/ AdoptionNotOnStack
    \/ AdoptionNoFurthestBlock \/ AdoptionIteration

Spec == Init /\ [][Next]_vars

-----------------------------------------------------------------------------
(* The document's text: the data of its Text nodes in tree order.          *)
RECURSIVE TextOf(_)
TextOf(n) ==
    IF nodes[n].tag = "#text" THEN nodes[n].data
    ELSE FoldLeft(LAMBDA acc, c : acc \o TextOf(c), << >>, nodes[n].kids)

TextStream == INSTANCE HtmlTextStream WITH doc <- TextOf(1)

(* The tree constructor implements the text stream: every character token *)
(* ends up last in the document's text, and no step moves text already   *)
(* placed, whatever the implicit closing, the reconstruction of           *)
(* formatting elements and the adoption agency's moves of subtrees do.   *)
ImplementsTextStream == TextStream!Spec

(* Between tokens, the stack is the ancestor chain from html to the        *)
(* current node (spec.md §3): every entry is the parent of the one above.  *)
StackIsAncestorChain ==
    phase = "idle" =>
        /\ stack[1] = 1
        /\ \A k \in 2 .. Len(stack) : nodes[stack[k]].parent = stack[k - 1]

(* Noah's Ark: after the last marker, no tag has more than three entries  *)
(* in the list of active formatting elements.                              *)
NoahsArk ==
    LET m == SelectLastInSeq(afl, LAMBDA e : e = Marker)
    IN  \A k \in m + 1 .. Len(afl) :
            Cardinality({o \in m + 1 .. Len(afl) : nodes[afl[o]].tag = nodes[afl[k]].tag}) <= 3
=============================================================================
