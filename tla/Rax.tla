--------------------------------- MODULE Rax ---------------------------------
(***************************************************************************)
(* The radix tree (rax.c): nodes with one child per byte, chains of        *)
(* single-child nodes compressed into one, values of childless keys kept   *)
(* inline in the child slot of their parent, marked in a bitmap that has   *)
(* room for the first InlineSlots children only.                           *)
(*                                                                         *)
(* The server keeps its tool-call memory in such trees and exits when an   *)
(* insertion fails, so allocations succeed here, except the one of the     *)
(* recompression after a removal, whose failure the code tolerates.        *)
(* Nodes are nested records; an address is the path of child positions.    *)
(***************************************************************************)
EXTENDS Naturals, Sequences, FiniteSets, SequencesExt

CONSTANTS
    Null,          \* the NULL pointer as a value: it takes no room in a node
    InlineSlots,   \* bits of leafbitmap (13)
    NodeMax        \* RAX_NODE_MAX_SIZE

ASSUME RaxAssumption == InlineSlots \in Nat \ {0} /\ NodeMax \in Nat \ {0}

VARIABLES
    head,          \* the tree
    numele,        \* raxSize
    numnodes,
    it,            \* an iterator
    overrun        \* a write went past the end of a node: anything may follow

raxVars == <<head, numele, numnodes, it, overrun>>

-----------------------------------------------------------------------------
(* Nodes                                                                   *)

\* raxNewNode(0, 0); a raw slot holds a value and no node
Empty == [raw |-> FALSE, iskey |-> FALSE, data |-> Null, iscompr |-> FALSE,
          chars |-> <<>>, kids |-> <<>>, bits |-> {}]
RawValue(d) == [Empty EXCEPT !.raw = TRUE, !.data = d]
ValueNode(d) == [Empty EXCEPT !.iskey = TRUE, !.data = d]

NodeSize(n) == Len(n.chars)
IsInlineLeaf(n, j) == j \in n.bits

NodeAt(t, path) == FoldLeft(LAMBDA n, j : n.kids[j], t, path)

RECURSIVE SetAt(_, _, _)
SetAt(t, path, n) ==
    IF path = <<>> THEN n
    ELSE [t EXCEPT !.kids[Head(path)] = SetAt(@, Tail(path), n)]

\* A compressed node, or a normal one when a single character is left
Chain(n, chars, kid, inline) ==
    [n EXCEPT !.iscompr = Len(chars) > 1, !.chars = chars, !.kids = <<kid>>,
              !.bits = IF inline THEN {1} ELSE {}]

\* raxNodeFindChildPos
FindChildPos(n, c) == 1 + Cardinality({j \in 1..NodeSize(n) : n.chars[j] <= c})

\* How much of s the edges of n match
Matched(n, s) ==
    IF n.iscompr THEN Max({m \in 0..NodeSize(n) : IsPrefix(SubSeq(n.chars, 1, m), s)})
    ELSE IF s[1] \in Range(n.chars) THEN 1 ELSE 0

\* raxLowWalk from the node n at path, i characters into s
RECURSIVE WalkFrom(_, _, _, _)
WalkFrom(n, path, s, i) ==
    LET rest == SubSeq(s, i + 1, Len(s))
        m == Matched(n, rest)
        j == IF n.iscompr THEN 1 ELSE CHOOSE x \in 1..NodeSize(n) : n.chars[x] = rest[1]
        stop == [i |-> i, path |-> path, split |-> 0, inline |-> 0]
    IN  IF n.chars = <<>> \/ rest = <<>> THEN stop
        ELSE IF n.iscompr /\ m < NodeSize(n) THEN [stop EXCEPT !.i = i + m, !.split = m]
        ELSE IF m = 0 THEN stop
        ELSE IF IsInlineLeaf(n, j) THEN [stop EXCEPT !.i = i + m, !.inline = j]
        ELSE WalkFrom(n.kids[j], Append(path, j), s, i + m)

raxLowWalk(t, s) == WalkFrom(t, <<>>, s, 0)

-----------------------------------------------------------------------------
(* Insertion: [tree, nodes, added] says what becomes of the tree, by how   *)
(* much numnodes changes and whether the key is new                        *)

\* Mutant: the bitmap is not shifted
AddChildUnshifted(n, c, kid) ==
    LET pos == FindChildPos(n, c)
    IN  [node |-> [n EXCEPT !.chars = InsertAt(@, pos, c), !.kids = InsertAt(@, pos, kid),
                            !.bits = @ \cup (IF kid.raw THEN {pos} ELSE {})],
         pos |-> pos, spilled |-> 0]

\* raxAddChildNoAlloc: the children from pos on move up by one; an inline value
\* that leaves the range of the bitmap becomes a node
raxAddChild(n, c, kid) ==
    LET pos == FindChildPos(n, c)
        spill == pos <= InlineSlots /\ IsInlineLeaf(n, InlineSlots)
        kids == IF spill THEN [n.kids EXCEPT ![InlineSlots] = ValueNode(@.data)] ELSE n.kids
        shifted == {b \in n.bits : b < pos} \cup {b + 1 : b \in {x \in n.bits : x >= pos}}
    IN  [node |-> [n EXCEPT !.chars = InsertAt(@, pos, c), !.kids = InsertAt(kids, pos, kid),
                            !.bits = (shifted \cap 1..InlineSlots)
                                     \cup (IF kid.raw THEN {pos} ELSE {})],
         pos |-> pos, spilled |-> IF spill THEN 1 ELSE 0]

\* The loop that adds what is left of s, i characters in, below the node at path
RECURSIVE InsertRest(_, _, _, _, _, _)
InsertRest(t, nodes, path, s, i, d) ==
    LET h == NodeAt(t, path)
        left == Len(s) - i
        size == IF left > NodeMax THEN NodeMax ELSE left
        chars == SubSeq(s, i + 1, i + size)
        inline == left = 1 /\ FindChildPos(h, s[i + 1]) <= InlineSlots
        kid == IF inline THEN RawValue(d) ELSE Empty
        add == raxAddChild(h, s[i + 1], kid)
    IN  IF left = 0 THEN
            [tree |-> SetAt(t, path, [h EXCEPT !.iskey = TRUE, !.data = d]),
             nodes |-> nodes, added |-> TRUE]
        ELSE IF h.chars = <<>> /\ left > 1 THEN
            IF size = left
            THEN [tree |-> SetAt(t, path, Chain(h, chars, RawValue(d), TRUE)),
                  nodes |-> nodes, added |-> TRUE]
            ELSE InsertRest(SetAt(t, path, Chain(h, chars, Empty, FALSE)), nodes + 1,
                            Append(path, 1), s, i + size, d)
        ELSE IF inline THEN
            [tree |-> SetAt(t, path, add.node), nodes |-> nodes + add.spilled, added |-> TRUE]
        ELSE InsertRest(SetAt(t, path, add.node), nodes + add.spilled + 1,
                        Append(path, add.pos), s, i + 1, d)

\* ALGO 1: a mismatch inside the compressed node h. It becomes the trimmed
\* node (if anything of it precedes the mismatch), the split node with one child
\* and the postfix node (if anything follows); the rest goes below the split node.
SplitAt(t, path, split) ==
    LET h == NodeAt(t, path)
        trimmed == SubSeq(h.chars, 1, split)
        postfix == SubSeq(h.chars, split + 2, NodeSize(h))
        next == h.kids[1]
        inline == IsInlineLeaf(h, 1)
        own == IF trimmed = <<>> THEN [Empty EXCEPT !.iskey = h.iskey, !.data = h.data]
               ELSE Empty
        node == IF postfix = <<>> THEN Chain(own, <<h.chars[split + 1]>>, next, inline)
                ELSE Chain(own, <<h.chars[split + 1]>>,
                           Chain(Empty, postfix, next, inline), FALSE)
    IN  [tree |-> SetAt(t, path, IF trimmed = <<>> THEN node
                                 ELSE Chain(h, trimmed, node, FALSE)),
         path |-> IF trimmed = <<>> THEN path ELSE Append(path, 1),
         nodes |-> (IF trimmed = <<>> THEN 0 ELSE 1) + (IF postfix = <<>> THEN 0 ELSE 1)]

\* ALGO 2: the key ends inside the compressed node h
CutAt(t, path, split, d) ==
    LET h == NodeAt(t, path)
        postfix == Chain(ValueNode(d), SubSeq(h.chars, split + 1, NodeSize(h)), h.kids[1],
                         IsInlineLeaf(h, 1))
    IN  [tree |-> SetAt(t, path, Chain(h, SubSeq(h.chars, 1, split), postfix, FALSE)),
         nodes |-> 1, added |-> TRUE]

InsertBelow(cut, s, i, d) == InsertRest(cut.tree, cut.nodes, cut.path, s, i, d)

\* raxGenericInsert, after the walk w has ended at the node h
InsertWalked(t, s, d, overwrite, w, h) ==
    LET same == [tree |-> t, nodes |-> 0, added |-> FALSE]
        leaf == [h EXCEPT !.kids[w.inline] = ValueNode(@.data), !.bits = @ \ {w.inline}]
    IN  IF w.inline # 0 THEN
            IF w.i = Len(s)
            THEN IF overwrite
                 THEN [same EXCEPT !.tree = SetAt(t, Append(w.path, w.inline), RawValue(d))]
                 ELSE same
            ELSE InsertRest(SetAt(t, w.path, leaf), 1, Append(w.path, w.inline), s, w.i, d)
        ELSE IF w.i = Len(s) /\ (~h.iscompr \/ w.split = 0) THEN
            IF h.iskey /\ ~overwrite THEN same
            ELSE [tree |-> SetAt(t, w.path, [h EXCEPT !.iskey = TRUE, !.data = d]),
                  nodes |-> 0, added |-> ~h.iskey]
        ELSE IF h.iscompr /\ w.i # Len(s) THEN
            InsertBelow(SplitAt(t, w.path, w.split), s, w.i, d)
        ELSE IF h.iscompr THEN CutAt(t, w.path, w.split, d)
        ELSE InsertRest(t, 0, w.path, s, w.i, d)

raxGenericInsert(t, s, d, overwrite) ==
    LET w == raxLowWalk(t, s) IN InsertWalked(t, s, d, overwrite, w, NodeAt(t, w.path))

\* raxFind: the data as a one-element sequence, <<>> is raxNotFound
FindWalked(s, w, h) ==
    IF w.inline # 0 /\ w.i = Len(s) THEN <<h.kids[w.inline].data>>
    ELSE IF w.i # Len(s) \/ (h.iscompr /\ w.split # 0) \/ ~h.iskey THEN <<>>
    ELSE <<h.data>>

raxFind(t, s) == LET w == raxLowWalk(t, s) IN FindWalked(s, w, NodeAt(t, w.path))

-----------------------------------------------------------------------------
(* Removal                                                                 *)

\* raxRemoveChildAtPtr: the bits above the child move down
raxRemoveChild(n, j) ==
    IF n.iscompr THEN [n EXCEPT !.iscompr = FALSE, !.chars = <<>>, !.kids = <<>>, !.bits = {}]
    ELSE [n EXCEPT !.chars = RemoveAt(@, j), !.kids = RemoveAt(@, j),
                   !.bits = {b \in @ : b < j} \cup {b - 1 : b \in {x \in @ : x > j}}]

\* Mutant: a key in the middle of a chain is taken for one of its links
LinkedKeys(n) == n.iscompr \/ NodeSize(n) = 1

\* Part of a chain: no key, one child
Linked(n) == ~n.iskey /\ (n.iscompr \/ NodeSize(n) = 1)

\* raxRemoveCleanup: free the childless node at path and the ancestors that only
\* led to it; the node that remains may have to be recompressed
RECURSIVE Dead(_, _)
Dead(t, path) ==
    LET parent == NodeAt(t, Front(path))
    IN  IF Len(path) > 1 /\ Linked(parent) THEN Dead(t, Front(path)) ELSE path

raxRemoveCleanup(t, path) ==
    LET top == Dead(t, path)
        new == raxRemoveChild(NodeAt(t, Front(top)), Last(top))
    IN  IF path = <<>> THEN [tree |-> t, nodes |-> 0, path |-> path, try |-> FALSE]
        ELSE [tree |-> SetAt(t, Front(top), new), nodes |-> Len(path) - Len(top) + 1,
              path |-> Front(top), try |-> NodeSize(new) = 1 /\ ~new.iskey]

\* The upper end of the chain that the node at path is part of
RECURSIVE ChainStart(_, _)
ChainStart(t, path) ==
    IF path # <<>> /\ Linked(NodeAt(t, Front(path))) THEN ChainStart(t, Front(path)) ELSE path

\* The nodes below n that a scan joins to it, n included: as long as they are
\* links of the chain and the characters stay within limit
RECURSIVE Scan(_, _)
Scan(n, limit) ==
    LET next == Last(n.kids)
    IN  IF IsInlineLeaf(n, Len(n.kids)) \/ ~Linked(next) \/ NodeSize(n) + NodeSize(next) > limit
        THEN <<n>>
        ELSE <<n>> \o Scan(next, limit - NodeSize(n))

Unlimited == 1000000
Chars(nodes) == FlattenSeq([x \in DOMAIN nodes |-> nodes[x].chars])

\* The recompression at the end of raxRemove. A first scan sizes the new node and
\* stops at NodeMax; the second one, which copies and frees, does not: if it
\* copies more, it writes past the end of the new node.
Recompress(t, path) ==
    LET start == ChainStart(t, path)
        sized == Scan(NodeAt(t, start), NodeMax)
        copied == Scan(NodeAt(t, start), Unlimited)
        end == Last(copied)
        new == Chain(Empty, Chars(copied), Last(end.kids), IsInlineLeaf(end, Len(end.kids)))
    IN  IF Len(sized) = 1 THEN [tree |-> t, nodes |-> 0, overrun |-> FALSE]
        ELSE [tree |-> SetAt(t, start, new), nodes |-> Len(copied) - 1,
              overrun |-> Len(copied) # Len(sized)]

\* raxRemove, up to the recompression, when left is what is left of the node at path;
\* nodes are those freed
UnlinkedAt(t, path, left) ==
    LET cut == SetAt(t, path, left)
    IN  IF NodeSize(left) = 0 /\ ~left.iskey THEN raxRemoveCleanup(cut, path)
        ELSE [tree |-> cut, nodes |-> 0, path |-> path, try |-> NodeSize(left) = 1 /\ ~left.iskey]

WithoutKey(n, inline) == IF inline # 0 THEN raxRemoveChild(n, inline) ELSE [n EXCEPT !.iskey = FALSE]

Unlinked(t, s) ==
    LET w == raxLowWalk(t, s)
    IN  UnlinkedAt(t, w.path, WithoutKey(NodeAt(t, w.path), w.inline))

-----------------------------------------------------------------------------
(* The iterator: node is the one at path, its stack the nodes above it.    *)
(* An inline leaf is its parent's path with the position child.            *)

Stopped == [on |-> FALSE, eof |-> TRUE, fresh |-> FALSE, path |-> <<>>, child |-> 0,
            inline |-> FALSE, key |-> <<>>, data |-> Null]

\* raxIteratorEnterChild: child j of the iterator's node n
EnterChildOf(n, i, j) ==
    LET kid == n.kids[j]
        down == [i EXCEPT !.key = @ \o (IF n.iscompr THEN n.chars ELSE <<n.chars[j]>>),
                          !.child = j]
    IN  IF IsInlineLeaf(n, j) THEN [down EXCEPT !.inline = TRUE, !.data = kid.data]
        ELSE [down EXCEPT !.path = Append(@, j), !.data = IF kid.iskey THEN kid.data ELSE Null]

raxIteratorEnterChild(t, i, j) == EnterChildOf(NodeAt(t, i.path), i, j)

AtKey(t, i) == i.inline \/ NodeAt(t, i.path).iskey

\* Up to the parent, or only out of the edge already in the key (noup)
Up(t, i, noup) ==
    LET up == IF noup THEN i ELSE [i EXCEPT !.path = Front(@), !.child = 0]
        n == NodeAt(t, up.path)
    IN  [up EXCEPT !.key = SubSeq(@, 1, Len(@) - (IF n.iscompr THEN NodeSize(n) ELSE 1))]

\* Mutant: a node whose only child was not entered yet has nothing to look at
SiblingsTwo(n, noup) == ~n.iscompr /\ NodeSize(n) > 1

\* Whether the node has other children to look at
Siblings(n, noup) == ~n.iscompr /\ NodeSize(n) > (IF noup THEN 0 ELSE 1)

RECURSIVE Forward(_, _, _), Climb(_, _, _, _)

\* raxIteratorNextStep, its outer loop: deeper while there are children
Forward(t, i, orig) ==
    IF NodeAt(t, i.path).chars = <<>> THEN Climb(t, i, FALSE, orig)
    ELSE LET e == raxIteratorEnterChild(t, i, 1)
         IN  IF AtKey(t, e) THEN e ELSE Forward(t, e, orig)

\* and its inner loop: up until there is a greater sibling
Climb(t, i, noup, orig) ==
    LET up == Up(t, i, noup)
        n == NodeAt(t, up.path)
        j == IF i.child # 0 THEN i.child + 1 ELSE FindChildPos(n, Last(i.key))
    IN  IF ~noup /\ i.path = <<>> THEN [orig EXCEPT !.eof = TRUE]
        ELSE IF Siblings(n, noup) /\ j <= NodeSize(n)
             THEN LET e == EnterChildOf(n, up, j) IN IF AtKey(t, e) THEN e ELSE Forward(t, e, orig)
             ELSE Climb(t, IF noup THEN [up EXCEPT !.child = 0] ELSE up, FALSE, orig)

NextStep(t, i, noup) ==
    IF i.eof THEN i
    ELSE IF i.fresh THEN [i EXCEPT !.fresh = FALSE]
    ELSE IF i.inline \/ noup THEN Climb(t, [i EXCEPT !.inline = FALSE], TRUE, i)
    ELSE Forward(t, i, i)

RECURSIVE raxSeekGreatest(_, _), Backward(_, _, _, _), BackAt(_, _, _, _)

raxSeekGreatest(t, i) ==
    LET n == NodeAt(t, i.path)
    IN  IF i.inline \/ n.chars = <<>> THEN i
        ELSE raxSeekGreatest(t, raxIteratorEnterChild(t, i, Len(n.kids)))

\* raxIteratorPrevStep, its loop: the greatest key below the next smaller sibling,
\* or the parent itself
Backward(t, i, noup, orig) ==
    LET up == Up(t, i, noup)
        n == NodeAt(t, up.path)
        j == IF i.child # 0 THEN i.child - 1
             ELSE Cardinality({x \in 1..NodeSize(n) : n.chars[x] < Last(i.key)})
    IN  IF ~noup /\ i.path = <<>> THEN [orig EXCEPT !.eof = TRUE]
        ELSE IF ~Siblings(n, noup) \/ j < 1 THEN BackAt(t, up, noup, orig)
        ELSE LET e == EnterChildOf(n, up, j)
             IN  IF e.inline THEN e ELSE BackAt(t, raxSeekGreatest(t, e), noup, orig)

\* the end of a round of that loop
BackAt(t, at, noup, orig) ==
    LET i == IF noup THEN [at EXCEPT !.child = 0] ELSE at
    IN  IF i.inline THEN i
        ELSE IF NodeAt(t, i.path).iskey THEN [i EXCEPT !.data = NodeAt(t, i.path).data]
        ELSE Backward(t, i, FALSE, orig)

PrevStep(t, i, noup) ==
    IF i.eof THEN i
    ELSE IF i.fresh THEN [i EXCEPT !.fresh = FALSE]
    ELSE Backward(t, [i EXCEPT !.inline = FALSE], noup \/ i.inline, i)

\* The key that leads to the node at path
RECURSIVE KeyTo(_, _)
KeyTo(n, path) ==
    IF path = <<>> THEN <<>>
    ELSE (IF n.iscompr THEN n.chars ELSE <<n.chars[Head(path)]>>)
         \o KeyTo(n.kids[Head(path)], Tail(path))

\* raxSeek after the walk for s, at an inline leaf
SeekInline(t, i, s, w, eq, lt, gt) ==
    LET at == [i EXCEPT !.path = w.path, !.child = w.inline, !.inline = TRUE, !.fresh = FALSE,
                        !.key = SubSeq(s, 1, w.i), !.data = NodeAt(t, w.path).kids[w.inline].data]
    IN  IF eq /\ w.i = Len(s) THEN at
        ELSE IF gt THEN NextStep(t, at, FALSE)
        ELSE IF lt THEN (IF w.i = Len(s) THEN PrevStep(t, at, FALSE) ELSE at)
        ELSE [at EXCEPT !.eof = TRUE]

\* and at a node
SeekNode(t, i, s, w, eq, lt, gt) ==
    LET n == NodeAt(t, w.path)
        at == [i EXCEPT !.path = w.path, !.key = KeyTo(t, w.path), !.fresh = FALSE]
        char == [at EXCEPT !.key = Append(@, s[w.i + 1])]
        over == [at EXCEPT !.key = @ \o n.chars]
        here == [at EXCEPT !.data = n.data]
        max == raxSeekGreatest(t, at)
    IN  IF eq /\ w.i = Len(s) /\ (~n.iscompr \/ w.split = 0) /\ n.iskey
        THEN [at EXCEPT !.key = s, !.data = n.data]
        ELSE IF ~lt /\ ~gt THEN [at EXCEPT !.eof = TRUE]
        ELSE IF w.i # Len(s) /\ ~n.iscompr THEN
            IF lt THEN PrevStep(t, char, TRUE) ELSE NextStep(t, char, TRUE)
        ELSE IF w.i # Len(s) THEN
            IF gt THEN (IF n.chars[w.split + 1] > s[w.i + 1] THEN NextStep(t, at, FALSE)
                        ELSE NextStep(t, over, TRUE))
            ELSE (IF n.chars[w.split + 1] < s[w.i + 1]
                  THEN (IF max.inline THEN max
                        ELSE [max EXCEPT !.data = NodeAt(t, max.path).data])
                  ELSE PrevStep(t, over, TRUE))
        ELSE IF n.iscompr /\ n.iskey /\ w.split # 0 /\ lt THEN here
        ELSE IF gt THEN NextStep(t, at, FALSE) ELSE PrevStep(t, at, FALSE)

raxSeek(t, size, i, op, s) ==
    LET eq == op \in {"=", ">=", "<=", "^"}
        lt == op \in {"<", "<="}
        gt == op \in {">", ">=", "^"}
        key == IF op = "^" THEN <<>> ELSE s
        reset == [i EXCEPT !.on = TRUE, !.eof = FALSE, !.inline = FALSE, !.path = <<>>,
                           !.key = <<>>, !.child = 0]
        w == raxLowWalk(t, key)
        max == raxSeekGreatest(t, reset)
        to == IF size = 0 THEN [reset EXCEPT !.eof = TRUE]
              ELSE IF op = "$" THEN
                  (IF max.inline THEN max ELSE [max EXCEPT !.data = NodeAt(t, max.path).data])
              ELSE IF w.inline # 0 THEN SeekInline(t, reset, key, w, eq, lt, gt)
              ELSE SeekNode(t, reset, key, w, eq, lt, gt)
    IN  [to EXCEPT !.fresh = TRUE]

\* raxIteratorCurrentParentLink for an inline leaf: the position may be unknown
InlineAt(n, i) ==
    IF i.child \in n.bits THEN i.child
    ELSE IF n.iscompr THEN 1
    ELSE CHOOSE j \in 1..NodeSize(n) : n.chars[j] = Last(i.key)

\* raxCompare of the key the iterator is at with s
raxCompare(i, op, s) ==
    LET eq == op \in {"=", "==", ">=", "<="}
        lt == op \in {"<", "<="}
        gt == op \in {">", ">="}
        n == IF Len(s) < Len(i.key) THEN Len(s) ELSE Len(i.key)
        D == {x \in 1..n : i.key[x] # s[x]}
        x == CHOOSE x \in D : \A y \in D : x <= y
    IN  IF op = "=" THEN FALSE
        ELSE IF ~lt /\ ~gt THEN i.key = s
        ELSE IF D = {} THEN
            IF eq /\ Len(s) = Len(i.key) THEN TRUE
            ELSE IF lt THEN Len(i.key) < Len(s) ELSE Len(i.key) > Len(s)
        ELSE IF i.key[x] > s[x] THEN gt ELSE lt

-----------------------------------------------------------------------------
(* The defragmentation iterator: a stack of frames, whose child is the     *)
(* last child entered and state what the node still has to show.  A node   *)
(* that was moved is the same record at the same path.                     *)

DefragFrame(path) == [path |-> path, child |-> 0, state |-> "node"]

\* raxDefragStart
DefragStarted == [stack |-> <<DefragFrame(<<>>)>>, key |-> <<>>, todel |-> 0, kind |-> "none", path |-> <<>>,
                  child |-> 0, inline |-> FALSE, ptr |-> Null, eof |-> FALSE]

DelChars(s, n) == SubSeq(s, 1, Len(s) - n)
EdgeLen(n) == IF n.iscompr THEN NodeSize(n) ELSE 1

RECURSIVE DefragLoop(_, _)
DefragLoop(t, i) ==
    LET f == Last(i.stack)
        top == Len(i.stack)
        n == NodeAt(t, f.path)
        j == f.child + 1
        edge == IF n.iscompr THEN n.chars ELSE <<n.chars[j]>>
        item == [i EXCEPT !.path = f.path, !.inline = FALSE]
        entered == [i EXCEPT !.stack[top].child = j]
    IN  IF f.state = "node" THEN [item EXCEPT !.stack[top].state = "data", !.kind = "node"]
        ELSE IF f.state = "data" THEN
            LET shown == [item EXCEPT !.stack[top].state = "children"]
            IN  IF n.iskey /\ n.data # Null THEN [shown EXCEPT !.kind = "data", !.ptr = n.data]
                ELSE DefragLoop(t, [i EXCEPT !.stack[top].state = "children"])
        ELSE IF f.child = Len(n.kids) THEN
            IF top = 1 THEN [i EXCEPT !.eof = TRUE]
            ELSE DefragLoop(t, [i EXCEPT !.stack = Front(@),
                                         !.key = DelChars(@, EdgeLen(NodeAt(t, Front(f.path))))])
        ELSE IF ~IsInlineLeaf(n, j) THEN
            DefragLoop(t, [entered EXCEPT !.key = @ \o edge, !.stack = Append(@, DefragFrame(Append(f.path, j)))])
        ELSE IF n.kids[j].data = Null THEN DefragLoop(t, entered)
        ELSE [entered EXCEPT !.key = @ \o edge, !.todel = Len(edge), !.kind = "data", !.path = f.path,
                             !.child = j, !.inline = TRUE, !.ptr = n.kids[j].data]

\* raxDefragNext
DefragNext(t, i) == DefragLoop(t, [i EXCEPT !.key = DelChars(@, i.todel), !.todel = 0])

\* raxDefragReplaceData
DefragReplaceData(t, i, d) ==
    IF i.inline THEN SetAt(t, Append(i.path, i.child), RawValue(d))
    ELSE SetAt(t, i.path, [NodeAt(t, i.path) EXCEPT !.data = d])

\* A whole pass from i on that moves every value it shows to d: [tree, items]
RECURSIVE DefragPass(_, _, _)
DefragPass(t, i, d) ==
    LET e == DefragNext(t, i)
        Then(rest) == [rest EXCEPT !.items = <<[kind |-> e.kind, key |-> e.key, ptr |-> e.ptr]>> \o @]
    IN  IF e.eof THEN [tree |-> t, items |-> <<>>]
        ELSE Then(DefragPass(IF e.kind = "data" THEN DefragReplaceData(t, e, d) ELSE t, e, d))

-----------------------------------------------------------------------------
(* The calls                                                               *)

RaxInit ==
    /\ head = Empty /\ numele = 0 /\ numnodes = 1
    /\ it = Stopped /\ overrun = FALSE

\* raxInsert and raxTryInsert. An iterator is not used past a change.
Insert(s, d, overwrite) ==
    /\ ~overrun
    /\ \E r \in {raxGenericInsert(head, s, d, overwrite)} :
          /\ head' = r.tree
          /\ numnodes' = numnodes + r.nodes
          /\ numele' = numele + (IF r.added THEN 1 ELSE 0)
    /\ it' = Stopped
    /\ UNCHANGED overrun

\* raxRemove of a key that is there
RemoveKey(s) ==
    /\ ~overrun /\ raxFind(head, s) # <<>>
    /\ \E u \in {Unlinked(head, s)} :
           \/ /\ u.try
              /\ LET r == Recompress(u.tree, u.path)
                 IN  /\ head' = r.tree /\ numnodes' = numnodes - u.nodes - r.nodes
                     /\ overrun' = r.overrun
           \/ \* nothing to recompress, or no memory for the new node
              /\ head' = u.tree /\ numnodes' = numnodes - u.nodes
              /\ UNCHANGED overrun
    /\ numele' = numele - 1
    /\ it' = Stopped

RemoveMissing(s) ==
    /\ ~overrun /\ raxFind(head, s) = <<>>
    /\ UNCHANGED raxVars

RECURSIVE NodeCount(_)
NodeCount(n) ==
    IF n.raw THEN 0
    ELSE 1 + FoldLeft(LAMBDA x, k : x + NodeCount(k), 0, n.kids)

\* raxFree and a new tree
Free ==
    /\ ~overrun /\ head # Empty
    /\ head' = Empty /\ numele' = 0 /\ numnodes' = 1
    /\ it' = Stopped /\ UNCHANGED overrun

SeekTo(op, s) ==
    /\ ~overrun
    /\ it' = raxSeek(head, numele, it, op, s)
    /\ UNCHANGED <<head, numele, numnodes, overrun>>

raxNext ==
    /\ ~overrun /\ it.on /\ it' = NextStep(head, it, FALSE)
    /\ UNCHANGED <<head, numele, numnodes, overrun>>

raxPrev ==
    /\ ~overrun /\ it.on /\ it' = PrevStep(head, it, FALSE)
    /\ UNCHANGED <<head, numele, numnodes, overrun>>

raxIteratorSetData(d) ==
    /\ ~overrun /\ it.on /\ ~it.eof
    /\ LET n == NodeAt(head, it.path)
       IN  head' = IF it.inline
                   THEN SetAt(head, Append(it.path, InlineAt(n, it)), RawValue(d))
                   ELSE SetAt(head, it.path, [n EXCEPT !.data = d])
    /\ it' = [it EXCEPT !.data = d]
    /\ UNCHANGED <<numele, numnodes, overrun>>

=============================================================================
