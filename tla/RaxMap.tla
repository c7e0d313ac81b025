-------------------------------- MODULE RaxMap --------------------------------
(***************************************************************************)
(* A radix tree and the ordered map it stands for, under the same calls.   *)
(***************************************************************************)
EXTENDS Rax, OrderedMap

mapOf == <<raxVars, mapVars>>

RaxMapInit == RaxInit /\ MapInit

RaxMapNext ==
    \/ \E s \in Strings, d \in Data, overwrite \in BOOLEAN :
          Insert(s, d, overwrite) /\ Assign(s, d, overwrite)
    \/ \E s \in Strings : (RemoveKey(s) \/ RemoveMissing(s)) /\ Delete(s)
    \/ Free /\ Wipe
    \/ \E o \in Ops : SeekTo(o[1], o[2]) /\ Seek(o[1], o[2])
    \/ raxNext /\ StepUp
    \/ raxPrev /\ StepDown
    \/ \E d \in Data : raxIteratorSetData(d) /\ Update(d)

RaxMapSpec == RaxMapInit /\ [][RaxMapNext]_mapOf

-----------------------------------------------------------------------------

\* What the tree finds, for every key
Contents ==
    LET found == [s \in Strings |-> raxFind(head, s)]
    IN  [s \in {k \in Strings : found[k] # <<>>} |-> found[s][1]]

\* An insertion adds its key and no other, a removal takes its key and no other,
\* through splits, inline values that spill out of the bitmap and recompressions
\* (raxGenericInsert, raxRemove, raxFind); numele counts the keys, and raxSeek
\* takes a tree with numele = 0 for empty.  Up to the first overrun.
TreeIsMap == ~overrun => Contents = map /\ numele = Cardinality(DOMAIN map)

\* Seeks and steps find the neighbour in lexicographic order and show its data,
\* whatever nodes, inline values and saved child positions the iterator went
\* through (raxSeek, raxIteratorNextStep, raxIteratorPrevStep); raxCompare has the
\* same order as the tree.
CursorOrdered ==
    it.on /\ ~overrun =>
       /\ it.eof <=> cursor = NoString
       /\ ~it.eof => /\ it.key = cursor /\ it.data = map[cursor] /\ it.fresh = fresh
                     /\ \A s \in Strings :
                           /\ raxCompare(it, "<", s) = Less(cursor, s) /\ raxCompare(it, ">", s) = Less(s, cursor)
                           /\ raxCompare(it, "<=", s) = ~Less(s, cursor) /\ raxCompare(it, ">=", s) = ~Less(cursor, s)

RECURSIVE Nodes(_)
Nodes(n) == IF n.raw THEN {} ELSE {n} \cup UNION {Nodes(n.kids[j]) : j \in DOMAIN n.kids}

\* pass has shown every node and every value once, each value under its key, and has moved it
PassExact(pass, moved) ==
    LET values == SelectSeq(pass.items, LAMBDA x : x.kind = "data")
        kept == {s \in DOMAIN map : map[s] # Null}
    IN  /\ Len(pass.items) - Len(values) = numnodes
        /\ {<<v.key, v.ptr>> : v \in Range(values)} = {<<s, map[s]>> : s \in kept}
        /\ Len(values) = Cardinality(kept)
        /\ \A s \in Strings : raxFind(pass.tree, s) =
               IF s \in kept THEN <<moved>> ELSE IF s \in DOMAIN map THEN <<Null>> ELSE <<>>

\* The bitmap of every node marks exactly the slots that hold a value instead of
\* a node, also after children moved past its last bit; a compressed node is
\* never longer than its header can say, and numnodes counts the nodes, as
\* raxFree asserts (raxAddChildNoAlloc, raxRemoveChildAtPtr, raxRemove).  A
\* defragmentation pass that moves what it is shown (raxDefragNext,
\* raxDefragReplaceData) shows every node and every value once, each value under
\* its key, and leaves the keys as they are.  This holds until a recompression
\* overruns its node, which RecompressionFits is about.
NodesExact == ~overrun =>
    /\ \A n \in Nodes(head) :
          /\ n.bits = {j \in DOMAIN n.kids : n.kids[j].raw}
          /\ n.bits \subseteq 1..InlineSlots
          /\ n.iscompr => NodeSize(n) \in 2..NodeMax
    /\ numnodes = NodeCount(head)
    /\ LET moved == CHOOSE d \in 0..Cardinality(Data) : d \notin Data
       IN  PassExact(DefragPass(head, DefragStarted, moved), moved)

\* The recompression of raxRemove copies no more into the new node than the node
\* was allocated for: "Stop here if going to the next node would result into a
\* compressed node larger than h->size can hold", says the scan that sizes it.
\* It is violated: the scan that copies does not stop there, so removing a key
\* from a chain of more than NodeMax characters copies the whole chain.
RecompressionFits == ~overrun
=============================================================================
