------------------------------ MODULE OrderedMap ------------------------------
(***************************************************************************)
(* What a radix tree promises: a map from byte strings to data, and a      *)
(* cursor over its keys in lexicographic order.  RaxMap runs one beside it. *)
(***************************************************************************)
EXTENDS Naturals, Sequences, FiniteSets, Functions

CONSTANTS
    Strings,      \* the strings that may be keys
    Data,      \* what may be stored with a key
    NoString,     \* the cursor is past the end
    Ops        \* the seeks tried: pairs of an operator and a string

VARIABLES
    map,       \* a function whose domain is the set of keys
    cursor,    \* the key the cursor is at
    fresh      \* the next step returns cursor itself: it was just seeked

mapVars == <<map, cursor, fresh>>

MapInit == map = <<>> /\ cursor = NoString /\ fresh = FALSE

\* Lexicographic order: a proper prefix comes first
Less(a, b) ==
    \E n \in 0..Len(b) :
       /\ n <= Len(a) /\ SubSeq(a, 1, n) = SubSeq(b, 1, n)
       /\ n < Len(b) /\ (n = Len(a) \/ (n < Len(a) /\ a[n + 1] < b[n + 1]))

\* The smallest and the greatest string of a set; NoString if it is empty
Least(S) == IF S = {} THEN NoString ELSE CHOOSE k \in S : \A j \in S \ {k} : Less(k, j)
Greatest(S) == IF S = {} THEN NoString ELSE CHOOSE k \in S : \A j \in S \ {k} : Less(j, k)

Above(k) == {j \in DOMAIN map : Less(k, j)}
Below(k) == {j \in DOMAIN map : Less(j, k)}

\* A change of the map invalidates the cursor
Bind(k, d) == map' = [j \in DOMAIN map \cup {k} |-> IF j = k THEN d ELSE map[j]]
CursorClosed == cursor' = NoString /\ fresh' = FALSE

Assign(k, d, overwrite) ==
    /\ IF overwrite \/ k \notin DOMAIN map THEN Bind(k, d) ELSE UNCHANGED map
    /\ CursorClosed
Delete(k) ==
    IF k \in DOMAIN map THEN map' = Restrict(map, DOMAIN map \ {k}) /\ CursorClosed
    ELSE UNCHANGED mapVars
Wipe == map' = <<>> /\ CursorClosed

\* The key a seek finds
Target(op, k) ==
    CASE op = "^"  -> Least(DOMAIN map)
      [] op = "$"  -> Greatest(DOMAIN map)
      [] op = "="  -> Least(DOMAIN map \cap {k})
      [] op = ">=" -> Least(Above(k) \cup (DOMAIN map \cap {k}))
      [] op = ">"  -> Least(Above(k))
      [] op = "<=" -> Greatest(Below(k) \cup (DOMAIN map \cap {k}))
      [] op = "<"  -> Greatest(Below(k))

Seek(op, k) ==
    /\ cursor' = Target(op, k) /\ fresh' = (cursor' # NoString)
    /\ UNCHANGED map

\* A cursor that was just seeked stays where it is once; past the end it stays
Step(to) ==
    /\ cursor' = (IF fresh \/ cursor = NoString THEN cursor ELSE to) /\ fresh' = FALSE
    /\ UNCHANGED map
StepUp == Step(Least(Above(cursor)))
StepDown == Step(Greatest(Below(cursor)))

\* The data of the current key is replaced in place
Update(d) == cursor # NoString /\ Bind(cursor, d) /\ UNCHANGED <<cursor, fresh>>
=============================================================================
