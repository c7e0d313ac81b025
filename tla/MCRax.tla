-------------------------------- MODULE MCRax --------------------------------
(***************************************************************************)
(* A small radix tree: the empty key, single bytes that overflow the       *)
(* bitmap of two inline slots, a key inside another's chain, and a key     *)
(* longer than a node can say, whose chain is therefore kept in two nodes. *)
(***************************************************************************)
EXTENDS RaxMap

RaxKeys == {<<>>, <<1>>, <<2>>, <<3>>, <<1, 2>>, <<1, 1, 2, 1>>}
RaxSeeks == {<<"^", <<>>>>, <<"$", <<>>>>} \cup
    ({">", ">=", "<", "<=", "="} \X {<<1>>, <<1, 1>>}) \cup ({">", "<="} \X {<<1, 3>>})
=============================================================================
