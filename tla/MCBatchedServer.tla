--------------------------- MODULE MCBatchedServer ---------------------------
(* Jobs are numbered: even and odd ones belong to different conversations  *)
(* when there are two, and their prompts have different lengths.           *)
EXTENDS BatchedServer

MCConv == [j \in Jobs |-> CHOOSE c \in Convs : Cardinality(Convs) = 1 \/ c = j % 2]
ShortPrompts == [j \in Jobs |-> 1]
MixedPrompts == [j \in Jobs |-> 1 + (j % 2)]
=============================================================================
