----------------------------- MODULE MCStructures -----------------------------
(***************************************************************************)
(* The shared structures of the server and the agent that share no state   *)
(* with each other, side by side in one run: a behaviour runs the part it  *)
(* starts in and leaves the others at rest.                                *)
(*                                                                         *)
(* queue: more requests than slots, in every order of arrival and with     *)
(* every preference between the slots.  disk: servers that use a cache     *)
(* directory one after the other.  models: three clients ask for two       *)
(* models, which differ in nothing else.  calls: three tool calls, of      *)
(* which a message has one or two, in a memory with room for two.  tree:    *)
(* the keys of MCRax.                                                      *)
(***************************************************************************)
EXTENDS MCKvCache, JobQueue, ModelCatalog, ToolMemory, MCRax, KvStore

VARIABLE part

\* ToolMemory: a small and a large text
TwoTexts == [t \in {1, 4} |-> t]

-----------------------------------------------------------------------------
(* KvStore: two bytes and a token that spells both, so that a text may be  *)
(* cut inside a token; two engines of one model that differ in the context *)
(* and one with another quantization.                                      *)

Spelling == <<<<1>>, <<2>>, <<1, 2>>>>
StoreTexts == UNION {[1..n -> {1, 2}] : n \in 0..3}
Greedy[t \in StoreTexts] ==
    IF t = <<>> THEN <<>>
    ELSE IF Len(t) > 1 /\ t[1] = 1 /\ t[2] = 2 THEN <<3>> \o Greedy[SubSeq(t, 3, Len(t))]
    ELSE <<t[1]>> \o Greedy[Tail(t)]
Engine(quant, ctx) == [model |-> 1, quant |-> quant, ctx |-> ctx]
StoreEngines == {Engine(1, 1), Engine(1, 2), Engine(2, 2)}
SessionTokens == {<<3>>, <<1, 2, 1>>}
Prompted == {<<1, 2, 1>>}

-----------------------------------------------------------------------------

AtRest(p, v, S) == IF part = p THEN TRUE ELSE v = CHOOSE x \in S : TRUE

StructuresInit ==
    /\ part \in {"queue", "disk", "models", "calls", "tree", "store"}
    /\ QueueInit /\ KvInit /\ TmInit /\ RaxMapInit
    /\ AtRest("models", want, [Clients -> {NoModel}]) /\ resident = CHOOSE m \in Models : TRUE
    /\ AtRest("models", kvDir, {resident}) /\ McInit
    /\ AtRest("store", engine, Engines) /\ KsInit

Still(p, v) == IF part = p THEN TRUE ELSE UNCHANGED v
OthersStill ==
    /\ Still("queue", queueVars) /\ Still("disk", kvVars) /\ Still("models", mcVars)
    /\ Still("calls", tmVars) /\ Still("tree", mapOf) /\ Still("store", ksVars)
    /\ UNCHANGED part

StructuresNext ==
    \/ part = "queue" /\ QueueNext /\ OthersStill
    \/ part = "disk" /\ KvNext /\ OthersStill
    \/ part = "models" /\ McNext /\ OthersStill
    \/ part = "calls" /\ TmNext /\ OthersStill
    \/ part = "tree" /\ RaxMapNext /\ OthersStill
    \/ part = "store" /\ KsNext /\ OthersStill

StructuresSpec ==
    /\ StructuresInit
    /\ [][StructuresNext]_<<queueVars, kvVars, mcVars, tmVars, mapOf, ksVars, part>>
=============================================================================
