------------------------------- MODULE MCServer -------------------------------
(***************************************************************************)
(* The scheduler of the model and the directory of the disk cache, side by *)
(* side: a behaviour runs the part it starts in and leaves the other at    *)
(* rest.                                                                   *)
(*                                                                         *)
(* turns: two slots over a short context; every caller is possible.        *)
(* directory: two servers of different contexts share it at any time, with *)
(* room for one of two equal checkpoints.                                  *)
(***************************************************************************)
EXTENDS ModelTurns, MCKvCache

VARIABLE part

PartsInit == part \in {"turns", "directory"} /\ Init /\ KvInit

PartsNext ==
    \/ part = "turns" /\ Next /\ UNCHANGED <<kvVars, part>>
    \/ part = "directory" /\ KvNext /\ UNCHANGED <<vars, part>>

PartsSpec == PartsInit /\ [][PartsNext]_<<vars, kvVars, part>>

\* No guard of ModelTurns and no property of this run reads the intact and
\* logits fields of a session, so states that differ in them only are the same.
Guards == <<part, kvVars, flagVars, slotVars, threadVars, decoderVars, inferenceMu, asleep,
            [s \in Slots |-> <<sess[s].conv, sess[s].len, sess[s].valid>>]>>
=============================================================================
