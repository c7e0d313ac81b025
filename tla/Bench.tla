------------------------------- MODULE Bench -------------------------------
(***************************************************************************)
(* p36-bench (p36_bench.c): one session is prefilled to a rising sequence  *)
(* of context frontiers.  At each one the program prefills the missing     *)
(* part of the prompt, decodes gen_tokens tokens, puts the session back to *)
(* what it was before the decode, and writes a CSV row that divides        *)
(* frontier - previous by the time of the prefill.  The row is only true   *)
(* if the prefill computed exactly those tokens.                           *)
(*                                                                         *)
(* The checkpoint is the sequence of the tokens the session holds: a       *)
(* prompt token is its position, a generated token is 0 unless the model   *)
(* happens to predict the prompt.  Seconds and formatting are left out.    *)
(***************************************************************************)
EXTENDS Integers, Sequences, FiniteSets

CONSTANTS MaxCtx,       \* bound on --ctx-max
          MaxGen,       \* bound on --gen-tokens
          MaxIncr,      \* bound on --step-incr
          Muls,         \* values of --step-mul, as <<numerator, denominator>>
          Draft         \* the most tokens one speculative step accepts

ASSUME BenchAssumption ==
    /\ MaxCtx \in Nat /\ MaxGen \in Nat /\ MaxIncr \in Nat /\ Draft \in Nat
    /\ Muls \subseteq (Nat \ {0}) \X (Nat \ {0})

VARIABLES bench,        \* the options after parse_options
          ckpt,         \* p36_session_tokens: the session's checkpoint
          saved,        \* the snapshot taken before the decode
          at            \* the loop's locals, and the rows written

benchVars == <<bench, ckpt, saved, at>>

One == <<1, 1>>

(* The options parse_options lets through.  ctx_alloc is its default or    *)
(* any larger value; one more token is enough to tell the two apart.       *)
ParsedOptions ==
    {c \in [start : 1..MaxCtx, max : 1..MaxCtx, incr : 0..MaxIncr,
            mul : Muls, gen : 0..MaxGen, alloc : 1..MaxCtx + MaxGen + 2,
            spec : BOOLEAN, prompt : 1..MaxCtx + 1] :
        /\ c.start <= c.max
        /\ c.mul[1] >= c.mul[2]
        /\ c.mul = One => c.incr > 0
        /\ c.alloc > c.max + c.gen
        /\ c.alloc <= c.max + c.gen + 2}

Prompt(n) == [i \in 1..n |-> i]

CeilTimes(cur, mul) == (cur * mul[1] + mul[2] - 1) \div mul[2]

NextFrontier(c, cur) ==
    LET plain == IF c.mul = One THEN cur + c.incr
                 ELSE IF CeilTimes(cur, c.mul) <= cur THEN cur + 1
                      ELSE CeilTimes(cur, c.mul)
    IN IF cur >= c.max \/ plain > c.max THEN c.max ELSE plain

BenchInit ==
    /\ bench \in ParsedOptions
    /\ ckpt = <<>>
    /\ saved = <<>>
    /\ at = [pc |-> "begin", frontier |-> bench.start, previous |-> 0,
             computed |-> 0, gen |-> 0, rows |-> <<>>, rc |-> 0]

BenchFail == at' = [at EXCEPT !.pc = "done", !.rc = 1]

(* Opening the engine, the session or the output may fail; so does a       *)
(* prompt shorter than the last frontier.                                  *)
Begin ==
    /\ at.pc = "begin"
    /\ \/ BenchFail
       \/ bench.prompt >= bench.max /\ at' = [at EXCEPT !.pc = "sync"]
    /\ UNCHANGED <<bench, ckpt, saved>>

(* p36_session_sync keeps a checkpoint the prefix extends and computes the *)
(* rest; any other checkpoint is dropped and the prefix computed whole.    *)
Keeps(prefix) ==
    IF Len(ckpt) <= Len(prefix) /\ ckpt = SubSeq(prefix, 1, Len(ckpt))
    THEN Len(ckpt) ELSE 0

Sync ==
    /\ at.pc = "sync"
    /\ \/ ckpt' = Prompt(at.frontier)
          /\ at' = [at EXCEPT !.pc = "snap",
                    !.computed = at.frontier - Keeps(Prompt(at.frontier))]
       \/ BenchFail /\ ckpt' \in {ckpt, <<>>}
    /\ UNCHANGED <<bench, saved>>

(* The logits file and the snapshot, each of which may fail.               *)
Snapshot ==
    /\ at.pc = "snap"
    /\ \/ BenchFail /\ UNCHANGED saved
       \/ at' = [at EXCEPT !.pc = "decode", !.gen = 0]
          /\ saved' = IF bench.gen > 0 THEN ckpt ELSE saved
    /\ UNCHANGED <<bench, ckpt>>

Full == Len(ckpt) + 1 >= bench.alloc

Accepted == IF bench.spec
            THEN 1..(IF bench.gen - at.gen < Draft THEN bench.gen - at.gen ELSE Draft)
            ELSE {1}

Generated(n) == {ckpt \o s : s \in
    {t \in [1..n -> 0..Len(ckpt) + n] : \A i \in 1..n : t[i] \in {0, Len(ckpt) + i}}}

DecodeStep ==
    /\ at.pc = "decode" /\ at.gen < bench.gen
    /\ \/ BenchFail /\ UNCHANGED ckpt
       \/ ~Full /\ \E n \in Accepted : /\ ckpt' \in Generated(n)
                                       /\ at' = [at EXCEPT !.gen = at.gen + n]
    /\ UNCHANGED <<bench, saved>>

\* Mutant: the session is left where the decode ended
RestoredNever == ckpt

(* The snapshot put back after the decode.                                 *)
Restored == IF bench.gen > 0 THEN saved ELSE ckpt

Row ==
    /\ at.pc = "decode" /\ at.gen >= bench.gen
    /\ \/ BenchFail /\ bench.gen > 0 /\ UNCHANGED ckpt
       \/ ckpt' = Restored
          /\ at' = [at EXCEPT
                !.rows = Append(at.rows, [ctx |-> at.frontier,
                                          prefill |-> at.frontier - at.previous,
                                          computed |-> at.computed,
                                          gen |-> at.gen]),
                !.previous = at.frontier,
                !.pc = IF at.frontier >= bench.max THEN "done" ELSE "sync",
                !.frontier = NextFrontier(bench, at.frontier)]
    /\ UNCHANGED <<bench, saved>>

BenchNext == Begin \/ Sync \/ Snapshot \/ DecodeStep \/ Row

BenchSpec == BenchInit /\ [][BenchNext]_benchVars

(* Every row reports the tokens its prefill really computed and a decode   *)
(* of exactly gen_tokens (main, p36_bench.c:627-737): the frontiers rise   *)
(* strictly, a run that succeeds ends with ctx_max, and the room           *)
(* parse_options leaves makes the "would exceed allocated context" exit of *)
(* the decode loop unreachable.                                            *)
RowsTrue ==
    /\ \A i \in DOMAIN at.rows :
          /\ at.rows[i].computed = at.rows[i].prefill
          /\ at.rows[i].gen = bench.gen
          /\ i > 1 => at.rows[i].ctx > at.rows[i - 1].ctx
    /\ at.pc = "done" /\ at.rc = 0 => at.rows[Len(at.rows)].ctx = bench.max
    /\ at.pc = "decode" /\ at.gen < bench.gen => ~Full
=============================================================================
