--------------------------- MODULE ProgramsProofs ---------------------------
(***************************************************************************)
(* p36-bench, for every option parse_options lets through, every length of *)
(* the prompt and every token the model may predict; the quantizer, for    *)
(* every input, number of threads, chunk size and alignment, and for       *)
(* failures and kills at any point; the SSD streaming plan, for every      *)
(* model file, memory size and budget; the chat of the command-line client, *)
(* for every image, context size and n_predict and any number of turns.    *)
(***************************************************************************)
EXTENDS Bench, Quantize, Streaming, Cli, Induction, SequenceTheorems,
        FiniteSetTheorems

-----------------------------------------------------------------------------
(* p36-bench                                                               *)

RowRecord == [ctx : Nat, prefill : Int, computed : Int, gen : Nat]

BenchTypes ==
    /\ bench \in ParsedOptions
    /\ ckpt \in Seq(Nat) /\ saved \in Seq(Nat)
    /\ at \in [pc : {"begin", "sync", "snap", "decode", "done"}, frontier : Nat, previous : Nat,
               computed : Int, gen : Nat, rows : Seq(RowRecord), rc : {0, 1}]

\* The rows that are written are true, and the frontiers rise
RowsWritten ==
    \A i \in DOMAIN at.rows :
        /\ at.rows[i].computed = at.rows[i].prefill
        /\ at.rows[i].gen = bench.gen
        /\ i > 1 => at.rows[i].ctx > at.rows[i - 1].ctx

\* previous is the frontier of the last row, and the next one is beyond it
Rising ==
    /\ at.pc # "done" => at.rc = 0 /\ at.previous < at.frontier /\ at.frontier <= bench.max
    /\ at.rows # <<>> /\ at.rc = 0 => at.rows[Len(at.rows)].ctx = at.previous
    /\ at.pc = "done" /\ at.rc = 0 => at.rows # <<>> /\ at.previous = bench.max

\* What the session holds: the prompt up to the last frontier before a prefill, up to this one
\* after it, and gen tokens more in a decode, whose snapshot still holds the prompt alone
SessionAt ==
    /\ at.pc \in {"begin", "sync"} => ckpt = Prompt(at.previous)
    /\ at.pc \in {"snap", "decode"} => at.computed = at.frontier - at.previous
    /\ at.pc = "snap" => ckpt = Prompt(at.frontier)
    /\ at.pc = "decode" =>
          /\ at.gen <= bench.gen /\ Len(ckpt) = at.frontier + at.gen
          /\ IF bench.gen > 0 THEN saved = Prompt(at.frontier) ELSE ckpt = Prompt(at.frontier)

BenchInv == BenchTypes /\ RowsWritten /\ Rising /\ SessionAt

-----------------------------------------------------------------------------
(* The prompt and the frontiers                                            *)

\* A prefix of the prompt is a sequence of its first n tokens
LEMMA PromptFacts ==
    ASSUME NEW n \in Nat
    PROVE  /\ Prompt(n) \in Seq(Nat) /\ Len(Prompt(n)) = n
           /\ \A k \in 0..n : SubSeq(Prompt(n), 1, k) = Prompt(k)
<1>1. \A k \in Nat : Prompt(k) \in Seq(Nat) /\ Len(Prompt(k)) = k /\ \A i \in 1..k : Prompt(k)[i] = i
  BY DEF Prompt
<1>2. ASSUME NEW k \in 0..n PROVE SubSeq(Prompt(n), 1, k) = Prompt(k)
  <2>1. \A i \in 1..k : Prompt(n)[i] = i /\ Prompt(n)[i] \in Nat
    BY <1>1
  <2>2. /\ SubSeq(Prompt(n), 1, k) \in Seq(Nat) /\ Len(SubSeq(Prompt(n), 1, k)) = k
        /\ \A i \in 1..k : SubSeq(Prompt(n), 1, k)[i] = i
    BY <2>1, SubSeqProperties
  <2>3. /\ Prompt(k) \in Seq(Nat) /\ Len(Prompt(k)) = Len(SubSeq(Prompt(n), 1, k))
        /\ \A i \in 1..Len(Prompt(k)) : Prompt(k)[i] = SubSeq(Prompt(n), 1, k)[i]
    BY <1>1, <2>2
  <2> HIDE DEF Prompt
  <2> QED BY <2>2, <2>3, SeqEqual
<1> QED BY <1>1, <1>2

\* Nothing is the prompt up to 0
LEMMA PromptEmpty == Prompt(0) = <<>>
<1>1. Prompt(0) \in Seq(Nat) /\ Len(Prompt(0)) = 0
  BY PromptFacts
<1> QED BY <1>1

\* A row appended leaves the rows before it
LEMMA RowAppended ==
    ASSUME NEW s \in Seq(RowRecord), NEW e \in RowRecord
    PROVE  /\ Append(s, e) \in Seq(RowRecord) /\ Len(Append(s, e)) = Len(s) + 1
           /\ \A i \in 1..Len(s) : Append(s, e)[i] = s[i]
           /\ Append(s, e)[Len(s) + 1] = e /\ Append(s, e) # <<>>
<1>1. Append(s, e) \in Seq(RowRecord) /\ Len(Append(s, e)) = Len(s) + 1
  OBVIOUS
<1>2. \A i \in 1..Len(s) : Append(s, e)[i] = s[i]
  OBVIOUS
<1>3. Append(s, e)[Len(s) + 1] = e
  OBVIOUS
<1>4. Append(s, e) # <<>>
  BY AppendProperties, Zenon
<1> QED BY <1>1, <1>2, <1>3, <1>4

\* What parse_options guarantees
LEMMA OptionFacts ==
    ASSUME NEW c \in ParsedOptions
    PROVE  /\ c.start \in Nat /\ c.start >= 1 /\ c.max \in Nat /\ c.start <= c.max
           /\ c.incr \in Nat /\ c.gen \in Nat /\ c.alloc \in Nat /\ c.alloc > c.max + c.gen
           /\ c.mul[1] \in Nat /\ c.mul[2] \in Nat /\ c.mul[2] > 0
           /\ c.mul = One => c.incr > 0
BY BenchAssumption DEF ParsedOptions

\* next_frontier rises strictly until it reaches ctx_max, also where the product rounds to itself
LEMMA FrontierRises ==
    ASSUME NEW c \in ParsedOptions, NEW cur \in Nat, cur < c.max
    PROVE  NextFrontier(c, cur) \in Nat /\ NextFrontier(c, cur) > cur /\ NextFrontier(c, cur) <= c.max
<1> DEFINE times == CeilTimes(cur, c.mul)
<1>1. times \in Int
  <2> DEFINE x == cur * c.mul[1] + c.mul[2] - 1
  <2>1. x \in Int /\ c.mul[2] \in Nat /\ c.mul[2] > 0
    BY OptionFacts
  <2> HIDE DEF x
  <2>2. x \div c.mul[2] \in Int
    BY <2>1
  <2> QED BY <2>2 DEF CeilTimes, x
<1> HIDE DEF times
<1> QED BY <1>1, OptionFacts DEF NextFrontier, times

-----------------------------------------------------------------------------
(* The loop                                                                *)

\* A failure keeps the rows that were written
LEMMA FailKeeps ==
    ASSUME BenchInv, BenchFail, bench' = bench, ckpt' \in Seq(Nat), saved' \in Seq(Nat)
    PROVE  BenchInv'
<1>1. /\ at'.pc = "done" /\ at'.rc = 1 /\ at'.rows = at.rows
      /\ BenchTypes'
  BY DEF BenchInv, BenchTypes, BenchFail
<1>2. RowsWritten'
  BY <1>1 DEF BenchInv, RowsWritten
<1> QED BY <1>1, <1>2 DEF BenchInv, Rising, SessionAt

\* The prefill computes what is missing since the last frontier
LEMMA SyncKeeps ==
    ASSUME BenchInv, Sync
    PROVE  BenchInv'
<1>0. BenchTypes /\ ckpt \in Seq(Nat) /\ saved \in Seq(Nat) /\ bench' = bench /\ saved' = saved
      /\ at.frontier \in Nat /\ at.previous \in Nat /\ at.pc = "sync"
  BY DEF BenchInv, BenchTypes, Sync
<1>1. CASE BenchFail /\ ckpt' \in {ckpt, <<>>}
  <2>1. ckpt' \in Seq(Nat)
    BY <1>0, <1>1, EmptySeq
  <2> QED BY <1>0, <1>1, <2>1, FailKeeps
<1>2. CASE /\ ckpt' = Prompt(at.frontier)
           /\ at' = [at EXCEPT !.pc = "snap", !.computed = at.frontier - Keeps(Prompt(at.frontier))]
  <2>1. ckpt = Prompt(at.previous) /\ at.previous < at.frontier
    BY <1>0 DEF BenchInv, SessionAt, Rising
  <2>2. Keeps(Prompt(at.frontier)) = at.previous
    <3>1. Len(ckpt) = at.previous /\ Len(Prompt(at.frontier)) = at.frontier
      BY <1>0, <2>1, PromptFacts
    <3>2. at.previous \in 0..at.frontier
      BY <1>0, <2>1
    <3>3. SubSeq(Prompt(at.frontier), 1, at.previous) = ckpt
      BY <1>0, <2>1, <3>2, PromptFacts
    <3> QED BY <1>0, <2>1, <3>1, <3>3 DEF Keeps
  <2>3. /\ at'.pc = "snap" /\ at'.computed = at.frontier - at.previous
        /\ at'.frontier = at.frontier /\ at'.previous = at.previous /\ at'.rows = at.rows /\ at'.rc = at.rc
    BY <1>0, <1>2, <2>2 DEF BenchTypes
  <2>4. BenchTypes'
    <3>1. ckpt' \in Seq(Nat) /\ at.frontier - at.previous \in Int
      BY <1>0, <1>2, PromptFacts
    <3> QED BY <1>0, <1>2, <2>2, <3>1 DEF BenchTypes
  <2>5. RowsWritten' /\ Rising'
    BY <1>0, <2>3 DEF BenchInv, RowsWritten, Rising
  <2>6. SessionAt'
    BY <1>2, <2>3 DEF SessionAt
  <2> QED BY <2>4, <2>5, <2>6 DEF BenchInv
<1> QED BY <1>1, <1>2 DEF Sync

\* The snapshot holds the prompt alone
LEMMA SnapshotKeeps ==
    ASSUME BenchInv, Snapshot
    PROVE  BenchInv'
<1>0. BenchTypes /\ ckpt \in Seq(Nat) /\ saved \in Seq(Nat) /\ bench' = bench /\ ckpt' = ckpt
      /\ at.frontier \in Nat /\ at.pc = "snap" /\ bench.gen \in Nat
  BY OptionFacts DEF BenchInv, BenchTypes, Snapshot
<1>1. CASE BenchFail /\ UNCHANGED saved
  BY <1>0, <1>1, FailKeeps
<1>2. CASE /\ at' = [at EXCEPT !.pc = "decode", !.gen = 0]
           /\ saved' = IF bench.gen > 0 THEN ckpt ELSE saved
  <2>1. /\ at'.pc = "decode" /\ at'.gen = 0 /\ at'.computed = at.computed
        /\ at'.frontier = at.frontier /\ at'.previous = at.previous /\ at'.rows = at.rows /\ at'.rc = at.rc
    BY <1>0, <1>2 DEF BenchTypes
  <2>2. BenchTypes'
    BY <1>0, <1>2 DEF BenchTypes
  <2>3. RowsWritten' /\ Rising'
    BY <1>0, <2>1 DEF BenchInv, RowsWritten, Rising
  <2>4. ckpt = Prompt(at.frontier) /\ Len(ckpt) = at.frontier /\ at.computed = at.frontier - at.previous
    BY <1>0, PromptFacts DEF BenchInv, SessionAt
  <2>5. SessionAt'
    BY <1>0, <1>2, <2>1, <2>4 DEF SessionAt
  <2> QED BY <2>2, <2>3, <2>5 DEF BenchInv
<1> QED BY <1>1, <1>2 DEF Snapshot

\* A decode step, speculative or not, appends what it counts and never passes gen_tokens
LEMMA DecodeKeeps ==
    ASSUME BenchInv, DecodeStep
    PROVE  BenchInv'
<1>0. BenchTypes /\ ckpt \in Seq(Nat) /\ saved \in Seq(Nat) /\ bench' = bench /\ saved' = saved
      /\ at.frontier \in Nat /\ at.gen \in Nat /\ at.pc = "decode" /\ at.gen < bench.gen /\ bench.gen \in Nat
      /\ Draft \in Nat
  BY OptionFacts, BenchAssumption DEF BenchInv, BenchTypes, DecodeStep
<1>1. CASE BenchFail /\ UNCHANGED ckpt
  BY <1>0, <1>1, FailKeeps
<1>2. ASSUME NEW n \in Accepted, ckpt' \in Generated(n), at' = [at EXCEPT !.gen = at.gen + n]
      PROVE  BenchInv'
  <2>1. n \in Nat /\ n <= bench.gen - at.gen
    BY <1>0 DEF Accepted
  <2>2. ckpt' \in Seq(Nat) /\ Len(ckpt') = Len(ckpt) + n
    <3>1. PICK u \in [1..n -> 0..Len(ckpt) + n] : ckpt' = ckpt \o u
      BY <1>2 DEF Generated
    <3>2. u \in Seq(Nat) /\ Len(u) = n
      BY <1>0, <2>1
    <3> QED BY <1>0, <3>1, <3>2, ConcatProperties
  <2>3. /\ at'.pc = "decode" /\ at'.gen = at.gen + n /\ at'.computed = at.computed
        /\ at'.frontier = at.frontier /\ at'.previous = at.previous /\ at'.rows = at.rows /\ at'.rc = at.rc
    BY <1>0, <1>2 DEF BenchTypes
  <2>4. BenchTypes'
    <3>1. at.gen + n \in Nat
      BY <1>0, <2>1
    <3> QED BY <1>0, <1>2, <2>2, <3>1 DEF BenchTypes
  <2>5. RowsWritten' /\ Rising'
    BY <1>0, <2>3 DEF BenchInv, RowsWritten, Rising
  <2>6. SessionAt'
    <3>1. Len(ckpt) = at.frontier + at.gen /\ saved = Prompt(at.frontier) /\ at.computed = at.frontier - at.previous
      BY <1>0 DEF BenchInv, SessionAt
    <3>2. Len(ckpt') = at'.frontier + at'.gen /\ at'.gen <= bench.gen
      BY <1>0, <2>1, <2>2, <2>3, <3>1
    <3> QED BY <1>0, <2>3, <3>1, <3>2 DEF SessionAt
  <2> QED BY <2>4, <2>5, <2>6 DEF BenchInv
<1> QED BY <1>1, <1>2 DEF DecodeStep

\* The row tells what was computed, and the session is back where the prefill left it
LEMMA RowKeeps ==
    ASSUME BenchInv, Row
    PROVE  BenchInv'
<1>0. BenchTypes /\ ckpt \in Seq(Nat) /\ saved \in Seq(Nat) /\ bench' = bench /\ saved' = saved
      /\ at.frontier \in Nat /\ at.previous \in Nat /\ at.gen \in Nat /\ at.computed \in Int
      /\ at.rows \in Seq(RowRecord) /\ at.pc = "decode" /\ at.gen >= bench.gen /\ bench.gen \in Nat
      /\ bench \in ParsedOptions /\ bench.max \in Nat
  BY OptionFacts DEF BenchInv, BenchTypes, Row
<1>1. CASE BenchFail /\ UNCHANGED ckpt
  BY <1>0, <1>1, FailKeeps
<1> DEFINE r == [ctx |-> at.frontier, prefill |-> at.frontier - at.previous,
                 computed |-> at.computed, gen |-> at.gen]
           then == IF at.frontier >= bench.max THEN "done" ELSE "sync"
           next == NextFrontier(bench, at.frontier)
<1>2. CASE /\ ckpt' = Restored
           /\ at' = [at EXCEPT !.rows = Append(at.rows, r), !.previous = at.frontier,
                               !.pc = then, !.frontier = next]
  <2>1. /\ at.computed = at.frontier - at.previous /\ at.gen = bench.gen
        /\ IF bench.gen > 0 THEN saved = Prompt(at.frontier) ELSE ckpt = Prompt(at.frontier)
        /\ at.rc = 0 /\ at.previous < at.frontier /\ at.frontier <= bench.max
    BY <1>0 DEF BenchInv, SessionAt, Rising
  <2>2. r \in RowRecord /\ r.ctx = at.frontier /\ r.computed = r.prefill /\ r.gen = bench.gen
    BY <1>0, <2>1 DEF RowRecord
  <2>3. /\ next \in Nat /\ next <= bench.max
        /\ at.frontier < bench.max => next > at.frontier
    <3>1. CASE at.frontier < bench.max
      BY <1>0, <3>1, FrontierRises
    <3>2. CASE ~(at.frontier < bench.max)
      BY <1>0, <3>2 DEF NextFrontier
    <3> QED BY <3>1, <3>2
  <2> HIDE DEF r, next
  <2>4. /\ at'.rows = Append(at.rows, r) /\ at'.previous = at.frontier /\ at'.frontier = next
        /\ at'.pc = then /\ at'.rc = at.rc /\ at'.gen = at.gen /\ at'.computed = at.computed
    BY <1>0, <1>2 DEF BenchTypes
  <2>5. /\ at'.rows \in Seq(RowRecord) /\ at'.rows # <<>> /\ Len(at'.rows) = Len(at.rows) + 1
        /\ \A i \in 1..Len(at.rows) : at'.rows[i] = at.rows[i]
        /\ at'.rows[Len(at.rows) + 1] = r
        /\ DOMAIN at.rows = 1..Len(at.rows) /\ DOMAIN at'.rows = 1..Len(at.rows) + 1 /\ Len(at.rows) \in Nat
    <3>1. /\ at'.rows \in Seq(RowRecord) /\ Len(at'.rows) = Len(at.rows) + 1
          /\ \A i \in 1..Len(at.rows) : at'.rows[i] = at.rows[i]
          /\ at'.rows[Len(at.rows) + 1] = r /\ at'.rows # <<>>
      <4>1. at.rows \in Seq(RowRecord) /\ r \in RowRecord
        BY <1>0, <2>2
      <4> HIDE DEF RowRecord
      <4>2. /\ Append(at.rows, r) \in Seq(RowRecord) /\ Len(Append(at.rows, r)) = Len(at.rows) + 1
            /\ \A i \in 1..Len(at.rows) : Append(at.rows, r)[i] = at.rows[i]
            /\ Append(at.rows, r)[Len(at.rows) + 1] = r /\ Append(at.rows, r) # <<>>
        BY <4>1, RowAppended, Zenon
      <4> QED BY <2>4, <4>2, Zenon
    <3>2. DOMAIN at.rows = 1..Len(at.rows) /\ DOMAIN at'.rows = 1..Len(at'.rows) /\ Len(at.rows) \in Nat
      BY <1>0, <3>1, LenProperties
    <3> QED BY <3>1, <3>2
  <2>6. ckpt' = Prompt(at.frontier)
    BY <1>0, <1>2, <2>1 DEF Restored
  <2>7. BenchTypes'
    <3>1. ckpt' \in Seq(Nat)
      BY <1>0, <2>6, PromptFacts
    <3>2. then \in {"sync", "done"}
      OBVIOUS
    <3> HIDE DEF then
    <3> QED BY <1>0, <1>2, <2>3, <2>4, <2>5, <3>1, <3>2 DEF BenchTypes
  <2>8. RowsWritten'
    <3> SUFFICES ASSUME NEW i \in 1..Len(at.rows) + 1
                 PROVE  /\ at'.rows[i].computed = at'.rows[i].prefill
                        /\ at'.rows[i].gen = bench.gen
                        /\ i > 1 => at'.rows[i].ctx > at'.rows[i - 1].ctx
      BY <1>0, <2>5 DEF RowsWritten
    <3>1. CASE i \in 1..Len(at.rows)
      <4>1. i > 1 => i - 1 \in 1..Len(at.rows)
        BY <2>5, <3>1
      <4> QED BY <2>5, <3>1, <4>1 DEF BenchInv, RowsWritten
    <3>2. CASE i = Len(at.rows) + 1
      <4>1. ASSUME i > 1 PROVE at'.rows[i - 1].ctx = at.previous
        <5>1. i - 1 = Len(at.rows) /\ i - 1 \in 1..Len(at.rows) /\ at.rows # <<>>
          BY <2>5, <3>2, <4>1
        <5>2. at.rows[Len(at.rows)].ctx = at.previous
          BY <2>1, <5>1 DEF BenchInv, Rising
        <5> QED BY <2>5, <5>1, <5>2
      <4> QED BY <1>0, <2>1, <2>2, <2>5, <3>2, <4>1
    <3> QED BY <2>5, <3>1, <3>2
  <2>9. Rising'
    <3>1. at'.rows[Len(at'.rows)].ctx = at'.previous
      BY <2>2, <2>4, <2>5
    <3> QED BY <1>0, <2>1, <2>3, <2>4, <2>5, <3>1 DEF Rising
  <2>10. SessionAt'
    BY <2>4, <2>6 DEF SessionAt
  <2> QED BY <2>7, <2>8, <2>9, <2>10 DEF BenchInv
<1> QED BY <1>1, <1>2 DEF Row

\* The inductive invariant of the benchmark
THEOREM BenchInvariant == BenchSpec => []BenchInv
<1>1. BenchInit => BenchInv
  <2> SUFFICES ASSUME BenchInit PROVE BenchInv
    OBVIOUS
  <2>1. BenchTypes
    BY OptionFacts DEF BenchInit, BenchTypes
  <2>2. RowsWritten
    BY DEF BenchInit, RowsWritten
  <2>3. Rising
    BY OptionFacts DEF BenchInit, Rising
  <2>4. SessionAt
    BY PromptEmpty DEF BenchInit, SessionAt
  <2> QED BY <2>1, <2>2, <2>3, <2>4 DEF BenchInv
<1>2. BenchInv /\ [BenchNext]_benchVars => BenchInv'
  <2> SUFFICES ASSUME BenchInv, [BenchNext]_benchVars PROVE BenchInv'
    OBVIOUS
  <2>1. CASE Begin
    <3>1. bench' = bench /\ ckpt' = ckpt /\ saved' = saved /\ ckpt \in Seq(Nat) /\ saved \in Seq(Nat)
      BY <2>1 DEF Begin, BenchInv, BenchTypes
    <3>2. CASE BenchFail
      BY <3>1, <3>2, FailKeeps
    <3>3. CASE at.pc = "begin" /\ at' = [at EXCEPT !.pc = "sync"]
      <4>1. /\ at'.pc = "sync" /\ at'.frontier = at.frontier /\ at'.previous = at.previous
            /\ at'.rows = at.rows /\ at'.rc = at.rc /\ BenchTypes'
        BY <3>1, <3>3 DEF BenchInv, BenchTypes
      <4> QED BY <3>1, <3>3, <4>1 DEF BenchInv, RowsWritten, Rising, SessionAt
    <3> QED BY <2>1, <3>2, <3>3 DEF Begin
  <2>2. CASE UNCHANGED benchVars
    BY <2>2 DEF benchVars, BenchInv, BenchTypes, RowsWritten, Rising, SessionAt
  <2> QED BY <2>1, <2>2, SyncKeeps, SnapshotKeeps, DecodeKeeps, RowKeeps DEF BenchNext
<1> QED BY <1>1, <1>2, PTL DEF BenchSpec

\* Every row of the benchmark is true and the decode never runs out of the context that
\* parse_options allocated, for all options, prompts and predictions
THEOREM BenchRowsTrue == BenchSpec => []RowsTrue
<1>1. BenchInv => RowsTrue
  <2> SUFFICES ASSUME BenchInv PROVE RowsTrue
    OBVIOUS
  <2>1. at.pc = "done" /\ at.rc = 0 => at.rows[Len(at.rows)].ctx = bench.max
    BY DEF BenchInv, Rising
  <2>2. ASSUME at.pc = "decode", at.gen < bench.gen PROVE ~Full
    <3>1. Len(ckpt) = at.frontier + at.gen /\ at.frontier <= bench.max
      BY <2>2 DEF BenchInv, SessionAt, Rising
    <3>2. at.frontier \in Nat /\ at.gen \in Nat /\ bench \in ParsedOptions
      BY DEF BenchInv, BenchTypes
    <3> QED BY <2>2, <3>1, <3>2, OptionFacts DEF Full
  <2> QED BY <2>1, <2>2 DEF BenchInv, RowsWritten, RowsTrue
<1> QED BY <1>1, BenchInvariant, PTL

-----------------------------------------------------------------------------
(* The quantizer: sizes and chunks                                         *)

\* Rows of one expert have one quotient
LEMMA SameQuotient ==
    ASSUME NEW n \in Nat, n > 0, NEW r \in Nat, NEW x \in Nat, r <= x, x < r + (n - (r % n))
    PROVE  x \div n = r \div n
<1> DEFINE q == r \div n
           p == x \div n
           m == r % n
           k == x % n
<1>1. q \in Int /\ m \in Int /\ 0 <= m /\ m < n /\ r = n * q + m
  OBVIOUS
<1>2. p \in Int /\ k \in Int /\ 0 <= k /\ k < n /\ x = n * p + k
  OBVIOUS
<1>3. x < r + (n - m)
  OBVIOUS
<1> HIDE DEF q, p, m, k
<1>4. ASSUME NEW a \in Int, NEW b \in Int, a < b PROVE n * b >= n * a + n
  <2>1. PICK d \in Nat : b = a + 1 + d
    <3>1. b - a - 1 \in Nat /\ b = a + 1 + (b - a - 1)
      BY <1>4
    <3> QED BY <3>1
  <2>2. n * b = n * a + n + n * d
    BY <2>1
  <2>3. n * d >= 0 /\ n * a \in Int /\ n * d \in Int
    OBVIOUS
  <2> QED BY <2>2, <2>3
<1>5. n * p \in Int /\ n * q \in Int
  BY <1>1, <1>2
<1>6. ~(p < q)
  <2> SUFFICES ASSUME p < q PROVE FALSE
    OBVIOUS
  <2>1. n * q >= n * p + n
    BY <1>1, <1>2, <1>4
  <2> QED BY <1>1, <1>2, <1>5, <2>1
<1>7. ~(q < p)
  <2> SUFFICES ASSUME q < p PROVE FALSE
    OBVIOUS
  <2>1. n * p >= n * q + n
    BY <1>1, <1>2, <1>4
  <2> QED BY <1>1, <1>2, <1>3, <1>5, <2>1
<1> QED BY <1>1, <1>2, <1>6, <1>7 DEF p, q

\* Padding only adds
LEMMA PaddedFacts ==
    ASSUME NEW n \in Nat
    PROVE  Padded(n) \in Nat /\ Padded(n) >= n
<1> DEFINE x == n + Alignment - 1
           q == x \div Alignment
           k == x % Alignment
<1>1. Alignment \in Nat /\ Alignment > 0
  BY QuantizeAssumption
<1>2. x \in Nat
  BY <1>1
<1>3. q \in Int /\ k \in Int /\ 0 <= k /\ k < Alignment /\ x = Alignment * q + k
  <2> HIDE DEF x
  <2> QED BY <1>1, <1>2
<1>4. Padded(n) = q * Alignment
  BY DEF Padded
<1>5. q * Alignment = Alignment * q /\ q * Alignment \in Int
  <2> HIDE DEF q
  <2> QED BY <1>1, <1>3
<1>6. x = n + Alignment - 1
  OBVIOUS
<1> HIDE DEF x, q, k
<1> QED BY <1>1, <1>3, <1>4, <1>5, <1>6

\* A tensor's rows and bytes are numbers, and its type is one that has a row size
LEMMA SizeFacts ==
    ASSUME NEW t \in TensorInfo
    PROVE  AllRows(t) \in Nat /\ TensorSize(t) \in Nat
<1>1. t.rows \in Nat /\ t.experts \in Nat /\ t.type \in DOMAIN RowBytes
  BY DEF TensorInfo
<1>2. AllRows(t) \in Nat
  BY <1>1 DEF AllRows
<1>3. TargetType(t) \in DOMAIN RowBytes
  <2>1. CASE ~Routed(t)
    <3>1. TargetType(t) = IF t.type = "f16" THEN "q8" ELSE t.type
      BY <2>1 DEF TargetType
    <3> QED BY <1>1, <3>1 DEF RowBytes
  <2>2. CASE Routed(t)
    <3>1. TargetType(t) \in {"q4", "iq2", "q2"}
      BY <2>2 DEF TargetType, Routed
    <3> QED BY <3>1 DEF RowBytes
  <2> QED BY <2>1, <2>2
<1>4. RowBytes[TargetType(t)] \in Nat
  BY <1>3 DEF RowBytes
<1>5. ASSUME NEW a \in Nat, NEW b \in Nat PROVE a * b \in Nat
  OBVIOUS
<1> QED BY <1>2, <1>4, <1>5 DEF TensorSize

\* A chunk has a row, stays within the tensor, and has one importance matrix
LEMMA ClaimFacts ==
    ASSUME NEW t \in TensorInfo, NEW r \in Nat, r < AllRows(t)
    PROVE  /\ Claimed(t, r) \in Nat /\ Claimed(t, r) >= 1 /\ r + Claimed(t, r) <= AllRows(t)
           /\ \A x \in r .. r + Claimed(t, r) - 1 : MatrixOf(t, x) = MatrixOf(t, r)
<1> DEFINE all == AllRows(t)
           nr == IF all - r < ChunkRows THEN all - r ELSE ChunkRows
           left == t.rows - (r % t.rows)
<1>1. t.rows \in Nat /\ t.experts \in Nat /\ all \in Nat /\ r < all /\ ChunkRows \in Nat /\ ChunkRows >= 1
  BY SizeFacts, QuantizeAssumption DEF TensorInfo
<1>2. t.rows > 0
  <2> SUFFICES ASSUME t.rows = 0 PROVE FALSE
    BY <1>1
  <2>1. all = 0
    BY <1>1 DEF AllRows
  <2> QED BY <1>1, <2>1
<1>3. r % t.rows \in Nat /\ r % t.rows < t.rows
  BY <1>1, <1>2
<1>4. left \in Nat /\ left >= 1
  BY <1>1, <1>3
<1>5. Claimed(t, r) = IF PerExpert(t) /\ nr > left THEN left ELSE nr
  BY DEF Claimed
<1> HIDE DEF all
<1>6. nr \in Nat /\ nr >= 1 /\ r + nr <= all
  BY <1>1
<1> HIDE DEF nr, left
<1>7. Claimed(t, r) \in Nat /\ Claimed(t, r) >= 1 /\ r + Claimed(t, r) <= all /\ (PerExpert(t) => Claimed(t, r) <= left)
  BY <1>1, <1>4, <1>5, <1>6
<1>8. ASSUME NEW x \in r .. r + Claimed(t, r) - 1 PROVE MatrixOf(t, x) = MatrixOf(t, r)
  <2>1. CASE ~PerExpert(t)
    <3>1. ~UsesImatrix(t) \/ Synthetic(t) \/ ~(t.experts > 1)
      BY <2>1 DEF PerExpert
    <3> QED BY <3>1 DEF MatrixOf
  <2>2. CASE PerExpert(t)
    <3>1. x \in Nat /\ r <= x /\ x < r + left
      BY <1>4, <1>7, <2>2
    <3>2. x \div t.rows = r \div t.rows
      BY <1>1, <1>2, <3>1, SameQuotient DEF left
    <3> QED BY <3>2 DEF MatrixOf
  <2> QED BY <2>1, <2>2
<1> QED BY <1>7, <1>8 DEF all

-----------------------------------------------------------------------------
(* The quantizer: the inductive invariant                                  *)

FileByte == ({"meta", "pad"} \cup Nat) \X Nat

Sizes == [i \in 1..Len(input) |-> TensorSize(input[i])]
Matrices == [x \in 0..AllRows(Tensor) - 1 |-> MatrixOf(Tensor, x)]

\* Tensor i lies where a plan with these offsets and sizes puts it, and the file reaches that far
InPlace(file, offsets, sizes, i) ==
    /\ SubSeq(file, DataOffset + offsets[i] + 1, DataOffset + offsets[i] + sizes[i]) = Bytes(i, sizes[i])
    /\ DataOffset + offsets[i] + sizes[i] <= Len(file)

QuantizeTypes ==
    /\ input \in Inputs /\ plan \in Seq(Nat) /\ Len(plan) >= 1 /\ Len(plan) <= Len(input) + 1
    /\ idx \in Nat /\ written \in Seq(FileByte)

\* Every tensor of the plan starts where the one before it ends, with its padding
PlanAdds ==
    /\ plan[1] = 0
    /\ \A i \in 1..Len(plan) - 1 : plan[i + 1] = plan[i] + Padded(Sizes[i])
    /\ qPc \in {"open", "tensor", "convert", "close"} => Len(plan) = Len(input) + 1

\* What is written is the plan up to the tensor being written
WrittenAsPlanned ==
    /\ qPc \in {"plan", "open"} => idx = 1 /\ written = <<>>
    /\ qPc \in {"tensor", "convert", "close"} =>
          /\ idx >= 1 /\ idx <= Len(input) + 1
          /\ Len(written) = DataOffset + plan[idx]
          /\ \A i \in 1..idx - 1 : InPlace(written, plan, Sizes, i)
    /\ qPc = "convert" => idx <= Len(input)
    /\ qPc = "close" => idx = Len(input) + 1

RowsOf(c) == c.r .. c.r + c.nr - 1

\* A claim: at least one row, all before next and with one matrix
ClaimOK(c, next, matrices) ==
    /\ c \in [r : Nat, nr : Nat] /\ c.nr >= 1 /\ c.r + c.nr <= next
    /\ \A x \in RowsOf(c) : matrices[x] = matrices[c.r]

\* What the rows were quantized with: a row before next with its own matrix, once, unless it is
\* in a worker's chunk
Made(next, claims, matrices) ==
    [x \in DOMAIN matrices |->
        IF x >= next \/ \E w \in Workers : x \in RowsOf(claims[w]) THEN {} ELSE {matrices[x]}]

\* No row is claimed twice, and no thread is gone before every row is claimed
RowsOnce ==
    qPc = "convert" =>
        /\ job.next \in 0..AllRows(Tensor)
        /\ job = [next |-> job.next, made |-> Made(job.next, work, Matrices)]
        /\ work \in [Workers -> {Idle, Gone} \cup [r : Nat, nr : Nat]]
        /\ \A w \in Workers :
              /\ work[w] = Gone => job.next >= AllRows(Tensor)
              /\ work[w] \in {Idle, Gone} \/ ClaimOK(work[w], job.next, Matrices)
        /\ \A v, w \in Workers : v # w => RowsOf(work[v]) \cap RowsOf(work[w]) = {}

\* --out is touched by the rename alone
OutWhole ==
    /\ atomic => \/ out \in {NoFile, Old}
                 \/ qPc = "exit" /\ Len(out) = PlannedSize /\ \A i \in 1..Len(input) : InPlace(out, plan, Sizes, i)
    /\ qPc = "exit" => tmp = NoFile

QuantizeInv == QuantizeTypes /\ PlanAdds /\ WrittenAsPlanned /\ RowsOnce /\ OutWhole

\* The sizes and matrices depend on the input and the tensor alone
LEMMA SizesStay ==
    ASSUME input' = input
    PROVE  Sizes' = Sizes /\ (idx' = idx => Matrices' = Matrices /\ Tensor' = Tensor)
<1>1. \A t : TargetType(t)' = TargetType(t)
  BY DEF TargetType, Q4Layer, LastRouted, Routed
<1> QED BY <1>1 DEF Sizes, TensorSize, AllRows, Matrices, Tensor, MatrixOf, UsesImatrix, Synthetic

\* Every tensor of an input has a size
LEMMA InputFacts ==
    ASSUME input \in Inputs
    PROVE  /\ input \in Seq(TensorInfo) /\ Len(input) \in Nat
           /\ \A i \in 1..Len(input) :
                 input[i] \in TensorInfo /\ Sizes[i] = TensorSize(input[i]) /\ Sizes[i] \in Nat
<1>1. input \in Seq(TensorInfo) /\ Len(input) \in Nat
  BY QuantizeAssumption, LenProperties
<1>2. \A i \in 1..Len(input) : input[i] \in TensorInfo
  BY <1>1
<1> QED BY <1>1, <1>2, SizeFacts DEF Sizes

\* The bytes of a piece of the file
LEMMA BytesFacts ==
    ASSUME NEW what \in {"meta", "pad"} \cup Nat, NEW n \in Nat
    PROVE  Bytes(what, n) \in Seq(FileByte) /\ Len(Bytes(what, n)) = n
<1>1. \A k \in 1..n : <<what, k>> \in FileByte
  BY DEF FileByte
<1> HIDE DEF FileByte
<1> QED BY <1>1 DEF Bytes

\* What lies in a file stays there when more is appended
LEMMA SubSeqStays ==
    ASSUME NEW S, NEW s \in Seq(S), NEW t \in Seq(S), NEW m \in Nat, NEW n \in Nat, m >= 1, n <= Len(s)
    PROVE  SubSeq(s \o t, m, n) = SubSeq(s, m, n)
<1>1. s \o t \in Seq(S) /\ Len(s \o t) = Len(s) + Len(t) /\ Len(s) \in Nat /\ Len(t) \in Nat
  BY ConcatProperties, LenProperties
<1>2. \A i \in m..n : s[i] \in S /\ (s \o t)[i] = s[i]
  BY <1>1, ElementOfSeq, ConcatProperties
<1>3. /\ SubSeq(s, m, n) \in Seq(S) /\ Len(SubSeq(s, m, n)) = (IF m <= n THEN n - m + 1 ELSE 0)
      /\ \A i \in 1..n - m + 1 : SubSeq(s, m, n)[i] = s[m + i - 1]
  BY <1>2, SubSeqProperties
<1>4. /\ SubSeq(s \o t, m, n) \in Seq(S) /\ Len(SubSeq(s \o t, m, n)) = (IF m <= n THEN n - m + 1 ELSE 0)
      /\ \A i \in 1..n - m + 1 : SubSeq(s \o t, m, n)[i] = (s \o t)[m + i - 1]
  BY <1>2, SubSeqProperties
<1>5. \A i \in 1..Len(SubSeq(s, m, n)) : SubSeq(s \o t, m, n)[i] = SubSeq(s, m, n)[i]
  BY <1>2, <1>3, <1>4
<1> QED BY <1>3, <1>4, <1>5, SeqEqual

\* What is appended lies behind what was there
LEMMA SubSeqNew ==
    ASSUME NEW S, NEW s \in Seq(S), NEW t \in Seq(S)
    PROVE  SubSeq(s \o t, Len(s) + 1, Len(s) + Len(t)) = t
<1> DEFINE m == Len(s) + 1
           n == Len(s) + Len(t)
<1>1. s \o t \in Seq(S) /\ Len(s \o t) = n /\ Len(s) \in Nat /\ Len(t) \in Nat
  BY ConcatProperties, LenProperties
<1>2. \A i \in m..n : (s \o t)[i] = t[i - Len(s)] /\ t[i - Len(s)] \in S
  BY <1>1, ElementOfSeq, ConcatProperties
<1>3. /\ SubSeq(s \o t, m, n) \in Seq(S) /\ Len(SubSeq(s \o t, m, n)) = (IF m <= n THEN n - m + 1 ELSE 0)
      /\ \A i \in 1..n - m + 1 : SubSeq(s \o t, m, n)[i] = (s \o t)[m + i - 1]
  BY <1>1, <1>2, SubSeqProperties
<1>4. Len(SubSeq(s \o t, m, n)) = Len(t) /\ \A i \in 1..Len(t) : SubSeq(s \o t, m, n)[i] = t[i]
  BY <1>1, <1>2, <1>3
<1> QED BY <1>3, <1>4, SeqEqual

-----------------------------------------------------------------------------
(* The quantizer: the steps                                                *)

\* One more tensor is planned
LEMMA PlanTensorKeeps ==
    ASSUME QuantizeInv, PlanTensor
    PROVE  QuantizeInv'
<1> DEFINE n == Len(plan)
           new == plan[n] + Padded(TensorSize(input[n]))
<1>0. /\ input \in Inputs /\ plan \in Seq(Nat) /\ n \in Nat /\ n >= 1 /\ n <= Len(input)
      /\ Len(input) \in Nat /\ qPc = "plan" /\ plan' = Append(plan, new)
      /\ UNCHANGED <<input, synthetic, atomic, qPc, idx, written, tmp, out, job, work>>
  BY InputFacts, LenProperties DEF QuantizeInv, QuantizeTypes, PlanTensor
<1>1. Sizes' = Sizes
  BY <1>0, SizesStay
<1>2. plan[n] \in Nat /\ Sizes[n] \in Nat /\ Sizes[n] = TensorSize(input[n])
  BY <1>0, InputFacts, ElementOfSeq
<1>3. new = plan[n] + Padded(Sizes[n]) /\ new \in Nat
  <2>1. Padded(Sizes[n]) \in Nat
    BY <1>2, PaddedFacts
  <2> QED BY <1>2, <2>1
<1> HIDE DEF new
<1>4. /\ plan' \in Seq(Nat) /\ Len(plan') = n + 1
      /\ \A i \in 1..n : plan'[i] = plan[i]
      /\ plan'[n + 1] = new
  BY <1>0, <1>3, AppendProperties
<1>5. QuantizeTypes'
  BY <1>0, <1>4 DEF QuantizeInv, QuantizeTypes
<1>6. PlanAdds'
  <2>1. plan[1] = 0 /\ \A i \in 1..n - 1 : plan[i + 1] = plan[i] + Padded(Sizes[i])
    BY DEF QuantizeInv, PlanAdds
  <2>2. plan'[1] = 0
    BY <1>0, <1>4, <2>1
  <2>3. ASSUME NEW i \in 1..n PROVE plan'[i + 1] = plan'[i] + Padded(Sizes[i])
    <3>1. CASE i < n
      <4>1. i \in 1..n - 1 /\ i + 1 \in 1..n
        BY <1>0, <3>1
      <4> QED BY <1>4, <2>1, <4>1
    <3>2. CASE i = n
      BY <1>3, <1>4, <3>2
    <3> QED BY <1>0, <3>1, <3>2
  <2>4. Len(plan') - 1 = n
    BY <1>0, <1>4
  <2> QED BY <1>0, <1>1, <2>2, <2>3, <2>4 DEF PlanAdds
<1>7. WrittenAsPlanned' /\ RowsOnce'
  BY <1>0 DEF QuantizeInv, WrittenAsPlanned, RowsOnce
<1>8. OutWhole'
  BY <1>0 DEF QuantizeInv, OutWhole
<1> QED BY <1>5, <1>6, <1>7, <1>8 DEF QuantizeInv

\* A step that leaves the files and the work alone, or ends without a rename
LEMMA AsideKeeps ==
    ASSUME QuantizeInv, UNCHANGED <<input, atomic, plan, idx, written>>,
           \/ qPc = "plan" /\ Len(plan) > Len(input) /\ qPc' = "open" /\ out' = out
           \/ qPc = "tensor" /\ idx > Len(input) /\ qPc' = "close" /\ out' = out
           \/ qPc \notin {"exit", "killed"} /\ qPc' \in {"exit", "killed"} /\ (atomic => out' = out),
           qPc' = "exit" => tmp' = NoFile
    PROVE  QuantizeInv'
<1>0. /\ input \in Inputs /\ plan \in Seq(Nat) /\ Len(input) \in Nat /\ Len(plan) \in Nat
      /\ Len(plan) <= Len(input) + 1 /\ idx \in Nat /\ Sizes' = Sizes
  BY InputFacts, LenProperties, SizesStay DEF QuantizeInv, QuantizeTypes
<1>1. QuantizeTypes'
  BY DEF QuantizeInv, QuantizeTypes
<1>2. PlanAdds'
  BY <1>0 DEF QuantizeInv, PlanAdds
<1>3. WrittenAsPlanned'
  BY <1>0 DEF QuantizeInv, WrittenAsPlanned
<1>4. RowsOnce'
  BY DEF RowsOnce
<1>5. OutWhole'
  BY <1>0 DEF QuantizeInv, OutWhole
<1> QED BY <1>1, <1>2, <1>3, <1>4, <1>5 DEF QuantizeInv

\* The header ends where the data begins
LEMMA HeaderKeeps ==
    ASSUME QuantizeInv, WriteHeader
    PROVE  QuantizeInv'
<1> DEFINE meta == Bytes("meta", MetaSize)
           fill == Bytes("pad", DataOffset - MetaSize)
<1>0. /\ input \in Inputs /\ plan \in Seq(Nat) /\ Len(input) \in Nat
      /\ idx = 1 /\ plan[1] = 0 /\ Len(plan) = Len(input) + 1 /\ Sizes' = Sizes
      /\ qPc = "open" /\ qPc' = "tensor" /\ written' = meta \o fill /\ out' = out
      /\ UNCHANGED <<input, atomic, plan, idx>>
  BY InputFacts, SizesStay DEF QuantizeInv, QuantizeTypes, PlanAdds, WrittenAsPlanned, WriteHeader
<1>1. MetaSize \in Nat /\ DataOffset \in Nat /\ DataOffset - MetaSize \in Nat
  BY QuantizeAssumption, PaddedFacts DEF DataOffset
<1>2. meta \in Seq(FileByte) /\ Len(meta) = MetaSize /\ fill \in Seq(FileByte) /\ Len(fill) = DataOffset - MetaSize
  BY <1>1, BytesFacts
<1> HIDE DEF meta, fill
<1>3. written' \in Seq(FileByte) /\ Len(written') = DataOffset
  <2> HIDE DEF FileByte
  <2>1. meta \o fill \in Seq(FileByte) /\ Len(meta \o fill) = Len(meta) + Len(fill)
    BY <1>2, ConcatProperties
  <2> QED BY <1>0, <1>1, <1>2, <2>1
<1>4. QuantizeTypes'
  BY <1>0, <1>3 DEF QuantizeInv, QuantizeTypes
<1>5. PlanAdds'
  BY <1>0 DEF QuantizeInv, PlanAdds
<1>6. WrittenAsPlanned'
  BY <1>0, <1>1, <1>3 DEF WrittenAsPlanned
<1>7. RowsOnce' /\ OutWhole'
  BY <1>0 DEF QuantizeInv, RowsOnce, OutWhole
<1> QED BY <1>4, <1>5, <1>6, <1>7 DEF QuantizeInv

\* A tensor, copied or converted, lies where the plan says and the file ends where the next begins
LEMMA AppendedKeeps ==
    ASSUME QuantizeInv, qPc \in {"tensor", "convert"}, idx <= Len(input), qPc' = "tensor",
           Appended(Bytes(idx, TensorSize(Tensor)))
    PROVE  QuantizeInv'
<1> DEFINE z == Sizes[idx]
           data == Bytes(idx, z)
           fill == Bytes("pad", Padded(z) - z)
<1>0. /\ input \in Inputs /\ plan \in Seq(Nat) /\ Len(input) \in Nat /\ written \in Seq(FileByte)
      /\ idx \in 1..Len(input) /\ idx \in Nat /\ Len(plan) = Len(input) + 1 /\ Sizes' = Sizes
      /\ Len(written) = DataOffset + plan[idx] /\ idx' = idx + 1 /\ out' = out
      /\ \A i \in 1..idx - 1 : InPlace(written, plan, Sizes, i)
      /\ UNCHANGED <<input, atomic, plan>>
  BY InputFacts, SizesStay DEF QuantizeInv, QuantizeTypes, PlanAdds, WrittenAsPlanned, Appended
<1>1. z \in Nat /\ z = TensorSize(Tensor) /\ plan[idx] \in Nat /\ plan[idx + 1] = plan[idx] + Padded(z)
      /\ Padded(z) \in Nat /\ Padded(z) >= z /\ DataOffset \in Nat
  <2>1. z \in Nat /\ z = TensorSize(Tensor)
    BY <1>0, InputFacts DEF Tensor
  <2>2. idx \in 1..Len(plan) /\ idx \in 1..Len(plan) - 1
    BY <1>0
  <2>3. plan[idx] \in Nat /\ plan[idx + 1] = plan[idx] + Padded(z)
    BY <1>0, <2>2, ElementOfSeq DEF QuantizeInv, PlanAdds
  <2>4. Padded(z) \in Nat /\ Padded(z) >= z
    BY <2>1, PaddedFacts
  <2>5. DataOffset \in Nat
    BY PaddedFacts, QuantizeAssumption DEF DataOffset
  <2> QED BY <2>1, <2>3, <2>4, <2>5
<1>2. written' = written \o data \o fill
  BY <1>1 DEF Appended, Padding
<1>3. data \in Seq(FileByte) /\ Len(data) = z /\ fill \in Seq(FileByte) /\ Len(fill) = Padded(z) - z
  <2> HIDE DEF z, FileByte
  <2>1. idx \in {"meta", "pad"} \cup Nat /\ "pad" \in {"meta", "pad"} \cup Nat
    BY <1>0
  <2>2. Padded(z) - z \in Nat /\ z \in Nat
    BY <1>1
  <2>3. data \in Seq(FileByte) /\ Len(data) = z
    BY <2>1, <2>2, BytesFacts
  <2>4. fill \in Seq(FileByte) /\ Len(fill) = Padded(z) - z
    BY <2>1, <2>2, BytesFacts
  <2> QED BY <2>3, <2>4
<1> HIDE DEF data, fill, z, FileByte
<1>4. /\ written \o data \in Seq(FileByte) /\ Len(written \o data) = Len(written) + z
      /\ written' \in Seq(FileByte) /\ Len(written') = Len(written) + Padded(z)
      /\ Len(written) \in Nat
  <2>0. written \in Seq(FileByte) /\ data \in Seq(FileByte) /\ fill \in Seq(FileByte) /\ Len(written) \in Nat
    BY <1>0, <1>3, LenProperties
  <2>1. written \o data \in Seq(FileByte) /\ Len(written \o data) = Len(written) + Len(data)
    BY <2>0, ConcatProperties
  <2>2. (written \o data) \o fill \in Seq(FileByte) /\ Len((written \o data) \o fill) = Len(written \o data) + Len(fill)
    BY <2>0, <2>1, ConcatProperties
  <2> QED BY <1>1, <1>2, <1>3, <2>0, <2>1, <2>2
<1>5. ASSUME NEW i \in 1..idx PROVE InPlace(written', plan, Sizes, i)
  <2>1. CASE i = idx
    <3>1. SubSeq(written \o data, Len(written) + 1, Len(written) + z) = data
      BY <1>0, <1>3, SubSeqNew
    <3>2. SubSeq((written \o data) \o fill, Len(written) + 1, Len(written) + z)
             = SubSeq(written \o data, Len(written) + 1, Len(written) + z)
      <4>1. Len(written) + 1 \in Nat /\ Len(written) + 1 >= 1 /\ Len(written) + z \in Nat
        BY <1>1, <1>4
      <4>2. Len(written) + z <= Len(written \o data)
        BY <1>0, <1>1, <1>4
      <4> QED BY <1>3, <1>4, <4>1, <4>2, SubSeqStays
    <3>3. DataOffset + plan[i] + Sizes[i] <= Len(written')
      <4>1. Len(written') = DataOffset + plan[idx] + Padded(z)
        BY <1>0, <1>4
      <4> QED BY <1>1, <2>1, <4>1 DEF z
    <3> QED BY <1>0, <1>2, <2>1, <3>1, <3>2, <3>3 DEF InPlace, data, z
  <2>2. CASE i < idx
    <3>1. i \in 1..idx - 1 /\ i \in 1..Len(plan) /\ i \in 1..Len(input)
      BY <1>0, <2>2
    <3>2. plan[i] \in Nat /\ Sizes[i] \in Nat /\ InPlace(written, plan, Sizes, i)
      BY <1>0, <3>1, InputFacts, ElementOfSeq
    <3> DEFINE a == DataOffset + plan[i] + 1
               b == DataOffset + plan[i] + Sizes[i]
    <3>3. a \in Nat /\ a >= 1 /\ b \in Nat /\ b <= Len(written) /\ b <= Len(written \o data) /\ b <= Len(written')
      <4>1. a \in Nat /\ a >= 1 /\ b \in Nat
        BY <1>1, <3>2
      <4>2. b <= Len(written)
        BY <3>2 DEF InPlace
      <4> HIDE DEF a, b
      <4> QED BY <1>1, <1>4, <4>1, <4>2
    <3> HIDE DEF a, b
    <3>4. SubSeq(written \o data, a, b) = SubSeq(written, a, b)
      BY <1>0, <1>3, <3>3, SubSeqStays
    <3>5. SubSeq((written \o data) \o fill, a, b) = SubSeq(written \o data, a, b)
      BY <1>3, <1>4, <3>3, SubSeqStays
    <3> QED BY <1>2, <3>2, <3>3, <3>4, <3>5 DEF InPlace, a, b
  <2> QED BY <1>0, <2>1, <2>2
<1>6. QuantizeTypes'
  BY <1>0, <1>4 DEF QuantizeInv, QuantizeTypes
<1>7. PlanAdds'
  BY <1>0 DEF QuantizeInv, PlanAdds
<1>8. WrittenAsPlanned'
  <2>1. Len(written') = DataOffset + plan'[idx']
    BY <1>0, <1>1, <1>4
  <2>2. \A i \in 1..idx' - 1 : InPlace(written', plan', Sizes', i)
    BY <1>0, <1>5
  <2> QED BY <1>0, <2>1, <2>2 DEF WrittenAsPlanned
<1>9. RowsOnce' /\ OutWhole'
  BY <1>0 DEF QuantizeInv, RowsOnce, OutWhole
<1> QED BY <1>6, <1>7, <1>8, <1>9 DEF QuantizeInv

\* The threads start with nothing claimed
LEMMA StartConvertKeeps ==
    ASSUME QuantizeInv, StartConvert
    PROVE  QuantizeInv'
<1>0. /\ input \in Inputs /\ idx \in 1..Len(input) /\ idx \in Nat /\ qPc = "tensor" /\ qPc' = "convert"
      /\ work' = [w \in Workers |-> Idle]
      /\ job' = [next |-> 0, made |-> [r \in 0..AllRows(Tensor) - 1 |-> {}]]
      /\ UNCHANGED <<input, synthetic, atomic, plan, idx, written, tmp, out>>
  BY InputFacts DEF QuantizeInv, QuantizeTypes, WrittenAsPlanned, StartConvert
<1>1. Sizes' = Sizes /\ Matrices' = Matrices /\ Tensor' = Tensor
  BY <1>0, SizesStay
<1>2. Tensor \in TensorInfo /\ AllRows(Tensor) \in Nat
  BY <1>0, InputFacts, SizeFacts DEF Tensor
<1>3. QuantizeTypes' /\ PlanAdds' /\ WrittenAsPlanned' /\ OutWhole'
  BY <1>0, <1>1 DEF QuantizeInv, QuantizeTypes, PlanAdds, WrittenAsPlanned, OutWhole
<1>4. RowsOnce'
  <2>1. \A w \in Workers : work'[w] = Idle /\ Idle # Gone /\ RowsOf(work'[w]) = {}
    BY <1>0 DEF Idle, Gone, RowsOf
  <2>2. job'.next = 0 /\ job'.next \in 0..AllRows(Tensor)
    BY <1>0, <1>2
  <2>3. Made(0, work', Matrices) = [r \in 0..AllRows(Tensor) - 1 |-> {}]
    BY <1>2 DEF Made, Matrices
  <2> QED BY <1>0, <1>1, <2>1, <2>2, <2>3 DEF RowsOnce
<1> QED BY <1>3, <1>4 DEF QuantizeInv

\* The rows a worker claims are new, and their number is what next advances by
LEMMA ClaimKeeps ==
    ASSUME QuantizeInv, NEW w \in Workers, Claim(w)
    PROVE  QuantizeInv'
<1> DEFINE all == AllRows(Tensor)
           nr == Claimed(Tensor, job.next)
           c == [r |-> job.next, nr |-> nr]
<1>0. /\ input \in Inputs /\ idx \in 1..Len(input) /\ qPc = "convert" /\ work[w] = Idle /\ RowsOnce
      /\ UNCHANGED <<input, synthetic, atomic, qPc, plan, idx, written, tmp, out>>
  BY InputFacts DEF QuantizeInv, QuantizeTypes, WrittenAsPlanned, Claim
<1>1. Sizes' = Sizes /\ Matrices' = Matrices /\ Tensor' = Tensor
  BY <1>0, SizesStay
<1>2. Tensor \in TensorInfo /\ all \in Nat
  BY <1>0, InputFacts, SizeFacts DEF Tensor
<1>3. QuantizeTypes' /\ PlanAdds' /\ WrittenAsPlanned' /\ OutWhole'
  BY <1>0, <1>1 DEF QuantizeInv, QuantizeTypes, PlanAdds, WrittenAsPlanned, OutWhole
<1>4. /\ job.next \in 0..all /\ job = [next |-> job.next, made |-> Made(job.next, work, Matrices)]
      /\ work \in [Workers -> {Idle, Gone} \cup [r : Nat, nr : Nat]]
      /\ \A v \in Workers : /\ work[v] = Gone => job.next >= all
                            /\ work[v] \in {Idle, Gone} \/ ClaimOK(work[v], job.next, Matrices)
      /\ \A u, v \in Workers : u # v => RowsOf(work[u]) \cap RowsOf(work[v]) = {}
  BY <1>0 DEF RowsOnce
<1>5. RowsOf(Idle) = {} /\ RowsOf(Gone) = {} /\ Idle # Gone
  BY DEF RowsOf, Idle, Gone
<1> HIDE DEF all
<1>6. CASE job.next >= all
  <2>1. work' = [work EXCEPT ![w] = Gone] /\ job' = job
    BY <1>6 DEF Claim, all
  <2>2. \A v \in Workers : work'[v] = IF v = w THEN Gone ELSE work[v]
    BY <1>4, <2>1
  <2>3. \A v \in Workers : RowsOf(work'[v]) = RowsOf(work[v])
    BY <1>0, <1>5, <2>2
  <2>4. Made(job.next, work', Matrices) = Made(job.next, work, Matrices)
    BY <2>3 DEF Made
  <2>5. work' \in [Workers -> {Idle, Gone} \cup [r : Nat, nr : Nat]]
    BY <1>4, <2>1
  <2>6. RowsOnce'
    BY <1>0, <1>1, <1>4, <1>6, <2>1, <2>2, <2>3, <2>4, <2>5 DEF RowsOnce, all
  <2> QED BY <1>3, <2>6 DEF QuantizeInv
<1>7. CASE job.next < all
  <2>1. work' = [work EXCEPT ![w] = c] /\ job' = [job EXCEPT !.next = job.next + nr]
    BY <1>2, <1>4, <1>7 DEF Claim, all
  <2>2. /\ nr \in Nat /\ nr >= 1 /\ job.next + nr <= all /\ job.next \in Nat
        /\ \A x \in job.next .. job.next + nr - 1 : MatrixOf(Tensor, x) = MatrixOf(Tensor, job.next)
    BY <1>2, <1>4, <1>7, ClaimFacts DEF all
  <2>3. c \in [r : Nat, nr : Nat] /\ c.r = job.next /\ c.nr = nr /\ RowsOf(c) = job.next .. job.next + nr - 1
    BY <2>2 DEF RowsOf
  <2>4. ClaimOK(c, job.next + nr, Matrices)
    <3>1. \A x \in RowsOf(c) : x \in 0..all - 1 /\ job.next \in 0..all - 1
      BY <1>2, <2>2, <2>3
    <3>2. \A x \in RowsOf(c) : Matrices[x] = MatrixOf(Tensor, x) /\ Matrices[job.next] = MatrixOf(Tensor, job.next)
      BY <3>1 DEF Matrices, all
    <3> HIDE DEF c
    <3> QED BY <2>2, <2>3, <3>2 DEF ClaimOK
  <2> HIDE DEF c, nr
  <2>5. \A v \in Workers : work'[v] = IF v = w THEN c ELSE work[v]
    BY <1>4, <2>1
  <2>6. /\ job'.next = job.next + nr /\ job'.made = Made(job.next, work, Matrices)
        /\ job' = [next |-> job'.next, made |-> job'.made]
    BY <1>4, <2>1
  <2>7. \A v \in Workers : \A x \in RowsOf(work[v]) : x < job.next /\ x \in Int
    BY <1>4, <1>5, <2>2 DEF ClaimOK, RowsOf
  <2>8. Made(job.next + nr, work', Matrices) = Made(job.next, work, Matrices)
    <3>1. DOMAIN Matrices = 0..all - 1
      BY DEF Matrices, all
    <3>2. ASSUME NEW x \in DOMAIN Matrices
          PROVE  (x >= job.next + nr \/ \E v \in Workers : x \in RowsOf(work'[v]))
                    <=> (x >= job.next \/ \E v \in Workers : x \in RowsOf(work[v]))
      <4>0. x \in Int
        BY <1>2, <3>1
      <4>1. x \in RowsOf(c) <=> (x >= job.next /\ x < job.next + nr)
        BY <2>2, <2>3, <4>0
      <4>2. (\E v \in Workers : x \in RowsOf(work'[v])) <=> (x \in RowsOf(c) \/ \E v \in Workers : x \in RowsOf(work[v]))
        BY <1>0, <1>5, <2>5
      <4> QED BY <2>2, <4>0, <4>1, <4>2
    <3> QED BY <3>2 DEF Made
  <2>9. work' \in [Workers -> {Idle, Gone} \cup [r : Nat, nr : Nat]]
    BY <1>4, <2>1, <2>3
  <2>10. ASSUME NEW v \in Workers
         PROVE  /\ work'[v] = Gone => job'.next >= all
                /\ work'[v] \in {Idle, Gone} \/ ClaimOK(work'[v], job'.next, Matrices)
    <3>1. CASE v = w
      <4>1. c # Gone
        BY <2>2, <2>3 DEF Gone
      <4> QED BY <2>4, <2>5, <2>6, <3>1, <4>1
    <3>2. CASE v # w
      <4>1. work[v] # Gone
        BY <1>2, <1>4, <1>7, <2>2
      <4>2. work[v] = Idle \/ ClaimOK(work[v], job.next, Matrices)
        BY <1>4, <4>1
      <4>3. ClaimOK(work[v], job.next, Matrices) => ClaimOK(work[v], job.next + nr, Matrices)
        BY <2>2 DEF ClaimOK
      <4> QED BY <2>5, <2>6, <3>2, <4>1, <4>2, <4>3
    <3> QED BY <3>1, <3>2
  <2>11. ASSUME NEW u \in Workers, NEW v \in Workers, u # v
         PROVE  RowsOf(work'[u]) \cap RowsOf(work'[v]) = {}
    <3>1. \A x \in RowsOf(c) : x >= job.next /\ x \in Int
      BY <2>2, <2>3
    <3>2. \A t \in Workers : RowsOf(c) \cap RowsOf(work[t]) = {}
      BY <2>2, <2>7, <3>1
    <3> QED BY <1>4, <2>5, <2>11, <3>2
  <2>12. job'.next \in 0..all
    BY <1>2, <2>2, <2>6
  <2>13. RowsOnce'
    BY <1>0, <1>1, <2>6, <2>8, <2>9, <2>10, <2>11, <2>12 DEF RowsOnce, all
  <2> QED BY <1>3, <2>13 DEF QuantizeInv
<1> QED BY <1>2, <1>4, <1>6, <1>7

\* A worker's rows get the matrix of the first of them, which is their own
LEMMA ChunkKeeps ==
    ASSUME QuantizeInv, NEW w \in Workers, QuantizeChunk(w)
    PROVE  QuantizeInv'
<1> DEFINE all == AllRows(Tensor)
           c == work[w]
           made == Made(job.next, work, Matrices)
<1>0. /\ input \in Inputs /\ idx \in 1..Len(input) /\ qPc = "convert" /\ c \notin {Idle, Gone} /\ RowsOnce
      /\ work' = [work EXCEPT ![w] = Idle]
      /\ UNCHANGED <<input, synthetic, atomic, qPc, plan, idx, written, tmp, out>>
  BY InputFacts DEF QuantizeInv, QuantizeTypes, WrittenAsPlanned, QuantizeChunk
<1>1. Sizes' = Sizes /\ Matrices' = Matrices /\ Tensor' = Tensor
  BY <1>0, SizesStay
<1>2. Tensor \in TensorInfo /\ all \in Nat
  BY <1>0, InputFacts, SizeFacts DEF Tensor
<1>3. QuantizeTypes' /\ PlanAdds' /\ WrittenAsPlanned' /\ OutWhole'
  BY <1>0, <1>1 DEF QuantizeInv, QuantizeTypes, PlanAdds, WrittenAsPlanned, OutWhole
<1>4. /\ job.next \in 0..all /\ job = [next |-> job.next, made |-> made]
      /\ work \in [Workers -> {Idle, Gone} \cup [r : Nat, nr : Nat]]
      /\ \A v \in Workers : /\ work[v] = Gone => job.next >= all
                            /\ work[v] \in {Idle, Gone} \/ ClaimOK(work[v], job.next, Matrices)
      /\ \A u, v \in Workers : u # v => RowsOf(work[u]) \cap RowsOf(work[v]) = {}
  BY <1>0 DEF RowsOnce
<1>5. RowsOf(Idle) = {} /\ RowsOf(Gone) = {} /\ Idle # Gone
  BY DEF RowsOf, Idle, Gone
<1>6. ClaimOK(c, job.next, Matrices)
  BY <1>0, <1>4
<1>7. \A v \in Workers : work'[v] = IF v = w THEN Idle ELSE work[v]
  BY <1>0, <1>4
<1> HIDE DEF all, made
<1>8. /\ job'.next = job.next /\ job' = [next |-> job'.next, made |-> job'.made]
      /\ job'.made = [r \in DOMAIN made |->
                        IF r \in RowsOf(c) THEN made[r] \cup {MatrixOf(Tensor, c.r)} ELSE made[r]]
  <2> DEFINE rows == [r \in DOMAIN job.made |->
                        IF r \in RowsOf(c) THEN job.made[r] \cup {MatrixOf(Tensor, c.r)} ELSE job.made[r]]
  <2>1. job' = [job EXCEPT !.made = rows]
    BY DEF QuantizeChunk, RowsOf
  <2>2. job.made = made
    BY <1>4
  <2>3. rows = [r \in DOMAIN made |->
                  IF r \in RowsOf(c) THEN made[r] \cup {MatrixOf(Tensor, c.r)} ELSE made[r]]
    BY <2>2
  <2> HIDE DEF rows
  <2>4. job' = [next |-> job.next, made |-> rows]
    BY <1>4, <2>1
  <2> QED BY <2>3, <2>4
<1>9. job'.made = Made(job.next, work', Matrices)
  <2>1. DOMAIN Matrices = 0..all - 1 /\ DOMAIN made = DOMAIN Matrices
    BY DEF Matrices, all, made, Made
  <2>2. ASSUME NEW x \in DOMAIN Matrices
        PROVE  job'.made[x] = IF x >= job.next \/ \E v \in Workers : x \in RowsOf(work'[v])
                              THEN {} ELSE {Matrices[x]}
    <3>1. made[x] = IF x >= job.next \/ \E v \in Workers : x \in RowsOf(work[v]) THEN {} ELSE {Matrices[x]}
      BY DEF made, Made
    <3>2. CASE x \in RowsOf(c)
      <4>1. c.r \in RowsOf(c) /\ x < job.next /\ c.r \in 0..all - 1 /\ x \in Int /\ job.next \in Int
        BY <1>2, <1>4, <1>6, <3>2 DEF ClaimOK, RowsOf
      <4>2. Matrices[x] = MatrixOf(Tensor, c.r)
        BY <1>6, <3>2, <4>1 DEF ClaimOK, Matrices, all
      <4>3. made[x] = {}
        BY <3>1, <3>2
      <4>4. ~(x >= job.next)
        BY <4>1
      <4>5. ~ \E v \in Workers : x \in RowsOf(work'[v])
        BY <1>4, <1>5, <1>7, <3>2
      <4> QED BY <1>8, <2>1, <3>2, <4>2, <4>3, <4>4, <4>5
    <3>3. CASE x \notin RowsOf(c)
      <4>1. (\E v \in Workers : x \in RowsOf(work'[v])) <=> (\E v \in Workers : x \in RowsOf(work[v]))
        BY <1>5, <1>7, <3>3
      <4> QED BY <1>8, <2>1, <3>1, <3>3, <4>1
    <3> QED BY <3>2, <3>3
  <2>3. DOMAIN job'.made = DOMAIN Matrices /\ job'.made = [x \in DOMAIN Matrices |-> job'.made[x]]
    BY <1>8, <2>1
  <2> QED BY <2>2, <2>3 DEF Made
<1>10. work' \in [Workers -> {Idle, Gone} \cup [r : Nat, nr : Nat]]
  BY <1>0, <1>4
<1>11. \A v \in Workers : /\ work'[v] = Gone => job'.next >= all
                          /\ work'[v] \in {Idle, Gone} \/ ClaimOK(work'[v], job'.next, Matrices)
  BY <1>4, <1>5, <1>7, <1>8
<1>12. \A u, v \in Workers : u # v => RowsOf(work'[u]) \cap RowsOf(work'[v]) = {}
  BY <1>4, <1>5, <1>7
<1>13. RowsOnce'
  BY <1>0, <1>1, <1>4, <1>8, <1>9, <1>10, <1>11, <1>12 DEF RowsOnce, all
<1> QED BY <1>3, <1>13 DEF QuantizeInv

\* The file that gets the final name is the plan to its end
LEMMA RenameKeeps ==
    ASSUME QuantizeInv, RenameOutput
    PROVE  QuantizeInv'
<1>0. /\ input \in Inputs /\ Len(input) \in Nat /\ plan \in Seq(Nat) /\ idx = Len(input) + 1
      /\ Len(plan) = Len(input) + 1 /\ qPc = "close" /\ qPc' = "exit" /\ out' = written /\ tmp' = NoFile
      /\ UNCHANGED <<input, atomic, plan, idx, written>> /\ Sizes' = Sizes
  BY InputFacts, SizesStay DEF QuantizeInv, QuantizeTypes, PlanAdds, WrittenAsPlanned, RenameOutput
<1>1. Len(written) = PlannedSize /\ \A i \in 1..Len(input) : InPlace(written, plan, Sizes, i)
  BY <1>0 DEF QuantizeInv, WrittenAsPlanned, PlannedSize
<1>2. QuantizeTypes' /\ PlanAdds' /\ WrittenAsPlanned' /\ RowsOnce'
  BY <1>0 DEF QuantizeInv, QuantizeTypes, PlanAdds, WrittenAsPlanned, RowsOnce
<1>3. OutWhole'
  BY <1>0, <1>1 DEF OutWhole, PlannedSize
<1> QED BY <1>2, <1>3 DEF QuantizeInv

\* The inductive invariant of the quantizer
THEOREM QuantizeInvariant == QSpec => []QuantizeInv
<1>1. QInit => QuantizeInv
  <2> SUFFICES ASSUME QInit PROVE QuantizeInv
    OBVIOUS
  <2>1. input \in Inputs /\ Len(input) \in Nat /\ plan = <<0>> /\ Len(plan) = 1 /\ plan[1] = 0 /\ plan \in Seq(Nat)
    BY InputFacts DEF QInit
  <2>2. QuantizeTypes
    <3>1. written \in Seq(FileByte)
      BY EmptySeq DEF QInit
    <3> QED BY <2>1, <3>1 DEF QInit, QuantizeTypes
  <2>3. PlanAdds /\ WrittenAsPlanned /\ RowsOnce /\ OutWhole
    BY <2>1 DEF QInit, PlanAdds, WrittenAsPlanned, RowsOnce, OutWhole
  <2> QED BY <2>2, <2>3 DEF QuantizeInv
<1>2. QuantizeInv /\ [QNext]_qVars => QuantizeInv'
  <2> SUFFICES ASSUME QuantizeInv, [QNext]_qVars PROVE QuantizeInv'
    OBVIOUS
  <2>1. CASE PlanTensor
    BY <2>1, PlanTensorKeeps
  <2>2. CASE OpenOutput
    BY <2>2, AsideKeeps DEF OpenOutput
  <2>3. CASE WriteHeader
    BY <2>3, HeaderKeeps
  <2>4. CASE CopyTensor
    BY <2>4, AppendedKeeps DEF CopyTensor
  <2>5. CASE StartConvert
    BY <2>5, StartConvertKeeps
  <2>6. CASE EndConvert
    <3>1. idx <= Len(input)
      BY <2>6 DEF EndConvert, QuantizeInv, WrittenAsPlanned
    <3> QED BY <2>6, <3>1, AppendedKeeps DEF EndConvert
  <2>7. CASE CloseOutput
    BY <2>7, AsideKeeps DEF CloseOutput
  <2>8. CASE RenameOutput
    BY <2>8, RenameKeeps
  <2>9. CASE QuantizeFails
    BY <2>9, AsideKeeps DEF QuantizeFails, Die
  <2>10. CASE Killed
    BY <2>10, AsideKeeps DEF Killed
  <2>11. ASSUME NEW w \in Workers, Claim(w) \/ QuantizeChunk(w) PROVE QuantizeInv'
    BY <2>11, ClaimKeeps, ChunkKeeps
  <2>12. CASE UNCHANGED qVars
    <3>1. /\ UNCHANGED <<input, synthetic, atomic, qPc, plan, idx, written, tmp, out, job, work>>
          /\ Sizes' = Sizes /\ Matrices' = Matrices /\ Tensor' = Tensor
      BY <2>12, SizesStay DEF qVars
    <3> QED BY <3>1 DEF QuantizeInv, QuantizeTypes, PlanAdds, WrittenAsPlanned, RowsOnce, OutWhole, PlannedSize
  <2> QED BY <2>1, <2>2, <2>3, <2>4, <2>5, <2>6, <2>7, <2>8, <2>9, <2>10, <2>11, <2>12 DEF QNext
<1> QED BY <1>1, <1>2, PTL DEF QSpec

\* However the threads of quant_worker take turns, whatever fails and wherever the process is
\* killed, every row was quantized once with its expert's matrix, and --out is what it was or a
\* file in which every tensor lies where make_plan put it
THEOREM QuantizerOutputWhole == QSpec => []OutputWhole
<1>1. QuantizeInv => OutputWhole
  <2> SUFFICES ASSUME QuantizeInv PROVE OutputWhole
    OBVIOUS
  <2>0. input \in Inputs /\ Len(input) \in Nat /\ plan \in Seq(Nat)
    BY InputFacts DEF QuantizeInv, QuantizeTypes
  <2>1. ASSUME qPc = "convert", \A w \in Workers : work[w] = Gone, NEW x \in DOMAIN job.made
        PROVE  job.made[x] = {MatrixOf(Tensor, x)}
    <3>1. idx \in 1..Len(input) /\ Tensor \in TensorInfo /\ AllRows(Tensor) \in Nat
      BY <2>0, <2>1, InputFacts, SizeFacts DEF QuantizeInv, QuantizeTypes, WrittenAsPlanned, Tensor
    <3>2. /\ job.next \in 0..AllRows(Tensor) /\ job.made = Made(job.next, work, Matrices)
          /\ \A w \in Workers : job.next >= AllRows(Tensor)
      BY <2>1 DEF QuantizeInv, RowsOnce
    <3>3. job.next = AllRows(Tensor)
      BY <3>1, <3>2, QuantizeAssumption
    <3>4. DOMAIN job.made = 0..AllRows(Tensor) - 1
      BY <3>2 DEF Made, Matrices
    <3>5. \A w \in Workers : RowsOf(work[w]) = {}
      BY <2>1 DEF RowsOf, Gone
    <3>6. ~(x >= job.next) /\ Matrices[x] = MatrixOf(Tensor, x)
      BY <2>1, <3>1, <3>3, <3>4 DEF Matrices
    <3> QED BY <2>1, <3>2, <3>4, <3>5, <3>6 DEF Made, Matrices
  <2>2. ASSUME atomic, out \notin {NoFile, Old}
        PROVE  Len(out) = PlannedSize /\ \A i \in 1..Len(input) : At(out, i) = Bytes(i, TensorSize(input[i]))
    <3>1. Len(out) = PlannedSize /\ \A i \in 1..Len(input) : InPlace(out, plan, Sizes, i)
      BY <2>2 DEF QuantizeInv, OutWhole
    <3>2. \A i \in 1..Len(input) : Sizes[i] = TensorSize(input[i])
      BY <2>0, InputFacts
    <3> QED BY <3>1, <3>2 DEF InPlace, At
  <2>3. qPc = "exit" => tmp = NoFile
    BY DEF QuantizeInv, OutWhole
  <2> QED BY <2>1, <2>2, <2>3 DEF OutputWhole
<1> QED BY <1>1, QuantizeInvariant, PTL

-----------------------------------------------------------------------------
(* Streaming                                                               *)

-----------------------------------------------------------------------------
(* Arithmetic                                                              *)

LEMMA WrapSmall == ASSUME NEW M \in Nat, NEW a \in 0..M PROVE a % (M + 1) = a
  OBVIOUS

LEMMA WrapRange == ASSUME NEW M \in Nat, NEW a \in Int PROVE a % (M + 1) \in 0..M
  OBVIOUS

LEMMA WrapOver == ASSUME NEW M \in Nat, M >= 9, NEW a \in 0..M, a + 9 > M PROVE (a + 9) % (M + 1) = a + 9 - (M + 1)
  OBVIOUS

LEMMA DivBound == ASSUME NEW a \in Nat, NEW b \in Nat \ {0} PROVE a \div b \in Nat /\ (a \div b) * b <= a
  OBVIOUS

\* Releasing a tenth leaves nine tenths, or nothing of the last one
LEMMA ShrinkBounds ==
    ASSUME NEW c \in 0..Max32, NEW d, d = p36_ssd_shrink_cache_experts(c)
    PROVE  d \in 0..c /\ (10 * d + 9 >= 9 * c)
<1> DEFINE w == (c + 9) % (Max32 + 1)
           release == w \div 10
<1>1. Max32 \in Nat /\ Max32 >= 9
  BY StreamAssumption
<1>2. w \in Nat /\ w <= c + 9
  <2>1. CASE c + 9 <= Max32
    BY <1>1, <2>1, WrapSmall
  <2>2. CASE c + 9 > Max32
    BY <1>1, <2>2, WrapOver
  <2> QED BY <1>1, <2>1, <2>2
<1>3. d = IF c > release THEN c - release ELSE 0
  BY DEF p36_ssd_shrink_cache_experts
<1> HIDE DEF w
<1>4. release \in Nat /\ 10 * release <= c + 9
  BY <1>1, <1>2
<1> HIDE DEF release
<1> QED BY <1>1, <1>3, <1>4

\* The sizes a device is asked for
LEMMA TriedTurns ==
    ASSUME NEW from \in 0..Max32, NEW room \in Nat
    PROVE  \E g \in [0..from -> (0..from)] :
              g[0] = from /\ Allocated(from, room) = (IF g[from] > room THEN Endless ELSE g[from])
              /\ \A k \in 1..from : g[k] = IF g[k - 1] <= room THEN g[k - 1] ELSE p36_ssd_shrink_cache_experts(g[k - 1])
<1> DEFINE N == from
           next(x, k) == IF x <= room THEN x ELSE p36_ssd_shrink_cache_experts(x)
           Step == [q \in (0..from) \X (1..N) |-> next(q[1], q[2])]
           p == CHOOSE g : g = [k \in 0..N |-> IF k = 0 THEN from ELSE next(g[k - 1], k)]
<1>1. N \in Nat /\ from \in (0..from)
  BY StreamAssumption
<1>2. \A x \in (0..from), k \in 1..N : next(x, k) \in (0..from)
  <2> SUFFICES ASSUME NEW x \in 0..from, NEW k \in 1..N PROVE next(x, k) \in 0..from
    OBVIOUS
  <2>1. x \in 0..Max32 /\ Max32 \in Nat
    BY StreamAssumption
  <2>2. p36_ssd_shrink_cache_experts(x) \in 0..x
    BY <2>1, ShrinkBounds
  <2> QED BY <2>1, <2>2
<1>3. Allocated(from, room) = IF p[N] > room THEN Endless ELSE p[N]
  BY DEF Allocated
<1> HIDE DEF next, N
<1>4. Step \in [(0..from) \X (1..N) -> (0..from)]
  BY <1>2
<1>5. PICK g : g \in Turns(N, (0..from), from, Step)
  <2> HIDE DEF Step
  <2> QED BY <1>1, <1>4, TurnsExist
<1>6. g \in [0..N -> (0..from)] /\ g[0] = from /\ \A k \in 1..N : g[k] = next(g[k - 1], k)
  <2>1. g \in [0..N -> (0..from)] /\ g[0] = from /\ \A k \in 1..N : g[k] = Step[<<g[k - 1], k>>]
    BY <1>5 DEF Turns
  <2>2. ASSUME NEW k \in 1..N PROVE g[k] = next(g[k - 1], k)
    <3>1. <<g[k - 1], k>> \in (0..from) \X (1..N)
      BY <1>1, <2>1
    <3> QED BY <2>1, <3>1
  <2> QED BY <2>1, <2>2
<1>7. g = [k \in 0..N |-> IF k = 0 THEN from ELSE next(g[k - 1], k)]
  BY <1>1, <1>6
<1>8. p = [k \in 0..N |-> IF k = 0 THEN from ELSE next(p[k - 1], k)]
  BY <1>7
<1> HIDE DEF p
<1>9. p[0] = from /\ \A k \in 1..N : p[k] = next(p[k - 1], k)
  BY <1>1, <1>8
<1>10. Alike(N, p, g)
  BY <1>1, <1>6, <1>8, <1>9 DEF Alike
<1>11. p = g
  BY <1>1, <1>10, SameTurns
<1> QED BY <1>3, <1>6, <1>11 DEF next, N

\* What the first layers take
LEMMA ResidentTurns ==
    ASSUME NEW layers \in Seq(Nat \ {0}), NEW n \in 0..Len(layers)
    PROVE  \E g \in [0..n -> Nat] :
              g[0] = 0 /\ Resident(layers, n) = g[n] /\ \A k \in 1..n : g[k] = g[k - 1] + layers[k] * NExpert
<1> DEFINE N == n
           next(x, k) == x + layers[k] * NExpert
           Step == [q \in Nat \X (1..N) |-> next(q[1], q[2])]
           p == CHOOSE g : g = [k \in 0..N |-> IF k = 0 THEN 0 ELSE next(g[k - 1], k)]
<1>1. N \in Nat /\ 0 \in Nat
  OBVIOUS
<1>2. \A x \in Nat, k \in 1..N : next(x, k) \in Nat
  <2> SUFFICES ASSUME NEW x \in Nat, NEW k \in 1..N PROVE next(x, k) \in Nat
    OBVIOUS
  <2>1. layers[k] \in Nat /\ NExpert \in Nat
    BY ElementOfSeq, StreamAssumption
  <2>2. layers[k] * NExpert \in Nat
    BY <2>1
  <2> QED BY <2>2
<1>3. Resident(layers, n) = p[N]
  BY DEF Resident
<1> HIDE DEF next, N
<1>4. Step \in [Nat \X (1..N) -> Nat]
  BY <1>2
<1>5. PICK g : g \in Turns(N, Nat, 0, Step)
  <2> HIDE DEF Step
  <2> QED BY <1>1, <1>4, TurnsExist
<1>6. g \in [0..N -> Nat] /\ g[0] = 0 /\ \A k \in 1..N : g[k] = next(g[k - 1], k)
  <2>1. g \in [0..N -> Nat] /\ g[0] = 0 /\ \A k \in 1..N : g[k] = Step[<<g[k - 1], k>>]
    BY <1>5 DEF Turns
  <2>2. ASSUME NEW k \in 1..N PROVE g[k] = next(g[k - 1], k)
    <3>1. <<g[k - 1], k>> \in Nat \X (1..N)
      BY <1>1, <2>1
    <3> QED BY <2>1, <3>1
  <2> QED BY <2>1, <2>2
<1>7. g = [k \in 0..N |-> IF k = 0 THEN 0 ELSE next(g[k - 1], k)]
  BY <1>1, <1>6
<1>8. p = [k \in 0..N |-> IF k = 0 THEN 0 ELSE next(p[k - 1], k)]
  BY <1>7
<1> HIDE DEF p
<1>9. p[0] = 0 /\ \A k \in 1..N : p[k] = next(p[k - 1], k)
  BY <1>1, <1>8
<1>10. Alike(N, p, g)
  BY <1>1, <1>6, <1>8, <1>9 DEF Alike
<1>11. p = g
  BY <1>1, <1>10, SameTurns
<1> QED BY <1>3, <1>6, <1>11 DEF next, N

\* What a device allocates is no more than asked for, and nine tenths of what it has room for,
\* unless the loop never ends
LEMMA AllocatedBounds ==
    ASSUME NEW from \in 0..Max32, NEW room \in Nat
    PROVE  /\ Allocated(from, room) = Endless \/ Allocated(from, room) \in 0..from
           /\ Allocated(from, room) \in Nat
           /\ 10 * Allocated(from, room) + 9 >= 9 * Least2(room, from)
<1>1. Max32 \in Nat /\ from \in Nat /\ Endless \in Nat /\ Endless > from
  BY StreamAssumption DEF Endless
<1>2. PICK g \in [0..from -> 0..from] :
         g[0] = from /\ Allocated(from, room) = (IF g[from] > room THEN Endless ELSE g[from])
         /\ \A k \in 1..from : g[k] = IF g[k - 1] <= room THEN g[k - 1] ELSE p36_ssd_shrink_cache_experts(g[k - 1])
  BY TriedTurns
<1> DEFINE S == {k \in 0..from : 10 * g[k] + 9 >= 9 * Least2(room, from)}
<1>3. 0 \in S
  BY <1>1, <1>2 DEF Least2
<1>4. ASSUME NEW k \in 0..from - 1, k \in S PROVE k + 1 \in S
  <2>1. k + 1 \in 1..from /\ k + 1 \in 0..from /\ (k + 1) - 1 = k /\ k \in 0..from
    BY <1>1
  <2> DEFINE c == g[k]
             d == g[k + 1]
  <2>2. c \in 0..from /\ d \in 0..from /\ d = (IF c <= room THEN c ELSE p36_ssd_shrink_cache_experts(c))
        /\ 10 * c + 9 >= 9 * Least2(room, from)
    BY <1>2, <1>4, <2>1
  <2> HIDE DEF c, d
  <2>3. CASE c <= room
    BY <2>1, <2>2, <2>3 DEF d
  <2>4. CASE c > room
    <3>1. 10 * d + 9 >= 9 * c
      BY <1>1, <2>2, <2>4, ShrinkBounds
    <3>2. Least2(room, from) \in Nat /\ Least2(room, from) <= room
      BY <1>1 DEF Least2
    <3>3. 10 * d + 9 >= 9 * Least2(room, from)
      BY <1>1, <2>2, <2>4, <3>1, <3>2
    <3> QED BY <2>1, <3>3 DEF d
  <2> QED BY <1>1, <2>2, <2>3, <2>4
<1>5. from \in S
  <2>1. \A k \in 0..from : k \in S
    <3> HIDE DEF S
    <3> QED BY <1>1, <1>3, <1>4, UpTo
  <2> QED BY <1>1, <2>1
<1>6. g[from] \in 0..from /\ 10 * g[from] + 9 >= 9 * Least2(room, from)
  BY <1>1, <1>2, <1>5
<1>7. Least2(room, from) \in Nat /\ Least2(room, from) <= from
  BY <1>1 DEF Least2
<1> QED BY <1>1, <1>2, <1>6, <1>7

LEMMA ResidentNat ==
    ASSUME NEW layers \in Seq(Nat \ {0}), NEW n \in 0..Len(layers)
    PROVE  Resident(layers, n) \in Nat
<1>1. PICK g \in [0..n -> Nat] :
         g[0] = 0 /\ Resident(layers, n) = g[n] /\ \A k \in 1..n : g[k] = g[k - 1] + layers[k] * NExpert
  BY ResidentTurns
<1>2. n \in 0..n
  OBVIOUS
<1> QED BY <1>1, <1>2

LEMMA MulMono == ASSUME NEW a \in Nat, NEW b \in Nat, a <= b, NEW c \in Nat PROVE a * c <= b * c /\ a * c \in Nat /\ b * c \in Nat
  OBVIOUS

-----------------------------------------------------------------------------
(* The contexts of the sessions                                            *)

MemoryBytes(r) == UNION {{s} \X (1..r[s]) : s \in SessionIds}
Live(r) == {s \in SessionIds : r[s] # 0}

\* A session's bytes add to those of the others
LEMMA SessionAdds ==
    ASSUME NEW r \in [SessionIds -> Nat], NEW s \in SessionIds, r[s] = 0, NEW n \in Nat \ {0},
           IsFiniteSet(MemoryBytes(r))
    PROVE  /\ IsFiniteSet(MemoryBytes([r EXCEPT ![s] = n]))
           /\ Cardinality(MemoryBytes([r EXCEPT ![s] = n])) = Cardinality(MemoryBytes(r)) + n
           /\ Cardinality(Live([r EXCEPT ![s] = n])) = Cardinality(Live(r)) + 1
           /\ Cardinality(MemoryBytes(r)) \in Nat /\ Cardinality(Live(r)) \in Nat
<1> DEFINE q == [r EXCEPT ![s] = n]
<1> DEFINE B == {s} \X (1..n)
           A == MemoryBytes(r)
<1>1. MemoryBytes(q) = A \cup B /\ A \cap B = {}
  <2>1. \A x \in SessionIds : x # s => q[x] = r[x]
    OBVIOUS
  <2>2. q[s] = n /\ (1..r[s]) = {}
    OBVIOUS
  <2>3. MemoryBytes(q) \subseteq A \cup B
    <3> SUFFICES ASSUME NEW x \in SessionIds, NEW b \in {x} \X (1..q[x]) PROVE b \in A \cup B
      BY DEF MemoryBytes
    <3> QED BY <2>1, <2>2 DEF MemoryBytes
  <2>4. A \subseteq MemoryBytes(q) /\ A \cap B = {}
    <3> SUFFICES ASSUME NEW x \in SessionIds, NEW b \in {x} \X (1..r[x]) PROVE b \in MemoryBytes(q) /\ b \notin B
      BY DEF MemoryBytes
    <3>1. x # s
      BY <2>2
    <3> QED BY <2>1, <3>1 DEF MemoryBytes
  <2>5. B \subseteq MemoryBytes(q)
    BY <2>2 DEF MemoryBytes
  <2> QED BY <2>3, <2>4, <2>5
<1>2. IsFiniteSet(B) /\ Cardinality(B) = n
  <2>1. IsFiniteSet(1..n) /\ Cardinality(1..n) = n
    <3>1. 1 \in Int /\ n \in Int /\ 1 <= n /\ n - 1 + 1 = n
      OBVIOUS
    <3> QED BY ONLY <3>1, FS_Interval
  <2>2. IsFiniteSet({s}) /\ Cardinality({s}) = 1
    BY FS_Singleton
  <2>3. /\ IsFiniteSet({s} \X (1..n))
        /\ Cardinality({s} \X (1..n)) = Cardinality({s}) * Cardinality(1..n)
    BY ONLY <2>1, <2>2, FS_Product
  <2> QED BY <2>1, <2>2, <2>3
<1>3. IsFiniteSet(A) /\ Cardinality(A) \in Nat
  BY FS_CardinalityType
<1> HIDE DEF A, B
<1>4. Cardinality(A \cap B) = 0
  BY <1>1, FS_EmptySet, Zenon
<1>5. IsFiniteSet(A \cup B) /\ Cardinality(A \cup B) = Cardinality(A) + Cardinality(B) - Cardinality(A \cap B)
  BY <1>2, <1>3, FS_Union
<1>6. IsFiniteSet(Live(r))
  <2>1. Live(r) \in SUBSET SessionIds
    BY DEF Live
  <2> QED BY <2>1, StreamAssumption, FS_Subset
<1>7. Live(q) = Live(r) \cup {s} /\ s \notin Live(r)
  BY DEF Live
<1>8. Cardinality(Live(r) \cup {s}) = Cardinality(Live(r)) + 1 /\ Cardinality(Live(r)) \in Nat
  BY ONLY <1>6, <1>7, FS_AddElement, FS_CardinalityType
<1>9. Cardinality(A \cup B) = Cardinality(A) + n
  BY <1>2, <1>3, <1>4, <1>5
<1> HIDE DEF q
<1>10. IsFiniteSet(MemoryBytes(q)) /\ Cardinality(MemoryBytes(q)) = Cardinality(MemoryBytes(r)) + n
  BY <1>1, <1>5, <1>9 DEF A
<1> QED BY <1>3, <1>7, <1>8, <1>10 DEF A, q

\* The inductive invariant of an engine's memory
Slab == [budget : 0..Max32, cap : 0..Max32, runtime : 0..Max32]
Engine == [cache : 0..Max32, full : Nat, hint : Nat, bytes : Nat, live : Nat]

\* What is promised stays within the model's share
Within(o, full, bytes, cache) ==
    bytes + Fixed + Resident(o.layers, full) + cache * o.layers[1] + Margin <= (o.rec \div 5) * 4

EngineInv(pc, o, e, r, b, m) ==
    /\ pc \in {"start", "lock", "seed", "open", "closed"} /\ o \in Setups
    /\ e \in Engine /\ r \in [SessionIds -> Nat]
    /\ b \in Slab /\ m \in [mapped : Nat, locked : Nat]
    /\ e.full <= Len(o.layers) /\ b.cap <= b.budget /\ b.runtime <= b.budget
    /\ IsFiniteSet(MemoryBytes(r)) /\ e.bytes = Cardinality(MemoryBytes(r)) /\ e.live = Cardinality(Live(r))
    /\ pc # "open" => e.live = 0
    /\ pc \notin {"seed", "open"} => e = NoEngine /\ b.cap = 0
    /\ pc \in {"start", "closed"} => m = Unlocked
    /\ pc = "lock" => m.mapped = p36_parse_gib_arg(o.used) /\ m.locked <= m.mapped
    /\ pc \in {"seed", "open"} => m.locked = p36_parse_gib_arg(o.used) /\ b.budget = e.cache
    /\ e.live > 0 => Within(o, e.full, e.bytes, e.cache)

StreamInv == EngineInv(ssdPc, setup, eng, reserved, slab, sim)

\* What the invariant says of the constants of a setup
LEMMA SetupFacts ==
    ASSUME NEW o \in Setups
    PROVE  /\ o.layers \in Seq(Nat \ {0}) /\ Len(o.layers) \in Nat \ {0} /\ o.layers[1] \in Nat \ {0}
           /\ o.rec \in Nat /\ (o.rec \div 5) * 4 \in Nat /\ o.full \in Nat /\ o.planned \in Nat
           /\ o.used \in Nat /\ o.cache \in Nat /\ o.gb \in BOOLEAN /\ o.preload \in BOOLEAN
           /\ CtxBytes[o.ctx] \in Nat \ {0} /\ p36_parse_gib_arg(o.used) \in Nat
           /\ p36_parse_gib_arg(o.cache) \in Nat
<1>1. /\ o.layers \in Seq(Nat \ {0}) /\ o.layers # <<>> /\ o.rec \in Nat /\ o.full \in Nat /\ o.planned \in Nat
      /\ o.used \in Nat /\ o.cache \in Nat /\ o.gb \in BOOLEAN /\ o.preload \in BOOLEAN /\ o.ctx \in DOMAIN CtxBytes
  BY StreamAssumption
<1>2. Len(o.layers) \in Nat \ {0}
  BY <1>1, EmptySeq
<1>3. o.layers[1] \in Nat \ {0}
  BY <1>1, <1>2, ElementOfSeq
<1>4. CtxBytes[o.ctx] \in Nat \ {0}
  BY <1>1, StreamAssumption, ElementOfSeq, LenProperties
<1>5. \A n \in Nat : p36_parse_gib_arg(n) \in Nat
  BY StreamAssumption DEF p36_parse_gib_arg
<1>6. (o.rec \div 5) * 4 \in Nat
  BY <1>1
<1> QED BY <1>1, <1>2, <1>3, <1>4, <1>5, <1>6

\* An engine without sessions has none of their bytes
LEMMA NoSessions ==
    ASSUME NEW r \in [SessionIds -> Nat], Cardinality(Live(r)) = 0
    PROVE  MemoryBytes(r) = {} /\ Cardinality(MemoryBytes(r)) = 0
<1>1. Live(r) \in SUBSET SessionIds
  BY DEF Live
<1>2. IsFiniteSet(Live(r))
  BY <1>1, StreamAssumption, FS_Subset
<1>3. Live(r) = {}
  BY <1>2, FS_EmptySet
<1>4. \A s \in SessionIds : (1..r[s]) = {}
  BY <1>3 DEF Live
<1>5. MemoryBytes(r) = {}
  BY <1>4 DEF MemoryBytes
<1> QED BY <1>5, FS_EmptySet

\* A session's bytes go with it
LEMMA SessionGoes ==
    ASSUME NEW r \in [SessionIds -> Nat], NEW s \in SessionIds, r[s] # 0, NEW q, q = [r EXCEPT ![s] = 0],
           IsFiniteSet(MemoryBytes(r))
    PROVE  /\ IsFiniteSet(MemoryBytes(q)) /\ Cardinality(MemoryBytes(r)) = Cardinality(MemoryBytes(q)) + r[s]
           /\ Cardinality(Live(r)) = Cardinality(Live(q)) + 1
           /\ Cardinality(MemoryBytes(q)) \in Nat /\ Cardinality(Live(q)) \in Nat
<1>1. q \in [SessionIds -> Nat] /\ q[s] = 0 /\ r = [q EXCEPT ![s] = r[s]] /\ r[s] \in Nat \ {0}
  OBVIOUS
<1>2. MemoryBytes(q) \in SUBSET MemoryBytes(r)
  <2> SUFFICES ASSUME NEW x \in SessionIds, NEW b \in {x} \X (1..q[x]) PROVE b \in MemoryBytes(r)
    BY DEF MemoryBytes
  <2>1. x # s
    BY <1>1
  <2>2. q[x] = r[x]
    BY <2>1
  <2> QED BY <2>2 DEF MemoryBytes
<1>3. IsFiniteSet(MemoryBytes(q))
  BY <1>2, FS_Subset
<1> QED BY <1>1, <1>3, SessionAdds

LEMMA ShareBounds ==
    ASSUME NEW a \in Nat, NEW b \in Nat PROVE Least2(a, b) \in Nat /\ Least2(a, b) <= a /\ Least2(a, b) <= b
  BY DEF Least2

\* Fewer whole layers than the model has
LEMMA WholeLayersBound ==
    ASSUME NEW o \in Setups, NEW n \in Nat \ {0}, NEW c \in Nat, c <= n * NExpert, c > NExpert
    PROVE  (c - NExpert) \div NExpert \in 0..n
<1>1. NExpert \in Nat \ {0} /\ c - NExpert \in Nat
  BY StreamAssumption
<1> DEFINE d == (c - NExpert) \div NExpert
<1>2. d \in Nat /\ d * NExpert <= c - NExpert
  BY <1>1, DivBound
<1> HIDE DEF d
<1>3. ~(d > n)
  <2> SUFFICES ASSUME d > n PROVE FALSE
    OBVIOUS
  <2>1. n * NExpert <= d * NExpert
    BY <1>1, <1>2, MulMono
  <2> QED BY <1>1, <1>2, <2>1
<1> QED BY <1>2, <1>3 DEF d

\* The plan has no more experts than the model
LEMMA AutoCacheBound ==
    ASSUME NEW hint \in Nat, setup \in Setups
    PROVE  AutoCache(hint) \in Nat /\ AutoCache(hint) <= Len(setup.layers) * NExpert
<1>1. /\ Len(setup.layers) \in Nat \ {0} /\ setup.layers[1] \in Nat \ {0} /\ setup.rec \in Nat
      /\ setup.planned \in Nat /\ setup.cache \in Nat /\ setup.gb \in BOOLEAN
      /\ p36_parse_gib_arg(setup.cache) \in Nat
  BY SetupFacts
<1>2. Max32 \in Nat /\ Fixed \in Nat /\ NExpert \in Nat \ {0} /\ Margin \in Nat
  BY StreamAssumption
<1> DEFINE most == Len(setup.layers) * NExpert
<1>3. most \in Nat \ {0}
  BY <1>1, <1>2
<1>4. ASSUME NEW limit \in Nat
      PROVE  LET experts == p36_ssd_auto_cache_plan(setup.rec, 80, limit, Fixed, Slot, most)
             IN  experts \in Nat /\ experts <= most
  <2> DEFINE share == (setup.rec \div 100) * 80 + ((setup.rec % 100) * 80) \div 100
             target == IF limit # 0 /\ share > limit THEN limit ELSE share
             bytes == IF target > Fixed THEN target - Fixed ELSE 0
             q == bytes \div Slot
             experts == IF q = 0 THEN 1 ELSE q
  <2>1. share \in Nat
    BY <1>1
  <2>2. bytes \in Nat
    BY <1>2, <2>1
  <2> HIDE DEF share, bytes
  <2>3. q \in Nat
    BY <1>1, <2>2, DivBound DEF Slot
  <2>4. p36_ssd_auto_cache_plan(setup.rec, 80, limit, Fixed, Slot, most)
          = Least2(IF most # 0 THEN Least2(experts, most) ELSE experts, Max32)
    BY DEF p36_ssd_auto_cache_plan, share, bytes
  <2> HIDE DEF q, most
  <2>5. Least2(experts, most) \in Nat /\ Least2(experts, most) <= most
    BY <1>3, <2>3, ShareBounds
  <2> QED BY <1>2, <1>3, <2>4, <2>5, ShareBounds
<1> DEFINE limit == ModelLimit(hint * setup.planned)
           arg == CacheArg(setup)
           requested == IF arg.bytes # 0 THEN arg.bytes \div Slot ELSE arg.experts
           experts == p36_ssd_auto_cache_plan(setup.rec, 80, limit, Fixed, Slot, most)
<1>5. limit \in Nat
  <2>1. hint * setup.planned \in Nat /\ ModelBudget \in Nat
    BY <1>1 DEF ModelBudget
  <2> QED BY <1>2, <2>1 DEF ModelLimit
<1>6. experts \in Nat /\ experts <= most
  BY <1>4, <1>5
<1>7. requested \in Nat
  <2>1. arg.experts \in Nat /\ arg.bytes \in Nat
    BY <1>1 DEF CacheArg, p36_parse_streaming_cache_experts_arg
  <2> HIDE DEF arg
  <2>2. arg.bytes \div Slot \in Nat
    BY <1>1, <2>1, DivBound DEF Slot
  <2> QED BY <2>1, <2>2
<1>8. AutoCache(hint) \in {0, Least2(experts, requested), experts}
  BY DEF AutoCache
<1> HIDE DEF experts, requested, most
<1>9. Least2(experts, requested) \in Nat /\ Least2(experts, requested) <= most
  BY <1>3, <1>6, <1>7, ShareBounds
<1> QED BY <1>3, <1>6, <1>8, <1>9 DEF most

\* The sizes of the constants
LEMMA SizesAre ==
    /\ Max32 \in Nat /\ LockChunk \in Nat /\ Fixed \in Nat /\ NExpert \in Nat \ {0}
    /\ NUsed \in Nat \ {0} /\ Margin \in Nat /\ Rooms \subseteq Nat
  BY StreamAssumption

\* An engine's record, field by field
LEMMA EngineFields ==
    ASSUME NEW e \in Engine
    PROVE  e.cache \in 0..Max32 /\ e.full \in Nat /\ e.hint \in Nat /\ e.bytes \in Nat /\ e.live \in Nat
  BY DEF Engine

LEMMA EngineMade ==
    ASSUME NEW c \in 0..Max32, NEW f \in Nat, NEW h \in Nat, NEW n \in Nat, NEW l \in Nat
    PROVE  [cache |-> c, full |-> f, hint |-> h, bytes |-> n, live |-> l] \in Engine
  BY DEF Engine

LEMMA SlabFields ==
    ASSUME NEW b \in Slab
    PROVE  b.budget \in 0..Max32 /\ b.cap \in 0..Max32 /\ b.runtime \in 0..Max32
  BY DEF Slab

LEMMA SlabMade ==
    ASSUME NEW n \in 0..Max32, NEW c \in 0..Max32, NEW r \in 0..Max32
    PROVE  [budget |-> n, cap |-> c, runtime |-> r] \in Slab
  BY DEF Slab

LEMMA SlabChanged ==
    ASSUME NEW b \in Slab, NEW c \in 0..Max32, NEW r \in 0..Max32
    PROVE  /\ [b EXCEPT !.cap = c] = [budget |-> b.budget, cap |-> c, runtime |-> b.runtime]
           /\ [b EXCEPT !.cap = c, !.runtime = r] = [budget |-> b.budget, cap |-> c, runtime |-> r]
           /\ [b EXCEPT !.cap = c] \in Slab /\ [b EXCEPT !.cap = c, !.runtime = r] \in Slab
<1>1. b = [budget |-> b.budget, cap |-> b.cap, runtime |-> b.runtime]
  BY DEF Slab
<1>2. /\ [b EXCEPT !.cap = c] = [budget |-> b.budget, cap |-> c, runtime |-> b.runtime]
      /\ [b EXCEPT !.cap = c, !.runtime = r] = [budget |-> b.budget, cap |-> c, runtime |-> r]
  <2> DEFINE d == [b EXCEPT !.cap = c]
  <2>1. d = [budget |-> b.budget, cap |-> c, runtime |-> b.runtime]
    BY <1>1
  <2>2. [b EXCEPT !.cap = c, !.runtime = r] = [d EXCEPT !.runtime = r]
    OBVIOUS
  <2> HIDE DEF d
  <2>3. [d EXCEPT !.runtime = r] = [budget |-> b.budget, cap |-> c, runtime |-> r]
    BY <2>1
  <2> QED BY <2>1, <2>2, <2>3 DEF d
<1>3. b.budget \in 0..Max32 /\ b.runtime \in 0..Max32
  BY SlabFields
<1>4. /\ [budget |-> b.budget, cap |-> c, runtime |-> b.runtime] \in Slab
      /\ [budget |-> b.budget, cap |-> c, runtime |-> r] \in Slab
  BY <1>3, SlabMade
<1> QED BY ONLY <1>2, <1>4

\* A cache of no experts or more whose budget is set
LEMMA BudgetSet ==
    ASSUME NEW b \in Slab, NEW n \in 0..Max32, b.cap <= b.budget, b.runtime <= b.budget
    PROVE  LET c == SetBudget(b, n)
           IN  /\ c \in Slab /\ c.budget = n /\ c.cap <= n /\ c.runtime <= n
               /\ b.cap = 0 => c.cap = 0
<1>1. 0 \in 0..Max32 /\ 0 <= n
  BY SizesAre
<1>2. CASE b.budget = n
  BY <1>2 DEF SetBudget
<1>3. CASE b.budget # n
  <2>1. SetBudget(b, n) = [budget |-> n, cap |-> 0, runtime |-> 0]
    BY <1>3 DEF SetBudget
  <2> QED BY <1>1, <2>1, SlabMade
<1> QED BY <1>2, <1>3

LEMMA NoEngineIs ==
    /\ NoEngine \in Engine /\ NoEngine.full = 0 /\ NoEngine.bytes = 0 /\ NoEngine.live = 0
    /\ Unlocked \in [mapped : Nat, locked : Nat]
  BY SizesAre DEF Engine, NoEngine, Unlocked

LEMMA StreamInit == SsdInit => StreamInv
<1> SUFFICES ASSUME SsdInit PROVE StreamInv
  OBVIOUS
<1>1. reserved \in [SessionIds -> Nat] /\ Live(reserved) = {} /\ MemoryBytes(reserved) = {}
  BY DEF SsdInit, Live, MemoryBytes
<1>2. Cardinality({}) = 0 /\ IsFiniteSet({})
  BY FS_EmptySet
<1>3. setup \in Setups /\ Len(setup.layers) \in Nat /\ Max32 \in Nat
  BY SetupFacts, SizesAre DEF SsdInit
<1>4. slab \in Slab /\ slab.cap = 0 /\ slab.runtime = 0 /\ slab.budget = 0
  BY <1>3 DEF SsdInit, Slab
<1>5. eng = NoEngine /\ sim = Unlocked /\ ssdPc = "start"
  BY DEF SsdInit
<1> QED BY <1>1, <1>2, <1>3, <1>4, <1>5, NoEngineIs DEF StreamInv, EngineInv

\* An engine that closes, or does not open
LEMMA CloseKeeps ==
    ASSUME StreamInv, eng.live = 0, EngineClosed, UNCHANGED <<setup, reserved>>, ssdPc' \in {"start", "closed"}
    PROVE  StreamInv'
<1>1. /\ reserved \in [SessionIds -> Nat] /\ eng.live = Cardinality(Live(reserved)) /\ setup \in Setups
      /\ slab \in Slab /\ IsFiniteSet(MemoryBytes(reserved))
      /\ slab.runtime <= slab.budget
  BY DEF StreamInv, EngineInv
<1>2. Cardinality(MemoryBytes(reserved)) = 0
  BY <1>1, NoSessions
<1>3. /\ slab' \in Slab /\ slab'.cap = 0
      /\ slab'.cap <= slab'.budget /\ slab'.runtime <= slab'.budget
  <2>1. slab' = [slab EXCEPT !.cap = 0] /\ 0 \in 0..Max32
    BY SizesAre DEF EngineClosed
  <2>2. 0 \in 0..Max32 /\ slab.budget \in 0..Max32
    BY <1>1, SlabFields, SizesAre
  <2>3. slab' \in Slab /\ slab' = [budget |-> slab.budget, cap |-> 0, runtime |-> slab.runtime]
    BY <1>1, <2>1, <2>2, SlabChanged
  <2>4. slab'.budget = slab.budget /\ slab'.cap = 0 /\ slab'.runtime = slab.runtime
    BY ONLY <2>3
  <2> QED BY <1>1, <2>2, <2>3, <2>4
<1>4. eng' = NoEngine /\ sim' = Unlocked /\ Len(setup.layers) \in Nat /\ Max32 \in Nat
  BY <1>1, SetupFacts, SizesAre DEF EngineClosed
<1>5. EngineInv(ssdPc', setup, NoEngine, reserved, slab', Unlocked)
  BY <1>1, <1>2, <1>3, <1>4, NoEngineIs DEF EngineInv
<1> QED BY <1>4, <1>5 DEF StreamInv

\* The plan: whole layers, and a cache of 32 bits
LEMMA OpenKeeps == ASSUME StreamInv, OpenEngine PROVE StreamInv'
<1> DEFINE hint == CtxBytes[setup.ctx]
           cache == AutoCache(hint)
           whole == WholeLayers(cache)
           dyn == Dynamic(cache)
           L == Len(setup.layers)
<1>1. /\ setup \in Setups /\ reserved \in [SessionIds -> Nat] /\ IsFiniteSet(MemoryBytes(reserved))
      /\ slab \in Slab /\ slab.cap = 0
      /\ slab.runtime <= slab.budget /\ sim \in [mapped : Nat, locked : Nat]
      /\ eng = NoEngine /\ eng.live = 0 /\ eng.live = Cardinality(Live(reserved))
      /\ eng.bytes = Cardinality(MemoryBytes(reserved)) /\ sim.mapped = p36_parse_gib_arg(setup.used)
      /\ sim.locked = sim.mapped
  BY DEF StreamInv, EngineInv, OpenEngine
<1>2. /\ setup.layers \in Seq(Nat \ {0}) /\ L \in Nat \ {0} /\ setup.layers[1] \in Nat \ {0}
      /\ setup.full \in Nat /\ hint \in Nat
  BY <1>1, SetupFacts
<1>3. Max32 \in Nat /\ NExpert \in Nat \ {0}
  BY SizesAre
<1>4. cache \in Nat /\ cache <= L * NExpert
  BY <1>1, <1>2, AutoCacheBound
<1> HIDE DEF cache, hint
<1>5. CASE cache = 0 \/ setup.full > L
  <2>1. EngineClosed /\ ssdPc' = "closed" /\ UNCHANGED <<setup, reserved>>
    BY <1>5 DEF OpenEngine, cache, hint
  <2> QED BY <1>1, <2>1, CloseKeeps
<1>6. CASE ~(cache = 0 \/ setup.full > L)
  <2>1. /\ ssdPc' = "seed" /\ sim' = sim /\ setup' = setup /\ reserved' = reserved
        /\ eng' = [eng EXCEPT !.cache = dyn, !.full = whole, !.hint = hint] /\ slab' = SetBudget(slab, dyn)
    BY <1>6 DEF OpenEngine, cache, hint
  <2>2. whole \in 0..L
    <3>1. CASE FullSlots(setup.full) + NExpert <= cache
      BY <1>2, <1>6, <3>1 DEF WholeLayers
    <3>2. CASE ~(FullSlots(setup.full) + NExpert <= cache) /\ cache > NExpert
      <4>1. (cache - NExpert) \div NExpert \in 0..L
        BY <1>1, <1>2, <1>4, <3>2, WholeLayersBound
      <4> QED BY <3>2, <4>1 DEF WholeLayers
    <3>3. CASE ~(FullSlots(setup.full) + NExpert <= cache) /\ ~(cache > NExpert)
      BY <1>2, <3>3 DEF WholeLayers
    <3> QED BY <3>1, <3>2, <3>3
  <2> HIDE DEF whole
  <2>3. dyn \in 0..Max32
    <3>1. Resident(setup.layers, whole) \in Nat
      BY <1>2, <2>2, ResidentNat
    <3>2. Resident(setup.layers, whole) + Slot - 1 \in Nat /\ Slot \in Nat \ {0}
      BY <1>2, <3>1 DEF Slot
    <3>3. FullSlots(whole) \in Nat
      BY <3>2, DivBound DEF FullSlots
    <3>4. cache - FullSlots(whole) \in Int
      BY <1>4, <3>3
    <3> QED BY <1>3, <3>4, WrapRange DEF Dynamic, whole
  <2> HIDE DEF dyn
  <2>4. /\ eng' \in Engine /\ eng'.cache = dyn /\ eng'.full = whole /\ eng'.bytes = 0 /\ eng'.live = 0
    <3>1. eng' = [cache |-> dyn, full |-> whole, hint |-> hint, bytes |-> 0, live |-> 0]
      BY <1>1, <2>1 DEF NoEngine
    <3>2. whole \in Nat
      BY <1>2, <2>2
    <3> QED BY <1>2, <1>3, <2>3, <3>1, <3>2, EngineMade
  <2>5. /\ slab' \in Slab /\ slab'.budget = dyn
        /\ slab'.cap = 0 /\ slab'.cap <= slab'.budget /\ slab'.runtime <= slab'.budget
    BY <1>1, <1>3, <2>1, <2>3, BudgetSet, SlabFields
  <2>6. eng.bytes = 0
    BY <1>1 DEF NoEngine
  <2> QED BY <1>1, <1>2, <2>1, <2>2, <2>4, <2>5, <2>6 DEF StreamInv, EngineInv
<1> QED BY <1>5, <1>6

\* The cache's allocation
LEMMA CacheInitKeeps ==
    ASSUME NEW b \in Slab, b.runtime <= b.budget,
           NEW room \in Nat, CacheInit(b, room).cap # Endless
    PROVE  LET n == CacheInit(b, room)
           IN  /\ n \in Slab
               /\ n.budget = b.budget /\ n.cap <= b.budget /\ n.runtime <= b.budget
<1> DEFINE from == IF b.runtime # 0 THEN b.runtime ELSE b.budget
           cap == Allocated(from, room)
<1>1. from \in 0..Max32 /\ from <= b.budget /\ Max32 \in Nat
  BY SizesAre DEF Slab
<1>2. CacheInit(b, room) = [b EXCEPT !.cap = cap, !.runtime = IF cap = from THEN @ ELSE cap]
  BY DEF CacheInit
<1>3. cap = Endless \/ cap \in 0..from
  BY <1>1, AllocatedBounds
<1> HIDE DEF from, cap
<1>4. cap \in 0..from
  BY <1>2, <1>3 DEF Slab
<1> DEFINE run == IF cap = from THEN b.runtime ELSE cap
<1>5. CacheInit(b, room) = [b EXCEPT !.cap = cap, !.runtime = run]
  BY <1>2 DEF Slab
<1>6. cap \in 0..Max32 /\ run \in 0..Max32 /\ cap <= b.budget /\ run <= b.budget
  BY <1>1, <1>4 DEF Slab
<1> HIDE DEF run
<1>7. CacheInit(b, room) = [budget |-> b.budget, cap |-> cap, runtime |-> run] /\ CacheInit(b, room) \in Slab
  <2>1. cap \in 0..Max32 /\ run \in 0..Max32
    BY <1>6
  <2>2. /\ [b EXCEPT !.cap = cap, !.runtime = run] = [budget |-> b.budget, cap |-> cap, runtime |-> run]
        /\ [b EXCEPT !.cap = cap, !.runtime = run] \in Slab
    BY <2>1, SlabChanged, Zenon
  <2> QED BY <1>5, <2>2
<1> QED BY <1>6, <1>7

LEMMA SeedKeeps ==
    ASSUME StreamInv, NEW room \in Rooms, NEW ok \in BOOLEAN, SeedCache(room, ok)
    PROVE  StreamInv'
<1>1. /\ setup \in Setups /\ eng.live = 0 /\ ssdPc = "seed"
      /\ slab \in Slab /\ slab.runtime <= slab.budget
      /\ room \in Nat /\ UNCHANGED <<setup, reserved>>
  BY SizesAre DEF StreamInv, EngineInv, SeedCache
<1>2. CASE ssdPc' = "closed"
  <2>1. EngineClosed
    BY <1>2 DEF SeedCache
  <2> QED BY <1>1, <1>2, <2>1, CloseKeeps
<1>3. CASE ssdPc' # "closed"
  <2>1. ssdPc' = "open" /\ eng' = eng /\ sim' = sim
    BY <1>3 DEF SeedCache
  <2>2. \/ slab' = slab
        \/ CacheInit(slab, room).cap # Endless /\ slab' = CacheInit(slab, room)
    BY <1>3 DEF SeedCache
  <2>3. /\ slab' \in Slab
        /\ slab'.budget = slab.budget /\ slab'.cap <= slab'.budget /\ slab'.runtime <= slab'.budget
    BY <1>1, <2>2, CacheInitKeeps DEF StreamInv, EngineInv
  <2> QED BY <1>1, <2>1, <2>3 DEF StreamInv, EngineInv
<1> QED BY <1>2, <1>3

LEMMA UseKeeps ==
    ASSUME StreamInv, NEW room \in Rooms, UseCache(room)
    PROVE  StreamInv'
<1>1. /\ slab \in Slab /\ slab.runtime <= slab.budget
      /\ room \in Nat /\ UNCHANGED <<ssdPc, setup, eng, reserved, sim>> /\ ssdPc = "open"
  BY SizesAre DEF StreamInv, EngineInv, UseCache
<1>2. CacheInit(slab, room).cap # Endless /\ slab' = CacheInit(slab, room)
  BY DEF UseCache
<1>3. /\ slab' \in Slab
      /\ slab'.budget = slab.budget /\ slab'.cap <= slab'.budget /\ slab'.runtime <= slab'.budget
  BY <1>1, <1>2, CacheInitKeeps
<1> QED BY <1>1, <1>3 DEF StreamInv, EngineInv

\* What fits beside the contexts
LEMMA FitBounds ==
    ASSUME NEW bytes \in Nat, setup \in Setups, eng \in Engine, eng.full <= Len(setup.layers), Fit(bytes) >= NUsed
    PROVE  /\ Fit(bytes) \in Nat
           /\ Within(setup, eng.full, eng.bytes + bytes, Fit(bytes))
<1> DEFINE R == Resident(setup.layers, eng.full)
           C == ContextsWith(bytes)
           limit == ModelLimit(C)
           room == limit - Fixed - R
<1>1. /\ Fixed \in Nat /\ Margin \in Nat /\ NUsed \in Nat \ {0} /\ setup.layers[1] \in Nat \ {0}
      /\ ModelBudget \in Nat /\ ModelBudget = (setup.rec \div 5) * 4 /\ setup.planned \in Nat /\ R \in Nat
  <2>1. eng.full \in 0..Len(setup.layers) /\ setup.layers \in Seq(Nat \ {0}) /\ Len(setup.layers) \in Nat
    BY SetupFacts, EngineFields
  <2>2. R \in Nat
    BY <2>1, ResidentNat
  <2> QED BY <2>2, SizesAre, SetupFacts DEF ModelBudget
<1>2. C \in Nat /\ C >= eng.bytes + bytes /\ eng.bytes \in Nat
  <2> DEFINE more == IF setup.planned > eng.live + 1 THEN setup.planned - eng.live - 1 ELSE 0
  <2>1. eng.hint \in Nat /\ eng.live \in Nat /\ eng.bytes \in Nat /\ more \in Nat
    BY <1>1, EngineFields
  <2>2. C = eng.bytes + bytes + eng.hint * more
    BY DEF ContextsWith
  <2> HIDE DEF more, C
  <2>3. eng.hint * more \in Nat
    BY <2>1
  <2> QED BY <2>1, <2>2, <2>3
<1> HIDE DEF R, C
<1>3. limit = 0 \/ (limit = ModelBudget - C - Margin /\ limit \in Nat)
  BY <1>1, <1>2 DEF ModelLimit
<1> HIDE DEF limit
<1>4. Fit(bytes) = IF C > Max64 \/ Fixed >= limit \/ R >= limit - Fixed THEN 0 ELSE room \div Slot
  BY DEF Fit, C, R, limit
<1>5. ~(Fixed >= limit \/ R >= limit - Fixed) /\ Fit(bytes) = room \div Slot
  BY <1>1, <1>4
<1>6. room \in Nat /\ limit = ModelBudget - C - Margin
  BY <1>1, <1>3, <1>5
<1> HIDE DEF room
<1>7. Fit(bytes) \in Nat /\ Fit(bytes) * setup.layers[1] <= room
  BY <1>1, <1>5, <1>6, DivBound DEF Slot
<1>8. Fit(bytes) * setup.layers[1] \in Nat
  BY <1>1, <1>7
<1>9. eng.bytes + bytes + Fixed + R + Fit(bytes) * setup.layers[1] + Margin <= ModelBudget
  <2> DEFINE f == Fit(bytes) * setup.layers[1]
  <2>1. f <= limit - Fixed - R /\ f \in Nat
    BY <1>7, <1>8 DEF room
  <2>2. f <= ModelBudget - C - Margin - Fixed - R
    BY <1>6, <2>1
  <2> HIDE DEF f
  <2>3. /\ Fixed \in Nat /\ Margin \in Nat /\ R \in Nat /\ C \in Nat /\ eng.bytes \in Nat /\ f \in Nat
        /\ C >= eng.bytes + bytes /\ ModelBudget \in Nat
    BY <1>1, <1>2, <2>1
  <2>4. eng.bytes + bytes + Fixed + R + f + Margin <= ModelBudget
    BY ONLY <2>2, <2>3, bytes \in Nat
  <2> QED BY <2>4 DEF f
<1> QED BY <1>1, <1>7, <1>9 DEF R, Within

\* Fewer bytes and fewer experts stay within the share
LEMMA WithinLess ==
    ASSUME NEW o \in Setups, NEW full \in Nat, full <= Len(o.layers), NEW a \in Nat, NEW b \in Nat, a <= b,
           NEW c \in Nat, NEW d \in Nat, c <= d, Within(o, full, b, d)
    PROVE  Within(o, full, a, c)
<1> DEFINE R == Resident(o.layers, full)
           x == c * o.layers[1]
           y == d * o.layers[1]
           m == (o.rec \div 5) * 4
<1>1. /\ o.layers[1] \in Nat /\ m \in Nat /\ Fixed \in Nat /\ Margin \in Nat
      /\ full \in 0..Len(o.layers) /\ o.layers \in Seq(Nat \ {0})
  BY SizesAre, SetupFacts
<1>2. R \in Nat
  BY <1>1, ResidentNat
<1>3. x <= y /\ x \in Nat /\ y \in Nat
  BY <1>1, MulMono
<1>4. b + Fixed + R + y + Margin <= m
  BY DEF Within
<1> HIDE DEF R, x, y, m
<1>5. a + Fixed + R + x + Margin <= m
  BY <1>1, <1>2, <1>3, <1>4
<1> QED BY <1>5 DEF Within, R, x, m

\* A session's context is reserved and the cache shrinks to what fits beside it
LEMMA CreateKeeps ==
    ASSUME StreamInv, NEW s \in SessionIds, NEW ctx \in DOMAIN CtxBytes, NEW ok \in BOOLEAN,
           CreateSession(s, ctx, ok)
    PROVE  StreamInv'
<1> DEFINE n == CtxBytes[ctx]
           fit == Fit(n)
           cache == Least2(fit, eng.cache)
<1>1. /\ setup \in Setups /\ eng \in Engine /\ reserved \in [SessionIds -> Nat] /\ IsFiniteSet(MemoryBytes(reserved))
      /\ slab \in Slab /\ slab.cap <= slab.budget
      /\ slab.runtime <= slab.budget /\ sim \in [mapped : Nat, locked : Nat] /\ eng.full <= Len(setup.layers)
      /\ eng.live = Cardinality(Live(reserved)) /\ eng.bytes = Cardinality(MemoryBytes(reserved))
      /\ sim.locked = p36_parse_gib_arg(setup.used) /\ slab.budget = eng.cache
      /\ (eng.live > 0 => Within(setup, eng.full, eng.bytes, eng.cache))
      /\ ssdPc = "open" /\ reserved[s] = 0 /\ fit >= NUsed /\ UNCHANGED <<ssdPc, setup, sim>>
  BY DEF StreamInv, EngineInv, CreateSession
<1>2. n \in Nat \ {0}
  BY StreamAssumption, LenProperties, ElementOfSeq
<1>3. fit \in Nat /\ Within(setup, eng.full, eng.bytes + n, fit)
  BY <1>1, <1>2, FitBounds
<1>4. /\ slab' = (IF fit < eng.cache THEN SetBudget(slab, cache) ELSE slab)
      /\ eng' = [eng EXCEPT !.cache = cache, !.bytes = IF ok THEN @ + n ELSE @, !.live = IF ok THEN @ + 1 ELSE @]
      /\ reserved' = IF ok THEN [reserved EXCEPT ![s] = n] ELSE reserved
  BY DEF CreateSession
<1> HIDE DEF fit, n
<1>5. eng.cache \in 0..Max32 /\ eng.full \in Nat /\ eng.hint \in Nat /\ eng.bytes \in Nat /\ eng.live \in Nat
  BY <1>1, EngineFields
<1>6. cache \in 0..Max32 /\ cache <= eng.cache /\ cache <= fit /\ cache \in Nat /\ eng.cache \in Nat
  BY <1>3, <1>5, SizesAre DEF Least2
<1>7. /\ slab' \in Slab /\ slab'.budget = cache
      /\ slab'.cap <= slab'.budget /\ slab'.runtime <= slab'.budget
  <2>1. CASE fit < eng.cache
    <3>1. slab' = SetBudget(slab, cache)
      BY <1>4, <2>1
    <3> HIDE DEF cache
    <3> QED BY <1>1, <1>6, <3>1, BudgetSet
  <2>2. CASE ~(fit < eng.cache)
    <3>1. cache = eng.cache
      BY <1>3, <1>5, <1>6, <2>2 DEF Least2
    <3> HIDE DEF cache
    <3> QED BY <1>1, <1>4, <2>2, <3>1
  <2> QED BY <2>1, <2>2
<1> HIDE DEF cache
<1>8. CASE ok
  <2>1. reserved' = [reserved EXCEPT ![s] = n]
    BY <1>4, <1>8
  <2>2. reserved' \in [SessionIds -> Nat]
    BY <1>1, <1>2, <2>1
  <2> DEFINE q == reserved'
  <2>3. q = [reserved EXCEPT ![s] = n]
    BY <2>1
  <2> HIDE DEF q
  <2>4. /\ IsFiniteSet(MemoryBytes(q)) /\ Cardinality(MemoryBytes(q)) = Cardinality(MemoryBytes(reserved)) + n
        /\ Cardinality(Live(q)) = Cardinality(Live(reserved)) + 1
    <3>1. /\ reserved \in [SessionIds -> Nat] /\ reserved[s] = 0 /\ IsFiniteSet(MemoryBytes(reserved))
          /\ n \in Nat \ {0}
      BY <1>1, <1>2
    <3> HIDE DEF n
    <3>3. /\ IsFiniteSet(MemoryBytes([reserved EXCEPT ![s] = n]))
          /\ Cardinality(MemoryBytes([reserved EXCEPT ![s] = n])) = Cardinality(MemoryBytes(reserved)) + n
          /\ Cardinality(Live([reserved EXCEPT ![s] = n])) = Cardinality(Live(reserved)) + 1
      BY <3>1, SessionAdds
    <3> QED BY <2>3, <3>3
  <2>5. /\ eng' \in Engine /\ eng'.cache = cache /\ eng'.full = eng.full
        /\ eng'.bytes = eng.bytes + n /\ eng'.live = eng.live + 1
    <3>1. eng' = [cache |-> cache, full |-> eng.full, hint |-> eng.hint, bytes |-> eng.bytes + n, live |-> eng.live + 1]
      BY <1>1, <1>4, <1>8 DEF Engine
    <3>2. eng.bytes + n \in Nat /\ eng.live + 1 \in Nat
      BY <1>2, <1>5
    <3>3. [cache |-> cache, full |-> eng.full, hint |-> eng.hint, bytes |-> eng.bytes + n, live |-> eng.live + 1] \in Engine
      BY <1>5, <1>6, <3>2, EngineMade
    <3> QED BY <3>1, <3>3
  <2>6. Within(setup, eng.full, eng.bytes + n, cache)
    <3>1. eng.bytes + n \in Nat /\ eng.bytes + n <= eng.bytes + n
      BY <1>2, <1>5
    <3> QED BY <1>1, <1>3, <1>5, <1>6, <3>1, WithinLess
  <2>7. Within(setup, eng'.full, eng'.bytes, eng'.cache)
    BY <2>5, <2>6
  <2> QED BY <1>1, <1>7, <2>2, <2>4, <2>5, <2>7 DEF StreamInv, EngineInv, q
<1>9. CASE ~ok
  <2>1. reserved' = reserved
    BY <1>4, <1>9
  <2>2. /\ eng' \in Engine /\ eng'.cache = cache /\ eng'.full = eng.full
        /\ eng'.bytes = eng.bytes /\ eng'.live = eng.live
    <3>1. eng' = [cache |-> cache, full |-> eng.full, hint |-> eng.hint, bytes |-> eng.bytes, live |-> eng.live]
      BY <1>1, <1>4, <1>9 DEF Engine
    <3> QED BY <1>5, <1>6, <3>1, EngineMade
  <2>3. eng.live > 0 => Within(setup, eng.full, eng.bytes, cache)
    <3>1. eng.bytes <= eng.bytes
      BY <1>5
    <3> QED BY <1>1, <1>5, <1>6, <3>1, WithinLess
  <2>4. eng'.live > 0 => Within(setup, eng'.full, eng'.bytes, eng'.cache)
    BY <2>2, <2>3
  <2> QED BY <1>1, <1>7, <2>1, <2>2, <2>4 DEF StreamInv, EngineInv
<1> QED BY <1>8, <1>9

LEMMA FreeKeeps ==
    ASSUME StreamInv, NEW s \in SessionIds, FreeSession(s)
    PROVE  StreamInv'
<1>1. /\ setup \in Setups /\ eng \in Engine /\ reserved \in [SessionIds -> Nat] /\ IsFiniteSet(MemoryBytes(reserved))
      /\ eng.full <= Len(setup.layers) /\ eng.live = Cardinality(Live(reserved))
      /\ eng.bytes = Cardinality(MemoryBytes(reserved)) /\ ssdPc = "open" /\ reserved[s] # 0
      /\ (eng.live > 0 => Within(setup, eng.full, eng.bytes, eng.cache))
      /\ eng' = [eng EXCEPT !.bytes = eng.bytes - reserved[s], !.live = eng.live - 1]
      /\ reserved' = [reserved EXCEPT ![s] = 0] /\ UNCHANGED <<ssdPc, setup, slab, sim>>
  BY DEF StreamInv, EngineInv, FreeSession
<1> DEFINE q == reserved'
           held == Cardinality(MemoryBytes(q))
           live == Cardinality(Live(q))
<1>2. q = [reserved EXCEPT ![s] = 0]
  BY <1>1
<1>3. q \in [SessionIds -> Nat] /\ reserved[s] \in Nat
  BY <1>1, <1>2
<1> HIDE DEF q
<1>4. /\ IsFiniteSet(MemoryBytes(q)) /\ Cardinality(MemoryBytes(reserved)) = held + reserved[s]
      /\ Cardinality(Live(reserved)) = live + 1 /\ held \in Nat /\ live \in Nat
  BY <1>1, <1>2, SessionGoes
<1> HIDE DEF held, live
<1>5. eng.cache \in 0..Max32 /\ eng.full \in Nat /\ eng.hint \in Nat /\ eng.bytes \in Nat /\ eng.live \in Nat
      /\ eng.cache \in Nat
  BY <1>1, EngineFields, SizesAre
<1>6. eng.bytes - reserved[s] = held /\ eng.live - 1 = live /\ held <= eng.bytes /\ eng.live > 0
  BY <1>1, <1>3, <1>4
<1>7. eng' = [cache |-> eng.cache, full |-> eng.full, hint |-> eng.hint, bytes |-> held, live |-> live]
  BY <1>1, <1>6 DEF Engine
<1>8. eng' \in Engine
  BY <1>4, <1>5, <1>7, EngineMade
<1>9. Within(setup, eng.full, held, eng.cache)
  BY <1>1, <1>4, <1>5, <1>6, WithinLess
<1>10. /\ eng'.bytes = held /\ eng'.live = live /\ eng'.full = eng.full /\ eng'.cache = eng.cache
  BY ONLY <1>7
<1>11. Within(setup, eng'.full, eng'.bytes, eng'.cache)
  BY <1>9, <1>10
<1>12. /\ slab' \in Slab /\ slab'.cap <= slab'.budget /\ slab'.runtime <= slab'.budget /\ slab'.budget = eng'.cache
       /\ sim' \in [mapped : Nat, locked : Nat] /\ sim'.locked = p36_parse_gib_arg(setup.used)
  BY <1>1, <1>10 DEF StreamInv, EngineInv
<1> QED BY <1>1, <1>3, <1>4, <1>8, <1>10, <1>11, <1>12 DEF StreamInv, EngineInv, q, held, live

LEMMA StreamStep == StreamInv /\ [SsdNext]_ssdVars => StreamInv'
<1> SUFFICES ASSUME StreamInv, [SsdNext]_ssdVars PROVE StreamInv'
  OBVIOUS
<1>1. CASE Launch
  <2>1. /\ setup \in Setups /\ sim = Unlocked /\ slab.cap = 0 /\ eng = NoEngine /\ eng.live = 0
        /\ UNCHANGED <<setup, eng, reserved, slab>>
    BY <1>1 DEF StreamInv, EngineInv, Launch
  <2>2. p36_parse_gib_arg(setup.used) \in Nat
    BY <2>1, SetupFacts
  <2>3. \/ ssdPc' = "closed" /\ sim' = sim
        \/ ssdPc' = "lock" /\ sim' = [sim EXCEPT !.mapped = p36_parse_gib_arg(setup.used)]
    BY <1>1 DEF Launch
  <2>4. sim' \in [mapped : Nat, locked : Nat]
        /\ (ssdPc' = "lock" => sim'.mapped = p36_parse_gib_arg(setup.used) /\ sim'.locked <= sim'.mapped)
    BY <2>1, <2>2, <2>3 DEF Unlocked
  <2> QED BY <2>1, <2>3, <2>4 DEF StreamInv, EngineInv
<1>2. ASSUME NEW ok \in BOOLEAN, LockMore(ok) PROVE StreamInv'
  <2>1. /\ setup \in Setups /\ sim.mapped = p36_parse_gib_arg(setup.used) /\ sim \in [mapped : Nat, locked : Nat]
        /\ eng = NoEngine /\ eng.live = 0 /\ slab.cap = 0 /\ UNCHANGED <<setup, eng, reserved, slab>>
        /\ LockChunk \in Nat /\ ssdPc = "lock"
    BY <1>2, SizesAre DEF StreamInv, EngineInv, LockMore
  <2>2. CASE ok
    <3> DEFINE more == Least2(sim.locked + LockChunk, sim.mapped)
    <3>1. ssdPc' = "lock" /\ sim' = [sim EXCEPT !.locked = more]
      BY <1>2, <2>1, <2>2 DEF LockMore
    <3>2. more \in Nat /\ more <= sim.mapped
      <4> DEFINE a == sim.locked + LockChunk
                 b == sim.mapped
      <4>1. a \in Nat /\ b \in Nat
        BY <2>1
      <4> HIDE DEF a, b
      <4>2. Least2(a, b) \in Nat /\ Least2(a, b) <= b
        BY <4>1, ShareBounds
      <4> QED BY <4>2 DEF a, b
    <3> HIDE DEF more
    <3>3. sim' \in [mapped : Nat, locked : Nat] /\ sim'.mapped = sim.mapped /\ sim'.locked <= sim'.mapped
      <4>1. sim'.locked = more /\ sim'.mapped = sim.mapped /\ sim' \in [mapped : Nat, locked : Nat]
        BY ONLY <2>1, <3>1, <3>2
      <4> QED BY <3>2, <4>1
    <3> QED BY <2>1, <3>1, <3>3 DEF StreamInv, EngineInv
  <2>3. CASE ~ok
    <3>1. ssdPc' = "closed" /\ sim' = Unlocked /\ sim' \in [mapped : Nat, locked : Nat]
      BY <1>2, <2>3 DEF LockMore, Unlocked
    <3> QED BY <2>1, <3>1 DEF StreamInv, EngineInv
  <2> QED BY <2>2, <2>3
<1>3. ASSUME NEW ok \in BOOLEAN, CloseEngine(ok) PROVE StreamInv'
  <2>1. eng.live = 0 /\ EngineClosed /\ UNCHANGED <<setup, reserved>> /\ ssdPc' \in {"start", "closed"}
    BY <1>3 DEF CloseEngine
  <2> QED BY <2>1, CloseKeeps
<1>4. CASE UNCHANGED ssdVars
  BY <1>4 DEF ssdVars, StreamInv, EngineInv
<1> QED BY <1>1, <1>2, <1>3, <1>4, OpenKeeps, CreateKeeps, FreeKeeps, UseKeeps, SeedKeeps DEF SsdNext

\* The memory of an engine that streams its experts is never promised twice, and the device's
\* refusals cost the cache no more than a tenth (p36_streaming_reserve_session, p36_session_create,
\* p36_vk_stream_cache_init_unlocked)
THEOREM StreamedMemoryKept == SsdSpec => []MemoryKept
<1>1. StreamInv => MemoryKept
  <2> SUFFICES ASSUME StreamInv PROVE MemoryKept
    OBVIOUS
  <2>1. ReservedBytes = MemoryBytes(reserved) /\ Slot = setup.layers[1] /\ ModelBudget = (setup.rec \div 5) * 4
    BY DEF ReservedBytes, MemoryBytes, Slot, ModelBudget
  <2>2. \A room \in Rooms : 10 * Allocated(slab.budget, room) + 9 >= 9 * Least2(room, slab.budget)
    <3>1. slab.budget \in 0..Max32 /\ Rooms \subseteq Nat
      BY SlabFields, SizesAre DEF StreamInv, EngineInv
    <3> QED BY <3>1, AllocatedBounds
  <2> QED BY <2>1, <2>2 DEF StreamInv, EngineInv, MemoryKept, Within
<1> QED BY <1>1, StreamInit, StreamStep, PTL DEF SsdSpec

-----------------------------------------------------------------------------
(* Sequences put together and taken apart                                  *)

LEMMA ConcatAt ==
    ASSUME NEW S, NEW a \in Seq(S), NEW b \in Seq(S)
    PROVE  /\ a \o b \in Seq(S) /\ Len(a \o b) = Len(a) + Len(b) /\ Len(a) \in Nat /\ Len(b) \in Nat
           /\ \A i \in 1..Len(a) : (a \o b)[i] = a[i] /\ a[i] \in S
           /\ \A i \in 1..Len(b) : (a \o b)[Len(a) + i] = b[i] /\ b[i] \in S
           /\ \A i \in Len(a) + 1..Len(a) + Len(b) : (a \o b)[i] = b[i - Len(a)]
<1>1. Len(a) \in Nat /\ Len(b) \in Nat
  BY LenProperties
<1>2. /\ a \o b \in Seq(S) /\ Len(a \o b) = Len(a) + Len(b)
      /\ \A i \in 1..Len(a) + Len(b) : (a \o b)[i] = IF i <= Len(a) THEN a[i] ELSE b[i - Len(a)]
  BY ConcatProperties
<1>3. (\A i \in 1..Len(a) : a[i] \in S) /\ \A i \in 1..Len(b) : b[i] \in S
  BY ElementOfSeq
<1> DEFINE m == Len(a)
           n == Len(b)
           c == a \o b
<1>4. /\ m \in Nat /\ n \in Nat /\ \A i \in 1..m + n : c[i] = IF i <= m THEN a[i] ELSE b[i - m]
  BY <1>1, <1>2
<1> HIDE DEF m, n, c
<1>5. \A i \in 1..m : c[i] = a[i]
  BY <1>4
<1>6. ASSUME NEW i \in m + 1..m + n PROVE c[i] = b[i - m]
  <2>1. i \in 1..m + n /\ ~(i <= m)
    BY <1>4
  <2> QED BY <1>4, <2>1
<1>7. ASSUME NEW i \in 1..n PROVE c[m + i] = b[i]
  <2>1. m + i \in m + 1..m + n /\ (m + i) - m = i
    BY <1>4
  <2> QED BY <1>6, <2>1
<1> QED BY <1>1, <1>2, <1>3, <1>5, <1>6, <1>7 DEF m, n, c

LEMMA Joined ==
    ASSUME NEW S, NEW a \in Seq(S), NEW b \in Seq(S), NEW c \in Seq(S)
    PROVE  (a \o b) \o c = a \o (b \o c) /\ a \o b \in Seq(S) /\ b \o c \in Seq(S)
  BY ConcatAssociative, ConcatProperties

LEMMA Halves ==
    ASSUME NEW S, NEW a \in Seq(S), NEW b \in Seq(S)
    PROVE  SubSeq(a \o b, 1, Len(a)) = a /\ SubSeq(a \o b, Len(a) + 1, Len(a \o b)) = b
<1> DEFINE c == a \o b
           m == Len(a)
           n == Len(b)
<1>1. /\ c \in Seq(S) /\ Len(c) = m + n /\ m \in Nat /\ n \in Nat
      /\ \A i \in 1..m : c[i] = a[i] /\ a[i] \in S
      /\ \A i \in 1..n : c[m + i] = b[i] /\ b[i] \in S
  BY ConcatAt
<1> HIDE DEF c
<1>2. /\ SubSeq(c, 1, m) \in Seq(S) /\ Len(SubSeq(c, 1, m)) = m /\ \A i \in 1..m : SubSeq(c, 1, m)[i] = c[i]
  <2>1. \A i \in 1..m : c[i] \in S
    BY <1>1
  <2>2. /\ SubSeq(c, 1, m) \in Seq(S) /\ Len(SubSeq(c, 1, m)) = IF 1 <= m THEN m - 1 + 1 ELSE 0
        /\ \A i \in 1..m - 1 + 1 : SubSeq(c, 1, m)[i] = c[1 + i - 1]
    BY <1>1, <2>1, SubSeqProperties
  <2> HIDE DEF m
  <2>3. \A i \in 1..m : i \in 1..m - 1 + 1 /\ 1 + i - 1 = i
    BY <1>1
  <2> QED BY <1>1, <2>2, <2>3
<1>3. SubSeq(c, 1, m) = a
  BY <1>1, <1>2, SeqEqual
<1>4. /\ SubSeq(c, m + 1, m + n) \in Seq(S) /\ Len(SubSeq(c, m + 1, m + n)) = n
      /\ \A i \in 1..n : SubSeq(c, m + 1, m + n)[i] = c[m + i]
  <2>1. \A i \in m + 1..m + n : c[i] \in S
    BY <1>1, ElementOfSeq
  <2>2. m + 1 \in Int /\ m + n \in Int
    BY <1>1
  <2>3. /\ SubSeq(c, m + 1, m + n) \in Seq(S)
        /\ Len(SubSeq(c, m + 1, m + n)) = IF m + 1 <= m + n THEN (m + n) - (m + 1) + 1 ELSE 0
        /\ \A i \in 1..(m + n) - (m + 1) + 1 : SubSeq(c, m + 1, m + n)[i] = c[m + 1 + i - 1]
    BY <2>1, <2>2, SubSeqProperties
  <2> HIDE DEF m, n
  <2>4. \A i \in 1..n : i \in 1..(m + n) - (m + 1) + 1 /\ m + 1 + i - 1 = m + i
    BY <1>1
  <2> QED BY <1>1, <2>3, <2>4
<1>5. SubSeq(c, m + 1, m + n) = b
  BY <1>1, <1>4, SeqEqual
<1> QED BY <1>1, <1>3, <1>5 DEF c

LEMMA FirstOf ==
    ASSUME NEW S, NEW s, NEW k \in Nat, \A i \in 1..k : s[i] \in S
    PROVE  /\ SubSeq(s, 1, k) \in Seq(S) /\ Len(SubSeq(s, 1, k)) = k
           /\ \A i \in 1..k : SubSeq(s, 1, k)[i] = s[i]
<1>1. /\ SubSeq(s, 1, k) \in Seq(S) /\ Len(SubSeq(s, 1, k)) = IF 1 <= k THEN k - 1 + 1 ELSE 0
      /\ \A i \in 1..k - 1 + 1 : SubSeq(s, 1, k)[i] = s[1 + i - 1]
  BY SubSeqProperties
<1>2. \A i \in 1..k : i \in 1..k - 1 + 1 /\ 1 + i - 1 = i
  OBVIOUS
<1> QED BY <1>1, <1>2

\* tokens_insert puts a block between two parts, tokens_remove takes it out
LEMMA PutIn ==
    ASSUME NEW S, NEW a \in Seq(S), NEW b \in Seq(S), NEW x \in Seq(S)
    PROVE  Inserted(a \o b, Len(a), x) = a \o x \o b
<1>1. Len(a) \in Nat /\ Len(b) \in Nat /\ Len(a \o b) = Len(a) + Len(b)
  BY ConcatAt
<1>2. ~(Len(a) > Len(a \o b))
  BY <1>1
<1> QED BY <1>2, Halves DEF Inserted

LEMMA TakenOut ==
    ASSUME NEW S, NEW a \in Seq(S), NEW b \in Seq(S), NEW x \in Seq(S)
    PROVE  Removed(a \o x \o b, Len(a), Len(x)) = a \o b
<1>1. (a \o x) \o b = a \o (x \o b) /\ a \o x \in Seq(S) /\ x \o b \in Seq(S)
  BY Joined
<1>2. SubSeq(a \o (x \o b), 1, Len(a)) = a
  BY <1>1, Halves
<1>3. SubSeq((a \o x) \o b, Len(a \o x) + 1, Len((a \o x) \o b)) = b
  BY <1>1, Halves
<1>4. Len(a \o x) = Len(a) + Len(x) /\ Len(a) \in Nat /\ Len(x) \in Nat
  BY ConcatAt
<1>5. Len((a \o x) \o b) = Len(a) + Len(x) + Len(b) /\ Len(b) \in Nat
  BY <1>1, <1>4, ConcatAt
<1>6. CASE Len(a) >= Len((a \o x) \o b)
  <2>1. Len(x) = 0 /\ Len(b) = 0
    BY <1>4, <1>5, <1>6
  <2>2. x = <<>> /\ b = <<>>
    BY <2>1, EmptySeq
  <2>3. (a \o x) \o b = a /\ a \o b = a
    BY <2>2, ConcatEmptySeq
  <2> QED BY <1>6, <2>3 DEF Removed
<1>7. CASE ~(Len(a) >= Len((a \o x) \o b))
  BY <1>1, <1>2, <1>3, <1>4, <1>7 DEF Removed
<1> QED BY <1>6, <1>7

-----------------------------------------------------------------------------
(* What a transcript with images says                                      *)

Symbol == {"bos", "effort", "system", "text", "high", "max", "pair", "user", "pad", "end", "nothink", "think",
           "thinkmax", "tok", "eos", "nl", "rendered"}
Ids == Images \cup {0}
Label == [tok : Symbol, id : Ids]
Span == [start : Nat, id : Images]
Spans == Seq(Span)

NoPad(s) == \A i \in 1..Len(s) : s[i] # "pad"

\* the image at a place
IdAt(r, i) == IF ImageAt(r, i) # {} THEN r[CHOOSE m \in ImageAt(r, i) : TRUE].id ELSE 0

\* a symbol and the image it stands for, if it is a pad
Sign(t, id) == [tok |-> t, id |-> IF t = "pad" THEN id ELSE 0]

LEMMA SignIs ==
    /\ \A t \in Symbol, id \in Ids : Sign(t, id) \in Label
    /\ \A t, x, y : (t = "pad" => x = y) => Sign(t, x) = Sign(t, y)
  BY DEF Sign, Label, Ids

LEMMA IdAtIs == ASSUME NEW r \in Spans, NEW i PROVE IdAt(r, i) \in Ids
<1>1. ASSUME NEW m \in ImageAt(r, i) PROVE r[m].id \in Images
  <2>1. m \in 1..Len(r)
    BY <1>1 DEF ImageAt
  <2>2. r[m] \in Span
    BY <2>1, ElementOfSeq DEF Spans
  <2> QED BY <2>2 DEF Span
<1> QED BY <1>1 DEF IdAt, Ids

LEMMA LabelIs ==
    ASSUME NEW s \in Seq(Symbol), NEW r \in Spans
    PROVE  /\ Labelled(s, r) \in Seq(Label) /\ Len(Labelled(s, r)) = Len(s) /\ Len(s) \in Nat
           /\ \A i \in 1..Len(s) : Labelled(s, r)[i] = Sign(s[i], IdAt(r, i))
<1> DEFINE N == Len(s)
           f == [i \in 1..N |-> Sign(s[i], IdAt(r, i))]
<1>1. N \in Nat /\ \A i \in 1..N : s[i] \in Symbol
  BY LenProperties, ElementOfSeq
<1>2. Labelled(s, r) = f
  BY DEF Labelled, IdAt, Sign
<1>3. \A i \in 1..N : f[i] \in Label
  BY <1>1, IdAtIs, SignIs
<1>4. f \in [1..N -> Label]
  BY <1>3
<1>5. f \in Seq(Label) /\ Len(f) = N
  BY <1>1, <1>4
<1> QED BY <1>1, <1>2, <1>5

LEMMA MarkIs ==
    ASSUME NEW s \in Seq(Symbol), NEW id \in Ids
    PROVE  /\ Marked(s, id) \in Seq(Label) /\ Len(Marked(s, id)) = Len(s) /\ Len(s) \in Nat
           /\ \A i \in 1..Len(s) : Marked(s, id)[i] = Sign(s[i], id)
<1> DEFINE N == Len(s)
           f == [i \in 1..N |-> Sign(s[i], id)]
<1>1. N \in Nat /\ \A i \in 1..N : s[i] \in Symbol
  BY LenProperties, ElementOfSeq
<1>2. Marked(s, id) = f
  BY DEF Marked, Sign
<1>3. \A i \in 1..N : f[i] \in Label
  BY <1>1, SignIs
<1>4. f \in [1..N -> Label]
  BY <1>3
<1>5. f \in Seq(Label) /\ Len(f) = N
  BY <1>1, <1>4
<1> QED BY <1>1, <1>2, <1>5

\* A part without pads says the same whatever the images
LEMMA PlainLabels ==
    ASSUME NEW s \in Seq(Symbol), NoPad(s), NEW r \in Spans, NEW id \in Ids
    PROVE  Labelled(s, r) = Marked(s, id)
<1>1. \A i \in 1..Len(s) : Labelled(s, r)[i] = Marked(s, id)[i]
  BY LabelIs, MarkIs, SignIs DEF NoPad
<1> QED BY <1>1, LabelIs, MarkIs, SeqEqual

LEMMA PlainMarks ==
    ASSUME NEW s \in Seq(Symbol), NoPad(s), NEW x \in Ids, NEW y \in Ids
    PROVE  Marked(s, x) = Marked(s, y)
  BY EmptySeq, PlainLabels DEF Spans

LEMMA MarksJoin ==
    ASSUME NEW a \in Seq(Symbol), NEW b \in Seq(Symbol), NEW id \in Ids
    PROVE  Marked(a \o b, id) = Marked(a, id) \o Marked(b, id)
<1> DEFINE c == a \o b
           L == Marked(c, id)
           A == Marked(a, id)
           B == Marked(b, id)
<1>1. /\ c \in Seq(Symbol) /\ Len(c) = Len(a) + Len(b) /\ Len(a) \in Nat /\ Len(b) \in Nat
      /\ \A i \in 1..Len(a) : c[i] = a[i]
      /\ \A i \in Len(a) + 1..Len(a) + Len(b) : c[i] = b[i - Len(a)]
  BY ConcatAt
<1> HIDE DEF c
<1>2. /\ A \in Seq(Label) /\ Len(A) = Len(a)
      /\ \A i \in 1..Len(a) : A[i] = Sign(a[i], id)
  BY MarkIs
<1>3. /\ B \in Seq(Label) /\ Len(B) = Len(b)
      /\ \A i \in 1..Len(b) : B[i] = Sign(b[i], id)
  BY MarkIs
<1>4. /\ L \in Seq(Label) /\ Len(L) = Len(c)
      /\ \A i \in 1..Len(c) : L[i] = Sign(c[i], id)
  BY <1>1, MarkIs
<1> HIDE DEF L, A, B
<1>5. /\ A \o B \in Seq(Label) /\ Len(A \o B) = Len(A) + Len(B)
      /\ \A i \in 1..Len(A) : (A \o B)[i] = A[i]
      /\ \A i \in Len(A) + 1..Len(A) + Len(B) : (A \o B)[i] = B[i - Len(A)]
  <2>1. A \in Seq(Label) /\ B \in Seq(Label)
    BY <1>2, <1>3
  <2> QED BY <2>1, ConcatAt
<1>6. ASSUME NEW i \in 1..Len(c) PROVE L[i] = (A \o B)[i]
  <2>1. CASE i <= Len(a)
    <3>1. i \in 1..Len(a)
      BY <1>1, <2>1
    <3> QED BY <1>1, <1>2, <1>4, <1>5, <3>1
  <2>2. CASE i > Len(a)
    <3>1. i \in Len(a) + 1..Len(a) + Len(b) /\ i - Len(a) \in 1..Len(b)
      BY <1>1, <2>2
    <3>2. L[i] = Sign(c[i], id)
      BY <1>4
    <3>3. c[i] = b[i - Len(a)]
      BY <1>1, <3>1
    <3>4. (A \o B)[i] = B[i - Len(a)]
      BY <1>2, <1>3, <1>5, <3>1
    <3>5. B[i - Len(a)] = Sign(b[i - Len(a)], id)
      BY <1>3, <3>1
    <3> QED BY <3>2, <3>3, <3>4, <3>5
  <2>3. i <= Len(a) \/ i > Len(a)
    BY <1>1
  <2> QED BY <2>1, <2>2, <2>3
<1>7. Len(L) = Len(A \o B)
  BY <1>1, <1>2, <1>3, <1>4, <1>5
<1>8. L = A \o B
  BY <1>4, <1>5, <1>6, <1>7, SeqEqual
<1> QED BY <1>8 DEF L, A, B, c

\* Labels of a sequence in two parts, of which each has its own images
LEMMA LabelsJoin ==
    ASSUME NEW a \in Seq(Symbol), NEW b \in Seq(Symbol), NEW r \in Spans, NEW q \in Spans, NEW p \in Spans,
           \A i \in 1..Len(a) : a[i] = "pad" => IdAt(r, i) = IdAt(q, i),
           \A i \in 1..Len(b) : b[i] = "pad" => IdAt(r, Len(a) + i) = IdAt(p, i)
    PROVE  Labelled(a \o b, r) = Labelled(a, q) \o Labelled(b, p)
<1> DEFINE c == a \o b
           L == Labelled(c, r)
           A == Labelled(a, q)
           B == Labelled(b, p)
<1>1. /\ c \in Seq(Symbol) /\ Len(c) = Len(a) + Len(b) /\ Len(a) \in Nat /\ Len(b) \in Nat
      /\ \A i \in 1..Len(a) : c[i] = a[i]
      /\ \A i \in Len(a) + 1..Len(a) + Len(b) : c[i] = b[i - Len(a)]
  BY ConcatAt
<1> HIDE DEF c
<1>2. /\ A \in Seq(Label) /\ Len(A) = Len(a)
      /\ \A i \in 1..Len(a) : A[i] = Sign(a[i], IdAt(q, i))
  BY LabelIs
<1>3. /\ B \in Seq(Label) /\ Len(B) = Len(b)
      /\ \A i \in 1..Len(b) : B[i] = Sign(b[i], IdAt(p, i))
  BY LabelIs
<1>4. /\ L \in Seq(Label) /\ Len(L) = Len(c)
      /\ \A i \in 1..Len(c) : L[i] = Sign(c[i], IdAt(r, i))
  BY <1>1, LabelIs
<1> HIDE DEF L, A, B
<1>5. /\ A \o B \in Seq(Label) /\ Len(A \o B) = Len(A) + Len(B)
      /\ \A i \in 1..Len(A) : (A \o B)[i] = A[i]
      /\ \A i \in Len(A) + 1..Len(A) + Len(B) : (A \o B)[i] = B[i - Len(A)]
  <2>1. A \in Seq(Label) /\ B \in Seq(Label)
    BY <1>2, <1>3
  <2> QED BY <2>1, ConcatAt
<1>6. ASSUME NEW i \in 1..Len(c) PROVE L[i] = (A \o B)[i]
  <2>1. CASE i <= Len(a)
    <3>1. i \in 1..Len(a)
      BY <1>1, <2>1
    <3>2. c[i] = a[i] /\ (A \o B)[i] = A[i] /\ (a[i] = "pad" => IdAt(r, i) = IdAt(q, i))
      BY <1>1, <1>2, <1>5, <3>1
    <3> QED BY <1>2, <1>4, <3>1, <3>2, SignIs
  <2>2. CASE i > Len(a)
    <3> DEFINE j == i - Len(a)
    <3>1. i \in Len(a) + 1..Len(a) + Len(b) /\ j \in 1..Len(b) /\ Len(a) + j = i
      BY <1>1, <2>2
    <3>2. c[i] = b[j] /\ (A \o B)[i] = B[j]
      BY <1>1, <1>2, <1>3, <1>5, <3>1
    <3>3. b[j] = "pad" => IdAt(r, i) = IdAt(p, j)
      BY <3>1
    <3> HIDE DEF j
    <3> QED BY <1>3, <1>4, <3>1, <3>2, <3>3, SignIs
  <2>3. i <= Len(a) \/ i > Len(a)
    BY <1>1
  <2> QED BY <2>1, <2>2, <2>3
<1>7. Len(L) = Len(A \o B)
  BY <1>1, <1>2, <1>3, <1>4, <1>5
<1>8. L = A \o B
  BY <1>4, <1>5, <1>6, <1>7, SeqEqual
<1> QED BY <1>8 DEF L, A, B, c

\* A part whose pads all have one image
LEMMA LabelsMark ==
    ASSUME NEW a \in Seq(Symbol), NEW b \in Seq(Symbol), NEW r \in Spans, NEW q \in Spans, NEW id \in Ids,
           \A i \in 1..Len(a) : IdAt(r, i) = IdAt(q, i),
           \A i \in 1..Len(b) : b[i] = "pad" => i = 2 /\ id # 0,
           id # 0 => IdAt(r, Len(a) + 2) = id
    PROVE  Labelled(a \o b, r) = Labelled(a, q) \o Marked(b, id)
<1> DEFINE none == <<>>
           p == IF id = 0 THEN none ELSE <<[start |-> 1, id |-> id]>>
<1>1. p \in Spans /\ (id # 0 => IdAt(p, 2) = id)
  <2>1. CASE id = 0
    BY <2>1, EmptySeq DEF Spans
  <2>2. CASE id # 0
    <3> DEFINE e == [start |-> 1, id |-> id]
    <3>0. e \in Span /\ e.start = 1 /\ e.id = id
      BY <2>2 DEF Ids, Span
    <3>1. p = <<e>>
      BY <2>2
    <3> HIDE DEF p, e
    <3>2. p \in Spans /\ Len(p) = 1 /\ p[1].start = 1 /\ p[1].id = id
      BY <3>0, <3>1 DEF Spans
    <3>3. ImageAt(p, 2) = {1}
      BY <3>2 DEF ImageAt
    <3>4. (CHOOSE m \in ImageAt(p, 2) : TRUE) = 1 /\ ImageAt(p, 2) # {}
      BY <3>3
    <3>5. IdAt(p, 2) = id
      BY <3>2, <3>4 DEF IdAt
    <3> QED BY <3>2, <3>5
  <2> QED BY <2>1, <2>2
<1> HIDE DEF p
<1>2. ASSUME NEW i \in 1..Len(b), b[i] = "pad" PROVE IdAt(r, Len(a) + i) = IdAt(p, i)
  BY <1>1, <1>2
<1>3. Labelled(a \o b, r) = Labelled(a, q) \o Labelled(b, p)
  BY <1>1, <1>2, LabelsJoin
<1>4. ASSUME NEW i \in 1..Len(b) PROVE Labelled(b, p)[i] = Marked(b, id)[i]
  BY <1>1, LabelIs, MarkIs, SignIs
<1>5. Labelled(b, p) = Marked(b, id)
  BY <1>1, <1>4, LabelIs, MarkIs, SeqEqual
<1> QED BY <1>3, <1>5

LEMMA LabelsThen ==
    ASSUME NEW a \in Seq(Symbol), NEW b \in Seq(Symbol), NoPad(b), NEW r \in Spans, NEW id \in Ids
    PROVE  Labelled(a \o b, r) = Labelled(a, r) \o Marked(b, id)
<1>1. Labelled(a \o b, r) = Labelled(a, r) \o Labelled(b, r)
  BY LabelsJoin DEF NoPad
<1> QED BY <1>1, PlainLabels

LEMMA ShiftIs ==
    ASSUME NEW r \in Spans, NEW d \in Int, \A m \in 1..Len(r) : r[m].start + d \in Nat
    PROVE  /\ Shifted(r, d) \in Spans /\ Len(Shifted(r, d)) = Len(r)
           /\ \A m \in 1..Len(r) : Shifted(r, d)[m].start = r[m].start + d
           /\ \A m \in 1..Len(r) : Shifted(r, d)[m].id = r[m].id
<1> DEFINE N == Len(r)
           f == [i \in 1..N |-> [r[i] EXCEPT !.start = @ + d]]
<1>1. N \in Nat /\ DOMAIN r = 1..N /\ \A m \in 1..N : r[m] \in Span
  BY LenProperties, ElementOfSeq DEF Spans
<1>2. Shifted(r, d) = f
  BY <1>1 DEF Shifted
<1>3. ASSUME NEW m \in 1..N
      PROVE  f[m].start = r[m].start + d /\ f[m].id = r[m].id /\ f[m] \in Span
  <2>1. r[m] \in Span /\ r[m].start + d \in Nat
    BY <1>1
  <2>2. r[m].start \in Nat /\ r[m].id \in Images /\ r[m] = [start |-> r[m].start, id |-> r[m].id]
    BY <2>1 DEF Span
  <2>3. f[m] = [r[m] EXCEPT !.start = @ + d]
    OBVIOUS
  <2> HIDE DEF f
  <2>4. f[m] = [start |-> r[m].start + d, id |-> r[m].id]
    BY <2>2, <2>3
  <2>5. f[m].start = r[m].start + d /\ f[m].id = r[m].id
    BY <2>4
  <2> QED BY <2>1, <2>2, <2>4, <2>5 DEF Span
<1>4. f \in [1..N -> Span] /\ DOMAIN f = 1..N
  BY <1>3
<1>5. f \in Seq(Span) /\ Len(f) = N
  BY <1>1, <1>4
<1> HIDE DEF f
<1>6. \A m \in 1..N : f[m].start = r[m].start + d
  BY <1>3
<1>7. \A m \in 1..N : f[m].id = r[m].id
  BY <1>3
<1> QED BY <1>2, <1>5, <1>6, <1>7 DEF Spans

LEMMA SpanIs ==
    ASSUME NEW r \in Spans
    PROVE  /\ Len(r) \in Nat /\ DOMAIN r = 1..Len(r)
           /\ \A m \in 1..Len(r) : r[m] \in Span
           /\ \A m \in 1..Len(r) : r[m].start \in Nat
           /\ \A m \in 1..Len(r) : r[m].id \in Images
<1>1. Len(r) \in Nat /\ DOMAIN r = 1..Len(r) /\ \A m \in 1..Len(r) : r[m] \in Span
  BY LenProperties, ElementOfSeq DEF Spans
<1>2. ASSUME NEW m \in 1..Len(r) PROVE r[m].start \in Nat /\ r[m].id \in Images
  <2>1. r[m] \in Span
    BY <1>1
  <2> QED BY <2>1 DEF Span
<1> QED BY <1>1, <1>2

\* Spans with the same starts and images are the same
LEMMA SameSpans ==
    ASSUME NEW r \in Spans, NEW q \in Spans, Len(r) = Len(q),
           \A m \in 1..Len(r) : r[m].start = q[m].start,
           \A m \in 1..Len(r) : r[m].id = q[m].id
    PROVE  r = q
<1>1. ASSUME NEW m \in 1..Len(r) PROVE r[m] = q[m]
  <2>1. r[m] \in Span /\ q[m] \in Span
    BY SpanIs
  <2>2. r[m] = [start |-> r[m].start, id |-> r[m].id] /\ q[m] = [start |-> q[m].start, id |-> q[m].id]
    BY <2>1 DEF Span
  <2>3. r[m].start = q[m].start /\ r[m].id = q[m].id
    OBVIOUS
  <2> QED BY <2>2, <2>3
<1> QED BY <1>1, SeqEqual DEF Spans

\* Shifting twice
LEMMA ShiftTwice ==
    ASSUME NEW r \in Spans, NEW d \in Nat, NEW e \in Int, d + e \in Nat
    PROVE  Shifted(Shifted(r, d), e) = Shifted(r, d + e)
<1> DEFINE q == Shifted(r, d)
<1>1. \A m \in 1..Len(r) : r[m].start \in Nat
  BY SpanIs
<1>2. d \in Int /\ \A m \in 1..Len(r) : r[m].start + d \in Nat
  BY <1>1
<1>3. q \in Spans /\ Len(q) = Len(r)
  BY <1>2, ShiftIs
<1>4. \A m \in 1..Len(r) : q[m].start = r[m].start + d
  BY <1>2, ShiftIs
<1>5. \A m \in 1..Len(r) : q[m].id = r[m].id
  BY <1>2, ShiftIs
<1> HIDE DEF q
<1>6. \A m \in 1..Len(q) : q[m].start + e \in Nat
  BY <1>1, <1>3, <1>4
<1>7. /\ Shifted(q, e) \in Spans /\ Len(Shifted(q, e)) = Len(q)
      /\ \A m \in 1..Len(q) : Shifted(q, e)[m].start = q[m].start + e
      /\ \A m \in 1..Len(q) : Shifted(q, e)[m].id = q[m].id
  BY <1>3, <1>6, ShiftIs
<1>8. d + e \in Int /\ \A m \in 1..Len(r) : r[m].start + (d + e) \in Nat
  BY <1>1
<1>9. /\ Shifted(r, d + e) \in Spans /\ Len(Shifted(r, d + e)) = Len(r)
      /\ \A m \in 1..Len(r) : Shifted(r, d + e)[m].start = r[m].start + (d + e)
      /\ \A m \in 1..Len(r) : Shifted(r, d + e)[m].id = r[m].id
  BY <1>8, ShiftIs
<1>10. \A m \in 1..Len(r) : Shifted(q, e)[m].start = Shifted(r, d + e)[m].start
  <2> SUFFICES ASSUME NEW m \in 1..Len(r)
               PROVE  Shifted(q, e)[m].start = Shifted(r, d + e)[m].start
    OBVIOUS
  <2>1. r[m].start \in Nat /\ q[m].start = r[m].start + d /\ Shifted(q, e)[m].start = q[m].start + e
    BY <1>1, <1>3, <1>4, <1>7
  <2>2. Shifted(r, d + e)[m].start = r[m].start + (d + e)
    BY <1>9
  <2> QED BY <2>1, <2>2
<1>11. \A m \in 1..Len(r) : Shifted(q, e)[m].id = Shifted(r, d + e)[m].id
  BY <1>3, <1>5, <1>7, <1>9
<1>12. Shifted(q, e) = Shifted(r, d + e)
  BY <1>3, <1>7, <1>9, <1>10, <1>11, SameSpans
<1> QED BY <1>12 DEF q

\* Places with the same images have the same image
LEMMA SameId ==
    ASSUME NEW r, NEW q, NEW i, NEW j, ImageAt(r, i) = ImageAt(q, j),
           \A m \in ImageAt(r, i) : r[m].id = q[m].id
    PROVE  IdAt(r, i) = IdAt(q, j)
  BY DEF IdAt

\* A part in front moves the images
LEMMA LabelsBehind ==
    ASSUME NEW a \in Seq(Symbol), NoPad(a), NEW b \in Seq(Symbol), NEW r \in Spans
    PROVE  Labelled(a \o b, Shifted(r, Len(a))) = Marked(a, 0) \o Labelled(b, r)
<1> DEFINE d == Len(a)
           q == Shifted(r, d)
<1>0. d \in Nat /\ d \in Int /\ Len(b) \in Nat
  BY LenProperties
<1> HIDE DEF d
<1>1. /\ \A m \in 1..Len(r) : r[m].start \in Nat
      /\ \A m \in 1..Len(r) : r[m].start + d \in Nat
  BY <1>0, SpanIs
<1>2. /\ q \in Spans /\ Len(q) = Len(r)
      /\ \A m \in 1..Len(r) : q[m].start = r[m].start + d
      /\ \A m \in 1..Len(r) : q[m].id = r[m].id
  BY <1>0, <1>1, ShiftIs
<1> HIDE DEF q
<1>3. ASSUME NEW i \in 1..Len(b) PROVE IdAt(q, d + i) = IdAt(r, i)
  <2>1. \A m \in 1..Len(r) : q[m].start = (d + i) - 1 <=> r[m].start = i - 1
    <3> SUFFICES ASSUME NEW m \in 1..Len(r)
                 PROVE  q[m].start = (d + i) - 1 <=> r[m].start = i - 1
      OBVIOUS
    <3>1. r[m].start \in Nat /\ q[m].start = r[m].start + d
      BY <1>1, <1>2
    <3> QED BY <1>0, <3>1
  <2>2. ImageAt(q, d + i) = ImageAt(r, i)
    BY <1>2, <2>1 DEF ImageAt
  <2>3. \A m \in ImageAt(q, d + i) : q[m].id = r[m].id
    BY <1>2 DEF ImageAt
  <2> QED BY <2>2, <2>3, SameId
<1>4. Labelled(a \o b, q) = Labelled(a, q) \o Labelled(b, r)
  <2>1. \A i \in 1..Len(a) : a[i] = "pad" => IdAt(q, i) = IdAt(q, i)
    OBVIOUS
  <2>2. \A i \in 1..Len(b) : b[i] = "pad" => IdAt(q, Len(a) + i) = IdAt(r, i)
    BY <1>3 DEF d
  <2> QED BY <1>2, <2>1, <2>2, LabelsJoin
<1>5. Labelled(a, q) = Marked(a, 0)
  BY <1>2, PlainLabels DEF Ids
<1> QED BY <1>4, <1>5 DEF q, d

-----------------------------------------------------------------------------
(* What was said, and what a turn adds                                     *)

TurnRecord == [id : Ids, mode : Modes, n : Nat, closed : BOOLEAN]

\* the symbols that were sampled
Sampled(n) == [i \in 1..n |-> "tok"]
Opening(id, mode) == UserMessage(id) \o AssistantPrefix(mode)

LEMMA SampledIs ==
    ASSUME NEW n \in Nat
    PROVE  /\ Sampled(n) \in Seq(Symbol) /\ Len(Sampled(n)) = n /\ NoPad(Sampled(n))
           /\ \A i \in 1..n : Sampled(n)[i] = "tok"
<1>1. Sampled(n) \in [1..n -> Symbol]
  BY DEF Sampled, Symbol
<1>2. Sampled(n) \in Seq(Symbol) /\ Len(Sampled(n)) = n
  BY <1>1
<1>3. \A i \in 1..n : Sampled(n)[i] = "tok"
  BY DEF Sampled
<1> QED BY <1>2, <1>3 DEF NoPad

LEMMA OpeningIs ==
    ASSUME NEW id, NEW mode
    PROVE  /\ Opening(id, mode) \in Seq(Symbol)
           /\ \A i \in 1..Len(Opening(id, mode)) : Opening(id, mode)[i] = "pad" => i = 2 /\ id # 0
           /\ id # 0 => Len(Opening(id, mode)) >= 2
<1> DEFINE u == UserMessage(id)
           a == AssistantPrefix(mode)
<1>1. /\ u \in Seq(Symbol) /\ \A i \in 1..Len(u) : u[i] = "pad" => i = 2 /\ id # 0
      /\ id # 0 => Len(u) >= 2
  <2>1. CASE id = 0
    <3>1. u = <<"user">>
      BY <2>1 DEF UserMessage
    <3>2. u \in Seq(Symbol) /\ Len(u) = 1 /\ u[1] = "user"
      BY <3>1 DEF Symbol
    <3> HIDE DEF u
    <3> QED BY <2>1, <3>2
  <2>2. CASE id # 0
    <3>1. u = <<"user", "pad", "end">>
      BY <2>2 DEF UserMessage
    <3>2. u \in Seq(Symbol) /\ Len(u) = 3 /\ u[1] = "user" /\ u[3] = "end"
      BY <3>1 DEF Symbol
    <3> HIDE DEF u
    <3> QED BY <2>2, <3>2
  <2> QED BY <2>1, <2>2
<1>2. a \in Seq(Symbol) /\ NoPad(a)
  <2>1. CASE mode = "none"
    <3>1. a = <<"nothink">>
      BY <2>1 DEF AssistantPrefix
    <3>2. a \in Seq(Symbol) /\ Len(a) = 1 /\ a[1] = "nothink"
      BY <3>1 DEF Symbol
    <3> HIDE DEF a
    <3> QED BY <3>2 DEF NoPad
  <2>2. CASE mode = "max"
    <3>1. a = <<"thinkmax">>
      BY <2>2 DEF AssistantPrefix
    <3>2. a \in Seq(Symbol) /\ Len(a) = 1 /\ a[1] = "thinkmax"
      BY <3>1 DEF Symbol
    <3> HIDE DEF a
    <3> QED BY <3>2 DEF NoPad
  <2>3. CASE mode # "none" /\ mode # "max"
    <3>1. a = <<"think">>
      BY <2>3 DEF AssistantPrefix
    <3>2. a \in Seq(Symbol) /\ Len(a) = 1 /\ a[1] = "think"
      BY <3>1 DEF Symbol
    <3> HIDE DEF a
    <3> QED BY <3>2 DEF NoPad
  <2> QED BY <2>1, <2>2, <2>3
<1> HIDE DEF u, a
<1>3. /\ u \o a \in Seq(Symbol) /\ Len(u \o a) = Len(u) + Len(a) /\ Len(u) \in Nat /\ Len(a) \in Nat
      /\ \A i \in 1..Len(u) : (u \o a)[i] = u[i]
      /\ \A i \in Len(u) + 1..Len(u) + Len(a) : (u \o a)[i] = a[i - Len(u)]
  BY <1>1, <1>2, ConcatAt
<1>4. ASSUME NEW i \in 1..Len(u \o a), (u \o a)[i] = "pad" PROVE i = 2 /\ id # 0
  <2>1. CASE i <= Len(u)
    <3>1. i \in 1..Len(u)
      BY <1>3, <2>1
    <3> QED BY <1>1, <1>3, <1>4, <3>1
  <2>2. CASE i > Len(u)
    <3>1. i \in Len(u) + 1..Len(u) + Len(a) /\ i - Len(u) \in 1..Len(a)
      BY <1>3, <2>2
    <3>2. a[i - Len(u)] = "pad"
      BY <1>3, <1>4, <3>1
    <3> QED BY <1>2, <3>1, <3>2 DEF NoPad
  <2>3. i <= Len(u) \/ i > Len(u)
    BY <1>3
  <2> QED BY <2>1, <2>2, <2>3
<1>5. id # 0 => Len(u \o a) >= 2
  BY <1>1, <1>3
<1> QED BY <1>3, <1>4, <1>5 DEF u, a, Opening

LEMMA PartsIs == \A id, mode : UserMessage(id) \in Seq(Symbol) /\ AssistantPrefix(mode) \in Seq(Symbol)
<1>1. <<"user">> \in Seq(Symbol) /\ <<"user", "pad", "end">> \in Seq(Symbol)
  BY DEF Symbol
<1>2. <<"nothink">> \in Seq(Symbol) /\ <<"think">> \in Seq(Symbol) /\ <<"thinkmax">> \in Seq(Symbol)
  BY DEF Symbol
<1> QED BY <1>1, <1>2 DEF UserMessage, AssistantPrefix

LEMMA SuffixIs == AssistantSuffix \in Seq(Symbol) /\ NoPad(AssistantSuffix)
<1>1. AssistantSuffix \in Seq(Symbol) /\ Len(AssistantSuffix) = 2 /\ AssistantSuffix[1] # "pad" /\ AssistantSuffix[2] # "pad"
  BY DEF AssistantSuffix, Symbol
<1> QED BY <1>1 DEF NoPad

LEMMA NothingMarked == \A id \in Ids : Marked(<<>>, id) = <<>>
<1> SUFFICES ASSUME NEW id \in Ids PROVE Marked(<<>>, id) = <<>>
  OBVIOUS
<1>1. <<>> \in Seq(Symbol) /\ Len(<<>>) = 0
  BY EmptySeq
<1>2. Marked(<<>>, id) \in Seq(Label) /\ Len(Marked(<<>>, id)) = 0
  BY <1>1, MarkIs
<1> QED BY <1>2, EmptySeq

\* what an open turn says: its opening and what was sampled
LEMMA OpenText ==
    ASSUME NEW t \in TurnRecord, ~t.closed
    PROVE  TurnText(t) = Marked(Opening(t.id, t.mode), t.id) \o Marked(Sampled(t.n), t.id)
<1>1. t.id \in Ids /\ t.n \in Nat
  BY DEF TurnRecord
<1>2. Opening(t.id, t.mode) \in Seq(Symbol) /\ Sampled(t.n) \in Seq(Symbol)
  BY <1>1, OpeningIs, SampledIs
<1>3. (Opening(t.id, t.mode) \o Sampled(t.n)) \o <<>> = Opening(t.id, t.mode) \o Sampled(t.n)
  BY <1>2, ConcatProperties, ConcatEmptySeq
<1>4. TurnText(t) = Marked((Opening(t.id, t.mode) \o Sampled(t.n)) \o <<>>, t.id)
  BY DEF TurnText, Opening, Sampled
<1> QED BY <1>1, <1>2, <1>3, <1>4, MarksJoin

LEMMA ClosedText ==
    ASSUME NEW t \in TurnRecord, t.closed
    PROVE  TurnText(t) = (Marked(Opening(t.id, t.mode), t.id) \o Marked(Sampled(t.n), t.id)) \o Marked(AssistantSuffix, t.id)
<1>1. t.id \in Ids /\ t.n \in Nat
  BY DEF TurnRecord
<1>2. Opening(t.id, t.mode) \in Seq(Symbol) /\ Sampled(t.n) \in Seq(Symbol) /\ AssistantSuffix \in Seq(Symbol)
  BY <1>1, OpeningIs, SampledIs, SuffixIs
<1>3. Opening(t.id, t.mode) \o Sampled(t.n) \in Seq(Symbol)
  BY <1>2, ConcatProperties
<1>4. TurnText(t) = Marked((Opening(t.id, t.mode) \o Sampled(t.n)) \o AssistantSuffix, t.id)
  BY DEF TurnText, Opening, Sampled
<1>5. Marked((Opening(t.id, t.mode) \o Sampled(t.n)) \o AssistantSuffix, t.id)
        = Marked(Opening(t.id, t.mode) \o Sampled(t.n), t.id) \o Marked(AssistantSuffix, t.id)
  BY <1>1, <1>2, <1>3, MarksJoin
<1>6. Marked(Opening(t.id, t.mode) \o Sampled(t.n), t.id)
        = Marked(Opening(t.id, t.mode), t.id) \o Marked(Sampled(t.n), t.id)
  BY <1>1, <1>2, MarksJoin
<1> QED BY <1>4, <1>5, <1>6

LEMMA TextIs == \A t \in TurnRecord : TurnText(t) \in Seq(Label)
<1> SUFFICES ASSUME NEW t \in TurnRecord PROVE TurnText(t) \in Seq(Label)
  OBVIOUS
<1> DEFINE a == Marked(Opening(t.id, t.mode), t.id)
           b == Marked(Sampled(t.n), t.id)
           c == Marked(AssistantSuffix, t.id)
<1>1. t.id \in Ids /\ t.n \in Nat /\ t.closed \in BOOLEAN
  BY DEF TurnRecord
<1>2. a \in Seq(Label) /\ b \in Seq(Label) /\ c \in Seq(Label)
  BY <1>1, OpeningIs, SampledIs, SuffixIs, MarkIs
<1>3. a \o b \in Seq(Label) /\ (a \o b) \o c \in Seq(Label)
  <2> HIDE DEF a, b, c
  <2>1. a \o b \in Seq(Label)
    BY <1>2, ConcatProperties
  <2> QED BY <1>2, <2>1, ConcatProperties
<1> QED BY <1>1, <1>3, OpenText, ClosedText

\* The turns one after the other
LEMMA SaidTurns ==
    ASSUME NEW said \in Seq(TurnRecord)
    PROVE  \E g \in [0..Len(said) -> Seq(Label)] :
              g[0] = <<>> /\ SaidText(said) = g[Len(said)] /\ \A k \in 1..Len(said) : g[k] = g[k - 1] \o TurnText(said[k])
<1> DEFINE N == Len(said)
           after(x, k) == x \o TurnText(said[k])
           Step == [q \in Seq(Label) \X (1..N) |-> after(q[1], q[2])]
           p == CHOOSE g : g = [k \in 0..N |-> IF k = 0 THEN <<>> ELSE after(g[k - 1], k)]
<1>1. N \in Nat /\ <<>> \in Seq(Label)
  OBVIOUS
<1>2. \A x \in Seq(Label), k \in 1..N : after(x, k) \in Seq(Label)
  <2> SUFFICES ASSUME NEW x \in Seq(Label), NEW k \in 1..N PROVE after(x, k) \in Seq(Label)
    OBVIOUS
  <2>1. said[k] \in TurnRecord
    BY ElementOfSeq
  <2>2. TurnText(said[k]) \in Seq(Label)
    BY <2>1, TextIs
  <2> QED BY <2>2, ConcatProperties
<1>3. SaidText(said) = p[N]
  BY DEF SaidText
<1> HIDE DEF after, N
<1>4. Step \in [Seq(Label) \X (1..N) -> Seq(Label)]
  BY <1>2
<1>5. PICK g : g \in Turns(N, Seq(Label), <<>>, Step)
  <2> HIDE DEF Step
  <2> QED BY <1>1, <1>4, TurnsExist
<1>6. g \in [0..N -> Seq(Label)] /\ g[0] = <<>> /\ \A k \in 1..N : g[k] = after(g[k - 1], k)
  <2>1. g \in [0..N -> Seq(Label)] /\ g[0] = <<>> /\ \A k \in 1..N : g[k] = Step[<<g[k - 1], k>>]
    BY <1>5 DEF Turns
  <2>2. ASSUME NEW k \in 1..N PROVE g[k] = after(g[k - 1], k)
    <3>1. <<g[k - 1], k>> \in Seq(Label) \X (1..N)
      BY <1>1, <2>1
    <3> QED BY <2>1, <3>1
  <2> QED BY <2>1, <2>2
<1>7. g = [k \in 0..N |-> IF k = 0 THEN <<>> ELSE after(g[k - 1], k)]
  BY <1>1, <1>6
<1>8. p = [k \in 0..N |-> IF k = 0 THEN <<>> ELSE after(p[k - 1], k)]
  BY <1>7
<1> HIDE DEF p
<1>9. p[0] = <<>> /\ \A k \in 1..N : p[k] = after(p[k - 1], k)
  BY <1>1, <1>8
<1>10. Alike(N, p, g)
  BY <1>1, <1>6, <1>8, <1>9 DEF Alike
<1>11. p = g
  BY <1>1, <1>10, SameTurns
<1> QED BY <1>3, <1>6, <1>11 DEF after, N

LEMMA SaidTurnsIs == \A said \in Seq(TurnRecord) : SaidText(said) \in Seq(Label)
<1> SUFFICES ASSUME NEW said \in Seq(TurnRecord) PROVE SaidText(said) \in Seq(Label)
  OBVIOUS
<1>1. PICK g \in [0..Len(said) -> Seq(Label)] : SaidText(said) = g[Len(said)]
  BY SaidTurns
<1>2. Len(said) \in 0..Len(said)
  BY LenProperties
<1> QED BY <1>1, <1>2

LEMMA SaidNothing == SaidText(<<>>) = <<>>
<1>1. <<>> \in Seq(TurnRecord) /\ Len(<<>>) = 0
  BY EmptySeq
<1> QED BY <1>1, SaidTurns

\* A turn is said after the earlier ones
LEMMA SaidThen ==
    ASSUME NEW said \in Seq(TurnRecord), NEW t \in TurnRecord
    PROVE  /\ SaidText(Append(said, t)) = SaidText(said) \o TurnText(t) /\ SaidText(said) \in Seq(Label)
           /\ Append(said, t) \in Seq(TurnRecord)
<1> DEFINE N == Len(said)
           all == Append(said, t)
<1>1. /\ N \in Nat /\ all \in Seq(TurnRecord) /\ Len(all) = N + 1 /\ all[N + 1] = t
      /\ \A i \in 1..N : all[i] = said[i]
  BY AppendProperties, LenProperties
<1> HIDE DEF all
<1>2. PICK g \in [0..N -> Seq(Label)] :
          g[0] = <<>> /\ SaidText(said) = g[N] /\ \A k \in 1..N : g[k] = g[k - 1] \o TurnText(said[k])
  BY SaidTurns
<1>3. PICK h \in [0..N + 1 -> Seq(Label)] :
          h[0] = <<>> /\ SaidText(all) = h[N + 1] /\ \A k \in 1..N + 1 : h[k] = h[k - 1] \o TurnText(all[k])
  <2>1. \E h \in [0..Len(all) -> Seq(Label)] :
          h[0] = <<>> /\ SaidText(all) = h[Len(all)] /\ \A k \in 1..Len(all) : h[k] = h[k - 1] \o TurnText(all[k])
    BY <1>1, SaidTurns
  <2> QED BY <1>1, <2>1
<1> HIDE DEF N
<1>4. h[N] = g[N]
  <2> DEFINE S == {k \in 0..N : h[k] = g[k]}
  <2>1. 0 \in S
    BY <1>1, <1>2, <1>3
  <2>2. \A k \in 0..N - 1 : k \in S => k + 1 \in S
    <3> SUFFICES ASSUME NEW k \in 0..N - 1, k \in S PROVE k + 1 \in S
      OBVIOUS
    <3>1. k + 1 \in 1..N /\ k + 1 \in 1..N + 1 /\ k + 1 \in 0..N /\ (k + 1) - 1 = k
      BY <1>1
    <3>2. h[k + 1] = h[k] \o TurnText(all[k + 1]) /\ g[k + 1] = g[k] \o TurnText(said[k + 1])
      BY <1>2, <1>3, <3>1
    <3> QED BY <1>1, <3>1, <3>2
  <2>3. \A k \in 0..N : k \in S
    <3> HIDE DEF S
    <3> QED BY <1>1, <2>1, <2>2, UpTo
  <2> QED BY <1>1, <2>3
<1>5. h[N + 1] = h[N] \o TurnText(t)
  <2>1. N + 1 \in 1..N + 1 /\ (N + 1) - 1 = N
    BY <1>1
  <2> QED BY <1>1, <1>3, <2>1
<1>6. g[N] \in Seq(Label)
  BY <1>1, <1>2
<1> QED BY <1>1, <1>2, <1>3, <1>4, <1>5, <1>6 DEF all

-----------------------------------------------------------------------------
(* The transcript after its head                                           *)

\* the spans after a message that may bring an image
NewSpans(r, n, g) == IF g = 0 THEN r ELSE Append(r, [start |-> n + 1, id |-> g])

Ordered(r) == \A m \in 1..Len(r), k \in 1..Len(r) : m < k => r[m].start < r[k].start
Inside(r, n) == \A m \in 1..Len(r) : r[m].start < n

\* the --prefix-file of a launch
PairOf(gv) == IF gv.prefix THEN <<"pair">> ELSE <<>>

\* rest and its spans say what was said, whatever stands in front
Says(gv, rest, rel, said) ==
    /\ rest \in Seq(Symbol) /\ rel \in Spans /\ Ordered(rel) /\ Inside(rel, Len(rest))
    /\ said \in Seq(TurnRecord)
    /\ Labelled(rest, rel) = Marked(PairOf(gv), 0) \o SaidText(said)

LEMMA InsideMore ==
    ASSUME NEW r \in Spans, NEW n \in Nat, NEW k \in Nat, Inside(r, n)
    PROVE  Inside(r, n + k)
<1> SUFFICES ASSUME NEW m \in 1..Len(r) PROVE r[m].start < n + k
  BY DEF Inside
<1>1. r[m].start \in Nat /\ r[m].start < n
  BY SpanIs DEF Inside
<1> QED BY <1>1

LEMMA NewSpansIs ==
    ASSUME NEW r \in Spans, NEW n \in Nat, NEW g \in Ids, Ordered(r), Inside(r, n)
    PROVE  /\ NewSpans(r, n, g) \in Spans /\ Ordered(NewSpans(r, n, g))
           /\ Inside(NewSpans(r, n, g), n + 2)
           /\ g = 0 => Inside(NewSpans(r, n, g), n)
           /\ \A i \in 1..n : IdAt(NewSpans(r, n, g), i) = IdAt(r, i)
           /\ g # 0 => IdAt(NewSpans(r, n, g), n + 2) = g
           /\ SubSeq(NewSpans(r, n, g), 1, Len(r)) = r
<1>0. /\ Len(r) \in Nat /\ \A m \in 1..Len(r) : r[m].start \in Nat
      /\ \A m \in 1..Len(r) : r[m].start < n
  BY SpanIs DEF Inside
<1>1. CASE g = 0
  <2>1. NewSpans(r, n, g) = r
    BY <1>1 DEF NewSpans
  <2>2. Inside(r, n + 2)
    BY <1>0 DEF Inside
  <2>3. SubSeq(r, 1, Len(r)) = r
    BY SubSeqFull DEF Spans
  <2> QED BY <1>1, <2>1, <2>2, <2>3
<1>2. CASE g # 0
  <2> DEFINE N == Len(r)
             e == [start |-> n + 1, id |-> g]
             q == NewSpans(r, n, g)
  <2>1. e \in Span /\ e.start = n + 1 /\ e.id = g
    BY <1>2 DEF Span, Ids
  <2>2. q = Append(r, e)
    BY <1>2 DEF NewSpans
  <2> HIDE DEF e
  <2>3. Append(r, e) \in Spans /\ Len(Append(r, e)) = N + 1 /\ Append(r, e)[N + 1] = e /\ \A m \in 1..N : Append(r, e)[m] = r[m]
    BY <2>1, AppendProperties DEF Spans
  <2>4. q \in Spans /\ Len(q) = N + 1 /\ q[N + 1] = e /\ \A m \in 1..N : q[m] = r[m]
    BY <2>2, <2>3
  <2> HIDE DEF q, N
  <2>5. N \in Nat /\ \A m \in 1..N : r[m].start \in Nat /\ r[m].start < n /\ q[m].start = r[m].start
    BY <1>0, <2>4 DEF N
  <2>6. q[N + 1].start = n + 1 /\ q[N + 1].id = g
    BY <2>1, <2>4
  <2>7. \A m \in 1..N + 1 : m \in 1..N \/ m = N + 1
    BY <2>5
  <2>8. Ordered(q)
    <3> SUFFICES ASSUME NEW m \in 1..N + 1, NEW k \in 1..N + 1, m < k PROVE q[m].start < q[k].start
      BY <2>4 DEF Ordered
    <3>1. m \in 1..N
      BY <2>5
    <3>2. CASE k \in 1..N
      BY <2>5, <3>1, <3>2 DEF Ordered, N
    <3>3. CASE k = N + 1
      BY <2>5, <2>6, <3>1, <3>3
    <3> QED BY <2>7, <3>2, <3>3
  <2>9. Inside(q, n + 2)
    <3> SUFFICES ASSUME NEW m \in 1..N + 1 PROVE q[m].start < n + 2
      BY <2>4 DEF Inside
    <3>1. CASE m \in 1..N
      BY <2>5, <3>1
    <3>2. CASE m = N + 1
      BY <2>6, <3>2
    <3> QED BY <2>7, <3>1, <3>2
  <2>10. ASSUME NEW i \in 1..n PROVE IdAt(q, i) = IdAt(r, i)
    <3>1. q[N + 1].start # i - 1
      BY <2>6
    <3>2. ImageAt(q, i) = ImageAt(r, i)
      <4>1. ImageAt(q, i) = {m \in 1..N + 1 : q[m].start = i - 1} /\ ImageAt(r, i) = {m \in 1..N : r[m].start = i - 1}
        BY <2>4 DEF ImageAt, N
      <4>2. \A m \in 1..N + 1 : q[m].start = i - 1 => m \in 1..N
        BY <2>7, <3>1
      <4> QED BY <2>5, <4>1, <4>2
    <3>3. \A m \in ImageAt(q, i) : q[m].id = r[m].id
      BY <2>4, <3>2 DEF ImageAt, N
    <3> QED BY <3>2, <3>3, SameId
  <2>11. IdAt(q, n + 2) = g
    <3>1. ImageAt(q, n + 2) = {m \in 1..N + 1 : q[m].start = (n + 2) - 1}
      BY <2>4 DEF ImageAt
    <3>2. \A m \in 1..N + 1 : q[m].start = (n + 2) - 1 <=> m = N + 1
      BY <2>5, <2>6, <2>7
    <3>3. ImageAt(q, n + 2) = {N + 1}
      BY <2>5, <3>1, <3>2
    <3> QED BY <2>6, <3>3 DEF IdAt
  <2>12. SubSeq(q, 1, N) = r
    <3>1. r \o <<e>> = q
      BY <2>2 DEF Spans
    <3>2. <<e>> \in Seq(Span)
      BY <2>1
    <3> QED BY <3>1, <3>2, Halves DEF Spans, N
  <2> QED BY <1>2, <2>4, <2>8, <2>9, <2>10, <2>11, <2>12 DEF q, N
<1> QED BY <1>1, <1>2

\* A turn is opened: the user's message, with its image, and the assistant's prefix
LEMMA SaysOpening ==
    ASSUME NEW gv, NEW rest, NEW rel, NEW said, Says(gv, rest, rel, said), NEW id \in Ids, NEW mode
    PROVE  /\ Labelled(rest \o Opening(id, mode), NewSpans(rel, Len(rest), id))
                 = Labelled(rest, rel) \o Marked(Opening(id, mode), id)
           /\ Inside(NewSpans(rel, Len(rest), id), Len(rest \o Opening(id, mode)))
           /\ rest \o Opening(id, mode) \in Seq(Symbol)
           /\ NewSpans(rel, Len(rest), id) \in Spans /\ Ordered(NewSpans(rel, Len(rest), id))
<1> DEFINE n == Len(rest)
           b == Opening(id, mode)
           q == NewSpans(rel, n, id)
           p == <<[start |-> 1, id |-> id]>>
<1>1. rest \in Seq(Symbol) /\ rel \in Spans /\ Ordered(rel) /\ Inside(rel, n) /\ n \in Nat
  BY LenProperties DEF Says
<1>2. /\ b \in Seq(Symbol)
      /\ \A i \in 1..Len(b) : b[i] = "pad" => i = 2 /\ id # 0
      /\ id # 0 => Len(b) >= 2
  BY OpeningIs
<1>3. /\ q \in Spans /\ Ordered(q) /\ Inside(q, n + 2) /\ (id = 0 => Inside(q, n))
      /\ \A i \in 1..n : IdAt(q, i) = IdAt(rel, i)
      /\ id # 0 => IdAt(q, n + 2) = id
  BY <1>1, NewSpansIs
<1> HIDE DEF n, b, q
<1>4. rest \o b \in Seq(Symbol) /\ Len(rest \o b) = n + Len(b) /\ Len(b) \in Nat
  BY <1>1, <1>2, ConcatAt DEF n
<1>5. Inside(q, n + Len(b))
  <2> SUFFICES ASSUME NEW m \in 1..Len(q) PROVE q[m].start < n + Len(b)
    BY DEF Inside
  <2>1. q[m].start \in Nat
    BY <1>3, SpanIs
  <2>2. CASE id = 0
    <3>1. q[m].start < n
      BY <1>3, <2>2 DEF Inside
    <3> QED BY <1>1, <1>4, <2>1, <3>1
  <2>3. CASE id # 0
    <3>1. q[m].start < n + 2 /\ Len(b) >= 2
      BY <1>2, <1>3, <2>3 DEF Inside
    <3> QED BY <1>1, <1>4, <2>1, <3>1
  <2> QED BY <2>2, <2>3
<1>6. Labelled(rest \o b, q) = Labelled(rest, rel) \o Marked(b, id)
  BY <1>1, <1>2, <1>3, LabelsMark DEF n
<1> QED BY <1>3, <1>4, <1>5, <1>6 DEF n, b, q

-----------------------------------------------------------------------------
(* The session and what its KV rows were computed from                     *)

SessRecord == [toks : Seq(Symbol), seen : Seq(Label), valid : BOOLEAN, spans : Spans, vision : BOOLEAN]

\* a valid checkpoint was computed from its own tokens and images
SessExact(s) ==
    /\ s \in SessRecord
    /\ s.valid => s.seen = Labelled(s.toks, s.spans)
    /\ ~s.vision => s.spans = <<>>

\* The first symbols, with the images that stand among them
LEMMA PartLabels ==
    ASSUME NEW toks \in Seq(Symbol), NEW r \in Spans, NEW q \in Spans, NEW k \in 0..Len(toks),
           \A i \in 1..k : IdAt(q, i) = IdAt(r, i)
    PROVE  /\ SubSeq(toks, 1, k) \in Seq(Symbol) /\ Len(SubSeq(toks, 1, k)) = k
           /\ Labelled(SubSeq(toks, 1, k), q) = SubSeq(Labelled(toks, r), 1, k)
<1> DEFINE N == Len(toks)
           L == Labelled(toks, r)
           a == SubSeq(toks, 1, k)
           A == Labelled(a, q)
           B == SubSeq(L, 1, k)
<1>1. /\ N \in Nat /\ k \in Nat /\ k \in Int /\ k <= N /\ \A i \in 1..k : i \in 1..N
      /\ \A i \in 1..k : toks[i] \in Symbol
  BY LenProperties, ElementOfSeq
<1>2. L \in Seq(Label) /\ Len(L) = N /\ \A i \in 1..N : L[i] = Sign(toks[i], IdAt(r, i))
  BY LabelIs
<1> HIDE DEF L, N
<1>3. a \in Seq(Symbol) /\ Len(a) = k /\ \A i \in 1..k : a[i] = toks[i]
  BY <1>1, FirstOf
<1>4. \A i \in 1..k : L[i] \in Label
  BY <1>1, <1>2, ElementOfSeq
<1>5. B \in Seq(Label) /\ Len(B) = k /\ \A i \in 1..k : B[i] = L[i]
  BY <1>1, <1>4, FirstOf
<1> HIDE DEF a, B
<1>6. A \in Seq(Label) /\ Len(A) = k /\ \A i \in 1..k : A[i] = Sign(a[i], IdAt(q, i))
  BY <1>3, LabelIs
<1> HIDE DEF A
<1>7. \A i \in 1..k : A[i] = B[i]
  BY <1>1, <1>2, <1>3, <1>5, <1>6
<1>8. A = B
  BY <1>5, <1>6, <1>7, SeqEqual
<1> QED BY <1>3, <1>8 DEF A, B, L, a

\* vision_count: the images the prefill passed are the first ones
LEMMA PassedImages ==
    ASSUME NEW r \in Spans, Ordered(r), NEW k \in Nat
    PROVE  \E q \in Spans : /\ q = SubSeq(r, 1, Cardinality({m \in 1..Len(r) : r[m].start < k}))
                            /\ Len(q) <= Len(r) /\ \A i \in 1..k : IdAt(q, i) = IdAt(r, i)
<1> DEFINE N == Len(r)
           passed == {m \in 1..N : r[m].start < k}
           T == {m \in 1..N + 1 : m = N + 1 \/ ~(r[m].start < k)}
<1>1. /\ N \in Nat /\ \A m \in 1..N : r[m] \in Span
      /\ \A m \in 1..N : r[m].start \in Nat
      /\ \A m \in 1..N, j \in 1..N : m < j => r[m].start < r[j].start
  BY SpanIs DEF Ordered
<1> HIDE DEF N
<1>2. PICK n \in T : \A m \in T : n <= m
  <2>1. T \in SUBSET Nat /\ T # {}
    BY <1>1
  <2> HIDE DEF T
  <2> QED BY <2>1, LeastNatural
<1> DEFINE c == n - 1
<1>3. c \in 0..N /\ c \in Nat /\ n = c + 1
  BY <1>1, <1>2
<1>4. \A m \in 1..N : r[m].start < k <=> m <= c
  <2> SUFFICES ASSUME NEW m \in 1..N PROVE r[m].start < k <=> m <= c
    OBVIOUS
  <2>1. ASSUME m <= c PROVE r[m].start < k
    <3>1. m \in 1..N + 1 /\ ~(n <= m)
      BY <1>1, <1>3, <2>1
    <3> QED BY <1>2, <3>1
  <2>2. ASSUME ~(m <= c) PROVE ~(r[m].start < k)
    <3>1. n <= m /\ n \in 1..N /\ n # N + 1
      BY <1>1, <1>2, <1>3, <2>2
    <3>2. ~(r[n].start < k)
      BY <1>2, <3>1
    <3>3. n = m \/ r[n].start < r[m].start
      BY <1>1, <1>3, <3>1
    <3>4. r[n].start \in Nat /\ r[m].start \in Nat
      BY <1>1, <3>1
    <3> QED BY <3>2, <3>3, <3>4
  <2> QED BY <2>1, <2>2
<1>5. passed = 1..c
  BY <1>1, <1>3, <1>4
<1>6. Cardinality(passed) = c
  <2>1. c \in Nat
    BY <1>3
  <2> HIDE DEF passed, c
  <2>2. 1 \in Int /\ c \in Int
    BY <2>1
  <2>3. Cardinality(1..c) = IF 1 > c THEN 0 ELSE c - 1 + 1
    BY <2>2, FS_Interval
  <2>4. Cardinality(1..c) = c
    BY <2>1, <2>3
  <2> QED BY <1>5, <2>4
<1> DEFINE q == SubSeq(r, 1, c)
<1>7. q \in Seq(Span) /\ Len(q) = c /\ \A m \in 1..c : q[m] = r[m]
  BY <1>1, <1>3, FirstOf
<1> HIDE DEF q, c
<1>8. ASSUME NEW i \in 1..k PROVE IdAt(q, i) = IdAt(r, i)
  <2>1. \A m \in 1..N : r[m].start = i - 1 => m \in 1..c
    <3> SUFFICES ASSUME NEW m \in 1..N, r[m].start = i - 1 PROVE m \in 1..c
      OBVIOUS
    <3>1. r[m].start < k
      BY <1>1
    <3> QED BY <1>3, <1>4, <3>1
  <2>2. \A m \in 1..c : m \in 1..N /\ q[m].start = r[m].start /\ q[m].id = r[m].id
    BY <1>1, <1>3, <1>7
  <2>3. ImageAt(q, i) = {m \in 1..c : q[m].start = i - 1} /\ ImageAt(r, i) = {m \in 1..N : r[m].start = i - 1}
    BY <1>7 DEF ImageAt, N
  <2>4. ImageAt(q, i) = ImageAt(r, i)
    BY <2>1, <2>2, <2>3
  <2>5. \A m \in ImageAt(q, i) : q[m].id = r[m].id
    BY <2>2, <2>3
  <2> QED BY <2>4, <2>5, SameId
<1>9. q = SubSeq(r, 1, Cardinality(passed))
  BY <1>6 DEF q
<1> HIDE DEF passed
<1>10. q \in Spans /\ Len(q) <= N
  BY <1>1, <1>3, <1>7 DEF Spans
<1>11. passed = {m \in 1..Len(r) : r[m].start < k}
  BY DEF passed, N
<1> QED BY <1>8, <1>9, <1>10, <1>11 DEF N

LEMMA NothingSession == SessExact(NoSession) /\ NoSession.toks = <<>> /\ NoSession.seen = <<>> /\ ~NoSession.valid
  BY EmptySeq DEF NoSession, SessExact, SessRecord, Spans

\* A prefill that continues what the KV rows were computed from leaves rows of toks and images
LEMMA ReachedIs ==
    ASSUME NEW base, SessExact(base), NEW toks \in Seq(Symbol), NEW images \in Spans, Ordered(images),
           NEW k \in Len(base.toks)..Len(toks), NEW v \in BOOLEAN,
           base.seen = SubSeq(Labelled(toks, images), 1, Len(base.toks))
    PROVE  /\ SessExact(Reached(base, toks, images, k, v))
           /\ Reached(base, toks, images, k, v).toks = SubSeq(toks, 1, k)
           /\ Reached(base, toks, images, k, v).seen = SubSeq(Labelled(toks, images), 1, k)
           /\ Reached(base, toks, images, k, v).valid = v
<1> DEFINE L == Labelled(toks, images)
           b == Len(base.toks)
           q == SubSeq(images, 1, Cardinality({m \in 1..Len(images) : images[m].start < k}))
           s == Reached(base, toks, images, k, v)
<1>1. b \in Nat /\ Len(toks) \in Nat
  <2>1. base.toks \in Seq(Symbol)
    BY DEF SessExact, SessRecord
  <2> QED BY <2>1, LenProperties
<1>2. k \in Nat /\ b <= k /\ k <= Len(toks) /\ k \in 0..Len(toks)
  BY <1>1
<1>3. q \in Spans /\ Len(q) <= Len(images) /\ \A i \in 1..k : IdAt(q, i) = IdAt(images, i)
  BY <1>2, PassedImages
<1>4. s = [toks |-> SubSeq(toks, 1, k), seen |-> base.seen \o SubSeq(L, b + 1, k),
           valid |-> v, spans |-> q, vision |-> images # <<>>]
  BY DEF Reached
<1> HIDE DEF q, s
<1>5. /\ SubSeq(toks, 1, k) \in Seq(Symbol)
      /\ Labelled(SubSeq(toks, 1, k), q) = SubSeq(L, 1, k)
  BY <1>2, <1>3, PartLabels
<1>6. L \in Seq(Label) /\ Len(L) = Len(toks)
  BY LabelIs
<1> HIDE DEF L, b
<1>7. base.seen \o SubSeq(L, b + 1, k) = SubSeq(L, 1, k)
  <2>1. base.seen = SubSeq(L, 1, b)
    BY DEF L, b
  <2>2. 1 \in 1..Len(L) + 1 /\ b \in 1 - 1..Len(L) /\ k \in b..Len(L)
    BY <1>1, <1>2, <1>6
  <2>3. SubSeq(L, 1, b) \o SubSeq(L, b + 1, k) = SubSeq(L, 1, k)
    BY <1>6, <2>2, ConcatAdjacentSubSeq
  <2> QED BY <2>1, <2>3
<1>8. SubSeq(L, 1, k) \in Seq(Label)
  <2>1. \A i \in 1..k : L[i] \in Label
    BY <1>2, <1>6, ElementOfSeq
  <2> QED BY <1>2, <2>1, FirstOf
<1>9. images = <<>> => q = <<>>
  <2> SUFFICES ASSUME images = <<>> PROVE q = <<>>
    OBVIOUS
  <2>1. Len(q) = 0
    <3>1. Len(images) = 0
      OBVIOUS
    <3>2. Len(q) \in Nat /\ Len(q) <= 0
      BY <1>3, <3>1, SpanIs
    <3> QED BY <3>2
  <2> QED BY <1>3, <2>1, EmptySeq DEF Spans
<1>10. /\ s.toks = SubSeq(toks, 1, k) /\ s.seen = SubSeq(L, 1, k) /\ s.valid = v /\ s.spans = q
       /\ s.vision = (images # <<>>)
  BY <1>4, <1>7
<1>11. s \in SessRecord
  BY <1>3, <1>4, <1>5, <1>7, <1>8 DEF SessRecord
<1>12. SessExact(s)
  BY <1>5, <1>9, <1>10, <1>11 DEF SessExact
<1> QED BY <1>10, <1>12 DEF s, L

\* A checkpoint that is kept was computed from the first symbols of toks and their images
\* (p36_session_vision_prefix_matches)
LEMMA KeptRows ==
    ASSUME NEW s, SessExact(s), NEW toks \in Seq(Symbol), NEW images \in Spans,
           s.valid, IsPrefix(s.toks, toks),
           IF images = <<>> THEN ~s.vision ELSE VisionMatches(s, images)
    PROVE  s.seen = SubSeq(Labelled(toks, images), 1, Len(s.toks)) /\ Len(s.toks) <= Len(toks)
<1> DEFINE k == Len(s.toks)
           q == s.spans
<1>1. /\ s.toks \in Seq(Symbol) /\ q \in Spans /\ s.seen = Labelled(s.toks, q) /\ s.valid \in BOOLEAN
      /\ ~s.vision => q = <<>>
  BY DEF SessExact, SessRecord
<1>2. k \in Nat /\ Len(toks) \in Nat /\ k <= Len(toks) /\ SubSeq(s.toks, 1, k) = SubSeq(toks, 1, k)
  BY <1>1, LenProperties DEF IsPrefix
<1>3. SubSeq(s.toks, 1, k) = s.toks
  BY <1>1, SubSeqFull
<1> HIDE DEF k, q
<1>4. ASSUME NEW i \in 1..k PROVE IdAt(q, i) = IdAt(images, i)
  <2>1. CASE images = <<>>
    BY <1>1, <2>1
  <2>2. CASE images # <<>>
    <3>1. /\ Len(q) <= Len(images) /\ \A m \in 1..Len(q) : q[m] = images[m]
          /\ \A m \in Len(q) + 1..Len(images) : images[m].start - 1 >= k
      BY <2>2 DEF VisionMatches, q, k
    <3>2. /\ Len(q) \in Nat /\ Len(images) \in Nat /\ \A m \in 1..Len(images) : images[m].start \in Nat
      BY <1>1, SpanIs
    <3>3. \A m \in 1..Len(images) : images[m].start = i - 1 => m \in 1..Len(q)
      <4> SUFFICES ASSUME NEW m \in 1..Len(images), images[m].start = i - 1, m \notin 1..Len(q) PROVE FALSE
        OBVIOUS
      <4>1. m \in Len(q) + 1..Len(images)
        BY <3>2
      <4>2. images[m].start - 1 >= k /\ images[m].start \in Nat
        BY <3>1, <3>2, <4>1
      <4> QED BY <1>2, <4>2
    <3>4. \A m \in 1..Len(q) : m \in 1..Len(images)
      BY <3>1, <3>2
    <3>5. ImageAt(q, i) = ImageAt(images, i)
      BY <3>1, <3>3, <3>4 DEF ImageAt
    <3>6. \A m \in ImageAt(q, i) : q[m].id = images[m].id
      BY <3>1 DEF ImageAt
    <3> QED BY <3>5, <3>6, SameId
  <2> QED BY <2>1, <2>2
<1>5. k \in 0..Len(toks)
  BY <1>2
<1>6. Labelled(SubSeq(toks, 1, k), q) = SubSeq(Labelled(toks, images), 1, k)
  BY <1>1, <1>4, <1>5, PartLabels
<1> QED BY <1>1, <1>2, <1>3, <1>6 DEF k

\* p36_session_sync and p36_session_sync_vision, however they end
LEMMA SyncIs ==
    ASSUME NEW s, SessExact(s), NEW toks \in Seq(Symbol), NEW images \in Spans, Ordered(images), NEW ctx,
           NEW o \in SyncChat(s, toks, images, ctx)
    PROVE  /\ SessExact(o.sess)
           /\ o.rc = 0 => o.sess.valid /\ o.sess.toks = toks /\ o.sess.seen = Labelled(toks, images)
<1> DEFINE extends == s.valid /\ IsPrefix(s.toks, toks)
           reuse == IF images = <<>> THEN extends /\ ~s.vision ELSE extends /\ VisionMatches(s, images)
           base == IF reuse THEN s ELSE NoSession
           n == Len(toks)
           L == Labelled(toks, images)
<1>1. /\ SessExact(base) /\ base.seen = SubSeq(L, 1, Len(base.toks))
      /\ Len(base.toks) \in Nat /\ Len(base.toks) <= n /\ n \in Nat
  <2>0. n \in Nat /\ L \in Seq(Label)
    BY LabelIs
  <2>1. CASE reuse
    <3>1. base = s /\ s.valid /\ IsPrefix(s.toks, toks) /\ IF images = <<>> THEN ~s.vision ELSE VisionMatches(s, images)
      BY <2>1
    <3>2. s.seen = SubSeq(L, 1, Len(s.toks)) /\ Len(s.toks) <= Len(toks)
      BY <3>1, KeptRows
    <3>3. Len(s.toks) \in Nat
      BY LenProperties DEF SessExact, SessRecord
    <3> HIDE DEF reuse
    <3> QED BY <2>0, <3>1, <3>2, <3>3
  <2>2. CASE ~reuse
    <3>1. base = NoSession
      BY <2>2
    <3>2. SubSeq(L, 1, 0) = <<>> /\ Len(<<>>) = 0
      BY SubSeqEmpty, EmptySeq
    <3> HIDE DEF reuse, L, base
    <3> QED BY <2>0, <3>1, <3>2, NothingSession
  <2> QED BY <2>1, <2>2
<1>2. \/ o = [sess |-> s, rc |-> 1]
      \/ o = [sess |-> Reached(base, toks, images, n, TRUE), rc |-> 0]
      \/ \E k \in Len(base.toks)..n - 1, v \in BOOLEAN : o = [sess |-> Reached(base, toks, images, k, v), rc |-> 1]
  BY DEF SyncChat
<1> HIDE DEF base
<1>3. CASE o = [sess |-> s, rc |-> 1]
  BY <1>3
<1>4. CASE o = [sess |-> Reached(base, toks, images, n, TRUE), rc |-> 0]
  <2>1. n \in Len(base.toks)..n
    BY <1>1
  <2> DEFINE t == Reached(base, toks, images, n, TRUE)
  <2>a. SessExact(t) /\ t.toks = SubSeq(toks, 1, n) /\ t.seen = SubSeq(L, 1, n) /\ t.valid
    <3>1. PICK v \in BOOLEAN : v = TRUE
      OBVIOUS
    <3> DEFINE u == Reached(base, toks, images, n, v)
    <3>2. SessExact(u) /\ u.toks = SubSeq(toks, 1, n) /\ u.seen = SubSeq(L, 1, n) /\ u.valid = v
      BY <1>1, <2>1, ReachedIs
    <3>3. t = u
      BY <3>1
    <3> HIDE DEF t, u
    <3>4. u.valid
      BY <3>1, <3>2
    <3> QED BY <3>2, <3>3, <3>4
  <2>b. o.sess = t
    BY <1>4
  <2> HIDE DEF t
  <2>2. /\ SessExact(o.sess) /\ o.sess.toks = SubSeq(toks, 1, n) /\ o.sess.seen = SubSeq(L, 1, n) /\ o.sess.valid
    BY <2>a, <2>b
  <2>3. SubSeq(toks, 1, n) = toks
    BY SubSeqFull
  <2>4. SubSeq(L, 1, n) = L
    <3>1. L \in Seq(Label) /\ Len(L) = n
      BY LabelIs
    <3> HIDE DEF L, n
    <3> QED BY <3>1, SubSeqFull
  <2> QED BY <2>2, <2>3, <2>4
<1>5. CASE \E k \in Len(base.toks)..n - 1, v \in BOOLEAN : o = [sess |-> Reached(base, toks, images, k, v), rc |-> 1]
  <2>1. PICK k \in Len(base.toks)..n - 1, v \in BOOLEAN : o = [sess |-> Reached(base, toks, images, k, v), rc |-> 1]
    BY <1>5
  <2>2. k \in Len(base.toks)..n
    BY <1>1
  <2>3. SessExact(Reached(base, toks, images, k, v))
    BY <1>1, <2>2, ReachedIs
  <2>4. o.sess = Reached(base, toks, images, k, v) /\ o.rc = 1
    BY <2>1
  <2> QED BY <2>3, <2>4
<1> QED BY <1>2, <1>3, <1>4, <1>5

-----------------------------------------------------------------------------
(* What stands in front of the conversation                                *)

ChatRecord == [toks : Seq(Symbol), ctx : Nat, maxPrefix : Nat, sysPos : Nat, sysLen : Nat, sysMode : Modes,
               sysInit : BOOLEAN, enabled : {"high", "max"}, thinking : BOOLEAN, images : Spans]

\* the BOS token and the system block of a launch
BosOf(gv) == IF gv.bos THEN <<"bos">> ELSE <<>>
Block(gv, mode) == IF ~gv.template \/ mode = "none" THEN <<"system", "text">>
                   ELSE IF mode = "high" THEN <<"system", "text", "high">> ELSE <<"system", "text", "max", "max">>
Pre(n) == IF n = 0 THEN <<>> ELSE MaxPrefix
Body(gv, c) == IF c.sysInit THEN Block(gv, c.sysMode) ELSE <<>>
FrontOf(gv, c) == (BosOf(gv) \o Pre(c.maxPrefix)) \o Body(gv, c)

\* Think Max is chosen only where its effort prefix has a BOS token to stand behind, or a template
Behind(gv, c) == c.enabled = "max" => gv.bos \/ gv.template

\* the transcript is its head and rest, and the spans are those of rest behind the head
Framed(gv, c, rest, rel) ==
    /\ c \in ChatRecord /\ rest \in Seq(Symbol) /\ rel \in Spans
    /\ Behind(gv, c) /\ (c.maxPrefix = 2 => gv.bos)
    /\ c.maxPrefix \in {0, 2} /\ c.sysPos = Len(BosOf(gv)) + c.maxPrefix /\ c.sysLen = Len(Body(gv, c))
    /\ c.toks = FrontOf(gv, c) \o rest
    /\ c.images = Shifted(rel, Len(BosOf(gv)) + c.maxPrefix + c.sysLen)

\* the head is that of a thinking mode
Heads(gv, c, mode) ==
    c.maxPrefix = (IF mode = "max" /\ ~gv.template THEN 2 ELSE 0) /\ c.sysInit /\ c.sysMode = (IF gv.template THEN mode ELSE "none")

LEMMA BlockIs ==
    ASSUME NEW mode \in Modes
    PROVE  /\ SystemBlock(mode) = Block(given, mode)
           /\ \A gv : Block(gv, mode) \in Seq(Symbol) /\ NoPad(Block(gv, mode)) /\ Len(Block(gv, mode)) \in Nat
<1>1. SystemBlock(mode) = Block(given, mode)
  <2>1. mode = "none" \/ mode = "high" \/ mode = "max"
    BY DEF Modes
  <2>2. CASE ~given.template \/ mode = "none"
    BY <2>2 DEF SystemBlock, Block
  <2>3. CASE given.template /\ mode = "high"
    BY <2>3 DEF SystemBlock, Block
  <2>4. CASE given.template /\ mode = "max"
    BY <2>4 DEF SystemBlock, Block
  <2> QED BY <2>1, <2>2, <2>3, <2>4
<1> DEFINE blocks == {<<"system", "text">>, <<"system", "text", "high">>, <<"system", "text", "max", "max">>}
<1>2. ASSUME NEW b, b \in blocks PROVE b \in Seq(Symbol) /\ NoPad(b) /\ Len(b) \in Nat
  <2>1. CASE b = <<"system", "text">>
    <3>1. b \in Seq(Symbol) /\ Len(b) = 2 /\ b[1] = "system" /\ b[2] = "text"
      BY <2>1 DEF Symbol
    <3> QED BY <3>1 DEF NoPad
  <2>2. CASE b = <<"system", "text", "high">>
    <3>1. b \in Seq(Symbol) /\ Len(b) = 3 /\ b[1] = "system" /\ b[2] = "text" /\ b[3] = "high"
      BY <2>2 DEF Symbol
    <3> QED BY <3>1 DEF NoPad
  <2>3. CASE b = <<"system", "text", "max", "max">>
    <3>1. b \in Seq(Symbol) /\ Len(b) = 4 /\ b[1] = "system" /\ b[2] = "text" /\ b[3] = "max" /\ b[4] = "max"
      BY <2>3 DEF Symbol
    <3> QED BY <3>1 DEF NoPad
  <2> QED BY <1>2, <2>1, <2>2, <2>3
<1>3. \A gv : Block(gv, mode) \in blocks
  BY DEF Block
<1> QED BY <1>1, <1>2, <1>3

LEMMA PlainJoin ==
    ASSUME NEW a \in Seq(Symbol), NEW b \in Seq(Symbol), NoPad(a), NoPad(b)
    PROVE  a \o b \in Seq(Symbol) /\ NoPad(a \o b) /\ Len(a \o b) = Len(a) + Len(b)
<1> DEFINE c == a \o b
<1>1. /\ c \in Seq(Symbol) /\ Len(c) = Len(a) + Len(b) /\ Len(a) \in Nat /\ Len(b) \in Nat
      /\ \A i \in 1..Len(a) : c[i] = a[i]
      /\ \A i \in Len(a) + 1..Len(a) + Len(b) : c[i] = b[i - Len(a)]
  BY ConcatAt
<1> HIDE DEF c
<1>2. ASSUME NEW i \in 1..Len(c) PROVE c[i] # "pad"
  <2>1. CASE i <= Len(a)
    <3>1. i \in 1..Len(a)
      BY <1>1, <2>1
    <3> QED BY <1>1, <3>1 DEF NoPad
  <2>2. CASE i > Len(a)
    <3>1. i \in Len(a) + 1..Len(a) + Len(b) /\ i - Len(a) \in 1..Len(b)
      BY <1>1, <2>2
    <3> QED BY <1>1, <3>1 DEF NoPad
  <2>3. i <= Len(a) \/ i > Len(a)
    BY <1>1
  <2> QED BY <2>1, <2>2, <2>3
<1> QED BY <1>1, <1>2 DEF NoPad, c

LEMMA BosIs ==
    /\ \A gv : BosOf(gv) \in Seq(Symbol) /\ NoPad(BosOf(gv)) /\ Len(BosOf(gv)) \in Nat
    /\ \A gv : gv.bos => Len(BosOf(gv)) = 1
    /\ MaxPrefix \in Seq(Symbol) /\ NoPad(MaxPrefix) /\ Len(MaxPrefix) = 2
    /\ \A gv : PairOf(gv) \in Seq(Symbol) /\ NoPad(PairOf(gv))
    /\ Bos = BosOf(given) /\ PromptPrefix = PairOf(given)
<1>0. <<>> \in Seq(Symbol) /\ NoPad(<<>>) /\ Len(<<>>) = 0
  BY EmptySeq DEF NoPad
<1>1. <<"bos">> \in Seq(Symbol) /\ Len(<<"bos">>) = 1 /\ NoPad(<<"bos">>)
  BY DEF Symbol, NoPad
<1>2. MaxPrefix \in Seq(Symbol) /\ Len(MaxPrefix) = 2 /\ MaxPrefix[1] = "effort" /\ MaxPrefix[2] = "effort"
  BY DEF MaxPrefix, Symbol
<1>3. <<"pair">> \in Seq(Symbol) /\ NoPad(<<"pair">>)
  BY DEF Symbol, NoPad
<1>4. NoPad(MaxPrefix)
  BY <1>2 DEF NoPad
<1>5. ASSUME NEW gv
      PROVE  /\ BosOf(gv) \in Seq(Symbol) /\ NoPad(BosOf(gv)) /\ Len(BosOf(gv)) \in Nat
             /\ gv.bos => Len(BosOf(gv)) = 1
             /\ PairOf(gv) \in Seq(Symbol) /\ NoPad(PairOf(gv))
  <2>1. (BosOf(gv) = <<"bos">> /\ gv.bos) \/ (BosOf(gv) = <<>> /\ ~gv.bos)
    BY DEF BosOf
  <2>2. PairOf(gv) = <<"pair">> \/ PairOf(gv) = <<>>
    BY DEF PairOf
  <2>3. PairOf(gv) \in Seq(Symbol) /\ NoPad(PairOf(gv))
    BY <1>0, <1>3, <2>2
  <2> QED BY <1>0, <1>1, <2>1, <2>3
<1>6. Bos = BosOf(given) /\ PromptPrefix = PairOf(given)
  BY DEF Bos, BosOf, PromptPrefix, PairOf
<1> QED BY <1>2, <1>4, <1>5, <1>6

LEMMA PreIs ==
    ASSUME NEW n \in {0, 2}
    PROVE  Pre(n) \in Seq(Symbol) /\ NoPad(Pre(n)) /\ Len(Pre(n)) = n
<1>1. CASE n = 0
  <2>1. Pre(n) = <<>>
    BY <1>1 DEF Pre
  <2>2. Pre(n) \in Seq(Symbol) /\ Len(Pre(n)) = 0
    BY <2>1, EmptySeq
  <2> QED BY <1>1, <2>2 DEF NoPad
<1>2. CASE n = 2
  BY <1>2, BosIs DEF Pre
<1> QED BY <1>1, <1>2

LEMMA BodyIs ==
    ASSUME NEW gv, NEW c, c.sysMode \in Modes
    PROVE  Body(gv, c) \in Seq(Symbol) /\ NoPad(Body(gv, c)) /\ Len(Body(gv, c)) \in Nat
<1>1. CASE c.sysInit
  BY <1>1, BlockIs DEF Body
<1>2. CASE ~c.sysInit
  <2>1. Body(gv, c) = <<>>
    BY <1>2 DEF Body
  <2>2. Body(gv, c) \in Seq(Symbol) /\ Len(Body(gv, c)) = 0
    BY <2>1, EmptySeq
  <2> QED BY <2>2 DEF NoPad
<1> QED BY <1>1, <1>2

LEMMA FrontIs ==
    ASSUME NEW gv, NEW c, c.sysMode \in Modes, c.maxPrefix \in {0, 2}
    PROVE  /\ FrontOf(gv, c) \in Seq(Symbol) /\ NoPad(FrontOf(gv, c))
           /\ Len(FrontOf(gv, c)) = Len(BosOf(gv)) + c.maxPrefix + Len(Body(gv, c)) /\ Len(FrontOf(gv, c)) \in Nat
           /\ BosOf(gv) \o Pre(c.maxPrefix) \in Seq(Symbol) /\ Len(BosOf(gv) \o Pre(c.maxPrefix)) = Len(BosOf(gv)) + c.maxPrefix
<1>0. /\ Pre(c.maxPrefix) \in Seq(Symbol) /\ NoPad(Pre(c.maxPrefix)) /\ Len(Pre(c.maxPrefix)) = c.maxPrefix
  BY PreIs
<1>1. /\ Pre(c.maxPrefix) \in Seq(Symbol) /\ NoPad(Pre(c.maxPrefix)) /\ Len(Pre(c.maxPrefix)) = c.maxPrefix
      /\ Body(gv, c) \in Seq(Symbol) /\ NoPad(Body(gv, c)) /\ Len(Body(gv, c)) \in Nat
  BY <1>0, BodyIs
<1>2. /\ BosOf(gv) \o Pre(c.maxPrefix) \in Seq(Symbol) /\ NoPad(BosOf(gv) \o Pre(c.maxPrefix))
      /\ Len(BosOf(gv) \o Pre(c.maxPrefix)) = Len(BosOf(gv)) + c.maxPrefix
  <2>1. BosOf(gv) \in Seq(Symbol) /\ NoPad(BosOf(gv))
    BY BosIs
  <2> QED BY <1>1, <2>1, PlainJoin
<1>3. /\ FrontOf(gv, c) \in Seq(Symbol) /\ NoPad(FrontOf(gv, c))
      /\ Len(FrontOf(gv, c)) = Len(BosOf(gv)) + c.maxPrefix + Len(Body(gv, c))
  BY <1>1, <1>2, PlainJoin DEF FrontOf
<1>4. Len(BosOf(gv)) \in Nat /\ c.maxPrefix \in Nat
  BY BosIs
<1> QED BY <1>1, <1>2, <1>3, <1>4

\* what the head does not depend on
Same(d, c) == d.ctx = c.ctx /\ d.enabled = c.enabled /\ d.thinking = c.thinking

\* The spans of a framed transcript, and what shifting them back and forth leaves
LEMMA FrameShift ==
    ASSUME NEW rel \in Spans, NEW d \in Nat
    PROVE  /\ Shifted(rel, d) \in Spans /\ Len(Shifted(rel, d)) = Len(rel)
           /\ \A m \in 1..Len(rel) : Shifted(rel, d)[m].start = rel[m].start + d
           /\ \A m \in 1..Len(rel) : Shifted(rel, d)[m].id = rel[m].id
<1>1. d \in Int /\ \A m \in 1..Len(rel) : rel[m].start + d \in Nat
  BY SpanIs
<1> QED BY <1>1, ShiftIs

LEMMA ChatMade ==
    ASSUME NEW c \in ChatRecord, NEW toks \in Seq(Symbol), NEW pre \in Nat, NEW pos \in Nat, NEW images \in Spans
    PROVE  [c EXCEPT !.toks = toks, !.maxPrefix = pre, !.sysPos = pos, !.images = images] \in ChatRecord
  BY DEF ChatRecord

LEMMA FramedMade ==
    ASSUME NEW gv, NEW d \in ChatRecord, NEW rest \in Seq(Symbol), NEW rel \in Spans, NEW pre \in {0, 2}, NEW len \in Nat,
           Behind(gv, d), pre = 2 => gv.bos, d.maxPrefix = pre, d.sysPos = Len(BosOf(gv)) + pre,
           d.sysLen = len, len = Len(Body(gv, d)), d.toks = FrontOf(gv, d) \o rest,
           d.images = Shifted(rel, Len(BosOf(gv)) + pre + len)
    PROVE  Framed(gv, d, rest, rel)
  BY DEF Framed

\* repl_chat_apply_max_prefix: the prefix comes and goes, and the images with it
LEMMA PrefixFramed ==
    ASSUME NEW c, NEW rest, NEW rel, Framed(given, c, rest, rel),
           NEW enable, enable => given.bos \/ given.template
    PROVE  LET d == ApplyMaxPrefix(c, enable)
           IN  /\ Framed(given, d, rest, rel) /\ Same(d, c)
               /\ d.sysInit = c.sysInit /\ d.sysMode = c.sysMode
               /\ d.maxPrefix = IF enable /\ ~given.template THEN 2 ELSE 0
<1> DEFINE d == ApplyMaxPrefix(c, enable)
           on == enable /\ ~given.template
           B == Body(given, c)
           X == B \o rest
           len == Len(B)
<1>1. /\ c \in ChatRecord /\ rest \in Seq(Symbol) /\ rel \in Spans /\ c.maxPrefix \in {0, 2}
      /\ (c.maxPrefix = 2 => given.bos) /\ Behind(given, c)
      /\ c.sysPos = Len(BosOf(given)) + c.maxPrefix /\ c.sysLen = len /\ c.sysMode \in Modes
      /\ c.toks = FrontOf(given, c) \o rest
      /\ c.images = Shifted(rel, Len(BosOf(given)) + c.maxPrefix + c.sysLen)
  BY DEF Framed, ChatRecord
<1>2. B \in Seq(Symbol) /\ len \in Nat
  BY <1>1, BodyIs
<1>3. /\ BosOf(given) \in Seq(Symbol) /\ MaxPrefix \in Seq(Symbol) /\ Len(MaxPrefix) = 2
      /\ given.bos => Len(BosOf(given)) = 1
  BY BosIs
<1>4. X \in Seq(Symbol) /\ \A y \in Seq(Symbol) : (y \o B) \o rest = y \o X
  <2> HIDE DEF B
  <2> QED BY <1>1, <1>2, Joined
<1>5. CASE on /\ c.maxPrefix = 0
  <2>0. given.bos /\ Len(BosOf(given)) = 1
    BY <1>3, <1>5
  <2> DEFINE toks == Inserted(c.toks, 1, MaxPrefix)
             images == Shifted(c.images, 2)
  <2>1. d = [c EXCEPT !.toks = toks, !.maxPrefix = 2, !.sysPos = c.sysPos + 2, !.images = images]
    BY <1>3, <1>5 DEF ApplyMaxPrefix
  <2>2. toks = ((BosOf(given) \o MaxPrefix) \o B) \o rest
    <3>1. c.toks = ((BosOf(given) \o <<>>) \o B) \o rest
      BY <1>1, <1>5 DEF FrontOf, Pre
    <3>2. BosOf(given) \o <<>> = BosOf(given)
      BY <1>3, ConcatEmptySeq
    <3>3. c.toks = BosOf(given) \o X
      <4>1. c.toks = (BosOf(given) \o B) \o rest
        BY <3>1, <3>2
      <4>2. (BosOf(given) \o B) \o rest = BosOf(given) \o X
        <5> HIDE DEF X
        <5> QED BY <1>3, <1>4
      <4> QED BY <4>1, <4>2
    <3>4. toks = (BosOf(given) \o MaxPrefix) \o X
      <4>0. BosOf(given) \in Seq(Symbol) /\ MaxPrefix \in Seq(Symbol) /\ X \in Seq(Symbol)
        BY <1>3, <1>4
      <4> HIDE DEF X
      <4>1. Inserted(BosOf(given) \o X, Len(BosOf(given)), MaxPrefix) = (BosOf(given) \o MaxPrefix) \o X
        BY <4>0, PutIn
      <4> QED BY <2>0, <3>3, <4>1
    <3>5. BosOf(given) \o MaxPrefix \in Seq(Symbol)
      BY <1>3, ConcatProperties
    <3> QED BY <1>4, <3>4, <3>5
  <2>3. images = Shifted(rel, 1 + 2 + len)
    <3>1. 1 + len \in Nat /\ 2 \in Int /\ (1 + len) + 2 = 1 + 2 + len /\ (1 + len) + 2 \in Nat
      BY <1>2
    <3>2. c.images = Shifted(rel, 1 + len)
      <4>1. 1 + 0 + len = 1 + len
        BY <1>2
      <4> QED BY <1>1, <1>5, <2>0, <4>1
    <3> HIDE DEF len
    <3> QED BY <1>1, <3>1, <3>2, ShiftTwice
  <2> HIDE DEF toks, images
  <2>4. /\ d.toks = toks /\ d.images = images /\ d.maxPrefix = 2 /\ d.sysPos = c.sysPos + 2 /\ d.sysLen = c.sysLen
        /\ d.sysMode = c.sysMode /\ d.sysInit = c.sysInit
    BY <1>1, <2>1 DEF ChatRecord
  <2>5. Same(d, c)
    BY <1>1, <2>1 DEF ChatRecord, Same
  <2>6. Body(given, d) = B /\ FrontOf(given, d) = (BosOf(given) \o MaxPrefix) \o B
    BY <2>4 DEF Body, FrontOf, Pre
  <2>7. d \in ChatRecord
    <3>1. toks \in Seq(Symbol)
      <4>1. (BosOf(given) \o MaxPrefix) \o B \in Seq(Symbol)
        BY <1>2, <1>3, ConcatProperties
      <4> QED BY <1>1, <2>2, <4>1, ConcatProperties
    <3>2. images \in Spans
      <4>1. 1 + 2 + len \in Nat
        BY <1>2
      <4> HIDE DEF len
      <4> QED BY <1>1, <2>3, <4>1, FrameShift
    <3>3. c.sysPos + 2 \in Nat
      BY <1>1, <1>5
    <3>4. c \in ChatRecord /\ 2 \in Nat
      BY <1>1
    <3> DEFINE pos == c.sysPos + 2
    <3>5. d = [c EXCEPT !.toks = toks, !.maxPrefix = 2, !.sysPos = pos, !.images = images]
      BY <2>1
    <3>6. pos \in Nat
      BY <3>3
    <3> HIDE DEF d, pos
    <3>7. [c EXCEPT !.toks = toks, !.maxPrefix = 2, !.sysPos = pos, !.images = images] \in ChatRecord
      BY <3>1, <3>2, <3>4, <3>6, ChatMade
    <3> QED BY <3>5, <3>7
  <2>8. Framed(given, d, rest, rel)
    <3>1. Behind(given, d)
      <4> HIDE DEF d
      <4> QED BY <1>1, <2>5 DEF Same, Behind
    <3>2. d.sysPos = Len(BosOf(given)) + 2 /\ d.sysLen = len
      <4>1. c.sysPos = Len(BosOf(given)) + 0 /\ c.sysLen = len
        BY <1>1, <1>5
      <4> HIDE DEF d, len
      <4> QED BY <2>0, <2>4, <4>1
    <3>3. len = Len(Body(given, d))
      BY <2>6
    <3>4. d.toks = FrontOf(given, d) \o rest
      <4> HIDE DEF d, B
      <4> QED BY <2>2, <2>4, <2>6
    <3>5. d.images = Shifted(rel, Len(BosOf(given)) + 2 + len)
      <4> HIDE DEF d, len
      <4> QED BY <2>0, <2>3, <2>4
    <3> HIDE DEF d, B, len
    <3> QED BY <1>1, <1>2, <2>0, <2>4, <2>7, <3>1, <3>2, <3>3, <3>4, <3>5, FramedMade
  <2> QED BY <1>5, <2>4, <2>5, <2>8
<1>6. CASE ~on /\ c.maxPrefix > 0
  <2> DEFINE toks == Removed(c.toks, 1, 2)
             images == Shifted(c.images, -2)
  <2>0. c.maxPrefix = 2 /\ ~(c.maxPrefix = 0) /\ given.bos /\ Len(BosOf(given)) = 1
    BY <1>1, <1>3, <1>6
  <2>1. d = [c EXCEPT !.toks = toks, !.maxPrefix = 0, !.sysPos = c.sysPos - 2, !.images = images]
    BY <1>6, <2>0 DEF ApplyMaxPrefix
  <2>2. toks = (BosOf(given) \o B) \o rest
    <3>1. c.toks = ((BosOf(given) \o MaxPrefix) \o B) \o rest
      BY <1>1, <2>0 DEF FrontOf, Pre
    <3>2. BosOf(given) \o MaxPrefix \in Seq(Symbol)
      BY <1>3, ConcatProperties
    <3>3. c.toks = (BosOf(given) \o MaxPrefix) \o X
      BY <1>4, <3>1, <3>2
    <3>4. toks = BosOf(given) \o X
      <4>0. BosOf(given) \in Seq(Symbol) /\ MaxPrefix \in Seq(Symbol) /\ X \in Seq(Symbol)
        BY <1>3, <1>4
      <4> HIDE DEF X
      <4>1. Removed((BosOf(given) \o MaxPrefix) \o X, Len(BosOf(given)), Len(MaxPrefix)) = BosOf(given) \o X
        BY <4>0, TakenOut
      <4> QED BY <1>3, <2>0, <3>3, <4>1
    <3> QED BY <1>3, <1>4, <3>4
  <2>3. images = Shifted(rel, 1 + 0 + len)
    <3>1. 1 + 2 + len \in Nat /\ -2 \in Int /\ (1 + 2 + len) + (-2) = 1 + 0 + len /\ (1 + 2 + len) + (-2) \in Nat
      BY <1>2
    <3>2. c.images = Shifted(rel, 1 + 2 + len)
      BY <1>1, <2>0
    <3> HIDE DEF len
    <3> QED BY <1>1, <3>1, <3>2, ShiftTwice
  <2> HIDE DEF toks, images
  <2>4. /\ d.toks = toks /\ d.images = images /\ d.maxPrefix = 0 /\ d.sysPos = c.sysPos - 2 /\ d.sysLen = c.sysLen
        /\ d.sysMode = c.sysMode /\ d.sysInit = c.sysInit
    BY <1>1, <2>1 DEF ChatRecord
  <2>5. Same(d, c)
    BY <1>1, <2>1 DEF ChatRecord, Same
  <2>6. Body(given, d) = B /\ FrontOf(given, d) = BosOf(given) \o B
    <3>1. BosOf(given) \o <<>> = BosOf(given)
      BY <1>3, ConcatEmptySeq
    <3> QED BY <2>4, <3>1 DEF Body, FrontOf, Pre
  <2>7. d \in ChatRecord
    <3>1. toks \in Seq(Symbol)
      <4>1. BosOf(given) \o B \in Seq(Symbol)
        BY <1>2, <1>3, ConcatProperties
      <4> QED BY <1>1, <2>2, <4>1, ConcatProperties
    <3>2. images \in Spans
      <4>1. 1 + 0 + len \in Nat
        BY <1>2
      <4> HIDE DEF len
      <4> QED BY <1>1, <2>3, <4>1, FrameShift
    <3>3. c.sysPos - 2 \in Nat
      BY <1>1, <2>0
    <3>4. c \in ChatRecord /\ 0 \in Nat
      BY <1>1
    <3> DEFINE pos == c.sysPos - 2
    <3>5. d = [c EXCEPT !.toks = toks, !.maxPrefix = 0, !.sysPos = pos, !.images = images]
      BY <2>1
    <3>6. pos \in Nat
      BY <3>3
    <3> HIDE DEF d, pos
    <3>7. [c EXCEPT !.toks = toks, !.maxPrefix = 0, !.sysPos = pos, !.images = images] \in ChatRecord
      BY <3>1, <3>2, <3>4, <3>6, ChatMade
    <3> QED BY <3>5, <3>7
  <2>8. Framed(given, d, rest, rel)
    <3>1. Behind(given, d)
      <4> HIDE DEF d
      <4> QED BY <1>1, <2>5 DEF Same, Behind
    <3>2. d.sysPos = Len(BosOf(given)) + 0 /\ d.sysLen = len
      <4>1. c.sysPos = Len(BosOf(given)) + 2 /\ c.sysLen = len
        BY <1>1, <2>0
      <4> HIDE DEF d, len
      <4> QED BY <2>0, <2>4, <4>1
    <3>3. len = Len(Body(given, d))
      BY <2>6
    <3>4. d.toks = FrontOf(given, d) \o rest
      <4> HIDE DEF d, B
      <4> QED BY <2>2, <2>4, <2>6
    <3>5. d.images = Shifted(rel, Len(BosOf(given)) + 0 + len)
      <4> HIDE DEF d, len
      <4> QED BY <2>0, <2>3, <2>4
    <3> HIDE DEF d, B, len
    <3> QED BY <1>1, <1>2, <2>4, <2>7, <3>1, <3>2, <3>3, <3>4, <3>5, FramedMade
  <2> QED BY <1>6, <2>4, <2>5, <2>8
<1>7. CASE ~(on /\ c.maxPrefix = 0) /\ ~(~on /\ c.maxPrefix > 0)
  <2>1. d = c
    BY <1>7 DEF ApplyMaxPrefix
  <2>2. on => c.maxPrefix = 2
    BY <1>1, <1>7
  <2>3. ~on => c.maxPrefix = 0
    BY <1>1, <1>7
  <2> QED BY <2>1, <2>2, <2>3 DEF Same
<1> QED BY <1>5, <1>6, <1>7

LEMMA ThinkModeIs ==
    /\ \A c \in ChatRecord : ThinkMode(c) \in Modes /\ SystemMode(c) \in Modes
    /\ \A c, d : Same(d, c) => ThinkMode(d) = ThinkMode(c) /\ SystemMode(d) = SystemMode(c)
<1>1. ASSUME NEW c \in ChatRecord PROVE ThinkMode(c) \in Modes
  <2>1. c.enabled \in {"high", "max"}
    BY DEF ChatRecord
  <2> QED BY <2>1 DEF ThinkMode, Modes
<1>2. \A c \in ChatRecord : SystemMode(c) \in Modes
  BY <1>1 DEF SystemMode, Modes
<1>3. \A c, d : Same(d, c) => ThinkMode(d) = ThinkMode(c) /\ SystemMode(d) = SystemMode(c)
  BY DEF Same, ThinkMode, SystemMode
<1> QED BY <1>1, <1>2, <1>3

LEMMA ChatSystem ==
    ASSUME NEW c \in ChatRecord, NEW toks \in Seq(Symbol), NEW len \in Nat, NEW mode \in Modes, NEW images \in Spans
    PROVE  [c EXCEPT !.toks = toks, !.images = images, !.sysLen = len, !.sysMode = mode, !.sysInit = TRUE] \in ChatRecord
  BY DEF ChatRecord

\* repl_chat_sync_system: the system block of the mode takes the place of the old one
LEMMA SystemFramed ==
    ASSUME NEW c, NEW rest, NEW rel, Framed(given, c, rest, rel)
    PROVE  LET d == SyncSystem(c)
           IN  /\ Framed(given, d, rest, rel) /\ Same(d, c)
               /\ d.sysInit /\ d.sysMode = SystemMode(c) /\ d.maxPrefix = c.maxPrefix
<1> DEFINE d == SyncSystem(c)
           B == Body(given, c)
           F == BosOf(given) \o Pre(c.maxPrefix)
           mode == SystemMode(c)
           block == SystemBlock(mode)
           len == Len(B)
           new == Len(block)
<1>1. /\ c \in ChatRecord /\ rest \in Seq(Symbol) /\ rel \in Spans /\ c.maxPrefix \in {0, 2}
      /\ (c.maxPrefix = 2 => given.bos) /\ Behind(given, c)
      /\ c.sysPos = Len(BosOf(given)) + c.maxPrefix /\ c.sysLen = len /\ c.sysMode \in Modes
      /\ c.toks = (F \o B) \o rest
      /\ c.images = Shifted(rel, Len(BosOf(given)) + c.maxPrefix + c.sysLen)
  BY DEF Framed, ChatRecord, FrontOf
<1>2. B \in Seq(Symbol) /\ len \in Nat
  BY <1>1, BodyIs
<1>3. F \in Seq(Symbol) /\ Len(F) = Len(BosOf(given)) + c.maxPrefix
  BY <1>1, FrontIs
<1>b. Len(BosOf(given)) \in Nat
  BY BosIs
<1>4. mode \in Modes
  BY <1>1, ThinkModeIs
<1>5. block = Block(given, mode) /\ block \in Seq(Symbol) /\ new \in Nat
  BY <1>4, BlockIs
<1>6. CASE SystemCurrent(c)
  BY <1>6 DEF SyncSystem, SystemCurrent, Same
<1>7. CASE ~SystemCurrent(c)
  <2> DEFINE toks == Inserted(Removed(c.toks, c.sysPos, c.sysLen), c.sysPos, block)
             images == Shifted(c.images, new - c.sysLen)
  <2>1. d = [c EXCEPT !.toks = toks, !.images = images, !.sysLen = new, !.sysMode = mode, !.sysInit = TRUE]
    BY <1>7 DEF SyncSystem
  <2>2. toks = (F \o block) \o rest
    <3>1. Removed((F \o B) \o rest, Len(F), Len(B)) = F \o rest
      <4> HIDE DEF F, B
      <4> QED BY <1>1, <1>2, <1>3, TakenOut
    <3>2. Inserted(F \o rest, Len(F), block) = (F \o block) \o rest
      <4> HIDE DEF F, block
      <4> QED BY <1>1, <1>3, <1>5, PutIn
    <3>3. c.sysPos = Len(F) /\ c.sysLen = Len(B)
      BY <1>1, <1>3
    <3> HIDE DEF F, B, block
    <3> QED BY <1>1, <3>1, <3>2, <3>3
  <2>3. images = Shifted(rel, Len(BosOf(given)) + c.maxPrefix + new)
    <3> HIDE DEF len, new
    <3> DEFINE x == Len(BosOf(given)) + c.maxPrefix + len
               y == new - len
    <3>1. x \in Nat /\ y \in Int /\ x + y = Len(BosOf(given)) + c.maxPrefix + new /\ x + y \in Nat
      <4>1. c.maxPrefix \in Nat /\ len \in Nat /\ new \in Nat
        BY <1>1, <1>2, <1>5
      <4> QED BY <1>b, <4>1
    <3>2. images = Shifted(Shifted(rel, x), y)
      BY <1>1
    <3> HIDE DEF x, y
    <3>3. Shifted(Shifted(rel, x), y) = Shifted(rel, x + y)
      BY <1>1, <3>1, ShiftTwice
    <3> QED BY <3>1, <3>2, <3>3
  <2> HIDE DEF toks, images, mode, new
  <2>4. /\ d.toks = toks /\ d.images = images /\ d.maxPrefix = c.maxPrefix /\ d.sysPos = c.sysPos /\ d.sysLen = new
        /\ d.sysMode = mode /\ d.sysInit
    BY <1>1, <2>1 DEF ChatRecord
  <2>5. Same(d, c)
    BY <1>1, <2>1 DEF ChatRecord, Same
  <2>6. Body(given, d) = block /\ FrontOf(given, d) = F \o block
    <3>1. Body(given, d) = Block(given, mode)
      BY <2>4 DEF Body
    <3> HIDE DEF block, d
    <3> QED BY <1>5, <2>4, <3>1 DEF FrontOf
  <2>7. d \in ChatRecord
    <3>1. toks \in Seq(Symbol)
      <4> HIDE DEF F, block
      <4>1. F \o block \in Seq(Symbol)
        BY <1>3, <1>5, ConcatProperties
      <4> QED BY <1>1, <2>2, <4>1, ConcatProperties
    <3>2. images \in Spans
      <4>1. Len(BosOf(given)) + c.maxPrefix + new \in Nat
        <5>1. c.maxPrefix \in Nat
          BY <1>1
        <5> QED BY <1>5, <1>b, <5>1
      <4> QED BY <1>1, <2>3, <4>1, FrameShift
    <3>3. c \in ChatRecord /\ new \in Nat
      BY <1>1, <1>5 DEF new
    <3>4. [c EXCEPT !.toks = toks, !.images = images, !.sysLen = new, !.sysMode = mode, !.sysInit = TRUE] \in ChatRecord
      <4> HIDE DEF d
      <4> QED BY <1>4, <3>1, <3>2, <3>3, ChatSystem
    <3> QED BY <2>1, <3>4
  <2>8. Framed(given, d, rest, rel)
    <3>1. Behind(given, d)
      BY <1>1, <2>5 DEF Same, Behind
    <3> HIDE DEF d, B, F
    <3> QED BY <1>1, <2>2, <2>3, <2>4, <2>6, <2>7, <3>1 DEF Framed, new
  <2> QED BY <2>4, <2>5, <2>8 DEF mode
<1> QED BY <1>6, <1>7

\* both: the head is that of the mode, and what follows it is as it was
LEMMA RealignedFramed ==
    ASSUME given \in ChatLaunch, NEW c, NEW s, NEW rest, NEW rel, Framed(given, c, rest, rel),
           NEW enable, enable <=> ThinkMode(c) = "max"
    PROVE  LET r == Realigned(c, s, enable)
           IN  /\ Framed(given, r.chat, rest, rel) /\ Same(r.chat, c)
               /\ Heads(given, r.chat, ThinkMode(r.chat)) /\ ThinkMode(r.chat) = ThinkMode(c)
               /\ r.sess \in {s, NoSession}
<1> DEFINE c1 == ApplyMaxPrefix(c, enable)
           d == SyncSystem(c1)
           r == Realigned(c, s, enable)
<1>0. enable => given.bos \/ given.template
  BY DEF Framed, Behind, ThinkMode
<1>1. /\ Framed(given, c1, rest, rel) /\ Same(c1, c)
      /\ c1.maxPrefix = IF enable /\ ~given.template THEN 2 ELSE 0
  BY <1>0, PrefixFramed
<1>2. r.chat = d /\ r.sess \in {s, NoSession}
  BY DEF Realigned
<1> HIDE DEF c1, r
<1>3. /\ Framed(given, d, rest, rel) /\ Same(d, c1)
      /\ d.sysInit /\ d.sysMode = SystemMode(c1) /\ d.maxPrefix = c1.maxPrefix
  BY <1>1, SystemFramed
<1> HIDE DEF d
<1>4. Same(d, c)
  BY <1>1, <1>3 DEF Same
<1>5. ThinkMode(c1) = ThinkMode(c) /\ ThinkMode(d) = ThinkMode(c) /\ SystemMode(c1) = SystemMode(c)
  BY <1>1, <1>4, ThinkModeIs
<1>6. d.maxPrefix = (IF ThinkMode(c) = "max" /\ ~given.template THEN 2 ELSE 0)
  BY <1>1, <1>3
<1>7. d.sysMode = (IF given.template THEN ThinkMode(c) ELSE "none")
  BY <1>3, <1>5 DEF SystemMode
<1>8. Heads(given, d, ThinkMode(d))
  BY <1>3, <1>5, <1>6, <1>7 DEF Heads
<1> QED BY <1>2, <1>3, <1>4, <1>5, <1>8 DEF r

\* A turn that was begun, whatever was sampled and whether or not it was closed, has been said
LEMMA TurnSaid ==
    ASSUME NEW gv, NEW rest, NEW rel, NEW said, Says(gv, rest, rel, said), NEW t \in TurnRecord
    PROVE  LET text == (rest \o Opening(t.id, t.mode)) \o Sampled(t.n)
               spans == NewSpans(rel, Len(rest), t.id)
           IN  /\ text \in Seq(Symbol) /\ spans \in Spans
               /\ ~t.closed => Says(gv, text, spans, Append(said, t))
               /\ t.closed => Says(gv, text \o AssistantSuffix, spans, Append(said, t))
<1> DEFINE a == rest \o Opening(t.id, t.mode)
           b == Sampled(t.n)
           z == AssistantSuffix
           q == NewSpans(rel, Len(rest), t.id)
           M == Marked(Opening(t.id, t.mode), t.id)
           S == Marked(b, t.id)
           Z == Marked(z, t.id)
           L == Labelled(rest, rel)
           H == Marked(PairOf(gv), 0)
           T == SaidText(said)
<1>1. t.id \in Ids /\ t.mode \in Modes /\ t.n \in Nat /\ t.closed \in BOOLEAN
  BY DEF TurnRecord
<1>2. /\ Labelled(a, q) = L \o M /\ Inside(q, Len(a)) /\ a \in Seq(Symbol)
      /\ q \in Spans /\ Ordered(q)
  BY <1>1, SaysOpening
<1>3. /\ rest \in Seq(Symbol) /\ rel \in Spans /\ said \in Seq(TurnRecord) /\ L = H \o T
  BY DEF Says
<1>4. b \in Seq(Symbol) /\ NoPad(b) /\ z \in Seq(Symbol) /\ NoPad(z)
  BY <1>1, SampledIs, SuffixIs
<1>5. M \in Seq(Label) /\ S \in Seq(Label) /\ Z \in Seq(Label) /\ L \in Seq(Label) /\ H \in Seq(Label) /\ T \in Seq(Label)
  <2>1. M \in Seq(Label)
    BY <1>1, OpeningIs, MarkIs
  <2>2. S \in Seq(Label) /\ Z \in Seq(Label)
    BY <1>1, <1>4, MarkIs
  <2>3. L \in Seq(Label)
    BY <1>3, LabelIs
  <2>4. H \in Seq(Label)
    BY BosIs, MarkIs DEF Ids
  <2>5. T \in Seq(Label)
    BY <1>3, SaidTurnsIs
  <2> QED BY <2>1, <2>2, <2>3, <2>4, <2>5
<1>6. SaidText(Append(said, t)) = T \o TurnText(t) /\ Append(said, t) \in Seq(TurnRecord)
  BY <1>3, SaidThen
<1>7. /\ ~t.closed => TurnText(t) = M \o S
      /\ t.closed => TurnText(t) = (M \o S) \o Z
  BY OpenText, ClosedText
<1>8. a \o b \in Seq(Symbol) /\ Labelled(a \o b, q) = (L \o M) \o S /\ Inside(q, Len(a \o b))
  <2>1. Labelled(a \o b, q) = Labelled(a, q) \o S
    <3> HIDE DEF a, b, q
    <3> QED BY <1>1, <1>2, <1>4, LabelsThen
  <2> HIDE DEF a, b, q
  <2>2. a \o b \in Seq(Symbol) /\ Len(a) \in Nat /\ Len(b) \in Nat /\ Len(a \o b) = Len(a) + Len(b)
    BY <1>2, <1>4, ConcatAt
  <2>3. Inside(q, Len(a \o b))
    BY <1>2, <2>2, InsideMore
  <2> QED BY <1>2, <2>1, <2>2, <2>3
<1>9. (a \o b) \o z \in Seq(Symbol) /\ Labelled((a \o b) \o z, q) = ((L \o M) \o S) \o Z /\ Inside(q, Len((a \o b) \o z))
  <2> DEFINE c == a \o b
  <2>0. c \in Seq(Symbol) /\ Labelled(c, q) = (L \o M) \o S /\ Inside(q, Len(c))
    BY <1>8
  <2> HIDE DEF c, z, q, L, M, S
  <2>1. Labelled(c \o z, q) = Labelled(c, q) \o Z
    BY <1>1, <1>2, <1>4, <2>0, LabelsThen
  <2>2. c \o z \in Seq(Symbol) /\ Len(c) \in Nat /\ Len(z) \in Nat /\ Len(c \o z) = Len(c) + Len(z)
    BY <1>4, <2>0, ConcatAt
  <2>3. Inside(q, Len(c \o z))
    BY <1>2, <2>0, <2>2, InsideMore
  <2> QED BY <2>0, <2>1, <2>2, <2>3 DEF c
<1> HIDE DEF M, S, Z, L, H, T, a, b, z, q
<1>10. /\ L \in Seq(Label) /\ M \in Seq(Label) /\ S \in Seq(Label) /\ Z \in Seq(Label) /\ H \in Seq(Label)
       /\ T \in Seq(Label) /\ L = H \o T
  BY <1>3, <1>5
<1>11. /\ (L \o M) \o S = H \o (T \o (M \o S))
       /\ ((L \o M) \o S) \o Z = H \o (T \o ((M \o S) \o Z))
  <2> DEFINE Y == M \o S
             V == T \o Y
             W == Y \o Z
             U == L \o M
  <2>1. Y \in Seq(Label)
    BY <1>10, ConcatProperties
  <2>2. U \o S = L \o Y
    <3>1. L \in Seq(Label) /\ M \in Seq(Label) /\ S \in Seq(Label)
      BY <1>10
    <3> QED BY <3>1, ConcatAssociative
  <2> HIDE DEF Y, U
  <2>3. V \in Seq(Label)
    BY <1>10, <2>1, ConcatProperties
  <2>4. (H \o T) \o Y = H \o V
    <3>1. H \in Seq(Label) /\ T \in Seq(Label) /\ Y \in Seq(Label)
      BY <1>10, <2>1
    <3> QED BY <3>1, ConcatAssociative
  <2>5. L \o Y = H \o V
    <3>1. L = H \o T
      BY <1>10
    <3> QED BY <2>4, <3>1
  <2>6. V \o Z = T \o W
    <3>1. T \in Seq(Label) /\ Y \in Seq(Label) /\ Z \in Seq(Label)
      BY <1>10, <2>1
    <3> QED BY <3>1, ConcatAssociative
  <2> HIDE DEF V, W
  <2>7. (H \o V) \o Z = H \o (V \o Z)
    <3>1. H \in Seq(Label) /\ V \in Seq(Label) /\ Z \in Seq(Label)
      BY <1>10, <2>3
    <3> QED BY <3>1, ConcatAssociative
  <2>8. U \o S = H \o V /\ (U \o S) \o Z = H \o (T \o W)
    <3> DEFINE R == U \o S
    <3>1. R = H \o V
      BY <2>2, <2>5
    <3> HIDE DEF R
    <3>2. R \o Z = H \o (T \o W)
      BY <2>6, <2>7, <3>1
    <3> QED BY <3>1, <3>2 DEF R
  <2> QED BY <2>8 DEF U, V, W, Y
<1>12. ASSUME ~t.closed PROVE Says(gv, a \o b, q, Append(said, t))
  BY <1>2, <1>6, <1>7, <1>8, <1>11, <1>12 DEF Says, H
<1>13. ASSUME t.closed PROVE Says(gv, (a \o b) \o z, q, Append(said, t))
  BY <1>2, <1>6, <1>7, <1>9, <1>11, <1>13 DEF Says, H
<1> QED BY <1>2, <1>8, <1>12, <1>13 DEF a, b, z, q

-----------------------------------------------------------------------------
(* The transcript as it would be rendered from scratch                     *)

LEMMA FramedLabels ==
    ASSUME NEW gv, NEW c, NEW rest, NEW rel, Framed(gv, c, rest, rel)
    PROVE  /\ Labelled(c.toks, c.images) = Marked(FrontOf(gv, c), 0) \o Labelled(rest, rel)
           /\ c.images \in Spans /\ c.toks \in Seq(Symbol)
           /\ Ordered(rel) => Ordered(c.images)
           /\ c.images = Shifted(rel, Len(FrontOf(gv, c))) /\ Len(FrontOf(gv, c)) \in Nat /\ FrontOf(gv, c) \in Seq(Symbol)
           /\ Len(c.toks) = Len(FrontOf(gv, c)) + Len(rest)
<1> DEFINE F == FrontOf(gv, c)
           d == Len(F)
<1>1. /\ c \in ChatRecord /\ rest \in Seq(Symbol) /\ rel \in Spans /\ c.maxPrefix \in {0, 2} /\ c.sysMode \in Modes
      /\ c.toks = F \o rest /\ c.images = Shifted(rel, Len(BosOf(gv)) + c.maxPrefix + c.sysLen) /\ c.sysLen = Len(Body(gv, c))
      /\ c.images \in Spans /\ c.toks \in Seq(Symbol)
  BY DEF Framed, ChatRecord
<1>2. F \in Seq(Symbol) /\ NoPad(F) /\ d = Len(BosOf(gv)) + c.maxPrefix + c.sysLen /\ d \in Nat
  <2>1. Len(BosOf(gv)) \in Nat
    BY BosIs
  <2> QED BY <1>1, <2>1, FrontIs
<1>3. c.images = Shifted(rel, d)
  BY <1>1, <1>2
<1> HIDE DEF F
<1>4. Labelled(c.toks, c.images) = Marked(F, 0) \o Labelled(rest, rel)
  BY <1>1, <1>2, <1>3, LabelsBehind
<1>5. ASSUME Ordered(rel) PROVE Ordered(c.images)
  <2> HIDE DEF d
  <2>0. rel \in Spans /\ d \in Nat
    BY <1>1, <1>2
  <2>1. Len(c.images) = Len(rel) /\ \A m \in 1..Len(rel) : c.images[m].start = rel[m].start + d
    <3>1. Len(Shifted(rel, d)) = Len(rel) /\ \A m \in 1..Len(rel) : Shifted(rel, d)[m].start = rel[m].start + d
      BY <2>0, FrameShift
    <3> QED BY <1>3, <3>1
  <2>2. \A m \in 1..Len(rel) : rel[m].start \in Nat
    BY <1>1, SpanIs
  <2> SUFFICES ASSUME NEW m \in 1..Len(rel), NEW k \in 1..Len(rel), m < k PROVE c.images[m].start < c.images[k].start
    BY <2>1 DEF Ordered
  <2>3. rel[m].start < rel[k].start
    BY <1>5 DEF Ordered
  <2>4. rel[m].start \in Nat /\ rel[k].start \in Nat /\ c.images[m].start = rel[m].start + d /\ c.images[k].start = rel[k].start + d
    BY <2>1, <2>2
  <2>5. \A x \in Nat, y \in Nat : x < y => x + d < y + d
    BY <1>2
  <2> HIDE DEF d
  <2> QED BY <2>3, <2>4, <2>5
<1>6. Len(c.toks) = d + Len(rest)
  <2>1. F \in Seq(Symbol) /\ rest \in Seq(Symbol)
    BY <1>1, <1>2
  <2> HIDE DEF F
  <2>2. Len(F \o rest) = Len(F) + Len(rest)
    BY <2>1, ConcatProperties
  <2> QED BY <1>1, <2>2
<1> QED BY <1>1, <1>2, <1>3, <1>4, <1>5, <1>6 DEF F

\* the head of a mode, rendered
LEMMA RenderedIs ==
    ASSUME given \in ChatLaunch, NEW mode \in Modes, NEW said \in Seq(TurnRecord)
    PROVE  LET pre == IF mode = "max" /\ ~given.template THEN 2 ELSE 0
               F == (BosOf(given) \o Pre(pre)) \o Block(given, IF given.template THEN mode ELSE "none")
           IN  /\ F \in Seq(Symbol) /\ NoPad(F)
               /\ RenderedChat(mode, said) = (Marked(F, 0) \o Marked(PairOf(given), 0)) \o SaidText(said)
<1> DEFINE pre == IF mode = "max" /\ ~given.template THEN 2 ELSE 0
           sys == IF given.template THEN mode ELSE "none"
           B == Block(given, sys)
           F == (BosOf(given) \o Pre(pre)) \o B
<1>1. pre \in {0, 2} /\ sys \in Modes
  BY DEF Modes
<1>2. SystemBlock(sys) = B /\ B \in Seq(Symbol) /\ NoPad(B)
  BY <1>1, BlockIs
<1>3. Pre(pre) \in Seq(Symbol) /\ NoPad(Pre(pre))
  <2> HIDE DEF pre
  <2> QED BY <1>1, PreIs
<1>4. BosOf(given) \in Seq(Symbol) /\ NoPad(BosOf(given)) /\ PairOf(given) \in Seq(Symbol) /\ NoPad(PairOf(given))
  BY BosIs
<1>5. Pre(pre) = IF mode = "max" /\ ~given.template THEN MaxPrefix ELSE <<>>
  BY DEF Pre
<1> HIDE DEF pre
<1>6. BosOf(given) \o Pre(pre) \in Seq(Symbol) /\ NoPad(BosOf(given) \o Pre(pre))
  BY <1>3, <1>4, PlainJoin
<1> HIDE DEF B
<1>7. F \in Seq(Symbol) /\ NoPad(F)
  BY <1>2, <1>6, PlainJoin
<1>8. F \o PairOf(given) \in Seq(Symbol) /\ NoPad(F \o PairOf(given))
  <2> HIDE DEF F
  <2> QED BY <1>4, <1>7, PlainJoin
<1>9. RenderedChat(mode, said) = Labelled(F \o PairOf(given), <<>>) \o SaidText(said)
  BY <1>2, <1>5, BosIs DEF RenderedChat
<1> HIDE DEF F
<1>10. Labelled(F \o PairOf(given), <<>>) = Marked(F, 0) \o Marked(PairOf(given), 0)
  <2>1. <<>> \in Spans /\ 0 \in Ids
    BY EmptySeq DEF Spans, Ids
  <2>2. Labelled(F \o PairOf(given), <<>>) = Marked(F \o PairOf(given), 0)
    BY <1>8, <2>1, PlainLabels
  <2> QED BY <1>4, <1>7, <2>1, <2>2, MarksJoin
<1> QED BY <1>7, <1>9, <1>10 DEF F, B, pre

\* At the prompt the transcript is the conversation rendered from scratch
LEMMA PromptRendered ==
    ASSUME given \in ChatLaunch, NEW c, NEW rest, NEW rel, NEW said, NEW mode \in Modes,
           Framed(given, c, rest, rel), Heads(given, c, mode), Says(given, rest, rel, said)
    PROVE  Labelled(c.toks, c.images) = RenderedChat(mode, said)
<1> DEFINE pre == IF mode = "max" /\ ~given.template THEN 2 ELSE 0
           F == (BosOf(given) \o Pre(pre)) \o Block(given, IF given.template THEN mode ELSE "none")
<1>1. FrontOf(given, c) = F
  BY DEF Heads, FrontOf, Body
<1>2. Labelled(c.toks, c.images) = Marked(FrontOf(given, c), 0) \o Labelled(rest, rel)
  BY FramedLabels
<1>3. said \in Seq(TurnRecord) /\ Labelled(rest, rel) = Marked(PairOf(given), 0) \o SaidText(said)
  BY DEF Says
<1>4. F \in Seq(Symbol) /\ RenderedChat(mode, said) = (Marked(F, 0) \o Marked(PairOf(given), 0)) \o SaidText(said)
  BY <1>3, RenderedIs
<1> HIDE DEF F
<1>5. Marked(F, 0) \in Seq(Label) /\ Marked(PairOf(given), 0) \in Seq(Label) /\ SaidText(said) \in Seq(Label)
  <2>1. 0 \in Ids /\ PairOf(given) \in Seq(Symbol)
    BY BosIs DEF Ids
  <2>2. SaidText(said) \in Seq(Label)
    BY <1>3, SaidTurnsIs
  <2> QED BY <1>4, <2>1, <2>2, MarkIs
<1>6. (Marked(F, 0) \o Marked(PairOf(given), 0)) \o SaidText(said) = Marked(F, 0) \o (Marked(PairOf(given), 0) \o SaidText(said))
  BY <1>5, Joined
<1> QED BY <1>1, <1>2, <1>3, <1>4, <1>6

-----------------------------------------------------------------------------
(* Edits behind the head                                                   *)

\* what follows the head is replaced
LEMMA Reframed ==
    ASSUME NEW gv, NEW c, NEW rest, NEW rel, Framed(gv, c, rest, rel),
           NEW d \in ChatRecord, NEW rest2 \in Seq(Symbol), NEW rel2 \in Spans,
           Behind(gv, d), d.maxPrefix = c.maxPrefix, d.sysPos = c.sysPos, d.sysLen = c.sysLen, d.sysMode = c.sysMode,
           d.sysInit = c.sysInit,
           d.toks = FrontOf(gv, c) \o rest2, d.images = Shifted(rel2, Len(FrontOf(gv, c)))
    PROVE  Framed(gv, d, rest2, rel2) /\ FrontOf(gv, d) = FrontOf(gv, c)
<1>1. Body(gv, d) = Body(gv, c)
  BY DEF Body
<1>2. FrontOf(gv, d) = FrontOf(gv, c)
  BY <1>1 DEF FrontOf
<1>3. /\ (c.maxPrefix = 2 => gv.bos)
      /\ c.maxPrefix \in {0, 2} /\ c.sysPos = Len(BosOf(gv)) + c.maxPrefix /\ c.sysLen = Len(Body(gv, c)) /\ c.sysMode \in Modes
  BY DEF Framed, ChatRecord
<1>4. Len(FrontOf(gv, c)) = Len(BosOf(gv)) + c.maxPrefix + Len(Body(gv, c))
  BY <1>3, FrontIs
<1>5. d.images = Shifted(rel2, Len(BosOf(gv)) + d.maxPrefix + d.sysLen)
  BY <1>3, <1>4
<1> QED BY <1>1, <1>2, <1>3, <1>5 DEF Framed

LEMMA AppendedSpan ==
    ASSUME NEW r \in Spans, NEW n \in Nat, NEW g \in Ids
    PROVE  /\ NewSpans(r, n, g) \in Spans /\ Len(r) \in Nat
           /\ Len(NewSpans(r, n, g)) = (IF g = 0 THEN Len(r) ELSE Len(r) + 1)
           /\ \A m \in 1..Len(r) : NewSpans(r, n, g)[m] = r[m]
           /\ g # 0 => NewSpans(r, n, g)[Len(r) + 1].start = n + 1
           /\ g # 0 => NewSpans(r, n, g)[Len(r) + 1].id = g
<1>0. Len(r) \in Nat
  BY SpanIs
<1>1. CASE g = 0
  BY <1>0, <1>1 DEF NewSpans
<1>2. CASE g # 0
  <2> DEFINE e == [start |-> n + 1, id |-> g]
  <2>1. e \in Span /\ e.start = n + 1 /\ e.id = g
    BY <1>2 DEF Span, Ids
  <2>2. NewSpans(r, n, g) = Append(r, e)
    BY <1>2 DEF NewSpans
  <2> HIDE DEF e
  <2>3. /\ Append(r, e) \in Spans /\ Len(Append(r, e)) = Len(r) + 1 /\ Append(r, e)[Len(r) + 1] = e
        /\ \A m \in 1..Len(r) : Append(r, e)[m] = r[m]
    BY <2>1, AppendProperties DEF Spans
  <2> QED BY <1>0, <1>2, <2>1, <2>2, <2>3
<1> QED BY <1>1, <1>2

\* the first spans are the old ones (run_chat_turn_rollback)
LEMMA OldSpans ==
    ASSUME NEW r \in Spans, NEW n \in Nat, NEW g \in Ids
    PROVE  SubSeq(NewSpans(r, n, g), 1, Len(r)) = r
<1> DEFINE q == NewSpans(r, n, g)
           N == Len(r)
           f == SubSeq(q, 1, N)
<1>1. N \in Nat /\ \A m \in 1..N : q[m] = r[m]
  BY AppendedSpan
<1>2. \A m \in 1..N : r[m] \in Span
  BY SpanIs
<1> HIDE DEF q
<1>3. \A m \in 1..N : q[m] \in Span
  BY <1>1, <1>2
<1>4. f \in Seq(Span) /\ Len(f) = N /\ \A m \in 1..N : f[m] = q[m]
  <2> HIDE DEF N
  <2> QED BY <1>1, <1>3, FirstOf
<1> HIDE DEF f
<1>5. f = r
  BY <1>1, <1>4, SeqEqual DEF Spans
<1> QED BY <1>5 DEF f, q

\* the new span is where the user's message stands in the whole transcript
LEMMA ShiftNew ==
    ASSUME NEW r \in Spans, NEW n \in Nat, NEW g \in Ids, NEW d \in Nat
    PROVE  Shifted(NewSpans(r, n, g), d) = NewSpans(Shifted(r, d), d + n, g)
<1> DEFINE q == NewSpans(r, n, g)
           x == Shifted(r, d)
           a == Shifted(q, d)
           b == NewSpans(x, d + n, g)
           N == Len(r)
           M == IF g = 0 THEN N ELSE N + 1
<1>0. d + n \in Nat
  OBVIOUS
<1>1. /\ q \in Spans /\ N \in Nat /\ Len(q) = M /\ \A m \in 1..N : q[m] = r[m]
      /\ g # 0 => q[N + 1].start = n + 1
      /\ g # 0 => q[N + 1].id = g
  BY AppendedSpan
<1>2. /\ x \in Spans /\ Len(x) = N
      /\ \A m \in 1..N : x[m].start = r[m].start + d
      /\ \A m \in 1..N : x[m].id = r[m].id
  BY FrameShift
<1> HIDE DEF q, x, N
<1>3. /\ a \in Spans /\ Len(a) = M
      /\ \A m \in 1..M : a[m].start = q[m].start + d
      /\ \A m \in 1..M : a[m].id = q[m].id
  <2> HIDE DEF M
  <2>1. /\ a \in Spans /\ Len(a) = Len(q)
        /\ \A m \in 1..Len(q) : a[m].start = q[m].start + d
        /\ \A m \in 1..Len(q) : a[m].id = q[m].id
    BY <1>1, FrameShift
  <2> QED BY <1>1, <2>1
<1>4. /\ b \in Spans /\ Len(b) = M /\ \A m \in 1..N : b[m] = x[m]
      /\ g # 0 => b[N + 1].start = (d + n) + 1
      /\ g # 0 => b[N + 1].id = g
  <2>1. /\ b \in Spans /\ Len(b) = (IF g = 0 THEN Len(x) ELSE Len(x) + 1)
        /\ \A m \in 1..Len(x) : b[m] = x[m]
        /\ g # 0 => b[Len(x) + 1].start = (d + n) + 1
        /\ g # 0 => b[Len(x) + 1].id = g
    <3>1. x \in Spans /\ d + n \in Nat /\ g \in Ids
      BY <1>0, <1>2
    <3> DEFINE e == d + n
    <3>2. e \in Nat
      BY <3>1
    <3> HIDE DEF e
    <3>3. /\ NewSpans(x, e, g) \in Spans
          /\ Len(NewSpans(x, e, g)) = (IF g = 0 THEN Len(x) ELSE Len(x) + 1)
          /\ \A m \in 1..Len(x) : NewSpans(x, e, g)[m] = x[m]
          /\ g # 0 => NewSpans(x, e, g)[Len(x) + 1].start = e + 1
          /\ g # 0 => NewSpans(x, e, g)[Len(x) + 1].id = g
      BY <3>1, <3>2, AppendedSpan
    <3> QED BY <3>3 DEF e
  <2> QED BY <1>2, <2>1
<1> HIDE DEF a, b
<1>5. ASSUME NEW m \in 1..M PROVE a[m].start = b[m].start /\ a[m].id = b[m].id
  <2>1. CASE m \in 1..N
    <3>1. a[m].start = r[m].start + d /\ a[m].id = r[m].id
      BY <1>1, <1>3, <2>1
    <3>2. b[m].start = r[m].start + d /\ b[m].id = r[m].id
      BY <1>2, <1>4, <2>1
    <3> QED BY <3>1, <3>2
  <2>2. CASE m = N + 1 /\ g # 0
    <3>1. a[m].start = (n + 1) + d /\ a[m].id = g
      BY <1>1, <1>3, <2>2
    <3>2. b[m].start = (d + n) + 1 /\ b[m].id = g
      BY <1>4, <2>2
    <3> QED BY <3>1, <3>2
  <2>3. m \in 1..N \/ (m = N + 1 /\ g # 0)
    BY <1>1
  <2> QED BY <2>1, <2>2, <2>3
<1>6. a = b
  <2>1. Len(a) = Len(b) /\ (\A m \in 1..Len(a) : a[m].start = b[m].start) /\ \A m \in 1..Len(a) : a[m].id = b[m].id
    BY <1>3, <1>4, <1>5
  <2> QED BY <1>3, <1>4, <2>1, SameSpans
<1> QED BY <1>6 DEF a, b, q, x

-----------------------------------------------------------------------------
(* The invariant                                                           *)

LiveRecord == [len : Nat, images : Nat, thinking : BOOLEAN, mode : Modes, id : Ids, max : Int, generated : Nat]

\* at the prompt: behind the head of the thinking mode, what was said
AtPrompt(gv, c, said) ==
    /\ Heads(gv, c, ThinkMode(c))
    /\ \E rest \in Seq(Symbol), rel \in Spans : Says(gv, rest, rel, said) /\ Framed(gv, c, rest, rel)

\* in a turn: what was said and the open turn, and the turn knows where it began
InTurn(gv, c, l, said) ==
    /\ Heads(gv, c, ThinkMode(c))
    /\ \E rest \in Seq(Symbol), rel \in Spans :
          /\ Says(gv, rest, rel, said)
          /\ Framed(gv, c, (rest \o Opening(l.id, l.mode)) \o Sampled(l.generated), NewSpans(rel, Len(rest), l.id))
          /\ l.len = Len(FrontOf(gv, c)) + Len(rest) /\ l.images = Len(rel)

\* the head a prompt on the command line gets, and the prompt
HeadOf(gv, mode) == (BosOf(gv) \o Pre(IF mode = "max" /\ ~gv.template THEN 2 ELSE 0)) \o Block(gv, IF gv.template THEN mode ELSE "none")
PromptOf(gv, mode) == (HeadOf(gv, mode) \o PairOf(gv)) \o Opening(0, mode)

\* the next token is sampled from rows of this transcript and these images
Exact(c, s) == s.valid /\ s.toks = c.toks /\ s.seen = Labelled(c.toks, c.images)

CliTypes ==
    /\ cliPc \in {"repl", "decode", "oneshot", "generate", "exit"}
    /\ given \in ChatLaunch /\ Placed /\ cfgMode \in Modes /\ (cfgMode = "max" => given.max)
    /\ chat \in ChatRecord /\ SessExact(sess) /\ turn \in LiveRecord
    /\ turns \in Seq(TurnRecord)

CliInv ==
    /\ CliTypes
    /\ cliPc = "repl" => AtPrompt(given, chat, turns)
    /\ cliPc = "decode" => InTurn(given, chat, turn, turns)
    /\ cliPc \in {"oneshot", "generate"} => chat.images = <<>>
    /\ cliPc = "generate" => turn.id = 0 /\ Len(chat.toks) > 0
    /\ cliPc = "generate" /\ AsChat => chat.toks = PromptOf(given, turn.mode) \o Sampled(turn.generated)
    /\ cliPc \in {"decode", "generate"} /\ turn.generated < turn.max => Exact(chat, sess)

LEMMA NoLiveIs == NoLive \in LiveRecord
  BY DEF NoLive, LiveRecord, Modes, Ids

\* the effort prefix has its place as long as the user does not ask for Think Max without one
LEMMA BehindIs ==
    /\ \A gv, c, d : Behind(gv, c) /\ d.enabled = c.enabled => Behind(gv, d)
    /\ \A gv, c, said : AtPrompt(gv, c, said) => Behind(gv, c)
  BY DEF Behind, AtPrompt, Framed

LEMMA NothingSaid == \A gv : Says(gv, PairOf(gv), <<>>, <<>>)
<1> SUFFICES ASSUME NEW gv PROVE Says(gv, PairOf(gv), <<>>, <<>>)
  OBVIOUS
<1>1. <<>> \in Spans /\ Len(<<>>) = 0 /\ <<>> \in Seq(TurnRecord)
  BY EmptySeq DEF Spans
<1>2. Ordered(<<>>) /\ Inside(<<>>, Len(PairOf(gv)))
  BY <1>1 DEF Ordered, Inside
<1>3. PairOf(gv) \in Seq(Symbol) /\ NoPad(PairOf(gv)) /\ 0 \in Ids
  BY BosIs DEF Ids
<1>4. Labelled(PairOf(gv), <<>>) = Marked(PairOf(gv), 0)
  BY <1>1, <1>3, PlainLabels
<1>5. Marked(PairOf(gv), 0) \o <<>> = Marked(PairOf(gv), 0)
  <2>1. Marked(PairOf(gv), 0) \in Seq(Label)
    BY <1>3, MarkIs
  <2> QED BY <2>1, ConcatEmptySeq
<1> QED BY <1>1, <1>2, <1>3, <1>4, <1>5, SaidNothing DEF Says

LEMMA ControlledIs == \A b \in BOOLEAN : \A control : Controlled(b, control) \in BOOLEAN
  BY DEF Controlled

LEMMA MadeFresh ==
    ASSUME NEW mode \in Modes, NEW ctx \in Nat
    PROVE  [toks |-> Bos, ctx |-> ctx, maxPrefix |-> 0, sysPos |-> Len(Bos), sysLen |-> 0,
            sysMode |-> "none", sysInit |-> FALSE,
            enabled |-> IF mode = "none" THEN "high" ELSE mode,
            thinking |-> Controlled(mode # "none", given.system), images |-> <<>>] \in ChatRecord
<1>1. Bos \in Seq(Symbol) /\ Len(Bos) \in Nat /\ <<>> \in Spans
  BY BosIs, EmptySeq DEF Spans
<1>2. (IF mode = "none" THEN "high" ELSE mode) \in {"high", "max"}
  BY DEF Modes
<1>3. Controlled(mode # "none", given.system) \in BOOLEAN
  BY DEF Controlled
<1> HIDE DEF Controlled, Bos
<1> QED BY <1>1, <1>2, <1>3 DEF ChatRecord, Modes

LEMMA ChatToks ==
    ASSUME NEW c \in ChatRecord, NEW toks \in Seq(Symbol)
    PROVE  LET d == [c EXCEPT !.toks = toks]
           IN  /\ d \in ChatRecord /\ d.toks = toks /\ d.images = c.images /\ d.maxPrefix = c.maxPrefix
               /\ d.sysPos = c.sysPos /\ d.sysLen = c.sysLen /\ d.sysMode = c.sysMode /\ d.sysInit = c.sysInit
               /\ Same(d, c)
  BY DEF ChatRecord, Same

\* repl_chat_init, repl_chat_reset
LEMMA FreshIs ==
    ASSUME given \in ChatLaunch, NEW mode \in Modes, NEW ctx \in Nat, mode = "max" => given.bos \/ given.template
    PROVE  /\ Fresh(mode, ctx) \in ChatRecord /\ AtPrompt(given, Fresh(mode, ctx), <<>>)
           /\ Fresh(mode, ctx).images = <<>>
<1> DEFINE c == [toks |-> Bos, ctx |-> ctx, maxPrefix |-> 0, sysPos |-> Len(Bos), sysLen |-> 0,
                 sysMode |-> "none", sysInit |-> FALSE,
                 enabled |-> IF mode = "none" THEN "high" ELSE mode,
                 thinking |-> Controlled(mode # "none", given.system), images |-> <<>>]
           r == ForMode(c, NoSession)
           d == r.chat
           f == [d EXCEPT !.toks = d.toks \o PairOf(given)]
           none == <<>>
<1>0. Fresh(mode, ctx) = f
  BY BosIs DEF Fresh
<1>1. /\ c \in ChatRecord /\ c.maxPrefix = 0 /\ c.sysPos = Len(BosOf(given)) /\ c.sysLen = 0 /\ ~c.sysInit /\ c.toks = BosOf(given)
      /\ c.images = none /\ Behind(given, c) /\ Len(BosOf(given)) \in Nat
  <2>1. c.enabled = IF mode = "none" THEN "high" ELSE mode
    OBVIOUS
  <2>2. Behind(given, c)
    BY <2>1 DEF Behind
  <2> QED BY <2>2, MadeFresh, BosIs
<1> HIDE DEF c
<1>2. Framed(given, c, none, none)
  <2>1. Body(given, c) = <<>> /\ Len(Body(given, c)) = 0
    BY <1>1, EmptySeq DEF Body
  <2>2. FrontOf(given, c) \o none = BosOf(given)
    <3>1. BosOf(given) \o <<>> = BosOf(given)
      BY BosIs, ConcatEmptySeq
    <3>2. FrontOf(given, c) = BosOf(given)
      BY <1>1, <2>1, <3>1 DEF FrontOf, Pre
    <3> QED BY <3>1, <3>2
  <2>3. none \in Spans /\ none \in Seq(Symbol) /\ Len(none) = 0
    BY EmptySeq DEF Spans
  <2>4. Shifted(none, Len(BosOf(given)) + 0 + 0) = none
    <3> DEFINE n == Len(BosOf(given))
    <3>0. n \in Nat /\ n + 0 + 0 = n
      BY <1>1
    <3> HIDE DEF n
    <3>1. Shifted(none, n) \in Spans /\ Len(Shifted(none, n)) = Len(none)
      BY <2>3, <3>0, FrameShift
    <3>2. Shifted(none, n) = none
      BY <2>3, <3>1, EmptySeq DEF Spans
    <3> QED BY <3>0, <3>2 DEF n
  <2> HIDE DEF none
  <2>5. c.sysPos = Len(BosOf(given)) + c.maxPrefix
    BY <1>1
  <2> QED BY <1>1, <2>1, <2>2, <2>3, <2>4, <2>5 DEF Framed
<1>3. /\ Framed(given, d, none, none) /\ Heads(given, d, ThinkMode(d))
  <2> HIDE DEF none
  <2> QED BY <1>2, RealignedFramed DEF ForMode
<1> HIDE DEF r, d
<1>4. /\ PairOf(given) \in Seq(Symbol) /\ d \in ChatRecord /\ none \in Spans /\ d.sysMode \in Modes
  BY <1>3, BosIs DEF Framed, ChatRecord
<1>5. /\ d.toks = FrontOf(given, d) \o none /\ FrontOf(given, d) \in Seq(Symbol) /\ d.toks \in Seq(Symbol)
      /\ d.images = Shifted(none, Len(FrontOf(given, d)))
  <2> HIDE DEF none
  <2> QED BY <1>3, <1>4, FramedLabels DEF Framed
<1>6. d.toks = FrontOf(given, d)
  BY <1>5, ConcatEmptySeq
<1>7. d.toks \o PairOf(given) \in Seq(Symbol)
  BY <1>4, <1>5, ConcatProperties
<1>8. /\ f \in ChatRecord /\ f.toks = d.toks \o PairOf(given) /\ f.images = d.images /\ f.maxPrefix = d.maxPrefix
      /\ f.sysPos = d.sysPos /\ f.sysLen = d.sysLen /\ f.sysMode = d.sysMode /\ f.sysInit = d.sysInit
      /\ Same(f, d)
  BY <1>4, <1>7, ChatToks
<1> HIDE DEF f
<1>9. Framed(given, f, PairOf(given), none)
  <2> HIDE DEF none
  <2>1. Behind(given, f)
    BY <1>3, <1>8 DEF Framed, Same, Behind
  <2> QED BY <1>3, <1>4, <1>5, <1>6, <1>8, <2>1, Reframed
<1>10. Heads(given, f, ThinkMode(f))
  <2>1. ThinkMode(f) = ThinkMode(d)
    BY <1>8, ThinkModeIs
  <2> QED BY <1>3, <1>8, <2>1 DEF Heads
<1>11. Says(given, PairOf(given), none, none)
  BY NothingSaid
<1>12. AtPrompt(given, f, none)
  <2> HIDE DEF none
  <2> QED BY <1>4, <1>9, <1>10, <1>11 DEF AtPrompt
<1>13. f.images = <<>>
  <2>1. Len(none) = 0
    OBVIOUS
  <2>2. f.images \in Spans /\ Len(f.images) = Len(none)
    <3>1. Len(FrontOf(given, d)) \in Nat
      BY <1>3, FramedLabels
    <3> HIDE DEF none
    <3> QED BY <1>4, <1>5, <1>8, <3>1, FrameShift
  <2> QED BY <2>1, <2>2, EmptySeq DEF Spans
<1> QED BY <1>0, <1>8, <1>12, <1>13

\* An edit that leaves the transcript alone
LEMMA PromptEdit ==
    ASSUME NEW gv, NEW c, NEW rest, NEW rel, Framed(gv, c, rest, rel), NEW d \in ChatRecord,
           Behind(gv, d), d.maxPrefix = c.maxPrefix, d.sysPos = c.sysPos, d.sysLen = c.sysLen, d.sysMode = c.sysMode,
           d.sysInit = c.sysInit, d.toks = c.toks, d.images = c.images
    PROVE  Framed(gv, d, rest, rel)
<1>1. rest \in Seq(Symbol) /\ rel \in Spans /\ c.toks = FrontOf(gv, c) \o rest
  BY DEF Framed
<1>2. c.images = Shifted(rel, Len(FrontOf(gv, c)))
  BY FramedLabels
<1>3. d.toks = FrontOf(gv, c) \o rest /\ d.images = Shifted(rel, Len(FrontOf(gv, c)))
  BY <1>1, <1>2
<1> QED BY <1>1, <1>3, Reframed

\* whatever was edited, realigned it is at the prompt again
LEMMA BackAtPrompt ==
    ASSUME given \in ChatLaunch, NEW d, NEW rest, NEW rel, Framed(given, d, rest, rel),
           NEW said, Says(given, rest, rel, said), NEW s, NEW enable, enable <=> ThinkMode(d) = "max"
    PROVE  LET r == Realigned(d, s, enable)
           IN  /\ AtPrompt(given, r.chat, said) /\ r.chat \in ChatRecord /\ r.sess \in {s, NoSession}
<1> DEFINE r == Realigned(d, s, enable)
<1>1. /\ Framed(given, r.chat, rest, rel) /\ Heads(given, r.chat, ThinkMode(r.chat)) /\ r.sess \in {s, NoSession}
  BY RealignedFramed
<1> HIDE DEF r
<1>2. r.chat \in ChatRecord /\ rest \in Seq(Symbol) /\ rel \in Spans
  BY <1>1 DEF Framed
<1>3. AtPrompt(given, r.chat, said)
  BY <1>1, <1>2 DEF AtPrompt
<1> QED BY <1>1, <1>2, <1>3 DEF r

LEMMA Reset ==
    ASSUME NEW s, SessExact(s), NEW x \in {s, NoSession}
    PROVE  SessExact(x)
  BY NothingSession

\* symbols are sampled one after the other
LEMMA SampledMore ==
    ASSUME NEW n \in Nat, NEW k \in Nat
    PROVE  Sampled(n) \o Sampled(k) = Sampled(n + k) /\ n + k \in Nat
<1> DEFINE a == Sampled(n)
           b == Sampled(k)
           c == Sampled(n + k)
<1>1. n + k \in Nat
  OBVIOUS
<1>2. a \in Seq(Symbol) /\ Len(a) = n /\ \A i \in 1..n : a[i] = "tok"
  BY SampledIs
<1>3. b \in Seq(Symbol) /\ Len(b) = k /\ \A i \in 1..k : b[i] = "tok"
  BY SampledIs
<1>4. c \in Seq(Symbol) /\ Len(c) = n + k /\ \A i \in 1..n + k : c[i] = "tok"
  BY <1>1, SampledIs
<1> HIDE DEF a, b, c
<1>5. /\ a \o b \in Seq(Symbol) /\ Len(a \o b) = n + k
      /\ \A i \in 1..n : (a \o b)[i] = a[i]
      /\ \A i \in n + 1..n + k : (a \o b)[i] = b[i - n]
  <2>1. a \in Seq(Symbol) /\ b \in Seq(Symbol) /\ Len(a) = n /\ Len(b) = k
    BY <1>2, <1>3
  <2>2. /\ a \o b \in Seq(Symbol) /\ Len(a \o b) = Len(a) + Len(b)
        /\ \A i \in 1..Len(a) : (a \o b)[i] = a[i]
        /\ \A i \in Len(a) + 1..Len(a) + Len(b) : (a \o b)[i] = b[i - Len(a)]
    <3>1. Len(a \o b) = Len(a) + Len(b) /\ a \o b \in Seq(Symbol)
      BY <2>1, ConcatAt
    <3>2. \A i \in 1..Len(a) : (a \o b)[i] = a[i]
      BY <2>1, ConcatAt
    <3>3. \A i \in Len(a) + 1..Len(a) + Len(b) : (a \o b)[i] = b[i - Len(a)]
      BY <2>1, ConcatAt
    <3> QED BY <3>1, <3>2, <3>3
  <2> QED BY <2>1, <2>2
<1>6. ASSUME NEW i \in 1..n + k PROVE (a \o b)[i] = c[i]
  <2>1. c[i] = "tok"
    BY <1>4
  <2>2. CASE i \in 1..n
    BY <1>2, <1>5, <2>1, <2>2
  <2>3. CASE i \in n + 1..n + k
    <3>1. i - n \in 1..k
      BY <2>3
    <3> QED BY <1>3, <1>5, <2>1, <2>3, <3>1
  <2>4. i \in 1..n \/ i \in n + 1..n + k
    OBVIOUS
  <2> QED BY <2>2, <2>3, <2>4
<1>7. a \o b = c
  BY <1>4, <1>5, <1>6, SeqEqual
<1> QED BY <1>1, <1>7 DEF a, b, c

LEMMA SampledNone == Sampled(0) = <<>>
<1>1. Sampled(0) \in Seq(Symbol) /\ Len(Sampled(0)) = 0
  BY SampledIs
<1> QED BY <1>1, EmptySeq

LEMMA ThreeJoined ==
    ASSUME NEW a \in Seq(Symbol), NEW b \in Seq(Symbol), NEW c \in Seq(Symbol)
    PROVE  (a \o b) \o c = a \o (b \o c)
  BY ConcatAssociative

\* tokens that are evaluated go into the rows behind the earlier ones
LEMMA SessGrown ==
    ASSUME NEW s, SessExact(s), NEW b \in Seq(Symbol), NoPad(b)
    PROVE  LET z == [s EXCEPT !.toks = s.toks \o b, !.seen = s.seen \o Labelled(b, <<>>)]
           IN  /\ SessExact(z) /\ z.toks = s.toks \o b /\ z.seen = s.seen \o Marked(b, 0) /\ z.valid = s.valid
<1> DEFINE z == [s EXCEPT !.toks = s.toks \o b, !.seen = s.seen \o Labelled(b, <<>>)]
<1>1. /\ s \in SessRecord /\ s.toks \in Seq(Symbol) /\ s.seen \in Seq(Label) /\ s.spans \in Spans
      /\ s.valid => s.seen = Labelled(s.toks, s.spans)
      /\ ~s.vision => s.spans = <<>>
  BY DEF SessExact, SessRecord
<1>2. 0 \in Ids /\ <<>> \in Spans
  BY EmptySeq DEF Ids, Spans
<1>3. Labelled(b, <<>>) = Marked(b, 0) /\ Marked(b, 0) \in Seq(Label)
  BY <1>2, PlainLabels, MarkIs
<1>4. s.toks \o b \in Seq(Symbol) /\ s.seen \o Marked(b, 0) \in Seq(Label)
  BY <1>1, <1>3, ConcatProperties
<1> DEFINE toks == s.toks \o b
           seen == s.seen \o Marked(b, 0)
<1>5. z = [s EXCEPT !.toks = toks, !.seen = seen]
  BY <1>3
<1>6. toks \in Seq(Symbol) /\ seen \in Seq(Label)
  BY <1>4
<1> HIDE DEF z, toks, seen
<1>7. z \in SessRecord /\ z.toks = toks /\ z.seen = seen /\ z.valid = s.valid /\ z.spans = s.spans /\ z.vision = s.vision
  BY <1>1, <1>5, <1>6 DEF SessRecord
<1>8. ASSUME z.valid PROVE z.seen = Labelled(z.toks, z.spans)
  <2>1. Labelled(s.toks \o b, s.spans) = Labelled(s.toks, s.spans) \o Marked(b, 0)
    BY <1>1, <1>2, LabelsThen
  <2>2. s.seen = Labelled(s.toks, s.spans)
    BY <1>1, <1>7, <1>8
  <2> QED BY <1>7, <2>1, <2>2 DEF toks, seen
<1>9. SessExact(z)
  BY <1>1, <1>7, <1>8 DEF SessExact
<1> QED BY <1>7, <1>9 DEF z, toks, seen

\* the tentative turn
LEMMA OpenedTurn ==
    ASSUME NEW gv, NEW d, AtPrompt(gv, d, turns), NEW id \in Ids, NEW mode \in Modes, NEW old \in BOOLEAN
    PROVE  LET c == [d EXCEPT !.toks = (d.toks \o UserMessage(id)) \o AssistantPrefix(mode),
                              !.images = IF id = 0 THEN d.images
                                         ELSE Append(d.images, [start |-> Len(d.toks) + 1, id |-> id])]
               l == [len |-> Len(d.toks), images |-> Len(d.images), thinking |-> old,
                     mode |-> mode, id |-> id, max |-> 0, generated |-> 0]
           IN  /\ c \in ChatRecord /\ l \in LiveRecord /\ InTurn(gv, c, l, turns) /\ Ordered(c.images)
<1> DEFINE c == [d EXCEPT !.toks = (d.toks \o UserMessage(id)) \o AssistantPrefix(mode),
                          !.images = IF id = 0 THEN d.images
                                     ELSE Append(d.images, [start |-> Len(d.toks) + 1, id |-> id])]
           l == [len |-> Len(d.toks), images |-> Len(d.images), thinking |-> old,
                 mode |-> mode, id |-> id, max |-> 0, generated |-> 0]
           F == FrontOf(gv, d)
           op == Opening(id, mode)
<1>1. PICK rest \in Seq(Symbol), rel \in Spans : Says(gv, rest, rel, turns) /\ Framed(gv, d, rest, rel)
  BY DEF AtPrompt
<1>2. d \in ChatRecord /\ d.toks = F \o rest /\ d.toks \in Seq(Symbol) /\ d.images \in Spans
  BY <1>1 DEF Framed, ChatRecord
<1>3. /\ d.images = Shifted(rel, Len(F)) /\ Len(F) \in Nat /\ F \in Seq(Symbol) /\ Len(d.toks) = Len(F) + Len(rest)
      /\ Len(rest) \in Nat /\ Len(rel) \in Nat
  BY <1>1, <1>2, FramedLabels, LenProperties, SpanIs
<1>4. op \in Seq(Symbol) /\ UserMessage(id) \in Seq(Symbol) /\ AssistantPrefix(mode) \in Seq(Symbol)
  BY OpeningIs, PartsIs
<1> DEFINE toks == d.toks \o op
           images == NewSpans(d.images, Len(d.toks), id)
           text == (rest \o op) \o Sampled(0)
           spans == NewSpans(rel, Len(rest), id)
<1>5. (d.toks \o UserMessage(id)) \o AssistantPrefix(mode) = toks
  <2>1. (d.toks \o UserMessage(id)) \o AssistantPrefix(mode) = d.toks \o (UserMessage(id) \o AssistantPrefix(mode))
    BY <1>2, <1>4, ThreeJoined
  <2> QED BY <2>1 DEF Opening
<1>6. c = [d EXCEPT !.toks = toks, !.images = images]
  BY <1>5 DEF NewSpans
<1> HIDE DEF op
<1>7. toks = F \o text /\ text \in Seq(Symbol) /\ toks \in Seq(Symbol) /\ text = rest \o op
  <2>1. rest \o op \in Seq(Symbol)
    BY <1>4, ConcatProperties
  <2>2. text = rest \o op
    <3>1. (rest \o op) \o <<>> = rest \o op
      BY <2>1, ConcatEmptySeq
    <3> QED BY <3>1, SampledNone
  <2>3. (F \o rest) \o op = F \o (rest \o op)
    <3> HIDE DEF F
    <3> QED BY <1>3, <1>4, ThreeJoined
  <2>4. toks \in Seq(Symbol)
    BY <1>2, <1>4, ConcatProperties
  <2> HIDE DEF F
  <2> QED BY <1>2, <2>1, <2>2, <2>3, <2>4
<1>8. /\ spans \in Spans /\ Ordered(spans)
  BY <1>1, SaysOpening
<1>9. images = Shifted(spans, Len(F)) /\ images \in Spans
  <2>1. Shifted(spans, Len(F)) = NewSpans(Shifted(rel, Len(F)), Len(F) + Len(rest), id)
    <3> DEFINE x == Len(F)
               y == Len(rest)
    <3>1. x \in Nat /\ y \in Nat
      BY <1>3
    <3> HIDE DEF x, y
    <3>2. Shifted(NewSpans(rel, y, id), x) = NewSpans(Shifted(rel, x), x + y, id)
      BY <3>1, ShiftNew
    <3> QED BY <3>2 DEF x, y
  <2>2. images = NewSpans(Shifted(rel, Len(F)), Len(F) + Len(rest), id)
    BY <1>3
  <2>3. Shifted(spans, Len(F)) \in Spans
    <3> HIDE DEF F, spans
    <3> QED BY <1>3, <1>8, FrameShift
  <2> QED BY <2>1, <2>2, <2>3
<1> HIDE DEF c, toks, images
<1>10. /\ c \in ChatRecord /\ c.toks = toks /\ c.images = images /\ c.maxPrefix = d.maxPrefix
       /\ c.sysPos = d.sysPos /\ c.sysLen = d.sysLen /\ c.sysMode = d.sysMode /\ c.sysInit = d.sysInit
       /\ Same(c, d)
  <2>1. d \in ChatRecord /\ toks \in Seq(Symbol) /\ images \in Spans
    BY <1>2, <1>7, <1>9
  <2>2. c = [d EXCEPT !.toks = toks, !.images = images]
    BY <1>6
  <2> HIDE DEF F, l, text, spans
  <2> HIDE DEF op
  <2> QED BY <2>1, <2>2 DEF ChatRecord, Same
<1>11. Framed(gv, c, text, spans) /\ FrontOf(gv, c) = F
  <2>1. c.toks = F \o text /\ c.images = Shifted(spans, Len(F))
    BY <1>7, <1>9, <1>10
  <2>2. Behind(gv, c)
    BY <1>10, BehindIs DEF Same
  <2> HIDE DEF text, spans
  <2> QED BY <1>1, <1>7, <1>8, <1>10, <2>1, <2>2, Reframed
<1>12. Ordered(c.images)
  <2> HIDE DEF text, spans
  <2> QED BY <1>8, <1>11, FramedLabels
<1>13. Heads(gv, c, ThinkMode(c))
  <2>1. ThinkMode(c) = ThinkMode(d)
    BY <1>10, ThinkModeIs
  <2> QED BY <1>10, <2>1 DEF AtPrompt, Heads
<1>14. Len(d.images) = Len(rel)
  <2>1. Len(Shifted(rel, Len(F))) = Len(rel)
    <3> HIDE DEF F
    <3> QED BY <1>3, FrameShift
  <2> QED BY <1>3, <2>1
<1>15. l \in LiveRecord
  <2>1. Len(d.toks) \in Nat /\ Len(d.images) \in Nat
    BY <1>2, LenProperties, SpanIs
  <2> QED BY <2>1 DEF LiveRecord
<1>16. l.len = Len(d.toks) /\ l.images = Len(d.images) /\ l.id = id /\ l.mode = mode /\ l.generated = 0
  OBVIOUS
<1> HIDE DEF l
<1>17. InTurn(gv, c, l, turns)
  <2>1. l.len = Len(FrontOf(gv, c)) + Len(rest) /\ l.images = Len(rel)
    <3>1. FrontOf(gv, c) = FrontOf(gv, d) /\ Len(d.toks) = Len(FrontOf(gv, d)) + Len(rest)
      BY <1>3, <1>11
    <3>2. l.len = Len(d.toks) /\ l.images = Len(d.images)
      BY <1>16
    <3> HIDE DEF F
    <3> QED BY <1>14, <3>1, <3>2
  <2>2. Framed(gv, c, (rest \o Opening(l.id, l.mode)) \o Sampled(l.generated), NewSpans(rel, Len(rest), l.id))
    BY <1>11, <1>16 DEF op
  <2> QED BY <1>1, <1>13, <2>1, <2>2 DEF InTurn
<1> QED BY <1>10, <1>12, <1>15, <1>17 DEF c, l

\* rolled back, the transcript is what it was before the turn
LEMMA RollbackIs ==
    ASSUME given \in ChatLaunch, NEW c, NEW s, NEW l \in LiveRecord, NEW said, InTurn(given, c, l, said)
    PROVE  /\ AtPrompt(given, Rollback(c, s, l).chat, said) /\ Rollback(c, s, l).chat \in ChatRecord
           /\ Rollback(c, s, l).sess \in {s, NoSession}
<1> DEFINE F == FrontOf(given, c)
           op == Opening(l.id, l.mode)
           new == Sampled(l.generated)
<1>1. PICK rest \in Seq(Symbol), rel \in Spans :
         /\ Says(given, rest, rel, said)
         /\ Framed(given, c, (rest \o op) \o new, NewSpans(rel, Len(rest), l.id))
         /\ l.len = Len(F) + Len(rest) /\ l.images = Len(rel)
  BY DEF InTurn
<1> DEFINE text == (rest \o op) \o new
           spans == NewSpans(rel, Len(rest), l.id)
<1>2. /\ c \in ChatRecord /\ c.toks = F \o text /\ c.images = Shifted(spans, Len(F)) /\ Len(F) \in Nat /\ F \in Seq(Symbol)
      /\ text \in Seq(Symbol) /\ spans \in Spans
  <2>1. Framed(given, c, text, spans)
    BY <1>1
  <2> HIDE DEF text, spans, F
  <2>2. c \in ChatRecord /\ c.toks = FrontOf(given, c) \o text /\ text \in Seq(Symbol) /\ spans \in Spans
    BY <2>1 DEF Framed
  <2>3. /\ c.images = Shifted(spans, Len(FrontOf(given, c))) /\ Len(FrontOf(given, c)) \in Nat
        /\ FrontOf(given, c) \in Seq(Symbol)
    BY <2>1, FramedLabels
  <2> QED BY <2>2, <2>3 DEF F
<1>3. /\ op \in Seq(Symbol) /\ new \in Seq(Symbol) /\ Len(rest) \in Nat /\ Len(rel) \in Nat
      /\ l.id \in Ids /\ l.generated \in Nat /\ l.thinking \in BOOLEAN
  <2>1. l.id \in Ids /\ l.generated \in Nat /\ l.thinking \in BOOLEAN
    BY DEF LiveRecord
  <2> QED BY <2>1, OpeningIs, SampledIs, LenProperties, SpanIs
<1>4. SubSeq(c.toks, 1, l.len) = F \o rest /\ F \o rest \in Seq(Symbol)
  <2> DEFINE a == F \o rest
             b == op \o new
  <2> HIDE DEF F, op, new
  <2>1. rest \o op \in Seq(Symbol) /\ op \o new \in Seq(Symbol) /\ (rest \o op) \o new = rest \o (op \o new)
    BY <1>3, Joined
  <2>2. a \o b = F \o (rest \o b) /\ a \in Seq(Symbol) /\ b \in Seq(Symbol) /\ Len(a) = Len(F) + Len(rest)
    <3>1. b \in Seq(Symbol)
      BY <2>1
    <3>2. a \in Seq(Symbol) /\ Len(a) = Len(F) + Len(rest)
      BY <1>2, ConcatProperties
    <3> HIDE DEF b
    <3>3. (F \o rest) \o b = F \o (rest \o b)
      BY <1>2, <3>1, ThreeJoined
    <3> QED BY <3>1, <3>2, <3>3
  <2>3. c.toks = a \o b
    BY <1>2, <2>1, <2>2
  <2> HIDE DEF a, b
  <2>4. SubSeq(a \o b, 1, Len(a)) = a
    BY <2>2, Halves
  <2>5. l.len = Len(a)
    BY <1>1, <2>2
  <2>6. SubSeq(c.toks, 1, l.len) = a
    BY <2>3, <2>4, <2>5
  <2> QED BY <2>2, <2>6 DEF a
<1>5. SubSeq(c.images, 1, l.images) = Shifted(rel, Len(F)) /\ Shifted(rel, Len(F)) \in Spans
  <2> DEFINE x == Len(F)
             y == Len(rest)
             r == Shifted(rel, x)
  <2>1. x \in Nat /\ y \in Nat /\ l.id \in Ids
    BY <1>2, <1>3
  <2>2. c.images = Shifted(NewSpans(rel, y, l.id), x)
    BY <1>2
  <2> HIDE DEF F, x, y, spans, text
  <2>3. r \in Spans /\ Len(r) = Len(rel)
    BY <2>1, FrameShift
  <2>4. Shifted(NewSpans(rel, y, l.id), x) = NewSpans(r, x + y, l.id)
    BY <2>1, ShiftNew
  <2> HIDE DEF r
  <2>5. x + y \in Nat
    BY <2>1
  <2>6. SubSeq(NewSpans(r, x + y, l.id), 1, Len(r)) = r
    BY <2>1, <2>3, <2>5, OldSpans
  <2>7. l.images = Len(r)
    BY <1>1, <2>3
  <2>8. SubSeq(c.images, 1, l.images) = r
    BY <2>2, <2>4, <2>6, <2>7
  <2> QED BY <2>3, <2>8 DEF r, x
<1> DEFINE d == [c EXCEPT !.toks = SubSeq(@, 1, l.len), !.images = SubSeq(@, 1, l.images), !.thinking = l.thinking]
<1>6. d = [c EXCEPT !.toks = F \o rest, !.images = Shifted(rel, Len(F)), !.thinking = l.thinking]
  BY <1>4, <1>5
<1>7. Rollback(c, s, l) = Realigned(d, s, ThinkMode(d) = "max")
  BY DEF Rollback, ForMode
<1> DEFINE toks == F \o rest
           images == Shifted(rel, Len(F))
<1>8. toks \in Seq(Symbol) /\ images \in Spans
  BY <1>4, <1>5
<1>9. d = [c EXCEPT !.toks = toks, !.images = images, !.thinking = l.thinking]
  BY <1>6
<1> HIDE DEF d, toks, images, F, op, new, text, spans
<1>10. /\ d \in ChatRecord /\ d.toks = toks /\ d.images = images /\ d.maxPrefix = c.maxPrefix
       /\ d.sysPos = c.sysPos /\ d.sysLen = c.sysLen /\ d.sysMode = c.sysMode /\ d.sysInit = c.sysInit
       /\ d.enabled = c.enabled
  BY <1>2, <1>3, <1>8, <1>9 DEF ChatRecord
<1>11. Framed(given, d, rest, rel)
  <2>1. d.toks = FrontOf(given, c) \o rest /\ d.images = Shifted(rel, Len(FrontOf(given, c)))
    BY <1>10 DEF toks, images, F
  <2>2. Framed(given, c, text, spans)
    BY <1>1 DEF text, spans
  <2>3. Behind(given, d)
    BY <1>10, <2>2, BehindIs DEF Framed
  <2> QED BY <1>10, <2>1, <2>2, <2>3, Reframed
<1>12. Says(given, rest, rel, said)
  BY <1>1
<1>13. LET r == Realigned(d, s, ThinkMode(d) = "max")
       IN  /\ AtPrompt(given, r.chat, said) /\ r.chat \in ChatRecord /\ r.sess \in {s, NoSession}
  <2> PICK v \in BOOLEAN : v = (ThinkMode(d) = "max")
    OBVIOUS
  <2>1. LET r == Realigned(d, s, v)
        IN  /\ AtPrompt(given, r.chat, said) /\ r.chat \in ChatRecord /\ r.sess \in {s, NoSession}
    BY <1>11, <1>12, BackAtPrompt
  <2> QED BY <2>1
<1> QED BY <1>7, <1>13

\* whatever of the chat was changed, realigned it is at the prompt again
LEMMA Edited ==
    ASSUME given \in ChatLaunch, NEW c, NEW said, AtPrompt(given, c, said), NEW d \in ChatRecord,
           Behind(given, d), d.maxPrefix = c.maxPrefix, d.sysPos = c.sysPos, d.sysLen = c.sysLen, d.sysMode = c.sysMode,
           d.sysInit = c.sysInit, d.toks = c.toks, d.images = c.images,
           NEW s, SessExact(s), NEW enable, enable <=> ThinkMode(d) = "max", NEW r, r = Realigned(d, s, enable)
    PROVE  AtPrompt(given, r.chat, said) /\ r.chat \in ChatRecord /\ SessExact(r.sess)
<1>1. PICK rest \in Seq(Symbol), rel \in Spans : Says(given, rest, rel, said) /\ Framed(given, c, rest, rel)
  BY DEF AtPrompt
<1>2. Framed(given, d, rest, rel)
  BY <1>1, PromptEdit
<1>3. /\ AtPrompt(given, Realigned(d, s, enable).chat, said) /\ Realigned(d, s, enable).chat \in ChatRecord
      /\ Realigned(d, s, enable).sess \in {s, NoSession}
  BY <1>1, <1>2, BackAtPrompt
<1>4. SessExact(r.sess)
  BY <1>3, Reset
<1> QED BY <1>3, <1>4

LEMMA EditedForMode ==
    ASSUME given \in ChatLaunch, NEW c, NEW said, AtPrompt(given, c, said), NEW d \in ChatRecord,
           Behind(given, d), d.maxPrefix = c.maxPrefix, d.sysPos = c.sysPos, d.sysLen = c.sysLen, d.sysMode = c.sysMode,
           d.sysInit = c.sysInit, d.toks = c.toks, d.images = c.images,
           NEW s, SessExact(s), NEW r, r = ForMode(d, s)
    PROVE  AtPrompt(given, r.chat, said) /\ r.chat \in ChatRecord /\ SessExact(r.sess)
<1>1. PICK rest \in Seq(Symbol), rel \in Spans : Says(given, rest, rel, said) /\ Framed(given, c, rest, rel)
  BY DEF AtPrompt
<1>2. Framed(given, d, rest, rel)
  BY <1>1, PromptEdit
<1>3. PICK v \in BOOLEAN : v = (ThinkMode(d) = "max")
  OBVIOUS
<1>4. r = Realigned(d, s, v)
  BY <1>3 DEF ForMode
<1>5. /\ AtPrompt(given, Realigned(d, s, v).chat, said) /\ Realigned(d, s, v).chat \in ChatRecord
      /\ Realigned(d, s, v).sess \in {s, NoSession}
  BY <1>1, <1>2, <1>3, BackAtPrompt
<1>6. SessExact(r.sess)
  BY <1>4, <1>5, Reset
<1> QED BY <1>4, <1>5, <1>6

\* the tokens of a turn go behind those it has
Longer(d, c, k) == d = [c EXCEPT !.toks = c.toks \o Sampled(k)]
Further(m, l, k) ==
    /\ m.len = l.len /\ m.images = l.images /\ m.id = l.id /\ m.mode = l.mode
    /\ m.generated = l.generated + k

LEMMA TurnLonger ==
    ASSUME NEW gv, NEW c, NEW l \in LiveRecord, NEW said, InTurn(gv, c, l, said), NEW k \in Nat,
           NEW d, Longer(d, c, k), NEW m, Further(m, l, k)
    PROVE  InTurn(gv, d, m, said)
<1> DEFINE F == FrontOf(gv, c)
           op == Opening(l.id, l.mode)
           new == Sampled(l.generated)
           more == Sampled(k)
<1>1. PICK rest \in Seq(Symbol), rel \in Spans :
         /\ Says(gv, rest, rel, said)
         /\ Framed(gv, c, (rest \o op) \o new, NewSpans(rel, Len(rest), l.id))
         /\ l.len = Len(F) + Len(rest) /\ l.images = Len(rel)
  BY DEF InTurn
<1> DEFINE head == rest \o op
           text == head \o new
           text2 == head \o Sampled(l.generated + k)
           spans == NewSpans(rel, Len(rest), l.id)
<1>2. l.generated \in Nat
  BY DEF LiveRecord
<1>3. op \in Seq(Symbol) /\ new \in Seq(Symbol) /\ more \in Seq(Symbol) /\ Sampled(l.generated + k) \in Seq(Symbol)
  <2>1. l.generated + k \in Nat
    BY <1>2
  <2> QED BY <1>2, <2>1, OpeningIs, SampledIs
<1>4. head \in Seq(Symbol) /\ text2 \in Seq(Symbol)
  BY <1>3, ConcatProperties
<1>5. new \o more = Sampled(l.generated + k)
  BY <1>2, SampledMore
<1>6. /\ c \in ChatRecord /\ c.toks = F \o text /\ F \in Seq(Symbol) /\ text \in Seq(Symbol) /\ spans \in Spans
      /\ c.images = Shifted(spans, Len(F)) /\ c.toks \in Seq(Symbol)
  <2>1. Framed(gv, c, text, spans)
    BY <1>1
  <2> HIDE DEF text, spans, F
  <2>2. c \in ChatRecord /\ c.toks = FrontOf(gv, c) \o text /\ text \in Seq(Symbol) /\ spans \in Spans
    BY <2>1 DEF Framed
  <2>3. c.images = Shifted(spans, Len(FrontOf(gv, c))) /\ FrontOf(gv, c) \in Seq(Symbol) /\ c.toks \in Seq(Symbol)
    BY <2>1, FramedLabels
  <2> QED BY <2>2, <2>3 DEF F
<1>7. c.toks \o more = F \o text2 /\ c.toks \o more \in Seq(Symbol)
  <2>1. text \o more = text2
    <3>1. head \in Seq(Symbol) /\ new \in Seq(Symbol) /\ more \in Seq(Symbol)
      BY <1>3, <1>4
    <3> HIDE DEF F, op, head, new, more, spans
    <3>2. (head \o new) \o more = head \o (new \o more)
      <4> HIDE DEF text, text2
      <4> QED BY <3>1, ThreeJoined
    <3> QED BY <1>5, <3>2
  <2>2. F \in Seq(Symbol) /\ text \in Seq(Symbol) /\ more \in Seq(Symbol) /\ c.toks \in Seq(Symbol) /\ c.toks = F \o text
    BY <1>3, <1>6
  <2> HIDE DEF F, head, new, more, text, text2, spans, op
  <2>3. (F \o text) \o more = F \o (text \o more)
    BY <2>2, ThreeJoined
  <2>4. c.toks \o more \in Seq(Symbol)
    BY <2>2, ConcatProperties
  <2> QED BY <2>1, <2>2, <2>3, <2>4
<1> DEFINE toks == c.toks \o more
<1>8. d = [c EXCEPT !.toks = toks] /\ toks \in Seq(Symbol)
  BY <1>7 DEF Longer
<1> HIDE DEF F, head, new, more, toks, op, text, spans, text2
<1>9. /\ d \in ChatRecord /\ d.toks = toks /\ d.images = c.images /\ d.maxPrefix = c.maxPrefix
      /\ d.sysPos = c.sysPos /\ d.sysLen = c.sysLen /\ d.sysMode = c.sysMode /\ d.sysInit = c.sysInit
      /\ Same(d, c)
  BY <1>6, <1>8 DEF ChatRecord, Same
<1>10. Framed(gv, d, text2, spans) /\ FrontOf(gv, d) = F
  <2>1. d.toks = FrontOf(gv, c) \o text2 /\ d.images = Shifted(spans, Len(FrontOf(gv, c)))
    BY <1>6, <1>7, <1>9 DEF F, toks
  <2>2. Framed(gv, c, text, spans)
    BY <1>1 DEF text, spans, head, op, new
  <2>3. Framed(gv, d, text2, spans) /\ FrontOf(gv, d) = FrontOf(gv, c)
    <3>1. Behind(gv, d)
      BY <1>9, <2>2, BehindIs DEF Framed, Same
    <3> QED BY <1>4, <1>6, <1>9, <2>1, <2>2, <3>1, Reframed
  <2> QED BY <2>3 DEF F
<1>11. Heads(gv, d, ThinkMode(d))
  <2>1. ThinkMode(d) = ThinkMode(c)
    BY <1>9, ThinkModeIs
  <2>2. Heads(gv, c, ThinkMode(c))
    BY DEF InTurn
  <2> QED BY <1>9, <2>1, <2>2 DEF Heads
<1>12. Framed(gv, d, (rest \o Opening(m.id, m.mode)) \o Sampled(m.generated), NewSpans(rel, Len(rest), m.id))
  BY <1>10 DEF text2, spans, head, op, Further
<1>13. m.len = Len(FrontOf(gv, d)) + Len(rest) /\ m.images = Len(rel)
  BY <1>1, <1>10 DEF Further
<1>14. InTurn(gv, d, m, said)
  BY <1>1, <1>11, <1>12, <1>13 DEF InTurn
<1> QED BY <1>14

\* a turn that an evaluation error cut short stays in the transcript
LEMMA TurnCut ==
    ASSUME NEW gv, NEW c, NEW l \in LiveRecord, NEW said, InTurn(gv, c, l, said)
    PROVE  AtPrompt(gv, c, Append(said, [id |-> l.id, mode |-> l.mode, n |-> l.generated, closed |-> FALSE]))
<1> DEFINE t == [id |-> l.id, mode |-> l.mode, n |-> l.generated, closed |-> FALSE]
<1>1. PICK rest \in Seq(Symbol), rel \in Spans :
         /\ Says(gv, rest, rel, said)
         /\ Framed(gv, c, (rest \o Opening(l.id, l.mode)) \o Sampled(l.generated), NewSpans(rel, Len(rest), l.id))
  BY DEF InTurn
<1>2. t \in TurnRecord /\ t.id = l.id /\ t.mode = l.mode /\ t.n = l.generated /\ ~t.closed
  BY DEF LiveRecord, TurnRecord
<1> HIDE DEF t
<1> DEFINE text == (rest \o Opening(t.id, t.mode)) \o Sampled(t.n)
           spans == NewSpans(rel, Len(rest), t.id)
<1>3. text \in Seq(Symbol) /\ spans \in Spans /\ Says(gv, text, spans, Append(said, t))
  BY <1>1, <1>2, TurnSaid
<1>4. Framed(gv, c, text, spans)
  BY <1>1, <1>2
<1>5. Heads(gv, c, ThinkMode(c))
  BY DEF InTurn
<1> HIDE DEF text, spans
<1>6. AtPrompt(gv, c, Append(said, t))
  BY <1>3, <1>4, <1>5 DEF AtPrompt
<1> QED BY <1>6 DEF t

\* a turn that is done is closed
LEMMA TurnClosed ==
    ASSUME NEW gv, NEW c, NEW l \in LiveRecord, NEW said, InTurn(gv, c, l, said),
           NEW d, d = [c EXCEPT !.toks = c.toks \o AssistantSuffix]
    PROVE  /\ AtPrompt(gv, d, Append(said, [id |-> l.id, mode |-> l.mode, n |-> l.generated, closed |-> TRUE]))
           /\ d \in ChatRecord
<1> DEFINE t == [id |-> l.id, mode |-> l.mode, n |-> l.generated, closed |-> TRUE]
           F == FrontOf(gv, c)
<1>1. PICK rest \in Seq(Symbol), rel \in Spans :
         /\ Says(gv, rest, rel, said)
         /\ Framed(gv, c, (rest \o Opening(l.id, l.mode)) \o Sampled(l.generated), NewSpans(rel, Len(rest), l.id))
  BY DEF InTurn
<1>2. t \in TurnRecord /\ t.id = l.id /\ t.mode = l.mode /\ t.n = l.generated /\ t.closed
  BY DEF LiveRecord, TurnRecord
<1> HIDE DEF t
<1> DEFINE text == (rest \o Opening(t.id, t.mode)) \o Sampled(t.n)
           spans == NewSpans(rel, Len(rest), t.id)
           text2 == text \o AssistantSuffix
<1>3. text \in Seq(Symbol) /\ spans \in Spans /\ Says(gv, text2, spans, Append(said, t))
  BY <1>1, <1>2, TurnSaid
<1>4. Framed(gv, c, text, spans)
  BY <1>1, <1>2
<1> HIDE DEF text, spans
<1>5. c \in ChatRecord /\ c.toks = F \o text /\ F \in Seq(Symbol) /\ c.images = Shifted(spans, Len(F)) /\ c.toks \in Seq(Symbol)
  <2>1. c \in ChatRecord /\ c.toks = FrontOf(gv, c) \o text
    BY <1>4 DEF Framed
  <2>2. FrontOf(gv, c) \in Seq(Symbol) /\ c.images = Shifted(spans, Len(FrontOf(gv, c))) /\ c.toks \in Seq(Symbol)
    BY <1>4, FramedLabels
  <2> QED BY <2>1, <2>2
<1> HIDE DEF F
<1> DEFINE toks == c.toks \o AssistantSuffix
<1>6. toks = F \o text2 /\ toks \in Seq(Symbol) /\ text2 \in Seq(Symbol)
  <2>1. AssistantSuffix \in Seq(Symbol)
    BY SuffixIs
  <2>2. (F \o text) \o AssistantSuffix = F \o (text \o AssistantSuffix)
    BY <1>3, <1>5, <2>1, ThreeJoined
  <2>3. toks \in Seq(Symbol) /\ text2 \in Seq(Symbol)
    BY <1>3, <1>5, <2>1, ConcatProperties
  <2> QED BY <1>5, <2>2, <2>3
<1>7. d = [c EXCEPT !.toks = toks]
  OBVIOUS
<1> HIDE DEF toks, text2
<1>8. /\ d \in ChatRecord /\ d.toks = toks /\ d.images = c.images /\ d.maxPrefix = c.maxPrefix
      /\ d.sysPos = c.sysPos /\ d.sysLen = c.sysLen /\ d.sysMode = c.sysMode /\ d.sysInit = c.sysInit
      /\ Same(d, c)
  BY <1>5, <1>6, <1>7 DEF ChatRecord, Same
<1>9. Framed(gv, d, text2, spans)
  <2>1. d.toks = FrontOf(gv, c) \o text2 /\ d.images = Shifted(spans, Len(FrontOf(gv, c)))
    BY <1>5, <1>6, <1>8 DEF F
  <2>2. Behind(gv, d)
    BY <1>4, <1>8, BehindIs DEF Framed, Same
  <2> QED BY <1>3, <1>4, <1>6, <1>8, <2>1, <2>2, Reframed
<1>10. Heads(gv, d, ThinkMode(d))
  <2>1. ThinkMode(d) = ThinkMode(c)
    BY <1>8, ThinkModeIs
  <2>2. Heads(gv, c, ThinkMode(c))
    BY DEF InTurn
  <2> QED BY <1>8, <2>1, <2>2 DEF Heads
<1>11. AtPrompt(gv, d, Append(said, t))
  BY <1>3, <1>6, <1>9, <1>10 DEF AtPrompt
<1> QED BY <1>8, <1>11 DEF t

LEMMA PromptOfIs ==
    ASSUME NEW gv, NEW mode \in Modes
    PROVE  PromptOf(gv, mode) \in Seq(Symbol)
<1> DEFINE pre == Pre(IF mode = "max" /\ ~gv.template THEN 2 ELSE 0)
           B == Block(gv, IF gv.template THEN mode ELSE "none")
           op == Opening(0, mode)
<1>1. /\ pre \in Seq(Symbol) /\ B \in Seq(Symbol) /\ op \in Seq(Symbol)
      /\ BosOf(gv) \in Seq(Symbol) /\ PairOf(gv) \in Seq(Symbol)
  <2>1. (IF mode = "max" /\ ~gv.template THEN 2 ELSE 0) \in {0, 2} /\ (IF gv.template THEN mode ELSE "none") \in Modes
    BY DEF Modes
  <2> QED BY <2>1, PreIs, BlockIs, OpeningIs, BosIs
<1> HIDE DEF pre, B, op
<1> DEFINE p == BosOf(gv) \o pre
<1>2. p \in Seq(Symbol)
  BY <1>1, ConcatProperties
<1> HIDE DEF p
<1> DEFINE q == p \o B
<1>3. q \in Seq(Symbol)
  BY <1>1, <1>2, ConcatProperties
<1> HIDE DEF q
<1> DEFINE r == q \o PairOf(gv)
<1>4. r \in Seq(Symbol)
  BY <1>1, <1>3, ConcatProperties
<1> HIDE DEF r
<1>5. r \o op \in Seq(Symbol)
  BY <1>1, <1>4, ConcatProperties
<1> QED BY <1>5 DEF PromptOf, HeadOf, op, r, q, p, pre, B

\* the prompt a command line builds, where it is built as the chat builds its first turn
LEMMA PromptIs ==
    ASSUME given \in ChatLaunch, NEW mode \in Modes,
           given.prefix \/ (IF given.template THEN ~given.bos ELSE mode # "max")
    PROVE  BuildPrompt(mode, FALSE) = PromptOf(given, mode)
<1> DEFINE pre == IF mode = "max" /\ ~given.template THEN MaxPrefix ELSE <<>>
           b == Block(given, mode)
           H == (BosOf(given) \o pre) \o b
           um == UserMessage(0)
           ap == AssistantPrefix(mode)
           none == <<>>
<1>1. /\ pre \in Seq(Symbol) /\ BosOf(given) \in Seq(Symbol) /\ b \in Seq(Symbol) /\ PairOf(given) \in Seq(Symbol)
      /\ none \in Seq(Symbol) /\ \A y \in Seq(Symbol) : y \o none = y /\ none \o y = y
  BY BosIs, BlockIs, EmptySeq, ConcatEmptySeq
<1>2. um \in Seq(Symbol) /\ ap \in Seq(Symbol) /\ um \o ap \in Seq(Symbol)
  BY PartsIs, ConcatProperties
<1>3. H = HeadOf(given, mode)
  <2>1. Pre(IF mode = "max" /\ ~given.template THEN 2 ELSE 0) = pre
    BY DEF Pre
  <2>2. Block(given, IF given.template THEN mode ELSE "none") = b
    BY DEF Block
  <2> QED BY <2>1, <2>2 DEF HeadOf
<1>4. SystemBlock(mode) = b
  BY BlockIs
<1>5. PromptOf(given, mode) = (H \o PairOf(given)) \o (um \o ap)
  BY <1>3 DEF PromptOf, Opening
<1>6. CASE given.prefix
  <2>1. BuildPrompt(mode, FALSE) = ((H \o PairOf(given)) \o um) \o ap
    BY <1>4, <1>6, BosIs DEF BuildPrompt
  <2> HIDE DEF pre, b, um, ap, none
  <2>2. BosOf(given) \o pre \in Seq(Symbol)
    BY <1>1, ConcatProperties
  <2> DEFINE q == BosOf(given) \o pre
  <2>3. q \in Seq(Symbol)
    BY <2>2
  <2> HIDE DEF q
  <2>4. q \o b \in Seq(Symbol)
    BY <1>1, <2>3, ConcatProperties
  <2>5. H \in Seq(Symbol)
    BY <2>4 DEF q
  <2> HIDE DEF H
  <2> DEFINE hp == H \o PairOf(given)
  <2>6. hp \in Seq(Symbol)
    BY <1>1, <2>5, ConcatProperties
  <2> HIDE DEF hp
  <2>7. (hp \o um) \o ap = hp \o (um \o ap)
    BY <1>2, <2>6, Joined
  <2> QED BY <1>5, <2>1, <2>7 DEF hp
<1>7. CASE ~given.prefix
  <2> DEFINE B == IF given.template THEN none ELSE BosOf(given)
  <2>1. B = BosOf(given) /\ pre = none /\ PairOf(given) = none
    <3>1. PairOf(given) = none
      BY <1>7 DEF PairOf
    <3>2. CASE given.template
      <4>1. ~given.bos
        BY <1>7, <3>2
      <4> QED BY <3>1, <3>2, <4>1 DEF BosOf
    <3>3. CASE ~given.template
      BY <1>7, <3>1, <3>3
    <3> QED BY <3>2, <3>3
  <2>2. BuildPrompt(mode, FALSE) = ((B \o b) \o um) \o ap
    BY <1>4, <1>7, BosIs DEF BuildPrompt
  <2> HIDE DEF B, pre, b, um, ap, none
  <2>3. BosOf(given) \o pre = B
    BY <1>1, <2>1
  <2>4. H = B \o b /\ B \o b \in Seq(Symbol)
    BY <1>1, <2>1, <2>3, ConcatProperties
  <2> DEFINE h == B \o b
  <2>5. h \in Seq(Symbol) /\ H = h
    BY <2>4
  <2> HIDE DEF H, h
  <2>6. H \o PairOf(given) = h
    BY <1>1, <2>1, <2>5
  <2>7. (h \o um) \o ap = h \o (um \o ap)
    BY <1>2, <2>5, Joined
  <2> QED BY <1>5, <2>2, <2>6, <2>7 DEF h
<1> QED BY <1>6, <1>7

\* whatever prompt it builds
LEMMA PromptToks ==
    ASSUME given \in ChatLaunch, NEW mode \in Modes, NEW rendered \in BOOLEAN
    PROVE  /\ BuildPrompt(mode, rendered) \in Seq(Symbol) /\ Len(BuildPrompt(mode, rendered)) > 0
           /\ rendered => BuildPrompt(mode, rendered)[1] = "rendered"
<1> DEFINE pre == IF mode = "max" /\ ~given.template THEN MaxPrefix ELSE <<>>
           b == SystemBlock(mode)
           um == UserMessage(0)
           ap == AssistantPrefix(mode)
           B == IF given.template THEN <<>> ELSE Bos
<1>1. /\ pre \in Seq(Symbol) /\ Bos \in Seq(Symbol) /\ b \in Seq(Symbol) /\ PromptPrefix \in Seq(Symbol)
      /\ um \in Seq(Symbol) /\ ap \in Seq(Symbol) /\ B \in Seq(Symbol)
  BY BosIs, BlockIs, EmptySeq, PartsIs
<1>2. Len(um) = 1
  BY DEF UserMessage
<1> HIDE DEF pre, b, um, ap, B
<1>3. \A x \in Seq(Symbol) : (x \o um) \o ap \in Seq(Symbol) /\ Len((x \o um) \o ap) > 0
  <2> SUFFICES ASSUME NEW x \in Seq(Symbol) PROVE (x \o um) \o ap \in Seq(Symbol) /\ Len((x \o um) \o ap) > 0
    OBVIOUS
  <2>0. um \in Seq(Symbol) /\ ap \in Seq(Symbol)
    BY <1>1
  <2> DEFINE y == x \o um
  <2>1. y \in Seq(Symbol) /\ Len(y) = Len(x) + 1 /\ Len(x) \in Nat
    <3>1. x \o um \in Seq(Symbol) /\ Len(x \o um) = Len(x) + Len(um) /\ Len(x) \in Nat
      BY <2>0, ConcatAt
    <3> QED BY <1>2, <3>1
  <2> HIDE DEF y
  <2>2. y \o ap \in Seq(Symbol) /\ Len(y \o ap) = Len(y) + Len(ap) /\ Len(ap) \in Nat
    BY <1>1, <2>1, ConcatAt
  <2> QED BY <2>1, <2>2 DEF y
<1>4. CASE rendered
  <2>1. BuildPrompt(mode, rendered) = <<"rendered">>
    BY <1>4 DEF BuildPrompt
  <2> QED BY <2>1 DEF Symbol
<1>5. CASE ~rendered /\ given.prefix
  <2> DEFINE x == ((Bos \o pre) \o b) \o PromptPrefix
  <2>1. BuildPrompt(mode, rendered) = (x \o um) \o ap
    BY <1>5 DEF BuildPrompt, pre, b, um, ap
  <2>2. x \in Seq(Symbol)
    <3> DEFINE p == Bos \o pre
    <3>1. p \in Seq(Symbol)
      BY <1>1, ConcatProperties
    <3> HIDE DEF p
    <3> DEFINE q == p \o b
    <3>2. q \in Seq(Symbol)
      BY <1>1, <3>1, ConcatProperties
    <3> HIDE DEF q
    <3>3. q \o PromptPrefix \in Seq(Symbol)
      BY <1>1, <3>2, ConcatProperties
    <3> QED BY <3>3 DEF p, q
  <2> HIDE DEF x
  <2> QED BY <1>3, <1>5, <2>1, <2>2
<1>6. CASE ~rendered /\ ~given.prefix
  <2> DEFINE x == B \o b
  <2>1. BuildPrompt(mode, rendered) = (x \o um) \o ap
    BY <1>6 DEF BuildPrompt, B, b, um, ap
  <2>2. x \in Seq(Symbol)
    BY <1>1, ConcatProperties
  <2> HIDE DEF x
  <2> QED BY <1>3, <1>6, <2>1, <2>2
<1> QED BY <1>4, <1>5, <1>6

\* SIGINT and the rest of the loop leave the bookkeeping of a turn alone
LEMMA TurnKept ==
    ASSUME NEW gv, NEW c, NEW l, NEW said, InTurn(gv, c, l, said), NEW m,
           m.len = l.len, m.images = l.images, m.id = l.id, m.mode = l.mode, m.generated = l.generated
    PROVE  InTurn(gv, c, m, said)
  BY DEF InTurn

LEMMA AllowanceIs ==
    ASSUME NEW s, SessExact(s), NEW ctx \in Nat
    PROVE  Allowance(s, ctx) \in Int
<1>1. Len(s.toks) \in Nat
  <2>1. s.toks \in Seq(Symbol)
    BY DEF SessExact, SessRecord
  <2> QED BY <2>1, LenProperties
<1>2. Predict \in Int
  BY CliAssumption
<1> QED BY <1>1, <1>2 DEF Allowance

LEMMA NoSpans == <<>> \in Spans /\ Ordered(<<>>)
<1>1. <<>> \in Spans /\ Len(<<>>) = 0
  BY EmptySeq DEF Spans
<1> QED BY <1>1 DEF Ordered

LEMMA CliStart == CliInit /\ Placed => CliInv
<1> SUFFICES ASSUME CliInit, Placed PROVE CliInv
  OBVIOUS
<1>1. /\ cliPc \in {"repl", "oneshot"} /\ given \in ChatLaunch /\ cfgMode \in Modes /\ (cfgMode = "max" => given.max)
      /\ turn = NoLive /\ turns = <<>>
  BY CliAssumption DEF CliInit
<1>2. PICK ctx \in CtxSizes : chat = Fresh(cfgMode, ctx)
  BY DEF CliInit
<1>3. ctx \in Nat
  BY CliAssumption
<1>4. chat \in ChatRecord /\ AtPrompt(given, chat, <<>>) /\ chat.images = <<>>
  BY <1>1, <1>2, <1>3, FreshIs DEF Placed
<1>5. SessExact(sess)
  <2>1. CASE cliPc = "oneshot" \/ ~given.prefix
    <3>1. sess = NoSession
      BY <2>1 DEF CliInit
    <3> QED BY <3>1, NothingSession
  <2>2. CASE ~(cliPc = "oneshot" \/ ~given.prefix)
    <3>1. PICK o \in SyncChat(NoSession, chat.toks, <<>>, chat.ctx) : sess = o.sess
      BY <2>2 DEF CliInit
    <3>2. chat.toks \in Seq(Symbol)
      BY <1>4 DEF ChatRecord
    <3> QED BY <3>1, <3>2, NoSpans, NothingSession, SyncIs
  <2> QED BY <2>1, <2>2
<1>6. turns \in Seq(TurnRecord) /\ turn \in LiveRecord
  BY <1>1, EmptySeq, NoLiveIs
<1> QED BY <1>1, <1>4, <1>5, <1>6 DEF CliInv, CliTypes, Placed

LEMMA SigintKeeps == CliInv /\ Sigint => CliInv'
  BY DEF CliInv, CliTypes, Placed, AsChat, Sigint

LEMMA PromptInterruptedKeeps == CliInv /\ PromptInterrupted => CliInv'
  BY DEF CliInv, CliTypes, Placed, AsChat, PromptInterrupted

LEMMA QuitKeeps == CliInv /\ Quit => CliInv'
  BY DEF CliInv, CliTypes, Placed, AsChat, Quit

LEMMA GenerationEndsKeeps == CliInv /\ GenerationEnds => CliInv'
  BY DEF CliInv, CliTypes, Placed, AsChat, GenerationEnds

LEMMA SampledEosKeeps == CliInv /\ SampledEos => CliInv'
<1> SUFFICES ASSUME CliInv, SampledEos PROVE CliInv'
  OBVIOUS
<1>1. /\ turn' = [turn EXCEPT !.max = 0] /\ turn \in LiveRecord
      /\ UNCHANGED <<cliPc, given, cfgMode, chat, sess, turns>>
  BY DEF SampledEos, CliInv, CliTypes
<1>2. /\ turn' \in LiveRecord /\ turn'.len = turn.len /\ turn'.images = turn.images /\ turn'.id = turn.id
      /\ turn'.mode = turn.mode /\ turn'.generated = turn.generated /\ turn'.max = 0 /\ turn.generated \in Nat
  BY <1>1 DEF LiveRecord
<1>3. cliPc = "decode" => InTurn(given, chat, turn', turns)
  BY <1>2, TurnKept DEF CliInv
<1>4. AsChat' = AsChat /\ Placed' = Placed
  BY <1>1, <1>2 DEF AsChat, Placed
<1> QED BY <1>1, <1>2, <1>3, <1>4 DEF CliInv, CliTypes

LEMMA ThinkKeeps ==
    ASSUME CliInv, NEW mode \in Modes, Think(mode)
    PROVE  CliInv'
<1> DEFINE c == [chat EXCEPT !.enabled = IF mode = "none" THEN "high" ELSE mode, !.thinking = mode # "none"]
<1>1. /\ cliPc = "repl" /\ given \in ChatLaunch /\ chat \in ChatRecord /\ SessExact(sess) /\ AtPrompt(given, chat, turns)
      /\ turn \in LiveRecord /\ turns \in Seq(TurnRecord) /\ Placed /\ (mode = "max" => given.max)
  BY DEF CliInv, CliTypes, Think
<1>2. (IF mode = "none" THEN "high" ELSE mode) \in {"high", "max"}
  BY DEF Modes
<1>3. /\ c \in ChatRecord /\ c.maxPrefix = chat.maxPrefix /\ c.sysPos = chat.sysPos /\ c.sysLen = chat.sysLen
      /\ c.sysMode = chat.sysMode /\ c.sysInit = chat.sysInit /\ c.toks = chat.toks /\ c.images = chat.images
      /\ c.enabled = (IF mode = "none" THEN "high" ELSE mode) /\ c.thinking = (mode # "none")
  BY <1>1, <1>2 DEF ChatRecord
<1> PICK v \in BOOLEAN : v = (mode = "max" /\ ThinkMode(c) = "max")
  OBVIOUS
<1>4. v <=> ThinkMode(c) = "max"
  <2>1. ThinkMode(c) = "max" => mode = "max"
    BY <1>3 DEF ThinkMode, Modes
  <2> QED BY <2>1
<1>b. Behind(given, c)
  <2>1. c.enabled = "max" => mode = "max"
    BY <1>3
  <2> QED BY <1>1, <2>1 DEF Behind, Placed
<1> DEFINE r == Realigned(c, sess, v)
<1>5. chat' = r.chat /\ sess' = r.sess
  BY DEF Think
<1>6. cfgMode' = mode /\ UNCHANGED <<cliPc, given, turn, turns>>
  BY DEF Think
<1> HIDE DEF c
<1>7. AtPrompt(given, r.chat, turns) /\ r.chat \in ChatRecord /\ SessExact(r.sess)
  BY <1>1, <1>3, <1>4, <1>b, Edited
<1> HIDE DEF r
<1> QED BY <1>1, <1>5, <1>6, <1>7 DEF CliInv, CliTypes, Placed

LEMMA ClearKeeps ==
    ASSUME CliInv, Clear
    PROVE  CliInv'
<1>1. /\ cliPc = "repl" /\ given \in ChatLaunch /\ cfgMode \in Modes /\ chat \in ChatRecord
      /\ turn \in LiveRecord
  BY DEF CliInv, CliTypes, Clear
<1>2. chat' = Fresh(cfgMode, chat.ctx) /\ turns' = <<>> /\ UNCHANGED <<cliPc, given, cfgMode, turn>>
  BY DEF Clear
<1>4. chat.ctx \in Nat
  BY <1>1 DEF ChatRecord
<1>5. chat' \in ChatRecord /\ AtPrompt(given, chat', <<>>)
  <2>1. cfgMode = "max" => given.bos \/ given.template
    BY DEF CliInv, CliTypes, Placed
  <2> QED BY <1>1, <1>2, <1>4, <2>1, FreshIs
<1>6. chat'.toks \in Seq(Symbol)
  BY <1>5 DEF ChatRecord
<1>7. SessExact(sess')
  <2>1. CASE given.prefix
    <3>1. PICK o \in SyncChat(NoSession, chat'.toks, <<>>, chat.ctx) : sess' = o.sess
      BY <2>1 DEF Clear
    <3> QED BY <1>6, <3>1, NoSpans, NothingSession, SyncIs
  <2>2. CASE ~given.prefix
    BY <2>2, NothingSession DEF Clear
  <2> QED BY <2>1, <2>2
<1> QED BY <1>1, <1>2, <1>5, <1>7, EmptySeq DEF CliInv, CliTypes, Placed

LEMMA SetCtxKeeps ==
    ASSUME CliInv, NEW ctx \in CtxSizes, SetCtx(ctx)
    PROVE  CliInv'
<1>1. /\ cliPc = "repl" /\ given \in ChatLaunch /\ chat \in ChatRecord /\ AtPrompt(given, chat, turns)
      /\ turn \in LiveRecord /\ turns \in Seq(TurnRecord) /\ cfgMode \in Modes
      /\ UNCHANGED <<given, cfgMode, turn, turns>>
  BY DEF CliInv, CliTypes, SetCtx
<1>2. ctx \in Nat
  BY CliAssumption
<1>3. CASE cliPc' = "exit" /\ chat' = [chat EXCEPT !.ctx = 0] /\ sess' = NoSession
  <2>1. chat' \in ChatRecord
    BY <1>1, <1>3 DEF ChatRecord
  <2> QED BY <1>1, <1>3, <2>1, NothingSession DEF CliInv, CliTypes, Placed
<1>4. CASE LET r == ForMode([chat EXCEPT !.ctx = ctx], NoSession)
           IN  chat' = r.chat /\ sess' = r.sess /\ cliPc' = cliPc
  <2> DEFINE c == [chat EXCEPT !.ctx = ctx]
             r == ForMode(c, NoSession)
  <2>1. chat' = r.chat /\ sess' = r.sess /\ cliPc' = cliPc
    BY <1>4
  <2>2. /\ c \in ChatRecord /\ c.maxPrefix = chat.maxPrefix /\ c.sysPos = chat.sysPos /\ c.sysLen = chat.sysLen
        /\ c.sysMode = chat.sysMode /\ c.sysInit = chat.sysInit /\ c.toks = chat.toks /\ c.images = chat.images
        /\ c.enabled = chat.enabled
    BY <1>1, <1>2 DEF ChatRecord
  <2> HIDE DEF c
  <2>3. AtPrompt(given, r.chat, turns) /\ r.chat \in ChatRecord /\ SessExact(r.sess)
    <3>1. Behind(given, c)
      BY <1>1, <2>2, BehindIs
    <3> QED BY <1>1, <2>2, <3>1, NothingSession, EditedForMode
  <2> HIDE DEF r
  <2> QED BY <1>1, <2>1, <2>3 DEF CliInv, CliTypes, Placed
<1> QED BY <1>3, <1>4 DEF SetCtx

LEMMA AddImageFailsKeeps ==
    ASSUME CliInv, cliPc = "repl", NEW r, AddImageFails(r), UNCHANGED <<given, cfgMode>>,
           AtPrompt(given, r.chat, turns), r.chat \in ChatRecord, SessExact(r.sess)
    PROVE  CliInv'
  BY DEF CliInv, CliTypes, Placed, AsChat, AddImageFails

LEMMA BeginTurnKeeps ==
    ASSUME CliInv, cliPc = "repl", NEW r, NEW id \in Ids, NEW mode \in Modes, NEW old \in BOOLEAN,
           BeginTurn(r, id, mode, old), UNCHANGED <<given, cfgMode>>,
           AtPrompt(given, r.chat, turns), r.chat \in ChatRecord, SessExact(r.sess)
    PROVE  CliInv'
<1> DEFINE d == r.chat
           c == [d EXCEPT !.toks = (d.toks \o UserMessage(id)) \o AssistantPrefix(mode),
                          !.images = IF id = 0 THEN d.images
                                     ELSE Append(d.images, [start |-> Len(d.toks) + 1, id |-> id])]
           l == [len |-> Len(d.toks), images |-> Len(d.images), thinking |-> old,
                 mode |-> mode, id |-> id, max |-> 0, generated |-> 0]
<1>1. given \in ChatLaunch /\ cfgMode \in Modes /\ turns \in Seq(TurnRecord) /\ turn \in LiveRecord
  BY DEF CliInv, CliTypes
<1>2. c \in ChatRecord /\ l \in LiveRecord /\ InTurn(given, c, l, turns) /\ Ordered(c.images)
  BY OpenedTurn
<1>3. PICK o \in SyncChat(r.sess, c.toks, c.images, c.ctx) :
         IF o.rc = 0
         THEN /\ chat' = c /\ sess' = o.sess /\ cliPc' = "decode"
              /\ turn' = [l EXCEPT !.max = Allowance(o.sess, c.ctx)]
              /\ UNCHANGED turns
         ELSE LET back == Rollback(c, o.sess, l)
              IN  chat' = back.chat /\ sess' = back.sess /\ UNCHANGED <<cliPc, turn, turns>>
  BY DEF BeginTurn
<1> HIDE DEF c, l, d
<1>4. c.toks \in Seq(Symbol) /\ c.images \in Spans /\ c.ctx \in Nat
  BY <1>2 DEF ChatRecord
<1>5. /\ SessExact(o.sess)
      /\ o.rc = 0 => o.sess.valid /\ o.sess.toks = c.toks /\ o.sess.seen = Labelled(c.toks, c.images)
  BY <1>2, <1>3, <1>4, SyncIs
<1>6. CASE o.rc = 0
  <2>1. /\ chat' = c /\ sess' = o.sess /\ cliPc' = "decode" /\ turn' = [l EXCEPT !.max = Allowance(o.sess, c.ctx)]
        /\ UNCHANGED turns
    BY <1>3, <1>6
  <2>2. Allowance(o.sess, c.ctx) \in Int
    BY <1>4, <1>5, AllowanceIs
  <2>3. /\ turn' \in LiveRecord /\ turn'.len = l.len /\ turn'.images = l.images /\ turn'.id = l.id
        /\ turn'.mode = l.mode /\ turn'.generated = l.generated
    BY <1>2, <2>1, <2>2 DEF LiveRecord
  <2>4. InTurn(given, c, turn', turns)
    BY <1>2, <2>3, TurnKept
  <2>5. Exact(c, o.sess)
    BY <1>5, <1>6 DEF Exact
  <2> QED BY <1>1, <1>2, <1>5, <2>1, <2>3, <2>4, <2>5 DEF CliInv, CliTypes, Placed
<1>7. CASE o.rc # 0
  <2>1. /\ chat' = Rollback(c, o.sess, l).chat /\ sess' = Rollback(c, o.sess, l).sess
        /\ UNCHANGED <<cliPc, turn, turns>>
    BY <1>3, <1>7
  <2>2. /\ AtPrompt(given, chat', turns) /\ chat' \in ChatRecord /\ sess' \in {o.sess, NoSession}
    BY <1>1, <1>2, <2>1, RollbackIs
  <2>3. SessExact(sess')
    BY <1>5, <2>2, Reset
  <2> QED BY <1>1, <2>1, <2>2, <2>3 DEF CliInv, CliTypes, Placed
<1> QED BY <1>6, <1>7

LEMMA TurnKeeps ==
    ASSUME CliInv, NEW id \in Ids, NEW control \in ThinkControls, Turn(id, control)
    PROVE  CliInv'
<1> DEFINE c == [chat EXCEPT !.thinking = Controlled(@, control)]
           r == ForMode(c, sess)
<1>1. /\ cliPc = "repl" /\ given \in ChatLaunch /\ chat \in ChatRecord /\ SessExact(sess) /\ AtPrompt(given, chat, turns)
      /\ UNCHANGED <<given, cfgMode>>
  BY DEF CliInv, CliTypes, Turn
<1>2. (id # 0 /\ AddImageFails(r)) \/ BeginTurn(r, id, ThinkMode(c), chat.thinking)
  BY DEF Turn
<1>3. chat.thinking \in BOOLEAN /\ Controlled(chat.thinking, control) \in BOOLEAN
  BY <1>1, ControlledIs DEF ChatRecord
<1>4. /\ c \in ChatRecord /\ c.maxPrefix = chat.maxPrefix /\ c.sysPos = chat.sysPos /\ c.sysLen = chat.sysLen
      /\ c.sysMode = chat.sysMode /\ c.sysInit = chat.sysInit /\ c.toks = chat.toks /\ c.images = chat.images
      /\ c.enabled = chat.enabled
  BY <1>1, <1>3 DEF ChatRecord
<1> HIDE DEF c
<1>5. AtPrompt(given, r.chat, turns) /\ r.chat \in ChatRecord /\ SessExact(r.sess)
  <2>1. Behind(given, c)
    BY <1>1, <1>4, BehindIs
  <2> QED BY <1>1, <1>4, <2>1, EditedForMode
<1>6. ThinkMode(c) \in Modes
  BY <1>4, ThinkModeIs
<1> HIDE DEF r
<1>7. CASE AddImageFails(r)
  BY <1>1, <1>5, <1>7, AddImageFailsKeeps
<1>8. CASE BeginTurn(r, id, ThinkMode(c), chat.thinking)
  BY <1>1, <1>3, <1>5, <1>6, <1>8, BeginTurnKeeps
<1> QED BY <1>2, <1>7, <1>8

LEMMA OneSampled == SubSeq(Sampled(2), 1, 1) = Sampled(1)
<1> DEFINE a == Sampled(1)
<1>1. a \in Seq(Symbol) /\ Len(a) = 1
  BY SampledIs
<1>2. a \o a = Sampled(2)
  <2>1. 1 \in Nat /\ 1 + 1 = 2
    OBVIOUS
  <2>2. Sampled(1) \o Sampled(1) = Sampled(1 + 1)
    BY <2>1, SampledMore
  <2> QED BY <2>1, <2>2
<1> HIDE DEF a
<1>3. SubSeq(a \o a, 1, Len(a)) = a
  BY <1>1, Halves
<1> QED BY <1>1, <1>2, <1>3 DEF a

\* what one pass of the loop adds to the transcript and to the session
LEMMA DecodeIs ==
    ASSUME SessExact(sess), chat \in ChatRecord, turn \in LiveRecord, NEW n \in 1..2, NEW eos \in BOOLEAN,
           eos => n = 2, Decode(n, eos)
    PROVE  /\ SessExact(sess')
           /\ \E k \in Nat : /\ chat' = [chat EXCEPT !.toks = chat.toks \o Sampled(k)]
                             /\ turn' = [turn EXCEPT !.generated = turn.generated + k, !.max = IF eos THEN 0 ELSE turn.max]
                             /\ Exact(chat, sess) /\ ~eos => Exact(chat', sess')
<1> DEFINE k == IF eos THEN 1 ELSE n
           kept == Sampled(k)
           all == IF eos THEN kept \o <<"eos">> ELSE kept
<1>1. k \in Nat /\ n \in Nat
  OBVIOUS
<1>2. kept \in Seq(Symbol) /\ Len(kept) = k /\ NoPad(kept)
  BY <1>1, SampledIs
<1>3. all \in Seq(Symbol) /\ NoPad(all)
  <2>1. <<"eos">> \in Seq(Symbol) /\ NoPad(<<"eos">>)
    BY DEF Symbol, NoPad
  <2> HIDE DEF kept
  <2>2. kept \o <<"eos">> \in Seq(Symbol) /\ NoPad(kept \o <<"eos">>)
    BY <1>2, <2>1, PlainJoin
  <2> QED BY <1>2, <2>2
<1>4. (IF eos THEN SubSeq(Sampled(n), 1, n - 1) ELSE Sampled(n)) = kept
  <2>1. CASE eos
    <3>1. n = 2 /\ n - 1 = 1
      BY <2>1
    <3> QED BY <2>1, <3>1, OneSampled
  <2>2. CASE ~eos
    BY <2>2
  <2> QED BY <2>1, <2>2
<1>5. /\ chat' = [chat EXCEPT !.toks = chat.toks \o kept]
      /\ sess' = [sess EXCEPT !.toks = sess.toks \o all, !.seen = sess.seen \o Labelled(all, <<>>)]
      /\ turn' = [turn EXCEPT !.generated = turn.generated + Len(kept), !.max = IF eos THEN 0 ELSE turn.max]
  BY <1>4 DEF Decode, Sampled
<1>6. turn' = [turn EXCEPT !.generated = turn.generated + k, !.max = IF eos THEN 0 ELSE turn.max]
  BY <1>2, <1>5
<1> HIDE DEF kept, all
<1>7. SessExact(sess') /\ sess'.toks = sess.toks \o all /\ sess'.seen = sess.seen \o Marked(all, 0) /\ sess'.valid = sess.valid
  BY <1>3, <1>5, SessGrown
<1>8. ASSUME Exact(chat, sess), ~eos PROVE Exact(chat', sess')
  <2>1. all = kept
    BY <1>8 DEF all
  <2>2. chat.toks \in Seq(Symbol) /\ chat.images \in Spans /\ 0 \in Ids
    BY DEF ChatRecord, Ids
  <2> DEFINE toks == chat.toks \o kept
  <2>3. toks \in Seq(Symbol)
    BY <1>2, <2>2, ConcatProperties
  <2>4. chat'.toks = toks /\ chat'.images = chat.images
    BY <1>5 DEF ChatRecord
  <2>5. Labelled(toks, chat.images) = Labelled(chat.toks, chat.images) \o Marked(kept, 0)
    BY <1>2, <2>2, LabelsThen
  <2>6. sess.valid /\ sess.toks = chat.toks /\ sess.seen = Labelled(chat.toks, chat.images)
    BY <1>8 DEF Exact
  <2>7. sess'.toks = toks /\ sess'.seen = Labelled(toks, chat.images) /\ sess'.valid
    BY <1>7, <2>1, <2>5, <2>6
  <2> HIDE DEF toks
  <2> QED BY <2>4, <2>7 DEF Exact
<1> QED BY <1>1, <1>5, <1>6, <1>7, <1>8 DEF kept

LEMMA DecodePassKeeps ==
    ASSUME CliInv, NEW n \in 1..2, NEW eos \in BOOLEAN, eos => n = 2, Decode(n, eos)
    PROVE  CliInv'
<1>1. /\ CliTypes /\ SessExact(sess) /\ chat \in ChatRecord /\ turn \in LiveRecord /\ given \in ChatLaunch
      /\ cliPc \in {"decode", "generate"} /\ turn.generated < turn.max
      /\ UNCHANGED <<cliPc, given, cfgMode, turns>> /\ Exact(chat, sess)
  BY DEF CliInv, CliTypes, Decode, Decoding
<1>2. SessExact(sess')
  BY <1>1, DecodeIs
<1>3. PICK k \in Nat : /\ chat' = [chat EXCEPT !.toks = chat.toks \o Sampled(k)]
                       /\ turn' = [turn EXCEPT !.generated = turn.generated + k, !.max = IF eos THEN 0 ELSE turn.max]
                       /\ Exact(chat, sess) /\ ~eos => Exact(chat', sess')
  BY <1>1, DecodeIs
<1>4. /\ turn' \in LiveRecord /\ turn'.len = turn.len /\ turn'.images = turn.images /\ turn'.id = turn.id
      /\ turn'.mode = turn.mode /\ turn'.generated = turn.generated + k /\ turn'.max = (IF eos THEN 0 ELSE turn.max)
      /\ turn'.generated \in Nat /\ turn.generated \in Nat
  <2> DEFINE g == turn.generated + k
             x == IF eos THEN 0 ELSE turn.max
  <2>1. turn \in LiveRecord /\ turn' = [turn EXCEPT !.generated = g, !.max = x]
    BY <1>1, <1>3
  <2>2. turn.generated \in Nat /\ g \in Nat /\ x \in Int
    BY <1>1 DEF LiveRecord
  <2> HIDE DEF g, x
  <2>3. /\ turn' \in LiveRecord /\ turn'.len = turn.len /\ turn'.images = turn.images /\ turn'.id = turn.id
        /\ turn'.mode = turn.mode /\ turn'.generated = g /\ turn'.max = x
    BY <2>1, <2>2 DEF LiveRecord
  <2> QED BY <2>2, <2>3 DEF g, x
<1>5. turn'.generated < turn'.max => Exact(chat', sess')
  <2>1. CASE eos
    BY <1>4, <2>1
  <2>2. CASE ~eos
    BY <1>1, <1>3, <2>2
  <2> QED BY <2>1, <2>2
<1>6. chat' \in ChatRecord /\ chat'.toks = chat.toks \o Sampled(k) /\ chat'.images = chat.images
  <2> DEFINE toks == chat.toks \o Sampled(k)
  <2>1. toks \in Seq(Symbol)
    <3>1. chat.toks \in Seq(Symbol) /\ Sampled(k) \in Seq(Symbol)
      BY <1>1, SampledIs DEF ChatRecord
    <3> QED BY <3>1, ConcatProperties
  <2>2. chat' = [chat EXCEPT !.toks = toks]
    BY <1>3
  <2> HIDE DEF toks
  <2>3. chat' \in ChatRecord /\ chat'.toks = toks /\ chat'.images = chat.images
    BY <1>1, <2>1, <2>2 DEF ChatRecord
  <2> QED BY <2>3 DEF toks
<1>7. CASE cliPc = "decode"
  <2>1. InTurn(given, chat, turn, turns)
    BY <1>7 DEF CliInv
  <2>2. turn \in LiveRecord /\ chat' = [chat EXCEPT !.toks = chat.toks \o Sampled(k)]
    BY <1>1, <1>3
  <2>3. InTurn(given, chat', turn', turns)
    <3>1. Longer(chat', chat, k) /\ Further(turn', turn, k)
      BY <1>4, <2>2 DEF Longer, Further
    <3> QED BY <2>1, <2>2, <3>1, TurnLonger
  <2> QED BY <1>1, <1>2, <1>4, <1>5, <1>6, <1>7, <2>3 DEF CliInv, CliTypes, Placed
<1>8. CASE cliPc = "generate"
  <2> DEFINE p == PromptOf(given, turn.mode)
             a == Sampled(turn.generated)
             b == Sampled(k)
  <2>0. turn.mode \in Modes /\ chat.toks \in Seq(Symbol) /\ a \in Seq(Symbol) /\ b \in Seq(Symbol)
    BY <1>1, <1>4, SampledIs DEF LiveRecord, ChatRecord
  <2>1. turn.id = 0 /\ (AsChat => chat.toks = p \o a) /\ chat.images = <<>> /\ Len(chat.toks) > 0
    BY <1>8 DEF CliInv
  <2>c. Len(chat'.toks) > 0 /\ chat'.toks[1] = chat.toks[1]
    <3>1. /\ Len(chat.toks \o b) = Len(chat.toks) + Len(b) /\ Len(chat.toks) \in Nat /\ Len(b) \in Nat
          /\ \A i \in 1..Len(chat.toks) : (chat.toks \o b)[i] = chat.toks[i]
      <4> HIDE DEF b
      <4> QED BY <2>0, ConcatAt
    <3>2. 1 \in 1..Len(chat.toks)
      BY <2>1, <3>1
    <3> HIDE DEF b
    <3>3. (chat.toks \o b)[1] = chat.toks[1] /\ Len(chat.toks \o b) > 0
      BY <2>1, <3>1, <3>2
    <3> QED BY <1>6, <3>3 DEF b
  <2>d. AsChat' <=> AsChat
    BY <1>1, <1>4, <2>c DEF AsChat
  <2>2. AsChat => p \in Seq(Symbol) /\ a \in Seq(Symbol) /\ b \in Seq(Symbol)
    BY <1>1, <2>0, PromptOfIs
  <2>3. a \o b = Sampled(turn'.generated)
    BY <1>4, SampledMore
  <2>4. AsChat => (p \o a) \o b = p \o (a \o b)
    <3> HIDE DEF p, a, b
    <3> QED BY <2>2, ThreeJoined
  <2>5. AsChat => chat'.toks = p \o Sampled(turn'.generated)
    BY <1>6, <2>1, <2>3, <2>4
  <2>6. /\ AsChat' => chat'.toks = PromptOf(given, turn'.mode) \o Sampled(turn'.generated)
        /\ turn'.id = 0 /\ chat'.images = <<>>
    BY <1>4, <1>6, <2>1, <2>5, <2>d
  <2> QED BY <1>1, <1>2, <1>4, <1>5, <1>6, <1>8, <2>6, <2>c DEF CliInv, CliTypes, Placed
<1> QED BY <1>1, <1>7, <1>8

LEMMA KeptIs ==
    ASSUME turns \in Seq(TurnRecord), turn \in LiveRecord, NEW closed \in BOOLEAN
    PROVE  Kept(closed) \in Seq(TurnRecord)
<1>1. [id |-> turn.id, mode |-> turn.mode, n |-> turn.generated, closed |-> closed] \in TurnRecord
  BY DEF LiveRecord, TurnRecord
<1> QED BY <1>1, AppendProperties DEF Kept

LEMMA DecodeFailsKeeps ==
    ASSUME CliInv, NEW broken \in BOOLEAN, DecodeFails(broken)
    PROVE  CliInv'
<1>1. /\ SessExact(sess) /\ chat \in ChatRecord /\ turn \in LiveRecord /\ given \in ChatLaunch /\ cfgMode \in Modes
      /\ turns \in Seq(TurnRecord) /\ cliPc \in {"decode", "generate"}
      /\ UNCHANGED <<given, cfgMode, chat>>
      /\ cliPc' = (IF cliPc = "generate" THEN "exit" ELSE "repl") /\ turn' = NoLive /\ turns' = Kept(FALSE)
      /\ sess' = IF broken THEN [sess EXCEPT !.valid = FALSE] ELSE sess
  BY DEF CliInv, CliTypes, DecodeFails, Decoding
<1>2. turns' \in Seq(TurnRecord) /\ turn' \in LiveRecord
  BY <1>1, KeptIs, NoLiveIs
<1>3. SessExact(sess')
  BY <1>1 DEF SessExact, SessRecord
<1>4. CASE cliPc = "decode"
  <2>1. InTurn(given, chat, turn, turns)
    BY <1>4 DEF CliInv
  <2>2. AtPrompt(given, chat, turns')
    BY <1>1, <2>1, TurnCut DEF Kept
  <2> QED BY <1>1, <1>2, <1>3, <1>4, <2>2 DEF CliInv, CliTypes, Placed
<1>5. CASE cliPc = "generate"
  BY <1>1, <1>2, <1>3, <1>5 DEF CliInv, CliTypes, Placed
<1> QED BY <1>1, <1>4, <1>5

LEMMA EndTurnKeeps == CliInv /\ EndTurn => CliInv'
<1> SUFFICES ASSUME CliInv, EndTurn PROVE CliInv'
  OBVIOUS
<1>1. /\ SessExact(sess) /\ chat \in ChatRecord /\ turn \in LiveRecord /\ given \in ChatLaunch /\ cfgMode \in Modes
      /\ turns \in Seq(TurnRecord) /\ cliPc = "decode"
      /\ UNCHANGED <<given, cfgMode>> /\ cliPc' = "repl" /\ turn' = NoLive
  BY DEF CliInv, CliTypes, EndTurn
<1>2. InTurn(given, chat, turn, turns) /\ turn' \in LiveRecord
  BY <1>1, NoLiveIs DEF CliInv
<1>3. CASE chat' = Rollback(chat, sess, turn).chat /\ sess' = NoSession /\ UNCHANGED turns
  <2>1. AtPrompt(given, chat', turns) /\ chat' \in ChatRecord
    BY <1>1, <1>2, <1>3, RollbackIs
  <2> QED BY <1>1, <1>2, <1>3, <2>1, NothingSession DEF CliInv, CliTypes, Placed
<1>4. CASE chat' = [chat EXCEPT !.toks = @ \o AssistantSuffix] /\ turns' = Kept(TRUE) /\ UNCHANGED sess
  <2>1. chat' = [chat EXCEPT !.toks = chat.toks \o AssistantSuffix]
    BY <1>4
  <2>2. AtPrompt(given, [chat EXCEPT !.toks = chat.toks \o AssistantSuffix], Kept(TRUE))
        /\ [chat EXCEPT !.toks = chat.toks \o AssistantSuffix] \in ChatRecord
    BY <1>1, <1>2, TurnClosed DEF Kept
  <2>3. turns' \in Seq(TurnRecord)
    BY <1>1, <1>4, KeptIs
  <2>4. AtPrompt(given, chat', turns') /\ chat' \in ChatRecord
    BY <1>4, <2>1, <2>2
  <2> QED BY <1>1, <1>2, <1>4, <2>3, <2>4 DEF CliInv, CliTypes, Placed
<1> QED BY <1>3, <1>4 DEF EndTurn

LEMMA GenerateKeeps ==
    ASSUME CliInv, NEW control \in ThinkControls, NEW rendered \in BOOLEAN, Generate(control, rendered)
    PROVE  CliInv'
<1> DEFINE mode == PromptMode(control, rendered)
           toks == BuildPrompt(mode, rendered)
<1>1. /\ SessExact(sess) /\ chat \in ChatRecord /\ turn \in LiveRecord /\ given \in ChatLaunch /\ cfgMode \in Modes
      /\ Placed /\ (cfgMode = "max" => given.max)
      /\ turns \in Seq(TurnRecord) /\ cliPc = "oneshot" /\ UNCHANGED <<given, cfgMode, turns>> /\ chat.images = <<>>
  BY DEF CliInv, CliTypes, Generate
<1>2. mode \in Modes
  BY <1>1 DEF PromptMode, Modes
<1>3. CASE cliPc' = "exit" /\ UNCHANGED <<chat, sess, turn>>
  BY <1>1, <1>3 DEF CliInv, CliTypes, Placed
<1>4. CASE \E o \in SyncChat(NoSession, toks, <<>>, chat.ctx) :
             /\ chat' = [chat EXCEPT !.toks = toks] /\ sess' = o.sess
             /\ cliPc' = IF o.rc = 0 THEN "generate" ELSE "exit"
             /\ turn' = [NoLive EXCEPT !.mode = mode, !.max = Allowance(o.sess, chat.ctx)]
  <2> HIDE DEF mode
  <2>1. PICK o \in SyncChat(NoSession, toks, <<>>, chat.ctx) :
             /\ chat' = [chat EXCEPT !.toks = toks] /\ sess' = o.sess
             /\ cliPc' = IF o.rc = 0 THEN "generate" ELSE "exit"
             /\ turn' = [NoLive EXCEPT !.mode = mode, !.max = Allowance(o.sess, chat.ctx)]
    BY <1>4
  <2>2. toks \in Seq(Symbol) /\ Len(toks) > 0 /\ (rendered => toks[1] = "rendered")
    BY <1>1, <1>2, PromptToks
  <2>a. ASSUME ~rendered, given.prefix \/ (IF given.template THEN ~given.bos ELSE mode # "max")
        PROVE  toks = PromptOf(given, mode)
    <3>1. toks = BuildPrompt(mode, FALSE)
      BY <2>a
    <3> QED BY <1>1, <1>2, <2>a, <3>1, PromptIs
  <2> HIDE DEF toks
  <2>3. /\ SessExact(o.sess)
        /\ o.rc = 0 => o.sess.valid /\ o.sess.toks = toks /\ o.sess.seen = Labelled(toks, <<>>)
    BY <2>1, <2>2, NoSpans, NothingSession, SyncIs
  <2>4. chat' \in ChatRecord /\ chat'.toks = toks /\ chat'.images = <<>>
    BY <1>1, <2>1, <2>2 DEF ChatRecord
  <2>5. Allowance(o.sess, chat.ctx) \in Int
    <3>1. chat.ctx \in Nat
      BY <1>1 DEF ChatRecord
    <3> QED BY <2>3, <3>1, AllowanceIs
  <2>6. turn' \in LiveRecord /\ turn'.id = 0 /\ turn'.mode = mode /\ turn'.generated = 0
    BY <1>2, <2>1, <2>5 DEF LiveRecord, NoLive, Ids
  <2>7. AsChat' => chat'.toks = PromptOf(given, turn'.mode) \o Sampled(turn'.generated)
    <3>1. toks \o <<>> = toks
      BY <2>2, ConcatEmptySeq
    <3>2. AsChat' => ~rendered /\ (given.prefix \/ (IF given.template THEN ~given.bos ELSE mode # "max"))
      BY <1>1, <2>2, <2>4, <2>6 DEF AsChat
    <3>3. AsChat' => toks = PromptOf(given, mode)
      BY <2>a, <3>2
    <3> QED BY <2>4, <2>6, <3>1, <3>3, SampledNone
  <2>8. cliPc' = "generate" => Exact(chat', sess')
    BY <2>1, <2>3, <2>4 DEF Exact
  <2>9. cliPc' \in {"generate", "exit"} /\ SessExact(sess')
    BY <2>1, <2>3
  <2> QED BY <1>1, <2>2, <2>4, <2>6, <2>7, <2>8, <2>9 DEF CliInv, CliTypes, Placed
<1> QED BY <1>3, <1>4 DEF Generate

LEMMA CliStutters == CliInv /\ UNCHANGED cliVars => CliInv'
  BY DEF CliInv, CliTypes, Placed, AsChat, cliVars

LEMMA CliStep == CliInv /\ [CliNext]_cliVars => CliInv'
<1> SUFFICES ASSUME CliInv, [CliNext]_cliVars PROVE CliInv'
  OBVIOUS
<1>1. CASE Sigint
  BY <1>1, SigintKeeps
<1>2. CASE PromptInterrupted
  BY <1>2, PromptInterruptedKeeps
<1>3. CASE Clear
  BY <1>3, ClearKeeps
<1>4. CASE Quit
  BY <1>4, QuitKeeps
<1>5. CASE SampledEos
  BY <1>5, SampledEosKeeps
<1>6. CASE EndTurn
  BY <1>6, EndTurnKeeps
<1>7. CASE GenerationEnds
  BY <1>7, GenerationEndsKeeps
<1>8. CASE \E control \in ThinkControls, rendered \in BOOLEAN : Generate(control, rendered)
  BY <1>8, GenerateKeeps
<1>9. CASE \E mode \in Modes : Think(mode)
  BY <1>9, ThinkKeeps
<1>10. CASE \E ctx \in CtxSizes : SetCtx(ctx)
  BY <1>10, SetCtxKeeps
<1>11. CASE \E id \in Images \cup {0}, control \in ThinkControls : Turn(id, control)
  <2>1. PICK id \in Ids, control \in ThinkControls : Turn(id, control)
    BY <1>11 DEF Ids
  <2> QED BY <2>1, TurnKeeps
<1>12. CASE \E n \in 1..2, eos \in BOOLEAN : (eos => n = 2) /\ (ChatTokens(n, eos) \/ OneshotTokens(n, eos))
  <2>1. PICK n \in 1..2, eos \in BOOLEAN : (eos => n = 2) /\ Decode(n, eos)
    BY <1>12 DEF ChatTokens, OneshotTokens
  <2> QED BY <2>1, DecodePassKeeps
<1>13. CASE \E broken \in BOOLEAN : DecodeFails(broken)
  BY <1>13, DecodeFailsKeeps
<1>14. CASE UNCHANGED cliVars
  BY <1>14, CliStutters
<1> QED BY <1>1, <1>2, <1>3, <1>4, <1>5, <1>6, <1>7, <1>8, <1>9, <1>10, <1>11, <1>12, <1>13, <1>14 DEF CliNext

\* the prompt on a command line and what was sampled after it, as the chat's first turn
LEMMA PromptAsTurn ==
    ASSUME given \in ChatLaunch, NEW mode \in Modes, NEW n \in Nat
    PROVE  Labelled(PromptOf(given, mode) \o Sampled(n), <<>>) =
               RenderedChat(mode, <<[id |-> 0, mode |-> mode, n |-> n, closed |-> FALSE]>>)
<1> DEFINE t == [id |-> 0, mode |-> mode, n |-> n, closed |-> FALSE]
           F == HeadOf(given, mode)
           op == Opening(0, mode)
           new == Sampled(n)
           text == (PairOf(given) \o op) \o new
           said == Append(<<>>, t)
<1>1. t \in TurnRecord /\ t.id = 0 /\ t.mode = mode /\ t.n = n /\ ~t.closed
  BY DEF TurnRecord, Ids
<1>2. /\ op \in Seq(Symbol) /\ new \in Seq(Symbol) /\ PairOf(given) \in Seq(Symbol)
  BY OpeningIs, SampledIs, BosIs
<1>3. said = <<t>>
  OBVIOUS
<1> HIDE DEF t, F, op, said, text, new
<1>4. /\ F \in Seq(Symbol) /\ NoPad(F)
      /\ RenderedChat(mode, said) = (Marked(F, 0) \o Marked(PairOf(given), 0)) \o SaidText(said)
  <2>1. said \in Seq(TurnRecord)
    BY <1>1, EmptySeq, AppendProperties DEF said
  <2> DEFINE pre == IF mode = "max" /\ ~given.template THEN 2 ELSE 0
             G == (BosOf(given) \o Pre(pre)) \o Block(given, IF given.template THEN mode ELSE "none")
  <2>2. /\ G \in Seq(Symbol) /\ NoPad(G)
        /\ RenderedChat(mode, said) = (Marked(G, 0) \o Marked(PairOf(given), 0)) \o SaidText(said)
    BY <2>1, RenderedIs
  <2>3. F = G
    BY DEF F, HeadOf
  <2> HIDE DEF G
  <2> QED BY <2>2, <2>3
<1>5. Says(given, text, <<>>, said)
  <2>1. NewSpans(<<>>, Len(PairOf(given)), t.id) = <<>>
    BY <1>1 DEF NewSpans
  <2>2. Says(given, (PairOf(given) \o Opening(t.id, t.mode)) \o Sampled(t.n), NewSpans(<<>>, Len(PairOf(given)), t.id), Append(<<>>, t))
    BY <1>1, NothingSaid, TurnSaid
  <2> QED BY <1>1, <2>1, <2>2 DEF said, op, text, new
<1>6. text \in Seq(Symbol) /\ said \in Seq(TurnRecord) /\ Labelled(text, <<>>) = Marked(PairOf(given), 0) \o SaidText(said)
  BY <1>5 DEF Says
<1>7. PromptOf(given, mode) \o new = F \o text
  <2> DEFINE a == PairOf(given) \o op
  <2>1. a \in Seq(Symbol) /\ (F \o PairOf(given)) \o op = F \o a
    <3>1. F \in Seq(Symbol) /\ PairOf(given) \in Seq(Symbol) /\ op \in Seq(Symbol)
      BY <1>2, <1>4
    <3> QED BY <3>1, Joined
  <2>2. PromptOf(given, mode) = (F \o PairOf(given)) \o op
    BY DEF PromptOf, F, op
  <2>3. (F \o a) \o new = F \o (a \o new)
    <3> HIDE DEF a
    <3> QED BY <1>2, <1>4, <2>1, ThreeJoined
  <2> QED BY <2>1, <2>2, <2>3 DEF text
<1>8. Labelled(F \o text, Shifted(<<>>, Len(F))) = Marked(F, 0) \o Labelled(text, <<>>)
  BY <1>4, <1>6, NoSpans, LabelsBehind
<1>9. Shifted(<<>>, Len(F)) = <<>>
  <2>1. Len(F) \in Nat
    BY <1>4, LenProperties
  <2>2. Shifted(<<>>, Len(F)) \in Spans /\ Len(Shifted(<<>>, Len(F))) = Len(<<>>)
    BY <2>1, NoSpans, FrameShift
  <2> QED BY <2>2, EmptySeq DEF Spans
<1>10. Marked(F, 0) \o (Marked(PairOf(given), 0) \o SaidText(said)) = (Marked(F, 0) \o Marked(PairOf(given), 0)) \o SaidText(said)
  <2>1. Marked(F, 0) \in Seq(Label) /\ Marked(PairOf(given), 0) \in Seq(Label)
    <3>1. 0 \in Ids
      BY DEF Ids
    <3> QED BY <1>2, <1>4, <3>1, MarkIs
  <2>2. SaidText(said) \in Seq(Label)
    BY <1>6, SaidTurnsIs
  <2> DEFINE x == Marked(F, 0)
             y == Marked(PairOf(given), 0)
             z == SaidText(said)
  <2>3. x \in Seq(Label) /\ y \in Seq(Label) /\ z \in Seq(Label)
    BY <2>1, <2>2
  <2> HIDE DEF x, y, z
  <2>4. (x \o y) \o z = x \o (y \o z)
    BY <2>3, ConcatAssociative
  <2> QED BY <2>4 DEF x, y, z
<1>11. RenderedChat(mode, said) = (Marked(F, 0) \o Marked(PairOf(given), 0)) \o SaidText(said)
  BY <1>4, <1>6
<1>12. Labelled(PromptOf(given, mode) \o new, <<>>) = RenderedChat(mode, said)
  BY <1>6, <1>7, <1>8, <1>9, <1>10, <1>11
<1> QED BY <1>3, <1>12 DEF t, new

LEMMA InvIsExact == CliInv => ChatExact
<1> SUFFICES ASSUME CliInv PROVE ChatExact
  OBVIOUS
<1>1. given \in ChatLaunch /\ chat \in ChatRecord /\ turn \in LiveRecord
  BY DEF CliInv, CliTypes
<1>2. ASSUME cliPc = "repl" PROVE Labelled(chat.toks, chat.images) = RenderedChat(ThinkMode(chat), turns)
  <2>1. AtPrompt(given, chat, turns)
    BY <1>2 DEF CliInv
  <2>2. PICK rest \in Seq(Symbol), rel \in Spans : Says(given, rest, rel, turns) /\ Framed(given, chat, rest, rel)
    BY <2>1 DEF AtPrompt
  <2>3. ThinkMode(chat) \in Modes /\ Heads(given, chat, ThinkMode(chat))
    BY <1>1, <2>1, ThinkModeIs DEF AtPrompt
  <2> QED BY <1>1, <2>2, <2>3, PromptRendered
<1>3. ASSUME cliPc = "generate", AsChat
      PROVE  Labelled(chat.toks, <<>>) =
                 RenderedChat(turn.mode, <<[id |-> 0, mode |-> turn.mode, n |-> turn.generated, closed |-> FALSE]>>)
  <2>1. chat.toks = PromptOf(given, turn.mode) \o Sampled(turn.generated)
    BY <1>3 DEF CliInv
  <2>2. turn.mode \in Modes /\ turn.generated \in Nat
    BY <1>1 DEF LiveRecord
  <2> QED BY <1>1, <2>1, <2>2, PromptAsTurn
<1>4. ASSUME Decoding PROVE sess.valid /\ sess.seen = Labelled(chat.toks, chat.images)
  BY <1>4 DEF CliInv, Decoding, Exact
<1> QED BY <1>2, <1>3, <1>4 DEF ChatExact

LEMMA LaunchStays == [CliNext]_cliVars => given' = given
  BY DEF CliNext, cliVars, Sigint, PromptInterrupted, Clear, Quit, SampledEos, EndTurn, GenerationEnds, Generate,
         Think, SetCtx, Turn, ChatTokens, OneshotTokens, Decode, DecodeFails

\* ChatInvariant: however the chat is started, unless Think Max is asked for without a BOS token or a
\* template to put its prefix behind, in every state the transcript is the head of its thinking mode
\* and the conversation behind it, with every span at its own pad, an open turn knows where it began,
\* and a session that is decoded from holds this transcript (repl_chat_apply_max_prefix,
\* repl_chat_sync_system, run_chat_turn, p36_session_sync_vision)
THEOREM ChatInvariant == CliSpec => [](Placed => CliInv)
<1>1. CliInit => (Placed => CliInv)
  BY CliStart
<1>2. (Placed => CliInv) /\ [CliNext]_cliVars => (Placed => CliInv)'
  <2> SUFFICES ASSUME Placed => CliInv, [CliNext]_cliVars, Placed' PROVE CliInv'
    OBVIOUS
  <2>1. Placed
    BY LaunchStays DEF Placed
  <2> QED BY <2>1, CliStep
<1> QED BY <1>1, <1>2, PTL DEF CliSpec

\* ChatIsExact: for every way to start the chat, every set of images and context sizes, every n_predict
\* and any number of turns, the transcript edited in place is the conversation rendered from scratch,
\* turns whose decode failed included, and the rows tokens are sampled from were computed from it; of
\* a launch that may put the Think Max prefix behind no BOS token it says nothing (ChatExact)
THEOREM ChatIsExact == CliSpec => []ChatExact
<1>1. (Placed => CliInv) => ChatExact
  BY InvIsExact DEF ChatExact
<1> QED BY <1>1, ChatInvariant, PTL
=============================================================================
