------------------------------ MODULE Quantize ------------------------------
(***************************************************************************)
(* gguf-tools/qwen36-quantize.c after its input is read: the plan (the     *)
(* type, size and offset of every tensor), the worker threads that share   *)
(* the rows of one tensor, and the output that replaces --out only when    *)
(* it is whole; a write may fail, a tensor may lack its importance matrix, *)
(* and the process may be killed anywhere.                                 *)
(*                                                                         *)
(* A file is the sequence of its bytes, each named for what it belongs to. *)
(***************************************************************************)
EXTENDS Integers, Sequences, FiniteSets, SequencesExt, FiniteSetsExt

CONSTANTS
    Inputs,         \* inputs: sequences of [kind, layer, type, rows, experts, imatrix]
    Workers,        \* threads
    ChunkRows,      \* rows per chunk: 16 MiB / row bytes
    Alignment,      \* of the tensor data
    MetaSize,       \* bytes of header, KV and tensor infos
    Q4Last          \* --q4-expert-last

RowBytes == [f32 |-> 5, f16 |-> 4, q8 |-> 3, q4 |-> 2, q2 |-> 1, iq2 |-> 1]

\* what a gguf says of a tensor
TensorInfo == [kind : STRING, layer : Int, type : DOMAIN RowBytes, rows : Nat, experts : Nat, imatrix : BOOLEAN]

\* convert_tensor has at least one thread and chunks of at least one row
ASSUME QuantizeAssumption ==
    /\ \A g \in Inputs : g \in Seq(TensorInfo)
    /\ Workers # {} /\ ChunkRows \in Nat \ {0} /\ Alignment \in Nat \ {0} /\ MetaSize \in Nat

VARIABLES
    input,          \* the tensors of the input
    synthetic,      \* --allow-synthetic-imatrix
    atomic,         \* the target is a regular file or none
    qPc,            \* "plan", "open", "tensor", "convert", "close", "exit", "killed"
    plan,           \* new_offset of the tensors planned so far, then the offset after them
    idx,            \* the tensor being written
    written,        \* bytes of the open file
    tmp, out,       \* what <out>.tmp and <out> hold: None, "old", or bytes
    job,            \* quant_job: next, and per row the matrix it was quantized with
    work            \* per worker: its claimed rows, or Idle, or Gone

qVars == <<input, synthetic, atomic, qPc, plan, idx, written, tmp, out, job, work>>

NoFile == <<"none">>
Old == <<"old">>
Idle == [r |-> 0, nr |-> 0]
Gone == [r |-> -1, nr |-> 0]

-----------------------------------------------------------------------------
(* The plan                                                                *)

Routed(t) == t.kind \in {"gate", "down"}
LastRouted == Max({t.layer : t \in {t \in Range(input) : Routed(t)}})
Q4Layer(layer) == Q4Last > 0 /\ layer > LastRouted - Q4Last

\* classify_tensor: the type a tensor is written with
TargetType(t) ==
    CASE Routed(t) /\ Q4Layer(t.layer) -> "q4"
      [] Routed(t) /\ ~Q4Layer(t.layer) /\ t.kind = "gate" -> "iq2"
      [] Routed(t) /\ ~Q4Layer(t.layer) /\ t.kind = "down" -> "q2"
      [] ~Routed(t) -> IF t.type = "f16" THEN "q8" ELSE t.type

AllRows(t) == t.rows * t.experts
TensorSize(t) == AllRows(t) * RowBytes[TargetType(t)]
Padded(n) == ((n + Alignment - 1) \div Alignment) * Alignment

DataOffset == Padded(MetaSize)
PlannedSize == DataOffset + plan[Len(plan)]

\* a tensor that is no longer in its source type must come from one that decodes
Quantizable(t) == TargetType(t) = t.type \/ t.type \in {"q8", "f16", "f32"}

-----------------------------------------------------------------------------
(* The output                                                              *)

Bytes(what, n) == [k \in 1..n |-> <<what, k>>]

\* exit(1): the atexit handler removes the temporary file
Die ==
    /\ qPc' = "exit"
    /\ tmp' = NoFile
    /\ out' = IF atomic \/ qPc = "plan" THEN out ELSE written
    /\ UNCHANGED <<input, synthetic, atomic, plan, idx, written, job, work>>

QInit ==
    /\ input \in Inputs /\ synthetic \in BOOLEAN /\ atomic \in BOOLEAN
    /\ qPc = "plan" /\ plan = <<0>> /\ idx = 1 /\ written = <<>>
    /\ tmp = NoFile /\ out \in {NoFile, Old}
    /\ atomic \/ out = Old
    /\ job = [next |-> 0, made |-> <<>>] /\ work = [w \in Workers |-> Gone]

\* make_plan, one tensor
PlanTensor ==
    /\ qPc = "plan" /\ Len(plan) <= Len(input)
    /\ LET t == input[Len(plan)]
       IN  Quantizable(t) /\ plan' = Append(plan, plan[Len(plan)] + Padded(TensorSize(t)))
    /\ UNCHANGED <<input, synthetic, atomic, qPc, idx, written, tmp, out, job, work>>

\* fopen
OpenOutput ==
    /\ qPc = "plan" /\ Len(plan) > Len(input)
    /\ qPc' = "open"
    /\ tmp' = IF atomic THEN written ELSE NoFile
    /\ UNCHANGED <<input, synthetic, atomic, plan, idx, written, out, job, work>>

\* the header up to the padding before the data
WriteHeader ==
    /\ qPc = "open"
    /\ qPc' = "tensor"
    /\ written' = Bytes("meta", MetaSize) \o Bytes("pad", DataOffset - MetaSize)
    /\ tmp' = IF atomic THEN written' ELSE NoFile
    /\ UNCHANGED <<input, synthetic, atomic, plan, idx, out, job, work>>

Tensor == input[idx]
Padding(t) == Bytes("pad", Padded(TensorSize(t)) - TensorSize(t))
Appended(data) ==
    /\ written' = written \o data \o Padding(Tensor)
    /\ tmp' = IF atomic THEN written' ELSE NoFile
    /\ idx' = idx + 1
    /\ UNCHANGED <<input, synthetic, atomic, plan, out>>

\* copy_bytes
CopyTensor ==
    /\ qPc = "tensor" /\ idx <= Len(input) /\ TargetType(Tensor) = Tensor.type
    /\ Appended(Bytes(idx, TensorSize(Tensor)))
    /\ UNCHANGED <<qPc, job, work>>

UsesImatrix(t) == TargetType(t) # "q8"
Synthetic(t) == ~t.imatrix /\ TargetType(t) = "iq2"

\* convert_tensor up to its threads
StartConvert ==
    /\ qPc = "tensor" /\ idx <= Len(input) /\ TargetType(Tensor) # Tensor.type
    /\ Synthetic(Tensor) => synthetic
    /\ qPc' = "convert"
    /\ job' = [next |-> 0, made |-> [r \in 0..AllRows(Tensor) - 1 |-> {}]]
    /\ work' = [w \in Workers |-> Idle]
    /\ UNCHANGED <<input, synthetic, atomic, plan, idx, written, tmp, out>>

\* is there one matrix per expert, so that a chunk must not span two experts
PerExpert(t) == UsesImatrix(t) /\ ~Synthetic(t) /\ t.experts > 1

\* Mutant: a chunk may run into the next expert
ClaimedUnclamped(t, r) == IF AllRows(t) - r < ChunkRows THEN AllRows(t) - r ELSE ChunkRows

\* the rows a worker claims at r
Claimed(t, r) ==
    LET nr == IF AllRows(t) - r < ChunkRows THEN AllRows(t) - r ELSE ChunkRows
        left == t.rows - (r % t.rows)
    IN  IF PerExpert(t) /\ nr > left THEN left ELSE nr

\* quant_worker: the critical section
Claim(w) ==
    /\ qPc = "convert" /\ work[w] = Idle
    /\ IF job.next >= AllRows(Tensor)
       THEN work' = [work EXCEPT ![w] = Gone] /\ UNCHANGED job
       ELSE LET nr == Claimed(Tensor, job.next)
            IN  /\ work' = [work EXCEPT ![w] = [r |-> job.next, nr |-> nr]]
                /\ job' = [job EXCEPT !.next = @ + nr]
    /\ UNCHANGED <<input, synthetic, atomic, qPc, plan, idx, written, tmp, out>>

\* the matrix imatrix_row returns for a row
MatrixOf(t, r) ==
    IF ~UsesImatrix(t) THEN <<"none", 0>>
    ELSE IF Synthetic(t) THEN <<"energy", 0>>
    ELSE IF ~t.imatrix THEN <<"none", 0>>
    ELSE IF t.experts > 1 THEN <<"expert", r \div t.rows>> ELSE <<"tensor", 0>>

\* quant_worker: decode and quantize the chunk, outside the lock
QuantizeChunk(w) ==
    /\ qPc = "convert" /\ work[w] \notin {Idle, Gone}
    /\ LET c == work[w]
       IN  job' = [job EXCEPT !.made = [r \in DOMAIN @ |->
                     IF r \in c.r .. c.r + c.nr - 1 THEN @[r] \cup {MatrixOf(Tensor, c.r)} ELSE @[r]]]
    /\ work' = [work EXCEPT ![w] = Idle]
    /\ UNCHANGED <<input, synthetic, atomic, qPc, plan, idx, written, tmp, out>>

\* every thread joined: the tensor is written
EndConvert ==
    /\ qPc = "convert" /\ \A w \in Workers : work[w] = Gone
    /\ qPc' = "tensor"
    /\ Appended(Bytes(idx, TensorSize(Tensor)))
    /\ UNCHANGED <<job, work>>

\* the size check and fclose
CloseOutput ==
    /\ qPc = "tensor" /\ idx > Len(input) /\ Len(written) = PlannedSize
    /\ qPc' = "close"
    /\ UNCHANGED <<input, synthetic, atomic, plan, idx, written, tmp, out, job, work>>

\* rename over --out
RenameOutput ==
    /\ qPc = "close"
    /\ qPc' = "exit" /\ out' = written /\ tmp' = NoFile
    /\ UNCHANGED <<input, synthetic, atomic, plan, idx, written, job, work>>

\* fopen, fwrite, fclose or rename fails, a thread cannot start, a check fails
QuantizeFails == qPc \notin {"exit", "killed"} /\ Die

\* a signal kills the process: the temporary file stays. After a power cut the renamed file may be
\* short, since nothing syncs it; that is outside this model
Killed ==
    /\ qPc \notin {"exit", "killed"}
    /\ qPc' = "killed"
    /\ out' = IF atomic \/ qPc = "plan" THEN out ELSE written
    /\ UNCHANGED <<input, synthetic, atomic, plan, idx, written, tmp, job, work>>

QNext ==
    \/ PlanTensor \/ OpenOutput \/ WriteHeader \/ CopyTensor \/ StartConvert \/ EndConvert \/ CloseOutput \/ RenameOutput
    \/ QuantizeFails \/ Killed
    \/ \E w \in Workers : Claim(w) \/ QuantizeChunk(w)

QSpec == QInit /\ [][QNext]_qVars

-----------------------------------------------------------------------------
(* Properties                                                              *)

\* where a reader of the plan finds the bytes of tensor i
At(file, i) == SubSeq(file, DataOffset + plan[i] + 1, DataOffset + plan[i] + TensorSize(input[i]))

\* OutputWhole: however the threads take turns, whatever fails and wherever the process is killed,
\* every row of a converted tensor was quantized once, with the matrix of its own expert
\* (quant_worker's clamp); --out is what it was before or a file in which every tensor lies where
\* its info says (make_plan against write_gguf); and no failure leaves the temporary file behind
\* ("a failed or interrupted run never leaves a truncated GGUF at the final path")
OutputWhole ==
    /\ (qPc = "convert" /\ \A w \in Workers : work[w] = Gone) =>
          \A r \in DOMAIN job.made : job.made[r] = {MatrixOf(Tensor, r)}
    /\ atomic => \/ out \in {NoFile, Old}
                 \/ Len(out) = PlannedSize /\ \A i \in 1..Len(input) : At(out, i) = Bytes(i, TensorSize(input[i]))
    /\ qPc = "exit" => tmp = NoFile
=============================================================================
