------------------------------- MODULE KvStore -------------------------------
(***************************************************************************)
(* The shared checkpoint store (p36_kvstore.c): a directory of files named *)
(* after the hash of a text, its budget and eviction, and the choice of a  *)
(* checkpoint for a prompt by its bytes.                                   *)
(*                                                                         *)
(* The hash of a text is the text.  Tokens have spellings, and one text    *)
(* may be spelled by several token sequences: the lookup goes by bytes,    *)
(* the payload holds tokens.  Calls are atomic: one process uses a store.  *)
(***************************************************************************)
EXTENDS Integers, Sequences, FiniteSets, SequencesExt

CONSTANTS
    Spell,          \* p36_token_text: the bytes of each token
    TokensOf,       \* p36_tokenize_rendered_chat: the tokens of each text
    Histories,      \* the token histories a session may have
    StorePrompts,   \* the texts looked up
    Engines,        \* what may open the store: [model, quant, ctx]
    MinTokens, Trim, Align, Interval,   \* p36_kvstore_options
    Reject,         \* reject_different_quant
    StoreBudget,    \* budget_bytes
    HeaderBytes, TokenBytes, TrailerBytes,   \* what a file is made of
    MaxTime         \* bound: half lives that pass

\* p36_kvstore_render_tokens_text
Render(tokens) ==
    LET text[i \in 0..Len(tokens)] == IF i = 0 THEN <<>> ELSE text[i - 1] \o Spell[tokens[i]]
    IN  text[Len(tokens)]

\* The part of a prompt after i of its bytes
From(text, i) == SubSeq(text, i + 1, Len(text))

\* Whatever of a prompt is tokenized spells that part of it
ASSUME KsAssumption ==
    /\ Spell \in [DOMAIN Spell -> Seq(Nat)]
    /\ Histories \subseteq Seq(DOMAIN Spell) /\ StorePrompts \subseteq Seq(Nat)
    /\ \A text \in StorePrompts : \A i \in 0..Len(text) :
           LET tokens == TokensOf[From(text, i)]
           IN  tokens \in Seq(DOMAIN Spell) /\ Render(tokens) = From(text, i)
    /\ Engines \subseteq [model : Nat, quant : Nat, ctx : Nat]
    /\ MinTokens \in Nat /\ StoreBudget \in Nat
    /\ HeaderBytes \in Nat /\ TokenBytes \in Nat /\ TrailerBytes \in Nat

VARIABLES
    dir,            \* the files, by text
    engine,         \* the engine whose session is stored and loaded
    live,           \* p36_session_tokens
    lastStore,      \* continued_last_store_tokens
    held,           \* the suppressed continued store: <<old, tokens>> or <<>>
    now,            \* time(NULL), in half lives of a hit
    ret             \* the last call and what it returned

ksVars == <<dir, engine, live, lastStore, held, now, ret>>

NoCall == [op |-> "none", key |-> <<>>, ok |-> FALSE, clean |-> FALSE, eff |-> <<>>]

KsInit ==
    /\ dir = <<>> /\ engine \in Engines /\ live = <<>>
    /\ lastStore = 0 /\ held = <<>> /\ now = 0 /\ ret = NoCall

Unlink(d, ks) == [k \in DOMAIN d \ ks |-> d[k]]

-----------------------------------------------------------------------------
(* Sizes and scores                                                        *)

FileBytes(k, f) ==
    HeaderBytes + Len(k) + TokenBytes * Len(f.tokens) + (IF f.trailer THEN TrailerBytes ELSE 0)

\* kv_cache_budget_required: 1% more, rounded up
FitsBudget(bytes) ==
    bytes + bytes \div 100 + (IF bytes % 100 = 0 THEN 0 ELSE 1) <= StoreBudget

\* the bytes of all files
Spaces(d) == UNION {{k} \X (1..FileBytes(k, d[k])) : k \in DOMAIN d}
TotalBytes(d) == Cardinality(Spaces(d))

SameQuant(f, e) == Reject => f.quant = e.quant

\* A continued checkpoint on the way to the one that is coming
Superseded(k, f, text) ==
    /\ f.reason = "continued" /\ Len(k) \in 1..(Len(text) - 1)
    /\ f.model = engine.model /\ SameQuant(f, engine)
    /\ engine.ctx <= f.ctx
    /\ IsPrefix(k, text)

\* p36_kvstore_entry_eviction_score times 800 times the size of the file; hits
\* count in eighths, halved with every half life
Worth(k, f, text) ==
    LET hits == (8 * f.hits) \div 2^(now - f.used)
        anchor == IF f.reason \in {"cold", "evict", "shutdown"} THEN 2 ELSE 1
        share == IF Superseded(k, f, text) THEN 5 * (hits + 8) + 45 * hits
                 ELSE 100 * (hits + 8)
    IN  anchor * share * Len(f.tokens)

WorthLess(a, b, d, text) ==
    LET x == Worth(a, d[a], text) * FileBytes(b, d[b])
        y == Worth(b, d[b], text) * FileBytes(a, d[a])
    IN  x < y \/ (x = y /\ d[a].used < d[b].used)

\* The directories the loop of p36_kvstore_evict may leave: a file it cannot
\* unlink ends it
EvictTo(d, target, text) ==
    LET worst(x) == {k \in DOMAIN x : \A j \in DOMAIN x : ~WorthLess(j, k, x, text)}
        left[n \in 0..Cardinality(DOMAIN d)] ==
            IF n = 0 THEN {d}
            ELSE UNION {{Unlink(x, {k}) : k \in worst(x)} : x \in {y \in left[n - 1] : TotalBytes(y) > target}}
    IN  {[dir |-> x, clean |-> TotalBytes(x) <= target] : x \in UNION {left[n] : n \in DOMAIN left}}

\* Mutant: the file that is coming is not counted
EvictNothingExtra(d, extra, text) == EvictTo(d, StoreBudget, text)

p36_kvstore_evict(d, extra, text) ==
    IF extra > StoreBudget THEN {[dir |-> d, clean |-> TRUE]}
    ELSE EvictTo(d, StoreBudget - extra, text)

-----------------------------------------------------------------------------
(* When to store                                                           *)

\* p36_kvstore_store_len
StoreLen(n) ==
    LET stable == (n - Trim) - (IF Align > 0 THEN (n - Trim) % Align ELSE 0)
    IN  IF n > MinTokens + Trim /\ stable >= MinTokens THEN stable ELSE n

\* kv_cache_continued_step: the interval, rounded up to the alignment
ContinuedStep == IF Align > 0 THEN ((Interval + Align - 1) \div Align) * Align ELSE Interval

ContinuedTarget(n) ==
    IF ContinuedStep > 0 /\ n >= MinTokens /\ n % ContinuedStep = 0 /\ n > lastStore THEN n ELSE 0

Noted(n) == IF n > lastStore THEN n ELSE lastStore

\* p36_kvstore_suppress_continued_store and its undo around a cold store
Suppress ==
    /\ held = <<>> /\ ContinuedTarget(Len(live)) # 0
    /\ held' = <<lastStore, Len(live)>> /\ lastStore' = Noted(Len(live))
    /\ ret' = NoCall /\ UNCHANGED <<dir, engine, live, now>>

RestoreSuppressed ==
    /\ held # <<>>
    /\ lastStore' = (IF lastStore = held[2] THEN held[1] ELSE lastStore)
    /\ held' = <<>>
    /\ ret' = NoCall /\ UNCHANGED <<dir, engine, live, now>>

-----------------------------------------------------------------------------
(* Storing                                                                 *)

Checkpoint(tokens, reason, trailer, visible) ==
    [model |-> engine.model, quant |-> engine.quant, ctx |-> engine.ctx, reason |-> reason,
     tokens |-> tokens, hits |-> 0, used |-> now, trailer |-> trailer, visible |-> visible,
     bad |-> FALSE]

\* Mutant: a file of a larger context counts as usable
CompatibleAnyCtx(f) == f.model = engine.model /\ SameQuant(f, engine)

\* kv_cache_existing_compatible
Compatible(f) ==
    /\ f.model = engine.model /\ SameQuant(f, engine)
    /\ f.ctx <= engine.ctx

Returns(op, k, ok, clean, eff) ==
    ret' = [op |-> op, key |-> k, ok |-> ok, clean |-> clean, eff |-> eff]

\* A usable file of that text only gets its trailer again
StoreAgain(k, trailer) ==
    /\ k \in DOMAIN dir /\ Compatible(dir[k])
    /\ dir' = IF trailer THEN [dir EXCEPT ![k].trailer = TRUE, ![k].used = now] ELSE dir
    /\ Returns("store", k, TRUE, FALSE, <<>>)

\* An unusable one goes; the payload is staged, room is made, the file written
\* under another name and renamed. Each may fail.
StoreFile(k, f) ==
    LET rest == Unlink(dir, {k})
        bytes == FileBytes(k, f)
        failed == Returns("store", k, FALSE, FALSE, <<>>)
    IN  /\ ~(k \in DOMAIN dir /\ Compatible(dir[k]))
        /\ \/ dir' = rest /\ failed
           \/ /\ FitsBudget(bytes)
              /\ \E e \in p36_kvstore_evict(rest, bytes, k) :
                    \/ dir' = e.dir /\ failed
                    \/ /\ dir' = [j \in (DOMAIN e.dir) \cup {k} |-> IF j = k THEN f ELSE e.dir[j]]
                       /\ Returns("store", k, TRUE, e.clean, <<>>)

\* p36_kvstore_store_live_prefix_text: a visible text may stand for the tokens.
\* Tokens must be all of the live ones; too few are not stored.
Store(tokens, reason, text, trailer) ==
    /\ Len(tokens) >= MinTokens /\ tokens = live
    /\ LET k == IF text = <<>> THEN Render(tokens) ELSE text
           f == Checkpoint(tokens, reason, trailer, text # <<>>)
       IN  StoreAgain(k, trailer) \/ StoreFile(k, f)
    /\ UNCHANGED <<engine, live, held, now>>

StoreCold(reason, text, trailer) ==
    /\ Store(SubSeq(live, 1, StoreLen(Len(live))), reason, text, trailer)
    /\ UNCHANGED lastStore

\* p36_kvstore_maybe_store_continued
MaybeStoreContinued ==
    /\ ContinuedTarget(Len(live)) # 0
    /\ Store(live, "continued", <<>>, FALSE)
    /\ lastStore' = IF ret'.ok THEN Noted(Len(live)) ELSE lastStore

-----------------------------------------------------------------------------
(* Loading                                                                 *)

Usable(k, text) ==
    LET f == dir[k]
    IN  /\ IsPrefix(k, text) /\ Len(f.tokens) >= MinTokens
        /\ f.model = engine.model /\ f.ctx <= engine.ctx /\ SameQuant(f, engine)

\* p36_kvstore_find_text_prefix: the longest
FindTextPrefix(text) == {k \in DOMAIN dir : Usable(k, text)
                            /\ \A j \in DOMAIN dir : Usable(j, text) => Len(j) <= Len(k)}

\* Mutant: the suffix is cut by tokens instead of bytes
SuffixByTokens(k, f, text) == From(text, Len(f.tokens))

\* The part of the prompt that is tokenized again
Suffix(k, f, text) == From(text, Len(k))

\* p36_kvstore_try_load_text. A damaged text is noticed before the session is
\* touched; a damaged payload costs it its checkpoint. The file is unlinked only
\* when the payload loads as another number of tokens than the header says.
TryLoad(text) ==
    /\ FindTextPrefix(text) # {}
    /\ \E k \in FindTextPrefix(text) :
          IF dir[k].bad THEN
              /\ \/ live' \in {live, <<>>} /\ UNCHANGED dir
                 \/ live' = <<>> /\ dir' = Unlink(dir, {k})
              /\ Returns("load", text, FALSE, FALSE, <<>>) /\ UNCHANGED lastStore
          ELSE /\ live' = dir[k].tokens /\ lastStore' = Len(dir[k].tokens)
               /\ dir' = [dir EXCEPT ![k].hits = IF @ = 0 THEN 1 ELSE @, ![k].used = now]
               /\ Returns("load", text, TRUE, dir[k].visible,
                          dir[k].tokens \o TokensOf[Suffix(k, dir[k], text)])
    /\ UNCHANGED <<engine, held, now>>

TryLoadMiss(text) ==
    /\ FindTextPrefix(text) = {} /\ Returns("load", text, FALSE, FALSE, <<>>)
    /\ UNCHANGED <<dir, engine, live, lastStore, held, now>>

-----------------------------------------------------------------------------
(* The rest of the program, the disk and time                              *)

\* p36_kvstore_open by another engine
Reopen(e) ==
    /\ e # engine /\ engine' = e /\ live' = <<>> /\ lastStore' = 0 /\ held' = <<>>
    /\ \E x \in p36_kvstore_evict(dir, 0, <<>>) : dir' = x.dir
    /\ ret' = NoCall /\ UNCHANGED now

Run(h) ==
    /\ h # live /\ live' = h /\ ret' = NoCall
    /\ UNCHANGED <<dir, engine, lastStore, held, now>>

Corrupt(k) ==
    /\ ~dir[k].bad /\ dir' = [dir EXCEPT ![k].bad = TRUE] /\ ret' = NoCall
    /\ UNCHANGED <<engine, live, lastStore, held, now>>

Pass ==
    /\ now < MaxTime /\ now' = now + 1 /\ ret' = NoCall
    /\ UNCHANGED <<dir, engine, live, lastStore, held>>

KsNext ==
    \/ Suppress \/ RestoreSuppressed \/ MaybeStoreContinued \/ Pass
    \/ \E text \in {<<>>} \cup StorePrompts, trailer \in BOOLEAN : StoreCold("cold", text, trailer)
    \/ \E text \in StorePrompts : TryLoad(text) \/ TryLoadMiss(text)
    \/ \E e \in Engines : Reopen(e)
    \/ \E h \in Histories : Run(h)
    \/ \E k \in DOMAIN dir : Corrupt(k)

KsSpec == KsInit /\ [][KsNext]_ksVars

-----------------------------------------------------------------------------
(* Properties                                                              *)

\* What is loaded, followed by what is tokenized again, spells the prompt, however
\* the checkpoint's tokens spell its text; a checkpoint kept under a visible text
\* stands for tokens that spell something else (p36_kvstore_try_load_text).
LoadSpellsPrompt ==
    ret.op = "load" /\ ret.ok =>
       /\ IsPrefix(live, ret.eff)
       /\ ~ret.clean => Render(ret.eff) = ret.key

\* What a store reports as stored, the same engine finds for that text: whatever
\* made an older file count as good enough makes it usable
\* (kv_cache_existing_compatible, p36_kvstore_find_text_prefix).
StoredIsFound == ret.op = "store" /\ ret.ok => FindTextPrefix(ret.key) = {ret.key}

\* A new checkpoint leaves the directory within its budget, unless a file could
\* not be unlinked (p36_kvstore_evict, p36_kvstore_file_size_fits).
StoreWithinBudget == ret.op = "store" /\ ret.ok /\ ret.clean => TotalBytes(dir) <= StoreBudget
=============================================================================
