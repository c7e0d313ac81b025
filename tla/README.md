# PreonStar: TLA+ models

PreonStar (`p36`) is a local inference engine for one model family: a GGUF
loader, CPU, Vulkan and Metal forward passes, a session layer with reusable
checkpoints, an OpenAI/Anthropic compatible HTTP server, an interactive agent, a
command-line client, an evaluation and a benchmark program, and a quantizer.
This directory models the parts that carry state through hard sequences of
events: the server in `--batched-session N` mode, where N resident sessions
share one model; the structures it and the agent share (job queue, cache
directory, model catalog, tool-call memory, radix tree, checkpoint store); and
the programs around it, which talk to terminals, networks, browsers and disks.

Paths below are relative to the repository (`src/server/...`); PROJECT.json maps
every definition to its lines.

## Inventory

| Part | State | Operations | Meets |
| --- | --- | --- | --- |
| Session (`core_18`, `core_19`) | checkpoint tokens, `checkpoint_valid`, KV rows and recurrent state, logits | sync, prefill range, eval, batch eval, rewrite, invalidate, save/load payload | called by every slot thread and by the coordinator |
| Model turns (`server_14`) | `model_busy`, `decode_pending`, `active_generations`, `last_prefill_slot`, the slots' request flags, `inference_mu` | prefill enter/leave, generation enter/leave, eval token, `decode_worker_main`, cancel at shutdown | slot threads and coordinator, through `model_mu`/`model_cv` |
| Job queue (`server_15`, `server_16`) | `head..tail`, `slot->assigned`, `slot->busy`, `stopping`, `job.done` | enqueue, dispatch, take, signal, release | client threads and slot threads, through `mu`/`cv` |
| `generate_job` (`server_15`) | where a request is: setup, prefill, decode, canonicalize, respond | one long sequence of calls with about a dozen early exits | all of the above, the disk cache, the tool memory |
| Server life (`server_17`, `server_00`) | `g_stop_requested`, thread handles, client count | accept, signal, stop, cancel, join, close | everyone |
| Disk KV cache (`server_12`, `server_13`) | checkpoint files with hits and times, a byte budget | open/sweep, store (tmp + rename), evict, find, load, rewrite the tool map | sessions under `inference_mu`; other servers on the same directory |
| Model catalog (`server_16`) | resident model, `swap_lock` | swap, reload on failure | client threads |
| Tool memory (`server_11`) | LRU of remembered tool calls | put, get, prune | parsing threads and slot threads |
| Radix tree (`rax.c`) | nodes, inline values and their bitmap, iterators | insert, remove, find, seek and step, defragmentation pass | indexes of the tool memory |
| Checkpoint store (`p36_kvstore.c`) | files by the hash of a text, a budget, intervals | store, evict, find by text, load | agent, its worker |
| Expert streaming (`p36_ssd.c`, `core_09`, `core_17`, `vk_04`) | cache budget, reservations of sessions, device slab | plan, open, preload, create and free sessions, allocate with retries | engine, sessions, device |
| Line editor (`linenoise.c`) | buffer, folds, history, rows on the screen | keys and pastes byte by byte, completion, refresh | client and agent terminals |
| Command-line client (`p36_cli.c`) | transcript, image spans, session | chat turns, /commands, interrupts, one-shot generation, the token printer | session, line editor |
| Loop guard, prefix, tool text (`p36_loopguard.h`, `p36_prompt_prefix.c`, `p36_tool_text.h`) | a window of text, counters | feed a token, parse, escape | agent and server decode loops |
| Remote client (`p36_remote.c`) | header, chunk and line state of one reply | connect, receive a segment, close, time out | a server elsewhere |
| Web tools (`p36_web.c`) | browser process, tab, DevTools socket | start, stop, kill, navigate, extract, close | a browser |
| Evaluation (`p36_eval.c`) | case states, keys, budgets, trace file | run, switch, pause, quit, retry, grade, regrade | key thread, session |
| Benchmark (`p36_bench.c`) | session, frontier, rows | prefill, decode, restore | session |
| Quantizer (`qwen36-quantize.c`) | plan, row counter, temporary file | plan, convert with threads, write, rename | disk |
| Agent (`src/agent`) | worker commands, transcript, sessions on disk | turns, interrupt, save, compact | UI thread and worker thread |
| Kernels, backends, GGUF, tokenizer, sampling, parsing, rendering, images | | | sequential |

What is hard about it, and the property that makes each part correct:

- *Turns.* A prefill and a decode batch exclude each other through a flag tested
  in separate critical sections; requests can be withdrawn by their owner,
  cancelled by main or taken by the coordinator in any order. Correct: one turn
  at a time, no request lost or run twice, every answer true of the session.
- *Queue.* A job lives on its client's stack. Correct: it is referenced from one
  place while the client waits and from none afterwards; it is served first come
  first served, and no job waits beside an idle slot.
- *Sessions.* Failures leave checkpoints shorter, invalid, or half written.
  Correct: what is reused is what the cache really holds, logits included.
- *Shutdown.* The signal handler sets a flag and wakes nobody. Correct: every
  accepted request is answered and all joins return.
- *Disk cache, checkpoint store.* Correct: a crash at any point leaves files that
  are complete or ignored, eviction keeps the budget and the freshest entry, and
  what a store reports as stored is found and continues to the prompt's bytes.
- *Catalog.* Correct: a request is served by one model throughout, and by the one
  it names unless three swaps of its own were undone by others.
- *Tool memory, radix tree.* Counts, reference counts and bitmaps kept along the
  way. Correct: they agree with what they count after any sequence of calls.
- *Streaming.* Sizes subtracted from each other as sessions come and go. Correct:
  all parts together stay within the device.
- *Terminal, network, browser.* Bytes arrive in any pieces, answers late or never.
  Correct: the result is that of what arrived whole, and nothing is left behind.
- *Programs that edit, convert or measure.* Correct after any interrupt, failure
  or order of commands: the transcript is the conversation, the output file is
  whole or absent, a row reports what was computed, no case is lost.

## Modules

| Module | Models |
| --- | --- |
| `Session` | the checkpoint operations of `p36_session`, as operators that return the set of possible outcomes |
| `Slots` | the slot numbers |
| `ModelTurns` | who may run the model; callers are left open |
| `JobService` | the abstract service of the job queue: one line, and servers that take from its head |
| `JobQueue` | requests, queue, slots' assignment, worker wakeups; scores are left open. Implements `JobService` |
| `BatchedServer` | `generate_job`, `slot_worker_main`, main's shutdown: extends `ModelTurns` and `JobQueue` and makes their calls in the code's order |
| `KvCache` | the directory of the server's disk KV cache: files, servers that share it, their deaths |
| `ModelCatalog` | the resident model, the readers-writer lock, swaps and their failures |
| `ToolMemory` | the LRU of tool-call texts with shared blocks |
| `OrderedMap` | a map with a cursor over its keys: what a radix tree promises |
| `Rax` | the radix tree itself, nodes and iterators |
| `RaxMap` | both under the same calls |
| `KvStore` | the checkpoint store shared with the agent |
| `Streaming` | the memory plan of expert streaming |
| `LineEdit` | the line editor |
| `Cli` | the chat and the one-shot generation |
| `TextScan` | five scanners of text, each beside its reference definition |
| `Remote`, `Web` | the remote client; the web tools |
| `EvalGrade`, `Eval` | finding and regrading answers; the evaluation program around it |
| `Bench`, `Quantize` | the benchmark; the quantizer |
| `Induction` | induction over the naturals, for sets and for the turns of a loop: lemmas only |
| `ModelTurnsProofs` | theorems about `Session` and `ModelTurns` |
| `JobQueueProofs`, `BatchedServerProofs`, `KvCacheProofs` | theorems about the module of that name |
| `ServerMemoryProofs` | theorems about `ModelCatalog`, `ToolMemory` and `KvStore` |
| `ProgramsProofs` | theorems about `Bench`, `Quantize`, `Streaming` and `Cli` |
| `WebEvalProofs` | theorems about `Web` and `Eval` |
| `MCBatchedServer`, `MCKvCache`, `MCLineEdit`, `MCCli`, `MCRax` | instances for TLC |
| `MCServer`, `MCStructures`, `MCPrograms` | instances of parts that share no state, side by side: a behaviour picks one part at its start and leaves the others at rest, so the run is the union of the parts' runs |

Two refinements are checked and proved. `ModelTurns` is the abstract specification of the
scheduler: slot threads outside its functions may call any of them, with any
prompt. `BatchedServer` implements it (`TurnsImplemented`, run `shutdown`;
`ServerImplementsTurns` proves it for every number of slots): an order of calls that generate_job makes and `ModelTurns` forbids would be
reported. `JobQueue` implements `JobService` (`ServiceImplemented`, run
`structures`) with the mapping `line` = the queue, `serving` = the job assigned
to or held by each slot: so jobs are served in the order of arrival, a slot serves
one job at a time, and a job waits only while every slot is serving.

### Correspondence

*Locks and condition variables.* A critical section of `model_mu` or `mu` is one
action, because nothing it reads or writes is touched without the lock (the
exceptions are below). A `pthread_cond_wait` is explicit: the thread joins
`asleep` (or `qAsleep`) and only a broadcast takes it out, except that the 2 ms
coalescing wait of the coordinator may also time out. So a missing wakeup is a
thread that never runs again, and liveness is about the broadcasts the code
really makes. `inferenceMu` names the holder of `inference_mu`. Spurious wakeups
are not modelled: every wait of the code is in a loop, and a spurious wakeup
repeats the test and sleeps again.

*Sessions.* A checkpoint is a conversation and a length. Prompts of the same
conversation agree position by position, prompts of different ones agree
nowhere; this keeps the two questions the code asks, "how long is the common
prefix" and "does the prompt extend the checkpoint". `valid` is
`checkpoint_valid`; `intact` says whether the KV rows and recurrent state are
those of the checkpoint's tokens, `logits` whether the logits are those after
its last token. The code has neither of the last two as a field: they say what
the runtime holds, and no guard reads them. A forward pass, an allocation and the cancel
callback may fail wherever the code checks them, at every chunk boundary (a
chunk is one token, the finest division).

*ModelTurns.* `prefillWaiting`, `decodePending`, `inFlight`, `decodeDone` and
`decodeRc` are the fields of `server_slot`; `pendingCount`, `activeGens`,
`lastPrefill`, `modelBusy`, `modelStopping` those of `server`; `batch` and
`batchRc` are locals of `decode_worker_main`, `target` and `ret` the arguments
and results of the slot's current call.

*JobQueue.* `jpc` is where the client thread of a job is; a job that is "gone"
no longer exists. `Dispatch` is the whole loop of `dispatch_jobs_locked`.

*BatchedServer.* `gpc` is the place in `generate_job`. What it decides from text
(end of sequence, stop sequence, tool call, client gone, a checkpoint boundary
worth storing, a file found on disk) is a nondeterministic choice. Merged steps:
the store of the evicted checkpoint and the load that follows are one lock
period; the quantum is read together with `server_prefill_enter`, although the
code reads `active_generations` in a critical section of its own just before
(the quantum only changes how far a turn goes); the clip of `max_tokens` to the
room left in the context is the test `sess[s].len < Ctx` at the head of the loop.
A stored checkpoint that is loaded is taken to have the right logits. The
"continued" stores that `server_progress_cb` makes during a prefill do not change
the session and are left out.

*KvCache.* `files` are the `<sha>.kv` files, `tmps` the `<sha>.kv.tmp.<pid>`
ones, both as functions on the names that exist. The bytes in use, which the
code adds up entry by entry, are the number of pairs of a file and a byte of it
(`Stored`). A key stands for the text of a checkpoint and fixes its tokens and
size; the context size of a file stands for all that makes it unusable for
another server. `kv_mu` lets one thread of a server use the cache, so a server
is at one place (`kpc`) of it; between servers nothing is locked and every file
operation is a step. `holds` says whether the file a server has open for
rewriting still has its name: after another server replaced or deleted it,
writes through the open file are lost. The process of a dead server may leave a
temporary file, and its process id may be used again. `listed` and `newest` are
the entries of a running eviction and the one it protects; the order of
`readdir` is left open. `time` only moves forward, in seconds. Merged steps: a
directory is listed at once; text, payload and map are written and renamed in
one step (a death before the rename leaves the temporary file either way);
`kv_cache_touch_file` reads and writes the header at once. A load ends in a touch of
the file, or in its `unlink` when its payload holds other tokens than its header says
(`Discard`), which may hit the file another server has just put in its place. What a power failure
does to unsynced files is not modelled. `BatchedServer` keeps its own, coarser
picture of the cache (a store changes no session, a load may find a file or
not), which asks nothing of this one.

*ModelCatalog.* `Readers` and `Writer` are the state of `swap_lock`, which
prefers writers; a waiting writer keeps new readers out. A swap is one step under
the write lock, with its failure, the reload of the old model and the failure of
that. The KV directory and the remembered calls follow the engine.

*ToolMemory.* Every operation of the code runs under `tool_mu` and is one step.
The reference and byte counts are state of their own, compared with what they
count: the bytes of a set of blocks are the number of pairs of a block and a byte
of it. The loops (the calls of a message, the pruning) are recursive functions of
the number of turns made. The two radix trees it uses are maps here and checked
in `Rax`.

*Rax.* A node is a record of its characters, children, value and bitmap; an
address is a path. `InlineSlots` stands for the 13 bits of the bitmap, `NodeMax`
for the 2^16-1 bytes a compressed node can hold. The two scans of the recompression in
`raxRemove` are modelled as they are written, the second without the test of the
first; when they disagree the code writes past the end of the new node, and `overrun`
is set. Nothing can be said of the tree after that: the state has no successors, and
the properties of the tree speak of `~overrun`. An insertion splits and cuts as the cases
of `raxGenericInsert` do; allocations succeed except in the recompression, whose
failure the code tolerates. A defragmentation pass moves nothing here (a node
has no address): the pass is checked for what it shows and replaces.

*KvStore.* A text is its own hash; tokens have spellings, so one text can be
spelled by several token sequences. A call is atomic. The bytes of a directory
are counted as in `KvCache`; `EvictTo` gives every directory the eviction loop
may stop at, for any order of equally bad files and any failing unlink. Of the
tokenizer only this is asked: the tokens of what is left of a prompt after some
of its bytes spell just that. A file that cannot be loaded stays, or, when its payload
was read and holds another number of tokens, is deleted.

*Streaming.* Sizes are small numbers; 32-bit subtraction wraps at `Max32 + 1`.
Whether the device can allocate is a choice (`Rooms`), as are the failures of
mmap, mlock and the runtime. `CloseEngine(TRUE)` opens another engine in the same
process, as a model swap does: the device keeps the cache's configuration.

*LineEdit.* A character is its class (plain, two bytes, wide, combining, joiner,
regional, newline, replacement), an input byte likewise; a key arrives byte by
byte and may be broken off anywhere. The screen is the rows that are in use.
The multi-line refresh, which both programs select, is modelled.

*Cli.* A message is a few symbols, an image pad one symbol that does not tell
images apart. A sync, an eval and an image encoder may fail wherever the code
checks them; SIGINT may arrive before any step. A launch says whether there are a chat
template, a BOS token and a `--prefix-file`, what thinking control the system
prompt carries, and whether this user will ask for Think Max. `chat.toks` is edited by the same
insertions and removals as the code's, at the positions it keeps. A turn whose decode
fails is left in the transcript, as in the code, and counts as an unanswered turn
of the conversation. The three ways `build_prompt` makes a prompt for the command line are
alternatives of one definition.

*TextScan.* The scanner's kind is chosen at the start and the text grows by the
tokens fed; a tag, a marker and an entity are a few symbols. The reference
definitions say what the text means without the scanner's incremental state.

*Remote.* A reply is a sequence of framing and event symbols; the network cuts it
into segments anywhere. JSON is whole or useless.

*Web.* The wire holds answers and events per tab; a call that was given up may be
answered later. A message is known by the number behind the first `"id"` of its
text, as `web_json_id_matches` reads it: the id of the call for an answer, and for an event
whatever stands there, once Runtime.enable was sent the number of an execution context
(`ContextIds`) among them. An event with the number of the waiting call is taken for its
answer; if it is a console message, which has a string `"value"`, an evaluation takes
that for its result. The browser then still works on the call, whose answer comes late. Waits
that end inside a frame leave its rest.

*Eval.* The key thread runs between any two steps; the main thread looks at the
keys where the code does. Start-up picks the cases, sizes the context and checks
the limits; the report gives the exit code. A token is thinking, close, answer
or end; what is graded is a sequence of words (`EvalGrade`).

*Bench*, *Quantize.* The checkpoint and the output file are sequences whose
elements say what they belong to. Quantizer threads claim rows between any two
steps; a signal may kill the process anywhere. A power cut is not modelled: nothing syncs
the file before the rename, so after one the output may be short. `make_plan` gives one tensor its offset a step,
as its loop does, and the offsets are state of their own (`plan`).

## Runs

Run `tlc -config X.cfg M`. States are distinct states.

| Run | Shows | Bounds |
| --- | --- | --- |
| `server` | the turns with arbitrary callers: `TypeOK`, `TurnExclusive`, `PendingCounted`, `RequestInOnePlace`, `AnswerMatchesSession`, `InFlightOwned`, `TurnsApproach`; the cache directory: `CheckpointsWhole`, `WriterKeepsTmp`, `FreshOutlivesOlder` | 2 slots, context 2, 1 conversation; 2 servers at once, contexts 2 and 3, 2 equal checkpoints, room for one, 2 seconds, no hits; 1.8 million |
| `serving` | `StreamMatchesSession`, `LiveCacheIntact`, `JobsAnswered` without a signal | 2 slots, 2 jobs with prompts of 1 and 2 tokens, 2 completion tokens, context 3; 310 thousand |
| `shutdown` | `ShutdownCompletes`, `TurnsImplemented` with a signal at any point | 1 slot, 2 jobs of different conversations; 45 thousand |
| `structures` | the queue: `ServiceImplemented`, `JobHeldOnce`; the cache directory after deaths: `BudgetKept`, `OrphansSwept`; `ServedByOneModel`; `RecallExact`; the tree: `TreeIsMap`, `CursorOrdered`, `NodesExact`; the store: `LoadSpellsPrompt`, `StoredIsFound`, `StoreWithinBudget` | 4 jobs on 2 slots; 2 process ids, 3 checkpoints of sizes 1, 1, 2, room for 2; 3 clients, 2 models; 3 call ids in a memory for 2, 4 calls; 6 keys with splits of every kind, one of them longer than the 3 bytes of a node, bitmap of 2; texts with ambiguous spellings, a byte budget that two files with trailers exceed; 790 thousand |
| `programs` | the editor: `FoldsExact`, `ScreenIsPrompt`; `ReplyAsSent`; `OwnAnswer`, `NothingLeftBehind`; `CasesAccounted`, `AnswerRoom`, `RegradeAgrees`; `ChatExact`; `ScansExact`; `OutputWhole`; `RowsTrue`; `MemoryKept` | 4 keys into a buffer of 5, 3 columns; replies of up to 4 events, plain and chunked, in segments up to 6; 2 pages, one late answer, execution contexts 5 and 9; 15 sets of options, up to 3 cases with retries and 3 key presses; 5 launches, contexts 15 and 21 on both sides of the Think Max limit, 2 chat turns with an image, 2 tokens each; texts of 5 to 8 symbols in tokens of 1 or 2; 2 threads, tensors of up to 3 rows and 2 experts; contexts up to 5; some 80 combinations of device and options, 3 sessions of 3 sizes; 1.8 million |
| `overlap`, `ownership`, `logits`, `kv_evict`, `editor_history`, `rax_overrun`, `chat_failure` | violations, see Findings | 1 or 2 slots, 1 or 2 jobs; 2 checkpoints; 4 keys; tree and chat as above |

*Why the bounds are enough.* Two slots give every pair of threads that can meet:
two prefills, a prefill and a batch, a batch of one and of two, a rewrite beside
either; the theorems take over for more slots. Four jobs on two slots give a
queue of two, so that overtaking is possible. Prompts of one and two tokens with
a quantum of two and a mixed quantum of one give prefills of one and of two
turns, reuse of a whole, a partial and no checkpoint. Context 2 to 4 makes the
context limit reachable. In the cache a budget of one checkpoint makes every
second store evict, the larger checkpoint needs two evictions, and different
contexts make servers replace each other's files; the theorems take over for
more files and servers. The two keys of the `server` run are symmetric, and its view
drops the `intact` and `logits` of a session, which no guard of the turns and none of its
properties reads; hits count in `structures` and `kv_evict`, where the score of an entry
depends on them. `structures` lets servers run one after the other, `server` at the same
time. In the
structures and programs every limit is below what the inputs reach: more calls
than the memory holds, more children than the bitmap marks, a key longer than a
node holds, so that a recompression meets the limit (`rax_overrun`), more text than the
window, more history than entries, a context that ends inside an answer, sizes
that wrap. `LiveCacheIntact` stops at a shutdown request
because of the second finding. Deadlock is checked in the server runs (a server
that has closed, or that waits for connections with nothing to do, takes the
step `Terminated`); it is switched off where a program that has ended, or a
component that has stopped, rightly does nothing more.

*Fairness.* `ServerSpec` asks weak fairness of each slot thread, of the
coordinator, of each client thread once it has connected, and of main's
shutdown: the operating system runs every runnable thread, and a forward pass
returns. Nothing is asked of clients (they need not connect), of the signal, or
of the mutexes: no strong fairness is assumed, so a property that needed a
particular thread to win `inference_mu` again and again would fail. Liveness of
a prefill beside decoding slots relies on `max_tokens` and the context being
finite, as in the code.

## Findings

1. `overlap`: `canonicalize_thinking_checkpoint` and `canonicalize_tool_checkpoint`
   run a forward pass (`p36_session_rewrite_from_common`) outside any turn and
   without `inference_mu`, while docs/server.md says "One coordinator owns model
   execution."
2. `ownership`: on a stop request `server_eval_token` returns while its request
   is in the coordinator's batch, so two threads use one session. The comment at
   the head of `server_00` says "The worker owns the p36_session and therefore
   owns all live KV cache state".
3. `logits`: `p36_session_prefill_range` extends a valid checkpoint by every
   chunk and computes logits for the last one only. When the client hangs up
   between two chunks, a later prompt of exactly that length reuses the
   checkpoint, evaluates nothing and is sampled from older logits. The comment of
   the function says "leaving the last token's logits in s->logits".

4. `kv_evict`: "Never evict the entry written last", says the comment in
   `kv_cache_evict`. The entry protected is the one with the largest `last_used`,
   in seconds, and the last of those in directory order; a second store in the
   same second can therefore delete the file it has just written.
   `FreshOutlivesOlder` is what the code does guarantee.

5. `editor_history`: "The latest history entry is always our current buffer", says
   `linenoiseEditStart`. The agent records queued prompts
   (`linenoiseHistoryAdd`) while the editor is active; the recorded line becomes
   the latest entry, and the next move in the history saves the edited line over
   it.

Finding 3 reaches the disk too: a "continued" store made from inside a prefill
saves the logits of an earlier position. `BudgetKept` is stated for servers that
use the directory one after the other; when two evict at the same time, the
failed `unlink` of a file the other has deleted ends the loop early and the
directory stays over budget until the next store.

6. `rax_overrun`: "Stop here if going to the next node would result into a compressed
   node larger than h->size can hold", says `raxRemove` where it measures a chain of
   nodes. The new node is allocated for what was measured, and a second scan without
   that test copies the whole chain into it. It takes a key longer than 65535 bytes and
   the removal of one that branches off it; the keys of the tool memory are whole
   tool-call texts.
7. `chat_failure`: "Shared by every path that abandons the turn before any assistant
   token was kept", says the comment of `run_chat_turn_rollback`. `run_chat_turn` returns from
   a failed decode without it, and the abandoned turn stays in the transcript.

Three more disagreements are in the models, and the properties are stated so that they
hold beside them:

- `web_json_id_matches` takes the first `"id"` anywhere in a message (p36_web.c:617). Once
  Runtime.enable was sent, an event of the page may have the waiting call's number there:
  a `console` event that shows the string "id" and whose execution context has that number.
  `visit_page`, which is to "return rendered page Markdown", then returns that message.
  `OwnAnswer` says what the test does keep out.
- When an image cannot be added to a turn, `run_chat_turn` undoes the transcript by hand
  (p36_cli.c:1207) and keeps "the thinking toggle the user text may have flipped"
  (`AddImageFails`).
- The Think Max prefix "lives after BOS, before any system/developer text"
  (p36_cli.c:1033). It is inserted at position 1 also where the vocabulary asks for no BOS
  token (the default), behind the first token of the system message. `ChatExact` speaks of
  the launches where that cannot happen (`Placed`).

PROJECT.json has the lines of each.

## Proofs

`tlapm M.tla` for each of the eight proof modules (`Induction` and those ending in
`Proofs`). What is assumed of the
constants is named in the modules that declare them, and TLC evaluates it on
every run.

### Sessions and turns

For every number of slots, every context longer than one token and every
nonempty set of conversations (`SlotCountAssumption`, `CtxAssumption`,
`ConvsAssumption`; the server refuses fewer).

- `EvalBatchOutcome`: a batched decode of any size keeps the sessions outside it
  as they are, and succeeds exactly when each member is valid and one token
  longer. It rests on lemmas about each session operation.
- `TypeCorrect`, `PendingExact`: `TypeOK` is not inductive alone, since
  `pendingCount` and `activeGens` stay within `0..SlotCount` only because they
  count sets of slots. The inductive invariant is `Counted`: `TypeOK`,
  `PendingCounted` and `GensCounted`; the steps cite the library's facts about
  cardinalities.
- `TurnsExclusive`: inductive together with `TypeOK`.
- `RequestsInOnePlace`, `InFlightSessionsOwned`: from `Requests`, which adds that
  only a waiting thread has a pending request and that the batch is empty outside
  the coordinator's turn. It allows for a request left behind in the batch by a
  shutdown.
- `AnswersTruthful`: from `Answers`, which follows a request from its submission
  (the session is one token short of the target) through the batch (the return
  code says whether it got there) to the published answer, and needs
  `Requests` and `EvalBatchOutcome`.
- `TurnsApproachWaiters`: the action property, from `TypeOK` alone.

### Job queue and batched server

For every number of slots, any jobs, scores, prompts and limits
(`NoJobAssumption`, `LeavingAssumption`: neither marker is a job;
`ScoreAssumption`; `JobAssumption`).

- `JobsHeldOnce`: from `QueueInv`, which is `QueueTypeOK`, `SlotsAgree` (what a
  slot's thread holds, what is assigned to it and `busy` fit together) and
  `JobHeldOnce` itself. The work is in `Dispatch`, which gives any number of
  jobs to different slots in one critical section.
- `QueueImplementsService`: initial states map to initial states, and each step
  to a step of `JobService` or a stutter, under `QueueInv`. A dispatch maps to
  as many jobs taken from the head of the line by servers that were free.
- `ServerImplementsTurns`: every step of generate_job, of the slot thread and of
  the shutdown is a step of `ModelTurns` or leaves its variables alone. This is
  argued action by action and then lifted to the specifications.
- `ServerTurns`: all that is proved of `ModelTurns` therefore holds of the server;
  nothing is proved twice. `ServerImplementsService` is the same for the queue,
  with the scores of `job_slot_score`.
- `ServerTypeCorrect`, `StreamsMatchSessions`, `LiveCachesIntact`: from
  `ServerInv`, which is the three inductive invariants of the turns (`Counted`,
  `Requests`, `Answers`), that of the queue, the types of a job's own state, and
  `OnTrack`. The last has three parts. `Placed`: a thread inside a function of
  the turns is where generate_job calls that function. `Promised`: what the
  session holds, or will hold once a request is answered, at each point of
  generate_job. `LiveBacked`: until a shutdown a valid checkpoint has an intact
  cache, and what is handed to a batch or a rewrite is valid. They hold only
  together: a slot's next token rests on the answer to its last one, and that
  answer on nobody else having changed the session in between.

### Disk cache

For any finite set of keys and any servers, sizes, contexts, budget and bounds
(`KeyAssumption`, `SizeAssumption`).

- `KvTypeCorrect`: the types and `KeyHeld` (a server about to write works on a
  key, which becomes a file's name).
- `NamedFilesWhole`, `WritersKeepTmps`: each inductive with the types. Only a
  rename gives a file its final name, in-place rewriting keeps payloads, and only
  the writer, or a sweep after its death, removes a temporary file.
- `FreshOutlives`: the action property, from `NewestListed`: the protected entry
  stays in the list through the whole loop, and no listed entry is newer.
- `OrphansAreSwept`: from `SoleWriter`, that in a directory used by one server
  after the other every temporary file has the process id of the live server, the
  sweep having taken the rest.
- `BudgetIsKept`: from `BudgetInv`: while a server evicts, its list is the
  directory, so that the loop ends only when what is left fits (`EnoughEvicted`)
  or is one file; and outside a store the directory is within the budget. It
  needs the two invariants above it, and that removing a file never makes the
  sum grow (`WithinSubset`). Sums being cardinalities is what makes this
  provable for any number of files.

### Tool memory

For any finite set of call ids, any texts and sizes, any limits
(`ToolAssumption`): `ToolMemoryRecalls`, from `ToolsInv`. Its core is
`Remembers`: the list has no id twice and is a prefix of the ids in the order of
their last use; a text that is held is the last one put for its id; the counts are
those of the entries (`Counts`) and the limits hold (`Within`). Between the
addition of an entry and the end of the pruning only `Counts` holds, and the
pruning loop must be shown to end within the limits before it runs out of
entries (`PruneKeeps`); an entry, or the last user of a block, that goes takes
as many bytes as it brought.

### Checkpoint store

For any spelling, histories, prompts, engines, sizes and budget, provided that
the tokens made of a part of a prompt spell that part (`KsAssumption`); a
tokenizer that does otherwise would break `LoadSpellsPrompt`, and nothing in the
store. `StoreKeepsBudget`, `StoreFindsStored`, `StoreLoadSpells` come from
`KsInv`: every file is under a text, whose tokens spell it unless the text is a
visible one (`DirOk`, `FileOk`), and the three properties hold of the last call.
What carries them: the eviction loop ends clean only below its target
(`EvictLeaves`), the room it makes is the room the new file takes (`RoomMade`,
`OneMoreFile`), and what an engine calls compatible when it stores it calls usable
when it looks (`StoreStep`), which is why the file under the whole text is the
longest one found.

### Streaming

`StreamedMemoryKept`, for any model, options, sizes of sessions and refusals of
the device (`StreamAssumption`), from `StreamInv`: in every state of an engine
the bytes promised are the number of bytes of the live sessions, and with a live
session the static weights, the full layers, the contexts, the margin and the
cache stay within four fifths of the working set. What an admitted session leaves
for the experts is bounded by `FitBounds`, and fewer bytes or experts stay within
the share (`WithinLess`); the plan made before the first session may wrap, and the
proof makes no use of it. The loop that asks the device for a tenth less each time
ends no lower than the property says (`AllocatedBounds`), also where the rounding
wraps, unless it does not end.

### Evaluation

For any cases, options and key presses (`EvalAssumption`): `EvalCasesAccounted`
and `EvalAnswerRoom`, from `EvalInv`: the case that runs is the only one with the
status of one (`StatusOk`), a context sized by `--ctx auto` fits every case with
its retry (`SizeOk`), an open thought leaves what is reserved for the answer
(`RoomOk`), and the last record of a case has its status or the case runs again
(`LogOk`). The reserve goes down by one exactly when the closing sequence is
forced, so `RoomOk` follows `in_think` and `forced` token by token.

### Chat

For any images, context sizes, launches and `n_predict` and any number of turns
(`CliAssumption`; the bound on the turns is no hypothesis): `ChatIsExact`, from
`CliInv`. Both are stated of the launches `Placed` admits, which have a BOS token, a
chat template or no use of Think Max: elsewhere the prefix is misplaced (Findings). A
prompt of the command line is covered where `AsChat` says it is built as a chat begins:
`p36_encode_chat_prompt` leaves out the prefix of Think Max before the system
message and, with a template, the BOS token. Its core is `Framed`: the transcript is a head, the one `FrontOf` spells
from `max_prefix_len`, the mode of the system block and `sys_init`, followed by a rest,
and the image spans are those of the rest moved by the length of the head. The
two edits of the head, `ApplyMaxPrefix` and `SyncSystem`, are shown to keep the
rest and to move every span with its pad (`PrefixFramed`, `SystemFramed`); after
both the head is that of the thinking mode (`Heads`). `Says` states what the rest is, whatever
stands in front: the turns kept so far, each pad with the image of its turn.
An open turn (`InTurn`) has one turn more and knows the length of the transcript and the number
of images before it, so that a rollback, which cuts both and edits the head again,
is back at the prompt (`RollbackIs`). The other half is the session:
`SessExact`, that the rows of a valid checkpoint were computed from its own tokens and
images; a sync reuses them only if the new transcript labels them alike
(`KeptRows`), the pads being the same symbol for every image, and while tokens are
sampled the session is the transcript (`Exact`). The walk over the turns in
`SaidText` is handled as below.

### Loops

What a loop of these modules computes is a recursive function of the number of
turns. The provers cannot instantiate the library's induction theorems, which
take a predicate; `Induction` derives, from the well-foundedness of the
naturals, induction for the *set* of the numbers for which a claim holds (`UpTo`,
`FromSmaller`), that the function of a loop's turns exists (`TurnsExist`) and
that it is what a recursive definition denotes (`SameTurns`). The lemmas about
pruning, eviction, rendering, sums over layers and maxima over cases rest on it.

### Catalog, web tools, benchmark, quantizer

- `CatalogServesOneModel`, for any clients and models: from `CatalogInv`: the
  types; `LockExclusive`; `PiecesAgree`, that engine, KV directory and remembered
  calls are those of the resident model as long as the server lives; and
  `ClientKnows`, that a client under the read lock was served by the resident
  model, which it named unless its tries are used up.
- `AnswersOwned`, `NothingIsLeftBehind`, for any pages, any numbers of execution
  contexts (`WebAssumption`) and any bounds on calls and tabs: from `WebInv`, where `IdsTell`
  says that the ids of the answers on the wire were issued and that calls with the same id are
  the same call, so that a late answer is never taken for another's. Of events
  only this is shown, that they are the tab's own; no more is claimed (Findings).
  `AnswerOwned` says that an answer is there only at the end of its page, `TabsKnown` that an open tab is the
  call's own or lost, and `OneChild` that no browser runs unrecorded.
- `BenchRowsTrue`, for every set of options `parse_options` accepts
  (`BenchAssumption`): from `BenchInv`, that the contexts measured rise
  (`Rising`), and that before and after each prefill and decode the session and
  the snapshot hold the prompt up to the frontier (`SessionAt`).
- `QuantizerOutputWhole`, for any inputs, workers, chunk size and alignment
  (`QuantizeAssumption`): from `QuantizeInv`: the offsets planned so far add up
  (`PlanAdds`), what is written is the plan so far (`WrittenAsPlanned`), the chunks
  of two threads never overlap and every row before `next` is in one of them or
  done once with its own matrix (`RowsOnce`), and only the rename touches the
  output (`OutWhole`).

### Only model-checked

- Liveness: `JobsAnswered`, `ShutdownCompletes`.
- `TreeIsMap`, `CursorOrdered`, `NodesExact`; `FoldsExact`, `ScreenIsPrompt`;
  `ReplyAsSent`: their modules define walks over trees, lines and replies as
  recursive operators, which the prover does not accept in a module with
  theorems. As recursive functions they would need bounds the code does not have.
- `RegradeAgrees` and `ScansExact` compare one scan of a text with another, by
  induction over the text with a case for each symbol. On texts up to the bound TLC tries
  all of them.

## Not modelled

In the server: images (vision spans, the image cache, pending visual
continuations and their `INT_MAX` score: `JobQueue` is checked with any scores),
live tool continuations and bindings, the reuse of a checkpoint found by its text
in `BatchedServer` (`KvStore` has that search), speculative decoding,
`p36_session_rewind` and `logits_stale` (off in batched mode), the non-batched
worker, a second signal (`_exit`), logging and traces. Two unlocked reads of a
session, in `job_slot_score` and in the multimodal sync, are listed as a hazard.

In the other parts: `raxRandomWalk` and `p36_ssd_cache_experts_for_byte_budget`,
which the program never calls, and the out-of-memory paths of a tree insertion
(the server exits); of the line editor raw mode, the single-line refresh, mask
mode, hints and the layout callback; the JSON parser and `p36_remote_get` of the
remote client; URL building, scripts and the start through macOS's `open` in the
web tools; drawing, case validation, listing and self tests of the evaluation;
option parsing, the argmax path and the dump modes of the client; reading the
input and the arithmetic of the quantizer; the loading and eviction of single
experts in the streaming cache.

Parts that are sequential computations on floats or text are not modelled at all;
PROJECT.json gives the reason for each.

Seen while modelling, and outside what the properties state: under `--case-sequence` a case that is switched away stays pending and the
exit code is 0; a one-shot prompt without a chat template leaves out the Think
Max prefix; the plan of full layers can wrap before the first session (see the
hazard at `core_17`).

## Plan

Done: the modules above with their runs, and the theorems above. Next, in this
order:

1. The walks of `Rax` and the feed of `Remote` as recursive functions, and their
   theorems.
2. `AgentWorker`: commands, interrupts and saves between UI and worker thread.
3. Speculative decoding and rewind in `Session`; visual and live tool
   continuations in `BatchedServer`.
