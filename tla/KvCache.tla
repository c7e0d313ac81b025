------------------------------- MODULE KvCache -------------------------------
(***************************************************************************)
(* The server's disk KV cache (src/server/server_12, server_13): one file  *)
(* per checkpoint, named after the hash of its text, in a directory that   *)
(* other servers may share.  Within a server kv_mu lets one thread at a    *)
(* time use the cache; nothing protects the directory between servers, so  *)
(* file operations are actions of their own and a server may die between   *)
(* any two of them.                                                        *)
(*                                                                         *)
(* A key stands for the text of a checkpoint and, with it, for its tokens. *)
(* The payload is abstracted to whether it is all there.  The context size *)
(* stands for everything that makes a file unusable for another server     *)
(* (the quantization too).  The directory is listed in one step.           *)
(***************************************************************************)
EXTENDS Integers, FiniteSets, Functions

CONSTANTS
    Keys, NoKey,       \* <sha>.kv
    Servers,           \* process ids; that of a dead server may be used again
    CtxOf,             \* the context size each server runs with
    Tokens,            \* the length of each key's checkpoint
    Bytes,             \* the size of its file without a tool map
    MapBytes,          \* the size of a tool map
    Budget,            \* budget_bytes
    Shared,            \* whether several servers use the directory at a time
    MaxClock,          \* bound: seconds that pass
    MaxHits            \* bound: hits counted in a header

ASSUME KeyAssumption == NoKey \notin Keys /\ IsFiniteSet(Keys)
ASSUME SizeAssumption ==
    /\ CtxOf \in [Servers -> Nat]
    /\ Tokens \in [Keys -> Nat \ {0}] /\ Bytes \in [Keys -> Nat \ {0}]
    /\ MapBytes \in Nat /\ Budget \in Nat /\ Shared \in BOOLEAN
    /\ MaxClock \in Nat /\ MaxHits \in Nat

VARIABLES
    files,     \* the files that have their final name
    tmps,      \* <sha>.kv.tmp.<pid>, by pid and key
    clock,     \* time(NULL)
    kpc,       \* where each server is in the cache's code
    key,       \* the key it works on
    hits,      \* the hits it read from that key's header
    holds,     \* whether the file it has open still has that name
    listed,    \* kc->entry[] of the running eviction
    newest     \* and the entry it protects

kvVars == <<files, tmps, clock, kpc, key, hits, holds, listed, newest>>

File == [ctx : Nat, hits : Nat, used : Nat, map : BOOLEAN, whole : BOOLEAN]
Entries(f) == DOMAIN f \subseteq Keys /\ \A k \in DOMAIN f : f[k] \in File

KvPcs == {"dead", "idle", "replace", "write", "rename", "cut", "map", "header", "touch",
          "discard", "refresh", "evict"}

KvTypeOK ==
    /\ Entries(files)
    /\ DOMAIN tmps \subseteq Servers \X Keys /\ \A x \in DOMAIN tmps : tmps[x] \in File
    /\ clock \in Nat
    /\ kpc \in [Servers -> KvPcs]
    /\ key \in [Servers -> Keys \cup {NoKey}]
    /\ hits \in [Servers -> Nat]
    /\ holds \in [Servers -> BOOLEAN]
    /\ DOMAIN listed = Servers /\ \A p \in Servers : Entries(listed[p])
    /\ newest \in [Servers -> Keys \cup {NoKey}]

\* An empty directory and no server
KvInit ==
    /\ files = <<>> /\ tmps = <<>>
    /\ clock = 0
    /\ kpc = [p \in Servers |-> "dead"]
    /\ key = [p \in Servers |-> NoKey]
    /\ hits = [p \in Servers |-> 0]
    /\ holds = [p \in Servers |-> FALSE]
    /\ listed = [p \in Servers |-> <<>>]
    /\ newest = [p \in Servers |-> NoKey]

-----------------------------------------------------------------------------
(* Files and the servers' progress                                         *)

Put(f, x, v) == [y \in DOMAIN f \cup {x} |-> IF y = x THEN v ELSE f[y]]
Drop(f, xs) == Restrict(f, DOMAIN f \ xs)

KvAt(p, pc) == kpc[p] = pc
KvGo(p, pc) == kpc' = [kpc EXCEPT ![p] = pc]

\* The server starts on another key, in the part of the code named pc
Start(p, k, pc) == KvGo(p, pc) /\ key' = [key EXCEPT ![p] = k]

\* The call returns to the server
Finish(p) ==
    /\ Start(p, NoKey, "idle")
    /\ hits' = [hits EXCEPT ![p] = 0]
    /\ listed' = [listed EXCEPT ![p] = <<>>]
    /\ newest' = [newest EXCEPT ![p] = NoKey]

\* From now on the name k is another file's, or nobody's: those who have the
\* old file open keep it
LoseName(k) == holds' = [q \in Servers |-> holds[q] /\ key[q] # k]

\* kv_read_entry_file: a valid header, and as many bytes as it announces
Readable(k) == k \in DOMAIN files /\ files[k].whole

\* A file of a larger context cannot be used by this server
Fits(p, f) == f.ctx <= CtxOf[p]

-----------------------------------------------------------------------------
(* kv_cache_store_live_prefix                                              *)

\* kv_cache_existing_compatible: nothing usable under the name, or a file of a
\* larger context that has to go first, or one that only gets a new tool map
StoreBegin(p, k) ==
    /\ KvAt(p, "idle")
    /\ \/ ~Readable(k) /\ Start(p, k, "write")
       \/ Readable(k) /\ ~Fits(p, files[k]) /\ Start(p, k, "replace")
       \/ Readable(k) /\ Fits(p, files[k]) /\ Start(p, k, "cut")
    /\ UNCHANGED <<files, tmps, clock, hits, holds, listed, newest>>

StoreReplace(p) ==
    /\ KvAt(p, "replace")
    /\ files' = Drop(files, {key[p]}) /\ LoseName(key[p])
    /\ KvGo(p, "write")
    /\ UNCHANGED <<tmps, clock, key, hits, listed, newest>>

\* The header of a new checkpoint
Fresh(p) == [ctx |-> CtxOf[p], hits |-> 0, used |-> clock, map |-> FALSE, whole |-> FALSE]

\* Mutant: the checkpoint is written under its final name
StoreOpenInPlace(p) ==
    /\ KvAt(p, "write")
    /\ files' = Put(files, key[p], Fresh(p))
    /\ tmps' = Put(tmps, <<p, key[p]>>, Fresh(p))
    /\ KvGo(p, "rename")
    /\ UNCHANGED <<clock, key, hits, holds, listed, newest>>

\* fopen(tmp, "wb") and the header
StoreOpen(p) ==
    /\ KvAt(p, "write")
    /\ tmps' = Put(tmps, <<p, key[p]>>, Fresh(p))
    /\ KvGo(p, "rename")
    /\ UNCHANGED <<files, clock, key, hits, holds, listed, newest>>

\* Text, payload and tool map are written and the file is renamed
StoreRename(p) ==
    /\ KvAt(p, "rename") /\ <<p, key[p]>> \in DOMAIN tmps
    /\ \E map \in BOOLEAN :
          files' = Put(files, key[p],
                       [tmps[<<p, key[p]>>] EXCEPT !.map = map, !.whole = TRUE])
    /\ LoseName(key[p])
    /\ tmps' = Drop(tmps, {<<p, key[p]>>})
    /\ KvGo(p, "refresh")
    /\ UNCHANGED <<clock, key, hits, listed, newest>>

\* The file could not be created; or a write, the payload or the rename failed
\* and what was written is removed
StoreFail(p) ==
    /\ kpc[p] \in {"write", "rename"}
    /\ tmps' = IF KvAt(p, "rename") THEN Drop(tmps, {<<p, key[p]>>}) ELSE tmps
    /\ Finish(p)
    /\ UNCHANGED <<files, clock, holds>>

-----------------------------------------------------------------------------
(* kv_cache_rewrite_tool_map: in place, through one open file              *)

\* No tool call of the text is remembered, the file is gone, or a write failed
RewriteStop(p) ==
    /\ kpc[p] \in {"cut", "map", "header"}
    /\ holds' = [holds EXCEPT ![p] = FALSE]
    /\ Finish(p)
    /\ UNCHANGED <<files, tmps, clock>>

\* The header is read and the file truncated to header, text and payload
RewriteCut(p) ==
    /\ KvAt(p, "cut") /\ Readable(key[p])
    /\ files' = [files EXCEPT ![key[p]].map = FALSE]
    /\ hits' = [hits EXCEPT ![p] = files[key[p]].hits]
    /\ holds' = [holds EXCEPT ![p] = TRUE]
    /\ KvGo(p, "map")
    /\ UNCHANGED <<tmps, clock, key, listed, newest>>

RewriteMap(p) ==
    /\ KvAt(p, "map")
    /\ IF holds[p] THEN files' = [files EXCEPT ![key[p]].map = TRUE] ELSE UNCHANGED files
    /\ KvGo(p, "header")
    /\ UNCHANGED <<tmps, clock, key, hits, holds, listed, newest>>

\* The header goes back with the hits that were read before the truncation
RewriteHeader(p) ==
    /\ KvAt(p, "header")
    /\ IF holds[p]
       THEN files' = [files EXCEPT ![key[p]].hits = hits[p], ![key[p]].used = clock]
       ELSE UNCHANGED files
    /\ holds' = [holds EXCEPT ![p] = FALSE]
    /\ Finish(p)
    /\ UNCHANGED <<tmps, clock>>

-----------------------------------------------------------------------------
(* kv_cache_try_load_text: a miss or a failed load changes no file         *)

\* The file is opened and its payload loaded; one that loads as another number of tokens than its
\* header says is damaged
Load(p, k) ==
    /\ KvAt(p, "idle") /\ Readable(k) /\ Fits(p, files[k])
    /\ \E next \in {"touch", "discard"} : Start(p, k, next)
    /\ hits' = [hits EXCEPT ![p] = files[k].hits]
    /\ UNCHANGED <<files, tmps, clock, holds, listed, newest>>

\* kv_cache_touch_file opens the path again: the hits are those read before
\* the payload was loaded, the rest of the header is what is there now
Touch(p) ==
    /\ KvAt(p, "touch")
    /\ IF key[p] \in DOMAIN files
       THEN files' = [files EXCEPT
               ![key[p]].hits = IF hits[p] < MaxHits THEN hits[p] + 1 ELSE MaxHits,
               ![key[p]].used = clock]
       ELSE UNCHANGED files
    /\ Finish(p)
    /\ UNCHANGED <<tmps, clock, holds>>

\* A damaged file is unlinked by its name, which may be another file's by now
Discard(p) ==
    /\ KvAt(p, "discard")
    /\ files' = Drop(files, {key[p]}) /\ LoseName(key[p])
    /\ Finish(p)
    /\ UNCHANGED <<tmps, clock>>

-----------------------------------------------------------------------------
(* kv_cache_evict                                                          *)

Size(k, f) == Bytes[k] + IF f.map THEN MapBytes ELSE 0
\* The bytes of a listing's files, each for itself: their number is the total
Stored(f) == UNION {{k} \X (1..Size(k, f[k])) : k \in DOMAIN f}
Total(f) == Cardinality(Stored(f))
MustEvict(f) == Total(f) > Budget /\ Cardinality(DOMAIN f) > 1

\* kv_entry_eviction_score(j) < kv_entry_eviction_score(k), without fractions
ScoreLess(f, j, k) ==
    (f[j].hits + 1) * Tokens[j] * Size(k, f[k]) < (f[k].hits + 1) * Tokens[k] * Size(j, f[j])
EvictBefore(f, j, k) ==
    ScoreLess(f, j, k) \/ (~ScoreLess(f, k, j) /\ f[j].used < f[k].used)

\* Entries that may be the last with the largest last_used: the order of the
\* listing is readdir's
Newest(f) == {k \in DOMAIN f : \A j \in DOMAIN f : f[j].used <= f[k].used}

\* Mutant: the newest entry is a candidate too
VictimsAll(f, new) == {k \in DOMAIN f : ~\E j \in DOMAIN f : EvictBefore(f, j, k)}

Victims(f, new) ==
    LET candidates == DOMAIN f \ {new}
    IN  {k \in candidates : ~\E j \in candidates : EvictBefore(f, j, k)}

\* kv_cache_refresh, and the entry no iteration of the loop will choose
Refresh(p) ==
    /\ KvAt(p, "refresh")
    /\ LET readable == Restrict(files, {k \in DOMAIN files : Readable(k)})
       IN  /\ listed' = [listed EXCEPT ![p] = readable]
           /\ \/ readable = <<>> /\ newest' = [newest EXCEPT ![p] = NoKey]
              \/ \E k \in Newest(readable) : newest' = [newest EXCEPT ![p] = k]
    /\ KvGo(p, "evict")
    /\ UNCHANGED <<files, tmps, clock, key, hits, holds>>

\* Mutant: one eviction per store
EvictOneOnly(p) ==
    /\ KvAt(p, "evict") /\ MustEvict(listed[p])
    /\ \E v \in Victims(listed[p], newest[p]) :
          v \in DOMAIN files /\ files' = Drop(files, {v}) /\ LoseName(v)
    /\ Finish(p)
    /\ UNCHANGED <<tmps, clock>>

EvictOne(p) ==
    /\ KvAt(p, "evict") /\ MustEvict(listed[p])
    /\ \E v \in Victims(listed[p], newest[p]) :
          /\ v \in DOMAIN files
          /\ files' = Drop(files, {v}) /\ LoseName(v)
          /\ listed' = [listed EXCEPT ![p] = Drop(listed[p], {v})]
    /\ UNCHANGED <<tmps, clock, kpc, key, hits, newest>>

\* Enough is evicted; or the victim is already gone: the failed unlink sets
\* total to 0, which ends the loop
EvictDone(p) ==
    /\ KvAt(p, "evict")
    /\ \/ ~MustEvict(listed[p])
       \/ MustEvict(listed[p]) /\ Victims(listed[p], newest[p]) \ DOMAIN files # {}
    /\ Finish(p)
    /\ UNCHANGED <<files, tmps, clock, holds>>

-----------------------------------------------------------------------------
(* Servers come and go                                                     *)

Alive == {p \in Servers : kpc[p] # "dead"}

\* Mutant: the sweep does not ask whether the writer runs
SweepAll(p) == tmps' = <<>>

\* Mutant: no sweep
SweepSkips(p) == UNCHANGED tmps

\* kv_cache_sweep_orphans: those of a process id in use stay
Sweep(p) == tmps' = Restrict(tmps, {x \in DOMAIN tmps : x[1] \in Alive \cup {p}})

\* kv_cache_open, up to the eviction
Open(p) ==
    /\ KvAt(p, "dead") /\ (Shared \/ Alive = {})
    /\ Sweep(p)
    /\ KvGo(p, "refresh")
    /\ UNCHANGED <<files, clock, key, hits, holds, listed, newest>>

\* A crash between any two file operations; from "idle" also kv_cache_close
Exit(p) ==
    /\ kpc[p] # "dead"
    /\ Start(p, NoKey, "dead")
    /\ hits' = [hits EXCEPT ![p] = 0]
    /\ holds' = [holds EXCEPT ![p] = FALSE]
    /\ listed' = [listed EXCEPT ![p] = <<>>]
    /\ newest' = [newest EXCEPT ![p] = NoKey]
    /\ UNCHANGED <<files, tmps, clock>>

Tick ==
    /\ clock < MaxClock /\ clock' = clock + 1
    /\ UNCHANGED <<files, tmps, kpc, key, hits, holds, listed, newest>>

ServerStep(p) ==
    \/ \E k \in Keys : StoreBegin(p, k) \/ Load(p, k)
    \/ StoreReplace(p) \/ StoreOpen(p) \/ StoreRename(p) \/ StoreFail(p)
    \/ RewriteStop(p) \/ RewriteCut(p) \/ RewriteMap(p) \/ RewriteHeader(p)
    \/ Touch(p) \/ Discard(p)
    \/ Refresh(p) \/ EvictOne(p) \/ EvictDone(p)
    \/ Open(p) \/ Exit(p)

KvNext == Tick \/ \E p \in Servers : ServerStep(p)

KvSpec == KvInit /\ [][KvNext]_kvVars

-----------------------------------------------------------------------------
(* Properties                                                              *)

\* Whatever servers share the directory and wherever they die, a file that has
\* its final name holds its whole payload: store writes under another name and
\* renames, and the tool map is rewritten behind the payload.
CheckpointsWhole == \A k \in DOMAIN files : files[k].whole

\* The sweep of a starting server never takes the file another one is writing,
\* even when that one has the process id of an earlier, dead writer
\* (kv_cache_sweep_orphans).
WriterKeepsTmp == \A p \in Servers : KvAt(p, "rename") => <<p, key[p]>> \in DOMAIN tmps

\* The eviction a store of p ends with deletes the checkpoint just stored
EvictsFresh(p) ==
    /\ KvAt(p, "evict") /\ kpc'[p] = "evict"
    /\ key[p] \in DOMAIN listed[p] \ DOMAIN listed'[p]

\* It does so only if it listed an entry that was used in the same second or
\* later (kv_cache_evict protects the largest last_used).
FreshOutlivesOlder ==
    [][\A p \in Servers : EvictsFresh(p) =>
          \E k \in DOMAIN listed[p] \ {key[p]} :
             listed[p][k].used >= listed[p][key[p]].used]_kvVars

\* "Never evict the entry written last" (comment in kv_cache_evict).
FreshKept == [][\A p \in Servers : ~EvictsFresh(p)]_kvVars

\* The checkpoints without their tool maps
Payload(ks) == UNION {{k} \X (1..Bytes[k]) : k \in ks}
WithinBudget(ks) == Cardinality(ks) <= 1 \/ Cardinality(Payload(ks)) <= Budget

\* A server that has the directory for itself is between calls within its
\* budget, or has one file only: also after a predecessor died in a store or in
\* an eviction. Tool maps do not count, they are added without an eviction.
BudgetKept ==
    ~Shared /\ (\E p \in Servers : KvAt(p, "idle")) => WithinBudget(DOMAIN files)

\* The unfinished files of dead servers are gone as soon as another server has
\* opened the directory, except those with its own process id.
OrphansSwept ==
    ~Shared => \A p \in Alive : \A x \in DOMAIN tmps : x[1] = p
=============================================================================
