----------------------------- MODULE ToolMemory -----------------------------
(***************************************************************************)
(* The server's memory of sampled tool calls (tool_memory): per call id    *)
(* the block of text the model produced, shared by the calls of one        *)
(* message, in least-recently-used order and within an entry and a byte    *)
(* limit.  Every operation runs under tool_mu, so each is one step.        *)
(* The two rax indexes are maps here; Rax checks them.                     *)
(***************************************************************************)
EXTENDS Integers, Sequences, FiniteSets, SequencesExt

CONSTANTS
    CallIds,        \* call ids
    Texts, NoText,  \* texts of calls; no text
    TextBytes,      \* bytes of a text's block
    EntryBytes,     \* bytes of an entry
    MaxEntries,     \* tool_memory_max_entries
    MaxBytes,       \* tool_memory_max_bytes
    MaxCalls,       \* bound: calls of a message
    MaxOps          \* bound: operations

ASSUME ToolAssumption ==
    /\ NoText \notin Texts /\ TextBytes \in [Texts -> Nat] /\ EntryBytes \in Nat
    /\ MaxEntries \in Nat /\ MaxBytes \in Nat /\ MaxCalls \in Nat
    /\ IsFiniteSet(CallIds)

VARIABLES
    tm,             \* tool_memory: lru (head first), block, disk and think per id, refs, entries, bytes
    replay,         \* the raw_tool_text the last call attached: [ids, text, think], NoText for none
    said,           \* history variable: the text last put for an id
    recent,         \* history variable: ids by last use, most recent first
    ops

tmVars == <<tm, replay, said, recent, ops>>

NoTools == [lru |-> <<>>, block |-> [i \in CallIds |-> NoText], disk |-> [i \in CallIds |-> FALSE],
            think |-> [i \in CallIds |-> FALSE], refs |-> [t \in Texts |-> 0], entries |-> 0, bytes |-> 0]

\* tool_memory_find_entry_locked
Known(m, id) == m.block[id] # NoText

\* Mutant: a touch does not move the entry
TouchStays(m, id) == m

\* tool_memory_unlink
Without(s, id) ==
    LET at == {i \in DOMAIN s : s[i] = id}
    IN  IF at = {} THEN s ELSE RemoveAt(s, CHOOSE i \in at : TRUE)

\* tool_memory_link_head of an entry that may be in the list
MovedFirst(s, id) == <<id>> \o Without(s, id)

\* tool_memory_touch
TouchEntry(m, id) == [m EXCEPT !.lru = MovedFirst(@, id)]

\* tool_memory_release_block_locked: the block goes with its last entry
ReleaseBlock(m, t) ==
    IF m.refs[t] > 1 THEN [m EXCEPT !.refs[t] = @ - 1]
    ELSE [m EXCEPT !.refs[t] = 0, !.bytes = IF @ >= TextBytes[t] THEN @ - TextBytes[t] ELSE 0]

\* tool_memory_remove_entry_locked
RemoveEntry(m, id) ==
    ReleaseBlock([m EXCEPT !.lru = Without(@, id), !.block[id] = NoText,
                           !.bytes = IF @ >= EntryBytes THEN @ - EntryBytes ELSE 0,
                           !.entries = IF @ > 0 THEN @ - 1 ELSE 0],
                 m.block[id])

\* tool_memory_prune_locked: the tail goes until both limits hold; p[k] after k removals
Prune(m) ==
    LET over(x) == (x.entries > MaxEntries \/ x.bytes > MaxBytes) /\ x.lru # <<>>
        p[k \in 0..Len(m.lru)] ==
            IF k = 0 THEN m ELSE IF over(p[k - 1]) THEN RemoveEntry(p[k - 1], Last(p[k - 1].lru)) ELSE p[k - 1]
    IN  p[Len(m.lru)]

\* tool_memory_get_block_locked and the new entry of tool_memory_put_locked
AddEntry(m, id, t, fromDisk) ==
    [m EXCEPT !.bytes = @ + EntryBytes + (IF m.refs[t] = 0 THEN TextBytes[t] ELSE 0),
              !.refs[t] = @ + 1, !.block[id] = t, !.disk[id] = fromDisk, !.think[id] = FALSE,
              !.lru = <<id>> \o @, !.entries = @ + 1]

\* tool_memory_put_locked
PutEntry(m, id, t, fromDisk) ==
    IF m.block[id] = t
    THEN Prune(TouchEntry([m EXCEPT !.disk[id] = @ /\ fromDisk], id))
    ELSE Prune(AddEntry(IF Known(m, id) THEN RemoveEntry(m, id) ELSE m, id, t, fromDisk))

NoReplay == [ids |-> <<>>, text |-> NoText, think |-> FALSE]

TmInit ==
    /\ tm = NoTools /\ replay = NoReplay
    /\ said = [i \in CallIds |-> NoText] /\ recent = <<>> /\ ops = 0

\* the order after uses of ids, one after the other
Used(order, ids) ==
    LET u[k \in 0..Len(ids)] == IF k = 0 THEN order ELSE MovedFirst(u[k - 1], ids[k])
    IN  u[Len(ids)]

Counted == ops < MaxOps /\ ops' = ops + 1

\* one call of tool_memory_remember's loop, which may have been pruned at once
PutCall(m, id, t, think) ==
    LET r == PutEntry(m, id, t, FALSE)
    IN  IF Known(r, id) THEN [r EXCEPT !.think[id] = think] ELSE r

\* the loop
PutCalls(m, ids, t, think) ==
    LET p[k \in 0..Len(ids)] == IF k = 0 THEN m ELSE PutCall(p[k - 1], ids[k], t, think)
    IN  p[Len(ids)]

\* tool_memory_remember: every call of a message, under its one block
Remember(ids, t, think) ==
    /\ Counted
    /\ tm' = PutCalls(tm, ids, t, think)
    /\ said' = [i \in CallIds |-> IF i \in Range(ids) THEN t ELSE said[i]]
    /\ recent' = Used(recent, ids)
    /\ replay' = NoReplay

\* tool_memory_put_source, for an id of a checkpoint's trailer
PutFromDisk(id, t) ==
    /\ Counted
    /\ tm' = PutEntry(tm, id, t, TRUE)
    /\ said' = [said EXCEPT ![id] = t]
    /\ recent' = Used(recent, <<id>>)
    /\ replay' = NoReplay

\* tool_memory_lookup_locked
Found(m, id) == IF Known(m, id) THEN TouchEntry(m, id) ELSE m

\* the order after the calls of ids that m knows were looked up
UsedAgain(order, m, ids) ==
    LET u[k \in 0..Len(ids)] ==
            IF k = 0 THEN order ELSE IF Known(m, ids[k]) THEN MovedFirst(u[k - 1], ids[k]) ELSE u[k - 1]
    IN  u[Len(ids)]

\* the lookups of a message's calls, one after the other
FoundCalls(m, ids) ==
    LET p[k \in 0..Len(ids)] == IF k = 0 THEN m ELSE Found(p[k - 1], ids[k])
    IN  p[Len(ids)]

\* tool_memory_attach_to_messages: replayed only if every id is known and all have one block
Attach(ids) ==
    /\ Counted
    /\ LET exact == \A i \in Range(ids) : Known(tm, i) /\ tm.block[i] = tm.block[ids[1]]
       IN  /\ tm' = FoundCalls(tm, ids)
           /\ replay' = [ids |-> ids, text |-> IF exact THEN tm.block[ids[1]] ELSE NoText,
                         think |-> exact /\ \A i \in Range(ids) : tm.think[i]]
           /\ recent' = UsedAgain(recent, tm, ids)
    /\ UNCHANGED said

\* tool_memory_free, on a model swap
FreeTools ==
    /\ Counted
    /\ tm' = NoTools /\ recent' = <<>> /\ said' = [i \in CallIds |-> NoText]
    /\ replay' = NoReplay

Messages == UNION {[1..n -> CallIds] : n \in 1..MaxCalls}

TmNext ==
    \/ \E ids \in Messages : Attach(ids) \/ \E t \in Texts, think \in BOOLEAN : Remember(ids, t, think)
    \/ \E id \in CallIds, t \in Texts : PutFromDisk(id, t)
    \/ FreeTools

TmSpec == TmInit /\ [][TmNext]_tmVars

-----------------------------------------------------------------------------
(* Properties                                                              *)

\* the bytes of the blocks of texts
BlockBytes(texts) == UNION {{t} \X (1..TextBytes[t]) : t \in texts}

\* RecallExact: after any sequence of calls, replays, checkpoint loads and prunes, what is
\* remembered are the most recently used calls and no other, each with the text last put for it;
\* a message is replayed exactly when all its calls are remembered with one text, and then with
\* that text; the reference counts and the byte count kept along the way are those of the entries,
\* and both limits hold (tool_memory_prune_locked, tool_memory_attach_to_messages)
RecallExact ==
    LET stored == {i \in CallIds : Known(tm, i)}
    IN  /\ IsPrefix(tm.lru, recent) /\ Range(tm.lru) = stored
        /\ \A i \in stored : tm.block[i] = said[i]
        /\ \A t \in Texts : tm.refs[t] = Cardinality({i \in stored : tm.block[i] = t})
        /\ tm.entries = Cardinality(stored) /\ tm.entries <= MaxEntries
        /\ tm.bytes = EntryBytes * tm.entries + Cardinality(BlockBytes({tm.block[i] : i \in stored}))
        /\ tm.bytes <= MaxBytes
        /\ replay.ids # <<>> =>
              \A t \in Texts : (replay.text = t) = (\A i \in Range(replay.ids) : i \in stored /\ said[i] = t)
=============================================================================
