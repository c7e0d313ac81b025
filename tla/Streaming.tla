------------------------------ MODULE Streaming ------------------------------
(***************************************************************************)
(* SSD streaming of a mixture-of-experts model on a GPU (p36_ssd.c,        *)
(* core_09, core_17): routed experts stay on disk, and what is left of the *)
(* device's working set after the static weights, the layers kept whole    *)
(* and the contexts of the sessions is a cache of experts.  It is planned  *)
(* when the engine opens, shrinks as sessions are created, and is          *)
(* allocated on first use, smaller if the device refuses.                  *)
(*                                                                         *)
(* Sizes are in small units; unsigned 32-bit subtraction wraps at          *)
(* Max32 + 1.  --simulate-used-memory locks memory before the model loads. *)
(***************************************************************************)
EXTENDS Integers, Sequences, FiniteSets

CONSTANTS
    Setups,         \* [rec, layers, cache, gb, full, planned, ctx, used, preload]: the working set, the
                    \* bytes of a routed expert in each layer, and the options; cache and used are
                    \* numbers as written, 0 for an absent option, gb tells "12GB" from "12", preload
                    \* is whether some expert is loaded before the first session
    Gib, Max64, Max32,      \* P36_GIB, UINT64_MAX, UINT32_MAX
    Fixed,          \* p36_weights_streaming_non_routed_bytes
    NExpert, NUsed,     \* experts of a layer, and how many of them a token uses
    Margin,         \* the 256 MiB for staging, and the draft model
    CtxBytes,       \* p36_streaming_context_bytes of each context size
    LockChunk,      \* 256 MiB
    SessionIds, Rooms   \* sessions; what the device may have room for, in experts

ASSUME StreamAssumption ==
    /\ CtxBytes \in Seq(Nat \ {0})
    /\ Setups \subseteq [rec : Nat, layers : Seq(Nat \ {0}), cache : Nat, gb : BOOLEAN, full : Nat,
                         planned : Nat, ctx : DOMAIN CtxBytes, used : Nat, preload : BOOLEAN]
    /\ \A o \in Setups : o.layers # <<>>
    /\ Gib \in Nat \ {0} /\ Max64 \in Nat /\ Max32 \in Nat /\ Max32 >= 9 /\ LockChunk \in Nat
    /\ Fixed \in Nat /\ NExpert \in Nat \ {0} /\ NUsed \in Nat \ {0} /\ Margin \in Nat
    /\ IsFiniteSet(SessionIds) /\ Rooms \subseteq Nat

VARIABLES
    ssdPc,          \* "start", "lock", "seed", "open", "closed"
    setup,          \* the model and the options
    eng,            \* p36_engine: [cache, full, hint, bytes, live]
    reserved,       \* reserved_context_bytes per live session, 0 for none
    slab,           \* p36_vk_stream: [budget, cap, runtime]
    sim             \* p36_ssd_memory_lock: [mapped, locked]

ssdVars == <<ssdPc, setup, eng, reserved, slab, sim>>

Least2(a, b) == IF a < b THEN a ELSE b

-----------------------------------------------------------------------------
(* Options and the plan                                                    *)

\* p36_parse_gib_arg of the number n: 0 if it is refused
p36_parse_gib_arg(n) == IF n = 0 \/ n > Max64 \div Gib THEN 0 ELSE n * Gib

\* p36_parse_streaming_cache_experts_arg: a number of experts, or bytes with a suffix
p36_parse_streaming_cache_experts_arg(n, gb) ==
    [experts |-> IF gb \/ n > Max32 THEN 0 ELSE n, bytes |-> IF gb THEN p36_parse_gib_arg(n) ELSE 0]

CacheArg(o) == p36_parse_streaming_cache_experts_arg(o.cache, o.gb)

OptionsRefused(o) ==
    \/ o.used # 0 /\ p36_parse_gib_arg(o.used) = 0
    \/ o.cache # 0 /\ CacheArg(o).experts = 0 /\ CacheArg(o).bytes = 0

\* p36_ssd_auto_cache_plan: the experts of the plan
p36_ssd_auto_cache_plan(recommended, percent, limit, fixed, perExpert, most) ==
    LET share == (recommended \div 100) * percent + ((recommended % 100) * percent) \div 100
        target == IF limit # 0 /\ share > limit THEN limit ELSE share
        bytes == IF target > fixed THEN target - fixed ELSE 0
        experts == IF bytes \div perExpert = 0 THEN 1 ELSE bytes \div perExpert
    IN  Least2(IF most # 0 THEN Least2(experts, most) ELSE experts, Max32)

\* p36_streaming_routed_expert_bytes: the first layer's, the cache has one size of slot
Slot == setup.layers[1]

\* p36_streaming_full_layer_budget: what the first n layers take, kept whole
Resident(layers, n) ==
    LET sum[i \in 0..n] == IF i = 0 THEN 0 ELSE sum[i - 1] + layers[i] * NExpert
    IN  sum[n]
FullSlots(n) == (Resident(setup.layers, n) + Slot - 1) \div Slot

\* p36_streaming_model_limit
ModelBudget == (setup.rec \div 5) * 4
ModelLimit(contexts) ==
    IF contexts >= ModelBudget \/ Margin >= ModelBudget - contexts THEN 0
    ELSE ModelBudget - contexts - Margin

\* p36_engine_configure_streaming_auto_cache: the experts of the cache, 0 for a failure
AutoCache(hint) ==
    LET limit == ModelLimit(hint * setup.planned)
        arg == CacheArg(setup)
        requested == IF arg.bytes # 0 THEN arg.bytes \div Slot ELSE arg.experts
        plan == p36_ssd_auto_cache_plan(setup.rec, 80, limit, Fixed, Slot, Len(setup.layers) * NExpert)
    IN  IF hint * setup.planned > Max64 \/ Fixed >= limit \/ Slot > (limit - Fixed) \div NUsed \/ (arg.bytes # 0 /\ requested = 0) THEN 0
        ELSE IF requested # 0 THEN Least2(plan, requested) ELSE plan

\* p36_engine_open: the whole layers that leave room for one layer's experts, and
\* the rest of the cache; the layers are cut as if all had the size of the first
WholeLayers(cache) ==
    IF FullSlots(setup.full) + NExpert <= cache THEN setup.full
    ELSE IF cache > NExpert THEN (cache - NExpert) \div NExpert ELSE 0
Dynamic(cache) == (cache - FullSlots(WholeLayers(cache))) % (Max32 + 1)

\* p36_gpu_set_streaming_expert_cache_budget
SetBudget(b, experts) ==
    IF b.budget = experts THEN b ELSE [budget |-> experts, cap |-> 0, runtime |-> 0]

-----------------------------------------------------------------------------

Unlocked == [mapped |-> 0, locked |-> 0]
NoEngine == [cache |-> 0, full |-> 0, hint |-> 0, bytes |-> 0, live |-> 0]

SsdInit ==
    /\ ssdPc = "start" /\ setup \in Setups
    /\ eng = NoEngine /\ sim = Unlocked
    /\ slab = [budget |-> 0, cap |-> 0, runtime |-> 0]
    /\ reserved = [s \in SessionIds |-> 0]

\* p36_engine_close: p36_gpu_cleanup gives the cache back but keeps its configuration, and
\* p36_ssd_memory_lock_release the simulated memory
EngineClosed == sim' = Unlocked /\ eng' = NoEngine /\ slab' = [slab EXCEPT !.cap = 0]

\* the options, and the mmap of p36_ssd_memory_lock_acquire, which may fail
Launch ==
    /\ ssdPc = "start"
    /\ LET bytes == p36_parse_gib_arg(setup.used)
       IN  \/ /\ OptionsRefused(setup) /\ ssdPc' = "closed" /\ UNCHANGED sim
           \/ /\ ~OptionsRefused(setup) /\ ssdPc' = "lock" /\ sim' = [sim EXCEPT !.mapped = bytes]
           \/ /\ ~OptionsRefused(setup) /\ bytes # 0 /\ ssdPc' = "closed" /\ UNCHANGED sim
    /\ UNCHANGED <<setup, eng, reserved, slab>>

\* one chunk of p36_ssd_memory_lock_acquire; a failed mlock gives everything back
LockMore(ok) ==
    /\ ssdPc = "lock" /\ sim.locked < sim.mapped
    /\ IF ok THEN /\ sim' = [sim EXCEPT !.locked = Least2(@ + LockChunk, sim.mapped)]
                  /\ UNCHANGED ssdPc
             ELSE sim' = Unlocked /\ ssdPc' = "closed"
    /\ UNCHANGED <<setup, eng, reserved, slab>>

\* p36_engine_open up to the cache's budget
OpenEngine ==
    /\ ssdPc = "lock" /\ sim.locked = sim.mapped
    /\ LET hint == CtxBytes[setup.ctx]
           cache == AutoCache(hint)
       IN  IF cache = 0 \/ setup.full > Len(setup.layers) THEN
               EngineClosed /\ ssdPc' = "closed"
           ELSE /\ ssdPc' = "seed" /\ UNCHANGED sim
                /\ eng' = [eng EXCEPT !.cache = Dynamic(cache), !.full = WholeLayers(cache), !.hint = hint]
                /\ slab' = SetBudget(slab, Dynamic(cache))
    /\ UNCHANGED <<setup, reserved>>

\* p36_ssd_shrink_cache_experts: a tenth less, rounded up
p36_ssd_shrink_cache_experts(experts) ==
    LET release == ((experts + 9) % (Max32 + 1)) \div 10
    IN  IF experts > release THEN experts - release ELSE 0

\* the loop of p36_vk_stream_cache_init_unlocked on a device with room for that many, tried[k]
\* after k refusals; it never ends for the last sizes of 32 bits, where rounding up wraps and
\* nothing is released
Endless == Max32 + 1
Allocated(from, room) ==
    LET tried[k \in 0..from] ==
            IF k = 0 THEN from
            ELSE LET cap == tried[k - 1]
                 IN  IF cap <= room THEN cap ELSE p36_ssd_shrink_cache_experts(cap)
        last == tried[from]
    IN  IF last > room THEN Endless ELSE last

\* p36_vk_stream_cache_init_unlocked
CacheInit(b, room) ==
    LET from == IF b.runtime # 0 THEN b.runtime ELSE b.budget
        cap == Allocated(from, room)
    IN  [b EXCEPT !.cap = cap, !.runtime = IF cap = from THEN @ ELSE cap]

\* p36_engine_seed_streaming_expert_cache; an expert that cannot be loaded closes the engine
SeedCache(room, ok) ==
    /\ ssdPc = "seed"
    /\ IF ~setup.preload THEN ssdPc' = "open" /\ UNCHANGED <<eng, slab, sim>>
       ELSE LET b == CacheInit(slab, room)
            IN  /\ b.cap # Endless
                /\ IF ok /\ b.cap # 0 THEN ssdPc' = "open" /\ slab' = b /\ UNCHANGED <<eng, sim>>
                   ELSE EngineClosed /\ ssdPc' = "closed"
    /\ UNCHANGED <<setup, reserved>>

\* Mutant: the sessions that exist already are not counted
ContextsOfNew(bytes) ==
    bytes + eng.hint * (IF setup.planned > eng.live + 1 THEN setup.planned - eng.live - 1 ELSE 0)

\* p36_streaming_reserve_session: the contexts that exist, the new one and the planned ones
ContextsWith(bytes) ==
    eng.bytes + bytes
        + eng.hint * (IF setup.planned > eng.live + 1 THEN setup.planned - eng.live - 1 ELSE 0)

\* and the experts that fit beside them
Fit(bytes) ==
    LET limit == ModelLimit(ContextsWith(bytes))
    IN  IF ContextsWith(bytes) > Max64 \/ Fixed >= limit \/ Resident(setup.layers, eng.full) >= limit - Fixed THEN 0
        ELSE (limit - Fixed - Resident(setup.layers, eng.full)) \div Slot

\* p36_session_create; the runtime's allocation may fail after the reservation
CreateSession(s, ctx, ok) ==
    LET fit == Fit(CtxBytes[ctx])
        cache == Least2(fit, eng.cache)
    IN  /\ ssdPc = "open" /\ reserved[s] = 0
        /\ fit >= NUsed
        /\ slab' = IF fit < eng.cache THEN SetBudget(slab, cache) ELSE slab
        /\ eng' = [eng EXCEPT !.cache = cache,
                              !.bytes = IF ok THEN @ + CtxBytes[ctx] ELSE @,
                              !.live = IF ok THEN @ + 1 ELSE @]
        /\ reserved' = IF ok THEN [reserved EXCEPT ![s] = CtxBytes[ctx]] ELSE reserved
        /\ UNCHANGED <<ssdPc, setup, sim>>

\* p36_session_free
FreeSession(s) ==
    /\ ssdPc = "open" /\ reserved[s] # 0
    /\ eng' = [eng EXCEPT !.bytes = @ - reserved[s], !.live = @ - 1]
    /\ reserved' = [reserved EXCEPT ![s] = 0]
    /\ UNCHANGED <<ssdPc, setup, slab, sim>>

\* the first use of the cache by a session
UseCache(room) ==
    /\ ssdPc = "open" /\ eng.live > 0 /\ slab.budget # 0 /\ slab.cap = 0
    /\ slab' = CacheInit(slab, room) /\ slab'.cap # Endless
    /\ UNCHANGED <<ssdPc, setup, eng, reserved, sim>>

\* p36_engine_close once its sessions are gone; a server that swaps models opens another engine
CloseEngine(again) ==
    /\ ssdPc = "open" /\ eng.live = 0
    /\ EngineClosed /\ ssdPc' = (IF again THEN "start" ELSE "closed")
    /\ UNCHANGED <<setup, reserved>>

SsdNext ==
    \/ Launch \/ OpenEngine
    \/ \E ok \in BOOLEAN : LockMore(ok) \/ CloseEngine(ok)
    \/ \E s \in SessionIds, ctx \in DOMAIN CtxBytes, ok \in BOOLEAN : CreateSession(s, ctx, ok)
    \/ \E s \in SessionIds : FreeSession(s)
    \/ \E room \in Rooms : UseCache(room) \/ \E ok \in BOOLEAN : SeedCache(room, ok)

SsdSpec == SsdInit /\ [][SsdNext]_ssdVars

-----------------------------------------------------------------------------

\* the bytes reserved for the contexts of the live sessions
ReservedBytes == UNION {{s} \X (1..reserved[s]) : s \in SessionIds}

\* MemoryKept: however sessions of any sizes come, fail and go, the static weights, the layers
\* kept whole, the contexts of the live sessions, the staging margin and the expert cache stay
\* within the four fifths of the working set that are the model's; the cache is never larger than
\* it may be, and a device that refuses it still gets nine tenths of what it has room for
\* (p36_streaming_reserve_session, p36_ssd_shrink_cache_experts).  The simulated memory is locked
\* as a whole while an engine is open and not at all after a failure or a close.
MemoryKept ==
    /\ eng.bytes = Cardinality(ReservedBytes)
    /\ ssdPc \in {"seed", "open"} => slab.budget = eng.cache
    /\ slab.cap <= slab.budget /\ slab.runtime <= slab.budget
    /\ eng.live > 0 =>
           /\ eng.bytes + Fixed + Resident(setup.layers, eng.full) + eng.cache * Slot + Margin <= ModelBudget
           /\ \A room \in Rooms :
                 10 * Allocated(slab.budget, room) + 9 >= 9 * Least2(room, slab.budget)
    /\ ssdPc \in {"seed", "open"} => sim.locked = p36_parse_gib_arg(setup.used)
    /\ ssdPc = "closed" => sim = Unlocked /\ slab.cap = 0
=============================================================================
