------------------------- MODULE ServerMemoryProofs -------------------------
(***************************************************************************)
(* What the server keeps between requests. The catalog: a request is       *)
(* served by one model, for any number of client threads (a client that    *)
(* swaps is alone, so engine, KV directory and tool memory agree whenever  *)
(* the server is alive). The tool-call memory: what it recalls for an id,  *)
(* for any calls and budgets. The checkpoint store: its budget, and what   *)
(* is found and loaded, for any files, engines and spellings.              *)
(***************************************************************************)
EXTENDS ModelCatalog, ToolMemory, KvStore, Induction, SequenceTheorems,
        FiniteSetTheorems

-----------------------------------------------------------------------------
(* ModelCatalog                                                            *)

Pcs == {"start", "reader", "check", "writer", "swap", "hold", "done"}

CatalogTypes ==
    /\ mcPc \in [Clients -> Pcs]
    /\ want \in [Clients -> Models \cup {NoModel}]
    /\ tries \in [Clients -> 0..MaxTries]
    /\ servedBy \in [Clients -> Models \cup {NoModel}]
    /\ resident \in Models
    /\ toolsOf \subseteq Models
    /\ serverDead \in BOOLEAN

\* The lock as client_main uses it: a client inside server_model_swap excludes the readers
LockExclusive ==
    \A c, d \in Clients :
        mcPc[c] = "swap" /\ mcPc[d] \in {"swap", "check", "hold"} => c = d

\* What server_model_swap replaces always belongs to the resident model
PiecesAgree ==
    ~serverDead => openModel = resident /\ kvDir \in KvDirOf(resident) /\ toolsOf \subseteq {resident}

\* What a client knows at each point of client_main's loop
ClientKnows ==
    \A c \in Clients :
        /\ mcPc[c] \in {"writer", "swap"} => tries[c] < MaxTries /\ want[c] # NoModel
        /\ mcPc[c] = "hold" => /\ servedBy[c] = resident
                               /\ want[c] \in {NoModel, resident} \/ tries[c] = MaxTries

CatalogInv == CatalogTypes /\ LockExclusive /\ PiecesAgree /\ ClientKnows

\* A step of server_model_swap keeps the invariant: the swapping client is alone under the lock
LEMMA SwapKeepsCatalog ==
    ASSUME CatalogInv, NEW c \in Clients, Swap(c)
    PROVE  CatalogInv'
<1> USE DEF CatalogInv, ClientAt, To, MaxTries, KvDirOf, Pcs
<1>0. /\ mcPc[c] = "swap" /\ ~serverDead /\ want[c] \in Models /\ tries[c] \in 0..2
      /\ \A d \in Clients : d # c => mcPc[d] \notin {"swap", "check", "hold"}
  BY DEF Swap, CatalogTypes, LockExclusive, ClientKnows
<1>1. CASE /\ To(c, "reader") /\ tries' = [tries EXCEPT ![c] = @ + 1]
           /\ UNCHANGED <<want, servedBy, resident, openModel, kvDir, toolsOf, serverDead>>
  <2>1. CatalogTypes' BY <1>0, <1>1 DEF CatalogTypes
  <2>2. LockExclusive' BY <1>0, <1>1 DEF CatalogTypes, LockExclusive
  <2>3. PiecesAgree' BY <1>1 DEF PiecesAgree
  <2>4. ClientKnows' BY <1>0, <1>1 DEF CatalogTypes, ClientKnows
  <2>5. QED BY <2>1, <2>2, <2>3, <2>4
<1>2. CASE \E m \in Models, ok \in BOOLEAN : SwapTo(c, m, ok) /\ UNCHANGED servedBy
  <2>1. PICK m \in Models, ok \in BOOLEAN : SwapTo(c, m, ok) /\ UNCHANGED servedBy
    BY <1>2
  <2> USE DEF SwapTo, Gone
  <2>2. CatalogTypes' BY <1>0, <2>1 DEF CatalogTypes
  <2>3. LockExclusive' BY <1>0, <2>1 DEF CatalogTypes, LockExclusive
  <2>4. PiecesAgree' BY <2>1 DEF PiecesAgree
  <2>5. ClientKnows' BY <1>0, <2>1 DEF CatalogTypes, ClientKnows
  <2>6. QED BY <2>2, <2>3, <2>4, <2>5
<1>3. CASE /\ serverDead' = TRUE /\ toolsOf' = {} /\ UNCHANGED <<mcPc, tries, want, servedBy, resident>>
  BY <1>3 DEF CatalogTypes, LockExclusive, PiecesAgree, ClientKnows
<1>4. QED
  BY <1>0, <1>1, <1>2, <1>3 DEF Swap, CatalogTypes

\* Every other step of a client keeps it
LEMMA ClientKeepsCatalog ==
    ASSUME CatalogInv, NEW c \in Clients,
           \/ Arrive(c) \/ ReadLock(c) \/ CheckModel(c) \/ WriteLock(c)
           \/ Serve(c) \/ Release(c) \/ Reconnect(c)
    PROVE  CatalogInv'
<1> USE DEF CatalogInv, ClientAt, To, MaxTries, KvDirOf, Pcs, Gone
<1>1. CASE Arrive(c)
  BY <1>1 DEF Arrive, CatalogTypes, LockExclusive, PiecesAgree, ClientKnows
<1>2. CASE ReadLock(c)
  BY <1>2 DEF ReadLock, Writer, CatalogTypes, LockExclusive, PiecesAgree, ClientKnows
<1>3. CASE CheckModel(c)
  <2>1. CatalogTypes' BY <1>3 DEF CheckModel, CatalogTypes
  <2>2. LockExclusive' BY <1>3 DEF CheckModel, CatalogTypes, LockExclusive
  <2>3. PiecesAgree' BY <1>3 DEF CheckModel, PiecesAgree
  <2>4. ClientKnows' BY <1>3 DEF CheckModel, CatalogTypes, ClientKnows
  <2>5. QED BY <2>1, <2>2, <2>3, <2>4
<1>4. CASE WriteLock(c)
  BY <1>4 DEF WriteLock, Writer, Readers, CatalogTypes, LockExclusive, PiecesAgree, ClientKnows
<1>5. CASE Serve(c)
  BY <1>5 DEF Serve, CatalogTypes, LockExclusive, PiecesAgree, ClientKnows
<1>6. CASE Release(c)
  BY <1>6 DEF Release, CatalogTypes, LockExclusive, PiecesAgree, ClientKnows
<1>7. CASE Reconnect(c)
  BY <1>7 DEF Reconnect, CatalogTypes, LockExclusive, PiecesAgree, ClientKnows
<1>8. QED
  BY <1>1, <1>2, <1>3, <1>4, <1>5, <1>6, <1>7

\* The inductive invariant of the catalog holds of every behaviour
THEOREM CatalogInvariant == McSpec => []CatalogInv
<1>1. McInit => CatalogInv
  <2> SUFFICES ASSUME McInit PROVE CatalogInv
    OBVIOUS
  <2>0. serverDead \in BOOLEAN BY Zenon DEF McInit
  <2>1. CatalogTypes BY <2>0 DEF McInit, CatalogTypes, Pcs, MaxTries
  <2>2. LockExclusive /\ ClientKnows BY DEF McInit, LockExclusive, ClientKnows
  <2>3. PiecesAgree BY DEF McInit, PiecesAgree, KvDirOf
  <2>4. QED BY <2>1, <2>2, <2>3 DEF CatalogInv
<1>2. CatalogInv /\ [McNext]_mcVars => CatalogInv'
  <2> SUFFICES ASSUME CatalogInv, [McNext]_mcVars PROVE CatalogInv'
    OBVIOUS
  <2>1. CASE UNCHANGED mcVars
    BY <2>1 DEF mcVars, CatalogInv, CatalogTypes, LockExclusive, PiecesAgree, ClientKnows
  <2>2. CASE McNext
    BY <2>2, SwapKeepsCatalog, ClientKeepsCatalog DEF McNext
  <2>3. QED BY <2>1, <2>2
<1>3. QED BY <1>1, <1>2, PTL DEF McSpec

\* While a request is served, the engine, the KV directory, the tool memory and the resident
\* model are those of the model it started with, and that model is the one it names unless it
\* used its three tries (client_main, server_model_swap)
THEOREM CatalogServesOneModel == McSpec => []ServedByOneModel
<1>1. CatalogInv => ServedByOneModel
  BY DEF CatalogInv, CatalogTypes, PiecesAgree, ClientKnows, ServedByOneModel, ClientAt, KvDirOf
<1>2. QED BY <1>1, CatalogInvariant, PTL

-----------------------------------------------------------------------------
(* ToolMemory                                                              *)

-----------------------------------------------------------------------------
(* The least-recently-used list                                            *)

NoDup(s) == \A i, k \in DOMAIN s : s[i] = s[k] => i = k

\* Unlinking the entry at position k closes the gap
LEMMA WithoutAt ==
    ASSUME NEW s \in Seq(CallIds), NoDup(s), NEW k \in DOMAIN s
    PROVE  /\ Without(s, s[k]) \in Seq(CallIds) /\ Len(Without(s, s[k])) = Len(s) - 1
           /\ \A i \in 1..Len(s) - 1 : Without(s, s[k])[i] = IF i < k THEN s[i] ELSE s[i + 1]
<1>0. Len(s) \in Nat /\ DOMAIN s = 1..Len(s) /\ k \in 1..Len(s) /\ \A i \in 1..Len(s) : s[i] \in CallIds
  BY ElementOfSeq
<1>1. (CHOOSE i \in {i \in DOMAIN s : s[i] = s[k]} : TRUE) = k
  BY DEF NoDup
<1>2. Without(s, s[k]) = SubSeq(s, 1, k - 1) \o SubSeq(s, k + 1, Len(s))
  BY <1>1 DEF Without, RemoveAt
<1>3. /\ SubSeq(s, 1, k - 1) \in Seq(CallIds) /\ Len(SubSeq(s, 1, k - 1)) = k - 1
      /\ \A i \in 1..k - 1 : SubSeq(s, 1, k - 1)[i] = s[i]
  BY <1>0, SubSeqProperties
<1>4. /\ SubSeq(s, k + 1, Len(s)) \in Seq(CallIds) /\ Len(SubSeq(s, k + 1, Len(s))) = Len(s) - k
      /\ \A i \in 1..Len(s) - k : SubSeq(s, k + 1, Len(s))[i] = s[k + i]
  BY <1>0, SubSeqProperties
<1> DEFINE a == SubSeq(s, 1, k - 1)
           b == SubSeq(s, k + 1, Len(s))
<1>5. a \in Seq(CallIds) /\ Len(a) = k - 1 /\ b \in Seq(CallIds) /\ Len(b) = Len(s) - k
      /\ (\A i \in 1..k - 1 : a[i] = s[i]) /\ \A i \in 1..Len(s) - k : b[i] = s[k + i]
  BY <1>3, <1>4
<1>6. Without(s, s[k]) = a \o b
  BY <1>2
<1> HIDE DEF a, b
<1>7. /\ a \o b \in Seq(CallIds) /\ Len(a \o b) = Len(a) + Len(b)
      /\ \A i \in 1..Len(a) + Len(b) : (a \o b)[i] = IF i <= Len(a) THEN a[i] ELSE b[i - Len(a)]
  BY <1>5, ConcatProperties
<1>8. ASSUME NEW i \in 1..Len(s) - 1 PROVE (a \o b)[i] = IF i < k THEN s[i] ELSE s[i + 1]
  <2>1. CASE i < k
    <3>1. i \in 1..k - 1 /\ i \in 1..Len(a) + Len(b) /\ i <= Len(a)
      BY <1>0, <1>5, <2>1
    <3> QED BY <1>5, <1>7, <2>1, <3>1
  <2>2. CASE i >= k
    <3>1. i - k + 1 \in 1..Len(s) - k /\ i \in 1..Len(a) + Len(b) /\ ~(i <= Len(a))
          /\ i - Len(a) = i - k + 1 /\ k + (i - k + 1) = i + 1
      BY <1>0, <1>5, <2>2
    <3>2. b[i - k + 1] = s[i + 1]
      BY <1>5, <3>1
    <3> QED BY <1>0, <1>7, <2>2, <3>1, <3>2
  <2>3. i < k \/ i >= k
    BY <1>0
  <2> QED BY <2>1, <2>2, <2>3
<1>9. Len(a \o b) = Len(s) - 1
  BY <1>0, <1>5, <1>7
<1> QED BY <1>6, <1>7, <1>8, <1>9

\* An id is unlinked and nothing else
LEMMA WithoutFacts ==
    ASSUME NEW s \in Seq(CallIds), NoDup(s), NEW id
    PROVE  /\ Without(s, id) \in Seq(CallIds) /\ NoDup(Without(s, id))
           /\ Range(Without(s, id)) = Range(s) \ {id}
           /\ Len(Without(s, id)) <= Len(s)
<1>1. CASE \A k \in DOMAIN s : s[k] # id
  <2>1. Without(s, id) = s
    BY <1>1 DEF Without
  <2> QED BY <1>1, <2>1 DEF Range
<1>2. ASSUME NEW k \in DOMAIN s, s[k] = id
      PROVE  /\ Without(s, id) \in Seq(CallIds) /\ NoDup(Without(s, id))
             /\ Range(Without(s, id)) = Range(s) \ {id} /\ Len(Without(s, id)) <= Len(s)
  <2> DEFINE u == Without(s, id)
  <2>1. /\ u \in Seq(CallIds) /\ Len(u) = Len(s) - 1
        /\ \A i \in 1..Len(s) - 1 : u[i] = IF i < k THEN s[i] ELSE s[i + 1]
    BY <1>2, WithoutAt
  <2> HIDE DEF u
  <2>2. Len(s) \in Nat /\ DOMAIN s = 1..Len(s) /\ k \in 1..Len(s) /\ DOMAIN u = 1..Len(s) - 1
    BY <2>1
  <2>3. NoDup(u)
    <3> SUFFICES ASSUME NEW i \in 1..Len(s) - 1, NEW m \in 1..Len(s) - 1, u[i] = u[m] PROVE i = m
      BY <2>2 DEF NoDup
    <3> DEFINE old(j) == IF j < k THEN j ELSE j + 1
    <3>1. old(i) \in 1..Len(s) /\ old(m) \in 1..Len(s) /\ (old(i) = old(m) => i = m)
      BY <2>2
    <3>2. u[i] = s[old(i)] /\ u[m] = s[old(m)]
      BY <2>1
    <3> HIDE DEF old
    <3> QED BY <2>2, <3>1, <3>2 DEF NoDup
  <2>4. ASSUME NEW x, x \in Range(s) \ {id} PROVE x \in Range(u)
    <3>1. PICK i \in 1..Len(s) : s[i] = x
      BY <2>2, <2>4 DEF Range
    <3>2. CASE i < k
      <4>1. i \in 1..Len(s) - 1 /\ u[i] = x
        BY <2>1, <2>2, <3>1, <3>2
      <4> QED BY <2>2, <4>1 DEF Range
    <3>3. CASE i > k
      <4>1. i - 1 \in 1..Len(s) - 1 /\ u[i - 1] = x
        BY <2>1, <2>2, <3>1, <3>3
      <4> QED BY <2>2, <4>1 DEF Range
    <3>4. i # k
      BY <1>2, <2>4, <3>1
    <3> QED BY <2>2, <3>2, <3>3, <3>4
  <2>5. ASSUME NEW x, x \in Range(u) PROVE x \in Range(s) \ {id}
    <3>1. PICK i \in 1..Len(s) - 1 : u[i] = x
      BY <2>2, <2>5 DEF Range
    <3>2. \E m \in 1..Len(s) : m # k /\ x = s[m]
      BY <2>1, <2>2, <3>1
    <3> QED BY <1>2, <2>2, <3>2 DEF NoDup, Range
  <2> QED BY <2>1, <2>2, <2>3, <2>4, <2>5 DEF u
<1> QED BY <1>1, <1>2

\* Moving an id to the front
LEMMA MovedFirstFacts ==
    ASSUME NEW s \in Seq(CallIds), NoDup(s), NEW id \in CallIds
    PROVE  /\ MovedFirst(s, id) \in Seq(CallIds) /\ NoDup(MovedFirst(s, id))
           /\ Range(MovedFirst(s, id)) = Range(s) \cup {id}
<1> DEFINE u == Without(s, id)
           v == MovedFirst(s, id)
<1>1. u \in Seq(CallIds) /\ NoDup(u) /\ Range(u) = Range(s) \ {id}
  BY WithoutFacts
<1>2. /\ v \in Seq(CallIds) /\ Len(v) = Len(u) + 1 /\ v[1] = id
      /\ \A i \in 1..Len(u) : v[i + 1] = u[i]
  <2>1. <<id>> \in Seq(CallIds) /\ Len(<<id>>) = 1 /\ v = <<id>> \o u
    BY DEF MovedFirst
  <2> HIDE DEF u, v
  <2> QED BY <1>1, <2>1, ConcatProperties
<1> HIDE DEF u, v
<1>3. Len(u) \in Nat /\ DOMAIN u = 1..Len(u) /\ DOMAIN v = 1..Len(u) + 1
  BY <1>1, <1>2
<1>4. \A i \in 1..Len(u) + 1 : i = 1 \/ (i - 1 \in 1..Len(u) /\ v[i] = u[i - 1])
  BY <1>2, <1>3
<1>5. NoDup(v)
  <2>1. \A i \in 1..Len(u) : u[i] # id
    BY <1>1, <1>3 DEF Range
  <2> SUFFICES ASSUME NEW i \in 1..Len(u) + 1, NEW m \in 1..Len(u) + 1, v[i] = v[m] PROVE i = m
    BY <1>3 DEF NoDup
  <2>2. CASE i = 1 \/ m = 1
    BY <1>2, <1>4, <2>1, <2>2
  <2>3. CASE i # 1 /\ m # 1
    <3>1. i - 1 \in 1..Len(u) /\ m - 1 \in 1..Len(u) /\ u[i - 1] = u[m - 1]
      BY <1>4, <2>3
    <3>2. i - 1 = m - 1
      BY <1>1, <1>3, <3>1 DEF NoDup
    <3> QED BY <1>3, <3>2
  <2> QED BY <2>2, <2>3
<1>6. Range(v) = Range(u) \cup {id}
  <2>1. ASSUME NEW x \in Range(u) PROVE x \in Range(v)
    <3>1. PICK i \in 1..Len(u) : u[i] = x
      BY <1>3 DEF Range
    <3>2. i + 1 \in 1..Len(u) + 1 /\ v[i + 1] = x
      BY <1>2, <1>3, <3>1
    <3> QED BY <1>3, <3>2 DEF Range
  <2>2. id \in Range(v)
    <3>1. 1 \in 1..Len(u) + 1
      BY <1>3
    <3> QED BY <1>2, <1>3, <3>1 DEF Range
  <2>3. ASSUME NEW x \in Range(v) PROVE x \in Range(u) \cup {id}
    <3>1. PICK i \in 1..Len(u) + 1 : v[i] = x
      BY <1>3 DEF Range
    <3> QED BY <1>2, <1>3, <1>4, <3>1 DEF Range
  <2> QED BY <2>1, <2>2, <2>3
<1> QED BY <1>1, <1>2, <1>5, <1>6 DEF v

\* Prefixes position by position
LEMMA PrefixFacts ==
    ASSUME NEW s \in Seq(CallIds), NEW r \in Seq(CallIds)
    PROVE  IsPrefix(s, r) <=> Len(s) <= Len(r) /\ \A i \in 1..Len(s) : s[i] = r[i]
<1>1. Len(s) \in Nat /\ Len(r) \in Nat /\ (\A i \in 1..Len(s) : s[i] \in CallIds)
      /\ \A i \in 1..Len(r) : r[i] \in CallIds
  BY ElementOfSeq
<1>2. /\ SubSeq(s, 1, Len(s)) \in Seq(CallIds) /\ Len(SubSeq(s, 1, Len(s))) = Len(s)
      /\ \A i \in 1..Len(s) : SubSeq(s, 1, Len(s))[i] = s[i]
  BY <1>1, SubSeqProperties
<1>3. ASSUME Len(s) <= Len(r)
      PROVE  /\ SubSeq(r, 1, Len(s)) \in Seq(CallIds) /\ Len(SubSeq(r, 1, Len(s))) = Len(s)
             /\ \A i \in 1..Len(s) : SubSeq(r, 1, Len(s))[i] = r[i]
  BY <1>1, <1>3, SubSeqProperties
<1> QED BY <1>1, <1>2, <1>3, SeqEqual DEF IsPrefix

\* A use moves the same id to the front of the list and of the order of uses
LEMMA MovedPrefix ==
    ASSUME NEW s \in Seq(CallIds), NEW r \in Seq(CallIds), NoDup(s), NoDup(r), IsPrefix(s, r),
           NEW id \in CallIds
    PROVE  IsPrefix(MovedFirst(s, id), MovedFirst(r, id))
<1> DEFINE u == Without(s, id)
           w == Without(r, id)
<1>1. u \in Seq(CallIds) /\ w \in Seq(CallIds)
  BY WithoutFacts
<1>2. Len(s) \in Nat /\ Len(r) \in Nat /\ DOMAIN s = 1..Len(s) /\ DOMAIN r = 1..Len(r)
      /\ Len(s) <= Len(r) /\ \A i \in 1..Len(s) : s[i] = r[i]
  BY PrefixFacts
<1>3. Len(u) <= Len(w) /\ \A i \in 1..Len(u) : u[i] = w[i]
  <2>1. CASE \E k \in 1..Len(s) : s[k] = id
    <3>1. PICK k \in 1..Len(s) : s[k] = id
      BY <2>1
    <3>2. k \in 1..Len(r) /\ r[k] = id
      BY <1>2, <3>1
    <3>3. Len(u) = Len(s) - 1 /\ \A i \in 1..Len(s) - 1 : u[i] = IF i < k THEN s[i] ELSE s[i + 1]
      BY <1>2, <3>1, WithoutAt
    <3>4. Len(w) = Len(r) - 1 /\ \A i \in 1..Len(r) - 1 : w[i] = IF i < k THEN r[i] ELSE r[i + 1]
      BY <1>2, <3>2, WithoutAt
    <3> HIDE DEF u, w
    <3> QED BY <1>2, <3>3, <3>4
  <2>2. CASE ~\E k \in 1..Len(s) : s[k] = id
    <3>1. u = s
      BY <1>2, <2>2 DEF Without
    <3>2. CASE \A k \in 1..Len(r) : r[k] # id
      <4>1. w = r
        BY <1>2, <3>2 DEF Without
      <4> QED BY <1>2, <3>1, <4>1
    <3>3. CASE \E k \in 1..Len(r) : r[k] = id
      <4>1. PICK k \in 1..Len(r) : r[k] = id
        BY <3>3
      <4>2. Len(w) = Len(r) - 1 /\ \A i \in 1..Len(r) - 1 : w[i] = IF i < k THEN r[i] ELSE r[i + 1]
        BY <1>2, <4>1, WithoutAt
      <4>3. k > Len(s)
        BY <1>2, <2>2, <4>1
      <4> HIDE DEF u, w
      <4> QED BY <1>2, <3>1, <4>2, <4>3
    <3> QED BY <3>2, <3>3
  <2> QED BY <2>1, <2>2
<1>4. /\ MovedFirst(s, id) \in Seq(CallIds) /\ MovedFirst(r, id) \in Seq(CallIds)
      /\ Len(MovedFirst(s, id)) = Len(u) + 1 /\ Len(MovedFirst(r, id)) = Len(w) + 1
      /\ \A i \in 1..Len(u) + 1 : MovedFirst(s, id)[i] = IF i = 1 THEN id ELSE u[i - 1]
      /\ \A i \in 1..Len(w) + 1 : MovedFirst(r, id)[i] = IF i = 1 THEN id ELSE w[i - 1]
  <2>1. <<id>> \in Seq(CallIds) /\ Len(<<id>>) = 1 /\ <<id>>[1] = id
    OBVIOUS
  <2>2. MovedFirst(s, id) = <<id>> \o u /\ MovedFirst(r, id) = <<id>> \o w
    BY DEF MovedFirst
  <2> HIDE DEF u, w
  <2>3. /\ <<id>> \o u \in Seq(CallIds) /\ Len(<<id>> \o u) = 1 + Len(u)
        /\ \A i \in 1..1 + Len(u) : (<<id>> \o u)[i] = IF i <= 1 THEN <<id>>[i] ELSE u[i - 1]
    BY <1>1, <2>1, ConcatProperties
  <2>4. /\ <<id>> \o w \in Seq(CallIds) /\ Len(<<id>> \o w) = 1 + Len(w)
        /\ \A i \in 1..1 + Len(w) : (<<id>> \o w)[i] = IF i <= 1 THEN <<id>>[i] ELSE w[i - 1]
    BY <1>1, <2>1, ConcatProperties
  <2> QED BY <1>1, <2>1, <2>2, <2>3, <2>4
<1> HIDE DEF u, w
<1>5. Len(u) \in Nat /\ Len(w) \in Nat
  BY <1>1
<1>6. ASSUME NEW i \in 1..Len(u) + 1 PROVE MovedFirst(s, id)[i] = MovedFirst(r, id)[i]
  <2>1. i \in 1..Len(w) + 1 /\ (i # 1 => i - 1 \in 1..Len(u))
    BY <1>3, <1>5
  <2> QED BY <1>3, <1>4, <2>1
<1>7. Len(MovedFirst(s, id)) <= Len(MovedFirst(r, id))
      /\ \A i \in 1..Len(MovedFirst(s, id)) : MovedFirst(s, id)[i] = MovedFirst(r, id)[i]
  BY <1>3, <1>4, <1>5, <1>6
<1>8. MovedFirst(s, id) \in Seq(CallIds) /\ MovedFirst(r, id) \in Seq(CallIds)
  BY <1>4
<1> QED BY ONLY <1>7, <1>8, PrefixFacts

\* Dropping the tail leaves a prefix
LEMMA DroppedTail ==
    ASSUME NEW s \in Seq(CallIds), NEW r \in Seq(CallIds), NoDup(s), IsPrefix(s, r), s # <<>>
    PROVE  /\ Last(s) \in Range(s) /\ Last(s) \in CallIds
           /\ Len(Without(s, Last(s))) = Len(s) - 1 /\ IsPrefix(Without(s, Last(s)), r)
<1>1. Len(s) \in Nat /\ Len(s) \in DOMAIN s /\ DOMAIN s = 1..Len(s) /\ s[Len(s)] \in CallIds /\ Last(s) = s[Len(s)]
  BY EmptySeq DEF Last
<1> DEFINE u == Without(s, Last(s))
<1>2. /\ u \in Seq(CallIds) /\ Len(u) = Len(s) - 1
      /\ \A i \in 1..Len(s) - 1 : u[i] = IF i < Len(s) THEN s[i] ELSE s[i + 1]
  BY <1>1, WithoutAt
<1> HIDE DEF u
<1>3. Len(r) \in Nat /\ Len(s) <= Len(r) /\ \A i \in 1..Len(s) : s[i] = r[i]
  BY PrefixFacts
<1>4. Len(u) <= Len(r) /\ \A i \in 1..Len(u) : u[i] = r[i]
  BY <1>1, <1>2, <1>3
<1>5. IsPrefix(u, r)
  BY <1>2, <1>4, PrefixFacts
<1>6. Last(s) \in Range(s)
  BY <1>1 DEF Range
<1> QED BY <1>1, <1>2, <1>5, <1>6 DEF u

-----------------------------------------------------------------------------
(* Reference counts and bytes                                              *)

Memory == [lru : Seq(CallIds), block : [CallIds -> Texts \cup {NoText}], disk : [CallIds -> BOOLEAN],
           think : [CallIds -> BOOLEAN], refs : [Texts -> Nat], entries : Nat, bytes : Nat]

Stored(m) == {i \in CallIds : Known(m, i)}
Holding(m, t) == {i \in Stored(m) : m.block[i] = t}
Spoken(m) == {m.block[i] : i \in Stored(m)}

\* what the memory keeps about its entries, whatever the limits
Counts(m) ==
    /\ m \in Memory
    /\ NoDup(m.lru) /\ Range(m.lru) = Stored(m)
    /\ \A t \in Texts : m.refs[t] = Cardinality(Holding(m, t))
    /\ m.entries = Cardinality(Stored(m))
    /\ IsFiniteSet(BlockBytes(Spoken(m)))
    /\ m.bytes = EntryBytes * m.entries + Cardinality(BlockBytes(Spoken(m)))

\* A block adds its bytes to those of the others
LEMMA BlockAdds ==
    ASSUME NEW T \in SUBSET Texts, NEW t \in Texts, t \notin T, IsFiniteSet(BlockBytes(T))
    PROVE  /\ IsFiniteSet(BlockBytes(T \cup {t}))
           /\ Cardinality(BlockBytes(T \cup {t})) = Cardinality(BlockBytes(T)) + TextBytes[t]
<1> DEFINE B == {t} \X (1..TextBytes[t])
<1>1. BlockBytes(T \cup {t}) = BlockBytes(T) \cup B /\ BlockBytes(T) \cap B = {}
  BY DEF BlockBytes
<1>2. IsFiniteSet(B) /\ Cardinality(B) = TextBytes[t]
  <2>1. TextBytes[t] \in Nat
    BY ToolAssumption
  <2>2. IsFiniteSet(1..TextBytes[t]) /\ Cardinality(1..TextBytes[t]) = TextBytes[t]
    BY <2>1, FS_Interval
  <2>3. IsFiniteSet({t}) /\ Cardinality({t}) = 1
    BY FS_Singleton
  <2>4. IsFiniteSet(B) /\ Cardinality(B) = 1 * TextBytes[t]
    BY <2>2, <2>3, FS_Product
  <2> QED BY <2>1, <2>4
<1> HIDE DEF B
<1>3. Cardinality(BlockBytes(T)) \in Nat /\ TextBytes[t] \in Nat
  BY FS_CardinalityType, ToolAssumption
<1>4. Cardinality({}) = 0
  BY FS_EmptySet
<1>5. /\ IsFiniteSet(BlockBytes(T) \cup B)
      /\ Cardinality(BlockBytes(T) \cup B)
           = Cardinality(BlockBytes(T)) + Cardinality(B) - Cardinality(BlockBytes(T) \cap B)
  BY <1>2, FS_Union
<1>6. Cardinality(BlockBytes(T) \cap B) = 0
  BY <1>1, <1>4, Zenon
<1>7. Cardinality(BlockBytes(T) \cup B) = Cardinality(BlockBytes(T)) + TextBytes[t]
  BY <1>2, <1>3, <1>5, <1>6
<1> QED BY <1>1, <1>5, <1>7

\* The bytes without a block
LEMMA BlockGoes ==
    ASSUME NEW T \in SUBSET Texts, NEW t \in T, IsFiniteSet(BlockBytes(T))
    PROVE  /\ IsFiniteSet(BlockBytes(T \ {t}))
           /\ Cardinality(BlockBytes(T)) = Cardinality(BlockBytes(T \ {t})) + TextBytes[t]
<1>1. BlockBytes(T \ {t}) \in SUBSET BlockBytes(T)
  BY DEF BlockBytes
<1>2. IsFiniteSet(BlockBytes(T \ {t}))
  BY <1>1, FS_Subset
<1>3. (T \ {t}) \cup {t} = T /\ T \ {t} \in SUBSET Texts /\ t \in Texts /\ t \notin T \ {t}
  OBVIOUS
<1>4. Cardinality(BlockBytes((T \ {t}) \cup {t})) = Cardinality(BlockBytes(T \ {t})) + TextBytes[t]
  BY <1>2, <1>3, BlockAdds
<1> QED BY <1>2, <1>3, <1>4

\* What is counted is finite, and a text has references when some entry has it
LEMMA CountsFinite ==
    ASSUME NEW m, Counts(m)
    PROVE  /\ IsFiniteSet(Stored(m)) /\ Spoken(m) \in SUBSET Texts
           /\ \A t \in Texts : /\ IsFiniteSet(Holding(m, t)) /\ Cardinality(Holding(m, t)) \in Nat
                               /\ (m.refs[t] = 0 <=> t \notin Spoken(m))
<1>1. Stored(m) \in SUBSET CallIds /\ IsFiniteSet(Stored(m))
  <2>1. Stored(m) \in SUBSET CallIds
    BY DEF Stored
  <2> QED BY <2>1, ToolAssumption, FS_Subset
<1>2. Spoken(m) \in SUBSET Texts
  BY DEF Counts, Memory, Spoken, Stored, Known
<1>3. ASSUME NEW t \in Texts
      PROVE  /\ IsFiniteSet(Holding(m, t)) /\ Cardinality(Holding(m, t)) \in Nat
             /\ (m.refs[t] = 0 <=> t \notin Spoken(m))
  <2>1. Holding(m, t) \in SUBSET Stored(m)
    BY DEF Holding
  <2>2. IsFiniteSet(Holding(m, t)) /\ Cardinality(Holding(m, t)) \in Nat
    BY <1>1, <2>1, FS_Subset, FS_CardinalityType
  <2>3. Cardinality(Holding(m, t)) = 0 <=> Holding(m, t) = {}
    BY <2>2, FS_EmptySet
  <2>4. Holding(m, t) = {} <=> t \notin Spoken(m)
    BY DEF Holding, Spoken
  <2> QED BY <2>2, <2>3, <2>4 DEF Counts
<1> QED BY <1>1, <1>2, <1>3

\* A new entry
LEMMA AddEntryKeeps ==
    ASSUME NEW m, Counts(m), NEW id \in CallIds, ~Known(m, id), NEW t \in Texts, NEW d \in BOOLEAN
    PROVE  /\ Counts(AddEntry(m, id, t, d))
           /\ AddEntry(m, id, t, d).lru = <<id>> \o m.lru
           /\ AddEntry(m, id, t, d).block = [m.block EXCEPT ![id] = t]
<1> DEFINE n == AddEntry(m, id, t, d)
<1>1. m \in Memory /\ m.block[id] = NoText /\ t # NoText /\ EntryBytes \in Nat /\ TextBytes[t] \in Nat
  BY ToolAssumption DEF Counts, Memory, Known
<1>2. /\ n.lru = <<id>> \o m.lru /\ n.block = [m.block EXCEPT ![id] = t]
      /\ n.disk = [m.disk EXCEPT ![id] = d] /\ n.think = [m.think EXCEPT ![id] = FALSE]
      /\ n.refs = [m.refs EXCEPT ![t] = @ + 1] /\ n.entries = m.entries + 1
      /\ n.bytes = m.bytes + EntryBytes + (IF m.refs[t] = 0 THEN TextBytes[t] ELSE 0)
  BY <1>1 DEF AddEntry, Memory
<1>3. n.lru = MovedFirst(m.lru, id)
  <2>1. \A i \in DOMAIN m.lru : m.lru[i] # id
    BY DEF Counts, Range, Stored
  <2>2. Without(m.lru, id) = m.lru
    BY <2>1 DEF Without
  <2> QED BY <1>2, <2>2 DEF MovedFirst
<1>4. n.lru \in Seq(CallIds) /\ NoDup(n.lru) /\ Range(n.lru) = Range(m.lru) \cup {id}
  BY <1>3, MovedFirstFacts DEF Counts, Memory
<1>5. n \in Memory
  <2>1. n.block \in [CallIds -> Texts \cup {NoText}] /\ n.disk \in [CallIds -> BOOLEAN]
        /\ n.think \in [CallIds -> BOOLEAN] /\ n.refs \in [Texts -> Nat] /\ n.entries \in Nat /\ n.bytes \in Nat
    BY <1>1, <1>2 DEF Memory
  <2>2. n = [m EXCEPT !.bytes = n.bytes, !.refs = n.refs, !.block = n.block, !.disk = n.disk, !.think = n.think,
                      !.lru = n.lru, !.entries = n.entries]
    BY <1>1, <1>2 DEF AddEntry
  <2> HIDE DEF n
  <2> QED BY <1>1, <1>4, <2>1, <2>2 DEF Memory
<1> HIDE DEF n
<1>6. Stored(n) = Stored(m) \cup {id} /\ id \notin Stored(m)
  BY <1>1, <1>2 DEF Stored, Known, Memory
<1>7. Spoken(n) = Spoken(m) \cup {t}
  <2>1. n.block[id] = t /\ \A i \in Stored(m) : n.block[i] = m.block[i]
    BY <1>1, <1>2, <1>6 DEF Stored, Memory
  <2>2. ASSUME NEW x \in Spoken(n) PROVE x \in Spoken(m) \cup {t}
    <3>1. PICK i \in Stored(n) : x = n.block[i]
      BY <2>2 DEF Spoken
    <3> QED BY <1>6, <2>1, <3>1 DEF Spoken
  <2>3. ASSUME NEW x \in Spoken(m) PROVE x \in Spoken(n)
    <3>1. PICK i \in Stored(m) : x = m.block[i]
      BY <2>3 DEF Spoken
    <3>2. i \in Stored(n) /\ x = n.block[i]
      BY <1>6, <2>1, <3>1
    <3> QED BY <3>2 DEF Spoken
  <2>4. t \in Spoken(n)
    BY <1>6, <2>1 DEF Spoken
  <2> QED BY <2>2, <2>3, <2>4
<1>8. /\ IsFiniteSet(Stored(m)) /\ Spoken(m) \in SUBSET Texts
      /\ \A x \in Texts : /\ IsFiniteSet(Holding(m, x)) /\ Cardinality(Holding(m, x)) \in Nat
                          /\ (m.refs[x] = 0 <=> x \notin Spoken(m))
  BY CountsFinite
<1>9. n.entries = Cardinality(Stored(n))
  <2>1. IsFiniteSet(Stored(m)) /\ id \notin Stored(m)
    BY <1>6, <1>8
  <2>2. Cardinality(Stored(m) \cup {id}) = Cardinality(Stored(m)) + 1
    BY ONLY <2>1, FS_AddElement
  <2> QED BY <1>2, <1>6, <2>2 DEF Counts
<1>10. ASSUME NEW x \in Texts PROVE n.refs[x] = Cardinality(Holding(n, x))
  <2>1. CASE x = t
    <3>1. Holding(n, x) = Holding(m, x) \cup {id} /\ id \notin Holding(m, x)
      BY <1>1, <1>2, <1>6, <2>1 DEF Holding, Memory
    <3>2. Cardinality(Holding(n, x)) = Cardinality(Holding(m, x)) + 1
      BY <1>8, <3>1, FS_AddElement
    <3> QED BY <1>1, <1>2, <2>1, <3>2 DEF Counts, Memory
  <2>2. CASE x # t
    <3>1. Holding(n, x) = Holding(m, x)
      BY <1>1, <1>2, <1>6, <2>2 DEF Holding, Memory
    <3> QED BY <1>1, <1>2, <2>2, <3>1 DEF Counts, Memory
  <2> QED BY <2>1, <2>2
<1>11. IsFiniteSet(BlockBytes(Spoken(n))) /\ n.bytes = EntryBytes * n.entries + Cardinality(BlockBytes(Spoken(n)))
  <2>1. EntryBytes * (m.entries + 1) = EntryBytes * m.entries + EntryBytes /\ EntryBytes * m.entries \in Nat
    BY <1>1 DEF Memory
  <2>2. IsFiniteSet(BlockBytes(Spoken(m))) /\ Cardinality(BlockBytes(Spoken(m))) \in Nat
    BY FS_CardinalityType DEF Counts
  <2>3. m.bytes = EntryBytes * m.entries + Cardinality(BlockBytes(Spoken(m)))
    BY DEF Counts
  <2>4. CASE t \in Spoken(m)
    <3>1. Spoken(n) = Spoken(m) /\ n.bytes = m.bytes + EntryBytes + 0
      BY <1>2, <1>7, <1>8, <2>4
    <3> QED BY <1>1, <1>2, <2>1, <2>2, <2>3, <3>1
  <2>5. CASE t \notin Spoken(m)
    <3>1. n.bytes = m.bytes + EntryBytes + TextBytes[t]
      BY <1>2, <1>8, <2>5
    <3>2. /\ IsFiniteSet(BlockBytes(Spoken(n)))
          /\ Cardinality(BlockBytes(Spoken(n))) = Cardinality(BlockBytes(Spoken(m))) + TextBytes[t]
      BY <1>7, <1>8, <2>2, <2>5, BlockAdds
    <3> QED BY <1>1, <1>2, <2>1, <2>2, <2>3, <3>1, <3>2
  <2> QED BY <2>4, <2>5
<1>12. Range(n.lru) = Stored(n)
  BY <1>4, <1>6 DEF Counts
<1>13. Counts(n)
  BY <1>4, <1>5, <1>9, <1>10, <1>11, <1>12 DEF Counts
<1> QED BY <1>2, <1>13 DEF n

\* What goes with an entry
LEMMA RemoveFields ==
    ASSUME NEW m \in Memory, NEW id \in CallIds, Known(m, id), Without(m.lru, id) \in Seq(CallIds)
    PROVE  LET n == RemoveEntry(m, id)
               t == m.block[id]
               b == IF m.bytes >= EntryBytes THEN m.bytes - EntryBytes ELSE 0
           IN  /\ n \in Memory /\ t \in Texts
               /\ n.lru = Without(m.lru, id) /\ n.block = [m.block EXCEPT ![id] = NoText]
               /\ n.refs = [m.refs EXCEPT ![t] = IF m.refs[t] > 1 THEN m.refs[t] - 1 ELSE 0]
               /\ n.entries = IF m.entries > 0 THEN m.entries - 1 ELSE 0
               /\ n.bytes = IF m.refs[t] > 1 THEN b
                            ELSE IF b >= TextBytes[t] THEN b - TextBytes[t] ELSE 0
<1> DEFINE t == m.block[id]
           b == IF m.bytes >= EntryBytes THEN m.bytes - EntryBytes ELSE 0
           e == IF m.entries > 0 THEN m.entries - 1 ELSE 0
           x == [m EXCEPT !.lru = Without(m.lru, id), !.block = [m.block EXCEPT ![id] = NoText],
                          !.bytes = b, !.entries = e]
<1>1. /\ t \in Texts /\ b \in Nat /\ e \in Nat /\ EntryBytes \in Nat /\ TextBytes[t] \in Nat
      /\ m.refs \in [Texts -> Nat] /\ m.block \in [CallIds -> Texts \cup {NoText}]
      /\ m.disk \in [CallIds -> BOOLEAN] /\ m.think \in [CallIds -> BOOLEAN]
  BY ToolAssumption DEF Memory, Known
<1>2. RemoveEntry(m, id) = ReleaseBlock(x, t)
  BY DEF RemoveEntry
<1>3. /\ x \in Memory /\ x.lru = Without(m.lru, id) /\ x.block = [m.block EXCEPT ![id] = NoText]
      /\ x.refs = m.refs /\ x.entries = e /\ x.bytes = b
  <2> HIDE DEF t, b, e
  <2>1. [m.block EXCEPT ![id] = NoText] \in [CallIds -> Texts \cup {NoText}]
    BY <1>1
  <2> QED BY <1>1, <2>1 DEF Memory
<1> HIDE DEF x
<1>4. CASE m.refs[t] > 1
  <2>1. RemoveEntry(m, id) = [x EXCEPT !.refs = [m.refs EXCEPT ![t] = m.refs[t] - 1]]
    BY <1>2, <1>3, <1>4 DEF ReleaseBlock
  <2>2. [m.refs EXCEPT ![t] = m.refs[t] - 1] \in [Texts -> Nat]
    BY <1>1, <1>4
  <2>3. /\ RemoveEntry(m, id) \in Memory /\ RemoveEntry(m, id).lru = x.lru /\ RemoveEntry(m, id).block = x.block
        /\ RemoveEntry(m, id).refs = [m.refs EXCEPT ![t] = m.refs[t] - 1]
        /\ RemoveEntry(m, id).entries = x.entries /\ RemoveEntry(m, id).bytes = x.bytes
    BY <1>3, <2>1, <2>2 DEF Memory
  <2> HIDE DEF b, e
  <2> QED BY <1>1, <1>3, <1>4, <2>3 DEF b, e
<1>5. CASE ~(m.refs[t] > 1)
  <2> DEFINE c == IF b >= TextBytes[t] THEN b - TextBytes[t] ELSE 0
  <2>1. RemoveEntry(m, id) = [x EXCEPT !.refs = [m.refs EXCEPT ![t] = 0], !.bytes = c]
    BY <1>2, <1>3, <1>5 DEF ReleaseBlock
  <2>2. c \in Nat /\ [m.refs EXCEPT ![t] = 0] \in [Texts -> Nat]
    BY <1>1
  <2>3. /\ RemoveEntry(m, id) \in Memory /\ RemoveEntry(m, id).lru = x.lru /\ RemoveEntry(m, id).block = x.block
        /\ RemoveEntry(m, id).refs = [m.refs EXCEPT ![t] = 0]
        /\ RemoveEntry(m, id).entries = x.entries /\ RemoveEntry(m, id).bytes = c
    <3> HIDE DEF c
    <3> QED BY <1>3, <2>1, <2>2 DEF Memory
  <2> QED BY <1>1, <1>3, <1>5, <2>3
<1> QED BY <1>4, <1>5

\* An entry and, if it was the last with its text, the block go
LEMMA RemoveEntryKeeps ==
    ASSUME NEW m, Counts(m), NEW id \in CallIds, Known(m, id)
    PROVE  /\ Counts(RemoveEntry(m, id))
           /\ RemoveEntry(m, id).lru = Without(m.lru, id)
           /\ RemoveEntry(m, id).block = [m.block EXCEPT ![id] = NoText]
<1> DEFINE n == RemoveEntry(m, id)
           t == m.block[id]
           b == IF m.bytes >= EntryBytes THEN m.bytes - EntryBytes ELSE 0
<1>1. m \in Memory /\ EntryBytes \in Nat /\ \A x \in Texts : TextBytes[x] \in Nat
  BY ToolAssumption DEF Counts
<1>2. /\ Without(m.lru, id) \in Seq(CallIds) /\ NoDup(Without(m.lru, id))
      /\ Range(Without(m.lru, id)) = Range(m.lru) \ {id}
  BY WithoutFacts DEF Counts, Memory
<1>3. /\ n \in Memory /\ t \in Texts
      /\ n.lru = Without(m.lru, id) /\ n.block = [m.block EXCEPT ![id] = NoText]
      /\ n.refs = [m.refs EXCEPT ![t] = IF m.refs[t] > 1 THEN m.refs[t] - 1 ELSE 0]
      /\ n.entries = IF m.entries > 0 THEN m.entries - 1 ELSE 0
      /\ n.bytes = IF m.refs[t] > 1 THEN b ELSE IF b >= TextBytes[t] THEN b - TextBytes[t] ELSE 0
  BY <1>1, <1>2, RemoveFields
<1> HIDE DEF n
<1>4. Stored(n) = Stored(m) \ {id} /\ id \in Stored(m)
  BY <1>1, <1>3 DEF Stored, Known, Memory
<1>5. \A i \in Stored(n) : n.block[i] = m.block[i]
  BY <1>1, <1>3, <1>4 DEF Stored, Memory
<1>6. /\ IsFiniteSet(Stored(m)) /\ Spoken(m) \in SUBSET Texts
      /\ \A x \in Texts : /\ IsFiniteSet(Holding(m, x)) /\ Cardinality(Holding(m, x)) \in Nat
                          /\ (m.refs[x] = 0 <=> x \notin Spoken(m))
  BY CountsFinite
<1>7. n.entries = Cardinality(Stored(n)) /\ m.entries > 0 /\ n.entries = m.entries - 1
  <2>1. Cardinality(Stored(n)) = Cardinality(Stored(m)) - 1 /\ Cardinality(Stored(n)) \in Nat
    BY <1>4, <1>6, FS_RemoveElement, FS_CardinalityType
  <2>2. m.entries = Cardinality(Stored(m)) /\ m.entries \in Nat
    BY <1>1 DEF Counts, Memory
  <2> QED BY <1>3, <2>1, <2>2
<1>8. ASSUME NEW x \in Texts PROVE n.refs[x] = Cardinality(Holding(n, x))
  <2>1. m.refs[x] = Cardinality(Holding(m, x)) /\ m.refs \in [Texts -> Nat]
    BY <1>1 DEF Counts, Memory
  <2>2. CASE x = t
    <3>1. Holding(n, x) = Holding(m, x) \ {id} /\ id \in Holding(m, x)
      BY <1>4, <1>5, <2>2 DEF Holding
    <3>2. Cardinality(Holding(n, x)) = Cardinality(Holding(m, x)) - 1
      <4>1. IsFiniteSet(Holding(m, x)) /\ id \in Holding(m, x)
        BY <1>6, <3>1
      <4>2. Cardinality(Holding(m, x) \ {id}) = Cardinality(Holding(m, x)) - 1
        BY ONLY <4>1, FS_RemoveElement
      <4> QED BY <3>1, <4>2
    <3>3. Cardinality(Holding(n, x)) \in Nat
      BY <1>6, <3>1, FS_RemoveElement, FS_CardinalityType
    <3> QED BY <1>3, <2>1, <2>2, <3>2, <3>3
  <2>3. CASE x # t
    <3>1. Holding(n, x) = Holding(m, x)
      BY <1>4, <1>5, <2>3 DEF Holding
    <3> QED BY <1>3, <2>1, <2>3, <3>1
  <2> QED BY <2>2, <2>3
<1>9. IsFiniteSet(BlockBytes(Spoken(n))) /\ n.bytes = EntryBytes * n.entries + Cardinality(BlockBytes(Spoken(n)))
  <2>1. EntryBytes * m.entries = EntryBytes * n.entries + EntryBytes /\ EntryBytes * n.entries \in Nat
    <3>1. n.entries \in Nat /\ m.entries = n.entries + 1
      BY <1>1, <1>3, <1>7 DEF Memory
    <3> HIDE DEF n
    <3> QED BY <1>1, <3>1
  <2>2. IsFiniteSet(BlockBytes(Spoken(m))) /\ Cardinality(BlockBytes(Spoken(m))) \in Nat
        /\ m.bytes = EntryBytes * m.entries + Cardinality(BlockBytes(Spoken(m)))
    BY FS_CardinalityType DEF Counts
  <2>3. b = EntryBytes * n.entries + Cardinality(BlockBytes(Spoken(m)))
    BY <1>1, <2>1, <2>2
  <2>4. t \in Spoken(m)
    BY <1>4 DEF Spoken
  <2>5. m.refs[t] = Cardinality(Holding(m, t)) /\ id \in Holding(m, t) /\ m.refs[t] # 0
    BY <1>3, <1>4, <1>6, <2>4 DEF Counts, Holding
  <2>6. n.refs[t] = 0 <=> t \notin Spoken(n)
    <3>1. IsFiniteSet(Holding(n, t))
      <4>1. Holding(n, t) \in SUBSET Holding(m, t)
        BY <1>4, <1>5 DEF Holding
      <4> QED BY <1>3, <1>6, <4>1, FS_Subset
    <3>2. n.refs[t] = 0 <=> Holding(n, t) = {}
      BY <1>3, <1>8, <3>1, FS_EmptySet
    <3>3. Holding(n, t) = {} <=> t \notin Spoken(n)
      BY DEF Holding, Spoken
    <3> QED BY <3>2, <3>3
  <2>7. Spoken(n) \cup {t} = Spoken(m)
    <3>1. ASSUME NEW x \in Spoken(n) PROVE x \in Spoken(m)
      BY <1>4, <1>5, <3>1 DEF Spoken
    <3>2. ASSUME NEW x \in Spoken(m), x # t PROVE x \in Spoken(n)
      <4>1. PICK i \in Stored(m) : x = m.block[i]
        BY <3>2 DEF Spoken
      <4>2. i \in Stored(n) /\ x = n.block[i]
        BY <1>4, <1>5, <3>2, <4>1
      <4> QED BY <4>2 DEF Spoken
    <3> QED BY <2>4, <3>1, <3>2
  <2>8. m.refs[t] \in Nat
    BY <1>1, <1>3 DEF Memory
  <2>9. CASE m.refs[t] > 1
    <3>1. n.refs[t] # 0 /\ n.bytes = b
      BY <1>1, <1>3, <2>8, <2>9 DEF Memory
    <3>2. Spoken(n) = Spoken(m)
      BY <2>6, <2>7, <3>1
    <3> HIDE DEF b
    <3> QED BY <2>2, <2>3, <3>1, <3>2
  <2>10. CASE ~(m.refs[t] > 1)
    <3>1. n.refs[t] = 0 /\ n.bytes = IF b >= TextBytes[t] THEN b - TextBytes[t] ELSE 0
      BY <1>1, <1>3, <2>10 DEF Memory
    <3>2. Spoken(n) = Spoken(m) \ {t}
      BY <2>6, <2>7, <3>1
    <3>3. /\ IsFiniteSet(BlockBytes(Spoken(n)))
          /\ Cardinality(BlockBytes(Spoken(m))) = Cardinality(BlockBytes(Spoken(n))) + TextBytes[t]
      BY <1>6, <2>2, <2>4, <3>2, BlockGoes
    <3>4. Cardinality(BlockBytes(Spoken(n))) \in Nat /\ TextBytes[t] \in Nat
      BY <1>1, <1>3, <3>3, FS_CardinalityType
    <3> HIDE DEF b, t
    <3> QED BY <2>1, <2>3, <3>1, <3>3, <3>4
  <2> QED BY <2>9, <2>10
<1>10. Range(n.lru) = Stored(n)
  BY <1>2, <1>3, <1>4 DEF Counts
<1>11. Counts(n)
  BY <1>2, <1>3, <1>7, <1>8, <1>9, <1>10 DEF Counts
<1> QED BY <1>3, <1>11 DEF n

-----------------------------------------------------------------------------
(* The loops                                                               *)

Within(m) == m.entries <= MaxEntries /\ m.bytes <= MaxBytes

\* Pruning takes entries off the tail until the limits hold
LEMMA PruneKeeps ==
    ASSUME NEW m, Counts(m)
    PROVE  /\ Counts(Prune(m)) /\ Within(Prune(m)) /\ IsPrefix(Prune(m).lru, m.lru)
           /\ \A i \in CallIds : Prune(m).block[i] \in {NoText, m.block[i]}
<1> DEFINE N == Len(m.lru)
           over(x) == (x.entries > MaxEntries \/ x.bytes > MaxBytes) /\ x.lru # <<>>
           turn(x) == IF over(x) THEN RemoveEntry(x, Last(x.lru)) ELSE x
           Rest(x) == /\ Counts(x) /\ IsPrefix(x.lru, m.lru)
                      /\ \A i \in CallIds : x.block[i] \in {NoText, m.block[i]}
           X == {x \in Memory : Rest(x)}
           Step == [q \in X \X (1..N) |-> turn(q[1])]
           p == CHOOSE g : g = [k \in 0..N |-> IF k = 0 THEN m ELSE turn(g[k - 1])]
<1>1. m \in Memory /\ m.lru \in Seq(CallIds) /\ N \in Nat
  BY DEF Counts, Memory
<1>2. m \in X
  <2>1. IsPrefix(m.lru, m.lru)
    BY <1>1, PrefixFacts
  <2> QED BY <1>1, <2>1
<1>3. ASSUME NEW x \in X, over(x)
      PROVE  turn(x) \in X /\ Len(turn(x).lru) = Len(x.lru) - 1
  <2> DEFINE id == Last(x.lru)
  <2>1. Counts(x) /\ x.lru \in Seq(CallIds) /\ NoDup(x.lru) /\ IsPrefix(x.lru, m.lru) /\ x.lru # <<>>
        /\ Range(x.lru) = Stored(x) /\ x.block \in [CallIds -> Texts \cup {NoText}]
    BY <1>3 DEF Counts, Memory
  <2>2. /\ id \in Range(x.lru) /\ id \in CallIds
        /\ Len(Without(x.lru, id)) = Len(x.lru) - 1 /\ IsPrefix(Without(x.lru, id), m.lru)
    BY <1>1, <2>1, DroppedTail
  <2>3. Known(x, id)
    BY <2>1, <2>2 DEF Stored
  <2>4. turn(x) = RemoveEntry(x, id)
    BY <1>3
  <2> HIDE DEF id, turn
  <2>5. /\ Counts(RemoveEntry(x, id)) /\ RemoveEntry(x, id).lru = Without(x.lru, id)
        /\ RemoveEntry(x, id).block = [x.block EXCEPT ![id] = NoText]
    BY <2>1, <2>2, <2>3, RemoveEntryKeeps
  <2>6. \A i \in CallIds : RemoveEntry(x, id).block[i] \in {NoText, m.block[i]}
    BY <1>3, <2>1, <2>5
  <2>7. RemoveEntry(x, id) \in Memory
    BY <2>5 DEF Counts
  <2> QED BY <2>2, <2>4, <2>5, <2>6, <2>7
<1>4. Step \in [X \X (1..N) -> X]
  <2>1. \A x \in X : turn(x) \in X
    BY <1>3
  <2> HIDE DEF X, turn
  <2> QED BY <2>1
<1>5. Prune(m) = p[N]
  BY DEF Prune
<1>6. \E g : g \in Turns(N, X, m, Step)
  <2>1. N \in Nat
    BY <1>1
  <2> HIDE DEF X, Step, N
  <2> QED BY <2>1, <1>2, <1>4, TurnsExist
<1> HIDE DEF X, turn, Step, N
<1>7. p \in [0..N -> X] /\ p[0] = m /\ \A k \in 1..N : p[k] = turn(p[k - 1])
  <2>1. PICK g \in [0..N -> X] : g[0] = m /\ \A k \in 1..N : g[k] = Step[<<g[k - 1], k>>]
    BY <1>6 DEF Turns
  <2>2. \A k \in 1..N : g[k] = turn(g[k - 1])
    <3> SUFFICES ASSUME NEW k \in 1..N PROVE g[k] = turn(g[k - 1])
      OBVIOUS
    <3>1. <<g[k - 1], k>> \in X \X (1..N)
      BY <1>1
    <3> QED BY <2>1, <3>1 DEF Step
  <2>3. g = [k \in 0..N |-> IF k = 0 THEN m ELSE turn(g[k - 1])]
    BY <1>1, <2>1, <2>2
  <2>4. p = [k \in 0..N |-> IF k = 0 THEN m ELSE turn(p[k - 1])]
    BY <2>3
  <2> HIDE DEF p
  <2>5. p[0] = m /\ \A k \in 1..N : p[k] = turn(p[k - 1])
    BY <1>1, <2>4
  <2>6. Alike(N, p, g)
    BY <1>1, <2>1, <2>2, <2>4, <2>5 DEF Alike
  <2>7. p = g
    BY <1>1, <2>6, SameTurns
  <2> QED BY <2>1, <2>2, <2>7
<1> HIDE DEF p
<1>8. \A k \in 0..N : ~over(p[k]) \/ Len(p[k].lru) <= N - k
  <2> DEFINE S == {k \in 0..N : ~over(p[k]) \/ Len(p[k].lru) <= N - k}
  <2>1. 0 \in S
    BY <1>1, <1>7 DEF N
  <2>2. ASSUME NEW k \in 0..N - 1, k \in S PROVE k + 1 \in S
    <3>1. k + 1 \in 1..N /\ k + 1 \in 0..N /\ (k + 1) - 1 = k /\ k \in 0..N
      BY <1>1
    <3>2. p[k] \in X /\ p[k + 1] = turn(p[k])
      BY <1>7, <3>1
    <3>3. CASE over(p[k])
      <4>1. Len(p[k + 1].lru) = Len(p[k].lru) - 1
        BY <1>3, <3>2, <3>3
      <4>2. Len(p[k].lru) <= N - k
        BY <2>2, <3>3
      <4>3. Len(p[k].lru) \in Nat
        BY <3>2 DEF X, Memory
      <4> HIDE DEF over
      <4> QED BY <1>1, <3>1, <4>1, <4>2, <4>3
    <3>4. CASE ~over(p[k])
      <4>1. p[k + 1] = p[k]
        BY <3>2, <3>4 DEF turn
      <4> QED BY <3>1, <3>4, <4>1
    <3> QED BY <3>3, <3>4
  <2>3. \A k \in 0..N : k \in S
    <3> HIDE DEF S
    <3> QED BY <1>1, <2>1, <2>2, UpTo
  <2> QED BY <2>3
<1>9. p[N] \in X
  BY <1>1, <1>7
<1>10. Rest(p[N])
  BY <1>9 DEF X
<1>11. Within(p[N])
  <2> DEFINE x == p[N]
  <2>1. Counts(x) /\ x \in Memory /\ x.lru \in Seq(CallIds) /\ x.entries \in Nat /\ x.bytes \in Nat
    BY <1>10 DEF Counts, Memory
  <2>2. CASE x.lru = <<>>
    <3>1. Stored(x) = {}
      BY <2>1, <2>2 DEF Counts, Range
    <3>2. Spoken(x) = {} /\ BlockBytes({}) = {}
      BY <3>1 DEF Spoken, BlockBytes
    <3>3. x.entries = 0
      BY <2>1, <3>1, FS_EmptySet DEF Counts
    <3>4. x.bytes = EntryBytes * 0 + 0
      BY <2>1, <3>2, <3>3, FS_EmptySet DEF Counts
    <3> QED BY <3>3, <3>4, ToolAssumption DEF Within
  <2>3. CASE x.lru # <<>>
    <3>1. Len(x.lru) # 0
      BY <2>1, <2>3, EmptySeq
    <3>2. ~over(x)
      BY <1>1, <1>8, <2>1, <3>1
    <3> QED BY <2>1, <2>3, <3>2, ToolAssumption DEF Within
  <2> QED BY <2>2, <2>3
<1> QED BY <1>5, <1>10, <1>11

\* What a touch keeps
LEMMA TouchKeeps ==
    ASSUME NEW m, Counts(m), NEW id \in CallIds, Known(m, id)
    PROVE  /\ Counts(TouchEntry(m, id)) /\ TouchEntry(m, id).lru = MovedFirst(m.lru, id)
           /\ TouchEntry(m, id).block = m.block /\ (Within(m) => Within(TouchEntry(m, id)))
<1> DEFINE n == TouchEntry(m, id)
<1>1. m \in Memory /\ m.lru \in Seq(CallIds) /\ NoDup(m.lru) /\ Range(m.lru) = Stored(m) /\ id \in Stored(m)
  BY DEF Counts, Memory, Stored
<1>2. /\ MovedFirst(m.lru, id) \in Seq(CallIds) /\ NoDup(MovedFirst(m.lru, id))
      /\ Range(MovedFirst(m.lru, id)) = Stored(m)
  <2>1. /\ MovedFirst(m.lru, id) \in Seq(CallIds) /\ NoDup(MovedFirst(m.lru, id))
        /\ Range(MovedFirst(m.lru, id)) = Range(m.lru) \cup {id}
    BY <1>1, MovedFirstFacts
  <2>2. Stored(m) \cup {id} = Stored(m)
    BY <1>1
  <2> QED BY <1>1, <2>1, <2>2
<1>3. /\ n \in Memory /\ n.lru = MovedFirst(m.lru, id) /\ n.block = m.block /\ n.refs = m.refs
      /\ n.entries = m.entries /\ n.bytes = m.bytes
  BY <1>1, <1>2 DEF TouchEntry, Memory
<1> HIDE DEF n
<1>4. Stored(n) = Stored(m) /\ Spoken(n) = Spoken(m) /\ \A t \in Texts : Holding(n, t) = Holding(m, t)
  BY <1>3 DEF Stored, Spoken, Holding, Known
<1>5. Counts(n)
  BY <1>2, <1>3, <1>4 DEF Counts
<1> QED BY <1>3, <1>5 DEF n, Within

\* A mark on an entry that is not counted
LEMMA MarkKeeps ==
    ASSUME NEW m, Counts(m), NEW n \in Memory, n.lru = m.lru, n.block = m.block, n.refs = m.refs,
           n.entries = m.entries, n.bytes = m.bytes
    PROVE  Counts(n) /\ (Within(m) => Within(n))
<1>1. Stored(n) = Stored(m) /\ Spoken(n) = Spoken(m) /\ \A t \in Texts : Holding(n, t) = Holding(m, t)
  BY DEF Stored, Spoken, Holding, Known
<1> QED BY <1>1 DEF Counts, Within

Orders == {r \in Seq(CallIds) : NoDup(r)}
Sound == {x \in Memory : Counts(x) /\ Within(x)}

\* The memory m holds the ids used last, in the order r, with the texts put for them
Remembers(m, r, put) ==
    /\ m \in Sound /\ r \in Orders /\ IsPrefix(m.lru, r)
    /\ \A i \in CallIds : m.block[i] \in {NoText, put[i]}

\* Pruning what is right but for the limits
LEMMA PrunedRemembers ==
    ASSUME NEW m, Counts(m), NEW r \in Orders, IsPrefix(m.lru, r), NEW put,
           \A i \in CallIds : m.block[i] \in {NoText, put[i]}
    PROVE  Remembers(Prune(m), r, put)
<1> DEFINE n == Prune(m)
<1>1. /\ Counts(n) /\ Within(n) /\ IsPrefix(n.lru, m.lru) /\ \A i \in CallIds : n.block[i] \in {NoText, m.block[i]}
  BY PruneKeeps
<1> HIDE DEF n
<1>2. n.lru \in Seq(CallIds) /\ m.lru \in Seq(CallIds) /\ r \in Seq(CallIds) /\ n \in Memory
  BY <1>1 DEF Counts, Memory, Orders
<1>3. IsPrefix(n.lru, r)
  <2>1. Len(n.lru) <= Len(m.lru) /\ \A i \in 1..Len(n.lru) : n.lru[i] = m.lru[i]
    BY <1>1, <1>2, PrefixFacts
  <2>2. Len(m.lru) <= Len(r) /\ \A i \in 1..Len(m.lru) : m.lru[i] = r[i]
    BY <1>2, PrefixFacts
  <2>3. Len(n.lru) \in Nat /\ Len(m.lru) \in Nat /\ Len(r) \in Nat
    BY <1>2
  <2>4. Len(n.lru) <= Len(r) /\ \A i \in 1..Len(n.lru) : n.lru[i] = r[i]
    BY <2>1, <2>2, <2>3
  <2> QED BY <1>2, <2>4, PrefixFacts
<1>4. \A i \in CallIds : n.block[i] \in {NoText, put[i]}
  BY <1>1
<1>5. Remembers(n, r, put)
  BY <1>1, <1>2, <1>3, <1>4 DEF Remembers, Sound
<1> QED BY <1>5 DEF n

\* One put
LEMMA PutEntryKeeps ==
    ASSUME NEW m, NEW r, NEW put, Remembers(m, r, put), NEW id \in CallIds, NEW t \in Texts,
           NEW d \in BOOLEAN, NEW new, new[id] = t, \A i \in CallIds : i # id => new[i] = put[i]
    PROVE  Remembers(PutEntry(m, id, t, d), MovedFirst(r, id), new)
<1>1. /\ m \in Memory /\ Counts(m) /\ m.lru \in Seq(CallIds) /\ NoDup(m.lru) /\ r \in Seq(CallIds) /\ NoDup(r)
      /\ IsPrefix(m.lru, r) /\ m.block \in [CallIds -> Texts \cup {NoText}]
  BY DEF Remembers, Sound, Counts, Memory, Orders
<1>2. MovedFirst(r, id) \in Orders
  BY <1>1, MovedFirstFacts DEF Orders
<1>3. IsPrefix(MovedFirst(m.lru, id), MovedFirst(r, id))
  BY <1>1, MovedPrefix
<1>4. t # NoText
  BY ToolAssumption
<1>5. CASE m.block[id] = t
  <2> DEFINE x == [m EXCEPT !.disk[id] = @ /\ d]
  <2>1. /\ x \in Memory /\ x.lru = m.lru /\ x.block = m.block /\ x.refs = m.refs
        /\ x.entries = m.entries /\ x.bytes = m.bytes
    <3>1. (m.disk[id] /\ d) \in BOOLEAN
      OBVIOUS
    <3>2. [m.disk EXCEPT ![id] = m.disk[id] /\ d] \in [CallIds -> BOOLEAN]
      BY <1>1, <3>1 DEF Memory
    <3> DEFINE f == [m.disk EXCEPT ![id] = m.disk[id] /\ d]
    <3>3. x = [m EXCEPT !.disk = f]
      OBVIOUS
    <3> HIDE DEF f, x
    <3>4. f \in [CallIds -> BOOLEAN]
      BY <3>2 DEF f
    <3> QED BY <1>1, <3>3, <3>4 DEF Memory
  <2>2. PutEntry(m, id, t, d) = Prune(TouchEntry(x, id))
    BY <1>5 DEF PutEntry
  <2> HIDE DEF x
  <2>3. Counts(x) /\ Known(x, id)
    BY <1>1, <1>4, <1>5, <2>1, MarkKeeps DEF Known
  <2> DEFINE y == TouchEntry(x, id)
  <2>4. Counts(y) /\ y.lru = MovedFirst(m.lru, id) /\ y.block = m.block
    BY <2>1, <2>3, TouchKeeps
  <2> HIDE DEF y
  <2>5. \A i \in CallIds : y.block[i] \in {NoText, new[i]}
    BY <1>5, <2>4 DEF Remembers
  <2>6. Remembers(Prune(y), MovedFirst(r, id), new)
    BY <1>2, <1>3, <2>4, <2>5, PrunedRemembers
  <2> QED BY <2>2, <2>6 DEF y
<1>6. CASE m.block[id] # t
  <2> DEFINE x == IF Known(m, id) THEN RemoveEntry(m, id) ELSE m
             y == AddEntry(x, id, t, d)
  <2>1. /\ Counts(x) /\ x.lru = Without(m.lru, id) /\ x.block[id] = NoText
        /\ \A i \in CallIds : i # id => x.block[i] = m.block[i]
    <3>1. CASE Known(m, id)
      <4>1. /\ Counts(RemoveEntry(m, id)) /\ RemoveEntry(m, id).lru = Without(m.lru, id)
            /\ RemoveEntry(m, id).block = [m.block EXCEPT ![id] = NoText]
        BY <1>1, <3>1, RemoveEntryKeeps
      <4>2. x = RemoveEntry(m, id)
        BY <3>1
      <4> HIDE DEF x
      <4> QED BY <1>1, <4>1, <4>2
    <3>2. CASE ~Known(m, id)
      <4>1. \A i \in DOMAIN m.lru : m.lru[i] # id
        BY <1>1, <3>2 DEF Counts, Range, Stored
      <4>2. Without(m.lru, id) = m.lru
        BY <4>1 DEF Without
      <4> QED BY <1>1, <3>2, <4>2 DEF Known
    <3> QED BY <3>1, <3>2
  <2>2. PutEntry(m, id, t, d) = Prune(y)
    BY <1>6 DEF PutEntry
  <2> HIDE DEF x
  <2>3. ~Known(x, id)
    BY <2>1 DEF Known
  <2>4. Counts(y) /\ y.lru = <<id>> \o x.lru /\ y.block = [x.block EXCEPT ![id] = t]
    BY <2>1, <2>3, AddEntryKeeps
  <2> HIDE DEF y
  <2>5. y.lru = MovedFirst(m.lru, id)
    BY <2>1, <2>4 DEF MovedFirst
  <2>6. x.block \in [CallIds -> Texts \cup {NoText}]
    BY <2>1 DEF Counts, Memory
  <2>7. \A i \in CallIds : y.block[i] \in {NoText, new[i]}
    BY <2>1, <2>4, <2>6 DEF Remembers
  <2>8. Remembers(Prune(y), MovedFirst(r, id), new)
    BY <1>2, <1>3, <2>4, <2>5, <2>7, PrunedRemembers
  <2> QED BY <2>2, <2>8
<1> QED BY <1>5, <1>6

\* One call of a remembered message
LEMMA PutCallKeeps ==
    ASSUME NEW m, NEW r, NEW put, Remembers(m, r, put), NEW id \in CallIds, NEW t \in Texts,
           NEW think \in BOOLEAN, NEW new, new[id] = t, \A i \in CallIds : i # id => new[i] = put[i]
    PROVE  Remembers(PutCall(m, id, t, think), MovedFirst(r, id), new)
<1> DEFINE x == PutEntry(m, id, t, FALSE)
           y == [x EXCEPT !.think[id] = think]
<1>1. Remembers(x, MovedFirst(r, id), new)
  BY PutEntryKeeps
<1> HIDE DEF x
<1>2. x \in Memory /\ Counts(x) /\ Within(x)
  BY <1>1 DEF Remembers, Sound
<1>3. /\ y \in Memory /\ y.lru = x.lru /\ y.block = x.block /\ y.refs = x.refs
      /\ y.entries = x.entries /\ y.bytes = x.bytes
  BY <1>2 DEF Memory
<1>4. PutCall(m, id, t, think) = IF Known(x, id) THEN y ELSE x
  BY DEF PutCall, x
<1> HIDE DEF y
<1>5. Counts(y) /\ Within(y)
  BY <1>2, <1>3, MarkKeeps
<1>6. Remembers(y, MovedFirst(r, id), new)
  BY <1>1, <1>3, <1>5 DEF Remembers, Sound
<1> QED BY <1>1, <1>4, <1>6

\* The order of uses after the uses of ids
LEMMA UsedTurns ==
    ASSUME NEW r \in Orders, NEW ids \in Seq(CallIds)
    PROVE  \E g \in [0..Len(ids) -> Orders] :
              g[0] = r /\ Used(r, ids) = g[Len(ids)] /\ \A k \in 1..Len(ids) : g[k] = MovedFirst(g[k - 1], ids[k])
<1> DEFINE N == Len(ids)
           turn(x, k) == MovedFirst(x, ids[k])
           Step == [q \in Orders \X (1..N) |-> turn(q[1], q[2])]
           p == CHOOSE g : g = [k \in 0..N |-> IF k = 0 THEN r ELSE turn(g[k - 1], k)]
<1>1. N \in Nat /\ r \in Orders
  OBVIOUS
<1>2. \A x \in Orders, k \in 1..N : turn(x, k) \in Orders
  <2> SUFFICES ASSUME NEW x \in Orders, NEW k \in 1..N PROVE turn(x, k) \in Orders
    OBVIOUS
  <2>1. ids[k] \in CallIds
    BY ElementOfSeq
  <2> QED BY <2>1, MovedFirstFacts DEF Orders
<1>3. Used(r, ids) = p[N]
  BY DEF Used
<1> HIDE DEF turn, N
<1>4. Step \in [Orders \X (1..N) -> Orders]
  BY <1>2
<1>5. PICK g : g \in Turns(N, Orders, r, Step)
  <2> HIDE DEF Step
  <2> QED BY <1>1, <1>4, TurnsExist
<1>6. g \in [0..N -> Orders] /\ g[0] = r /\ \A k \in 1..N : g[k] = turn(g[k - 1], k)
  <2>1. g \in [0..N -> Orders] /\ g[0] = r /\ \A k \in 1..N : g[k] = Step[<<g[k - 1], k>>]
    BY <1>5 DEF Turns
  <2>2. ASSUME NEW k \in 1..N PROVE g[k] = turn(g[k - 1], k)
    <3>1. <<g[k - 1], k>> \in Orders \X (1..N)
      BY <1>1, <2>1
    <3> QED BY <2>1, <3>1
  <2> QED BY <2>1, <2>2
<1>7. g = [k \in 0..N |-> IF k = 0 THEN r ELSE turn(g[k - 1], k)]
  BY <1>1, <1>6
<1>8. p = [k \in 0..N |-> IF k = 0 THEN r ELSE turn(p[k - 1], k)]
  BY <1>7
<1> HIDE DEF p
<1>9. p[0] = r /\ \A k \in 1..N : p[k] = turn(p[k - 1], k)
  BY <1>1, <1>8
<1>10. Alike(N, p, g)
  BY <1>1, <1>6, <1>8, <1>9 DEF Alike
<1>11. p = g
  BY <1>1, <1>10, SameTurns
<1> QED BY <1>3, <1>6, <1>11 DEF turn, N

\* The order of uses after the lookups of ids
LEMMA UsedAgainTurns ==
    ASSUME NEW r \in Orders, NEW m, NEW ids \in Seq(CallIds)
    PROVE  \E g \in [0..Len(ids) -> Orders] :
              g[0] = r /\ UsedAgain(r, m, ids) = g[Len(ids)] /\ \A k \in 1..Len(ids) : g[k] = IF Known(m, ids[k]) THEN MovedFirst(g[k - 1], ids[k]) ELSE g[k - 1]
<1> DEFINE N == Len(ids)
           turn(x, k) == IF Known(m, ids[k]) THEN MovedFirst(x, ids[k]) ELSE x
           Step == [q \in Orders \X (1..N) |-> turn(q[1], q[2])]
           p == CHOOSE g : g = [k \in 0..N |-> IF k = 0 THEN r ELSE turn(g[k - 1], k)]
<1>1. N \in Nat /\ r \in Orders
  OBVIOUS
<1>2. \A x \in Orders, k \in 1..N : turn(x, k) \in Orders
  <2> SUFFICES ASSUME NEW x \in Orders, NEW k \in 1..N PROVE turn(x, k) \in Orders
    OBVIOUS
  <2>1. ids[k] \in CallIds
    BY ElementOfSeq
  <2> QED BY <2>1, MovedFirstFacts DEF Orders
<1>3. UsedAgain(r, m, ids) = p[N]
  BY DEF UsedAgain
<1> HIDE DEF turn, N
<1>4. Step \in [Orders \X (1..N) -> Orders]
  BY <1>2
<1>5. PICK g : g \in Turns(N, Orders, r, Step)
  <2> HIDE DEF Step
  <2> QED BY <1>1, <1>4, TurnsExist
<1>6. g \in [0..N -> Orders] /\ g[0] = r /\ \A k \in 1..N : g[k] = turn(g[k - 1], k)
  <2>1. g \in [0..N -> Orders] /\ g[0] = r /\ \A k \in 1..N : g[k] = Step[<<g[k - 1], k>>]
    BY <1>5 DEF Turns
  <2>2. ASSUME NEW k \in 1..N PROVE g[k] = turn(g[k - 1], k)
    <3>1. <<g[k - 1], k>> \in Orders \X (1..N)
      BY <1>1, <2>1
    <3> QED BY <2>1, <3>1
  <2> QED BY <2>1, <2>2
<1>7. g = [k \in 0..N |-> IF k = 0 THEN r ELSE turn(g[k - 1], k)]
  BY <1>1, <1>6
<1>8. p = [k \in 0..N |-> IF k = 0 THEN r ELSE turn(p[k - 1], k)]
  BY <1>7
<1> HIDE DEF p
<1>9. p[0] = r /\ \A k \in 1..N : p[k] = turn(p[k - 1], k)
  BY <1>1, <1>8
<1>10. Alike(N, p, g)
  BY <1>1, <1>6, <1>8, <1>9 DEF Alike
<1>11. p = g
  BY <1>1, <1>10, SameTurns
<1> QED BY <1>3, <1>6, <1>11 DEF turn, N

\* The memory after the puts of a message's calls
LEMMA PutTurns ==
    ASSUME NEW m \in Sound, NEW t \in Texts, NEW think \in BOOLEAN, NEW ids \in Seq(CallIds)
    PROVE  \E g \in [0..Len(ids) -> Sound] :
              g[0] = m /\ PutCalls(m, ids, t, think) = g[Len(ids)] /\ \A k \in 1..Len(ids) : g[k] = PutCall(g[k - 1], ids[k], t, think)
<1> DEFINE N == Len(ids)
           turn(x, k) == PutCall(x, ids[k], t, think)
           Step == [q \in Sound \X (1..N) |-> turn(q[1], q[2])]
           p == CHOOSE g : g = [k \in 0..N |-> IF k = 0 THEN m ELSE turn(g[k - 1], k)]
<1>1. N \in Nat /\ m \in Sound
  OBVIOUS
<1>2. \A x \in Sound, k \in 1..N : turn(x, k) \in Sound
  <2> SUFFICES ASSUME NEW x \in Sound, NEW k \in 1..N PROVE turn(x, k) \in Sound
    OBVIOUS
  <2>1. ids[k] \in CallIds
    BY ElementOfSeq
  <2>2. IsPrefix(x.lru, x.lru) /\ x.lru \in Orders
    BY PrefixFacts DEF Sound, Counts, Memory, Orders
  <2>3. Remembers(x, x.lru, x.block)
    BY <2>2 DEF Remembers
  <2> DEFINE new == [i \in CallIds |-> IF i = ids[k] THEN t ELSE x.block[i]]
  <2>4. new[ids[k]] = t /\ \A i \in CallIds : i # ids[k] => new[i] = x.block[i]
    BY <2>1
  <2> HIDE DEF new
  <2>5. Remembers(PutCall(x, ids[k], t, think), MovedFirst(x.lru, ids[k]), new)
    BY <2>1, <2>3, <2>4, PutCallKeeps
  <2> QED BY <2>5 DEF Remembers
<1>3. PutCalls(m, ids, t, think) = p[N]
  BY DEF PutCalls
<1> HIDE DEF turn, N
<1>4. Step \in [Sound \X (1..N) -> Sound]
  BY <1>2
<1>5. PICK g : g \in Turns(N, Sound, m, Step)
  <2> HIDE DEF Step
  <2> QED BY <1>1, <1>4, TurnsExist
<1>6. g \in [0..N -> Sound] /\ g[0] = m /\ \A k \in 1..N : g[k] = turn(g[k - 1], k)
  <2>1. g \in [0..N -> Sound] /\ g[0] = m /\ \A k \in 1..N : g[k] = Step[<<g[k - 1], k>>]
    BY <1>5 DEF Turns
  <2>2. ASSUME NEW k \in 1..N PROVE g[k] = turn(g[k - 1], k)
    <3>1. <<g[k - 1], k>> \in Sound \X (1..N)
      BY <1>1, <2>1
    <3> QED BY <2>1, <3>1
  <2> QED BY <2>1, <2>2
<1>7. g = [k \in 0..N |-> IF k = 0 THEN m ELSE turn(g[k - 1], k)]
  BY <1>1, <1>6
<1>8. p = [k \in 0..N |-> IF k = 0 THEN m ELSE turn(p[k - 1], k)]
  BY <1>7
<1> HIDE DEF p
<1>9. p[0] = m /\ \A k \in 1..N : p[k] = turn(p[k - 1], k)
  BY <1>1, <1>8
<1>10. Alike(N, p, g)
  BY <1>1, <1>6, <1>8, <1>9 DEF Alike
<1>11. p = g
  BY <1>1, <1>10, SameTurns
<1> QED BY <1>3, <1>6, <1>11 DEF turn, N

\* The memory after the lookups of a message's calls
LEMMA FoundTurns ==
    ASSUME NEW m \in Sound, NEW ids \in Seq(CallIds)
    PROVE  \E g \in [0..Len(ids) -> Sound] :
              g[0] = m /\ FoundCalls(m, ids) = g[Len(ids)] /\ \A k \in 1..Len(ids) : g[k] = Found(g[k - 1], ids[k])
<1> DEFINE N == Len(ids)
           turn(x, k) == Found(x, ids[k])
           Step == [q \in Sound \X (1..N) |-> turn(q[1], q[2])]
           p == CHOOSE g : g = [k \in 0..N |-> IF k = 0 THEN m ELSE turn(g[k - 1], k)]
<1>1. N \in Nat /\ m \in Sound
  OBVIOUS
<1>2. \A x \in Sound, k \in 1..N : turn(x, k) \in Sound
  <2> SUFFICES ASSUME NEW x \in Sound, NEW k \in 1..N PROVE turn(x, k) \in Sound
    OBVIOUS
  <2>1. ids[k] \in CallIds
    BY ElementOfSeq
  <2>2. CASE Known(x, ids[k])
    <3>1. Counts(TouchEntry(x, ids[k])) /\ Within(TouchEntry(x, ids[k]))
      BY <2>1, <2>2, TouchKeeps DEF Sound
    <3> QED BY <2>2, <3>1 DEF Found, Sound, Counts
  <2> QED BY <2>2 DEF Found
<1>3. FoundCalls(m, ids) = p[N]
  BY DEF FoundCalls
<1> HIDE DEF turn, N
<1>4. Step \in [Sound \X (1..N) -> Sound]
  BY <1>2
<1>5. PICK g : g \in Turns(N, Sound, m, Step)
  <2> HIDE DEF Step
  <2> QED BY <1>1, <1>4, TurnsExist
<1>6. g \in [0..N -> Sound] /\ g[0] = m /\ \A k \in 1..N : g[k] = turn(g[k - 1], k)
  <2>1. g \in [0..N -> Sound] /\ g[0] = m /\ \A k \in 1..N : g[k] = Step[<<g[k - 1], k>>]
    BY <1>5 DEF Turns
  <2>2. ASSUME NEW k \in 1..N PROVE g[k] = turn(g[k - 1], k)
    <3>1. <<g[k - 1], k>> \in Sound \X (1..N)
      BY <1>1, <2>1
    <3> QED BY <2>1, <3>1
  <2> QED BY <2>1, <2>2
<1>7. g = [k \in 0..N |-> IF k = 0 THEN m ELSE turn(g[k - 1], k)]
  BY <1>1, <1>6
<1>8. p = [k \in 0..N |-> IF k = 0 THEN m ELSE turn(p[k - 1], k)]
  BY <1>7
<1> HIDE DEF p
<1>9. p[0] = m /\ \A k \in 1..N : p[k] = turn(p[k - 1], k)
  BY <1>1, <1>8
<1>10. Alike(N, p, g)
  BY <1>1, <1>6, <1>8, <1>9 DEF Alike
<1>11. p = g
  BY <1>1, <1>10, SameTurns
<1> QED BY <1>3, <1>6, <1>11 DEF turn, N

-----------------------------------------------------------------------------
(* The operations                                                          *)

\* A remembered message
LEMMA RememberKeeps ==
    ASSUME NEW m, NEW r, NEW put, Remembers(m, r, put), NEW ids \in Seq(CallIds), NEW t \in Texts,
           NEW think \in BOOLEAN
    PROVE  Remembers(PutCalls(m, ids, t, think), Used(r, ids),
                     [i \in CallIds |-> IF i \in Range(ids) THEN t ELSE put[i]])
<1> DEFINE N == Len(ids)
           new(k) == [i \in CallIds |-> IF \E j \in 1..k : ids[j] = i THEN t ELSE put[i]]
<1>1. N \in Nat /\ \A k \in 1..N : ids[k] \in CallIds
  BY ElementOfSeq
<1>2. m \in Sound /\ r \in Orders
  BY DEF Remembers
<1>3. PICK g \in [0..N -> Sound] :
         g[0] = m /\ PutCalls(m, ids, t, think) = g[N]
         /\ \A k \in 1..N : g[k] = PutCall(g[k - 1], ids[k], t, think)
  BY <1>2, PutTurns
<1>4. PICK u \in [0..N -> Orders] :
         u[0] = r /\ Used(r, ids) = u[N] /\ \A k \in 1..N : u[k] = MovedFirst(u[k - 1], ids[k])
  BY <1>2, UsedTurns
<1> HIDE DEF N
<1> DEFINE S == {k \in 0..N : Remembers(g[k], u[k], new(k))}
<1>5. 0 \in S
  <2>1. \A i \in CallIds : new(0)[i] = put[i]
    OBVIOUS
  <2> HIDE DEF new
  <2> QED BY <1>1, <1>3, <1>4, <2>1 DEF Remembers
<1>6. ASSUME NEW k \in 0..N - 1, k \in S PROVE k + 1 \in S
  <2>1. k + 1 \in 1..N /\ k + 1 \in 0..N /\ (k + 1) - 1 = k
    BY <1>1
  <2>2. ids[k + 1] \in CallIds
    BY <1>1, <2>1
  <2>3. new(k + 1)[ids[k + 1]] = t
    BY <2>1, <2>2
  <2>4. \A i \in CallIds : i # ids[k + 1] => new(k + 1)[i] = new(k)[i]
    <3> SUFFICES ASSUME NEW i \in CallIds, i # ids[k + 1] PROVE new(k + 1)[i] = new(k)[i]
      OBVIOUS
    <3>1. (\E j \in 1..k + 1 : ids[j] = i) <=> \E j \in 1..k : ids[j] = i
      <4>1. \A j \in 1..k + 1 : j = k + 1 \/ j \in 1..k
        OBVIOUS
      <4>2. \A j \in 1..k : j \in 1..k + 1
        OBVIOUS
      <4> QED BY <4>1, <4>2
    <3> QED BY <3>1
  <2>5. g[k + 1] = PutCall(g[k], ids[k + 1], t, think) /\ u[k + 1] = MovedFirst(u[k], ids[k + 1])
    BY <1>3, <1>4, <2>1
  <2>6. Remembers(g[k], u[k], new(k))
    BY <1>6
  <2> HIDE DEF new
  <2>7. Remembers(PutCall(g[k], ids[k + 1], t, think), MovedFirst(u[k], ids[k + 1]), new(k + 1))
    BY <2>2, <2>3, <2>4, <2>6, PutCallKeeps
  <2> QED BY <2>1, <2>5, <2>7
<1>7. N \in S
  <2>1. \A k \in 0..N : k \in S
    <3> HIDE DEF S
    <3> QED BY <1>1, <1>5, <1>6, UpTo
  <2> QED BY <1>1, <2>1
<1>8. new(N) = [i \in CallIds |-> IF i \in Range(ids) THEN t ELSE put[i]]
  <2>1. Range(ids) = {ids[j] : j \in 1..N}
    BY RangeEquality DEF N
  <2>2. \A i \in CallIds : (\E j \in 1..N : ids[j] = i) <=> i \in Range(ids)
    BY <2>1
  <2> QED BY <2>2
<1> QED BY <1>3, <1>4, <1>7, <1>8

\* A message whose calls are looked up
LEMMA AttachKeeps ==
    ASSUME NEW m, NEW r, NEW put, Remembers(m, r, put), NEW ids \in Seq(CallIds)
    PROVE  Remembers(FoundCalls(m, ids), UsedAgain(r, m, ids), put) /\ FoundCalls(m, ids).block = m.block
<1> DEFINE N == Len(ids)
<1>1. N \in Nat /\ \A k \in 1..N : ids[k] \in CallIds
  BY ElementOfSeq
<1>2. m \in Sound /\ r \in Orders
  BY DEF Remembers
<1>3. PICK g \in [0..N -> Sound] :
         g[0] = m /\ FoundCalls(m, ids) = g[N] /\ \A k \in 1..N : g[k] = Found(g[k - 1], ids[k])
  BY <1>2, FoundTurns
<1>4. PICK u \in [0..N -> Orders] :
         u[0] = r /\ UsedAgain(r, m, ids) = u[N]
         /\ \A k \in 1..N : u[k] = IF Known(m, ids[k]) THEN MovedFirst(u[k - 1], ids[k]) ELSE u[k - 1]
  BY <1>2, UsedAgainTurns
<1> HIDE DEF N
<1> DEFINE S == {k \in 0..N : Remembers(g[k], u[k], put) /\ g[k].block = m.block}
<1>5. 0 \in S
  BY <1>1, <1>3, <1>4
<1>6. ASSUME NEW k \in 0..N - 1, k \in S PROVE k + 1 \in S
  <2>1. k + 1 \in 1..N /\ k + 1 \in 0..N /\ (k + 1) - 1 = k
    BY <1>1
  <2> DEFINE x == g[k]
             v == u[k]
             id == ids[k + 1]
  <2>2. id \in CallIds
    BY <1>1, <2>1
  <2>3. g[k + 1] = Found(x, id) /\ u[k + 1] = IF Known(m, id) THEN MovedFirst(v, id) ELSE v
    BY <1>3, <1>4, <2>1
  <2>4. Remembers(x, v, put) /\ x.block = m.block
    BY <1>6
  <2> HIDE DEF x, v, id
  <2>5. /\ x \in Memory /\ Counts(x) /\ Within(x) /\ x.lru \in Seq(CallIds) /\ NoDup(x.lru)
        /\ v \in Seq(CallIds) /\ NoDup(v) /\ IsPrefix(x.lru, v)
    BY <2>4 DEF Remembers, Sound, Counts, Memory, Orders
  <2>6. CASE Known(m, id)
    <3> DEFINE y == TouchEntry(x, id)
    <3>1. Known(x, id)
      BY <2>4, <2>6 DEF Known
    <3>2. Counts(y) /\ y.lru = MovedFirst(x.lru, id) /\ y.block = x.block /\ Within(y)
      BY <2>2, <2>5, <3>1, TouchKeeps
    <3>3. g[k + 1] = y /\ u[k + 1] = MovedFirst(v, id)
      BY <2>3, <2>6, <3>1 DEF Found
    <3> HIDE DEF y
    <3>4. MovedFirst(v, id) \in Orders
      BY <2>2, <2>5, MovedFirstFacts DEF Orders
    <3>5. IsPrefix(y.lru, MovedFirst(v, id))
      BY <2>2, <2>5, <3>2, MovedPrefix
    <3>6. Remembers(y, MovedFirst(v, id), put) /\ y.block = m.block
      BY <2>4, <3>2, <3>4, <3>5 DEF Remembers, Sound, Counts
    <3> QED BY <2>1, <3>3, <3>6
  <2>7. CASE ~Known(m, id)
    <3>1. g[k + 1] = x /\ u[k + 1] = v
      BY <2>3, <2>4, <2>7 DEF Found, Known
    <3> QED BY <2>1, <2>4, <3>1
  <2> QED BY <2>6, <2>7
<1>7. N \in S
  <2>1. \A k \in 0..N : k \in S
    <3> HIDE DEF S
    <3> QED BY <1>1, <1>5, <1>6, UpTo
  <2> QED BY <1>1, <2>1
<1> QED BY <1>3, <1>4, <1>7

\* The inductive invariant: what is remembered, and what the last call attached
ToolsInv ==
    /\ Remembers(tm, recent, said) /\ said \in [CallIds -> Texts \cup {NoText}]
    /\ replay.ids # <<>> =>
          \A t \in Texts : (replay.text = t) = (\A i \in Range(replay.ids) : i \in Stored(tm) /\ said[i] = t)

LEMMA EmptyRemembers ==
    ASSUME NEW put PROVE Remembers(NoTools, <<>>, put)
<1>1. /\ NoTools \in Memory /\ NoTools.lru = <<>> /\ NoTools.block = [i \in CallIds |-> NoText]
      /\ NoTools.entries = 0 /\ NoTools.bytes = 0 /\ NoTools.refs = [t \in Texts |-> 0]
  BY EmptySeq DEF NoTools, Memory
<1>2. Stored(NoTools) = {} /\ Spoken(NoTools) = {} /\ \A t \in Texts : Holding(NoTools, t) = {}
  BY <1>1 DEF Stored, Spoken, Holding, Known
<1>3. BlockBytes({}) = {} /\ IsFiniteSet({}) /\ Cardinality({}) = 0
  BY FS_EmptySet DEF BlockBytes
<1>4. NoDup(<<>>) /\ Range(<<>>) = {} /\ <<>> \in Seq(CallIds)
  BY EmptySeq DEF NoDup, Range
<1>5. EntryBytes * 0 + 0 = 0
  BY ToolAssumption
<1>6. Counts(NoTools)
  BY <1>1, <1>2, <1>3, <1>4, <1>5 DEF Counts
<1>7. Within(NoTools)
  BY <1>1, ToolAssumption DEF Within
<1>8. IsPrefix(<<>>, <<>>)
  BY DEF IsPrefix
<1> QED BY <1>1, <1>4, <1>6, <1>7, <1>8 DEF Remembers, Sound, Orders

LEMMA ToolsInit == TmInit => ToolsInv
<1> SUFFICES ASSUME TmInit PROVE ToolsInv
  OBVIOUS
<1>1. Remembers(tm, recent, said)
  BY EmptyRemembers DEF TmInit
<1> QED BY <1>1 DEF TmInit, ToolsInv, NoReplay

LEMMA ToolsStep == ToolsInv /\ [TmNext]_tmVars => ToolsInv'
<1> SUFFICES ASSUME ToolsInv, [TmNext]_tmVars PROVE ToolsInv'
  OBVIOUS
<1> USE DEF ToolsInv
<1>0. ASSUME replay'.ids = <<>>, Remembers(tm', recent', said'), said' \in [CallIds -> Texts \cup {NoText}]
      PROVE  ToolsInv'
  BY <1>0 DEF Remembers, Sound, Counts, Within, Stored, Spoken, Holding, Known
<1>1. ASSUME NEW ids \in Messages, NEW t \in Texts, NEW think \in BOOLEAN, Remember(ids, t, think)
      PROVE  ToolsInv'
  <2>1. ids \in Seq(CallIds)
    BY DEF Messages
  <2>2. /\ tm' = PutCalls(tm, ids, t, think) /\ recent' = Used(recent, ids)
        /\ said' = [i \in CallIds |-> IF i \in Range(ids) THEN t ELSE said[i]] /\ replay'.ids = <<>>
    BY <1>1 DEF Remember, NoReplay
  <2>3. Remembers(tm', recent', said')
    BY <2>1, <2>2, RememberKeeps
  <2>4. said' \in [CallIds -> Texts \cup {NoText}]
    BY <2>2
  <2> QED BY <1>0, <2>2, <2>3, <2>4
<1>2. ASSUME NEW id \in CallIds, NEW t \in Texts, PutFromDisk(id, t) PROVE ToolsInv'
  <2>1. /\ tm' = PutEntry(tm, id, t, TRUE) /\ recent' = Used(recent, <<id>>)
        /\ said' = [said EXCEPT ![id] = t] /\ replay'.ids = <<>>
    BY <1>2 DEF PutFromDisk, NoReplay
  <2>2. Used(recent, <<id>>) = MovedFirst(recent, id)
    <3>1. <<id>> \in Seq(CallIds) /\ Len(<<id>>) = 1 /\ <<id>>[1] = id /\ recent \in Orders
      BY DEF Remembers
    <3>2. PICK u \in [0..Len(<<id>>) -> Orders] :
             u[0] = recent /\ Used(recent, <<id>>) = u[Len(<<id>>)]
             /\ \A k \in 1..Len(<<id>>) : u[k] = MovedFirst(u[k - 1], <<id>>[k])
      BY <3>1, UsedTurns
    <3>3. u[1] = MovedFirst(u[0], <<id>>[1])
      <4>1. 1 \in 1..Len(<<id>>) /\ 1 - 1 = 0
        OBVIOUS
      <4> QED BY <3>2, <4>1
    <3> QED BY <3>1, <3>2, <3>3
  <2>3. said'[id] = t /\ (\A i \in CallIds : i # id => said'[i] = said[i])
        /\ said' \in [CallIds -> Texts \cup {NoText}]
    BY <2>1
  <2>4. Remembers(PutEntry(tm, id, t, TRUE), MovedFirst(recent, id), said')
    <3> DEFINE disk == TRUE
               new == said'
    <3>1. disk \in BOOLEAN /\ new[id] = t /\ \A i \in CallIds : i # id => new[i] = said[i]
      BY <2>3
    <3>2. Remembers(tm, recent, said)
      BY <1>0
    <3> HIDE DEF disk, new
    <3>3. Remembers(PutEntry(tm, id, t, disk), MovedFirst(recent, id), new)
      BY ONLY <3>1, <3>2, PutEntryKeeps, id \in CallIds, t \in Texts
    <3> QED BY <3>3 DEF disk, new
  <2>5. Remembers(tm', recent', said')
    BY <2>1, <2>2, <2>4
  <2> QED BY <1>0, <2>1, <2>3, <2>5
<1>3. ASSUME NEW ids \in Messages, Attach(ids) PROVE ToolsInv'
  <2>1. ids \in Seq(CallIds) /\ Len(ids) \in Nat /\ Len(ids) # 0
    BY DEF Messages
  <2> DEFINE exact == \A i \in Range(ids) : Known(tm, i) /\ tm.block[i] = tm.block[ids[1]]
  <2>2. /\ tm' = FoundCalls(tm, ids) /\ recent' = UsedAgain(recent, tm, ids) /\ said' = said
        /\ replay'.ids = ids /\ replay'.text = IF exact THEN tm.block[ids[1]] ELSE NoText
    BY <1>3 DEF Attach
  <2>3. Remembers(tm', recent', said') /\ tm'.block = tm.block
    BY <2>1, <2>2, AttachKeeps
  <2>4. Stored(tm') = Stored(tm)
    BY <2>3 DEF Stored, Known
  <2>5. ids[1] \in Range(ids) /\ Range(ids) \in SUBSET CallIds
    BY <2>1, RangeOfSeq DEF Range
  <2>6. \A i \in Range(ids) : i \in Stored(tm) <=> Known(tm, i)
    BY <2>5 DEF Stored
  <2>7. \A i \in Range(ids) : Known(tm, i) => tm.block[i] = said[i]
    BY <2>5 DEF Remembers, Known
  <2>8. ASSUME NEW t \in Texts
        PROVE  (replay'.text = t) = (\A i \in Range(ids) : i \in Stored(tm) /\ said[i] = t)
    <3>1. t # NoText
      BY ToolAssumption
    <3> HIDE DEF ToolsInv
    <3>2. CASE exact
      BY <2>2, <2>5, <2>6, <2>7, <3>2
    <3>3. CASE ~exact
      BY <2>2, <2>5, <2>6, <2>7, <3>1, <3>3
    <3> QED BY <3>2, <3>3
  <2>9. \A t \in Texts :
           (replay'.text = t) = (\A i \in Range(replay'.ids) : i \in Stored(tm') /\ said'[i] = t)
    <3> SUFFICES ASSUME NEW t \in Texts
                 PROVE  (replay'.text = t) = (\A i \in Range(replay'.ids) : i \in Stored(tm') /\ said'[i] = t)
      OBVIOUS
    <3>1. (replay'.text = t) = (\A i \in Range(ids) : i \in Stored(tm) /\ said[i] = t)
      BY <2>8
    <3> HIDE DEF ToolsInv
    <3> QED BY <2>2, <2>4, <3>1, Zenon
  <2>10. Remembers(tm, recent, said)'
    BY <2>3 DEF Remembers, Sound, Counts, Within, Stored, Spoken, Holding, Known
  <2>11. (\A t \in Texts :
             (replay.text = t) = (\A i \in Range(replay.ids) : i \in Stored(tm) /\ said[i] = t))'
    BY <2>9 DEF Stored, Known
  <2> QED BY <2>2, <2>10, <2>11
<1>4. ASSUME FreeTools PROVE ToolsInv'
  <2>1. tm' = NoTools /\ recent' = <<>> /\ said' = [i \in CallIds |-> NoText] /\ replay'.ids = <<>>
    BY <1>4 DEF FreeTools, NoReplay
  <2>2. Remembers(tm', recent', said')
    BY <2>1, EmptyRemembers
  <2> QED BY <1>0, <2>1, <2>2
<1>5. CASE UNCHANGED tmVars
  <2>1. tm' = tm /\ recent' = recent /\ said' = said /\ replay' = replay
    BY <1>5 DEF tmVars
  <2>2. Remembers(tm, recent, said)'
    BY <2>1 DEF Remembers, Sound, Counts, Within, Stored, Spoken, Holding, Known
  <2>3. (replay.ids # <<>> =>
           \A t \in Texts : (replay.text = t) = (\A i \in Range(replay.ids) : i \in Stored(tm) /\ said[i] = t))'
    BY <2>1, Zenon DEF Stored, Known
  <2> QED BY <2>1, <2>2, <2>3
<1> QED BY <1>1, <1>2, <1>3, <1>4, <1>5 DEF TmNext

\* The tool memory holds the calls used last, with their texts, and its counts are those of its
\* entries (tool_memory_put_locked, tool_memory_prune_locked, tool_memory_attach_to_messages)
THEOREM ToolMemoryRecalls == TmSpec => []RecallExact
<1>1. ToolsInv => RecallExact
  <2> SUFFICES ASSUME ToolsInv PROVE RecallExact
    OBVIOUS
  <2>1. /\ Counts(tm) /\ Within(tm) /\ IsPrefix(tm.lru, recent)
        /\ \A i \in CallIds : tm.block[i] \in {NoText, said[i]}
    BY DEF ToolsInv, Remembers, Sound
  <2>2. Stored(tm) = {i \in CallIds : Known(tm, i)} /\ Spoken(tm) = {tm.block[i] : i \in Stored(tm)}
    BY DEF Stored, Spoken
  <2>3. \A i \in Stored(tm) : tm.block[i] = said[i]
    BY <2>1 DEF Stored, Known
  <2> QED BY <2>1, <2>2, <2>3 DEF RecallExact, ToolsInv, Counts, Within, Holding, Stored, Spoken
<1>2. ToolsInit /\ ToolsStep
  BY ToolsInit, ToolsStep
<1> QED BY <1>1, ToolsInit, ToolsStep, PTL DEF TmSpec

-----------------------------------------------------------------------------
(* KvStore                                                                 *)

-----------------------------------------------------------------------------
(* Texts and the tokens that spell them                                    *)

Pieces == DOMAIN Spell

LEMMA SpellIs == \A x \in Pieces : Spell[x] \in Seq(Nat)
<1>1. Spell \in [Pieces -> Seq(Nat)]
  BY KsAssumption DEF Pieces
<1> QED BY <1>1

\* The bytes of tokens, one token after the other
LEMMA RenderTurns ==
    ASSUME NEW s \in Seq(Pieces)
    PROVE  \E g \in [0..Len(s) -> Seq(Nat)] :
              g[0] = <<>> /\ Render(s) = g[Len(s)] /\ \A k \in 1..Len(s) : g[k] = g[k - 1] \o Spell[s[k]]
<1> DEFINE N == Len(s)
           turn(x, k) == x \o Spell[s[k]]
           Step == [q \in Seq(Nat) \X (1..N) |-> turn(q[1], q[2])]
           p == CHOOSE g : g = [k \in 0..N |-> IF k = 0 THEN <<>> ELSE turn(g[k - 1], k)]
<1>1. N \in Nat /\ <<>> \in Seq(Nat)
  OBVIOUS
<1>2. \A x \in Seq(Nat), k \in 1..N : turn(x, k) \in Seq(Nat)
  <2> SUFFICES ASSUME NEW x \in Seq(Nat), NEW k \in 1..N PROVE turn(x, k) \in Seq(Nat)
    OBVIOUS
  <2>1. s[k] \in Pieces
    BY ElementOfSeq
  <2>2. Spell[s[k]] \in Seq(Nat)
    BY <2>1, SpellIs
  <2> QED BY <2>2, ConcatProperties

<1>3. Render(s) = p[N]
  BY DEF Render
<1> HIDE DEF turn, N
<1>4. Step \in [Seq(Nat) \X (1..N) -> Seq(Nat)]
  BY <1>2
<1>5. PICK g : g \in Turns(N, Seq(Nat), <<>>, Step)
  <2> HIDE DEF Step
  <2> QED BY <1>1, <1>4, TurnsExist
<1>6. g \in [0..N -> Seq(Nat)] /\ g[0] = <<>> /\ \A k \in 1..N : g[k] = turn(g[k - 1], k)
  <2>1. g \in [0..N -> Seq(Nat)] /\ g[0] = <<>> /\ \A k \in 1..N : g[k] = Step[<<g[k - 1], k>>]
    BY <1>5 DEF Turns
  <2>2. ASSUME NEW k \in 1..N PROVE g[k] = turn(g[k - 1], k)
    <3>1. <<g[k - 1], k>> \in Seq(Nat) \X (1..N)
      BY <1>1, <2>1
    <3> QED BY <2>1, <3>1
  <2> QED BY <2>1, <2>2
<1>7. g = [k \in 0..N |-> IF k = 0 THEN <<>> ELSE turn(g[k - 1], k)]
  BY <1>1, <1>6
<1>8. p = [k \in 0..N |-> IF k = 0 THEN <<>> ELSE turn(p[k - 1], k)]
  BY <1>7
<1> HIDE DEF p
<1>9. p[0] = <<>> /\ \A k \in 1..N : p[k] = turn(p[k - 1], k)
  BY <1>1, <1>8
<1>10. Alike(N, p, g)
  BY <1>1, <1>6, <1>8, <1>9 DEF Alike
<1>11. p = g
  BY <1>1, <1>10, SameTurns
<1> QED BY <1>3, <1>6, <1>11 DEF turn, N

\* Texts can be put together in either order
LEMMA Associative ==
    ASSUME NEW x \in Seq(Nat), NEW y \in Seq(Nat), NEW z \in Seq(Nat)
    PROVE  (x \o y) \o z = x \o (y \o z)
  BY ConcatAssociative

\* Tokens one after the other spell their texts one after the other
LEMMA RenderConcat ==
    ASSUME NEW a \in Seq(Pieces), NEW b \in Seq(Pieces)
    PROVE  Render(a \o b) = Render(a) \o Render(b) /\ Render(a) \in Seq(Nat)
<1> DEFINE m == Len(a)
           n == Len(b)
           c == a \o b
<1>1. /\ m \in Nat /\ n \in Nat /\ c \in Seq(Pieces) /\ Len(c) = m + n
      /\ \A i \in 1..m : c[i] = a[i]
      /\ \A i \in 1..n : c[m + i] = b[i]
  <2>1. m \in Nat /\ n \in Nat
    BY LenProperties
  <2>2. c \in Seq(Pieces) /\ Len(c) = m + n
    BY ConcatProperties
  <2>3. \A i \in 1..m + n : c[i] = IF i <= m THEN a[i] ELSE b[i - m]
    BY ConcatProperties
  <2>4. ASSUME NEW i \in 1..n PROVE c[m + i] = b[i]
    <3>1. m + i \in 1..m + n /\ ~(m + i <= m) /\ (m + i) - m = i
      BY <2>1
    <3> QED BY <2>3, <3>1
  <2>5. ASSUME NEW i \in 1..m PROVE c[i] = a[i]
    <3>1. i \in 1..m + n /\ i <= m
      BY <2>1
    <3> QED BY <2>3, <3>1
  <2> QED BY <2>1, <2>2, <2>4, <2>5
<1> HIDE DEF c, m, n
<1>2. PICK g \in [0..m -> Seq(Nat)] :
          g[0] = <<>> /\ Render(a) = g[m] /\ \A k \in 1..m : g[k] = g[k - 1] \o Spell[a[k]]
  BY RenderTurns DEF m
<1>3. PICK h \in [0..n -> Seq(Nat)] :
          h[0] = <<>> /\ Render(b) = h[n] /\ \A k \in 1..n : h[k] = h[k - 1] \o Spell[b[k]]
  BY RenderTurns DEF n
<1>4. PICK f \in [0..m + n -> Seq(Nat)] :
          f[0] = <<>> /\ Render(c) = f[m + n] /\ \A k \in 1..m + n : f[k] = f[k - 1] \o Spell[c[k]]
  <2>1. \E f \in [0..Len(c) -> Seq(Nat)] :
          f[0] = <<>> /\ Render(c) = f[Len(c)] /\ \A k \in 1..Len(c) : f[k] = f[k - 1] \o Spell[c[k]]
    BY <1>1, RenderTurns
  <2> QED BY <1>1, <2>1
<1>5. f[m] = g[m]
  <2> DEFINE S == {k \in 0..m : f[k] = g[k]}
  <2>1. 0 \in S
    BY <1>1, <1>2, <1>4
  <2>2. \A k \in 0..m - 1 : k \in S => k + 1 \in S
    <3> SUFFICES ASSUME NEW k \in 0..m - 1, k \in S PROVE k + 1 \in S
      OBVIOUS
    <3>1. k + 1 \in 1..m /\ k + 1 \in 1..m + n /\ k + 1 \in 0..m /\ (k + 1) - 1 = k
      BY <1>1
    <3>2. f[k + 1] = f[k] \o Spell[c[k + 1]] /\ g[k + 1] = g[k] \o Spell[a[k + 1]]
      BY <1>2, <1>4, <3>1
    <3> QED BY <1>1, <3>1, <3>2
  <2>3. \A k \in 0..m : k \in S
    <3> HIDE DEF S
    <3> QED BY <1>1, <2>1, <2>2, UpTo
  <2> QED BY <1>1, <2>3
<1>6. f[m + n] = g[m] \o h[n]
  <2> DEFINE S == {k \in 0..n : f[m + k] = g[m] \o h[k]}
  <2>0. g[m] \in Seq(Nat)
    BY <1>1, <1>2
  <2>1. 0 \in S
    <3>1. g[m] \o <<>> = g[m] /\ m + 0 = m
      BY <1>1, <2>0, ConcatEmptySeq
    <3>2. f[m + 0] = g[m] \o h[0]
      BY <1>3, <1>5, <3>1
    <3> QED BY <1>1, <3>2
  <2>2. \A k \in 0..n - 1 : k \in S => k + 1 \in S
    <3> SUFFICES ASSUME NEW k \in 0..n - 1, k \in S PROVE k + 1 \in S
      OBVIOUS
    <3>1. k + 1 \in 1..n /\ m + (k + 1) \in 1..m + n /\ k + 1 \in 0..n /\ (k + 1) - 1 = k
          /\ (m + (k + 1)) - 1 = m + k
      BY <1>1
    <3>2. f[m + (k + 1)] = f[m + k] \o Spell[c[m + (k + 1)]] /\ h[k + 1] = h[k] \o Spell[b[k + 1]]
      <4>1. \A j \in 1..m + n : f[j] = f[j - 1] \o Spell[c[j]]
        BY <1>4
      <4>2. f[m + (k + 1)] = f[(m + (k + 1)) - 1] \o Spell[c[m + (k + 1)]]
        BY <3>1, <4>1
      <4>3. h[k + 1] = h[(k + 1) - 1] \o Spell[b[k + 1]]
        BY <1>3, <3>1
      <4> QED BY <3>1, <4>2, <4>3
    <3>3. c[m + (k + 1)] = b[k + 1]
      BY <1>1, <3>1
    <3>4. f[m + k] = g[m] \o h[k]
      OBVIOUS
    <3>5. Spell[b[k + 1]] \in Seq(Nat) /\ h[k] \in Seq(Nat)
      <4>1. b[k + 1] \in Pieces
        BY <3>1, ElementOfSeq DEF n
      <4> QED BY <1>3, <4>1, SpellIs
    <3>6. (g[m] \o h[k]) \o Spell[b[k + 1]] = g[m] \o (h[k] \o Spell[b[k + 1]])
      <4> DEFINE x == g[m]
                 y == h[k]
                 z == Spell[b[k + 1]]
      <4>1. x \in Seq(Nat) /\ y \in Seq(Nat) /\ z \in Seq(Nat)
        BY <2>0, <3>5
      <4>2. (x \o y) \o z = x \o (y \o z)
        <5> HIDE DEF x, y, z
        <5> QED BY <4>1, Associative
      <4> QED BY <4>2
    <3>7. f[m + (k + 1)] = g[m] \o h[k + 1]
      BY <3>2, <3>3, <3>4, <3>6
    <3> QED BY <3>1, <3>7
  <2>3. \A k \in 0..n : k \in S
    <3> HIDE DEF S
    <3> QED BY <1>1, <2>1, <2>2, UpTo
  <2> QED BY <1>1, <2>3
<1>7. Render(a) \in Seq(Nat)
  BY <1>1, <1>2
<1> QED BY <1>2, <1>3, <1>4, <1>6, <1>7 DEF c

\* A prefix and what follows it
LEMMA PrefixIs ==
    ASSUME NEW k \in Seq(Nat), NEW text \in Seq(Nat), IsPrefix(k, text)
    PROVE  /\ Len(k) \in 0..Len(text) /\ k \o From(text, Len(k)) = text /\ From(text, Len(k)) \in Seq(Nat)
           /\ Len(k) = Len(text) => k = text
<1> DEFINE m == Len(k)
           n == Len(text)
           r == From(text, m)
<1>1. m \in Nat /\ n \in Nat /\ m <= n /\ SubSeq(k, 1, m) = SubSeq(text, 1, m)
  BY LenProperties DEF IsPrefix
<1>2. \A i \in 1..m : k[i] = text[i]
  <2>1. SubSeq(k, 1, m) = [i \in 1..m |-> k[i]]
    BY <1>1
  <2>2. SubSeq(text, 1, m) = [i \in 1..m |-> text[i]]
    BY <1>1
  <2> QED BY <1>1, <2>1, <2>2
<1>3. r \in Seq(Nat) /\ Len(r) = n - m /\ \A i \in 1..n - m : r[i] = text[m + i]
  <2>1. \A i \in m + 1..n : text[i] \in Nat
    BY <1>1, ElementOfSeq
  <2>2. r = SubSeq(text, m + 1, n)
    BY DEF From
  <2>3. SubSeq(text, m + 1, n) \in Seq(Nat)
    BY <1>1, <2>1
  <2>4. Len(SubSeq(text, m + 1, n)) = n - m
    BY <1>1
  <2>5. \A i \in 1..n - m : SubSeq(text, m + 1, n)[i] = text[m + i]
    BY <1>1
  <2> QED BY <2>2, <2>3, <2>4, <2>5
<1> HIDE DEF r
<1>4. k \o r = text
  <2>1. k \o r \in Seq(Nat) /\ Len(k \o r) = n
    BY <1>1, <1>3, ConcatProperties
  <2>2. \A i \in 1..m + (n - m) : (k \o r)[i] = IF i <= m THEN k[i] ELSE r[i - m]
    BY <1>3, ConcatProperties
  <2>3. ASSUME NEW i \in 1..n PROVE (k \o r)[i] = text[i]
    <3>1. CASE i <= m
      <4>1. i \in 1..m /\ i \in 1..m + (n - m)
        BY <1>1, <3>1
      <4> QED BY <1>2, <2>2, <3>1, <4>1
    <3>2. CASE ~(i <= m)
      <4>1. i - m \in 1..n - m /\ i \in 1..m + (n - m) /\ m + (i - m) = i
        BY <1>1, <3>2
      <4> QED BY <1>3, <2>2, <3>2, <4>1
    <3> QED BY <3>1, <3>2
  <2> QED BY <1>1, <2>1, <2>3, SeqEqual
<1>5. m = n => k = text
  <2> SUFFICES ASSUME m = n PROVE k = text
    OBVIOUS
  <2> QED BY <1>1, <1>2, SeqEqual
<1> QED BY <1>1, <1>3, <1>4, <1>5 DEF r

LEMMA PrefixSelf == ASSUME NEW k \in Seq(Nat) PROVE IsPrefix(k, k)
  BY LenProperties DEF IsPrefix

-----------------------------------------------------------------------------
(* Directories and their bytes                                             *)

Files == [model : Nat, quant : Nat, ctx : Nat, reason : {"cold", "continued"},
          tokens : Seq(Pieces), hits : Nat, used : Nat, trailer : BOOLEAN, visible : BOOLEAN,
          bad : BOOLEAN]

\* A file that a store can have written under that text
FileOk(k, f) ==
    /\ f \in Files /\ k \in Seq(Nat) /\ Len(f.tokens) >= MinTokens
    /\ ~f.visible => Render(f.tokens) = k

DirOk(d) ==
    /\ d = [k \in DOMAIN d |-> d[k]] /\ IsFiniteSet(DOMAIN d) /\ IsFiniteSet(Spaces(d))
    /\ \A k \in DOMAIN d : FileOk(k, d[k])

LEMMA BytesOfFile ==
    ASSUME NEW k, NEW f, FileOk(k, f)
    PROVE  FileBytes(k, f) \in Nat
<1>1. HeaderBytes \in Nat /\ TokenBytes \in Nat /\ TrailerBytes \in Nat
  BY KsAssumption
<1>2. k \in Seq(Nat) /\ f.tokens \in Seq(Pieces)
  BY DEF FileOk, Files
<1>3. Len(k) \in Nat /\ Len(f.tokens) \in Nat
  BY <1>2, LenProperties
<1>4. \A a, b \in Nat : a * b \in Nat
  OBVIOUS
<1>5. TokenBytes * Len(f.tokens) \in Nat
  BY <1>1, <1>3, <1>4
<1> DEFINE x == TokenBytes * Len(f.tokens)
<1> HIDE DEF x
<1>6. x \in Nat
  BY <1>5 DEF x
<1>7. FileBytes(k, f) = HeaderBytes + Len(k) + x + (IF f.trailer THEN TrailerBytes ELSE 0)
  BY DEF FileBytes, x
<1> QED BY <1>1, <1>3, <1>6, <1>7

\* The bytes of one file are as many as it has
LEMMA BytesCounted ==
    ASSUME NEW k, NEW b \in Nat
    PROVE  IsFiniteSet({k} \X (1..b)) /\ Cardinality({k} \X (1..b)) <= b
           /\ Cardinality({k} \X (1..b)) \in Nat
<1> DEFINE T == {k} \X (1..b)
           f == [i \in 1..b |-> <<k, i>>]
<1>1. f \in Surjection(1..b, T)
  <2>1. f \in [1..b -> T]
    OBVIOUS
  <2>2. ASSUME NEW t \in T PROVE \E i \in 1..b : f[i] = t
    <3>1. t[2] \in 1..b /\ f[t[2]] = t
      OBVIOUS
    <3> QED BY <3>1
  <2> QED BY <2>1, <2>2 DEF Surjection
<1>2. IsFiniteSet(1..b) /\ Cardinality(1..b) = b
  BY FS_Interval
<1> HIDE DEF f, T
<1>3. IsFiniteSet(T) /\ Cardinality(T) <= b
  BY <1>1, <1>2, FS_Surjection
<1>4. Cardinality(T) \in Nat
  BY <1>3, FS_CardinalityType
<1> QED BY <1>3, <1>4 DEF T

LEMMA TotalIsNat == ASSUME NEW d, DirOk(d) PROVE TotalBytes(d) \in Nat
  BY FS_CardinalityType DEF DirOk, TotalBytes

\* Some of the files
LEMMA SomeFiles ==
    ASSUME NEW d, DirOk(d), NEW K \in SUBSET DOMAIN d, NEW x, x = [j \in K |-> d[j]]
    PROVE  DirOk(x) /\ DOMAIN x = K /\ Spaces(x) \subseteq Spaces(d)
<1>1. DOMAIN x = K /\ \A j \in K : x[j] = d[j]
  OBVIOUS
<1>2. IsFiniteSet(K)
  BY FS_Subset DEF DirOk
<1>3. Spaces(x) \subseteq Spaces(d)
  BY <1>1 DEF Spaces
<1>4. IsFiniteSet(Spaces(x))
  BY <1>3, FS_Subset DEF DirOk
<1>5. \A j \in K : FileOk(j, x[j])
  BY <1>1 DEF DirOk
<1>6. x = [j \in DOMAIN x |-> x[j]]
  BY <1>1
<1> QED BY <1>1, <1>2, <1>3, <1>4, <1>5, <1>6 DEF DirOk

\* The directory with that file under that text
With(d, k, f) == [j \in (DOMAIN d) \cup {k} |-> IF j = k THEN f ELSE d[j]]

LEMMA OneMoreFile ==
    ASSUME NEW d, DirOk(d), NEW k, NEW f, FileOk(k, f)
    PROVE  /\ DirOk(With(d, k, f)) /\ Spaces(With(d, k, f)) \subseteq Spaces(d) \cup ({k} \X (1..FileBytes(k, f)))
           /\ TotalBytes(With(d, k, f)) <= TotalBytes(d) + FileBytes(k, f)
           /\ TotalBytes(With(d, k, f)) \in Nat
<1> DEFINE x == With(d, k, f)
           b == FileBytes(k, f)
           T == {k} \X (1..b)
<1>1. /\ DOMAIN x = (DOMAIN d) \cup {k} /\ x = [j \in DOMAIN x |-> x[j]]
      /\ x[k] = f /\ \A j \in DOMAIN d : j # k => x[j] = d[j]
  BY DEF With
<1> HIDE DEF x
<1>2. Spaces(x) \subseteq Spaces(d) \cup T
  <2> SUFFICES ASSUME NEW s \in Spaces(x) PROVE s \in Spaces(d) \cup T
    OBVIOUS
  <2>1. PICK j \in DOMAIN x : s \in {j} \X (1..FileBytes(j, x[j]))
    BY DEF Spaces
  <2>2. CASE j = k
    BY <1>1, <2>1, <2>2
  <2>3. CASE j # k
    <3>1. j \in DOMAIN d /\ s \in {j} \X (1..FileBytes(j, d[j]))
      BY <1>1, <2>1, <2>3
    <3> QED BY <3>1 DEF Spaces
  <2> QED BY <2>2, <2>3
<1>3. b \in Nat
  BY BytesOfFile
<1> HIDE DEF b
<1>4. IsFiniteSet(T) /\ Cardinality(T) <= b /\ Cardinality(T) \in Nat
  BY <1>3, BytesCounted
<1>5. IsFiniteSet(Spaces(d)) /\ IsFiniteSet(DOMAIN d) /\ Cardinality(Spaces(d)) \in Nat
  BY FS_CardinalityType DEF DirOk
<1> HIDE DEF T
<1>6. /\ IsFiniteSet(Spaces(d) \cup T) /\ Cardinality(Spaces(d) \cup T) \in Nat
      /\ Cardinality(Spaces(d) \cup T) <= Cardinality(Spaces(d)) + Cardinality(T)
  <2>1. /\ IsFiniteSet(Spaces(d) \cup T)
        /\ Cardinality(Spaces(d) \cup T) = Cardinality(Spaces(d)) + Cardinality(T) - Cardinality(Spaces(d) \cap T)
    BY <1>4, <1>5, FS_Union
  <2>2. Cardinality(Spaces(d) \cap T) \in Nat
    BY <1>5, FS_Intersection, FS_CardinalityType
  <2>3. Cardinality(Spaces(d) \cup T) \in Nat
    BY <2>1, FS_CardinalityType
  <2> QED BY <1>4, <1>5, <2>1, <2>2, <2>3
<1>7. /\ IsFiniteSet(Spaces(x)) /\ Cardinality(Spaces(x)) <= Cardinality(Spaces(d) \cup T)
      /\ Cardinality(Spaces(x)) \in Nat
  <2>1. IsFiniteSet(Spaces(x)) /\ Cardinality(Spaces(x)) <= Cardinality(Spaces(d) \cup T)
    BY <1>2, <1>6, FS_Subset
  <2> QED BY <2>1, FS_CardinalityType
<1>8. IsFiniteSet(DOMAIN x)
  <2>1. IsFiniteSet((DOMAIN d) \cup {k})
    BY <1>5, FS_AddElement
  <2> QED BY <1>1, <2>1
<1>9. \A j \in DOMAIN x : FileOk(j, x[j])
  BY <1>1 DEF DirOk
<1>10. DirOk(x)
  BY <1>1, <1>7, <1>8, <1>9 DEF DirOk
<1>11. Cardinality(Spaces(x)) <= Cardinality(Spaces(d)) + b
  BY <1>3, <1>4, <1>5, <1>6, <1>7
<1> QED BY <1>2, <1>7, <1>10, <1>11 DEF x, T, b, TotalBytes

-----------------------------------------------------------------------------
(* Eviction                                                                *)

\* The directories with some of the files of d
PartsOf(d) == {[j \in K |-> d[j]] : K \in SUBSET DOMAIN d}

LEMMA UnlinkLeavesPart ==
    ASSUME NEW d, NEW x \in PartsOf(d), NEW ks
    PROVE  Unlink(x, ks) \in PartsOf(d)
<1>1. PICK K \in SUBSET DOMAIN d : x = [j \in K |-> d[j]]
  BY DEF PartsOf
<1>2. DOMAIN x = K /\ \A j \in K : x[j] = d[j]
  BY <1>1
<1>3. K \ ks \in SUBSET DOMAIN d
  OBVIOUS
<1>4. Unlink(x, ks) = [j \in K \ ks |-> d[j]]
  BY <1>2 DEF Unlink
<1> QED BY <1>3, <1>4 DEF PartsOf

\* p36_kvstore_evict only takes files away, and a loop that was not stopped by a failed
\* unlink ends within its target
LEMMA EvictLeaves ==
    ASSUME NEW d, DirOk(d), NEW target, NEW text, NEW e \in EvictTo(d, target, text)
    PROVE  e.dir \in PartsOf(d) /\ (e.clean => TotalBytes(e.dir) <= target)
<1> DEFINE N == Cardinality(DOMAIN d)
           X == SUBSET PartsOf(d)
           worst(x) == {k \in DOMAIN x : \A j \in DOMAIN x : ~WorthLess(j, k, x, text)}
           turn(x) == UNION {{Unlink(y, {k}) : k \in worst(y)} : y \in {z \in x : TotalBytes(z) > target}}
           Step == [q \in X \X (1..N) |-> turn(q[1])]
           p == CHOOSE g : g = [n \in 0..N |-> IF n = 0 THEN {d} ELSE turn(g[n - 1])]
<1>1. N \in Nat
  BY FS_CardinalityType DEF DirOk
<1>2. {d} \in X
  <2>1. d = [j \in DOMAIN d |-> d[j]] /\ DOMAIN d \in SUBSET DOMAIN d
    BY DEF DirOk
  <2>2. d \in PartsOf(d)
    BY <2>1 DEF PartsOf
  <2> QED BY <2>2
<1>3. \A x \in X : turn(x) \in X
  <2> SUFFICES ASSUME NEW x \in X, NEW z \in turn(x) PROVE z \in PartsOf(d)
    OBVIOUS
  <2>1. PICK y \in x : z \in {Unlink(y, {k}) : k \in worst(y)}
    OBVIOUS
  <2> HIDE DEF worst
  <2>2. y \in PartsOf(d)
    BY <2>1
  <2>3. PICK k : z = Unlink(y, {k})
    BY <2>1
  <2> QED BY <2>2, <2>3, UnlinkLeavesPart
<1>4. e \in {[dir |-> x, clean |-> TotalBytes(x) <= target] : x \in UNION {p[n] : n \in DOMAIN p}}
  BY DEF EvictTo
<1> HIDE DEF turn, N, X
<1>5. Step \in [X \X (1..N) -> X]
  BY <1>3
<1>6. PICK g : g \in Turns(N, X, {d}, Step)
  <2> HIDE DEF Step
  <2> QED BY <1>1, <1>2, <1>5, TurnsExist
<1>7. g \in [0..N -> X] /\ g[0] = {d} /\ \A k \in 1..N : g[k] = turn(g[k - 1])
  <2>1. g \in [0..N -> X] /\ g[0] = {d} /\ \A k \in 1..N : g[k] = Step[<<g[k - 1], k>>]
    BY <1>6 DEF Turns
  <2>2. ASSUME NEW k \in 1..N PROVE g[k] = turn(g[k - 1])
    <3>1. <<g[k - 1], k>> \in X \X (1..N)
      BY <1>1, <2>1
    <3> QED BY <2>1, <3>1
  <2> QED BY <2>1, <2>2
<1>8. g = [k \in 0..N |-> IF k = 0 THEN {d} ELSE turn(g[k - 1])]
  BY <1>1, <1>7
<1>9. p = [k \in 0..N |-> IF k = 0 THEN {d} ELSE turn(p[k - 1])]
  BY <1>8
<1> HIDE DEF p
<1>10. p[0] = {d} /\ \A k \in 1..N : p[k] = turn(p[k - 1])
  <2>1. \A k \in 0..N : p[k] = IF k = 0 THEN {d} ELSE turn(p[k - 1])
    BY <1>9
  <2>2. 0 \in 0..N /\ \A k \in 1..N : k \in 0..N /\ k # 0
    BY <1>1
  <2> QED BY <2>1, <2>2
<1>11. Alike(N, p, g)
  BY <1>1, <1>7, <1>9, <1>10 DEF Alike
<1>12. p = g
  BY <1>1, <1>11, SameTurns
<1>13. PICK x \in UNION {p[n] : n \in DOMAIN p} : e = [dir |-> x, clean |-> TotalBytes(x) <= target]
  BY <1>4
<1>14. x \in PartsOf(d)
  <2>1. PICK n \in 0..N : x \in p[n]
    BY <1>7, <1>12, <1>13
  <2>2. p[n] \in X
    BY <1>7, <1>12
  <2> QED BY <2>1, <2>2 DEF X
<1> QED BY <1>13, <1>14

\* What is left is a directory
LEMMA PartIsDir ==
    ASSUME NEW d, DirOk(d), NEW x \in PartsOf(d)
    PROVE  DirOk(x) /\ DOMAIN x \subseteq DOMAIN d
<1>1. PICK K \in SUBSET DOMAIN d : x = [j \in K |-> d[j]]
  BY DEF PartsOf
<1> QED BY <1>1, SomeFiles

LEMMA UnlinkIsDir ==
    ASSUME NEW d, DirOk(d), NEW ks
    PROVE  DirOk(Unlink(d, ks)) /\ DOMAIN Unlink(d, ks) = DOMAIN d \ ks
<1>1. Unlink(d, ks) = [j \in DOMAIN d \ ks |-> d[j]] /\ DOMAIN d \ ks \in SUBSET DOMAIN d
  BY DEF Unlink
<1> QED BY <1>1, SomeFiles

\* p36_kvstore_evict makes room for what is coming
LEMMA RoomMade ==
    ASSUME NEW d, DirOk(d), NEW extra \in Nat, NEW text, NEW e \in p36_kvstore_evict(d, extra, text)
    PROVE  /\ DirOk(e.dir) /\ DOMAIN e.dir \subseteq DOMAIN d
           /\ extra <= StoreBudget /\ e.clean => TotalBytes(e.dir) + extra <= StoreBudget
<1>1. StoreBudget \in Nat
  BY KsAssumption
<1>2. CASE extra > StoreBudget
  <2>1. e = [dir |-> d, clean |-> TRUE]
    BY <1>2 DEF p36_kvstore_evict
  <2> QED BY <1>1, <1>2, <2>1
<1>3. CASE ~(extra > StoreBudget)
  <2> DEFINE target == StoreBudget - extra
  <2>1. e \in EvictTo(d, target, text)
    BY <1>3 DEF p36_kvstore_evict
  <2> HIDE DEF target
  <2>2. e.dir \in PartsOf(d) /\ (e.clean => TotalBytes(e.dir) <= target)
    BY <2>1, EvictLeaves
  <2>3. DirOk(e.dir) /\ DOMAIN e.dir \subseteq DOMAIN d
    BY <2>2, PartIsDir
  <2>4. TotalBytes(e.dir) \in Nat
    BY <2>3, TotalIsNat
  <2> QED BY <1>1, <2>2, <2>3, <2>4 DEF target
<1> QED BY <1>2, <1>3

-----------------------------------------------------------------------------
(* The store                                                               *)

KsOk == DirOk(dir) /\ engine \in Engines /\ live \in Seq(Pieces) /\ now \in Nat

\* A file whose trailer, hits or health change stands for what it stood for
LEMMA SameFile ==
    ASSUME NEW k, NEW f, FileOk(k, f), NEW t \in BOOLEAN, NEW h \in Nat, NEW u \in Nat, NEW b \in BOOLEAN,
           NEW x, x = [f EXCEPT !.trailer = t, !.hits = h, !.used = u, !.bad = b]
    PROVE  FileOk(k, x)
<1>1. f \in Files
  BY DEF FileOk
<1>2. x \in Files /\ x.tokens = f.tokens /\ x.visible = f.visible
  BY <1>1 DEF Files
<1> QED BY <1>2 DEF FileOk

\* Changing a file of a directory
Touched(d, k, t, h, u, b) ==
    With(d, k, [d[k] EXCEPT !.trailer = t, !.hits = h, !.used = u, !.bad = b])

LEMMA FieldsOfFile ==
    ASSUME NEW d, DirOk(d), NEW k \in DOMAIN d
    PROVE  /\ d[k] \in Files /\ d[k].trailer \in BOOLEAN /\ d[k].hits \in Nat
           /\ d[k].used \in Nat /\ d[k].bad \in BOOLEAN /\ d[k].tokens \in Seq(Pieces)
<1>1. d[k] \in Files
  BY DEF DirOk, FileOk
<1> QED BY <1>1 DEF Files

LEMMA TouchedIsDir ==
    ASSUME NEW d, DirOk(d), NEW k \in DOMAIN d,
           NEW t \in BOOLEAN, NEW h \in Nat, NEW u \in Nat, NEW b \in BOOLEAN
    PROVE  DirOk(Touched(d, k, t, h, u, b))
<1> DEFINE x == [d[k] EXCEPT !.trailer = t, !.hits = h, !.used = u, !.bad = b]
<1>1. FileOk(k, d[k])
  BY DEF DirOk
<1>2. FileOk(k, x)
  BY <1>1, SameFile
<1> HIDE DEF x
<1>3. DirOk(With(d, k, x))
  BY <1>2, OneMoreFile
<1> QED BY <1>3 DEF x, Touched

\* A usable file of that text gets its trailer again (the first alternative of a store)
LEMMA TrailerAgain ==
    ASSUME KsOk, NEW k, NEW trailer \in BOOLEAN, StoreAgain(k, trailer)
    PROVE  /\ DirOk(dir') /\ k \in DOMAIN dir'
           /\ dir'[k].tokens = dir[k].tokens /\ dir'[k].model = dir[k].model
           /\ dir'[k].ctx = dir[k].ctx /\ dir'[k].quant = dir[k].quant
<1>1. k \in DOMAIN dir /\ DirOk(dir) /\ now \in Nat
  BY DEF StoreAgain, KsOk
<1>2. CASE ~trailer
  BY <1>1, <1>2 DEF StoreAgain
<1>3. CASE trailer
  <2> DEFINE y == Touched(dir, k, TRUE, dir[k].hits, now, dir[k].bad)
  <2>1. dir' = [dir EXCEPT ![k].trailer = TRUE, ![k].used = now]
    BY <1>3 DEF StoreAgain
  <2>2. dir = [j \in DOMAIN dir |-> dir[j]] /\ dir[k] \in Files
    BY <1>1, FieldsOfFile DEF DirOk
  <2>3. [dir[k] EXCEPT !.trailer = TRUE, !.used = now]
        = [dir[k] EXCEPT !.trailer = TRUE, !.hits = dir[k].hits, !.used = now, !.bad = dir[k].bad]
    BY <2>2 DEF Files
  <2>4. dir' = [dir EXCEPT ![k] = [dir[k] EXCEPT !.trailer = TRUE, !.used = now]]
    BY <1>1, <2>1, <2>2 DEF Files
  <2>5. dir' = y
    BY <1>1, <2>2, <2>3, <2>4 DEF Touched, With
  <2>6. DirOk(y)
    BY <1>1, FieldsOfFile, TouchedIsDir
  <2>7. dir'[k] = [dir[k] EXCEPT !.trailer = TRUE, !.used = now] /\ k \in DOMAIN dir'
    BY <1>1, <2>4
  <2>8. /\ dir'[k].tokens = dir[k].tokens /\ dir'[k].model = dir[k].model
        /\ dir'[k].ctx = dir[k].ctx /\ dir'[k].quant = dir[k].quant
    BY <2>2, <2>7 DEF Files
  <2> HIDE DEF y
  <2> QED BY <2>5, <2>6, <2>7, <2>8
<1> QED BY <1>2, <1>3

\* A file for the text of a prompt that is the text of a file is that file
LEMMA FindsItself ==
    ASSUME NEW k, DirOk(dir'), k \in DOMAIN dir', engine' \in Engines,
           Compatible(dir[k])'
    PROVE  (FindTextPrefix(k) = {k})'
<1>1. FileOk(k, dir'[k]) /\ \A j \in DOMAIN dir' : j \in Seq(Nat)
  BY DEF DirOk, FileOk
<1>2. k \in Seq(Nat) /\ IsPrefix(k, k)
  BY <1>1, PrefixSelf DEF FileOk
<1>3. Usable(k, k)'
  BY <1>1, <1>2 DEF Usable, Compatible, FileOk
<1>4. \A j \in DOMAIN dir' : Usable(j, k)' => j \in Seq(Nat) /\ IsPrefix(j, k)
  BY <1>1 DEF Usable
<1>5. \A j \in DOMAIN dir' : Usable(j, k)' => Len(j) <= Len(k)
  <2> SUFFICES ASSUME NEW j \in DOMAIN dir', Usable(j, k)' PROVE Len(j) <= Len(k)
    OBVIOUS
  <2>1. Len(j) \in 0..Len(k)
    BY <1>2, <1>4, PrefixIs
  <2>2. Len(k) \in Nat
    BY <1>2, LenProperties
  <2> QED BY <2>1, <2>2
<1>6. k \in FindTextPrefix(k)'
  BY <1>3, <1>5 DEF FindTextPrefix
<1>7. ASSUME NEW j \in FindTextPrefix(k)' PROVE j = k
  <2>1. j \in DOMAIN dir' /\ Usable(j, k)' /\ Len(k) <= Len(j)
    BY <1>3 DEF FindTextPrefix
  <2>2. j \in Seq(Nat) /\ IsPrefix(j, k) /\ Len(j) <= Len(k)
    BY <1>4, <1>5, <2>1
  <2>3. Len(j) \in Nat /\ Len(k) \in Nat
    BY <1>2, <2>2, LenProperties
  <2>4. Len(j) = Len(k)
    BY <2>1, <2>2, <2>3
  <2> QED BY <1>2, <2>2, <2>4, PrefixIs
<1> QED BY <1>6, <1>7

\* A file of its own, written after room was made for it (the other alternative)
LEMMA Written ==
    ASSUME KsOk, NEW k, NEW f, FileOk(k, f), f.model = engine.model, f.quant = engine.quant, f.ctx = engine.ctx,
           engine' = engine, StoreFile(k, f)
    PROVE  DirOk(dir') /\ StoredIsFound' /\ StoreWithinBudget' /\ ret'.op = "store"
<1> DEFINE rest == Unlink(dir, {k})
           bytes == FileBytes(k, f)
<1>1. DirOk(rest) /\ DOMAIN rest = DOMAIN dir \ {k}
  BY UnlinkIsDir DEF KsOk
<1>2. bytes \in Nat
  BY BytesOfFile
<1>3. \/ dir' = rest /\ Returns("store", k, FALSE, FALSE, <<>>)
      \/ /\ FitsBudget(bytes)
         /\ \E e \in p36_kvstore_evict(rest, bytes, k) :
               \/ dir' = e.dir /\ Returns("store", k, FALSE, FALSE, <<>>)
               \/ dir' = With(e.dir, k, f) /\ Returns("store", k, TRUE, e.clean, <<>>)
  BY DEF StoreFile, With
<1> HIDE DEF rest, bytes
<1>4. ASSUME Returns("store", k, FALSE, FALSE, <<>>)
      PROVE  StoredIsFound' /\ StoreWithinBudget' /\ ret'.op = "store"
  BY <1>4 DEF Returns, StoredIsFound, StoreWithinBudget
<1>5. CASE dir' = rest /\ Returns("store", k, FALSE, FALSE, <<>>)
  BY <1>1, <1>4, <1>5
<1>6. ASSUME FitsBudget(bytes), NEW e \in p36_kvstore_evict(rest, bytes, k),
             dir' = e.dir, Returns("store", k, FALSE, FALSE, <<>>)
      PROVE  DirOk(dir')
  BY <1>1, <1>2, <1>6, RoomMade
<1>7. ASSUME FitsBudget(bytes), NEW e \in p36_kvstore_evict(rest, bytes, k),
             dir' = With(e.dir, k, f), Returns("store", k, TRUE, e.clean, <<>>)
      PROVE  DirOk(dir') /\ StoredIsFound' /\ StoreWithinBudget' /\ ret'.op = "store"
  <2>1. /\ DirOk(e.dir) /\ DOMAIN e.dir \subseteq DOMAIN rest
        /\ bytes <= StoreBudget /\ e.clean => TotalBytes(e.dir) + bytes <= StoreBudget
    BY <1>1, <1>2, <1>7, RoomMade
  <2>2. bytes <= StoreBudget
    <3> DEFINE more == bytes \div 100
    <3>1. StoreBudget \in Nat
      BY KsAssumption
    <3>2. more \in Nat
      BY <1>2
    <3>3. bytes + more + (IF bytes % 100 = 0 THEN 0 ELSE 1) <= StoreBudget
      BY <1>7 DEF FitsBudget
    <3> HIDE DEF more
    <3> QED BY <1>2, <3>1, <3>2, <3>3
  <2>3. /\ DirOk(dir') /\ TotalBytes(dir') <= TotalBytes(e.dir) + bytes
        /\ TotalBytes(dir') \in Nat
    BY <1>7, <2>1, OneMoreFile DEF bytes
  <2>4. TotalBytes(e.dir) \in Nat
    BY <2>1, TotalIsNat
  <2>5. StoreBudget \in Nat
    BY KsAssumption
  <2>6. e.clean => TotalBytes(dir') <= StoreBudget
    BY <1>2, <2>1, <2>2, <2>3, <2>4, <2>5
  <2>7. ret'.op = "store" /\ ret'.ok /\ ret'.key = k /\ ret'.clean = e.clean
    BY <1>7 DEF Returns
  <2>8. k \in DOMAIN dir' /\ dir'[k] = f
    BY <1>7 DEF With
  <2>9. Compatible(dir[k])'
    <3>1. engine \in [model : Nat, quant : Nat, ctx : Nat]
      BY KsAssumption DEF KsOk
    <3> QED BY <2>8, <3>1 DEF Compatible, SameQuant
  <2>10. (FindTextPrefix(k) = {k})'
    <3>1. DirOk(dir') /\ k \in DOMAIN dir' /\ engine' \in Engines /\ Compatible(dir[k])'
      BY <2>3, <2>8, <2>9 DEF KsOk
    <3> QED BY <3>1, FindsItself
  <2> QED BY <2>3, <2>6, <2>7, <2>10 DEF StoredIsFound, StoreWithinBudget
<1> QED BY <1>3, <1>4, <1>5, <1>6, <1>7

\* Both alternatives of a store
LEMMA StoreStep ==
    ASSUME KsOk, NEW tokens, NEW reason \in {"cold", "continued"}, NEW text \in Seq(Nat), NEW trailer \in BOOLEAN,
           Store(tokens, reason, text, trailer)
    PROVE  KsOk' /\ StoredIsFound' /\ StoreWithinBudget' /\ ret'.op = "store"
<1> DEFINE k == IF text = <<>> THEN Render(tokens) ELSE text
           f == Checkpoint(tokens, reason, trailer, text # <<>>)
<1>1. /\ tokens \in Seq(Pieces) /\ Len(tokens) >= MinTokens
      /\ engine' = engine /\ live' = live /\ now' = now
      /\ StoreAgain(k, trailer) \/ StoreFile(k, f)
  BY DEF Store, KsOk
<1>2. Render(tokens) \in Seq(Nat)
  BY <1>1, RenderConcat
<1>3. k \in Seq(Nat)
  BY <1>2
<1>4. engine \in [model : Nat, quant : Nat, ctx : Nat]
  BY KsAssumption DEF KsOk
<1>5. FileOk(k, f)
  <2>1. f \in Files
    <3>1. now \in Nat
      BY DEF KsOk
    <3> QED BY <1>1, <1>4, <3>1 DEF Checkpoint, Files
  <2>2. f.tokens = tokens /\ f.visible = (text # <<>>)
    BY DEF Checkpoint
  <2> HIDE DEF f
  <2> QED BY <1>1, <1>3, <2>1, <2>2 DEF FileOk
<1>6. f.model = engine.model /\ f.quant = engine.quant /\ f.ctx = engine.ctx
  BY DEF Checkpoint
<1>7. DirOk(dir') => KsOk'
  BY <1>1 DEF KsOk
<1> HIDE DEF k, f
<1>8. CASE StoreFile(k, f)
  BY <1>1, <1>5, <1>6, <1>7, <1>8, Written
<1>9. CASE StoreAgain(k, trailer)
  <2>1. /\ DirOk(dir') /\ k \in DOMAIN dir' /\ dir'[k].model = dir[k].model
        /\ dir'[k].ctx = dir[k].ctx /\ dir'[k].quant = dir[k].quant
    BY <1>9, TrailerAgain
  <2>2. Compatible(dir[k])'
    BY <1>1, <1>9, <2>1 DEF StoreAgain, Compatible, SameQuant
  <2>3. engine' \in Engines
    BY <1>1 DEF KsOk
  <2>4. (FindTextPrefix(k) = {k})'
    BY <2>1, <2>2, <2>3, FindsItself
  <2>5. ret'.op = "store" /\ ret'.key = k /\ ret'.clean = FALSE
    BY <1>9 DEF StoreAgain, Returns
  <2> QED BY <1>7, <2>1, <2>4, <2>5 DEF StoredIsFound, StoreWithinBudget
<1> QED BY <1>1, <1>8, <1>9

-----------------------------------------------------------------------------
(* The load                                                                *)

LEMMA StartIsPrefix ==
    ASSUME NEW a \in Seq(Pieces), NEW b \in Seq(Pieces)
    PROVE  IsPrefix(a, a \o b)
<1> DEFINE m == Len(a)
           n == Len(b)
           c == a \o b
<1>1. /\ m \in Nat /\ n \in Nat /\ c \in Seq(Pieces) /\ Len(c) = m + n
      /\ \A i \in 1..m : c[i] = a[i]
  <2>1. m \in Nat /\ n \in Nat
    BY LenProperties
  <2>2. \A i \in 1..m + n : c[i] = IF i <= m THEN a[i] ELSE b[i - m]
    BY ConcatProperties
  <2>3. \A i \in 1..m : i \in 1..m + n /\ i <= m
    BY <2>1
  <2> QED BY <2>1, <2>2, <2>3, ConcatProperties
<1> HIDE DEF c
<1>2. SubSeq(a, 1, m) = SubSeq(c, 1, m)
  <2>1. SubSeq(a, 1, m) = [i \in 1..m |-> a[i]]
    BY <1>1
  <2>2. SubSeq(c, 1, m) = [i \in 1..m |-> c[i]]
    BY <1>1
  <2> QED BY <1>1, <2>1, <2>2
<1>3. IsPrefix(a, c)
  BY <1>1, <1>2 DEF IsPrefix
<1> QED BY <1>3 DEF c

\* The tokens of the checkpoint and of the rest of the prompt spell the prompt
LEMMA LoadStep ==
    ASSUME KsOk, NEW text \in StorePrompts, TryLoad(text)
    PROVE  KsOk' /\ LoadSpellsPrompt' /\ ret'.op = "load"
<1>1. PICK k \in FindTextPrefix(text) :
          IF dir[k].bad THEN
              /\ \/ live' \in {live, <<>>} /\ UNCHANGED dir
                 \/ live' = <<>> /\ dir' = Unlink(dir, {k})
              /\ Returns("load", text, FALSE, FALSE, <<>>) /\ UNCHANGED lastStore
          ELSE /\ live' = dir[k].tokens /\ lastStore' = Len(dir[k].tokens)
               /\ dir' = [dir EXCEPT ![k].hits = IF @ = 0 THEN 1 ELSE @, ![k].used = now]
               /\ Returns("load", text, TRUE, dir[k].visible,
                          dir[k].tokens \o TokensOf[Suffix(k, dir[k], text)])
  BY DEF TryLoad
<1>2. engine' = engine /\ now' = now /\ engine \in Engines /\ now \in Nat /\ DirOk(dir)
  BY DEF TryLoad, KsOk
<1>3. k \in DOMAIN dir /\ IsPrefix(k, text)
  BY DEF FindTextPrefix, Usable
<1>4. FileOk(k, dir[k]) /\ k \in Seq(Nat)
  BY <1>2, <1>3 DEF DirOk, FileOk
<1>5. dir[k] \in Files /\ dir[k].tokens \in Seq(Pieces) /\ dir[k].hits \in Nat
      /\ dir[k].trailer \in BOOLEAN /\ dir[k].bad \in BOOLEAN
  BY <1>2, <1>3, FieldsOfFile
<1>6. CASE dir[k].bad
  <2>1. /\ live' \in {live, <<>>} /\ (dir' = dir \/ dir' = Unlink(dir, {k}))
        /\ ret'.op = "load" /\ ret'.ok = FALSE
    BY <1>1, <1>6 DEF Returns
  <2>2. live' \in Seq(Pieces)
    <3>1. <<>> \in Seq(Pieces)
      OBVIOUS
    <3>2. live \in Seq(Pieces)
      BY DEF KsOk
    <3> QED BY <2>1, <3>1, <3>2
  <2>3. DirOk(dir')
    <3>1. CASE dir' = dir
      BY <1>2, <3>1
    <3>2. CASE dir' = Unlink(dir, {k})
      <4>1. DirOk(Unlink(dir, {k}))
        BY <1>2, UnlinkIsDir
      <4> QED BY <3>2, <4>1
    <3> QED BY <2>1, <3>1, <3>2
  <2> QED BY <1>2, <2>1, <2>2, <2>3 DEF KsOk, LoadSpellsPrompt
<1>7. CASE ~dir[k].bad
  <2> DEFINE rest == TokensOf[From(text, Len(k))]
             a == dir[k].tokens
             h == IF dir[k].hits = 0 THEN 1 ELSE dir[k].hits
             y == Touched(dir, k, dir[k].trailer, h, now, dir[k].bad)
  <2>1. /\ live' = a /\ dir' = [dir EXCEPT ![k].hits = IF @ = 0 THEN 1 ELSE @, ![k].used = now]
        /\ ret'.op = "load" /\ ret'.ok /\ ret'.key = text /\ ret'.clean = dir[k].visible
        /\ ret'.eff = a \o rest
    <3>1. /\ live' = a /\ dir' = [dir EXCEPT ![k].hits = IF @ = 0 THEN 1 ELSE @, ![k].used = now]
          /\ Returns("load", text, TRUE, dir[k].visible, a \o rest)
      BY <1>1, <1>7 DEF Suffix
    <3> HIDE DEF a, rest
    <3> QED BY <3>1 DEF Returns
  <2>2. text \in Seq(Nat)
    BY KsAssumption
  <2>3. Len(k) \in 0..Len(text) /\ k \o From(text, Len(k)) = text
    BY <1>3, <1>4, <2>2, PrefixIs
  <2>4. rest \in Seq(Pieces) /\ Render(rest) = From(text, Len(k))
    <3>1. \A i \in 0..Len(text) :
              TokensOf[From(text, i)] \in Seq(Pieces) /\ Render(TokensOf[From(text, i)]) = From(text, i)
      BY KsAssumption DEF Pieces
    <3> QED BY <2>3, <3>1
  <2>5. a \in Seq(Pieces)
    BY <1>5
  <2>6. ~dir[k].visible => Render(a) = k
    BY <1>4 DEF FileOk
  <2>7. DirOk(dir')
    <3>1. h \in Nat
      BY <1>5
    <3>2. dir = [j \in DOMAIN dir |-> dir[j]]
      BY <1>2 DEF DirOk
    <3>3. [dir[k] EXCEPT !.hits = h, !.used = now]
          = [dir[k] EXCEPT !.trailer = dir[k].trailer, !.hits = h, !.used = now, !.bad = dir[k].bad]
      BY <1>5 DEF Files
    <3>4. dir' = [dir EXCEPT ![k] = [dir[k] EXCEPT !.hits = h, !.used = now]]
      BY <1>3, <1>5, <2>1, <3>2 DEF Files
    <3>5. dir' = y
      <4> DEFINE z == [dir[k] EXCEPT !.hits = h, !.used = now]
      <4>1. dir' = [dir EXCEPT ![k] = z] /\ y = With(dir, k, z)
        BY <3>3, <3>4 DEF Touched
      <4> HIDE DEF z, y
      <4> QED BY <1>3, <3>2, <4>1 DEF With
    <3> HIDE DEF h
    <3>6. DirOk(y)
      BY <1>2, <1>3, <1>5, <3>1, TouchedIsDir
    <3> HIDE DEF y
    <3> QED BY <3>5, <3>6
  <2> HIDE DEF rest, a, y, h
  <2>8. IsPrefix(a, a \o rest)
    BY <2>4, <2>5, StartIsPrefix
  <2>9. Render(a \o rest) = Render(a) \o Render(rest)
    BY <2>4, <2>5, RenderConcat
  <2>10. ~ret'.clean => Render(ret'.eff) = ret'.key
    BY <2>1, <2>3, <2>4, <2>6, <2>9
  <2>11. LoadSpellsPrompt'
    BY <2>1, <2>8, <2>10 DEF LoadSpellsPrompt
  <2> QED BY <1>2, <2>1, <2>5, <2>7, <2>11 DEF KsOk
<1> QED BY <1>6, <1>7

-----------------------------------------------------------------------------
(* Every step                                                              *)

KsHolds == StoreWithinBudget /\ StoredIsFound /\ LoadSpellsPrompt

KsInv == KsOk /\ KsHolds

\* After a call that stores and loads nothing there is nothing to hold
LEMMA NothingReturned == ASSUME ret' = NoCall PROVE KsHolds'
  BY DEF NoCall, KsHolds, StoreWithinBudget, StoredIsFound, LoadSpellsPrompt

LEMMA KsStarts == KsInit => KsInv
<1> SUFFICES ASSUME KsInit PROVE KsInv
  OBVIOUS
<1>1. dir = <<>> /\ DOMAIN dir = {} /\ dir = [k \in DOMAIN dir |-> dir[k]]
  BY DEF KsInit
<1>2. Spaces(dir) = {}
  BY <1>1 DEF Spaces
<1>3. DirOk(dir)
  BY <1>1, <1>2, FS_EmptySet DEF DirOk
<1>4. KsHolds
  BY DEF KsInit, NoCall, KsHolds, StoreWithinBudget, StoredIsFound, LoadSpellsPrompt
<1> QED BY <1>3, <1>4 DEF KsInit, KsInv, KsOk

LEMMA KsStays == KsInv /\ [KsNext]_ksVars => KsInv'
<1> SUFFICES ASSUME KsInv, [KsNext]_ksVars PROVE KsInv'
  OBVIOUS
<1>1. KsOk
  BY DEF KsInv
<1>2. CASE UNCHANGED ksVars
  BY <1>2 DEF ksVars, KsInv, KsOk, KsHolds, StoreWithinBudget, StoredIsFound, LoadSpellsPrompt,
              FindTextPrefix, Usable, SameQuant
<1>3. ASSUME Suppress \/ RestoreSuppressed PROVE KsInv'
  <2>1. ret' = NoCall /\ dir' = dir /\ engine' = engine /\ live' = live /\ now' = now
    BY <1>3 DEF Suppress, RestoreSuppressed
  <2> QED BY <1>1, <2>1, NothingReturned DEF KsInv, KsOk
<1>4. ASSUME Pass PROVE KsInv'
  <2>1. ret' = NoCall /\ dir' = dir /\ engine' = engine /\ live' = live /\ now' = now + 1
    BY <1>4 DEF Pass
  <2> QED BY <1>1, <2>1, NothingReturned DEF KsInv, KsOk
<1>5. ASSUME ret'.op = "store", KsOk', StoredIsFound', StoreWithinBudget' PROVE KsInv'
  BY <1>5 DEF KsInv, KsHolds, LoadSpellsPrompt
<1>6. ASSUME MaybeStoreContinued PROVE KsInv'
  <2>1. Store(live, "continued", <<>>, FALSE)
    BY <1>6 DEF MaybeStoreContinued
  <2>2. KsOk' /\ StoredIsFound' /\ StoreWithinBudget' /\ ret'.op = "store"
    <3> DEFINE text == <<>>
               reason == "continued"
    <3>1. text \in Seq(Nat) /\ reason \in {"cold", "continued"} /\ FALSE \in BOOLEAN
      OBVIOUS
    <3>2. Store(live, reason, text, FALSE)
      BY <2>1
    <3> HIDE DEF text, reason
    <3> QED BY <1>1, <3>1, <3>2, StoreStep
  <2> QED BY <1>5, <2>2
<1>7. ASSUME NEW text \in {<<>>} \cup StorePrompts, NEW trailer \in BOOLEAN, StoreCold("cold", text, trailer)
      PROVE  KsInv'
  <2>1. text \in Seq(Nat)
    <3>1. <<>> \in Seq(Nat)
      OBVIOUS
    <3>2. StorePrompts \subseteq Seq(Nat)
      BY KsAssumption
    <3> QED BY <3>1, <3>2
  <2> DEFINE tokens == SubSeq(live, 1, StoreLen(Len(live)))
             reason == "cold"
  <2>2. Store(tokens, reason, text, trailer) /\ reason \in {"cold", "continued"}
    BY <1>7 DEF StoreCold
  <2> HIDE DEF tokens, reason
  <2>3. KsOk' /\ StoredIsFound' /\ StoreWithinBudget' /\ ret'.op = "store"
    BY <1>1, <2>1, <2>2, StoreStep
  <2> QED BY <1>5, <2>3
<1>8. ASSUME NEW text \in StorePrompts, TryLoad(text) PROVE KsInv'
  <2>1. KsOk' /\ LoadSpellsPrompt' /\ ret'.op = "load"
    BY <1>1, <1>8, LoadStep
  <2> QED BY <2>1 DEF KsInv, KsHolds, StoredIsFound, StoreWithinBudget
<1>9. ASSUME NEW text \in StorePrompts, TryLoadMiss(text) PROVE KsInv'
  <2>1. /\ dir' = dir /\ engine' = engine /\ live' = live /\ now' = now
        /\ ret'.op = "load" /\ ret'.ok = FALSE
    BY <1>9 DEF TryLoadMiss, Returns
  <2> QED BY <1>1, <2>1 DEF KsInv, KsOk, KsHolds, StoredIsFound, StoreWithinBudget, LoadSpellsPrompt
<1>10. ASSUME NEW e \in Engines, Reopen(e) PROVE KsInv'
  <2>1. PICK x \in p36_kvstore_evict(dir, 0, <<>>) : dir' = x.dir
    BY <1>10 DEF Reopen
  <2>2. engine' = e /\ live' = <<>> /\ now' = now /\ ret' = NoCall
    BY <1>10 DEF Reopen
  <2>3. DirOk(dir')
    <3> DEFINE text == <<>>
               extra == 0
    <3>1. extra \in Nat /\ x \in p36_kvstore_evict(dir, extra, text)
      OBVIOUS
    <3> HIDE DEF text, extra
    <3> QED BY <1>1, <2>1, <3>1, RoomMade DEF KsOk
  <2>4. <<>> \in Seq(Pieces)
    OBVIOUS
  <2> QED BY <1>1, <2>2, <2>3, <2>4, NothingReturned DEF KsInv, KsOk
<1>11. ASSUME NEW h \in Histories, Run(h) PROVE KsInv'
  <2>1. h \in Seq(Pieces)
    BY KsAssumption DEF Pieces
  <2>2. live' = h /\ ret' = NoCall /\ dir' = dir /\ engine' = engine /\ now' = now
    BY <1>11 DEF Run
  <2> QED BY <1>1, <2>1, <2>2, NothingReturned DEF KsInv, KsOk
<1>12. ASSUME NEW k \in DOMAIN dir, Corrupt(k) PROVE KsInv'
  <2>1. /\ dir' = [dir EXCEPT ![k].bad = TRUE] /\ ret' = NoCall
        /\ engine' = engine /\ live' = live /\ now' = now
    BY <1>12 DEF Corrupt
  <2> DEFINE y == Touched(dir, k, dir[k].trailer, dir[k].hits, dir[k].used, TRUE)
  <2>2. /\ dir[k] \in Files /\ dir[k].trailer \in BOOLEAN /\ dir[k].hits \in Nat
        /\ dir[k].used \in Nat /\ dir = [j \in DOMAIN dir |-> dir[j]]
    BY <1>1, FieldsOfFile DEF KsOk, DirOk
  <2>3. [dir[k] EXCEPT !.bad = TRUE]
        = [dir[k] EXCEPT !.trailer = dir[k].trailer, !.hits = dir[k].hits, !.used = dir[k].used, !.bad = TRUE]
    BY <2>2 DEF Files
  <2>4. dir' = y
    BY <2>1, <2>2, <2>3 DEF Touched, With
  <2>5. DirOk(y)
    BY <1>1, <2>2, TouchedIsDir DEF KsOk
  <2> HIDE DEF y
  <2> QED BY <1>1, <2>1, <2>4, <2>5, NothingReturned DEF KsInv, KsOk
<1> QED BY <1>2, <1>3, <1>4, <1>6, <1>7, <1>8, <1>9, <1>10, <1>11, <1>12 DEF KsNext

LEMMA KsAlways == KsSpec => []KsInv
  BY KsStarts, KsStays, PTL DEF KsSpec

\* A store that could unlink what it chose leaves the directory within its budget
\* (p36_kvstore_evict, p36_kvstore_file_size_fits).
THEOREM StoreKeepsBudget == KsSpec => []StoreWithinBudget
<1>1. KsInv => StoreWithinBudget
  BY DEF KsInv, KsHolds
<1> QED BY <1>1, KsAlways, PTL

\* What was stored is found for its text by the engine that stored it
\* (kv_cache_existing_compatible, p36_kvstore_find_text_prefix).
THEOREM StoreFindsStored == KsSpec => []StoredIsFound
<1>1. KsInv => StoredIsFound
  BY DEF KsInv, KsHolds
<1> QED BY <1>1, KsAlways, PTL

\* The tokens a load leaves in the session, and the ones it makes of the rest of the prompt,
\* spell the prompt (p36_kvstore_try_load_text).
THEOREM StoreLoadSpells == KsSpec => []LoadSpellsPrompt
<1>1. KsInv => LoadSpellsPrompt
  BY DEF KsInv, KsHolds
<1> QED BY <1>1, KsAlways, PTL
=============================================================================
