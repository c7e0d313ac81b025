---------------------------- MODULE KvCacheProofs ----------------------------
(***************************************************************************)
(* Theorems about KvCache, for any set of checkpoints and servers, any     *)
(* sizes, contexts, budget and bounds.                                     *)
(***************************************************************************)
EXTENDS KvCache, FiniteSetTheorems, TLAPS

-----------------------------------------------------------------------------
(* What the directory operations do                                        *)

\* The empty directory has no entries.
LEMMA EmptyDirectory == DOMAIN <<>> = {} /\ Entries(<<>>)
<1>1. DOMAIN <<>> = {}
  OBVIOUS
<1> QED BY <1>1 DEF Entries

\* What stays in a listing stays as it was.
LEMMA RestrictFacts ==
  ASSUME NEW f, NEW S
  PROVE  DOMAIN Restrict(f, S) = S /\ \A x \in S : Restrict(f, S)[x] = f[x]
BY DEF Restrict

\* Part of a directory is a directory.
LEMMA RestrictEntries ==
  ASSUME NEW f, Entries(f), NEW S, S \subseteq DOMAIN f
  PROVE  Entries(Restrict(f, S))
BY RestrictFacts DEF Entries

\* Rewriting the tool map leaves all names and payloads alone.
LEMMA MapFacts ==
  ASSUME NEW f, Entries(f), NEW k, NEW m \in BOOLEAN, NEW g, g = [f EXCEPT ![k].map = m]
  PROVE  Entries(g) /\ DOMAIN g = DOMAIN f /\ \A j \in DOMAIN f : g[j].whole = f[j].whole
BY DEF Entries, File

\* So does rewriting the header.
LEMMA HeaderFacts ==
  ASSUME NEW f, Entries(f), NEW k, NEW h \in Nat, NEW u \in Nat,
         NEW g, g = [f EXCEPT ![k].hits = h, ![k].used = u]
  PROVE  Entries(g) /\ DOMAIN g = DOMAIN f /\ \A j \in DOMAIN f : g[j].whole = f[j].whole
BY DEF Entries, File

-----------------------------------------------------------------------------
(* Type correctness                                                        *)

\* A server that is about to write a checkpoint works on a key: without this
\* the types are not inductive, since the file gets that name.
KeyHeld == \A p \in Servers : kpc[p] \in {"replace", "write"} => key[p] \in Keys

KvTyped == KvTypeOK /\ KeyHeld

\* Finish and Exit put the server's own variables back.
LEMMA FinishTyped ==
  ASSUME KvTyped, NEW p \in Servers, Finish(p) \/ Exit(p)
  PROVE  /\ kpc' \in [Servers -> KvPcs] /\ key' \in [Servers -> Keys \cup {NoKey}]
         /\ hits' \in [Servers -> Nat] /\ newest' \in [Servers -> Keys \cup {NoKey}]
         /\ DOMAIN listed' = Servers /\ \A q \in Servers : Entries(listed'[q])
         /\ KeyHeld'
<1> USE DEF KvTyped, KvTypeOK, Finish, Exit, Start, KvGo
<1>1. kpc' \in [Servers -> KvPcs]
  BY DEF KvPcs
<1>2. key' \in [Servers -> Keys \cup {NoKey}]
  OBVIOUS
<1>3. hits' \in [Servers -> Nat] /\ newest' \in [Servers -> Keys \cup {NoKey}]
  <2>1. hits' = [hits EXCEPT ![p] = 0] /\ newest' = [newest EXCEPT ![p] = NoKey]
    OBVIOUS
  <2> QED BY <2>1
<1>4. DOMAIN listed' = Servers /\ \A q \in Servers : Entries(listed'[q])
  BY EmptyDirectory
<1>5. KeyHeld'
  BY DEF KeyHeld
<1> QED BY <1>1, <1>2, <1>3, <1>4, <1>5

\* Every step of the cache keeps the types.
LEMMA KvTypedStep == KvTyped /\ [KvNext]_kvVars => KvTyped'
<1> SUFFICES ASSUME KvTyped, [KvNext]_kvVars PROVE KvTyped'
  OBVIOUS
<1> USE SizeAssumption, KeyAssumption DEF KvTyped, KvTypeOK
<1>1. ASSUME NEW p \in Servers, NEW k \in Keys, StoreBegin(p, k) PROVE KvTyped'
  BY <1>1 DEF StoreBegin, Start, KvGo, KvPcs, KeyHeld
<1>2. ASSUME NEW p \in Servers, StoreReplace(p) PROVE KvTyped'
  <2>1. Entries(files')
    BY <1>2, RestrictEntries DEF StoreReplace, Drop
  <2> QED BY <1>2, <2>1 DEF StoreReplace, LoseName, KvAt, KvGo, KvPcs, KeyHeld
<1>3. ASSUME NEW p \in Servers, StoreOpen(p) PROVE KvTyped'
  <2>1. Fresh(p) \in File
    BY DEF Fresh, File
  <2>2. DOMAIN tmps' \subseteq Servers \X Keys /\ \A x \in DOMAIN tmps' : tmps'[x] \in File
    <3> DEFINE x == <<p, key[p]>>
    <3>1. x \in Servers \X Keys /\ tmps' = Put(tmps, x, Fresh(p))
      BY <1>3 DEF StoreOpen, KvAt, KeyHeld
    <3>2. DOMAIN tmps' = DOMAIN tmps \cup {x} /\ tmps'[x] = Fresh(p)
          /\ \A y \in DOMAIN tmps \ {x} : tmps'[y] = tmps[y]
      BY <3>1 DEF Put
    <3> HIDE DEF x
    <3> QED BY <2>1, <3>1, <3>2
  <2> QED BY <1>3, <2>2 DEF StoreOpen, KvAt, KvGo, KvPcs, KeyHeld
<1>4. ASSUME NEW p \in Servers, StoreRename(p) PROVE KvTyped'
  <2>1. PICK map \in BOOLEAN :
          files' = Put(files, key[p], [tmps[<<p, key[p]>>] EXCEPT !.map = map, !.whole = TRUE])
    BY <1>4 DEF StoreRename
  <2>2. key[p] \in Keys /\ tmps[<<p, key[p]>>] \in File
    BY <1>4 DEF StoreRename
  <2>3. [tmps[<<p, key[p]>>] EXCEPT !.map = map, !.whole = TRUE] \in File
    BY <2>2 DEF File
  <2>4. Entries(files')
    <3> DEFINE f == [tmps[<<p, key[p]>>] EXCEPT !.map = map, !.whole = TRUE]
    <3>1. f \in File /\ files' = Put(files, key[p], f)
      BY <2>1, <2>3
    <3> HIDE DEF f
    <3>2. DOMAIN files' = DOMAIN files \cup {key[p]} /\ files'[key[p]] = f
          /\ \A y \in DOMAIN files \ {key[p]} : files'[y] = files[y]
      BY <3>1 DEF Put
    <3> QED BY <2>2, <3>1, <3>2 DEF Entries
  <2>5. DOMAIN tmps' \subseteq Servers \X Keys /\ \A x \in DOMAIN tmps' : tmps'[x] \in File
    BY <1>4, RestrictFacts DEF StoreRename, Drop
  <2> QED BY <1>4, <2>4, <2>5 DEF StoreRename, LoseName, KvGo, KvPcs, KeyHeld
<1>5. ASSUME NEW p \in Servers, StoreFail(p) PROVE KvTyped'
  <2>1. DOMAIN tmps' \subseteq Servers \X Keys /\ \A x \in DOMAIN tmps' : tmps'[x] \in File
    BY <1>5, RestrictFacts DEF StoreFail, Drop
  <2> QED BY <1>5, <2>1, FinishTyped DEF StoreFail
<1>6. ASSUME NEW p \in Servers, RewriteStop(p) PROVE KvTyped'
  BY <1>6, FinishTyped DEF RewriteStop
<1>7. ASSUME NEW p \in Servers, RewriteCut(p) PROVE KvTyped'
  <2>1. key[p] \in DOMAIN files /\ files[key[p]].hits \in Nat
    BY <1>7 DEF RewriteCut, Readable, Entries, File
  <2>2. Entries(files')
    BY <1>7, MapFacts DEF RewriteCut
  <2> QED BY <1>7, <2>1, <2>2 DEF RewriteCut, KvGo, KvPcs, KeyHeld
<1>8. ASSUME NEW p \in Servers, RewriteMap(p) PROVE KvTyped'
  <2>1. Entries(files')
    <3>1. files' = [files EXCEPT ![key[p]].map = TRUE] \/ files' = files
      BY <1>8 DEF RewriteMap
    <3> QED BY <3>1, MapFacts
  <2> QED BY <1>8, <2>1 DEF RewriteMap, KvGo, KvPcs, KeyHeld
<1>9. ASSUME NEW p \in Servers, RewriteHeader(p) PROVE KvTyped'
  <2>1. Entries(files')
    <3>1. \/ files' = [files EXCEPT ![key[p]].hits = hits[p], ![key[p]].used = clock]
          \/ files' = files
      BY <1>9 DEF RewriteHeader
    <3>2. hits[p] \in Nat /\ clock \in Nat
      OBVIOUS
    <3> QED BY <3>1, <3>2, HeaderFacts
  <2> QED BY <1>9, <2>1, FinishTyped DEF RewriteHeader
<1>10. ASSUME NEW p \in Servers, NEW k \in Keys, Load(p, k) PROVE KvTyped'
  <2>1. files[k].hits \in Nat
    BY <1>10 DEF Load, Readable, Entries, File
  <2> QED BY <1>10, <2>1 DEF Load, Start, KvGo, KvPcs, KeyHeld
<1>11. ASSUME NEW p \in Servers, Touch(p) PROVE KvTyped'
  <2> DEFINE h == IF hits[p] < MaxHits THEN hits[p] + 1 ELSE MaxHits
  <2>1. h \in Nat /\ clock \in Nat
    OBVIOUS
  <2>2. Entries(files')
    <3>1. \/ files' = [files EXCEPT ![key[p]].hits = h, ![key[p]].used = clock]
          \/ files' = files
      BY <1>11 DEF Touch
    <3> HIDE DEF h
    <3> QED BY <2>1, <3>1, HeaderFacts
  <2> QED BY <1>11, <2>2, FinishTyped DEF Touch
<1>a. ASSUME NEW p \in Servers, Discard(p) PROVE KvTyped'
  <2>1. Entries(files')
    BY <1>a, RestrictEntries DEF Discard, Drop
  <2> QED BY <1>a, <2>1, FinishTyped DEF Discard, LoseName
<1>12. ASSUME NEW p \in Servers, Refresh(p) PROVE KvTyped'
  <2> DEFINE readable == Restrict(files, {k \in DOMAIN files : Readable(k)})
  <2>1. Entries(readable) /\ DOMAIN readable \subseteq Keys
    BY RestrictEntries, RestrictFacts DEF Entries
  <2>2. Newest(readable) \subseteq Keys
    BY <2>1 DEF Newest
  <2>3. newest' \in [Servers -> Keys \cup {NoKey}]
    BY <1>12, <2>2 DEF Refresh
  <2>4. DOMAIN listed' = Servers /\ \A q \in Servers : Entries(listed'[q])
    BY <1>12, <2>1 DEF Refresh
  <2> QED BY <1>12, <2>3, <2>4 DEF Refresh, KvGo, KvPcs, KeyHeld
<1>13. ASSUME NEW p \in Servers, EvictOne(p) PROVE KvTyped'
  <2>1. PICK v : files' = Drop(files, {v}) /\ LoseName(v)
                 /\ listed' = [listed EXCEPT ![p] = Drop(listed[p], {v})]
    BY <1>13 DEF EvictOne
  <2>2. Entries(files')
    BY <2>1, RestrictEntries DEF Drop
  <2>3. DOMAIN listed' = Servers /\ \A q \in Servers : Entries(listed'[q])
    BY <2>1, RestrictEntries DEF Drop
  <2> QED BY <1>13, <2>1, <2>2, <2>3 DEF EvictOne, LoseName, KeyHeld
<1>14. ASSUME NEW p \in Servers, EvictDone(p) PROVE KvTyped'
  BY <1>14, FinishTyped DEF EvictDone
<1>15. ASSUME NEW p \in Servers, Open(p) PROVE KvTyped'
  <2>1. DOMAIN tmps' \subseteq Servers \X Keys /\ \A x \in DOMAIN tmps' : tmps'[x] \in File
    BY <1>15, RestrictFacts DEF Open, Sweep
  <2> QED BY <1>15, <2>1 DEF Open, KvGo, KvPcs, KeyHeld
<1>16. ASSUME NEW p \in Servers, Exit(p) PROVE KvTyped'
  <2>1. holds' \in [Servers -> BOOLEAN] /\ UNCHANGED <<files, tmps, clock>>
    BY <1>16 DEF Exit
  <2> QED BY <1>16, <2>1, FinishTyped
<1>17. CASE Tick
  BY <1>17 DEF Tick, KeyHeld
<1>18. CASE UNCHANGED kvVars
  BY <1>18 DEF kvVars, KeyHeld
<1> QED
  BY <1>1, <1>2, <1>3, <1>4, <1>5, <1>6, <1>7, <1>8, <1>9, <1>10, <1>11, <1>a, <1>12, <1>13,
     <1>14, <1>15, <1>16, <1>17, <1>18 DEF KvNext, ServerStep

\* All servers and files are as the code declares them, whatever servers share
\* the directory and wherever they die.
THEOREM KvTypeCorrect == KvSpec => []KvTyped
<1>1. KvInit => KvTyped
  BY EmptyDirectory, SizeAssumption DEF KvInit, KvTyped, KvTypeOK, KvPcs, KeyHeld
<1> QED BY <1>1, KvTypedStep, PTL DEF KvSpec

-----------------------------------------------------------------------------
(* Crashes                                                                 *)

\* Every step keeps the named files whole.
LEMMA WholeStep == KvTyped /\ CheckpointsWhole /\ [KvNext]_kvVars => CheckpointsWhole'
<1> SUFFICES ASSUME KvTyped, CheckpointsWhole, [KvNext]_kvVars PROVE CheckpointsWhole'
  OBVIOUS
<1> USE DEF KvTyped, KvTypeOK, CheckpointsWhole
<1>1. ASSUME NEW p \in Servers, StoreRename(p) PROVE CheckpointsWhole'
  <2>1. PICK map \in BOOLEAN :
          files' = Put(files, key[p], [tmps[<<p, key[p]>>] EXCEPT !.map = map, !.whole = TRUE])
    BY <1>1 DEF StoreRename
  <2> DEFINE f == [tmps[<<p, key[p]>>] EXCEPT !.map = map, !.whole = TRUE]
  <2>2. f.whole = TRUE
    BY <1>1 DEF StoreRename, File
  <2> HIDE DEF f
  <2>3. DOMAIN files' = DOMAIN files \cup {key[p]} /\ files'[key[p]] = f
        /\ \A y \in DOMAIN files \ {key[p]} : files'[y] = files[y]
    BY <2>1 DEF Put, f
  <2> QED BY <2>2, <2>3
<1>2. ASSUME NEW x, files' = Drop(files, x) PROVE CheckpointsWhole'
  BY <1>2, RestrictFacts DEF Drop
<1>3. ASSUME NEW p \in Servers, RewriteCut(p) \/ RewriteMap(p) PROVE CheckpointsWhole'
  <2>1. \/ \E m \in BOOLEAN : files' = [files EXCEPT ![key[p]].map = m]
        \/ files' = files
    BY <1>3 DEF RewriteCut, RewriteMap
  <2> QED BY <2>1, MapFacts
<1>4. ASSUME NEW p \in Servers, RewriteHeader(p) \/ Touch(p) PROVE CheckpointsWhole'
  <2> DEFINE h == IF hits[p] < MaxHits THEN hits[p] + 1 ELSE MaxHits
  <2>1. hits[p] \in Nat /\ h \in Nat /\ clock \in Nat
    BY SizeAssumption
  <2>2. ASSUME NEW n \in Nat, files' = [files EXCEPT ![key[p]].hits = n, ![key[p]].used = clock]
        PROVE  CheckpointsWhole'
    BY <2>1, <2>2, HeaderFacts
  <2>3. \/ files' = [files EXCEPT ![key[p]].hits = hits[p], ![key[p]].used = clock]
        \/ files' = [files EXCEPT ![key[p]].hits = h, ![key[p]].used = clock]
        \/ files' = files
    BY <1>4 DEF RewriteHeader, Touch
  <2>4. CASE files' = [files EXCEPT ![key[p]].hits = hits[p], ![key[p]].used = clock]
    BY <2>1, <2>2, <2>4
  <2>5. CASE files' = [files EXCEPT ![key[p]].hits = h, ![key[p]].used = clock]
    <3> HIDE DEF h
    <3> QED BY <2>1, <2>2, <2>5
  <2>6. CASE files' = files
    BY <2>6
  <2> QED BY <2>3, <2>4, <2>5, <2>6
<1>5. CASE UNCHANGED files
  BY <1>5
<1> QED
  BY <1>1, <1>2, <1>3, <1>4, <1>5
     DEF KvNext, ServerStep, kvVars, Tick, StoreBegin, Load, StoreReplace, StoreOpen,
         StoreFail, RewriteStop, Discard, Refresh, EvictOne, EvictDone, Open, Exit

\* A file with its final name is whole, for any servers, dying anywhere.
THEOREM NamedFilesWhole == KvSpec => []CheckpointsWhole
<1>1. KvInit => CheckpointsWhole
  BY EmptyDirectory DEF KvInit, CheckpointsWhole
<1> QED BY <1>1, KvTypeCorrect, WholeStep, PTL DEF KvSpec

\* Every step leaves the servers that write a checkpoint their file.
LEMMA TmpStep == KvTyped /\ WriterKeepsTmp /\ [KvNext]_kvVars => WriterKeepsTmp'
<1> SUFFICES ASSUME KvTyped, WriterKeepsTmp, [KvNext]_kvVars,
                    NEW q \in Servers, kpc'[q] = "rename"
             PROVE  <<q, key'[q]>> \in DOMAIN tmps'
  BY DEF WriterKeepsTmp, KvAt
<1> USE DEF KvTyped, KvTypeOK, WriterKeepsTmp, KvAt
\* The server itself gets there by StoreOpen only
<1>1. ASSUME NEW p \in Servers, StoreOpen(p) PROVE <<q, key'[q]>> \in DOMAIN tmps'
  <2>1. DOMAIN tmps' = DOMAIN tmps \cup {<<p, key[p]>>}
    BY <1>1 DEF StoreOpen, Put
  <2>2. key' = key /\ (q # p => kpc[q] = "rename")
    BY <1>1 DEF StoreOpen, KvGo
  <2> QED BY <2>1, <2>2
\* Only its own store removes the file
<1>2. ASSUME NEW p \in Servers, StoreRename(p) \/ StoreFail(p)
      PROVE  <<q, key'[q]>> \in DOMAIN tmps'
  <2>1. p # q
    BY <1>2 DEF StoreRename, StoreFail, Finish, Start, KvGo
  <2>2. kpc[q] = "rename" /\ key'[q] = key[q]
    BY <1>2, <2>1 DEF StoreRename, StoreFail, Finish, Start, KvGo
  <2>3. DOMAIN tmps \ {<<p, key[p]>>} \subseteq DOMAIN tmps'
    <3>1. tmps' = Restrict(tmps, DOMAIN tmps \ {<<p, key[p]>>}) \/ tmps' = tmps
      BY <1>2 DEF StoreRename, StoreFail, Drop
    <3> QED BY <3>1, RestrictFacts
  <2> QED BY <2>1, <2>2, <2>3
<1>3. ASSUME NEW p \in Servers, Open(p) PROVE <<q, key'[q]>> \in DOMAIN tmps'
  <2>1. q # p /\ kpc[q] = "rename" /\ key' = key
    BY <1>3 DEF Open, KvGo
  <2>2. q \in Alive
    BY <2>1 DEF Alive
  <2>3. DOMAIN tmps' = {x \in DOMAIN tmps : x[1] \in Alive \cup {p}}
    BY <1>3, RestrictFacts DEF Open, Sweep
  <2> QED BY <2>1, <2>2, <2>3
<1>4. ASSUME NEW p \in Servers,
             \/ Finish(p) \/ Exit(p) \/ StoreReplace(p) \/ RewriteCut(p) \/ RewriteMap(p)
             \/ Refresh(p) \/ EvictOne(p) \/ \E k \in Keys : StoreBegin(p, k) \/ Load(p, k),
             UNCHANGED tmps
      PROVE  <<q, key'[q]>> \in DOMAIN tmps'
  <2>1. kpc[q] = "rename" /\ key'[q] = key[q]
    BY <1>4 DEF Finish, Exit, StoreReplace, RewriteCut, RewriteMap, Refresh, EvictOne,
                StoreBegin, Load, Start, KvGo
  <2> QED BY <1>4, <2>1
<1>5. CASE Tick \/ UNCHANGED kvVars
  BY <1>5 DEF Tick, kvVars
<1> QED
  BY <1>1, <1>2, <1>3, <1>4, <1>5
     DEF KvNext, ServerStep, StoreBegin, Load, StoreReplace, RewriteStop, RewriteCut,
         RewriteMap, RewriteHeader, Touch, Discard, Refresh, EvictOne, EvictDone, Exit

\* No sweep takes the file a live server is writing, for any servers.
THEOREM WritersKeepTmps == KvSpec => []WriterKeepsTmp
<1>1. KvInit => WriterKeepsTmp
  BY DEF KvInit, WriterKeepsTmp, KvAt
<1> QED BY <1>1, KvTypeCorrect, TmpStep, PTL DEF KvSpec

\* A directory that is not shared has one server at a time, and while it runs the unfinished
\* files are its own
SoleWriter ==
    ~Shared => \A p \in Alive : /\ \A q \in Alive : q = p
                                /\ \A x \in DOMAIN tmps : x[1] = p

\* Every step keeps the directory with its one server
LEMMA SoleStep == KvTyped /\ SoleWriter /\ [KvNext]_kvVars => SoleWriter'
<1> SUFFICES ASSUME KvTyped, SoleWriter, [KvNext]_kvVars, ~Shared PROVE SoleWriter'
  BY DEF SoleWriter
<1> USE DEF KvTyped, KvTypeOK
<1>1. ASSUME Alive' \subseteq Alive, DOMAIN tmps' \subseteq DOMAIN tmps PROVE SoleWriter'
  BY <1>1 DEF SoleWriter
<1>2. ASSUME NEW p \in Servers, Open(p) PROVE SoleWriter'
  <2>1. Alive = {} /\ Alive' = {p}
    BY <1>2 DEF Open, Alive, KvGo
  <2>2. DOMAIN tmps' = {x \in DOMAIN tmps : x[1] \in Alive \cup {p}}
    BY <1>2, RestrictFacts DEF Open, Sweep
  <2> QED BY <2>1, <2>2 DEF SoleWriter
<1>3. ASSUME NEW p \in Servers, StoreOpen(p) PROVE SoleWriter'
  <2>1. p \in Alive /\ Alive' = Alive
    BY <1>3 DEF StoreOpen, KvAt, KvGo, Alive
  <2>2. DOMAIN tmps' = DOMAIN tmps \cup {<<p, key[p]>>}
    BY <1>3 DEF StoreOpen, Put
  <2> QED BY <2>1, <2>2 DEF SoleWriter
<1>4. ASSUME NEW p \in Servers, StoreRename(p) \/ StoreFail(p) PROVE SoleWriter'
  <2>1. DOMAIN tmps' \subseteq DOMAIN tmps
    <3>1. tmps' = Restrict(tmps, DOMAIN tmps \ {<<p, key[p]>>}) \/ tmps' = tmps
      BY <1>4 DEF StoreRename, StoreFail, Drop
    <3> QED BY <3>1, RestrictFacts
  <2>2. Alive' \subseteq Alive
    BY <1>4 DEF StoreRename, StoreFail, Finish, Start, KvAt, KvGo, Alive
  <2> QED BY <1>1, <2>1, <2>2
<1>5. ASSUME NEW p \in Servers, ServerStep(p), UNCHANGED tmps, ~Open(p) PROVE SoleWriter'
  <2>1. Alive' \subseteq Alive
    BY <1>5 DEF ServerStep, StoreBegin, Load, StoreReplace, StoreOpen, StoreRename, StoreFail,
              RewriteStop, RewriteCut, RewriteMap, RewriteHeader, Touch, Discard, Refresh, EvictOne, EvictDone,
              Exit, Finish, Start, KvAt, KvGo, Alive
  <2> QED BY <1>1, <1>5, <2>1
<1>6. CASE Tick \/ UNCHANGED kvVars
  BY <1>1, <1>6 DEF Tick, kvVars, Alive
<1> QED
  BY <1>2, <1>3, <1>4, <1>5, <1>6
     DEF KvNext, ServerStep, StoreBegin, Load, StoreReplace, RewriteStop, RewriteCut, RewriteMap,
         RewriteHeader, Touch, Discard, Refresh, EvictOne, EvictDone, Exit

\* What a dead server left behind is swept when the next one opens the directory, wherever the
\* writer died and however often servers come and go
THEOREM OrphansAreSwept == KvSpec => []OrphansSwept
<1>1. KvInit => SoleWriter
  BY DEF KvInit, SoleWriter, Alive
<1>2. SoleWriter => OrphansSwept
  BY DEF SoleWriter, OrphansSwept
<1> QED BY <1>1, <1>2, KvTypeCorrect, SoleStep, PTL DEF KvSpec

-----------------------------------------------------------------------------
(* Eviction                                                                *)

\* The entry the loop protects stays in the list, and none is newer.
NewestListed ==
    \A p \in Servers : kpc[p] = "evict" =>
       listed[p] = <<>> \/ newest[p] \in Newest(listed[p])

\* Taking out another entry leaves the newest the newest.
LEMMA NewestStays ==
  ASSUME NEW f, NEW new \in Newest(f), NEW v \in Victims(f, new)
  PROVE  v # new /\ new \in Newest(Drop(f, {v}))
<1>1. v # new
  BY DEF Victims
<1>2. DOMAIN Drop(f, {v}) = DOMAIN f \ {v}
      /\ \A x \in DOMAIN f \ {v} : Drop(f, {v})[x] = f[x]
  BY RestrictFacts DEF Drop
<1> QED BY <1>1, <1>2 DEF Newest

\* Every step keeps the protected entry protected.
LEMMA NewestStep == KvTyped /\ NewestListed /\ [KvNext]_kvVars => NewestListed'
<1> SUFFICES ASSUME KvTyped, NewestListed, [KvNext]_kvVars, NEW q \in Servers, kpc'[q] = "evict"
             PROVE  listed'[q] = <<>> \/ newest'[q] \in Newest(listed'[q])
  BY DEF NewestListed, Newest
<1> USE DEF KvTyped, KvTypeOK, NewestListed
<1>1. ASSUME NEW p \in Servers, Refresh(p)
      PROVE  listed'[q] = <<>> \/ newest'[q] \in Newest(listed'[q])
  <2> DEFINE readable == Restrict(files, {k \in DOMAIN files : Readable(k)})
  <2>1. /\ listed' = [listed EXCEPT ![p] = readable]
        /\ \/ readable = <<>>
           \/ \E k \in Newest(readable) : newest' = [newest EXCEPT ![p] = k]
        /\ \A r \in Servers \ {p} : newest'[r] = newest[r] /\ kpc'[r] = kpc[r]
    BY <1>1 DEF Refresh, KvGo
  <2> HIDE DEF readable
  <2> QED BY <2>1
<1>2. ASSUME NEW p \in Servers, EvictOne(p)
      PROVE  listed'[q] = <<>> \/ newest'[q] \in Newest(listed'[q])
  <2>1. PICK v \in Victims(listed[p], newest[p]) :
          listed' = [listed EXCEPT ![p] = Drop(listed[p], {v})]
    BY <1>2 DEF EvictOne
  <2>2. newest' = newest /\ kpc' = kpc /\ kpc[p] = "evict"
    BY <1>2 DEF EvictOne, KvAt
  <2>3. listed[p] # <<>>
    BY <2>1, EmptyDirectory DEF Victims
  <2>4. newest[p] \in Newest(Drop(listed[p], {v}))
    BY <2>2, <2>3, NewestStays
  <2> QED BY <2>1, <2>2, <2>4
<1>3. ASSUME NEW p \in Servers, kpc'[p] # "evict",
             \A r \in Servers \ {p} :
                kpc'[r] = kpc[r] /\ listed'[r] = listed[r] /\ newest'[r] = newest[r]
      PROVE  listed'[q] = <<>> \/ newest'[q] \in Newest(listed'[q])
  BY <1>3
<1>4. CASE Tick \/ UNCHANGED kvVars
  BY <1>4 DEF Tick, kvVars
<1>5. ASSUME NEW p \in Servers, ServerStep(p), ~Refresh(p), ~EvictOne(p)
      PROVE  /\ kpc'[p] # "evict"
             /\ \A r \in Servers \ {p} :
                  kpc'[r] = kpc[r] /\ listed'[r] = listed[r] /\ newest'[r] = newest[r]
  BY <1>5 DEF ServerStep, StoreBegin, Load, StoreReplace, StoreOpen, StoreRename, StoreFail,
              RewriteStop, RewriteCut, RewriteMap, RewriteHeader, Touch, Discard, EvictDone, Open, Exit,
              Finish, Start, KvGo
<1> QED BY <1>1, <1>2, <1>3, <1>4, <1>5 DEF KvNext

\* A store deletes the checkpoint it has written only in favour of one that was
\* used in the same second or later: for any sizes, hits and order of listing.
THEOREM FreshOutlives == KvSpec => FreshOutlivesOlder
<1> DEFINE Inv == KvTyped /\ NewestListed
           Step == \A p \in Servers : EvictsFresh(p) =>
                      \E k \in DOMAIN listed[p] \ {key[p]} :
                         listed[p][k].used >= listed[p][key[p]].used
<1>1. Inv /\ [KvNext]_kvVars => [Step]_kvVars
  <2> SUFFICES ASSUME Inv, KvNext, NEW p \in Servers, EvictsFresh(p)
               PROVE  \E k \in DOMAIN listed[p] \ {key[p]} :
                         listed[p][k].used >= listed[p][key[p]].used
    OBVIOUS
  <2>1. EvictOne(p)
    <3>1. ASSUME NEW r \in Servers, ServerStep(r), r # p PROVE listed'[p] = listed[p]
      BY <3>1 DEF ServerStep, StoreBegin, Load, StoreReplace, StoreOpen, StoreRename, StoreFail,
              RewriteStop, RewriteCut, RewriteMap, RewriteHeader, Touch, Discard, EvictDone, Open, Exit,
              Refresh, EvictOne, Finish, Start, KvTyped, KvTypeOK
    <3>2. ServerStep(p)
      BY <3>1 DEF KvNext, Tick, EvictsFresh
    <3> QED
      BY <3>2 DEF EvictsFresh, ServerStep, StoreBegin, Load, StoreReplace, StoreOpen,
              StoreRename, StoreFail, RewriteStop, RewriteCut, RewriteMap, RewriteHeader, Touch, Discard,
              EvictDone, Open, Exit, Refresh, Finish, Start, KvGo, KvAt, KvTyped, KvTypeOK
  <2>2. PICK v \in Victims(listed[p], newest[p]) :
          listed' = [listed EXCEPT ![p] = Drop(listed[p], {v})]
    BY <2>1 DEF EvictOne
  <2>3. v = key[p]
    BY <2>2, RestrictFacts DEF EvictsFresh, Drop, KvTyped, KvTypeOK
  <2>4. newest[p] \in Newest(listed[p]) /\ newest[p] # v
    BY <2>2, EmptyDirectory DEF EvictsFresh, KvAt, NewestListed, Victims
  <2>5. v \in DOMAIN listed[p] /\ \A k \in DOMAIN listed[p] : listed[p][k].used \in Nat
    BY <2>2 DEF Victims, KvTyped, KvTypeOK, Entries, File
  <2> QED BY <2>3, <2>4, <2>5 DEF Newest
<1>2. KvInit => NewestListed
  BY DEF KvInit, NewestListed
<1>3. KvSpec => []NewestListed
  BY <1>2, KvTypeCorrect, NewestStep, PTL DEF KvSpec
<1> HIDE DEF Step
<1>4. KvSpec => [][Step]_kvVars
  BY <1>1, <1>3, KvTypeCorrect, PTL DEF KvSpec
<1> QED BY <1>4 DEF Step, FreshOutlivesOlder

-----------------------------------------------------------------------------
(* The budget                                                              *)

\* The bytes of finitely many files are finitely many.
LEMMA FinitelyStored ==
  ASSUME NEW D \in SUBSET Keys, NEW size \in [D -> Nat]
  PROVE  IsFiniteSet(UNION {{k} \X (1..size[k]) : k \in D})
<1> DEFINE F == [k \in D |-> {k} \X (1..size[k])]
           T == {{k} \X (1..size[k]) : k \in D}
<1>1. F \in Surjection(D, T)
  BY DEF Surjection
<1>2. IsFiniteSet(D)
  BY KeyAssumption, FS_Subset
<1>3. IsFiniteSet(T)
  BY <1>1, <1>2, FS_Surjection
<1>4. ASSUME NEW S \in T PROVE IsFiniteSet(S)
  <2>1. PICK k \in D : S = {k} \X (1..size[k])
    OBVIOUS
  <2>2. IsFiniteSet({k}) /\ IsFiniteSet(1..size[k])
    <3>1. 1 \in Int /\ size[k] \in Int
      OBVIOUS
    <3>2. IsFiniteSet(1..size[k])
      BY <3>1, FS_Interval
    <3> QED BY <3>2, FS_Singleton
  <2> QED BY <2>1, <2>2, FS_Product
<1> HIDE DEF T
<1>5. IsFiniteSet(UNION T)
  BY <1>3, <1>4, FS_UNION
<1> QED BY <1>5 DEF T

\* Fewer files take less room.
LEMMA WithinSubset ==
  ASSUME NEW K \in SUBSET Keys, NEW J \in SUBSET K, WithinBudget(K)
  PROVE  WithinBudget(J)
<1>1. IsFiniteSet(K) /\ IsFiniteSet(J) /\ Cardinality(J) <= Cardinality(K)
  BY KeyAssumption, FS_Subset
<1>2. Cardinality(J) \in Nat /\ Cardinality(K) \in Nat
  BY <1>1, FS_CardinalityType
<1>3. IsFiniteSet(Payload(K))
  <2>1. Restrict(Bytes, K) \in [K -> Nat] /\ \A k \in K : Restrict(Bytes, K)[k] = Bytes[k]
    BY SizeAssumption DEF Restrict
  <2>2. IsFiniteSet(UNION {{k} \X (1..Restrict(Bytes, K)[k]) : k \in K})
    BY <2>1, FinitelyStored
  <2>3. Payload(K) = UNION {{k} \X (1..Restrict(Bytes, K)[k]) : k \in K}
    BY <2>1 DEF Payload
  <2> QED BY <2>2, <2>3
<1>4. Payload(J) \in SUBSET Payload(K)
  BY DEF Payload
<1>5. /\ Cardinality(Payload(J)) <= Cardinality(Payload(K))
      /\ Cardinality(Payload(J)) \in Nat /\ Cardinality(Payload(K)) \in Nat
  BY <1>3, <1>4, FS_Subset, FS_CardinalityType
<1> QED BY <1>1, <1>2, <1>5, SizeAssumption DEF WithinBudget

\* An eviction that has enough leaves its files within the budget.
LEMMA EnoughEvicted ==
  ASSUME NEW f, Entries(f), ~MustEvict(f)
  PROVE  WithinBudget(DOMAIN f)
<1>1. DOMAIN f \in SUBSET Keys /\ IsFiniteSet(DOMAIN f) /\ Cardinality(DOMAIN f) \in Nat
  BY KeyAssumption, FS_Subset, FS_CardinalityType DEF Entries
<1>2. \A k \in DOMAIN f : Size(k, f[k]) \in Nat /\ Bytes[k] \in Nat /\ Bytes[k] <= Size(k, f[k])
  BY <1>1, SizeAssumption DEF Size
<1>3. IsFiniteSet(Stored(f))
  <2> DEFINE size == [k \in DOMAIN f |-> Size(k, f[k])]
  <2>1. size \in [DOMAIN f -> Nat]
    BY <1>2
  <2>2. IsFiniteSet(UNION {{k} \X (1..size[k]) : k \in DOMAIN f})
    BY <1>1, <2>1, FinitelyStored
  <2>3. Stored(f) = UNION {{k} \X (1..size[k]) : k \in DOMAIN f}
    BY DEF Stored
  <2> QED BY <2>2, <2>3
<1>4. Payload(DOMAIN f) \in SUBSET Stored(f)
  <2> SUFFICES ASSUME NEW k \in DOMAIN f, NEW x \in {k} \X (1..Bytes[k]) PROVE x \in {k} \X (1..Size(k, f[k]))
    BY DEF Payload, Stored
  <2> QED BY <1>2
<1>5. /\ Cardinality(Payload(DOMAIN f)) <= Total(f) /\ Total(f) \in Nat
      /\ Cardinality(Payload(DOMAIN f)) \in Nat
  BY <1>3, <1>4, FS_Subset, FS_CardinalityType DEF Total
<1> QED BY <1>1, <1>5, SizeAssumption DEF MustEvict, WithinBudget

\* The directory of one server is within its budget except between a rename or the server's
\* start and the end of the eviction, which lists all of the directory.
BudgetInv ==
    ~Shared => \A p \in Alive :
        /\ kpc[p] \notin {"refresh", "evict"} => WithinBudget(DOMAIN files)
        /\ kpc[p] = "evict" => DOMAIN listed[p] = DOMAIN files

\* Every step keeps it
LEMMA BudgetStep ==
  KvTyped /\ CheckpointsWhole /\ SoleWriter /\ BudgetInv /\ [KvNext]_kvVars => BudgetInv'
<1> SUFFICES ASSUME KvTyped, CheckpointsWhole, SoleWriter, BudgetInv, [KvNext]_kvVars, ~Shared
             PROVE  BudgetInv'
  BY DEF BudgetInv
<1> USE DEF KvTyped, KvTypeOK
<1>0. DOMAIN files \in SUBSET Keys
  BY DEF Entries
\* Calls of p, the one server, that keep the names or take one away
<1>1. ASSUME NEW p \in Servers, p \in Alive, kpc[p] \notin {"refresh", "evict"},
             DOMAIN files' \subseteq DOMAIN files, Alive' \subseteq Alive, kpc'[p] # "evict"
      PROVE  BudgetInv'
  <2>1. WithinBudget(DOMAIN files')
    BY <1>0, <1>1, WithinSubset DEF BudgetInv
  <2>2. \A q \in Alive' : q = p
    BY <1>1 DEF SoleWriter
  <2> QED BY <1>1, <2>1, <2>2 DEF BudgetInv
<1>2. ASSUME NEW p \in Servers, NEW k \in Keys, StoreBegin(p, k) \/ Load(p, k) PROVE BudgetInv'
  BY <1>1, <1>2 DEF StoreBegin, Load, Start, KvAt, KvGo, Alive
<1>3. ASSUME NEW p \in Servers, StoreReplace(p) PROVE BudgetInv'
  <2>1. DOMAIN files' \subseteq DOMAIN files
    BY <1>3, RestrictFacts DEF StoreReplace, Drop
  <2> QED BY <1>1, <1>3, <2>1 DEF StoreReplace, KvAt, KvGo, Alive
<1>a. ASSUME NEW p \in Servers, Discard(p) PROVE BudgetInv'
  <2>1. DOMAIN files' \subseteq DOMAIN files
    BY <1>a, RestrictFacts DEF Discard, Drop
  <2> QED BY <1>1, <1>a, <2>1 DEF Discard, Finish, Start, KvAt, KvGo, Alive
<1>4. ASSUME NEW p \in Servers, StoreOpen(p) \/ StoreFail(p) \/ RewriteStop(p) PROVE BudgetInv'
  BY <1>1, <1>4 DEF StoreOpen, StoreFail, RewriteStop, Finish, Start, KvAt, KvGo, Alive
<1>5. ASSUME NEW p \in Servers, RewriteCut(p) \/ RewriteMap(p) PROVE BudgetInv'
  <2>1. DOMAIN files' = DOMAIN files
    BY <1>5 DEF RewriteCut, RewriteMap
  <2> QED BY <1>1, <1>5, <2>1 DEF RewriteCut, RewriteMap, KvAt, KvGo, Alive
<1>6. ASSUME NEW p \in Servers, RewriteHeader(p) \/ Touch(p) PROVE BudgetInv'
  <2>1. DOMAIN files' = DOMAIN files
    BY <1>6 DEF RewriteHeader, Touch
  <2> QED BY <1>1, <1>6, <2>1 DEF RewriteHeader, Touch, Discard, Finish, Start, KvAt, KvGo, Alive
<1>7. ASSUME NEW p \in Servers, StoreRename(p) PROVE BudgetInv'
  <2>1. p \in Alive /\ Alive' = Alive /\ kpc'[p] = "refresh"
    BY <1>7 DEF StoreRename, KvAt, KvGo, Alive
  <2>2. \A q \in Alive' : q = p
    BY <2>1 DEF SoleWriter
  <2> QED BY <2>1, <2>2 DEF BudgetInv
<1>8. ASSUME NEW p \in Servers, Refresh(p) PROVE BudgetInv'
  <2>1. p \in Alive /\ Alive' = Alive /\ kpc'[p] = "evict" /\ files' = files
    BY <1>8 DEF Refresh, KvAt, KvGo, Alive
  <2>2. \A q \in Alive' : q = p
    BY <2>1 DEF SoleWriter
  <2>3. {k \in DOMAIN files : Readable(k)} = DOMAIN files
    BY DEF CheckpointsWhole, Readable
  <2>4. listed'[p] = Restrict(files, DOMAIN files)
    BY <1>8, <2>3 DEF Refresh
  <2> QED BY <2>1, <2>2, <2>4, RestrictFacts DEF BudgetInv
<1>9. ASSUME NEW p \in Servers, EvictOne(p) PROVE BudgetInv'
  <2>1. p \in Alive /\ Alive' = Alive /\ kpc'[p] = "evict" /\ kpc[p] = "evict"
    BY <1>9 DEF EvictOne, KvAt, Alive
  <2>2. \A q \in Alive' : q = p
    BY <2>1 DEF SoleWriter
  <2>3. PICK v : files' = Drop(files, {v}) /\ listed'[p] = Drop(listed[p], {v})
    BY <1>9 DEF EvictOne
  <2>4. DOMAIN listed[p] = DOMAIN files
    BY <2>1 DEF BudgetInv
  <2>5. DOMAIN files' = DOMAIN files \ {v} /\ DOMAIN listed'[p] = DOMAIN listed[p] \ {v}
    BY <2>3, RestrictFacts DEF Drop
  <2> QED BY <2>1, <2>2, <2>4, <2>5 DEF BudgetInv
<1>10. ASSUME NEW p \in Servers, EvictDone(p) PROVE BudgetInv'
  <2>1. p \in Alive /\ Alive' = Alive /\ kpc'[p] = "idle" /\ kpc[p] = "evict" /\ files' = files
    BY <1>10 DEF EvictDone, Finish, Start, KvGo, KvAt, Alive
  <2>2. \A q \in Alive' : q = p
    BY <2>1 DEF SoleWriter
  <2>3. DOMAIN listed[p] = DOMAIN files
    BY <2>1 DEF BudgetInv
  <2>4. Victims(listed[p], newest[p]) \subseteq DOMAIN files
    BY <2>3 DEF Victims
  <2>5. ~MustEvict(listed[p])
    BY <1>10, <2>4 DEF EvictDone
  <2>6. WithinBudget(DOMAIN files)
    BY <2>3, <2>5, EnoughEvicted
  <2> QED BY <2>1, <2>2, <2>6 DEF BudgetInv
<1>11. ASSUME NEW p \in Servers, Open(p) PROVE BudgetInv'
  <2>1. Alive' = {p} /\ kpc'[p] = "refresh"
    BY <1>11 DEF Open, Alive, KvGo
  <2> QED BY <2>1 DEF BudgetInv
<1>12. ASSUME NEW p \in Servers, Exit(p) PROVE BudgetInv'
  <2>1. p \in Alive /\ Alive' = Alive \ {p}
    BY <1>12 DEF Exit, Start, KvGo, Alive
  <2>2. Alive' = {}
    BY <2>1 DEF SoleWriter
  <2> QED BY <2>2 DEF BudgetInv
<1>13. CASE Tick \/ UNCHANGED kvVars
  BY <1>13 DEF Tick, kvVars, Alive, BudgetInv
<1> QED
  BY <1>2, <1>3, <1>a, <1>4, <1>5, <1>6, <1>7, <1>8, <1>9, <1>10, <1>11, <1>12, <1>13 DEF KvNext, ServerStep

\* A server that has the directory for itself is within its budget between calls, whatever a
\* predecessor left when it died in a store or in an eviction
THEOREM BudgetIsKept == KvSpec => []BudgetKept
<1>1. KvInit => SoleWriter /\ BudgetInv
  BY DEF KvInit, SoleWriter, BudgetInv, Alive
<1>2. BudgetInv => BudgetKept
  BY DEF BudgetInv, BudgetKept, KvAt, Alive
<1> QED BY <1>1, <1>2, KvTypeCorrect, NamedFilesWhole, SoleStep, BudgetStep, PTL DEF KvSpec
=============================================================================
