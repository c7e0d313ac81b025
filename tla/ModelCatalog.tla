---------------------------- MODULE ModelCatalog ----------------------------
(***************************************************************************)
(* The model catalog of the server: requests hold the resident model for   *)
(* reading from before they are parsed until their job is done, and a      *)
(* request that names another model swaps it in under the write lock,      *)
(* engine, session, KV directory and tool memory together                  *)
(* (client_main, server_model_swap, server_model_open_engine).             *)
(* The lock prefers writers, as it is initialized under glibc.             *)
(***************************************************************************)
EXTENDS Integers, FiniteSets

CONSTANTS
    Clients,        \* client threads
    Models,         \* the catalog
    NoModel         \* no model named, or none open

VARIABLES
    mcPc,           \* per client: "start", "reader", "check", "writer", "swap", "hold", "done"
    want,           \* the model its request names, NoModel for none
    tries,          \* its tries
    servedBy,       \* history variable: the resident model when it took the lock
    resident,       \* model_current
    openModel,      \* the model whose engine and session are open
    kvDir,          \* the model whose KV directory is open; NoModel when disabled
    toolsOf,        \* the models whose tool calls are remembered
    serverDead      \* die()

mcVars == <<mcPc, want, tries, servedBy, resident, openModel, kvDir, toolsOf, serverDead>>

MaxTries == 3

Readers == {c \in Clients : mcPc[c] \in {"check", "hold"}}
Writer == {c \in Clients : mcPc[c] = "swap"}
ClientAt(c, pc) == mcPc[c] = pc /\ ~serverDead
To(c, pc) == mcPc' = [mcPc EXCEPT ![c] = pc]

McInit ==
    /\ mcPc = [c \in Clients |-> "start"]
    /\ want \in [Clients -> Models \cup {NoModel}]
    /\ tries = [c \in Clients |-> 0] /\ servedBy = [c \in Clients |-> NoModel]
    /\ resident \in Models /\ openModel = resident /\ kvDir \in {resident, NoModel}
    /\ toolsOf = {} /\ serverDead = FALSE

\* read_http_request and request_peek_model
Arrive(c) ==
    /\ ClientAt(c, "start")
    /\ To(c, "reader")
    /\ UNCHANGED <<want, tries, servedBy, resident, openModel, kvDir, toolsOf, serverDead>>

\* pthread_rwlock_rdlock (external): waits for the writer and for waiting writers
ReadLock(c) ==
    /\ ClientAt(c, "reader")
    /\ Writer = {} /\ \A d \in Clients : mcPc[d] # "writer"
    /\ To(c, "check")
    /\ UNCHANGED <<want, tries, servedBy, resident, openModel, kvDir, toolsOf, serverDead>>

\* the loop's exit test: keep the lock, or give it up to swap
CheckModel(c) ==
    /\ ClientAt(c, "check")
    /\ IF want[c] \in {NoModel, resident} \/ tries[c] >= MaxTries
       THEN To(c, "hold") /\ servedBy' = [servedBy EXCEPT ![c] = resident]
       ELSE To(c, "writer") /\ UNCHANGED servedBy
    /\ UNCHANGED <<want, tries, resident, openModel, kvDir, toolsOf, serverDead>>

\* pthread_rwlock_wrlock (external)
WriteLock(c) ==
    /\ ClientAt(c, "writer") /\ Writer = {} /\ Readers = {}
    /\ To(c, "swap")
    /\ UNCHANGED <<want, tries, servedBy, resident, openModel, kvDir, toolsOf, serverDead>>

\* the end of client_main, with its locals
Gone(c) ==
    /\ To(c, "done")
    /\ tries' = [tries EXCEPT ![c] = 0] /\ want' = [want EXCEPT ![c] = NoModel]

\* server_kv_open_for_model: the directory of the model, or none when it has no fingerprint
KvDirOf(m) == {m, NoModel}

\* Mutant: the tool memory survives a swap
SwapToKeepsTools(c, m, ok) ==
    /\ resident' = m /\ openModel' = m /\ kvDir' \in KvDirOf(m) /\ UNCHANGED <<toolsOf, serverDead>>
    /\ IF ok THEN To(c, "reader") /\ tries' = [tries EXCEPT ![c] = @ + 1] /\ UNCHANGED want
             ELSE Gone(c)

\* the tail of server_model_swap, once model m is open, and client_main after it
SwapTo(c, m, ok) ==
    /\ resident' = m /\ openModel' = m /\ kvDir' \in KvDirOf(m) /\ toolsOf' = {} /\ UNCHANGED serverDead
    /\ IF ok THEN To(c, "reader") /\ tries' = [tries EXCEPT ![c] = @ + 1] /\ UNCHANGED want
             ELSE Gone(c)

\* server_model_swap: someone may have swapped it in already; the old engine is closed before
\* the new one is opened, so a failed open reopens the previous one, or ends the server
Swap(c) ==
    /\ ClientAt(c, "swap")
    /\ \/ /\ want[c] = resident
          /\ To(c, "reader") /\ tries' = [tries EXCEPT ![c] = @ + 1]
          /\ UNCHANGED <<want, resident, openModel, kvDir, toolsOf, serverDead>>
       \/ want[c] # resident /\ SwapTo(c, want[c], TRUE)
       \/ want[c] # resident /\ SwapTo(c, resident, FALSE)
       \/ /\ want[c] # resident
          /\ serverDead' = TRUE /\ openModel' = NoModel /\ kvDir' = NoModel /\ toolsOf' = {}
          /\ UNCHANGED <<mcPc, tries, want, resident>>
    /\ UNCHANGED servedBy

\* the job: its tool calls are remembered and its KV rows stored by the worker
Serve(c) ==
    /\ ClientAt(c, "hold")
    /\ toolsOf' = toolsOf \cup {openModel}
    /\ UNCHANGED <<mcPc, want, tries, servedBy, resident, openModel, kvDir, serverDead>>

\* the answer is sent and the lock released; the connection brings no other request
Release(c) ==
    /\ ClientAt(c, "hold")
    /\ Gone(c) /\ servedBy' = [servedBy EXCEPT ![c] = NoModel]
    /\ UNCHANGED <<resident, openModel, kvDir, toolsOf, serverDead>>

\* another connection in this client's place
Reconnect(c) ==
    /\ ClientAt(c, "done")
    /\ To(c, "start")
    /\ \E m \in Models \cup {NoModel} : want' = [want EXCEPT ![c] = m]
    /\ UNCHANGED <<tries, servedBy, resident, openModel, kvDir, toolsOf, serverDead>>

McNext == \E c \in Clients :
    \/ Arrive(c) \/ ReadLock(c) \/ CheckModel(c) \/ WriteLock(c) \/ Swap(c)
    \/ Serve(c) \/ Release(c) \/ Reconnect(c)

McSpec == McInit /\ [][McNext]_mcVars

-----------------------------------------------------------------------------
(* Properties                                                              *)

\* ServedByOneModel: while a request is served the engine stays open and the resident model is
\* the one it started with, the KV directory and the remembered tool calls are that model's
\* alone, and it is not the model the request names only if the request swapped its own model in
\* three times and other requests took it out again each time (client_main's tries)
ServedByOneModel ==
    \A c \in Clients : ClientAt(c, "hold") =>
        /\ servedBy[c] = resident /\ openModel = resident
        /\ kvDir \in KvDirOf(resident) /\ toolsOf \subseteq {resident}
        /\ want[c] \in {NoModel, resident} \/ tries[c] = MaxTries
=============================================================================
