----------------------------- MODULE JobService -----------------------------
(***************************************************************************)
(* What the job queue of batched mode promises its clients: one line, and  *)
(* servers that take jobs from its head.  JobQueue implements it with a    *)
(* linked list, one assignment per slot, worker threads and wakeups.       *)
(***************************************************************************)
EXTENDS Naturals, Sequences, FiniteSets, FiniteSetsExt, Functions

CONSTANTS Jobs, Servers,
          Free,         \* a server with nothing to do
          Leaving       \* one that has answered its job and is not free yet

VARIABLES line,         \* the jobs accepted and not given to a server yet
          serving,      \* what each server does: a job, Free or Leaving
          finished      \* the jobs answered or turned away

serviceVars == <<line, serving, finished>>

ServiceInit == line = <<>> /\ serving = [s \in Servers |-> Free] /\ finished = {}

\* The jobs of q are given to the free servers of at, oldest first, until the
\* jobs or the servers run out; which server a job gets is left open
GiveOut(q, at) ==
    LET free == {s \in Servers : at[s] = Free}
        n == Min({Len(q), Cardinality(free)})
    IN  /\ line' = SubSeq(q, n + 1, Len(q))
        /\ \E to \in Injection(1..n, free) :
              serving' = [s \in Servers |-> IF s \in Range(to) THEN q[AntiFunction(to)[s]]
                                            ELSE at[s]]

Known(j) == j \in finished \/ j \in Range(line) \/ j \in Range(serving)

\* (that j is known afterwards follows; said first, it rules out other steps quickly)
Accept(j) ==
    /\ Known(j)' /\ ~Known(j)
    /\ GiveOut(Append(line, j), serving)
    /\ UNCHANGED finished

TurnAway(j) ==
    /\ finished' = finished \cup {j} /\ ~Known(j)
    /\ UNCHANGED <<line, serving>>

Answer(s) ==
    /\ serving[s] \in Jobs
    /\ finished' = finished \cup {serving[s]}
    /\ serving' = [serving EXCEPT ![s] = Leaving]
    /\ UNCHANGED line

\* A server that becomes free is given the next job at once
BecomeFree(s) ==
    /\ serving[s] = Leaving
    /\ GiveOut(line, [serving EXCEPT ![s] = Free])
    /\ UNCHANGED finished

ServiceNext ==
    \/ \E j \in Jobs : Accept(j) \/ TurnAway(j)
    \/ \E s \in Servers : Answer(s) \/ BecomeFree(s)

\* (what a step does is asked only of one that does something)
ServiceStep == serviceVars' # serviceVars /\ ServiceNext

ServiceSpec == ServiceInit /\ [][ServiceStep]_serviceVars
=============================================================================
