--------------------------- MODULE DashboardLocks ---------------------------
(***************************************************************************)
(* The mutexes of the dashboard server (src/src/bin/dashboard_server.rs):  *)
(* one on the map of peers, one on the online flags, one per engine.  A    *)
(* request handler is the sequence of steps by which it takes and drops    *)
(* them; a handler that waits for a mutex blocks its worker thread.        *)
(***************************************************************************)
EXTENDS Naturals, Sequences

CONSTANTS
    Worker,         \* threads of the runtime that run handlers
    Lock,           \* the mutexes
    Program,        \* the handlers: sequences of steps
    MaxRequests     \* bound on the requests accepted by all workers together

Step == [take : BOOLEAN, lock : Lock]

ASSUME ProgramType == Program \subseteq Seq(Step)
ASSUME RequestsAssumption == MaxRequests \in Nat

VARIABLES
    program,    \* the handler each worker runs
    done,       \* how many of its steps it has taken
    held,       \* the mutexes it holds
    accepted    \* requests accepted so far

vars == <<program, done, held, accepted>>

\* The mutexes held after the first n steps of p.
HeldAfter(p, n) ==
    {l \in Lock : \E i \in 1..n :
        /\ p[i] = [take |-> TRUE, lock |-> l]
        /\ \A j \in i+1..n : p[j] # [take |-> FALSE, lock |-> l]}

\* Guards are dropped at the end of their scope at the latest.
ASSUME GuardsDropped == \A p \in Program : HeldAfter(p, Len(p)) = {}

TypeOK ==
    /\ program \in [Worker -> Program \cup {<<>>}]
    /\ done \in [Worker -> Nat]
    /\ held \in [Worker -> SUBSET Lock]
    /\ accepted \in 0..MaxRequests

Init ==
    /\ program = [w \in Worker |-> <<>>]
    /\ done = [w \in Worker |-> 0]
    /\ held = [w \in Worker |-> {}]
    /\ accepted = 0

Busy(w) == done[w] < Len(program[w])
NextStep(w) == program[w][done[w] + 1]

-----------------------------------------------------------------------------
\* An idle worker starts the handler of the next request.
Accept(w) ==
    /\ ~Busy(w)
    /\ accepted < MaxRequests
    /\ \E p \in Program : program' = [program EXCEPT ![w] = p]
    /\ done' = [done EXCEPT ![w] = 0]
    /\ accepted' = accepted + 1
    /\ UNCHANGED held

\* lock(): a std::sync::Mutex, so a thread that holds it already waits too.
Take(w) ==
    /\ Busy(w) /\ NextStep(w).take
    /\ \A v \in Worker : NextStep(w).lock \notin held[v]
    /\ held' = [held EXCEPT ![w] = @ \cup {NextStep(w).lock}]
    /\ done' = [done EXCEPT ![w] = @ + 1]
    /\ UNCHANGED <<program, accepted>>

\* The guard goes out of scope.
Drop(w) ==
    /\ Busy(w) /\ ~NextStep(w).take
    /\ held' = [held EXCEPT ![w] = @ \ {NextStep(w).lock}]
    /\ done' = [done EXCEPT ![w] = @ + 1]
    /\ UNCHANGED <<program, accepted>>

Next == \E w \in Worker : Accept(w) \/ Take(w) \/ Drop(w)

Spec == Init /\ [][Next]_vars

\* The operating system runs every thread that can run, and a mutex nobody
\* holds is given to a thread that waits for it.
FairSpec == Spec /\ \A w \in Worker : WF_vars(Take(w) \/ Drop(w))

-----------------------------------------------------------------------------
\* Worker w waits for a mutex that v holds.
WaitsFor(w, v) == Busy(w) /\ NextStep(w).take /\ NextStep(w).lock \in held[v]

\* No set of workers waits for each other, or one for itself.
NoDeadlock ==
    \A S \in (SUBSET Worker) \ {{}} : \E w \in S : \A v \in S : ~WaitsFor(w, v)

\* Every handler that was started finishes.
Served == \A w \in Worker : Busy(w) ~> ~Busy(w)

-----------------------------------------------------------------------------
(* The discipline that makes NoDeadlock hold: a handler takes a mutex while *)
(* it holds another one only under the mutex gate, and never one it holds.  *)

Gated(p, gate) ==
    \A i \in 1..Len(p) :
        p[i].take /\ HeldAfter(p, i - 1) # {} =>
            /\ gate \in HeldAfter(p, i - 1)
            /\ p[i].lock \notin HeldAfter(p, i - 1)

\* The same of the workers: who waits and holds something, holds the gate.
WaitsUnder(gate) ==
    \A w \in Worker :
        Busy(w) /\ NextStep(w).take /\ held[w] # {} =>
            gate \in held[w] /\ NextStep(w).lock \notin held[w]

\* A mutex has at most one holder, and a worker holds what its steps say.
HoldersAgree ==
    /\ \A w, v \in Worker : w # v => held[w] \cap held[v] = {}
    /\ \A w \in Worker : /\ done[w] <= Len(program[w])
                         /\ held[w] = HeldAfter(program[w], done[w])
=============================================================================
