---------------------------- MODULE MCCorpusSync ----------------------------
(* CorpusSync with small sets of programs and signal. *)
EXTENDS CorpusSync

CONSTANTS progA, progB, progD, progX, sig1, sig2, f1

\* What progB shows may include what progA shows, so that minimization may drop progA;
\* progD is disabled, progX is a record that cannot be parsed.
MCShows ==
    [p \in Progs |-> CASE p = progA -> {{sig1}}
                     [] p = progB -> {{sig1, sig2}, {sig2}}
                     [] p \in {progD, progX} -> {}]

\* Each execution of a program shows one element or the other.
MCShowsOne == [p \in Progs |-> {{sig1}, {sig2}}]

ProcSymmetry == Permutations(Procs)

\* Bound: executions in f1 only find new signal; the others get it from the manager.
OneFinder == \A f \in Fuzzers \ {f1}, i \in Procs : found[f][i] = {}

\* Bound: the programs that minimization executes show nothing new.
MinimizationFindsNothing ==
    \A f \in Fuzzers, i \in Procs : proc[f][i].do = "triage" => found[f][i] = {}
=============================================================================
