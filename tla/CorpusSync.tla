----------------------------- MODULE CorpusSync -----------------------------
(***************************************************************************)
(* How syz-manager and the syz-fuzzers in its VMs share programs and       *)
(* coverage signal: the RPC handlers of rpc.go, the corpus, its database   *)
(* and the phases of manager.go, the poll loop of fuzzer.go, and the       *)
(* triage of proc.go over the queues of workqueue.go.                      *)
(*                                                                         *)
(* A signal is a set of elements without priorities.  A VM can crash at    *)
(* any time and comes back with the same name.  It takes its time to boot: *)
(* calls of the crashed fuzzer are served before it connects again, or not *)
(* at all.  No hub is configured, as in cfg/main.cfg.  corpusDB stands for *)
(* the records of the database in memory; the file falls behind them when  *)
(* Flush() fails, which is only logged.  A restart of the manager keeps    *)
(* the file, and Init allows every database, so that it needs no action.   *)
(***************************************************************************)
EXTENDS Integers, FiniteSets, Sequences, SequencesExt

CONSTANTS
    Fuzzers,        \* names of the VMs, at most one syz-fuzzer each
    Procs,          \* procs of a syz-fuzzer
    Progs,          \* programs
    Disabled,       \* those that use a disabled system call
    Broken,         \* records of the database that can no longer be parsed
    Elems,          \* elements of signal
    Shows,          \* the signals that executions of a program show, besides {}
    BatchSize,      \* serv.batchSize
    InitialBatch,   \* initialBatch
    SplitSize,      \* what Split() takes at once
    NULL

ASSUME ShowsAssumption ==
    /\ IsFiniteSet(Progs)
    /\ Disabled \subseteq Progs /\ Broken \subseteq Progs \ Disabled
    /\ Shows \in [Progs -> SUBSET SUBSET Elems]
    /\ BatchSize \in Nat \ {0} /\ InitialBatch \in Nat \ {0} /\ SplitSize \in Nat \ {0}

VARIABLES
    \* Manager (mgr.mu)
    phase, candidates, corpus, lastMinCorpus, corpusDB,
    \* RPCServer (serv.mu)
    checkResult, maxSignal, corpusSignal,
    fuzzers,        \* the entry of each fuzzer, NULL before it first connects
    snapshot,       \* the corpus that a Connect in progress got from fuzzerConnect()
    \* each syz-fuzzer
    pc,             \* "down", "connecting", "check", "pump0", "pump", "run"
    fcorpus,        \* corpusHashes
    fcorpusSignal, fmaxSignal, newSignal,
    candidate,      \* workQueue.candidate
    triage,         \* workQueue.triageCandidate and workQueue.triage
    poll,           \* the Manager.Poll call in progress
    found,          \* what checkNewCallSignal() of each proc has found to be new
    proc            \* what each proc is doing

mgrvars  == <<phase, candidates, corpus, lastMinCorpus, corpusDB>>
servvars == <<checkResult, maxSignal, corpusSignal, fuzzers>>
fuzzvars == <<fcorpus, fcorpusSignal, fmaxSignal, newSignal, candidate, triage,
              found, proc>>
vars == <<mgrvars, servvars, snapshot, pc, fuzzvars, poll>>

\* The programs that a fuzzer runs.
Runnable == Progs \ (Disabled \cup Broken)

phaseInit == 0
phaseLoadedCorpus == 1
phaseTriagedCorpus == 2
phaseTriagedHub == 4

\* rpctype.RPCInput; the manager's corpus maps programs to signal, {} if it is not there.
Inputs == [prog : Progs, signal : SUBSET Elems]
InCorpus == {p \in Progs : corpus[p] # {}}
Entries == [inputs : SUBSET Inputs, newMaxSignal : SUBSET Elems]
TriageItems == [prog : Progs, signal : SUBSET Elems, cand : BOOLEAN]

\* An execution with new signal, and the part of it that was new when it was compared.
Finds == [prog : Progs, signal : SUBSET Elems, cand : BOOLEAN, diff : SUBSET Elems]

Idle == [do |-> "idle"]
Triaging == [do : {"triage", "add"}, prog : Progs, signal : SUBSET Elems,
             cand : BOOLEAN]
NoPoll == [at |-> "none"]
Calls == [at : {"call"}, need : BOOLEAN, signal : SUBSET Elems, initial : BOOLEAN]
Replies == [at : {"reply"}, need : BOOLEAN, signal : SUBSET Elems, inputs : SUBSET Inputs,
            candidates : Seq(Progs)]

ASSUME NullAssumption == NULL \notin Entries

TypeManager ==
    /\ phase \in {phaseInit, phaseLoadedCorpus, phaseTriagedHub}
    /\ candidates \in Seq(Progs) /\ corpus \in [Progs -> SUBSET Elems]
    /\ lastMinCorpus \in Nat /\ corpusDB \subseteq Progs
TypeServer ==
    /\ checkResult \in BOOLEAN /\ maxSignal \subseteq Elems /\ corpusSignal \subseteq Elems
    /\ fuzzers \in [Fuzzers -> Entries \cup {NULL}] /\ snapshot \in [Fuzzers -> SUBSET Inputs]
TypeFuzzers ==
    /\ pc \in [Fuzzers -> {"down", "connecting", "check", "pump0", "pump", "run"}]
    /\ fcorpus \in [Fuzzers -> SUBSET Progs] /\ fcorpusSignal \in [Fuzzers -> SUBSET Elems]
    /\ fmaxSignal \in [Fuzzers -> SUBSET Elems] /\ newSignal \in [Fuzzers -> SUBSET Elems]
    /\ candidate \in [Fuzzers -> Seq(Progs)] /\ triage \in [Fuzzers -> SUBSET TriageItems]
TypeCalls ==
    /\ poll \in [Fuzzers -> {NoPoll} \cup Calls \cup Replies]
    /\ proc \in [Fuzzers -> [Procs -> {Idle} \cup Triaging]]
    /\ found \in [Fuzzers -> [Procs -> SUBSET Finds]]

TypeOK == TypeManager /\ TypeServer /\ TypeFuzzers /\ TypeCalls

Init ==
    /\ phase = phaseInit /\ candidates = <<>> /\ corpus = [p \in Progs |-> {}]
    /\ lastMinCorpus = 0 /\ corpusDB \in SUBSET Progs
    /\ checkResult = FALSE /\ maxSignal = {} /\ corpusSignal = {}
    /\ fuzzers = [f \in Fuzzers |-> NULL] /\ snapshot = [f \in Fuzzers |-> {}]
    /\ pc = [f \in Fuzzers |-> "down"]
    /\ fcorpus = [f \in Fuzzers |-> {}] /\ fcorpusSignal = [f \in Fuzzers |-> {}]
    /\ fmaxSignal = [f \in Fuzzers |-> {}] /\ newSignal = [f \in Fuzzers |-> {}]
    /\ candidate = [f \in Fuzzers |-> <<>>] /\ triage = [f \in Fuzzers |-> {}]
    /\ poll = [f \in Fuzzers |-> NoPoll]
    /\ proc = [f \in Fuzzers |-> [i \in Procs |-> Idle]]
    /\ found = [f \in Fuzzers |-> [i \in Procs |-> {}]]
-----------------------------------------------------------------------------
(* The manager.                                                            *)

\* signal.Minimize(): inputs that keep the signal of them all.
SignalOf(ps) == UNION {corpus[p] : p \in ps}
Minimized == {ps \in SUBSET InCorpus : SignalOf(ps) = SignalOf(InCorpus)}

\* Broken variant: the database is minimized in every phase.
PersistentCorpusFinal_Always == TRUE
PersistentCorpusFinal == phase >= phaseTriagedCorpus

minimizeCorpus ==
    IF phase < phaseLoadedCorpus \/ Cardinality(InCorpus) <= (lastMinCorpus * 101) \div 100
    THEN UNCHANGED <<corpus, lastMinCorpus, corpusDB>>
    ELSE \E ps \in Minimized :
            /\ corpus' = [p \in Progs |-> IF p \in ps THEN corpus[p] ELSE {}]
            /\ lastMinCorpus' = Cardinality(ps)
            /\ corpusDB' = IF PersistentCorpusFinal
                           THEN corpusDB \cap (ps \cup Disabled) ELSE corpusDB

\* What cannot be parsed is deleted.  Every other enabled program of the database becomes a
\* candidate, twice: in the order of the database, which is a map, and shuffled.
loadCorpus ==
    /\ corpusDB' = corpusDB \ Broken
    /\ \E a, b \in SetToSeqs(corpusDB \cap Runnable) : candidates' = a \o b
    /\ phase' = phaseLoadedCorpus

\* Broken variants of newInput: the signal recorded before is lost, and not saved.
newInput_Replaces(p, sign) ==
    /\ corpus' = [corpus EXCEPT ![p] = sign]
    /\ corpusDB' = corpusDB \cup {p}
newInput_NoSave(p, sign) ==
    /\ corpus' = [corpus EXCEPT ![p] = @ \cup sign]
    /\ corpusDB' = corpusDB
newInput(p, sign) ==
    /\ corpus' = [corpus EXCEPT ![p] = @ \cup sign]
    /\ corpusDB' = IF p \in InCorpus THEN corpusDB ELSE corpusDB \cup {p}

\* Up to BatchSize candidates are taken from the end of the list.
BatchLen == IF Len(candidates) < BatchSize THEN Len(candidates) ELSE BatchSize
Batch == Reverse(SubSeq(candidates, Len(candidates) - BatchLen + 1, Len(candidates)))

\* Broken variant of candidateBatch: the next phase is always the following number.
candidateBatch_NextPhase ==
    /\ candidates' = SubSeq(candidates, 1, Len(candidates) - BatchLen)
    /\ phase' = IF candidates' = <<>> /\ phase = phaseLoadedCorpus THEN phase + 1 ELSE phase
candidateBatch ==
    /\ candidates' = SubSeq(candidates, 1, Len(candidates) - BatchLen)
    /\ phase' = IF candidates' = <<>> /\ phase = phaseLoadedCorpus
                THEN phaseTriagedHub ELSE phase
-----------------------------------------------------------------------------
(* A VM boots its syz-fuzzer and connects it; it can crash at any time.     *)

\* Connect() until it waits for serv.mu: fuzzerConnect().
ConnectBegin(f) ==
    /\ pc[f] = "down" /\ poll[f] = NoPoll
    /\ minimizeCorpus
    /\ snapshot' = [snapshot EXCEPT ![f] = {[prog |-> p, signal |-> corpus'[p]] :
                                               p \in {q \in Progs : corpus'[q] # {}}}]
    /\ pc' = [pc EXCEPT ![f] = "connecting"]
    /\ UNCHANGED <<phase, candidates, servvars, fuzzvars, poll>>

\* Broken variant: the new entry starts with no signal.
NewEntry_NoSignal(f) == [inputs |-> snapshot[f], newMaxSignal |-> {}]
NewEntry(f) == [inputs |-> snapshot[f], newMaxSignal |-> maxSignal]

ConnectEnd(f) ==
    /\ pc[f] = "connecting"
    /\ fuzzers' = [fuzzers EXCEPT ![f] = NewEntry(f)]
    /\ snapshot' = [snapshot EXCEPT ![f] = {}]
    /\ pc' = [pc EXCEPT ![f] = IF checkResult THEN "pump0" ELSE "check"]
    /\ UNCHANGED <<mgrvars, checkResult, maxSignal, corpusSignal, fuzzvars, poll>>

\* Broken variant of Checked: an earlier result is not looked at.
Checked_Never == FALSE
Checked == checkResult

\* checkMachine(), and Check() on the server.
Check(f) ==
    /\ pc[f] = "check"
    /\ \/ Checked /\ UNCHANGED <<phase, candidates, corpusDB, checkResult>>
       \/ ~Checked /\ loadCorpus /\ checkResult' = TRUE
    /\ pc' = [pc EXCEPT ![f] = "pump0"]
    /\ UNCHANGED <<corpus, lastMinCorpus, maxSignal, corpusSignal, fuzzers, snapshot,
                   fuzzvars, poll>>

\* A Poll that was sent may have reached the server.
Crash(f) ==
    /\ pc[f] # "down"
    /\ pc' = [pc EXCEPT ![f] = "down"] /\ snapshot' = [snapshot EXCEPT ![f] = {}]
    /\ fcorpus' = [fcorpus EXCEPT ![f] = {}]
    /\ fcorpusSignal' = [fcorpusSignal EXCEPT ![f] = {}]
    /\ fmaxSignal' = [fmaxSignal EXCEPT ![f] = {}]
    /\ newSignal' = [newSignal EXCEPT ![f] = {}]
    /\ candidate' = [candidate EXCEPT ![f] = <<>>] /\ triage' = [triage EXCEPT ![f] = {}]
    /\ \/ poll' = [poll EXCEPT ![f] = NoPoll]
       \/ poll[f].at = "call" /\ UNCHANGED poll
    /\ proc' = [proc EXCEPT ![f] = [i \in Procs |-> Idle]]
    /\ found' = [found EXCEPT ![f] = [i \in Procs |-> {}]]
    /\ UNCHANGED <<mgrvars, servvars>>
-----------------------------------------------------------------------------
(* Polling.                                                                *)

wantCandidates(f) == Len(candidate[f]) < Cardinality(Procs)

\* poll() in the fuzzer until the call: the first polls pump the corpus, then pollLoop().
PollSend(f) ==
    /\ pc[f] \in {"pump0", "pump", "run"} /\ poll[f] = NoPoll
    /\ poll' = [poll EXCEPT ![f] =
          [at |-> "call", signal |-> newSignal[f], initial |-> pc[f] # "run",
           need |-> IF pc[f] = "run" THEN wantCandidates(f) ELSE pc[f] = "pump0"]]
    /\ newSignal' = [newSignal EXCEPT ![f] = {}]
    /\ UNCHANGED <<mgrvars, servvars, snapshot, pc, fcorpus, fcorpusSignal, fmaxSignal,
                   candidate, triage, found, proc>>

\* The entries after the new maximal signal went to all fuzzers but f.
Distribute(f, news) ==
    [g \in Fuzzers |->
        IF fuzzers[g] = NULL \/ g = f THEN fuzzers[g]
        ELSE [fuzzers[g] EXCEPT !.newMaxSignal = @ \cup news]]

\* The subsets of S with n elements, or S if it has fewer.
Take(S, n) == IF Cardinality(S) <= n THEN {S} ELSE kSubset(n, S)

\* Broken variant: what does not fit into a batch is dropped.
Rest_Dropped(f, inp) == {}
\* What a batch of inputs leaves for the next polls.
Rest(f, inp) == fuzzers[f].inputs \ inp

\* Inputs are sent only if no candidate is.
SendsInputs(f, b) == b = <<>>

\* The reply is lost if the VM has crashed.
Poll(f) ==
    /\ poll[f].at = "call"
    /\ LET news == poll[f].signal \ maxSignal
           sent == Distribute(f, news)
           n == IF poll[f].initial /\ BatchSize < InitialBatch THEN InitialBatch
                ELSE BatchSize
           b == IF poll[f].need THEN Batch ELSE <<>>
       IN  \E s \in Take(fuzzers[f].newMaxSignal, SplitSize) :
           \E inp \in IF SendsInputs(f, b) THEN Take(fuzzers[f].inputs, n) ELSE {{}} :
              /\ IF poll[f].need THEN candidateBatch ELSE UNCHANGED <<phase, candidates>>
              /\ maxSignal' = maxSignal \cup news
              /\ fuzzers' = [sent EXCEPT ![f] = [inputs |-> Rest(f, inp),
                                                newMaxSignal |-> @.newMaxSignal \ s]]
              /\ poll' = [poll EXCEPT ![f] =
                    IF pc[f] = "down" THEN NoPoll
                    ELSE [at |-> "reply", need |-> @.need, signal |-> s, inputs |-> inp,
                          candidates |-> b]]
    /\ UNCHANGED <<corpus, lastMinCorpus, corpusDB, checkResult, corpusSignal, snapshot, pc,
                   fuzzvars>>

\* The rest of poll(): addMaxSignal(), addInputFromAnotherFuzzer(), the candidates.
PollReply(f) ==
    LET r == poll[f]
        more == r.inputs # {} \/ r.candidates # <<>> \/ r.signal # {}
        sign == UNION {inp.signal : inp \in r.inputs}
    IN  /\ r.at = "reply"
        /\ poll' = [poll EXCEPT ![f] = NoPoll]
        /\ fmaxSignal' = [fmaxSignal EXCEPT ![f] = @ \cup r.signal \cup sign]
        /\ fcorpusSignal' = [fcorpusSignal EXCEPT ![f] = @ \cup sign]
        /\ fcorpus' = [fcorpus EXCEPT ![f] = @ \cup {inp.prog : inp \in r.inputs}]
        /\ candidate' = [candidate EXCEPT ![f] = @ \o r.candidates]
        /\ pc' = [pc EXCEPT ![f] = IF @ # "run" /\ more THEN "pump" ELSE "run"]
        /\ UNCHANGED <<mgrvars, servvars, snapshot, newSignal, triage, found,
                       proc>>
-----------------------------------------------------------------------------
(* The procs.                                                              *)

Doing(f, i, step) == pc[f] = "run" /\ found[f][i] = {} /\ proc[f][i].do = step

\* execute() until checkNewCallSignal() has compared the signal, under the read lock.
Run(f, i, p, cand) ==
    \E s \in Shows[p] \cup {{}} :
        found' = IF s \subseteq fmaxSignal[f] THEN found
                 ELSE [found EXCEPT ![f][i] = {[prog |-> p, signal |-> s, cand |-> cand,
                                               diff |-> s \ fmaxSignal[f]]}]

\* The priorities of dequeue().
CandidateTriage(f) == {t \in triage[f] : t.cand}

ExecCandidate(f, i) ==
    /\ Doing(f, i, "idle") /\ CandidateTriage(f) = {}
    /\ candidate[f] # <<>>
    /\ candidate' = [candidate EXCEPT ![f] = Front(@)]
    /\ Run(f, i, Last(candidate[f]), TRUE)
    /\ UNCHANGED <<mgrvars, servvars, snapshot, pc, fcorpus, fcorpusSignal, fmaxSignal,
                   newSignal, triage, poll, proc>>

\* A smashed, hinted, generated or mutated program.
ExecOther(f, i) ==
    /\ Doing(f, i, "idle") /\ triage[f] = {} /\ candidate[f] = <<>>
    /\ \E p \in Runnable : Run(f, i, p, FALSE)
    /\ UNCHANGED <<mgrvars, servvars, snapshot, pc, fcorpus, fcorpusSignal, fmaxSignal,
                   newSignal, candidate, triage, poll, proc>>

\* The rest of checkNewCallSignal(), under the write lock, and enqueueCallTriage(): what
\* was new at the comparison is merged, whatever others have merged in between.
MergeNew(f, i) ==
    \E t \in found[f][i] :
        /\ fmaxSignal' = [fmaxSignal EXCEPT ![f] = @ \cup t.diff]
        /\ newSignal' = [newSignal EXCEPT ![f] = @ \cup t.diff]
        /\ triage' = [triage EXCEPT ![f] = @ \cup
                         {[prog |-> t.prog, signal |-> t.signal, cand |-> t.cand]}]
        /\ found' = [found EXCEPT ![f][i] = {}]
        /\ UNCHANGED <<mgrvars, servvars, snapshot, pc, fcorpus, fcorpusSignal, candidate,
                       poll, proc>>

\* dequeue() of a triage item; without new signal, triageInput() returns at once.
TriageBegin(f, i) ==
    /\ Doing(f, i, "idle")
    /\ \E t \in triage[f] :
          /\ t.cand \/ (CandidateTriage(f) = {} /\ candidate[f] = <<>>)
          /\ triage' = [triage EXCEPT ![f] = @ \ {t}]
          /\ proc' = IF t.signal \subseteq fcorpusSignal[f] THEN proc
                     ELSE [proc EXCEPT ![f][i] = [do |-> "triage", prog |-> t.prog,
                                                 signal |-> t.signal, cand |-> t.cand]]
    /\ UNCHANGED <<mgrvars, servvars, snapshot, pc, fcorpus, fcorpusSignal, fmaxSignal,
                   newSignal, candidate, poll, found>>

\* The new signal did not show up again.
TriageFlaky(f, i) ==
    /\ Doing(f, i, "triage")
    /\ proc' = [proc EXCEPT ![f][i] = Idle]
    /\ UNCHANGED <<mgrvars, servvars, snapshot, pc, fcorpus, fcorpusSignal, fmaxSignal,
                   newSignal, candidate, triage, poll, found>>

\* Minimization executes a program, which may have new signal itself.
TriageExec(f, i) ==
    /\ Doing(f, i, "triage")
    /\ \E p \in Runnable : Run(f, i, p, FALSE)
    /\ UNCHANGED <<mgrvars, servvars, snapshot, pc, fcorpus, fcorpusSignal, fmaxSignal,
                   newSignal, candidate, triage, poll, proc>>

\* NewInput() on the server.
NewInput(f, p, sign) ==
    IF sign \subseteq corpusSignal
    THEN UNCHANGED <<corpus, corpusDB, corpusSignal, fuzzers>>
    ELSE /\ newInput(p, sign)
         /\ corpusSignal' = corpusSignal \cup sign
         /\ fuzzers' = [g \in Fuzzers |->
               IF fuzzers[g] = NULL \/ g = f THEN fuzzers[g]
               ELSE [fuzzers[g] EXCEPT !.inputs = @ \cup {[prog |-> p, signal |-> sign]}]]

\* Minimization found a program q that still has some of the new signal, and
\* sendInputToManager() sends it.
TriageSend(f, i) ==
    /\ Doing(f, i, "triage")
    /\ \E q \in Runnable :
          /\ q = proc[f][i].prog \/ \E s \in Shows[q] : s \cap proc[f][i].signal # {}
          /\ NewInput(f, q, proc[f][i].signal)
          /\ proc' = [proc EXCEPT ![f][i].do = "add", ![f][i].prog = q]
    /\ UNCHANGED <<phase, candidates, lastMinCorpus, checkResult, maxSignal, snapshot, pc,
                   fcorpus, fcorpusSignal, fmaxSignal, newSignal, candidate, triage, poll, found>>

\* addInputToCorpus(), the end of triageInput().
TriageAdd(f, i) ==
    LET t == proc[f][i]
    IN  /\ Doing(f, i, "add")
        /\ fcorpus' = [fcorpus EXCEPT ![f] = @ \cup {t.prog}]
        /\ fcorpusSignal' = [fcorpusSignal EXCEPT ![f] = @ \cup t.signal]
        /\ fmaxSignal' = [fmaxSignal EXCEPT ![f] = @ \cup t.signal]
        /\ proc' = [proc EXCEPT ![f][i] = Idle]
        /\ UNCHANGED <<mgrvars, servvars, snapshot, pc, newSignal, candidate, triage, poll,
                       found>>
-----------------------------------------------------------------------------
ProcStep(f, i) ==
    \/ ExecCandidate(f, i) \/ ExecOther(f, i) \/ MergeNew(f, i)
    \/ TriageBegin(f, i) \/ TriageExec(f, i) \/ TriageFlaky(f, i)
    \/ TriageSend(f, i) \/ TriageAdd(f, i)

ManagerStep(f) == ConnectBegin(f) \/ ConnectEnd(f) \/ Check(f) \/ Poll(f)

Next ==
    \E f \in Fuzzers :
        \/ ManagerStep(f)
        \/ PollSend(f)
        \/ PollReply(f)
        \/ \E i \in Procs : ProcStep(f, i)
        \/ Crash(f)

Spec == Init /\ [][Next]_vars

\* The ticker of pollLoop() fires again and again, and calls return.
FairSpec ==
    /\ Spec
    /\ \A f \in Fuzzers : WF_vars(PollSend(f)) /\ WF_vars(Poll(f)) /\ WF_vars(PollReply(f))
-----------------------------------------------------------------------------
(* Properties.                                                             *)

Connected == {f \in Fuzzers : pc[f] \in {"check", "pump0", "pump", "run"}}

\* The signal for which NewInput() rejects inputs is exactly the signal of the programs in
\* the manager's corpus: minimization and inputs found twice lose none of it.
CorpusSignalBacked == corpusSignal = SignalOf(InCorpus)

\* Every program of the corpus is in the database, whatever minimization removes from both.
CorpusPersisted == InCorpus \subseteq corpusDB

\* All maximal signal the manager knows is known to each fuzzer or on its way to it, so that
\* the fuzzers do not triage again what another one has seen, also after a restart.  And what
\* a fuzzer no longer takes for new is reported: the manager has it, or the fuzzer will still
\* send it, although the poll loop and other procs come between comparing and merging.
InPoll(f, at) == IF poll[f].at = at THEN poll[f].signal ELSE {}
KnownToFuzzers ==
    \A f \in Connected :
        maxSignal \subseteq fmaxSignal[f] \cup fuzzers[f].newMaxSignal \cup InPoll(f, "reply")
KnownToManager ==
    \A f \in Fuzzers :
        fmaxSignal[f] \subseteq maxSignal \cup corpusSignal \cup newSignal[f] \cup InPoll(f, "call")
MaxSignalShared == KnownToFuzzers /\ KnownToManager

\* A program that can be parsed is removed from the database, by minimizeCorpus(), only when
\* all candidates that were loaded from it have been handed out, and never one with a
\* disabled system call.
DroppedAfterHandout ==
    [][\A p \in corpusDB \ corpusDB' : p \notin Broken => candidates = <<>> /\ p \notin Disabled]_vars

\* loadCorpus() is called in phaseInit only, where it does not panic, although several
\* fuzzers may be told to check their machine.
LoadedOnce == [][candidates' # candidates /\ phase' = phaseLoadedCorpus =>
                    phase = phaseInit \/ Len(candidates') < Len(candidates)]_vars

\* An input for a fuzzer that fuzzes is delivered to it with all its signal, unless it
\* crashes: candidates of other fuzzers, the inputs that are appended behind it and the size
\* of the batches delay it only finitely often.
InputsDelivered ==
    \A f \in Fuzzers : \A p \in Progs, e \in Elems :
        pc[f] = "run" /\ (\E inp \in fuzzers[f].inputs : inp.prog = p /\ e \in inp.signal)
            ~> pc[f] = "down" \/ (p \in fcorpus[f] /\ e \in fcorpusSignal[f])

\* "Don't minimize persistent corpus until fuzzers have triaged all inputs from it": no
\* program is removed from the database while both its copies wait in a fuzzer's queue.
Waiting(f) == {p \in Progs : Len(SelectSeq(candidate[f], LAMBDA q : q = p)) = 2}
DroppedAfterTriage ==
    [][\A f \in Fuzzers : Waiting(f) \cap corpusDB \subseteq corpusDB']_vars
=============================================================================
