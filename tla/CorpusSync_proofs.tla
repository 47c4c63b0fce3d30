-------------------------- MODULE CorpusSync_proofs --------------------------
(* Proofs about the exchange: types, what minimization and repeated inputs keep of the    *)
(* manager's corpus, and that new signal reaches every fuzzer and the manager, for any number *)
(* of fuzzers, procs, programs and elements of signal.                                    *)
EXTENDS CorpusSync, FiniteSetTheorems, SequenceTheorems, TLAPS

\* The part of the state the corpus invariants speak about.
corpusvars == <<corpus, corpusDB, corpusSignal>>

\* All they need to know of types: the corpus maps every program.
CorpusType == corpus = [p \in Progs |-> corpus[p]]

\* loadCorpus() deletes what cannot be parsed, and none of that is in the corpus.
CorpusParsable == InCorpus \cap Broken = {}

\* The inductive invariant.
CorpusInv == CorpusType /\ CorpusSignalBacked /\ CorpusPersisted /\ CorpusParsable

\* An unchanged corpus keeps the invariant.
LEMMA CorpusUnchanged ==
    ASSUME CorpusInv, UNCHANGED corpusvars
    PROVE  CorpusInv'
BY DEF CorpusInv, CorpusType, CorpusSignalBacked, CorpusPersisted, CorpusParsable, SignalOf,
       InCorpus, corpusvars

\* Minimization keeps the signal of the corpus, and of the database what is in the corpus.
LEMMA MinimizeStep ==
    ASSUME CorpusInv, minimizeCorpus, corpusSignal' = corpusSignal
    PROVE  CorpusInv'
<1>1. CASE UNCHANGED <<corpus, lastMinCorpus, corpusDB>>
  BY <1>1, CorpusUnchanged DEF corpusvars
<1>2. ASSUME NEW ps \in Minimized,
             corpus' = [p \in Progs |-> IF p \in ps THEN corpus[p] ELSE {}],
             corpusDB' = IF PersistentCorpusFinal
                         THEN corpusDB \cap (ps \cup Disabled) ELSE corpusDB
      PROVE  CorpusInv'
  <2>1. ps \subseteq InCorpus /\ InCorpus \subseteq Progs /\ SignalOf(ps) = SignalOf(InCorpus)
    BY DEF Minimized, InCorpus
  <2>2. InCorpus' = ps
    BY <1>2, <2>1 DEF InCorpus
  <2>3. CorpusType'
    BY <1>2 DEF CorpusInv, CorpusType
  <2>4. SignalOf(InCorpus)' = SignalOf(ps)
    BY <1>2, <2>1, <2>2 DEF SignalOf
  <2>5. CorpusSignalBacked'
    BY <2>1, <2>4 DEF CorpusInv, CorpusSignalBacked
  <2>6. CorpusPersisted'
    BY <1>2, <2>1, <2>2 DEF CorpusInv, CorpusPersisted
  <2>7. CorpusParsable'
    BY <2>1, <2>2 DEF CorpusInv, CorpusParsable
  <2> QED BY <2>3, <2>5, <2>6, <2>7 DEF CorpusInv
<1> QED BY <1>1, <1>2 DEF minimizeCorpus

\* An input that NewInput() accepts adds its signal on both sides, and is saved.
LEMMA NewInputStep ==
    ASSUME CorpusInv, NEW f, NEW p \in Runnable, NEW sign, NewInput(f, p, sign)
    PROVE  CorpusInv'
<1>0. p \in Progs /\ p \notin Broken
  BY DEF Runnable
<1>1. CASE sign \subseteq corpusSignal
  BY <1>1, CorpusUnchanged DEF NewInput, corpusvars
<1>2. CASE ~ (sign \subseteq corpusSignal)
  <2>1. /\ corpus' = [corpus EXCEPT ![p] = @ \cup sign]
        /\ corpusDB' = IF p \in InCorpus THEN corpusDB ELSE corpusDB \cup {p}
        /\ corpusSignal' = corpusSignal \cup sign
    BY <1>2 DEF NewInput, newInput
  <2>2. CorpusType'
    BY <2>1 DEF CorpusInv, CorpusType
  <2>3. InCorpus' = InCorpus \cup {p}
    BY <1>0, <1>2, <2>1 DEF InCorpus, CorpusInv, CorpusType
  <2>4. SignalOf(InCorpus)' = SignalOf(InCorpus) \cup sign
    <3>1. corpus[p] \subseteq SignalOf(InCorpus)
      BY <1>0 DEF SignalOf, InCorpus
    <3>2. \A q \in InCorpus \cup {p} : corpus'[q] = IF q = p THEN corpus[p] \cup sign
                                                  ELSE corpus[q]
      BY <1>0, <2>1 DEF InCorpus, CorpusInv, CorpusType
    <3>3. SignalOf(InCorpus)' = UNION {corpus'[q] : q \in InCorpus \cup {p}}
      BY <2>3 DEF SignalOf
    <3> QED BY <3>1, <3>2, <3>3 DEF SignalOf
  <2>5. CorpusSignalBacked'
    BY <2>1, <2>4 DEF CorpusInv, CorpusSignalBacked
  <2>6. CorpusPersisted'
    BY <2>1, <2>3 DEF CorpusInv, CorpusPersisted
  <2>7. CorpusParsable'
    BY <1>0, <2>3 DEF CorpusInv, CorpusParsable
  <2> QED BY <2>2, <2>5, <2>6, <2>7 DEF CorpusInv
<1> QED BY <1>1, <1>2

\* Check() deletes only records that cannot be parsed.
LEMMA CheckStep ==
    ASSUME CorpusInv, NEW f, Check(f)
    PROVE  CorpusInv' /\ corpusDB \ corpusDB' \subseteq Broken
<1>1. CASE UNCHANGED <<phase, candidates, corpusDB, checkResult>>
  BY <1>1, CorpusUnchanged DEF Check, corpusvars
<1>2. CASE loadCorpus
  <2>1. corpus' = corpus /\ corpusSignal' = corpusSignal /\ corpusDB' = corpusDB \ Broken
    BY <1>2 DEF Check, loadCorpus
  <2> QED BY <2>1 DEF CorpusInv, CorpusType, CorpusSignalBacked, CorpusPersisted,
     CorpusParsable, SignalOf, InCorpus
<1> QED BY <1>1, <1>2 DEF Check

\* No other step touches the corpus, its database or its signal.
LEMMA OtherStep ==
    ASSUME NEW f \in Fuzzers,
           \/ ConnectEnd(f) \/ Poll(f) \/ PollSend(f) \/ PollReply(f) \/ Crash(f)
           \/ \E i \in Procs : \/ ExecCandidate(f, i) \/ ExecOther(f, i) \/ MergeNew(f, i)
                               \/ TriageBegin(f, i) \/ TriageExec(f, i) \/ TriageFlaky(f, i)
                               \/ TriageAdd(f, i)
    PROVE  UNCHANGED corpusvars
<1>1. CASE ConnectEnd(f)
  BY <1>1 DEF ConnectEnd, mgrvars, corpusvars
<1>3. CASE Poll(f)
  BY <1>3 DEF Poll, corpusvars
<1>4. CASE PollSend(f) \/ Crash(f)
  BY <1>4 DEF PollSend, Crash, mgrvars, servvars, corpusvars
<1>5. CASE PollReply(f)
  BY <1>5 DEF PollReply, mgrvars, servvars, corpusvars
<1>6. ASSUME NEW i \in Procs,
             \/ ExecCandidate(f, i) \/ ExecOther(f, i) \/ MergeNew(f, i)
             \/ TriageBegin(f, i) \/ TriageExec(f, i) \/ TriageFlaky(f, i) \/ TriageAdd(f, i)
      PROVE  UNCHANGED corpusvars
  BY <1>6 DEF ExecCandidate, ExecOther, MergeNew, TriageBegin, TriageExec, TriageFlaky,
              TriageAdd, mgrvars, servvars, corpusvars
<1> QED BY <1>1, <1>3, <1>4, <1>5, <1>6

\* Every step keeps the invariant.
LEMMA CorpusInvStep == CorpusInv /\ [Next]_vars => CorpusInv'
<1> SUFFICES ASSUME CorpusInv, [Next]_vars PROVE CorpusInv'
  OBVIOUS
<1>1. ASSUME NEW f \in Fuzzers, ConnectBegin(f)
      PROVE  CorpusInv'
  BY <1>1, MinimizeStep DEF ConnectBegin, servvars
<1>2. ASSUME NEW f \in Fuzzers, NEW i \in Procs, TriageSend(f, i)
      PROVE  CorpusInv'
  <2>1. PICK q \in Runnable : NewInput(f, q, proc[f][i].signal)
    BY <1>2 DEF TriageSend
  <2> QED BY <2>1, NewInputStep
<1>3. CASE UNCHANGED vars
  BY <1>3, CorpusUnchanged DEF vars, mgrvars, servvars, corpusvars
<1>4. ASSUME NEW f \in Fuzzers,
             \/ ManagerStep(f) \/ PollSend(f) \/ PollReply(f)
             \/ \E i \in Procs : ProcStep(f, i)
             \/ Crash(f)
      PROVE  CorpusInv'
  <2>1. CASE ConnectBegin(f)
    BY <2>1, <1>1
  <2>2. CASE \E i \in Procs : TriageSend(f, i)
    BY <2>2, <1>2
  <2>3. CASE Check(f)
    BY <2>3, CheckStep
  <2>4. CASE ~ ConnectBegin(f) /\ ~ Check(f) /\ ~ \E i \in Procs : TriageSend(f, i)
    <3>1. UNCHANGED corpusvars
      BY <1>4, <2>4, OtherStep DEF ManagerStep, ProcStep
    <3> QED BY <3>1, CorpusUnchanged
  <2> QED BY <2>1, <2>2, <2>3, <2>4
<1> QED BY <1>3, <1>4 DEF Next

\* The manager starts with an empty corpus.
LEMMA CorpusInvInit == Init => CorpusInv
BY DEF Init, CorpusInv, CorpusType, CorpusSignalBacked, CorpusPersisted, CorpusParsable, SignalOf,
       InCorpus

\* The signal by which NewInput() rejects inputs is the signal of the programs in the corpus:
\* neither minimizeCorpus() nor newInput() of a known program loses any, for any number of
\* VMs that connect, crash and send inputs.
THEOREM CorpusKeepsSignal == Spec => []CorpusSignalBacked
<1>1. CorpusInv => CorpusSignalBacked
  BY DEF CorpusInv
<1> QED BY <1>1, CorpusInvInit, CorpusInvStep, PTL DEF Spec

\* A manager that crashes finds every program of its corpus in the database: minimizeCorpus()
\* never deletes a record it still needs, and newInput() saves what it adds.
THEOREM CorpusIsPersisted == Spec => []CorpusPersisted
<1>1. CorpusInv => CorpusPersisted
  BY DEF CorpusInv
<1> QED BY <1>1, CorpusInvInit, CorpusInvStep, PTL DEF Spec
-----------------------------------------------------------------------------
(* Types.  A step is looked at once for each part of the state it changes. *)

ProcUnchanged == UNCHANGED <<mgrvars, servvars, snapshot, pc>>

\* A proc that triages holds a program and a signal.
LEMMA TaskType ==
    ASSUME TypeCalls, NEW f \in Fuzzers, NEW i \in Procs, proc[f][i].do # "idle"
    PROVE  proc[f][i] \in Triaging
<1>1. proc[f][i] \in {Idle} \cup Triaging
  BY DEF TypeCalls
<1> QED BY <1>1 DEF Idle

\* A subsequence, a reversed one, and all the elements of a set in some order.
LEMMA SubSeqType ==
    ASSUME NEW S, NEW s \in Seq(S), NEW n \in Int, NEW m \in Int, n >= 1, m <= Len(s)
    PROVE  SubSeq(s, n, m) \in Seq(S)
<1>1. \A i \in n .. m : s[i] \in S
  <2> TAKE i \in n .. m
  <2>1. i \in 1 .. Len(s)
    BY LenProperties
  <2> QED BY <2>1, ElementOfSeq
<1> QED BY <1>1, SubSeqProperties

LEMMA ReverseType ==
    ASSUME NEW S, NEW s \in Seq(S)
    PROVE  Reverse(s) \in Seq(S)
<1>1. Len(s) \in Nat /\ s \in [1 .. Len(s) -> S]
  BY LenProperties
<1>2. \A i \in 1 .. Len(s) : s[(Len(s) - i) + 1] \in S
  <2> TAKE i \in 1 .. Len(s)
  <2>1. (Len(s) - i) + 1 \in 1 .. Len(s)
    BY <1>1
  <2> QED BY <1>1, <2>1
<1>3. [i \in 1 .. Len(s) |-> s[(Len(s) - i) + 1]] \in [1 .. Len(s) -> S]
  BY <1>2
<1>4. [i \in 1 .. Len(s) |-> s[(Len(s) - i) + 1]] \in Seq(S)
  BY <1>1, <1>3, SeqDef
<1> QED BY <1>4 DEF Reverse

LEMMA SetToSeqsType ==
    ASSUME NEW S, IsFiniteSet(S)
    PROVE  SetToSeqs(S) \subseteq Seq(S)
<1>1. Cardinality(S) \in Nat
  BY FS_CardinalityType
<1>2. SetToSeqs(S) \subseteq [1 .. Cardinality(S) -> S]
  BY DEF SetToSeqs
<1> QED BY <1>1, <1>2, SeqDef

\* The candidates that are handed out, and those that stay.
LEMMA BatchType ==
    ASSUME TypeManager
    PROVE  Batch \in Seq(Progs) /\ SubSeq(candidates, 1, Len(candidates) - BatchLen) \in Seq(Progs)
<1>1. candidates \in Seq(Progs) /\ Len(candidates) \in Nat /\ BatchSize \in Nat \ {0}
  BY LenProperties, ShowsAssumption DEF TypeManager
<1>2. BatchLen \in 0 .. Len(candidates)
  BY <1>1 DEF BatchLen
<1>3. SubSeq(candidates, 1, Len(candidates) - BatchLen) \in Seq(Progs)
  BY <1>1, <1>2, SubSeqType
<1>4. SubSeq(candidates, Len(candidates) - BatchLen + 1, Len(candidates)) \in Seq(Progs)
  BY <1>1, <1>2, SubSeqType
<1> QED BY <1>3, <1>4, ReverseType DEF Batch

\* The parts of the state that the steps of a proc other than TriageSend leave alone.
LEMMA ProcKeeps ==
    ASSUME NEW f \in Fuzzers, NEW i \in Procs, ProcStep(f, i), ~TriageSend(f, i)
    PROVE  ProcUnchanged /\ poll' = poll
BY DEF ProcStep, ExecCandidate, ExecOther, MergeNew, TriageBegin, TriageExec, TriageFlaky,
       TriageAdd, ProcUnchanged

\* The manager's part of the state.
LEMMA TypeManagerStep ==
    ASSUME TypeOK, NEW f \in Fuzzers,
           \/ ManagerStep(f) \/ PollSend(f) \/ PollReply(f) \/ Crash(f)
           \/ \E i \in Procs : ProcStep(f, i)
    PROVE  TypeManager'
<1> USE DEF TypeOK
<1>0. CASE UNCHANGED mgrvars
  BY <1>0 DEF mgrvars, TypeManager
<1>1. CASE ConnectBegin(f)
  <2>1. CASE UNCHANGED <<corpus, lastMinCorpus, corpusDB>>
    BY <1>1, <2>1 DEF ConnectBegin, TypeManager
  <2>2. ASSUME NEW ps \in Minimized,
               corpus' = [p \in Progs |-> IF p \in ps THEN corpus[p] ELSE {}],
               lastMinCorpus' = Cardinality(ps),
               corpusDB' = IF PersistentCorpusFinal
                           THEN corpusDB \cap (ps \cup Disabled) ELSE corpusDB
        PROVE  TypeManager'
    <3>1. IsFiniteSet(ps)
      BY ShowsAssumption, FS_Subset DEF Minimized, InCorpus
    <3>2. lastMinCorpus' \in Nat
      BY <2>2, <3>1, FS_CardinalityType
    <3>3. corpus' \in [Progs -> SUBSET Elems] /\ corpusDB' \subseteq Progs
      BY <2>2 DEF TypeManager
    <3> QED BY <1>1, <3>2, <3>3 DEF ConnectBegin, TypeManager
  <2> QED BY <1>1, <2>1, <2>2 DEF ConnectBegin, minimizeCorpus
<1>2. CASE Check(f)
  <2>1. CASE loadCorpus
    <3>1. IsFiniteSet(corpusDB \cap Runnable)
      BY ShowsAssumption, FS_Subset DEF TypeManager
    <3>2. SetToSeqs(corpusDB \cap Runnable) \subseteq Seq(corpusDB \cap Runnable)
      BY <3>1, SetToSeqsType
    <3>3. \A s \in SetToSeqs(corpusDB \cap Runnable) : s \in Seq(Progs)
      BY <3>2, SeqMonotonic DEF TypeManager
    <3>4. candidates' \in Seq(Progs)
      BY <2>1, <3>3, ConcatProperties DEF loadCorpus
    <3> QED BY <1>2, <2>1, <3>4 DEF Check, loadCorpus, TypeManager
  <2>2. CASE UNCHANGED <<phase, candidates, corpusDB, checkResult>>
    BY <1>2, <2>2 DEF Check, TypeManager
  <2> QED BY <1>2, <2>1, <2>2 DEF Check
<1>3. CASE Poll(f)
  BY <1>3, BatchType DEF Poll, candidateBatch, TypeManager
<1>4. ASSUME NEW i \in Procs, TriageSend(f, i)
      PROVE  TypeManager'
  <2>1. PICK q \in Runnable : NewInput(f, q, proc[f][i].signal)
    BY <1>4 DEF TriageSend
  <2>2. proc[f][i].signal \subseteq Elems
    BY <1>4, TaskType DEF TriageSend, Doing, Triaging
  <2>3. corpus' \in [Progs -> SUBSET Elems] /\ corpusDB' \subseteq Progs
    BY <2>1, <2>2 DEF NewInput, newInput, Runnable, TypeManager
  <2> QED BY <1>4, <2>3 DEF TriageSend, TypeManager
<1>5. CASE ConnectEnd(f) \/ PollSend(f) \/ PollReply(f) \/ Crash(f)
  BY <1>5, <1>0 DEF ConnectEnd, PollSend, PollReply, Crash
<1>6. ASSUME NEW i \in Procs, ProcStep(f, i), ~TriageSend(f, i)
      PROVE  TypeManager'
  BY <1>6, <1>0, ProcKeeps DEF ProcUnchanged
<1> QED BY <1>1, <1>2, <1>3, <1>4, <1>5, <1>6 DEF ManagerStep

\* A poll is one of a fuzzer that is connected, or a call it made before it crashed; its entry
\* is there.
Polling ==
    \A f \in Fuzzers :
        /\ newSignal[f] \subseteq fmaxSignal[f]
        /\ f \in Connected => fuzzers[f] \in Entries /\ InPoll(f, "call") \subseteq fmaxSignal[f]
        /\ poll[f] # NoPoll =>
              /\ fuzzers[f] \in Entries
              /\ f \in Connected \/ (poll[f].at = "call" /\ pc[f] = "down")

\* The inductive invariant behind KnownToFuzzers.
SharedInv == TypeOK /\ Polling /\ KnownToFuzzers

\* What Take() yields.
LEMMA TakeType ==
    ASSUME NEW S, NEW n, NEW s \in Take(S, n)
    PROVE  s \subseteq S
BY DEF Take, kSubset

LEMMA CallType ==
    ASSUME TypeCalls, NEW f \in Fuzzers
    PROVE  /\ poll[f].at = "call" => poll[f] \in Calls
           /\ poll[f].at = "reply" => poll[f] \in Replies
           /\ poll[f] = NoPoll => poll[f].at = "none"
<1>1. poll[f] \in {NoPoll} \cup Calls \cup Replies
  BY DEF TypeCalls
<1>2. NoPoll.at = "none"
  BY DEF NoPoll
<1>3. (\A c \in Calls : c.at = "call") /\ (\A r \in Replies : r.at = "reply")
  BY DEF Calls, Replies
<1> QED BY <1>1, <1>2, <1>3

\* What the steps of NewInput() and Poll() do to the entries.
LEMMA EntryAddsInput ==
    ASSUME NEW e \in Entries, NEW x \in Inputs
    PROVE  /\ [e EXCEPT !.inputs = @ \cup {x}] \in Entries
           /\ [e EXCEPT !.inputs = @ \cup {x}].newMaxSignal = e.newMaxSignal
           /\ [e EXCEPT !.inputs = @ \cup {x}].inputs = e.inputs \cup {x}
BY DEF Entries

LEMMA EntryAddsSignal ==
    ASSUME NEW e \in Entries, NEW s \in SUBSET Elems
    PROVE  /\ [e EXCEPT !.newMaxSignal = @ \cup s] \in Entries
           /\ [e EXCEPT !.newMaxSignal = @ \cup s].newMaxSignal = e.newMaxSignal \cup s
           /\ [e EXCEPT !.newMaxSignal = @ \cup s].inputs = e.inputs
BY DEF Entries

LEMMA NewInputEntries ==
    ASSUME TypeServer, NEW f \in Fuzzers, NEW p \in Progs, NEW sign \in SUBSET Elems,
           NewInput(f, p, sign)
    PROVE  /\ fuzzers' \in [Fuzzers -> Entries \cup {NULL}]
           /\ \A g \in Fuzzers : fuzzers[g] \in Entries =>
                  /\ fuzzers'[g] \in Entries /\ fuzzers'[g].newMaxSignal = fuzzers[g].newMaxSignal
                  /\ \A x \in fuzzers'[g].inputs :
                        x \in fuzzers[g].inputs \/ x.signal \subseteq corpusSignal'
           /\ corpusSignal \subseteq corpusSignal' /\ corpusSignal' \subseteq Elems
<1>1. CASE sign \subseteq corpusSignal
  BY <1>1 DEF NewInput, TypeServer
<1>2. CASE ~(sign \subseteq corpusSignal)
  <2> DEFINE x == [prog |-> p, signal |-> sign]
             added(g) == [fuzzers[g] EXCEPT !.inputs = @ \cup {x}]
             new(g) == IF fuzzers[g] = NULL \/ g = f THEN fuzzers[g] ELSE added(g)
  <2>1. x \in Inputs /\ x.signal = sign
    BY DEF Inputs
  <2>2. fuzzers' = [g \in Fuzzers |-> new(g)] /\ corpusSignal' = corpusSignal \cup sign
    BY <1>2 DEF NewInput
  <2>3. ASSUME NEW g \in Fuzzers
        PROVE  /\ new(g) \in Entries \cup {NULL}
               /\ fuzzers[g] \in Entries =>
                      /\ new(g) \in Entries /\ new(g).newMaxSignal = fuzzers[g].newMaxSignal
                      /\ new(g).inputs \subseteq fuzzers[g].inputs \cup {x}
    <3>1. fuzzers[g] \in Entries \cup {NULL}
      BY DEF TypeServer
    <3>2. CASE fuzzers[g] \in Entries
      BY <2>1, <3>2, EntryAddsInput
    <3>3. CASE fuzzers[g] = NULL
      BY <3>3, NullAssumption
    <3> QED BY <3>1, <3>2, <3>3
  <2> HIDE DEF new, x
  <2> QED BY <2>1, <2>2, <2>3 DEF TypeServer
<1> QED BY <1>1, <1>2

LEMMA PollEntries ==
    ASSUME TypeOK, Polling, NEW f \in Fuzzers, Poll(f)
    PROVE  /\ f \in Connected \/ pc[f] = "down"
           /\ poll[f] \in Calls /\ fuzzers[f] \in Entries
           /\ maxSignal' = maxSignal \cup poll[f].signal /\ maxSignal' \subseteq Elems
           /\ fuzzers' \in [Fuzzers -> Entries \cup {NULL}]
           /\ poll' \in [Fuzzers -> {NoPoll} \cup Calls \cup Replies]
           /\ pc[f] = "down" => poll'[f] = NoPoll
           /\ f \in Connected =>
                 /\ poll'[f] \in Replies
                 /\ fuzzers[f].newMaxSignal \subseteq fuzzers'[f].newMaxSignal \cup poll'[f].signal
                 /\ poll'[f].signal \subseteq fuzzers[f].newMaxSignal
                 /\ poll'[f].inputs \subseteq fuzzers[f].inputs
           /\ fuzzers'[f] \in Entries
           /\ fuzzers'[f].newMaxSignal \subseteq fuzzers[f].newMaxSignal
           /\ fuzzers'[f].inputs \subseteq fuzzers[f].inputs
           /\ \A g \in Fuzzers \ {f} :
                 /\ poll'[g] = poll[g]
                 /\ fuzzers[g] \in Entries =>
                       /\ fuzzers'[g] \in Entries
                       /\ fuzzers'[g].inputs = fuzzers[g].inputs
                       /\ fuzzers'[g].newMaxSignal =
                              fuzzers[g].newMaxSignal \cup (poll[f].signal \ maxSignal)
<1> DEFINE news == poll[f].signal \ maxSignal
           b == IF poll[f].need THEN Batch ELSE <<>>
           n == IF poll[f].initial /\ BatchSize < InitialBatch THEN InitialBatch
                ELSE BatchSize
           added(g) == [fuzzers[g] EXCEPT !.newMaxSignal = @ \cup news]
           sent(g) == IF fuzzers[g] = NULL \/ g = f THEN fuzzers[g] ELSE added(g)
<1>1. poll[f].at = "call" /\ maxSignal' = maxSignal \cup news
  BY DEF Poll
<1>2. poll[f] \in Calls /\ poll[f] # NoPoll
  BY <1>1, CallType DEF TypeOK, NoPoll
<1>3. fuzzers[f] \in Entries /\ (f \in Connected \/ pc[f] = "down")
  BY <1>2 DEF Polling
<1>4. poll[f].signal \subseteq Elems /\ poll[f].need \in BOOLEAN
  BY <1>2, Zenon DEF Calls
<1>5. PICK s \in Take(fuzzers[f].newMaxSignal, SplitSize),
           inp \in (IF SendsInputs(f, b) THEN Take(fuzzers[f].inputs, n) ELSE {{}}) :
          /\ fuzzers' = [Distribute(f, news) EXCEPT
                            ![f] = [inputs |-> Rest(f, inp), newMaxSignal |-> @.newMaxSignal \ s]]
          /\ poll' = [poll EXCEPT ![f] =
                IF pc[f] = "down" THEN NoPoll
                ELSE [at |-> "reply", need |-> @.need, signal |-> s, inputs |-> inp,
                      candidates |-> b]]
  BY DEF Poll
<1>6. s \subseteq fuzzers[f].newMaxSignal /\ inp \subseteq fuzzers[f].inputs
  BY <1>5, TakeType
<1>7. fuzzers[f].newMaxSignal \subseteq Elems /\ fuzzers[f].inputs \subseteq Inputs
  BY <1>3 DEF Entries
<1>8. b \in Seq(Progs)
  BY BatchType, EmptySeq DEF TypeOK
<1> HIDE DEF b, n
<1> DEFINE r == [at |-> "reply", need |-> poll[f].need, signal |-> s,
                 inputs |-> inp, candidates |-> b]
<1>9. r \in Replies /\ r.signal = s /\ r.inputs = inp
  BY <1>4, <1>6, <1>7, <1>8, Zenon DEF Replies
<1>16. poll' = [poll EXCEPT ![f] = IF pc[f] = "down" THEN NoPoll ELSE r]
  BY <1>5
<1> HIDE DEF r
<1>17. /\ poll' \in [Fuzzers -> {NoPoll} \cup Calls \cup Replies]
       /\ poll'[f] = IF pc[f] = "down" THEN NoPoll ELSE r
       /\ \A g \in Fuzzers \ {f} : poll'[g] = poll[g]
  BY <1>9, <1>16 DEF TypeOK, TypeCalls
<1>18. f \in Connected => pc[f] # "down"
  BY DEF Connected
<1>10. ASSUME NEW g \in Fuzzers
       PROVE  /\ sent(g) \in Entries \cup {NULL}
              /\ g # f /\ fuzzers[g] \in Entries =>
                    /\ sent(g) \in Entries /\ sent(g).inputs = fuzzers[g].inputs
                    /\ sent(g).newMaxSignal = fuzzers[g].newMaxSignal \cup news
  <2>1. fuzzers[g] \in Entries \cup {NULL} /\ news \in SUBSET Elems
    BY <1>4 DEF TypeOK, TypeServer
  <2>2. CASE fuzzers[g] \in Entries
    BY <2>1, <2>2, EntryAddsSignal, NullAssumption
  <2>3. CASE fuzzers[g] = NULL
    BY <2>3, NullAssumption
  <2> QED BY <2>1, <2>2, <2>3
<1>11. Distribute(f, news) = [g \in Fuzzers |-> sent(g)] /\ sent(f) = fuzzers[f]
  BY DEF Distribute
<1> HIDE DEF sent, added
<1> DEFINE e == [inputs |-> Rest(f, inp), newMaxSignal |-> fuzzers[f].newMaxSignal \ s]
<1>12. fuzzers' = [g \in Fuzzers |-> IF g = f THEN e ELSE sent(g)]
  BY <1>5, <1>11
<1>13. e \in Entries /\ e.newMaxSignal = fuzzers[f].newMaxSignal \ s
       /\ e.inputs \subseteq fuzzers[f].inputs
  BY <1>7 DEF Entries, Rest
<1> HIDE DEF e
<1>14. /\ fuzzers' \in [Fuzzers -> Entries \cup {NULL}]
       /\ fuzzers'[f] = e /\ \A g \in Fuzzers \ {f} : fuzzers'[g] = sent(g)
  BY <1>10, <1>12, <1>13
<1>15. maxSignal' = maxSignal \cup poll[f].signal /\ maxSignal' \subseteq Elems
  BY <1>1, <1>4 DEF TypeOK, TypeServer
<1> QED BY <1>2, <1>3, <1>6, <1>9, <1>10, <1>13, <1>14, <1>15, <1>17, <1>18

\* The RPC server's part of the state.
LEMMA TypeServerStep ==
    ASSUME TypeOK, Polling, TypeManager', NEW f \in Fuzzers,
           \/ ManagerStep(f) \/ PollSend(f) \/ PollReply(f) \/ Crash(f)
           \/ \E i \in Procs : ProcStep(f, i)
    PROVE  TypeServer'
<1>0. CASE UNCHANGED <<servvars, snapshot>>
  BY <1>0 DEF servvars, TypeServer, TypeOK
<1>1. CASE ConnectBegin(f)
  <2>1. {[prog |-> p, signal |-> corpus'[p]] : p \in {q \in Progs : corpus'[q] # {}}} \in SUBSET Inputs
    BY DEF TypeManager, Inputs
  <2>2. snapshot' \in [Fuzzers -> SUBSET Inputs]
    BY <1>1, <2>1 DEF ConnectBegin, TypeOK, TypeServer
  <2> QED BY <1>1, <2>2 DEF ConnectBegin, servvars, TypeOK, TypeServer
<1>2. CASE ConnectEnd(f)
  <2>1. NewEntry(f) \in Entries
    BY DEF NewEntry, Entries, TypeOK, TypeServer
  <2> QED BY <1>2, <2>1 DEF ConnectEnd, TypeOK, TypeServer
<1>3. CASE Check(f)
  <2>1. checkResult' \in BOOLEAN
    BY <1>3, Zenon DEF Check, TypeOK, TypeServer
  <2> QED BY <1>3, <2>1 DEF Check, TypeOK, TypeServer
<1>4. CASE Poll(f)
  <2>1. /\ fuzzers' \in [Fuzzers -> Entries \cup {NULL}] /\ maxSignal' \subseteq Elems
    BY <1>4, PollEntries
  <2> QED BY <1>4, <2>1 DEF Poll, TypeOK, TypeServer
<1>5. CASE Crash(f)
  BY <1>5 DEF Crash, servvars, TypeOK, TypeServer
<1>6. CASE PollSend(f) \/ PollReply(f)
  BY <1>6, <1>0 DEF PollSend, PollReply
<1>7. ASSUME NEW i \in Procs, TriageSend(f, i)
      PROVE  TypeServer'
  <2>1. PICK q \in Runnable : NewInput(f, q, proc[f][i].signal)
    BY <1>7 DEF TriageSend
  <2>2. proc[f][i].signal \in SUBSET Elems
    BY <1>7, TaskType DEF TriageSend, Doing, Triaging, TypeOK
  <2>3. fuzzers' \in [Fuzzers -> Entries \cup {NULL}] /\ corpusSignal' \subseteq Elems
    BY <2>1, <2>2, NewInputEntries DEF TypeOK, Runnable
  <2> QED BY <1>7, <2>3 DEF TriageSend, TypeOK, TypeServer
<1>8. ASSUME NEW i \in Procs, ProcStep(f, i), ~TriageSend(f, i)
      PROVE  TypeServer'
  BY <1>8, <1>0, ProcKeeps DEF ProcUnchanged
<1> QED BY <1>1, <1>2, <1>3, <1>4, <1>5, <1>6, <1>7, <1>8 DEF ManagerStep

\* What a proc's execution leaves: nothing new, or a find.
LEMMA RunType ==
    ASSUME TypeOK, NEW f \in Fuzzers, NEW i \in Procs, NEW p \in Progs, NEW c \in BOOLEAN,
           Run(f, i, p, c)
    PROVE  found' \in [Fuzzers -> [Procs -> SUBSET Finds]]
<1> USE DEF TypeOK
<1>1. PICK s \in Shows[p] \cup {{}} :
          found' = IF s \subseteq fmaxSignal[f] THEN found
                   ELSE [found EXCEPT ![f][i] = {[prog |-> p, signal |-> s, cand |-> c,
                                                 diff |-> s \ fmaxSignal[f]]}]
  BY DEF Run
<1> DEFINE t == [prog |-> p, signal |-> s, cand |-> c, diff |-> s \ fmaxSignal[f]]
<1>2. s \in SUBSET Elems /\ s \ fmaxSignal[f] \in SUBSET Elems
  BY ShowsAssumption
<1>3. t \in Finds
  BY <1>2, Zenon DEF Finds
<1>4. found' = found \/ found' = [found EXCEPT ![f][i] = {t}]
  BY <1>1
<1> HIDE DEF t
<1>5. found \in [Fuzzers -> [Procs -> SUBSET Finds]]
  BY DEF TypeCalls
<1> QED BY <1>3, <1>4, <1>5

\* A candidate that is taken, and the queue it is taken from.
LEMMA LastCandidate ==
    ASSUME TypeFuzzers, NEW f \in Fuzzers, candidate[f] # <<>>
    PROVE  Last(candidate[f]) \in Progs /\ Front(candidate[f]) \in Seq(Progs)
<1>1. candidate[f] \in Seq(Progs)
  BY DEF TypeFuzzers
<1>2. Len(candidate[f]) \in Nat /\ Len(candidate[f]) > 0
  BY <1>1
<1>3. Last(candidate[f]) \in Progs
  BY <1>1, <1>2, ElementOfSeq DEF Last
<1>4. Front(candidate[f]) \in Seq(Progs)
  BY <1>1, <1>2, SubSeqType DEF Front
<1> QED BY <1>3, <1>4

\* The fuzzers' part of the state.
LEMMA TypeFuzzersStep ==
    ASSUME TypeOK, NEW f \in Fuzzers,
           \/ ManagerStep(f) \/ PollSend(f) \/ PollReply(f) \/ Crash(f)
           \/ \E i \in Procs : ProcStep(f, i)
    PROVE  TypeFuzzers'
<1> USE DEF TypeOK
<1>1. CASE ConnectBegin(f) \/ ConnectEnd(f) \/ Check(f) \/ Poll(f)
  <2>1. UNCHANGED fuzzvars
    BY <1>1 DEF ConnectBegin, ConnectEnd, Check, Poll
  <2>2. pc' \in [Fuzzers -> {"down", "connecting", "check", "pump0", "pump", "run"}]
    BY <1>1 DEF ConnectBegin, ConnectEnd, Check, Poll, TypeFuzzers
  <2> QED BY <2>1, <2>2 DEF fuzzvars, TypeFuzzers
<1>2. CASE PollSend(f)
  BY <1>2 DEF PollSend, TypeFuzzers
<1>3. CASE PollReply(f)
  <2> DEFINE r == poll[f]
             sign == UNION {inp.signal : inp \in r.inputs}
  <2>1. r \in Replies
    BY <1>3, CallType DEF PollReply
  <2>2. /\ r.signal \subseteq Elems /\ r.inputs \subseteq Inputs /\ r.candidates \in Seq(Progs)
    BY <2>1 DEF Replies
  <2>3. sign \subseteq Elems /\ {inp.prog : inp \in r.inputs} \subseteq Progs
    BY <2>2 DEF Inputs
  <2>4. candidate[f] \o r.candidates \in Seq(Progs)
    BY <2>2, ConcatProperties DEF TypeFuzzers
  <2>5. /\ fmaxSignal' = [fmaxSignal EXCEPT ![f] = @ \cup r.signal \cup sign]
        /\ fcorpusSignal' = [fcorpusSignal EXCEPT ![f] = @ \cup sign]
        /\ fcorpus' = [fcorpus EXCEPT ![f] = @ \cup {inp.prog : inp \in r.inputs}]
        /\ candidate' = [candidate EXCEPT ![f] = candidate[f] \o r.candidates]
        /\ newSignal' = newSignal /\ triage' = triage
    BY <1>3 DEF PollReply
  <2>6. pc' \in [Fuzzers -> {"down", "connecting", "check", "pump0", "pump", "run"}]
    BY <1>3 DEF PollReply, TypeFuzzers
  <2> HIDE DEF sign, r
  <2>7. /\ fmaxSignal' \in [Fuzzers -> SUBSET Elems]
        /\ fcorpusSignal' \in [Fuzzers -> SUBSET Elems]
        /\ fcorpus' \in [Fuzzers -> SUBSET Progs]
    BY <2>2, <2>3, <2>5 DEF TypeFuzzers
  <2>8. candidate' \in [Fuzzers -> Seq(Progs)]
    BY <2>4, <2>5 DEF TypeFuzzers
  <2> QED BY <2>5, <2>6, <2>7, <2>8 DEF TypeFuzzers
<1>4. CASE Crash(f)
  <2>1. <<>> \in Seq(Progs)
    BY EmptySeq
  <2> QED BY <1>4, <2>1 DEF Crash, TypeFuzzers
<1>5. ASSUME NEW i \in Procs, ExecCandidate(f, i)
      PROVE  TypeFuzzers'
  BY <1>5, LastCandidate DEF ExecCandidate, TypeFuzzers
<1>6. ASSUME NEW i \in Procs, ExecOther(f, i) \/ TriageFlaky(f, i) \/ TriageSend(f, i)
      PROVE  TypeFuzzers'
  BY <1>6 DEF ExecOther, TriageFlaky, TriageSend, TypeFuzzers
<1>7. ASSUME NEW i \in Procs, MergeNew(f, i)
      PROVE  TypeFuzzers'
  <2>1. PICK t \in found[f][i] :
          /\ fmaxSignal' = [fmaxSignal EXCEPT ![f] = @ \cup t.diff]
          /\ newSignal' = [newSignal EXCEPT ![f] = @ \cup t.diff]
          /\ triage' = [triage EXCEPT ![f] = @ \cup
                           {[prog |-> t.prog, signal |-> t.signal, cand |-> t.cand]}]
    BY <1>7 DEF MergeNew
  <2>2. t \in Finds
    BY DEF TypeCalls
  <2> DEFINE item == [prog |-> t.prog, signal |-> t.signal, cand |-> t.cand]
  <2>3. item \in TriageItems /\ t.diff \subseteq Elems
    BY <2>2, Zenon DEF Finds, TriageItems
  <2>4. triage' = [triage EXCEPT ![f] = @ \cup {item}]
    BY <2>1
  <2> HIDE DEF item
  <2>5. triage' \in [Fuzzers -> SUBSET TriageItems]
    BY <2>3, <2>4 DEF TypeFuzzers
  <2>6. /\ fmaxSignal' \in [Fuzzers -> SUBSET Elems] /\ newSignal' \in [Fuzzers -> SUBSET Elems]
    BY <2>1, <2>3 DEF TypeFuzzers
  <2> QED BY <1>7, <2>5, <2>6 DEF MergeNew, TypeFuzzers
<1>8. ASSUME NEW i \in Procs, TriageBegin(f, i) \/ TriageExec(f, i)
      PROVE  TypeFuzzers'
  BY <1>8 DEF TriageBegin, TriageExec, TypeFuzzers
<1>10. ASSUME NEW i \in Procs, TriageAdd(f, i)
       PROVE  TypeFuzzers'
  <2>1. proc[f][i] \in Triaging
    BY <1>10, TaskType DEF TriageAdd, Doing
  <2>2. proc[f][i].signal \subseteq Elems /\ proc[f][i].prog \in Progs
    BY <2>1 DEF Triaging
  <2> QED BY <1>10, <2>2 DEF TriageAdd, TypeFuzzers
<1> QED BY <1>1, <1>2, <1>3, <1>4, <1>5, <1>6, <1>7, <1>8, <1>10 DEF ManagerStep, ProcStep

\* The calls in progress and the procs.
LEMMA TypeCallsStep ==
    ASSUME TypeOK, Polling, NEW f \in Fuzzers,
           \/ ManagerStep(f) \/ PollSend(f) \/ PollReply(f) \/ Crash(f)
           \/ \E i \in Procs : ProcStep(f, i)
    PROVE  TypeCalls'
<1> USE DEF TypeOK
<1>0. CASE UNCHANGED <<poll, proc, found>>
  BY <1>0 DEF TypeCalls
<1>1. CASE ConnectBegin(f) \/ ConnectEnd(f) \/ Check(f)
  BY <1>0, <1>1 DEF ConnectBegin, ConnectEnd, Check, fuzzvars
<1>2. CASE Poll(f)
  BY <1>2, PollEntries DEF Poll, fuzzvars, TypeCalls
<1>3. CASE PollSend(f)
  <2> DEFINE call == [at |-> "call", signal |-> newSignal[f], initial |-> pc[f] # "run",
                      need |-> IF pc[f] = "run" THEN wantCandidates(f) ELSE pc[f] = "pump0"]
  <2>1. newSignal[f] \in SUBSET Elems
    BY DEF TypeFuzzers
  <2>2. wantCandidates(f) \in BOOLEAN
    BY DEF wantCandidates
  <2>3. (IF pc[f] = "run" THEN wantCandidates(f) ELSE pc[f] = "pump0") \in BOOLEAN
    BY <2>2, Zenon
  <2>4. call \in Calls
    BY <2>1, <2>3, Zenon DEF Calls
  <2>5. poll' = [poll EXCEPT ![f] = call] /\ proc' = proc /\ found' = found
    BY <1>3 DEF PollSend
  <2> HIDE DEF call
  <2> QED BY <2>4, <2>5 DEF TypeCalls
<1>4. CASE PollReply(f)
  BY <1>4 DEF PollReply, TypeCalls
<1>5. CASE Crash(f)
  BY <1>5 DEF Crash, TypeCalls
<1>6. ASSUME NEW i \in Procs, ExecCandidate(f, i)
      PROVE  TypeCalls'
  <2>1. /\ Last(candidate[f]) \in Progs /\ Run(f, i, Last(candidate[f]), TRUE)
        /\ poll' = poll /\ proc' = proc
    BY <1>6, LastCandidate DEF ExecCandidate
  <2> QED BY <2>1, RunType DEF TypeCalls
<1>7. ASSUME NEW i \in Procs, ExecOther(f, i) \/ TriageExec(f, i)
      PROVE  TypeCalls'
  <2>1. PICK p \in Progs : Run(f, i, p, FALSE) /\ poll' = poll /\ proc' = proc
    BY <1>7 DEF ExecOther, TriageExec, Runnable
  <2> QED BY <2>1, RunType DEF TypeCalls
<1>8. ASSUME NEW i \in Procs, TriageFlaky(f, i) \/ TriageAdd(f, i)
      PROVE  TypeCalls'
  <2>1. proc' = [proc EXCEPT ![f][i] = Idle] /\ poll' = poll /\ found' = found
    BY <1>8 DEF TriageFlaky, TriageAdd
  <2> QED BY <2>1 DEF TypeCalls
<1>9. ASSUME NEW i \in Procs, TriageBegin(f, i)
      PROVE  TypeCalls'
  <2>1. PICK t \in triage[f] :
            proc' = IF t.signal \subseteq fcorpusSignal[f] THEN proc
                    ELSE [proc EXCEPT ![f][i] = [do |-> "triage", prog |-> t.prog,
                                                signal |-> t.signal, cand |-> t.cand]]
    BY <1>9 DEF TriageBegin
  <2>2. t \in TriageItems
    BY DEF TypeFuzzers
  <2> DEFINE u == [do |-> "triage", prog |-> t.prog, signal |-> t.signal, cand |-> t.cand]
  <2>3. u \in Triaging
    BY <2>2, Zenon DEF TriageItems, Triaging
  <2>4. proc' = proc \/ proc' = [proc EXCEPT ![f][i] = u]
    BY <2>1
  <2>5. poll' = poll /\ found' = found
    BY <1>9 DEF TriageBegin
  <2> HIDE DEF u
  <2>6. proc' \in [Fuzzers -> [Procs -> {Idle} \cup Triaging]]
    <3>1. proc \in [Fuzzers -> [Procs -> {Idle} \cup Triaging]]
      BY DEF TypeCalls
    <3> QED BY <2>3, <2>4, <3>1
  <2> QED BY <2>5, <2>6, Zenon DEF TypeCalls
<1>10. ASSUME NEW i \in Procs, MergeNew(f, i)
       PROVE  TypeCalls'
  BY <1>10 DEF MergeNew, TypeCalls
<1>11. ASSUME NEW i \in Procs, TriageSend(f, i)
       PROVE  TypeCalls'
  <2> DEFINE t == proc[f][i]
  <2>1. t \in Triaging
    BY <1>11, TaskType DEF TriageSend, Doing
  <2>2. PICK q \in Progs : proc' = [proc EXCEPT ![f][i].do = "add", ![f][i].prog = q]
    BY <1>11 DEF TriageSend, Runnable
  <2>3. [[t EXCEPT !.do = "add"] EXCEPT !.prog = q] \in Triaging
    BY <2>1 DEF Triaging
  <2>4. proc'[f] \in [Procs -> {Idle} \cup Triaging]
    BY <2>2, <2>3 DEF TypeCalls
  <2>5. proc' \in [Fuzzers -> [Procs -> {Idle} \cup Triaging]]
    BY <2>2, <2>4 DEF TypeCalls
  <2> QED BY <1>11, <2>5 DEF TriageSend, TypeCalls
<1> QED BY <1>1, <1>2, <1>3, <1>4, <1>5, <1>6, <1>7, <1>8, <1>9, <1>10, <1>11
        DEF ManagerStep, ProcStep
-----------------------------------------------------------------------------
(* The exchange of signal.                                                 *)

\* The steps of a proc only add to the maximal signal, and to the new signal no more than that.
LEMMA ProcSignal ==
    ASSUME TypeOK, NEW f \in Fuzzers, NEW i \in Procs, ProcStep(f, i)
    PROVE  /\ pc' = pc /\ poll' = poll /\ maxSignal' = maxSignal
           /\ \A g \in Fuzzers : fmaxSignal[g] \subseteq fmaxSignal'[g]
           /\ \A g \in Fuzzers : newSignal'[g] \subseteq newSignal[g] \cup fmaxSignal'[g]
<1> USE DEF TypeOK
<1>1. CASE MergeNew(f, i)
  <2>1. PICK t \in found[f][i] : /\ fmaxSignal' = [fmaxSignal EXCEPT ![f] = @ \cup t.diff]
                                 /\ newSignal' = [newSignal EXCEPT ![f] = @ \cup t.diff]
    BY <1>1 DEF MergeNew
  <2> QED BY <1>1, <2>1 DEF MergeNew, servvars, TypeFuzzers
<1>2. CASE TriageAdd(f, i)
  BY <1>2 DEF TriageAdd, servvars, TypeFuzzers
<1>3. CASE \/ ExecCandidate(f, i) \/ ExecOther(f, i) \/ TriageExec(f, i)
           \/ TriageBegin(f, i) \/ TriageFlaky(f, i) \/ TriageSend(f, i)
  <2>1. pc' = pc /\ poll' = poll /\ maxSignal' = maxSignal
        /\ fmaxSignal' = fmaxSignal /\ newSignal' = newSignal
    BY <1>3 DEF ExecCandidate, ExecOther, TriageExec, TriageBegin, TriageFlaky, TriageSend,
       servvars
  <2> QED BY <2>1
<1> QED BY <1>1, <1>2, <1>3 DEF ProcStep

\* ... and of the entries they touch only the inputs.
LEMMA ProcEntries ==
    ASSUME TypeOK, NEW f \in Fuzzers, NEW i \in Procs, ProcStep(f, i)
    PROVE  /\ \A g \in Fuzzers : fuzzers[g] \in Entries =>
                 /\ fuzzers'[g] \in Entries /\ fuzzers'[g].newMaxSignal = fuzzers[g].newMaxSignal
                 /\ \A x \in fuzzers'[g].inputs :
                       x \in fuzzers[g].inputs \/ x.signal \subseteq corpusSignal'
           /\ corpusSignal \subseteq corpusSignal' /\ snapshot' = snapshot
<1>1. CASE TriageSend(f, i)
  <2>1. PICK q \in Runnable : NewInput(f, q, proc[f][i].signal)
    BY <1>1 DEF TriageSend
  <2>2. proc[f][i].signal \in SUBSET Elems
    BY <1>1, TaskType DEF TriageSend, Doing, Triaging, TypeOK
  <2>3. q \in Progs /\ snapshot' = snapshot
    BY <1>1 DEF TriageSend, Runnable
  <2> QED BY <2>1, <2>2, <2>3, NewInputEntries DEF TypeOK
<1>2. CASE ~TriageSend(f, i)
  BY <1>2, ProcKeeps DEF ProcUnchanged, servvars
<1> QED BY <1>1, <1>2

\* Every step keeps Polling and KnownToFuzzers.
LEMMA SharedStep ==
    ASSUME SharedInv, NEW f \in Fuzzers,
           \/ ManagerStep(f) \/ PollSend(f) \/ PollReply(f) \/ Crash(f)
           \/ \E i \in Procs : ProcStep(f, i)
    PROVE  Polling' /\ KnownToFuzzers'
<1> USE DEF SharedInv
<1> DEFINE Good(g) ==
              /\ newSignal[g] \subseteq fmaxSignal[g]
              /\ g \in Connected =>
                     /\ fuzzers[g] \in Entries
                     /\ InPoll(g, "call") \subseteq fmaxSignal[g]
                     /\ maxSignal \subseteq fmaxSignal[g] \cup fuzzers[g].newMaxSignal
                                           \cup InPoll(g, "reply")
              /\ poll[g] # NoPoll =>
                     /\ fuzzers[g] \in Entries
                     /\ g \in Connected \/ (poll[g].at = "call" /\ pc[g] = "down")
<1>a. \A g \in Fuzzers : Good(g)
  BY DEF Polling, KnownToFuzzers, Connected
<1>b. SUFFICES ASSUME NEW g \in Fuzzers PROVE Good(g)'
  BY DEF Polling, KnownToFuzzers, Connected
<1>g. Good(g)
  BY <1>a
<1>c. poll[f] # NoPoll => pc[f] \in {"down", "check", "pump0", "pump", "run"}
  BY DEF Polling, Connected
<1>1. CASE ConnectBegin(f)
  BY <1>1, <1>g DEF ConnectBegin, servvars, fuzzvars, Connected, InPoll, TypeOK, TypeFuzzers
<1>2. CASE ConnectEnd(f)
  <2>1. NewEntry(f) \in Entries /\ NewEntry(f).newMaxSignal = maxSignal
    BY DEF NewEntry, Entries, TypeOK, TypeServer
  <2>2. fuzzers' = [fuzzers EXCEPT ![f] = NewEntry(f)]
    BY <1>2 DEF ConnectEnd
  <2>3. fuzzers'[f] = NewEntry(f) /\ (g # f => fuzzers'[g] = fuzzers[g])
    BY <2>2 DEF TypeOK, TypeServer
  <2>4. g # f => pc'[g] = pc[g]
    BY <1>2 DEF ConnectEnd
  <2>5. poll[f] = NoPoll /\ NoPoll.at = "none"
    BY <1>2, <1>c DEF ConnectEnd, NoPoll
  <2>6. UNCHANGED <<newSignal, fmaxSignal, poll, maxSignal>>
    BY <1>2 DEF ConnectEnd, fuzzvars
  <2>8. CASE g = f
    BY <1>g, <2>1, <2>3, <2>5, <2>6, <2>8 DEF InPoll
  <2>9. CASE g # f
    BY <1>g, <2>3, <2>4, <2>6, <2>9 DEF Connected, InPoll
  <2> QED BY <2>8, <2>9
<1>3. CASE Check(f)
  BY <1>3, <1>g DEF Check, fuzzvars, Connected, InPoll, TypeOK, TypeFuzzers
<1>4. CASE Crash(f)
  <2>1. CASE g = f
    <3>1. pc'[f] = "down" /\ newSignal'[f] = {} /\ fmaxSignal'[f] = {} /\ fuzzers' = fuzzers
      BY <1>4 DEF Crash, servvars, TypeOK, TypeFuzzers
    <3>2. poll'[f] = NoPoll \/ (poll'[f] = poll[f] /\ poll[f].at = "call")
      BY <1>4 DEF Crash, TypeOK, TypeCalls
    <3>3. poll[f].at = "call" => poll[f] # NoPoll
      BY DEF NoPoll
    <3> QED BY <1>g, <2>1, <3>1, <3>2, <3>3 DEF Connected
  <2>2. CASE g # f
    BY <1>4, <1>g, <2>2 DEF Crash, mgrvars, servvars, Connected, InPoll, TypeOK, TypeFuzzers,
       TypeCalls
  <2> QED BY <2>1, <2>2
<1>5. CASE PollSend(f)
  <2>1. pc' = pc /\ fuzzers' = fuzzers /\ maxSignal' = maxSignal /\ fmaxSignal' = fmaxSignal
        /\ newSignal' = [newSignal EXCEPT ![f] = {}]
    BY <1>5 DEF PollSend, servvars
  <2>2. CASE g = f
    <3>1. poll'[f].at = "call" /\ poll'[f].signal = newSignal[f]
      BY <1>5 DEF PollSend, TypeOK, TypeCalls
    <3>2. poll[f].at = "none" /\ newSignal'[f] = {} /\ f \in Connected
      BY <1>5, <2>1 DEF PollSend, NoPoll, Connected, TypeOK, TypeFuzzers
    <3>3. Good(f)
      BY <1>a
    <3>4. f \in Connected' /\ fuzzers'[f] \in Entries
      BY <2>1, <3>2, <3>3 DEF Connected
    <3>5. /\ InPoll(f, "reply") = {} /\ InPoll(f, "reply")' = {}
          /\ InPoll(f, "call")' = newSignal[f]
      BY <3>1, <3>2 DEF InPoll
    <3> QED BY <2>1, <2>2, <3>2, <3>3, <3>4, <3>5
  <2>3. CASE g # f
    <3>1. poll'[g] = poll[g] /\ newSignal'[g] = newSignal[g]
      BY <1>5, <2>1, <2>3 DEF PollSend, TypeOK, TypeCalls, TypeFuzzers
    <3> QED BY <1>g, <2>1, <3>1 DEF Connected, InPoll
  <2> QED BY <2>2, <2>3
<1>6. CASE Poll(f)
  <2>1. pc' = pc /\ fmaxSignal' = fmaxSignal /\ newSignal' = newSignal
    BY <1>6 DEF Poll, fuzzvars
  <2>2. /\ poll[f] \in Calls /\ poll[f].at = "call" /\ fuzzers'[f] \in Entries
        /\ maxSignal' = maxSignal \cup poll[f].signal
        /\ pc[f] = "down" => poll'[f] = NoPoll
        /\ f \in Connected =>
              /\ poll'[f] \in Replies
              /\ fuzzers[f].newMaxSignal \subseteq fuzzers'[f].newMaxSignal \cup poll'[f].signal
        /\ f \in Connected \/ pc[f] = "down"
    BY <1>6, PollEntries DEF Poll
  <2>3. CASE g = f
    <3>1. CASE pc[f] = "down"
      BY <1>g, <2>1, <2>2, <2>3, <3>1 DEF Connected
    <3>2. CASE f \in Connected
      <4>1. poll'[f].at = "reply" /\ f \in Connected' /\ f \notin {h \in Fuzzers : pc[h] = "down"}
        BY <2>1, <2>2, <3>2 DEF Replies, Connected
      <4>2. InPoll(f, "call") = poll[f].signal /\ InPoll(f, "reply") = {}
            /\ InPoll(f, "call")' = {} /\ InPoll(f, "reply")' = poll'[f].signal
        BY <2>2, <4>1 DEF InPoll
      <4>3. Good(f)
        BY <1>a
      <4> QED BY <2>1, <2>2, <2>3, <3>2, <4>1, <4>2, <4>3
    <3> QED BY <2>2, <3>1, <3>2
  <2>4. CASE g # f
    <3>1. /\ poll'[g] = poll[g]
          /\ fuzzers[g] \in Entries =>
                /\ fuzzers'[g] \in Entries
                /\ fuzzers'[g].newMaxSignal =
                       fuzzers[g].newMaxSignal \cup (poll[f].signal \ maxSignal)
      BY <1>6, <2>4, PollEntries
    <3> QED BY <1>g, <2>1, <2>2, <3>1 DEF Connected, InPoll
  <2> QED BY <2>3, <2>4
<1>7. CASE PollReply(f)
  <2> DEFINE r == poll[f]
             sign == UNION {inp.signal : inp \in r.inputs}
  <2>1. /\ r.at = "reply" /\ poll' = [poll EXCEPT ![f] = NoPoll]
        /\ fmaxSignal' = [fmaxSignal EXCEPT ![f] = @ \cup r.signal \cup sign]
        /\ pc' = [pc EXCEPT ![f] =
                     IF @ # "run" /\ (r.inputs # {} \/ r.candidates # <<>> \/ r.signal # {})
                     THEN "pump" ELSE "run"]
        /\ newSignal' = newSignal /\ maxSignal' = maxSignal /\ fuzzers' = fuzzers
    BY <1>7 DEF PollReply, servvars
  <2>2. NoPoll.at = "none"
    BY DEF NoPoll
  <2>3. f \in Connected /\ fuzzers[f] \in Entries
    BY <2>1, <2>2 DEF Polling
  <2> HIDE DEF sign
  <2>4. CASE g = f
    <3>1. poll'[f] = NoPoll /\ fmaxSignal'[f] = fmaxSignal[f] \cup r.signal \cup sign
      BY <2>1 DEF TypeOK, TypeFuzzers, TypeCalls
    <3>2. InPoll(f, "reply") = r.signal /\ InPoll(f, "reply")' = {} /\ InPoll(f, "call")' = {}
      BY <2>1, <2>2, <3>1 DEF InPoll
    <3>3. Good(f)
      BY <1>a
    <3> QED BY <2>1, <2>2, <2>3, <2>4, <3>1, <3>2, <3>3
  <2>5. CASE g # f
    <3>1. /\ poll'[g] = poll[g] /\ fmaxSignal'[g] = fmaxSignal[g] /\ pc'[g] = pc[g]
      BY <2>1, <2>5 DEF TypeOK, TypeFuzzers, TypeCalls
    <3> QED BY <1>g, <2>1, <3>1 DEF Connected, InPoll
  <2> QED BY <2>4, <2>5
<1>8. ASSUME NEW i \in Procs, ProcStep(f, i)
      PROVE  Good(g)'
  <2>1. /\ pc' = pc /\ poll' = poll /\ maxSignal' = maxSignal
        /\ fmaxSignal[g] \subseteq fmaxSignal'[g]
        /\ newSignal'[g] \subseteq newSignal[g] \cup fmaxSignal'[g]
    BY <1>8, ProcSignal
  <2>2. fuzzers[g] \in Entries =>
               fuzzers'[g] \in Entries /\ fuzzers'[g].newMaxSignal = fuzzers[g].newMaxSignal
    BY <1>8, ProcEntries
  <2> QED BY <1>g, <2>1, <2>2 DEF Connected, InPoll
<1> QED BY <1>1, <1>2, <1>3, <1>4, <1>5, <1>6, <1>7, <1>8 DEF ManagerStep

LEMMA SharedInvStep == SharedInv /\ [Next]_vars => SharedInv'
<1> SUFFICES ASSUME SharedInv, [Next]_vars PROVE SharedInv'
  OBVIOUS
<1>1. CASE UNCHANGED vars
  BY <1>1 DEF vars, mgrvars, servvars, fuzzvars, SharedInv, TypeOK, TypeManager, TypeServer,
     TypeFuzzers, TypeCalls, Polling, KnownToFuzzers, InPoll, Connected
<1>2. ASSUME NEW f \in Fuzzers,
             \/ ManagerStep(f) \/ PollSend(f) \/ PollReply(f) \/ Crash(f)
             \/ \E i \in Procs : ProcStep(f, i)
      PROVE  SharedInv'
  <2>1. TypeManager'
    BY <1>2, TypeManagerStep DEF SharedInv
  <2>2. TypeServer' /\ TypeFuzzers' /\ TypeCalls'
    BY <1>2, <2>1, TypeServerStep, TypeFuzzersStep, TypeCallsStep DEF SharedInv
  <2>3. Polling' /\ KnownToFuzzers'
    BY <1>2, SharedStep
  <2> QED BY <2>1, <2>2, <2>3 DEF SharedInv, TypeOK
<1> QED BY <1>1, <1>2 DEF Next

LEMMA SharedInvInit == Init => SharedInv
<1> SUFFICES ASSUME Init PROVE SharedInv
  OBVIOUS
<1>1. <<>> \in Seq(Progs) /\ NoPoll.at = "none"
  BY EmptySeq DEF NoPoll
<1>2. TypeManager
  BY <1>1 DEF Init, TypeManager
<1>3. checkResult \in BOOLEAN
  BY Zenon DEF Init
<1>4. TypeServer
  BY <1>3 DEF Init, TypeServer
<1>5. TypeFuzzers
  BY <1>1 DEF Init, TypeFuzzers
<1>6. TypeCalls
  BY DEF Init, TypeCalls
<1>7. Polling /\ KnownToFuzzers
  BY <1>1 DEF Init, Polling, KnownToFuzzers, InPoll, Connected
<1> QED BY <1>2, <1>4, <1>5, <1>6, <1>7 DEF SharedInv, TypeOK

\* Every variable keeps its type for any number of VMs, procs and programs; in particular
\* the phases only take the values a manager without a hub can reach.
THEOREM TypeCorrect == Spec => []TypeOK
<1>1. SharedInv => TypeOK
  BY DEF SharedInv
<1> QED BY <1>1, SharedInvInit, SharedInvStep, PTL DEF Spec

-----------------------------------------------------------------------------
(* What the manager is told.                                               *)

\* The signal of what waits or is being triaged in a fuzzer is part of its maximal signal,
\* but for what an execution has just found to be new.
Local(f) ==
    /\ \A t \in triage[f] : t.signal \subseteq fmaxSignal[f]
    /\ \A i \in Procs :
          /\ \A t \in found[f][i] : t.signal \subseteq fmaxSignal[f] \cup t.diff
          /\ proc[f][i].do # "idle" => proc[f][i].signal \subseteq fmaxSignal[f]

\* What is sent to a fuzzer is part of what the manager has.
Sent(f) ==
    /\ f \in Connected => /\ fuzzers[f].newMaxSignal \subseteq maxSignal
                          /\ \A x \in fuzzers[f].inputs : x.signal \subseteq corpusSignal
    /\ \A x \in snapshot[f] : x.signal \subseteq corpusSignal
    /\ poll[f].at = "reply" => /\ poll[f].signal \subseteq maxSignal
                               /\ \A x \in poll[f].inputs : x.signal \subseteq corpusSignal

LocalInv == \A f \in Fuzzers : Local(f)
SentInv == \A f \in Fuzzers : Sent(f)

\* The inductive invariant behind KnownToManager.
ReportInv == LocalInv /\ SentInv /\ KnownToManager

\* What a proc may do to the fuzzer it belongs to, and that it leaves the other ones alone.
LEMMA ProcLocal ==
    ASSUME TypeOK, LocalInv, NEW f \in Fuzzers, NEW i \in Procs, ProcStep(f, i)
    PROVE  /\ Local(f)'
           /\ fmaxSignal'[f] \subseteq fmaxSignal[f] \cup newSignal'[f]
           /\ newSignal[f] \subseteq newSignal'[f]
           /\ \A g \in Fuzzers \ {f} : /\ triage'[g] = triage[g] /\ found'[g] = found[g]
                                      /\ proc'[g] = proc[g] /\ fmaxSignal'[g] = fmaxSignal[g]
                                      /\ newSignal'[g] = newSignal[g]
<1> USE DEF TypeOK
<1>l. Local(f)
  BY DEF LocalInv
<1>i. Idle.do = "idle"
  BY DEF Idle
<1>1. CASE ExecCandidate(f, i) \/ ExecOther(f, i) \/ TriageExec(f, i)
  <2>1. UNCHANGED <<triage, fmaxSignal, newSignal, proc>>
    BY <1>1 DEF ExecCandidate, ExecOther, TriageExec
  <2>2. PICK p, c : Run(f, i, p, c)
    BY <1>1 DEF ExecCandidate, ExecOther, TriageExec
  <2>3. PICK s \in Shows[p] \cup {{}} :
            found' = IF s \subseteq fmaxSignal[f] THEN found
                     ELSE [found EXCEPT ![f][i] = {[prog |-> p, signal |-> s, cand |-> c,
                                                   diff |-> s \ fmaxSignal[f]]}]
    BY <2>2 DEF Run
  <2> DEFINE t == [prog |-> p, signal |-> s, cand |-> c, diff |-> s \ fmaxSignal[f]]
  <2>4. t.signal \subseteq fmaxSignal[f] \cup t.diff
    OBVIOUS
  <2>5. found' = found \/ found' = [found EXCEPT ![f][i] = {t}]
    BY <2>3
  <2> HIDE DEF t
  <2>6. found \in [Fuzzers -> [Procs -> SUBSET Finds]]
    BY DEF TypeCalls
  <2>7. /\ \A j \in Procs : found'[f][j] = found[f][j] \/ found'[f][j] = {t}
        /\ \A g \in Fuzzers \ {f} : found'[g] = found[g]
    BY <2>5, <2>6
  <2>8. Local(f)'
    BY <1>l, <2>1, <2>4, <2>7 DEF Local
  <2> QED BY <2>1, <2>7, <2>8
<1>2. CASE MergeNew(f, i)
  <2>1. PICK t \in found[f][i] :
          /\ fmaxSignal' = [fmaxSignal EXCEPT ![f] = @ \cup t.diff]
          /\ newSignal' = [newSignal EXCEPT ![f] = @ \cup t.diff]
          /\ triage' = [triage EXCEPT ![f] = @ \cup
                           {[prog |-> t.prog, signal |-> t.signal, cand |-> t.cand]}]
          /\ found' = [found EXCEPT ![f][i] = {}]
          /\ proc' = proc
    BY <1>2 DEF MergeNew
  <2> DEFINE item == [prog |-> t.prog, signal |-> t.signal, cand |-> t.cand]
  <2>2. item.signal = t.signal /\ triage' = [triage EXCEPT ![f] = @ \cup {item}]
    BY <2>1
  <2> HIDE DEF item
  <2>3. /\ fmaxSignal'[f] = fmaxSignal[f] \cup t.diff /\ newSignal'[f] = newSignal[f] \cup t.diff
        /\ triage'[f] = triage[f] \cup {item}
        /\ \A j \in Procs : found'[f][j] \subseteq found[f][j]
    BY <2>1, <2>2 DEF TypeFuzzers, TypeCalls
  <2>4. \A g \in Fuzzers \ {f} : /\ triage'[g] = triage[g] /\ found'[g] = found[g]
                                /\ fmaxSignal'[g] = fmaxSignal[g] /\ newSignal'[g] = newSignal[g]
    BY <2>1, <2>2 DEF TypeFuzzers, TypeCalls
  <2>5. t.signal \subseteq fmaxSignal[f] \cup t.diff
    BY <1>l DEF Local
  <2>6. Local(f)'
    BY <1>l, <2>1, <2>2, <2>3, <2>5 DEF Local
  <2> QED BY <2>1, <2>3, <2>4, <2>6
<1>3. CASE TriageBegin(f, i)
  <2>1. UNCHANGED <<fmaxSignal, newSignal, found>>
    BY <1>3 DEF TriageBegin
  <2>2. PICK t \in triage[f] :
          /\ triage' = [triage EXCEPT ![f] = @ \ {t}]
          /\ proc' = IF t.signal \subseteq fcorpusSignal[f] THEN proc
                     ELSE [proc EXCEPT ![f][i] = [do |-> "triage", prog |-> t.prog,
                                                 signal |-> t.signal, cand |-> t.cand]]
    BY <1>3 DEF TriageBegin
  <2> DEFINE u == [do |-> "triage", prog |-> t.prog, signal |-> t.signal, cand |-> t.cand]
  <2>3. u.signal = t.signal /\ t.signal \subseteq fmaxSignal[f]
    BY <1>l DEF Local
  <2>4. proc' = proc \/ proc' = [proc EXCEPT ![f][i] = u]
    BY <2>2
  <2> HIDE DEF u
  <2>5. proc \in [Fuzzers -> [Procs -> {Idle} \cup Triaging]]
    BY DEF TypeCalls
  <2>6. /\ \A j \in Procs : proc'[f][j] = proc[f][j] \/ proc'[f][j] = u
        /\ \A g \in Fuzzers \ {f} : proc'[g] = proc[g]
    BY <2>4, <2>5
  <2>7. triage'[f] \subseteq triage[f] /\ \A g \in Fuzzers \ {f} : triage'[g] = triage[g]
    BY <2>2 DEF TypeFuzzers
  <2>8. Local(f)'
    BY <1>l, <2>1, <2>3, <2>6, <2>7 DEF Local
  <2> QED BY <2>1, <2>6, <2>7, <2>8
<1>4. CASE TriageFlaky(f, i)
  <2>1. UNCHANGED <<fmaxSignal, newSignal, found, triage>> /\ proc' = [proc EXCEPT ![f][i] = Idle]
    BY <1>4 DEF TriageFlaky
  <2>2. /\ \A j \in Procs : proc'[f][j] = proc[f][j] \/ proc'[f][j] = Idle
        /\ \A g \in Fuzzers \ {f} : proc'[g] = proc[g]
    BY <2>1 DEF TypeCalls
  <2>3. Local(f)'
    BY <1>i, <1>l, <2>1, <2>2 DEF Local
  <2> QED BY <2>1, <2>2, <2>3
<1>5. CASE TriageSend(f, i)
  <2>1. UNCHANGED <<fmaxSignal, newSignal, found, triage>> /\ proc[f][i].do = "triage"
    BY <1>5 DEF TriageSend, Doing
  <2>2. PICK q \in Progs : proc' = [proc EXCEPT ![f][i].do = "add", ![f][i].prog = q]
    BY <1>5 DEF TriageSend, Runnable
  <2>3. proc[f][i] \in Triaging
    BY <2>1, TaskType
  <2>4. /\ \A j \in Procs : proc'[f][j] = proc[f][j] \/ (j = i /\ proc'[f][i].signal = proc[f][i].signal)
        /\ \A g \in Fuzzers \ {f} : proc'[g] = proc[g]
    BY <2>2, <2>3 DEF TypeCalls, Triaging
  <2>5. Local(f)'
    BY <1>l, <2>1, <2>4 DEF Local
  <2> QED BY <2>1, <2>4, <2>5
<1>6. CASE TriageAdd(f, i)
  <2>1. /\ UNCHANGED <<newSignal, found, triage>> /\ proc[f][i].do = "add"
        /\ proc' = [proc EXCEPT ![f][i] = Idle]
        /\ fmaxSignal' = [fmaxSignal EXCEPT ![f] = @ \cup proc[f][i].signal]
    BY <1>6 DEF TriageAdd, Doing
  <2>2. proc[f][i].signal \subseteq fmaxSignal[f]
    BY <1>l, <2>1 DEF Local
  <2>3. /\ \A j \in Procs : proc'[f][j] = proc[f][j] \/ proc'[f][j] = Idle
        /\ \A g \in Fuzzers \ {f} : proc'[g] = proc[g]
    BY <2>1 DEF TypeCalls
  <2>4. fmaxSignal' = fmaxSignal
    BY <2>1, <2>2 DEF TypeFuzzers
  <2>5. Local(f)'
    BY <1>i, <1>l, <2>1, <2>3, <2>4 DEF Local
  <2> QED BY <2>1, <2>3, <2>4, <2>5
<1> QED BY <1>1, <1>2, <1>3, <1>4, <1>5, <1>6 DEF ProcStep

\* Every step keeps what is local to a fuzzer.
LEMMA LocalStep ==
    ASSUME TypeOK, LocalInv, NEW f \in Fuzzers,
           \/ ManagerStep(f) \/ PollSend(f) \/ PollReply(f) \/ Crash(f)
           \/ \E i \in Procs : ProcStep(f, i)
    PROVE  LocalInv'
<1> SUFFICES ASSUME NEW g \in Fuzzers PROVE Local(g)'
  BY DEF LocalInv
<1>l. Local(g)
  BY DEF LocalInv
<1>1. CASE UNCHANGED <<triage, found, proc, fmaxSignal>>
  BY <1>l, <1>1 DEF Local
<1>2. CASE ManagerStep(f) \/ PollSend(f)
  BY <1>1, <1>2 DEF ManagerStep, ConnectBegin, ConnectEnd, Check, Poll, PollSend, fuzzvars
<1>3. CASE PollReply(f)
  <2>1. UNCHANGED <<triage, found, proc>>
        /\ \E s : fmaxSignal' = [fmaxSignal EXCEPT ![f] = @ \cup poll[f].signal \cup s]
    BY <1>3 DEF PollReply
  <2>2. fmaxSignal[g] \subseteq fmaxSignal'[g]
    BY <2>1 DEF TypeOK, TypeFuzzers
  <2> QED BY <1>l, <2>1, <2>2 DEF Local
<1>4. CASE Crash(f)
  <2>1. CASE g = f
    <3>1. triage'[f] = {} /\ \A i \in Procs : proc'[f][i] = Idle /\ found'[f][i] = {}
      BY <1>4 DEF Crash, TypeOK, TypeFuzzers, TypeCalls
    <3>2. Idle.do = "idle"
      BY DEF Idle
    <3> QED BY <2>1, <3>1, <3>2 DEF Local
  <2>2. CASE g # f
    <3>1. /\ triage'[g] = triage[g] /\ proc'[g] = proc[g] /\ found'[g] = found[g]
          /\ fmaxSignal'[g] = fmaxSignal[g]
      BY <1>4, <2>2 DEF Crash, TypeOK, TypeFuzzers, TypeCalls
    <3> QED BY <1>l, <3>1 DEF Local
  <2> QED BY <2>1, <2>2
<1>5. ASSUME NEW i \in Procs, ProcStep(f, i)
      PROVE  Local(g)'
  <2>1. CASE g = f
    BY <1>5, <2>1, ProcLocal
  <2>2. CASE g # f
    <3>1. /\ triage'[g] = triage[g] /\ proc'[g] = proc[g] /\ found'[g] = found[g]
          /\ fmaxSignal'[g] = fmaxSignal[g]
      BY <1>5, <2>2, ProcLocal
    <3> QED BY <1>l, <3>1 DEF Local
  <2> QED BY <2>1, <2>2
<1> QED BY <1>2, <1>3, <1>4, <1>5

\* Every step keeps what is sent within what the manager has.
LEMMA SentStep ==
    ASSUME SharedInv, CorpusInv', SentInv, NEW f \in Fuzzers,
           \/ ManagerStep(f) \/ PollSend(f) \/ PollReply(f) \/ Crash(f)
           \/ \E i \in Procs : ProcStep(f, i)
    PROVE  SentInv'
<1> USE DEF SharedInv, TypeOK
<1> SUFFICES ASSUME NEW g \in Fuzzers PROVE Sent(g)'
  BY DEF SentInv
<1>s. Sent(g) /\ Sent(f)
  BY DEF SentInv
<1>1. CASE ConnectBegin(f)
  <2>1. UNCHANGED <<fuzzers, maxSignal, corpusSignal, poll>>
    BY <1>1 DEF ConnectBegin, servvars
  <2>2. g \in Connected' => g \in Connected
    BY <1>1 DEF ConnectBegin, Connected, TypeFuzzers
  <2>3. \A p \in Progs : corpus'[p] \subseteq corpusSignal'
    BY DEF CorpusInv, CorpusSignalBacked, SignalOf, InCorpus
  <2>4. \A x \in snapshot'[g] : x \in snapshot[g] \/ \E p \in Progs : x.signal = corpus'[p]
    BY <1>1 DEF ConnectBegin, TypeServer
  <2> QED BY <1>s, <2>1, <2>2, <2>3, <2>4 DEF Sent
<1>2. CASE ConnectEnd(f)
  <2>1. UNCHANGED <<maxSignal, corpusSignal, poll>>
    BY <1>2 DEF ConnectEnd
  <2>2. CASE g = f
    <3>1. fuzzers'[f] = NewEntry(f) /\ snapshot'[f] = {}
      BY <1>2 DEF ConnectEnd, TypeServer
    <3> QED BY <1>s, <2>1, <2>2, <3>1 DEF Sent, NewEntry
  <2>3. CASE g # f
    <3>1. fuzzers'[g] = fuzzers[g] /\ snapshot'[g] = snapshot[g] /\ pc'[g] = pc[g]
      BY <1>2, <2>3 DEF ConnectEnd, TypeServer, TypeFuzzers
    <3> QED BY <1>s, <2>1, <3>1 DEF Sent, Connected
  <2> QED BY <2>2, <2>3
<1>3. CASE Check(f)
  <2>1. UNCHANGED <<fuzzers, maxSignal, corpusSignal, snapshot, poll>>
    BY <1>3 DEF Check
  <2>2. g \in Connected' => g \in Connected
    BY <1>3 DEF Check, Connected, TypeFuzzers
  <2> QED BY <1>s, <2>1, <2>2 DEF Sent
<1>4. CASE Poll(f)
  <2>1. UNCHANGED <<corpusSignal, snapshot, pc>> /\ maxSignal \subseteq maxSignal'
        /\ poll[f].at = "call" /\ poll[f].signal \subseteq maxSignal'
    BY <1>4, PollEntries DEF Poll
  <2>2. CASE g = f
    <3>1. CASE pc[f] = "down"
      <4>1. poll'[f].at = "none"
        BY <1>4, <3>1, PollEntries DEF NoPoll
      <4> QED BY <1>s, <2>1, <2>2, <3>1, <4>1 DEF Sent, Connected
    <3>2. CASE f \in Connected
      <4>1. /\ fuzzers'[f].newMaxSignal \subseteq fuzzers[f].newMaxSignal
            /\ fuzzers'[f].inputs \subseteq fuzzers[f].inputs
            /\ poll'[f].signal \subseteq fuzzers[f].newMaxSignal
            /\ poll'[f].inputs \subseteq fuzzers[f].inputs
        BY <1>4, <3>2, PollEntries
      <4> QED BY <1>s, <2>1, <2>2, <3>2, <4>1 DEF Sent
    <3> QED BY <1>4, <3>1, <3>2, PollEntries
  <2>3. CASE g # f
    <3>1. /\ poll'[g] = poll[g]
          /\ fuzzers[g] \in Entries =>
                /\ fuzzers'[g].inputs = fuzzers[g].inputs
                /\ fuzzers'[g].newMaxSignal =
                       fuzzers[g].newMaxSignal \cup (poll[f].signal \ maxSignal)
      BY <1>4, <2>3, PollEntries
    <3>2. g \in Connected => fuzzers[g] \in Entries
      BY DEF Polling
    <3> QED BY <1>s, <2>1, <3>1, <3>2 DEF Sent, Connected
  <2> QED BY <2>2, <2>3
<1>5. CASE PollSend(f) \/ PollReply(f)
  <2>1. UNCHANGED <<fuzzers, maxSignal, corpusSignal, snapshot>>
    BY <1>5 DEF PollSend, PollReply, servvars
  <2>2. poll'[g] = poll[g] \/ poll'[g].at # "reply"
    <3>1. CASE PollSend(f)
      <4>1. g # f => poll'[g] = poll[g]
        BY <3>1 DEF PollSend, TypeCalls
      <4>2. poll'[f].at = "call"
        BY <3>1 DEF PollSend, TypeCalls
      <4> QED BY <4>1, <4>2
    <3>2. CASE PollReply(f)
      BY <3>2 DEF PollReply, NoPoll, TypeCalls
    <3> QED BY <1>5, <3>1, <3>2
  <2>3. g \in Connected' => g \in Connected
    <3>1. poll[f].at = "reply" => f \in Connected
      BY DEF Polling, NoPoll
    <3> QED BY <1>5, <3>1 DEF PollSend, PollReply, Connected, TypeFuzzers
  <2> QED BY <1>s, <2>1, <2>2, <2>3 DEF Sent
<1>6. CASE Crash(f)
  <2>1. UNCHANGED <<fuzzers, maxSignal, corpusSignal>>
    BY <1>6 DEF Crash, servvars
  <2>2. poll'[g] = poll[g] \/ poll'[g].at # "reply"
    BY <1>6 DEF Crash, NoPoll, TypeCalls
  <2>3. g \in Connected' => g \in Connected
    BY <1>6 DEF Crash, Connected, TypeFuzzers
  <2>4. snapshot'[g] \subseteq snapshot[g]
    BY <1>6 DEF Crash, TypeServer
  <2> QED BY <1>s, <2>1, <2>2, <2>3, <2>4 DEF Sent
<1>7. ASSUME NEW i \in Procs, ProcStep(f, i)
      PROVE  Sent(g)'
  <2>1. pc' = pc /\ poll' = poll /\ maxSignal' = maxSignal
    BY <1>7, ProcSignal
  <2>2. /\ fuzzers[g] \in Entries =>
              /\ fuzzers'[g].newMaxSignal = fuzzers[g].newMaxSignal
              /\ \A x \in fuzzers'[g].inputs :
                    x \in fuzzers[g].inputs \/ x.signal \subseteq corpusSignal'
        /\ corpusSignal \subseteq corpusSignal' /\ snapshot' = snapshot
    BY <1>7, ProcEntries
  <2>3. g \in Connected => fuzzers[g] \in Entries
    BY DEF Polling
  <2> QED BY <1>s, <2>1, <2>2, <2>3 DEF Sent, Connected
<1> QED BY <1>1, <1>2, <1>3, <1>4, <1>5, <1>6, <1>7 DEF ManagerStep

\* Every step keeps what a fuzzer no longer takes for new reported, or about to be.
LEMMA ReportStep ==
    ASSUME SharedInv, ReportInv, NEW f \in Fuzzers,
           \/ ManagerStep(f) \/ PollSend(f) \/ PollReply(f) \/ Crash(f)
           \/ \E i \in Procs : ProcStep(f, i)
    PROVE  KnownToManager'
<1> USE DEF SharedInv, TypeOK, ReportInv
<1> DEFINE Known(g) == fmaxSignal[g] \subseteq
                           maxSignal \cup corpusSignal \cup newSignal[g] \cup InPoll(g, "call")
<1> SUFFICES ASSUME NEW g \in Fuzzers PROVE Known(g)'
  BY DEF KnownToManager
<1>k. Known(g)
  BY DEF KnownToManager
<1>1. CASE ConnectBegin(f) \/ ConnectEnd(f) \/ Check(f)
  <2>1. UNCHANGED <<maxSignal, corpusSignal, fmaxSignal, newSignal, poll>>
    BY <1>1 DEF ConnectBegin, ConnectEnd, Check, servvars, fuzzvars
  <2> QED BY <1>k, <2>1 DEF InPoll
<1>2. CASE Poll(f)
  <2>1. /\ UNCHANGED <<corpusSignal, fmaxSignal, newSignal>> /\ poll[f].at = "call"
        /\ maxSignal' = maxSignal \cup poll[f].signal
        /\ g # f => poll'[g] = poll[g]
    BY <1>2, PollEntries DEF Poll, fuzzvars
  <2> QED BY <1>k, <2>1 DEF InPoll
<1>3. CASE PollSend(f)
  <2>1. UNCHANGED <<maxSignal, corpusSignal, fmaxSignal>> /\ poll[f].at # "call"
    BY <1>3 DEF PollSend, servvars, NoPoll
  <2>2. g = f => poll'[g].at = "call" /\ poll'[g].signal = newSignal[g]
    BY <1>3 DEF PollSend, TypeCalls
  <2>3. g # f => poll'[g] = poll[g] /\ newSignal'[g] = newSignal[g]
    BY <1>3 DEF PollSend, TypeCalls, TypeFuzzers
  <2> QED BY <1>k, <2>1, <2>2, <2>3 DEF InPoll
<1>4. CASE PollReply(f)
  <2> DEFINE sign == UNION {inp.signal : inp \in poll[f].inputs}
  <2>1. /\ UNCHANGED <<maxSignal, corpusSignal, newSignal>> /\ poll[f].at = "reply"
        /\ poll' = [poll EXCEPT ![f] = NoPoll]
        /\ fmaxSignal' = [fmaxSignal EXCEPT ![f] = @ \cup poll[f].signal \cup sign]
    BY <1>4 DEF PollReply, servvars
  <2>2. poll[f].signal \subseteq maxSignal /\ sign \subseteq corpusSignal
    BY <2>1 DEF SentInv, Sent
  <2> HIDE DEF sign
  <2>3. g = f => fmaxSignal'[g] = fmaxSignal[g] \cup poll[f].signal \cup sign
    BY <2>1 DEF TypeFuzzers
  <2>4. g # f => poll'[g] = poll[g] /\ fmaxSignal'[g] = fmaxSignal[g]
    BY <2>1 DEF TypeFuzzers, TypeCalls
  <2> QED BY <1>k, <2>1, <2>2, <2>3, <2>4 DEF InPoll
<1>5. CASE Crash(f)
  <2>1. UNCHANGED <<maxSignal, corpusSignal>>
    BY <1>5 DEF Crash, servvars
  <2>2. g = f => fmaxSignal'[g] = {}
    BY <1>5 DEF Crash, TypeFuzzers
  <2>3. g # f => /\ poll'[g] = poll[g] /\ fmaxSignal'[g] = fmaxSignal[g]
                 /\ newSignal'[g] = newSignal[g]
    BY <1>5 DEF Crash, TypeFuzzers, TypeCalls
  <2> QED BY <1>k, <2>1, <2>2, <2>3 DEF InPoll
<1>6. ASSUME NEW i \in Procs, ProcStep(f, i)
      PROVE  Known(g)'
  <2>1. poll' = poll /\ maxSignal' = maxSignal /\ corpusSignal \subseteq corpusSignal'
    BY <1>6, ProcSignal, ProcEntries
  <2>2. /\ g = f => /\ fmaxSignal'[g] \subseteq fmaxSignal[g] \cup newSignal'[g]
                    /\ newSignal[g] \subseteq newSignal'[g]
        /\ g # f => fmaxSignal'[g] = fmaxSignal[g] /\ newSignal'[g] = newSignal[g]
    BY <1>6, ProcLocal
  <2> QED BY <1>k, <2>1, <2>2 DEF InPoll
<1> QED BY <1>1, <1>2, <1>3, <1>4, <1>5, <1>6 DEF ManagerStep

LEMMA ReportInvStep == SharedInv /\ CorpusInv' /\ ReportInv /\ [Next]_vars => ReportInv'
<1> SUFFICES ASSUME SharedInv, CorpusInv', ReportInv, [Next]_vars PROVE ReportInv'
  OBVIOUS
<1>1. CASE UNCHANGED vars
  BY <1>1 DEF vars, mgrvars, servvars, fuzzvars, ReportInv, LocalInv, Local, SentInv, Sent,
     KnownToManager, InPoll, Connected
<1>2. ASSUME NEW f \in Fuzzers,
             \/ ManagerStep(f) \/ PollSend(f) \/ PollReply(f) \/ Crash(f)
             \/ \E i \in Procs : ProcStep(f, i)
      PROVE  ReportInv'
  <2>1. LocalInv'
    BY <1>2, LocalStep DEF SharedInv, ReportInv
  <2>2. SentInv'
    BY <1>2, SentStep DEF ReportInv
  <2>3. KnownToManager'
    BY <1>2, ReportStep
  <2> QED BY <2>1, <2>2, <2>3 DEF ReportInv
<1> QED BY <1>1, <1>2 DEF Next

LEMMA ReportInvInit == Init => ReportInv
<1> SUFFICES ASSUME Init PROVE ReportInv
  OBVIOUS
<1>1. NoPoll.at = "none" /\ Idle.do = "idle"
  BY DEF NoPoll, Idle
<1>2. LocalInv
  BY <1>1 DEF Init, LocalInv, Local
<1>3. SentInv
  BY <1>1 DEF Init, SentInv, Sent, Connected
<1>4. KnownToManager
  BY DEF Init, KnownToManager
<1> QED BY <1>2, <1>3, <1>4 DEF ReportInv

\* Whatever the order in which fuzzers connect, poll, compare, merge and crash, the maximal
\* signal of the manager is known to every connected fuzzer, in its entry, or in the reply to
\* it; and what a fuzzer no longer takes for new is known to the manager, collected for the
\* next poll, or in the one under way.
THEOREM SignalReachesAll == Spec => []MaxSignalShared
<1>1. SharedInv /\ ReportInv => MaxSignalShared
  BY DEF SharedInv, ReportInv, MaxSignalShared
<1>2. Spec => [](SharedInv /\ CorpusInv)
  BY SharedInvInit, SharedInvStep, CorpusInvInit, CorpusInvStep, PTL DEF Spec
<1>3. SharedInv /\ CorpusInv /\ CorpusInv' /\ ReportInv /\ [Next]_vars => ReportInv'
  BY ReportInvStep
<1> QED BY <1>1, <1>2, <1>3, ReportInvInit, PTL DEF Spec
-----------------------------------------------------------------------------
(* Phases.                                                                 *)

\* The corpus is loaded with the first result of a machine check, and candidates wait only
\* between that and the first poll that finds none left.
PhaseInv ==
    /\ phase = phaseInit <=> ~checkResult
    /\ phase # phaseLoadedCorpus => candidates = <<>>

\* What is left of the candidates when a batch has been taken.
LEMMA BatchLeaves ==
    ASSUME candidates \in Seq(Progs), candidateBatch
    PROVE  /\ candidates = <<>> => candidates' = <<>>
           /\ candidates' = candidates \/ Len(candidates') < Len(candidates)
<1> DEFINE n == Len(candidates) - BatchLen
<1>1. Len(candidates) \in Nat /\ BatchLen \in 0 .. Len(candidates)
      /\ (BatchLen = 0 => candidates = <<>>)
  BY ShowsAssumption DEF BatchLen
<1>2. candidates' = SubSeq(candidates, 1, n) /\ n \in 0 .. Len(candidates)
  BY <1>1 DEF candidateBatch
<1>3. candidates' \in Seq(Progs) /\ Len(candidates') = n
  BY <1>1, <1>2, SubSeqProperties
<1>4. candidates = <<>> => candidates' = <<>>
  BY <1>1, <1>2, <1>3
<1> QED BY <1>1, <1>3, <1>4

\* Only Check() and Poll() have to do with phases and candidates.
LEMMA PhaseFrame ==
    ASSUME NEW f \in Fuzzers,
           \/ ConnectBegin(f) \/ ConnectEnd(f) \/ PollSend(f) \/ PollReply(f) \/ Crash(f)
           \/ \E i \in Procs : ProcStep(f, i)
    PROVE  UNCHANGED <<phase, candidates, checkResult>>
<1>1. CASE ConnectBegin(f) \/ ConnectEnd(f)
  BY <1>1 DEF ConnectBegin, ConnectEnd, mgrvars, servvars
<1>2. CASE PollSend(f) \/ Crash(f)
  BY <1>2 DEF PollSend, Crash, mgrvars, servvars
<1>3. CASE PollReply(f)
  BY <1>3 DEF PollReply, mgrvars, servvars
<1>4. ASSUME NEW i \in Procs, ProcStep(f, i)
      PROVE  UNCHANGED <<phase, candidates, checkResult>>
  BY <1>4, Zenon DEF ProcStep, ExecCandidate, ExecOther, MergeNew, TriageBegin, TriageExec,
     TriageFlaky, TriageSend, TriageAdd, mgrvars, servvars
<1> QED BY <1>1, <1>2, <1>3, <1>4

\* Each step keeps the phases, and candidates are loaded only in phaseInit.
LEMMA PhaseStep ==
    ASSUME TypeManager, PhaseInv, [Next]_vars
    PROVE  /\ PhaseInv'
           /\ candidates' # candidates /\ phase' = phaseLoadedCorpus =>
                 phase = phaseInit \/ Len(candidates') < Len(candidates)
<1> USE DEF phaseInit, phaseLoadedCorpus, phaseTriagedHub
<1>1. ASSUME NEW f \in Fuzzers, Check(f)
      PROVE  PhaseInv' /\ (candidates' # candidates => phase = phaseInit)
  <2>1. CASE Checked /\ UNCHANGED <<phase, candidates, corpusDB, checkResult>>
    BY <2>1 DEF PhaseInv
  <2>2. CASE ~Checked /\ loadCorpus /\ checkResult' = TRUE
    <3>1. phase = phaseInit /\ phase' = phaseLoadedCorpus
      BY <2>2 DEF PhaseInv, Checked, loadCorpus
    <3> QED BY <2>2, <3>1 DEF PhaseInv
  <2> QED BY <1>1, <2>1, <2>2 DEF Check
<1>2. ASSUME NEW f \in Fuzzers, Poll(f)
      PROVE  PhaseInv' /\ (candidates' = candidates \/ Len(candidates') < Len(candidates))
  <2>1. checkResult' = checkResult /\ (candidateBatch \/ UNCHANGED <<phase, candidates>>)
    BY <1>2 DEF Poll
  <2>2. CASE candidateBatch
    <3>1. /\ candidates = <<>> => candidates' = <<>>
          /\ candidates' = candidates \/ Len(candidates') < Len(candidates)
      BY <2>2, BatchLeaves DEF TypeManager
    <3>2. phase' = IF candidates' = <<>> /\ phase = phaseLoadedCorpus
                   THEN phaseTriagedHub ELSE phase
      BY <2>2 DEF candidateBatch
    <3> QED BY <2>1, <3>1, <3>2 DEF PhaseInv
  <2>3. CASE UNCHANGED <<phase, candidates>>
    BY <2>1, <2>3 DEF PhaseInv
  <2> QED BY <2>1, <2>2, <2>3
<1>3. ASSUME UNCHANGED <<phase, candidates, checkResult>>
      PROVE  PhaseInv'
  BY <1>3 DEF PhaseInv
<1>4. CASE UNCHANGED vars
  BY <1>3, <1>4 DEF vars, mgrvars, servvars
<1>5. ASSUME NEW f \in Fuzzers,
             \/ ConnectBegin(f) \/ ConnectEnd(f) \/ PollSend(f) \/ PollReply(f) \/ Crash(f)
             \/ \E i \in Procs : ProcStep(f, i)
      PROVE  PhaseInv' /\ candidates' = candidates
  BY <1>3, <1>5, PhaseFrame
<1> QED BY <1>1, <1>2, <1>4, <1>5 DEF Next, ManagerStep

LEMMA PhaseInvariant == Spec => [](SharedInv /\ PhaseInv)
<1>1. Init => PhaseInv
  BY DEF Init, PhaseInv, phaseInit, phaseLoadedCorpus
<1>2. SharedInv /\ PhaseInv /\ [Next]_vars => PhaseInv'
  BY PhaseStep DEF SharedInv, TypeOK
<1> QED BY <1>1, <1>2, SharedInvInit, SharedInvStep, PTL DEF Spec

\* loadCorpus() runs in phaseInit only, however many fuzzers are told to check their machine.
THEOREM CorpusLoadedOnce == Spec => LoadedOnce
<1> DEFINE A == candidates' # candidates /\ phase' = phaseLoadedCorpus =>
                    phase = phaseInit \/ Len(candidates') < Len(candidates)
<1>1. SharedInv /\ PhaseInv /\ [Next]_vars => [A]_vars
  BY PhaseStep DEF SharedInv, TypeOK
<1>2. Spec => [][A]_vars
  BY <1>1, PhaseInvariant, PTL DEF Spec
<1> QED BY <1>2 DEF LoadedOnce

\* Of what can be parsed, a program leaves the database only in minimizeCorpus(), when every
\* candidate has been handed out, and never one with a disabled system call.
THEOREM DropsAfterHandout == Spec => DroppedAfterHandout
<1> DEFINE A == \A p \in corpusDB \ corpusDB' :
                    p \notin Broken => candidates = <<>> /\ p \notin Disabled
<1>1. CorpusInv /\ PhaseInv /\ [Next]_vars => [A]_vars
  <2> SUFFICES ASSUME CorpusInv, PhaseInv, Next, NEW p \in corpusDB \ corpusDB', p \notin Broken
               PROVE  candidates = <<>> /\ p \notin Disabled
    OBVIOUS
  <2>1. PICK f \in Fuzzers : \/ ManagerStep(f) \/ PollSend(f) \/ PollReply(f) \/ Crash(f)
                             \/ \E i \in Procs : ProcStep(f, i)
    BY DEF Next
  <2>2. CASE ConnectBegin(f)
    <3>1. minimizeCorpus
      BY <2>2 DEF ConnectBegin
    <3>2. PICK ps \in Minimized :
            corpusDB' = IF PersistentCorpusFinal THEN corpusDB \cap (ps \cup Disabled) ELSE corpusDB
      BY <3>1 DEF minimizeCorpus
    <3>3. PersistentCorpusFinal /\ p \notin Disabled
      BY <3>2
    <3>4. phase # phaseLoadedCorpus
      BY <3>3 DEF PersistentCorpusFinal, phaseTriagedCorpus, phaseLoadedCorpus
    <3> QED BY <3>3, <3>4 DEF PhaseInv
  <2>3. CASE \E i \in Procs : TriageSend(f, i)
    <3>1. corpusDB \subseteq corpusDB'
      BY <2>3 DEF TriageSend, NewInput, newInput
    <3> QED BY <3>1
  <2>4. CASE Check(f)
    BY <2>4, CheckStep
  <2>5. CASE ~ ConnectBegin(f) /\ ~ Check(f) /\ ~ \E i \in Procs : TriageSend(f, i)
    <3>1. UNCHANGED corpusvars
      BY <2>1, <2>5, OtherStep DEF ManagerStep, ProcStep
    <3> QED BY <3>1 DEF corpusvars
  <2> QED BY <2>2, <2>3, <2>4, <2>5
<1>2. Spec => [][A]_vars
  BY <1>1, PhaseInvariant, CorpusInvInit, CorpusInvStep, PTL DEF Spec
<1> QED BY <1>2 DEF DroppedAfterHandout
=============================================================================
