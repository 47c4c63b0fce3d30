------------------------ MODULE DummyTransfer_proofs ------------------------
(* Proofs about transfer(): no buffer is overrun, and how an URB may end, for all lengths, *)
(* packet sizes, limits and numbers of requests.                                         *)
EXTENDS DummyTransfer, SequenceTheorems, TLAPS

\* The loop runs only while the URB is in progress.
LoopStatus == pc = "loop" => status = "EINPROGRESS"

\* The inductive invariant.
IndInv == TypeOK /\ InBounds /\ LoopStatus /\ UrbEnd

\* The remainder of a division is smaller than the divisor.
LEMMA ModBound ==
    ASSUME NEW a \in Nat, NEW b \in Nat \ {0}
    PROVE  a % b \in Nat /\ a % b < b
BY SMT

\* list_del(): what was behind the element moves up by one.
LEMMA RemoveAtElements ==
    ASSUME NEW T, NEW s \in Seq(T), NEW k \in 1 .. Len(s)
    PROVE  /\ RemoveAt(s, k) \in Seq(T) /\ Len(RemoveAt(s, k)) = Len(s) - 1
           /\ \A j \in 1 .. Len(s) - 1 : RemoveAt(s, k)[j] = IF j < k THEN s[j] ELSE s[j + 1]
<1> DEFINE before == SubSeq(s, 1, k - 1)
           after == SubSeq(s, k + 1, Len(s))
           r == RemoveAt(s, k)
<1>1. k \in Int /\ Len(s) \in Nat /\ 1 <= k /\ k <= Len(s) /\ \A j \in 1 .. Len(s) : s[j] \in T
  OBVIOUS
<1>2. /\ before \in Seq(T) /\ Len(before) = IF 1 <= k - 1 THEN k - 1 - 1 + 1 ELSE 0
      /\ \A j \in 1 .. (k - 1 - 1 + 1) : before[j] = s[1 + j - 1]
  BY <1>1, SubSeqProperties
<1>3. /\ after \in Seq(T) /\ Len(after) = IF k + 1 <= Len(s) THEN Len(s) - (k + 1) + 1 ELSE 0
      /\ \A j \in 1 .. (Len(s) - (k + 1) + 1) : after[j] = s[k + 1 + j - 1]
  BY <1>1, SubSeqProperties
<1>4. r = before \o after
  BY DEF RemoveAt
<1> HIDE DEF before, after, r
<1>5. Len(before) = k - 1 /\ Len(after) = Len(s) - k
  BY <1>1, <1>2, <1>3
<1>6. /\ before \o after \in Seq(T)
      /\ Len(before \o after) = Len(before) + Len(after)
      /\ \A j \in 1 .. Len(before) + Len(after) : (before \o after)[j] =
             IF j <= Len(before) THEN before[j] ELSE after[j - Len(before)]
  BY <1>2, <1>3, ConcatProperties
<1>7. /\ r \in Seq(T) /\ Len(r) = Len(before) + Len(after)
      /\ \A j \in 1 .. Len(before) + Len(after) : r[j] =
             IF j <= Len(before) THEN before[j] ELSE after[j - Len(before)]
  BY <1>4, <1>6, Zenon
<1>8. /\ r \in Seq(T) /\ Len(r) = Len(s) - 1
      /\ \A j \in 1 .. Len(s) - 1 : r[j] = IF j <= k - 1 THEN before[j] ELSE after[j - (k - 1)]
  BY <1>1, <1>5, <1>7
<1>9. ASSUME NEW j \in 1 .. Len(s) - 1
      PROVE  r[j] = IF j < k THEN s[j] ELSE s[j + 1]
  <2>1. CASE j < k
    BY <1>1, <1>2, <1>8, <2>1
  <2>2. CASE ~(j < k)
    <3>1. j - (k - 1) \in 1 .. (Len(s) - (k + 1) + 1) /\ k + 1 + (j - (k - 1)) - 1 = j + 1
      BY <1>1, <2>2
    <3> QED BY <1>1, <1>3, <1>8, <2>2, <3>1
  <2> QED BY <2>1, <2>2
<1> QED BY <1>8, <1>9 DEF r

\* What an iteration moves fits in the URB, in the request and in the limit.
LEMMA BytesFit ==
    ASSUME TypeOK, InBounds, NEW r \in Reqs
    PROVE  /\ Bytes(r) \in Nat
           /\ actual_length + Bytes(r) <= buffer_length
           /\ actual[r] + Bytes(r) <= length[r]
           /\ Bytes(r) <= limit
<1>1. HostLen \in Nat /\ DevLen(r) \in Nat /\ limit \in Nat /\ maxpacket \in Nat \ {0}
  BY BoundsAssumption DEF TypeOK, InBounds, HostLen, DevLen
<1>2. /\ Chunk(r) \in Nat /\ Chunk(r) <= HostLen
      /\ Chunk(r) <= DevLen(r) /\ Chunk(r) <= limit
  BY <1>1 DEF Chunk, Want, Least
<1>3. Bytes(r) \in Nat /\ Bytes(r) <= Chunk(r)
  BY <1>1, <1>2, ModBound DEF Bytes, IsShort
<1> QED BY <1>1, <1>2, <1>3 DEF TypeOK, HostLen, DevLen

\* The statuses an iteration may set.
LEMMA EndTypes ==
    ASSUME NEW r \in Reqs, NEW n
    PROVE  /\ ShortEnd(r).urb \in {"OK", "EOVERFLOW"} /\ ShortEnd(r).req \in {"OK", "EOVERFLOW"}
           /\ ShortEnd(r).urb = "EOVERFLOW" => to_host /\ DevLen(r) > HostLen
           /\ FullEnd(r, n).urb \in {"OK", "EINPROGRESS"}
           /\ FullEnd(r, n).req \in {"OK", "EINPROGRESS"}
           /\ FullEnd(r, n).urb = "OK" => actual_length + n = buffer_length
BY DEF ShortEnd, FullEnd

\* A short packet for a device that has more than the URB has room for fills the URB: the
\* bandwidth is checked before.
LEMMA OverflowFills ==
    ASSUME TypeOK, InBounds, NEW r \in Reqs, ~NoBandwidth(r), IsShort(r), DevLen(r) > HostLen
    PROVE  /\ actual_length + Bytes(r) = buffer_length
           /\ actual[r] < length[r] /\ actual[r] + Bytes(r) < length[r]
<1>1. /\ HostLen \in Nat /\ DevLen(r) \in Nat /\ limit \in Nat /\ maxpacket \in Nat \ {0}
      /\ HostLen = buffer_length - actual_length /\ DevLen(r) = length[r] - actual[r]
      /\ buffer_length \in Nat /\ actual_length \in Nat /\ length[r] \in Nat /\ actual[r] \in Nat
  BY BoundsAssumption DEF TypeOK, InBounds, HostLen, DevLen
<1>2. Want(r) = HostLen
  BY <1>1 DEF Want, Least
<1>3. Chunk(r) = HostLen
  BY <1>1, <1>2 DEF NoBandwidth, IsShort, Chunk, Least
<1>4. Bytes(r) = HostLen
  BY <1>3 DEF Bytes
<1> QED BY <1>1, <1>4

\* What After() does to the queue and the statuses, for statuses of the right kind.
LEMMA AfterType ==
    ASSUME TypeOK, pc = "loop", at <= Len(queue),
           NEW end, end.urb \in UrbStatus, end.req \in ReqStatus,
           NEW rescan \in BOOLEAN, After(queue[at], end, rescan)
    PROVE  /\ queue' \in Seq(Reqs) /\ at' \in Nat \ {0}
           /\ status' = end.urb /\ req_status' \in [Reqs -> ReqStatus]
           /\ pc' \in {"loop", "giveback", "done"}
           /\ pc' = "loop" => end.urb = "EINPROGRESS"
<1>1. queue \in Seq(Reqs) /\ at \in 1 .. Len(queue) /\ at \in Nat
  BY DEF TypeOK
<1>2. queue[at] \in Reqs
  BY <1>1
<1>3. RemoveAt(queue, at) \in Seq(Reqs)
  BY <1>1, RemoveAtElements
<1>4. req_status' \in [Reqs -> ReqStatus]
  BY <1>2 DEF After, TypeOK
<1> QED BY <1>1, <1>3, <1>4 DEF After

\* An iteration preserves the invariant.
LEMMA IterateStep ==
    ASSUME IndInv, Iterate
    PROVE  IndInv'
<1> DEFINE r == queue[at]
<1>1. TypeOK /\ InBounds /\ status = "EINPROGRESS"
  BY DEF IndInv, LoopStatus, Iterate
<1>2. pc = "loop" /\ at <= Len(queue) /\ r \in Reqs
  BY <1>1 DEF Iterate, TypeOK
<1>3. CASE Move(r)
  <2> DEFINE n == Bytes(r)
             end == IF IsShort(r) THEN ShortEnd(r) ELSE FullEnd(r, n)
             rescan == Remainder(r) \/ (~IsShort(r) /\ ZlpDue(r, n))
  <2>1. /\ n \in Nat /\ actual_length + n <= buffer_length
        /\ actual[r] + n <= length[r] /\ n <= limit
    BY <1>1, <1>2, BytesFit
  <2>2. /\ end.urb \in UrbStatus /\ end.req \in ReqStatus
        /\ end.urb = "EOVERFLOW" => to_host /\ IsShort(r) /\ DevLen(r) > HostLen
        /\ end.urb = "OK" => IsShort(r) \/ actual_length + n = buffer_length
    BY <1>2, EndTypes DEF UrbStatus, ReqStatus
  <2>11. end.urb = "EOVERFLOW" => actual_length + n = buffer_length /\ actual[r] + n < length[r]
    <3>1. ~NoBandwidth(r)
      BY <1>3 DEF Move
    <3> QED BY <1>1, <1>2, <2>2, <3>1, OverflowFills
  <2>3. After(r, end, rescan) /\ rescan \in BOOLEAN
    BY <1>3 DEF Move, Remainder
  <2>4. /\ queue' \in Seq(Reqs) /\ at' \in Nat \ {0}
        /\ status' = end.urb /\ req_status' \in [Reqs -> ReqStatus]
        /\ pc' \in {"loop", "giveback", "done"}
        /\ pc' = "loop" => end.urb = "EINPROGRESS"
    <3> HIDE DEF end, rescan
    <3> QED BY <1>1, <1>2, <2>2, <2>3, AfterType
  <2>5. /\ actual_length' = actual_length + n
        /\ actual' = [actual EXCEPT ![r] = actual[r] + n]
        /\ limit' = limit - n /\ sent' = sent + n
        /\ short' = IsShort(r) /\ failed' = FALSE
        /\ UNCHANGED <<fixed, requeued>>
    BY <1>3 DEF Move
  <2>6. actual' \in [Reqs -> Nat] /\ actual_length' \in Nat /\ limit' \in Nat /\ sent' \in Nat
    <3> HIDE DEF n
    <3> QED BY <1>1, <1>2, <2>1, <2>5 DEF TypeOK
  <2>7. short' \in BOOLEAN /\ failed' \in BOOLEAN
    <3>1. short' \in BOOLEAN
      BY <2>5 DEF IsShort
    <3>2. failed' \in BOOLEAN
      BY <2>5, Zenon
    <3> QED BY <3>1, <3>2
  <2>8. InBounds'
    <3> HIDE DEF n
    <3> QED BY <1>1, <1>2, <2>1, <2>5, <2>6 DEF TypeOK, InBounds, fixed
  <2>9. TypeOK'
    <3> HIDE DEF end, rescan, n
    <3> QED BY <1>1, <2>2, <2>4, <2>5, <2>6, <2>7 DEF TypeOK, fixed
  <2>10. UrbEnd' /\ LoopStatus'
    <3>1. same[r]
      BY <1>2, Zenon DEF Iterate
    <3> HIDE DEF end, rescan, n, r
    <3>2. LoopStatus' /\ (status' = "OK" => actual_length' = buffer_length' \/ short')
      BY <2>2, <2>4, <2>5 DEF LoopStatus, fixed
    <3>3. ASSUME status' = "EOVERFLOW"
          PROVE  /\ to_host' /\ (actual_length' = buffer_length' \/ failed')
                 /\ \E q \in Reqs : same'[q] /\ actual'[q] < length'[q]
      <4>1. to_host /\ actual_length + n = buffer_length /\ actual[r] + n < length[r]
        BY <2>2, <2>4, <2>11, <3>3
      <4>2. actual'[r] = actual[r] + n /\ same' = same /\ length' = length /\ to_host' = to_host
            /\ buffer_length' = buffer_length /\ actual_length' = actual_length + n
        BY <1>1, <1>2, <2>5 DEF TypeOK, fixed
      <4>3. same'[r] /\ actual'[r] < length'[r]
        BY <3>1, <4>1, <4>2
      <4>4. to_host' /\ actual_length' = buffer_length'
        BY <4>1, <4>2, Zenon
      <4> QED BY <1>2, <4>3, <4>4
    <3> QED BY <3>2, <3>3 DEF UrbEnd
  <2> QED BY <2>8, <2>9, <2>10 DEF IndInv
<1>4. CASE MoveFails(r)
  <2> DEFINE full == FullEnd(r, 0)
             end == IF IsShort(r) THEN ShortEnd(r) ELSE [full EXCEPT !.req = "EINVAL"]
  <2>1. /\ end.urb \in UrbStatus /\ end.req \in ReqStatus
        /\ end.urb = "EOVERFLOW" => to_host /\ DevLen(r) > HostLen
        /\ end.urb = "OK" => IsShort(r) \/ actual_length = buffer_length
    <3>1. CASE IsShort(r)
      BY <1>2, <3>1, EndTypes DEF UrbStatus, ReqStatus
    <3>2. CASE ~IsShort(r)
      <4>1. full.urb \in {"OK", "EINPROGRESS"} /\ (full.urb = "OK" => actual_length + 0 = buffer_length)
        BY <1>2, EndTypes
      <4>2. end.urb = full.urb /\ end.req = "EINVAL"
        BY <3>2 DEF FullEnd
      <4> QED BY <1>1, <3>2, <4>1, <4>2 DEF UrbStatus, ReqStatus, TypeOK
    <3> QED BY <3>1, <3>2
  <2>2. After(r, end, TRUE)
    BY <1>4 DEF MoveFails
  <2>3. /\ queue' \in Seq(Reqs) /\ at' \in Nat \ {0}
        /\ status' = end.urb /\ req_status' \in [Reqs -> ReqStatus]
        /\ pc' \in {"loop", "giveback", "done"}
        /\ pc' = "loop" => end.urb = "EINPROGRESS"
    <3> HIDE DEF end
    <3> QED BY <1>1, <1>2, <2>1, <2>2, AfterType
  <2>4. /\ short' = IsShort(r) /\ failed' = TRUE
        /\ UNCHANGED <<fixed, actual_length, actual, limit, sent, requeued>>
    BY <1>4 DEF MoveFails
  <2>5. short' \in BOOLEAN /\ failed' \in BOOLEAN
    <3>1. short' \in BOOLEAN
      BY <2>4 DEF IsShort
    <3>2. failed' \in BOOLEAN
      BY <2>4, Zenon
    <3> QED BY <3>1, <3>2
  <2>6. InBounds'
    BY <1>1, <2>4 DEF InBounds, fixed
  <2>7. TypeOK'
    <3> HIDE DEF end
    <3> QED BY <1>1, <2>1, <2>3, <2>4, <2>5 DEF TypeOK, fixed
  <2>8. UrbEnd' /\ LoopStatus'
    <3>1. same[r]
      BY <1>2, Zenon DEF Iterate
    <3> HIDE DEF end, r
    <3>2. LoopStatus' /\ (status' = "OK" => actual_length' = buffer_length' \/ short')
      BY <2>1, <2>3, <2>4 DEF LoopStatus, fixed
    <3>3. status' = "EOVERFLOW" => to_host' /\ failed'
      BY <2>1, <2>3, <2>4, Zenon DEF fixed
    <3>4. ASSUME status' = "EOVERFLOW"
          PROVE  \E q \in Reqs : same'[q] /\ actual'[q] < length'[q]
      <4>1. DevLen(r) > HostLen
        BY <2>1, <2>3, <3>4
      <4>2. actual[r] < length[r]
        BY <1>1, <1>2, <4>1 DEF TypeOK, InBounds, DevLen, HostLen
      <4>3. same' = same /\ length' = length /\ actual' = actual
        BY <2>4 DEF fixed
      <4>4. same'[r] /\ actual'[r] < length'[r]
        BY <3>1, <4>2, <4>3
      <4> QED BY <1>2, <4>4
    <3> QED BY <3>2, <3>3, <3>4, Zenon DEF UrbEnd
  <2> QED BY <2>6, <2>7, <2>8 DEF IndInv
<1> QED BY <1>3, <1>4 DEF Iterate

\* Leaving the loop, and what happens while a request is given back, preserve it too.
LEMMA OtherSteps ==
    ASSUME IndInv, Skip \/ Leave \/ GivebackReturn \/ \E i \in 1 .. Len(queue) : Dequeue(i)
    PROVE  IndInv'
<1>4. CASE Skip
  <2>1. at' \in Nat \ {0}
    BY <1>4 DEF Skip, IndInv, TypeOK
  <2> QED BY <1>4, <2>1 DEF Skip, IndInv, TypeOK, InBounds, LoopStatus, UrbEnd, fixed
<1>1. CASE Leave
  BY <1>1 DEF Leave, IndInv, TypeOK, InBounds, LoopStatus, UrbEnd, fixed
<1>2. CASE GivebackReturn
  <2>1. CASE UNCHANGED <<queue, actual, req_status, requeued>>
    BY <1>2, <2>1 DEF GivebackReturn, IndInv, TypeOK, InBounds, LoopStatus, UrbEnd, fixed
  <2>2. ASSUME NEW r \in Reqs \ Range(queue), requeued < MaxRequeue,
               queue' = Append(queue, r),
               actual' = [actual EXCEPT ![r] = 0],
               req_status' = [req_status EXCEPT ![r] = "EINPROGRESS"],
               requeued' = requeued + 1
        PROVE  IndInv'
    <3>1. TypeOK'
      BY <1>2, <2>2, BoundsAssumption
         DEF GivebackReturn, IndInv, TypeOK, fixed, UrbStatus, ReqStatus
    <3>2. InBounds'
      BY <1>2, <2>2 DEF GivebackReturn, IndInv, TypeOK, InBounds, fixed
    <3>3. LoopStatus'
      BY <1>2 DEF GivebackReturn, IndInv, LoopStatus
    <3>4. UNCHANGED <<status, actual_length, buffer_length, short, failed, to_host, same, length>>
      BY <1>2 DEF GivebackReturn, fixed
    <3>5. \A q \in Reqs : actual[q] < length[q] => actual'[q] < length'[q]
      BY <2>2, <3>4 DEF IndInv, TypeOK
    <3>6. UrbEnd'
      BY <3>4, <3>5 DEF IndInv, UrbEnd
    <3> QED BY <3>1, <3>2, <3>3, <3>6 DEF IndInv
  <2> QED BY <1>2, <2>1, <2>2 DEF GivebackReturn
<1>3. ASSUME NEW i \in 1 .. Len(queue), Dequeue(i)
      PROVE  IndInv'
  <2>1. RemoveAt(queue, i) \in Seq(Reqs)
    BY <1>3, RemoveAtElements DEF IndInv, TypeOK
  <2>2. req_status' \in [Reqs -> ReqStatus]
    BY <1>3 DEF Dequeue, IndInv, TypeOK, ReqStatus
  <2>3. TypeOK'
    BY <1>3, <2>1, <2>2 DEF Dequeue, IndInv, TypeOK, fixed
  <2> QED BY <1>3, <2>3 DEF Dequeue, IndInv, InBounds, LoopStatus, UrbEnd, fixed
<1> QED BY <1>1, <1>2, <1>3, <1>4

\* Every step keeps the invariant.
LEMMA IndInvStep == IndInv /\ [Next]_vars => IndInv'
<1> SUFFICES ASSUME IndInv, [Next]_vars PROVE IndInv'
  OBVIOUS
<1>1. CASE Next
  BY <1>1, IterateStep, OtherSteps DEF Next
<1>2. CASE UNCHANGED vars
  BY <1>2 DEF vars, fixed, IndInv, TypeOK, InBounds, LoopStatus, UrbEnd
<1> QED BY <1>1, <1>2

\* The invariant holds when transfer() is called.
LEMMA IndInvInit == Init => IndInv
<1> SUFFICES ASSUME Init PROVE IndInv
  OBVIOUS
<1>1. queue \in Seq(Reqs)
  BY BoundsAssumption DEF Init, Reqs
<1>2. TypeOK
  <2>1. to_host \in BOOLEAN /\ zero_packet \in BOOLEAN /\ zero \in [Reqs -> BOOLEAN]
    BY Zenon DEF Init
  <2>6. same \in [Reqs -> BOOLEAN] /\ failed \in BOOLEAN
    BY Zenon DEF Init
  <2>2. short \in BOOLEAN
    BY Zenon DEF Init
  <2>3. /\ maxpacket \in 1 .. MaxPkt /\ buffer_length \in Nat /\ actual_length \in Nat
        /\ at \in Nat \ {0} /\ limit \in Nat /\ sent \in Nat /\ requeued \in 0 .. MaxRequeue
    BY BoundsAssumption, SMT DEF Init
  <2>4. length \in [Reqs -> Nat] /\ actual \in [Reqs -> Nat]
    BY BoundsAssumption, SMT DEF Init
  <2>5. status \in UrbStatus /\ req_status \in [Reqs -> ReqStatus] /\ pc = "loop"
    BY SMT DEF Init, UrbStatus, ReqStatus
  <2> QED BY <1>1, <2>1, <2>2, <2>3, <2>4, <2>5, <2>6, Zenon DEF TypeOK
<1>3. InBounds /\ LoopStatus /\ UrbEnd
  BY BoundsAssumption DEF Init, InBounds, LoopStatus, UrbEnd
<1> QED BY <1>2, <1>3 DEF IndInv

\* transfer() never copies past the end of the URB's buffer or of a request's, for all
\* lengths, packet sizes, limits and numbers of requests, also when requests are removed
\* or queued while it has released the lock.
THEOREM TransferInBounds == Spec => []InBounds
<1>1. Init => IndInv
  BY IndInvInit
<1>2. IndInv /\ [Next]_vars => IndInv'
  BY IndInvStep
<1>3. IndInv => InBounds
  BY DEF IndInv
<1> QED BY <1>1, <1>2, <1>3, PTL DEF Spec

\* transfer() ends an URB without error only when it is full or after a short packet, and
\* reports an overflow only for a read, full unless its last packet could not be copied, from
\* a device that has more.
THEOREM TransferUrbEnd == Spec => []UrbEnd
<1>1. Init => IndInv
  BY IndInvInit
<1>2. IndInv /\ [Next]_vars => IndInv'
  BY IndInvStep
<1>3. IndInv => UrbEnd
  BY DEF IndInv
<1> QED BY <1>1, <1>2, <1>3, PTL DEF Spec

\* A short packet ends the URB, so that it is the last one.
ShortIsLast == status = "EINPROGRESS" => ~short

\* The statuses and lengths of the requests after an iteration.
LEMMA AfterStatus ==
    ASSUME NEW r \in Reqs, NEW end, NEW rescan, req_status \in [Reqs -> ReqStatus],
           After(r, end, rescan)
    PROVE  /\ status' = end.urb /\ req_status'[r] = end.req
           /\ \A q \in Reqs : q # r => req_status'[q] = req_status[q]
BY DEF After

LEMMA ReqEndStep ==
    ASSUME IndInv, ShortIsLast, ReqEnd, [Next]_vars
    PROVE  ShortIsLast' /\ ReqEnd'
<1>1. /\ TypeOK /\ req_status \in [Reqs -> ReqStatus]
      /\ length \in [Reqs -> Nat] /\ actual \in [Reqs -> Nat]
  BY DEF IndInv, TypeOK
<1>2. CASE Iterate
  <2> DEFINE r == queue[at]
  <2>1. r \in Reqs /\ ~short
    BY <1>1, <1>2 DEF Iterate, IndInv, LoopStatus, ShortIsLast, TypeOK
  <2>2. \A q \in Reqs : req_status[q] = "OK" => actual[q] = length[q]
    BY <2>1 DEF ReqEnd
  <2>3. ShortEnd(r).urb # "EINPROGRESS"
    BY DEF ShortEnd
  <2>4. CASE Move(r)
    <3> DEFINE n == Bytes(r)
               end == IF IsShort(r) THEN ShortEnd(r) ELSE FullEnd(r, n)
               rescan == Remainder(r) \/ (~IsShort(r) /\ ZlpDue(r, n))
    <3>1. After(r, end, rescan) /\ short' = IsShort(r)
          /\ actual' = [actual EXCEPT ![r] = actual[r] + n] /\ length' = length
      BY <2>4 DEF Move, fixed
    <3>2. ~IsShort(r) /\ end.req = "OK" => actual[r] + n = length[r]
      BY DEF FullEnd
    <3>3. IsShort(r) => end.urb # "EINPROGRESS"
      BY <2>3
    <3>4. /\ status' = end.urb /\ req_status'[r] = end.req
          /\ \A q \in Reqs : q # r => req_status'[q] = req_status[q]
      <4> HIDE DEF end, rescan, r
      <4> QED BY <1>1, <2>1, <3>1, AfterStatus
    <3>5. ShortIsLast'
      BY <3>1, <3>3, <3>4 DEF ShortIsLast
    <3>6. ReqEnd'
      <4> SUFFICES ASSUME NEW q \in Reqs, req_status'[q] = "OK", ~short'
                   PROVE  actual'[q] = length'[q]
        BY DEF ReqEnd
      <4> HIDE DEF end, rescan, n
      <4>1. CASE q = r
        BY <1>1, <2>1, <3>1, <3>2, <3>4, <4>1
      <4>2. CASE q # r
        BY <1>1, <2>1, <2>2, <3>1, <3>4, <4>2
      <4> QED BY <4>1, <4>2
    <3> QED BY <3>5, <3>6
  <2>5. CASE MoveFails(r)
    <3> DEFINE full == FullEnd(r, 0)
               end == IF IsShort(r) THEN ShortEnd(r) ELSE [full EXCEPT !.req = "EINVAL"]
    <3>1. After(r, end, TRUE) /\ short' = IsShort(r) /\ UNCHANGED <<actual, length>>
      BY <2>5 DEF MoveFails, fixed
    <3>2. ~IsShort(r) => end.req = "EINVAL"
      BY DEF FullEnd
    <3>3. IsShort(r) => end.urb # "EINPROGRESS"
      BY <2>3
    <3>4. /\ status' = end.urb /\ req_status'[r] = end.req
          /\ \A q \in Reqs : q # r => req_status'[q] = req_status[q]
      <4> HIDE DEF end, r
      <4> QED BY <1>1, <2>1, <3>1, AfterStatus
    <3> QED BY <2>1, <2>2, <3>1, <3>2, <3>3, <3>4 DEF ShortIsLast, ReqEnd
  <2> QED BY <1>2, <2>4, <2>5 DEF Iterate
<1>3. CASE Skip \/ Leave \/ UNCHANGED vars
  BY <1>3 DEF Skip, Leave, vars, fixed, ShortIsLast, ReqEnd
<1>4. CASE GivebackReturn
  BY <1>1, <1>4 DEF GivebackReturn, fixed, ShortIsLast, ReqEnd
<1>5. ASSUME NEW i \in 1 .. Len(queue), Dequeue(i)
      PROVE  ShortIsLast' /\ ReqEnd'
  <2>1. queue[i] \in Reqs
    BY <1>1, <1>5 DEF TypeOK
  <2> QED BY <1>1, <1>5, <2>1 DEF Dequeue, fixed, ShortIsLast, ReqEnd
<1> QED BY <1>2, <1>3, <1>4, <1>5 DEF Next

\* transfer() ends a request without error only when it is full or was cut by a short packet,
\* which then is the last packet of the URB.
THEOREM TransferReqEnd == Spec => []ReqEnd
<1>1. Init => IndInv /\ ShortIsLast /\ ReqEnd
  BY IndInvInit DEF Init, ShortIsLast, ReqEnd
<1>2. IndInv /\ ShortIsLast /\ ReqEnd /\ [Next]_vars => (IndInv /\ ShortIsLast /\ ReqEnd)'
  BY IndInvStep, ReqEndStep
<1> QED BY <1>1, <1>2, PTL DEF Spec

\* Lengths, limits and statuses keep their types; no limit or length falls below 0.
THEOREM TransferTypeCorrect == Spec => []TypeOK
<1>1. IndInv => TypeOK
  BY DEF IndInv
<1> QED BY <1>1, IndInvInit, IndInvStep, PTL DEF Spec
-----------------------------------------------------------------------------
(* The order of the requests.                                              *)

\* No request is in the queue twice.
QueuedOnce == \A i, j \in 1 .. Len(queue) : queue[i] = queue[j] => i = j

\* Of the requests of the URB's stream only the first has been transferred in part.
OthersFresh ==
    \A i, j \in 1 .. Len(queue) :
        i < j /\ same[queue[i]] /\ same[queue[j]] => actual[queue[j]] = 0

\* A request of the URB's stream is in front of the loop.
Behind == \E i \in 1 .. at - 1 : same[queue[i]]

\* The loop passes over such a request only when it has used up the limit and the URB has
\* room.  After giving a request back it starts at the first one again.
LimitSpent ==
    /\ pc = "loop" /\ Behind => limit = 0 /\ HostLen > 0
    /\ pc = "giveback" => at = 1

OrderInv == QueuedOnce /\ OthersFresh /\ LimitSpent

\* What is left of the queue when a request is removed keeps its order.
LEMMA RemoveKeepsOrder ==
    ASSUME TypeOK, QueuedOnce, NEW i \in 1 .. Len(queue), queue' = RemoveAt(queue, i)
    PROVE  /\ QueuedOnce'
           /\ \A j, k \in 1 .. Len(queue') : j < k =>
                 \E m, n \in 1 .. Len(queue) :
                     m < n /\ n # i /\ queue'[j] = queue[m] /\ queue'[k] = queue[n]
<1>1. /\ queue' \in Seq(Reqs) /\ Len(queue') = Len(queue) - 1 /\ Len(queue) \in Nat
      /\ \A j \in 1 .. Len(queue) - 1 : queue'[j] = IF j < i THEN queue[j] ELSE queue[j + 1]
  <2>1. queue \in Seq(Reqs) /\ Len(queue) \in Nat
    BY DEF TypeOK
  <2>2. /\ RemoveAt(queue, i) \in Seq(Reqs) /\ Len(RemoveAt(queue, i)) = Len(queue) - 1
        /\ \A j \in 1 .. Len(queue) - 1 :
               RemoveAt(queue, i)[j] = IF j < i THEN queue[j] ELSE queue[j + 1]
    BY <2>1, RemoveAtElements, Zenon
  <2> QED BY <2>1, <2>2, Zenon
<1> DEFINE old(j) == IF j < i THEN j ELSE j + 1
<1>2. \A j \in 1 .. Len(queue') :
         old(j) \in 1 .. Len(queue) /\ old(j) # i /\ queue'[j] = queue[old(j)]
  BY <1>1
<1>3. \A j, k \in 1 .. Len(queue') : old(j) = old(k) => j = k
  BY <1>1
<1>4. QueuedOnce'
  <2> SUFFICES ASSUME NEW j \in 1 .. Len(queue'), NEW k \in 1 .. Len(queue'),
                      queue'[j] = queue'[k]
               PROVE  j = k
    BY DEF QueuedOnce
  <2>1. old(j) = old(k)
    <3> HIDE DEF old
    <3> QED BY <1>2 DEF QueuedOnce
  <2> QED BY <2>1, <1>3
<1>5. \A j, k \in 1 .. Len(queue') : j < k => old(j) < old(k)
  BY <1>1
<1> HIDE DEF old
<1> QED BY <1>2, <1>4, <1>5

\* A request behind another one of the URB's stream is fresh.
LEMMA BehindFresh ==
    ASSUME TypeOK, OrderInv, at <= Len(queue), same[queue[at]], Behind
    PROVE  actual[queue[at]] = 0
<1>1. PICK i \in 1 .. at - 1 : same[queue[i]]
  BY DEF Behind
<1>2. i \in 1 .. Len(queue) /\ at \in 1 .. Len(queue) /\ i < at
  BY DEF TypeOK
<1> QED BY <1>1, <1>2 DEF OrderInv, OthersFresh

\* With the limit used up, an iteration finds an empty request: it moves nothing and ends
\* both the URB and the request.
LEMMA SpentIteration ==
    ASSUME TypeOK, InBounds, OrderInv, pc = "loop", Behind, at <= Len(queue),
           same[queue[at]], ~NoBandwidth(queue[at])
    PROVE  LET r == queue[at]
           IN  length[r] = 0 /\ actual[r] = 0 /\ IsShort(r) /\ Bytes(r) = 0
<1> DEFINE r == queue[at]
<1>1. r \in Reqs /\ actual[r] = 0
  BY BehindFresh DEF TypeOK
<1>2. /\ limit = 0 /\ HostLen \in Nat /\ HostLen > 0
      /\ length[r] \in Nat /\ actual[r] \in Nat /\ maxpacket \in Nat /\ maxpacket > 0
  BY <1>1, BoundsAssumption DEF OrderInv, LimitSpent, TypeOK, InBounds, HostLen
<1>3. DevLen(r) = length[r] /\ DevLen(r) \in Nat
  BY <1>1, <1>2 DEF DevLen
<1>4. Want(r) = 0
  BY <1>2, <1>3 DEF NoBandwidth, Chunk, Want, Least
<1>5. length[r] = 0
  BY <1>2, <1>3, <1>4 DEF Want, Least
<1>6. Chunk(r) = 0
  BY <1>2, <1>4 DEF Chunk, Least
<1> QED BY <1>1, <1>2, <1>5, <1>6 DEF IsShort, Bytes

\* An iteration that leaves its request in the queue and goes on behind it has used up the
\* limit, and the URB still has room.
LEMMA PassedOver ==
    ASSUME TypeOK, InBounds, NEW r \in Reqs, ~IsShort(r), ~Remainder(r), ~ZlpDue(r, Bytes(r)),
           FullEnd(r, Bytes(r)).urb = "EINPROGRESS", FullEnd(r, Bytes(r)).req = "EINPROGRESS"
    PROVE  limit - Bytes(r) = 0 /\ buffer_length - (actual_length + Bytes(r)) > 0
<1> DEFINE n == Bytes(r)
<1>1. HostLen \in Nat /\ DevLen(r) \in Nat /\ limit \in Nat /\ maxpacket \in Nat \ {0}
  BY BoundsAssumption DEF TypeOK, InBounds, HostLen, DevLen
<1>2. Chunk(r) \in Nat
  BY <1>1 DEF Chunk, Want, Least
<1>3. n = Chunk(r)
  BY <1>2 DEF Remainder, Bytes
<1>4. actual_length + n # buffer_length /\ actual[r] + n # length[r]
  BY DEF FullEnd, ZlpDue
<1>5. n # HostLen /\ n # DevLen(r)
  BY <1>1, <1>2, <1>3, <1>4 DEF HostLen, DevLen, TypeOK
<1>6. n = limit /\ n < HostLen
  BY <1>1, <1>3, <1>5 DEF Chunk, Want, Least
<1> QED BY <1>1, <1>6 DEF HostLen, TypeOK

\* What an iteration does to request r, the n bytes it moves and how it ends, keeps the
\* order, and finishes a request with data only in the first place.
LEMMA AfterOrder ==
    ASSUME IndInv, OrderInv, pc = "loop", at <= Len(queue), same[queue[at]], same' = same,
           NEW n \in Nat, NEW end, NEW rescan, After(queue[at], end, rescan),
           actual' = [actual EXCEPT ![queue[at]] = @ + n],
           Behind => n = 0 /\ length[queue[at]] = 0 /\ end.req # "EINPROGRESS",
           end.req = "EINPROGRESS" /\ end.urb = "EINPROGRESS" /\ ~rescan
              => limit' = 0 /\ HostLen' > 0
    PROVE  OrderInv' /\ (pc' = "giveback" /\ length[queue[at]] > 0 => ~Behind)
<1> DEFINE r == queue[at]
<1>1. /\ TypeOK /\ at \in 1 .. Len(queue) /\ r \in Reqs
      /\ queue \in Seq(Reqs) /\ Len(queue) \in Nat /\ length[r] \in Nat
  BY DEF IndInv, TypeOK
<1>2. /\ After(r, end, rescan)
      /\ actual' = [actual EXCEPT ![r] = @ + n]
      /\ Behind => n = 0 /\ length[r] = 0 /\ end.req # "EINPROGRESS"
      /\ end.req = "EINPROGRESS" /\ end.urb = "EINPROGRESS" /\ ~rescan
            => limit' = 0 /\ HostLen' > 0
      /\ same[r] /\ same' = same
  OBVIOUS
<1> HIDE DEF r
<1>3. /\ actual'[r] = actual[r] + n
      /\ \A q \in Reqs : q # r => actual'[q] = actual[q]
      /\ \A q \in Reqs : actual[q] \in Nat
  BY <1>1, <1>2 DEF TypeOK
<1>6. ASSUME NEW i \in 1 .. Len(queue), NEW j \in 1 .. Len(queue), i < j, same[queue[i]],
             same[queue[j]]
      PROVE  actual'[queue[j]] = 0
  <2>1. queue[j] \in Reqs /\ actual[queue[j]] = 0
    BY <1>1, <1>6 DEF OrderInv, OthersFresh
  <2>2. CASE queue[j] = r
    <3>1. j = at
      BY <1>1, <2>2 DEF OrderInv, QueuedOnce, r
    <3>2. Behind
      BY <1>1, <1>6, <3>1 DEF Behind
    <3>3. n = 0
      BY <1>2, <3>2, Zenon
    <3>4. actual[r] = 0 /\ actual'[r] = actual[r] + n
      BY <1>3, <2>1, <2>2, Zenon
    <3>5. actual'[r] = 0
      BY <3>3, <3>4
    <3> QED BY <2>2, <3>5, Zenon
  <2>3. CASE queue[j] # r
    BY <1>3, <2>1, <2>3
  <2> QED BY <2>2, <2>3
<1>4. CASE end.req # "EINPROGRESS"
  <2>1. queue' = RemoveAt(queue, at) /\ pc' = "giveback" /\ at' = 1
    BY <1>2, <1>4 DEF After
  <2>2. /\ QueuedOnce'
        /\ \A j, k \in 1 .. Len(queue') : j < k =>
              \E a, b \in 1 .. Len(queue) :
                  a < b /\ b # at /\ queue'[j] = queue[a] /\ queue'[k] = queue[b]
    BY <1>1, <2>1, RemoveKeepsOrder DEF OrderInv
  <2>3. OthersFresh'
    <3> SUFFICES ASSUME NEW i \in 1 .. Len(queue'), NEW j \in 1 .. Len(queue'), i < j,
                        same'[queue'[i]], same'[queue'[j]]
                 PROVE  actual'[queue'[j]] = 0
      BY DEF OthersFresh
    <3>1. \E a, b \in 1 .. Len(queue) :
             a < b /\ b # at /\ queue'[i] = queue[a] /\ queue'[j] = queue[b]
      BY <2>2
    <3> QED BY <1>2, <1>6, <3>1
  <2>4. LimitSpent'
    BY <2>1 DEF LimitSpent
  <2>5. length[r] > 0 => ~Behind
    BY <1>1, <1>2
  <2> QED BY <2>2, <2>3, <2>4, <2>5 DEF OrderInv, r
<1>5. CASE end.req = "EINPROGRESS"
  <2>1. /\ queue' = queue /\ ~Behind
        /\ pc' = "loop" => end.urb = "EINPROGRESS"
        /\ pc' # "giveback"
        /\ at' = IF rescan THEN 1 ELSE at + 1
    BY <1>1, <1>2, <1>5 DEF After
  <2>2. QueuedOnce'
    BY <2>1 DEF OrderInv, QueuedOnce
  <2>3. OthersFresh'
    BY <1>2, <1>6, <2>1 DEF OthersFresh
  <2>4. LimitSpent'
    <3>1. CASE rescan
      <4>1. at' = 1
        BY <2>1, <3>1
      <4>2. ~Behind'
        BY <4>1 DEF Behind
      <4> QED BY <2>1, <4>2 DEF LimitSpent
    <3>2. CASE ~rescan
      BY <1>2, <1>5, <2>1, <3>2 DEF LimitSpent
    <3> QED BY <3>1, <3>2
  <2> QED BY <2>1, <2>2, <2>3, <2>4 DEF OrderInv
<1> QED BY <1>4, <1>5

\* An iteration keeps the order.
LEMMA IterateOrder ==
    ASSUME IndInv, OrderInv, Iterate
    PROVE  OrderInv' /\ (pc' = "giveback" /\ length[queue[at]] > 0 => ~Behind)
<1> DEFINE r == queue[at]
<1>1. TypeOK /\ InBounds /\ pc = "loop" /\ at <= Len(queue) /\ r \in Reqs /\ same[r]
  BY DEF IndInv, Iterate, TypeOK
<1>2. ASSUME Behind, ~NoBandwidth(r)
      PROVE  length[r] = 0 /\ IsShort(r) /\ Bytes(r) = 0
  BY <1>1, <1>2, SpentIteration
<1>3. ShortEnd(r).urb # "EINPROGRESS" /\ ShortEnd(r).req # "EINPROGRESS"
  BY DEF ShortEnd
<1>4. CASE Move(r)
  <2> DEFINE n == Bytes(r)
             end == IF IsShort(r) THEN ShortEnd(r) ELSE FullEnd(r, n)
             rescan == Remainder(r) \/ (~IsShort(r) /\ ZlpDue(r, n))
  <2>1. /\ ~NoBandwidth(r) /\ After(r, end, rescan)
        /\ actual' = [actual EXCEPT ![r] = @ + n]
        /\ actual_length' = actual_length + n /\ limit' = limit - n
        /\ buffer_length' = buffer_length /\ same' = same
    BY <1>4 DEF Move, fixed
  <2>2. n \in Nat
    BY <1>1, BytesFit
  <2>3. Behind => n = 0 /\ length[r] = 0 /\ end.req # "EINPROGRESS"
    BY <1>2, <1>3, <2>1
  <2>4. ASSUME end.req = "EINPROGRESS", end.urb = "EINPROGRESS", ~rescan
        PROVE  limit' = 0 /\ HostLen' > 0
    <3>1. ~IsShort(r)
      BY <1>3, <2>4
    <3>2. /\ FullEnd(r, n).req = "EINPROGRESS" /\ FullEnd(r, n).urb = "EINPROGRESS"
          /\ ~Remainder(r) /\ ~ZlpDue(r, n)
      BY <2>4, <3>1
    <3>3. limit - n = 0 /\ buffer_length - (actual_length + n) > 0
      BY <1>1, <3>1, <3>2, PassedOver
    <3> QED BY <2>1, <3>3 DEF HostLen
  <2> HIDE DEF n, end, rescan
  <2> QED BY <1>1, <2>1, <2>2, <2>3, <2>4, AfterOrder
<1>5. CASE MoveFails(r)
  <2> DEFINE full == FullEnd(r, 0)
             end == IF IsShort(r) THEN ShortEnd(r) ELSE [full EXCEPT !.req = "EINVAL"]
  <2>1. ~NoBandwidth(r) /\ After(r, end, TRUE) /\ actual' = actual /\ same' = same
    BY <1>5 DEF MoveFails, fixed
  <2>2. end.req # "EINPROGRESS"
    BY <1>3 DEF FullEnd
  <2>3. actual' = [actual EXCEPT ![r] = @ + 0]
    BY <1>1, <2>1 DEF TypeOK
  <2>4. Behind => length[r] = 0
    BY <1>2, <2>1
  <2> HIDE DEF end
  <2>5. 0 \in Nat
    OBVIOUS
  <2> QED BY <1>1, <2>1, <2>2, <2>3, <2>4, <2>5, AfterOrder
<1> QED BY <1>4, <1>5 DEF Iterate

\* Every step keeps the order; only an iteration gives a request back from the loop.
LEMMA OrderStep ==
    ASSUME IndInv, OrderInv, [Next]_vars
    PROVE  /\ OrderInv'
           /\ pc = "loop" /\ pc' = "giveback" /\ length[queue[at]] > 0 => ~Behind
<1>1. CASE Iterate
  BY <1>1, IterateOrder
<1>2. CASE Leave \/ UNCHANGED vars
  BY <1>2 DEF Leave, vars, fixed, OrderInv, QueuedOnce, OthersFresh, LimitSpent, HostLen, Behind
<1>5. CASE Skip
  <2>1. /\ at' = at + 1 /\ pc = "loop" /\ pc' = pc /\ ~same[queue[at]] /\ at \in Nat
        /\ UNCHANGED <<queue, same, actual, limit, buffer_length, actual_length>>
    BY <1>5 DEF Skip, fixed, IndInv, TypeOK
  <2>2. Behind' => Behind
    BY <2>1 DEF Behind
  <2> QED BY <2>1, <2>2 DEF OrderInv, QueuedOnce, OthersFresh, LimitSpent, HostLen
<1>3. CASE GivebackReturn
  <2>1. pc = "giveback" /\ TypeOK /\ queue \in Seq(Reqs) /\ Len(queue) \in Nat
    BY <1>3 DEF GivebackReturn, IndInv, TypeOK
  <2>2. LimitSpent' /\ pc' # "giveback"
    <3>1. pc' # "giveback" /\ at' = 1
      BY <1>3, <2>1 DEF GivebackReturn, OrderInv, LimitSpent
    <3>2. ~Behind'
      BY <3>1 DEF Behind
    <3> QED BY <3>1, <3>2 DEF LimitSpent
  <2>3. CASE UNCHANGED <<queue, actual>>
    BY <1>3, <2>2, <2>3 DEF GivebackReturn, fixed, OrderInv, QueuedOnce, OthersFresh
  <2>4. ASSUME NEW r \in Reqs \ Range(queue), queue' = Append(queue, r),
               actual' = [actual EXCEPT ![r] = 0]
        PROVE  OrderInv'
    <3>1. /\ Len(queue') = Len(queue) + 1 /\ queue'[Len(queue) + 1] = r
          /\ \A i \in 1 .. Len(queue) :
                queue'[i] = queue[i] /\ queue[i] # r /\ queue[i] \in Reqs
      BY <2>1, <2>4 DEF Range
    <3>2. QueuedOnce'
      BY <2>1, <3>1 DEF OrderInv, QueuedOnce
    <3>3. actual'[r] = 0 /\ \A q \in Reqs : q # r => actual'[q] = actual[q]
      BY <2>1, <2>4 DEF TypeOK
    <3>4. OthersFresh'
      <4>1. same' = same
        BY <1>3 DEF GivebackReturn, fixed
      <4> QED BY <2>1, <3>1, <3>3, <4>1 DEF OrderInv, OthersFresh
    <3> QED BY <2>2, <3>2, <3>4 DEF OrderInv
  <2>5. \/ UNCHANGED <<queue, actual>>
        \/ \E r \in Reqs \ Range(queue) :
              queue' = Append(queue, r) /\ actual' = [actual EXCEPT ![r] = 0]
    BY <1>3 DEF GivebackReturn
  <2> QED BY <2>1, <2>2, <2>3, <2>4, <2>5
<1>4. ASSUME NEW i \in 1 .. Len(queue), Dequeue(i)
      PROVE  OrderInv' /\ pc # "loop"
  <2>1. /\ TypeOK /\ queue' = RemoveAt(queue, i) /\ actual' = actual
        /\ pc = "giveback" /\ pc' = pc /\ at' = at /\ same' = same
    BY <1>4 DEF Dequeue, IndInv, fixed
  <2>2. /\ QueuedOnce'
        /\ \A j, k \in 1 .. Len(queue') : j < k =>
              \E a, b \in 1 .. Len(queue) :
                  a < b /\ b # i /\ queue'[j] = queue[a] /\ queue'[k] = queue[b]
    BY <2>1, RemoveKeepsOrder DEF OrderInv
  <2>3. Len(queue) \in Nat /\ Len(queue') \in Nat
    BY <2>1, RemoveAtElements DEF TypeOK
  <2>4. OthersFresh'
    <3> SUFFICES ASSUME NEW j \in 1 .. Len(queue'), NEW k \in 1 .. Len(queue'), j < k,
                        same'[queue'[j]], same'[queue'[k]]
                 PROVE  actual'[queue'[k]] = 0
      BY DEF OthersFresh
    <3>1. \E a, b \in 1 .. Len(queue) :
             a < b /\ b # i /\ queue'[j] = queue[a] /\ queue'[k] = queue[b]
      BY <2>2
    <3> QED BY <2>1, <3>1 DEF OrderInv, OthersFresh
  <2> QED BY <2>1, <2>2, <2>4 DEF OrderInv, LimitSpent
<1> QED BY <1>1, <1>2, <1>3, <1>4, <1>5 DEF Next

\* Requests of a stream are served in their order: apart from empty ones, only the first
\* request of the URB's stream is ever finished, for all lengths, limits and streams, whatever
\* completion handlers queue or remove.
THEOREM TransferInOrder == Spec => InOrder
<1>1. Init => IndInv /\ OrderInv
  <2> SUFFICES ASSUME Init PROVE IndInv /\ OrderInv
    OBVIOUS
  <2>1. IndInv
    BY IndInvInit
  <2>2. Len(queue) = NumReq /\ \A i \in 1 .. NumReq : queue[i] = i /\ i \in Reqs
    BY BoundsAssumption DEF Init, Reqs
  <2>3. QueuedOnce /\ OthersFresh
    BY <2>2, BoundsAssumption DEF Init, QueuedOnce, OthersFresh
  <2>4. LimitSpent
    BY DEF Init, LimitSpent, Behind
  <2> QED BY <2>1, <2>3, <2>4 DEF OrderInv
<1>2. IndInv /\ OrderInv /\ [Next]_vars
         => /\ (IndInv /\ OrderInv)'
            /\ [pc = "loop" /\ pc' = "giveback" /\ length[queue[at]] > 0 =>
                  \A i \in 1 .. at - 1 : ~same[queue[i]]]_vars
  BY IndInvStep, OrderStep DEF Behind
<1> QED BY <1>1, <1>2, PTL DEF Spec, InOrder
=============================================================================
