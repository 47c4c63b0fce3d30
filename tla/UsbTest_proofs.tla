---------------------------- MODULE UsbTest_proofs ----------------------------
(* UsbTest implements UrbBatch, for any number of URBs and iterations.  The *)
(* invariant relates each test's own record of what is outstanding (its     *)
(* counter, its completion or its control point) to the URBs at the         *)
(* controller and in a handler.                                             *)
EXTENDS UsbTest, SequenceTheorems, TLAPS

Looping == {"queue", "ctrl", "ctr_fuzz", "unlink_queued"}
Single == {"simple", "sglist", "unlink1"}

\* A submission loop has an URB left to submit.
LoopBound ==
    /\ test \in Looping => sglen > 0
    /\ test \in Looping /\ tpc = "submit" => i < sglen

\* Where the test's thread can be, and no handler but those of the control
\* queues has a second part.
PcOf ==
    /\ test = "none" => tpc = "idle"
    /\ test = "queue" => tpc \in {"idle", "submit", "wait", "return"}
    /\ test = "unlink_queued" => tpc \in {"idle", "submit", "unlink", "wait", "return"}
    /\ test \in Single => tpc \in {"idle", "submit", "armed", "try", "killing", "wait", "return"}
    /\ test \in {"ctrl", "ctr_fuzz"} => tpc \in {"idle", "submit", "check", "wait", "return"}
    /\ cpc = "leave" => test \in {"ctrl", "ctr_fuzz"}

\* test_queue() counts exactly.
QueueCount ==
    test = "queue" =>
        /\ tpc \in {"submit", "wait"} => ctx.pending = Busy
        /\ tpc = "submit" => ~ctx.done /\ (i = 0 => Busy = 0)
        /\ ctx.done => Busy = 0

\* unlink_queued() counts one more until it has unlinked.
UnlinkQueuedCount ==
    test = "unlink_queued" =>
        /\ tpc \in {"submit", "unlink"} => ctx.pending = Busy + 1 /\ ~ctx.done
        /\ tpc = "submit" /\ i = 0 => Busy = 0
        /\ tpc = "wait" => ctx.pending = Busy
        /\ ctx.done => Busy = 0

\* With one URB, the completion says that it is back; usb_sg_wait() alone completes
\* a request that it has not submitted.
SingleBusy ==
    test \in Single =>
        /\ Busy <= 1
        /\ ctx.done \/ tpc \in {"submit", "armed"} => Busy = 0
        /\ tpc = "armed" => ~ctx.done

\* The promise itself.
Returned == test \in Waiting \cup {"none"} /\ tpc \in {"idle", "return"} => Busy = 0

IInv ==
    /\ TypeOK /\ LoopBound /\ PcOf /\ QueueCount /\ UnlinkQueuedCount /\ SingleBusy /\ Returned

\* What the proofs need of the constants.
LEMMA Sizes ==
    /\ MaxQueue \in Nat /\ MaxQueue > 0
    /\ MaxIter \in Nat /\ UMax \in Nat \ {0} /\ 1 \in Urbs
BY SizesAssumption DEF Urbs

\* Removing one element of a sequence: what was behind it moves up by one.
LEMMA RemoveAtSeq ==
    ASSUME NEW s \in Seq(Urbs), NEW k \in 1 .. Len(s)
    PROVE  /\ RemoveAt(s, k) \in Seq(Urbs) /\ Len(RemoveAt(s, k)) = Len(s) - 1
           /\ \A j \in 1 .. Len(s) - 1 : RemoveAt(s, k)[j] = s[IF j < k THEN j ELSE j + 1]
<1> DEFINE before == SubSeq(s, 1, k - 1)
           after == SubSeq(s, k + 1, Len(s))
           r == RemoveAt(s, k)
<1>1. k \in Int /\ Len(s) \in Nat /\ 1 <= k /\ k <= Len(s) /\ \A j \in 1 .. Len(s) : s[j] \in Urbs
  OBVIOUS
<1>2. /\ before \in Seq(Urbs) /\ Len(before) = IF 1 <= k - 1 THEN k - 1 - 1 + 1 ELSE 0
      /\ \A j \in 1 .. (k - 1 - 1 + 1) : before[j] = s[1 + j - 1]
  BY <1>1, SubSeqProperties
<1>3. /\ after \in Seq(Urbs) /\ Len(after) = IF k + 1 <= Len(s) THEN Len(s) - (k + 1) + 1 ELSE 0
      /\ \A j \in 1 .. (Len(s) - (k + 1) + 1) : after[j] = s[k + 1 + j - 1]
  BY <1>1, SubSeqProperties
<1>4. r = before \o after
  BY DEF RemoveAt
<1> HIDE DEF before, after, r
<1>5. Len(before) = k - 1 /\ Len(after) = Len(s) - k
  BY <1>1, <1>2, <1>3
<1>6. /\ before \o after \in Seq(Urbs)
      /\ Len(before \o after) = Len(before) + Len(after)
      /\ \A j \in 1 .. Len(before) + Len(after) : (before \o after)[j] =
             IF j <= Len(before) THEN before[j] ELSE after[j - Len(before)]
  BY <1>2, <1>3, ConcatProperties
<1>7. /\ r \in Seq(Urbs) /\ Len(r) = Len(before) + Len(after)
      /\ \A j \in 1 .. Len(before) + Len(after) : r[j] =
             IF j <= Len(before) THEN before[j] ELSE after[j - Len(before)]
  BY <1>4, <1>6, Zenon
<1>8. /\ r \in Seq(Urbs) /\ Len(r) = Len(s) - 1
      /\ \A j \in 1 .. Len(s) - 1 : r[j] = IF j <= k - 1 THEN before[j] ELSE after[j - (k - 1)]
  BY <1>1, <1>5, <1>7
<1>9. ASSUME NEW j \in 1 .. Len(s) - 1
      PROVE  r[j] = s[IF j < k THEN j ELSE j + 1]
  <2>1. CASE j < k
    BY <1>1, <1>2, <1>8, <2>1
  <2>2. CASE ~(j < k)
    <3>1. j - (k - 1) \in 1 .. (Len(s) - (k + 1) + 1) /\ k + 1 + (j - (k - 1)) - 1 = j + 1
      BY <1>1, <2>2
    <3> QED BY <1>1, <1>3, <1>8, <2>2, <3>1
  <2> QED BY <2>1, <2>2
<1> QED BY <1>8, <1>9 DEF r

\* What a submission does to the queue.
LEMMA SubmitFlight ==
    ASSUME TypeOK, NEW u \in Urbs, SubmitOk(u)
    PROVE  flight' \in Seq(Urbs) /\ Len(flight') = Len(flight) + 1
BY DEF TypeOK, TypeHcd, SubmitOk

\* A giveback takes one URB out of the queue, where it is first.
LEMMA GivebackFlight ==
    ASSUME TypeOK, NEW u \in Urbs, HcdGiveback(u)
    PROVE  /\ flight \in Seq(Urbs) /\ Position(u) \in 1 .. Len(flight) /\ flight[Position(u)] = u
           /\ flight' \in Seq(Urbs) /\ Len(flight') = Len(flight) - 1
           /\ \A j \in 1 .. Len(flight) - 1 :
                flight'[j] = flight[IF j < Position(u) THEN j ELSE j + 1]
<1>1. flight \in Seq(Urbs) /\ flight # <<>> /\ flight' = RemoveAt(flight, Position(u))
  BY DEF TypeOK, TypeHcd, HcdGiveback
<1>2. \E k \in DOMAIN flight : flight[k] = u
  <2>1. Len(flight) > 0 /\ Head(flight) = flight[1] /\ 1 \in DOMAIN flight
    BY <1>1
  <2>2. u \in Range(flight) \/ u = Head(flight)
    BY DEF HcdGiveback
  <2> QED BY <2>1, <2>2 DEF Range
<1>3. Position(u) \in 1 .. Len(flight) /\ flight[Position(u)] = u
  BY <1>1, <1>2 DEF Position
<1> QED BY <1>1, <1>3, RemoveAtSeq

\* The URBs that can be cancelled.
LEMMA RangeUrbs ==
    ASSUME TypeOK
    PROVE  Range(flight) \subseteq Urbs
BY DEF TypeOK, TypeHcd, Range

\* complete() changes nothing but the completion.
LEMMA CompleteIfType ==
    ASSUME NEW c \in Context, NEW last \in BOOLEAN
    PROVE  /\ CompleteIf(c, last) \in Context
           /\ CompleteIf(c, last).pending = c.pending
           /\ CompleteIf(c, last).done <=> last \/ c.done
BY DEF Context, CompleteIf

\* A fresh context.
LEMMA NewContextType == NewContext \in Context /\ ~NewContext.done /\ NewContext.pending = 0
BY DEF NewContext, Context, Status

\* The context that a test starts with.
LEMMA FirstContextType ==
    ASSUME NEW kind, NEW depth \in Nat, NEW iters \in Nat
    PROVE  LET c == FirstContext(kind, depth, iters)
           IN  /\ c \in Context /\ ~c.done
               /\ c.pending = IF kind = "unlink_queued" THEN 1 ELSE 0
<1>2. depth * iters \in Int
  OBVIOUS
<1>3. CASE kind \in {"ctrl", "queue"}
  <2>1. FirstContext(kind, depth, iters) = [NewContext EXCEPT !.count = depth * iters]
    BY <1>3 DEF FirstContext
  <2> QED BY NewContextType, <1>2, <1>3, <2>1 DEF Context
<1>4. CASE kind = "ctr_fuzz"
  <2>1. FirstContext(kind, depth, iters) = [NewContext EXCEPT !.count = iters]
    BY <1>4 DEF FirstContext
  <2> QED BY NewContextType, <1>4, <2>1 DEF Context
<1>5. CASE kind = "unlink_queued"
  <2>1. FirstContext(kind, depth, iters) = [NewContext EXCEPT !.pending = 1]
    BY <1>5 DEF FirstContext
  <2> QED BY NewContextType, <1>5, <2>1 DEF Context
<1>6. CASE kind \notin {"ctrl", "queue", "ctr_fuzz", "unlink_queued"}
  <2>1. FirstContext(kind, depth, iters) = NewContext
    BY <1>6 DEF FirstContext
  <2> QED BY NewContextType, <1>6, <2>1
<1> QED BY <1>3, <1>4, <1>5, <1>6

\* The remainder of a division.
LEMMA ModInt == ASSUME NEW a \in Int, NEW b \in Nat \ {0} PROVE a % b \in Int
BY SMT

\* A step of the batch, or none.
BatchStep == [Batch!Next]_(Batch!vars)

\* What the steps use of the invariant.
LEMMA FromInvariant ==
    ASSUME IInv
    PROVE  /\ TypeTest /\ TypeHcd /\ ctx \in Context
           /\ ctx.count \in Int /\ ctx.pending \in Int /\ ctx.done \in BOOLEAN
           /\ ctx.status \in Status /\ ctx.errors \in BOOLEAN
           /\ UMax \in Nat \ {0} /\ 1 \in Urbs /\ Range(flight) \subseteq Urbs
           /\ test \in Looping /\ tpc = "submit" => i + 1 \in Urbs /\ i + 1 \in 0 .. MaxQueue
<1>1. test \in Looping /\ tpc = "submit" => i + 1 \in Urbs /\ i + 1 \in 0 .. MaxQueue
  BY Sizes DEF IInv, TypeOK, TypeTest, LoopBound, Urbs
<1>2. /\ ctx.count \in Int /\ ctx.pending \in Int /\ ctx.done \in BOOLEAN
      /\ ctx.status \in Status /\ ctx.errors \in BOOLEAN
  BY DEF IInv, TypeOK, Context
<1> QED BY <1>1, <1>2, Sizes, RangeUrbs DEF IInv, TypeOK

\* The steps of test_queue().
LEMMA QueueSteps ==
    ASSUME IInv, QueueSubmit \/ QueueReturn \/ complicated_callback
    PROVE  IInv' /\ BatchStep
<1> USE FromInvariant
<1>1. CASE QueueSubmit
  <2>1. /\ i + 1 \in Urbs
        /\ (SubmitOk(i + 1) => flight' \in Seq(Urbs) /\ Len(flight') = Len(flight) + 1)
    BY <1>1, SubmitFlight DEF IInv, TypeHcd, Looping, QueueSubmit
  <2>2. TypeTest'
    BY <1>1, <2>1, Sizes DEF TypeTest, Looping, Status, QueueSubmit, device, params, hcd,
       history, Leave, LoopOr
  <2>3. /\ ctx' \in Context /\ ctx'.done = ctx.done
        /\ \/ SubmitOk(i + 1) /\ i' = i + 1 /\ tpc' \in {"submit", "wait"} /\ ctx'.pending = ctx.pending + 1
           \/ i = 0 /\ tpc' = "return" /\ flight' = flight
           \/ i > 0 /\ tpc' = "wait" /\ flight' = flight /\ ctx'.pending = ctx.pending
    <3> DEFINE c == [ctx EXCEPT !.pending = ctx.pending + 1]
               d == [ctx EXCEPT !.submit_error = TRUE, !.status = "error"]
    <3>1. c \in Context /\ c.done = ctx.done /\ c.pending = ctx.pending + 1
      BY DEF Context
    <3>2. d \in Context /\ d.done = ctx.done /\ d.pending = ctx.pending
      BY DEF Context, Status
    <3>3. \/ ctx' = c /\ SubmitOk(i + 1) /\ i' = i + 1 /\ tpc' \in {"submit", "wait"}
          \/ ctx' = c /\ i = 0 /\ tpc' = "return" /\ flight' = flight
          \/ ctx' = d /\ i > 0 /\ tpc' = "wait" /\ flight' = flight
      BY <1>1 DEF QueueSubmit, Leave, LoopOr
    <3> HIDE DEF c, d
    <3> QED BY <3>1, <3>2, <3>3
  <2>4. TypeHcd'
    BY <1>1, <2>1, <2>3 DEF TypeHcd, Status, QueueSubmit, device, params, hcd, history, Leave,
       LoopOr
  <2>5. (LoopBound /\ PcOf)'
    BY <1>1, <2>1, <2>3 DEF IInv, TypeTest, LoopBound, PcOf, Looping, Single, QueueSubmit,
       device, params, hcd, history, Leave, LoopOr
  <2>6. (QueueCount /\ UnlinkQueuedCount /\ SingleBusy /\ Returned)'
    <3>1. test = "queue" /\ test' = test /\ tpc = "submit" /\ i \in Nat /\ cpc' = cpc
          /\ ctx.pending = Busy /\ ~ctx.done /\ (i = 0 => Busy = 0)
      BY <1>1 DEF QueueSubmit, params, IInv, QueueCount, TypeTest
    <3>2. CASE SubmitOk(i + 1)
      BY <1>1, <2>1, <2>3, <3>1, <3>2 DEF TypeHcd, Busy, SubmitOk, QueueSubmit, QueueCount,
         UnlinkQueuedCount, SingleBusy, Returned, Single
    <3>3. CASE flight' = flight
      BY <2>1, <2>3, <3>1, <3>3 DEF QueueCount, UnlinkQueuedCount, SingleBusy, Returned, Single,
         Busy
    <3> QED BY <2>3, <3>2, <3>3
  <2>7. BatchStep
    BY <1>1, <2>1, <2>3 DEF BatchStep, Batch!Next, Batch!vars, Batch!Submit, BatchPhase,
       BatchBusy, IInv, TypeTest, TypeHcd, QueueCount, UnlinkQueuedCount, SingleBusy, Returned,
       PcOf, Waiting, Busy, Single, Looping, QueueSubmit, device, params, hcd, history, Leave,
       LoopOr
  <2> QED BY <2>2, <2>3, <2>4, <2>5, <2>6, <2>7 DEF IInv, TypeOK
<1>2. CASE QueueReturn
  <2>2. TypeTest'
    BY <1>2, Sizes DEF TypeTest, Looping, Status, QueueReturn, device, params, hcd, history,
       Leave
  <2>3. ctx' \in Context
    BY <1>2 DEF QueueReturn, device, params, hcd, history, Leave
  <2>4. TypeHcd'
    BY <1>2 DEF TypeHcd, Status, QueueReturn, device, params, hcd, history, Leave
  <2>5. (LoopBound /\ PcOf)'
    BY <1>2 DEF IInv, TypeTest, LoopBound, PcOf, Looping, Single, QueueReturn, device, params,
       hcd, history, Leave
  <2>6. (QueueCount /\ UnlinkQueuedCount /\ SingleBusy /\ Returned)'
    BY <1>2 DEF IInv, Context, TypeHcd, QueueCount, UnlinkQueuedCount, SingleBusy, Returned,
       PcOf, Waiting, Busy, Single, Looping, QueueReturn, device, params, hcd, history, Leave
  <2>7. BatchStep
    BY <1>2 DEF BatchStep, Batch!vars, BatchPhase, BatchBusy, IInv, TypeTest, TypeHcd,
       QueueCount, UnlinkQueuedCount, SingleBusy, Returned, PcOf, Waiting, Busy, Single,
       Looping, QueueReturn, device, params, hcd, history, Leave
  <2> QED BY <2>2, <2>3, <2>4, <2>5, <2>6, <2>7 DEF IInv, TypeOK
<1>3. CASE complicated_callback
  <2>1. cur \in Urbs /\ (SubmitOk(cur) => flight' \in Seq(Urbs) /\ Len(flight') = Len(flight) + 1)
    BY <1>3, SubmitFlight DEF IInv, TypeHcd, Looping, complicated_callback, InHandler
  <2>2. TypeTest'
    BY <1>3, <2>1, Sizes DEF TypeTest, Looping, Status, complicated_callback, device, params,
       hcd, history, InHandler, Wanted
  <2>3. /\ ctx' \in Context
        /\ \/ ctx'.pending = ctx.pending /\ ctx'.done = ctx.done /\ SubmitOk(cur)
           \/ ctx'.pending = ctx.pending - 1 /\ (ctx'.done <=> ctx.pending = 1 \/ ctx.done) /\ flight' = flight
        /\ lost' \in BOOLEAN
    <3> DEFINE errors == IF cst # "ok" THEN TRUE ELSE ctx.errors
               c == [ctx EXCEPT !.count = (ctx.count - 1) % UMax, !.errors = errors]
               d == [c EXCEPT !.submit_error = TRUE]
               Drop(x) == CompleteIf([x EXCEPT !.pending = x.pending - 1], x.pending = 1)
    <3>1. errors \in BOOLEAN /\ (ctx.count - 1) % UMax \in Int
      <4>1. errors \in BOOLEAN
        BY Zenon
      <4>2. (ctx.count - 1) % UMax \in Int
        BY ModInt
      <4> QED BY <4>1, <4>2, Zenon
    <3>2. c \in Context /\ c.pending = ctx.pending /\ c.done = ctx.done
      BY <3>1 DEF Context
    <3>3. d \in Context /\ d.pending = ctx.pending /\ d.done = ctx.done
      BY <3>2 DEF Context
    <3>4. \/ ctx' = c /\ SubmitOk(cur) /\ lost' = lost
          \/ ctx' = Drop(d) /\ lost' = TRUE /\ flight' = flight
          \/ ctx' = Drop(c) /\ lost' = lost /\ flight' = flight
      BY <1>3 DEF complicated_callback
    <3> HIDE DEF c, d
    <3>5. ASSUME NEW x \in Context
          PROVE  /\ Drop(x) \in Context /\ Drop(x).pending = x.pending - 1
                 /\ Drop(x).done <=> x.pending = 1 \/ x.done
      <4>1. /\ [x EXCEPT !.pending = x.pending - 1] \in Context
            /\ [x EXCEPT !.pending = x.pending - 1].pending = x.pending - 1
            /\ [x EXCEPT !.pending = x.pending - 1].done = x.done
        BY DEF Context
      <4> QED BY <4>1, CompleteIfType
    <3> HIDE DEF Drop
    <3> QED BY <3>2, <3>3, <3>4, <3>5 DEF TypeHcd
  <2>4. TypeHcd'
    BY <1>3, <2>1, <2>3 DEF TypeHcd, Status, complicated_callback, device, params, hcd, history,
       InHandler, Wanted
  <2>5. (LoopBound /\ PcOf)'
    BY <1>3, <2>1, <2>3 DEF IInv, TypeTest, LoopBound, PcOf, Looping, Single,
       complicated_callback, device, params, hcd, history, InHandler, Wanted
  <2>6. (QueueCount /\ UnlinkQueuedCount /\ SingleBusy /\ Returned)'
    BY <1>3, <2>1, <2>3 DEF IInv, Context, TypeHcd, LockFree, CompleteIf, QueueCount,
       UnlinkQueuedCount, SingleBusy, Returned, PcOf, Waiting, Busy, Single, Looping,
       complicated_callback, device, params, hcd, history, InHandler, Wanted
  <2>7. BatchStep
    BY <1>3, <2>1, <2>3 DEF BatchStep, Batch!Next, Batch!vars, Batch!Finish, BatchPhase,
       BatchBusy, IInv, TypeTest, TypeHcd, QueueCount, UnlinkQueuedCount, SingleBusy, Returned,
       PcOf, Waiting, Busy, Single, Looping, complicated_callback, device, params, hcd, history,
       InHandler, Wanted
  <2> QED BY <2>2, <2>3, <2>4, <2>5, <2>6, <2>7 DEF IInv, TypeOK
<1> QED BY <1>1, <1>2, <1>3

\* The steps of the control queues, which make no promise.
LEMMA CtrlSteps ==
    ASSUME IInv,
           \/ CtrlSubmit \/ CtrlCheck \/ CtrlReturn \/ ctrl_complete \/ CtrlResubmit
           \/ empty_complete \/ EmptyCompleteSignal
    PROVE  IInv' /\ BatchStep
<1> USE FromInvariant
<1>1. CASE CtrlSubmit
  <2>1. /\ i + 1 \in Urbs
        /\ (SubmitOk(i + 1) => flight' \in Seq(Urbs) /\ Len(flight') = Len(flight) + 1)
    BY <1>1, SubmitFlight DEF IInv, TypeHcd, Looping, CtrlSubmit
  <2>2. TypeTest'
    BY <1>1, <2>1, Sizes DEF TypeTest, Looping, Status, CtrlSubmit, device, params, hcd,
       history, LoopOr
  <2>3. ctx' \in Context
    <3>1. [ctx EXCEPT !.pending = ctx.pending + 1, !.status = "ok"] \in Context
      <4> DEFINE c == [ctx EXCEPT !.pending = ctx.pending + 1]
      <4>1. c \in Context
        BY DEF Context
      <4>2. [c EXCEPT !.status = "ok"] \in Context
        BY <4>1 DEF Context, Status
      <4> QED BY <4>2
    <3>2. [ctx EXCEPT !.count = ctx.pending, !.status = "error"] \in Context
      BY DEF Context, Status
    <3> QED BY <1>1, <3>1, <3>2 DEF CtrlSubmit
  <2>4. TypeHcd'
    BY <1>1, <2>1, <2>3 DEF TypeHcd, Status, CtrlSubmit, device, params, hcd, history, LoopOr
  <2>5. (LoopBound /\ PcOf)'
    BY <1>1, <2>1, <2>3 DEF IInv, TypeTest, LoopBound, PcOf, Looping, Single, CtrlSubmit,
       device, params, hcd, history, LoopOr
  <2>6. (QueueCount /\ UnlinkQueuedCount /\ SingleBusy /\ Returned)'
    BY <1>1, <2>1, <2>3 DEF IInv, Context, TypeHcd, QueueCount, UnlinkQueuedCount, SingleBusy,
       Returned, PcOf, Waiting, Busy, Single, Looping, CtrlSubmit, device, params, hcd, history,
       LoopOr
  <2>7. BatchStep
    BY <1>1, <2>1, <2>3 DEF BatchStep, Batch!Next, Batch!vars, Batch!Submit, BatchPhase,
       BatchBusy, IInv, TypeTest, TypeHcd, QueueCount, UnlinkQueuedCount, SingleBusy, Returned,
       PcOf, Waiting, Busy, Single, Looping, CtrlSubmit, device, params, hcd, history, LoopOr
  <2> QED BY <2>2, <2>3, <2>4, <2>5, <2>6, <2>7 DEF IInv, TypeOK
<1>2. CASE CtrlCheck
  <2>2. TypeTest'
    BY <1>2, Sizes DEF TypeTest, Looping, Status, CtrlCheck, device, params, hcd, history, Leave
  <2>3. ctx' \in Context
    BY <1>2 DEF CtrlCheck, device, params, hcd, history, Leave
  <2>4. TypeHcd'
    BY <1>2 DEF TypeHcd, Status, CtrlCheck, device, params, hcd, history, Leave
  <2>5. (LoopBound /\ PcOf)'
    BY <1>2 DEF IInv, TypeTest, LoopBound, PcOf, Looping, Single, CtrlCheck, device, params,
       hcd, history, Leave
  <2>6. (QueueCount /\ UnlinkQueuedCount /\ SingleBusy /\ Returned)'
    BY <1>2 DEF IInv, Context, TypeHcd, QueueCount, UnlinkQueuedCount, SingleBusy, Returned,
       PcOf, Waiting, Busy, Single, Looping, CtrlCheck, device, params, hcd, history, Leave
  <2>7. BatchStep
    BY <1>2 DEF BatchStep, Batch!vars, BatchPhase, BatchBusy, IInv, TypeTest, TypeHcd,
       QueueCount, UnlinkQueuedCount, SingleBusy, Returned, PcOf, Waiting, Busy, Single,
       Looping, CtrlCheck, device, params, hcd, history, Leave
  <2> QED BY <2>2, <2>3, <2>4, <2>5, <2>6, <2>7 DEF IInv, TypeOK
<1>3. CASE CtrlReturn
  <2>2. TypeTest'
    BY <1>3, Sizes DEF TypeTest, Looping, Status, CtrlReturn, device, params, hcd, history,
       Leave
  <2>3. ctx' \in Context
    BY <1>3 DEF CtrlReturn, device, params, hcd, history, Leave
  <2>4. TypeHcd'
    BY <1>3 DEF TypeHcd, Status, CtrlReturn, device, params, hcd, history, Leave
  <2>5. (LoopBound /\ PcOf)'
    BY <1>3 DEF IInv, TypeTest, LoopBound, PcOf, Looping, Single, CtrlReturn, device, params,
       hcd, history, Leave
  <2>6. (QueueCount /\ UnlinkQueuedCount /\ SingleBusy /\ Returned)'
    BY <1>3 DEF IInv, Context, TypeHcd, QueueCount, UnlinkQueuedCount, SingleBusy, Returned,
       PcOf, Waiting, Busy, Single, Looping, CtrlReturn, device, params, hcd, history, Leave
  <2>7. BatchStep
    BY <1>3 DEF BatchStep, Batch!vars, BatchPhase, BatchBusy, IInv, TypeTest, TypeHcd,
       QueueCount, UnlinkQueuedCount, SingleBusy, Returned, PcOf, Waiting, Busy, Single,
       Looping, CtrlReturn, device, params, hcd, history, Leave
  <2> QED BY <2>2, <2>3, <2>4, <2>5, <2>6, <2>7 DEF IInv, TypeOK
<1>4. CASE ctrl_complete
  <2>2. TypeTest'
    BY <1>4, Sizes DEF TypeTest, Looping, Status, ctrl_complete, device, params, hcd, history,
       InHandler, Cancel, CtrlStatus, Allowed, ToCancel
  <2>3. ctx' \in Context /\ cst' \in Status
    <3> DEFINE number == (cur - 1) % NumSubcases
               status == IF ctx.status = "ok" THEN CtrlStatus(number) ELSE ctx.status
    <3>1. number \in Int /\ CtrlStatus(number) \in Status /\ status \in Status
      <4>1. cur - 1 \in Int
        BY Sizes DEF TypeHcd, Urbs
      <4>2. number \in Int
        BY <4>1, ModInt, SizesAssumption
      <4> HIDE DEF number
      <4>3. CtrlStatus(number) \in Status
        BY DEF TypeHcd, CtrlStatus, Status
      <4> QED BY <4>2, <4>3
    <3>2. /\ ctx' = [ctx EXCEPT !.count = ctx.count - 1, !.pending = ctx.pending - 1,
                               !.last = number, !.status = status]
          /\ cst' = CtrlStatus(number)
      BY <1>4 DEF ctrl_complete
    <3> HIDE DEF number, status
    <3>3. [ctx EXCEPT !.count = ctx.count - 1, !.pending = ctx.pending - 1,
                     !.last = number, !.status = status] \in Context
      <4> DEFINE c == [ctx EXCEPT !.count = ctx.count - 1]
                 d == [c EXCEPT !.pending = ctx.pending - 1]
                 e == [d EXCEPT !.last = number]
      <4>1. c \in Context
        BY DEF Context
      <4> HIDE DEF c
      <4>2. d \in Context
        BY <4>1 DEF Context
      <4> HIDE DEF d
      <4>3. e \in Context
        BY <4>2, <3>1 DEF Context
      <4>4. [e EXCEPT !.status = status] \in Context
        BY <4>3, <3>1 DEF Context
      <4> QED BY <4>4 DEF c, d
    <3> QED BY <3>1, <3>2, <3>3
  <2>4. TypeHcd'
    BY <1>4, <2>3 DEF TypeHcd, Status, ctrl_complete, device, params, hcd, history, InHandler,
       Cancel, CtrlStatus, Allowed, ToCancel
  <2>5. (LoopBound /\ PcOf)'
    BY <1>4, <2>3 DEF IInv, TypeTest, LoopBound, PcOf, Looping, Single, ctrl_complete, device,
       params, hcd, history, InHandler, Cancel, CtrlStatus, Allowed, ToCancel
  <2>6. (QueueCount /\ UnlinkQueuedCount /\ SingleBusy /\ Returned)'
    BY <1>4, <2>3 DEF IInv, Context, TypeHcd, LockFree, QueueCount, UnlinkQueuedCount,
       SingleBusy, Returned, PcOf, Waiting, Busy, Single, Looping, ctrl_complete, device,
       params, hcd, history, InHandler, Cancel, CtrlStatus, Allowed, ToCancel
  <2>7. BatchStep
    BY <1>4, <2>3 DEF BatchStep, Batch!vars, BatchPhase, BatchBusy, IInv, TypeTest, TypeHcd,
       QueueCount, UnlinkQueuedCount, SingleBusy, Returned, PcOf, Waiting, Busy, Single,
       Looping, ctrl_complete, device, params, hcd, history, InHandler, Cancel, CtrlStatus,
       Allowed, ToCancel
  <2> QED BY <2>2, <2>3, <2>4, <2>5, <2>6, <2>7 DEF IInv, TypeOK
<1>5. CASE CtrlResubmit
  <2>1. cur \in Urbs /\ (SubmitOk(cur) => flight' \in Seq(Urbs) /\ Len(flight') = Len(flight) + 1)
    BY <1>5, SubmitFlight DEF IInv, TypeHcd, Looping, CtrlResubmit, InHandler
  <2>2. TypeTest'
    BY <1>5, <2>1, Sizes DEF TypeTest, Looping, Status, CtrlResubmit, device, params, hcd,
       history, InHandler
  <2>3. ctx' \in Context
    <3>1. PICK p \in Int : ctx' = CompleteIf([ctx EXCEPT !.pending = p], p = 0)
      BY <1>5 DEF CtrlResubmit
    <3>2. [ctx EXCEPT !.pending = p] \in Context
      BY DEF Context
    <3> QED BY <3>1, <3>2, CompleteIfType
  <2>4. TypeHcd'
    BY <1>5, <2>1, <2>3 DEF TypeHcd, Status, CtrlResubmit, device, params, hcd, history,
       InHandler
  <2>5. (LoopBound /\ PcOf)'
    BY <1>5, <2>1, <2>3 DEF IInv, TypeTest, LoopBound, PcOf, Looping, Single, CtrlResubmit,
       device, params, hcd, history, InHandler
  <2>6. (QueueCount /\ UnlinkQueuedCount /\ SingleBusy /\ Returned)'
    BY <1>5, <2>1, <2>3 DEF IInv, Context, TypeHcd, CompleteIf, QueueCount, UnlinkQueuedCount,
       SingleBusy, Returned, PcOf, Waiting, Busy, Single, Looping, CtrlResubmit, device, params,
       hcd, history, InHandler
  <2>7. BatchStep
    BY <1>5, <2>1, <2>3 DEF BatchStep, Batch!vars, BatchPhase, BatchBusy, IInv, TypeTest,
       TypeHcd, QueueCount, UnlinkQueuedCount, SingleBusy, Returned, PcOf, Waiting, Busy,
       Single, Looping, CtrlResubmit, device, params, hcd, history, InHandler
  <2> QED BY <2>2, <2>3, <2>4, <2>5, <2>6, <2>7 DEF IInv, TypeOK
<1>6. CASE empty_complete
  <2>2. TypeTest'
    BY <1>6, Sizes DEF TypeTest, Looping, Status, empty_complete, device, params, hcd, history,
       InHandler
  <2>3. ctx' \in Context
    <3>1. [ctx EXCEPT !.count = (ctx.count - 1) % UMax, !.pending = ctx.pending - 1] \in Context
      <4> DEFINE c == [ctx EXCEPT !.count = (ctx.count - 1) % UMax]
      <4>1. c \in Context
        BY DEF Context
      <4>2. ctx.pending - 1 \in Int
        OBVIOUS
      <4> HIDE DEF c
      <4>3. [c EXCEPT !.pending = ctx.pending - 1] \in Context
        BY <4>1, <4>2 DEF Context
      <4> QED BY <4>3 DEF c
    <3> QED BY <1>6, <3>1 DEF empty_complete
  <2>4. TypeHcd'
    BY <1>6, <2>3 DEF TypeHcd, Status, empty_complete, device, params, hcd, history, InHandler
  <2>5. (LoopBound /\ PcOf)'
    BY <1>6, <2>3 DEF IInv, TypeTest, LoopBound, PcOf, Looping, Single, empty_complete, device,
       params, hcd, history, InHandler
  <2>6. (QueueCount /\ UnlinkQueuedCount /\ SingleBusy /\ Returned)'
    BY <1>6, <2>3 DEF IInv, Context, TypeHcd, LockFree, QueueCount, UnlinkQueuedCount,
       SingleBusy, Returned, PcOf, Waiting, Busy, Single, Looping, empty_complete, device,
       params, hcd, history, InHandler
  <2>7. BatchStep
    BY <1>6, <2>3 DEF BatchStep, Batch!vars, BatchPhase, BatchBusy, IInv, TypeTest, TypeHcd,
       QueueCount, UnlinkQueuedCount, SingleBusy, Returned, PcOf, Waiting, Busy, Single,
       Looping, empty_complete, device, params, hcd, history, InHandler
  <2> QED BY <2>2, <2>3, <2>4, <2>5, <2>6, <2>7 DEF IInv, TypeOK
<1>7. CASE EmptyCompleteSignal
  <2>2. TypeTest'
    BY <1>7, Sizes DEF TypeTest, Looping, Status, EmptyCompleteSignal, device, params, hcd,
       history, InHandler
  <2>3. ctx' \in Context
    BY <1>7, CompleteIfType DEF EmptyCompleteSignal
  <2>4. TypeHcd'
    BY <1>7, <2>3 DEF TypeHcd, Status, EmptyCompleteSignal, device, params, hcd, history,
       InHandler
  <2>5. (LoopBound /\ PcOf)'
    BY <1>7, <2>3 DEF IInv, TypeTest, LoopBound, PcOf, Looping, Single, EmptyCompleteSignal,
       device, params, hcd, history, InHandler
  <2>6. (QueueCount /\ UnlinkQueuedCount /\ SingleBusy /\ Returned)'
    BY <1>7, <2>3 DEF IInv, Context, TypeHcd, CompleteIf, QueueCount, UnlinkQueuedCount,
       SingleBusy, Returned, PcOf, Waiting, Busy, Single, Looping, EmptyCompleteSignal, device,
       params, hcd, history, InHandler
  <2>7. BatchStep
    BY <1>7, <2>3 DEF BatchStep, Batch!vars, BatchPhase, BatchBusy, IInv, TypeTest, TypeHcd,
       QueueCount, UnlinkQueuedCount, SingleBusy, Returned, PcOf, Waiting, Busy, Single,
       Looping, EmptyCompleteSignal, device, params, hcd, history, InHandler
  <2> QED BY <2>2, <2>3, <2>4, <2>5, <2>6, <2>7 DEF IInv, TypeOK
<1> QED BY <1>1, <1>2, <1>3, <1>4, <1>5, <1>6, <1>7

\* The steps of unlink1().
LEMMA UnlinkSteps ==
    ASSUME IInv,
           \/ UnlinkSubmit \/ UnlinkAsync \/ UnlinkSync \/ KillDone \/ UnlinkReturn
           \/ unlink1_callback
    PROVE  IInv' /\ BatchStep
<1> USE FromInvariant
<1>1. CASE UnlinkSubmit
  <2>1. 1 \in Urbs /\ (SubmitOk(1) => flight' \in Seq(Urbs) /\ Len(flight') = Len(flight) + 1)
    BY <1>1, SubmitFlight DEF IInv, TypeHcd, Looping, UnlinkSubmit
  <2>2. TypeTest'
    BY <1>1, <2>1, Sizes DEF TypeTest, Looping, Status, UnlinkSubmit, device, params, hcd,
       history, Leave
  <2>3. ctx' \in Context
    BY <1>1, NewContextType DEF UnlinkSubmit
  <2>4. TypeHcd'
    BY <1>1, <2>1, <2>3 DEF TypeHcd, Status, UnlinkSubmit, device, params, hcd, history, Leave
  <2>5. (LoopBound /\ PcOf)'
    BY <1>1, <2>1, <2>3 DEF IInv, TypeTest, LoopBound, PcOf, Looping, Single, UnlinkSubmit,
       device, params, hcd, history, Leave
  <2>6. (QueueCount /\ UnlinkQueuedCount /\ SingleBusy /\ Returned)'
    BY <1>1, <2>1, <2>3 DEF IInv, Context, TypeHcd, NewContext, QueueCount, UnlinkQueuedCount,
       SingleBusy, Returned, PcOf, Waiting, Busy, Single, Looping, UnlinkSubmit, device, params,
       hcd, history, Leave
  <2>7. BatchStep
    BY <1>1, <2>1, <2>3 DEF BatchStep, Batch!Next, Batch!vars, Batch!Submit, BatchPhase,
       BatchBusy, IInv, TypeTest, TypeHcd, QueueCount, UnlinkQueuedCount, SingleBusy, Returned,
       PcOf, Waiting, Busy, Single, Looping, UnlinkSubmit, device, params, hcd, history, Leave
  <2> QED BY <2>2, <2>3, <2>4, <2>5, <2>6, <2>7 DEF IInv, TypeOK
<1>2. CASE UnlinkAsync
  <2>2. TypeTest'
    BY <1>2, Sizes DEF TypeTest, Looping, Status, UnlinkAsync, device, params, hcd, history,
       Cancel
  <2>3. ctx' \in Context
    BY <1>2 DEF UnlinkAsync, device, params, hcd, history, Cancel
  <2>4. TypeHcd'
    BY <1>2 DEF TypeHcd, Status, UnlinkAsync, device, params, hcd, history, Cancel
  <2>5. (LoopBound /\ PcOf)'
    BY <1>2 DEF IInv, TypeTest, LoopBound, PcOf, Looping, Single, UnlinkAsync, device, params,
       hcd, history, Cancel
  <2>6. (QueueCount /\ UnlinkQueuedCount /\ SingleBusy /\ Returned)'
    BY <1>2 DEF IInv, Context, TypeHcd, QueueCount, UnlinkQueuedCount, SingleBusy, Returned,
       PcOf, Waiting, Busy, Single, Looping, UnlinkAsync, device, params, hcd, history, Cancel
  <2>7. BatchStep
    BY <1>2 DEF BatchStep, Batch!vars, BatchPhase, BatchBusy, IInv, TypeTest, TypeHcd,
       QueueCount, UnlinkQueuedCount, SingleBusy, Returned, PcOf, Waiting, Busy, Single,
       Looping, UnlinkAsync, device, params, hcd, history, Cancel
  <2> QED BY <2>2, <2>3, <2>4, <2>5, <2>6, <2>7 DEF IInv, TypeOK
<1>3. CASE UnlinkSync
  <2>2. TypeTest'
    BY <1>3, Sizes DEF TypeTest, Looping, Status, UnlinkSync, device, params, hcd, history,
       Cancel, Kill
  <2>3. ctx' \in Context
    BY <1>3 DEF UnlinkSync, device, params, hcd, history, Cancel, Kill
  <2>4. TypeHcd'
    BY <1>3 DEF TypeHcd, Status, UnlinkSync, device, params, hcd, history, Cancel, Kill
  <2>5. (LoopBound /\ PcOf)'
    BY <1>3 DEF IInv, TypeTest, LoopBound, PcOf, Looping, Single, UnlinkSync, device, params,
       hcd, history, Cancel, Kill
  <2>6. (QueueCount /\ UnlinkQueuedCount /\ SingleBusy /\ Returned)'
    BY <1>3 DEF IInv, Context, TypeHcd, QueueCount, UnlinkQueuedCount, SingleBusy, Returned,
       PcOf, Waiting, Busy, Single, Looping, UnlinkSync, device, params, hcd, history, Cancel,
       Kill
  <2>7. BatchStep
    BY <1>3 DEF BatchStep, Batch!vars, BatchPhase, BatchBusy, IInv, TypeTest, TypeHcd,
       QueueCount, UnlinkQueuedCount, SingleBusy, Returned, PcOf, Waiting, Busy, Single,
       Looping, UnlinkSync, device, params, hcd, history, Cancel, Kill
  <2> QED BY <2>2, <2>3, <2>4, <2>5, <2>6, <2>7 DEF IInv, TypeOK
<1>4. CASE KillDone
  <2>2. TypeTest'
    BY <1>4, Sizes DEF TypeTest, Looping, Status, KillDone, device, params, hcd, history
  <2>3. ctx' \in Context
    BY <1>4 DEF KillDone, device, params, hcd, history
  <2>4. TypeHcd'
    BY <1>4 DEF TypeHcd, Status, KillDone, device, params, hcd, history
  <2>5. (LoopBound /\ PcOf)'
    BY <1>4 DEF IInv, TypeTest, LoopBound, PcOf, Looping, Single, KillDone, device, params, hcd,
       history
  <2>6. (QueueCount /\ UnlinkQueuedCount /\ SingleBusy /\ Returned)'
    BY <1>4 DEF IInv, Context, TypeHcd, QueueCount, UnlinkQueuedCount, SingleBusy, Returned,
       PcOf, Waiting, Busy, Single, Looping, KillDone, device, params, hcd, history
  <2>7. BatchStep
    BY <1>4 DEF BatchStep, Batch!vars, BatchPhase, BatchBusy, IInv, TypeTest, TypeHcd,
       QueueCount, UnlinkQueuedCount, SingleBusy, Returned, PcOf, Waiting, Busy, Single,
       Looping, KillDone, device, params, hcd, history
  <2> QED BY <2>2, <2>3, <2>4, <2>5, <2>6, <2>7 DEF IInv, TypeOK
<1>5. CASE UnlinkReturn
  <2>2. TypeTest'
    BY <1>5, Sizes DEF TypeTest, Looping, Status, UnlinkReturn, device, params, hcd, history,
       Leave
  <2>3. ctx' \in Context
    BY <1>5 DEF UnlinkReturn, device, params, hcd, history, Leave
  <2>4. TypeHcd'
    BY <1>5 DEF TypeHcd, Status, UnlinkReturn, device, params, hcd, history, Leave
  <2>5. (LoopBound /\ PcOf)'
    BY <1>5 DEF IInv, TypeTest, LoopBound, PcOf, Looping, Single, UnlinkReturn, device, params,
       hcd, history, Leave
  <2>6. (QueueCount /\ UnlinkQueuedCount /\ SingleBusy /\ Returned)'
    BY <1>5 DEF IInv, Context, TypeHcd, QueueCount, UnlinkQueuedCount, SingleBusy, Returned,
       PcOf, Waiting, Busy, Single, Looping, UnlinkReturn, device, params, hcd, history, Leave
  <2>7. BatchStep
    BY <1>5 DEF BatchStep, Batch!vars, BatchPhase, BatchBusy, IInv, TypeTest, TypeHcd,
       QueueCount, UnlinkQueuedCount, SingleBusy, Returned, PcOf, Waiting, Busy, Single,
       Looping, UnlinkReturn, device, params, hcd, history, Leave
  <2> QED BY <2>2, <2>3, <2>4, <2>5, <2>6, <2>7 DEF IInv, TypeOK
<1>6. CASE unlink1_callback
  <2>1. cur \in Urbs /\ (SubmitOk(cur) => flight' \in Seq(Urbs) /\ Len(flight') = Len(flight) + 1)
    BY <1>6, SubmitFlight DEF IInv, TypeHcd, Looping, unlink1_callback, InHandler
  <2>2. TypeTest'
    BY <1>6, <2>1, Sizes DEF TypeTest, Looping, Status, unlink1_callback, device, params, hcd,
       history, InHandler
  <2>3. ctx' \in Context /\ (ctx' = ctx \/ ctx'.done)
    <3>1. CASE ctx' # ctx
      <4>1. PICK st \in Status : ctx' = [ctx EXCEPT !.done = TRUE, !.status = st]
        BY <1>6, <3>1 DEF unlink1_callback, TypeHcd, Status
      <4> QED BY <4>1 DEF Context
    <3> QED BY <3>1
  <2>4. TypeHcd'
    BY <1>6, <2>1, <2>3 DEF TypeHcd, Status, unlink1_callback, device, params, hcd, history,
       InHandler
  <2>5. (LoopBound /\ PcOf)'
    BY <1>6, <2>1, <2>3 DEF IInv, TypeTest, LoopBound, PcOf, Looping, Single, unlink1_callback,
       device, params, hcd, history, InHandler
  <2>6. (QueueCount /\ UnlinkQueuedCount /\ SingleBusy /\ Returned)'
    BY <1>6, <2>1, <2>3 DEF IInv, Context, TypeHcd, QueueCount, UnlinkQueuedCount, SingleBusy,
       Returned, PcOf, Waiting, Busy, Single, Looping, unlink1_callback, device, params, hcd,
       history, InHandler
  <2>7. BatchStep
    BY <1>6, <2>1, <2>3 DEF BatchStep, Batch!Next, Batch!vars, Batch!Finish, BatchPhase,
       BatchBusy, IInv, TypeTest, TypeHcd, QueueCount, UnlinkQueuedCount, SingleBusy, Returned,
       PcOf, Waiting, Busy, Single, Looping, unlink1_callback, device, params, hcd, history,
       InHandler
  <2> QED BY <2>2, <2>3, <2>4, <2>5, <2>6, <2>7 DEF IInv, TypeOK
<1> QED BY <1>1, <1>2, <1>3, <1>4, <1>5, <1>6

\* The steps of unlink_queued().
LEMMA UnlinkQueuedSteps ==
    ASSUME IInv,
           \/ UnlinkQueuedSubmit \/ UnlinkQueuedUnlink \/ UnlinkQueuedDrop
           \/ UnlinkQueuedReturn \/ unlink_queued_callback
    PROVE  IInv' /\ BatchStep
<1> USE FromInvariant
<1>1. CASE UnlinkQueuedSubmit
  <2>1. /\ i + 1 \in Urbs
        /\ (SubmitOk(i + 1) => flight' \in Seq(Urbs) /\ Len(flight') = Len(flight) + 1)
    BY <1>1, SubmitFlight DEF IInv, TypeHcd, Looping, UnlinkQueuedSubmit
  <2>2. TypeTest'
    BY <1>1, <2>1, Sizes DEF TypeTest, Looping, Status, UnlinkQueuedSubmit, device, params, hcd,
       history, LoopOr
  <2>3. /\ ctx' \in Context /\ ctx'.done = ctx.done
        /\ \/ SubmitOk(i + 1) /\ ctx'.pending = ctx.pending + 1
           \/ flight' = flight /\ ctx'.pending = ctx.pending
    <3>1. CASE ctx' = [ctx EXCEPT !.pending = ctx.pending + 1] /\ SubmitOk(i + 1)
      BY <3>1 DEF Context
    <3>2. CASE ctx' = [ctx EXCEPT !.status = "error"] /\ flight' = flight
      BY <3>2 DEF Context, Status
    <3> QED BY <1>1, <3>1, <3>2 DEF UnlinkQueuedSubmit
  <2>4. TypeHcd'
    BY <1>1, <2>1, <2>3 DEF TypeHcd, Status, UnlinkQueuedSubmit, device, params, hcd, history,
       LoopOr
  <2>5. (LoopBound /\ PcOf)'
    BY <1>1, <2>1, <2>3 DEF IInv, TypeTest, LoopBound, PcOf, Looping, Single,
       UnlinkQueuedSubmit, device, params, hcd, history, LoopOr
  <2>6. (QueueCount /\ UnlinkQueuedCount /\ SingleBusy /\ Returned)'
    <3>1. /\ test = "unlink_queued" /\ test' = test /\ tpc = "submit" /\ cpc' = cpc
          /\ tpc' \in {"submit", "unlink"} /\ ctx.pending = Busy + 1 /\ ~ctx.done /\ Busy \in Nat
          /\ tpc' = "submit" => i' = i + 1 /\ i \in Nat
          /\ tpc' = "submit" => SubmitOk(i + 1)
      BY <1>1 DEF UnlinkQueuedSubmit, LoopOr, params, IInv, UnlinkQueuedCount, Busy, TypeTest,
         TypeHcd
    <3>2. (SubmitOk(i + 1) => Busy' = Busy + 1) /\ (flight' = flight => Busy' = Busy)
      BY <2>1, <3>1 DEF Busy, TypeHcd
    <3>3. ctx'.pending = Busy' + 1 /\ ~ctx'.done
      BY <2>3, <3>1, <3>2
    <3>4. ~(tpc' = "submit" /\ i' = 0)
      BY <3>1
    <3> QED BY <3>1, <3>3, <3>4 DEF QueueCount, UnlinkQueuedCount, SingleBusy, Returned, Single
  <2>7. BatchStep
    BY <1>1, <2>1, <2>3 DEF BatchStep, Batch!Next, Batch!vars, Batch!Submit, BatchPhase,
       BatchBusy, IInv, TypeTest, TypeHcd, QueueCount, UnlinkQueuedCount, SingleBusy, Returned,
       PcOf, Waiting, Busy, Single, Looping, UnlinkQueuedSubmit, device, params, hcd, history,
       LoopOr
  <2> QED BY <2>2, <2>3, <2>4, <2>5, <2>6, <2>7 DEF IInv, TypeOK
<1>2. CASE UnlinkQueuedUnlink
  <2>2. TypeTest'
    BY <1>2, Sizes DEF TypeTest, Looping, Status, UnlinkQueuedUnlink, device, params, hcd,
       history, Cancel
  <2>3. ctx' \in Context
    BY <1>2 DEF UnlinkQueuedUnlink, device, params, hcd, history, Cancel
  <2>4. TypeHcd'
    BY <1>2 DEF TypeHcd, Status, UnlinkQueuedUnlink, device, params, hcd, history, Cancel
  <2>5. (LoopBound /\ PcOf)'
    BY <1>2 DEF IInv, TypeTest, LoopBound, PcOf, Looping, Single, UnlinkQueuedUnlink, device,
       params, hcd, history, Cancel
  <2>6. (QueueCount /\ UnlinkQueuedCount /\ SingleBusy /\ Returned)'
    BY <1>2 DEF IInv, Context, TypeHcd, QueueCount, UnlinkQueuedCount, SingleBusy, Returned,
       PcOf, Waiting, Busy, Single, Looping, UnlinkQueuedUnlink, device, params, hcd, history,
       Cancel
  <2>7. BatchStep
    BY <1>2 DEF BatchStep, Batch!vars, BatchPhase, BatchBusy, IInv, TypeTest, TypeHcd,
       QueueCount, UnlinkQueuedCount, SingleBusy, Returned, PcOf, Waiting, Busy, Single,
       Looping, UnlinkQueuedUnlink, device, params, hcd, history, Cancel
  <2> QED BY <2>2, <2>3, <2>4, <2>5, <2>6, <2>7 DEF IInv, TypeOK
<1>3. CASE UnlinkQueuedDrop
  <2>2. TypeTest'
    BY <1>3, Sizes DEF TypeTest, Looping, Status, UnlinkQueuedDrop, device, params, hcd, history
  <2>3. /\ ctx' \in Context /\ ctx'.pending = ctx.pending - 1
        /\ (ctx'.done <=> ctx.pending = 1 \/ ctx.done)
    <3> DEFINE c == [ctx EXCEPT !.pending = ctx.pending - 1]
    <3>1. c \in Context /\ c.pending = ctx.pending - 1 /\ c.done = ctx.done
      BY DEF Context, Status
    <3>2. ctx' = CompleteIf(c, ctx.pending = 1)
      BY <1>3 DEF UnlinkQueuedDrop
    <3> HIDE DEF c
    <3> QED BY <3>1, <3>2, CompleteIfType
  <2>4. TypeHcd'
    BY <1>3, <2>3 DEF TypeHcd, Status, UnlinkQueuedDrop, device, params, hcd, history
  <2>5. (LoopBound /\ PcOf)'
    BY <1>3, <2>3 DEF IInv, TypeTest, LoopBound, PcOf, Looping, Single, UnlinkQueuedDrop,
       device, params, hcd, history
  <2>6. (QueueCount /\ UnlinkQueuedCount /\ SingleBusy /\ Returned)'
    BY <1>3, <2>3 DEF IInv, Context, TypeHcd, CompleteIf, QueueCount, UnlinkQueuedCount,
       SingleBusy, Returned, PcOf, Waiting, Busy, Single, Looping, UnlinkQueuedDrop, device,
       params, hcd, history
  <2>7. BatchStep
    BY <1>3, <2>3 DEF BatchStep, Batch!vars, BatchPhase, BatchBusy, IInv, TypeTest, TypeHcd,
       QueueCount, UnlinkQueuedCount, SingleBusy, Returned, PcOf, Waiting, Busy, Single,
       Looping, UnlinkQueuedDrop, device, params, hcd, history
  <2> QED BY <2>2, <2>3, <2>4, <2>5, <2>6, <2>7 DEF IInv, TypeOK
<1>4. CASE UnlinkQueuedReturn
  <2>2. TypeTest'
    BY <1>4, Sizes DEF TypeTest, Looping, Status, UnlinkQueuedReturn, device, params, hcd,
       history, Leave
  <2>3. /\ ctx' \in Context
        /\ tpc' = "submit" => ctx'.pending = 1 /\ ~ctx'.done
        /\ tpc' # "submit" => ctx' = ctx
    BY <1>4, FirstContextType DEF UnlinkQueuedReturn, TypeTest, Leave
  <2>4. TypeHcd'
    BY <1>4, <2>3 DEF TypeHcd, Status, UnlinkQueuedReturn, device, params, hcd, history, Leave
  <2>5. (LoopBound /\ PcOf)'
    BY <1>4, <2>3 DEF IInv, TypeTest, LoopBound, PcOf, Looping, Single, UnlinkQueuedReturn,
       device, params, hcd, history, Leave
  <2>6. (QueueCount /\ UnlinkQueuedCount /\ SingleBusy /\ Returned)'
    BY <1>4, <2>3 DEF IInv, Context, TypeHcd, NewContext, FirstContext, QueueCount,
       UnlinkQueuedCount, SingleBusy, Returned, PcOf, Waiting, Busy, Single, Looping,
       UnlinkQueuedReturn, device, params, hcd, history, Leave
  <2>7. BatchStep
    BY <1>4, <2>3 DEF BatchStep, Batch!vars, BatchPhase, BatchBusy, IInv, TypeTest, TypeHcd,
       QueueCount, UnlinkQueuedCount, SingleBusy, Returned, PcOf, Waiting, Busy, Single,
       Looping, UnlinkQueuedReturn, device, params, hcd, history, Leave
  <2> QED BY <2>2, <2>3, <2>4, <2>5, <2>6, <2>7 DEF IInv, TypeOK
<1>5. CASE unlink_queued_callback
  <2>2. TypeTest'
    BY <1>5, Sizes DEF TypeTest, Looping, Status, unlink_queued_callback, device, params, hcd,
       history, InHandler
  <2>3. /\ ctx' \in Context /\ ctx'.pending = ctx.pending - 1
        /\ (ctx'.done <=> ctx.pending = 1 \/ ctx.done)
    <3>1. PICK st \in Status :
            ctx' = CompleteIf([ctx EXCEPT !.pending = ctx.pending - 1, !.status = st], ctx.pending = 1)
      BY <1>5 DEF unlink_queued_callback, TypeHcd
    <3> DEFINE c == [ctx EXCEPT !.pending = ctx.pending - 1, !.status = st]
    <3>2. c \in Context
      <4> DEFINE d == [ctx EXCEPT !.pending = ctx.pending - 1]
      <4>1. d \in Context
        BY DEF Context
      <4>2. [d EXCEPT !.status = st] \in Context
        BY <4>1 DEF Context
      <4> QED BY <4>2
    <3>3. c.pending = ctx.pending - 1 /\ c.done = ctx.done
      BY DEF Context
    <3>4. ctx' = CompleteIf(c, ctx.pending = 1)
      BY <3>1
    <3> HIDE DEF c
    <3> QED BY <3>2, <3>3, <3>4, CompleteIfType
  <2>4. TypeHcd'
    BY <1>5, <2>3 DEF TypeHcd, Status, unlink_queued_callback, device, params, hcd, history,
       InHandler
  <2>5. (LoopBound /\ PcOf)'
    BY <1>5, <2>3 DEF IInv, TypeTest, LoopBound, PcOf, Looping, Single, unlink_queued_callback,
       device, params, hcd, history, InHandler
  <2>6. (QueueCount /\ UnlinkQueuedCount /\ SingleBusy /\ Returned)'
    BY <1>5, <2>3 DEF IInv, Context, TypeHcd, CompleteIf, QueueCount, UnlinkQueuedCount,
       SingleBusy, Returned, PcOf, Waiting, Busy, Single, Looping, unlink_queued_callback,
       device, params, hcd, history, InHandler
  <2>7. BatchStep
    BY <1>5, <2>3 DEF BatchStep, Batch!Next, Batch!vars, Batch!Finish, BatchPhase, BatchBusy,
       IInv, TypeTest, TypeHcd, QueueCount, UnlinkQueuedCount, SingleBusy, Returned, PcOf,
       Waiting, Busy, Single, Looping, unlink_queued_callback, device, params, hcd, history,
       InHandler
  <2> QED BY <2>2, <2>3, <2>4, <2>5, <2>6, <2>7 DEF IInv, TypeOK
<1> QED BY <1>1, <1>2, <1>3, <1>4, <1>5

\* The steps of simple_io() and perform_sglist().
LEMMA TransferSteps ==
    ASSUME IInv,
           \/ TransferSubmit \/ SglistArm \/ SglistSubmit \/ SimpleTimeout \/ TransferDone
           \/ simple_callback \/ sg_timeout
    PROVE  IInv' /\ BatchStep
<1> USE FromInvariant
<1>1. CASE TransferSubmit
  <2>1. 1 \in Urbs /\ (SubmitOk(1) => flight' \in Seq(Urbs) /\ Len(flight') = Len(flight) + 1)
    BY <1>1, SubmitFlight DEF IInv, TypeHcd, Looping, TransferSubmit
  <2>2. TypeTest'
    BY <1>1, Sizes DEF TypeTest, Status, TransferSubmit, Leave, device, params
  <2>3. ctx' \in Context
    BY <1>1, NewContextType DEF TransferSubmit
  <2>4. TypeHcd'
    BY <1>1, <2>1, <2>3 DEF TypeHcd, Status, TransferSubmit, device, params, hcd, history, Leave
  <2>5. (LoopBound /\ PcOf)'
    BY <1>1, <2>1, <2>3 DEF IInv, TypeTest, LoopBound, PcOf, Looping, Single, OneByOne,
       TransferSubmit, device, params, hcd, history, Leave
  <2>6. (QueueCount /\ UnlinkQueuedCount /\ SingleBusy /\ Returned)'
    BY <1>1, <2>1, <2>3 DEF IInv, Context, TypeHcd, NewContext, QueueCount, UnlinkQueuedCount,
       SingleBusy, Returned, PcOf, Waiting, Busy, Single, Looping, OneByOne, TransferSubmit,
       device, params, hcd, history, Leave
  <2>7. BatchStep
    BY <1>1, <2>1, <2>3 DEF BatchStep, Batch!Next, Batch!vars, Batch!Submit, BatchPhase,
       BatchBusy, IInv, TypeTest, TypeHcd, QueueCount, UnlinkQueuedCount, SingleBusy, Returned,
       PcOf, Waiting, Busy, Single, Looping, OneByOne, TransferSubmit, device, params, hcd,
       history, Leave
  <2> QED BY <2>2, <2>3, <2>4, <2>5, <2>6, <2>7 DEF IInv, TypeOK
<1>2. CASE SimpleTimeout
  <2>2. TypeTest'
    BY <1>2, Sizes DEF TypeTest, Looping, Status, SimpleTimeout, device, params, hcd, history,
       Cancel, Kill
  <2>3. ctx' \in Context
    BY <1>2 DEF SimpleTimeout, device, params, hcd, history, Cancel, Kill
  <2>4. TypeHcd'
    BY <1>2 DEF TypeHcd, Status, SimpleTimeout, device, params, hcd, history, Cancel, Kill
  <2>5. (LoopBound /\ PcOf)'
    BY <1>2 DEF IInv, TypeTest, LoopBound, PcOf, Looping, Single, SimpleTimeout, device, params,
       hcd, history, Cancel, Kill
  <2>6. (QueueCount /\ UnlinkQueuedCount /\ SingleBusy /\ Returned)'
    BY <1>2 DEF IInv, Context, TypeHcd, QueueCount, UnlinkQueuedCount, SingleBusy, Returned,
       PcOf, Waiting, Busy, Single, Looping, SimpleTimeout, device, params, hcd, history,
       Cancel, Kill
  <2>7. BatchStep
    BY <1>2 DEF BatchStep, Batch!vars, BatchPhase, BatchBusy, IInv, TypeTest, TypeHcd,
       QueueCount, UnlinkQueuedCount, SingleBusy, Returned, PcOf, Waiting, Busy, Single,
       Looping, SimpleTimeout, device, params, hcd, history, Cancel, Kill
  <2> QED BY <2>2, <2>3, <2>4, <2>5, <2>6, <2>7 DEF IInv, TypeOK
<1>3. CASE TransferDone
  <2>2. TypeTest'
    BY <1>3, Sizes DEF TypeTest, Looping, Status, TransferDone, device, params, hcd, history,
       Leave
  <2>3. ctx' \in Context
    BY <1>3 DEF TransferDone, device, params, hcd, history, Leave
  <2>4. TypeHcd'
    BY <1>3 DEF TypeHcd, Status, TransferDone, device, params, hcd, history, Leave
  <2>5. (LoopBound /\ PcOf)'
    BY <1>3 DEF IInv, TypeTest, LoopBound, PcOf, Looping, Single, OneByOne, TransferDone,
       device, params, hcd, history, Leave
  <2>6. (QueueCount /\ UnlinkQueuedCount /\ SingleBusy /\ Returned)'
    BY <1>3 DEF IInv, Context, TypeHcd, QueueCount, UnlinkQueuedCount, SingleBusy, Returned,
       PcOf, Waiting, Busy, Single, Looping, OneByOne, TransferDone, device, params, hcd,
       history, Leave
  <2>7. BatchStep
    BY <1>3 DEF BatchStep, Batch!vars, BatchPhase, BatchBusy, IInv, TypeTest, TypeHcd,
       QueueCount, UnlinkQueuedCount, SingleBusy, Returned, PcOf, Waiting, Busy, Single,
       Looping, OneByOne, TransferDone, device, params, hcd, history, Leave
  <2> QED BY <2>2, <2>3, <2>4, <2>5, <2>6, <2>7 DEF IInv, TypeOK
<1>4. CASE simple_callback
  <2>2. TypeTest'
    BY <1>4, Sizes DEF TypeTest, Looping, Status, simple_callback, device, params, hcd, history,
       InHandler
  <2>3. ctx' \in Context /\ ctx'.done
    <3>1. \/ ctx' = [ctx EXCEPT !.done = TRUE, !.status = cst]
          \/ ctx' = [ctx EXCEPT !.done = TRUE, !.status = ctx.status]
      BY <1>4 DEF simple_callback
    <3> QED BY <3>1 DEF Context, TypeHcd
  <2>4. TypeHcd'
    BY <1>4, <2>3 DEF TypeHcd, Status, simple_callback, device, params, hcd, history, InHandler
  <2>5. (LoopBound /\ PcOf)'
    BY <1>4, <2>3 DEF IInv, TypeTest, LoopBound, PcOf, Looping, Single, OneByOne,
       simple_callback, device, params, hcd, history, InHandler
  <2>6. (QueueCount /\ UnlinkQueuedCount /\ SingleBusy /\ Returned)'
    BY <1>4, <2>3 DEF IInv, Context, TypeHcd, QueueCount, UnlinkQueuedCount, SingleBusy,
       Returned, PcOf, Waiting, Busy, Single, Looping, OneByOne, simple_callback, device,
       params, hcd, history, InHandler
  <2>7. BatchStep
    BY <1>4, <2>3 DEF BatchStep, Batch!Next, Batch!vars, Batch!Finish, BatchPhase, BatchBusy,
       IInv, TypeTest, TypeHcd, QueueCount, UnlinkQueuedCount, SingleBusy, Returned, PcOf,
       Waiting, Busy, Single, Looping, OneByOne, simple_callback, device, params, hcd, history,
       InHandler
  <2> QED BY <2>2, <2>3, <2>4, <2>5, <2>6, <2>7 DEF IInv, TypeOK
<1>5. CASE sg_timeout
  <2>2. TypeTest'
    BY <1>5, Sizes DEF TypeTest, Looping, Status, sg_timeout, device, params, hcd, history,
       Cancel
  <2>3. ctx' \in Context /\ ctx'.done = ctx.done /\ ctx'.pending = ctx.pending
    <3>1. \/ ctx' = ctx
          \/ ctx' = [ctx EXCEPT !.status = "reset"]
          \/ ctx' = [ctx EXCEPT !.status = ctx.status]
      BY <1>5 DEF sg_timeout
    <3> QED BY <3>1 DEF Context, Status
  <2>4. TypeHcd'
    BY <1>5 DEF TypeHcd, Status, sg_timeout, device, params, hcd, history, Cancel
  <2>5. (LoopBound /\ PcOf)'
    BY <1>5 DEF IInv, TypeTest, LoopBound, PcOf, Looping, Single, sg_timeout, device, params,
       hcd, history, Cancel
  <2>6. (QueueCount /\ UnlinkQueuedCount /\ SingleBusy /\ Returned)'
    BY <1>5, <2>3 DEF IInv, QueueCount, UnlinkQueuedCount, SingleBusy, Returned, Busy,
       sg_timeout, params, history
  <2>7. BatchStep
    BY <1>5 DEF BatchStep, Batch!vars, BatchPhase, BatchBusy, Busy, sg_timeout, params
  <2> QED BY <2>2, <2>3, <2>4, <2>5, <2>6, <2>7 DEF IInv, TypeOK
<1>6. CASE SglistArm
  <2>1. test = "sglist" /\ tpc = "submit" /\ tpc' = "armed" /\ ctx' = NewContext
        /\ UNCHANGED <<test, sglen, i, flight, cpc>>
    BY <1>6 DEF SglistArm, params, hcd
  <2>2. TypeTest' /\ TypeHcd'
    BY <1>6, Sizes DEF TypeTest, TypeHcd, Status, SglistArm, device, params, hcd, history
  <2>3. (LoopBound /\ PcOf)'
    BY <2>1 DEF IInv, LoopBound, PcOf, Looping, Single
  <2>4. (QueueCount /\ UnlinkQueuedCount /\ SingleBusy /\ Returned)'
    BY <2>1, NewContextType DEF IInv, QueueCount, UnlinkQueuedCount, SingleBusy, Returned,
       Busy, Single
  <2>5. BatchStep
    BY <2>1 DEF BatchStep, Batch!vars, BatchPhase, BatchBusy, Busy
  <2> QED BY <2>1, <2>2, <2>3, <2>4, <2>5, NewContextType DEF IInv, TypeOK
<1>7. CASE SglistSubmit
  <2>1. /\ test = "sglist" /\ tpc = "armed" /\ tpc' = "wait" /\ Busy = 0
        /\ UNCHANGED <<test, sglen, i, cpc>>
        /\ SubmitOk(1) => flight' \in Seq(Urbs) /\ Len(flight') = Len(flight) + 1
    BY <1>7, SubmitFlight DEF SglistSubmit, params, IInv, SingleBusy, Single
  <2>2. /\ ctx' \in Context
        /\ \/ SubmitOk(1) /\ ctx' = ctx /\ tpc = "armed"
           \/ flight' = flight /\ ctx'.done
    <3>1. \/ SubmitOk(1) /\ ctx' = ctx
          \/ flight' = flight /\ ctx' = [ctx EXCEPT !.done = TRUE, !.status = "error"]
          \/ flight' = flight /\ ctx' = [ctx EXCEPT !.done = TRUE, !.status = ctx.status]
      BY <1>7 DEF SglistSubmit
    <3> QED BY <2>1, <3>1 DEF Context, Status
  <2>3. TypeTest'
    BY <1>7, <2>1 DEF TypeTest, SglistSubmit, device, params
  <2>4. TypeHcd'
    BY <1>7, <2>1, <2>2 DEF TypeHcd, SglistSubmit, history
  <2>5. (LoopBound /\ PcOf)'
    BY <2>1 DEF IInv, LoopBound, PcOf, Looping, Single
  <2>6. cpc \notin {"enter", "leave"} /\ Len(flight) = 0 /\ Len(flight) \in Nat
    BY <2>1 DEF Busy, TypeHcd
  <2>7. /\ SubmitOk(1) => Busy' = 1 /\ Busy' = Busy + 1
        /\ flight' = flight => Busy' = 0 /\ Busy' = Busy
    BY <2>1, <2>6 DEF Busy
  <2>8. SubmitOk(1) => ~ctx.done
    BY <2>1 DEF IInv, SingleBusy, Single
  <2>9. (QueueCount /\ UnlinkQueuedCount /\ SingleBusy /\ Returned)'
    BY <2>1, <2>2, <2>7, <2>8 DEF QueueCount, UnlinkQueuedCount, SingleBusy, Returned, Single
  <2>10. BatchStep
    BY <2>1, <2>2, <2>7 DEF BatchStep, Batch!Next, Batch!vars, Batch!Submit, BatchPhase,
       BatchBusy, Waiting
  <2> QED BY <2>2, <2>3, <2>4, <2>5, <2>9, <2>10 DEF IInv, TypeOK
<1> QED BY <1>1, <1>2, <1>3, <1>4, <1>5, <1>6, <1>7

\* What a handler does after complete(), and a test that cannot allocate.
LEMMA EndSteps ==
    ASSUME IInv, HandlerReturn \/ AllocationFails
    PROVE  IInv' /\ BatchStep
<1> USE FromInvariant
<1>1. CASE HandlerReturn
  <2>1. cpc = "return" /\ cpc' = "none" /\ UNCHANGED <<params, tpc, i, ctx, flight>>
    BY <1>1 DEF HandlerReturn
  <2>2. Busy' = Busy
    BY <2>1 DEF Busy
  <2>3. TypeTest' /\ TypeHcd'
    BY <1>1 DEF HandlerReturn, TypeTest, TypeHcd, device, params, history
  <2>4. (LoopBound /\ PcOf)'
    BY <2>1 DEF IInv, LoopBound, PcOf, params
  <2>5. (QueueCount /\ UnlinkQueuedCount /\ SingleBusy /\ Returned)'
    BY <2>1, <2>2 DEF IInv, QueueCount, UnlinkQueuedCount, SingleBusy, Returned, params
  <2>6. BatchStep
    BY <2>1, <2>2 DEF BatchStep, Batch!vars, BatchPhase, BatchBusy, params
  <2> QED BY <2>1, <2>3, <2>4, <2>5, <2>6 DEF IInv, TypeOK
<1>2. CASE AllocationFails
  <2>1. tpc = "submit" /\ tpc' = "return" /\ (i = 0 \/ test = "unlink1")
        /\ UNCHANGED <<params, i, hcd>>
        /\ ctx' \in Context /\ ctx'.done = ctx.done /\ ctx'.pending = ctx.pending
    BY <1>2 DEF AllocationFails, Leave, Context, Status
  <2>2. Busy' = Busy
    BY <2>1 DEF Busy, hcd
  <2>3. test \in Waiting => Busy = 0
    BY <2>1 DEF IInv, QueueCount, UnlinkQueuedCount, SingleBusy, Waiting, Single
  <2>4. TypeTest' /\ TypeHcd'
    BY <1>2, <2>1 DEF AllocationFails, Leave, TypeTest, TypeHcd, Status, device, params, hcd,
       history
  <2>5. (LoopBound /\ PcOf)'
    BY <2>1 DEF IInv, LoopBound, PcOf, params, hcd, Looping, Single
  <2>6. (QueueCount /\ UnlinkQueuedCount /\ SingleBusy /\ Returned)'
    BY <2>1, <2>2, <2>3 DEF IInv, QueueCount, UnlinkQueuedCount, SingleBusy, Returned, params,
       Single, Waiting, PcOf
  <2>7. BatchStep
    BY <2>1, <2>2 DEF BatchStep, Batch!vars, BatchPhase, BatchBusy, params
  <2> QED BY <2>1, <2>4, <2>5, <2>6, <2>7 DEF IInv, TypeOK
<1> QED BY <1>1, <1>2

\* The calls other than those that start a test, and the return from them.
LEMMA CallSteps ==
    ASSUME IInv, usbtest_probe \/ usbtest_disconnect \/ Return
    PROVE  IInv' /\ BatchStep
<1> USE FromInvariant
<1>1. CASE usbtest_probe
  <2>2. TypeTest'
    BY <1>1, Sizes DEF TypeTest, Looping, Status, usbtest_probe, params, hcd, history
  <2>3. ctx' \in Context
    BY <1>1 DEF usbtest_probe, params, hcd, history
  <2>4. TypeHcd'
    BY <1>1 DEF TypeHcd, Status, usbtest_probe, params, hcd, history
  <2>5. (LoopBound /\ PcOf)'
    BY <1>1 DEF IInv, TypeTest, LoopBound, PcOf, Looping, Single, usbtest_probe, params, hcd,
       history
  <2>6. (QueueCount /\ UnlinkQueuedCount /\ SingleBusy /\ Returned)'
    BY <1>1 DEF IInv, Context, TypeHcd, QueueCount, UnlinkQueuedCount, SingleBusy, Returned,
       PcOf, Waiting, Busy, Single, Looping, usbtest_probe, params, hcd, history
  <2>7. BatchStep
    BY <1>1 DEF BatchStep, Batch!vars, BatchPhase, BatchBusy, IInv, TypeTest, TypeHcd,
       QueueCount, UnlinkQueuedCount, SingleBusy, Returned, PcOf, Waiting, Busy, Single,
       Looping, usbtest_probe, params, hcd, history
  <2> QED BY <2>2, <2>3, <2>4, <2>5, <2>6, <2>7 DEF IInv, TypeOK
<1>2. CASE usbtest_disconnect
  <2>2. TypeTest'
    BY <1>2, Sizes DEF TypeTest, Looping, Status, usbtest_disconnect, params, hcd, history
  <2>3. ctx' \in Context
    BY <1>2 DEF usbtest_disconnect, params, hcd, history
  <2>4. TypeHcd'
    BY <1>2 DEF TypeHcd, Status, usbtest_disconnect, params, hcd, history
  <2>5. (LoopBound /\ PcOf)'
    BY <1>2 DEF IInv, TypeTest, LoopBound, PcOf, Looping, Single, usbtest_disconnect, params,
       hcd, history
  <2>6. (QueueCount /\ UnlinkQueuedCount /\ SingleBusy /\ Returned)'
    BY <1>2 DEF IInv, Context, TypeHcd, QueueCount, UnlinkQueuedCount, SingleBusy, Returned,
       PcOf, Waiting, Busy, Single, Looping, usbtest_disconnect, params, hcd, history
  <2>7. BatchStep
    BY <1>2 DEF BatchStep, Batch!vars, BatchPhase, BatchBusy, IInv, TypeTest, TypeHcd,
       QueueCount, UnlinkQueuedCount, SingleBusy, Returned, PcOf, Waiting, Busy, Single,
       Looping, usbtest_disconnect, params, hcd, history
  <2> QED BY <2>2, <2>3, <2>4, <2>5, <2>6, <2>7 DEF IInv, TypeOK
<1>3. CASE Return
  <2>2. TypeTest'
    BY <1>3, Sizes DEF TypeTest, Looping, Status, Return, device, params, hcd, history
  <2>3. ctx' \in Context
    BY <1>3 DEF Return, device, params, hcd, history
  <2>4. TypeHcd'
    BY <1>3 DEF TypeHcd, Status, Return, device, params, hcd, history
  <2>5. (LoopBound /\ PcOf)'
    BY <1>3 DEF IInv, TypeTest, LoopBound, PcOf, Looping, Single, Return, device, params, hcd,
       history
  <2>6. (QueueCount /\ UnlinkQueuedCount /\ SingleBusy /\ Returned)'
    BY <1>3 DEF IInv, Context, TypeHcd, QueueCount, UnlinkQueuedCount, SingleBusy, Returned,
       PcOf, Waiting, Busy, Single, Looping, Return, device, params, hcd, history
  <2>7. BatchStep
    BY <1>3 DEF BatchStep, Batch!Next, Batch!vars, Batch!End, BatchPhase, BatchBusy, IInv,
       TypeTest, TypeHcd, QueueCount, UnlinkQueuedCount, SingleBusy, Returned, PcOf, Waiting,
       Busy, Single, Looping, Return, device, params, hcd, history
  <2> QED BY <2>2, <2>3, <2>4, <2>5, <2>6, <2>7 DEF IInv, TypeOK
<1> QED BY <1>1, <1>2, <1>3

\* A test starts when the controller has none of the batch left.
LEMMA StartStep ==
    ASSUME IInv, NEW kind \in Kinds, NEW depth \in 0 .. MaxQueue, NEW iters \in 0 .. MaxIter,
           kind \in {"ctrl", "queue", "unlink_queued"} => depth > 0,
           Start(kind, depth, iters)
    PROVE  IInv' /\ BatchStep
<1> USE FromInvariant, Sizes
<1>1. /\ ctx' \in Context /\ ~ctx'.done
      /\ ctx'.pending = IF kind = "unlink_queued" THEN 1 ELSE 0
  BY FirstContextType DEF Start
<1>2. /\ test' = kind /\ tpc = "idle" /\ tpc' = "submit" /\ i' = 0 /\ Busy = 0 /\ Busy' = 0
      /\ kind \in Looping => sglen' > 0
  BY DEF Start, Busy, hcd, Looping
<1>3. TypeTest' /\ TypeHcd'
  <2>1. TypeTest'
    BY <1>2 DEF Start, TypeTest, Kinds, Status, device
  <2>2. TypeHcd'
    BY DEF Start, TypeHcd, Status, hcd
  <2> QED BY <2>1, <2>2
<1>4. (LoopBound /\ PcOf)'
  BY <1>2 DEF LoopBound, PcOf, Start, hcd, Kinds, Single
<1>5. (QueueCount /\ UnlinkQueuedCount /\ SingleBusy /\ Returned)'
  BY <1>1, <1>2 DEF QueueCount, UnlinkQueuedCount, SingleBusy, Returned
<1>6. BatchStep
  BY <1>2 DEF BatchStep, Batch!Next, Batch!vars, Batch!Begin, BatchPhase, BatchBusy
<1> QED BY <1>1, <1>3, <1>4, <1>5, <1>6 DEF IInv, TypeOK

\* The queue tests are not started without an URB to queue.
LEMMA DispatchDepth ==
    ASSUME NEW n \in Cases, NEW depth \in 0 .. MaxQueue, KindOf(n) # "none", Supported(n, depth)
    PROVE  /\ KindOf(n) \in Kinds
           /\ KindOf(n) \in {"ctrl", "queue", "unlink_queued"} => depth > 0
<1>1. n \in 0 .. 29
  BY SizesAssumption
<1>2. CASE n \in SimpleCases \cup SglistCases
  <2>1. KindOf(n) \in {"simple", "sglist"}
    <3>1. n \notin {10, 11, 12, 24} \cup QueueCases
      BY <1>1, <1>2 DEF SimpleCases, SglistCases, QueueCases
    <3>2. n # 10 /\ n \notin {11, 12} /\ n \notin QueueCases /\ n # 24
      BY <3>1
    <3> QED BY <1>2, <3>2 DEF KindOf
  <2> QED BY <2>1 DEF Kinds
<1>3. CASE n \in {10, 11, 12, 24} \cup QueueCases
  BY <1>1, <1>3 DEF KindOf, Kinds, SimpleCases, SglistCases, QueueCases, Supported
<1>4. CASE n \notin SimpleCases \cup SglistCases \cup {10, 11, 12, 24} \cup QueueCases
  BY <1>1, <1>4 DEF KindOf
<1> QED BY <1>2, <1>3, <1>4

\* A giveback moves an URB from the queue to the handler.
LEMMA GivebackStep ==
    ASSUME IInv, NEW u \in Urbs, HcdGiveback(u)
    PROVE  IInv' /\ BatchStep
<1> USE FromInvariant
<1>1. /\ flight' \in Seq(Urbs) /\ Len(flight') = Len(flight) - 1
      /\ cpc = "none" /\ cpc' = "enter" /\ cur' = u /\ ctx' = ctx
      /\ UNCHANGED <<test, tpc, i, sglen>>
  BY GivebackFlight DEF HcdGiveback, IInv, params
<1>2. Busy' = Busy
  BY <1>1 DEF Busy, TypeHcd
<1>3. TypeTest'
  BY DEF HcdGiveback, TypeTest, device, params
<1>4. TypeHcd'
  BY <1>1 DEF HcdGiveback, TypeHcd, Status, UnlinkStatus, history
<1>5. (LoopBound /\ PcOf)'
  BY <1>1 DEF IInv, LoopBound, PcOf
<1>6. (QueueCount /\ UnlinkQueuedCount /\ SingleBusy /\ Returned)'
  BY <1>1, <1>2 DEF IInv, QueueCount, UnlinkQueuedCount, SingleBusy, Returned
<1>7. BatchStep
  BY <1>1, <1>2 DEF BatchStep, Batch!vars, BatchPhase, BatchBusy
<1> QED BY <1>1, <1>3, <1>4, <1>5, <1>6, <1>7 DEF IInv, TypeOK

\* The invariant holds in the beginning, when the batch is empty.
LEMMA InitStep == Init => IInv /\ Batch!Init
<1> SUFFICES ASSUME Init PROVE IInv /\ Batch!Init
  OBVIOUS
<1>1. ctx \in Context /\ flight = <<>> /\ Busy = 0
  BY NewContextType DEF Init, Busy
<1>2. TypeOK
  <2>1. 0 \in 0 .. MaxQueue /\ 0 \in 0 .. MaxIter /\ 0 \in Nat /\ 1 \in Urbs /\ <<>> \in Seq(Urbs)
    BY Sizes
  <2>2. TypeTest
    BY <2>1, Zenon DEF Init, TypeTest, Status
  <2>3. TypeHcd
    BY <2>1, Zenon DEF Init, TypeHcd, Status
  <2> QED BY <1>1, <2>2, <2>3 DEF TypeOK
<1>3. LoopBound /\ PcOf /\ QueueCount /\ UnlinkQueuedCount /\ SingleBusy /\ Returned
  BY <1>1 DEF Init, LoopBound, PcOf, QueueCount, UnlinkQueuedCount, SingleBusy, Returned,
       Looping, Single
<1>4. Batch!Init
  BY <1>1 DEF Init, Batch!Init, BatchPhase, BatchBusy
<1> QED BY <1>2, <1>3, <1>4 DEF IInv

\* Every step preserves the invariant and is a step of the batch.
LEMMA NextStep == IInv /\ [Next]_vars => IInv' /\ BatchStep
<1> SUFFICES ASSUME IInv, [Next]_vars PROVE IInv' /\ BatchStep
  OBVIOUS
<1>1. CASE usbtest_do_ioctl
  BY <1>1, StartStep, DispatchDepth, Sizes DEF usbtest_do_ioctl
<1>2. CASE fz_ioctl
  <2>1. PICK kind \in FzKinds, depth \in 0 .. MaxQueue, iters \in 0 .. MaxIter :
          (kind = "queue" => depth > 0) /\ Start(kind, depth, iters)
    BY <1>2, Zenon DEF fz_ioctl, CountFits
  <2>2. kind \in {"simple", "queue", "ctr_fuzz"} /\ kind \in Kinds
    BY SizesAssumption DEF Kinds
  <2> QED BY <2>1, <2>2, StartStep
<1>3. CASE usbtest_probe \/ usbtest_disconnect \/ Return
  BY <1>3, CallSteps
<1>4. CASE QueueSubmit \/ QueueReturn \/ complicated_callback
  BY <1>4, QueueSteps
<1>5. CASE \/ CtrlSubmit \/ CtrlCheck \/ CtrlReturn \/ ctrl_complete \/ CtrlResubmit
           \/ empty_complete \/ EmptyCompleteSignal
  BY <1>5, CtrlSteps
<1>6. CASE \/ UnlinkSubmit \/ UnlinkAsync \/ UnlinkSync \/ KillDone \/ UnlinkReturn
           \/ unlink1_callback
  BY <1>6, UnlinkSteps
<1>7. CASE \/ UnlinkQueuedSubmit \/ UnlinkQueuedUnlink \/ UnlinkQueuedDrop
           \/ UnlinkQueuedReturn \/ unlink_queued_callback
  BY <1>7, UnlinkQueuedSteps
<1>8. CASE \/ TransferSubmit \/ SglistArm \/ SglistSubmit \/ SimpleTimeout \/ TransferDone
           \/ simple_callback \/ sg_timeout
  BY <1>8, TransferSteps
<1>9. CASE \E u \in Urbs : HcdGiveback(u)
  BY <1>9, GivebackStep
<1>11. CASE HandlerReturn \/ AllocationFails
  BY <1>11, EndSteps
<1>10. CASE UNCHANGED vars
  <2>1. IInv'
    BY <1>10 DEF vars, device, params, hcd, history, IInv, TypeOK, TypeTest, TypeHcd, LoopBound,
         PcOf, QueueCount, UnlinkQueuedCount, SingleBusy, Returned, Busy
  <2>2. BatchStep
    BY <1>10 DEF vars, params, hcd, BatchStep, Batch!vars, BatchPhase, BatchBusy, Busy
  <2> QED BY <2>1, <2>2
<1> QED BY <1>1, <1>2, <1>3, <1>4, <1>5, <1>6, <1>7, <1>8, <1>9, <1>10, <1>11
        DEF Next, TestStep, Handler

\* The types, the tests' counters and completions agree with what is in flight.
LEMMA Invariant == Spec => []IInv
<1>1. Init => IInv
  BY InitStep
<1>2. IInv /\ [Next]_vars => IInv'
  BY NextStep
<1> QED BY <1>1, <1>2, PTL DEF Spec

\* Every state of every test is of the right types (usbtest.c as a whole).
THEOREM TypeCorrect == Spec => []TypeOK
<1>1. IInv => TypeOK
  BY DEF IInv
<1> QED BY <1>1, Invariant, PTL

\* The tests of usbtest.c that wait implement UrbBatch: they return only when
\* none of their URBs is in flight and every handler has counted its URB and, if it
\* was the last, called complete().  That handler may still hold the lock of the
\* context: complete() comes before the unlock in complicated_callback().
THEOREM ImplementsBatch == Spec => OwnsItsUrbs
<1>1. Init => Batch!Init
  BY InitStep
<1>2. IInv /\ [Next]_vars => [Batch!Next]_(Batch!vars)
  BY NextStep DEF BatchStep
<1> QED BY <1>1, <1>2, Invariant, PTL DEF Spec, OwnsItsUrbs, Batch!Spec

=============================================================================
