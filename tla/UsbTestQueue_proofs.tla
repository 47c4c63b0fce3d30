------------------------- MODULE UsbTestQueue_proofs -------------------------
(* What the queues of UsbTest run, and in which order: test_queue() and     *)
(* test_ctrl_queue() complete every iteration of every URB, control URBs    *)
(* come back in the order of their numbers, and after an error none of them *)
(* is submitted again but the one that the cancelling loop leaves out.  For *)
(* any number of URBs, iterations and subcases, and any width of counters.  *)
EXTENDS UsbTest_proofs

-----------------------------------------------------------------------------
(* The invariant.                                                          *)

\* Only what is at the controller is cancelled; the timer is perform_sglist()'s.
Cancelled ==
    /\ unlinked \subseteq Range(flight)
    /\ timer => test = "sglist" /\ tpc \in {"armed", "wait"}

\* A handler has an URB that it has not finished with.
Handling == cpc \in {"enter", "leave"}

\* Nothing has failed.
Clean == ctx.status = "ok" /\ ~ctx.errors /\ ~ctx.submit_error /\ ~lost

\* test_queue(): as long as more is wanted all URBs are out.
QueueRun ==
    test = "queue" =>
        /\ sglen * iterations < UMax
        /\ tpc = "submit" => ctx.count = sglen * iterations /\ ndone = 0 /\ ctx.pending = i
        /\ iterations > 0 /\ Clean /\ tpc = "wait" =>
             /\ ndone + ctx.count = sglen * iterations
             /\ ctx.count >= ctx.pending
             /\ ctx.pending = sglen \/ ctx.count = ctx.pending
        /\ iterations > 0 /\ Clean /\ ctx.done => ndone = sglen * iterations

\* Without a failure the control queue is a ring: with the URB being completed, or else the
\* first one at the controller, as the oldest, URB k of the rest is the k-th behind it.
Behind(u, k) == IF u + k <= sglen THEN u + k ELSE u + k - sglen

\* The URB that completes next is the successor of the one that completed last.
InOrder(u) == (u - 1) % NumSubcases > 0 => ctx.last = ((u - 1) % NumSubcases) - 1

Ring ==
    /\ \A k \in DOMAIN flight : flight[k] \in 1 .. sglen
    /\ Busy <= sglen
    /\ Handling =>
         /\ cur \in 1 .. sglen
         /\ \A k \in DOMAIN flight : flight[k] = Behind(cur, k)
    /\ ~Handling => \A k \in DOMAIN flight : flight[k] = Behind(flight[1], k - 1)
    /\ cpc = "enter" => InOrder(cur)
    /\ cpc = "leave" => ctx.last = (cur - 1) % NumSubcases
    /\ ~Handling /\ flight # <<>> => InOrder(flight[1])

\* test_ctrl_queue() while it submits: no handler gets the lock.
CtrlSubmitting ==
    /\ cpc # "leave" /\ ctx.status = "ok" /\ ~ctx.done /\ ~lost
    /\ ctx.count = sglen * iterations /\ ndone = 0
    /\ ctx.pending = i /\ Busy = i
    /\ cpc = "enter" => cur = 1
    /\ ~Handling /\ flight # <<>> => flight[1] = 1

\* ... and afterwards, as long as nothing has failed.
CtrlRunning ==
    /\ cpc = "leave" => cst = "ok"
    /\ ctx.pending = Len(flight) + (IF cpc = "enter" THEN 1 ELSE 0)
    /\ ndone + ctx.count = sglen * iterations
    /\ ctx.count >= ctx.pending
    /\ Busy = sglen \/ ctx.count = ctx.pending
    /\ ctx.done => Busy = 0 /\ ctx.count = 0

\* The URBs that the loop in ctrl_complete() may leave out.
Missed == IF sglen <= NumSubcases THEN {} ELSE 1 .. NumSubcases

\* After an error nothing but those is left to be submitted again.
CtrlFailed ==
    \/ ctx.count <= ctx.pending
    \/ /\ Range(flight) \ unlinked \subseteq Missed
       /\ cpc = "enter" => cst = "reset" \/ cur \in Missed
       /\ cpc = "leave" => cst # "ok" \/ cur \in Missed

\* An URB is not submitted while it is at the controller or in its handler.
OnceOut ==
    /\ \A k, l \in DOMAIN flight : flight[k] = flight[l] => k = l
    /\ Handling => cur \notin Range(flight) /\ cur \in 1 .. sglen
    /\ tpc = "submit" => Range(flight) \subseteq 1 .. i /\ (Handling => cur \in 1 .. i)
    /\ Range(flight) \subseteq 1 .. sglen

CtrlRun ==
    test = "ctrl" =>
        /\ OnceOut
        /\ iterations > 0
        /\ tpc = "submit" => CtrlSubmitting
        /\ ctx.status = "ok" /\ ~lost => unlinked = {} /\ Ring
        /\ ctx.status = "ok" /\ ~lost /\ tpc # "submit" => CtrlRunning
        /\ ctx.status # "ok" /\ tpc # "submit" => CtrlFailed

\* "completed out of order" is a status of ctrl_complete() alone.
OrderStatus ==
    /\ OrderErrorIsReal
    /\ cpc = "enter" => cst # "edom"

RunInv == Cancelled /\ QueueRun /\ CtrlRun /\ OrderStatus

-----------------------------------------------------------------------------
(* Numbers.                                                                *)

\* A counter that has not wrapped.
LEMMA ModSmall ==
    ASSUME NEW a \in Nat, NEW b \in Nat, a < b
    PROVE  a % b = a
OBVIOUS

\* The number of a subcase.
LEMMA ModRange ==
    ASSUME NEW a \in Nat, NEW n \in Nat \ {0}
    PROVE  a % n \in 0 .. n - 1 /\ \E q \in Nat : a = n * q + (a % n)
<1>1. a % n \in 0 .. n - 1
  OBVIOUS
<1>2. a \div n \in Nat
  OBVIOUS
<1>3. a = n * (a \div n) + (a % n)
  OBVIOUS
<1> QED BY <1>1, <1>2, <1>3

\* The subcase behind one that has completed.
LEMMA ModSucc ==
    ASSUME NEW a \in Nat, NEW n \in Nat \ {0}, (a + 1) % n > 0
    PROVE  a % n = ((a + 1) % n) - 1
<1> DEFINE r == a % n
           s == (a + 1) % n
<1>0. \A b \in Nat : b % n \in 0 .. n - 1 /\ \E q \in Nat : b = n * q + (b % n)
  BY ModRange
<1>1. r \in 0 .. n - 1 /\ s \in 0 .. n - 1 /\ s > 0
  <2>1. a + 1 \in Nat
    OBVIOUS
  <2>2. a % n \in 0 .. n - 1 /\ (a + 1) % n \in 0 .. n - 1
    BY <1>0, <2>1, Zenon
  <2> QED BY <2>2
<1>2. PICK p \in Nat : a = n * p + r
  BY <1>0
<1>3. PICK q \in Nat : a + 1 = n * q + s
  <2>1. a + 1 \in Nat
    OBVIOUS
  <2> QED BY <1>0, <2>1
<1> HIDE DEF r, s
<1>4. n * p \in Nat /\ n * q \in Nat
  OBVIOUS
<1>5. n * q + s = n * p + r + 1
  BY <1>1, <1>2, <1>3, <1>4
<1>6. CASE q >= p + 1
  <2>1. n * q >= n * (p + 1) /\ n * (p + 1) = n * p + n
    BY <1>6
  <2> QED BY <1>1, <1>4, <1>5, <2>1
<1>7. CASE p >= q + 1
  <2>1. n * p >= n * (q + 1) /\ n * (q + 1) = n * q + n
    BY <1>7
  <2> QED BY <1>1, <1>4, <1>5, <2>1
<1>8. CASE p = q
  <2>1. n * q = n * p
    BY <1>8
  <2>2. s = r + 1
    BY <1>1, <1>4, <1>5, <2>1
  <2> QED BY <1>1, <2>2 DEF r, s
<1> QED BY <1>6, <1>7, <1>8

-----------------------------------------------------------------------------
(* What the steps do to the URBs at the controller.                        *)

\* A submission adds one URB at the end.
LEMMA Submitted ==
    ASSUME TypeOK, NEW u \in Urbs, SubmitOk(u)
    PROVE  /\ flight \in Seq(Urbs) /\ flight' \in Seq(Urbs) /\ Len(flight) \in Nat
           /\ Len(flight') = Len(flight) + 1
           /\ \A k \in 1 .. Len(flight) : flight'[k] = flight[k]
           /\ flight'[Len(flight) + 1] = u
           /\ Range(flight') = Range(flight) \cup {u}
<1>1. flight \in Seq(Urbs) /\ flight' = Append(flight, u)
  BY DEF TypeOK, TypeHcd, SubmitOk
<1>2. /\ flight' \in Seq(Urbs) /\ Len(flight') = Len(flight) + 1 /\ Len(flight) \in Nat
      /\ flight'[Len(flight) + 1] = u /\ \A k \in 1 .. Len(flight) : flight'[k] = flight[k]
  BY <1>1, AppendProperties
<1>3. Range(flight) \cup {u} \subseteq Range(flight')
  <2>1. Len(flight) + 1 \in DOMAIN flight' /\ \A k \in DOMAIN flight : k \in DOMAIN flight'
    BY <1>1, <1>2
  <2> QED BY <1>1, <1>2, <2>1 DEF Range
<1>4. Range(flight') \subseteq Range(flight) \cup {u}
  <2> SUFFICES ASSUME NEW k \in 1 .. Len(flight) + 1
               PROVE  flight'[k] \in Range(flight) \cup {u}
    BY <1>2 DEF Range
  <2>1. k \in 1 .. Len(flight) \/ k = Len(flight) + 1
    BY <1>2
  <2> QED BY <1>1, <1>2, <2>1 DEF Range
<1> QED BY <1>1, <1>2, <1>3, <1>4

\* A giveback takes out one URB and keeps the others.
LEMMA GivenBack ==
    ASSUME TypeOK, NEW u \in Urbs, HcdGiveback(u)
    PROVE  Range(flight') \subseteq Range(flight) /\ Range(flight) \ {u} \subseteq Range(flight')
<1> DEFINE p == Position(u)
<1>1. /\ flight \in Seq(Urbs) /\ p \in 1 .. Len(flight) /\ flight[p] = u
      /\ flight' \in Seq(Urbs) /\ Len(flight') = Len(flight) - 1
      /\ \A j \in 1 .. Len(flight) - 1 : flight'[j] = flight[IF j < p THEN j ELSE j + 1]
  BY GivebackFlight
<1> HIDE DEF p
<1>2. ASSUME NEW j \in 1 .. Len(flight')
      PROVE  flight'[j] \in Range(flight)
  <2>1. (IF j < p THEN j ELSE j + 1) \in 1 .. Len(flight)
    BY <1>1
  <2>2. flight'[j] = flight[IF j < p THEN j ELSE j + 1]
    BY <1>1
  <2>3. DOMAIN flight = 1 .. Len(flight)
    BY <1>1
  <2>4. PICK m \in DOMAIN flight : flight'[j] = flight[m]
    BY <2>1, <2>2, <2>3, Zenon
  <2> QED BY <2>4, Zenon DEF Range
<1>3. ASSUME NEW k \in 1 .. Len(flight), flight[k] # u
      PROVE  flight[k] \in Range(flight')
  <2>1. CASE k < p
    <3>1. k \in 1 .. Len(flight') /\ flight'[k] = flight[k]
      BY <1>1, <2>1
    <3> QED BY <1>1, <3>1 DEF Range
  <2>2. CASE k > p
    <3>1. k - 1 \in 1 .. Len(flight) - 1 /\ ~(k - 1 < p) /\ k - 1 + 1 = k
      BY <1>1, <2>2
    <3>2. flight'[k - 1] = flight[k]
      BY <1>1, <3>1
    <3> QED BY <1>1, <3>1, <3>2 DEF Range
  <2> QED BY <1>1, <1>3, <2>1, <2>2
<1>4. Range(flight') \subseteq Range(flight)
  BY <1>1, <1>2 DEF Range
<1>5. Range(flight) \ {u} \subseteq Range(flight')
  <2> SUFFICES ASSUME NEW v \in Range(flight), v # u
               PROVE  v \in Range(flight')
    OBVIOUS
  <2>1. PICK k \in 1 .. Len(flight) : flight[k] = v
    BY <1>1 DEF Range
  <2> QED BY <1>3, <2>1
<1> QED BY <1>4, <1>5

\* Cancelling is for URBs at the controller.
LEMMA CancelKeeps ==
    ASSUME Cancelled, NEW us, Cancel(us), flight' = flight
    PROVE  unlinked' \subseteq Range(flight')
BY DEF Cancelled, Cancel

-----------------------------------------------------------------------------
(* The tests that are not queues of packets or control requests.           *)

Others == {"none", "simple", "sglist", "unlink1", "unlink_queued", "ctr_fuzz"}

\* For them only what is cancelled, the timer and the status matter.
LEMMA OtherFrame ==
    ASSUME test \in Others, test' = test, Cancelled', OrderStatus'
    PROVE  RunInv'
BY DEF Others, RunInv, QueueRun, CtrlRun

LEMMA UnlinkRuns ==
    ASSUME IInv, RunInv,
           \/ UnlinkSubmit \/ UnlinkAsync \/ UnlinkSync \/ UnlinkReturn \/ unlink1_callback
           \/ KillDone
    PROVE  test \in Others /\ Cancelled' /\ OrderStatus'
<1> USE FromInvariant DEF RunInv
<1>0. /\ test \in Single /\ (timer => tpc \in {"armed", "wait"} /\ test = "sglist")
      /\ KillDone => ~timer
  BY DEF UnlinkSubmit, UnlinkAsync, UnlinkSync, UnlinkReturn, unlink1_callback, KillDone,
     InHandler, IInv, PcOf, TypeTest, Kinds, Single, Cancelled
<1>1. CASE UnlinkSubmit
  <2>1. /\ Range(flight) \subseteq Range(flight') /\ UNCHANGED <<test, timer, unlinked, cpc, cst, lost>>
        /\ ~timer
    BY <1>0, <1>1, Submitted DEF UnlinkSubmit, IInv, params, history
  <2>2. ctx'.status = "ok" \/ ctx' = ctx
    BY <1>1 DEF UnlinkSubmit, NewContext
  <2> QED BY <1>0, <2>1, <2>2 DEF Cancelled, OrderStatus, OrderErrorIsReal, Others,
         Single
<1>2. CASE UnlinkAsync \/ UnlinkSync
  <2>1. /\ UNCHANGED <<test, timer, flight, cpc, cst, lost, ctx>> /\ (\E us : Cancel(us)) /\ ~timer
    BY <1>0, <1>2 DEF UnlinkAsync, UnlinkSync, Kill, params, history
  <2> QED BY <1>0, <2>1, CancelKeeps DEF Cancelled, OrderStatus, OrderErrorIsReal, Others,
         Single
<1>3. CASE UnlinkReturn \/ KillDone
  <2>1. UNCHANGED <<test, timer, flight, unlinked, cpc, cst, lost, ctx>>
    BY <1>3 DEF UnlinkReturn, KillDone, params, history, hcd
  <2>2. ~timer
    BY <1>0, <1>3 DEF UnlinkReturn
  <2> QED BY <1>0, <2>1, <2>2 DEF Cancelled, OrderStatus, OrderErrorIsReal, Others, Single
<1>4. CASE unlink1_callback
  <2>1. /\ Range(flight) \subseteq Range(flight') /\ UNCHANGED <<test, timer, unlinked, lost>>
        /\ cpc' = "return" /\ cpc = "enter" /\ test = "unlink1"
    BY <1>4, Submitted DEF unlink1_callback, InHandler, IInv, TypeHcd, params, history
  <2>2. ctx'.status # "edom" \/ ctx' = ctx
    <3>1. CASE ctx' = [ctx EXCEPT !.done = TRUE,
                                 !.status = IF cst # "ok" THEN cst
                                            ELSE IF reject THEN "eperm" ELSE "error"]
      <4>1. ctx'.status = IF cst # "ok" THEN cst ELSE IF reject THEN "eperm" ELSE "error"
        BY <3>1 DEF Context
      <4> QED BY <2>1, <4>1 DEF OrderStatus
    <3> QED BY <1>4, <3>1 DEF unlink1_callback
  <2> QED BY <1>0, <2>1, <2>2 DEF Cancelled, OrderStatus, OrderErrorIsReal, Others,
         Single
<1> QED BY <1>1, <1>2, <1>3, <1>4

LEMMA UnlinkQueuedRuns ==
    ASSUME IInv, RunInv,
           \/ UnlinkQueuedSubmit \/ UnlinkQueuedUnlink \/ UnlinkQueuedDrop
           \/ UnlinkQueuedReturn \/ unlink_queued_callback
    PROVE  test \in Others /\ Cancelled' /\ OrderStatus'
<1> USE FromInvariant DEF RunInv
<1>0. test = "unlink_queued"
  BY DEF UnlinkQueuedSubmit, UnlinkQueuedUnlink, UnlinkQueuedDrop, UnlinkQueuedReturn,
     unlink_queued_callback, InHandler
<1>1. CASE UnlinkQueuedSubmit
  <2>1. i + 1 \in Urbs
    BY <1>0, <1>1 DEF UnlinkQueuedSubmit, Looping
  <2>2. Range(flight) \subseteq Range(flight') /\ UNCHANGED <<test, timer, unlinked, cpc, cst, lost>>
    BY <1>1, <2>1, Submitted DEF UnlinkQueuedSubmit, IInv, params, history
  <2>3. ctx'.status = ctx.status \/ ctx'.status = "error"
    BY <1>1 DEF UnlinkQueuedSubmit, Context
  <2> QED BY <1>0, <2>2, <2>3 DEF Cancelled, OrderStatus, OrderErrorIsReal, Others
<1>2. CASE UnlinkQueuedUnlink
  <2>1. /\ UNCHANGED <<test, timer, flight, cpc, cst, lost, ctx>> /\ \E us : Cancel(us)
    BY <1>2 DEF UnlinkQueuedUnlink, params, history
  <2> QED BY <1>0, <2>1, CancelKeeps DEF Cancelled, OrderStatus, OrderErrorIsReal, Others
<1>3. CASE UnlinkQueuedDrop
  <2>1. UNCHANGED <<test, timer, flight, unlinked, cpc, cst, lost>>
    BY <1>3 DEF UnlinkQueuedDrop, params, history, hcd
  <2>2. ctx'.status = ctx.status
    BY <1>3 DEF UnlinkQueuedDrop, CompleteIf, Context
  <2> QED BY <1>0, <2>1, <2>2 DEF Cancelled, OrderStatus, OrderErrorIsReal, Others
<1>4. CASE UnlinkQueuedReturn
  <2>1. UNCHANGED <<test, timer, flight, unlinked, cpc, cst, lost>>
    BY <1>4 DEF UnlinkQueuedReturn, params, history, hcd
  <2>2. ctx' = ctx \/ ctx'.status = "ok"
    BY <1>0, <1>4 DEF UnlinkQueuedReturn, FirstContext, NewContext
  <2> QED BY <1>0, <2>1, <2>2 DEF Cancelled, OrderStatus, OrderErrorIsReal, Others
<1>5. CASE unlink_queued_callback
  <2>1. /\ UNCHANGED <<test, timer, flight, unlinked, lost>> /\ cpc = "enter" /\ cpc' = "return"
    BY <1>5 DEF unlink_queued_callback, InHandler, params, history
  <2>2. ctx'.status \in {ctx.status, cst}
    BY <1>5 DEF unlink_queued_callback, CompleteIf, Context
  <2> QED BY <1>0, <2>1, <2>2 DEF Cancelled, OrderStatus, OrderErrorIsReal, Others
<1> QED BY <1>1, <1>2, <1>3, <1>4, <1>5

LEMMA TransferRuns ==
    ASSUME IInv, RunInv,
           \/ TransferSubmit \/ SglistArm \/ SglistSubmit \/ SimpleTimeout \/ TransferDone
           \/ simple_callback
    PROVE  test \in Others /\ Cancelled' /\ OrderStatus'
<1> USE FromInvariant DEF RunInv
<1>0. test \in OneByOne
  BY DEF TransferSubmit, SglistArm, SglistSubmit, SimpleTimeout, TransferDone, simple_callback,
     InHandler, OneByOne
<1>1. CASE TransferSubmit
  <2>1. /\ Range(flight) \subseteq Range(flight') /\ UNCHANGED <<test, unlinked, cpc, cst, lost>>
    BY <1>1, Submitted DEF TransferSubmit, IInv, params, history
  <2>2. ctx' = ctx \/ ctx'.status = "ok"
    BY <1>1 DEF TransferSubmit, NewContext
  <2>3. ~timer'
    BY <1>1 DEF TransferSubmit, Cancelled
  <2> QED BY <1>0, <2>1, <2>2, <2>3
         DEF Cancelled, OrderStatus, OrderErrorIsReal, Others, OneByOne
<1>2. CASE SimpleTimeout
  <2>1. /\ UNCHANGED <<test, timer, flight, cpc, cst, lost, ctx>> /\ (\E us : Cancel(us))
        /\ ~timer
    BY <1>2 DEF SimpleTimeout, Kill, params, history, Cancelled
  <2> QED BY <1>0, <2>1, CancelKeeps
         DEF Cancelled, OrderStatus, OrderErrorIsReal, Others, OneByOne
<1>3. CASE TransferDone
  <2>1. UNCHANGED <<test, flight, unlinked, cpc, cst, lost, ctx>> /\ ~timer'
    BY <1>3 DEF TransferDone, params, history, hcd
  <2> QED BY <1>0, <2>1 DEF Cancelled, OrderStatus, OrderErrorIsReal, Others, OneByOne
<1>4. CASE simple_callback
  <2>1. /\ UNCHANGED <<test, tpc, timer, flight, unlinked, lost>> /\ cpc = "enter" /\ cpc' = "return"
    BY <1>4 DEF simple_callback, InHandler, params, history
  <2>2. ctx'.status \in {ctx.status, cst}
    BY <1>4 DEF simple_callback, Context
  <2> QED BY <1>0, <2>1, <2>2 DEF Cancelled, OrderStatus, OrderErrorIsReal, Others, OneByOne
<1>5. CASE SglistArm
  <2>1. /\ UNCHANGED <<test, flight, unlinked, cpc, cst, lost>>
        /\ test = "sglist" /\ tpc' = "armed" /\ ctx'.status = "ok"
    BY <1>5 DEF SglistArm, params, hcd, history, NewContext
  <2> QED BY <2>1 DEF Cancelled, OrderStatus, OrderErrorIsReal, Others
<1>6. CASE SglistSubmit
  <2>1. /\ Range(flight) \subseteq Range(flight') /\ UNCHANGED <<test, timer, unlinked, cpc, cst, lost>>
        /\ test = "sglist" /\ tpc' = "wait"
    BY <1>6, Submitted DEF SglistSubmit, IInv, params, history
  <2>2. ctx'.status \in {ctx.status, "error"}
    BY <1>6 DEF SglistSubmit, Context
  <2> QED BY <2>1, <2>2 DEF Cancelled, OrderStatus, OrderErrorIsReal, Others
<1> QED BY <1>1, <1>2, <1>3, <1>4, <1>5, <1>6

\* host_ctr_fuzz() shares the thread's part with test_ctrl_queue().
LEMMA CtrFuzzRuns ==
    ASSUME IInv, RunInv, test = "ctr_fuzz",
           CtrlSubmit \/ CtrlCheck \/ CtrlReturn \/ empty_complete \/ EmptyCompleteSignal
    PROVE  Cancelled' /\ OrderStatus'
<1> USE FromInvariant DEF RunInv
<1>0. ~timer
  BY DEF Cancelled
<1>1. CASE CtrlSubmit
  <2>1. i + 1 \in Urbs
    BY <1>1 DEF CtrlSubmit, Looping
  <2>2. Range(flight) \subseteq Range(flight') /\ UNCHANGED <<timer, unlinked, cpc, cst, lost>>
    BY <1>1, <2>1, Submitted DEF CtrlSubmit, IInv, history
  <2>3. ctx'.status \in {"ok", "error"}
    BY <1>1 DEF CtrlSubmit, Context
  <2> QED BY <1>0, <2>2, <2>3 DEF Cancelled, OrderStatus, OrderErrorIsReal
<1>2. CASE CtrlCheck \/ CtrlReturn
  <2>1. UNCHANGED <<timer, flight, unlinked, cpc, cst, lost, ctx>>
    BY <1>2 DEF CtrlCheck, CtrlReturn, hcd, history
  <2> QED BY <1>0, <2>1 DEF Cancelled, OrderStatus, OrderErrorIsReal
<1>3. CASE empty_complete \/ EmptyCompleteSignal
  <2>1. UNCHANGED <<timer, flight, unlinked, lost>> /\ cpc' # "enter"
    BY <1>3 DEF empty_complete, EmptyCompleteSignal, InHandler, history
  <2>2. ctx'.status = ctx.status
    BY <1>3 DEF empty_complete, EmptyCompleteSignal, CompleteIf, Context
  <2> QED BY <1>0, <2>1, <2>2 DEF Cancelled, OrderStatus, OrderErrorIsReal
<1> QED BY <1>1, <1>2, <1>3

\* The timer of perform_sglist() is armed only while that test submits and waits.
LEMMA SgTimeoutRuns ==
    ASSUME IInv, RunInv, sg_timeout
    PROVE  test \in Others /\ Cancelled' /\ OrderStatus'
<1> USE FromInvariant DEF RunInv
<1>1. UNCHANGED <<test, flight, cpc, cst, lost>> /\ ~timer' /\ timer
      /\ (Cancel(Urbs) \/ unlinked' = unlinked)
  BY DEF sg_timeout, params, history
<1>2. ctx'.status \in {ctx.status, "reset"}
  BY DEF sg_timeout, Context
<1> QED BY <1>1, <1>2, CancelKeeps DEF Cancelled, OrderStatus, OrderErrorIsReal, Others

-----------------------------------------------------------------------------
(* test_queue().                                                           *)

\* With at least one iteration there are as many completions to come as there are URBs.
LEMMA Product ==
    ASSUME NEW m \in Nat, NEW n \in Nat
    PROVE  m * n \in Nat /\ (n > 0 => m * n >= m)
OBVIOUS

\* Nothing is wanted beyond the URBs in flight, unless the count says so.
LEMMA WantedIs ==
    ASSUME NEW count \in Int, NEW pending \in Int, 1 <= pending, pending <= UMax, UMax \in Nat \ {0}
    PROVE  Wanted(count, pending) <=> count >= pending
<1>1. (pending - 1) % UMax = pending - 1
  OBVIOUS
<1> QED BY <1>1 DEF Wanted

LEMMA QueueRuns ==
    ASSUME IInv, RunInv, QueueSubmit \/ QueueReturn \/ complicated_callback
    PROVE  RunInv'
<1> USE FromInvariant DEF RunInv
<1> DEFINE N == sglen * iterations
<1>0. /\ test = "queue" /\ test' = "queue" /\ ~timer /\ timer' = timer
      /\ UNCHANGED <<sglen, iterations, unlinked>>
      /\ sglen \in Nat /\ iterations \in Nat /\ i \in Nat /\ ndone \in Nat /\ UMax \in Nat
      /\ Len(flight) \in Nat /\ sglen > 0
  BY DEF QueueSubmit, QueueReturn, complicated_callback, InHandler, params, hcd, Cancelled,
     IInv, TypeTest, TypeHcd, LoopBound, Looping
<1>1. N \in Nat /\ (iterations > 0 => N >= sglen) /\ N < UMax
  BY <1>0, Product DEF QueueRun
<1>2. CtrlRun'
  BY <1>0 DEF CtrlRun
<1> HIDE DEF N
<1>3. CASE QueueSubmit
  <2>1. i + 1 \in Urbs /\ i < sglen /\ tpc = "submit"
    BY <1>0, <1>3 DEF QueueSubmit, Looping, IInv, LoopBound
  <2>2. Range(flight) \subseteq Range(flight') /\ UNCHANGED <<cpc, cst, lost, ndone>>
    BY <1>3, <2>1, Submitted DEF QueueSubmit, IInv, history
  <2>3. ctx.count = N /\ ndone = 0 /\ ctx.pending = i /\ ~ctx.done
    BY <1>0, <2>1 DEF QueueRun, N, IInv, QueueCount
  <2>4. /\ \/ i' = i + 1 /\ ctx'.pending = ctx.pending + 1 /\ ctx'.count = ctx.count
              /\ tpc' = IF i + 1 = sglen THEN "wait" ELSE "submit"
           \/ i = 0 /\ tpc' = "return"
           \/ tpc' = "wait" /\ ctx'.submit_error
        /\ ctx'.done = ctx.done
        /\ ctx'.status \in {ctx.status, "error"}
    <3>1. CASE ctx' = [ctx EXCEPT !.pending = @ + 1]
      BY <1>3, <3>1 DEF QueueSubmit, LoopOr, Leave, Context
    <3>2. CASE i > 0 /\ tpc' = "wait" /\ ctx' = [ctx EXCEPT !.submit_error = TRUE, !.status = "error"]
      BY <3>2 DEF Context
    <3> QED BY <1>3, <3>1, <3>2 DEF QueueSubmit
  <2>5. QueueRun'
    BY <1>0, <1>1, <2>1, <2>2, <2>3, <2>4 DEF QueueRun, N, Clean
  <2> QED BY <1>0, <1>2, <2>2, <2>4, <2>5 DEF Cancelled, OrderStatus, OrderErrorIsReal
<1>4. CASE QueueReturn
  <2>1. UNCHANGED <<flight, cpc, cst, lost, ndone, ctx>> /\ tpc' = "return"
    BY <1>4 DEF QueueReturn, hcd, history, Leave
  <2>2. QueueRun'
    BY <1>0, <2>1 DEF QueueRun, Clean
  <2> QED BY <1>0, <1>2, <2>1, <2>2 DEF Cancelled, OrderStatus, OrderErrorIsReal
<1>5. CASE complicated_callback
  <2>1. cur \in Urbs /\ cpc = "enter" /\ cpc' = "return" /\ ndone' = ndone + 1 /\ tpc' = tpc /\ i' = i
    BY <1>5 DEF complicated_callback, InHandler, IInv, TypeHcd
  <2>2. Busy >= 1
    BY <1>0, <2>1 DEF Busy
  <2>3. tpc = "wait" /\ ctx.pending = Busy /\ ~ctx.done
    <3>1. tpc \notin {"idle", "return", "submit"}
      BY <1>0, <1>5, <2>2 DEF complicated_callback, LockFree, IInv, Returned, Waiting
    <3> QED BY <1>0, <2>2, <3>1 DEF IInv, PcOf, QueueCount
  <2>4. Range(flight) \subseteq Range(flight') /\ ctx'.status = ctx.status
    <3>1. Range(flight) \subseteq Range(flight')
      BY <1>5, <2>1, Submitted DEF complicated_callback, IInv
    <3>2. ctx'.status = ctx.status
      BY <1>5 DEF complicated_callback, CompleteIf, Context
    <3> QED BY <3>1, <3>2
  <2>5. ASSUME iterations > 0, Clean'
        PROVE  /\ ndone + ctx.count = N /\ ctx.count >= ctx.pending
               /\ ctx.pending = sglen \/ ctx.count = ctx.pending
               /\ ctx'.count = ctx.count - 1
               /\ \/ ctx.count - 1 >= ctx.pending /\ ctx'.pending = ctx.pending
                     /\ ctx'.done = ctx.done
                  \/ ~(ctx.count - 1 >= ctx.pending) /\ ctx'.pending = ctx.pending - 1
                     /\ (ctx'.done <=> ctx.pending = 1)
    <3> DEFINE errors == IF cst # "ok" THEN TRUE ELSE ctx.errors
               c == [ctx EXCEPT !.count = (ctx.count - 1) % UMax, !.errors = errors]
               d == [c EXCEPT !.submit_error = TRUE]
               Drop(x) == CompleteIf([x EXCEPT !.pending = x.pending - 1], x.pending = 1)
               again == cst = "ok" /\ Wanted(c.count, c.pending) /\ ~c.submit_error
    <3>1. (ctx.count - 1) % UMax \in Int
      BY ModInt
    <3>2. errors \in BOOLEAN
      BY Zenon
    <3>3. /\ c \in Context /\ c.pending = ctx.pending /\ c.done = ctx.done
          /\ c.count = (ctx.count - 1) % UMax /\ c.errors = errors
          /\ c.submit_error = ctx.submit_error
      BY <3>1, <3>2 DEF Context
    <3>4. \/ again /\ ctx' = c /\ lost' = lost
          \/ ctx' = Drop(d) /\ lost'
          \/ ~again /\ ctx' = Drop(c) /\ lost' = lost
      BY <1>5 DEF complicated_callback
    <3>5. ~lost'
      BY <2>5 DEF Clean
    <3>6. /\ Drop(c).count = c.count /\ Drop(c).pending = c.pending - 1
          /\ (Drop(c).done <=> c.pending = 1 \/ c.done) /\ Drop(c).errors = c.errors
          /\ Drop(c).submit_error = c.submit_error
      <4> HIDE DEF c
      <4>1. [c EXCEPT !.pending = c.pending - 1] \in Context
        BY <3>3 DEF Context
      <4> QED BY <3>3, <4>1 DEF CompleteIf, Context
    <3>7. ctx'.errors = errors /\ ctx'.submit_error = ctx.submit_error
      <4> HIDE DEF c, d, Drop, again
      <4> QED BY <3>3, <3>4, <3>5, <3>6
    <3>8. cst = "ok" /\ ~ctx.errors /\ ~ctx.submit_error /\ ctx.status = "ok" /\ ~lost
      <4>1. ~ctx'.errors /\ ~ctx'.submit_error /\ ctx'.status = "ok"
        BY <2>5 DEF Clean
      <4>2. ~lost
        BY <3>4, <3>5, Zenon
      <4> QED BY <2>4, <3>7, <4>1, <4>2, Zenon
    <3>9. /\ ndone + ctx.count = N /\ ctx.count >= ctx.pending
          /\ ctx.pending = sglen \/ ctx.count = ctx.pending
      BY <1>0, <2>3, <2>5, <3>8 DEF QueueRun, N, Clean
    <3>10. 1 <= ctx.pending /\ ctx.count <= N
      BY <1>0, <2>2, <2>3, <3>9
    <3>11. (ctx.count - 1) % UMax = ctx.count - 1
      <4>1. ctx.count - 1 \in Nat /\ ctx.count - 1 < UMax
        BY <1>0, <1>1, <3>9, <3>10
      <4> QED BY <1>0, <4>1, ModSmall
    <3>12. Wanted(c.count, c.pending) <=> ctx.count - 1 >= ctx.pending
      <4>1. ctx.pending <= UMax
        BY <1>0, <1>1, <3>9, <3>10
      <4> QED BY <3>3, <3>10, <3>11, <4>1, WantedIs
    <3>13. again <=> ctx.count - 1 >= ctx.pending
      BY <3>3, <3>8, <3>12, Zenon
    <3> HIDE DEF c, d, Drop, again
    <3> QED BY <2>3, <3>3, <3>4, <3>5, <3>6, <3>9, <3>11, <3>13
  <2>6. QueueRun'
    <3>1. ASSUME iterations > 0, Clean'
          PROVE  /\ ndone' + ctx'.count = N /\ ctx'.count >= ctx'.pending
                 /\ ctx'.pending = sglen \/ ctx'.count = ctx'.pending
                 /\ ctx'.done => ndone' = N
      BY <1>0, <1>1, <2>1, <2>3, <2>5, <3>1
    <3>2. N = (sglen * iterations)' /\ (iterations > 0 <=> iterations' > 0)
      BY <1>0 DEF N
    <3> QED BY <1>0, <1>1, <2>1, <2>3, <3>1, <3>2 DEF QueueRun
  <2>7. lost => lost'
    BY <1>5 DEF complicated_callback, InHandler
  <2> QED BY <1>0, <1>2, <2>1, <2>4, <2>6, <2>7 DEF Cancelled, OrderStatus, OrderErrorIsReal
<1> QED BY <1>3, <1>4, <1>5

-----------------------------------------------------------------------------
(* test_ctrl_queue().                                                      *)

\* Of the control queue's steps, what concerns the test's other parts.
LEMMA CtrlStep ==
    ASSUME IInv, RunInv, test = "ctrl",
           CtrlSubmit \/ CtrlCheck \/ CtrlReturn \/ ctrl_complete \/ CtrlResubmit
    PROVE  /\ test' = "ctrl" /\ ~timer' /\ UNCHANGED <<sglen, iterations>> /\ QueueRun'
           /\ sglen \in Nat /\ sglen > 0 /\ iterations \in Nat /\ i \in Nat /\ ndone \in Nat
           /\ flight \in Seq(Urbs) /\ Len(flight) \in Nat /\ iterations > 0 /\ OnceOut
BY FromInvariant DEF CtrlSubmit, CtrlCheck, CtrlReturn, ctrl_complete, CtrlResubmit, InHandler,
   params, hcd, RunInv, Cancelled, QueueRun, CtrlRun, IInv, TypeTest, TypeHcd, LoopBound, Looping

\* The submission loop.
LEMMA CtrlSubmitRuns ==
    ASSUME IInv, RunInv, test = "ctrl", CtrlSubmit
    PROVE  RunInv'
<1> DEFINE N == sglen * iterations
<1>0. /\ test' = "ctrl" /\ ~timer' /\ UNCHANGED <<sglen, iterations>> /\ QueueRun'
      /\ sglen \in Nat /\ sglen > 0 /\ iterations \in Nat /\ i \in Nat /\ ndone \in Nat
      /\ flight \in Seq(Urbs) /\ Len(flight) \in Nat /\ iterations > 0 /\ OnceOut
  BY CtrlStep
<1>1. /\ tpc = "submit" /\ CtrlSubmitting /\ i < sglen /\ i + 1 \in Urbs
      /\ unlinked = {} /\ Ring /\ cpc \in {"none", "enter", "return"} /\ ctx \in Context
      /\ UNCHANGED <<unlinked, cur, cst, cpc, ndone, lost>>
  BY FromInvariant DEF CtrlSubmit, RunInv, CtrlRun, CtrlSubmitting, IInv, LoopBound, Looping,
     TypeHcd, history
<1>2. N' = N /\ N \in Nat /\ N >= sglen
  BY <1>0, Product
<1>3. ctx.count = N /\ ndone = 0 /\ ctx.pending = i /\ Busy = i /\ ctx.status = "ok" /\ ~ctx.done /\ ~lost
  BY <1>1 DEF CtrlSubmitting
<1> HIDE DEF N
<1>4. ASSUME ctx'.status = "edom" PROVE FALSE
  <2>1. ctx'.status \in {"ok", "error"}
    BY <1>1 DEF CtrlSubmit, Context
  <2> QED BY <1>4, <2>1
<1>5. OrderStatus'
  BY <1>1, <1>4 DEF RunInv, OrderStatus, OrderErrorIsReal
<1>6. CASE SubmitOk(i + 1) /\ i' = i + 1
           /\ ctx' = [ctx EXCEPT !.pending = @ + 1, !.status = "ok"] /\ tpc' = LoopOr("check")
  <2>1. /\ flight' \in Seq(Urbs) /\ Len(flight') = Len(flight) + 1
        /\ \A k \in 1 .. Len(flight) : flight'[k] = flight[k]
        /\ flight'[Len(flight) + 1] = i + 1 /\ Range(flight') = Range(flight) \cup {i + 1}
    BY <1>1, <1>6, Submitted DEF IInv
  <2>2. /\ ctx'.pending = i + 1 /\ ctx'.status = "ok" /\ ctx'.count = N
        /\ ctx'.done = ctx.done /\ ctx'.last = ctx.last
        /\ tpc' = IF i + 1 = sglen THEN "check" ELSE "submit"
    BY <1>1, <1>3, <1>6 DEF Context, LoopOr
  <2>3. Busy' = i + 1 /\ Len(flight) = IF Handling THEN i - 1 ELSE i
    BY <1>0, <1>1, <1>3, <2>1 DEF Busy, Handling
  <2>4. OnceOut'
    <3>1. \A k, l \in 1 .. Len(flight') : flight'[k] = flight'[l] => k = l
      <4> SUFFICES ASSUME NEW k \in 1 .. Len(flight'), NEW l \in 1 .. Len(flight'), k < l,
                          flight'[k] = flight'[l]
                   PROVE  FALSE
        BY <2>1
      <4>1. k \in 1 .. Len(flight) /\ flight'[k] = flight[k] /\ flight[k] \in 1 .. i
        BY <1>0, <1>1, <2>1 DEF OnceOut, Range
      <4>2. CASE l = Len(flight) + 1
        <5>1. flight'[l] = i + 1
          BY <2>1, <4>2
        <5>2. i + 1 \notin 1 .. i
          BY <1>0
        <5> QED BY <4>1, <5>1, <5>2
      <4>3. CASE l \in 1 .. Len(flight)
        <5>1. flight'[l] = flight[l]
          BY <2>1, <4>3
        <5>2. flight[k] = flight[l]
          BY <4>1, <5>1, Zenon
        <5>3. DOMAIN flight = 1 .. Len(flight)
          BY <1>0
        <5>4. k = l
          BY <1>0, <4>1, <4>3, <5>2, <5>3, Zenon DEF OnceOut
        <5> QED BY <5>4
      <4> QED BY <1>0, <2>1, <4>2, <4>3
    <3>2. Handling => cur \in 1 .. i /\ cur \in 1 .. sglen /\ cur \notin Range(flight')
      BY <1>0, <1>1, <2>1 DEF OnceOut
    <3>3. Range(flight') \subseteq 1 .. i + 1 /\ Range(flight') \subseteq 1 .. sglen
      BY <1>0, <1>1, <2>1 DEF OnceOut
    <3> QED BY <1>0, <1>1, <1>6, <2>1, <3>1, <3>2, <3>3 DEF OnceOut, Handling
  <2>5. /\ cpc = "enter" => cur = 1
        /\ flight'[1] = IF Handling THEN 2 ELSE 1
    <3>1. ~Handling /\ Len(flight) > 0 => flight[1] = 1
      BY <1>0, <1>1 DEF CtrlSubmitting
    <3>2. cpc = "enter" => cur = 1 /\ \A k \in 1 .. Len(flight) : flight[k] = Behind(1, k)
      BY <1>0, <1>1 DEF CtrlSubmitting, Ring, Handling
    <3> QED BY <1>0, <1>1, <2>1, <2>3, <3>1, <3>2 DEF Behind, Handling
  <2>6. Ring'
    <3>1. \A k \in 1 .. Len(flight') : flight'[k] \in 1 .. sglen
      BY <1>0, <1>1, <2>1 DEF Ring, Handling
    <3>2. cpc = "enter" => \A k \in 1 .. Len(flight') : flight'[k] = Behind(1, k)
      BY <1>0, <1>1, <2>1, <2>3, <2>5 DEF Ring, Behind, Handling
    <3>3. ~Handling => \A k \in 1 .. Len(flight') : flight'[k] = Behind(1, k - 1)
      <4> SUFFICES ASSUME ~Handling, NEW k \in 1 .. Len(flight')
                   PROVE  flight'[k] = Behind(1, k - 1)
        OBVIOUS
      <4>1. i = Len(flight) /\ i + 1 <= sglen /\ i \in Nat /\ sglen \in Nat
        BY <1>0, <1>1, <1>3, <2>3 DEF Handling, Busy
      <4>2. CASE k = i + 1
        <5>1. flight'[k] = i + 1
          BY <2>1, <4>1, <4>2
        <5> QED BY <4>1, <4>2, <5>1 DEF Behind
      <4>3. CASE k \in 1 .. i
        <5>1. k \in DOMAIN flight /\ 1 \in DOMAIN flight /\ flight'[k] = flight[k]
          BY <1>0, <2>1, <4>1, <4>3
        <5>2. flight[k] = Behind(flight[1], k - 1)
          BY <1>1, <5>1, Zenon DEF Ring
        <5>3. flight[1] = 1
          BY <2>1, <2>5, <4>1, <4>3
        <5> QED BY <5>1, <5>2, <5>3
      <4> QED BY <2>1, <4>1, <4>2, <4>3
    <3>4. \A u, k : Behind(u, k)' = Behind(u, k)
      BY <1>0 DEF Behind
    <3>5. /\ cpc' = "enter" => InOrder(cur)'
          /\ ~Handling' => InOrder(1)'
      <4>1. (1 - 1) % NumSubcases = 0
        BY SizesAssumption, ModSmall
      <4> QED BY <1>1, <2>5, <4>1 DEF InOrder, Handling
    <3>6. Handling' => /\ cur' \in 1 .. sglen'
                           /\ \A k \in DOMAIN flight' : flight'[k] = Behind(cur, k)'
      BY <1>0, <1>1, <2>1, <2>5, <3>2, <3>4 DEF Handling
    <3>7. ~Handling' => \A k \in DOMAIN flight' : flight'[k] = Behind(flight[1], k - 1)'
      BY <1>1, <2>1, <2>5, <3>3, <3>4 DEF Handling
    <3>8. ~Handling' /\ flight' # <<>> => InOrder(flight[1])'
      BY <1>1, <2>5, <3>5 DEF Handling
    <3>9. Busy' <= sglen' /\ \A k \in DOMAIN flight' : flight'[k] \in 1 .. sglen'
      BY <1>0, <1>1, <2>1, <2>3, <3>1
    <3>10. cpc' # "leave"
      BY <1>1
    <3> HIDE DEF RunInv
    <3> QED BY <3>5, <3>6, <3>7, <3>8, <3>9, <3>10 DEF Ring, Handling
  <2>7. tpc' = "submit" => CtrlSubmitting'
    <3>1. /\ cpc' # "leave" /\ ctx'.status = "ok" /\ ~ctx'.done /\ ~lost' /\ ndone' = 0
          /\ ctx'.count = (sglen * iterations)' /\ ctx'.pending = i' /\ Busy' = i'
      BY <1>1, <1>2, <1>3, <1>6, <2>2, <2>3 DEF N
    <3>2. (cpc' = "enter" => cur' = 1) /\ (~Handling' => flight'[1] = 1)
      BY <1>1, <2>5 DEF Handling
    <3> QED BY <3>1, <3>2 DEF CtrlSubmitting
  <2>8. tpc' # "submit" => CtrlRunning'
    <3> SUFFICES ASSUME tpc' # "submit" PROVE CtrlRunning'
      OBVIOUS
    <3>1. Busy' = sglen' /\ ctx'.pending = sglen /\ ~ctx'.done /\ cpc' # "leave"
      BY <1>0, <1>1, <1>3, <2>2, <2>3
    <3>2. ndone' + ctx'.count = (sglen * iterations)' /\ ctx'.count >= ctx'.pending
      BY <1>0, <1>1, <1>2, <1>3, <2>2, <3>1 DEF N
    <3>3. ctx'.pending = Len(flight') + (IF cpc' = "enter" THEN 1 ELSE 0)
      <4>1. CASE Handling
        BY <1>0, <1>1, <2>1, <2>2, <2>3, <4>1 DEF Handling
      <4>2. CASE ~Handling
        BY <1>0, <1>1, <2>1, <2>2, <2>3, <4>2 DEF Handling
      <4> QED BY <4>1, <4>2
    <3> QED BY <3>1, <3>2, <3>3 DEF CtrlRunning
  <2>9. CtrlRun'
    BY <1>0, <1>1, <2>2, <2>4, <2>6, <2>7, <2>8 DEF CtrlRun
  <2> QED BY <1>0, <1>1, <1>5, <2>9 DEF Cancelled, RunInv
<1>7. CASE ctx' = [ctx EXCEPT !.count = ctx.pending, !.status = "error"] /\ tpc' = "check"
           /\ UNCHANGED <<i, flight>>
  <2>1. ctx'.count = ctx.pending /\ ctx'.pending = ctx.pending /\ ctx'.status = "error"
    BY <1>1, <1>7 DEF Context
  <2>2. OnceOut' /\ CtrlFailed'
    BY <1>0, <1>1, <1>3, <1>7, <2>1 DEF OnceOut, CtrlFailed, Handling
  <2>3. CtrlRun'
    BY <1>0, <1>1, <1>7, <2>1, <2>2 DEF CtrlRun
  <2> QED BY <1>0, <1>1, <1>5, <1>7, <2>3 DEF Cancelled, RunInv
<1> QED BY <1>6, <1>7 DEF CtrlSubmit

\* Waiting for the last completion.
LEMMA CtrlWaitRuns ==
    ASSUME IInv, RunInv, test = "ctrl", CtrlCheck \/ CtrlReturn
    PROVE  RunInv'
<1>1. test' = "ctrl" /\ ~timer' /\ UNCHANGED <<sglen, iterations>> /\ QueueRun' /\ OnceOut
  BY CtrlStep
<1>2. /\ UNCHANGED <<ctx, i, flight, unlinked, cur, cst, cpc, ndone, lost>>
      /\ tpc # "submit" /\ tpc' # "submit"
  BY DEF CtrlCheck, CtrlReturn, Leave, hcd, history
<1>3. (Ring <=> Ring') /\ (CtrlRunning <=> CtrlRunning') /\ (CtrlFailed <=> CtrlFailed') /\ OnceOut'
  BY <1>1, <1>2 DEF Ring, Behind, InOrder, CtrlRunning, CtrlFailed, Missed, Busy, OnceOut,
     Handling
<1>4. CtrlRun'
  BY <1>1, <1>2, <1>3 DEF RunInv, CtrlRun
<1> QED BY <1>1, <1>2, <1>4 DEF RunInv, Cancelled, OrderStatus, OrderErrorIsReal

\* ctrl_complete() makes no order error of an URB that is in order, and no success of one
\* that was cancelled.
LEMMA CtrlStatusIs ==
    ASSUME NEW u \in Urbs, cst \in Status
    PROVE  LET st == CtrlStatus((u - 1) % NumSubcases)
           IN  /\ st \in Status
               /\ InOrder(u) /\ cst # "edom" => st # "edom"
               /\ cst = "reset" => st # "ok"
<1> DEFINE number == (u - 1) % NumSubcases
<1>1. Allowed(number) \subseteq {"ok", "epipe", "remoteio"}
  BY DEF Allowed
<1>2. number \in Int
  <2>1. u - 1 \in Int
    BY Sizes DEF Urbs
  <2> QED BY <2>1, ModInt, SizesAssumption
<1> HIDE DEF number
<1>3. CtrlStatus(number) \in {"edom", "ok", cst} /\ (cst = "reset" => CtrlStatus(number) # "ok")
  BY <1>1 DEF CtrlStatus
<1>4. CtrlStatus(number) = "edom" => cst = "edom" \/ (number > 0 /\ number - ctx.last # 1)
  BY DEF CtrlStatus
<1>5. InOrder(u) => ~(number > 0 /\ number - ctx.last # 1)
  BY <1>2 DEF InOrder, number
<1>6. "edom" \in Status /\ "ok" \in Status
  BY DEF Status
<1> QED BY <1>3, <1>4, <1>5, <1>6 DEF number

\* The first error leaves at most one URB at the controller uncancelled, and none unless
\* the queue is longer than the list of subcases.
LEMMA FirstErrorCancels ==
    ASSUME IInv, OnceOut, cpc = "enter", NEW st, st # "ok", ctx.status = "ok", sglen \in Nat,
           Cancel(ToCancel(st, (cur - 1) % NumSubcases))
    PROVE  Range(flight) \ unlinked' \subseteq Missed
<1> DEFINE number == (cur - 1) % NumSubcases
<1>1. /\ cur \in 1 .. sglen /\ cur - 1 \in Nat /\ cur \in Nat
      /\ NumSubcases \in Nat \ {0} /\ NumSubcases \in Nat
  BY SizesAssumption DEF OnceOut, Handling
<1>2. number \in 0 .. NumSubcases - 1
  BY <1>1, ModRange
<1>3. Range(flight) \ unlinked' \subseteq {number + 1}
  BY FromInvariant DEF Cancel, ToCancel
<1>4. CASE sglen <= NumSubcases
  <2>1. cur - 1 < NumSubcases
    BY <1>1, <1>4
  <2>2. number = cur - 1
    BY <1>1, <2>1, ModSmall
  <2> HIDE DEF number
  <2>3. number + 1 = cur
    BY <1>1, <2>2
  <2> QED BY <1>3, <2>3 DEF OnceOut, Handling
<1>5. CASE ~(sglen <= NumSubcases)
  <2> HIDE DEF number
  <2>1. number + 1 \in 1 .. NumSubcases
    BY <1>1, <1>2
  <2> QED BY <1>3, <1>5, <2>1 DEF Missed
<1> QED BY <1>4, <1>5

\* ctrl_complete(): one completion is counted; an error cancels what is at the controller.
LEMMA CtrlCompleteRuns ==
    ASSUME IInv, RunInv, test = "ctrl", ctrl_complete
    PROVE  RunInv'
<1> DEFINE number == (cur - 1) % NumSubcases
           st == CtrlStatus(number)
           N == sglen * iterations
<1>0. /\ test' = "ctrl" /\ ~timer' /\ UNCHANGED <<sglen, iterations>> /\ QueueRun'
      /\ sglen \in Nat /\ sglen > 0 /\ iterations \in Nat /\ i \in Nat /\ ndone \in Nat
      /\ flight \in Seq(Urbs) /\ Len(flight) \in Nat /\ iterations > 0 /\ OnceOut
  BY CtrlStep
<1>1. /\ cpc = "enter" /\ cpc' = "leave" /\ tpc # "submit" /\ ctx \in Context /\ cst \in Status
      /\ cur \in Urbs /\ UNCHANGED <<tpc, i, flight, cur, lost>> /\ ndone' = ndone + 1
      /\ cst # "edom"
  BY FromInvariant DEF ctrl_complete, InHandler, LockFree, TypeHcd, RunInv, OrderStatus
<1>2. /\ ctx' = [ctx EXCEPT !.count = ctx.count - 1, !.pending = ctx.pending - 1, !.last = number,
                            !.status = IF ctx.status = "ok" THEN st ELSE ctx.status]
      /\ cst' = st /\ Cancel(ToCancel(st, number))
  BY DEF ctrl_complete
<1>3. /\ st \in Status /\ (InOrder(cur) => st # "edom") /\ (cst = "reset" => st # "ok")
  BY <1>1, CtrlStatusIs
<1>4. N \in Nat /\ N' = N
  BY <1>0, Product
<1>5. ctx.count \in Int /\ ctx.pending \in Int
  BY FromInvariant
<1> HIDE DEF st, N, number
<1>6. /\ ctx'.count = ctx.count - 1 /\ ctx'.pending = ctx.pending - 1 /\ ctx'.last = number
      /\ ctx'.status = (IF ctx.status = "ok" THEN st ELSE ctx.status)
      /\ ctx'.done = ctx.done
  BY <1>1, <1>2 DEF Context
<1>7. Cancelled /\ OrderStatus /\ CtrlRun
  BY DEF RunInv
<1>8. Cancelled'
  BY <1>0, <1>1, <1>2, <1>7, CancelKeeps DEF Cancelled
<1>9. OnceOut' /\ (Missed' = Missed)
  BY <1>0, <1>1 DEF OnceOut, Missed, Handling
<1>15. ctx.status = "ok" /\ st # "ok" => Range(flight) \ unlinked' \subseteq Missed
  BY <1>0, <1>1, <1>2, FirstErrorCancels DEF number
<1>10. CASE ctx.status = "ok" /\ ~lost /\ st = "ok"
  <2>1. unlinked = {} /\ Ring /\ CtrlRunning
    BY <1>1, <1>7, <1>10 DEF CtrlRun
  <2>2. unlinked' = {} /\ ctx'.status = "ok" /\ Busy' = Busy
    BY <1>1, <1>2, <1>6, <1>10, <2>1 DEF Cancel, ToCancel, Busy
  <2>3. Ring'
    BY <1>0, <1>1, <1>6, <2>1, <2>2 DEF Ring, Behind, number, InOrder, Handling
  <2>4. CtrlRunning'
    <3>1. cst' = "ok" /\ ctx'.pending = Len(flight)
      BY <1>0, <1>1, <1>2, <1>5, <1>6, <1>10, <2>1 DEF CtrlRunning
    <3>2. ndone' + ctx'.count = N' /\ ctx'.count >= ctx'.pending
      BY <1>0, <1>1, <1>4, <1>5, <1>6, <2>1 DEF CtrlRunning, N
    <3>3. Busy' = sglen' \/ ctx'.count = ctx'.pending
      BY <1>0, <1>5, <1>6, <2>1, <2>2 DEF CtrlRunning
    <3>4. ~ctx'.done
      <4>1. Busy # 0
        BY <1>0, <1>1 DEF Busy
      <4> QED BY <1>6, <2>1, <4>1 DEF CtrlRunning
    <3> QED BY <1>1, <3>1, <3>2, <3>3, <3>4 DEF CtrlRunning, N
  <2>5. CtrlRun'
    BY <1>0, <1>1, <1>9, <2>2, <2>3, <2>4 DEF CtrlRun
  <2>6. OrderStatus'
    BY <1>1, <2>2 DEF OrderStatus, OrderErrorIsReal
  <2> QED BY <1>0, <1>8, <2>5, <2>6 DEF RunInv
<1>11. CASE ctx.status = "ok" /\ ~lost /\ st # "ok"
  <2>1. Ring
    BY <1>1, <1>7, <1>11 DEF CtrlRun
  <2>2. ctx'.status = st /\ Range(flight) \ unlinked' \subseteq Missed /\ cst' = st
    BY <1>1, <1>2, <1>6, <1>11, <1>15
  <2>3. st # "edom"
    BY <1>1, <1>3, <2>1 DEF Ring
  <2>4. CtrlFailed'
    BY <1>1, <1>9, <1>11, <2>2 DEF CtrlFailed
  <2>5. CtrlRun'
    BY <1>0, <1>1, <1>9, <1>11, <2>2, <2>4 DEF CtrlRun
  <2>6. OrderStatus'
    BY <1>1, <2>2, <2>3 DEF OrderStatus, OrderErrorIsReal
  <2> QED BY <1>0, <1>8, <2>5, <2>6 DEF RunInv
<1>12. CASE ctx.status = "ok" /\ lost
  <2>1. CtrlFailed' \/ ctx'.status = "ok"
    <3>1. st # "ok" => Range(flight) \ unlinked' \subseteq Missed /\ cst' = st
      BY <1>2, <1>12, <1>15
    <3> QED BY <1>1, <1>6, <1>9, <1>12, <3>1 DEF CtrlFailed
  <2>2. CtrlRun'
    BY <1>0, <1>1, <1>9, <1>12, <2>1 DEF CtrlRun
  <2> QED BY <1>0, <1>1, <1>8, <1>12, <2>2 DEF RunInv, OrderStatus, OrderErrorIsReal
<1>13. CASE ctx.status # "ok"
  <2>1. CtrlFailed
    BY <1>1, <1>7, <1>13 DEF CtrlRun
  <2>2. ctx'.status = ctx.status /\ unlinked \subseteq unlinked'
    BY <1>2, <1>6, <1>13 DEF Cancel
  <2>3. CtrlFailed'
    BY <1>1, <1>2, <1>3, <1>5, <1>6, <1>9, <2>1, <2>2 DEF CtrlFailed
  <2>4. CtrlRun'
    BY <1>0, <1>1, <1>9, <1>13, <2>2, <2>3 DEF CtrlRun
  <2> QED BY <1>0, <1>1, <1>7, <1>8, <2>2, <2>4 DEF RunInv, OrderStatus, OrderErrorIsReal
<1> QED BY <1>10, <1>11, <1>12, <1>13

\* The ring seen from the URB behind the one that has completed.
LEMMA BehindNext ==
    ASSUME NEW u \in 1 .. sglen, sglen \in Nat
    PROVE  /\ \A k \in 1 .. sglen - 1 : Behind(u, k) = Behind(Behind(u, 1), k - 1)
           /\ u = Behind(Behind(u, 1), sglen - 1)
           /\ Behind(u, 1) \in 1 .. sglen
           /\ ctx.last = (u - 1) % NumSubcases => InOrder(Behind(u, 1))
<1>1. u \in Nat /\ u >= 1 /\ u <= sglen
  OBVIOUS
<1>2. /\ \A k \in 1 .. sglen - 1 : Behind(u, k) = Behind(Behind(u, 1), k - 1)
      /\ u = Behind(Behind(u, 1), sglen - 1)
      /\ Behind(u, 1) \in 1 .. sglen
  BY <1>1 DEF Behind
<1>3. ASSUME ctx.last = (u - 1) % NumSubcases
      PROVE  InOrder(Behind(u, 1))
  <2>1. CASE u + 1 <= sglen
    <3>1. Behind(u, 1) = u + 1 /\ u + 1 - 1 = u
      BY <1>1, <2>1 DEF Behind
    <3>2. u % NumSubcases > 0 => (u - 1) % NumSubcases = (u % NumSubcases) - 1
      <4>1. u - 1 \in Nat /\ (u - 1) + 1 = u
        BY <1>1
      <4> QED BY <4>1, ModSucc, SizesAssumption
    <3> QED BY <1>3, <3>1, <3>2 DEF InOrder
  <2>2. CASE ~(u + 1 <= sglen)
    <3>1. Behind(u, 1) = 1 /\ (1 - 1) % NumSubcases = 0
      BY <1>1, <2>2, SizesAssumption, ModSmall DEF Behind
    <3> QED BY <3>1 DEF InOrder
  <2> QED BY <2>1, <2>2
<1> QED BY <1>2, <1>3

\* The rest of the handler: the URB goes to the end of the ring, or stays out.
LEMMA CtrlResubmitRuns ==
    ASSUME IInv, RunInv, test = "ctrl", CtrlResubmit
    PROVE  RunInv'
<1> DEFINE N == sglen * iterations
           again == cst = "ok" /\ ctx.pending < ctx.count
           Done(p) == CompleteIf([ctx EXCEPT !.pending = p], p = 0)
<1>0. /\ test' = "ctrl" /\ ~timer' /\ UNCHANGED <<sglen, iterations>> /\ QueueRun'
      /\ sglen \in Nat /\ sglen > 0 /\ iterations \in Nat /\ i \in Nat /\ ndone \in Nat
      /\ flight \in Seq(Urbs) /\ Len(flight) \in Nat /\ iterations > 0 /\ OnceOut
  BY CtrlStep
<1>1. Cancelled /\ OrderStatus /\ CtrlRun
  BY DEF RunInv
<1>2. /\ cpc = "leave" /\ cpc' = "return" /\ ~Handling' /\ ctx \in Context /\ cur \in Urbs
      /\ UNCHANGED <<tpc, i, unlinked, cur, cst, ndone>>
      /\ ctx.count \in Int /\ ctx.pending \in Int
  BY FromInvariant DEF CtrlResubmit, InHandler, TypeHcd, Handling
<1>3. tpc # "submit"
  BY <1>1, <1>2 DEF CtrlRun, CtrlSubmitting
<1>4. \/ again /\ SubmitOk(cur) /\ ctx' = Done(ctx.pending + 1) /\ lost' = lost
      \/ again /\ ctx' = Done(ctx.pending) /\ lost' /\ flight' = flight
      \/ ~again /\ ctx' = Done(ctx.pending) /\ lost' = lost /\ flight' = flight
  BY DEF CtrlResubmit
<1>5. ASSUME NEW p \in Int
      PROVE  /\ Done(p).pending = p /\ Done(p).count = ctx.count /\ Done(p).last = ctx.last
             /\ Done(p).status = ctx.status /\ (Done(p).done <=> p = 0 \/ ctx.done)
  <2>1. [ctx EXCEPT !.pending = p] \in Context
    BY <1>2 DEF Context
  <2> QED BY <1>2, <2>1 DEF CompleteIf, Context
<1>6. N' = N
  BY <1>0
<1>7. ctx.pending + 1 \in Int
  BY <1>2
<1> HIDE DEF N, again, Done
<1>8. ctx'.status = ctx.status /\ ctx'.count = ctx.count /\ ctx'.last = ctx.last
  BY <1>2, <1>4, <1>5, <1>7
<1>9. SubmitOk(cur) =>
          /\ flight' \in Seq(Urbs) /\ Len(flight') = Len(flight) + 1
          /\ \A k \in 1 .. Len(flight) : flight'[k] = flight[k]
          /\ flight'[Len(flight) + 1] = cur /\ Range(flight') = Range(flight) \cup {cur}
  BY <1>2, Submitted DEF IInv
<1>10. Cancelled'
  <2>1. Range(flight) \subseteq Range(flight')
    BY <1>4, <1>9
  <2> QED BY <1>0, <1>1, <1>2, <2>1 DEF Cancelled
<1>11. OrderStatus'
  <2>1. lost => lost'
    BY <1>4
  <2> QED BY <1>1, <1>2, <1>8, <2>1 DEF OrderStatus, OrderErrorIsReal
<1>12. OnceOut'
  <2>1. CASE SubmitOk(cur)
    <3> SUFFICES ASSUME NEW k \in 1 .. Len(flight'), NEW l \in 1 .. Len(flight'), k < l,
                        flight'[k] = flight'[l]
                 PROVE  FALSE
      BY <1>0, <1>2, <1>3, <1>9, <2>1 DEF OnceOut, Handling
    <3>1. k \in 1 .. Len(flight) /\ flight'[k] = flight[k] /\ DOMAIN flight = 1 .. Len(flight)
      BY <1>0, <1>9, <2>1
    <3>2. CASE l = Len(flight) + 1
      <4>1. flight'[l] = cur
        BY <1>9, <2>1, <3>2
      <4>2. flight[k] # cur
        BY <1>0, <1>2, <3>1 DEF OnceOut, Range, Handling
      <4> QED BY <3>1, <4>1, <4>2
    <3>3. CASE l \in 1 .. Len(flight)
      <4>1. flight'[l] = flight[l]
        BY <1>9, <2>1, <3>3
      <4>2. flight[k] = flight[l]
        BY <3>1, <4>1, Zenon
      <4>3. k = l
        BY <1>0, <3>1, <3>3, <4>2, Zenon DEF OnceOut
      <4> QED BY <4>3
    <3> QED BY <1>0, <1>9, <2>1, <3>2, <3>3
  <2>2. CASE flight' = flight
    BY <1>0, <1>2, <1>3, <2>2 DEF OnceOut, Handling
  <2> QED BY <1>4, <2>1, <2>2
<1>13. CASE ctx.status = "ok" /\ ~lost'
  <2>1. ~lost /\ unlinked = {} /\ Ring /\ CtrlRunning
    BY <1>1, <1>3, <1>4, <1>13 DEF CtrlRun
  <2>2. /\ cst = "ok" /\ ctx.pending = Len(flight) /\ Busy = Len(flight) + 1
        /\ ctx.count >= ctx.pending /\ (Len(flight) + 1 = sglen \/ ctx.count = ctx.pending)
        /\ ndone + ctx.count = N /\ ~ctx.done
    BY <1>0, <1>2, <2>1 DEF CtrlRunning, Busy, N
  <2>3. /\ cur \in 1 .. sglen /\ ctx.last = (cur - 1) % NumSubcases /\ Len(flight) + 1 <= sglen
        /\ \A k \in 1 .. Len(flight) : flight[k] = Behind(cur, k) /\ flight[k] \in 1 .. sglen
    BY <1>0, <1>2, <2>1, <2>2 DEF Ring, Handling
  <2>4. /\ \A k \in 1 .. sglen - 1 : Behind(cur, k) = Behind(Behind(cur, 1), k - 1)
        /\ cur = Behind(Behind(cur, 1), sglen - 1)
        /\ Behind(cur, 1) \in 1 .. sglen /\ InOrder(Behind(cur, 1))
    BY <1>0, <2>3, BehindNext
  <2>5. (\A u, k : Behind(u, k)' = Behind(u, k)) /\ Busy' = Len(flight')
    <3>1. Len(flight') \in Nat
      BY <1>0, <1>4, <1>9
    <3> QED BY <1>0, <1>2, <3>1 DEF Behind, Busy
  <2>6. CASE again /\ SubmitOk(cur) /\ ctx' = Done(ctx.pending + 1)
    <3>1. Len(flight') = sglen /\ ctx'.pending = Len(flight') /\ ~ctx'.done
      BY <1>0, <1>2, <1>5, <1>7, <1>9, <2>2, <2>6 DEF again
    <3>2. Behind(cur, 1) = flight'[1]
      BY <1>0, <1>9, <2>3, <2>4, <2>6, <3>1 DEF Behind
    <3>3. \A k \in 1 .. sglen : /\ flight'[k] = Behind(Behind(cur, 1), k - 1)
                                /\ flight'[k] \in 1 .. sglen
      <4> SUFFICES ASSUME NEW k \in 1 .. sglen
                   PROVE  /\ flight'[k] = Behind(Behind(cur, 1), k - 1)
                          /\ flight'[k] \in 1 .. sglen
        OBVIOUS
      <4>1. CASE k = sglen
        BY <1>9, <2>3, <2>4, <2>6, <3>1, <4>1
      <4>2. CASE k \in 1 .. sglen - 1
        BY <1>0, <1>9, <2>3, <2>4, <2>6, <3>1, <4>2
      <4> QED BY <1>0, <4>1, <4>2
    <3>4. Ring'
      <4>1. \A k \in DOMAIN flight' : /\ flight'[k] \in 1 .. sglen'
                                      /\ flight'[k] = Behind(flight[1], k - 1)'
        BY <1>0, <1>9, <2>5, <2>6, <3>1, <3>2, <3>3
      <4>2. InOrder(flight[1])'
        BY <1>8, <2>4, <3>2 DEF InOrder
      <4>3. Busy' <= sglen'
        BY <1>0, <2>5, <3>1
      <4> QED BY <1>2, <4>1, <4>2, <4>3 DEF Ring
    <3>5. CtrlRunning'
      BY <1>0, <1>2, <1>6, <1>8, <2>2, <2>5, <2>6, <3>1 DEF CtrlRunning, N, again
    <3> QED BY <1>0, <1>2, <1>3, <1>10, <1>11, <1>12, <1>13, <1>8, <2>1, <3>4, <3>5
            DEF RunInv, CtrlRun
  <2>7. CASE ~again /\ ctx' = Done(ctx.pending) /\ flight' = flight
    <3>1. /\ ctx.count = ctx.pending /\ ctx'.pending = Len(flight')
          /\ (ctx'.done <=> Len(flight') = 0)
      BY <1>0, <1>2, <1>5, <2>2, <2>7 DEF again
    <3>2. Len(flight) > 0 => Behind(cur, 1) = flight'[1]
      BY <1>0, <2>3, <2>7
    <3>3. \A k \in 1 .. Len(flight) : flight[k] = Behind(Behind(cur, 1), k - 1)
      BY <1>0, <2>3, <2>4
    <3>4. Ring'
      <4>1. \A k \in DOMAIN flight' : /\ flight'[k] \in 1 .. sglen'
                                      /\ flight'[k] = Behind(flight[1], k - 1)'
        BY <1>0, <2>3, <2>5, <2>7, <3>2, <3>3
      <4>2. flight' # <<>> => InOrder(flight[1])'
        BY <1>0, <1>8, <2>4, <2>7, <3>2 DEF InOrder
      <4>3. Busy' <= sglen'
        BY <1>0, <2>3, <2>5, <2>7
      <4> QED BY <1>2, <4>1, <4>2, <4>3 DEF Ring
    <3>5. CtrlRunning'
      BY <1>0, <1>2, <1>6, <1>8, <2>2, <2>5, <2>7, <3>1 DEF CtrlRunning, N
    <3> QED BY <1>0, <1>2, <1>3, <1>10, <1>11, <1>12, <1>13, <1>8, <2>1, <3>4, <3>5
            DEF RunInv, CtrlRun
  <2> QED BY <1>4, <1>13, <2>6, <2>7
<1>14. CASE ctx.status = "ok" /\ lost'
  BY <1>0, <1>2, <1>3, <1>8, <1>10, <1>11, <1>12, <1>14 DEF RunInv, CtrlRun
<1>15. CASE ctx.status # "ok"
  <2>1. CtrlFailed /\ Missed' = Missed
    BY <1>0, <1>1, <1>3, <1>15 DEF CtrlRun, Missed
  <2>2. CASE again /\ SubmitOk(cur)
    <3>1. Range(flight) \ unlinked \subseteq Missed /\ cur \in Missed
      BY <1>2, <2>1, <2>2 DEF CtrlFailed, again
    <3>2. CtrlFailed'
      BY <1>2, <1>9, <2>1, <2>2, <3>1 DEF CtrlFailed
    <3> QED BY <1>0, <1>2, <1>3, <1>8, <1>10, <1>11, <1>12, <1>15, <3>2 DEF RunInv, CtrlRun
  <2>3. CASE ctx' = Done(ctx.pending) /\ flight' = flight
    <3>1. ctx'.pending = ctx.pending
      BY <1>2, <1>5, <2>3
    <3>2. CtrlFailed'
      BY <1>2, <1>8, <2>1, <2>3, <3>1 DEF CtrlFailed
    <3> QED BY <1>0, <1>2, <1>3, <1>8, <1>10, <1>11, <1>12, <1>15, <3>2 DEF RunInv, CtrlRun
  <2> QED BY <1>4, <2>2, <2>3
<1> QED BY <1>13, <1>14, <1>15

-----------------------------------------------------------------------------
(* The steps that all tests have in common.                                *)

\* A giveback: of the control queue without a failure it is always the oldest URB.
LEMMA GivebackRuns ==
    ASSUME IInv, RunInv, NEW u \in Urbs, HcdGiveback(u)
    PROVE  RunInv'
<1> DEFINE p == Position(u)
<1>1. /\ flight \in Seq(Urbs) /\ p \in 1 .. Len(flight) /\ flight[p] = u
      /\ flight' \in Seq(Urbs) /\ Len(flight') = Len(flight) - 1 /\ Len(flight) \in Nat
      /\ \A j \in 1 .. Len(flight) - 1 : flight'[j] = flight[IF j < p THEN j ELSE j + 1]
  <2>1. TypeOK
    BY DEF IInv
  <2>2. Len(flight) \in Nat
    BY <2>1 DEF TypeOK, TypeHcd
  <2> QED BY <2>1, <2>2, GivebackFlight
<1>2. /\ ~Handling /\ Handling' /\ cpc = "none" /\ cpc' = "enter" /\ cur' = u /\ unlinked' = unlinked \ {u}
      /\ cst' \in (IF u \in unlinked THEN {UnlinkStatus} ELSE {"ok", "epipe", "proto"})
      /\ UNCHANGED <<test, sglen, iterations, tpc, i, ctx, timer, ndone, lost>>
  BY DEF HcdGiveback, params, history, Handling
<1>3. Cancelled /\ QueueRun /\ CtrlRun /\ OrderStatus
  BY DEF RunInv
<1>4. Range(flight') \subseteq Range(flight) /\ Range(flight) \ {u} \subseteq Range(flight')
  BY GivenBack DEF IInv
<1>5. Cancelled'
  BY <1>2, <1>3, <1>4 DEF Cancelled
<1>6. OrderStatus'
  <2>1. cst' # "edom"
    BY <1>2 DEF UnlinkStatus
  <2> QED BY <1>2, <1>3, <2>1 DEF OrderStatus, OrderErrorIsReal
<1>7. QueueRun'
  BY <1>2, <1>3 DEF QueueRun, Clean
<1>8. u \in Range(flight) /\ Busy' = Busy /\ Busy = Len(flight)
  BY <1>1, <1>2 DEF Range, Busy, Handling
<1>9. CASE test = "ctrl"
  <2> HIDE DEF p
  <2>1. OnceOut
    BY <1>3, <1>9 DEF CtrlRun
  <2>2. \A j, l \in 1 .. Len(flight') : flight'[j] = flight'[l] => j = l
    <3> SUFFICES ASSUME NEW j \in 1 .. Len(flight'), NEW l \in 1 .. Len(flight'),
                        flight'[j] = flight'[l]
                 PROVE  j = l
      OBVIOUS
    <3> DEFINE a == IF j < p THEN j ELSE j + 1
               b == IF l < p THEN l ELSE l + 1
    <3>1. a \in DOMAIN flight /\ b \in DOMAIN flight
      BY <1>1
    <3>2. flight'[j] = flight[a] /\ flight'[l] = flight[b]
      BY <1>1
    <3>3. a = b
      <4> HIDE DEF a, b
      <4>1. flight[a] = flight[b]
        BY <3>2, Zenon
      <4> QED BY <2>1, <3>1, <4>1, Zenon DEF OnceOut
    <3> QED BY <1>1, <3>3
  <2>3. u \notin Range(flight')
    <3> SUFFICES ASSUME NEW j \in 1 .. Len(flight'), flight'[j] = u
                 PROVE  FALSE
      BY <1>1 DEF Range
    <3> DEFINE a == IF j < p THEN j ELSE j + 1
    <3>1. a \in DOMAIN flight /\ p \in DOMAIN flight /\ a # p
      BY <1>1
    <3>2. flight'[j] = flight[a]
      BY <1>1
    <3> HIDE DEF a
    <3>3. flight[a] = flight[p]
      BY <1>1, <3>2, Zenon
    <3> QED BY <2>1, <3>1, <3>3, Zenon DEF OnceOut
  <2>4. OnceOut'
    <3>1. DOMAIN flight' = 1 .. Len(flight')
      BY <1>1
    <3>2. tpc = "submit" => Range(flight') \subseteq 1 .. i /\ u \in 1 .. i
      BY <1>4, <1>8, <2>1 DEF OnceOut
    <3>3. Range(flight') \subseteq 1 .. sglen /\ u \in 1 .. sglen
      BY <1>4, <1>8, <2>1 DEF OnceOut
    <3> QED BY <1>2, <2>2, <2>3, <3>1, <3>2, <3>3 DEF OnceOut
  <2>5. ASSUME ctx.status = "ok", ~lost
        PROVE  unlinked' = {} /\ Ring' /\ u = flight[1]
    <3>1. unlinked = {} /\ Ring
      BY <1>3, <1>9, <2>5 DEF CtrlRun
    <3>2. u = flight[1]
      BY <1>1, <3>1 DEF HcdGiveback
    <3>3. p = 1
      <4>1. 1 \in DOMAIN flight /\ p \in DOMAIN flight /\ flight[p] = flight[1]
        BY <1>1, <3>2
      <4> QED BY <2>1, <4>1, Zenon DEF OnceOut
    <3>4. \A k \in 1 .. Len(flight') : /\ flight'[k] = flight[k + 1]
                                       /\ k + 1 \in DOMAIN flight /\ (k + 1) - 1 = k
      BY <1>1, <3>3
    <3>5. /\ u \in 1 .. sglen /\ InOrder(u)
          /\ \A k \in DOMAIN flight : flight[k] \in 1 .. sglen /\ flight[k] = Behind(u, k - 1)
      <4>1. 1 \in DOMAIN flight /\ flight # <<>>
        BY <1>1
      <4> QED BY <1>2, <3>1, <3>2, <4>1 DEF Ring
    <3>6. \A k \in 1 .. Len(flight') : flight'[k] \in 1 .. sglen /\ flight'[k] = Behind(u, k)
      <4> SUFFICES ASSUME NEW k \in 1 .. Len(flight')
                   PROVE  flight'[k] \in 1 .. sglen /\ flight'[k] = Behind(u, k)
        OBVIOUS
      <4>1. flight'[k] = flight[k + 1] /\ k + 1 \in DOMAIN flight /\ (k + 1) - 1 = k
        BY <3>4
      <4>2. flight[k + 1] \in 1 .. sglen /\ flight[k + 1] = Behind(u, (k + 1) - 1)
        BY <3>5, <4>1
      <4> QED BY <4>1, <4>2
    <3>7. Ring'
      <4>1. \A k \in DOMAIN flight' : /\ flight'[k] \in 1 .. sglen'
                                      /\ flight'[k] = Behind(cur, k)'
        BY <1>1, <1>2, <3>6 DEF Behind
      <4>2. InOrder(cur)' /\ cur' \in 1 .. sglen'
        BY <1>2, <3>5 DEF InOrder
      <4>3. Busy' <= sglen'
        BY <1>2, <1>8, <3>1 DEF Ring
      <4> QED BY <1>2, <4>1, <4>2, <4>3 DEF Ring
    <3> QED BY <1>2, <3>1, <3>2, <3>7
  <2>6. tpc = "submit" => CtrlSubmitting'
    <3> SUFFICES ASSUME tpc = "submit" PROVE CtrlSubmitting'
      OBVIOUS
    <3>1. CtrlSubmitting
      BY <1>3, <1>9 DEF CtrlRun
    <3>2. u = 1
      <4>1. ctx.status = "ok" /\ ~lost /\ (flight # <<>> => flight[1] = 1)
        BY <1>2, <3>1 DEF CtrlSubmitting
      <4>2. flight # <<>>
        BY <1>1
      <4> QED BY <2>5, <4>1, <4>2
    <3> QED BY <1>2, <1>8, <3>1, <3>2 DEF CtrlSubmitting
  <2>7. CtrlRunning => CtrlRunning'
    BY <1>1, <1>2, <1>8 DEF CtrlRunning
  <2>8. CtrlFailed => CtrlFailed'
    <3>1. u \in unlinked => cst' = "reset"
      BY <1>2, <1>9 DEF UnlinkStatus
    <3>2. Missed' = Missed /\ cur' = u /\ ctx' = ctx /\ cpc' = "enter"
      BY <1>2 DEF Missed
    <3>3. CASE ctx.count <= ctx.pending
      BY <3>2, <3>3 DEF CtrlFailed
    <3>4. CASE Range(flight) \ unlinked \subseteq Missed
      <4>1. Range(flight') \ unlinked' \subseteq Missed
        BY <1>2, <1>4, <2>3, <3>4
      <4>2. cst' = "reset" \/ u \in Missed
        BY <1>8, <3>1, <3>4
      <4> QED BY <3>2, <4>1, <4>2 DEF CtrlFailed
    <3> QED BY <3>3, <3>4 DEF CtrlFailed
  <2>9. CtrlRun'
    BY <1>2, <1>3, <1>9, <2>4, <2>5, <2>6, <2>7, <2>8 DEF CtrlRun
  <2> QED BY <1>5, <1>6, <1>7, <2>9 DEF RunInv
<1>10. CASE test # "ctrl"
  <2>1. CtrlRun'
    BY <1>2, <1>10 DEF CtrlRun
  <2> QED BY <1>5, <1>6, <1>7, <2>1 DEF RunInv
<1> QED BY <1>9, <1>10

\* A test that starts has nothing at the controller.
LEMMA StartRuns ==
    ASSUME IInv, RunInv, NEW kind \in Kinds, NEW depth \in 0 .. MaxQueue,
           NEW iters \in 0 .. MaxIter, CountFits(kind, depth, iters), kind = "ctrl" => iters > 0,
           Start(kind, depth, iters)
    PROVE  RunInv'
<1>1. /\ test' = kind /\ tpc = "idle" /\ tpc' = "submit" /\ iterations' = iters /\ i' = 0
      /\ ctx' = FirstContext(kind, depth, iters) /\ ndone' = 0 /\ lost' = FALSE
      /\ flight = <<>> /\ flight' = <<>> /\ cpc' \notin {"enter", "leave"}
      /\ ~Handling' /\ UNCHANGED <<timer, unlinked>>
      /\ kind \in {"ctrl", "queue"} => sglen' = depth
  BY DEF Start, hcd, Handling
<1>2. depth \in Nat /\ iters \in Nat
  BY Sizes
<1>3. /\ ~ctx'.done /\ ctx'.status = "ok"
      /\ kind \in {"ctrl", "queue"} => ctx'.count = depth * iters /\ ctx'.pending = 0
  BY <1>1 DEF FirstContext, NewContext
<1>4. Range(<<>>) = {} /\ Len(<<>>) = 0 /\ DOMAIN <<>> = {} /\ Busy' = 0
  BY <1>1 DEF Range, Busy
<1>5. Cancelled' /\ unlinked' = {}
  BY <1>1, <1>4 DEF RunInv, Cancelled
<1>6. OrderStatus'
  BY <1>1, <1>3 DEF OrderStatus, OrderErrorIsReal
<1>7. QueueRun'
  BY <1>1, <1>3 DEF QueueRun, CountFits
<1>8. CtrlRun'
  <2> SUFFICES ASSUME kind = "ctrl" PROVE CtrlRun'
    BY <1>1 DEF CtrlRun
  <2>1. OnceOut'
    BY <1>1, <1>4 DEF OnceOut
  <2>2. CtrlSubmitting'
    BY <1>1, <1>3, <1>4 DEF CtrlSubmitting
  <2>3. Ring'
    BY <1>1, <1>2, <1>4 DEF Ring
  <2> QED BY <1>1, <1>3, <1>5, <2>1, <2>2, <2>3 DEF CtrlRun
<1> QED BY <1>5, <1>6, <1>7, <1>8 DEF RunInv

\* Binding, unbinding, and what a handler and a test do at their end touch no URB.
LEMMA CallRuns ==
    ASSUME IInv, RunInv,
           usbtest_probe \/ usbtest_disconnect \/ Return \/ HandlerReturn \/ UNCHANGED vars
    PROVE  RunInv'
<1>1. /\ UNCHANGED <<test, sglen, iterations, i, ctx, timer, flight, unlinked, cur, cst, ndone,
                     lost>>
      /\ tpc' = tpc \/ (tpc = "return" /\ tpc' = "idle")
      /\ cpc' = cpc \/ (cpc = "return" /\ cpc' = "none")
  BY DEF usbtest_probe, usbtest_disconnect, Return, HandlerReturn, vars, params, hcd, history
<1>2. (Ring <=> Ring') /\ (CtrlRunning <=> CtrlRunning') /\ (CtrlFailed <=> CtrlFailed')
  BY <1>1 DEF Ring, Behind, InOrder, CtrlRunning, CtrlFailed, Missed, Busy, Handling
<1>3. (CtrlSubmitting <=> CtrlSubmitting') /\ (OnceOut => OnceOut')
  BY <1>1 DEF CtrlSubmitting, OnceOut, Busy, Handling
<1>4. CtrlRun'
  BY <1>1, <1>2, <1>3 DEF RunInv, CtrlRun
<1>5. QueueRun'
  BY <1>1 DEF RunInv, QueueRun, Clean
<1> QED BY <1>1, <1>4, <1>5 DEF RunInv, Cancelled, OrderStatus, OrderErrorIsReal

\* A test that cannot allocate has submitted nothing.
LEMMA AllocationRuns ==
    ASSUME IInv, RunInv, AllocationFails
    PROVE  RunInv'
<1>1. /\ UNCHANGED <<test, sglen, iterations, i, timer, flight, unlinked, cur, cst, cpc, ndone,
                     lost>>
      /\ tpc = "submit" /\ tpc' = "return" /\ (i = 0 \/ test = "unlink1")
      /\ ctx'.status = "enomem" /\ ctx'.done = ctx.done
  BY FromInvariant DEF AllocationFails, Leave, params, hcd, history, Context
<1>2. ~timer
  BY <1>1 DEF RunInv, Cancelled
<1>3. QueueRun'
  BY <1>1 DEF RunInv, QueueRun, Clean
<1>4. CASE test = "ctrl"
  <2>1. OnceOut' /\ iterations' > 0
    BY <1>1, <1>4 DEF RunInv, CtrlRun, OnceOut, Handling
  <2>2. Busy = 0 /\ Len(flight) \in Nat /\ flight \in Seq(Urbs)
    BY <1>1, <1>4, FromInvariant DEF RunInv, CtrlRun, CtrlSubmitting, TypeHcd
  <2>3. Len(flight) = 0 /\ ~Handling
    BY <2>2 DEF Busy, Handling
  <2>4. Range(flight) = {}
    BY <2>2, <2>3 DEF Range
  <2>5. CtrlFailed'
    BY <1>1, <2>3, <2>4 DEF CtrlFailed, Handling
  <2> QED BY <1>1, <1>2, <1>3, <1>4, <2>1, <2>5
          DEF RunInv, CtrlRun, Cancelled, OrderStatus, OrderErrorIsReal
<1>5. CASE test # "ctrl"
  BY <1>1, <1>2, <1>3, <1>5 DEF RunInv, CtrlRun, Cancelled, OrderStatus, OrderErrorIsReal
<1> QED BY <1>4, <1>5

-----------------------------------------------------------------------------
(* The specification.                                                      *)

\* In the beginning nothing is at the controller.
LEMMA InitRuns == Init => RunInv
<1> SUFFICES ASSUME Init PROVE RunInv
  OBVIOUS
<1>1. test = "none" /\ ~timer /\ unlinked = {} /\ cpc = "none" /\ ctx.status = "ok"
  BY DEF Init, NewContext
<1> QED BY <1>1 DEF RunInv, Cancelled, QueueRun, CtrlRun, OrderStatus, OrderErrorIsReal

\* Every step preserves the invariant.
LEMMA NextRuns == IInv /\ RunInv /\ [Next]_vars => RunInv'
<1> SUFFICES ASSUME IInv, RunInv, [Next]_vars PROVE RunInv'
  OBVIOUS
<1>1. CASE usbtest_do_ioctl
  <2>1. PICK n \in Cases, depth \in 0 .. MaxQueue, iters \in 1 .. MaxIter :
          /\ KindOf(n) # "none" /\ Supported(n, depth) /\ CountFits(KindOf(n), depth, iters)
          /\ Start(KindOf(n), depth, iters)
    BY <1>1, Zenon DEF usbtest_do_ioctl
  <2>2. iters \in 0 .. MaxIter /\ iters > 0
    BY Sizes
  <2> QED BY <2>1, <2>2, StartRuns, DispatchDepth
<1>2. CASE fz_ioctl
  <2>1. PICK kind \in FzKinds, depth \in 0 .. MaxQueue, iters \in 0 .. MaxIter :
          CountFits(kind, depth, iters) /\ Start(kind, depth, iters)
    BY <1>2, Zenon DEF fz_ioctl
  <2>2. kind \in Kinds /\ kind # "ctrl"
    BY SizesAssumption DEF Kinds
  <2> QED BY <2>1, <2>2, StartRuns
<1>3. CASE usbtest_probe \/ usbtest_disconnect \/ Return \/ HandlerReturn \/ UNCHANGED vars
  BY <1>3, CallRuns
<1>10. CASE AllocationFails
  BY <1>10, AllocationRuns
<1>4. CASE QueueSubmit \/ QueueReturn \/ complicated_callback
  BY <1>4, QueueRuns
<1>5. CASE \/ CtrlSubmit \/ CtrlCheck \/ CtrlReturn \/ ctrl_complete \/ CtrlResubmit
           \/ empty_complete \/ EmptyCompleteSignal
  <2>1. CASE test = "ctrl"
    <3>1. CtrlSubmit \/ CtrlCheck \/ CtrlReturn \/ ctrl_complete \/ CtrlResubmit
      BY <1>5, <2>1 DEF empty_complete, EmptyCompleteSignal, InHandler
    <3> QED BY <2>1, <3>1, CtrlSubmitRuns, CtrlWaitRuns, CtrlCompleteRuns, CtrlResubmitRuns
  <2>2. CASE test # "ctrl"
    <3>1. /\ test = "ctr_fuzz" /\ test' = test
          /\ CtrlSubmit \/ CtrlCheck \/ CtrlReturn \/ empty_complete \/ EmptyCompleteSignal
      BY <1>5, <2>2 DEF CtrlSubmit, CtrlCheck, CtrlReturn, ctrl_complete, CtrlResubmit,
         empty_complete, EmptyCompleteSignal, InHandler, params
    <3> QED BY <3>1, CtrFuzzRuns, OtherFrame DEF Others
  <2> QED BY <2>1, <2>2
<1>6. CASE \/ UnlinkSubmit \/ UnlinkAsync \/ UnlinkSync \/ KillDone \/ UnlinkReturn
           \/ unlink1_callback
  <2>1. test' = test
    BY <1>6 DEF UnlinkSubmit, UnlinkAsync, UnlinkSync, Kill, KillDone, UnlinkReturn,
       unlink1_callback, InHandler, params
  <2> QED BY <1>6, <2>1, UnlinkRuns, OtherFrame
<1>7. CASE \/ UnlinkQueuedSubmit \/ UnlinkQueuedUnlink \/ UnlinkQueuedDrop
           \/ UnlinkQueuedReturn \/ unlink_queued_callback
  <2>1. test' = test
    BY <1>7 DEF UnlinkQueuedSubmit, UnlinkQueuedUnlink, UnlinkQueuedDrop, UnlinkQueuedReturn,
       unlink_queued_callback, InHandler, params
  <2> QED BY <1>7, <2>1, UnlinkQueuedRuns, OtherFrame
<1>8. CASE \/ TransferSubmit \/ SglistArm \/ SglistSubmit \/ SimpleTimeout \/ TransferDone
           \/ simple_callback \/ sg_timeout
  <2>1. test' = test
    BY <1>8 DEF TransferSubmit, SglistArm, SglistSubmit, SimpleTimeout, Kill, TransferDone,
       simple_callback, InHandler, sg_timeout, params
  <2> QED BY <1>8, <2>1, TransferRuns, SgTimeoutRuns, OtherFrame
<1>9. CASE \E u \in Urbs : HcdGiveback(u)
  BY <1>9, GivebackRuns
<1> QED BY <1>1, <1>2, <1>3, <1>4, <1>5, <1>6, <1>7, <1>8, <1>9, <1>10
        DEF Next, TestStep, Handler

\* What each queue still has to run, and that control URBs keep their order.
LEMMA RunInvariant == Spec => []RunInv
<1>1. Init => RunInv
  BY InitRuns
<1>2. IInv /\ RunInv /\ [Next]_vars => RunInv'
  BY NextRuns
<1> QED BY <1>1, <1>2, Invariant, PTL DEF Spec

\* test_queue() and test_ctrl_queue() run every iteration of every URB, unless
\* something fails: complicated_callback() and ctrl_complete() signal the
\* completion neither too early nor after one resubmission too many.
THEOREM QueuesRunAll == Spec => []AllIterationsRun
<1>1. IInv /\ RunInv => AllIterationsRun
  <2> SUFFICES ASSUME IInv, RunInv, test \in {"queue", "ctrl"}, ctx.done, iterations > 0, Clean
               PROVE  ndone = sglen * iterations
    BY DEF AllIterationsRun, Clean
  <2>1. CASE test = "queue"
    BY <2>1 DEF RunInv, QueueRun
  <2>2. CASE test = "ctrl"
    <3>1. CtrlRunning
      BY <2>2 DEF RunInv, CtrlRun, CtrlSubmitting, Clean
    <3>2. ctx.count = 0 /\ ndone + ctx.count = sglen * iterations /\ ndone \in Nat
      BY <3>1, FromInvariant DEF CtrlRunning, TypeHcd
    <3> QED BY <3>2
  <2> QED BY <2>1, <2>2
<1> QED BY <1>1, Invariant, RunInvariant, PTL

\* ctrl_complete() says "completed out of order" only when an URB could not be
\* submitted again: the ring keeps the subcases in sequence over any number of rounds.
THEOREM OrderErrors == Spec => []OrderErrorIsReal
<1>1. RunInv => OrderErrorIsReal
  BY DEF RunInv, OrderStatus
<1> QED BY <1>1, RunInvariant, PTL

\* After the first error of test_ctrl_queue() no handler submits an URB again, if
\* there are as many subcases as URBs: those at the controller are cancelled, and
\* what was cancelled is no success.  With more URBs only the ones that the loop of
\* ctrl_complete() leaves out, which have a number of the list, go on.
THEOREM NothingAfterErrors == Spec => NothingAfterError
<1> DEFINE A == test = "ctrl" /\ tpc # "submit" /\ ctx.status # "ok" /\ Len(flight') > Len(flight)
               => sglen > NumSubcases /\ flight'[Len(flight')] \in 1 .. NumSubcases
<1>1. IInv /\ RunInv /\ [Next]_vars => [A]_vars
  <2> SUFFICES ASSUME IInv, RunInv, Next, test = "ctrl", tpc # "submit", ctx.status # "ok",
                      Len(flight') > Len(flight)
               PROVE  sglen > NumSubcases /\ flight'[Len(flight')] \in 1 .. NumSubcases
    OBVIOUS
  <2>1. flight \in Seq(Urbs) /\ Len(flight) \in Nat
    BY FromInvariant DEF TypeHcd
  <2>2. CASE CtrlResubmit
    <3>1. CtrlFailed /\ cpc = "leave"
      BY <2>2 DEF RunInv, CtrlRun, CtrlResubmit, InHandler
    <3>2. cst = "ok" /\ ctx.pending < ctx.count /\ SubmitOk(cur)
      BY <2>1, <2>2 DEF CtrlResubmit
    <3>3. cur \in Missed
      BY <3>1, <3>2, FromInvariant DEF CtrlFailed
    <3>4. flight'[Len(flight')] = cur
      BY <2>1, <3>2, FromInvariant, Submitted DEF IInv, TypeHcd
    <3>5. sglen \in Nat /\ NumSubcases \in Nat
      BY FromInvariant, SizesAssumption DEF TypeTest
    <3> QED BY <3>3, <3>4, <3>5 DEF Missed
  <2>3. CASE \E u \in Urbs : HcdGiveback(u)
    <3>1. Len(flight') = Len(flight) - 1
      BY <2>3, GivebackFlight DEF IInv
    <3> QED BY <2>1, <3>1
  <2>4. CASE usbtest_do_ioctl \/ fz_ioctl
    <3>1. flight' = flight
      BY <2>4, Zenon DEF usbtest_do_ioctl, fz_ioctl, Start, hcd
    <3> QED BY <2>1, <3>1
  <2>5. CASE \/ usbtest_probe \/ usbtest_disconnect \/ Return \/ sg_timeout
             \/ HandlerReturn \/ AllocationFails \/ CtrlCheck \/ CtrlReturn \/ ctrl_complete
    <3>1. flight' = flight
      BY <2>5 DEF usbtest_probe, usbtest_disconnect, Return, sg_timeout, HandlerReturn, AllocationFails,
         CtrlCheck, CtrlReturn, ctrl_complete, hcd
    <3> QED BY <2>1, <3>1
  <2>6. CASE \/ QueueSubmit \/ QueueReturn \/ CtrlSubmit
             \/ UnlinkSubmit \/ UnlinkAsync \/ UnlinkSync \/ UnlinkReturn
             \/ UnlinkQueuedSubmit \/ UnlinkQueuedUnlink \/ UnlinkQueuedDrop
             \/ UnlinkQueuedReturn \/ TransferSubmit \/ SimpleTimeout \/ TransferDone
             \/ SglistArm \/ SglistSubmit
             \/ complicated_callback \/ empty_complete \/ EmptyCompleteSignal
             \/ unlink1_callback \/ unlink_queued_callback \/ simple_callback
    BY <2>6 DEF QueueSubmit, QueueReturn, CtrlSubmit, UnlinkSubmit, UnlinkAsync, UnlinkSync,
       UnlinkReturn, UnlinkQueuedSubmit, UnlinkQueuedUnlink, UnlinkQueuedDrop,
       UnlinkQueuedReturn, TransferSubmit, SglistArm, SglistSubmit, SimpleTimeout, TransferDone, complicated_callback,
       empty_complete, EmptyCompleteSignal, unlink1_callback, unlink_queued_callback,
       simple_callback, InHandler, OneByOne
  <2>7. CASE KillDone
    <3>1. flight' = flight
      BY <2>7 DEF KillDone, hcd
    <3> QED BY <2>1, <3>1
  <2> QED BY <2>2, <2>3, <2>4, <2>5, <2>6, <2>7 DEF Next, TestStep, Handler
<1>2. Spec => [][A]_vars
  BY <1>1, Invariant, RunInvariant, PTL DEF Spec
<1> QED BY <1>2 DEF NothingAfterError
=============================================================================
