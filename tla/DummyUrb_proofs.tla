--------------------------- MODULE DummyUrb_proofs ---------------------------
(***************************************************************************)
(* Proofs about the URB list of DummyUrb and the cursors into it, for any  *)
(* number of URBs, requests and endpoints.  The argument: an URB leaves    *)
(* the list only at return_urb, which forgets both cursors; everything     *)
(* that happens while the lock is released appends to the list, so that    *)
(* positions in it do not change under a cursor.                           *)
(***************************************************************************)
EXTENDS DummyUrb, SequenceTheorems, TLAPS

-----------------------------------------------------------------------------
(* Sequences without repetitions.                                          *)

PosIn(s, u) == CHOOSE i \in 1 .. Len(s) : s[i] = u
DistinctIn(s) == \A i, j \in 1 .. Len(s) : s[i] = s[j] => i = j

LEMMA PosOf ==
    ASSUME NEW s \in Seq(Urbs), NEW u \in Range(s)
    PROVE  PosIn(s, u) \in 1 .. Len(s) /\ s[PosIn(s, u)] = u
<1>1. \E i \in 1 .. Len(s) : s[i] = u
  BY DEF Range
<1> QED BY <1>1 DEF PosIn

LEMMA PosAt ==
    ASSUME NEW s \in Seq(Urbs), DistinctIn(s), NEW i \in 1 .. Len(s)
    PROVE  PosIn(s, s[i]) = i /\ s[i] \in Range(s)
<1>1. s[i] \in Range(s)
  BY DEF Range
<1> QED BY <1>1, PosOf DEF DistinctIn

\* list_add_tail() changes no position.
LEMMA Appended ==
    ASSUME NEW s \in Seq(Urbs), DistinctIn(s), NEW u \in Urbs, u \notin Range(s)
    PROVE  /\ Append(s, u) \in Seq(Urbs) /\ DistinctIn(Append(s, u))
           /\ Range(s) \cup {u} \subseteq Range(Append(s, u))
           /\ PosIn(Append(s, u), u) = Len(s) + 1
           /\ \A v \in Range(s) : PosIn(Append(s, u), v) = PosIn(s, v)
           /\ Append(s, u) # <<>>
<1> DEFINE r == Append(s, u)
<1>1. r \in Seq(Urbs) /\ Len(r) = Len(s) + 1 /\ Len(s) \in Nat /\ r # <<>>
  BY AppendProperties
<1>2. r[Len(s) + 1] = u /\ \A i \in 1 .. Len(s) : r[i] = s[i]
  BY AppendProperties
<1>3. \A i \in 1 .. Len(s) : s[i] # u
  BY DEF Range
<1> HIDE DEF r
<1>4. \A i \in 1 .. Len(r) : i \in 1 .. Len(s) \/ i = Len(s) + 1
  BY <1>1
<1>5. DistinctIn(r)
  BY <1>2, <1>3, <1>4 DEF DistinctIn
<1>6. Len(s) + 1 \in 1 .. Len(r) /\ \A i \in 1 .. Len(s) : i \in 1 .. Len(r)
  BY <1>1
<1>7. PosIn(r, u) = Len(s) + 1 /\ u \in Range(r)
  BY <1>1, <1>2, <1>5, <1>6, PosAt
<1>8. ASSUME NEW v \in Range(s)
      PROVE  PosIn(r, v) = PosIn(s, v) /\ v \in Range(r)
  <2>1. PosIn(s, v) \in 1 .. Len(s) /\ s[PosIn(s, v)] = v
    BY PosOf
  <2>2. PosIn(s, v) \in 1 .. Len(r) /\ r[PosIn(s, v)] = v
    BY <1>2, <1>6, <2>1
  <2> QED BY <1>1, <1>5, <2>2, PosAt
<1> QED BY <1>1, <1>5, <1>7, <1>8 DEF r

\* list_del(): what was behind the element moves up by one.
LEMMA RemoveAtElements ==
    ASSUME NEW T, NEW s \in Seq(T), NEW k \in 1 .. Len(s)
    PROVE  /\ RemoveAt(s, k) \in Seq(T) /\ Len(RemoveAt(s, k)) = Len(s) - 1
           /\ \A j \in 1 .. Len(s) - 1 : RemoveAt(s, k)[j] = IF j < k THEN s[j] ELSE s[j + 1]
<1> DEFINE before == SubSeq(s, 1, k - 1)
           after == SubSeq(s, k + 1, Len(s))
           r == RemoveAt(s, k)
<1>1. k \in Int /\ Len(s) \in Nat /\ 1 <= k /\ k <= Len(s) /\ \A j \in 1 .. Len(s) : s[j] \in T
  OBVIOUS
<1>2. /\ before \in Seq(T) /\ Len(before) = IF 1 <= k - 1 THEN k - 1 - 1 + 1 ELSE 0
      /\ \A j \in 1 .. (k - 1 - 1 + 1) : before[j] = s[1 + j - 1]
  BY <1>1, SubSeqProperties
<1>3. /\ after \in Seq(T) /\ Len(after) = IF k + 1 <= Len(s) THEN Len(s) - (k + 1) + 1 ELSE 0
      /\ \A j \in 1 .. (Len(s) - (k + 1) + 1) : after[j] = s[k + 1 + j - 1]
  BY <1>1, SubSeqProperties
<1>4. r = before \o after
  BY DEF RemoveAt
<1> HIDE DEF before, after, r
<1>5. Len(before) = k - 1 /\ Len(after) = Len(s) - k
  BY <1>1, <1>2, <1>3
<1>6. /\ before \o after \in Seq(T)
      /\ Len(before \o after) = Len(before) + Len(after)
      /\ \A j \in 1 .. Len(before) + Len(after) : (before \o after)[j] =
             IF j <= Len(before) THEN before[j] ELSE after[j - Len(before)]
  BY <1>2, <1>3, ConcatProperties
<1>7. /\ r \in Seq(T) /\ Len(r) = Len(before) + Len(after)
      /\ \A j \in 1 .. Len(before) + Len(after) : r[j] =
             IF j <= Len(before) THEN before[j] ELSE after[j - Len(before)]
  BY <1>4, <1>6, Zenon
<1>8. /\ r \in Seq(T) /\ Len(r) = Len(s) - 1
      /\ \A j \in 1 .. Len(s) - 1 : r[j] = IF j <= k - 1 THEN before[j] ELSE after[j - (k - 1)]
  BY <1>1, <1>5, <1>7
<1>9. ASSUME NEW j \in 1 .. Len(s) - 1
      PROVE  r[j] = IF j < k THEN s[j] ELSE s[j + 1]
  <2>1. CASE j < k
    BY <1>1, <1>2, <1>8, <2>1
  <2>2. CASE ~(j < k)
    <3>1. j - (k - 1) \in 1 .. (Len(s) - (k + 1) + 1) /\ k + 1 + (j - (k - 1)) - 1 = j + 1
      BY <1>1, <2>2
    <3> QED BY <1>1, <1>3, <1>8, <2>2, <3>1
  <2> QED BY <2>1, <2>2
<1> QED BY <1>8, <1>9 DEF r

\* list_del() keeps the other URBs, and their order.
LEMMA Removed ==
    ASSUME NEW s \in Seq(Urbs), DistinctIn(s), NEW k \in 1 .. Len(s)
    PROVE  /\ RemoveAt(s, k) \in Seq(Urbs) /\ DistinctIn(RemoveAt(s, k))
           /\ \A v \in Range(s) : v # s[k] => v \in Range(RemoveAt(s, k))
<1> DEFINE r == RemoveAt(s, k)
           f(x) == IF x < k THEN x ELSE x + 1
<1>1. k \in Int /\ Len(s) \in Nat /\ 1 <= k /\ k <= Len(s)
  OBVIOUS
<1>2. /\ r \in Seq(Urbs) /\ Len(r) = Len(s) - 1
      /\ \A j \in 1 .. Len(r) : r[j] = s[f(j)]
  BY RemoveAtElements
<1> HIDE DEF r
<1>3. DistinctIn(r)
  <2> SUFFICES ASSUME NEW i \in 1 .. Len(r), NEW j \in 1 .. Len(r), r[i] = r[j]
               PROVE  i = j
    BY DEF DistinctIn
  <2>1. f(i) \in 1 .. Len(s) /\ f(j) \in 1 .. Len(s)
    BY <1>1, <1>2
  <2>2. f(i) = f(j)
    BY <1>2, <2>1 DEF DistinctIn
  <2> QED BY <1>1, <2>2
<1>4. ASSUME NEW v \in Range(s), v # s[k]
      PROVE  v \in Range(r)
  <2>1. PICK j \in 1 .. Len(s) : s[j] = v
    BY DEF Range
  <2>2. \E i \in 1 .. Len(r) : f(i) = j
    <3>1. CASE j < k
      BY <1>1, <1>2, <3>1
    <3>2. CASE j > k
      <4>1. j - 1 \in 1 .. Len(r) /\ f(j - 1) = j
        BY <1>1, <1>2, <3>2
      <4> QED BY <4>1
    <3> QED BY <1>4, <2>1, <3>1, <3>2
  <2>3. PICK i \in 1 .. Len(r) : f(i) = j
    BY <2>2
  <2>4. r[i] = v
    BY <1>2, <2>1, <2>3
  <2> QED BY <1>2, <2>4 DEF Range
<1> QED BY <1>2, <1>3, <1>4 DEF r
-----------------------------------------------------------------------------
(* The invariant.                                                          *)

TypeList ==
    /\ urbp_list \in Seq(Urbs)
    /\ next_frame_urbp \in Urbs \cup {NULL}
    /\ cur \in Urbs \cup {NULL} /\ tmp \in Urbs \cup {NULL}
    /\ tpc \in {"idle", "fired", "scan", "xfer", "stale", "setup", "req", "urb"}

\* An URB is listed once.
Distinct == DistinctIn(urbp_list)

\* dummy_timer() is serving the URB cur.
Serving == {"setup", "xfer", "req"}

\* Where the cursors are set, and that tmp is the URB behind cur.
Cursors ==
    /\ cur # NULL => tpc \in {"scan"} \cup Serving
    /\ tpc \in Serving => cur # NULL
    /\ tmp # NULL => tpc \in Serving /\ Pos(tmp) = Pos(cur) + 1

\* The loop has not gone past the first URB of the next frame.
NotPast == cur # NULL /\ next_frame_urbp # NULL => Pos(cur) <= Pos(next_frame_urbp)

ListInv ==
    /\ TypeList /\ Distinct /\ CursorListed /\ Cursors
    /\ NotPast /\ NextFrameAhead /\ UdevHeld /\ TimerArmed

\* Everything ListInv is about, except whether the timer is armed.
listvars == <<urbp_list, next_frame_urbp, udev, tpc, cur, tmp>>

\* A step that leaves the list and its cursors alone and keeps a timer for listed URBs.
LEMMA QuietStep ==
    ASSUME ListInv, UNCHANGED listvars, TimerArmed'
    PROVE  ListInv'
BY DEF ListInv, listvars, TypeList, Distinct, CursorListed, Cursors, NotPast, NextFrameAhead,
       UdevHeld, Pos, Serving, Listed

\* The URB behind a listed one.
LEMMA SuccIs ==
    ASSUME TypeList, Distinct, NEW u \in Listed
    PROVE  /\ Pos(u) \in 1 .. Len(urbp_list) /\ urbp_list[Pos(u)] = u /\ Pos(u) \in Int
           /\ Succ(u) # NULL => Succ(u) \in Listed /\ Pos(Succ(u)) = Pos(u) + 1
           /\ Succ(u) \in Urbs \cup {NULL}
<1>1. Pos(u) \in 1 .. Len(urbp_list) /\ urbp_list[Pos(u)] = u
  BY PosOf DEF TypeList, Listed, Pos, PosIn
<1>2. CASE Pos(u) = Len(urbp_list)
  BY <1>1, <1>2 DEF Succ
<1>3. CASE Pos(u) # Len(urbp_list)
  <2>1. Pos(u) + 1 \in 1 .. Len(urbp_list) /\ Succ(u) = urbp_list[Pos(u) + 1]
    BY <1>1, <1>3 DEF Succ, TypeList
  <2>2. PosIn(urbp_list, Succ(u)) = Pos(u) + 1 /\ Succ(u) \in Listed
    BY <2>1, PosAt DEF TypeList, Distinct, Listed
  <2>3. Pos(Succ(u)) = Pos(u) + 1
    BY <2>2 DEF Pos, PosIn
  <2>4. Succ(u) \in Urbs
    BY <2>1 DEF TypeList
  <2> QED BY <1>1, <2>2, <2>3, <2>4
<1> QED BY <1>1, <1>2, <1>3

\* dummy_urb_enqueue() adds at the end of the list, behind both cursors.
LEMMA EnqueueStep ==
    ASSUME ListInv, NEW u \in Urbs, dummy_urb_enqueue(u)
    PROVE  ListInv'
<1> USE DEF ListInv
<1>0. /\ u \notin Listed /\ urbp_list' = Append(urbp_list, u) /\ tpc # "scan"
      /\ next_frame_urbp' = IF next_frame_urbp = NULL THEN u ELSE next_frame_urbp
      /\ tpc' = tpc /\ cur' = cur /\ tmp' = tmp
  BY DEF dummy_urb_enqueue, timervars, Locked
<1>1. /\ urbp_list \in Seq(Urbs) /\ DistinctIn(urbp_list) /\ u \notin Range(urbp_list)
  BY <1>0 DEF TypeList, Distinct, Listed
<1>2. /\ urbp_list' \in Seq(Urbs) /\ DistinctIn(urbp_list') /\ urbp_list' # <<>>
      /\ Range(urbp_list) \cup {u} \subseteq Range(urbp_list')
      /\ PosIn(urbp_list', u) = Len(urbp_list) + 1
      /\ \A v \in Range(urbp_list) : PosIn(urbp_list', v) = PosIn(urbp_list, v)
  BY <1>0, <1>1, Appended
<1>3. /\ Pos(u)' = Len(urbp_list) + 1
      /\ \A v \in Listed : Pos(v)' = Pos(v)
      /\ \A v \in Listed : Pos(v) <= Len(urbp_list) /\ Pos(v) \in Int
      /\ Listed \cup {u} \subseteq Listed'
  <2>1. \A v : Pos(v) = PosIn(urbp_list, v) /\ Pos(v)' = PosIn(urbp_list', v)
    BY DEF Pos, PosIn
  <2>2. \A v \in Listed : Pos(v) <= Len(urbp_list) /\ Pos(v) \in Int
    BY <1>1, SuccIs
  <2> QED BY <1>2, <2>1, <2>2 DEF Listed
<1>4. TypeList' /\ Distinct'
  BY <1>0, <1>2 DEF TypeList, Distinct
<1>5. CursorListed'
  BY <1>0, <1>3 DEF CursorListed
<1>6. Cursors'
  BY <1>0, <1>3 DEF Cursors, CursorListed, Serving
<1>7. NotPast' /\ NextFrameAhead'
  <2>1. CASE next_frame_urbp = NULL
    <3>1. next_frame_urbp' = u
      BY <1>0, <2>1
    <3>2. cur # NULL => Pos(cur)' < Pos(u)' /\ Pos(cur)' <= Pos(u)'
      <4>1. Len(urbp_list) \in Int
        BY <1>1
      <4> QED BY <1>0, <1>3, <4>1 DEF CursorListed
    <3>3. tpc \in Serving => cur # NULL
      BY DEF Cursors
    <3> QED BY <1>0, <1>3, <3>1, <3>2, <3>3 DEF NotPast, NextFrameAhead, Serving
  <2>2. CASE next_frame_urbp # NULL
    <3>1. next_frame_urbp' = next_frame_urbp /\ next_frame_urbp \in Listed
      BY <1>0, <2>2 DEF NextFrameAhead
    <3>2. tpc \in Serving => cur # NULL
      BY DEF Cursors
    <3> QED BY <1>0, <1>3, <2>2, <3>1, <3>2 DEF NotPast, NextFrameAhead, CursorListed, Serving
  <2> QED BY <2>1, <2>2
<1>8. UdevHeld' /\ TimerArmed'
  BY <1>2 DEF dummy_urb_enqueue, UdevHeld, TimerArmed
<1> QED BY <1>4, <1>5, <1>6, <1>7, <1>8

\* return_urb takes an URB other than next_frame_urbp off the list and forgets the cursors.
LEMMA ReturnStep ==
    ASSUME ListInv, NEW es, return_urb(es), cur # NULL, cur # next_frame_urbp
    PROVE  ListInv'
<1> USE DEF ListInv
<1>1. cur \in Listed /\ urbp_list \in Seq(Urbs) /\ DistinctIn(urbp_list)
  BY DEF CursorListed, TypeList, Distinct
<1>2. Pos(cur) \in 1 .. Len(urbp_list) /\ urbp_list[Pos(cur)] = cur
  BY <1>1, SuccIs
<1>3. /\ urbp_list' = RemoveAt(urbp_list, Pos(cur))
      /\ tpc' = "urb" /\ cur' = NULL /\ tmp' = NULL
      /\ next_frame_urbp' = next_frame_urbp /\ udev' = udev
  BY DEF return_urb
<1>4. /\ urbp_list' \in Seq(Urbs) /\ DistinctIn(urbp_list')
      /\ \A v \in Listed : v # cur => v \in Listed'
  BY <1>1, <1>2, <1>3, Removed DEF Listed
<1>5. next_frame_urbp # NULL => next_frame_urbp \in Listed'
  BY <1>4 DEF NextFrameAhead
<1>6. udev
  <2>1. urbp_list # <<>>
    BY <1>1, <1>2
  <2> QED BY <2>1 DEF UdevHeld
<1> QED BY <1>3, <1>4, <1>5, <1>6 DEF TypeList, Distinct, CursorListed, Cursors, NotPast,
       NextFrameAhead, UdevHeld, TimerArmed, Serving

\* The loop begins again at the head of the list.
LEMMA RestartStep ==
    ASSUME ListInv, Restart, urbp_list' = urbp_list, udev' = udev,
           next_frame_urbp' \in {next_frame_urbp, NULL}
    PROVE  ListInv'
<1> USE DEF ListInv
<1>1. cur' = (IF urbp_list = <<>> THEN NULL ELSE Head(urbp_list)) /\ tmp' = NULL /\ tpc' = "scan"
  BY DEF Restart
<1>2. CASE urbp_list = <<>>
  BY <1>1, <1>2 DEF TypeList, Distinct, CursorListed, Cursors, NotPast, NextFrameAhead,
     UdevHeld, TimerArmed, Serving, Listed
<1>3. CASE urbp_list # <<>>
  <2>1. /\ urbp_list \in Seq(Urbs) /\ DistinctIn(urbp_list)
        /\ 1 \in 1 .. Len(urbp_list) /\ Head(urbp_list) = urbp_list[1] /\ urbp_list[1] \in Urbs
    BY <1>3 DEF TypeList, Distinct
  <2>2. cur' = urbp_list[1] /\ cur' \in Listed /\ PosIn(urbp_list, cur') = 1
    BY <1>1, <1>3, <2>1, PosAt DEF Listed
  <2>3. Pos(cur)' = 1
    BY <2>2 DEF Pos, PosIn
  <2>4. NextFrameAhead'
    BY <1>1 DEF NextFrameAhead, Listed
  <2>5. next_frame_urbp' # NULL => Pos(next_frame_urbp)' >= 1
    <3>1. ASSUME next_frame_urbp' # NULL
          PROVE  Pos(next_frame_urbp)' >= 1
      <4>1. next_frame_urbp' = next_frame_urbp /\ next_frame_urbp \in Listed
        BY <3>1 DEF NextFrameAhead
      <4>2. Pos(next_frame_urbp) \in 1 .. Len(urbp_list)
        BY <4>1, SuccIs
      <4>3. Pos(next_frame_urbp)' = Pos(next_frame_urbp)
        BY <4>1 DEF Pos
      <4> QED BY <4>2, <4>3
    <3> QED BY <3>1
  <2>6. NotPast'
    BY <2>3, <2>5 DEF NotPast
  <2>7. TypeList' /\ Distinct' /\ CursorListed' /\ Cursors'
    BY <1>1, <2>1, <2>2 DEF TypeList, Distinct, CursorListed, Cursors, Serving, Listed
  <2>8. UdevHeld' /\ TimerArmed'
    BY <1>1 DEF UdevHeld, TimerArmed
  <2> QED BY <2>4, <2>6, <2>7, <2>8
<1> QED BY <1>2, <1>3

\* The loop goes on behind cur: transfer() has left the URB, or it is skipped.
LEMMA GoOnStep ==
    ASSUME ListInv, cur # NULL, cur # next_frame_urbp,
           cur' = tmp \/ cur' = Succ(cur), tmp' = NULL, tpc' = "scan",
           urbp_list' = urbp_list, next_frame_urbp' = next_frame_urbp, udev' = udev
    PROVE  ListInv'
<1> USE DEF ListInv
<1>1. cur \in Listed
  BY DEF CursorListed
<1>2. /\ cur' # NULL => cur' \in Listed /\ Pos(cur') = Pos(cur) + 1
      /\ cur' \in Urbs \cup {NULL}
  BY <1>1, SuccIs DEF CursorListed, Cursors, TypeList
<1>3. next_frame_urbp # NULL => Pos(cur) < Pos(next_frame_urbp)
  <2> SUFFICES ASSUME next_frame_urbp # NULL
               PROVE  Pos(cur) < Pos(next_frame_urbp)
    OBVIOUS
  <2>1. next_frame_urbp \in Listed /\ Pos(cur) <= Pos(next_frame_urbp)
    BY DEF NextFrameAhead, NotPast
  <2>2. /\ Pos(cur) \in Int /\ urbp_list[Pos(cur)] = cur
        /\ Pos(next_frame_urbp) \in Int /\ urbp_list[Pos(next_frame_urbp)] = next_frame_urbp
    BY <1>1, <2>1, SuccIs
  <2> QED BY <2>1, <2>2
<1>4. NotPast'
  <2> SUFFICES ASSUME cur' # NULL, next_frame_urbp # NULL
               PROVE  Pos(cur') <= Pos(next_frame_urbp)
    BY DEF NotPast, Pos
  <2>1. Pos(cur) \in Int /\ Pos(next_frame_urbp) \in Int
    BY <1>1, SuccIs DEF NextFrameAhead
  <2> QED BY <1>2, <1>3, <2>1
<1>5. TypeList' /\ Distinct' /\ CursorListed' /\ Cursors' /\ NextFrameAhead'
  BY <1>2 DEF TypeList, Distinct, CursorListed, Cursors, NextFrameAhead, Serving, Listed
<1>6. UdevHeld' /\ TimerArmed'
  BY DEF UdevHeld, TimerArmed
<1> QED BY <1>4, <1>5, <1>6

\* The loop serves cur, and notes the URB behind it.
LEMMA ServeStep ==
    ASSUME ListInv, tpc = "scan", cur # NULL, cur # next_frame_urbp,
           cur' = cur, tmp' = Succ(cur), tpc' \in Serving,
           urbp_list' = urbp_list, next_frame_urbp' = next_frame_urbp, udev' = udev
    PROVE  ListInv'
<1> USE DEF ListInv
<1>1. cur \in Listed
  BY DEF CursorListed
<1>2. /\ tmp' # NULL => tmp' \in Listed /\ Pos(tmp') = Pos(cur) + 1
      /\ tmp' \in Urbs \cup {NULL}
  BY <1>1, SuccIs
<1>3. next_frame_urbp # NULL => Pos(cur) < Pos(next_frame_urbp)
  <2> SUFFICES ASSUME next_frame_urbp # NULL
               PROVE  Pos(cur) < Pos(next_frame_urbp)
    OBVIOUS
  <2>1. next_frame_urbp \in Listed /\ Pos(cur) <= Pos(next_frame_urbp)
    BY DEF NextFrameAhead, NotPast
  <2>2. /\ Pos(cur) \in Int /\ urbp_list[Pos(cur)] = cur
        /\ Pos(next_frame_urbp) \in Int /\ urbp_list[Pos(next_frame_urbp)] = next_frame_urbp
    BY <1>1, <2>1, SuccIs
  <2> QED BY <2>1, <2>2
<1>4. NotPast' /\ NextFrameAhead'
  BY <1>3 DEF NotPast, NextFrameAhead, Pos, Listed
<1>5. Cursors'
  BY <1>2 DEF Cursors, Pos, Serving
<1>6. TypeList' /\ Distinct' /\ CursorListed'
  BY <1>2 DEF TypeList, Distinct, CursorListed, Serving, Listed
<1>7. UdevHeld' /\ TimerArmed'
  BY DEF UdevHeld, TimerArmed, Serving
<1> QED BY <1>4, <1>5, <1>6, <1>7

\* A step of transfer(), or the return of a callback it waits for, that stays at cur.
LEMMA StayStep ==
    ASSUME ListInv, tpc \in Serving, tpc' \in Serving,
           UNCHANGED <<urbp_list, next_frame_urbp, udev, cur, tmp>>
    PROVE  ListInv'
BY DEF ListInv, TypeList, Distinct, CursorListed, Cursors, NotPast, NextFrameAhead, UdevHeld,
       TimerArmed, Pos, Serving, Listed

\* An URB the loop serves, or gives back, is not past the end of its frame.
LEMMA AtUrbIs ==
    ASSUME ListInv
    PROVE  /\ AtUrb => cur # NULL /\ cur # next_frame_urbp /\ tpc = "scan" /\ tmp = NULL
           /\ tpc \in Serving => cur # NULL /\ cur # next_frame_urbp
<1>1. AtUrb => cur # NULL /\ cur # next_frame_urbp /\ tpc = "scan" /\ tmp = NULL
  BY DEF AtUrb, ListInv, Cursors, Serving
<1>2. ASSUME tpc \in Serving, cur = next_frame_urbp, cur # NULL
      PROVE  FALSE
  <2>1. Pos(cur) \in Int /\ Pos(cur) < Pos(next_frame_urbp)
    BY <1>2, SuccIs DEF ListInv, NextFrameAhead, Serving
  <2> QED BY <1>2, <2>1
<1> QED BY <1>1, <1>2 DEF ListInv, Cursors

\* The steps of the loop over the URBs.
LEMMA ScanStep ==
    ASSUME ListInv, Scan
    PROVE  ListInv'
<1>0. AtUrb
  BY DEF Scan, ScanUnlinked, ScanNoEp, ScanSkip, ScanHalted, ScanStale, handle_control_request,
     ScanSetup, ScanData, Served, InFrame
<1>1. cur # NULL /\ cur # next_frame_urbp /\ tpc = "scan" /\ tmp = NULL
  BY <1>0, AtUrbIs
<1>2. CASE ScanUnlinked \/ ScanNoEp \/ ScanHalted \/ handle_control_request
  BY <1>1, <1>2, ReturnStep DEF ScanUnlinked, ScanNoEp, ScanHalted, handle_control_request
<1>3. CASE ScanSkip
  BY <1>1, <1>3, GoOnStep DEF ScanSkip, hostvars
<1>4. CASE ScanStale
  <2>1. /\ UNCHANGED <<urbp_list, next_frame_urbp, udev, tmp>> /\ tpc' = "stale" /\ cur' = NULL
    BY <1>4 DEF ScanStale
  <2> QED BY <1>1, <2>1 DEF ListInv, TypeList, Distinct, CursorListed, Cursors, NotPast,
         NextFrameAhead, UdevHeld, TimerArmed, Serving, Listed
<1>5. CASE ScanSetup \/ ScanData
  BY <1>1, <1>5, ServeStep DEF ScanSetup, ScanData, hostvars, Serving
<1> QED BY <1>2, <1>3, <1>4, <1>5 DEF Scan

\* The steps of transfer() and of the callbacks.
LEMMA XferStep ==
    ASSUME ListInv, Xfer \/ SetupReturn \/ SetupStall \/ ReqReturn \/ ReqReturnDone
    PROVE  ListInv'
<1>0. tpc \in Serving
  BY DEF Xfer, XferNak, XferShort, XferRequestFull, XferUrbFull, XferRescan, XferExhausted,
     SetupReturn, SetupStall, ReqReturn, ReqReturnDone, Serving
<1>1. cur # NULL /\ cur # next_frame_urbp
  BY <1>0, AtUrbIs
<1>2. ASSUME Continue
      PROVE  ListInv'
  BY <1>1, <1>2, GoOnStep DEF Continue, hostvars
<1>3. ASSUME NEW i, NEW used, NEW urbdone, XferRequestDone(i, used, urbdone)
      PROVE  ListInv'
  BY <1>0, <1>3, StayStep DEF XferRequestDone, hostvars, Serving
<1>4. CASE XferUrbFull \/ SetupStall \/ ReqReturnDone
  BY <1>1, <1>4, ReturnStep DEF XferUrbFull, SetupStall, ReqReturnDone
<1>5. CASE XferRescan \/ SetupReturn \/ ReqReturn
  BY <1>0, <1>5, StayStep DEF XferRescan, SetupReturn, ReqReturn, hostvars, Serving
<1>6. CASE XferNak \/ XferShort \/ XferRequestFull \/ XferExhausted
  BY <1>2, <1>3, <1>6 DEF XferNak, XferShort, XferRequestFull, XferExhausted
<1> QED BY <1>4, <1>5, <1>6 DEF Xfer

\* The beginning and the end of dummy_timer(), and the restarts of its loop.
LEMMA LoopStep ==
    ASSUME ListInv, TimerFire \/ TimerBegin \/ TimerNoUrbs \/ TimerEnd \/ StaleReturn \/ UrbReturn
    PROVE  ListInv'
<1>1. CASE TimerBegin \/ StaleReturn \/ UrbReturn
  BY <1>1, RestartStep DEF TimerBegin, StaleReturn, UrbReturn, hostvars
<1>2. CASE TimerFire
  <2>1. UNCHANGED <<urbp_list, next_frame_urbp, udev, cur, tmp>> /\ tpc = "idle" /\ tpc' = "fired"
    BY <1>2 DEF TimerFire
  <2> QED BY <2>1 DEF ListInv, TypeList, Distinct, CursorListed, Cursors, NotPast,
         NextFrameAhead, UdevHeld, TimerArmed, Serving, Listed
<1>3. CASE TimerNoUrbs
  <2>1. /\ UNCHANGED <<urbp_list, next_frame_urbp, udev, cur, tmp>> /\ ~udev
        /\ tpc = "fired" /\ tpc' = "idle"
    BY <1>3 DEF TimerNoUrbs, hostvars
  <2> QED BY <2>1 DEF ListInv, TypeList, Distinct, CursorListed, Cursors, NotPast,
         NextFrameAhead, UdevHeld, TimerArmed, Serving, Listed
<1>4. CASE TimerEnd
  <2>1. /\ UNCHANGED <<urbp_list, next_frame_urbp, rh_running>>
        /\ tpc' = "idle" /\ cur' = NULL /\ tmp' = NULL
    BY <1>4 DEF TimerEnd
  <2>2. (udev <=> urbp_list # <<>>)' /\ (urbp_list # <<>> /\ rh_running => pending')
    BY <1>4, Zenon DEF TimerEnd
  <2>3. UdevHeld' /\ TimerArmed'
    BY <2>1, <2>2 DEF UdevHeld, TimerArmed
  <2> QED BY <2>1, <2>3 DEF ListInv, TypeList, Distinct, CursorListed, Cursors, NotPast,
         NextFrameAhead, Serving, Listed
<1> QED BY <1>1, <1>2, <1>3, <1>4

\* The host's other calls.
LEMMA HostListStep ==
    ASSUME ListInv, HostStep
    PROVE  ListInv'
<1>1. CASE \E u \in Urbs : dummy_urb_enqueue(u)
  BY <1>1, EnqueueStep
<1>2. CASE \E u \in Urbs : dummy_urb_dequeue(u)
  <2>1. UNCHANGED listvars /\ rh_running' = rh_running /\ (pending => pending')
    BY <1>2, Zenon DEF dummy_urb_dequeue, listvars, timervars
  <2>2. TimerArmed'
    BY <2>1 DEF ListInv, TimerArmed, listvars
  <2> QED BY <2>1, <2>2, QuietStep
<1>3. CASE dummy_bus_suspend
  <2>1. UNCHANGED listvars /\ ~rh_running'
    BY <1>3 DEF dummy_bus_suspend, listvars, timervars
  <2>2. TimerArmed'
    BY <2>1 DEF TimerArmed
  <2> QED BY <2>1, <2>2, QuietStep
<1>4. CASE dummy_bus_resume
  <2>1. UNCHANGED listvars /\ (urbp_list # <<>> => pending')
    BY <1>4, Zenon DEF dummy_bus_resume, listvars, timervars
  <2>2. TimerArmed'
    BY <2>1 DEF TimerArmed, listvars
  <2> QED BY <2>1, <2>2, QuietStep
<1> QED BY <1>1, <1>2, <1>3, <1>4 DEF HostStep

\* What the gadget does concerns neither the list nor the timer.
LEMMA GadgetFrame ==
    ASSUME GadgetStep
    PROVE  UNCHANGED <<hostvars, timervars, did_setup>>
<1>1. CASE LinkDown \/ LinkUp \/ ReadyChange \/ NukeResume \/ QueueAdd
  BY <1>1 DEF LinkDown, LinkUp, ReadyChange, NukeResume, QueueAdd
<1>2. ASSUME NEW e, dummy_enable(e) \/ dummy_disable(e)
      PROVE  UNCHANGED <<hostvars, timervars, did_setup>>
  BY <1>2 DEF dummy_enable, dummy_disable
<1>3. ASSUME NEW e, NEW r, dummy_queue(e, r) \/ dummy_dequeue(e, r)
      PROVE  UNCHANGED <<hostvars, timervars, did_setup>>
  BY <1>3 DEF dummy_queue, dummy_dequeue
<1>4. ASSUME NEW e, NEW v, NEW w, dummy_set_halt_and_wedge(e, v, w)
      PROVE  UNCHANGED <<hostvars, timervars, did_setup>>
  BY <1>4 DEF dummy_set_halt_and_wedge
<1> QED BY <1>1, <1>2, <1>3, <1>4 DEF GadgetStep

LEMMA GadgetListStep ==
    ASSUME ListInv, GadgetStep
    PROVE  ListInv'
<1>1. UNCHANGED listvars /\ UNCHANGED <<pending, rh_running>>
  BY GadgetFrame DEF hostvars, timervars, listvars
<1>2. TimerArmed'
  BY <1>1 DEF ListInv, TimerArmed, listvars
<1> QED BY <1>1, <1>2, QuietStep

LEMMA ListInvStep == ListInv /\ [Next]_vars => ListInv'
<1> SUFFICES ASSUME ListInv, [Next]_vars PROVE ListInv'
  OBVIOUS
<1>1. CASE TimerStep
  BY <1>1, ScanStep, XferStep, LoopStep DEF TimerStep
<1>2. CASE HostStep
  BY <1>2, HostListStep
<1>3. CASE GadgetStep
  BY <1>3, GadgetListStep
<1>4. CASE UNCHANGED vars
  <2>1. UNCHANGED listvars /\ UNCHANGED <<pending, rh_running>>
    BY <1>4 DEF vars, hostvars, timervars, listvars
  <2>2. TimerArmed'
    BY <2>1 DEF ListInv, TimerArmed, listvars
  <2> QED BY <2>1, <2>2, QuietStep
<1> QED BY <1>1, <1>2, <1>3, <1>4 DEF Next

LEMMA ListInvInit == Init => ListInv
BY DEF Init, ListInv, TypeList, Distinct, DistinctIn, CursorListed, Cursors, NotPast,
   NextFrameAhead, UdevHeld, TimerArmed, Serving

LEMMA ListInvariant == Spec => []ListInv
BY ListInvInit, ListInvStep, PTL DEF Spec

\* dummy_timer() never stands on, or keeps, an URB that has left the list, however the
\* host submits and cancels while the lock is released.
THEOREM CursorsAreListed == Spec => []CursorListed
<1>1. ListInv => CursorListed
  BY DEF ListInv
<1> QED BY <1>1, ListInvariant, PTL

\* An URB submitted while a frame is served waits for the next one: the loop never reaches
\* next_frame_urbp, and no URB is removed from under it.
THEOREM NextFrameIsAhead == Spec => []NextFrameAhead
<1>1. ListInv => NextFrameAhead
  BY DEF ListInv
<1> QED BY <1>1, ListInvariant, PTL

\* The reference to the usb_device is held while URBs are listed, and given up by the timer
\* function that finds the list empty.
THEOREM UdevIsHeld == Spec => []UdevHeld
<1>1. ListInv => UdevHeld
  BY DEF ListInv
<1> QED BY <1>1, ListInvariant, PTL

\* With the root hub running, listed URBs are never left without a timer.
THEOREM TimerIsArmed == Spec => []TimerArmed
<1>1. ListInv => TimerArmed
  BY DEF ListInv
<1> QED BY <1>1, ListInvariant, PTL
=============================================================================
