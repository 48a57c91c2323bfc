---------------------------- MODULE RxRingProofs ----------------------------
(***************************************************************************)
(* The RX ring, for every ring size, budget and page pool: the poll finds  *)
(* exactly the received frames, the engine writes only into pages of the   *)
(* ring and no page is lost.                                               *)
(***************************************************************************)
EXTENDS RxRing, TLAPS

-----------------------------------------------------------------------------
(* The inductive invariant.                                                *)

\* The first frame of the ring is looked for after the last descriptor that
\* was re-armed; the engine is at, or before, the doorbell seen from there.
BehindDoorbell ==
  link = Up => Dist(NextIdx, rx_dma_idx) <= Dist(NextIdx, rx_cpu_idx)

\* A descriptor that ndo_open has filled.
Filled(i) == link = Up \/ (link.st = "refill" /\ i < link.i)

\* A filled descriptor points the engine to the page the driver thinks is
\* there, the others have none; the refill leaves no DONE bit set.
FilledInv ==
  \A i \in Idx :
    /\ buf[i] # NoPage <=> Filled(i)
    /\ Filled(i) => info1[i] = buf[i]
    /\ Filled(i) /\ link.st = "refill" => ~ done[i]

\* No page is in the ring twice.
OncePerPage == \A i, j \in Idx : buf[i] # NoPage /\ buf[i] = buf[j] => i = j

\* Polls run on an open interface; only the refill counts descriptors.
LinkInv ==
  /\ link.st # "refill" => link.i = 0
  /\ poll # Idle => link = Up

RxIInv ==
  /\ TypeOK /\ LinkInv
  /\ FilledInv /\ OncePerPage /\ NoPageLost
  /\ FramesInOrder /\ BehindDoorbell

-----------------------------------------------------------------------------
(* Index arithmetic.                                                       *)

\* Advancing an index by one.
LEMMA NthOne ==
  ASSUME NEW a \in Idx
  PROVE  /\ Nth(a, 1) \in Idx
         /\ a + 1 < N => Nth(a, 1) = a + 1
         /\ a + 1 = N => Nth(a, 1) = 0
BY RingAssumption DEF Nth, Idx

\* Dist is the forward distance, whichever index is the larger one.
LEMMA DistCases ==
  ASSUME NEW a \in Idx, NEW b \in Idx
  PROVE  /\ Dist(a, b) \in 0 .. N - 1
         /\ a <= b => Dist(a, b) = b - a
         /\ b < a => Dist(a, b) = b - a + N
BY RingAssumption DEF Dist, Idx

\* The distance tells the indices apart.
LEMMA DistSame ==
  ASSUME NEW a \in Idx, NEW b \in Idx, NEW c \in Idx, Dist(a, b) = Dist(a, c)
  PROVE  b = c
<1>1. /\ a <= b => Dist(a, b) = b - a
      /\ b < a => Dist(a, b) = b - a + N
  BY DistCases
<1>2. /\ a <= c => Dist(a, c) = c - a
      /\ c < a => Dist(a, c) = c - a + N
  BY DistCases
<1> QED
  BY <1>1, <1>2, RingAssumption DEF Idx

\* From one index on, an index that is not the same is one step nearer.
LEMMA DistNearer ==
  ASSUME NEW a \in Idx, NEW b \in Idx
  PROVE  /\ a # b => Dist(Nth(a, 1), b) = Dist(a, b) - 1 /\ Dist(a, b) > 0
         /\ a = b => Dist(Nth(a, 1), b) = N - 1 /\ Dist(a, b) = 0
<1>1. /\ Nth(a, 1) \in Idx
      /\ a + 1 < N => Nth(a, 1) = a + 1
      /\ a + 1 = N => Nth(a, 1) = 0
  BY NthOne
<1>2. /\ Dist(Nth(a, 1), b) \in 0 .. N - 1
      /\ Nth(a, 1) <= b => Dist(Nth(a, 1), b) = b - Nth(a, 1)
      /\ b < Nth(a, 1) => Dist(Nth(a, 1), b) = b - Nth(a, 1) + N
  BY <1>1, DistCases
<1>3. /\ Dist(a, b) \in 0 .. N - 1
      /\ a <= b => Dist(a, b) = b - a
      /\ b < a => Dist(a, b) = b - a + N
  BY DistCases
<1> QED
  BY <1>1, <1>2, <1>3, RingAssumption DEF Idx

\* The next index is one step farther, unless the way round is complete.
LEMMA DistFarther ==
  ASSUME NEW a \in Idx, NEW b \in Idx, Dist(a, b) < N - 1
  PROVE  Dist(a, Nth(b, 1)) = Dist(a, b) + 1
<1>1. /\ Nth(b, 1) \in Idx
      /\ b + 1 < N => Nth(b, 1) = b + 1
      /\ b + 1 = N => Nth(b, 1) = 0
  BY NthOne
<1>2. /\ a <= Nth(b, 1) => Dist(a, Nth(b, 1)) = Nth(b, 1) - a
      /\ Nth(b, 1) < a => Dist(a, Nth(b, 1)) = Nth(b, 1) - a + N
  BY <1>1, DistCases
<1>3. /\ a <= b => Dist(a, b) = b - a
      /\ b < a => Dist(a, b) = b - a + N
  BY DistCases
<1> QED
  BY <1>1, <1>2, <1>3, RingAssumption DEF Idx

-----------------------------------------------------------------------------
(* What the type invariant says of single values.                          *)

LEMMA TypeFacts ==
  ASSUME TypeOK
  PROVE  /\ NextIdx \in Idx
         /\ link.st \in {"down", "refill", "up"} /\ link.i \in 0 .. N
         /\ \A i \in Idx : buf[i] \in Pages \cup {NoPage} /\ done[i] \in BOOLEAN
         /\ \A p \in Pages : owner[p] \in {"pool", "ring", "stack"}
<1>1. NextIdx \in Idx
  BY NthOne DEF TypeOK, NextIdx
<1> QED
  BY <1>1 DEF TypeOK

\* The states of the interface exclude each other.
LEMMA LinkStates ==
  /\ Up.st = "up" /\ Down.st = "down" /\ Up.i = 0 /\ Down.i = 0
  /\ Up # Down
  /\ Up \in [st : {"down", "refill", "up"}, i : 0 .. N]
  /\ Down \in [st : {"down", "refill", "up"}, i : 0 .. N]
<1>1. 0 \in 0 .. N
  BY RingAssumption
<1> QED
  BY <1>1 DEF Up, Down

-----------------------------------------------------------------------------
(* Steps.                                                                  *)

\* A page of the pool is in no descriptor; a filled one has a ring page.
LEMMA PagesApart ==
  ASSUME RxIInv, NEW i \in Idx
  PROVE  /\ \A p \in Pages : owner[p] # "ring" => buf[i] # p
         /\ buf[i] # NoPage => buf[i] \in Pages /\ owner[buf[i]] = "ring"
BY TypeFacts DEF RxIInv, NoPageLost

LEMMA OpenKeeps ==
  ASSUME RxIInv, open
  PROVE  RxIInv'
<1>1. /\ link = Down /\ link' = [st |-> "refill", i |-> 0]
      /\ UNCHANGED <<indices, done, info1, buf, owner, poll>>
  BY DEF open
<1>2. /\ link'.st = "refill" /\ link'.i = 0
      /\ link' \in [st : {"down", "refill", "up"}, i : 0 .. N]
  BY <1>1, RingAssumption
<1>3. link' # Up /\ link # Up /\ link.st = "down" /\ poll = Idle
  BY <1>1, <1>2, LinkStates DEF RxIInv, LinkInv
<1>4. TypeOK'
  BY <1>1, <1>2 DEF RxIInv, TypeOK, indices, Idx, Idle
<1>5. LinkInv'
  BY <1>1, <1>2, <1>3 DEF LinkInv, Idle
<1>6. FilledInv'
  <2>1. \A i \in Idx : buf[i] = NoPage
    BY <1>3 DEF RxIInv, FilledInv, Filled
  <2>2. ASSUME NEW i \in Idx PROVE ~ Filled(i)'
    BY <1>2, <1>3 DEF Filled, Idx
  <2>3. buf' = buf
    BY <1>1
  <2> QED
    BY <2>1, <2>2, <2>3 DEF FilledInv, Idx
<1>7. OncePerPage' /\ NoPageLost'
  BY <1>1 DEF RxIInv, OncePerPage, NoPageLost, Idx
<1>8. FramesInOrder' /\ BehindDoorbell'
  BY <1>3 DEF FramesInOrder, BehindDoorbell, Up
<1> QED
  BY <1>4, <1>5, <1>6, <1>7, <1>8 DEF RxIInv

\* The refill fills the next empty descriptor with a page of the pool.
LEMMA RefillKeeps ==
  ASSUME RxIInv, NEW p \in Pages, refill(p)
  PROVE  RxIInv'
<1> DEFINE k == link.i
<1>1. /\ link.st = "refill" /\ k \in 0 .. N /\ k < N /\ owner[p] = "pool"
      /\ owner' = [owner EXCEPT ![p] = "ring"]
      /\ buf' = [buf EXCEPT ![k] = p]
      /\ info1' = [info1 EXCEPT ![k] = p]
      /\ done' = [done EXCEPT ![k] = FALSE]
      /\ link' = [link EXCEPT !.i = @ + 1]
      /\ UNCHANGED <<cpu_idx, rx_cpu_idx, rx_dma_idx, poll>>
  BY TypeFacts DEF RxIInv, refill, RefillGoesOn, indices
<1>2. k \in Idx /\ k + 1 \in 0 .. N
  BY <1>1, RingAssumption DEF Idx
<1>3. /\ link' \in [st : {"down", "refill", "up"}, i : 0 .. N]
      /\ link'.st = "refill" /\ link'.i = k + 1
  BY <1>1, <1>2 DEF RxIInv, TypeOK
<1>4. link # Up /\ link' # Up /\ poll = Idle
  BY <1>1, <1>3, LinkStates DEF RxIInv, LinkInv
<1>5. /\ buf \in [Idx -> Pages \cup {NoPage}] /\ info1 \in [Idx -> Pages \cup {NoPage}]
      /\ done \in [Idx -> BOOLEAN] /\ owner \in [Pages -> {"pool", "ring", "stack"}]
  BY DEF RxIInv, TypeOK
<1> HIDE DEF k
<1>6. TypeOK'
  <2>1. owner' \in [Pages -> {"pool", "ring", "stack"}]
    BY <1>1, <1>5
  <2>2. buf' \in [Idx -> Pages \cup {NoPage}] /\ info1' \in [Idx -> Pages \cup {NoPage}]
    BY <1>1, <1>2, <1>5
  <2>3. done' \in [Idx -> BOOLEAN]
    BY <1>1, <1>2, <1>5
  <2>4. /\ cpu_idx' \in Idx /\ rx_cpu_idx' \in Idx /\ rx_dma_idx' \in Idx
        /\ poll' \in 0 .. Idle
    BY <1>1 DEF RxIInv, TypeOK
  <2> QED
    BY <1>3, <2>1, <2>2, <2>3, <2>4 DEF TypeOK, Idx, Idle
<1>7. LinkInv'
  BY <1>1, <1>3, <1>4 DEF LinkInv, Idle
<1>8. \A i \in Idx : buf[i] # p
  BY <1>1, PagesApart
<1>9. p # NoPage
  BY PageAssumption
<1>10. buf[k] = NoPage
  BY <1>1, <1>2, <1>4 DEF RxIInv, FilledInv, Filled, k
<1>11. /\ \A i \in Idx : buf'[i] = IF i = k THEN p ELSE buf[i]
       /\ \A i \in Idx : info1'[i] = IF i = k THEN p ELSE info1[i]
       /\ \A i \in Idx : done'[i] = IF i = k THEN FALSE ELSE done[i]
       /\ \A q \in Pages : owner'[q] = IF q = p THEN "ring" ELSE owner[q]
  BY <1>1, <1>2, <1>5
<1>12. FilledInv'
  <2>1. ASSUME NEW i \in Idx PROVE Filled(i)' <=> i = k \/ Filled(i)
    <3>1. Filled(i)' <=> i < k + 1
      BY <1>3, <1>4 DEF Filled
    <3>2. Filled(i) <=> i < k
      BY <1>1, <1>4 DEF Filled, k
    <3>3. i < k + 1 <=> i = k \/ i < k
      BY <1>2 DEF Idx
    <3> QED
      BY <3>1, <3>2, <3>3
  <2>2. ASSUME NEW i \in Idx
        PROVE  /\ buf'[i] # NoPage <=> Filled(i)'
               /\ Filled(i)' => info1'[i] = buf'[i]
               /\ Filled(i)' => ~ done'[i]
    <3>1. /\ buf[i] # NoPage <=> Filled(i)
          /\ Filled(i) => info1[i] = buf[i]
          /\ Filled(i) => ~ done[i]
      BY <1>1 DEF RxIInv, FilledInv
    <3>2. CASE i = k
      BY <3>2, <2>1, <1>9, <1>11
    <3>3. CASE i # k
      BY <3>1, <3>3, <2>1, <1>11
    <3> QED
      BY <3>2, <3>3
  <2> QED
    BY <2>2 DEF FilledInv, Idx
<1>13. OncePerPage'
  <2>1. \A i, j \in Idx : buf[i] # NoPage /\ buf[i] = buf[j] => i = j
    BY DEF RxIInv, OncePerPage
  <2>2. \A i, j \in Idx : buf'[i] # NoPage /\ buf'[i] = buf'[j] => i = j
    BY <2>1, <1>8, <1>11
  <2> QED
    BY <2>2 DEF OncePerPage, Idx
<1>14. NoPageLost'
  <2>1. \A q \in Pages : owner[q] = "ring" <=> \E i \in Idx : buf[i] = q
    BY DEF RxIInv, NoPageLost
  <2>2. ASSUME NEW q \in Pages PROVE owner'[q] = "ring" <=> \E i \in Idx : buf'[i] = q
    <3>1. CASE q = p
      BY <3>1, <1>2, <1>11
    <3>2. CASE q # p
      <4>1. \A i \in Idx : buf'[i] = q <=> buf[i] = q
        BY <3>2, <1>9, <1>10, <1>11, PageAssumption
      <4> QED
        BY <4>1, <3>2, <2>1, <1>11
    <3> QED
      BY <3>1, <3>2
  <2> QED
    BY <2>2 DEF NoPageLost, Idx
<1>15. FramesInOrder' /\ BehindDoorbell'
  BY <1>4 DEF FramesInOrder, BehindDoorbell, Up
<1> QED
  BY <1>6, <1>7, <1>12, <1>13, <1>14, <1>15 DEF RxIInv

\* The ring is full: the frames start at descriptor 0.
LEMMA ProgramKeeps ==
  ASSUME RxIInv, program_rings
  PROVE  RxIInv'
<1>1. /\ link = [st |-> "refill", i |-> N] /\ link' = Up
      /\ cpu_idx' = N - 1 /\ rx_cpu_idx' = N - 1 /\ rx_dma_idx' = 0
      /\ UNCHANGED <<done, info1, buf, owner, poll>>
  BY DEF program_rings
<1>2. 0 \in Idx /\ N - 1 \in Idx
  BY RingAssumption DEF Idx
<1>3. link.st = "refill" /\ link.i = N
  BY <1>1
<1>4. TypeOK'
  BY <1>1, <1>2, LinkStates DEF RxIInv, TypeOK, Idx, Idle
<1>5. LinkInv'
  BY <1>1, LinkStates DEF LinkInv, Up, Idle
<1>6. \A i \in Idx : buf[i] # NoPage /\ info1[i] = buf[i] /\ ~ done[i]
  <2>1. \A i \in Idx : Filled(i)
    BY <1>3, RingAssumption DEF Filled, Idx
  <2> QED
    BY <1>3, <2>1 DEF RxIInv, FilledInv
<1>7. FilledInv'
  <2>1. link'.st # "refill"
    BY <1>1, LinkStates
  <2>2. \A i \in Idx : Filled(i)'
    BY <1>1 DEF Filled
  <2>3. \A i \in Idx : buf'[i] # NoPage /\ info1'[i] = buf'[i]
    BY <1>1, <1>6
  <2> QED
    BY <2>1, <2>2, <2>3 DEF FilledInv, Idx
<1>8. OncePerPage' /\ NoPageLost'
  BY <1>1 DEF RxIInv, OncePerPage, NoPageLost, Idx
<1>9. NextIdx' = 0
  BY <1>1, <1>2, NthOne, RingAssumption DEF NextIdx, Nth
<1>10. FramesInOrder'
  <2>1. \A i \in Idx : ~ (Dist(0, i) < Dist(0, 0))
    BY <1>2, DistCases, RingAssumption
  <2>2. \A i \in Idx : ~ done'[i]
    BY <1>1, <1>6
  <2>3. Nth(cpu_idx', 1) = 0
    BY <1>9 DEF NextIdx, Nth
  <2>4. \A i \in Idx : done'[i] <=> Dist(Nth(cpu_idx', 1), i) < Dist(Nth(cpu_idx', 1), rx_dma_idx')
    BY <2>1, <2>2, <2>3, <1>1
  <2> QED
    BY <2>4 DEF FramesInOrder, Idx, Dist, Nth
<1>11. BehindDoorbell'
  <2>1. Dist(0, 0) <= Dist(0, N - 1)
    BY <1>2, DistCases, RingAssumption
  <2>2. Dist(NextIdx', rx_dma_idx') <= Dist(NextIdx', rx_cpu_idx')
    BY <2>1, <1>1, <1>9
  <2> QED
    BY <2>2 DEF BehindDoorbell, Dist, NextIdx
<1> QED
  BY <1>4, <1>5, <1>7, <1>8, <1>10, <1>11 DEF RxIInv

\* ndo_stop and the error path of ndo_open: the pages go back.
LEMMA ReleaseKeeps ==
  ASSUME RxIInv, rx_release_ring, poll = Idle,
         UNCHANGED <<rx_cpu_idx, rx_dma_idx, done, info1, poll>>
  PROVE  RxIInv'
<1>1. /\ owner' = [p \in Pages |-> IF p \in Released THEN "pool" ELSE owner[p]]
      /\ buf' = [i \in Idx |-> NoPage]
      /\ cpu_idx' = 0 /\ link' = Down
  BY DEF rx_release_ring
<1>2. 0 \in Idx
  BY RingAssumption DEF Idx
<1>3. link' # Up /\ link'.st = "down" /\ link'.i = 0
  BY <1>1, LinkStates
<1>4. \A i \in Idx : buf'[i] = NoPage
  BY <1>1
<1>5. \A p \in Pages : owner'[p] # "ring"
  <2>1. ASSUME NEW p \in Pages, p \notin Released PROVE owner[p] # "ring"
    BY <2>1 DEF RxIInv, NoPageLost, Released
  <2> QED
    BY <1>1, <2>1
<1>6. TypeOK'
  <2>1. owner' \in [Pages -> {"pool", "ring", "stack"}]
    BY <1>1, TypeFacts DEF RxIInv
  <2>2. buf' \in [Idx -> Pages \cup {NoPage}]
    BY <1>1
  <2> QED
    BY <1>1, <1>2, <2>1, <2>2, LinkStates DEF RxIInv, TypeOK, Idx, Idle
<1>7. LinkInv'
  BY <1>3 DEF LinkInv, Idle
<1>8. FilledInv'
  <2>1. \A i \in Idx : ~ Filled(i)'
    BY <1>3 DEF Filled, Up
  <2> QED
    BY <1>4, <2>1 DEF FilledInv, Idx
<1>9. OncePerPage'
  BY <1>4 DEF OncePerPage, Idx
<1>10. NoPageLost'
  <2>1. \A p \in Pages : owner'[p] = "ring" <=> \E i \in Idx : buf'[i] = p
    BY <1>4, <1>5, PageAssumption
  <2> QED
    BY <2>1 DEF NoPageLost, Idx
<1>11. FramesInOrder' /\ BehindDoorbell'
  BY <1>3 DEF FramesInOrder, BehindDoorbell, Up
<1> QED
  BY <1>6, <1>7, <1>8, <1>9, <1>10, <1>11 DEF RxIInv

\* The engine stores a frame: it stays within what the doorbell allows.
LEMMA ReceiveKeeps ==
  ASSUME RxIInv, HwReceive
  PROVE  RxIInv'
<1>1. /\ link = Up /\ rx_dma_idx # rx_cpu_idx
      /\ done' = [done EXCEPT ![rx_dma_idx] = TRUE]
      /\ rx_dma_idx' = Nth(rx_dma_idx, 1)
      /\ UNCHANGED <<cpu_idx, rx_cpu_idx, info1, buf, owner, poll, link>>
  BY DEF HwReceive
<1>2. /\ cpu_idx \in Idx /\ rx_cpu_idx \in Idx /\ rx_dma_idx \in Idx
      /\ done \in [Idx -> BOOLEAN] /\ NextIdx \in Idx /\ Nth(rx_dma_idx, 1) \in Idx
  BY TypeFacts, NthOne DEF RxIInv, TypeOK
<1>3. TypeOK'
  BY <1>1, <1>2 DEF RxIInv, TypeOK, Idx, Idle
<1>4. LinkInv' /\ OncePerPage' /\ NoPageLost'
  BY <1>1 DEF RxIInv, LinkInv, OncePerPage, NoPageLost, Idx, Idle, Up
<1>5. FilledInv'
  <2>1. link'.st # "refill" /\ link.st # "refill"
    BY <1>1, LinkStates
  <2>2. \A i \in Idx : Filled(i)' <=> Filled(i)
    BY <1>1 DEF Filled
  <2>3. \A i \in Idx : (buf[i] # NoPage <=> Filled(i)) /\ (Filled(i) => info1[i] = buf[i])
    BY DEF RxIInv, FilledInv
  <2>4. buf' = buf /\ info1' = info1
    BY <1>1
  <2> QED
    BY <2>1, <2>2, <2>3, <2>4 DEF FilledInv, Idx
<1> DEFINE a == NextIdx
           d == Dist(a, rx_dma_idx)
<1>6. /\ NextIdx' = a /\ a \in Idx
      /\ d \in 0 .. N - 1 /\ Dist(a, rx_cpu_idx) \in 0 .. N - 1
      /\ d <= Dist(a, rx_cpu_idx)
  BY <1>1, <1>2, DistCases DEF RxIInv, BehindDoorbell, NextIdx, Nth
<1>7. d < Dist(a, rx_cpu_idx)
  BY <1>1, <1>2, <1>6, DistSame
<1>8. Dist(a, rx_dma_idx') = d + 1
  BY <1>1, <1>2, <1>6, <1>7, DistFarther, RingAssumption
<1>9. BehindDoorbell'
  <2>1. Dist(a, rx_dma_idx') <= Dist(a, rx_cpu_idx')
    BY <1>1, <1>6, <1>7, <1>8
  <2> QED
    BY <1>6, <2>1 DEF BehindDoorbell, Dist
<1>10. FramesInOrder'
  <2>1. ASSUME NEW i \in Idx PROVE done'[i] <=> Dist(a, i) < Dist(a, rx_dma_idx')
    <3>1. done[i] <=> Dist(a, i) < d
      BY <1>1 DEF RxIInv, FramesInOrder, NextIdx
    <3>2. Dist(a, i) \in 0 .. N - 1
      BY <1>2, DistCases
    <3>3. CASE i = rx_dma_idx
      <4>1. done'[i]
        BY <1>1, <1>2, <3>3
      <4>2. Dist(a, i) < d + 1
        BY <3>3, <1>6
      <4> QED
        BY <1>8, <4>1, <4>2
    <3>4. CASE i # rx_dma_idx
      <4>1. done'[i] = done[i]
        BY <1>1, <1>2, <3>4
      <4>2. Dist(a, i) # d
        BY <1>2, <3>4, DistSame
      <4>3. Dist(a, i) < d + 1 <=> Dist(a, i) < d
        BY <4>2, <3>2, <1>6
      <4> QED
        BY <1>8, <3>1, <4>1, <4>3
    <3> QED
      BY <3>3, <3>4
  <2>2. Nth(cpu_idx', 1) = a
    BY <1>1 DEF NextIdx
  <2>3. \A i \in Idx : done'[i] <=> Dist(Nth(cpu_idx', 1), i) < Dist(Nth(cpu_idx', 1), rx_dma_idx')
    BY <2>1, <2>2
  <2> QED
    BY <2>3 DEF FramesInOrder, Idx, Dist, Nth
<1> QED
  BY <1>3, <1>4, <1>5, <1>9, <1>10 DEF RxIInv

\* A page outside the ring changes hands.
LEMMA FreesKeeps ==
  ASSUME RxIInv, NEW p \in Pages, StackFrees(p)
  PROVE  RxIInv'
<1>1. /\ owner[p] = "stack" /\ owner' = [owner EXCEPT ![p] = "pool"]
      /\ UNCHANGED <<cpu_idx, rx_cpu_idx, rx_dma_idx, done, info1, buf, poll, link>>
  BY DEF StackFrees, indices
<1>2. owner \in [Pages -> {"pool", "ring", "stack"}]
  BY DEF RxIInv, TypeOK
<1>3. TypeOK'
  <2>1. owner' \in [Pages -> {"pool", "ring", "stack"}]
    BY <1>1, <1>2
  <2> QED
    BY <1>1, <2>1 DEF RxIInv, TypeOK, Idx, Idle
<1>4. LinkInv' /\ FilledInv' /\ OncePerPage' /\ FramesInOrder' /\ BehindDoorbell'
  BY <1>1 DEF RxIInv, LinkInv, FilledInv, Filled, OncePerPage, FramesInOrder, BehindDoorbell,
              NextIdx, Nth, Dist, Idx, Idle, Up
<1>5. NoPageLost'
  <2>1. \A q \in Pages : owner'[q] = "ring" <=> owner[q] = "ring"
    BY <1>1, <1>2
  <2>2. buf' = buf
    BY <1>1
  <2> QED
    BY <2>1, <2>2 DEF RxIInv, NoPageLost, Idx
<1> QED
  BY <1>3, <1>4, <1>5 DEF RxIInv

\* Beginning and ending a poll move the doorbell to the last re-armed
\* descriptor, the farthest one, or not at all.
LEMMA PollEndsKeep ==
  ASSUME RxIInv, poll_begin \/ poll_end
  PROVE  RxIInv'
<1>1. /\ link = Up /\ poll' \in 0 .. Idle
      /\ rx_cpu_idx' \in {rx_cpu_idx, cpu_idx}
      /\ UNCHANGED <<cpu_idx, rx_dma_idx, done, info1, buf, owner, link>>
  BY PollAssumption DEF poll_begin, poll_end, Doorbell, indices, RxIInv, LinkInv, Idle
<1>2. /\ cpu_idx \in Idx /\ rx_cpu_idx' \in Idx /\ rx_cpu_idx \in Idx
      /\ rx_dma_idx \in Idx /\ NextIdx \in Idx
  BY <1>1, TypeFacts DEF RxIInv, TypeOK
<1>3. TypeOK'
  BY <1>1, <1>2 DEF RxIInv, TypeOK, Idx, Idle
<1>4. FilledInv' /\ OncePerPage' /\ NoPageLost' /\ FramesInOrder'
  BY <1>1 DEF RxIInv, FilledInv, Filled, OncePerPage, NoPageLost, FramesInOrder, Nth, Dist,
              Idx, Up
<1>5. LinkInv'
  BY <1>1, LinkStates DEF LinkInv, Idle, Up
<1>6. BehindDoorbell'
  <2>1. Dist(NextIdx, rx_dma_idx) \in 0 .. N - 1 /\ Dist(NextIdx, cpu_idx) = N - 1
    <3>1. Dist(Nth(cpu_idx, 1), cpu_idx) = N - 1
      BY <1>2, DistNearer
    <3> QED
      BY <3>1, <1>2, DistCases DEF NextIdx
  <2>2. Dist(NextIdx, rx_dma_idx) <= Dist(NextIdx, rx_cpu_idx)
    BY <1>1 DEF RxIInv, BehindDoorbell
  <2>3. Dist(NextIdx, rx_dma_idx) <= Dist(NextIdx, rx_cpu_idx')
    BY <1>1, <2>1, <2>2, RingAssumption
  <2>4. NextIdx' = NextIdx /\ rx_dma_idx' = rx_dma_idx
    BY <1>1 DEF NextIdx, Nth
  <2> QED
    BY <2>3, <2>4 DEF BehindDoorbell, Dist
<1> QED
  BY <1>3, <1>4, <1>5, <1>6 DEF RxIInv

\* A frame is taken: the window of received frames begins one descriptor later.
LEMMA RearmIndices ==
  ASSUME RxIInv, Frame, NEW p \in Pages, rearm(p), UNCHANGED <<rx_dma_idx, link>>
  PROVE  /\ link = Up /\ cpu_idx' \in Idx /\ poll' \in 0 .. Idle
         /\ done' \in [Idx -> BOOLEAN]
         /\ LinkInv' /\ FramesInOrder' /\ BehindDoorbell'
<1> DEFINE a == NextIdx
           b == Nth(a, 1)
           d == Dist(a, rx_dma_idx)
<1>1. /\ poll \in 0 .. Idle /\ poll < Budget /\ done[a]
      /\ done' = [done EXCEPT ![a] = FALSE]
      /\ cpu_idx' = a /\ poll' = poll + 1
      /\ rx_cpu_idx' = rx_cpu_idx /\ rx_dma_idx' = rx_dma_idx /\ link' = link
  BY DEF rearm, Frame, RxIInv, TypeOK
<1>2. /\ rx_cpu_idx \in Idx /\ rx_dma_idx \in Idx /\ a \in Idx /\ b \in Idx
      /\ done \in [Idx -> BOOLEAN]
  BY TypeFacts, NthOne DEF RxIInv, TypeOK
<1>3. link = Up
  BY <1>1, PollAssumption DEF RxIInv, LinkInv, Idle
<1>4. poll' \in 0 .. Idle
  BY <1>1, PollAssumption DEF Idle
<1>5. done' \in [Idx -> BOOLEAN]
  BY <1>1, <1>2
<1>6. LinkInv'
  BY <1>1, <1>3, LinkStates DEF LinkInv, Idle, Up
<1>7. \A i \in Idx : done[i] <=> Dist(a, i) < d
  BY <1>3 DEF RxIInv, FramesInOrder, NextIdx
<1>8. /\ d \in 0 .. N - 1 /\ d > 0 /\ a # rx_dma_idx
      /\ Dist(b, rx_dma_idx) = d - 1
  <2>1. Dist(a, a) = 0
    BY <1>2, DistNearer
  <2>2. d > 0
    BY <1>1, <1>2, <1>7, <2>1
  <2>3. a # rx_dma_idx
    BY <2>1, <2>2, <1>2
  <2> QED
    BY <2>2, <2>3, <1>2, DistCases, DistNearer
<1>9. NextIdx' = b
  BY <1>1 DEF NextIdx, Nth
<1>10. BehindDoorbell'
  <2>1. d <= Dist(a, rx_cpu_idx) /\ Dist(a, rx_cpu_idx) \in 0 .. N - 1
    BY <1>2, <1>3, DistCases DEF RxIInv, BehindDoorbell
  <2>2. a # rx_cpu_idx
    <3>1. Dist(a, a) = 0
      BY <1>2, DistNearer
    <3> QED
      BY <3>1, <2>1, <1>8
  <2>3. Dist(b, rx_cpu_idx) = Dist(a, rx_cpu_idx) - 1
    BY <2>2, <1>2, DistNearer
  <2>4. Dist(b, rx_dma_idx) <= Dist(b, rx_cpu_idx)
    BY <2>1, <2>3, <1>8
  <2> QED
    BY <2>4, <1>1, <1>9 DEF BehindDoorbell, Dist
<1>11. FramesInOrder'
  <2>1. ASSUME NEW i \in Idx PROVE done'[i] <=> Dist(b, i) < d - 1
    <3>1. CASE i = a
      <4>1. Dist(b, i) = N - 1
        BY <3>1, <1>2, DistNearer
      <4>2. ~ done'[i]
        BY <3>1, <1>1, <1>2
      <4> QED
        BY <4>1, <4>2, <1>8, RingAssumption
    <3>2. CASE i # a
      <4>1. Dist(b, i) = Dist(a, i) - 1 /\ Dist(a, i) \in 0 .. N - 1
        BY <3>2, <1>2, DistNearer, DistCases
      <4>2. done'[i] = done[i]
        BY <3>2, <1>1, <1>2
      <4>3. Dist(a, i) - 1 < d - 1 <=> Dist(a, i) < d
        BY <4>1, <1>8
      <4> QED
        BY <4>1, <4>2, <4>3, <1>7
    <3> QED
      BY <3>1, <3>2
  <2>2. Nth(cpu_idx', 1) = b /\ Dist(b, rx_dma_idx') = d - 1
    BY <1>1, <1>8
  <2>3. \A i \in Idx : done'[i] <=> Dist(Nth(cpu_idx', 1), i) < Dist(Nth(cpu_idx', 1), rx_dma_idx')
    BY <2>1, <2>2
  <2> QED
    BY <2>3 DEF FramesInOrder, Idx, Dist, Nth
<1> QED
  BY <1>1, <1>2, <1>3, <1>4, <1>5, <1>6, <1>10, <1>11

\* The page that is re-armed is the frame's own, or one of the pool that takes
\* its place while the frame's goes to the pool or the stack.
Swapped(p) ==
  \/ p = buf[NextIdx] /\ owner' = owner
  \/ /\ owner[p] = "pool"
     /\ \E to \in {"pool", "stack"} :
          owner' = [owner EXCEPT ![p] = "ring", ![buf[NextIdx]] = to]

LEMMA RearmKeeps ==
  ASSUME RxIInv, Frame, NEW p \in Pages, rearm(p), Swapped(p),
         UNCHANGED <<rx_dma_idx, link>>
  PROVE  RxIInv'
<1> DEFINE a == NextIdx
           old == buf[a]
<1>1. /\ link = Up /\ cpu_idx' \in Idx /\ poll' \in 0 .. Idle
      /\ done' \in [Idx -> BOOLEAN]
      /\ LinkInv' /\ FramesInOrder' /\ BehindDoorbell'
  BY RearmIndices
<1>2. /\ buf' = [buf EXCEPT ![a] = p] /\ info1' = [info1 EXCEPT ![a] = p]
      /\ UNCHANGED <<rx_cpu_idx, rx_dma_idx, link>>
  BY DEF rearm
<1>3. /\ buf \in [Idx -> Pages \cup {NoPage}] /\ info1 \in [Idx -> Pages \cup {NoPage}]
      /\ owner \in [Pages -> {"pool", "ring", "stack"}] /\ a \in Idx
  BY TypeFacts DEF RxIInv, TypeOK
<1>4. /\ \A i \in Idx : buf[i] # NoPage /\ info1[i] = buf[i]
      /\ \A i, j \in Idx : buf[i] = buf[j] => i = j
      /\ \A q \in Pages : owner[q] = "ring" <=> \E i \in Idx : buf[i] = q
  <2>1. \A i \in Idx : Filled(i)
    BY <1>1 DEF Filled
  <2> QED
    BY <2>1 DEF RxIInv, FilledInv, OncePerPage, NoPageLost
<1>5. old \in Pages /\ owner[old] = "ring" /\ p # NoPage
  BY <1>3, <1>4, PageAssumption
<1> DEFINE Page(i) == IF i = a THEN p ELSE buf[i]
<1>6. \A i \in Idx : buf'[i] = Page(i) /\ info1'[i] = IF i = a THEN p ELSE info1[i]
  BY <1>2, <1>3
\* The page is not in another descriptor.
<1>7. \A i \in Idx : i # a => buf[i] # p
  <2>1. CASE p = old
    BY <2>1, <1>3, <1>4
  <2>2. CASE owner[p] = "pool"
    BY <2>2, <1>4
  <2> QED
    BY <2>1, <2>2 DEF Swapped
<1>8. /\ owner' \in [Pages -> {"pool", "ring", "stack"}]
      /\ \A q \in Pages : owner'[q] = "ring" <=> q = p \/ (owner[q] = "ring" /\ q # old)
  <2>1. CASE p = old /\ owner' = owner
    BY <2>1, <1>3, <1>5
  <2>2. CASE owner[p] = "pool" /\ \E to \in {"pool", "stack"} :
               owner' = [owner EXCEPT ![p] = "ring", ![old] = to]
    <3>1. PICK to \in {"pool", "stack"} : owner' = [owner EXCEPT ![p] = "ring", ![old] = to]
      BY <2>2
    <3>2. p # old
      BY <2>2, <1>5
    <3>3. \A q \in Pages : owner'[q] = IF q = old THEN to ELSE IF q = p THEN "ring" ELSE owner[q]
      BY <3>1, <1>3, <1>5
    <3>4. owner' \in [Pages -> {"pool", "ring", "stack"}]
      BY <3>1, <1>3, <1>5
    <3> QED
      BY <3>1, <3>2, <3>3, <3>4
  <2> QED
    BY <2>1, <2>2 DEF Swapped
<1>9. TypeOK'
  <2>1. buf' \in [Idx -> Pages \cup {NoPage}] /\ info1' \in [Idx -> Pages \cup {NoPage}]
    BY <1>2, <1>3
  <2> QED
    BY <1>1, <1>2, <1>8, <2>1 DEF RxIInv, TypeOK, Idx, Idle
<1>10. FilledInv'
  <2>1. \A i \in Idx : Filled(i)'
    BY <1>1, <1>2 DEF Filled
  <2>2. link'.st # "refill"
    BY <1>1, <1>2, LinkStates
  <2>3. \A i \in Idx : buf'[i] # NoPage /\ info1'[i] = buf'[i]
    BY <1>4, <1>5, <1>6
  <2> QED
    BY <2>1, <2>2, <2>3 DEF FilledInv, Idx
<1>11. OncePerPage'
  <2>1. \A i, j \in Idx : buf'[i] = buf'[j] => i = j
    BY <1>4, <1>6, <1>7
  <2> QED
    BY <2>1 DEF OncePerPage, Idx
<1>12. NoPageLost'
  <2>1. ASSUME NEW q \in Pages PROVE owner'[q] = "ring" <=> \E i \in Idx : buf'[i] = q
    <3>1. CASE q = p
      BY <3>1, <1>3, <1>6, <1>8
    <3>2. CASE q # p
      <4>1. (\E i \in Idx : buf'[i] = q) <=> \E i \in Idx : i # a /\ buf[i] = q
        BY <3>2, <1>6
      <4>2. (\E i \in Idx : i # a /\ buf[i] = q) <=> (\E i \in Idx : buf[i] = q) /\ q # old
        BY <1>3, <1>4
      <4> QED
        BY <3>2, <4>1, <4>2, <1>4, <1>8
    <3> QED
      BY <3>1, <3>2
  <2> QED
    BY <2>1 DEF NoPageLost, Idx
<1> QED
  BY <1>1, <1>9, <1>10, <1>11, <1>12 DEF RxIInv

\* Every way a frame can go.
LEMMA ConsumeKeeps ==
  ASSUME RxIInv, Consume
  PROVE  RxIInv'
<1>1. CASE rx_drop_no_page
  <2>1. /\ Frame /\ rearm(buf[NextIdx]) /\ Swapped(buf[NextIdx])
        /\ UNCHANGED <<rx_dma_idx, link>>
    BY <1>1 DEF rx_drop_no_page, Swapped
  <2>2. buf[NextIdx] \in Pages
    <3>1. link = Up
      BY <2>1, PollAssumption DEF Frame, RxIInv, TypeOK, LinkInv, Idle
    <3>2. NextIdx \in Idx /\ buf[NextIdx] # NoPage
      BY <3>1, TypeFacts DEF RxIInv, FilledInv, Filled
    <3> QED
      BY <3>2, PagesApart
  <2> QED
    BY <2>1, <2>2, RearmKeeps
<1>2. ASSUME NEW p \in Pages, rx_drop_no_skb(p) \/ rx_ppe_report(p) \/ rx_deliver(p)
      PROVE  RxIInv'
  <2>1. /\ Frame /\ rearm(p) /\ Swapped(p) /\ UNCHANGED <<rx_dma_idx, link>>
    BY <1>2 DEF rx_drop_no_skb, rx_ppe_report, rx_deliver, recycle, Swapped
  <2> QED
    BY <2>1, RearmKeeps
<1> QED
  BY <1>1, <1>2 DEF Consume

LEMMA InitHolds ==
  ASSUME Init
  PROVE  RxIInv
<1>1. 0 \in Idx /\ Idle \in 0 .. Idle /\ link = Down /\ link # Up /\ link.st = "down"
  BY RingAssumption, PollAssumption, LinkStates DEF Init, Idx, Idle
<1>2. TypeOK
  BY <1>1, LinkStates DEF Init, TypeOK
<1>3. LinkInv
  BY <1>1, LinkStates DEF Init, LinkInv
<1>4. FilledInv /\ OncePerPage
  BY <1>1 DEF Init, FilledInv, Filled, OncePerPage
<1>5. NoPageLost
  BY PageAssumption DEF Init, NoPageLost
<1>6. FramesInOrder /\ BehindDoorbell
  BY <1>1 DEF FramesInOrder, BehindDoorbell
<1> QED
  BY <1>2, <1>3, <1>4, <1>5, <1>6 DEF RxIInv

-----------------------------------------------------------------------------
(* Theorems.                                                               *)

\* The invariant is inductive: ring, page pool, indices and the states of the
\* interface.
THEOREM RxInvariance == Spec => []RxIInv
<1>1. Init => RxIInv
  BY InitHolds
<1>2. RxIInv /\ [Next]_vars => RxIInv'
  <2> SUFFICES ASSUME RxIInv, [Next]_vars PROVE RxIInv'
    OBVIOUS
  <2>1. CASE open
    BY <2>1, OpenKeeps
  <2>2. CASE program_rings
    BY <2>2, ProgramKeeps
  <2>3. CASE open_fails
    <3>1. poll = Idle
      <4>1. link # Up
        BY <2>3, LinkStates DEF open_fails
      <4> QED
        BY <4>1 DEF RxIInv, LinkInv
    <3> QED
      BY <2>3, <3>1, ReleaseKeeps DEF open_fails
  <2>4. CASE stop
    BY <2>4, ReleaseKeeps DEF stop
  <2>5. ASSUME NEW p \in Pages, refill(p) PROVE RxIInv'
    BY <2>5, RefillKeeps
  <2>6. ASSUME NEW p \in Pages, StackFrees(p) PROVE RxIInv'
    BY <2>6, FreesKeeps
  <2>7. CASE HwReceive
    BY <2>7, ReceiveKeeps
  <2>8. CASE poll_begin \/ poll_end
    BY <2>8, PollEndsKeep
  <2>9. CASE Consume
    BY <2>9, ConsumeKeeps
  <2>10. CASE UNCHANGED vars
    BY <2>10 DEF vars, RxIInv, TypeOK, LinkInv, FilledInv, Filled, OncePerPage, NoPageLost,
                 FramesInOrder, BehindDoorbell, NextIdx, Nth, Dist, Idx, Idle, Up
  <2> QED
    BY <2>1, <2>2, <2>3, <2>4, <2>5, <2>6, <2>7, <2>8, <2>9, <2>10 DEF Next
<1> QED
  BY <1>1, <1>2, PTL DEF Spec

\* The poll finds every received frame, in order and once, and the engine
\* overwrites none that was not taken, for every ring size.
THEOREM FramesInOrderAlways == Spec => []FramesInOrder
<1>1. RxIInv => FramesInOrder
  BY DEF RxIInv
<1> QED
  BY <1>1, RxInvariance, PTL

\* The engine writes only into pages of this ring, each in it once, whatever
\* failed while its descriptor was re-armed.
THEOREM WritesStayInRingAlways == Spec => []WritesStayInRing
<1>1. RxIInv => WritesStayInRing
  <2> SUFFICES ASSUME RxIInv, link = Up
               PROVE  \A i \in Idx :
                        /\ info1[i] = buf[i] /\ buf[i] # NoPage
                        /\ owner[buf[i]] = "ring"
                        /\ \A j \in Idx : buf[i] = buf[j] => i = j
    BY DEF WritesStayInRing
  <2>1. \A i \in Idx : buf[i] # NoPage /\ info1[i] = buf[i]
    BY DEF RxIInv, FilledInv, Filled
  <2>2. \A i \in Idx : owner[buf[i]] = "ring"
    BY <2>1, PagesApart
  <2>3. \A i, j \in Idx : buf[i] = buf[j] => i = j
    BY <2>1 DEF RxIInv, OncePerPage
  <2> QED
    BY <2>1, <2>2, <2>3
<1> QED
  BY <1>1, RxInvariance, PTL

\* A page the ring is charged for is in it, in the refill, on its error path,
\* in operation and after ndo_stop.
THEOREM NoPageLostAlways == Spec => []NoPageLost
<1>1. RxIInv => NoPageLost
  BY DEF RxIInv
<1> QED
  BY <1>1, RxInvariance, PTL
=============================================================================
